------------------------------ MODULE CellProofs -----------------------------
(***************************************************************************)
(* Proofs about the data cells, for every number of getters, of values and *)
(* of secondary values: DataCell, Coupler and TripleCoupler alike.         *)
(***************************************************************************)
EXTENDS Cell, TLAPS

-----------------------------------------------------------------------------
\* What the steps of a getter are made of.

\* A method that returns leaves every other getter where it is.
LEMMA ReturnStep ==
    ASSUME TypeOK, NEW g \in Getters,
           NEW r \in {"Ok", "ChannelEmpty", "ChannelClosed", "Timeout"},
           NEW vs \in SUBSET Val, Return(g, r, vs)
    PROVE  /\ st' \in [Getters -> {"idle", "waiting", "woken", "timedout"}]
           /\ mode' \in [Getters -> {"none", "block", "timed"}]
           /\ last' \in [res : {"none", "Ok", "ChannelEmpty", "ChannelClosed", "Timeout"},
                         vals : SUBSET Val]
           /\ last'.vals = vs
           /\ st'[g] = "idle"
           /\ \A h \in Getters \ {g} : st'[h] = st[h]
BY DEF Return, TypeOK

\* One look at the cell, from the call or from a return of wait, keeps the
\* types, and a cell with a primary value is left by it with no such value.
LEMMA LookStep ==
    ASSUME TypeOK, NEW g \in Getters,
           NEW md \in {"none", "block", "timed", "try"},
           TakeAll(g) \/ NothingToTake(g, md)
    PROVE  TypeOK' /\ primary' = NoVal
<1>1. CASE TakeAll(g)
  <2> DEFINE vs == ({primary} \cup {extra[x] : x \in Extras}) \ {NoVal}
  <2>1. vs \in SUBSET Val
    BY DEF TypeOK
  <2>2. Return(g, "Ok", vs)
    BY <1>1 DEF TakeAll
  <2> HIDE DEF vs
  <2>3. /\ st' \in [Getters -> {"idle", "waiting", "woken", "timedout"}]
        /\ mode' \in [Getters -> {"none", "block", "timed"}]
        /\ last' \in [res : {"none", "Ok", "ChannelEmpty", "ChannelClosed", "Timeout"},
                      vals : SUBSET Val]
    BY <2>1, <2>2, ReturnStep
  <2> QED BY <1>1, <2>3 DEF TakeAll, TypeOK
<1>2. CASE NothingToTake(g, md)
  <2>1. primary' = NoVal /\ UNCHANGED <<cell, fresh>>
    BY <1>2 DEF NothingToTake, cell
  <2>2. CASE Return(g, "ChannelEmpty", {})
    <3>1. /\ st' \in [Getters -> {"idle", "waiting", "woken", "timedout"}]
          /\ mode' \in [Getters -> {"none", "block", "timed"}]
          /\ last' \in [res : {"none", "Ok", "ChannelEmpty", "ChannelClosed", "Timeout"},
                        vals : SUBSET Val]
      BY <2>2, ReturnStep
    <3> QED BY <2>1, <3>1 DEF TypeOK, cell
  <2>3. CASE /\ md # "try" /\ UNCHANGED last
             /\ st' = [st EXCEPT ![g] = "waiting"]
             /\ mode' = [mode EXCEPT ![g] = md]
    BY <2>1, <2>3 DEF TypeOK, cell
  <2> QED BY <1>2, <2>2, <2>3 DEF NothingToTake
<1> QED BY <1>1, <1>2

\* set wakes a getter if there is one to wake, and no other moves.
LEMMA SetStep ==
    ASSUME TypeOK, NEW v \in Val, Set(v)
    PROVE  /\ st' \in [Getters -> {"idle", "waiting", "woken", "timedout"}]
           /\ Waiting # {} => Woken' # {}
           /\ Waiting = {} => st' = st
<1>1. PICK W \in NotifyOne : st' = Wake(W)
  BY DEF Set
<1>2. W \subseteq Waiting /\ (Waiting # {} => W # {}) /\ (Waiting = {} => W = {})
  BY <1>1 DEF NotifyOne
<1>3. st' \in [Getters -> {"idle", "waiting", "woken", "timedout"}]
  BY <1>1 DEF Wake, TypeOK
<1>4. \A g \in W : g \in Getters /\ st'[g] = "woken"
  BY <1>1, <1>2 DEF Wake, Waiting
<1>5. Waiting = {} => st' = st
  BY <1>1, <1>2 DEF Wake, TypeOK
<1> QED BY <1>2, <1>3, <1>4, <1>5 DEF Woken

-----------------------------------------------------------------------------
\* Type correctness alone is inductive here, and so is the absence of lost
\* wakeups once the types are known.

IInv == TypeOK /\ NoLostValue

\* No step of any getter or setter leaves a getter asleep beside a value.
LEMMA StepIInv ==
    ASSUME IInv, [Next]_vars
    PROVE  IInv'
<1> USE CellAssumption
<1>0. TypeOK /\ NoLostValue
  BY DEF IInv
<1>1. ASSUME NEW v \in Val, Set(v) PROVE IInv'
  <2>1. TypeOK'
    BY <1>0, <1>1, SetStep DEF Set, TypeOK
  <2>2. Waiting = {} => Waiting' = {}
    BY <1>0, <1>1, SetStep DEF Waiting
  <2>3. Waiting # {} => Woken' # {}
    BY <1>0, <1>1, SetStep
  <2> QED BY <2>1, <2>2, <2>3 DEF IInv, NoLostValue
<1>2. ASSUME NEW v \in Val, NEW x \in Extras, SetExtra(x, v) PROVE IInv'
  BY <1>0, <1>2 DEF SetExtra, IInv, TypeOK, NoLostValue, Waiting, Woken
<1>3. CASE Close
  <2>1. TypeOK'
    BY <1>0, <1>3 DEF Close, TypeOK, Wake, Waiting
  <2>2. Waiting' = {}
    BY <1>0, <1>3 DEF Close, Wake, Waiting, TypeOK
  <2> QED BY <2>1, <2>2 DEF IInv, NoLostValue
<1>4. ASSUME NEW g \in Getters, NEW md \in {"block", "timed", "try"}, GetCall(g, md)
      PROVE  IInv'
  <2>1. CASE GetClosed(g)
    <3>1. Return(g, "ChannelClosed", {}) /\ UNCHANGED <<cell, fresh>>
      BY <2>1 DEF GetClosed
    <3>2. TypeOK'
      BY <1>0, <3>1, ReturnStep DEF TypeOK, cell
    <3>3. Waiting' = Waiting /\ Woken' = Woken
      BY <1>0, <1>4, <3>1, ReturnStep DEF GetCall, Waiting, Woken
    <3> QED BY <1>0, <3>1, <3>2, <3>3 DEF IInv, NoLostValue, cell
  <2>2. CASE TakeAll(g) \/ NothingToTake(g, md)
    BY <1>0, <2>2, LookStep DEF IInv, NoLostValue
  <2> QED BY <1>4, <2>1, <2>2 DEF GetCall
<1>5. ASSUME NEW g \in Getters, GetResume(g) PROVE IInv'
  <2>1. mode[g] \in {"none", "block", "timed", "try"}
    BY <1>0 DEF TypeOK
  <2> QED BY <1>0, <1>5, <2>1, LookStep DEF GetResume, IInv, NoLostValue
<1>6. ASSUME NEW g \in Getters, TimeOut(g) PROVE IInv'
  <2>1. TypeOK' /\ UNCHANGED cell
    BY <1>0, <1>6 DEF TimeOut, TypeOK, cell
  <2>2. Waiting' \subseteq Waiting /\ Woken' = Woken
    BY <1>0, <1>6 DEF TimeOut, TypeOK, Waiting, Woken
  <2> QED BY <1>0, <2>1, <2>2 DEF IInv, NoLostValue, cell
<1>7. ASSUME NEW g \in Getters, ReturnTimeout(g) PROVE IInv'
  <2>1. Return(g, "Timeout", {}) /\ UNCHANGED <<cell, fresh>>
    BY <1>7 DEF ReturnTimeout
  <2>2. TypeOK'
    BY <1>0, <2>1, ReturnStep DEF TypeOK, cell
  <2>3. Waiting' = Waiting /\ Woken' = Woken
    BY <1>0, <1>7, <2>1, ReturnStep DEF ReturnTimeout, Waiting, Woken
  <2> QED BY <1>0, <2>1, <2>2, <2>3 DEF IInv, NoLostValue, cell
<1>8. CASE UNCHANGED vars
  BY <1>0, <1>8 DEF vars, cell, IInv, TypeOK, NoLostValue, Waiting, Woken
<1> QED
  BY <1>1, <1>2, <1>3, <1>4, <1>5, <1>6, <1>7, <1>8 DEF Next

\* The invariant holds in every reachable state.
LEMMA Invariance == Spec => []IInv
<1>1. Init => IInv
  <2>1. ASSUME Init PROVE TypeOK
    <3>1. /\ primary \in Val \cup {NoVal} /\ closed \in BOOLEAN
          /\ extra \in [Extras -> Val \cup {NoVal}] /\ fresh \in SUBSET Val
      BY <2>1 DEF Init
    <3>2. /\ st \in [Getters -> {"idle", "waiting", "woken", "timedout"}]
          /\ mode \in [Getters -> {"none", "block", "timed"}]
      BY <2>1 DEF Init
    <3>3. last \in [res : {"none", "Ok", "ChannelEmpty", "ChannelClosed", "Timeout"},
                   vals : SUBSET Val]
      BY <2>1 DEF Init
    <3> QED BY <3>1, <3>2, <3>3 DEF TypeOK
  <2>2. Init => NoLostValue
    BY DEF Init, NoLostValue
  <2> QED BY <2>1, <2>2 DEF IInv
<1>2. IInv /\ [Next]_vars => IInv'
  BY StepIInv
<1> QED BY <1>1, <1>2, PTL DEF Spec

\* Every variable of the cells keeps its type.
THEOREM TypeCorrect == Spec => []TypeOK
<1>1. IInv => TypeOK
  BY DEF IInv
<1> QED BY <1>1, Invariance, PTL

\* No wakeup of data_available is lost: however set, get, get_timeout, try_get
\* and close interleave, a getter is blocked beside a primary value only while
\* another one is on its way to fetch it.
THEOREM NoLostValueCorrect == Spec => []NoLostValue
<1>1. IInv => NoLostValue
  BY DEF IInv
<1> QED BY <1>1, Invariance, PTL

-----------------------------------------------------------------------------
\* One look at the cell takes secondary values only together with a primary one.
LEMMA LookKeepsExtras ==
    ASSUME TypeOK, NEW g \in Getters, NEW md,
           TakeAll(g) \/ NothingToTake(g, md), NEW x \in Extras,
           extra[x] # NoVal, extra'[x] = NoVal
    PROVE  {extra[x], primary} \subseteq last'.vals
<1>1. TakeAll(g)
  BY DEF NothingToTake, cell
<1>2. last'.vals = ({primary} \cup {extra[y] : y \in Extras}) \ {NoVal} /\ primary # NoVal
  BY <1>1 DEF TakeAll, Return
<1> QED BY <1>2

\* A secondary value leaves the cell only by being overwritten, or together
\* with a primary value, into the hands of the getter that took both.
THEOREM ExtrasStayCoupledCorrect == Spec => ExtrasStayCoupled
<1> DEFINE Coupled == \A x \in Extras : extra[x] # NoVal /\ extra'[x] = NoVal
                          => {extra[x], primary} \subseteq last'.vals
<1>1. TypeOK /\ [Next]_vars => [Coupled]_vars
  <2> SUFFICES ASSUME TypeOK, Next, NEW x \in Extras,
                      extra[x] # NoVal, extra'[x] = NoVal
               PROVE  {extra[x], primary} \subseteq last'.vals
    OBVIOUS
  <2>1. ASSUME NEW v \in Val, NEW y \in Extras, SetExtra(y, v) PROVE FALSE
    BY <2>1, CellAssumption DEF SetExtra, TypeOK
  <2>2. \A v \in Val : ~Set(v)
    BY DEF Set
  <2>3. ~Close
    BY DEF Close
  <2>4. ASSUME NEW g \in Getters, NEW md \in {"block", "timed", "try"}, GetCall(g, md)
        PROVE  TakeAll(g) \/ NothingToTake(g, md)
    BY <2>4 DEF GetCall, GetClosed, cell
  <2>5. \A g \in Getters : ~TimeOut(g) /\ ~ReturnTimeout(g)
    BY DEF TimeOut, ReturnTimeout, cell
  <2> QED
    BY <2>1, <2>2, <2>3, <2>4, <2>5, LookKeepsExtras DEF Next, GetResume
<1> QED BY <1>1, TypeCorrect, PTL DEF Spec, ExtrasStayCoupled

=============================================================================
