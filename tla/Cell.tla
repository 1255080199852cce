--------------------------------- MODULE Cell --------------------------------
(***************************************************************************)
(* The data cells of src/cell: DataCell, Coupler and TripleCoupler.  They  *)
(* are the same code with no, one and two secondary values beside the      *)
(* primary one, so Extras is the set of secondary values: {} for DataCell, *)
(* {"second"} for Coupler, {"second", "third"} for TripleCoupler.          *)
(*                                                                         *)
(* As in BaseChannel a step is one critical section.  Setters never block, *)
(* so they need no identity; getters wait on data_available.               *)
(***************************************************************************)
EXTENDS Integers, FiniteSets

CONSTANTS Getters, Extras, Val, NoVal

ASSUME CellAssumption == IsFiniteSet(Getters) /\ NoVal \notin Val

VARIABLES
    primary,  \* CellValue.primary (DataCell: current)
    extra,    \* CellValue.second and .third
    closed,   \* CellValue.closed
    st,       \* st[g]: idle, waiting, woken or timedout
    mode,     \* mode[g]: the method a blocked getter is in
    fresh,    \* values nobody has set yet
    last      \* what the last method to return returned: [res, vals]

cell == <<primary, extra, closed>>
vars == <<cell, st, mode, fresh, last>>

Waiting == {g \in Getters : st[g] = "waiting"}
Woken == {g \in Getters : st[g] = "woken"}

NotifyOne == IF Waiting = {} THEN {{}} ELSE {{g} : g \in Waiting}
Wake(W) == [g \in Getters |-> IF g \in W THEN "woken" ELSE st[g]]

\* Mutant: nobody is notified.
SetSilent(v) ==
    /\ v \in fresh
    /\ fresh' = fresh \ {v}
    /\ primary' = v
    /\ UNCHANGED <<extra, closed, st, mode, last>>

\* set and replace of the primary value: the old one is overwritten.
Set(v) ==
    /\ v \in fresh
    /\ fresh' = fresh \ {v}
    /\ primary' = v
    /\ \E W \in NotifyOne : st' = Wake(W)
    /\ UNCHANGED <<extra, closed, mode, last>>

\* set_second, replace_second, set_third, replace_third: nobody is notified.
SetExtra(x, v) ==
    /\ v \in fresh
    /\ fresh' = fresh \ {v}
    /\ extra' = [extra EXCEPT ![x] = v]
    /\ UNCHANGED <<primary, closed, st, mode, last>>

Close ==
    /\ closed' = TRUE
    /\ st' = Wake(Waiting)
    /\ UNCHANGED <<primary, extra, mode, fresh, last>>

-----------------------------------------------------------------------------
Return(g, r, vs) ==
    /\ st' = [st EXCEPT ![g] = "idle"]
    /\ mode' = [mode EXCEPT ![g] = "none"]
    /\ last' = [res |-> r, vals |-> vs]

\* The primary value is taken, and with it whatever secondary ones are there.
TakeAll(g) ==
    /\ primary # NoVal
    /\ Return(g, "Ok", ({primary} \cup {extra[x] : x \in Extras}) \ {NoVal})
    /\ primary' = NoVal
    /\ extra' = [x \in Extras |-> NoVal]
    /\ UNCHANGED <<closed, fresh>>

\* Mutant: the secondary values are taken before the primary one is looked at.
NothingToTakeDrops(g, md) ==
    /\ primary = NoVal
    /\ md = "try" /\ Return(g, "ChannelEmpty", {})
    /\ extra' = [x \in Extras |-> NoVal]
    /\ UNCHANGED <<primary, closed, fresh>>

\* Mutant: try_get blocks.
NothingToTakeBlocks(g, md) ==
    /\ primary = NoVal
    /\ st' = [st EXCEPT ![g] = "waiting"]
    /\ mode' = [mode EXCEPT ![g] = md]
    /\ UNCHANGED <<cell, fresh, last>>

NothingToTake(g, md) ==
    /\ primary = NoVal
    /\ \/ md = "try" /\ Return(g, "ChannelEmpty", {})
       \/ /\ md # "try"
          /\ st' = [st EXCEPT ![g] = "waiting"]
          /\ mode' = [mode EXCEPT ![g] = md]
          /\ UNCHANGED last
    /\ UNCHANGED <<cell, fresh>>

GetClosed(g) ==
    /\ closed
    /\ Return(g, "ChannelClosed", {})
    /\ UNCHANGED <<cell, fresh>>

\* get, get_timeout, try_get and Iterator::next from the call; closed is
\* looked at here, before the loop, and not again.
GetCall(g, md) ==
    /\ st[g] = "idle"
    /\ \/ GetClosed(g)
       \/ ~closed /\ (TakeAll(g) \/ NothingToTake(g, md))

\* The loop after a return of wait.
GetResume(g) ==
    /\ st[g] = "woken"
    /\ TakeAll(g) \/ NothingToTake(g, mode[g])

\* Mutant: a notified getter may still time out and drop its notification.
TimeOutNotified(g) ==
    /\ st[g] \in {"waiting", "woken"} /\ mode[g] = "timed"
    /\ st' = [st EXCEPT ![g] = "timedout"]
    /\ UNCHANGED <<cell, mode, fresh, last>>

TimeOut(g) ==
    /\ st[g] = "waiting" /\ mode[g] = "timed"
    /\ st' = [st EXCEPT ![g] = "timedout"]
    /\ UNCHANGED <<cell, mode, fresh, last>>

ReturnTimeout(g) ==
    /\ st[g] = "timedout"
    /\ Return(g, "Timeout", {})
    /\ UNCHANGED <<cell, fresh>>

-----------------------------------------------------------------------------
Init ==
    /\ primary = NoVal
    /\ extra = [x \in Extras |-> NoVal]
    /\ closed = FALSE
    /\ st = [g \in Getters |-> "idle"]
    /\ mode = [g \in Getters |-> "none"]
    /\ fresh = Val
    /\ last = [res |-> "none", vals |-> {}]

Next ==
    \/ \E v \in Val : Set(v) \/ \E x \in Extras : SetExtra(x, v)
    \/ Close
    \/ \E g \in Getters :
          \/ \E md \in {"block", "timed", "try"} : GetCall(g, md)
          \/ GetResume(g) \/ TimeOut(g) \/ ReturnTimeout(g)

Spec == Init /\ [][Next]_vars

\* A notified or timed-out getter gets the processor and the mutex some day.
FairSpec ==
    /\ Spec
    /\ \A g \in Getters : WF_vars(GetResume(g)) /\ WF_vars(ReturnTimeout(g))

-----------------------------------------------------------------------------
TypeOK ==
    /\ primary \in Val \cup {NoVal}
    /\ extra \in [Extras -> Val \cup {NoVal}]
    /\ closed \in BOOLEAN
    /\ st \in [Getters -> {"idle", "waiting", "woken", "timedout"}]
    /\ mode \in [Getters -> {"none", "block", "timed"}]
    /\ fresh \in SUBSET Val
    /\ last \in [res : {"none", "Ok", "ChannelEmpty", "ChannelClosed", "Timeout"},
                vals : SUBSET Val]

\* No lost wakeup: a getter stays blocked beside a primary value only while
\* another getter is on its way to fetch it.
NoLostValue == primary # NoVal /\ Waiting # {} => Woken # {}

\* What a step may never do: let a secondary value vanish other than into the
\* hands of a getter that got a primary one with it, or by being overwritten;
\* try_get on a cell without a primary value leaves the secondary ones alone.
ExtrasStayCoupled ==
    [][\A x \in Extras :
          extra[x] # NoVal /\ extra'[x] = NoVal
              => {extra[x], primary} \subseteq last'.vals]_vars

\* A value set while getters are blocked does not stay in the cell: one of
\* them, or a getter that came before it, takes it.
ValueIsTaken ==
    primary # NoVal /\ Waiting # {} ~> (primary = NoVal \/ Waiting = {})

=============================================================================
