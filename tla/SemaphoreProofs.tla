--------------------------- MODULE SemaphoreProofs ---------------------------
(***************************************************************************)
(* Proofs about the semaphore, for every finite set of clients and every   *)
(* capacity.                                                               *)
(***************************************************************************)
EXTENDS Semaphore, FiniteSetTheorems, TLAPS


\* The sets of clients the invariants count are finite.
LEMMA CountsAreNaturals ==
    /\ IsFiniteSet(Guards) /\ Cardinality(Guards) \in Nat
    /\ IsFiniteSet(Woken) /\ Cardinality(Woken) \in Nat
<1>1. Guards \subseteq Clients /\ Woken \subseteq Clients
  BY DEF Guards, Woken
<1> QED
  BY <1>1, SemaphoreAssumption, FS_Subset, FS_CardinalityType

\* The three invariants together are inductive: a release leaves count a
\* natural number only because the guard it drops is counted, and the size of
\* Woken is compared with what is left of the capacity.
Inv == TypeOK /\ PermitsAreGuards /\ NoLostPermit

\* A semaphore starts with no permission used and nobody waiting.
LEMMA InitInv == Init => Inv
<1> SUFFICES ASSUME Init PROVE Inv
  OBVIOUS
<1>1. TypeOK
  BY SemaphoreAssumption DEF Init, TypeOK
<1>2. Guards = {} /\ Waiting = {}
  BY DEF Init, Guards, Waiting
<1>3. PermitsAreGuards
  BY <1>2, FS_EmptySet DEF Init, PermitsAreGuards
<1>4. NoLostPermit
  BY <1>2 DEF NoLostPermit
<1> QED
  BY <1>1, <1>3, <1>4 DEF Inv

\* A client, fresh or woken, takes a free permission (try_acquire, acquire).
LEMMA TakeInv ==
    ASSUME Inv, NEW c \in Clients, st[c] \in {"idle", "woken"}, Take(c)
    PROVE  Inv'
<1>0. /\ TypeOK /\ count < Capacity /\ count' = count + 1
      /\ st' = [st EXCEPT ![c] = "guard"]
      /\ Capacity \in Nat
  BY SemaphoreAssumption DEF Inv, TypeOK, Take
<1>1. TypeOK'
  BY <1>0 DEF TypeOK
<1>2. /\ Guards' = Guards \cup {c} /\ c \notin Guards
      /\ Waiting' = Waiting
      /\ Woken' = Woken \ {c}
  BY <1>0 DEF TypeOK, Guards, Waiting, Woken
<1>3. PermitsAreGuards'
  BY <1>0, <1>2, CountsAreNaturals, FS_AddElement DEF Inv, PermitsAreGuards
<1>4. Cardinality(Woken') >= Cardinality(Woken) - 1 /\ Cardinality(Woken') \in Int
  BY <1>2, CountsAreNaturals, FS_RemoveElement, FS_CardinalityType
<1>5. NoLostPermit'
  BY <1>0, <1>2, <1>4, CountsAreNaturals DEF Inv, NoLostPermit, TypeOK
<1> QED
  BY <1>1, <1>3, <1>5 DEF Inv

\* acquire goes to sleep, or back to sleep, when all permissions are used.
LEMMA SleepInv ==
    ASSUME Inv, NEW c \in Clients, st[c] \in {"idle", "woken"},
           count = Capacity, st' = [st EXCEPT ![c] = "waiting"], UNCHANGED count
    PROVE  Inv'
<1>1. TypeOK'
  BY DEF Inv, TypeOK
<1>2. Guards' = Guards /\ Woken' = Woken \ {c}
  BY DEF Inv, TypeOK, Guards, Woken
<1>3. PermitsAreGuards'
  BY <1>2 DEF Inv, PermitsAreGuards
<1>4. IsFiniteSet(Woken')
  BY <1>2, CountsAreNaturals, FS_RemoveElement
<1>5. Cardinality(Woken') \in Nat
  BY <1>4, FS_CardinalityType
<1>6. NoLostPermit'
  BY <1>5, SemaphoreAssumption DEF NoLostPermit
<1> QED
  BY <1>1, <1>3, <1>6 DEF Inv

\* The drop of a guard frees one permission and wakes one waiter, if any.
LEMMA ReleaseInv ==
    ASSUME Inv, NEW c \in Clients, Release(c)
    PROVE  Inv'
<1>0. /\ TypeOK /\ st[c] = "guard" /\ count' = count - 1
      /\ Capacity \in Nat
  BY SemaphoreAssumption DEF Inv, Release
<1>1. PICK W \in NotifyOne :
         st' = [d \in Clients |-> IF d = c THEN "idle"
                                  ELSE IF d \in W THEN "woken" ELSE st[d]]
  BY DEF Release
<1>2. W \subseteq Waiting /\ (Waiting # {} => \E w \in Waiting : W = {w})
  BY <1>1 DEF NotifyOne
<1>3. /\ Guards' = Guards \ {c} /\ c \in Guards
      /\ Waiting' = Waiting \ W
      /\ Woken' = Woken \cup W
  BY <1>0, <1>1, <1>2 DEF TypeOK, Guards, Waiting, Woken
<1>4. Cardinality(Guards') = Cardinality(Guards) - 1
  BY <1>3, CountsAreNaturals, FS_RemoveElement
<1>5. PermitsAreGuards'
  BY <1>0, <1>4 DEF Inv, PermitsAreGuards
<1>6. count >= 1
  <2>1. Cardinality(Guards) # 0
    BY <1>3, CountsAreNaturals, FS_EmptySet
  <2> QED
    BY <2>1, CountsAreNaturals DEF Inv, PermitsAreGuards
<1>7. TypeOK'
  BY <1>0, <1>1, <1>6 DEF TypeOK
<1>8. NoLostPermit'
  <2> SUFFICES ASSUME Waiting' # {}
               PROVE  Cardinality(Woken') >= Capacity - count'
    BY DEF NoLostPermit
  <2>1. PICK w \in Waiting : W = {w}
    BY <1>2, <1>3
  <2>2. w \notin Woken
    BY <2>1 DEF Waiting, Woken
  <2>3. Cardinality(Woken') = Cardinality(Woken) + 1
    BY <1>3, <2>1, <2>2, CountsAreNaturals, FS_AddElement
  <2>4. Cardinality(Woken) >= Capacity - count
    BY <2>1 DEF Inv, NoLostPermit
  <2> QED
    BY <1>0, <2>3, <2>4, CountsAreNaturals DEF TypeOK
<1> QED
  BY <1>5, <1>7, <1>8 DEF Inv

\* Every step keeps the invariant.
LEMMA NextInv == Inv /\ [Next]_vars => Inv'
<1> SUFFICES ASSUME Inv, [Next]_vars PROVE Inv'
  OBVIOUS
<1>1. ASSUME NEW c \in Clients, TryAcquire(c) PROVE Inv'
  BY <1>1, TakeInv DEF TryAcquire
<1>2. ASSUME NEW c \in Clients, Acquire(c) PROVE Inv'
  BY <1>2, TakeInv, SleepInv DEF Acquire
<1>3. ASSUME NEW c \in Clients, Release(c) PROVE Inv'
  BY <1>3, ReleaseInv
<1>4. CASE UNCHANGED vars
  BY <1>4 DEF vars, Inv, TypeOK, PermitsAreGuards, NoLostPermit,
              Guards, Waiting, Woken
<1> QED
  BY <1>1, <1>2, <1>3, <1>4 DEF Next

-----------------------------------------------------------------------------
\* The permissions in use never exceed the capacity, which is what the tests
\* call poisoned (Semaphore::is_poisoned).
THEOREM TypeCorrect == Spec => []TypeOK
<1>1. Inv => TypeOK
  BY DEF Inv
<1> QED
  BY <1>1, InitInv, NextInv, PTL DEF Spec

\* Every permission in use is a guard that exists: acquire, try_acquire and the
\* drop of a guard leak none and free none twice.
THEOREM PermitsAreGuardsCorrect == Spec => []PermitsAreGuards
<1>1. Inv => PermitsAreGuards
  BY DEF Inv
<1> QED
  BY <1>1, InitInv, NextInv, PTL DEF Spec

\* No wakeup of a client blocked in acquire is lost, whoever barges in.
THEOREM NoLostPermitCorrect == Spec => []NoLostPermit
<1>1. Inv => NoLostPermit
  BY DEF Inv
<1> QED
  BY <1>1, InitInv, NextInv, PTL DEF Spec

=============================================================================
