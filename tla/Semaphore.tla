------------------------------ MODULE Semaphore ------------------------------
(***************************************************************************)
(* The semaphore (src/semaphore.rs): a count of used permissions under a   *)
(* mutex and a condition variable.  A client is one user of a permission:  *)
(* it owns at most one SemaphoreGuard at a time.  A step is one critical   *)
(* section.                                                                *)
(***************************************************************************)
EXTENDS Integers, FiniteSets

CONSTANTS Clients, Capacity

ASSUME SemaphoreAssumption == IsFiniteSet(Clients) /\ Capacity \in Nat

VARIABLES
    count,  \* SemaphoreInner.permissions
    st      \* st[c]: "idle", "waiting", "woken", or "guard" while c owns one

vars == <<count, st>>

Waiting == {c \in Clients : st[c] = "waiting"}
Woken == {c \in Clients : st[c] = "woken"}
Guards == {c \in Clients : st[c] = "guard"}

NotifyOne == IF Waiting = {} THEN {{}} ELSE {{c} : c \in Waiting}

\* Mutant: acquires without looking at the capacity again after wait.
TakeUnchecked(c) ==
    /\ count # Capacity \/ st[c] = "woken"
    /\ count' = count + 1
    /\ st' = [st EXCEPT ![c] = "guard"]

Take(c) ==
    /\ count # Capacity
    /\ count' = count + 1
    /\ st' = [st EXCEPT ![c] = "guard"]

\* try_acquire; it returns None and changes nothing when all are used.
TryAcquire(c) ==
    /\ st[c] = "idle"
    /\ Take(c)

\* acquire, from the call or from a return of wait.
Acquire(c) ==
    /\ st[c] \in {"idle", "woken"}
    /\ \/ Take(c)
       \/ /\ count = Capacity
          /\ st' = [st EXCEPT ![c] = "waiting"]
          /\ UNCHANGED count

\* Mutant: the permission is meant to pass to a waiter, but is counted again.
ReleaseHandOver(c) ==
    /\ st[c] = "guard"
    /\ count' = IF Waiting = {} THEN count - 1 ELSE count
    /\ \E W \in NotifyOne :
          st' = [d \in Clients |-> IF d = c THEN "idle"
                                   ELSE IF d \in W THEN "woken" ELSE st[d]]

\* Mutant: notifies only when all permissions were used.
ReleaseIfFull(c) ==
    /\ st[c] = "guard"
    /\ count' = count - 1
    /\ \E W \in IF count = Capacity THEN NotifyOne ELSE {{}} :
          st' = [d \in Clients |-> IF d = c THEN "idle"
                                   ELSE IF d \in W THEN "woken" ELSE st[d]]

\* The drop of a guard.
Release(c) ==
    /\ st[c] = "guard"
    /\ count' = count - 1
    /\ \E W \in NotifyOne :
          st' = [d \in Clients |-> IF d = c THEN "idle"
                                   ELSE IF d \in W THEN "woken" ELSE st[d]]

Init ==
    /\ count = 0
    /\ st = [c \in Clients |-> "idle"]

Next == \E c \in Clients : TryAcquire(c) \/ Acquire(c) \/ Release(c)

Spec == Init /\ [][Next]_vars

-----------------------------------------------------------------------------
TypeOK ==
    /\ count \in 0..Capacity
    /\ st \in [Clients -> {"idle", "waiting", "woken", "guard"}]

\* The permissions in use are the guards that exist, so there are never more
\* guards than the capacity and none is lost (is_poisoned, available, used).
PermitsAreGuards == count = Cardinality(Guards)

\* No lost wakeup: while a client is blocked in acquire, as many clients as
\* there are free permissions are on their way to take one.
NoLostPermit == Waiting # {} => Cardinality(Woken) >= Capacity - count

=============================================================================
