------------------------------ MODULE PiLocking ------------------------------
(***************************************************************************)
(* The priority-inheritance mutex and condition variable (src/pi.rs), one  *)
(* step per atomic operation or system call.                               *)
(*                                                                         *)
(* Threads lock, wait, notify and unlock in any order the types allow, and *)
(* since a guard is Send they may also hand it to another thread, which    *)
(* then waits, notifies or unlocks with it.  Only notifications without    *)
(* the mutex are left out.                                                 *)
(*                                                                         *)
(* The kernel's futexes are external: a PI futex is a lock with an owner,  *)
(* and the condition variable's futex is the set of threads asleep on it   *)
(* (its word is always 0, so wait never sees a wrong value).               *)
(***************************************************************************)
EXTENDS Integers, FiniteSets

CONSTANTS
    Threads, NoThread,
    MaxInterrupts   \* bound on signals that interrupt a futex wait

ASSUME PiAssumption ==
    /\ IsFiniteSet(Threads) /\ NoThread \notin Threads
    /\ MaxInterrupts \in Nat

VARIABLES
    owner,      \* PiLock.futex: the thread in the word, NoThread for 0
    blocked,    \* PiLock.blocked
    stranded,   \* history: a thread gave up a guard, and the word named another
    waiters,    \* Condvar.waiters
    pc,         \* pc[t]: where thread t stands
    timed,      \* timed[t]: t's wait has a timeout
    timedOut,   \* timedOut[t]: the result of t's last wait
    notify,     \* notify[t]: "one" or "all" while t notifies, else "none"
    toWake,     \* toWake[t]: the local variable to_wake of notify_all
    interrupts  \* signals so far

lock == <<owner, blocked, stranded>>
wait == <<timed, timedOut>>
note == <<notify, toWake>>
vars == <<lock, waiters, pc, wait, note, interrupts>>

\* Threads inside wait that no notification has chosen and that have not
\* timed out: between waiters.fetch_add and the return of futex wait.
InWait == {t \in Threads : pc[t] \in {"registered", "entering", "asleep"}}
Asleep == {t \in Threads : pc[t] = "asleep"}

\* Threads with a guard of the mutex, be it their own or one handed to them; the
\* caller's guard is alive inside notify, and inside wait until the release.
Guarding == {t \in Threads : pc[t] \in {"held", "leaked", "registered", "load", "wake"}}

Goto(t, l) == pc' = [pc EXCEPT ![t] = l]

-----------------------------------------------------------------------------
\* PiLock

\* perform_lock: the check of blocked; a thread that fails it parks forever.
LockCheck(t) ==
    /\ ~blocked
    /\ \/ pc[t] = "idle" /\ Goto(t, "locking")
       \/ pc[t] = "relock" /\ Goto(t, "relocking")
    /\ UNCHANGED <<lock, waiters, wait, note, interrupts>>

\* ... and the compare_exchange or lock_pi that succeeds.
LockAcquire(t) ==
    /\ pc[t] \in {"locking", "relocking"}
    /\ owner = NoThread
    /\ owner' = t
    /\ Goto(t, "held")
    /\ UNCHANGED <<blocked, stranded, waiters, wait, note, interrupts>>

\* perform_try_lock and try_lock_until; the latter does not look at blocked.
TryLock(t) ==
    /\ pc[t] = "idle"
    /\ owner = NoThread
    /\ owner' = t
    /\ Goto(t, "held")
    /\ UNCHANGED <<blocked, stranded, waiters, wait, note, interrupts>>

\* type GuardMarker = GuardSend: a guard may move to another thread.  The futex
\* word keeps the name of the thread that locked.
MoveGuard(t, u) ==
    /\ pc[t] = "held" /\ pc[u] = "idle"
    /\ pc' = [pc EXCEPT ![t] = "idle", ![u] = "held"]
    /\ UNCHANGED <<lock, waiters, wait, note, interrupts>>

\* perform_unlock: the compare_exchange and unlock_pi work for the thread the
\* word names only, and the error of unlock_pi is ignored.
PerformUnlock(t) ==
    /\ owner' = IF owner = t THEN NoThread ELSE owner
    /\ stranded' = (stranded \/ owner # t)
    /\ UNCHANGED blocked

Unlock(t) ==
    /\ pc[t] = "held"
    /\ PerformUnlock(t)
    /\ Goto(t, "idle")
    /\ UNCHANGED <<waiters, wait, note, interrupts>>

\* Mutant: the guard is dropped, not leaked.
BlockForeverUnlocked(t) ==
    /\ pc[t] = "held"
    /\ blocked' = TRUE
    /\ owner' = IF owner = t THEN NoThread ELSE owner
    /\ Goto(t, "leaked")
    /\ UNCHANGED <<stranded, waiters, wait, note, interrupts>>

\* block_forever: the guard is leaked, so nobody ever unlocks.
BlockForever(t) ==
    /\ pc[t] = "held"
    /\ blocked' = TRUE
    /\ Goto(t, "leaked")
    /\ UNCHANGED <<owner, stranded, waiters, wait, note, interrupts>>

-----------------------------------------------------------------------------
\* Condvar::wait_with_timeout

\* macro unlock!: waiters is counted up first ...
WaitRegister(t, tm) ==
    /\ pc[t] = "held"
    /\ waiters' = waiters + 1
    /\ timed' = [timed EXCEPT ![t] = tm]
    /\ timedOut' = [timedOut EXCEPT ![t] = FALSE]
    /\ Goto(t, "registered")
    /\ UNCHANGED <<lock, note, interrupts>>

\* ... then the mutex is released (the caller's guard makes is_locked() true).
WaitUnlock(t) ==
    /\ pc[t] = "registered"
    /\ PerformUnlock(t)
    /\ Goto(t, "entering")
    /\ UNCHANGED <<waiters, wait, note, interrupts>>

FutexWait(t) ==
    /\ pc[t] = "entering"
    /\ Goto(t, "asleep")
    /\ UNCHANGED <<lock, waiters, wait, note, interrupts>>

\* The timeout has run out before the futex is entered, or inside it.
WaitTimeOut(t) ==
    /\ pc[t] \in {"entering", "asleep"}
    /\ timed[t]
    /\ timedOut' = [timedOut EXCEPT ![t] = TRUE]
    /\ Goto(t, "left")
    /\ UNCHANGED <<lock, waiters, timed, note, interrupts>>

\* Err(Interrupted) => continue
WaitInterrupted(t) ==
    /\ pc[t] = "asleep"
    /\ interrupts < MaxInterrupts
    /\ interrupts' = interrupts + 1
    /\ Goto(t, "entering")
    /\ UNCHANGED <<lock, waiters, wait, note>>

\* Mutant: waiters is never counted down.
WaitDeregisterForgotten(t) ==
    /\ pc[t] = "left"
    /\ Goto(t, "relock")
    /\ UNCHANGED <<lock, waiters, wait, note, interrupts>>

\* Mutant: waiters is counted down with the mutex held again.
WaitDeregisterLocked(t) ==
    /\ pc[t] = "left"
    /\ owner = NoThread
    /\ waiters' = waiters - 1
    /\ Goto(t, "relock")
    /\ UNCHANGED <<lock, wait, note, interrupts>>

\* waiters is counted down before the mutex is taken: a notifier that holds
\* the mutex spins until it is.
WaitDeregister(t) ==
    /\ pc[t] = "left"
    /\ waiters' = waiters - 1
    /\ Goto(t, "relock")
    /\ UNCHANGED <<lock, wait, note, interrupts>>

-----------------------------------------------------------------------------
\* notify_one and notify_all, called with the mutex held as all of the crate's
\* own calls are

NotifyCall(t, k) ==
    /\ pc[t] = "held"
    /\ notify' = [notify EXCEPT ![t] = k]
    /\ Goto(t, "load")
    /\ UNCHANGED <<lock, waiters, wait, toWake, interrupts>>

\* notify returns to its caller, who holds the mutex.
NotifyReturn(t) ==
    /\ notify' = [notify EXCEPT ![t] = "none"]
    /\ toWake' = [toWake EXCEPT ![t] = 0]

\* waiters.load
NotifyLoad(t) ==
    /\ pc[t] = "load"
    /\ \/ /\ waiters = 0
          /\ NotifyReturn(t)
          /\ Goto(t, "held")
       \/ /\ waiters > 0
          /\ toWake' = [toWake EXCEPT ![t] =
                            IF notify[t] = "one" THEN 1 ELSE waiters]
          /\ Goto(t, "wake")
          /\ UNCHANGED notify
    /\ UNCHANGED <<lock, waiters, wait, interrupts>>

\* Mutant: no second try for a waiter that has not reached the futex yet.
NotifyWakeOnce(t) ==
    /\ pc[t] = "wake"
    /\ \E W \in SUBSET Asleep :
          /\ \/ Cardinality(W) = toWake[t]
             \/ Cardinality(W) < toWake[t] /\ W = Asleep
          /\ NotifyReturn(t)
          /\ pc' = [u \in Threads |-> IF u = t THEN "held"
                                      ELSE IF u \in W THEN "left" ELSE pc[u]]
    /\ UNCHANGED <<lock, waiters, wait, interrupts>>

\* fx.wake(n) wakes n sleepers, or all of them if there are fewer; if it woke
\* too few the notifier backs off and starts over.
NotifyWake(t) ==
    /\ pc[t] = "wake"
    /\ \E W \in SUBSET Asleep :
          /\ \/ Cardinality(W) = toWake[t]
             \/ Cardinality(W) < toWake[t] /\ W = Asleep
          /\ LET done == IF notify[t] = "one" THEN W # {}
                                              ELSE Cardinality(W) = toWake[t]
             IN  /\ IF done THEN NotifyReturn(t) ELSE UNCHANGED note
                 /\ pc' = [u \in Threads |->
                             IF u = t THEN IF done THEN "held" ELSE "load"
                             ELSE IF u \in W THEN "left" ELSE pc[u]]
    /\ UNCHANGED <<lock, waiters, wait, interrupts>>

-----------------------------------------------------------------------------
Init ==
    /\ owner = NoThread
    /\ blocked = FALSE
    /\ stranded = FALSE
    /\ waiters = 0
    /\ pc = [t \in Threads |-> "idle"]
    /\ timed = [t \in Threads |-> FALSE]
    /\ timedOut = [t \in Threads |-> FALSE]
    /\ notify = [t \in Threads |-> "none"]
    /\ toWake = [t \in Threads |-> 0]
    /\ interrupts = 0

\* What a thread does on its own once inside lock, wait or notify.
Inside(t) ==
    \/ WaitUnlock(t) \/ FutexWait(t) \/ WaitDeregister(t)
    \/ NotifyLoad(t) \/ NotifyWake(t)

Next ==
    \E t \in Threads :
        \/ LockCheck(t) \/ LockAcquire(t) \/ TryLock(t) \/ Unlock(t)
        \/ BlockForever(t)
        \/ \E u \in Threads : MoveGuard(t, u)
        \/ \E tm \in BOOLEAN : WaitRegister(t, tm)
        \/ WaitTimeOut(t) \/ WaitInterrupted(t)
        \/ \E k \in {"one", "all"} : NotifyCall(t, k)
        \/ Inside(t)

Spec == Init /\ [][Next]_vars

\* Every thread keeps getting the processor.
FairSpec == Spec /\ \A t \in Threads : WF_vars(Inside(t))

-----------------------------------------------------------------------------
TypeOK ==
    /\ owner \in Threads \cup {NoThread}
    /\ blocked \in BOOLEAN
    /\ stranded \in BOOLEAN
    /\ waiters \in 0..Cardinality(Threads)
    /\ pc \in [Threads -> {"idle", "locking", "held", "leaked", "registered",
                           "entering", "asleep", "left", "relock", "relocking",
                           "load", "wake"}]
    /\ timed \in [Threads -> BOOLEAN]
    /\ timedOut \in [Threads -> BOOLEAN]
    /\ notify \in [Threads -> {"none", "one", "all"}]
    /\ toWake \in [Threads -> 0..Cardinality(Threads)]
    /\ interrupts \in 0..MaxInterrupts

\* Mutual exclusion, whoever the guards were handed to: one guard is alive at
\* most, and the futex word is zero just when there is none, but for one case.  A
\* guard given up by another thread than locked leaves the mutex locked, and then
\* for good: nobody gets a guard again.  The guard that block_forever leaks counts,
\* so a blocked mutex stays locked also for try_lock_until, which does not look at
\* blocked.
GuardsExclude ==
    /\ \A t, u \in Guarding : t = u
    /\ owner = NoThread <=> Guarding = {} /\ ~stranded
    /\ stranded => Guarding = {}
    /\ blocked => \E t \in Threads : pc[t] = "leaked"

\* Who has the monitor, and how each thread stands to its condition: a thread
\* has given up the mutex and is waiting from the moment it is counted.
Holding == {t \in Guarding : pc[t] # "registered"}

TheOne(T) == IF T = {} THEN NoThread ELSE CHOOSE t \in T : TRUE

Holder == TheOne(Holding)

Cond == [t \in Threads |->
           IF t \in InWait THEN "waiting"
           ELSE IF pc[t] \in {"left", "relock", "relocking"}
                THEN IF timedOut[t] THEN "timedout" ELSE "woken"
           ELSE "out"]

Abstract == INSTANCE Monitor WITH holder <- Holder, cond <- Cond

\* A mutex and condition variable the rest of the crate can rely on, when the
\* notifications are sent with the mutex held, also where guards are handed on.
ImplementsMonitor == Abstract!Spec

\* The spin of notify_one and notify_all ends: a notifier, even one that holds
\* the mutex the waiters need, is never stuck behind them.
NotifyReturns ==
    \A t \in Threads : notify[t] # "none" ~> notify[t] = "none"

=============================================================================
