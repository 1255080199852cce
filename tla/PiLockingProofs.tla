--------------------------- MODULE PiLockingProofs ---------------------------
(***************************************************************************)
(* Proofs about the priority-inheritance mutex and condition variable, for *)
(* every number of threads: who has a guard of the mutex, what             *)
(* Condvar.waiters counts, and that the two together implement Monitor.    *)
(***************************************************************************)
EXTENDS PiLocking, FiniteSetTheorems, TLAPS

-----------------------------------------------------------------------------
\* The inductive invariant.

\* The threads counted in Condvar.waiters: those inside wait, from the
\* fetch_add to the fetch_sub.
Counted == {t \in Threads : pc[t] \in {"registered", "entering", "asleep", "left"}}

\* waiters is a count, whatever interleaves.
WaitersCount == waiters = Cardinality(Counted)

\* A wait that is not over has not timed out.
SleepersAreOnTime == \A t \in InWait : ~timedOut[t]

\* notify and to_wake are those of a notifier that is inside notify; between
\* its load of waiters and its wake nobody can start to wait, so there are no
\* more waiters than it is about to wake.
NotifierCounts ==
    \A t \in Threads :
        /\ notify[t] # "none" <=> pc[t] \in {"load", "wake"}
        /\ pc[t] = "wake" /\ notify[t] = "one" => toWake[t] = 1
        /\ pc[t] = "wake" /\ notify[t] = "all" => Cardinality(InWait) <= toWake[t]

IInv ==
    /\ TypeOK /\ GuardsExclude
    /\ WaitersCount /\ SleepersAreOnTime /\ NotifierCounts

-----------------------------------------------------------------------------
\* Counting threads.

\* A set of threads is finite and its size grows with it.
LEMMA Counting ==
    ASSUME NEW A \in SUBSET Threads
    PROVE  /\ Cardinality(A) \in 0..Cardinality(Threads)
           /\ Cardinality(A) = 0 <=> A = {}
           /\ \A B \in SUBSET A : /\ Cardinality(B) <= Cardinality(A)
                                  /\ Cardinality(B) = Cardinality(A) => B = A
<1>1. IsFiniteSet(A) /\ Cardinality(A) <= Cardinality(Threads)
  BY PiAssumption, FS_Subset
<1>2. Cardinality(A) \in Nat /\ Cardinality(Threads) \in Nat
  BY <1>1, PiAssumption, FS_CardinalityType
<1>3. Cardinality(A) = 0 <=> A = {}
  BY <1>1, FS_EmptySet
<1>4. \A B \in SUBSET A : /\ Cardinality(B) <= Cardinality(A)
                          /\ Cardinality(B) = Cardinality(A) => B = A
  BY <1>1, FS_Subset
<1> QED BY <1>1, <1>2, <1>3, <1>4

\* One thread more or less.
LEMMA CountOne ==
    ASSUME NEW A \in SUBSET Threads, NEW t \in Threads
    PROVE  /\ t \notin A => Cardinality(A \cup {t}) = Cardinality(A) + 1
           /\ t \in A => Cardinality(A \ {t}) = Cardinality(A) - 1
<1>1. IsFiniteSet(A)
  BY PiAssumption, FS_Subset
<1> QED BY <1>1, FS_AddElement, FS_RemoveElement

\* A set of one thread at most that is not empty is that thread.
LEMMA AtMostOne ==
    ASSUME NEW W \in SUBSET Threads, Cardinality(W) <= 1, NEW w \in W
    PROVE  W = {w}
<1>1. Cardinality(W \ {w}) = 0
  <2>1. Cardinality(W \ {w}) = Cardinality(W) - 1
    BY CountOne
  <2>2. Cardinality(W) \in Nat /\ Cardinality(W \ {w}) \in Nat
    BY Counting
  <2> QED BY <2>1, <2>2
<1>2. W \ {w} = {}
  BY <1>1, Counting
<1> QED BY <1>2

\* The thread with a guard is the only one.
LEMMA OneGuard ==
    ASSUME IInv, NEW t \in Guarding
    PROVE  Guarding = {t} /\ owner # NoThread /\ ~stranded
BY DEF IInv, GuardsExclude

\* A step that changes neither the lock nor who has guards keeps GuardsExclude.
LEMMA GuardsUnmoved ==
    ASSUME IInv, UNCHANGED lock, Guarding' = Guarding,
           \A t \in Threads : pc[t] = "leaked" => pc'[t] = "leaked"
    PROVE  GuardsExclude'
BY DEF IInv, GuardsExclude, lock

\* Nor does perform_unlock with the one guard there is, whoever calls it.
LEMMA UnlockKeeps ==
    ASSUME IInv, NEW t \in Guarding, PerformUnlock(t), Guarding' = Guarding \ {t},
           pc[t] # "leaked"
    PROVE  GuardsExclude'
<1>1. Guarding = {t} /\ Guarding' = {} /\ owner # NoThread /\ ~stranded /\ t # NoThread
  BY OneGuard, PiAssumption DEF Guarding
<1>2. ~blocked
  BY <1>1 DEF IInv, GuardsExclude, Guarding
<1>3. owner' = NoThread <=> ~stranded'
  BY <1>1 DEF PerformUnlock, IInv, TypeOK
<1> QED BY <1>1, <1>2, <1>3 DEF PerformUnlock, GuardsExclude

-----------------------------------------------------------------------------
\* Each action keeps the invariant.

\* A step that adds no waiter, moves no notifier and leaves its local variables
\* alone keeps NotifierCounts.
LEMMA NotifierUnmoved ==
    ASSUME IInv, UNCHANGED note, InWait' \subseteq InWait,
           \A u \in Threads : /\ pc'[u] = "wake" <=> pc[u] = "wake"
                              /\ pc'[u] = "load" <=> pc[u] = "load"
    PROVE  NotifierCounts'
<1>1. InWait \in SUBSET Threads /\ InWait' \in SUBSET Threads
  BY DEF InWait
<1>2. /\ Cardinality(InWait') <= Cardinality(InWait)
      /\ Cardinality(InWait) \in Nat /\ Cardinality(InWait') \in Nat
  BY <1>1, Counting
<1>3. notify' = notify /\ toWake' = toWake
  BY DEF note
<1>4. \A u \in Threads : toWake[u] \in Nat
  BY Counting DEF IInv, TypeOK
<1> QED BY <1>2, <1>3, <1>4 DEF IInv, NotifierCounts

\* lock, try_lock, unlock and block_forever.
LEMMA LockStepIInv ==
    ASSUME IInv, NEW t \in Threads,
           LockCheck(t) \/ LockAcquire(t) \/ TryLock(t) \/ Unlock(t) \/ BlockForever(t)
    PROVE  IInv'
<1> DEFINE Out == {"idle", "relock", "locking", "relocking", "held", "leaked"}
<1>0. TypeOK /\ GuardsExclude /\ WaitersCount /\ SleepersAreOnTime
  BY DEF IInv
<1>1. /\ UNCHANGED <<waiters, wait, note, interrupts>>
      /\ pc[t] \in Out /\ pc'[t] \in Out
      /\ pc' = [pc EXCEPT ![t] = pc'[t]]
  BY <1>0 DEF LockCheck, LockAcquire, TryLock, Unlock, BlockForever, Goto, TypeOK
<1>2. TypeOK'
  BY <1>0, <1>1 DEF LockCheck, LockAcquire, TryLock, Unlock, PerformUnlock, BlockForever,
                    TypeOK, wait, note, lock
<1>3. GuardsExclude'
  <2>1. CASE LockCheck(t)
    <3>1. /\ UNCHANGED lock /\ Guarding' = Guarding
          /\ \A u \in Threads : pc[u] = "leaked" => pc'[u] = "leaked"
      BY <1>0, <2>1 DEF LockCheck, Goto, Guarding, TypeOK
    <3> QED BY <3>1, GuardsUnmoved
  <2>2. CASE LockAcquire(t) \/ TryLock(t)
    <3>1. /\ owner = NoThread /\ owner' = t /\ UNCHANGED <<blocked, stranded>>
          /\ pc' = [pc EXCEPT ![t] = "held"] /\ pc[t] # "leaked"
      BY <2>2 DEF LockAcquire, TryLock, Goto
    <3>2. Guarding = {} /\ ~stranded
      BY <1>0, <3>1 DEF GuardsExclude
    <3>3. Guarding' = {t}
      BY <1>0, <3>1, <3>2 DEF Guarding, TypeOK
    <3>4. ~blocked
      BY <1>0, <3>2 DEF GuardsExclude, Guarding
    <3> QED BY <3>1, <3>2, <3>3, <3>4, PiAssumption DEF GuardsExclude
  <2>3. CASE Unlock(t)
    <3>1. t \in Guarding /\ Guarding' = Guarding \ {t}
      BY <1>0, <2>3 DEF Unlock, Goto, Guarding, TypeOK
    <3> QED BY <2>3, <3>1, UnlockKeeps DEF Unlock
  <2>4. CASE BlockForever(t)
    <3>1. Guarding' = Guarding /\ pc'[t] = "leaked"
      BY <1>0, <2>4 DEF BlockForever, Goto, Guarding, TypeOK
    <3> QED BY <1>0, <2>4, <3>1 DEF BlockForever, GuardsExclude
  <2> QED BY <2>1, <2>2, <2>3, <2>4
<1>4. Counted' = Counted /\ InWait' = InWait
  BY <1>0, <1>1 DEF Counted, InWait, TypeOK
<1>5. WaitersCount' /\ SleepersAreOnTime'
  BY <1>0, <1>1, <1>4 DEF WaitersCount, SleepersAreOnTime, wait
<1>6. NotifierCounts'
  BY <1>0, <1>1, <1>4, NotifierUnmoved DEF TypeOK
<1> QED BY <1>2, <1>3, <1>5, <1>6 DEF IInv

\* A guard that moves is still the only one.
LEMMA MoveIInv ==
    ASSUME IInv, NEW t \in Threads, NEW u \in Threads, MoveGuard(t, u)
    PROVE  IInv'
<1>0. TypeOK /\ GuardsExclude /\ WaitersCount /\ SleepersAreOnTime
  BY DEF IInv
<1>1. /\ UNCHANGED <<lock, waiters, wait, note, interrupts>>
      /\ pc[t] = "held" /\ pc[u] = "idle" /\ t # u
      /\ pc'[t] = "idle" /\ pc'[u] = "held"
      /\ \A v \in Threads \ {t, u} : pc'[v] = pc[v]
      /\ pc' \in [Threads -> {"idle", "locking", "held", "leaked", "registered",
                              "entering", "asleep", "left", "relock", "relocking",
                              "load", "wake"}]
  BY <1>0 DEF MoveGuard, TypeOK
<1>2. TypeOK'
  BY <1>0, <1>1 DEF TypeOK, lock, wait, note
<1>3. GuardsExclude'
  <2>1. Guarding = {t} /\ owner # NoThread /\ ~stranded
    BY <1>1, OneGuard DEF Guarding
  <2>2. Guarding' = {u}
    BY <1>1, <2>1 DEF Guarding
  <2>3. ~blocked
    BY <1>0, <1>1, <2>1 DEF GuardsExclude, Guarding
  <2> QED BY <1>1, <2>1, <2>2, <2>3 DEF GuardsExclude, lock
<1>4. Counted' = Counted /\ InWait' = InWait
  BY <1>1 DEF Counted, InWait
<1>5. WaitersCount' /\ SleepersAreOnTime'
  BY <1>0, <1>1, <1>4 DEF WaitersCount, SleepersAreOnTime, wait
<1>6. NotifierCounts'
  <2>1. \A v \in Threads : /\ pc'[v] = "wake" <=> pc[v] = "wake"
                           /\ pc'[v] = "load" <=> pc[v] = "load"
    BY <1>1
  <2> QED BY <1>1, <1>4, <2>1, NotifierUnmoved
<1> QED BY <1>2, <1>3, <1>5, <1>6 DEF IInv

\* The steps of a wait between the two changes of waiters.
LEMMA WaitStepIInv ==
    ASSUME IInv, NEW t \in Threads,
           WaitUnlock(t) \/ FutexWait(t) \/ WaitTimeOut(t) \/ WaitInterrupted(t)
    PROVE  IInv'
<1> DEFINE In == {"registered", "entering", "asleep", "left"}
<1>0. TypeOK /\ GuardsExclude /\ WaitersCount /\ SleepersAreOnTime
  BY DEF IInv
<1>1. /\ UNCHANGED <<waiters, note>>
      /\ pc[t] \in In \ {"left"} /\ pc'[t] \in In \ {"registered"}
      /\ pc' = [pc EXCEPT ![t] = pc'[t]]
      /\ timedOut' = [timedOut EXCEPT ![t] = timedOut'[t]]
      /\ pc'[t] # "left" => timedOut' = timedOut
  BY <1>0 DEF WaitUnlock, FutexWait, WaitTimeOut, WaitInterrupted, Goto, TypeOK, wait
<1>2. TypeOK'
  <2>1. interrupts' \in 0..MaxInterrupts
    BY <1>0, PiAssumption
       DEF WaitUnlock, FutexWait, WaitTimeOut, WaitInterrupted, TypeOK
  <2>2. timed' = timed /\ timedOut' \in [Threads -> BOOLEAN]
    BY <1>0 DEF WaitUnlock, FutexWait, WaitTimeOut, WaitInterrupted, TypeOK, wait
  <2>3. owner' \in Threads \cup {NoThread} /\ blocked' \in BOOLEAN /\ stranded' \in BOOLEAN
    BY <1>0 DEF WaitUnlock, PerformUnlock, FutexWait, WaitTimeOut, WaitInterrupted, TypeOK,
                lock
  <2> QED BY <1>0, <1>1, <2>1, <2>2, <2>3 DEF TypeOK, note
<1>3. GuardsExclude'
  <2>1. CASE WaitUnlock(t)
    <3>1. t \in Guarding /\ Guarding' = Guarding \ {t} /\ pc[t] # "leaked"
      BY <1>0, <2>1 DEF WaitUnlock, Goto, Guarding, TypeOK
    <3> QED BY <2>1, <3>1, UnlockKeeps DEF WaitUnlock
  <2>2. CASE FutexWait(t) \/ WaitTimeOut(t) \/ WaitInterrupted(t)
    <3>1. /\ UNCHANGED lock /\ pc[t] \in {"entering", "asleep"}
          /\ pc'[t] \in {"entering", "asleep", "left"}
      BY <1>0, <2>2 DEF FutexWait, WaitTimeOut, WaitInterrupted, Goto, TypeOK
    <3>2. /\ Guarding' = Guarding
          /\ \A u \in Threads : pc[u] = "leaked" => pc'[u] = "leaked"
      BY <1>0, <1>1, <3>1 DEF Guarding, TypeOK
    <3> QED BY <3>1, <3>2, GuardsUnmoved
  <2> QED BY <2>1, <2>2
<1>4. Counted' = Counted /\ InWait' \subseteq InWait
  BY <1>0, <1>1 DEF Counted, InWait, TypeOK
<1>5. WaitersCount' /\ SleepersAreOnTime'
  BY <1>0, <1>1, <1>4 DEF WaitersCount, SleepersAreOnTime, InWait, TypeOK
<1>6. NotifierCounts'
  BY <1>0, <1>1, <1>4, NotifierUnmoved DEF TypeOK
<1> QED BY <1>2, <1>3, <1>5, <1>6 DEF IInv

\* macro unlock! counts the waiter up: the caller has the mutex, so nobody is
\* between a load of waiters and a wake.
LEMMA RegisterIInv ==
    ASSUME IInv, NEW t \in Threads, NEW tm \in BOOLEAN, WaitRegister(t, tm)
    PROVE  IInv'
<1>0. TypeOK /\ GuardsExclude /\ WaitersCount /\ SleepersAreOnTime
      /\ NotifierCounts
  BY DEF IInv
<1>1. /\ UNCHANGED <<lock, note, interrupts>>
      /\ pc[t] = "held" /\ waiters' = waiters + 1
      /\ pc' = [pc EXCEPT ![t] = "registered"]
      /\ timed' = [timed EXCEPT ![t] = tm]
      /\ timedOut' = [timedOut EXCEPT ![t] = FALSE]
  BY DEF WaitRegister, Goto
<1>2. Counted' = Counted \cup {t} /\ t \notin Counted
  BY <1>0, <1>1 DEF Counted, TypeOK
<1>3. WaitersCount'
  BY <1>0, <1>1, <1>2, CountOne DEF WaitersCount, Counted
<1>4. TypeOK'
  <2>1. Counted' \in SUBSET Threads
    BY DEF Counted
  <2>2. waiters' \in 0..Cardinality(Threads)
    BY <1>3, <2>1, Counting DEF WaitersCount
  <2> QED BY <1>0, <1>1, <2>2 DEF TypeOK, lock, note
<1>5. GuardsExclude'
  <2>1. /\ Guarding' = Guarding
        /\ \A u \in Threads : pc[u] = "leaked" => pc'[u] = "leaked"
    BY <1>0, <1>1 DEF Guarding, TypeOK
  <2> QED BY <1>1, <2>1, GuardsUnmoved
<1>6. SleepersAreOnTime'
  BY <1>0, <1>1 DEF SleepersAreOnTime, InWait, TypeOK
<1>7. NotifierCounts'
  <2>1. \A u \in Threads : pc[u] # "wake" /\ pc[u] # "load"
    BY <1>1, OneGuard DEF Guarding
  <2> QED BY <1>0, <1>1, <2>1 DEF NotifierCounts, TypeOK, note
<1> QED BY <1>3, <1>4, <1>5, <1>6, <1>7 DEF IInv

\* waiters is counted down by a thread that is counted.
LEMMA DeregisterIInv ==
    ASSUME IInv, NEW t \in Threads, WaitDeregister(t)
    PROVE  IInv'
<1>0. TypeOK /\ GuardsExclude /\ WaitersCount /\ SleepersAreOnTime
  BY DEF IInv
<1>1. /\ UNCHANGED <<lock, wait, note, interrupts>>
      /\ pc[t] = "left" /\ waiters' = waiters - 1
      /\ pc' = [pc EXCEPT ![t] = "relock"]
  BY DEF WaitDeregister, Goto
<1>2. Counted' = Counted \ {t} /\ t \in Counted /\ InWait' = InWait
  BY <1>0, <1>1 DEF Counted, InWait, TypeOK
<1>3. WaitersCount'
  BY <1>0, <1>1, <1>2, CountOne DEF WaitersCount, Counted
<1>4. TypeOK'
  <2>1. Counted' \in SUBSET Threads
    BY DEF Counted
  <2>2. waiters' \in 0..Cardinality(Threads)
    BY <1>3, <2>1, Counting DEF WaitersCount
  <2> QED BY <1>0, <1>1, <2>2 DEF TypeOK, lock, note, wait
<1>5. GuardsExclude'
  <2>1. /\ Guarding' = Guarding
        /\ \A u \in Threads : pc[u] = "leaked" => pc'[u] = "leaked"
    BY <1>0, <1>1 DEF Guarding, TypeOK
  <2> QED BY <1>1, <2>1, GuardsUnmoved
<1>6. SleepersAreOnTime'
  BY <1>0, <1>1, <1>2 DEF SleepersAreOnTime, wait
<1>7. NotifierCounts'
  BY <1>0, <1>1, <1>2, NotifierUnmoved DEF TypeOK
<1> QED BY <1>3, <1>4, <1>5, <1>6, <1>7 DEF IInv

\* notify_one and notify_all begin.
LEMMA NotifyCallIInv ==
    ASSUME IInv, NEW t \in Threads, NEW k \in {"one", "all"}, NotifyCall(t, k)
    PROVE  IInv'
<1>0. TypeOK /\ GuardsExclude /\ WaitersCount /\ SleepersAreOnTime
      /\ NotifierCounts
  BY DEF IInv
<1>1. /\ UNCHANGED <<lock, waiters, wait, toWake, interrupts>>
      /\ pc[t] = "held" /\ pc' = [pc EXCEPT ![t] = "load"]
      /\ notify' = [notify EXCEPT ![t] = k]
  BY DEF NotifyCall, Goto
<1>2. Counted' = Counted /\ InWait' = InWait
  BY <1>0, <1>1 DEF Counted, InWait, TypeOK
<1>3. TypeOK' /\ GuardsExclude'
  <2>1. /\ Guarding' = Guarding
        /\ \A u \in Threads : pc[u] = "leaked" => pc'[u] = "leaked"
    BY <1>0, <1>1 DEF Guarding, TypeOK
  <2>2. GuardsExclude'
    BY <1>1, <2>1, GuardsUnmoved
  <2>3. TypeOK'
    BY <1>0, <1>1 DEF TypeOK, lock, wait
  <2> QED BY <2>2, <2>3
<1>4. WaitersCount' /\ SleepersAreOnTime' /\ NotifierCounts'
  BY <1>0, <1>1, <1>2 DEF WaitersCount, SleepersAreOnTime, NotifierCounts, TypeOK, wait
<1> QED BY <1>3, <1>4 DEF IInv

\* waiters.load: what it reads covers all who are inside wait.
LEMMA NotifyLoadIInv ==
    ASSUME IInv, NEW t \in Threads, NotifyLoad(t)
    PROVE  IInv'
<1>0. TypeOK /\ GuardsExclude /\ WaitersCount /\ SleepersAreOnTime
      /\ NotifierCounts
  BY DEF IInv
<1>1. UNCHANGED <<lock, waiters, wait, interrupts>> /\ pc[t] = "load"
  BY DEF NotifyLoad
<1>2. Counted \in SUBSET Threads /\ InWait \in SUBSET Counted
  BY DEF Counted, InWait
<1>3. /\ Cardinality(InWait) <= waiters /\ Cardinality(InWait) \in Nat
      /\ Cardinality(Threads) \in Nat
  BY <1>0, <1>2, Counting DEF WaitersCount
<1>4. CASE NotifyReturn(t) /\ pc' = [pc EXCEPT ![t] = "held"]
  <2>1. Counted' = Counted /\ InWait' = InWait
    BY <1>0, <1>1, <1>4 DEF Counted, InWait, TypeOK
  <2>2. TypeOK'
    BY <1>0, <1>1, <1>3, <1>4 DEF TypeOK, NotifyReturn, lock, wait
  <2>3. GuardsExclude'
    <3>1. /\ Guarding' = Guarding
          /\ \A u \in Threads : pc[u] = "leaked" => pc'[u] = "leaked"
      BY <1>0, <1>1, <1>4 DEF Guarding, TypeOK
    <3> QED BY <1>1, <3>1, GuardsUnmoved
  <2>4. WaitersCount' /\ SleepersAreOnTime'
    BY <1>0, <1>1, <2>1 DEF WaitersCount, SleepersAreOnTime, wait
  <2>5. NotifierCounts'
    BY <1>0, <1>1, <1>4, <2>1 DEF NotifierCounts, NotifyReturn, TypeOK
  <2> QED BY <2>2, <2>3, <2>4, <2>5 DEF IInv
<1>5. CASE /\ waiters > 0 /\ UNCHANGED notify
           /\ toWake' = [toWake EXCEPT ![t] = IF notify[t] = "one" THEN 1 ELSE waiters]
           /\ pc' = [pc EXCEPT ![t] = "wake"]
  <2>1. Counted' = Counted /\ InWait' = InWait
    BY <1>0, <1>1, <1>5 DEF Counted, InWait, TypeOK
  <2>2. TypeOK'
    BY <1>0, <1>1, <1>3, <1>5 DEF TypeOK, lock, wait
  <2>3. GuardsExclude'
    <3>1. /\ Guarding' = Guarding
          /\ \A u \in Threads : pc[u] = "leaked" => pc'[u] = "leaked"
      BY <1>0, <1>1, <1>5 DEF Guarding, TypeOK
    <3> QED BY <1>1, <3>1, GuardsUnmoved
  <2>4. WaitersCount' /\ SleepersAreOnTime'
    BY <1>0, <1>1, <2>1 DEF WaitersCount, SleepersAreOnTime, wait
  <2>5. NotifierCounts'
    BY <1>0, <1>1, <1>3, <1>5, <2>1 DEF NotifierCounts, TypeOK
  <2> QED BY <2>2, <2>3, <2>4, <2>5 DEF IInv
<1> QED BY <1>4, <1>5 DEF NotifyLoad, Goto

\* What a wake does: it moves the sleepers of W out of the futex, and the
\* notifier t back to its caller, or to another load if it woke too few.
WakesUp(t, W) ==
    /\ W \subseteq Asleep
    /\ pc' = [u \in Threads |-> IF u = t THEN pc'[t] ELSE IF u \in W THEN "left" ELSE pc[u]]
    /\ \/ pc'[t] = "held" /\ NotifyReturn(t)
       \/ pc'[t] = "load" /\ UNCHANGED note
    /\ pc'[t] = "held" <=> IF notify[t] = "one" THEN W # {}
                                                ELSE Cardinality(W) = toWake[t]
    /\ \/ Cardinality(W) = toWake[t]
       \/ Cardinality(W) < toWake[t] /\ W = Asleep

\* fx.wake is such a step.
LEMMA NotifyWakeWakes ==
    ASSUME NEW t \in Threads, NotifyWake(t)
    PROVE  \E W \in SUBSET Asleep : WakesUp(t, W)
<1> DEFINE done(W) == IF notify[t] = "one" THEN W # {} ELSE Cardinality(W) = toWake[t]
<1>1. PICK W \in SUBSET Asleep :
          /\ \/ Cardinality(W) = toWake[t]
             \/ Cardinality(W) < toWake[t] /\ W = Asleep
          /\ IF done(W) THEN NotifyReturn(t) ELSE UNCHANGED note
          /\ pc' = [u \in Threads |-> IF u = t THEN IF done(W) THEN "held" ELSE "load"
                                      ELSE IF u \in W THEN "left" ELSE pc[u]]
  BY DEF NotifyWake
<1>2. pc'[t] = IF done(W) THEN "held" ELSE "load"
  BY <1>1
<1>3. pc' = [u \in Threads |-> IF u = t THEN pc'[t] ELSE IF u \in W THEN "left" ELSE pc[u]]
  BY <1>1, <1>2
<1> QED BY <1>1, <1>2, <1>3 DEF WakesUp

\* wake leaves the waiters counted and takes them out of the futex.
LEMMA NotifyWakeIInv ==
    ASSUME IInv, NEW t \in Threads, NotifyWake(t)
    PROVE  IInv'
<1>0. TypeOK /\ GuardsExclude /\ WaitersCount /\ SleepersAreOnTime
      /\ NotifierCounts
  BY DEF IInv
<1>1. UNCHANGED <<lock, waiters, wait, interrupts>> /\ pc[t] = "wake"
  BY DEF NotifyWake
<1>2. PICK W \in SUBSET Asleep : WakesUp(t, W)
  BY NotifyWakeWakes
<1>3. /\ pc' \in [Threads -> {"idle", "locking", "held", "leaked", "registered",
                              "entering", "asleep", "left", "relock", "relocking",
                              "load", "wake"}]
      /\ pc'[t] \in {"held", "load"}
      /\ \A u \in Threads \ {t} : pc'[u] = IF u \in W THEN "left" ELSE pc[u]
      /\ \A u \in W : u \in Threads /\ pc[u] = "asleep"
  BY <1>0, <1>2 DEF WakesUp, Asleep, TypeOK
<1>4. Counted' = Counted
  BY <1>1, <1>3 DEF Counted
<1>5. InWait' \subseteq InWait
  BY <1>1, <1>3 DEF InWait
<1>6. TypeOK'
  <2>1. Cardinality(Threads) \in Nat
    BY Counting
  <2>2. notify' \in [Threads -> {"none", "one", "all"}]
        /\ toWake' \in [Threads -> 0..Cardinality(Threads)]
    BY <1>0, <1>2, <2>1 DEF WakesUp, NotifyReturn, TypeOK, note
  <2> QED BY <1>0, <1>1, <1>3, <2>2 DEF TypeOK, lock, wait
<1>7. GuardsExclude'
  <2>1. /\ Guarding' = Guarding
        /\ \A u \in Threads : pc[u] = "leaked" => pc'[u] = "leaked"
    BY <1>1, <1>3 DEF Guarding
  <2> QED BY <1>1, <2>1, GuardsUnmoved
<1>8. WaitersCount' /\ SleepersAreOnTime'
  BY <1>0, <1>1, <1>4, <1>5 DEF WaitersCount, SleepersAreOnTime, wait
<1>9. NotifierCounts'
  <2>1. \A u \in Threads \ {t} : pc[u] # "wake" /\ pc[u] # "load"
    BY <1>1, OneGuard DEF Guarding
  <2>2. \A u \in Threads \ {t} : /\ notify'[u] = "none"
                                 /\ pc'[u] # "wake" /\ pc'[u] # "load"
    BY <1>0, <1>2, <1>3, <2>1 DEF NotifierCounts, WakesUp, NotifyReturn, TypeOK, note
  <2>3. notify'[t] # "none" <=> pc'[t] = "load"
    BY <1>0, <1>1, <1>2 DEF NotifierCounts, WakesUp, NotifyReturn, TypeOK, note
  <2> QED BY <1>3, <2>2, <2>3 DEF NotifierCounts
<1> QED BY <1>6, <1>7, <1>8, <1>9 DEF IInv

-----------------------------------------------------------------------------
\* The invariant holds in every reachable state.
LEMMA Invariance == Spec => []IInv
<1>1. Init => IInv
  <2> SUFFICES ASSUME Init PROVE IInv
    OBVIOUS
  <2>1. Counted = {} /\ InWait = {}
    BY DEF Init, Counted, InWait
  <2>2. Cardinality({}) = 0 /\ Cardinality(Threads) \in Nat
    BY FS_EmptySet, Counting
  <2>3. TypeOK
    <3>1. /\ timed \in [Threads -> BOOLEAN] /\ timedOut \in [Threads -> BOOLEAN]
          /\ blocked \in BOOLEAN /\ stranded \in BOOLEAN
      BY DEF Init
    <3>2. /\ waiters \in 0..Cardinality(Threads) /\ interrupts \in 0..MaxInterrupts
          /\ toWake \in [Threads -> 0..Cardinality(Threads)]
      BY <2>2, PiAssumption DEF Init
    <3>3. /\ owner \in Threads \cup {NoThread}
          /\ notify \in [Threads -> {"none", "one", "all"}]
          /\ pc \in [Threads -> {"idle", "locking", "held", "leaked", "registered",
                                 "entering", "asleep", "left", "relock", "relocking",
                                 "load", "wake"}]
      BY DEF Init
    <3> QED BY <3>1, <3>2, <3>3 DEF TypeOK
  <2>4. GuardsExclude /\ NotifierCounts
    BY PiAssumption DEF Init, GuardsExclude, Guarding, NotifierCounts
  <2>5. WaitersCount /\ SleepersAreOnTime
    BY <2>1, <2>2 DEF Init, WaitersCount, SleepersAreOnTime
  <2> QED BY <2>3, <2>4, <2>5 DEF IInv
<1>2. IInv /\ [Next]_vars => IInv'
  <2> SUFFICES ASSUME IInv, [Next]_vars PROVE IInv'
    OBVIOUS
  <2>1. CASE UNCHANGED vars
    BY <2>1 DEF vars, lock, wait, note, IInv, TypeOK, GuardsExclude, Guarding,
                WaitersCount, Counted, SleepersAreOnTime, NotifierCounts, InWait
  <2> QED
    BY <2>1, LockStepIInv, MoveIInv, WaitStepIInv, RegisterIInv, DeregisterIInv, NotifyCallIInv,
       NotifyLoadIInv, NotifyWakeIInv DEF Next, Inside
<1> QED BY <1>1, <1>2, PTL DEF Spec

\* Every variable keeps its type; for waiters, an unsigned counter, that means
\* that it never goes below zero nor above the number of threads.
THEOREM TypeCorrect == Spec => []TypeOK
<1>1. IInv => TypeOK
  BY DEF IInv
<1> QED BY <1>1, Invariance, PTL

\* Mutual exclusion: of all threads one at most has a guard, also one that was
\* handed to it; the mutex is locked as long as a guard is alive, and free when
\* there is none, unless a guard was given up by a thread that had not locked, and
\* then nobody gets one again; a mutex blocked forever stays locked.
THEOREM GuardsExcludeCorrect == Spec => []GuardsExclude
<1>1. IInv => GuardsExclude
  BY DEF IInv
<1> QED BY <1>1, Invariance, PTL

-----------------------------------------------------------------------------
\* The refinement of Monitor.

\* The mapping, value by value.
LEMMA CondValue ==
    ASSUME NEW t \in Threads
    PROVE  /\ pc[t] \in {"registered", "entering", "asleep"} <=> Cond[t] = "waiting"
           /\ pc[t] \in {"left", "relock", "relocking"} =>
                 Cond[t] = IF timedOut[t] THEN "timedout" ELSE "woken"
           /\ pc[t] \notin {"registered", "entering", "asleep", "left", "relock", "relocking"}
                 => Cond[t] = "out"
BY DEF Cond, InWait

\* The one thread that holds the mutex is the holder, now ...
LEMMA HolderValue ==
    ASSUME IInv
    PROVE  /\ \A t \in Holding : Holding = {t} /\ Holder = t
           /\ \A t \in Threads : pc[t] = "registered" => Holding = {}
           /\ Guarding = {} => Holding = {}
           /\ Holding = {} => Holder = NoThread
<1>1. Holding \subseteq Guarding
  BY DEF Holding
<1>2. \A t \in Holding : Holding = {t}
  BY <1>1, OneGuard
<1>3. \A t \in Holding : Holder = t
  BY <1>2 DEF Holder, TheOne
<1>4. ASSUME NEW t \in Threads, pc[t] = "registered" PROVE Holding = {}
  <2>1. Guarding = {t}
    BY <1>4, OneGuard DEF Guarding
  <2> QED BY <1>4, <2>1 DEF Holding
<1> QED BY <1>1, <1>2, <1>3, <1>4 DEF Holder, TheOne

\* ... and in the next state.
LEMMA HolderNext ==
    /\ \A t \in Threads : Holding' = {t} => Holder' = t
    /\ Holding' = {} => Holder' = NoThread
    /\ Holding' = Holding => Holder' = Holder
<1>1. /\ \A t \in Threads : TheOne({t}) = t
      /\ TheOne({}) = NoThread
  BY DEF TheOne
<1> QED BY <1>1 DEF Holder

\* A step of one thread changes nobody else's standing.
LEMMA CondMove ==
    ASSUME IInv, NEW t \in Threads, NEW l, pc' = [pc EXCEPT ![t] = l],
           NEW b, timedOut' = [timedOut EXCEPT ![t] = b]
    PROVE  Cond' = [Cond EXCEPT ![t] = Cond'[t]]
<1>1. \A u \in Threads \ {t} : pc'[u] = pc[u] /\ timedOut'[u] = timedOut[u]
  BY DEF IInv, TypeOK
<1>2. \A u \in Threads \ {t} : u \in InWait' <=> u \in InWait
  BY <1>1 DEF InWait
<1>3. \A u \in Threads \ {t} : Cond'[u] = Cond[u]
  BY <1>1, <1>2 DEF Cond
<1> QED BY <1>3 DEF Cond

\* lock, try_lock, unlock and block_forever: the monitor is taken or given up
\* when the futex word changes, and otherwise nothing happens to it.
LEMMA LockStepRefines ==
    ASSUME IInv, IInv', NEW t \in Threads,
           LockCheck(t) \/ LockAcquire(t) \/ TryLock(t) \/ Unlock(t) \/ BlockForever(t)
    PROVE  [Abstract!Next]_(Abstract!vars)
<1>0. /\ TypeOK /\ GuardsExclude /\ NotifierCounts /\ TypeOK'
      /\ UNCHANGED <<waiters, wait, note>>
  BY DEF IInv, LockCheck, LockAcquire, TryLock, Unlock, BlockForever
<1>1. /\ timedOut' = [timedOut EXCEPT ![t] = timedOut[t]]
      /\ timedOut'[t] = timedOut[t] /\ notify' = notify
  BY <1>0 DEF wait, note, TypeOK
<1>2. /\ pc[t] = "locking" => Cond[t] = "out"
      /\ pc[t] \in {"idle", "held", "leaked"} => Cond[t] = "out"
      /\ pc[t] \in {"relock", "relocking"} =>
            Cond[t] = IF timedOut[t] THEN "timedout" ELSE "woken"
  BY CondValue
<1>3. /\ pc'[t] \in {"idle", "locking", "held", "leaked"} => Cond'[t] = "out"
      /\ pc'[t] \in {"relock", "relocking"} =>
            Cond'[t] = IF timedOut[t] THEN "timedout" ELSE "woken"
  BY <1>1 DEF Cond, InWait
<1>4. ASSUME NEW l, pc' = [pc EXCEPT ![t] = l]
      PROVE  pc'[t] = l /\ Cond' = [Cond EXCEPT ![t] = Cond'[t]]
  BY <1>0, <1>1, <1>4, CondMove DEF TypeOK
<1>5. ASSUME NEW l, pc' = [pc EXCEPT ![t] = l], Cond'[t] = Cond[t]
      PROVE  Cond' = Cond
  BY <1>4, <1>5 DEF Cond
<1>6. CASE LockCheck(t)
  <2>1. Holding' = Holding
    BY <1>0, <1>6 DEF LockCheck, Goto, Holding, Guarding, TypeOK
  <2>2. Holder' = Holder
    BY <2>1, HolderNext
  <2>3. Cond' = Cond
    BY <1>2, <1>3, <1>4, <1>5, <1>6 DEF LockCheck, Goto
  <2> QED BY <1>1, <2>2, <2>3 DEF Abstract!vars
<1>7. CASE LockAcquire(t) \/ TryLock(t)
  <2>1. Holder = NoThread /\ Holder' = t
    <3>1. Guarding = {}
      BY <1>0, <1>7 DEF LockAcquire, TryLock, GuardsExclude
    <3>2. Holding' = {t}
      BY <1>0, <1>7, <3>1 DEF LockAcquire, TryLock, Goto, Holding, Guarding, TypeOK
    <3> QED BY <3>1, <3>2, HolderValue, HolderNext
  <2>2. CASE pc[t] = "relocking"
    <3>1. /\ Cond[t] \in {"woken", "timedout"}
          /\ Cond' = [Cond EXCEPT ![t] = "out"]
      BY <1>2, <1>3, <1>4, <1>7, <2>2 DEF LockAcquire, TryLock, Goto
    <3> QED BY <1>1, <2>1, <3>1 DEF Abstract!Next, Abstract!Reacquire
  <2>3. CASE pc[t] \in {"locking", "idle"}
    <3>1. Cond[t] = "out" /\ Cond' = Cond
      BY <1>2, <1>3, <1>4, <1>5, <1>7, <2>3 DEF LockAcquire, TryLock, Goto
    <3> QED BY <1>1, <2>1, <3>1 DEF Abstract!Next, Abstract!Lock
  <2> QED BY <1>7, <2>2, <2>3 DEF LockAcquire, TryLock
<1>8. CASE Unlock(t)
  <2>1. Holder = t /\ Holder' = NoThread
    <3>1. t \in Holding
      BY <1>8 DEF Unlock, Holding, Guarding
    <3>2. Holding = {t} /\ Holder = t
      BY <3>1, HolderValue
    <3>3. Holding' = {}
      BY <1>0, <1>8, <3>2 DEF Unlock, Goto, Holding, Guarding, TypeOK
    <3> QED BY <3>2, <3>3, HolderNext
  <2>2. Cond' = Cond
    BY <1>2, <1>3, <1>4, <1>5, <1>8 DEF Unlock, Goto
  <2>3. notify[t] = "none"
    BY <1>0, <1>8 DEF Unlock, NotifierCounts
  <2> QED BY <1>1, <2>1, <2>2, <2>3 DEF Abstract!Next, Abstract!Unlock
<1>9. CASE BlockForever(t)
  <2>1. Holding' = Holding
    BY <1>0, <1>9 DEF BlockForever, Goto, Holding, Guarding, TypeOK
  <2>2. Cond' = Cond
    BY <1>2, <1>3, <1>4, <1>5, <1>9 DEF BlockForever, Goto
  <2> QED BY <1>1, <2>1, <2>2, HolderNext DEF Abstract!vars
<1> QED BY <1>6, <1>7, <1>8, <1>9

\* A guard that moves takes the monitor with it.
LEMMA MoveRefines ==
    ASSUME IInv, NEW t \in Threads, NEW u \in Threads, MoveGuard(t, u)
    PROVE  Abstract!Next
<1>0. /\ TypeOK /\ NotifierCounts
      /\ timedOut' = timedOut /\ notify' = notify
      /\ pc[t] = "held" /\ pc[u] = "idle" /\ t # u
      /\ pc'[t] = "idle" /\ pc'[u] = "held"
      /\ \A v \in Threads \ {t, u} : pc'[v] = pc[v]
  BY DEF IInv, MoveGuard, TypeOK, wait, note
<1>1. Holding = {t} /\ Holder = t
  BY <1>0, HolderValue DEF Holding, Guarding
<1>2. Holding' = {u}
  BY <1>0, <1>1 DEF Holding, Guarding
<1>3. Holder' = u
  BY <1>2, HolderNext
<1>4. InWait' = InWait
  BY <1>0 DEF InWait
<1>5. Cond' = Cond
  BY <1>0, <1>4 DEF Cond
<1>6. notify[t] = "none" /\ Cond[u] = "out"
  BY <1>0, CondValue DEF NotifierCounts
<1>7. Abstract!Pass(t, u)
  BY <1>0, <1>1, <1>3, <1>5, <1>6 DEF Abstract!Pass
<1> QED BY <1>7 DEF Abstract!Next

\* The steps of a wait: the monitor is given up and the wait begins when the
\* waiter is counted, and ends with a timeout or a wake.
LEMMA WaitStepRefines ==
    ASSUME IInv, IInv', NEW t \in Threads,
           \/ \E tm \in BOOLEAN : WaitRegister(t, tm)
           \/ WaitUnlock(t) \/ FutexWait(t) \/ WaitTimeOut(t) \/ WaitInterrupted(t)
           \/ WaitDeregister(t)
    PROVE  [Abstract!Next]_(Abstract!vars)
<1> DEFINE Step(l, b) == /\ pc' = [pc EXCEPT ![t] = l]
                         /\ timedOut' = [timedOut EXCEPT ![t] = b]
<1>0. TypeOK /\ NotifierCounts /\ SleepersAreOnTime /\ notify' = notify
  BY DEF IInv, WaitRegister, WaitUnlock, FutexWait, WaitTimeOut, WaitInterrupted,
         WaitDeregister, note
<1>1. ASSUME NEW l, NEW b, Step(l, b)
      PROVE  /\ pc'[t] = l /\ timedOut'[t] = b
             /\ \A u \in Threads \ {t} : pc'[u] = pc[u]
             /\ Cond' = [Cond EXCEPT ![t] = Cond'[t]]
             /\ Cond'[t] = Cond[t] => Cond' = Cond
             /\ l \in {"registered", "entering", "asleep"} => Cond'[t] = "waiting"
             /\ l \in {"left", "relock"} => Cond'[t] = IF b THEN "timedout" ELSE "woken"
  <2>1. /\ pc'[t] = l /\ timedOut'[t] = b
        /\ \A u \in Threads \ {t} : pc'[u] = pc[u]
    BY <1>0, <1>1 DEF TypeOK
  <2>2. Cond' = [Cond EXCEPT ![t] = Cond'[t]]
    BY <1>1, CondMove
  <2>3. Cond'[t] = Cond[t] => Cond' = Cond
    BY <2>2 DEF Cond
  <2>4. l \in {"registered", "entering", "asleep"} => Cond'[t] = "waiting"
    BY <2>1 DEF Cond, InWait
  <2>5. l \in {"left", "relock"} => Cond'[t] = IF b THEN "timedout" ELSE "woken"
    BY <2>1 DEF Cond, InWait
  <2> QED BY <2>1, <2>2, <2>3, <2>4, <2>5
<1>2. timedOut' = timedOut => timedOut' = [timedOut EXCEPT ![t] = timedOut[t]]
  BY <1>0 DEF TypeOK
<1>3. ASSUME NEW tm \in BOOLEAN, WaitRegister(t, tm)
      PROVE  Abstract!Next
  <2>1. Step("registered", FALSE) /\ pc[t] = "held"
    BY <1>3 DEF WaitRegister, Goto
  <2>2. Holding = {t} /\ Holder = t /\ notify[t] = "none"
    BY <1>0, <2>1, HolderValue DEF NotifierCounts, Holding, Guarding
  <2>3. Holder' = NoThread
    <3>1. pc'[t] = "registered" /\ \A u \in Threads \ {t} : pc'[u] = pc[u]
      BY <1>1, <2>1
    <3>2. Holding' = {}
      BY <2>2, <3>1 DEF Holding, Guarding
    <3> QED BY <3>2, HolderNext
  <2>4. Cond' = [Cond EXCEPT ![t] = "waiting"]
    BY <1>1, <2>1
  <2> QED BY <1>0, <2>2, <2>3, <2>4 DEF Abstract!Next, Abstract!Wait
<1>4. CASE WaitUnlock(t)
  <2>1. Step("entering", timedOut[t]) /\ pc[t] = "registered"
    BY <1>2, <1>4 DEF WaitUnlock, Goto, wait
  <2>2. Holder' = Holder
    <3>1. Holding' = Holding
      BY <1>1, <2>1 DEF Holding, Guarding
    <3> QED BY <3>1, HolderNext
  <2>3. Cond' = Cond
    BY <1>1, <2>1, CondValue
  <2> QED BY <1>0, <2>2, <2>3 DEF Abstract!vars
<1>5. CASE FutexWait(t) \/ WaitInterrupted(t)
  <2>1. PICK l \in {"asleep", "entering"} :
          /\ Step(l, timedOut[t])
          /\ pc[t] \in {"entering", "asleep"}
    BY <1>2, <1>5 DEF FutexWait, WaitInterrupted, Goto, wait
  <2>2. Holder' = Holder
    <3>1. Holding' = Holding
      BY <1>1, <2>1 DEF Holding, Guarding
    <3> QED BY <3>1, HolderNext
  <2>3. Cond' = Cond
    BY <1>1, <2>1, CondValue
  <2> QED BY <1>0, <2>2, <2>3 DEF Abstract!vars
<1>6. CASE WaitTimeOut(t)
  <2>1. Step("left", TRUE) /\ pc[t] \in {"entering", "asleep"}
    BY <1>6 DEF WaitTimeOut, Goto
  <2>2. Holder' = Holder
    <3>1. Holding' = Holding
      BY <1>1, <2>1 DEF Holding, Guarding
    <3> QED BY <3>1, HolderNext
  <2>3. Cond[t] = "waiting" /\ Cond' = [Cond EXCEPT ![t] = "timedout"]
    BY <1>1, <2>1, CondValue
  <2> QED BY <1>0, <2>2, <2>3 DEF Abstract!Next, Abstract!TimeOut
<1>7. CASE WaitDeregister(t)
  <2>1. Step("relock", timedOut[t]) /\ pc[t] = "left"
    BY <1>2, <1>7 DEF WaitDeregister, Goto, wait
  <2>2. Holder' = Holder
    <3>1. Holding' = Holding
      BY <1>1, <2>1 DEF Holding, Guarding
    <3> QED BY <3>1, HolderNext
  <2>3. Cond' = Cond
    BY <1>1, <2>1, CondValue
  <2> QED BY <1>0, <2>2, <2>3 DEF Abstract!vars
<1> QED BY <1>3, <1>4, <1>5, <1>6, <1>7

\* The notifier's steps but the wake: the notification begins with the call,
\* and is over at once if waiters was 0, when there is nobody to wake.
LEMMA NotifyStepRefines ==
    ASSUME IInv, NEW t \in Threads,
           NotifyLoad(t) \/ \E k \in {"one", "all"} : NotifyCall(t, k)
    PROVE  [Abstract!Next]_(Abstract!vars)
<1>0. /\ TypeOK /\ NotifierCounts /\ WaitersCount /\ timedOut' = timedOut
      /\ pc[t] \in {"held", "load"}
      /\ \E l \in {"held", "load", "wake"} : pc' = [pc EXCEPT ![t] = l]
  BY DEF IInv, NotifyLoad, NotifyCall, Goto, wait
<1>1. Holder = t
  BY <1>0, HolderValue DEF Holding, Guarding
<1>2. Holder' = Holder
  <2>1. Holding' = Holding
    BY <1>0 DEF Holding, Guarding, TypeOK
  <2> QED BY <2>1, HolderNext
<1>3. Cond' = Cond
  <2>1. InWait' = InWait
    BY <1>0 DEF InWait, TypeOK
  <2> QED BY <1>0, <2>1 DEF Cond, TypeOK
<1>4. ASSUME NEW k \in {"one", "all"}, NotifyCall(t, k)
      PROVE  Abstract!Next
  <2>1. notify[t] = "none" /\ notify' = [notify EXCEPT ![t] = k]
    BY <1>0, <1>4 DEF NotifyCall, NotifierCounts
  <2> QED BY <1>1, <1>2, <1>3, <2>1 DEF Abstract!Next, Abstract!NotifyCall
<1>5. CASE NotifyLoad(t)
  <2>1. CASE UNCHANGED notify
    BY <1>2, <1>3, <2>1 DEF Abstract!vars
  <2>2. CASE waiters = 0 /\ NotifyReturn(t)
    <3>1. Counted = {}
      <4>1. Counted \in SUBSET Threads
        BY DEF Counted
      <4> QED BY <1>0, <2>2, <4>1, Counting DEF WaitersCount
    <3>2. Abstract!Waiting = {}
      BY <3>1 DEF Abstract!Waiting, Cond, InWait, Counted
    <3>3. notify[t] # "none" /\ notify' = [notify EXCEPT ![t] = "none"]
      BY <1>0, <1>5, <2>2 DEF NotifyLoad, NotifyReturn, NotifierCounts
    <3> QED BY <1>2, <1>3, <3>2, <3>3 DEF Abstract!Next, Abstract!NotifyNobody
  <2> QED BY <1>5, <2>1, <2>2 DEF NotifyLoad
<1> QED BY <1>0, <1>4, <1>5

\* The wake: notify_one is over with the one waiter it woke, notify_all when
\* it has woken as many as it counted, which is then everybody; a wake that
\* reached too few is the part of it that was done.
LEMMA WakeRefines ==
    ASSUME IInv, IInv', NEW t \in Threads, NotifyWake(t)
    PROVE  [Abstract!Next]_(Abstract!vars)
<1>0. /\ TypeOK /\ NotifierCounts /\ SleepersAreOnTime
      /\ timedOut' = timedOut /\ pc[t] = "wake"
  BY DEF IInv, NotifyWake, wait
<1>1. PICK W \in SUBSET Asleep : WakesUp(t, W)
  BY NotifyWakeWakes
<1>2. /\ W \in SUBSET Threads /\ W \in SUBSET InWait /\ InWait \in SUBSET Threads
      /\ t \notin InWait
      /\ \A u \in W : pc[u] = "asleep" /\ ~timedOut[u]
      /\ \A u \in Threads : pc'[u] = IF u = t THEN pc'[t]
                                     ELSE IF u \in W THEN "left" ELSE pc[u]
      /\ pc'[t] \in {"held", "load"}
  BY <1>0, <1>1 DEF WakesUp, Asleep, InWait, SleepersAreOnTime
<1>3. Holding' = Holding
  BY <1>0, <1>2 DEF Holding, Guarding
<1>4. Holder' = Holder
  BY <1>3, HolderNext
<1>5. InWait' = InWait \ W
  BY <1>2 DEF InWait
<1>6. Cond' = [u \in Threads |-> IF u \in W THEN "woken" ELSE Cond[u]]
  <2>1. \A u \in Threads : Cond'[u] = IF u \in W THEN "woken" ELSE Cond[u]
    BY <1>0, <1>2, <1>5 DEF Cond
  <2> QED BY <2>1 DEF Cond
<1>7. Abstract!Waiting = InWait
  BY DEF Abstract!Waiting, Cond, InWait
<1>8. Cardinality(W) \in Nat /\ Cardinality(InWait) \in Nat /\ toWake[t] \in Nat
  BY <1>0, <1>2, Counting DEF TypeOK
<1>9. CASE notify[t] = "one"
  <2>1. Cardinality(W) <= 1
    BY <1>0, <1>1, <1>8, <1>9 DEF NotifierCounts, WakesUp
  <2>2. CASE W = {}
    <3>1. Cond' = Cond
      BY <1>6, <2>2 DEF Cond
    <3>2. notify' = notify
      BY <1>1, <1>9, <2>2 DEF WakesUp, note
    <3> QED BY <1>4, <3>1, <3>2 DEF Abstract!vars
  <2>3. CASE W # {}
    <3>1. PICK w \in W : W = {w}
      BY <1>2, <2>1, <2>3, AtMostOne
    <3>2. Cond' = [Cond EXCEPT ![w] = "woken"]
      BY <1>6, <3>1 DEF Cond
    <3>3. notify' = [notify EXCEPT ![t] = "none"]
      BY <1>1, <1>9, <2>3 DEF WakesUp, NotifyReturn
    <3>4. Abstract!WakeOne(t, w)
      BY <1>2, <1>4, <1>7, <1>9, <3>2, <3>3 DEF Abstract!WakeOne
    <3> QED BY <1>2, <3>4 DEF Abstract!Next
  <2> QED BY <2>2, <2>3
<1>10. CASE notify[t] = "all"
  <2>1. notify' \in {notify, [notify EXCEPT ![t] = "none"]}
    BY <1>1 DEF WakesUp, NotifyReturn, note
  <2>2. ASSUME notify'[t] = "none" PROVE W = InWait
    <3>1. Cardinality(W) = toWake[t]
      BY <1>1, <1>10, <2>2 DEF WakesUp, note
    <3>2. Cardinality(InWait) <= toWake[t]
      BY <1>0, <1>10 DEF NotifierCounts
    <3>3. Cardinality(W) <= Cardinality(InWait)
      BY <1>2, Counting
    <3>4. Cardinality(W) = Cardinality(InWait)
      BY <1>8, <3>1, <3>2, <3>3
    <3> QED BY <1>2, <3>4, Counting
  <2>3. Abstract!WakeSome(t, W)
    BY <1>2, <1>4, <1>6, <1>7, <1>10, <2>1, <2>2 DEF Abstract!WakeSome
  <2> QED BY <1>2, <2>3 DEF Abstract!Next
<1> QED BY <1>0, <1>9, <1>10 DEF NotifierCounts, TypeOK

\* The mutex and the condition variable of pi.rs implement the monitor that
\* the channels, the cells and the semaphore are written against: wait gives
\* up the mutex and waits in one step, a notification under the mutex reaches
\* a waiter if there is one, and notify_all leaves none.
THEOREM MonitorImplemented == Spec => ImplementsMonitor
<1>1. Init => Abstract!Init
  <2> SUFFICES ASSUME Init PROVE Abstract!Init
    OBVIOUS
  <2>1. Holder = NoThread
    BY DEF Init, Holder, TheOne, Holding, Guarding
  <2>2. Cond = [t \in Threads |-> "out"]
    BY DEF Init, Cond, InWait
  <2> QED BY <2>1, <2>2 DEF Init, Abstract!Init
<1>2. IInv /\ IInv' /\ [Next]_vars => [Abstract!Next]_(Abstract!vars)
  <2> SUFFICES ASSUME IInv, IInv', [Next]_vars
               PROVE  [Abstract!Next]_(Abstract!vars)
    OBVIOUS
  <2>1. CASE UNCHANGED vars
    BY <2>1 DEF vars, lock, wait, note, Abstract!vars, Holder, Holding, Guarding,
                Cond, InWait
  <2> QED
    BY <2>1, LockStepRefines, MoveRefines, WaitStepRefines, NotifyStepRefines, WakeRefines
       DEF Next, Inside
<1> QED BY <1>1, <1>2, Invariance, PTL DEF Spec, ImplementsMonitor, Abstract!Spec

=============================================================================
