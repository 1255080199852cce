---------------------------- MODULE ChannelProofs ----------------------------
(***************************************************************************)
(* Proofs about the synchronous channel, for every number of threads and   *)
(* messages and every capacity: what holds over every storage that keeps   *)
(* StorageContract, then what holds over a VecDeque, then what holds over  *)
(* the deque that stores by delivery policy.                               *)
(***************************************************************************)
EXTENDS Channel, PolicyChannel, PolicyDequeProofs

-----------------------------------------------------------------------------
\* Facts about the scheduling operators.

\* Notifying waiters and moving a thread keeps the type of st.
LEMMA MovedType ==
    ASSUME st \in [Threads -> ThreadState],
           NEW t \in Threads, NEW x \in ThreadState, NEW W
    PROVE  Moved(W, t, x) \in [Threads -> ThreadState]
BY DEF Moved, ThreadState

\* notify_one and notify_all wake nobody but waiters of the group.
LEMMA NotifyOneWakesWaiters ==
    ASSUME NEW G, NEW W \in NotifyOne(G)
    PROVE  W \subseteq Waiting(G)
BY DEF NotifyOne

\* What the return of a method does to the threads: the caller becomes idle,
\* the threads of W are woken, nobody else moves.
LEMMA ReturnStep ==
    ASSUME TypeOK, NEW t \in Threads, st[t] \in Live,
           NEW r \in SendResult \cup RecvResult,
           NEW W, \A u \in W : st[u] = "waiting",
           Return(t, r, W)
    PROVE  /\ mode' \in [Threads -> {"none", "block", "timed"}]
           /\ ret' \in [Threads -> SendResult \cup RecvResult \cup {"none"}]
           /\ st' \in [Threads -> ThreadState]
           /\ st'[t] = "idle"
           /\ \A u \in Threads \ {t} :
                 st'[u] = IF u \in W THEN "woken" ELSE st[u]
           /\ \A u \in Threads : st'[u] \in Live <=> st[u] \in Live
<1>1. /\ mode' \in [Threads -> {"none", "block", "timed"}]
      /\ ret' \in [Threads -> SendResult \cup RecvResult \cup {"none"}]
  BY DEF Return, TypeOK
<1>2. st' \in [Threads -> ThreadState]
  BY MovedType DEF Return, TypeOK, ThreadState
<1>3. /\ st'[t] = "idle"
      /\ \A u \in Threads \ {t} :
                 st'[u] = IF u \in W THEN "woken" ELSE st[u]
  BY DEF Return, Moved
<1>4. \A u \in Threads : st'[u] \in Live <=> st[u] \in Live
  BY <1>3 DEF Live
<1> QED
  BY <1>1, <1>2, <1>3, <1>4

\* The same when nobody is notified.
LEMMA ReturnAlone ==
    ASSUME TypeOK, NEW t \in Threads, st[t] \in Live,
           NEW r \in SendResult \cup RecvResult, Return(t, r, {})
    PROVE  /\ mode' \in [Threads -> {"none", "block", "timed"}]
           /\ ret' \in [Threads -> SendResult \cup RecvResult \cup {"none"}]
           /\ st' \in [Threads -> ThreadState]
           /\ st'[t] = "idle"
           /\ \A u \in Threads \ {t} : st'[u] = st[u]
           /\ \A u \in Threads : st'[u] \in Live <=> st[u] \in Live
BY ReturnStep

\* Entering a wait moves the caller and nobody else.
LEMMA WaitStep ==
    ASSUME TypeOK, NEW t \in Threads, st[t] \in Live,
           NEW md \in Mode \cup {"none"}, Wait(t, md)
    PROVE  /\ mode' \in [Threads -> {"none", "block", "timed"}]
           /\ ret' \in [Threads -> SendResult \cup RecvResult \cup {"none"}]
           /\ st' \in [Threads -> ThreadState]
           /\ st'[t] = "waiting"
           /\ \A u \in Threads \ {t} : st'[u] = st[u]
           /\ \A u \in Threads : st'[u] \in Live <=> st[u] \in Live
<1>1. /\ mode' \in [Threads -> {"none", "block", "timed"}]
      /\ ret' \in [Threads -> SendResult \cup RecvResult \cup {"none"}]
  BY DEF Wait, TypeOK, Mode
<1>2. st' \in [Threads -> ThreadState]
  BY MovedType DEF Wait, TypeOK, ThreadState
<1>3. /\ st'[t] = "waiting"
      /\ \A u \in Threads \ {t} : st'[u] = st[u]
  BY DEF Wait, Moved
<1>4. \A u \in Threads : st'[u] \in Live <=> st[u] \in Live
  BY <1>3 DEF Live
<1> QED
  BY <1>1, <1>2, <1>3, <1>4

\* The handle counts stay right when they and everybody's being alive do.
LEMMA SameCount ==
    ASSUME HandleCount, UNCHANGED <<senders, receivers>>,
           \A u \in Threads : st'[u] \in Live <=> st[u] \in Live
    PROVE  HandleCount'
<1>1. {s \in Senders : st'[s] \in Live} = {s \in Senders : st[s] \in Live}
  BY DEF Threads
<1>2. {r \in Receivers : st'[r] \in Live} = {r \in Receivers : st[r] \in Live}
  BY DEF Threads
<1> QED
  BY <1>1, <1>2 DEF HandleCount

\* A set of live threads is finite, and no larger than its group.
LEMMA SubsetCount ==
    ASSUME NEW G, IsFiniteSet(G), NEW A \in SUBSET G
    PROVE  /\ IsFiniteSet(A)
           /\ Cardinality(A) \in Nat
           /\ Cardinality(A) <= Cardinality(G)
           /\ Cardinality(G) \in Nat
           /\ Cardinality(A) = 0 <=> A = {}
BY FS_Subset, FS_CardinalityType, FS_EmptySet

\* The number of live threads of a group is in range.
LEMMA CountsInRange ==
    ASSUME NEW f
    PROVE  /\ Cardinality({s \in Senders : f[s] \in Live}) \in 0..Cardinality(Senders)
           /\ Cardinality({r \in Receivers : f[r] \in Live})
                 \in 0..Cardinality(Receivers)
<1>1. /\ {s \in Senders : f[s] \in Live} \in SUBSET Senders
      /\ {r \in Receivers : f[r] \in Live} \in SUBSET Receivers
  OBVIOUS
<1> QED
  BY <1>1, SubsetCount, ThreadsAssumption

-----------------------------------------------------------------------------
\* Type correctness and the handle counts: neither is inductive without the
\* other, as only the counts keep senders and receivers from going negative.

TypeInv == TypeOK /\ HandleCount

\* One pass of send, send_timeout or try_send keeps TypeInv.
LEMMA SendTypeInv ==
    ASSUME TypeInv, NEW s \in Senders, st[s] \in {"idle", "woken"},
           NEW m \in Msg, NEW md \in Mode \cup {"none"},
           Send(s, m, md), fresh' \in SUBSET Msg
    PROVE  TypeInv'
<1>0. /\ s \in Threads /\ st[s] \in Live /\ s \notin Receivers
      /\ Senders \subseteq Threads
      /\ TypeOK /\ HandleCount
  BY ThreadsAssumption DEF Live, TypeInv, Threads
<1>1. TryPush(queue, m, expired).store \in Stores
  BY <1>0, StorageContract DEF TypeOK
<1>2. UNCHANGED <<senders, receivers, expired, got>>
  BY DEF Send
<1> DEFINE Common ==
        /\ queue' \in Stores
        /\ sent' \in Seq(Msg)
        /\ mode' \in [Threads -> {"none", "block", "timed"}]
        /\ ret' \in [Threads -> SendResult \cup RecvResult \cup {"none"}]
        /\ st' \in [Threads -> ThreadState]
        /\ \A u \in Threads : st'[u] \in Live <=> st[u] \in Live
        /\ \A u \in Senders \ {s} : st'[u] = st[u]
        /\ \/ st'[s] = "idle" /\ arg' = [arg EXCEPT ![s] = NoMsg]
           \/ st'[s] = "waiting" /\ arg' = [arg EXCEPT ![s] = m]
<1>3. Common
  <2>1. CASE SendClosed(s, m, md)
    <3>1. Return(s, "ChannelClosed", {})
      BY <2>1 DEF SendClosed
    <3> QED BY <1>0, <2>1, <3>1, ReturnAlone DEF SendClosed, TypeOK, SendResult
  <2>2. CASE SendPushed(s, m, md)
    <3>1. PICK W \in NotifyOne(Receivers) : Return(s, "Ok", W)
      BY <2>2 DEF SendPushed
    <3>2. \A u \in W : u \in Receivers /\ st[u] = "waiting"
      BY NotifyOneWakesWaiters DEF Waiting
    <3>3. "Ok" \in SendResult \cup RecvResult
      BY DEF SendResult
    <3>4. /\ mode' \in [Threads -> {"none", "block", "timed"}]
          /\ ret' \in [Threads -> SendResult \cup RecvResult \cup {"none"}]
          /\ st' \in [Threads -> ThreadState]
          /\ st'[s] = "idle"
          /\ \A u \in Threads \ {s} : st'[u] = IF u \in W THEN "woken" ELSE st[u]
          /\ \A u \in Threads : st'[u] \in Live <=> st[u] \in Live
      BY <1>0, <3>1, <3>2, <3>3, ReturnStep
    <3>5. \A u \in Senders \ {s} : st'[u] = st[u]
      BY <1>0, <3>2, <3>4, ThreadsAssumption
    <3>6. queue' \in Stores /\ sent' \in Seq(Msg) /\ arg' = [arg EXCEPT ![s] = NoMsg]
      BY <1>0, <1>1, <2>2 DEF SendPushed, TypeOK
    <3> QED BY <3>4, <3>5, <3>6
  <2>3. CASE SendSkipped(s, m, md)
    <3>1. Return(s, "ChannelSkipped", {})
      BY <2>3 DEF SendSkipped
    <3> QED BY <1>0, <1>1, <2>3, <3>1, ReturnAlone
            DEF SendSkipped, TypeOK, SendResult
  <2>4. CASE SendFull(s, m, md)
    <3>1. queue' \in Stores /\ sent' \in Seq(Msg)
      BY <1>0, <1>1, <2>4 DEF SendFull, TypeOK
    <3>2. CASE Return(s, "ChannelFull", {}) /\ arg' = [arg EXCEPT ![s] = NoMsg]
      BY <1>0, <3>1, <3>2, ReturnAlone DEF SendResult
    <3>3. CASE Wait(s, md) /\ arg' = [arg EXCEPT ![s] = m]
      BY <1>0, <3>1, <3>3, WaitStep
    <3> QED BY <2>4, <3>2, <3>3 DEF SendFull
  <2> QED
    BY <2>1, <2>2, <2>3, <2>4 DEF Send
<1>4. /\ arg' \in [Senders -> Msg \cup {NoMsg}]
      /\ \A u \in Senders : st'[u] \in {"waiting", "woken"} => arg'[u] \in Msg
  BY <1>0, <1>3 DEF TypeOK
<1>5. HandleCount'
  BY <1>0, <1>2, <1>3, SameCount
<1> QED
  BY <1>0, <1>2, <1>3, <1>4, <1>5 DEF TypeOK, TypeInv

\* One pass of recv, recv_timeout or try_recv keeps TypeInv.
LEMMA RecvTypeInv ==
    ASSUME TypeInv, NEW r \in Receivers, st[r] \in {"idle", "woken"},
           NEW md \in Mode \cup {"none"}, Recv(r, md)
    PROVE  TypeInv'
<1>0. /\ r \in Threads /\ st[r] \in Live /\ r \notin Senders
      /\ Senders \subseteq Threads
      /\ TypeOK /\ HandleCount
  BY ThreadsAssumption DEF Live, TypeInv, Threads
<1>1. /\ Get(queue, expired).store \in Stores
      /\ Get(queue, expired).val \in Msg \cup {NoMsg}
  BY <1>0, StorageContract DEF TypeOK
<1>2. /\ UNCHANGED <<senders, receivers, arg, fresh, expired, sent>>
      /\ queue' \in Stores
  BY <1>1 DEF Recv
<1> DEFINE Common ==
        /\ got' \in Seq(Msg)
        /\ mode' \in [Threads -> {"none", "block", "timed"}]
        /\ ret' \in [Threads -> SendResult \cup RecvResult \cup {"none"}]
        /\ st' \in [Threads -> ThreadState]
        /\ \A u \in Threads : st'[u] \in Live <=> st[u] \in Live
        /\ \A u \in Senders :
              st'[u] = st[u] \/ (st[u] = "waiting" /\ st'[u] = "woken")
<1>3. Common
  <2>1. CASE RecvOk(r, md)
    <3>1. PICK W \in NotifyOne(Senders) : Return(r, "Ok", W)
      BY <2>1 DEF RecvOk
    <3>2. \A u \in W : u \in Senders /\ st[u] = "waiting"
      BY NotifyOneWakesWaiters DEF Waiting
    <3>3. "Ok" \in SendResult \cup RecvResult
      BY DEF SendResult
    <3>4. /\ mode' \in [Threads -> {"none", "block", "timed"}]
          /\ ret' \in [Threads -> SendResult \cup RecvResult \cup {"none"}]
          /\ st' \in [Threads -> ThreadState]
          /\ \A u \in Threads \ {r} : st'[u] = IF u \in W THEN "woken" ELSE st[u]
          /\ \A u \in Threads : st'[u] \in Live <=> st[u] \in Live
      BY <1>0, <3>1, <3>2, <3>3, ReturnStep
    <3>5. \A u \in Senders :
            st'[u] = st[u] \/ (st[u] = "waiting" /\ st'[u] = "woken")
      BY <1>0, <3>2, <3>4
    <3>6. got' \in Seq(Msg)
      BY <1>0, <1>1, <2>1 DEF RecvOk, TypeOK
    <3> QED BY <3>4, <3>5, <3>6
  <2>2. CASE RecvClosed(r, md)
    <3>1. Return(r, "ChannelClosed", {})
      BY <2>2 DEF RecvClosed
    <3> QED BY <1>0, <2>2, <3>1, ReturnAlone DEF RecvClosed, TypeOK, RecvResult
  <2>3. CASE RecvEmpty(r, md)
    <3>1. got' \in Seq(Msg)
      BY <1>0, <2>3 DEF RecvEmpty, TypeOK
    <3>2. CASE Return(r, "ChannelEmpty", {})
      BY <1>0, <3>1, <3>2, ReturnAlone DEF RecvResult
    <3>3. CASE Wait(r, md)
      BY <1>0, <3>1, <3>3, WaitStep
    <3> QED BY <2>3, <3>2, <3>3 DEF RecvEmpty
  <2> QED
    BY <2>1, <2>2, <2>3 DEF Recv
<1>4. \A u \in Senders : st'[u] \in {"waiting", "woken"} => arg'[u] \in Msg
  BY <1>0, <1>2, <1>3 DEF TypeOK
<1>5. HandleCount'
  BY <1>0, <1>2, <1>3, SameCount
<1> QED
  BY <1>0, <1>2, <1>3, <1>4, <1>5 DEF TypeOK, TypeInv

\* A clone adds one live thread to its group, a drop removes one.
LEMMA CountMove ==
    ASSUME NEW G, IsFiniteSet(G), NEW A \in SUBSET G, NEW t \in G
    PROVE  /\ t \notin A => Cardinality(A \cup {t}) = Cardinality(A) + 1
           /\ t \in A => /\ Cardinality(A \ {t}) = Cardinality(A) - 1
                         /\ Cardinality(A) > 0
<1>1. IsFiniteSet(A) /\ Cardinality(A) \in Nat /\ (Cardinality(A) = 0 <=> A = {})
  BY SubsetCount
<1>2. Cardinality(A \cup {t}) = IF t \in A THEN Cardinality(A) ELSE Cardinality(A) + 1
  BY <1>1, FS_AddElement
<1>3. Cardinality(A \ {t}) = IF t \in A THEN Cardinality(A) - 1 ELSE Cardinality(A)
  BY <1>1, FS_RemoveElement
<1>4. t \in A => Cardinality(A) > 0
  BY <1>1
<1> QED
  BY <1>2, <1>3, <1>4

\* Cloning a handle keeps TypeInv.
LEMMA CloneTypeInv ==
    ASSUME TypeInv, NEW t \in Threads, NEW n \in Threads,
           \/ t \in Senders /\ n \in Senders /\ CloneSender(t, n)
           \/ t \in Receivers /\ n \in Receivers /\ CloneReceiver(t, n)
    PROVE  TypeInv'
<1>0. TypeOK /\ HandleCount
  BY DEF TypeInv
<1> DEFINE LS == {s \in Senders : st[s] \in Live}
           LR == {r \in Receivers : st[r] \in Live}
<1>1. /\ st[n] = "new"
      /\ st' = Moved({}, n, "idle")
      /\ UNCHANGED <<queue, mode, arg, ret, fresh, expired, sent, got>>
  BY DEF CloneSender, CloneReceiver
<1>2. /\ st' \in [Threads -> ThreadState]
      /\ st'[n] = "idle"
      /\ \A u \in Threads \ {n} : st'[u] = st[u]
  BY <1>0, <1>1, MovedType DEF Moved, TypeOK, ThreadState
<1>3. /\ LS \in SUBSET Senders /\ LR \in SUBSET Receivers
      /\ Cardinality(LS) = senders /\ Cardinality(LR) = receivers
      /\ n \notin LS /\ n \notin LR
  BY <1>0, <1>1 DEF HandleCount, Live
<1>4. HandleCount'
  <2>1. CASE n \in Senders /\ CloneSender(t, n)
    <3>1. n \notin Receivers /\ senders' = senders + 1 /\ receivers' = receivers
      BY <2>1, ThreadsAssumption DEF CloneSender
    <3>2. LS' = LS \cup {n} /\ LR' = LR
      BY <1>2, <2>1, <3>1 DEF Threads, Live
    <3>3. Cardinality(LS') = Cardinality(LS) + 1
      BY <1>3, <2>1, <3>2, CountMove, ThreadsAssumption
    <3> QED BY <1>3, <3>1, <3>2, <3>3 DEF HandleCount
  <2>2. CASE n \in Receivers /\ CloneReceiver(t, n)
    <3>1. n \notin Senders /\ receivers' = receivers + 1 /\ senders' = senders
      BY <2>2, ThreadsAssumption DEF CloneReceiver
    <3>2. LR' = LR \cup {n} /\ LS' = LS
      BY <1>2, <2>2, <3>1 DEF Threads, Live
    <3>3. Cardinality(LR') = Cardinality(LR) + 1
      BY <1>3, <2>2, <3>2, CountMove, ThreadsAssumption
    <3> QED BY <1>3, <3>1, <3>2, <3>3 DEF HandleCount
  <2> QED
    BY <2>1, <2>2, ThreadsAssumption
<1>5. \A u \in Senders : st'[u] \in {"waiting", "woken"} => arg'[u] \in Msg
  BY <1>0, <1>1, <1>2 DEF TypeOK, Threads
<1>6. senders' \in 0..Cardinality(Senders) /\ receivers' \in 0..Cardinality(Receivers)
  BY <1>4, CountsInRange DEF HandleCount
<1> QED
  BY <1>0, <1>1, <1>2, <1>4, <1>5, <1>6 DEF TypeOK, TypeInv

\* Dropping a handle keeps TypeInv.
LEMMA DropTypeInv ==
    ASSUME TypeInv, NEW t \in Threads,
           \/ t \in Senders /\ DropSender(t)
           \/ t \in Receivers /\ DropReceiver(t)
    PROVE  TypeInv'
<1>0. TypeOK /\ HandleCount
  BY DEF TypeInv
<1> DEFINE LS == {s \in Senders : st[s] \in Live}
           LR == {r \in Receivers : st[r] \in Live}
<1>1. /\ st[t] = "idle"
      /\ UNCHANGED <<queue, mode, arg, ret, fresh, expired, sent, got>>
      /\ \E W \in SUBSET Waiting(Receivers) : st' = Moved(W, t, "gone")
  <2>1. {} \in SUBSET Waiting(Receivers) /\ Waiting(Receivers) \in SUBSET Waiting(Receivers)
    OBVIOUS
  <2> QED BY <2>1 DEF DropSender, DropReceiver
<1>2. /\ st' \in [Threads -> ThreadState]
      /\ st'[t] = "gone"
      /\ \A u \in Threads \ {t} :
            \/ st'[u] = st[u]
            \/ u \in Receivers /\ st[u] = "waiting" /\ st'[u] = "woken"
  <2>1. PICK W \in SUBSET Waiting(Receivers) : st' = Moved(W, t, "gone")
    BY <1>1
  <2>2. st' \in [Threads -> ThreadState]
    BY <1>0, <2>1, MovedType DEF TypeOK, ThreadState
  <2> QED BY <2>1, <2>2 DEF Moved, Waiting
<1>3. /\ LS \in SUBSET Senders /\ LR \in SUBSET Receivers
      /\ Cardinality(LS) = senders /\ Cardinality(LR) = receivers
  BY <1>0 DEF HandleCount
<1>4. HandleCount'
  <2>1. CASE t \in Senders /\ DropSender(t)
    <3>1. t \notin Receivers /\ senders' = senders - 1 /\ receivers' = receivers
      BY <2>1, ThreadsAssumption DEF DropSender
    <3>2. LS' = LS \ {t} /\ LR' = LR /\ t \in LS
      BY <1>1, <1>2, <2>1, <3>1 DEF Threads, Live
    <3>3. Cardinality(LS') = Cardinality(LS) - 1
      BY <1>3, <2>1, <3>2, CountMove, ThreadsAssumption
    <3> QED BY <1>3, <3>1, <3>2, <3>3 DEF HandleCount
  <2>2. CASE t \in Receivers /\ DropReceiver(t)
    <3>1. t \notin Senders /\ receivers' = receivers - 1 /\ senders' = senders
      BY <2>2, ThreadsAssumption DEF DropReceiver
    <3>2. LR' = LR \ {t} /\ LS' = LS /\ t \in LR
      BY <1>1, <1>2, <2>2, <3>1 DEF Threads, Live
    <3>3. Cardinality(LR') = Cardinality(LR) - 1
      BY <1>3, <2>2, <3>2, CountMove, ThreadsAssumption
    <3> QED BY <1>3, <3>1, <3>2, <3>3 DEF HandleCount
  <2> QED
    BY <2>1, <2>2
<1>5. \A u \in Senders : st'[u] \in {"waiting", "woken"} => arg'[u] \in Msg
  BY <1>0, <1>1, <1>2, ThreadsAssumption DEF TypeOK, Threads
<1>6. senders' \in 0..Cardinality(Senders) /\ receivers' \in 0..Cardinality(Receivers)
  BY <1>4, CountsInRange DEF HandleCount
<1> QED
  BY <1>0, <1>1, <1>2, <1>4, <1>5, <1>6 DEF TypeOK, TypeInv

\* Running out of time and returning Timeout keep TypeInv.
LEMMA TimeoutTypeInv ==
    ASSUME TypeInv, NEW t \in Threads, TimeOut(t) \/ ReturnTimeout(t)
    PROVE  TypeInv'
<1>0. TypeOK /\ HandleCount
  BY DEF TypeInv
<1>1. CASE TimeOut(t)
  <2>1. /\ UNCHANGED <<queue, senders, receivers, mode, arg, ret, fresh, expired,
                       sent, got>>
        /\ st' \in [Threads -> ThreadState]
    BY <1>0, <1>1, MovedType DEF TimeOut, TypeOK, ThreadState, inner
  <2>2. /\ st[t] = "waiting" /\ st'[t] = "timedout"
        /\ \A u \in Threads \ {t} : st'[u] = st[u]
    BY <1>1 DEF TimeOut, Moved
  <2>3. HandleCount'
    BY <1>0, <2>1, <2>2, SameCount DEF Live
  <2>4. \A u \in Senders : st'[u] \in {"waiting", "woken"} => arg'[u] \in Msg
    BY <1>0, <2>1, <2>2 DEF TypeOK, Threads
  <2> QED BY <1>0, <2>1, <2>3, <2>4 DEF TypeOK, TypeInv
<1>2. CASE ReturnTimeout(t)
  <2>1. /\ UNCHANGED <<queue, senders, receivers, fresh, expired, sent, got>>
        /\ arg' \in [Senders -> Msg \cup {NoMsg}]
        /\ \A u \in Senders : u # t => arg'[u] = arg[u]
    BY <1>0, <1>2 DEF ReturnTimeout, TypeOK, inner
  <2>2. /\ Return(t, "Timeout", {}) /\ st[t] \in Live
        /\ "Timeout" \in SendResult \cup RecvResult
    BY <1>2 DEF ReturnTimeout, Live, SendResult
  <2>3. /\ mode' \in [Threads -> {"none", "block", "timed"}]
        /\ ret' \in [Threads -> SendResult \cup RecvResult \cup {"none"}]
        /\ st' \in [Threads -> ThreadState]
        /\ st'[t] = "idle"
        /\ \A u \in Threads \ {t} : st'[u] = st[u]
        /\ \A u \in Threads : st'[u] \in Live <=> st[u] \in Live
    BY <1>0, <2>2, ReturnAlone
  <2>4. HandleCount'
    BY <1>0, <2>1, <2>3, SameCount
  <2>5. \A u \in Senders : st'[u] \in {"waiting", "woken"} => arg'[u] \in Msg
    BY <1>0, <2>1, <2>3 DEF TypeOK, Threads
  <2> QED BY <1>0, <2>1, <2>3, <2>4, <2>5 DEF TypeOK, TypeInv
<1> QED
  BY <1>1, <1>2

\* make_channel sets up one live handle of each kind.
LEMMA InitTypeInv == Init => TypeInv
<1> SUFFICES ASSUME Init PROVE TypeInv
  OBVIOUS
<1>1. PICK s \in Senders, r \in Receivers :
        st = [t \in Threads |-> IF t \in {s, r} THEN "idle" ELSE "new"]
  BY DEF Init
<1>2. /\ {u \in Senders : st[u] \in Live} = {s}
      /\ {u \in Receivers : st[u] \in Live} = {r}
  BY <1>1, ThreadsAssumption DEF Live, Threads
<1>3. HandleCount
  BY <1>2, FS_Singleton DEF HandleCount, Init
<1>4. senders \in 0..Cardinality(Senders) /\ receivers \in 0..Cardinality(Receivers)
  BY <1>3, CountsInRange DEF HandleCount
<1>5. /\ st \in [Threads -> ThreadState]
      /\ \A u \in Senders : st[u] \notin {"waiting", "woken"}
  BY <1>1 DEF ThreadState, Threads
<1>6. queue \in Stores /\ expired \in SUBSET Expirable /\ fresh \in SUBSET Msg
  BY StorageContract DEF Init
<1> QED
  BY <1>3, <1>4, <1>5, <1>6 DEF Init, TypeOK, TypeInv

\* Every step keeps TypeInv.
LEMMA NextTypeInv == TypeInv /\ [Next]_vars => TypeInv'
<1> SUFFICES ASSUME TypeInv, [Next]_vars PROVE TypeInv'
  OBVIOUS
<1>1. CASE UNCHANGED vars
  BY <1>1 DEF vars, inner, TypeInv, TypeOK, HandleCount
<1>2. ASSUME NEW s \in Senders, NEW m \in Msg, NEW md \in Mode, SendCall(s, m, md)
      PROVE  TypeInv'
  BY <1>2, SendTypeInv DEF SendCall, TypeInv, TypeOK
<1>3. ASSUME NEW s \in Senders, SendResume(s)
      PROVE  TypeInv'
  <2>1. /\ arg[s] \in Msg /\ mode[s] \in Mode \cup {"none"}
        /\ st[s] \in {"idle", "woken"} /\ fresh' \in SUBSET Msg
        /\ Send(s, arg[s], mode[s])
    BY <1>3 DEF SendResume, TypeInv, TypeOK, Mode, Threads
  <2> QED BY <2>1, SendTypeInv
<1>4. ASSUME NEW r \in Receivers, NEW md \in Mode, RecvCall(r, md)
      PROVE  TypeInv'
  BY <1>4, RecvTypeInv DEF RecvCall
<1>5. ASSUME NEW r \in Receivers, RecvResume(r)
      PROVE  TypeInv'
  <2>1. mode[r] \in Mode \cup {"none"} /\ st[r] \in {"idle", "woken"} /\ Recv(r, mode[r])
    BY <1>5 DEF RecvResume, TypeInv, TypeOK, Mode, Threads
  <2> QED BY <2>1, RecvTypeInv
<1>6. ASSUME NEW t \in Threads, TimeOut(t) \/ ReturnTimeout(t)
      PROVE  TypeInv'
  BY <1>6, TimeoutTypeInv
<1>7. ASSUME NEW s \in Senders, NEW n \in Senders, CloneSender(s, n)
      PROVE  TypeInv'
  BY <1>7, CloneTypeInv DEF Threads
<1>8. ASSUME NEW r \in Receivers, NEW n \in Receivers, CloneReceiver(r, n)
      PROVE  TypeInv'
  BY <1>8, CloneTypeInv DEF Threads
<1>9. ASSUME NEW s \in Senders, DropSender(s)
      PROVE  TypeInv'
  BY <1>9, DropTypeInv DEF Threads
<1>10. ASSUME NEW r \in Receivers, DropReceiver(r)
       PROVE  TypeInv'
  BY <1>10, DropTypeInv DEF Threads
<1>11. ASSUME NEW m \in Expirable, Expire(m)
       PROVE  TypeInv'
  BY <1>11 DEF Expire, inner, TypeInv, TypeOK, HandleCount
<1> QED
  BY <1>1, <1>2, <1>3, <1>4, <1>5, <1>6, <1>7, <1>8, <1>9, <1>10, <1>11
  DEF Next, SenderNext, ReceiverNext

\* In every reachable state of the channel the fields of InnerData and the
\* threads have their types.
THEOREM TypeCorrect == Spec => []TypeOK
<1>1. TypeInv => TypeOK
  BY DEF TypeInv
<1> QED
  BY <1>1, InitTypeInv, NextTypeInv, PTL DEF Spec

\* InnerData.senders and InnerData.receivers are the numbers of live handles,
\* whatever clone, drop and blocked calls interleave.
THEOREM HandleCountCorrect == Spec => []HandleCount
<1>1. TypeInv => HandleCount
  BY DEF TypeInv
<1> QED
  BY <1>1, InitTypeInv, NextTypeInv, PTL DEF Spec

-----------------------------------------------------------------------------
\* data_available: no wakeup is lost, and none is owed once nobody can send.

DataInv == NoLostData /\ ClosedWakesReceivers

\* A step that wakes, blocks and resumes no receiver and does not lengthen the
\* queue keeps DataInv.
LEMMA QuietDataInv ==
    ASSUME DataInv, Woken(Receivers)' = Woken(Receivers),
           Waiting(Receivers)' \subseteq Waiting(Receivers),
           queue' = queue \/ (/\ Length(queue) \in Nat /\ Length(queue') \in Nat
                              /\ Length(queue') <= Length(queue)
                              /\ Cardinality(Woken(Receivers)) \in Nat),
           senders' = 0 => senders = 0
    PROVE  DataInv'
BY DEF DataInv, NoLostData, ClosedWakesReceivers

\* The receivers that are woken or waiting, and the length of the queue, can
\* be counted.
LEMMA DataCounts ==
    ASSUME TypeOK
    PROVE  /\ Woken(Receivers) \in SUBSET Receivers
           /\ IsFiniteSet(Woken(Receivers))
           /\ Cardinality(Woken(Receivers)) \in Nat
           /\ Length(queue) \in Nat
<1>1. Woken(Receivers) \in SUBSET Receivers
  BY DEF Woken
<1>2. Length(queue) \in 0..Capacity
  BY StorageContract DEF TypeOK
<1> QED
  BY <1>1, <1>2, SubsetCount, ThreadsAssumption, CapacityAssumption

\* One pass of a send method keeps DataInv: a push wakes a receiver, if any
\* waits, for the element it adds.
LEMMA SendDataInv ==
    ASSUME TypeInv, DataInv, NEW s \in Senders, NEW m \in Msg, NEW md, Send(s, m, md)
    PROVE  DataInv'
<1>0. /\ s \notin Receivers /\ Receivers \subseteq Threads /\ TypeOK
      /\ senders' = senders
  BY ThreadsAssumption DEF TypeInv, Threads, Send
<1>1. CASE \A r \in Receivers : st'[r] = st[r]
  <2>1. CASE queue' = queue
    <3>1. Woken(Receivers)' = Woken(Receivers) /\ Waiting(Receivers)' = Waiting(Receivers)
      BY <1>1 DEF Woken, Waiting
    <3> QED BY <1>0, <2>1, <3>1, QuietDataInv
  <2>2. CASE SendPushed(s, m, md)
    <3>1. PICK W \in NotifyOne(Receivers) : st' = Moved(W, s, "idle")
      BY <2>2 DEF SendPushed, Return
    <3>2. Waiting(Receivers) = {}
      <4>1. SUFFICES ASSUME Waiting(Receivers) # {} PROVE FALSE
        OBVIOUS
      <4>2. PICK w \in Waiting(Receivers) : W = {w}
        BY <3>1, <4>1 DEF NotifyOne
      <4>3. st'[w] = "woken" /\ st[w] = "waiting" /\ w \in Receivers
        BY <1>0, <3>1, <4>2 DEF Moved, Waiting
      <4> QED BY <1>1, <4>3
    <3>3. Waiting(Receivers)' = {}
      BY <1>1, <3>2 DEF Waiting
    <3> QED BY <3>3 DEF DataInv, NoLostData, ClosedWakesReceivers
  <2>3. SendPushed(s, m, md) \/ queue' = queue
    BY <1>0, StorageContract
    DEF Send, SendClosed, SendSkipped, SendFull, TypeOK
  <2> QED BY <2>1, <2>2, <2>3
<1>2. CASE ~ \A r \in Receivers : st'[r] = st[r]
  <2>1. SendPushed(s, m, md)
    BY <1>0, <1>2 DEF Send, SendClosed, SendSkipped, SendFull, Return, Wait, Moved
  <2>2. PICK W \in NotifyOne(Receivers) : st' = Moved(W, s, "idle")
    BY <2>1 DEF SendPushed, Return
  <2>3. PICK w \in Waiting(Receivers) : W = {w}
    BY <1>0, <1>2, <2>2 DEF NotifyOne, Moved
  <2>4. /\ w \in Receivers /\ st[w] = "waiting" /\ st'[w] = "woken"
        /\ \A r \in Receivers \ {w} : st'[r] = st[r]
    BY <1>0, <2>2, <2>3 DEF Moved, Waiting
  <2>5. /\ Woken(Receivers)' = Woken(Receivers) \cup {w}
        /\ w \notin Woken(Receivers)
        /\ Waiting(Receivers)' \subseteq Waiting(Receivers)
        /\ Waiting(Receivers) # {}
    BY <2>4 DEF Woken, Waiting
  <2>6. Cardinality(Woken(Receivers)') = Cardinality(Woken(Receivers)) + 1
    BY <1>0, <2>4, <2>5, CountMove, DataCounts, ThreadsAssumption
  <2>7. Length(queue') <= Length(queue) + 1 /\ Length(queue') \in Nat
    <3>1. queue' \in Stores /\ Length(queue') <= Length(queue) + 1
      BY <1>0, <2>1, StorageContract DEF SendPushed, TypeOK
    <3>2. Length(queue') \in 0..Capacity
      BY <3>1, StorageContract
    <3> QED BY <3>1, <3>2, CapacityAssumption
  <2>8. Cardinality(Woken(Receivers)) >= Length(queue)
    BY <2>5 DEF DataInv, NoLostData
  <2>9. NoLostData'
    BY <1>0, <2>6, <2>7, <2>8, DataCounts DEF NoLostData
  <2> QED BY <1>0, <2>5, <2>9 DEF DataInv, ClosedWakesReceivers
<1> QED
  BY <1>1, <1>2

\* One pass of a receive method keeps DataInv: a receiver that leaves takes an
\* element with it, or leaves the queue empty.
LEMMA RecvDataInv ==
    ASSUME TypeInv, TypeInv', DataInv, NEW r \in Receivers,
           st[r] \in {"idle", "woken"}, NEW md, Recv(r, md)
    PROVE  DataInv'
<1>0. /\ r \notin Senders /\ Receivers \subseteq Threads /\ TypeOK
      /\ senders' = senders /\ queue' = Get(queue, expired).store
      /\ r \in Threads
  BY ThreadsAssumption DEF TypeInv, Threads, Recv
<1>1. /\ Get(queue, expired).val = NoMsg => Length(queue') = 0
      /\ Get(queue, expired).val # NoMsg => Length(queue') < Length(queue)
      /\ Length(queue') \in Nat /\ Length(queue) \in Nat
  <2>1. queue' \in Stores /\ queue \in Stores
    BY DEF TypeInv, TypeOK
  <2>2. Length(queue') \in 0..Capacity /\ Length(queue) \in 0..Capacity
    BY <2>1, StorageContract
  <2> QED BY <1>0, <2>2, StorageContract, CapacityAssumption DEF TypeOK
<1>2. Woken(Receivers)' \in SUBSET Receivers /\ Cardinality(Woken(Receivers)') \in Nat
  <2>1. Woken(Receivers)' \in SUBSET Receivers
    BY DEF Woken
  <2> QED BY <2>1, SubsetCount, ThreadsAssumption
<1>3. CASE RecvOk(r, md)
  <2>1. PICK W \in NotifyOne(Senders) : st' = Moved(W, r, "idle")
    BY <1>3 DEF RecvOk, Return
  <2>2. W \subseteq Senders
    BY NotifyOneWakesWaiters DEF Waiting
  <2>3. st'[r] = "idle" /\ \A u \in Receivers \ {r} : st'[u] = st[u]
    BY <1>0, <2>1, <2>2, ThreadsAssumption DEF Moved
  <2>4. /\ Woken(Receivers)' = Woken(Receivers) \ {r}
        /\ Waiting(Receivers)' = Waiting(Receivers)
    BY <2>3 DEF Woken, Waiting
  <2>5. Cardinality(Woken(Receivers)') >= Cardinality(Woken(Receivers)) - 1
    BY <1>0, <2>4, DataCounts, FS_RemoveElement, SMTT(60)
  <2>6. Length(queue') + 1 <= Length(queue)
    BY <1>1, <1>3 DEF RecvOk
  <2>7. NoLostData'
    BY <1>0, <1>1, <1>2, <2>4, <2>5, <2>6, DataCounts DEF DataInv, NoLostData
  <2> QED BY <1>0, <2>4, <2>7 DEF DataInv, ClosedWakesReceivers
<1>4. CASE RecvClosed(r, md)
  <2>1. \A u \in Receivers \ {r} : st'[u] = st[u]
    BY <1>0, <1>4 DEF RecvClosed, Return, Moved
  <2>2. st'[r] = "idle"
    BY <1>0, <1>4 DEF RecvClosed, Return, Moved
  <2>3. Waiting(Receivers)' \subseteq Waiting(Receivers)
    BY <2>1, <2>2 DEF Waiting
  <2>4. Length(queue') = 0
    BY <1>1, <1>4 DEF RecvClosed
  <2> QED BY <1>0, <1>2, <2>3, <2>4 DEF DataInv, NoLostData, ClosedWakesReceivers
<1>5. CASE RecvEmpty(r, md)
  <2>1. Length(queue') = 0 /\ senders' # 0
    BY <1>0, <1>1, <1>5 DEF RecvEmpty, TypeOK
  <2> QED BY <1>2, <2>1 DEF DataInv, NoLostData, ClosedWakesReceivers
<1> QED
  BY <1>3, <1>4, <1>5 DEF Recv

\* A handle that is dropped leaves the wakeups of data_available in order: the
\* last one wakes every receiver.
LEMMA DropDataInv ==
    ASSUME TypeInv, DataInv, NEW t \in Threads,
           \/ t \in Senders /\ DropSender(t)
           \/ t \in Receivers /\ DropReceiver(t)
    PROVE  DataInv'
<1>0. /\ Receivers \subseteq Threads
      /\ st[t] = "idle" /\ queue' = queue
  BY DEF Threads, DropSender, DropReceiver
<1>1. CASE st' = Moved({}, t, "gone") /\ (senders' = 0 => senders = 0)
  <2>1. st'[t] = "gone" /\ \A u \in Threads \ {t} : st'[u] = st[u]
    BY <1>1 DEF Moved
  <2>2. Woken(Receivers)' = Woken(Receivers) /\ Waiting(Receivers)' = Waiting(Receivers)
    BY <1>0, <2>1 DEF Woken, Waiting
  <2> QED BY <1>0, <1>1, <2>2, QuietDataInv
<1>2. CASE st' = Moved(Waiting(Receivers), t, "gone")
  <2>1. \A u \in Receivers : st'[u] # "waiting"
    BY <1>0, <1>2 DEF Moved, Waiting
  <2>2. Waiting(Receivers)' = {}
    BY <2>1 DEF Waiting
  <2> QED BY <2>2 DEF DataInv, NoLostData, ClosedWakesReceivers
<1> QED
  BY <1>1, <1>2 DEF DropSender, DropReceiver

\* Every step keeps DataInv.
LEMMA NextDataInv == TypeInv /\ TypeInv' /\ DataInv /\ [Next]_vars => DataInv'
<1> SUFFICES ASSUME TypeInv, TypeInv', DataInv, [Next]_vars PROVE DataInv'
  OBVIOUS
<1>0. Receivers \subseteq Threads /\ Senders \subseteq Threads /\ TypeOK
  BY DEF Threads, TypeInv
<1>1. CASE UNCHANGED vars
  BY <1>1 DEF vars, inner, DataInv, NoLostData, ClosedWakesReceivers, Woken, Waiting
<1>2. ASSUME NEW s \in Senders, NEW m \in Msg, NEW md \in Mode, SendCall(s, m, md)
      PROVE  DataInv'
  BY <1>2, SendDataInv DEF SendCall
<1>3. ASSUME NEW s \in Senders, SendResume(s)
      PROVE  DataInv'
  BY <1>3, SendDataInv DEF SendResume, TypeInv, TypeOK
<1>4. ASSUME NEW r \in Receivers, NEW md \in Mode, RecvCall(r, md)
      PROVE  DataInv'
  BY <1>4, RecvDataInv DEF RecvCall
<1>5. ASSUME NEW r \in Receivers, RecvResume(r)
      PROVE  DataInv'
  BY <1>5, RecvDataInv DEF RecvResume
<1>6. ASSUME NEW t \in Threads, TimeOut(t) \/ ReturnTimeout(t)
      PROVE  DataInv'
  <2>1. /\ st[t] # "woken" /\ st'[t] \in {"timedout", "idle"}
        /\ \A u \in Threads \ {t} : st'[u] = st[u]
        /\ UNCHANGED <<queue, senders>>
    BY <1>6 DEF TimeOut, ReturnTimeout, Return, Moved, inner
  <2>2. /\ Woken(Receivers)' = Woken(Receivers)
        /\ Waiting(Receivers)' \subseteq Waiting(Receivers)
    BY <1>0, <2>1 DEF Woken, Waiting
  <2> QED BY <2>1, <2>2, QuietDataInv
<1>7. ASSUME NEW t \in Threads, NEW n \in Threads,
             CloneSender(t, n) \/ CloneReceiver(t, n)
      PROVE  DataInv'
  <2>1. /\ st[n] = "new" /\ st'[n] = "idle"
        /\ \A u \in Threads \ {n} : st'[u] = st[u]
        /\ queue' = queue
    BY <1>7 DEF CloneSender, CloneReceiver, Moved
  <2>2. senders' = 0 => senders = 0
    BY <1>0, <1>7 DEF CloneSender, CloneReceiver, TypeOK
  <2>3. /\ Woken(Receivers)' = Woken(Receivers)
        /\ Waiting(Receivers)' = Waiting(Receivers)
    BY <1>0, <2>1 DEF Woken, Waiting
  <2> QED BY <2>1, <2>2, <2>3, QuietDataInv
<1>8. ASSUME NEW s \in Senders, DropSender(s)
      PROVE  DataInv'
  BY <1>0, <1>8, DropDataInv
<1>9. ASSUME NEW r \in Receivers, DropReceiver(r)
      PROVE  DataInv'
  BY <1>0, <1>9, DropDataInv
<1>10. ASSUME NEW m \in Expirable, Expire(m)
       PROVE  DataInv'
  BY <1>10 DEF Expire, inner, DataInv, NoLostData, ClosedWakesReceivers, Woken, Waiting
<1> QED
  BY <1>0, <1>1, <1>2, <1>3, <1>4, <1>5, <1>6, <1>7, <1>8, <1>9, <1>10
  DEF Next, SenderNext, ReceiverNext

\* Nobody waits in a new channel.
LEMMA InitDataInv == Init => DataInv
<1> SUFFICES ASSUME Init PROVE DataInv
  OBVIOUS
<1>1. \A u \in Receivers : st[u] # "waiting"
  BY DEF Init, Threads
<1>2. Waiting(Receivers) = {}
  BY <1>1 DEF Waiting
<1> QED
  BY <1>2 DEF DataInv, NoLostData, ClosedWakesReceivers

\* recv and recv_timeout never miss an element: while a receiver is blocked,
\* every element of the queue has a woken receiver coming for it, with any
\* storage, any interleaving of timeouts, clones and drops, any expiry.
THEOREM NoLostDataCorrect == Spec => []NoLostData
<1>1. TypeInv /\ DataInv => NoLostData
  BY DEF DataInv
<1> QED
  BY <1>1, InitTypeInv, InitDataInv, NextTypeInv, NextDataInv, PTL DEF Spec

\* BaseSender::drop: no receiver stays blocked once the last sender is gone.
THEOREM ClosedWakesReceiversCorrect == Spec => []ClosedWakesReceivers
<1>1. TypeInv /\ DataInv => ClosedWakesReceivers
  BY DEF DataInv
<1> QED
  BY <1>1, InitTypeInv, InitDataInv, NextTypeInv, NextDataInv, PTL DEF Spec

-----------------------------------------------------------------------------
\* End of stream.

\* A counter at zero means that no thread of the group is alive, so nobody is
\* left who could act through a handle or clone one.
LEMMA NoHandleLeft ==
    ASSUME TypeInv
    PROVE  /\ senders = 0 => \A s \in Senders : st[s] \notin Live
           /\ receivers = 0 => \A r \in Receivers : st[r] \notin Live
<1>1. /\ {s \in Senders : st[s] \in Live} \in SUBSET Senders
      /\ {r \in Receivers : st[r] \in Live} \in SUBSET Receivers
  OBVIOUS
<1>2. /\ senders = 0 => {s \in Senders : st[s] \in Live} = {}
      /\ receivers = 0 => {r \in Receivers : st[r] \in Live} = {}
  BY <1>1, SubsetCount, ThreadsAssumption DEF TypeInv, HandleCount
<1> QED
  BY <1>2

\* Once closed, an end of the channel stays closed.
LEMMA ClosedStaysClosed ==
    ASSUME TypeInv, Next
    PROVE  /\ senders = 0 => senders' = 0
           /\ receivers = 0 => receivers' = 0
<1>1. ASSUME senders = 0 PROVE senders' = 0
  <2>1. \A s \in Senders : st[s] \notin {"idle", "woken"}
    BY <1>1, NoHandleLeft DEF Live
  <2> QED
    BY <1>1, <2>1
    DEF Next, SenderNext, ReceiverNext, SendCall, SendResume, CloneSender, DropSender,
        RecvCall, RecvResume, Recv, CloneReceiver, DropReceiver,
        TimeOut, ReturnTimeout, Expire, inner
<1>2. ASSUME receivers = 0 PROVE receivers' = 0
  <2>1. \A r \in Receivers : st[r] \notin {"idle", "woken"}
    BY <1>2, NoHandleLeft DEF Live
  <2> QED
    BY <1>2, <2>1
    DEF Next, SenderNext, ReceiverNext, SendCall, SendResume, Send, CloneSender,
        DropSender, RecvCall, RecvResume, CloneReceiver, DropReceiver,
        TimeOut, ReturnTimeout, Expire, inner
<1> QED
  BY <1>1, <1>2

\* With no sender left an empty queue stays empty: nobody can push, and get on
\* an empty storage finds nothing.
LEMMA EmptyStaysEmpty ==
    ASSUME TypeInv, Next, senders = 0, Length(queue) = 0
    PROVE  Length(queue') = 0
<1>1. \A s \in Senders : st[s] \notin {"idle", "woken"}
  BY NoHandleLeft DEF Live
<1>2. ASSUME NEW r \in Receivers, NEW md, Recv(r, md) PROVE Length(queue') = 0
  <2>1. queue' = Get(queue, expired).store /\ queue \in Stores /\ expired \in SUBSET Expirable
    BY <1>2 DEF Recv, TypeInv, TypeOK
  <2>2. Length(queue') \in 0..Capacity
    BY <2>1, StorageContract
  <2>3. ~(Length(queue') < 0)
    BY <2>2, CapacityAssumption
  <2> QED BY <2>1, <2>3, StorageContract
<1>3. queue' = queue \/ \E r \in Receivers, md \in Mode \cup {"none"} : Recv(r, md)
  BY <1>1 DEF Next, SenderNext, ReceiverNext, SendCall, SendResume, CloneSender,
              DropSender, RecvCall, RecvResume, CloneReceiver, DropReceiver,
              TimeOut, ReturnTimeout, Expire, inner, TypeInv, TypeOK, Threads, Mode
<1> QED
  BY <1>2, <1>3

\* Who is told ChannelClosed in this step, and when.
LEMMA ToldClosed ==
    ASSUME TypeInv, Next
    PROVE  /\ \A r \in Receivers : ret'[r] = "ChannelClosed" =>
                 ret[r] = "ChannelClosed" \/ (senders = 0 /\ Length(queue') = 0)
           /\ \A s \in Senders : ret'[s] = "ChannelClosed" =>
                 ret[s] = "ChannelClosed" \/ receivers = 0
<1>0. /\ ret \in [Threads -> SendResult \cup RecvResult \cup {"none"}]
      /\ Senders \subseteq Threads /\ Receivers \subseteq Threads
      /\ queue \in Stores /\ expired \in SUBSET Expirable
  BY DEF TypeInv, TypeOK, Threads
<1>1. CASE ret' = ret
  BY <1>1
<1>2. ASSUME NEW s \in Senders, NEW m, NEW md, Send(s, m, md),
             ret' # ret
      PROVE  /\ \A t \in Threads \ {s} : ret'[t] = ret[t]
             /\ ret'[s] = "ChannelClosed" => receivers = 0
  BY <1>0, <1>2 DEF Send, SendClosed, SendPushed, SendSkipped, SendFull, Return, Wait
<1>3. ASSUME NEW r \in Receivers, NEW md, Recv(r, md), ret' # ret
      PROVE  /\ \A t \in Threads \ {r} : ret'[t] = ret[t]
             /\ ret'[r] = "ChannelClosed" => senders = 0 /\ Length(queue') = 0
  <2>1. /\ \A t \in Threads \ {r} : ret'[t] = ret[t]
        /\ ret'[r] = "ChannelClosed" => senders = 0 /\ Get(queue, expired).val = NoMsg
    BY <1>0, <1>3 DEF Recv, RecvOk, RecvClosed, RecvEmpty, Return, Wait
  <2>2. queue' = Get(queue, expired).store
    BY <1>3 DEF Recv
  <2>3. Get(queue, expired).val = NoMsg => Length(queue') = 0
    BY <1>0, <2>2, StorageContract
  <2> QED BY <2>1, <2>3
<1>4. ASSUME NEW t \in Threads, ReturnTimeout(t)
      PROVE  \A u \in Threads : ret'[u] = "ChannelClosed" => ret[u] = "ChannelClosed"
  BY <1>0, <1>4 DEF ReturnTimeout, Return
<1>5. \/ ret' = ret
      \/ \E s \in Senders : \E m, md : Send(s, m, md)
      \/ \E r \in Receivers : \E md : Recv(r, md)
      \/ \E t \in Threads : ReturnTimeout(t)
  BY DEF Next, SenderNext, ReceiverNext, SendCall, SendResume, CloneSender, DropSender,
         RecvCall, RecvResume, CloneReceiver, DropReceiver, TimeOut, Expire
<1> QED
  BY <1>0, <1>1, <1>2, <1>3, <1>4, <1>5, ThreadsAssumption

\* Every step keeps ClosedIsFinal.
LEMMA NextClosedIsFinal == TypeInv /\ ClosedIsFinal /\ [Next]_vars => ClosedIsFinal'
<1> SUFFICES ASSUME TypeInv, ClosedIsFinal, [Next]_vars PROVE ClosedIsFinal'
  OBVIOUS
<1>1. CASE UNCHANGED vars
  BY <1>1 DEF vars, inner, ClosedIsFinal
<1>2. CASE Next
  <2>1. ASSUME NEW r \in Receivers, ret'[r] = "ChannelClosed"
        PROVE  senders' = 0 /\ Length(queue') = 0
    BY <1>2, <2>1, ToldClosed, ClosedStaysClosed, EmptyStaysEmpty DEF ClosedIsFinal
  <2>2. ASSUME NEW s \in Senders, ret'[s] = "ChannelClosed"
        PROVE  receivers' = 0
    BY <1>2, <2>2, ToldClosed, ClosedStaysClosed DEF ClosedIsFinal
  <2> QED BY <2>1, <2>2 DEF ClosedIsFinal
<1> QED
  BY <1>1, <1>2

\* ChannelClosed is final for whoever is told: a receiver has left nothing in
\* the queue and nothing will come, a sender will never be read, with any
\* storage and however clones, drops and calls interleave.
THEOREM ClosedIsFinalCorrect == Spec => []ClosedIsFinal
<1>1. Init => ClosedIsFinal
  BY DEF Init, ClosedIsFinal, Threads
<1> QED
  BY <1>1, InitTypeInv, NextTypeInv, NextClosedIsFinal, PTL DEF Spec

-----------------------------------------------------------------------------
\* The VecDeque as a storage.

\* Its values are sequences of at most Capacity messages.
LEMMA StoreIsSequence ==
    ASSUME StorageIsVecDeque, NEW q \in Stores
    PROVE  /\ q \in Seq(Msg) /\ Len(q) \in Nat /\ Len(q) <= Capacity
           /\ Length(q) = Len(q)
<1>1. PICK n \in 0..Capacity : q \in [1..n -> Msg]
  BY DEF StorageIsVecDeque, VecStores
<1>2. n \in Nat /\ n <= Capacity
  BY CapacityAssumption
<1>3. q \in Seq(Msg) /\ Len(q) = n
  BY <1>1, <1>2
<1>4. Length(q) = Len(q)
  BY DEF StorageIsVecDeque, VecLength
<1> QED BY <1>2, <1>3, <1>4

\* try_push appends, or refuses when the deque is full.
LEMMA VecPushFacts ==
    ASSUME StorageIsVecDeque, NEW q \in Stores, NEW m \in Msg, NEW e \in SUBSET Expirable
    PROVE  /\ TryPush(q, m, e).out = "Pushed" =>
                 Len(q) # Capacity /\ TryPush(q, m, e).store = Append(q, m)
           /\ TryPush(q, m, e).out # "Pushed" =>
                 /\ Len(q) = Capacity /\ TryPush(q, m, e).store = q
                 /\ TryPush(q, m, e).out = "Full"
BY DEF StorageIsVecDeque, VecTryPush

\* get takes the head, or finds nothing when the deque is empty.
LEMMA VecGetFacts ==
    ASSUME StorageIsVecDeque, NEW q \in Stores, NEW e \in SUBSET Expirable
    PROVE  /\ Get(q, e).val = NoMsg => q = <<>> /\ Get(q, e).store = q
           /\ Get(q, e).val # NoMsg =>
                 /\ q # <<>> /\ Head(q) \in Msg
                 /\ Get(q, e).val = Head(q) /\ Get(q, e).store = Tail(q)
<1>1. Get(q, e) = VecGet(q, e)
  BY DEF StorageIsVecDeque
<1>2. q # <<>> => Head(q) \in Msg
  BY StoreIsSequence, HeadTailProperties
<1> QED BY <1>1, <1>2, MsgAssumption DEF VecGet

-----------------------------------------------------------------------------
\* space_available: no wakeup is lost as long as somebody can receive.  Unlike
\* NoLostData this needs the storage to give back one slot per receive, which
\* is what a VecDeque does and a deque with expiry does not.

\* The senders that are woken can be counted, and so can the free slots.
LEMMA SpaceCounts ==
    ASSUME StorageIsVecDeque, TypeOK
    PROVE  /\ Woken(Senders) \in SUBSET Senders /\ IsFiniteSet(Woken(Senders))
           /\ Cardinality(Woken(Senders)) \in Nat
           /\ queue \in Seq(Msg) /\ Len(queue) \in Nat /\ Len(queue) <= Capacity
           /\ Length(queue) = Len(queue) /\ Capacity \in Nat
<1>1. Woken(Senders) \in SUBSET Senders
  BY DEF Woken
<1> QED
  BY <1>1, SubsetCount, StoreIsSequence, ThreadsAssumption, CapacityAssumption DEF TypeOK

\* A step that resumes no sender and takes nothing from the queue keeps it.
LEMMA QuietSpace ==
    ASSUME NoLostSpace, Woken(Senders)' = Woken(Senders),
           Waiting(Senders)' \subseteq Waiting(Senders),
           queue' = queue, receivers' > 0 => receivers > 0
    PROVE  NoLostSpace'
BY DEF NoLostSpace

\* One pass of a send method: a sender that goes leaves an element in the slot
\* it was woken for, and one that blocks has found no free slot.
LEMMA SendSpace ==
    ASSUME StorageIsVecDeque, TypeInv, TypeInv', NoLostSpace, NEW s \in Senders, NEW m \in Msg, NEW md,
           st[s] \in {"idle", "woken"}, Send(s, m, md)
    PROVE  NoLostSpace'
<1>0. /\ s \notin Receivers /\ s \in Threads /\ Senders \subseteq Threads
      /\ TypeOK /\ TypeOK' /\ receivers' = receivers
      /\ queue \in Stores /\ expired \in SUBSET Expirable
  BY ThreadsAssumption DEF TypeInv, TypeOK, Threads, Send
<1>1. /\ Cardinality(Woken(Senders)) \in Nat /\ Cardinality(Woken(Senders)') \in Nat
      /\ queue \in Seq(Msg)
      /\ Len(queue) \in Nat /\ Len(queue') \in Nat /\ Capacity \in Nat
      /\ Length(queue) = Len(queue) /\ Length(queue') = Len(queue')
  <2>1. Woken(Senders)' \in SUBSET Senders
    BY DEF Woken
  <2>2. queue' \in Stores
    BY <1>0 DEF TypeOK
  <2> QED BY <1>0, <2>1, <2>2, SpaceCounts, SubsetCount, StoreIsSequence, ThreadsAssumption
<1>2. CASE SendClosed(s, m, md)
  BY <1>0, <1>2 DEF SendClosed, NoLostSpace
<1>3. CASE SendPushed(s, m, md)
  <2>1. PICK W \in NotifyOne(Receivers) : st' = Moved(W, s, "idle")
    BY <1>3 DEF SendPushed, Return
  <2>2. W \cap Senders = {}
    BY NotifyOneWakesWaiters, ThreadsAssumption DEF Waiting
  <2>3. st'[s] = "idle" /\ \A u \in Senders \ {s} : st'[u] = st[u]
    BY <1>0, <2>1, <2>2 DEF Moved
  <2>4. /\ Woken(Senders)' = Woken(Senders) \ {s}
        /\ Waiting(Senders)' = Waiting(Senders)
    BY <2>3 DEF Woken, Waiting
  <2>5. Cardinality(Woken(Senders)') >= Cardinality(Woken(Senders)) - 1
    <3>1. IsFiniteSet(Woken(Senders))
      BY <1>0, SpaceCounts
    <3>2. Cardinality(Woken(Senders) \ {s}) =
            IF s \in Woken(Senders) THEN Cardinality(Woken(Senders)) - 1
                                    ELSE Cardinality(Woken(Senders))
      BY <3>1, FS_RemoveElement
    <3> QED BY <1>1, <2>4, <3>2
  <2>6. Len(queue') = Len(queue) + 1
    BY <1>0, <1>1, <1>3, VecPushFacts, AppendProperties DEF SendPushed
  <2> QED BY <1>0, <1>1, <2>4, <2>5, <2>6 DEF NoLostSpace
<1>4. CASE SendSkipped(s, m, md) \/ SendFull(s, m, md)
  <2>1. Len(queue') = Capacity
    BY <1>0, <1>4, VecPushFacts DEF SendSkipped, SendFull
  <2> QED BY <1>1, <2>1 DEF NoLostSpace
<1> QED BY <1>2, <1>3, <1>4 DEF Send

\* One pass of a receive method: the slot it frees is announced to a sender.
LEMMA RecvSpace ==
    ASSUME StorageIsVecDeque, TypeInv, TypeInv', NoLostSpace, NEW r \in Receivers, NEW md, Recv(r, md)
    PROVE  NoLostSpace'
<1>0. /\ r \notin Senders /\ Senders \subseteq Threads
      /\ TypeOK /\ TypeOK' /\ receivers' = receivers
      /\ queue \in Stores /\ expired \in SUBSET Expirable
      /\ queue' = Get(queue, expired).store
  BY ThreadsAssumption DEF TypeInv, TypeOK, Threads, Recv
<1>1. /\ Cardinality(Woken(Senders)) \in Nat /\ Cardinality(Woken(Senders)') \in Nat
      /\ queue \in Seq(Msg)
      /\ Len(queue) \in Nat /\ Len(queue') \in Nat /\ Capacity \in Nat
      /\ Length(queue) = Len(queue) /\ Length(queue') = Len(queue')
  <2>1. Woken(Senders)' \in SUBSET Senders
    BY DEF Woken
  <2>2. queue' \in Stores
    BY <1>0 DEF TypeOK
  <2> QED BY <1>0, <2>1, <2>2, SpaceCounts, SubsetCount, StoreIsSequence, ThreadsAssumption
<1>2. CASE RecvOk(r, md)
  <2>1. PICK W \in NotifyOne(Senders) : st' = Moved(W, r, "idle")
    BY <1>2 DEF RecvOk, Return
  <2>2. Len(queue') = Len(queue) - 1
    BY <1>0, <1>1, <1>2, VecGetFacts, HeadTailProperties DEF RecvOk
  <2>3. CASE Waiting(Senders) = {}
    <3>1. W = {}
      BY <2>1, <2>3 DEF NotifyOne
    <3>2. \A u \in Senders : st'[u] = st[u]
      BY <1>0, <2>1, <3>1 DEF Moved
    <3>3. Waiting(Senders)' = {}
      BY <2>3, <3>2 DEF Waiting
    <3> QED BY <3>3 DEF NoLostSpace
  <2>4. CASE Waiting(Senders) # {}
    <3>1. PICK w \in Waiting(Senders) : W = {w}
      BY <2>1, <2>4 DEF NotifyOne
    <3>2. /\ w \in Senders /\ st[w] = "waiting" /\ st'[w] = "woken"
          /\ \A u \in Senders \ {w} : st'[u] = st[u]
      BY <1>0, <2>1, <3>1 DEF Moved, Waiting
    <3>3. Woken(Senders)' = Woken(Senders) \cup {w} /\ w \notin Woken(Senders)
      BY <3>2 DEF Woken
    <3>4. Cardinality(Woken(Senders)') = Cardinality(Woken(Senders)) + 1
      BY <1>0, <3>2, <3>3, CountMove, SpaceCounts, ThreadsAssumption
    <3> QED BY <1>0, <1>1, <2>2, <2>4, <3>4 DEF NoLostSpace
  <2> QED BY <2>3, <2>4
<1>3. CASE RecvClosed(r, md) \/ RecvEmpty(r, md)
  <2>1. queue' = queue
    BY <1>0, <1>3, VecGetFacts DEF RecvClosed, RecvEmpty
  <2>2. \A u \in Senders : st'[u] = st[u]
    BY <1>0, <1>3 DEF RecvClosed, RecvEmpty, Return, Wait, Moved
  <2>3. Woken(Senders)' = Woken(Senders) /\ Waiting(Senders)' = Waiting(Senders)
    BY <2>2 DEF Woken, Waiting
  <2> QED BY <1>0, <2>1, <2>3, QuietSpace
<1> QED BY <1>2, <1>3 DEF Recv

\* Every step keeps NoLostSpace.
LEMMA NextSpace ==
    ASSUME StorageIsVecDeque
    PROVE  TypeInv /\ TypeInv' /\ NoLostSpace /\ [Next]_vars => NoLostSpace'
<1> SUFFICES ASSUME TypeInv, TypeInv', NoLostSpace, [Next]_vars PROVE NoLostSpace'
  OBVIOUS
<1>0. /\ Receivers \subseteq Threads /\ Senders \subseteq Threads
      /\ Senders \cap Receivers = {} /\ TypeOK
  BY ThreadsAssumption DEF Threads, TypeInv
<1>1. CASE UNCHANGED vars
  BY <1>1 DEF vars, inner, NoLostSpace, Woken, Waiting
<1>2. ASSUME NEW s \in Senders, NEW m \in Msg, NEW md \in Mode, SendCall(s, m, md)
      PROVE  NoLostSpace'
  BY <1>2, SendSpace DEF SendCall
<1>3. ASSUME NEW s \in Senders, SendResume(s)
      PROVE  NoLostSpace'
  BY <1>3, SendSpace DEF SendResume, TypeInv, TypeOK
<1>4. ASSUME NEW r \in Receivers, NEW md, Recv(r, md)
      PROVE  NoLostSpace'
  BY <1>4, RecvSpace
<1>5. ASSUME NEW t \in Threads, TimeOut(t) \/ ReturnTimeout(t)
      PROVE  NoLostSpace'
  <2>1. /\ st[t] # "woken" /\ st'[t] \in {"timedout", "idle"}
        /\ \A u \in Threads \ {t} : st'[u] = st[u]
        /\ UNCHANGED <<queue, receivers>>
    BY <1>5 DEF TimeOut, ReturnTimeout, Return, Moved, inner
  <2>2. /\ Woken(Senders)' = Woken(Senders)
        /\ Waiting(Senders)' \subseteq Waiting(Senders)
    BY <1>0, <2>1 DEF Woken, Waiting
  <2> QED BY <2>1, <2>2, QuietSpace
<1>6. ASSUME NEW t \in Threads, NEW n \in Threads,
             \/ CloneSender(t, n)
             \/ t \in Receivers /\ CloneReceiver(t, n)
             \/ n = t /\ (DropSender(t) \/ DropReceiver(t))
      PROVE  NoLostSpace'
  <2>1. /\ st[n] \in {"new", "idle"} /\ st'[n] \in {"idle", "gone"}
        /\ \A u \in Senders \ {n} : st'[u] = st[u]
        /\ queue' = queue
    BY <1>0, <1>6 DEF CloneSender, CloneReceiver, DropSender, DropReceiver, Moved, Waiting
  <2>2. receivers' > 0 => receivers > 0
    BY <1>0, <1>6, NoHandleLeft
    DEF CloneSender, CloneReceiver, DropSender, DropReceiver, TypeOK, Live
  <2>3. Woken(Senders)' = Woken(Senders) /\ Waiting(Senders)' = Waiting(Senders)
    BY <1>0, <2>1 DEF Woken, Waiting
  <2> QED BY <2>1, <2>2, <2>3, QuietSpace
<1>7. ASSUME NEW m \in Expirable, Expire(m)
      PROVE  NoLostSpace'
  BY <1>7 DEF Expire, inner, NoLostSpace, Woken, Waiting
<1> QED
  BY <1>0, <1>1, <1>2, <1>3, <1>4, <1>5, <1>6, <1>7
  DEF Next, SenderNext, ReceiverNext, RecvCall, RecvResume

\* send and send_timeout never miss a free slot: while a sender is blocked and
\* somebody can receive, every free slot of the queue has a woken sender coming
\* for it, whatever timeouts, clones and drops interleave.
THEOREM NoLostSpaceCorrect ==
    ASSUME StorageIsVecDeque
    PROVE  Spec => []NoLostSpace
<1>1. Init => NoLostSpace
  <2>1. ASSUME Init PROVE Waiting(Senders) = {}
    BY <2>1 DEF Init, Threads, Waiting
  <2> QED BY <2>1 DEF NoLostSpace
<1> QED
  BY <1>1, InitTypeInv, NextTypeInv, NextSpace, PTL DEF Spec

-----------------------------------------------------------------------------
\* The refinement of BoundedFifo needs two more facts: what was accepted is
\* what was delivered and what is queued, and a receiver that was told of the
\* end of the stream is in no call that could return something else later.

EndedIsIdle ==
    \A r \in Receivers :
        st[r] \in {"waiting", "woken", "timedout"} => ret[r] # "ChannelClosed"

FifoInv == TypeInv /\ ClosedIsFinal /\ QueueIsBacklog /\ EndedIsIdle

\* Appending to the queue appends to the whole.
LEMMA BacklogPush ==
    ASSUME NEW g \in Seq(Msg), NEW q \in Seq(Msg), NEW m \in Msg
    PROVE  Append(g \o q, m) = g \o Append(q, m)
<1>1. g \o q \in Seq(Msg) /\ <<m>> \in Seq(Msg)
  BY ConcatProperties
<1>2. Append(g \o q, m) = (g \o q) \o <<m>> /\ Append(q, m) = q \o <<m>>
  BY <1>1, AppendIsConcat
<1> QED BY <1>1, <1>2, ConcatAssociative

\* Moving the head over leaves the whole as it is.
LEMMA BacklogPop ==
    ASSUME NEW g \in Seq(Msg), NEW q \in Seq(Msg), q # <<>>
    PROVE  /\ Append(g, Head(q)) \o Tail(q) = g \o q
           /\ Len(g) < Len(g \o q) /\ (g \o q)[Len(g) + 1] = Head(q)
<1>1. /\ Head(q) \in Msg /\ Tail(q) \in Seq(Msg) /\ <<Head(q)>> \in Seq(Msg)
      /\ Len(q) \in Nat \ {0} /\ Len(g) \in Nat
  BY HeadTailProperties, EmptySeq, LenProperties
<1>2. q = <<Head(q)>> \o Tail(q)
  BY <1>1
<1>3. Append(g, Head(q)) = g \o <<Head(q)>>
  BY <1>1, AppendIsConcat
<1>4. Append(g, Head(q)) \o Tail(q) = g \o q
  BY <1>1, <1>2, <1>3, ConcatAssociative
<1>5. Len(g \o q) = Len(g) + Len(q) /\ (g \o q)[Len(g) + 1] = q[1]
  BY <1>1, ConcatProperties
<1>6. q[1] = Head(q)
  BY <1>1
<1> QED BY <1>1, <1>4, <1>5, <1>6

\* What one pass of a send method does to what a user sees: it accepts a
\* message while there is room, or changes nothing.
LEMMA SendEffect ==
    ASSUME StorageIsVecDeque, FifoInv, NEW s \in Senders, st[s] \in {"idle", "woken"},
           NEW m \in Msg, NEW md, Send(s, m, md)
    PROVE  /\ got' = got /\ senders' = senders /\ receivers' = receivers
           /\ \A r \in Receivers : ret'[r] = ret[r] /\ (st'[r] = st[r] \/ st[r] = "waiting")
           /\ \/ UNCHANGED <<sent, queue>>
              \/ /\ senders > 0 /\ receivers > 0 /\ Len(queue) < Capacity
                 /\ sent' = Append(sent, m) /\ queue' = Append(queue, m)
<1>0. /\ TypeOK /\ TypeInv /\ s \notin Receivers /\ s \in Threads
      /\ Receivers \subseteq Threads
      /\ queue \in Stores /\ expired \in SUBSET Expirable
      /\ got' = got /\ senders' = senders /\ receivers' = receivers
  BY ThreadsAssumption DEF FifoInv, TypeInv, TypeOK, Threads, Send
<1>1. \A r \in Receivers : ret'[r] = ret[r]
  BY <1>0 DEF Send, SendClosed, SendPushed, SendSkipped, SendFull, Return, Wait, TypeOK
<1>2. \A r \in Receivers : st'[r] = st[r] \/ st[r] = "waiting"
  <2>1. PICK W \in SUBSET Waiting(Receivers), x \in {"idle", "waiting"} : st' = Moved(W, s, x)
    <3>1. CASE SendPushed(s, m, md)
      BY <3>1, NotifyOneWakesWaiters DEF SendPushed, Return
    <3>2. CASE SendClosed(s, m, md) \/ SendSkipped(s, m, md) \/ SendFull(s, m, md)
      <4>1. {} \in SUBSET Waiting(Receivers)
        OBVIOUS
      <4>2. st' = Moved({}, s, "idle") \/ st' = Moved({}, s, "waiting")
        BY <3>2 DEF SendClosed, SendSkipped, SendFull, Return, Wait
      <4> QED BY <4>1, <4>2
    <3> QED BY <3>1, <3>2 DEF Send
  <2> QED BY <1>0, <2>1 DEF Moved, Waiting
<1>3. CASE SendPushed(s, m, md)
  <2>1. Len(queue) < Capacity /\ queue' = Append(queue, m)
    BY <1>0, <1>3, VecPushFacts, SpaceCounts DEF SendPushed
  <2>2. senders > 0
    BY <1>0, NoHandleLeft DEF TypeOK, Live
  <2> QED BY <1>0, <1>1, <1>2, <1>3, <2>1, <2>2 DEF SendPushed
<1>4. CASE SendClosed(s, m, md) \/ SendSkipped(s, m, md) \/ SendFull(s, m, md)
  BY <1>0, <1>1, <1>2, <1>4, VecPushFacts DEF SendClosed, SendSkipped, SendFull
<1> QED BY <1>3, <1>4 DEF Send

\* What one pass of a receive method does: it delivers the head, reports the
\* end of the stream, or changes nothing a user sees.
LEMMA RecvEffect ==
    ASSUME StorageIsVecDeque, FifoInv, NEW r \in Receivers, st[r] \in {"idle", "woken"}, NEW md, Recv(r, md)
    PROVE  /\ sent' = sent /\ senders' = senders /\ receivers' = receivers
           /\ \A u \in Receivers \ {r} : ret'[u] = ret[u] /\ st'[u] = st[u]
           /\ \/ /\ queue # <<>> /\ queue' = Tail(queue)
                 /\ got' = Append(got, Head(queue))
                 /\ ret[r] # "ChannelClosed" /\ ret'[r] = "Ok" /\ receivers > 0
              \/ /\ UNCHANGED <<got, queue>> /\ queue = <<>>
                 /\ senders = 0 /\ ret'[r] = "ChannelClosed" /\ st'[r] = "idle"
              \/ /\ UNCHANGED <<got, queue>> /\ senders > 0
                 /\ ret[r] # "ChannelClosed" /\ ret'[r] # "ChannelClosed"
<1>0. /\ TypeOK /\ TypeInv /\ ClosedIsFinal
      /\ r \notin Senders /\ r \in Threads /\ Receivers \subseteq Threads
      /\ queue \in Stores /\ expired \in SUBSET Expirable
      /\ sent' = sent /\ senders' = senders /\ receivers' = receivers
      /\ queue' = Get(queue, expired).store
      /\ queue \in Seq(Msg) /\ Length(queue) = Len(queue)
  BY ThreadsAssumption, SpaceCounts DEF FifoInv, TypeInv, TypeOK, Threads, Recv
<1>1. /\ ret[r] = "ChannelClosed" => senders = 0 /\ queue = <<>>
      /\ receivers > 0
  <2>1. Len(queue) = 0 => queue = <<>>
    BY <1>0, EmptySeq
  <2> QED BY <1>0, <2>1, NoHandleLeft DEF ClosedIsFinal, TypeOK, Live
<1>2. \A u \in Receivers \ {r} : ret'[u] = ret[u]
  BY <1>0 DEF Recv, RecvOk, RecvClosed, RecvEmpty, Return, Wait, TypeOK
<1>3. \A u \in Receivers \ {r} : st'[u] = st[u]
  <2>1. PICK W \in SUBSET Senders, x \in {"idle", "waiting"} : st' = Moved(W, r, x)
    <3>1. CASE RecvOk(r, md)
      BY <3>1, NotifyOneWakesWaiters DEF RecvOk, Return, Waiting
    <3>2. CASE RecvClosed(r, md) \/ RecvEmpty(r, md)
      <4>1. {} \in SUBSET Senders
        OBVIOUS
      <4>2. st' = Moved({}, r, "idle") \/ st' = Moved({}, r, "waiting")
        BY <3>2 DEF RecvClosed, RecvEmpty, Return, Wait
      <4> QED BY <4>1, <4>2
    <3> QED BY <3>1, <3>2 DEF Recv
  <2> QED BY <1>0, <2>1, ThreadsAssumption DEF Moved
<1>4. CASE RecvOk(r, md)
  <2>1. /\ queue # <<>> /\ queue' = Tail(queue) /\ got' = Append(got, Head(queue))
        /\ ret'[r] = "Ok"
    BY <1>0, <1>4, VecGetFacts DEF RecvOk, Return, TypeOK
  <2> QED BY <1>0, <1>1, <1>2, <1>3, <2>1
<1>5. CASE RecvClosed(r, md)
  <2>1. /\ UNCHANGED <<got, queue>> /\ queue = <<>> /\ senders = 0
        /\ ret'[r] = "ChannelClosed" /\ st'[r] = "idle"
    BY <1>0, <1>5, VecGetFacts DEF RecvClosed, Return, Moved, TypeOK
  <2> QED BY <1>0, <1>2, <1>3, <2>1
<1>6. CASE RecvEmpty(r, md)
  <2>1. UNCHANGED <<got, queue>> /\ senders > 0
    BY <1>0, <1>6, VecGetFacts DEF RecvEmpty
  <2>2. ret'[r] # "ChannelClosed" /\ ret[r] # "ChannelClosed"
    BY <1>0, <1>1, <1>6, <2>1 DEF RecvEmpty, Return, Wait, TypeOK
  <2> QED BY <1>0, <1>2, <1>3, <2>1, <2>2
<1> QED BY <1>4, <1>5, <1>6 DEF Recv

\* The step of the FIFO, if any, that a step of the channel takes.
FifoStep == Fifo!Next \/ UNCHANGED <<sent, got, TxOpen, RxOpen, Ended>>

\* The counters are numbers.
LEMMA HandleRange ==
    ASSUME TypeOK
    PROVE  senders \in Nat /\ receivers \in Nat
<1>1. Cardinality(Senders) \in Nat /\ Cardinality(Receivers) \in Nat
  BY FS_CardinalityType, ThreadsAssumption
<1> QED BY <1>1 DEF TypeOK

\* One pass of a send method is a Put or changes nothing a user sees.
LEMMA SendFifo ==
    ASSUME StorageIsVecDeque, FifoInv, NEW s \in Senders, st[s] \in {"idle", "woken"},
           NEW m \in Msg, NEW md, Send(s, m, md)
    PROVE  QueueIsBacklog' /\ EndedIsIdle' /\ FifoStep
<1>0. /\ queue \in Seq(Msg) /\ got \in Seq(Msg) /\ sent = got \o queue
      /\ senders \in Nat /\ receivers \in Nat
  BY SpaceCounts, HandleRange DEF FifoInv, TypeInv, TypeOK, QueueIsBacklog
<1>1. /\ got' = got /\ senders' = senders /\ receivers' = receivers
      /\ \A r \in Receivers : ret'[r] = ret[r] /\ (st'[r] = st[r] \/ st[r] = "waiting")
      /\ \/ UNCHANGED <<sent, queue>>
         \/ /\ senders > 0 /\ receivers > 0 /\ Len(queue) < Capacity
            /\ sent' = Append(sent, m) /\ queue' = Append(queue, m)
  BY SendEffect
<1>2. EndedIsIdle'
  BY <1>1 DEF FifoInv, EndedIsIdle
<1>3. UNCHANGED <<got, TxOpen, RxOpen, Ended>>
  BY <1>1 DEF TxOpen, RxOpen, Ended
<1>4. CASE UNCHANGED <<sent, queue>>
  BY <1>0, <1>1, <1>2, <1>3, <1>4 DEF QueueIsBacklog, FifoStep
<1>5. CASE /\ senders > 0 /\ receivers > 0 /\ Len(queue) < Capacity
           /\ sent' = Append(sent, m) /\ queue' = Append(queue, m)
  <2>1. QueueIsBacklog'
    BY <1>0, <1>1, <1>5, BacklogPush DEF QueueIsBacklog
  <2>2. Len(sent) - Len(got) < Capacity
    <3>1. Len(got \o queue) = Len(got) + Len(queue)
      BY <1>0, ConcatProperties
    <3>2. Len(got) \in Nat /\ Len(queue) \in Nat
      BY <1>0, LenProperties
    <3> QED BY <1>0, <1>5, <3>1, <3>2, CapacityAssumption
  <2>3. Fifo!Put(m)
    BY <1>3, <1>5, <2>2 DEF Fifo!Put, TxOpen, RxOpen
  <2> QED BY <1>2, <2>1, <2>3 DEF FifoStep, Fifo!Next
<1> QED BY <1>1, <1>4, <1>5

\* One pass of a receive method is a Take, an EndOfStream, or changes nothing
\* a user sees.
LEMMA RecvFifo ==
    ASSUME StorageIsVecDeque, FifoInv, NEW r \in Receivers, st[r] \in {"idle", "woken"}, NEW md, Recv(r, md)
    PROVE  QueueIsBacklog' /\ EndedIsIdle' /\ FifoStep
<1>0. /\ queue \in Seq(Msg) /\ got \in Seq(Msg) /\ sent = got \o queue
      /\ senders \in Nat /\ receivers \in Nat
  BY SpaceCounts, HandleRange DEF FifoInv, TypeInv, TypeOK, QueueIsBacklog
<1> DEFINE Taken == /\ queue # <<>> /\ queue' = Tail(queue)
                    /\ got' = Append(got, Head(queue))
                    /\ ret[r] # "ChannelClosed" /\ ret'[r] = "Ok" /\ receivers > 0
           Told == /\ UNCHANGED <<got, queue>> /\ queue = <<>>
                   /\ senders = 0 /\ ret'[r] = "ChannelClosed" /\ st'[r] = "idle"
           Nothing == /\ UNCHANGED <<got, queue>> /\ senders > 0
                      /\ ret[r] # "ChannelClosed" /\ ret'[r] # "ChannelClosed"
<1>1. /\ sent' = sent /\ senders' = senders /\ receivers' = receivers
      /\ \A u \in Receivers \ {r} : ret'[u] = ret[u] /\ st'[u] = st[u]
      /\ Taken \/ Told \/ Nothing
  BY RecvEffect
<1>2. UNCHANGED <<sent, TxOpen, RxOpen>>
  BY <1>1 DEF TxOpen, RxOpen
<1>3. CASE Taken
  <2>1. /\ Append(got, Head(queue)) \o Tail(queue) = got \o queue
        /\ Len(got) < Len(got \o queue) /\ (got \o queue)[Len(got) + 1] = Head(queue)
    BY <1>0, <1>3, BacklogPop
  <2>2. EndedIsIdle' /\ Ended' = Ended
    BY <1>1, <1>3 DEF FifoInv, EndedIsIdle, Ended
  <2>3. QueueIsBacklog'
    BY <1>0, <1>2, <1>3, <2>1 DEF QueueIsBacklog
  <2>4. Fifo!Take
    BY <1>0, <1>2, <1>3, <2>1, <2>2 DEF Fifo!Take, RxOpen
  <2> QED BY <2>2, <2>3, <2>4 DEF FifoStep, Fifo!Next
<1>4. CASE Told
  <2>1. EndedIsIdle' /\ Ended' = Ended \cup {r}
    BY <1>1, <1>4 DEF FifoInv, EndedIsIdle, Ended
  <2>2. QueueIsBacklog'
    BY <1>0, <1>1, <1>4 DEF QueueIsBacklog
  <2>3. got = sent
    BY <1>0, <1>4, ConcatEmptySeq
  <2>4. Fifo!EndOfStream(r)
    BY <1>2, <1>4, <2>1, <2>3 DEF Fifo!EndOfStream, TxOpen
  <2> QED BY <2>1, <2>2, <2>4 DEF FifoStep, Fifo!Next
<1>5. CASE Nothing
  <2>1. EndedIsIdle' /\ Ended' = Ended
    BY <1>1, <1>5 DEF FifoInv, EndedIsIdle, Ended
  <2> QED BY <1>0, <1>1, <1>2, <1>5, <2>1 DEF QueueIsBacklog, FifoStep
<1> QED BY <1>1, <1>3, <1>4, <1>5

\* The other steps touch neither the queue nor what was told; of them only the
\* drop of the last handle of its kind is seen, as CloseTx or CloseRx.
LEMMA HandleFifo ==
    ASSUME StorageIsVecDeque, FifoInv, NEW t \in Threads,
           \/ t \in Senders /\ \E n \in Senders : CloneSender(t, n)
           \/ t \in Receivers /\ \E n \in Receivers : CloneReceiver(t, n)
           \/ t \in Senders /\ DropSender(t)
           \/ t \in Receivers /\ DropReceiver(t)
    PROVE  QueueIsBacklog' /\ EndedIsIdle' /\ FifoStep
<1>0. /\ senders \in Nat /\ receivers \in Nat
      /\ UNCHANGED <<sent, got, queue, ret>> /\ st[t] = "idle"
  BY HandleRange
  DEF FifoInv, TypeInv, CloneSender, CloneReceiver, DropSender, DropReceiver
<1>1. QueueIsBacklog' /\ Ended' = Ended
  BY <1>0 DEF FifoInv, QueueIsBacklog, Ended
<1>2. EndedIsIdle'
  <2>1. \A u \in Receivers : st'[u] \in {"waiting", "woken", "timedout"} =>
                                st[u] \in {"waiting", "woken", "timedout"}
    BY DEF CloneSender, CloneReceiver, DropSender, DropReceiver, Moved, Waiting, Threads
  <2> QED BY <1>0, <2>1 DEF FifoInv, EndedIsIdle
<1>3. (t \in Senders => senders > 0) /\ (t \in Receivers => receivers > 0)
  BY <1>0, NoHandleLeft DEF FifoInv, Live
<1>4. CASE \/ t \in Senders /\ \E n \in Senders : CloneSender(t, n)
           \/ t \in Receivers /\ \E n \in Receivers : CloneReceiver(t, n)
  <2>1. TxOpen' = TxOpen /\ RxOpen' = RxOpen
    BY <1>0, <1>3, <1>4 DEF CloneSender, CloneReceiver, TxOpen, RxOpen
  <2> QED BY <1>0, <1>1, <1>2, <2>1 DEF FifoStep
<1>5. CASE t \in Senders /\ DropSender(t)
  <2>1. senders' = senders - 1 /\ RxOpen' = RxOpen
    BY <1>5 DEF DropSender, RxOpen
  <2>2. CASE senders' = 0
    <3>1. Fifo!CloseTx
      BY <1>0, <1>1, <1>3, <1>5, <2>1, <2>2 DEF Fifo!CloseTx, TxOpen
    <3> QED BY <1>1, <1>2, <3>1 DEF FifoStep, Fifo!Next
  <2>3. CASE senders' # 0
    <3>1. TxOpen' = TxOpen
      BY <1>0, <1>3, <1>5, <2>1, <2>3 DEF TxOpen
    <3> QED BY <1>0, <1>1, <1>2, <2>1, <3>1 DEF FifoStep
  <2> QED BY <2>2, <2>3
<1>6. CASE t \in Receivers /\ DropReceiver(t)
  <2>1. receivers' = receivers - 1 /\ TxOpen' = TxOpen
    BY <1>6 DEF DropReceiver, TxOpen
  <2>2. CASE receivers' = 0
    <3>1. Fifo!CloseRx
      BY <1>0, <1>1, <1>3, <1>6, <2>1, <2>2 DEF Fifo!CloseRx, RxOpen
    <3> QED BY <1>1, <1>2, <3>1 DEF FifoStep, Fifo!Next
  <2>3. CASE receivers' # 0
    <3>1. RxOpen' = RxOpen
      BY <1>0, <1>3, <1>6, <2>1, <2>3 DEF RxOpen
    <3> QED BY <1>0, <1>1, <1>2, <2>1, <3>1 DEF FifoStep
  <2> QED BY <2>2, <2>3
<1> QED BY <1>4, <1>5, <1>6

\* A timeout is not seen: the thread was told of no end of stream before.
LEMMA TimeoutFifo ==
    ASSUME StorageIsVecDeque, FifoInv, NEW t \in Threads, TimeOut(t) \/ ReturnTimeout(t)
    PROVE  QueueIsBacklog' /\ EndedIsIdle' /\ FifoStep
<1>0. /\ UNCHANGED <<sent, got, queue, senders, receivers>>
      /\ Receivers \subseteq Threads
      /\ ret \in [Threads -> SendResult \cup RecvResult \cup {"none"}]
  BY DEF TimeOut, ReturnTimeout, inner, Threads, FifoInv, TypeInv, TypeOK
<1>1. \A r \in Receivers \ {t} : st'[r] = st[r] /\ ret'[r] = ret[r]
  BY <1>0 DEF TimeOut, ReturnTimeout, Return, Moved
<1>2. t \in Receivers => ret[t] # "ChannelClosed" /\ ret'[t] # "ChannelClosed"
  BY <1>0 DEF TimeOut, ReturnTimeout, Return, FifoInv, EndedIsIdle
<1>3. EndedIsIdle' /\ Ended' = Ended
  BY <1>1, <1>2 DEF FifoInv, EndedIsIdle, Ended
<1> QED
  BY <1>0, <1>3 DEF FifoInv, QueueIsBacklog, FifoStep, TxOpen, RxOpen

\* Every step keeps the invariant and is a step of the FIFO or none.
LEMMA NextFifo ==
    ASSUME StorageIsVecDeque
    PROVE  FifoInv /\ [Next]_vars => FifoInv' /\ FifoStep
<1> SUFFICES ASSUME FifoInv, [Next]_vars PROVE FifoInv' /\ FifoStep
  OBVIOUS
<1>0. /\ Receivers \subseteq Threads /\ Senders \subseteq Threads
      /\ TypeInv' /\ ClosedIsFinal'
  BY NextTypeInv, NextClosedIsFinal DEF Threads, FifoInv
<1> SUFFICES QueueIsBacklog' /\ EndedIsIdle' /\ FifoStep
  BY <1>0 DEF FifoInv
<1>1. CASE UNCHANGED vars \/ \E m \in Expirable : Expire(m)
  BY <1>1
  DEF Expire, vars, inner, FifoInv, QueueIsBacklog, EndedIsIdle, FifoStep, TxOpen, RxOpen, Ended
<1>2. ASSUME NEW s \in Senders, NEW m \in Msg, NEW md \in Mode, SendCall(s, m, md)
      PROVE  QueueIsBacklog' /\ EndedIsIdle' /\ FifoStep
  BY <1>2, SendFifo DEF SendCall
<1>3. ASSUME NEW s \in Senders, SendResume(s)
      PROVE  QueueIsBacklog' /\ EndedIsIdle' /\ FifoStep
  <2>1. arg[s] \in Msg
    BY <1>3 DEF SendResume, FifoInv, TypeInv, TypeOK
  <2> QED BY <1>3, <2>1, SendFifo DEF SendResume
<1>4. ASSUME NEW r \in Receivers, NEW md, RecvCall(r, md)
      PROVE  QueueIsBacklog' /\ EndedIsIdle' /\ FifoStep
  BY <1>4, RecvFifo DEF RecvCall
<1>5. ASSUME NEW r \in Receivers, RecvResume(r)
      PROVE  QueueIsBacklog' /\ EndedIsIdle' /\ FifoStep
  BY <1>5, RecvFifo DEF RecvResume
<1>6. ASSUME NEW t \in Threads, TimeOut(t) \/ ReturnTimeout(t)
      PROVE  QueueIsBacklog' /\ EndedIsIdle' /\ FifoStep
  BY <1>6, TimeoutFifo
<1>7. ASSUME NEW t \in Threads,
             \/ t \in Senders /\ \E n \in Senders : CloneSender(t, n)
             \/ t \in Receivers /\ \E n \in Receivers : CloneReceiver(t, n)
             \/ t \in Senders /\ DropSender(t)
             \/ t \in Receivers /\ DropReceiver(t)
      PROVE  QueueIsBacklog' /\ EndedIsIdle' /\ FifoStep
  BY <1>7, HandleFifo
<1> QED
  BY <1>0, <1>1, <1>2, <1>3, <1>4, <1>5, <1>6, <1>7 DEF Next, SenderNext, ReceiverNext

\* A new channel is an empty FIFO with both ends open.
LEMMA InitFifo ==
    ASSUME StorageIsVecDeque
    PROVE  Init => FifoInv /\ Fifo!Init
<1> SUFFICES ASSUME Init PROVE FifoInv /\ Fifo!Init
  OBVIOUS
<1>1. /\ queue = <<>> /\ sent = <<>> /\ got = <<>> /\ senders = 1 /\ receivers = 1
      /\ \A r \in Receivers : ret[r] = "none"
  BY DEF StorageIsVecDeque, Init, VecEmpty, Threads
<1>2. QueueIsBacklog
  BY <1>1, ConcatEmptySeq, EmptySeq DEF QueueIsBacklog
<1>3. EndedIsIdle /\ ClosedIsFinal /\ Ended = {}
  <2>1. \A s \in Senders : ret[s] = "none"
    BY DEF Init, Threads
  <2> QED BY <1>1, <2>1 DEF EndedIsIdle, ClosedIsFinal, Ended
<1>4. TxOpen = TRUE /\ RxOpen = TRUE
  BY <1>1 DEF TxOpen, RxOpen
<1> QED
  BY <1>1, <1>2, <1>3, <1>4, InitTypeInv DEF FifoInv, Fifo!Init

\* Nothing is lost, duplicated or reordered inside the channel: what was
\* accepted is what was delivered followed by what is queued.
THEOREM QueueIsBacklogCorrect ==
    ASSUME StorageIsVecDeque
    PROVE  Spec => []QueueIsBacklog
<1>1. FifoInv => QueueIsBacklog
  BY DEF FifoInv
<1> QED
  BY <1>1, InitFifo, NextFifo, PTL DEF Spec

\* channel.rs implements BoundedFifo: with any number of senders and receivers,
\* any capacity and any interleaving of calls, timeouts, clones and drops, the
\* channel is one bounded FIFO whose end of stream comes after its last message.
THEOREM FifoImplemented ==
    ASSUME StorageIsVecDeque
    PROVE  Spec => ImplementsFifo
<1>1. Init => Fifo!Init
  BY InitFifo
<1>2. FifoInv /\ [Next]_vars => [Fifo!Next]_(Fifo!vars)
  BY NextFifo DEF FifoStep, Fifo!vars
<1> QED
  BY <1>1, <1>2, InitFifo, NextFifo, PTL DEF Spec, ImplementsFifo, Fifo!Spec

-----------------------------------------------------------------------------
\* The channel over the deque that stores by delivery policy.

\* What NothingInvented rests on, of the values of a state: a message is in one
\* place at a time, unsent, held by one blocked sender, or accepted, and an
\* accepted one is queued or delivered at most, and once.
Ledger(q, new, a, in, out) ==
    /\ \A s \in Senders : a[s] # NoMsg => a[s] \notin new /\ a[s] \notin Range(in)
    /\ \A s, u \in Senders : a[s] = a[u] /\ a[s] # NoMsg => s = u
    /\ Range(in) \cap new = {}
    /\ Elements(q) \subseteq Range(in) /\ Range(out) \subseteq Range(in)
    /\ Elements(q) \cap Range(out) = {}
    /\ Apart(q.data) /\ Distinct(out)

\* AlwaysIsDelivered, of the values of a state.
Delivers(q, x, in, out) ==
    \A i \in DOMAIN in :
        \/ Policy[in[i]] # "Always" \/ in[i] \in x
        \/ in[i] \in Range(out) \/ in[i] \in Elements(q)
        \/ \E j \in DOMAIN in : /\ j > i /\ EqKind(in[j], in[i])
                                /\ IsSingle(in[j]) \/ Policy[in[j]] = "Latest"

PolicyInv ==
    /\ TypeInv
    /\ Ledger(queue, fresh, arg, sent, got)
    /\ Delivers(queue, expired, sent, got)
    /\ Ordered => Sorted(queue.data)

\* What appending does to the elements of a sequence.
LEMMA RangeAppend ==
    ASSUME NEW S, NEW s \in Seq(S), NEW m \in S
    PROVE  /\ Append(s, m) \in Seq(S) /\ Len(s) \in Nat
           /\ DOMAIN s = 1..Len(s) /\ DOMAIN Append(s, m) = 1..(Len(s) + 1)
           /\ \A i \in DOMAIN s : Append(s, m)[i] = s[i]
           /\ Append(s, m)[Len(s) + 1] = m
           /\ Range(Append(s, m)) = Range(s) \cup {m}
<1> DEFINE t == Append(s, m)
<1>1. /\ t \in Seq(S) /\ Len(s) \in Nat /\ DOMAIN s = 1..Len(s)
      /\ DOMAIN t = 1..(Len(s) + 1)
      /\ \A i \in DOMAIN s : t[i] = s[i]
      /\ t[Len(s) + 1] = m
  BY AppendProperties, LenProperties
<1> HIDE DEF t
<1>2. /\ \A i \in DOMAIN t : i \in DOMAIN s \/ i = Len(s) + 1
      /\ DOMAIN s \subseteq DOMAIN t /\ Len(s) + 1 \in DOMAIN t
  BY <1>1
<1>3. Range(t) = Range(s) \cup {m}
  BY <1>1, <1>2 DEF Range
<1> QED BY <1>1, <1>3 DEF t

\* One pass of a send method: the value goes into the deque, or stays with the
\* sender, or is given up.
LEMMA PolicySend ==
    ASSUME StorageIsPolicyDeque, TypeOK, NEW s \in Senders, NEW m \in Msg, NEW md,
           Send(s, m, md)
    PROVE  /\ got' = got /\ expired' = expired
           /\ \A u \in Senders \ {s} : arg'[u] = arg[u]
           /\ \/ arg'[s] \in {NoMsg, m} /\ queue' = queue /\ sent' = sent
              \/ /\ arg'[s] = NoMsg /\ sent' = Append(sent, m)
                 /\ DequeTryPush(queue, m, expired).out = "Pushed"
                 /\ queue' = DequeTryPush(queue, m, expired).store
<1>1. /\ queue \in Stores /\ expired \in SUBSET Expirable
      /\ arg \in [Senders -> Msg \cup {NoMsg}]
  BY DEF TypeOK
<1>2. /\ TryPush(queue, m, expired) = DequeTryPush(queue, m, expired)
      /\ TryPush(queue, m, expired).out # "Pushed"
            => TryPush(queue, m, expired).store = queue
  BY <1>1, StorageContract DEF StorageIsPolicyDeque
<1>3. got' = got /\ expired' = expired
  BY DEF Send
<1>4. \E y \in {NoMsg, m} : arg' = [arg EXCEPT ![s] = y]
  BY DEF Send, SendClosed, SendPushed, SendSkipped, SendFull
<1>5. CASE SendPushed(s, m, md)
  BY <1>1, <1>2, <1>3, <1>5 DEF SendPushed
<1>6. CASE SendClosed(s, m, md) \/ SendSkipped(s, m, md) \/ SendFull(s, m, md)
  <2>1. queue' = queue /\ sent' = sent
    BY <1>2, <1>6 DEF SendClosed, SendSkipped, SendFull
  <2> QED BY <1>1, <1>3, <1>4, <2>1
<1> QED BY <1>5, <1>6 DEF Send

\* What a push keeps of the ledger.
LEMMA LedgerPush ==
    ASSUME NEW q, NEW new, NEW a, NEW in \in Seq(Msg), NEW out, Ledger(q, new, a, in, out),
           NEW s \in Senders, NEW m \in Msg, NEW new2 \in SUBSET new, NEW a2,
           m \notin new2, m \notin Range(in), \A u \in Senders \ {s} : a[u] # m,
           \A u \in Senders \ {s} : a2[u] = a[u], a2[s] = NoMsg,
           NEW q2, Elements(q2) \subseteq Elements(q) \cup {m},
           Apart(q.data) /\ m \notin Elements(q) => Apart(q2.data)
    PROVE  Ledger(q2, new2, a2, Append(in, m), out)
<1> DEFINE in2 == Append(in, m)
<1>1. Range(in2) = Range(in) \cup {m}
  BY RangeAppend
<1> HIDE DEF in2
<1>2. m \notin Elements(q) /\ m \notin Range(out)
  BY DEF Ledger
<1>3. Apart(q2.data) /\ Distinct(out)
  BY <1>2 DEF Ledger
<1>4. \A u \in Senders : a2[u] # NoMsg => a2[u] \notin new2 /\ a2[u] \notin Range(in2)
  BY <1>1 DEF Ledger
<1>5. \A u, w \in Senders : a2[u] = a2[w] /\ a2[u] # NoMsg => u = w
  BY DEF Ledger
<1>6. /\ Range(in2) \cap new2 = {} /\ Elements(q2) \subseteq Range(in2)
      /\ Range(out) \subseteq Range(in2) /\ Elements(q2) \cap Range(out) = {}
  BY <1>1, <1>2 DEF Ledger
<1>7. Ledger(q2, new2, a2, in2, out)
  BY <1>3, <1>4, <1>5, <1>6 DEF Ledger
<1> QED BY <1>7 DEF in2

\* A value may be held or given up without a word.
LEMMA LedgerHold ==
    ASSUME NEW q, NEW new, NEW a, NEW in, NEW out, Ledger(q, new, a, in, out),
           NEW s \in Senders, NEW m, NEW new2 \in SUBSET new, NEW a2,
           m \notin new2, m \notin Range(in), \A u \in Senders \ {s} : a[u] # m,
           \A u \in Senders \ {s} : a2[u] = a[u], a2[s] \in {NoMsg, m}
    PROVE  Ledger(q, new2, a2, in, out)
<1>1. \A u \in Senders : a2[u] # NoMsg => a2[u] \notin new2 /\ a2[u] \notin Range(in)
  BY DEF Ledger
<1>2. \A u, w \in Senders : a2[u] = a2[w] /\ a2[u] # NoMsg => u = w
  BY DEF Ledger
<1> QED BY <1>1, <1>2 DEF Ledger

\* What a get keeps of the ledger.
LEMMA LedgerGet ==
    ASSUME NEW q, NEW new, NEW a, NEW in, NEW out \in Seq(Msg), Ledger(q, new, a, in, out),
           NEW q2, Elements(q2) \subseteq Elements(q), Apart(q2.data),
           NEW m \in Msg, m \in Elements(q), m \notin Elements(q2)
    PROVE  Ledger(q2, new, a, in, Append(out, m))
<1> DEFINE out2 == Append(out, m)
<1>1. /\ Range(out2) = Range(out) \cup {m} /\ Len(out) \in Nat
      /\ DOMAIN out = 1..Len(out) /\ DOMAIN out2 = 1..(Len(out) + 1)
      /\ \A i \in DOMAIN out : out2[i] = out[i]
      /\ out2[Len(out) + 1] = m
  BY RangeAppend
<1> HIDE DEF out2
<1>2. m \notin Range(out)
  BY DEF Ledger
<1>3. Distinct(out2)
  <2> SUFFICES ASSUME NEW i \in DOMAIN out2, NEW j \in DOMAIN out2, out2[i] = out2[j]
               PROVE  i = j
    BY DEF Distinct
  <2>1. \A k \in DOMAIN out2 : k \in DOMAIN out \/ k = Len(out) + 1
    BY <1>1
  <2>2. \A k \in DOMAIN out : out2[k] # m
    BY <1>1, <1>2 DEF Range
  <2> QED BY <1>1, <2>1, <2>2 DEF Ledger, Distinct
<1>4. Ledger(q2, new, a, in, out2)
  BY <1>1, <1>3 DEF Ledger
<1> QED BY <1>4 DEF out2

\* What a push keeps of the deliveries: who makes room for m has expired, is
\* optional, or is replaced by m.
LEMMA DeliversPush ==
    ASSUME NEW q, NEW x, NEW in \in Seq(Msg), NEW out, Delivers(q, x, in, out),
           NEW m \in Msg, NEW q2, m \notin x => m \in Elements(q2),
           \A w \in Elements(q) \ Elements(q2) : GivesWay(w, m, x)
    PROVE  Delivers(q2, x, Append(in, m), out)
<1> DEFINE in2 == Append(in, m)
           n == Len(in) + 1
<1>1. /\ Len(in) \in Nat /\ DOMAIN in = 1..Len(in) /\ DOMAIN in2 = 1..n
      /\ \A i \in DOMAIN in : in2[i] = in[i] /\ in[i] \in Msg
      /\ in2[n] = m
  BY RangeAppend, ElementOfSeq
<1> HIDE DEF in2
<1>2. n \in DOMAIN in2 /\ \A i \in DOMAIN in : i \in DOMAIN in2 /\ n > i
  BY <1>1
<1>3. \A i \in DOMAIN in2 : i \in DOMAIN in \/ i = n
  BY <1>1
<1> HIDE DEF n
<1> DEFINE Fine(i) ==
        \/ Policy[in2[i]] # "Always" \/ in2[i] \in x
        \/ in2[i] \in Range(out) \/ in2[i] \in Elements(q2)
        \/ \E j \in DOMAIN in2 : /\ j > i /\ EqKind(in2[j], in2[i])
                                 /\ IsSingle(in2[j]) \/ Policy[in2[j]] = "Latest"
<1>4. Fine(n)
  BY <1>1
<1>5. ASSUME NEW i \in DOMAIN in PROVE Fine(i)
  <2>1. in2[i] = in[i]
    BY <1>1
  <2>2. CASE \/ Policy[in[i]] # "Always" \/ in[i] \in x \/ in[i] \in Range(out)
    BY <2>1, <2>2
  <2>3. CASE \E j \in DOMAIN in : /\ j > i /\ EqKind(in[j], in[i])
                                  /\ IsSingle(in[j]) \/ Policy[in[j]] = "Latest"
    BY <1>1, <1>2, <2>1, <2>3
  <2>4. CASE in[i] \in Elements(q) /\ in[i] \notin Elements(q2)
    <3>1. GivesWay(in[i], m, x)
      BY <2>4
    <3>2. CASE in[i] \in x \/ IsOptional(in[i])
      BY <2>1, <3>2 DEF IsOptional
    <3>3. CASE EqKind(m, in[i]) /\ (IsSingle(m) \/ Policy[m] = "Latest")
      BY <1>1, <1>2, <2>1, <3>3
    <3> QED BY <3>1, <3>2, <3>3 DEF GivesWay
  <2>5. CASE in[i] \in Elements(q2)
    BY <2>1, <2>5
  <2> QED BY <2>2, <2>3, <2>4, <2>5 DEF Delivers
<1> HIDE DEF Fine
<1>6. \A i \in DOMAIN in2 : Fine(i)
  BY <1>3, <1>4, <1>5
<1>7. Delivers(q2, x, in2, out)
  BY <1>6 DEF Delivers, Fine
<1> QED BY <1>7 DEF in2

\* What a get keeps of the deliveries: it takes m and drops what has expired.
LEMMA DeliversGet ==
    ASSUME NEW q, NEW x, NEW in, NEW out, Delivers(q, x, in, out),
           NEW q2, NEW out2, Range(out) \subseteq Range(out2),
           \A w \in Elements(q) \ Elements(q2) : w \in x \/ w \in Range(out2)
    PROVE  Delivers(q2, x, in, out2)
BY DEF Delivers

\* One pass of a send method keeps the invariant.
LEMMA SendPolicyInv ==
    ASSUME StorageIsPolicyDeque, PolicyInv, NEW s \in Senders, NEW m \in Msg, NEW md,
           Send(s, m, md), fresh' \in SUBSET fresh, m \notin fresh',
           m \notin Range(sent), \A u \in Senders \ {s} : arg[u] # m
    PROVE  /\ Ledger(queue, fresh, arg, sent, got)'
           /\ Delivers(queue, expired, sent, got)'
           /\ (Ordered => Sorted(queue.data))' /\ got' = got
<1>0. /\ TypeOK /\ queue \in DequeStores(Ordered) /\ Ordered \in BOOLEAN
      /\ sent \in Seq(Msg) /\ Ledger(queue, fresh, arg, sent, got)
      /\ Delivers(queue, expired, sent, got) /\ (Ordered => Sorted(queue.data))
  BY DEF PolicyInv, TypeInv, TypeOK, StorageIsPolicyDeque, PolicyStores
<1>1. /\ got' = got /\ expired' = expired
      /\ \A u \in Senders \ {s} : arg'[u] = arg[u]
      /\ \/ arg'[s] \in {NoMsg, m} /\ queue' = queue /\ sent' = sent
         \/ /\ arg'[s] = NoMsg /\ sent' = Append(sent, m)
            /\ DequeTryPush(queue, m, expired).out = "Pushed"
            /\ queue' = DequeTryPush(queue, m, expired).store
  BY <1>0, PolicySend
<1>2. CASE arg'[s] \in {NoMsg, m} /\ queue' = queue /\ sent' = sent
  <2>1. Ledger(queue, fresh', arg', sent, got)
    BY <1>0, <1>1, <1>2, LedgerHold
  <2> QED BY <1>0, <1>1, <1>2, <2>1
<1>3. CASE /\ arg'[s] = NoMsg /\ sent' = Append(sent, m)
           /\ DequeTryPush(queue, m, expired).out = "Pushed"
           /\ queue' = DequeTryPush(queue, m, expired).store
  <2> DEFINE r == DequeTryPush(queue, m, expired)
             q2 == r.store
  <2>1. /\ m \notin expired => m \in Elements(q2)
        /\ Elements(q2) \subseteq Elements(queue) \cup {m}
        /\ \A w \in Elements(queue) \ Elements(q2) : GivesWay(w, m, expired)
        /\ Ordered /\ Sorted(queue.data) => Sorted(q2.data)
        /\ Apart(queue.data) /\ m \notin Elements(queue) => Apart(q2.data)
    <3> HIDE DEF r
    <3>1. r = DequeTryPush(queue, m, expired) /\ r.out = "Pushed"
      BY <1>3 DEF r
    <3> QED BY <1>0, <3>1, TryPushFacts
  <2> HIDE DEF r, q2
  <2>2. Ledger(q2, fresh', arg', Append(sent, m), got)
    BY <1>0, <1>1, <1>3, <2>1, LedgerPush, ZenonT(60)
  <2>3. Delivers(q2, expired, Append(sent, m), got)
    BY <1>0, <2>1, DeliversPush
  <2>4. queue' = q2 /\ sent' = Append(sent, m)
    BY <1>3 DEF q2, r
  <2> QED BY <1>0, <1>1, <2>1, <2>2, <2>3, <2>4
<1> QED BY <1>1, <1>2, <1>3

\* One pass of a receive method: it takes what DequeGet gives.
LEMMA PolicyRecv ==
    ASSUME StorageIsPolicyDeque, TypeOK, NEW r \in Receivers, NEW md, Recv(r, md)
    PROVE  /\ queue' = DequeGet(queue, expired).store
           /\ UNCHANGED <<arg, fresh, expired, sent>>
           /\ IF DequeGet(queue, expired).val = NoMsg
              THEN got' = got ELSE got' = Append(got, DequeGet(queue, expired).val)
<1>1. Get(queue, expired) = DequeGet(queue, expired)
  BY DEF TypeOK, StorageIsPolicyDeque
<1> QED BY <1>1 DEF Recv, RecvOk, RecvClosed, RecvEmpty

\* The step of DeliversBest.
BestStep ==
    got' # got =>
        LET m == got'[Len(got')]
        IN  /\ m \notin expired
            /\ Ordered => \A i \in DOMAIN queue.data :
                  queue.data[i] \notin expired => Priority[m] <= Priority[queue.data[i]]

\* One pass of a receive method keeps the invariant and delivers the best.
LEMMA RecvPolicyInv ==
    ASSUME StorageIsPolicyDeque, PolicyInv, NEW r \in Receivers, NEW md, Recv(r, md)
    PROVE  /\ Ledger(queue, fresh, arg, sent, got)'
           /\ Delivers(queue, expired, sent, got)'
           /\ (Ordered => Sorted(queue.data))' /\ BestStep
<1>0. /\ TypeOK /\ queue \in DequeStores(Ordered)
      /\ got \in Seq(Msg) /\ Ledger(queue, fresh, arg, sent, got)
      /\ Delivers(queue, expired, sent, got) /\ (Ordered => Sorted(queue.data))
  BY DEF PolicyInv, TypeInv, TypeOK, StorageIsPolicyDeque, PolicyStores
<1> DEFINE g == DequeGet(queue, expired)
           q2 == g.store
           m == g.val
<1>1. /\ queue' = q2 /\ UNCHANGED <<arg, fresh, expired, sent>>
      /\ IF m = NoMsg THEN got' = got ELSE got' = Append(got, m)
  BY <1>0, PolicyRecv
<1>2. /\ q2 \in DequeStores(Ordered) /\ m \in Msg \cup {NoMsg}
      /\ m # NoMsg => m \in Elements(queue) \ expired
      /\ \A w \in Elements(queue) \ Elements(q2) : w \in expired \/ w = m
      /\ Elements(q2) \subseteq Elements(queue)
      /\ \E p : Picks(p, queue.data, q2.data)
      /\ Sorted(queue.data) /\ m # NoMsg =>
            \A w \in Elements(queue) \ expired : Priority[m] <= Priority[w]
      /\ m # NoMsg => FrontTaken(m, queue.data, q2.data, expired)
  <2>1. g = DequeGet(queue, expired) /\ queue \in DequeStores(Ordered)
    BY <1>0 DEF g
  <2>2. q2 = g.store /\ m = g.val
    BY DEF q2, m
  <2> HIDE DEF g, q2, m
  <2>3. /\ g.store \in DequeStores(Ordered) /\ g.val \in Msg \cup {NoMsg}
        /\ g.val # NoMsg => g.val \in Elements(queue) \ expired
        /\ \A w \in Elements(queue) \ Elements(g.store) : w \in expired \/ w = g.val
        /\ Elements(g.store) \subseteq Elements(queue)
        /\ \E p : Picks(p, queue.data, g.store.data)
        /\ Sorted(queue.data) /\ g.val # NoMsg =>
              \A w \in Elements(queue) \ expired : Priority[g.val] <= Priority[w]
    BY <2>1, GetFacts
  <2>4. g.val # NoMsg => FrontTaken(g.val, queue.data, g.store.data, expired)
    BY <2>1, GetFacts
  <2> QED BY <2>2, <2>3, <2>4, Zenon
<1> HIDE DEF g, q2, m
<1>3. /\ queue.data \in Seq(Msg) /\ q2.data \in Seq(Msg)
      /\ Len(queue.data) \in Nat /\ Len(q2.data) \in Nat
      /\ DOMAIN queue.data = 1..Len(queue.data) /\ DOMAIN q2.data = 1..Len(q2.data)
  BY <1>0, <1>2, StoresFields
<1>4. Apart(queue.data)
  BY <1>0 DEF Ledger
<1>5. Apart(q2.data)
  <2>1. PICK p : Picks(p, queue.data, q2.data)
    BY <1>2
  <2> DEFINE s == queue.data
             t == q2.data
  <2>2. s \in Seq(Msg) /\ t \in Seq(Msg) /\ Picks(p, s, t) /\ Apart(s)
    BY <1>3, <1>4, <2>1
  <2> HIDE DEF s, t
  <2>3. Apart(t)
    BY <2>2, PicksApart
  <2> QED BY <2>3 DEF t
<1>6. Ordered => Sorted(q2.data)
  <2>1. PICK p : Picks(p, queue.data, q2.data)
    BY <1>2
  <2> DEFINE s == queue.data
             t == q2.data
  <2>2. s \in Seq(Msg) /\ t \in Seq(Msg) /\ Picks(p, s, t) /\ (Ordered => Sorted(s))
    BY <1>0, <1>3, <2>1
  <2> HIDE DEF s, t
  <2>3. Ordered => Sorted(t)
    BY <2>2, PicksSorted
  <2> QED BY <2>3 DEF t
<1>7. CASE m = NoMsg
  <2>1. NoMsg \notin Elements(queue)
    BY <1>0, MsgAssumption, StoresFields DEF Elements
  <2>2. \A w \in Elements(queue) \ Elements(q2) : w \in expired \/ w \in Range(got)
    BY <1>2, <1>7, <2>1
  <2>3. Delivers(q2, expired, sent, got)
    BY <1>0, <2>2, DeliversGet
  <2>4. Ledger(q2, fresh, arg, sent, got)
    BY <1>0, <1>2, <1>5 DEF Ledger
  <2>5. BestStep
    BY <1>1, <1>7 DEF BestStep
  <2> QED BY <1>1, <1>6, <1>7, <2>3, <2>4, <2>5
<1>8. CASE m # NoMsg
  <2>1. m \in Msg /\ m \in Elements(queue) /\ m \notin expired
    BY <1>2, <1>8
  <2>2. m \notin Elements(q2)
    <3>1. PICK i \in 1..Len(queue.data) :
               /\ m = queue.data[i] /\ Len(q2.data) = Len(queue.data) - i
               /\ \A k \in 1..(Len(queue.data) - i) : q2.data[k] = queue.data[k + i]
      BY <1>2, <1>8 DEF FrontTaken
    <3>2. ASSUME NEW k \in DOMAIN q2.data PROVE q2.data[k] # m
      <4>1. k \in 1..(Len(queue.data) - i)
        BY <1>3, <3>1
      <4>2. k + i \in DOMAIN queue.data /\ i \in DOMAIN queue.data /\ k + i # i
        BY <1>3, <4>1
      <4>3. q2.data[k] = queue.data[k + i]
        BY <3>1, <4>1
      <4> QED BY <1>4, <3>1, <4>2, <4>3 DEF Apart, Clash
    <3> QED BY <3>2 DEF Elements
  <2>3. Ledger(q2, fresh, arg, sent, Append(got, m))
    BY <1>0, <1>2, <1>5, <2>1, <2>2, LedgerGet
  <2>4. /\ Range(Append(got, m)) = Range(got) \cup {m} /\ Len(Append(got, m)) = Len(got) + 1
        /\ Append(got, m)[Len(got) + 1] = m
    BY <1>0, <2>1, RangeAppend, AppendProperties
  <2> DEFINE out2 == Append(got, m)
  <2> HIDE DEF out2
  <2>5. Delivers(q2, expired, sent, out2)
    <3>1. /\ Range(got) \subseteq Range(out2)
          /\ \A w \in Elements(queue) \ Elements(q2) : w \in expired \/ w \in Range(out2)
      BY <1>2, <2>4 DEF out2
    <3> QED BY <1>0, <3>1, DeliversGet
  <2>6. BestStep
    <3>1. got' = Append(got, m)
      BY <1>1, <1>8
    <3>2. got'[Len(got')] = m
      BY <2>4, <3>1
    <3>3. Ordered => \A i \in DOMAIN queue.data :
              queue.data[i] \notin expired => Priority[m] <= Priority[queue.data[i]]
      BY <1>0, <1>2, <1>8 DEF Elements
    <3> QED BY <2>1, <3>2, <3>3 DEF BestStep
  <2>7. queue' = q2 /\ got' = out2 /\ UNCHANGED <<arg, fresh, expired, sent>>
    BY <1>1, <1>8 DEF out2
  <2>8. Ledger(q2, fresh, arg, sent, out2)
    BY <2>3 DEF out2
  <2> QED BY <1>6, <2>5, <2>6, <2>7, <2>8
<1> QED BY <1>7, <1>8

\* Steps that move no message keep the invariant; a value that is given up at a
\* timeout is forgotten.
LEMMA QuietPolicyInv ==
    ASSUME PolicyInv, UNCHANGED <<queue, fresh, sent, got>>, expired \subseteq expired',
           \A s \in Senders : arg'[s] \in {arg[s], NoMsg}
    PROVE  /\ Ledger(queue, fresh, arg, sent, got)'
           /\ Delivers(queue, expired, sent, got)'
           /\ (Ordered => Sorted(queue.data))'
<1>1. Ledger(queue, fresh, arg', sent, got)
  BY DEF PolicyInv, Ledger
<1>2. Delivers(queue, expired', sent, got)
  BY DEF PolicyInv, Delivers
<1> QED BY <1>1, <1>2 DEF PolicyInv

\* Every step keeps the invariant and delivers the best.
LEMMA NextPolicyInv ==
    ASSUME StorageIsPolicyDeque, PolicyInv, [Next]_vars
    PROVE  PolicyInv' /\ BestStep
<1>0. TypeInv' /\ TypeOK
  BY NextTypeInv DEF PolicyInv, TypeInv
<1> DEFINE Goal == /\ Ledger(queue, fresh, arg, sent, got)'
                   /\ Delivers(queue, expired, sent, got)'
                   /\ (Ordered => Sorted(queue.data))' /\ BestStep
<1>1. SUFFICES Goal
  BY <1>0 DEF PolicyInv
<1>2. ASSUME UNCHANGED <<queue, fresh, sent, got>>, expired \subseteq expired',
             \A s \in Senders : arg'[s] \in {arg[s], NoMsg}
      PROVE  Goal
  BY <1>2, QuietPolicyInv DEF BestStep
<1>3. ASSUME NEW s \in Senders, NEW m \in Msg, NEW md, SendCall(s, m, md)
      PROVE  Goal
  <2>1. /\ m \in fresh /\ fresh' \in SUBSET fresh /\ m \notin fresh' /\ Send(s, m, md)
    BY <1>3 DEF SendCall
  <2>2. m \notin Range(sent) /\ \A u \in Senders \ {s} : arg[u] # m
    BY <2>1, MsgAssumption DEF PolicyInv, Ledger
  <2> QED BY <2>1, <2>2, SendPolicyInv DEF BestStep
<1>4. ASSUME NEW s \in Senders, SendResume(s)
      PROVE  Goal
  <2> DEFINE m == arg[s]
  <2>1. m \in Msg /\ fresh' = fresh /\ Send(s, m, mode[s])
    BY <1>0, <1>4 DEF SendResume, TypeOK
  <2>2. /\ m \notin fresh /\ m \notin Range(sent)
        /\ \A u \in Senders \ {s} : arg[u] # m
    BY <2>1, MsgAssumption DEF PolicyInv, Ledger
  <2> HIDE DEF m
  <2>3. fresh' \in SUBSET fresh /\ m \notin fresh'
    BY <2>1, <2>2
  <2> QED BY <2>1, <2>2, <2>3, SendPolicyInv DEF BestStep
<1>5. ASSUME NEW r \in Receivers, NEW md, Recv(r, md)
      PROVE  Goal
  BY <1>5, RecvPolicyInv
<1>6. ASSUME NEW t \in Threads, TimeOut(t) \/ ReturnTimeout(t)
      PROVE  Goal
  <2>1. /\ UNCHANGED <<queue, fresh, sent, got, expired>>
        /\ \A s \in Senders : arg'[s] \in {arg[s], NoMsg}
    BY <1>6 DEF TimeOut, ReturnTimeout, inner
  <2> QED BY <1>2, <2>1
<1>7. ASSUME NEW t, NEW n,
             CloneSender(t, n) \/ CloneReceiver(t, n) \/ DropSender(t) \/ DropReceiver(t)
      PROVE  Goal
  <2>1. UNCHANGED <<queue, fresh, sent, got, expired, arg>>
    BY <1>7 DEF CloneSender, CloneReceiver, DropSender, DropReceiver
  <2> QED BY <1>2, <2>1
<1>8. CASE (\E m \in Expirable : Expire(m)) \/ UNCHANGED vars
  <2>1. UNCHANGED <<queue, fresh, sent, got, arg>> /\ expired \subseteq expired'
    BY <1>8 DEF Expire, vars, inner
  <2> QED BY <1>2, <2>1
<1> HIDE DEF Goal
<1> QED
  BY <1>3, <1>4, <1>5, <1>6, <1>7, <1>8
  DEF Next, SenderNext, ReceiverNext, RecvCall, RecvResume

LEMMA InitPolicyInv ==
    ASSUME StorageIsPolicyDeque, Init
    PROVE  PolicyInv
<1>1. /\ queue = Bounded(Ordered) /\ sent = <<>> /\ got = <<>>
      /\ Ordered \in BOOLEAN /\ \A s \in Senders : arg[s] = NoMsg
  BY DEF Init, StorageIsPolicyDeque, PolicyEmpty
<1>2. /\ queue.data = <<>> /\ Elements(queue) = {} /\ Apart(queue.data)
  BY <1>1, BoundedDeque
<1>3. DOMAIN sent = {} /\ DOMAIN got = {} /\ DOMAIN queue.data = {}
  BY <1>1, <1>2
<1>4. Range(sent) = {} /\ Range(got) = {} /\ Distinct(got) /\ Sorted(queue.data)
  BY <1>3 DEF Range, Distinct, Sorted
<1>5. Ledger(queue, fresh, arg, sent, got)
  BY <1>1, <1>2, <1>4 DEF Ledger
<1>6. Delivers(queue, expired, sent, got)
  BY <1>3 DEF Delivers
<1> QED BY <1>4, <1>5, <1>6, InitTypeInv DEF PolicyInv

\* Nothing is delivered twice, nor without having been accepted, by a policy
\* channel of any capacity, with any policies, priorities and numbers of threads.
THEOREM NothingInventedCorrect ==
    ASSUME StorageIsPolicyDeque
    PROVE  Spec => []NothingInvented
<1>1. Init => PolicyInv
  BY InitPolicyInv
<1>2. PolicyInv /\ [Next]_vars => PolicyInv'
  BY NextPolicyInv
<1>3. PolicyInv => NothingInvented
  BY DEF PolicyInv, Ledger, Range, Distinct, NothingInvented
<1> QED BY <1>1, <1>2, <1>3, PTL DEF Spec

\* DeliveryPolicy::Always: a value a send accepted is delivered, queued, expired
\* or replaced by a later one of its kind, in every state of a policy channel.
THEOREM AlwaysIsDeliveredCorrect ==
    ASSUME StorageIsPolicyDeque
    PROVE  Spec => []AlwaysIsDelivered
<1>1. Init => PolicyInv
  BY InitPolicyInv
<1>2. PolicyInv /\ [Next]_vars => PolicyInv'
  BY NextPolicyInv
<1>3. PolicyInv => AlwaysIsDelivered
  <2> SUFFICES ASSUME Delivers(queue, expired, sent, got) PROVE AlwaysIsDelivered
    BY DEF PolicyInv
  <2> QED BY DEF Delivers, Range, Elements, AlwaysIsDelivered
<1> QED BY <1>1, <1>2, <1>3, PTL DEF Spec

\* A receive never hands out an expired message, and from an ordered channel
\* none but the best that is left.
THEOREM DeliversBestCorrect ==
    ASSUME StorageIsPolicyDeque
    PROVE  Spec => DeliversBest
<1>1. Init => PolicyInv
  BY InitPolicyInv
<1>2. PolicyInv /\ [Next]_vars => PolicyInv' /\ [BestStep]_vars
  BY NextPolicyInv
<1>3. [BestStep]_vars =>
        [got' # got =>
          LET m == got'[Len(got')]
          IN  /\ m \notin expired
              /\ Ordered => \A i \in DOMAIN queue.data :
                    queue.data[i] \notin expired
                        => Priority[m] <= Priority[queue.data[i]] ]_vars
  BY DEF BestStep
<1> QED BY <1>1, <1>2, <1>3, PTL DEF Spec, DeliversBest

=============================================================================
