----------------------------- MODULE BaseChannel -----------------------------
(***************************************************************************)
(* The synchronous bounded channel (src/base_channel.rs), generic over its *)
(* storage as the code is.                                                 *)
(*                                                                         *)
(* Every method of the channel runs under one mutex and gives it up only   *)
(* inside a condition-variable wait, so a step is one critical section:    *)
(* from a call, or from a return of wait, to a return of the call or to    *)
(* the next wait.  A thread owns at most one handle and makes one call at  *)
(* a time.                                                                 *)
(***************************************************************************)
EXTENDS ChannelStorage

CONSTANTS
    Senders,          \* threads that may own a BaseSender
    Receivers         \* threads that may own a BaseReceiver

Threads == Senders \cup Receivers

ASSUME ThreadsAssumption ==
    /\ IsFiniteSet(Senders) /\ IsFiniteSet(Receivers)
    /\ Senders \cap Receivers = {}
    /\ Senders # {} /\ Receivers # {}

VARIABLES
    queue, senders, receivers, \* the fields of InnerData
    st,       \* st[t]: where thread t stands (ThreadState)
    mode,     \* mode[t]: the method a blocked thread t is in
    arg,      \* arg[s]: the value a blocked sender s holds
    ret,      \* ret[t]: the result of the last method t returned from
    fresh,    \* messages no thread has tried to send
    expired,  \* messages whose is_expired() is true
    sent,     \* history: messages a send returned Ok for, in order
    got       \* history: messages a receive returned, in order

inner == <<queue, senders, receivers>>
vars == <<inner, st, mode, arg, ret, fresh, expired, sent, got>>

\* new: the thread has no handle yet; idle: it has one and is in no call;
\* waiting: it is inside wait; woken: a notification chose it, wait has still
\* to take the mutex; timedout: its wait_for ran out; gone: handle dropped.
ThreadState == {"new", "idle", "waiting", "woken", "timedout", "gone"}

Live == {"idle", "waiting", "woken", "timedout"}

Mode == {"block", "timed", "try"}

SendResult == {"Ok", "ChannelClosed", "ChannelSkipped", "ChannelFull", "Timeout"}
RecvResult == {"Ok", "ChannelClosed", "ChannelEmpty", "Timeout"}

-----------------------------------------------------------------------------
\* Condition variables.  Senders wait on space_available and receivers on
\* data_available, so the waiters of each are a set of threads.

Waiting(G) == {t \in G : st[t] = "waiting"}
Woken(G) == {t \in G : st[t] = "woken"}

\* notify_one: the sets of threads one call may wake.
NotifyOne(G) == IF Waiting(G) = {} THEN {{}} ELSE {{w} : w \in Waiting(G)}

\* st after the threads of W were notified and t moved to state x.
Moved(W, t, x) ==
    [u \in Threads |-> IF u = t THEN x ELSE IF u \in W THEN "woken" ELSE st[u]]

\* Thread t returns r from its method, after notifying the threads of W.
Return(t, r, W) ==
    /\ st' = Moved(W, t, "idle")
    /\ mode' = [mode EXCEPT ![t] = "none"]
    /\ ret' = [ret EXCEPT ![t] = r]

\* Thread t enters wait (md = "block") or wait_for (md = "timed").
Wait(t, md) ==
    /\ md # "try"
    /\ st' = Moved({}, t, "waiting")
    /\ mode' = [mode EXCEPT ![t] = md]
    /\ UNCHANGED ret

-----------------------------------------------------------------------------
\* send, send_timeout and try_send: one pass of the loop, from the lock or
\* from a return of wait.

SendClosed(s, m, md) ==
    /\ receivers = 0
    /\ Return(s, "ChannelClosed", {})
    /\ arg' = [arg EXCEPT ![s] = NoMsg]
    /\ UNCHANGED <<queue, sent>>

\* Mutant: notify data_available only when the queue was empty.
SendPushedIfEmpty(s, m, md) ==
    /\ receivers > 0
    /\ TryPush(queue, m, expired).out = "Pushed"
    /\ queue' = TryPush(queue, m, expired).store
    /\ sent' = Append(sent, m)
    /\ \E W \in IF Length(queue) = 0 THEN NotifyOne(Receivers) ELSE {{}} :
          Return(s, "Ok", W)
    /\ arg' = [arg EXCEPT ![s] = NoMsg]

\* Mutant: notify the wrong condition variable.
SendPushedWrongCondvar(s, m, md) ==
    /\ receivers > 0
    /\ TryPush(queue, m, expired).out = "Pushed"
    /\ queue' = TryPush(queue, m, expired).store
    /\ sent' = Append(sent, m)
    /\ \E W \in NotifyOne(Senders) : Return(s, "Ok", W \ {s})
    /\ arg' = [arg EXCEPT ![s] = NoMsg]

SendPushed(s, m, md) ==
    /\ receivers > 0
    /\ TryPush(queue, m, expired).out = "Pushed"
    /\ queue' = TryPush(queue, m, expired).store
    /\ sent' = Append(sent, m)
    /\ \E W \in NotifyOne(Receivers) : Return(s, "Ok", W)
    /\ arg' = [arg EXCEPT ![s] = NoMsg]

SendSkipped(s, m, md) ==
    /\ receivers > 0
    /\ TryPush(queue, m, expired).out = "Skipped"
    /\ queue' = TryPush(queue, m, expired).store
    /\ Return(s, "ChannelSkipped", {})
    /\ arg' = [arg EXCEPT ![s] = NoMsg]
    /\ UNCHANGED sent

SendFull(s, m, md) ==
    /\ receivers > 0
    /\ TryPush(queue, m, expired).out = "Full"
    /\ queue' = TryPush(queue, m, expired).store
    /\ \/ /\ md = "try"
          /\ Return(s, "ChannelFull", {})
          /\ arg' = [arg EXCEPT ![s] = NoMsg]
       \/ /\ Wait(s, md)
          /\ arg' = [arg EXCEPT ![s] = m]
    /\ UNCHANGED sent

Send(s, m, md) ==
    /\ \/ SendClosed(s, m, md)
       \/ SendPushed(s, m, md)
       \/ SendSkipped(s, m, md)
       \/ SendFull(s, m, md)
    /\ UNCHANGED <<senders, receivers, expired, got>>

SendCall(s, m, md) ==
    /\ st[s] = "idle"
    /\ m \in fresh
    /\ fresh' = fresh \ {m}
    /\ Send(s, m, md)

SendResume(s) ==
    /\ st[s] = "woken"
    /\ Send(s, arg[s], mode[s])
    /\ UNCHANGED fresh

-----------------------------------------------------------------------------
\* recv, recv_timeout, try_recv and the receiver's Iterator::next.

\* Mutant: no notification of space_available.
RecvOkSilent(r, md) ==
    /\ Get(queue, expired).val # NoMsg
    /\ got' = Append(got, Get(queue, expired).val)
    /\ Return(r, "Ok", {})

RecvOk(r, md) ==
    /\ Get(queue, expired).val # NoMsg
    /\ got' = Append(got, Get(queue, expired).val)
    /\ \E W \in NotifyOne(Senders) : Return(r, "Ok", W)

\* Mutant: the check of senders comes before the look at the queue.
RecvClosedEager(r, md) ==
    /\ senders = 0
    /\ Return(r, "ChannelClosed", {})
    /\ UNCHANGED got

RecvClosed(r, md) ==
    /\ Get(queue, expired).val = NoMsg
    /\ senders = 0
    /\ Return(r, "ChannelClosed", {})
    /\ UNCHANGED got

RecvEmpty(r, md) ==
    /\ Get(queue, expired).val = NoMsg
    /\ senders > 0
    /\ \/ /\ md = "try"
          /\ Return(r, "ChannelEmpty", {})
       \/ Wait(r, md)
    /\ UNCHANGED got

\* Mutant: the value is read and left in the queue.
RecvPeek(r, md) ==
    /\ UNCHANGED queue
    /\ RecvOk(r, md) \/ RecvClosed(r, md) \/ RecvEmpty(r, md)
    /\ UNCHANGED <<senders, receivers, arg, fresh, expired, sent>>

Recv(r, md) ==
    /\ queue' = Get(queue, expired).store
    /\ RecvOk(r, md) \/ RecvClosed(r, md) \/ RecvEmpty(r, md)
    /\ UNCHANGED <<senders, receivers, arg, fresh, expired, sent>>

RecvCall(r, md) ==
    /\ st[r] = "idle"
    /\ Recv(r, md)

RecvResume(r) ==
    /\ st[r] = "woken"
    /\ Recv(r, mode[r])

-----------------------------------------------------------------------------
\* Mutant: a notified thread may still time out and drop its notification.
TimeOutNotified(t) ==
    /\ st[t] \in {"waiting", "woken"}
    /\ mode[t] = "timed"
    /\ st' = Moved({}, t, "timedout")
    /\ UNCHANGED <<inner, mode, arg, ret, fresh, expired, sent, got>>

\* wait_for runs out while no notification has chosen the thread ...
TimeOut(t) ==
    /\ st[t] = "waiting"
    /\ mode[t] = "timed"
    /\ st' = Moved({}, t, "timedout")
    /\ UNCHANGED <<inner, mode, arg, ret, fresh, expired, sent, got>>

\* ... and, once it has the mutex again, the method returns Timeout without
\* another look at the queue.
ReturnTimeout(t) ==
    /\ st[t] = "timedout"
    /\ Return(t, "Timeout", {})
    /\ arg' = [s \in Senders |-> IF s = t THEN NoMsg ELSE arg[s]]
    /\ UNCHANGED <<inner, fresh, expired, sent, got>>

\* Mutant: a clone is not counted.
CloneSenderUncounted(t, n) ==
    /\ st[t] = "idle" /\ st[n] = "new"
    /\ st' = Moved({}, n, "idle")
    /\ UNCHANGED <<inner, mode, arg, ret, fresh, expired, sent, got>>

\* Clone: thread t gives a new handle to thread n.
CloneSender(t, n) ==
    /\ st[t] = "idle" /\ st[n] = "new"
    /\ senders' = senders + 1
    /\ st' = Moved({}, n, "idle")
    /\ UNCHANGED <<queue, receivers, mode, arg, ret, fresh, expired, sent, got>>

CloneReceiver(t, n) ==
    /\ st[t] = "idle" /\ st[n] = "new"
    /\ receivers' = receivers + 1
    /\ st' = Moved({}, n, "idle")
    /\ UNCHANGED <<queue, senders, mode, arg, ret, fresh, expired, sent, got>>

\* Mutant: the last sender notifies one receiver, not all.
DropSenderNotifyOne(t) ==
    /\ st[t] = "idle"
    /\ senders' = senders - 1
    /\ \E W \in IF senders' = 0 THEN NotifyOne(Receivers) ELSE {{}} :
          st' = Moved(W, t, "gone")
    /\ UNCHANGED <<queue, receivers, mode, arg, ret, fresh, expired, sent, got>>

\* Drop: the last handle of either kind notifies all waiters of data_available.
DropSender(t) ==
    /\ st[t] = "idle"
    /\ senders' = senders - 1
    /\ st' = Moved(IF senders' = 0 THEN Waiting(Receivers) ELSE {}, t, "gone")
    /\ UNCHANGED <<queue, receivers, mode, arg, ret, fresh, expired, sent, got>>

DropReceiver(t) ==
    /\ st[t] = "idle"
    /\ receivers' = receivers - 1
    /\ st' = Moved(IF receivers' = 0 THEN Waiting(Receivers) ELSE {}, t, "gone")
    /\ UNCHANGED <<queue, senders, mode, arg, ret, fresh, expired, sent, got>>

\* The time-to-live of a message runs out.
Expire(m) ==
    /\ m \notin expired
    /\ expired' = expired \cup {m}
    /\ UNCHANGED <<inner, st, mode, arg, ret, fresh, sent, got>>

-----------------------------------------------------------------------------
\* make_channel: one sender and one receiver, owned by one thread each.
Init ==
    /\ queue = EmptyStore
    /\ senders = 1
    /\ receivers = 1
    /\ \E s \in Senders, r \in Receivers :
          st = [t \in Threads |-> IF t \in {s, r} THEN "idle" ELSE "new"]
    /\ mode = [t \in Threads |-> "none"]
    /\ arg = [s \in Senders |-> NoMsg]
    /\ ret = [t \in Threads |-> "none"]
    /\ fresh = Msg
    /\ expired = {}
    /\ sent = <<>>
    /\ got = <<>>

SenderNext(s) ==
    \/ \E m \in Msg, md \in Mode : SendCall(s, m, md)
    \/ SendResume(s)
    \/ \E n \in Senders : CloneSender(s, n)
    \/ DropSender(s)

ReceiverNext(r) ==
    \/ \E md \in Mode : RecvCall(r, md)
    \/ RecvResume(r)
    \/ \E n \in Receivers : CloneReceiver(r, n)
    \/ DropReceiver(r)

Next ==
    \/ \E s \in Senders : SenderNext(s)
    \/ \E r \in Receivers : ReceiverNext(r)
    \/ \E t \in Threads : TimeOut(t) \/ ReturnTimeout(t)
    \/ \E m \in Expirable : Expire(m)

Spec == Init /\ [][Next]_vars

\* A notified or timed-out thread gets the processor and the mutex some day,
\* and the application keeps receiving as long as it holds a receiver.
Fairness ==
    /\ \A s \in Senders : WF_vars(SendResume(s))
    /\ \A r \in Receivers : /\ WF_vars(RecvResume(r))
                            /\ WF_vars(\E md \in Mode : RecvCall(r, md))
    /\ \A t \in Threads : WF_vars(ReturnTimeout(t))

FairSpec == Spec /\ Fairness

-----------------------------------------------------------------------------
TypeOK ==
    /\ queue \in Stores
    /\ senders \in 0..Cardinality(Senders)
    /\ receivers \in 0..Cardinality(Receivers)
    /\ st \in [Threads -> ThreadState]
    /\ mode \in [Threads -> {"none", "block", "timed"}]
    /\ arg \in [Senders -> Msg \cup {NoMsg}]
    /\ \A s \in Senders : st[s] \in {"waiting", "woken"} => arg[s] \in Msg
    /\ ret \in [Threads -> SendResult \cup RecvResult \cup {"none"}]
    /\ fresh \in SUBSET Msg
    /\ expired \in SUBSET Expirable
    /\ sent \in Seq(Msg)
    /\ got \in Seq(Msg)

\* The counters of InnerData are the numbers of live handles, however clones,
\* drops and calls interleave (BaseSender/BaseReceiver clone and drop).
HandleCount ==
    /\ senders = Cardinality({s \in Senders : st[s] \in Live})
    /\ receivers = Cardinality({r \in Receivers : st[r] \in Live})

\* No lost wakeup of data_available: while a receiver is blocked in recv or
\* recv_timeout, at least as many receivers are on their way to the queue as
\* there are elements in it.
NoLostData ==
    Waiting(Receivers) # {} => Cardinality(Woken(Receivers)) >= Length(queue)

\* The last drop of a sender reaches every receiver: none stays blocked on a
\* channel that nobody can send to any more.
ClosedWakesReceivers == senders = 0 => Waiting(Receivers) = {}

\* The mirror image, for the last drop of a receiver and blocked senders.
ClosedWakesSenders == receivers = 0 => Waiting(Senders) = {}

\* End of stream is final: a receiver told ChannelClosed has left nothing
\* behind and nothing will follow; a sender told so will never be read.
ClosedIsFinal ==
    /\ \A r \in Receivers :
          ret[r] = "ChannelClosed" => senders = 0 /\ Length(queue) = 0
    /\ \A s \in Senders : ret[s] = "ChannelClosed" => receivers = 0

\* No lost wakeup of space_available: while a sender is blocked, at least as
\* many senders are on their way to the queue as it has room for.
NoLostSpace ==
    receivers > 0 /\ Waiting(Senders) # {}
        => Cardinality(Woken(Senders)) >= Capacity - Length(queue)

\* A blocked sender gets on as long as some receiver keeps receiving.
SenderProgress ==
    \A s \in Senders : st[s] = "waiting" ~> (st[s] # "waiting" \/ receivers = 0)

=============================================================================
