-------------------------- MODULE BaseChannelAsync ---------------------------
(***************************************************************************)
(* The asynchronous bounded channel (src/base_channel_async.rs), generic   *)
(* over its storage as the code is.  It serves futures and blocking calls  *)
(* at once: both kinds of waiters stand in one queue per side, a future by *)
(* its waker and its operation id, a blocking call by an entry None that   *)
(* stands for one notify_one of the side's condition variable.             *)
(*                                                                         *)
(* A client is a task or a thread that owns at most one handle and runs    *)
(* one operation at a time.  A step is one critical section: a poll, the   *)
(* drop of a future, or a blocking call from the lock, or a return of      *)
(* wait, to its return or to the next wait.                                *)
(***************************************************************************)
EXTENDS ChannelStorage, SequencesExt

CONSTANTS
    Senders,    \* clients that may own a BaseSenderAsync
    Receivers,  \* clients that may own a BaseReceiverAsync
    Gens,       \* tells the operations of one client apart
    MaxEntries  \* bound: no timeout while its queue of waiters is longer

Clients == Senders \cup Receivers
Side == {"send", "recv"}
Group(sd) == IF sd = "send" THEN Senders ELSE Receivers

ASSUME ClientsAssumption ==
    /\ IsFiniteSet(Senders) /\ IsFiniteSet(Receivers)
    /\ Senders \cap Receivers = {}
    /\ Gens \subseteq Nat \ {0} /\ Gens # {}
    /\ MaxEntries \in Nat

VARIABLES
    queue, senders, receivers, \* fields of InnerData
    wk,       \* wk[sd]: send_fut_* and recv_fut_* of InnerData (Waiters)
    st,       \* st[c]: where client c stands (ClientState)
    timed,    \* timed[c]: the blocking call c waits in has a timeout
    gen,      \* gen[c]: with c, the id of the future c owns; 0 for none
    arg,      \* arg[s]: the value a suspended sender holds
    fresh,    \* messages nobody has tried to send
    sent,     \* history: messages a send returned Ok for, in order
    got,      \* history: messages a receive returned, in order
    clean     \* history: EntriesAreWaiters has held so far

inner == <<queue, senders, receivers>>
vars == <<inner, wk, st, timed, gen, arg, fresh, sent, got, clean>>

\* pending: a future returned Pending and its waker was not called since;
\* woken: it was called; waiting, signalled, timedout: a blocking call inside
\* wait, chosen by a notification, or past its timeout; the others as in
\* BaseChannel.
ClientState ==
    {"new", "idle", "gone", "pending", "woken", "waiting", "signalled", "timedout"}

Live == ClientState \ {"new", "gone"}

\* An operation id, from op_id(): the owner of its waker is part of it.  An id
\* is used again only when no future, queue or set holds it any more.
Id(c) == <<c, gen[c]>>
Ids == Clients \X Gens

\* The entry of a blocking call, None.
SyncWaker == <<>>

Asleep(sd) == {c \in Group(sd) : st[c] \in {"pending", "waiting"}}
OnTheWay(sd) == {c \in Group(sd) : st[c] \in {"woken", "signalled"}}
Waiting(sd) == {c \in Group(sd) : st[c] = "waiting"}

-----------------------------------------------------------------------------
\* The waiters of one side: wakers is the queue *_fut_wakers, ids the set
\* *_fut_waker_ids, pending the set *_fut_pending.

Waiters ==
    [wakers : Seq(Ids \cup {SyncWaker}), ids : SUBSET Ids, pending : SUBSET Ids]

NoWaiters == [wakers |-> <<>>, ids |-> {}, pending |-> {}]

\* confirm_send_fut_waked, confirm_recv_fut_waked
Confirm(w, id) == [w EXCEPT !.pending = @ \ {id}]

\* Mutant: the entry is appended again by every poll.
AppendFutTwice(w, id) ==
    [w EXCEPT !.ids = @ \cup {id}, !.wakers = Append(@, id)]

\* append_send_fut_waker, append_recv_fut_waker
AppendFut(w, id) ==
    IF id \in w.ids THEN w
    ELSE [wakers |-> Append(w.wakers, id), ids |-> w.ids \cup {id}, pending |-> w.pending]

\* append_send_sync_waker, append_recv_sync_waker
AppendSync(w) == [w EXCEPT !.wakers = Append(@, SyncWaker)]

\* wake_next_send, wake_next_recv: the waiters after it ...
WakeNext(w) ==
    IF w.wakers = <<>> THEN w
    ELSE IF Head(w.wakers) = SyncWaker THEN [w EXCEPT !.wakers = Tail(@)]
    ELSE [wakers |-> Tail(w.wakers),
          ids |-> w.ids \ {Head(w.wakers)},
          pending |-> w.pending \cup {Head(w.wakers)}]

\* ... and the sets of clients one call may reach.
Reached(w, sd) ==
    IF w.wakers = <<>> THEN {{}}
    ELSE IF Head(w.wakers) # SyncWaker THEN {{Head(w.wakers)[1]}}
    ELSE IF Waiting(sd) = {} THEN {{}}
    ELSE {{c} : c \in Waiting(sd)}

\* Mutant: the blocking calls are forgotten.
AllReachedFutures(sd) ==
    {e[1] : e \in {wk[sd].wakers[i] : i \in DOMAIN wk[sd].wakers} \ {SyncWaker}}

\* wake_all_sends, wake_all_recvs
WakeAll(w) == [wakers |-> <<>>, ids |-> {}, pending |-> w.pending]

AllReached(sd) ==
    Waiting(sd) \cup
    {e[1] : e \in {wk[sd].wakers[i] : i \in DOMAIN wk[sd].wakers} \ {SyncWaker}}

\* The positions of an operation's entry.
At(w, id) == {i \in DOMAIN w.wakers : w.wakers[i] = id}

\* notify_send_fut_drop, notify_recv_fut_drop up to the wakeup that is passed
\* on: the first entry of the future is removed, if it has one.
Forget(w, id) ==
    IF At(w, id) = {} THEN Confirm(w, id)
    ELSE [wakers |-> RemoveAt(w.wakers, Min(At(w, id))),
          ids |-> w.ids \ {id}, pending |-> w.pending \ {id}]

\* st after the clients of W were reached and c moved to state x.  A waker
\* makes its task poll the future it has now, if it has one.
Moved(W, c, x) ==
    [u \in Clients |->
        IF u = c THEN x
        ELSE IF u \in W /\ st[u] = "pending" THEN "woken"
        ELSE IF u \in W /\ st[u] = "waiting" THEN "signalled"
        ELSE st[u]]

\* Client c's operation ends, after the clients of W were reached.
Finish(c, W) ==
    /\ st' = Moved(W, c, "idle")
    /\ timed' = [timed EXCEPT ![c] = FALSE]
    /\ gen' = [gen EXCEPT ![c] = 0]
    /\ arg' = [s \in Senders |-> IF s = c THEN NoMsg ELSE arg[s]]

\* Poll::Pending of the future with generation g.
Suspend(c, g, m) ==
    /\ st' = Moved({}, c, "pending")
    /\ gen' = [gen EXCEPT ![c] = g]
    /\ arg' = [s \in Senders |-> IF s = c THEN m ELSE arg[s]]
    /\ UNCHANGED timed

\* wait, wait_for
Block(c, t, m) ==
    /\ st' = Moved({}, c, "waiting")
    /\ timed' = [timed EXCEPT ![c] = t]
    /\ arg' = [s \in Senders |-> IF s = c THEN m ELSE arg[s]]
    /\ UNCHANGED gen

-----------------------------------------------------------------------------
\* Sending.  w is the send side of wk as the operation has left it so far.

SendClosed(s, w) ==
    /\ receivers = 0
    /\ wk' = [wk EXCEPT !.send = w]
    /\ Finish(s, {})
    /\ UNCHANGED <<queue, sent>>

SendPushed(s, m, w) ==
    /\ receivers > 0
    /\ TryPush(queue, m, {}).out = "Pushed"
    /\ queue' = TryPush(queue, m, {}).store
    /\ sent' = Append(sent, m)
    /\ wk' = [send |-> w, recv |-> WakeNext(wk.recv)]
    /\ \E W \in Reached(wk.recv, "recv") : Finish(s, W)

\* notify: send_blocking_timeout notifies before it looks at the result.
SendSkipped(s, m, w, notify) ==
    /\ receivers > 0
    /\ TryPush(queue, m, {}).out = "Skipped"
    /\ wk' = [send |-> w,
              recv |-> IF notify THEN WakeNext(wk.recv) ELSE wk.recv]
    /\ \E W \in IF notify THEN Reached(wk.recv, "recv") ELSE {{}} : Finish(s, W)
    /\ UNCHANGED <<queue, sent>>

Full(m) == receivers > 0 /\ TryPush(queue, m, {}).out = "Full"

\* Send::poll of the future <<s, g>>; a future that was polled before is queued.
SendPoll(s, m, g, queued) ==
    LET w == IF queued THEN Confirm(wk.send, <<s, g>>) ELSE wk.send
        tries == queued \/ wk.send.wakers = <<>>
    IN  \/ SendClosed(s, w)
        \/ tries /\ SendPushed(s, m, w)
        \/ tries /\ SendSkipped(s, m, w, FALSE)
        \/ /\ receivers > 0 /\ (tries => Full(m))
           /\ wk' = [wk EXCEPT !.send = AppendFut(w, <<s, g>>)]
           /\ Suspend(s, g, m)
           /\ UNCHANGED <<queue, sent>>

\* One pass of the loop of send_blocking, send_blocking_timeout; try_send.
SendSync(s, m, md) ==
    \/ SendClosed(s, wk.send)
    \/ SendPushed(s, m, wk.send)
    \/ SendSkipped(s, m, wk.send, md = "timed")
    \/ Full(m) /\ md = "try" /\ Finish(s, {}) /\ UNCHANGED <<queue, wk, sent>>
    \/ /\ Full(m) /\ md # "try"
       /\ wk' = [wk EXCEPT !.send = AppendSync(@)]
       /\ Block(s, md = "timed", m)
       /\ UNCHANGED <<queue, sent>>

SendFrame == UNCHANGED <<senders, receivers, got>>

\* The id of a new future of client c.
NewGen(c, sd) ==
    LET free == {g \in Gens : <<c, g>> \notin wk[sd].ids \cup wk[sd].pending}
    IN  {g \in free : \A h \in free : g <= h}

SendAsync(s, m) ==
    /\ st[s] = "idle" /\ m \in fresh
    /\ fresh' = fresh \ {m}
    /\ \E g \in NewGen(s, "send") : SendPoll(s, m, g, FALSE)
    /\ SendFrame

\* The task of a suspended future polls it, because it was woken or not.
SendRepoll(s) ==
    /\ st[s] \in {"pending", "woken"}
    /\ SendPoll(s, arg[s], gen[s], TRUE)
    /\ UNCHANGED fresh
    /\ SendFrame

SendCall(s, m, md) ==
    /\ st[s] = "idle" /\ m \in fresh
    /\ fresh' = fresh \ {m}
    /\ SendSync(s, m, md)
    /\ SendFrame

SendResume(s) ==
    /\ st[s] = "signalled"
    /\ SendSync(s, arg[s], IF timed[s] THEN "timed" ELSE "block")
    /\ UNCHANGED fresh
    /\ SendFrame

-----------------------------------------------------------------------------
\* Receiving.

RecvOk(r, w) ==
    /\ Get(queue, {}).val # NoMsg
    /\ got' = Append(got, Get(queue, {}).val)
    /\ wk' = [send |-> WakeNext(wk.send), recv |-> w]
    /\ \E W \in Reached(wk.send, "send") : Finish(r, W)

RecvClosed(r, w) ==
    /\ Get(queue, {}).val = NoMsg /\ senders = 0
    /\ wk' = [wk EXCEPT !.recv = w]
    /\ Finish(r, {})
    /\ UNCHANGED got

Empty == Get(queue, {}).val = NoMsg /\ senders > 0

\* Recv::poll
RecvPoll(r, g, queued) ==
    LET w == IF queued THEN Confirm(wk.recv, <<r, g>>) ELSE wk.recv
        tries == queued \/ wk.recv.wakers = <<>>
    IN  \/ /\ tries
           /\ RecvOk(r, w) \/ RecvClosed(r, w)
           /\ queue' = Get(queue, {}).store
        \/ /\ tries => Empty
           /\ wk' = [wk EXCEPT !.recv = AppendFut(w, <<r, g>>)]
           /\ Suspend(r, g, NoMsg)
           /\ queue' = IF tries THEN Get(queue, {}).store ELSE queue
           /\ UNCHANGED got

\* One pass of the loop of recv_blocking, recv_blocking_timeout; try_recv.
RecvSync(r, md) ==
    /\ queue' = Get(queue, {}).store
    /\ \/ RecvOk(r, wk.recv)
       \/ RecvClosed(r, wk.recv)
       \/ Empty /\ md = "try" /\ Finish(r, {}) /\ UNCHANGED <<wk, got>>
       \/ /\ Empty /\ md # "try"
          /\ wk' = [wk EXCEPT !.recv = AppendSync(@)]
          /\ Block(r, md = "timed", NoMsg)
          /\ UNCHANGED got

RecvFrame == UNCHANGED <<senders, receivers, fresh, sent>>

RecvAsync(r) ==
    /\ st[r] = "idle"
    /\ \E g \in NewGen(r, "recv") : RecvPoll(r, g, FALSE)
    /\ RecvFrame

RecvRepoll(r) ==
    /\ st[r] \in {"pending", "woken"}
    /\ RecvPoll(r, gen[r], TRUE)
    /\ RecvFrame

RecvCall(r, md) ==
    /\ st[r] = "idle"
    /\ RecvSync(r, md)
    /\ RecvFrame

RecvResume(r) ==
    /\ st[r] = "signalled"
    /\ RecvSync(r, IF timed[r] THEN "timed" ELSE "block")
    /\ RecvFrame

-----------------------------------------------------------------------------
\* Mutant: a woken future that is dropped keeps the wakeup to itself.
DropFutureSilently(c, sd) ==
    /\ st[c] \in {"pending", "woken"}
    /\ wk' = [wk EXCEPT ![sd] = Forget(@, Id(c))]
    /\ Finish(c, {})
    /\ UNCHANGED <<inner, fresh, sent, got>>

\* PinnedDrop of Send, Drop of Recv: a suspended future is given up.
DropFuture(c, sd) ==
    LET w == Forget(wk[sd], Id(c))
        pass == Id(c) \in wk[sd].pending
    IN  /\ st[c] \in {"pending", "woken"}
        /\ wk' = [wk EXCEPT ![sd] = IF pass THEN WakeNext(w) ELSE w]
        /\ \E W \in IF pass THEN Reached(w, sd) ELSE {{}} : Finish(c, W)
        /\ UNCHANGED <<inner, fresh, sent, got>>

\* wait_for of a blocking call runs out; its entry stays in the queue ...
TimeOut(c, sd) ==
    /\ st[c] = "waiting" /\ timed[c]
    /\ Len(wk[sd].wakers) <= MaxEntries
    /\ st' = Moved({}, c, "timedout")
    /\ UNCHANGED <<inner, wk, timed, gen, arg, fresh, sent, got>>

\* ... and the call returns Timeout once it has the mutex.
ReturnTimeout(c) ==
    /\ st[c] = "timedout"
    /\ Finish(c, {})
    /\ UNCHANGED <<inner, wk, fresh, sent, got>>

\* Mutant: the new handle is not counted.
CloneSenderUncounted(c, n) ==
    /\ st[c] = "idle" /\ st[n] = "new"
    /\ st' = Moved({}, n, "idle")
    /\ UNCHANGED <<inner, wk, timed, gen, arg, fresh, sent, got>>

CloneSender(c, n) ==
    /\ st[c] = "idle" /\ st[n] = "new"
    /\ senders' = senders + 1
    /\ st' = Moved({}, n, "idle")
    /\ UNCHANGED <<queue, receivers, wk, timed, gen, arg, fresh, sent, got>>

CloneReceiver(c, n) ==
    /\ st[c] = "idle" /\ st[n] = "new"
    /\ receivers' = receivers + 1
    /\ st' = Moved({}, n, "idle")
    /\ UNCHANGED <<queue, senders, wk, timed, gen, arg, fresh, sent, got>>

DropSender(c) ==
    /\ st[c] = "idle"
    /\ senders' = senders - 1
    /\ wk' = IF senders' = 0 THEN [wk EXCEPT !.recv = WakeAll(@)] ELSE wk
    /\ st' = Moved(IF senders' = 0 THEN AllReached("recv") ELSE {}, c, "gone")
    /\ UNCHANGED <<queue, receivers, timed, gen, arg, fresh, sent, got>>

DropReceiver(c) ==
    /\ st[c] = "idle"
    /\ receivers' = receivers - 1
    /\ wk' = IF receivers' = 0 THEN [wk EXCEPT !.send = WakeAll(@)] ELSE wk
    /\ st' = Moved(IF receivers' = 0 THEN AllReached("send") ELSE {}, c, "gone")
    /\ UNCHANGED <<queue, senders, timed, gen, arg, fresh, sent, got>>

-----------------------------------------------------------------------------
Init ==
    /\ queue = EmptyStore
    /\ senders = 1 /\ receivers = 1
    /\ wk = [sd \in Side |-> NoWaiters]
    /\ \E s \in Senders, r \in Receivers :
          st = [c \in Clients |-> IF c \in {s, r} THEN "idle" ELSE "new"]
    /\ timed = [c \in Clients |-> FALSE]
    /\ gen = [c \in Clients |-> 0]
    /\ arg = [s \in Senders |-> NoMsg]
    /\ fresh = Msg
    /\ sent = <<>> /\ got = <<>>
    /\ clean = TRUE

SenderNext(s) ==
    \/ \E m \in Msg : SendAsync(s, m)
    \/ \E m \in Msg, md \in {"block", "timed", "try"} : SendCall(s, m, md)
    \/ SendRepoll(s) \/ SendResume(s) \/ DropFuture(s, "send")
    \/ TimeOut(s, "send") \/ ReturnTimeout(s)
    \/ \E n \in Senders : CloneSender(s, n)
    \/ DropSender(s)

ReceiverNext(r) ==
    \/ RecvAsync(r)
    \/ \E md \in {"block", "timed", "try"} : RecvCall(r, md)
    \/ RecvRepoll(r) \/ RecvResume(r) \/ DropFuture(r, "recv")
    \/ TimeOut(r, "recv") \/ ReturnTimeout(r)
    \/ \E n \in Receivers : CloneReceiver(r, n)
    \/ DropReceiver(r)

\* The entries of the queues are waiters: as many None as blocking calls that
\* wait, and of futures only those that are pending.
EntriesAreWaiters ==
    \A sd \in Side :
        LET E == wk[sd].wakers
        IN  /\ Cardinality({i \in DOMAIN E : E[i] = SyncWaker}) = Cardinality(Waiting(sd))
            /\ \A i \in DOMAIN E :
                  E[i] # SyncWaker => st[E[i][1]] = "pending" /\ E[i] = Id(E[i][1])

Next ==
    /\ \/ \E s \in Senders : SenderNext(s)
       \/ \E r \in Receivers : ReceiverNext(r)
    /\ clean' = (clean /\ EntriesAreWaiters')

Spec == Init /\ [][Next]_vars

-----------------------------------------------------------------------------
TypeOK ==
    /\ queue \in Stores
    /\ senders = Cardinality({s \in Senders : st[s] \in Live})
    /\ receivers = Cardinality({r \in Receivers : st[r] \in Live})
    /\ wk \in [Side -> Waiters]
    /\ st \in [Clients -> ClientState]
    /\ timed \in [Clients -> BOOLEAN]
    /\ gen \in [Clients -> Gens \cup {0}]
    /\ arg \in [Senders -> Msg \cup {NoMsg}]
    /\ \A s \in Senders :
          st[s] \in {"pending", "woken", "waiting", "signalled"} => arg[s] \in Msg
    /\ fresh \subseteq Msg

\* The three records of the waiting futures agree: the set of queued ids is
\* what the queue holds, each once, nobody is queued and woken at a time, every
\* pending future is queued, and, as long as the entries are waiters, an id
\* in *_fut_pending belongs to a future that was woken and not polled since.
BooksAgree ==
    \A sd \in Side :
        LET w == wk[sd]
            fut == {i \in DOMAIN w.wakers : w.wakers[i] # SyncWaker}
        IN  /\ w.ids = {w.wakers[i] : i \in fut}
            /\ Cardinality(w.ids) = Cardinality(fut)
            /\ w.ids \cap w.pending = {}
            /\ \A c \in Group(sd) : st[c] = "pending" => Id(c) \in w.ids
            /\ clean => \A p \in w.pending : st[p[1]] = "woken" /\ p = Id(p[1])

\* No lost wakeup of a receiver, be it a future or a blocking call: while one
\* sleeps, at least as many are on their way as there are elements.
NoLostData ==
    clean /\ Asleep("recv") # {} => Cardinality(OnTheWay("recv")) >= Length(queue)

\* No lost wakeup of a sender: while one sleeps, at least as many are on their
\* way as there are free slots.
NoLostSpace ==
    clean /\ receivers > 0 /\ Asleep("send") # {}
        => Cardinality(OnTheWay("send")) >= Capacity - Length(queue)

\* The asserts at the end of test_delivery ("assert!(data.send_fut_wakers
\* .is_empty())" and its five companions): when every operation has ended,
\* nothing is left in the queues and sets of waiters.
IdleLeavesNothing ==
    (\A c \in Clients : st[c] \in {"new", "idle", "gone"})
        => wk = [sd \in Side |-> NoWaiters]

\* The last drop of a handle reaches everyone who sleeps on the other side.
ClosedWakesAll ==
    /\ senders = 0 => Asleep("recv") = {}
    /\ receivers = 0 => Asleep("send") = {}

=============================================================================
