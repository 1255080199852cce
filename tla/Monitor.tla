------------------------------- MODULE Monitor -------------------------------
(***************************************************************************)
(* What the users of a mutex and a condition variable rely on              *)
(* (src/condvar_api.rs, as base_channel.rs and the cells use it): wait     *)
(* gives up the mutex and joins the waiters in one step, notify_one called *)
(* with the mutex held wakes a waiter if there is one, notify_all leaves   *)
(* none, and a wait returns, notified or timed out, with the mutex held.   *)
(* The holder may hand the mutex to another thread, as a guard that is     *)
(* Send allows; nothing in the crate does.                                 *)
(***************************************************************************)
CONSTANTS Threads, NoThread

VARIABLES
    holder,   \* the thread that holds the mutex, or NoThread
    cond,     \* cond[t]: "out", "waiting", "woken" or "timedout"
    notify    \* notify[t]: the notification t is carrying out, or "none"

vars == <<holder, cond, notify>>

Waiting == {t \in Threads : cond[t] = "waiting"}

Init ==
    /\ holder = NoThread
    /\ cond = [t \in Threads |-> "out"]
    /\ notify = [t \in Threads |-> "none"]

Lock(t) ==
    /\ holder = NoThread /\ cond[t] = "out"
    /\ holder' = t
    /\ UNCHANGED <<cond, notify>>

Unlock(t) ==
    /\ holder = t /\ notify[t] = "none"
    /\ holder' = NoThread
    /\ UNCHANGED <<cond, notify>>

Pass(t, u) ==
    /\ holder = t /\ notify[t] = "none" /\ cond[u] = "out"
    /\ holder' = u
    /\ UNCHANGED <<cond, notify>>

Wait(t) ==
    /\ holder = t /\ notify[t] = "none"
    /\ holder' = NoThread
    /\ cond' = [cond EXCEPT ![t] = "waiting"]
    /\ UNCHANGED notify

TimeOut(t) ==
    /\ cond[t] = "waiting"
    /\ cond' = [cond EXCEPT ![t] = "timedout"]
    /\ UNCHANGED <<holder, notify>>

Reacquire(t) ==
    /\ holder = NoThread /\ cond[t] \in {"woken", "timedout"}
    /\ holder' = t
    /\ cond' = [cond EXCEPT ![t] = "out"]
    /\ UNCHANGED notify

NotifyCall(t, k) ==
    /\ holder = t /\ notify[t] = "none"
    /\ notify' = [notify EXCEPT ![t] = k]
    /\ UNCHANGED <<holder, cond>>

\* notify_one returns with the one waiter it wakes.
WakeOne(t, w) ==
    /\ notify[t] = "one" /\ w \in Waiting
    /\ cond' = [cond EXCEPT ![w] = "woken"]
    /\ notify' = [notify EXCEPT ![t] = "none"]
    /\ UNCHANGED holder

\* notify_all wakes the waiters, in one go or in several.
WakeSome(t, W) ==
    /\ notify[t] = "all" /\ W \subseteq Waiting
    /\ cond' = [u \in Threads |-> IF u \in W THEN "woken" ELSE cond[u]]
    /\ notify' \in {notify, [notify EXCEPT ![t] = "none"]}
    /\ notify'[t] = "none" => W = Waiting
    /\ UNCHANGED holder

NotifyNobody(t) ==
    /\ notify[t] # "none" /\ Waiting = {}
    /\ notify' = [notify EXCEPT ![t] = "none"]
    /\ UNCHANGED <<holder, cond>>

Next ==
    \E t \in Threads :
        \/ Lock(t) \/ Unlock(t) \/ Wait(t) \/ TimeOut(t) \/ Reacquire(t)
        \/ \E k \in {"one", "all"} : NotifyCall(t, k)
        \/ \E u \in Threads : Pass(t, u) \/ WakeOne(t, u)
        \/ \E W \in SUBSET Threads : WakeSome(t, W)
        \/ NotifyNobody(t)

Spec == Init /\ [][Next]_vars

=============================================================================
