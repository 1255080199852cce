------------------------------- MODULE DequeUse ------------------------------
(***************************************************************************)
(* A pdeque::Deque used directly: values are pushed, taken and cleared in  *)
(* any order while their lifetimes run out.                                *)
(***************************************************************************)
EXTENDS PolicyDeque

VARIABLES
    deque,
    expired,  \* values whose is_expired() is true
    fresh,    \* values not pushed yet
    op,       \* the last operation: its name, value and result
    stored    \* history: the values in the deque in the order they entered it

vars == <<deque, expired, fresh, op, stored>>

\* The values of s that are in d.
Present(s, d) == Retain(s, {i \in DOMAIN s : s[i] \in Elements(d)})

Init ==
    /\ deque \in {Bounded(o) : o \in BOOLEAN}
    /\ expired = {}
    /\ fresh = Msg
    /\ op = [name |-> "bounded", val |-> NoMsg, out |-> "none"]
    /\ stored = <<>>

Push(v) ==
    LET p == DequeTryPush(deque, v, expired) IN
    /\ v \in fresh
    /\ fresh' = IF p.out = "Full" THEN fresh ELSE fresh \ {v} \* Full(value) hands it back
    /\ deque' = p.store
    /\ op' = [name |-> "try_push", val |-> v, out |-> p.out]
    /\ stored' = Present(Append(stored, v), p.store)
    /\ UNCHANGED expired

Pop ==
    LET g == DequeGet(deque, expired) IN
    /\ deque' = g.store
    /\ op' = [name |-> "get", val |-> g.val, out |-> "none"]
    /\ stored' = Present(stored, g.store)
    /\ UNCHANGED <<expired, fresh>>

Clear ==
    /\ deque' = DequeClear(deque)
    /\ op' = [name |-> "clear", val |-> NoMsg, out |-> "none"]
    /\ stored' = <<>>
    /\ UNCHANGED <<expired, fresh>>

Expire(v) ==
    /\ v \notin expired
    /\ expired' = expired \cup {v}
    /\ UNCHANGED <<deque, fresh, op, stored>>

Next ==
    \/ \E v \in Msg : Push(v)
    \/ Pop
    \/ Clear
    \/ \E v \in Expirable : Expire(v)

Spec == Init /\ [][Next]_vars

-----------------------------------------------------------------------------
\* Also: the deque never outgrows its capacity, whatever a push finds to remove;
\* VecDeque itself would just grow.
TypeOK ==
    /\ deque \in DequeStores(TRUE) \cup DequeStores(FALSE)
    /\ expired \subseteq Expirable
    /\ fresh \subseteq Msg

\* assert!(v.as_slices().1.is_empty()) of sort_by_priority never fails: an
\* ordered deque lies in its ring in one piece.
Contiguous == deque.ordered => Wrapped(deque) = 0

\* Without ordering values come out in the order they were stored in, however
\* many were evicted or replaced in between.
ArrivalOrder == ~deque.ordered => deque.data = stored

\* "always in a single copy (latest)": two single-copy values of one kind are
\* never in the deque together.
SingleCopy ==
    \A i, j \in DOMAIN deque.data :
        i # j /\ IsSingle(deque.data[i]) /\ IsSingle(deque.data[j])
            => ~EqKind(deque.data[i], deque.data[j])

\* What a step may never do: lose a value that is neither expired nor optional,
\* other than by handing it out, by clear, or for a value of the same kind
\* whose policy replaces; nor refuse or skip a value while changing the deque.
NoSilentLoss ==
    [][ /\ \A v \in Elements(deque) \ Elements(deque') :
             \/ v \in expired \/ IsOptional(v)
             \/ op'.name = "get" /\ op'.val = v
             \/ op'.name = "clear"
             \/ EqKind(op'.val, v) /\ op'.val \in Elements(deque')
                  /\ (IsSingle(op'.val) \/ Policy[op'.val] = "Latest")
        /\ op'.out \in {"Full", "Skipped"} => deque' = deque ]_vars

=============================================================================
