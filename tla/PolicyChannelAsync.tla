------------------------- MODULE PolicyChannelAsync --------------------------
(***************************************************************************)
(* The async channels over the deque that stores by delivery policy        *)
(* (src/policy_channel_async.rs) and over a VecDeque                       *)
(* (src/channel_async.rs), which does what an unordered policy deque does  *)
(* with messages that are all Always.                                      *)
(***************************************************************************)
EXTENDS BaseChannelAsync, PolicyStorage

\* The Always messages of a sequence, in its order.
AlwaysOf(s) == Retain(s, {i \in DOMAIN s : Policy[s[i]] = "Always"})

\* Always messages are delivered once each and in the order they were accepted
\* in, whatever futures are polled, dropped or overtaken, and those accepted
\* and not delivered are in the queue.
AlwaysInOrder == AlwaysOf(sent) = AlwaysOf(got \o queue.data)

\* No message takes the place of an Always message: those of its kind are
\* neither single-copy nor Latest.
NothingReplacesAlways ==
    \A v, w \in Msg :
        Policy[w] = "Always" /\ EqKind(v, w) => ~IsSingle(v) /\ Policy[v] # "Latest"

=============================================================================
