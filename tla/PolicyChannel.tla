---------------------------- MODULE PolicyChannel ----------------------------
(***************************************************************************)
(* The policy channel (src/policy_channel.rs): BaseChannel over the deque  *)
(* that stores by delivery policy.                                         *)
(***************************************************************************)
EXTENDS BaseChannel, PolicyStorage

-----------------------------------------------------------------------------
\* Nothing is delivered twice and nothing is delivered that no send accepted,
\* whatever is evicted, replaced or sorted on the way.
NothingInvented ==
    \A i \in DOMAIN got :
        /\ \E j \in DOMAIN sent : sent[j] = got[i]
        /\ \A j \in DOMAIN got : got[i] = got[j] => i = j

\* An accepted Always value that has not expired is delivered or still queued,
\* unless a later value of its kind whose policy replaces took its place.
AlwaysIsDelivered ==
    \A i \in DOMAIN sent :
        LET m == sent[i]
        IN  \/ Policy[m] # "Always" \/ m \in expired
            \/ \E j \in DOMAIN got : got[j] = m
            \/ \E j \in DOMAIN queue.data : queue.data[j] = m
            \/ \E j \in DOMAIN sent : /\ j > i /\ EqKind(sent[j], m)
                                      /\ IsSingle(sent[j]) \/ Policy[sent[j]] = "Latest"

\* DeliveryPolicy::Always, "always deliver, fail if no room": a sender is not
\* left blocked with such a value when there is room for it, a receiver is
\* blocked for data, and no wakeup is under way that could bring them together.
AlwaysIsNotHeldUp ==
    \A s \in Waiting(Senders) :
        Policy[arg[s]] = "Always" /\ arg[s] \notin expired /\ Length(queue) < Capacity
            => Waiting(Receivers) = {} \/ Woken(Threads) # {}

\* "If a frame expires during storing/delivering, it is not delivered": a step
\* never hands out a message that has expired, nor, from an ordered channel,
\* any but the best that is left.
DeliversBest ==
    [][ got' # got =>
          LET m == got'[Len(got')]
          IN  /\ m \notin expired
              /\ Ordered => \A i \in DOMAIN queue.data :
                    queue.data[i] \notin expired
                        => Priority[m] <= Priority[queue.data[i]] ]_vars

=============================================================================
