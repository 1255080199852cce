------------------------ MODULE MCPolicyChannelAsync -------------------------
(* A small instance of the async policy channel for TLC: two Always messages *)
(* and an Optional one.                                                      *)
EXTENDS PolicyChannelAsync, TLC

CONSTANTS a, b, o

MCMsg == {a, b, o}
MCPolicy == [m \in MCMsg |-> IF m = o THEN "Optional" ELSE "Always"]
MCKind == [m \in MCMsg |-> 1]
MCPriority == [m \in MCMsg |-> 1]

\* The hypothesis under which NoLostSpace is proved for every instance.
ASSUME MCSlotsAreKept == SlotsAreKept

\* Those under which AlwaysInOrder is.
ASSUME MCAlwaysInOrder == StorageIsPolicyDeque /\ ~Ordered /\ NothingReplacesAlways

Symmetry == Permutations(Senders) \cup Permutations(Receivers)

=============================================================================
