--------------------------- MODULE MCPolicyChannel ---------------------------
(* A small instance of the policy channel for TLC: an Always value that may *)
(* expire and one that may not, and a Single and an Optional value.         *)
EXTENDS PolicyChannel, TLC

CONSTANTS a, b, s, o

MCMsg == {a, b, s, o}
MCPolicy == [m \in MCMsg |->
    CASE m \in {a, b} -> "Always"
      [] m = s -> "Single"
      [] m = o -> "Optional"]
MCKind == [m \in MCMsg |-> IF m \in {a, s} THEN 1 ELSE 2]
MCPriority == [m \in MCMsg |-> IF m \in {b, s} THEN 1 ELSE 2]
MCExpirable == {a}
\* The hypothesis of the theorems about this channel.
ASSUME MCStorageIsPolicyDeque == StorageIsPolicyDeque

Symmetry == Permutations(Senders)

=============================================================================
