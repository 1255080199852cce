------------------------------- MODULE MCDeque -------------------------------
(* A small instance of the policy deque for TLC: one value or two of every *)
(* delivery policy, two kinds, two priorities.                             *)
EXTENDS DequeUse

CONSTANTS a, b, l, o, s, t, q

MCMsg == {a, b, l, o, s, t, q}
MCPolicy == [m \in MCMsg |->
    CASE m \in {a, b} -> "Always"
      [] m = l -> "Latest"
      [] m = o -> "Optional"
      [] m \in {s, t} -> "Single"
      [] m = q -> "SingleOptional"]
MCKind == [m \in MCMsg |-> IF m \in {a, l, o} THEN 1 ELSE 2]
MCPriority == [m \in MCMsg |-> IF m \in {a, s} THEN 1 ELSE 2]
MCExpirable == {b, s}

=============================================================================
