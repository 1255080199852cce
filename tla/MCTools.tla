------------------------------- MODULE MCTools -------------------------------
(* Small instances of the tools for TLC. *)
EXTENDS Tools

CONSTANTS c1, c2, s1, s2, s3

MCTtl == [c \in {c1, c2} |-> IF c = c1 THEN 1 ELSE 2]

\* Three guards on two files, all with values of their own.
MCWants == [s \in {s1, s2, s3} |->
              CASE s = s1 -> <<11, 12>> [] s = s2 -> <<21, 22>> [] s = s3 -> <<31, 32>>]

Arg(f, w) == [form |-> f, word |-> w]
List(n, as) == [name |-> n, list |-> TRUE, args |-> as]

\* Documented ones, others that the macro takes, and ill formed ones.
MCAttributes == {
    List("data_delivery", <<Arg("path", "single")>>),
    List("data_delivery", <<Arg("string", "latest")>>),
    List("data_delivery", <<Arg("path", "single"), Arg("path", "optional")>>),
    List("data_delivery", <<Arg("integer", 5)>>),
    List("data_delivery", <<Arg("path", "sometimes")>>),
    List("data_expires", <<Arg("path", "is_expired")>>),
    List("data_expires", <<Arg("integer", 5)>>),
    List("data_priority", <<Arg("integer", 10)>>),
    List("data_priority", <<Arg("string", 7)>>),
    List("data_priority", <<Arg("path", "high")>>),
    [name |-> "data_priority", list |-> FALSE, args |-> <<>>],
    [name |-> "doc", list |-> FALSE, args |-> <<>>] }

=============================================================================
