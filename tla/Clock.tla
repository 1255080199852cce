-------------------------------- MODULE Clock --------------------------------
(***************************************************************************)
(* The monotonic clock (bma_ts::Monotonic, external) that the time tools   *)
(* read.  Time passes between any two reads, so a call that reads the      *)
(* clock takes some instant of Later, and ends at the last one it read.    *)
(***************************************************************************)
EXTENDS Integers

CONSTANT MaxTime \* bound on the clock

ASSUME ClockAssumption == MaxTime \in Nat

VARIABLE now

Later == now..MaxTime

AbsDiff(x, y) == IF x > y THEN x - y ELSE y - x

=============================================================================
