------------------------------ MODULE MCChannel ------------------------------
(* Small instances of the plain channel for TLC. *)
EXTENDS Channel, TLC

\* The hypothesis of the theorems about this channel.
ASSUME MCStorageIsVecDeque == StorageIsVecDeque

Symmetry ==
    Permutations(Senders) \cup Permutations(Receivers) \cup Permutations(Msg)

=============================================================================
