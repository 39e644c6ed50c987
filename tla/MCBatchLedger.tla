---------------------------- MODULE MCBatchLedger ----------------------------
(* BatchLedger for TLC. *)
EXTENDS BatchLedger, TLC

Symmetry == Permutations(Worker) \cup Permutations(Session) \cup Permutations(Review)
==============================================================================
