-------------------------- MODULE MCLedgerRecorder --------------------------
(* Small instances of LedgerRecorder for TLC. *)
EXTENDS LedgerRecorder, TLC

CONSTANTS s1, s2, r1

MCRootOf == [s \in Sub |-> r1]

Symmetry == Permutations({s1, s2})

(* Bound: crashes that lose a reservation. *)
MCLostBound == \A r \in Root : lost[r] <= 1
=============================================================================
