--------------------------- MODULE MCSupplyChain ---------------------------
(* Small instances of SupplyChain for TLC. *)
EXTENDS SupplyChain

CONSTANT a1

(* Every subproblem resolves to one type: they compete for its slots.      *)
MCOneType == [s \in Sub |-> a1]

(* The first subproblem has no capable agent.                              *)
MCFirstUnroutable == [s \in Sub |-> IF s = 1 THEN NoAgent ELSE a1]
==============================================================================
