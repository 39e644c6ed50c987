-------------------------- MODULE MCProviderBudget --------------------------
(* The instances of ProviderBudget that TLC checks.                        *)
EXTENDS ProviderBudget, TLC

Interchangeable == Permutations(Call) \cup Permutations(Request)
=============================================================================
