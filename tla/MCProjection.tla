---------------------------- MODULE MCProjection ----------------------------
(* The instances of Projection that TLC checks: a job and a Codex build,   *)
(* two overlapping invocations of the sync script, a feed of two or three  *)
(* records.  Where both may rebuild they are interchangeable.              *)
EXTENDS Projection, TLC

Interchangeable == Permutations(Syncer)
=============================================================================
