---------------------------- MODULE MCWorkerSync ----------------------------
(* WorkerSync on small pools, for TLC.                                     *)
EXTENDS WorkerSync, TLC

Pool == Permutations(Children)
=============================================================================
