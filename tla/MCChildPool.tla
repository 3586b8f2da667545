---------------------------- MODULE MCChildPool -----------------------------
(* ChildPool on a small process table, for TLC.                            *)
EXTENDS ChildPool
=============================================================================
