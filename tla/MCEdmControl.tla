---------------------------- MODULE MCEdmControl ----------------------------
(* EdmControl with two clients that may connect once more, for TLC.        *)
EXTENDS EdmControl
=============================================================================
