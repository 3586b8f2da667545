------------------------------ MODULE MCImLink ------------------------------
(* ImLink for TLC, with short headers and PDUs and a socket that holds     *)
(* less than two of them.                                                  *)
EXTENDS ImLink
=============================================================================
