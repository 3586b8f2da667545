--------------------------- MODULE MCSupervision ---------------------------
(* Supervision on a host with a few processes, for TLC.                    *)
EXTENDS Supervision

MCPids == 2..4
=============================================================================
