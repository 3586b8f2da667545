------------------------------ MODULE MCSockets -----------------------------
(* Sockets with two descriptors for two connections, for TLC.            *)
EXTENDS Sockets
=============================================================================
