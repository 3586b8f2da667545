---------------------------- MODULE MCManagement ----------------------------
(* Management with one host and two connections at a time, for TLC.  The   *)
(* client reports the ip it comes from, or it comes through a gateway.     *)
EXTENDS Management

MCConns == 1..2
MCWays == [Hosts -> {[local |-> "ip1", remote |-> "ip1"], [local |-> "ip1", remote |-> "ip2"]}]
=============================================================================
