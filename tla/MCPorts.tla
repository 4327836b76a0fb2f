------------------------------ MODULE MCPorts -------------------------------
(* Ports for TLC: the instance is in Ports_check.cfg. *)
EXTENDS Ports
=============================================================================
