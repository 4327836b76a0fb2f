---------------------------- MODULE MCHubTunnels ----------------------------
(* HubTunnels for TLC: the instances are in HubTunnels_*.cfg. *)
EXTENDS HubTunnels

=============================================================================
