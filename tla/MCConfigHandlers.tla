-------------------------- MODULE MCConfigHandlers --------------------------
(* ConfigHandlers for TLC: the instances are in ConfigHandlers_*.cfg. *)
EXTENDS ConfigHandlers

TwoPeers == [u1 |-> "peer1", u2 |-> "peer2"]
OnePeer == [u1 |-> "peer1"]
=============================================================================
