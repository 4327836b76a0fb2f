---------------------------- MODULE MCConnection ----------------------------
(* Connection for TLC: the instances are in Connection_*.cfg. *)
EXTENDS Connection

Both == {{"h1", "h2"}}
Growing == {{"h1"}, {"h1", "h2"}}
=============================================================================
