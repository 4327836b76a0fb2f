----------------------------- MODULE MCFirstInit -----------------------------
(* FirstInit for TLC: the instance is in AppState_cpe.cfg. *)
EXTENDS FirstInit
=============================================================================
