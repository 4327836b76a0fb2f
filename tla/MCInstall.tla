----------------------------- MODULE MCInstall ------------------------------
(* Install for TLC: the instance is in Install_updates.cfg. *)
EXTENDS Install
=============================================================================
