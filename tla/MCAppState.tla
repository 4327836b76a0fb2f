----------------------------- MODULE MCAppState -----------------------------
(* AppState for TLC: the instances are in AppState_*.cfg. *)
EXTENDS AppState

(* On a hub the actions of the two left-behind goroutines are not enabled: *)
(* its reset stays in the process, and it has no starter to stop.          *)
HubNext ==
  \/ RunStep
  \/ RollbackDanglingFails \/ Crash \/ PowerCycle
  \/ \E tr \in Requests : Perform(tr)

HubSpec == Init /\ [][HubNext]_vars
=============================================================================
