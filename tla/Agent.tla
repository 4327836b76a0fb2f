------------------------------- MODULE Agent --------------------------------
(***************************************************************************)
(* What the agent promises about the configuration of its device: the      *)
(* configuration a restart would come up with changes by whole operations, *)
(* whatever calls a transition makes, in whatever order they fail.  Only   *)
(* the update of the agent itself and the reset of a CPE take two steps,   *)
(* and until the second one the first can be taken back.                   *)
(***************************************************************************)
CONSTANTS
  DeviceType, Serials, Ports, Services, FactoryID, EmptyCfgClears

VARIABLES
  config,   \* the durable configuration
  fallback, \* what it is taken back to when a started operation is
  lost      \* a rollback after a restart failed: no promise any more

vars == <<config, fallback, lost>>

None == "none"

Blank(state) == [state |-> state, serial |-> None, port |-> None, services |-> None]

Init == config = Blank(None) /\ fallback = config /\ lost = FALSE

(* An operation in one step.                                               *)
Becomes(new) == config' = new /\ fallback' = new /\ UNCHANGED lost

(* The first of two steps.                                                 *)
Starts(new) == config' = new /\ fallback' = config /\ UNCHANGED lost

(* A new device, or one that a reset has erased, comes up.                 *)
FirstBoot == config.state = None /\ Becomes([config EXCEPT !.state = "init"])

(* An older version had provisioned the device.                            *)
Migrate ==
  /\ config.state \in {None, "init"} /\ FactoryID # None
  /\ Becomes([config EXCEPT !.state = "active", !.serial = FactoryID])

SetPort ==
  /\ config.state = "init"
  /\ \E p \in Ports \cup {None} : Becomes([config EXCEPT !.port = p])

(* Serial number, network and services come together, and only when a port *)
(* has been configured.                                                    *)
FirstSetup ==
  /\ config.state = "init" /\ config.port # None
  /\ \E s \in Serials, p \in Ports, v \in Services :
       Becomes([state |-> "active", serial |-> s, port |-> p, services |-> v])

UpdateConfig ==
  /\ config.state = "active"
  /\ \/ \E p \in Ports : Becomes([config EXCEPT !.port = p])
     \/ \E v \in Services : Becomes([config EXCEPT !.services = v])

(* An update of the packages that carry the services deletes them, and     *)
(* does so too when it fails.                                              *)
UpdatePackages == config.state = "active" /\ Becomes([config EXCEPT !.services = None])

UpdateAgent ==
  /\ config.state = "active"
  /\ Starts([config EXCEPT !.state = "maintenance", !.services = None])
UpdateFinished ==
  config.state = "maintenance" /\ Becomes([config EXCEPT !.state = "active"])

ResetHub ==
  /\ DeviceType = "hub" /\ config.state \in {"init", "active"}
  /\ Becomes([Blank("init") EXCEPT !.port = config.port])

ResetCPE ==
  /\ DeviceType = "cpe" /\ config.state \in {"init", "active"}
  /\ Starts(Blank(IF EmptyCfgClears THEN None ELSE "reset"))
Erase ==
  /\ DeviceType = "cpe" /\ fallback # config
  /\ config = Blank(IF EmptyCfgClears THEN None ELSE "reset")
  /\ config' = Blank(None) /\ UNCHANGED <<fallback, lost>>
ResetInterrupted ==
  config = Blank("reset") /\ Becomes(Blank("init"))

(* The second step will not come, and the operation is taken back; or the  *)
(* first step stands.                                                      *)
TakeBack == fallback # config /\ Becomes(fallback)
Stand == fallback # config /\ Becomes(config)

LoseRollback == ~lost /\ lost' = TRUE
Anything == lost /\ lost' = TRUE

Next ==
  \/ /\ ~lost
     /\ \/ FirstBoot \/ Migrate \/ SetPort \/ FirstSetup \/ UpdateConfig \/ UpdatePackages
        \/ UpdateAgent \/ UpdateFinished \/ ResetHub \/ ResetCPE \/ Erase \/ ResetInterrupted
        \/ TakeBack \/ Stand
  \/ LoseRollback \/ Anything

Spec == Init /\ [][Next]_vars
=============================================================================
