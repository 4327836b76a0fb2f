------------------------------ MODULE AppState ------------------------------
(***************************************************************************)
(* The application state machine of the agent: StateService.Run, the       *)
(* transaction every transition runs in, the callers blocked in Perform,   *)
(* and what a crash, a reboot or a failing call does to them.  Run makes   *)
(* one call of a handler per step, so that a crash, an error or a request  *)
(* can fall between any two.                                               *)
(***************************************************************************)
EXTENDS Handlers

VARIABLES
  dev,       \* the device: [Resources -> values]
  tx,        \* undo log of the open transaction
  sealed,    \* the part of the undo log a checkpoint has closed
  phase,     \* where Run is
  booting,   \* Run is still inside setActiveStateFromBoot
  leg,       \* the transition performTransition is working on
  todo,      \* the calls it still has to make
  queue,     \* transitions of the callers blocked on transitionChan, in order
  faults,    \* crashes and failing calls so far
  abandoned, \* history: a dangling transaction could not be rolled back
  stranded,  \* history: a rollback of this process stopped at a checkpoint
  wiped      \* history: a reset has completed and no first setup since

vars == <<dev, tx, sealed, phase, booting, leg, todo, queue, faults, abandoned, stranded, wiped>>

Phases == {"dangling", "boot", "leg", "rollback", "idle"}

(* A factory-new device, powered on; its image enables the ZTP daemons.    *)
FactoryDevice ==
  [r \in Resources |->
     CASE r \in Persisted -> None
       [] r = "env" -> FactoryID
       [] r \in {"um", "umEnabled"} -> "off"
       [] r \in Daemons \ {"um", "umEnabled"} -> IF DeviceType = "cpe" THEN "on" ELSE "off"
       [] r = "active" -> "boot"
       [] r \in {"pony", "db"} -> "on"
       [] r = "reboot" -> None
       [] OTHER -> "off"]

Init ==
  /\ dev = FactoryDevice
  /\ tx = NoTx /\ sealed = NoTx
  /\ phase = "dangling" /\ booting = TRUE
  /\ leg = NoTransition /\ todo = <<>> /\ queue = <<>>
  /\ faults = 0 /\ abandoned = FALSE /\ stranded = FALSE /\ wiped = FALSE

Fault == faults < MaxFaults /\ faults' = faults + 1

-----------------------------------------------------------------------------
(* Perform: a handler of the message queue or of the publisher asks for a  *)
(* transition and blocks until Run takes it.                               *)

Reachable(tr) ==
  CASE tr.ev \in {"OnFirstSetup", "OnZTPSetupConfig"} -> dev["mqInit"] = "on"
    [] tr.ev \in {"OnHubSetPort", "OnHubDeletePort"} -> dev["mqInit"] = "on" /\ DeviceType = "hub"
    [] tr.ev = "OnRebuildServices" -> dev["mqActive"] = "on"
    [] tr.ev \in {"OnUpdateConfig", "OnUpdateDevice"} -> dev["ws"] = "on"
    [] OTHER -> "on" \in {dev["mqInit"], dev["mqActive"], dev["ws"]}

Perform(tr) ==
  /\ Reachable(tr)
  /\ Len(queue) < MaxQueue
  /\ queue' = Append(queue, tr)
  /\ UNCHANGED <<dev, tx, sealed, phase, booting, leg, todo, faults, abandoned, stranded, wiped>>

-----------------------------------------------------------------------------
(* Run.                                                                    *)

(* The checks of performTransition, then the calls of the leg.             *)
Begin(tr) ==
  /\ leg' = tr
  /\ IF dev["active"] # tr.to /\ ValidateTransition(dev["active"], tr.to)
     THEN phase' = "leg" /\ todo' = PerformTransition(tr, dev)
     ELSE phase' = "rollback" /\ todo' = <<>>

(* Run takes the oldest blocked caller and starts a transaction.           *)
Accept ==
  /\ phase = "idle" /\ queue # <<>>
  /\ dev["db"] = "on"
  /\ Begin(Head(queue))
  /\ queue' = Tail(queue)
  /\ tx' = NoTx /\ sealed' = NoTx
  /\ UNCHANGED <<dev, booting, faults, abandoned, stranded, wiped>>

(* StartTransaction fails: always once reset has closed the database.      *)
Reject ==
  /\ phase = "idle" /\ queue # <<>>
  /\ IF dev["db"] = "off" THEN UNCHANGED faults ELSE Fault
  /\ queue' = Tail(queue)
  /\ UNCHANGED <<dev, tx, sealed, phase, booting, leg, todo, abandoned, stranded, wiped>>

(* Mutant: the publisher starts although it is running. *)
RefusesPreconditions(c) == c.err = "refuse"

(* The publisher refuses to start twice or to stop twice, and fails for no *)
(* other reason; a refused precondition of a handler always fails.         *)
Refused(c) ==
  \/ c.err = "refuse"
  \/ c.set["ws"] # Keep /\ c.set["ws"] = dev["ws"]

MayFail(c) == c.err # "never" /\ c.set["ws"] = Keep

(* One call of the handler succeeds.                                       *)
Step ==
  /\ phase = "leg" /\ todo # <<>>
  /\ ~Refused(Head(todo))
  /\ LET c == Head(todo)
     IN  /\ dev' = Apply(c.set, dev)
         /\ tx' = CASE c.log = "activity" -> [tx EXCEPT !.undo = Record(c, tx.undo, dev)]
                    [] c.log = "func" -> [tx EXCEPT !.mem = Record(c, tx.mem, dev)]
                    [] c.log = "checkpoint" -> NoTx
                    [] OTHER -> tx
         /\ sealed' = IF c.log = "checkpoint" THEN tx ELSE sealed
  /\ todo' = Tail(todo)
  /\ UNCHANGED <<phase, booting, leg, queue, faults, abandoned, stranded, wiped>>

(* What the handler itself puts right before it returns the error.         *)
Cleanup(c) ==
  CASE c.err = "resume" -> Set("pony", "on")
    [] c.err = "restart" -> [NoChange EXCEPT !["pony"] = "on", !["ws"] = "on"]
    [] OTHER -> NoChange

DeleteCheckPoint ==
  /\ tx' = [undo |-> Apply(sealed.undo, tx.undo), mem |-> Apply(sealed.mem, tx.mem)]
  /\ sealed' = NoTx

(* One call of the handler fails.                                          *)
CallFails ==
  /\ phase = "leg" /\ todo # <<>>
  /\ LET c == Head(todo)
     IN  /\ IF Refused(c) THEN UNCHANGED faults ELSE MayFail(c) /\ Fault
         /\ dev' = Apply(Cleanup(c), dev)
         /\ IF c.err \in {"revoke", "finish"} THEN DeleteCheckPoint ELSE UNCHANGED <<tx, sealed>>
         /\ todo' = IF c.err = "log" THEN Tail(todo) ELSE <<>>
         /\ phase' = IF c.err \in {"log", "finish"} THEN "leg" ELSE "rollback"
  /\ UNCHANGED <<booting, leg, queue, abandoned, stranded, wiped>>

(* Handle returned a further transition: it runs in the same transaction.  *)
Continue ==
  /\ phase = "leg" /\ todo = <<>>
  /\ FollowUp(leg, dev) # NoTransition
  /\ Begin(FollowUp(leg, dev))
  /\ UNCHANGED <<dev, tx, sealed, booting, queue, faults, abandoned, stranded, wiped>>

(* FinishTransaction without an error.                                     *)
Commit ==
  /\ phase = "leg" /\ todo = <<>>
  /\ FollowUp(leg, dev) = NoTransition
  /\ phase' = "idle" /\ booting' = FALSE
  /\ tx' = NoTx /\ sealed' = NoTx
  /\ wiped' = CASE leg.ev \in {"OnReset", "OnHubResetFinished"} -> TRUE
                [] leg.ev = "OnFirstSetup" -> FALSE
                [] OTHER -> wiped
  /\ UNCHANGED <<dev, leg, todo, queue, faults, abandoned, stranded>>

-----------------------------------------------------------------------------
(* The process: restart, boot, crash, reboot.                              *)

Restarted(d) ==
  [r \in Resources |-> IF r \in Volatile THEN FactoryDevice[r] ELSE d[r]]

Rebooted(d) ==
  LET e == Restarted(d)
  IN  [e EXCEPT !["um"] = e["umEnabled"], !["starter"] = e["starterEnabled"],
                !["dhcp"] = e["dhcpEnabled"]]

Exit(d) ==
  /\ dev' = d
  /\ tx' = [tx EXCEPT !.mem = NoChange] /\ sealed' = NoTx
  /\ phase' = "dangling" /\ booting' = TRUE
  /\ leg' = NoTransition /\ todo' = <<>> /\ queue' = <<>>
  /\ stranded' = FALSE

(* FinishTransaction with an error: back to the start of the transaction,  *)
(* or to its checkpoint.                                                   *)
Undone == Apply(tx.undo, Apply(tx.mem, dev))

Rollback ==
  /\ phase = "rollback" /\ ~booting
  /\ dev' = Undone
  /\ tx' = NoTx /\ sealed' = NoTx
  /\ stranded' = (stranded \/ sealed # NoTx)
  /\ phase' = "idle"
  /\ UNCHANGED <<booting, leg, todo, queue, faults, abandoned, wiped>>

(* An error on the way from boot is fatal: the process exits and systemd   *)
(* starts it again.                                                        *)
BootFails ==
  /\ phase = "rollback" /\ booting
  /\ dev' = Restarted(Undone)
  /\ tx' = NoTx /\ sealed' = NoTx
  /\ phase' = "dangling"
  /\ leg' = NoTransition /\ queue' = <<>>
  /\ UNCHANGED <<booting, todo, faults, abandoned, stranded, wiped>>

(* initServices: TryRollbackDanglingTransactions; its error is only logged.*)
RollbackDangling ==
  /\ phase = "dangling"
  /\ dev' = Apply(tx.undo, dev)
  /\ tx' = NoTx
  /\ phase' = "boot"
  /\ UNCHANGED <<sealed, booting, leg, todo, queue, faults, abandoned, stranded, wiped>>

RollbackDanglingFails ==
  /\ phase = "dangling" /\ tx.undo # NoChange
  /\ Fault
  /\ tx' = NoTx /\ abandoned' = TRUE
  /\ phase' = "boot"
  /\ UNCHANGED <<dev, sealed, booting, leg, todo, queue, stranded, wiped>>

(* Mutant: no default for a device without a persisted state. *)
TakesStateAsIs ==
  /\ phase = "boot"
  /\ Begin(To("OnAfterBoot", dev["state"]))
  /\ UNCHANGED <<dev, tx, sealed, booting, queue, faults, abandoned, stranded, wiped>>

(* setActiveStateFromBoot: to the persisted state, or to init.             *)
SetActiveStateFromBoot ==
  /\ phase = "boot"
  /\ Begin(To("OnAfterBoot", IF dev["state"] = None THEN "init" ELSE dev["state"]))
  /\ UNCHANGED <<dev, tx, sealed, booting, queue, faults, abandoned, stranded, wiped>>

(* The agent process dies; systemd restarts it.                            *)
Crash ==
  /\ Fault
  /\ Exit(Restarted(dev))
  /\ UNCHANGED <<abandoned, wiped>>

(* Power loss, or the reboot and power-off device actions.                 *)
PowerCycle ==
  /\ Fault
  /\ Exit(Rebooted(dev))
  /\ UNCHANGED <<abandoned, wiped>>

(* The goroutine reset leaves behind reboots the device.                   *)
RebootAfterReset ==
  /\ dev["reboot"] = "pending"
  /\ Exit(Rebooted(dev))
  /\ UNCHANGED <<faults, abandoned, wiped>>

RebootFails ==
  /\ dev["reboot"] = "pending"
  /\ Fault
  /\ dev' = [dev EXCEPT !["reboot"] = "failed"]
  /\ UNCHANGED <<tx, sealed, phase, booting, leg, todo, queue, abandoned, stranded, wiped>>

(* The goroutine the first setup leaves behind stops the starter, 200 ms   *)
(* later and outside the transaction; its errors are only logged.          *)
DeactivateStarter ==
  /\ dev["deactivate"] = "on"
  /\ \/ dev' = [dev EXCEPT !["deactivate"] = "off", !["starter"] = "off"] /\ UNCHANGED faults
     \/ dev' = [dev EXCEPT !["deactivate"] = "off"] /\ Fault
  /\ UNCHANGED <<tx, sealed, phase, booting, leg, todo, queue, abandoned, stranded, wiped>>

-----------------------------------------------------------------------------
(* What Run does by itself, without a fault it could do without.           *)
RunStep ==
  \/ Accept \/ Reject \/ Step \/ CallFails \/ Continue \/ Commit
  \/ Rollback \/ BootFails \/ RollbackDangling \/ SetActiveStateFromBoot

Next ==
  \/ RunStep
  \/ RollbackDanglingFails \/ Crash \/ PowerCycle
  \/ RebootAfterReset \/ RebootFails \/ DeactivateStarter
  \/ \E tr \in Requests : Perform(tr)

Spec == Init /\ [][Next]_vars
-----------------------------------------------------------------------------
(* Properties.                                                             *)

(* Every variable has its type: each resource of the device holds a value  *)
(* of its own domain whatever the handlers wrote and the rollbacks put     *)
(* back (entities.AppState, the config sections, the service states).      *)
TypeOK ==
  /\ dev \in Devices
  /\ tx \in [undo : Patches, mem : Patches] /\ sealed \in [undo : Patches, mem : Patches]
  /\ phase \in Phases /\ booting \in BOOLEAN
  /\ leg \in Transitions /\ todo \in Seq(Calls) /\ queue \in Seq(Transitions)
  /\ faults \in Nat /\ abandoned \in BOOLEAN /\ stranded \in BOOLEAN /\ wiped \in BOOLEAN

(* Between transitions the state in memory (StateService.activeState) is   *)
(* the one in the database (cfg.AppState.State), so a restart resumes where*)
(* the agent was - however the last transition ended.  A completed reset of*)
(* a CPE has deleted its database and waits for the reboot.                *)
StateIsPersisted ==
  phase = "idle" /\ dev["db"] = "on" => dev["state"] = dev["active"]

(* Between transitions exactly the message-queue subjects of the active    *)
(* state are subscribed: a failed transition re-subscribes what OnExit had *)
(* unsubscribed, and no state leaves the subjects of another behind.       *)
SubjectsMatchState ==
  phase = "idle" =>
    /\ dev["mqInit"] = "on" <=> dev["active"] = "init"
    /\ dev["mqActive"] = "on" <=> dev["active"] = "active"

(* Between transitions the publisher runs exactly in an active device (or  *)
(* one whose update stopped at a checkpoint) and the tunnel monitoring is  *)
(* never left paused, although updateConfig stops both outside the         *)
(* transaction and two error paths have to start them again.               *)
PublisherMatchesState ==
  phase = "idle" =>
    /\ dev["ws"] = "on" <=> dev["active"] \in {"active", "maintenance"}
    /\ dev["pony"] = "on"

(* Run never comes to rest in a transient state, from which no request     *)
(* could lead out: only in init, in active, in the reset of a CPE that     *)
(* waits for its reboot, or in maintenance when the rollback of a failed   *)
(* agent update stopped at the checkpoint of updateDevice.                 *)
RestsInStableState ==
  phase = "idle" =>
    \/ dev["active"] \in {"init", "active"}
    \/ dev["active"] = "reset" /\ dev["reboot"] # None
    \/ dev["active"] = "maintenance" /\ stranded

(* Between transitions the device has a serial number exactly when it is   *)
(* provisioned: neither a failed or interrupted first setup leaves a serial*)
(* behind in init, nor does a failed reset lose it.  This rests on the     *)
(* rollback of dangling transactions, whose errors are only logged.        *)
SerialMatchesState ==
  phase = "idle" /\ ~abandoned =>
    (dev["serial"] # None <=> dev["active"] \in {"active", "maintenance"})

(* Between transitions the daemons the state needs are running: the update *)
(* manager in an active device, the starter and the DHCP server that make  *)
(* zero-touch provisioning possible in a CPE in init.                      *)
DaemonsMatchState ==
  phase = "idle" =>
    /\ dev["active"] = "active" => dev["um"] = "on"
    /\ dev["active"] = "init" /\ DeviceType = "cpe" => dev["starter"] = "on" /\ dev["dhcp"] = "on"

(* The configuration a restart at this moment would come up with.          *)
DurableConfig == [r \in Persisted |-> Apply(tx.undo, dev)[r]]

AtomicStep ==
  \/ DurableConfig' = DurableConfig
  \/ phase = "leg" /\ phase' = "idle"
  \/ phase = "leg" /\ todo # <<>> /\ Head(todo).log = "checkpoint"
  \/ sealed # NoTx /\ sealed' = NoTx
  \/ dev["db"] = "off"
  \/ phase = "dangling" /\ phase' = "boot" /\ faults' # faults

(* A transition is atomic for the configuration: no call of a handler, no  *)
(* failing call, no rollback, crash or reboot changes the configuration a  *)
(* restart would come up with; only FinishTransaction and the checkpoints  *)
(* do, the deletion of the database by a reset, and a dangling rollback    *)
(* that fails.                                                             *)
ConfigurationIsAtomic == [][AtomicStep]_vars

(* What a restart would come up with if the process took back what it has  *)
(* sealed: the last configuration but one while a checkpoint stands.       *)
FallbackConfig == [r \in Persisted |-> Apply(sealed.undo, Apply(tx.undo, dev))[r]]

Promise == INSTANCE Agent WITH config <- DurableConfig, fallback <- FallbackConfig,
                               lost <- abandoned

(* The state machine implements the abstract agent: the configuration a    *)
(* restart would come up with is blank at first and then only changes as   *)
(* one whole operation on the device would change it.                      *)
ImplementsAgent == Promise!Spec

(* The serial number a device was provisioned with is never replaced by    *)
(* another one: a first setup that was queued in an earlier state finds the*)
(* state changed and is refused - or, in an agent whose update stopped at  *)
(* its checkpoint, the publisher running.  It is the durable configuration *)
(* that counts: such a setup writes its serial before it is rolled back.   *)
SerialIsNeverReplaced ==
  [][~abandoned' /\ DurableConfig["serial"] # None /\ DurableConfig'["serial"] # None
       => DurableConfig'["serial"] = DurableConfig["serial"]]_vars

(* A completed reset is final: until the next first setup the device rests *)
(* in init (a CPE first in reset, until its reboot).  "reset resets device *)
(* to init state (ZTP stage)" (reset.go:122).                              *)
ResetIsFinal ==
  phase = "idle" /\ wiped /\ ~abandoned => dev["active"] \in {"init", "reset"}
=============================================================================
