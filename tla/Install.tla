------------------------------ MODULE Install -------------------------------
(***************************************************************************)
(* An update of the device's packages, from the orchestrator's request to  *)
(* the report: the update manager is asked over the message queue, answers *)
(* at once, installs, and announces the end on a subject the agent         *)
(* subscribes to after it has asked.  The announcement names no request,   *)
(* and nobody repeats it for certain.  An update of the agent itself       *)
(* replaces the process in the middle: it goes on from the checkpoint.     *)
(***************************************************************************)
EXTENDS Naturals, FiniteSets

CONSTANTS
  Updates,      \* the orchestrator's requests
  AgentUpdates, \* those whose packages include the agent
  MaxFaults     \* bound: failing calls, lost messages, crashes

ASSUME UpdatesAssumption == AgentUpdates \subseteq Updates
ASSUME NobodyAssumption == "nobody" \notin Updates
ASSUME FaultsAssumption == MaxFaults \in Nat

VARIABLES
  taken,     \* the requests Run has taken
  run,       \* where Run is
  current,   \* the request it works for
  booting,   \* Run is still inside setActiveStateFromBoot
  durable,   \* the state a restart would come up in
  updErr,    \* the outcome of the update
  job,       \* the update manager's work on each request
  announced, \* its announcement
  told,      \* what the orchestrator was told last
  dropped,   \* history: requests nobody could report
  late,      \* history: requests given up before their announcement came
  faults

runVars == <<taken, run, current, booting, durable, updErr>>
history == <<dropped, late>>
vars == <<runVars, job, announced, told, history, faults>>

Init ==
  /\ taken = {} /\ run = "active" /\ current = "nobody" /\ booting = FALSE
  /\ durable = "active" /\ updErr = FALSE
  /\ job = [u \in Updates |-> "none"] /\ announced = [u \in Updates |-> "no"]
  /\ told = [u \in Updates |-> "nothing"]
  /\ dropped = {} /\ late = {} /\ faults = 0

Fault == faults < MaxFaults /\ faults' = faults + 1

-----------------------------------------------------------------------------
(* The agent.                                                              *)

(* InstallDevicePackages has answered the orchestrator; Run is idle.       *)
InstallDevicePackages(u) ==
  /\ run = "active" /\ u \notin taken
  /\ taken' = taken \cup {u} /\ current' = u /\ run' = "enter"
  /\ UNCHANGED <<booting, durable, updErr, job, announced, told, history, faults>>

(* "already in state maintenance": all that follows is an error response.  *)
RefuseUpdate(u) ==
  /\ run = "stranded" /\ u \notin taken
  /\ taken' = taken \cup {u} /\ dropped' = dropped \cup {u}
  /\ UNCHANGED <<run, current, booting, durable, updErr, job, announced, told, late, faults>>

(* The way to the maintenance handler: StartTransaction, OnExit of active, *)
(* updateAppState.  An error of theirs is rolled back, and nobody reports. *)
EnterMaintenance ==
  /\ run = "enter"
  /\ \/ run' = "prepare" /\ UNCHANGED <<current, dropped, faults>>
     \/ /\ run' = "active" /\ current' = "nobody"
        /\ dropped' = dropped \cup {current} /\ Fault
  /\ UNCHANGED <<taken, booting, durable, updErr, job, announced, told, late>>

(* updateDevice returns an error: it is reported, and the checkpoint goes; *)
(* if it cannot be deleted, that is only logged.                           *)
Returns(err) ==
  /\ run' = "report" /\ updErr' = err
  /\ durable' \in IF err /\ ~booting THEN {"active", durable} ELSE {durable}

(* Update manager, services, checkpoint; each may fail, the checkpoint last.*)
Prepare ==
  /\ run = "prepare"
  /\ \/ /\ run' = "request"
        /\ durable' = IF current \in AgentUpdates THEN "maintenance" ELSE "active"
        /\ UNCHANGED <<updErr, faults>>
     \/ Returns(TRUE) /\ Fault
  /\ UNCHANGED <<taken, current, booting, job, announced, told, history>>

(* The manager accepts the request; or it refuses it, it never gets it, or *)
(* it does and its answer is too late.                                     *)
RequestInstall ==
  /\ run = "request"
  /\ \/ /\ job' = [job EXCEPT ![current] = "installing"]
        /\ run' = "subscribe" /\ UNCHANGED <<updErr, durable, faults>>
     \/ /\ job' \in {job, [job EXCEPT ![current] = "installing"]}
        /\ Returns(TRUE) /\ Fault
  /\ UNCHANGED <<taken, current, booting, announced, told, history>>

(* ChanSubscribe, at boot after the start of the publisher.                *)
Subscribe ==
  /\ run = "subscribe"
  /\ \/ run' = "wait" /\ UNCHANGED <<updErr, durable, faults>>
     \/ Returns(TRUE) /\ Fault
  /\ UNCHANGED <<taken, current, booting, job, announced, told, history>>

(* The announcement of any request ends the wait; msg.Respond may fail.    *)
InstallFinished(u) ==
  /\ run = "wait" /\ announced[u] = "due"
  /\ announced' = [announced EXCEPT ![u] = "heard"]
  /\ \/ Returns(job[u] # "installed") /\ UNCHANGED faults
     \/ Returns(TRUE) /\ Fault
  /\ UNCHANGED <<taken, current, booting, job, told, history>>

(* Mutants: the end of the wait is the end of the installation; the wait   *)
(* has no end.                                                             *)
TimesOutWell ==
  /\ run = "wait" /\ Returns(FALSE)
  /\ UNCHANGED <<taken, current, booting, job, announced, told, history, faults>>
WaitsForAnnouncement == FALSE /\ UNCHANGED vars

(* 30 seconds are over; an installation may take any time.                 *)
InstallTimeout ==
  /\ run = "wait" /\ Returns(TRUE)
  /\ UNCHANGED <<taken, current, booting, job, announced, told, history, faults>>

(* An error of the report is only logged; there is no second try.          *)
SendInstallFinished ==
  /\ run = "report" /\ run' = "finish"
  /\ \/ /\ told' = [told EXCEPT ![current] = IF updErr THEN "error" ELSE "ok"]
        /\ UNCHANGED <<dropped, faults>>
     \/ dropped' = dropped \cup {current} /\ Fault /\ UNCHANGED told
  /\ UNCHANGED <<taken, current, booting, durable, updErr, job, announced, late>>

GivesUp == late' = IF announced[current] = "heard" THEN late ELSE late \cup {current}

(* OnUpdateDeviceFinished and the end of the transaction.                  *)
UpdateDeviceFinished ==
  /\ run = "finish"
  /\ run' = "active" /\ durable' = "active" /\ booting' = FALSE /\ current' = "nobody"
  /\ GivesUp
  /\ UNCHANGED <<taken, updErr, job, announced, told, dropped, faults>>

(* It fails: back to active, or to the checkpoint and no way on but a      *)
(* restart, which follows at once on the way from boot.                    *)
FinishFails ==
  /\ run = "finish" /\ Fault
  /\ IF durable = "active"
     THEN run' = "active" /\ current' = "nobody" /\ GivesUp
     ELSE run' = (IF booting THEN "subscribe" ELSE "stranded") /\ UNCHANGED <<current, late>>
  /\ UNCHANGED <<taken, booting, durable, updErr, job, announced, told, dropped>>

-----------------------------------------------------------------------------
(* Mutant: a restart forgets that it was in maintenance. *)
RestartsActive ==
  /\ run' = "active" /\ booting' = FALSE /\ current' = "nobody"
  /\ IF current = "nobody" THEN UNCHANGED late ELSE GivesUp
  /\ UNCHANGED dropped

(* The process ends and is started again: out of the checkpointed update   *)
(* into the wait, out of any other back to active.                         *)
Restart ==
  IF durable = "maintenance"
  THEN /\ run' = "subscribe" /\ booting' = TRUE
       /\ UNCHANGED <<current, dropped, late>>
  ELSE /\ run' = "active" /\ booting' = FALSE /\ current' = "nobody"
       /\ IF current = "nobody" THEN UNCHANGED <<dropped, late>>
          ELSE GivesUp /\ dropped' = dropped \cup {current}

Crash ==
  /\ Fault /\ Restart
  /\ UNCHANGED <<taken, durable, updErr, job, announced, told>>

(* The update manager dies as well, and what it was doing.                 *)
PowerLoss ==
  /\ Fault /\ Restart
  /\ job' = [u \in Updates |-> IF job[u] \in {"installing", "restarted"} THEN "failed" ELSE job[u]]
  /\ announced' = [u \in Updates |-> IF announced[u] = "due" THEN "lost" ELSE announced[u]]
  /\ UNCHANGED <<taken, durable, updErr, told>>

-----------------------------------------------------------------------------
(* The update manager, as far as the agent sees it.                        *)

(* Installing the agent's package restarts the agent.                      *)
RestartAgent(u) ==
  /\ u \in AgentUpdates /\ job[u] = "installing"
  /\ job' = [job EXCEPT ![u] = "restarted"]
  /\ Restart
  /\ UNCHANGED <<taken, durable, updErr, announced, told, faults>>

Installs(u) ==
  /\ job[u] = "restarted" \/ job[u] = "installing"
  /\ \E result \in {"installed", "failed"} :
       /\ job[u] = "installing" /\ u \in AgentUpdates => result = "failed"
       /\ job' = [job EXCEPT ![u] = result]
  /\ announced' = [announced EXCEPT ![u] = "due"]
  /\ UNCHANGED <<runVars, told, history, faults>>

(* Nobody is there to hear it, and the manager does not try again.         *)
AnnouncementLost(u) ==
  /\ announced[u] = "due" /\ run # "wait"
  /\ announced' = [announced EXCEPT ![u] = "lost"]
  /\ UNCHANGED <<runVars, job, told, history, faults>>

-----------------------------------------------------------------------------
RunStep ==
  \/ EnterMaintenance \/ Prepare \/ RequestInstall \/ Subscribe \/ InstallTimeout
  \/ SendInstallFinished \/ UpdateDeviceFinished
  \/ \E u \in Updates : InstallFinished(u)

ManagerStep(u) == RestartAgent(u) \/ Installs(u) \/ AnnouncementLost(u)

Next ==
  \/ RunStep \/ FinishFails \/ Crash \/ PowerLoss
  \/ \E u \in Updates : InstallDevicePackages(u) \/ RefuseUpdate(u) \/ ManagerStep(u)

Spec == Init /\ [][Next]_vars

(* Go schedules Run and its timers fire; nothing obliges the manager.      *)
FairSpec == Spec /\ WF_vars(RunStep)

-----------------------------------------------------------------------------
(* Properties.                                                             *)

(* Types; only an update of the agent survives a restart, and Run is where *)
(* it can be for it.                                                       *)
TypeOK ==
  /\ taken \subseteq Updates /\ current \in Updates \cup {"nobody"}
  /\ run \in {"active", "enter", "prepare", "request", "subscribe", "wait", "report", "finish",
             "stranded"}
  /\ booting \in BOOLEAN /\ updErr \in BOOLEAN
  /\ durable \in {"active", "maintenance"}
  /\ job \in [Updates -> {"none", "installing", "restarted", "installed", "failed"}]
  /\ announced \in [Updates -> {"no", "due", "lost", "heard"}]
  /\ told \in [Updates -> {"nothing", "ok", "error"}]
  /\ dropped \subseteq Updates /\ late \subseteq Updates /\ faults \in Nat
  /\ run = "active" <=> current = "nobody"
  /\ durable = "maintenance" => current \in AgentUpdates /\ run \notin {"enter", "prepare"}
  /\ booting \/ run = "stranded" => durable = "maintenance"

(* The orchestrator is told of a success only if the packages of its       *)
(* request are installed, or those of another request that was given up    *)
(* before its announcement came: the wait cannot tell the two apart.       *)
SuccessIsInstalled ==
  \A u \in Updates : told[u] = "ok" => \E v \in late \cup {u} : job[v] = "installed"

(* Every request Run has taken is reported, an update of the agent also by *)
(* the process that replaces the one that took it.  Excepted are a report  *)
(* that fails, a crash without a checkpoint, and a request whose transition*)
(* fails before the maintenance handler has it, or finds the agent in      *)
(* maintenance already: for those Run only returns an error.               *)
UpdateIsReported ==
  \A u \in Updates : u \in taken ~> told[u] # "nothing" \/ u \in dropped

(* An update ends: whatever the manager does or does not, the device is    *)
(* back in active, or waits in maintenance for a restart.                  *)
ReturnsToActive == run # "active" ~> run \in {"active", "stranded"}
=============================================================================
