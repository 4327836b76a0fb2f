------------------------------ MODULE FirstInit ------------------------------
(***************************************************************************)
(* The state machine with the one call of Run that may not return:         *)
(* WaitFirstInit takes the mutex of deviceinit.Service, which an InitDevice*)
(* keeps for ever when it reports to a first setup that has gone.  Module  *)
(* DeviceInit has the mutex, the channel and the requests themselves; here *)
(* they are what Run finds when a first setup reaches WaitFirstInit.       *)
(***************************************************************************)
EXTENDS AppState

VARIABLE
  firstInit  \* "free"; "left": firstInitData of a first setup that has gone;
             \* "held": and an InitDevice blocks in its report to it

fvars == <<vars, firstInit>>

FirstInitInit == Init /\ firstInit = "free"

(* Run is about to call WaitFirstInit and then to start the publisher.     *)
AtWaitFirstInit ==
  /\ phase = "leg" /\ leg.ev = "OnFirstSetup"
  /\ todo # <<>> /\ Head(todo) = Func("ws", "on")

WaitsForMutex == AtWaitFirstInit /\ firstInit = "held"

(* Run waits for the report of InitDevice.                                 *)
AwaitsInit ==
  phase = "leg" /\ leg.ev = "OnFirstSetup" /\ todo # <<>> /\ Head(todo).err = "resume"

(* A first setup goes without its report when the publisher refuses to     *)
(* start or the wait times out; an error that InitDevice itself returns is *)
(* its report.  The mutex and firstInitData die with the process.          *)
LeavesFirstInit ==
  firstInit' \in
    CASE phase' = "dangling" -> {"free"}
      [] AtWaitFirstInit /\ phase' = "rollback" -> {"left"}
      [] AwaitsInit /\ phase' = "rollback" /\ firstInit = "free" -> {"free", "left"}
      [] OTHER -> {firstInit}

Run == RunStep /\ ~WaitsForMutex /\ LeavesFirstInit

Environment ==
  \/ RollbackDanglingFails /\ LeavesFirstInit
  \/ Crash /\ LeavesFirstInit
  \/ PowerCycle /\ LeavesFirstInit
  \/ RebootAfterReset /\ LeavesFirstInit
  \/ RebootFails /\ LeavesFirstInit
  \/ DeactivateStarter /\ LeavesFirstInit
  \/ \E tr \in Requests : Perform(tr) /\ LeavesFirstInit

(* The next InitDevice, or the one the timeout overtook, reports to nobody.*)
BlocksInReport ==
  /\ firstInit = "left"
  /\ firstInit' = "held"
  /\ UNCHANGED vars

FirstInitNext == Run \/ Environment \/ BlocksInReport

FirstInitSpec == FirstInitInit /\ [][FirstInitNext]_fvars

(* Run's goroutine and the two left-behind goroutines are scheduled by Go, *)
(* and every call of Run but WaitFirstInit returns; nothing obliges a      *)
(* caller to ask or a fault to happen.                                     *)
FirstInitFairSpec ==
  /\ FirstInitSpec
  /\ WF_fvars(Run)
  /\ WF_fvars(RebootAfterReset /\ LeavesFirstInit)
  /\ WF_fvars(DeactivateStarter /\ LeavesFirstInit)
-----------------------------------------------------------------------------
(* Whatever happens - requests, failing calls, crashes, reboots - the agent*)
(* comes to rest again, in init or active.  Excepted are a reset device    *)
(* whose reboot command failed, an update cut at its checkpoint, and a     *)
(* first setup that waits for the mutex an InitDevice holds since an       *)
(* earlier one went without its report.                                    *)
ComesToRest ==
  phase # "idle" ~>
    \/ WaitsForMutex
    \/ phase = "idle" /\ (\/ dev["active"] \in {"init", "active"}
                          \/ dev["reboot"] = "failed"
                          \/ stranded)
=============================================================================
