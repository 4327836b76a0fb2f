----------------------------- MODULE DeviceInit -----------------------------
(***************************************************************************)
(* The initialisation of a device by the orchestrator: the requests the    *)
(* deviceinit handler takes from the publisher, the goroutine each of them *)
(* starts, and the first setup in StateService.Run that waits for one.     *)
(* They share the mutex of the service, firstInitData and the unbuffered   *)
(* channel a first setup receives the result from.                         *)
(*                                                                         *)
(* Of the state machine only the first setup, the reset of a hub and an    *)
(* agent update that stops at its checkpoint appear, in as many steps as   *)
(* the goroutines can tell apart; module AppState has them in detail, with *)
(* InitDevice as part of the first setup.                                  *)
(***************************************************************************)
EXTENDS Naturals, Sequences

CONSTANTS
  Requests,   \* init-device requests of the orchestrator, one goroutine each
  MaxSetups   \* bound: first setups

None == "none"
ASSUME RequestsAssumption == None \notin Requests
ASSUME SetupsAssumption == MaxSetups \in Nat

Setups == 1..MaxSetups
NoSetup == 0    \* firstInitData = nil; the transaction of an own InitDevice

(* The two parts InitDevice installs, before and after its checks.         *)
Parts == <<"rules", "services">>
Sections == {"rules", "services"}
Empty == [s \in Sections |-> None]
NoUndo == [s \in Sections |-> <<>>]

VARIABLES
  run,           \* where Run is in the first setup
  from,          \* the state the current first setup started from
  setup,         \* the current first setup (its transaction and its channel)
  undo,          \* undo log of its transaction
  active,        \* StateService.activeState
  ws,            \* is the publisher running?
  config,        \* the request whose configuration a section holds
  firstInitData, \* the setup whose transaction the next InitDevice uses
  mx,            \* holder of the service's mutex
  initializing,  \* isInitializing; also: the tunnel monitoring is paused
  pc, tx, step, failed, own, \* of each goroutine: place, transaction, parts
                 \* written, error, undo log of its own transaction
  orphaned       \* history: a first setup has gone and left firstInitData behind

machine == <<run, from, setup, undo, active, ws>>
worker == <<pc, tx, step, failed, own>>
vars == <<machine, config, firstInitData, mx, initializing, worker, orphaned>>

Init ==
  /\ run = "init" /\ from = "init" /\ setup = NoSetup /\ undo = NoUndo /\ active = "init" /\ ws = "off"
  /\ config = Empty /\ firstInitData = NoSetup /\ mx = None /\ initializing = FALSE
  /\ pc = [w \in Requests |-> "none"] /\ tx = [w \in Requests |-> NoSetup]
  /\ step = [w \in Requests |-> 0] /\ failed = [w \in Requests |-> FALSE]
  /\ own = [w \in Requests |-> NoUndo]
  /\ orphaned = FALSE

(* An undo log keeps the oldest value of each section it has seen changed. *)
Log(u, s) == IF u[s] = <<>> THEN [u EXCEPT ![s] = <<config[s]>>] ELSE u
Undone(u) == [s \in Sections |-> IF u[s] = <<>> THEN config[s] ELSE u[s][1]]

-----------------------------------------------------------------------------
(* Run: the first setup, up to its commit or its rollback.                 *)

SetupIsOpen == run \notin {"init", "active", "stranded"}

(* The transition to active, up to WaitFirstInit; one of its calls may     *)
(* fail.  A setup that was still queued may find an update cut short.      *)
BeginSetup ==
  /\ run \in {"init", "stranded"} /\ setup < MaxSetups
  /\ setup' = setup + 1 /\ undo' = NoUndo
  /\ run' \in {"entering", "failing"}
  /\ from' = active /\ active' = "active"
  /\ UNCHANGED <<ws, config, firstInitData, mx, initializing, worker, orphaned>>

WaitFirstInit ==
  /\ run = "entering" /\ mx = None
  /\ IF firstInitData # NoSetup
     THEN run' = "refused" /\ UNCHANGED firstInitData
     ELSE run' = "registered" /\ firstInitData' = setup
  /\ UNCHANGED <<from, setup, undo, active, ws, config, mx, initializing, worker, orphaned>>

(* The refusal is an error that already lies in a channel of its own: it is*)
(* received after the publisher has been started.                          *)
StartPublisher ==
  /\ run \in {"registered", "refused"} /\ ws = "off"
  /\ ws' = "on"
  /\ run' = IF run = "registered" THEN "waiting" ELSE "receiving"
  /\ UNCHANGED <<from, setup, undo, active, config, firstInitData, mx, initializing, worker, orphaned>>

(* "publisher already started": the setup fails and leaves firstInitData.  *)
PublisherIsRunning ==
  /\ run \in {"registered", "refused"} /\ ws = "on"
  /\ run' = "failing" /\ orphaned' = TRUE
  /\ UNCHANGED <<from, setup, undo, active, ws, config, firstInitData, mx, initializing, worker>>

ReceiveRefusal ==
  /\ run = "receiving"
  /\ run' = "failing"
  /\ UNCHANGED <<from, setup, undo, active, ws, config, firstInitData, mx, initializing, worker, orphaned>>

(* "device init timeout", after two minutes.                               *)
InitTimeout ==
  /\ run = "waiting"
  /\ run' = "failing" /\ orphaned' = TRUE
  /\ UNCHANGED <<from, setup, undo, active, ws, config, firstInitData, mx, initializing, worker>>

(* The rest of the first setup, and FinishTransaction.                     *)
FinishSetup ==
  /\ run = "succeeding"
  /\ run' \in {"active", "failing"}
  /\ UNCHANGED <<from, setup, undo, active, ws, config, firstInitData, mx, initializing, worker, orphaned>>

RollbackSetup ==
  /\ run = "failing"
  /\ run' = IF from = "init" THEN "init" ELSE "stranded"
  /\ active' = from
  /\ ws' = IF from = "init" THEN "off" ELSE ws
  /\ config' = Undone(undo) /\ undo' = NoUndo
  /\ UNCHANGED <<from, setup, firstInitData, mx, initializing, worker, orphaned>>

(* The reset of a hub: the process goes on in the init state.              *)
ResetHub ==
  /\ run = "active"
  /\ run' = "init" /\ active' = "init" /\ ws' = "off"
  /\ config' = Empty
  /\ UNCHANGED <<from, setup, undo, firstInitData, mx, initializing, worker, orphaned>>

(* The rollback of an agent update ends at its checkpoint: the device stays*)
(* in maintenance, with its publisher.                                     *)
StopAtCheckpoint ==
  /\ run = "active"
  /\ run' = "stranded" /\ active' = "maintenance"
  /\ UNCHANGED <<from, setup, undo, ws, config, firstInitData, mx, initializing, worker, orphaned>>

-----------------------------------------------------------------------------
(* The handler and its goroutines.                                         *)

(* The handler of the request checks the state and isInitializing ...      *)
Handle(w) ==
  /\ pc[w] = "none" /\ ws = "on"
  /\ active = "active" /\ ~initializing
  /\ pc' = [pc EXCEPT ![w] = "checked"]
  /\ UNCHANGED <<machine, config, firstInitData, mx, initializing, tx, step, failed, own, orphaned>>

(* ... then responds and starts the goroutine; or the response is not sent.*)
Respond(w) ==
  /\ pc[w] = "checked"
  /\ \/ ws = "on" /\ pc' = [pc EXCEPT ![w] = "locking"]
     \/ pc' = [pc EXCEPT ![w] = "none"]
  /\ UNCHANGED <<machine, config, firstInitData, mx, initializing, tx, step, failed, own, orphaned>>

(* Mutant: InitDevice without the mutex. *)
LocksNothing(w) ==
  /\ pc[w] = "locking"
  /\ mx' = w /\ initializing' = TRUE
  /\ tx' = [tx EXCEPT ![w] = firstInitData]
  /\ pc' = [pc EXCEPT ![w] = "working"]
  /\ UNCHANGED <<machine, config, firstInitData, step, failed, own, orphaned>>

(* InitDevice takes the mutex, and with it the transaction of the first    *)
(* setup that waits, or else starts one of its own.                        *)
Lock(w) ==
  /\ pc[w] = "locking" /\ mx = None
  /\ mx' = w /\ initializing' = TRUE
  /\ tx' = [tx EXCEPT ![w] = firstInitData]
  /\ pc' = [pc EXCEPT ![w] = "working"]
  /\ UNCHANGED <<machine, config, firstInitData, step, failed, own, orphaned>>

StartTransactionFails(w) ==
  /\ pc[w] = "locking" /\ mx = None /\ firstInitData = NoSetup
  /\ pc' = [pc EXCEPT ![w] = "answering"]
  /\ failed' = [failed EXCEPT ![w] = TRUE]
  /\ UNCHANGED <<machine, config, firstInitData, mx, initializing, tx, step, own, orphaned>>

(* UpdateConfigWithTx: what is written on a finished transaction is written*)
(* all the same, and nothing will undo it.                                 *)
Install(w) ==
  /\ pc[w] = "working" /\ step[w] < Len(Parts)
  /\ LET s == Parts[step[w] + 1]
     IN  /\ config' = [config EXCEPT ![s] = w]
         /\ own' = IF tx[w] = NoSetup THEN [own EXCEPT ![w] = Log(@, s)] ELSE own
         /\ undo' = IF tx[w] = setup /\ tx[w] # NoSetup /\ SetupIsOpen THEN Log(undo, s) ELSE undo
  /\ step' = [step EXCEPT ![w] = @ + 1]
  /\ UNCHANGED <<run, from, setup, active, ws, firstInitData, mx, initializing, pc, tx, failed, orphaned>>

(* A write or a check (hub tunnels, websocket connection) fails.           *)
InstallFails(w) ==
  /\ pc[w] = "working" /\ step[w] < Len(Parts)
  /\ failed' = [failed EXCEPT ![w] = TRUE]
  /\ pc' = [pc EXCEPT ![w] = "reporting"] /\ initializing' = FALSE
  /\ UNCHANGED <<machine, config, firstInitData, mx, tx, step, own, orphaned>>

InstallEnds(w) ==
  /\ pc[w] = "working" /\ step[w] = Len(Parts)
  /\ pc' = [pc EXCEPT ![w] = "reporting"] /\ initializing' = FALSE
  /\ UNCHANGED <<machine, config, firstInitData, mx, tx, step, failed, own, orphaned>>

(* Mutant: firstInitData is not reset. *)
ReportsWithoutReset(w) ==
  /\ pc[w] = "reporting" /\ firstInitData # NoSetup
  /\ run = "waiting"
  /\ run' = IF failed[w] THEN "failing" ELSE "succeeding"
  /\ pc' = [pc EXCEPT ![w] = "closing"]
  /\ UNCHANGED <<from, setup, undo, active, ws, config, firstInitData, mx, initializing, tx, step, failed,
                 own, orphaned>>

(* Mutant: the deferred report does not see the error. *)
ReportsSuccess(w) ==
  /\ pc[w] = "reporting" /\ firstInitData # NoSetup
  /\ run = "waiting"
  /\ run' = "succeeding"
  /\ firstInitData' = NoSetup
  /\ pc' = [pc EXCEPT ![w] = "closing"]
  /\ UNCHANGED <<from, setup, undo, active, ws, config, mx, initializing, tx, step, failed, own, orphaned>>

(* waitFirstInitChan <- err: sender and receiver meet, or the sender blocks*)
(* with the mutex held.                                                    *)
Report(w) ==
  /\ pc[w] = "reporting" /\ firstInitData # NoSetup
  /\ run = "waiting"
  /\ run' = IF failed[w] THEN "failing" ELSE "succeeding"
  /\ firstInitData' = NoSetup
  /\ pc' = [pc EXCEPT ![w] = "closing"]
  /\ UNCHANGED <<from, setup, undo, active, ws, config, mx, initializing, tx, step, failed, own, orphaned>>

NothingToReport(w) ==
  /\ pc[w] = "reporting" /\ firstInitData = NoSetup
  /\ pc' = [pc EXCEPT ![w] = "closing"]
  /\ UNCHANGED <<machine, config, firstInitData, mx, initializing, tx, step, failed, own, orphaned>>

(* FinishTransaction of the own transaction, then the mutex is released.   *)
Unlock(w) ==
  /\ pc[w] = "closing"
  /\ config' = IF tx[w] = NoSetup /\ failed[w] THEN Undone(own[w]) ELSE config
  /\ own' = [own EXCEPT ![w] = NoUndo]
  /\ mx' = None
  /\ pc' = [pc EXCEPT ![w] = "answering"]
  /\ UNCHANGED <<machine, firstInitData, initializing, tx, step, failed, orphaned>>

(* sendInitDeviceFinished: the orchestrator is told, or, after an error    *)
(* response or five failed attempts, the connection is rebuilt.            *)
SendInitDeviceFinished(w) ==
  /\ pc[w] = "answering"
  /\ \/ ws = "on" /\ pc' = [pc EXCEPT ![w] = "told"]
     \/ pc' = [pc EXCEPT ![w] = "reconnected"]
  /\ UNCHANGED <<machine, config, firstInitData, mx, initializing, tx, step, failed, own, orphaned>>

-----------------------------------------------------------------------------
RunFirstSetup ==
  \/ WaitFirstInit \/ StartPublisher \/ PublisherIsRunning \/ ReceiveRefusal \/ InitTimeout
  \/ FinishSetup \/ RollbackSetup

InitDevice(w) ==
  \/ Respond(w) \/ Lock(w) \/ StartTransactionFails(w) \/ Install(w) \/ InstallFails(w)
  \/ InstallEnds(w) \/ Report(w) \/ NothingToReport(w) \/ Unlock(w) \/ SendInitDeviceFinished(w)

Next ==
  \/ BeginSetup \/ RunFirstSetup \/ ResetHub \/ StopAtCheckpoint
  \/ \E w \in Requests : Handle(w) \/ InitDevice(w)

Spec == Init /\ [][Next]_vars

(* The goroutines run, and the timer of the first setup fires; nobody has  *)
(* to ask for a setup, a reset or an initialisation.                       *)
FairSpec == Spec /\ WF_vars(RunFirstSetup) /\ \A w \in Requests : WF_vars(InitDevice(w))
-----------------------------------------------------------------------------
(* Properties.                                                             *)

RunPhases == {"init", "entering", "registered", "refused", "waiting", "receiving",
              "succeeding", "failing", "active", "stranded"}
AppStates == {"init", "active", "maintenance"}
Places == {"none", "checked", "locking", "working", "reporting", "closing", "answering", "told",
           "reconnected"}
Undos == [Sections -> {<<>>} \cup {<<v>> : v \in Requests \cup {None}}]

(* Every variable has its type, and whoever works, reports or closes holds *)
(* the mutex (Service.mx around InitDevice).                               *)
TypeOK ==
  /\ run \in RunPhases /\ from \in AppStates /\ setup \in 0..MaxSetups /\ undo \in Undos
  /\ active \in AppStates /\ ws \in {"on", "off"}
  /\ config \in [Sections -> Requests \cup {None}]
  /\ firstInitData \in 0..MaxSetups /\ mx \in Requests \cup {None}
  /\ initializing \in BOOLEAN /\ orphaned \in BOOLEAN
  /\ pc \in [Requests -> Places] /\ tx \in [Requests -> 0..MaxSetups]
  /\ step \in [Requests -> 0..Len(Parts)] /\ failed \in [Requests -> BOOLEAN]
  /\ own \in [Requests -> Undos]
  /\ \A w \in Requests : mx = w <=> pc[w] \in {"working", "reporting", "closing"}

(* An InitDevice that reports to a first setup finds Run there to receive: *)
(* as long as no first setup has gone without its report, nobody blocks in *)
(* the send waitFirstInitChan <- err with the mutex held.                  *)
ReportIsReceived ==
  \A w \in Requests :
    pc[w] = "reporting" /\ firstInitData # NoSetup => run \in {"registered", "waiting"} \/ orphaned

(* A first setup succeeds only when some InitDevice ran to its end, without*)
(* an error, on the transaction of that very setup.                        *)
SetupIsInitialised ==
  run \in {"succeeding", "active"} =>
    \E w \in Requests : tx[w] = setup /\ step[w] = Len(Parts) /\ ~failed[w]

(* What InitDevice installs on the transaction of a first setup it installs*)
(* while that setup waits for it, never after its commit - unless a first  *)
(* setup has gone without its report.                                      *)
InstallsWhileAwaited ==
  [][\A w \in Requests :
       step'[w] # step[w] /\ tx[w] # NoSetup =>
         \/ tx[w] = setup /\ run \in {"registered", "waiting"}
         \/ orphaned]_vars

(* Every init-device request that was accepted comes to its end, whatever  *)
(* the others hold: the orchestrator is told, or the connection is rebuilt *)
(* because it could not be - unless a first setup has gone without its     *)
(* report.                                                                 *)
RequestIsConcluded ==
  \A w \in Requests : pc[w] = "locking" ~> (pc[w] \in {"told", "reconnected"} \/ orphaned)

(* A first setup ends, at the latest with "device init timeout"            *)
(* (appstate/handlers/active.go:227).                                      *)
FirstSetupEnds == run = "entering" ~> run \in {"init", "active", "stranded"}
=============================================================================
