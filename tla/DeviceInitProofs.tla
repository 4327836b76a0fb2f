-------------------------- MODULE DeviceInitProofs --------------------------
(***************************************************************************)
(* First setup and initialisation for any number of requests and setups.   *)
(* The types come with mutual exclusion; on them rests what the holder of  *)
(* the mutex knows of firstInitData, and on that who meets whom on the     *)
(* channel.                                                                *)
(***************************************************************************)
EXTENDS DeviceInit, TLAPS

LEMMA PartsFacts ==
  /\ Len(Parts) = 2
  /\ \A i \in 1..2 : Parts[i] \in Sections
  BY DEF Parts, Sections

LEMMA UndoTyped ==
  ASSUME config \in [Sections -> Requests \cup {None}], NEW u \in Undos
  PROVE  /\ \A s \in Sections : Log(u, s) \in Undos
         /\ Undone(u) \in [Sections -> Requests \cup {None}]
<1>1. \A s \in Sections : <<config[s]>> \in {<<v>> : v \in Requests \cup {None}}
      OBVIOUS
<1>2. \A s \in Sections : u[s] # <<>> => u[s][1] \in Requests \cup {None}
      BY DEF Undos
<1>3. \A s \in Sections : Log(u, s) \in Undos
      BY <1>1 DEF Log, Undos
<1> QED BY <1>2, <1>3 DEF Undone

LEMMA EmptyTyped == NoUndo \in Undos /\ Empty \in [Sections -> Requests \cup {None}]
  BY DEF NoUndo, Undos, Empty

(* The Boolean variables.                                                  *)
BooleansOK == initializing \in BOOLEAN /\ orphaned \in BOOLEAN

LEMMA NextBooleans == BooleansOK /\ [Next]_vars => BooleansOK'
  BY ZenonT(30) DEF BooleansOK, Next, RunFirstSetup, InitDevice, BeginSetup, WaitFirstInit, StartPublisher, PublisherIsRunning,
     ReceiveRefusal, InitTimeout, FinishSetup, RollbackSetup, ResetHub, StopAtCheckpoint, Handle, Respond, Lock,
     StartTransactionFails, Install, InstallFails, InstallEnds, Report, NothingToReport, Unlock,
     SendInitDeviceFinished, vars

LEMMA InitTypeOK == Init => TypeOK
<1> SUFFICES ASSUME Init PROVE TypeOK
    OBVIOUS
<1>1. initializing \in BOOLEAN /\ orphaned \in BOOLEAN
      BY Zenon DEF Init
<1> QED BY <1>1, EmptyTyped, SetupsAssumption, RequestsAssumption, PartsFacts
        DEF Init, TypeOK, RunPhases, AppStates, Places, NoSetup

LEMMA NextTypeOK == TypeOK /\ [Next]_vars => TypeOK'
<1> SUFFICES ASSUME TypeOK, [Next]_vars PROVE TypeOK'
    OBVIOUS
<1>0. initializing' \in BOOLEAN /\ orphaned' \in BOOLEAN
      BY NextBooleans DEF BooleansOK, TypeOK
<1> USE <1>0, SetupsAssumption, RequestsAssumption, PartsFacts, EmptyTyped
    DEF TypeOK, RunPhases, AppStates, Places, machine, worker, NoSetup
<1>1. CASE BeginSetup
      BY <1>1 DEF BeginSetup
<1>2. CASE WaitFirstInit
      BY <1>2 DEF WaitFirstInit
<1>3. CASE StartPublisher \/ PublisherIsRunning \/ ReceiveRefusal \/ InitTimeout \/ FinishSetup
      BY <1>3 DEF StartPublisher, PublisherIsRunning, ReceiveRefusal, InitTimeout, FinishSetup
<1>4. CASE RollbackSetup
  <2>1. Undone(undo) \in [Sections -> Requests \cup {None}]
        BY UndoTyped
  <2> QED BY <1>4, <2>1 DEF RollbackSetup
<1>5. CASE ResetHub \/ StopAtCheckpoint
      BY <1>5 DEF ResetHub, StopAtCheckpoint
<1>6. ASSUME NEW w \in Requests, Handle(w) \/ InitDevice(w) PROVE TypeOK'
  <2>1. CASE Handle(w)
        BY <2>1 DEF Handle
  <2>2. CASE Respond(w)
        BY <2>2 DEF Respond
  <2>3. CASE Lock(w)
        BY <2>3 DEF Lock
  <2>4. CASE StartTransactionFails(w)
        BY <2>4 DEF StartTransactionFails
  <2>5. CASE Install(w)
    <3> DEFINE s == Parts[step[w] + 1]
    <3>1. s \in Sections
          BY <2>5 DEF Install
    <3>2. own[w] \in Undos /\ Log(undo, s) \in Undos /\ Log(own[w], s) \in Undos
          BY <3>1, UndoTyped
    <3> HIDE DEF s
    <3>3. /\ config' = [config EXCEPT ![s] = w]
          /\ own' = IF tx[w] = NoSetup THEN [own EXCEPT ![w] = Log(own[w], s)] ELSE own
          /\ undo' = IF tx[w] = setup /\ tx[w] # NoSetup /\ SetupIsOpen THEN Log(undo, s) ELSE undo
          /\ step' = [step EXCEPT ![w] = step[w] + 1] /\ step[w] < 2
          /\ UNCHANGED <<run, from, setup, active, ws, firstInitData, mx, initializing, pc, tx, failed, orphaned>>
          BY <2>5 DEF Install, s
    <3>4. config' \in [Sections -> Requests \cup {None}]
          BY <3>1, <3>3
    <3>5. undo' \in Undos /\ own' \in [Requests -> Undos]
          BY <3>2, <3>3
    <3>6. step' \in [Requests -> 0..Len(Parts)]
          BY <3>3
    <3> QED BY <3>3, <3>4, <3>5, <3>6
  <2>6. CASE InstallFails(w)
        BY <2>6 DEF InstallFails
  <2>7. CASE InstallEnds(w)
        BY <2>7 DEF InstallEnds
  <2>8. CASE Report(w)
        BY <2>8 DEF Report
  <2>9. CASE NothingToReport(w)
        BY <2>9 DEF NothingToReport
  <2>10. CASE Unlock(w)
    <3>1. Undone(own[w]) \in [Sections -> Requests \cup {None}]
          BY UndoTyped
    <3> QED BY <2>10, <3>1 DEF Unlock
  <2>11. CASE SendInitDeviceFinished(w)
         BY <2>11 DEF SendInitDeviceFinished
  <2> QED BY <1>6, <2>1, <2>2, <2>3, <2>4, <2>5, <2>6, <2>7, <2>8, <2>9, <2>10, <2>11 DEF InitDevice
<1>7. CASE UNCHANGED vars
      BY <1>7 DEF vars
<1> QED BY <1>1, <1>2, <1>3, <1>4, <1>5, <1>6, <1>7 DEF Next, RunFirstSetup

(* For any number of requests and first setups every variable has its type *)
(* and whoever works, reports or closes holds the mutex.                   *)
THEOREM TypeCorrect == Spec => []TypeOK
<1>1. Init => TypeOK
      BY InitTypeOK
<1>2. TypeOK /\ [Next]_vars => TypeOK'
      BY NextTypeOK
<1> QED BY <1>1, <1>2, PTL DEF Spec

-----------------------------------------------------------------------------
(* What the holder of the mutex knows: firstInitData is what it has seen   *)
(* when it took the mutex.  A setup that waits has stored itself there,    *)
(* and nobody else has, as long as no setup has gone without its report.  A*)
(* setup that succeeds was told so by a worker that had finished on its    *)
(* transaction.                                                            *)
HolderInv ==
  \A w \in Requests :
    /\ pc[w] \in {"working", "reporting"} => tx[w] = firstInitData
    /\ pc[w] = "reporting" /\ ~failed[w] => step[w] = Len(Parts)

SetupInv ==
  /\ run # "init" => setup # NoSetup
  /\ run \in {"registered", "waiting"} => firstInitData = setup
  /\ firstInitData # NoSetup => run \in {"registered", "waiting"} \/ orphaned
  /\ run \in {"succeeding", "active"} =>
       \E w \in Requests : /\ tx[w] = setup /\ step[w] = Len(Parts) /\ ~failed[w]
                           /\ pc[w] \in {"closing", "answering", "told", "reconnected"}

InitInv == TypeOK /\ HolderInv /\ SetupInv

LEMMA NextHolder == InitInv /\ [Next]_vars => HolderInv'
<1> SUFFICES ASSUME InitInv, [Next]_vars PROVE HolderInv'
    OBVIOUS
<1> USE RequestsAssumption, PartsFacts DEF InitInv, TypeOK, HolderInv, machine, worker
<1>1. CASE RunFirstSetup \/ BeginSetup \/ ResetHub \/ StopAtCheckpoint
      BY <1>1 DEF RunFirstSetup, BeginSetup, WaitFirstInit, StartPublisher, PublisherIsRunning, ReceiveRefusal, InitTimeout,
                  FinishSetup, RollbackSetup, ResetHub, StopAtCheckpoint
<1>2. ASSUME NEW w \in Requests, Handle(w) \/ InitDevice(w) PROVE HolderInv'
  <2>1. CASE Handle(w) \/ Respond(w) \/ Lock(w) \/ StartTransactionFails(w)
        BY <2>1 DEF Handle, Respond, Lock, StartTransactionFails
  <2>2. CASE Install(w)
        BY <2>2 DEF Install
  <2>3. CASE InstallFails(w)
        BY <2>3 DEF InstallFails
  <2>4. CASE InstallEnds(w)
        BY <2>4 DEF InstallEnds
  <2>5. CASE Report(w)
        BY <2>5 DEF Report
  <2>6. CASE NothingToReport(w) \/ Unlock(w) \/ SendInitDeviceFinished(w)
        BY <2>6 DEF NothingToReport, Unlock, SendInitDeviceFinished
  <2> QED BY <1>2, <2>1, <2>2, <2>3, <2>4, <2>5, <2>6 DEF InitDevice
<1>3. CASE UNCHANGED vars
      BY <1>3 DEF vars
<1> QED BY <1>1, <1>2, <1>3 DEF Next

LEMMA NextSetup == InitInv /\ [Next]_vars => SetupInv'
<1> SUFFICES ASSUME InitInv, [Next]_vars PROVE SetupInv'
    OBVIOUS
<1> USE SetupsAssumption, PartsFacts DEF InitInv, TypeOK, HolderInv, SetupInv, machine, worker, NoSetup
<1>1. CASE RunFirstSetup \/ BeginSetup \/ ResetHub \/ StopAtCheckpoint
  <2>1. CASE BeginSetup
        BY <2>1 DEF BeginSetup
  <2>2. CASE WaitFirstInit
        BY <2>2 DEF WaitFirstInit
  <2>3. CASE StartPublisher \/ ReceiveRefusal
        BY <2>3 DEF StartPublisher, PublisherIsRunning, ReceiveRefusal
  <2>4. CASE InitTimeout
    <3>1. orphaned'
          BY <2>4, Zenon DEF InitTimeout
    <3> QED BY <2>4, <3>1 DEF InitTimeout
  <2>5. CASE FinishSetup
        BY <2>5 DEF FinishSetup
  <2>6. CASE RollbackSetup \/ ResetHub \/ StopAtCheckpoint
        BY <2>6 DEF RollbackSetup, ResetHub, StopAtCheckpoint
  <2>7. CASE PublisherIsRunning
    <3>1. orphaned'
          BY <2>7, Zenon DEF PublisherIsRunning
    <3> QED BY <2>7, <3>1 DEF PublisherIsRunning
  <2> QED BY <1>1, <2>1, <2>2, <2>3, <2>4, <2>5, <2>6, <2>7 DEF RunFirstSetup
<1>2. ASSUME NEW w \in Requests, Handle(w) \/ InitDevice(w) PROVE SetupInv'
  <2>1. CASE Report(w)
        BY <2>1 DEF Report
  <2>2. CASE Handle(w) \/ Respond(w) \/ Lock(w) \/ StartTransactionFails(w)
        BY <2>2 DEF Handle, Respond, Lock, StartTransactionFails
  <2>3. CASE Install(w)
        BY <2>3 DEF Install
  <2>4. CASE InstallFails(w) \/ InstallEnds(w) \/ NothingToReport(w)
        BY <2>4 DEF InstallFails, InstallEnds, NothingToReport
  <2>5. CASE Unlock(w) \/ SendInitDeviceFinished(w)
        BY <2>5 DEF Unlock, SendInitDeviceFinished
  <2> QED BY <1>2, <2>1, <2>2, <2>3, <2>4, <2>5 DEF InitDevice
<1>3. CASE UNCHANGED vars
      BY <1>3 DEF vars
<1> QED BY <1>1, <1>2, <1>3 DEF Next

LEMMA Initialisation == Spec => []InitInv
<1>1. Init => InitInv
  <2>1. Init => HolderInv /\ SetupInv
        BY DEF Init, HolderInv, SetupInv, NoSetup
  <2> QED BY <2>1, InitTypeOK DEF InitInv
<1>2. InitInv /\ [Next]_vars => InitInv'
      BY NextTypeOK, NextHolder, NextSetup DEF InitInv
<1> QED BY <1>1, <1>2, PTL DEF Spec

(* For any number of requests and first setups: as long as none has gone   *)
(* without its report, an InitDevice that reports finds Run there to       *)
(* receive (deviceinit/service.go:167-176).                                *)
THEOREM ReportReceived == Spec => []ReportIsReceived
<1>1. InitInv => ReportIsReceived
      BY DEF InitInv, SetupInv, ReportIsReceived
<1> QED BY <1>1, Initialisation, PTL

(* For any number of requests and first setups: a setup succeeds only when *)
(* some InitDevice ran to its end on the transaction of that very setup    *)
(* (active.go:223-252), time-outs of earlier ones included.                *)
THEOREM SetupInitialised == Spec => []SetupIsInitialised
<1>1. InitInv => SetupIsInitialised
      BY DEF InitInv, SetupInv, SetupIsInitialised
<1> QED BY <1>1, Initialisation, PTL

(* For any number of requests and first setups: as long as none has gone   *)
(* without its report, what is installed on the transaction of a setup is  *)
(* installed while it waits (deviceinit/service.go:152-154).               *)
THEOREM AwaitedInstalls == Spec => InstallsWhileAwaited
<1>1. InitInv /\ [Next]_vars =>
        [\A w \in Requests :
           step'[w] # step[w] /\ tx[w] # NoSetup =>
             \/ tx[w] = setup /\ run \in {"registered", "waiting"}
             \/ orphaned]_vars
  <2> SUFFICES ASSUME InitInv, Next, NEW w \in Requests, step'[w] # step[w], tx[w] # NoSetup, ~orphaned
               PROVE  tx[w] = setup /\ run \in {"registered", "waiting"}
      BY Zenon
  <2>1. Install(w)
        BY DEF InitInv, TypeOK, Next, RunFirstSetup, InitDevice, BeginSetup, WaitFirstInit, StartPublisher, PublisherIsRunning,
               ReceiveRefusal, InitTimeout, FinishSetup, RollbackSetup, ResetHub, StopAtCheckpoint, Handle, Respond, Lock,
               StartTransactionFails, Install, InstallFails, InstallEnds, Report, NothingToReport, Unlock,
               SendInitDeviceFinished, machine, worker
  <2>2. tx[w] = firstInitData
        BY <2>1 DEF InitInv, HolderInv, Install
  <2> QED BY <2>2 DEF InitInv, SetupInv
<1> QED BY <1>1, Initialisation, PTL DEF Spec, InstallsWhileAwaited
=============================================================================
