--------------------------- MODULE InstallProofs ----------------------------
(***************************************************************************)
(* The update of packages for any set of requests and any number of        *)
(* faults: its types, with what they say of the checkpoint, and that a     *)
(* reported success is an installation.                                    *)
(***************************************************************************)
EXTENDS Install, TLAPS

USE UpdatesAssumption, NobodyAssumption, FaultsAssumption

AgentStep ==
  \/ EnterMaintenance \/ Prepare \/ RequestInstall \/ Subscribe \/ InstallTimeout
  \/ SendInstallFinished \/ UpdateDeviceFinished \/ FinishFails

(* The ways to start the process again.                                    *)
Restarts == Crash \/ PowerLoss \/ \E u \in Updates : RestartAgent(u)

LEMMA InitTypeOK == Init => TypeOK
<1> SUFFICES ASSUME Init PROVE TypeOK
    OBVIOUS
<1>1. booting \in BOOLEAN /\ updErr \in BOOLEAN
      BY Zenon DEF Init
<1> QED BY <1>1 DEF Init, TypeOK

LEMMA AgentTypeOK == TypeOK /\ AgentStep => TypeOK'
<1> SUFFICES ASSUME TypeOK, AgentStep PROVE TypeOK'
    OBVIOUS
<1> USE DEF TypeOK, Returns, Fault, history
<1>1. CASE Prepare
  <2>1. booting' \in BOOLEAN /\ updErr' \in BOOLEAN
        BY <1>1, Zenon DEF Prepare
  <2> QED BY <1>1, <2>1 DEF Prepare
<1>2. CASE RequestInstall
  <2>1. booting' \in BOOLEAN /\ updErr' \in BOOLEAN
        BY <1>2, Zenon DEF RequestInstall
  <2> QED BY <1>2, <2>1 DEF RequestInstall
<1>3. CASE Subscribe
  <2>1. booting' \in BOOLEAN /\ updErr' \in BOOLEAN
        BY <1>3, Zenon DEF Subscribe
  <2> QED BY <1>3, <2>1 DEF Subscribe
<1>4. CASE InstallTimeout
  <2>1. booting' \in BOOLEAN /\ updErr' \in BOOLEAN
        BY <1>4, Zenon DEF InstallTimeout
  <2> QED BY <1>4, <2>1 DEF InstallTimeout
<1>5. CASE SendInstallFinished
      BY <1>5 DEF SendInstallFinished
<1>6. CASE UpdateDeviceFinished
  <2>1. booting' \in BOOLEAN /\ updErr' \in BOOLEAN
        BY <1>6, Zenon DEF UpdateDeviceFinished
  <2> QED BY <1>6, <2>1 DEF UpdateDeviceFinished, GivesUp
<1>7. CASE FinishFails
      BY <1>7 DEF FinishFails, GivesUp
<1>8. CASE EnterMaintenance
      BY <1>8 DEF EnterMaintenance
<1> QED BY <1>1, <1>2, <1>3, <1>4, <1>5, <1>6, <1>7, <1>8 DEF AgentStep

LEMMA RestartTypeOK == TypeOK /\ Restarts => TypeOK'
<1> SUFFICES ASSUME TypeOK, Restarts PROVE TypeOK'
    OBVIOUS
<1> USE DEF TypeOK, Restart, Fault, GivesUp
<1>1. CASE Crash
  <2>1. booting' \in BOOLEAN /\ updErr' \in BOOLEAN
        BY <1>1, Zenon DEF Crash
  <2> QED BY <1>1, <2>1 DEF Crash
<1>2. CASE PowerLoss
  <2>1. booting' \in BOOLEAN /\ updErr' \in BOOLEAN
        BY <1>2, Zenon DEF PowerLoss
  <2> QED BY <1>2, <2>1 DEF PowerLoss
<1>3. ASSUME NEW u \in Updates, RestartAgent(u) PROVE TypeOK'
  <2>1. booting' \in BOOLEAN /\ updErr' \in BOOLEAN
        BY <1>3, Zenon DEF RestartAgent
  <2> QED BY <1>3, <2>1 DEF RestartAgent
<1> QED BY <1>1, <1>2, <1>3 DEF Restarts

LEMMA UpdateTypeOK ==
  ASSUME TypeOK, NEW u \in Updates,
         InstallDevicePackages(u) \/ RefuseUpdate(u) \/ InstallFinished(u) \/ Installs(u)
           \/ AnnouncementLost(u)
  PROVE  TypeOK'
<1> USE DEF TypeOK, Returns, Fault, history, runVars
<1>1. CASE InstallDevicePackages(u)
      BY <1>1 DEF InstallDevicePackages
<1>2. CASE InstallFinished(u)
  <2>1. booting' \in BOOLEAN /\ updErr' \in BOOLEAN
        BY <1>2, Zenon DEF InstallFinished
  <2> QED BY <1>2, <2>1 DEF InstallFinished
<1>3. CASE Installs(u)
      BY <1>3 DEF Installs
<1>4. CASE AnnouncementLost(u)
      BY <1>4 DEF AnnouncementLost
<1>5. CASE RefuseUpdate(u)
      BY <1>5 DEF RefuseUpdate
<1> QED BY <1>1, <1>2, <1>3, <1>4, <1>5

(* The steps of Next, grouped as the lemmas are.                           *)
LEMMA NextCases ==
  [Next]_vars =>
    \/ AgentStep \/ Restarts \/ UNCHANGED vars
    \/ \E u \in Updates : \/ InstallDevicePackages(u) \/ RefuseUpdate(u) \/ InstallFinished(u)
                          \/ Installs(u) \/ AnnouncementLost(u)
BY DEF Next, RunStep, ManagerStep, AgentStep, Restarts

LEMMA NextTypeOK == TypeOK /\ [Next]_vars => TypeOK'
<1> SUFFICES ASSUME TypeOK, [Next]_vars PROVE TypeOK'
    OBVIOUS
<1>1. CASE UNCHANGED vars
      BY <1>1 DEF vars, runVars, history, TypeOK
<1> QED BY <1>1, AgentTypeOK, RestartTypeOK, UpdateTypeOK, NextCases

(* For any requests and any number of faults the variables keep their      *)
(* types, Run works for somebody exactly when it is not idle, and only an  *)
(* update of the agent leaves its checkpoint in the database.              *)
THEOREM TypeCorrect == Spec => []TypeOK
<1>1. Init => TypeOK
      BY InitTypeOK
<1>2. TypeOK /\ [Next]_vars => TypeOK'
      BY NextTypeOK
<1> QED BY <1>1, <1>2, PTL DEF Spec

-----------------------------------------------------------------------------
(* What the manager does for a request other than the current one was      *)
(* given up.                                                               *)
OthersAreLate ==
  \A u \in Updates :
    /\ u # current /\ (announced[u] = "due" \/ job[u] \in {"installing", "restarted"}) => u \in late
    /\ announced[u] # "no" => job[u] \in {"installed", "failed"}
    /\ u \notin taken => job[u] = "none" /\ announced[u] = "no"

(* The current request has been taken, and the manager is not asked early. *)
NotAsked ==
  /\ run # "active" => current \in taken
  /\ run \in {"enter", "prepare", "request"} => job[current] = "none" /\ announced[current] = "no"

Installed(u) == \E v \in late \cup {u} : job[v] = "installed"

ReportIsTrue == run = "report" /\ ~updErr => Installed(current)

InstallInv == TypeOK /\ OthersAreLate /\ NotAsked /\ ReportIsTrue /\ SuccessIsInstalled

(* What is installed stays so, and who was late is late.                   *)
Grows ==
  /\ late \subseteq late'
  /\ \A u \in Updates : job[u] = "installed" => job'[u] = "installed"

LEMMA InstalledStays ==
  ASSUME TypeOK, TypeOK', Grows, NEW u \in Updates, Installed(u)
  PROVE  Installed(u)'
BY DEF TypeOK, Grows, Installed

LEMMA ToldStays ==
  ASSUME TypeOK, TypeOK', Grows, SuccessIsInstalled, told' = told
  PROVE  SuccessIsInstalled'
<1> SUFFICES ASSUME NEW u \in Updates, told[u] = "ok" PROVE Installed(u)'
    BY DEF SuccessIsInstalled, Installed
<1>1. Installed(u)
      BY DEF SuccessIsInstalled, Installed
<1> QED BY <1>1, InstalledStays

LEMMA AgentInstallInv == InstallInv /\ TypeOK' /\ AgentStep => InstallInv'
<1> SUFFICES ASSUME InstallInv, TypeOK', AgentStep PROVE InstallInv'
    OBVIOUS
<1> USE DEF InstallInv
<1>t. TypeOK
      OBVIOUS
<1>1. CASE Prepare
  <2> USE <1>1 DEF Prepare, Returns, history
  <2>1. Grows /\ told' = told
        BY DEF Grows
  <2>2. OthersAreLate' /\ NotAsked' /\ ReportIsTrue'
        BY DEF OthersAreLate, NotAsked, ReportIsTrue, TypeOK
  <2> QED BY <1>t, <2>1, <2>2, ToldStays
<1>2. CASE RequestInstall
  <2> USE <1>2 DEF RequestInstall, Returns, history
  <2>1. current \in Updates /\ job[current] = "none" /\ announced[current] = "no"
        BY <1>t DEF TypeOK, NotAsked
  <2>2. Grows /\ told' = told
        BY <2>1 DEF Grows, TypeOK
  <2>3. OthersAreLate'
    <3>1. current \in taken
          BY DEF NotAsked
    <3> QED BY <2>1, <3>1 DEF OthersAreLate, TypeOK
  <2>4. NotAsked' /\ ReportIsTrue'
        BY DEF NotAsked, ReportIsTrue, TypeOK
  <2> QED BY <1>t, <2>2, <2>3, <2>4, ToldStays
<1>3. CASE Subscribe
  <2> USE <1>3 DEF Subscribe, Returns, history
  <2>1. Grows /\ told' = told
        BY DEF Grows
  <2>2. OthersAreLate' /\ NotAsked' /\ ReportIsTrue'
        BY DEF OthersAreLate, NotAsked, ReportIsTrue, TypeOK
  <2> QED BY <1>t, <2>1, <2>2, ToldStays
<1>4. CASE InstallTimeout
  <2> USE <1>4 DEF InstallTimeout, Returns, history
  <2>1. Grows /\ told' = told
        BY DEF Grows
  <2>2. OthersAreLate' /\ NotAsked' /\ ReportIsTrue'
        BY DEF OthersAreLate, NotAsked, ReportIsTrue, TypeOK
  <2> QED BY <1>t, <2>1, <2>2, ToldStays
<1>5. CASE SendInstallFinished
  <2> USE <1>5 DEF SendInstallFinished
  <2>1. Grows /\ current \in Updates
        BY DEF Grows, TypeOK
  <2>2. OthersAreLate' /\ NotAsked' /\ ReportIsTrue'
        BY DEF OthersAreLate, NotAsked, ReportIsTrue, TypeOK
  <2>3. ASSUME NEW u \in Updates, told'[u] = "ok" PROVE Installed(u)'
    <3>1. Installed(u)
          BY <2>1, <2>3 DEF SuccessIsInstalled, ReportIsTrue, Installed, TypeOK
    <3> QED BY <1>t, <2>1, <3>1, InstalledStays
  <2>4. SuccessIsInstalled'
        BY <2>3 DEF SuccessIsInstalled, Installed
  <2> QED BY <2>2, <2>4
<1>6. CASE UpdateDeviceFinished
  <2> USE <1>6 DEF UpdateDeviceFinished, GivesUp
  <2>1. Grows /\ told' = told
        BY DEF Grows
  <2>2. OthersAreLate' /\ NotAsked' /\ ReportIsTrue'
        BY DEF OthersAreLate, NotAsked, ReportIsTrue, TypeOK
  <2> QED BY <1>t, <2>1, <2>2, ToldStays
<1>7. CASE FinishFails
  <2> USE <1>7 DEF FinishFails, GivesUp
  <2>1. Grows /\ told' = told
        BY DEF Grows
  <2>2. OthersAreLate' /\ NotAsked' /\ ReportIsTrue'
        BY DEF OthersAreLate, NotAsked, ReportIsTrue, TypeOK
  <2> QED BY <1>t, <2>1, <2>2, ToldStays
<1>8. CASE EnterMaintenance
  <2> USE <1>8 DEF EnterMaintenance
  <2>1. Grows /\ told' = told
        BY DEF Grows
  <2>2. OthersAreLate' /\ NotAsked' /\ ReportIsTrue'
        BY DEF OthersAreLate, NotAsked, ReportIsTrue, TypeOK
  <2> QED BY <1>t, <2>1, <2>2, ToldStays
<1> QED BY <1>1, <1>2, <1>3, <1>4, <1>5, <1>6, <1>7, <1>8 DEF AgentStep

LEMMA RestartInstallInv == InstallInv /\ TypeOK' /\ Restarts => InstallInv'
<1> SUFFICES ASSUME InstallInv, TypeOK', Restarts PROVE InstallInv'
    OBVIOUS
<1>t. TypeOK
      BY DEF InstallInv
<1>1. ASSUME Restart, Grows, told' = told, OthersAreLate, taken' = taken,
             \A u \in Updates :
               /\ job'[u] \in {"installing", "restarted"} => job[u] \in {"installing", "restarted"}
               /\ announced'[u] = "due" => announced[u] = "due"
               /\ announced'[u] # "no" => announced[u] # "no"
               /\ job[u] \in {"none", "installed", "failed"} => job'[u] = job[u]
               /\ announced[u] = "no" => announced'[u] = "no"
      PROVE  InstallInv'
  <2>1. OthersAreLate'
        BY <1>1, <1>t DEF Restart, GivesUp, OthersAreLate, TypeOK, Grows
  <2>2. NotAsked' /\ ReportIsTrue'
        BY <1>1, <1>t DEF Restart, NotAsked, ReportIsTrue, TypeOK, InstallInv
  <2> QED BY <1>1, <1>t, <2>1, <2>2, ToldStays DEF InstallInv
<1>2. ASSUME Restart PROVE late \subseteq late'
      BY <1>2 DEF Restart, GivesUp
<1>3. CASE Crash
      BY <1>1, <1>2, <1>3 DEF Crash, Grows, InstallInv
<1>4. CASE PowerLoss
      BY <1>1, <1>2, <1>4, <1>t DEF PowerLoss, Grows, InstallInv, TypeOK
<1>5. ASSUME NEW u \in Updates, RestartAgent(u) PROVE InstallInv'
      BY <1>1, <1>2, <1>5, <1>t DEF RestartAgent, Grows, InstallInv, TypeOK
<1> QED BY <1>3, <1>4, <1>5 DEF Restarts

LEMMA UpdateInstallInv ==
  ASSUME InstallInv, TypeOK', NEW u \in Updates,
         InstallDevicePackages(u) \/ RefuseUpdate(u) \/ InstallFinished(u) \/ Installs(u)
           \/ AnnouncementLost(u)
  PROVE  InstallInv'
<1> USE DEF InstallInv
<1>t. TypeOK
      OBVIOUS
<1>1. CASE InstallDevicePackages(u)
  <2> USE <1>1 DEF InstallDevicePackages, history
  <2>1. Grows /\ told' = told
        BY DEF Grows
  <2>2. OthersAreLate' /\ NotAsked' /\ ReportIsTrue'
        BY DEF OthersAreLate, NotAsked, ReportIsTrue, TypeOK
  <2> QED BY <1>t, <2>1, <2>2, ToldStays
<1>2. CASE InstallFinished(u)
  <2> USE <1>2 DEF InstallFinished, Returns, history
  <2>1. Grows /\ told' = told
        BY DEF Grows
  <2>2. OthersAreLate' /\ NotAsked'
        BY DEF OthersAreLate, NotAsked, TypeOK
  <2>3. u \in late \cup {current}
        BY DEF OthersAreLate
  <2>4. ReportIsTrue'
        BY <2>3 DEF ReportIsTrue, Installed, TypeOK
  <2> QED BY <1>t, <2>1, <2>2, <2>4, ToldStays
<1>3. CASE Installs(u)
  <2> USE <1>3 DEF Installs, runVars, history
  <2>1. Grows /\ told' = told
        BY DEF Grows, TypeOK
  <2>2. u \in taken /\ (u = current => run \notin {"enter", "prepare", "request"})
        BY DEF OthersAreLate, NotAsked
  <2>3. OthersAreLate'
        BY <2>2 DEF OthersAreLate, TypeOK
  <2>4. NotAsked'
        BY <2>2 DEF NotAsked, TypeOK
  <2>5. ReportIsTrue'
    <3> SUFFICES ASSUME run = "report", ~updErr PROVE Installed(current)'
        BY DEF ReportIsTrue
    <3>1. current \in Updates /\ Installed(current)
          BY DEF ReportIsTrue, TypeOK
    <3> QED BY <1>t, <2>1, <3>1, InstalledStays DEF Installed
  <2> QED BY <1>t, <2>1, <2>3, <2>4, <2>5, ToldStays
<1>4. CASE AnnouncementLost(u)
  <2> USE <1>4 DEF AnnouncementLost, runVars, history
  <2>1. Grows /\ told' = told
        BY DEF Grows
  <2>2. OthersAreLate'
        BY DEF OthersAreLate, TypeOK
  <2>3. NotAsked' /\ ReportIsTrue'
        BY DEF NotAsked, ReportIsTrue, Installed, TypeOK
  <2> QED BY <1>t, <2>1, <2>2, <2>3, ToldStays
<1>5. CASE RefuseUpdate(u)
  <2> USE <1>5 DEF RefuseUpdate
  <2>1. Grows /\ told' = told
        BY DEF Grows
  <2>2. OthersAreLate' /\ NotAsked'
        BY DEF OthersAreLate, NotAsked, TypeOK
  <2>3. ReportIsTrue'
        BY DEF ReportIsTrue
  <2> QED BY <1>t, <2>1, <2>2, <2>3, ToldStays
<1> QED BY <1>1, <1>2, <1>3, <1>4, <1>5

LEMMA NextInstallInv == InstallInv /\ [Next]_vars => InstallInv'
<1> SUFFICES ASSUME InstallInv, [Next]_vars PROVE InstallInv'
    OBVIOUS
<1>1. TypeOK'
      BY NextTypeOK DEF InstallInv
<1>2. CASE UNCHANGED vars
      BY <1>2 DEF vars, runVars, history, InstallInv, TypeOK, OthersAreLate, NotAsked,
                  ReportIsTrue, Installed, SuccessIsInstalled
<1> QED BY <1>1, <1>2, NextCases, AgentInstallInv, RestartInstallInv, UpdateInstallInv

(* For any requests, any number of faults and any behaviour of the update  *)
(* manager: a reported success is an installation, of the request's own    *)
(* packages or of those of a request given up earlier                      *)
(* (maintenance.go:199-237).                                               *)
THEOREM SuccessInstalled == Spec => []SuccessIsInstalled
<1>1. Init => InstallInv
      BY InitTypeOK DEF Init, InstallInv, OthersAreLate, NotAsked, ReportIsTrue, SuccessIsInstalled
<1>2. InstallInv /\ [Next]_vars => InstallInv'
      BY NextInstallInv
<1>3. InstallInv => SuccessIsInstalled
      BY DEF InstallInv
<1> QED BY <1>1, <1>2, <1>3, PTL DEF Spec
=============================================================================
