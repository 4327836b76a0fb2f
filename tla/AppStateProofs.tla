--------------------------- MODULE AppStateProofs ---------------------------
(* Theorems about AppState, for every value of its constants. *)
EXTENDS AppState, TLAPS

-----------------------------------------------------------------------------
(* Patches.                                                                *)

(* "keep" is no value of a resource, so a patch is unambiguous. *)
LEMMA KeepIsNoValue == \A r \in Resources : Keep \notin Domain(r)
BY ValuesAssumption DEF Domain, Keep, None, AppStates, OnOff, Resources, Persisted, Daemons, Volatile

(* Writing one resource is a patch when the value is one of its domain. *)
LEMMA SetType ==
  ASSUME NEW res \in Resources, NEW val \in Domain(res) \cup {Keep}
  PROVE  Set(res, val) \in Patches
<1> \A r \in Resources : Set(res, val)[r] \in Domain(r) \cup {Keep}
  BY DEF Set
<1> QED
  BY DEF Set, Patches, Values

(* The empty patch is a patch. *)
LEMMA NoChangeType == NoChange \in Patches
BY DEF NoChange, Patches

(* Applying a patch to a device gives a device. *)
LEMMA ApplyType ==
  ASSUME NEW p \in Patches, NEW d \in Devices
  PROVE  Apply(p, d) \in Devices
<1> \A r \in Resources : Apply(p, d)[r] \in Domain(r)
  BY DEF Apply, Patches, Devices
<1> QED
  BY DEF Apply, Devices, Values

(* Applying a patch to a patch gives a patch. *)
LEMMA ApplyPatchType ==
  ASSUME NEW p \in Patches, NEW q \in Patches
  PROVE  Apply(p, q) \in Patches
<1> \A r \in Resources : Apply(p, q)[r] \in Domain(r) \cup {Keep}
  BY DEF Apply, Patches
<1> QED
  BY DEF Apply, Patches, Values

(* Changing one resource of a patch or of a device within its domain. *)
LEMMA ExceptType ==
  ASSUME NEW r \in Resources
  PROVE  /\ \A p \in Patches, v \in Domain(r) \cup {Keep} : [p EXCEPT ![r] = v] \in Patches
         /\ \A d \in Devices, v \in Domain(r) : [d EXCEPT ![r] = v] \in Devices
<1>1. \A v \in Domain(r) : v \in Values
  BY DEF Values
<1>2. ASSUME NEW p \in Patches, NEW v \in Domain(r) \cup {Keep}
      PROVE  [p EXCEPT ![r] = v] \in Patches
  BY <1>1 DEF Patches
<1>3. ASSUME NEW d \in Devices, NEW v \in Domain(r)
      PROVE  [d EXCEPT ![r] = v] \in Devices
  BY <1>1 DEF Devices
<1> QED
  BY <1>2, <1>3

(* Recording a call in an undo log gives an undo log. *)
LEMMA RecordType ==
  ASSUME NEW c \in Calls, NEW u \in Patches, NEW d \in Devices
  PROVE  Record(c, u, d) \in Patches
<1> \A r \in Resources : Record(c, u, d)[r] \in Domain(r) \cup {Keep}
  BY DEF Record, Patches, Devices, Calls
<1> QED
  BY DEF Record, Patches, Values

(* The values the handlers write belong to the domains they write to. *)
LEMMA DomainFacts ==
  /\ \A r \in Daemons \cup {"ws", "mqInit", "mqActive", "pony", "db", "deactivate"} :
        r \in Resources /\ Domain(r) = OnOff
  /\ \A r \in Persisted \cup {"env"} : r \in Resources /\ None \in Domain(r)
  /\ "reboot" \in Resources /\ Domain("reboot") = {None, "pending", "failed"}
  /\ "active" \in Resources /\ Domain("active") = AppStates
  /\ Domain("state") = (AppStates \ {"boot"}) \cup {None}
  /\ Domain("serial") = Serials \cup {None} /\ Domain("env") = Serials \cup {None}
  /\ Domain("port") = Ports \cup {None} /\ Domain("services") = Services \cup {None}
BY DEF Domain, Resources, Persisted, Daemons, Volatile, OnOff
-----------------------------------------------------------------------------
(* The handlers make well-typed calls.  Nearly all are plain: they leave   *)
(* the database open, and what they write to the configuration is recorded *)
(* with its old value in the persisted undo log.                           *)

Recorded(c) ==
  \A r \in Persisted : IF c.log = "activity" THEN c.inv[r] = Keep ELSE c.set[r] = Keep
Plain(c) == c.set["db"] = Keep /\ Recorded(c)

PlainCalls == {c \in Calls : Plain(c)}

(* Pieces of configuration are configurations. *)
LEMMA ConfigTypes ==
  /\ NoChange \in Configs
  /\ \A r \in Persisted : \A v \in Domain(r) \cup {Keep} : Set(r, v) \in Configs
<1>1. NoChange \in Configs
  BY NoChangeType DEF Configs, NoChange
<1>2. ASSUME NEW r \in Persisted, NEW v \in Domain(r) \cup {Keep}
      PROVE  Set(r, v) \in Configs
  <2>1. Set(r, v) \in Patches
    BY SetType, DomainFacts
  <2> QED
    BY <2>1 DEF Configs, Set
<1> QED
  BY <1>1, <1>2

(* A recorded write of configuration is a plain call. *)
LEMMA ConfigCallTypes ==
  ASSUME NEW p \in Configs
  PROVE  /\ Execute(p) \in PlainCalls
         /\ \A e \in Errs : Call(p, "activity", e) \in PlainCalls
<1>1. p \in Patches /\ p["db"] = Keep
  BY DEF Configs, Resources, Volatile, Persisted
<1>2. \A e \in Errs : Call(p, "activity", e) \in Calls
  BY <1>1, NoChangeType DEF Call, Calls, Logs
<1>3. \A e \in Errs : Plain(Call(p, "activity", e))
  BY <1>1 DEF Plain, Recorded, Call, NoChange, Persisted, Resources
<1> QED
  BY <1>2, <1>3 DEF Execute, PlainCalls, Errs

(* Checks and checkpoints are plain calls. *)
LEMMA CheckTypes ==
  ASSUME NEW e \in Errs
  PROVE  Check(e) \in PlainCalls /\ CheckPoint(e) \in PlainCalls
<1>1. Check(e) \in Calls /\ CheckPoint(e) \in Calls
  BY NoChangeType DEF Check, CheckPoint, Call, Calls, Logs, Errs
<1>2. Plain(Check(e)) /\ Plain(CheckPoint(e))
  BY DomainFacts DEF Plain, Recorded, Check, CheckPoint, Call, NoChange
<1> QED
  BY <1>1, <1>2 DEF PlainCalls

(* Everything but the configuration and the database. *)
ServiceResources ==
  Daemons \cup {"env", "active", "ws", "mqInit", "mqActive", "pony", "reboot", "deactivate"}

(* Starting and stopping services are plain calls. *)
LEMMA ServiceCallTypes ==
  ASSUME NEW r \in ServiceResources, NEW v \in Domain(r)
  PROVE  /\ Func(r, v) \in PlainCalls /\ Now(r, v) \in PlainCalls /\ Logged(Set(r, v)) \in PlainCalls
         /\ \A l \in Logs, e \in Errs : Call(Set(r, v), l, e) \in PlainCalls
         /\ \A u \in Domain(r) : Command(r, v, u) \in PlainCalls
<1>1. r \in Resources /\ r \notin Persisted /\ r # "db"
  BY DEF ServiceResources, Resources, Persisted, Daemons, Volatile
<1>2. \A u \in Domain(r) :
        /\ Set(r, u) \in Patches
        /\ Set(r, u)["db"] = Keep
        /\ \A q \in Persisted : Set(r, u)[q] = Keep
  BY <1>1, SetType, DomainFacts DEF Set
<1>3. \A l \in Logs, e \in Errs : Call(Set(r, v), l, e) \in PlainCalls
  <2> TAKE l \in Logs, e \in Errs
  <2>1. Call(Set(r, v), l, e) \in Calls
    BY <1>2, NoChangeType DEF Call, Calls
  <2>2. Plain(Call(Set(r, v), l, e))
    BY <1>2, DomainFacts DEF Plain, Recorded, Call, NoChange
  <2> QED
    BY <2>1, <2>2 DEF PlainCalls
<1>4. ASSUME NEW u \in Domain(r)
      PROVE  Command(r, v, u) \in PlainCalls
  <2>1. Command(r, v, u) \in Calls
    BY <1>2 DEF Command, Calls, Logs, Errs
  <2>2. Plain(Command(r, v, u))
    BY <1>2 DEF Plain, Recorded, Command
  <2> QED
    BY <2>1, <2>2 DEF PlainCalls
<1> QED
  BY <1>3, <1>4 DEF Func, Now, Logged, Logs, Errs

(* Switching a service on or off, in each of the ways the handlers do. *)
LEMMA OnOffCallTypes ==
  \A r \in Daemons \cup {"ws", "mqInit", "mqActive", "pony", "deactivate"}, v \in OnOff :
     /\ Func(r, v) \in PlainCalls /\ Now(r, v) \in PlainCalls /\ Logged(Set(r, v)) \in PlainCalls
     /\ \A u \in OnOff : Command(r, v, u) \in PlainCalls
<1> TAKE r \in Daemons \cup {"ws", "mqInit", "mqActive", "pony", "deactivate"}, v \in OnOff
<1>1. r \in ServiceResources /\ Domain(r) = OnOff
  BY DomainFacts DEF ServiceResources
<1> QED
  BY <1>1, ServiceCallTypes

(* ForCPE keeps or drops its calls. *)
LEMMA ForCPEType ==
  ASSUME NEW s \in Seq(PlainCalls)
  PROVE  ForCPE(s) \in Seq(PlainCalls)
BY DEF ForCPE

(* Subscribing and unsubscribing are plain calls. *)
LEMMA SubscribeTypes ==
  /\ SubscribeInit \in PlainCalls /\ UnsubscribeInit \in PlainCalls
  /\ SubscribeActive \in PlainCalls /\ UnsubscribeActive \in PlainCalls
BY OnOffCallTypes DEF SubscribeInit, UnsubscribeInit, SubscribeActive, UnsubscribeActive, OnOff

(* The init handler. *)
LEMMA HandleInitType ==
  ASSUME NEW tr \in Transitions, NEW d \in Devices
  PROVE  HandleInit(tr, d) \in Seq(PlainCalls)
<1> DEFINE a == <<SubscribeInit, Logged(Set("umEnabled", "off")), Logged(Set("um", "off"))>>
           b == <<Func("starter", "on"), Func("dhcp", "on")>>
<1>1. a \in Seq(PlainCalls) /\ b \in Seq(PlainCalls) /\ <<SubscribeInit>> \in Seq(PlainCalls)
  BY OnOffCallTypes, SubscribeTypes DEF Daemons, OnOff
<1>2. RestoreInitState \in Seq(PlainCalls)
  <2>1. RestoreInitState = a \o ForCPE(b)
    BY DEF RestoreInitState
  <2> HIDE DEF a, b
  <2> QED
    BY <2>1, <1>1, ForCPEType
<1> QED
  BY <1>1, <1>2 DEF HandleInit

(* Transitions carry configuration, and so does a device. *)
LEMMA ArgumentTypes ==
  ASSUME NEW tr \in Transitions, NEW d \in Devices
  PROVE  /\ tr.arg \in Configs
         /\ \A r \in Persisted : Set(r, tr.arg[r]) \in Configs /\ Set(r, d[r]) \in Configs
         /\ tr.to \in Domain("state") /\ tr.to \in Domain("active")
<1>1. tr.arg \in Configs
  BY DEF Transitions
<1>2. \A r \in Persisted : tr.arg[r] \in Domain(r) \cup {Keep} /\ d[r] \in Domain(r)
  BY <1>1, DomainFacts DEF Configs, Patches, Devices
<1>3. tr.to \in Domain("state") /\ tr.to \in Domain("active")
  BY DomainFacts DEF Transitions
<1> QED
  BY <1>1, <1>2, <1>3, ConfigTypes

(* The ztp_setup handler. *)
LEMMA HandleZTPSetupType ==
  ASSUME NEW tr \in Transitions, NEW d \in Devices
  PROVE  HandleZTPSetup(tr, d) \in Seq(PlainCalls)
BY ArgumentTypes, ConfigCallTypes, ConfigTypes, CheckTypes
   DEF HandleZTPSetup, SetHubPort, DeleteHubPort, Errs

(* The first setup, with the device initialisation it waits for. *)
LEMMA InitDeviceType ==
  ASSUME NEW tr \in Transitions
  PROVE  InitDevice(tr) \in Seq(PlainCalls)
<1>2. \A r \in Persisted : Set(r, tr.arg[r]) \in Configs
  <2>1. \A r \in Persisted : tr.arg[r] \in Domain(r) \cup {Keep}
    BY DomainFacts DEF Transitions, Configs, Patches
  <2> QED
    BY <2>1, ConfigTypes
<1>3. /\ Call(NoChange, "activity", "resume") \in PlainCalls
      /\ Call(Set("port", tr.arg["port"]), "activity", "resume") \in PlainCalls
      /\ Call(Set("services", tr.arg["services"]), "activity", "resume") \in PlainCalls
      /\ Check("resume") \in PlainCalls
  BY <1>2, ConfigCallTypes, CheckTypes, ConfigTypes DEF Errs, Persisted
<1>4. Now("pony", "off") \in PlainCalls /\ Now("pony", "on") \in PlainCalls
  BY OnOffCallTypes DEF OnOff
<1> QED
  BY <1>3, <1>4 DEF InitDevice

(* The first setup of an initialised or a provisioned device. *)
LEMMA RunFirstSetupType ==
  ASSUME NEW tr \in Transitions, NEW d \in Devices
  PROVE  RunFirstSetup(tr, d) \in Seq(PlainCalls)
<1> DEFINE a == <<Check("abort"),
                  Execute(Set("serial", tr.arg["serial"])),
                  Command("umEnabled", "on", "off"), Command("um", "on", "off"),
                  Func("ws", "on")>>
           b == <<Func("dhcp", "off")>>
           c == <<SubscribeActive>>
           e == <<Now("deactivate", "on")>>
<1>1. Execute(Set("serial", tr.arg["serial"])) \in PlainCalls
  BY ArgumentTypes, ConfigCallTypes DEF Persisted
<1>2. a \in Seq(PlainCalls)
  BY <1>1, CheckTypes, OnOffCallTypes DEF Daemons, OnOff, Errs
<1>3. b \in Seq(PlainCalls) /\ c \in Seq(PlainCalls) /\ e \in Seq(PlainCalls)
  BY OnOffCallTypes, SubscribeTypes DEF Daemons, OnOff
<1>4. <<Check("refuse")>> \in Seq(PlainCalls)
  BY CheckTypes DEF Errs
<1>5. ForCPE(b) \in Seq(PlainCalls) /\ ForCPE(e) \in Seq(PlainCalls)
  BY <1>3, ForCPEType
<1>6. RunFirstSetup(tr, d) = IF d["port"] = None THEN <<Check("refuse")>>
                             ELSE a \o InitDevice(tr) \o ForCPE(b) \o c \o ForCPE(e)
  BY DEF RunFirstSetup
<1> HIDE DEF a, b, c, e
<1> QED
  BY <1>2, <1>3, <1>4, <1>5, <1>6, InitDeviceType

(* The active handler. *)
LEMMA HandleActiveType ==
  ASSUME NEW tr \in Transitions, NEW d \in Devices
  PROVE  HandleActive(tr, d) \in Seq(PlainCalls)
<1>1. /\ <<Func("um", "on"), Func("starter", "off")>> \in Seq(PlainCalls)
      /\ <<Func("ws", "on")>> \in Seq(PlainCalls)
      /\ <<SubscribeActive>> \in Seq(PlainCalls)
      /\ <<SubscribeActive, Func("um", "on")>> \in Seq(PlainCalls)
  BY OnOffCallTypes, SubscribeTypes DEF Daemons, OnOff
<1>2. MigrateFromOldVersion(tr) \in Seq(PlainCalls)
  BY OnOffCallTypes, SubscribeTypes, ArgumentTypes, ConfigCallTypes
     DEF MigrateFromOldVersion, Daemons, OnOff
<1>3. RestoreActiveState(d) \in Seq(PlainCalls)
  BY <1>1 DEF RestoreActiveState
<1> QED
  BY <1>1, <1>2, <1>3, RunFirstSetupType DEF HandleActive

(* The update_config handler. *)
LEMMA HandleUpdateConfigType ==
  ASSUME NEW tr \in Transitions, NEW d \in Devices
  PROVE  HandleUpdateConfig(tr, d) \in Seq(PlainCalls)
<1> DEFINE a == <<Now("pony", "off"), Logged(Set("ws", "off")),
                  Call(tr.arg, "activity", "restart"), Now("pony", "on")>>
           b == <<Check("restart")>>
           c == <<Logged(Set("ws", "on"))>>
<1>1. a \in Seq(PlainCalls)
  BY OnOffCallTypes, ArgumentTypes, ConfigCallTypes DEF OnOff, Logs, Errs
<1>2. b \in Seq(PlainCalls) /\ c \in Seq(PlainCalls)
  BY OnOffCallTypes, CheckTypes DEF OnOff, Errs
<1>3. <<Execute(tr.arg)>> \in Seq(PlainCalls)
  BY ArgumentTypes, ConfigCallTypes
<1>4. UpdateConfig(tr, d) \in Seq(PlainCalls)
  <2>1. UpdateConfig(tr, d) = IF IsPortConfigurationChanged(tr, d)
                              THEN a \o ForCPE(b) \o c ELSE <<Execute(tr.arg)>>
    BY DEF UpdateConfig
  <2> HIDE DEF a, b, c
  <2> QED
    BY <2>1, <1>1, <1>2, <1>3, ForCPEType
<1>5. RebuildServices(d) \in Seq(PlainCalls)
  <2>1. Set("services", None) \in Configs /\ Set("services", d["services"]) \in Configs
    BY ArgumentTypes, ConfigTypes, DomainFacts DEF Persisted
  <2> QED
    BY <2>1, ConfigCallTypes DEF RebuildServices
<1> QED
  BY <1>4, <1>5 DEF HandleUpdateConfig

(* The maintenance handler. *)
LEMMA HandleMaintenanceType ==
  ASSUME NEW tr \in Transitions, NEW d \in Devices
  PROVE  HandleMaintenance(tr, d) \in Seq(PlainCalls)
<1>1. /\ <<Check("finish")>> \in Seq(PlainCalls) /\ <<CheckPoint("finish")>> \in Seq(PlainCalls)
      /\ WaitInstallFinishedAfterBoot \in Seq(PlainCalls)
  BY CheckTypes, OnOffCallTypes DEF WaitInstallFinishedAfterBoot, Errs, OnOff
<1>2. <<Call(Set("services", None), "activity", "finish")>> \in Seq(PlainCalls)
  <2>1. Set("services", None) \in Configs
    BY ConfigTypes, DomainFacts DEF Persisted
  <2> QED
    BY <2>1, ConfigCallTypes DEF Errs
<1>3. UpdateDevice(tr) \in Seq(PlainCalls)
  BY <1>1, <1>2 DEF UpdateDevice
<1> QED
  BY <1>1, <1>3 DEF HandleMaintenance

(* The emptied configuration is a configuration. *)
LEMMA EmptyConfigType == EmptyConfig \in Configs
<1>1. EmptyConfig = [r \in Resources |-> EmptyConfig[r]]
  BY DEF EmptyConfig, NoChange
<1>2. \A r \in Resources : EmptyConfig[r] \in {None, Keep}
  BY DEF EmptyConfig, NoChange
<1>3. \A r \in Resources \ Persisted : EmptyConfig[r] = Keep
  BY DEF EmptyConfig, NoChange, Persisted
<1>4. \A r \in Resources : EmptyConfig[r] \in Domain(r) \cup {Keep}
  BY <1>2, <1>3, DomainFacts
<1> HIDE DEF EmptyConfig
<1>5. EmptyConfig \in Patches
  BY <1>1, <1>4 DEF Patches, Values
<1> QED
  BY <1>5, <1>3 DEF Configs

(* A hub keeps its port. *)
LEMMA HubConfigType ==
  ASSUME NEW d \in Devices
  PROVE  [EmptyConfig EXCEPT !["port"] = d["port"]] \in Configs
<1>1. d["port"] \in Domain("port") /\ "port" \in Resources /\ "port" \in Persisted
  BY DomainFacts DEF Devices, Persisted
<1>2. [EmptyConfig EXCEPT !["port"] = d["port"]] \in Patches
  BY <1>1, EmptyConfigType, ExceptType DEF Configs
<1> QED
  BY <1>1, <1>2, EmptyConfigType DEF Configs, Patches

(* A call is tame when it does not open the database and the process's own *)
(* undo log need not keep configuration for it.  A sequence of calls is    *)
(* guarded when it closes the database before the first write to the       *)
(* configuration that is not recorded.                                     *)
Closes(c) == c.set["db"] = "off" /\ c.err = "revoke"
Tame(c) ==
  c.set["db"] # "on" /\ (c.log = "func" => \A r \in Persisted : c.set[r] = Keep)
AllTame(s) == \A i \in 1..Len(s) : Tame(s[i])
Guarded(s) == \A i \in 1..Len(s) : Recorded(s[i]) \/ \E j \in 1..(i-1) : Closes(s[j])

(* Plain calls are guarded, alone and before guarded ones. *)
LEMMA GuardedAppend ==
  ASSUME NEW s \in Seq(PlainCalls), NEW t \in Seq(Calls), AllTame(t), Guarded(t)
  PROVE  s \o t \in Seq(Calls) /\ AllTame(s \o t) /\ Guarded(s \o t)
<1>1. s \in Seq(Calls)
  BY DEF PlainCalls
<1>2. \A i \in 1..Len(s) : Tame(s[i]) /\ Recorded(s[i])
  BY DEF PlainCalls, Plain, Recorded, Tame, Keep
<1> DEFINE u == s \o t
<1>3. ASSUME NEW i \in 1..Len(u)
      PROVE  /\ Tame(u[i])
             /\ Recorded(u[i]) \/ \E j \in 1..(i-1) : Closes(u[j])
  <2>1. CASE i <= Len(s)
    <3>1. i \in 1..Len(s) /\ u[i] = s[i]
      BY <2>1, <1>1
    <3> QED
      BY <3>1, <1>2
  <2>2. CASE i > Len(s)
    <3> DEFINE k == i - Len(s)
    <3>1. k \in 1..Len(t) /\ u[i] = t[k]
      BY <2>2, <1>1
    <3>2. CASE Recorded(t[k])
      BY <3>1, <3>2 DEF AllTame
    <3>3. CASE \E j \in 1..(k-1) : Closes(t[j])
      <4>1. PICK j \in 1..(k-1) : Closes(t[j])
        BY <3>3
      <4>2. Len(s) + j \in 1..(i-1) /\ u[Len(s) + j] = t[j]
        BY <4>1, <3>1, <1>1
      <4> QED
        BY <4>1, <4>2, <3>1 DEF AllTame
    <3> QED
      BY <3>1, <3>2, <3>3 DEF Guarded
  <2> QED
    BY <2>1, <2>2, <1>1
<1>4. u \in Seq(Calls)
  BY <1>1
<1> HIDE DEF u
<1>5. AllTame(u) /\ Guarded(u)
  BY <1>3 DEF AllTame, Guarded
<1> QED
  BY <1>4, <1>5 DEF u

(* Plain calls alone are guarded. *)
LEMMA PlainGuarded ==
  ASSUME NEW s \in Seq(PlainCalls)
  PROVE  s \in Seq(Calls) /\ AllTame(s) /\ Guarded(s)
BY DEF PlainCalls, Plain, Recorded, Keep, Tame, AllTame, Guarded

(* Reset deletes the database directory only after closing the database. *)
LEMMA EraseDatabaseGuarded ==
  EraseDatabase \in Seq(Calls) /\ AllTame(EraseDatabase) /\ Guarded(EraseDatabase)
<1> DEFINE a == Call(Set("db", "off"), "none", "revoke")
           w == [r \in Resources |-> IF r \in Persisted THEN None ELSE Keep]
           b == Logged(w)
           c == Now("reboot", "pending")
<1>1. a \in Calls /\ Closes(a)
  <2>1. "db" \in Resources /\ "off" \in Domain("db")
    BY DomainFacts DEF OnOff
  <2>2. Set("db", "off") \in Patches
    BY <2>1, SetType
  <2> QED
    BY <2>1, <2>2, NoChangeType DEF Call, Calls, Logs, Errs, Closes, Set
<1>2. b \in Calls /\ Tame(b)
  <2>1. w \in Patches
    BY DomainFacts DEF Patches, Values
  <2>2. w["db"] # "on"
    BY DomainFacts DEF Persisted, Keep
  <2> HIDE DEF w
  <2> QED
    BY <2>1, <2>2, NoChangeType DEF Logged, Call, Calls, Logs, Errs, Tame
<1>3. c \in Calls /\ Tame(c)
  <2>1. c \in PlainCalls
    BY ServiceCallTypes, DomainFacts DEF TryResetEnv, ServiceResources
  <2> QED
    BY <2>1 DEF PlainCalls, Plain, Recorded, Tame, Keep
<1>4. EraseDatabase = <<a, b, c>>
  BY DEF EraseDatabase
<1>5. Tame(a)
  BY <1>1 DEF Closes, Tame, Call
<1> HIDE DEF a, b, c
<1>6. /\ <<a, b, c>> \in Seq(Calls) /\ AllTame(<<a, b, c>>)
      /\ \A i \in 1..3 : i = 1 \/ 1 \in 1..(i-1)
  BY <1>1, <1>2, <1>3, <1>5 DEF AllTame
<1>7. Recorded(a)
  BY DomainFacts DEF a, Recorded, Call, Set, Persisted
<1> QED
  BY <1>1, <1>4, <1>6, <1>7 DEF Guarded

(* The reset of a CPE and of a hub. *)
LEMMA ResetTypes ==
  ASSUME NEW d \in Devices
  PROVE  /\ ResetHub(d) \in Seq(PlainCalls)
         /\ ResetCPE(d) \in Seq(Calls) /\ AllTame(ResetCPE(d)) /\ Guarded(ResetCPE(d))
<1> DEFINE a == <<Execute(NoChange), Execute(EmptyConfig), Execute(NoChange),
                  Command("starterEnabled", "on", "off"), Command("dhcpEnabled", "on", "off"),
                  Func("um", "off"), CheckPoint("abort"), TryResetEnv>>
           hubCfg == [EmptyConfig EXCEPT !["port"] = d["port"]]
           b == <<Execute(NoChange), Execute(hubCfg), Func("um", "off"), TryResetEnv>>
<1>1. StopPublisher(d) \in Seq(PlainCalls)
  BY OnOffCallTypes DEF StopPublisher, OnOff
<1>2. /\ Execute(NoChange) \in PlainCalls /\ Execute(EmptyConfig) \in PlainCalls
      /\ Execute(hubCfg) \in PlainCalls
  BY ConfigCallTypes, ConfigTypes, EmptyConfigType, HubConfigType
<1>3. TryResetEnv \in PlainCalls
  BY ServiceCallTypes, DomainFacts DEF TryResetEnv, ServiceResources
<1>4. /\ Command("starterEnabled", "on", "off") \in PlainCalls
      /\ Command("dhcpEnabled", "on", "off") \in PlainCalls
      /\ Func("um", "off") \in PlainCalls
      /\ CheckPoint("abort") \in PlainCalls
  BY OnOffCallTypes, CheckTypes DEF Daemons, OnOff, Errs
<1> HIDE DEF hubCfg
<1>5. a \in Seq(PlainCalls) /\ b \in Seq(PlainCalls)
  BY <1>2, <1>3, <1>4
<1>6. ResetCPE(d) = (StopPublisher(d) \o a) \o EraseDatabase /\ ResetHub(d) = StopPublisher(d) \o b
  BY DEF ResetCPE, ResetHub, hubCfg
<1> HIDE DEF a, b
<1>7. StopPublisher(d) \o a \in Seq(PlainCalls) /\ StopPublisher(d) \o b \in Seq(PlainCalls)
  BY <1>1, <1>5
<1> QED
  BY <1>6, <1>7, GuardedAppend, EraseDatabaseGuarded

(* The handler of any state. *)
LEMMA HandleType ==
  ASSUME NEW tr \in Transitions, NEW d \in Devices
  PROVE  Handle(tr, d) \in Seq(Calls) /\ AllTame(Handle(tr, d)) /\ Guarded(Handle(tr, d))
<1>1. /\ HandleInit(tr, d) \in Seq(PlainCalls) /\ HandleZTPSetup(tr, d) \in Seq(PlainCalls)
      /\ HandleActive(tr, d) \in Seq(PlainCalls) /\ HandleUpdateConfig(tr, d) \in Seq(PlainCalls)
      /\ HandleMaintenance(tr, d) \in Seq(PlainCalls) /\ <<>> \in Seq(PlainCalls)
  BY HandleInitType, HandleZTPSetupType, HandleActiveType, HandleUpdateConfigType,
     HandleMaintenanceType
<1>2. /\ HandleReset(tr, d) \in Seq(Calls) /\ AllTame(HandleReset(tr, d))
      /\ Guarded(HandleReset(tr, d))
  <2>1. <<>> \in Seq(Calls) /\ AllTame(<<>>) /\ Guarded(<<>>)
    BY <1>1, PlainGuarded
  <2>2. ResetHub(d) \in Seq(Calls) /\ AllTame(ResetHub(d)) /\ Guarded(ResetHub(d))
    BY ResetTypes, PlainGuarded
  <2> QED
    BY <2>1, <2>2, ResetTypes DEF HandleReset
<1>3. \/ Handle(tr, d) \in Seq(PlainCalls)
      \/ Handle(tr, d) = HandleReset(tr, d)
  BY <1>1 DEF Handle
<1> QED
  BY <1>2, <1>3, PlainGuarded

(* A whole leg, from OnExit to the end of Handle. *)
LEMMA PerformTransitionType ==
  ASSUME NEW tr \in Transitions, NEW d \in Devices
  PROVE  /\ PerformTransition(tr, d) \in Seq(Calls)
         /\ AllTame(PerformTransition(tr, d)) /\ Guarded(PerformTransition(tr, d))
<1>1. OnExit(tr, d) \in Seq(PlainCalls)
  BY SubscribeTypes DEF OnExit
<1>2. UpdateAppState(tr, d) \in Seq(PlainCalls)
  <2>1. Execute(Set("state", tr.to)) \in PlainCalls
    BY ArgumentTypes, ConfigTypes, ConfigCallTypes DEF Persisted
  <2>2. Call(Set("active", tr.to), IF d["active"] = "boot" THEN "none" ELSE "func", "never") \in PlainCalls
    BY ArgumentTypes, ServiceCallTypes DEF ServiceResources, Logs, Errs
  <2> QED
    BY <2>1, <2>2 DEF UpdateAppState
<1>3. OnExit(tr, d) \o UpdateAppState(tr, d) \in Seq(PlainCalls)
  BY <1>1, <1>2
<1> QED
  BY <1>3, HandleType, GuardedAppend DEF PerformTransition

(* Follow-up transitions are transitions. *)
LEMMA FollowUpType ==
  ASSUME NEW tr \in Transitions, NEW d \in Devices
  PROVE  FollowUp(tr, d) \in Transitions
<1>1. \A ev \in Events, to \in AppStates \ {"boot"} : To(ev, to) \in Transitions
  BY ConfigTypes DEF To, Transitions, Packages
<1>2. With("OnMigrateFromOldVersion", "active", Set("serial", d["env"])) \in Transitions
  <2>1. d["env"] \in Domain("serial") /\ "serial" \in Persisted
    BY DomainFacts DEF Devices, Persisted
  <2>2. Set("serial", d["env"]) \in Configs
    BY <2>1, ConfigTypes
  <2> QED
    BY <2>2 DEF With, Transitions, Packages, Events, AppStates
<1> QED
  BY <1>1, <1>2 DEF FollowUp, NoTransition, Events, AppStates

(* What is pushed to a device is a configuration. *)
LEMMA ConfigType ==
  ASSUME NEW s \in Serials \cup {Keep}, NEW p \in Ports \cup {Keep}, NEW v \in Services \cup {Keep}
  PROVE  Config(s, p, v) \in Configs
<1>1. [NoChange EXCEPT !["serial"] = s] \in Patches
  BY ExceptType, DomainFacts, NoChangeType DEF Persisted
<1>2. [NoChange EXCEPT !["serial"] = s, !["port"] = p] \in Patches
  BY <1>1, ExceptType, DomainFacts DEF Persisted
<1>3. Config(s, p, v) \in Patches
  BY <1>2, ExceptType, DomainFacts DEF Config, Persisted
<1> QED
  BY <1>3 DEF Configs, Config, NoChange, Persisted

(* What callers ask for are transitions. *)
LEMMA RequestsType == Requests \subseteq Transitions
<1>1. \A ev \in Events, to \in AppStates \ {"boot"} : To(ev, to) \in Transitions
  BY ConfigTypes DEF To, Transitions, Packages
<1>2. \A ev \in Events, to \in AppStates \ {"boot"}, p \in Configs : With(ev, to, p) \in Transitions
  BY DEF With, Transitions, Packages
<1>3. FirstSetups \subseteq Transitions
  <2>1. \A s \in Serials, p \in Ports, v \in Services :
           With("OnFirstSetup", "active", Config(s, p, v)) \in Transitions
    BY ConfigType, <1>2 DEF Events, AppStates
  <2> QED
    BY <2>1 DEF FirstSetups
<1>5. /\ \A p \in Ports \cup {None} : Set("port", p) \in Configs
      /\ \A v \in Services : Set("services", v) \in Configs
  BY ConfigTypes, DomainFacts DEF Persisted
<1>4. PeerUpdates \cup NetworkUpdates \cup ServiceUpdates \subseteq Transitions
  <2>1. PeerUpdates \subseteq Transitions
    BY <1>1 DEF PeerUpdates, Events, AppStates
  <2>2. NetworkUpdates \subseteq Transitions
    BY <1>2, <1>5 DEF NetworkUpdates, Events, AppStates
  <2>3. ServiceUpdates \subseteq Transitions
    BY <1>2, <1>5 DEF ServiceUpdates, Events, AppStates
  <2> QED
    BY <2>1, <2>2, <2>3
<1>6. ZTPSetups \subseteq Transitions
  BY <1>2, <1>5 DEF ZTPSetups, Events, AppStates
<1>7. HubSetups \subseteq Transitions
  <2>1. \A p \in Ports : With("OnHubSetPort", "ztp_setup", Set("port", p)) \in Transitions
    BY <1>2, <1>5 DEF Events, AppStates
  <2>2. With("OnHubDeletePort", "ztp_setup", Set("port", None)) \in Transitions
    BY <1>2, <1>5 DEF Events, AppStates
  <2> QED
    BY <2>1, <2>2 DEF HubSetups
<1>8. DeviceUpdates \subseteq Transitions
  BY ConfigTypes DEF DeviceUpdates, To, Transitions, Packages, Events, AppStates
<1>9. Rebuilds \cup Resets \subseteq Transitions
  BY <1>1 DEF Rebuilds, Resets, Events, AppStates
<1> QED
  BY <1>3, <1>4, <1>6, <1>7, <1>8, <1>9 DEF Requests

-----------------------------------------------------------------------------
(* Type correctness.                                                       *)

(* The idle leg and the empty sequence of calls. *)
LEMMA IdleType == NoTransition \in Transitions /\ \A S : <<>> \in Seq(S)
<1>1. NoTransition \in Transitions
  BY ConfigTypes DEF NoTransition, To, Transitions, AppStates, Events, Packages
<1>2. \A S : <<>> \in Seq(S)
  OBVIOUS
<1> QED
  BY <1>1, <1>2

(* A factory-new device is a device. *)
LEMMA FactoryType == FactoryDevice \in Devices
<1>1. ASSUME NEW r \in Resources
      PROVE  FactoryDevice[r] \in Domain(r)
  <2>1. CASE r \in Persisted
    BY <2>1, DomainFacts DEF FactoryDevice, Persisted, Daemons
  <2>2. CASE r = "env"
    BY <2>2, FactoryAssumption, DomainFacts DEF FactoryDevice, Persisted, Daemons
  <2>3. CASE r \in Daemons
    BY <2>3, DomainFacts DEF FactoryDevice, Daemons, Persisted, OnOff
  <2>4. CASE r \in Volatile
    BY <2>4, DomainFacts DEF FactoryDevice, Daemons, Persisted, OnOff, Volatile, AppStates
  <2> QED
    BY <2>1, <2>2, <2>3, <2>4 DEF Resources
<1>2. FactoryDevice = [r \in Resources |-> FactoryDevice[r]]
  BY DEF FactoryDevice
<1> QED
  BY <1>1, <1>2 DEF Devices, Values

(* A restarted and a rebooted device are devices. *)
LEMMA RestartTypes ==
  ASSUME NEW d \in Devices
  PROVE  Restarted(d) \in Devices /\ Rebooted(d) \in Devices
<1>1. Restarted(d) \in Devices
  <2>1. \A r \in Resources : Restarted(d)[r] \in Domain(r)
    BY FactoryType DEF Restarted, Devices
  <2> QED
    BY <2>1 DEF Restarted, Devices, Values
<1>2. ASSUME NEW e \in Devices
      PROVE  [e EXCEPT !["um"] = e["umEnabled"], !["starter"] = e["starterEnabled"],
                       !["dhcp"] = e["dhcpEnabled"]] \in Devices
  <2>1. /\ e["umEnabled"] \in Domain("um") /\ e["starterEnabled"] \in Domain("starter")
        /\ e["dhcpEnabled"] \in Domain("dhcp")
        /\ {"um", "starter", "dhcp"} \subseteq Resources
    BY DomainFacts DEF Devices, Daemons
  <2>2. [e EXCEPT !["um"] = e["umEnabled"]] \in Devices
    BY <2>1, ExceptType
  <2>3. [e EXCEPT !["um"] = e["umEnabled"], !["starter"] = e["starterEnabled"]] \in Devices
    BY <2>1, <2>2, ExceptType
  <2> QED
    BY <2>1, <2>3, ExceptType
<1> QED
  BY <1>1, <1>2 DEF Rebooted

(* The calls that put a failed handler right are patches. *)
LEMMA CleanupType ==
  ASSUME NEW c \in Calls
  PROVE  Cleanup(c) \in Patches
<1>1. Set("pony", "on") \in Patches
  BY SetType, DomainFacts DEF OnOff
<1>2. [NoChange EXCEPT !["pony"] = "on", !["ws"] = "on"] \in Patches
  <2>1. [NoChange EXCEPT !["pony"] = "on"] \in Patches
    BY ExceptType, NoChangeType, DomainFacts DEF OnOff
  <2> QED
    BY <2>1, ExceptType, DomainFacts DEF OnOff
<1> QED
  BY <1>1, <1>2, NoChangeType DEF Cleanup

(* The transitions Run starts with are transitions. *)
LEMMA BootType ==
  ASSUME NEW d \in Devices
  PROVE  To("OnAfterBoot", IF d["state"] = None THEN "init" ELSE d["state"]) \in Transitions
<1>1. d["state"] \in (AppStates \ {"boot"}) \cup {None}
  BY DomainFacts DEF Devices, Persisted
<1> QED
  BY <1>1, ConfigTypes DEF To, Transitions, Packages, Events, AppStates

(* Beginning a transition keeps the types of what it sets. *)
LEMMA BeginType ==
  ASSUME dev \in Devices, NEW tr \in Transitions, Begin(tr)
  PROVE  leg' \in Transitions /\ phase' \in Phases /\ todo' \in Seq(Calls)
BY PerformTransitionType, IdleType DEF Begin, Phases

(* Deleting a checkpoint keeps the type of the undo logs. *)
LEMMA DeleteCheckPointType ==
  ASSUME tx \in [undo : Patches, mem : Patches], sealed \in [undo : Patches, mem : Patches],
         DeleteCheckPoint
  PROVE  tx' \in [undo : Patches, mem : Patches] /\ sealed' \in [undo : Patches, mem : Patches]
BY ApplyPatchType, NoChangeType DEF DeleteCheckPoint, NoTx

(* NoTx is an undo log, and no fault leaves the natural numbers. *)
LEMMA NoTxType == NoTx \in [undo : Patches, mem : Patches]
BY NoChangeType DEF NoTx

(* One call keeps the types. *)
LEMMA StepType == TypeOK /\ Step => TypeOK'
<1> SUFFICES ASSUME TypeOK, Step PROVE TypeOK'
  OBVIOUS
<1> DEFINE c == Head(todo)
<1>1. c \in Calls /\ Tail(todo) \in Seq(Calls)
  BY DEF TypeOK, Step
<1>2. dev' \in Devices
  BY <1>1, ApplyType DEF TypeOK, Step, Calls
<1>3. tx' \in [undo : Patches, mem : Patches] /\ sealed' \in [undo : Patches, mem : Patches]
  BY <1>1, RecordType, NoTxType DEF TypeOK, Step
<1> QED
  BY <1>1, <1>2, <1>3 DEF TypeOK, Step

(* A failing call keeps the types. *)
LEMMA CallFailsType == TypeOK /\ CallFails => TypeOK'
<1> SUFFICES ASSUME TypeOK, CallFails PROVE TypeOK'
  OBVIOUS
<1> DEFINE c == Head(todo)
<1>1. c \in Calls /\ Tail(todo) \in Seq(Calls)
  BY DEF TypeOK, CallFails
<1>2. dev' \in Devices
  BY <1>1, ApplyType, CleanupType DEF TypeOK, CallFails
<1>3. tx' \in [undo : Patches, mem : Patches] /\ sealed' \in [undo : Patches, mem : Patches]
  BY DeleteCheckPointType DEF TypeOK, CallFails
<1>4. faults' \in Nat
  BY DEF TypeOK, CallFails, Fault
<1>5. todo' \in Seq(Calls) /\ phase' \in Phases
  BY <1>1 DEF CallFails, Phases
<1> QED
  BY <1>2, <1>3, <1>4, <1>5 DEF TypeOK, CallFails

(* The end of a process keeps the types. *)
LEMMA ExitType ==
  ASSUME TypeOK, NEW d \in Devices, Exit(d)
  PROVE  /\ dev' \in Devices
         /\ tx' \in [undo : Patches, mem : Patches] /\ sealed' \in [undo : Patches, mem : Patches]
         /\ phase' \in Phases /\ booting' \in BOOLEAN
         /\ leg' \in Transitions /\ todo' \in Seq(Calls) /\ queue' \in Seq(Transitions)
         /\ stranded' \in BOOLEAN
BY NoTxType, NoChangeType, IdleType DEF TypeOK, Exit, Phases

(* The rolled-back device is a device. *)
LEMMA UndoneType == TypeOK => Undone \in Devices
BY ApplyType DEF TypeOK, Undone

(* What Run does by itself keeps the types. *)
LEMMA RunStepType == TypeOK /\ RunStep => TypeOK'
<1> SUFFICES ASSUME TypeOK, RunStep PROVE TypeOK'
  OBVIOUS
<1>1. CASE Accept
  <2>1. Head(queue) \in Transitions /\ Tail(queue) \in Seq(Transitions)
    BY <1>1 DEF TypeOK, Accept
  <2>2. leg' \in Transitions /\ phase' \in Phases /\ todo' \in Seq(Calls)
    BY <1>1, <2>1, BeginType DEF TypeOK, Accept
  <2> QED
    BY <1>1, <2>1, <2>2, NoTxType DEF TypeOK, Accept
<1>2. CASE Reject
  BY <1>2 DEF TypeOK, Reject, Fault
<1>3. CASE Step
  BY <1>3, StepType
<1>4. CASE CallFails
  BY <1>4, CallFailsType
<1>5. CASE Continue
  <2>1. FollowUp(leg, dev) \in Transitions
    BY FollowUpType DEF TypeOK
  <2>2. leg' \in Transitions /\ phase' \in Phases /\ todo' \in Seq(Calls)
    BY <1>5, <2>1, BeginType DEF TypeOK, Continue
  <2> QED
    BY <1>5, <2>2 DEF TypeOK, Continue
<1>6. CASE Commit
  BY <1>6, NoTxType DEF TypeOK, Commit, Phases
<1>7. CASE Rollback
  BY <1>7, NoTxType, UndoneType DEF TypeOK, Rollback, Phases
<1>8. CASE BootFails
  BY <1>8, NoTxType, UndoneType, RestartTypes, IdleType DEF TypeOK, BootFails, Phases
<1>9. CASE RollbackDangling
  BY <1>9, NoTxType, ApplyType DEF TypeOK, RollbackDangling, Phases
<1>10. CASE SetActiveStateFromBoot
  <2>1. leg' \in Transitions /\ phase' \in Phases /\ todo' \in Seq(Calls)
    BY <1>10, BootType, BeginType DEF TypeOK, SetActiveStateFromBoot
  <2> QED
    BY <1>10, <2>1 DEF TypeOK, SetActiveStateFromBoot
<1> QED
  BY <1>1, <1>2, <1>3, <1>4, <1>5, <1>6, <1>7, <1>8, <1>9, <1>10 DEF RunStep

(* Requests, faults, reboots and left-behind goroutines keep the types. *)
LEMMA NextType == TypeOK /\ [Next]_vars => TypeOK'
<1> SUFFICES ASSUME TypeOK, [Next]_vars PROVE TypeOK'
  OBVIOUS
<1>1. CASE RunStep
  BY <1>1, RunStepType
<1>2. CASE RollbackDanglingFails
  BY <1>2, NoTxType DEF TypeOK, RollbackDanglingFails, Fault, Phases
<1>3. CASE Crash
  BY <1>3, RestartTypes, ExitType DEF TypeOK, Crash, Fault
<1>4. CASE PowerCycle
  BY <1>4, RestartTypes, ExitType DEF TypeOK, PowerCycle, Fault
<1>5. CASE RebootAfterReset
  BY <1>5, RestartTypes, ExitType DEF TypeOK, RebootAfterReset
<1>6. CASE RebootFails
  <2>1. dev' \in Devices
    BY <1>6, DomainFacts DEF TypeOK, RebootFails, Devices, Values
  <2> QED
    BY <1>6, <2>1 DEF TypeOK, RebootFails, Fault
<1>7. CASE DeactivateStarter
  <2>1. dev' \in Devices
    <3>1. [dev EXCEPT !["deactivate"] = "off"] \in Devices
      BY ExceptType, DomainFacts DEF TypeOK, OnOff
    <3>2. [dev EXCEPT !["deactivate"] = "off", !["starter"] = "off"] \in Devices
      BY <3>1, ExceptType, DomainFacts DEF OnOff, Daemons
    <3> QED
      BY <1>7, <3>1, <3>2 DEF DeactivateStarter
  <2> QED
    BY <1>7, <2>1 DEF TypeOK, DeactivateStarter, Fault
<1>8. CASE \E tr \in Requests : Perform(tr)
  BY <1>8, RequestsType DEF TypeOK, Perform
<1>9. CASE UNCHANGED vars
  BY <1>9 DEF TypeOK, vars
<1> QED
  BY <1>1, <1>2, <1>3, <1>4, <1>5, <1>6, <1>7, <1>8, <1>9 DEF Next

(* The initial state has the types. *)
LEMMA InitType == Init => TypeOK
<1> SUFFICES ASSUME Init PROVE TypeOK
  OBVIOUS
<1>1. dev \in Devices /\ leg \in Transitions /\ todo \in Seq(Calls) /\ queue \in Seq(Transitions)
  BY FactoryType, IdleType DEF Init
<1>2. tx \in [undo : Patches, mem : Patches] /\ sealed \in [undo : Patches, mem : Patches]
  BY NoTxType DEF Init
<1> QED
  BY <1>1, <1>2 DEF Init, TypeOK, Phases

(* In every reachable state every variable has its type, whatever the      *)
(* handlers wrote, the faults interrupted and the rollbacks put back.      *)
THEOREM TypeCorrect == Spec => []TypeOK
<1>1. Init => TypeOK
  BY InitType
<1>2. TypeOK /\ [Next]_vars => TypeOK'
  BY NextType
<1> QED
  BY <1>1, <1>2, PTL DEF Spec

-----------------------------------------------------------------------------
(* Atomicity of the configuration.                                         *)

(* What makes a transition atomic for the configuration: the process's own *)
(* undo log never holds configuration, the configuration is written by     *)
(* recorded calls only until the database is closed, and no transaction is *)
(* left open when Run rests.                                               *)
MemHasNoConfig == \A r \in Persisted : tx.mem[r] = Keep /\ sealed.mem[r] = Keep
CallsAreGuarded == AllTame(todo) /\ (dev["db"] = "off" \/ Guarded(todo))
RestsClosed == (phase # "leg" => todo = <<>>) /\ (phase = "idle" => tx = NoTx)
AtomicInv == TypeOK /\ MemHasNoConfig /\ CallsAreGuarded /\ RestsClosed

(* Dropping the first call of guarded ones leaves guarded ones, unless it  *)
(* is the call that closes the database.                                   *)
LEMMA TailGuarded ==
  ASSUME NEW s \in Seq(Calls), s # <<>>, AllTame(s)
  PROVE  /\ AllTame(Tail(s)) /\ Tame(Head(s))
         /\ Guarded(s) => Recorded(Head(s)) /\ (Closes(Head(s)) \/ Guarded(Tail(s)))
<1>1. /\ Len(s) \in Nat \ {0} /\ Head(s) = s[1] /\ Len(Tail(s)) = Len(s) - 1
      /\ \A i \in 1..Len(Tail(s)) : i+1 \in 1..Len(s) /\ Tail(s)[i] = s[i+1]
  OBVIOUS
<1>2. AllTame(Tail(s)) /\ Tame(Head(s))
  BY <1>1 DEF AllTame
<1>3. ASSUME Guarded(s) PROVE Recorded(Head(s))
  BY <1>1, <1>3 DEF Guarded
<1>4. ASSUME Guarded(s), ~Closes(Head(s)), NEW i \in 1..Len(Tail(s)), ~Recorded(Tail(s)[i])
      PROVE  \E j \in 1..(i-1) : Closes(Tail(s)[j])
  <2>1. PICK j \in 1..i : Closes(s[j])
    BY <1>1, <1>4 DEF Guarded
  <2>2. j # 1
    BY <2>1, <1>1, <1>4
  <2>3. j-1 \in 1..(i-1) /\ Tail(s)[j-1] = s[j]
    BY <2>1, <2>2, <1>1
  <2> QED
    BY <2>1, <2>3
<1> QED
  BY <1>2, <1>3, <1>4 DEF Guarded

(* What a restart and what the cleanup of a failed handler leave alone.    *)
LEMMA UntouchedConfig ==
  /\ \A d : \A r \in Persisted : Restarted(d)[r] = d[r] /\ Rebooted(d)[r] = d[r]
  /\ \A c, d : /\ \A r \in Persisted : Apply(Cleanup(c), d)[r] = d[r]
               /\ Apply(Cleanup(c), d)["db"] = d["db"]
<1>1. \A r \in Persisted : r \in Resources /\ r \notin Volatile /\ r \notin {"um", "starter", "dhcp"}
  BY DEF Persisted, Resources, Volatile
<1>2. \A d : \A r \in Persisted : Restarted(d)[r] = d[r] /\ Rebooted(d)[r] = d[r]
  BY <1>1 DEF Restarted, Rebooted
<1>3. \A c : \A r \in Persisted \cup {"db"} : r \in Resources /\ Cleanup(c)[r] = Keep
  BY <1>1, DomainFacts DEF Cleanup, NoChange, Set, Persisted
<1> QED
  BY <1>2, <1>3 DEF Apply

(* The empty log and the empty sequence have no configuration and no calls.*)
LEMMA EmptyFacts ==
  /\ \A r \in Persisted : NoTx.mem[r] = Keep /\ NoTx.undo[r] = Keep
  /\ AllTame(<<>>) /\ Guarded(<<>>)
<1>1. \A r \in Persisted : NoChange[r] = Keep
  BY DomainFacts DEF NoChange
<1>2. <<>> \in Seq(PlainCalls)
  OBVIOUS
<1> QED
  BY <1>1, <1>2, PlainGuarded DEF NoTx

(* Beginning a leg sets guarded calls, or none.                            *)
LEMMA BeginGuarded ==
  ASSUME TypeOK, NEW tr \in Transitions, Begin(tr)
  PROVE  /\ AllTame(todo') /\ Guarded(todo')
         /\ phase' # "leg" => todo' = <<>>
         /\ phase' # "idle"
<1>1. dev \in Devices
  BY DEF TypeOK
<1>2. /\ AllTame(PerformTransition(tr, dev)) /\ Guarded(PerformTransition(tr, dev))
  BY <1>1, PerformTransitionType
<1> QED
  BY <1>2, EmptyFacts DEF Begin

(* One call preserves the invariant. *)
LEMMA StepAtomicInv == AtomicInv /\ Step => MemHasNoConfig' /\ CallsAreGuarded' /\ RestsClosed'
<1> SUFFICES ASSUME AtomicInv, Step PROVE MemHasNoConfig' /\ CallsAreGuarded' /\ RestsClosed'
  OBVIOUS
<1> DEFINE c == Head(todo)
<1>1. /\ todo \in Seq(Calls) /\ todo # <<>> /\ c \in Calls /\ dev \in Devices
      /\ tx \in [undo : Patches, mem : Patches] /\ sealed \in [undo : Patches, mem : Patches]
  BY DEF AtomicInv, TypeOK, Step
<1>2. /\ AllTame(Tail(todo)) /\ Tame(c)
      /\ Guarded(todo) => Recorded(c) /\ (Closes(c) \/ Guarded(Tail(todo)))
  BY <1>1, TailGuarded DEF AtomicInv, CallsAreGuarded
<1>3. dev'["db"] = IF c.set["db"] = Keep THEN dev["db"] ELSE c.set["db"]
  BY DomainFacts DEF Step, Apply
<1>4. c.set["db"] \in {Keep, "off"}
  BY <1>1, <1>2, DomainFacts DEF Calls, Patches, OnOff, Tame
<1>5. CallsAreGuarded'
  <2>1. AllTame(todo')
    BY <1>2 DEF Step
  <2>2. CASE dev["db"] = "off" \/ c.set["db"] = "off"
    BY <2>1, <2>2, <1>3, <1>4 DEF CallsAreGuarded, Keep
  <2>3. CASE Guarded(todo) /\ c.set["db"] # "off"
    <3>1. Guarded(todo')
      BY <2>3, <1>2 DEF Step, Closes
    <3> QED
      BY <2>1, <3>1 DEF CallsAreGuarded
  <2> QED
    BY <2>2, <2>3 DEF AtomicInv, CallsAreGuarded
<1>6. RestsClosed'
  BY DEF Step, RestsClosed
<1>7. MemHasNoConfig'
  <2>1. \A r \in Persisted : tx.mem[r] = Keep /\ sealed.mem[r] = Keep
    BY DEF AtomicInv, MemHasNoConfig
  <2>2. CASE c.log = "func"
    <3>1. tx'.mem = Record(c, tx.mem, dev) /\ sealed' = sealed
      BY <1>1, <2>2 DEF Step
    <3>2. \A r \in Persisted : r \in Resources /\ c.set[r] = Keep
      BY <2>2, <1>2, DomainFacts DEF Tame
    <3> QED
      BY <3>1, <3>2, <2>1 DEF Record, MemHasNoConfig
  <2>3. CASE c.log # "func"
    BY <2>1, <2>3, <1>1, EmptyFacts DEF Step, MemHasNoConfig
  <2> QED
    BY <2>2, <2>3
<1> QED
  BY <1>5, <1>6, <1>7

(* A failing call preserves the invariant. *)
LEMMA CallFailsAtomicInv == AtomicInv /\ CallFails => MemHasNoConfig' /\ CallsAreGuarded' /\ RestsClosed'
<1> SUFFICES ASSUME AtomicInv, CallFails PROVE MemHasNoConfig' /\ CallsAreGuarded' /\ RestsClosed'
  OBVIOUS
<1> DEFINE c == Head(todo)
<1>1. /\ todo \in Seq(Calls) /\ todo # <<>>
      /\ tx \in [undo : Patches, mem : Patches] /\ sealed \in [undo : Patches, mem : Patches]
  BY DEF AtomicInv, TypeOK, CallFails
<1>2. /\ AllTame(Tail(todo))
      /\ Guarded(todo) => Closes(c) \/ Guarded(Tail(todo))
  BY <1>1, TailGuarded DEF AtomicInv, CallsAreGuarded
<1>3. dev'["db"] = dev["db"]
  BY UntouchedConfig DEF CallFails
<1>4. CallsAreGuarded'
  <2>1. CASE todo' = <<>>
    BY <2>1, EmptyFacts DEF CallsAreGuarded
  <2>2. CASE todo' = Tail(todo) /\ c.err = "log"
    BY <2>2, <1>2, <1>3 DEF AtomicInv, CallsAreGuarded, Closes
  <2> QED
    BY <2>1, <2>2 DEF CallFails
<1>5. RestsClosed'
  BY DEF CallFails, RestsClosed
<1>6. MemHasNoConfig'
  <2>1. \A r \in Persisted : r \in Resources /\ tx.mem[r] = Keep /\ sealed.mem[r] = Keep
    BY DomainFacts DEF AtomicInv, MemHasNoConfig
  <2>2. CASE UNCHANGED <<tx, sealed>>
    BY <2>1, <2>2 DEF MemHasNoConfig
  <2>3. CASE DeleteCheckPoint
    BY <2>1, <2>3, EmptyFacts DEF MemHasNoConfig, DeleteCheckPoint, Apply
  <2> QED
    BY <2>2, <2>3 DEF CallFails
<1> QED
  BY <1>4, <1>5, <1>6

(* The end of a process establishes the invariant.                         *)
LEMMA ExitAtomicInv ==
  ASSUME TypeOK, NEW d, Exit(d)
  PROVE  MemHasNoConfig' /\ CallsAreGuarded' /\ RestsClosed'
<1>1. \A r \in Persisted : NoChange[r] = Keep /\ NoTx.mem[r] = Keep
  BY EmptyFacts DEF NoTx
<1>2. tx'.mem = NoChange
  BY DEF TypeOK, Exit
<1> QED
  BY <1>1, <1>2, EmptyFacts DEF Exit, MemHasNoConfig, CallsAreGuarded, RestsClosed

(* Every step preserves the invariant. *)
LEMMA NextAtomicInv == AtomicInv /\ [Next]_vars => AtomicInv'
<1> SUFFICES ASSUME AtomicInv, [Next]_vars
             PROVE  MemHasNoConfig' /\ CallsAreGuarded' /\ RestsClosed'
  BY NextType DEF AtomicInv
<1> USE DEF AtomicInv
<1>1. CASE Accept
  <2>1. Head(queue) \in Transitions
    BY <1>1 DEF TypeOK, Accept
  <2>2. AllTame(todo') /\ Guarded(todo') /\ (phase' # "leg" => todo' = <<>>) /\ phase' # "idle"
    BY <1>1, <2>1, BeginGuarded DEF Accept
  <2> QED
    BY <1>1, <2>2, EmptyFacts DEF Accept, MemHasNoConfig, CallsAreGuarded, RestsClosed
<1>2. CASE Reject
  BY <1>2 DEF Reject, MemHasNoConfig, CallsAreGuarded, RestsClosed
<1>3. CASE Step
  BY <1>3, StepAtomicInv
<1>4. CASE CallFails
  BY <1>4, CallFailsAtomicInv
<1>5. CASE Continue
  <2>1. FollowUp(leg, dev) \in Transitions
    BY FollowUpType DEF TypeOK
  <2>2. AllTame(todo') /\ Guarded(todo') /\ (phase' # "leg" => todo' = <<>>) /\ phase' # "idle"
    BY <1>5, <2>1, BeginGuarded DEF Continue
  <2> QED
    BY <1>5, <2>2 DEF Continue, MemHasNoConfig, CallsAreGuarded, RestsClosed
<1>6. CASE Commit
  BY <1>6, EmptyFacts DEF Commit, MemHasNoConfig, CallsAreGuarded, RestsClosed
<1>7. CASE Rollback
  BY <1>7, EmptyFacts DEF Rollback, MemHasNoConfig, CallsAreGuarded, RestsClosed
<1>8. CASE BootFails
  BY <1>8, EmptyFacts DEF BootFails, MemHasNoConfig, CallsAreGuarded, RestsClosed
<1>9. CASE RollbackDangling
  BY <1>9, EmptyFacts DEF RollbackDangling, MemHasNoConfig, CallsAreGuarded, RestsClosed
<1>10. CASE SetActiveStateFromBoot
  <2>1. AllTame(todo') /\ Guarded(todo') /\ (phase' # "leg" => todo' = <<>>) /\ phase' # "idle"
    BY <1>10, BootType, BeginGuarded DEF SetActiveStateFromBoot, TypeOK
  <2> QED
    BY <1>10, <2>1 DEF SetActiveStateFromBoot, MemHasNoConfig, CallsAreGuarded, RestsClosed
<1>11. CASE RollbackDanglingFails
  BY <1>11, EmptyFacts DEF RollbackDanglingFails, MemHasNoConfig, CallsAreGuarded, RestsClosed
<1>12. CASE Crash
  BY <1>12, ExitAtomicInv DEF Crash
<1>13. CASE PowerCycle
  BY <1>13, ExitAtomicInv DEF PowerCycle
<1>14. CASE RebootAfterReset
  BY <1>14, ExitAtomicInv DEF RebootAfterReset
<1>15. CASE RebootFails
  BY <1>15 DEF RebootFails, MemHasNoConfig, CallsAreGuarded, RestsClosed, TypeOK, Devices
<1>16. CASE DeactivateStarter
  <2>1. dev'["db"] = dev["db"]
    BY <1>16, DomainFacts DEF DeactivateStarter, TypeOK, Devices
  <2>2. UNCHANGED <<tx, sealed, phase, todo>>
    BY <1>16 DEF DeactivateStarter
  <2> QED
    BY <2>1, <2>2 DEF MemHasNoConfig, CallsAreGuarded, RestsClosed
<1>17. CASE \E tr \in Requests : Perform(tr)
  BY <1>17 DEF Perform, MemHasNoConfig, CallsAreGuarded, RestsClosed
<1>18. CASE UNCHANGED vars
  BY <1>18 DEF vars, MemHasNoConfig, CallsAreGuarded, RestsClosed
<1> QED
  BY <1>1, <1>2, <1>3, <1>4, <1>5, <1>6, <1>7, <1>8, <1>9, <1>10, <1>11, <1>12, <1>13,
     <1>14, <1>15, <1>16, <1>17, <1>18 DEF Next, RunStep

(* One call leaves the durable configuration alone, or is the wipe.        *)
LEMMA StepIsAtomic == AtomicInv /\ Step => AtomicStep
<1> SUFFICES ASSUME AtomicInv, Step, Head(todo).log # "checkpoint", dev["db"] # "off"
             PROVE  DurableConfig' = DurableConfig
  BY DEF Step, AtomicStep
<1> DEFINE c == Head(todo)
<1>1. /\ todo \in Seq(Calls) /\ todo # <<>> /\ c \in Calls /\ dev \in Devices
      /\ tx \in [undo : Patches, mem : Patches]
  BY DEF AtomicInv, TypeOK, Step
<1>2. Recorded(c)
  BY <1>1, TailGuarded DEF AtomicInv, CallsAreGuarded
<1>3. ASSUME NEW r \in Persisted
      PROVE  Apply(tx'.undo, dev')[r] = Apply(tx.undo, dev)[r]
  <2>1. r \in Resources /\ dev' = Apply(c.set, dev) /\ dev[r] # Keep
    BY <1>1, KeepIsNoValue, DomainFacts DEF Step, Devices
  <2>2. CASE c.log = "activity"
    <3>1. tx'.undo = Record(c, tx.undo, dev) /\ c.inv[r] = Keep
      BY <1>1, <1>2, <2>2 DEF Step, Recorded
    <3> QED
      BY <3>1, <2>1 DEF Apply, Record
  <2>3. CASE c.log # "activity"
    <3>1. tx'.undo = tx.undo /\ c.set[r] = Keep
      BY <1>1, <1>2, <2>3 DEF Step, Recorded
    <3> QED
      BY <3>1, <2>1 DEF Apply
  <2> QED
    BY <2>2, <2>3
<1> QED
  BY <1>3 DEF DurableConfig

(* Leaving the log and the configuration alone leaves the durable          *)
(* configuration alone.                                                    *)
LEMMA SameDurable ==
  ASSUME \A r \in Persisted : tx'.undo[r] = tx.undo[r] /\ dev'[r] = dev[r]
  PROVE  DurableConfig' = DurableConfig
<1>1. \A r \in Persisted : Apply(tx'.undo, dev')[r] = Apply(tx.undo, dev)[r]
  BY DomainFacts DEF Apply
<1> QED
  BY <1>1 DEF DurableConfig

(* The end of a process leaves the durable configuration alone.            *)
LEMMA ExitIsAtomic ==
  ASSUME TypeOK, NEW d, Exit(d), \A r \in Persisted : d[r] = dev[r]
  PROVE  AtomicStep
<1>1. tx'.undo = tx.undo /\ dev' = d
  BY DEF TypeOK, Exit
<1> QED
  BY <1>1, SameDurable DEF AtomicStep

(* Rolling back leaves the durable configuration alone.                    *)
LEMMA UndoneConfig ==
  ASSUME MemHasNoConfig
  PROVE  \A r \in Persisted : Undone[r] = DurableConfig[r] /\ Apply(tx.undo, dev)[r] = DurableConfig[r]
BY DomainFacts DEF MemHasNoConfig, Undone, Apply, DurableConfig

(* Every step is atomic for the configuration. *)
LEMMA NextIsAtomic == AtomicInv /\ [Next]_vars => [AtomicStep]_vars
<1> SUFFICES ASSUME AtomicInv, Next PROVE AtomicStep
  OBVIOUS
<1> USE DEF AtomicInv
<1>1. CASE Accept
  BY <1>1, EmptyFacts, SameDurable DEF Accept, Begin, RestsClosed, AtomicStep
<1>2. CASE Reject
  BY <1>2, SameDurable DEF Reject, AtomicStep
<1>3. CASE Step
  BY <1>3, StepIsAtomic
<1>4. CASE CallFails
  <2>1. \A r \in Persisted : r \in Resources /\ dev'[r] = dev[r]
    BY <1>4, UntouchedConfig, DomainFacts DEF CallFails
  <2>2. CASE UNCHANGED <<tx, sealed>>
    BY <2>1, <2>2, SameDurable DEF AtomicStep
  <2>3. CASE DeleteCheckPoint /\ sealed # NoTx
    BY <2>3 DEF DeleteCheckPoint, AtomicStep
  <2>4. CASE DeleteCheckPoint /\ sealed = NoTx
    <3>1. tx'.undo = Apply(NoTx.undo, tx.undo)
      BY <2>4 DEF DeleteCheckPoint
    <3>2. \A r \in Persisted : tx'.undo[r] = tx.undo[r]
      BY <2>1, <3>1, EmptyFacts DEF Apply
    <3> QED
      BY <2>1, <3>2, SameDurable DEF AtomicStep
  <2> QED
    BY <1>4, <2>2, <2>3, <2>4 DEF CallFails
<1>5. CASE Continue
  BY <1>5, SameDurable DEF Continue, AtomicStep
<1>6. CASE Commit
  BY <1>6 DEF Commit, AtomicStep
<1>7. CASE Rollback
  <2>1. \A r \in Persisted : r \in Resources /\ Apply(tx'.undo, dev')[r] = DurableConfig[r]
    BY <1>7, UndoneConfig, EmptyFacts, DomainFacts DEF Rollback, Apply
  <2> QED
    BY <2>1 DEF DurableConfig, AtomicStep
<1>8. CASE BootFails
  <2>1. \A r \in Persisted : r \in Resources /\ Apply(tx'.undo, dev')[r] = DurableConfig[r]
    <3>1. \A r \in Persisted : dev'[r] = DurableConfig[r]
      BY <1>8, UndoneConfig, UntouchedConfig DEF BootFails
    <3> QED
      BY <1>8, <3>1, EmptyFacts, DomainFacts DEF BootFails, Apply
  <2> QED
    BY <2>1 DEF DurableConfig, AtomicStep
<1>9. CASE RollbackDangling
  <2>1. \A r \in Persisted : r \in Resources /\ Apply(tx'.undo, dev')[r] = DurableConfig[r]
    BY <1>9, UndoneConfig, EmptyFacts, DomainFacts DEF RollbackDangling, Apply
  <2> QED
    BY <2>1 DEF DurableConfig, AtomicStep
<1>10. CASE SetActiveStateFromBoot
  BY <1>10, SameDurable DEF SetActiveStateFromBoot, AtomicStep
<1>11. CASE RollbackDanglingFails
  BY <1>11 DEF RollbackDanglingFails, Fault, AtomicStep, TypeOK
<1>12. CASE Crash
  BY <1>12, ExitIsAtomic, UntouchedConfig DEF Crash
<1>13. CASE PowerCycle
  BY <1>13, ExitIsAtomic, UntouchedConfig DEF PowerCycle
<1>14. CASE RebootAfterReset
  BY <1>14, ExitIsAtomic, UntouchedConfig DEF RebootAfterReset
<1>15. CASE RebootFails
  BY <1>15, SameDurable DEF RebootFails, AtomicStep, TypeOK, Devices, Persisted
<1>16. CASE DeactivateStarter
  <2>1. \A r \in Persisted : dev'[r] = dev[r]
    BY <1>16, DomainFacts DEF DeactivateStarter, TypeOK, Devices, Persisted
  <2>2. UNCHANGED tx
    BY <1>16 DEF DeactivateStarter
  <2> QED
    BY <2>1, <2>2, SameDurable DEF AtomicStep
<1>17. CASE \E tr \in Requests : Perform(tr)
  BY <1>17, SameDurable DEF Perform, AtomicStep
<1> QED
  BY <1>1, <1>2, <1>3, <1>4, <1>5, <1>6, <1>7, <1>8, <1>9, <1>10, <1>11, <1>12, <1>13,
     <1>14, <1>15, <1>16, <1>17 DEF Next, RunStep

(* The configuration a restart comes up with changes only where it may:    *)
(* for every handler, request, failing call, crash and reboot, and for     *)
(* every value of the constants.                                           *)
THEOREM ConfigurationAtomic == Spec => ConfigurationIsAtomic
<1>1. Init => AtomicInv
  BY InitType, EmptyFacts DEF Init, AtomicInv, MemHasNoConfig, CallsAreGuarded, RestsClosed
<1>2. AtomicInv /\ [Next]_vars => AtomicInv'
  BY NextAtomicInv
<1>3. AtomicInv /\ [Next]_vars => [AtomicStep]_vars
  BY NextIsAtomic
<1> QED
  BY <1>1, <1>2, <1>3, PTL DEF Spec, ConfigurationIsAtomic
=============================================================================
