------------------------------ MODULE Handlers ------------------------------
(***************************************************************************)
(* The state handlers of the agent (boot, init, ztp_setup, active,         *)
(* update_config, maintenance, reset) as the calls they make.              *)
(*                                                                         *)
(* The device is a function from resources to values.  A handler is the    *)
(* sequence of calls it makes; a call writes some resources and, when it   *)
(* belongs to the transaction, records how to undo the write.              *)
(***************************************************************************)
EXTENDS Naturals, Sequences

CONSTANTS
  DeviceType,       \* SDWAN_DEVICE: "cpe" or "hub"
  Serials,          \* serial numbers the orchestrator hands out
  Ports,            \* WAN port configurations
  Services,         \* service configurations (Trunk, P2P, Bridge, L3, ISB, FW)
  FactoryID,        \* device id in agent.env at first boot (None: no old version)
  EmptyCfgClears,   \* does config.EmptyConfig() blank the AppState section?
  MaxQueue,         \* bound: callers blocked in Perform
  MaxFaults         \* bound: crashes and failing calls

None == "none"
Keep == "keep"      \* a patch leaves this resource alone

Persisted == {"state", "serial", "port", "services"}
Daemons == {"um", "umEnabled", "starter", "starterEnabled", "dhcp", "dhcpEnabled"}
Volatile == {"active", "ws", "mqInit", "mqActive", "pony", "db", "reboot", "deactivate"}
Resources == Persisted \cup {"env"} \cup Daemons \cup Volatile

AppStates == {"boot", "init", "active", "update_config", "maintenance", "ztp_setup", "reset"}
OnOff == {"on", "off"}

Domain(r) ==
  CASE r = "state" -> (AppStates \ {"boot"}) \cup {None}
    [] r = "active" -> AppStates
    [] r \in {"serial", "env"} -> Serials \cup {None}
    [] r = "port" -> Ports \cup {None}
    [] r = "services" -> Services \cup {None}
    [] r = "reboot" -> {None, "pending", "failed"}
    [] OTHER -> OnOff

ASSUME DeviceTypeAssumption == DeviceType \in {"cpe", "hub"}
ASSUME ValuesAssumption == {Keep, None} \cap (Serials \cup Ports \cup Services) = {}
ASSUME FactoryAssumption == FactoryID \in Serials \cup {None}
ASSUME EmptyCfgAssumption == EmptyCfgClears \in BOOLEAN
ASSUME BoundsAssumption == MaxQueue \in Nat /\ MaxFaults \in Nat

-----------------------------------------------------------------------------
(* Patches, calls and transactions.                                        *)

Values == UNION {Domain(r) : r \in Resources}
Devices == {d \in [Resources -> Values] : \A r \in Resources : d[r] \in Domain(r)}
Patches == {p \in [Resources -> Values \cup {Keep}] :
              \A r \in Resources : p[r] \in Domain(r) \cup {Keep}}

NoChange == [r \in Resources |-> Keep]
Set(res, val) == [r \in Resources |-> IF r = res THEN val ELSE Keep]
Apply(p, d) == [r \in Resources |-> IF p[r] = Keep THEN d[r] ELSE p[r]]

(* log: "activity" is undone even after a crash (kept in the database),    *)
(* "func" only by the process that ran it, "none" never.                   *)
(* err: what the handler does when the call returns an error.              *)
Errs == {"never", "log", "abort", "refuse", "resume", "restart", "revoke", "finish"}
Logs == {"activity", "func", "none", "checkpoint"}
Calls == [set : Patches, inv : Patches, log : Logs, err : Errs]

Call(set, log, err) == [set |-> set, inv |-> NoChange, log |-> log, err |-> err]
Execute(p) == Call(p, "activity", "abort")
Func(res, val) == Call(Set(res, val), "func", "abort")
Logged(p) == Call(p, "none", "log")
Now(res, val) == Call(Set(res, val), "none", "never")
Check(err) == Call(NoChange, "none", err)
Command(res, val, undo) ==
  [set |-> Set(res, val), inv |-> Set(res, undo), log |-> "activity", err |-> "abort"]
CheckPoint(err) == Call(NoChange, "checkpoint", err)

NoTx == [undo |-> NoChange, mem |-> NoChange]

(* The undo log keeps, per resource, the value its oldest entry restores:  *)
(* rolling back in reverse order ends with that one.                       *)
Record(c, u, d) ==
  [r \in Resources |->
     IF c.set[r] = Keep \/ u[r] # Keep THEN u[r]
     ELSE IF c.inv[r] # Keep THEN c.inv[r] ELSE d[r]]

-----------------------------------------------------------------------------
(* Transitions.                                                            *)

Packages == {"none", "other", "services", "agent"}
Events == {"none", "OnAfterBoot", "OnFirstSetup", "OnMigrateFromOldVersion", "OnFallback",
           "OnUpdateConfigFinished", "OnUpdateDeviceFinished", "OnUpdateConfig",
           "OnRebuildServices", "OnUpdateDevice", "OnReset", "OnZTPSetupFinished",
           "OnZTPSetupInterrupted", "OnInitFallback", "OnHubResetFinished",
           "OnZTPSetupConfig", "OnHubSetPort", "OnHubDeletePort"}
Configs == {p \in Patches : \A r \in Resources \ Persisted : p[r] = Keep}
Transitions == [ev : Events, to : AppStates \ {"boot"}, arg : Configs, pkg : Packages]

To(ev, to) == [ev |-> ev, to |-> to, arg |-> NoChange, pkg |-> "none"]
With(ev, to, arg) == [ev |-> ev, to |-> to, arg |-> arg, pkg |-> "none"]
NoTransition == To("none", "init")

(* What callers of Perform may ask for.  An update of the configuration of *)
(* an active device writes the sections its caller names: tunnels only     *)
(* (a wireguard peer), the network, or services.                           *)
Config(s, p, v) == [NoChange EXCEPT !["serial"] = s, !["port"] = p, !["services"] = v]

FirstSetups ==
  {With("OnFirstSetup", "active", Config(s, p, v)) : s \in Serials, p \in Ports, v \in Services}
PeerUpdates == {To("OnUpdateConfig", "update_config")}
NetworkUpdates == {With("OnUpdateConfig", "update_config", Set("port", p)) : p \in Ports}
ServiceUpdates == {With("OnUpdateConfig", "update_config", Set("services", v)) : v \in Services}
ZTPSetups == {With("OnZTPSetupConfig", "ztp_setup", Set("port", p)) : p \in Ports \cup {None}}
HubSetups == {With("OnHubSetPort", "ztp_setup", Set("port", p)) : p \in Ports}
             \cup {With("OnHubDeletePort", "ztp_setup", Set("port", None))}
DeviceUpdates == {[To("OnUpdateDevice", "maintenance") EXCEPT !.pkg = k] : k \in Packages \ {"none"}}
Rebuilds == {To("OnRebuildServices", "update_config")}
Resets == {To("OnReset", "reset")}
Requests == FirstSetups \cup PeerUpdates \cup NetworkUpdates \cup ServiceUpdates
            \cup ZTPSetups \cup HubSetups \cup DeviceUpdates \cup Rebuilds \cup Resets

(* Mutant: update_config and maintenance do not look where they come from. *)
ValidatesLess(from, to) ==
  CASE to = "init" -> from \in {"boot", "ztp_setup", "reset"}
    [] to = "ztp_setup" -> from \in {"init", "boot"}
    [] to = "reset" -> from \in {"boot", "init", "active"}
    [] OTHER -> TRUE

(* ValidateTransition of the handler of state `to`.                        *)
ValidateTransition(from, to) ==
  CASE to = "init" -> from \in {"boot", "ztp_setup", "reset"}
    [] to \in {"update_config", "maintenance"} -> from \in {"active", "boot"}
    [] to = "ztp_setup" -> from \in {"init", "boot"}
    [] to = "reset" -> from \in {"boot", "init", "active"}
    [] OTHER -> TRUE

-----------------------------------------------------------------------------
(* The handlers, as the calls they make on device d.                       *)

ForCPE(calls) == IF DeviceType = "cpe" THEN calls ELSE <<>>

SubscribeInit == Func("mqInit", "on")
UnsubscribeInit == Func("mqInit", "off")
SubscribeActive == Func("mqActive", "on")
UnsubscribeActive == Func("mqActive", "off")

(* An id in agent.env means that an older version provisioned the device.  *)
CheckMigrateFromOldVersion(d) == d["env"] # None

RestoreInitState ==
  <<SubscribeInit, Logged(Set("umEnabled", "off")), Logged(Set("um", "off"))>>
  \o ForCPE(<<Func("starter", "on"), Func("dhcp", "on")>>)

HandleInit(tr, d) ==
  CASE tr.ev = "OnAfterBoot" /\ CheckMigrateFromOldVersion(d) -> <<>>
    [] tr.ev \in {"OnZTPSetupFinished", "OnHubResetFinished"} -> <<SubscribeInit>>
    [] OTHER -> RestoreInitState

(* The port, the command for it, and the net_init section that holds it.   *)
SetHubPort(tr) == <<Check("abort"), Execute(tr.arg), Check("abort"), Execute(NoChange)>>
DeleteHubPort(tr) == <<Check("abort"), Execute(tr.arg), Execute(NoChange)>>

HandleZTPSetup(tr, d) ==
  CASE tr.ev = "OnAfterBoot" -> <<>>
    [] tr.ev = "OnHubSetPort" -> SetHubPort(tr)
    [] tr.ev = "OnHubDeletePort" -> DeleteHubPort(tr)
    [] OTHER -> <<Execute(tr.arg)>>

(* InitDevice, which the orchestrator triggers over the publisher, runs on *)
(* the transaction of the first setup while Run waits for it; the wait may *)
(* also time out.                                                          *)
InitDevice(tr) ==
  <<Now("pony", "off"),
    Call(NoChange, "activity", "resume"),
    Call(Set("port", tr.arg["port"]), "activity", "resume"),
    Check("resume"),
    Call(Set("services", tr.arg["services"]), "activity", "resume"),
    Now("pony", "on")>>

(* Mutant: a device is set up before its port is. *)
RunsWithoutPort(tr, d) ==
  <<Check("abort"), Execute(Set("serial", tr.arg["serial"])),
    Command("umEnabled", "on", "off"), Command("um", "on", "off"), Func("ws", "on")>>
  \o InitDevice(tr) \o ForCPE(<<Func("dhcp", "off")>>) \o <<SubscribeActive>>
  \o ForCPE(<<Now("deactivate", "on")>>)

RunFirstSetup(tr, d) ==
  IF d["port"] = None
  THEN <<Check("refuse")>>
  ELSE <<Check("abort"),
         Execute(Set("serial", tr.arg["serial"])),
         Command("umEnabled", "on", "off"), Command("um", "on", "off"),
         Func("ws", "on")>>
       \o InitDevice(tr)
       \o ForCPE(<<Func("dhcp", "off")>>)
       \o <<SubscribeActive>>
       \o ForCPE(<<Now("deactivate", "on")>>)

(* Mutant: the update manager is expected to be running already. *)
RestoresNoUpdateManager(d) ==
  <<Func("starter", "off")>>
  \o (IF d["ws"] = "off" THEN <<Func("ws", "on")>> ELSE <<>>)
  \o <<SubscribeActive>>

RestoreActiveState(d) ==
  <<Func("um", "on"), Func("starter", "off")>>
  \o (IF d["ws"] = "off" THEN <<Func("ws", "on")>> ELSE <<>>)
  \o <<SubscribeActive>>

MigrateFromOldVersion(tr) ==
  <<Execute(tr.arg), Func("um", "on"), Func("ws", "on"), SubscribeActive>>

HandleActive(tr, d) ==
  CASE tr.ev = "OnFirstSetup" -> RunFirstSetup(tr, d)
    [] tr.ev = "OnMigrateFromOldVersion" -> MigrateFromOldVersion(tr)
    [] tr.ev = "OnUpdateConfigFinished" -> <<SubscribeActive>>
    [] tr.ev = "OnUpdateDeviceFinished" -> <<SubscribeActive, Func("um", "on")>>
    [] OTHER -> RestoreActiveState(d)

(* port stands for the sections Port and AdminState, both of which count. *)
IsPortConfigurationChanged(tr, d) == tr.arg["port"] \notin {Keep, d["port"]}

(* Mutant: an error returns before the services are resumed. *)
UpdateConfigReturnsEarly(tr, d) ==
  IF IsPortConfigurationChanged(tr, d)
  THEN <<Now("pony", "off"), Logged(Set("ws", "off")), Execute(tr.arg), Now("pony", "on"),
         Logged(Set("ws", "on"))>>
  ELSE <<Execute(tr.arg)>>

UpdateConfig(tr, d) ==
  IF IsPortConfigurationChanged(tr, d)
  THEN <<Now("pony", "off"), Logged(Set("ws", "off")),
         Call(tr.arg, "activity", "restart"),
         Now("pony", "on")>>
       \o ForCPE(<<Check("restart")>>)
       \o <<Logged(Set("ws", "on"))>>
  ELSE <<Execute(tr.arg)>>

RebuildServices(d) ==
  <<Execute(Set("services", None)), Execute(Set("services", d["services"]))>>

HandleUpdateConfig(tr, d) ==
  CASE tr.ev = "OnUpdateConfig" -> UpdateConfig(tr, d)
    [] tr.ev = "OnRebuildServices" -> RebuildServices(d)
    [] OTHER -> <<>>

UpdateDevice(tr) ==
  <<Check("finish")>>
  \o (IF tr.pkg \in {"agent", "services"}
      THEN <<Call(Set("services", None), "activity", "finish")>> ELSE <<>>)
  \o (IF tr.pkg = "agent" THEN <<CheckPoint("finish")>> ELSE <<>>)
  \o <<Check("finish")>>

(* Whatever the wait for the update manager brings, the error is reported  *)
(* to the orchestrator and the agent goes on.                              *)
WaitInstallFinishedAfterBoot == <<Logged(Set("ws", "on"))>>

HandleMaintenance(tr, d) ==
  IF tr.ev = "OnUpdateDevice" THEN UpdateDevice(tr) ELSE WaitInstallFinishedAfterBoot

EmptyConfig ==
  [NoChange EXCEPT !["state"] = IF EmptyCfgClears THEN None ELSE Keep,
                   !["serial"] = None, !["port"] = None, !["services"] = None]

StopPublisher(d) == IF d["ws"] = "on" THEN <<Func("ws", "off")>> ELSE <<>>

TryResetEnv == Logged(Set("env", None))

(* After the checkpoint: close the database, delete its directory, reboot. *)
EraseDatabase ==
  <<Call(Set("db", "off"), "none", "revoke"),
    Logged([r \in Resources |-> IF r \in Persisted THEN None ELSE Keep]),
    Now("reboot", "pending")>>

(* Mutant: reset trusts the deletion of the database. *)
ResetKeepsConfig(d) ==
  StopPublisher(d)
  \o <<Execute(NoChange), Execute(NoChange),
       Command("starterEnabled", "on", "off"), Command("dhcpEnabled", "on", "off"),
       Func("um", "off"),
       CheckPoint("abort"),
       TryResetEnv>>
  \o EraseDatabase

ResetCPE(d) ==
  StopPublisher(d)
  \o <<Execute(NoChange), Execute(EmptyConfig), Execute(NoChange),
       Command("starterEnabled", "on", "off"), Command("dhcpEnabled", "on", "off"),
       Func("um", "off"),
       CheckPoint("abort"),
       TryResetEnv>>
  \o EraseDatabase

(* Mutant: a hub loses its port, too. *)
ResetsPort(d) ==
  StopPublisher(d)
  \o <<Execute(NoChange), Execute(EmptyConfig), Func("um", "off"), TryResetEnv>>

ResetHub(d) ==
  StopPublisher(d)
  \o <<Execute(NoChange), Execute([EmptyConfig EXCEPT !["port"] = d["port"]]),
       Func("um", "off"), TryResetEnv>>

HandleReset(tr, d) ==
  CASE tr.ev # "OnReset" -> <<>>
    [] tr.ev = "OnReset" /\ DeviceType = "hub" -> ResetHub(d)
    [] OTHER -> ResetCPE(d)

(* Mutant: leaving active is not undone. *)
ExitsForGood(tr, d) ==
  CASE d["active"] = "active" -> <<Call(Set("mqActive", "off"), "none", "abort")>>
    [] d["active"] = "init" /\ tr.ev # "OnMigrateFromOldVersion" -> <<UnsubscribeInit>>
    [] OTHER -> <<>>

OnExit(tr, d) ==
  CASE d["active"] = "active" -> <<UnsubscribeActive>>
    [] d["active"] = "init" /\ tr.ev # "OnMigrateFromOldVersion" -> <<UnsubscribeInit>>
    [] OTHER -> <<>>

(* Mutant: the state goes to the database outside the transaction. *)
UpdatesStateAtOnce(tr, d) ==
  <<Call(Set("state", tr.to), "none", "abort"),
    Call(Set("active", tr.to), IF d["active"] = "boot" THEN "none" ELSE "func", "never")>>

(* Mutant: the state in memory is not part of the transaction. *)
UpdatesStateInMemory(tr, d) ==
  <<Execute(Set("state", tr.to)), Now("active", tr.to)>>

UpdateAppState(tr, d) ==
  <<Execute(Set("state", tr.to)),
    Call(Set("active", tr.to), IF d["active"] = "boot" THEN "none" ELSE "func", "never")>>

Handle(tr, d) ==
  CASE tr.to = "init" -> HandleInit(tr, d)
    [] tr.to = "ztp_setup" -> HandleZTPSetup(tr, d)
    [] tr.to = "active" -> HandleActive(tr, d)
    [] tr.to = "update_config" -> HandleUpdateConfig(tr, d)
    [] tr.to = "maintenance" -> HandleMaintenance(tr, d)
    [] tr.to = "reset" -> HandleReset(tr, d)
    [] OTHER -> <<>>

PerformTransition(tr, d) == OnExit(tr, d) \o UpdateAppState(tr, d) \o Handle(tr, d)

WasInitState(d) == d["serial"] = None

(* Mutant: an update of the configuration ends where it is. *)
FollowsNoUpdate(tr, d) ==
  CASE tr.ev \in {"OnZTPSetupConfig", "OnHubSetPort", "OnHubDeletePort"} ->
         To("OnZTPSetupFinished", "init")
    [] tr.ev = "OnReset" /\ DeviceType = "hub" -> To("OnHubResetFinished", "init")
    [] tr.ev = "OnAfterBoot" /\ tr.to = "init" /\ CheckMigrateFromOldVersion(d) ->
         With("OnMigrateFromOldVersion", "active", Set("serial", d["env"]))
    [] OTHER -> NoTransition

(* result.Transition of Handle: the transition the same transaction goes on with. *)
FollowUp(tr, d) ==
  CASE tr.ev \in {"OnZTPSetupConfig", "OnHubSetPort", "OnHubDeletePort"} ->
         To("OnZTPSetupFinished", "init")
    [] tr.ev \in {"OnUpdateConfig", "OnRebuildServices"} -> To("OnUpdateConfigFinished", "active")
    [] tr.ev = "OnUpdateDevice" -> To("OnUpdateDeviceFinished", "active")
    [] tr.ev = "OnReset" /\ DeviceType = "hub" -> To("OnHubResetFinished", "init")
    [] tr.ev = "OnAfterBoot" /\ tr.to = "init" /\ CheckMigrateFromOldVersion(d) ->
         With("OnMigrateFromOldVersion", "active", Set("serial", d["env"]))
    [] tr.ev = "OnAfterBoot" /\ tr.to = "ztp_setup" -> To("OnZTPSetupInterrupted", "init")
    [] tr.ev = "OnAfterBoot" /\ tr.to = "update_config" -> To("OnFallback", "active")
    [] tr.ev = "OnAfterBoot" /\ tr.to = "maintenance" -> To("OnUpdateDeviceFinished", "active")
    [] tr.ev = "OnAfterBoot" /\ tr.to = "reset" ->
         IF WasInitState(d) THEN To("OnInitFallback", "init") ELSE To("OnFallback", "active")
    [] OTHER -> NoTransition
=============================================================================
