----------------------------- MODULE Connection -----------------------------
(***************************************************************************)
(* The connection to the orchestrator: the publisher that builds it, the   *)
(* discovery of the primary among the orchestrator's hosts, the monitoring *)
(* that asks for it again every 20 seconds, and the others who write the   *)
(* App section of the configuration: first setup, reset and InitDevice.    *)
(*                                                                         *)
(* Nobody holds a lock across the steps of a discovery or between a read   *)
(* and a write of the App section, so that all of them interleave.         *)
(***************************************************************************)
EXTENDS Naturals, FiniteSets

CONSTANTS
  Hosts,      \* the orchestrator's hosts
  Serials,    \* serial numbers
  AddrLists,  \* sets of hosts a configuration may name
  StopWaits,  \* does the publisher's Stop wait for a BuildConn in flight?
  MaxSetups,  \* bound: first setups
  MaxInits,   \* bound: InitDevice requests
  MaxEvents   \* bound: changes of roles, lost connections, failing writes, crashes

None == "none"

ASSUME HostsAssumption == None \notin Hosts /\ None \notin Serials
ASSUME AddrListsAssumption == AddrLists \subseteq (SUBSET Hosts) \ {{}}
ASSUME StopAssumption == StopWaits \in BOOLEAN
ASSUME BoundsAssumption == MaxSetups \in Nat /\ MaxInits \in Nat /\ MaxEvents \in Nat

Roles == {"primary", "standby", "down"}
AppSections == [serial : Serials \cup {None}, addrs : SUBSET Hosts, active : Hosts \cup {None}]
Blank == [serial |-> None, addrs |-> {}, active |-> None]

(* A round of FetchPrimary: the hosts still to answer, those that said     *)
(* that they are the primary.                                              *)
Rounds == [ask : SUBSET Hosts, yes : SUBSET Hosts]
NoRound == [ask |-> {}, yes |-> {}]

VARIABLES
  role,     \* what each host is to answer
  app,      \* the App section of the configuration
  session,  \* the state machine: "init", "setup", "active", "failing", "resetting"
  pub,      \* the publisher: "off", "connecting", "connected"
  conn,     \* the host it is connected to
  hosts,    \* discovery.Service.hosts
  bpc, bround, bserial, bapp, \* BuildConn: place, round, the serial it read,
            \* the App section it read again
  mpc, mround, mactive, mhosts, \* monitoring: place, round, the active
            \* orchestrator and the hosts it read
  ipc, iapp, \* InitDevice: place, the App section it read or replaced
  setups, inits, events \* how many there were, for the bounds

device == <<app, session>>
publisher == <<pub, conn>>
build == <<bpc, bround, bserial, bapp>>
monitor == <<mpc, mround, mactive, mhosts>>
init == <<ipc, iapp>>
bounds == <<setups, inits, events>>
vars == <<role, device, publisher, hosts, build, monitor, init, bounds>>

Init ==
  /\ role \in [Hosts -> Roles]
  /\ app = Blank /\ session = "init" /\ pub = "off" /\ conn = None /\ hosts = {}
  /\ bpc = "idle" /\ bround = NoRound /\ bserial = None /\ bapp = Blank
  /\ mpc = "idle" /\ mround = NoRound /\ mactive = None /\ mhosts = {}
  /\ ipc = "idle" /\ iapp = Blank
  /\ setups = 0 /\ inits = 0 /\ events = 0

-----------------------------------------------------------------------------
(* FetchPrimary: all hosts are asked at once and answer when they will.    *)

StartRound(addrs) == [ask |-> addrs, yes |-> {}]

(* CheckPrimary: an error of one host is only logged.                      *)
CheckPrimary(r, h) ==
  [ask |-> r.ask \ {h}, yes |-> IF role[h] = "primary" THEN r.yes \cup {h} ELSE r.yes]

IsAnswered(r) == r.ask = {}

(* Mutant: the first host that says yes wins. *)
IgnoresSplitBrain(r) == FALSE
SplitBrain(r) == Cardinality(r.yes) > 1
PrimaryFound(r, h) == h \in r.yes /\ ~SplitBrain(r)

-----------------------------------------------------------------------------
(* The publisher: as long as it has no connection it calls BuildConn.      *)

(* Mutant: the discovery forgets the hosts it asks. *)
BuildsWithoutHosts ==
  /\ pub = "connecting" /\ bpc = "idle" /\ app.addrs # {}
  /\ bpc' = "ask" /\ bround' = StartRound(app.addrs) /\ bserial' = app.serial
  /\ UNCHANGED <<role, device, publisher, hosts, bapp, monitor, init, bounds>>

BuildConn ==
  /\ pub = "connecting" /\ bpc = "idle" /\ app.addrs # {}
  /\ bpc' = "ask" /\ bround' = StartRound(app.addrs) /\ bserial' = app.serial
  /\ hosts' = app.addrs
  /\ UNCHANGED <<role, device, publisher, bapp, monitor, init, bounds>>

BuildAnswer(h) ==
  /\ bpc = "ask" /\ h \in bround.ask
  /\ bround' = CheckPrimary(bround, h)
  /\ UNCHANGED <<role, device, publisher, hosts, bpc, bserial, bapp, monitor, init, bounds>>

(* No primary, two of them, no serial, or the host cannot be reached.      *)
BuildFails ==
  /\ bpc = "ask" /\ IsAnswered(bround)
  /\ \/ \A h \in Hosts : ~PrimaryFound(bround, h)
     \/ bserial = None
     \/ \E h \in Hosts : PrimaryFound(bround, h) /\ role[h] = "down"
  /\ bpc' = "idle" /\ bround' = NoRound /\ bserial' = None
  /\ UNCHANGED <<role, device, publisher, hosts, bapp, monitor, init, bounds>>

(* The connection is there; the configuration is read again.               *)
Dial ==
  /\ bpc = "ask" /\ IsAnswered(bround) /\ bserial # None
  /\ \E h \in Hosts : /\ PrimaryFound(bround, h) /\ role[h] # "down"
                      /\ bapp' = [app EXCEPT !.active = h]
  /\ bpc' = "write" /\ bround' = NoRound /\ bserial' = None
  /\ UNCHANGED <<role, device, publisher, hosts, monitor, init, bounds>>

(* Mutant: the active orchestrator is not stored. *)
ConnectsWithoutWrite ==
  /\ bpc = "write"
  /\ IF pub = "connecting"
     THEN pub' = "connected" /\ conn' = bapp.active
     ELSE UNCHANGED publisher
  /\ bpc' = "idle" /\ bapp' = Blank
  /\ UNCHANGED <<role, device, hosts, bround, bserial, monitor, init, bounds>>

(* The whole App section is written back and the connection handed over.   *)
(* A publisher that has been stopped meanwhile drops it.                   *)
WriteApp ==
  /\ bpc = "write"
  /\ app' = bapp
  /\ IF pub = "connecting"
     THEN pub' = "connected" /\ conn' = bapp.active
     ELSE UNCHANGED publisher
  /\ bpc' = "idle" /\ bapp' = Blank
  /\ UNCHANGED <<role, session, hosts, bround, bserial, monitor, init, bounds>>

(* The configuration cannot be read again or written: the connection is    *)
(* never handed over.                                                      *)
WriteFails ==
  /\ bpc = "write" /\ events < MaxEvents
  /\ bpc' = "idle" /\ bapp' = Blank /\ events' = events + 1
  /\ UNCHANGED <<role, device, publisher, hosts, bround, bserial, monitor, init, setups, inits>>

Disconnect ==
  /\ pub = "connected" /\ events < MaxEvents
  /\ pub' = "connecting" /\ conn' = None /\ events' = events + 1
  /\ UNCHANGED <<role, device, hosts, build, monitor, init, setups, inits>>

-----------------------------------------------------------------------------
(* The monitoring.                                                         *)

(* Mutant: it does not ask whether there is an active orchestrator. *)
TicksAnyhow ==
  /\ mpc = "idle" /\ hosts # {}
  /\ mpc' = "fetch" /\ mactive' = app.active /\ mhosts' = hosts
  /\ UNCHANGED <<role, device, publisher, hosts, build, mround, init, bounds>>

(* It reads the active orchestrator, then the hosts; without them it waits *)
(* for the next tick.                                                      *)
Tick ==
  /\ mpc = "idle" /\ app.active # None /\ hosts # {}
  /\ mpc' = "fetch" /\ mactive' = app.active /\ mhosts' = hosts
  /\ UNCHANGED <<role, device, publisher, hosts, build, mround, init, bounds>>

(* FetchPrimary, which stores the hosts it is given.                       *)
Fetch ==
  /\ mpc = "fetch"
  /\ hosts' = mhosts /\ mround' = StartRound(mhosts) /\ mhosts' = {} /\ mpc' = "ask"
  /\ UNCHANGED <<role, device, publisher, build, mactive, init, bounds>>

MonitorAnswer(h) ==
  /\ mpc = "ask" /\ h \in mround.ask
  /\ mround' = CheckPrimary(mround, h)
  /\ UNCHANGED <<role, device, publisher, hosts, build, mpc, mactive, mhosts, init, bounds>>

(* Mutant: a failover is no reason to reconnect. *)
ReconnectsOnSplitBrain == SplitBrain(mround)

MustReconnect ==
  \/ SplitBrain(mround)
  \/ \E h \in Hosts : PrimaryFound(mround, h) /\ h # mactive /\ pub = "connected"

(* Publisher.Reconnect does nothing to a publisher that has no connection. *)
Reconnect ==
  IF pub = "connected" THEN pub' = "connecting" /\ conn' = None ELSE UNCHANGED publisher

Decide ==
  /\ mpc = "ask" /\ IsAnswered(mround)
  /\ IF MustReconnect THEN Reconnect ELSE UNCHANGED publisher
  /\ mpc' = "idle" /\ mround' = NoRound /\ mactive' = None
  /\ UNCHANGED <<role, device, hosts, build, mhosts, init, bounds>>

-----------------------------------------------------------------------------
(* Who else writes the App section: first setup, its rollback, reset.      *)

(* Bound: an InitDevice that has outlived a reset ends before the next one.*)
RunFirstSetup(s, addrs) ==
  /\ session = "init" /\ setups < MaxSetups /\ ipc = "idle"
  /\ app' = [serial |-> s, addrs |-> addrs, active |-> None]
  /\ session' = "setup" /\ pub' = "connecting" /\ setups' = setups + 1
  /\ UNCHANGED <<role, conn, hosts, build, monitor, init, inits, events>>

(* The first setup gives up, or an InitDevice that keeps the addresses came *)
(* over the connection and succeeded; one that replaces them is below.     *)
SetupEnds ==
  /\ session = "setup" /\ ipc = "idle"
  /\ session' = "failing" \/ (pub = "connected" /\ session' = "active")
  /\ UNCHANGED <<role, app, publisher, hosts, build, monitor, init, bounds>>

Reset ==
  /\ session = "active"
  /\ session' = "resetting"
  /\ UNCHANGED <<role, app, publisher, hosts, build, monitor, init, bounds>>

StopPublisher ==
  /\ session \in {"failing", "resetting"} /\ pub # "off"
  /\ StopWaits => bpc = "idle"
  /\ pub' = "off" /\ conn' = None
  /\ UNCHANGED <<role, device, hosts, build, monitor, init, bounds>>

(* Mutant: the configuration is cleared before the publisher is stopped. *)
ClearsFirst ==
  /\ session \in {"failing", "resetting"}
  /\ app' = Blank /\ session' = "init" /\ pub' = "off" /\ conn' = None
  /\ UNCHANGED <<role, hosts, build, monitor, init, bounds>>

(* The undo log of the first setup, and the empty configuration of a reset,*)
(* come after the publisher.                                               *)
ClearApp ==
  /\ session \in {"failing", "resetting"} /\ pub = "off"
  /\ app' = Blank /\ session' = "init"
  /\ UNCHANGED <<role, publisher, hosts, build, monitor, init, bounds>>

-----------------------------------------------------------------------------
(* InitDevice, requested over the connection.  Several at once, and those  *)
(* that outlive their first setup, are in module DeviceInit.               *)

InitDevice ==
  /\ session \in {"setup", "active"} /\ pub = "connected"
  /\ ipc = "idle" /\ inits < MaxInits
  /\ ipc' = "read" /\ iapp' = app /\ inits' = inits + 1
  /\ UNCHANGED <<role, device, publisher, hosts, build, monitor, setups, events>>

(* defineNewAddrs: no addresses in the request keep the old ones.          *)
InstallAddrs(addrs) ==
  /\ ipc = "read"
  /\ app' = [iapp EXCEPT !.addrs = addrs]
  /\ ipc' = "installed" /\ iapp' = app
  /\ UNCHANGED <<role, session, publisher, hosts, build, monitor, bounds>>

InitEnds ==
  /\ ipc = "installed"
  /\ session' = IF session = "setup" THEN "active" ELSE session
  /\ ipc' = "idle" /\ iapp' = Blank
  /\ UNCHANGED <<role, app, publisher, hosts, build, monitor, bounds>>

(* The undo log of UpdateConfigWithTx: the section as it was found.        *)
Restored == IF ipc = "installed" THEN iapp ELSE app

(* Its transaction, or that of the first setup, is rolled back.            *)
InitFails ==
  /\ ipc \in {"read", "installed"}
  /\ app' = Restored
  /\ session' = IF session = "setup" THEN "failing" ELSE session
  /\ ipc' = "idle" /\ iapp' = Blank
  /\ UNCHANGED <<role, publisher, hosts, build, monitor, bounds>>

-----------------------------------------------------------------------------
(* The world around the agent.                                             *)

ChangeRole(h) ==
  /\ events < MaxEvents
  /\ \E r \in Roles \ {role[h]} : role' = [role EXCEPT ![h] = r]
  /\ events' = events + 1
  /\ UNCHANGED <<device, publisher, hosts, build, monitor, init, setups, inits>>

(* The agent starts again; transactions that were open are rolled back.    *)
Crash ==
  /\ events < MaxEvents /\ events' = events + 1
  /\ LET kept == session \in {"active", "resetting"}
     IN /\ session' = IF kept THEN "active" ELSE "init"
        /\ app' = IF kept THEN Restored ELSE Blank
        /\ pub' = IF kept THEN "connecting" ELSE "off"
  /\ conn' = None /\ hosts' = {}
  /\ bpc' = "idle" /\ bround' = NoRound /\ bserial' = None /\ bapp' = Blank
  /\ mpc' = "idle" /\ mround' = NoRound /\ mactive' = None /\ mhosts' = {}
  /\ ipc' = "idle" /\ iapp' = Blank
  /\ UNCHANGED <<role, setups, inits>>

-----------------------------------------------------------------------------
PublisherStep == BuildConn \/ BuildFails \/ Dial \/ WriteApp \/ \E h \in Hosts : BuildAnswer(h)
MonitorStep == Tick \/ Fetch \/ Decide \/ \E h \in Hosts : MonitorAnswer(h)

Next ==
  \/ PublisherStep \/ WriteFails \/ Disconnect
  \/ MonitorStep
  \/ \E s \in Serials, addrs \in AddrLists : RunFirstSetup(s, addrs)
  \/ SetupEnds \/ Reset \/ StopPublisher \/ ClearApp
  \/ InitDevice \/ InitEnds \/ InitFails
  \/ \E addrs \in AddrLists \cup {iapp.addrs} : InstallAddrs(addrs)
  \/ \E h \in Hosts : ChangeRole(h)
  \/ Crash

Spec == Init /\ [][Next]_vars

(* The publisher and the monitoring are goroutines that retry for ever.    *)
FairSpec == Spec /\ WF_vars(PublisherStep) /\ WF_vars(MonitorStep)

-----------------------------------------------------------------------------
(* Properties.                                                             *)

(* The variables keep their types and hang together: a round belongs to a  *)
(* discovery, a host to a connection, a copy of the App section to its     *)
(* reader.                                                                 *)
TypeOK ==
  /\ role \in [Hosts -> Roles] /\ app \in AppSections /\ hosts \subseteq Hosts
  /\ session \in {"init", "setup", "active", "failing", "resetting"}
  /\ pub \in {"off", "connecting", "connected"} /\ conn \in Hosts \cup {None}
  /\ (pub = "connected" <=> conn # None)
  /\ bpc \in {"idle", "ask", "write"} /\ bround \in Rounds /\ bapp \in AppSections
  /\ (bpc = "write" <=> bapp.active # None)
  /\ mpc \in {"idle", "fetch", "ask"} /\ mround \in Rounds /\ mhosts \subseteq Hosts
  /\ (mpc = "idle" <=> mactive = None)
  /\ ipc \in {"idle", "read", "installed"} /\ iapp \in AppSections
  /\ bserial \in Serials \cup {None}
  /\ setups \in 0..MaxSetups /\ inits \in 0..MaxInits /\ events \in 0..MaxEvents

(* A connected device can notice a failover: the monitoring finds an active*)
(* orchestrator in the configuration and hosts to ask, whoever else writes *)
(* the App section (monitoring/service.go:64-75).                          *)
MonitoringSeesConnection == pub = "connected" => app.active # None /\ hosts # {}

(* The serial number goes with the first setup that brought it: no BuildConn*)
(* that was on its way when a setup was rolled back or the device reset    *)
(* writes it into the configuration again (factory.go:121-133).  InitDevice*)
(* may: it writes back the App section it has read before the reset, or    *)
(* replaced before its own rollback (deviceinit/service.go:193-211).       *)
SerialIsGone == session = "init" /\ inits = 0 => app.serial = None

(* The active orchestrator in the configuration is the host the device is  *)
(* connected to, whatever was lost, rolled back or reset in between.  A    *)
(* rolled back InitDevice is excepted: it puts an older one back.          *)
ActiveIsConnected == pub = "connected" /\ bpc = "idle" /\ inits = 0 => app.active = conn

(* A host that stays the only primary of those it asks gets the connection *)
(* and keeps it, as long as the monitoring finds the true active           *)
(* orchestrator.  Hosts that are not asked are no part of it: a monitoring *)
(* that was about to ask stores the hosts of an earlier setup again.       *)
FollowsPrimary ==
  \A p \in Hosts :
    <>[](session = "active" /\ inits = 0 /\ p \in hosts /\ \A h \in Hosts : (role[h] = "primary") = (h = p))
      => <>[](conn = p)

(* As long as several of the hosts it asks claim to be the primary, the    *)
(* device stays away from all of them.  Addresses an InitDevice has added  *)
(* are not asked before the next BuildConn.                                *)
LeavesSplitBrain ==
  <>[](Cardinality({h \in hosts : role[h] = "primary"}) > 1) => <>[](pub # "connected")
=============================================================================
