# Verification of sdwan-agent

TLA+ specifications of the SD-WAN agent in `src/`, model-checked with TLC, and
theorems about them checked with TLAPS. The agent runs on customer devices (CPE)
and hubs; it takes commands from a local message queue (NATS) and, once it is
provisioned, from the orchestrator over a websocket, and turns them into changes
of the device's configuration, its daemons and its own application state.

Contents: 1 the system; 2 the modules and the code they model; 3 the runs;
4 the proofs; 5 deviations seen; 6 what is not modelled; 7 the plan.

## 1. The system

### Components, state, operations

| component | state it keeps | operations |
|---|---|---|
| application state machine (`appstate/service.go`) | `activeState` in memory, `cfg.AppState.State` in the database, the unbuffered `transitionChan` | `Perform`, `Run`, `setActiveStateFromBoot`, `performTransition`, `updateAppState` |
| state handlers (`appstate/handlers/*`) | none of their own; they drive configuration, queue subjects, publisher, monitoring, daemons | `ValidateTransition`, `Handle`, `OnExit` for boot, init, ztp_setup, active, update_config, maintenance, reset |
| activity transactions (sdwan-lib) | undo log per transaction: activities in the database, functions in memory; checkpoints | start, execute, checkpoint, finish (commit or roll back), rollback of dangling transactions at start |
| device initialisation (`deviceinit`) | `mx`, `firstInitData`, `waitFirstInitChan`, `isInitializing` | `WaitFirstInit`, `InitDevice`, the handler and its goroutine, `sendInitDeviceFinished` |
| websocket service (`websocket`) | publisher open or closed, routes | `Start`, `Stop`, dispatch of requests, ping |
| connection factory (`connection`) | none; rewrites the App section of the configuration | `BuildConn`, called by the publisher of sdwan-lib |
| discovery (`discovery`) | the list of hosts it last asked | `FetchPrimary`, the monitoring every 20 seconds |
| hub tunnel check (`deviceinit`, `appstate/handlers/update_config.go`) | an unbuffered channel per check | `checkHubTunnels` |
| hosts (`nslookup`) | a section of `/etc/hosts` | `SyncHosts` |
| configuration handlers (`config`, `service`, `l3`) | none | `UpdateWgPeer`, `UpdateAllConfigs`, `UpdateConfig`, `RebuildServices` |
| direct writers (`trunk`, `isb`) | their section of the configuration | `UpdateConfig` without the state machine |
| hub and ZTP commands (`hub`, `ztp`) | none | first setup, set and delete the WAN port |
| device actions (`deviceaction`) | none | reset, reboot, power off |
| package updates (`maintenance.go`, `updatemanager`) | the checkpointed transaction, a subscription while it waits | download, request, wait, report; versions |
| ports (`port`) | addresses of the operating system's interfaces | renew the DHCP lease, flush, static address, queries |
| tunnel monitoring (`pony`, `ponyevent`) | running or paused | pause, resume, failure events |
| first port, hostname, grafana | configuration files and services of the operating system | static address, name |
| queries (`lte`, `dhcp`, `ovs`, `cmd`, `fw`, `debug`, `dumpstat`) | none | request and reply |

### How they interact

All callers ask for a transition through `Perform`, which hands it over an
unbuffered channel to the one goroutine in `Run` and blocks for the result.
`Run` opens a transaction, performs the transition (exit of the old state, new
state to database and memory, handler of the new state) and whatever transition
the handler returns, all in that transaction, and finishes it. Which callers
exist depends on the state: the subjects of the init state and of the active
state are subscribed by those handlers, requests over the websocket come while
the publisher runs. The first setup is the one handler that waits for another
goroutine: the orchestrator connects, sends `init-device`, and the goroutine of
that request configures the device *on the transaction of the first setup* and
reports through a channel. An update of packages is the one that waits for
another process: the update manager answers the request at once and announces
the end of the installation later; when the agent's own package is among them,
the agent is restarted in between and goes on from the checkpoint.
The tunnel monitoring is shared by `InitDevice`, `updateConfig` and every DHCP
renewal; each of them pauses it and resumes it by itself.

### What is hard

- A transition is a chain of up to twenty calls; any of them can fail, and the
  process can die between any two. Some changes are undone from the database
  log, some only by the living process, some not at all.
- Checkpoints in `reset` and `updateDevice` cut the undo log on purpose.
- `updateConfig` stops publisher and monitoring outside the transaction.
- Requests that were blocked while another transition ran find another state.
- `WaitFirstInit`/`InitDevice` share a mutex, a field and an unbuffered channel,
  and `Run` gives up waiting after two minutes.
- The first setup and the reset leave goroutines behind that stop daemons and
  reboot the device later.
- The subscription to the announcement of an installation comes after the
  request, the announcement names no request, and nobody repeats it for certain.
- Pausing the monitoring is a flag and not counted: sections that overlap, nest
  or fail half way all write it.
- Writers outside the state machine (`BuildConn`, own-transaction `InitDevice`,
  `trunk`, `isb`) change sections a transition may roll back.

The list with lines is `hazards` in `PROJECT.json`.

### What correct means

State machine: between transitions memory, database, subscriptions, publisher,
daemons and serial number agree with the state, whatever failed on the way; a
transition is atomic for the configuration, so that the device behaves like one
on which whole operations happen or do not (`Agent`); a serial number is never
replaced by another; a reset is final; the agent comes to rest. Package updates:
every update the maintenance handler has taken is reported, a success only if the
packages are installed, and the device returns to active. Monitoring: never left paused, and no alarm
for a tunnel a renewal has taken down itself. Device
initialisation: one at a time; a first setup succeeds only if an initialisation
did, on its own transaction; nobody blocks for ever; every accepted request comes
to its end, with the orchestrator told of it or the connection rebuilt. Connection: the App section belongs to the device's present setup,
names the host it is connected to, and lets the monitoring see a failover; the
device ends up at the only primary, or at none in a split brain. Tunnel check:
a tunnel that answers in time is found, and "all tunnels down" is true.
Configuration handlers: a success that is answered is committed, nothing is left
of what was rolled back, one peer's update is that peer's, an announced outcome
arrives. Hosts: exactly what was resolved, and nobody else's lines.

## 2. The modules

All definitions keep the names of the code where they can; `map` in
`PROJECT.json` gives the lines of each.

### `Handlers.tla` - what the handlers do

No variables. The device is a function from *resources* to values: the persisted
configuration (`state`, `serial`, `port` - the sections Port and AdminState, which
`isPortConfigurationChanged` compares alike -, `services`), `agent.env`, the daemons
(running and enabled: update manager, agent starter, DHCP server) and volatile
resources of the process (state in memory, publisher, the two groups of queue
subjects, the monitoring `pony`, the database handle, the pending reboot and the
goroutine that stops the starter). A handler is the sequence of *calls* it
makes; a call carries what it writes, how its undo is kept and what the handler
does with its error:

| `log` | code | undone |
|---|---|---|
| `activity` | `UpdateConfigWithTx`, `ExecuteActivity` | by rollback and after a crash |
| `func` | `ExecuteFunc`, `TryStart/StopServiceWithTx` | by rollback of the same process only |
| `none` | calls outside the transaction | never |
| `checkpoint` | `AddCheckPoint` | cuts the log |

| `err` | the handler |
|---|---|
| `never` | has no error to return |
| `log` | logs it and goes on |
| `abort` | returns it |
| `refuse` | always returns one (a precondition that does not hold) |
| `resume`, `restart` | returns it after resuming the monitoring, and restarting the publisher |
| `revoke` | returns it after deleting the checkpoint (closing the database in `reset`) |
| `finish` | deletes the checkpoint and goes on to the next transition with the error (`updateDevice`) |

`FollowUp` is the transition a handler returns; `Requests` are the transitions
callers ask for. `Record` is the undo log: since a rollback applies entries in
reverse, only the value the *oldest* entry of a resource restores matters, and
the log is a patch.

### `AppState.tla` - the state machine

Its theorems are in `AppStateProofs.tla`, `AppStateRestProofs.tla` (what Run comes
to rest in) and `AppStateAgentProofs.tla` (that it implements `Agent`).

Variables: `dev`, the undo log `tx` and the part `sealed` a checkpoint closed,
the place `phase` of `Run` (`dangling`, `boot`, `leg`, `rollback`, `idle`), the
transition `leg` and its remaining calls `todo`, the `queue` of blocked callers,
the number of `faults`, and three history variables the properties need
(`abandoned`, `stranded`, `wiped`).

| action | code |
|---|---|
| `Perform` | `StateService.Perform`, callable while its subject or the publisher is up |
| `Accept`, `Reject` | `Run` receives a transition; `StartTransaction` succeeds, or fails |
| `Begin` (in `Accept`, `Continue`, `SetActiveStateFromBoot`) | the checks of `performTransition` |
| `Step`, `CallFails` | one call of the handler |
| `Continue`, `Commit` | `result.Transition`, `FinishTransaction` |
| `Rollback`, `BootFails` | `FinishTransaction` with an error; on the way from boot it is fatal |
| `RollbackDangling(Fails)`, `SetActiveStateFromBoot` | `initServices`, `setActiveStateFromBoot` |
| `Crash`, `PowerCycle`, `RebootAfterReset`, `RebootFails` | death of the process, of the device |
| `DeactivateStarter` | the goroutine of the first setup |

In this module the initialisation by the orchestrator is part of the calls of
the first setup; its concurrency is the subject of `DeviceInit`. Every call of
`Run` returns here, which is true of all but one; `FirstInit` has that one.

### `FirstInit.tla` - the state machine and the mutex it may wait for

`AppState` with one more variable, `firstInit`: what the first setups before have
left at the mutex of `deviceinit.Service`. A first setup that goes without its
report, because the publisher refuses to start or after "device init timeout",
leaves `firstInitData` behind (`"left"`); the next `InitDevice`, or the one the
timeout has overtaken, reports to nobody and blocks with the mutex held
(`"held"`, `BlocksInReport`); from then on a first setup that reaches
`WaitFirstInit` stays there (`WaitsForMutex`), and with it `Run`, until the process
ends. `Run` is `RunStep` of `AppState` unless it waits, `Environment` the rest of
its steps, each with what it does to `firstInit`. A behaviour of `FirstInit` is one of
`AppState` (section 4), so that all its theorems hold here too. That a setup which
finds `firstInitData` is refused ("already waiting first init") is one of the
failures `CallFails` has at the wait; the model also allows it to succeed, and counts
it as a fault.

### `Agent.tla` - what the agent promises

The abstract specification: `config`, the configuration a restart would come up
with, and one action per operation, each of which happens whole: first boot,
migration, port, first setup, update of the configuration, of the packages, reset
of a hub. The update of the agent and the reset of a CPE take two steps; `fallback`
is what the first is taken back to (`TakeBack`) unless it stands (`Stand`).

`AppState!ImplementsAgent` is this specification under the refinement mapping

| `Agent` | `AppState` |
|---|---|
| `config` | `DurableConfig`: the persisted resources after a rollback of what is not committed |
| `fallback` | `FallbackConfig`: the same, if what a checkpoint has sealed were taken back too |
| `lost` | `abandoned`: a dangling rollback has failed |

A call of a handler is a stutter (its change is also in the undo log); the step
of the abstract specification is the commit, the checkpoint, or the deletion of
the database. `ConfigurationIsAtomic` says when the configuration may change,
`ImplementsAgent` also to what: a first setup without a port, a serial number
that comes without a network, a reset that keeps the serial, a rollback that
takes back half are behaviours `Agent` does not have.

### `DeviceInit.tla`, `DeviceInitProofs.tla` - first setup and initialisation

Goroutines: `Run` inside a first setup (`run`, and `from`, the state it began in:
init, or the maintenance an agent update has been cut in, `StopAtCheckpoint`), and
one worker per request (`pc`). Shared: `mx`, `firstInitData`, the configuration sections an
initialisation writes, `isInitializing`. Handing the result over the unbuffered
channel is one step (`Report`) of sender and receiver together, enabled only
while `Run` is in its `select`; a worker that has something to report and finds
nobody stays blocked with the mutex held, as in Go. A worker whose transaction
was finished in the meantime writes all the same, and nothing undoes it.
A stale first setup that finds the publisher running fails behind `WaitFirstInit`
(`PublisherIsRunning`). `sendInitDeviceFinished` ends with the orchestrator `told`,
for which the publisher has to run, or, after an error response or five failed
attempts, with `reconnected`. The actions and the lines of `deviceinit/service.go`, `deviceinit/handler.go`
and `active.go` they stand for are in `map`.

### `Connection.tla`, `ConnectionProofs.tla` - publisher, discovery, monitoring and the App section

Actors: the publisher with `BuildConn` (`bpc`, `bround`, what it has read), the
monitoring (`mpc`, `mround`, what it has read), first setup, reset and an
`InitDevice`. They share the App section `app`, the discovery's `hosts` and the
connection. A round of `FetchPrimary` is the set of hosts still to answer and
those that said they are the primary; roles change between two answers.
`BuildConn` is four steps in the order of the code: read the configuration and
ask (`BuildConn`, `BuildAnswer`), dial and read the configuration *again*
(`Dial`), write that whole section back (`WriteApp`), or find that they cannot
(`WriteFails`). The monitoring reads the
active orchestrator and the hosts (`Tick`), stores them (`Fetch`), and compares
the primary with what it read at first (`Decide`). A reset that stays in the
process is that of a hub; a CPE reboots (`AppState`).

### `HubTunnels.tla` - the tunnel check (theorems in `PortsProofs.tla`)

One goroutine per tunnel, the rendezvous with the caller, the timeout that closes
the channel. `pingTime` tells the two copies of the function apart: 30 attempts
of one second in `InitDevice`, of five seconds in `updateConfig`, against the
caller's 40 seconds; the unit is ten seconds. It is a variable that `Init`
chooses, so that one specification stands for both copies.

### `Ports.tla`, `PortsProofs.tla` - the monitoring and who pauses it

Composed with the tunnel check: `Ports` extends `HubTunnels`, whose actions run
while the check is started (or outlives its caller), and a tunnel answers only
while the port under it has a lease. Variables: the monitoring `pony`, the
`caller` of the check (`InitDevice`, which has the monitoring paused until the
end, or `updateConfig`, which resumes it before the check), a `renewal` per
request, the `port` it is for, the `lease`s, and whether the monitoring has
`alarmed`. History: `overlapped` (a section that pauses began or ended during
another) and `expired` (a renewal failed, or a port was flushed).

| action | code |
|---|---|
| `RenewDHCPLease`, `Release`, `Renew` | `port/service.go`: pause, `dhclient -r`, `dhclient`, the deferred resume |
| `FlushPort` | `ip addr flush`, a request of its own |
| `PauseToUpdate`, `WriteFails`, `StartCheck`, `EndUpdate` | `InitDevice` and `updateConfig` around the check |
| `TunnelFailed` | the event of pony, and the listener that dumps statistics |

### `Install.tla`, `InstallProofs.tla` - an update of packages

From the orchestrator's request to the report. Variables: the place `run` of Run
in the update, the request it works for (`current`), `durable` (the state a
restart would come up in: maintenance after the checkpoint of an agent update),
the update manager's `job` and `announced` per request, and what the orchestrator
was `told`. History: `dropped` (nobody could report), `late` (given up before its
announcement). `EnterMaintenance` is the way to the maintenance handler -
`StartTransaction`, `OnExit`, `updateAppState` - on which an error is rolled back
without a report; `RefuseUpdate` is a request that finds the agent in maintenance
already. `Prepare`, `RequestInstall`, `Subscribe`, `InstallFinished`,
`InstallTimeout`, `SendInstallFinished`, `UpdateDeviceFinished` are the calls of
`updateDevice`, `waitInstallFinished` and the handler after it, in their order;
`Restart` goes on with the subscription when the checkpoint says maintenance.
The details of that transaction are in `AppState`, which in turn takes the wait as
one fallible call.

The update manager is another program: the module has what the agent sees of it.
It takes any time, installs or fails, restarts the agent once while it installs
the agent's package, dies with the device, and announces the end once, to whoever
is subscribed at the time or later; the announcement may get lost while nobody is.

### `ConfigHandlers.tla`, `ConfigHandlersProofs.tla` - requests of the orchestrator

One process per request from its arrival to its answer, and `Run` with one
transaction at a time: `UpdateWgPeer`, `UpdateAllConfigs` (answered before it is
tried, announced with retries after), `UpdateConfig` of service and l3,
`RebuildServices` (which reads, removes and installs the services in three steps),
and the updates of trunk and isb that write without `Run`. A
section is named by the request that wrote it. `committed` is a history variable:
the requests that were carried out; `latest` the peers as they would be had
nobody read them too early.

### `Nslookup.tla` - the hosts file

`/etc/hosts` as a sequence of lines; `SyncHosts` is one action (nobody calls it
twice at once), with the comparison by number and then by content, the section
comment, and a torn write. Whether the resolver looks into the file before it
asks the name service depends on the system: `filesFirst`, either.

### Assumptions about code outside the repository

`sdwan-lib` is not in the repository; the models take from the calls the agent
makes that: undo steps kept by `ExecuteFunc` and the systemd helpers are lost
with the process, those of activities and configuration updates are not; a
rollback stops at a checkpoint, in the process and after a crash; undo steps do
not fail (the transactions are opened with `RollbackStrategySkipOnFail`); the
dangling rollback either happens or fails as a whole; `UpdateConfig` without a
transaction, which trunk, isb and `BuildConn` use, writes its section or returns an
error and leaves it as it was. Whether
`config.EmptyConfig()` blanks the AppState section is not visible, so it is the
constant `EmptyCfgClears` and both values are checked. Hostname, the address of
the first port and the grafana file are fallible calls without state; the
subscription of a list of subjects is one call. Systemd restarts the agent.
The publisher's `Stop` waits for a `BuildConn` in flight (`StopWaits`): without
that, `SerialIsGone` fails, since `BuildConn` would write the section of a setup
that is gone. `GetConfig` returns a copy of what is in the database, committed
or not. The threshold of a ping is the time one attempt may take. Lists of
orchestrator addresses are not empty: `FetchPrimary` of an empty one asks
`conc/pool` for zero goroutines, which panics, and the validation of the requests
refuses only a list that is missing; no run checks that case. A `dhclient -r` that fails may have
released the lease or not; pausing and resuming the monitoring do not fail.

## 3. The runs

TLC checks these; the state counts are of distinct states.

| run | expects | properties | states |
|---|---|---|---|
| `appstate_cpe` | pass | all of `AppState` but `SerialIsNeverReplaced`; `ComesToRest` of `FirstInit` | 406 409 |
| `appstate_hub` | pass | `ImplementsAgent`, `SerialIsNeverReplaced`, no deadlock | 930 664 |
| `deviceinit_setup` | pass | `TypeOK`, `ReportIsReceived`, `SetupIsInitialised`, `InstallsWhileAwaited`, `RequestIsConcluded` | 274 743 |
| `connection_orchestrator` | pass | `TypeOK`, `SerialIsGone`, `ActiveIsConnected`, `MonitoringSeesConnection`, `FollowsPrimary`, `LeavesSplitBrain` | 217 405 |
| `nslookup_sync` | pass | `SyncsEntries`, `KeepsForeignLines`, `SecondSyncIsQuiet` | 169 715 |
| `ports_check` | pass | `TypeOK`, `DownIsDown`, `MonitoringResumes`, `AlarmsAreReal`, `FindsLiveTunnel` | 403 934 |
| `install_updates` | pass | `TypeOK`, `SuccessIsInstalled`, `UpdateIsReported`, `ReturnsToActive` | 28 413 |
| `confighandlers_requests` | pass | `TypeOK`, `RestsWithServices`, `OkMeansUpdated`, `OutcomeIsAnnounced` | 131 800 |
| `appstate_reset` | violation | `ResetIsFinal` | |
| `deviceinit_hang` | violation | `FirstSetupEnds` | |
| `hubtunnels_panic` | violation | `NobodySendsOnClosed` | |
| `confighandlers_peers` | violation | `UpdatesOnlyItsPeer` | |

### What the passing runs show

- `StateIsPersisted`, `SubjectsMatchState`, `PublisherMatchesState`,
  `DaemonsMatchState`: at rest the parts of the device agree with the state,
  after any sequence of requests with up to two crashes, reboots or failing
  calls anywhere. The last two are the ones the code can only get right by care:
  the publisher and the monitoring are stopped outside the transaction and each
  error path starts them again; the daemons are restored by whichever handler
  runs after boot, since the undo of starting them does not survive a crash.
- `RestsInStableState`: `Run` is never left in update_config, ztp_setup, a reset
  without a pending reboot or an unfinished boot. The exception it names, an
  agent update whose rollback stopped at the checkpoint of `updateDevice`, is a
  state in which no request is accepted until a restart.
- `SerialMatchesState`, `SerialIsNeverReplaced`, `ResetIsFinal`: provisioned if
  and only if active, and never silently provisioned as another device: the serial
  number a restart would come up with is never replaced by another one, though a
  stale first setup may write its own before it is rolled back (section 5). The
  first rests on the dangling rollback, whose error is only logged; the history
  variable `abandoned` excepts that case.
- `ConfigurationIsAtomic`: the configuration a restart would come up with
  changes only at a commit, at a checkpoint, when reset deletes the database, or
  when a dangling rollback fails. `ComesToRest`: the agent ends up in init or
  active, whatever requests, faults, crashes and reboots happen on the way - but
  for a reset device that could not reboot, an update cut at its checkpoint, and a
  first setup that waits for the mutex an `InitDevice` holds since an earlier setup
  went without its report. Without the last exception TLC finds `Run` waiting for
  ever: this is what `deviceinit_hang` shows from the other side.
- `ImplementsAgent`: the state machine with all its calls, faults and restarts
  implements `Agent`, on a CPE and on a hub. It is checked with both values of
  `EmptyCfgClears`, with and without an id of an older version. The run of the hub
  leaves out the two actions that are never enabled there (`HubNext`): its reset
  stays in the process, and it has no starter to stop.
- `ReportIsReceived`, `RequestIsConcluded`, `InstallsWhileAwaited` hold as long as
  no first setup has gone without its report, by a timeout or because the publisher
  refused to start (history variable `orphaned`); what happens after one has is the
  subject of `deviceinit_hang`. `SetupIsInitialised` holds
  without that condition.
- `SerialIsGone`, `ActiveIsConnected`: what `BuildConn` writes back from a
  second read belongs to the present setup and to the connection, without an
  `InitDevice` (`inits = 0`); with one, see section 5.
- `MonitoringSeesConnection`: with an `InitDevice` too, the monitoring of a
  connected device finds what it needs. `FollowsPrimary`, `LeavesSplitBrain`:
  after the last failover the device ends up at the only primary of the hosts it
  asks, and at none of several.
- `SyncsEntries`, `KeepsForeignLines`, `SecondSyncIsQuiet`: the comparison of
  numbers before contents misses no change, from any file earlier calls can have
  left, with duplicates and after a torn write; a second call is quiet.
- `DownIsDown`, `FindsLiveTunnel`: the check of `InitDevice` tells the truth, and
  both copies find a tunnel that answers in time, while leases are renewed and
  ports flushed under them.
- `MonitoringResumes`: whichever sections overlap, in whatever order they end and
  whatever fails in them, the monitoring runs once nobody works.
  `AlarmsAreReal`: it raises no alarm for a tunnel a renewal has taken down, as
  long as sections do not overlap (see section 5).
- `UpdateIsReported`, `ReturnsToActive`: with messages lost or late and restarts
  anywhere, each update the maintenance handler has taken is reported, and the device
  is back in active unless the rollback stopped at the checkpoint. Not reported are,
  by the code, an update whose transition fails before that handler has it or finds
  the agent in maintenance, one whose report itself fails, and one whose process dies
  before the checkpoint; `InstallDevicePackages` has answered all of them with
  success (section 5). `SuccessIsInstalled`: the
  wait of one request can be ended by the late announcement of another, and by
  nothing else, so that is the only way a success can be told wrongly.
- `RestsWithServices`, `OkMeansUpdated`, `OutcomeIsAnnounced`: a rebuild that
  fails half way leaves the services of a request that was carried out, a
  success that was answered is committed, and the outcome of `UpdateAllConfigs`
  is announced or the connection is built again.

### What the failing runs show

- `appstate_reset`: `reset` only logs an error of `tryResetEnv` (`reset.go:181`).
  On a device upgraded from an old version `agent.env` then still holds the id,
  the database is gone, and the next boot migrates it to active again.
- `deviceinit_hang`: an initialisation that ends after the timeout blocks on the
  channel with the mutex held. The next first setup waits for the mutex before
  it starts its timer: `Run` hangs, and with it every caller of `Perform`.
- `hubtunnels_panic`: the goroutines of `updateConfig` may ping for 150 seconds,
  the channel is closed after 40. The trace ends with a goroutine that gets its
  answer after the timeout and sends on the closed channel: "all tunnels down" was
  wrong, and the process panics.
- `confighandlers_peers`: `UpdateWgPeer` reads all peers before it waits in
  `Perform`; what another request committed meanwhile is written over.

### Bounds, and why they are enough

`AppState`: `MaxQueue`: one caller blocked while another transition runs is what
makes a request stale (on the CPE, where liveness is checked). The hub has two, so
that a first setup can be queued behind the transitions that set the device up and
cut its update. `MaxFaults = 2`: a failing call followed by a crash in the rollback's
aftermath, or two crashes, one of them during recovery. The
CPE has two ports, so that an update can change the port or not, and one serial;
the hub two serials, so that one can replace the other, and one port. The proofs
of section 4 are for any number of each. The configurations
of services are told apart only from none.

`DeviceInit`: two first setups: what a timed-out one leaves behind meets the
next; three requests: one works, one waits for the mutex, one comes late.

`Connection`: two hosts are enough for a failover, a split brain and an address
that is added; two first setups so that a step of the first can meet the second;
one `InitDevice`, which has ended before the next first setup (longer lived ones
are in `DeviceInit`); two events, so that a role can move from one host to
another, or a crash follow a lost connection.

`Nslookup`: five steps are a configuration, a call, a change of the name service
or of the file, and two more calls. `HubTunnels` (`hubtunnels_panic`): three
tunnels, one more than the channel can serve before and after the timeout, and the
times of the code (30 and 150 seconds to ping, 40 to wait) in units of ten seconds.
`Ports`: two tunnels and two renewals, of the same port or of different ones, so
that renewals overlap with each other and with an update; the ping time of
`updateConfig` is 6 units instead of 15, which differs from `InitDevice`'s 3 in
what matters, being longer than the timeout of 4; the proofs are for any number
of either. `Install`: one update with the agent's package and one without, in
either order, so that the announcement of one can meet the wait of the other;
`MaxFaults = 3` suffices for a late announcement, a crash and a failed report
in one behaviour.
`ConfigHandlers`: one request of each kind, one fault, and two attempts to
announce instead of five; the proofs are for any number of them.

`CHECK_DEADLOCK FALSE` is set where the system may stop: a CPE after a reset
whose reboot command failed, and the other modules once their bounded requests,
changes or time are used up, or the mutex is lost, or the process has panicked.

### Fairness

`FirstInit!FirstInitFairSpec`: weak fairness of `Run` (its goroutine is scheduled by
Go, and each of its calls returns except `WaitFirstInit`, which is disabled while the
mutex is held; a `select` with a ready case is taken), of the reboot goroutine and of the goroutine that stops the starter.
`CallFails` is part of `Run` because a call either succeeds or fails; a fault
is never obliged to happen, since the disjunction stays enabled through `Step`.
Nothing obliges callers to ask. `DeviceInit!FairSpec`: weak fairness of Run's
steps in the first setup, including the two-minute timer, and of every worker.
A worker blocked on mutex or channel is disabled, not scheduled.
`Connection!FairSpec`: weak fairness of the publisher's steps (it builds the
connection again for ever) and of the monitoring's (a ticker, and requests with a
timeout). Roles, setups, resets and lost connections are free to stop.
`Ports!PortsFairSpec`: weak fairness of time, of the caller's timer, and of each
pinging goroutine (an attempt ends, a value both sides are ready for is handed
over), of the calls of a renewal and of the caller once it has paused the
monitoring: `dhclient` and the writes return. Nobody has to ask for a renewal, an
update or a flush, and nothing obliges the monitoring to raise an alarm.
`Install!FairSpec`: weak fairness of `RunStep` (Run is scheduled and its 30-second
timer fires). Nothing obliges the update manager to install, to announce or to
restart anybody.
`ConfigHandlers!FairSpec`: weak fairness of Run, and of each handler after it.

## 4. The proofs

`AppStateProofs.tla`, checked by TLAPS, for every value of the constants that
satisfies the assumptions in `Handlers.tla` (a device type, a set of serials,
ports and services that hold neither the marker `Keep` nor `None`, a factory id,
natural bounds; the sets may be infinite):

- `TypeCorrect == Spec => []TypeOK`. `TypeOK` is inductive by itself. The work
  is in the handlers: a lemma per handler shows that the sequence it returns is
  a sequence of well-typed calls, a lemma about `Apply` and `Record` that
  patches keep devices and logs typed, and then one step per action.
- `ConfigurationAtomic == Spec => ConfigurationIsAtomic`. Not inductive alone;
  the invariant `AtomicInv` adds that the in-memory undo log never holds a
  persisted resource (`MemHasNoConfig`), that every call still to be made writes
  a persisted resource only as an activity, or after the database has been
  closed (`CallsAreGuarded`), and that the log is empty where no transaction is
  open (`RestsClosed`). With it, each action either records the old value of
  what it overwrites, so that `DurableConfig` stays, or is one of the disjuncts
  of `AtomicStep`. TLC checks the same property on the instances of section 3.

`AppStateRestProofs.tla`, under the same assumptions, proves how `Run` comes to
rest: `StatePersisted == Spec => []StateIsPersisted`,
`SubjectsMatch == Spec => []SubjectsMatchState` and
`RestsStable == Spec => []RestsInStableState`. None of them is inductive, because
a leg may stop after any of its calls. `RestInv`, on top of `AtomicInv`, adds

- what the calls still to be made lead to (`InLeg`): whatever a leg has not yet
  reached - its state in memory and in the database, its subjects, the closed
  database of a reset - one of the remaining calls reaches (`Settles`), each call
  writes only that and can be undone in memory (`Fitting`), and nothing that may
  fail comes behind a checkpoint in the wrong order (`Ordered`). A lemma per
  handler (`HandleInitFits`, ..., `HandleResetFits`) and `LegSettles` show it of
  every sequence `performTransition` starts with, `StepRest` and `CallFailsRest`
  that each call keeps it;
- where the transaction would go back to (`CanGoBack`): `Undone`, the device after
  a rollback, and `Started`, the device with the checkpoint taken back as well,
  are at rest, unless a CPE's reset is behind its checkpoint, where only calls
  remain whose errors are passed over or that delete the checkpoint (`Sealing`);
- that subjects, state in memory and the closing of the database are never in the
  log that survives a crash (`LogsApart`), that the process starts in boot with
  nothing subscribed (`BootsClean`), that the database is closed only at the end of
  a CPE's reset (`ClosesAtTheEnd`), and that every request in the queue is one that
  does not end in a transient state (`QueueMeant`, for every set of requests).

So a last leg ends at its goals (`LastLeg`: a stable state, or the erased CPE) and
a failed one at `Undone`, and both satisfy `AtRest`, which implies the three.

The same module proves `PublisherMatches == Spec => []PublisherMatchesState`.
Publisher and monitoring are changed by calls of all kinds, logged or not, and
`updateConfig` and `InitDevice` have them in their own hands. `PublisherInv` adds

- that the calls to come lead the publisher where the transition wants it
  (`WsGoal`) or stop at a precondition (`Ends`, `Refuses`), that whatever is
  stopped or paused outside the transaction is started or resumed by each error
  path before anything else can fail (`Resumes`), and that the calls to come open
  what is closed now (`Opens`);
- that a rollback leads to a device whose publisher fits (`GoesBackRight`), in
  `updateConfig` because it is in no log (`BackRight`), elsewhere because it is in
  the one in memory; the monitoring is in no log at all (`LogsKeep`);
- that the event of a transition says where it leads (`Aims`).

And `DaemonsMatch == Spec => []DaemonsMatchState`. Most handlers log a function that
restores the daemon they change, but not all: the first setup enables and starts the
update manager by commands whose inverse is "off" whatever was before, and its last
call leaves a goroutine behind that stops the starter later, outside of any
transaction. `DaemonsInv` adds

- that in a leg the remaining calls stop no daemon the state it leads to needs
  (`Serves`, but for the last call of a first setup), and that each such daemon runs,
  or a remaining call starts it, or the calls stop at a precondition (`Tends`). A
  lemma per handler shows it of the sequences, `ServeStart` says where a leg may
  begin: from zero-touch provisioning a CPE comes to init only with its daemons running;
- that where the transaction would go back to, the daemons run (`GoesBackServed`):
  `Undone`, and `Started` behind a checkpoint. Exempt are a boot, which begins
  with whatever the supervisor has started, and a first setup behind its last
  call (`SetUp`), which cannot fail any more;
- that the goroutine is in no log (`NeverLogged`), that no process starts with one
  (`BootsQuiet`) and that no CPE comes to init with one pending (`LegServes`,
  `DaemonsRun`), so that it stops nothing a device in init needs. A first setup
  is taken back to a device that was not active, and has no checkpoint behind it,
  hence the update manager its inverse stops is not one that is needed there.

`AppStateAgentProofs.tla` proves the refinement and what follows from it:

- `Implements == Spec => ImplementsAgent`, where `ImplementsAgent` is the whole
  specification of `Agent`: the initial states map to initial states, and each
  step to an operation or a stutter. `AgentInv`, on top of the invariants above,
  says what a leg is about to do. Outside a dangling rollback that failed, one of
  four holds (`LegHeads`): the calls to come end (`Ends`) with a configuration
  that is *one* operation on the durable one (`Heads`, with the cases of `Agent`
  by the event of the leg); or they stop at a precondition (`Refuses`); or they
  are a first setup that the running publisher refuses (`Blocked`); or the
  database is being deleted (`Wiping`). `LegBrings` shows from the sequences
  of calls which configuration each leg brings, `StepAgent` that a call keeps the
  four, `CommitOperates` that a commit is then an operation of `Agent`. A
  checkpoint is the first half of an operation of two steps, the deletion of the
  database or the last commit the second; `FallbackConfig` is what a failure between the two is
  taken back to. A follow-up leg heads for what the legs before it and its own calls make
  of the durable configuration, which has not changed since the first.
- `WaitingImplements == FirstInitSpec => ImplementsAgent`, by the lemma
  `FirstInitIsAppState == FirstInitSpec => Spec`: waiting for the mutex only leaves
  steps out, and what becomes of `firstInit` is a stutter. All other theorems about
  `AppState` carry over in the same way.
- `SerialMatches == Spec => []SerialMatchesState` by `ConfigStable`: every
  configuration a restart may come up with is in a stable state, and has a serial
  number exactly when it is provisioned.
- `SerialNeverReplaced == Spec => SerialIsNeverReplaced`, a corollary of the
  refinement (`AgentKeepsSerial`): no operation of `Agent` replaces a serial.
- `ResetFinal == ASSUME FactoryID = None PROVE Spec => []ResetIsFinal`, by
  `StaysReset`. The assumption is needed: the reset of `agent.env` may fail, and
  then an id of an older version migrates the device again (`appstate_reset`).

`ConfigHandlersProofs.tla`, for any sets of peers and requests that the named
assumptions keep apart, and any number of failures:

- `TypeCorrect == Spec => []TypeOK`, with the attempts that are left to a request
  that announces (`AttemptsAreLeft`).
- `ServicesAtRest == Spec => []RestsWithServices`. `ServicesInv` adds what is
  true inside a transition: the services are settled, or removed in a rebuild,
  or those of the request `Run` works for; and what a rebuild has read and what
  the undo log holds is settled, so that both ways out lead back to it.
- `OkIsUpdated == Spec => []OkMeansUpdated`. `AnswersInv` adds the requests that
  are about to be answered.

`PortsProofs.tla`, of the tunnel check alone, for any set of tunnels and any times:

- `TypeCorrect == Spec => []TypeOK`.
- `TunnelsAreDown == Spec => []DownIsDown`. `NobodyIsLate` adds that after the
  ping time nobody pings, and nobody the caller waits for has something to say.

and of the monitoring and the renewals around it, any number of them:

- `ChecksAlone == PortsSpec => Spec`: with the renewals and the monitoring around
  it, the check still behaves as `HubTunnels` says, each step a step of it or a
  stutter. `TunnelsAreDownMeanwhile` carries the theorem of that module over.
- `Resumes == PortsSpec => []MonitoringResumes` and `RealAlarms`. `PortsInv` adds
  that as long as nothing overlapped at most one section is open and the
  monitoring is paused in it (`PausedWhileAlone`), and that a port without a lease
  belongs to a renewal under way or is expired (`LeasesReturn`).

`InstallProofs.tla`, for any updates and any number of faults:

- `TypeCorrect == Spec => []TypeOK`, whose last conjuncts tie the place of Run to
  the request and to what survives a restart.
- `SuccessInstalled == Spec => []SuccessIsInstalled`. `InstallInv` adds that a
  request announced or under way at the manager is the current one or was given up
  (`OthersAreLate`), that the manager has not been asked before Run asks it
  (`NotAsked`), and that a success about to be reported is true (`ReportIsTrue`).

`DeviceInitProofs.tla`, for any number of requests and first setups:

- `TypeCorrect == Spec => []TypeOK`. The last conjunct of `TypeOK`, that whoever
  works, reports or closes holds the mutex, is mutual exclusion, and carries the
  rest.
- `ReportReceived`, `SetupInitialised`, `AwaitedInstalls`. `HolderInv` says what
  the holder of the mutex knows: `firstInitData` is still what it read when it
  locked, and it reports success only with all parts written. `SetupInv` says
  that a setup that waits is the one in `firstInitData`, that nothing else is
  there unless a setup has gone without its report, and that a setup that succeeds was told so
  by a worker on its transaction. `AwaitedInstalls` is an action property:
  `Install` is the only action that advances a worker.

`ConnectionProofs.tla`, for any hosts, serial numbers, lists and bounds:

- `TypeCorrect == Spec => []TypeOK`, by `TypeInv`, which adds that a device in
  init has no publisher (`OffInInit`).
- `SerialGone == ASSUME StopWaits PROVE Spec => []SerialIsGone` and
  `ActiveConnected`. `OwnerInv` adds `BuildsWhileConnecting`, which confines a
  `BuildConn` in flight to a publisher that is connecting, so that its write
  cannot meet a setup that is gone. The assumption is needed: see section 2.
- `MonitoringSees == Spec => []MonitoringSeesConnection`. `SeenInv` adds
  `HostsAreKnown` and `ActiveIsKept`: with a publisher there is an active host
  in the section *and* in the copy an `InitDevice` may write or restore.

Only model-checked: everything about `Nslookup`, the failing runs, and all liveness,
which is out of reach of the prover, as are induction over data and recursive
operators.

## 5. Deviations seen, without a run

Met while modelling; each is in the models and shows when the named condition of
a property is dropped, or in the code at the line given.

- `deviceinit/service.go:132`: after "device init timeout" nobody clears
  `firstInitData`, so that the next first setup is refused as "already waiting
  first init" although nobody waits.
- `deviceinit/handler.go:61`: the state is checked before the goroutine takes
  the mutex; a rolled back setup or a reset in between, and it configures a
  device that is not active.
- `deviceinit/service.go:155`: an `InitDevice` in a transaction of its own has read
  the App section; a hub is reset meanwhile; the `InitDevice` writes its copy, or
  is rolled back to the section it found, and the hub in init has its serial
  number again (why `SerialIsGone` has `inits = 0`).
- `connection/factory.go:121-127`: addresses that an `InitDevice` installs
  between the second read and the write of `BuildConn` are lost.
- `connection/factory.go` and a rolled back `InitDevice`: the rollback puts an
  older active address back (why `ActiveIsConnected` and `FollowsPrimary` have
  `inits = 0`); the monitoring then compares with the wrong host.
- `discovery/monitoring/service.go:84`: the primary is compared with an active
  address read before the requests to the hosts; if the publisher has moved to
  the new primary meanwhile, that connection is taken down once more.
- `discovery/service.go:53`: a monitoring that read the hosts before a new setup
  stores them again (why `FollowsPrimary` speaks of the hosts that are asked);
  addresses an `InitDevice` adds are not asked before the next connection.
- `nslookup/service.go:63`: with the usual order of the resolver the entries of
  an earlier call answer the query, so that a changed address is not noticed.
- `nslookup/service.go:117`: entries of hosts the configuration does not name
  any more stay; `:143`: every change adds an empty line.
- `trunk/handler.go:58`, `isb/handler.go`: a write without the state machine is
  answered and then overwritten by `rebuildServices`, which read before it.
- `maintenance.go:216`: the announcement names no request. One that comes after
  its own wait has timed out ends the wait of the next update, and is reported
  as its outcome (why `SuccessIsInstalled` names `late` requests).
- `maintenance.go:199`: an announcement that comes before the subscription is
  only heard if the update manager tries again; otherwise an update that was
  installed is reported as failed after 30 seconds.
- `updatemanager/handler.go:69`: the request is answered before `Perform`. An error
  of `StartTransaction`, `OnExit` or `updateAppState` (`appstate/service.go:123`,
  `:221`, `:230`), or "already in state maintenance" (`:202`), comes before the
  handler that reports, and only an error response to the answered request
  follows (why `UpdateIsReported` names `dropped` requests).
- `maintenance.go:86`: a report that fails is only logged; a crash between the
  report and the commit of an agent's update has the next process wait again and
  report a second, perhaps contrary, outcome.
- `port/service.go:148`: pausing is not counted. When two sections overlap, the
  first that ends resumes the monitoring for both, which then reports the tunnel
  of the other as down (why `AlarmsAreReal` excepts `overlapped`). `FlushPort`
  does not pause it at all.
- `appstate/service.go:118`: a first setup that was queued before the device was
  set up by another one, and is taken by an agent whose update was rolled back to
  its checkpoint (state maintenance), is validated (`active.go:64` allows any
  state) and writes its serial number over the present one; only `websocket.Start`
  refuses it, since the publisher runs, and the transaction is rolled back (why `SerialIsNeverReplaced` speaks of the
  configuration a restart would come up with).
- `maintenance.go:85-94`: `updateDevice` deletes the checkpoint when it fails
  and goes on to active; the services it has deleted stay deleted.

## 6. What is not modelled, and why

- `AppState` and `Install` have the deletion of a checkpoint as one step. Its failure,
  which is only logged (`maintenance.go:152`), is in `Install`, where it leaves the
  device to a restart in maintenance; `AppState` leaves it out.
- Of the hub the mutex of the device initialisation is not in the run
  (`appstate_hub`), whose freedom from deadlock is that of the state machine alone.
- In `AppState` only `Run` writes the configuration: `SerialMatchesState` is a
  statement about the state machine alone. `Connection` has the other writers of
  the App section, `ConfigHandlers` those of the services.
- Several subjects of one state are subscribed in one call; a failure half way
  through the list is not told apart from one before it.
- Failing undo steps, and losing the database by other means than reset.
- The graceful shutdown (`shutdownServices`) is a `Crash`: nothing is finished.
- Contents of configuration sections, parsing, logging, formatting, queries.

## 7. The plan

1. `Handlers`, `AppState`, `DeviceInit`, `Connection` (with the discovery),
   `HubTunnels`, `ConfigHandlers`, `Nslookup` - done.
2. `Install`, the update manager and the agent; `Ports`, the monitoring and who
   pauses it, composed with `HubTunnels`; `Agent` and the refinement - done.
3. Theorems for `StateIsPersisted`, `SubjectsMatchState` and `RestsInStableState`
   by an invariant that relates the calls still to be made to the transition - done.
4. Theorems for the publisher, the daemons, the serial number, the reset, and the
   refinement of `Agent`, step by step - done.
5. Left: theorems for the functions of `Nslookup` that are not recursive.
