-------------------------- MODULE ConnectionProofs --------------------------
(***************************************************************************)
(* The App section of the configuration for any hosts, serial numbers and  *)
(* bounds: whose it is, whom it names, and what the monitoring finds in    *)
(* it, whatever publisher, monitoring, setups and resets do in between.    *)
(***************************************************************************)
EXTENDS Connection, TLAPS

LEMMA BlankTyped == Blank \in AppSections /\ NoRound \in Rounds
  BY DEF Blank, AppSections, NoRound, Rounds

(* A device in init has no publisher.                                      *)
OffInInit == session = "init" => pub = "off"

TypeInv == TypeOK /\ OffInInit

LEMMA InitTypeInv == Init => TypeInv
  BY BlankTyped, BoundsAssumption DEF Init, TypeInv, TypeOK, OffInInit, Blank, Roles

LEMMA CheckPrimaryTyped ==
  ASSUME NEW r \in Rounds, NEW h \in Hosts
  PROVE  CheckPrimary(r, h) \in Rounds
  BY DEF CheckPrimary, Rounds

LEMMA RestoredTyped == ASSUME TypeOK PROVE Restored \in AppSections
  BY DEF TypeOK, Restored

-----------------------------------------------------------------------------
(* What each actor does to the types.                                      *)

LEMMA PublisherTypes ==
  ASSUME TypeInv, PublisherStep \/ WriteFails \/ Disconnect PROVE TypeInv'
<1> USE HostsAssumption, BlankTyped, BoundsAssumption
    DEF TypeInv, OffInInit, TypeOK, device, publisher, build, monitor, init, bounds
<1>1. CASE BuildConn
  <2>1. app.addrs \subseteq Hosts /\ app.serial \in Serials \cup {None}
        BY DEF AppSections
  <2>2. StartRound(app.addrs) \in Rounds
        BY <2>1 DEF StartRound, Rounds
  <2> QED BY <1>1, <2>1, <2>2 DEF BuildConn
<1>2. ASSUME NEW h \in Hosts, BuildAnswer(h) PROVE TypeInv'
  <2>1. bround' \in Rounds
        BY <1>2, CheckPrimaryTyped DEF BuildAnswer
  <2> QED BY <1>2, <2>1 DEF BuildAnswer
<1>3. CASE BuildFails
      BY <1>3 DEF BuildFails
<1>4. CASE Dial
  <2>1. bapp' \in AppSections /\ bapp'.active # None
        BY <1>4 DEF Dial, AppSections
  <2> QED BY <1>4, <2>1 DEF Dial
<1>5. CASE WriteApp
  <2>1. bapp.active \in Hosts \cup {None}
        BY DEF AppSections
  <2> QED BY <1>5, <2>1 DEF WriteApp, Blank
<1>6. CASE Disconnect
      BY <1>6 DEF Disconnect
<1>7. CASE WriteFails
      BY <1>7 DEF WriteFails, Blank
<1> QED BY <1>1, <1>2, <1>3, <1>4, <1>5, <1>6, <1>7 DEF PublisherStep

LEMMA MonitorTypes == ASSUME TypeInv, MonitorStep PROVE TypeInv'
<1> USE HostsAssumption, BlankTyped
    DEF TypeInv, OffInInit, TypeOK, device, publisher, build, monitor, init, bounds
<1>1. CASE Tick
  <2>1. app.active \in Hosts \cup {None}
        BY DEF AppSections
  <2> QED BY <1>1, <2>1 DEF Tick
<1>2. CASE Fetch
  <2>1. StartRound(mhosts) \in Rounds
        BY DEF StartRound, Rounds
  <2> QED BY <1>2, <2>1 DEF Fetch
<1>3. ASSUME NEW h \in Hosts, MonitorAnswer(h) PROVE TypeInv'
  <2>1. mround' \in Rounds
        BY <1>3, CheckPrimaryTyped DEF MonitorAnswer
  <2> QED BY <1>3, <2>1 DEF MonitorAnswer
<1>4. CASE Decide
      BY <1>4 DEF Decide, Reconnect
<1> QED BY <1>1, <1>2, <1>3, <1>4 DEF MonitorStep

LEMMA SessionTypes ==
  ASSUME TypeInv,
         \/ \E s \in Serials, addrs \in AddrLists : RunFirstSetup(s, addrs)
         \/ SetupEnds \/ Reset \/ StopPublisher \/ ClearApp
  PROVE  TypeInv'
<1> USE HostsAssumption, BlankTyped, BoundsAssumption
    DEF TypeInv, OffInInit, TypeOK, device, publisher, build, monitor, init, bounds
<1>1. ASSUME NEW s \in Serials, NEW addrs \in AddrLists, RunFirstSetup(s, addrs) PROVE TypeInv'
  <2>1. app' \in AppSections
        BY <1>1, AddrListsAssumption DEF RunFirstSetup, AppSections
  <2> QED BY <1>1, <2>1 DEF RunFirstSetup
<1>2. CASE SetupEnds
      BY <1>2 DEF SetupEnds
<1>3. CASE Reset
      BY <1>3 DEF Reset
<1>4. CASE StopPublisher
      BY <1>4 DEF StopPublisher
<1>5. CASE ClearApp
      BY <1>5 DEF ClearApp
<1> QED BY <1>1, <1>2, <1>3, <1>4, <1>5

LEMMA InitDeviceTypes ==
  ASSUME TypeInv,
         \/ InitDevice \/ InitEnds \/ InitFails
         \/ \E addrs \in AddrLists \cup {iapp.addrs} : InstallAddrs(addrs)
  PROVE  TypeInv'
<1> USE HostsAssumption, BlankTyped, BoundsAssumption
    DEF TypeInv, OffInInit, TypeOK, device, publisher, build, monitor, init, bounds
<1>1. CASE InitDevice
      BY <1>1 DEF InitDevice
<1>2. ASSUME NEW addrs \in AddrLists \cup {iapp.addrs}, InstallAddrs(addrs) PROVE TypeInv'
  <2>1. addrs \in SUBSET Hosts
        BY AddrListsAssumption DEF AppSections
  <2>2. app' \in AppSections
        BY <1>2, <2>1 DEF InstallAddrs, AppSections
  <2> QED BY <1>2, <2>2 DEF InstallAddrs
<1>3. CASE InitEnds
      BY <1>3 DEF InitEnds
<1>4. CASE InitFails
      BY <1>4, RestoredTyped DEF InitFails
<1> QED BY <1>1, <1>2, <1>3, <1>4

LEMMA WorldTypes ==
  ASSUME TypeInv, Crash \/ \E h \in Hosts : ChangeRole(h) PROVE TypeInv'
<1> USE HostsAssumption, BlankTyped, BoundsAssumption
    DEF TypeInv, OffInInit, TypeOK, device, publisher, build, monitor, init, bounds
<1>1. ASSUME NEW h \in Hosts, ChangeRole(h) PROVE TypeInv'
      BY <1>1 DEF ChangeRole
<1>2. CASE Crash
      BY <1>2, RestoredTyped DEF Crash, Blank
<1> QED BY <1>1, <1>2

LEMMA NextTypeInv == TypeInv /\ [Next]_vars => TypeInv'
<1> SUFFICES ASSUME TypeInv, [Next]_vars PROVE TypeInv'
    OBVIOUS
<1>1. CASE UNCHANGED vars
      BY <1>1 DEF vars, device, publisher, build, monitor, init, bounds, TypeInv, TypeOK, OffInInit
<1>2. CASE Next
      BY <1>2, PublisherTypes, MonitorTypes, SessionTypes, InitDeviceTypes, WorldTypes DEF Next
<1> QED BY <1>1, <1>2

(* For all hosts, serial numbers and bounds the variables keep their types *)
(* and hang together: rounds, connections and copies have their owners.    *)
THEOREM TypeCorrect == Spec => []TypeOK
<1>1. Init => TypeInv
      BY InitTypeInv
<1>2. TypeInv /\ [Next]_vars => TypeInv'
      BY NextTypeInv
<1>3. TypeInv => TypeOK
      BY DEF TypeInv
<1> QED BY <1>1, <1>2, <1>3, PTL DEF Spec

-----------------------------------------------------------------------------
(* The publisher builds a connection only while it has none, and, where its*)
(* Stop waits, not after it was stopped.  Without an InitDevice the App    *)
(* section has the owners that remain: publisher, setup and reset.         *)
BuildsWhileConnecting ==
  /\ pub = "connected" => bpc = "idle"
  /\ StopWaits /\ pub = "off" => bpc = "idle"

AppInv ==
  inits = 0 =>
    /\ ipc = "idle"
    /\ pub = "connected" => app.active = conn
    /\ StopWaits /\ session = "init" => app.serial = None

OwnerInv == TypeInv /\ BuildsWhileConnecting /\ AppInv

LEMMA NextOwner == OwnerInv /\ [Next]_vars => OwnerInv'
<1> SUFFICES ASSUME OwnerInv, [Next]_vars PROVE OwnerInv'
    OBVIOUS
<1>1. TypeInv /\ TypeInv'
      BY NextTypeInv DEF OwnerInv
<1>2. inits \in Nat
      BY <1>1, BoundsAssumption DEF TypeInv, TypeOK
<1> USE <1>1, HostsAssumption, StopAssumption
    DEF OwnerInv, BuildsWhileConnecting, AppInv, TypeInv, OffInInit, device, publisher, build, monitor, init, bounds
<1>3. CASE PublisherStep \/ WriteFails \/ Disconnect
  <2>1. CASE WriteApp
        BY <2>1 DEF WriteApp
  <2> QED BY <1>3, <2>1 DEF PublisherStep, BuildConn, BuildAnswer, BuildFails, Dial, WriteFails, Disconnect
<1>4. CASE MonitorStep
      BY <1>4 DEF MonitorStep, Tick, Fetch, MonitorAnswer, Decide, Reconnect
<1>5. ASSUME NEW s \in Serials, NEW addrs \in AddrLists, RunFirstSetup(s, addrs) PROVE OwnerInv'
      BY <1>5 DEF RunFirstSetup
<1>6. CASE SetupEnds \/ Reset \/ StopPublisher \/ ClearApp
      BY <1>6 DEF SetupEnds, Reset, StopPublisher, ClearApp, Blank
<1>7. CASE InitDevice
      BY <1>2, <1>7 DEF InitDevice
<1>8. ASSUME NEW addrs \in AddrLists \cup {iapp.addrs}, InitEnds \/ InitFails \/ InstallAddrs(addrs)
      PROVE  OwnerInv'
      BY <1>8 DEF InitEnds, InitFails, InstallAddrs
<1>9. ASSUME NEW h \in Hosts, ChangeRole(h) PROVE OwnerInv'
      BY <1>9 DEF ChangeRole
<1>10. CASE Crash
      BY <1>10 DEF Crash, Blank
<1>11. CASE UNCHANGED vars
      BY <1>11 DEF vars
<1> QED BY <1>3, <1>4, <1>5, <1>6, <1>7, <1>8, <1>9, <1>10, <1>11 DEF Next

LEMMA Owner == Spec => []OwnerInv
<1>1. Init => OwnerInv
  <2>1. Init => BuildsWhileConnecting /\ AppInv
        BY DEF Init, BuildsWhileConnecting, AppInv, Blank
  <2> QED BY <2>1, InitTypeInv DEF OwnerInv
<1> QED BY <1>1, NextOwner, PTL DEF Spec

(* For all hosts, serial numbers and bounds: if the publisher's Stop waits *)
(* for a BuildConn in flight, none brings back the serial number of a setup*)
(* that is gone (connection/factory.go:121-133).                           *)
THEOREM SerialGone == ASSUME StopWaits PROVE Spec => []SerialIsGone
<1>1. OwnerInv => SerialIsGone
      BY DEF OwnerInv, AppInv, SerialIsGone
<1> QED BY <1>1, Owner, PTL

(* For all hosts, serial numbers and bounds the active orchestrator in the *)
(* configuration is the host the device is connected to, when no InitDevice*)
(* has been at it (connection/factory.go:127-133).                         *)
THEOREM ActiveConnected == Spec => []ActiveIsConnected
<1>1. OwnerInv => ActiveIsConnected
      BY DEF OwnerInv, AppInv, ActiveIsConnected
<1> QED BY <1>1, Owner, PTL

-----------------------------------------------------------------------------
(* What the monitoring needs, with an InitDevice too: hosts once they were *)
(* asked, and an active orchestrator in the section and in every copy that *)
(* may be written back while there is a publisher.                         *)
HostsAreKnown ==
  /\ pub = "connected" \/ bpc # "idle" => hosts # {}
  /\ mpc = "fetch" => mhosts # {}

ActiveIsKept ==
  /\ pub = "connected" => app.active # None
  /\ pub # "off" /\ ipc # "idle" => app.active # None /\ iapp.active # None

SeenInv == TypeInv /\ HostsAreKnown /\ ActiveIsKept

LEMMA NextSeen == SeenInv /\ [Next]_vars => SeenInv'
<1> SUFFICES ASSUME SeenInv, [Next]_vars PROVE SeenInv'
    OBVIOUS
<1>1. TypeInv /\ TypeInv'
      BY NextTypeInv DEF SeenInv
<1>2. /\ pub = "connected" <=> conn # None
      /\ bpc = "write" => bapp.active # None
      /\ app \in AppSections /\ iapp \in AppSections /\ bapp \in AppSections
      BY <1>1 DEF TypeInv, TypeOK
<1> USE <1>1, <1>2
    DEF SeenInv, HostsAreKnown, ActiveIsKept, TypeInv, OffInInit, device, publisher, build, monitor, init, bounds
<1>3. CASE PublisherStep \/ WriteFails \/ Disconnect
  <2>1. CASE WriteApp
        BY <2>1 DEF WriteApp
  <2> QED BY <1>3, <2>1 DEF PublisherStep, BuildConn, BuildAnswer, BuildFails, Dial, WriteFails, Disconnect
<1>4. CASE MonitorStep
      BY <1>4 DEF MonitorStep, Tick, Fetch, MonitorAnswer, Decide, Reconnect
<1>5. ASSUME NEW s \in Serials, NEW addrs \in AddrLists, RunFirstSetup(s, addrs) PROVE SeenInv'
      BY <1>5 DEF RunFirstSetup
<1>6. CASE SetupEnds \/ Reset \/ StopPublisher \/ ClearApp
      BY <1>6 DEF SetupEnds, Reset, StopPublisher, ClearApp
<1>7. CASE InitDevice
      BY <1>7 DEF InitDevice
<1>8. ASSUME NEW addrs \in AddrLists \cup {iapp.addrs}, InstallAddrs(addrs) PROVE SeenInv'
  <2>1. app'.active = iapp.active
        BY <1>8 DEF InstallAddrs, AppSections
  <2> QED BY <1>8, <2>1 DEF InstallAddrs
<1>9. CASE InitEnds \/ InitFails
      BY <1>9 DEF InitEnds, InitFails, Restored
<1>10. ASSUME NEW h \in Hosts, ChangeRole(h) PROVE SeenInv'
      BY <1>10 DEF ChangeRole
<1>11. CASE Crash
      BY <1>11 DEF Crash
<1>12. CASE UNCHANGED vars
      BY <1>12 DEF vars
<1> QED BY <1>3, <1>4, <1>5, <1>6, <1>7, <1>8, <1>9, <1>10, <1>11, <1>12 DEF Next

(* For all hosts, serial numbers and bounds a connected device can notice a*)
(* failover, whoever else writes the App section (monitoring/service.go:   *)
(* 64-75).                                                                 *)
THEOREM MonitoringSees == Spec => []MonitoringSeesConnection
<1>1. Init => SeenInv
  <2>1. Init => HostsAreKnown /\ ActiveIsKept
        BY DEF Init, HostsAreKnown, ActiveIsKept
  <2> QED BY <2>1, InitTypeInv DEF SeenInv
<1>2. SeenInv => MonitoringSeesConnection
      BY DEF SeenInv, HostsAreKnown, ActiveIsKept, MonitoringSeesConnection
<1> QED BY <1>1, <1>2, NextSeen, PTL DEF Spec
=============================================================================
