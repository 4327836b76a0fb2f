---------------------------- MODULE PortsProofs -----------------------------
(***************************************************************************)
(* The check of the hub tunnels, for any number of tunnels and any times:  *)
(* it is right to report all tunnels down, and nobody sends on the closed  *)
(* channel, when the goroutines are done before the caller times out.      *)
(*                                                                         *)
(* The monitoring and everybody who pauses it, for any number of renewals  *)
(* and tunnels: it always resumes, its alarms are real, and the check of   *)
(* the hub tunnels among them is still the one of HubTunnels.              *)
(***************************************************************************)
EXTENDS Ports, TLAPS

-----------------------------------------------------------------------------
(* The check by itself.                                                    *)

(* A goroutine that pings or has something to say is not late; only the    *)
(* first to say it has been heard.                                         *)
NobodyIsLate ==
  /\ now > pingTime => \A t \in Tunnels : pinger[t] # "ping"
  /\ now > pingTime /\ check = "waiting" => \A t \in Tunnels : pinger[t] # "send"
  /\ check = "waiting" => \A t \in Tunnels : pinger[t] # "up"

TunnelInv == TypeOK /\ (pingTime < Timeout => NobodyIsLate /\ AllTunnelsDown)

(* The initial state has the types. *)
LEMMA InitTypeOK == Init => TypeOK
<1> SUFFICES ASSUME Init PROVE TypeOK
    OBVIOUS
<1>1. panicked \in BOOLEAN
      BY Zenon DEF Init
<1> QED BY <1>1 DEF Init, TypeOK

(* The types, and that the channel is closed exactly when the caller has   *)
(* given up, are inductive by themselves.                                  *)
LEMMA NextTypeOK == TypeOK /\ [Next]_vars => TypeOK'
<1> SUFFICES ASSUME TypeOK, [Next]_vars PROVE TypeOK'
    OBVIOUS
<1> USE TimesAssumption DEF TypeOK
<1>1. CASE TimesOut
      BY <1>1 DEF TimesOut
<1>2. CASE Tick
      BY <1>2 DEF Tick
<1>3. ASSUME NEW t \in Tunnels, PingerStep(t) PROVE TypeOK'
      BY <1>3 DEF PingerStep, Answered, GivesUp, Receive, SendOnClosed
<1>4. CASE UNCHANGED vars
      BY <1>4 DEF vars
<1> QED BY <1>1, <1>2, <1>3, <1>4 DEF Next

(* For every set of tunnels and all times, the variables keep their types  *)
(* and the channel is closed exactly when the caller has given up.         *)
THEOREM TypeCorrect == Spec => []TypeOK
<1>1. Init => TypeOK
      BY InitTypeOK
<1>2. TypeOK /\ [Next]_vars => TypeOK'
      BY NextTypeOK
<1> QED BY <1>1, <1>2, PTL DEF Spec

(* Every step keeps what the caller knows. *)
LEMMA NextTunnelInv == TunnelInv /\ [Next]_vars => TunnelInv'
<1> SUFFICES ASSUME TunnelInv, [Next]_vars PROVE TunnelInv'
    OBVIOUS
<1>1. TypeOK /\ TypeOK'
      BY NextTypeOK DEF TunnelInv
<1>2. pingTime' = pingTime
      BY DEF Next, TimesOut, Tick, PingerStep, Answered, GivesUp, Receive, SendOnClosed, vars
<1>3. pingTime \in Nat /\ Timeout \in Nat
      BY <1>1, TimesAssumption DEF TypeOK
<1> SUFFICES ASSUME pingTime < Timeout PROVE NobodyIsLate' /\ AllTunnelsDown'
    BY <1>1, <1>2 DEF TunnelInv
<1>4. NobodyIsLate /\ AllTunnelsDown
      BY DEF TunnelInv
<1> USE DEF NobodyIsLate, AllTunnelsDown, TypeOK
<1>5. ASSUME TimesOut PROVE NobodyIsLate' /\ AllTunnelsDown'
  <2>1. now > pingTime /\ check = "waiting"
        BY <1>1, <1>3, <1>5 DEF TimesOut
  <2>2. \A t \in Tunnels : pinger[t] = "down"
        BY <1>1, <1>4, <2>1
  <2> QED BY <1>2, <1>5, <2>2 DEF TimesOut
<1>6. ASSUME Tick PROVE NobodyIsLate' /\ AllTunnelsDown'
  <2>1. now' > pingTime => now > pingTime \/ now = pingTime
        BY <1>1, <1>3, <1>6 DEF Tick
  <2> QED BY <1>1, <1>2, <1>3, <1>4, <1>6, <2>1 DEF Tick
<1>7. ASSUME NEW t \in Tunnels, PingerStep(t) PROVE NobodyIsLate' /\ AllTunnelsDown'
  <2> USE <1>1, <1>2, <1>3, <1>4
  <2>1. CASE Answered(t)
        BY <2>1 DEF Answered
  <2>2. CASE GivesUp(t)
        BY <2>2 DEF GivesUp
  <2>3. CASE Receive(t)
        BY <2>3 DEF Receive
  <2>4. CASE SendOnClosed(t)
        BY <2>4 DEF SendOnClosed
  <2> QED BY <1>7, <2>1, <2>2, <2>3, <2>4 DEF PingerStep
<1>8. CASE UNCHANGED vars
      BY <1>1, <1>2, <1>4, <1>8 DEF vars
<1> QED BY <1>5, <1>6, <1>7, <1>8 DEF Next

(* For every set of tunnels and all times: if a goroutine is done pinging  *)
(* before the caller times out, "all tunnels down" is only reported when   *)
(* every goroutine has given up (deviceinit/service.go:303-341).           *)
THEOREM TunnelsAreDown == Spec => []DownIsDown
<1>1. Init => TunnelInv
  <2> SUFFICES ASSUME Init PROVE TunnelInv
      OBVIOUS
  <2>1. TypeOK
        BY InitTypeOK
  <2>2. AllTunnelsDown /\ (pingTime < Timeout => NobodyIsLate)
        BY <2>1, TimesAssumption DEF Init, TypeOK, NobodyIsLate, AllTunnelsDown
  <2> QED BY <2>1, <2>2 DEF TunnelInv
<1>2. TunnelInv /\ [Next]_vars => TunnelInv'
      BY NextTunnelInv
<1>3. TunnelInv => DownIsDown
      BY DEF TunnelInv, DownIsDown
<1> QED BY <1>1, <1>2, <1>3, PTL DEF Spec

-----------------------------------------------------------------------------
(* With the renewals and the monitoring around it.                         *)

(* The steps of PortsNext: those outside the check, and those of it.       *)
LEMMA PortsCases ==
  [PortsNext]_allVars =>
    \/ CallerStep \/ TunnelFailed
    \/ (\E r \in Renewals : RenewalStep(r)) \/ \E t \in Tunnels : FlushPort(t)
    \/ [Next]_vars /\ UNCHANGED portVars
BY DEF PortsNext, CheckStep, Next, PingerStep, allVars

(* Every step of the composition is one of the check or leaves it alone.   *)
THEOREM ChecksAlone == PortsSpec => Spec
<1>1. PortsInit => Init
      BY DEF PortsInit
<1>2. [PortsNext]_allVars => [Next]_vars
  <2> SUFFICES ASSUME [PortsNext]_allVars PROVE [Next]_vars
      OBVIOUS
  <2>1. CASE CallerStep
        BY <2>1 DEF CallerStep, PauseToUpdate, WriteFails, StartCheck, EndUpdate
  <2>2. CASE TunnelFailed
        BY <2>2 DEF TunnelFailed
  <2>3. ASSUME NEW r \in Renewals, RenewalStep(r) PROVE [Next]_vars
        BY <2>3 DEF RenewalStep, RenewDHCPLease, Release, Renew
  <2>4. ASSUME NEW t \in Tunnels, FlushPort(t) PROVE [Next]_vars
        BY <2>4 DEF FlushPort
  <2> QED BY <2>1, <2>2, <2>3, <2>4, PortsCases
<1> QED BY <1>1, <1>2, PTL DEF PortsSpec, Spec

(* Types, and who may have taken a tunnel down.                            *)
PortsTypeOK ==
  /\ caller \in {"before", "writing", "checking", "done"}
  /\ renewal \in [Renewals -> {"requested", "releasing", "released", "done"}]
  /\ lease \subseteq Tunnels /\ expired \subseteq Tunnels /\ port \in [Renewals -> Tunnels]

LeasesReturn ==
  \A t \in Tunnels \ lease :
    t \in expired \/ \E r \in Renewals : renewal[r] = "released" /\ port[r] = t

PausedWhileAlone == ~Nobody => pony = "paused" \/ overlapped

PortsInv ==
  PortsTypeOK /\ LeasesReturn /\ PausedWhileAlone /\ MonitoringResumes /\ AlarmsAreReal

LEMMA RenewalInv == ASSUME PortsInv, NEW r \in Renewals, RenewalStep(r) PROVE PortsInv'
<1> USE DEF PortsInv, PortsTypeOK
<1>u. Updates' = Updates
      BY DEF RenewalStep, RenewDHCPLease, Release, Renew, vars, Updates
<1>1. CASE RenewDHCPLease(r)
  <2> USE <1>1 DEF RenewDHCPLease, Pause
  <2>1. r \in Renewing'
        BY DEF Renewing
  <2>2. PausedWhileAlone' /\ MonitoringResumes'
        BY <2>1 DEF PausedWhileAlone, MonitoringResumes, Nobody
  <2>3. PortsTypeOK' /\ LeasesReturn'
        BY DEF LeasesReturn
  <2> QED BY <2>2, <2>3 DEF AlarmsAreReal
<1>2. CASE Release(r)
  <2> USE <1>2 DEF Release, Resume
  <2>1. PortsTypeOK' /\ LeasesReturn'
        BY DEF LeasesReturn
  <2>2. CallerPauses' = CallerPauses
        BY <1>u DEF CallerPauses
  <2>3. CASE renewal'[r] = "released"
    <3>1. Renewing' = Renewing /\ r \in Renewing
          BY <2>3 DEF Renewing
    <3>2. UNCHANGED <<pony, overlapped, expired>>
          BY <2>3
    <3> QED BY <2>1, <2>2, <3>1, <3>2
            DEF PausedWhileAlone, MonitoringResumes, AlarmsAreReal, Nobody
  <2>4. CASE renewal'[r] = "done"
    <3>1. Renewing' = Renewing \ {r}
          BY <2>4 DEF Renewing
    <3>2. pony' = "running" /\ overlapped' = (overlapped \/ ~AloneIn(r))
          BY <2>4
    <3>3. expired \subseteq expired'
          BY <2>4
    <3> QED BY <2>1, <2>2, <3>1, <3>2, <3>3
            DEF PausedWhileAlone, MonitoringResumes, AlarmsAreReal, Nobody, AloneIn
  <2> QED BY <2>3, <2>4
<1>3. CASE Renew(r)
  <2> USE <1>3 DEF Renew, Resume
  <2>1. PortsTypeOK' /\ LeasesReturn'
        BY DEF LeasesReturn
  <2>2. CallerPauses' = CallerPauses
        BY <1>u DEF CallerPauses
  <2>3. Renewing' = Renewing \ {r}
        BY DEF Renewing
  <2>4. expired \subseteq expired'
        OBVIOUS
  <2> QED BY <2>1, <2>2, <2>3, <2>4
          DEF PausedWhileAlone, MonitoringResumes, AlarmsAreReal, Nobody, AloneIn
<1> QED BY <1>1, <1>2, <1>3 DEF RenewalStep

LEMMA CallerInv == ASSUME PortsInv, CallerStep PROVE PortsInv'
<1> USE DEF PortsInv, PortsTypeOK
<1>1. UNCHANGED <<renewal, port, lease, alarmed, expired>> /\ Updates' = Updates
      BY DEF CallerStep, PauseToUpdate, WriteFails, StartCheck, EndUpdate, vars, Updates
<1>2. Renewing' = Renewing
      BY <1>1 DEF Renewing
<1>3. PortsTypeOK' /\ LeasesReturn'
      BY <1>1 DEF CallerStep, PauseToUpdate, WriteFails, StartCheck, EndUpdate, LeasesReturn
<1>4. overlapped => overlapped'
      BY DEF CallerStep, PauseToUpdate, WriteFails, StartCheck, EndUpdate, Pause, Resume
<1>5. AlarmsAreReal'
      BY <1>1, <1>4 DEF AlarmsAreReal
<1>6. ASSUME pony' = "paused", CallerPauses' PROVE PortsInv'
      BY <1>3, <1>5, <1>6 DEF PausedWhileAlone, MonitoringResumes, Nobody
<1>7. ASSUME Resume(Renewing = {}), ~CallerPauses' PROVE PortsInv'
  <2>1. pony' = "running"
        BY <1>7 DEF Resume
  <2>2. Renewing # {} => overlapped'
        BY <1>7 DEF Resume
  <2> QED BY <1>2, <1>3, <1>5, <1>7, <2>1, <2>2 DEF PausedWhileAlone, MonitoringResumes, Nobody
<1>8. ASSUME UNCHANGED <<pony, overlapped>>, CallerPauses' <=> CallerPauses PROVE PortsInv'
      BY <1>2, <1>3, <1>5, <1>8 DEF PausedWhileAlone, MonitoringResumes, Nobody
<1>9. CASE PauseToUpdate
      BY <1>6, <1>9 DEF PauseToUpdate, Pause, CallerPauses
<1>10. CASE WriteFails
      BY <1>7, <1>10 DEF WriteFails, CallerPauses
<1>11. CASE StartCheck
  <2>1. CASE Updates
        BY <1>1, <1>7, <1>11, <2>1 DEF StartCheck, CallerPauses
  <2>2. CASE ~Updates
        BY <1>1, <1>8, <1>11, <2>2 DEF StartCheck, CallerPauses
  <2> QED BY <2>1, <2>2
<1>12. CASE EndUpdate
  <2>1. CASE Updates
        BY <1>1, <1>8, <1>12, <2>1 DEF EndUpdate, CallerPauses
  <2>2. CASE ~Updates
        BY <1>1, <1>7, <1>12, <2>2 DEF EndUpdate, CallerPauses
  <2> QED BY <2>1, <2>2
<1> QED BY <1>9, <1>10, <1>11, <1>12 DEF CallerStep

LEMMA AlarmInv == ASSUME PortsInv, TunnelFailed PROVE PortsInv'
<1> USE DEF PortsInv, PortsTypeOK, TunnelFailed
<1>1. Nobody' = Nobody
      BY DEF Nobody, Renewing, CallerPauses, Updates, vars
<1>2. expired # {} \/ overlapped
  <2> SUFFICES ASSUME ~overlapped PROVE expired # {}
      OBVIOUS
  <2>1. Renewing = {}
        BY DEF PausedWhileAlone, Nobody
  <2>2. PICK t \in Tunnels : t \notin lease
        OBVIOUS
  <2> QED BY <2>1, <2>2 DEF LeasesReturn, Renewing
<1> QED BY <1>1, <1>2 DEF LeasesReturn, PausedWhileAlone, MonitoringResumes, AlarmsAreReal

LEMMA FlushInv == ASSUME PortsInv, NEW t \in Tunnels, FlushPort(t) PROVE PortsInv'
<1> USE DEF PortsInv, PortsTypeOK, FlushPort
<1>1. Nobody' = Nobody
      BY DEF Nobody, Renewing, CallerPauses, Updates, vars
<1>2. LeasesReturn'
      BY DEF LeasesReturn
<1>3. expired' # {}
      OBVIOUS
<1> QED BY <1>1, <1>2, <1>3 DEF PausedWhileAlone, MonitoringResumes, AlarmsAreReal

LEMMA QuietInv == ASSUME PortsInv, [Next]_vars, UNCHANGED portVars PROVE PortsInv'
<1>1. Updates' = Updates
      BY DEF Next, TimesOut, Tick, PingerStep, Answered, GivesUp, Receive, SendOnClosed, vars,
             Updates
<1> QED BY <1>1 DEF portVars, PortsInv, PortsTypeOK, LeasesReturn, PausedWhileAlone,
                    MonitoringResumes, AlarmsAreReal, Nobody, Renewing, CallerPauses

LEMMA PortsInvariant == PortsSpec => []PortsInv
<1>1. PortsInit => PortsInv
      BY DEF PortsInit, PortsInv, PortsTypeOK, LeasesReturn, PausedWhileAlone,
             MonitoringResumes, AlarmsAreReal, Nobody, Renewing, CallerPauses
<1>2. PortsInv /\ [PortsNext]_allVars => PortsInv'
      BY PortsCases, RenewalInv, CallerInv, AlarmInv, FlushInv, QuietInv
<1> QED BY <1>1, <1>2, PTL DEF PortsSpec

(* For any number of renewals next to an update, failing or not: when      *)
(* nobody is between its Pause and its Resume, the monitoring runs.        *)
THEOREM Resumes == PortsSpec => []MonitoringResumes
<1>1. PortsInv => MonitoringResumes
      BY DEF PortsInv
<1> QED BY <1>1, PortsInvariant, PTL

(* For any number of renewals and tunnels: the monitoring has only found a *)
(* tunnel down if a renewal has failed or two of its users have overlapped.*)
THEOREM RealAlarms == PortsSpec => []AlarmsAreReal
<1>1. PortsInv => AlarmsAreReal
      BY DEF PortsInv
<1> QED BY <1>1, PortsInvariant, PTL

(* The check is right to report all tunnels down while leases are renewed, *)
(* too, when its goroutines are done before the caller times out.          *)
THEOREM TunnelsAreDownMeanwhile == PortsSpec => []DownIsDown
BY ChecksAlone, TunnelsAreDown, PTL
=============================================================================
