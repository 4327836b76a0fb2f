------------------------------- MODULE Ports --------------------------------
(***************************************************************************)
(* The tunnel monitoring (pony) of a CPE and everybody who pauses it: the  *)
(* renewals of DHCP leases, which take down the tunnel over their port,    *)
(* and the update that checks the hub tunnels meanwhile.  InitDevice       *)
(* checks with the monitoring paused; updateConfig resumes it first.       *)
(***************************************************************************)
EXTENDS HubTunnels

CONSTANTS
  UpdatePingTime, \* the ping time of updateConfig's copy of the check
  Renewals        \* requests to renew the lease of a port

ASSUME UpdateAssumption == UpdatePingTime \in PingTimes

VARIABLES
  pony,       \* the monitoring: "running" or "paused"
  caller,     \* InitDevice or updateConfig: "before", "writing", "checking", "done"
  renewal,    \* each RenewDHCPLease: "requested", "releasing", "released", "done"
  port,       \* the tunnel over its port
  lease,      \* the tunnels whose port has an address
  alarmed,    \* the monitoring has found a tunnel down
  overlapped, \* history: a section that pauses began or ended during another
  expired     \* history: tunnels whose renewal failed or whose port was flushed

portVars == <<pony, caller, renewal, port, lease, alarmed, overlapped, expired>>
allVars == <<vars, portVars>>

PortsInit ==
  /\ Init
  /\ pony = "running" /\ caller = "before"
  /\ renewal = [r \in Renewals |-> "requested"] /\ port \in [Renewals -> Tunnels]
  /\ lease = Tunnels /\ alarmed = FALSE /\ overlapped = FALSE /\ expired = {}

Updates == pingTime = UpdatePingTime

(* Who is between its Pause and its Resume.                                *)
Renewing == {r \in Renewals : renewal[r] \in {"releasing", "released"}}
CallerPauses == caller = "writing" \/ (caller = "checking" /\ ~Updates)
Nobody == Renewing = {} /\ ~CallerPauses

Pause == pony' = "paused" /\ overlapped' = (overlapped \/ ~Nobody)
Resume(alone) == pony' = "running" /\ overlapped' = (overlapped \/ ~alone)

-----------------------------------------------------------------------------
(* RenewDHCPLease.                                                         *)

RenewDHCPLease(r) ==
  /\ renewal[r] = "requested"
  /\ renewal' = [renewal EXCEPT ![r] = "releasing"]
  /\ Pause
  /\ UNCHANGED <<vars, caller, port, lease, alarmed, expired>>

AloneIn(r) == Renewing = {r} /\ ~CallerPauses

(* Mutant: the monitoring is resumed while the port still has no address.  *)
ResumesEarly(r) ==
  /\ renewal[r] = "releasing"
  /\ renewal' = [renewal EXCEPT ![r] = "released"] /\ lease' = lease \ {port[r]}
  /\ Resume(AloneIn(r))
  /\ UNCHANGED <<vars, caller, port, alarmed, expired>>

(* dhclient -r; an error ends the request, and the lease may be gone or not.*)
Release(r) ==
  /\ renewal[r] = "releasing"
  /\ \/ /\ renewal' = [renewal EXCEPT ![r] = "released"] /\ lease' = lease \ {port[r]}
        /\ UNCHANGED <<pony, overlapped, expired>>
     \/ /\ renewal' = [renewal EXCEPT ![r] = "done"] /\ Resume(AloneIn(r))
        /\ \/ UNCHANGED <<lease, expired>>
           \/ lease' = lease \ {port[r]} /\ expired' = expired \cup {port[r]}
  /\ UNCHANGED <<vars, caller, port, alarmed>>

(* Mutant: a renewal that fails returns without resuming.                  *)
ResumesOnSuccess(r) ==
  /\ renewal[r] = "released"
  /\ renewal' = [renewal EXCEPT ![r] = "done"]
  /\ \/ lease' = lease \cup {port[r]} /\ Resume(AloneIn(r)) /\ UNCHANGED expired
     \/ expired' = expired \cup {port[r]} /\ UNCHANGED <<lease, pony, overlapped>>
  /\ UNCHANGED <<vars, caller, port, alarmed>>

(* dhclient asks for a new lease; with one or without, it is over.         *)
Renew(r) ==
  /\ renewal[r] = "released"
  /\ renewal' = [renewal EXCEPT ![r] = "done"]
  /\ \/ lease' = lease \cup {port[r]} /\ UNCHANGED expired
     \/ expired' = expired \cup {port[r]} /\ UNCHANGED lease
  /\ Resume(AloneIn(r))
  /\ UNCHANGED <<vars, caller, port, alarmed>>

(* ip addr flush: a request of its own, and nobody pauses for it.          *)
FlushPort(t) ==
  /\ t \in lease
  /\ lease' = lease \ {t} /\ expired' = expired \cup {t}
  /\ UNCHANGED <<vars, pony, caller, renewal, port, alarmed, overlapped>>

-----------------------------------------------------------------------------
(* InitDevice and updateConfig.                                            *)

PauseToUpdate ==
  /\ caller = "before" /\ caller' = "writing"
  /\ Pause
  /\ UNCHANGED <<vars, renewal, port, lease, alarmed, expired>>

WriteFails ==
  /\ caller = "writing" /\ caller' = "done"
  /\ Resume(Renewing = {})
  /\ UNCHANGED <<vars, renewal, port, lease, alarmed, expired>>

StartCheck ==
  /\ caller = "writing" /\ caller' = "checking"
  /\ IF Updates THEN Resume(Renewing = {}) ELSE UNCHANGED <<pony, overlapped>>
  /\ UNCHANGED <<vars, renewal, port, lease, alarmed, expired>>

(* Whatever the check says; InitDevice installs the services before.       *)
EndUpdate ==
  /\ caller = "checking" /\ check # "waiting" /\ caller' = "done"
  /\ IF Updates THEN UNCHANGED <<pony, overlapped>> ELSE Resume(Renewing = {})
  /\ UNCHANGED <<vars, renewal, port, lease, alarmed, expired>>

(* The check runs once it is started, its goroutines to their own ends,    *)
(* and a tunnel without an address answers no ping.                        *)
CheckStep(t) ==
  \/ (t \in lease /\ Answered(t))
  \/ GivesUp(t) \/ Receive(t) \/ SendOnClosed(t)
Checking == caller = "checking" \/ (caller = "done" /\ check # "waiting")

-----------------------------------------------------------------------------
(* The monitoring finds a tunnel down; the listener of ponyevent dumps the *)
(* statistics.                                                             *)
TunnelFailed ==
  /\ pony = "running" /\ lease # Tunnels /\ ~alarmed
  /\ alarmed' = TRUE
  /\ UNCHANGED <<vars, pony, caller, renewal, port, lease, overlapped, expired>>

RenewalStep(r) == RenewDHCPLease(r) \/ Release(r) \/ Renew(r)

CallerStep == PauseToUpdate \/ WriteFails \/ StartCheck \/ EndUpdate

PortsNext ==
  /\ ~panicked
  /\ \/ CallerStep \/ TunnelFailed
     \/ \E r \in Renewals : RenewalStep(r)
     \/ \E t \in Tunnels : FlushPort(t)
     \/ /\ Checking
        /\ TimesOut \/ Tick \/ \E t \in Tunnels : CheckStep(t)
        /\ UNCHANGED portVars

PortsSpec == PortsInit /\ [][PortsNext]_allVars

(* Goroutines are scheduled, timers fire, dhclient and the writes return;  *)
(* nobody has to ask for a renewal or an update.                           *)
Run(A) == ~panicked /\ Checking /\ A /\ UNCHANGED portVars
PortsFairSpec ==
  /\ PortsSpec
  /\ \A r \in Renewals : WF_allVars(~panicked /\ (Release(r) \/ Renew(r)))
  /\ WF_allVars(~panicked /\ (WriteFails \/ StartCheck \/ EndUpdate))
  /\ WF_allVars(Run(Tick)) /\ WF_allVars(Run(TimesOut))
  /\ \A t \in Tunnels : /\ WF_allVars(Run((t \in lease /\ Answered(t)) \/ GivesUp(t)))
                       /\ WF_allVars(Run(Receive(t)))

-----------------------------------------------------------------------------
(* Properties.                                                             *)

(* The monitoring is never left paused: when nobody works it runs, however *)
(* the sections of several goroutines overlap and whichever of their calls *)
(* fail (port/service.go:148, deviceinit/service.go:190,                   *)
(* update_config.go:104-154).                                              *)
MonitoringResumes == Nobody => pony = "running"

(* The monitoring does not raise a false alarm: a renewal takes its own    *)
(* tunnel down only while the monitoring is paused, unless the work of     *)
(* somebody else has resumed it meanwhile (port/service.go:148-172).       *)
AlarmsAreReal == alarmed => expired # {} \/ overlapped

(* The check ends, and a tunnel that answers within the timeout is not     *)
(* missed, whatever happens to its port meanwhile (deviceinit/service.go:  *)
(* 303-342, update_config.go:205-261).                                     *)
FindsLiveTunnel ==
  /\ (caller = "checking") ~> (check # "waiting" \/ panicked)
  /\ (caller = "checking" /\ check = "waiting" /\ now < Timeout
        /\ \E t \in Tunnels : pinger[t] = "send") ~> (check = "up")
=============================================================================
