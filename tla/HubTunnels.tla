----------------------------- MODULE HubTunnels -----------------------------
(***************************************************************************)
(* checkHubTunnels: one goroutine pings each tunnel to the hubs, the first *)
(* that gets an answer says so on an unbuffered channel; after a timeout   *)
(* the caller closes the channel and reports that all tunnels are down.    *)
(* InitDevice and updateConfig have a copy each, which differ in how long  *)
(* a goroutine may ping: 30 times one second and 30 times five, against 40 *)
(* seconds of the caller.  Without a cluster of hubs there is no check.    *)
(*                                                                         *)
(* Time is counted in units of ten seconds; what takes a moment happens    *)
(* between two ticks.                                                      *)
(***************************************************************************)
EXTENDS Naturals, FiniteSets

CONSTANTS
  Tunnels,   \* uplinks of the first cluster; it may have none
  PingTimes, \* of each copy: attempts times threshold of a goroutine
  Timeout    \* how long the caller waits

ASSUME TunnelsAssumption == IsFiniteSet(Tunnels)
ASSUME TimesAssumption == PingTimes \subseteq Nat \ {0} /\ Timeout \in Nat \ {0}

VARIABLES
  pingTime, \* which copy runs: its ping time
  now,      \* time since the check began
  pinger,   \* each goroutine: "ping", "send", "up", "down"
  channel,  \* anyActiveTunnelChan: "open" or "closed"
  check,    \* the caller: "waiting", "up", "down"
  panicked  \* somebody has sent on the closed channel

vars == <<pingTime, now, pinger, channel, check, panicked>>

Init ==
  /\ pingTime \in PingTimes /\ now = 0 /\ pinger = [t \in Tunnels |-> "ping"]
  /\ channel = "open" /\ check = "waiting"
  /\ panicked = FALSE

(* The tunnel answers one of the pings.                                    *)
Answered(t) ==
  /\ pinger[t] = "ping"
  /\ pinger' = [pinger EXCEPT ![t] = "send"]
  /\ UNCHANGED <<pingTime, now, channel, check, panicked>>

(* An error of the ping, or no answer to any attempt.                      *)
GivesUp(t) ==
  /\ pinger[t] = "ping"
  /\ pinger' = [pinger EXCEPT ![t] = "down"]
  /\ UNCHANGED <<pingTime, now, channel, check, panicked>>

(* The rendezvous with the caller, which takes one value only.             *)
Receive(t) ==
  /\ pinger[t] = "send" /\ check = "waiting"
  /\ pinger' = [pinger EXCEPT ![t] = "up"] /\ check' = "up"
  /\ UNCHANGED <<pingTime, now, channel, panicked>>

SendOnClosed(t) ==
  /\ pinger[t] = "send" /\ channel = "closed"
  /\ pinger' = [pinger EXCEPT ![t] = "up"] /\ panicked' = TRUE
  /\ UNCHANGED <<pingTime, now, channel, check>>

(* Mutants: the first tunnel that is down ends the check; it does not time *)
(* out; it leaves the channel open.                                        *)
EndsEarly ==
  /\ check = "waiting" /\ \E t \in Tunnels : pinger[t] = "down"
  /\ check' = "down" /\ channel' = "closed"
  /\ UNCHANGED <<pingTime, now, pinger, panicked>>
NeverTimesOut == FALSE /\ UNCHANGED vars
LeavesOpen ==
  /\ check = "waiting" /\ now = Timeout
  /\ check' = "down"
  /\ UNCHANGED <<pingTime, now, pinger, channel, panicked>>

TimesOut ==
  /\ check = "waiting" /\ now = Timeout
  /\ check' = "down" /\ channel' = "closed"
  /\ UNCHANGED <<pingTime, now, pinger, panicked>>

(* Nobody is late: attempts are over after pingTime, the caller's timer    *)
(* fires after Timeout, and a value somebody waits for is handed over.     *)
Tick ==
  /\ now < (IF pingTime > Timeout THEN pingTime ELSE Timeout)
  /\ now = pingTime => \A t \in Tunnels : pinger[t] # "ping"
  /\ check = "waiting" => now < Timeout /\ \A t \in Tunnels : pinger[t] # "send"
  /\ now' = now + 1
  /\ UNCHANGED <<pingTime, pinger, channel, check, panicked>>

PingerStep(t) == Answered(t) \/ GivesUp(t) \/ Receive(t) \/ SendOnClosed(t)

(* A panic is the end of the process.                                      *)
Next ==
  /\ ~panicked
  /\ TimesOut \/ Tick \/ \E t \in Tunnels : PingerStep(t)

Spec == Init /\ [][Next]_vars

-----------------------------------------------------------------------------
(* Properties.                                                             *)

(* Types; the channel is closed exactly when the caller has given up.      *)
TypeOK ==
  /\ pingTime \in PingTimes /\ now \in Nat
  /\ pinger \in [Tunnels -> {"ping", "send", "up", "down"}]
  /\ channel \in {"open", "closed"} /\ check \in {"waiting", "up", "down"}
  /\ panicked \in BOOLEAN
  /\ channel = "closed" <=> check = "down"

(* The error is right: no goroutine can still get an answer.               *)
AllTunnelsDown == check = "down" => \A t \in Tunnels : pinger[t] = "down"

(* "all tunnels down" (update_config.go:258) is the truth: after it no     *)
(* goroutine gets its answer and brings the process down with a send on    *)
(* the channel its caller has closed.                                      *)
NobodySendsOnClosed == ~panicked

(* The error is right when a goroutine has less time than the caller, which*)
(* is so in InitDevice (deviceinit/service.go:330-339) and not in          *)
(* updateConfig.                                                           *)
DownIsDown == pingTime < Timeout => AllTunnelsDown
=============================================================================
