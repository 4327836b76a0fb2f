--------------------------- MODULE ConfigHandlers ---------------------------
(***************************************************************************)
(* The handlers through which the orchestrator changes the configuration   *)
(* of an active device, each request in a goroutine of its own, and the    *)
(* transactions of StateService.Run they ask for.                          *)
(*                                                                         *)
(*  UpdateWgPeer     reads all peers, changes one, has all of them written *)
(*  UpdateAllConfigs answers first, announces the outcome afterwards       *)
(*  UpdateConfig     of service and l3 has one section written             *)
(*  UpdateConfig     of trunk and isb writes its section itself            *)
(*  RebuildServices  removes the services and installs them again          *)
(*                                                                         *)
(* A section is named by the request that has written it.                  *)
(***************************************************************************)
EXTENDS Naturals

CONSTANTS
  Peers,         \* wireguard peers
  PeerOf,        \* the peer of each UpdateWgPeer request
  AllRequests,   \* UpdateAllConfigs requests
  ServiceRequests, \* updates of a service section through Run
  TrunkRequests, \* updates of the same section without Run
  Rebuilds,      \* RebuildServices requests
  MaxFailures    \* bound: failing calls and crashes

PeerRequests == DOMAIN PeerOf
Performed == PeerRequests \cup AllRequests \cup ServiceRequests \cup Rebuilds
Requests == Performed \cup TrunkRequests
None == "none"
Original == "original"
Removed == "removed"

ASSUME PeersAssumption == \A r \in PeerRequests : PeerOf[r] \in Peers
ASSUME NamesAssumption == {None, Original, Removed} \cap Requests = {}
ASSUME KindsAssumption ==
  /\ PeerRequests \cap AllRequests = {} /\ TrunkRequests \cap Performed = {}
  /\ Rebuilds \cap (PeerRequests \cup AllRequests \cup ServiceRequests) = {}
ASSUME FailuresAssumption == MaxFailures \in Nat

SendUpdateFinishedAttempts == 2   \* five in the code

Versions == Requests \cup {Original, Removed}
PeerTables == [Peers -> Versions]
Configs == [wireguard : PeerTables, services : Versions]
Places == {"start", "performing", "waiting", "answering", "refusing", "announcing",
           "announced", "reconnected", "done", "lost"}

VARIABLES
  wireguard,  \* which request has written each peer
  services,   \* which request has written the services
  run,        \* Run: "idle", "applied"; in a rebuild "read", "removed"
  current,    \* the request Run works for
  undo,       \* the sections before its transaction
  pc,         \* place of each request
  copy,       \* the peers an UpdateWgPeer or the services a rebuild has read
  reply,      \* what the orchestrator was answered: "none", "ok", "error"
  attempts,   \* of an UpdateAllConfigs to announce its outcome
  latest,     \* history: the peers, had nobody read them too early
  committed,  \* history: the requests that have been carried out
  failures

config == <<wireguard, services>>
tx == <<run, current, undo>>
history == <<latest, committed>>
vars == <<config, tx, pc, copy, reply, attempts, history, failures>>

Config == [wireguard |-> wireguard, services |-> services]
Factory == [wireguard |-> [p \in Peers |-> Original], services |-> Original]

Init ==
  /\ wireguard = Factory.wireguard /\ services = Factory.services
  /\ run = "idle" /\ current = None /\ undo = Factory
  /\ pc = [r \in Requests |-> "start"] /\ reply = [r \in Requests |-> "none"]
  /\ copy = [r \in Requests |-> Factory] /\ attempts = [r \in Requests |-> 0]
  /\ latest = Factory.wireguard /\ committed = {} /\ failures = 0

Fail == failures < MaxFailures /\ failures' = failures + 1
Goto(r, place) == pc' = [pc EXCEPT ![r] = place]

-----------------------------------------------------------------------------
(* The handlers up to Perform.                                             *)

(* GetConfig returns what is in the database, committed or not.            *)
UpdateWgPeer(r) ==
  /\ r \in PeerRequests /\ pc[r] = "start"
  /\ copy' = [copy EXCEPT ![r].wireguard = [wireguard EXCEPT ![PeerOf[r]] = r]]
  /\ Goto(r, "performing")
  /\ UNCHANGED <<config, tx, reply, attempts, history, failures>>

UpdateAllConfigs(r) ==
  /\ r \in AllRequests /\ pc[r] = "start"
  /\ reply' = [reply EXCEPT ![r] = "ok"]
  /\ Goto(r, "performing")
  /\ UNCHANGED <<config, tx, copy, attempts, history, failures>>

UpdateConfig(r) ==
  /\ r \in ServiceRequests \cup Rebuilds /\ pc[r] = "start"
  /\ Goto(r, "performing")
  /\ UNCHANGED <<config, tx, copy, reply, attempts, history, failures>>

(* Trunk and ISB: no transaction, no regard to the one of Run.             *)
UpdateTrunk(r) ==
  /\ r \in TrunkRequests /\ pc[r] = "start"
  /\ services' = r /\ committed' = committed \cup {r}
  /\ Goto(r, "answering")
  /\ UNCHANGED <<wireguard, tx, copy, reply, attempts, latest, failures>>

(* A request that cannot be read, a peer that is not found, a configuration*)
(* that cannot be read or written; RebuildServices reads nothing.          *)
RequestFails(r) ==
  /\ r \notin Rebuilds /\ pc[r] = "start" /\ Fail
  /\ Goto(r, "refusing")
  /\ UNCHANGED <<config, tx, copy, reply, attempts, history>>

-----------------------------------------------------------------------------
(* Run: one transition at a time, in a transaction.                        *)

Begin(r) ==
  /\ run = "idle" /\ pc[r] = "performing" /\ r \in Performed
  /\ current' = r /\ undo' = Config
  /\ Goto(r, "waiting")
  /\ UNCHANGED <<reply, attempts, history, failures>>

HandleUpdateConfig(r) ==
  /\ r \notin Rebuilds /\ Begin(r)
  /\ run' = "applied"
  /\ wireguard' = CASE r \in PeerRequests -> copy[r].wireguard
                    [] r \in AllRequests -> [p \in Peers |-> r]
                    [] OTHER -> wireguard
  /\ services' = IF r \in ServiceRequests THEN r ELSE services
  /\ UNCHANGED copy

(* A rebuild reads the services before it removes them.                    *)
ReadServices(r) ==
  /\ r \in Rebuilds /\ Begin(r)
  /\ run' = "read"
  /\ copy' = [copy EXCEPT ![r].services = services]
  /\ UNCHANGED config

RemoveServices(r) ==
  /\ run = "read" /\ current = r
  /\ services' = Removed /\ run' = "removed"
  /\ undo' = [undo EXCEPT !.services = services]
  /\ UNCHANGED <<wireguard, current, pc, copy, reply, attempts, history, failures>>

InstallServices(r) ==
  /\ run = "removed" /\ current = r
  /\ services' = copy[r].services /\ run' = "applied"
  /\ UNCHANGED <<wireguard, current, undo, pc, copy, reply, attempts, history, failures>>

(* What each request means for the peers.                                  *)
Meant(r) ==
  CASE r \in PeerRequests -> [latest EXCEPT ![PeerOf[r]] = r]
    [] r \in AllRequests -> [p \in Peers |-> r]
    [] OTHER -> latest

Commit(r) ==
  /\ run = "applied" /\ current = r
  /\ run' = "idle" /\ current' = None /\ latest' = Meant(r)
  /\ committed' = committed \cup {r}
  /\ Goto(r, IF r \in AllRequests THEN "announcing" ELSE "answering")
  /\ undo' = Factory /\ copy' = [copy EXCEPT ![r] = Factory]
  /\ UNCHANGED <<config, reply, attempts, failures>>

(* Mutant: a rebuild that failed leaves the services removed. *)
RestoresOnlyPeers(r) ==
  /\ wireguard' = IF r \in PeerRequests \cup AllRequests THEN undo.wireguard ELSE wireguard
  /\ services' = services

(* The sections the transaction has written come back.                     *)
Restore(r) ==
  /\ wireguard' = IF r \in PeerRequests \cup AllRequests THEN undo.wireguard ELSE wireguard
  /\ services' = IF r \in ServiceRequests \cup Rebuilds /\ run # "read"
                 THEN undo.services ELSE services

(* Mutant: the caller of Perform takes it for a success. *)
RollsBackAsDone(r) ==
  /\ run # "idle" /\ current = r /\ Fail
  /\ Restore(r) /\ run' = "idle" /\ current' = None
  /\ Goto(r, IF r \in AllRequests THEN "announcing" ELSE "answering")
  /\ undo' = Factory /\ copy' = [copy EXCEPT ![r] = Factory]
  /\ UNCHANGED <<reply, attempts, history>>

(* Mutant: the caller of Perform does not hear of it. *)
RollsBackSilently(r) ==
  /\ run # "idle" /\ current = r /\ Fail
  /\ Restore(r) /\ run' = "idle" /\ current' = None
  /\ undo' = Factory /\ copy' = [copy EXCEPT ![r] = Factory]
  /\ UNCHANGED <<pc, reply, attempts, history>>

Rollback(r) ==
  /\ run # "idle" /\ current = r /\ Fail
  /\ Restore(r) /\ run' = "idle" /\ current' = None
  /\ Goto(r, IF r \in AllRequests THEN "announcing" ELSE "refusing")
  /\ undo' = Factory /\ copy' = [copy EXCEPT ![r] = Factory]
  /\ UNCHANGED <<reply, attempts, history>>

-----------------------------------------------------------------------------
(* Answers.                                                                *)

Respond(r) ==
  /\ pc[r] = "answering"
  /\ reply' = [reply EXCEPT ![r] = "ok"]
  /\ Goto(r, "done")
  /\ UNCHANGED <<config, tx, copy, attempts, history, failures>>

(* An error of Perform, or of the response itself, is answered instead.    *)
RespondError(r) ==
  /\ \/ pc[r] = "refusing" /\ UNCHANGED failures
     \/ pc[r] = "answering" /\ Fail
  /\ reply' = [reply EXCEPT ![r] = "error"]
  /\ Goto(r, "done")
  /\ UNCHANGED <<config, tx, copy, attempts, history>>

(* Mutant: an outcome that could not be announced is dropped. *)
GivesUpAnnouncing(r) ==
  /\ pc[r] = "announcing" /\ attempts[r] < SendUpdateFinishedAttempts
  /\ attempts' = [attempts EXCEPT ![r] = @ + 1]
  /\ pc' \in {pc, [pc EXCEPT ![r] = "announced"]}
  /\ UNCHANGED <<config, tx, copy, reply, history, failures>>

(* sendUpdateConfigFinished; after the last attempt the publisher is made  *)
(* to reconnect.                                                           *)
SendUpdateConfigFinished(r) ==
  /\ pc[r] = "announcing"
  /\ attempts' = [attempts EXCEPT ![r] = @ + 1]
  /\ \/ Goto(r, "announced")
     \/ attempts'[r] < SendUpdateFinishedAttempts /\ UNCHANGED pc
     \/ attempts'[r] = SendUpdateFinishedAttempts /\ Goto(r, "reconnected")
  /\ UNCHANGED <<config, tx, copy, reply, history, failures>>

(* The goroutines are gone; the open transaction is rolled back at start.  *)
Crash ==
  /\ Fail
  /\ IF run = "idle" THEN UNCHANGED config ELSE Restore(current)
  /\ run' = "idle" /\ current' = None
  /\ pc' = [r \in Requests |-> IF pc[r] = "start" THEN "start" ELSE "lost"]
  /\ undo' = Factory /\ copy' = [r \in Requests |-> Factory]
  /\ UNCHANGED <<reply, attempts, history>>

-----------------------------------------------------------------------------
RunStep(r) ==
  \/ HandleUpdateConfig(r) \/ ReadServices(r) \/ RemoveServices(r) \/ InstallServices(r)
  \/ Commit(r)

HandlerStep(r) == Respond(r) \/ RespondError(r) \/ SendUpdateConfigFinished(r)

Next ==
  \/ \E r \in Requests :
       \/ UpdateWgPeer(r) \/ UpdateAllConfigs(r) \/ UpdateConfig(r)
       \/ UpdateTrunk(r) \/ RequestFails(r)
       \/ RunStep(r) \/ Rollback(r) \/ HandlerStep(r)
  \/ Crash

Spec == Init /\ [][Next]_vars

(* Run takes whoever waits in Perform, the handlers go on after it.        *)
FairSpec ==
  Spec /\ WF_vars(\E r \in Requests : RunStep(r))
  /\ \A r \in Requests : WF_vars(HandlerStep(r))

-----------------------------------------------------------------------------
(* Properties.                                                             *)

(* Types; Run works for exactly the request that waits for it.             *)
TypeOK ==
  /\ wireguard \in PeerTables /\ services \in Versions
  /\ run \in {"idle", "applied", "read", "removed"} /\ current \in Performed \cup {None}
  /\ run = "idle" <=> current = None
  /\ pc \in [Requests -> Places]
  /\ \A r \in Requests : pc[r] = "waiting" <=> current = r
  /\ undo \in Configs /\ copy \in [Requests -> Configs] /\ latest \in PeerTables
  /\ reply \in [Requests -> {"none", "ok", "error"}]
  /\ attempts \in [Requests -> 0..SendUpdateFinishedAttempts]
  /\ committed \subseteq Requests /\ failures \in 0..MaxFailures

(* Between two transitions the services are those of a request that has    *)
(* been carried out: nothing is left of one that failed half way, such as  *)
(* the empty sections in the middle of a rebuild, whoever wrote meanwhile  *)
(* (update_config.go:156-191, appstate/service.go:145).                    *)
RestsWithServices == run = "idle" => services \in committed \cup {Original}

(* The orchestrator is only told that an update succeeded when Run has     *)
(* committed it, whatever was rolled back or lost in between (config/      *)
(* handler.go:96-110); UpdateAllConfigs answers before it asks for it.     *)
OkMeansUpdated == \A r \in Requests \ AllRequests : reply[r] = "ok" => r \in committed

(* Every outcome of UpdateAllConfigs is announced or the publisher is made *)
(* to reconnect, unless the process dies (handler.go:186-201).             *)
OutcomeIsAnnounced ==
  \A r \in AllRequests :
    reply[r] = "ok" ~> pc[r] \in {"announced", "reconnected", "lost"}

(* An update of one peer changes that peer: what others have committed or  *)
(* failed to commit for another peer is as if they were alone.             *)
UpdatesOnlyItsPeer == run = "idle" => wireguard = latest
=============================================================================
