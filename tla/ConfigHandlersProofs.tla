------------------------ MODULE ConfigHandlersProofs ------------------------
(***************************************************************************)
(* The configuration handlers for any number of requests of every kind,    *)
(* any peers and any number of failures and crashes.  Three invariants:    *)
(* the types, with the number of attempts to announce an outcome; where    *)
(* the services come from; and what has happened before an answer.         *)
(***************************************************************************)
EXTENDS ConfigHandlers, TLAPS

(* The last attempt ends the announcing.                                   *)
AttemptsAreLeft ==
  \A r \in Requests :
    /\ pc[r] \in {"start", "performing", "waiting"} => attempts[r] = 0
    /\ pc[r] = "announcing" => attempts[r] < SendUpdateFinishedAttempts

TypeInv == TypeOK /\ AttemptsAreLeft

LEMMA FactoryTyped == Factory \in Configs
  BY DEF Factory, Configs, PeerTables, Versions

LEMMA RequestFacts ==
  /\ PeerRequests \subseteq Requests /\ AllRequests \subseteq Requests
  /\ ServiceRequests \subseteq Requests /\ Rebuilds \subseteq Requests
  /\ TrunkRequests \subseteq Requests /\ Performed \subseteq Requests
  /\ Requests \subseteq Versions /\ None \notin Requests
  /\ Original \in Versions /\ Removed \in Versions
  BY NamesAssumption DEF Requests, Performed, Versions

LEMMA InitTypeInv == Init => TypeInv
  BY FactoryTyped, RequestFacts, FailuresAssumption
  DEF Init, TypeInv, TypeOK, AttemptsAreLeft, Configs, Places, Factory,
      SendUpdateFinishedAttempts

-----------------------------------------------------------------------------
(* What each action does to the types.  The handlers up to Perform, and    *)
(* the answers, leave Run alone; its own steps change one request.         *)

LEMMA HandlerTypes ==
  ASSUME TypeInv, NEW r \in Requests,
         \/ UpdateWgPeer(r) \/ UpdateAllConfigs(r) \/ UpdateConfig(r)
         \/ UpdateTrunk(r) \/ RequestFails(r) \/ HandlerStep(r)
  PROVE  TypeInv'
<1> USE RequestFacts, FailuresAssumption DEF TypeInv, TypeOK, AttemptsAreLeft, Places, Goto, Fail,
        config, tx, history, SendUpdateFinishedAttempts
<1>1. CASE UpdateWgPeer(r)
  <2>1. [wireguard EXCEPT ![PeerOf[r]] = r] \in PeerTables
        BY <1>1 DEF UpdateWgPeer, PeerTables
  <2>2. copy' \in [Requests -> Configs]
        BY <1>1, <2>1 DEF UpdateWgPeer, Configs
  <2> QED BY <1>1, <2>2 DEF UpdateWgPeer
<1>2. CASE UpdateAllConfigs(r)
      BY <1>2 DEF UpdateAllConfigs
<1>3. CASE UpdateConfig(r)
      BY <1>3 DEF UpdateConfig
<1>4. CASE UpdateTrunk(r)
      BY <1>4 DEF UpdateTrunk
<1>5. CASE RequestFails(r)
      BY <1>5 DEF RequestFails
<1>6. CASE Respond(r)
      BY <1>6 DEF Respond
<1>7. CASE RespondError(r)
      BY <1>7 DEF RespondError
<1>8. CASE SendUpdateConfigFinished(r)
      BY <1>8 DEF SendUpdateConfigFinished
<1> QED BY <1>1, <1>2, <1>3, <1>4, <1>5, <1>6, <1>7, <1>8 DEF HandlerStep

LEMMA BeginTypes ==
  ASSUME TypeInv, NEW r \in Requests, HandleUpdateConfig(r) \/ ReadServices(r)
  PROVE  TypeInv'
<1> USE RequestFacts DEF TypeInv, TypeOK, AttemptsAreLeft, Places, Goto, history, Begin
<1>1. Config \in Configs
      BY DEF Config, Configs
<1>2. CASE HandleUpdateConfig(r)
  <2>1. wireguard' \in PeerTables
        BY <1>2 DEF HandleUpdateConfig, PeerTables, Configs
  <2>2. services' \in Versions
        BY <1>2 DEF HandleUpdateConfig
  <2> QED BY <1>1, <1>2, <2>1, <2>2 DEF HandleUpdateConfig
<1>3. CASE ReadServices(r)
  <2>1. copy' \in [Requests -> Configs]
        BY <1>3 DEF ReadServices, Configs
  <2> QED BY <1>1, <1>3, <2>1 DEF ReadServices, config
<1> QED BY <1>2, <1>3

(* What a rollback restores is typed, whoever is rolled back.              *)
LEMMA RestoreTypes ==
  ASSUME TypeInv, NEW r, Restore(r)
  PROVE  wireguard' \in PeerTables /\ services' \in Versions
  BY DEF TypeInv, TypeOK, Restore, Configs

LEMMA RunTypes ==
  ASSUME TypeInv, NEW r \in Requests, RemoveServices(r) \/ InstallServices(r) \/ Commit(r) \/ Rollback(r)
  PROVE  TypeInv'
<1> USE RequestFacts, FactoryTyped, FailuresAssumption DEF TypeInv, TypeOK, AttemptsAreLeft, Places, Goto, Fail,
        config, history, SendUpdateFinishedAttempts
<1>1. CASE RemoveServices(r) \/ InstallServices(r)
      BY <1>1 DEF RemoveServices, InstallServices, Configs
<1>2. CASE Commit(r)
  <2>1. latest' \in PeerTables
        BY <1>2 DEF Commit, Meant, PeerTables
  <2> QED BY <1>2, <2>1 DEF Commit
<1>3. CASE Rollback(r)
  <2>1. wireguard' \in PeerTables /\ services' \in Versions
        BY <1>3, RestoreTypes DEF Rollback
  <2> QED BY <1>3, <2>1 DEF Rollback
<1> QED BY <1>1, <1>2, <1>3

LEMMA CrashTypes == ASSUME TypeInv, Crash PROVE TypeInv'
<1>1. wireguard' \in PeerTables /\ services' \in Versions
      BY RestoreTypes DEF TypeInv, TypeOK, Crash, config
<1> QED BY <1>1, RequestFacts, FactoryTyped, FailuresAssumption
        DEF TypeInv, TypeOK, AttemptsAreLeft, Places, Fail, Crash, history, SendUpdateFinishedAttempts

LEMMA NextTypeInv == TypeInv /\ [Next]_vars => TypeInv'
<1> SUFFICES ASSUME TypeInv, [Next]_vars PROVE TypeInv'
    OBVIOUS
<1>1. CASE UNCHANGED vars
      BY <1>1 DEF vars, config, tx, history, TypeInv, TypeOK, AttemptsAreLeft
<1>2. CASE Crash
      BY <1>2, CrashTypes
<1> QED BY <1>1, <1>2, HandlerTypes, BeginTypes, RunTypes DEF Next, RunStep

(* For all sets of peers and requests every variable keeps its type, and   *)
(* Run works for exactly the request that waits for it.                    *)
THEOREM TypeCorrect == Spec => []TypeOK
<1>1. Init => TypeInv
      BY InitTypeInv
<1>2. TypeInv /\ [Next]_vars => TypeInv'
      BY NextTypeInv
<1>3. TypeInv => TypeOK
      BY DEF TypeInv
<1> QED BY <1>1, <1>2, <1>3, PTL DEF Spec

-----------------------------------------------------------------------------
(* Where the services come from: from a request that has been carried out, *)
(* from the one Run works for, or they are removed in a rebuild.  What a   *)
(* rebuild or a rollback puts back was carried out.                        *)
Settled == committed \cup {Original}

ServicesInv ==
  /\ \/ services \in Settled
     \/ run = "removed"
     \/ run = "applied" /\ services = current /\ current \in ServiceRequests
  /\ run \in {"read", "removed"} => current \in Rebuilds /\ copy[current].services \in Settled
  /\ run # "idle" => undo.services \in Settled

LEMMA RunServices ==
  ASSUME TypeInv, ServicesInv, NEW r \in Requests, RunStep(r) \/ Rollback(r)
  PROVE  ServicesInv'
<1> USE RequestFacts, KindsAssumption DEF TypeInv, TypeOK, ServicesInv, Settled, Goto, history, config, Begin
<1>1. CASE HandleUpdateConfig(r)
      BY <1>1 DEF HandleUpdateConfig, Config
<1>2. CASE ReadServices(r)
  <2>1. copy'[r].services = services
        BY <1>2 DEF ReadServices, Configs
  <2> QED BY <1>2, <2>1 DEF ReadServices, Config
<1>6. CASE RemoveServices(r)
  <2>1. undo'.services = services
        BY <1>6 DEF RemoveServices, Configs
  <2> QED BY <1>6, <2>1 DEF RemoveServices
<1>3. CASE InstallServices(r)
      BY <1>3 DEF InstallServices
<1>4. CASE Commit(r)
      BY <1>4 DEF Commit
<1>5. CASE Rollback(r)
      BY <1>5 DEF Rollback, Restore
<1> QED BY <1>1, <1>2, <1>3, <1>4, <1>5, <1>6 DEF RunStep

LEMMA NextServices == TypeInv /\ ServicesInv /\ [Next]_vars => ServicesInv'
<1> SUFFICES ASSUME TypeInv, ServicesInv, [Next]_vars PROVE ServicesInv'
    OBVIOUS
<1> USE RequestFacts, KindsAssumption DEF TypeInv, TypeOK, ServicesInv, Settled, Goto, history, config, tx
<1>1. ASSUME NEW r \in Requests, UpdateWgPeer(r) PROVE ServicesInv'
  <2>1. r \notin Rebuilds
        BY <1>1 DEF UpdateWgPeer
  <2>2. \A q \in Requests \ {r} : copy'[q] = copy[q]
        BY <1>1 DEF UpdateWgPeer
  <2> QED BY <1>1, <2>1, <2>2 DEF UpdateWgPeer
<1>2. ASSUME NEW r \in Requests,
             UpdateAllConfigs(r) \/ UpdateConfig(r) \/ RequestFails(r) \/ HandlerStep(r)
      PROVE  ServicesInv'
      BY <1>2 DEF UpdateAllConfigs, UpdateConfig, RequestFails, HandlerStep, Respond, RespondError,
                  SendUpdateConfigFinished
<1>3. ASSUME NEW r \in Requests, UpdateTrunk(r) PROVE ServicesInv'
      BY <1>3 DEF UpdateTrunk
<1>4. CASE Crash
      BY <1>4 DEF Crash, Restore
<1>5. CASE UNCHANGED vars
      BY <1>5 DEF vars
<1> QED BY <1>1, <1>2, <1>3, <1>4, <1>5, RunServices DEF Next

(* For any number of requests, failures and crashes: between two           *)
(* transitions the services are those of a request that has been carried   *)
(* out, whatever failed half way (update_config.go:156-191).               *)
THEOREM ServicesAtRest == Spec => []RestsWithServices
<1>1. Init => TypeInv /\ ServicesInv
  <2>1. Init => ServicesInv
        BY DEF Init, ServicesInv, Settled, Factory
  <2> QED BY <2>1, InitTypeInv
<1>2. TypeInv /\ ServicesInv /\ [Next]_vars => (TypeInv /\ ServicesInv)'
      BY NextTypeInv, NextServices
<1>3. TypeInv /\ ServicesInv => RestsWithServices
      BY DEF ServicesInv, Settled, RestsWithServices
<1> QED BY <1>1, <1>2, <1>3, PTL DEF Spec

-----------------------------------------------------------------------------
(* Who is answered with success, or about to be, has been carried out.     *)
AnswersInv ==
  \A r \in Requests \ AllRequests :
    pc[r] = "answering" \/ reply[r] = "ok" => r \in committed

LEMMA NextAnswers == TypeInv /\ AnswersInv /\ [Next]_vars => AnswersInv'
<1> SUFFICES ASSUME TypeInv, AnswersInv, [Next]_vars PROVE AnswersInv'
    OBVIOUS
<1> USE RequestFacts, KindsAssumption DEF TypeInv, TypeOK, AnswersInv, Goto, history
<1>1. ASSUME NEW r \in Requests,
             UpdateWgPeer(r) \/ UpdateAllConfigs(r) \/ UpdateConfig(r) \/ UpdateTrunk(r) \/ RequestFails(r)
      PROVE  AnswersInv'
      BY <1>1 DEF UpdateWgPeer, UpdateAllConfigs, UpdateConfig, UpdateTrunk, RequestFails
<1>2. ASSUME NEW r \in Requests, RunStep(r) \/ Rollback(r) PROVE AnswersInv'
      BY <1>2 DEF RunStep, Begin, HandleUpdateConfig, ReadServices, RemoveServices, InstallServices, Commit, Rollback
<1>3. ASSUME NEW r \in Requests, HandlerStep(r) PROVE AnswersInv'
      BY <1>3 DEF HandlerStep, Respond, RespondError, SendUpdateConfigFinished
<1>4. CASE Crash
      BY <1>4 DEF Crash
<1>5. CASE UNCHANGED vars
      BY <1>5 DEF vars
<1> QED BY <1>1, <1>2, <1>3, <1>4, <1>5 DEF Next

(* For any number of requests, failures and crashes: the orchestrator is   *)
(* only told that an update succeeded when it is committed                 *)
(* (config/handler.go:96-110).                                             *)
THEOREM OkIsUpdated == Spec => []OkMeansUpdated
<1>1. Init => TypeInv /\ AnswersInv
  <2>1. Init => AnswersInv
        BY DEF Init, AnswersInv
  <2> QED BY <2>1, InitTypeInv
<1>2. TypeInv /\ AnswersInv /\ [Next]_vars => (TypeInv /\ AnswersInv)'
      BY NextTypeInv, NextAnswers
<1>3. AnswersInv => OkMeansUpdated
      BY DEF AnswersInv, OkMeansUpdated
<1> QED BY <1>1, <1>2, <1>3, PTL DEF Spec
=============================================================================
