------------------------ MODULE AppStateRestProofs -------------------------
(***************************************************************************)
(* How the state machine comes to rest: between transitions the state in   *)
(* memory is the one in the database, the subjects and the publisher are   *)
(* those of the state, the state is a stable one, and the daemons that run *)
(* are those the state asks for, for every value of the constants and any  *)
(* number of faults.                                                       *)
(***************************************************************************)
EXTENDS AppStateProofs

-----------------------------------------------------------------------------
(* What the calls of a leg have in common.                                 *)

Watched == {"active", "mqInit", "mqActive"}
Special == Watched \cup {"state", "env", "db", "reboot"}

(* The reset of a CPE, which deletes the database.                         *)
Erasing(tr) == tr.ev = "OnReset" /\ tr.to = "reset" /\ DeviceType = "cpe"
Migrates(tr, d) == tr.ev = "OnAfterBoot" /\ tr.to = "init" /\ d["env"] # None

(* Transitions somebody asks for: none ends in a transient state, and none *)
(* brings a state of its own.                                              *)
Meant(tr) ==
  /\ tr.arg["state"] = Keep
  /\ tr.to = "ztp_setup" =>
       tr.ev \in {"OnAfterBoot", "OnZTPSetupConfig", "OnHubSetPort", "OnHubDeletePort"}
  /\ tr.to = "update_config" => tr.ev \in {"OnAfterBoot", "OnUpdateConfig", "OnRebuildServices"}
  /\ tr.to = "maintenance" => tr.ev \in {"OnAfterBoot", "OnUpdateDevice"}
  /\ tr.to = "reset" => tr.ev \in {"OnAfterBoot", "OnReset"}

(* What a leg leaves behind.                                               *)
Goal(r, tr, d) ==
  CASE r = "active" -> tr.to
    [] r = "mqActive" -> IF tr.to = "active" THEN "on" ELSE "off"
    [] r = "mqInit" -> IF tr.to = "init" /\ ~Migrates(tr, d) THEN "on" ELSE "off"

(* Calls after which a handler may stop without going back.                *)
Late(c) == c.err = "finish" \/ c.log = "checkpoint"

(* A call of a leg: it writes what the leg is to leave behind, undoes that *)
(* with the process (b: unless it boots), and does not pass over an error; *)
(* the publisher may refuse it only where an error is dealt with.          *)
Fits(c, tr, d, b) ==
  /\ \A r \in Watched : c.set[r] # Keep =>
       /\ c.set[r] = Goal(r, tr, d) /\ c.inv[r] = Keep
       /\ c.err \in {"abort", "never"} /\ (c.log = "func" \/ (b /\ c.log = "none"))
  /\ c.set["state"] # Keep => tr.to = "reset" \/ (c.set["state"] = tr.to /\ c.err = "abort")
  /\ c.set["env"] # Keep => tr.to = "reset"
  /\ c.set["db"] # Keep => Erasing(tr) /\ c.err = "revoke" /\ c.log = "none"
  /\ c.set["reboot"] # Keep => c.set["reboot"] = "pending" /\ c.err = "never"
  /\ Late(c) => \A r \in Special : c.set[r] = Keep
  /\ c.err = "finish" => tr.to = "maintenance"
  /\ c.err = "revoke" => Erasing(tr)
  /\ c.log = "checkpoint" => tr.to = "maintenance" \/ Erasing(tr)
  /\ c.err = "refuse" => tr.to = "active"
  /\ c.err = "never" => c.set["ws"] = Keep

Fitting(s, tr, d, b) == \A i \in 1..Len(s) : Fits(s[i], tr, d, b)

(* What may come after a call.                                             *)
Sure(c) == c.err \in {"log", "never", "revoke"}
Behind(c, e, tr) ==
  /\ c.log = "checkpoint" => e.log # "checkpoint" /\ (tr.to = "reset" => Sure(e))
  /\ c.set["db"] # Keep => e.err \in {"log", "never"}
  /\ Late(c) /\ tr.to = "maintenance" => \A r \in Special : e.set[r] = Keep
Ordered(s, tr) == \A j \in 1..Len(s) : \A i \in 1..(j-1) : Behind(s[i], s[j], tr)

Reaches(s, r, v) == \E i \in 1..Len(s) : s[i].set[r] = v
Refuses(s) == \E i \in 1..Len(s) : s[i].err = "refuse"
CheckPointed(s) == \E i \in 1..Len(s) : s[i].log = "checkpoint"

(* The calls s lead the device d to the goals of the leg.                  *)
Settles(s, tr, d) ==
  \/ Refuses(s)
  \/ /\ \A r \in Watched : d[r] = Goal(r, tr, d) \/ Reaches(s, r, Goal(r, tr, d))
     /\ tr.to # "reset" => d["state"] = tr.to \/ Reaches(s, "state", tr.to)
     /\ Erasing(tr) => /\ d["db"] = "off" \/ Reaches(s, "db", "off")
                       /\ d["reboot"] # None \/ Reaches(s, "reboot", "pending")

-----------------------------------------------------------------------------
(* The invariant.                                                          *)

Subjects(d) ==
  /\ d["mqInit"] = "on" <=> d["active"] = "init"
  /\ d["mqActive"] = "on" <=> d["active"] = "active"

Rested(d, cut) ==
  /\ Subjects(d)
  /\ d["active"] \in {"init", "active"} \/ (d["active"] = "maintenance" /\ cut)

(* The device at the start of the transaction, its checkpoint taken back.  *)
Started == Apply(sealed.undo, Apply(tx.undo, Apply(sealed.mem, Apply(tx.mem, dev))))

(* Behind its checkpoint the reset of a CPE does not go back any more.     *)
Sealing ==
  phase = "leg" /\ Erasing(leg) /\ \A i \in 1..Len(todo) : Sure(todo[i])

LogsApart == \A r \in Watched \cup {"db"} : tx.undo[r] = Keep /\ sealed.undo[r] = Keep

BootsClean ==
  phase \in {"dangling", "boot"} =>
    booting /\ dev["active"] = "boot" /\ dev["mqInit"] = "off" /\ dev["mqActive"] = "off"

ClosesAtTheEnd ==
  dev["db"] = "off" =>
    \/ phase = "idle"
    \/ phase = "leg" /\ Erasing(leg) /\ \A i \in 1..Len(todo) : todo[i].err \in {"log", "never"}

AtRest ==
  phase = "idle" =>
    /\ ~booting /\ Subjects(dev)
    /\ \/ dev["active"] \in {"init", "active"}
       \/ dev["active"] = "maintenance" /\ stranded
       \/ dev["active"] = "reset" /\ dev["db"] = "off" /\ dev["reboot"] # None
    /\ dev["db"] = "on" => dev["state"] = dev["active"]

InLeg ==
  phase = "leg" =>
    /\ Meant(leg)
    /\ Fitting(todo, leg, dev, booting) /\ Ordered(todo, leg) /\ Settles(todo, leg, dev)

CanGoBack ==
  phase \in {"leg", "rollback"} /\ ~booting =>
    /\ Rested(Started, stranded)
    /\ dev["db"] = "on" => Started["state"] = Started["active"]
    /\ ~Sealing => /\ Rested(Undone, stranded \/ sealed # NoTx)
                   /\ Undone["state"] = Undone["active"]
    /\ CheckPointed(todo) => sealed = NoTx

QueueMeant ==
  \A i \in 1..Len(queue) : Meant(queue[i]) /\ queue[i].ev # "OnMigrateFromOldVersion"

RestInv ==
  /\ LogsApart /\ BootsClean /\ ClosesAtTheEnd /\ AtRest /\ InLeg /\ CanGoBack /\ QueueMeant

-----------------------------------------------------------------------------
(* Sequences of calls.                                                     *)

(* Calls that keep away from what the theorems are about.                  *)
Aside(c) ==
  /\ \A r \in Special : c.set[r] = Keep
  /\ c.err \in {"never", "log", "abort", "resume", "restart"} /\ c.log # "checkpoint"
  /\ c.err = "never" => c.set["ws"] = Keep
AsideCalls == {c \in Calls : Aside(c)}

(* Calls after which anything may come.                                    *)
Calm(c) == ~Late(c) /\ c.set["db"] = Keep

(* A call that keeps away fits every leg.                                  *)
LEMMA AsideFits ==
  ASSUME NEW c, Aside(c), NEW tr, NEW d, NEW b
  PROVE  Fits(c, tr, d, b) /\ Calm(c)
BY DEF Aside, Fits, Calm, Late, Special, Watched

(* Behind a calm call anything may come.                                   *)
LEMMA CalmBehind == ASSUME NEW c, Calm(c), NEW e, NEW tr PROVE Behind(c, e, tr)
BY DEF Calm, Behind, Late

(* Sequences one after the other.                                          *)
LEMMA AppendParts ==
  ASSUME NEW s \in Seq(Calls), NEW t \in Seq(Calls)
  PROVE  /\ s \o t \in Seq(Calls) /\ Len(s \o t) = Len(s) + Len(t)
         /\ \A i \in 1..Len(s) : i \in 1..Len(s \o t) /\ (s \o t)[i] = s[i]
         /\ \A j \in 1..Len(t) : Len(s) + j \in 1..Len(s \o t) /\ (s \o t)[Len(s) + j] = t[j]
         /\ \A k \in 1..Len(s \o t) : k \in 1..Len(s) \/ k - Len(s) \in 1..Len(t)
OBVIOUS

(* Two sequences that fit make one that fits.                              *)
LEMMA FittingAppend ==
  ASSUME NEW s \in Seq(Calls), NEW t \in Seq(Calls), NEW tr, NEW d, NEW b,
         Fitting(s, tr, d, b), Fitting(t, tr, d, b)
  PROVE  Fitting(s \o t, tr, d, b)
<1> SUFFICES ASSUME NEW k \in 1..Len(s \o t) PROVE Fits((s \o t)[k], tr, d, b)
    BY DEF Fitting
<1>1. CASE k \in 1..Len(s)
      BY <1>1, AppendParts DEF Fitting
<1>2. CASE k - Len(s) \in 1..Len(t)
  <2>1. (s \o t)[k] = t[k - Len(s)]
        BY <1>2, AppendParts
  <2> QED BY <1>2, <2>1 DEF Fitting
<1> QED BY <1>1, <1>2, AppendParts

(* Ordered sequences make one if the calls of the second may follow.       *)
LEMMA OrderedAppend ==
  ASSUME NEW s \in Seq(Calls), NEW t \in Seq(Calls), NEW tr,
         Ordered(s, tr), Ordered(t, tr),
         \A i \in 1..Len(s), j \in 1..Len(t) : Behind(s[i], t[j], tr)
  PROVE  Ordered(s \o t, tr)
<1> SUFFICES ASSUME NEW k \in 1..Len(s \o t), NEW i \in 1..(k-1)
             PROVE  Behind((s \o t)[i], (s \o t)[k], tr)
    BY DEF Ordered
<1>0. Len(s) \in Nat /\ Len(t) \in Nat /\ k \in Nat /\ i \in Nat
      BY AppendParts
<1>1. CASE k \in 1..Len(s)
  <2>1. i \in 1..Len(s) /\ (s \o t)[k] = s[k] /\ (s \o t)[i] = s[i]
        BY <1>1, AppendParts
  <2> QED BY <1>1, <2>1 DEF Ordered
<1>2. CASE k - Len(s) \in 1..Len(t) /\ i \in 1..Len(s)
  <2>1. (s \o t)[k] = t[k - Len(s)] /\ (s \o t)[i] = s[i]
        BY <1>2, AppendParts
  <2> QED BY <1>2, <2>1
<1>3. CASE k - Len(s) \in 1..Len(t) /\ i \notin 1..Len(s)
  <2>1. i - Len(s) \in 1..Len(t) /\ i - Len(s) \in 1..((k - Len(s))-1)
        BY <1>3, <1>0
  <2>2. (s \o t)[k] = t[k - Len(s)] /\ (s \o t)[i] = t[i - Len(s)]
        BY <1>3, <2>1, <1>0, AppendParts
  <2> QED BY <1>3, <2>1, <2>2 DEF Ordered
<1> QED BY <1>1, <1>2, <1>3, AppendParts

(* What one part reaches or refuses, the whole does.                       *)
LEMMA ReachesAppend ==
  ASSUME NEW s \in Seq(Calls), NEW t \in Seq(Calls), NEW r, NEW v
  PROVE  /\ Reaches(s, r, v) \/ Reaches(t, r, v) => Reaches(s \o t, r, v)
         /\ Refuses(t) => Refuses(s \o t)
<1>1. ASSUME NEW i \in 1..Len(s), s[i].set[r] = v PROVE Reaches(s \o t, r, v)
      BY <1>1, AppendParts DEF Reaches
<1>2. ASSUME NEW j \in 1..Len(t), t[j].set[r] = v PROVE Reaches(s \o t, r, v)
      BY <1>2, AppendParts DEF Reaches
<1>3. ASSUME NEW j \in 1..Len(t), t[j].err = "refuse" PROVE Refuses(s \o t)
      BY <1>3, AppendParts DEF Refuses
<1> QED BY <1>1, <1>2, <1>3 DEF Reaches, Refuses

(* A sequence of calm calls that fit, with any that fit after it.          *)
CalmFit(s, tr, d, b) ==
  s \in Seq(Calls) /\ \A i \in 1..Len(s) : Fits(s[i], tr, d, b) /\ Calm(s[i])

(* Fitting calm sequences make one.                                        *)
LEMMA CalmFitAppend ==
  ASSUME NEW tr, NEW d, NEW b, NEW s, CalmFit(s, tr, d, b)
  PROVE  /\ s \in Seq(Calls) /\ Fitting(s, tr, d, b) /\ Ordered(s, tr)
         /\ \A t \in Seq(Calls) :
              Fitting(t, tr, d, b) /\ Ordered(t, tr)
                => Fitting(s \o t, tr, d, b) /\ Ordered(s \o t, tr)
         /\ \A t : CalmFit(t, tr, d, b) => CalmFit(s \o t, tr, d, b)
<1> USE DEF CalmFit
<1>1. s \in Seq(Calls) /\ Fitting(s, tr, d, b)
      BY DEF Fitting
<1>2. \A i \in 1..Len(s) : \A e : Behind(s[i], e, tr)
      BY CalmBehind
<1>3. Ordered(s, tr)
  <2> SUFFICES ASSUME NEW j \in 1..Len(s), NEW i \in 1..(j-1) PROVE Behind(s[i], s[j], tr)
      BY DEF Ordered
  <2>1. i \in 1..Len(s)
        BY <1>1
  <2> QED BY <2>1, <1>2
<1>4. ASSUME NEW t \in Seq(Calls), Fitting(t, tr, d, b), Ordered(t, tr)
      PROVE  Fitting(s \o t, tr, d, b) /\ Ordered(s \o t, tr)
  <2>1. \A i \in 1..Len(s), j \in 1..Len(t) : Behind(s[i], t[j], tr)
        BY <1>2
  <2> QED BY <2>1, <1>1, <1>3, <1>4, FittingAppend, OrderedAppend
<1>5. ASSUME NEW t, CalmFit(t, tr, d, b)
      PROVE  CalmFit(s \o t, tr, d, b)
  <2>1. s \o t \in Seq(Calls)
        BY <1>5, <1>1
  <2>2. ASSUME NEW k \in 1..Len(s \o t) PROVE Fits((s \o t)[k], tr, d, b) /\ Calm((s \o t)[k])
    <3>1. CASE k \in 1..Len(s)
          BY <3>1, <1>5, <1>1, AppendParts
    <3>2. CASE k - Len(s) \in 1..Len(t)
      <4>1. (s \o t)[k] = t[k - Len(s)]
            BY <3>2, <1>5, <1>1, AppendParts
      <4> QED BY <3>2, <4>1, <1>5
    <3> QED BY <3>1, <3>2, <1>5, <1>1, AppendParts
  <2> QED BY <2>1, <2>2
<1> QED BY <1>1, <1>3, <1>4, <1>5

(* A sequence of calls that keep away fits, and is calm.                   *)
LEMMA AsideCalmFit ==
  ASSUME NEW s \in Seq(AsideCalls), NEW tr, NEW d, NEW b
  PROVE  CalmFit(s, tr, d, b)
<1>1. s \in Seq(Calls) /\ \A i \in 1..Len(s) : Aside(s[i])
      BY DEF AsideCalls
<1> QED BY <1>1, AsideFits DEF CalmFit

-----------------------------------------------------------------------------
(* The handlers.                                                           *)

Usual == {"never", "log", "abort", "resume", "restart"}

(* Configuration other than the state, checks, and services are aside.     *)
LEMMA AsideConfig ==
  ASSUME NEW p \in Configs, p["state"] = Keep
  PROVE  Execute(p) \in AsideCalls /\ \A e \in Usual : Call(p, "activity", e) \in AsideCalls
<1>1. \A r \in Special \cup {"ws"} : p[r] = Keep
      BY DEF Configs, Special, Watched, Resources, Persisted, Volatile
<1>2. Execute(p) \in Calls /\ \A e \in Usual : Call(p, "activity", e) \in Calls
      BY ConfigCallTypes DEF PlainCalls, Usual, Errs
<1> QED BY <1>1, <1>2 DEF AsideCalls, Aside, Execute, Call, Usual

(* So do the calls that write one section of the configuration.            *)
LEMMA AsideSection ==
  ASSUME NEW r \in {"serial", "port", "services"}, NEW v \in Domain(r) \cup {Keep}
  PROVE  /\ Set(r, v) \in Configs /\ Set(r, v)["state"] = Keep
         /\ Execute(Set(r, v)) \in AsideCalls
         /\ \A e \in Usual : Call(Set(r, v), "activity", e) \in AsideCalls
<1>1. r \in Persisted /\ "state" \in Resources
      BY DomainFacts DEF Persisted
<1>2. Set(r, v) \in Configs /\ Set(r, v)["state"] = Keep
      BY <1>1, ConfigTypes DEF Set
<1> QED BY <1>2, AsideConfig

(* So do the calls that change nothing.                                    *)
LEMMA AsideNothing ==
  /\ NoChange \in Configs /\ NoChange["state"] = Keep
  /\ Execute(NoChange) \in AsideCalls
  /\ \A e \in Usual : Call(NoChange, "activity", e) \in AsideCalls /\ Check(e) \in AsideCalls
<1>1. NoChange \in Configs /\ \A r \in Special \cup {"ws"} : NoChange[r] = Keep
      BY ConfigTypes, DomainFacts DEF NoChange, Special, Watched, Persisted
<1>2. \A e \in Usual : Check(e) \in Calls
      BY CheckTypes DEF PlainCalls, Usual, Errs
<1>3. \A e \in Usual : Check(e) \in AsideCalls
      BY <1>1, <1>2 DEF AsideCalls, Aside, Check, Call, Usual
<1> QED BY <1>1, <1>3, AsideConfig DEF Special

(* So do the calls that start or stop a daemon.                            *)
LEMMA AsideService ==
  ASSUME NEW r \in Daemons \cup {"ws", "pony", "deactivate"}, NEW v \in OnOff
  PROVE  /\ Func(r, v) \in AsideCalls /\ (r # "ws" => Now(r, v) \in AsideCalls)
         /\ Logged(Set(r, v)) \in AsideCalls
         /\ \A u \in OnOff : Command(r, v, u) \in AsideCalls
<1>1. (\A q \in Special : Set(r, v)[q] = Keep) /\ (r # "ws" => Set(r, v)["ws"] = Keep)
      BY DomainFacts DEF Set, Special, Watched, Daemons, Persisted
<1>2. /\ Func(r, v) \in Calls /\ Now(r, v) \in Calls /\ Logged(Set(r, v)) \in Calls
      /\ \A u \in OnOff : Command(r, v, u) \in Calls
      BY OnOffCallTypes DEF PlainCalls
<1>3. Aside(Func(r, v)) /\ Aside(Logged(Set(r, v)))
      BY <1>1 DEF Aside, Func, Logged, Call
<1>5. r # "ws" => Aside(Now(r, v))
      BY <1>1 DEF Aside, Now, Call
<1>4. \A u \in OnOff : Aside(Command(r, v, u))
      BY <1>1 DEF Aside, Command
<1> QED BY <1>2, <1>3, <1>4, <1>5 DEF AsideCalls

(* Subscribing to the subjects of the state a leg leads to.                *)
LEMMA SubscribeFit ==
  ASSUME NEW tr, NEW d, NEW b
  PROVE  /\ tr.to = "init" /\ ~Migrates(tr, d) =>
              CalmFit(<<SubscribeInit>>, tr, d, b) /\ Reaches(<<SubscribeInit>>, "mqInit", "on")
         /\ tr.to = "active" =>
              CalmFit(<<SubscribeActive>>, tr, d, b) /\ Reaches(<<SubscribeActive>>, "mqActive", "on")
         /\ tr.to # "init" => CalmFit(<<UnsubscribeInit>>, tr, d, b)
         /\ tr.to # "active" => CalmFit(<<UnsubscribeActive>>, tr, d, b)
         /\ Reaches(<<UnsubscribeInit>>, "mqInit", "off")
         /\ Reaches(<<UnsubscribeActive>>, "mqActive", "off")
<1>1. /\ SubscribeInit \in Calls /\ UnsubscribeInit \in Calls
      /\ SubscribeActive \in Calls /\ UnsubscribeActive \in Calls
      BY SubscribeTypes DEF PlainCalls
<1>2. \A r \in {"mqInit", "mqActive"}, v \in OnOff :
        LET c == Func(r, v)
        IN  /\ c.set[r] = v /\ \A q \in Special \ {r} : c.set[q] = Keep
            /\ c.inv[r] = Keep /\ c.log = "func" /\ c.err = "abort"
      BY DomainFacts DEF Func, Call, Set, NoChange, Special, Watched, Persisted
<1>3. ASSUME NEW r \in {"mqInit", "mqActive"}, NEW v \in OnOff, v = Goal(r, tr, d)
      PROVE  Fits(Func(r, v), tr, d, b) /\ Calm(Func(r, v))
  <2>1. r \in Watched /\ "db" \in Special \ {r}
        BY DEF Watched, Special
  <2> QED BY <2>1, <1>2, <1>3 DEF Fits, Calm, Late, Special, Watched
<1>4. ASSUME NEW c \in Calls, Fits(c, tr, d, b), Calm(c) PROVE CalmFit(<<c>>, tr, d, b)
      BY <1>4 DEF CalmFit
<1>5. ASSUME NEW c \in Calls, NEW r, NEW v, c.set[r] = v PROVE Reaches(<<c>>, r, v)
      BY <1>5 DEF Reaches
<1>6. tr.to = "init" /\ ~Migrates(tr, d) =>
        CalmFit(<<SubscribeInit>>, tr, d, b) /\ Reaches(<<SubscribeInit>>, "mqInit", "on")
      BY <1>1, <1>2, <1>3, <1>4, <1>5 DEF SubscribeInit, Goal, OnOff
<1>7. tr.to = "active" =>
        CalmFit(<<SubscribeActive>>, tr, d, b) /\ Reaches(<<SubscribeActive>>, "mqActive", "on")
      BY <1>1, <1>2, <1>3, <1>4, <1>5 DEF SubscribeActive, Goal, OnOff
<1>8. tr.to # "init" => CalmFit(<<UnsubscribeInit>>, tr, d, b)
      BY <1>1, <1>2, <1>3, <1>4 DEF UnsubscribeInit, Goal, OnOff
<1>9. tr.to # "active" => CalmFit(<<UnsubscribeActive>>, tr, d, b)
      BY <1>1, <1>2, <1>3, <1>4 DEF UnsubscribeActive, Goal, OnOff
<1>10. Reaches(<<UnsubscribeInit>>, "mqInit", "off") /\ Reaches(<<UnsubscribeActive>>, "mqActive", "off")
      BY <1>1, <1>2, <1>5 DEF UnsubscribeInit, UnsubscribeActive, OnOff
<1> QED BY <1>6, <1>7, <1>8, <1>9, <1>10

(* What every handler does: its calls fit, and it subscribes.              *)
Handles(s, tr, d, b) ==
  /\ s \in Seq(Calls) /\ Fitting(s, tr, d, b) /\ Ordered(s, tr)
  /\ tr.to = "init" /\ ~Migrates(tr, d) => Reaches(s, "mqInit", "on")
  /\ tr.to = "active" => Reaches(s, "mqActive", "on") \/ Refuses(s)
  /\ Erasing(tr) => Reaches(s, "db", "off") /\ Reaches(s, "reboot", "pending")

(* A handler all of whose calls keep away, where the goals are none of its. *)
LEMMA AsideHandles ==
  ASSUME NEW s \in Seq(AsideCalls), NEW tr, NEW d, NEW b,
         tr.to \notin {"init", "active"} \/ Migrates(tr, d), ~Erasing(tr)
  PROVE  Handles(s, tr, d, b)
BY AsideCalmFit, CalmFitAppend DEF Handles, Migrates

(* HandleInit fits, and leads to its goals.                                *)
LEMMA HandleInitFits ==
  ASSUME NEW tr \in Transitions, NEW d \in Devices, NEW b, tr.to = "init"
  PROVE  Handles(HandleInit(tr, d), tr, d, b)
<1> DEFINE a == <<Logged(Set("umEnabled", "off")), Logged(Set("um", "off"))>>
           e == <<Func("starter", "on"), Func("dhcp", "on")>>
           f == <<SubscribeInit, Logged(Set("umEnabled", "off")), Logged(Set("um", "off"))>>
<1>0. ~Erasing(tr)
      BY DEF Erasing
<1>1. CASE Migrates(tr, d)
  <2>1. HandleInit(tr, d) = <<>> /\ <<>> \in Seq(AsideCalls)
        BY <1>1 DEF HandleInit, Migrates, CheckMigrateFromOldVersion
  <2> QED BY <2>1, <1>1, <1>0, AsideHandles
<1>2. CASE ~Migrates(tr, d)
  <2>1. CalmFit(<<SubscribeInit>>, tr, d, b) /\ Reaches(<<SubscribeInit>>, "mqInit", "on")
        BY <1>2, SubscribeFit
  <2>2. a \in Seq(AsideCalls) /\ e \in Seq(AsideCalls) /\ <<>> \in Seq(AsideCalls)
        BY AsideService DEF Daemons, OnOff
  <2>3. ForCPE(e) \in Seq(AsideCalls)
        BY <2>2 DEF ForCPE
  <2>4. RestoreInitState = (<<SubscribeInit>> \o a) \o ForCPE(e)
    <3>1. f = <<SubscribeInit>> \o a
          OBVIOUS
    <3>2. RestoreInitState = f \o ForCPE(e)
          BY DEF RestoreInitState
    <3> HIDE DEF a, e, f
    <3> QED BY <3>1, <3>2
  <2> HIDE DEF a, e
  <2>5. CalmFit(a, tr, d, b) /\ CalmFit(ForCPE(e), tr, d, b)
        BY <2>2, <2>3, AsideCalmFit
  <2>6. /\ a \in Seq(Calls) /\ ForCPE(e) \in Seq(Calls) /\ <<SubscribeInit>> \in Seq(Calls)
        /\ <<SubscribeInit>> \o a \in Seq(Calls)
        BY <2>1, <2>5 DEF CalmFit
  <2>7. CalmFit(RestoreInitState, tr, d, b) /\ Reaches(RestoreInitState, "mqInit", "on")
        BY <2>1, <2>4, <2>5, <2>6, CalmFitAppend, ReachesAppend
  <2>8. \A s : CalmFit(s, tr, d, b) /\ Reaches(s, "mqInit", "on") => Handles(s, tr, d, b)
        BY <1>0, CalmFitAppend DEF Handles
  <2>9. HandleInit(tr, d) \in {RestoreInitState, <<SubscribeInit>>}
        BY <1>2 DEF HandleInit, Migrates, CheckMigrateFromOldVersion
  <2> QED BY <2>1, <2>7, <2>8, <2>9
<1> QED BY <1>1, <1>2

(* What a request brings, and what a device holds.                         *)
LEMMA AsideArguments ==
  ASSUME NEW tr \in Transitions, NEW d \in Devices, Meant(tr)
  PROVE  /\ Execute(tr.arg) \in AsideCalls
         /\ \A e \in Usual : Call(tr.arg, "activity", e) \in AsideCalls
         /\ \A r \in {"serial", "port", "services"} :
              /\ tr.arg[r] \in Domain(r) \cup {Keep} /\ d[r] \in Domain(r) /\ None \in Domain(r)
<1>1. tr.arg \in Configs /\ tr.arg["state"] = Keep
      BY ArgumentTypes DEF Meant
<1>2. \A r \in {"serial", "port", "services"} :
        tr.arg[r] \in Domain(r) \cup {Keep} /\ d[r] \in Domain(r) /\ None \in Domain(r)
      BY <1>1, DomainFacts DEF Configs, Patches, Devices, Persisted
<1> QED BY <1>1, <1>2, AsideConfig

(* HandleZTPSetup keeps away from all but its own state.                   *)
LEMMA HandleZTPSetupFits ==
  ASSUME NEW tr \in Transitions, NEW d \in Devices, Meant(tr), NEW b, tr.to = "ztp_setup"
  PROVE  Handles(HandleZTPSetup(tr, d), tr, d, b)
<1>1. /\ Execute(tr.arg) \in AsideCalls /\ Execute(NoChange) \in AsideCalls
      /\ Check("abort") \in AsideCalls
      BY AsideArguments, AsideNothing DEF Usual
<1>2. HandleZTPSetup(tr, d) \in Seq(AsideCalls)
      BY <1>1 DEF HandleZTPSetup, SetHubPort, DeleteHubPort
<1> QED BY <1>2, AsideHandles DEF Erasing

(* So does HandleUpdateConfig, which stops and starts the publisher.       *)
LEMMA HandleUpdateConfigFits ==
  ASSUME NEW tr \in Transitions, NEW d \in Devices, Meant(tr), NEW b, tr.to = "update_config"
  PROVE  Handles(HandleUpdateConfig(tr, d), tr, d, b)
<1> DEFINE a == <<Now("pony", "off"), Logged(Set("ws", "off")),
                  Call(tr.arg, "activity", "restart"), Now("pony", "on")>>
           c == <<Check("restart")>>
           e == <<Logged(Set("ws", "on"))>>
<1>1. a \in Seq(AsideCalls) /\ c \in Seq(AsideCalls) /\ e \in Seq(AsideCalls)
      BY AsideService, AsideArguments, AsideNothing DEF OnOff, Usual
<1>2. <<Execute(tr.arg)>> \in Seq(AsideCalls) /\ <<>> \in Seq(AsideCalls)
      BY AsideArguments
<1>3. UpdateConfig(tr, d) \in Seq(AsideCalls)
  <2>1. UpdateConfig(tr, d) = IF IsPortConfigurationChanged(tr, d)
                              THEN a \o ForCPE(c) \o e ELSE <<Execute(tr.arg)>>
        BY DEF UpdateConfig
  <2> HIDE DEF a, c, e
  <2>2. ForCPE(c) \in Seq(AsideCalls)
        BY <1>1, <1>2 DEF ForCPE
  <2> QED BY <2>1, <2>2, <1>1, <1>2
<1>4. RebuildServices(d) \in Seq(AsideCalls)
  <2>1. Execute(Set("services", None)) \in AsideCalls /\ Execute(Set("services", d["services"])) \in AsideCalls
        BY AsideSection, AsideArguments
  <2> QED BY <2>1 DEF RebuildServices
<1>5. HandleUpdateConfig(tr, d) \in Seq(AsideCalls)
      BY <1>2, <1>3, <1>4 DEF HandleUpdateConfig
<1> QED BY <1>5, AsideHandles DEF Erasing

(* The first setup subscribes, or is refused.                              *)
LEMMA RunFirstSetupFits ==
  ASSUME NEW tr \in Transitions, NEW d \in Devices, Meant(tr), NEW b, tr.to = "active"
  PROVE  /\ CalmFit(RunFirstSetup(tr, d), tr, d, b)
         /\ Reaches(RunFirstSetup(tr, d), "mqActive", "on") \/ Refuses(RunFirstSetup(tr, d))
<1> DEFINE a == <<Check("abort"),
                  Execute(Set("serial", tr.arg["serial"])),
                  Command("umEnabled", "on", "off"), Command("um", "on", "off"),
                  Func("ws", "on")>>
           c == <<Func("dhcp", "off")>>
           e == <<Now("deactivate", "on")>>
           x == <<Check("refuse")>>
<1>1. CASE d["port"] = None
  <2>1. RunFirstSetup(tr, d) = x
        BY <1>1 DEF RunFirstSetup
  <2>2. /\ Check("refuse") \in Calls /\ Check("refuse").err = "refuse" /\ Check("refuse").log = "none"
        /\ \A r \in Special : Check("refuse").set[r] = Keep
        BY CheckTypes, AsideNothing, DomainFacts
           DEF PlainCalls, Errs, Check, Call, NoChange, Special, Watched, Persisted
  <2>3. Fits(Check("refuse"), tr, d, b) /\ Calm(Check("refuse"))
        BY <2>2 DEF Fits, Calm, Late, Special, Watched
  <2> QED BY <2>1, <2>2, <2>3 DEF CalmFit, Refuses
<1>2. CASE d["port"] # None
  <2>1. a \in Seq(AsideCalls)
    <3>1. Execute(Set("serial", tr.arg["serial"])) \in AsideCalls
          BY AsideArguments, AsideSection
    <3> QED BY <3>1, AsideNothing, AsideService DEF Usual, Daemons, OnOff
  <2>2. c \in Seq(AsideCalls) /\ e \in Seq(AsideCalls) /\ <<>> \in Seq(AsideCalls)
        BY AsideService DEF Daemons, OnOff
  <2>3. InitDevice(tr) \in Seq(AsideCalls)
    <3>1. /\ Call(Set("port", tr.arg["port"]), "activity", "resume") \in AsideCalls
          /\ Call(Set("services", tr.arg["services"]), "activity", "resume") \in AsideCalls
          BY AsideArguments, AsideSection DEF Usual
    <3> QED BY <3>1, AsideNothing, AsideService DEF InitDevice, Usual, OnOff
  <2>4. RunFirstSetup(tr, d) =
          a \o InitDevice(tr) \o ForCPE(c) \o <<SubscribeActive>> \o ForCPE(e)
        BY <1>2 DEF RunFirstSetup
  <2> HIDE DEF a, c, e
  <2>5. ForCPE(c) \in Seq(AsideCalls) /\ ForCPE(e) \in Seq(AsideCalls)
        BY <2>2 DEF ForCPE
  <2> DEFINE f == a \o InitDevice(tr) \o ForCPE(c)
  <2>6. f \in Seq(AsideCalls)
        BY <2>1, <2>3, <2>5
  <2>7. CalmFit(f, tr, d, b) /\ CalmFit(ForCPE(e), tr, d, b)
        BY <2>5, <2>6, AsideCalmFit
  <2>8. RunFirstSetup(tr, d) = (f \o <<SubscribeActive>>) \o ForCPE(e)
        BY <2>4
  <2> HIDE DEF f
  <2>9. CalmFit(<<SubscribeActive>>, tr, d, b) /\ Reaches(<<SubscribeActive>>, "mqActive", "on")
        BY SubscribeFit
  <2>10. CalmFit(f \o <<SubscribeActive>>, tr, d, b)
        BY <2>7, <2>9, CalmFitAppend
  <2>11. Reaches(f \o <<SubscribeActive>>, "mqActive", "on")
        BY <2>7, <2>9, ReachesAppend DEF CalmFit
  <2> QED BY <2>7, <2>8, <2>10, <2>11, CalmFitAppend, ReachesAppend DEF CalmFit
<1> QED BY <1>1, <1>2

(* HandleActive fits; its start of the publisher may refuse.               *)
LEMMA HandleActiveFits ==
  ASSUME NEW tr \in Transitions, NEW d \in Devices, Meant(tr), NEW b, tr.to = "active"
  PROVE  Handles(HandleActive(tr, d), tr, d, b)
<1> DEFINE Good(s) == CalmFit(s, tr, d, b) /\ Reaches(s, "mqActive", "on")
           S == <<SubscribeActive>>
           f == <<Func("um", "on"), Func("starter", "off")>>
           g == IF d["ws"] = "off" THEN <<Func("ws", "on")>> ELSE <<>>
           h == <<Execute(tr.arg), Func("um", "on"), Func("ws", "on")>>
           u == <<Func("um", "on")>>
<1>1. Good(S)
      BY SubscribeFit
<1>2. f \in Seq(AsideCalls) /\ g \in Seq(AsideCalls) /\ h \in Seq(AsideCalls) /\ u \in Seq(AsideCalls)
      BY AsideService, AsideArguments DEF Daemons, OnOff
<1>3. /\ RestoreActiveState(d) = (f \o g) \o S
      /\ <<SubscribeActive, Func("um", "on")>> = S \o u
      BY DEF RestoreActiveState
<1>4. MigrateFromOldVersion(tr) = h \o S
      BY DEF MigrateFromOldVersion
<1> HIDE DEF f, g, h, u, S
<1>5. f \o g \in Seq(AsideCalls)
      BY <1>2
<1>6. ASSUME NEW s \in Seq(AsideCalls) PROVE Good(s \o S) /\ Good(S \o s)
  <2>1. CalmFit(s, tr, d, b) /\ s \in Seq(Calls) /\ S \in Seq(Calls)
        BY <1>1, AsideCalmFit DEF CalmFit
  <2> QED BY <2>1, <1>1, CalmFitAppend, ReachesAppend
<1>7. Good(RestoreActiveState(d)) /\ Good(MigrateFromOldVersion(tr)) /\ Good(S \o u)
      BY <1>2, <1>3, <1>4, <1>5, <1>6
<1>8. \A s : CalmFit(s, tr, d, b) /\ (Reaches(s, "mqActive", "on") \/ Refuses(s))
               => Handles(s, tr, d, b)
      BY CalmFitAppend DEF Handles, Erasing
<1>9. HandleActive(tr, d) \in {RunFirstSetup(tr, d), MigrateFromOldVersion(tr), S, S \o u,
                               RestoreActiveState(d)}
      BY <1>3 DEF HandleActive, S
<1> QED BY <1>1, <1>7, <1>8, <1>9, RunFirstSetupFits

(* The update of the device writes nothing of its own, and has at most one *)
(* checkpoint.                                                             *)
LEMMA HandleMaintenanceFits ==
  ASSUME NEW tr \in Transitions, NEW d \in Devices, Meant(tr), NEW b, tr.to = "maintenance"
  PROVE  Handles(HandleMaintenance(tr, d), tr, d, b)
<1> DEFINE Quiet(c) == /\ \A r \in Special : c.set[r] = Keep
                       /\ c.err \in {"finish", "log"} /\ c.log # "checkpoint"
           a == <<Check("finish")>>
           x == IF tr.pkg \in {"agent", "services"}
                THEN <<Call(Set("services", None), "activity", "finish")>> ELSE <<>>
           y == IF tr.pkg = "agent" THEN <<CheckPoint("finish")>> ELSE <<>>
           cp == CheckPoint("finish")
           Q == {c \in Calls : Quiet(c)}
<1>1. \A r \in Special : NoChange[r] = Keep
      BY DomainFacts DEF NoChange, Special, Watched, Persisted
<1>2. Check("finish") \in Q
  <2>1. Check("finish") \in Calls
        BY CheckTypes DEF PlainCalls, Errs
  <2> QED BY <2>1, <1>1 DEF Check, Call
<1>3. Call(Set("services", None), "activity", "finish") \in Q
  <2>1. Set("services", None) \in Configs
        BY ConfigTypes, DomainFacts DEF Persisted
  <2>2. Call(Set("services", None), "activity", "finish") \in Calls
        BY <2>1, ConfigCallTypes DEF PlainCalls, Errs
  <2>3. \A r \in Special : Set("services", None)[r] = Keep
        BY DomainFacts DEF Set, Special, Watched, Persisted
  <2> QED BY <2>2, <2>3 DEF Call
<1>4. /\ cp \in Calls /\ cp.log = "checkpoint" /\ cp.err = "finish"
      /\ \A r \in Special : cp.set[r] = Keep
      BY <1>1, CheckTypes DEF PlainCalls, Errs, CheckPoint, Call
<1>5. WaitInstallFinishedAfterBoot \in Seq(AsideCalls)
      BY AsideService DEF WaitInstallFinishedAfterBoot, OnOff
<1> HIDE DEF cp
<1>6. \A c \in Q \cup {cp} : Fits(c, tr, d, b)
      BY <1>4 DEF Fits, Special, Watched, Late
<1>7. \A c \in Q : \A e \in Q \cup {cp} : Behind(c, e, tr) /\ Behind(e, c, tr)
      BY <1>4 DEF Behind, Special, Late
<1> HIDE DEF Q
<1>8. Q \subseteq Calls
      BY DEF Q
<1>9. \A s \in Seq(Q) : s \in Seq(Calls) /\ Fitting(s, tr, d, b) /\ Ordered(s, tr)
      BY <1>6, <1>7, <1>8 DEF Fitting, Ordered
<1>10. a \in Seq(Q) /\ x \in Seq(Q)
      BY <1>2, <1>3
<1>11. /\ y \in Seq(Calls) /\ Fitting(y, tr, d, b) /\ Ordered(y, tr)
       /\ \A i \in 1..Len(y) : y[i] = cp
      BY <1>4, <1>6 DEF Fitting, Ordered, cp
<1>12. UpdateDevice(tr) = ((a \o x) \o y) \o a
      BY DEF UpdateDevice
<1> HIDE DEF a, x, y
<1>13. a \o x \in Seq(Q)
      BY <1>10
<1>14. ASSUME NEW s \in Seq(Q) PROVE \A i \in 1..Len(s) : s[i] \in Q
      OBVIOUS
<1> DEFINE z == (a \o x) \o y
<1>15. /\ z \in Seq(Calls) /\ Fitting(z, tr, d, b) /\ Ordered(z, tr)
       /\ \A i \in 1..Len(z) : z[i] \in Q \cup {cp}
  <2>1. a \o x \in Seq(Calls) /\ Fitting(a \o x, tr, d, b) /\ Ordered(a \o x, tr)
        BY <1>9, <1>13
  <2>2. \A i \in 1..Len(a \o x), j \in 1..Len(y) : Behind((a \o x)[i], y[j], tr)
        BY <1>7, <1>11, <1>13, <1>14
  <2>3. z \in Seq(Calls) /\ Fitting(z, tr, d, b) /\ Ordered(z, tr)
    <3> DEFINE u == a \o x
    <3>1. u \in Seq(Calls) /\ Fitting(u, tr, d, b) /\ Ordered(u, tr) /\ z = u \o y
          BY <2>1
    <3>2. \A i \in 1..Len(u), j \in 1..Len(y) : Behind(u[i], y[j], tr)
          BY <2>2
    <3> HIDE DEF u, z
    <3>3. u \o y \in Seq(Calls) /\ Fitting(u \o y, tr, d, b)
          BY <3>1, <1>11, AppendParts, FittingAppend
    <3>4. Ordered(u \o y, tr)
          BY <3>1, <3>2, <1>11, OrderedAppend
    <3> QED BY <3>1, <3>3, <3>4
  <2>4. ASSUME NEW k \in 1..Len(z) PROVE z[k] \in Q \cup {cp}
    <3>1. CASE k \in 1..Len(a \o x)
          BY <3>1, <2>1, <1>11, <1>13, <1>14, AppendParts
    <3>2. CASE k - Len(a \o x) \in 1..Len(y)
      <4>1. z[k] = y[k - Len(a \o x)]
            BY <3>2, <2>1, <1>11, AppendParts
      <4> QED BY <3>2, <4>1, <1>11
    <3> QED BY <3>1, <3>2, <2>1, <1>11, AppendParts
  <2> QED BY <2>3, <2>4
<1> HIDE DEF z
<1>16. /\ UpdateDevice(tr) \in Seq(Calls) /\ Fitting(UpdateDevice(tr), tr, d, b)
       /\ Ordered(UpdateDevice(tr), tr)
  <2>1. a \in Seq(Calls) /\ Fitting(a, tr, d, b) /\ Ordered(a, tr)
        BY <1>9, <1>10
  <2>2. \A i \in 1..Len(z), j \in 1..Len(a) : Behind(z[i], a[j], tr)
        BY <1>7, <1>10, <1>14, <1>15
  <2>3. z \o a \in Seq(Calls) /\ Fitting(z \o a, tr, d, b)
        BY <2>1, <1>15, AppendParts, FittingAppend
  <2>4. Ordered(z \o a, tr)
        BY <2>1, <2>2, <1>15, OrderedAppend
  <2>5. UpdateDevice(tr) = z \o a
        BY <1>12 DEF z
  <2> QED BY <2>3, <2>4, <2>5
<1>17. CASE tr.ev = "OnUpdateDevice"
  <2>1. HandleMaintenance(tr, d) = UpdateDevice(tr)
        BY <1>17 DEF HandleMaintenance
  <2> QED BY <2>1, <1>16 DEF Handles, Erasing
<1>18. CASE tr.ev # "OnUpdateDevice"
  <2>1. HandleMaintenance(tr, d) = WaitInstallFinishedAfterBoot
        BY <1>18 DEF HandleMaintenance
  <2> QED BY <2>1, <1>5, AsideHandles DEF Erasing, Migrates
<1> QED BY <1>17, <1>18

(* Calls that write the state or agent.env on the way to reset.            *)
LEMMA EmptiesFit ==
  ASSUME NEW tr, NEW d \in Devices, NEW b, tr.to = "reset"
  PROVE  /\ Execute(EmptyConfig) \in Calls /\ Fits(Execute(EmptyConfig), tr, d, b)
         /\ Calm(Execute(EmptyConfig))
         /\ LET c == Execute([EmptyConfig EXCEPT !["port"] = d["port"]])
            IN  c \in Calls /\ Fits(c, tr, d, b) /\ Calm(c)
         /\ TryResetEnv \in Calls /\ Fits(TryResetEnv, tr, d, b) /\ Calm(TryResetEnv)
         /\ TryResetEnv.err = "log" /\ TryResetEnv.log = "none"
<1>1. ASSUME NEW p \in Configs
      PROVE  Execute(p) \in Calls /\ Fits(Execute(p), tr, d, b) /\ Calm(Execute(p))
  <2>1. \A r \in Special \ {"state"} : p[r] = Keep
        BY <1>1 DEF Configs, Special, Watched, Resources, Persisted, Volatile
  <2>2. Execute(p) \in Calls
        BY ConfigCallTypes DEF PlainCalls
  <2> QED BY <2>1, <2>2 DEF Fits, Calm, Late, Execute, Call, Special, Watched
<1>2. EmptyConfig \in Configs /\ [EmptyConfig EXCEPT !["port"] = d["port"]] \in Configs
      BY EmptyConfigType, HubConfigType
<1>3. TryResetEnv \in Calls
      BY ServiceCallTypes, DomainFacts DEF TryResetEnv, ServiceResources, PlainCalls
<1>4. \A r \in Special \ {"env"} : TryResetEnv.set[r] = Keep
      BY DomainFacts DEF TryResetEnv, Logged, Call, Set, Special, Watched, Persisted
<1>5. TryResetEnv.err = "log" /\ TryResetEnv.log = "none"
      BY DEF TryResetEnv, Logged, Call
<1>6. Fits(TryResetEnv, tr, d, b) /\ Calm(TryResetEnv)
      BY <1>4, <1>5 DEF Fits, Calm, Late, Special, Watched
<1> QED BY <1>1, <1>2, <1>3, <1>5, <1>6

(* What comes behind the checkpoint of a reset.                            *)
LEMMA EraseDatabaseFits ==
  ASSUME NEW tr, NEW d, NEW b, Erasing(tr)
  PROVE  /\ EraseDatabase \in Seq(Calls) /\ Fitting(EraseDatabase, tr, d, b)
         /\ Ordered(EraseDatabase, tr)
         /\ Reaches(EraseDatabase, "db", "off") /\ Reaches(EraseDatabase, "reboot", "pending")
         /\ \A i \in 1..Len(EraseDatabase) :
              Sure(EraseDatabase[i]) /\ EraseDatabase[i].log # "checkpoint"
<1> DEFINE x == Call(Set("db", "off"), "none", "revoke")
           w == [r \in Resources |-> IF r \in Persisted THEN None ELSE Keep]
           y == Logged(w)
           z == Now("reboot", "pending")
<1>1. EraseDatabase = <<x, y, z>> /\ EraseDatabase \in Seq(Calls)
      BY EraseDatabaseGuarded DEF EraseDatabase
<1>2. /\ x.set["db"] = "off" /\ x.err = "revoke" /\ x.log = "none"
      /\ \A r \in Special \ {"db"} : x.set[r] = Keep
      BY DomainFacts DEF Call, Set, Special, Watched, Persisted
<1>3. /\ y.err = "log" /\ y.log = "none" /\ \A r \in Special \ {"state"} : y.set[r] = Keep
      BY DomainFacts DEF Logged, Call, Special, Watched, Persisted
<1>4. /\ z.set["reboot"] = "pending" /\ z.err = "never" /\ z.log = "none"
      /\ \A r \in (Special \cup {"ws"}) \ {"reboot"} : z.set[r] = Keep
      BY DomainFacts DEF Now, Call, Set, Special, Watched, Persisted
<1> HIDE DEF x, y, z
<1>5. Fits(x, tr, d, b)
      BY <1>2 DEF Fits, Late, Special, Watched, Erasing
<1>6. Fits(y, tr, d, b)
      BY <1>3 DEF Fits, Late, Special, Watched, Erasing
<1>7. Fits(z, tr, d, b)
      BY <1>4 DEF Fits, Late, Special, Watched, Erasing
<1>8. Behind(x, y, tr) /\ Behind(x, z, tr) /\ Behind(y, z, tr)
      BY <1>2, <1>3, <1>4 DEF Behind, Late, Special, Erasing
<1> DEFINE E == <<x, y, z>>
<1>9. E \in Seq(Calls)
      BY <1>1
<1>10. Len(E) = 3 /\ E[1] = x /\ E[2] = y /\ E[3] = z
      OBVIOUS
<1> HIDE DEF E
<1>11. Fitting(E, tr, d, b) /\ Ordered(E, tr)
      BY <1>5, <1>6, <1>7, <1>8, <1>10 DEF Fitting, Ordered
<1>12. Reaches(E, "db", "off") /\ Reaches(E, "reboot", "pending")
      BY <1>2, <1>4, <1>10 DEF Reaches
<1>13. \A i \in 1..Len(E) : Sure(E[i]) /\ E[i].log # "checkpoint"
      BY <1>2, <1>3, <1>4, <1>10 DEF Sure
<1> QED BY <1>1, <1>11, <1>12, <1>13 DEF E

(* HandleReset fits, for a hub and for a CPE that deletes its database.    *)
LEMMA HandleResetFits ==
  ASSUME NEW tr \in Transitions, NEW d \in Devices, Meant(tr), NEW b, tr.to = "reset"
  PROVE  Handles(HandleReset(tr, d), tr, d, b)
<1> DEFINE hubCfg == Execute([EmptyConfig EXCEPT !["port"] = d["port"]])
           P == StopPublisher(d)
           cp == CheckPoint("abort")
           c1 == Execute(NoChange)
           c2 == Execute(EmptyConfig)
           c4 == Command("starterEnabled", "on", "off")
           c5 == Command("dhcpEnabled", "on", "off")
           c6 == Func("um", "off")
           h == <<c1, hubCfg, c6, TryResetEnv>>
           T == <<c1, c2, c1, c4, c5, c6, cp, TryResetEnv>>
<1>1. P \in Seq(AsideCalls) /\ CalmFit(P, tr, d, b)
  <2>1. P \in Seq(AsideCalls)
        BY AsideService DEF StopPublisher, OnOff
  <2> QED BY <2>1, AsideCalmFit
<1>2. \A c \in {c1, c4, c5, c6} : c \in Calls /\ Fits(c, tr, d, b) /\ Calm(c)
  <2>1. c1 \in AsideCalls /\ c4 \in AsideCalls /\ c5 \in AsideCalls /\ c6 \in AsideCalls
        BY AsideNothing, AsideService DEF Daemons, OnOff
  <2> QED BY <2>1, AsideFits DEF AsideCalls
<1>3. \A c \in {c2, hubCfg, TryResetEnv} : c \in Calls /\ Fits(c, tr, d, b) /\ Calm(c)
      BY EmptiesFit
<1>4. TryResetEnv.err = "log" /\ TryResetEnv.log = "none"
      BY DEF TryResetEnv, Logged, Call
<1>5. CASE tr.ev # "OnReset"
  <2>1. HandleReset(tr, d) = <<>>
        BY <1>5 DEF HandleReset
  <2>2. <<>> \in Seq(AsideCalls)
        OBVIOUS
  <2> QED BY <2>1, <2>2, <1>5, AsideHandles DEF Erasing
<1>6. CASE tr.ev = "OnReset" /\ DeviceType = "hub"
  <2>2. HandleReset(tr, d) = P \o h
        BY <1>6 DEF HandleReset, ResetHub
  <2> HIDE DEF P, c1, c6, hubCfg
  <2>1. CalmFit(h, tr, d, b)
    <3>1. /\ h \in Seq(Calls) /\ Len(h) = 4
          /\ h[1] = c1 /\ h[2] = hubCfg /\ h[3] = c6 /\ h[4] = TryResetEnv
          BY <1>2, <1>3
    <3> HIDE DEF h
    <3> QED BY <3>1, <1>2, <1>3 DEF CalmFit
  <2> HIDE DEF h
  <2>3. CalmFit(P \o h, tr, d, b)
        BY <1>1, <2>1, CalmFitAppend
  <2> QED BY <2>2, <2>3, <1>6, CalmFitAppend DEF Handles, Erasing
<1>7. CASE tr.ev = "OnReset" /\ DeviceType # "hub"
  <2>0. Erasing(tr)
        BY <1>7, DeviceTypeAssumption DEF Erasing
  <2>1. HandleReset(tr, d) = (P \o T) \o EraseDatabase
        BY <1>7 DEF HandleReset, ResetCPE
  <2>2. cp \in Calls /\ cp.log = "checkpoint" /\ cp.err = "abort" /\ cp.set["db"] = Keep
        /\ \A r \in Special : cp.set[r] = Keep
    <3>1. \A r \in Special : NoChange[r] = Keep
          BY DomainFacts DEF NoChange, Special, Watched, Persisted
    <3> QED BY <3>1, CheckTypes DEF PlainCalls, Errs, CheckPoint, Call, Special
  <2>3. Fits(cp, tr, d, b)
        BY <2>0, <2>2 DEF Fits, Special, Watched
  <2>4. \A e : Sure(e) /\ e.log # "checkpoint" => Behind(cp, e, tr)
        BY <2>2 DEF Behind, Erasing, Late
  <2>5. Behind(cp, TryResetEnv, tr)
        BY <2>4, <1>4 DEF Sure
  <2>6. \A c \in {c1, c2, c4, c5, c6, TryResetEnv} : \A e : Behind(c, e, tr)
        BY <1>2, <1>3, CalmBehind
  <2> HIDE DEF c1, c2, c4, c5, c6, cp, hubCfg, P
  <2>7. /\ T \in Seq(Calls) /\ Len(T) = 8
        /\ T[1] = c1 /\ T[2] = c2 /\ T[3] = c1 /\ T[4] = c4 /\ T[5] = c5 /\ T[6] = c6
        /\ T[7] = cp /\ T[8] = TryResetEnv
        BY <1>2, <1>3, <2>2
  <2> HIDE DEF T
  <2>8. \A i \in 1..8 : Fits(T[i], tr, d, b)
        BY <1>2, <1>3, <2>3, <2>7
  <2>9. \A i \in 1..8 : i # 7 => \A e : Behind(T[i], e, tr)
        BY <2>6, <2>7
  <2>10. Fitting(T, tr, d, b) /\ Ordered(T, tr)
    <3>1. Fitting(T, tr, d, b)
          BY <2>7, <2>8 DEF Fitting
    <3>2. ASSUME NEW j \in 1..Len(T), NEW i \in 1..(j-1) PROVE Behind(T[i], T[j], tr)
      <4>1. i \in 1..8 /\ (i = 7 => j = 8)
            BY <2>7
      <4> QED BY <4>1, <2>5, <2>7, <2>9
    <3> QED BY <3>1, <3>2 DEF Ordered
  <2>11. P \o T \in Seq(Calls) /\ Fitting(P \o T, tr, d, b) /\ Ordered(P \o T, tr)
        BY <1>1, <2>7, <2>10, CalmFitAppend, AppendParts
  <2>12. ASSUME NEW i \in 1..Len(P \o T), NEW j \in 1..Len(EraseDatabase)
         PROVE  Behind((P \o T)[i], EraseDatabase[j], tr)
    <3>0. P \in Seq(Calls) /\ \A k \in 1..Len(P) : Calm(P[k])
          BY <1>1 DEF CalmFit
    <3>1. CASE i \in 1..Len(P)
          BY <3>1, <3>0, <2>7, CalmBehind, AppendParts
    <3>2. CASE i - Len(P) \in 1..Len(T)
      <4>0. i - Len(P) \in 1..8 /\ T \in Seq(Calls)
            BY <3>2, <2>7
      <4>1. (P \o T)[i] = T[i - Len(P)] /\ i - Len(P) \in 1..8
            BY <4>0, <3>2, <3>0
      <4>2. Sure(EraseDatabase[j]) /\ EraseDatabase[j].log # "checkpoint"
            BY <2>0, EraseDatabaseFits
      <4> QED BY <4>1, <4>2, <2>4, <2>7, <2>9
    <3> QED BY <3>0, <3>1, <3>2, <2>7, AppendParts
  <2>13. /\ EraseDatabase \in Seq(Calls) /\ Fitting(EraseDatabase, tr, d, b)
         /\ Ordered(EraseDatabase, tr)
         /\ Reaches(EraseDatabase, "db", "off") /\ Reaches(EraseDatabase, "reboot", "pending")
        BY <2>0, EraseDatabaseFits
  <2> DEFINE u == P \o T
  <2>14. /\ u \in Seq(Calls) /\ Fitting(u, tr, d, b) /\ Ordered(u, tr)
         /\ \A i \in 1..Len(u), j \in 1..Len(EraseDatabase) : Behind(u[i], EraseDatabase[j], tr)
         /\ HandleReset(tr, d) = u \o EraseDatabase
        BY <2>1, <2>11, <2>12
  <2> HIDE DEF u
  <2>15. HandleReset(tr, d) \in Seq(Calls) /\ Fitting(HandleReset(tr, d), tr, d, b)
        BY <2>13, <2>14, AppendParts, FittingAppend
  <2>16. Ordered(HandleReset(tr, d), tr)
        BY <2>13, <2>14, OrderedAppend
  <2>17. Reaches(HandleReset(tr, d), "db", "off") /\ Reaches(HandleReset(tr, d), "reboot", "pending")
        BY <2>13, <2>14, ReachesAppend
  <2> QED BY <2>15, <2>16, <2>17 DEF Handles
<1> QED BY <1>5, <1>6, <1>7

(* So does every handler.                                                  *)
LEMMA HandleFits ==
  ASSUME NEW tr \in Transitions, NEW d \in Devices, Meant(tr), NEW b
  PROVE  Handles(Handle(tr, d), tr, d, b)
<1>1. tr.to \in {"init", "active", "update_config", "maintenance", "ztp_setup", "reset"}
      BY DEF Transitions, AppStates
<1>2. CASE tr.to = "init"
      BY <1>2, HandleInitFits DEF Handle
<1>3. CASE tr.to = "active"
      BY <1>3, HandleActiveFits DEF Handle
<1>4. CASE tr.to = "update_config"
      BY <1>4, HandleUpdateConfigFits DEF Handle
<1>5. CASE tr.to = "maintenance"
      BY <1>5, HandleMaintenanceFits DEF Handle
<1>6. CASE tr.to = "ztp_setup"
      BY <1>6, HandleZTPSetupFits DEF Handle
<1>7. CASE tr.to = "reset"
      BY <1>7, HandleResetFits DEF Handle
<1> QED BY <1>1, <1>2, <1>3, <1>4, <1>5, <1>6, <1>7

(* What holds of the device before a leg: nothing is subscribed that the   *)
(* exit from the state would not unsubscribe.                              *)
Leaves(tr, d) ==
  /\ d["mqInit"] = "on" => d["active"] = "init" /\ tr.ev # "OnMigrateFromOldVersion"
  /\ d["mqActive"] = "on" => d["active"] = "active"

(* A leg that starts there settles.                                        *)
LEMMA LegSettles ==
  ASSUME NEW tr \in Transitions, NEW d \in Devices, NEW b, Meant(tr), Leaves(tr, d),
         d["active"] # tr.to, d["active"] = "boot" => b
  PROVE  LET s == PerformTransition(tr, d)
         IN  s \in Seq(Calls) /\ Fitting(s, tr, d, b) /\ Ordered(s, tr) /\ Settles(s, tr, d)
<1> DEFINE x == OnExit(tr, d)
           c1 == Execute(Set("state", tr.to))
           c2 == Call(Set("active", tr.to), IF d["active"] = "boot" THEN "none" ELSE "func", "never")
           u == UpdateAppState(tr, d)
           h == Handle(tr, d)
<1>1. /\ CalmFit(x, tr, d, b)
      /\ d["active"] = "active" => Reaches(x, "mqActive", "off")
      /\ d["active"] = "init" /\ tr.ev # "OnMigrateFromOldVersion" => Reaches(x, "mqInit", "off")
  <2>1. CalmFit(<<>>, tr, d, b)
        BY DEF CalmFit
  <2> QED BY <2>1, SubscribeFit DEF OnExit
<1>2. u = <<c1, c2>>
      BY DEF UpdateAppState
<1>3. /\ c1 \in Calls /\ c1.set["state"] = tr.to /\ c1.err = "abort" /\ c1.log = "activity"
      /\ \A r \in Special \ {"state"} : c1.set[r] = Keep
  <2>1. c1 \in Calls
        BY ArgumentTypes, ConfigTypes, ConfigCallTypes DEF Persisted, PlainCalls
  <2> QED BY <2>1, DomainFacts DEF Execute, Call, Set, Special, Watched, Persisted
<1>4. /\ c2 \in Calls /\ c2.set["active"] = tr.to /\ c2.inv["active"] = Keep /\ c2.err = "never"
      /\ c2.log = "func" \/ (b /\ c2.log = "none")
      /\ \A r \in (Special \cup {"ws"}) \ {"active"} : c2.set[r] = Keep
  <2>1. c2 \in Calls
        BY ArgumentTypes, ServiceCallTypes DEF ServiceResources, Logs, Errs, PlainCalls
  <2>2. c2.log = "func" \/ (b /\ c2.log = "none")
        BY DEF Call
  <2> QED BY <2>1, <2>2, DomainFacts DEF Call, Set, NoChange, Special, Watched, Persisted
<1>5. Fits(c1, tr, d, b) /\ Calm(c1)
  <2>1. \A r \in Watched \cup {"env", "db", "reboot"} : c1.set[r] = Keep
        BY <1>3 DEF Watched, Special
  <2> QED BY <1>3, <2>1 DEF Fits, Calm, Late
<1>6. Fits(c2, tr, d, b) /\ Calm(c2)
  <2>1. \A r \in {"state", "mqInit", "mqActive", "env", "db", "reboot", "ws"} : c2.set[r] = Keep
        BY <1>4 DEF Watched, Special
  <2>2. Goal("active", tr, d) = tr.to
        BY DEF Goal
  <2> QED BY <1>4, <2>1, <2>2 DEF Fits, Calm, Late, Watched
<1> HIDE DEF c1, c2
<1>7. CalmFit(u, tr, d, b) /\ Reaches(u, "state", tr.to) /\ Reaches(u, "active", tr.to)
  <2>1. u \in Seq(Calls) /\ Len(u) = 2 /\ u[1] = c1 /\ u[2] = c2
        BY <1>2, <1>3, <1>4
  <2> QED BY <2>1, <1>3, <1>4, <1>5, <1>6 DEF CalmFit, Reaches
<1>8. Handles(h, tr, d, b)
      BY HandleFits
<1> HIDE DEF x, u, h
<1> DEFINE y == x \o u
           s == y \o h
<1>9. CalmFit(y, tr, d, b) /\ x \in Seq(Calls) /\ u \in Seq(Calls) /\ h \in Seq(Calls)
      BY <1>1, <1>7, <1>8, CalmFitAppend DEF Handles, CalmFit
<1>10. y \in Seq(Calls)
      BY <1>9 DEF CalmFit
<1>11. \A r, v : Reaches(x, r, v) \/ Reaches(u, r, v) => Reaches(y, r, v)
      BY <1>9, ReachesAppend
<1> HIDE DEF y
<1>12. s \in Seq(Calls) /\ Fitting(s, tr, d, b) /\ Ordered(s, tr)
      BY <1>8, <1>9, <1>10, CalmFitAppend, AppendParts DEF Handles
<1>13. \A r, v : Reaches(y, r, v) \/ Reaches(h, r, v) => Reaches(s, r, v)
      BY <1>9, <1>10, ReachesAppend
<1>14. Refuses(h) => Refuses(s)
      BY <1>9, <1>10, ReachesAppend
<1>15. PerformTransition(tr, d) = s
      BY DEF PerformTransition, x, u, h, y
<1> HIDE DEF s
<1>16. Settles(s, tr, d)
  <2>1. ASSUME ~Refuses(s)
        PROVE  \A r \in Watched : d[r] = Goal(r, tr, d) \/ Reaches(s, r, Goal(r, tr, d))
    <3>1. Reaches(s, "active", tr.to)
          BY <1>7, <1>11, <1>13
    <3>2. d["mqInit"] \in OnOff /\ d["mqActive"] \in OnOff
          BY DomainFacts DEF Devices
    <3>3. CASE tr.to = "active"
      <4>1. Reaches(s, "mqActive", "on")
            BY <3>3, <2>1, <1>8, <1>13, <1>14 DEF Handles
      <4>2. d["mqInit"] = "off" \/ Reaches(s, "mqInit", "off")
            BY <3>2, <1>1, <1>11, <1>13 DEF OnOff, Leaves
      <4> QED BY <3>1, <3>3, <4>1, <4>2 DEF Goal, Watched
    <3>4. CASE tr.to = "init" /\ ~Migrates(tr, d)
      <4>1. Reaches(s, "mqInit", "on")
            BY <3>4, <1>8, <1>13 DEF Handles
      <4>2. d["mqActive"] = "off" \/ Reaches(s, "mqActive", "off")
            BY <3>2, <1>1, <1>11, <1>13 DEF OnOff, Leaves
      <4> QED BY <3>1, <3>4, <4>1, <4>2 DEF Goal, Watched
    <3>5. CASE tr.to # "active" /\ ~(tr.to = "init" /\ ~Migrates(tr, d))
      <4>1. d["mqActive"] = "off" \/ Reaches(s, "mqActive", "off")
            BY <3>2, <1>1, <1>11, <1>13 DEF OnOff, Leaves
      <4>2. d["mqInit"] = "off" \/ Reaches(s, "mqInit", "off")
            BY <3>2, <1>1, <1>11, <1>13 DEF OnOff, Leaves
      <4> QED BY <3>1, <3>5, <4>1, <4>2 DEF Goal, Watched
    <3> QED BY <3>3, <3>4, <3>5
  <2>2. Reaches(s, "state", tr.to)
        BY <1>7, <1>11, <1>13
  <2>3. Erasing(tr) => Reaches(s, "db", "off") /\ Reaches(s, "reboot", "pending")
        BY <1>8, <1>13 DEF Handles
  <2> QED BY <2>1, <2>2, <2>3 DEF Settles
<1> QED BY <1>12, <1>15, <1>16

-----------------------------------------------------------------------------
(* The calls of a leg one by one.                                          *)

(* The parts of a sequence of calls.                                       *)
LEMMA TailParts ==
  ASSUME NEW s \in Seq(Calls), s # <<>>
  PROVE  /\ Head(s) \in Calls /\ Tail(s) \in Seq(Calls)
         /\ 1 \in 1..Len(s) /\ Head(s) = s[1]
         /\ \A i \in 1..Len(Tail(s)) : i+1 \in 1..Len(s) /\ Tail(s)[i] = s[i+1]
         /\ \A k \in 1..Len(s) : k = 1 \/ (k-1 \in 1..Len(Tail(s)) /\ Tail(s)[k-1] = s[k])
OBVIOUS

(* What holds of the calls of a leg holds of the rest of them.             *)
LEMMA TailFits ==
  ASSUME NEW s \in Seq(Calls), s # <<>>, NEW tr, NEW d, NEW b
  PROVE  /\ Fitting(s, tr, d, b) => Fits(Head(s), tr, d, b) /\ Fitting(Tail(s), tr, d, b)
         /\ Ordered(s, tr) =>
              /\ Ordered(Tail(s), tr)
              /\ \A i \in 1..Len(Tail(s)) : Behind(Head(s), Tail(s)[i], tr)
         /\ (\A i \in 1..Len(s) : Sure(s[i])) =>
              Sure(Head(s)) /\ \A i \in 1..Len(Tail(s)) : Sure(Tail(s)[i])
<1> DEFINE c == Head(s)
           t == Tail(s)
<1>1. /\ 1 \in 1..Len(s) /\ c = s[1] /\ Len(s) \in Nat /\ Len(t) \in Nat
      /\ \A i \in 1..Len(t) : i+1 \in 1..Len(s) /\ t[i] = s[i+1]
      BY TailParts
<1> HIDE DEF c, t
<1>2. ASSUME Fitting(s, tr, d, b) PROVE Fits(c, tr, d, b) /\ Fitting(t, tr, d, b)
      BY <1>1, <1>2 DEF Fitting
<1>3. ASSUME Ordered(s, tr) PROVE Ordered(t, tr)
  <2> SUFFICES ASSUME NEW j \in 1..Len(t), NEW i \in 1..(j-1) PROVE Behind(t[i], t[j], tr)
      BY DEF Ordered
  <2>1. j \in Nat /\ i \in Nat /\ i \in 1..Len(t)
        BY <1>1
  <2>2. i+1 \in 1..((j+1)-1) /\ j+1 \in 1..Len(s)
        BY <2>1, <1>1
  <2> QED BY <2>1, <2>2, <1>1, <1>3 DEF Ordered
<1>4. ASSUME Ordered(s, tr), NEW i \in 1..Len(t) PROVE Behind(c, t[i], tr)
  <2>1. i+1 \in 1..Len(s) /\ 1 \in 1..((i+1)-1)
        BY <1>1
  <2> QED BY <2>1, <1>1, <1>4 DEF Ordered
<1>5. ASSUME \A i \in 1..Len(s) : Sure(s[i])
      PROVE  Sure(c) /\ \A i \in 1..Len(t) : Sure(t[i])
      BY <1>1, <1>5
<1> QED BY <1>2, <1>3, <1>4, <1>5 DEF c, t

(* What the rest reaches, refuses or closes, the whole does.               *)
LEMMA TailReaches ==
  ASSUME NEW s \in Seq(Calls), s # <<>>
  PROVE  /\ \A r, v : Reaches(s, r, v) => Head(s).set[r] = v \/ Reaches(Tail(s), r, v)
         /\ Refuses(s) => Head(s).err = "refuse" \/ Refuses(Tail(s))
         /\ CheckPointed(Tail(s)) \/ Head(s).log = "checkpoint" => CheckPointed(s)
<1> DEFINE c == Head(s)
           t == Tail(s)
<1>1. /\ 1 \in 1..Len(s) /\ c = s[1]
      /\ \A i \in 1..Len(t) : i+1 \in 1..Len(s) /\ t[i] = s[i+1]
      /\ \A k \in 1..Len(s) : k = 1 \/ (k-1 \in 1..Len(t) /\ t[k-1] = s[k])
      BY TailParts
<1> HIDE DEF c, t
<1>2. ASSUME NEW r, NEW v, NEW k \in 1..Len(s), s[k].set[r] = v
      PROVE  c.set[r] = v \/ Reaches(t, r, v)
  <2>1. CASE k = 1
        BY <2>1, <1>1, <1>2
  <2>2. CASE k-1 \in 1..Len(t) /\ t[k-1] = s[k]
        BY <2>2, <1>2 DEF Reaches
  <2> QED BY <2>1, <2>2, <1>1
<1>3. ASSUME NEW k \in 1..Len(s), s[k].err = "refuse"
      PROVE  c.err = "refuse" \/ Refuses(t)
  <2>1. CASE k = 1
        BY <2>1, <1>1, <1>3
  <2>2. CASE k-1 \in 1..Len(t) /\ t[k-1] = s[k]
        BY <2>2, <1>3 DEF Refuses
  <2> QED BY <2>1, <2>2, <1>1
<1>4. ASSUME CheckPointed(t) PROVE CheckPointed(s)
  <2>1. PICK i \in 1..Len(t) : t[i].log = "checkpoint"
        BY <1>4 DEF CheckPointed
  <2> QED BY <2>1, <1>1 DEF CheckPointed
<1>5. ASSUME c.log = "checkpoint" PROVE CheckPointed(s)
      BY <1>1, <1>5 DEF CheckPointed
<1> QED BY <1>2, <1>3, <1>4, <1>5 DEF Reaches, Refuses, c, t

(* The goals of a leg do not change on the way.                            *)
LEMMA GoalsStay ==
  ASSUME NEW tr, NEW d, NEW e, tr.to = "reset" \/ e["env"] = d["env"]
  PROVE  /\ \A r \in Watched : Goal(r, tr, e) = Goal(r, tr, d)
         /\ \A s, b : Fitting(s, tr, d, b) => Fitting(s, tr, e, b)
<1>1. Migrates(tr, e) = Migrates(tr, d)
      BY DEF Migrates
<1>2. \A r \in Watched : Goal(r, tr, e) = Goal(r, tr, d)
      BY <1>1 DEF Goal, Watched
<1>3. ASSUME NEW c, NEW b, Fits(c, tr, d, b) PROVE Fits(c, tr, e, b)
      BY <1>2, <1>3 DEF Fits
<1> QED BY <1>2, <1>3 DEF Fitting

(* What a leg has reached once its calls are through.                      *)
Settled(tr, d) ==
  /\ \A r \in Watched : d[r] = Goal(r, tr, d)
  /\ tr.to # "reset" => d["state"] = tr.to
  /\ Erasing(tr) => d["db"] = "off" /\ d["reboot"] # None

(* When no calls are left, the leg has settled.                            *)
LEMMA SettledIs ==
  ASSUME NEW tr, NEW d
  PROVE  /\ Settles(<<>>, tr, d) <=> Settled(tr, d)
         /\ ~CheckPointed(<<>>) /\ Ordered(<<>>, tr) /\ \A b : Fitting(<<>>, tr, d, b)
<1>1. \A r, v : ~Reaches(<<>>, r, v)
      BY DEF Reaches
<1>2. ~Refuses(<<>>)
      BY DEF Refuses
<1>3. ~CheckPointed(<<>>) /\ Ordered(<<>>, tr) /\ \A b : Fitting(<<>>, tr, d, b)
      BY DEF CheckPointed, Ordered, Fitting
<1> QED BY <1>1, <1>2, <1>3 DEF Settles, Settled

(* A goal is a value, never a patch's Keep.                                *)
LEMMA GoalValues ==
  ASSUME NEW tr \in Transitions, NEW d
  PROVE  tr.to # Keep /\ \A r \in Watched : Goal(r, tr, d) # Keep
<1>1. tr.to # Keep
      BY DEF Transitions, AppStates, Keep
<1>2. "on" # Keep /\ "off" # Keep
      BY DEF Keep
<1>3. /\ Goal("active", tr, d) = tr.to
      /\ Goal("mqActive", tr, d) = IF tr.to = "active" THEN "on" ELSE "off"
      /\ Goal("mqInit", tr, d) = IF tr.to = "init" /\ ~Migrates(tr, d) THEN "on" ELSE "off"
      BY DEF Goal
<1> QED BY <1>1, <1>2, <1>3 DEF Watched

(* A call that is made.                                                    *)
LEMMA SettlesOn ==
  ASSUME NEW s \in Seq(Calls), s # <<>>, NEW tr \in Transitions, NEW d \in Devices, NEW b,
         Fitting(s, tr, d, b), Settles(s, tr, d),
         Head(s).err # "refuse", Head(s).set["db"] # "on"
  PROVE  LET e == Apply(Head(s).set, d)
         IN  Settles(Tail(s), tr, e) /\ (tr.to = "reset" \/ e["env"] = d["env"])
<1> DEFINE c == Head(s)
           t == Tail(s)
           e == Apply(c.set, d)
<1>1. /\ c \in Calls /\ Fits(c, tr, d, b)
      /\ \A r, v : Reaches(s, r, v) => c.set[r] = v \/ Reaches(t, r, v)
      /\ Refuses(s) => c.err = "refuse" \/ Refuses(t)
      BY TailParts, TailFits, TailReaches
<1>2. \A r \in Resources : e[r] = IF c.set[r] = Keep THEN d[r] ELSE c.set[r]
      BY DEF Apply
<1>3. Special \subseteq Resources
      BY DEF Special, Watched, Resources, Persisted, Volatile
<1>4. c.err # "refuse" /\ c.set["db"] # "on"
      OBVIOUS
<1> HIDE DEF c, t, e
<1>5. tr.to = "reset" \/ e["env"] = d["env"]
      BY <1>1, <1>2, <1>3 DEF Fits, Special
<1>6. \A r \in Watched : Goal(r, tr, e) = Goal(r, tr, d)
      BY <1>5, GoalsStay
<1>7. Refuses(s) => Settles(t, tr, e)
      BY <1>1, <1>4 DEF Settles
<1>8. ASSUME ~Refuses(s) PROVE Settles(t, tr, e)
  <2>1. ASSUME NEW r \in Watched
        PROVE  e[r] = Goal(r, tr, e) \/ Reaches(t, r, Goal(r, tr, e))
    <3>1. r \in Special /\ r \in Resources /\ Goal(r, tr, d) # Keep
          BY <1>3, GoalValues DEF Special
    <3>2. c.set[r] # Keep => c.set[r] = Goal(r, tr, d)
          BY <1>1 DEF Fits
    <3>3. d[r] = Goal(r, tr, d) \/ Reaches(s, r, Goal(r, tr, d))
          BY <1>8 DEF Settles
    <3> QED BY <3>1, <3>2, <3>3, <1>1, <1>2, <1>6
  <2>2. ASSUME tr.to # "reset"
        PROVE  e["state"] = tr.to \/ Reaches(t, "state", tr.to)
    <3>1. "state" \in Resources /\ tr.to # Keep
          BY <1>3, GoalValues DEF Special
    <3>2. c.set["state"] # Keep => c.set["state"] = tr.to
          BY <1>1, <2>2 DEF Fits
    <3>3. d["state"] = tr.to \/ Reaches(s, "state", tr.to)
          BY <1>8, <2>2 DEF Settles
    <3> QED BY <3>1, <3>2, <3>3, <1>1, <1>2
  <2>3. ASSUME Erasing(tr)
        PROVE  /\ e["db"] = "off" \/ Reaches(t, "db", "off")
               /\ e["reboot"] # None \/ Reaches(t, "reboot", "pending")
    <3>1. /\ "db" \in Resources /\ "reboot" \in Resources
          /\ c.set["db"] \in Domain("db") \cup {Keep} /\ Domain("db") = OnOff
          BY <1>1, <1>3, DomainFacts DEF Special, Calls, Patches
    <3>2. c.set["db"] = Keep \/ c.set["db"] = "off"
          BY <3>1, <1>4 DEF OnOff
    <3>3. c.set["reboot"] = Keep \/ c.set["reboot"] = "pending"
          BY <1>1 DEF Fits
    <3>4. /\ d["db"] = "off" \/ Reaches(s, "db", "off")
          /\ d["reboot"] # None \/ Reaches(s, "reboot", "pending")
          BY <1>8, <2>3 DEF Settles
    <3>5. "off" # Keep /\ "pending" # Keep /\ "pending" # None
          BY DEF Keep, None
    <3>6. e["db"] = "off" \/ Reaches(t, "db", "off")
          BY <3>1, <3>2, <3>4, <3>5, <1>1, <1>2
    <3>7. e["reboot"] # None \/ Reaches(t, "reboot", "pending")
          BY <3>1, <3>3, <3>4, <3>5, <1>1, <1>2
    <3> QED BY <3>6, <3>7
  <2> QED BY <2>1, <2>2, <2>3 DEF Settles
<1> QED BY <1>5, <1>7, <1>8 DEF c, t, e

(* What two devices have in common where the leg looks.                    *)
Alike(d, e) ==
  /\ \A r \in Special \ {"reboot"} : e[r] = d[r]
  /\ d["reboot"] # None => e["reboot"] # None

(* A device that looks the same to the leg settles the same.               *)
LEMMA SettlesAlike ==
  ASSUME NEW s, NEW tr, NEW d, NEW e, Alike(d, e)
  PROVE  /\ Settles(s, tr, d) => Settles(s, tr, e)
         /\ \A b : Fitting(s, tr, d, b) => Fitting(s, tr, e, b)
<1>1. /\ \A r \in Watched \cup {"state", "env", "db"} : e[r] = d[r]
      /\ d["reboot"] # None => e["reboot"] # None
      BY DEF Alike, Special, Watched
<1>2. /\ \A r \in Watched : Goal(r, tr, e) = Goal(r, tr, d)
      /\ \A b : Fitting(s, tr, d, b) => Fitting(s, tr, e, b)
      BY <1>1, GoalsStay
<1> QED BY <1>1, <1>2 DEF Settles

(* A call that fails, and whose error is only logged.                      *)
LEMMA SettlesOver ==
  ASSUME NEW s \in Seq(Calls), s # <<>>, NEW tr \in Transitions, NEW d, NEW b,
         Fitting(s, tr, d, b), Settles(s, tr, d), Head(s).err = "log"
  PROVE  Settles(Tail(s), tr, d)
<1> DEFINE c == Head(s)
           t == Tail(s)
<1>1. /\ Fits(c, tr, d, b)
      /\ \A r, v : Reaches(s, r, v) => c.set[r] = v \/ Reaches(t, r, v)
      /\ Refuses(s) => c.err = "refuse" \/ Refuses(t)
      /\ c.err = "log"
      BY TailFits, TailReaches
<1> HIDE DEF c, t
<1>2. /\ \A r \in Watched : c.set[r] = Keep
      /\ c.set["state"] # Keep => tr.to = "reset"
      /\ c.set["db"] = Keep /\ c.set["reboot"] = Keep
      BY <1>1 DEF Fits
<1>3. "off" # Keep /\ "pending" # Keep /\ tr.to # Keep /\ \A r \in Watched : Goal(r, tr, d) # Keep
      BY GoalValues DEF Keep
<1> QED BY <1>1, <1>2, <1>3 DEF Settles, c, t

(* From a checkpoint of the update on, or where the handler may stop, the  *)
(* leg has reached its goals.                                              *)
LEMMA SettlesLate ==
  ASSUME NEW s \in Seq(Calls), s # <<>>, NEW tr \in Transitions, NEW d, NEW b,
         Fitting(s, tr, d, b), Ordered(s, tr), Settles(s, tr, d),
         Late(Head(s)), tr.to = "maintenance"
  PROVE  Settled(tr, d)
<1> DEFINE c == Head(s)
           t == Tail(s)
<1>1. /\ Fits(c, tr, d, b) /\ Fitting(t, tr, d, b)
      /\ \A i \in 1..Len(t) : Behind(c, t[i], tr)
      /\ \A r, v : Reaches(s, r, v) => c.set[r] = v \/ Reaches(t, r, v)
      /\ Refuses(s) => c.err = "refuse" \/ Refuses(t)
      /\ Late(c)
      BY TailFits, TailReaches
<1> HIDE DEF c, t
<1>2. ~Refuses(s)
      BY <1>1 DEF Fits, Fitting, Refuses
<1>3. \A r \in Special : c.set[r] = Keep /\ \A i \in 1..Len(t) : t[i].set[r] = Keep
      BY <1>1 DEF Fits, Behind
<1>4. ASSUME NEW r \in Special, NEW v, v # Keep PROVE ~Reaches(s, r, v)
      BY <1>1, <1>3, <1>4 DEF Reaches
<1>5. tr.to # Keep /\ "state" \in Special /\ \A r \in Watched : r \in Special /\ Goal(r, tr, d) # Keep
      BY GoalValues DEF Special
<1> QED BY <1>2, <1>4, <1>5 DEF Settles, Settled, Erasing

-----------------------------------------------------------------------------
(* What the rollbacks restore, resource by resource.                       *)

(* The resources the invariant is about, and the empty transaction.        *)
LEMMA WatchedFacts ==
  /\ Watched \subseteq Resources /\ Special \subseteq Resources /\ "state" \in Resources
  /\ \A r \in Watched : r \in Special /\ r # "state" /\ r # "db"
  /\ "state" \in Persisted /\ "state" \in Special
  /\ \A r \in Special : NoTx.undo[r] = Keep /\ NoTx.mem[r] = Keep
BY DEF Special, Watched, Resources, Persisted, Volatile, NoTx, NoChange

(* The device after a rollback, and the one before its checkpoint.         *)
LEMMA BackAt ==
  ASSUME LogsApart, MemHasNoConfig
  PROVE  /\ \A r \in Watched :
              /\ Undone[r] = IF tx.mem[r] = Keep THEN dev[r] ELSE tx.mem[r]
              /\ Started[r] = IF sealed.mem[r] = Keep THEN Undone[r] ELSE sealed.mem[r]
         /\ Undone["state"] = IF tx.undo["state"] = Keep THEN dev["state"] ELSE tx.undo["state"]
         /\ Started["state"] = IF sealed.undo["state"] = Keep THEN Undone["state"] ELSE sealed.undo["state"]
<1>1. /\ \A r \in Watched : r \in Resources /\ tx.undo[r] = Keep /\ sealed.undo[r] = Keep
      /\ "state" \in Resources /\ tx.mem["state"] = Keep /\ sealed.mem["state"] = Keep
      BY WatchedFacts DEF LogsApart, MemHasNoConfig
<1> QED BY <1>1 DEF Undone, Started, Apply

(* The same in the next state.                                             *)
LEMMA BackAtNext ==
  ASSUME LogsApart', MemHasNoConfig'
  PROVE  /\ \A r \in Watched :
              /\ Undone'[r] = IF tx'.mem[r] = Keep THEN dev'[r] ELSE tx'.mem[r]
              /\ Started'[r] = IF sealed'.mem[r] = Keep THEN Undone'[r] ELSE sealed'.mem[r]
         /\ Undone'["state"] = IF tx'.undo["state"] = Keep THEN dev'["state"] ELSE tx'.undo["state"]
         /\ Started'["state"] = IF sealed'.undo["state"] = Keep THEN Undone'["state"] ELSE sealed'.undo["state"]
<1>1. /\ \A r \in Watched : r \in Resources /\ tx'.undo[r] = Keep /\ sealed'.undo[r] = Keep
      /\ "state" \in Resources /\ tx'.mem["state"] = Keep /\ sealed'.mem["state"] = Keep
      BY WatchedFacts DEF LogsApart, MemHasNoConfig
<1> QED BY <1>1 DEF Undone, Started, Apply

(* Devices with the same watched resources rest alike.                     *)
LEMMA RestedAlike ==
  ASSUME NEW d, NEW e, \A r \in Watched : e[r] = d[r], NEW cut, Rested(d, cut)
  PROVE  Rested(e, cut)
BY DEF Rested, Subjects, Watched

(* One call.                                                               *)
LEMMA StepFacts ==
  ASSUME AtomicInv, RestInv, Step
  PROVE  /\ todo \in Seq(Calls) /\ todo # <<>> /\ leg \in Transitions
         /\ dev \in Devices /\ tx \in [undo : Patches, mem : Patches]
         /\ Head(todo) \in Calls /\ Fits(Head(todo), leg, dev, booting)
         /\ Head(todo).set["db"] # "on" /\ Head(todo).err # "refuse"
         /\ \A r \in Resources : dev'[r] = IF Head(todo).set[r] = Keep THEN dev[r] ELSE Head(todo).set[r]
         /\ phase = "leg" /\ phase' = "leg"
<1>1. /\ todo \in Seq(Calls) /\ todo # <<>> /\ leg \in Transitions /\ dev \in Devices
      /\ tx \in [undo : Patches, mem : Patches]
      BY DEF AtomicInv, TypeOK, Step
<1>2. Fitting(todo, leg, dev, booting)
      BY DEF RestInv, InLeg, Step
<1>3. Head(todo) \in Calls /\ Fits(Head(todo), leg, dev, booting)
      BY <1>1, <1>2, TailParts, TailFits
<1>4. Head(todo).set["db"] # "on"
      BY <1>1, TailGuarded DEF AtomicInv, CallsAreGuarded, Tame
<1>5. Head(todo).err # "refuse"
      BY DEF Step, Refused
<1>6. \A r \in Resources : dev'[r] = IF Head(todo).set[r] = Keep THEN dev[r] ELSE Head(todo).set[r]
      BY DEF Step, Apply
<1> QED BY <1>1, <1>3, <1>4, <1>5, <1>6 DEF Step

(* A call never logs a watched resource in the database.                   *)
LEMMA StepLogsApart ==
  ASSUME AtomicInv, RestInv, Step
  PROVE  LogsApart'
<1> DEFINE c == Head(todo)
<1>1. /\ \A r \in Watched \cup {"db"} :
           /\ r \in Resources /\ tx.undo[r] = Keep /\ sealed.undo[r] = Keep /\ NoTx.undo[r] = Keep
      BY WatchedFacts DEF RestInv, LogsApart, Special
<1>2. \A r \in Watched \cup {"db"} : c.log = "activity" => c.set[r] = Keep
      BY StepFacts DEF Fits
<1>3. tx \in [undo : Patches, mem : Patches]
      BY StepFacts
<1>4. CASE c.log = "activity"
  <2>1. tx'.undo = Record(c, tx.undo, dev) /\ sealed' = sealed
        BY <1>3, <1>4 DEF Step
  <2> QED BY <2>1, <1>1, <1>2, <1>4 DEF Record, LogsApart
<1>5. CASE c.log = "checkpoint"
      BY <1>1, <1>5 DEF Step, LogsApart
<1>6. CASE c.log \notin {"activity", "checkpoint"}
  <2>1. tx'.undo = tx.undo /\ sealed' = sealed
        BY <1>3, <1>6 DEF Step
  <2> QED BY <2>1, <1>1 DEF LogsApart
<1> QED BY <1>4, <1>5, <1>6

(* A call of the transaction does not change what it would go back to.     *)
LEMMA StepGoesBack ==
  ASSUME AtomicInv, RestInv, Step, LogsApart', MemHasNoConfig', ~booting,
         Head(todo).log # "checkpoint"
  PROVE  /\ \A r \in Watched : Undone'[r] = Undone[r] /\ Started'[r] = Started[r]
         /\ dev["db"] = "on" =>
              Undone'["state"] = Undone["state"] /\ Started'["state"] = Started["state"]
<1> DEFINE c == Head(todo)
<1>1. sealed' = sealed /\ tx \in [undo : Patches, mem : Patches] /\ LogsApart /\ MemHasNoConfig
      BY StepFacts DEF Step, RestInv, AtomicInv
<1>2. ASSUME NEW r \in Watched PROVE Undone'[r] = Undone[r]
  <2>1. r \in Resources /\ dev[r] # Keep
        BY WatchedFacts, KeepIsNoValue, StepFacts DEF Devices
  <2>2. dev'[r] = IF c.set[r] = Keep THEN dev[r] ELSE c.set[r]
        BY <2>1, StepFacts
  <2>3. CASE c.set[r] = Keep
    <3>1. tx'.mem[r] = tx.mem[r]
      <4>1. CASE c.log = "func"
        <5>1. tx'.mem = Record(c, tx.mem, dev)
              BY <4>1, <1>1 DEF Step
        <5> QED BY <5>1, <2>1, <2>3 DEF Record
      <4>2. CASE c.log # "func"
            BY <4>2, <1>1 DEF Step
      <4> QED BY <4>1, <4>2
    <3> QED BY <3>1, <2>2, <2>3, <1>1, BackAt, BackAtNext
  <2>4. CASE c.set[r] # Keep
    <3>1. c.log = "func" /\ c.inv[r] = Keep
          BY <2>4, StepFacts DEF Fits
    <3>2. tx'.mem = Record(c, tx.mem, dev)
          BY <3>1, <1>1 DEF Step
    <3>3. tx'.mem[r] = IF tx.mem[r] # Keep THEN tx.mem[r] ELSE dev[r]
          BY <3>1, <3>2, <2>1, <2>4 DEF Record
    <3> QED BY <3>3, <2>1, <1>1, BackAt, BackAtNext
  <2> QED BY <2>3, <2>4
<1>3. ASSUME NEW r \in Watched PROVE Started'[r] = Started[r]
      BY <1>1, <1>2, <1>3, BackAt, BackAtNext
<1>4. ASSUME dev["db"] = "on" PROVE Undone'["state"] = Undone["state"]
  <2>1. "state" \in Resources /\ "state" \in Persisted /\ dev["state"] # Keep
        BY WatchedFacts, KeepIsNoValue, StepFacts DEF Devices
  <2>2. dev'["state"] = IF c.set["state"] = Keep THEN dev["state"] ELSE c.set["state"]
        BY <2>1, StepFacts
  <2>3. Recorded(c)
        BY <1>4, StepFacts, TailGuarded DEF AtomicInv, CallsAreGuarded
  <2>4. CASE c.log = "activity"
    <3>1. tx'.undo = Record(c, tx.undo, dev) /\ c.inv["state"] = Keep
          BY <2>1, <2>3, <2>4, <1>1 DEF Step, Recorded
    <3>2. tx'.undo["state"] = IF c.set["state"] = Keep \/ tx.undo["state"] # Keep
                              THEN tx.undo["state"] ELSE dev["state"]
          BY <3>1, <2>1 DEF Record
    <3> QED BY <3>2, <2>1, <2>2, <1>1, BackAt, BackAtNext
  <2>5. CASE c.log # "activity"
    <3>1. tx'.undo = tx.undo /\ c.set["state"] = Keep
          BY <2>1, <2>3, <2>5, <1>1 DEF Step, Recorded
    <3> QED BY <3>1, <2>2, <1>1, BackAt, BackAtNext
  <2> QED BY <2>4, <2>5
<1>5. ASSUME dev["db"] = "on" PROVE Started'["state"] = Started["state"]
      BY <1>1, <1>4, <1>5, BackAt, BackAtNext
<1> QED BY <1>2, <1>3, <1>4, <1>5

(* A checkpoint seals what the transaction would go back to.               *)
LEMMA StepSeals ==
  ASSUME AtomicInv, RestInv, Step, LogsApart', MemHasNoConfig', ~booting,
         Head(todo).log = "checkpoint"
  PROVE  CanGoBack'
<1> DEFINE c == Head(todo)
<1>1. /\ tx' = NoTx /\ sealed' = tx /\ stranded' = stranded /\ todo' = Tail(todo) /\ leg' = leg
      /\ tx \in [undo : Patches, mem : Patches] /\ LogsApart /\ MemHasNoConfig
      BY StepFacts DEF Step, RestInv, AtomicInv
<1>2. CheckPointed(todo)
      BY StepFacts, TailReaches
<1>3. /\ sealed = NoTx /\ Rested(Started, stranded)
      /\ dev["db"] = "on" => Started["state"] = Started["active"]
      BY <1>2, StepFacts DEF RestInv, CanGoBack
<1>4. Late(c) /\ \A r \in Special : c.set[r] = Keep
      BY StepFacts DEF Fits, Late
<1>5. \A r \in Special : dev'[r] = dev[r]
      BY <1>4, WatchedFacts, StepFacts
<1>6. /\ \A r \in Watched : Undone'[r] = dev[r] /\ Started'[r] = Undone[r] /\ Started[r] = Undone[r]
      /\ Undone'["state"] = dev["state"] /\ Started'["state"] = Undone["state"]
      /\ Started["state"] = Undone["state"]
  <2>1. \A r \in Watched : Undone'[r] = dev[r] /\ Started'[r] = Undone[r] /\ Started[r] = Undone[r]
        BY <1>1, <1>3, <1>5, WatchedFacts, BackAt, BackAtNext
  <2>2. /\ Undone'["state"] = dev["state"] /\ Started'["state"] = Undone["state"]
        /\ Started["state"] = Undone["state"]
        BY <1>1, <1>3, <1>5, WatchedFacts, BackAt, BackAtNext
  <2> QED BY <2>1, <2>2
<1>7. Rested(Started', stranded')
      BY <1>1, <1>3, <1>6, RestedAlike
<1>8. dev'["db"] = "on" => Started'["state"] = Started'["active"]
  <2>1. dev'["db"] = dev["db"] /\ "active" \in Watched
        BY <1>5 DEF Special, Watched
  <2> QED BY <2>1, <1>3, <1>6
<1>9. \A i \in 1..Len(Tail(todo)) : Behind(c, Tail(todo)[i], leg)
      BY StepFacts, TailFits DEF RestInv, InLeg
<1>10. ~CheckPointed(todo')
      BY <1>1, <1>9 DEF Behind, CheckPointed
<1>11. ASSUME ~Sealing'
       PROVE  Rested(Undone', stranded' \/ sealed' # NoTx) /\ Undone'["state"] = Undone'["active"]
  <2>1. leg.to = "maintenance"
    <3>1. leg.to = "maintenance" \/ Erasing(leg)
          BY StepFacts DEF Fits
    <3>2. Erasing(leg) => Sealing'
          BY <1>1, <1>9, StepFacts DEF Sealing, Behind, Erasing
    <3> QED BY <3>1, <3>2, <1>11
  <2>2. Settled(leg, dev)
        BY <1>4, <2>1, StepFacts, SettlesLate DEF RestInv, InLeg
  <2>3. dev["active"] = "maintenance" /\ dev["mqInit"] = "off" /\ dev["mqActive"] = "off"
        /\ dev["state"] = "maintenance"
        BY <2>1, <2>2 DEF Settled, Goal, Watched
  <2>4. stranded \/ tx # NoTx
    <3>1. ASSUME tx = NoTx PROVE stranded
      <4>1. Started["active"] = "maintenance"
        <5>1. "active" \in Watched /\ "active" \in Special
              BY DEF Watched, Special
        <5> QED BY <5>1, <3>1, <1>1, <1>6, <2>3, WatchedFacts, BackAt
      <4> QED BY <4>1, <1>3 DEF Rested
    <3> QED BY <3>1
  <2>5. /\ Undone'["active"] = "maintenance" /\ Undone'["mqInit"] = "off"
        /\ Undone'["mqActive"] = "off" /\ Undone'["state"] = "maintenance"
        BY <1>6, <2>3 DEF Watched
  <2> QED BY <2>4, <2>5, <1>1 DEF Rested, Subjects
<1> QED BY <1>7, <1>8, <1>10, <1>11 DEF CanGoBack

(* After a call that is made, the transaction can still go back.           *)
LEMMA StepCanGoBack ==
  ASSUME AtomicInv, RestInv, Step, LogsApart', MemHasNoConfig', ClosesAtTheEnd', ~booting,
         Head(todo).log # "checkpoint"
  PROVE  CanGoBack'
<1>1. /\ stranded' = stranded /\ todo' = Tail(todo) /\ leg' = leg /\ sealed' = sealed
      BY DEF Step
<1>2. dev["db"] \in OnOff /\ dev'["db"] \in {dev["db"], "off"}
  <2>1. "db" \in Resources /\ dev["db"] \in OnOff
        BY StepFacts, DomainFacts DEF Devices
  <2>2. Head(todo).set["db"] \in OnOff \cup {Keep}
        BY <2>1, StepFacts, DomainFacts DEF Calls, Patches
  <2> QED BY <2>1, <2>2, StepFacts DEF OnOff
<1>3. /\ \A r \in Watched : Undone'[r] = Undone[r] /\ Started'[r] = Started[r]
      /\ dev["db"] = "on" => Undone'["state"] = Undone["state"] /\ Started'["state"] = Started["state"]
      BY StepGoesBack
<1>4. /\ Rested(Started, stranded)
      /\ dev["db"] = "on" => Started["state"] = Started["active"]
      /\ ~Sealing => /\ Rested(Undone, stranded \/ sealed # NoTx)
                     /\ Undone["state"] = Undone["active"]
      /\ CheckPointed(todo) => sealed = NoTx
      BY StepFacts DEF RestInv, CanGoBack
<1>5. Rested(Started', stranded')
      BY <1>1, <1>3, <1>4, RestedAlike
<1>6. dev'["db"] = "on" => Started'["state"] = Started'["active"]
      BY <1>2, <1>3, <1>4 DEF OnOff, Watched
<1>7. ASSUME ~Sealing'
      PROVE  Rested(Undone', stranded' \/ sealed' # NoTx) /\ Undone'["state"] = Undone'["active"]
  <2>1. ~Sealing
        BY <1>1, <1>7, StepFacts, TailFits DEF Sealing
  <2>2. dev["db"] = "on"
    <3>1. dev'["db"] # "off"
          BY <1>7, StepFacts DEF ClosesAtTheEnd, Sealing, Sure
    <3> QED BY <3>1, <1>2 DEF OnOff
  <2>3. Rested(Undone', stranded \/ sealed # NoTx)
        BY <2>1, <1>3, <1>4, RestedAlike
  <2> QED BY <2>1, <2>2, <2>3, <1>1, <1>3, <1>4 DEF Watched
<1>8. CheckPointed(todo') => sealed' = NoTx
      BY <1>1, <1>4, StepFacts, TailReaches
<1> QED BY <1>5, <1>6, <1>7, <1>8 DEF CanGoBack

(* One call preserves the invariant.                                       *)
LEMMA StepRest ==
  ASSUME AtomicInv, RestInv, Step, AtomicInv'
  PROVE  RestInv'
<1> DEFINE c == Head(todo)
<1>1. LogsApart' /\ MemHasNoConfig'
      BY StepLogsApart DEF AtomicInv
<1>2. BootsClean' /\ AtRest' /\ QueueMeant'
  <2>1. queue' = queue
        BY DEF Step
  <2> QED BY <2>1, StepFacts DEF BootsClean, AtRest, QueueMeant, RestInv
<1>3. InLeg'
  <2>1. leg' = leg /\ booting' = booting /\ todo' = Tail(todo) /\ dev' = Apply(c.set, dev)
        BY DEF Step
  <2>2. /\ Meant(leg) /\ Fitting(todo, leg, dev, booting) /\ Ordered(todo, leg)
        /\ Settles(todo, leg, dev)
        BY StepFacts DEF RestInv, InLeg
  <2>3. Settles(Tail(todo), leg, dev') /\ (leg.to = "reset" \/ dev'["env"] = dev["env"])
        BY <2>1, <2>2, StepFacts, SettlesOn
  <2>4. Fitting(Tail(todo), leg, dev', booting) /\ Ordered(Tail(todo), leg)
        BY <2>2, <2>3, StepFacts, TailFits, GoalsStay
  <2> QED BY <2>1, <2>2, <2>3, <2>4 DEF InLeg
<1>4. ClosesAtTheEnd'
  <2> SUFFICES ASSUME dev'["db"] = "off"
               PROVE  Erasing(leg) /\ \A i \in 1..Len(Tail(todo)) : Tail(todo)[i].err \in {"log", "never"}
      BY StepFacts DEF ClosesAtTheEnd, Step
  <2>1. CASE dev["db"] = "off"
    <3>1. Erasing(leg) /\ \A i \in 1..Len(todo) : todo[i].err \in {"log", "never"}
          BY <2>1, StepFacts DEF RestInv, ClosesAtTheEnd
    <3> QED BY <3>1, StepFacts, TailParts
  <2>2. CASE dev["db"] # "off"
    <3>1. c.set["db"] # Keep
          BY <2>2, StepFacts, DomainFacts
    <3>2. Erasing(leg)
          BY <3>1, StepFacts DEF Fits
    <3>3. \A i \in 1..Len(Tail(todo)) : Behind(c, Tail(todo)[i], leg)
          BY StepFacts, TailFits DEF RestInv, InLeg
    <3> QED BY <3>1, <3>2, <3>3 DEF Behind
  <2> QED BY <2>1, <2>2
<1>5. CanGoBack'
  <2>1. CASE booting
    <3>1. booting'
          BY <2>1 DEF Step
    <3> QED BY <3>1 DEF CanGoBack
  <2>2. CASE ~booting
        BY <2>2, <1>1, <1>4, StepSeals, StepCanGoBack
  <2> QED BY <2>1, <2>2
<1> QED BY <1>1, <1>2, <1>3, <1>4, <1>5 DEF RestInv

(* Where the resources the leg looks at, the logs and the history are the  *)
(* same, the way back is the same.                                         *)
LEMMA SameBack ==
  ASSUME LogsApart, MemHasNoConfig, UNCHANGED <<tx, sealed>>, Alike(dev, dev')
  PROVE  /\ LogsApart'
         /\ \A r \in Watched : Undone'[r] = Undone[r] /\ Started'[r] = Started[r]
         /\ Undone'["state"] = Undone["state"] /\ Started'["state"] = Started["state"]
         /\ dev'["db"] = dev["db"]
<1>1. LogsApart' /\ MemHasNoConfig'
      BY DEF LogsApart, MemHasNoConfig
<1>2. /\ \A r \in Watched : dev'[r] = dev[r]
      /\ dev'["state"] = dev["state"] /\ dev'["db"] = dev["db"]
      BY DEF Alike, Special, Watched
<1>3. \A r \in Watched : Undone'[r] = Undone[r] /\ Started'[r] = Started[r]
      BY <1>1, <1>2, BackAt, BackAtNext
<1>4. Undone'["state"] = Undone["state"] /\ Started'["state"] = Started["state"]
      BY <1>1, <1>2, BackAt, BackAtNext
<1> QED BY <1>1, <1>2, <1>3, <1>4

(* A failing call.                                                         *)
LEMMA FailFacts ==
  ASSUME AtomicInv, RestInv, CallFails
  PROVE  /\ todo \in Seq(Calls) /\ todo # <<>> /\ leg \in Transitions
         /\ Fits(Head(todo), leg, dev, booting)
         /\ Fitting(todo, leg, dev, booting) /\ Ordered(todo, leg) /\ Settles(todo, leg, dev)
         /\ Alike(dev, dev') /\ Head(todo).err # "never"
         /\ phase = "leg" /\ leg' = leg /\ booting' = booting /\ stranded' = stranded /\ queue' = queue
<1>1. todo \in Seq(Calls) /\ todo # <<>> /\ leg \in Transitions
      BY DEF AtomicInv, TypeOK, CallFails
<1>2. Fitting(todo, leg, dev, booting) /\ Ordered(todo, leg) /\ Settles(todo, leg, dev)
      BY DEF RestInv, InLeg, CallFails
<1>3. Fits(Head(todo), leg, dev, booting)
      BY <1>1, <1>2, TailFits
<1>4. Alike(dev, dev')
  <2>1. \A r \in Special : Cleanup(Head(todo))[r] = Keep
        BY WatchedFacts DEF Cleanup, NoChange, Set, Special, Watched
  <2>2. \A r \in Special : dev'[r] = dev[r]
        BY <2>1, WatchedFacts DEF CallFails, Apply
  <2> QED BY <2>2 DEF Alike, Special
<1>5. Head(todo).err # "never"
  <2>1. Head(todo).err = "never" => Head(todo).set["ws"] = Keep
        BY <1>3 DEF Fits
  <2> QED BY <2>1 DEF CallFails, Refused, MayFail
<1> QED BY <1>1, <1>2, <1>3, <1>4, <1>5 DEF CallFails

(* The database is still open, and the leg goes back: to its start ...     *)
LEMMA RevokeRest ==
  ASSUME AtomicInv, RestInv, CallFails, AtomicInv', Head(todo).err \in {"revoke", "finish"}
  PROVE  LogsApart' /\ ClosesAtTheEnd' /\ CanGoBack'
<1> DEFINE c == Head(todo)
<1>1. /\ tx' = [undo |-> Apply(sealed.undo, tx.undo), mem |-> Apply(sealed.mem, tx.mem)]
      /\ sealed' = NoTx /\ todo' = <<>>
      BY DEF CallFails, DeleteCheckPoint
<1>2. LogsApart /\ MemHasNoConfig /\ MemHasNoConfig'
      BY DEF RestInv, AtomicInv
<1>3. LogsApart'
  <2>1. \A r \in Watched \cup {"db"} :
          r \in Resources /\ tx.undo[r] = Keep /\ sealed.undo[r] = Keep /\ NoTx.undo[r] = Keep
        BY <1>2, WatchedFacts DEF LogsApart, Special
  <2> QED BY <2>1, <1>1 DEF LogsApart, Apply
<1>4. dev["db"] # "off" /\ dev'["db"] # "off"
  <2>1. dev["db"] # "off"
    <3>1. c.err = "finish" => ~Erasing(leg)
          BY FailFacts DEF Fits, Erasing
    <3>2. c.err = "revoke" => c.err \notin {"log", "never"} /\ 1 \in 1..Len(todo) /\ c = todo[1]
          BY FailFacts, TailParts
    <3> QED BY <3>1, <3>2, FailFacts DEF RestInv, ClosesAtTheEnd
  <2> QED BY <2>1, FailFacts DEF Alike, Special
<1>5. ClosesAtTheEnd'
      BY <1>4 DEF ClosesAtTheEnd
<1>6. ASSUME ~booting
      PROVE  CanGoBack'
  <2>1. /\ \A r \in Watched : dev'[r] = dev[r] /\ r \in Resources /\ NoTx.mem[r] = Keep
        /\ dev'["state"] = dev["state"] /\ "state" \in Resources /\ NoTx.undo["state"] = Keep
        BY FailFacts, WatchedFacts DEF Alike, Special, Watched
  <2>2. ASSUME NEW r \in Watched PROVE Undone'[r] = Started[r] /\ Started'[r] = Started[r]
    <3>1. tx'.mem[r] = IF sealed.mem[r] = Keep THEN tx.mem[r] ELSE sealed.mem[r]
          BY <2>1, <1>1 DEF Apply
    <3> QED BY <3>1, <2>1, <1>1, <1>2, <1>3, BackAt, BackAtNext
  <2>3. Undone'["state"] = Started["state"] /\ Started'["state"] = Started["state"]
    <3>1. tx'.undo["state"] = IF sealed.undo["state"] = Keep THEN tx.undo["state"] ELSE sealed.undo["state"]
          BY <2>1, <1>1 DEF Apply
    <3> QED BY <3>1, <2>1, <1>1, <1>2, <1>3, BackAt, BackAtNext
  <2>4. Rested(Started, stranded) /\ Started["state"] = Started["active"]
    <3>1. dev["db"] = "on"
          BY <1>4, DomainFacts DEF AtomicInv, TypeOK, Devices, OnOff
    <3> QED BY <3>1, <1>6, FailFacts DEF RestInv, CanGoBack
  <2>5. Rested(Started', stranded) /\ Rested(Undone', stranded)
        BY <2>2, <2>4, RestedAlike
  <2>6. Rested(Undone', stranded \/ sealed' # NoTx)
        BY <2>5 DEF Rested
  <2> QED BY <2>2, <2>3, <2>4, <2>5, <2>6, <1>1, FailFacts, SettledIs DEF CanGoBack, Watched
<1>7. booting => CanGoBack'
      BY FailFacts DEF CanGoBack
<1> QED BY <1>3, <1>5, <1>6, <1>7

(* ... or to where the transaction would go back to, or on.                *)
LEMMA FailRest ==
  ASSUME AtomicInv, RestInv, CallFails, AtomicInv', Head(todo).err \notin {"revoke", "finish"}
  PROVE  LogsApart' /\ ClosesAtTheEnd' /\ CanGoBack'
<1> DEFINE c == Head(todo)
<1>1. UNCHANGED <<tx, sealed>> /\ LogsApart /\ MemHasNoConfig
      BY DEF CallFails, RestInv, AtomicInv
<1>2. /\ LogsApart'
      /\ \A r \in Watched : Undone'[r] = Undone[r] /\ Started'[r] = Started[r]
      /\ Undone'["state"] = Undone["state"] /\ Started'["state"] = Started["state"]
      /\ dev'["db"] = dev["db"]
      BY <1>1, FailFacts, SameBack
<1>3. /\ c.err = "log" => todo' = Tail(todo) /\ phase' = "leg"
      /\ c.err # "log" => todo' = <<>> /\ phase' = "rollback"
      BY DEF CallFails
<1>4. c.err # "log" => ~Sure(c) /\ 1 \in 1..Len(todo) /\ c = todo[1] /\ c.err \notin {"log", "never"}
      BY FailFacts, TailParts DEF Sure
<1>5. ClosesAtTheEnd'
  <2> SUFFICES ASSUME dev["db"] = "off"
               PROVE  phase' = "leg" /\ Erasing(leg) /\ \A i \in 1..Len(todo') : todo'[i].err \in {"log", "never"}
      BY <1>2, FailFacts DEF ClosesAtTheEnd
  <2>1. Erasing(leg) /\ \A i \in 1..Len(todo) : todo[i].err \in {"log", "never"}
        BY FailFacts DEF RestInv, ClosesAtTheEnd
  <2> QED BY <2>1, <1>3, <1>4, FailFacts, TailParts
<1>6. ~Sealing' => ~Sealing
  <2>1. c.err # "log" => ~Sealing
        BY <1>4 DEF Sealing
  <2>2. c.err = "log" /\ Sealing => Sealing'
        BY <1>3, FailFacts, TailFits DEF Sealing
  <2> QED BY <2>1, <2>2
<1>7. CheckPointed(todo') => CheckPointed(todo)
      BY <1>3, FailFacts, TailReaches, SettledIs
<1>8. ASSUME ~booting PROVE CanGoBack'
  <2>1. /\ Rested(Started, stranded)
        /\ dev["db"] = "on" => Started["state"] = Started["active"]
        /\ ~Sealing => /\ Rested(Undone, stranded \/ sealed # NoTx)
                       /\ Undone["state"] = Undone["active"]
        /\ CheckPointed(todo) => sealed = NoTx
        BY <1>8, FailFacts DEF RestInv, CanGoBack
  <2>2. Rested(Started', stranded) /\ (~Sealing => Rested(Undone', stranded \/ sealed # NoTx))
        BY <2>1, <1>2, RestedAlike
  <2> QED BY <2>1, <2>2, <1>1, <1>2, <1>6, <1>7, FailFacts DEF CanGoBack, Watched
<1>9. booting => CanGoBack'
      BY FailFacts DEF CanGoBack
<1> QED BY <1>2, <1>5, <1>8, <1>9

(* A failing call keeps the invariant.                                     *)
LEMMA CallFailsRest ==
  ASSUME AtomicInv, RestInv, CallFails, AtomicInv'
  PROVE  RestInv'
<1> DEFINE c == Head(todo)
<1>1. LogsApart' /\ ClosesAtTheEnd' /\ CanGoBack'
      BY RevokeRest, FailRest
<1>2. BootsClean' /\ AtRest' /\ QueueMeant'
  <2>1. phase' \in {"leg", "rollback"}
        BY DEF CallFails
  <2> QED BY <2>1, FailFacts DEF BootsClean, AtRest, QueueMeant, RestInv
<1>3. InLeg'
  <2>1. Meant(leg)
        BY FailFacts DEF RestInv, InLeg
  <2>2. CASE c.err = "log"
    <3>1. todo' = Tail(todo)
          BY <2>2 DEF CallFails
    <3>2. Settles(Tail(todo), leg, dev) /\ Fitting(Tail(todo), leg, dev, booting) /\ Ordered(Tail(todo), leg)
          BY <2>2, FailFacts, SettlesOver, TailFits
    <3> QED BY <3>1, <3>2, <2>1, FailFacts, SettlesAlike DEF InLeg
  <2>3. CASE c.err = "finish"
    <3>1. todo' = <<>>
          BY <2>3 DEF CallFails
    <3>2. Settled(leg, dev)
          BY <2>3, FailFacts, SettlesLate DEF Fits, Late
    <3>3. Settles(<<>>, leg, dev')
          BY <3>2, FailFacts, SettledIs, SettlesAlike
    <3> QED BY <3>1, <3>3, <2>1, FailFacts, SettledIs DEF InLeg
  <2>4. CASE c.err \notin {"log", "finish"}
        BY <2>4 DEF CallFails, InLeg
  <2> QED BY <2>2, <2>3, <2>4
<1> QED BY <1>1, <1>2, <1>3 DEF RestInv

-----------------------------------------------------------------------------
(* What is asked for, and what follows.                                    *)

(* The transitions the handlers make up.                                   *)
LEMMA MeantTo ==
  /\ \A ev, to : To(ev, to).ev = ev /\ To(ev, to).to = to /\ To(ev, to).arg["state"] = Keep
  /\ \A ev, to, p : /\ With(ev, to, p).ev = ev /\ With(ev, to, p).to = to
                    /\ With(ev, to, p).arg = p
  /\ \A ev : Meant(To(ev, "init")) /\ Meant(To(ev, "active"))
  /\ NoTransition.ev = "none"
<1>1. \A ev, to : To(ev, to).ev = ev /\ To(ev, to).to = to /\ To(ev, to).arg["state"] = Keep
      BY WatchedFacts DEF To, NoChange
<1> QED BY <1>1 DEF With, Meant, NoTransition

(* What follows a leg is meant, and ends in a stable state.                *)
LEMMA FollowUpMeant ==
  ASSUME NEW tr \in Transitions, NEW d \in Devices, Meant(tr), FollowUp(tr, d) # NoTransition
  PROVE  LET f == FollowUp(tr, d)
         IN  /\ Meant(f) /\ f.to \in {"init", "active"} /\ ~Erasing(tr)
             /\ f.ev = "OnMigrateFromOldVersion" => Migrates(tr, d)
<1> DEFINE f == FollowUp(tr, d)
           m == With("OnMigrateFromOldVersion", "active", Set("serial", d["env"]))
<1>1. Meant(m) /\ m.to = "active"
  <2>1. Set("serial", d["env"])["state"] = Keep
        BY WatchedFacts DEF Set
  <2> QED BY <2>1, MeantTo DEF Meant
<1>2. \/ f = m /\ Migrates(tr, d)
      \/ \E ev \in {"OnZTPSetupFinished", "OnHubResetFinished", "OnZTPSetupInterrupted",
                    "OnInitFallback"} : f = To(ev, "init")
      \/ \E ev \in {"OnUpdateConfigFinished", "OnUpdateDeviceFinished", "OnFallback"} :
            f = To(ev, "active")
      BY DEF FollowUp, Migrates, CheckMigrateFromOldVersion
<1>3. ~Erasing(tr)
  <2> SUFFICES ASSUME Erasing(tr) PROVE FollowUp(tr, d) = NoTransition
      OBVIOUS
  <2>1. tr.ev = "OnReset" /\ DeviceType # "hub"
        BY DEF Erasing
  <2> QED BY <2>1 DEF FollowUp
<1> HIDE DEF f, m
<1>4. Meant(f) /\ f.to \in {"init", "active"}
      BY <1>1, <1>2, MeantTo
<1>5. f.ev = "OnMigrateFromOldVersion" => Migrates(tr, d)
      BY <1>2, MeantTo
<1> QED BY <1>3, <1>4, <1>5 DEF f

(* A leg nothing follows ends in a stable state or erases the device.      *)
LEMMA LastLeg ==
  ASSUME NEW tr \in Transitions, NEW d \in Devices, Meant(tr), FollowUp(tr, d) = NoTransition
  PROVE  ~Migrates(tr, d) /\ (tr.to \in {"init", "active"} \/ Erasing(tr))
<1>1. \A to : \A ev \in {"OnZTPSetupFinished", "OnUpdateConfigFinished", "OnUpdateDeviceFinished",
             "OnHubResetFinished", "OnZTPSetupInterrupted", "OnFallback", "OnInitFallback"} :
        To(ev, to) # NoTransition
      BY MeantTo
<1>2. With("OnMigrateFromOldVersion", "active", Set("serial", d["env"])) # NoTransition
      BY MeantTo
<1>3. tr.to \in {"init", "active", "update_config", "maintenance", "ztp_setup", "reset"}
      BY DEF Transitions, AppStates
<1>4. ~Migrates(tr, d)
      BY <1>2 DEF FollowUp, Migrates, CheckMigrateFromOldVersion
<1>5. tr.to # "ztp_setup"
      BY <1>1 DEF FollowUp, Meant
<1>6. tr.to # "update_config"
      BY <1>1 DEF FollowUp, Meant
<1>7. tr.to # "maintenance"
      BY <1>1 DEF FollowUp, Meant
<1>8. tr.to = "reset" => Erasing(tr)
      BY <1>1, DeviceTypeAssumption DEF FollowUp, Meant, Erasing
<1> QED BY <1>3, <1>4, <1>5, <1>6, <1>7, <1>8

(* Every request is meant.                                                 *)
LEMMA RequestsMeant ==
  \A tr \in Requests : Meant(tr) /\ tr.ev # "OnMigrateFromOldVersion"
<1>1. /\ \A v : Set("port", v)["state"] = Keep /\ Set("services", v)["state"] = Keep
      /\ \A s, p, v : Config(s, p, v)["state"] = Keep
      BY WatchedFacts DEF Set, Config, NoChange
<1>2. \A tr \in FirstSetups : Meant(tr) /\ tr.ev = "OnFirstSetup"
      BY <1>1, MeantTo DEF FirstSetups, Meant
<1>3. \A tr \in PeerUpdates \cup NetworkUpdates \cup ServiceUpdates :
        Meant(tr) /\ tr.ev = "OnUpdateConfig"
      BY <1>1, MeantTo DEF PeerUpdates, NetworkUpdates, ServiceUpdates, Meant
<1>4. \A tr \in ZTPSetups \cup HubSetups :
        Meant(tr) /\ tr.ev \in {"OnZTPSetupConfig", "OnHubSetPort", "OnHubDeletePort"}
      BY <1>1, MeantTo DEF ZTPSetups, HubSetups, Meant
<1>5. ASSUME NEW tr \in DeviceUpdates PROVE Meant(tr) /\ tr.ev = "OnUpdateDevice"
  <2>1. PICK k : tr = [To("OnUpdateDevice", "maintenance") EXCEPT !.pkg = k]
        BY DEF DeviceUpdates
  <2>2. tr.ev = "OnUpdateDevice" /\ tr.to = "maintenance" /\ tr.arg["state"] = Keep
        BY <2>1, WatchedFacts DEF To, NoChange
  <2> QED BY <2>2 DEF Meant
<1>6. \A tr \in Rebuilds \cup Resets : Meant(tr) /\ tr.ev \in {"OnRebuildServices", "OnReset"}
      BY MeantTo DEF Rebuilds, Resets, Meant
<1> QED BY <1>2, <1>3, <1>4, <1>5, <1>6 DEF Requests

-----------------------------------------------------------------------------
(* The other actions.                                                      *)

(* A leg that begins settles, or the transaction goes back at once.        *)
LEMMA BeginRest ==
  ASSUME TypeOK, NEW tr \in Transitions, Begin(tr), Meant(tr), Leaves(tr, dev),
         dev["active"] = "boot" => booting, UNCHANGED <<dev, booting>>
  PROVE  /\ InLeg' /\ phase' \in {"leg", "rollback"} /\ leg' = tr
         /\ tr.to \in {"init", "active"} => ~CheckPointed(todo')
<1>1. CASE dev["active"] # tr.to /\ ValidateTransition(dev["active"], tr.to)
  <2>1. phase' = "leg" /\ leg' = tr /\ todo' = PerformTransition(tr, dev)
        BY <1>1 DEF Begin
  <2>2. /\ todo' \in Seq(Calls) /\ Fitting(todo', tr, dev, booting) /\ Ordered(todo', tr)
        /\ Settles(todo', tr, dev)
        BY <1>1, <2>1, LegSettles DEF TypeOK
  <2>3. tr.to \in {"init", "active"} => ~CheckPointed(todo')
        BY <2>2 DEF Fitting, Fits, CheckPointed, Erasing
  <2> QED BY <2>1, <2>2, <2>3 DEF InLeg
<1>2. CASE ~(dev["active"] # tr.to /\ ValidateTransition(dev["active"], tr.to))
  <2>1. phase' = "rollback" /\ leg' = tr /\ todo' = <<>>
        BY <1>2 DEF Begin
  <2> QED BY <2>1, SettledIs DEF InLeg
<1> QED BY <1>1, <1>2

(* The oldest caller's transition, and those behind it.                    *)
LEMMA QueueTail ==
  ASSUME TypeOK, QueueMeant, queue # <<>>
  PROVE  /\ Head(queue) \in Transitions /\ Meant(Head(queue))
         /\ Head(queue).ev # "OnMigrateFromOldVersion"
         /\ queue' = Tail(queue) => QueueMeant'
<1>1. queue \in Seq(Transitions)
      BY DEF TypeOK
<1>2. /\ Head(queue) \in Transitions /\ 1 \in 1..Len(queue) /\ Head(queue) = queue[1]
      /\ \A i \in 1..Len(Tail(queue)) : i+1 \in 1..Len(queue) /\ Tail(queue)[i] = queue[i+1]
      BY <1>1
<1> QED BY <1>2 DEF QueueMeant

(* Taking a caller: the transaction starts from a device at rest.          *)
LEMMA AcceptRest ==
  ASSUME AtomicInv, RestInv, Accept, AtomicInv'
  PROVE  RestInv'
<1> DEFINE tr == Head(queue)
<1>1. /\ phase = "idle" /\ queue # <<>> /\ dev["db"] = "on" /\ Begin(tr)
      /\ queue' = Tail(queue) /\ tx' = NoTx /\ sealed' = NoTx
      /\ UNCHANGED <<dev, booting, stranded>>
      BY DEF Accept
<1>2. tr \in Transitions /\ Meant(tr) /\ tr.ev # "OnMigrateFromOldVersion" /\ QueueMeant'
      BY <1>1, QueueTail DEF AtomicInv, RestInv
<1>3. ~booting /\ Rested(dev, stranded) /\ dev["state"] = dev["active"] /\ dev["active"] # "boot"
      BY <1>1 DEF RestInv, AtRest, Rested
<1>4. dev["mqInit"] \in OnOff /\ dev["mqActive"] \in OnOff
      BY DomainFacts DEF AtomicInv, TypeOK, Devices
<1>5. Leaves(tr, dev)
      BY <1>2, <1>3, <1>4 DEF Leaves, Rested, Subjects, OnOff
<1>6. InLeg' /\ phase' \in {"leg", "rollback"}
      BY <1>1, <1>2, <1>3, <1>5, BeginRest DEF AtomicInv
<1>7. LogsApart' /\ MemHasNoConfig'
  <2>1. LogsApart'
        BY <1>1, WatchedFacts DEF LogsApart, Special
  <2> QED BY <2>1 DEF AtomicInv
<1>8. ClosesAtTheEnd' /\ BootsClean' /\ AtRest'
      BY <1>1, <1>6 DEF ClosesAtTheEnd, BootsClean, AtRest
<1>9. CanGoBack'
  <2>1. /\ \A r \in Watched : Undone'[r] = dev[r] /\ Started'[r] = dev[r]
        /\ Undone'["state"] = dev["state"] /\ Started'["state"] = dev["state"]
    <3>1. \A r \in Watched : Undone'[r] = dev[r] /\ Started'[r] = dev[r]
          BY <1>1, <1>7, WatchedFacts, BackAtNext
    <3>2. Undone'["state"] = dev["state"] /\ Started'["state"] = dev["state"]
          BY <1>1, <1>7, WatchedFacts, BackAtNext
    <3> QED BY <3>1, <3>2
  <2>2. Rested(Started', stranded') /\ Rested(Undone', stranded')
        BY <1>1, <1>3, <2>1, RestedAlike
  <2>3. Rested(Undone', stranded' \/ sealed' # NoTx)
        BY <2>2 DEF Rested
  <2> QED BY <1>1, <1>3, <2>1, <2>2, <2>3 DEF CanGoBack, Watched
<1> QED BY <1>2, <1>6, <1>7, <1>8, <1>9 DEF RestInv

(* A further leg: the transaction goes back to where the first began.      *)
LEMMA ContinueRest ==
  ASSUME AtomicInv, RestInv, Continue, AtomicInv'
  PROVE  RestInv'
<1> DEFINE f == FollowUp(leg, dev)
<1>1. /\ phase = "leg" /\ todo = <<>> /\ f # NoTransition /\ Begin(f)
      /\ UNCHANGED <<dev, tx, sealed, booting, queue, stranded>>
      BY DEF Continue
<1>2. leg \in Transitions /\ dev \in Devices /\ f \in Transitions /\ LogsApart /\ MemHasNoConfig
      BY FollowUpType DEF AtomicInv, RestInv, TypeOK
<1>3. Meant(leg) /\ Settled(leg, dev)
      BY <1>1, SettledIs DEF RestInv, InLeg
<1>4. /\ Meant(f) /\ f.to \in {"init", "active"} /\ ~Erasing(leg)
      /\ f.ev = "OnMigrateFromOldVersion" => Migrates(leg, dev)
      BY <1>1, <1>2, <1>3, FollowUpMeant
<1>5. /\ dev["active"] = leg.to /\ leg.to # "boot"
      /\ dev["mqActive"] = "on" => leg.to = "active"
      /\ dev["mqInit"] = "on" => leg.to = "init" /\ ~Migrates(leg, dev)
  <2>1. leg.to # "boot"
        BY <1>2 DEF Transitions
  <2>2. /\ dev["active"] = Goal("active", leg, dev) /\ dev["mqInit"] = Goal("mqInit", leg, dev)
        /\ dev["mqActive"] = Goal("mqActive", leg, dev)
        BY <1>3 DEF Settled, Watched
  <2>3. /\ Goal("active", leg, dev) = leg.to
        /\ Goal("mqActive", leg, dev) = IF leg.to = "active" THEN "on" ELSE "off"
        /\ Goal("mqInit", leg, dev) = IF leg.to = "init" /\ ~Migrates(leg, dev) THEN "on" ELSE "off"
        BY DEF Goal
  <2> QED BY <2>1, <2>2, <2>3
<1> HIDE DEF f
<1>6. Leaves(f, dev)
      BY <1>4, <1>5 DEF Leaves
<1>7. InLeg' /\ phase' \in {"leg", "rollback"} /\ leg' = f /\ ~CheckPointed(todo')
      BY <1>1, <1>2, <1>4, <1>5, <1>6, BeginRest DEF AtomicInv
<1>8. Alike(dev, dev')
      BY <1>1 DEF Alike
<1>9. /\ LogsApart'
      /\ \A r \in Watched : Undone'[r] = Undone[r] /\ Started'[r] = Started[r]
      /\ Undone'["state"] = Undone["state"] /\ Started'["state"] = Started["state"]
      /\ dev'["db"] = dev["db"]
      BY <1>1, <1>2, <1>8, SameBack
<1>10. dev["db"] # "off" /\ ClosesAtTheEnd'
      BY <1>1, <1>4, <1>9 DEF RestInv, ClosesAtTheEnd
<1>11. BootsClean' /\ AtRest' /\ QueueMeant'
      BY <1>1, <1>7 DEF BootsClean, AtRest, QueueMeant, RestInv
<1>12. CanGoBack'
  <2> SUFFICES ASSUME ~booting PROVE CanGoBack'
      BY <1>1 DEF CanGoBack
  <2>1. ~Sealing
        BY <1>4 DEF Sealing
  <2>2. /\ Rested(Started, stranded) /\ Rested(Undone, stranded \/ sealed # NoTx)
        /\ dev["db"] = "on" => Started["state"] = Started["active"]
        /\ Undone["state"] = Undone["active"]
        BY <1>1, <2>1 DEF RestInv, CanGoBack
  <2>3. Rested(Started', stranded) /\ Rested(Undone', stranded \/ sealed # NoTx)
        BY <2>2, <1>9, RestedAlike
  <2> QED BY <2>2, <2>3, <1>1, <1>7, <1>9 DEF CanGoBack, Watched
<1> QED BY <1>7, <1>9, <1>10, <1>11, <1>12 DEF RestInv

(* The last leg has settled: the device is at rest.                        *)
LEMMA CommitRest ==
  ASSUME AtomicInv, RestInv, Commit, AtomicInv'
  PROVE  RestInv'
<1>1. /\ phase = "leg" /\ todo = <<>> /\ FollowUp(leg, dev) = NoTransition
      /\ phase' = "idle" /\ ~booting' /\ tx' = NoTx /\ sealed' = NoTx
      /\ UNCHANGED <<dev, queue, stranded>>
      BY DEF Commit
<1>2. leg \in Transitions /\ dev \in Devices
      BY DEF AtomicInv, TypeOK
<1>3. Meant(leg) /\ Settled(leg, dev)
      BY <1>1, SettledIs DEF RestInv, InLeg
<1>4. ~Migrates(leg, dev) /\ (leg.to \in {"init", "active"} \/ Erasing(leg))
      BY <1>1, <1>2, <1>3, LastLeg
<1>5. Subjects(dev) /\ dev["active"] = leg.to
  <2>1. /\ dev["active"] = Goal("active", leg, dev) /\ dev["mqInit"] = Goal("mqInit", leg, dev)
        /\ dev["mqActive"] = Goal("mqActive", leg, dev)
        BY <1>3 DEF Settled, Watched
  <2>2. /\ Goal("active", leg, dev) = leg.to
        /\ Goal("mqActive", leg, dev) = IF leg.to = "active" THEN "on" ELSE "off"
        /\ Goal("mqInit", leg, dev) = IF leg.to = "init" /\ ~Migrates(leg, dev) THEN "on" ELSE "off"
        BY DEF Goal
  <2> QED BY <2>1, <2>2, <1>4 DEF Subjects
<1>6. AtRest'
      BY <1>1, <1>3, <1>4, <1>5 DEF AtRest, Settled, Erasing, Subjects
<1>7. LogsApart'
      BY <1>1, WatchedFacts DEF LogsApart, Special
<1> QED BY <1>1, <1>6, <1>7
        DEF RestInv, BootsClean, ClosesAtTheEnd, InLeg, CanGoBack, QueueMeant

(* The device is where its transaction, or its checkpoint, began.          *)
LEMMA RollbackRest ==
  ASSUME AtomicInv, RestInv, Rollback, AtomicInv'
  PROVE  RestInv'
<1>1. /\ phase = "rollback" /\ ~booting /\ dev' = Undone /\ tx' = NoTx /\ sealed' = NoTx
      /\ stranded' = (stranded \/ sealed # NoTx) /\ phase' = "idle"
      /\ UNCHANGED <<booting, queue>>
      BY DEF Rollback
<1>2. Rested(Undone, stranded \/ sealed # NoTx) /\ Undone["state"] = Undone["active"]
      BY <1>1 DEF RestInv, CanGoBack, Sealing
<1>3. AtRest'
      BY <1>1, <1>2 DEF AtRest, Rested, Subjects
<1>4. LogsApart'
      BY <1>1, WatchedFacts DEF LogsApart, Special
<1> QED BY <1>1, <1>3, <1>4
        DEF RestInv, BootsClean, ClosesAtTheEnd, InLeg, CanGoBack, QueueMeant

-----------------------------------------------------------------------------
(* Where Run does not move and the leg sees the same device.               *)
LEMMA AsideRest ==
  ASSUME AtomicInv, RestInv, AtomicInv', Alike(dev, dev'), QueueMeant',
         UNCHANGED <<tx, sealed, phase, booting, leg, todo, stranded>>
  PROVE  RestInv'
<1>1. /\ LogsApart'
      /\ \A r \in Watched : Undone'[r] = Undone[r] /\ Started'[r] = Started[r]
      /\ Undone'["state"] = Undone["state"] /\ Started'["state"] = Started["state"]
      /\ dev'["db"] = dev["db"]
      BY SameBack DEF RestInv, AtomicInv
<1>2. /\ dev'["active"] = dev["active"] /\ dev'["mqInit"] = dev["mqInit"]
      /\ dev'["mqActive"] = dev["mqActive"] /\ dev'["state"] = dev["state"]
      /\ dev["reboot"] # None => dev'["reboot"] # None
      BY DEF Alike, Special, Watched
<1>3. BootsClean' /\ ClosesAtTheEnd' /\ AtRest'
      BY <1>1, <1>2 DEF RestInv, BootsClean, ClosesAtTheEnd, AtRest, Subjects
<1>4. InLeg'
      BY SettlesAlike DEF RestInv, InLeg
<1>5. CanGoBack'
  <2> SUFFICES ASSUME phase \in {"leg", "rollback"}, ~booting
               PROVE  CanGoBack'
      BY DEF CanGoBack
  <2>1. /\ Rested(Started, stranded)
        /\ dev["db"] = "on" => Started["state"] = Started["active"]
        /\ ~Sealing => /\ Rested(Undone, stranded \/ sealed # NoTx)
                       /\ Undone["state"] = Undone["active"]
        /\ CheckPointed(todo) => sealed = NoTx
        BY DEF RestInv, CanGoBack
  <2>2. Rested(Started', stranded) /\ (~Sealing => Rested(Undone', stranded \/ sealed # NoTx))
        BY <2>1, <1>1, RestedAlike
  <2>3. Sealing' <=> Sealing
        BY DEF Sealing
  <2> QED BY <2>1, <2>2, <2>3, <1>1 DEF CanGoBack, Watched
<1> QED BY <1>1, <1>3, <1>4, <1>5 DEF RestInv

(* A caller that is refused changes the queue only.                        *)
LEMMA RejectRest ==
  ASSUME AtomicInv, RestInv, Reject, AtomicInv'
  PROVE  RestInv'
<1>1. queue # <<>> /\ queue' = Tail(queue)
      /\ UNCHANGED <<dev, tx, sealed, phase, booting, leg, todo, stranded>>
      BY DEF Reject
<1>2. QueueMeant'
      BY <1>1, QueueTail DEF AtomicInv, RestInv
<1>3. Alike(dev, dev')
      BY <1>1 DEF Alike
<1> QED BY <1>1, <1>2, <1>3, AsideRest

(* A request waits in the queue, and is meant.                             *)
LEMMA PerformRest ==
  ASSUME AtomicInv, RestInv, NEW tr \in Requests, Perform(tr), AtomicInv'
  PROVE  RestInv'
<1>1. queue' = Append(queue, tr)
      /\ UNCHANGED <<dev, tx, sealed, phase, booting, leg, todo, stranded>>
      BY DEF Perform
<1>2. QueueMeant'
  <2>1. queue \in Seq(Transitions) /\ tr \in Transitions
        BY RequestsType DEF AtomicInv, TypeOK
  <2>2. \A i \in 1..Len(queue') :
          (i \in 1..Len(queue) /\ queue'[i] = queue[i]) \/ queue'[i] = tr
        BY <1>1, <2>1
  <2> QED BY <2>2, RequestsMeant DEF QueueMeant, RestInv
<1>3. Alike(dev, dev')
      BY <1>1 DEF Alike
<1> QED BY <1>1, <1>2, <1>3, AsideRest

(* The left-behind goroutines touch nothing the leg looks at.              *)
LEMMA LeftBehindRest ==
  ASSUME AtomicInv, RestInv, RebootFails \/ DeactivateStarter, AtomicInv'
  PROVE  RestInv'
<1>1. UNCHANGED <<tx, sealed, phase, booting, leg, todo, queue, stranded>>
      BY DEF RebootFails, DeactivateStarter
<1>2. QueueMeant'
      BY <1>1 DEF QueueMeant, RestInv
<1>3. Alike(dev, dev')
  <2>1. /\ \A r \in Special : r # "deactivate" /\ r # "starter"
        /\ "failed" # None
        BY DEF Special, Watched, None
  <2>2. dev \in [Resources -> Values]
        BY DEF AtomicInv, TypeOK, Devices
  <2>3. CASE RebootFails
        BY <2>1, <2>2, <2>3, WatchedFacts DEF RebootFails, Alike, Special
  <2>4. CASE DeactivateStarter
    <3>1. \A r \in Special : dev'[r] = dev[r]
          BY <2>1, <2>2, <2>4, WatchedFacts DEF DeactivateStarter
    <3> QED BY <3>1 DEF Alike, Special
  <2> QED BY <2>3, <2>4
<1> QED BY <1>1, <1>2, <1>3, AsideRest

(* A device that has just started is in boot.                              *)
LEMMA Fresh ==
  ASSUME NEW d \in Devices
  PROVE  \A e \in {FactoryDevice, Restarted(d), Rebooted(d)} :
           e["active"] = "boot" /\ e["mqInit"] = "off" /\ e["mqActive"] = "off" /\ e["db"] = "on"
<1>1. /\ FactoryDevice["active"] = "boot" /\ FactoryDevice["db"] = "on"
      /\ FactoryDevice["mqInit"] = "off" /\ FactoryDevice["mqActive"] = "off"
      BY DEF FactoryDevice, Resources, Volatile, Persisted, Daemons
<1>2. \A r \in {"active", "mqInit", "mqActive", "db"} :
        r \in Resources /\ r \in Volatile /\ r \notin Daemons
      BY DEF Resources, Volatile, Daemons
<1>3. \A r \in {"active", "mqInit", "mqActive", "db"} : Restarted(d)[r] = FactoryDevice[r]
      BY <1>2 DEF Restarted
<1>4. \A r \in {"active", "mqInit", "mqActive", "db"} : Rebooted(d)[r] = Restarted(d)[r]
  <2>1. Restarted(d) \in [Resources -> Values]
        BY RestartTypes DEF Devices
  <2>2. \A r \in {"active", "mqInit", "mqActive", "db"} : r \notin {"um", "starter", "dhcp"}
        OBVIOUS
  <2> QED BY <2>1, <2>2, <1>2 DEF Rebooted
<1> QED BY <1>1, <1>3, <1>4

(* Every exit, and the boot that fails, ends where Run starts again.       *)
LEMMA StartsAgain ==
  ASSUME AtomicInv, phase' = "dangling", booting', queue' = <<>>, LogsApart',
         NEW d \in Devices, dev' \in {FactoryDevice, Restarted(d), Rebooted(d)}
  PROVE  RestInv'
<1>1. /\ dev'["active"] = "boot" /\ dev'["mqInit"] = "off" /\ dev'["mqActive"] = "off"
      /\ dev'["db"] = "on"
      BY Fresh
<1> QED BY <1>1 DEF RestInv, BootsClean, ClosesAtTheEnd, AtRest, InLeg, CanGoBack, QueueMeant

(* Crash, power cycle and reboot.                                          *)
LEMMA ExitRest ==
  ASSUME AtomicInv, RestInv, Crash \/ PowerCycle \/ RebootAfterReset
  PROVE  RestInv'
<1>1. PICK d : d \in {Restarted(dev), Rebooted(dev)} /\ Exit(d)
      BY DEF Crash, PowerCycle, RebootAfterReset
<1>2. phase' = "dangling" /\ booting' /\ queue' = <<>> /\ dev' = d
      /\ tx' = [tx EXCEPT !.mem = NoChange] /\ sealed' = NoTx
      BY <1>1 DEF Exit
<1>3. LogsApart'
  <2>1. tx'.undo = tx.undo
        BY <1>2 DEF AtomicInv, TypeOK
  <2> QED BY <2>1, <1>2, WatchedFacts DEF RestInv, LogsApart, Special
<1>4. dev \in Devices
      BY DEF AtomicInv, TypeOK
<1> QED BY <1>1, <1>2, <1>3, <1>4, StartsAgain

(* A fatal error on the way from boot.                                     *)
LEMMA BootFailsRest ==
  ASSUME AtomicInv, RestInv, BootFails
  PROVE  RestInv'
<1>1. phase' = "dangling" /\ booting' /\ queue' = <<>> /\ dev' = Restarted(Undone)
      /\ tx' = NoTx /\ sealed' = NoTx
      BY DEF BootFails
<1>2. LogsApart'
      BY <1>1, WatchedFacts DEF LogsApart, Special
<1>3. Undone \in Devices
      BY UndoneType DEF AtomicInv
<1> QED BY <1>1, <1>2, <1>3, StartsAgain

(* The dangling rollback touches no subject and no state in memory.        *)
LEMMA DanglingRest ==
  ASSUME AtomicInv, RestInv, RollbackDangling \/ RollbackDanglingFails
  PROVE  RestInv'
<1>1. /\ phase = "dangling" /\ phase' = "boot" /\ tx' = NoTx
      /\ UNCHANGED <<sealed, booting, queue>>
      /\ dev' = Apply(tx.undo, dev) \/ dev' = dev
      BY DEF RollbackDangling, RollbackDanglingFails
<1>2. LogsApart'
      BY <1>1, WatchedFacts DEF RestInv, LogsApart, Special
<1>3. \A r \in Watched \cup {"db"} : dev'[r] = dev[r]
  <2>1. \A r \in Watched \cup {"db"} : r \in Resources /\ tx.undo[r] = Keep
        BY WatchedFacts DEF RestInv, LogsApart, Special
  <2> QED BY <2>1, <1>1 DEF Apply
<1>4. BootsClean' /\ ClosesAtTheEnd'
      BY <1>1, <1>3 DEF RestInv, BootsClean, ClosesAtTheEnd, Watched
<1> QED BY <1>1, <1>2, <1>4 DEF RestInv, AtRest, InLeg, CanGoBack, QueueMeant

(* The first leg of the process.                                           *)
LEMMA BootRest ==
  ASSUME AtomicInv, RestInv, SetActiveStateFromBoot, AtomicInv'
  PROVE  RestInv'
<1> DEFINE to == IF dev["state"] = None THEN "init" ELSE dev["state"]
           tr == To("OnAfterBoot", to)
<1>1. /\ phase = "boot" /\ Begin(tr) /\ UNCHANGED <<dev, tx, sealed, booting, queue, stranded>>
      BY DEF SetActiveStateFromBoot
<1>2. tr \in Transitions
      BY BootType DEF AtomicInv, TypeOK
<1>3. Meant(tr)
      BY MeantTo DEF Meant
<1>4. booting /\ dev["active"] = "boot" /\ dev["mqInit"] = "off" /\ dev["mqActive"] = "off"
      /\ dev["db"] # "off"
      BY <1>1 DEF RestInv, BootsClean, ClosesAtTheEnd
<1> HIDE DEF tr
<1>5. Leaves(tr, dev)
      BY <1>4 DEF Leaves
<1>6. InLeg' /\ phase' \in {"leg", "rollback"}
      BY <1>1, <1>2, <1>3, <1>4, <1>5, BeginRest DEF AtomicInv
<1> QED BY <1>1, <1>4, <1>6
        DEF RestInv, LogsApart, BootsClean, ClosesAtTheEnd, AtRest, CanGoBack, QueueMeant

-----------------------------------------------------------------------------
(* The invariant.                                                          *)

(* A factory-new device satisfies the invariant.                           *)
LEMMA InitRest == Init => RestInv
<1> SUFFICES ASSUME Init PROVE RestInv
    OBVIOUS
<1>1. /\ dev["active"] = "boot" /\ dev["mqInit"] = "off" /\ dev["mqActive"] = "off"
      /\ dev["db"] = "on"
      BY FactoryType, Fresh DEF Init
<1>2. LogsApart
      BY WatchedFacts DEF Init, LogsApart, Special
<1> QED BY <1>1, <1>2
        DEF Init, RestInv, BootsClean, ClosesAtTheEnd, AtRest, InLeg, CanGoBack, QueueMeant

(* Every step keeps it.                                                    *)
LEMMA NextRest == AtomicInv /\ RestInv /\ [Next]_vars => RestInv'
<1> SUFFICES ASSUME AtomicInv, RestInv, [Next]_vars PROVE RestInv'
    OBVIOUS
<1>1. AtomicInv'
      BY NextAtomicInv
<1>2. CASE RunStep
  <2>1. CASE Accept
        BY <1>1, <2>1, AcceptRest
  <2>2. CASE Reject
        BY <1>1, <2>2, RejectRest
  <2>3. CASE Step
        BY <1>1, <2>3, StepRest
  <2>4. CASE CallFails
        BY <1>1, <2>4, CallFailsRest
  <2>5. CASE Continue
        BY <1>1, <2>5, ContinueRest
  <2>6. CASE Commit
        BY <1>1, <2>6, CommitRest
  <2>7. CASE Rollback
        BY <1>1, <2>7, RollbackRest
  <2>8. CASE BootFails
        BY <2>8, BootFailsRest
  <2>9. CASE RollbackDangling
        BY <2>9, DanglingRest
  <2>10. CASE SetActiveStateFromBoot
        BY <1>1, <2>10, BootRest
  <2> QED BY <1>2, <2>1, <2>2, <2>3, <2>4, <2>5, <2>6, <2>7, <2>8, <2>9, <2>10 DEF RunStep
<1>3. CASE RollbackDanglingFails
      BY <1>3, DanglingRest
<1>4. CASE Crash \/ PowerCycle \/ RebootAfterReset
      BY <1>4, ExitRest
<1>5. CASE RebootFails \/ DeactivateStarter
      BY <1>1, <1>5, LeftBehindRest
<1>6. CASE \E tr \in Requests : Perform(tr)
      BY <1>1, <1>6, PerformRest
<1>7. CASE UNCHANGED vars
  <2>1. UNCHANGED <<tx, sealed, phase, booting, leg, todo, queue, stranded>> /\ dev' = dev
        BY <1>7 DEF vars
  <2>2. Alike(dev, dev') /\ QueueMeant'
        BY <2>1 DEF Alike, QueueMeant, RestInv
  <2> QED BY <1>1, <2>1, <2>2, AsideRest
<1> QED BY <1>2, <1>3, <1>4, <1>5, <1>6, <1>7 DEF Next

(* The two invariants together: at first ...                               *)
LEMMA InitInv == Init => AtomicInv /\ RestInv
<1>1. Init => AtomicInv
      BY InitType, EmptyFacts DEF Init, AtomicInv, MemHasNoConfig, CallsAreGuarded, RestsClosed
<1> QED BY <1>1, InitRest

(* ... and in every step.                                                  *)
LEMMA NextInv == (AtomicInv /\ RestInv) /\ [Next]_vars => (AtomicInv /\ RestInv)'
BY NextAtomicInv, NextRest

-----------------------------------------------------------------------------
(* Theorems.                                                               *)

(* Between transitions the state in memory is the one in the database,     *)
(* whichever calls failed, were undone or were cut short, for every set of *)
(* requests and any number of faults: a restart resumes where the agent    *)
(* was.                                                                    *)
THEOREM StatePersisted == Spec => []StateIsPersisted
<1>1. AtomicInv /\ RestInv => StateIsPersisted
      BY DEF RestInv, AtRest, StateIsPersisted
<1> QED BY <1>1, InitInv, NextInv, PTL DEF Spec

(* Between transitions exactly the subjects of the active state are        *)
(* subscribed: what OnExit unsubscribed and Handle subscribed is taken     *)
(* back in memory by every rollback, however far the leg had come.         *)
THEOREM SubjectsMatch == Spec => []SubjectsMatchState
<1>1. AtomicInv /\ RestInv => SubjectsMatchState
      BY DEF RestInv, AtRest, Subjects, SubjectsMatchState
<1> QED BY <1>1, InitInv, NextInv, PTL DEF Spec

(* The agent never comes to rest in a state no request leads out of: every *)
(* leg into a transient state is followed by another one or taken back to  *)
(* where its transaction started.                                          *)
THEOREM RestsStable == Spec => []RestsInStableState
<1>1. AtomicInv /\ RestInv => RestsInStableState
      BY DEF RestInv, AtRest, RestsInStableState
<1> QED BY <1>1, InitInv, NextInv, PTL DEF Spec


-----------------------------------------------------------------------------
(* The publisher.                                                          *)

(* What a resource ends with: the last call that writes it decides.  The   *)
(* configuration is written by recorded calls.                             *)
Writes(c, r) == c.set[r] # Keep /\ (r = "ws" \/ c.log = "activity")
Silent(s, r) == \A i \in 1..Len(s) : ~Writes(s[i], r)
Ends(s, r, v, w) ==
  \/ v = w /\ Silent(s, r)
  \/ \E i \in 1..Len(s) :
       /\ Writes(s[i], r) /\ s[i].set[r] = w
       /\ \A j \in (i+1)..Len(s) : ~Writes(s[j], r)

(* Behind call i the resource r ("pony" or "ws") is switched on again, and *)
(* the calls in between pass over an error or put r right themselves.      *)
Passes(r) == IF r = "pony" THEN {"restart", "resume", "never", "log"} ELSE {"restart", "never", "log"}
SwitchesOn(c, r) == c.set[r] = "on" /\ c.err = IF r = "pony" THEN "never" ELSE "log"
Opens(s, i, r) ==
  \E j \in (i+1)..Len(s) : SwitchesOn(s[j], r) /\ \A k \in (i+1)..(j-1) : s[k].err \in Passes(r)
Resumes(s, r) ==
  \A i \in 1..Len(s) : s[i].set[r] = "off" /\ s[i].log = "none" => Opens(s, i, r)

(* Writing nothing ends with what there was.                               *)
LEMMA EndsNil ==
  ASSUME NEW r, NEW v, NEW w
  PROVE  Ends(<<>>, r, v, w) <=> v = w
BY DEF Ends, Silent

(* One call.                                                               *)
LEMMA EndsOne ==
  ASSUME NEW c, NEW r, NEW v
  PROVE  /\ Writes(c, r) => Ends(<<c>>, r, v, c.set[r])
         /\ ~Writes(c, r) => Ends(<<c>>, r, v, v)
<1>1. Len(<<c>>) = 1 /\ <<c>>[1] = c /\ 1 \in 1..1 /\ \A i \in 1..1 : i = 1
      OBVIOUS
<1>2. ASSUME Writes(c, r) PROVE Ends(<<c>>, r, v, c.set[r])
  <2>1. \A j \in (1+1)..1 : FALSE
        OBVIOUS
  <2> QED BY <1>1, <1>2, <2>1 DEF Ends
<1> QED BY <1>1, <1>2 DEF Ends, Silent

(* One sequence after the other.                                           *)
LEMMA EndsAppend ==
  ASSUME NEW s \in Seq(Calls), NEW t \in Seq(Calls), NEW r, NEW u, NEW v, NEW w,
         Ends(s, r, u, v), Ends(t, r, v, w)
  PROVE  Ends(s \o t, r, u, w)
<1>0. Len(s) \in Nat /\ Len(t) \in Nat
      OBVIOUS
<1>1. CASE \E j \in 1..Len(t) : /\ Writes(t[j], r) /\ t[j].set[r] = w
                                /\ \A k \in (j+1)..Len(t) : ~Writes(t[k], r)
  <2>1. PICK j \in 1..Len(t) : /\ Writes(t[j], r) /\ t[j].set[r] = w
                               /\ \A k \in (j+1)..Len(t) : ~Writes(t[k], r)
        BY <1>1
  <2>2. ASSUME NEW k \in (Len(s)+j+1)..Len(s \o t) PROVE ~Writes((s \o t)[k], r)
    <3>1. k - Len(s) \in (j+1)..Len(t) /\ k - Len(s) \in 1..Len(t) /\ k \in 1..Len(s \o t)
          BY <1>0, AppendParts
    <3>2. Len(s) + (k - Len(s)) = k
          BY <1>0, <3>1
    <3>3. (s \o t)[k] = t[k - Len(s)]
          BY <3>1, <3>2, AppendParts
    <3> QED BY <2>1, <3>1, <3>3
  <2>3. Len(s) + j \in 1..Len(s \o t) /\ (s \o t)[Len(s) + j] = t[j]
        BY AppendParts
  <2> QED BY <2>1, <2>2, <2>3 DEF Ends
<1>2. CASE v = w /\ Silent(t, r)
  <2>1. ASSUME NEW k \in 1..Len(s \o t), ~(k \in 1..Len(s)) PROVE ~Writes((s \o t)[k], r)
    <3>1. k - Len(s) \in 1..Len(t) /\ Len(s) + (k - Len(s)) = k
          BY <2>1, <1>0, AppendParts
    <3>2. (s \o t)[k] = t[k - Len(s)]
          BY <3>1, AppendParts
    <3> QED BY <1>2, <3>1, <3>2 DEF Silent
  <2>2. CASE u = v /\ Silent(s, r)
    <3>1. Silent(s \o t, r)
      <4> SUFFICES ASSUME NEW k \in 1..Len(s \o t) PROVE ~Writes((s \o t)[k], r)
          BY DEF Silent
      <4> QED BY <2>1, <2>2, AppendParts DEF Silent
    <3> QED BY <3>1, <2>2, <1>2 DEF Ends
  <2>3. CASE \E i \in 1..Len(s) : /\ Writes(s[i], r) /\ s[i].set[r] = v
                                  /\ \A j \in (i+1)..Len(s) : ~Writes(s[j], r)
    <3>1. PICK i \in 1..Len(s) : /\ Writes(s[i], r) /\ s[i].set[r] = v
                                 /\ \A j \in (i+1)..Len(s) : ~Writes(s[j], r)
          BY <2>3
    <3>2. ASSUME NEW k \in (i+1)..Len(s \o t) PROVE ~Writes((s \o t)[k], r)
      <4>1. k \in 1..Len(s \o t)
            BY <1>0, AppendParts
      <4>2. CASE k \in 1..Len(s)
        <5>1. k \in (i+1)..Len(s) /\ (s \o t)[k] = s[k]
              BY <4>2, AppendParts
        <5> QED BY <3>1, <5>1
      <4> QED BY <4>1, <4>2, <2>1
    <3>3. i \in 1..Len(s \o t) /\ (s \o t)[i] = s[i]
          BY AppendParts
    <3> QED BY <3>1, <3>2, <3>3, <1>2 DEF Ends
  <2> QED BY <2>2, <2>3 DEF Ends
<1> QED BY <1>1, <1>2 DEF Ends

(* What the rest of the calls ends with.                                   *)
LEMMA EndsTail ==
  ASSUME NEW s \in Seq(Calls), s # <<>>, NEW r, NEW v, NEW w, Ends(s, r, v, w)
  PROVE  Ends(Tail(s), r, IF Writes(Head(s), r) THEN Head(s).set[r] ELSE v, w)
<1>0. Len(s) \in Nat \ {0} /\ Len(Tail(s)) = Len(s) - 1
      OBVIOUS
<1>1. CASE v = w /\ Silent(s, r)
  <2>1. Silent(Tail(s), r) /\ ~Writes(Head(s), r)
        BY <1>1, TailParts DEF Silent
  <2> QED BY <1>1, <2>1 DEF Ends
<1>2. CASE \E i \in 1..Len(s) : /\ Writes(s[i], r) /\ s[i].set[r] = w
                                /\ \A j \in (i+1)..Len(s) : ~Writes(s[j], r)
  <2>1. PICK i \in 1..Len(s) : /\ Writes(s[i], r) /\ s[i].set[r] = w
                               /\ \A j \in (i+1)..Len(s) : ~Writes(s[j], r)
        BY <1>2
  <2>2. ASSUME NEW k \in 1..Len(Tail(s)), k \in i..Len(Tail(s)) PROVE ~Writes(Tail(s)[k], r)
    <3>1. k+1 \in (i+1)..Len(s) /\ Tail(s)[k] = s[k+1]
          BY <2>2, <1>0, TailParts
    <3> QED BY <2>1, <3>1
  <2>3. CASE i = 1
    <3>1. Silent(Tail(s), r)
          BY <2>2, <2>3, <1>0 DEF Silent
    <3>2. Head(s) = s[1]
          BY TailParts
    <3> QED BY <3>1, <3>2, <2>1, <2>3 DEF Ends
  <2>4. CASE i # 1
    <3>1. i-1 \in 1..Len(Tail(s)) /\ Tail(s)[i-1] = s[i]
          BY <2>4, TailParts
    <3>2. ASSUME NEW k \in ((i-1)+1)..Len(Tail(s)) PROVE ~Writes(Tail(s)[k], r)
      <4>1. k \in 1..Len(Tail(s)) /\ k \in i..Len(Tail(s))
            BY <1>0
      <4> QED BY <4>1, <2>2
    <3> QED BY <3>1, <3>2, <2>1 DEF Ends
  <2> QED BY <2>3, <2>4
<1> QED BY <1>1, <1>2 DEF Ends

(* Switching on again, in one part of a sequence.                          *)
LEMMA OpensAppend ==
  ASSUME NEW s \in Seq(Calls), NEW t \in Seq(Calls), NEW r
  PROVE  /\ \A i \in Nat : Opens(s, i, r) => Opens(s \o t, i, r)
         /\ \A i \in Nat : Opens(t, i, r) => Opens(s \o t, Len(s) + i, r)
         /\ Resumes(s, r) /\ Resumes(t, r) => Resumes(s \o t, r)
<1>0. Len(s) \in Nat /\ Len(t) \in Nat
      OBVIOUS
<1>1. ASSUME NEW i \in Nat, Opens(s, i, r) PROVE Opens(s \o t, i, r)
  <2>1. PICK j \in (i+1)..Len(s) :
          SwitchesOn(s[j], r) /\ \A k \in (i+1)..(j-1) : s[k].err \in Passes(r)
        BY <1>1 DEF Opens
  <2>2. j \in (i+1)..Len(s \o t) /\ (s \o t)[j] = s[j]
        BY <1>0, AppendParts
  <2>3. \A k \in (i+1)..(j-1) : k \in 1..Len(s) /\ (s \o t)[k] = s[k]
        BY <1>0, AppendParts
  <2> QED BY <2>1, <2>2, <2>3 DEF Opens
<1>2. ASSUME NEW i \in Nat, Opens(t, i, r) PROVE Opens(s \o t, Len(s) + i, r)
  <2>1. PICK j \in (i+1)..Len(t) :
          SwitchesOn(t[j], r) /\ \A k \in (i+1)..(j-1) : t[k].err \in Passes(r)
        BY <1>2 DEF Opens
  <2> DEFINE m == Len(s) + j
             n == Len(s) + i
  <2>2. m \in (n+1)..Len(s \o t) /\ (s \o t)[m] = t[j]
        BY <1>0, AppendParts
  <2>3. ASSUME NEW k \in (n+1)..(m-1) PROVE (s \o t)[k].err \in Passes(r)
    <3>1. k - Len(s) \in (i+1)..(j-1) /\ k - Len(s) \in 1..Len(t) /\ Len(s) + (k - Len(s)) = k
          BY <1>0
    <3>2. (s \o t)[k] = t[k - Len(s)]
          BY <3>1, AppendParts
    <3> QED BY <2>1, <3>1, <3>2
  <2> HIDE DEF m
  <2>4. Opens(s \o t, n, r)
    <3> HIDE DEF n
    <3> QED BY <2>1, <2>2, <2>3 DEF Opens
  <2> QED BY <2>4
<1>3. ASSUME Resumes(s, r), Resumes(t, r) PROVE Resumes(s \o t, r)
  <2> SUFFICES ASSUME NEW k \in 1..Len(s \o t), (s \o t)[k].set[r] = "off", (s \o t)[k].log = "none"
               PROVE  Opens(s \o t, k, r)
      BY DEF Resumes
  <2>1. CASE k \in 1..Len(s)
    <3>1. (s \o t)[k] = s[k] /\ k \in Nat
          BY <2>1, AppendParts
    <3> QED BY <2>1, <3>1, <1>1, <1>3 DEF Resumes
  <2>2. CASE k - Len(s) \in 1..Len(t)
    <3>1. k - Len(s) \in Nat /\ Len(s) + (k - Len(s)) = k
          BY <2>2, <1>0, AppendParts
    <3>2. (s \o t)[k] = t[k - Len(s)]
          BY <2>2, <3>1, AppendParts
    <3> QED BY <2>2, <3>1, <3>2, <1>2, <1>3 DEF Resumes
  <2> QED BY <2>1, <2>2, AppendParts
<1> QED BY <1>1, <1>2, <1>3

(* Switching on again, in the rest of the calls.                           *)
LEMMA OpensTail ==
  ASSUME NEW s \in Seq(Calls), s # <<>>, NEW r
  PROVE  /\ Opens(s, 0, r) =>
              SwitchesOn(Head(s), r) \/ (Head(s).err \in Passes(r) /\ Opens(Tail(s), 0, r))
         /\ Resumes(s, r) =>
              /\ Resumes(Tail(s), r)
              /\ Head(s).set[r] = "off" /\ Head(s).log = "none" => Opens(Tail(s), 0, r)
<1>0. Len(s) \in Nat \ {0} /\ Len(Tail(s)) = Len(s) - 1
      OBVIOUS
<1>1. ASSUME NEW i \in Nat, Opens(s, i+1, r) PROVE Opens(Tail(s), i, r)
  <2>1. PICK j \in (i+2)..Len(s) :
          SwitchesOn(s[j], r) /\ \A k \in (i+2)..(j-1) : s[k].err \in Passes(r)
        BY <1>1 DEF Opens
  <2>2. j-1 \in (i+1)..Len(Tail(s)) /\ Tail(s)[j-1] = s[j]
        BY <1>0, TailParts
  <2>3. ASSUME NEW k \in (i+1)..(j-1-1) PROVE Tail(s)[k].err \in Passes(r)
    <3>1. k+1 \in (i+2)..(j-1) /\ k \in 1..Len(Tail(s))
          BY <1>0
    <3>2. Tail(s)[k] = s[k+1]
          BY <3>1, TailParts
    <3> QED BY <2>1, <3>1, <3>2
  <2> QED BY <2>1, <2>2, <2>3 DEF Opens
<1>2. ASSUME Opens(s, 0, r)
      PROVE  SwitchesOn(Head(s), r) \/ (Head(s).err \in Passes(r) /\ Opens(Tail(s), 0, r))
  <2>1. PICK j \in 1..Len(s) :
          SwitchesOn(s[j], r) /\ \A k \in 1..(j-1) : s[k].err \in Passes(r)
        BY <1>2 DEF Opens
  <2>2. CASE j = 1
        BY <2>1, <2>2, TailParts
  <2>3. CASE j # 1
    <3>1. 1 \in 1..(j-1) /\ j \in 2..Len(s) /\ \A k \in 2..(j-1) : k \in 1..(j-1)
          BY <2>3, <1>0
    <3>2. Opens(s, 0+1, r)
          BY <2>1, <3>1 DEF Opens
    <3>3. Opens(Tail(s), 0, r)
          BY <3>2, <1>1
    <3> QED BY <2>1, <3>1, <3>3, TailParts
  <2> QED BY <2>2, <2>3
<1>3. ASSUME Resumes(s, r), NEW i \in 1..Len(Tail(s)),
             Tail(s)[i].set[r] = "off", Tail(s)[i].log = "none"
      PROVE  Opens(Tail(s), i, r)
  <2>1. i+1 \in 1..Len(s) /\ Tail(s)[i] = s[i+1] /\ i \in Nat
        BY TailParts
  <2> QED BY <2>1, <1>3, <1>1 DEF Resumes
<1>4. ASSUME Resumes(s, r), Head(s).set[r] = "off", Head(s).log = "none"
      PROVE  Opens(Tail(s), 0, r)
  <2>1. Opens(s, 0+1, r)
        BY <1>4, TailParts DEF Resumes
  <2> QED BY <2>1, <1>1
<1>5. Resumes(s, r) => Resumes(Tail(s), r)
      BY <1>3 DEF Resumes
<1> QED BY <1>2, <1>4, <1>5

(* Without a call there is nothing to switch on.                           *)
LEMMA OpensNil == \A r : ~Opens(<<>>, 0, r) /\ Resumes(<<>>, r)
BY DEF Opens, Resumes

(* The publisher after a leg, and the one a device should have.            *)
WsGoal(tr) ==
  IF tr.to \in {"active", "maintenance"} \/ (tr.to = "update_config" /\ tr.ev # "OnAfterBoot")
  THEN "on" ELSE "off"
WsRight(d) == d["ws"] = "on" <=> d["active"] \in {"active", "maintenance"}

(* What a call of a leg does to the publisher and the tunnel monitoring:   *)
(* it undoes a start or stop with the process, except for the update of    *)
(* the configuration, which only resumes what it has paused, and the start *)
(* after a boot, which a failing process takes back.                       *)
WsFits(c, tr) ==
  /\ c.set["pony"] # Keep => c.log = "none" /\ c.err = "never"
  /\ c.set["ws"] # Keep =>
       /\ c.inv["ws"] = Keep /\ tr.ev # "OnUpdateDevice"
       /\ \/ c.log = "func" /\ c.err = "abort" /\ tr.to # "update_config"
          \/ c.log = "none" /\ c.err = "log" /\ (tr.to = "update_config" \/ tr.ev = "OnAfterBoot")
  /\ c.err = "restart" => tr.to = "update_config"
  /\ c.err = "finish" => tr.ev = "OnUpdateDevice"
WsFitting(s, tr) == \A i \in 1..Len(s) : WsFits(s[i], tr)

(* Calls that lead the publisher from v to w.                              *)
Smooth(s, tr, v, w) ==
  /\ s \in Seq(Calls) /\ WsFitting(s, tr)
  /\ Resumes(s, "pony") /\ Resumes(s, "ws")
  /\ Ends(s, "ws", v, w)

(* One after the other.                                                    *)
LEMMA SmoothAppend ==
  ASSUME NEW s, NEW t, NEW tr, NEW u, NEW v, NEW w, Smooth(s, tr, u, v), Smooth(t, tr, v, w)
  PROVE  Smooth(s \o t, tr, u, w)
<1>1. s \in Seq(Calls) /\ t \in Seq(Calls) /\ s \o t \in Seq(Calls)
      BY DEF Smooth
<1>2. WsFitting(s \o t, tr)
  <2> SUFFICES ASSUME NEW k \in 1..Len(s \o t) PROVE WsFits((s \o t)[k], tr)
      BY DEF WsFitting
  <2>1. CASE k \in 1..Len(s)
        BY <2>1, <1>1, AppendParts DEF Smooth, WsFitting
  <2>2. CASE k - Len(s) \in 1..Len(t)
    <3>1. Len(s) + (k - Len(s)) = k
          BY <1>1
    <3>2. (s \o t)[k] = t[k - Len(s)]
          BY <2>2, <3>1, <1>1, AppendParts
    <3> QED BY <2>2, <3>2 DEF Smooth, WsFitting
  <2> QED BY <2>1, <2>2, <1>1, AppendParts
<1> QED BY <1>1, <1>2, OpensAppend, EndsAppend DEF Smooth

(* Calls that keep away from both.                                         *)
Still(c, tr) ==
  /\ c.set["ws"] = Keep /\ c.set["pony"] = Keep /\ c.err # "restart"
  /\ c.err = "finish" => tr.ev = "OnUpdateDevice"
StillCalls(tr) == {c \in Calls : Still(c, tr)}

(* They lead the publisher nowhere.                                        *)
LEMMA StillSmooth ==
  ASSUME NEW tr, NEW s \in Seq(StillCalls(tr)), NEW v
  PROVE  Smooth(s, tr, v, v)
<1>1. s \in Seq(Calls) /\ \A i \in 1..Len(s) : Still(s[i], tr)
      BY DEF StillCalls
<1>2. WsFitting(s, tr)
      BY <1>1 DEF WsFitting, WsFits, Still
<1>3. Resumes(s, "pony") /\ Resumes(s, "ws")
      BY <1>1 DEF Resumes, Still, Keep
<1>4. Ends(s, "ws", v, v)
      BY <1>1 DEF Ends, Silent, Writes, Still
<1> QED BY <1>1, <1>2, <1>3, <1>4 DEF Smooth

(* Configuration keeps away from the publisher ...                         *)
LEMMA StillConfig ==
  ASSUME NEW p \in Configs, NEW tr
  PROVE  /\ Execute(p) \in StillCalls(tr)
         /\ \A e \in Errs \ {"restart", "finish"} : Call(p, "activity", e) \in StillCalls(tr)
         /\ tr.ev = "OnUpdateDevice" => Call(p, "activity", "finish") \in StillCalls(tr)
<1>1. p["ws"] = Keep /\ p["pony"] = Keep
      BY DEF Configs, Resources, Persisted, Volatile
<1>2. Execute(p) \in Calls /\ \A e \in Errs : Call(p, "activity", e) \in Calls
      BY ConfigCallTypes DEF PlainCalls
<1> QED BY <1>1, <1>2 DEF StillCalls, Still, Execute, Call, Errs

(* ... and so do checks ...                                                *)
LEMMA StillCheck ==
  ASSUME NEW tr
  PROVE  /\ \A e \in Errs \ {"restart", "finish"} :
              Check(e) \in StillCalls(tr) /\ CheckPoint(e) \in StillCalls(tr)
         /\ tr.ev = "OnUpdateDevice" =>
              Check("finish") \in StillCalls(tr) /\ CheckPoint("finish") \in StillCalls(tr)
<1>1. NoChange["ws"] = Keep /\ NoChange["pony"] = Keep
      BY DomainFacts DEF NoChange
<1>2. \A e \in Errs : Check(e) \in Calls /\ CheckPoint(e) \in Calls
      BY CheckTypes DEF PlainCalls
<1> QED BY <1>1, <1>2 DEF StillCalls, Still, Check, CheckPoint, Call, Errs

(* ... and the other services.                                             *)
LEMMA StillService ==
  ASSUME NEW r \in ServiceResources \ {"ws", "pony"}, NEW v \in Domain(r), NEW tr
  PROVE  /\ Func(r, v) \in StillCalls(tr) /\ Now(r, v) \in StillCalls(tr)
         /\ Logged(Set(r, v)) \in StillCalls(tr)
         /\ \A l \in Logs, e \in {"never", "abort"} : Call(Set(r, v), l, e) \in StillCalls(tr)
         /\ \A u \in Domain(r) : Command(r, v, u) \in StillCalls(tr)
<1>1. Set(r, v)["ws"] = Keep /\ Set(r, v)["pony"] = Keep
      BY DomainFacts DEF Set
<1>2. /\ Func(r, v) \in Calls /\ Now(r, v) \in Calls /\ Logged(Set(r, v)) \in Calls
      /\ \A l \in Logs, e \in Errs : Call(Set(r, v), l, e) \in Calls
      /\ \A u \in Domain(r) : Command(r, v, u) \in Calls
      BY ServiceCallTypes DEF PlainCalls
<1>3. /\ Func(r, v) \in StillCalls(tr) /\ Now(r, v) \in StillCalls(tr)
      /\ Logged(Set(r, v)) \in StillCalls(tr)
      BY <1>1, <1>2 DEF StillCalls, Still, Func, Now, Logged, Call
<1>4. \A l \in Logs, e \in {"never", "abort"} : Call(Set(r, v), l, e) \in StillCalls(tr)
      BY <1>1, <1>2 DEF StillCalls, Still, Call, Errs
<1>5. \A u \in Domain(r) : Command(r, v, u) \in StillCalls(tr)
      BY <1>1, <1>2 DEF StillCalls, Still, Command
<1> QED BY <1>3, <1>4, <1>5

(* The daemons and the subjects.                                           *)
LEMMA StillOnOff ==
  ASSUME NEW r \in Daemons \cup {"mqInit", "mqActive", "deactivate"}, NEW v \in OnOff, NEW tr
  PROVE  /\ Func(r, v) \in StillCalls(tr) /\ Now(r, v) \in StillCalls(tr)
         /\ Logged(Set(r, v)) \in StillCalls(tr)
         /\ \A u \in OnOff : Command(r, v, u) \in StillCalls(tr)
<1>1. r \in ServiceResources \ {"ws", "pony"} /\ Domain(r) = OnOff
      BY DomainFacts DEF ServiceResources, Daemons
<1> QED BY <1>1, StillService

(* Starting and stopping the publisher within a transaction ...            *)
LEMMA SwitchSmooth ==
  ASSUME NEW v \in OnOff, NEW u, NEW tr, tr.to # "update_config", tr.ev # "OnUpdateDevice"
  PROVE  Smooth(<<Func("ws", v)>>, tr, u, v)
<1> DEFINE c == Func("ws", v)
<1>1. /\ c \in Calls /\ c.set["ws"] = v /\ c.set["pony"] = Keep /\ c.inv["ws"] = Keep
      /\ c.log = "func" /\ c.err = "abort" /\ v # Keep
  <2>1. c \in Calls
        BY OnOffCallTypes DEF PlainCalls
  <2>2. "ws" \in Resources /\ "pony" \in Resources
        BY DomainFacts
  <2> QED BY <2>1, <2>2 DEF Func, Call, Set, NoChange, OnOff, Keep
<1> HIDE DEF c
<1>2. Ends(<<c>>, "ws", u, v)
      BY <1>1, EndsOne DEF Writes
<1>3. <<c>> \in Seq(Calls) /\ \A i \in 1..Len(<<c>>) : <<c>>[i] = c
      BY <1>1
<1>4. WsFitting(<<c>>, tr) /\ Resumes(<<c>>, "pony") /\ Resumes(<<c>>, "ws")
      BY <1>1, <1>3 DEF WsFitting, WsFits, Resumes, Keep
<1> QED BY <1>2, <1>3, <1>4 DEF Smooth, c

(* ... and after a boot.                                                   *)
LEMMA ReportSmooth ==
  ASSUME NEW u, NEW tr, tr.ev = "OnAfterBoot"
  PROVE  Smooth(WaitInstallFinishedAfterBoot, tr, u, "on")
<1> DEFINE c == Logged(Set("ws", "on"))
<1>1. /\ c \in Calls /\ c.set["ws"] = "on" /\ c.set["pony"] = Keep /\ c.inv["ws"] = Keep
      /\ c.log = "none" /\ c.err = "log"
  <2>1. c \in Calls
        BY OnOffCallTypes DEF PlainCalls, OnOff
  <2>2. "ws" \in Resources /\ "pony" \in Resources
        BY DomainFacts
  <2> QED BY <2>1, <2>2 DEF Logged, Call, Set, NoChange
<1> HIDE DEF c
<1>2. Ends(<<c>>, "ws", u, "on")
      BY <1>1, EndsOne DEF Writes, Keep
<1>3. <<c>> \in Seq(Calls) /\ \A i \in 1..Len(<<c>>) : <<c>>[i] = c
      BY <1>1
<1>4. WsFitting(<<c>>, tr) /\ Resumes(<<c>>, "pony") /\ Resumes(<<c>>, "ws")
      BY <1>1, <1>3 DEF WsFitting, WsFits, Resumes, Keep
<1> QED BY <1>2, <1>3, <1>4 DEF Smooth, c, WaitInstallFinishedAfterBoot

(* Calls that pause the tunnel monitoring or the publisher and resume it.  *)
LEMMA InitDeviceSmooth ==
  ASSUME NEW tr \in Transitions, NEW u
  PROVE  Smooth(InitDevice(tr), tr, u, u)
<1> DEFINE s == InitDevice(tr)
           o == Now("pony", "off")
           n == Now("pony", "on")
           t == <<Call(NoChange, "activity", "resume"),
                  Call(Set("port", tr.arg["port"]), "activity", "resume"),
                  Check("resume"),
                  Call(Set("services", tr.arg["services"]), "activity", "resume")>>
<1>1. /\ o \in Calls /\ o.set["pony"] = "off" /\ o.set["ws"] = Keep /\ o.log = "none" /\ o.err = "never"
      /\ n \in Calls /\ n.set["pony"] = "on" /\ n.set["ws"] = Keep /\ n.log = "none" /\ n.err = "never"
  <2>1. o \in Calls /\ n \in Calls
        BY OnOffCallTypes DEF PlainCalls, OnOff
  <2>2. "ws" \in Resources /\ "pony" \in Resources
        BY DomainFacts
  <2> QED BY <2>1, <2>2 DEF Now, Call, Set
<1>2. \A i \in 1..4 : t[i] \in StillCalls(tr) /\ t[i].err = "resume"
  <2>1. \A r \in {"port", "services"} : Set(r, tr.arg[r]) \in Configs
    <3>1. \A r \in {"port", "services"} : r \in Persisted /\ tr.arg[r] \in Domain(r) \cup {Keep}
          BY DomainFacts DEF Transitions, Configs, Patches, Persisted
    <3> QED BY <3>1, ConfigTypes
  <2>2. /\ Call(NoChange, "activity", "resume") \in StillCalls(tr)
        /\ Call(Set("port", tr.arg["port"]), "activity", "resume") \in StillCalls(tr)
        /\ Call(Set("services", tr.arg["services"]), "activity", "resume") \in StillCalls(tr)
        /\ Check("resume") \in StillCalls(tr)
        BY <2>1, ConfigTypes, StillConfig, StillCheck DEF Errs
  <2>3. \A i \in 1..4 : t[i].err = "resume"
        BY DEF Call, Check
  <2> QED BY <2>2, <2>3
<1>3. s = <<o>> \o t \o <<n>> /\ s = <<o, t[1], t[2], t[3], t[4], n>>
      BY DEF InitDevice
<1> HIDE DEF o, n, t
<1>4. \A i \in 1..4 : t[i] \in Calls /\ Still(t[i], tr)
      BY <1>2 DEF StillCalls
<1>5. /\ s \in Seq(Calls) /\ Len(s) = 6 /\ s[1] = o /\ s[6] = n
      /\ s[2] = t[1] /\ s[3] = t[2] /\ s[4] = t[3] /\ s[5] = t[4]
      BY <1>1, <1>3, <1>4
<1> HIDE DEF s
<1>6. WsFitting(s, tr)
      BY <1>1, <1>4, <1>5 DEF WsFitting, WsFits, Still
<1>7. Resumes(s, "ws")
      BY <1>1, <1>4, <1>5 DEF Resumes, Still, Keep
<1>8. Resumes(s, "pony")
  <2>1. Opens(s, 1, "pony")
    <3>1. SwitchesOn(s[6], "pony")
          BY <1>1, <1>5 DEF SwitchesOn
    <3>2. \A k \in (1+1)..(6-1) : s[k].err \in Passes("pony")
          BY <1>2, <1>5 DEF Passes
    <3> QED BY <1>5, <3>1, <3>2 DEF Opens
  <2> QED BY <2>1, <1>1, <1>4, <1>5 DEF Resumes, Still, Keep
<1>9. Ends(s, "ws", u, u)
      BY <1>1, <1>4, <1>5 DEF Ends, Silent, Writes, Still
<1> QED BY <1>5, <1>6, <1>7, <1>8, <1>9 DEF Smooth, s

(* One call behind a sequence.                                             *)
LEMMA AppendOne ==
  ASSUME NEW s \in Seq(Calls), NEW c \in Calls, NEW n \in Nat, 1..Len(s) = 1..n
  PROVE  /\ s \o <<c>> \in Seq(Calls) /\ 1..Len(s \o <<c>>) = 1..(n+1)
         /\ (s \o <<c>>)[n+1] = c
         /\ \A i \in 1..n : (s \o <<c>>)[i] = s[i]
OBVIOUS

(* One call behind four.                                                   *)
LEMMA FiveCalls ==
  ASSUME NEW x \in Calls, NEW y \in Calls, NEW z \in Calls, NEW g \in Calls, NEW h \in Calls
  PROVE  <<x, y, z, g>> \o <<h>> = <<x, y, z, g, h>>
<1> DEFINE s == <<x, y, z, g>> \o <<h>>
           t == <<x, y, z, g, h>>
<1>1. /\ <<x, y, z, g>> \in Seq(Calls) /\ 1..Len(<<x, y, z, g>>) = 1..4
      /\ t \in Seq(Calls) /\ 1..Len(t) = 1..5
      /\ t[1] = x /\ t[2] = y /\ t[3] = z /\ t[4] = g /\ t[5] = h
      OBVIOUS
<1>2. /\ s \in Seq(Calls) /\ 1..Len(s) = 1..(4+1) /\ s[4+1] = h
      /\ \A i \in 1..4 : s[i] = <<x, y, z, g>>[i]
      BY <1>1, AppendOne
<1>3. s[1] = x /\ s[2] = y /\ s[3] = z /\ s[4] = g
      BY <1>2
<1> HIDE DEF s, t
<1>4. \A i \in 1..Len(s) : s[i] = t[i]
      BY <1>1, <1>2, <1>3
<1>5. s = t
      BY <1>1, <1>2, <1>4
<1> QED BY <1>5 DEF s, t

(* An update of the configuration that changes the port.                   *)
LEMMA UpdateConfigSmooth ==
  ASSUME NEW tr \in Transitions, NEW d \in Devices, Meant(tr), tr.to = "update_config",
         tr.ev # "OnUpdateDevice"
  PROVE  Smooth(UpdateConfig(tr, d), tr, "on", "on")
<1> DEFINE s == UpdateConfig(tr, d)
           o == Now("pony", "off")
           p == Logged(Set("ws", "off"))
           e == Call(tr.arg, "activity", "restart")
           n == Now("pony", "on")
           k == Check("restart")
           q == Logged(Set("ws", "on"))
<1>1. CASE ~IsPortConfigurationChanged(tr, d)
  <2>1. s = <<Execute(tr.arg)>> /\ Execute(tr.arg) \in StillCalls(tr)
        BY <1>1, ArgumentTypes, StillConfig DEF UpdateConfig
  <2>2. s \in Seq(StillCalls(tr))
        BY <2>1
  <2> HIDE DEF s
  <2>3. Smooth(s, tr, "on", "on")
        BY <2>2, StillSmooth
  <2> QED BY <2>3 DEF s
<1>2. CASE IsPortConfigurationChanged(tr, d)
  <2>1. "ws" \in Resources /\ "pony" \in Resources /\ NoChange["ws"] = Keep /\ NoChange["pony"] = Keep
        BY DomainFacts DEF NoChange
  <2>2. o \in Calls /\ p \in Calls /\ n \in Calls /\ k \in Calls /\ q \in Calls
        BY OnOffCallTypes, CheckTypes DEF PlainCalls, OnOff, Errs
  <2>3. e \in Calls /\ e.set["ws"] = Keep /\ e.set["pony"] = Keep
    <3>1. tr.arg \in Configs
          BY ArgumentTypes
    <3>2. e \in PlainCalls
          BY <3>1, ConfigCallTypes DEF Errs
    <3>3. e.set["ws"] = Keep /\ e.set["pony"] = Keep
          BY <3>1 DEF Call, Configs, Resources, Persisted, Volatile
    <3> QED BY <3>2, <3>3 DEF PlainCalls
  <2>4. /\ o.set["pony"] = "off" /\ o.set["ws"] = Keep /\ o.log = "none" /\ o.err = "never"
        /\ p.set["pony"] = Keep /\ p.set["ws"] = "off" /\ p.inv["ws"] = Keep
        /\ p.log = "none" /\ p.err = "log"
        BY <2>1 DEF Now, Logged, Call, Set
  <2>5. /\ n.set["pony"] = "on" /\ n.set["ws"] = Keep /\ n.log = "none" /\ n.err = "never"
        /\ k.set["pony"] = Keep /\ k.set["ws"] = Keep /\ k.err = "restart" /\ k.log = "none"
        BY <2>1 DEF Now, Check, Call, Set
  <2>6. /\ q.set["pony"] = Keep /\ q.set["ws"] = "on" /\ q.inv["ws"] = Keep
        /\ q.log = "none" /\ q.err = "log" /\ e.err = "restart" /\ e.log = "activity"
        BY <2>1 DEF Logged, Call, Set
  <2> DEFINE a == <<o, p, e, n>>
  <2>7. s = a \o ForCPE(<<k>>) \o <<q>>
        BY <1>2 DEF UpdateConfig
  <2>11. a \in Seq(Calls) /\ 1..Len(a) = 1..4 /\ a[1] = o /\ a[2] = p /\ a[3] = e /\ a[4] = n
        BY <2>2, <2>3
  <2> HIDE DEF a, o, p, e, n, k, q, s
  <2>8. ASSUME NEW m \in {5, 6}, s \in Seq(Calls), 1..Len(s) = 1..m,
               s[1] = o, s[2] = p, s[3] = e, s[4] = n, s[m] = q, m = 6 => s[5] = k
        PROVE  Smooth(s, tr, "on", "on")
    <3>0. Len(s) = m /\ \A i \in 1..m : i \in {1, 2, 3, 4} \/ i = m \/ (i = 5 /\ m = 6)
          BY <2>8
    <3>1. WsFitting(s, tr)
      <4>1. WsFits(o, tr) /\ WsFits(p, tr) /\ WsFits(e, tr)
            BY <2>3, <2>4, <2>6 DEF WsFits
      <4>2. WsFits(n, tr) /\ WsFits(k, tr) /\ WsFits(q, tr)
            BY <2>5, <2>6 DEF WsFits
      <4> QED BY <2>8, <3>0, <4>1, <4>2 DEF WsFitting
    <3>2. Opens(s, 1, "pony")
      <4>1. SwitchesOn(s[4], "pony") /\ 4 \in (1+1)..Len(s)
            BY <2>5, <2>8, <3>0 DEF SwitchesOn
      <4>2. \A i \in (1+1)..(4-1) : s[i].err \in Passes("pony")
            BY <2>4, <2>6, <2>8 DEF Passes
      <4> QED BY <4>1, <4>2 DEF Opens
    <3>3. Opens(s, 2, "ws")
      <4>1. SwitchesOn(s[m], "ws") /\ m \in (2+1)..Len(s)
            BY <2>6, <2>8, <3>0 DEF SwitchesOn
      <4>2. \A i \in (2+1)..(m-1) : s[i].err \in Passes("ws")
            BY <2>5, <2>6, <2>8 DEF Passes
      <4> QED BY <4>1, <4>2 DEF Opens
    <3>4. Resumes(s, "pony") /\ Resumes(s, "ws")
          BY <2>3, <2>4, <2>5, <2>6, <2>8, <3>0, <3>2, <3>3 DEF Resumes, Keep
    <3>5. Ends(s, "ws", "on", "on")
      <4>1. Writes(s[m], "ws") /\ s[m].set["ws"] = "on" /\ m \in 1..Len(s)
            /\ \A j \in (m+1)..Len(s) : FALSE
            BY <2>6, <2>8, <3>0 DEF Writes, Keep
      <4> QED BY <4>1 DEF Ends
    <3> QED BY <2>8, <3>1, <3>4, <3>5 DEF Smooth
  <2>9. CASE DeviceType = "cpe"
    <3> DEFINE b == a \o <<k>>
    <3>1. s = b \o <<q>>
          BY <2>7, <2>9 DEF ForCPE
    <3>2. b \in Seq(Calls) /\ 1..Len(b) = 1..(4+1) /\ b[4+1] = k /\ \A i \in 1..4 : b[i] = a[i]
          BY <2>2, <2>11, AppendOne
    <3> HIDE DEF b
    <3>3. s \in Seq(Calls) /\ 1..Len(s) = 1..(5+1) /\ s[5+1] = q /\ \A i \in 1..5 : s[i] = b[i]
      <4>1. b \in Seq(Calls) /\ q \in Calls /\ 5 \in Nat /\ 1..Len(b) = 1..5
            BY <2>2, <3>2
      <4>2. /\ b \o <<q>> \in Seq(Calls) /\ 1..Len(b \o <<q>>) = 1..(5+1) /\ (b \o <<q>>)[5+1] = q
            /\ \A i \in 1..5 : (b \o <<q>>)[i] = b[i]
            BY <4>1, AppendOne
      <4> QED BY <3>1, <4>2
    <3>4. Smooth(s, tr, "on", "on")
          BY <3>2, <3>3, <2>8, <2>11
    <3> QED BY <3>4 DEF s
  <2>10. CASE DeviceType # "cpe"
    <3>1. s = a \o <<q>>
      <4>1. a \o <<>> = a
            BY <2>11
      <4> QED BY <4>1, <2>7, <2>10 DEF ForCPE
    <3>3. s \in Seq(Calls) /\ 1..Len(s) = 1..(4+1) /\ s[4+1] = q /\ \A i \in 1..4 : s[i] = a[i]
          BY <2>2, <3>1, <2>11, AppendOne
    <3>4. Smooth(s, tr, "on", "on")
          BY <3>3, <2>8, <2>11
    <3> QED BY <3>4 DEF s
  <2> QED BY <2>9, <2>10
<1> QED BY <1>1, <1>2

(* The first setup starts the publisher, or is refused.                    *)
LEMMA RunFirstSetupSmooth ==
  ASSUME NEW tr \in Transitions, NEW d \in Devices, tr.to = "active", tr.ev # "OnUpdateDevice", NEW u
  PROVE  \/ Smooth(RunFirstSetup(tr, d), tr, u, "on")
         \/ Smooth(RunFirstSetup(tr, d), tr, u, u) /\ Refuses(RunFirstSetup(tr, d))
<1> DEFINE a == <<Check("abort"),
                  Execute(Set("serial", tr.arg["serial"])),
                  Command("umEnabled", "on", "off"), Command("um", "on", "off")>>
           w == <<Func("ws", "on")>>
           b == ForCPE(<<Func("dhcp", "off")>>)
           c == <<SubscribeActive>>
           e == ForCPE(<<Now("deactivate", "on")>>)
           s == a \o w \o InitDevice(tr) \o b \o c \o e
<1>1. CASE d["port"] = None
  <2>1. RunFirstSetup(tr, d) = <<Check("refuse")>> /\ Check("refuse") \in StillCalls(tr)
        BY <1>1, StillCheck DEF RunFirstSetup, Errs
  <2>2. Smooth(RunFirstSetup(tr, d), tr, u, u)
    <3>1. RunFirstSetup(tr, d) \in Seq(StillCalls(tr))
          BY <2>1
    <3> QED BY <3>1, StillSmooth
  <2>3. Refuses(<<Check("refuse")>>)
        BY DEF Refuses, Check, Call
  <2> QED BY <2>1, <2>2, <2>3
<1>2. CASE d["port"] # None
  <2>1. RunFirstSetup(tr, d) = s
    <3>1. /\ RunFirstSetup(tr, d)
               = <<Check("abort"),
                   Execute(Set("serial", tr.arg["serial"])),
                   Command("umEnabled", "on", "off"), Command("um", "on", "off"),
                   Func("ws", "on")>> \o InitDevice(tr) \o b \o c \o e
          BY <1>2 DEF RunFirstSetup
    <3> DEFINE x == Check("abort")
               y == Execute(Set("serial", tr.arg["serial"]))
               z == Command("umEnabled", "on", "off")
               g == Command("um", "on", "off")
               h == Func("ws", "on")
    <3>2. a \o w = <<x, y, z, g, h>>
      <4>1. x \in Calls /\ z \in Calls /\ g \in Calls /\ h \in Calls
            BY CheckTypes, OnOffCallTypes DEF PlainCalls, Daemons, OnOff, Errs
      <4>2. y \in Calls
            BY ArgumentTypes, ConfigCallTypes DEF PlainCalls, Persisted
      <4>3. a = <<x, y, z, g>> /\ w = <<h>>
            OBVIOUS
      <4> HIDE DEF a, w, x, y, z, g, h
      <4> QED BY <4>1, <4>2, <4>3, FiveCalls
    <3> HIDE DEF a, w, b, c, e
    <3> QED BY <3>1, <3>2 DEF x, y, z, g, h
  <2>2. a \in Seq(StillCalls(tr))
    <3>1. Set("serial", tr.arg["serial"]) \in Configs
          BY ArgumentTypes DEF Persisted
    <3> QED BY <3>1, StillConfig, StillCheck, StillOnOff DEF Daemons, OnOff, Errs
  <2>3. b \in Seq(StillCalls(tr)) /\ c \in Seq(StillCalls(tr)) /\ e \in Seq(StillCalls(tr))
        BY StillOnOff DEF ForCPE, SubscribeActive, Daemons, OnOff
  <2>4. Smooth(w, tr, u, "on")
        BY SwitchSmooth DEF OnOff
  <2> HIDE DEF a, w, b, c, e
  <2>5. Smooth(a \o w, tr, u, "on")
        BY <2>2, <2>4, StillSmooth, SmoothAppend
  <2>6. Smooth(a \o w \o InitDevice(tr), tr, u, "on")
        BY <2>5, InitDeviceSmooth, SmoothAppend
  <2>7. Smooth(a \o w \o InitDevice(tr) \o b, tr, u, "on")
        BY <2>3, <2>6, StillSmooth, SmoothAppend
  <2>8. Smooth(a \o w \o InitDevice(tr) \o b \o c, tr, u, "on")
        BY <2>3, <2>7, StillSmooth, SmoothAppend
  <2>9. Smooth(s, tr, u, "on")
        BY <2>3, <2>8, StillSmooth, SmoothAppend
  <2> QED BY <2>1, <2>9
<1> QED BY <1>1, <1>2

(* Where a leg may begin: with the publisher on, where it goes on from an  *)
(* active device, and off on the way from boot and to init.                *)
WsStart(tr, d) ==
  /\ Meant(tr) /\ (tr.ev = "OnUpdateDevice" => tr.to = "maintenance")
  /\ tr.ev \in {"OnUpdateConfig", "OnRebuildServices", "OnUpdateDevice",
                "OnUpdateConfigFinished", "OnUpdateDeviceFinished"} => d["ws"] = "on"
  /\ tr.ev = "OnAfterBoot" \/ tr.to \in {"init", "ztp_setup"} => d["ws"] = "off"

(* Calls that lead the publisher where the leg wants it, or are refused.   *)
Leading(s, tr, d) ==
  \E w \in OnOff : Smooth(s, tr, d["ws"], w) /\ (w = WsGoal(tr) \/ Refuses(s))

(* Init, by its handler: nothing starts the publisher.                     *)
LEMMA HandleInitLeads ==
  ASSUME NEW tr \in Transitions, NEW d \in Devices, WsStart(tr, d), tr.to = "init"
  PROVE  Leading(HandleInit(tr, d), tr, d)
<1> DEFINE a == <<SubscribeInit, Logged(Set("umEnabled", "off")), Logged(Set("um", "off"))>>
           b == ForCPE(<<Func("starter", "on"), Func("dhcp", "on")>>)
<1>1. a \in Seq(StillCalls(tr)) /\ b \in Seq(StillCalls(tr)) /\ <<SubscribeInit>> \in Seq(StillCalls(tr))
      BY StillOnOff DEF ForCPE, SubscribeInit, Daemons, OnOff
<1>2. RestoreInitState = a \o b
      BY DEF RestoreInitState
<1> HIDE DEF a, b
<1>3. HandleInit(tr, d) \in Seq(StillCalls(tr))
      BY <1>1, <1>2 DEF HandleInit
<1>4. d["ws"] = "off" /\ WsGoal(tr) = "off"
      BY DEF WsStart, WsGoal
<1> QED BY <1>3, <1>4, StillSmooth DEF Leading, OnOff

(* ztp_setup: the port is configured without a publisher.                  *)
LEMMA HandleZTPSetupLeads ==
  ASSUME NEW tr \in Transitions, NEW d \in Devices, WsStart(tr, d), tr.to = "ztp_setup"
  PROVE  Leading(HandleZTPSetup(tr, d), tr, d)
<1>1. HandleZTPSetup(tr, d) \in Seq(StillCalls(tr))
  <2>1. Check("abort") \in StillCalls(tr) /\ Execute(NoChange) \in StillCalls(tr)
        /\ Execute(tr.arg) \in StillCalls(tr)
        BY StillConfig, StillCheck, ConfigTypes, ArgumentTypes DEF Errs
  <2> QED BY <2>1 DEF HandleZTPSetup, SetHubPort, DeleteHubPort
<1>2. d["ws"] = "off" /\ WsGoal(tr) = "off"
      BY DEF WsStart, WsGoal
<1> QED BY <1>1, <1>2, StillSmooth DEF Leading, OnOff

(* Active: the publisher is started unless it runs, or is running already. *)
LEMMA HandleActiveLeads ==
  ASSUME NEW tr \in Transitions, NEW d \in Devices, WsStart(tr, d), tr.to = "active"
  PROVE  Leading(HandleActive(tr, d), tr, d)
<1>1. WsGoal(tr) = "on" /\ tr.ev # "OnUpdateDevice" /\ d["ws"] \in OnOff
      BY DomainFacts DEF WsGoal, WsStart, Devices
<1>2. CASE tr.ev = "OnFirstSetup"
      BY <1>1, <1>2, RunFirstSetupSmooth DEF HandleActive, Leading, OnOff
<1>3. CASE tr.ev = "OnMigrateFromOldVersion"
  <2> DEFINE a == <<Execute(tr.arg), Func("um", "on")>>
             w == <<Func("ws", "on")>>
             c == <<SubscribeActive>>
  <2>1. HandleActive(tr, d) = a \o w \o c
        BY <1>3 DEF HandleActive, MigrateFromOldVersion
  <2>2. a \in Seq(StillCalls(tr)) /\ c \in Seq(StillCalls(tr))
        BY ArgumentTypes, StillConfig, StillOnOff DEF SubscribeActive, Daemons, OnOff
  <2>3. Smooth(w, tr, d["ws"], "on")
        BY <1>1, <1>3, SwitchSmooth DEF OnOff
  <2> HIDE DEF a, w, c
  <2>4. Smooth(a \o w, tr, d["ws"], "on")
        BY <2>2, <2>3, StillSmooth, SmoothAppend
  <2>5. Smooth(a \o w \o c, tr, d["ws"], "on")
        BY <2>2, <2>4, StillSmooth, SmoothAppend
  <2> QED BY <2>1, <2>5, <1>1 DEF Leading, OnOff
<1>4. CASE tr.ev \in {"OnUpdateConfigFinished", "OnUpdateDeviceFinished"}
  <2>1. HandleActive(tr, d) \in Seq(StillCalls(tr))
        BY <1>4, StillOnOff DEF HandleActive, SubscribeActive, Daemons, OnOff
  <2>2. d["ws"] = "on"
        BY <1>4 DEF WsStart
  <2> QED BY <2>1, <2>2, <1>1, StillSmooth DEF Leading, OnOff
<1>5. CASE tr.ev \notin {"OnFirstSetup", "OnMigrateFromOldVersion", "OnUpdateConfigFinished",
                         "OnUpdateDeviceFinished"}
  <2> DEFINE a == <<Func("um", "on"), Func("starter", "off")>>
             w == IF d["ws"] = "off" THEN <<Func("ws", "on")>> ELSE <<>>
             c == <<SubscribeActive>>
  <2>1. HandleActive(tr, d) = a \o w \o c
        BY <1>5 DEF HandleActive, RestoreActiveState
  <2>2. a \in Seq(StillCalls(tr)) /\ c \in Seq(StillCalls(tr)) /\ <<>> \in Seq(StillCalls(tr))
        BY StillOnOff DEF SubscribeActive, Daemons, OnOff
  <2>3. Smooth(w, tr, d["ws"], "on")
        BY <1>1, <2>2, SwitchSmooth, StillSmooth DEF OnOff
  <2> HIDE DEF a, w, c
  <2>4. Smooth(a \o w, tr, d["ws"], "on")
        BY <2>2, <2>3, StillSmooth, SmoothAppend
  <2>5. Smooth(a \o w \o c, tr, d["ws"], "on")
        BY <2>2, <2>4, StillSmooth, SmoothAppend
  <2> QED BY <2>1, <2>5, <1>1 DEF Leading, OnOff
<1> QED BY <1>2, <1>3, <1>4, <1>5

(* update_config: what is stopped by the way is started again.             *)
LEMMA HandleUpdateConfigLeads ==
  ASSUME NEW tr \in Transitions, NEW d \in Devices, WsStart(tr, d), tr.to = "update_config"
  PROVE  Leading(HandleUpdateConfig(tr, d), tr, d)
<1>1. Meant(tr) /\ tr.ev # "OnUpdateDevice" /\ tr.ev \in {"OnAfterBoot", "OnUpdateConfig", "OnRebuildServices"}
      BY DEF WsStart, Meant
<1>2. CASE tr.ev = "OnUpdateConfig"
  <2>1. d["ws"] = "on" /\ WsGoal(tr) = "on" /\ HandleUpdateConfig(tr, d) = UpdateConfig(tr, d)
        BY <1>2 DEF WsStart, WsGoal, HandleUpdateConfig
  <2> QED BY <2>1, <1>1, UpdateConfigSmooth DEF Leading, OnOff
<1>3. CASE tr.ev = "OnRebuildServices"
  <2>1. d["ws"] = "on" /\ WsGoal(tr) = "on" /\ HandleUpdateConfig(tr, d) = RebuildServices(d)
        BY <1>3 DEF WsStart, WsGoal, HandleUpdateConfig
  <2>2. Set("services", None) \in Configs /\ Set("services", d["services"]) \in Configs
        BY ArgumentTypes, ConfigTypes, DomainFacts DEF Persisted
  <2>3. RebuildServices(d) \in Seq(StillCalls(tr))
        BY <2>2, StillConfig DEF RebuildServices
  <2> QED BY <2>1, <2>3, StillSmooth DEF Leading, OnOff
<1>4. CASE tr.ev = "OnAfterBoot"
  <2>1. d["ws"] = "off" /\ WsGoal(tr) = "off" /\ HandleUpdateConfig(tr, d) = <<>>
        BY <1>4 DEF WsStart, WsGoal, HandleUpdateConfig
  <2>2. <<>> \in Seq(StillCalls(tr))
        OBVIOUS
  <2> QED BY <2>1, <2>2, StillSmooth DEF Leading, OnOff
<1> QED BY <1>1, <1>2, <1>3, <1>4

(* Maintenance: the publisher reports what the update manager did.         *)
LEMMA HandleMaintenanceLeads ==
  ASSUME NEW tr \in Transitions, NEW d \in Devices, WsStart(tr, d), tr.to = "maintenance"
  PROVE  Leading(HandleMaintenance(tr, d), tr, d)
<1>1. WsGoal(tr) = "on" /\ d["ws"] \in OnOff /\ tr.ev \in {"OnAfterBoot", "OnUpdateDevice"}
      BY DomainFacts DEF WsGoal, WsStart, Meant, Devices
<1>2. CASE tr.ev = "OnAfterBoot"
      BY <1>1, <1>2, ReportSmooth DEF HandleMaintenance, Leading, OnOff
<1>3. CASE tr.ev = "OnUpdateDevice"
  <2> DEFINE a == <<Check("finish")>>
             b == IF tr.pkg \in {"agent", "services"}
                  THEN <<Call(Set("services", None), "activity", "finish")>> ELSE <<>>
             c == IF tr.pkg = "agent" THEN <<CheckPoint("finish")>> ELSE <<>>
  <2>1. HandleMaintenance(tr, d) = a \o b \o c \o a
        BY <1>3 DEF HandleMaintenance, UpdateDevice
  <2>2. a \in Seq(StillCalls(tr)) /\ b \in Seq(StillCalls(tr)) /\ c \in Seq(StillCalls(tr))
    <3>1. Set("services", None) \in Configs
          BY ConfigTypes, DomainFacts DEF Persisted
    <3> QED BY <3>1, <1>3, StillConfig, StillCheck
  <2> HIDE DEF a, b, c
  <2>3. HandleMaintenance(tr, d) \in Seq(StillCalls(tr))
        BY <2>1, <2>2
  <2>4. d["ws"] = "on"
        BY <1>3 DEF WsStart
  <2> QED BY <2>3, <2>4, <1>1, StillSmooth DEF Leading, OnOff
<1> QED BY <1>1, <1>2, <1>3

(* Reset: the publisher is stopped if it runs.                             *)
LEMMA HandleResetLeads ==
  ASSUME NEW tr \in Transitions, NEW d \in Devices, WsStart(tr, d), tr.to = "reset"
  PROVE  Leading(HandleReset(tr, d), tr, d)
<1>1. WsGoal(tr) = "off" /\ d["ws"] \in OnOff /\ tr.ev \in {"OnAfterBoot", "OnReset"}
      BY DomainFacts DEF WsGoal, WsStart, Meant, Devices
<1>2. CASE tr.ev = "OnAfterBoot"
  <2>1. d["ws"] = "off" /\ HandleReset(tr, d) = <<>>
        BY <1>2 DEF WsStart, HandleReset
  <2>2. <<>> \in Seq(StillCalls(tr))
        OBVIOUS
  <2> QED BY <2>1, <2>2, <1>1, StillSmooth DEF Leading, OnOff
<1>3. CASE tr.ev = "OnReset"
  <2> DEFINE a == <<Execute(NoChange), Execute(EmptyConfig), Execute(NoChange),
                    Command("starterEnabled", "on", "off"), Command("dhcpEnabled", "on", "off"),
                    Func("um", "off"), CheckPoint("abort"), TryResetEnv>>
             hubCfg == [EmptyConfig EXCEPT !["port"] = d["port"]]
             b == <<Execute(NoChange), Execute(hubCfg), Func("um", "off"), TryResetEnv>>
  <2>1. Smooth(StopPublisher(d), tr, d["ws"], "off")
    <3>1. CASE d["ws"] = "on"
          BY <3>1, <1>3, SwitchSmooth DEF StopPublisher, OnOff
    <3>2. CASE d["ws"] = "off"
      <4>1. StopPublisher(d) = <<>> /\ <<>> \in Seq(StillCalls(tr))
            BY <3>2 DEF StopPublisher
      <4> QED BY <4>1, <3>2, StillSmooth
    <3> QED BY <3>1, <3>2, <1>1 DEF OnOff
  <2>2. /\ Execute(NoChange) \in StillCalls(tr) /\ Execute(EmptyConfig) \in StillCalls(tr)
        /\ Execute(hubCfg) \in StillCalls(tr)
        BY StillConfig, ConfigTypes, EmptyConfigType, HubConfigType
  <2>3. TryResetEnv \in StillCalls(tr) /\ Now("reboot", "pending") \in StillCalls(tr)
        BY StillService, DomainFacts DEF TryResetEnv, ServiceResources
  <2>4. /\ Command("starterEnabled", "on", "off") \in StillCalls(tr)
        /\ Command("dhcpEnabled", "on", "off") \in StillCalls(tr)
        /\ Func("um", "off") \in StillCalls(tr)
        /\ CheckPoint("abort") \in StillCalls(tr)
        BY StillOnOff, StillCheck DEF Daemons, OnOff, Errs
  <2> HIDE DEF hubCfg
  <2>5. a \in Seq(StillCalls(tr)) /\ b \in Seq(StillCalls(tr))
        BY <2>2, <2>3, <2>4
  <2>6. EraseDatabase \in Seq(StillCalls(tr))
    <3> DEFINE x == Call(Set("db", "off"), "none", "revoke")
               p == [r \in Resources |-> IF r \in Persisted THEN None ELSE Keep]
               y == Logged(p)
    <3>1. x \in StillCalls(tr)
      <4>1. Set("db", "off") \in Patches
            BY SetType, DomainFacts DEF OnOff
      <4>2. Set("db", "off")["ws"] = Keep /\ Set("db", "off")["pony"] = Keep
            BY DomainFacts DEF Set
      <4> QED BY <4>1, <4>2, NoChangeType DEF StillCalls, Still, Call, Calls, Logs, Errs
    <3>2. y \in StillCalls(tr)
      <4>1. p \in Patches
            BY DomainFacts DEF Patches, Values
      <4>2. p["ws"] = Keep /\ p["pony"] = Keep
            BY DomainFacts DEF Persisted
      <4> HIDE DEF p
      <4> QED BY <4>1, <4>2, NoChangeType DEF StillCalls, Still, Logged, Call, Calls, Logs, Errs
    <3>3. EraseDatabase = <<x, y, Now("reboot", "pending")>>
          BY DEF EraseDatabase
    <3> HIDE DEF x, y
    <3> QED BY <3>1, <3>2, <3>3, <2>3
  <2>7. /\ DeviceType # "hub" => HandleReset(tr, d) = (StopPublisher(d) \o a) \o EraseDatabase
        /\ DeviceType = "hub" => HandleReset(tr, d) = StopPublisher(d) \o b
        BY <1>3 DEF HandleReset, ResetCPE, ResetHub, hubCfg
  <2> HIDE DEF a, b
  <2>8. Smooth(StopPublisher(d) \o a, tr, d["ws"], "off") /\ Smooth(StopPublisher(d) \o b, tr, d["ws"], "off")
        BY <2>1, <2>5, StillSmooth, SmoothAppend
  <2>9. Smooth((StopPublisher(d) \o a) \o EraseDatabase, tr, d["ws"], "off")
        BY <2>6, <2>8, StillSmooth, SmoothAppend
  <2> QED BY <2>7, <2>8, <2>9, <1>1 DEF Leading, OnOff
<1> QED BY <1>1, <1>2, <1>3

(* What a leg does with the publisher, from OnExit to the end of Handle.   *)
LEMMA LegLeads ==
  ASSUME NEW tr \in Transitions, NEW d \in Devices, WsStart(tr, d)
  PROVE  Leading(PerformTransition(tr, d), tr, d)
<1> DEFINE a == OnExit(tr, d)
           b == UpdateAppState(tr, d)
           h == Handle(tr, d)
<1>1. a \in Seq(StillCalls(tr))
      BY StillOnOff DEF OnExit, UnsubscribeActive, UnsubscribeInit, OnOff
<1>2. b \in Seq(StillCalls(tr))
  <2>1. Execute(Set("state", tr.to)) \in StillCalls(tr)
    <3>1. Set("state", tr.to) \in Configs
          BY ArgumentTypes, ConfigTypes DEF Persisted
    <3> QED BY <3>1, StillConfig
  <2>2. Call(Set("active", tr.to), IF d["active"] = "boot" THEN "none" ELSE "func", "never") \in StillCalls(tr)
        BY ArgumentTypes, StillService DEF ServiceResources, Logs
  <2> QED BY <2>1, <2>2 DEF UpdateAppState
<1>3. Leading(h, tr, d)
  <2>1. tr.to \in {"init", "active", "update_config", "maintenance", "ztp_setup", "reset"}
        BY DEF Transitions, AppStates
  <2> QED BY <2>1, HandleInitLeads, HandleZTPSetupLeads, HandleActiveLeads, HandleUpdateConfigLeads,
             HandleMaintenanceLeads, HandleResetLeads DEF Handle
<1>4. PerformTransition(tr, d) = (a \o b) \o h
      BY DEF PerformTransition
<1> HIDE DEF a, b, h
<1>5. PICK w \in OnOff : Smooth(h, tr, d["ws"], w) /\ (w = WsGoal(tr) \/ Refuses(h))
      BY <1>3 DEF Leading
<1>6. Smooth(a \o b, tr, d["ws"], d["ws"])
      BY <1>1, <1>2, StillSmooth, SmoothAppend
<1>7. Smooth((a \o b) \o h, tr, d["ws"], w)
      BY <1>5, <1>6, SmoothAppend
<1>8. Refuses(h) => Refuses((a \o b) \o h)
      BY <1>5, <1>6, ReachesAppend DEF Smooth
<1> QED BY <1>4, <1>5, <1>7, <1>8 DEF Leading

-----------------------------------------------------------------------------
(* The invariant of the publisher.                                         *)

(* The event of a transition says where it leads.                          *)
Aims(tr) ==
  /\ tr.ev \in {"OnUpdateConfig", "OnRebuildServices"} => tr.to = "update_config"
  /\ tr.ev = "OnUpdateDevice" => tr.to = "maintenance"
  /\ tr.ev \in {"OnZTPSetupConfig", "OnHubSetPort", "OnHubDeletePort"} => tr.to = "ztp_setup"
  /\ tr.ev = "OnReset" => tr.to = "reset"
  /\ tr.ev \in {"OnFirstSetup", "OnMigrateFromOldVersion"} => tr.to = "active"

(* The callers' transitions are the requests the subjects offer.           *)
QueueRequested == \A i \in 1..Len(queue) : queue[i] \in Requests

(* Neither log has the tunnel monitoring, and the database no publisher.   *)
LogsKeep ==
  /\ tx.undo["ws"] = Keep /\ sealed.undo["ws"] = Keep
  /\ tx.undo["pony"] = Keep /\ tx.mem["pony"] = Keep
  /\ sealed.undo["pony"] = Keep /\ sealed.mem["pony"] = Keep
(* Run begins without a publisher.                                         *)
BootsSilent == phase \in {"dangling", "boot"} => dev["ws"] = "off" /\ dev["pony"] = "on"
(* At rest the publisher fits the state.                                   *)
RestsRight == phase = "idle" => WsRight(dev) /\ dev["pony"] = "on"
(* In a leg the calls to come lead the publisher where it belongs, and     *)
(* what is paused is resumed.                                              *)
LegPublishes ==
  phase = "leg" =>
    /\ Aims(leg) /\ (leg.ev = "OnAfterBoot" => booting)
    /\ WsFitting(todo, leg) /\ Resumes(todo, "pony") /\ Resumes(todo, "ws")
    /\ Ends(todo, "ws", dev["ws"], WsGoal(leg)) \/ Refuses(todo)
    /\ dev["pony"] = "off" => Opens(todo, 0, "pony")
(* Where the transaction would be taken back to the publisher fits, too;   *)
(* an update of the configuration has it in its own hands.                 *)
BackRight ==
  /\ sealed = NoTx /\ tx.mem["ws"] = Keep /\ Undone["active"] = "active"
  /\ dev["ws"] = "off" => Opens(todo, 0, "ws")
GoesBackRight ==
  phase \in {"leg", "rollback"} /\ ~booting =>
    IF phase = "leg" /\ leg.to = "update_config" THEN BackRight
    ELSE WsRight(Started) /\ (~Sealing => WsRight(Undone))
(* A rollback finds the tunnel monitoring resumed.                         *)
RollsResumed == phase = "rollback" => dev["pony"] = "on"

PublisherInv ==
  /\ QueueRequested /\ LogsKeep /\ BootsSilent /\ RestsRight
  /\ LegPublishes /\ GoesBackRight /\ RollsResumed

-----------------------------------------------------------------------------
(* The publisher and the state in memory, and the tunnel monitoring.       *)
Carried == {"ws", "active"}
(* They are resources, and nothing is logged at first.                     *)
LEMMA CarriedFacts ==
  /\ Carried \subseteq Resources /\ "pony" \in Resources
  /\ \A r \in Resources : NoTx.undo[r] = Keep /\ NoTx.mem[r] = Keep
BY DomainFacts DEF Carried, NoTx, NoChange

(* What the logs take them back to ...                                     *)
LEMMA WsBackAt ==
  ASSUME LogsApart, LogsKeep
  PROVE  /\ \A r \in Carried :
              /\ Undone[r] = IF tx.mem[r] = Keep THEN dev[r] ELSE tx.mem[r]
              /\ Started[r] = IF sealed.mem[r] = Keep THEN Undone[r] ELSE sealed.mem[r]
         /\ Undone["pony"] = dev["pony"]
<1>1. \A r \in Carried : r \in Resources /\ tx.undo[r] = Keep /\ sealed.undo[r] = Keep
      BY CarriedFacts DEF LogsApart, LogsKeep, Carried, Watched
<1>2. Undone["pony"] = dev["pony"]
      BY CarriedFacts DEF LogsKeep, Undone, Apply
<1>3. ASSUME NEW r \in Carried
      PROVE  /\ Undone[r] = IF tx.mem[r] = Keep THEN dev[r] ELSE tx.mem[r]
             /\ Started[r] = IF sealed.mem[r] = Keep THEN Undone[r] ELSE sealed.mem[r]
      BY <1>1 DEF Undone, Started, Apply
<1> QED BY <1>2, <1>3

(* ... and after a step.                                                   *)
LEMMA WsBackAtNext ==
  ASSUME LogsApart', LogsKeep'
  PROVE  \A r \in Carried :
           /\ Undone'[r] = IF tx'.mem[r] = Keep THEN dev'[r] ELSE tx'.mem[r]
           /\ Started'[r] = IF sealed'.mem[r] = Keep THEN Undone'[r] ELSE sealed'.mem[r]
<1>1. \A r \in Carried : r \in Resources /\ tx'.undo[r] = Keep /\ sealed'.undo[r] = Keep
      BY CarriedFacts DEF LogsApart, LogsKeep, Carried, Watched
<1> SUFFICES ASSUME NEW r \in Carried
             PROVE  /\ Undone'[r] = IF tx'.mem[r] = Keep THEN dev'[r] ELSE tx'.mem[r]
                    /\ Started'[r] = IF sealed'.mem[r] = Keep THEN Undone'[r] ELSE sealed'.mem[r]
    OBVIOUS
<1> QED BY <1>1 DEF Undone, Started, Apply

(* The rest of fitting calls.                                              *)
LEMMA WsTail ==
  ASSUME NEW s \in Seq(Calls), s # <<>>, NEW tr, WsFitting(s, tr)
  PROVE  WsFits(Head(s), tr) /\ WsFitting(Tail(s), tr)
<1>1. WsFits(Head(s), tr)
      BY TailParts DEF WsFitting
<1>2. WsFitting(Tail(s), tr)
      BY TailParts DEF WsFitting
<1> QED BY <1>1, <1>2

(* No call of an update of the device writes the publisher.                *)
LEMMA UpdateSilent ==
  ASSUME NEW s, NEW tr, WsFitting(s, tr), tr.ev = "OnUpdateDevice", NEW v, NEW w,
         Ends(s, "ws", v, w)
  PROVE  v = w
BY DEF WsFitting, WsFits, Ends, Writes

-----------------------------------------------------------------------------
(* One call succeeds.                                                      *)
LEMMA StepLogsKeep ==
  ASSUME AtomicInv, RestInv, PublisherInv, Step
  PROVE  LogsKeep'
<1> DEFINE c == Head(todo)
<1>1. WsFits(c, leg)
      BY StepFacts, WsTail DEF PublisherInv, LegPublishes
<1>2. /\ c.set["ws"] # Keep => c.log \in {"func", "none"}
      /\ c.set["pony"] # Keep => c.log = "none"
      BY <1>1 DEF WsFits
<1>3. "ws" \in Resources /\ "pony" \in Resources /\ LogsKeep /\ tx \in [undo : Patches, mem : Patches]
      BY StepFacts, CarriedFacts DEF PublisherInv, Carried
<1>4. CASE c.log = "activity"
  <2>1. tx'.undo = Record(c, tx.undo, dev) /\ tx'.mem = tx.mem /\ sealed' = sealed
        BY <1>3, <1>4 DEF Step
  <2> QED BY <2>1, <1>2, <1>3, <1>4 DEF Record, LogsKeep
<1>5. CASE c.log = "func"
  <2>1. tx'.mem = Record(c, tx.mem, dev) /\ tx'.undo = tx.undo /\ sealed' = sealed
        BY <1>3, <1>5 DEF Step
  <2> QED BY <2>1, <1>2, <1>3, <1>5 DEF Record, LogsKeep
<1>6. CASE c.log = "checkpoint"
  <2>1. tx' = NoTx /\ sealed' = tx
        BY <1>6 DEF Step
  <2> QED BY <2>1, <1>3, CarriedFacts DEF LogsKeep
<1>7. CASE c.log \notin {"activity", "func", "checkpoint"}
  <2>1. tx' = tx /\ sealed' = sealed
        BY <1>7 DEF Step
  <2> QED BY <2>1, <1>3 DEF LogsKeep
<1> QED BY <1>4, <1>5, <1>6, <1>7

(* The calls that are left lead on.                                        *)
LEMMA StepPublishes ==
  ASSUME AtomicInv, RestInv, PublisherInv, Step
  PROVE  LegPublishes'
<1> DEFINE c == Head(todo)
<1>1. /\ todo' = Tail(todo) /\ leg' = leg /\ booting' = booting
      /\ c \in Calls /\ todo \in Seq(Calls) /\ todo # <<>>
      BY StepFacts DEF Step
<1>2. /\ Aims(leg) /\ (leg.ev = "OnAfterBoot" => booting)
      /\ WsFitting(todo, leg) /\ Resumes(todo, "pony") /\ Resumes(todo, "ws")
      /\ Ends(todo, "ws", dev["ws"], WsGoal(leg)) \/ Refuses(todo)
      /\ dev["pony"] = "off" => Opens(todo, 0, "pony")
      BY StepFacts DEF PublisherInv, LegPublishes
<1>3. WsFits(c, leg) /\ WsFitting(Tail(todo), leg)
      BY <1>1, <1>2, WsTail
<1>4. Resumes(Tail(todo), "pony") /\ Resumes(Tail(todo), "ws")
      BY <1>1, <1>2, OpensTail
<1>5. /\ dev'["ws"] = IF c.set["ws"] = Keep THEN dev["ws"] ELSE c.set["ws"]
      /\ dev'["pony"] = IF c.set["pony"] = Keep THEN dev["pony"] ELSE c.set["pony"]
      BY StepFacts, CarriedFacts DEF Carried
<1>6. Ends(Tail(todo), "ws", dev'["ws"], WsGoal(leg)) \/ Refuses(Tail(todo))
  <2>1. CASE Refuses(todo)
        BY <2>1, <1>1, TailReaches, StepFacts
  <2>2. CASE Ends(todo, "ws", dev["ws"], WsGoal(leg))
        BY <2>2, <1>1, <1>5, EndsTail DEF Writes
  <2> QED BY <2>1, <2>2, <1>2
<1>7. ASSUME dev'["pony"] = "off" PROVE Opens(Tail(todo), 0, "pony")
  <2>1. CASE c.set["pony"] = Keep
    <3>1. dev["pony"] = "off" /\ ~SwitchesOn(c, "pony")
          BY <1>5, <1>7, <2>1 DEF SwitchesOn, Keep
    <3> QED BY <3>1, <1>1, <1>2, OpensTail
  <2>2. CASE c.set["pony"] # Keep
    <3>1. c.set["pony"] = "off" /\ c.log = "none"
          BY <1>3, <1>5, <1>7, <2>2 DEF WsFits
    <3> QED BY <3>1, <1>1, <1>2, OpensTail
  <2> QED BY <2>1, <2>2
<1> QED BY <1>1, <1>2, <1>3, <1>4, <1>6, <1>7 DEF LegPublishes

(* Where the transaction would be taken back to stays where it was.        *)
LEMMA StepWsBack ==
  ASSUME AtomicInv, RestInv, PublisherInv, Step, AtomicInv', RestInv', LogsKeep', ~booting,
         Head(todo).log # "checkpoint", leg.to # "update_config"
  PROVE  \A r \in Carried : Undone'[r] = Undone[r] /\ Started'[r] = Started[r]
<1> DEFINE c == Head(todo)
<1>1. /\ sealed' = sealed /\ tx \in [undo : Patches, mem : Patches]
      /\ LogsApart /\ LogsApart' /\ LogsKeep /\ MemHasNoConfig'
      BY StepFacts DEF Step, RestInv, AtomicInv, PublisherInv
<1>2. Undone'["active"] = Undone["active"] /\ Started'["active"] = Started["active"]
      BY <1>1, StepGoesBack DEF Watched
<1>3. WsFits(c, leg) /\ leg.ev # "OnAfterBoot"
      BY StepFacts, WsTail DEF PublisherInv, LegPublishes
<1>4. Undone'["ws"] = Undone["ws"]
  <2>1. "ws" \in Resources /\ "ws" \in Carried /\ dev["ws"] # Keep
        BY CarriedFacts, KeepIsNoValue, StepFacts DEF Devices, Carried
  <2>2. dev'["ws"] = IF c.set["ws"] = Keep THEN dev["ws"] ELSE c.set["ws"]
        BY <2>1, StepFacts
  <2>3. CASE c.set["ws"] = Keep
    <3>1. tx'.mem["ws"] = tx.mem["ws"]
      <4>1. CASE c.log = "func"
        <5>1. tx'.mem = Record(c, tx.mem, dev)
              BY <4>1, <1>1 DEF Step
        <5> QED BY <5>1, <2>1, <2>3 DEF Record
      <4>2. CASE c.log # "func"
            BY <4>2, <1>1 DEF Step
      <4> QED BY <4>1, <4>2
    <3> QED BY <3>1, <2>1, <2>2, <2>3, <1>1, WsBackAt, WsBackAtNext
  <2>4. CASE c.set["ws"] # Keep
    <3>1. c.log = "func" /\ c.inv["ws"] = Keep
          BY <2>4, <1>3 DEF WsFits
    <3>2. tx'.mem = Record(c, tx.mem, dev)
          BY <3>1, <1>1 DEF Step
    <3>3. tx'.mem["ws"] = IF tx.mem["ws"] # Keep THEN tx.mem["ws"] ELSE dev["ws"]
          BY <3>1, <3>2, <2>1, <2>4 DEF Record
    <3> QED BY <3>3, <2>1, <1>1, WsBackAt, WsBackAtNext
  <2> QED BY <2>3, <2>4
<1>5. Started'["ws"] = Started["ws"]
      BY <1>1, <1>4, WsBackAt, WsBackAtNext DEF Carried
<1> QED BY <1>2, <1>4, <1>5 DEF Carried

(* The publisher fits where the publisher and the state are the same.      *)
LEMMA RightAlike ==
  ASSUME NEW d, NEW e, \A r \in Carried : e[r] = d[r]
  PROVE  WsRight(e) <=> WsRight(d)
BY DEF Carried, WsRight

(* A call outside an update of the configuration.                          *)
LEMMA StepGoesBackRight ==
  ASSUME AtomicInv, RestInv, PublisherInv, Step, AtomicInv', RestInv', LogsKeep', ~booting,
         Head(todo).log # "checkpoint", leg.to # "update_config"
  PROVE  GoesBackRight'
<1>1. WsRight(Started) /\ (~Sealing => WsRight(Undone))
      BY StepFacts DEF PublisherInv, GoesBackRight
<1>2. WsRight(Started') /\ (~Sealing => WsRight(Undone'))
      BY <1>1, StepWsBack, RightAlike
<1>3. todo' = Tail(todo) /\ leg' = leg /\ phase' = "leg"
      BY StepFacts DEF Step
<1>4. Sealing => Sealing'
      BY <1>3, StepFacts, TailFits DEF Sealing
<1> QED BY <1>2, <1>3, <1>4 DEF GoesBackRight

(* A checkpoint outside of a reset finds the publisher on in maintenance.  *)
LEMMA CheckPointGoesBackRight ==
  ASSUME AtomicInv, RestInv, PublisherInv, Step, AtomicInv', RestInv', LogsKeep', ~booting,
         Head(todo).log = "checkpoint"
  PROVE  GoesBackRight'
<1> DEFINE c == Head(todo)
<1>1. /\ tx' = NoTx /\ sealed' = tx /\ todo' = Tail(todo) /\ leg' = leg
      /\ LogsApart /\ LogsApart' /\ LogsKeep
      BY StepFacts DEF Step, RestInv, PublisherInv
<1>2. Fits(c, leg, dev, booting) /\ WsFits(c, leg) /\ Late(c)
      BY StepFacts, WsTail DEF PublisherInv, LegPublishes, Late
<1>3. c.set["ws"] = Keep /\ c.set["active"] = Keep /\ (leg.to = "maintenance" \/ Erasing(leg))
      BY <1>2 DEF Fits, WsFits, Special, Watched
<1>4. leg.to # "update_config"
      BY <1>3 DEF Erasing
<1>5. \A r \in Carried : dev'[r] = dev[r]
      BY <1>3, StepFacts, CarriedFacts DEF Carried
<1>6. CheckPointed(todo)
      BY StepFacts, TailReaches
<1>7. sealed = NoTx /\ WsRight(Started)
      BY <1>4, <1>6, StepFacts DEF RestInv, CanGoBack, PublisherInv, GoesBackRight
<1>8. \A r \in Carried : Started'[r] = Started[r] /\ Undone'[r] = dev[r]
  <2>1. \A r \in Carried : NoTx.mem[r] = Keep
        BY CarriedFacts
  <2>2. \A r \in Carried : Undone'[r] = dev[r]
        BY <2>1, <1>1, <1>5, WsBackAtNext
  <2>3. \A r \in Carried : Started[r] = Undone[r]
        BY <2>1, <1>1, <1>7, WsBackAt
  <2>4. \A r \in Carried : Started'[r] = Undone[r]
        BY <2>2, <1>1, WsBackAtNext, WsBackAt
  <2> QED BY <2>2, <2>3, <2>4
<1>9. WsRight(Started')
      BY <1>7, <1>8, RightAlike
<1>10. ASSUME ~Sealing' PROVE WsRight(Undone')
  <2>1. leg.to = "maintenance"
    <3>1. ASSUME Erasing(leg) PROVE FALSE
      <4>1. \A i \in 1..Len(Tail(todo)) : Behind(c, Tail(todo)[i], leg)
            BY StepFacts, TailFits DEF RestInv, InLeg
      <4>2. \A i \in 1..Len(Tail(todo)) : Sure(Tail(todo)[i])
            BY <4>1, <3>1 DEF Behind, Erasing
      <4> QED BY <4>2, <3>1, <1>1, <1>10, StepFacts DEF Sealing
    <3> QED BY <3>1, <1>3
  <2>2. dev["active"] = "maintenance"
    <3>1. Settled(leg, dev)
          BY <1>2, <2>1, StepFacts, SettlesLate DEF RestInv, InLeg
    <3> QED BY <3>1, <2>1 DEF Settled, Watched, Goal
  <2>3. dev["ws"] = "on"
    <3>1. Meant(leg) /\ Fitting(todo, leg, dev, booting)
          BY StepFacts DEF RestInv, InLeg
    <3>2. leg.ev = "OnUpdateDevice"
          BY <3>1, <2>1, StepFacts DEF Meant, PublisherInv, LegPublishes
    <3>3. ~Refuses(todo)
          BY <3>1, <2>1 DEF Fitting, Fits, Refuses
    <3>4. WsFitting(todo, leg) /\ Ends(todo, "ws", dev["ws"], WsGoal(leg))
          BY <3>3, StepFacts DEF PublisherInv, LegPublishes
    <3>5. dev["ws"] = WsGoal(leg)
          BY <3>2, <3>4, UpdateSilent
    <3> QED BY <3>5, <2>1 DEF WsGoal
  <2>4. WsRight(dev)
        BY <2>2, <2>3 DEF WsRight
  <2> QED BY <2>4, <1>8, RightAlike
<1> QED BY <1>1, <1>4, <1>9, <1>10, StepFacts DEF GoesBackRight

(* A call of an update of the configuration.                               *)
LEMMA StepUpdateRight ==
  ASSUME AtomicInv, RestInv, PublisherInv, Step, AtomicInv', RestInv', LogsKeep', ~booting,
         leg.to = "update_config"
  PROVE  GoesBackRight'
<1> DEFINE c == Head(todo)
<1>1. Fits(c, leg, dev, booting) /\ WsFits(c, leg)
      BY StepFacts, WsTail DEF PublisherInv, LegPublishes
<1>2. c.log # "checkpoint" /\ (c.set["ws"] # Keep => c.log = "none")
      BY <1>1 DEF Fits, WsFits, Erasing
<1>3. sealed = NoTx /\ tx.mem["ws"] = Keep /\ Undone["active"] = "active"
      /\ (dev["ws"] = "off" => Opens(todo, 0, "ws"))
      BY StepFacts DEF PublisherInv, GoesBackRight, BackRight
<1>4. sealed' = NoTx /\ tx'.mem["ws"] = Keep
  <2>1. CASE c.log = "func"
    <3>1. tx'.mem = Record(c, tx.mem, dev) /\ sealed' = sealed
          BY <2>1, StepFacts DEF Step
    <3> QED BY <3>1, <2>1, <1>2, <1>3, CarriedFacts DEF Record, Carried
  <2>2. CASE c.log # "func"
    <3>1. tx'.mem = tx.mem /\ sealed' = sealed
          BY <2>2, <1>2, StepFacts DEF Step
    <3> QED BY <3>1, <1>3
  <2> QED BY <2>1, <2>2
<1>5. Undone'["active"] = "active"
      BY <1>2, <1>3, StepGoesBack DEF RestInv, AtomicInv, Watched
<1>6. ASSUME dev'["ws"] = "off" PROVE Opens(Tail(todo), 0, "ws")
  <2>1. dev'["ws"] = IF c.set["ws"] = Keep THEN dev["ws"] ELSE c.set["ws"]
        BY StepFacts, CarriedFacts DEF Carried
  <2>2. Resumes(todo, "ws")
        BY StepFacts DEF PublisherInv, LegPublishes
  <2>3. CASE c.set["ws"] = Keep
    <3>1. dev["ws"] = "off" /\ ~SwitchesOn(c, "ws")
          BY <1>6, <2>1, <2>3 DEF SwitchesOn, Keep
    <3> QED BY <3>1, <1>3, StepFacts, OpensTail
  <2>4. CASE c.set["ws"] # Keep
    <3>1. c.set["ws"] = "off" /\ c.log = "none"
          BY <1>2, <1>6, <2>1, <2>4
    <3> QED BY <3>1, <2>2, StepFacts, OpensTail
  <2> QED BY <2>3, <2>4
<1>7. todo' = Tail(todo) /\ leg' = leg /\ phase' = "leg"
      BY StepFacts DEF Step
<1> QED BY <1>4, <1>5, <1>6, <1>7 DEF GoesBackRight, BackRight

(* A call keeps the invariant.                                             *)
LEMMA StepPublisher ==
  ASSUME AtomicInv, RestInv, PublisherInv, Step, AtomicInv', RestInv'
  PROVE  PublisherInv'
<1>1. LogsKeep' /\ LegPublishes'
      BY StepLogsKeep, StepPublishes
<1>2. QueueRequested' /\ BootsSilent' /\ RestsRight' /\ RollsResumed'
  <2>1. queue' = queue /\ phase' = "leg"
        BY StepFacts DEF Step
  <2> QED BY <2>1 DEF PublisherInv, QueueRequested, BootsSilent, RestsRight, RollsResumed
<1>3. GoesBackRight'
  <2>1. CASE booting
    <3>1. booting'
          BY <2>1 DEF Step
    <3> QED BY <3>1 DEF GoesBackRight
  <2>2. CASE ~booting
        BY <2>2, <1>1, StepGoesBackRight, CheckPointGoesBackRight, StepUpdateRight
  <2> QED BY <2>1, <2>2
<1> QED BY <1>1, <1>2, <1>3 DEF PublisherInv

-----------------------------------------------------------------------------
(* One call fails.  What it puts right by itself.                          *)
LEMMA CleanupParts ==
  ASSUME NEW c
  PROVE  /\ Cleanup(c)["active"] = Keep
         /\ Cleanup(c)["ws"] = IF c.err = "restart" THEN "on" ELSE Keep
         /\ Cleanup(c)["pony"] = IF c.err \in {"restart", "resume"} THEN "on" ELSE Keep
BY CarriedFacts DEF Cleanup, NoChange, Set, Carried

(* What a failing call leaves behind.                                      *)
LEMMA FailParts ==
  ASSUME AtomicInv, RestInv, PublisherInv, CallFails
  PROVE  /\ dev'["active"] = dev["active"]
         /\ dev'["ws"] = IF Head(todo).err = "restart" THEN "on" ELSE dev["ws"]
         /\ dev'["pony"] = IF Head(todo).err \in {"restart", "resume"} THEN "on" ELSE dev["pony"]
         /\ WsFits(Head(todo), leg) /\ WsFitting(Tail(todo), leg)
         /\ Head(todo).set["ws"] = Keep \/ Head(todo).set["ws"] = dev["ws"] \/ Head(todo).err = "refuse"
<1>1. dev' = Apply(Cleanup(Head(todo)), dev)
      BY DEF CallFails
<1>2. /\ dev'["active"] = dev["active"]
      /\ dev'["ws"] = IF Head(todo).err = "restart" THEN "on" ELSE dev["ws"]
      /\ dev'["pony"] = IF Head(todo).err \in {"restart", "resume"} THEN "on" ELSE dev["pony"]
      BY <1>1, CleanupParts, CarriedFacts DEF Apply, Carried, Keep
<1>3. WsFits(Head(todo), leg) /\ WsFitting(Tail(todo), leg)
      BY FailFacts, WsTail DEF PublisherInv, LegPublishes
<1>4. Head(todo).set["ws"] = Keep \/ Head(todo).set["ws"] = dev["ws"] \/ Head(todo).err = "refuse"
      BY DEF CallFails, Refused, MayFail
<1> QED BY <1>2, <1>3, <1>4

(* Whoever pauses the tunnel monitoring or stops the publisher by itself   *)
(* has no call in between that fails for good.                             *)
LEMMA FailOpens ==
  ASSUME AtomicInv, RestInv, PublisherInv, CallFails
  PROVE  /\ dev["pony"] = "off" =>
              /\ Head(todo).err \in {"restart", "resume", "log"}
              /\ Opens(Tail(todo), 0, "pony")
         /\ dev["ws"] = "off" /\ Opens(todo, 0, "ws") =>
              /\ Head(todo).err \in {"restart", "log"}
              /\ Opens(Tail(todo), 0, "ws")
<1>1. todo \in Seq(Calls) /\ todo # <<>> /\ Head(todo).err # "never"
      BY FailFacts
<1>2. dev["pony"] = "off" => Opens(todo, 0, "pony")
      BY FailFacts DEF PublisherInv, LegPublishes
<1>3. ~SwitchesOn(Head(todo), "pony")
      BY <1>1 DEF SwitchesOn
<1>4. dev["ws"] = "off" => ~SwitchesOn(Head(todo), "ws")
      BY FailParts DEF SwitchesOn, Keep
<1>5. dev["pony"] = "off" => Head(todo).err \in Passes("pony") /\ Opens(Tail(todo), 0, "pony")
      BY <1>1, <1>2, <1>3, OpensTail
<1>6. dev["ws"] = "off" /\ Opens(todo, 0, "ws") =>
        Head(todo).err \in Passes("ws") /\ Opens(Tail(todo), 0, "ws")
      BY <1>1, <1>4, OpensTail
<1> QED BY <1>1, <1>5, <1>6 DEF Passes

(* A failing call logs nothing.                                            *)
LEMMA FailLogsKeep ==
  ASSUME AtomicInv, RestInv, PublisherInv, CallFails
  PROVE  LogsKeep'
<1>1. LogsKeep
      BY DEF PublisherInv
<1>2. CASE Head(todo).err \in {"revoke", "finish"}
  <2>1. /\ tx' = [undo |-> Apply(sealed.undo, tx.undo), mem |-> Apply(sealed.mem, tx.mem)]
        /\ sealed' = NoTx
        BY <1>2 DEF CallFails, DeleteCheckPoint
  <2> QED BY <2>1, <1>1, CarriedFacts DEF LogsKeep, Apply, Carried
<1>3. CASE Head(todo).err \notin {"revoke", "finish"}
  <2>1. tx' = tx /\ sealed' = sealed
        BY <1>3 DEF CallFails
  <2> QED BY <2>1, <1>1 DEF LogsKeep
<1> QED BY <1>2, <1>3

(* The calls that are left, if any, lead on.                               *)
LEMMA FailPublishes ==
  ASSUME AtomicInv, RestInv, PublisherInv, CallFails
  PROVE  LegPublishes' /\ RollsResumed'
<1> DEFINE c == Head(todo)
<1>0. dev["pony"] \in OnOff /\ todo \in Seq(Calls) /\ todo # <<>> /\ leg' = leg /\ booting' = booting
      BY FailFacts, DomainFacts DEF AtomicInv, TypeOK, Devices
<1>1. /\ Aims(leg) /\ (leg.ev = "OnAfterBoot" => booting)
      /\ WsFitting(todo, leg) /\ Resumes(todo, "pony") /\ Resumes(todo, "ws")
      /\ Ends(todo, "ws", dev["ws"], WsGoal(leg)) \/ Refuses(todo)
      BY FailFacts DEF PublisherInv, LegPublishes
<1>2. CASE c.err = "log"
  <2>1. todo' = Tail(todo) /\ phase' = "leg"
        BY <1>2 DEF CallFails
  <2>2. dev'["ws"] = dev["ws"] /\ dev'["pony"] = dev["pony"] /\ WsFitting(Tail(todo), leg)
        /\ (c.set["ws"] = Keep \/ c.set["ws"] = dev["ws"])
        BY <1>2, FailParts
  <2>3. Resumes(Tail(todo), "pony") /\ Resumes(Tail(todo), "ws")
        BY <1>0, <1>1, OpensTail
  <2>4. Ends(Tail(todo), "ws", dev'["ws"], WsGoal(leg)) \/ Refuses(Tail(todo))
    <3>1. CASE Refuses(todo)
          BY <3>1, <1>0, <1>2, TailReaches
    <3>2. CASE Ends(todo, "ws", dev["ws"], WsGoal(leg))
          BY <3>2, <1>0, <2>2, EndsTail DEF Writes
    <3> QED BY <3>1, <3>2, <1>1
  <2>5. dev'["pony"] = "off" => Opens(Tail(todo), 0, "pony")
        BY <2>2, FailOpens
  <2> QED BY <1>0, <1>1, <2>1, <2>2, <2>3, <2>4, <2>5 DEF LegPublishes, RollsResumed
<1>3. CASE c.err = "finish"
  <2>1. todo' = <<>> /\ phase' = "leg"
        BY <1>3 DEF CallFails
  <2>2. leg.ev = "OnUpdateDevice" /\ dev'["ws"] = dev["ws"] /\ dev'["pony"] = dev["pony"]
        BY <1>3, FailParts DEF WsFits
  <2>3. dev'["pony"] # "off"
        BY <1>3, <2>2, FailOpens
  <2>4. Ends(<<>>, "ws", dev'["ws"], WsGoal(leg))
    <3>1. ~Refuses(todo)
      <4>1. Fitting(todo, leg, dev, booting) /\ leg.to = "maintenance"
            BY FailFacts, <1>1, <2>2 DEF Aims
      <4> QED BY <4>1 DEF Fitting, Fits, Refuses
    <3>2. dev["ws"] = WsGoal(leg)
          BY <3>1, <2>2, <1>1, UpdateSilent
    <3> QED BY <3>2, <2>2, EndsNil
  <2>5. WsFitting(<<>>, leg)
        BY DEF WsFitting
  <2> QED BY <1>0, <1>1, <2>1, <2>3, <2>4, <2>5, OpensNil DEF LegPublishes, RollsResumed
<1>4. CASE c.err \notin {"log", "finish"}
  <2>1. phase' = "rollback"
        BY <1>4 DEF CallFails
  <2>2. dev'["pony"] = "on"
    <3>1. CASE c.err \in {"restart", "resume"}
          BY <3>1, FailParts
    <3>2. CASE c.err \notin {"restart", "resume"}
          BY <3>2, <1>0, <1>4, FailParts, FailOpens DEF OnOff
    <3> QED BY <3>1, <3>2
  <2> QED BY <2>1, <2>2 DEF LegPublishes, RollsResumed
<1> QED BY <1>2, <1>3, <1>4

(* The deletion of the checkpoint takes the device back to the start.      *)
LEMMA RevokeBackRight ==
  ASSUME AtomicInv, RestInv, PublisherInv, CallFails, RestInv', LogsKeep', ~booting,
         Head(todo).err \in {"revoke", "finish"}
  PROVE  GoesBackRight'
<1> DEFINE c == Head(todo)
<1>1. /\ tx' = [undo |-> Apply(sealed.undo, tx.undo), mem |-> Apply(sealed.mem, tx.mem)]
      /\ sealed' = NoTx
      BY DEF CallFails, DeleteCheckPoint
<1>2. LogsApart /\ LogsApart' /\ LogsKeep
      BY DEF RestInv, PublisherInv
<1>3. leg.to # "update_config" /\ leg' = leg
  <2>1. Fits(c, leg, dev, booting) /\ leg' = leg
        BY FailFacts
  <2> QED BY <2>1 DEF Fits, Erasing
<1>4. \A r \in Carried : dev'[r] = dev[r]
      BY FailParts DEF Carried
<1>5. ASSUME NEW r \in Carried PROVE Undone'[r] = Started[r] /\ Started'[r] = Started[r]
  <2>1. r \in Resources /\ NoTx.mem[r] = Keep
        BY CarriedFacts
  <2>2. tx'.mem[r] = IF sealed.mem[r] = Keep THEN tx.mem[r] ELSE sealed.mem[r]
        BY <2>1, <1>1 DEF Apply
  <2> QED BY <2>1, <2>2, <1>1, <1>2, <1>4, WsBackAt, WsBackAtNext
<1>6. WsRight(Started)
      BY <1>3, FailFacts DEF PublisherInv, GoesBackRight
<1>7. WsRight(Started') /\ WsRight(Undone')
      BY <1>5, <1>6, RightAlike
<1> QED BY <1>3, <1>7 DEF GoesBackRight

(* Without it, the publisher is where it was ...                           *)
LEMMA FailBackRight ==
  ASSUME AtomicInv, RestInv, PublisherInv, CallFails, RestInv', LogsKeep', ~booting,
         Head(todo).err \notin {"revoke", "finish"}, leg.to # "update_config"
  PROVE  GoesBackRight'
<1> DEFINE c == Head(todo)
<1>1. UNCHANGED <<tx, sealed>> /\ leg' = leg /\ LogsApart /\ LogsApart' /\ LogsKeep
      BY FailFacts DEF CallFails, RestInv, PublisherInv
<1>2. c.err # "restart"
      BY FailParts DEF WsFits
<1>3. \A r \in Carried : dev'[r] = dev[r]
      BY <1>2, FailParts DEF Carried
<1>4. \A r \in Carried : Undone'[r] = Undone[r] /\ Started'[r] = Started[r]
      BY <1>1, <1>3, WsBackAt, WsBackAtNext
<1>5. WsRight(Started) /\ (~Sealing => WsRight(Undone))
      BY FailFacts DEF PublisherInv, GoesBackRight
<1>6. WsRight(Started') /\ (~Sealing => WsRight(Undone'))
      BY <1>4, <1>5, RightAlike
<1>7. ~Sealing' => ~Sealing
  <2>1. CASE c.err = "log"
    <3>1. todo' = Tail(todo) /\ phase' = "leg"
          BY <2>1 DEF CallFails
    <3> QED BY <3>1, <1>1, FailFacts, TailFits DEF Sealing
  <2>2. CASE c.err # "log"
    <3>1. ~Sure(c) /\ 1 \in 1..Len(todo) /\ c = todo[1]
          BY <2>2, FailFacts, TailParts DEF Sure
    <3> QED BY <3>1 DEF Sealing
  <2> QED BY <2>1, <2>2
<1> QED BY <1>1, <1>6, <1>7 DEF GoesBackRight

(* ... and an update of the configuration resumes it.                      *)
LEMMA FailUpdateRight ==
  ASSUME AtomicInv, RestInv, PublisherInv, CallFails, RestInv', LogsKeep', ~booting,
         Head(todo).err \notin {"revoke", "finish"}, leg.to = "update_config"
  PROVE  GoesBackRight'
<1> DEFINE c == Head(todo)
<1>1. UNCHANGED <<tx, sealed>> /\ leg' = leg /\ LogsApart /\ LogsApart' /\ LogsKeep
      BY FailFacts DEF CallFails, RestInv, PublisherInv
<1>2. sealed = NoTx /\ tx.mem["ws"] = Keep /\ Undone["active"] = "active"
      /\ (dev["ws"] = "off" => Opens(todo, 0, "ws"))
      BY FailFacts DEF PublisherInv, GoesBackRight, BackRight
<1>3. Undone'["active"] = "active"
      BY <1>1, <1>2, FailParts, WsBackAt, WsBackAtNext DEF Carried
<1>4. CASE c.err = "log"
  <2>1. todo' = Tail(todo) /\ phase' = "leg" /\ dev'["ws"] = dev["ws"]
        BY <1>4, FailParts DEF CallFails
  <2>2. dev["ws"] = "off" => Opens(Tail(todo), 0, "ws")
        BY <1>2, FailOpens
  <2> QED BY <1>1, <1>2, <1>3, <2>1, <2>2 DEF GoesBackRight, BackRight
<1>5. CASE c.err # "log"
  <2>1. phase' = "rollback"
        BY <1>5 DEF CallFails
  <2>2. dev'["ws"] = "on"
    <3>1. dev["ws"] \in OnOff
          BY DomainFacts DEF AtomicInv, TypeOK, Devices
    <3>2. c.err # "restart" => dev["ws"] # "off"
          BY <1>2, <1>5, FailOpens
    <3> QED BY <3>1, <3>2, FailParts DEF OnOff
  <2>3. Undone'["ws"] = "on"
        BY <2>2, <1>1, <1>2, WsBackAtNext DEF Carried
  <2>4. \A r \in Carried : Started'[r] = Undone'[r]
        BY <1>1, <1>2, CarriedFacts, WsBackAtNext
  <2>5. WsRight(Undone')
        BY <2>3, <1>3 DEF WsRight
  <2> QED BY <2>1, <2>4, <2>5, RightAlike DEF GoesBackRight
<1> QED BY <1>4, <1>5

(* A failing call keeps the invariant.                                     *)
LEMMA CallFailsPublisher ==
  ASSUME AtomicInv, RestInv, PublisherInv, CallFails, RestInv'
  PROVE  PublisherInv'
<1>1. LogsKeep' /\ LegPublishes' /\ RollsResumed'
      BY FailLogsKeep, FailPublishes
<1>2. QueueRequested' /\ BootsSilent' /\ RestsRight'
  <2>1. queue' = queue /\ phase' \in {"leg", "rollback"}
        BY DEF CallFails
  <2> QED BY <2>1 DEF PublisherInv, QueueRequested, BootsSilent, RestsRight
<1>3. GoesBackRight'
  <2>1. CASE booting
        BY <2>1, FailFacts DEF GoesBackRight
  <2>2. CASE ~booting
        BY <2>2, <1>1, RevokeBackRight, FailBackRight, FailUpdateRight
  <2> QED BY <2>1, <2>2
<1> QED BY <1>1, <1>2, <1>3 DEF PublisherInv

-----------------------------------------------------------------------------
(* A leg begins.                                                           *)
LEMMA BeginPublishes ==
  ASSUME TypeOK, NEW tr \in Transitions, Begin(tr), UNCHANGED <<dev, booting>>,
         ValidateTransition(dev["active"], tr.to) => WsStart(tr, dev),
         Aims(tr), tr.ev = "OnAfterBoot" => booting, dev["pony"] = "on"
  PROVE  /\ LegPublishes' /\ RollsResumed' /\ leg' = tr /\ phase' \in {"leg", "rollback"}
         /\ phase' = "leg" => ValidateTransition(dev["active"], tr.to)
<1>1. CASE dev["active"] # tr.to /\ ValidateTransition(dev["active"], tr.to)
  <2>1. phase' = "leg" /\ leg' = tr /\ todo' = PerformTransition(tr, dev)
        BY <1>1 DEF Begin
  <2>2. PICK w \in OnOff :
          /\ Smooth(todo', tr, dev["ws"], w)
          /\ w = WsGoal(tr) \/ Refuses(todo')
        BY <1>1, <2>1, LegLeads DEF TypeOK, Leading
  <2> QED BY <1>1, <2>1, <2>2 DEF LegPublishes, RollsResumed, Smooth
<1>2. CASE ~(dev["active"] # tr.to /\ ValidateTransition(dev["active"], tr.to))
  <2>1. phase' = "rollback" /\ leg' = tr
        BY <1>2 DEF Begin
  <2> QED BY <2>1 DEF LegPublishes, RollsResumed
<1> QED BY <1>1, <1>2

(* What a caller may ask for, by its event.                                *)
LEMMA RequestsAim ==
  ASSUME NEW tr \in Requests
  PROVE  /\ Aims(tr) /\ tr.ev # "OnAfterBoot"
         /\ tr.ev \in {"OnFirstSetup", "OnUpdateConfig", "OnZTPSetupConfig", "OnHubSetPort",
                       "OnHubDeletePort", "OnUpdateDevice", "OnRebuildServices", "OnReset"}
         /\ tr.ev = "OnFirstSetup" => tr.to = "active"
<1>1. CASE tr \in FirstSetups
  <2>1. tr.ev = "OnFirstSetup" /\ tr.to = "active"
        BY <1>1 DEF FirstSetups, With
  <2> QED BY <2>1 DEF Aims
<1>2. CASE tr \in PeerUpdates \cup NetworkUpdates \cup ServiceUpdates
  <2>1. tr.ev = "OnUpdateConfig" /\ tr.to = "update_config"
        BY <1>2 DEF PeerUpdates, NetworkUpdates, ServiceUpdates, With, To
  <2> QED BY <2>1 DEF Aims
<1>3. CASE tr \in ZTPSetups \cup HubSetups
  <2>1. tr.ev \in {"OnZTPSetupConfig", "OnHubSetPort", "OnHubDeletePort"} /\ tr.to = "ztp_setup"
        BY <1>3 DEF ZTPSetups, HubSetups, With
  <2> QED BY <2>1 DEF Aims
<1>4. CASE tr \in DeviceUpdates
  <2>1. tr.ev = "OnUpdateDevice" /\ tr.to = "maintenance"
        BY <1>4 DEF DeviceUpdates, To
  <2> QED BY <2>1 DEF Aims
<1>5. CASE tr \in Rebuilds
  <2>1. tr.ev = "OnRebuildServices" /\ tr.to = "update_config"
        BY <1>5 DEF Rebuilds, To
  <2> QED BY <2>1 DEF Aims
<1>6. CASE tr \in Resets
  <2>1. tr.ev = "OnReset" /\ tr.to = "reset"
        BY <1>6 DEF Resets, To
  <2> QED BY <2>1 DEF Aims
<1> QED BY <1>1, <1>2, <1>3, <1>4, <1>5, <1>6 DEF Requests

(* Taking a caller: the publisher fits, and so does the leg.               *)
LEMMA AcceptPublisher ==
  ASSUME AtomicInv, RestInv, PublisherInv, Accept, AtomicInv', RestInv'
  PROVE  PublisherInv'
<1> DEFINE tr == Head(queue)
<1>1. /\ phase = "idle" /\ queue # <<>> /\ dev["db"] = "on" /\ Begin(tr)
      /\ queue' = Tail(queue) /\ tx' = NoTx /\ sealed' = NoTx
      /\ UNCHANGED <<dev, booting>>
      BY DEF Accept
<1>2. tr \in Requests /\ QueueRequested'
  <2>1. queue \in Seq(Transitions)
        BY DEF AtomicInv, TypeOK
  <2>2. /\ 1 \in 1..Len(queue) /\ Head(queue) = queue[1]
        /\ \A i \in 1..Len(Tail(queue)) : i+1 \in 1..Len(queue) /\ Tail(queue)[i] = queue[i+1]
        BY <2>1, <1>1
  <2> QED BY <2>2, <1>1 DEF QueueRequested, PublisherInv
<1>3. tr \in Transitions /\ Meant(tr)
      BY <1>2, RequestsType, RequestsMeant
<1>4. ~booting /\ dev["active"] \in {"init", "active", "maintenance", "reset"}
      /\ WsRight(dev) /\ dev["pony"] = "on" /\ dev["ws"] \in OnOff
      BY <1>1, DomainFacts DEF RestInv, AtRest, PublisherInv, RestsRight, AtomicInv, TypeOK, Devices
<1> HIDE DEF tr
<1>5. ASSUME ValidateTransition(dev["active"], tr.to) PROVE WsStart(tr, dev)
  <2>1. tr.to \in {"update_config", "maintenance"} => dev["active"] = "active"
        BY <1>4, <1>5 DEF ValidateTransition
  <2>2. tr.to = "ztp_setup" => dev["active"] = "init"
        BY <1>4, <1>5 DEF ValidateTransition
  <2>3. tr.to # "init"
        BY <1>2, RequestsAim DEF Aims
  <2>4. dev["active"] = "active" => dev["ws"] = "on"
        BY <1>4 DEF WsRight
  <2>5. dev["active"] = "init" => dev["ws"] = "off"
        BY <1>4 DEF WsRight, OnOff
  <2> QED BY <1>2, <1>3, <2>1, <2>2, <2>3, <2>4, <2>5, RequestsAim DEF WsStart, Aims
<1>6. /\ LegPublishes' /\ RollsResumed' /\ leg' = tr /\ phase' \in {"leg", "rollback"}
      /\ phase' = "leg" => ValidateTransition(dev["active"], tr.to)
      BY <1>1, <1>2, <1>3, <1>4, <1>5, RequestsAim, BeginPublishes DEF AtomicInv, tr
<1>7. LogsKeep'
      BY <1>1, CarriedFacts DEF LogsKeep, Carried
<1>8. \A r \in Carried : Undone'[r] = dev[r] /\ Started'[r] = dev[r]
  <2>1. LogsApart'
        BY DEF RestInv
  <2> QED BY <2>1, <1>1, <1>7, CarriedFacts, WsBackAtNext
<1>9. GoesBackRight'
  <2>1. CASE phase' = "leg" /\ leg'.to = "update_config"
    <3>1. dev["active"] = "active"
          BY <2>1, <1>4, <1>6 DEF ValidateTransition
    <3>2. dev'["ws"] # "off"
          BY <3>1, <1>1, <1>4 DEF WsRight
    <3>3. Undone'["active"] = "active" /\ tx'.mem["ws"] = Keep
          BY <3>1, <1>1, <1>8, CarriedFacts DEF Carried
    <3>4. BackRight'
          BY <3>2, <3>3, <1>1 DEF BackRight
    <3> QED BY <3>4, <2>1 DEF GoesBackRight
  <2>2. CASE ~(phase' = "leg" /\ leg'.to = "update_config")
    <3>1. WsRight(Started') /\ WsRight(Undone')
          BY <1>4, <1>8, RightAlike
    <3> QED BY <3>1, <2>2 DEF GoesBackRight
  <2> QED BY <2>1, <2>2
<1>10. BootsSilent' /\ RestsRight'
      BY <1>6 DEF BootsSilent, RestsRight
<1> QED BY <1>2, <1>6, <1>7, <1>9, <1>10 DEF PublisherInv

(* What follows a leg begins where the leg has led the publisher.          *)
LEMMA FollowUpStarts ==
  ASSUME NEW tr \in Transitions, NEW d \in Devices, Meant(tr), Aims(tr),
         FollowUp(tr, d) # NoTransition, d["ws"] = WsGoal(tr)
  PROVE  LET f == FollowUp(tr, d)
         IN  WsStart(f, d) /\ Aims(f) /\ f.ev # "OnAfterBoot" /\ f.to # "update_config"
<1> DEFINE f == FollowUp(tr, d)
<1>1. Meant(f) /\ f.to \in {"init", "active"}
      BY FollowUpMeant
<1>2. CASE tr.ev \in {"OnZTPSetupConfig", "OnHubSetPort", "OnHubDeletePort"}
  <2>1. f.ev = "OnZTPSetupFinished" /\ f.to = "init"
        BY <1>2, MeantTo DEF FollowUp
  <2>2. d["ws"] = "off"
        BY <1>2 DEF Aims, WsGoal
  <2> QED BY <2>1, <2>2, <1>1 DEF WsStart, Aims
<1>3. CASE tr.ev \in {"OnUpdateConfig", "OnRebuildServices"}
  <2>1. f.ev = "OnUpdateConfigFinished" /\ f.to = "active"
        BY <1>3, MeantTo DEF FollowUp
  <2>2. d["ws"] = "on"
        BY <1>3 DEF Aims, WsGoal
  <2> QED BY <2>1, <2>2, <1>1 DEF WsStart, Aims
<1>4. CASE tr.ev = "OnUpdateDevice"
  <2>1. f.ev = "OnUpdateDeviceFinished" /\ f.to = "active"
        BY <1>4, MeantTo DEF FollowUp
  <2>2. d["ws"] = "on"
        BY <1>4 DEF Aims, WsGoal
  <2> QED BY <2>1, <2>2, <1>1 DEF WsStart, Aims
<1>5. CASE tr.ev = "OnReset"
  <2>1. f.ev = "OnHubResetFinished" /\ f.to = "init"
        BY <1>5, MeantTo DEF FollowUp
  <2>2. d["ws"] = "off"
        BY <1>5 DEF Aims, WsGoal
  <2> QED BY <2>1, <2>2, <1>1 DEF WsStart, Aims
<1>6. CASE tr.ev = "OnAfterBoot"
  <2>1. CASE tr.to = "init"
    <3>1. f.ev = "OnMigrateFromOldVersion" /\ f.to = "active"
          BY <1>6, <2>1, MeantTo DEF FollowUp
    <3> QED BY <3>1, <1>1 DEF WsStart, Aims
  <2>2. CASE tr.to = "ztp_setup"
    <3>1. f.ev = "OnZTPSetupInterrupted" /\ f.to = "init" /\ d["ws"] = "off"
          BY <1>6, <2>2, MeantTo DEF FollowUp, WsGoal
    <3> QED BY <3>1, <1>1 DEF WsStart, Aims
  <2>3. CASE tr.to = "update_config"
    <3>1. f.ev = "OnFallback" /\ f.to = "active"
          BY <1>6, <2>3, MeantTo DEF FollowUp
    <3> QED BY <3>1, <1>1 DEF WsStart, Aims
  <2>4. CASE tr.to = "maintenance"
    <3>1. f.ev = "OnUpdateDeviceFinished" /\ f.to = "active" /\ d["ws"] = "on"
          BY <1>6, <2>4, MeantTo DEF FollowUp, WsGoal
    <3> QED BY <3>1, <1>1 DEF WsStart, Aims
  <2>5. CASE tr.to = "reset"
    <3>1. d["ws"] = "off"
          BY <1>6, <2>5 DEF WsGoal
    <3>2. \/ f.ev = "OnInitFallback" /\ f.to = "init"
          \/ f.ev = "OnFallback" /\ f.to = "active"
          BY <1>6, <2>5, MeantTo DEF FollowUp
    <3> QED BY <3>1, <3>2, <1>1 DEF WsStart, Aims
  <2>6. tr.to \in {"init", "ztp_setup", "update_config", "maintenance", "reset"}
        BY <1>6 DEF FollowUp
  <2> QED BY <2>1, <2>2, <2>3, <2>4, <2>5, <2>6
<1>7. tr.ev \in {"OnZTPSetupConfig", "OnHubSetPort", "OnHubDeletePort", "OnUpdateConfig",
                 "OnRebuildServices", "OnUpdateDevice", "OnReset", "OnAfterBoot"}
      BY DEF FollowUp
<1> QED BY <1>2, <1>3, <1>4, <1>5, <1>6, <1>7

(* A leg at its end has led the publisher where it belongs.                *)
LEMMA LegEndsRight ==
  ASSUME AtomicInv, RestInv, PublisherInv, phase = "leg", todo = <<>>
  PROVE  dev["ws"] = WsGoal(leg) /\ dev["pony"] = "on"
<1>1. /\ Ends(<<>>, "ws", dev["ws"], WsGoal(leg)) \/ Refuses(<<>>)
      /\ dev["pony"] = "off" => Opens(<<>>, 0, "pony")
      BY DEF PublisherInv, LegPublishes
<1>2. ~Refuses(<<>>) /\ dev["pony"] \in OnOff
      BY DomainFacts DEF Refuses, AtomicInv, TypeOK, Devices
<1> QED BY <1>1, <1>2, EndsNil, OpensNil DEF OnOff

(* A further leg.                                                          *)
LEMMA ContinuePublisher ==
  ASSUME AtomicInv, RestInv, PublisherInv, Continue, AtomicInv', RestInv'
  PROVE  PublisherInv'
<1> DEFINE f == FollowUp(leg, dev)
<1>1. /\ phase = "leg" /\ todo = <<>> /\ f # NoTransition /\ Begin(f)
      /\ UNCHANGED <<dev, tx, sealed, booting, queue>>
      BY DEF Continue
<1>2. leg \in Transitions /\ dev \in Devices /\ f \in Transitions /\ Meant(leg) /\ Aims(leg)
      BY <1>1, FollowUpType DEF AtomicInv, RestInv, TypeOK, InLeg, PublisherInv, LegPublishes
<1>3. dev["ws"] = WsGoal(leg) /\ dev["pony"] = "on"
      BY <1>1, LegEndsRight
<1>4. WsStart(f, dev) /\ Aims(f) /\ f.ev # "OnAfterBoot" /\ f.to # "update_config" /\ ~Erasing(leg)
      BY <1>1, <1>2, <1>3, FollowUpStarts, FollowUpMeant
<1> HIDE DEF f
<1>5. LegPublishes' /\ RollsResumed' /\ leg' = f /\ phase' \in {"leg", "rollback"}
      BY <1>1, <1>2, <1>3, <1>4, BeginPublishes DEF AtomicInv
<1>6. LogsKeep' /\ QueueRequested' /\ BootsSilent' /\ RestsRight'
      BY <1>1, <1>5 DEF PublisherInv, LogsKeep, QueueRequested, BootsSilent, RestsRight
<1>7. GoesBackRight'
  <2> SUFFICES ASSUME ~booting PROVE WsRight(Started') /\ WsRight(Undone')
      BY <1>1, <1>4, <1>5 DEF GoesBackRight
  <2>1. LogsApart /\ LogsApart' /\ LogsKeep
        BY DEF RestInv, PublisherInv
  <2>2. \A r \in Carried : Undone'[r] = Undone[r] /\ Started'[r] = Started[r]
        BY <2>1, <1>1, <1>6, WsBackAt, WsBackAtNext
  <2>3. WsRight(Started) /\ WsRight(Undone)
    <3>1. CASE leg.to = "update_config"
      <4>1. sealed = NoTx /\ tx.mem["ws"] = Keep /\ Undone["active"] = "active"
            BY <3>1, <1>1 DEF PublisherInv, GoesBackRight, BackRight
      <4>2. leg.ev # "OnAfterBoot"
            BY <1>1 DEF PublisherInv, LegPublishes
      <4>3. Undone["ws"] = "on"
            BY <4>1, <4>2, <3>1, <1>3, <2>1, WsBackAt DEF Carried, WsGoal
      <4>4. \A r \in Carried : Started[r] = Undone[r]
            BY <4>1, <2>1, CarriedFacts, WsBackAt
      <4>5. WsRight(Undone)
            BY <4>1, <4>3 DEF WsRight
      <4> QED BY <4>4, <4>5, RightAlike
    <3>2. CASE leg.to # "update_config"
          BY <3>2, <1>1, <1>4 DEF PublisherInv, GoesBackRight, Sealing
    <3> QED BY <3>1, <3>2
  <2> QED BY <2>2, <2>3, RightAlike
<1> QED BY <1>5, <1>6, <1>7 DEF PublisherInv

(* The last leg has led the publisher where the device is at rest.         *)
LEMMA CommitPublisher ==
  ASSUME AtomicInv, RestInv, PublisherInv, Commit
  PROVE  PublisherInv'
<1>1. /\ phase = "leg" /\ todo = <<>> /\ FollowUp(leg, dev) = NoTransition
      /\ phase' = "idle" /\ tx' = NoTx /\ sealed' = NoTx /\ UNCHANGED <<dev, queue>>
      BY DEF Commit
<1>2. leg \in Transitions /\ dev \in Devices /\ Meant(leg) /\ Settled(leg, dev)
      BY <1>1, SettledIs DEF AtomicInv, TypeOK, RestInv, InLeg
<1>3. leg.to \in {"init", "active", "reset"}
      BY <1>1, <1>2, LastLeg DEF Erasing
<1>4. dev["active"] = leg.to
      BY <1>2 DEF Settled, Watched, Goal
<1>5. dev["ws"] = WsGoal(leg) /\ dev["pony"] = "on"
      BY <1>1, LegEndsRight
<1>6. WsRight(dev)
      BY <1>3, <1>4, <1>5 DEF WsRight, WsGoal
<1>7. LogsKeep'
      BY <1>1, CarriedFacts DEF LogsKeep, Carried
<1> QED BY <1>1, <1>5, <1>6, <1>7
        DEF PublisherInv, QueueRequested, BootsSilent, RestsRight, LegPublishes, GoesBackRight, RollsResumed

(* The device is back where its transaction, or its checkpoint, began.     *)
LEMMA RollbackPublisher ==
  ASSUME AtomicInv, RestInv, PublisherInv, Rollback
  PROVE  PublisherInv'
<1>1. /\ phase = "rollback" /\ ~booting /\ dev' = Undone /\ tx' = NoTx /\ sealed' = NoTx
      /\ phase' = "idle" /\ queue' = queue
      BY DEF Rollback
<1>2. WsRight(Undone) /\ dev["pony"] = "on" /\ LogsKeep /\ LogsApart
      BY <1>1 DEF RestInv, PublisherInv, GoesBackRight, RollsResumed, Sealing
<1>3. WsRight(dev') /\ dev'["pony"] = "on"
      BY <1>1, <1>2, WsBackAt
<1>4. LogsKeep'
      BY <1>1, CarriedFacts DEF LogsKeep, Carried
<1> QED BY <1>1, <1>3, <1>4
        DEF PublisherInv, QueueRequested, BootsSilent, RestsRight, LegPublishes, GoesBackRight, RollsResumed

-----------------------------------------------------------------------------
(* Where Run does not move and the publisher, the state in memory and the  *)
(* tunnel monitoring are the same.                                         *)
LEMMA AsidePublisher ==
  ASSUME RestInv, RestInv', PublisherInv, QueueRequested',
         \A r \in Carried \cup {"pony"} : dev'[r] = dev[r],
         UNCHANGED <<tx, sealed, phase, booting, leg, todo>>
  PROVE  PublisherInv'
<1>1. dev'["ws"] = dev["ws"] /\ dev'["active"] = dev["active"] /\ dev'["pony"] = dev["pony"]
      BY DEF Carried
<1>2. LogsKeep'
      BY DEF PublisherInv, LogsKeep
<1>3. BootsSilent' /\ RestsRight' /\ LegPublishes' /\ RollsResumed'
      BY <1>1 DEF PublisherInv, BootsSilent, RestsRight, LegPublishes, RollsResumed, WsRight
<1>4. \A r \in Carried : Undone'[r] = Undone[r] /\ Started'[r] = Started[r]
  <2>1. LogsApart /\ LogsApart' /\ LogsKeep
        BY DEF RestInv, PublisherInv
  <2> QED BY <2>1, <1>2, WsBackAt, WsBackAtNext
<1>5. GoesBackRight'
  <2>1. (WsRight(Started') <=> WsRight(Started)) /\ (WsRight(Undone') <=> WsRight(Undone))
        BY <1>4, RightAlike
  <2>2. Sealing' <=> Sealing
        BY DEF Sealing
  <2>3. BackRight' <=> BackRight
        BY <1>1, <1>4 DEF BackRight, Carried
  <2> QED BY <2>1, <2>2, <2>3 DEF PublisherInv, GoesBackRight
<1> QED BY <1>2, <1>3, <1>5 DEF PublisherInv

(* A caller comes, or is refused.                                          *)
LEMMA QueuePublisher ==
  ASSUME AtomicInv, RestInv, RestInv', PublisherInv, Reject \/ \E tr \in Requests : Perform(tr)
  PROVE  PublisherInv'
<1>1. queue \in Seq(Transitions)
      BY DEF AtomicInv, TypeOK
<1>2. QueueRequested'
  <2>1. CASE Reject
    <3>1. queue # <<>> /\ queue' = Tail(queue)
          BY <2>1 DEF Reject
    <3>2. \A i \in 1..Len(queue') : i+1 \in 1..Len(queue) /\ queue'[i] = queue[i+1]
          BY <3>1, <1>1
    <3> QED BY <3>2 DEF QueueRequested, PublisherInv
  <2>2. CASE \E tr \in Requests : Perform(tr)
    <3>1. PICK tr \in Requests : queue' = Append(queue, tr)
          BY <2>2 DEF Perform
    <3>2. tr \in Transitions
          BY RequestsType
    <3>3. \A i \in 1..Len(queue') :
            (i \in 1..Len(queue) /\ queue'[i] = queue[i]) \/ queue'[i] = tr
          BY <3>1, <3>2, <1>1
    <3> QED BY <3>3 DEF QueueRequested, PublisherInv
  <2> QED BY <2>1, <2>2
<1>3. UNCHANGED <<dev, tx, sealed, phase, booting, leg, todo>>
      BY DEF Reject, Perform
<1> QED BY <1>2, <1>3, AsidePublisher

(* The left-behind goroutines.                                             *)
LEMMA LeftBehindPublisher ==
  ASSUME AtomicInv, RestInv, RestInv', PublisherInv, RebootFails \/ DeactivateStarter
  PROVE  PublisherInv'
<1>1. UNCHANGED <<tx, sealed, phase, booting, leg, todo, queue>>
      BY DEF RebootFails, DeactivateStarter
<1>2. QueueRequested'
      BY <1>1 DEF QueueRequested, PublisherInv
<1>3. \A r \in Carried \cup {"pony"} : dev'[r] = dev[r]
  <2>1. dev \in [Resources -> Values]
        BY DEF AtomicInv, TypeOK, Devices
  <2>2. \A r \in Carried \cup {"pony"} : r \in Resources /\ r \notin {"reboot", "deactivate", "starter"}
        BY CarriedFacts DEF Carried
  <2>3. CASE RebootFails
        BY <2>1, <2>2, <2>3 DEF RebootFails
  <2>4. CASE DeactivateStarter
        BY <2>1, <2>2, <2>4 DEF DeactivateStarter
  <2> QED BY <2>3, <2>4
<1> QED BY <1>1, <1>2, <1>3, AsidePublisher

(* A process that has just started has no publisher.                       *)
LEMMA FreshPublisher ==
  ASSUME NEW d \in Devices
  PROVE  \A e \in {FactoryDevice, Restarted(d), Rebooted(d)} : e["ws"] = "off" /\ e["pony"] = "on"
<1>1. FactoryDevice["ws"] = "off" /\ FactoryDevice["pony"] = "on"
      BY DEF FactoryDevice, Resources, Volatile, Persisted, Daemons
<1>2. \A r \in {"ws", "pony"} : r \in Resources /\ r \in Volatile /\ r \notin {"um", "starter", "dhcp"}
      BY DEF Resources, Volatile
<1>3. \A r \in {"ws", "pony"} : Restarted(d)[r] = FactoryDevice[r]
      BY <1>2 DEF Restarted
<1>4. \A r \in {"ws", "pony"} : Rebooted(d)[r] = Restarted(d)[r]
  <2>1. Restarted(d) \in [Resources -> Values]
        BY RestartTypes DEF Devices
  <2> QED BY <2>1, <1>2 DEF Rebooted
<1> QED BY <1>1, <1>3, <1>4

(* Every exit ends without a publisher ...                                 *)
LEMMA StartsSilent ==
  ASSUME phase' = "dangling", queue' = <<>>, LogsKeep',
         NEW d \in Devices, dev' \in {FactoryDevice, Restarted(d), Rebooted(d)}
  PROVE  PublisherInv'
<1>1. dev'["ws"] = "off" /\ dev'["pony"] = "on"
      BY FreshPublisher
<1> QED BY <1>1 DEF PublisherInv, QueueRequested, BootsSilent, RestsRight, LegPublishes,
                    GoesBackRight, RollsResumed

(* ... crash, power cycle, reboot and the boot that fails.                 *)
LEMMA ExitPublisher ==
  ASSUME AtomicInv, RestInv, PublisherInv, Crash \/ PowerCycle \/ RebootAfterReset \/ BootFails
  PROVE  PublisherInv'
<1>1. LogsKeep /\ dev \in Devices /\ Undone \in Devices /\ tx \in [undo : Patches, mem : Patches]
      BY UndoneType DEF PublisherInv, AtomicInv, TypeOK
<1>2. CASE BootFails
  <2>1. phase' = "dangling" /\ queue' = <<>> /\ dev' = Restarted(Undone) /\ tx' = NoTx /\ sealed' = NoTx
        BY <1>2 DEF BootFails
  <2>2. LogsKeep'
        BY <2>1, CarriedFacts DEF LogsKeep, Carried
  <2> QED BY <2>1, <2>2, <1>1, StartsSilent
<1>3. CASE Crash \/ PowerCycle \/ RebootAfterReset
  <2>1. PICK d : d \in {Restarted(dev), Rebooted(dev)} /\ Exit(d)
        BY <1>3 DEF Crash, PowerCycle, RebootAfterReset
  <2>2. phase' = "dangling" /\ queue' = <<>> /\ dev' = d
        /\ tx' = [tx EXCEPT !.mem = NoChange] /\ sealed' = NoTx
        BY <2>1 DEF Exit
  <2>3. LogsKeep'
    <3>1. tx'.undo = tx.undo /\ tx'.mem = NoChange /\ NoChange["pony"] = Keep
          BY <2>2, <1>1, CarriedFacts DEF NoTx
    <3> QED BY <3>1, <2>2, <1>1, CarriedFacts DEF LogsKeep, Carried
  <2> QED BY <2>1, <2>2, <2>3, <1>1, StartsSilent
<1> QED BY <1>2, <1>3

(* The dangling rollback does not start one ...                            *)
LEMMA DanglingPublisher ==
  ASSUME PublisherInv, RollbackDangling \/ RollbackDanglingFails
  PROVE  PublisherInv'
<1>1. /\ phase = "dangling" /\ phase' = "boot" /\ tx' = NoTx
      /\ UNCHANGED <<sealed, queue>>
      /\ dev' = Apply(tx.undo, dev) \/ dev' = dev
      BY DEF RollbackDangling, RollbackDanglingFails
<1>2. LogsKeep'
      BY <1>1, CarriedFacts DEF PublisherInv, LogsKeep, Carried
<1>3. dev'["ws"] = "off" /\ dev'["pony"] = "on"
  <2>1. tx.undo["ws"] = Keep /\ tx.undo["pony"] = Keep /\ dev["ws"] = "off" /\ dev["pony"] = "on"
        BY <1>1 DEF PublisherInv, LogsKeep, BootsSilent
  <2> QED BY <2>1, <1>1, CarriedFacts DEF Apply, Carried
<1> QED BY <1>1, <1>2, <1>3 DEF PublisherInv, QueueRequested, BootsSilent, RestsRight,
                                 LegPublishes, GoesBackRight, RollsResumed

(* ... and the first leg of the process finds none.                        *)
LEMMA BootPublisher ==
  ASSUME AtomicInv, RestInv, PublisherInv, SetActiveStateFromBoot
  PROVE  PublisherInv'
<1> DEFINE to == IF dev["state"] = None THEN "init" ELSE dev["state"]
           tr == To("OnAfterBoot", to)
<1>1. /\ phase = "boot" /\ Begin(tr) /\ UNCHANGED <<dev, tx, sealed, booting, queue>>
      BY DEF SetActiveStateFromBoot
<1>2. tr \in Transitions
      BY BootType DEF AtomicInv, TypeOK
<1>3. Meant(tr) /\ tr.ev = "OnAfterBoot"
      BY MeantTo DEF Meant
<1>4. booting /\ dev["ws"] = "off" /\ dev["pony"] = "on"
      BY <1>1 DEF RestInv, BootsClean, PublisherInv, BootsSilent
<1> HIDE DEF tr
<1>5. WsStart(tr, dev) /\ Aims(tr)
      BY <1>3, <1>4 DEF WsStart, Aims
<1>6. LegPublishes' /\ RollsResumed' /\ phase' \in {"leg", "rollback"}
      BY <1>1, <1>2, <1>4, <1>5, BeginPublishes DEF AtomicInv
<1>7. LogsKeep' /\ QueueRequested'
      BY <1>1 DEF PublisherInv, LogsKeep, QueueRequested
<1> QED BY <1>1, <1>4, <1>6, <1>7 DEF PublisherInv, BootsSilent, RestsRight, GoesBackRight

-----------------------------------------------------------------------------
(* The invariant of the publisher: at first ...                            *)
LEMMA InitPublisher == Init => PublisherInv
<1> SUFFICES ASSUME Init PROVE PublisherInv
    OBVIOUS
<1>1. dev["ws"] = "off" /\ dev["pony"] = "on"
      BY FactoryType, FreshPublisher DEF Init
<1>2. LogsKeep
      BY CarriedFacts DEF Init, LogsKeep, Carried
<1> QED BY <1>1, <1>2 DEF Init, PublisherInv, QueueRequested, BootsSilent, RestsRight,
                          LegPublishes, GoesBackRight, RollsResumed

(* ... and in every step.                                                  *)
LEMMA NextPublisher ==
  (AtomicInv /\ RestInv /\ PublisherInv) /\ [Next]_vars => (AtomicInv /\ RestInv /\ PublisherInv)'
<1> SUFFICES ASSUME AtomicInv, RestInv, PublisherInv, [Next]_vars
             PROVE  AtomicInv' /\ RestInv' /\ PublisherInv'
    OBVIOUS
<1>1. AtomicInv' /\ RestInv'
      BY NextInv
<1>2. CASE RunStep
  <2>1. CASE Accept
        BY <1>1, <2>1, AcceptPublisher
  <2>2. CASE Reject
        BY <1>1, <2>2, QueuePublisher
  <2>3. CASE Step
        BY <1>1, <2>3, StepPublisher
  <2>4. CASE CallFails
        BY <1>1, <2>4, CallFailsPublisher
  <2>5. CASE Continue
        BY <1>1, <2>5, ContinuePublisher
  <2>6. CASE Commit
        BY <1>1, <2>6, CommitPublisher
  <2>7. CASE Rollback
        BY <1>1, <2>7, RollbackPublisher
  <2>8. CASE BootFails
        BY <1>1, <2>8, ExitPublisher
  <2>9. CASE RollbackDangling
        BY <1>1, <2>9, DanglingPublisher
  <2>10. CASE SetActiveStateFromBoot
        BY <1>1, <2>10, BootPublisher
  <2> QED BY <1>1, <1>2, <2>1, <2>2, <2>3, <2>4, <2>5, <2>6, <2>7, <2>8, <2>9, <2>10 DEF RunStep
<1>3. CASE RollbackDanglingFails
      BY <1>1, <1>3, DanglingPublisher
<1>4. CASE Crash \/ PowerCycle \/ RebootAfterReset
      BY <1>1, <1>4, ExitPublisher
<1>5. CASE RebootFails \/ DeactivateStarter
      BY <1>1, <1>5, LeftBehindPublisher
<1>6. CASE \E tr \in Requests : Perform(tr)
      BY <1>1, <1>6, QueuePublisher
<1>7. CASE UNCHANGED vars
  <2>1. UNCHANGED <<dev, tx, sealed, phase, booting, leg, todo, queue>>
        BY <1>7 DEF vars
  <2>2. QueueRequested'
        BY <2>1 DEF QueueRequested, PublisherInv
  <2> QED BY <1>1, <2>1, <2>2, AsidePublisher
<1> QED BY <1>2, <1>3, <1>4, <1>5, <1>6, <1>7 DEF Next

(* Between transitions the publisher runs exactly in an active device, or  *)
(* one whose update stopped at its checkpoint, and the tunnel monitoring   *)
(* is never left paused: no error path of the update of the configuration, *)
(* which stops both outside the transaction, forgets to start one again,   *)
(* and every rollback takes the publisher back with the state.             *)
THEOREM PublisherMatches == Spec => []PublisherMatchesState
<1>1. RestInv /\ PublisherInv => PublisherMatchesState
      BY DEF PublisherInv, RestsRight, WsRight, PublisherMatchesState
<1>2. Init => AtomicInv /\ RestInv /\ PublisherInv
      BY InitInv, InitPublisher
<1> QED BY <1>1, <1>2, NextPublisher, PTL DEF Spec

-----------------------------------------------------------------------------
(* The daemons.                                                            *)

Tended == {"um", "starter", "dhcp"}
Boots == {"OnAfterBoot", "OnZTPSetupInterrupted", "OnInitFallback"}

(* The daemons a leg has to leave running.                                 *)
Keeps(tr, r) ==
  \/ r = "um" /\ (tr.to = "active" \/ (tr.to = "update_config" /\ tr.ev # "OnAfterBoot"))
  \/ /\ r \in {"starter", "dhcp"} /\ DeviceType = "cpe"
     /\ tr.to = "init" \/ (tr.to = "ztp_setup" /\ tr.ev # "OnAfterBoot")

(* A call of a leg: it stops none of them, and does not pass over an error *)
(* of starting one; the process undoes what it does to a daemon, but for   *)
(* the update manager the first setup enables, and on the way from boot.   *)
Serves(c, tr) ==
  /\ c.set["deactivate"] = Keep
  /\ \A r \in Tended : c.set[r] # Keep =>
       /\ Keeps(tr, r) => c.set[r] = "on" /\ c.err # "log"
       /\ c.log # "checkpoint"
       /\ \/ c.log = "func" /\ c.inv[r] = Keep
          \/ r = "um" /\ tr.ev = "OnFirstSetup"
          \/ tr.ev \in Boots

(* The last call of a first setup leaves the goroutine behind that stops   *)
(* the starter.                                                            *)
Parts(s, i, tr) == tr.ev = "OnFirstSetup" /\ i = Len(s) /\ s[i] = Now("deactivate", "on")
Serving(s, tr) == \A i \in 1..Len(s) : Serves(s[i], tr) \/ Parts(s, i, tr)

(* The calls s lead the device to the daemons the leg has to leave running.*)
Tends(s, tr, d) ==
  \A r \in Tended : Keeps(tr, r) =>
    d[r] = "on" \/ Reaches(s, r, "on") \/ Refuses(s) \/ Migrates(tr, d)

(* Where a leg may begin: with the daemons running that it does not start, *)
(* and a way to init that brings the device back to zero-touch provisioning*)
(* only from there or from boot.                                           *)
ServeStart(tr, d) ==
  /\ tr.to = "init" => tr.ev \in Boots \cup {"OnZTPSetupFinished", "OnHubResetFinished"}
  /\ tr.ev = "OnHubResetFinished" => DeviceType = "hub"
  /\ tr.ev \in {"OnUpdateConfigFinished", "OnZTPSetupFinished"} \/ tr.to \in {"update_config", "ztp_setup"}
       => \A r \in Tended : Keeps(tr, r) => d[r] = "on"

-----------------------------------------------------------------------------
(* The handlers.                                                           *)

ServeCalls(tr) == {c \in Calls : Serves(c, tr)}

(* Calls of other services serve every leg ...                             *)
LEMMA ServeOther ==
  ASSUME NEW c \in Calls, \A r \in Tended \cup {"deactivate"} : c.set[r] = Keep, NEW tr
  PROVE  c \in ServeCalls(tr)
BY DEF ServeCalls, Serves

(* ... configuration ...                                                   *)
LEMMA ServeConfig ==
  ASSUME NEW p \in Configs, NEW tr
  PROVE  Execute(p) \in ServeCalls(tr) /\ \A e \in Errs : Call(p, "activity", e) \in ServeCalls(tr)
<1>1. \A r \in Tended \cup {"deactivate"} : p[r] = Keep
      BY DEF Tended, Configs, Resources, Persisted, Volatile, Daemons
<1>2. Execute(p) \in Calls /\ \A e \in Errs : Call(p, "activity", e) \in Calls
      BY ConfigCallTypes DEF PlainCalls
<1>3. Execute(p).set = p /\ \A e : Call(p, "activity", e).set = p
      BY DEF Execute, Call
<1> QED BY <1>1, <1>2, <1>3, ServeOther

(* ... checks ...                                                          *)
LEMMA ServeCheck ==
  ASSUME NEW tr
  PROVE  \A e \in Errs : Check(e) \in ServeCalls(tr) /\ CheckPoint(e) \in ServeCalls(tr)
<1>1. \A r \in Tended \cup {"deactivate"} : NoChange[r] = Keep
      BY DomainFacts DEF NoChange, Tended, Daemons
<1>2. \A e \in Errs : Check(e) \in Calls /\ CheckPoint(e) \in Calls
      BY CheckTypes DEF PlainCalls
<1>3. \A e : Check(e).set = NoChange /\ CheckPoint(e).set = NoChange
      BY DEF Check, CheckPoint, Call
<1> QED BY <1>1, <1>2, <1>3, ServeOther

(* ... and services.                                                       *)
LEMMA ServeService ==
  ASSUME NEW r \in ServiceResources \ (Tended \cup {"deactivate"}), NEW v \in Domain(r), NEW tr
  PROVE  /\ Func(r, v) \in ServeCalls(tr) /\ Now(r, v) \in ServeCalls(tr)
         /\ Logged(Set(r, v)) \in ServeCalls(tr)
         /\ \A l \in Logs, e \in Errs : Call(Set(r, v), l, e) \in ServeCalls(tr)
         /\ \A u \in Domain(r) : Command(r, v, u) \in ServeCalls(tr)
<1>1. \A q \in Tended \cup {"deactivate"} : Set(r, v)[q] = Keep
      BY DomainFacts DEF Set, Tended, Daemons
<1>2. /\ Func(r, v) \in Calls /\ Now(r, v) \in Calls /\ Logged(Set(r, v)) \in Calls
      /\ \A l \in Logs, e \in Errs : Call(Set(r, v), l, e) \in Calls
      /\ \A u \in Domain(r) : Command(r, v, u) \in Calls
      BY ServiceCallTypes DEF PlainCalls
<1>3. /\ Func(r, v).set = Set(r, v) /\ Now(r, v).set = Set(r, v) /\ Logged(Set(r, v)).set = Set(r, v)
      /\ \A l, e : Call(Set(r, v), l, e).set = Set(r, v)
      /\ \A u : Command(r, v, u).set = Set(r, v)
      BY DEF Func, Now, Logged, Command, Call
<1> QED BY <1>1, <1>2, <1>3, ServeOther

(* The other daemons, the subjects and the publisher.                      *)
LEMMA ServeOnOff ==
  ASSUME NEW r \in {"umEnabled", "starterEnabled", "dhcpEnabled", "mqInit", "mqActive", "ws", "pony"},
         NEW v \in OnOff, NEW tr
  PROVE  /\ Func(r, v) \in ServeCalls(tr) /\ Now(r, v) \in ServeCalls(tr)
         /\ Logged(Set(r, v)) \in ServeCalls(tr)
         /\ \A u \in OnOff : Command(r, v, u) \in ServeCalls(tr)
<1>1. r \in ServiceResources \ (Tended \cup {"deactivate"}) /\ Domain(r) = OnOff
      BY DomainFacts DEF ServiceResources, Daemons, Tended
<1> QED BY <1>1, ServeService

(* A call that writes one daemon.                                          *)
LEMMA DaemonCall ==
  ASSUME NEW r \in Tended, NEW v \in OnOff
  PROVE  /\ Set(r, v)[r] = v /\ v # Keep
         /\ \A q \in (Tended \cup {"deactivate"}) \ {r} : Set(r, v)[q] = Keep
         /\ NoChange[r] = Keep
         /\ Func(r, v) \in Calls /\ Logged(Set(r, v)) \in Calls
         /\ \A u \in OnOff : Command(r, v, u) \in Calls
<1>1. r \in Daemons /\ \A q \in Tended \cup {"deactivate"} : q \in Resources
      BY DomainFacts DEF Tended, Daemons
<1>2. Set(r, v)[r] = v /\ NoChange[r] = Keep
      /\ \A q \in (Tended \cup {"deactivate"}) \ {r} : Set(r, v)[q] = Keep
      BY <1>1 DEF Set, NoChange
<1>3. v # Keep
      BY DEF OnOff, Keep
<1>4. Func(r, v) \in Calls /\ Logged(Set(r, v)) \in Calls /\ \A u \in OnOff : Command(r, v, u) \in Calls
      BY <1>1, OnOffCallTypes DEF PlainCalls
<1> QED BY <1>2, <1>3, <1>4

(* Within the transaction, a daemon the leg has to leave running is only   *)
(* started ...                                                             *)
LEMMA ServeFunc ==
  ASSUME NEW r \in Tended, NEW v \in OnOff, NEW tr, Keeps(tr, r) => v = "on"
  PROVE  Func(r, v) \in ServeCalls(tr)
<1> DEFINE c == Func(r, v)
<1>1. c.set = Set(r, v) /\ c.inv = NoChange /\ c.log = "func" /\ c.err = "abort" /\ c \in Calls
      BY DaemonCall DEF Func, Call
<1>2. "deactivate" \notin Tended
      BY DEF Tended
<1> HIDE DEF c
<1>3. \A q \in Tended \cup {"deactivate"} : c.set[q] # Keep => q = r
      BY <1>1, DaemonCall
<1>4. c.set[r] = v /\ c.inv[r] = Keep
      BY <1>1, DaemonCall
<1>5. Serves(c, tr)
      BY <1>1, <1>2, <1>3, <1>4 DEF Serves
<1> QED BY <1>1, <1>5 DEF c, ServeCalls

(* ... on the way from boot the update manager may be stopped, ...         *)
LEMMA ServeLogged ==
  ASSUME NEW v \in OnOff, NEW tr, tr.ev \in Boots, ~Keeps(tr, "um")
  PROVE  Logged(Set("um", v)) \in ServeCalls(tr)
<1> DEFINE c == Logged(Set("um", v))
<1>0. "um" \in Tended /\ "deactivate" \notin Tended
      BY DEF Tended
<1>1. c.set = Set("um", v) /\ c.log = "none" /\ c \in Calls
      BY <1>0, DaemonCall DEF Logged, Call
<1> HIDE DEF c
<1>3. \A q \in Tended \cup {"deactivate"} : c.set[q] # Keep => q = "um"
      BY <1>0, <1>1, DaemonCall
<1>5. Serves(c, tr)
      BY <1>0, <1>1, <1>3 DEF Serves
<1> QED BY <1>1, <1>5 DEF c, ServeCalls

(* ... and the first setup starts it with a command.                       *)
LEMMA ServeCommand ==
  ASSUME NEW tr, tr.ev = "OnFirstSetup"
  PROVE  Command("um", "on", "off") \in ServeCalls(tr)
<1> DEFINE c == Command("um", "on", "off")
<1>0. "um" \in Tended /\ "deactivate" \notin Tended /\ "on" \in OnOff /\ "off" \in OnOff
      BY DEF Tended, OnOff
<1>1. c.set = Set("um", "on") /\ c.log = "activity" /\ c.err = "abort" /\ c \in Calls
      BY <1>0, DaemonCall DEF Command
<1> HIDE DEF c
<1>3. \A q \in Tended \cup {"deactivate"} : c.set[q] # Keep => q = "um"
      BY <1>0, <1>1, DaemonCall
<1>4. c.set["um"] = "on"
      BY <1>0, <1>1, DaemonCall
<1>5. Serves(c, tr)
      BY <1>0, <1>1, <1>3, <1>4 DEF Serves
<1> QED BY <1>1, <1>5 DEF c, ServeCalls

(* Calls that serve a leg, with others that do behind them.                *)
LEMMA ServingAppend ==
  ASSUME NEW tr, NEW s \in Seq(ServeCalls(tr)), NEW t \in Seq(Calls), Serving(t, tr)
  PROVE  Serving(s \o t, tr)
<1>1. s \in Seq(Calls) /\ \A i \in 1..Len(s) : Serves(s[i], tr)
      BY DEF ServeCalls
<1> SUFFICES ASSUME NEW k \in 1..Len(s \o t)
             PROVE  Serves((s \o t)[k], tr) \/ Parts(s \o t, k, tr)
    BY DEF Serving
<1>2. CASE k \in 1..Len(s)
      BY <1>1, <1>2, AppendParts
<1>3. CASE k - Len(s) \in 1..Len(t)
  <2>1. /\ (s \o t)[k] = t[k - Len(s)]
        /\ Len(s \o t) = Len(s) + Len(t) /\ Len(s) \in Nat /\ Len(t) \in Nat
        BY <1>1, <1>3, AppendParts
  <2>2. k - Len(s) = Len(t) => k = Len(s \o t)
        BY <2>1
  <2> QED BY <1>3, <2>1, <2>2 DEF Serving, Parts
<1> QED BY <1>1, <1>2, <1>3, AppendParts

(* Calls that serve a leg.                                                 *)
LEMMA ServeSequence ==
  ASSUME NEW tr, NEW s \in Seq(ServeCalls(tr))
  PROVE  s \in Seq(Calls) /\ Serving(s, tr)
<1>1. s \in Seq(Calls) /\ \A i \in 1..Len(s) : Serves(s[i], tr)
      BY DEF ServeCalls
<1> QED BY <1>1 DEF Serving

(* A handler serves: its calls do, and lead to the daemons the leg keeps.  *)
Served(s, tr, d) == s \in Seq(Calls) /\ Serving(s, tr) /\ Tends(s, tr, d)

(* A call in a sequence of calls is reached.                               *)
LEMMA ReachesOne ==
  ASSUME NEW s, NEW r, NEW v, NEW i \in 1..Len(s), s[i].set[r] = v
  PROVE  Reaches(s, r, v)
BY DEF Reaches

(* Init: on the way from boot it starts the daemons, coming from ztp_setup *)
(* it finds them running.                                                  *)
LEMMA HandleInitServes ==
  ASSUME NEW tr \in Transitions, NEW d \in Devices, ServeStart(tr, d), tr.to = "init"
  PROVE  Served(HandleInit(tr, d), tr, d)
<1>1. ~Keeps(tr, "um")
      BY DEF Keeps
<1>2. SubscribeInit \in ServeCalls(tr)
      BY ServeOnOff DEF SubscribeInit, OnOff
<1>3. CASE tr.ev = "OnAfterBoot" /\ CheckMigrateFromOldVersion(d)
  <2>1. HandleInit(tr, d) = <<>> /\ Migrates(tr, d)
        BY <1>3 DEF HandleInit, Migrates, CheckMigrateFromOldVersion
  <2>2. <<>> \in Seq(ServeCalls(tr))
        OBVIOUS
  <2> QED BY <2>1, <2>2, ServeSequence DEF Served, Tends
<1>4. CASE tr.ev \in {"OnZTPSetupFinished", "OnHubResetFinished"}
  <2>1. HandleInit(tr, d) = <<SubscribeInit>>
        BY <1>4 DEF HandleInit
  <2>2. HandleInit(tr, d) \in Seq(ServeCalls(tr))
        BY <1>2, <2>1
  <2>3. \A r \in Tended : Keeps(tr, r) => d[r] = "on"
        BY <1>4 DEF ServeStart, Keeps, Tended
  <2> QED BY <2>2, <2>3, ServeSequence DEF Served, Tends
<1>5. CASE /\ ~(tr.ev = "OnAfterBoot" /\ CheckMigrateFromOldVersion(d))
           /\ tr.ev \notin {"OnZTPSetupFinished", "OnHubResetFinished"}
  <2> DEFINE a == <<SubscribeInit, Logged(Set("umEnabled", "off")), Logged(Set("um", "off"))>>
             x == Func("starter", "on")
             y == Func("dhcp", "on")
             b == <<x, y>>
  <2>1. tr.ev \in Boots /\ HandleInit(tr, d) = a \o ForCPE(b)
        BY <1>5 DEF ServeStart, HandleInit, RestoreInitState
  <2>2. a \in Seq(ServeCalls(tr))
        BY <1>1, <1>2, <2>1, ServeOnOff, ServeLogged DEF OnOff
  <2>3. /\ x \in ServeCalls(tr) /\ y \in ServeCalls(tr)
        /\ x.set["starter"] = "on" /\ y.set["dhcp"] = "on"
        BY ServeFunc, DaemonCall DEF Tended, OnOff, Func, Call
  <2> HIDE DEF a, x, y
  <2>4. ForCPE(b) \in Seq(ServeCalls(tr))
        BY <2>3 DEF ForCPE
  <2>5. HandleInit(tr, d) \in Seq(ServeCalls(tr))
        BY <2>1, <2>2, <2>4
  <2>6. Tends(HandleInit(tr, d), tr, d)
    <3> SUFFICES ASSUME NEW r \in Tended, Keeps(tr, r) PROVE Reaches(HandleInit(tr, d), r, "on")
        BY DEF Tends
    <3>1. r \in {"starter", "dhcp"} /\ DeviceType = "cpe"
          BY DEF Keeps
    <3>2. b \in Seq(Calls) /\ 1 \in 1..Len(b) /\ 2 \in 1..Len(b) /\ b[1] = x /\ b[2] = y
          BY <2>3 DEF ServeCalls
    <3>3. Reaches(b, "starter", "on") /\ Reaches(b, "dhcp", "on")
          BY <3>2, <2>3, ReachesOne
    <3>4. a \in Seq(Calls) /\ HandleInit(tr, d) = a \o b
          BY <3>1, <2>1, <2>2, ServeSequence DEF ForCPE
    <3> QED BY <3>1, <3>2, <3>3, <3>4, ReachesAppend
  <2> QED BY <2>5, <2>6, ServeSequence DEF Served
<1> QED BY <1>3, <1>4, <1>5

(* ztp_setup and update_config find their daemons running.                 *)
LEMMA HandleUpdateServes ==
  ASSUME NEW tr \in Transitions, NEW d \in Devices, ServeStart(tr, d), Meant(tr),
         tr.to \in {"ztp_setup", "update_config"}
  PROVE  Served(Handle(tr, d), tr, d)
<1>1. /\ Check("abort") \in ServeCalls(tr) /\ Execute(NoChange) \in ServeCalls(tr)
      /\ Execute(tr.arg) \in ServeCalls(tr) /\ <<>> \in Seq(ServeCalls(tr))
      BY ServeConfig, ServeCheck, ConfigTypes, ArgumentTypes DEF Errs
<1>2. CASE tr.to = "ztp_setup"
  <2>1. Handle(tr, d) \in Seq(ServeCalls(tr))
        BY <1>1, <1>2 DEF Handle, HandleZTPSetup, SetHubPort, DeleteHubPort
  <2> QED BY <2>1, ServeSequence DEF Served, Tends, ServeStart
<1>3. CASE tr.to = "update_config"
  <2>1. Handle(tr, d) = HandleUpdateConfig(tr, d)
        BY <1>3 DEF Handle
  <2>2. UpdateConfig(tr, d) \in Seq(ServeCalls(tr))
    <3> DEFINE a == <<Now("pony", "off"), Logged(Set("ws", "off")),
                      Call(tr.arg, "activity", "restart"), Now("pony", "on")>>
               b == ForCPE(<<Check("restart")>>)
               c == <<Logged(Set("ws", "on"))>>
               e == <<Execute(tr.arg)>>
    <3>1. a \in Seq(ServeCalls(tr)) /\ c \in Seq(ServeCalls(tr))
          BY ServeConfig, ServeOnOff, ArgumentTypes DEF Errs, OnOff
    <3>2. b \in Seq(ServeCalls(tr)) /\ e \in Seq(ServeCalls(tr))
          BY <1>1, ServeCheck DEF Errs, ForCPE
    <3>3. UpdateConfig(tr, d) = IF IsPortConfigurationChanged(tr, d) THEN (a \o b) \o c ELSE e
          BY DEF UpdateConfig
    <3> HIDE DEF a, b, c, e
    <3> QED BY <3>1, <3>2, <3>3
  <2>3. RebuildServices(d) \in Seq(ServeCalls(tr))
    <3>1. Set("services", None) \in Configs /\ Set("services", d["services"]) \in Configs
          BY ArgumentTypes, ConfigTypes, DomainFacts DEF Persisted
    <3> QED BY <3>1, ServeConfig DEF RebuildServices
  <2>4. Handle(tr, d) \in Seq(ServeCalls(tr))
        BY <1>1, <2>1, <2>2, <2>3 DEF HandleUpdateConfig
  <2> QED BY <1>3, <2>4, ServeSequence DEF Served, Tends, ServeStart
<1> QED BY <1>2, <1>3

(* The first setup starts the update manager, or is refused.               *)
LEMMA RunFirstSetupServes ==
  ASSUME NEW tr \in Transitions, NEW d \in Devices, tr.to = "active", tr.ev = "OnFirstSetup"
  PROVE  Served(RunFirstSetup(tr, d), tr, d)
<1> DEFINE x == Check("abort")
           y == Execute(Set("serial", tr.arg["serial"]))
           z == Command("umEnabled", "on", "off")
           g == Command("um", "on", "off")
           h == Func("ws", "on")
           a == <<x, y, z, g, h>>
           b == ForCPE(<<Func("dhcp", "off")>>)
           c == <<SubscribeActive>>
           n == Now("deactivate", "on")
           e == ForCPE(<<n>>)
           p == ((a \o InitDevice(tr)) \o b) \o c
<1>0. \A r \in Tended : Keeps(tr, r) => r = "um"
      BY DEF Keeps
<1>1. CASE d["port"] = None
  <2>1. RunFirstSetup(tr, d) = <<Check("refuse")>> /\ Check("refuse") \in ServeCalls(tr)
        BY <1>1, ServeCheck DEF RunFirstSetup, Errs
  <2>2. RunFirstSetup(tr, d) \in Seq(ServeCalls(tr))
        BY <2>1
  <2>3. Refuses(<<Check("refuse")>>)
        BY DEF Refuses, Check, Call
  <2> QED BY <2>1, <2>2, <2>3, ServeSequence DEF Served, Tends
<1>2. CASE d["port"] # None
  <2>1. RunFirstSetup(tr, d) = p \o e
        BY <1>2 DEF RunFirstSetup
  <2>2. /\ x \in ServeCalls(tr) /\ y \in ServeCalls(tr) /\ z \in ServeCalls(tr)
        /\ g \in ServeCalls(tr) /\ h \in ServeCalls(tr)
    <3>1. Set("serial", tr.arg["serial"]) \in Configs
          BY ArgumentTypes DEF Persisted
    <3> QED BY <3>1, ServeConfig, ServeCheck, ServeOnOff, ServeCommand DEF OnOff, Errs
  <2>3. g.set["um"] = "on"
        BY DaemonCall DEF Command, Tended, OnOff
  <2>4. InitDevice(tr) \in Seq(ServeCalls(tr))
    <3>1. /\ NoChange \in Configs /\ Set("port", tr.arg["port"]) \in Configs
          /\ Set("services", tr.arg["services"]) \in Configs
          BY ArgumentTypes, ConfigTypes DEF Persisted
    <3> QED BY <3>1, ServeConfig, ServeCheck, ServeOnOff DEF InitDevice, OnOff, Errs
  <2>5. b \in Seq(ServeCalls(tr)) /\ c \in Seq(ServeCalls(tr))
    <3>1. ~Keeps(tr, "dhcp") /\ "dhcp" \in Tended /\ "off" \in OnOff
          BY DEF Keeps, Tended, OnOff
    <3>2. Func("dhcp", "off") \in ServeCalls(tr)
          BY <3>1, ServeFunc
    <3> QED BY <3>2, ServeOnOff DEF ForCPE, SubscribeActive, OnOff
  <2>6. n \in Calls
        BY OnOffCallTypes DEF PlainCalls, OnOff
  <2>7. e \in Seq(Calls) /\ Serving(e, tr)
    <3>1. CASE DeviceType = "cpe"
      <4>1. e = <<n>>
            BY <3>1 DEF ForCPE
      <4> HIDE DEF n, e
      <4>2. \A i \in 1..Len(<<n>>) : i = Len(<<n>>) /\ <<n>>[i] = n
            OBVIOUS
      <4> QED BY <4>1, <4>2, <2>6 DEF Serving, Parts, n
    <3>2. CASE DeviceType # "cpe"
      <4>1. e = <<>>
            BY <3>2 DEF ForCPE
      <4> QED BY <4>1 DEF Serving
    <3> QED BY <3>1, <3>2
  <2> HIDE DEF x, y, z, g, h, b, c, n, e
  <2>8. /\ a \in Seq(ServeCalls(tr)) /\ a \in Seq(Calls)
        /\ Reaches(a, "um", "on")
    <3>1. a \in Seq(ServeCalls(tr)) /\ 4 \in 1..Len(a) /\ a[4] = g
          BY <2>2
    <3> HIDE DEF a
    <3> QED BY <3>1, <2>3, ReachesOne, ServeSequence
  <2> HIDE DEF a
  <2>9. p \in Seq(ServeCalls(tr))
        BY <2>4, <2>5, <2>8
  <2>10. Reaches(p, "um", "on")
    <3>1. InitDevice(tr) \in Seq(Calls) /\ b \in Seq(Calls) /\ c \in Seq(Calls)
          BY <2>4, <2>5, ServeSequence
    <3>2. a \o InitDevice(tr) \in Seq(Calls) /\ Reaches(a \o InitDevice(tr), "um", "on")
          BY <2>8, <3>1, ReachesAppend, AppendParts
    <3>3. (a \o InitDevice(tr)) \o b \in Seq(Calls) /\ Reaches((a \o InitDevice(tr)) \o b, "um", "on")
          BY <3>1, <3>2, ReachesAppend, AppendParts
    <3> QED BY <3>1, <3>3, ReachesAppend
  <2> HIDE DEF p
  <2>11. Serving(p \o e, tr) /\ p \o e \in Seq(Calls) /\ Reaches(p \o e, "um", "on")
        BY <2>7, <2>9, <2>10, ServeSequence, ServingAppend, ReachesAppend, AppendParts
  <2> QED BY <2>1, <2>11, <1>0 DEF Served, Tends
<1> QED BY <1>1, <1>2

(* Active: the update manager is started unless an update of the           *)
(* configuration finds it running.                                         *)
LEMMA HandleActiveServes ==
  ASSUME NEW tr \in Transitions, NEW d \in Devices, ServeStart(tr, d), tr.to = "active"
  PROVE  Served(HandleActive(tr, d), tr, d)
<1> DEFINE u == Func("um", "on")
<1>1. /\ \A r \in Tended : Keeps(tr, r) => r = "um"
      /\ Func("starter", "off") \in ServeCalls(tr)
      /\ u \in ServeCalls(tr) /\ u \in Calls /\ u.set["um"] = "on"
  <2>1. \A r \in Tended : Keeps(tr, r) => r = "um"
        BY DEF Keeps
  <2>2. Func("starter", "off") \in ServeCalls(tr) /\ u \in ServeCalls(tr) /\ u \in Calls
        BY <2>1, ServeFunc, DaemonCall DEF Tended, OnOff
  <2>3. u.set["um"] = "on"
        BY DaemonCall DEF Tended, OnOff, Func, Call
  <2> QED BY <2>1, <2>2, <2>3
<1>2. /\ SubscribeActive \in ServeCalls(tr) /\ Func("ws", "on") \in ServeCalls(tr)
      /\ Execute(tr.arg) \in ServeCalls(tr)
      BY ServeOnOff, ServeConfig, ArgumentTypes DEF SubscribeActive, OnOff
<1> HIDE DEF u
<1>3. ASSUME NEW s \in Seq(ServeCalls(tr)), NEW i \in 1..Len(s), s[i] = u
      PROVE  Served(s, tr, d)
      BY <1>1, <1>3, ServeSequence, ReachesOne DEF Served, Tends
<1>4. CASE tr.ev = "OnFirstSetup"
      BY <1>4, RunFirstSetupServes DEF HandleActive
<1>5. CASE tr.ev = "OnMigrateFromOldVersion"
  <2> DEFINE s == <<Execute(tr.arg), u, Func("ws", "on"), SubscribeActive>>
  <2>1. HandleActive(tr, d) = s
        BY <1>5 DEF HandleActive, MigrateFromOldVersion, u
  <2>2. s \in Seq(ServeCalls(tr)) /\ 2 \in 1..Len(s) /\ s[2] = u
        BY <1>1, <1>2
  <2> HIDE DEF s
  <2> QED BY <2>1, <2>2, <1>3
<1>6. CASE tr.ev = "OnUpdateConfigFinished"
  <2>1. HandleActive(tr, d) = <<SubscribeActive>>
        BY <1>6 DEF HandleActive
  <2>2. HandleActive(tr, d) \in Seq(ServeCalls(tr))
        BY <2>1, <1>2
  <2> QED BY <2>2, <1>6, ServeSequence DEF Served, Tends, ServeStart
<1>7. CASE tr.ev = "OnUpdateDeviceFinished"
  <2> DEFINE s == <<SubscribeActive, u>>
  <2>1. HandleActive(tr, d) = s
        BY <1>7 DEF HandleActive, u
  <2>2. s \in Seq(ServeCalls(tr)) /\ 2 \in 1..Len(s) /\ s[2] = u
        BY <1>1, <1>2
  <2> HIDE DEF s
  <2> QED BY <2>1, <2>2, <1>3
<1>8. CASE tr.ev \notin {"OnFirstSetup", "OnMigrateFromOldVersion", "OnUpdateConfigFinished",
                         "OnUpdateDeviceFinished"}
  <2> DEFINE a == <<u, Func("starter", "off")>>
             w == IF d["ws"] = "off" THEN <<Func("ws", "on")>> ELSE <<>>
             c == <<SubscribeActive>>
             s == a \o w \o c
  <2>1. HandleActive(tr, d) = s
        BY <1>8 DEF HandleActive, RestoreActiveState, u
  <2>2. /\ a \in Seq(ServeCalls(tr)) /\ w \in Seq(ServeCalls(tr)) /\ c \in Seq(ServeCalls(tr))
        /\ 1 \in 1..Len(a) /\ a[1] = u
        BY <1>1, <1>2
  <2> HIDE DEF a, w, c
  <2>3. s \in Seq(ServeCalls(tr)) /\ 1 \in 1..Len(s) /\ s[1] = u
        BY <2>2
  <2> HIDE DEF s
  <2> QED BY <2>1, <2>3, <1>3
<1> QED BY <1>4, <1>5, <1>6, <1>7, <1>8

(* Maintenance and reset keep none.                                        *)
LEMMA HandleOtherServes ==
  ASSUME NEW tr \in Transitions, NEW d \in Devices, Meant(tr), tr.to \in {"maintenance", "reset"}
  PROVE  Served(Handle(tr, d), tr, d)
<1>1. \A r \in Tended : ~Keeps(tr, r)
      BY DEF Keeps
<1>2. CASE tr.to = "maintenance"
  <2> DEFINE a == <<Check("finish")>>
             b == IF tr.pkg \in {"agent", "services"}
                  THEN <<Call(Set("services", None), "activity", "finish")>> ELSE <<>>
             c == IF tr.pkg = "agent" THEN <<CheckPoint("finish")>> ELSE <<>>
  <2>1. Handle(tr, d) = IF tr.ev = "OnUpdateDevice" THEN a \o b \o c \o a ELSE WaitInstallFinishedAfterBoot
        BY <1>2 DEF Handle, HandleMaintenance, UpdateDevice
  <2>2. /\ a \in Seq(ServeCalls(tr)) /\ b \in Seq(ServeCalls(tr)) /\ c \in Seq(ServeCalls(tr))
        /\ WaitInstallFinishedAfterBoot \in Seq(ServeCalls(tr))
    <3>1. Set("services", None) \in Configs
          BY ConfigTypes, DomainFacts DEF Persisted
    <3> QED BY <3>1, ServeConfig, ServeCheck, ServeOnOff DEF Errs, OnOff, WaitInstallFinishedAfterBoot
  <2> HIDE DEF a, b, c
  <2>3. Handle(tr, d) \in Seq(ServeCalls(tr))
        BY <2>1, <2>2
  <2> QED BY <1>1, <2>3, ServeSequence DEF Served, Tends
<1>3. CASE tr.to = "reset"
  <2> DEFINE a == <<Execute(NoChange), Execute(EmptyConfig), Execute(NoChange),
                    Command("starterEnabled", "on", "off"), Command("dhcpEnabled", "on", "off"),
                    Func("um", "off"), CheckPoint("abort"), TryResetEnv>>
             hubCfg == [EmptyConfig EXCEPT !["port"] = d["port"]]
             b == <<Execute(NoChange), Execute(hubCfg), Func("um", "off"), TryResetEnv>>
  <2>1. StopPublisher(d) \in Seq(ServeCalls(tr))
        BY ServeOnOff DEF StopPublisher, OnOff
  <2>2. /\ Execute(NoChange) \in ServeCalls(tr) /\ Execute(EmptyConfig) \in ServeCalls(tr)
        /\ Execute(hubCfg) \in ServeCalls(tr)
        BY ServeConfig, ConfigTypes, EmptyConfigType, HubConfigType
  <2>3. TryResetEnv \in ServeCalls(tr) /\ Now("reboot", "pending") \in ServeCalls(tr)
    <3>1. {"env", "reboot"} \subseteq ServiceResources \ (Tended \cup {"deactivate"})
          BY DEF ServiceResources, Tended
    <3> QED BY <3>1, ServeService, DomainFacts DEF TryResetEnv
  <2>4. /\ Command("starterEnabled", "on", "off") \in ServeCalls(tr)
        /\ Command("dhcpEnabled", "on", "off") \in ServeCalls(tr)
        /\ Func("um", "off") \in ServeCalls(tr)
        /\ CheckPoint("abort") \in ServeCalls(tr)
        BY <1>1, ServeOnOff, ServeFunc, ServeCheck DEF Tended, OnOff, Errs
  <2> HIDE DEF hubCfg
  <2>5. a \in Seq(ServeCalls(tr)) /\ b \in Seq(ServeCalls(tr))
        BY <2>2, <2>3, <2>4
  <2>6. EraseDatabase \in Seq(ServeCalls(tr))
    <3> DEFINE x == Call(Set("db", "off"), "none", "revoke")
               p == [r \in Resources |-> IF r \in Persisted THEN None ELSE Keep]
               y == Logged(p)
    <3>1. x \in ServeCalls(tr)
      <4>1. Set("db", "off") \in Patches
            BY SetType, DomainFacts DEF OnOff
      <4>2. \A r \in Tended \cup {"deactivate"} : Set("db", "off")[r] = Keep
            BY DomainFacts DEF Set, Tended, Daemons
      <4>3. x \in Calls /\ x.set = Set("db", "off")
            BY <4>1, NoChangeType DEF Call, Calls, Logs, Errs
      <4> QED BY <4>2, <4>3, ServeOther
    <3>2. y \in ServeCalls(tr)
      <4>1. p \in Patches
            BY DomainFacts DEF Patches, Values
      <4>2. \A r \in Tended \cup {"deactivate"} : p[r] = Keep
            BY DomainFacts DEF Persisted, Tended, Daemons
      <4> HIDE DEF p
      <4>3. y \in Calls /\ y.set = p
            BY <4>1, NoChangeType DEF Logged, Call, Calls, Logs, Errs
      <4> QED BY <4>2, <4>3, ServeOther
    <3>3. EraseDatabase = <<x, y, Now("reboot", "pending")>>
          BY DEF EraseDatabase
    <3> HIDE DEF x, y
    <3> QED BY <3>1, <3>2, <3>3, <2>3
  <2>7. /\ tr.ev # "OnReset" => Handle(tr, d) = <<>>
        /\ tr.ev = "OnReset" /\ DeviceType # "hub" => Handle(tr, d) = (StopPublisher(d) \o a) \o EraseDatabase
        /\ tr.ev = "OnReset" /\ DeviceType = "hub" => Handle(tr, d) = StopPublisher(d) \o b
        BY <1>3 DEF Handle, HandleReset, ResetCPE, ResetHub, hubCfg
  <2> HIDE DEF a, b
  <2>8. /\ <<>> \in Seq(ServeCalls(tr)) /\ StopPublisher(d) \o b \in Seq(ServeCalls(tr))
        /\ StopPublisher(d) \o a \in Seq(ServeCalls(tr))
        BY <2>1, <2>5
  <2>9. (StopPublisher(d) \o a) \o EraseDatabase \in Seq(ServeCalls(tr))
        BY <2>6, <2>8
  <2>10. Handle(tr, d) \in Seq(ServeCalls(tr))
        BY <2>7, <2>8, <2>9
  <2> QED BY <1>1, <2>10, ServeSequence DEF Served, Tends
<1> QED BY <1>2, <1>3

(* What a leg does with the daemons, from OnExit to the end of Handle.     *)
LEMMA LegServed ==
  ASSUME NEW tr \in Transitions, NEW d \in Devices, Meant(tr), ServeStart(tr, d)
  PROVE  Served(PerformTransition(tr, d), tr, d)
<1> DEFINE a == OnExit(tr, d)
           b == UpdateAppState(tr, d)
           h == Handle(tr, d)
<1>1. a \in Seq(ServeCalls(tr))
      BY ServeOnOff DEF OnExit, UnsubscribeActive, UnsubscribeInit, OnOff
<1>2. b \in Seq(ServeCalls(tr))
  <2>1. Execute(Set("state", tr.to)) \in ServeCalls(tr)
    <3>1. Set("state", tr.to) \in Configs
          BY ArgumentTypes, ConfigTypes DEF Persisted
    <3> QED BY <3>1, ServeConfig
  <2>2. Call(Set("active", tr.to), IF d["active"] = "boot" THEN "none" ELSE "func", "never") \in ServeCalls(tr)
    <3>1. "active" \in ServiceResources \ (Tended \cup {"deactivate"})
          BY DEF ServiceResources, Tended
    <3> QED BY <3>1, ArgumentTypes, ServeService DEF Logs, Errs
  <2> QED BY <2>1, <2>2 DEF UpdateAppState
<1>3. Served(h, tr, d)
  <2>1. tr.to \in {"init", "active", "update_config", "maintenance", "ztp_setup", "reset"}
        BY DEF Transitions, AppStates
  <2> QED BY <2>1, HandleInitServes, HandleActiveServes, HandleUpdateServes, HandleOtherServes DEF Handle
<1>4. PerformTransition(tr, d) = (a \o b) \o h
      BY DEF PerformTransition
<1> HIDE DEF a, b, h
<1>5. a \o b \in Seq(ServeCalls(tr)) /\ h \in Seq(Calls) /\ Serving(h, tr) /\ Tends(h, tr, d)
      BY <1>1, <1>2, <1>3 DEF Served
<1>6. a \o b \in Seq(Calls) /\ (a \o b) \o h \in Seq(Calls) /\ Serving((a \o b) \o h, tr)
      BY <1>5, ServeSequence, ServingAppend, AppendParts
<1>7. Tends((a \o b) \o h, tr, d)
      BY <1>5, <1>6, ReachesAppend DEF Tends
<1> QED BY <1>4, <1>6, <1>7 DEF Served

-----------------------------------------------------------------------------
(* The invariant of the daemons.                                           *)

(* Of the goroutine the first setup leaves behind, the device in init has  *)
(* seen the end.                                                           *)
DaemonsRun(d) ==
  /\ d["active"] = "active" => d["um"] = "on"
  /\ d["active"] = "init" /\ DeviceType = "cpe" =>
       d["starter"] = "on" /\ d["dhcp"] = "on" /\ d["deactivate"] = "off"

(* No log has that goroutine, and no boot starts with one.                 *)
NeverLogged == \A l \in {tx, sealed} : l.undo["deactivate"] = Keep /\ l.mem["deactivate"] = Keep
BootsQuiet == booting => dev["deactivate"] = "off"
(* At rest the daemons the state needs run.                                *)
RestsServed == phase = "idle" => DaemonsRun(dev)
(* In a leg the calls to come lead the device to the daemons it keeps.     *)
LegServes ==
  phase = "leg" =>
    /\ Serving(todo, leg) /\ Tends(todo, leg, dev)
    /\ DeviceType = "cpe" /\ leg.to \in {"init", "ztp_setup"} => dev["deactivate"] = "off"
    /\ leg.ev \in Boots => booting
    /\ leg.ev = "OnFirstSetup" => ~booting /\ sealed = NoTx /\ Undone["active"] # "active"
(* Where the transaction would be taken back to they run, too - until the  *)
(* last call of a first setup, behind which it is not taken back.          *)
SetUp == phase = "leg" /\ leg.ev = "OnFirstSetup" /\ todo = <<>>
GoesBackServed ==
  phase \in {"leg", "rollback"} /\ ~booting /\ ~SetUp =>
    DaemonsRun(Started) /\ (~Sealing => DaemonsRun(Undone))

DaemonsInv == NeverLogged /\ BootsQuiet /\ RestsServed /\ LegServes /\ GoesBackServed

-----------------------------------------------------------------------------
(* What the logs take a resource back to.                                  *)

First(a, b) == IF a = Keep THEN b ELSE a
Minded == Tended \cup {"active", "deactivate"}

(* The parts of the device the invariant of the daemons watches: none is   *)
(* persisted, and a fresh transaction has nothing to undo of them.         *)
LEMMA MindedFacts ==
  /\ Minded \subseteq Resources /\ Tended \subseteq Minded /\ "active" \in Minded /\ "deactivate" \in Minded
  /\ \A r \in Minded : /\ NoTx.undo[r] = Keep /\ NoTx.mem[r] = Keep /\ r \notin Persisted
                       /\ \A d \in Devices : d[r] # Keep
<1>1. /\ Minded \subseteq Resources /\ Tended \subseteq Minded /\ "active" \in Minded /\ "deactivate" \in Minded
      /\ \A r \in Minded : r \notin Persisted
      BY DomainFacts DEF Minded, Tended, Daemons, Persisted
<1>2. \A r \in Minded : NoTx.undo[r] = Keep /\ NoTx.mem[r] = Keep
      BY <1>1 DEF NoTx, NoChange
<1>3. \A r \in Minded : \A d \in Devices : d[r] # Keep
      BY <1>1, KeepIsNoValue DEF Devices
<1> QED BY <1>1, <1>2, <1>3

(* At the end of a rollback, and at the start of the transaction ...       *)
LEMMA TakenBack ==
  ASSUME NEW r \in Minded
  PROVE  /\ Undone[r] = First(tx.undo[r], First(tx.mem[r], dev[r]))
         /\ Started[r] = First(sealed.undo[r], First(tx.undo[r], First(sealed.mem[r], First(tx.mem[r], dev[r]))))
BY MindedFacts DEF Undone, Started, Apply, First

(* ... and after a step.                                                   *)
LEMMA TakenBackNext ==
  ASSUME NEW r \in Minded
  PROVE  /\ Undone'[r] = First(tx'.undo[r], First(tx'.mem[r], dev'[r]))
         /\ Started'[r] = First(sealed'.undo[r], First(tx'.undo[r], First(sealed'.mem[r], First(tx'.mem[r], dev'[r]))))
<1>1. r \in Resources
      BY MindedFacts
<1>2. Undone'[r] = First(tx'.undo[r], First(tx'.mem[r], dev'[r]))
      BY <1>1 DEF Undone, Apply, First
<1>3. Started'[r] = First(sealed'.undo[r], First(tx'.undo[r], First(sealed'.mem[r], First(tx'.mem[r], dev'[r]))))
      BY <1>1 DEF Started, Apply, First
<1> QED BY <1>2, <1>3

(* Where the logs are the same and the device is.                          *)
LEMMA SameTakenBack ==
  ASSUME NEW r \in Minded, UNCHANGED <<tx, sealed>>, dev'[r] = dev[r]
  PROVE  Undone'[r] = Undone[r] /\ Started'[r] = Started[r]
BY TakenBack, TakenBackNext

(* Devices alike in the daemons run the same.                              *)
LEMMA RunAlike ==
  ASSUME NEW d, NEW e, \A r \in Minded : e[r] = d[r]
  PROVE  DaemonsRun(e) <=> DaemonsRun(d)
BY DEF DaemonsRun, Minded, Tended

(* The goroutine is where it is, whatever is taken back.                   *)
LEMMA NeverLoggedBack ==
  ASSUME NeverLogged
  PROVE  Undone["deactivate"] = dev["deactivate"] /\ Started["deactivate"] = dev["deactivate"]
BY MindedFacts, TakenBack DEF NeverLogged, First

-----------------------------------------------------------------------------
(* One call succeeds.                                                      *)

(* The call, and those that are left.                                      *)
LEMMA ServingTail ==
  ASSUME NEW tr, NEW s \in Seq(Calls), s # <<>>, Serving(s, tr)
  PROVE  /\ Serving(Tail(s), tr)
         /\ Serves(Head(s), tr)
            \/ (tr.ev = "OnFirstSetup" /\ Tail(s) = <<>> /\ Head(s) = Now("deactivate", "on"))
<1> DEFINE t == Tail(s)
<1>1. /\ Head(s) = s[1] /\ 1 \in 1..Len(s) /\ t \in Seq(Calls)
      /\ \A i \in 1..Len(t) : i+1 \in 1..Len(s) /\ t[i] = s[i+1]
      BY TailParts
<1>4. Len(t) = Len(s) - 1 /\ Len(s) \in Nat
      OBVIOUS
<1>5. Len(s) = 1 => t = <<>>
      BY <1>1, <1>4
<1> HIDE DEF t
<1>2. Serving(t, tr)
  <2> SUFFICES ASSUME NEW i \in 1..Len(t)
               PROVE  Serves(t[i], tr) \/ Parts(t, i, tr)
      BY DEF Serving
  <2>1. Serves(s[i+1], tr) \/ Parts(s, i+1, tr)
        BY <1>1 DEF Serving
  <2>2. i+1 = Len(s) => i = Len(t)
        BY <1>4
  <2> QED BY <2>1, <2>2, <1>1 DEF Parts
<1>3. Serves(s[1], tr) \/ Parts(s, 1, tr)
      BY <1>1 DEF Serving
<1> QED BY <1>1, <1>2, <1>3, <1>5 DEF Parts, t

(* Leaving the goroutine behind.                                           *)
LEMMA PartsFacts ==
  LET c == Now("deactivate", "on")
  IN  c.log = "none" /\ c.err = "never" /\ \A r \in Minded \ {"deactivate"} : c.set[r] = Keep
<1>1. \A r \in Minded \ {"deactivate"} : Set("deactivate", "on")[r] = Keep
      BY MindedFacts DEF Set
<1> QED BY <1>1 DEF Now, Call

(* What a successful call does.                                            *)
LEMMA StepServes ==
  ASSUME AtomicInv, RestInv, DaemonsInv, Step
  PROVE  /\ Serving(Tail(todo), leg) /\ todo' = Tail(todo) /\ leg' = leg /\ booting' = booting
         /\ \/ Serves(Head(todo), leg)
            \/ leg.ev = "OnFirstSetup" /\ Tail(todo) = <<>> /\ Head(todo) = Now("deactivate", "on")
         /\ \A r \in Minded : dev'[r] = IF Head(todo).set[r] = Keep THEN dev[r] ELSE Head(todo).set[r]
<1>1. Serving(todo, leg)
      BY StepFacts DEF DaemonsInv, LegServes
<1> QED BY <1>1, StepFacts, ServingTail, MindedFacts DEF Step

(* No log gets the goroutine.                                              *)
LEMMA StepNeverLogged ==
  ASSUME AtomicInv, RestInv, DaemonsInv, Step
  PROVE  NeverLogged'
<1> DEFINE c == Head(todo)
           r == "deactivate"
<1>1. c.set[r] = Keep \/ c.log = "none"
      BY StepServes, PartsFacts DEF Serves
<1>2. /\ r \in Resources /\ NoTx.undo[r] = Keep /\ NoTx.mem[r] = Keep
      /\ tx \in [undo : Patches, mem : Patches]
      BY StepFacts, MindedFacts
<1>3. tx.undo[r] = Keep /\ tx.mem[r] = Keep /\ sealed.undo[r] = Keep /\ sealed.mem[r] = Keep
      BY DEF DaemonsInv, NeverLogged
<1>4. CASE c.log = "activity"
  <2>1. tx'.undo = Record(c, tx.undo, dev) /\ tx'.mem = tx.mem /\ sealed' = sealed
        BY <1>2, <1>4 DEF Step
  <2>2. tx'.undo[r] = Keep
        BY <2>1, <1>1, <1>2, <1>3, <1>4 DEF Record
  <2> QED BY <2>1, <2>2, <1>3 DEF NeverLogged
<1>5. CASE c.log = "func"
  <2>1. tx'.mem = Record(c, tx.mem, dev) /\ tx'.undo = tx.undo /\ sealed' = sealed
        BY <1>2, <1>5 DEF Step
  <2>2. tx'.mem[r] = Keep
        BY <2>1, <1>1, <1>2, <1>3, <1>5 DEF Record
  <2> QED BY <2>1, <2>2, <1>3 DEF NeverLogged
<1>6. CASE c.log = "checkpoint"
  <2>1. tx' = NoTx /\ sealed' = tx
        BY <1>6 DEF Step
  <2> QED BY <2>1, <1>2, <1>3 DEF NeverLogged
<1>7. CASE c.log \notin {"activity", "func", "checkpoint"}
  <2>1. tx' = tx /\ sealed' = sealed
        BY <1>7 DEF Step
  <2> QED BY <2>1, <1>3 DEF NeverLogged
<1> QED BY <1>4, <1>5, <1>6, <1>7

(* The calls that are left lead on.                                        *)
LEMMA StepTends ==
  ASSUME AtomicInv, RestInv, DaemonsInv, Step
  PROVE  Tends(Tail(todo), leg, dev')
<1> DEFINE c == Head(todo)
           t == Tail(todo)
<1> SUFFICES ASSUME NEW r \in Tended, Keeps(leg, r)
             PROVE  dev'[r] = "on" \/ Reaches(t, r, "on") \/ Refuses(t) \/ Migrates(leg, dev')
    BY DEF Tends
<1>1. dev[r] = "on" \/ Reaches(todo, r, "on") \/ Refuses(todo) \/ Migrates(leg, dev)
      BY StepFacts DEF DaemonsInv, LegServes, Tends
<1>2. dev'[r] = IF c.set[r] = Keep THEN dev[r] ELSE c.set[r]
      BY StepServes, MindedFacts
<1>3. c.set[r] # Keep => c.set[r] = "on"
  <2>1. r # "deactivate" /\ r \in Minded
        BY MindedFacts DEF Tended
  <2> QED BY <2>1, StepServes, PartsFacts DEF Serves
<1>4. Refuses(todo) => Refuses(t)
      BY StepFacts, TailReaches
<1>5. Reaches(todo, r, "on") => c.set[r] = "on" \/ Reaches(t, r, "on")
      BY StepFacts, TailReaches
<1>6. Migrates(leg, dev) => Migrates(leg, dev')
  <2>1. "env" \in Resources /\ "env" \in Special
        BY WatchedFacts DEF Special
  <2>2. leg.to = "init" => dev'["env"] = dev["env"]
        BY <2>1, StepFacts DEF Fits
  <2> QED BY <2>2 DEF Migrates
<1>7. "on" # Keep
      BY DEF Keep
<1> QED BY <1>1, <1>2, <1>3, <1>4, <1>5, <1>6, <1>7

(* Where the transaction would be taken back to stays where it was, but    *)
(* for the update manager of a device that is set up.                      *)
LEMMA StepTakenBack ==
  ASSUME AtomicInv, RestInv, DaemonsInv, Step, LogsApart', MemHasNoConfig', ~booting,
         Head(todo).log # "checkpoint",
         NEW r \in Minded, r = "deactivate" => Tail(todo) # <<>> \/ leg.ev # "OnFirstSetup",
         r = "um" => leg.ev # "OnFirstSetup"
  PROVE  Undone'[r] = Undone[r] /\ Started'[r] = Started[r]
<1> DEFINE c == Head(todo)
<1>1. sealed' = sealed /\ tx \in [undo : Patches, mem : Patches] /\ dev \in Devices
      BY StepFacts DEF Step
<1>2. CASE r = "active"
      BY <1>2, StepGoesBack DEF Watched
<1>3. CASE r # "active"
  <2>1. /\ r \in Resources /\ dev[r] # Keep
        /\ dev'[r] = IF c.set[r] = Keep THEN dev[r] ELSE c.set[r]
        BY <1>1, MindedFacts, StepServes
  <2>2. c.set[r] # Keep => c.log = "func" /\ c.inv[r] = Keep
    <3>1. leg.ev \notin Boots
          BY StepFacts DEF DaemonsInv, LegServes
    <3>2. CASE Serves(c, leg)
          BY <3>1, <3>2, <1>3 DEF Serves, Minded
    <3>3. CASE leg.ev = "OnFirstSetup" /\ Tail(todo) = <<>> /\ c = Now("deactivate", "on")
          BY <3>3, PartsFacts
    <3> QED BY <3>2, <3>3, StepServes
  <2>3. CASE c.set[r] = Keep
    <3>1. tx'.undo[r] = tx.undo[r] /\ tx'.mem[r] = tx.mem[r]
      <4>1. CASE c.log = "activity"
        <5>1. tx'.undo = Record(c, tx.undo, dev) /\ tx'.mem = tx.mem
              BY <4>1, <1>1 DEF Step
        <5> QED BY <5>1, <2>1, <2>3 DEF Record
      <4>2. CASE c.log = "func"
        <5>1. tx'.mem = Record(c, tx.mem, dev) /\ tx'.undo = tx.undo
              BY <4>2, <1>1 DEF Step
        <5> QED BY <5>1, <2>1, <2>3 DEF Record
      <4>3. CASE c.log \notin {"activity", "func"}
            BY <4>3, <1>1 DEF Step
      <4> QED BY <4>1, <4>2, <4>3
    <3> QED BY <3>1, <2>1, <2>3, <1>1, TakenBack, TakenBackNext
  <2>4. CASE c.set[r] # Keep
    <3>1. tx'.mem = Record(c, tx.mem, dev) /\ tx'.undo = tx.undo
          BY <2>2, <2>4, <1>1 DEF Step
    <3>2. tx'.mem[r] = First(tx.mem[r], dev[r])
          BY <3>1, <2>1, <2>2, <2>4 DEF Record, First
    <3>3. First(tx'.mem[r], dev'[r]) = First(tx.mem[r], dev[r])
          BY <3>2, <2>1 DEF First
    <3>4. First(sealed.mem[r], First(tx'.mem[r], dev'[r])) = First(sealed.mem[r], First(tx.mem[r], dev[r]))
          BY <3>3
    <3> QED BY <3>1, <3>3, <3>4, <1>1, TakenBack, TakenBackNext
  <2> QED BY <2>3, <2>4
<1> QED BY <1>2, <1>3

(* A call that keeps the invariant where it is not a checkpoint ...        *)
LEMMA StepGoesBackServed ==
  ASSUME AtomicInv, RestInv, DaemonsInv, Step, LogsApart', MemHasNoConfig', ~booting,
         Head(todo).log # "checkpoint"
  PROVE  GoesBackServed'
<1>1. /\ DaemonsRun(Started) /\ (~Sealing => DaemonsRun(Undone))
      BY StepFacts DEF DaemonsInv, GoesBackServed, SetUp
<1>2. /\ todo' = Tail(todo) /\ leg' = leg /\ phase' = "leg" /\ sealed' = sealed
      BY StepFacts DEF Step
<1>3. Sealing => Sealing'
      BY <1>2, StepFacts, TailFits DEF Sealing
<1> SUFFICES ASSUME ~SetUp'
             PROVE  DaemonsRun(Started') /\ (~Sealing => DaemonsRun(Undone'))
    BY <1>3 DEF GoesBackServed
<1>4. Tail(todo) # <<>> \/ leg.ev # "OnFirstSetup"
      BY <1>2 DEF SetUp
<1>5. \A r \in Minded \ {"um"} : Undone'[r] = Undone[r] /\ Started'[r] = Started[r]
      BY <1>4, StepTakenBack
<1>6. CASE leg.ev # "OnFirstSetup"
  <2>1. \A r \in Minded : Undone'[r] = Undone[r] /\ Started'[r] = Started[r]
        BY <1>5, <1>6, StepTakenBack
  <2> QED BY <2>1, <1>1, RunAlike
<1>7. CASE leg.ev = "OnFirstSetup"
  <2>1. sealed = NoTx /\ Undone["active"] # "active"
        BY <1>7, StepFacts DEF DaemonsInv, LegServes
  <2>2. Started["active"] = Undone["active"]
        BY <2>1, MindedFacts, TakenBack DEF First
  <2>3. \A r \in {"active", "starter", "dhcp", "deactivate"} :
          Undone'[r] = Undone[r] /\ Started'[r] = Started[r]
        BY <1>5 DEF Minded, Tended
  <2> QED BY <2>1, <2>2, <2>3, <1>1 DEF DaemonsRun
<1> QED BY <1>6, <1>7

(* ... and where it is one.                                                *)
LEMMA CheckPointServed ==
  ASSUME AtomicInv, RestInv, DaemonsInv, Step, ~booting, Head(todo).log = "checkpoint"
  PROVE  GoesBackServed'
<1> DEFINE c == Head(todo)
<1>1. /\ tx' = NoTx /\ sealed' = tx /\ todo' = Tail(todo) /\ leg' = leg
      BY StepFacts DEF Step
<1>2. Fits(c, leg, dev, booting) /\ Late(c)
      BY StepFacts DEF Late
<1>3. leg.to = "maintenance" \/ Erasing(leg)
      BY <1>2 DEF Fits
<1>4. \A r \in Minded : dev'[r] = dev[r]
  <2>1. Serves(c, leg)
        BY StepServes, PartsFacts
  <2>2. \A r \in Minded : c.set[r] = Keep
        BY <1>2, <2>1 DEF Serves, Fits, Minded, Special, Watched
  <2> QED BY <2>2, StepServes
<1>5. sealed = NoTx
  <2>1. CheckPointed(todo)
        BY StepFacts, TailReaches
  <2> QED BY <2>1, StepFacts DEF RestInv, CanGoBack
<1>6. DaemonsRun(Started)
      BY StepFacts DEF DaemonsInv, GoesBackServed, SetUp
<1>7. \A r \in Minded : Started'[r] = Started[r] /\ Undone'[r] = dev[r]
  <2> SUFFICES ASSUME NEW r \in Minded PROVE Started'[r] = Started[r] /\ Undone'[r] = dev[r]
      OBVIOUS
  <2>1. NoTx.undo[r] = Keep /\ NoTx.mem[r] = Keep
        BY MindedFacts
  <2>2. Undone'[r] = dev[r]
        BY <2>1, <1>1, <1>4, TakenBackNext DEF First
  <2>3. Started[r] = First(tx.undo[r], First(tx.mem[r], dev[r]))
        BY <2>1, <1>5, TakenBack DEF First
  <2>4. Started'[r] = First(tx.undo[r], First(tx.mem[r], dev[r]))
        BY <2>1, <1>1, <1>4, TakenBackNext DEF First
  <2> QED BY <2>2, <2>3, <2>4
<1>8. DaemonsRun(Started')
      BY <1>6, <1>7, RunAlike
<1>9. ASSUME ~Sealing' PROVE DaemonsRun(Undone')
  <2>1. leg.to = "maintenance"
    <3>1. ASSUME Erasing(leg) PROVE FALSE
      <4>1. \A i \in 1..Len(Tail(todo)) : Behind(c, Tail(todo)[i], leg)
            BY StepFacts, TailFits DEF RestInv, InLeg
      <4>2. \A i \in 1..Len(Tail(todo)) : Sure(Tail(todo)[i])
            BY <4>1, <3>1 DEF Behind, Erasing
      <4> QED BY <4>2, <3>1, <1>1, <1>9, StepFacts DEF Sealing
    <3> QED BY <3>1, <1>3
  <2>2. dev["active"] = "maintenance"
    <3>1. Settled(leg, dev)
          BY <1>2, <2>1, StepFacts, SettlesLate DEF RestInv, InLeg
    <3> QED BY <3>1, <2>1 DEF Settled, Watched, Goal
  <2>3. Undone'["active"] = "maintenance"
        BY <2>2, <1>7, MindedFacts
  <2> QED BY <2>3 DEF DaemonsRun
<1> QED BY <1>8, <1>9 DEF GoesBackServed

(* A call keeps the invariant.                                             *)
LEMMA StepDaemons ==
  ASSUME AtomicInv, RestInv, PublisherInv, DaemonsInv, Step, AtomicInv', RestInv'
  PROVE  DaemonsInv'
<1> DEFINE c == Head(todo)
<1>1. LogsApart' /\ MemHasNoConfig' /\ NeverLogged'
      BY StepNeverLogged DEF RestInv, AtomicInv
<1>2. leg.ev = "OnFirstSetup" => leg.to = "active"
      BY StepFacts DEF PublisherInv, LegPublishes, Aims
<1>3. leg.ev # "OnFirstSetup" => dev'["deactivate"] = dev["deactivate"]
      BY StepServes, MindedFacts DEF Serves
<1>4. leg.ev = "OnFirstSetup" => ~booting
      BY StepFacts DEF DaemonsInv, LegServes
<1>5. BootsQuiet' /\ RestsServed'
      BY <1>3, <1>4, StepServes, StepFacts DEF DaemonsInv, BootsQuiet, RestsServed
<1>6. LegServes'
  <2>1. Serving(todo', leg) /\ Tends(todo', leg, dev')
        BY StepServes, StepTends
  <2>2. DeviceType = "cpe" /\ leg.to \in {"init", "ztp_setup"} => dev'["deactivate"] = "off"
        BY <1>2, <1>3, StepFacts DEF DaemonsInv, LegServes
  <2>3. leg.ev \in Boots => booting
        BY StepFacts DEF DaemonsInv, LegServes
  <2>4. ASSUME leg.ev = "OnFirstSetup"
        PROVE  ~booting /\ sealed' = NoTx /\ Undone'["active"] # "active"
    <3>1. ~booting /\ sealed = NoTx /\ Undone["active"] # "active"
          BY <2>4, StepFacts DEF DaemonsInv, LegServes
    <3>2. c.log # "checkpoint"
          BY <1>2, <2>4, StepFacts DEF Fits, Erasing
    <3>3. Undone'["active"] = Undone["active"]
          BY <1>1, <3>1, <3>2, StepGoesBack DEF Watched
    <3>4. sealed' = sealed
          BY <3>2 DEF Step
    <3> QED BY <3>1, <3>3, <3>4
  <2> QED BY <2>1, <2>2, <2>3, <2>4, StepServes DEF LegServes
<1>7. GoesBackServed'
  <2>1. CASE booting
        BY <2>1, StepServes DEF GoesBackServed
  <2>2. CASE ~booting
        BY <2>2, <1>1, StepGoesBackServed, CheckPointServed
  <2> QED BY <2>1, <2>2
<1> QED BY <1>1, <1>5, <1>6, <1>7 DEF DaemonsInv

-----------------------------------------------------------------------------
(* One call fails: no handler puts a daemon right by itself.               *)
LEMMA FailServes ==
  ASSUME AtomicInv, RestInv, DaemonsInv, CallFails
  PROVE  /\ \A r \in Minded : dev'[r] = dev[r]
         /\ Serving(Tail(todo), leg) /\ Serves(Head(todo), leg)
         /\ leg.ev = "OnFirstSetup" => Head(todo).err \notin {"revoke", "finish"}
<1>1. \A r \in Minded : Cleanup(Head(todo))[r] = Keep
      BY MindedFacts DEF Cleanup, NoChange, Set, Minded, Tended
<1>2. \A r \in Minded : dev'[r] = dev[r]
      BY <1>1, MindedFacts DEF CallFails, Apply
<1>3. Serving(todo, leg)
      BY FailFacts DEF DaemonsInv, LegServes
<1>4. Serving(Tail(todo), leg) /\ Serves(Head(todo), leg)
      BY <1>3, FailFacts, ServingTail, PartsFacts
<1>5. leg.ev = "OnFirstSetup" => Head(todo).err \notin {"revoke", "finish"}
  <2>1. Fits(Head(todo), leg, dev, booting) /\ Meant(leg)
        BY FailFacts DEF RestInv, InLeg
  <2> QED BY <2>1 DEF Fits, Erasing, Meant
<1> QED BY <1>2, <1>4, <1>5

(* Nothing is logged; where the transaction is taken back to stays where   *)
(* it was, or is where it started.                                         *)
LEMMA FailTakenBack ==
  ASSUME AtomicInv, RestInv, DaemonsInv, CallFails
  PROVE  /\ NeverLogged'
         /\ \A r \in Minded : Started'[r] = Started[r]
         /\ \A r \in Minded : Undone'[r] = IF Head(todo).err \in {"revoke", "finish"} THEN Started[r] ELSE Undone[r]
<1>1. "deactivate" \in Resources /\ NoTx.undo["deactivate"] = Keep /\ NoTx.mem["deactivate"] = Keep
      BY MindedFacts
<1>2. CASE Head(todo).err \in {"revoke", "finish"}
  <2>1. /\ tx' = [undo |-> Apply(sealed.undo, tx.undo), mem |-> Apply(sealed.mem, tx.mem)]
        /\ sealed' = NoTx
        BY <1>2 DEF CallFails, DeleteCheckPoint
  <2>2. NeverLogged'
        BY <1>1, <2>1 DEF DaemonsInv, NeverLogged, Apply
  <2>3. ASSUME NEW r \in Minded PROVE Started'[r] = Started[r] /\ Undone'[r] = Started[r]
    <3>1. /\ r \in Resources /\ NoTx.undo[r] = Keep /\ NoTx.mem[r] = Keep /\ dev'[r] = dev[r]
          BY MindedFacts, FailServes
    <3>2. /\ tx'.undo[r] = First(sealed.undo[r], tx.undo[r]) /\ tx'.mem[r] = First(sealed.mem[r], tx.mem[r])
          BY <2>1, <3>1 DEF Apply, First
    <3>3. Undone'[r] = Started[r]
          BY <3>1, <3>2, TakenBack, TakenBackNext DEF First
    <3>4. Started'[r] = Undone'[r]
          BY <2>1, <3>1, TakenBackNext DEF First
    <3> QED BY <3>3, <3>4
  <2> QED BY <1>2, <2>2, <2>3
<1>3. CASE Head(todo).err \notin {"revoke", "finish"}
  <2>1. UNCHANGED <<tx, sealed>>
        BY <1>3 DEF CallFails
  <2>2. NeverLogged'
        BY <2>1 DEF DaemonsInv, NeverLogged
  <2>3. \A r \in Minded : Undone'[r] = Undone[r] /\ Started'[r] = Started[r]
        BY <2>1, FailServes, SameTakenBack
  <2> QED BY <1>3, <2>2, <2>3
<1> QED BY <1>2, <1>3

(* The calls that are left, if any, lead on.                               *)
LEMMA FailLegServes ==
  ASSUME AtomicInv, RestInv, DaemonsInv, CallFails
  PROVE  LegServes'
<1> DEFINE c == Head(todo)
<1>1. /\ Tends(todo, leg, dev)
      /\ DeviceType = "cpe" /\ leg.to \in {"init", "ztp_setup"} => dev["deactivate"] = "off"
      /\ leg.ev \in Boots => booting
      /\ leg.ev = "OnFirstSetup" => ~booting /\ sealed = NoTx /\ Undone["active"] # "active"
      BY FailFacts DEF DaemonsInv, LegServes
<1>2. "deactivate" \in Minded /\ "active" \in Minded
      BY MindedFacts
<1>3. CASE c.err = "log"
  <2>1. todo' = Tail(todo) /\ leg' = leg /\ booting' = booting /\ sealed' = sealed
        BY <1>3, FailFacts DEF CallFails
  <2>2. Undone'["active"] = Undone["active"] /\ dev'["deactivate"] = dev["deactivate"]
        BY <1>2, <1>3, FailTakenBack, FailServes
  <2>3. Tends(Tail(todo), leg, dev')
    <3> SUFFICES ASSUME NEW r \in Tended, Keeps(leg, r)
                 PROVE  dev'[r] = "on" \/ Reaches(Tail(todo), r, "on") \/ Refuses(Tail(todo))
                        \/ Migrates(leg, dev')
        BY DEF Tends
    <3>1. dev[r] = "on" \/ Reaches(todo, r, "on") \/ Refuses(todo) \/ Migrates(leg, dev)
          BY <1>1 DEF Tends
    <3>2. dev'[r] = dev[r]
          BY MindedFacts, FailServes
    <3>3. c.set[r] = Keep
          BY <1>3, FailServes DEF Serves
    <3>4. dev'["env"] = dev["env"]
          BY FailFacts DEF Alike, Special
    <3>5. Reaches(todo, r, "on") => Reaches(Tail(todo), r, "on")
          BY <3>3, FailFacts, TailReaches DEF Keep
    <3>6. Refuses(todo) => Refuses(Tail(todo))
          BY <1>3, FailFacts, TailReaches
    <3> QED BY <3>1, <3>2, <3>4, <3>5, <3>6 DEF Migrates
  <2> QED BY <1>1, <2>1, <2>2, <2>3, FailServes DEF LegServes
<1>4. CASE c.err = "finish"
  <2>1. todo' = <<>> /\ leg' = leg /\ booting' = booting
        BY <1>4, FailFacts DEF CallFails
  <2>2. leg.to = "maintenance" /\ leg.ev # "OnFirstSetup"
        BY <1>4, FailFacts, FailServes DEF Fits
  <2>3. Serving(<<>>, leg) /\ Tends(<<>>, leg, dev')
        BY <2>2 DEF Serving, Tends, Keeps
  <2> QED BY <1>1, <2>1, <2>2, <2>3 DEF LegServes
<1>5. CASE c.err \notin {"log", "finish"}
  <2>1. phase' = "rollback"
        BY <1>5 DEF CallFails
  <2> QED BY <2>1 DEF LegServes
<1> QED BY <1>3, <1>4, <1>5

(* A failing call keeps the invariant.                                     *)
LEMMA CallFailsDaemons ==
  ASSUME AtomicInv, RestInv, DaemonsInv, CallFails
  PROVE  DaemonsInv'
<1> DEFINE c == Head(todo)
<1>1. NeverLogged' /\ LegServes'
      BY FailTakenBack, FailLegServes
<1>2. BootsQuiet' /\ RestsServed'
  <2>1. booting' = booting /\ phase' \in {"leg", "rollback"} /\ dev'["deactivate"] = dev["deactivate"]
        BY FailFacts, FailServes, MindedFacts DEF CallFails
  <2> QED BY <2>1 DEF DaemonsInv, BootsQuiet, RestsServed
<1>3. ASSUME ~booting PROVE DaemonsRun(Started') /\ (~Sealing' => DaemonsRun(Undone'))
  <2>1. DaemonsRun(Started) /\ (~Sealing => DaemonsRun(Undone))
        BY <1>3, FailFacts DEF DaemonsInv, GoesBackServed, SetUp
  <2>2. DaemonsRun(Started')
        BY <2>1, FailTakenBack, RunAlike
  <2>3. CASE c.err \in {"revoke", "finish"}
    <3>1. \A r \in Minded : Undone'[r] = Started[r]
          BY <2>3, FailTakenBack
    <3> QED BY <2>1, <2>2, <3>1, RunAlike
  <2>4. CASE c.err \notin {"revoke", "finish"}
    <3>1. \A r \in Minded : Undone'[r] = Undone[r]
          BY <2>4, FailTakenBack
    <3>2. ~Sealing' => ~Sealing
      <4>1. CASE c.err = "log"
        <5>1. todo' = Tail(todo) /\ phase' = "leg"
              BY <4>1 DEF CallFails
        <5> QED BY <5>1, FailFacts, TailFits DEF Sealing
      <4>2. CASE c.err # "log"
        <5>1. ~Sure(c) /\ 1 \in 1..Len(todo) /\ c = todo[1]
              BY <2>4, <4>2, FailFacts, TailParts DEF Sure
        <5> QED BY <5>1 DEF Sealing
      <4> QED BY <4>1, <4>2
    <3> QED BY <2>1, <2>2, <3>1, <3>2, RunAlike
  <2> QED BY <2>3, <2>4
<1>4. GoesBackServed'
      BY <1>3, FailFacts DEF GoesBackServed
<1> QED BY <1>1, <1>2, <1>4 DEF DaemonsInv

-----------------------------------------------------------------------------
(* A leg begins.                                                           *)
LEMMA BeginServes ==
  ASSUME TypeOK, NEW tr \in Transitions, Begin(tr), UNCHANGED <<dev, booting>>, Meant(tr),
         ValidateTransition(dev["active"], tr.to) => ServeStart(tr, dev),
         ValidateTransition(dev["active"], tr.to) /\ DeviceType = "cpe" /\ tr.to \in {"init", "ztp_setup"}
           => dev["deactivate"] = "off",
         tr.ev \in Boots => booting,
         tr.ev = "OnFirstSetup" => /\ ~booting /\ sealed' = NoTx
                                   /\ dev["active"] # "active" => Undone'["active"] # "active",
         tr.ev = "OnFirstSetup" => tr.to = "active"
  PROVE  LegServes' /\ leg' = tr /\ phase' \in {"leg", "rollback"}
<1>1. CASE dev["active"] # tr.to /\ ValidateTransition(dev["active"], tr.to)
  <2>1. phase' = "leg" /\ leg' = tr /\ todo' = PerformTransition(tr, dev)
        BY <1>1 DEF Begin
  <2>2. Served(todo', tr, dev)
        BY <1>1, <2>1, LegServed DEF TypeOK
  <2> QED BY <1>1, <2>1, <2>2 DEF LegServes, Served
<1>2. CASE ~(dev["active"] # tr.to /\ ValidateTransition(dev["active"], tr.to))
  <2>1. phase' = "rollback" /\ leg' = tr
        BY <1>2 DEF Begin
  <2> QED BY <2>1 DEF LegServes
<1> QED BY <1>1, <1>2

(* Taking a caller: the daemons run as the state needs them.               *)
LEMMA AcceptDaemons ==
  ASSUME AtomicInv, RestInv, PublisherInv, DaemonsInv, Accept
  PROVE  DaemonsInv'
<1> DEFINE tr == Head(queue)
<1>1. /\ phase = "idle" /\ queue # <<>> /\ Begin(tr) /\ dev["db"] = "on"
      /\ tx' = NoTx /\ sealed' = NoTx /\ UNCHANGED <<dev, booting>>
      BY DEF Accept
<1>2. tr \in Requests
  <2>1. queue \in Seq(Transitions)
        BY DEF AtomicInv, TypeOK
  <2>2. 1 \in 1..Len(queue) /\ Head(queue) = queue[1]
        BY <2>1, <1>1
  <2> QED BY <2>2 DEF QueueRequested, PublisherInv
<1>3. tr \in Transitions /\ Meant(tr)
      BY <1>2, RequestsType, RequestsMeant
<1>4. /\ ~booting /\ dev["active"] \in {"init", "active", "maintenance", "reset"} /\ DaemonsRun(dev)
      BY <1>1 DEF RestInv, AtRest, DaemonsInv, RestsServed
<1>5. /\ Aims(tr) /\ tr.ev \notin Boots
      /\ tr.ev \notin {"OnZTPSetupFinished", "OnHubResetFinished", "OnUpdateConfigFinished"}
      /\ tr.to # "init" /\ (tr.ev = "OnFirstSetup" => tr.to = "active")
      BY <1>2, RequestsAim DEF Aims, Boots
<1> HIDE DEF tr
<1>6. ASSUME ValidateTransition(dev["active"], tr.to)
      PROVE  /\ ServeStart(tr, dev)
             /\ DeviceType = "cpe" /\ tr.to = "ztp_setup" => dev["deactivate"] = "off"
  <2>1. tr.to = "update_config" => dev["active"] = "active"
        BY <1>4, <1>6 DEF ValidateTransition
  <2>2. tr.to = "ztp_setup" => dev["active"] = "init"
        BY <1>4, <1>6 DEF ValidateTransition
  <2>3. tr.to \in {"update_config", "ztp_setup"} => \A r \in Tended : Keeps(tr, r) => dev[r] = "on"
        BY <1>4, <2>1, <2>2 DEF Keeps, DaemonsRun
  <2> QED BY <1>4, <1>5, <2>2, <2>3 DEF ServeStart, DaemonsRun
<1>7. \A r \in Minded : Undone'[r] = dev[r] /\ Started'[r] = dev[r]
  <2>1. \A r \in Minded : NoTx.undo[r] = Keep /\ NoTx.mem[r] = Keep
        BY MindedFacts
  <2> QED BY <2>1, <1>1, TakenBackNext DEF First
<1>8. LegServes' /\ leg' = tr /\ phase' \in {"leg", "rollback"}
  <2>1. Undone'["active"] = dev["active"]
        BY <1>7, MindedFacts
  <2> QED BY <2>1, <1>1, <1>3, <1>4, <1>5, <1>6, BeginServes DEF AtomicInv, tr
<1>9. GoesBackServed'
  <2>1. DaemonsRun(Started') /\ DaemonsRun(Undone')
        BY <1>4, <1>7, RunAlike
  <2> QED BY <2>1 DEF GoesBackServed
<1>10. NeverLogged'
       BY <1>1, MindedFacts DEF NeverLogged
<1>11. BootsQuiet' /\ RestsServed'
       BY <1>1, <1>4, <1>8 DEF BootsQuiet, RestsServed
<1> QED BY <1>8, <1>9, <1>10, <1>11 DEF DaemonsInv

(* What follows a leg begins where the leg has left the daemons.           *)
LEMMA FollowUpServes ==
  ASSUME NEW tr \in Transitions, NEW d \in Devices, Meant(tr), Aims(tr),
         FollowUp(tr, d) # NoTransition, \A r \in Tended : Keeps(tr, r) => d[r] = "on" \/ Migrates(tr, d)
  PROVE  LET f == FollowUp(tr, d)
         IN  /\ ServeStart(f, d) /\ f.ev # "OnFirstSetup" /\ tr.ev # "OnFirstSetup"
             /\ f.ev \in Boots => tr.ev \in Boots
             /\ DeviceType = "cpe" /\ f.to = "init" => tr.to = "ztp_setup" \/ tr.ev \in Boots
<1> DEFINE f == FollowUp(tr, d)
<1>1. CASE tr.ev \in {"OnZTPSetupConfig", "OnHubSetPort", "OnHubDeletePort"}
  <2>1. f.ev = "OnZTPSetupFinished" /\ f.to = "init" /\ tr.to = "ztp_setup"
        BY <1>1, MeantTo DEF FollowUp, Aims
  <2>2. \A r \in Tended : Keeps(f, r) => Keeps(tr, r)
        BY <2>1, <1>1 DEF Keeps
  <2>3. ~Migrates(tr, d)
        BY <1>1 DEF Migrates
  <2> QED BY <1>1, <2>1, <2>2, <2>3 DEF ServeStart, Boots
<1>2. CASE tr.ev \in {"OnUpdateConfig", "OnRebuildServices"}
  <2>1. f.ev = "OnUpdateConfigFinished" /\ f.to = "active" /\ tr.to = "update_config"
        BY <1>2, MeantTo DEF FollowUp, Aims
  <2>2. \A r \in Tended : Keeps(f, r) => Keeps(tr, r)
        BY <2>1, <1>2 DEF Keeps
  <2>3. ~Migrates(tr, d)
        BY <1>2 DEF Migrates
  <2> QED BY <1>2, <2>1, <2>2, <2>3 DEF ServeStart, Boots
<1>3. CASE tr.ev = "OnUpdateDevice"
  <2>1. f.ev = "OnUpdateDeviceFinished" /\ f.to = "active"
        BY <1>3, MeantTo DEF FollowUp
  <2> QED BY <1>3, <2>1 DEF ServeStart, Boots
<1>4. CASE tr.ev = "OnReset"
  <2>1. f.ev = "OnHubResetFinished" /\ f.to = "init" /\ DeviceType = "hub"
        BY <1>4, MeantTo DEF FollowUp
  <2> QED BY <1>4, <2>1 DEF ServeStart, Boots
<1>5. CASE tr.ev = "OnAfterBoot"
  <2>1. /\ f.ev \in {"OnMigrateFromOldVersion", "OnZTPSetupInterrupted", "OnFallback",
                     "OnUpdateDeviceFinished", "OnInitFallback"}
        /\ f.to \in {"init", "active"}
        /\ f.to = "init" => f.ev \in {"OnZTPSetupInterrupted", "OnInitFallback"}
        BY <1>5, MeantTo DEF FollowUp
  <2> QED BY <1>5, <2>1 DEF ServeStart, Boots
<1>6. tr.ev \in {"OnZTPSetupConfig", "OnHubSetPort", "OnHubDeletePort", "OnUpdateConfig",
                 "OnRebuildServices", "OnUpdateDevice", "OnReset", "OnAfterBoot"}
      BY DEF FollowUp
<1> QED BY <1>1, <1>2, <1>3, <1>4, <1>5, <1>6

(* A leg at its end has left the daemons running that it keeps.            *)
LEMMA LegEndsServed ==
  ASSUME DaemonsInv, phase = "leg", todo = <<>>
  PROVE  \A r \in Tended : Keeps(leg, r) => dev[r] = "on" \/ Migrates(leg, dev)
<1>1. Tends(<<>>, leg, dev)
      BY DEF DaemonsInv, LegServes
<1>2. ~Refuses(<<>>) /\ \A r, v : ~Reaches(<<>>, r, v)
      BY DEF Refuses, Reaches
<1> QED BY <1>1, <1>2 DEF Tends

(* A further leg.                                                          *)
LEMMA ContinueDaemons ==
  ASSUME AtomicInv, RestInv, PublisherInv, DaemonsInv, Continue
  PROVE  DaemonsInv'
<1> DEFINE f == FollowUp(leg, dev)
<1>1. /\ phase = "leg" /\ todo = <<>> /\ f # NoTransition /\ Begin(f)
      /\ UNCHANGED <<dev, tx, sealed, booting>>
      BY DEF Continue
<1>2. leg \in Transitions /\ dev \in Devices /\ f \in Transitions /\ Meant(leg) /\ Aims(leg)
      BY <1>1, FollowUpType DEF AtomicInv, RestInv, TypeOK, InLeg, PublisherInv, LegPublishes
<1>3. Meant(f) /\ ~Erasing(leg)
      BY <1>1, <1>2, FollowUpMeant
<1>4. /\ ServeStart(f, dev) /\ f.ev # "OnFirstSetup" /\ leg.ev # "OnFirstSetup"
      /\ f.ev \in Boots => leg.ev \in Boots
      /\ DeviceType = "cpe" /\ f.to = "init" => leg.to = "ztp_setup" \/ leg.ev \in Boots
      /\ f.to # "ztp_setup"
      BY <1>1, <1>2, LegEndsServed, FollowUpServes, FollowUpMeant
<1> HIDE DEF f
<1>5. f.ev \in Boots => booting
      BY <1>1, <1>4 DEF DaemonsInv, LegServes
<1>6. DeviceType = "cpe" /\ f.to \in {"init", "ztp_setup"} => dev["deactivate"] = "off"
      BY <1>1, <1>4 DEF DaemonsInv, LegServes, BootsQuiet
<1>7. LegServes' /\ leg' = f /\ phase' \in {"leg", "rollback"}
      BY <1>1, <1>2, <1>3, <1>4, <1>5, <1>6, BeginServes DEF AtomicInv
<1>8. GoesBackServed'
  <2> SUFFICES ASSUME ~booting PROVE DaemonsRun(Started') /\ DaemonsRun(Undone')
      BY <1>1 DEF GoesBackServed
  <2>1. DaemonsRun(Started) /\ DaemonsRun(Undone)
        BY <1>1, <1>3, <1>4 DEF DaemonsInv, GoesBackServed, SetUp, Sealing
  <2>2. \A r \in Minded : Undone'[r] = Undone[r] /\ Started'[r] = Started[r]
        BY <1>1, SameTakenBack
  <2> QED BY <2>1, <2>2, RunAlike
<1>9. NeverLogged' /\ BootsQuiet' /\ RestsServed'
      BY <1>1, <1>7 DEF DaemonsInv, NeverLogged, BootsQuiet, RestsServed
<1> QED BY <1>7, <1>8, <1>9 DEF DaemonsInv

(* The last leg has left the daemons running that the state needs.         *)
LEMMA CommitDaemons ==
  ASSUME AtomicInv, RestInv, DaemonsInv, Commit
  PROVE  DaemonsInv'
<1>1. /\ phase = "leg" /\ todo = <<>> /\ FollowUp(leg, dev) = NoTransition /\ dev' = dev
      /\ phase' = "idle" /\ booting' = FALSE /\ tx' = NoTx /\ sealed' = NoTx
      BY DEF Commit
<1>2. leg \in Transitions /\ dev \in Devices /\ Meant(leg) /\ Settled(leg, dev)
      BY <1>1, SettledIs DEF AtomicInv, TypeOK, RestInv, InLeg
<1>3. ~Migrates(leg, dev) /\ dev["active"] = leg.to
      BY <1>1, <1>2, LastLeg DEF Settled, Watched, Goal
<1>4. \A r \in Tended : Keeps(leg, r) => dev[r] = "on"
      BY <1>1, <1>3, LegEndsServed
<1>5. DeviceType = "cpe" /\ leg.to = "init" => dev["deactivate"] = "off"
      BY <1>1 DEF DaemonsInv, LegServes
<1>6. DaemonsRun(dev)
      BY <1>3, <1>4, <1>5 DEF DaemonsRun, Keeps, Tended
<1>7. NeverLogged'
      BY <1>1, MindedFacts DEF NeverLogged
<1> QED BY <1>1, <1>6, <1>7 DEF DaemonsInv, BootsQuiet, RestsServed, LegServes, GoesBackServed

(* The device is back where its transaction, or its checkpoint, began.     *)
LEMMA RollbackDaemons ==
  ASSUME DaemonsInv, Rollback
  PROVE  DaemonsInv'
<1>1. /\ phase = "rollback" /\ ~booting /\ dev' = Undone /\ tx' = NoTx /\ sealed' = NoTx
      /\ phase' = "idle" /\ booting' = booting
      BY DEF Rollback
<1>2. DaemonsRun(Undone)
      BY <1>1 DEF DaemonsInv, GoesBackServed, SetUp, Sealing
<1>3. NeverLogged'
      BY <1>1, MindedFacts DEF NeverLogged
<1> QED BY <1>1, <1>2, <1>3 DEF DaemonsInv, BootsQuiet, RestsServed, LegServes, GoesBackServed

-----------------------------------------------------------------------------
(* Where Run does not move and the daemons are the same.                   *)
LEMMA AsideDaemons ==
  ASSUME DaemonsInv, \A r \in Minded \cup {"env"} : dev'[r] = dev[r],
         UNCHANGED <<tx, sealed, phase, booting, leg, todo>>
  PROVE  DaemonsInv'
<1>1. \A r \in Minded : dev'[r] = dev[r] /\ Undone'[r] = Undone[r] /\ Started'[r] = Started[r]
      BY SameTakenBack
<1>2. dev'["env"] = dev["env"] /\ dev'["deactivate"] = dev["deactivate"]
      /\ Undone'["active"] = Undone["active"] /\ \A r \in Tended : dev'[r] = dev[r]
      BY <1>1, MindedFacts
<1>3. /\ DaemonsRun(dev') <=> DaemonsRun(dev)
      /\ DaemonsRun(Undone') <=> DaemonsRun(Undone)
      /\ DaemonsRun(Started') <=> DaemonsRun(Started)
      BY <1>1, RunAlike
<1>4. NeverLogged' /\ BootsQuiet' /\ RestsServed'
      BY <1>2, <1>3 DEF DaemonsInv, NeverLogged, BootsQuiet, RestsServed
<1>5. LegServes'
  <2>1. phase = "leg" => Tends(todo, leg, dev')
        BY <1>2 DEF DaemonsInv, LegServes, Tends, Migrates
  <2> QED BY <1>2, <2>1 DEF DaemonsInv, LegServes
<1>6. GoesBackServed'
      BY <1>3 DEF DaemonsInv, GoesBackServed, SetUp, Sealing
<1> QED BY <1>4, <1>5, <1>6 DEF DaemonsInv

(* The goroutine of a reset.                                               *)
LEMMA RebootFailsDaemons ==
  ASSUME AtomicInv, DaemonsInv, RebootFails
  PROVE  DaemonsInv'
<1>1. dev' = [dev EXCEPT !["reboot"] = "failed"] /\ UNCHANGED <<tx, sealed, phase, booting, leg, todo>>
      BY DEF RebootFails
<1>2. dev \in [Resources -> Values]
      BY DEF AtomicInv, TypeOK, Devices
<1>3. \A r \in Minded \cup {"env"} : r \in Resources /\ r # "reboot"
      BY MindedFacts, DomainFacts DEF Minded, Tended
<1>4. \A r \in Minded \cup {"env"} : dev'[r] = dev[r]
      BY <1>1, <1>2, <1>3
<1> QED BY <1>1, <1>4, AsideDaemons

(* The goroutine of a first setup does not run while the starter is needed.*)
LEMMA DeactivateDaemons ==
  ASSUME AtomicInv, DaemonsInv, DeactivateStarter
  PROVE  DaemonsInv'
<1>1. /\ dev["deactivate"] = "on" /\ UNCHANGED <<tx, sealed, phase, booting, leg, todo>>
      /\ dev' \in {[dev EXCEPT !["deactivate"] = "off", !["starter"] = "off"],
                   [dev EXCEPT !["deactivate"] = "off"]}
      BY DEF DeactivateStarter
<1>2. dev \in [Resources -> Values]
      BY DEF AtomicInv, TypeOK, Devices
<1>3. \A r \in Minded \cup {"env"} : r \in Resources
      BY MindedFacts, DomainFacts
<1>4. \A r \in (Minded \cup {"env"}) \ {"deactivate", "starter"} : dev'[r] = dev[r]
      BY <1>1, <1>2, <1>3
<1>5. dev'["deactivate"] = "off"
      BY <1>1, <1>2, <1>3, MindedFacts
<1>6. \A r \in Minded \ {"deactivate", "starter"} : Undone'[r] = Undone[r] /\ Started'[r] = Started[r]
      BY <1>1, <1>4, SameTakenBack
<1>7. NeverLogged /\ NeverLogged'
      BY <1>1 DEF DaemonsInv, NeverLogged
<1>8. /\ DaemonsRun(dev) => DaemonsRun(dev')
      /\ DaemonsRun(Undone) => DaemonsRun(Undone')
      /\ DaemonsRun(Started) => DaemonsRun(Started')
  <2>1. /\ Undone["deactivate"] = "on" /\ Started["deactivate"] = "on" /\ dev["deactivate"] = "on"
        BY <1>1, <1>7, NeverLoggedBack
  <2>2. /\ dev'["active"] = dev["active"] /\ dev'["um"] = dev["um"]
        /\ Undone'["active"] = Undone["active"] /\ Undone'["um"] = Undone["um"]
        /\ Started'["active"] = Started["active"] /\ Started'["um"] = Started["um"]
        BY <1>4, <1>6 DEF Minded, Tended
  <2> QED BY <2>1, <2>2 DEF DaemonsRun
<1>9. BootsQuiet' /\ RestsServed'
      BY <1>1, <1>5, <1>8 DEF DaemonsInv, BootsQuiet, RestsServed
<1>10. LegServes'
  <2> SUFFICES ASSUME phase = "leg" PROVE LegServes'
      BY <1>1 DEF LegServes
  <2>1. ~(DeviceType = "cpe" /\ leg.to \in {"init", "ztp_setup"})
        BY <1>1 DEF DaemonsInv, LegServes
  <2>2. \A r \in Tended : Keeps(leg, r) => r = "um"
        BY <2>1 DEF Keeps
  <2>3. dev'["um"] = dev["um"] /\ dev'["env"] = dev["env"] /\ Undone'["active"] = Undone["active"]
        BY <1>4, <1>6 DEF Minded, Tended
  <2>4. Tends(todo, leg, dev')
        BY <2>2, <2>3 DEF DaemonsInv, LegServes, Tends, Migrates
  <2> QED BY <1>1, <1>5, <2>3, <2>4 DEF DaemonsInv, LegServes
<1>11. GoesBackServed'
       BY <1>1, <1>8 DEF DaemonsInv, GoesBackServed, SetUp, Sealing
<1> QED BY <1>7, <1>9, <1>10, <1>11 DEF DaemonsInv

(* A process that has just started has no such goroutine.                  *)
LEMMA FreshQuiet ==
  ASSUME NEW d \in Devices
  PROVE  \A e \in {FactoryDevice, Restarted(d), Rebooted(d)} : e["deactivate"] = "off"
<1>1. FactoryDevice["deactivate"] = "off"
      BY DEF FactoryDevice, Resources, Volatile, Persisted, Daemons
<1>2. /\ "deactivate" \in Resources /\ "deactivate" \in Volatile
      /\ "deactivate" \notin {"um", "starter", "dhcp"}
      BY DEF Resources, Volatile
<1>3. Restarted(d)["deactivate"] = FactoryDevice["deactivate"]
      BY <1>2 DEF Restarted
<1>4. Rebooted(d)["deactivate"] = Restarted(d)["deactivate"]
  <2>1. Restarted(d) \in [Resources -> Values]
        BY RestartTypes DEF Devices
  <2> QED BY <2>1, <1>2 DEF Rebooted
<1> QED BY <1>1, <1>3, <1>4

(* Crash, power cycle, reboot and the boot that fails.                     *)
LEMMA ExitDaemons ==
  ASSUME AtomicInv, DaemonsInv, Crash \/ PowerCycle \/ RebootAfterReset \/ BootFails
  PROVE  DaemonsInv'
<1>1. /\ NeverLogged /\ dev \in Devices /\ Undone \in Devices /\ tx \in [undo : Patches, mem : Patches]
      /\ "deactivate" \in Resources /\ NoTx.undo["deactivate"] = Keep /\ NoTx.mem["deactivate"] = Keep
      BY UndoneType, MindedFacts DEF DaemonsInv, AtomicInv, TypeOK
<1>2. CASE BootFails
  <2>1. phase' = "dangling" /\ dev' = Restarted(Undone) /\ tx' = NoTx /\ sealed' = NoTx
        BY <1>2 DEF BootFails
  <2>2. NeverLogged' /\ dev'["deactivate"] = "off"
        BY <2>1, <1>1, FreshQuiet DEF NeverLogged
  <2> QED BY <2>1, <2>2 DEF DaemonsInv, BootsQuiet, RestsServed, LegServes, GoesBackServed
<1>3. CASE Crash \/ PowerCycle \/ RebootAfterReset
  <2>1. PICK d : d \in {Restarted(dev), Rebooted(dev)} /\ Exit(d)
        BY <1>3 DEF Crash, PowerCycle, RebootAfterReset
  <2>2. phase' = "dangling" /\ dev' = d /\ tx' = [tx EXCEPT !.mem = NoChange] /\ sealed' = NoTx
        BY <2>1 DEF Exit
  <2>3. tx'.undo = tx.undo /\ tx'.mem = NoChange /\ NoChange["deactivate"] = Keep
        BY <2>2, <1>1 DEF NoTx
  <2>4. NeverLogged' /\ dev'["deactivate"] = "off"
        BY <2>1, <2>2, <2>3, <1>1, FreshQuiet DEF NeverLogged
  <2> QED BY <2>2, <2>4 DEF DaemonsInv, BootsQuiet, RestsServed, LegServes, GoesBackServed
<1> QED BY <1>2, <1>3

(* The dangling rollback leaves none behind ...                            *)
LEMMA DanglingDaemons ==
  ASSUME DaemonsInv, RollbackDangling \/ RollbackDanglingFails
  PROVE  DaemonsInv'
<1>1. /\ phase' = "boot" /\ tx' = NoTx /\ UNCHANGED <<sealed, booting>>
      /\ dev' = Apply(tx.undo, dev) \/ dev' = dev
      BY DEF RollbackDangling, RollbackDanglingFails
<1>2. NeverLogged'
      BY <1>1, MindedFacts DEF DaemonsInv, NeverLogged
<1>3. dev'["deactivate"] = dev["deactivate"]
      BY <1>1, MindedFacts DEF DaemonsInv, NeverLogged, Apply
<1> QED BY <1>1, <1>2, <1>3 DEF DaemonsInv, BootsQuiet, RestsServed, LegServes, GoesBackServed

(* ... and the first leg of the process finds none.                        *)
LEMMA BootDaemons ==
  ASSUME AtomicInv, RestInv, DaemonsInv, SetActiveStateFromBoot
  PROVE  DaemonsInv'
<1> DEFINE to == IF dev["state"] = None THEN "init" ELSE dev["state"]
           tr == To("OnAfterBoot", to)
<1>1. /\ phase = "boot" /\ Begin(tr) /\ UNCHANGED <<dev, tx, sealed, booting>>
      BY DEF SetActiveStateFromBoot
<1>2. tr \in Transitions
      BY BootType DEF AtomicInv, TypeOK
<1>3. Meant(tr) /\ tr.ev = "OnAfterBoot"
      BY MeantTo DEF Meant
<1>4. booting /\ dev["deactivate"] = "off"
      BY <1>1 DEF RestInv, BootsClean, DaemonsInv, BootsQuiet
<1> HIDE DEF tr
<1>5. ServeStart(tr, dev)
      BY <1>3 DEF ServeStart, Boots, Keeps
<1>6. LegServes' /\ phase' \in {"leg", "rollback"}
      BY <1>1, <1>2, <1>3, <1>4, <1>5, BeginServes DEF AtomicInv
<1>7. NeverLogged' /\ BootsQuiet' /\ RestsServed' /\ GoesBackServed'
      BY <1>1, <1>4, <1>6 DEF DaemonsInv, NeverLogged, BootsQuiet, RestsServed, GoesBackServed
<1> QED BY <1>6, <1>7 DEF DaemonsInv

-----------------------------------------------------------------------------
(* The invariant of the daemons: at first ...                              *)
LEMMA InitDaemons == Init => DaemonsInv
<1> SUFFICES ASSUME Init PROVE DaemonsInv
    OBVIOUS
<1>1. dev["deactivate"] = "off" /\ phase = "dangling"
      BY FactoryType, FreshQuiet DEF Init
<1>2. NeverLogged
      BY MindedFacts DEF Init, NeverLogged
<1> QED BY <1>1, <1>2 DEF DaemonsInv, BootsQuiet, RestsServed, LegServes, GoesBackServed

(* ... and in every step.                                                  *)
LEMMA NextDaemons ==
  (AtomicInv /\ RestInv /\ PublisherInv /\ DaemonsInv) /\ [Next]_vars
    => (AtomicInv /\ RestInv /\ PublisherInv /\ DaemonsInv)'
<1> SUFFICES ASSUME AtomicInv, RestInv, PublisherInv, DaemonsInv, [Next]_vars
             PROVE  AtomicInv' /\ RestInv' /\ PublisherInv' /\ DaemonsInv'
    OBVIOUS
<1>1. AtomicInv' /\ RestInv' /\ PublisherInv'
      BY NextPublisher
<1>2. CASE RunStep
  <2>1. CASE Accept
        BY <1>1, <2>1, AcceptDaemons
  <2>2. CASE Reject
    <3>1. UNCHANGED <<dev, tx, sealed, phase, booting, leg, todo>>
          BY <2>2 DEF Reject
    <3> QED BY <1>1, <3>1, AsideDaemons
  <2>3. CASE Step
        BY <1>1, <2>3, StepDaemons
  <2>4. CASE CallFails
        BY <1>1, <2>4, CallFailsDaemons
  <2>5. CASE Continue
        BY <1>1, <2>5, ContinueDaemons
  <2>6. CASE Commit
        BY <1>1, <2>6, CommitDaemons
  <2>7. CASE Rollback
        BY <1>1, <2>7, RollbackDaemons
  <2>8. CASE BootFails
        BY <1>1, <2>8, ExitDaemons
  <2>9. CASE RollbackDangling
        BY <1>1, <2>9, DanglingDaemons
  <2>10. CASE SetActiveStateFromBoot
        BY <1>1, <2>10, BootDaemons
  <2> QED BY <1>1, <1>2, <2>1, <2>2, <2>3, <2>4, <2>5, <2>6, <2>7, <2>8, <2>9, <2>10 DEF RunStep
<1>3. CASE RollbackDanglingFails
      BY <1>1, <1>3, DanglingDaemons
<1>4. CASE Crash \/ PowerCycle \/ RebootAfterReset
      BY <1>1, <1>4, ExitDaemons
<1>5. CASE RebootFails
      BY <1>1, <1>5, RebootFailsDaemons
<1>6. CASE DeactivateStarter
      BY <1>1, <1>6, DeactivateDaemons
<1>7. CASE (\E tr \in Requests : Perform(tr)) \/ UNCHANGED vars
  <2>1. UNCHANGED <<dev, tx, sealed, phase, booting, leg, todo>>
        BY <1>7 DEF Perform, vars
  <2> QED BY <1>1, <2>1, AsideDaemons
<1> QED BY <1>2, <1>3, <1>4, <1>5, <1>6, <1>7 DEF Next

(* Between transitions the daemons the state needs are running: the update *)
(* manager in an active device, the starter and the DHCP server in a CPE   *)
(* in init - whichever call failed, and although the goroutine that stops  *)
(* the starter runs outside of the transaction of the first setup.         *)
THEOREM DaemonsMatch == Spec => []DaemonsMatchState
<1>1. DaemonsInv => DaemonsMatchState
      BY DEF DaemonsInv, RestsServed, DaemonsRun, DaemonsMatchState
<1>2. Init => AtomicInv /\ RestInv /\ PublisherInv /\ DaemonsInv
      BY InitInv, InitPublisher, InitDaemons
<1> QED BY <1>1, <1>2, NextDaemons, PTL DEF Spec
=============================================================================
