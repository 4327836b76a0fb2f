------------------------ MODULE AppStateAgentProofs ------------------------
(***************************************************************************)
(* The state machine implements the abstract agent: the configuration a    *)
(* restart would come up with changes by whole operations only, for every  *)
(* value of the constants and any number of faults.  The calls a leg still *)
(* has to make head for one operation of the agent; the checkpoints are    *)
(* where it takes the first of two steps.  What the configuration is in    *)
(* itself (a serial number exactly when provisioned) comes with it.        *)
(***************************************************************************)
EXTENDS AppStateRestProofs, FirstInit

-----------------------------------------------------------------------------
(* What the calls of a leg do to the configuration.                        *)

(* Only recorded calls write the configuration, but for the deletion of    *)
(* the database; nothing undoes a write to agent.env or the closing of the *)
(* database; an update of the device only touches the services.            *)
Sound(c, tr) ==
  /\ c.err = "log" => c.log = "none"
  /\ c.log # "activity" =>
       (\A r \in Persisted : c.set[r] = Keep) \/ (\A r \in Persisted : c.set[r] = None)
  /\ \A r \in {"env", "db"} : c.set[r] # Keep => c.log = "none"
  /\ c.set["env"] \in {Keep, None}
  /\ c.log = "checkpoint" => tr.ev \in {"OnUpdateDevice", "OnReset"}
  /\ tr.ev = "OnUpdateDevice" =>
       c.set["serial"] = Keep /\ c.set["port"] = Keep /\ c.set["services"] \in {Keep, None}

(* Sound calls that take the configuration from v to w.                    *)
Brings(s, tr, v, w) ==
  /\ s \in Seq(Calls) /\ \A i \in 1..Len(s) : Sound(s[i], tr)
  /\ \A r \in Persisted : Ends(s, r, v[r], w[r])

(* One after the other.                                                    *)
LEMMA BringsAppend ==
  ASSUME NEW s, NEW t, NEW tr, NEW u, NEW v, NEW w, Brings(s, tr, u, v), Brings(t, tr, v, w)
  PROVE  Brings(s \o t, tr, u, w)
<1>1. s \in Seq(Calls) /\ t \in Seq(Calls) /\ s \o t \in Seq(Calls)
      BY DEF Brings
<1>2. ASSUME NEW k \in 1..Len(s \o t) PROVE Sound((s \o t)[k], tr)
  <2>1. CASE k \in 1..Len(s)
        BY <2>1, <1>1, AppendParts DEF Brings
  <2>2. CASE k - Len(s) \in 1..Len(t)
    <3>1. Len(s) + (k - Len(s)) = k
          BY <1>1
    <3>2. (s \o t)[k] = t[k - Len(s)]
          BY <2>2, <3>1, <1>1, AppendParts
    <3> QED BY <2>2, <3>2 DEF Brings
  <2> QED BY <2>1, <2>2, <1>1, AppendParts
<1>3. \A r \in Persisted : Ends(s \o t, r, u[r], w[r])
      BY <1>1, EndsAppend DEF Brings
<1> QED BY <1>1, <1>2, <1>3 DEF Brings

(* Only what it brings counts.                                             *)
LEMMA BringsSame ==
  ASSUME NEW s, NEW tr, NEW v, NEW w, NEW x, Brings(s, tr, v, w), \A r \in Persisted : x[r] = w[r]
  PROVE  Brings(s, tr, v, x)
<1>1. \A r \in Persisted : Ends(s, r, v[r], x[r])
      BY DEF Brings
<1> QED BY <1>1 DEF Brings

(* Calls that leave the configuration alone.                               *)
Quiet(c, tr) == Sound(c, tr) /\ \A r \in Persisted : ~Writes(c, r)
QuietCalls(tr) == {c \in Calls : Quiet(c, tr)}

(* They bring nothing.                                                     *)
LEMMA QuietBrings ==
  ASSUME NEW tr, NEW s \in Seq(QuietCalls(tr)), NEW v
  PROVE  Brings(s, tr, v, v)
<1>1. s \in Seq(Calls) /\ \A i \in 1..Len(s) : Quiet(s[i], tr)
      BY DEF QuietCalls
<1> QED BY <1>1 DEF Brings, Ends, Silent, Quiet

(* A recorded write of the configuration, of the services only in an       *)
(* update of the device.                                                   *)
Modest(p, tr) ==
  tr.ev = "OnUpdateDevice" => p["serial"] = Keep /\ p["port"] = Keep /\ p["services"] \in {Keep, None}
(* It brings what it writes.                                               *)
LEMMA ConfigBrings ==
  ASSUME NEW p \in Configs, NEW e \in Errs \ {"log"}, NEW tr, Modest(p, tr), NEW v
  PROVE  Brings(<<Call(p, "activity", e)>>, tr, v, Apply(p, v))
<1> DEFINE c == Call(p, "activity", e)
<1>1. c.set = p /\ c.log = "activity" /\ c.err = e
      BY DEF Call
<1>2. c \in Calls
      BY ConfigCallTypes DEF PlainCalls
<1>3. p["env"] = Keep /\ p["db"] = Keep
      BY DEF Configs, Resources, Persisted, Volatile
<1>4. Sound(c, tr)
      BY <1>1, <1>3 DEF Sound, Modest
<1>5. \A r \in Persisted : Apply(p, v)[r] = IF p[r] = Keep THEN v[r] ELSE p[r]
      BY DomainFacts DEF Apply
<1> HIDE DEF c
<1>6. ASSUME NEW r \in Persisted PROVE Ends(<<c>>, r, v[r], Apply(p, v)[r])
  <2>1. CASE p[r] = Keep
    <3>1. ~Writes(c, r)
          BY <2>1, <1>1 DEF Writes
    <3> QED BY <3>1, <2>1, <1>5, EndsOne
  <2>2. CASE p[r] # Keep
    <3>1. Writes(c, r)
          BY <2>2, <1>1 DEF Writes
    <3>2. Ends(<<c>>, r, v[r], c.set[r])
          BY <3>1, EndsOne
    <3> QED BY <3>2, <2>2, <1>1, <1>5
  <2> QED BY <2>1, <2>2
<1>7. Len(<<c>>) = 1 /\ <<c>>[1] = c /\ \A i \in 1..1 : i = 1
      OBVIOUS
<1>8. Brings(<<c>>, tr, v, Apply(p, v))
      BY <1>2, <1>4, <1>6, <1>7 DEF Brings
<1> QED BY <1>8 DEF c

(* Checks, and recorded calls that write nothing, are quiet ...            *)
LEMMA QuietNothing ==
  ASSUME NEW tr, NEW e \in Errs
  PROVE  /\ Check(e) \in QuietCalls(tr)
         /\ e # "log" => Call(NoChange, "activity", e) \in QuietCalls(tr)
         /\ e # "log" /\ tr.ev \in {"OnUpdateDevice", "OnReset"} => CheckPoint(e) \in QuietCalls(tr)
<1>1. \A r \in Persisted \cup {"env", "db"} : NoChange[r] = Keep
      BY DomainFacts DEF NoChange
<1>2. Check(e) \in Calls /\ CheckPoint(e) \in Calls /\ Call(NoChange, "activity", e) \in Calls
      BY CheckTypes, ConfigTypes, ConfigCallTypes DEF PlainCalls
<1>3. \A r \in Persisted : NoChange[r] = Keep /\ r \in Persisted \cup {"env", "db"}
      BY <1>1
<1> QED BY <1>1, <1>2, <1>3 DEF QuietCalls, Quiet, Sound, Writes, Check, CheckPoint, Call, Persisted

(* ... as are the services.                                                *)
LEMMA QuietService ==
  ASSUME NEW tr, NEW r \in ServiceResources \ {"env"}, NEW v \in Domain(r)
  PROVE  /\ Func(r, v) \in QuietCalls(tr) /\ Now(r, v) \in QuietCalls(tr)
         /\ Logged(Set(r, v)) \in QuietCalls(tr)
         /\ \A l \in {"func", "none"} : Call(Set(r, v), l, "never") \in QuietCalls(tr)
         /\ \A u \in Domain(r) : Command(r, v, u) \in QuietCalls(tr)
<1>1. \A x \in Persisted \cup {"env", "db"} : Set(r, v)[x] = Keep
      BY DomainFacts DEF Set, ServiceResources, Daemons, Persisted
<1>2. /\ Func(r, v) \in Calls /\ Now(r, v) \in Calls /\ Logged(Set(r, v)) \in Calls
      /\ \A l \in {"func", "none"} : Call(Set(r, v), l, "never") \in Calls
      /\ \A u \in Domain(r) : Command(r, v, u) \in Calls
      BY ServiceCallTypes DEF PlainCalls, Logs, Errs
<1>3. \A c \in Calls : c.set = Set(r, v) /\ c.log # "checkpoint" /\ (c.err = "log" => c.log = "none")
                         => c \in QuietCalls(tr)
      BY <1>1 DEF QuietCalls, Quiet, Sound, Writes, Persisted
<1> QED BY <1>2, <1>3 DEF Func, Now, Logged, Command, Call

(* So is every service that is switched on or off.                         *)
LEMMA QuietOnOff ==
  ASSUME NEW tr, NEW r \in Daemons \cup {"ws", "mqInit", "mqActive", "pony", "deactivate"}, NEW v \in OnOff
  PROVE  /\ Func(r, v) \in QuietCalls(tr) /\ Now(r, v) \in QuietCalls(tr)
         /\ Logged(Set(r, v)) \in QuietCalls(tr)
         /\ \A u \in OnOff : Command(r, v, u) \in QuietCalls(tr)
<1>1. r \in ServiceResources \ {"env"} /\ Domain(r) = OnOff
      BY DomainFacts DEF ServiceResources, Daemons
<1> QED BY <1>1, QuietService

(* A sequence in which one call writes the configuration.                  *)
LEMMA OneWriter ==
  ASSUME NEW s \in Seq(Calls), NEW i \in 1..Len(s), NEW tr, NEW p \in Configs,
         NEW e \in Errs \ {"log"}, Modest(p, tr), s[i] = Call(p, "activity", e),
         \A j \in 1..Len(s) : j # i => Quiet(s[j], tr), NEW v
  PROVE  Brings(s, tr, v, Apply(p, v))
<1>1. s[i].set = p /\ s[i].log = "activity" /\ s[i].err = e
      BY DEF Call
<1>2. p["env"] = Keep /\ p["db"] = Keep
      BY DEF Configs, Resources, Persisted, Volatile
<1>3. Sound(s[i], tr)
      BY <1>1, <1>2 DEF Sound, Modest
<1>4. \A j \in 1..Len(s) : Sound(s[j], tr)
      BY <1>3 DEF Quiet
<1>5. ASSUME NEW r \in Persisted PROVE Ends(s, r, v[r], Apply(p, v)[r])
  <2>1. Apply(p, v)[r] = IF p[r] = Keep THEN v[r] ELSE p[r]
        BY DomainFacts DEF Apply
  <2>2. \A j \in 1..Len(s) : j # i => ~Writes(s[j], r)
        BY DEF Quiet
  <2>3. CASE p[r] = Keep
    <3>1. ~Writes(s[i], r)
          BY <2>3, <1>1 DEF Writes
    <3> QED BY <3>1, <2>1, <2>2, <2>3 DEF Ends, Silent
  <2>4. CASE p[r] # Keep
    <3>1. Writes(s[i], r) /\ s[i].set[r] = p[r]
          BY <2>4, <1>1 DEF Writes
    <3>2. \A j \in (i+1)..Len(s) : j \in 1..Len(s) /\ j # i
          OBVIOUS
    <3> QED BY <3>1, <3>2, <2>1, <2>2, <2>4 DEF Ends
  <2> QED BY <2>3, <2>4
<1> QED BY <1>4, <1>5 DEF Brings

(* The handlers: what a transition writes to the configuration, besides    *)
(* the state ...                                                           *)
Written(tr, d) ==
  CASE tr.ev \in {"OnZTPSetupConfig", "OnHubSetPort", "OnHubDeletePort", "OnFirstSetup",
                  "OnMigrateFromOldVersion", "OnUpdateConfig"} -> tr.arg
    [] tr.ev = "OnUpdateDevice" /\ tr.pkg \in {"agent", "services"} -> Set("services", None)
    [] tr.ev = "OnReset" /\ DeviceType = "hub" -> [EmptyConfig EXCEPT !["port"] = d["port"]]
    [] tr.ev = "OnReset" /\ DeviceType # "hub" -> EmptyConfig
    [] OTHER -> NoChange
(* ... and what it makes of a device.                                      *)
Result(tr, d) == Apply(Written(tr, d), Apply(Set("state", tr.to), d))

(* The handler of tr writes that on a device v with the services of d, or  *)
(* refuses.                                                                *)
Delivers(s, tr, d, v) ==
  \/ Brings(s, tr, v, Apply(Written(tr, d), v))
  \/ Brings(s, tr, v, v) /\ Refuses(s)

(* Nothing to write.                                                       *)
LEMMA QuietDelivers ==
  ASSUME NEW tr, NEW s \in Seq(QuietCalls(tr)), NEW d, NEW v, Written(tr, d) = NoChange
  PROVE  Delivers(s, tr, d, v)
<1>1. \A r \in Persisted : Apply(NoChange, v)[r] = v[r]
      BY DomainFacts DEF Apply, NoChange
<1> QED BY <1>1, QuietBrings, BringsSame DEF Delivers

(* Init.                                                                   *)
LEMMA HandleInitDelivers ==
  ASSUME NEW tr \in Transitions, NEW d \in Devices, NEW v, Aims(tr), tr.to = "init"
  PROVE  Delivers(HandleInit(tr, d), tr, d, v)
<1> DEFINE a == <<SubscribeInit, Logged(Set("umEnabled", "off")), Logged(Set("um", "off"))>>
           b == ForCPE(<<Func("starter", "on"), Func("dhcp", "on")>>)
<1>1. a \in Seq(QuietCalls(tr)) /\ b \in Seq(QuietCalls(tr)) /\ <<SubscribeInit>> \in Seq(QuietCalls(tr))
      BY QuietOnOff DEF ForCPE, SubscribeInit, Daemons, OnOff
<1>2. RestoreInitState = a \o b
      BY DEF RestoreInitState
<1> HIDE DEF a, b
<1>3. HandleInit(tr, d) \in Seq(QuietCalls(tr))
      BY <1>1, <1>2 DEF HandleInit
<1>4. Written(tr, d) = NoChange
      BY DEF Aims, Written
<1> QED BY <1>3, <1>4, QuietDelivers

(* ztp_setup: the port.                                                    *)
LEMMA HandleZTPSetupDelivers ==
  ASSUME NEW tr \in Transitions, NEW d \in Devices, NEW v, Aims(tr), Meant(tr), tr.to = "ztp_setup"
  PROVE  Delivers(HandleZTPSetup(tr, d), tr, d, v)
<1> DEFINE c == Execute(tr.arg)
           k == Check("abort")
           n == Execute(NoChange)
<1>1. tr.ev \in {"OnAfterBoot", "OnZTPSetupConfig", "OnHubSetPort", "OnHubDeletePort"}
      BY DEF Meant
<1>2. c = Call(tr.arg, "activity", "abort") /\ tr.arg \in Configs /\ Modest(tr.arg, tr) /\ c \in Calls
      BY <1>1, ArgumentTypes, ConfigCallTypes DEF Modest, Execute, PlainCalls
<1>3. k \in QuietCalls(tr) /\ n \in QuietCalls(tr)
      BY QuietNothing DEF Execute, Errs
<1>4. k \in Calls /\ n \in Calls /\ Quiet(k, tr) /\ Quiet(n, tr)
      BY <1>3 DEF QuietCalls
<1>5. CASE tr.ev = "OnAfterBoot"
  <2>1. HandleZTPSetup(tr, d) = <<>> /\ Written(tr, d) = NoChange
        BY <1>5 DEF HandleZTPSetup, Written
  <2>2. <<>> \in Seq(QuietCalls(tr))
        OBVIOUS
  <2> QED BY <2>1, <2>2, QuietDelivers
<1>6. CASE tr.ev # "OnAfterBoot"
  <2>1. Written(tr, d) = tr.arg
        BY <1>6, <1>1 DEF Written
  <2>2. HandleZTPSetup(tr, d) \in {<<k, c, k, n>>, <<k, c, n>>, <<c>>}
        BY <1>6 DEF HandleZTPSetup, SetHubPort, DeleteHubPort
  <2> HIDE DEF c, k, n
  <2>3. Brings(<<k, c, k, n>>, tr, v, Apply(tr.arg, v))
    <3> DEFINE s == <<k, c, k, n>>
    <3>1. s \in Seq(Calls) /\ 2 \in 1..Len(s) /\ s[2] = c /\ \A j \in 1..Len(s) : j # 2 => Quiet(s[j], tr)
          BY <1>2, <1>4
    <3> HIDE DEF s
    <3>2. Brings(s, tr, v, Apply(tr.arg, v))
          BY <3>1, <1>2, OneWriter DEF Errs
    <3> QED BY <3>2 DEF s
  <2>4. Brings(<<k, c, n>>, tr, v, Apply(tr.arg, v))
    <3> DEFINE s == <<k, c, n>>
    <3>1. s \in Seq(Calls) /\ 2 \in 1..Len(s) /\ s[2] = c /\ \A j \in 1..Len(s) : j # 2 => Quiet(s[j], tr)
          BY <1>2, <1>4
    <3> HIDE DEF s
    <3>2. Brings(s, tr, v, Apply(tr.arg, v))
          BY <3>1, <1>2, OneWriter DEF Errs
    <3> QED BY <3>2 DEF s
  <2>5. Brings(<<c>>, tr, v, Apply(tr.arg, v))
        BY <1>2, ConfigBrings DEF Errs
  <2> QED BY <2>1, <2>2, <2>3, <2>4, <2>5 DEF Delivers
<1> QED BY <1>5, <1>6

(* The initialisation by the orchestrator: the port and the services.      *)
LEMMA InitDeviceBrings ==
  ASSUME NEW tr \in Transitions, tr.ev = "OnFirstSetup", NEW v, NEW w,
         \A r \in Persisted : w[r] = IF r \in {"port", "services"} /\ tr.arg[r] # Keep
                                     THEN tr.arg[r] ELSE v[r]
  PROVE  Brings(InitDevice(tr), tr, v, w)
<1> DEFINE s == InitDevice(tr)
           o == Now("pony", "off")
           n == Now("pony", "on")
           z == Call(NoChange, "activity", "resume")
           k == Check("resume")
           p == Set("port", tr.arg["port"])
           q == Set("services", tr.arg["services"])
           x == Call(p, "activity", "resume")
           y == Call(q, "activity", "resume")
<1>1. s = <<o, z, x, k, y, n>>
      BY DEF InitDevice
<1>2. o \in QuietCalls(tr) /\ n \in QuietCalls(tr) /\ z \in QuietCalls(tr) /\ k \in QuietCalls(tr)
      BY QuietOnOff, QuietNothing DEF OnOff, Errs
<1>3. p \in Configs /\ q \in Configs
  <2>1. \A r \in {"port", "services"} : r \in Persisted /\ tr.arg[r] \in Domain(r) \cup {Keep}
        BY DomainFacts DEF Transitions, Configs, Patches, Persisted
  <2> QED BY <2>1, ConfigTypes
<1>4. x \in Calls /\ y \in Calls
      BY <1>3, ConfigCallTypes DEF PlainCalls, Errs
<1>5. /\ x.set = p /\ x.log = "activity" /\ x.err = "resume"
      /\ y.set = q /\ y.log = "activity" /\ y.err = "resume"
      BY DEF Call
<1>6. \A c \in {p, q} : c["env"] = Keep /\ c["db"] = Keep
      BY <1>3 DEF Configs, Resources, Persisted, Volatile
<1>7. /\ \A r \in Persisted : p[r] = IF r = "port" THEN tr.arg["port"] ELSE Keep
      /\ \A r \in Persisted : q[r] = IF r = "services" THEN tr.arg["services"] ELSE Keep
      BY DomainFacts DEF Set
<1>8. Sound(x, tr) /\ Sound(y, tr)
      BY <1>5, <1>6 DEF Sound
<1> HIDE DEF s, o, n, z, k, x, y, p, q
<1>9. /\ o \in Calls /\ n \in Calls /\ z \in Calls /\ k \in Calls
      /\ Quiet(o, tr) /\ Quiet(n, tr) /\ Quiet(z, tr) /\ Quiet(k, tr)
      BY <1>2 DEF QuietCalls
<1>10. /\ s \in Seq(Calls) /\ Len(s) = 6 /\ s[1] = o /\ s[2] = z /\ s[3] = x /\ s[4] = k
       /\ s[5] = y /\ s[6] = n
       BY <1>1, <1>4, <1>9
<1>11. 1..Len(s) = 1..6
       BY <1>10
<1> HIDE DEF s
<1>12. \A i \in 1..6 : Sound(s[i], tr)
       BY <1>8, <1>9, <1>10 DEF Quiet
<1>13. ASSUME NEW r \in Persisted PROVE Ends(s, r, v[r], w[r])
  <2>1. \A i \in {1, 2, 4, 6} : ~Writes(s[i], r)
        BY <1>9, <1>10 DEF Quiet
  <2>2. Writes(x, r) <=> r = "port" /\ tr.arg["port"] # Keep
        BY <1>5, <1>7 DEF Writes
  <2>3. Writes(y, r) <=> r = "services" /\ tr.arg["services"] # Keep
        BY <1>5, <1>7 DEF Writes
  <2>4. CASE Writes(x, r)
    <3>1. s[3] = x /\ x.set[r] = w[r] /\ 3 \in 1..6
          BY <2>2, <2>4, <1>5, <1>7, <1>10
    <3>2. \A j \in (3+1)..6 : ~Writes(s[j], r)
          BY <2>1, <2>2, <2>3, <2>4, <1>10
    <3> QED BY <3>1, <3>2, <2>4, <1>10, <1>11 DEF Ends
  <2>5. CASE Writes(y, r)
    <3>1. s[5] = y /\ y.set[r] = w[r] /\ 5 \in 1..6
          BY <2>3, <2>5, <1>5, <1>7, <1>10
    <3>2. \A j \in (5+1)..6 : ~Writes(s[j], r)
          BY <2>1
    <3> QED BY <3>1, <3>2, <2>5, <1>10, <1>11 DEF Ends
  <2>6. CASE ~Writes(x, r) /\ ~Writes(y, r)
    <3>1. w[r] = v[r]
          BY <2>2, <2>3, <2>6 DEF Persisted
    <3>2. \A i \in 1..6 : ~Writes(s[i], r)
          BY <2>1, <2>6, <1>10
    <3> QED BY <3>1, <3>2, <1>11 DEF Ends, Silent
  <2> QED BY <2>4, <2>5, <2>6
<1>14. Brings(s, tr, v, w)
       BY <1>10, <1>11, <1>12, <1>13 DEF Brings
<1> QED BY <1>14 DEF s

(* The first setup: serial number, port and services, or nothing.          *)
LEMMA FirstSetupDelivers ==
  ASSUME NEW tr \in Transitions, NEW d \in Devices, NEW v, Meant(tr), tr.ev = "OnFirstSetup"
  PROVE  /\ Delivers(RunFirstSetup(tr, d), tr, d, v)
         /\ d["port"] = None => Refuses(RunFirstSetup(tr, d))
<1> DEFINE a == <<Check("abort"),
                  Execute(Set("serial", tr.arg["serial"])),
                  Command("umEnabled", "on", "off"), Command("um", "on", "off")>>
           w == <<Func("ws", "on")>>
           b == ForCPE(<<Func("dhcp", "off")>>)
           c == <<SubscribeActive>>
           e == ForCPE(<<Now("deactivate", "on")>>)
           s == a \o w \o InitDevice(tr) \o b \o c \o e
<1>1. CASE d["port"] = None
  <2>1. RunFirstSetup(tr, d) = <<Check("refuse")>> /\ Check("refuse") \in QuietCalls(tr)
        BY <1>1, QuietNothing DEF RunFirstSetup, Errs
  <2>2. RunFirstSetup(tr, d) \in Seq(QuietCalls(tr))
        BY <2>1
  <2>3. Refuses(<<Check("refuse")>>)
        BY DEF Refuses, Check, Call
  <2> QED BY <2>1, <2>2, <2>3, QuietBrings DEF Delivers
<1>2. CASE d["port"] # None
  <2>1. RunFirstSetup(tr, d) = s
    <3>1. /\ RunFirstSetup(tr, d)
               = <<Check("abort"),
                   Execute(Set("serial", tr.arg["serial"])),
                   Command("umEnabled", "on", "off"), Command("um", "on", "off"),
                   Func("ws", "on")>> \o InitDevice(tr) \o b \o c \o e
          BY <1>2 DEF RunFirstSetup
    <3> DEFINE x == Check("abort")
               y == Execute(Set("serial", tr.arg["serial"]))
               z == Command("umEnabled", "on", "off")
               g == Command("um", "on", "off")
               h == Func("ws", "on")
    <3>2. a \o w = <<x, y, z, g, h>>
      <4>1. x \in Calls /\ z \in Calls /\ g \in Calls /\ h \in Calls
            BY CheckTypes, OnOffCallTypes DEF PlainCalls, Daemons, OnOff, Errs
      <4>2. y \in Calls
            BY ArgumentTypes, ConfigCallTypes DEF PlainCalls, Persisted
      <4>3. a = <<x, y, z, g>> /\ w = <<h>>
            OBVIOUS
      <4> HIDE DEF a, w, x, y, z, g, h
      <4> QED BY <4>1, <4>2, <4>3, FiveCalls
    <3> HIDE DEF a, w, b, c, e
    <3> QED BY <3>1, <3>2 DEF x, y, z, g, h
  <2> DEFINE p == Set("serial", tr.arg["serial"])
             u == Apply(p, v)
  <2>2. Brings(a, tr, v, u)
    <3>1. p \in Configs /\ Modest(p, tr)
          BY ArgumentTypes DEF Persisted, Modest
    <3>2. /\ Check("abort") \in QuietCalls(tr)
          /\ Command("umEnabled", "on", "off") \in QuietCalls(tr)
          /\ Command("um", "on", "off") \in QuietCalls(tr)
          BY QuietNothing, QuietOnOff DEF Errs, Daemons, OnOff
    <3>3. Execute(p) \in Calls /\ Execute(p) = Call(p, "activity", "abort")
          BY <3>1, ConfigCallTypes DEF PlainCalls, Execute
    <3>4. a = <<Check("abort"), Execute(p), Command("umEnabled", "on", "off"), Command("um", "on", "off")>>
          OBVIOUS
    <3> HIDE DEF p, a
    <3>5. /\ a \in Seq(Calls) /\ 2 \in 1..Len(a) /\ a[2] = Execute(p)
          /\ \A j \in 1..Len(a) : j # 2 => Quiet(a[j], tr)
          BY <3>2, <3>3, <3>4 DEF QuietCalls
    <3> QED BY <3>1, <3>3, <3>5, OneWriter DEF Errs
  <2>3. /\ w \in Seq(QuietCalls(tr)) /\ b \in Seq(QuietCalls(tr)) /\ c \in Seq(QuietCalls(tr))
        /\ e \in Seq(QuietCalls(tr))
        BY QuietOnOff DEF ForCPE, SubscribeActive, Daemons, OnOff
  <2>4. \A r \in Persisted : u[r] = IF r = "serial" /\ tr.arg["serial"] # Keep THEN tr.arg["serial"] ELSE v[r]
        BY DomainFacts DEF Apply, Set
  <2> DEFINE x == Apply(tr.arg, v)
  <2>5. \A r \in Persisted : x[r] = IF r \in {"port", "services"} /\ tr.arg[r] # Keep THEN tr.arg[r] ELSE u[r]
    <3>1. tr.arg["state"] = Keep
          BY DEF Meant
    <3>2. \A r \in Persisted : x[r] = IF tr.arg[r] = Keep THEN v[r] ELSE tr.arg[r]
          BY DomainFacts DEF Apply
    <3> HIDE DEF x, u
    <3> QED BY <3>1, <3>2, <2>4 DEF Persisted
  <2> HIDE DEF a, w, b, c, e, u, x
  <2>6. Brings(a \o w, tr, v, u)
        BY <2>2, <2>3, QuietBrings, BringsAppend
  <2>7. Brings(a \o w \o InitDevice(tr), tr, v, x)
        BY <2>5, <2>6, InitDeviceBrings, BringsAppend
  <2>8. Brings(a \o w \o InitDevice(tr) \o b, tr, v, x)
        BY <2>3, <2>7, QuietBrings, BringsAppend
  <2>9. Brings(a \o w \o InitDevice(tr) \o b \o c, tr, v, x)
        BY <2>3, <2>8, QuietBrings, BringsAppend
  <2>10. Brings(s, tr, v, x)
        BY <2>3, <2>9, QuietBrings, BringsAppend
  <2>11. Written(tr, d) = tr.arg
        BY DEF Written
  <2> QED BY <1>2, <2>1, <2>10, <2>11 DEF Delivers, x
<1> QED BY <1>1, <1>2

(* Active.                                                                 *)
LEMMA HandleActiveDelivers ==
  ASSUME NEW tr \in Transitions, NEW d \in Devices, NEW v, Aims(tr), Meant(tr), tr.to = "active"
  PROVE  Delivers(HandleActive(tr, d), tr, d, v)
<1>1. CASE tr.ev = "OnFirstSetup"
      BY <1>1, FirstSetupDelivers DEF HandleActive
<1>2. CASE tr.ev = "OnMigrateFromOldVersion"
  <2> DEFINE c == Execute(tr.arg)
             x == Func("um", "on")
             y == Func("ws", "on")
             z == SubscribeActive
             s == <<c, x, y, z>>
  <2>1. HandleActive(tr, d) = s /\ Written(tr, d) = tr.arg
        BY <1>2 DEF HandleActive, MigrateFromOldVersion, Written
  <2>2. x \in QuietCalls(tr) /\ y \in QuietCalls(tr) /\ z \in QuietCalls(tr)
        BY QuietOnOff DEF SubscribeActive, Daemons, OnOff
  <2>3. c = Call(tr.arg, "activity", "abort") /\ tr.arg \in Configs /\ Modest(tr.arg, tr) /\ c \in Calls
        BY <1>2, ArgumentTypes, ConfigCallTypes DEF Modest, Execute, PlainCalls
  <2> HIDE DEF c, x, y, z
  <2>4. s \in Seq(Calls) /\ 1 \in 1..Len(s) /\ s[1] = c /\ \A j \in 1..Len(s) : j # 1 => Quiet(s[j], tr)
        BY <2>2, <2>3 DEF QuietCalls
  <2> HIDE DEF s
  <2>5. Brings(s, tr, v, Apply(tr.arg, v))
        BY <2>3, <2>4, OneWriter DEF Errs
  <2> QED BY <2>1, <2>5 DEF Delivers
<1>3. CASE tr.ev \notin {"OnFirstSetup", "OnMigrateFromOldVersion"}
  <2>1. Written(tr, d) = NoChange
        BY <1>3 DEF Written, Aims
  <2> DEFINE a == <<Func("um", "on"), Func("starter", "off")>>
             w == IF d["ws"] = "off" THEN <<Func("ws", "on")>> ELSE <<>>
             c == <<SubscribeActive>>
             b == <<SubscribeActive, Func("um", "on")>>
  <2>2. HandleActive(tr, d) \in {b, c, a \o w \o c}
        BY <1>3 DEF HandleActive, RestoreActiveState
  <2>3. /\ a \in Seq(QuietCalls(tr)) /\ w \in Seq(QuietCalls(tr)) /\ c \in Seq(QuietCalls(tr))
        /\ b \in Seq(QuietCalls(tr))
        BY QuietOnOff DEF SubscribeActive, Daemons, OnOff
  <2> HIDE DEF a, b, c, w
  <2>4. a \o w \o c \in Seq(QuietCalls(tr))
        BY <2>3
  <2>5. HandleActive(tr, d) \in Seq(QuietCalls(tr))
        BY <2>2, <2>3, <2>4
  <2> QED BY <2>1, <2>5, QuietDelivers
<1> QED BY <1>1, <1>2, <1>3

(* update_config.                                                          *)
LEMMA UpdateConfigBrings ==
  ASSUME NEW tr \in Transitions, NEW d \in Devices, NEW v, tr.ev = "OnUpdateConfig"
  PROVE  Brings(UpdateConfig(tr, d), tr, v, Apply(tr.arg, v))
<1>1. tr.arg \in Configs /\ Modest(tr.arg, tr)
      BY ArgumentTypes DEF Modest
<1>2. CASE IsPortConfigurationChanged(tr, d)
  <2> DEFINE o == Now("pony", "off")
             w == Logged(Set("ws", "off"))
             c == Call(tr.arg, "activity", "restart")
             n == Now("pony", "on")
             a == <<o, w, c, n>>
             b == ForCPE(<<Check("restart")>>)
             e == <<Logged(Set("ws", "on"))>>
  <2>1. UpdateConfig(tr, d) = a \o b \o e
        BY <1>2 DEF UpdateConfig
  <2>2. o \in QuietCalls(tr) /\ w \in QuietCalls(tr) /\ n \in QuietCalls(tr)
        BY QuietOnOff DEF OnOff
  <2>3. b \in Seq(QuietCalls(tr)) /\ e \in Seq(QuietCalls(tr))
        BY QuietOnOff, QuietNothing DEF ForCPE, OnOff, Errs
  <2>4. c \in Calls /\ c = Call(tr.arg, "activity", "restart")
        BY <1>1, ConfigCallTypes DEF PlainCalls, Errs
  <2> HIDE DEF o, w, c, n, b, e
  <2>5. a \in Seq(Calls) /\ 3 \in 1..Len(a) /\ a[3] = c /\ \A j \in 1..Len(a) : j # 3 => Quiet(a[j], tr)
        BY <2>2, <2>4 DEF QuietCalls
  <2> HIDE DEF a
  <2>6. Brings(a, tr, v, Apply(tr.arg, v))
        BY <1>1, <2>4, <2>5, OneWriter DEF Errs
  <2>7. Brings(a \o b, tr, v, Apply(tr.arg, v))
        BY <2>3, <2>6, QuietBrings, BringsAppend
  <2> QED BY <2>1, <2>3, <2>7, QuietBrings, BringsAppend
<1>3. CASE ~IsPortConfigurationChanged(tr, d)
  <2>1. UpdateConfig(tr, d) = <<Call(tr.arg, "activity", "abort")>>
        BY <1>3 DEF UpdateConfig, Execute
  <2> QED BY <2>1, <1>1, ConfigBrings DEF Errs
<1> QED BY <1>2, <1>3

(* update_config: the sections the caller names, or the services rebuilt   *)
(* as they were.                                                           *)
LEMMA HandleUpdateConfigDelivers ==
  ASSUME NEW tr \in Transitions, NEW d \in Devices, NEW v, Aims(tr), Meant(tr),
         tr.to = "update_config", v["services"] = d["services"]
  PROVE  Delivers(HandleUpdateConfig(tr, d), tr, d, v)
<1>1. tr.ev \in {"OnAfterBoot", "OnUpdateConfig", "OnRebuildServices"}
      BY DEF Meant
<1>2. CASE tr.ev = "OnUpdateConfig"
  <2>1. HandleUpdateConfig(tr, d) = UpdateConfig(tr, d) /\ Written(tr, d) = tr.arg
        BY <1>2 DEF HandleUpdateConfig, Written
  <2> QED BY <2>1, <1>2, UpdateConfigBrings DEF Delivers
<1>3. CASE tr.ev = "OnRebuildServices"
  <2> DEFINE p == Set("services", None)
             q == Set("services", d["services"])
             a == <<Call(p, "activity", "abort")>>
             b == <<Call(q, "activity", "abort")>>
             w == Apply(q, Apply(p, v))
  <2>1. HandleUpdateConfig(tr, d) = a \o b /\ Written(tr, d) = NoChange
        BY <1>3 DEF HandleUpdateConfig, RebuildServices, Execute, Written
  <2>2. p \in Configs /\ q \in Configs /\ Modest(p, tr) /\ Modest(q, tr)
        BY <1>3, ArgumentTypes, ConfigTypes, DomainFacts DEF Persisted, Modest
  <2>3. \A r \in Persisted : Apply(NoChange, v)[r] = w[r]
    <3>1. d["services"] # Keep
          BY DomainFacts, KeepIsNoValue DEF Devices, Persisted
    <3> QED BY <3>1, DomainFacts DEF Apply, Set, NoChange, Keep, None
  <2> HIDE DEF p, q
  <2>4. Brings(a, tr, v, Apply(p, v)) /\ Brings(b, tr, Apply(p, v), w)
        BY <2>2, ConfigBrings DEF Errs
  <2> HIDE DEF a, b, w
  <2>5. Brings(a \o b, tr, v, w)
        BY <2>4, BringsAppend
  <2> QED BY <2>1, <2>3, <2>5, BringsSame DEF Delivers
<1>4. CASE tr.ev = "OnAfterBoot"
  <2>1. HandleUpdateConfig(tr, d) = <<>> /\ Written(tr, d) = NoChange
        BY <1>4 DEF HandleUpdateConfig, Written
  <2>2. <<>> \in Seq(QuietCalls(tr))
        OBVIOUS
  <2> QED BY <2>1, <2>2, QuietDelivers
<1> QED BY <1>1, <1>2, <1>3, <1>4

(* Nothing is recorded behind a checkpoint.                                *)
SealsLast(s) == \A j \in 1..Len(s) : \A i \in 1..(j-1) : s[i].log = "checkpoint" => s[j].log = "none"
Unrecorded(s) == \A i \in 1..Len(s) : s[i].log = "none"

(* That is so where calls are put behind those that seal nothing, or which *)
(* record nothing themselves.                                              *)
LEMMA SealsLastAppend ==
  ASSUME NEW s \in Seq(Calls), NEW t \in Seq(Calls)
  PROVE  /\ ~CheckPointed(s) /\ SealsLast(t) => SealsLast(s \o t)
         /\ SealsLast(s) /\ Unrecorded(t) => SealsLast(s \o t)
         /\ ~CheckPointed(s) /\ ~CheckPointed(t) => ~CheckPointed(s \o t)
<1> DEFINE u == s \o t
<1>1. /\ u \in Seq(Calls) /\ Len(u) = Len(s) + Len(t) /\ Len(s) \in Nat /\ Len(t) \in Nat
      /\ \A k \in 1..Len(s) : u[k] = s[k]
      /\ \A j \in 1..Len(t) : u[Len(s) + j] = t[j]
      BY AppendParts
<1> HIDE DEF u
<1>2. \A k \in 1..Len(u) : k \in 1..Len(s) \/ (k - Len(s) \in 1..Len(t) /\ u[k] = t[k - Len(s)])
  <2>1. ASSUME NEW k \in 1..Len(u), k \notin 1..Len(s)
        PROVE  k - Len(s) \in 1..Len(t) /\ u[k] = t[k - Len(s)]
    <3>1. k - Len(s) \in 1..Len(t) /\ Len(s) + (k - Len(s)) = k
          BY <1>1, <2>1
    <3>2. u[Len(s) + (k - Len(s))] = t[k - Len(s)]
          BY <1>1, <3>1
    <3> QED BY <3>1, <3>2
  <2> QED BY <2>1
<1>3. ASSUME ~CheckPointed(s), SealsLast(t) PROVE SealsLast(u)
  <2> SUFFICES ASSUME NEW j \in 1..Len(u), NEW i \in 1..(j-1), u[i].log = "checkpoint"
               PROVE  u[j].log = "none"
      BY DEF SealsLast
  <2>1. i \in 1..Len(u) /\ i \notin 1..Len(s)
        BY <1>1, <1>3 DEF CheckPointed
  <2>2. i - Len(s) \in 1..Len(t) /\ u[i] = t[i - Len(s)]
        BY <2>1, <1>2
  <2>3. j \notin 1..Len(s)
        BY <2>1, <1>1
  <2>4. j - Len(s) \in 1..Len(t) /\ u[j] = t[j - Len(s)] /\ i - Len(s) \in 1..((j - Len(s)) - 1)
        BY <2>2, <2>3, <1>1, <1>2
  <2> QED BY <2>2, <2>4, <1>3 DEF SealsLast
<1>4. ASSUME SealsLast(s), Unrecorded(t) PROVE SealsLast(u)
  <2> SUFFICES ASSUME NEW j \in 1..Len(u), NEW i \in 1..(j-1), u[i].log = "checkpoint"
               PROVE  u[j].log = "none"
      BY DEF SealsLast
  <2>1. CASE j \in 1..Len(s)
    <3>1. i \in 1..Len(s) /\ u[i] = s[i] /\ u[j] = s[j]
          BY <2>1, <1>1
    <3> QED BY <3>1, <2>1, <1>4 DEF SealsLast
  <2>2. CASE j \notin 1..Len(s)
        BY <2>2, <1>2, <1>4 DEF Unrecorded
  <2> QED BY <2>1, <2>2
<1>5. ~CheckPointed(s) /\ ~CheckPointed(t) => ~CheckPointed(u)
      BY <1>1, <1>2 DEF CheckPointed
<1> QED BY <1>3, <1>4, <1>5 DEF u

(* Maintenance: the services are deleted; an update of the agent itself    *)
(* seals that.                                                             *)
LEMMA HandleMaintenanceDelivers ==
  ASSUME NEW tr \in Transitions, NEW d \in Devices, NEW v, Aims(tr), Meant(tr), tr.to = "maintenance"
  PROVE  /\ Delivers(HandleMaintenance(tr, d), tr, d, v)
         /\ SealsLast(HandleMaintenance(tr, d))
         /\ CheckPointed(HandleMaintenance(tr, d)) => tr.pkg = "agent" /\ tr.ev = "OnUpdateDevice"
<1>1. tr.ev \in {"OnAfterBoot", "OnUpdateDevice"}
      BY DEF Meant
<1>2. CASE tr.ev = "OnAfterBoot"
  <2>1. HandleMaintenance(tr, d) = <<Logged(Set("ws", "on"))>> /\ Written(tr, d) = NoChange
        BY <1>2 DEF HandleMaintenance, WaitInstallFinishedAfterBoot, Written
  <2>2. <<Logged(Set("ws", "on"))>> \in Seq(QuietCalls(tr))
        BY QuietOnOff DEF OnOff
  <2>3. Unrecorded(<<Logged(Set("ws", "on"))>>)
        BY DEF Unrecorded, Logged, Call
  <2> QED BY <2>1, <2>2, <2>3, QuietDelivers DEF SealsLast, CheckPointed, Unrecorded
<1>3. CASE tr.ev = "OnUpdateDevice"
  <2> DEFINE a == <<Check("finish")>>
             p == Set("services", None)
             b == IF tr.pkg \in {"agent", "services"} THEN <<Call(p, "activity", "finish")>> ELSE <<>>
             c == IF tr.pkg = "agent" THEN <<CheckPoint("finish")>> ELSE <<>>
  <2>1. p \in Configs /\ Modest(p, tr)
        BY ConfigTypes, DomainFacts DEF Persisted, Modest, Set, Keep, None
  <2>2. Check("finish") \in QuietCalls(tr) /\ CheckPoint("finish") \in QuietCalls(tr)
        BY <1>3, QuietNothing DEF Errs
  <2>3. a \in Seq(QuietCalls(tr)) /\ c \in Seq(QuietCalls(tr)) /\ c \o a \in Seq(QuietCalls(tr))
        BY <2>2
  <2>4. Brings(b, tr, v, Apply(Written(tr, d), v))
    <3>1. CASE tr.pkg \in {"agent", "services"}
      <4>1. Written(tr, d) = p /\ b = <<Call(p, "activity", "finish")>>
            BY <3>1, <1>3 DEF Written
      <4> HIDE DEF p, b
      <4> QED BY <4>1, <2>1, ConfigBrings DEF Errs
    <3>2. CASE tr.pkg \notin {"agent", "services"}
      <4>1. Written(tr, d) = NoChange /\ b = <<>>
            BY <3>2, <1>3 DEF Written
      <4>2. <<>> \in Seq(QuietCalls(tr)) /\ \A r \in Persisted : Apply(NoChange, v)[r] = v[r]
            BY DomainFacts DEF Apply, NoChange
      <4> HIDE DEF b
      <4> QED BY <4>1, <4>2, QuietBrings, BringsSame
    <3> QED BY <3>1, <3>2
  <2>5. a \in Seq(Calls) /\ b \in Seq(Calls) /\ c \in Seq(Calls)
        BY <2>3, <2>4 DEF Brings, QuietCalls
  <2>6. HandleMaintenance(tr, d) = (a \o b) \o (c \o a)
    <3>1. HandleMaintenance(tr, d) = a \o b \o c \o a
          BY <1>3 DEF HandleMaintenance, UpdateDevice
    <3> HIDE DEF a, b, c
    <3> QED BY <2>5, <3>1
  <2>7. Unrecorded(a) /\ ~CheckPointed(a) /\ ~CheckPointed(b)
    <3>1. Check("finish").log = "none" /\ Call(p, "activity", "finish").log = "activity"
          BY DEF Check, Call
    <3> QED BY <3>1 DEF Unrecorded, CheckPointed
  <2>8. SealsLast(c) /\ (CheckPointed(c) => tr.pkg = "agent")
        BY DEF SealsLast, CheckPointed
  <2> HIDE DEF a, b, c, p
  <2>9. Brings(a \o b, tr, v, Apply(Written(tr, d), v))
        BY <2>3, <2>4, QuietBrings, BringsAppend
  <2>10. Brings((a \o b) \o (c \o a), tr, v, Apply(Written(tr, d), v))
        BY <2>3, <2>9, QuietBrings, BringsAppend
  <2>11. a \o b \in Seq(Calls) /\ c \o a \in Seq(Calls)
        BY <2>5
  <2>12. SealsLast((a \o b) \o (c \o a))
        BY <2>5, <2>7, <2>8, <2>11, SealsLastAppend
  <2>13. CheckPointed((a \o b) \o (c \o a)) => tr.pkg = "agent"
        BY <2>5, <2>7, <2>8, <2>11, SealsLastAppend
  <2> QED BY <2>6, <2>10, <2>12, <2>13, <1>3 DEF Delivers
<1> QED BY <1>1, <1>2, <1>3

(* A checkpoint that is still to come, and whose failure aborts the leg.   *)
Seals(s) == \E i \in 1..Len(s) : s[i].log = "checkpoint" /\ s[i].err = "abort"

(* Reset: the configuration is emptied, but for the port of a hub; a CPE   *)
(* seals that and erases the database.                                     *)
LEMMA EraseQuiet ==
  ASSUME NEW tr, tr.ev = "OnReset"
  PROVE  EraseDatabase \in Seq(QuietCalls(tr)) /\ Unrecorded(EraseDatabase)
<1> DEFINE x == Call(Set("db", "off"), "none", "revoke")
           p == [r \in Resources |-> IF r \in Persisted THEN None ELSE Keep]
           y == Logged(p)
           z == Now("reboot", "pending")
<1>1. x \in QuietCalls(tr) /\ x.log = "none"
  <2>1. Set("db", "off") \in Patches
        BY SetType, DomainFacts DEF OnOff
  <2>2. \A r \in Persisted \cup {"env"} : Set("db", "off")[r] = Keep
        BY DomainFacts DEF Set, Persisted
  <2>3. x \in Calls /\ x.set = Set("db", "off") /\ x.log = "none" /\ x.err = "revoke"
        BY <2>1, NoChangeType DEF Call, Calls, Logs, Errs
  <2> HIDE DEF x
  <2> QED BY <2>2, <2>3 DEF QuietCalls, Quiet, Sound, Writes, Persisted
<1>2. y \in QuietCalls(tr) /\ y.log = "none"
  <2>1. p \in Patches
        BY DomainFacts DEF Patches, Values
  <2>2. p["env"] = Keep /\ p["db"] = Keep /\ \A r \in Persisted : p[r] = None
        BY DomainFacts DEF Persisted
  <2> HIDE DEF p
  <2>3. y \in Calls /\ y.set = p /\ y.log = "none" /\ y.err = "log"
        BY <2>1, NoChangeType DEF Logged, Call, Calls, Logs, Errs
  <2> HIDE DEF y
  <2> QED BY <2>2, <2>3 DEF QuietCalls, Quiet, Sound, Writes, Persisted
<1>3. z \in QuietCalls(tr) /\ z.log = "none"
      BY QuietService, DomainFacts DEF ServiceResources, Now, Call
<1>4. EraseDatabase = <<x, y, z>>
      BY DEF EraseDatabase
<1> HIDE DEF x, y, z
<1> QED BY <1>1, <1>2, <1>3, <1>4 DEF Unrecorded

(* agent.env is no part of the configuration.                              *)
LEMMA ResetEnvQuiet ==
  ASSUME NEW tr
  PROVE  TryResetEnv \in QuietCalls(tr) /\ TryResetEnv.log = "none"
<1> DEFINE p == Set("env", None)
<1>1. p \in Patches
      BY SetType, DomainFacts
<1>2. p["env"] = None /\ p["db"] = Keep /\ \A r \in Persisted : p[r] = Keep
      BY DomainFacts DEF Set, Persisted
<1> HIDE DEF p
<1>3. Logged(p) \in Calls /\ Logged(p).set = p /\ Logged(p).log = "none" /\ Logged(p).err = "log"
      BY <1>1, NoChangeType DEF Logged, Call, Calls, Logs, Errs
<1>4. Logged(p) \in QuietCalls(tr)
      BY <1>2, <1>3 DEF QuietCalls, Quiet, Sound, Writes, Persisted
<1> QED BY <1>3, <1>4 DEF TryResetEnv, p

(* What an empty configuration empties.                                    *)
LEMMA EmptyConfigIs ==
  /\ EmptyConfig["serial"] = None /\ EmptyConfig["port"] = None /\ EmptyConfig["services"] = None
  /\ EmptyConfig["state"] = IF EmptyCfgClears THEN None ELSE Keep
  /\ DOMAIN EmptyConfig = Resources
<1>1. {"serial", "port", "services", "state"} \subseteq DOMAIN NoChange /\ DOMAIN NoChange = Resources
      BY DomainFacts DEF NoChange, Persisted
<1> QED BY <1>1 DEF EmptyConfig

(* Reset delivers the empty configuration; that of a CPE seals it, too.    *)
LEMMA HandleResetDelivers ==
  ASSUME NEW tr \in Transitions, NEW d \in Devices, NEW v, Aims(tr), Meant(tr), tr.to = "reset"
  PROVE  /\ Delivers(HandleReset(tr, d), tr, d, v)
         /\ SealsLast(HandleReset(tr, d))
         /\ Erasing(tr) => /\ Seals(HandleReset(tr, d))
                           /\ \A r \in Persisted \ {"state"} :
                                \E i \in 1..Len(HandleReset(tr, d)) : Writes(HandleReset(tr, d)[i], r)
<1>1. tr.ev \in {"OnAfterBoot", "OnReset"}
      BY DEF Meant
<1>2. CASE tr.ev = "OnAfterBoot"
  <2>1. HandleReset(tr, d) = <<>> /\ Written(tr, d) = NoChange /\ ~Erasing(tr)
        BY <1>2 DEF HandleReset, Written, Erasing
  <2>2. <<>> \in Seq(QuietCalls(tr)) /\ SealsLast(<<>>)
        BY DEF SealsLast
  <2> QED BY <2>1, <2>2, QuietDelivers
<1>3. CASE tr.ev = "OnReset"
  <2> DEFINE n == Execute(NoChange)
             e == Execute(EmptyConfig)
             f == Command("starterEnabled", "on", "off")
             g == Command("dhcpEnabled", "on", "off")
             u == Func("um", "off")
             k == CheckPoint("abort")
             t == TryResetEnv
             a == <<n, e, n, f, g, u, k, t>>
             hubCfg == [EmptyConfig EXCEPT !["port"] = d["port"]]
             h == Execute(hubCfg)
             b == <<n, h, u, t>>
             x == StopPublisher(d)
  <2>1. x \in Seq(QuietCalls(tr)) /\ ~CheckPointed(x)
    <3>1. Func("ws", "off") \in QuietCalls(tr) /\ Func("ws", "off").log = "func"
          BY QuietOnOff DEF OnOff, Func, Call
    <3> QED BY <3>1 DEF StopPublisher, CheckPointed
  <2>2. /\ n \in QuietCalls(tr) /\ f \in QuietCalls(tr) /\ g \in QuietCalls(tr)
        /\ u \in QuietCalls(tr) /\ k \in QuietCalls(tr) /\ t \in QuietCalls(tr)
        BY <1>3, QuietNothing, QuietOnOff, ResetEnvQuiet DEF Execute, Errs, Daemons, OnOff
  <2>3. /\ n.log = "activity" /\ f.log = "activity" /\ g.log = "activity" /\ u.log = "func"
        /\ k.log = "checkpoint" /\ k.err = "abort" /\ t.log = "none"
        BY ResetEnvQuiet DEF Execute, Command, Func, CheckPoint, Call
  <2>4. /\ EmptyConfig \in Configs /\ hubCfg \in Configs /\ Modest(EmptyConfig, tr) /\ Modest(hubCfg, tr)
        BY <1>3, EmptyConfigType, HubConfigType DEF Modest
  <2>5. /\ e = Call(EmptyConfig, "activity", "abort") /\ h = Call(hubCfg, "activity", "abort")
        /\ e \in Calls /\ h \in Calls
        /\ e.set = EmptyConfig /\ e.log = "activity" /\ h.log = "activity"
        BY <2>4, ConfigCallTypes DEF Execute, PlainCalls, Call
  <2>6. /\ DeviceType # "hub" => HandleReset(tr, d) = (x \o a) \o EraseDatabase
        /\ DeviceType = "hub" => HandleReset(tr, d) = x \o b
        BY <1>3 DEF HandleReset, ResetCPE, ResetHub
  <2>7. Written(tr, d) = IF DeviceType = "hub" THEN hubCfg ELSE EmptyConfig
        BY <1>3 DEF Written
  <2> HIDE DEF n, e, f, g, u, k, t, h, x, hubCfg
  <2>8. /\ a \in Seq(Calls) /\ Len(a) = 8 /\ a[2] = e /\ a[7] = k /\ a[8] = t
        /\ \A j \in 1..8 : j # 2 => Quiet(a[j], tr)
        /\ \A i \in 1..8 : a[i].log = "checkpoint" => i = 7
        BY <2>2, <2>3, <2>5 DEF QuietCalls
  <2>9. /\ b \in Seq(Calls) /\ 2 \in 1..Len(b) /\ b[2] = h
        /\ \A j \in 1..Len(b) : j # 2 => Quiet(b[j], tr)
        /\ ~CheckPointed(b)
        BY <2>2, <2>3, <2>5 DEF QuietCalls, CheckPointed
  <2>10. 1..Len(a) = 1..8 /\ 2 \in 1..Len(a) /\ \A j \in 1..Len(a) : j # 2 => Quiet(a[j], tr)
        BY <2>8
  <2> HIDE DEF a, b
  <2>11. Brings(a, tr, v, Apply(EmptyConfig, v))
        BY <2>4, <2>5, <2>8, <2>10, OneWriter DEF Errs
  <2>12. Brings(b, tr, v, Apply(hubCfg, v))
        BY <2>4, <2>5, <2>9, OneWriter DEF Errs
  <2>13. /\ EraseDatabase \in Seq(QuietCalls(tr)) /\ Unrecorded(EraseDatabase)
         /\ x \in Seq(Calls) /\ EraseDatabase \in Seq(Calls)
         BY <1>3, <2>1, EraseQuiet DEF QuietCalls
  <2>14. SealsLast(a) /\ SealsLast(b)
    <3>1. SealsLast(a)
      <4> SUFFICES ASSUME NEW j \in 1..8, NEW i \in 1..(j-1), a[i].log = "checkpoint"
                   PROVE  a[j].log = "none"
          BY <2>10 DEF SealsLast
      <4>1. i \in 1..8
            OBVIOUS
      <4>2. i = 7
            BY <4>1, <2>8
      <4>3. j = 8
            BY <4>2
      <4> QED BY <4>3, <2>3, <2>8
    <3>2. SealsLast(b)
      <4> SUFFICES ASSUME NEW j \in 1..Len(b), NEW i \in 1..(j-1), b[i].log = "checkpoint"
                   PROVE  FALSE
          BY DEF SealsLast
      <4>1. i \in 1..Len(b)
            BY <2>9
      <4> QED BY <4>1, <2>9 DEF CheckPointed
    <3> QED BY <3>1, <3>2
  <2>15. x \o a \in Seq(Calls) /\ SealsLast(x \o a) /\ SealsLast(x \o b)
         BY <2>1, <2>8, <2>9, <2>13, <2>14, SealsLastAppend
  <2>16. SealsLast((x \o a) \o EraseDatabase)
         BY <2>13, <2>15, SealsLastAppend
  <2>17. Brings(x \o a, tr, v, Apply(EmptyConfig, v)) /\ Brings(x \o b, tr, v, Apply(hubCfg, v))
         BY <2>1, <2>11, <2>12, QuietBrings, BringsAppend
  <2>18. Brings((x \o a) \o EraseDatabase, tr, v, Apply(EmptyConfig, v))
         BY <2>13, <2>17, QuietBrings, BringsAppend
  <2>19. \A r \in Persisted \ {"state"} : Writes(e, r)
         BY <2>5, EmptyConfigIs DEF Writes, Persisted, Keep, None
  <2>20. \A c : (\E i \in 1..8 : a[i] = c) =>
           \E i \in 1..Len((x \o a) \o EraseDatabase) : ((x \o a) \o EraseDatabase)[i] = c
    <3>0. \A i \in 1..Len(a) : Len(x) + i \in 1..Len(x \o a) /\ (x \o a)[Len(x) + i] = a[i]
          BY <2>8, <2>13, AppendParts
    <3>1. \A i \in 1..8 : Len(x) + i \in 1..Len(x \o a) /\ (x \o a)[Len(x) + i] = a[i]
          BY <2>10, <3>0
    <3>2. \A i \in 1..Len(x \o a) : /\ i \in 1..Len((x \o a) \o EraseDatabase)
                                    /\ ((x \o a) \o EraseDatabase)[i] = (x \o a)[i]
          BY <2>13, <2>15, AppendParts
    <3> QED BY <3>1, <3>2
  <2>21. Seals((x \o a) \o EraseDatabase)
    <3>1. a[7] = k /\ 7 \in 1..8
          BY <2>8
    <3>2. PICK i \in 1..Len((x \o a) \o EraseDatabase) : ((x \o a) \o EraseDatabase)[i] = k
          BY <2>20, <3>1
    <3> QED BY <2>3, <3>2 DEF Seals
  <2>22. \A r \in Persisted \ {"state"} :
           \E i \in 1..Len((x \o a) \o EraseDatabase) : Writes(((x \o a) \o EraseDatabase)[i], r)
    <3>1. a[2] = e /\ 2 \in 1..8
          BY <2>8
    <3>2. PICK i \in 1..Len((x \o a) \o EraseDatabase) : ((x \o a) \o EraseDatabase)[i] = e
          BY <2>20, <3>1
    <3> QED BY <2>19, <3>2
  <2>23. CASE DeviceType = "hub"
         BY <2>6, <2>7, <2>15, <2>17, <2>23 DEF Delivers, Erasing
  <2>24. CASE DeviceType # "hub"
         BY <2>6, <2>7, <2>16, <2>18, <2>21, <2>22, <2>24 DEF Delivers
  <2> QED BY <2>23, <2>24
<1> QED BY <1>1, <1>2, <1>3

(* The start of a running publisher is still to come.                      *)
Blocking(s) ==
  \E i \in 1..Len(s) : /\ s[i].set["ws"] = "on" /\ s[i].err # "log"
                       /\ \A j \in 1..(i-1) : s[j].set["ws"] = Keep

(* Calls before that which leave the publisher alone change nothing in     *)
(* that, nor do calls behind it.                                           *)
LEMMA BlockingAppend ==
  ASSUME NEW s \in Seq(Calls), NEW t \in Seq(Calls)
  PROVE  /\ Blocking(s) => Blocking(s \o t)
         /\ (\A i \in 1..Len(s) : s[i].set["ws"] = Keep) /\ Blocking(t) => Blocking(s \o t)
<1> DEFINE u == s \o t
<1>1. /\ Len(u) = Len(s) + Len(t) /\ Len(s) \in Nat /\ Len(t) \in Nat
      /\ \A k \in 1..Len(s) : u[k] = s[k]
      /\ \A j \in 1..Len(t) : u[Len(s) + j] = t[j]
      BY AppendParts
<1> HIDE DEF u
<1>2. ASSUME Blocking(s) PROVE Blocking(u)
  <2>1. PICK i \in 1..Len(s) : /\ s[i].set["ws"] = "on" /\ s[i].err # "log"
                               /\ \A j \in 1..(i-1) : s[j].set["ws"] = Keep
        BY <1>2 DEF Blocking
  <2>2. i \in 1..Len(u) /\ u[i] = s[i] /\ \A j \in 1..(i-1) : u[j] = s[j]
        BY <1>1
  <2> QED BY <2>1, <2>2 DEF Blocking
<1>3. ASSUME \A i \in 1..Len(s) : s[i].set["ws"] = Keep, Blocking(t) PROVE Blocking(u)
  <2>1. PICK i \in 1..Len(t) : /\ t[i].set["ws"] = "on" /\ t[i].err # "log"
                               /\ \A j \in 1..(i-1) : t[j].set["ws"] = Keep
        BY <1>3 DEF Blocking
  <2>2. Len(s) + i \in 1..Len(u) /\ u[Len(s) + i] = t[i]
        BY <1>1
  <2>3. ASSUME NEW j \in 1..((Len(s) + i) - 1) PROVE u[j].set["ws"] = Keep
    <3>1. CASE j \in 1..Len(s)
          BY <3>1, <1>1, <1>3
    <3>2. CASE j \notin 1..Len(s)
      <4>1. j - Len(s) \in 1..(i-1) /\ j - Len(s) \in 1..Len(t) /\ Len(s) + (j - Len(s)) = j
            BY <3>2, <1>1
      <4>2. u[Len(s) + (j - Len(s))] = t[j - Len(s)]
            BY <4>1, <1>1
      <4> QED BY <4>1, <4>2, <2>1
    <3> QED BY <3>1, <3>2
  <2> QED BY <2>1, <2>2, <2>3 DEF Blocking
<1> QED BY <1>2, <1>3 DEF u

(* A first setup starts the publisher before anything else stops it.       *)
LEMMA FirstSetupBlocks ==
  ASSUME NEW tr \in Transitions, NEW d \in Devices, tr.ev = "OnFirstSetup", d["port"] # None
  PROVE  Blocking(RunFirstSetup(tr, d))
<1> DEFINE x == Check("abort")
           y == Execute(Set("serial", tr.arg["serial"]))
           z == Command("umEnabled", "on", "off")
           g == Command("um", "on", "off")
           h == Func("ws", "on")
           a == <<x, y, z, g, h>>
           b == ForCPE(<<Func("dhcp", "off")>>)
           c == <<SubscribeActive>>
           e == ForCPE(<<Now("deactivate", "on")>>)
<1>1. RunFirstSetup(tr, d) = a \o InitDevice(tr) \o b \o c \o e
      BY DEF RunFirstSetup
<1>2. /\ x \in StillCalls(tr) /\ y \in StillCalls(tr) /\ z \in StillCalls(tr) /\ g \in StillCalls(tr)
      /\ b \in Seq(StillCalls(tr)) /\ c \in Seq(StillCalls(tr)) /\ e \in Seq(StillCalls(tr))
  <2>1. Set("serial", tr.arg["serial"]) \in Configs
        BY ArgumentTypes DEF Persisted
  <2> QED BY <2>1, StillConfig, StillCheck, StillOnOff DEF Daemons, OnOff, Errs, ForCPE, SubscribeActive
<1>3. h \in Calls /\ h.set["ws"] = "on" /\ h.err = "abort"
  <2>1. h \in Calls
        BY OnOffCallTypes DEF PlainCalls, OnOff
  <2> QED BY <2>1, DomainFacts DEF Func, Call, Set
<1> HIDE DEF x, y, z, g, h, b, c, e
<1>4. a \in Seq(Calls) /\ Blocking(a)
  <2>1. a \in Seq(Calls) /\ 5 \in 1..Len(a) /\ a[5] = h /\ \A j \in 1..(5-1) : a[j].set["ws"] = Keep
        BY <1>2, <1>3 DEF StillCalls, Still
  <2> HIDE DEF a
  <2> QED BY <2>1, <1>3 DEF Blocking
<1>5. InitDevice(tr) \in Seq(Calls) /\ b \in Seq(Calls) /\ c \in Seq(Calls) /\ e \in Seq(Calls)
      BY <1>2, InitDeviceSmooth DEF Smooth, StillCalls
<1> HIDE DEF a
<1> DEFINE k == a \o InitDevice(tr)
           l == k \o b
           m == l \o c
<1>6. k \in Seq(Calls) /\ Blocking(k)
      BY <1>4, <1>5, BlockingAppend
<1> HIDE DEF k
<1>7. l \in Seq(Calls) /\ Blocking(l)
      BY <1>5, <1>6, BlockingAppend
<1> HIDE DEF l
<1>8. m \in Seq(Calls) /\ Blocking(m)
      BY <1>5, <1>7, BlockingAppend
<1> HIDE DEF m
<1>9. Blocking(m \o e)
      BY <1>5, <1>8, BlockingAppend
<1> QED BY <1>1, <1>9 DEF k, l, m

(* What a whole leg brings.                                                *)
LEMMA LegBrings ==
  ASSUME NEW tr \in Transitions, NEW d \in Devices, Aims(tr), Meant(tr)
  PROVE  LET s == PerformTransition(tr, d)
         IN  /\ Brings(s, tr, d, Result(tr, d)) \/ (Refuses(s) /\ \E w : Brings(s, tr, d, w))
             /\ SealsLast(s)
             /\ CheckPointed(s) /\ tr.ev = "OnUpdateDevice" => tr.pkg = "agent"
             /\ Erasing(tr) => /\ Seals(s)
                               /\ \A r \in Persisted : \E i \in 1..Len(s) : Writes(s[i], r)
             /\ tr.ev = "OnFirstSetup" => IF d["port"] = None THEN Refuses(s) ELSE Blocking(s)
<1> DEFINE a == OnExit(tr, d)
           c == Execute(Set("state", tr.to))
           n == Call(Set("active", tr.to), IF d["active"] = "boot" THEN "none" ELSE "func", "never")
           b == UpdateAppState(tr, d)
           h == Handle(tr, d)
           v == Apply(Set("state", tr.to), d)
           p == a \o b
           s == p \o h
<1>1. a \in Seq(QuietCalls(tr)) /\ ~CheckPointed(a)
  <2>1. /\ UnsubscribeActive \in QuietCalls(tr) /\ UnsubscribeInit \in QuietCalls(tr)
        /\ UnsubscribeActive.log = "func" /\ UnsubscribeInit.log = "func"
        BY QuietOnOff DEF UnsubscribeActive, UnsubscribeInit, OnOff, Func, Call
  <2>2. OnExit(tr, d) \in {<<UnsubscribeActive>>, <<UnsubscribeInit>>, <<>>}
        BY DEF OnExit
  <2>3. ASSUME NEW q \in QuietCalls(tr), q.log = "func"
        PROVE  <<q>> \in Seq(QuietCalls(tr)) /\ ~CheckPointed(<<q>>)
        BY <2>3 DEF CheckPointed
  <2>4. <<>> \in Seq(QuietCalls(tr)) /\ ~CheckPointed(<<>>)
        BY DEF CheckPointed
  <2> QED BY <2>1, <2>2, <2>3, <2>4
<1>2. /\ Set("state", tr.to) \in Configs /\ Modest(Set("state", tr.to), tr) /\ tr.to # Keep
      /\ c = Call(Set("state", tr.to), "activity", "abort") /\ c \in Calls
  <2>1. Set("state", tr.to) \in Configs
        BY ArgumentTypes, ConfigTypes DEF Persisted
  <2>2. c \in Calls
        BY <2>1, ConfigCallTypes DEF PlainCalls
  <2>3. tr.to # Keep
        BY DEF Transitions, AppStates, Keep
  <2> QED BY <2>1, <2>2, <2>3, DomainFacts DEF Modest, Set, Execute, Persisted, Keep
<1>3. n \in QuietCalls(tr) /\ n.log \in {"none", "func"}
  <2>1. Call(Set("active", tr.to), "none", "never") \in QuietCalls(tr)
        /\ Call(Set("active", tr.to), "func", "never") \in QuietCalls(tr)
        BY ArgumentTypes, QuietService DEF ServiceResources
  <2> QED BY <2>1 DEF Call
<1>4. c.log = "activity" /\ c.set = Set("state", tr.to)
      BY DEF Execute, Call
<1>5. b = <<c, n>>
      BY DEF UpdateAppState
<1> HIDE DEF c, n
<1>6. /\ b \in Seq(Calls) /\ 1 \in 1..Len(b) /\ b[1] = c /\ \A j \in 1..Len(b) : j # 1 => Quiet(b[j], tr)
      /\ ~CheckPointed(b)
      BY <1>2, <1>3, <1>4, <1>5 DEF QuietCalls, CheckPointed
<1> HIDE DEF a, b
<1>7. Brings(b, tr, d, v)
      BY <1>2, <1>6, OneWriter DEF Errs
<1>8. Brings(p, tr, d, v) /\ a \in Seq(Calls) /\ p \in Seq(Calls) /\ ~CheckPointed(p)
  <2>1. a \in Seq(Calls)
        BY <1>1 DEF QuietCalls
  <2>2. Brings(a, tr, d, d)
        BY <1>1, QuietBrings
  <2>3. Brings(p, tr, d, v)
        BY <2>2, <1>7, BringsAppend
  <2>4. ~CheckPointed(p)
        BY <2>1, <1>1, <1>6, SealsLastAppend
  <2> QED BY <2>1, <2>3, <2>4 DEF Brings
<1>9. tr.to \in {"init", "active", "update_config", "maintenance", "ztp_setup", "reset"}
      BY DEF Transitions, AppStates
<1>10. Delivers(h, tr, d, v)
  <2>1. v["services"] = d["services"]
        BY DomainFacts DEF Apply, Set, Persisted
  <2> HIDE DEF v
  <2> QED BY <2>1, <1>9, HandleInitDelivers, HandleZTPSetupDelivers, HandleActiveDelivers,
             HandleUpdateConfigDelivers, HandleMaintenanceDelivers, HandleResetDelivers DEF Handle
<1>11. h \in Seq(Calls) /\ \A i \in 1..Len(h) : Sound(h[i], tr)
       BY <1>10 DEF Delivers, Brings
<1>12. /\ SealsLast(h)
       /\ CheckPointed(h) /\ tr.ev = "OnUpdateDevice" => tr.pkg = "agent"
       /\ Erasing(tr) => /\ Seals(h)
                         /\ \A r \in Persisted \ {"state"} : \E i \in 1..Len(h) : Writes(h[i], r)
  <2>1. CASE tr.to = "reset"
        BY <2>1, HandleResetDelivers DEF Handle, Aims
  <2>2. CASE tr.to = "maintenance"
        BY <2>2, HandleMaintenanceDelivers DEF Handle, Erasing
  <2>3. CASE tr.to \notin {"reset", "maintenance"}
    <3>1. ~CheckPointed(h)
          BY <2>3, <1>11 DEF Sound, Aims, CheckPointed
    <3>2. SealsLast(h)
      <4> SUFFICES ASSUME NEW j \in 1..Len(h), NEW i \in 1..(j-1), h[i].log = "checkpoint"
                   PROVE  FALSE
          BY DEF SealsLast
      <4>1. i \in 1..Len(h)
            BY <1>11
      <4> QED BY <4>1, <3>1 DEF CheckPointed
    <3> QED BY <3>1, <3>2, <2>3 DEF Erasing
  <2> QED BY <2>1, <2>2, <2>3
<1>13. tr.ev = "OnFirstSetup" => IF d["port"] = None THEN Refuses(h) ELSE Blocking(h)
  <2>1. tr.ev = "OnFirstSetup" => h = RunFirstSetup(tr, d)
        BY DEF Aims, Handle, HandleActive
  <2> QED BY <2>1, FirstSetupDelivers, FirstSetupBlocks
<1>14. \A i \in 1..Len(p) : p[i].set["ws"] = Keep
  <2>1. a \in Seq(StillCalls(tr))
        BY StillOnOff DEF OnExit, UnsubscribeActive, UnsubscribeInit, OnOff, a
  <2>2. c \in StillCalls(tr) /\ n \in StillCalls(tr)
    <3>1. c \in StillCalls(tr)
          BY <1>2, StillConfig DEF c
    <3>2. n \in StillCalls(tr)
          BY ArgumentTypes, StillService DEF ServiceResources, Logs, n
    <3> QED BY <3>1, <3>2
  <2>3. p \in Seq(StillCalls(tr))
        BY <2>1, <2>2, <1>5
  <2> QED BY <2>3 DEF StillCalls, Still
<1>15. PerformTransition(tr, d) = s
       BY DEF PerformTransition, a, b
<1>16. Brings(s, tr, d, Result(tr, d)) \/ (Refuses(s) /\ \E w : Brings(s, tr, d, w))
  <2>1. CASE Brings(h, tr, v, Apply(Written(tr, d), v))
        BY <2>1, <1>8, BringsAppend DEF Result
  <2>2. CASE Brings(h, tr, v, v) /\ Refuses(h)
    <3>1. Brings(s, tr, d, v)
          BY <2>2, <1>8, BringsAppend
    <3>2. Refuses(s)
          BY <2>2, <1>8, <1>11, ReachesAppend
    <3> QED BY <3>1, <3>2
  <2> QED BY <2>1, <2>2, <1>10 DEF Delivers
<1>17. \E i \in 1..Len(p) : Writes(p[i], "state")
  <2>1. Writes(c, "state")
        BY <1>2, <1>4, DomainFacts DEF Writes, Set, Persisted
  <2>2. \A i \in 1..Len(b) : Len(a) + i \in 1..Len(p) /\ p[Len(a) + i] = b[i]
        BY <1>6, <1>8, AppendParts
  <2>3. Len(a) + 1 \in 1..Len(p) /\ p[Len(a) + 1] = c
        BY <2>2, <1>6
  <2> QED BY <2>1, <2>3
<1> HIDE DEF p, h, v
<1>18. /\ \A i \in 1..Len(p) : i \in 1..Len(s) /\ s[i] = p[i]
       /\ \A i \in 1..Len(h) : Len(p) + i \in 1..Len(s) /\ s[Len(p) + i] = h[i]
       BY <1>8, <1>11, AppendParts
<1>19. SealsLast(s) /\ (CheckPointed(s) => CheckPointed(h))
  <2>1. SealsLast(s)
        BY <1>8, <1>11, <1>12, SealsLastAppend
  <2>2. ~CheckPointed(h) => ~CheckPointed(s)
        BY <1>8, <1>11, SealsLastAppend
  <2> QED BY <2>1, <2>2
<1>20. ASSUME Erasing(tr)
       PROVE  Seals(s) /\ \A r \in Persisted : \E i \in 1..Len(s) : Writes(s[i], r)
  <2>1. Seals(s)
        BY <1>12, <1>18, <1>20 DEF Seals
  <2>2. \A r \in Persisted : \E i \in 1..Len(s) : Writes(s[i], r)
        BY <1>12, <1>17, <1>18, <1>20
  <2> QED BY <2>1, <2>2
<1>21. tr.ev = "OnFirstSetup" => IF d["port"] = None THEN Refuses(s) ELSE Blocking(s)
       BY <1>8, <1>11, <1>13, <1>14, BlockingAppend, ReachesAppend
<1> HIDE DEF s
<1> QED BY <1>12, <1>15, <1>16, <1>19, <1>20, <1>21

-----------------------------------------------------------------------------
(* The invariant.                                                          *)

BlankState == IF EmptyCfgClears THEN None ELSE "reset"
Blanks(c, st) == \A r \in Persisted : c[r] = IF r = "state" THEN st ELSE None

(* A configuration a device may come up with: in a stable state, and with  *)
(* a serial number exactly when it is provisioned.                         *)
Stable(c) ==
  /\ c["state"] \in {None, "init", "active", "maintenance", "reset"}
  /\ c["state"] = "reset" => Blanks(c, "reset")
  /\ c["serial"] # None <=> c["state"] \in {"active", "maintenance"}

(* e is c in state st, and possibly with other sections R.                 *)
Alters(c, e, st, R) == e["state"] = st /\ \A r \in Persisted \ (R \cup {"state"}) : e[r] = c[r]

(* A transition by event tr that ends with the configuration e is one of   *)
(* the operations of the agent (or the first part of one) on the durable   *)
(* configuration c, with f to fall back to.                                *)
Heads(tr, c, f, e) ==
  CASE tr.ev = "OnAfterBoot" ->
         /\ c["state"] = tr.to \/ (c["state"] = None /\ tr.to = "init")
         /\ Alters(c, e, tr.to, {})
    [] tr.ev \in {"OnZTPSetupConfig", "OnHubSetPort", "OnHubDeletePort", "OnZTPSetupFinished"} ->
         /\ c["state"] = "init"
         /\ Alters(c, e, IF tr.ev = "OnZTPSetupFinished" THEN "init" ELSE "ztp_setup", {"port"})
         /\ e["port"] \in Ports \cup {None}
    [] tr.ev = "OnFirstSetup" ->
         /\ c["state"] = "init" /\ c["port"] # None
         /\ e["state"] = "active" /\ e["serial"] \in Serials /\ e["port"] \in Ports
         /\ e["services"] \in Services
    [] tr.ev = "OnMigrateFromOldVersion" ->
         /\ c["state"] \in {None, "init"} /\ FactoryID # None
         /\ Alters(c, e, "active", {"serial"}) /\ e["serial"] = FactoryID
    [] tr.ev \in {"OnUpdateConfig", "OnRebuildServices", "OnUpdateConfigFinished"} ->
         /\ c["state"] = "active"
         /\ LET st == IF tr.ev = "OnUpdateConfigFinished" THEN "active" ELSE "update_config"
            IN  \/ Alters(c, e, st, {"port"}) /\ e["port"] \in Ports \cup {c["port"]}
                \/ Alters(c, e, st, {"services"}) /\ e["services"] \in Services \cup {c["services"]}
    [] tr.ev = "OnUpdateDevice" ->
         /\ f["state"] = "active"
         /\ Alters(f, e, "maintenance", {"services"}) /\ e["services"] \in {None, f["services"]}
         /\ (\A r \in Persisted : c[r] = f[r]) \/ (\A r \in Persisted : c[r] = e[r])
    [] tr.ev = "OnUpdateDeviceFinished" ->
         \/ /\ c["state"] = "active"
            /\ Alters(c, e, "active", {"services"}) /\ e["services"] \in {None, c["services"]}
         \/ c["state"] = "maintenance" /\ Alters(c, e, "active", {})
    [] tr.ev = "OnReset" ->
         /\ c["state"] \in {"init", "active"}
         /\ e["state"] = BlankState /\ e["serial"] = None /\ e["services"] = None
         /\ e["port"] = IF DeviceType = "hub" THEN c["port"] ELSE None
    [] tr.ev = "OnHubResetFinished" ->
         /\ DeviceType = "hub" /\ c["state"] \in {"init", "active"}
         /\ e["state"] = "init" /\ e["serial"] = None /\ e["services"] = None
         /\ e["port"] = c["port"]
    [] tr.ev = "OnInitFallback" -> c["state"] = "reset" /\ Alters(c, e, "init", {})
    [] OTHER -> FALSE

(* The calls to come end with e, which is what the transition is for.      *)
HeadsFor(e) ==
  /\ Heads(leg, DurableConfig, FallbackConfig, e)
  /\ \A r \in Persisted : Ends(todo, r, dev[r], e[r])
  /\ CheckPointed(todo) /\ leg.ev = "OnUpdateDevice" =>
       DurableConfig["state"] = "active" /\ e["services"] = None
  /\ leg.ev = "OnUpdateDevice" => dev["services"] \in {None, FallbackConfig["services"]}
  /\ Erasing(leg) =>
       /\ Seals(todo)
       /\ \A r \in Persisted : tx.undo[r] # Keep \/ \E i \in 1..Len(todo) : Writes(todo[i], r)
Reading == \E e : HeadsFor(e)
(* A first setup of an agent that is already set up gets stuck.            *)
Blocked == leg.to = "active" /\ dev["ws"] = "on" /\ Blocking(todo)
(* The second half of the reset of a CPE.                                  *)
Wiping ==
  /\ Erasing(leg) /\ Unrecorded(todo)
  /\ \A r \in Persisted : tx.undo[r] = Keep /\ sealed.undo[r] # Keep
  /\ Blanks(dev, BlankState) \/ Blanks(dev, None)
  /\ FallbackConfig["state"] \in {"init", "active"}

BootsUnlogged == phase = "boot" => tx = NoTx
(* agent.env is written by reset only, and no log has it or the database.  *)
EnvApart ==
  /\ dev["env"] \in {None, FactoryID}
  /\ \A r \in {"env", "db"} : \A l \in {tx, sealed} : l.undo[r] = Keep /\ l.mem[r] = Keep
LegSound == phase = "leg" => (\A i \in 1..Len(todo) : Sound(todo[i], leg)) /\ SealsLast(todo)
LegHeads == phase = "leg" /\ ~abandoned => Refuses(todo) \/ Blocked \/ Wiping \/ Reading
(* A reset CPE that waits for its reboot.                                  *)
RestsErased ==
  phase = "idle" /\ dev["db"] = "off" => dev["active"] = "reset" /\ (~abandoned => dev["serial"] = None)
ConfigStable ==
  ~abandoned => /\ Stable(DurableConfig) /\ Stable(FallbackConfig)
                /\ DurableConfig["serial"] \in {None, FallbackConfig["serial"]}
StaysReset ==
  wiped /\ ~abandoned /\ FactoryID = None =>
    /\ DurableConfig["state"] \in {None, "init", "reset"}
    /\ FallbackConfig["state"] \in {None, "init", "reset"}

AgentInv ==
  /\ BootsUnlogged /\ EnvApart /\ LegSound /\ LegHeads /\ RestsErased /\ ConfigStable /\ StaysReset

-----------------------------------------------------------------------------
(* The durable configuration, and what to fall back to.                    *)

(* Resource by resource, before and after a step.                          *)
LEMMA ConfigAt ==
  /\ \A r \in Persisted :
       /\ DurableConfig[r] = IF tx.undo[r] = Keep THEN dev[r] ELSE tx.undo[r]
       /\ FallbackConfig[r] = IF sealed.undo[r] = Keep THEN DurableConfig[r] ELSE sealed.undo[r]
  /\ \A r \in Persisted :
       /\ DurableConfig'[r] = IF tx'.undo[r] = Keep THEN dev'[r] ELSE tx'.undo[r]
       /\ FallbackConfig'[r] = IF sealed'.undo[r] = Keep THEN DurableConfig'[r] ELSE sealed'.undo[r]
<1>1. \A r \in Persisted : r \in Resources
      BY DomainFacts
<1>2. ASSUME NEW r \in Persisted
      PROVE  /\ DurableConfig[r] = IF tx.undo[r] = Keep THEN dev[r] ELSE tx.undo[r]
             /\ FallbackConfig[r] = IF sealed.undo[r] = Keep THEN DurableConfig[r] ELSE sealed.undo[r]
      BY <1>1 DEF DurableConfig, FallbackConfig, Apply
<1>3. ASSUME NEW r \in Persisted
      PROVE  /\ DurableConfig'[r] = IF tx'.undo[r] = Keep THEN dev'[r] ELSE tx'.undo[r]
             /\ FallbackConfig'[r] = IF sealed'.undo[r] = Keep THEN DurableConfig'[r] ELSE sealed'.undo[r]
      BY <1>1 DEF DurableConfig, FallbackConfig, Apply
<1> QED BY <1>2, <1>3

(* They are functions, equal where they agree on every section.            *)
LEMMA ConfigEqual ==
  /\ (\A r \in Persisted : DurableConfig'[r] = DurableConfig[r]) => DurableConfig' = DurableConfig
  /\ (\A r \in Persisted : FallbackConfig'[r] = FallbackConfig[r]) => FallbackConfig' = FallbackConfig
  /\ (\A r \in Persisted : FallbackConfig'[r] = DurableConfig[r]) => FallbackConfig' = DurableConfig
  /\ (\A r \in Persisted : DurableConfig'[r] = FallbackConfig[r]) => DurableConfig' = FallbackConfig
  /\ (\A r \in Persisted : DurableConfig'[r] = FallbackConfig'[r]) => DurableConfig' = FallbackConfig'
BY DEF DurableConfig, FallbackConfig

(* A step that leaves the configuration alone, at most letting the first   *)
(* half of an operation stand.                                             *)
Stands ==
  /\ DurableConfig' = DurableConfig /\ FallbackConfig' \in {FallbackConfig, DurableConfig}
  /\ UNCHANGED <<abandoned, wiped>>
(* It takes the first half back.                                           *)
TakesBack ==
  /\ DurableConfig' = FallbackConfig /\ FallbackConfig' = FallbackConfig
  /\ UNCHANGED <<abandoned, wiped>>
(* It erases the configuration a reset has emptied.                        *)
Erases ==
  /\ Erasing(leg) /\ Blanks(DurableConfig, BlankState) /\ FallbackConfig["state"] \in {"init", "active"}
  /\ Blanks(DurableConfig', None) /\ FallbackConfig' = FallbackConfig
  /\ UNCHANGED <<abandoned, wiped>>
(* It seals the first half of an update of the agent ...                   *)
SealsUpdate ==
  /\ DurableConfig["state"] = "active"
  /\ Alters(DurableConfig, DurableConfig', "maintenance", {"services"})
  /\ DurableConfig'["services"] = None
  /\ FallbackConfig' = DurableConfig
  /\ UNCHANGED <<abandoned, wiped>>
(* ... or of the reset of a CPE.                                           *)
SealsReset ==
  /\ DeviceType = "cpe" /\ DurableConfig["state"] \in {"init", "active"}
  /\ Blanks(DurableConfig', BlankState) /\ FallbackConfig' = DurableConfig
  /\ UNCHANGED <<abandoned, wiped>>

(* All of these the agent may do.                                          *)
LEMMA StandsPromised == Stands => [Promise!Next]_(Promise!vars)
BY DEF Stands, Promise!Next, Promise!Stand, Promise!Becomes, Promise!vars, Promise!Anything, Promise!LoseRollback

(* A blank configuration, in the words of the agent.                       *)
LEMMA BlankIs ==
  ASSUME NEW st
  PROVE  /\ Blanks(DurableConfig, st) => DurableConfig = Promise!Blank(st)
         /\ Blanks(DurableConfig', st) => DurableConfig' = Promise!Blank(st)
BY DEF Blanks, Promise!Blank, DurableConfig, Persisted, None, Promise!None

(* Taking back, erasing and the two ways of sealing are steps of the       *)
(* agent.                                                                  *)
LEMMA OthersPromised ==
  ASSUME ~abandoned, TakesBack \/ Erases \/ SealsUpdate \/ SealsReset
  PROVE  [Promise!Next]_(Promise!vars)
<1>1. CASE TakesBack
      BY <1>1 DEF TakesBack, Promise!Next, Promise!TakeBack, Promise!Becomes, Promise!vars
<1>2. CASE Erases
  <2>1. DurableConfig = Promise!Blank(BlankState)
        BY <1>2, BlankIs DEF Erases
  <2>2. DurableConfig' = Promise!Blank(None)
        BY <1>2, BlankIs DEF Erases
  <2>3. FallbackConfig # DurableConfig
        BY <1>2 DEF Erases, Blanks, BlankState, Persisted, None
  <2>4. DeviceType = "cpe" /\ abandoned' = abandoned /\ FallbackConfig' = FallbackConfig
        BY <1>2 DEF Erases, Erasing
  <2>5. Promise!Erase
        BY <2>1, <2>2, <2>3, <2>4 DEF Promise!Erase, BlankState, None, Promise!None
  <2> QED BY <2>5, <1>2 DEF Promise!Next
<1>3. CASE SealsUpdate
  <2>1. DurableConfig' = [DurableConfig EXCEPT !.state = "maintenance", !.services = None]
        BY <1>3 DEF SealsUpdate, Alters, DurableConfig, Persisted
  <2>2. Promise!UpdateAgent
        BY <1>3, <2>1 DEF SealsUpdate, Promise!UpdateAgent, Promise!Starts, Promise!None, None
  <2> QED BY <2>2, <1>3 DEF Promise!Next
<1>4. CASE SealsReset
  <2>1. DurableConfig' = Promise!Blank(BlankState)
        BY <1>4, BlankIs DEF SealsReset
  <2>2. Promise!ResetCPE
        BY <1>4, <2>1 DEF SealsReset, Promise!ResetCPE, Promise!Starts, BlankState, None, Promise!None
  <2> QED BY <2>2, <1>4 DEF Promise!Next
<1> QED BY <1>1, <1>2, <1>3, <1>4

(* What the agent may do any more when it has lost a rollback.             *)
LEMMA LostPromised ==
  ASSUME abandoned, abandoned'
  PROVE  ConfigStable' /\ StaysReset' /\ [Promise!Next]_(Promise!vars)
BY DEF ConfigStable, StaysReset, Promise!Next, Promise!Anything

(* The steps above keep the configuration stable.                          *)
LEMMA Promised ==
  ASSUME ConfigStable, StaysReset, abandoned \in BOOLEAN, abandoned' = abandoned,
         ~abandoned => Stands \/ TakesBack \/ Erases \/ SealsUpdate \/ SealsReset
  PROVE  ConfigStable' /\ StaysReset' /\ [Promise!Next]_(Promise!vars)
<1>1. CASE abandoned
      BY <1>1, LostPromised
<1> SUFFICES ASSUME ~abandoned PROVE ConfigStable' /\ StaysReset' /\ [Promise!Next]_(Promise!vars)
    BY <1>1
<1> DEFINE D == DurableConfig
           F == FallbackConfig
<1>2. /\ Stable(D) /\ Stable(F) /\ D["serial"] \in {None, F["serial"]} /\ ~abandoned'
      /\ wiped /\ FactoryID = None =>
           D["state"] \in {None, "init", "reset"} /\ F["state"] \in {None, "init", "reset"}
      BY DEF ConfigStable, StaysReset
<1>3. [Promise!Next]_(Promise!vars)
      BY StandsPromised, OthersPromised
<1>4. BlankState \in {None, "reset"} /\ {"state", "serial", "port", "services"} = Persisted
      BY DEF BlankState, Persisted
<1>5. CASE Stands \/ TakesBack
  <2>1. wiped' = wiped /\ <<D', F'>> \in {<<D, F>>, <<D, D>>, <<F, F>>}
        BY <1>5 DEF Stands, TakesBack
  <2>2. ConfigStable'
    <3>1. Stable(D') /\ Stable(F') /\ D'["serial"] \in {None, F'["serial"]}
      <4> HIDE DEF D, F
      <4> QED BY <2>1, <1>2
    <3> QED BY <3>1, <1>2 DEF ConfigStable
  <2>3. StaysReset'
        BY <2>1, <1>2 DEF StaysReset
  <2> QED BY <2>2, <2>3, <1>3
<1>6. CASE Erases
  <2>1. /\ Blanks(D', None) /\ F' = F /\ wiped' = wiped
        BY <1>6 DEF Erases
  <2>2. D'["state"] = None /\ D'["serial"] = None
        BY <2>1, <1>4 DEF Blanks
  <2>3. Stable(D')
        BY <2>2, <1>4 DEF Stable, None
  <2>4. ConfigStable'
        BY <2>1, <2>2, <2>3, <1>2 DEF ConfigStable
  <2>5. StaysReset'
        BY <2>1, <2>2, <1>2 DEF StaysReset
  <2> QED BY <2>4, <2>5, <1>3
<1>7. CASE SealsUpdate
  <2>1. /\ D["state"] = "active" /\ D'["state"] = "maintenance" /\ D'["serial"] = D["serial"]
        /\ F' = D /\ wiped' = wiped
        BY <1>7, <1>4 DEF SealsUpdate, Alters
  <2>2. Stable(D') /\ Stable(F')
        BY <2>1, <1>2 DEF Stable
  <2>3. ConfigStable'
        BY <2>1, <2>2 DEF ConfigStable
  <2>4. StaysReset'
        BY <2>1, <1>2 DEF StaysReset, None
  <2> QED BY <2>3, <2>4, <1>3
<1>8. CASE SealsReset
  <2>1. /\ Blanks(D', BlankState) /\ F' = D /\ wiped' = wiped
        BY <1>8 DEF SealsReset
  <2>2. D'["state"] \in {None, "reset"} /\ D'["serial"] = None
        BY <2>1, <1>4 DEF Blanks
  <2>3. Stable(D')
        BY <2>1, <2>2, <1>4 DEF Stable, Blanks, None
  <2>4. ConfigStable'
        BY <2>1, <2>2, <2>3, <1>2 DEF ConfigStable
  <2>5. StaysReset'
        BY <2>1, <2>2, <1>2 DEF StaysReset
  <2> QED BY <2>4, <2>5, <1>3
<1> QED BY <1>5, <1>6, <1>7, <1>8

-----------------------------------------------------------------------------
(* Steps that leave the configuration alone.                               *)

(* Neither it nor what the logs hold of it.                                *)
LEMMA SameStands ==
  ASSUME \A r \in Persisted : /\ dev'[r] = dev[r] /\ tx'.undo[r] = tx.undo[r]
                              /\ sealed'.undo[r] = sealed.undo[r]
  PROVE  DurableConfig' = DurableConfig /\ FallbackConfig' = FallbackConfig
<1>1. \A r \in Persisted : DurableConfig'[r] = DurableConfig[r]
      BY ConfigAt
<1>2. \A r \in Persisted : FallbackConfig'[r] = FallbackConfig[r]
      BY <1>1, ConfigAt
<1> QED BY <1>1, <1>2, ConfigEqual

(* Run is not concerned.                                                   *)
LEMMA AsideAgent ==
  ASSUME AgentInv, abandoned \in BOOLEAN,
         UNCHANGED <<tx, sealed, phase, leg, todo, abandoned, wiped>>,
         \A r \in Persisted \cup {"ws", "env", "active", "db"} : dev'[r] = dev[r]
  PROVE  AgentInv' /\ [Promise!Next]_(Promise!vars)
<1>1. DurableConfig' = DurableConfig /\ FallbackConfig' = FallbackConfig
      BY SameStands
<1>2. ConfigStable' /\ StaysReset' /\ [Promise!Next]_(Promise!vars)
      BY <1>1, Promised DEF Stands, AgentInv
<1>3. BootsUnlogged' /\ EnvApart' /\ LegSound' /\ RestsErased'
      BY DEF AgentInv, BootsUnlogged, EnvApart, LegSound, RestsErased, Persisted
<1>4. Wiping => Wiping'
      BY <1>1 DEF Wiping, Blanks
<1>5. Reading => Reading'
  <2> SUFFICES ASSUME NEW e, HeadsFor(e) PROVE HeadsFor(e)'
      BY DEF Reading
  <2>1. dev'["services"] = dev["services"]
        BY DEF Persisted
  <2> QED BY <1>1, <2>1 DEF HeadsFor
<1>6. LegHeads'
      BY <1>4, <1>5 DEF AgentInv, LegHeads, Blocked
<1> QED BY <1>2, <1>3, <1>6 DEF AgentInv

(* A caller only queues.                                                   *)
LEMMA PerformAgent ==
  ASSUME AgentInv, TypeOK, NEW tr \in Requests, Perform(tr)
  PROVE  AgentInv' /\ [Promise!Next]_(Promise!vars)
BY AsideAgent DEF Perform, TypeOK

(* A caller is sent away.                                                  *)
LEMMA RejectAgent ==
  ASSUME AgentInv, TypeOK, Reject
  PROVE  AgentInv' /\ [Promise!Next]_(Promise!vars)
BY AsideAgent DEF Reject, TypeOK

(* The goroutines left behind touch no configuration.                      *)
LEMMA LeftBehindAgent ==
  ASSUME AgentInv, TypeOK, RebootFails \/ DeactivateStarter
  PROVE  AgentInv' /\ [Promise!Next]_(Promise!vars)
<1>1. \A r \in Persisted \cup {"ws", "env", "active", "db"} : dev'[r] = dev[r]
      BY DomainFacts DEF RebootFails, DeactivateStarter, TypeOK, Devices, Persisted
<1> QED BY <1>1, AsideAgent DEF RebootFails, DeactivateStarter, TypeOK

(* A process ends, or a new one finds the log of the last.                 *)
LEMMA FreshAgent ==
  ASSUME AgentInv, abandoned \in BOOLEAN, UNCHANGED <<abandoned, wiped>>,
         phase' = "dangling" \/ (phase' = "boot" /\ tx' = NoTx),
         dev'["env"] = dev["env"],
         \A r \in {"env", "db"} : \A l \in {tx', sealed'} : l.undo[r] = Keep /\ l.mem[r] = Keep,
         DurableConfig' = DurableConfig, FallbackConfig' \in {FallbackConfig, DurableConfig}
  PROVE  AgentInv' /\ [Promise!Next]_(Promise!vars)
<1>1. ConfigStable' /\ StaysReset' /\ [Promise!Next]_(Promise!vars)
      BY Promised DEF Stands, AgentInv
<1>2. BootsUnlogged' /\ EnvApart' /\ LegSound' /\ RestsErased' /\ LegHeads'
      BY DEF AgentInv, BootsUnlogged, EnvApart, LegSound, RestsErased, LegHeads
<1> QED BY <1>1, <1>2 DEF AgentInv

(* A restart and a reboot leave agent.env alone, the empty logs have       *)
(* neither it nor the database.                                            *)
LEMMA RestartEnv ==
  /\ \A d : Restarted(d)["env"] = d["env"] /\ Rebooted(d)["env"] = d["env"]
  /\ \A r \in {"env", "db"} : r \in Resources /\ NoChange[r] = Keep /\ NoTx.undo[r] = Keep /\ NoTx.mem[r] = Keep
<1>1. "env" \in Resources /\ "env" \notin Volatile /\ "env" \notin {"um", "starter", "dhcp"} /\ "db" \in Resources
      BY DEF Resources, Volatile
<1> QED BY <1>1 DEF Restarted, Rebooted, NoChange, NoTx

(* The process ends: what its database holds is what a restart comes up    *)
(* with; only what it had sealed stands now.                               *)
LEMMA ExitAgent ==
  ASSUME AgentInv, TypeOK, NEW d, Exit(d), UNCHANGED <<abandoned, wiped>>,
         d["env"] = dev["env"], \A r \in Persisted : d[r] = dev[r]
  PROVE  AgentInv' /\ [Promise!Next]_(Promise!vars)
<1>1. tx'.undo = tx.undo /\ tx'.mem = NoChange /\ sealed' = NoTx /\ dev' = d /\ phase' = "dangling"
      BY DEF Exit, TypeOK
<1>2. \A r \in Persisted : DurableConfig'[r] = DurableConfig[r] /\ FallbackConfig'[r] = DurableConfig'[r]
      BY <1>1, ConfigAt, EmptyFacts
<1>3. DurableConfig' = DurableConfig /\ FallbackConfig' = DurableConfig
      BY <1>2, ConfigEqual
<1>4. \A r \in {"env", "db"} : \A l \in {tx', sealed'} : l.undo[r] = Keep /\ l.mem[r] = Keep
      BY <1>1, RestartEnv DEF AgentInv, EnvApart
<1> QED BY <1>1, <1>3, <1>4, FreshAgent DEF TypeOK

(* The boot fails: the process takes everything back and ends.             *)
LEMMA BootFailsAgent ==
  ASSUME AgentInv, AtomicInv, BootFails
  PROVE  AgentInv' /\ [Promise!Next]_(Promise!vars)
<1>1. dev' = Restarted(Undone) /\ tx' = NoTx /\ sealed' = NoTx /\ phase' = "dangling"
      BY DEF BootFails
<1>2. \A r \in Persisted : dev'[r] = DurableConfig[r]
      BY <1>1, UndoneConfig, UntouchedConfig DEF AtomicInv
<1>3. \A r \in Persisted : DurableConfig'[r] = DurableConfig[r] /\ FallbackConfig'[r] = DurableConfig'[r]
      BY <1>1, <1>2, ConfigAt, EmptyFacts
<1>4. DurableConfig' = DurableConfig /\ FallbackConfig' = DurableConfig
      BY <1>3, ConfigEqual
<1>5. dev'["env"] = dev["env"]
      BY <1>1, RestartEnv DEF Undone, Apply, AgentInv, EnvApart
<1> QED BY <1>1, <1>4, <1>5, RestartEnv, FreshAgent DEF BootFails, AtomicInv, TypeOK

(* The next process takes back what the last one left in its log.          *)
LEMMA DanglingAgent ==
  ASSUME AgentInv, AtomicInv, RollbackDangling
  PROVE  AgentInv' /\ [Promise!Next]_(Promise!vars)
<1>1. dev' = Apply(tx.undo, dev) /\ tx' = NoTx /\ sealed' = sealed /\ phase' = "boot"
      BY DEF RollbackDangling
<1>2. \A r \in Persisted : dev'[r] = DurableConfig[r]
      BY <1>1, UndoneConfig DEF AtomicInv
<1>3. \A r \in Persisted : DurableConfig'[r] = DurableConfig[r]
      BY <1>1, <1>2, ConfigAt, EmptyFacts
<1>4. \A r \in Persisted : FallbackConfig'[r] = FallbackConfig[r]
      BY <1>1, <1>3, ConfigAt
<1>5. DurableConfig' = DurableConfig /\ FallbackConfig' = FallbackConfig
      BY <1>3, <1>4, ConfigEqual
<1>6. dev'["env"] = dev["env"]
      BY <1>1, RestartEnv DEF Apply, AgentInv, EnvApart
<1> QED BY <1>1, <1>5, <1>6, RestartEnv, FreshAgent DEF RollbackDangling, AtomicInv, TypeOK, AgentInv, EnvApart

(* It could not: nothing is promised any more.                             *)
LEMMA LosesAgent ==
  ASSUME AgentInv, TypeOK, RollbackDanglingFails
  PROVE  AgentInv' /\ [Promise!Next]_(Promise!vars)
<1>1. abandoned' /\ tx' = NoTx /\ UNCHANGED <<dev, sealed>> /\ phase' = "boot"
      BY DEF RollbackDanglingFails
<1>2. ConfigStable' /\ StaysReset' /\ BootsUnlogged' /\ LegSound' /\ LegHeads' /\ RestsErased'
      BY <1>1 DEF ConfigStable, StaysReset, BootsUnlogged, LegSound, LegHeads, RestsErased
<1>3. EnvApart'
      BY <1>1, RestartEnv DEF AgentInv, EnvApart
<1>4. [Promise!Next]_(Promise!vars)
      BY <1>1 DEF TypeOK, Promise!Next, Promise!LoseRollback, Promise!Anything
<1> QED BY <1>2, <1>3, <1>4 DEF AgentInv

-----------------------------------------------------------------------------
(* Rollback.                                                               *)

(* The whole configuration goes back to where the transaction, or its      *)
(* checkpoint, began: the durable one stands.                              *)
LEMMA RollbackAgent ==
  ASSUME AtomicInv, RestInv, AgentInv, Rollback
  PROVE  AgentInv' /\ [Promise!Next]_(Promise!vars)
<1>1. /\ dev' = Undone /\ tx' = NoTx /\ sealed' = NoTx /\ phase = "rollback" /\ phase' = "idle"
      /\ UNCHANGED <<abandoned, wiped>>
      BY DEF Rollback
<1>2. \A r \in Persisted : dev'[r] = DurableConfig[r]
      BY <1>1, UndoneConfig DEF AtomicInv
<1>3. \A r \in Persisted : DurableConfig'[r] = DurableConfig[r] /\ FallbackConfig'[r] = DurableConfig'[r]
      BY <1>1, <1>2, ConfigAt, EmptyFacts
<1>4. DurableConfig' = DurableConfig /\ FallbackConfig' = DurableConfig
      BY <1>3, ConfigEqual
<1>5. ConfigStable' /\ StaysReset' /\ [Promise!Next]_(Promise!vars)
      BY <1>1, <1>4, Promised DEF Stands, AgentInv, AtomicInv, TypeOK
<1>6. dev'["env"] = dev["env"] /\ dev'["db"] = dev["db"]
      BY <1>1, RestartEnv DEF Undone, Apply, AgentInv, EnvApart
<1>7. dev'["db"] # "off"
      BY <1>1, <1>6 DEF RestInv, ClosesAtTheEnd
<1>8. EnvApart'
      BY <1>1, <1>6, RestartEnv DEF AgentInv, EnvApart
<1>9. BootsUnlogged' /\ LegSound' /\ LegHeads' /\ RestsErased'
      BY <1>1, <1>7 DEF BootsUnlogged, LegSound, LegHeads, RestsErased
<1> QED BY <1>5, <1>8, <1>9 DEF AgentInv

-----------------------------------------------------------------------------
(* A leg begins.                                                           *)

(* Section by section, what a transition makes of a device.                *)
LEMMA ResultIs ==
  ASSUME NEW tr \in Transitions, NEW d
  PROVE  \A r \in Persisted :
           Result(tr, d)[r] = IF Written(tr, d)[r] # Keep THEN Written(tr, d)[r]
                              ELSE IF r = "state" THEN tr.to ELSE d[r]
<1>1. tr.to # Keep /\ \A r \in Persisted : r \in Resources
      BY DomainFacts, GoalValues
<1> QED BY <1>1 DEF Result, Apply, Set

(* Its calls head for an operation of the agent, or they stop half-way.    *)
LEMMA BeginHeads ==
  ASSUME TypeOK, NEW tr \in Transitions, Begin(tr), Meant(tr), Aims(tr), dev' = dev,
         ~abandoned' /\ ValidateTransition(dev["active"], tr.to) /\ dev["active"] # tr.to =>
           /\ \/ Heads(tr, DurableConfig', FallbackConfig', Result(tr, dev))
              \/ tr.ev = "OnFirstSetup" /\ (dev["port"] = None \/ dev["ws"] = "on")
           /\ tr.ev = "OnUpdateDevice" =>
                DurableConfig'["state"] = "active" /\ dev["services"] = FallbackConfig'["services"]
  PROVE  LegSound' /\ LegHeads' /\ phase' \in {"leg", "rollback"}
<1>1. CASE ~(dev["active"] # tr.to /\ ValidateTransition(dev["active"], tr.to))
  <2>1. phase' = "rollback"
        BY <1>1 DEF Begin
  <2> QED BY <2>1 DEF LegSound, LegHeads
<1>2. CASE dev["active"] # tr.to /\ ValidateTransition(dev["active"], tr.to)
  <2>1. phase' = "leg" /\ todo' = PerformTransition(tr, dev) /\ leg' = tr
        BY <1>2 DEF Begin
  <2>2. /\ Brings(todo', tr, dev, Result(tr, dev)) \/ (Refuses(todo') /\ \E w : Brings(todo', tr, dev, w))
        /\ SealsLast(todo')
        /\ CheckPointed(todo') /\ tr.ev = "OnUpdateDevice" => tr.pkg = "agent"
        /\ Erasing(tr) => /\ Seals(todo')
                          /\ \A r \in Persisted : \E i \in 1..Len(todo') : Writes(todo'[i], r)
        /\ tr.ev = "OnFirstSetup" => IF dev["port"] = None THEN Refuses(todo') ELSE Blocking(todo')
        BY <2>1, LegBrings DEF TypeOK
  <2>3. LegSound'
        BY <2>1, <2>2 DEF LegSound, Brings
  <2>4. ASSUME ~abandoned', ~Refuses(todo'), ~Blocked' PROVE Reading'
    <3>1. tr.ev = "OnFirstSetup" => dev["port"] # None /\ dev["ws"] # "on"
          BY <2>1, <2>2, <2>4 DEF Blocked, Aims
    <3>2. PICK e : e = Result(tr, dev)
          OBVIOUS
    <3>3. Heads(leg', DurableConfig', FallbackConfig', e)
          BY <1>2, <2>1, <2>4, <3>1, <3>2
    <3>4. \A r \in Persisted : Ends(todo', r, dev'[r], e[r])
          BY <2>2, <2>4, <3>2 DEF Brings
    <3>5. tr.ev = "OnUpdateDevice" =>
            /\ CheckPointed(todo') => DurableConfig'["state"] = "active" /\ e["services"] = None
            /\ dev'["services"] \in {None, FallbackConfig'["services"]}
      <4>1. tr.pkg = "agent" /\ tr.ev = "OnUpdateDevice" => e["services"] = None
        <5>1. Set("services", None)["services"] = None /\ "services" \in Persisted /\ None # Keep
              BY DomainFacts DEF Set, Persisted, None, Keep
        <5>2. tr.pkg = "agent" /\ tr.ev = "OnUpdateDevice" => Written(tr, dev) = Set("services", None)
              BY DEF Written
        <5> QED BY <5>1, <5>2, <3>2, ResultIs
      <4> QED BY <4>1, <1>2, <2>2, <2>4
    <3>6. HeadsFor(e)'
          BY <2>1, <2>2, <3>3, <3>4, <3>5 DEF HeadsFor
    <3> QED BY <3>6 DEF Reading
  <2>5. LegHeads'
        BY <2>4 DEF LegHeads, Refuses
  <2> QED BY <2>1, <2>3, <2>5
<1> QED BY <1>1, <1>2

(* The first leg of a process starts where the device is.                  *)
LEMMA BootAgent ==
  ASSUME AtomicInv, RestInv, AgentInv, SetActiveStateFromBoot
  PROVE  AgentInv' /\ [Promise!Next]_(Promise!vars)
<1> DEFINE to == IF dev["state"] = None THEN "init" ELSE dev["state"]
           tr == To("OnAfterBoot", to)
<1>1. /\ phase = "boot" /\ Begin(tr) /\ UNCHANGED <<dev, tx, sealed, abandoned, wiped>> /\ tx = NoTx
      BY DEF SetActiveStateFromBoot, AgentInv, BootsUnlogged
<1>2. tr \in Transitions /\ TypeOK
      BY BootType DEF AtomicInv, TypeOK
<1>3. Meant(tr) /\ Aims(tr) /\ tr.ev = "OnAfterBoot" /\ tr.to = to
      BY MeantTo DEF Meant, Aims
<1>4. \A r \in Persisted : DurableConfig'[r] = dev[r] /\ DurableConfig[r] = dev[r]
      BY <1>1, ConfigAt, EmptyFacts
<1>5. DurableConfig' = DurableConfig /\ FallbackConfig' = FallbackConfig
      BY <1>1, SameStands
<1>6. ConfigStable' /\ StaysReset' /\ [Promise!Next]_(Promise!vars)
      BY <1>1, <1>2, <1>5, Promised DEF Stands, AgentInv, TypeOK
<1>7. Written(tr, dev) = NoChange /\ \A r \in Persisted : NoChange[r] = Keep
      BY <1>3, DomainFacts DEF Written, NoChange
<1> HIDE DEF tr
<1>8. Heads(tr, DurableConfig', FallbackConfig', Result(tr, dev))
  <2>1. Alters(DurableConfig', Result(tr, dev), tr.to, {})
        BY <1>2, <1>4, <1>7, ResultIs DEF Alters, Persisted
  <2> QED BY <2>1, <1>3, <1>4 DEF Heads, Persisted
<1>9. LegSound' /\ LegHeads' /\ phase' \in {"leg", "rollback"}
      BY <1>1, <1>2, <1>3, <1>8, BeginHeads
<1>10. BootsUnlogged' /\ EnvApart' /\ RestsErased'
       BY <1>1, <1>9 DEF AgentInv, BootsUnlogged, EnvApart, RestsErased
<1> QED BY <1>6, <1>9, <1>10 DEF AgentInv

(* What a caller asks for.                                                 *)
LEMMA RequestHeads ==
  ASSUME NEW tr \in Requests, NEW d \in Devices, NEW c, NEW f,
         \A r \in Persisted : c[r] = d[r] /\ f[r] = d[r],
         d["state"] = d["active"], d["active"] \in {"init", "active", "maintenance"},
         ValidateTransition(d["active"], tr.to), tr.to # d["active"],
         tr.ev = "OnFirstSetup" => d["port"] # None /\ d["active"] = "init"
  PROVE  /\ Heads(tr, c, f, Result(tr, d))
         /\ tr.ev = "OnUpdateDevice" => c["state"] = "active" /\ d["services"] = f["services"]
<1> DEFINE e == Result(tr, d)
<1>1. tr \in Transitions
      BY RequestsType
<1>2. \A r \in Persisted : e[r] = IF Written(tr, d)[r] # Keep THEN Written(tr, d)[r]
                                  ELSE IF r = "state" THEN tr.to ELSE d[r]
      BY <1>1, ResultIs
<1>3. {"state", "serial", "port", "services"} = Persisted /\ Persisted \subseteq Resources
      BY DomainFacts DEF Persisted
<1>4. \A v : Set("port", v) = [r \in Resources |-> IF r = "port" THEN v ELSE Keep]
      BY DEF Set
<1>5. \A r \in Persisted : NoChange[r] = Keep
      BY <1>3 DEF NoChange
<1>6. None # Keep /\ Keep \notin Ports /\ Keep \notin Services /\ Keep \notin Serials /\ d["port"] # Keep
  <2>1. d["port"] \in Domain("port")
        BY DomainFacts DEF Devices, Persisted
  <2> QED BY <2>1, DomainFacts, ValuesAssumption DEF None, Keep
<1> HIDE DEF e
<1>7. CASE tr \in FirstSetups
  <2>1. PICK s \in Serials, p \in Ports, v \in Services :
          tr = With("OnFirstSetup", "active", Config(s, p, v))
        BY <1>7 DEF FirstSetups
  <2>2. tr.ev = "OnFirstSetup" /\ tr.to = "active" /\ tr.arg = Config(s, p, v)
        BY <2>1 DEF With
  <2>3. /\ tr.arg["state"] = Keep /\ tr.arg["serial"] = s /\ tr.arg["port"] = p
        /\ tr.arg["services"] = v
        BY <2>2, <1>3 DEF Config, NoChange
  <2>4. Written(tr, d) = tr.arg
        BY <2>2 DEF Written
  <2>5. e["state"] = "active" /\ e["serial"] = s /\ e["port"] = p /\ e["services"] = v
        BY <2>2, <2>3, <2>4, <1>2, <1>3, <1>6
  <2>6. c["state"] = "init" /\ c["port"] # None
        BY <2>2, <1>3
  <2> QED BY <2>2, <2>5, <2>6 DEF Heads, e
<1>8. CASE tr \in PeerUpdates \cup NetworkUpdates \cup ServiceUpdates \cup Rebuilds
  <2>1. /\ tr.ev \in {"OnUpdateConfig", "OnRebuildServices"} /\ tr.to = "update_config"
        /\ \/ Written(tr, d) = NoChange
           \/ \E p \in Ports : Written(tr, d) = Set("port", p)
           \/ \E v \in Services : Written(tr, d) = Set("services", v)
        BY <1>8 DEF PeerUpdates, NetworkUpdates, ServiceUpdates, Rebuilds, To, With, Written
  <2>2. c["state"] = "active"
        BY <2>1, <1>3 DEF ValidateTransition
  <2>3. CASE Written(tr, d) = NoChange
    <3>1. Alters(c, e, "update_config", {"port"}) /\ e["port"] = c["port"]
          BY <2>1, <2>3, <1>2, <1>3, <1>5 DEF Alters
    <3> QED BY <2>1, <2>2, <3>1 DEF Heads, e
  <2>4. ASSUME NEW p \in Ports, Written(tr, d) = Set("port", p) PROVE Heads(tr, c, f, e)
    <3>1. \A r \in Persisted : Set("port", p)[r] = IF r = "port" THEN p ELSE Keep
          BY <1>3 DEF Set
    <3>2. Alters(c, e, "update_config", {"port"}) /\ e["port"] \in Ports
          BY <2>1, <2>4, <1>2, <1>3, <1>6, <3>1 DEF Alters
    <3> QED BY <2>1, <2>2, <3>2 DEF Heads
  <2>5. ASSUME NEW v \in Services, Written(tr, d) = Set("services", v) PROVE Heads(tr, c, f, e)
    <3>1. \A r \in Persisted : Set("services", v)[r] = IF r = "services" THEN v ELSE Keep
          BY <1>3 DEF Set
    <3>2. Alters(c, e, "update_config", {"services"}) /\ e["services"] \in Services
          BY <2>1, <2>5, <1>2, <1>3, <1>6, <3>1 DEF Alters
    <3> QED BY <2>1, <2>2, <3>2 DEF Heads
  <2> QED BY <2>1, <2>3, <2>4, <2>5 DEF e
<1>9. CASE tr \in ZTPSetups \cup HubSetups
  <2>1. /\ tr.ev \in {"OnZTPSetupConfig", "OnHubSetPort", "OnHubDeletePort"} /\ tr.to = "ztp_setup"
        /\ \E p \in Ports \cup {None} : Written(tr, d) = Set("port", p)
        BY <1>9 DEF ZTPSetups, HubSetups, With, Written
  <2>2. c["state"] = "init"
        BY <2>1, <1>3 DEF ValidateTransition
  <2>3. PICK p \in Ports \cup {None} : Written(tr, d) = Set("port", p)
        BY <2>1
  <2>4. \A r \in Persisted : Set("port", p)[r] = IF r = "port" THEN p ELSE Keep
        BY <1>3 DEF Set
  <2>5. Alters(c, e, "ztp_setup", {"port"}) /\ e["port"] \in Ports \cup {None}
        BY <2>1, <2>3, <2>4, <1>2, <1>3, <1>6 DEF Alters
  <2> QED BY <2>1, <2>2, <2>5 DEF Heads, e
<1>10. CASE tr \in DeviceUpdates
  <2>1. PICK k \in Packages \ {"none"} : tr = [To("OnUpdateDevice", "maintenance") EXCEPT !.pkg = k]
        BY <1>10 DEF DeviceUpdates
  <2>2. tr.ev = "OnUpdateDevice" /\ tr.to = "maintenance"
        BY <2>1 DEF To
  <2>3. c["state"] = "active" /\ f["state"] = "active"
        BY <2>2, <1>3 DEF ValidateTransition
  <2>4. Written(tr, d) \in {NoChange, Set("services", None)}
        BY <2>2 DEF Written
  <2>5. \A r \in Persisted : Set("services", None)[r] = IF r = "services" THEN None ELSE Keep
        BY <1>3 DEF Set
  <2>6. Alters(f, e, "maintenance", {"services"}) /\ e["services"] \in {None, f["services"]}
        BY <2>2, <2>4, <2>5, <1>2, <1>3, <1>5, <1>6 DEF Alters
  <2>7. \A r \in Persisted : c[r] = f[r]
        OBVIOUS
  <2> QED BY <2>2, <2>3, <2>6, <2>7, <1>3 DEF Heads, e
<1>11. CASE tr \in Resets
  <2>1. tr.ev = "OnReset" /\ tr.to = "reset"
        BY <1>11 DEF Resets, To
  <2>2. c["state"] \in {"init", "active"}
        BY <2>1, <1>3 DEF ValidateTransition
  <2>3. Written(tr, d) = IF DeviceType = "hub" THEN [EmptyConfig EXCEPT !["port"] = d["port"]] ELSE EmptyConfig
        BY <2>1 DEF Written
  <2>4. /\ Written(tr, d)["serial"] = None /\ Written(tr, d)["services"] = None
        /\ Written(tr, d)["port"] = IF DeviceType = "hub" THEN d["port"] ELSE None
        /\ Written(tr, d)["state"] = IF EmptyCfgClears THEN None ELSE Keep
        BY <2>3, <1>3, EmptyConfigIs
  <2>5. /\ e["state"] = BlankState /\ e["serial"] = None /\ e["services"] = None
        /\ e["port"] = IF DeviceType = "hub" THEN c["port"] ELSE None
        BY <2>1, <2>4, <1>2, <1>3, <1>6 DEF BlankState
  <2> QED BY <2>1, <2>2, <2>5 DEF Heads, e
<1> QED BY <1>7, <1>8, <1>9, <1>10, <1>11 DEF Requests, e

(* Run takes a caller: the device is at rest, and so is its configuration. *)
LEMMA AcceptAgent ==
  ASSUME AtomicInv, RestInv, PublisherInv, AgentInv, Accept
  PROVE  AgentInv' /\ [Promise!Next]_(Promise!vars)
<1> DEFINE tr == Head(queue)
<1>1. /\ phase = "idle" /\ queue # <<>> /\ dev["db"] = "on" /\ Begin(tr)
      /\ tx' = NoTx /\ sealed' = NoTx /\ UNCHANGED <<dev, abandoned, wiped>>
      /\ tx = NoTx
      BY DEF Accept, AtomicInv, RestsClosed
<1>2. tr \in Requests
  <2>1. queue \in Seq(Transitions)
        BY DEF AtomicInv, TypeOK
  <2>2. 1 \in 1..Len(queue) /\ Head(queue) = queue[1]
        BY <2>1, <1>1
  <2> QED BY <2>2 DEF QueueRequested, PublisherInv
<1> HIDE DEF tr
<1>3. tr \in Transitions /\ Meant(tr) /\ Aims(tr) /\ TypeOK
      BY <1>2, RequestsType, RequestsMeant, RequestsAim DEF AtomicInv
<1>4. /\ dev["active"] \in {"init", "active", "maintenance"} /\ dev["state"] = dev["active"]
      /\ WsRight(dev) /\ dev \in Devices
      BY <1>1, <1>3 DEF RestInv, AtRest, PublisherInv, RestsRight, TypeOK
<1>5. \A r \in Persisted : /\ DurableConfig'[r] = dev[r] /\ DurableConfig[r] = dev[r]
                           /\ FallbackConfig'[r] = dev[r]
      BY <1>1, ConfigAt, EmptyFacts
<1>6. DurableConfig' = DurableConfig /\ FallbackConfig' = DurableConfig
      BY <1>5, ConfigEqual
<1>7. ConfigStable' /\ StaysReset' /\ [Promise!Next]_(Promise!vars)
      BY <1>1, <1>3, <1>6, Promised DEF Stands, AgentInv, TypeOK
<1>8. ASSUME ValidateTransition(dev["active"], tr.to), dev["active"] # tr.to,
             ~(tr.ev = "OnFirstSetup" /\ (dev["port"] = None \/ dev["ws"] = "on"))
      PROVE  /\ Heads(tr, DurableConfig', FallbackConfig', Result(tr, dev))
             /\ tr.ev = "OnUpdateDevice" =>
                  DurableConfig'["state"] = "active" /\ dev["services"] = FallbackConfig'["services"]
  <2>1. tr.ev = "OnFirstSetup" => dev["port"] # None /\ dev["active"] = "init"
        BY <1>3, <1>4, <1>8 DEF WsRight, Aims
  <2> DEFINE c == DurableConfig'
             f == FallbackConfig'
  <2>2. \A r \in Persisted : c[r] = dev[r] /\ f[r] = dev[r]
        BY <1>5
  <2> HIDE DEF c, f
  <2>3. /\ Heads(tr, c, f, Result(tr, dev))
        /\ tr.ev = "OnUpdateDevice" => c["state"] = "active" /\ dev["services"] = f["services"]
        BY <2>1, <2>2, <1>2, <1>4, <1>8, RequestHeads
  <2> QED BY <2>3 DEF c, f
<1>9. LegSound' /\ LegHeads' /\ phase' \in {"leg", "rollback"}
      BY <1>1, <1>3, <1>8, BeginHeads
<1>10. EnvApart'
       BY <1>1, RestartEnv DEF AgentInv, EnvApart
<1>11. BootsUnlogged' /\ RestsErased'
       BY <1>9 DEF BootsUnlogged, RestsErased
<1> QED BY <1>7, <1>9, <1>10, <1>11 DEF AgentInv

-----------------------------------------------------------------------------
(* Only the sections of the configuration count.                           *)
LEMMA HeadsAlike ==
  ASSUME NEW tr, NEW c, NEW f, NEW e, NEW x, Heads(tr, c, f, e), \A r \in Persisted : x[r] = e[r]
  PROVE  Heads(tr, c, f, x)
<1>1. \A b, st, R : Alters(b, x, st, R) <=> Alters(b, e, st, R)
      BY DEF Alters, Persisted
<1>2. x["state"] = e["state"] /\ x["serial"] = e["serial"] /\ x["port"] = e["port"] /\ x["services"] = e["services"]
      BY DEF Persisted
<1> QED BY <1>1, <1>2 DEF Heads

(* What a leg at its end has brought about.                                *)
LEMMA LegEndsHeading ==
  ASSUME AtomicInv, RestInv, AgentInv, phase = "leg", todo = <<>>, ~abandoned
  PROVE  Wiping \/ (~Erasing(leg) /\ Heads(leg, DurableConfig, FallbackConfig, dev))
<1>1. ~Refuses(<<>>) /\ ~Blocking(<<>>) /\ ~Seals(<<>>)
      BY DEF Refuses, Blocking, Seals
<1>2. ASSUME Reading PROVE ~Erasing(leg) /\ Heads(leg, DurableConfig, FallbackConfig, dev)
  <2>1. PICK e : HeadsFor(e)
        BY <1>2 DEF Reading
  <2>2. \A r \in Persisted : dev[r] = e[r]
        BY <2>1, EndsNil DEF HeadsFor
  <2>3. Heads(leg, DurableConfig, FallbackConfig, e) /\ ~Erasing(leg)
        BY <2>1, <1>1 DEF HeadsFor
  <2> QED BY <2>2, <2>3, HeadsAlike
<1> QED BY <1>1, <1>2 DEF AgentInv, LegHeads, Blocked

(* What follows a leg goes on with its operation.                          *)
LEMMA FollowUpHeads ==
  ASSUME NEW tr \in Transitions, NEW d \in Devices, NEW c, NEW f, Meant(tr), Aims(tr),
         Heads(tr, c, f, d), Stable(c), d["env"] \in {None, FactoryID}, FollowUp(tr, d) # NoTransition
  PROVE  LET g == FollowUp(tr, d)
         IN  Heads(g, c, f, Result(g, d)) /\ g.ev # "OnUpdateDevice"
<1> DEFINE g == FollowUp(tr, d)
           e == Result(g, d)
<1>1. g \in Transitions
      BY FollowUpType
<1>2. \A r \in Persisted : e[r] = IF Written(g, d)[r] # Keep THEN Written(g, d)[r]
                                  ELSE IF r = "state" THEN g.to ELSE d[r]
      BY <1>1, ResultIs
<1>3. {"state", "serial", "port", "services"} = Persisted /\ \A r \in Persisted : NoChange[r] = Keep
      BY DomainFacts DEF Persisted, NoChange
<1> HIDE DEF e, g
<1>4. ASSUME Written(g, d) = NoChange
      PROVE  \A r \in Persisted : e[r] = IF r = "state" THEN g.to ELSE d[r]
      BY <1>2, <1>3, <1>4
<1>5. g = FollowUp(tr, d)
      BY DEF g
<1>6. CASE tr.ev \in {"OnZTPSetupConfig", "OnHubSetPort", "OnHubDeletePort"}
  <2>1. g.ev = "OnZTPSetupFinished" /\ g.to = "init"
        BY <1>5, <1>6, MeantTo DEF FollowUp
  <2>2. Written(g, d) = NoChange
        BY <2>1 DEF Written
  <2>3. /\ c["state"] = "init" /\ Alters(c, d, "ztp_setup", {"port"}) /\ d["port"] \in Ports \cup {None}
        BY <1>6 DEF Heads
  <2>4. Alters(c, e, "init", {"port"}) /\ e["port"] \in Ports \cup {None}
        BY <2>1, <2>2, <2>3, <1>3, <1>4 DEF Alters
  <2> QED BY <2>1, <2>3, <2>4 DEF Heads, e, g
<1>7. CASE tr.ev \in {"OnUpdateConfig", "OnRebuildServices"}
  <2>1. g.ev = "OnUpdateConfigFinished" /\ g.to = "active"
        BY <1>5, <1>7, MeantTo DEF FollowUp
  <2>2. Written(g, d) = NoChange
        BY <2>1 DEF Written
  <2>3. /\ c["state"] = "active"
        /\ \/ Alters(c, d, "update_config", {"port"}) /\ d["port"] \in Ports \cup {c["port"]}
           \/ Alters(c, d, "update_config", {"services"}) /\ d["services"] \in Services \cup {c["services"]}
        BY <1>7 DEF Heads
  <2>4. \/ Alters(c, e, "active", {"port"}) /\ e["port"] \in Ports \cup {c["port"]}
        \/ Alters(c, e, "active", {"services"}) /\ e["services"] \in Services \cup {c["services"]}
        BY <2>1, <2>2, <2>3, <1>3, <1>4 DEF Alters
  <2> QED BY <2>1, <2>3, <2>4 DEF Heads, e, g
<1>8. CASE tr.ev = "OnUpdateDevice"
  <2>1. g.ev = "OnUpdateDeviceFinished" /\ g.to = "active"
        BY <1>5, <1>8, MeantTo DEF FollowUp
  <2>2. Written(g, d) = NoChange
        BY <2>1 DEF Written
  <2>3. /\ f["state"] = "active"
        /\ Alters(f, d, "maintenance", {"services"}) /\ d["services"] \in {None, f["services"]}
        /\ (\A r \in Persisted : c[r] = f[r]) \/ (\A r \in Persisted : c[r] = d[r])
        BY <1>8 DEF Heads
  <2>4. CASE \A r \in Persisted : c[r] = f[r]
    <3>1. /\ c["state"] = "active"
          /\ Alters(c, e, "active", {"services"}) /\ e["services"] \in {None, c["services"]}
          BY <2>1, <2>2, <2>3, <2>4, <1>3, <1>4 DEF Alters
    <3> QED BY <2>1, <3>1 DEF Heads, e, g
  <2>5. CASE \A r \in Persisted : c[r] = d[r]
    <3>1. c["state"] = "maintenance" /\ Alters(c, e, "active", {})
          BY <2>1, <2>2, <2>3, <2>5, <1>3, <1>4 DEF Alters
    <3> QED BY <2>1, <3>1 DEF Heads, e, g
  <2> QED BY <2>3, <2>4, <2>5
<1>9. CASE tr.ev = "OnReset"
  <2>1. g.ev = "OnHubResetFinished" /\ g.to = "init" /\ DeviceType = "hub"
        BY <1>5, <1>9, MeantTo DEF FollowUp
  <2>2. Written(g, d) = NoChange
        BY <2>1 DEF Written
  <2>3. /\ c["state"] \in {"init", "active"} /\ d["serial"] = None /\ d["services"] = None
        /\ d["port"] = c["port"]
        BY <1>9, <2>1 DEF Heads
  <2>4. e["state"] = "init" /\ e["serial"] = None /\ e["services"] = None /\ e["port"] = c["port"]
        BY <2>1, <2>2, <2>3, <1>3, <1>4
  <2> QED BY <2>1, <2>3, <2>4 DEF Heads, e, g
<1>10. CASE tr.ev = "OnAfterBoot"
  <2>1. /\ c["state"] = tr.to \/ (c["state"] = None /\ tr.to = "init")
        /\ Alters(c, d, tr.to, {})
        BY <1>10 DEF Heads
  <2>2. tr.to \in {"init", "ztp_setup", "update_config", "maintenance", "reset"}
        BY <1>5, <1>10 DEF FollowUp
  <2>3. tr.to \notin {"ztp_setup", "update_config"}
    <3>1. c["state"] \in {None, "init", "active", "maintenance", "reset"}
          BY DEF Stable
    <3> QED BY <2>1, <3>1 DEF None
  <2>4. CASE tr.to = "init"
    <3>1. g = With("OnMigrateFromOldVersion", "active", Set("serial", d["env"])) /\ d["env"] # None
          BY <1>5, <1>10, <2>4 DEF FollowUp, CheckMigrateFromOldVersion
    <3>2. g.ev = "OnMigrateFromOldVersion" /\ g.to = "active" /\ g.arg = Set("serial", d["env"])
          BY <3>1, MeantTo
    <3>3. FactoryID # None /\ d["env"] = FactoryID /\ FactoryID # Keep
          BY <3>1, FactoryAssumption, ValuesAssumption
    <3>4. \A r \in Persisted : Written(g, d)[r] = IF r = "serial" THEN FactoryID ELSE Keep
      <4>1. Written(g, d) = Set("serial", d["env"])
            BY <3>2 DEF Written
      <4> QED BY <4>1, <3>3, DomainFacts DEF Set
    <3>5. Alters(c, e, "active", {"serial"}) /\ e["serial"] = FactoryID
          BY <2>1, <3>2, <3>3, <3>4, <1>2, <1>3 DEF Alters
    <3> QED BY <2>1, <2>4, <3>2, <3>3, <3>5 DEF Heads, e, g
  <2>5. CASE tr.to = "maintenance"
    <3>1. g.ev = "OnUpdateDeviceFinished" /\ g.to = "active" /\ c["state"] = "maintenance"
          BY <1>5, <1>10, <2>1, <2>5, MeantTo DEF FollowUp
    <3>2. Written(g, d) = NoChange
          BY <3>1 DEF Written
    <3>3. Alters(c, e, "active", {})
          BY <2>1, <3>1, <3>2, <1>3, <1>4 DEF Alters
    <3> QED BY <3>1, <3>3 DEF Heads, e, g
  <2>6. CASE tr.to = "reset"
    <3>1. c["state"] = "reset" /\ c["serial"] = None
          BY <2>1, <2>6, <1>3 DEF Stable, Blanks
    <3>2. d["serial"] = None
          BY <2>1, <3>1, <1>3 DEF Alters
    <3>3. g.ev = "OnInitFallback" /\ g.to = "init"
          BY <1>5, <1>10, <2>6, <3>2, MeantTo DEF FollowUp, WasInitState
    <3>4. Written(g, d) = NoChange
          BY <3>3 DEF Written
    <3>5. Alters(c, e, "init", {})
          BY <2>1, <3>3, <3>4, <1>3, <1>4 DEF Alters
    <3> QED BY <3>1, <3>3, <3>5 DEF Heads, e, g
  <2> QED BY <2>2, <2>3, <2>4, <2>5, <2>6
<1>11. tr.ev \in {"OnZTPSetupConfig", "OnHubSetPort", "OnHubDeletePort", "OnUpdateConfig",
                  "OnRebuildServices", "OnUpdateDevice", "OnReset", "OnAfterBoot"}
       BY DEF FollowUp
<1> QED BY <1>6, <1>7, <1>8, <1>9, <1>10, <1>11

(* A further leg.                                                          *)
LEMMA ContinueAgent ==
  ASSUME AtomicInv, RestInv, PublisherInv, AgentInv, Continue
  PROVE  AgentInv' /\ [Promise!Next]_(Promise!vars)
<1> DEFINE tr == FollowUp(leg, dev)
<1>1. /\ phase = "leg" /\ todo = <<>> /\ tr # NoTransition /\ Begin(tr)
      /\ UNCHANGED <<dev, tx, sealed, abandoned, wiped>>
      BY DEF Continue
<1>2. /\ leg \in Transitions /\ dev \in Devices /\ tr \in Transitions /\ TypeOK
      /\ Meant(leg) /\ Aims(leg) /\ dev["ws"] = WsGoal(leg)
      BY <1>1, FollowUpType, LegEndsRight DEF AtomicInv, RestInv, TypeOK, InLeg, PublisherInv, LegPublishes
<1>3. ~Erasing(leg) /\ Meant(tr) /\ Aims(tr)
      BY <1>1, <1>2, FollowUpMeant, FollowUpStarts
<1>4. DurableConfig' = DurableConfig /\ FallbackConfig' = FallbackConfig
      BY <1>1, SameStands
<1>5. ConfigStable' /\ StaysReset' /\ [Promise!Next]_(Promise!vars)
      BY <1>1, <1>2, <1>4, Promised DEF Stands, AgentInv, TypeOK
<1>6. ASSUME ~abandoned PROVE Heads(tr, DurableConfig, FallbackConfig, Result(tr, dev)) /\ tr.ev # "OnUpdateDevice"
  <2>1. Heads(leg, DurableConfig, FallbackConfig, dev)
        BY <1>1, <1>3, <1>6, LegEndsHeading DEF Wiping
  <2>2. Stable(DurableConfig) /\ dev["env"] \in {None, FactoryID}
        BY <1>6 DEF AgentInv, ConfigStable, EnvApart
  <2> QED BY <1>1, <1>2, <2>1, <2>2, FollowUpHeads
<1> HIDE DEF tr
<1>7. LegSound' /\ LegHeads' /\ phase' \in {"leg", "rollback"}
      BY <1>1, <1>2, <1>3, <1>4, <1>6, BeginHeads
<1>8. BootsUnlogged' /\ EnvApart' /\ RestsErased'
      BY <1>1, <1>7 DEF AgentInv, BootsUnlogged, EnvApart, RestsErased
<1> QED BY <1>5, <1>7, <1>8 DEF AgentInv

-----------------------------------------------------------------------------
(* One call succeeds.                                                      *)

(* What holds of the calls of a leg holds of the rest of them, and behind  *)
(* a checkpoint nothing is recorded.                                       *)
LEMMA TailSound ==
  ASSUME NEW s \in Seq(Calls), s # <<>>, NEW tr, \A i \in 1..Len(s) : Sound(s[i], tr), SealsLast(s)
  PROVE  /\ Sound(Head(s), tr) /\ \A i \in 1..Len(Tail(s)) : Sound(Tail(s)[i], tr)
         /\ SealsLast(Tail(s))
         /\ Head(s).log = "checkpoint" => Unrecorded(Tail(s))
<1> DEFINE c == Head(s)
           t == Tail(s)
<1>1. /\ 1 \in 1..Len(s) /\ c = s[1] /\ Len(s) \in Nat /\ Len(t) \in Nat
      /\ \A i \in 1..Len(t) : i+1 \in 1..Len(s) /\ t[i] = s[i+1]
      BY TailParts
<1> HIDE DEF c, t
<1>2. Sound(c, tr) /\ \A i \in 1..Len(t) : Sound(t[i], tr)
      BY <1>1
<1>3. SealsLast(t)
  <2> SUFFICES ASSUME NEW j \in 1..Len(t), NEW i \in 1..(j-1), t[i].log = "checkpoint"
               PROVE  t[j].log = "none"
      BY DEF SealsLast
  <2>1. i \in 1..Len(t) /\ i+1 \in 1..((j+1)-1) /\ j+1 \in 1..Len(s)
        BY <1>1
  <2>2. s[i+1].log = "checkpoint" /\ s[j+1] = t[j]
        BY <1>1, <2>1
  <2> QED BY <2>1, <2>2 DEF SealsLast
<1>4. ASSUME c.log = "checkpoint", NEW i \in 1..Len(t) PROVE t[i].log = "none"
  <2>1. i+1 \in 1..Len(s) /\ 1 \in 1..((i+1)-1)
        BY <1>1
  <2> QED BY <2>1, <1>1, <1>4 DEF SealsLast
<1> QED BY <1>2, <1>3, <1>4 DEF Unrecorded, c, t

(* A checkpoint to come, calls that write, and the start of the publisher  *)
(* are at the head or behind it.                                           *)
LEMMA TailSeals ==
  ASSUME NEW s \in Seq(Calls), s # <<>>
  PROVE  /\ Seals(s) => Head(s).log = "checkpoint" \/ Seals(Tail(s))
         /\ \A r : (\E i \in 1..Len(s) : Writes(s[i], r)) =>
                     Writes(Head(s), r) \/ \E i \in 1..Len(Tail(s)) : Writes(Tail(s)[i], r)
         /\ Blocking(s) => \/ Head(s).set["ws"] = "on" /\ Head(s).err # "log"
                           \/ Head(s).set["ws"] = Keep /\ Blocking(Tail(s))
<1> DEFINE c == Head(s)
           t == Tail(s)
<1>1. /\ 1 \in 1..Len(s) /\ c = s[1] /\ Len(s) \in Nat /\ Len(t) \in Nat
      /\ \A i \in 1..Len(t) : i+1 \in 1..Len(s) /\ t[i] = s[i+1]
      /\ \A k \in 1..Len(s) : k = 1 \/ (k-1 \in 1..Len(t) /\ t[k-1] = s[k])
      BY TailParts
<1> HIDE DEF c, t
<1>2. Seals(s) => c.log = "checkpoint" \/ Seals(t)
      BY <1>1 DEF Seals
<1>3. \A r : (\E i \in 1..Len(s) : Writes(s[i], r)) => Writes(c, r) \/ \E i \in 1..Len(t) : Writes(t[i], r)
      BY <1>1
<1>4. ASSUME Blocking(s)
      PROVE  (c.set["ws"] = "on" /\ c.err # "log") \/ (c.set["ws"] = Keep /\ Blocking(t))
  <2>1. PICK i \in 1..Len(s) : /\ s[i].set["ws"] = "on" /\ s[i].err # "log"
                               /\ \A j \in 1..(i-1) : s[j].set["ws"] = Keep
        BY <1>4 DEF Blocking
  <2>2. CASE i = 1
        BY <2>1, <2>2, <1>1
  <2>3. CASE i # 1
    <3>1. i-1 \in 1..Len(t) /\ t[i-1] = s[i] /\ 1 \in 1..(i-1)
          BY <2>3, <1>1
    <3>2. ASSUME NEW j \in 1..((i-1)-1) PROVE t[j].set["ws"] = Keep
      <4>1. j \in 1..Len(t) /\ j+1 \in 1..(i-1)
            BY <3>1, <1>1
      <4> QED BY <4>1, <2>1, <1>1
    <3> QED BY <2>1, <3>1, <3>2, <1>1 DEF Blocking
  <2> QED BY <2>2, <2>3
<1> QED BY <1>2, <1>3, <1>4 DEF c, t

(* The configuration and its logs, resource by resource, after a call.     *)
LEMMA StepAt ==
  ASSUME AtomicInv, RestInv, Step, NEW r \in Persisted \cup {"env", "db"}
  PROVE  LET c == Head(todo)
         IN  /\ r \in Resources /\ dev[r] # Keep
             /\ dev'[r] = IF c.set[r] = Keep THEN dev[r] ELSE c.set[r]
             /\ c.log = "checkpoint" => tx' = NoTx /\ sealed' = tx
             /\ c.log # "checkpoint" => sealed' = sealed
             /\ c.log # "checkpoint" /\ c.log # "activity" => tx'.undo = tx.undo
             /\ c.log # "checkpoint" /\ c.log # "func" => tx'.mem = tx.mem
             /\ c.log = "activity" => tx'.undo[r] = Record(c, tx.undo, dev)[r]
             /\ c.log = "func" => tx'.mem[r] = Record(c, tx.mem, dev)[r]
             /\ \A u : Record(c, u, dev)[r] = IF c.set[r] = Keep \/ u[r] # Keep THEN u[r]
                                              ELSE IF c.inv[r] # Keep THEN c.inv[r] ELSE dev[r]
<1>1. r \in Resources
      BY DomainFacts
<1>2. dev[r] # Keep
      BY <1>1, StepFacts, KeepIsNoValue DEF Devices
<1>3. tx \in [undo : Patches, mem : Patches]
      BY StepFacts
<1>4. dev'[r] = IF Head(todo).set[r] = Keep THEN dev[r] ELSE Head(todo).set[r]
      BY <1>1, StepFacts
<1>5. \A u : Record(Head(todo), u, dev)[r] = IF Head(todo).set[r] = Keep \/ u[r] # Keep THEN u[r]
                 ELSE IF Head(todo).inv[r] # Keep THEN Head(todo).inv[r] ELSE dev[r]
      BY <1>1 DEF Record
<1> QED BY <1>1, <1>2, <1>3, <1>4, <1>5 DEF Step

(* A call that is recorded, or writes nothing, leaves the durable          *)
(* configuration alone.                                                    *)
LEMMA StepConfig ==
  ASSUME AtomicInv, RestInv, Step, Head(todo).log # "checkpoint",
         dev["db"] # "off" \/ \A r \in Persisted : Head(todo).set[r] = Keep
  PROVE  DurableConfig' = DurableConfig /\ FallbackConfig' = FallbackConfig
<1> DEFINE c == Head(todo)
<1>1. dev["db"] # "off" => Recorded(c)
      BY StepFacts, TailGuarded DEF AtomicInv, CallsAreGuarded
<1>2. ASSUME NEW r \in Persisted
      PROVE  DurableConfig'[r] = DurableConfig[r] /\ FallbackConfig'[r] = FallbackConfig[r]
  <2>1. /\ dev[r] # Keep /\ sealed' = sealed
        /\ dev'[r] = IF c.set[r] = Keep THEN dev[r] ELSE c.set[r]
        /\ c.log # "activity" => tx'.undo[r] = tx.undo[r]
        /\ c.log = "activity" =>
             tx'.undo[r] = IF c.set[r] = Keep \/ tx.undo[r] # Keep THEN tx.undo[r]
                           ELSE IF c.inv[r] # Keep THEN c.inv[r] ELSE dev[r]
        BY StepAt
  <2>2. c.set[r] # Keep => c.log = "activity" /\ c.inv[r] = Keep
        BY <1>1 DEF Recorded
  <2>3. DurableConfig'[r] = DurableConfig[r]
        BY <2>1, <2>2, ConfigAt
  <2> QED BY <2>1, <2>3, ConfigAt
<1> QED BY <1>2, ConfigEqual

(* No log gets agent.env or the database.                                  *)
LEMMA StepEnvApart ==
  ASSUME AtomicInv, RestInv, AgentInv, Step, Sound(Head(todo), leg)
  PROVE  EnvApart'
<1> DEFINE c == Head(todo)
<1>1. \A r \in {"env", "db"} : \A l \in {tx, sealed} : l.undo[r] = Keep /\ l.mem[r] = Keep
      BY DEF AgentInv, EnvApart
<1>2. dev["env"] \in {None, FactoryID}
      BY DEF AgentInv, EnvApart
<1>3. ASSUME NEW r \in {"env", "db"}
      PROVE  /\ tx'.undo[r] = Keep /\ tx'.mem[r] = Keep /\ sealed'.undo[r] = Keep /\ sealed'.mem[r] = Keep
             /\ dev'[r] = IF c.set[r] = Keep THEN dev[r] ELSE c.set[r]
  <2>1. c.set[r] # Keep => c.log = "none"
        BY DEF Sound
  <2> QED BY <2>1, <1>1, StepAt, RestartEnv
<1>4. c.set["env"] \in {Keep, None}
      BY DEF Sound
<1>5. dev'["env"] \in {None, FactoryID}
      BY <1>2, <1>3, <1>4
<1> QED BY <1>3, <1>5 DEF EnvApart

(* A leg that will stop half-way goes on to do so.                         *)
LEMMA StepStops ==
  ASSUME AtomicInv, RestInv, PublisherInv, AgentInv, Step, Refuses(todo) \/ Blocked
  PROVE  Stands /\ (Refuses(todo') \/ Blocked')
<1> DEFINE c == Head(todo)
<1>1. /\ todo' = Tail(todo) /\ leg' = leg /\ phase = "leg" /\ UNCHANGED <<abandoned, wiped>>
      /\ todo \in Seq(Calls) /\ todo # <<>> /\ ~Refused(c)
      BY StepFacts DEF Step
<1>2. leg.to = "active"
  <2>1. ASSUME Refuses(todo) PROVE leg.to = "active"
    <3>1. Fitting(todo, leg, dev, booting)
          BY <1>1 DEF RestInv, InLeg
    <3> QED BY <2>1, <3>1 DEF Refuses, Fitting, Fits
  <2> QED BY <2>1 DEF Blocked
<1>3. c.log # "checkpoint"
      BY <1>2, StepFacts DEF Fits, Erasing
<1>4. dev["db"] # "off"
      BY <1>1, <1>2 DEF RestInv, ClosesAtTheEnd, Erasing
<1>5. Stands
      BY <1>1, <1>3, <1>4, StepConfig DEF Stands
<1>6. Refuses(todo) => Refuses(todo')
      BY <1>1, StepFacts, TailReaches
<1>7. ASSUME Blocked PROVE Blocked'
  <2>1. c.set["ws"] = "on" \/ (c.set["ws"] = Keep /\ Blocking(Tail(todo)))
        BY <1>1, <1>7, TailSeals DEF Blocked
  <2>2. dev["ws"] = "on" /\ "on" # Keep
        BY <1>7 DEF Blocked, Keep
  <2>3. c.set["ws"] # "on"
        BY <1>1, <2>2 DEF Refused
  <2>4. dev'["ws"] = dev["ws"]
        BY <2>1, <2>3, StepFacts, CarriedFacts DEF Carried
  <2> QED BY <1>1, <1>2, <2>1, <2>2, <2>3, <2>4 DEF Blocked
<1> QED BY <1>5, <1>6, <1>7

(* Behind the checkpoint of the reset of a CPE the database is deleted.    *)
LEMMA StepWipes ==
  ASSUME AtomicInv, RestInv, AgentInv, Step, Wiping
  PROVE  (Stands \/ Erases) /\ Wiping'
<1> DEFINE c == Head(todo)
<1>1. /\ todo' = Tail(todo) /\ leg' = leg /\ UNCHANGED <<abandoned, wiped>>
      /\ todo \in Seq(Calls) /\ todo # <<>>
      BY StepFacts DEF Step
<1>2. /\ Erasing(leg) /\ Unrecorded(todo) /\ FallbackConfig["state"] \in {"init", "active"}
      /\ \A r \in Persisted : tx.undo[r] = Keep /\ sealed.undo[r] # Keep
      /\ Blanks(dev, BlankState) \/ Blanks(dev, None)
      BY DEF Wiping
<1>3. c.log = "none" /\ Unrecorded(todo')
      BY <1>1, <1>2, TailParts DEF Unrecorded
<1>4. Sound(c, leg)
      BY <1>1, TailParts DEF Step, AgentInv, LegSound
<1>5. \A r \in Persisted : /\ dev'[r] = IF c.set[r] = Keep THEN dev[r] ELSE c.set[r]
                           /\ tx'.undo[r] = Keep /\ sealed'.undo[r] = sealed.undo[r]
      BY <1>2, <1>3, StepAt
<1>6. \A r \in Persisted : DurableConfig[r] = dev[r] /\ DurableConfig'[r] = dev'[r]
      BY <1>2, <1>5, ConfigAt
<1>7. FallbackConfig' = FallbackConfig
  <2>1. \A r \in Persisted : FallbackConfig'[r] = FallbackConfig[r]
        BY <1>2, <1>5, ConfigAt
  <2> QED BY <2>1, ConfigEqual
<1>8. CASE \A r \in Persisted : c.set[r] = Keep
  <2>1. \A r \in Persisted : dev'[r] = dev[r] /\ DurableConfig'[r] = DurableConfig[r]
        BY <1>5, <1>6, <1>8
  <2>2. Stands
        BY <1>1, <1>7, <2>1, ConfigEqual DEF Stands
  <2>3. Blanks(dev', BlankState) \/ Blanks(dev', None)
        BY <1>2, <2>1 DEF Blanks
  <2>4. Wiping'
        BY <1>1, <1>2, <1>3, <1>5, <1>7, <2>3 DEF Wiping
  <2> QED BY <2>2, <2>4
<1>9. CASE \A r \in Persisted : c.set[r] = None
  <2>1. \A r \in Persisted : dev'[r] = None /\ DurableConfig'[r] = None
        BY <1>5, <1>6, <1>9 DEF Keep, None
  <2>2. Blanks(dev', None) /\ Blanks(DurableConfig', None)
        BY <2>1 DEF Blanks
  <2>3. Wiping'
        BY <1>1, <1>2, <1>3, <1>5, <1>7, <2>2 DEF Wiping
  <2>4. CASE Blanks(dev, None)
    <3>1. \A r \in Persisted : DurableConfig'[r] = DurableConfig[r]
          BY <1>6, <2>1, <2>4 DEF Blanks
    <3> QED BY <1>1, <1>7, <2>3, <3>1, ConfigEqual DEF Stands
  <2>5. CASE Blanks(dev, BlankState)
    <3>1. Blanks(DurableConfig, BlankState)
          BY <1>6, <2>5 DEF Blanks
    <3> QED BY <1>1, <1>2, <1>7, <2>2, <2>3, <3>1 DEF Erases
  <2> QED BY <1>2, <2>4, <2>5
<1> QED BY <1>3, <1>4, <1>8, <1>9 DEF Sound

(* A leg that heads for an operation of the agent goes on to do so ...     *)
LEMMA StepReads ==
  ASSUME AtomicInv, RestInv, AgentInv, Step, Reading, Head(todo).log # "checkpoint"
  PROVE  Stands /\ Reading'
<1> DEFINE c == Head(todo)
<1>1. /\ todo' = Tail(todo) /\ leg' = leg /\ phase = "leg" /\ UNCHANGED <<abandoned, wiped>>
      /\ todo \in Seq(Calls) /\ todo # <<>> /\ sealed' = sealed
      BY StepFacts DEF Step
<1>2. PICK e : HeadsFor(e)
      BY DEF Reading
<1>3. Sound(c, leg)
      BY <1>1, TailParts DEF AgentInv, LegSound
<1>4. dev["db"] # "off"
  <2>1. ASSUME Erasing(leg), \A i \in 1..Len(todo) : todo[i].err \in {"log", "never"} PROVE FALSE
        BY <2>1, <1>2 DEF HeadsFor, Seals
  <2> QED BY <1>1, <2>1 DEF RestInv, ClosesAtTheEnd
<1>5. Recorded(c)
      BY <1>1, <1>4, TailGuarded DEF AtomicInv, CallsAreGuarded
<1>6. DurableConfig' = DurableConfig /\ FallbackConfig' = FallbackConfig
      BY <1>4, StepConfig
<1>7. \A r \in Persisted : /\ Writes(c, r) <=> c.set[r] # Keep
                           /\ c.set[r] # Keep => c.log = "activity" /\ c.inv[r] = Keep
      BY <1>5 DEF Recorded, Writes, Persisted
<1>8. ASSUME NEW r \in Persisted
      PROVE  /\ dev'[r] = IF Writes(c, r) THEN c.set[r] ELSE dev[r]
             /\ tx.undo[r] # Keep \/ Writes(c, r) => tx'.undo[r] # Keep
  <2>1. /\ dev[r] # Keep /\ dev'[r] = IF c.set[r] = Keep THEN dev[r] ELSE c.set[r]
        BY StepAt
  <2>2. /\ c.log # "activity" => tx'.undo[r] = tx.undo[r]
        /\ c.log = "activity" =>
             tx'.undo[r] = IF c.set[r] = Keep \/ tx.undo[r] # Keep THEN tx.undo[r]
                           ELSE IF c.inv[r] # Keep THEN c.inv[r] ELSE dev[r]
        BY StepAt
  <2> QED BY <2>1, <2>2, <1>7
<1>9. \A r \in Persisted : Ends(todo', r, dev'[r], e[r])
  <2> SUFFICES ASSUME NEW r \in Persisted PROVE Ends(todo', r, dev'[r], e[r])
      OBVIOUS
  <2>1. Ends(todo, r, dev[r], e[r])
        BY <1>2 DEF HeadsFor
  <2> QED BY <2>1, <1>1, <1>8, EndsTail
<1>10. CheckPointed(todo') /\ leg.ev = "OnUpdateDevice" =>
         DurableConfig'["state"] = "active" /\ e["services"] = None
       BY <1>1, <1>2, <1>6, TailReaches DEF HeadsFor
<1>11. leg.ev = "OnUpdateDevice" => dev'["services"] \in {None, FallbackConfig'["services"]}
  <2>1. leg.ev = "OnUpdateDevice" => dev["services"] \in {None, FallbackConfig["services"]}
        BY <1>2 DEF HeadsFor
  <2>2. leg.ev = "OnUpdateDevice" => c.set["services"] \in {Keep, None}
        BY <1>3 DEF Sound
  <2>3. dev'["services"] = IF c.set["services"] = Keep THEN dev["services"] ELSE c.set["services"]
        BY StepAt DEF Persisted
  <2> QED BY <2>1, <2>2, <2>3, <1>6
<1>12. ASSUME Erasing(leg)
       PROVE  /\ Seals(todo')
              /\ \A r \in Persisted : tx'.undo[r] # Keep \/ \E i \in 1..Len(todo') : Writes(todo'[i], r)
  <2>1. /\ Seals(todo)
        /\ \A r \in Persisted : tx.undo[r] # Keep \/ \E i \in 1..Len(todo) : Writes(todo[i], r)
        BY <1>2, <1>12 DEF HeadsFor
  <2>2. Seals(todo')
        BY <2>1, <1>1, TailSeals
  <2>3. ASSUME NEW r \in Persisted
        PROVE  tx'.undo[r] # Keep \/ \E i \in 1..Len(todo') : Writes(todo'[i], r)
    <3>1. CASE tx.undo[r] # Keep \/ Writes(c, r)
          BY <3>1, <1>8
    <3>2. CASE tx.undo[r] = Keep /\ ~Writes(c, r)
          BY <3>2, <2>1, <1>1, TailSeals
    <3> QED BY <3>1, <3>2
  <2> QED BY <2>2, <2>3
<1>13. HeadsFor(e)'
       BY <1>1, <1>2, <1>6, <1>9, <1>10, <1>11, <1>12 DEF HeadsFor
<1> QED BY <1>1, <1>6, <1>13 DEF Stands, Reading

(* ... and its checkpoint seals the first half of one that takes two steps.*)
LEMMA StepSealsConfig ==
  ASSUME AtomicInv, RestInv, PublisherInv, AgentInv, Step, Reading, Head(todo).log = "checkpoint"
  PROVE  /\ SealsUpdate \/ SealsReset
         /\ Reading' \/ Wiping'
<1> DEFINE c == Head(todo)
<1>1. /\ todo' = Tail(todo) /\ leg' = leg /\ phase = "leg" /\ UNCHANGED <<abandoned, wiped>>
      /\ todo \in Seq(Calls) /\ todo # <<>>
      BY StepFacts DEF Step
<1>2. PICK e : HeadsFor(e)
      BY DEF Reading
<1>3. Sound(c, leg) /\ Unrecorded(todo')
      BY <1>1, TailSound DEF AgentInv, LegSound
<1>4. dev["db"] # "off"
  <2>1. ASSUME Erasing(leg), \A i \in 1..Len(todo) : todo[i].err \in {"log", "never"} PROVE FALSE
        BY <2>1, <1>2 DEF HeadsFor, Seals
  <2> QED BY <1>1, <2>1 DEF RestInv, ClosesAtTheEnd
<1>5. \A r \in Persisted : c.set[r] = Keep
  <2>1. Recorded(c)
        BY <1>1, <1>4, TailGuarded DEF AtomicInv, CallsAreGuarded
  <2> QED BY <2>1 DEF Recorded
<1>6. \A r \in Persisted : /\ dev'[r] = dev[r] /\ tx'.undo[r] = Keep /\ sealed'.undo[r] = tx.undo[r]
      BY <1>5, StepAt, EmptyFacts
<1>7. \A r \in Persisted : /\ ~Writes(c, r) /\ Silent(todo', r)
                           /\ ~\E i \in 1..Len(todo') : Writes(todo'[i], r)
      BY <1>3, <1>5 DEF Writes, Silent, Unrecorded, Persisted
<1>8. \A r \in Persisted : dev[r] = e[r]
  <2> SUFFICES ASSUME NEW r \in Persisted PROVE dev[r] = e[r]
      OBVIOUS
  <2>1. Ends(todo, r, dev[r], e[r])
        BY <1>2 DEF HeadsFor
  <2>2. Ends(todo', r, dev[r], e[r])
        BY <2>1, <1>1, <1>7, EndsTail
  <2> QED BY <2>2, <1>7 DEF Ends, Silent
<1>9. \A r \in Persisted : DurableConfig'[r] = e[r] /\ FallbackConfig'[r] = DurableConfig[r]
      BY <1>6, <1>8, ConfigAt
<1>10. FallbackConfig' = DurableConfig
       BY <1>9, ConfigEqual
<1>11. {"state", "serial", "port", "services"} = Persisted
       BY DEF Persisted
<1>12. Heads(leg, DurableConfig, FallbackConfig, e)
       BY <1>2 DEF HeadsFor
<1>13. CASE leg.ev = "OnUpdateDevice"
  <2>1. DurableConfig["state"] = "active" /\ e["services"] = None
    <3>1. CheckPointed(todo)
          BY <1>1, TailReaches
    <3> QED BY <3>1, <1>2, <1>13 DEF HeadsFor
  <2>2. /\ Alters(FallbackConfig, e, "maintenance", {"services"})
        /\ \/ \A r \in Persisted : DurableConfig[r] = FallbackConfig[r]
           \/ \A r \in Persisted : DurableConfig[r] = e[r]
        BY <1>12, <1>13 DEF Heads
  <2>3. \A r \in Persisted : DurableConfig[r] = FallbackConfig[r]
        BY <2>1, <2>2, <1>11 DEF Alters
  <2>4. Alters(DurableConfig, e, "maintenance", {"services"})
        BY <2>2, <2>3 DEF Alters
  <2>5. Alters(DurableConfig, DurableConfig', "maintenance", {"services"}) /\ DurableConfig'["services"] = None
        BY <2>1, <2>4, <1>9, <1>11 DEF Alters
  <2>6. SealsUpdate
        BY <1>1, <1>10, <2>1, <2>5 DEF SealsUpdate
  <2>7. Heads(leg', DurableConfig', FallbackConfig', e)
    <3>1. FallbackConfig'["state"] = "active" /\ Alters(FallbackConfig', e, "maintenance", {"services"})
          BY <1>10, <2>1, <2>4
    <3>2. \A r \in Persisted : DurableConfig'[r] = e[r]
          BY <1>9
    <3> QED BY <1>1, <1>13, <2>1, <3>1, <3>2 DEF Heads
  <2>8. \A r \in Persisted : Ends(todo', r, dev'[r], e[r])
        BY <1>6, <1>7, <1>8 DEF Ends
  <2>9. ~CheckPointed(todo')
        BY <1>3 DEF Unrecorded, CheckPointed
  <2>10. dev'["services"] = None
        BY <1>6, <1>8, <1>11, <2>1
  <2>11. ~Erasing(leg')
        BY <1>1, <1>13 DEF Erasing
  <2>12. HeadsFor(e)'
        BY <2>7, <2>8, <2>9, <2>10, <2>11 DEF HeadsFor
  <2> QED BY <2>6, <2>12 DEF Reading
<1>14. CASE leg.ev = "OnReset"
  <2>1. Erasing(leg) /\ DeviceType = "cpe"
    <3>1. leg.to = "reset"
          BY <1>1, <1>14 DEF PublisherInv, LegPublishes, Aims
    <3> QED BY <3>1, StepFacts DEF Fits, Erasing
  <2>2. /\ DurableConfig["state"] \in {"init", "active"}
        /\ e["state"] = BlankState /\ e["serial"] = None /\ e["services"] = None /\ e["port"] = None
        BY <1>12, <1>14, <2>1 DEF Heads
  <2>3. Blanks(DurableConfig', BlankState) /\ Blanks(dev', BlankState)
        BY <1>6, <1>8, <1>9, <1>11, <2>2 DEF Blanks
  <2>4. SealsReset
        BY <1>1, <1>10, <2>1, <2>2, <2>3 DEF SealsReset
  <2>5. \A r \in Persisted : tx.undo[r] # Keep
    <3> SUFFICES ASSUME NEW r \in Persisted PROVE tx.undo[r] # Keep
        OBVIOUS
    <3>1. tx.undo[r] # Keep \/ \E i \in 1..Len(todo) : Writes(todo[i], r)
          BY <1>2, <2>1 DEF HeadsFor
    <3> QED BY <3>1, <1>1, <1>7, TailSeals
  <2>6. FallbackConfig'["state"] \in {"init", "active"}
        BY <1>10, <2>2
  <2>7. Wiping'
        BY <1>1, <1>3, <1>6, <2>1, <2>3, <2>5, <2>6 DEF Wiping
  <2> QED BY <2>4, <2>7
<1> QED BY <1>3, <1>13, <1>14 DEF Sound

(* One call, whatever the leg is for.                                      *)
LEMMA StepAgent ==
  ASSUME AtomicInv, RestInv, PublisherInv, AgentInv, Step
  PROVE  AgentInv' /\ [Promise!Next]_(Promise!vars)
<1>1. /\ todo' = Tail(todo) /\ leg' = leg /\ phase = "leg" /\ phase' = "leg"
      /\ UNCHANGED <<abandoned, wiped>> /\ todo \in Seq(Calls) /\ todo # <<>>
      BY StepFacts DEF Step
<1>2. /\ \A i \in 1..Len(todo) : Sound(todo[i], leg)
      /\ SealsLast(todo)
      BY <1>1 DEF AgentInv, LegSound
<1>3. LegSound' /\ Sound(Head(todo), leg)
      BY <1>1, <1>2, TailSound DEF LegSound
<1>4. EnvApart'
      BY <1>3, StepEnvApart
<1>5. ASSUME ~abandoned
      PROVE  /\ Stands \/ TakesBack \/ Erases \/ SealsUpdate \/ SealsReset
             /\ Refuses(todo') \/ Blocked' \/ Wiping' \/ Reading'
  <2>1. Refuses(todo) \/ Blocked \/ Wiping \/ Reading
        BY <1>1, <1>5 DEF AgentInv, LegHeads
  <2>2. CASE Refuses(todo) \/ Blocked
        BY <2>2, StepStops
  <2>3. CASE Wiping
        BY <2>3, StepWipes
  <2>4. CASE Reading /\ Head(todo).log # "checkpoint"
        BY <2>4, StepReads
  <2>5. CASE Reading /\ Head(todo).log = "checkpoint"
        BY <2>5, StepSealsConfig
  <2> QED BY <2>1, <2>2, <2>3, <2>4, <2>5
<1>6. ConfigStable' /\ StaysReset' /\ [Promise!Next]_(Promise!vars)
      BY <1>1, <1>5, Promised DEF AgentInv, AtomicInv, TypeOK
<1>7. BootsUnlogged' /\ RestsErased'
      BY <1>1 DEF BootsUnlogged, RestsErased
<1>8. LegHeads'
      BY <1>1, <1>5 DEF LegHeads
<1> QED BY <1>3, <1>4, <1>6, <1>7, <1>8 DEF AgentInv

-----------------------------------------------------------------------------
(* One call fails.                                                         *)

(* What the handler puts right is no configuration; the checkpoint may be  *)
(* deleted, which puts its log before that of the transaction.             *)
LEMMA FailAt ==
  ASSUME AtomicInv, CallFails
  PROVE  /\ \A r \in Persisted \cup {"env", "db"} : r \in Resources /\ dev'[r] = dev[r]
         /\ IF Head(todo).err \in {"revoke", "finish"}
            THEN /\ sealed' = NoTx
                 /\ \A r \in Persisted \cup {"env", "db"} :
                      /\ tx'.undo[r] = IF sealed.undo[r] = Keep THEN tx.undo[r] ELSE sealed.undo[r]
                      /\ tx'.mem[r] = IF sealed.mem[r] = Keep THEN tx.mem[r] ELSE sealed.mem[r]
            ELSE UNCHANGED <<tx, sealed>>
         /\ UNCHANGED <<leg, abandoned, wiped>> /\ phase = "leg" /\ phase' \in {"leg", "rollback"}
         /\ todo \in Seq(Calls) /\ todo # <<>>
<1>1. \A r \in Persisted \cup {"env", "db"} : r \in Resources /\ Cleanup(Head(todo))[r] = Keep
      BY DomainFacts DEF Cleanup, NoChange, Set, Persisted
<1>2. dev' = Apply(Cleanup(Head(todo)), dev)
      BY DEF CallFails
<1>3. \A r \in Persisted \cup {"env", "db"} : r \in Resources /\ dev'[r] = dev[r]
      BY <1>1, <1>2 DEF Apply
<1>4. CASE Head(todo).err \in {"revoke", "finish"}
  <2>1. /\ tx' = [undo |-> Apply(sealed.undo, tx.undo), mem |-> Apply(sealed.mem, tx.mem)]
        /\ sealed' = NoTx
        BY <1>4 DEF CallFails, DeleteCheckPoint
  <2> QED BY <2>1, <1>3, <1>4 DEF Apply, CallFails, AtomicInv, TypeOK
<1>5. CASE Head(todo).err \notin {"revoke", "finish"}
      BY <1>3, <1>5 DEF CallFails, AtomicInv, TypeOK
<1> QED BY <1>4, <1>5

(* The configuration stands, or what was sealed is taken back.             *)
LEMMA FailConfig ==
  ASSUME AtomicInv, CallFails
  PROVE  IF Head(todo).err \in {"revoke", "finish"} THEN TakesBack
         ELSE Stands /\ FallbackConfig' = FallbackConfig
<1>1. CASE Head(todo).err \in {"revoke", "finish"}
  <2>1. \A r \in Persisted : /\ tx'.undo[r] = IF sealed.undo[r] = Keep THEN tx.undo[r] ELSE sealed.undo[r]
                             /\ dev'[r] = dev[r] /\ sealed'.undo[r] = Keep
        BY <1>1, FailAt, EmptyFacts
  <2>2. \A r \in Persisted : DurableConfig'[r] = FallbackConfig[r]
        BY <2>1, ConfigAt
  <2>3. \A r \in Persisted : FallbackConfig'[r] = FallbackConfig[r]
        BY <2>1, <2>2, ConfigAt
  <2> QED BY <1>1, <2>2, <2>3, ConfigEqual, FailAt DEF TakesBack
<1>2. CASE Head(todo).err \notin {"revoke", "finish"}
      BY <1>2, FailAt, SameStands DEF Stands
<1> QED BY <1>1, <1>2

(* An error that is only logged: the leg goes on.                          *)
LEMMA FailGoesOn ==
  ASSUME AtomicInv, RestInv, PublisherInv, AgentInv, CallFails, Head(todo).err = "log", ~abandoned
  PROVE  LegHeads'
<1> DEFINE c == Head(todo)
<1>1. /\ todo' = Tail(todo) /\ leg' = leg /\ phase = "leg" /\ UNCHANGED <<abandoned, tx, sealed>>
      /\ todo \in Seq(Calls) /\ todo # <<>> /\ \A r \in Persisted : dev'[r] = dev[r]
      BY FailAt DEF CallFails
<1>2. c.log = "none"
      BY <1>1, TailParts DEF AgentInv, LegSound, Sound
<1>3. DurableConfig' = DurableConfig /\ FallbackConfig' = FallbackConfig
      BY FailConfig DEF Stands
<1>4. Refuses(todo) => Refuses(todo')
      BY <1>1, TailReaches
<1>5. ASSUME Blocked PROVE Blocked'
  <2>1. Blocking(todo') /\ dev'["ws"] = dev["ws"]
        BY <1>1, <1>5, TailSeals, FailParts DEF Blocked
  <2> QED BY <2>1, <1>1, <1>5 DEF Blocked
<1>6. ASSUME Wiping PROVE Wiping'
  <2>1. Unrecorded(todo')
        BY <1>1, <1>6, TailParts DEF Wiping, Unrecorded
  <2> QED BY <2>1, <1>1, <1>3, <1>6 DEF Wiping, Blanks
<1>7. ASSUME Reading PROVE Reading'
  <2>1. PICK e : HeadsFor(e)
        BY <1>7 DEF Reading
  <2>2. \A r \in Persisted : ~Writes(c, r)
        BY <1>2 DEF Writes, Persisted
  <2>3. \A r \in Persisted : Ends(todo', r, dev'[r], e[r])
    <3> SUFFICES ASSUME NEW r \in Persisted PROVE Ends(todo', r, dev'[r], e[r])
        OBVIOUS
    <3>1. Ends(todo, r, dev[r], e[r])
          BY <2>1 DEF HeadsFor
    <3> QED BY <3>1, <2>2, <1>1, EndsTail
  <2>4. CheckPointed(todo') => CheckPointed(todo)
        BY <1>1, TailReaches
  <2>5. dev'["services"] = dev["services"]
        BY <1>1 DEF Persisted
  <2>6. ASSUME Erasing(leg)
        PROVE  /\ Seals(todo')
               /\ \A r \in Persisted : tx'.undo[r] # Keep \/ \E i \in 1..Len(todo') : Writes(todo'[i], r)
    <3>1. /\ Seals(todo)
          /\ \A r \in Persisted : tx.undo[r] # Keep \/ \E i \in 1..Len(todo) : Writes(todo[i], r)
          BY <2>1, <2>6 DEF HeadsFor
    <3>2. Seals(todo')
          BY <3>1, <1>1, <1>2, TailSeals
    <3>3. \A r \in Persisted : tx'.undo[r] # Keep \/ \E i \in 1..Len(todo') : Writes(todo'[i], r)
      <4> SUFFICES ASSUME NEW r \in Persisted, tx.undo[r] = Keep
                   PROVE  \E i \in 1..Len(todo') : Writes(todo'[i], r)
          BY <1>1
      <4>1. \E i \in 1..Len(todo) : Writes(todo[i], r)
            BY <3>1
      <4> QED BY <4>1, <2>2, <1>1, TailSeals
    <3> QED BY <3>2, <3>3
  <2>7. HeadsFor(e)'
        BY <1>1, <1>3, <2>1, <2>3, <2>4, <2>5, <2>6 DEF HeadsFor
  <2> QED BY <2>7 DEF Reading
<1>8. Refuses(todo) \/ Blocked \/ Wiping \/ Reading
      BY <1>1 DEF AgentInv, LegHeads
<1> QED BY <1>4, <1>5, <1>6, <1>7, <1>8 DEF LegHeads

(* An update of the device is reported as failed, and ends as if it had    *)
(* been done: what it has deleted stays deleted.                           *)
LEMMA FailFinishes ==
  ASSUME AtomicInv, RestInv, PublisherInv, AgentInv, CallFails, Head(todo).err = "finish", ~abandoned
  PROVE  LegHeads'
<1> DEFINE c == Head(todo)
<1>1. /\ todo' = <<>> /\ leg' = leg /\ phase = "leg" /\ todo \in Seq(Calls) /\ todo # <<>>
      /\ \A r \in Persisted : dev'[r] = dev[r]
      BY FailAt DEF CallFails
<1>2. leg.ev = "OnUpdateDevice" /\ leg.to = "maintenance"
      BY <1>1, FailParts DEF WsFits, PublisherInv, LegPublishes, Aims
<1>3. DurableConfig' = FallbackConfig /\ FallbackConfig' = FallbackConfig
      BY FailConfig DEF TakesBack
<1>4. Reading
  <2>1. ~Refuses(todo)
        BY <1>2, FailFacts DEF Refuses, Fitting, Fits
  <2>2. ~Blocked /\ ~Wiping
        BY <1>2 DEF Blocked, Wiping, Erasing
  <2> QED BY <1>1, <2>1, <2>2 DEF AgentInv, LegHeads
<1>5. PICK e : HeadsFor(e)
      BY <1>4 DEF Reading
<1>6. /\ FallbackConfig["state"] = "active" /\ Alters(FallbackConfig, e, "maintenance", {"services"})
      /\ dev["services"] \in {None, FallbackConfig["services"]}
      BY <1>2, <1>5 DEF HeadsFor, Heads
<1>7. Silent(todo, "state")
  <2>1. c.set["state"] = Keep
        BY FailFacts DEF Fits, Late, Special
  <2>2. \A i \in 1..Len(Tail(todo)) : Tail(todo)[i].set["state"] = Keep
    <3>1. \A i \in 1..Len(Tail(todo)) : Behind(c, Tail(todo)[i], leg)
          BY FailFacts, TailFits
    <3>2. Late(c)
          BY DEF Late
    <3> QED BY <1>2, <3>1, <3>2 DEF Behind, Special
  <2> QED BY <2>1, <2>2, <1>1, TailParts DEF Silent, Writes
<1>8. Silent(todo, "serial") /\ Silent(todo, "port")
      BY <1>1, <1>2 DEF AgentInv, LegSound, Sound, Silent, Writes
<1>9. \A r \in {"state", "serial", "port"} : dev[r] = e[r]
  <2>1. \A r \in {"state", "serial", "port"} : Ends(todo, r, dev[r], e[r]) /\ Silent(todo, r)
        BY <1>5, <1>7, <1>8 DEF HeadsFor, Persisted
  <2> QED BY <2>1 DEF Ends, Silent
<1>10. Alters(FallbackConfig, dev, "maintenance", {"services"})
       BY <1>6, <1>9 DEF Alters, Persisted
<1>11. PICK x : x = dev'
       OBVIOUS
<1>12. \A r \in Persisted : x[r] = dev[r]
       BY <1>1, <1>11
<1>13. Heads(leg', DurableConfig', FallbackConfig', x)
  <2>1. Alters(FallbackConfig', x, "maintenance", {"services"}) /\ x["services"] = dev["services"]
        BY <1>3, <1>10, <1>12 DEF Alters, Persisted
  <2> QED BY <2>1, <1>1, <1>2, <1>3, <1>6 DEF Heads
<1>14. HeadsFor(x)'
  <2>1. \A r \in Persisted : Ends(todo', r, dev'[r], x[r])
        BY <1>1, <1>11, EndsNil
  <2>2. ~CheckPointed(todo') /\ ~Erasing(leg') /\ dev'["services"] = dev["services"]
        BY <1>1, <1>2 DEF CheckPointed, Erasing, Persisted
  <2> QED BY <1>3, <1>6, <1>13, <2>1, <2>2 DEF HeadsFor
<1> QED BY <1>14 DEF LegHeads, Reading

(* A failing call, whatever becomes of its leg.                            *)
LEMMA CallFailsAgent ==
  ASSUME AtomicInv, RestInv, PublisherInv, AgentInv, CallFails
  PROVE  AgentInv' /\ [Promise!Next]_(Promise!vars)
<1> DEFINE c == Head(todo)
<1>1. ConfigStable' /\ StaysReset' /\ [Promise!Next]_(Promise!vars)
      BY FailConfig, FailAt, Promised DEF AgentInv, AtomicInv, TypeOK
<1>2. BootsUnlogged' /\ RestsErased'
      BY FailAt DEF BootsUnlogged, RestsErased
<1>3. EnvApart'
  <2>1. /\ dev["env"] \in {None, FactoryID}
        /\ \A r \in {"env", "db"} : \A l \in {tx, sealed} : l.undo[r] = Keep /\ l.mem[r] = Keep
        BY DEF AgentInv, EnvApart
  <2>2. dev'["env"] = dev["env"]
        BY FailAt
  <2>3. \A r \in {"env", "db"} : \A l \in {tx', sealed'} : l.undo[r] = Keep /\ l.mem[r] = Keep
    <3>1. CASE c.err \in {"revoke", "finish"}
          BY <3>1, <2>1, FailAt, RestartEnv
    <3>2. CASE c.err \notin {"revoke", "finish"}
          BY <3>2, <2>1, FailAt
    <3> QED BY <3>1, <3>2
  <2> QED BY <2>1, <2>2, <2>3 DEF EnvApart
<1>4. LegSound'
  <2>1. CASE c.err = "log"
    <3>1. todo' = Tail(todo) /\ leg' = leg /\ todo \in Seq(Calls) /\ todo # <<>> /\ phase = "leg"
          BY <2>1, FailAt DEF CallFails
    <3>2. (\A i \in 1..Len(todo) : Sound(todo[i], leg)) /\ SealsLast(todo)
          BY <3>1 DEF AgentInv, LegSound
    <3> QED BY <3>1, <3>2, TailSound DEF LegSound
  <2>2. CASE c.err # "log"
    <3>1. todo' = <<>>
          BY <2>2 DEF CallFails
    <3> QED BY <3>1 DEF LegSound, SealsLast
  <2> QED BY <2>1, <2>2
<1>5. LegHeads'
  <2>1. CASE c.err \notin {"log", "finish"}
    <3>1. phase' = "rollback"
          BY <2>1 DEF CallFails
    <3> QED BY <3>1 DEF LegHeads
  <2>2. CASE abandoned
        BY <2>2, FailAt DEF LegHeads
  <2> QED BY <2>1, <2>2, FailGoesOn, FailFinishes
<1> QED BY <1>1, <1>2, <1>3, <1>4, <1>5 DEF AgentInv

-----------------------------------------------------------------------------
(* The transaction ends: its operation is done.                            *)

(* The new configuration, from what a leg has altered.                     *)
LEMMA AltersIs ==
  ASSUME NEW st, NEW R, Alters(DurableConfig, DurableConfig', st, R)
  PROVE  /\ R = {} => DurableConfig' = [DurableConfig EXCEPT !.state = st]
         /\ \A r \in {"serial", "port", "services"} : R = {r} =>
              DurableConfig' = [DurableConfig EXCEPT !.state = st, ![r] = DurableConfig'[r]]
         /\ \A r \in {"port", "services"} : R = {r} /\ DurableConfig["state"] = st =>
              DurableConfig' = [DurableConfig EXCEPT ![r] = DurableConfig'[r]]
         /\ \A r \in {"port", "services"} :
              R \in {{}, {r}} /\ DurableConfig["state"] = st /\ DurableConfig'[r] = DurableConfig[r] =>
                DurableConfig' = DurableConfig
<1>1. {"state", "serial", "port", "services"} = Persisted
      BY DEF Persisted
<1>2. DOMAIN DurableConfig = Persisted /\ DOMAIN DurableConfig' = Persisted
      BY DEF DurableConfig
<1>3. DurableConfig = [r \in Persisted |-> DurableConfig[r]] /\ DurableConfig' = [r \in Persisted |-> DurableConfig'[r]]
      BY DEF DurableConfig
<1>4. /\ DurableConfig'["state"] = st
      /\ \A r \in Persisted \ (R \cup {"state"}) : DurableConfig'[r] = DurableConfig[r]
      BY DEF Alters
<1> DEFINE c == DurableConfig
           e == DurableConfig'
<1> SUFFICES /\ R = {} => e = [c EXCEPT !.state = st]
             /\ \A r \in {"serial", "port", "services"} : R = {r} =>
                  e = [c EXCEPT !.state = st, ![r] = e[r]]
             /\ \A r \in {"port", "services"} : R = {r} /\ c["state"] = st =>
                  e = [c EXCEPT ![r] = e[r]]
             /\ \A r \in {"port", "services"} : R \in {{}, {r}} /\ c["state"] = st /\ e[r] = c[r] => e = c
    OBVIOUS
<1>5. /\ DOMAIN c = Persisted /\ DOMAIN e = Persisted
      /\ c = [r \in Persisted |-> c[r]] /\ e = [r \in Persisted |-> e[r]]
      /\ e["state"] = st /\ \A r \in Persisted \ (R \cup {"state"}) : e[r] = c[r]
      BY <1>2, <1>3, <1>4
<1> HIDE DEF c, e
<1> QED BY <1>1, <1>5

(* The operation a last leg has been heading for.                          *)
LEMMA CommitOperates ==
  ASSUME ConfigStable, StaysReset, abandoned \in BOOLEAN, ~abandoned, abandoned' = abandoned, leg.to \in {"init", "active"},
         Heads(leg, DurableConfig, FallbackConfig, DurableConfig'), FallbackConfig' = DurableConfig', Aims(leg),
         wiped' = CASE leg.ev \in {"OnReset", "OnHubResetFinished"} -> TRUE
                    [] leg.ev = "OnFirstSetup" -> FALSE
                    [] OTHER -> wiped
  PROVE  Stable(DurableConfig') /\ StaysReset' /\ [Promise!Next]_(Promise!vars)
<1> DEFINE D == DurableConfig
<1>1. /\ Stable(D)
      /\ wiped /\ FactoryID = None => D["state"] \in {None, "init", "reset"}
      /\ {"state", "serial", "port", "services"} = Persisted
      BY DEF ConfigStable, StaysReset, Persisted
<1>2. /\ \A v \in Serials : v # None
      BY ValuesAssumption
<1>3. None = Promise!None
      BY DEF None, Promise!None
<1>4. Stable(D)
      BY DEF ConfigStable
<1>5. ASSUME D' = D, wiped' = wiped
      PROVE  Stable(D') /\ StaysReset' /\ [Promise!Next]_(Promise!vars)
  <2>1. Stands
        BY <1>5 DEF Stands
  <2> QED BY <2>1, <1>4, <1>5, Promised DEF ConfigStable
<1>6. UNCHANGED abandoned /\ ~abandoned' /\ FallbackConfig' = D'
      OBVIOUS
<1>7. CASE leg.ev = "OnAfterBoot"
  <2>1. /\ D["state"] = leg.to \/ (D["state"] = None /\ leg.to = "init")
        /\ Alters(D, D', leg.to, {}) /\ wiped' = wiped
        BY <1>7 DEF Heads
  <2>2. CASE D["state"] = leg.to
    <3>1. D'["port"] = D["port"]
          BY <2>1, <1>1 DEF Alters
    <3>2. D' = D
          BY <2>1, <2>2, <3>1, AltersIs
    <3> QED BY <2>1, <3>2, <1>5
  <2>3. CASE D["state"] = None /\ leg.to = "init"
    <3>1. D' = [D EXCEPT !.state = "init"]
          BY <2>1, <2>3, AltersIs
    <3>2. Promise!FirstBoot
          BY <2>3, <3>1, <1>3, <1>6 DEF Promise!FirstBoot, Promise!Becomes
    <3>3. D'["state"] = "init" /\ D'["serial"] = D["serial"] /\ D["serial"] = None
          BY <2>1, <2>3, <1>1 DEF Alters, Stable, None
    <3>4. Stable(D') /\ StaysReset'
          BY <3>3, <1>6 DEF Stable, StaysReset, None
    <3> QED BY <3>2, <3>4 DEF Promise!Next
  <2> QED BY <2>1, <2>2, <2>3
<1>8. CASE leg.ev \in {"OnZTPSetupConfig", "OnHubSetPort", "OnHubDeletePort", "OnZTPSetupFinished"}
  <2>1. /\ D["state"] = "init" /\ Alters(D, D', "init", {"port"}) /\ wiped' = wiped
        /\ D'["port"] \in Ports \cup {None}
        BY <1>8 DEF Heads, Aims
  <2>2. D' = [D EXCEPT !.port = D'["port"]]
        BY <2>1, AltersIs
  <2>3. Promise!SetPort
        BY <2>1, <2>2, <1>3, <1>6 DEF Promise!SetPort, Promise!Becomes
  <2>4. D'["state"] = "init" /\ D'["serial"] = D["serial"]
        BY <2>1, <1>1 DEF Alters
  <2>5. Stable(D') /\ StaysReset'
        BY <2>1, <2>4, <1>4, <1>6 DEF Stable, StaysReset, None
  <2> QED BY <2>3, <2>5 DEF Promise!Next
<1>9. CASE leg.ev = "OnFirstSetup"
  <2>1. /\ D["state"] = "init" /\ D["port"] # None /\ D'["state"] = "active" /\ D'["serial"] \in Serials
        /\ D'["port"] \in Ports /\ D'["services"] \in Services /\ wiped' = FALSE
        BY <1>9 DEF Heads
  <2>2. D' = [state |-> "active", serial |-> D'["serial"], port |-> D'["port"], services |-> D'["services"]]
    <3>1. D' = [r \in Persisted |-> D'[r]]
          BY DEF DurableConfig
    <3> DEFINE e == D'
    <3> HIDE DEF e
    <3>2. e = [r \in Persisted |-> e[r]] /\ e["state"] = "active"
          BY <2>1, <3>1 DEF e
    <3>3. e = [state |-> "active", serial |-> e["serial"], port |-> e["port"], services |-> e["services"]]
          BY <3>2 DEF Persisted
    <3> QED BY <3>3 DEF e
  <2>3. Promise!FirstSetup
        BY <2>1, <2>2, <1>3, <1>6 DEF Promise!FirstSetup, Promise!Becomes
  <2>4. Stable(D') /\ StaysReset'
        BY <2>1, <1>2 DEF Stable, StaysReset
  <2> QED BY <2>3, <2>4 DEF Promise!Next
<1>10. CASE leg.ev = "OnMigrateFromOldVersion"
  <2>1. /\ D["state"] \in {None, "init"} /\ FactoryID # None
        /\ Alters(D, D', "active", {"serial"}) /\ D'["serial"] = FactoryID /\ D'["state"] = "active"
        BY <1>10 DEF Heads, Alters
  <2>2. D' = [D EXCEPT !.state = "active", !.serial = FactoryID]
        BY <2>1, AltersIs
  <2>3. Promise!Migrate
        BY <2>1, <2>2, <1>3, <1>6 DEF Promise!Migrate, Promise!Becomes
  <2>4. Stable(D') /\ StaysReset'
        BY <2>1 DEF Stable, StaysReset
  <2> QED BY <2>3, <2>4 DEF Promise!Next
<1>11. CASE leg.ev \in {"OnUpdateConfig", "OnRebuildServices", "OnUpdateConfigFinished"}
  <2>1. /\ D["state"] = "active" /\ wiped' = wiped
        /\ \/ Alters(D, D', "active", {"port"}) /\ D'["port"] \in Ports \cup {D["port"]}
           \/ Alters(D, D', "active", {"services"}) /\ D'["services"] \in Services \cup {D["services"]}
        BY <1>11 DEF Heads, Aims
  <2>2. D'["state"] = "active" /\ D'["serial"] = D["serial"]
        BY <2>1, <1>1 DEF Alters
  <2>3. Stable(D')
        BY <2>1, <2>2, <1>1, <1>4, <1>6 DEF Stable
  <2>4. StaysReset'
        BY <2>1, <2>2, <1>1, <1>4, <1>6 DEF StaysReset, None
  <2>5. D' = D \/ Promise!UpdateConfig
    <3>1. CASE Alters(D, D', "active", {"port"}) /\ D'["port"] \in Ports
      <4>1. D' = [D EXCEPT !.port = D'["port"]]
            BY <2>1, <3>1, AltersIs
      <4> QED BY <2>1, <3>1, <4>1, <1>6 DEF Promise!UpdateConfig, Promise!Becomes
    <3>2. CASE Alters(D, D', "active", {"services"}) /\ D'["services"] \in Services
      <4>1. D' = [D EXCEPT !.services = D'["services"]]
            BY <2>1, <3>2, AltersIs
      <4> QED BY <2>1, <3>2, <4>1, <1>6 DEF Promise!UpdateConfig, Promise!Becomes
    <3>3. CASE Alters(D, D', "active", {"port"}) /\ D'["port"] = D["port"]
          BY <2>1, <3>3, AltersIs
    <3>4. CASE Alters(D, D', "active", {"services"}) /\ D'["services"] = D["services"]
          BY <2>1, <3>4, AltersIs
    <3> QED BY <2>1, <3>1, <3>2, <3>3, <3>4
  <2> QED BY <2>1, <2>3, <2>4, <2>5, <1>5 DEF Promise!Next
<1>12. CASE leg.ev = "OnUpdateDeviceFinished"
  <2>1. /\ wiped' = wiped
        /\ \/ /\ D["state"] = "active" /\ Alters(D, D', "active", {"services"})
              /\ D'["services"] \in {None, D["services"]}
           \/ D["state"] = "maintenance" /\ Alters(D, D', "active", {})
        BY <1>12 DEF Heads
  <2>2. /\ D["state"] \in {"active", "maintenance"} /\ D'["state"] = "active"
        /\ D'["serial"] = D["serial"]
        BY <2>1, <1>1 DEF Alters
  <2>3. Stable(D')
        BY <2>1, <2>2, <1>1, <1>4, <1>6 DEF Stable
  <2>4. StaysReset'
        BY <2>1, <2>2, <1>1, <1>4, <1>6 DEF StaysReset, None
  <2>5. D' = D \/ Promise!UpdatePackages \/ Promise!UpdateFinished
    <3>1. CASE D["state"] = "active" /\ Alters(D, D', "active", {"services"}) /\ D'["services"] = None
      <4>1. D' = [D EXCEPT !.services = D'["services"]]
            BY <3>1, AltersIs
      <4> QED BY <3>1, <4>1, <1>3, <1>6 DEF Promise!UpdatePackages, Promise!Becomes
    <3>2. CASE D["state"] = "active" /\ Alters(D, D', "active", {"services"}) /\ D'["services"] = D["services"]
          BY <3>2, AltersIs
    <3>3. CASE D["state"] = "maintenance" /\ Alters(D, D', "active", {})
      <4>1. D' = [D EXCEPT !.state = "active"]
            BY <3>3, AltersIs
      <4> QED BY <3>3, <4>1, <1>6 DEF Promise!UpdateFinished, Promise!Becomes
    <3> QED BY <2>1, <3>1, <3>2, <3>3
  <2> QED BY <2>1, <2>3, <2>4, <2>5, <1>5 DEF Promise!Next
<1>13. CASE leg.ev = "OnHubResetFinished"
  <2>1. /\ DeviceType = "hub" /\ D["state"] \in {"init", "active"}
        /\ D'["state"] = "init" /\ D'["serial"] = None /\ D'["services"] = None
        /\ D'["port"] = D["port"]
        BY <1>13 DEF Heads
  <2>2. D' = [Promise!Blank("init") EXCEPT !.port = D["port"]]
    <3>1. D' = [r \in Persisted |-> D'[r]]
          BY DEF DurableConfig
    <3> DEFINE e == D'
    <3> HIDE DEF e
    <3>2. e = [r \in Persisted |-> e[r]] /\ e["state"] = "init" /\ e["serial"] = Promise!None
          /\ e["services"] = Promise!None /\ e["port"] = D["port"]
          BY <2>1, <3>1, <1>3 DEF e
    <3> HIDE DEF D
    <3>3. e = [Promise!Blank("init") EXCEPT !.port = D["port"]]
          BY <3>2 DEF Persisted, Promise!Blank
    <3> QED BY <3>3 DEF e, D
  <2>3. Promise!ResetHub
        BY <2>1, <2>2, <1>6 DEF Promise!ResetHub, Promise!Becomes
  <2>4. Stable(D') /\ StaysReset'
        BY <2>1, <1>6 DEF Stable, StaysReset, None
  <2> QED BY <2>3, <2>4 DEF Promise!Next
<1>14. CASE leg.ev = "OnInitFallback"
  <2>1. D["state"] = "reset" /\ Alters(D, D', "init", {})
        BY <1>14 DEF Heads
  <2>2. Blanks(D, "reset") /\ Blanks(D', "init")
        BY <2>1, <1>1 DEF Stable, Blanks, Alters
  <2>3. D = Promise!Blank("reset") /\ D' = Promise!Blank("init")
        BY <2>2, BlankIs
  <2>4. Promise!ResetInterrupted
        BY <2>3, <1>6 DEF Promise!ResetInterrupted, Promise!Becomes
  <2>5. D'["state"] = "init" /\ D'["serial"] = None
        BY <2>2, <1>1 DEF Blanks
  <2>6. Stable(D') /\ StaysReset'
        BY <2>5, <1>6 DEF Stable, StaysReset, None
  <2> QED BY <2>4, <2>6 DEF Promise!Next
<1>15. leg.ev \in {"OnAfterBoot", "OnZTPSetupConfig", "OnHubSetPort", "OnHubDeletePort",
                   "OnZTPSetupFinished", "OnFirstSetup", "OnMigrateFromOldVersion", "OnUpdateConfig",
                   "OnRebuildServices", "OnUpdateConfigFinished", "OnUpdateDeviceFinished",
                   "OnHubResetFinished", "OnInitFallback"}
       BY DEF Heads, Aims
<1> QED BY <1>7, <1>8, <1>9, <1>10, <1>11, <1>12, <1>13, <1>14, <1>15

(* The last leg of a transaction is done.                                  *)
LEMMA CommitAgent ==
  ASSUME AtomicInv, RestInv, PublisherInv, AgentInv, Commit
  PROVE  AgentInv' /\ [Promise!Next]_(Promise!vars)
<1>1. /\ phase = "leg" /\ todo = <<>> /\ FollowUp(leg, dev) = NoTransition /\ phase' = "idle"
      /\ tx' = NoTx /\ sealed' = NoTx /\ UNCHANGED <<dev, leg, todo, abandoned>>
      /\ wiped' = CASE leg.ev \in {"OnReset", "OnHubResetFinished"} -> TRUE
                     [] leg.ev = "OnFirstSetup" -> FALSE
                     [] OTHER -> wiped
      BY DEF Commit
<1>2. leg \in Transitions /\ dev \in Devices /\ Meant(leg) /\ Aims(leg) /\ Settled(leg, dev)
      BY <1>1, SettledIs DEF AtomicInv, TypeOK, RestInv, InLeg, PublisherInv, LegPublishes
<1>3. leg.to \in {"init", "active"} \/ Erasing(leg)
      BY <1>1, <1>2, LastLeg
<1>4. \A r \in Persisted : DurableConfig'[r] = dev[r] /\ FallbackConfig'[r] = DurableConfig'[r]
      BY <1>1, ConfigAt, EmptyFacts
<1>5. FallbackConfig' = DurableConfig'
      BY <1>4, ConfigEqual
<1>6. ASSUME ~abandoned PROVE Wiping \/ (~Erasing(leg) /\ Heads(leg, DurableConfig, FallbackConfig, DurableConfig'))
      BY <1>1, <1>4, <1>6, LegEndsHeading, HeadsAlike
<1>7. EnvApart'
      BY <1>1, RestartEnv DEF AgentInv, EnvApart
<1>8. RestsErased'
  <2>1. ASSUME dev["db"] = "off" PROVE Erasing(leg)
        BY <2>1, <1>1 DEF RestInv, ClosesAtTheEnd
  <2>2. ASSUME Erasing(leg) PROVE dev["active"] = "reset"
        BY <2>2, <1>2 DEF Settled, Watched, Goal, Erasing
  <2>3. ASSUME Erasing(leg), ~abandoned PROVE dev["serial"] = None
        BY <2>3, <1>6 DEF Wiping, Blanks, Persisted
  <2> QED BY <2>1, <2>2, <2>3, <1>1 DEF RestsErased
<1>9. ConfigStable' /\ StaysReset' /\ [Promise!Next]_(Promise!vars)
  <2>1. CASE abandoned
        BY <2>1, <1>1, LostPromised
  <2>2. CASE ~abandoned /\ Wiping
    <3>1. \A r \in Persisted : DurableConfig[r] = dev[r]
          BY <2>2, ConfigAt DEF Wiping
    <3>2. DurableConfig' = DurableConfig
          BY <1>4, <3>1, ConfigEqual
    <3>3. /\ DurableConfig["state"] \in {None, "reset"} /\ FallbackConfig["state"] \in {"init", "active"}
          BY <2>2, <3>1 DEF Wiping, Blanks, BlankState, Persisted
    <3>4. FallbackConfig # DurableConfig
          BY <3>3 DEF None
    <3>5. Promise!Stand
          BY <1>1, <1>5, <3>2, <3>4 DEF Promise!Stand, Promise!Becomes
    <3>6. ConfigStable'
          BY <2>2, <1>1, <1>5, <3>2 DEF AgentInv, ConfigStable
    <3>7. StaysReset'
          BY <1>5, <3>2, <3>3 DEF StaysReset
    <3> QED BY <2>2, <3>5, <3>6, <3>7 DEF Promise!Next
  <2>3. CASE ~abandoned /\ ~Wiping
    <3>1. Stable(DurableConfig') /\ StaysReset' /\ [Promise!Next]_(Promise!vars)
          BY <2>3, <1>1, <1>2, <1>3, <1>5, <1>6, CommitOperates DEF AgentInv, AtomicInv, TypeOK
    <3> QED BY <3>1, <1>5 DEF ConfigStable
  <2> QED BY <2>1, <2>2, <2>3
<1>10. BootsUnlogged' /\ LegSound' /\ LegHeads'
       BY <1>1 DEF BootsUnlogged, LegSound, LegHeads
<1> QED BY <1>7, <1>8, <1>9, <1>10 DEF AgentInv

-----------------------------------------------------------------------------
(* The invariant of the refinement holds at first, and so does what the    *)
(* agent promises of its first configuration.                              *)
LEMMA InitAgent == Init => AgentInv /\ Promise!Init
<1> SUFFICES ASSUME Init PROVE AgentInv /\ Promise!Init
    OBVIOUS
<1>1. /\ dev = FactoryDevice /\ tx = NoTx /\ sealed = NoTx /\ phase = "dangling"
      /\ abandoned = FALSE /\ wiped = FALSE
      BY DEF Init
<1>2. /\ "env" \in Resources /\ "env" \notin Persisted /\ Persisted \subseteq Resources
      /\ {"state", "serial", "port", "services"} = Persisted
      BY DomainFacts DEF Persisted, Resources
<1>3. dev["env"] = FactoryID /\ \A r \in Persisted : dev[r] = None
  <2>1. \A r \in Persisted : FactoryDevice[r] = None
        BY <1>2, DomainFacts DEF FactoryDevice, Persisted, Daemons
  <2>2. FactoryDevice["env"] = FactoryID
        BY <1>2, DomainFacts DEF FactoryDevice, Persisted, Daemons
  <2> QED BY <2>1, <2>2, <1>1
<1>4. \A r \in Persisted : DurableConfig[r] = None /\ FallbackConfig[r] = DurableConfig[r]
      BY <1>1, <1>3, ConfigAt, EmptyFacts
<1>5. FallbackConfig = DurableConfig
      BY <1>4 DEF FallbackConfig, DurableConfig
<1>6. Blanks(DurableConfig, None)
      BY <1>4 DEF Blanks
<1>7. Promise!Init
  <2>1. DurableConfig = Promise!Blank(None)
        BY <1>6, BlankIs
  <2> QED BY <2>1, <1>1, <1>5 DEF Promise!Init, None, Promise!None
<1>8. Stable(DurableConfig)
      BY <1>2, <1>4 DEF Stable, None
<1>9. ConfigStable /\ StaysReset
      BY <1>1, <1>2, <1>4, <1>5, <1>8 DEF ConfigStable, StaysReset
<1>10. EnvApart
      BY <1>1, <1>3, RestartEnv DEF EnvApart
<1> QED BY <1>1, <1>7, <1>9, <1>10 DEF AgentInv, BootsUnlogged, LegSound, LegHeads, RestsErased

(* A process that ends, whatever ends it.                                  *)
LEMMA EndsAgent ==
  ASSUME AgentInv, TypeOK, Crash \/ PowerCycle \/ RebootAfterReset
  PROVE  AgentInv' /\ [Promise!Next]_(Promise!vars)
<1>1. PICK d \in {Restarted(dev), Rebooted(dev)} : Exit(d) /\ UNCHANGED <<abandoned, wiped>>
      BY DEF Crash, PowerCycle, RebootAfterReset
<1>2. d["env"] = dev["env"] /\ \A r \in Persisted : d[r] = dev[r]
      BY RestartEnv, UntouchedConfig
<1> QED BY <1>1, <1>2, ExitAgent

(* Every step keeps the invariant, and is a step the agent may make, or    *)
(* none.                                                                   *)
LEMMA NextAgent ==
  (AtomicInv /\ RestInv /\ PublisherInv /\ AgentInv) /\ [Next]_vars =>
    (AtomicInv /\ RestInv /\ PublisherInv /\ AgentInv)' /\ [Promise!Next]_(Promise!vars)
<1> SUFFICES ASSUME AtomicInv, RestInv, PublisherInv, AgentInv, [Next]_vars
             PROVE  (AtomicInv /\ RestInv /\ PublisherInv /\ AgentInv)' /\ [Promise!Next]_(Promise!vars)
    OBVIOUS
<1>1. (AtomicInv /\ RestInv /\ PublisherInv)'
      BY NextPublisher
<1>2. TypeOK /\ abandoned \in BOOLEAN
      BY DEF AtomicInv, TypeOK
<1>3. CASE RunStep
  <2>1. CASE Accept
        BY <1>1, <2>1, AcceptAgent
  <2>2. CASE Reject
        BY <1>1, <1>2, <2>2, RejectAgent
  <2>3. CASE Step
        BY <1>1, <2>3, StepAgent
  <2>4. CASE CallFails
        BY <1>1, <2>4, CallFailsAgent
  <2>5. CASE Continue
        BY <1>1, <2>5, ContinueAgent
  <2>6. CASE Commit
        BY <1>1, <2>6, CommitAgent
  <2>7. CASE Rollback
        BY <1>1, <2>7, RollbackAgent
  <2>8. CASE BootFails
        BY <1>1, <2>8, BootFailsAgent
  <2>9. CASE RollbackDangling
        BY <1>1, <2>9, DanglingAgent
  <2>10. CASE SetActiveStateFromBoot
        BY <1>1, <2>10, BootAgent
  <2> QED BY <1>3, <2>1, <2>2, <2>3, <2>4, <2>5, <2>6, <2>7, <2>8, <2>9, <2>10 DEF RunStep
<1>4. CASE RollbackDanglingFails
      BY <1>1, <1>2, <1>4, LosesAgent
<1>5. CASE Crash \/ PowerCycle \/ RebootAfterReset
      BY <1>1, <1>2, <1>5, EndsAgent
<1>6. CASE RebootFails \/ DeactivateStarter
      BY <1>1, <1>2, <1>6, LeftBehindAgent
<1>7. CASE \E tr \in Requests : Perform(tr)
      BY <1>1, <1>2, <1>7, PerformAgent
<1>8. CASE UNCHANGED vars
  <2>1. UNCHANGED <<dev, tx, sealed, phase, leg, todo, abandoned, wiped>>
        BY <1>8 DEF vars
  <2> QED BY <1>1, <1>2, <2>1, AsideAgent
<1> QED BY <1>3, <1>4, <1>5, <1>6, <1>7, <1>8 DEF Next

(* What a step of the agent makes of a serial number.                      *)
LEMMA AgentKeepsSerial ==
  ASSUME ConfigStable, [Promise!Next]_(Promise!vars), abandoned \in BOOLEAN, ~abandoned',
         DurableConfig["serial"] # None, DurableConfig'["serial"] # None
  PROVE  DurableConfig'["serial"] = DurableConfig["serial"]
<1> DEFINE c == DurableConfig
           f == FallbackConfig
<1>1. /\ DOMAIN c = Persisted /\ c = [r \in Persisted |-> c[r]]
      /\ {"state", "serial", "port", "services"} = Persisted
      BY DEF DurableConfig, Persisted
<1>2. \A st : Promise!Blank(st)["serial"] = None
      BY DEF Promise!Blank, Promise!None, None
<1>3. CASE Promise!vars' = Promise!vars
      BY <1>3 DEF Promise!vars
<1>4. CASE Promise!Next
  <2>1. ~abandoned
        BY <1>4 DEF Promise!Next, Promise!FirstBoot, Promise!Migrate, Promise!SetPort, Promise!FirstSetup,
            Promise!UpdateConfig, Promise!UpdatePackages, Promise!UpdateAgent, Promise!UpdateFinished,
            Promise!ResetHub, Promise!ResetCPE, Promise!Erase, Promise!ResetInterrupted,
            Promise!TakeBack, Promise!Stand, Promise!LoseRollback, Promise!Anything
  <2>2. c["state"] \in {"active", "maintenance"} /\ c["serial"] = f["serial"]
        BY <2>1 DEF ConfigStable, Stable
  <2>3. \/ Promise!FirstBoot \/ Promise!Migrate \/ Promise!SetPort \/ Promise!FirstSetup
        \/ Promise!UpdateConfig \/ Promise!UpdatePackages \/ Promise!UpdateAgent \/ Promise!UpdateFinished
        \/ Promise!ResetHub \/ Promise!ResetCPE \/ Promise!Erase \/ Promise!ResetInterrupted
        \/ Promise!TakeBack \/ Promise!Stand
        BY <1>4 DEF Promise!Next, Promise!LoseRollback, Promise!Anything
  <2>4. CASE Promise!FirstBoot \/ Promise!Migrate \/ Promise!SetPort \/ Promise!FirstSetup
        BY <2>2, <2>4 DEF Promise!FirstBoot, Promise!Migrate, Promise!SetPort, Promise!FirstSetup, Promise!None
  <2>5. CASE Promise!UpdateConfig \/ Promise!UpdatePackages \/ Promise!UpdateAgent \/ Promise!UpdateFinished
        BY <1>1, <2>5 DEF Promise!UpdateConfig, Promise!UpdatePackages, Promise!UpdateAgent,
            Promise!UpdateFinished, Promise!Becomes, Promise!Starts
  <2>6. CASE Promise!ResetHub
    <3>1. c'["serial"] = Promise!Blank("init")["serial"]
          BY <2>6 DEF Promise!ResetHub, Promise!Becomes, Promise!Blank
    <3> QED BY <3>1, <1>2
  <2>7. CASE Promise!ResetCPE \/ Promise!Erase \/ Promise!ResetInterrupted
        BY <1>2, <2>7 DEF Promise!ResetCPE, Promise!Erase, Promise!ResetInterrupted, Promise!Becomes, Promise!Starts
  <2>8. CASE Promise!TakeBack \/ Promise!Stand
        BY <2>2, <2>8 DEF Promise!TakeBack, Promise!Stand, Promise!Becomes
  <2> QED BY <2>3, <2>4, <2>5, <2>6, <2>7, <2>8
<1> QED BY <1>3, <1>4

(* Between transitions the device is what its durable configuration says.  *)
LEMMA RestsDurable ==
  ASSUME AtomicInv, RestInv, phase = "idle"
  PROVE  /\ \A r \in Persisted : DurableConfig[r] = dev[r]
         /\ dev["db"] \in {"on", "off"} /\ dev["active"] \in AppStates
         /\ dev["db"] = "on" => DurableConfig["state"] = dev["active"]
<1>1. \A r \in Persisted : DurableConfig[r] = dev[r]
      BY ConfigAt, EmptyFacts DEF AtomicInv, RestsClosed
<1>2. dev["db"] \in {"on", "off"} /\ dev["active"] \in AppStates
      BY DomainFacts DEF AtomicInv, TypeOK, Devices, OnOff
<1> QED BY <1>1, <1>2 DEF RestInv, AtRest, Persisted

-----------------------------------------------------------------------------
(* Theorems.                                                               *)

(* The state machine implements the abstract agent: whatever calls the     *)
(* handlers make, and whichever of them fail, are cut short or are taken   *)
(* back, the configuration a restart would come up with only changes as a  *)
(* whole operation on the device changes it.                               *)
THEOREM Implements == Spec => ImplementsAgent
<1>1. Init => (AtomicInv /\ RestInv /\ PublisherInv /\ AgentInv) /\ Promise!Init
      BY InitInv, InitPublisher, InitAgent
<1> QED BY <1>1, NextAgent, PTL DEF Spec, ImplementsAgent, Promise!Spec

(* Between transitions a device has a serial number exactly when it is     *)
(* provisioned: what a first setup or a reset has written of it is taken   *)
(* back with the state, by the process or by the next one.                 *)
THEOREM SerialMatches == Spec => []SerialMatchesState
<1>1. AtomicInv /\ RestInv /\ AgentInv => SerialMatchesState
  <2> SUFFICES ASSUME AtomicInv, RestInv, AgentInv, phase = "idle", ~abandoned
               PROVE  dev["serial"] # None <=> dev["active"] \in {"active", "maintenance"}
      BY DEF SerialMatchesState
  <2>1. CASE dev["db"] = "on"
        BY <2>1, RestsDurable DEF AgentInv, ConfigStable, Stable, Persisted
  <2>2. CASE dev["db"] = "off"
        BY <2>2 DEF AgentInv, RestsErased
  <2> QED BY <2>1, <2>2, RestsDurable
<1>2. Init => AtomicInv /\ RestInv /\ PublisherInv /\ AgentInv
      BY InitInv, InitPublisher, InitAgent
<1> QED BY <1>1, <1>2, NextAgent, PTL DEF Spec

(* No restart comes up with another serial number than the one the device  *)
(* was provisioned with: the setup of a device that is already set up gets *)
(* stuck at its publisher and is taken back.                               *)
THEOREM SerialNeverReplaced == Spec => SerialIsNeverReplaced
<1> DEFINE Holds == ~abandoned' /\ DurableConfig["serial"] # None /\ DurableConfig'["serial"] # None
                      => DurableConfig'["serial"] = DurableConfig["serial"]
<1>1. (AtomicInv /\ AgentInv) /\ [Promise!Next]_(Promise!vars) => [Holds]_vars
      BY AgentKeepsSerial DEF AgentInv, AtomicInv, TypeOK
<1>2. Init => AtomicInv /\ RestInv /\ PublisherInv /\ AgentInv
      BY InitInv, InitPublisher, InitAgent
<1>3. (AtomicInv /\ RestInv /\ PublisherInv /\ AgentInv) /\ [Next]_vars =>
        (AtomicInv /\ RestInv /\ PublisherInv /\ AgentInv)' /\ [Holds]_vars
      BY <1>1, NextAgent
<1> QED BY <1>2, <1>3, PTL DEF Spec, SerialIsNeverReplaced

(* A completed reset is final on a device that no older version had        *)
(* provisioned (an id in agent.env, which a reset may fail to delete,      *)
(* would provision it again).                                              *)
THEOREM ResetFinal ==
  ASSUME FactoryID = None
  PROVE  Spec => []ResetIsFinal
<1>1. AtomicInv /\ RestInv /\ AgentInv => ResetIsFinal
  <2> SUFFICES ASSUME AtomicInv, RestInv, AgentInv, phase = "idle", wiped, ~abandoned
               PROVE  dev["active"] \in {"init", "reset"}
      BY DEF ResetIsFinal
  <2>1. CASE dev["db"] = "on"
        BY <2>1, RestsDurable DEF AgentInv, StaysReset, AppStates, None
  <2>2. CASE dev["db"] = "off"
        BY <2>2 DEF AgentInv, RestsErased
  <2> QED BY <2>1, <2>2, RestsDurable
<1>2. Init => AtomicInv /\ RestInv /\ PublisherInv /\ AgentInv
      BY InitInv, InitPublisher, InitAgent
<1> QED BY <1>1, <1>2, NextAgent, PTL DEF Spec

-----------------------------------------------------------------------------
(* With the mutex of WaitFirstInit the state machine does nothing that it  *)
(* does not do without: what is proved of Spec holds there.                *)
LEMMA FirstInitIsAppState == FirstInitSpec => Spec
<1>1. FirstInitInit => Init
      BY DEF FirstInitInit
<1>2. [FirstInitNext]_fvars => [Next]_vars
      BY DEF FirstInitNext, Run, Environment, BlocksInReport, Next, fvars
<1> QED BY <1>1, <1>2, PTL DEF FirstInitSpec, Spec

(* A Run that may block in WaitFirstInit (deviceinit/service.go:128-141)   *)
(* still implements the abstract agent.                                    *)
THEOREM WaitingImplements == FirstInitSpec => ImplementsAgent
  BY FirstInitIsAppState, Implements
=============================================================================
