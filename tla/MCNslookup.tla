----------------------------- MODULE MCNslookup -----------------------------
(* Nslookup for TLC: the instances are in Nslookup_*.cfg. *)
EXTENDS Nslookup

Http == [scheme |-> "http", fqdn |-> "orch"]
Https == [scheme |-> "https", fqdn |-> "orch"]
Reserve == [scheme |-> "https", fqdn |-> "reserve"]
Lists == {<<Https>>, <<Https, Reserve>>, <<Reserve>>, <<Http, Https>>}

TwoAnswers == {<<"ip1">>, <<"ip2">>, <<"ip1", "ip2">>, <<"ip2", "ip1">>}
OneAnswer == {<<"ip1">>, <<"ip2">>}

(* As the system came, and with an entry an administrator has made. *)
Files == {<<Text("localhost"), Blank, Text("ipv6")>>,
          <<Text("localhost"), [ip |-> "ip1", fqdn |-> "orch"], Text("ipv6")>>}
=============================================================================
