------------------------------ MODULE Nslookup ------------------------------
(***************************************************************************)
(* SyncHosts: the names of the orchestrator's hosts are resolved and kept  *)
(* in a section of /etc/hosts, at every start of the agent and with an     *)
(* update of the App section.  Nobody calls it twice at once; the admin,   *)
(* the name service and the configuration change between two calls.        *)
(*                                                                         *)
(* A line of the file is blank, the comment that starts the section, an    *)
(* entry (an address and a name), or foreign.                              *)
(***************************************************************************)
EXTENDS Naturals, FiniteSets, Sequences, SequencesExt

CONSTANTS
  FQDNs,       \* names of orchestrator hosts
  IPs,         \* their addresses
  Foreign,     \* lines that belong to others
  AddrLists,   \* lists of OrchestratorAddrs: sequences of [scheme, fqdn]
  Answers,     \* what the name service may say: sequences of addresses
  FirstFiles,  \* /etc/hosts before the first start
  MaxChanges   \* bound: changes between two calls, and calls

(* A line that is no entry has no name.                                    *)
None == "none"
Text(line) == [ip |-> line, fqdn |-> None]
HostPairs == [ip : IPs, fqdn : FQDNs]
ForeignLines == {Text(f) : f \in Foreign}
Blank == Text("")
SdwanSection == Text("# SDWAN: generated section")
Lines == HostPairs \cup ForeignLines \cup {Blank, SdwanSection}

ASSUME AnswersAssumption == Answers \subseteq Seq(IPs)
ASSUME ChangesAssumption == MaxChanges \in Nat

VARIABLES
  filesFirst, \* does the resolver look into /etc/hosts before it asks?
  file,     \* the lines of /etc/hosts; a line is its first two words
  addrs,    \* OrchestratorAddrs of the configuration
  dns,      \* the answer for each name; none is an error
  last,     \* history: what the last call that succeeded has resolved
  changes   \* history: steps so far

vars == <<filesFirst, file, addrs, dns, last, changes>>

-----------------------------------------------------------------------------
EntriesOf(lines, names) == {line \in ToSet(lines) : line.fqdn \in names}
ForeignOf(lines) == SelectSeq(lines, LAMBDA line : line \in ForeignLines)

(* A name that stands in the file is answered from there.                  *)
LookupIP(name) ==
  LET found == SelectSeq(file, LAMBDA line : line.fqdn = name)
  IN IF filesFirst /\ found # <<>> THEN [i \in DOMAIN found |-> found[i].ip] ELSE dns[name]

(* The schemes of the addresses are dropped: http and https of a host are  *)
(* the same name, and it is resolved twice.                                *)
Names == {addrs[i].fqdn : i \in DOMAIN addrs}
NewHosts ==
  FlattenSeq([i \in DOMAIN addrs |->
    LET ips == LookupIP(addrs[i].fqdn)
    IN [j \in DOMAIN ips |-> [ip |-> ips[j], fqdn |-> addrs[i].fqdn]]])

ExistingHosts == EntriesOf(file, Names)

(* Mutant: what follows the comment is dropped. *)
DropsSection ==
  LET section == SelectInSeq(file, LAMBDA line : line = SdwanSection)
  IN IF section = 0 THEN file ELSE SubSeq(file, 1, section - 1)

(* Lines of others, and entries of names that are not in the configuration.*)
KeptLines == SelectSeq(file, LAMBDA line : line # SdwanSection /\ line \notin ExistingHosts)

(* Mutants: only the numbers are compared; the order counts. *)
ChangesInNumber == Cardinality(ExistingHosts) # Len(NewHosts)
ChangesInOrder == SelectSeq(file, LAMBDA line : line \in ExistingHosts) # NewHosts

HasChanges ==
  \/ Cardinality(ExistingHosts) # Len(NewHosts)
  \/ ExistingHosts \ ToSet(NewHosts) # {}

Resolves == addrs # <<>> /\ \A i \in DOMAIN addrs : LookupIP(addrs[i].fqdn) # <<>>

-----------------------------------------------------------------------------
Step == changes < MaxChanges /\ changes' = changes + 1

(* Nothing to resolve, a name that cannot be resolved, or nothing new: the *)
(* file is left as it is.                                                  *)
SyncHosts ==
  /\ Step
  /\ file' = IF Resolves /\ HasChanges
             THEN KeptLines \o <<Blank, SdwanSection>> \o NewHosts
             ELSE file
  /\ last' = IF Resolves THEN NewHosts ELSE last
  /\ UNCHANGED <<filesFirst, addrs, dns>>

(* The agent dies in os.WriteFile after it has truncated the file.         *)
TornSync ==
  /\ Step /\ Resolves /\ HasChanges
  /\ file' = <<>> /\ last' = <<>>
  /\ UNCHANGED <<filesFirst, addrs, dns>>

(* First setup, InitDevice or reset.                                       *)
Configure ==
  /\ Step
  /\ addrs' \in AddrLists \cup {<<>>}
  /\ UNCHANGED <<filesFirst, file, dns, last>>

NameServiceChanges ==
  /\ Step
  /\ \E name \in FQDNs, answer \in Answers \cup {<<>>} : dns' = [dns EXCEPT ![name] = answer]
  /\ UNCHANGED <<filesFirst, file, addrs, last>>

EditHosts ==
  /\ Step
  /\ \E text \in Foreign : file' = Append(file, Text(text))
  /\ UNCHANGED <<filesFirst, addrs, dns, last>>

Init ==
  /\ filesFirst \in BOOLEAN /\ file \in FirstFiles /\ addrs = <<>> /\ dns \in [FQDNs -> Answers]
  /\ last = <<>> /\ changes = 0

Next == SyncHosts \/ TornSync \/ Configure \/ NameServiceChanges \/ EditHosts

Spec == Init /\ [][Next]_vars

-----------------------------------------------------------------------------
(* Properties.                                                             *)

(* After a call that could resolve every name the file holds, for the names*)
(* of the configuration, exactly the addresses that were found, whatever   *)
(* was in it before (service.go:127-152).                                  *)
SyncsEntries ==
  [][SyncHosts /\ Resolves => EntriesOf(file', Names) = ToSet(NewHosts)]_vars

(* The lines of others survive every call, in their order (service.go:117).*)
KeepsForeignLines == [][SyncHosts => ForeignOf(file') = ForeignOf(file)]_vars

(* A call that finds what the last one found, in any order, does not touch *)
(* the file, unless a host was resolved twice (service.go:127-140).        *)
SecondSyncIsQuiet ==
  [][SyncHosts /\ Resolves /\ ToSet(NewHosts) = ToSet(last) /\ IsInjective(NewHosts)
     /\ EntriesOf(file, Names) = ToSet(last) => file' = file]_vars
=============================================================================
