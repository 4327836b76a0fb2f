SPECIFICATION Spec
CONSTANTS
  FQDNs = {"orch", "reserve"}
  IPs = {"ip1", "ip2"}
  Foreign = {"localhost", "ipv6"}
  AddrLists <- Lists
  Answers <- TwoAnswers
  FirstFiles <- Files
  MaxChanges = 5
PROPERTIES
  SyncsEntries
  KeepsForeignLines
  SecondSyncIsQuiet
CHECK_DEADLOCK FALSE
