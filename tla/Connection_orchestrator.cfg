SPECIFICATION FairSpec
CONSTANTS
  Hosts = {"h1", "h2"}
  Serials = {"s1"}
  AddrLists <- Growing
  StopWaits = TRUE
  MaxSetups = 2
  MaxInits = 1
  MaxEvents = 2
INVARIANTS
  TypeOK
  SerialIsGone
  ActiveIsConnected
  MonitoringSeesConnection
PROPERTIES
  FollowsPrimary
  LeavesSplitBrain
CHECK_DEADLOCK FALSE
