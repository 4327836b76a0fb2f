SPECIFICATION FairSpec
CONSTANTS
  Updates = {"agent", "other"}
  AgentUpdates = {"agent"}
  MaxFaults = 3
INVARIANTS
  TypeOK
  SuccessIsInstalled
PROPERTIES
  UpdateIsReported
  ReturnsToActive
CHECK_DEADLOCK FALSE
