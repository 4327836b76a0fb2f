\* A device upgraded from an old version, whose agent.env still names it.
SPECIFICATION Spec
CONSTANTS
  DeviceType = "cpe"
  Serials = {"serial1"}
  Ports = {"port1"}
  Services = {"services1"}
  FactoryID = "serial1"
  EmptyCfgClears = TRUE
  MaxQueue = 1
  MaxFaults = 1
INVARIANT ResetIsFinal
CHECK_DEADLOCK FALSE
