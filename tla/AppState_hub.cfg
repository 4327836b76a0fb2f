\* A hub upgraded from an old version, whose agent.env still names it.
SPECIFICATION HubSpec
CONSTANTS
  DeviceType = "hub"
  Serials = {"serial1", "serial2"}
  Ports = {"port1"}
  Services = {"services1"}
  FactoryID = "serial1"
  EmptyCfgClears = TRUE
  MaxQueue = 2
  MaxFaults = 2
PROPERTIES
  ImplementsAgent
  SerialIsNeverReplaced
