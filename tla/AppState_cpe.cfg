SPECIFICATION FirstInitFairSpec
CONSTANTS
  DeviceType = "cpe"
  Serials = {"serial1"}
  Ports = {"port1", "port2"}
  Services = {"services1"}
  FactoryID = "none"
  EmptyCfgClears = FALSE
  MaxQueue = 1
  MaxFaults = 2
INVARIANTS
  TypeOK
  StateIsPersisted
  SubjectsMatchState
  PublisherMatchesState
  RestsInStableState
  SerialMatchesState
  DaemonsMatchState
  ResetIsFinal
PROPERTIES
  ConfigurationIsAtomic
  ImplementsAgent
  ComesToRest
CHECK_DEADLOCK FALSE
