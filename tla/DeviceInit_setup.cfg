SPECIFICATION FairSpec
CONSTANTS
  Requests = {"init1", "init2", "init3"}
  MaxSetups = 2
INVARIANTS
  TypeOK
  ReportIsReceived
  SetupIsInitialised
PROPERTIES
  InstallsWhileAwaited
  RequestIsConcluded
CHECK_DEADLOCK FALSE
