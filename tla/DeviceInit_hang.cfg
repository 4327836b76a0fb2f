SPECIFICATION FairSpec
CONSTANTS
  Requests = {"init1", "init2"}
  MaxSetups = 2
PROPERTY FirstSetupEnds
CHECK_DEADLOCK FALSE
