SPECIFICATION FairSpec
CONSTANTS
  MaxCommands = 1
  MaxReports = 1
PROPERTIES
  EveryCommandReturns
CHECK_DEADLOCK FALSE
