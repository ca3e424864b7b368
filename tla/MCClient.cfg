SPECIFICATION FairSpec
CONSTANTS
  MaxCommands = 4
  MaxReports = 4
INVARIANTS
  TypeOK
  AnswersBehind
  OneLateDatagram
PROPERTIES
  ReceiveReturns
CHECK_DEADLOCK FALSE
