SPECIFICATION Spec
CONSTANTS
  Identity = {c1, c2}
  NoClient = NoClient
  DUMMY_SESSION_ID = 99
  MaxSessions = 3
  InboundBound = 2
  OutboundBound = 2
SYMMETRY ClientSymmetry
INVARIANTS
  TypeOK
  TablesAgree
  OwnResponses
