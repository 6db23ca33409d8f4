SPECIFICATION Spec
CONSTANTS
  g1 = g1
  g2 = g2
  g3 = g3
  NoG = NoG
  G <- ThreeGoroutines
  Shape = "client"
  Roles <- AnyRole
  CodecFaults = {"error"}
  PrivRecv = {}
  PrivSend = {}
  MaxMsgs = 2
  MaxCredit = 1
SYMMETRY SymThree
INVARIANTS
  TypeOK
  NoRecvRace
  NoFalseOK
  ExactlyOneResponse
PROPERTIES
  AnswerIsNotLost
  ImplementsContract
