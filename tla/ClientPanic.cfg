SPECIFICATION Spec
CONSTANTS
  g1 = g1
  g2 = g2
  g3 = g3
  NoG = NoG
  G <- TwoGoroutines
  Shape = "client"
  Roles <- AnyRoleTwo
  CodecFaults = {"panic"}
  PrivRecv = {}
  PrivSend = {}
  MaxMsgs = 2
  MaxCredit = 1
SYMMETRY SymTwo
INVARIANT NoFalseOK
