SPECIFICATION Spec
CONSTANTS
  g1 = g1
  g2 = g2
  g3 = g3
  NoG = NoG
  G <- TwoGoroutines
  Shape = "server"
  Roles <- AnyRoleTwo
  CodecFaults = {"eof"}
  PrivRecv = {}
  PrivSend = {}
  MaxMsgs = 2
  MaxCredit = 0
SYMMETRY SymTwo
INVARIANT NoFalseOK
