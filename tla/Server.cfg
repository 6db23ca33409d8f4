SPECIFICATION Spec
CONSTANTS
  g1 = g1
  g2 = g2
  g3 = g3
  NoG = NoG
  G <- ThreeGoroutines
  Shape = "server"
  Roles <- AnyRole
  CodecFaults = {"error", "panic"}
  PrivRecv = {}
  PrivSend = {}
  MaxMsgs = 2
  MaxCredit = 0
SYMMETRY SymThree
INVARIANTS
  NoRecvRace
  NoRecvAfterClose
  NothingHeldWhenIdle
  IteratorCloseDoesNotWait
  NoFalseOK
  VerdictIsKept
PROPERTY ImplementsContract
