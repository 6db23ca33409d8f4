SPECIFICATION FairSpec
CONSTANTS
  u1 = u1
  u2 = u2
  Users = {u1, u2}
  Methods <- TheMethods
  Messages <- TheMessages
  Mutable = {u1}
  Replies <- TheReplies
  PeerCodes = {"NotFound"}
  Transport = {"conn.ErrConnClosed"}
  MaxCalls = 2
INVARIANTS
  OKIsThisAnswer
  ServersDiagnosisWins
  EveryCallIsCounted
PROPERTIES
  WireIsTheRequest
  RunEnds
CHECK_DEADLOCK FALSE
