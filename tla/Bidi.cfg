SPECIFICATION FairSpec
CONSTANTS
  g1 = g1
  g2 = g2
  g3 = g3
  NoG = NoG
  G <- ThreeGoroutines
  Shape = "bidi"
  Roles <- TwoPrivate
  CodecFaults = {}
  PrivRecv = {g1}
  PrivSend = {g3}
  MaxMsgs = 1
  MaxCredit = 0
INVARIANT NoSendRace
PROPERTIES
  CloseReturns
  CloseWakesSenders
  CloseReleases
