SPECIFICATION FairSpec
CONSTANTS
  x = x
  c1 = c1
  c2 = c2
  c3 = c3
  c4 = c4
  c5 = c5
  NoCall = NoCall
  Callers = {x}
  Calls <- TheCalls
  Face <- TheFaces
  Kind <- TheKinds
  CodecFaults <- OnlyUnary
  MaxStreams = 2
INVARIANTS
  TypeOK
  NothingLeftBehind
  OwnRequestOnTheWire
  GuardFollowsCall
  EagerHeader
PROPERTIES
  ConstructorReturns
  NotWedged
