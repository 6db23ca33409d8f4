SPECIFICATION Spec
CONSTANTS
  x = x
  c1 = c1
  c2 = c2
  c3 = c3
  c4 = c4
  c5 = c5
  NoCall = NoCall
  Callers = {x}
  Calls <- TheCalls
  Face <- TheFaces
  Kind <- TheKinds
  CodecFaults <- Everywhere
  MaxStreams = 2
INVARIANT NothingLeftBehind
