SPECIFICATION Spec
CONSTANTS
  Requests <- TheRequests
  Lower <- TheLower
  Identifiers <- TheIdentifiers
  Settings <- TheSettings
  MaxOptions = 2
INVARIANTS
  AcceptedBuilds
  RefusedIsBroken
  EveryCollisionNamed
CHECK_DEADLOCK FALSE
