CONSTANTS
  alice = alice
  bob = bob
  Endpoints = {alice, bob}
  Dest <- MCDest
  Hooks = {"drop", "drop_next", "duplicate", "modify"}
  DropNext = 1
  Long = 2
  Short = 1
  MaxSends <- MCMaxSends
  MaxReceives = 4
  MaxCalls = 2
SPECIFICATION Spec
CHECK_DEADLOCK FALSE
INVARIANTS
  SimTypeOK
  Accounted
  SenderOrder
  DropNextExact
  CapturedAsSent
PROPERTIES
  HookWindow
