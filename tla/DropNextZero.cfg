CONSTANTS
  alice = alice
  bob = bob
  Endpoints = {alice, bob}
  Dest <- MCDest
  Hooks = {"drop_next"}
  DropNext = 0
  Long = 1
  Short = 1
  MaxSends <- MCMaxSends
  MaxReceives = 1
  MaxCalls = 1
SPECIFICATION Spec
CHECK_DEADLOCK FALSE
INVARIANTS
  DropNextSignals
