CONSTANTS
  alice = alice
  bob = bob
  Endpoints = {alice, bob}
  Dest <- MCDest
  Hooks = {"duplicate"}
  DropNext = 1
  Long = 1
  Short = 1
  MaxSends <- MCMaxSends
  MaxReceives = 1
  MaxCalls = 1
SPECIFICATION Spec
CHECK_DEADLOCK FALSE
INVARIANTS
  CopiesAfterOriginal
