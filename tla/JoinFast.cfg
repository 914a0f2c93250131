\* ticks of half a second: receive 10 s, join 15 s, a send at most 0.5 s
CONSTANTS
  ReceiveTimeout = 20
  JoinTimeout = 30
  MaxDelay = 1
  MaxDrops = 1
SPECIFICATION Spec
CHECK_DEADLOCK FALSE
INVARIANTS
  JoinTypeOK
  JoinsOutlast
  ErrorsExplained
