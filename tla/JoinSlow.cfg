\* ticks of 5 s: receive 10 s, join 15 s, a send at most 5 s
CONSTANTS
  ReceiveTimeout = 2
  JoinTimeout = 3
  MaxDelay = 1
  MaxDrops = 0
SPECIFICATION Spec
CHECK_DEADLOCK FALSE
INVARIANTS
  EmptyErrorsMeansDone
