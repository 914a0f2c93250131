CONSTANTS
  bob1 = bob1
  bob2 = bob2
  alice1 = alice1
  alice2 = alice2
  key1 = key1
  Servers = {bob1}
  Clients = {alice1}
  SigningKeys = {key1}
  ServerKey <- MCServerKey
  Peer <- MCPeer
  MaxRejected = 0
  MaxFaults = 3
SPECIFICATION LiveSpec
CHECK_DEADLOCK FALSE
INVARIANTS
  QuietMeansAgreed
  DoneMeansConfirmed
  NoFalseAlarm
PROPERTIES
  ThreadsEnd
  Completes
  SessionSpec
