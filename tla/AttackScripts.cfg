CONSTANTS
  bob1 = bob1
  bob2 = bob2
  alice1 = alice1
  alice2 = alice2
  key1 = key1
  key2 = key2
  Servers = {bob1, bob2}
  Clients = {alice1, alice2}
  SigningKeys = {key1, key2}
  ServerKey <- MCServerKey
  Peer <- MCPeer
  First = bob1
  Second = bob2
  MinSampleBytes = 32
  MaxRejected = 0
  MaxFaults = 2
SPECIFICATION AttackSpec
CHECK_DEADLOCK FALSE
INVARIANTS
  AttackTypeOK
  BlockedMeansRejected
PROPERTIES
  AttacksBlocked
