CONSTANTS
  bob1 = bob1
  alice1 = alice1
  key1 = key1
  Servers = {bob1}
  Clients = {alice1}
  SigningKeys = {key1}
  ServerKey <- MCServerKey
  Peer <- MCPeer
  Hooks = {"drop", "drop_next", "duplicate", "modify"}
  DropNext = 1
  MaxRejected = 0
  MaxCalls = 2
  MaxFaults = 20
SPECIFICATION NetSpec
CHECK_DEADLOCK FALSE
INVARIANTS
  MatchingConversations
  SomebodyGoesOn
PROPERTIES
  LiveRefined
