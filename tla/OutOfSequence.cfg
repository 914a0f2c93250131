CONSTANTS
  key1 = key1
  Servers = {bob1}
  Clients = {alice1}
  SigningKeys = {key1}
  ServerKey <- MCServerKey
  MaxRejected = 1
SPECIFICATION Spec
CHECK_DEADLOCK FALSE
PROPERTIES
  OutOfSequenceAborts
