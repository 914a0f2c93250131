CONSTANTS
  key1 = key1
  Servers = {bob1, bob2}
  Clients = {alice1, alice2}
  SigningKeys = {key1}
  ServerKey <- MCServerKey
  MaxRejected = 1
SPECIFICATION Spec
SYMMETRY Symmetry
CHECK_DEADLOCK FALSE
INVARIANTS
  TypeOK
  PhaseOK
  FactsOK
  ClientRevealsToCommitted
  ServerRevealsToCommitted
  ClientKeyConfirmed
  ServerEstablishedMatched
PROPERTIES
  FailedStaysFailed
  AgreementSpec
