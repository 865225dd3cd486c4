SPECIFICATION FairSpec
CONSTANTS
  a = a
  b = b
  c = c
  Clients <- ThreeClients
  Scenarios <- Served
  NoClient = NoClient
INVARIANTS
  ServerInv
PROPERTIES
  GraceKeepsSession
  StoppedClientGoes
CHECK_DEADLOCK FALSE
