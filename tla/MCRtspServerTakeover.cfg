SPECIFICATION Spec
CONSTANTS
  a = a
  b = b
  c = c
  Clients <- ThreeClients
  Scenarios <- Takeover
  NoClient = NoClient
PROPERTIES
  NewSessionKept
CHECK_DEADLOCK FALSE
