SPECIFICATION FairSpec
CONSTANTS
  Ports = {1, 2}
  Scenarios <- Senders
INVARIANTS
  SessionInv
  SenderHeard
PROPERTIES
  OneFeeder
  DecoderKept
  Answered
CHECK_DEADLOCK FALSE
