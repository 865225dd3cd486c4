SPECIFICATION FairSpec
CONSTANTS
  SeqMod = 18
  FirstSeq = 15
  Window = 3
  RetryAfter = 1
  Backoff = 2
  Packets = 6
  MaxResets = 1
  Never = Never
INVARIANTS
  WindowInv
  AcceptedOnce
PROPERTIES
  HolesFilled
