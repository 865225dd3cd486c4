SPECIFICATION FairSpec
CONSTANTS
  a = a
  b = b
  Masters = {a, b}
  Senders = {a, b}
  NoMaster = none
  NoSender = none
  Offset <- MCOffset
  Clock <- MCClock
  Delays = {0, 4}
  OUTLIER_THRESHOLD = 10
  MIN_SAMPLES_FOR_LOCK = 2
  SMOOTH_POS_STEADY_DIV = 2
  SMOOTH_NEG_DIV = 4
  SMOOTH_NEG_CLAMP = 4
  Dispersions = {0, 2}
  TIMING_HISTORY_SIZE = 2
  MIN_MEASUREMENTS = 2
  MaxRequests = 3
INVARIANTS
  ClocksInv
  LockedIsRight
PROPERTIES
  Locks
CHECK_DEADLOCK FALSE
