SPECIFICATION DeviceSpec
CONSTANTS
  Volumes = {v}
  UNITY = u
  Gains = {g}
  NoGains = ng
  Emitters = {e1, e2}
  MaxEqs = 1
  Boxes = {l, r}
  MaxRestarts = 1
  StoredValues = {"a", "b"}
  RtspTasks = {t1, t2}
  MaxStores = 3
  MaxPowerCuts = 2
  LOG_RING_SIZE = 3
  MAX_WS_CLIENTS = 3
  MAX_SEND_CHUNK = 1
  Fds = {f1, f2, f3}
  MaxLines = 4
  MaxOpens = 4
  TsMod = 16
  Timestamps <- MCTimestamps
  MaxCount = 5
INVARIANTS
  DeviceInv
  FlashInv
  PowerFollows
  FoundPlace
CHECK_DEADLOCK FALSE
