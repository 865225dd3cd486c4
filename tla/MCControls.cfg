SPECIFICATION ControlsSpec
CONSTANTS
  DEBOUNCE = 1
  DOUBLE_CLICK = 3
  REPEAT_DELAY = 4
  REPEAT_INTERVAL = 2
  LONG_PRESS = 6
  ACTION_QUEUE_LEN = 2
  MaxEdges = 6
  Chords = {{}, {"POWER"}, {"POWER", "PLAY"}, {"MODE", "VOL_DOWN"}}
  LONG_PRESS_POLLS = 2
  COMBO_HOLD_POLLS = 3
  MULTI_PRESS_POLLS = 1
  VOL_REPEAT_POLLS = 1
  DacpSenders = {a, b}
  NoId = no
  CMD_QUEUE_LEN = 2
  MaxSessions = 3
  VOLUME_MIN = 0
  VOLUME_MAX = 3
  VOLUME_DEFAULT = 1
  VOLUME_STEP = 1
  NotLoaded = 99
  MaxPresses = 3
  MaxAsks = 4
  BT_TASK_QLEN = 3
  MAX_VOLUME = 3
  VOLUME_UNIT = 2
  BOOT_VOLUME = 1
  MaxChanges = 4
  StatusMode <- MCStatusMode
  RgbMode <- MCRgbMode
  HasErrorLed = TRUE
  MaxLedCalls = 2
  Texts = {"a", "b"}
  MAX_LISTENERS = 4
  Builds <- MCBuilds
  TsWrap = 3
  TrackLength = 2
  MaxNotices = 2
  MaxSeconds = 1
INVARIANTS
  ControlsInv
  TokenToItsSender
  Renewed
  PowerOffIsDeliberate
CHECK_DEADLOCK FALSE
