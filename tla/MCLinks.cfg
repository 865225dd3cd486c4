SPECIFICATION LinksFairSpec
CONSTANTS
  Scripts <- MCScripts
  RTSP_BUFFER_INITIAL = 4
  RTSP_BUFFER_LARGE = 6
  RTSP_ENCRYPTED_BLOCK_MAX = 2
  MaxTimeouts = 2
  AccessPoints = {p}
  NoLock = none
  AP_REENABLE_THRESHOLD = 2
  MaxInits = 2
  MaxEvents = 1
  RINGBUF_SIZE = 4
  RINGBUF_PREFETCH = 2
  MaxLinks = 3
INVARIANTS
  LinksInv
  ChannelInv
PROPERTIES
  AllAnswered
  Reconnects
  MonitorFollows
  SoundComes
  JackSettles
CHECK_DEADLOCK FALSE
