SPECIFICATION FairSpec
CONSTANTS
  Capacity = 3
  TsMod = 16
  Timestamps <- MCFewTimestamps
  MaxChunks = 2
  Producers = {stream, oldStream}
  Flushers = {rtsp}
  Playback = playback
  DeferredFlush = TRUE
  NoSlot = NoSlot
INVARIANTS
  TypeOK
  SlotPartition
  PlayOrder
PROPERTIES
  TokenPerFrame
  BufferedFrameIsPlayed
