CONSTANTS
  Ids = {i1, i2, i3}
  NULL = NULL
  r1 = r1
  r2 = r2
  Receivers = {r1, r2}
  Streams <- MCStreams
  Heard <- MCHeard
  MaxPackets = 3
  MaxDeletes = 2
  Asked = {0, 1}
  MaxDelay = 1
  MaxLost = 1
  MaxArrivals = 6
  SeqMod = 28
  TimeMod = 32
SPECIFICATION ReceiverSpec
INVARIANTS
  ReceiversSound
PROPERTIES
  EveryPacketTaken
CHECK_DEADLOCK FALSE
