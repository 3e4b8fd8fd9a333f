CONSTANTS
  SeqMod = 16
  TimeMod = 64
  Streams = {1}
  Frames <- MCFrames
  Bits <- MCBits
  Sends <- MCSends
  PacketBits = 16
  BlockBits = 20
  Window = 16
  MaxTroubles = 1
  Ax <- MCAx
  MaxDigi = 10
  MaxInfo = 256
  SocketSize = 2
  SendBuffer = 1
  MaxOutages = 1
SPECIFICATION AprsSpec
INVARIANTS
  FramesInOrder
  OutageCostsBuffer
  ServerGetsFrames
PROPERTY
  NothingWaitsForEver
CHECK_DEADLOCK FALSE
