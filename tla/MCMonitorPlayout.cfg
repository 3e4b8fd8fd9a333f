CONSTANTS
  SeqMod = 8
  TimeMod = 128
  RingSize = 8
  Playout = 2
  Frames = 3
  PacketSize = 2
  FirstSeq = 7
  FirstStamp = 125
  Window = 2
  Silences <- MCSilences
  MaxSilence = 3
  MaxPackets = 3
  MaxCallbacks = 4
  MaxResets = 1
SPECIFICATION PlayoutSpec
INVARIANTS
  PlayedWhenDue
PROPERTIES
  SteadyClock
CHECK_DEADLOCK FALSE
