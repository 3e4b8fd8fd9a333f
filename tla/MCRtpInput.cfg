\* Radio joins two packets before the sequence number wraps and four before the
\* timestamp does.
CONSTANTS
  SeqMod = 6
  TimeMod = 24
  PacketSize = 3
  BlockSize = 4
  MaxStep = 4
  Window = 2
  MaxGap = 1
  Joined = 4
  MaxSent = 6
  MaxRun = 1
  MaxCopies = 1
SPECIFICATION Spec
INVARIANTS
  SampleClock
  FilterInPlace
PROPERTIES
  NoRepeat
CHECK_DEADLOCK FALSE
