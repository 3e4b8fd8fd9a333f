\* Silence of 4 samples is more than a frame and less than half of TimeMod.
CONSTANTS
  SeqMod = 6
  TimeMod = 16
  PacketMax = 3
  BlockLen = 4
  FrameSize = 2
  ResetFrames = 1
  Discontinuous = TRUE
  Window = 2
  MaxGap = 1
  MaxBlocks = 3
  MaxSilence = 4
  MaxCopies = 1
  MaxFailures = 1
SPECIFICATION Spec
INVARIANTS
  FramesSound
PROPERTIES
  GapIsSilence
CHECK_DEADLOCK FALSE
