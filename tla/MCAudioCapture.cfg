\* Eight transfers are 40 samples: two and a half times round the ring.
CONSTANTS
  BufferSize = 16
  Decimate = 2
  Blocksize = 3
  Transfer = 5
  MaxTransfers = 8
  AudioSize = 16
  Frame = 3
  MaxCaptured = 36
SPECIFICATION CaptureSpec
INVARIANTS
  StampedUnlessLate
  FramesAsCaptured
PROPERTIES
  NextCallbackMakesGood
CHECK_DEADLOCK FALSE
