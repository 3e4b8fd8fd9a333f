CONSTANTS
  SeqMod = 16
  TimeMod = 32
  Streams <- MCStreams
  Freqs = {7, 14}
  PacketSize = 2
  Base = 29
  MaxNames = 2
  Duration = 6
  MaxSent <- MCSent
  MaxNet = 2
  MaxTroubles = 1
  MaxRuns = 2
  BlockSize = 3
  Interval = 2
  DefaultRate = 96000
  MaxFiles = 2
  MaxCommands = 1
  MaxReports = 4
SPECIFICATION Spec
INVARIANTS
  OwnSamples
  WholeIfUndisturbed
  ReplayKeepsTime
  HearerKnows
PROPERTIES
  RecordingsStay
CHECK_DEADLOCK FALSE
