CONSTANTS
  Freqs <- MCFreqs
  LO2s <- MCLO2s
  TopFreq = 60
  Samprate = 12
  MaxIF = 6
  Low <- MCLow
  High = 1
  DirectConversion = TRUE
  Quantum = 2
  FullEvery = 1
  FirstLO1 = 22
  QueueSize = 2
  MaxCommands = 3
  MaxOthers = 1
SPECIFICATION Spec
INVARIANTS
  SettledMeansTuned
  ChosenInBand
PROPERTIES
  Settles
