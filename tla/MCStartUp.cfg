CONSTANTS
  Base = 256
  Devices = {"hackrf", "airspy"}
  Orders <- MCOrders
  Samprate = 192000
  DataAddress <- MCDataAddress
  FullEvery = 1
  QueueSize = 1
  Budgets <- MCBudgets
  Programs = {"packet", "opus"}
  Commands <- MCCommands
  OutRate = 48000
  PcmAddress <- MCPcmAddress
SPECIFICATION StartUpSpec
INVARIANTS
  FilterFits
  FilterAsAsked
PROPERTIES
  NoOvershoot
  AgcSettles
  GainFollows
  ChainComesUp
CHECK_DEADLOCK FALSE
