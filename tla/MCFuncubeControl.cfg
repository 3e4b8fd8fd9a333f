CONSTANTS
  QueueLimit = 0
  Vendor = "fcd"
  Products = {"pro", "proplus"}
  OtherDevices <- MCOthers
  Packets <- MCPackets
  HoldChoices = {TRUE, FALSE}
  MaxTries = 2
  FirstSetting <- MCFirst
  Settings <- MCSettings
  MaxPasses = 2
  MaxTroubles = 2
SPECIFICATION Spec
INVARIANTS
  StatusTrue
  FreedIsIdle
PROPERTIES
  ReadEnds
  CloseEnds
CHECK_DEADLOCK FALSE
