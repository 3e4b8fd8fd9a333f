CONSTANTS
  Controls = {c1, c2}
  Modes <- MCModes
  Presets <- MCPresets
  FirstMode = "AM"
  NaN = NaN
  Tuners <- MCTuners
  CompleteEvery = 2
  Room = 1
  MaxKeys = 2
  MaxRetunes = 2
  MaxEvents = 3
SPECIFICATION ControlSpec
INVARIANTS
  StepsAddUp
PROPERTIES
  ViewsSettle
