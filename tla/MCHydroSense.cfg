SPECIFICATION Spec
CONSTANTS
  TimeMod = 8
  MaxStall = 2
  StartDelay = 2
  MaxRuntime = 3
  Debounce = 1
  SampleInterval = 2
  SampleCount = 2
  MinValidSamples = 2
  MaxFailedSeries = 2
  Levels <- MCLevels
  LowLevel = 2
  CriticalLevel = 0
  Hysteresis = 2
  RestartDelay = 2
INVARIANTS
  PumpGuarded
PROPERTIES
  TopupRules
  LowWaterServed
