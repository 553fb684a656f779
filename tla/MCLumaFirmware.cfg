SPECIFICATION Spec
CONSTANTS
  Profiles = {"blue", "green"}
  DefaultProfile = "blue"
  ServiceProfile = "green"
  Standard = 2
  Night = 2
  Brief = 2
  Entry = 2
  TestLimit = 2
  SimulationLength = 2
  Levels = {"low", "high"}
  ManualLimits = {0, 2}
  MaxNested = 2
  NumChannels = 2
  Faults <- MCFaults
  Photoperiods <- MCPhotoperiods
  Lights <- MCLights
  NightLight = 5
  Readings = {0, 1, 43200, 86398, 86399}
INVARIANTS
  LitByCore
  ClockRunsSmoothly
PROPERTIES
  ModeSpec
  Smooth
  SessionsEnd
CHECK_DEADLOCK FALSE
