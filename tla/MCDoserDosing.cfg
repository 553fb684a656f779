SPECIFICATION Spec
CONSTANTS
  PumpCount = 2
  DayLen = 9
  Week = 2
  Ahead = 1
  LastTime = 26
  Window = 6
  Gap = 1
  MaxRun = 2
  MaxStall = 2
  Doses = {0, 1, 2}
  Minutes = {1, 8}
  DaySets <- MCDaySets
  Refill = 3
  Jumps <- MCJumps
  Schedules <- MCSchedules
  Eight = 1
  TestConfig <- MCTestConfig
  OldConfig <- MCOldConfig
  OldRuntime <- MCOldRuntime
  MaxEvents = 2
INVARIANTS
  DriverAgrees
  NothingMissed
  RecordsKept
PROPERTIES
  DoseNotRepeated
CHECK_DEADLOCK FALSE
