SPECIFICATION Spec
CONSTANTS
  PumpCount = 2
  DayLen = 9
  Week = 2
  Ahead = 1
  LastTime = 26
  Window = 6
  Gap = 1
  MaxRun = 5
  MaxStall = 2
  Doses = {0, 1, 2}
  Minutes = {1, 8}
  DaySets <- MCDaySets
  Refill = 3
  Jumps <- MCJumps
  Schedules <- MCSchedules
  Eight = 1
  TestConfig <- MCTestConfig
  OldConfig <- MCOldConfig
  OldRuntime <- MCOldRuntime
  MaxEvents = 1
INVARIANTS
  ManualDoseMetered
CHECK_DEADLOCK FALSE
