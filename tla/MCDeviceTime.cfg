SPECIFICATION TimeSpec
CONSTANTS
  NtpTimeout = 2
  NtpInterval = 3
  Failures = 2
  Recoveries = 2
  ProbeInterval = 2
  Retry = 2
  Wrap = 4
  Devices <- MCDevices
  Years = {2000, 2023, 2024, 2025, 2099, 2100, 2106, 2199}
INVARIANTS
  StoppedClockUntrusted
  OneCalendar
PROPERTIES
  AskedInTime
  TimeGetsRight
  KeepsTrying
