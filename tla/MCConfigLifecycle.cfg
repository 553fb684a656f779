SPECIFICATION ConfigSpec
CONSTANTS
  Payloads <- MCPayloads
  Schemas <- MCSchemas
  Accepts <- MCAccepts
  RestartOnly <- MCRestartOnly
  MaxMigrations = 1
  Default = "default"
  GenMod = 8
  LoadFaults = {}
  SaveFaults = {"unreadable"}
  MaxMisreads = 1
  MaxWriteFaults = 2
  MaxBoots = 3
  MaxSaves = 2
CHECK_DEADLOCK FALSE
INVARIANTS
  AcknowledgedSurvives
  DriftIsReported
PROPERTIES
  NewerSchemaUntouched
