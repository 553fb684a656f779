SPECIFICATION Spec
CONSTANTS
  Plans <- MCPlans
  Capacity = 1
  Alarms = {"leak", "warm"}
  Latching = {"leak"}
  AlarmFault = {"leak"}
  AlarmLocks = {"leak"}
  OtherSays <- MCSays
  ProvidersListed = {TRUE, FALSE}
INVARIANTS
  GatesHold
  EventsTell
PROPERTIES
  AlarmHeld
  LifeSpec
