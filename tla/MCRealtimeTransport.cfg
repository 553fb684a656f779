SPECIFICATION Spec
CONSTANTS
  Slots = {1, 2}
  Works = {1}
  Fds = {1, 2}
  MaxChanges = 2
  MaxDials = 2
  MaxFaults = 1
PROPERTIES PlacesReturn StreamSpec
