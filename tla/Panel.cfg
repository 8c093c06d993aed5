SPECIFICATION Spec
CONSTANTS
  Devices = {a, b}
  Formats = {motion, profile}
  Profile = profile
  MaxRequests = 3
SYMMETRY Symmetry
INVARIANTS ApplyHasBaseline QuitIsQuiet
CHECK_DEADLOCK FALSE
