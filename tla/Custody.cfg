SPECIFICATION Spec
CONSTANTS
  Logs = {left, right}
  NoFile = nofile
  Torn = torn
  None = none
  KeepNewest = 1
  MaxOps = 1
  MaxEpochs = 2
  MaxStops = 1
  MaxSaves = 2
INVARIANTS TypeOK MarkerIsTrue
PROPERTIES PrunedIsCovered CustodyNeverGoesBack
SYMMETRY Members
CHECK_DEADLOCK FALSE
