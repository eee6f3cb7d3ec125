SPECIFICATION Spec
CONSTANTS
  Docs = {d1, d2}
  Paths = {p1}
  Texts = {blank, t1}
  Handles = {1, 2, 3, 4}
  Blank = blank
  NoText = none
  Other = other
  Torn = torn
  MaxInputs = 6
  MaxForeign = 1
  MaxFaults = 1
INVARIANTS TypeOK FilesAreWhole  RetainedStaysOpen
PROPERTIES SaveReplacesWhatItRead  
SYMMETRY DocSymmetry
CHECK_DEADLOCK FALSE
