CONSTANTS
  past = past
  first = first
  second = second
  left = left
  right = right
  one = one
  two = two
  Sessions <- TwoAndPast
  Earlier <- Past
  Tabs <- OneTab
  Ids <- TwoIds
  Texts = {"draft", "saved"}
  NoText = "none"
  NoId = NoId
  QueueSize = 1
  PendingLimit = 2
  DeferLimit = 1
  MaxRecords = 2
  MaxSteps = 3
  MaxFaults = 0
  MaxTimeouts = 1
SYMMETRY Interchangeable
SPECIFICATION Spec
INVARIANTS
  TypeOK
  OneHolder
  ClearedStaysCleared
  AcceptedCopySurvives
PROPERTIES
  LiveCopiesAreProtected
CHECK_DEADLOCK FALSE
