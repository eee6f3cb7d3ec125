CONSTANTS
  past = past
  first = first
  second = second
  left = left
  right = right
  one = one
  two = two
  Sessions <- JustFirst
  Earlier = {}
  Tabs <- TwoTabs
  Ids <- TwoIds
  Texts = {"draft", "saved"}
  NoText = "none"
  NoId = NoId
  QueueSize = 1
  PendingLimit = 1
  DeferLimit = 2
  MaxRecords = 2
  MaxSteps = 4
  MaxFaults = 1
  MaxTimeouts = 0
SPECIFICATION FairSpec
INVARIANTS
  AcceptedCopySurvives
PROPERTIES
  AcceptedIsWritten
  CallsReturn
CHECK_DEADLOCK FALSE
