CONSTANTS
  past = past
  first = first
  second = second
  left = left
  right = right
  one = one
  two = two
  Sessions <- JustFirst
  Earlier = {}
  Tabs <- OneTab
  Ids <- TwoIds
  Texts = {"draft", "saved"}
  NoText = "none"
  NoId = NoId
  QueueSize = 1
  PendingLimit = 2
  DeferLimit = 1
  MaxRecords = 2
  MaxSteps = 4
  MaxFaults = 1
  MaxTimeouts = 1
SPECIFICATION Spec
INVARIANTS
  AcceptedCopyIsKept
CHECK_DEADLOCK FALSE
