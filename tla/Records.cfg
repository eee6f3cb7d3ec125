SPECIFICATION Spec
CONSTANTS
  Writers = {ada, bo, cy}
  Careless = {cy}
  Slugs = {s}
  Items = {i}
  Bodies = {b1, b2}
  NoId = noid
  Core = core
  MaxSeq = 4
  Plans <- MCPlans
  ada = ada
  bo = bo
  cy = cy
  MaxItems = 1
  MaxHistory = 3
INVARIANTS TypeOK   LiveSlugsUnique ReadsOneChain NothingOnAFork 
CHECK_DEADLOCK FALSE
