CONSTANTS
  alice = alice
  bob = bob
  note = note
  text = text
  other = other
  Deleted = Deleted
  Writers <- TwoWriters
  Readers <- TwoWriters
  Docs = {note}
  Contents = {text}
  MaxSeq = 2
  MaxOps = 3
  MaxDenials = 0
  MaxParents = 2
  MaxEpoch = 2
  FirstEpoch <- AliceLate
  Tolerant = TRUE
SPECIFICATION Spec
INVARIANTS
  TolerantProjects
