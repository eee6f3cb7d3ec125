CONSTANTS
  alice = alice
  bob = bob
  note = note
  text = text
  other = other
  Deleted = Deleted
  Writers <- TwoWriters
  Readers <- JustAlice
  Docs = {note}
  Contents = {text}
  MaxSeq = 2
  MaxOps = 3
  MaxDenials = 1
  MaxParents = 2
  MaxEpoch = 1
  FirstEpoch <- Founders
  Tolerant = FALSE
SPECIFICATION FairSpec
PROPERTIES
  EventuallySeen
