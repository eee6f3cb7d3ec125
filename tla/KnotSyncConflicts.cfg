CONSTANTS
  alice = alice
  bob = bob
  note = note
  text = text
  other = other
  Deleted = Deleted
  Writers <- TwoWriters
  Readers <- JustAlice
  Docs = {note}
  Contents = {text, other}
  MaxSeq = 3
  MaxOps = 4
  MaxDenials = 0
  MaxParents = 2
  MaxEpoch = 1
  FirstEpoch <- Founders
  Tolerant = FALSE
SPECIFICATION Spec
INVARIANTS
  TypeOK
  HistoryIsCausal
  FoldMatchesHistory
  NoSilentLoss
PROPERTIES
  NoResurrection
