SPECIFICATION Spec
CONSTANTS
  Sessions = {s1, s2}
  Remote = remote
  Texts = {a, b, c}
  NoText = notext
  First = a
  a = a
  b = b
  c = c
  s1 = s1
  s2 = s2
  Clip <- MCClip
  Typed <- MCTyped
  Clippers = {s2}
  MaxVersions = 3
  MaxFaults = 1
INVARIANTS TypeOK   TextFitsToken RevisionNamesText ChangeIsAnnounced
CHECK_DEADLOCK FALSE
