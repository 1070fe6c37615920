CONSTANTS
  Names = {n1}
  Specs = {s1}
  Incomplete = {}
  NoRef = {}
  OneRef = {}
  Ids = {id1, id2}
  NoId = NoId
  Creds = {c1}
  NoCred = NoCred
  MaxEdits = 2
  MaxFaults = 0
  OutOfBand = FALSE
  n1 = n1
  n2 = n2
  s1 = s1
  s2 = s2
  broken = broken
  c1 = c1
  c2 = c2
  id1 = id1
  id2 = id2
  id3 = id3
SPECIFICATION Spec
INVARIANTS CleanupBeforeRemoval
CHECK_DEADLOCK FALSE
