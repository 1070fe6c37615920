CONSTANTS
  Names = {n1}
  Specs = {s1, s2, broken}
  Incomplete = {broken}
  NoRef = {}
  OneRef = {s2}
  Ids = {id1, id2, id3}
  NoId = NoId
  Creds = {c1, c2}
  NoCred = NoCred
  MaxEdits = 2
  MaxFaults = 1
  OutOfBand = TRUE
  n1 = n1
  n2 = n2
  s1 = s1
  s2 = s2
  broken = broken
  c1 = c1
  c2 = c2
  id1 = id1
  id2 = id2
  id3 = id3
SPECIFICATION FairSpec
PROPERTIES EventuallyConverged DeletionCompletes
CHECK_DEADLOCK FALSE
