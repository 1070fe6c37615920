CONSTANTS
  n1 = n1
  s1 = s1
  s2 = s2
  c1 = c1
  id1 = id1
  id2 = id2
  id3 = id3
  Names = {n1}
  Specs = {s1}
  Incomplete = {}
  NoRef = {s1}
  OneRef = {}
  Ids = {id1, id2}
  NoId = NoId
  Creds = {}
  NoCred = NoCred
  MaxEdits = 2
  MaxFaults = 1
  OutOfBand = FALSE
SPECIFICATION Spec
INVARIANTS RecordedRowRemoved
PROPERTIES Implements
CHECK_DEADLOCK FALSE
