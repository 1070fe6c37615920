CONSTANTS
  Names = {n1}
  Specs = {plain, checked}
  Incomplete = {}
  Physical = {}
  Checked = {checked}
  Encrypted = {checked}
  NoSpec = NoSpec
  Ids = {id1, id2}
  DepIds = {dep1}
  NoId = NoId
  Creds = {c1}
  NoCred = NoCred
  MaxEdits = 2
  MaxFaults = 0
  OutOfBand = FALSE
  n1 = n1
  plain = plain
  checked = checked
  broken = broken
  wal = wal
  c1 = c1
  c2 = c2
  id1 = id1
  id2 = id2
  id3 = id3
  dep1 = dep1
  dep2 = dep2
SPECIFICATION Spec
INVARIANTS HealthcheckSynced
CHECK_DEADLOCK FALSE
