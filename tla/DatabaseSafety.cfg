CONSTANTS
  Names = {n1}
  Specs = {plain, checked, broken, wal}
  Incomplete = {broken}
  Physical = {wal}
  Checked = {checked}
  Encrypted = {checked, broken, wal}
  NoSpec = NoSpec
  Ids = {id1, id2}
  DepIds = {dep1}
  NoId = NoId
  Creds = {c1}
  NoCred = NoCred
  MaxEdits = 2
  MaxFaults = 1
  OutOfBand = TRUE
  n1 = n1
  plain = plain
  checked = checked
  broken = broken
  wal = wal
  c1 = c1
  c2 = c2
  id1 = id1
  id2 = id2
  id3 = id3
  dep1 = dep1
  dep2 = dep2
SPECIFICATION Spec
INVARIANTS TypeOK RecordedDatabaseRemoved SyncedPipeline PartialFailureKeepsId PhysicalNeverPushed
PROPERTIES IdStable Implements
CHECK_DEADLOCK FALSE
