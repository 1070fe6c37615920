CONSTANTS
  st = st
  db = db
  s1 = s1
  s2 = s2
  b1 = b1
  id1 = id1
  id2 = id2
  id3 = id3
  d1 = d1
  d2 = d2
  notifier = notifier
  c1 = c1
  Storages = {st}
  Target = st
  StorageSpecs = {s1}
  StorageIds = {id1, id2}
  MaxStorageEdits = 2
  Backups = {db}
  BackupSpecs = {b1}
  NoSpec = NoSpec
  DatabaseIds = {d1}
  MaxBackupEdits = 1
  NotifierId = notifier
  NoId = NoId
  Cred = c1
  NoCred = NoCred
  MaxFaults = 1
SPECIFICATION FairSpec
INVARIANTS ConfigNamesStorage
PROPERTIES EventuallyWired LostStorageReported BothDeletionsEnd
CHECK_DEADLOCK FALSE
