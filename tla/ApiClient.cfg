CONSTANTS
  Contents = {old, new}
  Absent = Absent
  MaxFaults = 3
  old = old
  new = new
SPECIFICATION FairSpec
INVARIANTS TypeOK ResultIsTruth
PROPERTIES DeleteEnds
CHECK_DEADLOCK FALSE
