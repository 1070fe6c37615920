CONSTANTS
  p1 = p1
  p2 = p2
  pw1 = pw1
  pw2 = pw2
  w1 = w1
  w2 = w2
  a = a
  b = b
  Processes = {p1, p2}
  Passwords = {pw1, pw2}
  NoPassword = NoPassword
  Workspaces = {w1, w2}
  WorkspaceNames = {a, b}
  Unset = Unset
  Lists <- MCLists
  LeaderElect = TRUE
  MaxEdits = 1
  MaxFaults = 2
SPECIFICATION FairSpec
INVARIANTS TypeOK WorkspaceAsNamed
PROPERTIES OneLeaderInTheEnd EventuallyActive
CHECK_DEADLOCK FALSE
