SPECIFICATION Spec
CONSTANTS
  l1 = l1
  l2 = l2
  old = old
  Absent = Absent
  Logins = {l1, l2}
  Readers = {p1}
  Size <- MCSize
  Shapes = {0, 11}
  MaxSessions = 2
INVARIANTS
  NoSelfInflictedFailure
  SavedSessionIntact
  LoadsOneToken
CHECK_DEADLOCK FALSE
