SPECIFICATION WireSpec
CONSTANTS
  a = a
  b = b
  c = c
  e = e
  u1 = u1
  u2 = u2
  uuid1 = uuid1
  Absent = Absent
  Frames <- MCFrames
  MaxFrames = 8
  MaxAny = 4
  Streaming = TRUE
  Truth <- MCTruth
  Shapes = {"blocks"}
  EarlyDone = FALSE
  DoneIsLast = FALSE
INVARIANTS
  AnswerIsLatest
  AnswerUpToDate
  DeltasReproduceAnswer
PROPERTY CitationsStay
CHECK_DEADLOCK FALSE
