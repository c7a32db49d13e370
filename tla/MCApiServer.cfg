SPECIFICATION FairSpec
CONSTANTS
  Reqs = {r1, r2}
  Inputs <- MCInputs
  ConvIds = {"default", "mine"}
  ApiKey = key
  key = key
  wrong = wrong
  Flusher = TRUE
  MaxLogins = 2
  MaxChunks = 2
  Absent = Absent
INVARIANTS
  OneConversationPerId
  WellFormedStream
PROPERTY InterruptStops
CHECK_DEADLOCK FALSE
