SPECIFICATION Spec
CONSTANTS
  Messages <- MCMessages
  MaxMessages = 3
  MaxLogins = 2
  Bridge = "auto"
INVARIANTS
  AnsweredInOrder
  CallsPaidFor
  NoStaleSession
CHECK_DEADLOCK FALSE
