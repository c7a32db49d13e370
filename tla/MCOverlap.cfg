SPECIFICATION FairSpec
CONSTANTS
  Asks = {1, 2, 3}
  Convs = {c1, c2}
  Kinds = {"Ask", "AskStream"}
  Absent = Absent
  Torn = Torn
  BridgeEnv = ""
  NoBridgeEnv = ""
  Serialized = FALSE
ACTION_CONSTRAINT Bounded
INVARIANTS
  TypeOK
  NoJunkThread
  ConversationIsolation
  NoForgottenTurn
PROPERTY EveryAskReturns
CHECK_DEADLOCK FALSE
