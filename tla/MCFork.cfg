SPECIFICATION Spec
CONSTANTS
  Asks = {a1, a2}
  Convs = {c1}
  Kinds = {"Ask", "AskStream"}
  Absent = Absent
  Torn = Torn
  BridgeEnv = "0"
  NoBridgeEnv = ""
  Serialized = FALSE
INVARIANT LinearThread
CHECK_DEADLOCK FALSE
