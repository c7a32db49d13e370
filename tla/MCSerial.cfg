SPECIFICATION Spec
CONSTANTS
  Asks = {a1, a2, a3}
  Convs = {c1}
  Kinds = {"Ask"}
  Absent = Absent
  Torn = Torn
  BridgeEnv = ""
  NoBridgeEnv = ""
  Serialized = TRUE
SYMMETRY Symmetric
INVARIANTS
  LinearThread
PROPERTY ThreadSpec
CHECK_DEADLOCK FALSE
