SPECIFICATION Spec
CONSTANTS
  Keys = {"api_version", "ask", "auth_csrf"}
  UnsyncedKeys = {"auth_csrf"}
  EnvKeys = {"ask"}
  v1 = v1
  v2 = v2
  Values = {v1, v2, v3}
  Embedded <- MCEmbedded
  Env <- MCEnv
  Empty = Empty
  Absent = Absent
  Invalid = Invalid
  MaxEdits = 3
INVARIANTS
  ManualOverridesSurvive
  WroteMeansEffective
CHECK_DEADLOCK FALSE
