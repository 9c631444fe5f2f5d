SPECIFICATION Spec
CONSTANTS
  Containers <- MCContainers
  Bodies <- MCBodies
  Names <- MCNames
  Entry <- MCEntry
  Keys <- MCKeys
  Wide = {"let_query", "assign_m", "log_m", "let_else"}
  Deep = {}
INVARIANTS SerialEquivalence
CHECK_DEADLOCK FALSE
