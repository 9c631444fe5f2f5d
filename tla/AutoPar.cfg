SPECIFICATION Spec
CONSTANTS
  Containers <- MCContainers
  Bodies <- MCBodies
  Names <- MCNames
  Entry <- MCEntry
  Keys <- MCKeys
  Wide <- EveryKind
  Deep = {"let_alloc", "let_of_a", "update_k1", "assign_m", "log_m", "fetch", "report"}
INVARIANTS TypeOK SerialEquivalence FreedOnce GroupsIndependent SparseIsDense EdgesExplained ReorderSound
CHECK_DEADLOCK FALSE
