CONSTANTS
  t1 = t1
  t2 = t2
  t3 = t3
  main = main
  Main = main
  Tasks = {t1, t2, t3}
  CoroTasks = {t3}
  GroupSpawners = {main}
  Workers = 3
SPECIFICATION Spec
INVARIANT TypeOK
INVARIANT FreedByOne
INVARIANT NoUseAfterFree
INVARIANT DetachedReclaimed
INVARIANT NoChildOutlivesGroup
PROPERTY GroupDropReturns
