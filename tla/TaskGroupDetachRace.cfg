CONSTANTS
  t1 = t1
  t2 = t2
  t3 = t3
  main = main
  Main = main
  Tasks = {t1, t2, t3}
  CoroTasks = {t2}
  GroupSpawners = {main, t1}
  Workers = 3
SPECIFICATION Spec
INVARIANT NoUseAfterFree
