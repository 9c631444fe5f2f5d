CONSTANTS
  t1 = t1
  t2 = t2
  t3 = t3
  main = main
  Main = main
  Tasks = {t1, t2}
  CoroTasks = {}
  GroupSpawners = {main, t1}
  Workers = 2
SPECIFICATION Spec
INVARIANT NoChildOutlivesGroup
