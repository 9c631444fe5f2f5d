SPECIFICATION Spec
CONSTANTS
  w1 = w1  w2 = w2  main = main  c1 = c1  c2 = c2  c3 = c3
  a1 = a1  a2 = a2  b1 = b1  b2 = b2  d1 = d1
  NoCall = NoCall
  Workers = {w1, w2}
  Callers = {main}
  Calls = {c1, c2, c3}
  Tasks = {a1, a2, b1, b2, d1}
  BranchesOf <- SmallCalls
  Programs <- BothPools
  Endless = {b1}
INVARIANTS
  TypeOK
  RemainingExact
  JoinBarrier
  NoLostWakeup
PROPERTY
  EveryCallJoins
