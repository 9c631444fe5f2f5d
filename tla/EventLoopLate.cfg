SPECIFICATION Spec
CONSTANTS
  c1 = c1  c2 = c2  w1 = w1  z1 = z1
  f1 = f1  f2 = f2  f3 = f3  s1 = s1  s2 = s2
  Coros = {c1, c2}
  Callers = {w1}
  Sleepers = {z1}
  Fds = {f1, f2, f3}
  Shards = {s1, s2}
  Programs = {{c1}}
  Route <- MixedRoute
  ShardOf <- MixedShards
  Stray <- OwnStray
  None = None
  MaxTime = 1
INVARIANT
  LateAccessLive
CHECK_DEADLOCK FALSE
