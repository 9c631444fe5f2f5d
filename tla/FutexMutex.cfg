SPECIFICATION Spec
CONSTANTS
  m1 = m1
  m2 = m2
  b1 = b1
  Threads = {t1, t2, t3, t4}
  Mutexes = {m1, m2}
  Buckets = {b1}
  BucketFor <- OneBucket
  MaxRounds = 1
  NoThread = NoThread
INVARIANTS
  TypeOK
  MutualExclusion
  NoLostWakeup
  FlagMatchesHolder
PROPERTIES
  EveryWaiterEnters
  ImplementsLock
