-------------------------- MODULE FutexMutexProofs --------------------------
(***************************************************************************)
(* Proofs about FutexMutex, for any set of threads, any number of lock     *)
(* words and buckets and any hash from one to the other.                   *)
(***************************************************************************)
EXTENDS FutexMutex, TLAPS

\* Bucket.mtx is really held by the thread whose code is inside it.
BucketOwned ==
  \A t \in Threads : pc[t] \in InBucket => bucketLock[BucketOf(t)] = t

\* The inductive invariant.  MutualExclusion needs FlagMatchesHolder (a swap
\* that returns 0 has no rival), and NoLostWakeup needs BucketOwned (no thread
\* is about to park while another is inside unlock_wake of the same bucket).
IInv ==
  /\ TypeOK
  /\ FlagMatchesHolder
  /\ MutualExclusion
  /\ BucketOwned
  /\ NoLostWakeup

USE BucketForAssumption, MaxRoundsAssumption, NoThreadAssumption

\* The initial state satisfies the inductive invariant.
LEMMA InitIInv == Init => IInv
  BY DEF Init, IInv, TypeOK, FlagMatchesHolder, MutualExclusion, BucketOwned,
         NoLostWakeup, Holds, PCs, Blocked, InBucket

\* Every step keeps each variable in its type.
LEMMA TypeStep == TypeOK /\ [Next]_vars => TypeOK'
<1> SUFFICES ASSUME TypeOK, [Next]_vars PROVE TypeOK'
  OBVIOUS
<1> USE DEF TypeOK, PCs, Blocked, Goto, BucketOf
<1>1. ASSUME NEW t \in Threads, NEW m \in Mutexes, FastAcquire(t, m) PROVE TypeOK'
  BY <1>1 DEF FastAcquire
<1>2. ASSUME NEW t \in Threads, Release(t) PROVE TypeOK'
  BY <1>2 DEF Release
<1>3. ASSUME NEW t \in Threads, Swap(t) PROVE TypeOK'
  BY <1>3 DEF Swap
<1>4. ASSUME NEW t \in Threads, LockBucket(t) PROVE TypeOK'
  BY <1>4 DEF LockBucket, TakeBucket
<1>5. ASSUME NEW t \in Threads, LoadFlag(t) PROVE TypeOK'
  BY <1>5 DEF LoadFlag
<1>6. ASSUME NEW t \in Threads, CvWait(t) PROVE TypeOK'
  BY <1>6 DEF CvWait
<1>7. ASSUME NEW t \in Threads, CvReturn(t) PROVE TypeOK'
  BY <1>7 DEF CvReturn
<1>8. ASSUME NEW t \in Threads, SwapUnderBucket(t) PROVE TypeOK'
  BY <1>8 DEF SwapUnderBucket
<1>9. ASSUME NEW t \in Threads, LockBucketToWake(t) PROVE TypeOK'
  BY <1>9 DEF LockBucketToWake, TakeBucket
<1>10. ASSUME NEW t \in Threads, NotifyAll(t) PROVE TypeOK'
  BY <1>10 DEF NotifyAll
<1>11. ASSUME NEW t \in Threads, SpuriousWake(t) PROVE TypeOK'
  BY <1>11 DEF SpuriousWake
<1>12. ASSUME Finished \/ UNCHANGED vars PROVE TypeOK'
  BY <1>12 DEF Finished, vars
<1>13. QED
  BY <1>1, <1>2, <1>3, <1>4, <1>5, <1>6, <1>7, <1>8, <1>9, <1>10, <1>11, <1>12
  DEF Next, Step

\* The flag of a mutex stays in step with its holders, and the holder unique:
\* a thread enters only when it found the flag 0, and 0 means no holder.
LEMMA HolderStep ==
  IInv /\ [Next]_vars => FlagMatchesHolder' /\ MutualExclusion'
<1> SUFFICES ASSUME IInv, [Next]_vars PROVE FlagMatchesHolder' /\ MutualExclusion'
  OBVIOUS
<1>t. TypeOK'
  BY TypeStep DEF IInv
<1> USE <1>t DEF IInv, TypeOK, FlagMatchesHolder, MutualExclusion, Holds, Goto
<1> DEFINE Goal == FlagMatchesHolder' /\ MutualExclusion'
<1>1. ASSUME NEW t \in Threads, NEW m \in Mutexes, FastAcquire(t, m) PROVE Goal
  <2>1. CASE flag[m] = 0
    BY <1>1, <2>1 DEF FastAcquire
  <2>2. CASE flag[m] # 0
    BY <1>1, <2>2 DEF FastAcquire
  <2>3. QED
    BY <2>1, <2>2
<1>2. ASSUME NEW t \in Threads, Release(t) PROVE Goal
  BY <1>2 DEF Release
<1>3. ASSUME NEW t \in Threads, Swap(t) PROVE Goal
  BY <1>3 DEF Swap
<1>4. ASSUME NEW t \in Threads, SwapUnderBucket(t) PROVE Goal
  BY <1>4 DEF SwapUnderBucket
<1>5. ASSUME NEW t \in Threads,
             \/ LockBucket(t) \/ LoadFlag(t) \/ CvWait(t) \/ CvReturn(t)
             \/ LockBucketToWake(t) \/ SpuriousWake(t)
      PROVE  Goal
  BY <1>5 DEF LockBucket, TakeBucket, LoadFlag, CvWait, CvReturn,
              LockBucketToWake, SpuriousWake
<1>6. ASSUME NEW t \in Threads, NotifyAll(t) PROVE Goal
  BY <1>6 DEF NotifyAll
<1>7. ASSUME Finished \/ UNCHANGED vars PROVE Goal
  BY <1>7 DEF Finished, vars
<1>8. QED
  BY <1>1, <1>2, <1>3, <1>4, <1>5, <1>6, <1>7 DEF Next, Step

\* Bucket.mtx is held by the thread inside it after every step.
LEMMA BucketStep == IInv /\ [Next]_vars => BucketOwned'
<1> SUFFICES ASSUME IInv, [Next]_vars PROVE BucketOwned'
  OBVIOUS
<1>t. TypeOK'
  BY TypeStep DEF IInv
<1> USE <1>t DEF IInv, TypeOK, BucketOwned, InBucket, BucketOf, Goto
<1>1. ASSUME NEW t \in Threads, NEW m \in Mutexes, FastAcquire(t, m)
      PROVE  BucketOwned'
  BY <1>1 DEF FastAcquire
<1>2. ASSUME NEW t \in Threads, Release(t) \/ Swap(t) PROVE BucketOwned'
  BY <1>2 DEF Release, Swap
<1>3. ASSUME NEW t \in Threads, SwapUnderBucket(t) PROVE BucketOwned'
  BY <1>3 DEF SwapUnderBucket
<1>4. ASSUME NEW t \in Threads, LockBucket(t) \/ LockBucketToWake(t)
      PROVE  BucketOwned'
  BY <1>4 DEF LockBucket, LockBucketToWake, TakeBucket
<1>5. ASSUME NEW t \in Threads, LoadFlag(t) \/ CvReturn(t) \/ SpuriousWake(t)
      PROVE  BucketOwned'
  BY <1>5 DEF LoadFlag, CvReturn, SpuriousWake
<1>6. ASSUME NEW t \in Threads, CvWait(t) PROVE BucketOwned'
  BY <1>6 DEF CvWait
<1>7. ASSUME NEW t \in Threads, NotifyAll(t) PROVE BucketOwned'
  BY <1>7 DEF NotifyAll
<1>8. ASSUME Finished \/ UNCHANGED vars PROVE BucketOwned'
  BY <1>8 DEF Finished, vars
<1>9. QED
  BY <1>1, <1>2, <1>3, <1>4, <1>5, <1>6, <1>7, <1>8 DEF Next, Step

\* No step strands a sleeper: a release of a contended flag leaves a waker
\* behind, and notify_all runs when nobody of the bucket is about to park.
LEMMA WakeupStep == IInv /\ [Next]_vars => NoLostWakeup'
<1> SUFFICES ASSUME IInv, [Next]_vars PROVE NoLostWakeup'
  OBVIOUS
<1>t. TypeOK'
  BY TypeStep DEF IInv
<1> USE <1>t DEF IInv, TypeOK, NoLostWakeup, WakePending, BucketOf, Goto
<1>1. ASSUME NEW t \in Threads, NEW m \in Mutexes, FastAcquire(t, m)
      PROVE  NoLostWakeup'
  BY <1>1 DEF FastAcquire
<1>2. ASSUME NEW t \in Threads, Release(t) PROVE NoLostWakeup'
  <2> SUFFICES ASSUME NEW u \in Threads, pc'[u] \in {"sleep", "parked"}
               PROVE  flag'[target'[u]] = 2 \/ WakePending(target[u])'
    BY DEF NoLostWakeup
  <2>1. u # t /\ pc[u] \in {"sleep", "parked"} /\ target'[u] = target[u]
    BY <1>2 DEF Release
  <2>2. CASE flag[target[u]] = 2 /\ target[u] = target[t]
    BY <1>2, <2>1, <2>2 DEF Release
  <2>3. CASE flag[target[u]] = 2 /\ target[u] # target[t]
    BY <1>2, <2>1, <2>3 DEF Release
  <2>4. CASE WakePending(target[u])
    BY <1>2, <2>1, <2>4 DEF Release
  <2>5. QED
    BY <2>1, <2>2, <2>3, <2>4
<1>3. ASSUME NEW t \in Threads, Swap(t) \/ SwapUnderBucket(t) PROVE NoLostWakeup'
  BY <1>3 DEF Swap, SwapUnderBucket
<1>4. ASSUME NEW t \in Threads, LockBucket(t) \/ LockBucketToWake(t)
      PROVE  NoLostWakeup'
  BY <1>4 DEF LockBucket, LockBucketToWake, TakeBucket
<1>5. ASSUME NEW t \in Threads,
             LoadFlag(t) \/ CvWait(t) \/ CvReturn(t) \/ SpuriousWake(t)
      PROVE  NoLostWakeup'
  BY <1>5 DEF LoadFlag, CvWait, CvReturn, SpuriousWake
<1>6. ASSUME NEW t \in Threads, NotifyAll(t) PROVE NoLostWakeup'
  <2> SUFFICES ASSUME NEW u \in Threads, pc'[u] \in {"sleep", "parked"}
               PROVE  flag'[target'[u]] = 2 \/ WakePending(target[u])'
    BY DEF NoLostWakeup
  <2>1. /\ u # t /\ pc'[u] = pc[u] /\ target' = target /\ flag' = flag
        /\ ~(pc[u] = "parked" /\ BucketOf(u) = BucketOf(t))
    BY <1>6 DEF NotifyAll
  <2>2. BucketOf(u) # BucketOf(t)
    BY <1>6, <2>1 DEF NotifyAll, BucketOwned, InBucket
  <2>3. CASE flag[target[u]] = 2
    BY <2>1, <2>3
  <2>4. CASE WakePending(target[u])
    BY <1>6, <2>1, <2>2, <2>4 DEF NotifyAll
  <2>5. QED
    BY <2>1, <2>3, <2>4
<1>7. ASSUME Finished \/ UNCHANGED vars PROVE NoLostWakeup'
  BY <1>7 DEF Finished, vars
<1>8. QED
  BY <1>1, <1>2, <1>3, <1>4, <1>5, <1>6, <1>7 DEF Next, Step

\* The invariant of the whole protocol holds in every reachable state.
THEOREM Invariance == Spec => []IInv
<1>1. IInv /\ [Next]_vars => IInv'
  <2> SUFFICES ASSUME IInv, [Next]_vars PROVE IInv'
    OBVIOUS
  <2>1. TypeOK'
    BY TypeStep DEF IInv
  <2>2. QED
    BY <2>1, HolderStep, BucketStep, WakeupStep DEF IInv
<1>2. QED
  BY InitIInv, <1>1, PTL DEF Spec

\* The flag is 0, 1 or 2 and every thread is in a known control state.
THEOREM TypeCorrect == Spec => []TypeOK
  BY Invariance, PTL DEF IInv

\* No two threads are ever inside `lock` blocks of the same mutex, whichever of
\* compile_lock_block and parking::lock let each of them in.
THEOREM MutexSafe == Spec => []MutualExclusion
  BY Invariance, PTL DEF IInv

\* A thread parked in parking::lock always has a release yet to come that will
\* notify its bucket, however the lock words hash to buckets.
THEOREM WakeupNeverLost == Spec => []NoLostWakeup
  BY Invariance, PTL DEF IInv

\* The flag a thread finds tells whether the mutex is held, whoever wrote it: an
\* inline exchange or a waiter woken in the parking lot.
THEOREM FlagTruthful == Spec => []FlagMatchesHolder
  BY Invariance, PTL DEF IInv

\* With a unique holder, the owner of the refinement mapping is that holder.
LEMMA OwnerIsHolder ==
  ASSUME MutualExclusion, NEW m \in Mutexes, NEW t \in Threads, Holds(t, m)
  PROVE  OwnerOf(m) = t
BY DEF MutualExclusion, OwnerOf

\* A mutex nobody holds has no owner.
LEMMA FreeHasNoOwner ==
  ASSUME NEW m \in Mutexes, \A t \in Threads : ~Holds(t, m)
  PROVE  OwnerOf(m) = NoThread
BY DEF OwnerOf

\* Holders are all the mapping looks at.
LEMMA OwnerUnchanged ==
  ASSUME NEW m \in Mutexes, \A t \in Threads : Holds(t, m)' <=> Holds(t, m)
  PROVE  OwnerOf(m)' = OwnerOf(m)
<1>1. CASE \E t \in Threads : Holds(t, m)
  BY <1>1 DEF OwnerOf
<1>2. CASE ~ \E t \in Threads : Holds(t, m)
  BY <1>2 DEF OwnerOf
<1>3. QED
  BY <1>1, <1>2

\* A step that takes mutex m for thread t is the abstract Acquire.
LEMMA AcquireRefines ==
  ASSUME IInv, MutualExclusion', NEW t \in Threads, NEW m \in Mutexes,
         flag[m] = 0, Holds(t, m)',
         \A u \in Threads, n \in Mutexes :
           n # m => (Holds(u, n)' <=> Holds(u, n))
  PROVE  Lock!Acquire(t, m)
<1>1. OwnerOf(m) = NoThread
  BY FreeHasNoOwner DEF IInv, FlagMatchesHolder
<1>2. OwnerOf(m)' = t
  BY DEF OwnerOf, MutualExclusion
<1>3. \A n \in Mutexes : n # m => OwnerOf(n)' = OwnerOf(n)
  BY OwnerUnchanged
<1>4. QED
  BY <1>1, <1>2, <1>3 DEF Lock!Acquire, Owners

\* The step that swaps the flag of m to 0 is the abstract Release.
LEMMA ReleaseRefines ==
  ASSUME IInv, TypeOK', MutualExclusion', FlagMatchesHolder',
         NEW t \in Threads, NEW m \in Mutexes, m = target[t], Release(t)
  PROVE  Lock!Release(t, m)
<1>1. OwnerOf(m) = t
  BY OwnerIsHolder DEF IInv, Release, Holds
<1>2. flag'[m] = 0
  BY DEF IInv, TypeOK, Release
<1>3. OwnerOf(m)' = NoThread
  BY <1>2 DEF FlagMatchesHolder, OwnerOf
<1>4. ASSUME NEW n \in Mutexes, n # m PROVE OwnerOf(n)' = OwnerOf(n)
  BY <1>4, OwnerUnchanged DEF IInv, TypeOK, Release, Holds, Goto
<1>5. QED
  BY <1>1, <1>3, <1>4 DEF Lock!Release, Owners

\* Every step of the protocol takes, releases or leaves alone the abstract lock.
LEMMA StepRefines == IInv /\ [Next]_vars => [Lock!Next]_Owners
<1> SUFFICES ASSUME IInv, [Next]_vars PROVE [Lock!Next]_Owners
  OBVIOUS
<1>i. TypeOK' /\ FlagMatchesHolder' /\ MutualExclusion'
  BY TypeStep, HolderStep DEF IInv
<1>s. ASSUME \A t \in Threads, m \in Mutexes : Holds(t, m)' <=> Holds(t, m)
      PROVE  UNCHANGED Owners
  BY <1>s, OwnerUnchanged DEF Owners
<1> USE DEF IInv, TypeOK, Holds, Goto
<1>1. ASSUME NEW t \in Threads, NEW m \in Mutexes, FastAcquire(t, m)
      PROVE  [Lock!Next]_Owners
  <2>1. CASE flag[m] = 0
    <3>1. Holds(t, m)'
      BY <1>1, <2>1 DEF FastAcquire
    <3>2. \A u \in Threads, n \in Mutexes : n # m => (Holds(u, n)' <=> Holds(u, n))
      BY <1>1, <2>1 DEF FastAcquire
    <3>3. Lock!Acquire(t, m)
      BY <1>i, <2>1, <3>1, <3>2, AcquireRefines
    <3>4. QED
      BY <3>3 DEF Lock!Next
  <2>2. CASE flag[m] # 0
    BY <1>1, <1>s, <2>2 DEF FastAcquire
  <2>3. QED
    BY <2>1, <2>2
<1>2. ASSUME NEW t \in Threads, Release(t) PROVE [Lock!Next]_Owners
  BY <1>2, <1>i, ReleaseRefines DEF Lock!Next
<1>3. ASSUME NEW t \in Threads, Swap(t) \/ SwapUnderBucket(t)
      PROVE  [Lock!Next]_Owners
  <2> PICK m \in Mutexes : m = target[t]
    OBVIOUS
  <2>1. CASE flag[target[t]] = 0
    <3>1. Holds(t, m)'
      BY <1>3, <2>1 DEF Swap, SwapUnderBucket
    <3>2. \A u \in Threads, n \in Mutexes : n # m => (Holds(u, n)' <=> Holds(u, n))
      BY <1>3, <2>1 DEF Swap, SwapUnderBucket
    <3>3. Lock!Acquire(t, m)
      BY <1>i, <2>1, <3>1, <3>2, AcquireRefines
    <3>4. QED
      BY <3>3 DEF Lock!Next
  <2>2. CASE flag[target[t]] # 0
    BY <1>3, <1>s, <2>2 DEF Swap, SwapUnderBucket
  <2>3. QED
    BY <2>1, <2>2
<1>4. ASSUME NEW t \in Threads,
             \/ LockBucket(t) \/ LoadFlag(t) \/ CvWait(t) \/ CvReturn(t)
             \/ LockBucketToWake(t) \/ SpuriousWake(t) \/ NotifyAll(t)
      PROVE  [Lock!Next]_Owners
  BY <1>4, <1>s DEF LockBucket, TakeBucket, LoadFlag, CvWait, CvReturn,
                    LockBucketToWake, SpuriousWake, NotifyAll
<1>5. ASSUME Finished \/ UNCHANGED vars PROVE [Lock!Next]_Owners
  BY <1>5, <1>s DEF Finished, vars
<1>6. QED
  BY <1>1, <1>2, <1>3, <1>4, <1>5 DEF Next, Step

\* The futex protocol, inline fast paths included, is an implementation of the
\* lock with one owner at a time that AbstractLock specifies.
THEOREM Refinement == Spec => ImplementsLock
<1>1. Init => Lock!Init
  BY FreeHasNoOwner DEF Init, Lock!Init, Owners, Holds
<1>2. QED
  BY <1>1, StepRefines, Invariance, PTL DEF Spec, ImplementsLock, Lock!Spec
=============================================================================
