----------------------------- MODULE FutexMutex -----------------------------
(***************************************************************************)
(* The blocking mutex behind Kara's `lock` blocks.                         *)
(*                                                                         *)
(* The lock word of a Mutex[T] is a three-state flag (0 free, 1 locked,    *)
(* 2 locked with waiters).  Compiled code runs the uncontended paths       *)
(* inline (compile_lock_block: cmpxchg 0 -> 1; CleanupAction::ReleaseMutex:*)
(* xchg -> 0) and calls runtime/src/mutex.rs only on contention.  There    *)
(* the waiters of every mutex whose address hashes to the same bucket      *)
(* share one std Mutex and one Condvar.                                    *)
(*                                                                         *)
(* Every atomic access, every bucket-lock acquisition and every condvar    *)
(* operation is a step of its own.                                         *)
(***************************************************************************)
EXTENDS Naturals

CONSTANTS
  Threads,     \* threads that run lock blocks
  Mutexes,     \* the lock words
  Buckets,     \* the entries of the static BUCKETS array
  BucketFor,   \* bucket_for: the bucket a lock word hashes to
  MaxRounds,   \* bound: lock blocks one thread enters
  NoThread     \* the bucket lock is free

ASSUME BucketForAssumption == BucketFor \in [Mutexes -> Buckets]
ASSUME MaxRoundsAssumption == MaxRounds \in Nat
ASSUME NoThreadAssumption  == NoThread \notin Threads

VARIABLES
  flag,        \* flag[m]: the i64 lock word
  bucketLock,  \* bucketLock[b]: the thread inside Bucket.mtx
  pc,          \* pc[t]: where thread t is in its lock block
  target,      \* target[t]: the mutex of t's current lock block
  rounds       \* rounds[t]: lock blocks t has entered

vars == <<flag, bucketLock, pc, target, rounds>>

(***************************************************************************)
(* Control states.                                                         *)
(*   idle     outside any lock block                                       *)
(*   swap     about to swap(2) without the bucket lock                     *)
(*   bucket   lost the swap, waiting for Bucket.mtx                        *)
(*   check    inside Bucket.mtx, about to load the flag                    *)
(*   sleep    inside Bucket.mtx, saw 2, about to call cv.wait              *)
(*   reswap   inside Bucket.mtx, saw something else, about to swap(2)      *)
(*   parked   on the condvar, outside Bucket.mtx                           *)
(*   relock   woken, waiting to get Bucket.mtx back from cv.wait           *)
(*   held     in the critical section                                      *)
(*   waker    released with prior state 2, waiting for Bucket.mtx          *)
(*   notify   in unlock_wake inside Bucket.mtx, about to notify_all        *)
(***************************************************************************)
InBucket == {"check", "sleep", "reswap", "notify"}
Blocked  == {"swap", "bucket", "check", "sleep", "reswap", "parked", "relock"}
PCs      == {"idle", "held", "waker", "notify"} \union Blocked

BucketOf(t) == BucketFor[target[t]]

Goto(t, l) == pc' = [pc EXCEPT ![t] = l]

TypeOK ==
  /\ flag \in [Mutexes -> 0..2]
  /\ bucketLock \in [Buckets -> Threads \union {NoThread}]
  /\ pc \in [Threads -> PCs]
  /\ target \in [Threads -> Mutexes]
  /\ rounds \in [Threads -> 0..MaxRounds]

Init ==
  /\ flag = [m \in Mutexes |-> 0]
  /\ bucketLock = [b \in Buckets |-> NoThread]
  /\ pc = [t \in Threads |-> "idle"]
  /\ target \in [Threads -> Mutexes]
  /\ rounds = [t \in Threads |-> 0]

(***************************************************************************)
(* Inline code: compile_lock_block and CleanupAction::ReleaseMutex.        *)
(***************************************************************************)

\* Mistake: a test-and-set that ignores what it replaced.
FastAcquireXchg(t, m) ==
  /\ pc[t] = "idle"
  /\ rounds[t] < MaxRounds
  /\ rounds' = [rounds EXCEPT ![t] = @ + 1]
  /\ target' = [target EXCEPT ![t] = m]
  /\ flag' = [flag EXCEPT ![m] = 1]
  /\ Goto(t, "held")
  /\ UNCHANGED bucketLock

\* Entering `lock m`: cmpxchg(0 -> 1); on failure call karac_runtime_mutex_lock.
FastAcquire(t, m) ==
  /\ pc[t] = "idle"
  /\ rounds[t] < MaxRounds
  /\ rounds' = [rounds EXCEPT ![t] = @ + 1]
  /\ target' = [target EXCEPT ![t] = m]
  /\ \/ /\ flag[m] = 0
        /\ flag' = [flag EXCEPT ![m] = 1]
        /\ Goto(t, "held")
     \/ /\ flag[m] # 0
        /\ Goto(t, "swap")
        /\ UNCHANGED flag
  /\ UNCHANGED bucketLock

\* Leaving the block on any path: xchg(-> 0); a prior 2 calls unlock_wake.
Release(t) ==
  /\ pc[t] = "held"
  /\ flag' = [flag EXCEPT ![target[t]] = 0]
  /\ Goto(t, IF flag[target[t]] = 2 THEN "waker" ELSE "idle")
  /\ UNCHANGED <<bucketLock, target, rounds>>

(***************************************************************************)
(* parking::lock.                                                          *)
(***************************************************************************)

\* Mistake: only a prior 2 is taken for "somebody holds it".
SwapIgnoringOne(t) ==
  /\ pc[t] = "swap"
  /\ flag' = [flag EXCEPT ![target[t]] = 2]
  /\ Goto(t, IF flag[target[t]] # 2 THEN "held" ELSE "bucket")
  /\ UNCHANGED <<bucketLock, target, rounds>>

\* Mistake: fetch_add(1) marks the flag contended instead of swap(2).
SwapByIncrement(t) ==
  /\ pc[t] = "swap"
  /\ flag' = [flag EXCEPT ![target[t]] = @ + 1]
  /\ Goto(t, IF flag[target[t]] = 0 THEN "held" ELSE "bucket")
  /\ UNCHANGED <<bucketLock, target, rounds>>

\* c = a.swap(2): a prior 0 means this thread now holds the lock.
Swap(t) ==
  /\ pc[t] = "swap"
  /\ flag' = [flag EXCEPT ![target[t]] = 2]
  /\ Goto(t, IF flag[target[t]] = 0 THEN "held" ELSE "bucket")
  /\ UNCHANGED <<bucketLock, target, rounds>>

\* Acquiring Bucket.mtx, by the thread that holds no bucket lock.
TakeBucket(t, from, to) ==
  /\ pc[t] = from
  /\ bucketLock[BucketOf(t)] = NoThread
  /\ bucketLock' = [bucketLock EXCEPT ![BucketOf(t)] = t]
  /\ Goto(t, to)
  /\ UNCHANGED <<flag, target, rounds>>

LockBucket(t) == TakeBucket(t, "bucket", "check")

\* Mistake: park without looking at the flag again under the bucket lock.
ParkUnchecked(t) ==
  /\ pc[t] = "check"
  /\ Goto(t, "sleep")
  /\ UNCHANGED <<flag, bucketLock, target, rounds>>

\* a.load() == 2, under the bucket lock.
LoadFlag(t) ==
  /\ pc[t] = "check"
  /\ Goto(t, IF flag[target[t]] = 2 THEN "sleep" ELSE "reswap")
  /\ UNCHANGED <<flag, bucketLock, target, rounds>>

\* cv.wait releases Bucket.mtx and parks in one step.
CvWait(t) ==
  /\ pc[t] = "sleep"
  /\ bucketLock' = [bucketLock EXCEPT ![BucketOf(t)] = NoThread]
  /\ Goto(t, "parked")
  /\ UNCHANGED <<flag, target, rounds>>

\* A Condvar may wake without a notification.
SpuriousWake(t) ==
  /\ pc[t] = "parked"
  /\ Goto(t, "relock")
  /\ UNCHANGED <<flag, bucketLock, target, rounds>>

\* cv.wait returns with Bucket.mtx; `_unused` drops it before the next swap.
CvReturn(t) ==
  /\ pc[t] = "relock"
  /\ bucketLock[BucketOf(t)] = NoThread
  /\ Goto(t, "swap")
  /\ UNCHANGED <<flag, bucketLock, target, rounds>>

\* Mistake: the retry inside the loop forgets that a prior 0 is a win.
SwapUnderBucketLost(t) ==
  /\ pc[t] = "reswap"
  /\ flag' = [flag EXCEPT ![target[t]] = 2]
  /\ bucketLock' = [bucketLock EXCEPT ![BucketOf(t)] = NoThread]
  /\ Goto(t, "bucket")
  /\ UNCHANGED <<target, rounds>>

\* The branch that does not sleep: `guard` lives to the end of the loop body,
\* so the swap runs under Bucket.mtx and the guard drops after it.
SwapUnderBucket(t) ==
  /\ pc[t] = "reswap"
  /\ flag' = [flag EXCEPT ![target[t]] = 2]
  /\ bucketLock' = [bucketLock EXCEPT ![BucketOf(t)] = NoThread]
  /\ Goto(t, IF flag[target[t]] = 0 THEN "held" ELSE "bucket")
  /\ UNCHANGED <<target, rounds>>

(***************************************************************************)
(* parking::unlock_wake.                                                   *)
(***************************************************************************)

LockBucketToWake(t) == TakeBucket(t, "waker", "notify")

\* Mistake: notify_one, although the bucket is shared by several mutexes.
NotifyOne(t) ==
  /\ pc[t] = "notify"
  /\ bucketLock' = [bucketLock EXCEPT ![BucketOf(t)] = NoThread]
  /\ LET sleepers == {u \in Threads : pc[u] = "parked" /\ BucketOf(u) = BucketOf(t)}
     IN IF sleepers = {} THEN Goto(t, "idle")
        ELSE \E u \in sleepers : pc' = [pc EXCEPT ![t] = "idle", ![u] = "relock"]
  /\ UNCHANGED <<flag, target, rounds>>

\* notify_all on the bucket's condvar, whatever mutex its waiters want.
NotifyAll(t) ==
  /\ pc[t] = "notify"
  /\ bucketLock' = [bucketLock EXCEPT ![BucketOf(t)] = NoThread]
  /\ pc' = [u \in Threads |->
              IF u = t THEN "idle"
              ELSE IF pc[u] = "parked" /\ BucketOf(u) = BucketOf(t)
                   THEN "relock" ELSE pc[u]]
  /\ UNCHANGED <<flag, target, rounds>>

\* Every thread has entered its last lock block and left it.
Finished ==
  /\ \A t \in Threads : pc[t] = "idle" /\ rounds[t] = MaxRounds
  /\ UNCHANGED vars

\* The steps a thread takes once it is in a lock block.
Step(t) ==
  \/ Release(t) \/ Swap(t)
  \/ LockBucket(t) \/ LoadFlag(t) \/ CvWait(t) \/ CvReturn(t)
  \/ SwapUnderBucket(t)
  \/ LockBucketToWake(t) \/ NotifyAll(t)

Next ==
  \/ \E t \in Threads :
       \/ \E m \in Mutexes : FastAcquire(t, m)
       \/ Step(t)
       \/ SpuriousWake(t)
  \/ Finished

\* A thread that has entered a lock block keeps running whenever it can.  Nothing
\* makes a thread enter one, no spurious wake-up is ever owed, and the bucket
\* locks need not be fair: rounds are finite, so rivals for them run out.
Fairness == \A t \in Threads : WF_vars(Step(t))

Spec == Init /\ [][Next]_vars /\ Fairness

-----------------------------------------------------------------------------
Holds(t, m) == pc[t] = "held" /\ target[t] = m

\* At most one thread is inside the lock block of a mutex, although three
\* different instructions (the inline cmpxchg and the two swap(2) sites of
\* parking::lock) can each take the lock and race with the inline xchg.
MutualExclusion ==
  \A m \in Mutexes : \A t, u \in Threads :
    Holds(t, m) /\ Holds(u, m) => t = u

\* A release on its way to notify the bucket of mutex m.
WakePending(m) ==
  \E u \in Threads : pc[u] \in {"waker", "notify"} /\ BucketOf(u) = BucketFor[m]

\* No lost wake-up: while a thread is parked (or has decided to park) on m, the
\* flag of m still says 2, so the holder's release will call unlock_wake, or a
\* release that has already swapped the flag has its notify_all still to come.
NoLostWakeup ==
  \A t \in Threads :
    pc[t] \in {"sleep", "parked"} => flag[target[t]] = 2 \/ WakePending(target[t])

\* The flag and the holders agree: a non-zero flag has a holder, a holder a
\* non-zero flag, so parked threads never wait for a lock nobody holds.
FlagMatchesHolder ==
  \A m \in Mutexes : flag[m] # 0 <=> \E t \in Threads : Holds(t, m)

\* Every thread that called into a contended `lock` eventually enters its block,
\* provided the others enter finitely often (MaxRounds): neither a missed
\* notification nor a bucket shared with another mutex can strand it.
EveryWaiterEnters ==
  \A t \in Threads : pc[t] \in Blocked ~> pc[t] = "held"

-----------------------------------------------------------------------------
(***************************************************************************)
(* Refinement: one owner per mutex.                                        *)
(***************************************************************************)
OwnerOf(m) ==
  IF \E t \in Threads : Holds(t, m)
  THEN CHOOSE t \in Threads : Holds(t, m) ELSE NoThread

Owners == [m \in Mutexes |-> OwnerOf(m)]

Lock == INSTANCE AbstractLock WITH owner <- Owners

\* The three-state protocol implements the plain lock of AbstractLock: an owner
\* is only ever set when there is none and only ever cleared, never replaced.
ImplementsLock == Lock!Spec

=============================================================================
