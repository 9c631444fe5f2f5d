---------------------------- MODULE MCFutexMutex ----------------------------
(***************************************************************************)
(* Small instances of FutexMutex for TLC: two lock words that hash to the  *)
(* same bucket, so that a wake-up of one wakes the waiters of the other.   *)
(***************************************************************************)
EXTENDS FutexMutex

CONSTANTS m1, m2, b1

OneBucket == [m \in Mutexes |-> b1]
=============================================================================
