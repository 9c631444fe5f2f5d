---------------------------- MODULE AbstractLock ----------------------------
(***************************************************************************)
(* What a `lock` block promises: a mutex has at most one owner, and passes *)
(* from one owner to the next through having none.                         *)
(***************************************************************************)
CONSTANTS Threads, Mutexes, NoThread

VARIABLE owner   \* owner[m]: the thread inside `lock m`

Init == owner = [m \in Mutexes |-> NoThread]

Acquire(t, m) ==
  /\ owner[m] = NoThread
  /\ owner' = [owner EXCEPT ![m] = t]

Release(t, m) ==
  /\ owner[m] = t
  /\ owner' = [owner EXCEPT ![m] = NoThread]

Next == \E t \in Threads, m \in Mutexes : Acquire(t, m) \/ Release(t, m)

Spec == Init /\ [][Next]_owner
=============================================================================
