------------------------------ MODULE TaskGroup ------------------------------
(***************************************************************************)
(* spawn, join, detach and TaskGroup (runtime/src/scheduler.rs) together   *)
(* with the completion slot of coroutine tasks (KaracParkSlot,             *)
(* runtime/src/event_loop.rs).                                             *)
(*                                                                         *)
(* A task handle is a heap object shared by the spawn site, the worker (or *)
(* the dispatcher, for a coroutine), a joiner and the group, none of which *)
(* counts references: who frees it is decided by the flags `registered`,   *)
(* `detached`, `reaped` and the slot's `reap` pointer.  Every critical     *)
(* section of notify_mutex, of the slot's `done` mutex and of the group's  *)
(* `children` mutex is one step; deciding to free and freeing are two.     *)
(*                                                                         *)
(* A panic in a task aborts the program (wrappers are extern "C"), so      *)
(* COMPLETED is the only terminal state.                                   *)
(***************************************************************************)
EXTENDS Naturals, Sequences, FiniteSets

CONSTANTS
  Tasks,          \* handles that may be allocated
  CoroTasks,      \* those made by karac_runtime_spawn_coro
  Main,           \* the thread whose scope owns the group
  GroupSpawners,  \* who calls tg.spawn: Main, and tasks holding the group
  Workers         \* threads of the worker pool

ASSUME KindsAssumption == CoroTasks \subseteq Tasks /\ Main \notin Tasks
ASSUME SpawnersAssumption == GroupSpawners \subseteq Tasks \union {Main}
ASSUME WorkersAssumption == Workers \in Nat \ {0}

VARIABLES
  run,          \* run[h]: where the task itself is
  site,         \* site[h]: how far the spawn site of h has got
  parent,       \* parent[h]: who spawned h
  discard,      \* discard[h]: the TaskHandle is dropped at the spawn site
  registered,   \* KaracTaskHandle.registered
  detached,     \* KaracTaskHandle.detached
  reaped,       \* KaracTaskHandle.reaped
  done,         \* terminal state stored, or slot.done for a coroutine
  armed,        \* slot.reap is set
  cancel,       \* KaracTaskHandle.cancel
  join,         \* join[h]: progress of an explicit h.join()
  freers,       \* freers[h]: everyone who has decided to free h
  freed,        \* freed[h]: free_handle has run
  children,     \* KaracTaskGroupHandle.children
  taken,        \* the Vec join_and_free has taken and still walks
  group         \* the group: open, joining, freed

flags == <<registered, detached, reaped, done, armed, cancel>>
vars  == <<run, site, parent, discard, flags, join, freers, freed,
           children, taken, group>>

Owners == Tasks \union {Main}

(***************************************************************************)
(* Spawn site of a handle: "none", "new" (spawned, tg.spawn has yet to     *)
(* register it), "marked" (registered set, not pushed), "detach" (about to *)
(* be detached), "flagged" (coroutine: detached set, slot not armed),      *)
(* "settled".                                                              *)
(***************************************************************************)
Sites == {"none", "new", "marked", "detach", "flagged", "settled"}
Runs  == {"unborn", "queued", "running", "parked", "ended"}
Joins == {"none", "free", "keep", "joined"}
Freer == {"worker", "signal", "detach", "join", "sweep", "group"}

TypeOK ==
  /\ run \in [Tasks -> Runs] /\ site \in [Tasks -> Sites]
  /\ parent \in [Tasks -> Owners] /\ discard \in [Tasks -> BOOLEAN]
  /\ registered \in [Tasks -> BOOLEAN] /\ detached \in [Tasks -> BOOLEAN]
  /\ reaped \in [Tasks -> BOOLEAN] /\ done \in [Tasks -> BOOLEAN]
  /\ armed \in [Tasks -> BOOLEAN] /\ cancel \in [Tasks -> BOOLEAN]
  /\ join \in [Tasks -> Joins]
  /\ freers \in [Tasks -> SUBSET Freer] /\ freed \in [Tasks -> BOOLEAN]
  /\ children \in Seq(Tasks) /\ taken \in Seq(Tasks)
  /\ group \in {"open", "joining", "freed"}

Init ==
  /\ run = [h \in Tasks |-> "unborn"] /\ site = [h \in Tasks |-> "none"]
  /\ parent = [h \in Tasks |-> Main]
  /\ discard = [h \in Tasks |-> FALSE]
  /\ registered = [h \in Tasks |-> FALSE] /\ detached = [h \in Tasks |-> FALSE]
  /\ reaped = [h \in Tasks |-> FALSE] /\ done = [h \in Tasks |-> FALSE]
  /\ armed = [h \in Tasks |-> FALSE] /\ cancel = [h \in Tasks |-> FALSE]
  /\ join = [h \in Tasks |-> "none"]
  /\ freers = [h \in Tasks |-> {}] /\ freed = [h \in Tasks |-> FALSE]
  /\ children = <<>> /\ taken = <<>> /\ group = "open"

\* p is between two statements of its own: it neither waits in a join nor is
\* inside a spawn site.
Ready(p) ==
  /\ IF p = Main THEN group = "open" ELSE run[p] = "running"
  /\ \A h \in Tasks : parent[h] = p => /\ site[h] \in {"none", "settled"}
                                       /\ join[h] \in {"none", "joined"}

Put(f, h, v) == [f EXCEPT ![h] = v]

\* h has one more party that will call free_handle on it.
Claim(h, who, cond) ==
  freers' = IF cond THEN [freers EXCEPT ![h] = @ \union {who}] ELSE freers

(***************************************************************************)
(* Spawn sites (codegen task_group.rs): spawn, then register for tg.spawn, *)
(* then detach for a discarded handle.  The task may already be running.   *)
(***************************************************************************)

\* p can reach the group: Main owns it, and a task spawned through it may have
\* captured it.
HoldsGroup(p) ==
  /\ p \in GroupSpawners
  /\ IF p = Main THEN TRUE ELSE registered[p] \/ site[p] = "new"

\* karac_runtime_spawn / _spawn_coro: allocate the handle, queue the task.
Spawn(p, h, inGroup, drop) ==
  /\ Ready(p)
  /\ run[h] = "unborn"
  /\ inGroup => HoldsGroup(p)
  /\ run' = Put(run, h, "queued")
  /\ parent' = Put(parent, h, p)
  /\ discard' = Put(discard, h, drop)
  /\ site' = Put(site, h, IF inGroup THEN "new" ELSE IF drop THEN "detach" ELSE "settled")
  /\ UNCHANGED <<flags, join, freers, freed, children, taken, group>>

\* karac_runtime_taskgroup_register: first the flag ...
MarkRegistered(h) ==
  /\ site[h] = "new"
  /\ registered' = Put(registered, h, TRUE)
  /\ site' = Put(site, h, "marked")
  /\ UNCHANGED <<run, parent, discard, detached, reaped, done, armed, cancel,
                 join, freers, freed, children, taken, group>>

\* child_is_terminal_detached.
TerminalDetached(h) == detached[h] /\ done[h]

\* Mistake: the group pushes its own pointer in place of the child's.
PushGroup(h) ==
  /\ site[h] = "marked"
  /\ children' = Append(children, Main)
  /\ site' = Put(site, h, IF discard[h] THEN "detach" ELSE "settled")
  /\ UNCHANGED <<run, parent, discard, flags, join, freers, freed, taken, group>>

Listed(s) == {s[i] : i \in DOMAIN s}

\* Vec::retain: what is kept stays in order, its n-th element being the one that
\* has n kept ones up to and including it.
Retain(s, keep) ==
  LET left    == {i \in DOMAIN s : s[i] \in keep}
      Rank(i) == Cardinality({j \in left : j <= i})
  IN  [n \in 1..Cardinality(left) |-> s[CHOOSE i \in left : Rank(i) = n]]

\* ... then, under the children lock, the push and the sweep of every child
\* that is detached and terminal.
PushAndSweep(h) ==
  /\ site[h] = "marked"
  /\ LET listed == Append(children, h)
         swept  == {c \in Listed(listed) : TerminalDetached(c)}
     IN  /\ children' = Retain(listed, Tasks \ swept)
         /\ freers' = [c \in Tasks |-> IF c \in swept THEN freers[c] \union {"sweep"}
                                        ELSE freers[c]]
         /\ freed' = [c \in Tasks |-> freed[c] \/ c \in swept]
  /\ site' = Put(site, h, IF discard[h] THEN "detach" ELSE "settled")
  /\ UNCHANGED <<run, parent, discard, flags, join, taken, group>>

\* karac_runtime_task_detach of an ordinary task, under notify_mutex.
DetachThread(h) ==
  /\ site[h] = "detach" /\ h \notin CoroTasks
  /\ detached' = Put(detached, h, TRUE)
  /\ LET mine == ~registered[h] /\ done[h] /\ ~reaped[h]
     IN  reaped' = Put(reaped, h, reaped[h] \/ mine) /\ Claim(h, "detach", mine)
  /\ site' = Put(site, h, "settled")
  /\ UNCHANGED <<run, parent, discard, registered, done, armed, cancel,
                 join, freed, children, taken, group>>

\* ... and of a coroutine: first the flag ...
DetachCoro(h) ==
  /\ site[h] = "detach" /\ h \in CoroTasks
  /\ detached' = Put(detached, h, TRUE)
  /\ site' = Put(site, h, "flagged")
  /\ UNCHANGED <<run, parent, discard, registered, reaped, done, armed, cancel,
                 join, freers, freed, children, taken, group>>

\* Mistake: arm the slot without asking whether it was signalled before.
ArmReapUnchecked(h) ==
  /\ site[h] = "flagged"
  /\ armed' = Put(armed, h, ~registered[h])
  /\ site' = Put(site, h, "settled")
  /\ UNCHANGED <<run, parent, discard, registered, detached, reaped, done, cancel,
                 join, freers, freed, children, taken, group>>

\* ... then, unless the handle is the group's, park_slot_arm_reap, after which
\* a slot that was already signalled is freed here.
ArmReap(h) ==
  /\ site[h] = "flagged"
  /\ armed' = Put(armed, h, ~registered[h] /\ ~done[h])
  /\ Claim(h, "detach", ~registered[h] /\ done[h])
  /\ site' = Put(site, h, "settled")
  /\ UNCHANGED <<run, parent, discard, registered, detached, reaped, done, cancel,
                 join, freed, children, taken, group>>

(***************************************************************************)
(* The task.                                                               *)
(***************************************************************************)

\* A free pool worker pops the task; a coroutine only ramps, parks and gives
\* the worker back.
Start(h) ==
  /\ run[h] = "queued"
  /\ Cardinality({t \in Tasks : run[t] = "running"}) < Workers
  /\ run' = Put(run, h, IF h \in CoroTasks THEN "parked" ELSE "running")
  /\ UNCHANGED <<site, parent, discard, flags, join, freers, freed, children, taken, group>>

\* The closure returned: under notify_mutex the worker stores the terminal
\* state and decides whether it must reap a detached free-spawn handle.
Complete(h) ==
  /\ h \notin CoroTasks /\ Ready(h)
  /\ done' = Put(done, h, TRUE)
  /\ LET mine == ~registered[h] /\ detached[h] /\ ~reaped[h]
     IN  reaped' = Put(reaped, h, reaped[h] \/ mine) /\ Claim(h, "worker", mine)
  /\ run' = Put(run, h, "ended")
  /\ UNCHANGED <<site, parent, discard, registered, detached, armed, cancel,
                 join, freed, children, taken, group>>

\* Mistake: the destroy edge ends the coroutine without signalling the slot.
DestroyUnsignalled(h) ==
  /\ run[h] = "parked"
  /\ run' = Put(run, h, "ended")
  /\ UNCHANGED <<site, parent, discard, flags, join, freers, freed, children, taken, group>>

\* park_slot_signal, from the resumed coroutine's return or its destroy edge:
\* under the slot's lock, done is set and the armed handle read.
SignalSlot(h) ==
  /\ run[h] = "parked"
  /\ done' = Put(done, h, TRUE)
  /\ Claim(h, "signal", armed[h])
  /\ run' = Put(run, h, "ended")
  /\ UNCHANGED <<site, parent, discard, registered, detached, reaped, armed, cancel,
                 join, freed, children, taken, group>>

\* free_handle by whoever claimed it.
FreeHandle(h) ==
  /\ freers[h] # {} /\ ~freed[h]
  /\ freed' = Put(freed, h, TRUE)
  /\ UNCHANGED <<run, site, parent, discard, flags, join, freers, children, taken, group>>

(***************************************************************************)
(* Joins.                                                                  *)
(***************************************************************************)

\* Mistake: an explicit join always frees, the group's children too.
JoinBeginFreeing(h) ==
  /\ Ready(parent[h]) /\ site[h] = "settled" /\ ~discard[h] /\ join[h] = "none"
  /\ join' = Put(join, h, "free")
  /\ UNCHANGED <<run, site, parent, discard, flags, freers, freed, children, taken, group>>

\* karac_runtime_task_join by the scope that holds the handle: do_free is
\* decided first, from `registered`.
JoinBegin(h) ==
  /\ Ready(parent[h]) /\ site[h] = "settled" /\ ~discard[h] /\ join[h] = "none"
  /\ join' = Put(join, h, IF registered[h] THEN "keep" ELSE "free")
  /\ UNCHANGED <<run, site, parent, discard, flags, freers, freed, children, taken, group>>

\* join_inner: the wait ends when the task is terminal; the pool is not helped.
JoinEnd(h) ==
  /\ join[h] \in {"free", "keep"} /\ done[h]
  /\ join' = Put(join, h, "joined")
  /\ Claim(h, "join", join[h] = "free")
  /\ UNCHANGED <<run, site, parent, discard, flags, freed, children, taken, group>>

(***************************************************************************)
(* The group.                                                              *)
(***************************************************************************)

\* karac_runtime_taskgroup_cancel: every child's flag, under the children lock.
GroupCancel(p) ==
  /\ HoldsGroup(p) /\ Ready(p)
  /\ cancel' = [h \in Tasks |-> cancel[h] \/ h \in Listed(children)]
  /\ UNCHANGED <<run, site, parent, discard, registered, detached, reaped, done,
                 armed, join, freers, freed, children, taken, group>>

\* karac_runtime_taskgroup_join_and_free at Main's scope exit: take the list,
GroupTake ==
  /\ Ready(Main)
  /\ group' = "joining"
  /\ taken' = children /\ children' = <<>>
  /\ UNCHANGED <<run, site, parent, discard, flags, join, freers, freed>>

\* Mistake: the group frees a child without waiting for it.
GroupFreeNext ==
  /\ taken # <<>>
  /\ LET h == Head(taken)
     IN  /\ freers' = [freers EXCEPT ![h] = @ \union {"group"}]
         /\ freed' = Put(freed, h, TRUE)
  /\ taken' = Tail(taken)
  /\ UNCHANGED <<run, site, parent, discard, flags, join, children, group>>

\* join_inner(child, do_free = true) of each child in turn,
GroupJoinNext ==
  /\ taken # <<>> /\ done[Head(taken)]
  /\ LET h == Head(taken)
     IN  /\ freers' = [freers EXCEPT ![h] = @ \union {"group"}]
         /\ freed' = Put(freed, h, TRUE)
  /\ taken' = Tail(taken)
  /\ UNCHANGED <<run, site, parent, discard, flags, join, children, group>>

\* Mistake: the group is reclaimed while children are still to be joined.
GroupFreeEarly ==
  /\ group = "joining"
  /\ group' = "freed"
  /\ UNCHANGED <<run, site, parent, discard, flags, join, freers, freed, children, taken>>

\* and the group itself.
GroupFree ==
  /\ group = "joining" /\ taken = <<>>
  /\ group' = "freed"
  /\ UNCHANGED <<run, site, parent, discard, flags, join, freers, freed, children, taken>>

\* Nothing is left to run: Main has left the scope and every born task is over.
Finished ==
  /\ group = "freed"
  /\ \A h \in Tasks : run[h] \in {"unborn", "ended", "parked"}
  /\ UNCHANGED vars

SiteStep(h) ==
  \/ MarkRegistered(h) \/ PushAndSweep(h)
  \/ DetachThread(h) \/ DetachCoro(h) \/ ArmReap(h)

Next ==
  \/ \E p \in Owners, h \in Tasks, inGroup, drop \in BOOLEAN : Spawn(p, h, inGroup, drop)
  \/ \E h \in Tasks : \/ SiteStep(h)
                      \/ Start(h) \/ Complete(h) \/ SignalSlot(h) \/ FreeHandle(h)
                      \/ JoinBegin(h) \/ JoinEnd(h)
  \/ \E p \in Owners : GroupCancel(p)
  \/ GroupTake \/ GroupJoinNext \/ GroupFree \/ Finished

\* Threads make progress, and a cancelled coroutine is torn down by the sweep.
\* Whether an uncancelled one is ever ready is up to its peer: no fairness.
Fairness ==
  /\ \A h \in Tasks :
       /\ WF_vars(SiteStep(h)) /\ WF_vars(Start(h)) /\ WF_vars(Complete(h))
       /\ WF_vars(FreeHandle(h)) /\ WF_vars(JoinEnd(h))
       /\ WF_vars(cancel[h] /\ SignalSlot(h))
  /\ WF_vars(GroupJoinNext) /\ WF_vars(GroupFree)

Spec == Init /\ [][Next]_vars /\ Fairness

(***************************************************************************)
(* Properties.                                                             *)
(***************************************************************************)

\* A handle has at most one party that frees it: the self-reaping worker, the
\* signalling coroutine, the detaching site, the joiner, the register-time sweep
\* and the group never both decide to (scheduler.rs: "freed exactly once").
FreedByOne == \A h \in Tasks : Cardinality(freers[h]) <= 1

\* Nobody who still touches a handle can find it freed: its own spawn site, the
\* task while it has not stored its terminal state, a joiner that waits on it,
\* and the group that lists it.
NoUseAfterFree ==
  \A h \in Tasks : freed[h] =>
    /\ site[h] = "settled"
    /\ run[h] = "ended"
    /\ join[h] \in {"none", "joined"}
    /\ h \notin Listed(children) \union Listed(taken)

\* A discarded free spawn is always reclaimed: once its task is over and its site
\* has detached it, somebody has taken on the free, whichever came last.
DetachedReclaimed ==
  \A h \in Tasks :
    discard[h] /\ ~registered[h] /\ done[h] /\ site[h] = "settled" => freers[h] # {}

\* "no child outlives the group": when join_and_free has reclaimed the group,
\* every task spawned through it is over and nobody is still registering one.
NoChildOutlivesGroup ==
  group = "freed" =>
    \A h \in Tasks : /\ registered[h] => done[h] /\ freers[h] # {}
                     /\ site[h] \notin {"new", "marked"}

\* Dropping the group ends, unless a coroutine that nobody cancelled is parked.
GroupDropReturns ==
  group = "joining" ~>
    (group = "freed" \/ \E h \in CoroTasks : run[h] = "parked" /\ ~cancel[h])
=============================================================================
