# Verification of the Kāra runtime and of inferred parallelism

Kāra (`karac`) is a compiler for a language with effects and automatic
parallelism.  A compiled program links a runtime library (`runtime/src`) written
in Rust; the generated code and the runtime together implement `lock` blocks,
channels, tasks, task groups, coroutines parked on an event loop, and `par`
blocks, and the compiler decides by itself which statements of a function run in
parallel.  This directory holds TLA+ models of those protocols and of that
decision, TLC configurations that check them on small instances, and TLAPS proofs
for every instance: of the safety of the lock protocol, channels, task groups, the
worker pool and the event loop, and that a function compiled with inferred
parallelism does what its statements do in source order.

Paths below are relative to the repository root (`PROJECT.json` writes them with
the prefix `src/`).

## 1. Inventory

| component | state | operations | what is hard | what makes it correct |
|---|---|---|---|---|
| lock blocks: `src/codegen/method_call_sync.rs`, `src/codegen/runtime.rs`, `runtime/src/mutex.rs` | a three-state word per `Mutex[T]`; 64 buckets, each a `Mutex` and a `Condvar` | inline cmpxchg and xchg; `lock`, `unlock_wake` | inline code and runtime race on one word; unrelated mutexes share a bucket | exclusion; no lost wakeup; the pair implements a lock; waiters get in |
| channels: `runtime/src/channel.rs`, `src/codegen/channel.rs` | counters `total` and `senders`; queue and `closed` under a `Mutex`; `elem_drop` | new, clone, drop of either end, send, try_send, recv, try_recv | two counters moved separately and in opposite orders; notification after unlock; the box frees itself | freed with the last end; closing is final; no lost wakeup; payloads neither lost, duplicated nor leaked |
| tasks and groups: `runtime/src/scheduler.rs`, the park slot of `runtime/src/event_loop.rs`, `src/codegen/task_group.rs` | a heap handle per task with `registered`, `detached`, `reaped`, `cancel`; the slot's `done` and `reap`; the group's `children` | spawn, spawn_coro, join, detach, register and sweep, cancel, join_and_free, slot signal and arm | no reference count: flags decide which of six parties frees a handle | freed once, by one party, unused afterwards; never leaked; no child outlives its group |
| worker pool: `runtime/src/lib.rs` | one task queue and condvar; per call `remaining`, `cancel` | `karac_par_run`, `karac_par_reduce`, `worker_loop`, `execute_task`, `par_join_wait` | joiners help with any task, so calls nest on one stack; cancellation travels inwards by polling | the join is a barrier; `remaining` is exact; no lost wakeup; nesting never exhausts the pool |
| event loop and dispatcher: `runtime/src/event_loop.rs`, `src/codegen/coro.rs`, `declarations.rs`, `tcp.rs` | per shard a token map, a timer heap, an epoll set, a waker; sweep requests; per coroutine a frame and a handle | register a descriptor or a timer, poll, claim, resume, destroy, cancel sweep | readiness, cancellation and deadlines race for one parked task; a registration is published before the registering thread is done with it | nothing freed is touched; no readiness, cancellation or deadline is lost; every park ends |
| small primitives: `semaphore.rs`, `pool.rs`, `bounded_channel.rs`, `once.rs`, `rate_limiter.rs`, `weak.rs` | a counter, list or map under one `Mutex` | acquire, release, mint, set, get, upgrade, ... | capacity accounting when a step fails; a clock read outside the lock | bounds; first write wins; permits conserved |
| sequential and wasm-threads schedulers | a FIFO of cooperative tasks | spawn, join, run | a join must drive the queue | a join returns |
| data structures, I/O, GPU, TLS | local | library calls | little | functional |
| inferred parallelism: `src/concurrency.rs`, `src/concurrency/`, `src/codegen/stmts.rs`, `src/codegen/par_blocks.rs` | statement summaries, the conflict graph, groups, return slots, branch environments | conflict analysis, grouping, planning, dispatch, join, replay | several walks of one body must agree; a branch works on copies; ownership crosses the join | same result, effects and output as in source order; each buffer freed once |
| rest of the compiler (front end, checkers, code generation), interpreter, REPL | syntax trees and side tables | a pipeline of passes | size, not interleaving | out of reach of small instances |
| package management (`manifest.rs`, `lockfile.rs`, `dep_resolver.rs`, `git_fetch.rs`, `build_cache.rs`) | files | resolve, fetch, publish, load | two processes on one cache; a crash between two writes | a reader sees a complete entry or none |
| registry proxy, language server, Jupyter kernel, playground, self-hosted compiler | request-local | serve | little of their own | |

How they interact.  Generated code calls the runtime through C functions.
`par` branches and `spawn` tasks are queued on the same pool; a worker that runs a
task may open a lock block, send on a channel, spawn, or make a nested `par`
call.  A coroutine task gives its worker back when it parks and is resumed by the
dispatcher, which signals the park slot when the coroutine ends.  `cancel` is a
flag read at compiler-inserted checks; for parked coroutines the event loop's
sweep reads it.

The hazards of these parts, each with its line and the properties that would
catch it, are listed in `PROJECT.json`.

## 2. Plan

Order of work; the first eight are done.

1. `FutexMutex` (with `AbstractLock` as its abstract specification).
2. `Channel`.
3. `TaskGroup`.
4. `WorkPool`.
5. `EventLoop`: registrations, one-shot claims, timers, the cancel sweep and the
   code around a park.
6. `Concurrency` and `AutoPar`: from statement summaries to the joined result.
7. The safety invariants of 1 to 5 as theorems: `FutexMutexProofs`,
   `ChannelProofs`, `TaskGroupProofs`, `WorkPoolProofs`, `EventLoopProofs`,
   `EventLoopReachProofs`; those of 6 about one run: `AutoParProofs`.
8. The two properties of 6 that compare two runs, the determinism contract and the
   reorder advisory: `AutoParSerialProofs`.
9. The composition of `WorkPool` and `FutexMutex` (a joiner inside a lock block
   may help with a task that wants the same lock), and of `EventLoop` and
   `TaskGroup`, whose coroutine is one state between start and signal.
10. The small primitives where an operation is more than one critical section; the
    schedulers without threads; which branch's error a failing `par` call reports;
    the chunking of `karac_par_reduce` against a reference definition; the build
    cache and the lockfile.
11. Abstract specifications: a FIFO with a close for `Channel`, a barrier for
    `WorkPool`, an owned object for task handles.

## 3. The modules and the code

Everywhere one step is one atomic access or one critical section of a Rust
`Mutex` whose body touches nothing that other threads reach without that mutex.
Memory is sequentially consistent: the runtime's atomics are `SeqCst` in the
lock, and acquire/release or relaxed elsewhere, so effects of weaker orders are
outside the models.  `Condvar`s may wake spuriously.  Generated wrappers are
`extern "C"`, so a panic that reaches one ends the program.

**FutexMutex.**  `flag[m]` is the lock word, `bucketLock[b]` the owner of
`Bucket.mtx`, `pc[t]` the position of a thread in its lock block, `target[t]` its
mutex, `rounds[t]` the bound on how often it comes back.  `FastAcquire` and
`Release` are the instructions that `compile_lock_block` and
`CleanupAction::ReleaseMutex` emit.  `Swap`, `LockBucket`, `LoadFlag`, `CvWait`,
`CvReturn` and `SwapUnderBucket` are the lines of `parking::lock`; note that the
branch that does not sleep keeps the bucket guard over the second swap, while the
branch that slept has dropped it.  `LockBucketToWake` and `NotifyAll` are
`unlock_wake`.  The hash of addresses is the constant `BucketFor`.
**AbstractLock** says what a lock is: an owner is set only when there is none.

**Channel.**  Actors are the `Sender` ends and the tasks that use the one
`Receiver`.  `CloneSenders`/`CloneTotal`, and `DropSender`, `SetClosed`,
`CloseNotifyAll`, `ReleaseSender`, split clone and drop at each counter access.
`BeginSend` loads `total`, `CheckReceiver` loads `senders`, `Enqueue` is the
critical section, `NotifyOne` the notification after it.  `Recv` is one turn of
the receive loop.  `accepted`, `received` and `dropped` are history.  A `send`
that panics stops the program (`Running`).  `Init` picks a `shape`: a capacity,
the ends and the number of sends.  Payloads are numbers: only identity
and order matter to the properties.

**TaskGroup.**  `site[h]` is how far the spawn site of handle `h` has got
(spawn, register in two steps, detach in one or, for a coroutine, two), `run[h]`
is the task, `join[h]` an explicit join.  Deciding to free a handle (`freers`) and
freeing it (`freed`) are separate, because the code decides under a lock and frees
after it.  `MarkRegistered`, `PushAndSweep` are `taskgroup_register`; `Complete`
is the worker's last critical section; `Retain` is the `Vec::retain` of the sweep;
`SignalSlot` and `ArmReap` are the two sides of the park slot; `GroupTake`, `GroupJoinNext`, `GroupFree` are `join_and_free`.
What the coroutine does between its start and its end belongs to the event loop.

**WorkPool.**  `stack[th]` is the stack of a thread: a join frame on which helped
tasks pile up, each possibly with a nested call on top.  `Fork` counts and pushes
the branches, `Announce` notifies; `Check`, `Cascade`, `Help`, `Block` and `Wake`
are the loop of `par_join_wait` (with no parent flag, that of
`dispatch_and_wait`); `Load`, `Finish`, `Fail`, `Leave` and `Notify` are
`execute_task`.  A branch in `Endless` returns only when it sees its cancel flag,
at the check that `emit_branch_cancel_check` inserts; `Spin` is a round of its
loop.  `Fail` is a branch whose result is `Err`: the code of `emit_par_branch_fn`
stores the flag.  What a branch computes is left out, and so
is which error a call reports; output capture and the inlining of nested regions
are in `AutoPar`.  The variable `program` picks one of the constant `Programs` (a
set of workers and of calls) in `Init`, so that one run covers two shapes.

**EventLoop.**  A token is `<<task, n>>`, the n-th registration of a task.  A park
is the sequence of steps in which the registering thread can be overtaken:
`Publish` (coro.save and the entry under the fds lock), `Arm` (the epoll ADD,
which fails and rolls back for a closed descriptor and for one that is armed;
the code rolls back on any error, but running out of memory or of epoll watches
is outside the model), `WakeShard`, `RecheckCancel` and, if the flag was
set, `RampRequest` and `RampFanOut`, then `StoreToken` into the frame.
`ramp[tok]` is its progress.  `SetCancel`, `CancelRequest` and `CancelFanOut` are
`TaskGroup.cancel`.  The dispatcher of shard `s` is `pc[s]`: `EnterPoll` takes the
timeout from the heap, `Poll` returns with the reported edges, `Translate` is the
rest of `run_once`, `Claim` the one-shot claim, `InvokeBlocked` and `InvokeCoro`
the poll function, `DestroyEdge`, `ResumeEdge` and `ShimDone` what it runs,
`FinishBatch` and `Collect` the cancel sweep.  Three kinds of tasks park:
coroutines, callers that block on a slot, and sleepers.  Callers and sleepers are
always threads of their own.  In the code they need not be: a `sleep_ms`
(`src/codegen/tcp.rs:263`) or a coroutine driven inline
(`src/codegen/call_dispatch.rs:1056`) inside the body of a resumed coroutine blocks
the dispatcher thread that drives it, and with it the shard, whose own poll might be
what the body waits for; the progress properties say nothing of such bodies.

A coroutine resumed before its token was stored reads a word of its frame that
nobody has written for this park (`Loaded`): nothing, an old token, or whatever the
allocator left there.  `deregister_fd` takes the local id out of it and looks it up
on the shard of the descriptor, so the word may name any entry of that shard.  The
constant `Stray[t]` is the set of entries it may name.  The comment at
`src/codegen/coro.rs:975` calls the call "a no-op whatever the field holds".  That is
so when the word is a token of the same coroutine on the same shard, since it was claimed;
the runs use `OwnStray`.  With a foreign id (`Stray[t] = Tokens`, a coroutine beside
a blocked caller on one shard) TLC finds the caller's registration removed and
`SuspendedIsReachable` violated; the other safety properties are proved for any
`Stray` (section 5).  The kernel's part is
external: an edge is reported once, an ADD reports data already there, closing a
descriptor takes it out of the set (`Close`, `Reported`, `PollReturns`).  `Init`
picks one of `Programs`, a set of tasks.  Only deadlines observe the clock.

**Concurrency** is the analysis as pure operators over statement summaries
(records with the fields of `StmtInfo`; the walk of `analyze_stmt` that fills them
from the syntax is not translated, `reads` and `defines` only unite its parts):
`statements_conflict` and the second walk
`conflict_detail`, the inverted indices behind `candidates`, the graph
(`conflicts`), `find_parallel_groups`, and the reorder advisory (`Reordered` is what
its advice means; the compiler moves nothing).  The loop of
`find_parallel_groups` is a recursive function over the start of the next group:
`Fits` is what a candidate is tested for, `GroupEnd` the inner loop, `ScanRound` a
round of the outer one.  `is_seq` is left out because `analyze_function` never sets
it.

**AutoPar** compiles and runs a body.  `Compile` is the planning loop: a group is
dispatched if it is not trivial, contains no `par` block and its results can be
carried over the join (`CanCarry`, `return_slots`); the cost gate, slot types and
the drop-point check depend on costs and types and may decline any group.
`RunSequential`, `Fork`, `BranchEffect`, `BranchEnd`, `Join`, `Return` are the
emitted code.  Each branch works on a copy of the parent's locals (captured `Atomic`
and `Mutex` values are passed by pointer, `src/codegen/par_blocks.rs:866`, and are no
locals of the model: what branches do to each other through them is the program's
own synchronisation), performs its
effects one at a time, interleaved with the other branches (or in order, when the
region is inlined: `inline`), prints into its capture, frees what no slot takes
over and hands the rest to the parent; `Join` loads the slots and replays the
captures in branch order (the members of a group are consecutive statements).
Values are terms that record what was read
and seen, so equal terms mean equal inputs.  A statement also carries what the
analysis does not see: the effects of a polymorphic callee, its connection, and
whether its early exit is taken.

What an effect touches is a set of `Cells`: the partitions of a resource that is
read or written, the two directions of a connection, the resource of a user-defined
verb.  Two assumptions say how a summary relates to its statement.
`SummariesAssumption`: only a generic callee has effects that are not in the summary
(they depend on the instance); distinct receivers of network methods are distinct
connections; `Network` is only sent to and received from, as the effect checker
seeds it (`effects_conflict_excluding_network` lets any pair of verbs on `Network`
pass, so a user function that declares `reads(Network)` or `writes(Network)` is
outside the theorem); a channel effect shows as a channel operation, and an exit that is taken
as a possible one; names are introduced by a let pattern.  `ScopesAssumption`: names
are bindings, each with one let, so no statement assigns or consumes what it
introduces, or introduces what was there on entry or what an earlier one binds or
assigns.  TLC evaluates both on the bodies of every run.

Operators whose comment begins with "Mistake:" are plausible slips in the
definition that follows them.  They are not part of any specification;
`PROJECT.json` pairs each with the property that rejects it.

## 4. Runs

| run | instance | shows |
|---|---|---|
| futex_mutex | 4 threads, 2 mutexes in one bucket, 1 round each | exclusion, no lost wakeup, the flag tells the truth, refinement of `AbstractLock`, and every thread that starts to wait gets in |
| channel | 2 receiving tasks; 3 Sender ends and 1 send, or 2 ends and 3 sends, unbounded or with capacity 1 | lifetime of the box, meaning of `closed`, wakeups, payload accounting (rejected ones too), the bound, and a parked receiver returns once the senders are gone |
| task_group | 2 pool tasks and 1 coroutine, Main the only one to spawn into the group, 3 workers | one freer, no use after free, no leak, no child outlives the group, and dropping the group returns unless an uncancelled coroutine stays parked |
| work_pool | 2 workers and 2 calls of 2 branches, or 1 worker and 3 calls nested up to three deep; one branch endless | exact counting, the barrier, no lost wakeup, and every call returns because joiners help |
| event_loop | 2 shards; a coroutine that parks twice on one descriptor, or a caller that blocks twice beside a sleeper; 1 clock tick | dispatchers touch live memory only; no readiness, cancellation or deadline is lost; a cancelled coroutine ends, data resumes its park, a sleep returns |
| auto_par | all well-formed bodies of 3 statements out of 27 kinds and of 4 out of 7, tail expression reading everything or nothing | the compiled function agrees with its statements in source order, frees every buffer and none twice; the members of a dispatched group are independent; the sparse graph misses nothing and every edge has a cause; advised reorders are harmless |

Six runs end in a violation, each of one statement of a comment or document
(quoted in `PROJECT.json` under "findings"):

| run | what TLC shows |
|---|---|
| channel_spurious_closed | a send that loads `total` before and `senders` after another task's clones gives up although the Receiver is live |
| task_group_reentrant | a child that spawns into its group after `join_and_free` has taken the list is neither waited for nor freed |
| task_group_detach_race | with two spawners, the sweep of one frees a coroutine handle between two accesses of the other's detach |
| work_pool_cascade | a nested joiner that helps with its own endless branch never polls its parent's flag |
| event_loop_late | a cancelled coroutine is destroyed while its registering thread has yet to store the token into its frame |
| auto_par_let_else | an assignment inside a group is lost when only the else block of a later let-else reads the name |

The instance of `task_group` excludes spawning from inside a child because the two
runs above show what happens then; with it excluded, the handshakes are right.

Bounds.  Two mutexes on one bucket with four threads (a holder and a sleeper on
each) is the smallest instance in which a notification can reach the wrong waiter
while the right one sleeps; waking one waiter instead of all passes with three.
With four it breaks `NoLostWakeup` and not `EveryWaiterEnters`: a waiter who gets
in marks the flag contended, so the chain of wakeups goes on and comes round in
the end, after holders of other mutexes have left.
Three Sender ends let a clone, a drop and a send overlap.  One
coroutine next to two pool tasks lets a sweep, a completion and a detach overlap.
Two calls of two branches give nesting in either order, and a helper that picks up
a branch of the outer, the inner or its own call.  `MaxRounds`, `MaxSends` and the
number of ends, handles and calls only cap how long a program runs.  `Workers` is
3 in the group runs: `task_join` blocks its worker without helping, so with two
workers nested joins stop the pool, as the code documents ("no work-helping",
`runtime/src/channel.rs`).  No run uses symmetry, since all
but `auto_par` and some violation runs check liveness.

In `event_loop`, two parks on one descriptor are what a stale epoll entry or a
late wakeup needs to hit the second registration; two shards are what a cancel
fan-out needs to miss one; one clock tick separates a sleep that is due from one
that is not, and a sleeper on the caller's shard shares its poll.  `MaxTime` caps
the clock and `Route` the number of parks.  A coroutine whose two parks are on
different shards (`Programs = {{c1}}`, 141 790 states) satisfies the same
properties; it is kept out of the run for its size and is the instance of
`event_loop_late`.  One descriptor number belongs to one
task: when two coroutines reuse a number, a late ADD of a destroyed coroutine can
arm the other's descriptor (listed under the hazards).  In `auto_par` the
catalogue has one kind of statement for each distinction that the analysis or the
planner draws; three statements are a group of two with a statement before,
between or after, four are a group of three or two groups.  Bodies with let-else
are in the violation run only.

Fairness.  The operating system runs every thread that can run: weak fairness of
each thread's steps.  The bucket locks of
`FutexMutex` need not be fair: with `MaxRounds` finite the rivals for one run out.
Nothing makes a thread enter a lock block, send,
spawn or fork, no spurious wakeup is ever due, and the readiness of an uncancelled
coroutine is up to its peer.  A Sender is dropped sooner or later, by the
scope-exit cleanup the compiler emits.  In `WorkPool` only a nested join has a
timeout; a top-level join and a sleeping worker depend on being notified.  In
`EventLoop` the registering, cancelling, blocked and dispatching threads are
weakly fair and the clock advances; a poll that is retried after an interruption
is not interrupted for ever (strong fairness of `Poll`).  No peer need send and no
group cancel.  `AutoPar` is weakly fair as a whole; it states safety only and
stops when the function has returned.

## 5. Proofs

Each proof module finds an inductive invariant `IInv`, shows that the initial states
satisfy it and that every action keeps it, one lemma per conjunct or per action, and
derives the properties that the runs check.  The conjuncts that are not properties
themselves say what the code relies on without writing it down.

### Locks

`FutexMutexProofs` proves, for any set of threads and mutexes, any buckets, any
`BucketFor` and any `MaxRounds`:

* `TypeCorrect`: `Spec => []TypeOK`;
* `MutexSafe`: `Spec => []MutualExclusion`;
* `WakeupNeverLost`: `Spec => []NoLostWakeup`;
* `FlagTruthful`: `Spec => []FlagMatchesHolder`;
* `Refinement`: `Spec => ImplementsLock`.

The assumptions are those of `FutexMutex`: `BucketFor` maps mutexes to buckets,
`MaxRounds` is a natural number, `NoThread` is not a thread.  The inductive
invariant is `IInv`.  Exclusion is not inductive alone, since a swap that reads 0
must have no rival: that is `FlagMatchesHolder`.  `NoLostWakeup` is not inductive
alone either: `notify_all` discharges the promise made to every thread asleep on
the bucket, so no thread may be between its check of the flag and its wait at
that moment; `BucketOwned` (the thread inside the bucket's critical section owns
the bucket's lock) rules that out.  `HolderStep`, `BucketStep` and `WakeupStep`
each take the actions one by one.  For the refinement, the owner of a mutex is the
thread in its block, unique by `MutualExclusion`; `AcquireRefines` and
`ReleaseRefines` map the taking and the leaving steps to those of `AbstractLock`,
and every other step leaves the owner alone.

### Channels

`ChannelProofs` proves, for any finite sets of Sender ends and receiving tasks, any
capacity and any number of sends, that the specification satisfies `TypeOK`
(`TypeCorrect`), `FreedIffNoEnds` (`BoxFreedWithLastEnd`), `ClosedMeansNoSender`
(`ClosedIsFinal`), `PayloadConservation` (`PayloadsConserved`), `WithinCapacity`
(`CapacityHolds`) and `NoLostWakeup` (`NoReceiverStranded`).  The sets are finite
because the counters are cardinalities; `BoundsAssumption` says only that a shape is
a capacity, a set of ends and a number of sends.

The two counters are moved separately, so `IInv` says what each counts in between:
`TotalExact` (the live ends and the Receiver) and `SendersExact`, where a Sender
half-way through a clone counts twice.  From them, whoever brings `total` to 0 is
the last end (`BoxLives`), and whoever brings `senders` to 0 leaves nobody who can
push or clone (`LastSender`), which is why `closed` is final.  `DropKnown` is what
the destructor needs: whatever it finds in the queue, `elem_drop` has been stored,
since every call stores it before it can push.

### Task groups

`TaskGroupProofs` proves, for any tasks, any of them coroutines, and any number of
workers:

* whoever spawns into the group: `TypeOK`, `FreedByOne` (`HandleFreedByOne`) and
  `DetachedReclaimed` (`DetachedIsReclaimed`);
* if only the owner does (`GroupSpawners \subseteq {Main}`): `NoUseAfterFree`
  (`HandlesOutliveUses`) and `NoChildOutlivesGroup` (`ChildrenEndWithGroup`).

The hypothesis of the second pair cannot be dropped: the runs
`task_group_detach_race` and `task_group_reentrant` violate one conclusion each
without it.  `IInv` has four parts.  `Progress` ties the flags of a handle to how
far its spawn site and its task have got.  `Claims` says what a decision to free
presupposes, and that a discarded free spawn always has a decision made or still
to come.  `Lists` says that the group lists exactly the registered handles nobody
has claimed, each once: this is what keeps the sweep and the drop of the group from
freeing the same handle.
`OneAtATime` says that a thread is in one spawn site at a time.

### Worker pool

`WorkPoolProofs` proves, for any workers and callers and any nest of calls, that the
specification satisfies `TypeOK`, `RemainingExact` (`RemainingIsExact`), `JoinBarrier`
(`JoinIsABarrier`) and `NoLostWakeup` (`NoWakeupLost`).  The assumptions: there is a
worker, a call has at least one branch, and no two calls share one.

`remaining` is decremented by whichever thread ran the branch, at any depth of any
stack; counting right needs that a branch is in one place, the queue or one frame
of one stack (`OnePlace`), that only branches of calls already made are anywhere
(`Made`), and that a frame below the top is inside a body or helping (`Deep`), so
that popping the top returns to a known place.  The barrier then follows from
`RemainingExact`: a call is joined with `remaining` 0.  The lemmas first treat the
stack position by position, then the branches still pending, then one action each.

### Event loop

`EventLoopProofs` proves, for any tasks, descriptors, shards, routes, programs,
clock bound and `Stray`, that the specification satisfies `TypeOK`, `DispatcherDerefsLive`
(`DereferencesAreLive`), `NoLostReadiness` (`ReadinessNotLost`), `SweepWillFind`
(`CancelIsFound`; its second part is `RequestedShardAwake`) and `NoTimerOverslept`
(`TimersInTime`).  The assumptions: a route is a nonempty sequence of descriptors,
every descriptor and sleeper has a shard, stray words name tokens or nothing, the
kinds of tasks are disjoint, and `None` is none of the values it stands beside.

`Live` carries the memory safety: a registered coroutine is parked on that very
token, and at most one side, the token map or one dispatcher, has it; so the one
that claims it finds its frame and its handle.  `SweepCovers` strengthens the first
part of `SweepWillFind` to hold from the moment of the registering thread's own
request, before the fan-out wakes the shard.  `Armed` says that a token is used once, and
armed on its own descriptor, without which an edge could be taken for that of an
earlier park.  `Idle` says that a dispatcher enters its poll with no token left
over, `Wired` and `StartedFirst` that it works on tokens, after it was started.
`LeastExists` provides the head of the timer heap.

`EventLoopReachProofs` proves `SuspendedIsReachable` (`ParkedIsReachable`) under the
hypotheses `OwnNumbers`, that no two tasks of one program park on the same descriptor
number, and `OwnWords`, that an unwritten token field names no other task's
registration.  Without either it is false: these are the hazards listed at
`runtime/src/event_loop.rs:315` and `src/codegen/coro.rs:1073`.  What has to be shown is that the epoll ADD of a
live park is never refused, for a refusal rolls the registration back
(`ArmSucceeds`).  The descriptor is open because the task still has a body to go
on with (`OpenOwned`, `Apart`), and nothing is armed on it because whatever is armed
is the last park of its task (`Registered`), and because a coroutine that is
resumed was armed and has been disarmed again (`Resumable`).  A task outside
`byToken` is then in the hands of a dispatcher or has been signalled (`Reach`).

### Inferred parallelism

`AutoParProofs` proves, for every body of any length over any names, resources and
verbs:

* `NothingMissed`: `Spec => []SparseIsDense`;
* `CauseReported`: `Spec => []EdgesExplained`;
* `BranchesIndependent`: `Spec => []GroupsIndependent`;
* `NoDoubleFree`: `Spec => []FreedOnce`;
* `TypeCorrect`: `Spec => []TypeOK`.

A conflict has one of three reasons, and each puts the pair into one of the
inverted indices: a shared binding (`BindingCandidate`), a polymorphic call next
to an effect (`PolyCandidate`), a shared resource (`EffectCandidate`, with
`RelaxedConflict` for the two network relaxations); `ConflictIsCandidate` puts
them together.  `ConflictHasDetail` follows the second walk through the same
cases.  `CauseReported` also has to know which of the two statements the edge was
confirmed with first; that takes one assumption, that a body's statements are
a sequence (`BodiesAssumption`), and the invariant that the body stays the one
chosen at the start (`BodyFixed`).

`BranchesIndependent` is about what statements do, where the analysis only sees
summaries.  `GroupsAreRuns` shows of the scan that its groups are disjoint runs of
statements, and `MembersFit` that any two members passed each other's tests.
`NoInterference` then takes two statements that do not conflict, do not both use
channels and consume nothing, and shows that neither changes a local or a cell the other uses: a shared binding would
be a conflict, a hidden effect makes its statement polymorphic and so conflicts
with every effect, and a shared cell means a shared resource and key
(`MeetingConflicts`) or, where a relaxation lets two network calls pass, a shared
connection (`MeetingConnections`), which `SummariesAssumption` rules out.

`NoDoubleFree` needs the invariant `HInv`.  A buffer is named by the statement and
the owner it was made for, so it is enough to know who can have it: the parent's
buffers come from statements already passed and have not been freed (`Owned`); what
has been freed comes from such statements or from a branch that has ended, and then
no slot takes it over (`FreedPast`); a branch has the parent's buffers and those of
its own let (`Copies`); and the running branches are those of one dispatched group,
which starts at the current statement (`OneGroup`, `PlanExact`).  Three guards of
the code carry the argument: no branch consumes a captured owner
(`SequentialOnly`), none assigns a captured container (`CanCarry`), and a branch
frees its own bindings except the published ones (`BranchCleanup`).

The scan and the two folds, over the effects of a statement and over the statements
of a body, are recursive functions.  None is unfolded by the provers: `ScanExists`
and `FoldExists` show that a function with the defining equation exists, `Prefix`
names what a fold has computed after the first k positions, and claims about it are
proved by looking at the least position at which they fail (`LeastExists`).

`AutoParSerialProofs` proves the two properties that compare runs:

* `Deterministic`: `Spec => []SerialEquivalence`, if every body satisfies `ElseSeen`;
* `AdviceSound`: `Spec => []ReorderSound`.

`ElseSeen` says that the else block of a let-else reads nothing an earlier statement
binds or assigns unless the let's value reads it too.  The planner does not look into else
blocks, so a group may be dispatched although such a block reads what it assigns;
the run `auto_par_let_else` shows the wrong result, and without the hypothesis the
theorem is false.  A body without let-else satisfies it, those of the run
`auto_par` among them.

Both theorems rest on `Locality`: the first k effects of a statement, begun from
locals that agree on what it reads and from worlds that agree on the cells it
touches, see the same, leave the same in those cells and print the same, and leave
all other cells alone.  `Ref(body, k)` is the state of the source order after k
statements; `Stretch` says what a stretch of it keeps, `MemberRun` that a member of
a group finds there what it would find at the start of the group and that what it
makes is still there at the end, because members are independent.

The invariant of `Deterministic` is `SInv`.  With k statements passed, the frame
holds what `Ref(body, k)` holds of every local that a later statement or the tail
reads (`LiveReads`, `FrameOK`): the others may differ, since a branch's assignment
to a local nobody reads is lost.  Outside groups the world and the console are those
of `Ref(body, k)`; inside one, a cell is as it was before the group unless a running
member modifies it, and then it is as that member, run alone from the
reference state, has left it (`BranchOK`, `WorldOK`).  Buffers given back or still
owned are those made by the statements passed (`Made`) and by branches that have
freed their own (`Dropped`), so that the function as a whole gives back what the
reference gives back.  At the join, `JoinValues` needs the planner's rules: a local
read later that the group defines is in a slot, or `CanCarry` would have declined
the group; `JoinConsole` shows that replaying the captures in order is the reference
output (`Replay`), `JoinHeap` that slots and branch cleanup are complementary.
Early returns are in the theorem: a member has none (`MemberStays`), and a
statement outside a group that returns ends both runs in the same state.

`AdviceSound` compares the source order with the advised one.  `ReorderedIs`
computes the advised order; it moves one statement over a gap, so the two orders are
the same but for a statement that is first in a stretch of one and last in that
stretch of the other (`Slid`).  The mover is no channel operation and has no
conflict with the gap, so it does not meet it (`MoverApart`); after the mover the
one run is ahead of the other by exactly what the mover changes (`GapAlike`), and
after the stretch they agree on locals, world and result (`SlidAgree`).  The output
is not compared: a statement without `has_console_output` may print through a call.

### Only model-checked

The liveness properties (`EveryWaiterEnters`, `BlockedRecvReturns`,
`GroupDropReturns`, `EveryCallJoins`, `CancelledEnds`, `ReadyResumes`,
`SleepReturns`): TLAPS does not handle fairness and ENABLED.  Every other property of
a passing run is a theorem.

## 6. Not modelled

Of the event loop: the shutdown and restart of the dispatcher, the background
poller with its `poll` and `take_wakeups` interface, `cancel_timer` and the
Windows path; generated programs start the combined dispatcher and use none of
them.  Of inferred parallelism: how summaries are collected from syntax trees,
reduction and disjoint-write loops, uninitialised lets, shadowing (a name is one
binding), helper functions that send
on a captured channel (the effect checker decides what a summary knows of them),
provider and span inheritance, and `Result`-typed branches of explicit `par`.

The small primitives are mostly one critical section per operation; the rate
limiter computes with floating point.  The schedulers without threads, the
chunking of reductions and the build cache are planned (section 2).  The other
compiler passes, the interpreter, data structures and I/O are sequential programs
over unbounded inputs; the language server, kernel, playground and examples hold
no protocol of their own.  Weak memory orders, allocation failure and exhausted
kernel limits, coroutine bodies that block their dispatcher thread, lock blocks
nested in one another (a thread waits or holds one at a time, so lock-order
deadlocks are not looked for) and program exit while threads run are outside the
models.
