------------------------------ MODULE EventLoop ------------------------------
(***************************************************************************)
(* The reactor: EventLoop shards, the combined dispatcher threads that     *)
(* poll and dispatch them (runtime/src/event_loop.rs), and the code that   *)
(* codegen emits around a park (codegen/coro.rs, declarations.rs).         *)
(*                                                                         *)
(* Three kinds of tasks park here: coroutines (register_fd_cancel, driven  *)
(* by the dispatcher, cancellable), callers that block on a completion     *)
(* slot until a file descriptor is ready (park_on_fd), and sleepers        *)
(* (park_on_timer).  Publication of a registration, its epoll ADD, the     *)
(* wake of the shard, the cancel re-check and the store of the token are   *)
(* separate steps of the registering thread: the dispatcher may resume,    *)
(* finish and free the coroutine between any two of them.                  *)
(*                                                                         *)
(* A token is <<task, n>>, the n-th registration of a task: next_token is  *)
(* never reused.  The dispatcher is started by the first park and stays    *)
(* up; no generated program shuts it down.                                 *)
(***************************************************************************)
EXTENDS Naturals, Sequences, FiniteSets

CONSTANTS
  Coros,       \* tasks made by karac_runtime_spawn_coro
  Callers,     \* threads that park with park_on_fd
  Sleepers,    \* threads that park with park_on_timer
  Fds,         \* descriptor numbers
  Shards,      \* reactor shards, one dispatcher thread each
  Route,       \* Route[t]: the descriptors task t parks on, in order
  Programs,    \* sets of tasks, one of which the program starts
  ShardOf,     \* ShardOf[x]: shard of a descriptor or of a sleeper's timer
  Stray,       \* Stray[t]: entries a word t finds in an unwritten token field may name
  None,
  MaxTime      \* bound on the clock

ASSUME RouteAssumption == Route \in [Coros \union Callers -> Seq(Fds) \ {<<>>}]
ASSUME ShardAssumption == ShardOf \in [Fds \union Sleepers -> Shards]
ASSUME KindAssumption ==
  /\ Coros \intersect Callers = {}
  /\ Sleepers \intersect (Coros \union Callers \union Fds) = {}
ASSUME ProgramAssumption == Programs \subseteq SUBSET (Coros \union Callers \union Sleepers)
ASSUME BoundAssumption == MaxTime \in Nat

Parkers == Coros \union Callers
FdTokens == UNION {{<<t, n>> : n \in DOMAIN Route[t]} : t \in Parkers}
Tokens == FdTokens \union {<<z, 1>> : z \in Sleepers}
FdOf(tok) == Route[tok[1]][tok[2]]
ShardOfToken(tok) == IF tok[1] \in Sleepers THEN ShardOf[tok[1]] ELSE ShardOf[FdOf(tok)]

ASSUME StrayAssumption == Stray \in [Coros -> SUBSET Tokens]
ASSUME NoneAssumption == None \notin Nat /\ None \notin Tokens /\ None \notin Parkers

VARIABLES
  byToken,     \* EventLoopFds.by_token of every shard
  timers,      \* EventLoopFds.timers: tokens still in the heap
  deadline,    \* FdState.deadline of a sleeper's registration
  interest,    \* the epoll set: the token a descriptor is armed with
  edge,        \* descriptors with an event the next poll will report
  ready,       \* descriptors with data nobody has read
  open,        \* open[f]: the task that owns the open descriptor f
  waker,       \* shards whose mio waker is armed
  now,         \* Instant::now()
  started,     \* the dispatcher runs (DISPATCHER_ACTIVE)
  sweep,       \* SchedulerDispatcher.sweep_requested
  pc,          \* pc[s]: where the dispatcher thread of shard s is
  timeout,     \* timeout[s]: when its poll gives up, None for never
  batch,       \* batch[s]: tokens it has yet to claim
  sweeping,    \* sweeping[s]: the batch is a cancel sweep's snapshot
  current,     \* current[s]: the token it has claimed
  ramp,        \* ramp[tok]: progress of the call that registers tok
  at,          \* at[t]: where task t is
  park,        \* park[t]: registrations made so far
  cancel,      \* coroutines whose handle has its cancel flag set
  canceller,   \* canceller[t]: progress of the TaskGroup.cancel that hits t
  signalled,   \* tasks whose completion slot is done
  frames,      \* coroutines whose frame is allocated
  handles      \* coroutines whose handle is allocated

loop  == <<byToken, timers, deadline, interest, edge, waker>>
disp  == <<pc, timeout, batch, sweeping, current>>
tasks == <<ramp, at, park>>
owned == <<signalled, frames, handles>>
vars  == <<loop, ready, open, now, started, sweep, disp, tasks, cancel, canceller, owned>>

RampSteps == {"none", "add", "wake", "check", "request", "fanout", "store", "done"}
Places == {"new", "body", "parked", "final", "ended"}
Pcs == {"off", "top", "poll", "got", "claim", "collect",
        "invoke", "destroy", "resume", "shim"}

TypeOK ==
  /\ byToken \subseteq Tokens /\ timers \subseteq Tokens
  /\ deadline \in [Sleepers -> 0..MaxTime]
  /\ interest \in [Fds -> FdTokens \union {None}]
  /\ edge \subseteq Fds /\ ready \subseteq Fds /\ waker \subseteq Shards
  /\ open \in [Fds -> Parkers \union {None}]
  /\ now \in 0..MaxTime /\ started \in BOOLEAN /\ sweep \subseteq Shards
  /\ pc \in [Shards -> Pcs] /\ timeout \in [Shards -> (0..MaxTime) \union {None}]
  /\ batch \in [Shards -> SUBSET Tokens] /\ sweeping \in [Shards -> BOOLEAN]
  /\ current \in [Shards -> Tokens \union {None}]
  /\ ramp \in [Tokens -> RampSteps]
  /\ at \in [Parkers \union Sleepers -> Places] /\ park \in [Parkers -> Nat]
  /\ cancel \subseteq Coros /\ canceller \in [Coros -> {"no", "flag", "request", "done"}]
  /\ signalled \subseteq Parkers \union Sleepers
  /\ frames \subseteq Coros /\ handles \subseteq Coros

Init ==
  /\ byToken = {} /\ timers = {} /\ deadline = [z \in Sleepers |-> 0]
  /\ interest = [f \in Fds |-> None] /\ edge = {} /\ ready = {}
  /\ open = [f \in Fds |-> None] /\ waker = {} /\ now = 0
  /\ started = FALSE /\ sweep = {}
  /\ pc = [s \in Shards |-> "off"] /\ timeout = [s \in Shards |-> None]
  /\ batch = [s \in Shards |-> {}] /\ sweeping = [s \in Shards |-> FALSE]
  /\ current = [s \in Shards |-> None]
  /\ ramp = [tok \in Tokens |-> "none"]
  /\ \E prog \in Programs :
       at = [t \in Parkers \union Sleepers |-> IF t \in prog THEN "new" ELSE "ended"]
  /\ park = [t \in Parkers |-> 0]
  /\ cancel = {} /\ canceller = [t \in Coros |-> "no"]
  /\ signalled = {} /\ frames = {} /\ handles = {}

FdsOf(t) == {Route[t][n] : n \in DOMAIN Route[t]}
Last(t) == <<t, park[t]>>
Step(f, x, v) == [f EXCEPT ![x] = v]

(***************************************************************************)
(* Tasks up to the park.                                                   *)
(***************************************************************************)

\* A task starts on a pool worker or its own thread, with descriptors nobody
\* else has open; for a coroutine, spawn_coro has made the handle and
\* coro.begin the frame.
Begin(t) ==
  /\ at[t] = "new"
  /\ \A f \in FdsOf(t) : open[f] = None
  /\ open' = [f \in Fds |-> IF f \in FdsOf(t) THEN t ELSE open[f]]
  /\ at' = Step(at, t, "body")
  /\ frames' = frames \union ({t} \intersect Coros)
  /\ handles' = handles \union ({t} \intersect Coros)
  /\ UNCHANGED <<loop, ready, now, started, sweep, disp, ramp, park,
                 cancel, canceller, signalled>>

\* karac_runtime_scheduler_start_dispatcher, before the first park; idempotent.
StartDispatcher ==
  /\ ~started
  /\ (\E t \in Parkers : at[t] = "body") \/ (\E z \in Sleepers : at[z] = "new")
  /\ started' = TRUE
  /\ pc' = [s \in Shards |-> "top"]
  /\ UNCHANGED <<loop, ready, open, now, sweep, timeout, batch, sweeping, current,
                 tasks, cancel, canceller, owned>>

\* The park: commit the suspended frame (coro.save) or the state tag, and
\* publish the entry under the fds lock.
Publish(t) ==
  /\ started /\ at[t] = "body" /\ park[t] < Len(Route[t])
  /\ park' = Step(park, t, park[t] + 1)
  /\ LET tok == <<t, park[t] + 1>>
     IN  byToken' = byToken \union {tok} /\ ramp' = Step(ramp, tok, "add")
  /\ at' = Step(at, t, "parked")
  /\ UNCHANGED <<timers, deadline, interest, edge, waker, ready, open, now, started, sweep,
                 disp, cancel, canceller, owned>>

\* epoll ADD: reports a descriptor that is ready already; fails for a closed
\* descriptor and for one that is armed, and then the entry is rolled back and
\* the token is 0.
Arm(tok) ==
  /\ ramp[tok] = "add"
  /\ LET f == FdOf(tok)
         ok == open[f] # None /\ interest[f] = None
     IN  /\ interest' = IF ok THEN Step(interest, f, tok) ELSE interest
         /\ edge' = IF ok /\ f \in ready THEN edge \union {f} ELSE edge
         /\ byToken' = IF ok THEN byToken ELSE byToken \ {tok}
         /\ ramp' = Step(ramp, tok, IF ok THEN "wake" ELSE "store")
  /\ UNCHANGED <<timers, deadline, waker, ready, open, now, started, sweep, disp,
                 at, park, cancel, canceller, owned>>

\* Mistake: the wake is addressed by token in place of shard.
WakeToken(tok) ==
  /\ ramp[tok] = "wake"
  /\ waker' = waker \union {tok}
  /\ ramp' = Step(ramp, tok, IF tok[1] \in Coros THEN "check"
                             ELSE IF tok[1] \in Callers THEN "store" ELSE "done")
  /\ UNCHANGED <<byToken, timers, deadline, interest, edge, ready, open, now, started,
                 sweep, disp, at, park, cancel, canceller, owned>>

\* Mistake: a new timer does not wake the shard.
WakeFdsOnly(tok) ==
  /\ ramp[tok] = "wake"
  /\ waker' = IF tok[1] \in Sleepers THEN waker ELSE waker \union {ShardOfToken(tok)}
  /\ ramp' = Step(ramp, tok, IF tok[1] \in Coros THEN "check"
                             ELSE IF tok[1] \in Callers THEN "store" ELSE "done")
  /\ UNCHANGED <<byToken, timers, deadline, interest, edge, ready, open, now, started,
                 sweep, disp, at, park, cancel, canceller, owned>>

\* finish_register: wake the descriptor's shard.
WakeShard(tok) ==
  /\ ramp[tok] = "wake"
  /\ waker' = waker \union {ShardOfToken(tok)}
  /\ ramp' = Step(ramp, tok, IF tok[1] \in Coros THEN "check"
                             ELSE IF tok[1] \in Callers THEN "store" ELSE "done")
  /\ UNCHANGED <<byToken, timers, deadline, interest, edge, ready, open, now, started,
                 sweep, disp, at, park, cancel, canceller, owned>>

\* Mistake: a registration that does not look at the cancel flag again.
NoRecheck(tok) ==
  /\ ramp[tok] = "check"
  /\ ramp' = Step(ramp, tok, "store")
  /\ UNCHANGED <<loop, ready, open, now, started, sweep, disp, at, park,
                 cancel, canceller, owned>>

\* finish_register: a flag set before the entry was published had no sweep to
\* find it, so ask for one.
RecheckCancel(tok) ==
  /\ ramp[tok] = "check"
  /\ ramp' = Step(ramp, tok, IF tok[1] \in cancel THEN "request" ELSE "store")
  /\ UNCHANGED <<loop, ready, open, now, started, sweep, disp, at, park,
                 cancel, canceller, owned>>

\* karac_runtime_request_cancel_sweep: every shard's flag (if the dispatcher
\* runs), then every shard's waker.
RequestSweep == sweep' = IF started THEN Shards ELSE sweep
FanOut == waker' = waker \union Shards

RampRequest(tok) ==
  /\ ramp[tok] = "request"
  /\ RequestSweep
  /\ ramp' = Step(ramp, tok, "fanout")
  /\ UNCHANGED <<loop, ready, open, now, started, disp, at, park,
                 cancel, canceller, owned>>

RampFanOut(tok) ==
  /\ ramp[tok] = "fanout"
  /\ FanOut
  /\ ramp' = Step(ramp, tok, "store")
  /\ UNCHANGED <<byToken, timers, deadline, interest, edge, ready, open, now, started,
                 sweep, disp, at, park, cancel, canceller, owned>>

\* The token goes into the parked record, which lives in the coroutine frame.
StoreToken(tok) ==
  /\ ramp[tok] = "store"
  /\ ramp' = Step(ramp, tok, "done")
  /\ UNCHANGED <<loop, ready, open, now, started, sweep, disp, at, park,
                 cancel, canceller, owned>>

\* karac_runtime_event_loop_register_timer: entry and heap under one lock ...
Sleep(z, d) ==
  /\ started /\ at[z] = "new" /\ now + d <= MaxTime
  /\ byToken' = byToken \union {<<z, 1>>}
  /\ timers' = timers \union {<<z, 1>>}
  /\ deadline' = Step(deadline, z, now + d)
  /\ ramp' = Step(ramp, <<z, 1>>, "wake")   \* ... then wake the loop (WakeShard).
  /\ at' = Step(at, z, "parked")
  /\ UNCHANGED <<interest, edge, waker, ready, open, now, started, sweep, disp, park,
                 cancel, canceller, owned>>

(***************************************************************************)
(* A caller or a sleeper blocks on its slot.                               *)
(***************************************************************************)

\* Mistake: the entry goes and the descriptor stays in the epoll set.
ForgetEntry(f, tok) ==
  /\ byToken' = byToken \ {tok}
  /\ UNCHANGED <<interest, edge>>

\* Deregister f: the epoll DEL, and the entry of the token that is passed.
Deregister(f, tok) ==
  /\ byToken' = byToken \ {tok}
  /\ interest' = Step(interest, f, None)
  /\ edge' = edge \ {f}

\* park_slot_wait returns; a caller deregisters and reads.
SlotWaitReturns(t) ==
  /\ t \in Callers \union Sleepers
  /\ at[t] = "parked" /\ t \in signalled
  /\ signalled' = signalled \ {t}
  /\ IF t \in Callers
     THEN /\ ramp[Last(t)] = "done"
          /\ Deregister(FdOf(Last(t)), Last(t))
          /\ ready' = ready \ {FdOf(Last(t))}
          /\ at' = Step(at, t, "body")
     ELSE /\ ramp[<<t, 1>>] = "done"
          /\ at' = Step(at, t, "ended")
          /\ UNCHANGED <<byToken, interest, edge, ready>>
  /\ UNCHANGED <<timers, deadline, waker, open, now, started, sweep, disp, ramp, park, cancel, canceller, frames, handles>>

\* Closing a descriptor takes it out of the epoll set.
Close(t) ==
  /\ open' = [f \in Fds |-> IF open[f] = t THEN None ELSE open[f]]
  /\ interest' = [f \in Fds |-> IF open[f] = t THEN None ELSE interest[f]]
  /\ edge' = {f \in edge : open[f] # t}
  /\ ready' = {f \in ready : open[f] # t}

\* The body returns: locals dropped, descriptors closed.  A coroutine signals
\* its slot and stays at its final suspend.
Complete(t) ==
  /\ at[t] = "body" /\ park[t] = Len(Route[t])
  /\ Close(t)
  /\ at' = Step(at, t, IF t \in Coros THEN "final" ELSE "ended")
  /\ signalled' = signalled \union ({t} \intersect Coros)
  /\ UNCHANGED <<byToken, timers, deadline, waker, now, started, sweep, disp, ramp, park, cancel, canceller, frames, handles>>

(***************************************************************************)
(* Whoever owns the handle: the group cancels it, a joiner (or the group,  *)
(* or the armed reaper) frees it once the slot is signalled.               *)
(***************************************************************************)

\* karac_runtime_taskgroup_cancel: the flag ...
SetCancel(t) ==
  /\ t \in handles /\ canceller[t] = "no"
  /\ cancel' = cancel \union {t}
  /\ canceller' = Step(canceller, t, "flag")
  /\ UNCHANGED <<loop, ready, open, now, started, sweep, disp, tasks, owned>>

\* ... then the request ...
CancelRequest(t) ==
  /\ canceller[t] = "flag"
  /\ RequestSweep
  /\ canceller' = Step(canceller, t, "request")
  /\ UNCHANGED <<loop, ready, open, now, started, disp, tasks, cancel, owned>>

\* ... then the wakes.
CancelFanOut(t) ==
  /\ canceller[t] = "request"
  /\ FanOut
  /\ canceller' = Step(canceller, t, "done")
  /\ UNCHANGED <<byToken, timers, deadline, interest, edge, ready, open, now, started,
                 sweep, disp, tasks, cancel, owned>>

FreeHandle(t) ==
  /\ t \in handles /\ t \in signalled
  /\ canceller[t] \in {"no", "done"}
  /\ handles' = handles \ {t}
  /\ UNCHANGED <<loop, ready, open, now, started, sweep, disp, tasks, cancel, canceller,
                 signalled, frames>>

(***************************************************************************)
(* The dispatcher thread of shard s (dispatcher_thread_main).              *)
(***************************************************************************)
Goto(s, l) == pc' = Step(pc, s, l)
Local(s) == {tok \in Tokens : ShardOfToken(tok) = s}
Due(tok) == deadline[tok[1]] <= now

\* Mistake: the wait ignores the timer heap.
EnterUncapped(s) ==
  /\ pc[s] = "top"
  /\ timeout' = Step(timeout, s, None)
  /\ Goto(s, "poll")
  /\ UNCHANGED <<loop, ready, open, now, started, sweep, batch, sweeping, current,
                 tasks, cancel, canceller, owned>>

\* run_once caps its wait by the earliest deadline in the heap.
EnterPoll(s) ==
  /\ pc[s] = "top"
  /\ LET ds == {deadline[tok[1]] : tok \in timers \intersect Local(s)}
     IN  timeout' = Step(timeout, s, IF ds = {} THEN None
                                     ELSE CHOOSE d \in ds : \A e \in ds : d <= e)
  /\ Goto(s, "poll")
  /\ UNCHANGED <<loop, ready, open, now, started, sweep, batch, sweeping, current,
                 tasks, cancel, canceller, owned>>

\* What poll reports for s, and what makes it return.
Reported(s) == {f \in edge : ShardOf[f] = s}
PollReturns(s) ==
  \/ Reported(s) # {} \/ s \in waker
  \/ timeout[s] # None /\ timeout[s] <= now

\* Mistake: the waker's event ends the loop over the events (a break for a
\* continue).
PollBreak(s) ==
  /\ pc[s] = "poll" /\ PollReturns(s)
  /\ batch' = Step(batch, s, IF s \in waker THEN {} ELSE {interest[f] : f \in Reported(s)})
  /\ edge' = edge \ Reported(s)
  /\ waker' = waker \ {s}
  /\ Goto(s, "got")
  /\ UNCHANGED <<byToken, timers, deadline, interest, ready, open, now, started, sweep,
                 timeout, sweeping, current, tasks, cancel, canceller, owned>>

\* The poll call reports each edge once and clears the waker.
Poll(s) ==
  /\ pc[s] = "poll" /\ PollReturns(s)
  /\ batch' = Step(batch, s, {interest[f] : f \in Reported(s)})
  /\ edge' = edge \ Reported(s)
  /\ waker' = waker \ {s}
  /\ Goto(s, "got")
  /\ UNCHANGED <<byToken, timers, deadline, interest, ready, open, now, started, sweep,
                 timeout, sweeping, current, tasks, cancel, canceller, owned>>

\* A poll that fails (EINTR) is repeated from the top of the loop.
PollFails(s) ==
  /\ pc[s] = "poll"
  /\ Goto(s, "top")
  /\ UNCHANGED <<loop, ready, open, now, started, sweep, timeout, batch, sweeping, current,
                 tasks, cancel, canceller, owned>>

\* Under the fds lock, the rest of run_once: events of entries that are gone
\* are skipped, expired timers are popped and those still registered reported.
Translate(s) ==
  /\ pc[s] = "got"
  /\ LET expired == {tok \in timers \intersect Local(s) : Due(tok)}
     IN  /\ timers' = timers \ expired
         /\ batch' = Step(batch, s, (batch[s] \union expired) \intersect byToken)
  /\ sweeping' = Step(sweeping, s, FALSE)
  /\ Goto(s, "claim")
  /\ UNCHANGED <<byToken, deadline, interest, edge, waker, ready, open, now, started, sweep,
                 timeout, current, tasks, cancel, canceller, owned>>

\* Mistake: the entry is read and left in the map.
ClaimCopy(s, tok) ==
  /\ pc[s] = "claim" /\ tok \in batch[s]
  /\ batch' = Step(batch, s, batch[s] \ {tok})
  /\ IF tok \in byToken
     THEN current' = Step(current, s, tok) /\ Goto(s, "invoke")
     ELSE UNCHANGED <<current, pc>>
  /\ UNCHANGED <<loop, ready, open, now, started, sweep,
                 timeout, sweeping, tasks, cancel, canceller, owned>>

\* take_registration_with_cancel: the one-shot claim of a wakeup's token.
Claim(s, tok) ==
  /\ pc[s] = "claim" /\ tok \in batch[s]
  /\ batch' = Step(batch, s, batch[s] \ {tok})
  /\ byToken' = byToken \ {tok}
  /\ IF tok \in byToken
     THEN current' = Step(current, s, tok) /\ Goto(s, "invoke")
     ELSE UNCHANGED <<current, pc>>
  /\ UNCHANGED <<timers, deadline, interest, edge, waker, ready, open, now, started, sweep,
                 timeout, sweeping, tasks, cancel, canceller, owned>>

\* Mistake: the request is cleared when the sweep is over.
ClearAfterSweep(s) ==
  /\ pc[s] = "claim" /\ batch[s] = {}
  /\ sweep' = IF sweeping[s] THEN sweep \ {s} ELSE sweep
  /\ Goto(s, IF ~sweeping[s] /\ s \in sweep THEN "collect" ELSE "top")
  /\ UNCHANGED <<loop, ready, open, now, started, timeout, batch, sweeping, current,
                 tasks, cancel, canceller, owned>>

\* The batch is done: after a sweep the loop starts over, otherwise the sweep
\* request is consumed first (sweep_requested[shard].swap(false)).
FinishBatch(s) ==
  /\ pc[s] = "claim" /\ batch[s] = {}
  /\ sweep' = IF sweeping[s] THEN sweep ELSE sweep \ {s}
  /\ Goto(s, IF ~sweeping[s] /\ s \in sweep THEN "collect" ELSE "top")
  /\ UNCHANGED <<loop, ready, open, now, started, timeout, batch, sweeping, current,
                 tasks, cancel, canceller, owned>>

\* collect_cancelled: under the fds lock, the registrations whose flag is set;
\* sweep_cancelled then claims and invokes them one by one.
Collect(s) ==
  /\ pc[s] = "collect"
  /\ batch' = Step(batch, s, {tok \in byToken \intersect Local(s) : tok[1] \in cancel})
  /\ sweeping' = Step(sweeping, s, TRUE)
  /\ Goto(s, "claim")
  /\ UNCHANGED <<loop, ready, open, now, started, sweep, timeout, current, tasks,
                 cancel, canceller, owned>>

\* poll_fn.  For a blocked caller or sleeper: signal its slot.
InvokeBlocked(s) ==
  /\ pc[s] = "invoke" /\ current[s][1] \notin Coros
  /\ signalled' = signalled \union {current[s][1]}
  /\ current' = Step(current, s, None)
  /\ Goto(s, "claim")
  /\ UNCHANGED <<loop, ready, open, now, started, sweep, timeout, batch, sweeping,
                 tasks, cancel, canceller, frames, handles>>

\* What a resumed or destroyed coroutine finds in the token field of its record.
\* Before the store the word is whatever the frame held: no token, or one whose
\* local id names some entry of the shard.  The shard bits are not looked at:
\* deregister_fd routes by descriptor, and an earlier park of a loop may have been
\* on another shard.
Loaded(tok) ==
  IF ramp[tok] = "done"
  THEN {tok}
  ELSE {None} \union (Stray[tok[1]] \intersect Local(ShardOfToken(tok)))

\* For a coroutine, the resume shim: a set flag destroys, otherwise resume.
\* Either edge first deregisters, with the token it finds in the frame.
InvokeCoro(s) ==
  /\ pc[s] = "invoke" /\ current[s][1] \in Coros
  /\ \E word \in Loaded(current[s]) : Deregister(FdOf(current[s]), word)
  /\ Goto(s, IF current[s][1] \in cancel THEN "destroy" ELSE "resume")
  /\ UNCHANGED <<timers, deadline, waker, ready, open, now, started, sweep, timeout, batch,
                 sweeping, current, tasks, cancel, canceller, owned>>

\* Destroy edge: drop the locals (closing the descriptors), signal, free.
DestroyEdge(s) ==
  /\ pc[s] = "destroy"
  /\ LET t == current[s][1]
     IN  /\ Close(t)
         /\ at' = Step(at, t, "ended")
         /\ signalled' = signalled \union {t}
         /\ frames' = frames \ {t}
  /\ current' = Step(current, s, None)
  /\ Goto(s, "claim")
  /\ UNCHANGED <<byToken, timers, deadline, waker, now, started, sweep, timeout, batch,
                 sweeping, ramp, park, cancel, canceller, handles>>

\* Resume edge: the body goes on, on this thread, with the pending read.
ResumeEdge(s) ==
  /\ pc[s] = "resume"
  /\ LET t == current[s][1]
     IN  /\ at' = Step(at, t, "body")
         /\ ready' = ready \ {FdOf(current[s])}
  /\ Goto(s, "shim")
  /\ UNCHANGED <<loop, open, now, started, sweep, timeout, batch, sweeping, current,
                 ramp, park, cancel, canceller, owned>>

\* coro.resume has returned to the shim of s: the body it drove has reached its
\* final suspend, or has returned from the registration of its next park.
ResumeReturned(s) ==
  LET tok == current[s] IN
  IF tok[2] = Len(Route[tok[1]])
  THEN at[tok[1]] \in {"final", "ended"}
  ELSE ramp[<<tok[1], tok[2] + 1>>] = "done"

\* coro.done, read from the frame, decides whether the shim destroys it.
ShimDone(s) ==
  /\ pc[s] = "shim" /\ ResumeReturned(s)
  /\ LET t == current[s][1]
     IN  IF at[t] = "final"
         THEN frames' = frames \ {t} /\ at' = Step(at, t, "ended")
         ELSE UNCHANGED <<frames, at>>
  /\ current' = Step(current, s, None)
  /\ Goto(s, "claim")
  /\ UNCHANGED <<loop, ready, open, now, started, sweep, timeout, batch, sweeping,
                 ramp, park, cancel, canceller, signalled, handles>>

(***************************************************************************)
(* The peer and the clock, which only deadlines observe.                   *)
(***************************************************************************)
DataArrives(f) ==
  /\ open[f] # None
  /\ f \in ready => interest[f] # None /\ f \notin edge
  /\ ready' = ready \union {f}
  /\ edge' = IF interest[f] # None THEN edge \union {f} ELSE edge
  /\ UNCHANGED <<byToken, timers, deadline, interest, waker, open, now, started, sweep,
                 disp, tasks, cancel, canceller, owned>>

Tick ==
  /\ now < MaxTime /\ \E z \in Sleepers : at[z] # "ended"
  /\ now' = now + 1
  /\ UNCHANGED <<loop, ready, open, started, sweep, disp, tasks, cancel, canceller, owned>>

Registering(tok) ==
  \/ tok \in FdTokens /\ (Arm(tok) \/ RecheckCancel(tok) \/ RampRequest(tok)
                          \/ RampFanOut(tok) \/ StoreToken(tok))
  \/ WakeShard(tok)
Body(t) == Publish(t) \/ Complete(t)
Canceller(t) == CancelRequest(t) \/ CancelFanOut(t)
Dispatcher(s) ==
  \/ EnterPoll(s) \/ Poll(s) \/ Translate(s) \/ FinishBatch(s) \/ Collect(s)
  \/ \E tok \in Tokens : Claim(s, tok)
  \/ InvokeBlocked(s) \/ InvokeCoro(s) \/ DestroyEdge(s) \/ ResumeEdge(s) \/ ShimDone(s)

Next ==
  \/ StartDispatcher
  \/ \E t \in Parkers : Begin(t) \/ Body(t)
  \/ \E tok \in Tokens : Registering(tok)
  \/ \E z \in Sleepers : \E d \in 0..MaxTime : Sleep(z, d)
  \/ \E t \in Callers \union Sleepers : SlotWaitReturns(t)
  \/ \E t \in Coros : SetCancel(t) \/ Canceller(t) \/ FreeHandle(t)
  \/ \E s \in Shards : Dispatcher(s) \/ PollFails(s)
  \/ \E f \in Fds : DataArrives(f)
  \/ Tick

\* The steps a behaviour has only finitely many of, each thread's own.
Bounded ==
  \/ StartDispatcher
  \/ \E t \in Parkers : Body(t)
  \/ \E tok \in Tokens : Registering(tok)
  \/ \E t \in Callers \union Sleepers : SlotWaitReturns(t)
  \/ \E t \in Coros : Canceller(t)
  \/ Tick

\* Threads that can run do run, time passes, and a poll that is retried is not
\* interrupted for ever.  Nothing obliges a peer to send, a task to start, a
\* group to cancel or a poll to fail.  One condition is enough for the bounded
\* steps: none of them can be taken for ever in place of another.
Fairness ==
  /\ WF_vars(Bounded)
  /\ \A s \in Shards : WF_vars(Dispatcher(s)) /\ SF_vars(Poll(s))

Spec == Init /\ [][Next]_vars /\ Fairness

(***************************************************************************)
(* Properties                                                              *)
(***************************************************************************)

\* What a dispatcher thread dereferences is allocated: the flag of every
\* registered coroutine (collect_cancelled reads it under the fds lock), and
\* the record and flag of the one it has claimed, up to the edge it runs.
DispatcherDerefsLive ==
  /\ \A tok \in byToken : tok[1] \in Coros => tok[1] \in frames \intersect handles
  /\ \A s \in Shards : pc[s] \in {"invoke", "destroy", "resume"} /\ current[s][1] \in Coros
                          => current[s][1] \in frames \intersect handles

\* Edge-triggered readiness is never lost: data on an armed, registered
\* descriptor is still to be reported, or its token is in the dispatcher's hands.
NoLostReadiness ==
  \A tok \in byToken \intersect FdTokens :
    interest[FdOf(tok)] = tok /\ FdOf(tok) \in ready
      => FdOf(tok) \in edge \/ tok \in batch[ShardOfToken(tok)]

\* A shard with a sweep requested is awake, on its way to the request, or will
\* be woken.
RequestedShardAwake ==
  \A s \in sweep :
    \/ s \in waker
    \/ pc[s] = "got"
    \/ pc[s] \in {"claim", "invoke", "destroy", "resume", "shim"} /\ ~sweeping[s]
    \/ \E t \in Coros : canceller[t] = "request"
    \/ \E tok \in FdTokens : ramp[tok] = "fanout"

\* A cancelled coroutine cannot stay parked unseen: once its registration and
\* the cancelling call have both passed their checks, its shard has a sweep
\* requested, about to take its snapshot, or holding its token; and a requested
\* sweep is not slept over.
SweepWillFind ==
  /\ \A tok \in byToken :
       /\ tok[1] \in cancel /\ canceller[tok[1]] \in {"request", "done"}
       /\ ramp[tok] \in {"store", "done"}
       => LET s == ShardOfToken(tok)
          IN  s \in sweep \/ pc[s] = "collect" \/ tok \in batch[s]
  /\ RequestedShardAwake

\* No poll sleeps past a registered deadline, and a registered timer is in the
\* heap or already being dispatched.
NoTimerOverslept ==
  \A tok \in byToken :
    tok[1] \in Sleepers =>
      LET s == ShardOfToken(tok)
      IN  /\ tok \in timers \/ tok \in batch[s]
          /\ pc[s] = "poll" /\ s \notin waker /\ ramp[tok] # "wake"
               => timeout[s] # None /\ timeout[s] <= deadline[tok[1]]

\* A task that is suspended can be found: it is registered, claimed, or (for a
\* blocked caller) signalled.
SuspendedIsReachable ==
  \A t \in Parkers :
    at[t] = "parked" =>
      \/ Last(t) \in byToken \/ t \in signalled
      \/ \E s \in Shards : current[s] = Last(t)

\* A thread that has published a park, or resumed a coroutine that parked
\* again, touches only live memory afterwards: the registering thread the
\* cancel flag in the handle and the frame it stores the token into, the resume
\* shim the frame it asks coro.done of.
LateAccessLive ==
  /\ \A tok \in FdTokens : tok[1] \in Coros =>
       /\ ramp[tok] = "check" => tok[1] \in handles
       /\ ramp[tok] = "store" => tok[1] \in frames
  /\ \A s \in Shards : pc[s] = "shim" /\ ResumeReturned(s) => current[s][1] \in frames

\* A cancelled coroutine ends, on an idle descriptor too.
CancelledEnds ==
  \A t \in Coros : t \in cancel ~> at[t] = "ended"

\* Data on the descriptor a task is parked on resumes (or ends) that park.
ReadyResumes ==
  \A t \in Parkers :
    (at[t] = "parked" /\ FdOf(Last(t)) \in ready) ~> at[t] # "parked"

\* A sleep returns.
SleepReturns ==
  \A z \in Sleepers : at[z] = "parked" ~> at[z] = "ended"
=============================================================================
