------------------------------ MODULE WorkPool -------------------------------
(***************************************************************************)
(* The worker pool behind par {}, auto-par and parallel reductions         *)
(* (runtime/src/lib.rs: Pool, ParCall, worker_loop, execute_task,          *)
(* karac_par_run_pooled, par_join_wait, dispatch_and_wait).                *)
(*                                                                         *)
(* A call pushes its branches on one shared queue and joins them.  A       *)
(* joining thread helps: it pops and runs any queued task, of any call, on *)
(* top of its own stack, so one thread may carry frames of several calls   *)
(* at once.  stack[th] is that stack; its last frame is what th executes.  *)
(* Each critical section of the queue's and of `remaining`'s Mutex is one  *)
(* step, and so is each notify, which runs outside both.                   *)
(*                                                                         *)
(* A branch that fails stores the cancel flag of its call and returns; a   *)
(* branch that panics aborts the program (extern "C").                     *)
(***************************************************************************)
EXTENDS Naturals, Sequences, FiniteSets

CONSTANTS
  Workers,      \* threads the pool may have
  Callers,      \* threads outside it that fork: main, server threads
  Calls,        \* par calls that may be made
  Tasks,        \* their branches
  BranchesOf,   \* BranchesOf[c]: the branches of call c, in source order
  Programs,     \* what may run: the size of the pool, the calls made
  Endless,      \* branches that loop until their cancel flag stops them
  NoCall        \* null parent_cancel

ASSUME ThreadsAssumption == Workers \intersect Callers = {} /\ Workers # {}
ASSUME CallsAssumption == NoCall \notin Calls
ASSUME BranchesAssumption ==
  /\ BranchesOf \in [Calls -> Seq(Tasks) \ {<<>>}]
  /\ \A c, d \in Calls : \A i \in DOMAIN BranchesOf[c], j \in DOMAIN BranchesOf[d] :
       BranchesOf[c][i] = BranchesOf[d][j] => c = d /\ i = j
ASSUME ProgramsAssumption ==
  Programs \subseteq [workers : SUBSET Workers \ {{}}, calls : SUBSET Calls]
ASSUME EndlessAssumption == Endless \subseteq Tasks

VARIABLES
  program,    \* the member of Programs that runs: Pool.worker_count, the source
  queue,      \* Pool.queue
  asleep,     \* asleep[w]: worker w waits on Pool.cv
  stack,      \* stack[th]: frames of th, the running one last
  remaining,  \* ParCall.remaining
  cancel,     \* ParCall.cancel
  parent,     \* parent[c]: the call whose flag c polls as parent_cancel
  status      \* status[c]: not yet made, open, joined

vars == <<program, queue, asleep, stack, remaining, cancel, parent, status>>

Threads == Workers \union Callers

(***************************************************************************)
(* Frames.  A task frame executes a branch: load (the cancel flag), run,   *)
(* leave (decrement), notify.  A join frame waits for a call: announce     *)
(* (notify the pool), check, cascade, help, block, parked.                 *)
(***************************************************************************)
TaskFrames == [kind : {"task"}, id : Tasks, pc : {"load", "run", "leave", "notify"}]
JoinFrames == [kind : {"join"}, id : Calls,
               pc : {"announce", "check", "cascade", "help", "block", "parked"}]

TaskFrame(t, pc) == [kind |-> "task", id |-> t, pc |-> pc]
JoinFrame(c, pc) == [kind |-> "join", id |-> c, pc |-> pc]

Branches(c) == {BranchesOf[c][i] : i \in DOMAIN BranchesOf[c]}
CallOf(t)   == CHOOSE c \in Calls : t \in Branches(c)

TypeOK ==
  /\ program \in Programs
  /\ queue \in Seq(Tasks)
  /\ asleep \in [Workers -> BOOLEAN]
  /\ stack \in [Threads -> Seq(TaskFrames \union JoinFrames)]
  /\ remaining \in [Calls -> Nat]
  /\ cancel \in [Calls -> BOOLEAN]
  /\ parent \in [Calls -> Calls \union {NoCall}]
  /\ status \in [Calls -> {"unmade", "open", "joined"}]

Init ==
  /\ program \in Programs
  /\ queue = <<>>
  /\ asleep = [w \in Workers |-> FALSE]
  /\ stack = [th \in Threads |-> <<>>]
  /\ remaining = [c \in Calls |-> 0]
  /\ cancel = [c \in Calls |-> FALSE]
  /\ parent = [c \in Calls |-> NoCall]
  /\ status = [c \in Calls |-> "unmade"]

Depth(th)       == Len(stack[th])
Top(th)         == stack[th][Depth(th)]
At(th, k, pc)   == stack[th] # <<>> /\ Top(th).kind = k /\ Top(th).pc = pc
Goto(th, pc)    == stack' = [stack EXCEPT ![th][Depth(th)].pc = pc]
Below(th)       == SubSeq(stack[th], 1, Depth(th) - 1)
Return(th)      == stack' = [stack EXCEPT ![th] = Below(th)]

\* th runs user code: a caller between calls, or a branch body.
InUserCode(th) == IF stack[th] = <<>> THEN th \in Callers ELSE At(th, "task", "run")

(***************************************************************************)
(* Making a call.                                                          *)
(***************************************************************************)

\* Mistake: the nested call is handed the branch in place of its call's flag.
ForkBranchFlag(th, c, cascading) ==
  /\ InUserCode(th)
  /\ c \in program.calls /\ status[c] = "unmade"
  /\ status' = [status EXCEPT ![c] = "open"]
  /\ remaining' = [remaining EXCEPT ![c] = Len(BranchesOf[c])]
  /\ parent' = [parent EXCEPT ![c] = IF cascading /\ stack[th] # <<>>
                                     THEN Top(th).id ELSE NoCall]
  /\ queue' = queue \o BranchesOf[c]
  /\ stack' = [stack EXCEPT ![th] = Append(@, JoinFrame(c, "announce"))]
  /\ UNCHANGED <<program, asleep, cancel>>

\* karac_par_run_pooled (cascading: codegen hands it the enclosing branch's
\* flag) or karac_par_reduce (no parent_cancel): count the branches and push
\* them all under the queue lock.
Fork(th, c, cascading) ==
  /\ InUserCode(th)
  /\ c \in program.calls /\ status[c] = "unmade"
  /\ status' = [status EXCEPT ![c] = "open"]
  /\ remaining' = [remaining EXCEPT ![c] = Len(BranchesOf[c])]
  /\ parent' = [parent EXCEPT ![c] = IF cascading /\ stack[th] # <<>>
                                     THEN CallOf(Top(th).id) ELSE NoCall]
  /\ queue' = queue \o BranchesOf[c]
  /\ stack' = [stack EXCEPT ![th] = Append(@, JoinFrame(c, "announce"))]
  /\ UNCHANGED <<program, asleep, cancel>>

\* Pool.cv.notify_all, after the queue lock is released.
Announce(th) ==
  /\ At(th, "join", "announce")
  /\ asleep' = [w \in Workers |-> FALSE]
  /\ Goto(th, "check")
  /\ UNCHANGED <<program, queue, remaining, cancel, parent, status>>

(***************************************************************************)
(* par_join_wait / the loop of dispatch_and_wait.                          *)
(***************************************************************************)

\* remaining == 0 under its lock: the call returns.
Join(th) ==
  /\ Return(th)
  /\ status' = [status EXCEPT ![Top(th).id] = "joined"]

Check(th) ==
  /\ At(th, "join", "check")
  /\ IF remaining[Top(th).id] = 0 THEN Join(th)
     ELSE Goto(th, "cascade") /\ UNCHANGED status
  /\ UNCHANGED <<program, queue, asleep, remaining, cancel, parent>>

\* An enclosing cancellation becomes this call's.
Cascade(th) ==
  /\ At(th, "join", "cascade")
  /\ LET c == Top(th).id
     IN  cancel' = [cancel EXCEPT ![c] = @ \/ (parent[c] # NoCall /\ cancel[parent[c]])]
  /\ Goto(th, "help")
  /\ UNCHANGED <<program, queue, asleep, remaining, parent, status>>

\* Mistake: the joiner waits without helping.
HelpNever(th) ==
  /\ At(th, "join", "help")
  /\ Goto(th, "block")
  /\ UNCHANGED <<program, queue, asleep, remaining, cancel, parent, status>>

\* Pop the oldest queued task, whosever it is, and execute it here.
Help(th) ==
  /\ At(th, "join", "help")
  /\ IF queue = <<>>
     THEN Goto(th, "block") /\ UNCHANGED queue
     ELSE /\ queue' = Tail(queue)
          /\ stack' = [stack EXCEPT ![th] =
                         Append(Below(th), JoinFrame(Top(th).id, "check"))
                           \o <<TaskFrame(Head(queue), "load")>>]
  /\ UNCHANGED <<program, asleep, remaining, cancel, parent, status>>

\* Mistake: wait on the condition variable without looking at remaining again.
BlockUnchecked(th) ==
  /\ At(th, "join", "block")
  /\ Goto(th, "parked")
  /\ UNCHANGED <<program, queue, asleep, remaining, cancel, parent, status>>

\* Nothing to help with: wait on the call, having looked at remaining again.
Block(th) ==
  /\ At(th, "join", "block")
  /\ IF remaining[Top(th).id] = 0 THEN Join(th)
     ELSE Goto(th, "parked") /\ UNCHANGED status
  /\ UNCHANGED <<program, queue, asleep, remaining, cancel, parent>>

\* Mistake: a wakeup is taken for the end of the call.
WakeReturning(th) ==
  /\ At(th, "join", "parked")
  /\ Join(th)
  /\ UNCHANGED <<program, queue, asleep, remaining, cancel, parent>>

\* The 1 ms wait_timeout of a nested call, or a spurious wakeup of any.
Wake(th) ==
  /\ At(th, "join", "parked")
  /\ Goto(th, "check")
  /\ UNCHANGED <<program, queue, asleep, remaining, cancel, parent, status>>

(***************************************************************************)
(* worker_loop.                                                            *)
(***************************************************************************)
WorkerPop(w) ==
  /\ w \in program.workers /\ stack[w] = <<>> /\ ~asleep[w] /\ queue # <<>>
  /\ queue' = Tail(queue)
  /\ stack' = [stack EXCEPT ![w] = <<TaskFrame(Head(queue), "load")>>]
  /\ UNCHANGED <<program, asleep, remaining, cancel, parent, status>>

WorkerSleep(w) ==
  /\ w \in program.workers /\ stack[w] = <<>> /\ ~asleep[w] /\ queue = <<>>
  /\ asleep' = [asleep EXCEPT ![w] = TRUE]
  /\ UNCHANGED <<program, queue, stack, remaining, cancel, parent, status>>

\* A Condvar may wake without a notification.
WorkerStir(w) ==
  /\ asleep[w]
  /\ asleep' = [asleep EXCEPT ![w] = FALSE]
  /\ UNCHANGED <<program, queue, stack, remaining, cancel, parent, status>>

(***************************************************************************)
(* execute_task.                                                           *)
(***************************************************************************)
\* Mistake: a branch skipped because of the cancel flag is not counted down.
LoadSkipping(th) ==
  /\ At(th, "task", "load")
  /\ IF cancel[CallOf(Top(th).id)] THEN Return(th) ELSE Goto(th, "run")
  /\ UNCHANGED <<program, queue, asleep, remaining, cancel, parent, status>>

Load(th) ==
  /\ At(th, "task", "load")
  /\ Goto(th, IF cancel[CallOf(Top(th).id)] THEN "leave" ELSE "run")
  /\ UNCHANGED <<program, queue, asleep, remaining, cancel, parent, status>>

\* The branch returns; an endless one only at a check of its cancel flag.
Finish(th) ==
  /\ At(th, "task", "run")
  /\ Top(th).id \in Endless => cancel[CallOf(Top(th).id)]
  /\ Goto(th, "leave")
  /\ UNCHANGED <<program, queue, asleep, remaining, cancel, parent, status>>

\* An endless branch finds its flag clear and goes round again.
Spin(th) ==
  /\ At(th, "task", "run") /\ Top(th).id \in Endless
  /\ ~cancel[CallOf(Top(th).id)]
  /\ UNCHANGED vars

\* The branch fails: it cancels its siblings and returns.
Fail(th) ==
  /\ At(th, "task", "run") /\ Top(th).id \notin Endless
  /\ cancel' = [cancel EXCEPT ![CallOf(Top(th).id)] = TRUE]
  /\ Goto(th, "leave")
  /\ UNCHANGED <<program, queue, asleep, remaining, parent, status>>

\* Count down under the lock of remaining, whatever happened above; the last
\* one notifies after the unlock.
Leave(th) ==
  /\ At(th, "task", "leave")
  /\ LET c == CallOf(Top(th).id)
     IN  /\ remaining' = [remaining EXCEPT ![c] = @ - 1]
         /\ IF remaining[c] = 1 THEN Goto(th, "notify") ELSE Return(th)
  /\ UNCHANGED <<program, queue, asleep, cancel, parent, status>>

\* call.notify.notify_all: a joiner of the call that waits goes back to check.
\* One that is inside a helped task is not waiting.
Notify(th) ==
  /\ At(th, "task", "notify")
  /\ LET c == CallOf(Top(th).id)
     IN  stack' = [x \in Threads |->
                     IF x = th THEN Below(th)
                     ELSE IF At(x, "join", "parked") /\ Top(x).id = c
                          THEN Append(Below(x), JoinFrame(c, "check"))
                     ELSE stack[x]]
  /\ UNCHANGED <<program, queue, asleep, remaining, cancel, parent, status>>

-----------------------------------------------------------------------------
Finished ==
  /\ \A c \in program.calls : status[c] = "joined"
  /\ UNCHANGED vars

ThreadStep(th) ==
  \/ Announce(th) \/ Check(th) \/ Cascade(th) \/ Help(th) \/ Block(th)
  \/ Load(th) \/ Finish(th) \/ Leave(th) \/ Notify(th)

WorkerStep(w) == WorkerPop(w) \/ WorkerSleep(w)

Next ==
  \/ \E th \in Threads :
       \/ ThreadStep(th) \/ Fail(th) \/ Spin(th) \/ Wake(th)
       \/ \E c \in Calls, cascading \in BOOLEAN : Fork(th, c, cascading)
  \/ \E w \in Workers : WorkerStep(w) \/ WorkerStir(w)
  \/ Finished

Nested(th) == stack[th] # <<>> /\ Top(th).kind = "join" /\ parent[Top(th).id] # NoCall

\* Every thread runs.  Only a nested join has a timeout to wake it; a top-level
\* one and a sleeping worker depend on being notified.
Fairness ==
  /\ \A th \in Threads : WF_vars(ThreadStep(th)) /\ WF_vars(Nested(th) /\ Wake(th))
  /\ \A w \in Workers : WF_vars(WorkerStep(w))

Spec == Init /\ [][Next]_vars /\ Fairness

-----------------------------------------------------------------------------
OnStack(th, f) == \E i \in DOMAIN stack[th] : stack[th][i] = f
Queued(t)      == \E i \in DOMAIN queue : queue[i] = t
\* t has been popped and not yet counted down.
Executing(t)   == \E th \in Threads, pc \in {"load", "run", "leave"} : OnStack(th, TaskFrame(t, pc))

\* remaining counts exactly the branches still queued or on some stack, however
\* deep they are buried under helped tasks, and branches skipped by a
\* cancellation are counted down like the others.
RemainingExact ==
  \A c \in Calls : status[c] # "unmade" =>
    remaining[c] = Cardinality({t \in Branches(c) : Queued(t) \/ Executing(t)})

\* The join barrier: once a call has returned (its stack frame, which the branches
\* point into, is gone) none of its branches is queued or running anywhere.
JoinBarrier ==
  \A c \in Calls : status[c] = "joined" => \A t \in Branches(c) : ~Queued(t) /\ ~Executing(t)

\* Nobody waits for something that has already been announced: a worker sleeps on
\* a non-empty queue only while the notify_all for it is still to come, and a
\* joiner waits on a finished call only while its last branch is about to notify.
NoLostWakeup ==
  /\ (queue # <<>> /\ \E w \in Workers : asleep[w]) =>
       \E th \in Threads : At(th, "join", "announce")
  /\ \A th \in Threads :
       At(th, "join", "parked") /\ remaining[Top(th).id] = 0 =>
         \E x \in Threads : At(x, "task", "notify") /\ CallOf(Top(x).id) = Top(th).id

\* Helping keeps nested calls from exhausting the pool: whatever the nesting and
\* however few the workers, every call that is made returns, unless somebody is
\* running a branch that loops for ever.
EveryCallJoins ==
  \A c \in Calls : status[c] = "open" ~>
    (status[c] = "joined" \/ \E t \in Endless : Executing(t))

\* What the comment on par_join_wait says of the cascade ("the parent flag is
\* observed even while every nested task is still running"): a cancelled call's
\* nested calls are cancelled, or over, in the end.
CascadeReaches ==
  \A c, d \in Calls :
    (parent[d] = c /\ cancel[c]) ~> (cancel[d] \/ status[d] = "joined")
=============================================================================
