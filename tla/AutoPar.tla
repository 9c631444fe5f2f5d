------------------------------ MODULE AutoPar ------------------------------
(***************************************************************************)
(* A function body compiled with inferred parallelism and run.             *)
(*                                                                         *)
(* Compile is compile_function_body's planning loop                        *)
(* (src/src/codegen/stmts.rs): of the groups that Concurrency finds it     *)
(* keeps those that are worth a dispatch and whose results can be carried  *)
(* over the join.  The run that follows is the emitted code: statements in *)
(* source order, a group fanned out through karac_par_run_auto             *)
(* (src/src/codegen/par_blocks.rs, src/runtime/src/lib.rs), every branch a *)
(* function of its own on a copy of the captured locals.                   *)
(*                                                                         *)
(* Values are terms: what a statement computes is its index together with  *)
(* the values it read and the resource contents it saw, so two runs agree  *)
(* exactly when every value was computed from the same inputs.  A resource *)
(* is a set of cells, each the list of what was done to it.  Beside its    *)
(* summary a statement carries what the analysis does not see: the actual  *)
(* effects of a polymorphic callee (hidden_effects), the connection it     *)
(* talks on (connection), and whether its early exit is taken (returns).   *)
(***************************************************************************)
EXTENDS Concurrency, SequencesExt, Bags

CONSTANTS
  Bodies,     \* the function bodies: records [stmts, final_reads]
  Names,      \* the locals
  Entry,      \* those bound before the first statement
  Keys        \* the partitions of a parameterised resource

ASSUME BodiesAssumption ==
  \A b \in Bodies : Len(b.stmts) \in Nat /\ DOMAIN b.stmts = 1 .. Len(b.stmts)

\* What a summary tells of its statement.  Only the effects of a generic callee
\* are not in it (they depend on the instance); distinct receivers of network
\* methods are distinct connections (a receiver is neither shared nor a ref
\* parameter); Network is sent to and received from, as the effect checker seeds
\* it; a channel effect shows as a channel operation, an exit that is taken as a
\* possible one; and names are introduced by a let pattern.
Effects == [verb : STRING, resource : STRING, key : STRING]

SummaryTrue(s) ==
  /\ s.effects \in Seq(Effects) /\ s.hidden_effects \in Seq(Effects)
  /\ s.hidden_effects # <<>> => s.calls_polymorphic
  /\ s.method_fanout_receiver_root # NoRoot => s.connection = s.method_fanout_receiver_root
  /\ \A x \in EffectsOf(s) : /\ x.resource = "Network" => x.verb \in {"sends", "receives"}
                             /\ x.resource = "Channel" /\ x.verb \in {"sends", "receives"}
                                  => s.has_channel_op
  /\ s.returns => s.has_early_exit
  /\ s.let_introduced # {} => s.pattern \in {"binding", "destructure"}

\* Names are bindings, one let each: a statement neither assigns nor consumes
\* what it introduces, and introduces what nobody has bound or assigned before.
ScopesApart(s) ==
  /\ s.let_introduced \cup s.assigned \cup s.consuming_reads \cup reads(s) \subseteq Names
  /\ s.let_introduced \cap (s.assigned \cup s.consuming_reads) = {}

ASSUME ScopesAssumption ==
  \A b \in Bodies :
    /\ b.final_reads \subseteq Names
    /\ \A i \in DOMAIN b.stmts :
         /\ ScopesApart(b.stmts[i])
         /\ b.stmts[i].let_introduced \cap Entry = {}
         /\ \A k \in DOMAIN b.stmts : k < i => b.stmts[i].let_introduced \cap defines(b.stmts[k]) = {}

ASSUME SummariesAssumption ==
  \A b \in Bodies : \A i \in DOMAIN b.stmts : SummaryTrue(b.stmts[i])

VARIABLES
  body,       \* the function being compiled and run
  plan,       \* dispatched groups: set of [members, slots]
  pc,         \* next statement to run; NotCompiled while there is no plan
  frame,      \* parent locals: [val, buf]
  world,      \* cell -> list of the terms applied to it
  console,    \* what has reached the file descriptor
  freed,      \* bag of heap buffers freed so far
  result,     \* the returned value, or Running
  branches,   \* running branches of the current group: index -> record
  inline      \* the current group runs on the caller (fork depth reached)

vars == <<body, plan, pc, frame, world, console, freed, result, branches, inline>>

NotCompiled == 0

\* A function that has not returned, a local that holds no value, and a local
\* that owns no buffer: values no statement computes.
Running == <<>>

Unbound == <<>>

NoBuffer == <<>>

(***************************************************************************)
(* What a statement does                                                   *)
(***************************************************************************)
\* An access without a key reaches every partition of its resource.
Partitions(x) == IF x.key = NoKey THEN Keys ELSE {x.key}

\* A call that borrows nothing opens a connection of its own.
Connection(s, i) == IF s.is_ephemeral_network_fanout THEN <<"own", i>> ELSE <<"on", s.connection>>

\* Console output is captured and replayed, and touches nothing shared.
Prints(x) == x.verb = "writes" /\ is_console_resource(x.resource)

\* The cells an effect of statement i touches.  The two directions of a
\* connection are two cells; allocation, panics, blocking and timer waits touch
\* nothing.
Cells(s, i, x) ==
  IF Prints(x) THEN {}
  ELSE IF x.verb \in {"reads", "writes"} THEN {<<"state", x.resource, k>> : k \in Partitions(x)}
  ELSE IF x.verb \in {"sends", "receives"}
       THEN {<<"link", x.verb, x.resource, Connection(s, i), k>> : k \in Partitions(x)}
  ELSE IF x.verb \notin BuiltinVerbs THEN {<<"user", x.verb, x.resource, k>> : k \in Partitions(x)}
  ELSE {}

Actual(s) == s.effects \o s.hidden_effects

\* What statement i changes for others: locals and cells.
Changed(s) == defines(s) \cup s.consuming_reads

Modified(s, i) ==
  UNION {Cells(s, i, Actual(s)[k]) : k \in {k \in DOMAIN Actual(s) : Actual(s)[k].verb # "reads"}}

CellsOf(s, i) == UNION {Cells(s, i, Actual(s)[k]) : k \in DOMAIN Actual(s)}

AllCells(stmts) == UNION {CellsOf(stmts[i], i) : i \in DOMAIN stmts}

\* The term a statement has computed from the locals it read and what it saw.
Term(s, i, val, seen) == <<i, [n \in reads(s) |-> val[n]], seen>>

\* One effect: a console write prints; every other verb but `reads` adds the
\* statement's term to its cells; `reads` and `receives` see them.
Apply(s, i, val, x, st) ==
  LET touched == Cells(s, i, x)
      term == Term(s, i, val, st.seen)
  IN IF Prints(x)
     THEN [st EXCEPT !.out = Append(@, <<x.resource, term>>)]
     ELSE [st EXCEPT
             !.world = [c \in DOMAIN @ |-> IF c \in touched /\ x.verb # "reads"
                                           THEN Append(@[c], term) ELSE @[c]],
             !.seen = IF x.verb \in {"reads", "receives"}
                      THEN Append(@, [c \in touched |-> st.world[c]]) ELSE @]

\* The locals after statement i.  An owner that is let or assigned gets a new
\* buffer; an owner that is consumed is left empty.
Locals(s, i, loc, seen) ==
  [val |-> [n \in Names |-> IF n \in defines(s) THEN Term(s, i, loc.val, seen)
                            ELSE IF n \in s.consuming_reads THEN Unbound ELSE loc.val[n]],
   buf |-> [n \in Names |-> IF n \in defines(s) \cap Containers THEN <<i, n>>
                            ELSE IF n \in s.consuming_reads THEN NoBuffer ELSE loc.buf[n]]]

Buffers(loc, ns) == {loc.buf[n] : n \in ns} \ {NoBuffer}

\* The buffers statement i gives back: what it assigns over and what it consumes.
Released(s, loc) == Buffers(loc, (s.assigned \cap Containers) \cup s.consuming_reads)

Free(bag, bufs) == bag (+) SetToBag(bufs)

\* All effects of statement i, one after another.
Effect(s, i, st) ==
  FoldLeft(LAMBDA acc, x : Apply(s, i, st.loc.val, x, acc),
           [world |-> st.world, out |-> st.out, seen |-> <<>>], Actual(s))

\* A statement run to its end with nothing beside it.
Exec(stmts, i, st) ==
  LET s == stmts[i]
      after == Effect(s, i, st)
  IN IF st.result # Running THEN st
     ELSE [loc |-> Locals(s, i, st.loc, after.seen),
           world |-> after.world,
           out |-> after.out,
           freed |-> Free(st.freed, Released(s, st.loc)),
           result |-> IF s.returns THEN Term(s, i, st.loc.val, after.seen) ELSE Running]

EntryLocals ==
  [val |-> [n \in Names |-> IF n \in Entry THEN <<0, n>> ELSE Unbound],
   buf |-> [n \in Names |-> IF n \in Entry \cap Containers THEN <<0, n>> ELSE NoBuffer]]

\* The tail expression's value, and the scope-exit cleanup of the parent frame.
Epilogue(b, st) ==
  [st EXCEPT !.result = IF @ = Running THEN <<"tail", [n \in b.final_reads |-> st.loc.val[n]]>> ELSE @,
             !.freed = Free(@, Buffers(st.loc, Names))]

\* Reference: the statements of b in the given order, one after another.
InOrder(b, order) ==
  Epilogue(b, FoldLeft(LAMBDA st, i : Exec(b.stmts, i, st),
                   [loc |-> EntryLocals, world |-> [c \in AllCells(b.stmts) |-> <<>>], out |-> <<>>,
                    freed |-> EmptyBag, result |-> Running], order))

Sequential(b) == InOrder(b, [k \in DOMAIN b.stmts |-> k])

(***************************************************************************)
(* Planning                                                                *)
(***************************************************************************)
\* The names code generation finds read outside a group: every let or
\* expression statement's value, every assignment's target and value, the tail
\* expression; of a let-else the value, but not the else block.
OutsideRefs(b, members) ==
  b.final_reads
    \cup (UNION {b.stmts[i].value_reads \cup b.stmts[i].assigned : i \in DOMAIN b.stmts \ members})

\* Names a group binds with a plain let: the only ones that can have a slot.
defined(b, members) ==
  UNION {b.stmts[i].let_introduced : i \in {k \in members : b.stmts[k].pattern = "binding"}}

destructure_bound(b, members) ==
  UNION {b.stmts[i].let_introduced : i \in {k \in members : b.stmts[k].pattern = "destructure"}}

\* Mistake: a group whose branches assign captured locals is dispatched.
carry_ignoring_mutations(b, members) ==
  destructure_bound(b, members) \cap OutsideRefs(b, members) = {}

\* compute_return_slots_checked: whether the group's results survive the join.
CanCarry(b, members) ==
  /\ captured_mutations(b.stmts, members) \cap OutsideRefs(b, members) = {}
  /\ captured_container_mutations(b.stmts, members) = {}
  /\ destructure_bound(b, members) \cap OutsideRefs(b, members) = {}

return_slots(b, members) == defined(b, members) \cap OutsideRefs(b, members)

\* Groups the planner dispatches unless the cost gate or an un-typeable slot
\* declines them.
Dispatchable(b) ==
  {g \in find_parallel_groups(b.stmts) :
     /\ ~is_trivial(b.stmts, g)
     /\ \A i \in g : ~b.stmts[i].is_par_block
     /\ CanCarry(b, g)}

Init ==
  /\ body \in Bodies
  /\ plan = {}
  /\ pc = NotCompiled
  /\ frame = EntryLocals
  /\ world = [c \in AllCells(body.stmts) |-> <<>>]
  /\ console = <<>>
  /\ freed = EmptyBag
  /\ result = Running
  /\ branches = <<>>
  /\ inline = FALSE

\* The planning loop.  Which groups the cost gate, the slot types and the
\* drop-point check decline depends on costs and types left out here.
Compile ==
  /\ pc = NotCompiled
  /\ \E declined \in SUBSET Dispatchable(body) :
       plan' = {[members |-> g, slots |-> return_slots(body, g)] : g \in Dispatchable(body) \ declined}
  /\ pc' = 1
  /\ UNCHANGED <<body, frame, world, console, freed, result, branches, inline>>

(***************************************************************************)
(* Running                                                                 *)
(***************************************************************************)
GroupAt(k) == {g \in plan : k = Min(g.members)}

Idle == pc # NotCompiled /\ branches = <<>> /\ result = Running

\* A statement outside every dispatched group, compiled in place.
RunSequential ==
  /\ Idle
  /\ pc <= Len(body.stmts)
  /\ GroupAt(pc) = {}
  /\ LET st == Exec(body.stmts, pc, [loc |-> frame, world |-> world, out |-> console,
                                     freed |-> freed, result |-> result])
         end == IF st.result = Running THEN st ELSE Epilogue(body, st)
     IN /\ frame' = st.loc
        /\ world' = st.world
        /\ console' = st.out
        /\ freed' = end.freed
        /\ result' = end.result
  /\ pc' = pc + 1
  /\ UNCHANGED <<body, plan, branches, inline>>

\* emit_par_run: the captured locals are copied into the env struct, one task
\* per statement is queued, or run in order on this thread when it is nested.
Fork ==
  /\ Idle
  /\ \E g \in GroupAt(pc) :
       branches' = [i \in g.members |-> [loc |-> frame, at |-> 1, seen |-> <<>>, out |-> <<>>,
                                         ended |-> FALSE]]
  /\ inline' \in BOOLEAN
  /\ UNCHANGED <<body, plan, pc, frame, world, console, freed, result>>

\* Under seq_par_run a branch starts once the ones before it have ended.
MayStep(i) == inline => \A k \in DOMAIN branches : k < i => branches[k].ended

\* A branch performs its next effect; console output goes to its capture.
BranchEffect(i) ==
  LET s == body.stmts[i]
      b == branches[i]
      after == Apply(s, i, b.loc.val, Actual(s)[b.at], [world |-> world, out |-> b.out, seen |-> b.seen])
  IN /\ MayStep(i)
     /\ b.at <= Len(Actual(s))
     /\ world' = after.world
     /\ branches' = [branches EXCEPT ![i] = [b EXCEPT !.at = b.at + 1, !.out = after.out, !.seen = after.seen]]
     /\ UNCHANGED <<body, plan, pc, frame, console, freed, result, inline>>

\* What the cleanup of a branch frees: its own bindings, but for the published
\* ones, whose cleanup is suppressed.
BranchCleanup(s, after, slots) == Buffers(after, s.let_introduced \ slots)

\* A branch returns: what it binds and no slot takes over is freed there, the
\* cleanup of a published binding is handed to the parent, and a captured
\* owner has no cleanup of its own in the branch.
BranchEnd(i) ==
  LET s == body.stmts[i]
      b == branches[i]
      after == Locals(s, i, b.loc, b.seen)
      g == CHOOSE g \in plan : i \in g.members
  IN /\ MayStep(i)
     /\ b.at > Len(Actual(s))
     /\ ~b.ended
     /\ branches' = [branches EXCEPT ![i] = [b EXCEPT !.loc = after, !.ended = TRUE]]
     /\ freed' = Free(Free(freed, Released(s, b.loc)), BranchCleanup(s, after, g.slots))
     /\ UNCHANGED <<body, plan, pc, frame, world, console, result, inline>>

\* The join: the slots are loaded into the parent frame and the captures are
\* replayed in branch order.
Join ==
  /\ branches # <<>>
  /\ \A i \in DOMAIN branches : branches[i].ended
  /\ LET g == CHOOSE g \in plan : g.members = DOMAIN branches
         source(n) == CHOOSE i \in g.members : n \in body.stmts[i].let_introduced
         first == Min(g.members)
     IN /\ frame' = [val |-> [n \in Names |-> IF n \in g.slots THEN branches[source(n)].loc.val[n]
                                               ELSE frame.val[n]],
                     buf |-> [n \in Names |-> IF n \in g.slots THEN branches[source(n)].loc.buf[n]
                                               ELSE frame.buf[n]]]
        /\ console' = console \o FlattenSeq([k \in 1 .. Cardinality(g.members) |-> branches[first + k - 1].out])
        /\ pc' = Max(g.members) + 1
  /\ branches' = <<>>
  /\ inline' = FALSE
  /\ UNCHANGED <<body, plan, world, freed, result>>

\* The tail expression and the scope-exit cleanup.
Return ==
  /\ Idle
  /\ pc > Len(body.stmts)
  /\ LET st == Epilogue(body, [loc |-> frame, world |-> world, out |-> console, freed |-> freed,
                           result |-> result])
     IN result' = st.result /\ freed' = st.freed
  /\ UNCHANGED <<body, plan, pc, frame, world, console, branches, inline>>

Next ==
  \/ Compile
  \/ RunSequential
  \/ Fork
  \/ \E i \in DOMAIN branches : BranchEffect(i) \/ BranchEnd(i)
  \/ Join
  \/ Return

Spec == Init /\ [][Next]_vars /\ WF_vars(Next)

(***************************************************************************)
(* Properties                                                              *)
(***************************************************************************)
\* Type invariant: the frame and its buffers are total, branches run only
\* inside a compiled plan, dispatched groups are disjoint runs of statements.
TypeOK ==
  /\ pc \in 0 .. Len(body.stmts) + 1
  /\ DOMAIN frame.val = Names /\ DOMAIN frame.buf = Names
  /\ DOMAIN world = AllCells(body.stmts)
  /\ IsABag(freed)
  /\ inline \in BOOLEAN
  /\ \A g, h \in plan : /\ g.members \subseteq DOMAIN body.stmts
                          /\ g.members \cap h.members # {} => g = h

\* design.md's determinism contract, at the code that must keep it: when the
\* compiled function returns, whatever was parallelised and however the
\* branches interleaved, the returned value, the contents of every resource
\* and the console output are those of the statements run in source order, and
\* so are the buffers given back: none is leaked.
SerialEquivalence ==
  result # Running =>
    LET ref == Sequential(body)
    IN /\ result = ref.result
       /\ world = ref.world
       /\ console = ref.out
       /\ BagToSet(freed) = BagToSet(ref.freed)

\* Ownership across the join (move-only slots, captured owners, branch
\* cleanup): no heap buffer is ever freed twice.
FreedOnce == \A b \in BagToSet(freed) : freed[b] = 1

\* Why a group may be dispatched at all: no member changes a local that another
\* reads or changes, or a cell that another touches.  The effects are those that
\* happen, a generic callee's included; the analysis sees only summaries.
GroupsIndependent ==
  \A g \in plan : \A i, j \in g.members :
    i # j =>
      LET s == body.stmts[i]
          t == body.stmts[j]
      IN /\ Changed(s) \cap (reads(t) \cup Changed(t)) = {}
         /\ Modified(s, i) \cap CellsOf(t, j) = {}

\* build_conflict_graph enumerates candidates through inverted indices instead
\* of all pairs: no conflicting pair is missed, so groups are independent.
SparseIsDense ==
  pc = NotCompiled =>
    \A i, j \in DOMAIN body.stmts :
      i < j /\ statements_conflict(body.stmts[i], body.stmts[j]) => conflicts(body.stmts, i, j)

\* Every serialised pair is reported with a cause: conflict_detail, a second
\* walk of the decision, never answers None for an edge of the graph.
EdgesExplained ==
  pc = NotCompiled =>
    \A i, j \in DOMAIN body.stmts :
      i < j /\ conflicts(body.stmts, i, j) => conflict_detail(body.stmts[i], body.stmts[j]) # "none"

\* Following an advised reorder leaves the function's value and the contents
\* of every resource as they were.  Two things the advisory does not look at
\* are set aside: a statement in the gap that may leave the function, and a
\* binding that the mover or the gap consumes by move.  (A term names its
\* statement, so the two runs compare as they are.)
ReorderSound ==
  pc = NotCompiled =>
    \A i, j \in DOMAIN body.stmts :
      /\ i < j /\ IsOpportunity(body.stmts, i, j)
      /\ \A k \in i .. j : ~body.stmts[k].has_early_exit /\ body.stmts[k].consuming_reads = {}
      => LET moved == InOrder(body, Reordered(body.stmts, i, j))
         IN moved.result = Sequential(body).result /\ moved.world = Sequential(body).world
=============================================================================
