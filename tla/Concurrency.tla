---------------------------- MODULE Concurrency ----------------------------
(***************************************************************************)
(* The concurrency analysis of the compiler (src/src/concurrency.rs and    *)
(* concurrency/): what two statements of a function body may not do at the *)
(* same time, the sparse conflict graph, the parallel groups read off it   *)
(* and the reorder advisory.  Everything here is a pure function of the    *)
(* statements' summaries; AutoPar runs the code generated from it.         *)
(*                                                                         *)
(* A statement summary is a record whose fields carry the names of         *)
(* StmtInfo.  Two fields of the source are split because code generation   *)
(* looks at them separately: `defines` is let_introduced plus assigned,    *)
(* `reads` is value_reads plus else_reads (the else block of a let-else).  *)
(* consuming_reads and moving_reads are the two per-statement hazard sets  *)
(* of analyze_function.  is_seq is left out: analyze_function passes       *)
(* false for every statement.                                              *)
(***************************************************************************)
EXTENDS Naturals, Sequences, FiniteSets

CONSTANT Containers    \* container_locals: locals that own a heap buffer

\* The key of an unparameterised effect, and of an unproven one.
NoKey == "no key"

\* method_fanout_receiver_root of a statement that is no method fan-out.
NoRoot == "no receiver"

BuiltinVerbs == {"reads", "writes", "sends", "receives", "allocates", "panics",
                 "blocks", "suspends"}

is_console_resource(r) == r \in {"Stdout", "Stderr"}

\* The names of a summary, as analyze_stmt unites them for a let-else (for other
\* statements one part is empty); the walk that finds them in the syntax is not
\* modelled.
defines(s) == s.let_introduced \cup s.assigned

reads(s) == s.value_reads \cup s.else_reads

EffectsOf(s) == {s.effects[k] : k \in DOMAIN s.effects}

(***************************************************************************)
(* Conflicts of two statements                                             *)
(***************************************************************************)
\* The effect lattice: same resource, not two distinct literal keys, and a
\* pair of verbs that does not commute.
two_effects_conflict(x, y) ==
  /\ x.resource = y.resource
  /\ ~(x.key # NoKey /\ y.key # NoKey /\ x.key # y.key)
  /\ \/ {x.verb, y.verb} = {"reads", "writes"}
     \/ x.verb = "writes" /\ y.verb = "writes" /\ ~is_console_resource(x.resource)
     \/ x.verb = y.verb /\ x.verb \in {"sends", "receives"} /\ x.resource # "Channel"
     \/ x.verb = y.verb /\ x.verb \notin BuiltinVerbs

effects_conflict(a, b) ==
  \E x \in EffectsOf(a), y \in EffectsOf(b) : two_effects_conflict(x, y)

effects_conflict_excluding_network(a, b) ==
  \E x \in EffectsOf(a), y \in EffectsOf(b) :
    /\ ~(x.resource = "Network" /\ y.resource = "Network")
    /\ two_effects_conflict(x, y)

distinct_method_fanout(a, b) ==
  /\ a.method_fanout_receiver_root # NoRoot
  /\ b.method_fanout_receiver_root # NoRoot
  /\ a.method_fanout_receiver_root # b.method_fanout_receiver_root

\* a is the earlier statement, b the later.
statements_conflict(a, b) ==
  \/ defines(a) \cap reads(b) # {}
  \/ defines(b) \cap reads(a) # {}
  \/ defines(a) \cap defines(b) # {}
  \/ a.calls_polymorphic /\ (b.calls_polymorphic \/ b.effects # <<>>)
  \/ b.calls_polymorphic /\ a.effects # <<>>
  \/ IF \/ a.is_ephemeral_network_fanout /\ b.is_ephemeral_network_fanout
        \/ distinct_method_fanout(a, b)
     THEN effects_conflict_excluding_network(a, b)
     ELSE effects_conflict(a, b)

\* A second walk of the same decision order, with the network relaxation as
\* it was decided for the pair.
DetailSkipping(a, b, skip_network) ==
  LET raw == defines(a) \cap reads(b)
      dep == raw \cup (defines(b) \cap reads(a))
      polymorphic == \/ a.calls_polymorphic /\ (b.calls_polymorphic \/ b.effects # <<>>)
                     \/ b.calls_polymorphic /\ a.effects # <<>>
      found == \E x \in EffectsOf(a), y \in EffectsOf(b) :
                 /\ ~(skip_network /\ x.resource = "Network" /\ y.resource = "Network")
                 /\ two_effects_conflict(x, y)
  IN IF raw # {} THEN "raw"
     ELSE IF dep # {} THEN "war"
     ELSE IF defines(a) \cap defines(b) # {} THEN "write_write"
     ELSE IF polymorphic THEN "polymorphic"
     ELSE IF found THEN "effect" ELSE "none"

\* Mistake: two method fan-outs are relaxed whether or not their receivers differ.
detail_same_receiver(a, b) ==
  DetailSkipping(a, b, a.method_fanout_receiver_root # NoRoot /\ b.method_fanout_receiver_root # NoRoot)

\* The cause reported for an edge; "none" is the None of the code, for which no
\* serialization point is pushed.
conflict_detail(a, b) ==
  DetailSkipping(a, b, \/ a.is_ephemeral_network_fanout /\ b.is_ephemeral_network_fanout
                       \/ distinct_method_fanout(a, b))

(***************************************************************************)
(* The sparse conflict graph                                               *)
(***************************************************************************)
Pairs(A, B) == {{p, q} : p \in A, q \in B}

var_definers(infos, v) == {i \in DOMAIN infos : v \in defines(infos[i])}

var_readers(infos, v) == {i \in DOMAIN infos : v \in reads(infos[i])}

poly_stmts(infos) == {i \in DOMAIN infos : infos[i].calls_polymorphic}

effectful_stmts(infos) == {i \in DOMAIN infos : infos[i].effects # <<>>}

resource_stmts(infos, r) ==
  {i \in DOMAIN infos : \E x \in EffectsOf(infos[i]) : x.resource = r}

Bindings(infos) == UNION {defines(infos[i]) : i \in DOMAIN infos}

Resources(infos) == {x.resource : x \in UNION {EffectsOf(infos[i]) : i \in DOMAIN infos}}

\* Mistake: a polymorphic call is never tried against an effectful statement.
candidates_without_poly(infos) ==
  (UNION {Pairs(var_definers(infos, v), var_definers(infos, v) \cup var_readers(infos, v)) :
            v \in Bindings(infos)})
  \cup (UNION {Pairs(resource_stmts(infos, r), resource_stmts(infos, r)) : r \in Resources(infos)})

\* The pairs that share an index entry.  {i, i} stands for a pair that the
\* code's `add` drops.
candidates(infos) ==
  (UNION {Pairs(var_definers(infos, v), var_definers(infos, v) \cup var_readers(infos, v)) :
            v \in Bindings(infos)})
  \cup Pairs(poly_stmts(infos), poly_stmts(infos) \cup effectful_stmts(infos))
  \cup (UNION {Pairs(resource_stmts(infos, r), resource_stmts(infos, r)) : r \in Resources(infos)})

\* build_conflict_graph: every candidate is confirmed with the exact predicate,
\* called with the earlier statement first.
Edge(infos, lo, hi) ==
  {lo, hi} \in candidates(infos) /\ statements_conflict(infos[lo], infos[hi])

\* ConflictGraph::conflicts: the neighbour sets are filled in both directions.
conflicts(infos, i, j) ==
  \/ i < j /\ Edge(infos, i, j)
  \/ j < i /\ Edge(infos, j, i)

(***************************************************************************)
(* Parallel groups                                                         *)
(***************************************************************************)
effects_mark_coroutine_boundary(s) ==
  \E x \in EffectsOf(s) :
    \/ x.verb = "suspends"
    \/ x.verb \in {"sends", "receives"} /\ x.resource = "Network"

\* A let whose binding a later statement takes by move.
hazard_producer(infos, i) ==
  \E j \in DOMAIN infos : j > i /\ (infos[j].moving_reads \ infos[j].let_introduced) \cap infos[i].let_introduced # {}

\* Mistake: a statement that consumes a captured owner is admitted to a branch.
seq_only_consumer_free(infos, i) ==
  LET s == infos[i]
  IN \/ hazard_producer(infos, i) \/ s.has_early_exit \/ s.has_channel_op
     \/ /\ effects_mark_coroutine_boundary(s)
        /\ ~s.is_timer_suspend /\ ~s.is_safe_network_fanout
        /\ s.method_fanout_receiver_root = NoRoot

\* The guards a statement must pass to seed a group and, mirrored, to join one.
SequentialOnly(infos, i) ==
  LET s == infos[i]
  IN \/ hazard_producer(infos, i)
     \/ s.has_early_exit
     \/ /\ effects_mark_coroutine_boundary(s)
        /\ ~s.is_timer_suspend
        /\ ~s.is_safe_network_fanout
        /\ s.method_fanout_receiver_root = NoRoot
     \/ s.has_channel_op
     \/ s.consuming_reads \ s.let_introduced # {}

\* Mistake: a newcomer is compared with the member before it only.
fits_beside_last(infos, start, k) == ~SequentialOnly(infos, k) /\ ~conflicts(infos, k, k - 1)

\* Statement k may join the group that runs from `start` to k - 1: it is
\* admissible and independent of all the members.
Fits(infos, start, k) ==
  /\ ~SequentialOnly(infos, k)
  /\ \A g \in start .. k - 1 : ~conflicts(infos, k, g)

\* Where the group seeded at `start` ends: the longest contiguous run in which
\* every newcomer fits.
GroupEnd(infos, start) ==
  CHOOSE e \in start .. Len(infos) :
    /\ \A k \in start + 1 .. e : Fits(infos, start, k)
    /\ e = Len(infos) \/ ~Fits(infos, start, e + 1)

is_trivial(infos, members) ==
  \/ \A i \in members : /\ \A x \in EffectsOf(infos[i]) : is_console_resource(x.resource)
                        /\ ~infos[i].calls_polymorphic
  \/ Cardinality({i \in members : ~infos[i].is_constant_init}) <= 1

captured_mutations(infos, members) == UNION {infos[i].assigned \ infos[i].let_introduced : i \in members}

captured_container_mutations(infos, members) ==
  captured_mutations(infos, members) \cap Containers

\* Mistake: the scan resumes at the last member of the group it just closed.
groups_overlapping(infos) ==
  LET n == Len(infos)
      scan[start \in 1 .. n + 1] ==
        IF start >= n THEN {}
        ELSE IF SequentialOnly(infos, start) \/ GroupEnd(infos, start) = start THEN scan[start + 1]
        ELSE {start .. GroupEnd(infos, start)} \cup scan[GroupEnd(infos, start)]
  IN scan[1]

\* One round of the scan at `start`, given what it finds from each later
\* statement: step over what must stay sequential, or close a group where it
\* ends; a group of one, or one that calls its own function, is not emitted.
ScanRound(infos, later, start) ==
  IF start > Len(infos) THEN {}
  ELSE IF SequentialOnly(infos, start) THEN later[start + 1]
  ELSE LET members == start .. GroupEnd(infos, start)
           emitted == /\ Cardinality(members) > 1
                      /\ \A i \in members : ~infos[i].calls_enclosing_fn
       IN (IF emitted THEN {members} ELSE {}) \cup later[GroupEnd(infos, start) + 1]

\* The emitted groups, as sets of statement indices: scan from the first statement.
find_parallel_groups(infos) ==
  LET scan[start \in 1 .. Len(infos) + 1] == ScanRound(infos, scan, start)
  IN scan[1]

(***************************************************************************)
(* The reorder advisory                                                    *)
(***************************************************************************)
reorder_eligible(s) ==
  /\ ~s.has_early_exit
  /\ ~s.has_channel_op
  /\ ~s.has_console_output
  /\ ~effects_mark_coroutine_boundary(s) \/ s.is_timer_suspend \/ s.is_safe_network_fanout

\* Mistake: the last statement of the gap is not looked at.
slides_short_gap(infos, k, i, j) == \A m \in i + 1 .. j - 2 : ~conflicts(infos, k, m)

\* Whether k (i going right, or j going left) slides over every statement between.
Slides(infos, k, i, j) == \A m \in i + 1 .. j - 1 : ~conflicts(infos, k, m)

\* find_reorder_opportunities reports the pair (i, j).
IsOpportunity(infos, i, j) ==
  /\ j > i + 1
  /\ reorder_eligible(infos[i]) /\ reorder_eligible(infos[j])
  /\ ~conflicts(infos, i, j)
  /\ LET grouped == UNION find_parallel_groups(infos) IN ~(i \in grouped /\ j \in grouped)
  /\ Slides(infos, j, i, j) \/ Slides(infos, i, i, j)

\* movable_statement: the later one when it can slide left.
movable_statement(infos, i, j) == IF Slides(infos, j, i, j) THEN j ELSE i

\* The statement order the advice asks for: what "moving statement movable
\* adjacent to the stationary one" means.  The compiler itself moves nothing.
Reordered(infos, i, j) ==
  LET n == Len(infos)
      identity == [k \in 1 .. n |-> k]
  IN IF movable_statement(infos, i, j) = j
     THEN SubSeq(identity, 1, i) \o <<j>> \o SubSeq(identity, i + 1, j - 1)
            \o SubSeq(identity, j + 1, n)
     ELSE SubSeq(identity, 1, i - 1) \o SubSeq(identity, i + 1, j - 1) \o <<i>>
            \o SubSeq(identity, j, n)
=============================================================================
