--------------------------- MODULE AutoParProofs ---------------------------
(***************************************************************************)
(* What is proved of inferred parallelism, for every body, with any number *)
(* of statements, effects, resources and names:                            *)
(* - the sparse enumeration misses no conflicting pair, and the second     *)
(*   walk of the decision gives every edge a cause;                        *)
(* - the members of a dispatched group are independent: side by side, no   *)
(*   branch changes what another one uses;                                 *)
(* - no buffer is freed twice, be it by a branch, an assignment, a move or *)
(*   the scope exit;                                                       *)
(* - the state is type correct.                                            *)
(*                                                                         *)
(* find_parallel_groups and Effect recurse over positions. That the        *)
(* recursive functions exist is shown first (ScanExists, FoldExists); an   *)
(* induction then looks at the least position where its claim fails        *)
(* (LeastExists).                                                          *)
(***************************************************************************)
EXTENDS AutoPar, WellFoundedInduction, NaturalsInduction, SequenceTheorems, TLAPS

(***************************************************************************)
(* The candidate pairs                                                     *)
(***************************************************************************)
\* Two statements that define and use one binding share its index entry.
LEMMA BindingCandidate ==
  ASSUME NEW infos, NEW i \in DOMAIN infos, NEW j \in DOMAIN infos, NEW v,
         v \in defines(infos[i]), v \in defines(infos[j]) \cup reads(infos[j])
  PROVE  {i, j} \in candidates(infos)
<1>1. v \in Bindings(infos)
  BY DEF Bindings
<1>2. i \in var_definers(infos, v) /\ j \in var_definers(infos, v) \cup var_readers(infos, v)
  BY DEF var_definers, var_readers
<1>3. {i, j} \in Pairs(var_definers(infos, v), var_definers(infos, v) \cup var_readers(infos, v))
  BY <1>2 DEF Pairs
<1> QED
  BY <1>1, <1>3 DEF candidates

\* A polymorphic call is paired with every polymorphic or effectful statement.
LEMMA PolyCandidate ==
  ASSUME NEW infos, NEW i \in DOMAIN infos, NEW j \in DOMAIN infos,
         infos[i].calls_polymorphic, infos[j].calls_polymorphic \/ infos[j].effects # <<>>
  PROVE  {i, j} \in candidates(infos)
<1>1. i \in poly_stmts(infos) /\ j \in poly_stmts(infos) \cup effectful_stmts(infos)
  BY DEF poly_stmts, effectful_stmts
<1>2. {i, j} \in Pairs(poly_stmts(infos), poly_stmts(infos) \cup effectful_stmts(infos))
  BY <1>1 DEF Pairs
<1> QED
  BY <1>2 DEF candidates

\* Two statements whose effects conflict share a resource, and its index entry.
LEMMA EffectCandidate ==
  ASSUME NEW infos, NEW i \in DOMAIN infos, NEW j \in DOMAIN infos,
         effects_conflict(infos[i], infos[j])
  PROVE  {i, j} \in candidates(infos)
<1>1. PICK x \in EffectsOf(infos[i]), y \in EffectsOf(infos[j]) : x.resource = y.resource
  BY DEF effects_conflict, two_effects_conflict
<1>2. i \in resource_stmts(infos, x.resource) /\ j \in resource_stmts(infos, x.resource)
  BY <1>1 DEF resource_stmts
<1>3. x.resource \in Resources(infos)
  BY <1>1 DEF Resources
<1>4. {i, j} \in Pairs(resource_stmts(infos, x.resource), resource_stmts(infos, x.resource))
  BY <1>2 DEF Pairs
<1> QED
  BY <1>3, <1>4 DEF candidates

\* The network relaxation only removes conflicts.
LEMMA RelaxedConflict ==
  ASSUME NEW a, NEW b, effects_conflict_excluding_network(a, b)
  PROVE  effects_conflict(a, b)
BY DEF effects_conflict, effects_conflict_excluding_network

\* Every conflicting pair is a candidate, so the confirming test is reached.
LEMMA ConflictIsCandidate ==
  ASSUME NEW infos, NEW i \in DOMAIN infos, NEW j \in DOMAIN infos,
         statements_conflict(infos[i], infos[j])
  PROVE  {i, j} \in candidates(infos)
<1>0. {i, j} = {j, i}
  OBVIOUS
<1>1. CASE defines(infos[i]) \cap reads(infos[j]) # {}
  BY <1>1, BindingCandidate
<1>2. CASE defines(infos[j]) \cap reads(infos[i]) # {}
  <2>1. {j, i} \in candidates(infos)
    BY <1>2, BindingCandidate
  <2> QED
    BY <1>0, <2>1
<1>3. CASE defines(infos[i]) \cap defines(infos[j]) # {}
  BY <1>3, BindingCandidate
<1>4. CASE infos[i].calls_polymorphic /\ (infos[j].calls_polymorphic \/ infos[j].effects # <<>>)
  BY <1>4, PolyCandidate
<1>5. CASE infos[j].calls_polymorphic /\ infos[i].effects # <<>>
  <2>1. {j, i} \in candidates(infos)
    BY <1>5, PolyCandidate
  <2> QED
    BY <1>0, <2>1
<1>6. CASE effects_conflict(infos[i], infos[j])
  BY <1>6, EffectCandidate
<1> QED
  BY <1>1, <1>2, <1>3, <1>4, <1>5, <1>6, RelaxedConflict DEF statements_conflict

(***************************************************************************)
(* The theorems                                                            *)
(***************************************************************************)
\* build_conflict_graph misses no conflicting pair, whatever the body.
THEOREM NothingMissed == Spec => []SparseIsDense
<1>1. SparseIsDense
  <2> SUFFICES ASSUME NEW i \in DOMAIN body.stmts, NEW j \in DOMAIN body.stmts, i < j,
                      statements_conflict(body.stmts[i], body.stmts[j])
               PROVE  conflicts(body.stmts, i, j)
    BY DEF SparseIsDense
  <2>1. {i, j} \in candidates(body.stmts)
    BY ConflictIsCandidate
  <2> QED
    BY <2>1 DEF conflicts, Edge
<1> QED
  BY <1>1, PTL

\* The decision of statements_conflict and the walk of conflict_detail agree.
LEMMA ConflictHasDetail ==
  ASSUME NEW a, NEW b, statements_conflict(a, b)
  PROVE  conflict_detail(a, b) # "none"
<1>1. CASE \/ a.is_ephemeral_network_fanout /\ b.is_ephemeral_network_fanout
           \/ distinct_method_fanout(a, b)
  BY <1>1 DEF statements_conflict, conflict_detail, DetailSkipping, effects_conflict_excluding_network
<1>2. CASE ~(\/ a.is_ephemeral_network_fanout /\ b.is_ephemeral_network_fanout
             \/ distinct_method_fanout(a, b))
  BY <1>2 DEF statements_conflict, conflict_detail, DetailSkipping, effects_conflict
<1> QED
  BY <1>1, <1>2

BodyChosen == body \in Bodies

\* No step replaces the body, so its statements stay indexed from 1: what orders
\* a pair.
LEMMA BodyFixed == Spec => []BodyChosen
<1>1. Init => BodyChosen
  BY DEF Init, BodyChosen
<1>2. BodyChosen /\ [Next]_vars => BodyChosen'
  BY DEF Next, vars, Compile, RunSequential, Fork, BranchEffect, BranchEnd, Join, Return, BodyChosen
<1> QED
  BY <1>1, <1>2, PTL DEF Spec

\* Every edge of the graph is reported with a cause, whatever the body.
THEOREM CauseReported == Spec => []EdgesExplained
<1>1. BodyChosen => EdgesExplained
  <2> SUFFICES ASSUME BodyChosen, NEW i \in DOMAIN body.stmts, NEW j \in DOMAIN body.stmts,
                      i < j, conflicts(body.stmts, i, j)
               PROVE  conflict_detail(body.stmts[i], body.stmts[j]) # "none"
    BY DEF EdgesExplained
  <2>1. i \in Nat /\ j \in Nat
    BY BodiesAssumption DEF BodyChosen
  <2>2. Edge(body.stmts, i, j)
    BY <2>1 DEF conflicts
  <2> QED
    BY <2>2, ConflictHasDetail DEF Edge
<1> QED
  BY <1>1, BodyFixed, PTL

(***************************************************************************)
(* The groups                                                              *)
(***************************************************************************)
\* A set of numbers has a least one.  Inductions on the position of a statement
\* look at the least counterexample.
LEMMA LeastExists ==
  ASSUME NEW S, S \subseteq Nat, S # {}
  PROVE  \E d \in S : \A e \in S : d <= e
<1> DEFINE R == OpToRel(<, Nat)
<1>1. IsWellFoundedOn(R, Nat)
  BY NatLessThanWellFounded
<1> HIDE DEF R
<1>2. PICK x \in S : \A y \in S : ~(<<y, x>> \in R)
  BY <1>1, WFMin
<1>3. ASSUME NEW y \in S PROVE x <= y
  <2>1. x \in Nat /\ y \in Nat
    OBVIOUS
  <2>2. ~(y < x)
    BY <1>2, <2>1 DEF R, OpToRel
  <2> QED
    BY <2>1, <2>2
<1> QED
  BY <1>3

\* The run seeded at `start` has an end, and everyone after the seed fits.
LEMMA GroupEndFacts ==
  ASSUME NEW infos, Len(infos) \in Nat, NEW start \in 1 .. Len(infos)
  PROVE  /\ GroupEnd(infos, start) \in start .. Len(infos)
         /\ \A k \in start + 1 .. GroupEnd(infos, start) : Fits(infos, start, k)
<1> DEFINE n == Len(infos)
           Stops == {e \in start .. n : e = n \/ ~Fits(infos, start, e + 1)}
<1>1. Stops \subseteq Nat /\ n \in Stops
  OBVIOUS
<1>2. PICK e \in Stops : \A d \in Stops : e <= d
  BY <1>1, LeastExists
<1>3. ASSUME NEW k \in start + 1 .. e PROVE Fits(infos, start, k)
  <2>1. k - 1 \in start .. n /\ ~(e <= k - 1) /\ (k - 1) + 1 = k
    BY <1>1
  <2>2. k - 1 \notin Stops
    <3> HIDE DEF Stops
    <3> QED
      BY <1>2, <2>1
  <2> QED
    BY <2>1, <2>2
<1>4. \E d \in start .. Len(infos) : /\ \A k \in start + 1 .. d : Fits(infos, start, k)
                                     /\ d = Len(infos) \/ ~Fits(infos, start, d + 1)
  BY <1>2, <1>3
<1> QED
  BY <1>4 DEF GroupEnd

\* A round of the scan depends only on what is found from later statements.
LEMMA ScanAgrees ==
  ASSUME NEW infos, Len(infos) \in Nat, NEW start \in 1 .. Len(infos) + 1, NEW f, NEW g,
         \A k \in start + 1 .. Len(infos) + 1 : f[k] = g[k]
  PROVE  ScanRound(infos, f, start) = ScanRound(infos, g, start)
<1>1. CASE start > Len(infos)
  BY <1>1 DEF ScanRound
<1>2. CASE ~(start > Len(infos))
  <2>1. start \in 1 .. Len(infos) /\ start + 1 \in start + 1 .. Len(infos) + 1
    BY <1>2
  <2>2. GroupEnd(infos, start) + 1 \in start + 1 .. Len(infos) + 1
    BY <2>1, GroupEndFacts
  <2>3. f[start + 1] = g[start + 1] /\ f[GroupEnd(infos, start) + 1] = g[GroupEnd(infos, start) + 1]
    BY <2>1, <2>2
  <2> QED
    BY <1>2, <2>3 DEF ScanRound
<1> QED
  BY <1>1, <1>2

\* The scan from statement `start` on.
IsScan(infos, start, f) ==
  f = [k \in start .. Len(infos) + 1 |-> ScanRound(infos, f, k)]

LEMMA ScanExists ==
  ASSUME NEW infos, Len(infos) \in Nat
  PROVE  \E f : IsScan(infos, 1, f)
<1> DEFINE n == Len(infos)
           Bad == {m \in 0 .. n : ~\E f : IsScan(infos, n + 1 - m, f)}
<1>1. ASSUME NEW m \in 0 .. n, m = 0 \/ \E f : IsScan(infos, n + 1 - (m - 1), f)
      PROVE  \E f : IsScan(infos, n + 1 - m, f)
  <2> DEFINE a == n + 1 - m
  <2>1. a \in 1 .. n + 1
    OBVIOUS
  <2>2. \E h : \A k \in a + 1 .. n + 1 : h[k] = ScanRound(infos, h, k)
    <3>1. CASE m = 0
      BY <3>1
    <3>2. CASE m # 0
      <4>1. PICK h : IsScan(infos, n + 1 - (m - 1), h)
        BY <1>1, <3>2
      <4>2. n + 1 - (m - 1) = a + 1
        OBVIOUS
      <4>3. h = [k \in a + 1 .. n + 1 |-> ScanRound(infos, h, k)]
        BY <4>1, <4>2 DEF IsScan
      <4> QED
        BY <4>3
    <3> QED
      BY <3>1, <3>2
  <2>3. PICK h : \A k \in a + 1 .. n + 1 : h[k] = ScanRound(infos, h, k)
    BY <2>2
  <2> DEFINE f == [k \in a .. n + 1 |-> IF k = a THEN ScanRound(infos, h, a) ELSE h[k]]
  <2> HIDE DEF a
  <2>4. \A k \in a + 1 .. n + 1 : f[k] = h[k]
    BY <2>1
  <2>5. ASSUME NEW k \in a .. n + 1 PROVE f[k] = ScanRound(infos, f, k)
    <3>1. ScanRound(infos, f, k) = ScanRound(infos, h, k)
      <4> HIDE DEF f
      <4> QED
        BY <2>1, <2>4, ScanAgrees
    <3>2. CASE k = a
      BY <3>1, <3>2
    <3>3. CASE k # a
      <4>1. k \in a + 1 .. n + 1
        BY <2>1, <3>3
      <4> QED
        BY <2>3, <2>4, <3>1, <4>1
    <3> QED
      BY <3>2, <3>3
  <2>6. f = [k \in a .. n + 1 |-> f[k]]
    OBVIOUS
  <2>7. f = [k \in a .. n + 1 |-> ScanRound(infos, f, k)]
    <3> HIDE DEF f
    <3> QED
      BY <2>5, <2>6
  <2> QED
    BY <2>7 DEF IsScan, a
<1>2. Bad = {}
  <2> SUFFICES ASSUME Bad # {} PROVE FALSE
    OBVIOUS
  <2>1. PICK m \in Bad : \A d \in Bad : m <= d
    <3>1. Bad \subseteq Nat
      OBVIOUS
    <3> HIDE DEF Bad
    <3> QED
      BY <3>1, LeastExists
  <2>2. m # 0 => m - 1 \in 0 .. n /\ m - 1 \notin Bad
    BY <2>1
  <2> QED
    BY <1>1, <2>1, <2>2
<1>3. n \notin Bad /\ n \in 0 .. n /\ n + 1 - n = 1
  BY <1>2
<1> QED
  BY <1>3

\* A group is a run as GroupEnd delimits it.
IsRun(infos, g, from) ==
  \E start \in from .. Len(infos) :
    ~SequentialOnly(infos, start) /\ g = start .. GroupEnd(infos, start)

Disjoint(groups) == \A g, h \in groups : g \cap h # {} => g = h

\* The emitted groups are such runs, and no statement is in two of them.
LEMMA GroupsAreRuns ==
  ASSUME NEW infos, Len(infos) \in Nat
  PROVE  /\ \A g \in find_parallel_groups(infos) : IsRun(infos, g, 1)
         /\ Disjoint(find_parallel_groups(infos))
<1> DEFINE n == Len(infos)
           scan == CHOOSE f : IsScan(infos, 1, f)
           Fine(a) == (\A g \in scan[a] : IsRun(infos, g, a)) /\ Disjoint(scan[a])
           Bad == {m \in 0 .. n : ~Fine(n + 1 - m)}
<1>1. IsScan(infos, 1, scan)
  BY ScanExists
<1>2. find_parallel_groups(infos) = scan[1]
  BY DEF find_parallel_groups, IsScan
<1>3. \A k \in 1 .. n + 1 : scan[k] = ScanRound(infos, scan, k)
  BY <1>1 DEF IsScan
<1> HIDE DEF scan
<1>4. ASSUME NEW a \in 1 .. n + 1, \A k \in a + 1 .. n + 1 : Fine(k)
      PROVE  Fine(a)
  <2>1. CASE a > n
    BY <1>3, <2>1 DEF ScanRound, Disjoint
  <2>2. CASE a <= n /\ SequentialOnly(infos, a)
    <3>1. scan[a] = ScanRound(infos, scan, a) /\ ~(a > Len(infos))
      BY <1>3, <2>2
    <3>2. scan[a] = scan[a + 1]
      BY <2>2, <3>1 DEF ScanRound
    <3>3. Fine(a + 1)
      BY <1>4, <2>2
    <3>4. a + 1 .. n \subseteq a .. n
      OBVIOUS
    <3>5. \A g \in scan[a + 1] : IsRun(infos, g, a)
      BY <3>3, <3>4 DEF IsRun
    <3> QED
      BY <3>2, <3>3, <3>5
  <2>3. CASE a <= n /\ ~SequentialOnly(infos, a)
    <3> DEFINE e == GroupEnd(infos, a)
    <3>1. e \in a .. n
      BY <2>3, GroupEndFacts
    <3>2. scan[a] \subseteq {a .. e} \cup scan[e + 1]
      BY <1>3, <2>3 DEF ScanRound
    <3>3. Fine(e + 1)
      BY <1>4, <3>1
    <3>4. IsRun(infos, a .. e, a)
      BY <2>3 DEF IsRun
    <3> HIDE DEF e
    <3>5. ASSUME NEW g \in scan[e + 1] PROVE IsRun(infos, g, a) /\ g \cap (a .. e) = {}
      <4>1. PICK start \in e + 1 .. n : ~SequentialOnly(infos, start) /\ g = start .. GroupEnd(infos, start)
        BY <3>3 DEF IsRun
      <4>2. start \in a .. n
        BY <3>1
      <4>3. GroupEnd(infos, start) \in start .. n
        BY <3>1, GroupEndFacts
      <4> QED
        BY <3>1, <4>1, <4>2, <4>3 DEF IsRun
    <3>6. \A g \in scan[a] : IsRun(infos, g, a)
      BY <3>2, <3>4, <3>5
    <3>7. ASSUME NEW g \in scan[a], NEW h \in scan[a], g \cap h # {} PROVE g = h
      <4>1. CASE g \in scan[e + 1] /\ h \in scan[e + 1]
        BY <3>3, <3>7, <4>1 DEF Disjoint
      <4>2. CASE g = a .. e \/ h = a .. e
        BY <3>2, <3>5, <3>7, <4>2
      <4> QED
        BY <3>2, <4>1, <4>2
    <3>8. Disjoint(scan[a])
      BY <3>7 DEF Disjoint
    <3> QED
      BY <3>6, <3>8
  <2> QED
    BY <2>1, <2>2, <2>3
<1>5. Bad = {}
  <2> SUFFICES ASSUME Bad # {} PROVE FALSE
    OBVIOUS
  <2> HIDE DEF Fine
  <2>1. PICK m \in Bad : \A d \in Bad : m <= d
    <3>1. Bad \subseteq Nat
      OBVIOUS
    <3> HIDE DEF Bad
    <3> QED
      BY <3>1, LeastExists
  <2>2. ASSUME NEW k \in (n + 1 - m) + 1 .. n + 1 PROVE Fine(k)
    <3>1. n + 1 - k \in 0 .. n /\ n + 1 - k < m /\ n + 1 - (n + 1 - k) = k
      BY <2>1
    <3>2. n + 1 - k \notin Bad
      BY <2>1, <3>1
    <3> QED
      BY <3>1, <3>2
  <2>3. n + 1 - m \in 1 .. n + 1
    BY <2>1
  <2>4. Fine(n + 1 - m)
    BY <1>4, <2>2, <2>3
  <2> QED
    BY <2>1, <2>4
<1>6. Fine(1)
  <2> HIDE DEF Fine
  <2>1. n \in 0 .. n /\ n + 1 - n = 1
    OBVIOUS
  <2> QED
    BY <1>5, <2>1
<1> QED
  BY <1>2, <1>6

(***************************************************************************)
(* The members of a group                                                  *)
(***************************************************************************)
\* The conflict predicate does not care which statement comes first.
LEMMA ConflictSymmetric ==
  ASSUME NEW a, NEW b, statements_conflict(a, b)
  PROVE  statements_conflict(b, a)
<1>1. \A x, y : two_effects_conflict(x, y) <=> two_effects_conflict(y, x)
  BY DEF two_effects_conflict
<1>2. effects_conflict(a, b) => effects_conflict(b, a)
  BY <1>1 DEF effects_conflict
<1>3. effects_conflict_excluding_network(a, b) => effects_conflict_excluding_network(b, a)
  BY <1>1 DEF effects_conflict_excluding_network
<1>4. distinct_method_fanout(a, b) <=> distinct_method_fanout(b, a)
  BY DEF distinct_method_fanout
<1> QED
  BY <1>2, <1>3, <1>4 DEF statements_conflict

\* Members pass the guards of the grouping and, two by two, the conflict check.
LEMMA MembersFit ==
  ASSUME NEW infos, Len(infos) \in Nat, DOMAIN infos = 1 .. Len(infos),
         NEW g \in find_parallel_groups(infos)
  PROVE  /\ g \subseteq DOMAIN infos
         /\ \A i \in g : ~SequentialOnly(infos, i)
         /\ \A i, j \in g : i # j => ~statements_conflict(infos[i], infos[j])
<1> DEFINE n == Len(infos)
<1>1. PICK start \in 1 .. n : ~SequentialOnly(infos, start) /\ g = start .. GroupEnd(infos, start)
  BY GroupsAreRuns DEF IsRun
<1>2. /\ GroupEnd(infos, start) \in start .. n
      /\ \A k \in start + 1 .. GroupEnd(infos, start) : Fits(infos, start, k)
  BY GroupEndFacts
<1>3. g \subseteq 1 .. n
  BY <1>1, <1>2
<1>4. ASSUME NEW i \in g PROVE ~SequentialOnly(infos, i)
  <2>1. i = start \/ i \in start + 1 .. GroupEnd(infos, start)
    BY <1>1, <1>2
  <2> QED
    BY <1>1, <1>2, <2>1 DEF Fits
<1>5. ASSUME NEW i \in g, NEW j \in g, i < j PROVE ~statements_conflict(infos[i], infos[j])
  <2>1. j \in start + 1 .. GroupEnd(infos, start) /\ i \in start .. j - 1
    BY <1>1, <1>2, <1>5
  <2>2. ~conflicts(infos, j, i)
    BY <1>2, <2>1 DEF Fits
  <2>3. ~Edge(infos, i, j)
    BY <1>5, <2>2 DEF conflicts
  <2> QED
    BY <1>3, <1>5, <2>3, ConflictIsCandidate DEF Edge
<1>6. ASSUME NEW i \in g, NEW j \in g, i # j PROVE ~statements_conflict(infos[i], infos[j])
  <2>1. i < j \/ j < i
    BY <1>3, <1>6
  <2> QED
    BY <1>5, <2>1, ConflictSymmetric
<1> QED
  BY <1>3, <1>4, <1>6

\* What a statement does is an effect of its summary, unless it is a generic
\* call and may do what the summary does not say.
LEMMA ActualEffects ==
  ASSUME NEW s, SummaryTrue(s), NEW k \in DOMAIN Actual(s)
  PROVE  /\ Actual(s)[k] \in Effects
         /\ s.calls_polymorphic \/ Actual(s)[k] \in EffectsOf(s)
         /\ s.calls_polymorphic \/ s.effects # <<>>
<1>1. s.effects \in Seq(Effects) /\ s.hidden_effects \in Seq(Effects)
  BY DEF SummaryTrue
<1>2. Actual(s) \in Seq(Effects)
  BY <1>1 DEF Actual
<1>3. CASE s.hidden_effects = <<>>
  <2>1. Actual(s) = s.effects
    BY <1>1, <1>3 DEF Actual
  <2> QED
    BY <1>1, <2>1 DEF EffectsOf
<1>4. CASE s.hidden_effects # <<>>
  <2>1. s.calls_polymorphic
    BY <1>4 DEF SummaryTrue
  <2>2. Actual(s)[k] \in Effects
    BY <1>2, ElementOfSeq
  <2> QED
    BY <2>1, <2>2
<1> QED
  BY <1>3, <1>4

\* Two effects that meet in a cell, one of them changing it, conflict; they are
\* exempt only if they are console output, which meets nowhere, channel traffic,
\* or network traffic of two connections.
LEMMA MeetingConflicts ==
  ASSUME NEW s, NEW t, NEW i, NEW j, i # j, NEW x \in Effects, NEW y \in Effects, NEW c,
         x.verb # "reads", c \in Cells(s, i, x), c \in Cells(t, j, y)
  PROVE  \/ two_effects_conflict(x, y)
         \/ /\ x.resource = "Channel" /\ x.verb \in {"sends", "receives"}
            /\ y.resource = "Channel" /\ y.verb \in {"sends", "receives"}
<1>1. \A p, q \in {x, y} :
        Partitions(p) \cap Partitions(q) # {} => ~(p.key # NoKey /\ q.key # NoKey /\ p.key # q.key)
  BY DEF Partitions
<1>2. CASE x.verb = "writes"
  <2>1. PICK k \in Partitions(x) : c = <<"state", x.resource, k>>
    BY <1>2 DEF Cells
  <2>2. y.verb \in {"reads", "writes"} /\ ~Prints(x)
    BY <1>2, <2>1 DEF Cells
  <2>3. PICK l \in Partitions(y) : c = <<"state", y.resource, l>>
    BY <2>2 DEF Cells
  <2>4. x.resource = y.resource /\ k = l
    BY <2>1, <2>3
  <2> QED
    BY <1>1, <1>2, <2>2, <2>4 DEF two_effects_conflict, Prints
<1>3. CASE x.verb \in {"sends", "receives"}
  <2>1. PICK k \in Partitions(x) : c = <<"link", x.verb, x.resource, Connection(s, i), k>>
    BY <1>3 DEF Cells
  <2>2. y.verb \in {"sends", "receives"}
    BY <2>1 DEF Cells
  <2>3. PICK l \in Partitions(y) : c = <<"link", y.verb, y.resource, Connection(t, j), l>>
    BY <2>2 DEF Cells
  <2>4. x.verb = y.verb /\ x.resource = y.resource /\ k = l
    BY <2>1, <2>3
  <2> QED
    BY <1>1, <1>3, <2>4 DEF two_effects_conflict
<1>4. CASE x.verb \notin BuiltinVerbs
  <2>1. PICK k \in Partitions(x) : c = <<"user", x.verb, x.resource, k>>
    BY <1>4 DEF Cells, BuiltinVerbs
  <2>2. y.verb \notin BuiltinVerbs
    BY <2>1 DEF Cells
  <2>3. PICK l \in Partitions(y) : c = <<"user", y.verb, y.resource, l>>
    BY <2>2 DEF Cells, BuiltinVerbs
  <2>4. x.verb = y.verb /\ x.resource = y.resource /\ k = l
    BY <2>1, <2>3
  <2> QED
    BY <1>1, <1>4, <2>4 DEF two_effects_conflict
<1> QED
  BY <1>2, <1>3, <1>4 DEF Cells

\* Neither network relaxation applies to the two statements.
NotRelaxed(s, t) ==
  /\ ~(s.is_ephemeral_network_fanout /\ t.is_ephemeral_network_fanout)
  /\ ~distinct_method_fanout(s, t)

\* Effects that meet in a network cell use one connection, so their statements
\* are not relaxed.
LEMMA MeetingConnections ==
  ASSUME NEW s, NEW t, SummaryTrue(s), SummaryTrue(t), NEW i, NEW j, i # j,
         NEW x \in Effects, NEW y \in Effects, NEW c,
         x.verb \in {"sends", "receives"}, c \in Cells(s, i, x), c \in Cells(t, j, y)
  PROVE  NotRelaxed(s, t)
<1>1. PICK k \in Partitions(x) : c = <<"link", x.verb, x.resource, Connection(s, i), k>>
  BY DEF Cells, Prints
<1>2. y.verb \in {"sends", "receives"}
  BY <1>1 DEF Cells
<1>3. PICK l \in Partitions(y) : c = <<"link", y.verb, y.resource, Connection(t, j), l>>
  BY <1>2 DEF Cells, Prints
<1>4. Connection(s, i) = Connection(t, j)
  BY <1>1, <1>3
<1> QED
  BY <1>4 DEF Connection, distinct_method_fanout, SummaryTrue, NotRelaxed

\* Statements that do not conflict do not interfere, unless both use channels
\* or one of them consumes a local.
LEMMA NoInterference ==
  ASSUME NEW infos, NEW i \in DOMAIN infos, NEW j \in DOMAIN infos, i # j,
         SummaryTrue(infos[i]), SummaryTrue(infos[j]),
         Changed(infos[i]) = defines(infos[i]), Changed(infos[j]) = defines(infos[j]),
         ~(infos[i].has_channel_op /\ infos[j].has_channel_op),
         ~statements_conflict(infos[i], infos[j])
  PROVE  /\ Changed(infos[i]) \cap (reads(infos[j]) \cup Changed(infos[j])) = {}
         /\ Modified(infos[i], i) \cap CellsOf(infos[j], j) = {}
<1> DEFINE s == infos[i]
           t == infos[j]
<1>1. Changed(s) = defines(s) /\ Changed(t) = defines(t)
  OBVIOUS
<1>2. Changed(s) \cap (reads(t) \cup Changed(t)) = {}
  BY <1>1 DEF statements_conflict
<1>3. ASSUME NEW c \in Modified(s, i), c \in CellsOf(t, j) PROVE FALSE
  <2> HIDE DEF s, t
  <2>1. PICK k \in DOMAIN Actual(s) : Actual(s)[k].verb # "reads" /\ c \in Cells(s, i, Actual(s)[k])
    BY <1>3 DEF Modified
  <2>2. PICK l \in DOMAIN Actual(t) : c \in Cells(t, j, Actual(t)[l])
    BY <1>3 DEF CellsOf
  <2> DEFINE x == Actual(s)[k]
             y == Actual(t)[l]
  <2>3. SummaryTrue(s) /\ SummaryTrue(t) /\ ~statements_conflict(s, t)
    BY DEF s, t
  <2>4. x \in Effects /\ y \in Effects
    BY <2>3, ActualEffects
  <2>5. x \in EffectsOf(s) /\ y \in EffectsOf(t)
    BY <2>3, ActualEffects DEF statements_conflict
  <2> HIDE DEF x, y
  <2>6. ~(/\ x.resource = "Channel" /\ x.verb \in {"sends", "receives"}
          /\ y.resource = "Channel" /\ y.verb \in {"sends", "receives"})
    BY <2>3, <2>5 DEF SummaryTrue, s, t
  <2>7. two_effects_conflict(x, y)
    BY <2>1, <2>2, <2>4, <2>6, MeetingConflicts DEF x, y
  <2>8. CASE x.resource = "Network"
    <3>1. x.verb \in {"sends", "receives"}
      BY <2>3, <2>5, <2>8 DEF SummaryTrue
    <3>2. c \in Cells(s, i, x) /\ c \in Cells(t, j, y)
      BY <2>1, <2>2 DEF x, y
    <3>3. NotRelaxed(s, t)
      BY <2>3, <2>4, <3>1, <3>2, MeetingConnections
    <3> QED
      BY <2>3, <2>5, <2>7, <3>3 DEF statements_conflict, effects_conflict, NotRelaxed
  <2>9. CASE x.resource # "Network"
    BY <2>3, <2>5, <2>7, <2>9
    DEF statements_conflict, effects_conflict, effects_conflict_excluding_network
  <2> QED
    BY <2>8, <2>9
<1> QED
  BY <1>2, <1>3

\* A dispatched group is one the analysis found.
PlanFromAnalysis ==
  \A g \in plan : g.members \in find_parallel_groups(body.stmts)

LEMMA PlanSound == Spec => []PlanFromAnalysis
<1>1. Init => PlanFromAnalysis
  BY DEF Init, PlanFromAnalysis
<1>2. PlanFromAnalysis /\ [Next]_vars => PlanFromAnalysis'
  <2> SUFFICES ASSUME PlanFromAnalysis, [Next]_vars PROVE PlanFromAnalysis'
    OBVIOUS
  <2>1. CASE Compile
    <3>1. body' = body /\ \A g \in plan' : g.members \in Dispatchable(body)
      BY <2>1 DEF Compile
    <3> QED
      BY <3>1 DEF PlanFromAnalysis, Dispatchable
  <2>2. CASE UNCHANGED <<body, plan>>
    BY <2>2 DEF PlanFromAnalysis
  <2> QED
    BY <2>1, <2>2
    DEF Next, vars, RunSequential, Fork, BranchEffect, BranchEnd, Join, Return
<1> QED
  BY <1>1, <1>2, PTL DEF Spec

\* Branches that run side by side share no local and no cell that one of them
\* changes, whatever the body and whichever groups the planner keeps.
THEOREM BranchesIndependent == Spec => []GroupsIndependent
<1>1. BodyChosen /\ PlanFromAnalysis => GroupsIndependent
  <2> SUFFICES ASSUME BodyChosen, PlanFromAnalysis, NEW g \in plan,
                      NEW i \in g.members, NEW j \in g.members, i # j
               PROVE  /\ Changed(body.stmts[i]) \cap (reads(body.stmts[j]) \cup Changed(body.stmts[j])) = {}
                      /\ Modified(body.stmts[i], i) \cap CellsOf(body.stmts[j], j) = {}
    BY DEF GroupsIndependent
  <2>1. Len(body.stmts) \in Nat /\ DOMAIN body.stmts = 1 .. Len(body.stmts)
    BY BodiesAssumption DEF BodyChosen
  <2>2. g.members \in find_parallel_groups(body.stmts)
    BY DEF PlanFromAnalysis
  <2>3. /\ i \in DOMAIN body.stmts /\ j \in DOMAIN body.stmts
        /\ ~SequentialOnly(body.stmts, i) /\ ~SequentialOnly(body.stmts, j)
        /\ ~statements_conflict(body.stmts[i], body.stmts[j])
    BY <2>1, <2>2, MembersFit
  <2>4. SummaryTrue(body.stmts[i]) /\ SummaryTrue(body.stmts[j])
    BY <2>3, SummariesAssumption DEF BodyChosen
  <2>5. /\ Changed(body.stmts[i]) = defines(body.stmts[i])
        /\ Changed(body.stmts[j]) = defines(body.stmts[j])
        /\ ~body.stmts[i].has_channel_op
    BY <2>3 DEF SequentialOnly, Changed, defines
  <2> QED
    BY <2>3, <2>4, <2>5, NoInterference
<1> QED
  BY <1>1, BodyFixed, PlanSound, PTL

(***************************************************************************)
(* Ownership                                                               *)
(***************************************************************************)
\* The buffers of the locals after statement i.
NewBuf(s, i, buf) ==
  [n \in Names |-> IF n \in defines(s) \cap Containers THEN <<i, n>>
                   ELSE IF n \in s.consuming_reads THEN NoBuffer ELSE buf[n]]

Slots == return_slots(body, DOMAIN branches)

\* A statement that has been passed; 0 stands for the entry of the function.
Past(i) == i \in Nat /\ (i = 0 \/ i < pc)

\* The planner keeps groups as the analysis found them, with their slots.
PlanExact ==
  \A g \in plan : /\ g.members \in Dispatchable(body) /\ g.slots = return_slots(body, g.members)
                  /\ g = [members |-> g.members, slots |-> g.slots]

\* Running branches are those of one dispatched group, which starts at pc.
OneGroup ==
  /\ pc \in Nat
  /\ branches = <<>> \/ \E g \in plan : DOMAIN branches = g.members
  /\ \A i \in DOMAIN branches :
       /\ result = Running /\ pc # NotCompiled /\ i >= pc
       /\ DOMAIN branches[i] = {"loc", "at", "seen", "out", "ended"}

\* A branch has the parent's buffers until it ends, then those of its own lets too.
Copies ==
  \A i \in DOMAIN branches :
    branches[i].loc.buf = IF branches[i].ended THEN NewBuf(body.stmts[i], i, frame.buf)
                          ELSE frame.buf

\* What the parent frame owns was made by a statement that has been passed, for
\* the owner it is in, and has not been freed.
Owned ==
  result = Running =>
    \A n \in Names : frame.buf[n] # NoBuffer =>
      /\ n \in Containers
      /\ frame.buf[n] \notin DOMAIN freed
      /\ \E i : Past(i) /\ frame.buf[n] = <<i, n>>

\* What has been freed was made by a statement that has been passed or by a branch
\* that has ended, which leaves alone what a slot takes over.
FreedPast ==
  result = Running =>
    \A i, n : <<i, n>> \in DOMAIN freed =>
      \/ Past(i)
      \/ i \in DOMAIN branches /\ branches[i].ended /\ n \notin Slots

HInv ==
  /\ BodyChosen
  /\ PlanExact
  /\ OneGroup
  /\ Copies
  /\ Owned
  /\ FreedPast
  /\ FreedOnce

\* Freeing what is not in the bag yet.
LEMMA FreeNew ==
  ASSUME NEW bag, NEW bufs, \A b \in DOMAIN bag : bag[b] = 1, bufs \cap DOMAIN bag = {}
  PROVE  /\ DOMAIN Free(bag, bufs) = DOMAIN bag \cup bufs
         /\ \A b \in DOMAIN Free(bag, bufs) : Free(bag, bufs)[b] = 1
BY DEF Free, (+), SetToBag

LEMMA BodyFacts ==
  ASSUME BodyChosen
  PROVE  /\ Len(body.stmts) \in Nat /\ DOMAIN body.stmts = 1 .. Len(body.stmts)
         /\ \A i \in DOMAIN body.stmts : ScopesApart(body.stmts[i])
BY BodiesAssumption, ScopesAssumption DEF BodyChosen

\* A member of a dispatched group gives nothing back: it consumes nothing and
\* assigns no owner.
LEMMA MemberFacts ==
  ASSUME BodyChosen, PlanExact, NEW g \in plan, NEW i \in g.members
  PROVE  /\ i \in DOMAIN body.stmts /\ i \in Nat
         /\ body.stmts[i].consuming_reads = {}
         /\ body.stmts[i].assigned \cap Containers = {}
<1> DEFINE s == body.stmts[i]
<1>1. g.members \in find_parallel_groups(body.stmts) /\ CanCarry(body, g.members)
  BY DEF PlanExact, Dispatchable
<1>2. i \in DOMAIN body.stmts /\ ~SequentialOnly(body.stmts, i)
  BY <1>1, BodyFacts, MembersFit
<1>3. ScopesApart(s)
  BY <1>2, BodyFacts
<1>4. s.consuming_reads \subseteq s.let_introduced
  BY <1>2 DEF SequentialOnly
<1>5. (s.assigned \ s.let_introduced) \cap Containers = {}
  BY <1>1 DEF CanCarry, captured_container_mutations, captured_mutations
<1> QED
  BY <1>2, <1>3, <1>4, <1>5, BodyFacts DEF ScopesApart

\* The first and the last member of a group.
LEMMA GroupBounds ==
  ASSUME BodyChosen, PlanExact, NEW g \in plan
  PROVE  /\ \A i \in g.members : Min(g.members) <= i /\ i <= Max(g.members)
         /\ Max(g.members) \in g.members
<1>1. g.members \in find_parallel_groups(body.stmts)
  BY DEF PlanExact, Dispatchable
<1>2. PICK a \in 1 .. Len(body.stmts) : g.members = a .. GroupEnd(body.stmts, a)
  BY <1>1, BodyFacts, GroupsAreRuns DEF IsRun
<1>3. GroupEnd(body.stmts, a) \in a .. Len(body.stmts)
  BY <1>2, BodyFacts, GroupEndFacts
<1> DEFINE e == GroupEnd(body.stmts, a)
<1>4. a \in Nat /\ e \in Nat /\ a <= e
  BY <1>2, <1>3, BodyFacts
<1> HIDE DEF e
<1>5. Max(a .. e) \in a .. e /\ \A i \in a .. e : i <= Max(a .. e)
  <2>1. \E x \in a .. e : \A y \in a .. e : x >= y
    BY <1>4
  <2> QED
    BY <1>4, <2>1 DEF Max
<1>6. Min(a .. e) \in a .. e /\ \A i \in a .. e : Min(a .. e) <= i
  <2>1. \E x \in a .. e : \A y \in a .. e : x <= y
    BY <1>4
  <2> QED
    BY <1>4, <2>1 DEF Min
<1> QED
  BY <1>2, <1>5, <1>6 DEF e

\* What a plan's group is identified by.
LEMMA GroupOf ==
  ASSUME BodyChosen, PlanExact, NEW g \in plan, NEW h \in plan, g.members \cap h.members # {}
  PROVE  g.members = h.members /\ g.slots = h.slots
<1>1. g.members \in find_parallel_groups(body.stmts) /\ h.members \in find_parallel_groups(body.stmts)
  BY DEF PlanExact, Dispatchable
<1>2. g.members = h.members
  BY <1>1, BodyFacts, GroupsAreRuns DEF Disjoint
<1> QED
  BY <1>2 DEF PlanExact

\* A statement in place: it gives back what the frame owned and owns what is new.
LEMMA SequentialStep ==
  ASSUME HInv, RunSequential
  PROVE  HInv'
<1> DEFINE s == body.stmts[pc]
           st == Exec(body.stmts, pc, [loc |-> frame, world |-> world, out |-> console,
                                       freed |-> freed, result |-> result])
           rel == Released(s, frame)
           buf == NewBuf(s, pc, frame.buf)
           kept == {buf[n] : n \in Names} \ {NoBuffer}
<1>1. /\ result = Running /\ branches = <<>> /\ pc # NotCompiled /\ pc <= Len(body.stmts)
      /\ body' = body /\ plan' = plan /\ branches' = branches /\ pc' = pc + 1
  BY DEF RunSequential, Idle
<1>2. pc \in Nat /\ pc \in DOMAIN body.stmts /\ ScopesApart(s)
  <2>1. pc \in Nat /\ BodyChosen
    BY DEF HInv, OneGroup
  <2> QED
    BY <1>1, <2>1, BodyFacts DEF NotCompiled
<1>3. st = [loc |-> Locals(s, pc, frame, Effect(s, pc, [loc |-> frame, world |-> world, out |-> console,
                                                        freed |-> freed, result |-> result]).seen),
            world |-> st.world, out |-> st.out, freed |-> Free(freed, rel), result |-> st.result]
  BY <1>1 DEF Exec
<1> HIDE DEF st
<1>4. st.loc.buf = buf /\ st.freed = Free(freed, rel)
  BY <1>3 DEF Locals, NewBuf
<1>5. frame' = st.loc
  BY DEF RunSequential, st
<1>6. \/ st.result = Running /\ result' = Running /\ freed' = st.freed
      \/ result' # Running /\ freed' = Free(st.freed, kept)
  <2>1. LET end == IF st.result = Running THEN st ELSE Epilogue(body, st)
        IN freed' = end.freed /\ result' = end.result
    BY DEF RunSequential, st
  <2>2. CASE st.result = Running
    BY <2>1, <2>2
  <2>3. CASE st.result # Running
    <3>1. /\ Epilogue(body, st).result = st.result
          /\ Epilogue(body, st).freed = Free(st.freed, Buffers(st.loc, Names))
      BY <1>3, <2>3 DEF Epilogue
    <3> QED
      BY <1>4, <2>1, <2>3, <3>1 DEF Buffers
  <2> QED
    BY <2>2, <2>3
<1>7. rel = {frame.buf[n] : n \in (s.assigned \cap Containers) \cup s.consuming_reads} \ {NoBuffer}
  BY DEF Released, Buffers
<1>8. \A n \in Names : frame.buf[n] # NoBuffer =>
        n \in Containers /\ frame.buf[n] \notin DOMAIN freed /\ \E i : Past(i) /\ frame.buf[n] = <<i, n>>
  BY <1>1 DEF HInv, Owned
<1>9. \A i, n : <<i, n>> \in DOMAIN freed => Past(i)
  BY <1>1 DEF HInv, FreedPast
<1>10. ~Past(pc) /\ \A i : Past(i) => i \in Nat /\ (i = 0 \/ i < pc + 1)
  BY <1>1, <1>2 DEF Past, NotCompiled
<1>11. /\ DOMAIN Free(freed, rel) = DOMAIN freed \cup rel
       /\ \A b \in DOMAIN Free(freed, rel) : Free(freed, rel)[b] = 1
  <2>1. rel \cap DOMAIN freed = {}
    BY <1>2, <1>7, <1>8 DEF ScopesApart
  <2>2. \A b \in DOMAIN freed : freed[b] = 1
    BY DEF HInv, FreedOnce, BagToSet
  <2> HIDE DEF rel
  <2> QED
    BY <2>1, <2>2, FreeNew
<1>12. ASSUME NEW n \in Names, buf[n] # NoBuffer
       PROVE  /\ n \in Containers /\ buf[n] \notin DOMAIN freed \cup rel
              /\ \E i : (i = pc \/ Past(i)) /\ buf[n] = <<i, n>>
  <2>1. CASE n \in defines(s) \cap Containers
    <3>1. buf[n] = <<pc, n>>
      BY <2>1 DEF NewBuf
    <3>2. <<pc, n>> \notin DOMAIN freed
      BY <1>9, <1>10
    <3>3. ASSUME NEW m \in (s.assigned \cap Containers) \cup s.consuming_reads, <<pc, n>> = frame.buf[m]
          PROVE  FALSE
      <4>1. m \in Names /\ frame.buf[m] # NoBuffer
        BY <1>2, <3>3 DEF ScopesApart, NoBuffer
      <4>2. PICK i : Past(i) /\ frame.buf[m] = <<i, m>>
        BY <1>8, <4>1
      <4>3. i = pc
        BY <3>3, <4>2
      <4> QED
        BY <1>10, <4>2, <4>3
    <3>4. <<pc, n>> \notin rel
      BY <1>7, <3>3
    <3> QED
      BY <2>1, <3>1, <3>2, <3>4
  <2>2. CASE n \notin defines(s) \cap Containers
    <3>1. n \notin s.consuming_reads /\ buf[n] = frame.buf[n]
      BY <1>12, <2>2 DEF NewBuf
    <3>2. n \notin s.assigned \cap Containers
      BY <2>2 DEF defines
    <3>3. PICK i : Past(i) /\ buf[n] = <<i, n>>
      BY <1>8, <1>12, <3>1
    <3>4. ASSUME NEW m \in (s.assigned \cap Containers) \cup s.consuming_reads, buf[n] = frame.buf[m]
          PROVE  FALSE
      <4>1. m \in Names
        BY <1>2 DEF ScopesApart
      <4>2. m = n
        BY <1>8, <1>12, <3>3, <3>4, <4>1
      <4> QED
        BY <3>1, <3>2, <4>2
    <3>5. buf[n] \notin rel
      BY <1>7, <3>4
    <3> QED
      BY <1>8, <1>12, <3>1, <3>3, <3>5
  <2> QED
    BY <2>1, <2>2
<1>13. FreedOnce'
  <2>1. CASE freed' = Free(freed, rel)
    BY <1>11, <2>1 DEF FreedOnce, BagToSet
  <2>2. CASE freed' = Free(Free(freed, rel), kept)
    <3>1. kept \cap DOMAIN Free(freed, rel) = {}
      BY <1>11, <1>12
    <3> HIDE DEF kept, rel
    <3>2. \A b \in DOMAIN freed' : freed'[b] = 1
      BY <1>11, <2>2, <3>1, FreeNew
    <3> QED
      BY <3>2 DEF FreedOnce, BagToSet
  <2> QED
    BY <1>4, <1>6, <2>1, <2>2
<1>14. Owned'
  <2> SUFFICES ASSUME result' = Running, NEW n \in Names, frame'.buf[n] # NoBuffer
               PROVE  /\ n \in Containers /\ frame'.buf[n] \notin DOMAIN freed'
                      /\ \E i : Past(i)' /\ frame'.buf[n] = <<i, n>>
    BY DEF Owned
  <2>1. frame'.buf[n] = buf[n] /\ DOMAIN freed' = DOMAIN freed \cup rel
    BY <1>4, <1>5, <1>6, <1>11
  <2>2. PICK i : (i = pc \/ Past(i)) /\ buf[n] = <<i, n>>
    BY <1>12, <2>1
  <2>3. Past(i)'
    BY <1>1, <1>2, <1>10, <2>2 DEF Past
  <2> QED
    BY <1>12, <2>1, <2>2, <2>3
<1>15. FreedPast'
  <2> SUFFICES ASSUME result' = Running, NEW i, NEW n, <<i, n>> \in DOMAIN freed'
               PROVE  Past(i)'
    BY DEF FreedPast
  <2>1. <<i, n>> \in DOMAIN freed \cup rel
    BY <1>4, <1>6, <1>11
  <2>2. Past(i)
    BY <1>2, <1>7, <1>8, <1>9, <2>1 DEF ScopesApart
  <2> QED
    BY <1>1, <1>10, <2>2 DEF Past
<1>16. BodyChosen' /\ PlanExact' /\ OneGroup' /\ Copies'
  BY <1>1, <1>2 DEF HInv, BodyChosen, PlanExact, OneGroup, Copies
<1> QED
  BY <1>13, <1>14, <1>15, <1>16 DEF HInv

LEMMA ForkStep ==
  ASSUME HInv, Fork
  PROVE  HInv'
<1>1. PICK g \in plan : /\ pc = Min(g.members)
                        /\ branches' = [i \in g.members |-> [loc |-> frame, at |-> 1, seen |-> <<>>,
                                                             out |-> <<>>, ended |-> FALSE]]
  BY DEF Fork, GroupAt
<1>2. /\ result = Running /\ pc # NotCompiled /\ branches = <<>>
      /\ UNCHANGED <<body, plan, pc, frame, freed, result>>
  BY DEF Fork, Idle
<1>3. \A i \in g.members : i >= pc
  <2>1. \A i \in g.members : Min(g.members) <= i /\ i \in Nat
    BY GroupBounds, MemberFacts DEF HInv
  <2> QED
    BY <1>1, <2>1 DEF HInv, OneGroup
<1>4. OneGroup'
  BY <1>1, <1>2, <1>3 DEF HInv, OneGroup
<1>5. Copies'
  BY <1>1, <1>2 DEF Copies
<1>6. FreedPast'
  BY <1>2 DEF HInv, FreedPast, Past
<1> QED
  BY <1>2, <1>4, <1>5, <1>6 DEF HInv, BodyChosen, PlanExact, Owned, Past, FreedOnce

LEMMA EffectStep ==
  ASSUME HInv, NEW i \in DOMAIN branches, BranchEffect(i)
  PROVE  HInv'
<1>1. UNCHANGED <<body, plan, pc, frame, freed, result>>
  BY Zenon DEF BranchEffect
<1>2. /\ DOMAIN branches' = DOMAIN branches
      /\ \A k \in DOMAIN branches : /\ branches'[k].loc = branches[k].loc
                                    /\ branches'[k].ended = branches[k].ended
                                    /\ DOMAIN branches'[k] = DOMAIN branches[k]
  <2>1. PICK at, out, seen :
          branches' = [branches EXCEPT ![i] = [branches[i] EXCEPT !.at = at, !.out = out, !.seen = seen]]
    BY Zenon DEF BranchEffect
  <2> QED
    BY <2>1 DEF HInv, OneGroup
<1> QED
  BY <1>1, <1>2 DEF HInv, BodyChosen, PlanExact, OneGroup, Copies, Owned, Past, FreedPast, Slots, FreedOnce

\* A branch that ends frees what it has bound and does not publish.
LEMMA EndStep ==
  ASSUME HInv, NEW i \in DOMAIN branches, BranchEnd(i)
  PROVE  HInv'
<1> DEFINE s == body.stmts[i]
           after == Locals(s, i, branches[i].loc, branches[i].seen)
           h == CHOOSE g \in plan : i \in g.members
           own == BranchCleanup(s, after, h.slots)
<1>1. /\ ~branches[i].ended
      /\ branches' = [branches EXCEPT ![i] = [branches[i] EXCEPT !.loc = after, !.ended = TRUE]]
      /\ freed' = Free(Free(freed, Released(s, branches[i].loc)), own)
      /\ UNCHANGED <<body, plan, pc, frame, result>>
  BY Zenon DEF BranchEnd
<1>2. PICK g \in plan : DOMAIN branches = g.members
  BY DEF HInv, OneGroup
<1>3. h \in plan /\ i \in h.members
  BY <1>2
<1>4. h.slots = Slots
  <2>1. h.slots = g.slots
    BY <1>2, <1>3, GroupOf DEF HInv
  <2> QED
    BY <1>2, <2>1 DEF HInv, PlanExact, Slots
<1> HIDE DEF h
<1>5. /\ i \in DOMAIN body.stmts /\ i \in Nat /\ s.consuming_reads = {}
      /\ s.assigned \cap Containers = {} /\ ScopesApart(s)
  BY <1>2, MemberFacts, BodyFacts DEF HInv
<1>6. result = Running /\ i >= pc /\ pc # NotCompiled /\ pc \in Nat
  BY DEF HInv, OneGroup
<1>7. Released(s, branches[i].loc) = {}
  BY <1>5 DEF Released, Buffers
<1>8. after.buf = NewBuf(s, i, frame.buf)
  BY <1>1 DEF HInv, Copies, Locals, NewBuf
<1> HIDE DEF after
<1>9. ~Past(i)
  BY <1>5, <1>6 DEF Past, NotCompiled
<1>10. \A b \in own : \E n : b = <<i, n>> /\ n \notin Slots
  <2> SUFFICES ASSUME NEW n \in s.let_introduced \ Slots, after.buf[n] # NoBuffer
               PROVE  after.buf[n] = <<i, n>>
    BY <1>4 DEF BranchCleanup, Buffers
  <2>1. n \in Names /\ n \in defines(s)
    BY <1>5 DEF ScopesApart, defines
  <2>2. frame.buf[n] # NoBuffer => n \in Containers
    BY <1>6, <2>1 DEF HInv, Owned
  <2> QED
    BY <1>5, <1>8, <2>1, <2>2 DEF NewBuf
<1> HIDE DEF own
<1>11. own \cap DOMAIN freed = {}
  BY <1>1, <1>6, <1>9, <1>10 DEF HInv, FreedPast
<1>12. DOMAIN freed' = DOMAIN freed \cup own /\ FreedOnce'
  <2>1. \A b \in DOMAIN freed : freed[b] = 1
    BY DEF HInv, FreedOnce, BagToSet
  <2>2. /\ DOMAIN Free(freed, {}) = DOMAIN freed
        /\ \A b \in DOMAIN Free(freed, {}) : Free(freed, {})[b] = 1
    BY <2>1, FreeNew
  <2>3. /\ DOMAIN Free(Free(freed, {}), own) = DOMAIN freed \cup own
        /\ \A b \in DOMAIN Free(Free(freed, {}), own) : Free(Free(freed, {}), own)[b] = 1
    BY <1>11, <2>2, FreeNew
  <2> QED
    BY <1>1, <1>7, <2>3 DEF FreedOnce, BagToSet
<1>13. /\ DOMAIN branches' = DOMAIN branches
       /\ branches'[i].ended /\ branches'[i].loc = after
       /\ \A k \in DOMAIN branches : /\ DOMAIN branches'[k] = DOMAIN branches[k]
                                     /\ k # i => branches'[k] = branches[k]
  BY <1>1 DEF HInv, OneGroup
<1>14. OneGroup'
  BY <1>1, <1>13 DEF HInv, OneGroup
<1>15. Copies'
  BY <1>1, <1>8, <1>13 DEF HInv, Copies
<1>16. Slots' = Slots
  BY <1>1, <1>13 DEF Slots
<1>17. Owned'
  <2> SUFFICES ASSUME NEW n \in Names, frame.buf[n] # NoBuffer
               PROVE  /\ n \in Containers /\ frame.buf[n] \notin DOMAIN freed'
                      /\ \E k : Past(k) /\ frame.buf[n] = <<k, n>>
    BY <1>1 DEF Owned, Past
  <2>1. PICK k : Past(k) /\ frame.buf[n] = <<k, n>>
    BY <1>6 DEF HInv, Owned
  <2>2. frame.buf[n] \notin own
    BY <1>9, <1>10, <2>1
  <2> QED
    BY <1>6, <1>12, <2>1, <2>2 DEF HInv, Owned
<1>18. FreedPast'
  <2> SUFFICES ASSUME NEW k, NEW n, <<k, n>> \in DOMAIN freed'
               PROVE  Past(k) \/ (k \in DOMAIN branches /\ branches'[k].ended /\ n \notin Slots)
    BY <1>1, <1>13, <1>16 DEF FreedPast, Past
  <2>1. CASE <<k, n>> \in own
    BY <1>10, <1>13, <2>1
  <2>2. CASE <<k, n>> \in DOMAIN freed
    BY <1>6, <1>13, <2>2 DEF HInv, FreedPast
  <2> QED
    BY <1>12, <2>1, <2>2
<1> QED
  BY <1>1, <1>12, <1>14, <1>15, <1>17, <1>18 DEF HInv, BodyChosen, PlanExact

\* The join: what the slots take over is new to the frame and has not been freed.
LEMMA JoinStep ==
  ASSUME HInv, Join
  PROVE  HInv'
<1> DEFINE g == CHOOSE g \in plan : g.members = DOMAIN branches
           source(n) == CHOOSE i \in g.members : n \in body.stmts[i].let_introduced
<1>1. /\ branches # <<>> /\ \A i \in DOMAIN branches : branches[i].ended
      /\ pc' = Max(g.members) + 1 /\ branches' = <<>>
      /\ UNCHANGED <<body, plan, freed, result>>
  BY DEF Join
<1>2. \A n \in Names : frame'.buf[n] = IF n \in g.slots THEN branches[source(n)].loc.buf[n] ELSE frame.buf[n]
  BY DEF Join
<1>3. g \in plan /\ g.members = DOMAIN branches
  BY <1>1 DEF HInv, OneGroup
<1>4. g.slots = Slots /\ g.slots \subseteq defined(body, g.members)
  BY <1>3 DEF HInv, PlanExact, Slots, return_slots
<1> HIDE DEF g
<1>5. ASSUME NEW n \in g.slots
      PROVE  source(n) \in g.members /\ n \in body.stmts[source(n)].let_introduced
  <2>1. \E i \in g.members : n \in body.stmts[i].let_introduced
    BY <1>4 DEF defined
  <2> QED
    BY <2>1
<1> HIDE DEF source
<1>6. /\ Max(g.members) \in Nat /\ pc \in Nat /\ pc <= Max(g.members)
      /\ \A i \in g.members : i \in Nat /\ i <= Max(g.members) /\ i >= pc
  <2>1. Max(g.members) \in g.members /\ \A i \in g.members : i <= Max(g.members)
    BY <1>3, GroupBounds DEF HInv
  <2>2. \A i \in g.members : i \in Nat
    BY <1>3, MemberFacts DEF HInv
  <2>3. pc \in Nat /\ \A i \in g.members : i >= pc
    BY <1>3 DEF HInv, OneGroup
  <2> QED
    BY <2>1, <2>2, <2>3
<1>7. \A i \in g.members : Past(i)' /\ ~Past(i)
  <2>1. \A i \in g.members : pc # NotCompiled
    BY <1>3 DEF HInv, OneGroup
  <2> QED
    BY <1>1, <1>6, <2>1 DEF Past, NotCompiled
<1>8. \A i : Past(i) => Past(i)'
  BY <1>1, <1>6 DEF Past
<1>9. result = Running
  BY <1>3, <1>5, <1>6, GroupBounds DEF HInv, OneGroup
<1>10. Owned'
  <2> SUFFICES ASSUME NEW n \in Names, frame'.buf[n] # NoBuffer
               PROVE  /\ n \in Containers /\ frame'.buf[n] \notin DOMAIN freed
                      /\ \E i : Past(i)' /\ frame'.buf[n] = <<i, n>>
    BY <1>1 DEF Owned
  <2>1. CASE frame'.buf[n] = frame.buf[n]
    BY <1>8, <1>9, <2>1 DEF HInv, Owned
  <2>2. CASE n \in g.slots /\ frame'.buf[n] # frame.buf[n]
    <3> DEFINE i == source(n)
    <3>1. i \in g.members /\ n \in body.stmts[i].let_introduced
      BY <1>5, <2>2
    <3> HIDE DEF i
    <3>2. branches[i].loc.buf = NewBuf(body.stmts[i], i, frame.buf)
      BY <1>1, <1>3, <3>1 DEF HInv, Copies
    <3>3. body.stmts[i].consuming_reads = {}
      BY <1>3, <3>1, MemberFacts DEF HInv
    <3>4. frame'.buf[n] = branches[i].loc.buf[n]
      BY <1>2, <2>2 DEF i
    <3>5. n \in Containers /\ frame'.buf[n] = <<i, n>>
      BY <2>2, <3>2, <3>3, <3>4 DEF NewBuf
    <3>6. <<i, n>> \notin DOMAIN freed
      BY <1>4, <1>7, <1>9, <2>2, <3>1 DEF HInv, FreedPast
    <3> QED
      BY <1>7, <3>1, <3>5, <3>6
  <2> QED
    BY <1>2, <2>1, <2>2
<1>11. FreedPast'
  <2> SUFFICES ASSUME NEW i, NEW n, <<i, n>> \in DOMAIN freed
               PROVE  Past(i)'
    BY <1>1 DEF FreedPast
  <2> QED
    BY <1>3, <1>7, <1>8, <1>9 DEF HInv, FreedPast
<1>12. OneGroup' /\ Copies'
  BY <1>1, <1>6 DEF OneGroup, Copies
<1> QED
  BY <1>1, <1>10, <1>11, <1>12 DEF HInv, BodyChosen, PlanExact, FreedOnce

\* The scope exit of the parent frees what the frame owns.
LEMMA ReturnStep ==
  ASSUME HInv, Return
  PROVE  HInv'
<1> DEFINE st == [loc |-> frame, world |-> world, out |-> console, freed |-> freed, result |-> result]
           kept == {frame.buf[n] : n \in Names} \ {NoBuffer}
<1>1. /\ result = Running /\ branches = <<>>
      /\ UNCHANGED <<body, plan, pc, frame, branches>>
  BY DEF Return, Idle
<1>2. result' = <<"tail", [n \in body.final_reads |-> frame.val[n]]>> /\ freed' = Free(freed, kept)
  BY <1>1 DEF Return, Epilogue, Buffers
<1>3. result' # Running
  BY <1>2 DEF Running
<1>4. FreedOnce'
  <2>1. kept \cap DOMAIN freed = {}
    BY <1>1 DEF HInv, Owned
  <2>2. \A b \in DOMAIN freed : freed[b] = 1
    BY DEF HInv, FreedOnce, BagToSet
  <2> HIDE DEF kept
  <2> QED
    BY <1>2, <2>1, <2>2, FreeNew DEF FreedOnce, BagToSet
<1> QED
  BY <1>1, <1>3, <1>4 DEF HInv, BodyChosen, PlanExact, OneGroup, Copies, Owned, FreedPast

LEMMA CompileStep ==
  ASSUME HInv, Compile
  PROVE  HInv'
<1>1. /\ pc = NotCompiled /\ pc' = 1
      /\ \A g \in plan' : /\ g.members \in Dispatchable(body) /\ g.slots = return_slots(body, g.members)
                           /\ g = [members |-> g.members, slots |-> g.slots]
      /\ UNCHANGED <<body, frame, freed, result, branches>>
  BY DEF Compile
<1>2. PlanExact'
  BY <1>1 DEF PlanExact
<1>3. DOMAIN branches = {} /\ branches = <<>>
  <2>1. \A i \in DOMAIN branches : FALSE
    BY <1>1 DEF HInv, OneGroup
  <2> QED
    BY <2>1, GroupBounds DEF HInv, OneGroup
<1>4. \A i : Past(i) => Past(i)'
  BY <1>1 DEF Past, NotCompiled
<1> QED
  BY <1>1, <1>2, <1>3, <1>4 DEF HInv, BodyChosen, OneGroup, Copies, Owned, FreedPast, FreedOnce

LEMMA InitHInv == Init => HInv
<1> SUFFICES ASSUME Init PROVE HInv
  OBVIOUS
<1>1. \A n \in Names : frame.buf[n] = IF n \in Entry \cap Containers THEN <<0, n>> ELSE NoBuffer
  BY DEF Init, EntryLocals
<1>2. DOMAIN freed = {}
  BY DEF Init, EmptyBag, SetToBag
<1>3. Owned
  BY <1>1, <1>2 DEF Owned, Past
<1> QED
  BY <1>2, <1>3 DEF Init, HInv, BodyChosen, PlanExact, OneGroup, Copies, FreedPast, FreedOnce,
                    BagToSet, NotCompiled

LEMMA HeapInvariance == Spec => []HInv
<1>1. HInv /\ [Next]_vars => HInv'
  <2> SUFFICES ASSUME HInv, [Next]_vars PROVE HInv'
    OBVIOUS
  <2>1. CASE UNCHANGED vars
    BY <2>1 DEF vars, HInv, BodyChosen, PlanExact, OneGroup, Copies, Owned, Past, FreedPast, Slots, FreedOnce
  <2> QED
    BY <2>1, CompileStep, SequentialStep, ForkStep, EffectStep, EndStep, JoinStep, ReturnStep DEF Next
<1> QED
  BY <1>1, InitHInv, PTL DEF Spec

\* No buffer is freed twice, whatever the body, the plan and the interleaving.
THEOREM NoDoubleFree == Spec => []FreedOnce
<1>1. HInv => FreedOnce
  BY DEF HInv
<1> QED
  BY <1>1, HeapInvariance, PTL

(***************************************************************************)
(* Types                                                                   *)
(***************************************************************************)
\* A nonempty set of positions has a last one.
LEMMA LastPosition ==
  ASSUME NEW k \in Nat, NEW S \in SUBSET (1 .. k), S # {}
  PROVE  Max(S) \in S /\ \A y \in S : Max(S) >= y
<1> DEFINE R == {k - x : x \in S}
<1>1. R \subseteq Nat /\ R # {}
  <2>1. \A x \in S : k - x \in Nat
    OBVIOUS
  <2> QED
    BY <2>1
<1>2. PICK d \in R : \A e \in R : d <= e
  <2> HIDE DEF R
  <2> QED
    BY <1>1, LeastExists
<1>3. PICK x \in S : d = k - x
  OBVIOUS
<1>4. ASSUME NEW y \in S PROVE x >= y
  <2>1. k - y \in R /\ x \in Nat /\ y \in Nat
    OBVIOUS
  <2>2. k - x <= k - y
    BY <1>2, <1>3, <2>1
  <2> QED
    BY <2>1, <2>2
<1> QED
  BY <1>4 DEF Max

\* What the model folds over positions: the effects of a statement, and the
\* statements of a body in some order.  One operator stands for both, because
\* the provers cannot instantiate a lemma about any operator.
FoldOp(p, k, acc) ==
  IF p.kind = "effects" THEN Apply(p.s, p.i, p.val, Actual(p.s)[k], acc)
  ELSE Exec(p.stmts, p.order[k], acc)

\* A fold is a function on the sets of the first m positions.
IsFold(p, m, f) ==
  f = [S \in SUBSET (1 .. m) |-> IF S = {} THEN p.base ELSE FoldOp(p, Max(S), f[S \ {Max(S)}])]

LEMMA FoldExists ==
  ASSUME NEW p, NEW m \in Nat
  PROVE  \E f : IsFold(p, m, f)
<1> DEFINE Bad == {k \in Nat : ~\E f : IsFold(p, k, f)}
<1>1. \E f : IsFold(p, 0, f)
  <2> DEFINE f == [S \in SUBSET (1 .. 0) |-> p.base]
  <2>1. \A S \in SUBSET (1 .. 0) : S = {}
    OBVIOUS
  <2>2. IsFold(p, 0, f)
    BY <2>1 DEF IsFold
  <2> QED
    BY <2>2
<1>2. ASSUME NEW k \in Nat, NEW h, IsFold(p, k, h)
      PROVE  \E f : IsFold(p, k + 1, f)
  <2> DEFINE step(S) == IF S = {} THEN p.base ELSE FoldOp(p, Max(S), h[S \ {Max(S)}])
             f == [S \in SUBSET (1 .. k + 1) |-> step(S)]
  <2>1. \A S \in SUBSET (1 .. k) : h[S] = step(S)
    BY <1>2 DEF IsFold
  <2>2. ASSUME NEW S \in SUBSET (1 .. k + 1), S # {}
        PROVE  f[S \ {Max(S)}] = h[S \ {Max(S)}]
    <3>1. Max(S) \in S /\ \A y \in S : Max(S) >= y
      <4>1. k + 1 \in Nat
        OBVIOUS
      <4> QED
        BY <2>2, <4>1, LastPosition
    <3>2. ASSUME NEW y \in S \ {Max(S)} PROVE y \in 1 .. k
      <4>1. y \in 1 .. k + 1 /\ Max(S) \in 1 .. k + 1 /\ Max(S) >= y /\ Max(S) # y
        BY <3>1
      <4> QED
        BY <4>1
    <3>3. S \ {Max(S)} \in SUBSET (1 .. k) /\ S \ {Max(S)} \in SUBSET (1 .. k + 1)
      BY <3>2
    <3> HIDE DEF step
    <3> QED
      BY <2>1, <3>3
  <2>3. f = [S \in SUBSET (1 .. k + 1) |-> IF S = {} THEN p.base ELSE FoldOp(p, Max(S), f[S \ {Max(S)}])]
    <3>1. \A S \in SUBSET (1 .. k + 1) :
            f[S] = IF S = {} THEN p.base ELSE FoldOp(p, Max(S), f[S \ {Max(S)}])
      <4>1. \A S \in SUBSET (1 .. k + 1) : f[S] = step(S)
        OBVIOUS
      <4> HIDE DEF f
      <4> QED
        BY <2>2, <4>1
    <3>2. f = [S \in SUBSET (1 .. k + 1) |-> f[S]]
      OBVIOUS
    <3> HIDE DEF f
    <3> QED
      BY <3>1, <3>2
  <2> HIDE DEF f
  <2> QED
    BY <2>3 DEF IsFold
<1>3. Bad = {}
  <2> SUFFICES ASSUME Bad # {} PROVE FALSE
    OBVIOUS
  <2>1. PICK k \in Bad : \A d \in Bad : k <= d
    <3>1. Bad \subseteq Nat
      OBVIOUS
    <3> HIDE DEF Bad
    <3> QED
      BY <3>1, LeastExists
  <2>2. k # 0 /\ k - 1 \in Nat /\ (k - 1) + 1 = k
    BY <1>1, <2>1
  <2>3. k - 1 \notin Bad
    BY <2>1, <2>2
  <2> QED
    BY <1>2, <2>1, <2>2, <2>3
<1> QED
  BY <1>3

\* What a fold over m positions has computed after the first k.
Prefix(p, m, k) == (CHOOSE f : IsFold(p, m, f))[1 .. k]

LEMMA PrefixSteps ==
  ASSUME NEW p, NEW m \in Nat
  PROVE  /\ Prefix(p, m, 0) = p.base
         /\ \A k \in 1 .. m : Prefix(p, m, k) = FoldOp(p, k, Prefix(p, m, k - 1))
<1> DEFINE f == CHOOSE f : IsFold(p, m, f)
<1>1. IsFold(p, m, f)
  BY FoldExists
<1> HIDE DEF f
<1>2. \A S \in SUBSET (1 .. m) : f[S] = IF S = {} THEN p.base ELSE FoldOp(p, Max(S), f[S \ {Max(S)}])
  BY <1>1 DEF IsFold
<1>3. f[1 .. 0] = p.base
  <2>1. 1 .. 0 = {}
    OBVIOUS
  <2> QED
    BY <1>2, <2>1
<1>4. ASSUME NEW k \in 1 .. m PROVE f[1 .. k] = FoldOp(p, k, f[1 .. k - 1])
  <2>1. 1 .. k \in SUBSET (1 .. m) /\ 1 .. k # {} /\ k \in 1 .. k /\ \A y \in 1 .. k : k >= y
    OBVIOUS
  <2>2. Max(1 .. k) = k
    <3>1. Max(1 .. k) \in 1 .. k /\ \A y \in 1 .. k : Max(1 .. k) >= y
      <4>1. k \in Nat /\ 1 .. k \in SUBSET (1 .. k)
        OBVIOUS
      <4> QED
        BY <2>1, <4>1, LastPosition
    <3>2. Max(1 .. k) >= k /\ k >= Max(1 .. k)
      BY <2>1, <3>1
    <3> QED
      BY <3>1, <3>2
  <2>3. (1 .. k) \ {k} = 1 .. k - 1
    OBVIOUS
  <2> QED
    BY <1>2, <2>1, <2>2, <2>3
<1> QED
  BY <1>3, <1>4 DEF Prefix, f

\* The effects of a statement, as a fold.
EffectsFrom(s, i, val, base) == [kind |-> "effects", s |-> s, i |-> i, val |-> val, base |-> base]

LEMMA ActualIsSeq ==
  ASSUME NEW s, SummaryTrue(s)
  PROVE  /\ Actual(s) \in Seq(Effects)
         /\ Len(Actual(s)) \in Nat /\ DOMAIN Actual(s) = 1 .. Len(Actual(s))
<1>1. s.effects \in Seq(Effects) /\ s.hidden_effects \in Seq(Effects)
  BY DEF SummaryTrue
<1>2. Actual(s) \in Seq(Effects)
  BY <1>1 DEF Actual
<1> QED
  BY <1>2

LEMMA EffectIsFold ==
  ASSUME NEW s, SummaryTrue(s), NEW i, NEW st
  PROVE  Effect(s, i, st) =
           Prefix(EffectsFrom(s, i, st.loc.val, [world |-> st.world, out |-> st.out, seen |-> <<>>]),
                  Len(Actual(s)), Len(Actual(s)))
BY ActualIsSeq DEF Effect, FoldLeft, MapThenFoldSet, Prefix, IsFold, FoldOp, EffectsFrom

\* The running state of a statement's effects, over a world with cells W.
EffectState(acc, W) == DOMAIN acc = {"world", "out", "seen"} /\ DOMAIN acc.world = W

LEMMA ApplyKeeps ==
  ASSUME NEW s, NEW i, NEW val, NEW x, NEW acc, NEW W, EffectState(acc, W)
  PROVE  EffectState(Apply(s, i, val, x, acc), W)
<1> DEFINE touched == Cells(s, i, x)
           term == Term(s, i, val, acc.seen)
<1> HIDE DEF touched, term
<1>1. CASE Prints(x)
  <2>1. Apply(s, i, val, x, acc) = [acc EXCEPT !.out = Append(@, <<x.resource, term>>)]
    BY <1>1 DEF Apply, touched, term
  <2> QED
    BY <2>1 DEF EffectState
<1>2. CASE ~Prints(x)
  <2>1. Apply(s, i, val, x, acc) =
          [acc EXCEPT
             !.world = [c \in DOMAIN @ |-> IF c \in touched /\ x.verb # "reads"
                                           THEN Append(@[c], term) ELSE @[c]],
             !.seen = IF x.verb \in {"reads", "receives"}
                      THEN Append(@, [c \in touched |-> acc.world[c]]) ELSE @]
    BY <1>2, Zenon DEF Apply, touched, term
  <2> QED
    BY <2>1 DEF EffectState
<1> QED
  BY <1>1, <1>2

\* The effects of a statement leave the set of cells as it is.
LEMMA EffectsKeep ==
  ASSUME NEW s, SummaryTrue(s), NEW i, NEW val, NEW base, NEW W, EffectState(base, W),
         NEW k \in 0 .. Len(Actual(s))
  PROVE  EffectState(Prefix(EffectsFrom(s, i, val, base), Len(Actual(s)), k), W)
<1> DEFINE p == EffectsFrom(s, i, val, base)
           m == Len(Actual(s))
           Bad == {d \in 0 .. m : ~EffectState(Prefix(p, m, d), W)}
<1>1. m \in Nat
  BY ActualIsSeq
<1>2. p.base = base /\ \A d, acc : FoldOp(p, d, acc) = Apply(s, i, val, Actual(s)[d], acc)
  BY DEF EffectsFrom, FoldOp
<1> HIDE DEF p, m
<1>3. /\ Prefix(p, m, 0) = base
      /\ \A d \in 1 .. m : Prefix(p, m, d) = Apply(s, i, val, Actual(s)[d], Prefix(p, m, d - 1))
  BY <1>1, <1>2, PrefixSteps
<1>4. Bad = {}
  <2> SUFFICES ASSUME Bad # {} PROVE FALSE
    OBVIOUS
  <2>1. PICK d \in Bad : \A e \in Bad : d <= e
    <3>1. Bad \subseteq Nat
      BY <1>1
    <3> HIDE DEF Bad
    <3> QED
      BY <3>1, LeastExists
  <2>2. d \in 1 .. m /\ d - 1 \in 0 .. m /\ ~(d <= d - 1)
    <3>1. d # 0
      BY <1>3
    <3> QED
      BY <1>1, <3>1
  <2>3. EffectState(Prefix(p, m, d - 1), W)
    BY <2>1, <2>2
  <2> QED
    BY <1>3, <2>1, <2>2, <2>3, ApplyKeeps
<1> QED
  BY <1>4 DEF p, m

LEMMA EffectKeeps ==
  ASSUME NEW s, SummaryTrue(s), NEW i, NEW st
  PROVE  DOMAIN Effect(s, i, st).world = DOMAIN st.world
<1> DEFINE base == [world |-> st.world, out |-> st.out, seen |-> <<>>]
<1>1. EffectState(base, DOMAIN st.world)
  BY DEF EffectState
<1>2. Effect(s, i, st) = Prefix(EffectsFrom(s, i, st.loc.val, base), Len(Actual(s)), Len(Actual(s)))
  BY EffectIsFold
<1>3. Len(Actual(s)) \in 0 .. Len(Actual(s))
  BY ActualIsSeq
<1> HIDE DEF base
<1> QED
  BY <1>1, <1>2, <1>3, EffectsKeep DEF EffectState

\* TypeOK without what follows from the plan.
Types ==
  /\ pc \in 0 .. Len(body.stmts) + 1
  /\ DOMAIN frame.val = Names /\ DOMAIN frame.buf = Names
  /\ DOMAIN world = AllCells(body.stmts)
  /\ freed = [b \in DOMAIN freed |-> freed[b]]
  /\ inline \in BOOLEAN

\* The two steps that touch the world, and the join.
LEMMA SequentialTypes ==
  ASSUME HInv, Types, RunSequential
  PROVE  Types'
<1> DEFINE s == body.stmts[pc]
           st0 == [loc |-> frame, world |-> world, out |-> console, freed |-> freed, result |-> result]
           st == Exec(body.stmts, pc, st0)
<1>1. /\ result = Running /\ pc # NotCompiled /\ pc <= Len(body.stmts) /\ pc' = pc + 1
      /\ body' = body /\ inline' = inline
  BY DEF RunSequential, Idle
<1>2. pc \in DOMAIN body.stmts /\ SummaryTrue(s) /\ Len(body.stmts) \in Nat /\ pc \in Nat
  <2>1. pc \in Nat /\ BodyChosen
    BY DEF HInv, OneGroup
  <2>2. pc \in DOMAIN body.stmts /\ Len(body.stmts) \in Nat
    BY <1>1, <2>1, BodyFacts DEF NotCompiled
  <2> QED
    BY <2>1, <2>2, SummariesAssumption DEF BodyChosen
<1>3. st = [loc |-> Locals(s, pc, frame, Effect(s, pc, st0).seen), world |-> Effect(s, pc, st0).world,
            out |-> st.out, freed |-> Free(freed, Released(s, frame)), result |-> st.result]
  BY <1>1 DEF Exec
<1>4. frame' = st.loc /\ world' = st.world
  BY DEF RunSequential
<1>5. freed' = st.freed \/ freed' = Free(st.freed, Buffers(st.loc, Names))
  <2>1. freed' = (IF st.result = Running THEN st ELSE Epilogue(body, st)).freed
    BY DEF RunSequential
  <2> HIDE DEF st
  <2>2. Epilogue(body, st).freed = Free(st.freed, Buffers(st.loc, Names))
    BY <1>3 DEF Epilogue
  <2> QED
    BY <2>1, <2>2
<1>6. DOMAIN Effect(s, pc, st0).world = DOMAIN world
  <2>1. st0.world = world
    OBVIOUS
  <2> HIDE DEF st0
  <2> QED
    BY <1>2, <2>1, EffectKeeps
<1> HIDE DEF st
<1>7. DOMAIN world' = AllCells(body.stmts)
  <2>1. st.world = Effect(s, pc, st0).world
    BY <1>3
  <2> QED
    BY <1>4, <1>6, <2>1 DEF Types
<1>8. DOMAIN frame'.val = Names /\ DOMAIN frame'.buf = Names
  <2>1. st.loc = Locals(s, pc, frame, Effect(s, pc, st0).seen)
    BY <1>3
  <2> QED
    BY <1>4, <2>1 DEF Locals
<1>9. freed' = [b \in DOMAIN freed' |-> freed'[b]]
  <2>1. st.freed = Free(freed, Released(s, frame))
    BY <1>3
  <2>2. ASSUME NEW bag, NEW bufs PROVE Free(bag, bufs) = [b \in DOMAIN Free(bag, bufs) |-> Free(bag, bufs)[b]]
    BY DEF Free, (+)
  <2> QED
    BY <1>5, <2>1, <2>2
<1>10. pc' \in 0 .. Len(body.stmts) + 1
  BY <1>1, <1>2
<1> QED
  BY <1>1, <1>7, <1>8, <1>9, <1>10 DEF Types

LEMMA EffectTypes ==
  ASSUME HInv, Types, NEW i \in DOMAIN branches, BranchEffect(i)
  PROVE  Types'
<1> DEFINE st == [world |-> world, out |-> branches[i].out, seen |-> branches[i].seen]
           after == Apply(body.stmts[i], i, branches[i].loc.val, Actual(body.stmts[i])[branches[i].at], st)
<1>1. world' = after.world /\ UNCHANGED <<body, pc, frame, freed, inline>>
  BY Zenon DEF BranchEffect
<1>2. EffectState(st, DOMAIN world)
  BY DEF EffectState
<1>3. EffectState(after, DOMAIN world)
  <2> HIDE DEF st
  <2> QED
    BY <1>2, ApplyKeeps
<1> HIDE DEF after
<1> QED
  BY <1>1, <1>3 DEF EffectState, Types

LEMMA JoinTypes ==
  ASSUME HInv, Types, Join
  PROVE  Types'
<1> DEFINE g == CHOOSE g \in plan : g.members = DOMAIN branches
<1>1. /\ branches # <<>> /\ pc' = Max(g.members) + 1 /\ inline' = FALSE
      /\ UNCHANGED <<body, world, freed>>
  BY DEF Join
<1>2. DOMAIN frame'.val = Names /\ DOMAIN frame'.buf = Names
  BY DEF Join
<1>3. g \in plan
  BY <1>1 DEF HInv, OneGroup
<1> HIDE DEF g
<1>4. Max(g.members) \in DOMAIN body.stmts
  <2>1. Max(g.members) \in g.members
    BY <1>3, GroupBounds DEF HInv
  <2> QED
    BY <1>3, <2>1, MemberFacts DEF HInv
<1>5. pc' \in 0 .. Len(body.stmts) + 1
  BY <1>1, <1>4, BodyFacts DEF HInv
<1> QED
  BY <1>1, <1>2, <1>5 DEF Types

LEMMA OtherTypes ==
  ASSUME HInv, Types,
         Compile \/ Fork \/ Return \/ (\E i \in DOMAIN branches : BranchEnd(i)) \/ UNCHANGED vars
  PROVE  Types'
<1>1. ASSUME NEW bag, NEW bufs PROVE Free(bag, bufs) = [b \in DOMAIN Free(bag, bufs) |-> Free(bag, bufs)[b]]
  BY DEF Free, (+)
<1>2. CASE Compile
  <2>1. pc' = 1 /\ UNCHANGED <<body, frame, world, freed, inline>>
    BY <1>2 DEF Compile
  <2> QED
    BY <2>1, BodyFacts DEF HInv, Types
<1>3. CASE Fork
  BY <1>3 DEF Fork, Types
<1>4. CASE Return
  <2>1. /\ \E bufs : freed' = Free(freed, bufs)
        /\ UNCHANGED <<body, pc, frame, world, inline>>
    BY <1>4 DEF Return, Epilogue
  <2> QED
    BY <1>1, <2>1 DEF Types
<1>5. ASSUME NEW i \in DOMAIN branches, BranchEnd(i) PROVE Types'
  <2>1. /\ \E bag, bufs : freed' = Free(bag, bufs)
        /\ UNCHANGED <<body, pc, frame, world, inline>>
    BY <1>5, Zenon DEF BranchEnd
  <2> QED
    BY <1>1, <2>1 DEF Types
<1>6. CASE UNCHANGED vars
  BY <1>6 DEF vars, Types
<1> QED
  BY <1>2, <1>3, <1>4, <1>5, <1>6

\* The compiled function is type correct for every body, and the groups of its
\* plan are disjoint sets of statements.
THEOREM TypeCorrect == Spec => []TypeOK
<1>1. Init => Types
  <2> SUFFICES ASSUME Init PROVE Types
    OBVIOUS
  <2>1. DOMAIN frame.val = Names /\ DOMAIN frame.buf = Names
    BY DEF Init, EntryLocals
  <2>2. freed = [b \in DOMAIN freed |-> freed[b]]
    BY DEF Init, EmptyBag, SetToBag
  <2>3. pc \in 0 .. Len(body.stmts) + 1
    BY BodyFacts DEF Init, BodyChosen, NotCompiled
  <2> QED
    BY <2>1, <2>2, <2>3 DEF Init, Types
<1>2. HInv /\ Types /\ [Next]_vars => Types'
  BY SequentialTypes, EffectTypes, JoinTypes, OtherTypes DEF Next
<1>3. HInv /\ Types => TypeOK
  <2> SUFFICES ASSUME HInv, Types PROVE TypeOK
    OBVIOUS
  <2>1. IsABag(freed)
    BY DEF HInv, Types, FreedOnce, BagToSet, IsABag
  <2>2. \A g \in plan : g.members \subseteq DOMAIN body.stmts
    BY MemberFacts DEF HInv
  <2>3. \A g, h \in plan : g.members \cap h.members # {} => g = h
    BY GroupOf DEF HInv, PlanExact
  <2> QED
    BY <2>1, <2>2, <2>3 DEF Types, TypeOK
<1> QED
  BY <1>1, <1>2, <1>3, HeapInvariance, PTL DEF Spec
=============================================================================
