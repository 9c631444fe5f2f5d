------------------------ MODULE AutoParSerialProofs ------------------------
(***************************************************************************)
(* What a function body computes does not depend on what runs beside       *)
(* what, or on a reorder the compiler advises.                             *)
(*                                                                         *)
(* Deterministic is the determinism contract, SerialEquivalence of         *)
(* AutoPar, for every set of bodies and every interleaving; it assumes     *)
(* ElseSeen, that no else block reads what the planner's OutsideRefs       *)
(* cannot see, without which it is false.  AdviceSound is ReorderSound.    *)
(*                                                                         *)
(* Both rest on Locality: a statement begun from locals and worlds that    *)
(* agree on what it reads and touches does the same.  Ref is the run in    *)
(* source order, statement by statement.  Deterministic follows it:        *)
(* between groups the frame holds what Ref holds of the locals still to be *)
(* read, and the buffers freed or owned are those Ref has made or the      *)
(* branches have dropped (FrameOK, WorldOK, Dropped); inside a group every *)
(* branch is where it would be had it run alone from Ref's state           *)
(* (BranchOK), because no member meets another (GroupsIndependent, proved  *)
(* in AutoParProofs).  AdviceSound compares two orders that differ in the  *)
(* place of one statement.                                                 *)
(***************************************************************************)
EXTENDS AutoParProofs, FiniteSetTheorems

(***************************************************************************)
(* Sequences of anything                                                   *)
(***************************************************************************)
IsSequence(q) == \E S : q \in Seq(S)

\* Sequences are closed under concatenation and appending.
LEMMA SeqFacts ==
  ASSUME NEW a, IsSequence(a), NEW b, IsSequence(b), NEW x
  PROVE  /\ IsSequence(<<>>) /\ IsSequence(a \o b) /\ IsSequence(Append(a, x))
         /\ a \o <<>> = a /\ <<>> \o a = a
         /\ a \o Append(b, x) = Append(a \o b, x)
<1>1. PICK A : a \in Seq(A)
  BY DEF IsSequence
<1>2. PICK B : b \in Seq(B)
  BY DEF IsSequence
<1> DEFINE C == A \cup B \cup {x}
<1>3. x \in C
  OBVIOUS
<1>4. a \in Seq(C)
  <2>1. A \subseteq C
    OBVIOUS
  <2> HIDE DEF C
  <2> QED
    BY <1>1, <2>1
<1>5. b \in Seq(C)
  <2>1. B \subseteq C
    OBVIOUS
  <2> HIDE DEF C
  <2> QED
    BY <1>2, <2>1
<1> HIDE DEF C
<1>6. <<>> \in Seq(C) /\ a \o b \in Seq(C) /\ Append(a, x) \in Seq(C)
  BY <1>3, <1>4, <1>5
<1>7. a \o <<>> = a /\ <<>> \o a = a
  BY <1>4
<1>8. a \o Append(b, x) = Append(a \o b, x)
  BY <1>3, <1>4, <1>5
<1> QED
  BY <1>6, <1>7, <1>8 DEF IsSequence

\* Concatenation is associative.
LEMMA ConcatRegroups ==
  ASSUME NEW a, IsSequence(a), NEW b, IsSequence(b), NEW c, IsSequence(c)
  PROVE  (a \o b) \o c = a \o (b \o c)
<1>1. PICK A : a \in Seq(A)
  BY DEF IsSequence
<1>2. PICK B : b \in Seq(B)
  BY DEF IsSequence
<1>3. PICK D : c \in Seq(D)
  BY DEF IsSequence
<1> DEFINE C == A \cup B \cup D
<1>4. A \subseteq C /\ B \subseteq C /\ D \subseteq C
  OBVIOUS
<1> HIDE DEF C
<1>5. a \in Seq(C) /\ b \in Seq(C) /\ c \in Seq(C)
  BY <1>1, <1>2, <1>3, <1>4
<1> QED
  BY <1>5, ConcatAssociative

(***************************************************************************)
(* What a statement does depends on what it reads and touches              *)
(***************************************************************************)
\* Effect x of statement i does the same from state a, with locals u, as from
\* state b, with locals v.
StepAlike(s, i, x, u, v, W, a, b) ==
  /\ Apply(s, i, u, x, a).seen = Apply(s, i, v, x, b).seen
  /\ \A c \in W : a.world[c] = b.world[c] =>
                    Apply(s, i, u, x, a).world[c] = Apply(s, i, v, x, b).world[c]
  /\ \A c \in W : c \notin Cells(s, i, x) \/ x.verb = "reads" =>
                    Apply(s, i, u, x, a).world[c] = a.world[c]
  /\ \/ Apply(s, i, u, x, a).out = a.out /\ Apply(s, i, v, x, b).out = b.out
     \/ \E y : /\ Apply(s, i, u, x, a).out = Append(a.out, y)
               /\ Apply(s, i, v, x, b).out = Append(b.out, y)

\* Two states in which the next effect of a statement is the same.
LEMMA ApplyLocal ==
  ASSUME NEW s, NEW i, NEW x, NEW u, NEW v, NEW W,
         \A n \in reads(s) : u[n] = v[n],
         NEW a, NEW b, EffectState(a, W), EffectState(b, W), a.seen = b.seen,
         Cells(s, i, x) \subseteq W,
         \A c \in Cells(s, i, x) : a.world[c] = b.world[c]
  PROVE  StepAlike(s, i, x, u, v, W, a, b)
<1> DEFINE touched == Cells(s, i, x)
           ta == Term(s, i, u, a.seen)
           tb == Term(s, i, v, b.seen)
<1>1. ta = tb
  <2>1. [n \in reads(s) |-> u[n]] = [n \in reads(s) |-> v[n]]
    OBVIOUS
  <2> QED
    BY <2>1 DEF Term
<1> HIDE DEF touched, ta, tb
<1>2. CASE Prints(x)
  <2>1. /\ Apply(s, i, u, x, a) = [a EXCEPT !.out = Append(@, <<x.resource, ta>>)]
        /\ Apply(s, i, v, x, b) = [b EXCEPT !.out = Append(@, <<x.resource, tb>>)]
    BY <1>2 DEF Apply, touched, ta, tb
  <2> QED
    BY <1>1, <2>1 DEF EffectState, StepAlike
<1>3. CASE ~Prints(x)
  <2>1. Apply(s, i, u, x, a) =
          [a EXCEPT
             !.world = [c \in DOMAIN @ |-> IF c \in touched /\ x.verb # "reads"
                                           THEN Append(@[c], ta) ELSE @[c]],
             !.seen = IF x.verb \in {"reads", "receives"}
                      THEN Append(@, [c \in touched |-> a.world[c]]) ELSE @]
    BY <1>3, Zenon DEF Apply, touched, ta
  <2>2. Apply(s, i, v, x, b) =
          [b EXCEPT
             !.world = [c \in DOMAIN @ |-> IF c \in touched /\ x.verb # "reads"
                                           THEN Append(@[c], tb) ELSE @[c]],
             !.seen = IF x.verb \in {"reads", "receives"}
                      THEN Append(@, [c \in touched |-> b.world[c]]) ELSE @]
    BY <1>3, Zenon DEF Apply, touched, tb
  <2>3. [c \in touched |-> a.world[c]] = [c \in touched |-> b.world[c]]
    BY DEF touched
  <2>4. Apply(s, i, u, x, a).seen = Apply(s, i, v, x, b).seen
    BY <2>1, <2>2, <2>3 DEF EffectState
  <2>5. Apply(s, i, u, x, a).out = a.out /\ Apply(s, i, v, x, b).out = b.out
    BY <2>1, <2>2 DEF EffectState
  <2>6. ASSUME NEW c \in W
        PROVE  /\ Apply(s, i, u, x, a).world[c] =
                    IF c \in touched /\ x.verb # "reads" THEN Append(a.world[c], ta) ELSE a.world[c]
               /\ Apply(s, i, v, x, b).world[c] =
                    IF c \in touched /\ x.verb # "reads" THEN Append(b.world[c], tb) ELSE b.world[c]
    BY <2>1, <2>2 DEF EffectState
  <2> QED
    BY <1>1, <2>4, <2>5, <2>6 DEF touched, StepAlike
<1> QED
  BY <1>2, <1>3

\* The state after the first k effects of statement i, begun in world w with
\* output o and run with nothing beside it.
Begin(w, o) == [world |-> w, out |-> o, seen |-> <<>>]

After(s, i, val, w, o, k) == Prefix(EffectsFrom(s, i, val, Begin(w, o)), Len(Actual(s)), k)

Whole(s, i, val, w, o) == After(s, i, val, w, o, Len(Actual(s)))

IsWorld(w, W) == w = [c \in W |-> w[c]]

\* The effects of a statement are performed one by one.
LEMMA AfterSteps ==
  ASSUME NEW s, SummaryTrue(s), NEW i, NEW val, NEW w, NEW o
  PROVE  /\ After(s, i, val, w, o, 0) = Begin(w, o)
         /\ \A k \in 1 .. Len(Actual(s)) :
              After(s, i, val, w, o, k) = Apply(s, i, val, Actual(s)[k], After(s, i, val, w, o, k - 1))
         /\ \A k \in 0 .. Len(Actual(s)) : EffectState(After(s, i, val, w, o, k), DOMAIN w)
<1> DEFINE p == EffectsFrom(s, i, val, Begin(w, o))
           m == Len(Actual(s))
<1>1. m \in Nat
  BY ActualIsSeq
<1>2. p.base = Begin(w, o) /\ \A d, acc : FoldOp(p, d, acc) = Apply(s, i, val, Actual(s)[d], acc)
  BY DEF EffectsFrom, FoldOp
<1>3. EffectState(Begin(w, o), DOMAIN w)
  BY DEF EffectState, Begin
<1>4. \A k \in 0 .. m : EffectState(Prefix(p, m, k), DOMAIN w)
  BY <1>3, EffectsKeep
<1> HIDE DEF p, m
<1>5. /\ Prefix(p, m, 0) = Begin(w, o)
      /\ \A d \in 1 .. m : Prefix(p, m, d) = Apply(s, i, val, Actual(s)[d], Prefix(p, m, d - 1))
  BY <1>1, <1>2, PrefixSteps
<1> QED
  BY <1>4, <1>5 DEF After, p, m

\* The next effect of a statement, for one that has performed k - 1.
OneMore(s, i, val, w, o, k) ==
  /\ After(s, i, val, w, o, k) = Apply(s, i, val, Actual(s)[k], After(s, i, val, w, o, k - 1))
  /\ EffectState(After(s, i, val, w, o, k - 1), DOMAIN w)

\* AfterSteps at one effect.
LEMMA NextEffect ==
  ASSUME NEW s, SummaryTrue(s), NEW i, NEW val, NEW w, NEW o, NEW k \in 1 .. Len(Actual(s))
  PROVE  OneMore(s, i, val, w, o, k)
<1>1. k - 1 \in 0 .. Len(Actual(s))
  BY ActualIsSeq
<1>2. /\ After(s, i, val, w, o, 0) = Begin(w, o)
      /\ \A d \in 1 .. Len(Actual(s)) :
           After(s, i, val, w, o, d) = Apply(s, i, val, Actual(s)[d], After(s, i, val, w, o, d - 1))
      /\ \A d \in 0 .. Len(Actual(s)) : EffectState(After(s, i, val, w, o, d), DOMAIN w)
  BY AfterSteps, Zenon
<1> QED
  BY <1>1, <1>2 DEF OneMore

\* Effect, the model's fold, is the state after all the effects.
LEMMA EffectIsWhole ==
  ASSUME NEW s, SummaryTrue(s), NEW i, NEW st
  PROVE  Effect(s, i, st) = Whole(s, i, st.loc.val, st.world, st.out)
BY EffectIsFold DEF Whole, After, Begin

\* A cell of an effect is a cell of its statement, changed unless it is read only.
LEMMA CellsOfEffect ==
  ASSUME NEW s, NEW i, NEW k \in DOMAIN Actual(s)
  PROVE  /\ Cells(s, i, Actual(s)[k]) \subseteq CellsOf(s, i)
         /\ Actual(s)[k].verb # "reads" => Cells(s, i, Actual(s)[k]) \subseteq Modified(s, i)
         /\ Modified(s, i) \subseteq CellsOf(s, i)
BY DEF CellsOf, Modified

\* The first k effects of statement i do the same from locals u, world w and
\* output o as from locals v, world z and no output.
RunAlike(s, i, u, w, o, v, z, k) ==
  /\ After(s, i, u, w, o, k).seen = After(s, i, v, z, <<>>, k).seen
  /\ \A c \in CellsOf(s, i) : After(s, i, u, w, o, k).world[c] = After(s, i, v, z, <<>>, k).world[c]
  /\ \A c \in DOMAIN w \ Modified(s, i) : After(s, i, u, w, o, k).world[c] = w[c]
  /\ After(s, i, u, w, o, k).out = o \o After(s, i, v, z, <<>>, k).out
  /\ IsSequence(After(s, i, v, z, <<>>, k).out)

\* Begun from locals and worlds that agree on what the statement reads and
\* touches, its effects are the same; other cells stay as they were.
LEMMA Locality ==
  ASSUME NEW s, SummaryTrue(s), NEW i, NEW u, NEW v, NEW w, NEW z, NEW o, IsSequence(o),
         \A n \in reads(s) : u[n] = v[n],
         DOMAIN z = DOMAIN w, CellsOf(s, i) \subseteq DOMAIN w,
         \A c \in CellsOf(s, i) : w[c] = z[c],
         NEW k \in 0 .. Len(Actual(s))
  PROVE  RunAlike(s, i, u, w, o, v, z, k)
<1> DEFINE m == Len(Actual(s))
           W == DOMAIN w
           A(d) == After(s, i, u, w, o, d)
           B(d) == After(s, i, v, z, <<>>, d)
           Same(d) == /\ A(d).seen = B(d).seen
                      /\ \A c \in CellsOf(s, i) : A(d).world[c] = B(d).world[c]
                      /\ \A c \in W \ Modified(s, i) : A(d).world[c] = w[c]
                      /\ A(d).out = o \o B(d).out
                      /\ IsSequence(B(d).out)
           Bad == {d \in 0 .. m : ~Same(d)}
<1>1. m \in Nat /\ DOMAIN Actual(s) = 1 .. m
  BY ActualIsSeq
<1>2. /\ A(0) = Begin(w, o) /\ B(0) = Begin(z, <<>>)
      /\ \A d \in 1 .. m : /\ A(d) = Apply(s, i, u, Actual(s)[d], A(d - 1))
                           /\ B(d) = Apply(s, i, v, Actual(s)[d], B(d - 1))
      /\ \A d \in 0 .. m : EffectState(A(d), W) /\ EffectState(B(d), W)
  <2>1. /\ A(0) = Begin(w, o)
        /\ \A d \in 1 .. m : A(d) = Apply(s, i, u, Actual(s)[d], A(d - 1))
        /\ \A d \in 0 .. m : EffectState(A(d), DOMAIN w)
    BY AfterSteps, Zenon
  <2>2. /\ B(0) = Begin(z, <<>>)
        /\ \A d \in 1 .. m : B(d) = Apply(s, i, v, Actual(s)[d], B(d - 1))
        /\ \A d \in 0 .. m : EffectState(B(d), DOMAIN z)
    BY AfterSteps, Zenon
  <2> HIDE DEF A, B, m
  <2> QED
    BY <2>1, <2>2
<1> HIDE DEF A, B, m, W
<1>3. Same(0)
  <2>1. IsSequence(<<>>) /\ o \o <<>> = o
    BY SeqFacts
  <2>2. /\ A(0).world = w /\ A(0).out = o /\ A(0).seen = <<>>
        /\ B(0).world = z /\ B(0).out = <<>> /\ B(0).seen = <<>>
    BY <1>2 DEF Begin
  <2> QED
    BY <2>1, <2>2
<1>4. ASSUME NEW d \in 1 .. m, Same(d - 1) PROVE Same(d)
  <2> DEFINE x == Actual(s)[d]
             a == A(d - 1)
             b == B(d - 1)
  <2>1. EffectState(a, W) /\ EffectState(b, W) /\ A(d) = Apply(s, i, u, x, a) /\ B(d) = Apply(s, i, v, x, b)
    <3>1. d - 1 \in 0 .. m
      BY <1>1
    <3> QED
      BY <1>2, <3>1
  <2>2. /\ Cells(s, i, x) \subseteq CellsOf(s, i)
        /\ x.verb # "reads" => Cells(s, i, x) \subseteq Modified(s, i)
    BY <1>1, CellsOfEffect
  <2>3. /\ a.seen = b.seen /\ a.out = o \o b.out /\ IsSequence(b.out)
        /\ \A c \in CellsOf(s, i) : a.world[c] = b.world[c]
        /\ \A c \in W \ Modified(s, i) : a.world[c] = w[c]
    BY <1>4
  <2>4. CellsOf(s, i) \subseteq W
    BY DEF W
  <2> HIDE DEF x, a, b
  <2>5. StepAlike(s, i, x, u, v, W, a, b)
    <3>1. Cells(s, i, x) \subseteq W /\ \A c \in Cells(s, i, x) : a.world[c] = b.world[c]
      BY <2>2, <2>3, <2>4
    <3> QED
      BY <2>1, <2>3, <3>1, ApplyLocal
  <2>6. A(d).out = o \o B(d).out /\ IsSequence(B(d).out)
    <3>1. ASSUME NEW y PROVE o \o Append(b.out, y) = Append(o \o b.out, y) /\ IsSequence(Append(b.out, y))
      BY <2>3, SeqFacts
    <3> QED
      BY <2>1, <2>3, <2>5, <3>1 DEF StepAlike
  <2>7. \A c \in CellsOf(s, i) : A(d).world[c] = B(d).world[c]
    BY <2>1, <2>3, <2>4, <2>5 DEF StepAlike
  <2>8. \A c \in W \ Modified(s, i) : A(d).world[c] = w[c]
    BY <2>1, <2>2, <2>3, <2>5 DEF StepAlike
  <2> QED
    BY <2>1, <2>5, <2>6, <2>7, <2>8 DEF StepAlike
<1>5. Bad = {}
  <2> SUFFICES ASSUME Bad # {} PROVE FALSE
    OBVIOUS
  <2>1. PICK d \in Bad : \A e \in Bad : d <= e
    <3>1. Bad \subseteq Nat
      BY <1>1
    <3> HIDE DEF Bad
    <3> QED
      BY <3>1, LeastExists
  <2>2. d \in 1 .. m /\ d - 1 \in 0 .. m /\ ~(d <= d - 1)
    <3>1. d # 0
      BY <1>3
    <3> QED
      BY <1>1, <3>1
  <2>3. Same(d - 1)
    BY <2>1, <2>2
  <2> HIDE DEF Same
  <2> QED
    BY <1>4, <2>1, <2>2, <2>3
<1>6. Same(k)
  BY <1>5 DEF m
<1> QED
  BY <1>6 DEF A, B, W, RunAlike

\* A world stays a function on its cells.
LEMMA ApplyIsWorld ==
  ASSUME NEW s, NEW i, NEW val, NEW x, NEW a, NEW W, EffectState(a, W), IsWorld(a.world, W)
  PROVE  IsWorld(Apply(s, i, val, x, a).world, W)
<1> DEFINE touched == Cells(s, i, x)
           term == Term(s, i, val, a.seen)
<1> HIDE DEF touched, term
<1>1. CASE Prints(x)
  <2>1. Apply(s, i, val, x, a) = [a EXCEPT !.out = Append(@, <<x.resource, term>>)]
    BY <1>1 DEF Apply, touched, term
  <2> QED
    BY <2>1 DEF EffectState
<1>2. CASE ~Prints(x)
  <2>1. Apply(s, i, val, x, a) =
          [a EXCEPT
             !.world = [c \in DOMAIN @ |-> IF c \in touched /\ x.verb # "reads"
                                           THEN Append(@[c], term) ELSE @[c]],
             !.seen = IF x.verb \in {"reads", "receives"}
                      THEN Append(@, [c \in touched |-> a.world[c]]) ELSE @]
    BY <1>2, Zenon DEF Apply, touched, term
  <2>2. Apply(s, i, val, x, a).world = [c \in W |-> IF c \in touched /\ x.verb # "reads"
                                                    THEN Append(a.world[c], term) ELSE a.world[c]]
    BY <2>1 DEF EffectState
  <2> QED
    BY <2>2 DEF IsWorld
<1> QED
  BY <1>1, <1>2

\* Effects keep the world a function on its cells.
LEMMA AfterIsWorld ==
  ASSUME NEW s, SummaryTrue(s), NEW i, NEW val, NEW w, NEW W, IsWorld(w, W), NEW o,
         NEW k \in 0 .. Len(Actual(s))
  PROVE  IsWorld(After(s, i, val, w, o, k).world, W)
<1> DEFINE m == Len(Actual(s))
           A(d) == After(s, i, val, w, o, d)
           Bad == {d \in 0 .. m : ~IsWorld(A(d).world, W)}
<1>1. m \in Nat
  BY ActualIsSeq
<1>2. /\ A(0) = Begin(w, o)
      /\ \A d \in 1 .. m : A(d) = Apply(s, i, val, Actual(s)[d], A(d - 1))
      /\ \A d \in 0 .. m : EffectState(A(d), W)
  <2>1. DOMAIN w = W
    BY DEF IsWorld
  <2>2. /\ A(0) = Begin(w, o)
        /\ \A d \in 1 .. m : A(d) = Apply(s, i, val, Actual(s)[d], A(d - 1))
        /\ \A d \in 0 .. m : EffectState(A(d), DOMAIN w)
    BY AfterSteps, Zenon
  <2> HIDE DEF A, m
  <2> QED
    BY <2>1, <2>2
<1> HIDE DEF A, m
<1>3. IsWorld(A(0).world, W)
  BY <1>2 DEF Begin
<1>4. ASSUME NEW d \in 1 .. m, IsWorld(A(d - 1).world, W) PROVE IsWorld(A(d).world, W)
  <2>1. d - 1 \in 0 .. m
    BY <1>1
  <2> QED
    BY <1>2, <1>4, <2>1, ApplyIsWorld
<1>5. Bad = {}
  <2> SUFFICES ASSUME Bad # {} PROVE FALSE
    OBVIOUS
  <2>1. PICK d \in Bad : \A e \in Bad : d <= e
    <3>1. Bad \subseteq Nat
      BY <1>1
    <3> HIDE DEF Bad
    <3> QED
      BY <3>1, LeastExists
  <2>2. d \in 1 .. m /\ d - 1 \in 0 .. m /\ ~(d <= d - 1)
    <3>1. d # 0
      BY <1>3
    <3> QED
      BY <1>1, <3>1
  <2>3. IsWorld(A(d - 1).world, W)
    BY <2>1, <2>2
  <2> QED
    BY <1>4, <2>1, <2>2, <2>3
<1> QED
  BY <1>5 DEF A, m

(***************************************************************************)
(* The statements one after another                                        *)
(***************************************************************************)
\* The state of a run between two statements, over the cells W.
StateOK(st, W) ==
  /\ DOMAIN st = {"loc", "world", "out", "freed", "result"}
  /\ IsWorld(st.world, W)
  /\ IsSequence(st.out)

\* What a statement makes of a state that has not returned.
Executed(s, i, st) ==
  LET e == Whole(s, i, st.loc.val, st.world, st.out)
  IN [loc |-> Locals(s, i, st.loc, e.seen),
      world |-> e.world,
      out |-> e.out,
      freed |-> Free(st.freed, Released(s, st.loc)),
      result |-> IF s.returns THEN Term(s, i, st.loc.val, e.seen) ELSE Running]

\* Exec runs a statement unless the function has returned.
LEMMA ExecIs ==
  ASSUME NEW stmts, NEW i, SummaryTrue(stmts[i]), NEW st
  PROVE  /\ st.result = Running => Exec(stmts, i, st) = Executed(stmts[i], i, st)
         /\ st.result # Running => Exec(stmts, i, st) = st
BY EffectIsWhole DEF Exec, Executed

\* All the effects of a statement, from a world over the cells W.
WholeOK(s, i, val, w, o, W) ==
  /\ RunAlike(s, i, val, w, o, val, w, Len(Actual(s)))
  /\ IsWorld(Whole(s, i, val, w, o).world, W)
  /\ IsSequence(Whole(s, i, val, w, o).out)
  /\ \A c \in W \ Modified(s, i) : Whole(s, i, val, w, o).world[c] = w[c]

\* All the effects of a statement keep what it does not touch.
LEMMA WholeFacts ==
  ASSUME NEW s, SummaryTrue(s), NEW i, NEW val, NEW w, NEW W, IsWorld(w, W), NEW o, IsSequence(o),
         CellsOf(s, i) \subseteq W
  PROVE  WholeOK(s, i, val, w, o, W)
<1>1. Len(Actual(s)) \in 0 .. Len(Actual(s))
  BY ActualIsSeq
<1>2. DOMAIN w = W
  BY DEF IsWorld
<1>3. RunAlike(s, i, val, w, o, val, w, Len(Actual(s)))
  BY <1>1, <1>2, Locality
<1>4. IsWorld(Whole(s, i, val, w, o).world, W)
  BY <1>1, AfterIsWorld DEF Whole
<1>5. IsSequence(Whole(s, i, val, w, o).out)
  BY <1>3, SeqFacts DEF Whole, RunAlike
<1> QED
  BY <1>2, <1>3, <1>4, <1>5 DEF RunAlike, Whole, WholeOK

\* A statement leaves alone the cells and the locals it does not change.
Kept(s, i, st, W) ==
  /\ StateOK(Executed(s, i, st), W)
  /\ \A c \in W \ Modified(s, i) : Executed(s, i, st).world[c] = st.world[c]
  /\ \A n \in Names \ Changed(s) : Executed(s, i, st).loc.val[n] = st.loc.val[n]
  /\ ~s.returns => Executed(s, i, st).result = Running
  /\ s.returns => Executed(s, i, st).result # Running

\* A statement takes a well-formed state to one, and keeps what it does not change.
LEMMA ExecutedOK ==
  ASSUME NEW s, SummaryTrue(s), NEW i, NEW st, NEW W, StateOK(st, W), CellsOf(s, i) \subseteq W
  PROVE  Kept(s, i, st, W)
<1> DEFINE e == Whole(s, i, st.loc.val, st.world, st.out)
<1>1. /\ IsWorld(e.world, W) /\ IsSequence(e.out)
      /\ \A c \in W \ Modified(s, i) : e.world[c] = st.world[c]
  <2>1. WholeOK(s, i, st.loc.val, st.world, st.out, W)
    BY WholeFacts DEF StateOK
  <2> QED
    BY <2>1 DEF WholeOK
<1>2. Executed(s, i, st) =
        [loc |-> Locals(s, i, st.loc, e.seen), world |-> e.world, out |-> e.out,
         freed |-> Free(st.freed, Released(s, st.loc)),
         result |-> IF s.returns THEN Term(s, i, st.loc.val, e.seen) ELSE Running]
  BY DEF Executed
<1> HIDE DEF e
<1>3. \A n \in Names \ Changed(s) : Locals(s, i, st.loc, e.seen).val[n] = st.loc.val[n]
  BY DEF Locals, Changed
<1>4. Term(s, i, st.loc.val, e.seen) # Running
  BY DEF Term, Running
<1> QED
  BY <1>1, <1>2, <1>3, <1>4 DEF StateOK, Kept

\* Statement i makes the same of a and b.
SameAfter(s, i, a, b) ==
  /\ Executed(s, i, a).world = Executed(s, i, b).world
  /\ Executed(s, i, a).out = Executed(s, i, b).out
  /\ Executed(s, i, a).result = Executed(s, i, b).result
  /\ \A n \in Names : n \in Changed(s) \/ a.loc.val[n] = b.loc.val[n] =>
       Executed(s, i, a).loc.val[n] = Executed(s, i, b).loc.val[n]

\* Two states that agree on world, output and what the statement reads agree on
\* them after it, and on every local it gives a value.
LEMMA ExecutedAlike ==
  ASSUME NEW s, SummaryTrue(s), NEW i, NEW W, CellsOf(s, i) \subseteq W,
         NEW a, StateOK(a, W), NEW b, StateOK(b, W), a.world = b.world, a.out = b.out,
         \A n \in reads(s) : a.loc.val[n] = b.loc.val[n]
  PROVE  SameAfter(s, i, a, b)
<1> DEFINE w == a.world
           o == a.out
           u == a.loc.val
           v == b.loc.val
           e == Whole(s, i, u, w, o)
           f == Whole(s, i, v, w, o)
           m == Len(Actual(s))
<1>1. IsWorld(w, W) /\ IsSequence(o) /\ DOMAIN w = W /\ b.world = w /\ b.out = o
  BY DEF StateOK, IsWorld
<1>2. m \in 0 .. m
  BY ActualIsSeq
<1>3. \A n \in reads(s) : u[n] = v[n]
  OBVIOUS
<1> HIDE DEF w, o, u, v
<1>4. RunAlike(s, i, u, w, o, v, w, m)
  BY <1>1, <1>2, <1>3, Locality
<1>5. /\ RunAlike(s, i, v, w, o, v, w, m) /\ IsWorld(f.world, W)
      /\ \A c \in W \ Modified(s, i) : f.world[c] = w[c]
  <2>1. WholeOK(s, i, v, w, o, W)
    BY <1>1, WholeFacts
  <2> QED
    BY <2>1 DEF WholeOK
<1>6. /\ IsWorld(e.world, W) /\ \A c \in W \ Modified(s, i) : e.world[c] = w[c]
  <2>1. WholeOK(s, i, u, w, o, W)
    BY <1>1, WholeFacts
  <2> QED
    BY <2>1 DEF WholeOK
<1>7. e.seen = f.seen /\ e.out = f.out /\ \A c \in CellsOf(s, i) : e.world[c] = f.world[c]
  BY <1>4, <1>5 DEF RunAlike, Whole
<1>8. Modified(s, i) \subseteq CellsOf(s, i)
  BY DEF Modified, CellsOf
<1> HIDE DEF e, f, m
<1>9. e.world = f.world
  <2>1. \A c \in W : e.world[c] = f.world[c]
    BY <1>5, <1>6, <1>7, <1>8
  <2> QED
    BY <1>5, <1>6, <2>1 DEF IsWorld
<1>10. Term(s, i, u, e.seen) = Term(s, i, v, f.seen)
  <2>1. [n \in reads(s) |-> u[n]] = [n \in reads(s) |-> v[n]]
    BY <1>3
  <2> QED
    BY <1>7, <2>1 DEF Term
<1>11. /\ Executed(s, i, a) =
            [loc |-> Locals(s, i, a.loc, e.seen), world |-> e.world, out |-> e.out,
             freed |-> Free(a.freed, Released(s, a.loc)),
             result |-> IF s.returns THEN Term(s, i, u, e.seen) ELSE Running]
       /\ Executed(s, i, b) =
            [loc |-> Locals(s, i, b.loc, f.seen), world |-> f.world, out |-> f.out,
             freed |-> Free(b.freed, Released(s, b.loc)),
             result |-> IF s.returns THEN Term(s, i, v, f.seen) ELSE Running]
  BY <1>1 DEF Executed, e, f, u, v, w, o
<1>12. ASSUME NEW n \in Names, n \in Changed(s) \/ u[n] = v[n]
       PROVE  Locals(s, i, a.loc, e.seen).val[n] = Locals(s, i, b.loc, f.seen).val[n]
  BY <1>10, <1>12 DEF Locals, Changed, u, v
<1> QED
  BY <1>7, <1>9, <1>10, <1>11, <1>12 DEF u, v, SameAfter

\* The run of a body's statements in some order: the state after the first k.
Start(b) ==
  [loc |-> EntryLocals, world |-> [c \in AllCells(b.stmts) |-> <<>>], out |-> <<>>,
   freed |-> EmptyBag, result |-> Running]

RunIn(b, order) == [kind |-> "statements", stmts |-> b.stmts, order |-> order, base |-> Start(b)]

RefIn(b, order, k) == Prefix(RunIn(b, order), Len(order), k)

\* An order that runs statements of the body.
IsOrder(b, order) == order \in Seq(Nat) /\ \A k \in 1 .. Len(order) : order[k] \in DOMAIN b.stmts

\* InOrder, the model's fold, runs the statements one by one.
LEMMA RefSteps ==
  ASSUME NEW b, NEW order, IsOrder(b, order)
  PROVE  /\ Len(order) \in Nat
         /\ RefIn(b, order, 0) = Start(b)
         /\ \A k \in 1 .. Len(order) :
              RefIn(b, order, k) = Exec(b.stmts, order[k], RefIn(b, order, k - 1))
         /\ InOrder(b, order) = Epilogue(b, RefIn(b, order, Len(order)))
<1> DEFINE p == RunIn(b, order)
           m == Len(order)
<1>1. m \in Nat /\ DOMAIN order = 1 .. m
  BY DEF IsOrder
<1>2. p.base = Start(b) /\ \A d, acc : FoldOp(p, d, acc) = Exec(b.stmts, order[d], acc)
  BY DEF RunIn, FoldOp
<1>3. InOrder(b, order) = Epilogue(b, Prefix(p, m, m))
  BY <1>1 DEF InOrder, FoldLeft, MapThenFoldSet, Prefix, IsFold, FoldOp, RunIn, Start
<1> HIDE DEF p, m
<1>4. /\ Prefix(p, m, 0) = Start(b)
      /\ \A d \in 1 .. m : Prefix(p, m, d) = Exec(b.stmts, order[d], Prefix(p, m, d - 1))
  BY <1>1, <1>2, PrefixSteps
<1> QED
  BY <1>1, <1>3, <1>4 DEF RefIn, p, m

\* The assumptions on a body's statements.
LEMMA BodyTrue ==
  ASSUME NEW b \in Bodies, NEW i \in DOMAIN b.stmts
  PROVE  SummaryTrue(b.stmts[i]) /\ ScopesApart(b.stmts[i]) /\ CellsOf(b.stmts[i], i) \subseteq AllCells(b.stmts)
BY SummariesAssumption, ScopesAssumption DEF AllCells

\* One statement of the run, and the states in between.
RefStep(b, order, k) ==
  LET r == RefIn(b, order, k - 1)
      i == order[k]
  IN /\ r.result = Running => RefIn(b, order, k) = Executed(b.stmts[i], i, r)
     /\ r.result # Running => RefIn(b, order, k) = r

\* Every step of a run is RefStep, between well-formed states.
LEMMA RefStates ==
  ASSUME NEW b \in Bodies, NEW order, IsOrder(b, order)
  PROVE  /\ \A k \in 1 .. Len(order) : RefStep(b, order, k)
         /\ \A k \in 0 .. Len(order) : StateOK(RefIn(b, order, k), AllCells(b.stmts))
<1> DEFINE m == Len(order)
           W == AllCells(b.stmts)
           R(k) == RefIn(b, order, k)
           Bad == {k \in 0 .. m : ~StateOK(R(k), W)}
<1>1. /\ m \in Nat /\ R(0) = Start(b)
      /\ \A k \in 1 .. m : R(k) = Exec(b.stmts, order[k], R(k - 1)) /\ order[k] \in DOMAIN b.stmts
  BY RefSteps DEF IsOrder
<1> HIDE DEF m, R
<1>2. \A k \in 1 .. m : LET r == R(k - 1)
                            i == order[k]
                        IN /\ r.result = Running => R(k) = Executed(b.stmts[i], i, r)
                           /\ r.result # Running => R(k) = r
  BY <1>1, BodyTrue, ExecIs
<1>3. StateOK(R(0), W)
  <2>1. IsSequence(<<>>)
    BY DEF IsSequence
  <2>2. IsWorld([c \in W |-> <<>>], W)
    BY DEF IsWorld
  <2> HIDE DEF W
  <2>3. Start(b) = [loc |-> EntryLocals, world |-> [c \in W |-> <<>>], out |-> <<>>,
                    freed |-> EmptyBag, result |-> Running]
    BY DEF Start, W
  <2> QED
    BY <1>1, <2>1, <2>2, <2>3 DEF StateOK
<1>4. ASSUME NEW k \in 1 .. m, StateOK(R(k - 1), W) PROVE StateOK(R(k), W)
  <2> DEFINE i == order[k]
             s == b.stmts[i]
             r == R(k - 1)
  <2>1. i \in DOMAIN b.stmts
    BY <1>1
  <2>2. SummaryTrue(s) /\ CellsOf(s, i) \subseteq W
    BY <2>1, BodyTrue
  <2>3. R(k) = Executed(s, i, r) \/ R(k) = r
    BY <1>2
  <2>4. StateOK(r, W)
    BY <1>4
  <2> HIDE DEF i, s, r, W
  <2> QED
    BY <2>2, <2>3, <2>4, ExecutedOK DEF Kept
<1>5. Bad = {}
  <2> SUFFICES ASSUME Bad # {} PROVE FALSE
    OBVIOUS
  <2>1. PICK k \in Bad : \A e \in Bad : k <= e
    <3>1. Bad \subseteq Nat
      BY <1>1
    <3> HIDE DEF Bad
    <3> QED
      BY <3>1, LeastExists
  <2>2. k \in 1 .. m /\ k - 1 \in 0 .. m /\ ~(k <= k - 1)
    <3>1. k # 0
      BY <1>3
    <3> QED
      BY <1>1, <3>1
  <2>3. StateOK(R(k - 1), W)
    BY <2>1, <2>2
  <2> QED
    BY <1>4, <2>1, <2>2, <2>3
<1> QED
  BY <1>2, <1>5 DEF m, R, RefStep

\* What a stretch of the run leaves alone.
Stretch(b, order, a, e) ==
  /\ RefIn(b, order, e).result = Running
  /\ \A c \in AllCells(b.stmts) :
       (\A k \in a + 1 .. e : c \notin Modified(b.stmts[order[k]], order[k])) =>
         RefIn(b, order, e).world[c] = RefIn(b, order, a).world[c]
  /\ \A n \in Names :
       (\A k \in a + 1 .. e : n \notin Changed(b.stmts[order[k]])) =>
         RefIn(b, order, e).loc.val[n] = RefIn(b, order, a).loc.val[n]

\* A stretch without exits keeps what none of its statements changes.
LEMMA StretchKeeps ==
  ASSUME NEW b \in Bodies, NEW order, IsOrder(b, order),
         NEW a \in 0 .. Len(order), NEW e \in a .. Len(order),
         RefIn(b, order, a).result = Running,
         \A k \in a + 1 .. e : ~b.stmts[order[k]].returns
  PROVE  Stretch(b, order, a, e)
<1> DEFINE m == Len(order)
           W == AllCells(b.stmts)
           R(k) == RefIn(b, order, k)
           Bad == {d \in a .. e : ~Stretch(b, order, a, d)}
<1>1. /\ m \in Nat /\ \A k \in 1 .. m : order[k] \in DOMAIN b.stmts
  BY RefSteps DEF IsOrder
<1>2. /\ \A k \in 1 .. m : RefStep(b, order, k)
      /\ \A k \in 0 .. m : StateOK(R(k), W)
  BY RefStates
<1>3. a \in Nat /\ e \in Nat /\ a <= e /\ e <= m
  BY <1>1
<1>4. Stretch(b, order, a, a)
  BY DEF Stretch
<1> HIDE DEF m
<1>5. ASSUME NEW d \in a + 1 .. e, Stretch(b, order, a, d - 1) PROVE Stretch(b, order, a, d)
  <2> DEFINE i == order[d]
             s == b.stmts[i]
             r == R(d - 1)
  <2>1. /\ d \in 1 .. m /\ d - 1 \in 0 .. m /\ d - 1 >= a /\ d \in Nat
        /\ \A k \in a + 1 .. d - 1 : k \in a + 1 .. d
        /\ d \in a + 1 .. d
    BY <1>1, <1>3
  <2>2. i \in DOMAIN b.stmts
    BY <1>1, <2>1
  <2>3. SummaryTrue(s) /\ CellsOf(s, i) \subseteq W /\ ~s.returns
    BY <2>2, BodyTrue
  <2>4. StateOK(r, W) /\ r.result = Running
    BY <1>2, <1>5, <2>1 DEF Stretch
  <2>5. R(d) = Executed(s, i, r)
    BY <1>2, <2>1, <2>4 DEF RefStep
  <2>6. /\ \A c \in W \ Modified(s, i) : R(d).world[c] = r.world[c]
        /\ \A n \in Names \ Changed(s) : R(d).loc.val[n] = r.loc.val[n]
        /\ R(d).result = Running
    <3> HIDE DEF i, s, r, W, R
    <3>1. Kept(s, i, r, W)
      BY <2>3, <2>4, ExecutedOK
    <3> QED
      BY <2>3, <2>5, <3>1 DEF Kept
  <2>7. ASSUME NEW c \in W, \A k \in a + 1 .. d : c \notin Modified(b.stmts[order[k]], order[k])
        PROVE  R(d).world[c] = R(a).world[c]
    <3>1. r.world[c] = R(a).world[c]
      BY <1>5, <2>1, <2>7 DEF Stretch
    <3> QED
      BY <2>1, <2>6, <2>7, <3>1
  <2>8. ASSUME NEW n \in Names, \A k \in a + 1 .. d : n \notin Changed(b.stmts[order[k]])
        PROVE  R(d).loc.val[n] = R(a).loc.val[n]
    <3>1. r.loc.val[n] = R(a).loc.val[n]
      BY <1>5, <2>1, <2>8 DEF Stretch
    <3> QED
      BY <2>1, <2>6, <2>8, <3>1
  <2> QED
    BY <2>6, <2>7, <2>8 DEF Stretch
<1>6. Bad = {}
  <2> SUFFICES ASSUME Bad # {} PROVE FALSE
    OBVIOUS
  <2>1. PICK d \in Bad : \A f \in Bad : d <= f
    <3>1. Bad \subseteq Nat
      BY <1>3
    <3> HIDE DEF Bad
    <3> QED
      BY <3>1, LeastExists
  <2>2. d \in a + 1 .. e /\ d - 1 \in a .. e /\ ~(d <= d - 1)
    <3>1. d # a
      BY <1>4
    <3> QED
      BY <1>3, <3>1
  <2>3. Stretch(b, order, a, d - 1)
    BY <2>1, <2>2
  <2> QED
    BY <1>5, <2>1, <2>2, <2>3
<1> QED
  BY <1>3, <1>6

\* A run that has returned stays as it is.
LEMMA ReturnedStays ==
  ASSUME NEW b \in Bodies, NEW order, IsOrder(b, order),
         NEW a \in 0 .. Len(order), NEW e \in a .. Len(order),
         RefIn(b, order, a).result # Running
  PROVE  RefIn(b, order, e) = RefIn(b, order, a)
<1> DEFINE m == Len(order)
           R(k) == RefIn(b, order, k)
           Bad == {d \in a .. e : R(d) # R(a)}
<1>1. m \in Nat /\ \A k \in 1 .. m : RefStep(b, order, k)
  BY RefSteps, RefStates
<1>2. a \in Nat /\ e \in Nat /\ a <= e /\ e <= m
  BY <1>1
<1> HIDE DEF m
<1>3. ASSUME NEW d \in a + 1 .. e, R(d - 1) = R(a) PROVE R(d) = R(a)
  <2>1. d \in 1 .. m
    BY <1>1, <1>2
  <2> QED
    BY <1>1, <1>3, <2>1 DEF RefStep
<1> HIDE DEF R
<1>4. Bad = {}
  <2> SUFFICES ASSUME Bad # {} PROVE FALSE
    OBVIOUS
  <2>1. PICK d \in Bad : \A f \in Bad : d <= f
    <3>1. Bad \subseteq Nat
      BY <1>2
    <3> HIDE DEF Bad
    <3> QED
      BY <3>1, LeastExists
  <2>2. d \in a + 1 .. e /\ d - 1 \in a .. e /\ ~(d <= d - 1)
    <3>1. d # a
      BY <2>1
    <3> QED
      BY <1>2, <3>1
  <2> QED
    BY <1>3, <2>1, <2>2
<1> QED
  BY <1>2, <1>4 DEF R

(***************************************************************************)
(* The buffers of a run                                                    *)
(***************************************************************************)
\* The buffers freed or owned are M, and an owner owns a buffer of its own.
HeapOK(st, M) ==
  /\ DOMAIN st.freed \cup Buffers(st.loc, Names) = M
  /\ \A n \in Names : st.loc.buf[n] # NoBuffer => \E j : st.loc.buf[n] = <<j, n>>

\* What Free adds to a bag.
LEMMA FreeDomain ==
  ASSUME NEW bag, NEW bufs
  PROVE  DOMAIN Free(bag, bufs) = DOMAIN bag \cup bufs
BY DEF Free, (+), SetToBag

\* A statement makes a buffer for every owner it defines and loses none: what it
\* introduces has no buffer yet.
LEMMA ExecutedHeap ==
  ASSUME NEW s, ScopesApart(s), NEW i, NEW st, NEW M, HeapOK(st, M),
         \A n \in s.let_introduced : \A j : <<j, n>> \notin M
  PROVE  HeapOK(Executed(s, i, st), M \cup {<<i, n>> : n \in defines(s) \cap Containers})
<1> DEFINE e == Whole(s, i, st.loc.val, st.world, st.out)
           E == Executed(s, i, st)
           buf == st.loc.buf
           given == (s.assigned \cap Containers) \cup s.consuming_reads
           N == {<<i, n>> : n \in defines(s) \cap Containers}
<1>1. /\ E.loc = Locals(s, i, st.loc, e.seen)
      /\ E.freed = Free(st.freed, Released(s, st.loc))
  BY DEF Executed
<1> HIDE DEF e, E
<1>2. \A n \in Names : E.loc.buf[n] = IF n \in defines(s) \cap Containers THEN <<i, n>>
                                      ELSE IF n \in s.consuming_reads THEN NoBuffer ELSE buf[n]
  BY <1>1 DEF Locals
<1>3. Released(s, st.loc) = {buf[n] : n \in given} \ {NoBuffer} /\ given \subseteq Names
  BY DEF Released, Buffers, ScopesApart
<1>4. Buffers(st.loc, Names) = {buf[n] : n \in Names} \ {NoBuffer}
  BY DEF Buffers
<1>5. Buffers(E.loc, Names) = {E.loc.buf[n] : n \in Names} \ {NoBuffer}
  BY DEF Buffers
<1>6. DOMAIN E.freed = DOMAIN st.freed \cup Released(s, st.loc)
  BY <1>1, FreeDomain
<1>7. \A n \in Names : buf[n] # NoBuffer => \E j : buf[n] = <<j, n>>
  BY DEF HeapOK
<1>8. M = DOMAIN st.freed \cup ({buf[n] : n \in Names} \ {NoBuffer})
  BY <1>4 DEF HeapOK
<1>9. defines(s) \subseteq Names /\ defines(s) = s.let_introduced \cup s.assigned
  BY DEF ScopesApart, defines
<1> HIDE DEF buf
<1>10. ASSUME NEW x \in M \cup N PROVE x \in DOMAIN E.freed \cup Buffers(E.loc, Names)
  <2>1. CASE x \in DOMAIN st.freed
    BY <1>6, <2>1
  <2>2. ASSUME NEW n \in Names, x = buf[n], x # NoBuffer PROVE x \in DOMAIN E.freed \cup Buffers(E.loc, Names)
    <3>1. CASE n \in given
      BY <1>3, <1>6, <2>2, <3>1
    <3>2. CASE n \notin given
      <4>1. PICK j : buf[n] = <<j, n>>
        BY <1>7, <2>2
      <4>2. <<j, n>> \in M
        BY <1>8, <2>2, <4>1
      <4>3. n \notin defines(s) \cap Containers
        BY <1>9, <3>2, <4>2
      <4>4. E.loc.buf[n] = buf[n]
        BY <1>2, <3>2, <4>3
      <4> QED
        BY <1>5, <2>2, <4>4
    <3> QED
      BY <3>1, <3>2
  <2>3. ASSUME NEW n \in defines(s) \cap Containers, x = <<i, n>>
        PROVE  x \in DOMAIN E.freed \cup Buffers(E.loc, Names)
    <3>1. n \in Names /\ E.loc.buf[n] = <<i, n>>
      BY <1>2, <1>9
    <3>2. <<i, n>> # NoBuffer
      BY DEF NoBuffer
    <3> QED
      BY <1>5, <2>3, <3>1, <3>2
  <2> QED
    BY <1>8, <2>1, <2>2, <2>3
<1>11. ASSUME NEW x \in DOMAIN E.freed \cup Buffers(E.loc, Names) PROVE x \in M \cup N
  <2>1. CASE x \in DOMAIN E.freed
    BY <1>3, <1>6, <1>8, <2>1
  <2>2. ASSUME NEW n \in Names, x = E.loc.buf[n], x # NoBuffer PROVE x \in M \cup N
    <3>1. CASE n \in defines(s) \cap Containers
      BY <1>2, <2>2, <3>1
    <3>2. CASE n \notin defines(s) \cap Containers
      BY <1>2, <1>8, <2>2, <3>2
    <3> QED
      BY <3>1, <3>2
  <2> QED
    BY <1>5, <2>1, <2>2
<1>12. \A n \in Names : E.loc.buf[n] # NoBuffer => \E j : E.loc.buf[n] = <<j, n>>
  BY <1>2, <1>7
<1> HIDE DEF N
<1> QED
  BY <1>10, <1>11, <1>12 DEF HeapOK, E, N

\* The statements in source order.
Source(b) == [k \in DOMAIN b.stmts |-> k]

Ref(b, k) == RefIn(b, Source(b), k)

\* The source order is an order, and Sequential runs it.
LEMMA SourceOrder ==
  ASSUME NEW b \in Bodies
  PROVE  /\ Len(b.stmts) \in Nat /\ DOMAIN b.stmts = 1 .. Len(b.stmts)
         /\ IsOrder(b, Source(b)) /\ Len(Source(b)) = Len(b.stmts)
         /\ \A k \in 1 .. Len(b.stmts) : Source(b)[k] = k
         /\ Sequential(b) = Epilogue(b, Ref(b, Len(b.stmts)))
         /\ Ref(b, 0) = Start(b)
<1>1. Len(b.stmts) \in Nat /\ DOMAIN b.stmts = 1 .. Len(b.stmts)
  BY BodiesAssumption
<1>2. Source(b) = [k \in 1 .. Len(b.stmts) |-> k]
  BY <1>1 DEF Source
<1>3. Source(b) \in Seq(Nat) /\ Len(Source(b)) = Len(b.stmts)
  BY <1>1, <1>2
<1>4. \A k \in 1 .. Len(b.stmts) : Source(b)[k] = k
  BY <1>2
<1>5. IsOrder(b, Source(b))
  BY <1>1, <1>3, <1>4 DEF IsOrder
<1>6. Sequential(b) = InOrder(b, Source(b))
  BY DEF Sequential, Source
<1> QED
  BY <1>1, <1>3, <1>4, <1>5, <1>6, RefSteps DEF Ref

\* The buffers the entry and the first k statements make.
Made(b, k) ==
  {<<0, n>> : n \in Entry \cap Containers \cap Names}
    \cup UNION {{<<i, n>> : n \in defines(b.stmts[i]) \cap Containers} : i \in 1 .. k}

\* What statement k introduces has no buffer yet, and it adds those it defines.
LEMMA MadeNew ==
  ASSUME NEW b \in Bodies, NEW k \in DOMAIN b.stmts
  PROVE  /\ \A n \in b.stmts[k].let_introduced : \A j : <<j, n>> \notin Made(b, k - 1)
         /\ Made(b, k) = Made(b, k - 1) \cup {<<k, n>> : n \in defines(b.stmts[k]) \cap Containers}
<1>1. k \in Nat /\ k \in 1 .. Len(b.stmts) /\ Len(b.stmts) \in Nat
  BY BodiesAssumption
<1>2. ASSUME NEW n \in b.stmts[k].let_introduced, NEW j, <<j, n>> \in Made(b, k - 1) PROVE FALSE
  <2>1. n \notin Entry
    BY ScopesAssumption
  <2>2. PICK i \in 1 .. k - 1 : <<j, n>> \in {<<i, m>> : m \in defines(b.stmts[i]) \cap Containers}
    BY <1>2, <2>1 DEF Made
  <2>3. n \in defines(b.stmts[i]) /\ i < k /\ i \in 1 .. Len(b.stmts)
    BY <1>1, <2>2
  <2>4. i \in DOMAIN b.stmts
    BY <2>3, BodiesAssumption
  <2> QED
    BY <2>3, <2>4, ScopesAssumption
<1>3. 1 .. k = (1 .. k - 1) \cup {k}
  BY <1>1
<1> QED
  BY <1>2, <1>3 DEF Made

\* The reference run has freed or owns the buffers its statements have made.
LEMMA RefHeap ==
  ASSUME NEW b \in Bodies, NEW k \in 0 .. Len(b.stmts), Ref(b, k).result = Running
  PROVE  HeapOK(Ref(b, k), Made(b, k))
<1> DEFINE m == Len(b.stmts)
           Bad == {d \in 0 .. m : ~(Ref(b, d).result = Running => HeapOK(Ref(b, d), Made(b, d)))}
<1>1. /\ m \in Nat /\ DOMAIN b.stmts = 1 .. m /\ IsOrder(b, Source(b)) /\ Len(Source(b)) = m
      /\ Ref(b, 0) = Start(b) /\ \A d \in 1 .. m : Source(b)[d] = d
  BY SourceOrder
<1>2. /\ \A d \in 1 .. m : RefStep(b, Source(b), d)
      /\ \A d \in 0 .. m : StateOK(Ref(b, d), AllCells(b.stmts))
  BY <1>1, RefStates DEF Ref
<1> HIDE DEF m
<1>3. HeapOK(Ref(b, 0), Made(b, 0))
  <2>1. Ref(b, 0).loc.buf = [n \in Names |-> IF n \in Entry \cap Containers THEN <<0, n>> ELSE NoBuffer]
    BY <1>1 DEF Start, EntryLocals
  <2>2. DOMAIN Ref(b, 0).freed = {}
    BY <1>1 DEF Start, EmptyBag, SetToBag
  <2>3. Made(b, 0) = {<<0, n>> : n \in Entry \cap Containers \cap Names}
    BY DEF Made
  <2>4. Buffers(Ref(b, 0).loc, Names) = {Ref(b, 0).loc.buf[n] : n \in Names} \ {NoBuffer}
    BY DEF Buffers
  <2>5. \A n : <<0, n>> # NoBuffer
    BY DEF NoBuffer
  <2> QED
    BY <2>1, <2>2, <2>3, <2>4, <2>5 DEF HeapOK
<1>4. ASSUME NEW d \in 1 .. m, Ref(b, d - 1).result = Running => HeapOK(Ref(b, d - 1), Made(b, d - 1)),
             Ref(b, d).result = Running
      PROVE  HeapOK(Ref(b, d), Made(b, d))
  <2> DEFINE r == Ref(b, d - 1)
  <2>1. /\ r.result = Running => Ref(b, d) = Executed(b.stmts[d], d, r)
        /\ r.result # Running => Ref(b, d) = r
    BY <1>1, <1>2 DEF RefStep, Ref
  <2>2. r.result = Running /\ Ref(b, d) = Executed(b.stmts[d], d, r)
    BY <1>4, <2>1
  <2>3. HeapOK(r, Made(b, d - 1))
    BY <1>4, <2>2
  <2>4. ScopesApart(b.stmts[d]) /\ d \in DOMAIN b.stmts
    BY <1>1, BodyTrue
  <2> HIDE DEF r
  <2> QED
    BY <2>2, <2>3, <2>4, MadeNew, ExecutedHeap
<1>5. Bad = {}
  <2> SUFFICES ASSUME Bad # {} PROVE FALSE
    OBVIOUS
  <2>1. PICK d \in Bad : \A f \in Bad : d <= f
    <3>1. Bad \subseteq Nat
      BY <1>1
    <3> HIDE DEF Bad
    <3> QED
      BY <3>1, LeastExists
  <2>2. d \in 1 .. m /\ d - 1 \in 0 .. m /\ ~(d <= d - 1)
    <3>1. d # 0
      BY <1>3
    <3> QED
      BY <1>1, <3>1
  <2>3. Ref(b, d - 1).result = Running => HeapOK(Ref(b, d - 1), Made(b, d - 1))
    BY <2>1, <2>2
  <2> QED
    BY <1>4, <2>1, <2>2, <2>3
<1> QED
  BY <1>5 DEF m

(***************************************************************************)
(* A group in the reference run                                            *)
(***************************************************************************)
\* The members of a dispatched group are a run of statements.
LEMMA GroupShape ==
  ASSUME BodyChosen, PlanExact, NEW g \in plan
  PROVE  \E p, q \in 1 .. Len(body.stmts) :
           p <= q /\ g.members = p .. q /\ Min(g.members) = p /\ Max(g.members) = q
<1>1. g.members \in find_parallel_groups(body.stmts)
  BY DEF PlanExact, Dispatchable
<1>2. PICK p \in 1 .. Len(body.stmts) : g.members = p .. GroupEnd(body.stmts, p)
  BY <1>1, BodyFacts, GroupsAreRuns DEF IsRun
<1>3. GroupEnd(body.stmts, p) \in p .. Len(body.stmts)
  BY <1>2, BodyFacts, GroupEndFacts
<1> DEFINE q == GroupEnd(body.stmts, p)
<1>4. p \in Nat /\ q \in Nat /\ p <= q /\ q \in 1 .. Len(body.stmts)
  BY <1>2, <1>3, BodyFacts
<1> HIDE DEF q
<1>5. Max(p .. q) = q
  <2>1. q \in p .. q /\ \A y \in p .. q : q >= y
    BY <1>4
  <2>2. \A x \in p .. q : (\A y \in p .. q : x >= y) => x = q
    BY <1>4
  <2> QED
    BY <2>1, <2>2 DEF Max
<1>6. Min(p .. q) = p
  <2>1. p \in p .. q /\ \A y \in p .. q : p <= y
    BY <1>4
  <2>2. \A x \in p .. q : (\A y \in p .. q : x <= y) => x = p
    BY <1>4
  <2> QED
    BY <2>1, <2>2 DEF Min
<1> QED
  BY <1>2, <1>4, <1>5, <1>6 DEF q

\* A member never leaves the function.
LEMMA MemberStays ==
  ASSUME BodyChosen, PlanExact, NEW g \in plan, NEW i \in g.members
  PROVE  ~body.stmts[i].returns
<1>1. g.members \in find_parallel_groups(body.stmts)
  BY DEF PlanExact, Dispatchable
<1>2. i \in DOMAIN body.stmts /\ ~SequentialOnly(body.stmts, i)
  BY <1>1, BodyFacts, MembersFit
<1>3. SummaryTrue(body.stmts[i])
  BY <1>2, SummariesAssumption DEF BodyChosen
<1> QED
  BY <1>2, <1>3 DEF SequentialOnly, SummaryTrue

\* Member i of the group p .. q in the reference run: it finds what it reads and
\* touches as it was before the group, and what it makes is there after it.
MemberRun(p, q, i) ==
  /\ Ref(body, i - 1).result = Running
  /\ Ref(body, i) = Executed(body.stmts[i], i, Ref(body, i - 1))
  /\ \A c \in CellsOf(body.stmts[i], i) : Ref(body, i - 1).world[c] = Ref(body, p - 1).world[c]
  /\ \A n \in reads(body.stmts[i]) : Ref(body, i - 1).loc.val[n] = Ref(body, p - 1).loc.val[n]
  /\ \A c \in Modified(body.stmts[i], i) : Ref(body, q).world[c] = Ref(body, i).world[c]
  /\ \A n \in defines(body.stmts[i]) : Ref(body, q).loc.val[n] = Ref(body, i).loc.val[n]

\* In the reference run the members of a group do not see each other.
LEMMA GroupRuns ==
  ASSUME BodyChosen, PlanExact, GroupsIndependent, NEW g \in plan,
         NEW p \in 1 .. Len(body.stmts), NEW q \in 1 .. Len(body.stmts), p <= q, g.members = p .. q,
         Ref(body, p - 1).result = Running
  PROVE  /\ Stretch(body, Source(body), p - 1, q)
         /\ \A i \in p .. q : MemberRun(p, q, i)
<1> DEFINE m == Len(body.stmts)
           O == Source(body)
           W == AllCells(body.stmts)
<1>1. body \in Bodies
  BY DEF BodyChosen
<1>2. /\ m \in Nat /\ DOMAIN body.stmts = 1 .. m /\ IsOrder(body, O) /\ Len(O) = m
      /\ \A k \in 1 .. m : O[k] = k
  BY <1>1, SourceOrder
<1> HIDE DEF m, O
<1>3. p \in Nat /\ q \in Nat /\ p - 1 \in 0 .. m /\ p >= 1 /\ q <= m
  BY <1>2 DEF m
<1>4. ASSUME NEW k \in p .. q PROVE k \in 1 .. m /\ O[k] = k /\ ~body.stmts[k].returns
  <2>1. k \in 1 .. m
    BY <1>2, <1>3
  <2> QED
    BY <1>2, <2>1, MemberStays
<1>5. ASSUME NEW a \in p - 1 .. q, NEW e \in a .. q, RefIn(body, O, a).result = Running
      PROVE  Stretch(body, O, a, e)
  <2>1. a \in 0 .. Len(O) /\ e \in a .. Len(O) /\ \A k \in a + 1 .. e : k \in p .. q
    BY <1>2, <1>3
  <2> QED
    BY <1>1, <1>2, <1>4, <1>5, <2>1, StretchKeeps
<1>6. Stretch(body, O, p - 1, q)
  <2>1. p - 1 \in p - 1 .. q /\ q \in p - 1 .. q
    BY <1>3
  <2>2. RefIn(body, O, p - 1).result = Running
    BY DEF Ref, O
  <2> QED
    BY <1>5, <2>1, <2>2
<1>7. ASSUME NEW i \in p .. q PROVE MemberRun(p, q, i)
  <2> DEFINE s == body.stmts[i]
  <2>1. i \in 1 .. m /\ i \in Nat /\ O[i] = i /\ i - 1 \in p - 1 .. q /\ i \in p - 1 .. q /\ q \in i .. q
        /\ i \in i - 1 .. q /\ p - 1 \in p - 1 .. q /\ i - 1 \in 0 .. m
    BY <1>2, <1>3, <1>4
  <2>2. SummaryTrue(s) /\ ScopesApart(s) /\ CellsOf(s, i) \subseteq W
    BY <1>1, <1>2, <2>1, BodyTrue
  <2>3. Stretch(body, O, p - 1, i - 1)
    <3>1. RefIn(body, O, p - 1).result = Running
      BY DEF Ref, O
    <3> QED
      BY <1>5, <2>1, <3>1
  <2>4. Ref(body, i - 1).result = Running
    BY <2>3 DEF Stretch, Ref, O
  <2>5. Ref(body, i) = Executed(s, i, Ref(body, i - 1))
    <3>1. RefStep(body, O, i)
      BY <1>1, <1>2, <2>1, RefStates
    <3> QED
      BY <2>1, <2>4, <3>1 DEF RefStep, Ref, O
  <2>6. Stretch(body, O, i, q)
    <3>1. Stretch(body, O, p - 1, i)
      <4>1. RefIn(body, O, p - 1).result = Running
        BY DEF Ref, O
      <4> QED
        BY <1>5, <2>1, <4>1
    <3>2. RefIn(body, O, i).result = Running
      BY <3>1 DEF Stretch
    <3> QED
      BY <1>5, <2>1, <3>2
  <2>7. ASSUME NEW k \in p .. q, k # i
        PROVE  /\ Changed(body.stmts[k]) \cap (reads(s) \cup Changed(s)) = {}
               /\ Modified(body.stmts[k], k) \cap CellsOf(s, i) = {}
    BY <2>7 DEF GroupsIndependent
  <2>8. Modified(s, i) \subseteq CellsOf(s, i) /\ defines(s) \subseteq Changed(s) /\ reads(s) \cup defines(s) \subseteq Names
    BY <2>2 DEF Modified, CellsOf, Changed, ScopesApart, defines
  <2>9. /\ \A k \in (p - 1) + 1 .. i - 1 : k \in p .. q /\ k # i /\ O[k] = k
        /\ \A k \in i + 1 .. q : k \in p .. q /\ k # i /\ O[k] = k
    <3>1. /\ \A k \in (p - 1) + 1 .. i - 1 : k \in p .. q /\ k # i
          /\ \A k \in i + 1 .. q : k \in p .. q /\ k # i
      BY <1>3, <2>1
    <3> QED
      BY <1>4, <3>1
  <2>10. \A c \in CellsOf(s, i) : Ref(body, i - 1).world[c] = Ref(body, p - 1).world[c]
    BY <2>2, <2>3, <2>7, <2>9 DEF Stretch, Ref, O
  <2>11. \A n \in reads(s) : Ref(body, i - 1).loc.val[n] = Ref(body, p - 1).loc.val[n]
    BY <2>3, <2>7, <2>8, <2>9 DEF Stretch, Ref, O
  <2>12. \A c \in Modified(s, i) : Ref(body, q).world[c] = Ref(body, i).world[c]
    BY <2>2, <2>6, <2>7, <2>8, <2>9 DEF Stretch, Ref, O
  <2>13. \A n \in defines(s) : Ref(body, q).loc.val[n] = Ref(body, i).loc.val[n]
    BY <2>6, <2>7, <2>8, <2>9 DEF Stretch, Ref, O
  <2> QED
    BY <2>4, <2>5, <2>10, <2>11, <2>12, <2>13 DEF MemberRun
<1> QED
  BY <1>6, <1>7 DEF O

(***************************************************************************)
(* The replay of captured output                                           *)
(***************************************************************************)
\* FlattenSeq's local function, over the first m sequences.
IsFlat(seqs, m, f) ==
  f = [i \in 1 .. m |-> IF i = 1 THEN seqs[i] ELSE f[i - 1] \o seqs[i]]

\* FlattenSeq's local function exists.
LEMMA FlatExists ==
  ASSUME NEW seqs, NEW m \in Nat
  PROVE  \E f : IsFlat(seqs, m, f)
<1> DEFINE Bad == {k \in Nat : ~\E f : IsFlat(seqs, k, f)}
<1>1. \E f : IsFlat(seqs, 0, f)
  <2> DEFINE f == [i \in 1 .. 0 |-> seqs[i]]
  <2>1. IsFlat(seqs, 0, f)
    BY DEF IsFlat
  <2> QED
    BY <2>1
<1>2. ASSUME NEW k \in Nat, NEW h, IsFlat(seqs, k, h)
      PROVE  \E f : IsFlat(seqs, k + 1, f)
  <2> DEFINE step(i) == IF i = 1 THEN seqs[i] ELSE h[i - 1] \o seqs[i]
             f == [i \in 1 .. k + 1 |-> step(i)]
  <2>1. \A i \in 1 .. k : h[i] = step(i)
    BY <1>2 DEF IsFlat
  <2>2. ASSUME NEW i \in 1 .. k + 1, i # 1 PROVE f[i - 1] = h[i - 1]
    <3>1. i - 1 \in 1 .. k /\ i - 1 \in 1 .. k + 1
      BY <2>2
    <3> HIDE DEF step
    <3> QED
      BY <2>1, <3>1
  <2>3. f = [i \in 1 .. k + 1 |-> IF i = 1 THEN seqs[i] ELSE f[i - 1] \o seqs[i]]
    <3>1. \A i \in 1 .. k + 1 : f[i] = IF i = 1 THEN seqs[i] ELSE f[i - 1] \o seqs[i]
      <4>1. \A i \in 1 .. k + 1 : f[i] = step(i)
        OBVIOUS
      <4> HIDE DEF f
      <4> QED
        BY <2>2, <4>1
    <3>2. f = [i \in 1 .. k + 1 |-> f[i]]
      OBVIOUS
    <3> HIDE DEF f
    <3> QED
      BY <3>1, <3>2
  <2> HIDE DEF f
  <2> QED
    BY <2>3 DEF IsFlat
<1>3. Bad = {}
  <2> SUFFICES ASSUME Bad # {} PROVE FALSE
    OBVIOUS
  <2>1. PICK k \in Bad : \A d \in Bad : k <= d
    <3>1. Bad \subseteq Nat
      OBVIOUS
    <3> HIDE DEF Bad
    <3> QED
      BY <3>1, LeastExists
  <2>2. k # 0 /\ k - 1 \in Nat /\ (k - 1) + 1 = k
    BY <1>1, <2>1
  <2>3. k - 1 \notin Bad
    BY <2>1, <2>2
  <2> QED
    BY <1>2, <2>1, <2>2, <2>3
<1> QED
  BY <1>3

\* Captures replayed one after another give what each adds to what was there.
LEMMA Replay ==
  ASSUME NEW m \in Nat, m # 0, NEW seqs, Len(seqs) = m, NEW T,
         IsSequence(T[0]),
         \A k \in 1 .. m : IsSequence(seqs[k]) /\ T[k] = T[k - 1] \o seqs[k]
  PROVE  T[0] \o FlattenSeq(seqs) = T[m]
<1> DEFINE f == CHOOSE f : IsFlat(seqs, m, f)
           Good(k) == IsSequence(f[k]) /\ T[0] \o f[k] = T[k]
           Bad == {k \in 1 .. m : ~Good(k)}
<1>1. FlattenSeq(seqs) = f[m]
  BY DEF FlattenSeq, IsFlat
<1>2. IsFlat(seqs, m, f)
  BY FlatExists
<1> HIDE DEF f
<1>3. \A k \in 1 .. m : f[k] = IF k = 1 THEN seqs[k] ELSE f[k - 1] \o seqs[k]
  BY <1>2 DEF IsFlat
<1>4. Good(1)
  <2>1. 1 \in 1 .. m
    OBVIOUS
  <2>2. f[1] = seqs[1]
    BY <1>3, <2>1
  <2> QED
    BY <2>1, <2>2
<1>5. ASSUME NEW k \in 2 .. m, Good(k - 1) PROVE Good(k)
  <2>1. k \in 1 .. m /\ k # 1
    OBVIOUS
  <2>2. f[k] = f[k - 1] \o seqs[k] /\ T[k] = T[k - 1] \o seqs[k] /\ IsSequence(seqs[k])
    BY <1>3, <2>1
  <2>3. (T[0] \o f[k - 1]) \o seqs[k] = T[0] \o (f[k - 1] \o seqs[k])
    <3> DEFINE x == T[0]
               y == f[k - 1]
               z == seqs[k]
    <3>1. IsSequence(x) /\ IsSequence(y) /\ IsSequence(z)
      BY <1>5, <2>2
    <3> HIDE DEF x, y, z
    <3>2. (x \o y) \o z = x \o (y \o z)
      BY <3>1, ConcatRegroups, SMTT(30)
    <3> QED
      BY <3>2 DEF x, y, z
  <2>4. IsSequence(f[k - 1] \o seqs[k])
    BY <1>5, <2>2, SeqFacts
  <2> QED
    BY <1>5, <2>2, <2>3, <2>4
<1> HIDE DEF Good
<1>6. Bad = {}
  <2> SUFFICES ASSUME Bad # {} PROVE FALSE
    OBVIOUS
  <2>1. PICK k \in Bad : \A d \in Bad : k <= d
    <3>1. 1 .. m \subseteq Nat
      OBVIOUS
    <3>2. Bad \subseteq Nat
      BY <3>1
    <3> HIDE DEF Bad
    <3> QED
      BY <3>2, LeastExists
  <2>2. k \in 2 .. m /\ k - 1 \in 1 .. m /\ ~(k <= k - 1)
    <3>1. k # 1
      BY <1>4
    <3> QED
      BY <3>1
  <2>3. Good(k - 1)
    BY <2>1, <2>2
  <2> QED
    BY <1>5, <2>1, <2>2, <2>3
<1>7. Good(m)
  BY <1>6
<1> QED
  BY <1>1, <1>7 DEF Good

(***************************************************************************)
(* The compiled function against the reference run                         *)
(***************************************************************************)
\* What is still read from statement k on.
LiveReads(b, k) ==
  b.final_reads \cup UNION {reads(b.stmts[i]) : i \in {j \in DOMAIN b.stmts : j >= k}}

\* The statements passed when no branch runs.
Passed == IF pc = NotCompiled THEN 0 ELSE pc - 1

\* Statement i after k effects, run by itself from where the reference run has it.
Alone(i, k) == After(body.stmts[i], i, Ref(body, i - 1).loc.val, Ref(body, i - 1).world, <<>>, k)

\* A branch has seen and printed what its statement has so far in the reference
\* run, and left the same in the cells it changes.
BranchOK(i) ==
  LET s == body.stmts[i]
      b == branches[i]
  IN /\ b.at \in 1 .. Len(Actual(s)) + 1
     /\ b.seen = Alone(i, b.at - 1).seen
     /\ b.out = Alone(i, b.at - 1).out
     /\ \A c \in Modified(s, i) : world[c] = Alone(i, b.at - 1).world[c]
     /\ b.ended => b.at = Len(Actual(s)) + 1
     /\ b.loc.val = IF b.ended THEN Locals(s, i, frame, b.seen).val ELSE frame.val

\* What ended branches have made and no slot takes over.
Dropped ==
  UNION {{<<i, n>> : n \in (body.stmts[i].let_introduced \cap Containers) \ Slots} :
           i \in {k \in DOMAIN branches : branches[k].ended}}

FrameOK ==
  /\ Ref(body, Passed).result = Running
  /\ \A n \in LiveReads(body, Passed + 1) : frame.val[n] = Ref(body, Passed).loc.val[n]
  /\ console = Ref(body, Passed).out

WorldOK ==
  /\ IsWorld(world, AllCells(body.stmts))
  /\ \A c \in AllCells(body.stmts) :
       (\A i \in DOMAIN branches : c \notin Modified(body.stmts[i], i)) =>
         world[c] = Ref(body, Passed).world[c]

SInv ==
  /\ SerialEquivalence
  /\ result = Running =>
       /\ FrameOK
       /\ WorldOK
       /\ branches # <<>> => pc \in DOMAIN branches
       /\ \A i \in DOMAIN branches : BranchOK(i)
       /\ DOMAIN freed \cup Buffers(frame, Names) = Made(body, Passed) \cup Dropped

\* An else block reads nothing an earlier statement binds or assigns that the
\* value of its let does not read too.
ElseSeen(b) ==
  \A i, k \in DOMAIN b.stmts :
    k < i => b.stmts[i].else_reads \cap defines(b.stmts[k]) \subseteq b.stmts[i].value_reads

\* What is known of a state beside SInv.
Known == HInv /\ Types /\ GroupsIndependent /\ ElseSeen(body)

\* What is known of the body and the program counter.
LEMMA KnownBody ==
  ASSUME Known
  PROVE  /\ body \in Bodies
         /\ Len(body.stmts) \in Nat /\ DOMAIN body.stmts = 1 .. Len(body.stmts)
         /\ pc \in Nat /\ pc <= Len(body.stmts) + 1
         /\ BodyChosen /\ PlanExact
<1>1. body \in Bodies /\ BodyChosen /\ PlanExact /\ pc \in Nat
  BY DEF Known, HInv, BodyChosen, OneGroup
<1> QED
  BY <1>1, BodyFacts DEF Known, Types

\* What leaving the function makes of a state.
Left(b, st) ==
  /\ Epilogue(b, st).world = st.world /\ Epilogue(b, st).out = st.out
  /\ BagToSet(Epilogue(b, st).freed) = DOMAIN st.freed \cup Buffers(st.loc, Names)
  /\ st.result # Running => Epilogue(b, st).result = st.result
  /\ st.result = Running =>
       Epilogue(b, st).result = <<"tail", [n \in b.final_reads |-> st.loc.val[n]]>>

\* The epilogue changes the result and the bag of freed buffers only.
LEMMA EpilogueIs ==
  ASSUME NEW b, NEW st, DOMAIN st = {"loc", "world", "out", "freed", "result"}
  PROVE  Left(b, st)
<1>1. Epilogue(b, st).freed = Free(st.freed, Buffers(st.loc, Names))
  BY DEF Epilogue
<1>2. BagToSet(Epilogue(b, st).freed) = DOMAIN st.freed \cup Buffers(st.loc, Names)
  BY <1>1, FreeDomain DEF BagToSet
<1> QED
  BY <1>2 DEF Epilogue, Left

\* SInv holds initially.
LEMMA InitSerial == Init => SInv
<1> SUFFICES ASSUME Init PROVE SInv
  OBVIOUS
<1>1. /\ body \in Bodies /\ result = Running /\ branches = <<>> /\ Passed = 0 /\ DOMAIN branches = {}
      /\ frame = EntryLocals /\ console = <<>> /\ freed = EmptyBag
      /\ world = [c \in AllCells(body.stmts) |-> <<>>]
  BY DEF Init, Passed
<1>2. /\ Ref(body, 0) = Start(body) /\ 0 \in 0 .. Len(body.stmts)
  BY <1>1, SourceOrder
<1>3. Ref(body, 0) = [loc |-> frame, world |-> world, out |-> console, freed |-> freed, result |-> Running]
  BY <1>1, <1>2 DEF Start
<1>4. FrameOK
  BY <1>1, <1>3 DEF FrameOK
<1>5. WorldOK
  BY <1>1, <1>3 DEF WorldOK, IsWorld
<1>6. DOMAIN freed \cup Buffers(frame, Names) = Made(body, Passed) \cup Dropped
  <2>1. HeapOK(Ref(body, 0), Made(body, 0))
    BY <1>1, <1>2, <1>3, RefHeap
  <2>2. Dropped = {}
    BY <1>1 DEF Dropped
  <2> QED
    BY <1>1, <1>3, <2>1, <2>2 DEF HeapOK
<1> QED
  BY <1>1, <1>4, <1>5, <1>6 DEF SInv, SerialEquivalence

\* No branch runs, and none has a buffer to give back.
LEMMA NoBranches ==
  ASSUME branches = <<>>
  PROVE  DOMAIN branches = {} /\ Dropped = {}
BY DEF Dropped

\* Planning keeps SInv.
LEMMA CompileSerial ==
  ASSUME Known, SInv, Compile
  PROVE  SInv'
<1>1. /\ pc = NotCompiled /\ pc' = 1
      /\ UNCHANGED <<body, frame, world, console, freed, result, branches>>
  BY DEF Compile
<1>2. Passed' = Passed
  BY <1>1 DEF Passed, NotCompiled
<1>3. branches = <<>>
  <2>1. DOMAIN branches = {}
    BY <1>1 DEF Known, HInv, OneGroup
  <2>2. ASSUME NEW g \in plan, DOMAIN branches = g.members PROVE FALSE
    <3>1. PICK p, q \in 1 .. Len(body.stmts) : p <= q /\ g.members = p .. q
      BY KnownBody, GroupShape
    <3>2. p \in p .. q
      BY <3>1, KnownBody
    <3> QED
      BY <2>1, <2>2, <3>1, <3>2
  <2> QED
    BY <2>2 DEF Known, HInv, OneGroup
<1>4. DOMAIN branches = {}
  BY <1>3
<1>5. SerialEquivalence'
  BY <1>1 DEF SInv, SerialEquivalence
<1>6. result = Running => FrameOK' /\ WorldOK'
  BY <1>1, <1>2 DEF SInv, FrameOK, WorldOK
<1>7. Dropped' = Dropped
  BY <1>1 DEF Dropped, Slots
<1> QED
  BY <1>1, <1>2, <1>3, <1>4, <1>5, <1>6, <1>7 DEF SInv

\* A statement in place does what it does in the reference run.
LEMMA SequentialSerial ==
  ASSUME Known, SInv, RunSequential
  PROVE  SInv'
<1> DEFINE s == body.stmts[pc]
           W == AllCells(body.stmts)
           r == Ref(body, pc - 1)
           R == Ref(body, pc)
           st0 == [loc |-> frame, world |-> world, out |-> console, freed |-> freed, result |-> result]
           st == Exec(body.stmts, pc, st0)
<1>1. /\ result = Running /\ branches = <<>> /\ pc # NotCompiled /\ pc <= Len(body.stmts)
      /\ body' = body /\ plan' = plan /\ branches' = branches /\ pc' = pc + 1
  BY DEF RunSequential, Idle
<1>2. /\ body \in Bodies /\ pc \in DOMAIN body.stmts /\ pc \in 1 .. Len(body.stmts)
      /\ pc \in Nat /\ pc - 1 \in 0 .. Len(body.stmts) /\ pc \in 0 .. Len(body.stmts)
      /\ Len(body.stmts) \in pc .. Len(body.stmts) /\ Len(body.stmts) \in 0 .. Len(body.stmts)
  BY <1>1, KnownBody DEF NotCompiled
<1>3. SummaryTrue(s) /\ ScopesApart(s) /\ CellsOf(s, pc) \subseteq W
  BY <1>2, BodyTrue
<1>4. /\ IsOrder(body, Source(body)) /\ Len(Source(body)) = Len(body.stmts) /\ Source(body)[pc] = pc
      /\ Sequential(body) = Epilogue(body, Ref(body, Len(body.stmts)))
  BY <1>2, SourceOrder
<1>5. StateOK(r, W) /\ StateOK(R, W) /\ StateOK(Ref(body, Len(body.stmts)), W)
  BY <1>2, <1>4, RefStates DEF Ref
<1>6. Passed = pc - 1 /\ Passed' = pc
  BY <1>1, <1>2 DEF Passed, NotCompiled
<1>7. FrameOK /\ WorldOK /\ DOMAIN branches = {} /\ Dropped = {}
      /\ DOMAIN freed \cup Buffers(frame, Names) = Made(body, pc - 1)
  BY <1>1, <1>6, NoBranches DEF SInv
<1>8. r.result = Running /\ console = r.out /\ \A n \in LiveReads(body, pc) : frame.val[n] = r.loc.val[n]
  <2>1. (pc - 1) + 1 = pc
    BY <1>2
  <2> QED
    BY <1>6, <1>7, <2>1 DEF FrameOK
<1>9. world = r.world
  BY <1>5, <1>6, <1>7 DEF WorldOK, StateOK, IsWorld
<1>10. R = Executed(s, pc, r)
  <2>1. RefStep(body, Source(body), pc)
    BY <1>2, <1>4, RefStates
  <2> QED
    BY <1>4, <1>8, <2>1 DEF RefStep, Ref
<1>11. StateOK(st0, W) /\ st0.world = r.world /\ st0.out = r.out /\ st0.loc = frame /\ st0.freed = freed
       /\ st0.result = Running
  BY <1>1, <1>5, <1>8, <1>9 DEF StateOK
<1> HIDE DEF st0, R
<1>12. st = Executed(s, pc, st0)
  BY <1>3, <1>11, ExecIs
<1>13. \A n \in reads(s) : st0.loc.val[n] = r.loc.val[n]
  BY <1>2, <1>8, <1>11 DEF LiveReads
<1> HIDE DEF r, st
<1>14. /\ st.world = R.world /\ st.out = R.out /\ st.result = R.result
       /\ \A n \in Names : n \in Changed(s) \/ frame.val[n] = r.loc.val[n] => st.loc.val[n] = R.loc.val[n]
  <2> HIDE DEF s, W
  <2>1. SameAfter(s, pc, st0, r)
    BY <1>3, <1>5, <1>11, <1>13, ExecutedAlike
  <2> QED
    BY <1>10, <1>11, <1>12, <2>1 DEF SameAfter
<1>15. StateOK(st, W)
  <2> HIDE DEF s, W
  <2> QED
    BY <1>3, <1>11, <1>12, ExecutedOK DEF Kept
<1>16. HeapOK(st, Made(body, pc)) /\ HeapOK(R, Made(body, pc))
  <2>1. HeapOK(st0, Made(body, pc - 1))
    <3>1. \A n \in Names : frame.buf[n] # NoBuffer => \E j : frame.buf[n] = <<j, n>>
      BY <1>1 DEF Known, HInv, Owned
    <3> QED
      BY <1>7, <1>11, <3>1 DEF HeapOK
  <2>2. HeapOK(r, Made(body, pc - 1))
    BY <1>2, <1>8, RefHeap DEF r
  <2>3. /\ \A n \in s.let_introduced : \A j : <<j, n>> \notin Made(body, pc - 1)
        /\ Made(body, pc) = Made(body, pc - 1) \cup {<<pc, n>> : n \in defines(s) \cap Containers}
    BY <1>2, MadeNew
  <2> DEFINE M == Made(body, pc - 1)
  <2> HIDE DEF s, M
  <2>4. HeapOK(Executed(s, pc, st0), M \cup {<<pc, n>> : n \in defines(s) \cap Containers})
    BY <1>3, <2>1, <2>3, ExecutedHeap DEF M
  <2>5. HeapOK(Executed(s, pc, r), M \cup {<<pc, n>> : n \in defines(s) \cap Containers})
    BY <1>3, <2>2, <2>3, ExecutedHeap DEF M
  <2> QED
    BY <1>10, <1>12, <2>3, <2>4, <2>5 DEF M
<1>17. frame' = st.loc /\ world' = st.world /\ console' = st.out
  BY DEF RunSequential, st, st0
<1>18. /\ st.result = Running => freed' = st.freed /\ result' = Running
       /\ st.result # Running => freed' = Epilogue(body, st).freed /\ result' = st.result
  <2>1. LET end == IF st.result = Running THEN st ELSE Epilogue(body, st)
        IN freed' = end.freed /\ result' = end.result
    BY DEF RunSequential, st, st0
  <2>2. st.result # Running => Epilogue(body, st).result = st.result
    BY <1>15, EpilogueIs DEF StateOK, Left
  <2> QED
    BY <2>1, <2>2
<1>19. CASE st.result = Running
  <2>1. DOMAIN branches' = {} /\ Dropped' = {}
    BY <1>1 DEF Dropped
  <2>2. FrameOK'
    <3>1. ASSUME NEW n \in LiveReads(body, pc + 1) PROVE st.loc.val[n] = R.loc.val[n]
      <4>1. n \in Names /\ n \in LiveReads(body, pc)
        BY <1>2, KnownBody, ScopesAssumption DEF LiveReads, ScopesApart
      <4> QED
        BY <1>8, <1>14, <4>1
    <3> QED
      BY <1>1, <1>6, <1>14, <1>17, <1>19, <3>1 DEF FrameOK, R
  <2>3. WorldOK'
    BY <1>1, <1>6, <1>14, <1>15, <1>17 DEF WorldOK, StateOK, R
  <2>4. (DOMAIN freed \cup Buffers(frame, Names))' = Made(body, pc)
    BY <1>16, <1>17, <1>18, <1>19 DEF HeapOK, Buffers
  <2> QED
    BY <1>1, <1>6, <1>18, <1>19, <2>1, <2>2, <2>3, <2>4 DEF SInv, SerialEquivalence
<1>20. CASE st.result # Running
  <2>1. Ref(body, Len(body.stmts)) = R
    BY <1>2, <1>4, <1>14, <1>20, ReturnedStays DEF Ref, R
  <2>2. BagToSet(freed') = Made(body, pc)
    <3>1. Left(body, st)
      BY <1>15, EpilogueIs DEF StateOK
    <3> QED
      BY <1>16, <1>18, <1>20, <3>1 DEF HeapOK, Left
  <2>3. /\ Sequential(body).world = R.world /\ Sequential(body).out = R.out
        /\ Sequential(body).result = R.result /\ BagToSet(Sequential(body).freed) = Made(body, pc)
    <3>1. Left(body, R)
      BY <1>5, EpilogueIs DEF StateOK
    <3> QED
      BY <1>4, <1>14, <1>16, <1>20, <2>1, <3>1 DEF HeapOK, Left
  <2>4. SerialEquivalence'
    BY <1>1, <1>14, <1>17, <1>18, <1>20, <2>2, <2>3 DEF SerialEquivalence
  <2> QED
    BY <1>18, <1>20, <2>4 DEF SInv
<1> QED
  BY <1>19, <1>20

\* The group that runs: statements pc .. q, as the reference run has them.
GroupRunning(q) ==
  /\ result = Running /\ Passed = pc - 1
  /\ pc \in 1 .. Len(body.stmts) /\ q \in 1 .. Len(body.stmts) /\ pc <= q
  /\ DOMAIN branches = pc .. q
  /\ \E g \in plan : g.members = pc .. q
  /\ Stretch(body, Source(body), pc - 1, q)
  /\ \A i \in pc .. q : MemberRun(pc, q, i)

\* The group whose branches run.
LEMMA GroupNow ==
  ASSUME Known, SInv, branches # <<>>
  PROVE  \E q : GroupRunning(q)
<1>1. PICK g \in plan : DOMAIN branches = g.members
  BY DEF Known, HInv, OneGroup
<1>2. PICK p, q \in 1 .. Len(body.stmts) : p <= q /\ g.members = p .. q
  BY KnownBody, GroupShape
<1>3. p \in Nat /\ q \in Nat /\ p \in p .. q
  BY <1>2, KnownBody
<1>4. result = Running /\ pc # NotCompiled /\ p >= pc
  BY <1>1, <1>2, <1>3 DEF Known, HInv, OneGroup
<1>5. pc \in p .. q
  BY <1>1, <1>2, <1>4 DEF SInv
<1>6. pc = p
  BY <1>3, <1>4, <1>5
<1>7. Passed = pc - 1
  BY <1>4 DEF Passed
<1>8. Ref(body, p - 1).result = Running
  BY <1>4, <1>6, <1>7 DEF SInv, FrameOK
<1>9. Stretch(body, Source(body), p - 1, q) /\ \A i \in p .. q : MemberRun(p, q, i)
  BY <1>2, <1>8, KnownBody, GroupRuns DEF Known
<1> QED
  BY <1>1, <1>2, <1>4, <1>6, <1>7, <1>9 DEF GroupRunning

\* A group is dispatched: every branch is at the beginning of its statement.
LEMMA ForkSerial ==
  ASSUME Known, SInv, Fork
  PROVE  SInv'
<1>1. /\ result = Running /\ branches = <<>> /\ pc # NotCompiled
      /\ UNCHANGED <<body, plan, pc, frame, world, console, freed, result>>
  BY DEF Fork, Idle
<1>2. PICK g \in GroupAt(pc) :
        branches' = [i \in g.members |-> [loc |-> frame, at |-> 1, seen |-> <<>>, out |-> <<>>, ended |-> FALSE]]
  BY DEF Fork
<1>3. g \in plan /\ pc = Min(g.members)
  BY DEF GroupAt
<1>4. PICK p, q \in 1 .. Len(body.stmts) : p <= q /\ g.members = p .. q /\ Min(g.members) = p
  BY <1>3, KnownBody, GroupShape
<1>5. p \in Nat /\ q \in Nat /\ p \in p .. q /\ pc = p
  BY <1>3, <1>4, KnownBody
<1>6. Passed = pc - 1 /\ Passed' = Passed /\ DOMAIN branches = {}
  BY <1>1 DEF Passed
<1>7. FrameOK /\ WorldOK /\ Dropped = {} /\ DOMAIN freed \cup Buffers(frame, Names) = Made(body, Passed)
  BY <1>1, NoBranches DEF SInv
<1>8. \A c \in AllCells(body.stmts) : world[c] = Ref(body, pc - 1).world[c]
  BY <1>6, <1>7 DEF WorldOK
<1>9. Ref(body, p - 1).result = Running
  BY <1>5, <1>6, <1>7 DEF FrameOK
<1>10. \A i \in p .. q : MemberRun(p, q, i)
  BY <1>3, <1>4, <1>9, KnownBody, GroupRuns DEF Known
<1>11. FrameOK' /\ WorldOK'
  BY <1>1, <1>6, <1>7, <1>8 DEF FrameOK, WorldOK
<1>12. ASSUME NEW i \in DOMAIN branches' PROVE BranchOK(i)'
  <2> DEFINE s == body.stmts[i]
  <2>1. i \in p .. q /\ branches'[i] = [loc |-> frame, at |-> 1, seen |-> <<>>, out |-> <<>>, ended |-> FALSE]
    BY <1>2, <1>4
  <2>2. i \in DOMAIN body.stmts
    BY <1>5, <2>1, KnownBody
  <2>3. SummaryTrue(s) /\ CellsOf(s, i) \subseteq AllCells(body.stmts)
    BY <2>2, KnownBody, BodyTrue
  <2>4. Alone(i, 0) = Begin(Ref(body, i - 1).world, <<>>)
    BY <2>3, AfterSteps DEF Alone
  <2>5. Modified(s, i) \subseteq CellsOf(s, i)
    BY DEF Modified, CellsOf
  <2>6. \A c \in Modified(s, i) : world[c] = Ref(body, i - 1).world[c]
    BY <1>5, <1>8, <1>10, <2>1, <2>3, <2>5 DEF MemberRun
  <2>7. /\ branches'[i].at = 1 /\ branches'[i].seen = <<>> /\ branches'[i].out = <<>>
        /\ branches'[i].ended = FALSE /\ branches'[i].loc = frame
    BY <2>1
  <2>8. 1 \in 1 .. Len(Actual(s)) + 1 /\ 1 - 1 = 0
    BY <2>3, ActualIsSeq
  <2>9. /\ Alone(i, 0).seen = <<>> /\ Alone(i, 0).out = <<>>
        /\ Alone(i, 0).world = Ref(body, i - 1).world
    BY <2>4 DEF Begin
  <2>10. \A k : Alone(i, k)' = Alone(i, k)
    BY <1>1 DEF Alone
  <2> QED
    BY <1>1, <2>6, <2>7, <2>8, <2>9, <2>10 DEF BranchOK
<1>13. Dropped' = {}
  BY <1>2 DEF Dropped
<1>14. pc' \in DOMAIN branches'
  BY <1>1, <1>2, <1>4, <1>5
<1> QED
  BY <1>1, <1>6, <1>7, <1>11, <1>12, <1>13, <1>14 DEF SInv, SerialEquivalence

\* What a branch is about to read is what its statement reads in the reference run.
LEMMA BranchSees ==
  ASSUME Known, SInv, NEW i \in DOMAIN branches
  PROVE  /\ \A n \in reads(body.stmts[i]) : frame.val[n] = Ref(body, i - 1).loc.val[n]
         /\ \A c \in CellsOf(body.stmts[i], i) : world[c] = Alone(i, branches[i].at - 1).world[c]
         /\ \A j \in DOMAIN branches :
              j # i => Modified(body.stmts[j], j) \cap CellsOf(body.stmts[i], i) = {}
         /\ i \in DOMAIN body.stmts /\ BranchOK(i) /\ result = Running
<1> DEFINE s == body.stmts[i]
           W == AllCells(body.stmts)
<1>1. branches # <<>>
  OBVIOUS
<1>2. PICK q : GroupRunning(q)
  BY <1>1, GroupNow
<1>3. /\ i \in pc .. q /\ MemberRun(pc, q, i) /\ pc \in Nat /\ i >= pc /\ i \in Nat
      /\ i \in DOMAIN body.stmts /\ i - 1 \in 0 .. Len(body.stmts)
  BY <1>2, KnownBody DEF GroupRunning
<1>4. SummaryTrue(s) /\ ScopesApart(s) /\ CellsOf(s, i) \subseteq W
  BY <1>3, KnownBody, BodyTrue
<1>5. FrameOK /\ WorldOK /\ BranchOK(i) /\ Passed = pc - 1
  BY <1>2 DEF SInv, GroupRunning
<1>6. ASSUME NEW n \in reads(s) PROVE frame.val[n] = Ref(body, i - 1).loc.val[n]
  <2>1. n \in LiveReads(body, Passed + 1)
    <3>1. i >= Passed + 1
      BY <1>3, <1>5
    <3> QED
      BY <1>3, <3>1 DEF LiveReads
  <2> QED
    BY <1>3, <1>5, <2>1 DEF FrameOK, MemberRun
<1>7. ASSUME NEW j \in DOMAIN branches, j # i PROVE Modified(body.stmts[j], j) \cap CellsOf(s, i) = {}
  BY <1>2, <1>3, <1>7 DEF GroupRunning, Known, GroupsIndependent
<1>8. ASSUME NEW c \in CellsOf(s, i) PROVE world[c] = Alone(i, branches[i].at - 1).world[c]
  <2>1. CASE c \in Modified(s, i)
    BY <1>5, <2>1 DEF BranchOK
  <2>2. CASE c \notin Modified(s, i)
    <3> DEFINE k == branches[i].at - 1
               r == Ref(body, i - 1)
    <3>1. k \in 0 .. Len(Actual(s))
      BY <1>4, <1>5, ActualIsSeq DEF BranchOK
    <3>2. StateOK(r, W)
      BY <1>3, KnownBody, SourceOrder, RefStates DEF Ref
    <3>3. IsWorld(r.world, W) /\ DOMAIN r.world = W /\ IsSequence(<<>>)
      BY <3>2 DEF StateOK, IsWorld, IsSequence
    <3> HIDE DEF k, r
    <3>4. RunAlike(s, i, r.loc.val, r.world, <<>>, r.loc.val, r.world, k)
      BY <1>4, <3>1, <3>3, Locality
    <3>5. Alone(i, k).world[c] = r.world[c]
      BY <1>4, <2>2, <3>3, <3>4 DEF RunAlike, Alone, r
    <3>6. \A j \in DOMAIN branches : c \notin Modified(body.stmts[j], j)
      BY <1>7, <2>2
    <3>7. world[c] = Ref(body, pc - 1).world[c]
      BY <1>4, <1>5, <3>6 DEF WorldOK
    <3> QED
      BY <1>3, <3>5, <3>7 DEF MemberRun, k, r
  <2> QED
    BY <2>1, <2>2
<1> QED
  BY <1>2, <1>3, <1>5, <1>6, <1>7, <1>8 DEF GroupRunning

\* A branch performs an effect: the same as its statement in the reference run,
\* and out of reach of the other branches.
LEMMA EffectSerial ==
  ASSUME Known, SInv, NEW i \in DOMAIN branches, BranchEffect(i)
  PROVE  SInv'
<1> DEFINE s == body.stmts[i]
           b == branches[i]
           W == AllCells(body.stmts)
           r == Ref(body, i - 1)
           x == Actual(s)[b.at]
           st == [world |-> world, out |-> b.out, seen |-> b.seen]
           after == Apply(s, i, b.loc.val, x, st)
           new == [b EXCEPT !.at = b.at + 1, !.out = after.out, !.seen = after.seen]
           A == Alone(i, b.at - 1)
           B == Alone(i, b.at)
<1>1. /\ b.at <= Len(Actual(s)) /\ world' = after.world
      /\ branches' = [branches EXCEPT ![i] = new]
      /\ UNCHANGED <<body, plan, pc, frame, console, freed, result, inline>>
  BY Zenon DEF BranchEffect
<1>2. /\ \A n \in reads(s) : frame.val[n] = r.loc.val[n]
      /\ \A c \in CellsOf(s, i) : world[c] = A.world[c]
      /\ \A j \in DOMAIN branches : j # i => Modified(body.stmts[j], j) \cap CellsOf(s, i) = {}
      /\ i \in DOMAIN body.stmts /\ BranchOK(i) /\ result = Running
  BY BranchSees
<1>3. SummaryTrue(s) /\ CellsOf(s, i) \subseteq W
  BY <1>2, KnownBody, BodyTrue
<1>4. /\ b.at \in 1 .. Len(Actual(s)) /\ Len(Actual(s)) \in Nat /\ DOMAIN Actual(s) = 1 .. Len(Actual(s))
      /\ ~b.ended /\ b.loc.val = frame.val /\ b.seen = A.seen /\ b.out = A.out
  BY <1>1, <1>2, <1>3, ActualIsSeq DEF BranchOK
<1>5. IsWorld(world, W) /\ DOMAIN world = W
  BY <1>2 DEF SInv, WorldOK, IsWorld
<1>6. DOMAIN r.world = W
  <2>1. i - 1 \in 0 .. Len(body.stmts)
    BY <1>2, KnownBody
  <2>2. StateOK(r, W)
    BY <2>1, KnownBody, SourceOrder, RefStates DEF Ref
  <2> QED
    BY <2>2 DEF StateOK, IsWorld
<1>7. EffectState(A, W) /\ B = Apply(s, i, r.loc.val, x, A)
  <2>1. OneMore(s, i, r.loc.val, r.world, <<>>, b.at)
    <3> DEFINE u == r.loc.val
               w == r.world
    <3> HIDE DEF s, u, w
    <3> QED
      BY <1>3, <1>4, NextEffect DEF u, w
  <2> QED
    BY <1>6, <2>1 DEF OneMore, Alone
<1>8. EffectState(st, W) /\ st.world = world /\ st.out = A.out /\ st.seen = A.seen
  BY <1>4, <1>5 DEF EffectState
<1>9. /\ Cells(s, i, x) \subseteq CellsOf(s, i)
      /\ x.verb # "reads" => Cells(s, i, x) \subseteq Modified(s, i)
      /\ Modified(s, i) \subseteq CellsOf(s, i)
  BY <1>4, CellsOfEffect
<1> HIDE DEF st, A, B, r, x
<1>10. StepAlike(s, i, x, b.loc.val, r.loc.val, W, st, A)
  <2>1. Cells(s, i, x) \subseteq W /\ \A c \in Cells(s, i, x) : st.world[c] = A.world[c]
    BY <1>2, <1>3, <1>8, <1>9
  <2>2. \A n \in reads(s) : b.loc.val[n] = r.loc.val[n]
    BY <1>2, <1>4
  <2> DEFINE u == b.loc.val
             v == r.loc.val
  <2> HIDE DEF s, W, u, v
  <2> QED
    BY <1>7, <1>8, <2>1, <2>2, ApplyLocal DEF u, v
<1>11. IsWorld(after.world, W)
  <2> HIDE DEF s, W
  <2> QED
    BY <1>5, <1>8, ApplyIsWorld
<1> HIDE DEF after
<1>12. /\ after.seen = B.seen /\ after.out = B.out
       /\ \A c \in CellsOf(s, i) : after.world[c] = B.world[c]
       /\ \A c \in W \ Modified(s, i) : after.world[c] = world[c]
  <2>1. /\ after.seen = B.seen
        /\ \A c \in W : st.world[c] = A.world[c] => after.world[c] = B.world[c]
        /\ \A c \in W : c \notin Cells(s, i, x) \/ x.verb = "reads" => after.world[c] = st.world[c]
        /\ \/ after.out = st.out /\ B.out = A.out
           \/ \E y : after.out = Append(st.out, y) /\ B.out = Append(A.out, y)
    BY <1>7, <1>10 DEF StepAlike, after
  <2> QED
    BY <1>2, <1>3, <1>8, <1>9, <2>1
<1>13. /\ DOMAIN branches' = DOMAIN branches /\ branches'[i] = new
       /\ \A j \in DOMAIN branches : j # i => branches'[j] = branches[j]
  BY <1>1
<1>14. /\ new.at = b.at + 1 /\ new.out = after.out /\ new.seen = after.seen
       /\ new.loc = b.loc /\ new.ended = b.ended
  <2>1. DOMAIN b = {"loc", "at", "seen", "out", "ended"}
    BY DEF Known, HInv, OneGroup
  <2> QED
    BY <2>1
<1> HIDE DEF new
<1>15. \A j, k : Alone(j, k)' = Alone(j, k)
  BY <1>1 DEF Alone
<1>16. BranchOK(i)'
  <2>1. b.at + 1 \in 1 .. Len(Actual(s)) + 1 /\ (b.at + 1) - 1 = b.at
    BY <1>4
  <2>2. \A c \in Modified(s, i) : world'[c] = B.world[c]
    BY <1>1, <1>9, <1>12
  <2> QED
    BY <1>1, <1>4, <1>12, <1>13, <1>14, <1>15, <2>1, <2>2 DEF BranchOK, B
<1>17. ASSUME NEW j \in DOMAIN branches, j # i PROVE BranchOK(j)'
  <2>1. j \in DOMAIN body.stmts /\ BranchOK(j)
    BY BranchSees
  <2>2. ASSUME NEW c \in Modified(body.stmts[j], j) PROVE world'[c] = world[c]
    <3>1. c \in W
      BY <2>1, KnownBody, BodyTrue, CellsOfEffect DEF Modified, CellsOf
    <3>2. c \notin Modified(s, i)
      BY <1>2, <1>9, <1>17
    <3> QED
      BY <1>1, <1>12, <3>1, <3>2
  <2> QED
    BY <1>1, <1>13, <1>15, <1>17, <2>1, <2>2 DEF BranchOK
<1>18. Passed' = Passed /\ Dropped' = Dropped
  <2>1. \A j \in DOMAIN branches : branches'[j].ended = branches[j].ended
    BY <1>13, <1>14
  <2> QED
    BY <1>1, <1>13, <2>1 DEF Passed, Dropped, Slots
<1>19. FrameOK'
  BY <1>1, <1>2, <1>18 DEF SInv, FrameOK
<1>20. WorldOK'
  BY <1>1, <1>2, <1>11, <1>12, <1>13, <1>18 DEF SInv, WorldOK
<1>21. (branches # <<>> => pc \in DOMAIN branches)'
  BY <1>1, <1>2, <1>13 DEF SInv
<1> QED
  BY <1>1, <1>2, <1>13, <1>16, <1>17, <1>18, <1>19, <1>20, <1>21 DEF SInv, SerialEquivalence

\* A branch ends: it has done all its statement does, and frees what no slot takes.
LEMMA EndSerial ==
  ASSUME Known, SInv, NEW i \in DOMAIN branches, BranchEnd(i)
  PROVE  SInv'
<1> DEFINE s == body.stmts[i]
           b == branches[i]
           after == Locals(s, i, b.loc, b.seen)
           h == CHOOSE g \in plan : i \in g.members
           own == BranchCleanup(s, after, h.slots)
           new == [b EXCEPT !.loc = after, !.ended = TRUE]
           left == {<<i, n>> : n \in (s.let_introduced \cap Containers) \ Slots}
<1>1. /\ b.at > Len(Actual(s)) /\ ~b.ended
      /\ branches' = [branches EXCEPT ![i] = new]
      /\ freed' = Free(Free(freed, Released(s, b.loc)), own)
      /\ UNCHANGED <<body, plan, pc, frame, world, console, result, inline>>
  BY Zenon DEF BranchEnd
<1>2. i \in DOMAIN body.stmts /\ BranchOK(i) /\ result = Running
  BY BranchSees
<1>3. PICK g \in plan : DOMAIN branches = g.members
  BY DEF Known, HInv, OneGroup
<1>4. h \in plan /\ i \in h.members
  BY <1>3
<1>5. h.slots = Slots
  <2>1. h.slots = g.slots
    BY <1>3, <1>4, KnownBody, GroupOf
  <2> QED
    BY <1>3, <2>1, KnownBody DEF PlanExact, Slots
<1> HIDE DEF h
<1>6. /\ s.consuming_reads = {} /\ s.assigned \cap Containers = {} /\ ScopesApart(s) /\ SummaryTrue(s)
  BY <1>2, <1>3, KnownBody, MemberFacts, BodyTrue
<1>7. Released(s, b.loc) = {}
  BY <1>6 DEF Released, Buffers
<1>8. after.buf = NewBuf(s, i, frame.buf)
  BY <1>1 DEF Known, HInv, Copies, Locals, NewBuf
<1>9. after.val = Locals(s, i, frame, b.seen).val
  BY <1>1, <1>2 DEF BranchOK, Locals
<1> HIDE DEF after
<1>10. own = left
  <2>1. own = {after.buf[n] : n \in s.let_introduced \ Slots} \ {NoBuffer}
    BY <1>5 DEF BranchCleanup, Buffers
  <2>2. ASSUME NEW n \in s.let_introduced
        PROVE  /\ n \in Containers => after.buf[n] = <<i, n>>
               /\ n \notin Containers => after.buf[n] = NoBuffer
    <3>1. n \in Names /\ n \in defines(s)
      BY <1>6 DEF ScopesApart, defines
    <3>2. frame.buf[n] # NoBuffer => n \in Containers
      BY <1>2, <3>1 DEF Known, HInv, Owned
    <3> QED
      BY <1>6, <1>8, <3>1, <3>2 DEF NewBuf
  <2>3. \A n : <<i, n>> # NoBuffer
    BY DEF NoBuffer
  <2> HIDE DEF own
  <2> QED
    BY <2>1, <2>2, <2>3
<1> HIDE DEF own, left
<1>11. DOMAIN freed' = DOMAIN freed \cup left
  <2>1. freed' = Free(Free(freed, {}), left)
    BY <1>1, <1>7, <1>10
  <2>2. DOMAIN Free(freed, {}) = DOMAIN freed \cup {}
    BY FreeDomain
  <2>3. DOMAIN Free(Free(freed, {}), left) = DOMAIN Free(freed, {}) \cup left
    BY FreeDomain
  <2> QED
    BY <2>1, <2>2, <2>3
<1>12. /\ DOMAIN branches' = DOMAIN branches /\ branches'[i] = new
       /\ \A j \in DOMAIN branches : j # i => branches'[j] = branches[j]
  BY <1>1
<1>13. /\ new.at = b.at /\ new.out = b.out /\ new.seen = b.seen /\ new.loc = after /\ new.ended = TRUE
  <2>1. DOMAIN b = {"loc", "at", "seen", "out", "ended"}
    BY DEF Known, HInv, OneGroup
  <2> QED
    BY <2>1
<1> HIDE DEF new
<1>14. \A j, k : Alone(j, k)' = Alone(j, k)
  BY <1>1 DEF Alone
<1>15. BranchOK(i)'
  <2>1. b.at = Len(Actual(s)) + 1
    BY <1>1, <1>2, <1>6, ActualIsSeq DEF BranchOK
  <2> QED
    BY <1>1, <1>2, <1>9, <1>12, <1>13, <1>14, <2>1 DEF BranchOK
<1>16. ASSUME NEW j \in DOMAIN branches, j # i PROVE BranchOK(j)'
  <2>1. BranchOK(j)
    BY BranchSees
  <2> QED
    BY <1>1, <1>12, <1>14, <1>16, <2>1 DEF BranchOK
<1>17. Dropped' = Dropped \cup left
  <2>1. {k \in DOMAIN branches : branches[k].ended}' = {k \in DOMAIN branches : branches[k].ended} \cup {i}
    BY <1>12, <1>13
  <2>2. Slots' = Slots /\ body' = body
    BY <1>1, <1>12 DEF Slots
  <2>3. Dropped' = UNION {{<<k, n>> : n \in (body.stmts[k].let_introduced \cap Containers) \ Slots} :
                            k \in {k \in DOMAIN branches : branches[k].ended} \cup {i}}
    BY <2>1, <2>2 DEF Dropped
  <2> QED
    BY <2>3 DEF Dropped, left
<1>18. Passed' = Passed
  BY <1>1 DEF Passed
<1>19. FrameOK'
  BY <1>1, <1>2, <1>18 DEF SInv, FrameOK
<1>20. WorldOK'
  BY <1>1, <1>2, <1>12, <1>18 DEF SInv, WorldOK
<1>21. (DOMAIN freed \cup Buffers(frame, Names))' = Made(body, Passed) \cup Dropped \cup left
  BY <1>1, <1>2, <1>11 DEF SInv, Buffers
<1>22. (branches # <<>> => pc \in DOMAIN branches)'
  BY <1>1, <1>2, <1>12 DEF SInv
<1> QED
  BY <1>1, <1>2, <1>12, <1>15, <1>16, <1>17, <1>18, <1>19, <1>20, <1>21, <1>22 DEF SInv, SerialEquivalence

\* The tail expression and the cleanup, as in the reference run.
LEMMA ReturnSerial ==
  ASSUME Known, SInv, Return
  PROVE  SInv'
<1> DEFINE m == Len(body.stmts)
           R == Ref(body, m)
           st == [loc |-> frame, world |-> world, out |-> console, freed |-> freed, result |-> result]
<1>1. /\ result = Running /\ branches = <<>> /\ pc # NotCompiled /\ pc > m
      /\ result' = Epilogue(body, st).result /\ freed' = Epilogue(body, st).freed
      /\ UNCHANGED <<body, plan, pc, frame, world, console, branches, inline>>
  BY DEF Return, Idle
<1>2. m \in Nat /\ pc = m + 1 /\ Passed = m /\ m \in 0 .. m /\ body \in Bodies
  BY <1>1, KnownBody DEF Passed
<1>3. /\ IsOrder(body, Source(body)) /\ Len(Source(body)) = m /\ Sequential(body) = Epilogue(body, R)
  BY <1>2, SourceOrder
<1>4. StateOK(R, AllCells(body.stmts))
  BY <1>2, <1>3, RefStates DEF Ref
<1>5. FrameOK /\ WorldOK /\ DOMAIN branches = {} /\ DOMAIN freed \cup Buffers(frame, Names) = Made(body, m)
  BY <1>1, <1>2, NoBranches DEF SInv
<1>6. R.result = Running /\ console = R.out /\ \A n \in body.final_reads : frame.val[n] = R.loc.val[n]
  BY <1>2, <1>5 DEF FrameOK, LiveReads
<1>7. world = R.world
  BY <1>2, <1>4, <1>5 DEF WorldOK, StateOK, IsWorld
<1>8. HeapOK(R, Made(body, m))
  BY <1>2, <1>6, RefHeap
<1> HIDE DEF R
<1>9. Left(body, R)
  BY <1>4, EpilogueIs DEF StateOK
<1>10. Left(body, st) /\ st.loc = frame /\ st.freed = freed /\ st.result = Running
  <2>1. DOMAIN st = {"loc", "world", "out", "freed", "result"}
    OBVIOUS
  <2>2. st.loc = frame /\ st.freed = freed /\ st.result = Running
    BY <1>1
  <2> HIDE DEF st
  <2> QED
    BY <2>1, <2>2, EpilogueIs
<1> HIDE DEF st
<1>11. [n \in body.final_reads |-> frame.val[n]] = [n \in body.final_reads |-> R.loc.val[n]]
  BY <1>6
<1>12. result' = Sequential(body).result /\ result' # Running
  <2>1. result' = <<"tail", [n \in body.final_reads |-> frame.val[n]]>>
    BY <1>1, <1>10 DEF Left
  <2>2. Sequential(body).result = <<"tail", [n \in body.final_reads |-> R.loc.val[n]]>>
    BY <1>3, <1>6, <1>9 DEF Left
  <2> QED
    BY <1>11, <2>1, <2>2 DEF Running
<1>13. BagToSet(freed') = BagToSet(Sequential(body).freed)
  BY <1>1, <1>3, <1>5, <1>8, <1>9, <1>10 DEF Left, HeapOK
<1>14. world' = Sequential(body).world /\ console' = Sequential(body).out
  BY <1>1, <1>3, <1>6, <1>7, <1>9 DEF Left
<1> QED
  BY <1>1, <1>12, <1>13, <1>14 DEF SInv, SerialEquivalence

\* A branch that has ended leaves what its statement leaves in the reference run.
Finished(i) ==
  /\ \A c \in Modified(body.stmts[i], i) : world[c] = Ref(body, i).world[c]
  /\ \A n \in defines(body.stmts[i]) : branches[i].loc.val[n] = Ref(body, i).loc.val[n]
  /\ Ref(body, i).out = Ref(body, i - 1).out \o branches[i].out
  /\ IsSequence(branches[i].out)

\* A branch that has ended has done what its statement does in the reference run.
LEMMA MemberDone ==
  ASSUME Known, SInv, NEW i \in DOMAIN branches, branches[i].ended
  PROVE  Finished(i)
<1> DEFINE s == body.stmts[i]
           b == branches[i]
           W == AllCells(body.stmts)
           r == Ref(body, i - 1)
           m == Len(Actual(s))
           e == Whole(s, i, r.loc.val, r.world, r.out)
<1>1. /\ \A n \in reads(s) : frame.val[n] = r.loc.val[n]
      /\ i \in DOMAIN body.stmts /\ BranchOK(i) /\ result = Running
  BY BranchSees
<1>2. SummaryTrue(s) /\ ScopesApart(s) /\ CellsOf(s, i) \subseteq W
  BY <1>1, KnownBody, BodyTrue
<1>3. m \in Nat /\ m \in 0 .. m /\ (m + 1) - 1 = m
  BY <1>2, ActualIsSeq
<1>4. /\ b.seen = Alone(i, m).seen /\ b.out = Alone(i, m).out
      /\ \A c \in Modified(s, i) : world[c] = Alone(i, m).world[c]
      /\ b.loc.val = Locals(s, i, frame, b.seen).val
  BY <1>1, <1>3 DEF BranchOK
<1>5. Ref(body, i) = Executed(s, i, r)
  <2>1. branches # <<>>
    OBVIOUS
  <2>2. PICK q : GroupRunning(q)
    BY <2>1, GroupNow
  <2> QED
    BY <2>2 DEF GroupRunning, MemberRun
<1>6. StateOK(r, W)
  <2>1. i - 1 \in 0 .. Len(body.stmts)
    BY <1>1, KnownBody
  <2> QED
    BY <2>1, KnownBody, SourceOrder, RefStates DEF Ref
<1>7. IsWorld(r.world, W) /\ IsSequence(r.out) /\ DOMAIN r.world = W
  BY <1>6 DEF StateOK, IsWorld
<1>8. RunAlike(s, i, r.loc.val, r.world, r.out, r.loc.val, r.world, m)
  <2> DEFINE v == r.loc.val
             w == r.world
             o == r.out
  <2> HIDE DEF s, r, m, W, v, w, o
  <2>1. CellsOf(s, i) \subseteq DOMAIN w /\ IsSequence(o)
    BY <1>2, <1>7 DEF w, o
  <2>2. m \in 0 .. Len(Actual(s))
    BY <1>3 DEF m
  <2>3. RunAlike(s, i, v, w, o, v, w, m)
    BY <1>2, <2>1, <2>2, Locality
  <2> QED
    BY <2>3 DEF v, w, o
<1>9. /\ e.seen = b.seen /\ e.out = r.out \o b.out /\ IsSequence(b.out)
      /\ \A c \in CellsOf(s, i) : e.world[c] = Alone(i, m).world[c]
  BY <1>4, <1>8 DEF RunAlike, Whole, Alone
<1>10. /\ Ref(body, i).world = e.world /\ Ref(body, i).out = e.out
       /\ Ref(body, i).loc = Locals(s, i, r.loc, e.seen)
  BY <1>5 DEF Executed
<1> HIDE DEF e, r
<1>11. Term(s, i, frame.val, b.seen) = Term(s, i, r.loc.val, e.seen)
  <2>1. [n \in reads(s) |-> frame.val[n]] = [n \in reads(s) |-> r.loc.val[n]]
    BY <1>1
  <2> QED
    BY <1>9, <2>1 DEF Term
<1>12. ASSUME NEW n \in defines(s) PROVE b.loc.val[n] = Ref(body, i).loc.val[n]
  <2>1. n \in Names
    BY <1>2 DEF ScopesApart, defines
  <2>2. Locals(s, i, frame, b.seen).val[n] = Term(s, i, frame.val, b.seen)
    BY <2>1 DEF Locals
  <2>3. Locals(s, i, r.loc, e.seen).val[n] = Term(s, i, r.loc.val, e.seen)
    BY <2>1 DEF Locals
  <2> QED
    BY <1>4, <1>10, <1>11, <2>2, <2>3
<1>13. Modified(s, i) \subseteq CellsOf(s, i)
  BY DEF Modified, CellsOf
<1> QED
  BY <1>4, <1>9, <1>10, <1>12, <1>13 DEF Finished, r

\* The join of the group pc .. q, without the choices in its definition.
Joined(q) ==
  /\ pc' = q + 1 /\ branches' = <<>> /\ UNCHANGED <<body, plan, world, freed, result>>
  /\ \A i \in pc .. q : branches[i].ended /\ Finished(i)
  /\ \A n \in Names \ Slots : frame'.val[n] = frame.val[n] /\ frame'.buf[n] = frame.buf[n]
  /\ \A n \in Names \cap Slots :
       \E i \in pc .. q : /\ n \in body.stmts[i].let_introduced
                          /\ frame'.val[n] = branches[i].loc.val[n]
                          /\ frame'.buf[n] = branches[i].loc.buf[n]
  /\ console' = console \o FlattenSeq([k \in 1 .. q - pc + 1 |-> branches[pc + k - 1].out])

\* What Join sets, for the group that ends.
LEMMA JoinFacts ==
  ASSUME Known, SInv, Join, NEW q, GroupRunning(q)
  PROVE  Joined(q)
<1> DEFINE g == CHOOSE g \in plan : g.members = DOMAIN branches
           source(n) == CHOOSE i \in g.members : n \in body.stmts[i].let_introduced
           first == Min(g.members)
<1>1. /\ \A i \in DOMAIN branches : branches[i].ended
      /\ pc' = Max(g.members) + 1 /\ branches' = <<>>
      /\ UNCHANGED <<body, plan, world, freed, result>>
  BY DEF Join
<1>2. /\ \A n \in Names : frame'.val[n] = IF n \in g.slots THEN branches[source(n)].loc.val[n] ELSE frame.val[n]
      /\ \A n \in Names : frame'.buf[n] = IF n \in g.slots THEN branches[source(n)].loc.buf[n] ELSE frame.buf[n]
      /\ console' = console \o FlattenSeq([k \in 1 .. Cardinality(g.members) |-> branches[first + k - 1].out])
  BY DEF Join
<1>3. g \in plan /\ g.members = pc .. q /\ DOMAIN branches = pc .. q
  BY DEF GroupRunning
<1>4. g.slots = Slots /\ g.slots \subseteq defined(body, g.members)
  BY <1>3, KnownBody DEF PlanExact, Slots, return_slots
<1> HIDE DEF g
<1>5. ASSUME NEW n \in g.slots
      PROVE  source(n) \in g.members /\ n \in body.stmts[source(n)].let_introduced
  <2>1. \E i \in g.members : n \in body.stmts[i].let_introduced
    BY <1>4 DEF defined
  <2> QED
    BY <2>1
<1> HIDE DEF source
<1>6. pc \in Nat /\ q \in Nat /\ pc <= q
  BY KnownBody DEF GroupRunning
<1>7. Max(g.members) = q /\ Min(g.members) = pc
  <2>1. PICK a, z \in 1 .. Len(body.stmts) :
          a <= z /\ g.members = a .. z /\ Min(g.members) = a /\ Max(g.members) = z
    BY <1>3, KnownBody, GroupShape
  <2>2. a \in Nat /\ z \in Nat /\ a \in a .. z /\ z \in a .. z
    BY <2>1, KnownBody
  <2>3. pc \in pc .. q /\ q \in pc .. q
    BY <1>6
  <2>4. a \in pc .. q /\ z \in pc .. q /\ pc \in a .. z /\ q \in a .. z
    BY <1>3, <2>1, <2>2, <2>3
  <2> QED
    BY <1>6, <2>1, <2>2, <2>4
<1>8. Cardinality(g.members) = q - pc + 1
  <2>1. Cardinality(pc .. q) = IF pc > q THEN 0 ELSE q - pc + 1
    BY <1>6, FS_Interval
  <2> QED
    BY <1>3, <1>6, <2>1
<1>9. \A i \in pc .. q : branches[i].ended /\ Finished(i)
  BY <1>1, <1>3, MemberDone
<1>10. console' = console \o FlattenSeq([k \in 1 .. q - pc + 1 |-> branches[pc + k - 1].out])
  BY <1>2, <1>7, <1>8
<1>11. \A n \in Names \ Slots : frame'.val[n] = frame.val[n] /\ frame'.buf[n] = frame.buf[n]
  BY <1>2, <1>4
<1>12. ASSUME NEW n \in Names \cap Slots
       PROVE  \E i \in pc .. q : /\ n \in body.stmts[i].let_introduced
                                 /\ frame'.val[n] = branches[i].loc.val[n]
                                 /\ frame'.buf[n] = branches[i].loc.buf[n]
  BY <1>2, <1>3, <1>4, <1>5
<1> QED
  BY <1>1, <1>7, <1>9, <1>10, <1>11, <1>12 DEF Joined

\* The captures are replayed in branch order: what the reference run prints.
LEMMA JoinConsole ==
  ASSUME Known, SInv, NEW q, GroupRunning(q), Joined(q)
  PROVE  console' = Ref(body, q).out
<1> DEFINE m == q - pc + 1
           seqs == [k \in 1 .. m |-> branches[pc + k - 1].out]
           T == [k \in 0 .. m |-> Ref(body, pc - 1 + k).out]
<1>1. pc \in Nat /\ q \in Nat /\ pc >= 1 /\ pc <= q /\ m \in Nat /\ m # 0 /\ pc - 1 + m = q
      /\ 0 \in 0 .. m /\ m \in 0 .. m /\ pc - 1 + 0 = pc - 1 /\ pc - 1 \in 0 .. Len(body.stmts)
  BY KnownBody DEF GroupRunning
<1>2. Len(seqs) = m
  <2> DEFINE S == {branches[pc + k - 1].out : k \in 1 .. m}
  <2>1. seqs \in [1 .. m -> S]
    OBVIOUS
  <2> HIDE DEF S, m, seqs
  <2>2. DOMAIN seqs = 1 .. m /\ seqs \in Seq(S)
    BY <1>1, <2>1
  <2> QED
    BY <1>1, <2>2
<1>3. T[0] = Ref(body, pc - 1).out /\ T[m] = Ref(body, q).out
  <2> HIDE DEF m
  <2>1. T[0] = Ref(body, pc - 1 + 0).out /\ T[m] = Ref(body, pc - 1 + m).out
    BY <1>1
  <2> HIDE DEF T
  <2> QED
    BY <1>1, <2>1
<1>4. ASSUME NEW k \in 1 .. m PROVE IsSequence(seqs[k]) /\ T[k] = T[k - 1] \o seqs[k]
  <2> DEFINE i == pc + k - 1
  <2>1. i \in pc .. q /\ pc - 1 + k = i /\ pc - 1 + (k - 1) = i - 1 /\ k \in 0 .. m /\ k - 1 \in 0 .. m
    BY <1>1
  <2>2. Finished(i)
    BY <2>1 DEF Joined
  <2>3. seqs[k] = branches[i].out
    OBVIOUS
  <2>4. T[k] = Ref(body, i).out /\ T[k - 1] = Ref(body, i - 1).out
    <3> HIDE DEF i, m
    <3>1. T[k] = Ref(body, pc - 1 + k).out /\ T[k - 1] = Ref(body, pc - 1 + (k - 1)).out
      BY <2>1
    <3> HIDE DEF T
    <3> QED
      BY <2>1, <3>1
  <2> HIDE DEF seqs, T, i
  <2> QED
    BY <2>2, <2>3, <2>4 DEF Finished
<1>5. IsSequence(T[0])
  <2>1. StateOK(Ref(body, pc - 1), AllCells(body.stmts))
    BY <1>1, KnownBody, SourceOrder, RefStates DEF Ref
  <2> HIDE DEF T
  <2> QED
    BY <1>3, <2>1 DEF StateOK
<1>6. console = T[0]
  <2> HIDE DEF T
  <2> QED
    BY <1>3 DEF SInv, FrameOK, GroupRunning
<1>7. console' = console \o FlattenSeq(seqs)
  BY DEF Joined
<1> HIDE DEF m, seqs, T
<1>8. T[0] \o FlattenSeq(seqs) = T[m]
  <2>1. m \in Nat /\ m # 0
    BY <1>1
  <2> QED
    BY <1>2, <1>4, <1>5, <2>1, Replay
<1> QED
  BY <1>3, <1>6, <1>7, <1>8

\* At the join the world is that of the reference run.
LEMMA JoinWorld ==
  ASSUME Known, SInv, NEW q, GroupRunning(q), Joined(q), NEW c \in AllCells(body.stmts)
  PROVE  world[c] = Ref(body, q).world[c]
<1>1. CASE \E i \in pc .. q : c \in Modified(body.stmts[i], i)
  <2>1. PICK i \in pc .. q : c \in Modified(body.stmts[i], i)
    BY <1>1
  <2>2. Finished(i) /\ MemberRun(pc, q, i)
    BY DEF Joined, GroupRunning
  <2> QED
    BY <2>1, <2>2 DEF Finished, MemberRun
<1>2. CASE \A i \in pc .. q : c \notin Modified(body.stmts[i], i)
  <2>1. world[c] = Ref(body, pc - 1).world[c]
    BY <1>2 DEF SInv, WorldOK, GroupRunning
  <2>2. \A k \in (pc - 1) + 1 .. q : k \in pc .. q /\ Source(body)[k] = k
    <3>1. pc \in Nat /\ q \in Nat /\ q <= Len(body.stmts) /\ pc >= 1 /\ Len(body.stmts) \in Nat
      BY KnownBody DEF GroupRunning
    <3>2. \A k \in (pc - 1) + 1 .. q : k \in pc .. q /\ k \in 1 .. Len(body.stmts)
      BY <3>1
    <3> QED
      BY <3>2, KnownBody, SourceOrder
  <2>3. Ref(body, q).world[c] = Ref(body, pc - 1).world[c]
    BY <1>2, <2>2 DEF GroupRunning, Stretch, Ref
  <2> QED
    BY <2>1, <2>3
<1> QED
  BY <1>1, <1>2

\* A name read after the group has a slot or is no member's to change: what the
\* planner asks of a group before it dispatches it.
LEMMA CarriedOver ==
  ASSUME Known, NEW q, GroupRunning(q), NEW n \in LiveReads(body, q + 1), n \notin Slots,
         NEW i \in pc .. q
  PROVE  n \notin Changed(body.stmts[i])
<1> DEFINE s == body.stmts[i]
           G == pc .. q
<1>1. PICK g \in plan : g.members = G
  BY DEF GroupRunning
<1>2. CanCarry(body, G) /\ Slots = return_slots(body, G)
  BY <1>1, KnownBody DEF PlanExact, Dispatchable, Slots, GroupRunning
<1>3. i \in DOMAIN body.stmts /\ s.consuming_reads = {}
  BY <1>1, KnownBody, MemberFacts
<1>4. SummaryTrue(s)
  BY <1>3, KnownBody, BodyTrue
<1> SUFFICES ASSUME n \in defines(s) PROVE FALSE
  BY <1>3 DEF Changed
<1>5. n \in OutsideRefs(body, G)
  <2>1. CASE n \in body.final_reads
    BY <2>1 DEF OutsideRefs
  <2>2. ASSUME NEW j \in DOMAIN body.stmts, j >= q + 1, n \in reads(body.stmts[j])
        PROVE  n \in OutsideRefs(body, G)
    <3>1. j \notin G /\ i < j
      <4>1. pc \in Nat /\ q \in Nat /\ j \in Nat
        BY KnownBody DEF GroupRunning
      <4> QED
        BY <2>2, <4>1
    <3>2. n \in body.stmts[j].value_reads
      BY <1>3, <2>2, <3>1 DEF Known, ElseSeen, reads
    <3> HIDE DEF G
    <3> QED
      BY <3>1, <3>2 DEF OutsideRefs
  <2> QED
    BY <2>1, <2>2 DEF LiveReads
<1>6. CASE n \in s.let_introduced
  <2>1. s.pattern \in {"binding", "destructure"}
    BY <1>4, <1>6 DEF SummaryTrue
  <2>2. n \in defined(body, G) \/ n \in destructure_bound(body, G)
    BY <1>6, <2>1 DEF defined, destructure_bound
  <2> HIDE DEF G
  <2> QED
    BY <1>2, <1>5, <2>2 DEF CanCarry, return_slots
<1>7. CASE n \notin s.let_introduced
  <2>1. n \in captured_mutations(body.stmts, G)
    BY <1>7 DEF captured_mutations, defines
  <2> HIDE DEF G
  <2> QED
    BY <1>2, <1>5, <2>1 DEF CanCarry
<1> QED
  BY <1>6, <1>7

\* After the join the frame holds what is still to be read.
LEMMA JoinValues ==
  ASSUME Known, SInv, NEW q, GroupRunning(q), Joined(q), NEW n \in LiveReads(body, q + 1)
  PROVE  frame'.val[n] = Ref(body, q).loc.val[n]
<1>1. pc \in Nat /\ q \in Nat /\ pc <= q /\ pc >= 1 /\ q <= Len(body.stmts) /\ Len(body.stmts) \in Nat
  BY KnownBody DEF GroupRunning
<1>2. n \in Names
  BY KnownBody, ScopesAssumption DEF LiveReads, ScopesApart
<1>3. CASE n \in Slots
  <2>1. PICK i \in pc .. q : n \in body.stmts[i].let_introduced /\ frame'.val[n] = branches[i].loc.val[n]
    BY <1>2, <1>3 DEF Joined
  <2>2. Finished(i) /\ MemberRun(pc, q, i) /\ n \in defines(body.stmts[i])
    BY <2>1 DEF Joined, GroupRunning, defines
  <2> QED
    BY <2>1, <2>2 DEF Finished, MemberRun
<1>4. CASE n \notin Slots
  <2>1. frame'.val[n] = frame.val[n]
    BY <1>2, <1>4 DEF Joined
  <2>2. frame.val[n] = Ref(body, pc - 1).loc.val[n]
    <3>1. n \in LiveReads(body, pc) /\ (pc - 1) + 1 = pc
      <4>1. \A j \in DOMAIN body.stmts : j >= q + 1 => j >= pc
        BY <1>1, KnownBody
      <4> QED
        BY <1>1, <4>1 DEF LiveReads
    <3> QED
      BY <3>1 DEF SInv, FrameOK, GroupRunning
  <2>3. \A k \in (pc - 1) + 1 .. q : k \in pc .. q /\ Source(body)[k] = k
    <3>1. \A k \in (pc - 1) + 1 .. q : k \in pc .. q /\ k \in 1 .. Len(body.stmts)
      BY <1>1
    <3> QED
      BY <3>1, KnownBody, SourceOrder
  <2>4. \A k \in (pc - 1) + 1 .. q : n \notin Changed(body.stmts[Source(body)[k]])
    BY <1>4, <2>3, CarriedOver
  <2>5. Ref(body, q).loc.val[n] = Ref(body, pc - 1).loc.val[n]
    BY <1>2, <2>4 DEF GroupRunning, Stretch, Ref
  <2> QED
    BY <2>1, <2>2, <2>5
<1> QED
  BY <1>3, <1>4

\* After the join every buffer made so far is freed or owned by the frame.
LEMMA JoinHeap ==
  ASSUME Known, SInv, NEW q, GroupRunning(q), Joined(q)
  PROVE  (DOMAIN freed \cup Buffers(frame, Names))' = Made(body, q)
<1> DEFINE M == Made(body, pc - 1)
           lets(i) == body.stmts[i].let_introduced \cap Containers
           N == UNION {{<<i, n>> : n \in lets(i)} : i \in pc .. q}
           old == {frame.buf[n] : n \in Names} \ {NoBuffer}
           now == {frame'.buf[n] : n \in Names} \ {NoBuffer}
<1>1. /\ pc \in Nat /\ q \in Nat /\ pc <= q /\ pc >= 1 /\ q <= Len(body.stmts) /\ Len(body.stmts) \in Nat
      /\ pc # NotCompiled /\ result = Running
      /\ \A i \in pc .. q : i \in DOMAIN body.stmts /\ i \in Nat /\ i >= pc
  BY KnownBody DEF GroupRunning, NotCompiled
<1>2. PICK g \in plan : g.members = pc .. q
  BY DEF GroupRunning
<1>3. ASSUME NEW i \in pc .. q
      PROVE  /\ body.stmts[i].consuming_reads = {} /\ body.stmts[i].assigned \cap Containers = {}
             /\ ScopesApart(body.stmts[i])
             /\ branches[i].loc.buf = NewBuf(body.stmts[i], i, frame.buf)
             /\ \A j \in pc .. q : j # i => lets(i) \cap lets(j) = {}
  <2>1. body.stmts[i].consuming_reads = {} /\ body.stmts[i].assigned \cap Containers = {}
    BY <1>2, KnownBody, MemberFacts
  <2>2. ScopesApart(body.stmts[i])
    BY <1>1, KnownBody, BodyTrue
  <2>3. branches[i].loc.buf = NewBuf(body.stmts[i], i, frame.buf)
    BY DEF Known, HInv, Copies, Joined, GroupRunning
  <2>4. \A j \in pc .. q : j # i => lets(i) \cap lets(j) = {}
    BY <1>2 DEF Known, GroupsIndependent, Changed, defines
  <2> QED
    BY <2>1, <2>2, <2>3, <2>4
<1>4. Made(body, q) = M \cup N
  <2>1. 1 .. q = (1 .. pc - 1) \cup (pc .. q)
    BY <1>1
  <2>2. \A i \in pc .. q : defines(body.stmts[i]) \cap Containers = lets(i)
    BY <1>3 DEF defines
  <2>3. Made(body, q) = M \cup UNION {{<<i, n>> : n \in defines(body.stmts[i]) \cap Containers} : i \in pc .. q}
    BY <2>1 DEF Made
  <2> QED
    BY <2>2, <2>3
<1>5. Dropped = UNION {{<<i, n>> : n \in lets(i) \ Slots} : i \in pc .. q}
  <2>1. {k \in DOMAIN branches : branches[k].ended} = pc .. q
    BY DEF Joined, GroupRunning
  <2> QED
    BY <2>1 DEF Dropped
<1>6. DOMAIN freed \cup old = M \cup Dropped
  BY DEF SInv, GroupRunning, Buffers
<1>7. (DOMAIN freed \cup Buffers(frame, Names))' = DOMAIN freed \cup now
  BY DEF Joined, Buffers
<1>8. ASSUME NEW n \in Names, frame.buf[n] # NoBuffer
      PROVE  n \in Containers /\ \E j : Past(j) /\ frame.buf[n] = <<j, n>>
  BY <1>1, <1>8 DEF Known, HInv, Owned
<1> HIDE DEF M, N, lets
<1>9. ASSUME NEW i \in pc .. q, NEW n \in body.stmts[i].let_introduced PROVE frame.buf[n] = NoBuffer
  <2> SUFFICES ASSUME frame.buf[n] # NoBuffer PROVE FALSE
    OBVIOUS
  <2>1. n \in Names
    BY <1>3 DEF ScopesApart
  <2>2. PICK j : Past(j) /\ frame.buf[n] = <<j, n>>
    BY <1>8, <2>1
  <2>3. <<j, n>> \in M \cup Dropped
    BY <1>6, <2>1, <2>2
  <2>4. <<j, n>> \notin Dropped
    <3>1. j \notin pc .. q
      BY <1>1, <2>2 DEF Past
    <3> QED
      BY <1>5, <3>1
  <2>5. <<j, n>> \in Made(body, i - 1)
    <3>1. 1 .. pc - 1 \subseteq 1 .. i - 1
      BY <1>1
    <3> QED
      BY <2>3, <2>4, <3>1 DEF M, Made
  <2> QED
    BY <1>1, <2>5, KnownBody, MadeNew
<1>10. ASSUME NEW n \in Names, n \in Slots
       PROVE  \E i \in pc .. q : /\ n \in body.stmts[i].let_introduced
                                 /\ frame'.buf[n] = IF n \in Containers THEN <<i, n>> ELSE NoBuffer
  <2>1. PICK i \in pc .. q : n \in body.stmts[i].let_introduced /\ frame'.buf[n] = branches[i].loc.buf[n]
    BY <1>10 DEF Joined
  <2>2. branches[i].loc.buf[n] = IF n \in Containers THEN <<i, n>> ELSE NoBuffer
    BY <1>3, <1>9, <2>1 DEF NewBuf, defines
  <2> QED
    BY <2>1, <2>2
<1>11. \A n \in Names \ Slots : frame'.buf[n] = frame.buf[n]
  BY DEF Joined
<1>12. \A x : \A n : <<x, n>> # NoBuffer
  BY DEF NoBuffer
<1>13. now \subseteq M \cup N
  <2> SUFFICES ASSUME NEW n \in Names, frame'.buf[n] # NoBuffer PROVE frame'.buf[n] \in M \cup N
    OBVIOUS
  <2>1. CASE n \in Slots
    <3>1. PICK i \in pc .. q : /\ n \in body.stmts[i].let_introduced
                               /\ frame'.buf[n] = IF n \in Containers THEN <<i, n>> ELSE NoBuffer
      BY <1>10, <2>1
    <3> QED
      BY <3>1 DEF N, lets
  <2>2. CASE n \notin Slots
    <3>1. frame'.buf[n] \in M \cup Dropped
      BY <1>6, <1>11, <2>2
    <3> QED
      BY <1>5, <3>1 DEF N
  <2> QED
    BY <2>1, <2>2
<1>14. DOMAIN freed \subseteq M \cup N
  BY <1>5, <1>6 DEF N
<1>15. ASSUME NEW x \in M \cup Dropped PROVE x \in DOMAIN freed \cup now
  <2>1. ASSUME NEW n \in Names, x = frame.buf[n], x # NoBuffer PROVE x \in now
    <3>1. n \notin Slots
      <4>1. ASSUME n \in Slots PROVE \E i \in pc .. q : n \in body.stmts[i].let_introduced
        BY <1>10, <4>1
      <4> QED
        BY <1>9, <2>1, <4>1
    <3> QED
      BY <1>11, <2>1, <3>1
  <2> QED
    BY <1>6, <2>1
<1>16. ASSUME NEW i \in pc .. q, NEW n \in lets(i), n \in Slots PROVE <<i, n>> \in now
  <2>1. n \in Names /\ n \in Containers /\ n \in body.stmts[i].let_introduced
    BY <1>3 DEF ScopesApart, lets
  <2>2. PICK j \in pc .. q : n \in body.stmts[j].let_introduced /\ frame'.buf[n] = <<j, n>>
    BY <1>10, <1>16, <2>1
  <2>3. j = i
    BY <1>3, <2>1, <2>2 DEF lets
  <2> QED
    BY <1>12, <2>1, <2>2, <2>3
<1>17. M \cup N \subseteq DOMAIN freed \cup now
  <2>1. M \subseteq DOMAIN freed \cup now
    BY <1>15
  <2>2. ASSUME NEW i \in pc .. q, NEW n \in lets(i) PROVE <<i, n>> \in DOMAIN freed \cup now
    <3>1. CASE n \in Slots
      BY <1>16, <3>1
    <3>2. CASE n \notin Slots
      <4>1. <<i, n>> \in Dropped
        BY <1>5, <3>2
      <4> QED
        BY <1>15, <4>1
    <3> QED
      BY <3>1, <3>2
  <2> HIDE DEF now
  <2> QED
    BY <2>1, <2>2 DEF N
<1> HIDE DEF now
<1> QED
  BY <1>4, <1>7, <1>13, <1>14, <1>17

\* The join brings the frame to where the reference run is after the group.
LEMMA JoinSerial ==
  ASSUME Known, SInv, Join
  PROVE  SInv'
<1>1. branches # <<>>
  BY DEF Join
<1>2. PICK q : GroupRunning(q)
  BY <1>1, GroupNow
<1>3. Joined(q)
  BY <1>2, JoinFacts
<1>4. /\ body' = body /\ world' = world /\ result' = result /\ result = Running
      /\ branches' = <<>> /\ DOMAIN branches' = {} /\ pc' = q + 1 /\ q \in Nat
  BY <1>2, <1>3, KnownBody DEF Joined, GroupRunning
<1>5. Passed' = q
  BY <1>4 DEF Passed, NotCompiled
<1>6. Ref(body, q).result = Running
  BY <1>2 DEF GroupRunning, Stretch, Ref
<1>7. FrameOK'
  <2>1. console' = Ref(body, q).out
    BY <1>2, <1>3, JoinConsole
  <2>2. \A n \in LiveReads(body, q + 1) : frame'.val[n] = Ref(body, q).loc.val[n]
    BY <1>2, <1>3, JoinValues
  <2> QED
    BY <1>4, <1>5, <1>6, <2>1, <2>2 DEF FrameOK
<1>8. WorldOK'
  <2>1. \A c \in AllCells(body.stmts) : world[c] = Ref(body, q).world[c]
    BY <1>2, <1>3, JoinWorld
  <2>2. IsWorld(world, AllCells(body.stmts))
    BY <1>4 DEF SInv, WorldOK
  <2> QED
    BY <1>4, <1>5, <2>1, <2>2 DEF WorldOK
<1>9. (DOMAIN freed \cup Buffers(frame, Names))' = Made(body, q)
  BY <1>2, <1>3, JoinHeap
<1>10. Dropped' = {}
  BY <1>4 DEF Dropped
<1> QED
  BY <1>4, <1>5, <1>7, <1>8, <1>9, <1>10 DEF SInv, SerialEquivalence

\* SInv is inductive beside what is known.
LEMMA SerialStep == Known /\ SInv /\ [Next]_vars => SInv'
<1> SUFFICES ASSUME Known, SInv, [Next]_vars PROVE SInv'
  OBVIOUS
<1>1. CASE UNCHANGED vars
  <2>1. /\ Passed' = Passed /\ Dropped' = Dropped /\ FrameOK' = FrameOK /\ WorldOK' = WorldOK
        /\ SerialEquivalence' = SerialEquivalence
    BY <1>1 DEF vars, Passed, Dropped, Slots, FrameOK, WorldOK, SerialEquivalence
  <2>2. \A i : BranchOK(i)' = BranchOK(i)
    BY <1>1 DEF vars, BranchOK, Alone
  <2> QED
    BY <1>1, <2>1, <2>2 DEF vars, SInv, Buffers
<1> QED
  BY <1>1, CompileSerial, SequentialSerial, ForkSerial, EffectSerial, EndSerial, JoinSerial, ReturnSerial
  DEF Next

\* The determinism contract for every body: whatever the planner dispatches and
\* however the branches interleave, the compiled function returns, writes and
\* prints what its statements do in source order, and gives back the same
\* buffers.  Bodies whose else blocks read what a group leaves behind are
\* excepted: for them the planner's OutsideRefs is too small and it is false.
THEOREM Deterministic ==
  ASSUME \A b \in Bodies : ElseSeen(b)
  PROVE  Spec => []SerialEquivalence
<1>1. BodyChosen => ElseSeen(body)
  BY DEF BodyChosen
<1>2. Init => SInv
  BY InitSerial
<1>3. HInv /\ TypeOK /\ GroupsIndependent /\ SInv /\ [Next]_vars => SInv'
  <2>1. HInv /\ TypeOK => Types
    BY DEF TypeOK, Types, IsABag
  <2> QED
    BY <1>1, <2>1, SerialStep DEF Known, HInv
<1>4. SInv => SerialEquivalence
  BY DEF SInv
<1> QED
  BY <1>2, <1>3, <1>4, HeapInvariance, TypeCorrect, BranchesIndependent, PTL DEF Spec

(***************************************************************************)
(* The reorder advisory                                                    *)
(***************************************************************************)
\* Statement i makes the same of two states as far as they agree, output aside.
Alike(s, i, a, b, W) ==
  /\ \A c \in W : c \in CellsOf(s, i) \/ a.world[c] = b.world[c] =>
       Executed(s, i, a).world[c] = Executed(s, i, b).world[c]
  /\ Executed(s, i, a).result = Executed(s, i, b).result
  /\ \A n \in Names : n \in Changed(s) \/ a.loc.val[n] = b.loc.val[n] =>
       Executed(s, i, a).loc.val[n] = Executed(s, i, b).loc.val[n]

\* Locality, for a whole statement.
LEMMA ExecutedLocally ==
  ASSUME NEW s, SummaryTrue(s), NEW i, NEW W, CellsOf(s, i) \subseteq W,
         NEW a, StateOK(a, W), NEW b, StateOK(b, W),
         \A c \in CellsOf(s, i) : a.world[c] = b.world[c],
         \A n \in reads(s) : a.loc.val[n] = b.loc.val[n]
  PROVE  Alike(s, i, a, b, W)
<1> DEFINE w == a.world
           z == b.world
           u == a.loc.val
           v == b.loc.val
           e == Whole(s, i, u, w, a.out)
           f == Whole(s, i, v, z, b.out)
           m == Len(Actual(s))
<1>1. /\ IsWorld(w, W) /\ IsWorld(z, W) /\ DOMAIN w = W /\ DOMAIN z = W
      /\ IsSequence(a.out) /\ IsSequence(b.out)
  BY DEF StateOK, IsWorld
<1>2. m \in 0 .. m
  BY ActualIsSeq
<1>3. (\A n \in reads(s) : u[n] = v[n]) /\ (\A c \in CellsOf(s, i) : w[c] = z[c])
  OBVIOUS
<1> HIDE DEF w, z, u, v
<1>4. RunAlike(s, i, u, w, a.out, v, z, m)
  BY <1>1, <1>2, <1>3, Locality
<1>5. RunAlike(s, i, v, z, b.out, v, z, m)
  BY <1>1, <1>2, Locality
<1>6. e.seen = f.seen /\ \A c \in CellsOf(s, i) : e.world[c] = f.world[c]
  BY <1>4, <1>5 DEF RunAlike, Whole
<1>7. /\ \A c \in W \ Modified(s, i) : e.world[c] = w[c] /\ f.world[c] = z[c]
      /\ Modified(s, i) \subseteq CellsOf(s, i)
  BY <1>1, <1>4, <1>5 DEF RunAlike, Whole, Modified, CellsOf
<1> HIDE DEF e, f, m
<1>8. \A c \in W : c \in CellsOf(s, i) \/ w[c] = z[c] => e.world[c] = f.world[c]
  BY <1>6, <1>7
<1>9. Term(s, i, u, e.seen) = Term(s, i, v, f.seen)
  <2>1. [n \in reads(s) |-> u[n]] = [n \in reads(s) |-> v[n]]
    BY <1>3
  <2> QED
    BY <1>6, <2>1 DEF Term
<1>10. /\ Executed(s, i, a) =
            [loc |-> Locals(s, i, a.loc, e.seen), world |-> e.world, out |-> e.out,
             freed |-> Free(a.freed, Released(s, a.loc)),
             result |-> IF s.returns THEN Term(s, i, u, e.seen) ELSE Running]
       /\ Executed(s, i, b) =
            [loc |-> Locals(s, i, b.loc, f.seen), world |-> f.world, out |-> f.out,
             freed |-> Free(b.freed, Released(s, b.loc)),
             result |-> IF s.returns THEN Term(s, i, v, f.seen) ELSE Running]
  BY DEF Executed, e, f, u, v, w, z
<1>11. ASSUME NEW n \in Names, n \in Changed(s) \/ u[n] = v[n]
       PROVE  Locals(s, i, a.loc, e.seen).val[n] = Locals(s, i, b.loc, f.seen).val[n]
  BY <1>9, <1>11 DEF Locals, Changed, u, v
<1> QED
  BY <1>8, <1>9, <1>10, <1>11 DEF u, v, w, z, Alike

\* Two states that agree on all but output and heap.
Agree(a, b) ==
  /\ a.result = b.result
  /\ a.world = b.world
  /\ \A n \in Names : a.loc.val[n] = b.loc.val[n]

\* Two orders that go on alike from a to e keep agreeing.
LEMMA AgreeOn ==
  ASSUME NEW b \in Bodies, NEW A, IsOrder(b, A), NEW B, IsOrder(b, B), Len(A) = Len(B),
         NEW a \in 0 .. Len(A), NEW e \in a .. Len(A),
         \A k \in a + 1 .. e : A[k] = B[k],
         Agree(RefIn(b, A, a), RefIn(b, B, a))
  PROVE  Agree(RefIn(b, A, e), RefIn(b, B, e))
<1> DEFINE m == Len(A)
           W == AllCells(b.stmts)
           P(k) == RefIn(b, A, k)
           Q(k) == RefIn(b, B, k)
           Bad == {d \in a .. e : ~Agree(P(d), Q(d))}
<1>1. /\ m \in Nat /\ \A k \in 1 .. m : A[k] \in DOMAIN b.stmts
  BY RefSteps DEF IsOrder
<1>2. /\ \A k \in 1 .. m : RefStep(b, A, k) /\ RefStep(b, B, k)
      /\ \A k \in 0 .. m : StateOK(P(k), W) /\ StateOK(Q(k), W)
  BY RefStates
<1>3. a \in Nat /\ e \in Nat /\ a <= e /\ e <= m
  BY <1>1
<1> HIDE DEF m
<1>4. ASSUME NEW d \in a + 1 .. e, Agree(P(d - 1), Q(d - 1)) PROVE Agree(P(d), Q(d))
  <2> DEFINE i == A[d]
             s == b.stmts[i]
             p == P(d - 1)
             q == Q(d - 1)
  <2>1. d \in 1 .. m /\ d - 1 \in 0 .. m
    BY <1>1, <1>3
  <2>2. i \in DOMAIN b.stmts /\ B[d] = i
    BY <1>1, <2>1
  <2>3. SummaryTrue(s) /\ CellsOf(s, i) \subseteq W /\ ScopesApart(s)
    BY <2>2, BodyTrue
  <2>4. StateOK(p, W) /\ StateOK(q, W)
    BY <1>2, <2>1
  <2>5. CASE p.result # Running
    BY <1>2, <1>4, <2>1, <2>5 DEF RefStep, Agree
  <2>6. CASE p.result = Running
    <3>1. P(d) = Executed(s, i, p) /\ Q(d) = Executed(s, i, q)
      BY <1>2, <1>4, <2>1, <2>2, <2>6 DEF RefStep, Agree
    <3>2. p.world = q.world /\ \A n \in Names : p.loc.val[n] = q.loc.val[n]
      BY <1>4 DEF Agree
    <3> HIDE DEF i, s, p, q, W, P, Q
    <3>3. reads(s) \subseteq Names
      BY <2>3 DEF ScopesApart
    <3>4. Alike(s, i, p, q, W)
      BY <2>3, <2>4, <3>2, <3>3, ExecutedLocally
    <3>5. Kept(s, i, p, W) /\ Kept(s, i, q, W)
      BY <2>3, <2>4, ExecutedOK
    <3>6. /\ IsWorld(P(d).world, W) /\ IsWorld(Q(d).world, W)
          /\ \A c \in W : P(d).world[c] = Q(d).world[c]
      BY <3>1, <3>2, <3>4, <3>5 DEF Kept, StateOK, Alike
    <3>7. P(d).world = Q(d).world
      BY <3>6 DEF IsWorld
    <3> QED
      BY <3>1, <3>2, <3>4, <3>7 DEF Alike, Agree
  <2> QED
    BY <2>5, <2>6
<1> HIDE DEF P, Q
<1>5. Bad = {}
  <2> SUFFICES ASSUME Bad # {} PROVE FALSE
    OBVIOUS
  <2>1. PICK d \in Bad : \A f \in Bad : d <= f
    <3>1. Bad \subseteq Nat
      BY <1>3
    <3> HIDE DEF Bad
    <3> QED
      BY <3>1, LeastExists
  <2>2. d \in a + 1 .. e /\ d - 1 \in a .. e /\ ~(d <= d - 1)
    <3>1. d # a
      BY DEF P, Q
    <3> QED
      BY <1>3, <3>1
  <2>3. Agree(P(d - 1), Q(d - 1))
    BY <2>1, <2>2
  <2> QED
    BY <1>4, <2>1, <2>2, <2>3
<1> QED
  BY <1>3, <1>5 DEF P, Q

\* Neither statement changes what the other reads, changes or touches.
Apart(s, i, t, j) ==
  /\ Changed(s) \cap (reads(t) \cup Changed(t)) = {} /\ Changed(t) \cap reads(s) = {}
  /\ Modified(s, i) \cap CellsOf(t, j) = {} /\ Modified(t, j) \cap CellsOf(s, i) = {}

\* Two orders that differ in where statement x is among p .. q: first in E, last
\* in L.  Nothing in between returns or meets x.
Slid(b, E, L, p, q, x) ==
  /\ IsOrder(b, E) /\ IsOrder(b, L) /\ Len(E) = Len(L)
  /\ p \in 1 .. Len(E) /\ q \in p .. Len(E)
  /\ \A k \in 1 .. Len(E) : k < p \/ k > q => E[k] = L[k]
  /\ E[p] = x /\ L[q] = x
  /\ \A k \in p .. q - 1 : E[k + 1] = L[k]
  /\ ~b.stmts[x].returns
  /\ \A k \in p .. q - 1 : /\ ~b.stmts[L[k]].returns
                           /\ Apart(b.stmts[x], x, b.stmts[L[k]], L[k])

\* In E, where x has run, the state is that of L but for what x changes.
Ahead(b, E, L, x, k) ==
  LET e == RefIn(b, E, k + 1)
      l == RefIn(b, L, k)
  IN /\ e.result = Running /\ l.result = Running
     /\ \A c \in AllCells(b.stmts) \ Modified(b.stmts[x], x) : e.world[c] = l.world[c]
     /\ \A n \in Names \ Changed(b.stmts[x]) : e.loc.val[n] = l.loc.val[n]

\* Ahead holds from where x has run in E to the end of the gap.
LEMMA GapAlike ==
  ASSUME NEW b \in Bodies, NEW E, NEW L, NEW p, NEW q, NEW x, Slid(b, E, L, p, q, x),
         RefIn(b, E, p - 1).result = Running, Agree(RefIn(b, E, p - 1), RefIn(b, L, p - 1))
  PROVE  Ahead(b, E, L, x, q - 1)
<1> DEFINE m == Len(E)
           W == AllCells(b.stmts)
           X == b.stmts[x]
           P(k) == RefIn(b, E, k)
           Q(k) == RefIn(b, L, k)
           Bad == {k \in p - 1 .. q - 1 : ~Ahead(b, E, L, x, k)}
<1>1. /\ m \in Nat /\ \A k \in 1 .. m : E[k] \in DOMAIN b.stmts /\ L[k] \in DOMAIN b.stmts
  BY RefSteps DEF IsOrder, Slid
<1>2. /\ \A k \in 1 .. m : RefStep(b, E, k) /\ RefStep(b, L, k)
      /\ \A k \in 0 .. m : StateOK(P(k), W) /\ StateOK(Q(k), W)
  BY RefStates DEF Slid
<1>3. p \in Nat /\ q \in Nat /\ 1 <= p /\ p <= q /\ q <= m
  BY <1>1 DEF Slid
<1>4. x \in DOMAIN b.stmts /\ E[p] = x
  BY <1>1, <1>3 DEF Slid
<1>5. SummaryTrue(X) /\ CellsOf(X, x) \subseteq W /\ ~X.returns
  BY <1>4, BodyTrue DEF Slid
<1> HIDE DEF m
<1>6. Ahead(b, E, L, x, p - 1)
  <2> DEFINE r == P(p - 1)
  <2>1. p \in 1 .. m /\ p - 1 \in 0 .. m /\ (p - 1) + 1 = p
    BY <1>1, <1>3
  <2>2. P(p) = Executed(X, x, r) /\ StateOK(r, W)
    BY <1>2, <1>4, <2>1 DEF RefStep
  <2>3. /\ r.result = Q(p - 1).result /\ r.result = Running /\ r.world = Q(p - 1).world
        /\ \A n \in Names : r.loc.val[n] = Q(p - 1).loc.val[n]
    BY DEF Agree
  <2> HIDE DEF r, X, W, P, Q
  <2>4. Kept(X, x, r, W)
    BY <1>5, <2>2, ExecutedOK
  <2>5. /\ P(p).result = Running /\ Q(p - 1).result = Running
        /\ \A c \in W \ Modified(X, x) : P(p).world[c] = Q(p - 1).world[c]
        /\ \A n \in Names \ Changed(X) : P(p).loc.val[n] = Q(p - 1).loc.val[n]
    BY <1>5, <2>2, <2>3, <2>4 DEF Kept
  <2> QED
    BY <2>1, <2>5 DEF Ahead, X, W, P, Q
<1>7. ASSUME NEW k \in p .. q - 1, Ahead(b, E, L, x, k - 1) PROVE Ahead(b, E, L, x, k)
  <2> DEFINE y == L[k]
             Y == b.stmts[y]
             e == P(k)
             l == Q(k - 1)
  <2>1. /\ k \in 1 .. m /\ k + 1 \in 1 .. m /\ k - 1 \in 0 .. m /\ k \in 0 .. m
        /\ (k - 1) + 1 = k /\ (k + 1) - 1 = k
    BY <1>1, <1>3
  <2>2. y \in DOMAIN b.stmts /\ E[k + 1] = y /\ ~Y.returns /\ Apart(X, x, Y, y)
    BY <1>1, <2>1 DEF Slid
  <2>3. SummaryTrue(Y) /\ CellsOf(Y, y) \subseteq W /\ ScopesApart(Y)
    BY <2>2, BodyTrue
  <2>4. /\ StateOK(e, W) /\ StateOK(l, W)
    BY <1>2, <2>1
  <2>5. /\ e.result = Running /\ l.result = Running
        /\ \A c \in W \ Modified(X, x) : e.world[c] = l.world[c]
        /\ \A n \in Names \ Changed(X) : e.loc.val[n] = l.loc.val[n]
    BY <1>7, <2>1 DEF Ahead
  <2>6. P(k + 1) = Executed(Y, y, e) /\ Q(k) = Executed(Y, y, l)
    <3>1. RefStep(b, E, k + 1) /\ RefStep(b, L, k)
      BY <1>2, <2>1
    <3> QED
      BY <2>1, <2>2, <2>5, <3>1 DEF RefStep
  <2> HIDE DEF X, W, P, Q, y, Y, e, l
  <2>7. /\ \A c \in CellsOf(Y, y) : e.world[c] = l.world[c]
        /\ \A n \in reads(Y) : e.loc.val[n] = l.loc.val[n]
    BY <2>2, <2>3, <2>5 DEF Apart, ScopesApart
  <2>8. Alike(Y, y, e, l, W)
    BY <2>3, <2>4, <2>7, ExecutedLocally
  <2>9. Kept(Y, y, e, W) /\ Kept(Y, y, l, W)
    BY <2>3, <2>4, ExecutedOK
  <2>10. /\ P(k + 1).result = Running /\ Q(k).result = Running
         /\ \A c \in W \ Modified(X, x) : P(k + 1).world[c] = Q(k).world[c]
         /\ \A n \in Names \ Changed(X) : P(k + 1).loc.val[n] = Q(k).loc.val[n]
    BY <2>2, <2>5, <2>6, <2>8, <2>9 DEF Alike, Kept
  <2> QED
    BY <2>10 DEF Ahead, X, W, P, Q
<1>8. Bad = {}
  <2> SUFFICES ASSUME Bad # {} PROVE FALSE
    OBVIOUS
  <2>1. PICK k \in Bad : \A f \in Bad : k <= f
    <3>1. Bad \subseteq Nat
      BY <1>3
    <3> HIDE DEF Bad
    <3> QED
      BY <3>1, LeastExists
  <2>2. k \in p .. q - 1 /\ k - 1 \in p - 1 .. q - 1 /\ ~(k <= k - 1)
    <3>1. k # p - 1
      BY <1>6
    <3> QED
      BY <1>3, <3>1
  <2>3. Ahead(b, E, L, x, k - 1)
    BY <2>1, <2>2
  <2> QED
    BY <1>7, <2>1, <2>2, <2>3
<1> QED
  BY <1>3, <1>8

\* Where statement x is among statements that it does not meet makes no
\* difference to the value of the function and the contents of resources.
LEMMA SlidAgree ==
  ASSUME NEW b \in Bodies, NEW E, NEW L, NEW p, NEW q, NEW x, Slid(b, E, L, p, q, x)
  PROVE  Agree(RefIn(b, E, Len(E)), RefIn(b, L, Len(E)))
<1> DEFINE m == Len(E)
           W == AllCells(b.stmts)
           X == b.stmts[x]
           P(k) == RefIn(b, E, k)
           Q(k) == RefIn(b, L, k)
<1>1. /\ m \in Nat /\ Len(L) = m /\ IsOrder(b, E) /\ IsOrder(b, L)
      /\ \A k \in 1 .. m : E[k] \in DOMAIN b.stmts /\ L[k] \in DOMAIN b.stmts
      /\ P(0) = Start(b) /\ Q(0) = Start(b)
  BY RefSteps DEF IsOrder, Slid
<1>2. /\ \A k \in 1 .. m : RefStep(b, E, k) /\ RefStep(b, L, k)
      /\ \A k \in 0 .. m : StateOK(P(k), W) /\ StateOK(Q(k), W)
  BY RefStates DEF Slid
<1>3. p \in Nat /\ q \in Nat /\ 1 <= p /\ p <= q /\ q <= m
  BY <1>1 DEF Slid
<1>4. x \in DOMAIN b.stmts /\ E[p] = x /\ L[q] = x /\ \A k \in p .. q - 1 : E[k + 1] = L[k]
  BY <1>1, <1>3 DEF Slid
<1>5. SummaryTrue(X) /\ CellsOf(X, x) \subseteq W /\ ~X.returns /\ ScopesApart(X)
  BY <1>4, BodyTrue DEF Slid
<1> HIDE DEF m
<1>6. Agree(P(p - 1), Q(p - 1))
  <2>1. Agree(P(0), Q(0))
    BY <1>1 DEF Agree
  <2>2. p - 1 \in 0 .. m /\ 0 \in 0 .. m /\ \A k \in 0 + 1 .. p - 1 : E[k] = L[k]
    BY <1>1, <1>3 DEF Slid, m
  <2> QED
    BY <1>1, <2>1, <2>2, AgreeOn DEF m
<1>7. CASE P(p - 1).result # Running
  <2>1. p - 1 \in 0 .. m /\ m \in p - 1 .. m
    BY <1>1, <1>3
  <2>2. Q(p - 1).result # Running
    BY <1>6, <1>7 DEF Agree
  <2>3. P(m) = P(p - 1) /\ Q(m) = Q(p - 1)
    BY <1>1, <1>7, <2>1, <2>2, ReturnedStays DEF m
  <2> QED
    BY <1>6, <2>3 DEF m
<1>8. CASE P(p - 1).result = Running
  <2> DEFINE r == P(p - 1)
             l == Q(q - 1)
  <2>1. /\ p \in 1 .. m /\ q \in 1 .. m /\ p - 1 \in 0 .. m /\ q - 1 \in 0 .. m /\ (q - 1) + 1 = q
        /\ q - 1 \in p - 1 .. m /\ q \in p .. m /\ p \in 0 .. m /\ q \in 0 .. m
    BY <1>1, <1>3
  <2>2. /\ P(q).result = Running /\ l.result = Running
        /\ \A c \in W \ Modified(X, x) : P(q).world[c] = l.world[c]
        /\ \A n \in Names \ Changed(X) : P(q).loc.val[n] = l.loc.val[n]
    <3>1. Ahead(b, E, L, x, q - 1)
      BY <1>6, <1>8, GapAlike
    <3> QED
      BY <2>1, <3>1 DEF Ahead
  <2>3. P(p) = Executed(X, x, r) /\ Q(q) = Executed(X, x, l) /\ StateOK(r, W) /\ StateOK(l, W)
    BY <1>2, <1>4, <1>8, <2>1, <2>2 DEF RefStep
  <2>4. \A k \in p .. q - 1 : ~b.stmts[L[k]].returns /\ Apart(X, x, b.stmts[L[k]], L[k])
    BY DEF Slid
  <2>5. Kept(X, x, r, W) /\ Kept(X, x, l, W)
    <3> HIDE DEF X, r, l, W, P, Q
    <3> QED
      BY <1>5, <2>3, ExecutedOK
  <2>6. P(p).result = Running /\ Q(q).result = Running
    BY <1>5, <2>3, <2>5 DEF Kept
  <2>7. Modified(X, x) \subseteq CellsOf(X, x)
    BY DEF Modified, CellsOf
  \* In L the gap leaves what x reads and touches as it was.
  <2>8. /\ \A c \in CellsOf(X, x) : l.world[c] = r.world[c]
        /\ \A n \in reads(X) : l.loc.val[n] = r.loc.val[n]
    <3>1. Stretch(b, L, p - 1, q - 1)
      <4>1. Q(p - 1).result = Running
        BY <1>6, <1>8 DEF Agree
      <4>2. \A k \in (p - 1) + 1 .. q - 1 : ~b.stmts[L[k]].returns
        BY <1>3, <2>4
      <4> QED
        BY <1>1, <2>1, <4>1, <4>2, StretchKeeps
    <3>2. \A c \in CellsOf(X, x) : \A k \in (p - 1) + 1 .. q - 1 : c \notin Modified(b.stmts[L[k]], L[k])
      BY <1>3, <2>4 DEF Apart
    <3>3. \A n \in reads(X) : \A k \in (p - 1) + 1 .. q - 1 : n \notin Changed(b.stmts[L[k]])
      BY <1>3, <2>4 DEF Apart
    <3>4. reads(X) \subseteq Names
      BY <1>5 DEF ScopesApart
    <3>5. /\ \A c \in CellsOf(X, x) : l.world[c] = Q(p - 1).world[c]
          /\ \A n \in reads(X) : l.loc.val[n] = Q(p - 1).loc.val[n]
      BY <1>5, <3>1, <3>2, <3>3, <3>4 DEF Stretch
    <3> QED
      BY <1>6, <3>4, <3>5 DEF Agree
  <2>9. /\ \A c \in Modified(X, x) : Q(q).world[c] = P(p).world[c]
        /\ \A n \in Names \cap Changed(X) : Q(q).loc.val[n] = P(p).loc.val[n]
    <3> HIDE DEF X, r, l, W, P, Q
    <3>1. Alike(X, x, l, r, W)
      BY <1>5, <2>3, <2>8, ExecutedLocally
    <3> QED
      BY <1>5, <2>3, <2>7, <3>1 DEF Alike
  \* In E it leaves what x has changed.
  <2>10. /\ \A c \in Modified(X, x) : P(q).world[c] = P(p).world[c]
         /\ \A n \in Names \cap Changed(X) : P(q).loc.val[n] = P(p).loc.val[n]
    <3>1. \A k \in p + 1 .. q : k - 1 \in p .. q - 1 /\ E[k] = L[k - 1]
      <4>1. \A k \in p + 1 .. q : k - 1 \in p .. q - 1 /\ (k - 1) + 1 = k
        BY <1>3
      <4> QED
        BY <1>4, <4>1
    <3>2. Stretch(b, E, p, q)
      <4>1. \A k \in p + 1 .. q : ~b.stmts[E[k]].returns
        BY <2>4, <3>1
      <4> QED
        BY <1>1, <2>1, <2>6, <4>1, StretchKeeps DEF m
    <3>3. \A c \in CellsOf(X, x) : \A k \in p + 1 .. q : c \notin Modified(b.stmts[E[k]], E[k])
      BY <2>4, <3>1 DEF Apart
    <3>4. \A n \in Changed(X) : \A k \in p + 1 .. q : n \notin Changed(b.stmts[E[k]])
      BY <2>4, <3>1 DEF Apart
    <3> QED
      BY <1>5, <2>7, <3>2, <3>3, <3>4 DEF Stretch
  <2>11. /\ \A c \in W \ Modified(X, x) : Q(q).world[c] = l.world[c]
         /\ \A n \in Names \ Changed(X) : Q(q).loc.val[n] = l.loc.val[n]
    BY <2>3, <2>5 DEF Kept
  <2>12. Agree(P(q), Q(q))
    <3>1. StateOK(P(q), W) /\ StateOK(Q(q), W)
      BY <1>2, <2>1
    <3> HIDE DEF X, r, l, W, P, Q
    <3>2. \A c \in W : P(q).world[c] = Q(q).world[c]
      BY <2>2, <2>9, <2>10, <2>11
    <3>3. P(q).world = Q(q).world
      BY <3>1, <3>2 DEF StateOK, IsWorld
    <3>4. \A n \in Names : P(q).loc.val[n] = Q(q).loc.val[n]
      BY <2>2, <2>9, <2>10, <2>11
    <3> QED
      BY <2>2, <2>6, <3>3, <3>4 DEF Agree
  <2>13. m \in q .. m /\ \A k \in q + 1 .. m : E[k] = L[k]
    BY <1>1, <1>3 DEF Slid, m
  <2> QED
    BY <1>1, <2>1, <2>12, <2>13, AgreeOn DEF m
<1> QED
  BY <1>7, <1>8 DEF m

\* A stretch of the source order.
Piece(t, a, c) ==
  /\ t \in Seq(Nat)
  /\ Len(t) = c + 1 - a
  /\ \A k \in 1 .. c + 1 - a : t[k] = a + k - 1

\* A subsequence of the source order.
LEMMA PieceOf ==
  ASSUME NEW n \in Nat, NEW a \in 1 .. n + 1, NEW c \in a - 1 .. n
  PROVE  Piece(SubSeq([k \in 1 .. n |-> k], a, c), a, c)
<1> DEFINE id == [k \in 1 .. n |-> k]
<1>1. a \in Int /\ c \in Int /\ \A k \in a .. c : k \in 1 .. n
  OBVIOUS
<1>2. \A k \in a .. c : id[k] \in Nat
  BY <1>1
<1> HIDE DEF id
<1>3. /\ SubSeq(id, a, c) \in Seq(Nat)
      /\ Len(SubSeq(id, a, c)) = IF a <= c THEN c - a + 1 ELSE 0
      /\ \A k \in 1 .. c - a + 1 : SubSeq(id, a, c)[k] = id[a + k - 1]
  BY <1>1, <1>2, SubSeqProperties
<1>4. \A k \in 1 .. c - a + 1 : id[a + k - 1] = a + k - 1
  <2>1. \A k \in 1 .. c - a + 1 : a + k - 1 \in 1 .. n
    OBVIOUS
  <2> QED
    BY <2>1 DEF id
<1>5. c - a + 1 = c + 1 - a /\ (~(a <= c) => c + 1 - a = 0)
  OBVIOUS
<1> QED
  BY <1>3, <1>4, <1>5 DEF Piece, id

\* t is a and then b.
Joint(t, a, b) ==
  /\ t \in Seq(Nat) /\ Len(t) = Len(a) + Len(b)
  /\ \A k \in 1 .. Len(a) : t[k] = a[k]
  /\ \A k \in 1 .. Len(b) : t[Len(a) + k] = b[k]

\* Two sequences one after another.
LEMMA JointOf ==
  ASSUME NEW a \in Seq(Nat), NEW b \in Seq(Nat)
  PROVE  Joint(a \o b, a, b)
<1> DEFINE p == Len(a)
           q == Len(b)
           t == a \o b
<1>1. p \in Nat /\ q \in Nat
  OBVIOUS
<1>2. /\ t \in Seq(Nat) /\ Len(t) = p + q
      /\ \A k \in 1 .. p + q : t[k] = IF k <= p THEN a[k] ELSE b[k - p]
  BY ConcatProperties
<1> HIDE DEF p, q, t
<1>3. ASSUME NEW k \in 1 .. p PROVE t[k] = a[k]
  BY <1>1, <1>2
<1>4. ASSUME NEW k \in 1 .. q PROVE t[p + k] = b[k]
  <2>1. p + k \in 1 .. p + q /\ ~(p + k <= p) /\ (p + k) - p = k
    BY <1>1
  <2> QED
    BY <1>2, <2>1
<1> QED
  BY <1>2, <1>3, <1>4 DEF Joint, p, q, t

\* t is four sequences, of lengths u, d, v and y, one after another.
Four(t, f, e, g, h, u, d, v, y) ==
  /\ t \in Seq(Nat) /\ Len(t) = u + d + v + y
  /\ \A k \in 1 .. u : t[k] = f[k]
  /\ \A k \in 1 .. d : t[u + k] = e[k]
  /\ \A k \in 1 .. v : t[u + d + k] = g[k]
  /\ \A k \in 1 .. y : t[u + d + v + k] = h[k]

\* Four sequences one after another.
LEMMA FourOf ==
  ASSUME NEW f \in Seq(Nat), NEW e \in Seq(Nat), NEW g \in Seq(Nat), NEW h \in Seq(Nat),
         NEW u \in Nat, NEW d \in Nat, NEW v \in Nat, NEW y \in Nat,
         Len(f) = u, Len(e) = d, Len(g) = v, Len(h) = y
  PROVE  Four(f \o e \o g \o h, f, e, g, h, u, d, v, y)
<1> DEFINE a == f \o e
           c == a \o g
           t == c \o h
<1>1. Joint(a, f, e)
  BY JointOf
<1> HIDE DEF a
<1>2. /\ a \in Seq(Nat) /\ Len(a) = u + d /\ \A k \in 1 .. u : a[k] = f[k]
      /\ \A k \in 1 .. d : a[u + k] = e[k]
  BY <1>1 DEF Joint
<1>3. Joint(c, a, g)
  BY <1>2, JointOf
<1> HIDE DEF c
<1>4. /\ c \in Seq(Nat) /\ Len(c) = u + d + v /\ \A k \in 1 .. u + d : c[k] = a[k]
      /\ \A k \in 1 .. v : c[u + d + k] = g[k]
  BY <1>2, <1>3 DEF Joint
<1>5. Joint(t, c, h)
  BY <1>4, JointOf
<1> HIDE DEF t
<1>6. /\ t \in Seq(Nat) /\ Len(t) = u + d + v + y /\ \A k \in 1 .. u + d + v : t[k] = c[k]
      /\ \A k \in 1 .. y : t[u + d + v + k] = h[k]
  BY <1>4, <1>5 DEF Joint
<1>7. /\ \A k \in 1 .. u : k \in 1 .. u + d /\ k \in 1 .. u + d + v
      /\ \A k \in 1 .. d : u + k \in 1 .. u + d /\ u + k \in 1 .. u + d + v
      /\ \A k \in 1 .. v : u + d + k \in 1 .. u + d + v
  OBVIOUS
<1>8. ASSUME NEW k \in 1 .. u PROVE t[k] = f[k]
  BY <1>2, <1>4, <1>6, <1>7
<1>9. ASSUME NEW k \in 1 .. d PROVE t[u + k] = e[k]
  BY <1>2, <1>4, <1>6, <1>7
<1>10. ASSUME NEW k \in 1 .. v PROVE t[u + d + k] = g[k]
  BY <1>4, <1>6, <1>7
<1>11. Four(t, f, e, g, h, u, d, v, y)
  BY <1>6, <1>8, <1>9, <1>10 DEF Four
<1> QED
  BY <1>11 DEF a, c, t

\* The order the advice asks for: statement j moved left to follow i, or
\* statement i moved right to precede j.
MovedLeft(o, n, i, j) ==
  /\ o \in Seq(Nat) /\ Len(o) = n
  /\ \A k \in 1 .. i : o[k] = k
  /\ o[i + 1] = j
  /\ \A k \in i + 1 .. j - 1 : o[k + 1] = k
  /\ \A k \in j + 1 .. n : o[k] = k

MovedRight(o, n, i, j) ==
  /\ o \in Seq(Nat) /\ Len(o) = n
  /\ \A k \in 1 .. i - 1 : o[k] = k
  /\ \A k \in i .. j - 2 : o[k] = k + 1
  /\ o[j - 1] = i
  /\ \A k \in j .. n : o[k] = k

\* Reordered is one of the two, as movable_statement says.
LEMMA ReorderedIs ==
  ASSUME NEW infos, Len(infos) \in Nat, NEW i \in 1 .. Len(infos), NEW j \in 1 .. Len(infos), i < j
  PROVE  IF movable_statement(infos, i, j) = j
         THEN MovedLeft(Reordered(infos, i, j), Len(infos), i, j)
         ELSE MovedRight(Reordered(infos, i, j), Len(infos), i, j)
<1> DEFINE n == Len(infos)
           id == [k \in 1 .. n |-> k]
           o == Reordered(infos, i, j)
<1>1. n \in Nat /\ i \in 1 .. n /\ j \in 1 .. n /\ i < j
  OBVIOUS
<1> HIDE DEF n
<1>2. CASE movable_statement(infos, i, j) = j
  <2> DEFINE f == SubSeq(id, 1, i)
             e == <<j>>
             g == SubSeq(id, i + 1, j - 1)
             h == SubSeq(id, j + 1, n)
  <2>1. o = f \o e \o g \o h
    BY <1>2 DEF Reordered, n
  <2>2. Piece(f, 1, i) /\ Piece(g, i + 1, j - 1) /\ Piece(h, j + 1, n)
    <3>1. /\ 1 \in 1 .. n + 1 /\ i \in 1 - 1 .. n
          /\ i + 1 \in 1 .. n + 1 /\ j - 1 \in (i + 1) - 1 .. n
          /\ j + 1 \in 1 .. n + 1 /\ n \in (j + 1) - 1 .. n
      BY <1>1
    <3> HIDE DEF f, g, h
    <3> QED
      BY <1>1, <3>1, PieceOf DEF f, g, h
  <2>3. e \in Seq(Nat) /\ Len(e) = 1 /\ e[1] = j
    BY <1>1
  <2> HIDE DEF f, e, g, h
  <2> DEFINE v == j - 1 - i
             y == n - j
  <2>4. v \in Nat /\ y \in Nat /\ i \in Nat /\ i + 1 - 1 = i /\ (j - 1) + 1 - (i + 1) = v /\ n + 1 - (j + 1) = y
    BY <1>1
  <2>5. /\ f \in Seq(Nat) /\ Len(f) = i /\ \A k \in 1 .. i : f[k] = 1 + k - 1
        /\ g \in Seq(Nat) /\ Len(g) = v /\ \A k \in 1 .. v : g[k] = (i + 1) + k - 1
        /\ h \in Seq(Nat) /\ Len(h) = y /\ \A k \in 1 .. y : h[k] = (j + 1) + k - 1
    BY <2>2, <2>4 DEF Piece
  <2>6. Four(o, f, e, g, h, i, 1, v, y)
    <3> HIDE DEF o, v, y
    <3>1. 1 \in Nat
      OBVIOUS
    <3>2. Four(f \o e \o g \o h, f, e, g, h, i, 1, v, y)
      BY <2>3, <2>4, <2>5, <3>1, FourOf
    <3> QED
      BY <2>1, <3>2
  <2> HIDE DEF o
  <2>7. /\ o \in Seq(Nat) /\ Len(o) = i + 1 + v + y
        /\ \A k \in 1 .. i : o[k] = f[k]
        /\ \A k \in 1 .. 1 : o[i + k] = e[k]
        /\ \A k \in 1 .. v : o[i + 1 + k] = g[k]
        /\ \A k \in 1 .. y : o[i + 1 + v + k] = h[k]
    BY <2>6 DEF Four
  <2>8. ASSUME NEW k \in i + 1 .. j - 1 PROVE o[k + 1] = k
    <3>1. k - i \in 1 .. v /\ i + 1 + (k - i) = k + 1 /\ (i + 1) + (k - i) - 1 = k
      BY <1>1
    <3> QED
      BY <2>5, <2>7, <3>1
  <2>9. ASSUME NEW k \in j + 1 .. n PROVE o[k] = k
    <3>1. k - j \in 1 .. y /\ i + 1 + v + (k - j) = k /\ (j + 1) + (k - j) - 1 = k
      BY <1>1
    <3> QED
      BY <2>5, <2>7, <3>1
  <2>10. ASSUME NEW k \in 1 .. i PROVE o[k] = k
    BY <1>1, <2>5, <2>7
  <2>11. o[i + 1] = j /\ Len(o) = n
    BY <1>1, <2>3, <2>7
  <2> QED
    BY <1>2, <2>7, <2>8, <2>9, <2>10, <2>11 DEF MovedLeft, n, o
<1>3. CASE movable_statement(infos, i, j) # j
  <2> DEFINE f == SubSeq(id, 1, i - 1)
             g == SubSeq(id, i + 1, j - 1)
             e == <<i>>
             h == SubSeq(id, j, n)
  <2>1. o = f \o g \o e \o h
    BY <1>3 DEF Reordered, n
  <2>2. Piece(f, 1, i - 1) /\ Piece(g, i + 1, j - 1) /\ Piece(h, j, n)
    <3>1. /\ 1 \in 1 .. n + 1 /\ i - 1 \in 1 - 1 .. n
          /\ i + 1 \in 1 .. n + 1 /\ j - 1 \in (i + 1) - 1 .. n
          /\ j \in 1 .. n + 1 /\ n \in j - 1 .. n
      BY <1>1
    <3> HIDE DEF f, g, h
    <3> QED
      BY <1>1, <3>1, PieceOf DEF f, g, h
  <2>3. e \in Seq(Nat) /\ Len(e) = 1 /\ e[1] = i
    BY <1>1
  <2> HIDE DEF f, e, g, h
  <2> DEFINE u == i - 1
             v == j - 1 - i
             y == n + 1 - j
  <2>4. u \in Nat /\ v \in Nat /\ y \in Nat /\ (i - 1) + 1 - 1 = u /\ (j - 1) + 1 - (i + 1) = v
    BY <1>1
  <2>5. /\ f \in Seq(Nat) /\ Len(f) = u /\ \A k \in 1 .. u : f[k] = 1 + k - 1
        /\ g \in Seq(Nat) /\ Len(g) = v /\ \A k \in 1 .. v : g[k] = (i + 1) + k - 1
        /\ h \in Seq(Nat) /\ Len(h) = y /\ \A k \in 1 .. y : h[k] = j + k - 1
    BY <2>2, <2>4 DEF Piece
  <2>6. Four(o, f, g, e, h, u, v, 1, y)
    <3> HIDE DEF o, u, v, y
    <3>1. 1 \in Nat
      OBVIOUS
    <3>2. Four(f \o g \o e \o h, f, g, e, h, u, v, 1, y)
      BY <2>3, <2>4, <2>5, <3>1, FourOf
    <3> QED
      BY <2>1, <3>2
  <2> HIDE DEF o
  <2>7. /\ o \in Seq(Nat) /\ Len(o) = u + v + 1 + y
        /\ \A k \in 1 .. u : o[k] = f[k]
        /\ \A k \in 1 .. v : o[u + k] = g[k]
        /\ \A k \in 1 .. 1 : o[u + v + k] = e[k]
        /\ \A k \in 1 .. y : o[u + v + 1 + k] = h[k]
    BY <2>6 DEF Four
  <2>8. ASSUME NEW k \in i .. j - 2 PROVE o[k] = k + 1
    <3>1. k - u \in 1 .. v /\ u + (k - u) = k /\ (i + 1) + (k - u) - 1 = k + 1
      BY <1>1
    <3> QED
      BY <2>5, <2>7, <3>1
  <2>9. ASSUME NEW k \in j .. n PROVE o[k] = k
    <3>1. k + 1 - j \in 1 .. y /\ u + v + 1 + (k + 1 - j) = k /\ j + (k + 1 - j) - 1 = k
      BY <1>1
    <3> QED
      BY <2>5, <2>7, <3>1
  <2>10. ASSUME NEW k \in 1 .. i - 1 PROVE o[k] = k
    <3>1. k \in 1 .. u /\ 1 + k - 1 = k
      BY <1>1
    <3> HIDE DEF u, v, y
    <3> QED
      BY <2>5, <2>7, <3>1
  <2>11. o[j - 1] = i /\ Len(o) = n
    <3>1. u + v + 1 = j - 1
      BY <1>1
    <3> QED
      BY <1>1, <2>3, <2>7, <3>1
  <2> QED
    BY <1>3, <2>7, <2>8, <2>9, <2>10, <2>11 DEF MovedRight, n, o
<1> QED
  BY <1>2, <1>3

\* The mover and a statement it slides over do not meet: they do not conflict,
\* the mover is no channel operation and neither consumes a local.
LEMMA MoverApart ==
  ASSUME NEW b \in Bodies, NEW x \in DOMAIN b.stmts, NEW y \in DOMAIN b.stmts, x # y,
         ~conflicts(b.stmts, x, y), ~b.stmts[x].has_channel_op,
         b.stmts[x].consuming_reads = {}, b.stmts[y].consuming_reads = {}
  PROVE  Apart(b.stmts[x], x, b.stmts[y], y)
<1> DEFINE s == b.stmts[x]
           t == b.stmts[y]
<1>1. Len(b.stmts) \in Nat /\ DOMAIN b.stmts = 1 .. Len(b.stmts)
  BY BodiesAssumption
<1>2. SummaryTrue(s) /\ SummaryTrue(t)
  BY BodyTrue
<1>3. Changed(s) = defines(s) /\ Changed(t) = defines(t)
  BY DEF Changed
<1>4. ~statements_conflict(s, t) /\ ~statements_conflict(t, s)
  <2>1. CASE x < y
    <3>1. ~statements_conflict(s, t)
      BY <1>1, <2>1, ConflictIsCandidate DEF conflicts, Edge
    <3> QED
      BY <3>1, ConflictSymmetric
  <2>2. CASE y < x
    <3>1. ~statements_conflict(t, s)
      BY <1>1, <2>2, ConflictIsCandidate DEF conflicts, Edge
    <3> QED
      BY <3>1, ConflictSymmetric
  <2>3. x < y \/ y < x
    BY <1>1
  <2> QED
    BY <2>1, <2>2, <2>3
<1>5. Changed(s) \cap (reads(t) \cup Changed(t)) = {} /\ Modified(s, x) \cap CellsOf(t, y) = {}
  BY <1>2, <1>3, <1>4, NoInterference
<1>6. Changed(t) \cap (reads(s) \cup Changed(s)) = {} /\ Modified(t, y) \cap CellsOf(s, x) = {}
  BY <1>2, <1>3, <1>4, NoInterference
<1> QED
  BY <1>5, <1>6 DEF Apart

\* The advice slides one statement over statements it does not meet.
LEMMA AdviceSlides ==
  ASSUME NEW b \in Bodies, NEW i \in DOMAIN b.stmts, NEW j \in DOMAIN b.stmts, i < j,
         IsOpportunity(b.stmts, i, j),
         \A k \in i .. j : ~b.stmts[k].has_early_exit /\ b.stmts[k].consuming_reads = {}
  PROVE  LET o == Reordered(b.stmts, i, j)
         IN \/ Slid(b, o, Source(b), i + 1, j, j)
            \/ Slid(b, Source(b), o, i, j - 1, i)
<1> DEFINE n == Len(b.stmts)
           o == Reordered(b.stmts, i, j)
           S == Source(b)
<1>1. /\ n \in Nat /\ DOMAIN b.stmts = 1 .. n /\ IsOrder(b, S) /\ Len(S) = n
      /\ \A k \in 1 .. n : S[k] = k
  BY SourceOrder
<1>2. IF movable_statement(b.stmts, i, j) = j THEN MovedLeft(o, n, i, j) ELSE MovedRight(o, n, i, j)
  BY <1>1, ReorderedIs
<1>3. ~b.stmts[i].has_channel_op /\ ~b.stmts[j].has_channel_op
  BY DEF IsOpportunity, reorder_eligible
<1>4. ASSUME NEW k \in i .. j
      PROVE  k \in DOMAIN b.stmts /\ ~b.stmts[k].returns /\ b.stmts[k].consuming_reads = {}
  <2>1. k \in DOMAIN b.stmts
    BY <1>1
  <2> QED
    BY <2>1, BodyTrue DEF SummaryTrue
<1>5. i \in 1 .. n /\ j \in 1 .. n /\ i < j
  BY <1>1
<1> HIDE DEF n, o, S
<1>6. CASE movable_statement(b.stmts, i, j) = j
  <2>1. Slides(b.stmts, j, i, j)
    BY <1>5, <1>6 DEF movable_statement
  <2>2. MovedLeft(o, n, i, j)
    BY <1>2, <1>6
  <2>3. ASSUME NEW k \in i + 1 .. j - 1
        PROVE  ~b.stmts[k].returns /\ Apart(b.stmts[j], j, b.stmts[k], k)
    <3>1. k \in i .. j /\ j \in i .. j /\ k # j /\ ~conflicts(b.stmts, j, k)
      BY <1>5, <2>1 DEF Slides
    <3> QED
      BY <1>3, <1>4, <3>1, MoverApart
  <2>4. IsOrder(b, o)
    <3>1. ASSUME NEW k \in 1 .. n PROVE o[k] \in 1 .. n
      <4>1. k \in 1 .. i \/ k = i + 1 \/ (k - 1 \in i + 1 .. j - 1 /\ (k - 1) + 1 = k) \/ k \in j + 1 .. n
        BY <1>1, <1>5
      <4> QED
        BY <1>1, <1>5, <2>2, <4>1 DEF MovedLeft
    <3> QED
      BY <1>1, <2>2, <3>1 DEF MovedLeft, IsOrder
  <2>5. /\ Len(o) = n /\ i + 1 \in 1 .. n /\ j \in i + 1 .. n
        /\ \A k \in 1 .. n : k < i + 1 \/ k > j => o[k] = S[k]
        /\ o[i + 1] = j /\ S[j] = j
        /\ \A k \in i + 1 .. j - 1 : o[k + 1] = S[k] /\ S[k] = k
    <3>1. \A k \in i + 1 .. j - 1 : k \in 1 .. n
      BY <1>1, <1>5
    <3>2. ASSUME NEW k \in 1 .. n, k < i + 1 \/ k > j PROVE o[k] = S[k]
      <4>1. k \in 1 .. i \/ k \in j + 1 .. n
        BY <1>1, <1>5, <3>2
      <4> QED
        BY <1>1, <2>2, <4>1 DEF MovedLeft
    <3> QED
      BY <1>1, <1>5, <2>2, <3>1, <3>2 DEF MovedLeft
  <2>6. ~b.stmts[j].returns
    BY <1>4, <1>5
  <2>7. Slid(b, o, S, i + 1, j, j)
    BY <1>1, <2>3, <2>4, <2>5, <2>6 DEF Slid
  <2> QED
    BY <2>7 DEF o, S
<1>7. CASE movable_statement(b.stmts, i, j) # j
  <2>1. Slides(b.stmts, i, i, j)
    BY <1>7 DEF movable_statement, IsOpportunity
  <2>2. MovedRight(o, n, i, j)
    BY <1>2, <1>7
  <2>3. ASSUME NEW k \in i + 1 .. j - 1
        PROVE  ~b.stmts[k].returns /\ Apart(b.stmts[i], i, b.stmts[k], k)
    <3>1. k \in i .. j /\ i \in i .. j /\ k # i /\ ~conflicts(b.stmts, i, k)
      BY <1>5, <2>1 DEF Slides
    <3> QED
      BY <1>3, <1>4, <3>1, MoverApart
  <2>4. IsOrder(b, o)
    <3>1. ASSUME NEW k \in 1 .. n PROVE o[k] \in 1 .. n
      <4>1. k \in 1 .. i - 1 \/ k \in i .. j - 2 \/ k = j - 1 \/ k \in j .. n
        BY <1>1, <1>5
      <4>2. k \in i .. j - 2 => k + 1 \in 1 .. n
        BY <1>1, <1>5
      <4> QED
        BY <1>1, <1>5, <2>2, <4>1, <4>2 DEF MovedRight
    <3> QED
      BY <1>1, <2>2, <3>1 DEF MovedRight, IsOrder
  <2>5. /\ Len(o) = n /\ i \in 1 .. n /\ j - 1 \in i .. n
        /\ \A k \in 1 .. n : k < i \/ k > j - 1 => S[k] = o[k]
        /\ S[i] = i /\ o[j - 1] = i
        /\ \A k \in i .. (j - 1) - 1 : S[k + 1] = o[k] /\ o[k] = k + 1 /\ k + 1 \in i + 1 .. j - 1
    <3>1. \A k \in i .. (j - 1) - 1 : k + 1 \in 1 .. n /\ k + 1 \in i + 1 .. j - 1 /\ k \in i .. j - 2
      BY <1>1, <1>5
    <3>2. ASSUME NEW k \in 1 .. n, k < i \/ k > j - 1 PROVE S[k] = o[k]
      <4>1. k \in 1 .. i - 1 \/ k \in j .. n
        BY <1>1, <1>5, <3>2
      <4> QED
        BY <1>1, <2>2, <4>1 DEF MovedRight
    <3> QED
      BY <1>1, <1>5, <2>2, <3>1, <3>2 DEF MovedRight
  <2>6. ~b.stmts[i].returns
    BY <1>4, <1>5
  <2>7. Slid(b, S, o, i, j - 1, i)
    BY <1>1, <2>3, <2>4, <2>5, <2>6 DEF Slid
  <2> QED
    BY <2>7 DEF o, S
<1> QED
  BY <1>6, <1>7

\* The reorder advisory is safe to follow for every body: with no exit and no
\* consuming read among the statements from i to j, moving the statement the
\* advice names leaves the returned value and every resource as they were.
THEOREM AdviceSound == Spec => []ReorderSound
<1>1. BodyChosen => ReorderSound
  <2> SUFFICES ASSUME BodyChosen, NEW i \in DOMAIN body.stmts, NEW j \in DOMAIN body.stmts,
                      i < j, IsOpportunity(body.stmts, i, j),
                      \A k \in i .. j : /\ ~body.stmts[k].has_early_exit
                                        /\ body.stmts[k].consuming_reads = {}
               PROVE  LET moved == InOrder(body, Reordered(body.stmts, i, j))
                      IN /\ moved.result = Sequential(body).result
                         /\ moved.world = Sequential(body).world
    BY DEF ReorderSound
  <2> DEFINE o == Reordered(body.stmts, i, j)
             S == Source(body)
             n == Len(body.stmts)
             a == RefIn(body, o, n)
             r == Ref(body, n)
  <2>1. body \in Bodies
    BY DEF BodyChosen
  <2>2. n \in Nat /\ IsOrder(body, S) /\ Len(S) = n /\ Sequential(body) = Epilogue(body, r)
    BY <2>1, SourceOrder
  <2>3. Slid(body, o, S, i + 1, j, j) \/ Slid(body, S, o, i, j - 1, i)
    BY <2>1, AdviceSlides
  <2>4. IsOrder(body, o) /\ Len(o) = n
    BY <2>2, <2>3 DEF Slid
  <2>5. Agree(a, r) \/ Agree(r, a)
    <3> HIDE DEF o, S, n
    <3>1. CASE Slid(body, o, S, i + 1, j, j)
      <4>1. Agree(RefIn(body, o, Len(o)), RefIn(body, S, Len(o)))
        BY <2>1, <3>1, SlidAgree
      <4> QED
        BY <2>4, <4>1 DEF Ref, S
    <3>2. CASE Slid(body, S, o, i, j - 1, i)
      <4>1. Agree(RefIn(body, S, Len(S)), RefIn(body, o, Len(S)))
        BY <2>1, <3>2, SlidAgree
      <4> QED
        BY <2>2, <4>1 DEF Ref, S
    <3> QED
      BY <2>3, <3>1, <3>2
  <2>6. InOrder(body, o) = Epilogue(body, a)
    BY <2>4, RefSteps
  <2>7. /\ DOMAIN a = {"loc", "world", "out", "freed", "result"}
        /\ DOMAIN r = {"loc", "world", "out", "freed", "result"}
    <3>1. n \in 0 .. n
      BY <2>2
    <3> HIDE DEF o, n
    <3>2. StateOK(RefIn(body, o, n), AllCells(body.stmts)) /\ StateOK(RefIn(body, S, n), AllCells(body.stmts))
      BY <2>1, <2>2, <2>4, <3>1, RefStates
    <3> QED
      BY <3>2 DEF StateOK, Ref
  <2> HIDE DEF a, r, o
  <2>8. Left(body, a) /\ Left(body, r)
    BY <2>7, EpilogueIs
  <2>9. a.result = r.result /\ a.world = r.world /\ \A m \in Names : a.loc.val[m] = r.loc.val[m]
    BY <2>5 DEF Agree
  <2>10. [m \in body.final_reads |-> a.loc.val[m]] = [m \in body.final_reads |-> r.loc.val[m]]
    <3>1. body.final_reads \subseteq Names
      BY <2>1, ScopesAssumption
    <3> QED
      BY <2>9, <3>1
  <2>11. /\ Epilogue(body, a).result = Epilogue(body, r).result
         /\ Epilogue(body, a).world = Epilogue(body, r).world
    BY <2>8, <2>9, <2>10 DEF Left
  <2> QED
    BY <2>2, <2>6, <2>11 DEF o
<1> QED
  BY <1>1, BodyFixed, PTL
=============================================================================
