--------------------------- MODULE TaskGroupProofs ---------------------------
(***************************************************************************)
(* Proofs about TaskGroup, for any set of tasks, any of them coroutines,   *)
(* and any number of workers.  What is claimed about who frees             *)
(* a handle holds for any set of group spawners; that nobody touches a     *)
(* freed handle, and that no child outlives the group, when only the       *)
(* owner of the group spawns through it.                                   *)
(***************************************************************************)
EXTENDS TaskGroup, FiniteSetTheorems, FunctionTheorems, SequenceTheorems, TLAPS

\* No handle is in the list twice.
NoDup(s) == \A i, j \in DOMAIN s : s[i] = s[j] => i = j

\* How far a handle has got, and which flags go with it.
Progress(h) ==
  /\ run[h] = "unborn" <=> site[h] = "none"
  /\ done[h] <=> run[h] = "ended"
  /\ run[h] = "parked" => h \in CoroTasks
  /\ site[h] \in {"none", "new"} => ~registered[h]
  /\ site[h] = "marked" => registered[h]
  /\ site[h] = "detach" => discard[h]
  /\ site[h] = "flagged" => discard[h] /\ h \in CoroTasks
  /\ detached[h] => discard[h] /\ site[h] \in {"flagged", "settled"}
  /\ site[h] \in {"flagged", "settled"} /\ discard[h] => detached[h]
  /\ armed[h] => /\ h \in CoroTasks /\ detached[h] /\ ~registered[h]
                 /\ site[h] = "settled"
  /\ join[h] # "none" => site[h] = "settled" /\ ~discard[h]
  /\ join[h] = "free" => ~registered[h]
  /\ join[h] = "keep" => registered[h]

\* Who has taken on the free of a handle, and what that presupposes.  A discarded
\* free spawn that is over is claimed; one that is not over yet has its claim
\* still to come, from the worker or through the armed slot.
Claims(h) ==
  /\ \A v, w \in freers[h] : v = w
  /\ freers[h] # {} => done[h] /\ site[h] \in {"detach", "flagged", "settled"}
  /\ reaped[h] \/ freed[h] => freers[h] # {}
  /\ ~registered[h] /\ freers[h] # {} => site[h] = "settled"
  /\ ~registered[h] /\ ~discard[h] /\ join[h] # "joined" => freers[h] = {}
  /\ discard[h] /\ ~registered[h] /\ site[h] = "settled" =>
       IF done[h] THEN freers[h] # {} ELSE h \in CoroTasks => armed[h]

\* The group lists exactly the registered handles nobody has freed, each once.
Lists ==
  /\ NoDup(children) /\ NoDup(taken) /\ Listed(children) \intersect Listed(taken) = {}
  /\ group \in {"open", "freed"} => taken = <<>>
  /\ \A h \in Tasks :
       h \in Listed(children) \union Listed(taken)
         <=> registered[h] /\ site[h] # "marked" /\ freers[h] = {}

\* A thread is inside at most one spawn site, and Main inside none, nor inside
\* a join, once it has begun to drop the group.
OneAtATime ==
  /\ \A g, h \in Tasks :
       /\ parent[g] = parent[h]
       /\ site[g] \notin {"none", "settled"} /\ site[h] \notin {"none", "settled"}
       => g = h
  /\ group # "open" =>
       \A h \in Tasks : parent[h] = Main => /\ site[h] \in {"none", "settled"}
                                            /\ join[h] \in {"none", "joined"}

\* The inductive invariant for any set of group spawners.
IInv ==
  /\ TypeOK
  /\ \A h \in Tasks : Progress(h)
  /\ \A h \in Tasks : Claims(h)
  /\ Lists
  /\ OneAtATime

USE KindsAssumption, SpawnersAssumption, WorkersAssumption

-----------------------------------------------------------------------------
(***************************************************************************)
(* The lists.                                                              *)
(***************************************************************************)

\* Vec::push.
LEMMA ListedAppend ==
  ASSUME NEW S, NEW s \in Seq(S), NEW x \in S
  PROVE  /\ Append(s, x) \in Seq(S)
         /\ Listed(Append(s, x)) = Listed(s) \union {x}
         /\ NoDup(s) /\ x \notin Listed(s) => NoDup(Append(s, x))
<1> DEFINE a == Append(s, x)
<1>1. /\ a \in Seq(S) /\ Len(a) = Len(s) + 1
      /\ \A i \in 1..Len(s) : a[i] = s[i]
      /\ a[Len(s) + 1] = x
  BY AppendProperties
<1>2. Len(s) \in Nat /\ DOMAIN s = 1..Len(s) /\ DOMAIN a = 1..(Len(s) + 1)
  BY <1>1, LenProperties
<1> HIDE DEF a
<1>3. 1..(Len(s) + 1) = (1..Len(s)) \union {Len(s) + 1}
  BY <1>2
<1>4. Listed(a) = Listed(s) \union {x}
  BY <1>1, <1>2, <1>3 DEF Listed
<1>5. ASSUME NoDup(s), x \notin Listed(s) PROVE NoDup(a)
  <2> SUFFICES ASSUME NEW i \in DOMAIN a, NEW j \in DOMAIN a, a[i] = a[j] PROVE i = j
    BY DEF NoDup
  <2>1. \A k \in 1..Len(s) : s[k] # x
    BY <1>2, <1>5 DEF Listed
  <2>2. CASE i \in 1..Len(s) /\ j \in 1..Len(s)
    BY <1>1, <1>2, <1>5, <2>2 DEF NoDup
  <2>3. CASE i = Len(s) + 1 \/ j = Len(s) + 1
    BY <1>1, <1>2, <1>3, <2>1, <2>3
  <2>4. QED
    BY <1>2, <1>3, <2>2, <2>3
<1>6. QED
  BY <1>1, <1>4, <1>5 DEF a

\* The next child of the walk over the taken list.
LEMMA ListedTail ==
  ASSUME NEW S, NEW s \in Seq(S), s # <<>>, NoDup(s)
  PROVE  /\ Head(s) \in S /\ Tail(s) \in Seq(S)
         /\ Head(s) \in Listed(s)
         /\ Listed(Tail(s)) = Listed(s) \ {Head(s)}
         /\ NoDup(Tail(s))
<1>1. /\ Head(s) \in S /\ Tail(s) \in Seq(S) /\ Len(Tail(s)) = Len(s) - 1
      /\ \A i \in 1..Len(Tail(s)) : Tail(s)[i] = s[i + 1]
  BY HeadTailProperties
<1>2. Len(s) \in Nat /\ Len(s) # 0 /\ Head(s) = s[1] /\ DOMAIN s = 1..Len(s)
  BY EmptySeq, LenProperties
<1>3. DOMAIN Tail(s) = 1..(Len(s) - 1)
  BY <1>1, LenProperties
<1>4. \A i \in 1..(Len(s) - 1) : i + 1 \in 1..Len(s) /\ Tail(s)[i] = s[i + 1]
  BY <1>1, <1>2
<1>5. \A i \in 1..Len(s) : i # 1 => i - 1 \in 1..(Len(s) - 1) /\ (i - 1) + 1 = i
  BY <1>2
<1>6. Listed(Tail(s)) \subseteq Listed(s) \ {Head(s)}
  <2> SUFFICES ASSUME NEW i \in 1..(Len(s) - 1)
               PROVE  Tail(s)[i] \in Listed(s) \ {Head(s)}
    BY <1>3 DEF Listed
  <2>1. i + 1 \in 1..Len(s) /\ 1 \in 1..Len(s) /\ i + 1 # 1
    BY <1>2, <1>4
  <2>2. s[i + 1] # s[1]
    BY <1>2, <2>1 DEF NoDup
  <2>3. s[i + 1] \in Listed(s)
    BY <1>2, <2>1 DEF Listed
  <2>4. QED
    BY <1>2, <1>4, <2>2, <2>3
<1>7. Listed(s) \ {Head(s)} \subseteq Listed(Tail(s))
  <2> SUFFICES ASSUME NEW i \in 1..Len(s), i # 1 PROVE s[i] \in Listed(Tail(s))
    BY <1>2 DEF Listed
  <2>1. i - 1 \in 1..(Len(s) - 1) /\ Tail(s)[i - 1] = s[i]
    BY <1>4, <1>5
  <2>2. QED
    BY <1>3, <2>1 DEF Listed
<1>8. NoDup(Tail(s))
  <2> SUFFICES ASSUME NEW i \in 1..(Len(s) - 1), NEW j \in 1..(Len(s) - 1),
                      Tail(s)[i] = Tail(s)[j]
               PROVE  i = j
    BY <1>3 DEF NoDup
  <2>1. i + 1 = j + 1
    BY <1>2, <1>4 DEF NoDup
  <2>2. QED
    BY <2>1
<1>9. Head(s) \in Listed(s)
  <2>1. 1 \in DOMAIN s
    BY <1>2
  <2>2. QED
    BY <1>2, <2>1 DEF Listed
<1>10. QED
  BY <1>1, <1>6, <1>7, <1>8, <1>9

\* Vec::retain.  The rank of the kept positions is a bijection, so every kept
\* element is there once.
LEMMA ListedRetain ==
  ASSUME NEW S, NEW s \in Seq(S), NEW keep
  PROVE  /\ Retain(s, keep) \in Seq(S)
         /\ Listed(Retain(s, keep)) = Listed(s) \intersect keep
         /\ NoDup(s) => NoDup(Retain(s, keep))
<1> DEFINE left    == {i \in DOMAIN s : s[i] \in keep}
           Upto(i) == {j \in left : j <= i}
           n       == Cardinality(left)
           rank    == [i \in left |-> Cardinality(Upto(i))]
           at(m)   == CHOOSE i \in left : Cardinality(Upto(i)) = m
           r       == Retain(s, keep)
<1>1. Len(s) \in Nat /\ DOMAIN s = 1..Len(s) /\ \A i \in 1..Len(s) : s[i] \in S
  BY LenProperties
<1>2. IsFiniteSet(left) /\ n \in Nat /\ left \subseteq Nat
  <2>1. left \in SUBSET (1..Len(s)) /\ IsFiniteSet(1..Len(s))
    BY <1>1, FS_Interval
  <2>2. IsFiniteSet(left)
    BY <2>1, FS_Subset
  <2>3. QED
    BY <1>1, <2>1, <2>2, FS_CardinalityType
<1>3. ASSUME NEW i \in left
      PROVE  IsFiniteSet(Upto(i)) /\ Cardinality(Upto(i)) \in 1..n
  <2>1. Upto(i) \in SUBSET left /\ i \in Upto(i)
    BY <1>2
  <2>2. /\ IsFiniteSet(Upto(i)) /\ Cardinality(Upto(i)) <= n
        /\ Cardinality(Upto(i)) \in Nat
    BY <1>2, <2>1, FS_Subset, FS_CardinalityType
  <2>3. Cardinality(Upto(i)) # 0
    BY <2>1, <2>2, FS_EmptySet
  <2>4. QED
    BY <1>2, <2>2, <2>3
<1>4. ASSUME NEW i \in left, NEW j \in left, i < j
      PROVE  Cardinality(Upto(i)) # Cardinality(Upto(j))
  <2>1. Upto(i) \in SUBSET Upto(j) /\ j \notin Upto(i) /\ j \in Upto(j)
    BY <1>2, <1>4
  <2>2. IsFiniteSet(Upto(j))
    BY <1>3
  <2>3. QED
    BY <2>1, <2>2, FS_Subset
<1>5. ASSUME NEW i \in left, NEW j \in left, Cardinality(Upto(i)) = Cardinality(Upto(j))
      PROVE  i = j
  <2>1. ~(i < j) /\ ~(j < i)
    BY <1>4, <1>5
  <2>2. i \in Nat /\ j \in Nat
    BY <1>2
  <2> HIDE DEF left
  <2>3. QED
    BY <2>1, <2>2
<1> HIDE DEF left, Upto
<1>6. ASSUME NEW m \in 1..n PROVE \E i \in left : Cardinality(Upto(i)) = m
  <2>1. rank \in Injection(left, 1..n)
    <3>1. rank \in [left -> 1..n]
      BY <1>3
    <3>2. \A i, j \in left : rank[i] = rank[j] => i = j
      BY <1>5
    <3>3. QED
      BY <3>1, <3>2 DEF Injection, IsInjective
  <2>2. IsFiniteSet(1..n) /\ Cardinality(1..n) = n
    BY <1>2, FS_Interval
  <2>3. rank \in Surjection(left, 1..n)
    BY <2>1, <2>2, FS_Injection
  <2>4. QED
    BY <2>3 DEF Surjection
<1>7. \A m \in 1..n : at(m) \in left /\ Cardinality(Upto(at(m))) = m
  BY <1>6
<1>8. \A i \in left : at(Cardinality(Upto(i))) = i
  BY <1>3, <1>5, <1>7
<1>9. r = [m \in 1..n |-> s[at(m)]]
  BY DEF Retain, left, Upto
<1>l. \A i \in left : i \in 1..Len(s) /\ s[i] \in S /\ s[i] \in keep
  BY <1>1 DEF left
<1>k. \A i \in 1..Len(s) : s[i] \in keep => i \in left
  BY <1>1 DEF left
<1> HIDE DEF at, n, r
<1>10. r \in [1..n -> S] /\ r \in Seq(S) /\ DOMAIN r = 1..n
  <2>1. r \in [1..n -> S]
    BY <1>7, <1>9, <1>l
  <2>2. QED
    BY <1>2, <2>1
<1>11. Listed(r) = Listed(s) \intersect keep
  <2>1. ASSUME NEW m \in 1..n PROVE r[m] \in Listed(s) \intersect keep
    BY <1>1, <1>7, <1>9, <1>l DEF Listed
  <2>2. ASSUME NEW i \in 1..Len(s), s[i] \in keep PROVE s[i] \in Listed(r)
    <3>1. i \in left
      BY <1>k, <2>2
    <3>2. Cardinality(Upto(i)) \in 1..n /\ r[Cardinality(Upto(i))] = s[i]
      BY <1>3, <1>8, <1>9, <3>1
    <3>3. QED
      BY <1>10, <3>2 DEF Listed
  <2>3. QED
    BY <1>1, <1>10, <2>1, <2>2 DEF Listed
<1>12. ASSUME NoDup(s) PROVE NoDup(r)
  <2> SUFFICES ASSUME NEW l \in 1..n, NEW m \in 1..n, r[l] = r[m] PROVE l = m
    BY <1>10 DEF NoDup
  <2>1. at(l) = at(m)
    BY <1>1, <1>7, <1>9, <1>12, <1>l DEF NoDup
  <2>2. QED
    BY <1>7, <2>1
<1>13. QED
  BY <1>10, <1>11, <1>12 DEF r

-----------------------------------------------------------------------------
\* The handles in the lists are tasks, and the sweep removes those it frees.
LEMMA SweepFacts ==
  ASSUME IInv, NEW h \in Tasks, PushAndSweep(h)
  PROVE  LET swept == {c \in Listed(children) : TerminalDetached(c)}
         IN  /\ swept \subseteq Tasks /\ h \notin swept /\ h \notin Listed(children)
             /\ children' \in Seq(Tasks) /\ NoDup(children')
             /\ Listed(children') = (Listed(children) \union {h}) \ swept
             /\ freers' = [c \in Tasks |-> IF c \in swept THEN freers[c] \union {"sweep"}
                                            ELSE freers[c]]
             /\ freed' = [c \in Tasks |-> freed[c] \/ c \in swept]
<1> DEFINE swept  == {c \in Listed(children) : TerminalDetached(c)}
           listed == Append(children, h)
           all    == {c \in Listed(listed) : TerminalDetached(c)}
<1>1. children \in Seq(Tasks) /\ NoDup(children) /\ Listed(children) \subseteq Tasks
  BY LenProperties DEF IInv, TypeOK, Lists, Listed
<1>2. h \notin Listed(children) /\ ~TerminalDetached(h)
  BY DEF IInv, Lists, Progress, PushAndSweep, TerminalDetached
<1>3. /\ listed \in Seq(Tasks) /\ NoDup(listed)
      /\ Listed(listed) = Listed(children) \union {h}
  BY <1>1, <1>2, ListedAppend
<1>4. all = swept
  BY <1>2, <1>3
<1>5. /\ children' = Retain(listed, Tasks \ all)
      /\ freers' = [c \in Tasks |-> IF c \in all THEN freers[c] \union {"sweep"}
                                     ELSE freers[c]]
      /\ freed' = [c \in Tasks |-> freed[c] \/ c \in all]
  BY DEF PushAndSweep
<1> HIDE DEF listed, all
<1>6. /\ children' \in Seq(Tasks) /\ NoDup(children')
      /\ Listed(children') = Listed(listed) \intersect (Tasks \ all)
  BY <1>3, <1>5, ListedRetain
<1>7. Listed(children') = (Listed(children) \union {h}) \ swept
  BY <1>1, <1>3, <1>4, <1>6
<1>8. QED
  BY <1>1, <1>2, <1>4, <1>5, <1>6, <1>7

\* The child that the group joins next is one it lists, and then lists no more.
LEMMA JoinFacts ==
  ASSUME IInv, GroupJoinNext
  PROVE  /\ Head(taken) \in Tasks /\ Head(taken) \in Listed(taken)
         /\ taken' \in Seq(Tasks) /\ NoDup(taken')
         /\ Listed(taken') = Listed(taken) \ {Head(taken)}
  BY ListedTail DEF IInv, TypeOK, Lists, GroupJoinNext

\* Every step keeps each variable in its type.
LEMMA TypeStep == IInv /\ [Next]_vars => TypeOK'
<1> SUFFICES ASSUME IInv, [Next]_vars PROVE TypeOK'
  OBVIOUS
<1>0. TypeOK
  BY DEF IInv
<1> USE <1>0 DEF TypeOK, Runs, Sites, Joins, Freer, Owners, Put, Claim, flags
<1>1. ASSUME NEW p \in Owners, NEW h \in Tasks, NEW inGroup \in BOOLEAN,
             NEW drop \in BOOLEAN, Spawn(p, h, inGroup, drop)
      PROVE  TypeOK'
  BY <1>1 DEF Spawn
<1>2. ASSUME NEW h \in Tasks, MarkRegistered(h) PROVE TypeOK'
  BY <1>2 DEF MarkRegistered
<1>3. ASSUME NEW h \in Tasks, PushAndSweep(h) PROVE TypeOK'
  <2> DEFINE swept == {c \in Listed(children) : TerminalDetached(c)}
  <2>1. /\ children' \in Seq(Tasks)
        /\ freers' = [c \in Tasks |-> IF c \in swept THEN freers[c] \union {"sweep"}
                                       ELSE freers[c]]
        /\ freed' = [c \in Tasks |-> freed[c] \/ c \in swept]
    BY <1>3, SweepFacts
  <2> HIDE DEF swept
  <2>2. freers' \in [Tasks -> SUBSET Freer] /\ freed' \in [Tasks -> BOOLEAN]
    BY <2>1
  <2>3. QED
    BY <1>3, <2>1, <2>2 DEF PushAndSweep
<1>4. ASSUME NEW h \in Tasks, DetachThread(h) PROVE TypeOK'
  BY <1>4 DEF DetachThread
<1>5. ASSUME NEW h \in Tasks, DetachCoro(h) PROVE TypeOK'
  BY <1>5 DEF DetachCoro
<1>6. ASSUME NEW h \in Tasks, ArmReap(h) PROVE TypeOK'
  BY <1>6 DEF ArmReap
<1>7. ASSUME NEW h \in Tasks, Start(h) PROVE TypeOK'
  BY <1>7 DEF Start
<1>8. ASSUME NEW h \in Tasks, Complete(h) PROVE TypeOK'
  BY <1>8 DEF Complete
<1>9. ASSUME NEW h \in Tasks, SignalSlot(h) PROVE TypeOK'
  BY <1>9 DEF SignalSlot
<1>10. ASSUME NEW h \in Tasks, FreeHandle(h) PROVE TypeOK'
  BY <1>10 DEF FreeHandle
<1>11. ASSUME NEW h \in Tasks, JoinBegin(h) PROVE TypeOK'
  BY <1>11 DEF JoinBegin
<1>12. ASSUME NEW h \in Tasks, JoinEnd(h) PROVE TypeOK'
  BY <1>12 DEF JoinEnd
<1>13. ASSUME NEW p \in Owners, GroupCancel(p) PROVE TypeOK'
  BY <1>13 DEF GroupCancel
<1>14. ASSUME GroupTake PROVE TypeOK'
  BY <1>14, EmptySeq DEF GroupTake
<1>15. ASSUME GroupJoinNext PROVE TypeOK'
  <2>1. Head(taken) \in Tasks /\ taken' \in Seq(Tasks)
    BY <1>15, JoinFacts
  <2>2. freers' \in [Tasks -> SUBSET Freer] /\ freed' \in [Tasks -> BOOLEAN]
    BY <1>15, <2>1 DEF GroupJoinNext
  <2>3. QED
    BY <1>15, <2>1, <2>2 DEF GroupJoinNext
<1>16. ASSUME GroupFree \/ Finished \/ UNCHANGED vars PROVE TypeOK'
  BY <1>16 DEF GroupFree, Finished, vars
<1> HIDE <1>0 DEF TypeOK, Runs, Sites, Joins, Freer, Owners, Put, Claim, flags
<1>17. QED
  BY <1>1, <1>2, <1>3, <1>4, <1>5, <1>6, <1>7, <1>8, <1>9, <1>10, <1>11, <1>12,
     <1>13, <1>14, <1>15, <1>16 DEF Next, SiteStep

\* Every field of handle g, cancel and parent aside, is what it was.
Untouched(g) ==
  /\ run'[g] = run[g] /\ site'[g] = site[g] /\ discard'[g] = discard[g]
  /\ registered'[g] = registered[g] /\ detached'[g] = detached[g]
  /\ reaped'[g] = reaped[g] /\ done'[g] = done[g] /\ armed'[g] = armed[g]
  /\ join'[g] = join[g] /\ freers'[g] = freers[g] /\ freed'[g] = freed[g]

\* Each step takes one handle a step further, its flags with it, and claims the
\* free of it only where no other party has or will.
LEMMA HandleStep ==
  ASSUME IInv, [Next]_vars, NEW g \in Tasks
  PROVE  Progress(g)' /\ Claims(g)'
<1> DEFINE Goal == Progress(g)' /\ Claims(g)'
<1>0. TypeOK /\ Progress(g) /\ Claims(g)
  BY DEF IInv
<1>u. ASSUME Untouched(g) PROVE Goal
  BY <1>0, <1>u DEF Untouched, Progress, Claims
<1> USE DEF TypeOK, Put, Claim, flags
<1>1. ASSUME NEW p \in Owners, NEW h \in Tasks, NEW inGroup \in BOOLEAN,
             NEW drop \in BOOLEAN, Spawn(p, h, inGroup, drop)
      PROVE  Goal
  <2>1. CASE g # h
    BY <1>0, <1>1, <1>u, <2>1 DEF Spawn, Untouched
  <2>2. CASE g = h
    BY <1>0, <1>1, <2>2 DEF Spawn, Progress, Claims
  <2>3. QED
    BY <2>1, <2>2
<1>2. ASSUME NEW h \in Tasks, MarkRegistered(h) PROVE Goal
  <2>1. CASE g # h
    BY <1>0, <1>2, <1>u, <2>1 DEF MarkRegistered, Untouched
  <2>2. CASE g = h
    BY <1>0, <1>2, <2>2 DEF MarkRegistered, Progress, Claims
  <2>3. QED
    BY <2>1, <2>2
<1>3. ASSUME NEW h \in Tasks, PushAndSweep(h) PROVE Goal
  <2> DEFINE swept == {c \in Listed(children) : TerminalDetached(c)}
  <2>1. /\ h \notin swept
        /\ freers' = [c \in Tasks |-> IF c \in swept THEN freers[c] \union {"sweep"}
                                       ELSE freers[c]]
        /\ freed' = [c \in Tasks |-> freed[c] \/ c \in swept]
    BY <1>3, SweepFacts
  <2>2. g \in swept => /\ registered[g] /\ site[g] # "marked" /\ freers[g] = {}
                       /\ detached[g] /\ done[g]
    BY DEF IInv, Lists, TerminalDetached
  <2> HIDE DEF swept
  <2>3. CASE g \in swept
    <3>1. freers'[g] = {"sweep"} /\ freed'[g] = TRUE
      BY <2>1, <2>2, <2>3
    <3>2. /\ UNCHANGED <<run, discard, registered, detached, reaped, done, armed, join>>
          /\ site'[g] = site[g]
      BY <1>0, <1>3, <2>1, <2>3 DEF PushAndSweep
    <3>3. QED
      BY <1>0, <2>2, <2>3, <3>1, <3>2 DEF Progress, Claims
  <2>4. CASE g \notin swept /\ g # h
    BY <1>0, <1>3, <1>u, <2>1, <2>4 DEF PushAndSweep, Untouched
  <2>5. CASE g = h
    BY <1>0, <1>3, <2>1, <2>5 DEF PushAndSweep, Progress, Claims
  <2>6. QED
    BY <2>3, <2>4, <2>5
<1>4. ASSUME NEW h \in Tasks, DetachThread(h) PROVE Goal
  <2>1. CASE g # h
    BY <1>0, <1>4, <1>u, <2>1 DEF DetachThread, Untouched
  <2>2. CASE g = h
    BY <1>0, <1>4, <2>2 DEF DetachThread, Progress, Claims
  <2>3. QED
    BY <2>1, <2>2
<1>5. ASSUME NEW h \in Tasks, DetachCoro(h) PROVE Goal
  <2>1. CASE g # h
    BY <1>0, <1>5, <1>u, <2>1 DEF DetachCoro, Untouched
  <2>2. CASE g = h
    BY <1>0, <1>5, <2>2 DEF DetachCoro, Progress, Claims
  <2>3. QED
    BY <2>1, <2>2
<1>6. ASSUME NEW h \in Tasks, ArmReap(h) PROVE Goal
  <2>1. CASE g # h
    BY <1>0, <1>6, <1>u, <2>1 DEF ArmReap, Untouched
  <2>2. CASE g = h
    BY <1>0, <1>6, <2>2 DEF ArmReap, Progress, Claims
  <2>3. QED
    BY <2>1, <2>2
<1>7. ASSUME NEW h \in Tasks, Start(h) PROVE Goal
  <2>1. CASE g # h
    BY <1>0, <1>7, <1>u, <2>1 DEF Start, Untouched
  <2>2. CASE g = h
    BY <1>0, <1>7, <2>2 DEF Start, Progress, Claims
  <2>3. QED
    BY <2>1, <2>2
<1>8. ASSUME NEW h \in Tasks, Complete(h) PROVE Goal
  <2>1. CASE g # h
    BY <1>0, <1>8, <1>u, <2>1 DEF Complete, Untouched
  <2>2. CASE g = h
    <3>1. run[h] = "running"
      BY <1>8 DEF Complete, Ready
    <3>2. QED
      BY <1>0, <1>8, <2>2, <3>1 DEF Complete, Progress, Claims
  <2>3. QED
    BY <2>1, <2>2
<1>9. ASSUME NEW h \in Tasks, SignalSlot(h) PROVE Goal
  <2>1. CASE g # h
    BY <1>0, <1>9, <1>u, <2>1 DEF SignalSlot, Untouched
  <2>2. CASE g = h
    <3>1. done[h] = FALSE /\ freers[h] = {} /\ h \in CoroTasks
      BY <1>0, <1>9, <2>2 DEF SignalSlot, Progress, Claims
    <3>2. freers'[h] = IF armed[h] THEN {"signal"} ELSE {}
      BY <1>0, <1>9, <3>1 DEF SignalSlot
    <3>3. /\ done'[h] = TRUE /\ run'[h] = "ended"
          /\ UNCHANGED <<site, discard, registered, detached, reaped, armed, join, freed>>
      BY <1>0, <1>9 DEF SignalSlot
    <3>4. QED
      BY <1>0, <1>9, <2>2, <3>1, <3>2, <3>3 DEF SignalSlot, Progress, Claims
  <2>3. QED
    BY <2>1, <2>2
<1>10. ASSUME NEW h \in Tasks, FreeHandle(h) PROVE Goal
  <2>1. CASE g # h
    BY <1>0, <1>10, <1>u, <2>1 DEF FreeHandle, Untouched
  <2>2. CASE g = h
    BY <1>0, <1>10, <2>2 DEF FreeHandle, Progress, Claims
  <2>3. QED
    BY <2>1, <2>2
<1>11. ASSUME NEW h \in Tasks, JoinBegin(h) PROVE Goal
  <2>1. CASE g # h
    BY <1>0, <1>11, <1>u, <2>1 DEF JoinBegin, Untouched
  <2>2. CASE g = h
    BY <1>0, <1>11, <2>2 DEF JoinBegin, Progress, Claims
  <2>3. QED
    BY <2>1, <2>2
<1>12. ASSUME NEW h \in Tasks, JoinEnd(h) PROVE Goal
  <2>1. CASE g # h
    BY <1>0, <1>12, <1>u, <2>1 DEF JoinEnd, Untouched
  <2>2. CASE g = h
    BY <1>0, <1>12, <2>2 DEF JoinEnd, Progress, Claims
  <2>3. QED
    BY <2>1, <2>2
<1>13. ASSUME \/ \E p \in Owners : GroupCancel(p)
              \/ GroupTake \/ GroupFree \/ Finished \/ UNCHANGED vars
       PROVE  Goal
  BY <1>u, <1>13 DEF GroupCancel, GroupTake, GroupFree, Finished, vars, Untouched
<1>14. ASSUME GroupJoinNext PROVE Goal
  <2> DEFINE h == Head(taken)
  <2>1. h \in Tasks /\ h \in Listed(taken)
    BY <1>14, JoinFacts
  <2>2. registered[h] /\ freers[h] = {} /\ site[h] # "marked" /\ done[h]
    BY <1>14, <2>1 DEF IInv, Lists, GroupJoinNext
  <2>3. /\ freers' = [freers EXCEPT ![h] = @ \union {"group"}]
        /\ freed' = [freed EXCEPT ![h] = TRUE]
        /\ UNCHANGED <<run, site, discard, registered, detached, reaped, done, armed, join>>
    BY <1>14 DEF GroupJoinNext
  <2> HIDE DEF h
  <2>4. CASE g # h
    BY <1>0, <1>u, <2>3, <2>4 DEF Untouched
  <2>5. CASE g = h
    <3>1. freers'[g] = {"group"} /\ freed'[g] = TRUE
      BY <1>0, <2>2, <2>3, <2>5
    <3>2. QED
      BY <1>0, <2>2, <2>3, <2>5, <3>1 DEF Progress, Claims, Sites
  <2>6. QED
    BY <2>4, <2>5
<1> HIDE DEF TypeOK, Put, Claim, flags, Goal
<1>15. Goal
  BY <1>1, <1>2, <1>3, <1>4, <1>5, <1>6, <1>7, <1>8, <1>9, <1>10, <1>11, <1>12,
     <1>13, <1>14 DEF Next, SiteStep
<1>16. QED
  BY <1>15 DEF Goal

\* The group is to free h and has not yet.
Owned(h) == registered[h] /\ site[h] # "marked" /\ freers[h] = {}

\* A step adds to the lists what it registers and removes what it frees.
LEMMA ListsStep == IInv /\ [Next]_vars => Lists'
<1> SUFFICES ASSUME IInv, [Next]_vars PROVE Lists'
  OBVIOUS
<1>0. TypeOK /\ Lists /\ \A g \in Tasks : Progress(g) /\ Claims(g)
  BY DEF IInv
<1>q. ASSUME UNCHANGED <<children, taken>>, group' = group,
             \A g \in Tasks : Owned(g)' <=> Owned(g)
      PROVE  Lists'
  BY <1>0, <1>q DEF Lists, Owned, NoDup, Listed
<1>h. ASSUME NEW h \in Tasks, UNCHANGED <<children, taken, group>>,
             \A g \in Tasks \ {h} : Untouched(g), Owned(h)' <=> Owned(h)
      PROVE  Lists'
  <2>1. \A g \in Tasks : Owned(g)' <=> Owned(g)
    BY <1>h DEF Untouched, Owned
  <2>2. QED
    BY <1>h, <1>q, <2>1
<1> USE DEF TypeOK, Put, Claim, flags
<1>1. ASSUME NEW p \in Owners, NEW h \in Tasks, NEW inGroup \in BOOLEAN,
             NEW drop \in BOOLEAN, Spawn(p, h, inGroup, drop)
      PROVE  Lists'
  <2>1. \A g \in Tasks \ {h} : Untouched(g)
    BY <1>0, <1>1 DEF Spawn, Untouched
  <2>2. registered[h] = FALSE /\ registered' = registered
    BY <1>0, <1>1 DEF Spawn, Progress
  <2>3. QED
    BY <1>1, <1>h, <2>1, <2>2 DEF Spawn, Owned
<1>2. ASSUME NEW h \in Tasks, MarkRegistered(h) PROVE Lists'
  <2>1. \A g \in Tasks \ {h} : Untouched(g)
    BY <1>0, <1>2 DEF MarkRegistered, Untouched
  <2>2. registered[h] = FALSE /\ site'[h] = "marked"
    BY <1>0, <1>2 DEF MarkRegistered, Progress
  <2>3. QED
    BY <1>2, <1>h, <2>1, <2>2 DEF MarkRegistered, Owned
<1>3. ASSUME NEW h \in Tasks, PushAndSweep(h) PROVE Lists'
  <2> DEFINE swept == {c \in Listed(children) : TerminalDetached(c)}
  <2>1. /\ swept \subseteq Tasks /\ h \notin swept /\ h \notin Listed(children)
        /\ NoDup(children')
        /\ Listed(children') = (Listed(children) \union {h}) \ swept
        /\ freers' = [c \in Tasks |-> IF c \in swept THEN freers[c] \union {"sweep"}
                                       ELSE freers[c]]
    BY <1>3, SweepFacts
  <2>2. swept \subseteq Listed(children)
    OBVIOUS
  <2> HIDE DEF swept
  <2>3. /\ UNCHANGED <<taken, group, registered>> /\ registered[h]
        /\ site[h] = "marked" /\ site'[h] # "marked" /\ freers[h] = {}
        /\ \A g \in Tasks \ {h} : site'[g] = site[g]
    BY <1>0, <1>3 DEF PushAndSweep, Progress, Claims
  <2>4. \A g \in Tasks : freers'[g] = {} <=> freers[g] = {} /\ g \notin swept
    BY <1>0, <2>1
  <2>5. h \notin Listed(taken)
    BY <1>0, <2>3 DEF Lists
  <2>6. Listed(children') \intersect Listed(taken) = {}
    BY <1>0, <2>1, <2>5 DEF Lists
  <2>7. ASSUME NEW g \in Tasks
        PROVE  g \in Listed(children') \union Listed(taken) <=> Owned(g)'
    <3>1. CASE g = h
      BY <2>1, <2>3, <2>4, <3>1 DEF Owned
    <3>2. CASE g \in swept
      BY <1>0, <2>1, <2>2, <2>4, <3>2 DEF Owned, Lists
    <3>3. CASE g # h /\ g \notin swept
      BY <1>0, <2>1, <2>3, <2>4, <3>3 DEF Owned, Lists
    <3>4. QED
      BY <3>1, <3>2, <3>3
  <2>8. NoDup(taken') /\ Listed(taken)' = Listed(taken) /\ Listed(children)' = Listed(children')
    BY <1>0, <2>3 DEF Lists, NoDup, Listed
  <2>9. QED
    BY <1>0, <2>1, <2>3, <2>6, <2>7, <2>8 DEF Lists, Owned, NoDup
<1>4. ASSUME NEW h \in Tasks, DetachThread(h) \/ DetachCoro(h) \/ ArmReap(h) PROVE Lists'
  <2>1. \A g \in Tasks \ {h} : Untouched(g)
    BY <1>0, <1>4 DEF DetachThread, DetachCoro, ArmReap, Untouched
  <2>2. /\ site[h] # "marked" /\ site'[h] # "marked" /\ UNCHANGED <<registered, children, taken, group>>
        /\ registered[h] => freers'[h] = freers[h]
    BY <1>0, <1>4 DEF DetachThread, DetachCoro, ArmReap
  <2>3. QED
    BY <1>h, <2>1, <2>2 DEF Owned
<1>5. ASSUME NEW h \in Tasks,
             Start(h) \/ Complete(h) \/ SignalSlot(h) \/ FreeHandle(h) \/ JoinBegin(h)
             \/ JoinEnd(h)
      PROVE  Lists'
  <2>1. \A g \in Tasks \ {h} : Untouched(g)
    BY <1>0, <1>5 DEF Start, Complete, SignalSlot, FreeHandle, JoinBegin, JoinEnd, Untouched
  <2>2. /\ UNCHANGED <<site, registered, children, taken, group>>
        /\ registered[h] => freers'[h] = freers[h]
    BY <1>0, <1>5 DEF Start, Complete, SignalSlot, FreeHandle, JoinBegin, JoinEnd, Progress
  <2>3. QED
    BY <1>h, <2>1, <2>2 DEF Owned
<1>6. ASSUME \/ \E p \in Owners : GroupCancel(p)
             \/ Finished \/ UNCHANGED vars
      PROVE  Lists'
  <2>1. UNCHANGED <<site, registered, freers, children, taken, group>>
    BY <1>6 DEF GroupCancel, Finished, vars
  <2>2. QED
    BY <1>q, <2>1 DEF Owned
<1>7. ASSUME GroupTake PROVE Lists'
  <2>1. taken = <<>> /\ Listed(taken) = {}
    BY <1>0, <1>7 DEF GroupTake, Ready, Lists, Listed
  <2>2. /\ taken' = children /\ children' = <<>> /\ group' = "joining"
        /\ UNCHANGED <<site, registered, freers>>
    BY <1>7 DEF GroupTake
  <2>3. /\ Listed(taken)' = Listed(children) /\ Listed(children)' = {}
        /\ NoDup(taken)' /\ NoDup(children)'
    BY <1>0, <2>2 DEF Listed, NoDup, Lists
  <2>4. QED
    BY <1>0, <2>1, <2>2, <2>3 DEF Lists
<1>8. ASSUME GroupJoinNext PROVE Lists'
  <2> DEFINE h == Head(taken)
  <2>1. /\ h \in Tasks /\ h \in Listed(taken)
        /\ NoDup(taken') /\ Listed(taken') = Listed(taken) \ {h}
    BY <1>8, JoinFacts
  <2>2. /\ freers' = [freers EXCEPT ![h] = @ \union {"group"}]
        /\ UNCHANGED <<site, registered, children, group>> /\ taken # <<>>
    BY <1>8 DEF GroupJoinNext
  <2> HIDE DEF h
  <2>3. \A g \in Tasks : freers'[g] = {} <=> freers[g] = {} /\ g # h
    BY <1>0, <2>1, <2>2
  <2>4. h \notin Listed(children)
    BY <1>0, <2>1 DEF Lists
  <2>5. /\ Listed(children)' = Listed(children) /\ NoDup(children)'
        /\ Listed(taken)' = Listed(taken) \ {h} /\ NoDup(taken)'
    <3>1. Listed(taken)' = Listed(taken') /\ (NoDup(taken)' <=> NoDup(taken'))
      BY DEF Listed, NoDup
    <3>2. Listed(children)' = Listed(children) /\ NoDup(children)'
      BY <1>0, <2>2 DEF Lists, Listed, NoDup
    <3>3. QED
      BY <2>1, <3>1, <3>2
  <2>6. group' \notin {"open", "freed"}
    BY <1>0, <2>2 DEF Lists
  <2>7. QED
    BY <1>0, <2>1, <2>2, <2>3, <2>4, <2>5, <2>6 DEF Lists
<1>9. ASSUME GroupFree PROVE Lists'
  <2>1. taken' = <<>> /\ UNCHANGED <<site, registered, freers, children, taken>>
    BY <1>9 DEF GroupFree
  <2>2. QED
    BY <1>0, <2>1 DEF Lists, Listed, NoDup
<1> HIDE DEF TypeOK, Put, Claim, flags
<1>10. QED
  BY <1>1, <1>2, <1>3, <1>4, <1>5, <1>6, <1>7, <1>8, <1>9 DEF Next, SiteStep

\* A spawn or a join begins only between two statements of its thread.
LEMMA OneAtATimeStep == IInv /\ [Next]_vars => OneAtATime'
<1> SUFFICES ASSUME IInv, [Next]_vars PROVE OneAtATime'
  OBVIOUS
<1>0. TypeOK /\ OneAtATime /\ \A g \in Tasks : Progress(g)
  BY DEF IInv
<1> USE DEF TypeOK, Put, Claim, flags
<1>1. ASSUME NEW p \in Owners, NEW h \in Tasks, NEW inGroup \in BOOLEAN,
             NEW drop \in BOOLEAN, Spawn(p, h, inGroup, drop)
      PROVE  OneAtATime'
  <2>1. /\ parent'[h] = p /\ site[h] = "none" /\ UNCHANGED <<join, group>>
        /\ \A g \in Tasks \ {h} : parent'[g] = parent[g] /\ site'[g] = site[g]
    BY <1>0, <1>1 DEF Spawn, Progress
  <2>2. \A g \in Tasks : parent[g] = p => site[g] \in {"none", "settled"}
    BY <1>1 DEF Spawn, Ready
  <2>3. p = Main => group = "open"
    BY <1>1 DEF Spawn, Ready
  <2>4. QED
    BY <1>0, <2>1, <2>2, <2>3 DEF OneAtATime
<1>2. ASSUME NEW h \in Tasks,
             \/ MarkRegistered(h) \/ PushAndSweep(h) \/ DetachThread(h) \/ DetachCoro(h)
             \/ ArmReap(h)
      PROVE  OneAtATime'
  <2>1. /\ site[h] \notin {"none", "settled"} /\ UNCHANGED <<parent, join, group>>
        /\ \A g \in Tasks \ {h} : site'[g] = site[g]
    BY <1>0, <1>2 DEF MarkRegistered, PushAndSweep, DetachThread, DetachCoro, ArmReap
  <2>2. QED
    BY <1>0, <2>1 DEF OneAtATime
<1>3. ASSUME NEW h \in Tasks, JoinBegin(h) PROVE OneAtATime'
  <2>1. /\ UNCHANGED <<parent, site, group>>
        /\ \A g \in Tasks \ {h} : join'[g] = join[g]
        /\ parent[h] = Main => group = "open"
    BY <1>0, <1>3 DEF JoinBegin, Ready
  <2>2. QED
    BY <1>0, <2>1 DEF OneAtATime
<1>4. ASSUME NEW h \in Tasks, JoinEnd(h) PROVE OneAtATime'
  <2>1. /\ UNCHANGED <<parent, site, group>> /\ join'[h] = "joined"
        /\ \A g \in Tasks \ {h} : join'[g] = join[g]
    BY <1>0, <1>4 DEF JoinEnd
  <2>2. QED
    BY <1>0, <2>1 DEF OneAtATime
<1>5. ASSUME GroupTake PROVE OneAtATime'
  <2>1. /\ UNCHANGED <<parent, site, join>>
        /\ \A g \in Tasks : parent[g] = Main => /\ site[g] \in {"none", "settled"}
                                                /\ join[g] \in {"none", "joined"}
    BY <1>5 DEF GroupTake, Ready
  <2>2. QED
    BY <1>0, <2>1 DEF OneAtATime
<1>6. ASSUME \/ \E h \in Tasks : Start(h) \/ Complete(h) \/ SignalSlot(h) \/ FreeHandle(h)
             \/ \E p \in Owners : GroupCancel(p)
             \/ GroupJoinNext \/ Finished \/ UNCHANGED vars
      PROVE  OneAtATime'
  <2>1. UNCHANGED <<parent, site, join, group>>
    BY <1>6 DEF Start, Complete, SignalSlot, FreeHandle, GroupCancel, GroupJoinNext,
                Finished, vars
  <2>2. QED
    BY <1>0, <2>1 DEF OneAtATime
<1>7. ASSUME GroupFree PROVE OneAtATime'
  <2>1. UNCHANGED <<parent, site, join>> /\ group = "joining"
    BY <1>7 DEF GroupFree
  <2>2. QED
    BY <1>0, <2>1 DEF OneAtATime
<1> HIDE DEF TypeOK, Put, Claim, flags
<1>8. QED
  BY <1>1, <1>2, <1>3, <1>4, <1>5, <1>6, <1>7 DEF Next, SiteStep

-----------------------------------------------------------------------------
\* Before anything is spawned there is nothing to free or to list.
LEMMA InitIInv == Init => IInv
<1> SUFFICES ASSUME Init PROVE IInv
  OBVIOUS
<1>1. TypeOK
  <2>1. <<>> \in Seq(Tasks)
    BY EmptySeq
  <2>2. QED
    BY <2>1 DEF Init, TypeOK, Runs, Sites, Joins, Owners
<1>2. ASSUME NEW h \in Tasks PROVE Progress(h) /\ Claims(h)
  BY DEF Init, Progress, Claims
<1>3. Lists
  BY DEF Init, Lists, NoDup, Listed
<1>4. OneAtATime
  BY DEF Init, OneAtATime
<1>5. QED
  BY <1>1, <1>2, <1>3, <1>4 DEF IInv

\* The inductive invariant is preserved by every step.
LEMMA StepIInv == IInv /\ [Next]_vars => IInv'
<1> SUFFICES ASSUME IInv, [Next]_vars PROVE IInv'
  OBVIOUS
<1>1. \A h \in Tasks : Progress(h)' /\ Claims(h)'
  BY HandleStep
<1>2. QED
  BY <1>1, TypeStep, ListsStep, OneAtATimeStep DEF IInv

\* The inductive invariant holds in every reachable state, whoever spawns.
THEOREM Invariance == Spec => []IInv
  BY InitIInv, StepIInv, PTL DEF Spec

\* Every handle, flag and list stays in its type.
THEOREM TypeCorrect == Spec => []TypeOK
  BY Invariance, PTL DEF IInv

\* "freed exactly once": the worker, the signalling coroutine, the detaching
\* site, the joiner, the sweep and the group never both decide to free a handle,
\* even when tasks of the group spawn through it.
THEOREM HandleFreedByOne == Spec => []FreedByOne
<1>1. IInv => FreedByOne
  <2> SUFFICES ASSUME IInv, NEW h \in Tasks PROVE Cardinality(freers[h]) <= 1
    BY DEF FreedByOne
  <2>1. \A v, w \in freers[h] : v = w
    BY DEF IInv, Claims
  <2>2. CASE freers[h] = {}
    BY <2>2, FS_EmptySet
  <2>3. CASE freers[h] # {}
    <3>1. PICK w : freers[h] = {w}
      BY <2>1, <2>3
    <3>2. Cardinality({w}) = 1
      BY FS_Singleton
    <3>3. QED
      BY <3>1, <3>2
  <2>4. QED
    BY <2>2, <2>3
<1>2. QED
  BY <1>1, Invariance, PTL

\* A discarded free spawn never leaks: whichever of the worker and the detaching
\* site comes last takes on the free.
THEOREM DetachedIsReclaimed == Spec => []DetachedReclaimed
<1>1. IInv => DetachedReclaimed
  BY DEF IInv, Claims, DetachedReclaimed
<1>2. QED
  BY <1>1, Invariance, PTL

-----------------------------------------------------------------------------
(***************************************************************************)
(* Groups that only their owner spawns through.                            *)
(***************************************************************************)

\* Registration, the sweep and the drop of the group are then steps of one
\* thread, so a child that the group has freed is not at its spawn site, nobody
\* waits for it, and nothing is listed after the list has been taken.
OwnerOnly ==
  /\ \A h \in Tasks : registered[h] \/ site[h] \in {"new", "marked"} => parent[h] = Main
  /\ \A h \in Tasks : registered[h] /\ freers[h] # {} =>
                        /\ site[h] = "settled" /\ join[h] \in {"none", "joined"}
                        /\ discard[h] \/ group # "open"
  /\ group # "open" => children = <<>>

\* Every step preserves it when Main is the only group spawner.
LEMMA OwnerStep ==
  ASSUME GroupSpawners \subseteq {Main}, IInv, OwnerOnly, [Next]_vars
  PROVE  OwnerOnly'
<1>0. TypeOK /\ OneAtATime /\ Lists /\ \A g \in Tasks : Progress(g) /\ Claims(g)
  BY DEF IInv
<1> USE DEF TypeOK, Put, Claim, flags
<1>1. ASSUME NEW p \in Owners, NEW h \in Tasks, NEW inGroup \in BOOLEAN,
             NEW drop \in BOOLEAN, Spawn(p, h, inGroup, drop)
      PROVE  OwnerOnly'
  <2>1. /\ registered[h] = FALSE /\ parent'[h] = p
        /\ UNCHANGED <<registered, freers, join, children, group>>
        /\ \A g \in Tasks \ {h} : /\ parent'[g] = parent[g] /\ site'[g] = site[g]
                                  /\ discard'[g] = discard[g]
        /\ site'[h] # "marked"
    BY <1>0, <1>1 DEF Spawn, Progress
  <2>2. site'[h] = "new" => p = Main
    BY <1>0, <1>1 DEF Spawn, HoldsGroup
  <2>3. QED
    BY <2>1, <2>2 DEF OwnerOnly
<1>2. ASSUME NEW h \in Tasks, MarkRegistered(h) PROVE OwnerOnly'
  <2>1. /\ site[h] = "new" /\ freers[h] = {}
        /\ UNCHANGED <<parent, discard, freers, join, children, group>>
        /\ \A g \in Tasks \ {h} : registered'[g] = registered[g] /\ site'[g] = site[g]
    BY <1>0, <1>2 DEF MarkRegistered, Claims
  <2>2. QED
    BY <2>1 DEF OwnerOnly
<1>3. ASSUME NEW h \in Tasks, PushAndSweep(h) PROVE OwnerOnly'
  <2> DEFINE swept == {c \in Listed(children) : TerminalDetached(c)}
  <2>1. /\ swept \subseteq Tasks /\ h \notin swept
        /\ freers' = [c \in Tasks |-> IF c \in swept THEN freers[c] \union {"sweep"}
                                       ELSE freers[c]]
    BY <1>3, SweepFacts
  <2>2. \A g \in swept : registered[g] /\ detached[g]
    BY <1>0, <2>1 DEF Lists, TerminalDetached
  <2> HIDE DEF swept
  <2>3. /\ site[h] = "marked" /\ UNCHANGED <<parent, discard, registered, join, group>>
        /\ site'[h] \notin {"new", "marked"} /\ registered[h] /\ freers[h] = {}
        /\ \A g \in Tasks \ {h} : site'[g] = site[g]
    BY <1>0, <1>3 DEF PushAndSweep, Progress, Claims
  <2>4. parent[h] = Main /\ group = "open"
    BY <1>0, <2>3 DEF OwnerOnly, OneAtATime
  <2>5. ASSUME NEW g \in swept PROVE site[g] = "settled" /\ join[g] = "none" /\ discard[g]
    <3>1. g \in Tasks /\ g # h /\ parent[g] = parent[h]
      BY <2>1, <2>2, <2>4 DEF OwnerOnly
    <3>2. site[g] \in {"none", "settled"}
      BY <1>0, <2>3, <3>1 DEF OneAtATime
    <3>3. discard[g] /\ site[g] \in {"flagged", "settled"}
      BY <1>0, <2>2, <3>1 DEF Progress
    <3>4. QED
      BY <1>0, <3>1, <3>2, <3>3 DEF Progress
  <2>6. ASSUME NEW g \in Tasks, registered'[g], freers'[g] # {}
        PROVE  /\ site'[g] = "settled" /\ join'[g] \in {"none", "joined"}
               /\ discard'[g] \/ group' # "open"
    <3>1. g # h
      BY <1>0, <2>1, <2>3, <2>6
    <3>2. CASE g \in swept
      BY <2>3, <2>5, <3>1, <3>2
    <3>3. CASE g \notin swept
      BY <2>1, <2>3, <2>6, <3>1, <3>3 DEF OwnerOnly
    <3>4. QED
      BY <3>2, <3>3
  <2>7. QED
    BY <2>3, <2>4, <2>6 DEF OwnerOnly
<1>4. ASSUME NEW h \in Tasks, DetachThread(h) \/ DetachCoro(h) \/ ArmReap(h)
      PROVE  OwnerOnly'
  <2>1. /\ site[h] \in {"detach", "flagged"} /\ site'[h] \notin {"new", "marked"}
        /\ UNCHANGED <<parent, discard, registered, join, children, group>>
        /\ registered[h] => freers'[h] = freers[h]
        /\ \A g \in Tasks \ {h} : site'[g] = site[g] /\ freers'[g] = freers[g]
    BY <1>0, <1>4 DEF DetachThread, DetachCoro, ArmReap
  <2>2. QED
    BY <2>1 DEF OwnerOnly
<1>5. ASSUME NEW h \in Tasks,
             Start(h) \/ Complete(h) \/ SignalSlot(h) \/ FreeHandle(h) \/ JoinEnd(h)
      PROVE  OwnerOnly'
  <2>1. /\ UNCHANGED <<parent, site, discard, registered, children, group>>
        /\ registered[h] => freers'[h] = freers[h]
        /\ \A g \in Tasks \ {h} : freers'[g] = freers[g]
        /\ \A g \in Tasks : join'[g] = join[g] \/ join'[g] = "joined"
    BY <1>0, <1>5 DEF Start, Complete, SignalSlot, FreeHandle, JoinEnd, Progress
  <2>2. QED
    BY <2>1 DEF OwnerOnly
<1>6. ASSUME NEW h \in Tasks, JoinBegin(h) PROVE OwnerOnly'
  <2>1. /\ UNCHANGED <<parent, site, discard, registered, freers, children, group>>
        /\ \A g \in Tasks \ {h} : join'[g] = join[g]
        /\ site[h] = "settled" /\ ~discard[h] /\ Ready(parent[h])
    BY <1>0, <1>6 DEF JoinBegin
  <2>2. registered[h] => freers[h] = {}
    BY <2>1 DEF OwnerOnly, Ready
  <2>3. QED
    BY <2>1, <2>2 DEF OwnerOnly
<1>7. ASSUME GroupTake PROVE OwnerOnly'
  <2>1. /\ children' = <<>> /\ group' # "open"
        /\ UNCHANGED <<parent, site, discard, registered, freers, join>>
    BY <1>7 DEF GroupTake
  <2>2. QED
    BY <2>1 DEF OwnerOnly
<1>8. ASSUME GroupJoinNext PROVE OwnerOnly'
  <2> DEFINE h == Head(taken)
  <2>1. h \in Tasks /\ h \in Listed(taken)
    BY <1>8, JoinFacts
  <2>2. /\ freers' = [freers EXCEPT ![h] = @ \union {"group"}]
        /\ UNCHANGED <<parent, site, discard, registered, join, children, group>>
        /\ taken # <<>>
    BY <1>8 DEF GroupJoinNext
  <2> HIDE DEF h
  <2>3. registered[h] /\ site[h] # "marked"
    BY <1>0, <2>1 DEF Lists
  <2>4. parent[h] = Main /\ group # "open"
    BY <1>0, <2>1, <2>2, <2>3 DEF OwnerOnly, Lists
  <2>5. site[h] = "settled" /\ join[h] \in {"none", "joined"}
    BY <1>0, <2>1, <2>3, <2>4 DEF OneAtATime, Progress
  <2>6. QED
    BY <1>0, <2>1, <2>2, <2>4, <2>5 DEF OwnerOnly
<1>9. ASSUME GroupFree PROVE OwnerOnly'
  <2>1. /\ UNCHANGED <<parent, site, discard, registered, freers, join, children>>
        /\ group = "joining" /\ group' = "freed"
    BY <1>9 DEF GroupFree
  <2>2. QED
    BY <2>1 DEF OwnerOnly
<1>10. ASSUME (\E p \in Owners : GroupCancel(p)) \/ Finished \/ UNCHANGED vars
       PROVE  OwnerOnly'
  <2>1. UNCHANGED <<parent, site, discard, registered, freers, join, children, group>>
    BY <1>10 DEF GroupCancel, Finished, vars
  <2>2. QED
    BY <2>1 DEF OwnerOnly
<1> HIDE DEF TypeOK, Put, Claim, flags
<1>11. QED
  BY <1>1, <1>2, <1>3, <1>4, <1>5, <1>6, <1>7, <1>8, <1>9, <1>10 DEF Next, SiteStep

\* The invariant of groups with one spawner.
LEMMA OwnerInvariance ==
  ASSUME GroupSpawners \subseteq {Main}
  PROVE  Spec => [](IInv /\ OwnerOnly)
<1>1. Init => IInv /\ OwnerOnly
  <2>1. Init => OwnerOnly
    BY DEF Init, OwnerOnly
  <2>2. QED
    BY <2>1, InitIInv
<1>2. (IInv /\ OwnerOnly) /\ [Next]_vars => (IInv /\ OwnerOnly)'
  BY StepIInv, OwnerStep
<1>3. QED
  BY <1>1, <1>2, PTL DEF Spec

\* When only its owner spawns through the group, nobody who still touches a
\* handle can find it freed.
THEOREM HandlesOutliveUses ==
  ASSUME GroupSpawners \subseteq {Main}
  PROVE  Spec => []NoUseAfterFree
<1>1. IInv /\ OwnerOnly => NoUseAfterFree
  <2> SUFFICES ASSUME IInv, OwnerOnly, NEW h \in Tasks, freed[h]
               PROVE  /\ site[h] = "settled" /\ run[h] = "ended"
                      /\ join[h] \in {"none", "joined"}
                      /\ h \notin Listed(children) \union Listed(taken)
    BY DEF NoUseAfterFree
  <2>1. freers[h] # {} /\ done[h]
    BY DEF IInv, Claims
  <2>2. h \notin Listed(children) \union Listed(taken)
    BY <2>1 DEF IInv, Lists
  <2>3. site[h] = "settled"
    BY <2>1 DEF IInv, Claims, OwnerOnly
  <2>4. join[h] \in {"none", "joined"}
    <3>1. CASE registered[h]
      BY <2>1, <3>1 DEF OwnerOnly
    <3>2. CASE ~registered[h]
      <4>1. join[h] # "keep"
        BY <3>2 DEF IInv, Progress
      <4>2. join[h] # "free"
        BY <2>1, <3>2 DEF IInv, Progress, Claims
      <4>3. QED
        BY <4>1, <4>2 DEF IInv, TypeOK, Joins
    <3>3. QED
      BY <3>1, <3>2
  <2>5. QED
    BY <2>1, <2>2, <2>3, <2>4 DEF IInv, Progress
<1>2. QED
  BY <1>1, OwnerInvariance, PTL

\* When only its owner spawns through the group, dropping it waits for every
\* child: "no child outlives the group".
THEOREM ChildrenEndWithGroup ==
  ASSUME GroupSpawners \subseteq {Main}
  PROVE  Spec => []NoChildOutlivesGroup
<1>1. IInv /\ OwnerOnly => NoChildOutlivesGroup
  <2> SUFFICES ASSUME IInv, OwnerOnly, group = "freed", NEW h \in Tasks
               PROVE  /\ registered[h] => done[h] /\ freers[h] # {}
                      /\ site[h] \notin {"new", "marked"}
    BY DEF NoChildOutlivesGroup
  <2>1. children = <<>> /\ taken = <<>>
    BY DEF OwnerOnly, IInv, Lists
  <2>2. Listed(children) \union Listed(taken) = {}
    BY <2>1 DEF Listed
  <2>3. site[h] \notin {"new", "marked"}
    BY DEF OwnerOnly, IInv, OneAtATime
  <2>4. registered[h] => freers[h] # {}
    BY <2>2, <2>3 DEF IInv, Lists
  <2>5. QED
    BY <2>3, <2>4 DEF IInv, Claims
<1>2. QED
  BY <1>1, OwnerInvariance, PTL
=============================================================================
