--------------------------- MODULE WorkPoolProofs ----------------------------
(***************************************************************************)
(* Proofs about WorkPool, for any pool, any callers and any nest of calls. *)
(***************************************************************************)
EXTENDS WorkPool, FiniteSetTheorems, FunctionTheorems, SequenceTheorems, TLAPS

Frames == TaskFrames \union JoinFrames

\* Position i of th's stack is a frame that executes a branch.
IsTask(th, i) == i \in DOMAIN stack[th] /\ stack[th][i].kind = "task"

\* A branch is in one place: once in the queue, or in one frame of one thread.
OnePlace ==
  /\ \A i, j \in DOMAIN queue : queue[i] = queue[j] => i = j
  /\ \A th, x \in Threads : \A i \in DOMAIN stack[th], j \in DOMAIN stack[x] :
       IsTask(th, i) /\ IsTask(x, j) /\ stack[th][i].id = stack[x][j].id => th = x /\ i = j
  /\ \A th \in Threads : \A i \in DOMAIN stack[th], j \in DOMAIN queue :
       IsTask(th, i) => stack[th][i].id # queue[j]

\* Only branches of calls that have been made are anywhere, and only such calls
\* are joined.
Made ==
  /\ \A j \in DOMAIN queue : \E c \in Calls : status[c] # "unmade" /\ queue[j] \in Branches(c)
  /\ \A th \in Threads : \A i \in DOMAIN stack[th] :
       IF stack[th][i].kind = "task"
       THEN \E c \in Calls : status[c] # "unmade" /\ stack[th][i].id \in Branches(c)
       ELSE status[stack[th][i].id] # "unmade"
  /\ \A c \in Calls : status[c] = "joined" => remaining[c] = 0

\* A frame that is not on top is a branch inside its body or a join that helps.
Deep ==
  \A th \in Threads : \A i \in DOMAIN stack[th] :
    i # Len(stack[th]) => stack[th][i].pc = IF stack[th][i].kind = "task" THEN "run" ELSE "check"

IInv ==
  /\ TypeOK
  /\ OnePlace
  /\ Made
  /\ Deep
  /\ RemainingExact
  /\ NoLostWakeup

USE ThreadsAssumption, CallsAssumption, BranchesAssumption, ProgramsAssumption,
    EndlessAssumption

-----------------------------------------------------------------------------
(***************************************************************************)
(* The stack, position by position.                                        *)
(***************************************************************************)

\* A stack is a sequence of frames.
LEMMA StackFacts ==
  ASSUME TypeOK, NEW th \in Threads
  PROVE  /\ stack[th] \in Seq(Frames) /\ Depth(th) \in Nat
         /\ DOMAIN stack[th] = 1..Depth(th)
         /\ \A i \in 1..Depth(th) : stack[th][i] \in Frames
         /\ stack[th] # <<>> => Depth(th) \in 1..Depth(th) /\ Top(th) \in Frames
<1>1. stack[th] \in Seq(Frames)
  BY DEF TypeOK, Frames
<1>2. /\ Depth(th) \in Nat /\ DOMAIN stack[th] = 1..Depth(th)
      /\ \A i \in 1..Depth(th) : stack[th][i] \in Frames
  BY <1>1, LenProperties DEF Depth
<1>3. stack[th] # <<>> => Depth(th) # 0
  BY <1>1, EmptySeq DEF Depth
<1>4. QED
  BY <1>1, <1>2, <1>3 DEF Top

\* What a frame's kind says of its other fields.
LEMMA FrameFacts ==
  ASSUME NEW f \in Frames
  PROVE  /\ f.kind \in {"task", "join"}
         /\ f.kind = "task" => /\ f.id \in Tasks /\ f.pc \in {"load", "run", "leave", "notify"}
                               /\ f = TaskFrame(f.id, f.pc)
         /\ f.kind = "join" => /\ f.id \in Calls
                               /\ f.pc \in {"announce", "check", "cascade", "help",
                                            "block", "parked"}
                               /\ f = JoinFrame(f.id, f.pc)
  BY DEF Frames, TaskFrames, JoinFrames, TaskFrame, JoinFrame

\* The running frame moves on.
LEMMA GotoFacts ==
  ASSUME TypeOK, NEW th \in Threads, stack[th] # <<>>, NEW l, Goto(th, l),
         [kind |-> Top(th).kind, id |-> Top(th).id, pc |-> l] \in Frames
  PROVE  /\ stack' \in [Threads -> Seq(Frames)]
         /\ \A x \in Threads : Len(stack'[x]) = Len(stack[x])
         /\ \A x \in Threads : \A i \in 1..Len(stack[x]) :
              stack'[x][i] = IF x = th /\ i = Depth(th)
                             THEN [kind |-> Top(th).kind, id |-> Top(th).id, pc |-> l]
                             ELSE stack[x][i]
<1> DEFINE d == Depth(th)
           f == [kind |-> Top(th).kind, id |-> Top(th).id, pc |-> l]
<1>1. stack[th] \in Seq(Frames) /\ d \in 1..Len(stack[th]) /\ Top(th) \in Frames
  BY StackFacts DEF Depth
<1>2. [Top(th) EXCEPT !.pc = l] = f
  BY <1>1 DEF Frames, TaskFrames, JoinFrames
<1>3. stack' = [stack EXCEPT ![th] = [stack[th] EXCEPT ![d] = f]]
  BY <1>2 DEF Goto, Top
<1> HIDE DEF f, d
<1>4. /\ [stack[th] EXCEPT ![d] = f] \in Seq(Frames)
      /\ Len([stack[th] EXCEPT ![d] = f]) = Len(stack[th])
      /\ \A j \in 1..Len(stack[th]) :
           [stack[th] EXCEPT ![d] = f][j] = IF j = d THEN f ELSE stack[th][j]
  BY <1>1, ExceptSeq DEF f
<1>5. stack \in [Threads -> Seq(Frames)]
  BY DEF TypeOK, Frames
<1>6. stack'[th] = [stack[th] EXCEPT ![d] = f] /\ \A x \in Threads \ {th} : stack'[x] = stack[x]
  BY <1>3, <1>5
<1>7. stack' \in [Threads -> Seq(Frames)]
  BY <1>3, <1>4, <1>5
<1>8. QED
  BY <1>4, <1>6, <1>7 DEF f, d

\* The running frame is left.
LEMMA BelowFacts ==
  ASSUME TypeOK, NEW th \in Threads, stack[th] # <<>>
  PROVE  /\ Below(th) \in Seq(Frames) /\ Len(Below(th)) = Depth(th) - 1
         /\ \A i \in 1..(Depth(th) - 1) : Below(th)[i] = stack[th][i]
<1>1. /\ Depth(th) \in Nat /\ Depth(th) \in 1..Depth(th)
      /\ \A i \in 1..Depth(th) : stack[th][i] \in Frames
  BY StackFacts
<1> DEFINE d == Depth(th)
<1>2. \A i \in 1..(d - 1) : stack[th][i] \in Frames
  BY <1>1
<1>3. 1 \in Int /\ d - 1 \in Int /\ d \in Nat /\ d >= 1
  BY <1>1
<1> HIDE DEF d
<1>4. /\ SubSeq(stack[th], 1, d - 1) \in Seq(Frames)
      /\ Len(SubSeq(stack[th], 1, d - 1)) = IF 1 <= d - 1 THEN (d - 1) - 1 + 1 ELSE 0
      /\ \A i \in 1..((d - 1) - 1 + 1) : SubSeq(stack[th], 1, d - 1)[i] = stack[th][1 + i - 1]
  BY <1>2, <1>3, SubSeqProperties
<1>5. QED
  BY <1>3, <1>4 DEF Below, d

LEMMA ReturnFacts ==
  ASSUME TypeOK, NEW th \in Threads, stack[th] # <<>>, Return(th)
  PROVE  /\ stack' \in [Threads -> Seq(Frames)]
         /\ Len(stack'[th]) = Depth(th) - 1
         /\ \A i \in 1..(Depth(th) - 1) : stack'[th][i] = stack[th][i]
         /\ \A x \in Threads \ {th} : stack'[x] = stack[x]
<1>1. stack \in [Threads -> Seq(Frames)]
  BY DEF TypeOK, Frames
<1>2. QED
  BY <1>1, BelowFacts DEF Return

\* A frame is put on top.
LEMMA PushFacts ==
  ASSUME TypeOK, NEW th \in Threads, NEW f \in Frames,
         stack' = [stack EXCEPT ![th] = Append(@, f)]
  PROVE  /\ stack' \in [Threads -> Seq(Frames)]
         /\ Len(stack'[th]) = Depth(th) + 1
         /\ \A i \in 1..Depth(th) : stack'[th][i] = stack[th][i]
         /\ stack'[th][Depth(th) + 1] = f
         /\ \A x \in Threads \ {th} : stack'[x] = stack[x]
<1>1. stack \in [Threads -> Seq(Frames)]
  BY DEF TypeOK, Frames
<1>2. /\ Append(stack[th], f) \in Seq(Frames) /\ Len(Append(stack[th], f)) = Len(stack[th]) + 1
      /\ \A i \in 1..Len(stack[th]) : Append(stack[th], f)[i] = stack[th][i]
      /\ Append(stack[th], f)[Len(stack[th]) + 1] = f
  BY <1>1, AppendProperties
<1>3. QED
  BY <1>1, <1>2 DEF Depth

\* A task popped from the queue is put on top of a join that will check again.
LEMMA HelpFacts ==
  ASSUME TypeOK, NEW th \in Threads, At(th, "join", "help"), NEW t \in Tasks,
         stack' = [stack EXCEPT ![th] = Append(Below(th), JoinFrame(Top(th).id, "check"))
                                          \o <<TaskFrame(t, "load")>>]
  PROVE  /\ stack' \in [Threads -> Seq(Frames)]
         /\ Len(stack'[th]) = Depth(th) + 1
         /\ \A i \in 1..(Depth(th) - 1) : stack'[th][i] = stack[th][i]
         /\ stack'[th][Depth(th)] = JoinFrame(Top(th).id, "check")
         /\ stack'[th][Depth(th) + 1] = TaskFrame(t, "load")
         /\ \A x \in Threads \ {th} : stack'[x] = stack[x]
<1> DEFINE d == Depth(th)
           b == Below(th)
           j == JoinFrame(Top(th).id, "check")
           f == TaskFrame(t, "load")
<1>1. stack \in [Threads -> Seq(Frames)]
  BY DEF TypeOK, Frames
<1>2. stack[th] # <<>> /\ Top(th) \in Frames /\ Top(th).kind = "join" /\ d \in 1..d
  BY StackFacts DEF At
<1>3. j \in Frames /\ f \in Frames
  BY <1>2, FrameFacts DEF Frames, TaskFrames, JoinFrames, TaskFrame, JoinFrame
<1>4. d \in Nat /\ b \in Seq(Frames) /\ Len(b) = d - 1 /\ \A i \in 1..(d - 1) : b[i] = stack[th][i]
  BY <1>2, BelowFacts, StackFacts
<1>5. stack'[th] = Append(b, j) \o <<f>> /\ \A x \in Threads \ {th} : stack'[x] = stack[x]
  BY <1>1
<1> HIDE DEF b, j, f, d
<1>6. /\ Append(b, j) \in Seq(Frames) /\ Len(Append(b, j)) = d
      /\ \A i \in 1..(d - 1) : Append(b, j)[i] = b[i]
      /\ Append(b, j)[d] = j
  BY <1>3, <1>4, AppendProperties
<1>7. <<f>> \in Seq(Frames) /\ Len(<<f>>) = 1 /\ <<f>>[1] = f
  BY <1>3
<1>8. /\ Append(b, j) \o <<f>> \in Seq(Frames) /\ Len(Append(b, j) \o <<f>>) = d + 1
      /\ \A i \in 1..(d + 1) :
           (Append(b, j) \o <<f>>)[i] = IF i <= d THEN Append(b, j)[i] ELSE <<f>>[i - d]
  BY <1>4, <1>6, <1>7, ConcatProperties
<1>9. stack' \in [Threads -> Seq(Frames)]
  BY <1>1, <1>8 DEF b, j, f
<1>10. \A i \in 1..(d - 1) : i \in 1..(d + 1) /\ i <= d
  BY <1>4
<1>11. d \in 1..(d + 1) /\ d + 1 \in 1..(d + 1) /\ ~(d + 1 <= d) /\ (d + 1) - d = 1
  BY <1>2, <1>4 DEF d
<1> DEFINE s == Append(b, j) \o <<f>>
<1>15. s[d] = j /\ s[d + 1] = f
  BY <1>6, <1>7, <1>8, <1>11
<1>12. Len(stack'[th]) = d + 1 /\ stack'[th][d] = j /\ stack'[th][d + 1] = f
  BY <1>5, <1>8, <1>15
<1>13. \A i \in 1..(d - 1) : stack'[th][i] = stack[th][i]
  BY <1>4, <1>5, <1>6, <1>8, <1>10
<1>14. QED
  BY <1>5, <1>9, <1>12, <1>13 DEF d, j, f

-----------------------------------------------------------------------------
(***************************************************************************)
(* Calls and their branches.                                               *)
(***************************************************************************)

\* No two calls share a branch.
LEMMA CallOfFacts ==
  ASSUME NEW c \in Calls, NEW t \in Branches(c)
  PROVE  t \in Tasks /\ CallOf(t) = c /\ \A d \in Calls : t \in Branches(d) => d = c
<1>1. \A d \in Calls : t \in Branches(d) => d = c
  BY DEF Branches
<1>2. CallOf(t) \in Calls /\ t \in Branches(CallOf(t))
  BY DEF CallOf
<1>3. BranchesOf[c] \in Seq(Tasks)
  OBVIOUS
<1>4. t \in Tasks
  BY <1>3, LenProperties DEF Branches
<1>5. QED
  BY <1>1, <1>2, <1>4

\* A call has as many branches as its sequence is long.
LEMMA BranchesCounted ==
  ASSUME NEW c \in Calls
  PROVE  /\ IsFiniteSet(Branches(c)) /\ Cardinality(Branches(c)) = Len(BranchesOf[c])
         /\ Len(BranchesOf[c]) \in Nat /\ BranchesOf[c] \in Seq(Tasks)
         /\ DOMAIN BranchesOf[c] = 1..Len(BranchesOf[c])
<1> DEFINE b == BranchesOf[c]
           n == Len(b)
<1>1. b \in Seq(Tasks) /\ n \in Nat /\ DOMAIN b = 1..n
  BY LenProperties
<1>2. \A i, j \in 1..n : b[i] = b[j] => i = j
  BY <1>1
<1>3. Branches(c) = {b[i] : i \in 1..n}
  BY <1>1 DEF Branches
<1> HIDE DEF b, n
<1>4. b \in Bijection(1..n, Branches(c))
  <2>1. b \in [1..n -> Branches(c)]
    BY <1>1, <1>3, LenProperties DEF n
  <2>2. \A t \in Branches(c) : \E i \in 1..n : b[i] = t
    BY <1>3
  <2>3. b \in Injection(1..n, Branches(c))
    BY <2>1, <1>2 DEF Injection, IsInjective
  <2>4. b \in Surjection(1..n, Branches(c))
    BY <2>1, <2>2 DEF Surjection
  <2>5. QED
    BY <2>3, <2>4 DEF Bijection
<1>5. IsFiniteSet(1..n) /\ Cardinality(1..n) = n
  <2>1. 1 \in Int /\ n \in Int /\ (1 > n => n = 0) /\ (1 <= n => n - 1 + 1 = n)
    BY <1>1
  <2>2. QED
    BY <2>1, FS_Interval
<1>6. ExistsBijection(1..n, Branches(c))
  BY <1>4 DEF ExistsBijection
<1>7. IsFiniteSet(Branches(c)) /\ Cardinality(Branches(c)) = Cardinality(1..n)
  BY <1>5, <1>6, FS_Bijection
<1>8. QED
  BY <1>1, <1>5, <1>7 DEF b, n

-----------------------------------------------------------------------------
(***************************************************************************)
(* Three ways a step changes the stacks and the queue.                     *)
(***************************************************************************)

\* Frames only disappear from the top or change their pc; the queue stays.
Shrinks ==
  /\ stack' \in [Threads -> Seq(Frames)]
  /\ queue' = queue
  /\ \A x \in Threads :
       /\ Len(stack'[x]) <= Len(stack[x])
       /\ \A i \in 1..Len(stack'[x]) :
            stack'[x][i].kind = stack[x][i].kind /\ stack'[x][i].id = stack[x][i].id

\* th takes the oldest task from the queue and puts it on its stack.
Takes(th) ==
  /\ stack' \in [Threads -> Seq(Frames)]
  /\ queue # <<>> /\ queue' = Tail(queue)
  /\ Len(stack'[th]) = Len(stack[th]) + 1
  /\ \A i \in 1..Len(stack[th]) :
       stack'[th][i].kind = stack[th][i].kind /\ stack'[th][i].id = stack[th][i].id
  /\ stack'[th][Len(stack[th]) + 1] = TaskFrame(Head(queue), "load")
  /\ \A x \in Threads \ {th} : stack'[x] = stack[x]

\* Calls stay made, and the joined ones stay finished.
Keeps ==
  /\ \A c \in Calls : status[c] # "unmade" => status'[c] # "unmade"
  /\ \A c \in Calls : status'[c] = "joined" => remaining'[c] = 0

\* The domain of the queue and of the stacks.
LEMMA Domains ==
  ASSUME TypeOK
  PROVE  /\ Len(queue) \in Nat /\ DOMAIN queue = 1..Len(queue)
         /\ \A x \in Threads : Len(stack[x]) \in Nat /\ DOMAIN stack[x] = 1..Len(stack[x])
<1>1. Len(queue) \in Nat /\ DOMAIN queue = 1..Len(queue)
  BY LenProperties DEF TypeOK
<1>2. QED
  BY <1>1, StackFacts DEF Depth

LEMMA ShrinkKeeps ==
  ASSUME TypeOK, OnePlace, Made, Shrinks, Keeps
  PROVE  OnePlace' /\ Made'
<1>1. \A x \in Threads : DOMAIN stack'[x] = 1..Len(stack'[x]) /\ DOMAIN stack'[x] \subseteq DOMAIN stack[x]
  <2>1. TAKE x \in Threads
  <2>2. Len(stack'[x]) \in Nat /\ DOMAIN stack'[x] = 1..Len(stack'[x])
    BY LenProperties DEF Shrinks
  <2>3. QED
    BY <2>2, Domains DEF Shrinks
<1>2. \A x \in Threads : \A i \in DOMAIN stack'[x] :
        stack'[x][i].kind = stack[x][i].kind /\ stack'[x][i].id = stack[x][i].id
  BY <1>1 DEF Shrinks
<1>3. queue' = queue
  BY DEF Shrinks
<1>4. OnePlace'
  <2>1. \A x, y \in Threads : \A i \in DOMAIN stack'[x], j \in DOMAIN stack'[y] :
          /\ stack'[x][i].kind = "task" /\ stack'[y][j].kind = "task"
          /\ stack'[x][i].id = stack'[y][j].id
          => x = y /\ i = j
    <3>1. SUFFICES ASSUME NEW x \in Threads, NEW y \in Threads,
                          NEW i \in DOMAIN stack'[x], NEW j \in DOMAIN stack'[y],
                          stack'[x][i].kind = "task", stack'[y][j].kind = "task",
                          stack'[x][i].id = stack'[y][j].id
                   PROVE  x = y /\ i = j
      OBVIOUS
    <3>2. i \in DOMAIN stack[x] /\ j \in DOMAIN stack[y]
      BY <1>1
    <3>3. QED
      BY <1>2, <3>1, <3>2 DEF OnePlace, IsTask
  <2>2. \A x \in Threads : \A i \in DOMAIN stack'[x], j \in DOMAIN queue' :
          stack'[x][i].kind = "task" => stack'[x][i].id # queue'[j]
    BY <1>1, <1>2, <1>3 DEF OnePlace, IsTask
  <2>3. QED
    BY <1>3, <2>1, <2>2 DEF OnePlace, IsTask
<1>5. \A th \in Threads : \A i \in DOMAIN stack'[th] :
        stack[th][i].kind # "task" => stack[th][i].id \in Calls
  BY <1>1, StackFacts, FrameFacts
<1>6. Made'
  BY <1>1, <1>2, <1>3, <1>5 DEF Made, Keeps
<1>7. QED
  BY <1>4, <1>6

\* The rest of a queue, position by position.
LEMMA TailFacts ==
  ASSUME TypeOK, queue # <<>>, queue' = Tail(queue)
  PROVE  /\ Head(queue) = queue[1] /\ 1 \in DOMAIN queue /\ Head(queue) \in Tasks
         /\ queue' \in Seq(Tasks)
         /\ \A i \in DOMAIN queue' : i + 1 \in DOMAIN queue /\ i \in Nat \ {0} /\ queue'[i] = queue[i + 1]
         /\ \A i \in DOMAIN queue : i # 1 => i - 1 \in DOMAIN queue' /\ queue'[i - 1] = queue[i]
<1>1. queue \in Seq(Tasks)
  BY DEF TypeOK
<1>2. /\ Tail(queue) \in Seq(Tasks) /\ Len(Tail(queue)) = Len(queue) - 1
      /\ \A i \in 1..Len(Tail(queue)) : Tail(queue)[i] = queue[i + 1]
      /\ Head(queue) \in Tasks /\ Head(queue) = queue[1]
  BY <1>1, HeadTailProperties
<1>3. DOMAIN queue' = 1..Len(queue')
  BY <1>2, LenProperties
<1>4. Len(queue) \in Nat /\ Len(queue) # 0 /\ DOMAIN queue = 1..Len(queue)
  BY <1>1, Domains, EmptySeq
<1>5. \A i \in DOMAIN queue : i # 1 => i - 1 \in DOMAIN queue' /\ (i - 1) + 1 = i
  BY <1>2, <1>3, <1>4
<1>6. \A i \in DOMAIN queue' : i + 1 \in DOMAIN queue /\ i \in Nat \ {0}
  BY <1>2, <1>3, <1>4
<1>7. 1 \in DOMAIN queue
  BY <1>4
<1>8. \A i \in DOMAIN queue' : queue'[i] = queue[i + 1]
  BY <1>2, <1>3
<1>9. \A i \in DOMAIN queue : i # 1 => queue'[i - 1] = queue[i]
  BY <1>5, <1>8
<1>10. QED
  BY <1>2, <1>5, <1>6, <1>7, <1>8, <1>9

LEMMA TakeKeeps ==
  ASSUME TypeOK, OnePlace, Made, NEW th \in Threads, Takes(th), Keeps
  PROVE  OnePlace' /\ Made'
<1> DEFINE n == Len(stack[th]) + 1
           t == Head(queue)
<1>1. /\ n \in Nat /\ n \notin DOMAIN stack[th] /\ n \in DOMAIN stack'[th]
      /\ \A i \in DOMAIN stack'[th] : i = n \/ i \in DOMAIN stack[th]
  <2>1. Len(stack'[th]) = n /\ DOMAIN stack'[th] = 1..Len(stack'[th])
    BY LenProperties DEF Takes
  <2>2. Len(stack[th]) \in Nat /\ DOMAIN stack[th] = 1..Len(stack[th])
    BY Domains
  <2>3. QED
    BY <2>1, <2>2
<1>2. \A i \in DOMAIN stack[th] :
        stack'[th][i].kind = stack[th][i].kind /\ stack'[th][i].id = stack[th][i].id
  BY Domains DEF Takes
<1>3. stack'[th][n].kind = "task" /\ stack'[th][n].id = t
  BY DEF Takes, TaskFrame
<1>4. \A x \in Threads \ {th} : stack'[x] = stack[x]
  BY DEF Takes
<1>5. /\ t = queue[1] /\ 1 \in DOMAIN queue
      /\ \A i \in DOMAIN queue' : i + 1 \in DOMAIN queue /\ i \in Nat \ {0} /\ queue'[i] = queue[i + 1]
  BY TailFacts DEF Takes
<1>6. \A x \in Threads : \A i \in DOMAIN stack[x] : IsTask(x, i) => stack[x][i].id # t
  BY <1>5 DEF OnePlace
<1>7. \A i \in DOMAIN queue' : queue'[i] # t
  <2>1. \A i \in DOMAIN queue' : i + 1 # 1
    BY <1>5
  <2>2. QED
    BY <1>5, <2>1 DEF OnePlace
<1>8. \A i, j \in DOMAIN queue' : queue'[i] = queue'[j] => i = j
  <2>1. SUFFICES ASSUME NEW i \in DOMAIN queue', NEW j \in DOMAIN queue', queue'[i] = queue'[j]
                 PROVE  i = j
    OBVIOUS
  <2>2. i + 1 = j + 1
    BY <1>5, <2>1 DEF OnePlace
  <2>3. QED
    BY <1>5, <2>2
<1> HIDE DEF n, t
<1>9. \A x \in Threads : \A i \in DOMAIN stack'[x] :
        \/ x = th /\ i = n /\ stack'[x][i].kind = "task" /\ stack'[x][i].id = t
        \/ /\ i \in DOMAIN stack[x] /\ ~(x = th /\ i = n)
           /\ stack'[x][i].kind = stack[x][i].kind /\ stack'[x][i].id = stack[x][i].id
  BY <1>1, <1>2, <1>3, <1>4
<1>10. \A x, y \in Threads : \A i \in DOMAIN stack'[x], j \in DOMAIN stack'[y] :
         /\ stack'[x][i].kind = "task" /\ stack'[y][j].kind = "task"
         /\ stack'[x][i].id = stack'[y][j].id
         => x = y /\ i = j
  <2>1. SUFFICES ASSUME NEW x \in Threads, NEW y \in Threads,
                        NEW i \in DOMAIN stack'[x], NEW j \in DOMAIN stack'[y],
                        stack'[x][i].kind = "task", stack'[y][j].kind = "task",
                        stack'[x][i].id = stack'[y][j].id
                 PROVE  x = y /\ i = j
    OBVIOUS
  <2>2. CASE i \in DOMAIN stack[x] /\ ~(x = th /\ i = n) /\ j \in DOMAIN stack[y] /\ ~(y = th /\ j = n)
    BY <1>9, <2>1, <2>2 DEF OnePlace, IsTask
  <2>3. QED
    BY <1>6, <1>9, <2>1, <2>2 DEF IsTask
<1>11. \A x \in Threads : \A i \in DOMAIN stack'[x], j \in DOMAIN queue' :
         stack'[x][i].kind = "task" => stack'[x][i].id # queue'[j]
  BY <1>5, <1>7, <1>9 DEF OnePlace, IsTask
<1>12. OnePlace'
  BY <1>8, <1>10, <1>11 DEF OnePlace, IsTask
<1>13. \E c \in Calls : status[c] # "unmade" /\ t \in Branches(c)
  BY <1>5 DEF Made
<1>14. \A x \in Threads : \A i \in DOMAIN stack[x] :
         stack[x][i].kind # "task" => stack[x][i].id \in Calls
  BY StackFacts, FrameFacts
<1>15. \A x \in Threads : \A i \in DOMAIN stack'[x] :
         IF stack'[x][i].kind = "task"
         THEN \E c \in Calls : status'[c] # "unmade" /\ stack'[x][i].id \in Branches(c)
         ELSE status'[stack'[x][i].id] # "unmade"
  BY <1>9, <1>13, <1>14 DEF Made, Keeps
<1>16. \A j \in DOMAIN queue' : \E c \in Calls : status'[c] # "unmade" /\ queue'[j] \in Branches(c)
  BY <1>5 DEF Made, Keeps
<1>17. Made'
  BY <1>15, <1>16 DEF Made, Keeps
<1>18. QED
  BY <1>12, <1>17

\* th makes call c: its branches go to the end of the queue, and th joins it.
Forks(th, c) ==
  /\ stack' = [stack EXCEPT ![th] = Append(@, JoinFrame(c, "announce"))]
  /\ queue' = queue \o BranchesOf[c]
  /\ status[c] = "unmade" /\ status' = [status EXCEPT ![c] = "open"]
  /\ remaining' = [remaining EXCEPT ![c] = Len(BranchesOf[c])]

\* The longer queue, position by position.
LEMMA ConcatFacts ==
  ASSUME TypeOK, NEW c \in Calls, queue' = queue \o BranchesOf[c]
  PROVE  /\ queue' \in Seq(Tasks)
         /\ \A i \in DOMAIN queue' :
              \/ i \in DOMAIN queue /\ queue'[i] = queue[i]
              \/ /\ i \notin DOMAIN queue /\ i \in Nat /\ i - Len(queue) \in DOMAIN BranchesOf[c]
                 /\ queue'[i] = BranchesOf[c][i - Len(queue)]
         /\ \A i \in DOMAIN queue : i \in DOMAIN queue' /\ queue'[i] = queue[i]
         /\ \A i \in DOMAIN BranchesOf[c] : \E j \in DOMAIN queue' : queue'[j] = BranchesOf[c][i]
<1> DEFINE b == BranchesOf[c]
           n == Len(queue)
           m == Len(b)
<1>1. queue \in Seq(Tasks) /\ b \in Seq(Tasks)
  BY BranchesCounted DEF TypeOK
<1>2. n \in Nat /\ m \in Nat /\ DOMAIN queue = 1..n /\ DOMAIN b = 1..m
  BY Domains, BranchesCounted
<1>3. /\ queue' \in Seq(Tasks) /\ Len(queue') = n + m
      /\ \A i \in 1..(n + m) : queue'[i] = IF i <= n THEN queue[i] ELSE b[i - n]
  BY <1>1, ConcatProperties
<1>4. DOMAIN queue' = 1..(n + m)
  BY <1>3, LenProperties
<1> HIDE DEF b, n, m
<1>5. \A i \in 1..(n + m) : i \in Nat /\ (i <= n => i \in 1..n)
                            /\ (~(i <= n) => i \notin 1..n /\ i - n \in 1..m)
  BY <1>2
<1>6. \A i \in 1..n : i \in 1..(n + m) /\ i <= n
  BY <1>2
<1>7. \A i \in 1..m : i + n \in 1..(n + m) /\ ~(i + n <= n) /\ (i + n) - n = i
  BY <1>2
<1>8. \A i \in 1..m : queue'[i + n] = b[i]
  BY <1>3, <1>7
<1>9. QED
  BY <1>2, <1>3, <1>4, <1>5, <1>6, <1>7, <1>8 DEF b, n, m

\* No branch of a call that is not yet made is anywhere.
LEMMA Unmade ==
  ASSUME Made, NEW c \in Calls, status[c] = "unmade", NEW t \in Branches(c)
  PROVE  /\ \A i \in DOMAIN queue : queue[i] # t
         /\ \A x \in Threads : \A i \in DOMAIN stack[x] : IsTask(x, i) => stack[x][i].id # t
  BY CallOfFacts DEF Made, IsTask

LEMMA ForkKeeps ==
  ASSUME TypeOK, OnePlace, Made, NEW th \in Threads, NEW c \in Calls, Forks(th, c)
  PROVE  OnePlace' /\ Made'
<1> DEFINE n == Len(stack[th]) + 1
           b == BranchesOf[c]
           k == Len(queue)
<1>1. /\ stack' \in [Threads -> Seq(Frames)]
      /\ Len(stack'[th]) = n
      /\ \A i \in 1..Len(stack[th]) : stack'[th][i] = stack[th][i]
      /\ stack'[th][n] = JoinFrame(c, "announce")
      /\ \A x \in Threads \ {th} : stack'[x] = stack[x]
  <2>1. JoinFrame(c, "announce") \in Frames
    BY DEF JoinFrame, Frames, JoinFrames
  <2>2. QED
    BY <2>1, PushFacts DEF Forks, Depth
<1>2. /\ n \in Nat /\ n \in DOMAIN stack'[th]
      /\ \A i \in DOMAIN stack'[th] : i = n \/ i \in 1..Len(stack[th])
  <2>1. DOMAIN stack'[th] = 1..Len(stack'[th])
    BY <1>1, LenProperties
  <2>2. Len(stack[th]) \in Nat
    BY Domains
  <2>3. QED
    BY <1>1, <2>1, <2>2
<1>3. stack'[th][n].kind = "join" /\ stack'[th][n].id = c
  BY <1>1 DEF JoinFrame
<1> HIDE DEF n
<1>4. \A x \in Threads : \A i \in DOMAIN stack'[x] :
        \/ stack'[x][i].kind = "join" /\ stack'[x][i].id = c
        \/ i \in DOMAIN stack[x] /\ stack'[x][i] = stack[x][i]
  BY <1>1, <1>2, <1>3, Domains
<1>5. \A i \in DOMAIN queue' :
        \/ i \in DOMAIN queue /\ queue'[i] = queue[i]
        \/ /\ i \notin DOMAIN queue /\ i \in Nat /\ i - k \in DOMAIN b
           /\ queue'[i] = b[i - k]
  BY ConcatFacts DEF Forks
<1>6. k \in Nat /\ \A i \in DOMAIN b : b[i] \in Branches(c)
  BY Domains DEF Branches
<1>7. \A t \in Branches(c) :
        /\ \A i \in DOMAIN queue : queue[i] # t
        /\ \A x \in Threads : \A i \in DOMAIN stack[x] : IsTask(x, i) => stack[x][i].id # t
  BY Unmade DEF Forks
<1>8. \A i, j \in DOMAIN b : b[i] = b[j] => i = j
  OBVIOUS
<1> HIDE DEF b, k
<1>9. \A i, j \in DOMAIN queue' : queue'[i] = queue'[j] => i = j
  <2>1. SUFFICES ASSUME NEW i \in DOMAIN queue', NEW j \in DOMAIN queue', queue'[i] = queue'[j]
                 PROVE  i = j
    OBVIOUS
  <2>2. CASE i \in DOMAIN queue /\ queue'[i] = queue[i] /\ j \in DOMAIN queue /\ queue'[j] = queue[j]
    BY <2>1, <2>2 DEF OnePlace
  <2>3. CASE /\ i \in Nat /\ i - k \in DOMAIN b /\ queue'[i] = b[i - k]
             /\ j \in Nat /\ j - k \in DOMAIN b /\ queue'[j] = b[j - k]
    <3>1. i - k = j - k
      BY <1>8, <2>1, <2>3
    <3>2. QED
      BY <1>6, <2>3, <3>1
  <2>4. QED
    BY <1>5, <1>6, <1>7, <2>1, <2>2, <2>3
<1>10. \A x, y \in Threads : \A i \in DOMAIN stack'[x], j \in DOMAIN stack'[y] :
         /\ stack'[x][i].kind = "task" /\ stack'[y][j].kind = "task"
         /\ stack'[x][i].id = stack'[y][j].id
         => x = y /\ i = j
  <2>1. SUFFICES ASSUME NEW x \in Threads, NEW y \in Threads,
                        NEW i \in DOMAIN stack'[x], NEW j \in DOMAIN stack'[y],
                        stack'[x][i].kind = "task", stack'[y][j].kind = "task",
                        stack'[x][i].id = stack'[y][j].id
                 PROVE  x = y /\ i = j
    OBVIOUS
  <2>2. /\ i \in DOMAIN stack[x] /\ stack'[x][i] = stack[x][i]
        /\ j \in DOMAIN stack[y] /\ stack'[y][j] = stack[y][j]
    BY <1>4, <2>1
  <2>3. QED
    BY <2>1, <2>2 DEF OnePlace, IsTask
<1>11. \A x \in Threads : \A i \in DOMAIN stack'[x], j \in DOMAIN queue' :
         stack'[x][i].kind = "task" => stack'[x][i].id # queue'[j]
  BY <1>4, <1>5, <1>6, <1>7 DEF OnePlace, IsTask
<1>12. OnePlace'
  BY <1>9, <1>10, <1>11 DEF OnePlace, IsTask
<1>13. status'[c] = "open" /\ \A d \in Calls : d # c => status'[d] = status[d] /\ remaining'[d] = remaining[d]
  BY DEF Forks, TypeOK
<1>14. \A d \in Calls : status[d] # "unmade" => status'[d] # "unmade"
  BY <1>13
<1>15. \A x \in Threads : \A i \in DOMAIN stack[x] :
         stack[x][i].kind # "task" => stack[x][i].id \in Calls
  BY StackFacts, FrameFacts
<1>16. \A x \in Threads : \A i \in DOMAIN stack'[x] :
         IF stack'[x][i].kind = "task"
         THEN \E d \in Calls : status'[d] # "unmade" /\ stack'[x][i].id \in Branches(d)
         ELSE status'[stack'[x][i].id] # "unmade"
  BY <1>4, <1>13, <1>14, <1>15 DEF Made
<1>17. \A j \in DOMAIN queue' : \E d \in Calls : status'[d] # "unmade" /\ queue'[j] \in Branches(d)
  BY <1>5, <1>6, <1>13, <1>14 DEF Made
<1>18. \A d \in Calls : status'[d] = "joined" => remaining'[d] = 0
  BY <1>13 DEF Made
<1>19. Made'
  BY <1>16, <1>17, <1>18 DEF Made
<1>20. QED
  BY <1>12, <1>19

-----------------------------------------------------------------------------
(***************************************************************************)
(* The branches still to be counted down.                                  *)
(***************************************************************************)
Pending(t) == Queued(t) \/ Executing(t)

\* Some frame of s executes t and has not counted it down.
ActiveIn(s, t) ==
  \E x \in Threads : \E i \in DOMAIN s[x] :
    s[x][i].kind = "task" /\ s[x][i].id = t /\ s[x][i].pc # "notify"

LEMMA ActiveMeansExecuting ==
  ASSUME NEW s \in [Threads -> Seq(Frames)], NEW t
  PROVE  (\E th \in Threads, pc \in {"load", "run", "leave"} :
            \E i \in DOMAIN s[th] : s[th][i] = TaskFrame(t, pc)) <=> ActiveIn(s, t)
<1>1. \A x \in Threads : \A i \in DOMAIN s[x] : s[x][i] \in Frames
  BY LenProperties
<1>2. ASSUME NEW th \in Threads, NEW pc \in {"load", "run", "leave"},
             NEW i \in DOMAIN s[th], s[th][i] = TaskFrame(t, pc)
      PROVE  ActiveIn(s, t)
  BY <1>2 DEF ActiveIn, TaskFrame
<1>3. ASSUME NEW x \in Threads, NEW i \in DOMAIN s[x],
             s[x][i].kind = "task", s[x][i].id = t, s[x][i].pc # "notify"
      PROVE  \E th \in Threads, pc \in {"load", "run", "leave"} :
               \E j \in DOMAIN s[th] : s[th][j] = TaskFrame(t, pc)
  <2>1. s[x][i] = TaskFrame(t, s[x][i].pc) /\ s[x][i].pc \in {"load", "run", "leave"}
    BY <1>1, <1>3, FrameFacts
  <2>2. QED
    BY <2>1
<1>4. QED
  BY <1>2, <1>3 DEF ActiveIn

LEMMA ExecutingActive ==
  ASSUME TypeOK, stack' \in [Threads -> Seq(Frames)], NEW t
  PROVE  (Executing(t) <=> ActiveIn(stack, t)) /\ (Executing(t)' <=> ActiveIn(stack', t))
<1>1. stack \in [Threads -> Seq(Frames)]
  BY DEF TypeOK, Frames
<1>2. Executing(t) <=> ActiveIn(stack, t)
  BY <1>1, ActiveMeansExecuting DEF Executing, OnStack
<1>3. Executing(t)' <=> ActiveIn(stack', t)
  BY ActiveMeansExecuting DEF Executing, OnStack
<1>4. QED
  BY <1>2, <1>3

\* No frame counts its branch down.
NoneCounted ==
  \A x \in Threads :
    /\ \A i \in DOMAIN stack[x] :
         stack[x][i].kind = "task" /\ stack[x][i].pc # "notify" =>
           i \in DOMAIN stack'[x] /\ stack'[x][i].pc # "notify"
    /\ \A i \in DOMAIN stack'[x] :
         stack'[x][i].kind = "task" /\ stack'[x][i].pc # "notify" => stack[x][i].pc # "notify"

\* The domains after a step that shrinks the stacks.
LEMMA ShrunkDomains ==
  ASSUME TypeOK, Shrinks
  PROVE  /\ \A x \in Threads : /\ DOMAIN stack'[x] = 1..Len(stack'[x])
                               /\ DOMAIN stack'[x] \subseteq DOMAIN stack[x]
         /\ \A x \in Threads : \A i \in DOMAIN stack'[x] :
              stack'[x][i].kind = stack[x][i].kind /\ stack'[x][i].id = stack[x][i].id
<1>1. \A x \in Threads : DOMAIN stack'[x] = 1..Len(stack'[x]) /\ DOMAIN stack'[x] \subseteq DOMAIN stack[x]
  <2>1. TAKE x \in Threads
  <2>2. Len(stack'[x]) \in Nat /\ DOMAIN stack'[x] = 1..Len(stack'[x])
    BY LenProperties DEF Shrinks
  <2>3. QED
    BY <2>2, Domains DEF Shrinks
<1>2. QED
  BY <1>1 DEF Shrinks

LEMMA ShrinkPending ==
  ASSUME TypeOK, Shrinks, NoneCounted, NEW t
  PROVE  Pending(t)' <=> Pending(t)
<1>1. ActiveIn(stack, t) <=> ActiveIn(stack', t)
  BY ShrunkDomains DEF ActiveIn, NoneCounted
<1>2. Queued(t)' <=> Queued(t)
  BY DEF Shrinks, Queued
<1>3. QED
  BY <1>1, <1>2, ExecutingActive DEF Pending, Shrinks

LEMMA TakePending ==
  ASSUME TypeOK, NEW th \in Threads, Takes(th), NEW t,
         \A i \in DOMAIN stack[th] : stack[th][i].kind = "task" => stack'[th][i] = stack[th][i]
  PROVE  Pending(t)' <=> Pending(t)
<1> DEFINE n == Len(stack[th]) + 1
<1>1. /\ n \in DOMAIN stack'[th] /\ n \notin DOMAIN stack[th]
      /\ DOMAIN stack'[th] = DOMAIN stack[th] \union {n}
  <2>1. Len(stack'[th]) = n /\ DOMAIN stack'[th] = 1..Len(stack'[th])
    BY LenProperties DEF Takes
  <2>2. Len(stack[th]) \in Nat /\ DOMAIN stack[th] = 1..Len(stack[th])
    BY Domains
  <2>3. QED
    BY <2>1, <2>2
<1>2. /\ stack'[th][n].kind = "task" /\ stack'[th][n].id = Head(queue)
      /\ stack'[th][n].pc # "notify"
  BY DEF Takes, TaskFrame
<1>3. \A i \in DOMAIN stack[th] :
        stack'[th][i].kind = stack[th][i].kind /\ stack'[th][i].id = stack[th][i].id
  BY Domains DEF Takes
<1>4. \A x \in Threads \ {th} : stack'[x] = stack[x]
  BY DEF Takes
<1> HIDE DEF n
<1>5. ActiveIn(stack', t) <=> ActiveIn(stack, t) \/ t = Head(queue)
  <2>1. ActiveIn(stack, t) => ActiveIn(stack', t)
    BY <1>1, <1>4 DEF ActiveIn
  <2>2. t = Head(queue) => ActiveIn(stack', t)
    BY <1>1, <1>2 DEF ActiveIn
  <2>3. ASSUME NEW x \in Threads, NEW i \in DOMAIN stack'[x],
               stack'[x][i].kind = "task", stack'[x][i].id = t, stack'[x][i].pc # "notify",
               t # Head(queue)
        PROVE  ActiveIn(stack, t)
    <3>1. i \in DOMAIN stack[x] /\ stack'[x][i] = stack[x][i]
      BY <1>1, <1>2, <1>3, <1>4, <2>3
    <3>2. QED
      BY <2>3, <3>1 DEF ActiveIn
  <2>4. ActiveIn(stack', t) => ActiveIn(stack, t) \/ t = Head(queue)
    BY <2>3 DEF ActiveIn
  <2>5. QED
    BY <2>1, <2>2, <2>4
<1>6. Queued(t) <=> Queued(t)' \/ t = Head(queue)
  <2>1. /\ Head(queue) = queue[1] /\ 1 \in DOMAIN queue
        /\ \A i \in DOMAIN queue' : i + 1 \in DOMAIN queue /\ queue'[i] = queue[i + 1]
        /\ \A i \in DOMAIN queue : i # 1 => i - 1 \in DOMAIN queue' /\ queue'[i - 1] = queue[i]
    BY TailFacts DEF Takes
  <2>2. QED
    BY <2>1 DEF Queued
<1>7. QED
  BY <1>5, <1>6, ExecutingActive DEF Pending, Takes

LEMMA ForkPending ==
  ASSUME TypeOK, NEW th \in Threads, NEW c \in Calls, Forks(th, c), NEW t
  PROVE  Pending(t)' <=> Pending(t) \/ t \in Branches(c)
<1> DEFINE n == Len(stack[th]) + 1
<1>1. /\ stack' \in [Threads -> Seq(Frames)]
      /\ Len(stack'[th]) = n
      /\ \A i \in 1..Len(stack[th]) : stack'[th][i] = stack[th][i]
      /\ stack'[th][n] = JoinFrame(c, "announce")
      /\ \A x \in Threads \ {th} : stack'[x] = stack[x]
  <2>1. JoinFrame(c, "announce") \in Frames
    BY DEF JoinFrame, Frames, JoinFrames
  <2>2. QED
    BY <2>1, PushFacts DEF Forks, Depth
<1>2. DOMAIN stack'[th] = DOMAIN stack[th] \union {n} /\ DOMAIN stack[th] = 1..Len(stack[th])
  <2>1. DOMAIN stack'[th] = 1..Len(stack'[th])
    BY <1>1, LenProperties
  <2>2. Len(stack[th]) \in Nat /\ DOMAIN stack[th] = 1..Len(stack[th])
    BY Domains
  <2>3. QED
    BY <1>1, <2>1, <2>2
<1>3. stack'[th][n].kind # "task"
  BY <1>1 DEF JoinFrame
<1> HIDE DEF n
<1>4. \A x \in Threads : \A i :
        (i \in DOMAIN stack'[x] /\ stack'[x][i].kind = "task")
          <=> (i \in DOMAIN stack[x] /\ stack[x][i].kind = "task" /\ stack'[x][i] = stack[x][i])
  BY <1>1, <1>2, <1>3
<1>5. ActiveIn(stack', t) <=> ActiveIn(stack, t)
  <2>1. ActiveIn(stack', t) => ActiveIn(stack, t)
    BY <1>4 DEF ActiveIn
  <2>2. \A x \in Threads : \A i \in DOMAIN stack[x] : i \in DOMAIN stack'[x] /\ stack'[x][i] = stack[x][i]
    BY <1>1, <1>2
  <2>3. ASSUME ActiveIn(stack, t) PROVE ActiveIn(stack', t)
    <3>0. PICK x \in Threads : \E i \in DOMAIN stack[x] :
            stack[x][i].kind = "task" /\ stack[x][i].id = t /\ stack[x][i].pc # "notify"
      BY <2>3 DEF ActiveIn
    <3>1. PICK i \in DOMAIN stack[x] :
            stack[x][i].kind = "task" /\ stack[x][i].id = t /\ stack[x][i].pc # "notify"
      BY <3>0
    <3>2. i \in DOMAIN stack'[x] /\ stack'[x][i] = stack[x][i]
      BY <2>2
    <3>3. QED
      BY <3>1, <3>2 DEF ActiveIn
  <2>4. QED
    BY <2>1, <2>3
<1>6. Queued(t)' <=> Queued(t) \/ t \in Branches(c)
  <2>1. \A i \in DOMAIN queue' :
          \/ i \in DOMAIN queue /\ queue'[i] = queue[i]
          \/ i - Len(queue) \in DOMAIN BranchesOf[c] /\ queue'[i] = BranchesOf[c][i - Len(queue)]
    BY ConcatFacts DEF Forks
  <2>2. Queued(t)' => Queued(t) \/ t \in Branches(c)
    BY <2>1 DEF Queued, Branches
  <2>3. Queued(t) => Queued(t)'
    BY ConcatFacts DEF Queued, Forks
  <2>4. \A i \in DOMAIN BranchesOf[c] : \E j \in DOMAIN queue' : queue'[j] = BranchesOf[c][i]
    BY ConcatFacts DEF Forks
  <2>5. t \in Branches(c) => Queued(t)'
    BY <2>4 DEF Queued, Branches
  <2>6. QED
    BY <2>2, <2>3, <2>5
<1>7. QED
  BY <1>1, <1>5, <1>6, ExecutingActive DEF Pending

\* A step after which the same branches are pending keeps the count exact.
LEMMA CountKept ==
  ASSUME RemainingExact, remaining' = remaining,
         \A c \in Calls : status'[c] # "unmade" => status[c] # "unmade",
         \A t : Pending(t)' <=> Pending(t)
  PROVE  RemainingExact'
<1>1. SUFFICES ASSUME NEW c \in Calls, status'[c] # "unmade"
               PROVE  remaining'[c] = Cardinality({t \in Branches(c) : Queued(t)' \/ Executing(t)'})
  BY DEF RemainingExact, Branches
<1>2. {t \in Branches(c) : Queued(t)' \/ Executing(t)'} = {t \in Branches(c) : Queued(t) \/ Executing(t)}
  BY DEF Pending
<1>3. QED
  BY <1>1, <1>2 DEF RemainingExact

\* A call starts with all its branches to be counted down.
LEMMA ForkCount ==
  ASSUME TypeOK, RemainingExact, NEW th \in Threads, NEW c \in Calls, Forks(th, c)
  PROVE  RemainingExact'
<1>1. SUFFICES ASSUME NEW d \in Calls, status'[d] # "unmade"
               PROVE  remaining'[d] = Cardinality({t \in Branches(d) : Queued(t)' \/ Executing(t)'})
  BY DEF RemainingExact, Branches
<1>2. CASE d = c
  <2>1. {t \in Branches(d) : Queued(t)' \/ Executing(t)'} = Branches(c)
    BY <1>2, ForkPending DEF Pending
  <2>2. remaining'[c] = Len(BranchesOf[c])
    BY DEF Forks, TypeOK
  <2>3. QED
    BY <1>2, <2>1, <2>2, BranchesCounted
<1>3. CASE d # c
  <2>1. \A t \in Branches(d) : t \notin Branches(c)
    BY <1>3, CallOfFacts
  <2>2. {t \in Branches(d) : Queued(t)' \/ Executing(t)'} = {t \in Branches(d) : Queued(t) \/ Executing(t)}
    BY <2>1, ForkPending DEF Pending
  <2>3. remaining'[d] = remaining[d] /\ status'[d] = status[d]
    BY <1>3 DEF Forks, TypeOK
  <2>4. QED
    BY <1>1, <2>2, <2>3 DEF RemainingExact
<1>4. QED
  BY <1>2, <1>3

\* Every pending branch is counted, so a count of zero is the end of the call.
LEMMA CountFacts ==
  ASSUME RemainingExact, NEW c \in Calls, status[c] # "unmade"
  PROVE  /\ IsFiniteSet({t \in Branches(c) : Queued(t) \/ Executing(t)})
         /\ remaining[c] = Cardinality({t \in Branches(c) : Queued(t) \/ Executing(t)})
         /\ remaining[c] \in Nat
         /\ remaining[c] = 0 => \A t \in Branches(c) : ~Queued(t) /\ ~Executing(t)
<1> DEFINE P == {t \in Branches(c) : Queued(t) \/ Executing(t)}
<1>1. IsFiniteSet(P)
  <2>1. IsFiniteSet(Branches(c)) /\ P \in SUBSET Branches(c)
    BY BranchesCounted
  <2>2. QED
    BY <2>1, FS_Subset
<1>2. remaining[c] = Cardinality(P)
  BY DEF RemainingExact
<1> HIDE DEF P
<1>3. Cardinality(P) \in Nat /\ (Cardinality(P) = 0 => P = {})
  BY <1>1, FS_CardinalityType, FS_EmptySet
<1>4. QED
  BY <1>1, <1>2, <1>3 DEF P

\* th's running branch is counted down, and its frame is left or goes to notify.
Counts(th) ==
  /\ At(th, "task", "leave")
  /\ stack' \in [Threads -> Seq(Frames)] /\ queue' = queue /\ status' = status
  /\ remaining' = [remaining EXCEPT ![CallOf(Top(th).id)] = @ - 1]
  /\ \A x \in Threads \ {th} : stack'[x] = stack[x]
  /\ \A i \in DOMAIN stack[th] :
       i # Depth(th) => i \in DOMAIN stack'[th] /\ stack'[th][i] = stack[th][i]
  /\ \A i \in DOMAIN stack'[th] :
       /\ i \in DOMAIN stack[th]
       /\ i = Depth(th) => stack'[th][i] = TaskFrame(Top(th).id, "notify")

LEMMA LeavePending ==
  ASSUME TypeOK, OnePlace, Made, NEW th \in Threads, Counts(th)
  PROVE  /\ \E c \in Calls : status[c] # "unmade" /\ Top(th).id \in Branches(c)
         /\ Pending(Top(th).id)
         /\ \A u : Pending(u)' <=> Pending(u) /\ u # Top(th).id
<1> DEFINE d == Depth(th)
           t == Top(th).id
<1>1. d \in DOMAIN stack[th] /\ stack[th][d] = Top(th) /\ Top(th).kind = "task" /\ Top(th).pc = "leave"
  BY StackFacts DEF Counts, At, Top
<1>2. \E c \in Calls : status[c] # "unmade" /\ t \in Branches(c)
  BY <1>1 DEF Made
<1>3. ActiveIn(stack, t)
  BY <1>1 DEF ActiveIn
<1>4. /\ \A x \in Threads : \A i \in DOMAIN stack[x] :
           stack[x][i].kind = "task" /\ stack[x][i].id = t => x = th /\ i = d
      /\ \A i \in DOMAIN queue : queue[i] # t
  BY <1>1 DEF OnePlace, IsTask
<1>5. \A x \in Threads \ {th} : stack'[x] = stack[x]
  BY DEF Counts
<1>6. \A i \in DOMAIN stack[th] : i # d => i \in DOMAIN stack'[th] /\ stack'[th][i] = stack[th][i]
  BY DEF Counts
<1>7. \A i \in DOMAIN stack'[th] :
        i \in DOMAIN stack[th] /\ (i = d => stack'[th][i].pc = "notify")
  BY DEF Counts, TaskFrame
<1> HIDE DEF d, t
<1>8. ASSUME NEW u PROVE ActiveIn(stack', u) <=> ActiveIn(stack, u) /\ u # t
  <2>1. ASSUME NEW x \in Threads, NEW i \in DOMAIN stack'[x],
               stack'[x][i].kind = "task", stack'[x][i].id = u, stack'[x][i].pc # "notify"
        PROVE  ActiveIn(stack, u) /\ u # t
    <3>1. ~(x = th /\ i = d) /\ i \in DOMAIN stack[x] /\ stack'[x][i] = stack[x][i]
      BY <1>5, <1>6, <1>7, <2>1
    <3>2. QED
      BY <1>4, <2>1, <3>1 DEF ActiveIn
  <2>2. ASSUME NEW x \in Threads, NEW i \in DOMAIN stack[x], u # t,
               stack[x][i].kind = "task", stack[x][i].id = u, stack[x][i].pc # "notify"
        PROVE  ActiveIn(stack', u)
    <3>1. ~(x = th /\ i = d)
      BY <1>1, <2>2 DEF t
    <3>2. i \in DOMAIN stack'[x] /\ stack'[x][i] = stack[x][i]
      BY <1>5, <1>6, <3>1
    <3>3. QED
      BY <2>2, <3>2 DEF ActiveIn
  <2>3. ActiveIn(stack', u) => ActiveIn(stack, u) /\ u # t
    BY <2>1 DEF ActiveIn
  <2>4. ActiveIn(stack, u) /\ u # t => ActiveIn(stack', u)
    BY <2>2 DEF ActiveIn
  <2>5. QED
    BY <2>3, <2>4
<1>9. \A u : Queued(u)' <=> Queued(u) /\ u # t
  BY <1>4 DEF Counts, Queued
<1>10. \A u : Pending(u)' <=> Pending(u) /\ u # t
  BY <1>8, <1>9, ExecutingActive DEF Pending, Counts
<1>11. Pending(t)
  BY <1>3, ExecutingActive DEF Pending, Counts
<1>12. QED
  BY <1>2, <1>10, <1>11 DEF t

\* The branch that leaves is one of the counted ones.
LEMMA LeaveCount ==
  ASSUME TypeOK, OnePlace, Made, RemainingExact, NEW th \in Threads, Counts(th)
  PROVE  /\ RemainingExact' /\ CallOf(Top(th).id) \in Calls
         /\ remaining[CallOf(Top(th).id)] \in Nat \ {0}
         /\ status[CallOf(Top(th).id)] # "unmade"
<1> DEFINE t == Top(th).id
           c == CallOf(t)
           P(d) == {u \in Branches(d) : Queued(u) \/ Executing(u)}
<1>1. c \in Calls /\ status[c] # "unmade" /\ t \in Branches(c)
  BY LeavePending, CallOfFacts
<1>2. t \in P(c) /\ \A u : (Queued(u)' \/ Executing(u)') <=> (Queued(u) \/ Executing(u)) /\ u # t
  BY <1>1, LeavePending DEF Pending
<1>3. /\ IsFiniteSet(P(c)) /\ remaining[c] = Cardinality(P(c)) /\ remaining[c] \in Nat
      /\ remaining[c] = 0 => \A u \in Branches(c) : ~Queued(u) /\ ~Executing(u)
  BY <1>1, CountFacts
<1>4. remaining[c] \in Nat \ {0}
  BY <1>1, <1>2, <1>3
<1>5. remaining'[c] = remaining[c] - 1 /\ \A d \in Calls : d # c => remaining'[d] = remaining[d]
  BY <1>1 DEF Counts, TypeOK
<1>6. \A d \in Calls : t \in Branches(d) => d = c
  BY <1>1, CallOfFacts
<1>7. status' = status
  BY DEF Counts
<1> HIDE DEF c, t
<1>8. ASSUME NEW d \in Calls, status'[d] # "unmade"
      PROVE  remaining'[d] = Cardinality({u \in Branches(d) : Queued(u)' \/ Executing(u)'})
  <2>1. CASE d = c
    <3>1. {u \in Branches(d) : Queued(u)' \/ Executing(u)'} = P(c) \ {t}
      BY <1>2, <2>1
    <3> HIDE DEF P
    <3>2. Cardinality(P(c) \ {t}) = Cardinality(P(c)) - 1
      BY <1>2, <1>3, FS_RemoveElement
    <3>3. QED
      BY <1>3, <1>5, <2>1, <3>1, <3>2
  <2>2. CASE d # c
    <3>1. {u \in Branches(d) : Queued(u)' \/ Executing(u)'} = P(d)
      BY <1>2, <1>6, <2>2
    <3>2. remaining[d] = Cardinality(P(d))
      BY <1>7, <1>8 DEF RemainingExact
    <3>3. QED
      BY <1>5, <2>2, <3>1, <3>2
  <2>3. QED
    BY <2>1, <2>2
<1>9. RemainingExact'
  BY <1>8 DEF RemainingExact, Branches
<1>10. QED
  BY <1>1, <1>4, <1>9 DEF c, t

-----------------------------------------------------------------------------
(***************************************************************************)
(* The steps.                                                              *)
(***************************************************************************)

\* A step of th that neither announces, notifies nor waits for a finished call
\* leaves every announcement and every notification that is due to others.
LEMMA WakeupKept ==
  ASSUME NoLostWakeup, NEW th \in Threads,
         \A x \in Threads \ {th} : stack'[x] = stack[x],
         ~At(th, "join", "announce"), ~At(th, "task", "notify"),
         ~(At(th, "join", "parked")' /\ remaining'[Top(th)'.id] = 0),
         queue' # <<>> => queue # <<>>, asleep' = asleep, remaining' = remaining
  PROVE  NoLostWakeup'
<1>1. \A x \in Threads : x # th => stack'[x] = stack[x]
  OBVIOUS
<1>2. ASSUME queue' # <<>>, NEW w \in Workers, asleep'[w]
      PROVE  \E x \in Threads : At(x, "join", "announce")'
  <2>1. PICK x \in Threads : At(x, "join", "announce")
    BY <1>2 DEF NoLostWakeup
  <2>2. x # th
    BY <2>1
  <2>3. QED
    BY <1>1, <2>1, <2>2 DEF At, Top, Depth
<1>3. ASSUME NEW y \in Threads, At(y, "join", "parked")', remaining'[Top(y)'.id] = 0
      PROVE  \E x \in Threads : At(x, "task", "notify")' /\ CallOf(Top(x)'.id) = Top(y)'.id
  <2>1. y # th
    BY <1>3
  <2>2. Top(y)' = Top(y) /\ At(y, "join", "parked") /\ remaining[Top(y).id] = 0
    BY <1>1, <1>3, <2>1 DEF At, Top, Depth
  <2>3. PICK x \in Threads : At(x, "task", "notify") /\ CallOf(Top(x).id) = Top(y).id
    BY <2>2 DEF NoLostWakeup
  <2>4. x # th
    BY <2>3
  <2>5. At(x, "task", "notify")' /\ Top(x)' = Top(x)
    BY <1>1, <2>3, <2>4 DEF At, Top, Depth
  <2>6. QED
    BY <2>2, <2>3, <2>5
<1>4. QED
  BY <1>2, <1>3 DEF NoLostWakeup, CallOf, Branches

\* What a change of the running frame's pc does to the stacks.
LEMMA GotoShape ==
  ASSUME TypeOK, Deep, NEW th \in Threads, stack[th] # <<>>, NEW l, Goto(th, l),
         [kind |-> Top(th).kind, id |-> Top(th).id, pc |-> l] \in Frames, queue' = queue
  PROVE  /\ Shrinks /\ Deep'
         /\ (Top(th).kind = "task" => Top(th).pc # "notify" /\ l # "notify") => NoneCounted
         /\ \A x \in Threads \ {th} : stack'[x] = stack[x]
         /\ stack'[th] # <<>> /\ Len(stack'[th]) = Depth(th)
         /\ Top(th)' = [kind |-> Top(th).kind, id |-> Top(th).id, pc |-> l]
<1> DEFINE f == [kind |-> Top(th).kind, id |-> Top(th).id, pc |-> l]
           d == Depth(th)
<1>1. /\ stack' \in [Threads -> Seq(Frames)]
      /\ \A x \in Threads : Len(stack'[x]) = Len(stack[x])
      /\ \A x \in Threads : \A i \in 1..Len(stack[x]) :
           stack'[x][i] = IF x = th /\ i = d THEN f ELSE stack[x][i]
  BY GotoFacts
<1>2. d \in DOMAIN stack[th] /\ stack[th][d] = Top(th)
  BY StackFacts DEF Top
<1>3. \A x \in Threads : DOMAIN stack[x] = 1..Len(stack[x])
  BY Domains
<1>4. \A x \in Threads : DOMAIN stack'[x] = DOMAIN stack[x]
  <2>1. \A x \in Threads : DOMAIN stack'[x] = 1..Len(stack'[x])
    BY <1>1, LenProperties
  <2>2. QED
    BY <1>1, <1>3, <2>1
<1>5. f.kind = stack[th][d].kind /\ f.id = stack[th][d].id /\ f.pc = l
  BY <1>2
<1>6. \A x \in Threads : Len(stack[x]) \in Nat
  BY Domains
<1>7. stack'[th][d] = f /\ \A x \in Threads : \A i \in DOMAIN stack[x] :
        ~(x = th /\ i = d) => stack'[x][i] = stack[x][i]
  BY <1>1, <1>2, <1>3
<1>8. \A x \in Threads \ {th} : stack'[x] = stack[x]
  BY DEF Goto, TypeOK
<1>9. Len(stack'[th]) = d /\ stack'[th] # <<>> /\ Top(th)' = f
  <2>1. Len(stack'[th]) = d /\ d \in DOMAIN stack'[th]
    BY <1>1, <1>2, <1>4 DEF Depth
  <2>2. stack'[th] # <<>>
    BY <2>1
  <2>3. QED
    BY <1>7, <2>1, <2>2 DEF Top, Depth
<1> HIDE DEF f, d
<1>10. Shrinks
  <2>1. \A x \in Threads : Len(stack'[x]) <= Len(stack[x])
    BY <1>1, <1>6
  <2>2. \A x \in Threads : \A i \in DOMAIN stack[x] :
          stack'[x][i].kind = stack[x][i].kind /\ stack'[x][i].id = stack[x][i].id
    BY <1>5, <1>7
  <2>3. QED
    BY <1>1, <1>3, <2>1, <2>2 DEF Shrinks
<1>11. Deep'
  <2>1. SUFFICES ASSUME NEW x \in Threads, NEW i \in DOMAIN stack'[x], i # Len(stack'[x])
                 PROVE  stack'[x][i].pc = IF stack'[x][i].kind = "task" THEN "run" ELSE "check"
    BY DEF Deep
  <2>2. i \in DOMAIN stack[x] /\ i # Len(stack[x])
    BY <1>1, <1>4, <2>1
  <2>3. ~(x = th /\ i = d)
    BY <2>2 DEF d, Depth
  <2>4. stack'[x][i] = stack[x][i]
    BY <1>7, <2>2, <2>3
  <2>5. QED
    BY <2>2, <2>4 DEF Deep
<1>12. (Top(th).kind = "task" => Top(th).pc # "notify" /\ l # "notify") => NoneCounted
  BY <1>2, <1>4, <1>5, <1>7 DEF NoneCounted
<1>13. QED
  BY <1>8, <1>9, <1>10, <1>11, <1>12 DEF f, d

\* The running frame moves on without a count, an announcement or a notification.
LEMMA GotoStep ==
  ASSUME IInv, NEW th \in Threads, stack[th] # <<>>, NEW l, Goto(th, l),
         [kind |-> Top(th).kind, id |-> Top(th).id, pc |-> l] \in Frames,
         ~At(th, "join", "announce"), ~At(th, "task", "notify"),
         Top(th).kind = "task" => l # "notify",
         l = "parked" => remaining[Top(th).id] # 0,
         program' = program, queue' = queue, asleep' = asleep, remaining' = remaining,
         cancel' \in [Calls -> BOOLEAN], parent' = parent, status' = status
  PROVE  IInv'
<1>1. TypeOK /\ OnePlace /\ Made /\ Deep /\ RemainingExact /\ NoLostWakeup
  BY DEF IInv
<1>2. Top(th).kind = "task" => Top(th).pc # "notify" /\ l # "notify"
  BY DEF At
<1>3. /\ Shrinks /\ Deep' /\ NoneCounted
      /\ \A x \in Threads \ {th} : stack'[x] = stack[x]
      /\ Top(th)' = [kind |-> Top(th).kind, id |-> Top(th).id, pc |-> l]
  BY <1>1, <1>2, GotoShape
<1>4. Keeps
  BY <1>1 DEF Keeps, Made
<1>5. OnePlace' /\ Made'
  BY <1>1, <1>3, <1>4, ShrinkKeeps
<1>6. RemainingExact'
  BY <1>1, <1>3, ShrinkPending, CountKept
<1>7. ~(At(th, "join", "parked")' /\ remaining'[Top(th)'.id] = 0)
  BY <1>3 DEF At
<1>8. NoLostWakeup'
  BY <1>1, <1>3, <1>7, WakeupKept
<1>9. TypeOK'
  BY <1>1, <1>3 DEF TypeOK, Shrinks, Frames
<1>10. QED
  BY <1>3, <1>5, <1>6, <1>8, <1>9 DEF IInv

\* What leaving the running frame does to the stacks.
LEMMA ReturnShape ==
  ASSUME TypeOK, Deep, NEW th \in Threads, stack[th] # <<>>, Return(th), queue' = queue
  PROVE  /\ Shrinks /\ Deep'
         /\ (Top(th).kind = "task" => Top(th).pc = "notify") => NoneCounted
         /\ \A x \in Threads \ {th} : stack'[x] = stack[x]
         /\ \A i \in DOMAIN stack[th] :
              i # Depth(th) => i \in DOMAIN stack'[th] /\ stack'[th][i] = stack[th][i]
         /\ \A i \in DOMAIN stack'[th] : i \in DOMAIN stack[th] /\ i # Depth(th)
         /\ ~At(th, "join", "parked")'
<1> DEFINE d == Depth(th)
<1>1. /\ stack' \in [Threads -> Seq(Frames)]
      /\ Len(stack'[th]) = d - 1
      /\ \A i \in 1..(d - 1) : stack'[th][i] = stack[th][i]
      /\ \A x \in Threads \ {th} : stack'[x] = stack[x]
  BY ReturnFacts
<1>2. d \in Nat /\ d \in DOMAIN stack[th] /\ stack[th][d] = Top(th) /\ Len(stack[th]) = d
  BY StackFacts DEF Top, Depth
<1>3. \A x \in Threads : DOMAIN stack[x] = 1..Len(stack[x]) /\ Len(stack[x]) \in Nat
  BY Domains
<1>4. DOMAIN stack'[th] = 1..(d - 1)
  BY <1>1, LenProperties
<1> HIDE DEF d
<1>5. \A i \in DOMAIN stack[th] : i # d => i \in DOMAIN stack'[th] /\ stack'[th][i] = stack[th][i]
  BY <1>1, <1>2, <1>3, <1>4
<1>6. \A i \in DOMAIN stack'[th] : i \in DOMAIN stack[th] /\ i # d /\ stack'[th][i] = stack[th][i]
  BY <1>1, <1>2, <1>3, <1>4
<1>7. Shrinks
  <2>1. Len(stack'[th]) <= Len(stack[th])
    BY <1>1, <1>2
  <2>2. \A i \in 1..Len(stack'[th]) : stack'[th][i] = stack[th][i]
    BY <1>1
  <2>3. QED
    BY <1>1, <1>3, <2>1, <2>2 DEF Shrinks
<1>8. ASSUME NEW i \in DOMAIN stack'[th]
      PROVE  stack'[th][i].pc = IF stack'[th][i].kind = "task" THEN "run" ELSE "check"
  BY <1>2, <1>6 DEF Deep
<1>9. Deep'
  BY <1>1, <1>8 DEF Deep
<1>10. ~At(th, "join", "parked")'
  <2>1. SUFFICES ASSUME stack'[th] # <<>> PROVE stack'[th][Len(stack'[th])].pc \in {"run", "check"}
    BY DEF At, Top, Depth
  <2>2. Len(stack'[th]) \in DOMAIN stack'[th]
    <3>1. stack'[th] \in Seq(Frames)
      BY <1>1
    <3>2. Len(stack'[th]) # 0
      BY <2>1, <3>1, EmptySeq
    <3>3. QED
      BY <1>1, <1>2, <1>4, <3>2
  <2>3. QED
    BY <1>8, <2>2
<1>11. (Top(th).kind = "task" => Top(th).pc = "notify") => NoneCounted
  BY <1>1, <1>2, <1>5, <1>6 DEF NoneCounted
<1>12. QED
  BY <1>1, <1>5, <1>6, <1>7, <1>9, <1>10, <1>11 DEF d

\* A finished call returns.
LEMMA JoinStep ==
  ASSUME IInv, NEW th \in Threads, stack[th] # <<>>, Top(th).kind = "join",
         Top(th).pc # "announce", remaining[Top(th).id] = 0, Join(th),
         UNCHANGED <<program, queue, asleep, remaining, cancel, parent>>
  PROVE  IInv'
<1>1. TypeOK /\ OnePlace /\ Made /\ Deep /\ RemainingExact /\ NoLostWakeup
  BY DEF IInv
<1>2. /\ Shrinks /\ Deep' /\ NoneCounted
      /\ \A x \in Threads \ {th} : stack'[x] = stack[x]
      /\ ~At(th, "join", "parked")'
  BY <1>1, ReturnShape DEF Join
<1>3. Top(th).id \in Calls /\ status[Top(th).id] # "unmade"
  <2>1. Top(th) \in Frames /\ Depth(th) \in DOMAIN stack[th] /\ stack[th][Depth(th)] = Top(th)
    BY <1>1, StackFacts DEF Top
  <2>2. QED
    BY <1>1, <2>1, FrameFacts DEF Made
<1>4. status'[Top(th).id] = "joined" /\ \A c \in Calls : c # Top(th).id => status'[c] = status[c]
  BY <1>1, <1>3 DEF Join, TypeOK
<1>5. Keeps
  BY <1>1, <1>4 DEF Keeps, Made
<1>6. OnePlace' /\ Made'
  BY <1>1, <1>2, <1>5, ShrinkKeeps
<1>7. RemainingExact'
  <2>1. \A c \in Calls : status'[c] # "unmade" => status[c] # "unmade"
    BY <1>3, <1>4
  <2>2. QED
    BY <1>1, <1>2, <2>1, ShrinkPending, CountKept
<1>8. NoLostWakeup'
  <2>1. ~At(th, "join", "announce") /\ ~At(th, "task", "notify")
    BY DEF At
  <2>2. QED
    BY <1>1, <1>2, <2>1, WakeupKept
<1>9. TypeOK'
  BY <1>1, <1>2 DEF TypeOK, Shrinks, Frames, Join
<1>10. QED
  BY <1>2, <1>6, <1>7, <1>8, <1>9 DEF IInv

\* The frame th runs, when it is at k and pc.
LEMMA AtFacts ==
  ASSUME TypeOK, NEW th \in Threads, NEW k, NEW pc, At(th, k, pc)
  PROVE  /\ stack[th] # <<>> /\ Top(th) \in Frames /\ Top(th).kind = k /\ Top(th).pc = pc
         /\ k = "join" => /\ Top(th).id \in Calls
                          /\ \A l \in {"announce", "check", "cascade", "help", "block", "parked"} :
                               [kind |-> Top(th).kind, id |-> Top(th).id, pc |-> l] \in Frames
         /\ k = "task" => /\ Top(th).id \in Tasks
                          /\ \A l \in {"load", "run", "leave", "notify"} :
                               [kind |-> Top(th).kind, id |-> Top(th).id, pc |-> l] \in Frames
<1>1. stack[th] # <<>> /\ Top(th) \in Frames /\ Top(th).kind = k /\ Top(th).pc = pc
  BY StackFacts DEF At
<1>2. QED
  BY <1>1, FrameFacts DEF Frames, TaskFrames, JoinFrames

\* Making a call.
LEMMA ForkStep ==
  ASSUME IInv, NEW th \in Threads, NEW c \in Calls, NEW cascading \in BOOLEAN,
         Fork(th, c, cascading)
  PROVE  IInv'
<1>1. TypeOK /\ OnePlace /\ Made /\ Deep /\ RemainingExact /\ NoLostWakeup
  BY DEF IInv
<1>2. Forks(th, c) /\ asleep' = asleep /\ cancel' = cancel /\ program' = program
  BY DEF Fork, Forks
<1> DEFINE f == JoinFrame(c, "announce")
           d == Depth(th)
<1>3. f \in Frames /\ f.kind = "join" /\ f.pc = "announce"
  BY DEF JoinFrame, Frames, JoinFrames
<1>4. /\ stack' \in [Threads -> Seq(Frames)]
      /\ Len(stack'[th]) = d + 1
      /\ \A i \in 1..d : stack'[th][i] = stack[th][i]
      /\ stack'[th][d + 1] = f
      /\ \A x \in Threads \ {th} : stack'[x] = stack[x]
  BY <1>1, <1>2, <1>3, PushFacts DEF Forks
<1>5. OnePlace' /\ Made'
  BY <1>1, <1>2, ForkKeeps
<1>6. RemainingExact'
  BY <1>1, <1>2, ForkCount
<1>7. d \in Nat /\ DOMAIN stack[th] = 1..d /\ (stack[th] = <<>> => d = 0) /\ Len(stack[th]) = d
  BY <1>1, StackFacts DEF Depth
<1>8. DOMAIN stack'[th] = 1..(d + 1)
  BY <1>4, LenProperties
<1>9. \A i \in 1..d : stack[th][i].pc = IF stack[th][i].kind = "task" THEN "run" ELSE "check"
  <2>1. stack[th] # <<>> => Top(th).kind = "task" /\ Top(th).pc = "run"
    BY DEF Fork, InUserCode, At
  <2>2. \A i \in 1..d : i # d => stack[th][i].pc = IF stack[th][i].kind = "task" THEN "run" ELSE "check"
    BY <1>1, <1>7 DEF Deep
  <2>3. \A i \in 1..d : stack[th] # <<>>
    BY <1>7
  <2>4. QED
    BY <2>1, <2>2, <2>3 DEF Top
<1>10. Deep'
  <2>1. \A i \in DOMAIN stack'[th] : i # Len(stack'[th]) =>
          stack'[th][i].pc = IF stack'[th][i].kind = "task" THEN "run" ELSE "check"
    <3>1. \A i \in DOMAIN stack'[th] : i # Len(stack'[th]) => i \in 1..d
      BY <1>4, <1>7, <1>8
    <3>2. QED
      BY <1>4, <1>9, <3>1
  <2>2. \A x \in Threads : x # th => stack'[x] = stack[x]
    BY <1>4
  <2>3. \A x \in Threads : x # th => \A i \in DOMAIN stack'[x] : i # Len(stack'[x]) =>
          stack'[x][i].pc = IF stack'[x][i].kind = "task" THEN "run" ELSE "check"
    BY <1>1, <2>2 DEF Deep
  <2>4. QED
    BY <2>1, <2>3 DEF Deep
<1>11. At(th, "join", "announce")'
  <2>1. stack'[th] # <<>>
    BY <1>4, <1>7
  <2>2. QED
    BY <1>3, <1>4, <2>1 DEF At, Top, Depth
<1> HIDE DEF f, d
<1>12. ASSUME NEW y \in Threads, At(y, "join", "parked")', remaining'[Top(y)'.id] = 0
       PROVE  \E x \in Threads : At(x, "task", "notify")' /\ CallOf(Top(x)'.id) = Top(y)'.id
  <2>1. y # th
    BY <1>11, <1>12 DEF At
  <2>2. Top(y)' = Top(y) /\ At(y, "join", "parked")
    BY <1>4, <1>12, <2>1 DEF At, Top, Depth
  <2>3. Top(y).id \in Calls /\ status[Top(y).id] # "unmade"
    <3>1. Top(y) \in Frames /\ Depth(y) \in DOMAIN stack[y] /\ stack[y][Depth(y)] = Top(y)
      BY <1>1, <2>2, StackFacts DEF Top, At
    <3>2. QED
      BY <1>1, <2>2, <3>1, FrameFacts DEF Made, At
  <2>4. remaining'[Top(y).id] = remaining[Top(y).id]
    BY <1>1, <1>2, <2>3 DEF Forks, TypeOK
  <2>5. PICK x \in Threads : At(x, "task", "notify") /\ CallOf(Top(x).id) = Top(y).id
    BY <1>1, <1>12, <2>2, <2>4 DEF NoLostWakeup
  <2>6. x # th
    BY <2>5 DEF Fork, InUserCode, At
  <2>7. At(x, "task", "notify")' /\ Top(x)' = Top(x)
    BY <1>4, <2>5, <2>6 DEF At, Top, Depth
  <2>8. QED
    BY <2>2, <2>5, <2>7
<1>13. NoLostWakeup'
  BY <1>11, <1>12 DEF NoLostWakeup, CallOf, Branches
<1>14. TypeOK'
  <2>1. queue' \in Seq(Tasks)
    BY <1>1, <1>2, ConcatFacts DEF Forks
  <2>2. remaining' \in [Calls -> Nat] /\ status' \in [Calls -> {"unmade", "open", "joined"}]
    BY <1>1, <1>2, BranchesCounted DEF Forks, TypeOK
  <2>3. parent' \in [Calls -> Calls \union {NoCall}]
    <3>1. stack[th] # <<>> => CallOf(Top(th).id) \in Calls
      <4>1. ASSUME stack[th] # <<>> PROVE \E e \in Calls : Top(th).id \in Branches(e)
        <5>1. Depth(th) \in DOMAIN stack[th] /\ stack[th][Depth(th)] = Top(th) /\ Top(th).kind = "task"
          BY <1>1, <4>1, StackFacts DEF Top, Fork, InUserCode, At
        <5>2. QED
          BY <1>1, <5>1 DEF Made
      <4>2. QED
        BY <4>1 DEF CallOf
    <3>2. parent' = [parent EXCEPT ![c] = IF cascading /\ stack[th] # <<>>
                                          THEN CallOf(Top(th).id) ELSE NoCall]
      BY DEF Fork
    <3>3. QED
      BY <1>1, <3>1, <3>2 DEF TypeOK
  <2>4. QED
    BY <1>1, <1>2, <1>4, <2>1, <2>2, <2>3 DEF TypeOK, Frames
<1>15. QED
  BY <1>5, <1>6, <1>10, <1>13, <1>14 DEF IInv

\* notify_all to the pool.
LEMMA AnnounceStep ==
  ASSUME IInv, NEW th \in Threads, Announce(th)
  PROVE  IInv'
<1>1. TypeOK /\ OnePlace /\ Made /\ Deep /\ RemainingExact /\ NoLostWakeup
  BY DEF IInv
<1>2. /\ stack[th] # <<>> /\ Top(th).kind = "join" /\ Top(th).pc = "announce"
      /\ [kind |-> Top(th).kind, id |-> Top(th).id, pc |-> "check"] \in Frames
  BY <1>1, AtFacts DEF Announce
<1>3. /\ Shrinks /\ Deep' /\ NoneCounted
      /\ \A x \in Threads \ {th} : stack'[x] = stack[x]
      /\ Top(th)' = [kind |-> Top(th).kind, id |-> Top(th).id, pc |-> "check"]
  BY <1>1, <1>2, GotoShape DEF Announce
<1>4. Keeps
  BY <1>1 DEF Keeps, Made, Announce
<1>5. OnePlace' /\ Made'
  BY <1>1, <1>3, <1>4, ShrinkKeeps
<1>6. RemainingExact'
  BY <1>1, <1>3, ShrinkPending, CountKept DEF Announce
<1>7. ASSUME NEW y \in Threads, At(y, "join", "parked")', remaining'[Top(y)'.id] = 0
      PROVE  \E x \in Threads : At(x, "task", "notify")' /\ CallOf(Top(x)'.id) = Top(y)'.id
  <2>1. y # th
    BY <1>3, <1>7 DEF At
  <2>2. Top(y)' = Top(y) /\ At(y, "join", "parked") /\ remaining[Top(y).id] = 0
    BY <1>3, <1>7, <2>1 DEF At, Top, Depth, Announce
  <2>3. PICK x \in Threads : At(x, "task", "notify") /\ CallOf(Top(x).id) = Top(y).id
    BY <1>1, <2>2 DEF NoLostWakeup
  <2>4. x # th
    BY <1>2, <2>3 DEF At
  <2>5. At(x, "task", "notify")' /\ Top(x)' = Top(x)
    BY <1>3, <2>3, <2>4 DEF At, Top, Depth
  <2>6. QED
    BY <2>2, <2>3, <2>5
<1>8. \A w \in Workers : ~asleep'[w]
  BY DEF Announce
<1>9. NoLostWakeup'
  BY <1>7, <1>8 DEF NoLostWakeup, CallOf, Branches
<1>10. TypeOK'
  BY <1>1, <1>3 DEF TypeOK, Shrinks, Frames, Announce
<1>11. QED
  BY <1>3, <1>5, <1>6, <1>9, <1>10 DEF IInv

\* The steps of a joiner that keep it at its call.
LEMMA CheckStep ==
  ASSUME IInv, NEW th \in Threads, Check(th) \/ Block(th)
  PROVE  IInv'
<1>1. TypeOK
  BY DEF IInv
<1>2. /\ stack[th] # <<>> /\ Top(th).kind = "join" /\ Top(th).pc \in {"check", "block"}
      /\ [kind |-> Top(th).kind, id |-> Top(th).id, pc |-> "cascade"] \in Frames
      /\ [kind |-> Top(th).kind, id |-> Top(th).id, pc |-> "parked"] \in Frames
  BY <1>1, AtFacts DEF Check, Block
<1>3. ~At(th, "join", "announce") /\ ~At(th, "task", "notify")
  BY <1>2 DEF At
<1>4. UNCHANGED <<program, queue, asleep, remaining, cancel, parent>>
  BY DEF Check, Block
<1>5. CASE remaining[Top(th).id] = 0
  <2>1. Join(th)
    BY <1>5 DEF Check, Block
  <2>2. QED
    BY <1>2, <1>4, <1>5, <2>1, JoinStep
<1>6. CASE remaining[Top(th).id] # 0 /\ Goto(th, "cascade")
  <2>1. status' = status
    BY <1>6 DEF Check, Block
  <2>2. cancel' \in [Calls -> BOOLEAN]
    BY <1>1, <1>4 DEF TypeOK
  <2>3. QED
    BY <1>2, <1>3, <1>4, <1>6, <2>1, <2>2, GotoStep
<1>7. CASE remaining[Top(th).id] # 0 /\ Goto(th, "parked")
  <2>1. status' = status
    BY <1>7 DEF Check, Block
  <2>2. cancel' \in [Calls -> BOOLEAN]
    BY <1>1, <1>4 DEF TypeOK
  <2>3. QED
    BY <1>2, <1>3, <1>4, <1>7, <2>1, <2>2, GotoStep
<1>8. QED
  BY <1>5, <1>6, <1>7 DEF Check, Block

LEMMA CascadeStep ==
  ASSUME IInv, NEW th \in Threads, Cascade(th) \/ Wake(th)
  PROVE  IInv'
<1>1. TypeOK
  BY DEF IInv
<1>2. /\ stack[th] # <<>> /\ Top(th).kind = "join" /\ Top(th).pc \in {"cascade", "parked"}
      /\ Top(th).id \in Calls
      /\ [kind |-> Top(th).kind, id |-> Top(th).id, pc |-> "help"] \in Frames
      /\ [kind |-> Top(th).kind, id |-> Top(th).id, pc |-> "check"] \in Frames
  BY <1>1, AtFacts DEF Cascade, Wake
<1>3. ~At(th, "join", "announce") /\ ~At(th, "task", "notify")
  BY <1>2 DEF At
<1>4. UNCHANGED <<program, queue, asleep, remaining, parent, status>>
  BY DEF Cascade, Wake
<1>5. cancel' \in [Calls -> BOOLEAN]
  BY <1>1, <1>2 DEF TypeOK, Cascade, Wake
<1>6. CASE Goto(th, "help")
  BY <1>2, <1>3, <1>4, <1>5, <1>6, GotoStep
<1>7. CASE Goto(th, "check")
  BY <1>2, <1>3, <1>4, <1>5, <1>7, GotoStep
<1>8. QED
  BY <1>6, <1>7 DEF Cascade, Wake

\* The steps of a branch before it counts down.
LEMMA BranchStep ==
  ASSUME IInv, NEW th \in Threads, Load(th) \/ Finish(th) \/ Fail(th)
  PROVE  IInv'
<1>1. TypeOK
  BY DEF IInv
<1>2. /\ stack[th] # <<>> /\ Top(th).kind = "task" /\ Top(th).pc \in {"load", "run"}
      /\ [kind |-> Top(th).kind, id |-> Top(th).id, pc |-> "run"] \in Frames
      /\ [kind |-> Top(th).kind, id |-> Top(th).id, pc |-> "leave"] \in Frames
  BY <1>1, AtFacts DEF Load, Finish, Fail
<1>3. ~At(th, "join", "announce") /\ ~At(th, "task", "notify")
  BY <1>2 DEF At
<1>4. UNCHANGED <<program, queue, asleep, remaining, parent, status>>
  BY DEF Load, Finish, Fail
<1>5. cancel' \in [Calls -> BOOLEAN]
  BY <1>1 DEF TypeOK, Load, Finish, Fail
<1>6. CASE Goto(th, "run")
  BY <1>2, <1>3, <1>4, <1>5, <1>6, GotoStep
<1>7. CASE Goto(th, "leave")
  BY <1>2, <1>3, <1>4, <1>5, <1>7, GotoStep
<1>8. QED
  BY <1>6, <1>7 DEF Load, Finish, Fail

\* A task goes from the queue to the top of a stack whose other frames wait.
LEMMA TakeStep ==
  ASSUME IInv, NEW th \in Threads, Takes(th),
         ~At(th, "join", "announce"), ~At(th, "task", "notify"),
         \A i \in DOMAIN stack[th] : stack[th][i].kind = "task" => stack'[th][i] = stack[th][i],
         \A i \in DOMAIN stack[th] :
           stack'[th][i].pc = IF stack'[th][i].kind = "task" THEN "run" ELSE "check",
         UNCHANGED <<program, asleep, remaining, cancel, parent, status>>
  PROVE  IInv'
<1>1. TypeOK /\ OnePlace /\ Made /\ Deep /\ RemainingExact /\ NoLostWakeup
  BY DEF IInv
<1>2. Keeps
  BY <1>1 DEF Keeps, Made
<1>3. OnePlace' /\ Made'
  BY <1>1, <1>2, TakeKeeps
<1>4. RemainingExact'
  <2>1. \A t : Pending(t)' <=> Pending(t)
    BY <1>1, TakePending
  <2>2. QED
    BY <1>1, <2>1, CountKept
<1>5. /\ \A x \in Threads \ {th} : stack'[x] = stack[x]
      /\ stack' \in [Threads -> Seq(Frames)] /\ queue # <<>>
      /\ Len(stack'[th]) = Len(stack[th]) + 1
      /\ stack'[th][Len(stack[th]) + 1] = TaskFrame(Head(queue), "load")
  BY DEF Takes
<1>6. Deep'
  <2>1. Len(stack[th]) \in Nat /\ DOMAIN stack[th] = 1..Len(stack[th])
    BY <1>1, Domains
  <2>2. DOMAIN stack'[th] = 1..(Len(stack[th]) + 1)
    BY <1>5, LenProperties
  <2>3. \A i \in DOMAIN stack'[th] : i # Len(stack'[th]) => i \in DOMAIN stack[th]
    BY <1>5, <2>1, <2>2
  <2>4. \A x \in Threads : x # th => stack'[x] = stack[x]
    BY <1>5
  <2>5. \A x \in Threads : x # th => \A i \in DOMAIN stack'[x] : i # Len(stack'[x]) =>
          stack'[x][i].pc = IF stack'[x][i].kind = "task" THEN "run" ELSE "check"
    BY <1>1, <2>4 DEF Deep
  <2>6. QED
    BY <2>3, <2>5 DEF Deep
<1>7. NoLostWakeup'
  <2>1. ~At(th, "join", "parked")'
    BY <1>5 DEF At, Top, Depth, TaskFrame
  <2>2. QED
    BY <1>1, <1>5, <2>1, WakeupKept
<1>8. TypeOK'
  <2>1. queue' \in Seq(Tasks)
    BY <1>1, TailFacts DEF Takes
  <2>2. QED
    BY <1>1, <1>5, <2>1 DEF TypeOK, Frames
<1>9. QED
  BY <1>3, <1>4, <1>6, <1>7, <1>8 DEF IInv

\* A joiner looks for a task to help with.
LEMMA HelpStep ==
  ASSUME IInv, NEW th \in Threads, Help(th)
  PROVE  IInv'
<1>1. TypeOK /\ Deep
  BY DEF IInv
<1>2. /\ stack[th] # <<>> /\ Top(th).kind = "join" /\ Top(th).pc = "help" /\ Top(th).id \in Calls
      /\ [kind |-> Top(th).kind, id |-> Top(th).id, pc |-> "block"] \in Frames
  BY <1>1, AtFacts DEF Help
<1>3. ~At(th, "join", "announce") /\ ~At(th, "task", "notify")
  BY <1>2 DEF At
<1>4. UNCHANGED <<program, asleep, remaining, cancel, parent, status>>
  BY DEF Help
<1>5. CASE queue = <<>>
  <2>1. Goto(th, "block") /\ queue' = queue
    BY <1>5 DEF Help
  <2>2. cancel' \in [Calls -> BOOLEAN]
    BY <1>1, <1>4 DEF TypeOK
  <2>3. QED
    BY <1>2, <1>3, <1>4, <2>1, <2>2, GotoStep
<1>6. CASE queue # <<>>
  <2> DEFINE d == Depth(th)
  <2>1. /\ queue' = Tail(queue)
        /\ stack' = [stack EXCEPT ![th] = Append(Below(th), JoinFrame(Top(th).id, "check"))
                                            \o <<TaskFrame(Head(queue), "load")>>]
    BY <1>6 DEF Help
  <2>2. Head(queue) \in Tasks
    BY <1>1, <1>6, <2>1, TailFacts
  <2>3. At(th, "join", "help")
    BY DEF Help
  <2>4. /\ stack' \in [Threads -> Seq(Frames)]
        /\ Len(stack'[th]) = d + 1
        /\ \A i \in 1..(d - 1) : stack'[th][i] = stack[th][i]
        /\ stack'[th][d] = JoinFrame(Top(th).id, "check")
        /\ stack'[th][d + 1] = TaskFrame(Head(queue), "load")
        /\ \A x \in Threads \ {th} : stack'[x] = stack[x]
    BY <1>1, <2>1, <2>2, <2>3, HelpFacts
  <2>5. d \in Nat /\ DOMAIN stack[th] = 1..d /\ Len(stack[th]) = d /\ stack[th][d] = Top(th)
    BY <1>1, StackFacts DEF Depth, Top
  <2>6. /\ stack'[th][d].kind = "join" /\ stack'[th][d].id = Top(th).id
        /\ stack'[th][d].pc = "check"
    BY <2>4 DEF JoinFrame
  <2> HIDE DEF d
  <2>7. \A i \in DOMAIN stack[th] : i # d => stack'[th][i] = stack[th][i]
    BY <2>4, <2>5
  <2>8. \A i \in DOMAIN stack[th] : stack[th][i].kind = "task" => stack'[th][i] = stack[th][i]
    BY <1>2, <2>5, <2>7
  <2>9. \A i \in DOMAIN stack[th] :
          stack'[th][i].pc = IF stack'[th][i].kind = "task" THEN "run" ELSE "check"
    BY <1>1, <2>5, <2>6, <2>7 DEF Deep
  <2>10. Takes(th)
    <3>1. \A i \in 1..Len(stack[th]) :
            stack'[th][i].kind = stack[th][i].kind /\ stack'[th][i].id = stack[th][i].id
      BY <1>2, <2>5, <2>6, <2>7
    <3>2. QED
      BY <1>6, <2>1, <2>4, <2>5, <3>1 DEF Takes
  <2>11. QED
    BY <1>3, <1>4, <2>8, <2>9, <2>10, TakeStep
<1>7. QED
  BY <1>5, <1>6

\* A worker takes a task.
LEMMA PopStep ==
  ASSUME IInv, NEW w \in Workers, WorkerPop(w)
  PROVE  IInv'
<1>1. TypeOK
  BY DEF IInv
<1>2. w \in Threads /\ stack[w] = <<>> /\ queue # <<>> /\ queue' = Tail(queue)
  BY DEF WorkerPop, Threads
<1>3. Head(queue) \in Tasks
  BY <1>1, <1>2, TailFacts
<1> DEFINE f == TaskFrame(Head(queue), "load")
<1>4. f \in Frames
  BY <1>3 DEF TaskFrame, Frames, TaskFrames
<1>5. stack' = [stack EXCEPT ![w] = <<f>>]
  BY DEF WorkerPop
<1> HIDE DEF f
<1>6. stack \in [Threads -> Seq(Frames)]
  BY <1>1 DEF TypeOK, Frames
<1>7. <<f>> \in Seq(Frames) /\ Len(<<f>>) = 1 /\ <<f>>[1] = f
  BY <1>4
<1>8. stack'[w] = <<f>> /\ \A x \in Threads \ {w} : stack'[x] = stack[x]
  BY <1>2, <1>5, <1>6
<1>9. stack' \in [Threads -> Seq(Frames)]
  BY <1>5, <1>6, <1>7
<1>10. Len(stack[w]) = 0 /\ DOMAIN stack[w] = 1..0
  <2>1. Len(stack[w]) = 0
    BY <1>2
  <2>2. QED
    BY <1>1, <1>2, <2>1, Domains
<1>11. Takes(w)
  <2>1. Len(stack'[w]) = Len(stack[w]) + 1 /\ stack'[w][Len(stack[w]) + 1] = f
    BY <1>7, <1>8, <1>10
  <2>2. \A i \in 1..Len(stack[w]) : FALSE
    BY <1>10
  <2>3. QED
    BY <1>2, <1>8, <1>9, <2>1, <2>2 DEF Takes, f
<1>12. \A i \in DOMAIN stack[w] : FALSE
  BY <1>10
<1>13. ~At(w, "join", "announce") /\ ~At(w, "task", "notify")
  BY <1>2 DEF At
<1>14. UNCHANGED <<program, asleep, remaining, cancel, parent, status>>
  BY DEF WorkerPop
<1>15. QED
  BY <1>2, <1>11, <1>12, <1>13, <1>14, TakeStep

\* A worker goes to sleep on an empty queue, or wakes up.
LEMMA IdleStep ==
  ASSUME IInv, NEW w \in Workers, WorkerSleep(w) \/ WorkerStir(w)
  PROVE  IInv'
<1>1. TypeOK /\ OnePlace /\ Made /\ Deep /\ RemainingExact /\ NoLostWakeup
  BY DEF IInv
<1>2. UNCHANGED <<program, queue, stack, remaining, cancel, parent, status>>
  BY DEF WorkerSleep, WorkerStir
<1>3. TypeOK'
  BY <1>1, <1>2 DEF TypeOK, WorkerSleep, WorkerStir
<1>4. OnePlace'
  BY <1>1, <1>2 DEF OnePlace, IsTask
<1>5. Made' /\ Deep'
  BY <1>1, <1>2 DEF Made, Deep, Branches
<1>6. RemainingExact'
  BY <1>1, <1>2 DEF RemainingExact, Branches, Queued, Executing, OnStack, TaskFrame
<1>7. queue # <<>> => \A v \in Workers : asleep'[v] => asleep[v]
  BY <1>1 DEF WorkerSleep, WorkerStir, TypeOK
<1>8. \A x \in Threads : \A k, pc : At(x, k, pc)' <=> At(x, k, pc)
  BY <1>2 DEF At, Top, Depth
<1>9. \A x \in Threads : Top(x)' = Top(x)
  BY <1>2 DEF Top, Depth
<1>10. NoLostWakeup'
  BY <1>1, <1>2, <1>7, <1>8, <1>9 DEF NoLostWakeup, CallOf, Branches
<1>11. QED
  BY <1>3, <1>4, <1>5, <1>6, <1>10 DEF IInv

\* A branch is counted down.
LEMMA LeaveStep ==
  ASSUME IInv, NEW th \in Threads, Leave(th)
  PROVE  IInv'
<1> DEFINE t == Top(th).id
           c == CallOf(t)
<1>1. TypeOK /\ OnePlace /\ Made /\ Deep /\ RemainingExact /\ NoLostWakeup
  BY DEF IInv
<1>2. /\ At(th, "task", "leave") /\ stack[th] # <<>> /\ Top(th).kind = "task" /\ Top(th).pc = "leave"
      /\ [kind |-> Top(th).kind, id |-> t, pc |-> "notify"] \in Frames
      /\ [kind |-> Top(th).kind, id |-> t, pc |-> "notify"] = TaskFrame(t, "notify")
  BY <1>1, AtFacts DEF Leave, TaskFrame
<1>3. /\ UNCHANGED <<program, queue, asleep, cancel, parent, status>>
      /\ remaining' = [remaining EXCEPT ![c] = @ - 1]
  BY DEF Leave
<1>4. /\ Counts(th) /\ Shrinks /\ Deep'
      /\ \A x \in Threads \ {th} : stack'[x] = stack[x]
      /\ ~At(th, "join", "parked")'
      /\ remaining[c] = 1 => stack'[th] # <<>> /\ Top(th)' = TaskFrame(t, "notify")
  <2>1. CASE remaining[c] = 1
    <3>1. Goto(th, "notify")
      BY <2>1 DEF Leave
    <3>2. /\ Shrinks /\ Deep'
          /\ \A x \in Threads \ {th} : stack'[x] = stack[x]
          /\ stack'[th] # <<>> /\ Len(stack'[th]) = Depth(th)
          /\ Top(th)' = TaskFrame(t, "notify")
      BY <1>1, <1>2, <1>3, <3>1, GotoShape
    <3>3. \A i \in 1..Len(stack[th]) :
            stack'[th][i] = IF i = Depth(th) THEN TaskFrame(t, "notify") ELSE stack[th][i]
      BY <1>1, <1>2, <3>1, GotoFacts
    <3>4. DOMAIN stack'[th] = 1..Len(stack'[th]) /\ DOMAIN stack[th] = 1..Len(stack[th])
          /\ Len(stack'[th]) = Len(stack[th])
      BY <1>1, <3>2, ShrunkDomains, Domains DEF Depth
    <3>5. Counts(th)
      <4>1. stack' \in [Threads -> Seq(Frames)]
        BY <3>2 DEF Shrinks
      <4>2. /\ \A i \in DOMAIN stack[th] :
                 i # Depth(th) => i \in DOMAIN stack'[th] /\ stack'[th][i] = stack[th][i]
            /\ \A i \in DOMAIN stack'[th] :
                 i \in DOMAIN stack[th] /\ (i = Depth(th) => stack'[th][i] = TaskFrame(t, "notify"))
        BY <3>3, <3>4
      <4>3. QED
        BY <1>2, <1>3, <3>2, <4>1, <4>2 DEF Counts
    <3>6. ~At(th, "join", "parked")'
      BY <3>2 DEF At, TaskFrame
    <3>7. QED
      BY <3>2, <3>5, <3>6
  <2>2. CASE remaining[c] # 1
    <3>1. Return(th)
      BY <2>2 DEF Leave
    <3>2. /\ Shrinks /\ Deep'
          /\ \A x \in Threads \ {th} : stack'[x] = stack[x]
          /\ \A i \in DOMAIN stack[th] :
               i # Depth(th) => i \in DOMAIN stack'[th] /\ stack'[th][i] = stack[th][i]
          /\ \A i \in DOMAIN stack'[th] : i \in DOMAIN stack[th] /\ i # Depth(th)
          /\ ~At(th, "join", "parked")'
      BY <1>1, <1>2, <1>3, <3>1, ReturnShape
    <3>3. Counts(th)
      BY <1>2, <1>3, <3>2 DEF Counts, Shrinks
    <3>4. QED
      BY <2>2, <3>2, <3>3
  <2>3. QED
    BY <2>1, <2>2
<1>5. RemainingExact' /\ c \in Calls /\ remaining[c] \in Nat \ {0} /\ status[c] # "unmade"
  BY <1>1, <1>4, LeaveCount
<1>6. remaining'[c] = remaining[c] - 1 /\ \A d \in Calls : d # c => remaining'[d] = remaining[d]
  BY <1>1, <1>3, <1>5 DEF TypeOK
<1>7. Keeps
  BY <1>1, <1>3, <1>5, <1>6 DEF Keeps, Made
<1>8. OnePlace' /\ Made'
  BY <1>1, <1>4, <1>7, ShrinkKeeps
<1> HIDE DEF c, t
<1>9. ASSUME NEW y \in Threads, At(y, "join", "parked")', remaining'[Top(y)'.id] = 0
      PROVE  \E x \in Threads : At(x, "task", "notify")' /\ CallOf(Top(x)'.id) = Top(y)'.id
  <2>1. y # th
    BY <1>4, <1>9
  <2>2. Top(y)' = Top(y) /\ At(y, "join", "parked")
    BY <1>4, <1>9, <2>1 DEF At, Top, Depth
  <2>3. Top(y).id \in Calls
    BY <1>1, <2>2, AtFacts
  <2>4. CASE Top(y).id = c
    <3>1. remaining[c] = 1
      BY <1>5, <1>6, <1>9, <2>2, <2>4
    <3>2. stack'[th] # <<>> /\ Top(th)' = TaskFrame(t, "notify")
      BY <1>4, <3>1
    <3>3. At(th, "task", "notify")' /\ CallOf(Top(th)'.id) = c
      BY <3>2 DEF At, TaskFrame, c
    <3>4. QED
      BY <2>2, <2>4, <3>3
  <2>5. CASE Top(y).id # c
    <3>1. remaining[Top(y).id] = 0
      BY <1>6, <1>9, <2>2, <2>3, <2>5
    <3>2. PICK x \in Threads : At(x, "task", "notify") /\ CallOf(Top(x).id) = Top(y).id
      BY <1>1, <2>2, <3>1 DEF NoLostWakeup
    <3>3. x # th
      BY <1>2, <3>2 DEF At
    <3>4. At(x, "task", "notify")' /\ Top(x)' = Top(x)
      BY <1>4, <3>2, <3>3 DEF At, Top, Depth
    <3>5. QED
      BY <2>2, <3>2, <3>4
  <2>6. QED
    BY <2>4, <2>5
<1>10. ASSUME queue' # <<>>, NEW w \in Workers, asleep'[w]
       PROVE  \E x \in Threads : At(x, "join", "announce")'
  <2>1. PICK x \in Threads : At(x, "join", "announce")
    BY <1>1, <1>3, <1>10 DEF NoLostWakeup
  <2>2. x # th
    BY <1>2, <2>1 DEF At
  <2>3. QED
    BY <1>4, <2>1, <2>2 DEF At, Top, Depth
<1>11. NoLostWakeup'
  BY <1>9, <1>10 DEF NoLostWakeup, CallOf, Branches
<1>12. TypeOK'
  <2>1. remaining' \in [Calls -> Nat]
    BY <1>1, <1>3, <1>5 DEF TypeOK
  <2>2. QED
    BY <1>1, <1>3, <1>4, <2>1 DEF TypeOK, Shrinks, Frames
<1>13. QED
  BY <1>4, <1>5, <1>8, <1>11, <1>12 DEF IInv

\* The last branch of a call notifies, and its frame is left.
LEMMA NotifyStep ==
  ASSUME IInv, NEW th \in Threads, Notify(th)
  PROVE  IInv'
<1> DEFINE c == CallOf(Top(th).id)
           Woken(x) == x # th /\ At(x, "join", "parked") /\ Top(x).id = c
<1>1. TypeOK /\ OnePlace /\ Made /\ Deep /\ RemainingExact /\ NoLostWakeup
  BY DEF IInv
<1>2. stack[th] # <<>> /\ Top(th).kind = "task" /\ Top(th).pc = "notify"
  BY <1>1, AtFacts DEF Notify
<1>3. UNCHANGED <<program, queue, asleep, remaining, cancel, parent, status>>
  BY DEF Notify
<1>4. /\ stack'[th] = Below(th)
      /\ \A x \in Threads : Woken(x) => stack'[x] = Append(Below(x), JoinFrame(c, "check"))
      /\ \A x \in Threads : x # th /\ ~Woken(x) => stack'[x] = stack[x]
      /\ DOMAIN stack' = Threads
      /\ stack' = [x \in Threads |-> stack'[x]]
  BY DEF Notify
<1>5. ASSUME NEW x \in Threads, Woken(x)
      PROVE  /\ stack'[x] \in Seq(Frames) /\ Len(stack'[x]) = Len(stack[x]) /\ Len(stack[x]) \in Nat \ {0}
             /\ \A i \in 1..Len(stack[x]) :
                  stack'[x][i] = IF i = Len(stack[x]) THEN JoinFrame(c, "check") ELSE stack[x][i]
             /\ stack[x][Len(stack[x])] = Top(x) /\ Top(x).kind = "join" /\ Top(x).id = c
  <2>1. stack[x] # <<>> /\ Top(x) \in Frames /\ Top(x).kind = "join" /\ Top(x).id \in Calls
    BY <1>1, <1>5, AtFacts
  <2>2. Depth(x) \in Nat \ {0} /\ Depth(x) = Len(stack[x])
    BY <1>1, <2>1, StackFacts DEF Depth
  <2>3. /\ Below(x) \in Seq(Frames) /\ Len(Below(x)) = Depth(x) - 1
        /\ \A i \in 1..(Depth(x) - 1) : Below(x)[i] = stack[x][i]
    BY <1>1, <2>1, BelowFacts
  <2>4. JoinFrame(c, "check") \in Frames
    BY <1>5, <2>1 DEF JoinFrame, Frames, JoinFrames
  <2>5. stack'[x] = Append(Below(x), JoinFrame(c, "check"))
    BY <1>4, <1>5
  <2> DEFINE b == Below(x)
             f == JoinFrame(c, "check")
             d == Depth(x)
  <2> HIDE DEF b, f, d
  <2>6. /\ Append(b, f) \in Seq(Frames) /\ Len(Append(b, f)) = Len(b) + 1
        /\ \A i \in 1..Len(b) : Append(b, f)[i] = b[i]
        /\ Append(b, f)[Len(b) + 1] = f
    BY <2>3, <2>4, AppendProperties DEF b, f
  <2>7. d \in Nat \ {0} /\ Len(b) = d - 1 /\ (d - 1) + 1 = d
    BY <2>2, <2>3 DEF b, d
  <2>8. \A i \in 1..d : Append(b, f)[i] = IF i = d THEN f ELSE stack[x][i]
    <3>1. \A i \in 1..d : i # d => i \in 1..(d - 1)
      BY <2>7
    <3>2. QED
      BY <2>3, <2>6, <2>7, <3>1 DEF b, d
  <2>9. QED
    BY <1>5, <2>1, <2>2, <2>5, <2>6, <2>7, <2>8 DEF b, d, f, Top
<1>6. /\ Below(th) \in Seq(Frames) /\ Len(Below(th)) = Depth(th) - 1
      /\ \A i \in 1..(Depth(th) - 1) : Below(th)[i] = stack[th][i]
  BY <1>1, <1>2, BelowFacts
<1>7. Depth(th) \in Nat \ {0} /\ Len(stack[th]) = Depth(th) /\ stack[th][Depth(th)] = Top(th)
  BY <1>1, <1>2, StackFacts DEF Depth, Top
<1>8. stack \in [Threads -> Seq(Frames)]
  BY <1>1 DEF TypeOK, Frames
<1> HIDE DEF c
<1>9. stack' \in [Threads -> Seq(Frames)]
  <2>1. \A x \in Threads : stack'[x] \in Seq(Frames)
    <3>1. TAKE x \in Threads
    <3> HIDE DEF Woken
    <3>2. QED
      BY <1>4, <1>5, <1>6, <1>8
  <2>2. QED
    BY <1>4, <2>1
<1>10. \A x \in Threads : /\ DOMAIN stack[x] = 1..Len(stack[x]) /\ Len(stack[x]) \in Nat
                          /\ DOMAIN stack'[x] = 1..Len(stack'[x])
  BY <1>1, <1>9, Domains, LenProperties
<1> HIDE DEF Woken
<1>11. \A x \in Threads : Len(stack'[x]) <= Len(stack[x]) /\ (x # th => Len(stack'[x]) = Len(stack[x]))
  BY <1>4, <1>5, <1>6, <1>7, <1>10
<1>12. \A x \in Threads : \A i \in DOMAIN stack'[x] :
         \/ stack'[x][i] = stack[x][i]
         \/ Woken(x) /\ i = Len(stack[x]) /\ stack'[x][i] = JoinFrame(c, "check")
  <2>1. \A i \in DOMAIN stack'[th] : stack'[th][i] = stack[th][i]
    BY <1>4, <1>6, <1>10
  <2>2. ASSUME NEW x \in Threads, Woken(x), NEW i \in DOMAIN stack'[x]
        PROVE  stack'[x][i] = IF i = Len(stack[x]) THEN JoinFrame(c, "check") ELSE stack[x][i]
    BY <1>5, <1>10, <2>2
  <2>3. QED
    BY <1>4, <2>1, <2>2
<1>13. \A x \in Threads : Woken(x) =>
         /\ stack[x][Len(stack[x])].kind = "join" /\ stack[x][Len(stack[x])].id = c
         /\ JoinFrame(c, "check").kind = "join" /\ JoinFrame(c, "check").id = c
         /\ JoinFrame(c, "check").pc = "check"
  BY <1>5 DEF JoinFrame
<1>14. Shrinks
  <2>1. \A x \in Threads : \A i \in DOMAIN stack'[x] :
          stack'[x][i].kind = stack[x][i].kind /\ stack'[x][i].id = stack[x][i].id
    BY <1>12, <1>13
  <2>2. QED
    BY <1>3, <1>9, <1>10, <1>11, <2>1 DEF Shrinks
<1>15. NoneCounted
  <2>1. ASSUME NEW x \in Threads, NEW i \in DOMAIN stack[x],
               stack[x][i].kind = "task", stack[x][i].pc # "notify"
        PROVE  i \in DOMAIN stack'[x] /\ stack'[x][i].pc # "notify"
    <3>1. i \in DOMAIN stack'[x]
      <4>1. CASE x # th
        BY <1>10, <1>11, <4>1
      <4>2. CASE x = th
        <5>1. i # Depth(th)
          BY <1>2, <1>7, <2>1, <4>2
        <5>2. DOMAIN stack'[th] = 1..(Depth(th) - 1) /\ DOMAIN stack[th] = 1..Depth(th)
          BY <1>4, <1>6, <1>7, <1>10
        <5>3. QED
          BY <1>7, <4>2, <5>1, <5>2
      <4>3. QED
        BY <4>1, <4>2
    <3>2. QED
      BY <1>12, <1>13, <2>1, <3>1
  <2>2. ASSUME NEW x \in Threads, NEW i \in DOMAIN stack'[x],
               stack'[x][i].kind = "task", stack'[x][i].pc # "notify"
        PROVE  stack[x][i].pc # "notify"
    BY <1>12, <1>13, <2>2
  <2>3. QED
    BY <2>1, <2>2 DEF NoneCounted
<1>16. \A i \in DOMAIN stack'[th] :
         stack'[th][i].pc = IF stack'[th][i].kind = "task" THEN "run" ELSE "check"
  <2>1. \A i \in DOMAIN stack'[th] : i \in DOMAIN stack[th] /\ i # Len(stack[th]) /\ stack'[th][i] = stack[th][i]
    BY <1>4, <1>6, <1>7, <1>10
  <2>2. QED
    BY <1>1, <2>1 DEF Deep
<1>17. Deep'
  <2>1. ASSUME NEW x \in Threads, x # th, NEW i \in DOMAIN stack'[x], i # Len(stack'[x])
        PROVE  stack'[x][i].pc = IF stack'[x][i].kind = "task" THEN "run" ELSE "check"
    <3>1. i \in DOMAIN stack[x] /\ i # Len(stack[x]) /\ stack'[x][i] = stack[x][i]
      BY <1>10, <1>11, <1>12, <2>1
    <3>2. QED
      BY <1>1, <3>1 DEF Deep
  <2>2. QED
    BY <1>16, <2>1 DEF Deep
<1>18. Keeps
  BY <1>1, <1>3 DEF Keeps, Made
<1>19. OnePlace' /\ Made'
  BY <1>1, <1>14, <1>18, ShrinkKeeps
<1>20. RemainingExact'
  <2>1. \A t : Pending(t)' <=> Pending(t)
    BY <1>1, <1>14, <1>15, ShrinkPending
  <2>2. QED
    BY <1>1, <1>3, <2>1, CountKept
<1>21. \A x \in Threads : /\ At(x, "join", "announce") => x # th /\ ~Woken(x)
                          /\ At(x, "task", "notify") => ~Woken(x)
  BY <1>2 DEF At, Woken
<1>22. ASSUME NEW y \in Threads, At(y, "join", "parked")'
       PROVE  y # th /\ ~Woken(y) /\ stack'[y] = stack[y]
  <2>1. stack'[y] # <<>> /\ Len(stack'[y]) \in DOMAIN stack'[y]
        /\ stack'[y][Len(stack'[y])].pc = "parked"
    <3>1. stack'[y] # <<>> /\ stack'[y][Len(stack'[y])].pc = "parked"
      BY <1>22 DEF At, Top, Depth
    <3>2. Len(stack'[y]) \in Nat /\ Len(stack'[y]) # 0
      BY <1>9, <3>1, EmptySeq, LenProperties
    <3>3. QED
      BY <1>10, <3>1, <3>2
  <2>2. y # th
    BY <1>16, <2>1
  <2>3. ~Woken(y)
    <3>1. SUFFICES ASSUME Woken(y) PROVE FALSE
      OBVIOUS
    <3>2. stack'[y][Len(stack'[y])] = JoinFrame(c, "check")
      BY <1>5, <1>10, <2>1, <3>1
    <3>3. QED
      BY <1>13, <2>1, <3>1, <3>2
  <2>4. QED
    BY <1>4, <2>2, <2>3
<1>23. ASSUME NEW y \in Threads, At(y, "join", "parked")', remaining'[Top(y)'.id] = 0
       PROVE  \E x \in Threads : At(x, "task", "notify")' /\ CallOf(Top(x)'.id) = Top(y)'.id
  <2>1. Top(y)' = Top(y) /\ At(y, "join", "parked") /\ remaining[Top(y).id] = 0
    BY <1>3, <1>22, <1>23 DEF At, Top, Depth
  <2>2. PICK x \in Threads : At(x, "task", "notify") /\ CallOf(Top(x).id) = Top(y).id
    BY <1>1, <2>1 DEF NoLostWakeup
  <2>3. x # th
    BY <1>22, <1>23, <2>1, <2>2 DEF Woken, c
  <2>4. stack'[x] = stack[x]
    BY <1>4, <1>21, <2>2, <2>3
  <2>5. At(x, "task", "notify")' /\ Top(x)' = Top(x)
    BY <2>2, <2>4 DEF At, Top, Depth
  <2>6. QED
    BY <2>1, <2>2, <2>5
<1>24. ASSUME queue' # <<>>, NEW w \in Workers, asleep'[w]
       PROVE  \E x \in Threads : At(x, "join", "announce")'
  <2>1. PICK x \in Threads : At(x, "join", "announce")
    BY <1>1, <1>3, <1>24 DEF NoLostWakeup
  <2>2. stack'[x] = stack[x]
    BY <1>4, <1>21, <2>1
  <2>3. QED
    BY <2>1, <2>2 DEF At, Top, Depth
<1>25. NoLostWakeup'
  BY <1>23, <1>24 DEF NoLostWakeup, CallOf, Branches
<1>26. TypeOK'
  BY <1>1, <1>3, <1>9 DEF TypeOK, Frames
<1>27. QED
  BY <1>17, <1>19, <1>20, <1>25, <1>26 DEF IInv

\* A step that changes nothing.
LEMMA StutterStep ==
  ASSUME IInv, UNCHANGED vars
  PROVE  IInv'
<1>1. UNCHANGED <<program, queue, asleep, stack, remaining, cancel, parent, status>>
  BY DEF vars
<1>2. TypeOK' /\ Made' /\ Deep'
  BY <1>1 DEF IInv, TypeOK, Made, Deep, Branches
<1>3. OnePlace'
  BY <1>1 DEF IInv, OnePlace, IsTask
<1>4. RemainingExact'
  <2>1. RemainingExact
    BY DEF IInv
  <2>2. \A t : Pending(t)' <=> Pending(t)
    BY <1>1 DEF Pending, Queued, Executing, OnStack, TaskFrame
  <2>3. QED
    BY <1>1, <2>1, <2>2, CountKept
<1>5. NoLostWakeup'
  BY <1>1 DEF IInv, NoLostWakeup, At, Top, Depth, CallOf, Branches
<1>6. QED
  BY <1>2, <1>3, <1>4, <1>5 DEF IInv

-----------------------------------------------------------------------------
(***************************************************************************)
(* The theorems.                                                           *)
(***************************************************************************)

LEMMA InitIInv ==
  ASSUME Init
  PROVE  IInv
<1>1. queue = <<>> /\ \A th \in Threads : stack[th] = <<>>
  BY DEF Init
<1>2. DOMAIN queue = {} /\ \A th \in Threads : DOMAIN stack[th] = {}
  BY <1>1
<1>3. TypeOK
  BY DEF Init, TypeOK
<1>4. OnePlace /\ Deep
  BY <1>2 DEF OnePlace, Deep
<1>5. \A c \in Calls : status[c] = "unmade"
  BY DEF Init
<1>6. Made /\ RemainingExact
  BY <1>2, <1>5 DEF Made, RemainingExact
<1>7. NoLostWakeup
  BY <1>1 DEF NoLostWakeup, At
<1>8. QED
  BY <1>3, <1>4, <1>6, <1>7 DEF IInv

LEMMA NextIInv ==
  ASSUME IInv, [Next]_vars
  PROVE  IInv'
<1>1. ASSUME NEW th \in Threads, ThreadStep(th) PROVE IInv'
  BY <1>1, AnnounceStep, CheckStep, CascadeStep, HelpStep, BranchStep, LeaveStep, NotifyStep
     DEF ThreadStep
<1>2. ASSUME NEW th \in Threads, Fail(th) \/ Wake(th) PROVE IInv'
  BY <1>2, BranchStep, CascadeStep
<1>3. ASSUME NEW th \in Threads, Spin(th) PROVE IInv'
  BY <1>3, StutterStep DEF Spin
<1>4. ASSUME NEW th \in Threads, NEW c \in Calls, NEW cascading \in BOOLEAN, Fork(th, c, cascading)
      PROVE  IInv'
  BY <1>4, ForkStep
<1>5. ASSUME NEW w \in Workers, WorkerStep(w) \/ WorkerStir(w) PROVE IInv'
  BY <1>5, PopStep, IdleStep DEF WorkerStep
<1>6. CASE Finished \/ UNCHANGED vars
  BY <1>6, StutterStep DEF Finished
<1>7. QED
  BY <1>1, <1>2, <1>3, <1>4, <1>5, <1>6 DEF Next

\* The inductive invariant: the bookkeeping of the pool is consistent whatever the
\* number of workers and callers, however calls nest and whoever helps whom.
THEOREM Invariance == Spec => []IInv
<1>1. Init => IInv
  BY InitIInv
<1>2. IInv /\ [Next]_vars => IInv'
  BY NextIInv
<1>3. QED
  BY <1>1, <1>2, PTL DEF Spec

\* Every variable has its type; `remaining`, a u32 in the code, is never
\* decremented below zero.
THEOREM TypeCorrect == Spec => []TypeOK
<1>1. IInv => TypeOK
  BY DEF IInv
<1>2. QED
  BY <1>1, Invariance, PTL

\* ParCall.remaining is exactly the number of branches still queued or running.
THEOREM RemainingIsExact == Spec => []RemainingExact
<1>1. IInv => RemainingExact
  BY DEF IInv
<1>2. QED
  BY <1>1, Invariance, PTL

\* karac_par_run_pooled and dispatch_and_wait return only when no branch of the
\* call is queued or running anywhere: the frame that branches borrow from is safe.
THEOREM JoinIsABarrier == Spec => []JoinBarrier
<1>1. ASSUME IInv PROVE JoinBarrier
  <2>1. SUFFICES ASSUME NEW c \in Calls, status[c] = "joined", NEW t \in Branches(c)
                 PROVE  ~Queued(t) /\ ~Executing(t)
    BY DEF JoinBarrier
  <2>2. remaining[c] = 0 /\ status[c] # "unmade" /\ RemainingExact
    BY <1>1, <2>1 DEF IInv, Made
  <2>3. QED
    BY <2>2, CountFacts
<1>2. QED
  BY <1>1, Invariance, PTL

\* No worker sleeps on work and no joiner waits for a finished call unless the
\* notification is still to come.
THEOREM NoWakeupLost == Spec => []NoLostWakeup
<1>1. IInv => NoLostWakeup
  BY DEF IInv
<1>2. QED
  BY <1>1, Invariance, PTL
=============================================================================
