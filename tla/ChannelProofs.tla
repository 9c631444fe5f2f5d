---------------------------- MODULE ChannelProofs ----------------------------
(***************************************************************************)
(* Proofs about Channel, for any finite sets of Sender ends and receiving  *)
(* tasks, any capacity and any bound on the calls.                         *)
(***************************************************************************)
EXTENDS Channel, FiniteSetTheorems, SequenceTheorems, TLAPS

\* What the two counters count.  A Sender inside clone has been counted twice
\* in `senders` and once in `total`: the two fetch_adds are separate.
TotalExact   == total = Cardinality(LiveEnds) + (IF rx THEN 1 ELSE 0)
SendersExact == senders = Cardinality(CountedEnds) + Cardinality(Cloning)

\* The box lives exactly as long as some end does.
BoxLives == freed <=> LiveEnds = {} /\ ~rx

\* The Sender that brought `senders` to 0 finds no other end able to push.
LastSender ==
  closed \/ (\E e \in Ends : pc[e] \in {"close", "closing"}) => CountedEnds = {}

\* A call that may still push carries a numbered payload, and elem_drop has been
\* stored for it: the destructor drops whatever it finds in the queue.
InSend == {"check", "enqueue"}
DropKnown ==
  /\ \A e \in Ends : pc[e] \in InSend => elemDrop /\ val[e] \in Payloads
  /\ queue # <<>> => elemDrop
  /\ ~freed => dropped = <<>>

\* The inductive invariant: the properties of the runs and, to carry them, what
\* the counters count and what the destructor may rely on.
IInv ==
  /\ TypeOK
  /\ TotalExact
  /\ SendersExact
  /\ BoxLives
  /\ LastSender
  /\ DropKnown
  /\ PayloadConservation
  /\ WithinCapacity
  /\ NoLostWakeup

USE EndsAssumption, ConsumersAssumption, BoundsAssumption

-----------------------------------------------------------------------------
\* The ends and the tasks that the counting is about are finitely many.
LEMMA Finite ==
  /\ IsFiniteSet(LiveEnds) /\ IsFiniteSet(CountedEnds)
  /\ IsFiniteSet(Cloning) /\ IsFiniteSet(Notifying) /\ IsFiniteSet(Woken)
<1>1. \A T \in SUBSET Ends : IsFiniteSet(T)
  BY FS_Subset
<1>2. \A T \in SUBSET Consumers : IsFiniteSet(T)
  BY FS_Subset
<1>3. QED
  BY <1>1, <1>2 DEF LiveEnds, CountedEnds, Cloning, Notifying, Woken

\* The cardinalities of a set, and of the same set with one member more or less.
LEMMA Count ==
  ASSUME NEW S, IsFiniteSet(S), NEW x
  PROVE  /\ Cardinality(S) \in Nat
         /\ x \in S => Cardinality(S) >= 1
         /\ Cardinality(S) = 0 <=> S = {}
         /\ IsFiniteSet(S \union {x}) /\ IsFiniteSet(S \ {x})
         /\ x \notin S => Cardinality(S \union {x}) = Cardinality(S) + 1
         /\ x \in S => Cardinality(S \ {x}) = Cardinality(S) - 1
<1>1. Cardinality(S) \in Nat
  BY FS_CardinalityType
<1>2. Cardinality(S) = 0 <=> S = {}
  BY FS_EmptySet
<1>3. /\ IsFiniteSet(S \union {x})
      /\ x \notin S => Cardinality(S \union {x}) = Cardinality(S) + 1
  BY FS_AddElement
<1>4. /\ IsFiniteSet(S \ {x})
      /\ x \in S => Cardinality(S \ {x}) = Cardinality(S) - 1
  BY FS_RemoveElement
<1>5. QED
  BY <1>1, <1>2, <1>3, <1>4

\* How the sets of ends change when one end moves on.
LEMMA Moved ==
  ASSUME TypeOK, NEW e \in Ends, NEW l, Goto(e, l)
  PROVE  /\ LiveEnds' = IF l \in {"absent", "gone"} THEN LiveEnds \ {e}
                        ELSE LiveEnds \union {e}
         /\ CountedEnds' =
              IF l \in {"absent", "gone", "close", "closing", "release"}
              THEN CountedEnds \ {e} ELSE CountedEnds \union {e}
         /\ Cloning' = IF l = "clone" THEN Cloning \union {e} ELSE Cloning \ {e}
         /\ Notifying' = IF l = "notify" THEN Notifying \union {e}
                         ELSE Notifying \ {e}
<1> USE DEF TypeOK, Goto
<1>0. \A f \in Ends : pc'[f] = IF f = e THEN l ELSE pc[f]
  OBVIOUS
<1>1. LiveEnds' = IF l \in {"absent", "gone"} THEN LiveEnds \ {e}
                  ELSE LiveEnds \union {e}
  BY <1>0 DEF LiveEnds
<1>2. CountedEnds' = IF l \in {"absent", "gone", "close", "closing", "release"}
                     THEN CountedEnds \ {e} ELSE CountedEnds \union {e}
  BY <1>0 DEF CountedEnds
<1>3. Cloning' = IF l = "clone" THEN Cloning \union {e} ELSE Cloning \ {e}
  BY <1>0 DEF Cloning
<1>4. Notifying' = IF l = "notify" THEN Notifying \union {e} ELSE Notifying \ {e}
  BY <1>0 DEF Notifying
<1>5. QED
  BY <1>1, <1>2, <1>3, <1>4

\* The same for the second half of clone: e goes back to its owner and the new
\* end f comes to life.
LEMMA Cloned ==
  ASSUME TypeOK, NEW e \in Ends, pc[e] = "clone", NEW f \in Ends, pc[f] = "absent",
         pc' = [pc EXCEPT ![e] = "idle", ![f] = "idle"]
  PROVE  /\ LiveEnds' = LiveEnds \union {f} /\ f \notin LiveEnds
         /\ CountedEnds' = CountedEnds \union {f} /\ f \notin CountedEnds
         /\ Cloning' = Cloning \ {e} /\ e \in Cloning
         /\ Notifying' = Notifying
         /\ e # f /\ e \in CountedEnds
<1>0. /\ e # f /\ e \in LiveEnds /\ e \in CountedEnds /\ e \in Cloning
      /\ f \notin LiveEnds /\ f \notin CountedEnds /\ f \notin Cloning
      /\ e \notin Notifying /\ f \notin Notifying
  BY DEF LiveEnds, CountedEnds, Cloning, Notifying
<1>1. \A g \in Ends : pc'[g] = IF g = e \/ g = f THEN "idle" ELSE pc[g]
  BY DEF TypeOK
<1>2. LiveEnds' = LiveEnds \union {f}
  BY <1>0, <1>1 DEF LiveEnds, TypeOK
<1>3. CountedEnds' = CountedEnds \union {f}
  BY <1>0, <1>1 DEF CountedEnds, TypeOK
<1>4. Cloning' = Cloning \ {e}
  BY <1>0, <1>1 DEF Cloning, TypeOK
<1>5. Notifying' = Notifying
  BY <1>0, <1>1 DEF Notifying, TypeOK
<1>6. QED
  BY <1>0, <1>2, <1>3, <1>4, <1>5

\* Control states of a Sender that is counted once, in both counters.
Steady == {"idle", "check", "enqueue", "notify", "panicked"}

\* A Sender that stays inside its calls changes no count.
LEMMA MovedSteady ==
  ASSUME TypeOK, NEW e \in Ends, NEW l, Goto(e, l), pc[e] \in Steady, l \in Steady
  PROVE  LiveEnds' = LiveEnds /\ CountedEnds' = CountedEnds /\ Cloning' = Cloning
<1>1. e \in LiveEnds /\ e \in CountedEnds /\ e \notin Cloning
  BY DEF LiveEnds, CountedEnds, Cloning, Steady
<1>2. l \notin {"absent", "gone", "close", "closing", "release", "clone"}
  BY DEF Steady
<1>3. /\ LiveEnds' = LiveEnds \union {e}
      /\ CountedEnds' = CountedEnds \union {e}
      /\ Cloning' = Cloning \ {e}
  BY Moved, <1>2
<1>4. QED
  BY <1>1, <1>3

\* A live end is counted: the decrements below never underflow.
LEMMA Positive ==
  ASSUME TypeOK, TotalExact, SendersExact, NEW e \in Ends
  PROVE  /\ e \in LiveEnds => total >= 1
         /\ e \in CountedEnds => senders >= 1
         /\ rx => total >= 1
         /\ total = 0 <=> LiveEnds = {} /\ ~rx
         /\ senders = 0 <=> CountedEnds = {}
<1>1. /\ Cardinality(LiveEnds) \in Nat
      /\ e \in LiveEnds => Cardinality(LiveEnds) >= 1
      /\ Cardinality(LiveEnds) = 0 <=> LiveEnds = {}
  BY Finite, Count
<1>2. /\ Cardinality(CountedEnds) \in Nat
      /\ e \in CountedEnds => Cardinality(CountedEnds) >= 1
      /\ Cardinality(CountedEnds) = 0 <=> CountedEnds = {}
  BY Finite, Count
<1>3. /\ Cardinality(Cloning) \in Nat
      /\ Cardinality(Cloning) = 0 <=> Cloning = {}
  BY Finite, Count
<1>4. Cloning \subseteq CountedEnds
  BY DEF Cloning, CountedEnds
<1>5. senders = 0 <=> CountedEnds = {}
  BY <1>2, <1>3, <1>4 DEF SendersExact
<1>6. total = 0 <=> LiveEnds = {} /\ ~rx
  BY <1>1 DEF TotalExact
<1>7. QED
  BY <1>1, <1>2, <1>3, <1>5, <1>6 DEF TotalExact, SendersExact

\* Every step keeps each variable in its type; the counters stay natural
\* numbers because whoever decrements one is still counted in it.
LEMMA TypeStep == IInv /\ [Next]_vars => TypeOK'
<1> SUFFICES ASSUME IInv, [Next]_vars PROVE TypeOK'
  OBVIOUS
<1> USE DEF TypeOK, PCs, Busy, Goto, At, counters, inner, endVars, history
<1>0. TypeOK /\ TotalExact /\ SendersExact
  BY DEF IInv
<1>1. ASSUME NEW e \in Ends, CloneSenders(e) PROVE TypeOK'
  BY <1>0, <1>1 DEF CloneSenders
<1>2. ASSUME NEW e \in Ends, DropSender(e) PROVE TypeOK'
  <2>1. senders \in Nat /\ senders >= 1
    BY <1>0, <1>2, Positive DEF DropSender, CountedEnds
  <2>2. senders - 1 \in Nat
    BY <2>1
  <2>3. QED
    BY <1>0, <1>2, <2>2 DEF DropSender
<1>3. ASSUME NEW e \in Ends, CloneTotal(e) PROVE TypeOK'
  <2>1. PICK f \in shape.ends : pc' = [pc EXCEPT ![e] = "idle", ![f] = "idle"]
    BY <1>3 DEF CloneTotal
  <2>2. pc' \in [Ends -> PCs]
    BY <1>0, <2>1
  <2>3. total + 1 \in Nat
    BY <1>0
  <2>4. QED
    BY <1>0, <1>3, <2>2, <2>3 DEF CloneTotal
<1>4. ASSUME NEW e \in Ends, SetClosed(e) PROVE TypeOK'
  BY <1>0, <1>4 DEF SetClosed
<1>5. ASSUME NEW e \in Ends, CloseNotifyAll(e) PROVE TypeOK'
  BY <1>0, <1>5 DEF CloseNotifyAll
<1>6. ASSUME total >= 1, ReleaseTotal
      PROVE  total' \in Nat /\ freed' \in BOOLEAN /\ dropped' \in Seq(Payloads)
  BY <1>0, <1>6, ConcatProperties DEF ReleaseTotal
<1>7. ASSUME NEW e \in Ends, ReleaseSender(e) PROVE TypeOK'
  <2>1. total >= 1
    BY <1>0, <1>7, Positive DEF ReleaseSender, LiveEnds
  <2>2. QED
    BY <1>0, <1>6, <1>7, <2>1 DEF ReleaseSender
<1>8. ASSUME NEW e \in Ends, NEW kind \in {"send", "try_send"}, BeginSend(e, kind)
      PROVE  TypeOK'
  <2>1. calls + 1 \in 0..MaxSends
    BY <1>0, <1>8 DEF BeginSend
  <2>2. QED
    BY <1>0, <1>8, <2>1 DEF BeginSend
<1>9. ASSUME NEW e \in Ends, CheckReceiver(e) PROVE TypeOK'
  BY <1>0, <1>9 DEF CheckReceiver
<1>10. ASSUME NEW e \in Ends, Enqueue(e) PROVE TypeOK'
  <2>1. val[e] \in Payloads
    BY <1>10 DEF Enqueue, IInv, DropKnown, InSend
  <2>2. Append(queue, val[e]) \in Seq(Payloads) /\ Append(accepted, val[e]) \in Seq(Payloads)
    BY <1>0, <2>1, AppendProperties
  <2>3. CASE ~Full /\ Push(e)
    BY <1>0, <1>10, <2>2, <2>3 DEF Enqueue, Push
  <2>4. CASE Full /\ UNCHANGED <<queue, accepted>>
             /\ Goto(e, IF op[e] = "send" THEN "panicked" ELSE "idle")
    BY <1>0, <1>10, <2>4 DEF Enqueue
  <2>5. QED
    BY <1>10, <2>3, <2>4 DEF Enqueue
<1>11. ASSUME NEW e \in Ends, NotifyOne(e) PROVE TypeOK'
  BY <1>0, <1>11 DEF NotifyOne
<1>12. ASSUME Pop PROVE queue' \in Seq(Payloads) /\ received' \in Seq(Payloads)
  <2>1. Head(queue) \in Payloads /\ Tail(queue) \in Seq(Payloads)
    BY <1>0, <1>12, HeadTailProperties DEF Pop
  <2>2. QED
    BY <1>0, <1>12, <2>1, AppendProperties DEF Pop
<1>13. ASSUME NEW c \in Consumers, Recv(c) PROVE TypeOK'
  BY <1>0, <1>12, <1>13 DEF Recv
<1>14. ASSUME NEW c \in Consumers, SpuriousWake(c) PROVE TypeOK'
  BY <1>0, <1>14 DEF SpuriousWake
<1>15. ASSUME NEW c \in Consumers, TryRecv(c) PROVE TypeOK'
  BY <1>0, <1>12, <1>15 DEF TryRecv
<1>16. ASSUME DropReceiver PROVE TypeOK'
  <2>1. total >= 1
    BY <1>0, <1>16, Positive DEF DropReceiver
  <2>2. QED
    BY <1>0, <1>6, <1>16, <2>1 DEF DropReceiver
<1>17. ASSUME Finished \/ UNCHANGED vars PROVE TypeOK'
  BY <1>0, <1>17 DEF Finished, vars
<1>18. QED
  BY <1>1, <1>2, <1>3, <1>4, <1>5, <1>7, <1>8, <1>9, <1>10, <1>11, <1>13, <1>14,
     <1>15, <1>16, <1>17 DEF Next, SenderStep

\* No step makes a counter differ from what it counts, although a clone updates
\* the two separately and drops interleave with it.
LEMMA CountStep == IInv /\ [Next]_vars => TotalExact' /\ SendersExact'
<1> SUFFICES ASSUME IInv, [Next]_vars PROVE TotalExact' /\ SendersExact'
  OBVIOUS
<1> USE DEF At, counters, inner, endVars, history
<1> DEFINE Goal == TotalExact' /\ SendersExact'
           L == Cardinality(LiveEnds)
           C == Cardinality(CountedEnds)
           K == Cardinality(Cloning)
<1>0. TypeOK /\ TotalExact /\ SendersExact
  BY DEF IInv
<1>n. L \in Nat /\ C \in Nat /\ K \in Nat /\ total \in Nat /\ senders \in Nat
  BY <1>0, Finite, Count DEF TypeOK
<1>s. ASSUME LiveEnds' = LiveEnds, CountedEnds' = CountedEnds, Cloning' = Cloning,
             UNCHANGED <<total, senders, rx>>
      PROVE  Goal
  BY <1>0, <1>s DEF TotalExact, SendersExact
<1>u. ASSUME pc' = pc PROVE LiveEnds' = LiveEnds /\ CountedEnds' = CountedEnds
                            /\ Cloning' = Cloning
  BY <1>u DEF LiveEnds, CountedEnds, Cloning
<1>1. ASSUME NEW e \in Ends, CloneSenders(e) PROVE Goal
  <2>1. e \in LiveEnds /\ e \in CountedEnds /\ e \notin Cloning
    BY <1>1 DEF CloneSenders, LiveEnds, CountedEnds, Cloning
  <2>2. /\ LiveEnds' = LiveEnds \union {e} /\ CountedEnds' = CountedEnds \union {e}
        /\ Cloning' = Cloning \union {e}
    BY <1>0, <1>1, Moved DEF CloneSenders
  <2>3. LiveEnds' = LiveEnds /\ CountedEnds' = CountedEnds
    BY <2>1, <2>2
  <2>4. Cardinality(Cloning') = K + 1
    BY <2>1, <2>2, Finite, Count
  <2>5. QED
    BY <1>0, <1>1, <1>n, <2>3, <2>4 DEF CloneSenders, TotalExact, SendersExact
<1>2. ASSUME NEW e \in Ends, DropSender(e) PROVE Goal
  <2> DEFINE l == IF senders = 1 THEN "close" ELSE "release"
  <2>1. e \in LiveEnds /\ e \in CountedEnds /\ e \notin Cloning
    BY <1>2 DEF DropSender, LiveEnds, CountedEnds, Cloning
  <2>2. l \in {"close", "release"} /\ Goto(e, l)
    BY <1>2 DEF DropSender
  <2> HIDE DEF l
  <2>3. /\ LiveEnds' = LiveEnds \union {e} /\ CountedEnds' = CountedEnds \ {e}
        /\ Cloning' = Cloning \ {e}
    BY <1>0, <2>2, Moved
  <2>4. LiveEnds' = LiveEnds /\ Cloning' = Cloning
    BY <2>1, <2>3
  <2>5. Cardinality(CountedEnds') = C - 1
    BY <2>1, <2>3, Finite, Count
  <2>6. QED
    BY <1>0, <1>2, <1>n, <2>4, <2>5 DEF DropSender, TotalExact, SendersExact
<1>3. ASSUME NEW e \in Ends, CloneTotal(e) PROVE Goal
  <2>1. PICK f \in shape.ends : pc[f] = "absent"
                                /\ pc' = [pc EXCEPT ![e] = "idle", ![f] = "idle"]
    BY <1>3 DEF CloneTotal
  <2>2. f \in Ends
    BY <1>0 DEF TypeOK
  <2>3. /\ LiveEnds' = LiveEnds \union {f} /\ f \notin LiveEnds
        /\ CountedEnds' = CountedEnds \union {f} /\ f \notin CountedEnds
        /\ Cloning' = Cloning \ {e} /\ e \in Cloning
    BY <1>0, <1>3, <2>1, <2>2, Cloned DEF CloneTotal
  <2>4. /\ Cardinality(LiveEnds') = L + 1
        /\ Cardinality(CountedEnds') = C + 1
        /\ Cardinality(Cloning') = K - 1
    BY <2>3, Finite, Count
  <2>5. QED
    BY <1>0, <1>3, <1>n, <2>4 DEF CloneTotal, TotalExact, SendersExact
<1>4. ASSUME NEW e \in Ends, SetClosed(e) \/ CloseNotifyAll(e) PROVE Goal
  <2> DEFINE l == pc'[e]
  <2>1. e \in LiveEnds /\ e \notin CountedEnds /\ e \notin Cloning
    BY <1>4 DEF SetClosed, CloseNotifyAll, LiveEnds, CountedEnds, Cloning
  <2>2. l \in {"closing", "release"} /\ Goto(e, l)
    BY <1>0, <1>4 DEF SetClosed, CloseNotifyAll, Goto, TypeOK
  <2> HIDE DEF l
  <2>3. /\ LiveEnds' = LiveEnds \union {e} /\ CountedEnds' = CountedEnds \ {e}
        /\ Cloning' = Cloning \ {e}
    BY <1>0, <2>2, Moved
  <2>4. LiveEnds' = LiveEnds /\ CountedEnds' = CountedEnds /\ Cloning' = Cloning
    BY <2>1, <2>3
  <2>5. QED
    BY <1>s, <1>4, <2>4 DEF SetClosed, CloseNotifyAll
<1>5. ASSUME NEW e \in Ends, ReleaseSender(e) PROVE Goal
  <2>1. e \in LiveEnds /\ e \notin CountedEnds /\ e \notin Cloning
    BY <1>5 DEF ReleaseSender, LiveEnds, CountedEnds, Cloning
  <2>2. /\ LiveEnds' = LiveEnds \ {e} /\ CountedEnds' = CountedEnds \ {e}
        /\ Cloning' = Cloning \ {e}
    BY <1>0, <1>5, Moved DEF ReleaseSender
  <2>3. CountedEnds' = CountedEnds /\ Cloning' = Cloning
    BY <2>1, <2>2
  <2>4. Cardinality(LiveEnds') = L - 1
    BY <2>1, <2>2, Finite, Count
  <2>5. QED
    BY <1>0, <1>5, <1>n, <2>3, <2>4
    DEF ReleaseSender, ReleaseTotal, TotalExact, SendersExact
<1>6. ASSUME NEW e \in Ends, NEW kind \in {"send", "try_send"}, BeginSend(e, kind)
      PROVE  Goal
  BY <1>0, <1>6, <1>s, MovedSteady DEF BeginSend, Steady
<1>7. ASSUME NEW e \in Ends, CheckReceiver(e) PROVE Goal
  BY <1>0, <1>7, <1>s, MovedSteady DEF CheckReceiver, Steady
<1>8. ASSUME NEW e \in Ends, Enqueue(e) PROVE Goal
  BY <1>0, <1>8, <1>s, MovedSteady DEF Enqueue, Push, Steady
<1>9. ASSUME NEW e \in Ends, NotifyOne(e) PROVE Goal
  BY <1>0, <1>9, <1>s, MovedSteady DEF NotifyOne, Steady
<1>10. ASSUME NEW c \in Consumers, Recv(c) \/ SpuriousWake(c) \/ TryRecv(c) PROVE Goal
  BY <1>10, <1>s, <1>u DEF Recv, SpuriousWake, TryRecv
<1>11. ASSUME DropReceiver PROVE Goal
  BY <1>0, <1>11, <1>n, <1>u DEF DropReceiver, ReleaseTotal, TotalExact, SendersExact
<1>12. ASSUME Finished \/ UNCHANGED vars PROVE Goal
  BY <1>12, <1>s, <1>u DEF Finished, vars
<1>13. QED
  BY <1>1, <1>2, <1>3, <1>4, <1>5, <1>6, <1>7, <1>8, <1>9, <1>10, <1>11, <1>12
  DEF Next, SenderStep

\* A step either leaves `total` and the box alone, adds to a positive `total`,
\* or is the release_total of an end that is still counted in it.
LEMMA TotalStep ==
  ASSUME IInv, [Next]_vars
  PROVE  \/ UNCHANGED <<total, freed, dropped>>
         \/ total >= 1 /\ total' = total + 1 /\ UNCHANGED <<freed, dropped>>
         \/ total >= 1 /\ ReleaseTotal /\ UNCHANGED <<queue, accepted, received, elemDrop>>
<1> USE DEF At, counters, inner, endVars, history
<1> DEFINE Goal == \/ UNCHANGED <<total, freed, dropped>>
                   \/ total >= 1 /\ total' = total + 1 /\ UNCHANGED <<freed, dropped>>
                   \/ total >= 1 /\ ReleaseTotal
                      /\ UNCHANGED <<queue, accepted, received, elemDrop>>
<1>0. TypeOK /\ TotalExact /\ SendersExact
  BY DEF IInv
<1>1. ASSUME NEW e \in Ends, CloneTotal(e) PROVE Goal
  BY <1>0, <1>1, Positive DEF CloneTotal, LiveEnds
<1>2. ASSUME NEW e \in Ends, ReleaseSender(e) PROVE Goal
  BY <1>0, <1>2, Positive DEF ReleaseSender, LiveEnds
<1>3. ASSUME DropReceiver PROVE Goal
  BY <1>0, <1>3, Positive DEF DropReceiver
<1>4. ASSUME NEW e \in Ends,
             \/ CloneSenders(e) \/ DropSender(e) \/ SetClosed(e) \/ CloseNotifyAll(e)
             \/ CheckReceiver(e) \/ Enqueue(e) \/ NotifyOne(e)
             \/ \E kind \in {"send", "try_send"} : BeginSend(e, kind)
      PROVE  Goal
  BY <1>4 DEF CloneSenders, DropSender, SetClosed, CloseNotifyAll, CheckReceiver,
              Enqueue, NotifyOne, BeginSend
<1>5. ASSUME NEW c \in Consumers, Recv(c) \/ SpuriousWake(c) \/ TryRecv(c) PROVE Goal
  BY <1>5 DEF Recv, SpuriousWake, TryRecv
<1>6. ASSUME Finished \/ UNCHANGED vars PROVE Goal
  BY <1>6 DEF Finished, vars
<1>7. QED
  BY <1>1, <1>2, <1>3, <1>4, <1>5, <1>6 DEF Next, SenderStep

\* The box is freed by the step that takes the last end away, and by no other.
LEMMA BoxStep == IInv /\ [Next]_vars => BoxLives'
<1> SUFFICES ASSUME IInv, [Next]_vars PROVE BoxLives'
  OBVIOUS
<1>1. TypeOK' /\ TotalExact' /\ SendersExact'
  BY TypeStep, CountStep
<1>2. total = 0 <=> LiveEnds = {} /\ ~rx
  <2>1. FirstEnd \in Ends
    OBVIOUS
  <2>2. QED
    BY <2>1, Positive DEF IInv
<1>3. (total = 0 <=> LiveEnds = {} /\ ~rx)'
  <2>1. LiveEnds' \in SUBSET Ends
    BY DEF LiveEnds
  <2>2. /\ Cardinality(LiveEnds') \in Nat
        /\ Cardinality(LiveEnds') = 0 <=> LiveEnds' = {}
    BY <2>1, FS_Subset, Count
  <2>3. QED
    BY <1>1, <2>2 DEF TotalExact
<1>4. freed <=> total = 0
  BY <1>2 DEF IInv, BoxLives
<1>5. total \in Nat /\ freed \in BOOLEAN
  BY DEF IInv, TypeOK
<1>6. freed' <=> total' = 0
  <2>1. CASE UNCHANGED <<total, freed, dropped>>
    BY <1>4, <2>1
  <2>2. CASE total >= 1 /\ total' = total + 1 /\ UNCHANGED <<freed, dropped>>
    BY <1>4, <1>5, <2>2
  <2>3. CASE total >= 1 /\ ReleaseTotal
    <3>1. ~freed /\ (total' = 0 <=> total = 1)
      BY <1>4, <1>5, <2>3 DEF ReleaseTotal
    <3>2. freed' = (freed \/ total = 1)
      BY <2>3 DEF ReleaseTotal
    <3>3. QED
      BY <3>1, <3>2
  <2>4. QED
    BY <2>1, <2>2, <2>3, TotalStep
<1>7. QED
  BY <1>3, <1>6 DEF BoxLives

\* Once a Sender has found itself the last one, no end is left that could push,
\* and none comes to life: a clone starts from an end that is still counted.
LEMMA LastSenderStep == IInv /\ [Next]_vars => LastSender'
<1> SUFFICES ASSUME IInv, [Next]_vars PROVE LastSender'
  OBVIOUS
<1> USE DEF At, counters, inner, endVars, history
<1>0. TypeOK /\ TotalExact /\ SendersExact /\ LastSender
  BY DEF IInv
<1>1. ASSUME NEW e \in Ends, DropSender(e) PROVE LastSender'
  <2> DEFINE l == IF senders = 1 THEN "close" ELSE "release"
  <2>1. e \in CountedEnds
    BY <1>1 DEF DropSender, CountedEnds
  <2>2. l \in {"close", "release"} /\ Goto(e, l) /\ closed' = closed
    BY <1>1 DEF DropSender
  <2>3. CountedEnds' = CountedEnds \ {e}
    BY <1>0, <2>2, Moved
  <2>4. ASSUME senders = 1 PROVE CountedEnds' = {}
    <3>1. /\ Cardinality(CountedEnds) \in Nat /\ Cardinality(Cloning) \in Nat
          /\ Cardinality(CountedEnds) >= 1
          /\ Cardinality(CountedEnds \ {e}) = Cardinality(CountedEnds) - 1
          /\ IsFiniteSet(CountedEnds \ {e})
      BY <2>1, Finite, Count
    <3>2. Cardinality(CountedEnds \ {e}) = 0
      BY <1>0, <2>4, <3>1 DEF SendersExact
    <3>3. QED
      BY <2>3, <3>1, <3>2, Count
  <2>5. CASE senders = 1
    BY <2>4, <2>5 DEF LastSender
  <2>6. CASE senders # 1
    <3>1. \A f \in Ends : pc'[f] \in {"close", "closing"} => pc[f] = pc'[f]
      BY <1>0, <2>2, <2>6 DEF Goto, TypeOK
    <3>2. QED
      BY <1>0, <2>2, <2>3, <3>1 DEF LastSender
  <2>7. QED
    BY <2>5, <2>6
<1>2. ASSUME NEW e \in Ends, CloneTotal(e) PROVE LastSender'
  <2>1. PICK f \in shape.ends : pc' = [pc EXCEPT ![e] = "idle", ![f] = "idle"]
    BY <1>2 DEF CloneTotal
  <2>2. \A g \in Ends : pc'[g] \in {"close", "closing"} => pc[g] = pc'[g]
    BY <1>0, <2>1 DEF TypeOK
  <2>3. e \in CountedEnds
    BY <1>2 DEF CloneTotal, CountedEnds
  <2>4. QED
    BY <1>0, <1>2, <2>2, <2>3 DEF LastSender, CloneTotal
<1>3. ASSUME NEW e \in Ends,
             \/ CloneSenders(e) \/ CheckReceiver(e) \/ Enqueue(e) \/ NotifyOne(e)
             \/ \E kind \in {"send", "try_send"} : BeginSend(e, kind)
      PROVE  LastSender'
  <2>1. /\ closed' = closed /\ e \in CountedEnds
        /\ \A g \in Ends : pc'[g] \in {"close", "closing"} => pc[g] = pc'[g]
    BY <1>0, <1>3 DEF CloneSenders, CheckReceiver, Enqueue, Push, NotifyOne, BeginSend,
                      Goto, CountedEnds, TypeOK
  <2>2. QED
    BY <1>0, <2>1 DEF LastSender
<1>4. ASSUME NEW e \in Ends, SetClosed(e) \/ CloseNotifyAll(e) PROVE LastSender'
  <2>1. CountedEnds = {}
    BY <1>0, <1>4 DEF LastSender, SetClosed, CloseNotifyAll
  <2>2. CountedEnds' \subseteq CountedEnds
    BY <1>0, <1>4 DEF SetClosed, CloseNotifyAll, Goto, CountedEnds, TypeOK
  <2>3. QED
    BY <2>1, <2>2 DEF LastSender
<1>5. ASSUME NEW e \in Ends, ReleaseSender(e) PROVE LastSender'
  <2>1. /\ closed' = closed /\ CountedEnds' = CountedEnds \ {e}
    BY <1>0, <1>5, Moved DEF ReleaseSender
  <2>2. \A g \in Ends : pc'[g] \in {"close", "closing"} => pc[g] = pc'[g]
    BY <1>0, <1>5 DEF ReleaseSender, Goto, TypeOK
  <2>3. QED
    BY <1>0, <2>1, <2>2 DEF LastSender
<1>6. ASSUME UNCHANGED <<pc, closed>> PROVE LastSender'
  BY <1>0, <1>6 DEF LastSender, CountedEnds
<1>7. ASSUME NEW c \in Consumers, Recv(c) \/ SpuriousWake(c) \/ TryRecv(c)
      PROVE  LastSender'
  BY <1>6, <1>7 DEF Recv, SpuriousWake, TryRecv
<1>8. ASSUME DropReceiver \/ Finished \/ UNCHANGED vars PROVE LastSender'
  BY <1>6, <1>8 DEF DropReceiver, Finished, vars
<1>9. QED
  BY <1>1, <1>2, <1>3, <1>4, <1>5, <1>7, <1>8 DEF Next, SenderStep

-----------------------------------------------------------------------------
\* Moving the front of one sequence to the end of another keeps their
\* concatenation.
LEMMA PopConserves ==
  ASSUME NEW S, NEW r \in Seq(S), NEW q \in Seq(S), q # <<>>
  PROVE  Append(r, Head(q)) \o Tail(q) = r \o q
<1>1. /\ Head(q) \in S /\ Tail(q) \in Seq(S) /\ Len(Tail(q)) = Len(q) - 1
      /\ \A i \in 1..Len(Tail(q)) : Tail(q)[i] = q[i + 1]
  BY HeadTailProperties
<1>2. Len(q) \in Nat /\ Len(q) # 0 /\ Len(r) \in Nat /\ Head(q) = q[1]
  BY EmptySeq, LenProperties
<1> DEFINE a == Append(r, Head(q))
<1>3. /\ a \in Seq(S) /\ Len(a) = Len(r) + 1
      /\ \A i \in 1..Len(r) : a[i] = r[i]
      /\ a[Len(r) + 1] = Head(q)
  BY <1>1, AppendProperties
<1> HIDE DEF a
<1>4. /\ a \o Tail(q) \in Seq(S)
      /\ Len(a \o Tail(q)) = Len(a) + Len(Tail(q))
      /\ \A i \in 1..(Len(a) + Len(Tail(q))) :
           (a \o Tail(q))[i] = IF i <= Len(a) THEN a[i] ELSE Tail(q)[i - Len(a)]
  BY <1>1, <1>3, ConcatProperties
<1>5. /\ r \o q \in Seq(S)
      /\ Len(r \o q) = Len(r) + Len(q)
      /\ \A i \in 1..(Len(r) + Len(q)) :
           (r \o q)[i] = IF i <= Len(r) THEN r[i] ELSE q[i - Len(r)]
  BY ConcatProperties
<1>6. Len(a \o Tail(q)) = Len(r \o q)
  BY <1>1, <1>2, <1>3, <1>4, <1>5
<1>7. ASSUME NEW i \in 1..Len(r \o q) PROVE (a \o Tail(q))[i] = (r \o q)[i]
  <2>0. i \in Nat /\ i >= 1 /\ i <= Len(r) + Len(q)
    BY <1>2, <1>5
  <2>1. CASE i <= Len(r)
    BY <1>1, <1>2, <1>3, <1>4, <1>5, <2>1
  <2>2. CASE i = Len(r) + 1
    BY <1>1, <1>2, <1>3, <1>4, <1>5, <2>2
  <2>3. CASE i > Len(r) + 1
    <3>1. (a \o Tail(q))[i] = Tail(q)[i - (Len(r) + 1)]
      BY <1>1, <1>2, <1>3, <1>4, <1>5, <2>3
    <3>2. i - (Len(r) + 1) \in 1..Len(Tail(q))
      BY <1>1, <1>2, <2>0, <2>3
    <3>3. Tail(q)[i - (Len(r) + 1)] = q[(i - (Len(r) + 1)) + 1]
      BY <1>1, <3>2
    <3>4. (i - (Len(r) + 1)) + 1 = i - Len(r)
      BY <1>2, <2>0
    <3>5. (r \o q)[i] = q[i - Len(r)]
      BY <1>2, <1>5, <2>0, <2>3
    <3>6. QED
      BY <3>1, <3>3, <3>4, <3>5
  <2>4. i <= Len(r) \/ i = Len(r) + 1 \/ i > Len(r) + 1
    BY <1>2, <2>0
  <2>5. QED
    BY <2>1, <2>2, <2>3, <2>4
<1>8. a \o Tail(q) = r \o q
  BY <1>4, <1>5, <1>6, <1>7, SeqEqual
<1>9. QED
  BY <1>8 DEF a

\* What a step may do to the queue: nothing, one push or one pop, and the latter
\* two only while the box is there.
LEMMA QueueStep ==
  ASSUME IInv, [Next]_vars
  PROVE  \/ UNCHANGED <<queue, accepted, received>>
         \/ /\ \E e \in Ends : pc[e] = "enqueue" /\ ~Full /\ Push(e)
            /\ ~freed /\ UNCHANGED <<shape, freed, dropped, elemDrop, received>>
         \/ Pop /\ ~freed /\ UNCHANGED <<shape, freed, dropped, elemDrop, accepted>>
<1> USE DEF At, counters, inner, endVars, history
<1> DEFINE Goal ==
         \/ UNCHANGED <<queue, accepted, received>>
         \/ /\ \E e \in Ends : pc[e] = "enqueue" /\ ~Full /\ Push(e)
            /\ ~freed /\ UNCHANGED <<shape, freed, dropped, elemDrop, received>>
         \/ Pop /\ ~freed /\ UNCHANGED <<shape, freed, dropped, elemDrop, accepted>>
<1>0. BoxLives
  BY DEF IInv
<1>1. ASSUME NEW e \in Ends, Enqueue(e) PROVE Goal
  <2>1. ~freed
    BY <1>0, <1>1 DEF BoxLives, LiveEnds, Enqueue
  <2>2. QED
    BY <1>1, <2>1 DEF Enqueue
<1>2. ASSUME NEW c \in Consumers, Recv(c) \/ TryRecv(c) PROVE Goal
  BY <1>0, <1>2 DEF BoxLives, Recv, TryRecv
<1>3. ASSUME NEW e \in Ends,
             \/ CloneSenders(e) \/ DropSender(e) \/ CloneTotal(e) \/ SetClosed(e)
             \/ CloseNotifyAll(e) \/ ReleaseSender(e) \/ CheckReceiver(e) \/ NotifyOne(e)
             \/ \E kind \in {"send", "try_send"} : BeginSend(e, kind)
      PROVE  Goal
  BY <1>3 DEF CloneSenders, DropSender, CloneTotal, SetClosed, CloseNotifyAll,
              ReleaseSender, CheckReceiver, NotifyOne, BeginSend
<1>4. ASSUME NEW c \in Consumers, SpuriousWake(c) PROVE Goal
  BY <1>4 DEF SpuriousWake
<1>5. ASSUME DropReceiver \/ Finished \/ UNCHANGED vars PROVE Goal
  BY <1>5 DEF DropReceiver, Finished, vars
<1>6. QED
  BY <1>1, <1>2, <1>3, <1>4, <1>5 DEF Next, SenderStep

\* elem_drop is set before the first push and stays set, so the destructor that
\* runs with the last release_total drops every payload left behind.
LEMMA DropStep == IInv /\ [Next]_vars => DropKnown'
<1> SUFFICES ASSUME IInv, [Next]_vars PROVE DropKnown'
  OBVIOUS
<1> USE DEF At, counters, inner, endVars, history
<1>0. TypeOK /\ DropKnown
  BY DEF IInv
<1>1. elemDrop => elemDrop'
  BY DEF Next, SenderStep, CloneSenders, DropSender, CloneTotal, SetClosed,
         CloseNotifyAll, ReleaseSender, CheckReceiver, NotifyOne, BeginSend, Enqueue,
         Recv, SpuriousWake, TryRecv, DropReceiver, Finished, vars
<1>2. \A e \in Ends : pc'[e] \in InSend => elemDrop' /\ val'[e] \in Payloads
  <2>1. ASSUME NEW e \in Ends, NEW kind \in {"send", "try_send"}, BeginSend(e, kind)
        PROVE  \A f \in Ends : pc'[f] \in InSend => elemDrop' /\ val'[f] \in Payloads
    <3>1. calls + 1 \in Payloads
      BY <1>0, <2>1 DEF BeginSend, TypeOK, Payloads
    <3>2. \A f \in Ends : f # e => pc'[f] = pc[f] /\ val'[f] = val[f]
      BY <1>0, <2>1 DEF BeginSend, Goto, TypeOK
    <3>3. val'[e] = calls + 1 /\ elemDrop'
      BY <1>0, <2>1 DEF BeginSend, TypeOK
    <3>4. QED
      BY <1>0, <3>1, <3>2, <3>3 DEF DropKnown
  <2>2. ASSUME UNCHANGED val,
               \A f \in Ends : pc'[f] \in InSend => pc[f] \in InSend
        PROVE  \A f \in Ends : pc'[f] \in InSend => elemDrop' /\ val'[f] \in Payloads
    BY <1>0, <1>1, <2>2 DEF DropKnown
  <2>3. ASSUME NEW e \in Ends, CloneTotal(e)
        PROVE  UNCHANGED val /\ \A f \in Ends : pc'[f] \in InSend => pc[f] \in InSend
    <3>1. PICK g \in shape.ends : pc' = [pc EXCEPT ![e] = "idle", ![g] = "idle"]
      BY <2>3 DEF CloneTotal
    <3>2. QED
      BY <1>0, <2>3, <3>1 DEF CloneTotal, TypeOK, InSend
  <2>4. ASSUME NEW e \in Ends,
               \/ CloneSenders(e) \/ DropSender(e) \/ SetClosed(e) \/ CloseNotifyAll(e)
               \/ ReleaseSender(e) \/ CheckReceiver(e) \/ Enqueue(e) \/ NotifyOne(e)
        PROVE  UNCHANGED val /\ \A f \in Ends : pc'[f] \in InSend => pc[f] \in InSend
    BY <1>0, <2>4 DEF CloneSenders, DropSender, SetClosed, CloseNotifyAll, ReleaseSender,
                      CheckReceiver, Enqueue, Push, NotifyOne, Goto, TypeOK, InSend
  <2>5. ASSUME \/ \E c \in Consumers : Recv(c) \/ SpuriousWake(c) \/ TryRecv(c)
               \/ DropReceiver \/ Finished \/ UNCHANGED vars
        PROVE  UNCHANGED <<pc, val>>
    BY <2>5 DEF Recv, SpuriousWake, TryRecv, DropReceiver, Finished, vars
  <2>6. QED
    BY <2>1, <2>2, <2>3, <2>4, <2>5 DEF Next, SenderStep
<1>3. queue' # <<>> => elemDrop'
  <2>1. CASE UNCHANGED queue
    BY <1>0, <1>1, <2>1 DEF DropKnown
  <2>2. CASE \E e \in Ends : pc[e] = "enqueue" /\ Push(e)
    BY <1>0, <1>1, <2>2 DEF DropKnown, InSend
  <2>3. CASE Pop
    BY <1>0, <1>1, <2>3 DEF DropKnown, Pop
  <2>4. QED
    BY <2>1, <2>2, <2>3, QueueStep
<1>4. ~freed' => dropped' = <<>>
  BY <1>0, TotalStep DEF DropKnown, ReleaseTotal
<1>5. QED
  BY <1>2, <1>3, <1>4 DEF DropKnown

\* A push adds to both sides, a pop moves the front payload from the queue to
\* the receiver, and the destructor takes over exactly what the queue held.
LEMMA PayloadStep == IInv /\ [Next]_vars => PayloadConservation'
<1> SUFFICES ASSUME IInv, [Next]_vars PROVE PayloadConservation'
  OBVIOUS
<1>0. TypeOK /\ DropKnown /\ PayloadConservation /\ BoxLives
  BY DEF IInv
<1>1. queue \in Seq(Payloads) /\ received \in Seq(Payloads) /\ freed \in BOOLEAN
  BY <1>0 DEF TypeOK
<1>2. CASE UNCHANGED <<queue, accepted, received>>
  <2>1. CASE UNCHANGED <<freed, dropped>>
    BY <1>0, <1>2, <2>1 DEF PayloadConservation
  <2>2. CASE total >= 1 /\ ReleaseTotal
    <3>1. ~freed /\ dropped = <<>>
      <4>1. FirstEnd \in Ends
        OBVIOUS
      <4>2. total = 0 <=> LiveEnds = {} /\ ~rx
        BY <4>1, Positive DEF IInv
      <4>3. total \in Nat
        BY <1>0 DEF TypeOK
      <4>4. ~freed
        BY <1>0, <2>2, <4>2, <4>3 DEF BoxLives
      <4>5. QED
        BY <1>0, <4>4 DEF DropKnown
    <3>2. accepted = received \o queue
      BY <1>0, <3>1 DEF PayloadConservation
    <3>3. CASE total = 1
      <4>1. freed'
        BY <2>2, <3>3 DEF ReleaseTotal
      <4>2. dropped' = queue
        <5>1. <<>> \o queue = queue
          BY <1>1, ConcatEmptySeq
        <5>2. QED
          BY <1>0, <2>2, <3>1, <3>3, <5>1 DEF ReleaseTotal, DropKnown
      <4>3. QED
        BY <1>2, <3>2, <4>1, <4>2 DEF PayloadConservation
    <3>4. CASE total # 1
      BY <1>2, <2>2, <3>1, <3>2, <3>4 DEF ReleaseTotal, PayloadConservation
    <3>5. QED
      BY <3>3, <3>4
  <2>3. QED
    BY <2>1, <2>2, TotalStep
<1>3. ASSUME NEW e \in Ends, pc[e] = "enqueue", Push(e), ~freed,
             UNCHANGED <<freed, received>>
      PROVE  PayloadConservation'
  <2>1. accepted = received \o queue /\ val[e] \in Payloads
    BY <1>0, <1>3 DEF PayloadConservation, DropKnown, InSend
  <2> DEFINE v == <<val[e]>>
  <2>2. /\ v \in Seq(Payloads)
        /\ Append(queue, val[e]) = queue \o v
    BY <1>1, <2>1, AppendIsConcat
  <2>3. Append(accepted, val[e]) = accepted \o v
    BY <1>0, <2>1, AppendIsConcat DEF TypeOK
  <2> HIDE DEF v
  <2>4. (received \o queue) \o v = received \o (queue \o v)
    BY <1>1, <2>2, ConcatAssociative
  <2>5. QED
    BY <1>3, <2>1, <2>2, <2>3, <2>4 DEF PayloadConservation, Push
<1>4. ASSUME Pop, ~freed, UNCHANGED <<freed, accepted>> PROVE PayloadConservation'
  BY <1>0, <1>1, <1>4, PopConserves DEF PayloadConservation, Pop
<1>5. QED
  BY <1>2, <1>3, <1>4, QueueStep

\* The capacity is looked at inside the lock that covers the push.
LEMMA CapacityStep == IInv /\ [Next]_vars => WithinCapacity'
<1> SUFFICES ASSUME IInv, [Next]_vars PROVE WithinCapacity'
  OBVIOUS
<1>0. TypeOK /\ WithinCapacity /\ DropKnown
  BY DEF IInv
<1>1. queue \in Seq(Payloads) /\ Len(queue) \in Nat /\ shape.capacity \in Nat
  BY <1>0, LenProperties DEF TypeOK
<1>2. UNCHANGED shape
  BY DEF Next, SenderStep, CloneSenders, DropSender, CloneTotal, SetClosed,
         CloseNotifyAll, ReleaseSender, CheckReceiver, NotifyOne, BeginSend, Enqueue,
         Recv, SpuriousWake, TryRecv, DropReceiver, Finished, vars, inner
<1>3. CASE UNCHANGED queue
  BY <1>0, <1>2, <1>3 DEF WithinCapacity
<1>4. ASSUME NEW e \in Ends, pc[e] = "enqueue", ~Full, Push(e) PROVE WithinCapacity'
  <2>1. Len(queue') = Len(queue) + 1
    BY <1>0, <1>1, <1>4, AppendProperties DEF Push, DropKnown, InSend
  <2>2. QED
    BY <1>1, <1>2, <1>4, <2>1 DEF WithinCapacity, Full
<1>5. CASE Pop
  <2>1. Len(queue') = Len(queue) - 1
    BY <1>1, <1>5, HeadTailProperties DEF Pop
  <2>2. QED
    BY <1>0, <1>1, <1>2, <2>1 DEF WithinCapacity
<1>6. QED
  BY <1>3, <1>4, <1>5, QueueStep

-----------------------------------------------------------------------------
\* No step strands a parked receiver: a push brings its notify_one along, a
\* notify_one turns into a woken receiver, and a receiver parks only on an empty
\* queue of an open channel.
LEMMA WakeupStep == IInv /\ [Next]_vars => NoLostWakeup'
<1> SUFFICES ASSUME IInv, [Next]_vars PROVE NoLostWakeup'
  OBVIOUS
<1> USE DEF At, counters, inner, endVars, history
<1> DEFINE N == Cardinality(Notifying)
           W == Cardinality(Woken)
           Closing == \E e \in Ends : pc[e] = "closing"
<1>0. TypeOK /\ NoLostWakeup /\ DropKnown
  BY DEF IInv
<1>1. N \in Nat /\ W \in Nat
  BY Finite, Count
<1>2. queue \in Seq(Payloads) /\ Len(queue) \in Nat
  BY <1>0, LenProperties DEF TypeOK
<1>w. ASSUME NEW c \in Consumers, rpc[c] # "woken", rpc' = [rpc EXCEPT ![c] = "woken"]
      PROVE  Parked' \subseteq Parked /\ Cardinality(Woken') = W + 1
  <2>1. Parked' \subseteq Parked
    BY <1>0, <1>w DEF Parked, TypeOK
  <2>2. c \notin Woken /\ Woken' = Woken \union {c}
    BY <1>0, <1>w DEF Woken, TypeOK
  <2>3. QED
    BY <2>1, <2>2, Finite, Count
<1>q. ASSUME UNCHANGED <<rpc, queue, closed>>, Notifying' = Notifying, Closing => Closing'
      PROVE  NoLostWakeup'
  <2>1. Parked' = Parked /\ Woken' = Woken
    BY <1>q DEF Parked, Woken
  <2>2. QED
    BY <1>0, <1>q, <2>1 DEF NoLostWakeup
<1>3. ASSUME NEW e \in Ends,
             \/ CloneSenders(e) \/ DropSender(e) \/ CheckReceiver(e) \/ ReleaseSender(e)
             \/ \E kind \in {"send", "try_send"} : BeginSend(e, kind)
      PROVE  NoLostWakeup'
  <2>1. UNCHANGED <<rpc, queue, closed>>
    BY <1>3 DEF CloneSenders, DropSender, CheckReceiver, ReleaseSender, BeginSend
  <2>2. /\ pc[e] \notin {"notify", "closing"} /\ pc'[e] # "notify"
        /\ \A f \in Ends : f # e => pc'[f] = pc[f]
    BY <1>0, <1>3 DEF CloneSenders, DropSender, CheckReceiver, ReleaseSender, BeginSend,
                      Goto, TypeOK
  <2>3. Notifying' = Notifying
    BY <2>2 DEF Notifying
  <2>4. Closing => Closing'
    BY <2>2
  <2>5. QED
    BY <1>q, <2>1, <2>3, <2>4
<1>4. ASSUME NEW e \in Ends, CloneTotal(e) PROVE NoLostWakeup'
  <2>1. PICK f \in shape.ends : pc[f] = "absent"
                                /\ pc' = [pc EXCEPT ![e] = "idle", ![f] = "idle"]
    BY <1>4 DEF CloneTotal
  <2>2. f \in Ends /\ pc[e] = "clone"
    BY <1>0, <1>4 DEF TypeOK, CloneTotal
  <2>3. Notifying' = Notifying
    BY <1>0, <2>1, <2>2, Cloned
  <2>4. Closing => Closing'
    BY <1>0, <2>1, <2>2 DEF TypeOK
  <2>5. QED
    BY <1>4, <1>q, <2>3, <2>4 DEF CloneTotal
<1>5. ASSUME NEW e \in Ends, SetClosed(e) PROVE NoLostWakeup'
  <2>1. pc'[e] = "closing"
    BY <1>0, <1>5 DEF SetClosed, Goto, TypeOK
  <2>2. Notifying' = Notifying \ {e} /\ e \notin Notifying
    BY <1>0, <1>5, Moved DEF SetClosed, Notifying
  <2>3. Notifying' = Notifying
    BY <2>2
  <2>4. Parked' = Parked /\ Woken' = Woken /\ queue' = queue
    BY <1>5 DEF Parked, Woken, SetClosed
  <2>5. QED
    BY <1>0, <2>1, <2>3, <2>4 DEF NoLostWakeup
<1>6. ASSUME NEW e \in Ends, CloseNotifyAll(e) PROVE NoLostWakeup'
  <2>1. Parked' = {}
    BY <1>0, <1>6 DEF CloseNotifyAll, Parked, TypeOK
  <2>2. QED
    BY <2>1 DEF NoLostWakeup
<1>7. ASSUME NEW e \in Ends, Enqueue(e) PROVE NoLostWakeup'
  <2>1. Parked' = Parked /\ Woken' = Woken /\ UNCHANGED <<rpc, closed>>
    BY <1>7 DEF Parked, Woken, Enqueue
  <2>2. Closing => Closing'
    BY <1>0, <1>7 DEF Enqueue, Push, Goto, TypeOK
  <2>3. CASE ~Full /\ Push(e)
    <3>1. Len(queue') = Len(queue) + 1
      BY <1>0, <1>2, <1>7, <2>3, AppendProperties DEF Enqueue, Push, DropKnown, InSend
    <3>2. Notifying' = Notifying \union {e} /\ e \notin Notifying
      BY <1>0, <1>7, <2>3, Moved DEF Enqueue, Push, Notifying
    <3>3. Cardinality(Notifying') = N + 1
      BY <3>2, Finite, Count
    <3>4. QED
      BY <1>0, <1>1, <1>2, <2>1, <2>2, <3>1, <3>3 DEF NoLostWakeup
  <2>4. CASE /\ Goto(e, IF op[e] = "send" THEN "panicked" ELSE "idle")
             /\ UNCHANGED <<queue, accepted>>
    <3>1. Notifying' = Notifying \ {e} /\ e \notin Notifying
      BY <1>0, <1>7, <2>4, Moved DEF Enqueue, Notifying
    <3>2. Notifying' = Notifying
      BY <3>1
    <3>3. QED
      BY <1>q, <2>1, <2>2, <2>4, <3>2
  <2>5. QED
    BY <1>7, <2>3, <2>4 DEF Enqueue
<1>8. ASSUME NEW e \in Ends, NotifyOne(e) PROVE NoLostWakeup'
  <2>1. Notifying' = Notifying \ {e} /\ e \in Notifying
    BY <1>0, <1>8, Moved DEF NotifyOne, Notifying
  <2>2. Cardinality(Notifying') = N - 1 /\ N >= 1
    BY <2>1, Finite, Count
  <2>3. (Closing => Closing') /\ UNCHANGED <<queue, closed>>
    BY <1>0, <1>8 DEF NotifyOne, Goto, TypeOK
  <2>4. ASSUME NEW c \in Consumers, rpc[c] = "parked", rpc' = [rpc EXCEPT ![c] = "woken"]
        PROVE  NoLostWakeup'
    <3>1. Parked' \subseteq Parked /\ Cardinality(Woken') = W + 1
      BY <1>w, <2>4
    <3>2. QED
      BY <1>0, <1>1, <1>2, <2>2, <2>3, <3>1 DEF NoLostWakeup
  <2>5. ASSUME \A c \in Consumers : rpc[c] # "parked", UNCHANGED rpc
        PROVE  NoLostWakeup'
    BY <2>5 DEF NoLostWakeup, Parked
  <2>6. QED
    BY <1>8, <2>4, <2>5 DEF NotifyOne
<1>9. ASSUME NEW c \in Consumers, SpuriousWake(c) PROVE NoLostWakeup'
  <2>1. Parked' \subseteq Parked /\ Cardinality(Woken') = W + 1
    BY <1>w, <1>9 DEF SpuriousWake
  <2>2. Notifying' = Notifying /\ (Closing => Closing') /\ UNCHANGED <<queue, closed>>
    BY <1>9 DEF SpuriousWake, Notifying
  <2>3. QED
    BY <1>0, <1>1, <1>2, <2>1, <2>2 DEF NoLostWakeup
<1>10. ASSUME Pop PROVE Len(queue') = Len(queue) - 1 /\ Len(queue) >= 1
  BY <1>2, <1>10, HeadTailProperties, EmptySeq DEF Pop
<1>11. ASSUME NEW c \in Consumers, Recv(c) PROVE NoLostWakeup'
  <2>1. Notifying' = Notifying /\ (Closing => Closing') /\ UNCHANGED closed
    BY <1>11 DEF Recv, Notifying
  <2>2. CASE Pop /\ rpc' = [rpc EXCEPT ![c] = "idle"]
    <3>1. Parked' = Parked
      BY <1>0, <1>11, <2>2 DEF Recv, Parked, TypeOK
    <3>2. Woken' = Woken \ {c}
      BY <1>0, <2>2 DEF Woken, TypeOK
    <3>3. Cardinality(Woken') \in {W, W - 1}
      <4>1. CASE c \in Woken
        BY <3>2, <4>1, Finite, Count
      <4>2. CASE c \notin Woken
        <5>1. Woken' = Woken
          BY <3>2, <4>2
        <5>2. QED
          BY <5>1
      <4>3. QED
        BY <4>1, <4>2
    <3>4. QED
      BY <1>0, <1>1, <1>2, <1>10, <2>1, <2>2, <3>1, <3>3 DEF NoLostWakeup
  <2>3. CASE /\ queue = <<>>
             /\ rpc' = [rpc EXCEPT ![c] = IF closed THEN "idle" ELSE "parked"]
             /\ UNCHANGED <<queue, received>>
    <3>1. closed => Parked' = Parked
      BY <1>0, <1>11, <2>3 DEF Recv, Parked, TypeOK
    <3>2. Woken' \in SUBSET Consumers
      BY DEF Woken
    <3>3. Cardinality(Woken') \in Nat
      BY <3>2, FS_Subset, FS_CardinalityType
    <3>4. Len(queue') = 0
      BY <2>3, EmptySeq
    <3>5. QED
      BY <1>0, <1>1, <2>1, <3>1, <3>3, <3>4 DEF NoLostWakeup
  <2>4. QED
    BY <1>11, <2>2, <2>3 DEF Recv
<1>12. ASSUME NEW c \in Consumers, TryRecv(c) PROVE NoLostWakeup'
  <2>1. /\ Notifying' = Notifying /\ (Closing => Closing') /\ UNCHANGED closed
        /\ Parked' = Parked /\ Woken' = Woken
    BY <1>12 DEF TryRecv, Notifying, Parked, Woken
  <2>2. Len(queue') = Len(queue) - 1
    BY <1>10, <1>12 DEF TryRecv
  <2>3. QED
    BY <1>0, <1>1, <1>2, <2>1, <2>2 DEF NoLostWakeup
<1>13. ASSUME DropReceiver \/ Finished \/ UNCHANGED vars PROVE NoLostWakeup'
  <2>1. UNCHANGED <<pc, rpc, queue, closed>>
    BY <1>13 DEF DropReceiver, Finished, vars
  <2>2. Notifying' = Notifying
    BY <2>1 DEF Notifying
  <2>3. QED
    BY <1>q, <2>1, <2>2
<1>14. QED
  BY <1>3, <1>4, <1>5, <1>6, <1>7, <1>8, <1>9, <1>11, <1>12, <1>13 DEF Next, SenderStep

-----------------------------------------------------------------------------
\* Channel.new() makes one Sender and one Receiver, counted as such.
LEMMA InitIInv == Init => IInv
<1> SUFFICES ASSUME Init PROVE IInv
  OBVIOUS
<1>1. TypeOK
  <2>1. <<>> \in Seq(Payloads)
    BY EmptySeq
  <2>2. /\ pc \in [Ends -> PCs] /\ val \in [Ends -> 0..MaxSends]
        /\ seenTotal \in [Ends -> Nat]
    BY DEF Init, PCs, Busy
  <2>3. QED
    BY <2>1, <2>2 DEF Init, TypeOK
<1>2. LiveEnds = {FirstEnd} /\ CountedEnds = {FirstEnd} /\ Cloning = {}
  BY DEF Init, LiveEnds, CountedEnds, Cloning
<1>3. TotalExact /\ SendersExact
  <2>1. Cardinality({FirstEnd}) = 1
    BY FS_Singleton
  <2>2. Cardinality({}) = 0
    BY FS_EmptySet
  <2>3. QED
    BY <1>2, <2>1, <2>2 DEF Init, TotalExact, SendersExact
<1>4. BoxLives /\ LastSender
  BY <1>2 DEF Init, BoxLives, LastSender
<1>5. DropKnown
  BY DEF Init, DropKnown, InSend
<1>6. PayloadConservation
  <2>1. <<>> \in Seq(Payloads)
    BY EmptySeq
  <2>2. <<>> \o <<>> = <<>>
    BY <2>1, ConcatEmptySeq
  <2>3. QED
    BY <2>2 DEF Init, PayloadConservation
<1>7. WithinCapacity
  <2>1. shape.capacity \in Nat /\ Len(queue) = 0
    BY EmptySeq DEF Init
  <2>2. QED
    BY <2>1 DEF WithinCapacity
<1>8. NoLostWakeup
  BY DEF Init, NoLostWakeup, Parked
<1>9. QED
  BY <1>1, <1>3, <1>4, <1>5, <1>6, <1>7, <1>8 DEF IInv

\* The inductive invariant holds in every reachable state.
THEOREM Invariance == Spec => []IInv
<1>1. IInv /\ [Next]_vars => IInv'
  <2> SUFFICES ASSUME IInv, [Next]_vars PROVE IInv'
    OBVIOUS
  <2>1. QED
    BY TypeStep, CountStep, BoxStep, LastSenderStep, DropStep, PayloadStep,
       CapacityStep, WakeupStep DEF IInv
<1>2. QED
  BY InitIInv, <1>1, PTL DEF Spec

\* Neither counter underflows, and every queued or delivered payload is one that
\* a send call carried.
THEOREM TypeCorrect == Spec => []TypeOK
  BY Invariance, PTL DEF IInv

\* The box is freed exactly when the last end has released it, whatever the
\* order in which tasks clone, send and drop: no use after free, no leak.
THEOREM BoxFreedWithLastEnd == Spec => []FreedIffNoEnds
<1>1. IInv => FreedIffNoEnds
  BY DEF IInv, BoxLives, FreedIffNoEnds
<1>2. QED
  BY <1>1, Invariance, PTL

\* The "closed and empty" answer of recv is never premature.
THEOREM ClosedIsFinal == Spec => []ClosedMeansNoSender
<1>1. IInv => ClosedMeansNoSender
  <2>1. FirstEnd \in Ends
    OBVIOUS
  <2>2. QED
    BY <2>1, Positive DEF IInv, LastSender, ClosedMeansNoSender
<1>2. QED
  BY <1>1, Invariance, PTL

\* Accepted payloads are delivered in order and exactly once, or dropped by the
\* destructor.
THEOREM PayloadsConserved == Spec => []PayloadConservation
  BY Invariance, PTL DEF IInv

\* A bounded channel never holds more than its capacity.
THEOREM CapacityHolds == Spec => []WithinCapacity
  BY Invariance, PTL DEF IInv

\* While a receiver is parked, every queued payload has a wake-up under way and
\* a closed channel its notify_all.
THEOREM NoReceiverStranded == Spec => []NoLostWakeup
  BY Invariance, PTL DEF IInv
=============================================================================
