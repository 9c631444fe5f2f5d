---------------------------- MODULE EventLoopProofs ---------------------------
(***************************************************************************)
(* Proofs about EventLoop, for any tasks, descriptors, shards, routes and  *)
(* programs.                                                               *)
(***************************************************************************)
EXTENDS EventLoop, WellFoundedInduction, NaturalsInduction, SequenceTheorems, TLAPS

Busy == {"invoke", "destroy", "resume", "shim"}

\* The dispatcher of s drives a coroutine that has not been resumed yet.
Holds(s, t) == pc[s] \in {"invoke", "destroy", "resume"} /\ current[s][1] = t

\* An event is pending only on an armed descriptor, the heap holds timers, and what
\* a dispatcher thread works on is a token.
Wired ==
  /\ \A tok \in timers : tok[1] \in Sleepers
  /\ \A f \in edge : interest[f] # None
  /\ \A s \in Shards : pc[s] \in Busy => current[s] \in Tokens
  /\ \A s \in Shards : pc[s] \in {"destroy", "resume", "shim"} => current[s][1] \in Coros

\* Between two batches a dispatcher thread holds no token.
Idle == \A s \in Shards : pc[s] \in {"off", "top", "poll", "collect"} => batch[s] = {}

\* No dispatcher thread runs, and nothing is registered or requested, before the
\* dispatcher is started.
StartedFirst == (byToken # {} \/ sweep # {} \/ \E s \in Shards : pc[s] # "off") => started

\* A coroutine that can still run has its frame and its handle, and has not
\* signalled; one that is registered or claimed is parked, on that very token,
\* and only one side has it.
Live ==
  /\ \A t \in Coros : at[t] \in {"new", "body", "parked"} => t \notin signalled
  /\ \A t \in Coros : at[t] \in {"body", "parked"} => t \in frames \intersect handles
  /\ \A tok \in byToken : tok[1] \in Coros => at[tok[1]] = "parked" /\ tok = Last(tok[1])
  /\ \A s \in Shards, t \in Coros : Holds(s, t) =>
       /\ at[t] = "parked" /\ current[s] = Last(t) /\ Last(t) \notin byToken
       /\ \A r \in Shards : Holds(r, t) => r = s

\* SweepWillFind from the moment the registering thread has made its request.
SweepCovers ==
  \A tok \in byToken :
    /\ tok[1] \in cancel /\ canceller[tok[1]] \in {"request", "done"}
    /\ ramp[tok] \in {"fanout", "store", "done"}
    => \/ ShardOfToken(tok) \in sweep \/ pc[ShardOfToken(tok)] = "collect"
       \/ tok \in batch[ShardOfToken(tok)]

\* A token is armed only after its task has parked with it, on its descriptor.
Armed ==
  /\ \A tok \in FdTokens : ramp[tok] # "none" => tok[2] <= park[tok[1]]
  /\ \A f \in Fds : interest[f] # None => ramp[interest[f]] # "none" /\ FdOf(interest[f]) = f

IInv ==
  /\ TypeOK
  /\ Wired
  /\ Idle
  /\ StartedFirst
  /\ Live
  /\ SweepCovers
  /\ RequestedShardAwake
  /\ NoTimerOverslept
  /\ Armed
  /\ NoLostReadiness

\* A set of numbers has a least one: what EnterPoll finds in the heap.
LEMMA LeastExists ==
  ASSUME NEW S, S \subseteq Nat, S # {}
  PROVE  \E d \in S : \A e \in S : d <= e
<1> DEFINE R == OpToRel(<, Nat)
<1>1. IsWellFoundedOn(R, Nat)
  BY NatLessThanWellFounded
<1> HIDE DEF R
<1>2. PICK x \in S : \A y \in S : ~(<<y, x>> \in R)
  BY <1>1, WFMin
<1>3. ASSUME NEW y \in S PROVE x <= y
  <2>1. x \in Nat /\ y \in Nat
    OBVIOUS
  <2>2. ~(y < x)
    BY <1>2, <2>1 DEF R, OpToRel
  <2>3. QED
    BY <2>1, <2>2
<1>4. QED
  BY <1>3

USE KindAssumption, BoundAssumption, NoneAssumption
USE DEF loop, disp, tasks, owned, Step

-----------------------------------------------------------------------------
(***************************************************************************)
(* Tokens.                                                                 *)
(***************************************************************************)

\* A token names its task, its descriptor or timer, and its shard.
LEMMA FdTokenFacts ==
  ASSUME NEW tok \in FdTokens
  PROVE  /\ tok \in Tokens /\ tok[1] \in Parkers /\ tok[1] \notin Sleepers
         /\ tok[2] \in 1..Len(Route[tok[1]]) /\ Len(Route[tok[1]]) \in Nat
         /\ tok = <<tok[1], tok[2]>>
         /\ FdOf(tok) \in Fds /\ ShardOfToken(tok) = ShardOf[FdOf(tok)]
         /\ ShardOfToken(tok) \in Shards
<1>1. PICK t \in Parkers : tok \in {<<t, n>> : n \in DOMAIN Route[t]}
  BY DEF FdTokens
<1>2. PICK n \in DOMAIN Route[t] : tok = <<t, n>>
  BY <1>1
<1>3. Route[t] \in Seq(Fds)
  BY RouteAssumption DEF Parkers
<1>4. DOMAIN Route[t] = 1..Len(Route[t]) /\ Len(Route[t]) \in Nat /\ Route[t][n] \in Fds
  BY <1>2, <1>3, LenProperties
<1>5. tok[1] = t /\ tok[2] = n
  BY <1>2
<1>6. t \notin Sleepers
  BY DEF Parkers
<1>7. FdOf(tok) \in Fds /\ ShardOfToken(tok) = ShardOf[FdOf(tok)]
  BY <1>4, <1>5, <1>6 DEF FdOf, ShardOfToken
<1>8. QED
  BY <1>2, <1>4, <1>5, <1>6, <1>7, ShardAssumption DEF Tokens

LEMMA TokenFacts ==
  ASSUME NEW tok \in Tokens
  PROVE  /\ tok[1] \in Parkers \union Sleepers /\ ShardOfToken(tok) \in Shards
         /\ tok[1] \in Parkers => tok \in FdTokens
         /\ tok[1] \in Sleepers => tok = <<tok[1], 1>> /\ tok \notin FdTokens
                                   /\ ShardOfToken(tok) = ShardOf[tok[1]]
<1>1. CASE tok \in FdTokens
  BY <1>1, FdTokenFacts
<1>2. CASE \E z \in Sleepers : tok = <<z, 1>>
  BY <1>2, FdTokenFacts, ShardAssumption DEF ShardOfToken, Parkers
<1>3. QED
  BY <1>1, <1>2 DEF Tokens

\* The next park of a task has a token.
LEMMA NextToken ==
  ASSUME NEW t \in Parkers, NEW n \in Nat, n < Len(Route[t])
  PROVE  <<t, n + 1>> \in FdTokens
<1>1. Route[t] \in Seq(Fds)
  BY RouteAssumption DEF Parkers
<1>2. DOMAIN Route[t] = 1..Len(Route[t]) /\ Len(Route[t]) \in Nat
  BY <1>1, LenProperties
<1>3. n + 1 \in DOMAIN Route[t]
  BY <1>2
<1>4. QED
  BY <1>3 DEF FdTokens

-----------------------------------------------------------------------------
(***************************************************************************)
(* Types.                                                                  *)
(***************************************************************************)
LEMMA TypeStep ==
  ASSUME TypeOK, Wired, Next
  PROVE  TypeOK'
<1> USE DEF TypeOK
<1>1. ASSUME StartDispatcher PROVE TypeOK'
  BY <1>1 DEF StartDispatcher, Pcs
<1>2. ASSUME NEW t \in Parkers, Begin(t) PROVE TypeOK'
  BY <1>2 DEF Begin, Places
<1>3. ASSUME NEW t \in Parkers, Publish(t) PROVE TypeOK'
  <2>1. <<t, park[t] + 1>> \in Tokens /\ park[t] + 1 \in Nat
    BY <1>3, NextToken, FdTokenFacts DEF Publish
  <2>2. QED
    BY <1>3, <2>1 DEF Publish, Places, RampSteps
<1>4. ASSUME NEW t \in Parkers, Complete(t) PROVE TypeOK'
  BY <1>4 DEF Complete, Close, Places
<1>5. ASSUME NEW tok \in FdTokens, Arm(tok) PROVE TypeOK'
  BY <1>5, FdTokenFacts DEF Arm, RampSteps
<1>6. ASSUME NEW tok \in FdTokens, RecheckCancel(tok) \/ StoreToken(tok) PROVE TypeOK'
  BY <1>6 DEF RecheckCancel, StoreToken, RampSteps
<1>7. ASSUME NEW tok \in FdTokens, RampRequest(tok) \/ RampFanOut(tok) PROVE TypeOK'
  BY <1>7 DEF RampRequest, RampFanOut, RequestSweep, FanOut, RampSteps
<1>8. ASSUME NEW tok \in Tokens, WakeShard(tok) PROVE TypeOK'
  BY <1>8, TokenFacts DEF WakeShard, RampSteps
<1>9. ASSUME NEW z \in Sleepers, NEW d \in 0..MaxTime, Sleep(z, d) PROVE TypeOK'
  <2>1. <<z, 1>> \in Tokens /\ now + d \in 0..MaxTime
    BY <1>9 DEF Tokens, Sleep
  <2>2. QED
    BY <1>9, <2>1 DEF Sleep, Places, RampSteps
<1>10. ASSUME NEW t \in Callers \union Sleepers, SlotWaitReturns(t) PROVE TypeOK'
  BY <1>10 DEF SlotWaitReturns, Deregister, Places
<1>11. ASSUME NEW t \in Coros, SetCancel(t) \/ CancelRequest(t) \/ CancelFanOut(t) \/ FreeHandle(t)
       PROVE  TypeOK'
  BY <1>11 DEF SetCancel, CancelRequest, CancelFanOut, FreeHandle, RequestSweep, FanOut
<1>12. ASSUME NEW s \in Shards, EnterPoll(s) PROVE TypeOK'
  <2> DEFINE ds == {deadline[tok[1]] : tok \in timers \intersect Local(s)}
             d == CHOOSE e \in ds : \A g \in ds : e <= g
  <2>1. ds \subseteq 0..MaxTime /\ ds \subseteq Nat
    BY DEF Wired
  <2>2. ASSUME ds # {} PROVE d \in 0..MaxTime
    <3>1. \E e \in ds : \A g \in ds : e <= g
      BY <2>1, <2>2, LeastExists
    <3>2. QED
      BY <2>1, <3>1
  <2>3. timeout' = Step(timeout, s, IF ds = {} THEN None ELSE d)
    BY <1>12 DEF EnterPoll
  <2> HIDE DEF d, ds
  <2>4. timeout' \in [Shards -> (0..MaxTime) \union {None}]
    BY <2>2, <2>3
  <2>5. QED
    BY <1>12, <2>4 DEF EnterPoll, Goto, Pcs
<1>13. ASSUME NEW s \in Shards, Poll(s) PROVE TypeOK'
  <2>1. \A f \in Reported(s) : interest[f] \in Tokens
    BY FdTokenFacts DEF Reported, Wired
  <2>2. QED
    BY <1>13, <2>1 DEF Poll, Goto, Pcs
<1>14. ASSUME NEW s \in Shards, PollFails(s) \/ Translate(s) \/ FinishBatch(s) \/ Collect(s)
       PROVE  TypeOK'
  <2>1. CASE PollFails(s)
    BY <2>1 DEF PollFails, Goto, Pcs
  <2>2. CASE Translate(s)
    BY <2>2 DEF Translate, Goto, Pcs
  <2>3. CASE FinishBatch(s)
    BY <2>3 DEF FinishBatch, Goto, Pcs
  <2>4. CASE Collect(s)
    BY <2>4 DEF Collect, Goto, Pcs
  <2>5. QED
    BY <1>14, <2>1, <2>2, <2>3, <2>4
<1>15. ASSUME NEW s \in Shards, NEW tok \in Tokens, Claim(s, tok) PROVE TypeOK'
  <2>1. batch' \in [Shards -> SUBSET Tokens] /\ byToken' \subseteq Tokens
    BY <1>15 DEF Claim
  <2>2. current' \in [Shards -> Tokens \union {None}]
    BY <1>15 DEF Claim
  <2>3. pc' \in [Shards -> Pcs]
    <3>1. pc' = [pc EXCEPT ![s] = "invoke"] \/ pc' = pc
      BY <1>15 DEF Claim, Goto
    <3>2. "invoke" \in Pcs
      BY DEF Pcs
    <3>3. QED
      BY <3>1, <3>2
  <2>4. QED
    BY <1>15, <2>1, <2>2, <2>3 DEF Claim
<1>16. ASSUME NEW s \in Shards, InvokeBlocked(s) \/ InvokeCoro(s) PROVE TypeOK'
  <2>1. current[s] \in Tokens
    BY <1>16 DEF InvokeBlocked, InvokeCoro, Wired, Busy
  <2>2. current[s][1] \in Parkers \union Sleepers
    BY <2>1, TokenFacts
  <2>3. CASE InvokeBlocked(s)
    BY <2>2, <2>3 DEF InvokeBlocked, Goto, Pcs
  <2>4. CASE InvokeCoro(s)
    BY <2>4 DEF InvokeCoro, Deregister, Goto, Pcs
  <2>5. QED
    BY <1>16, <2>3, <2>4
<1>17. ASSUME NEW s \in Shards, DestroyEdge(s) PROVE TypeOK'
  <2>1. current[s][1] \in Parkers
    BY <1>17 DEF DestroyEdge, Wired, Parkers
  <2>2. QED
    BY <1>17, <2>1 DEF DestroyEdge, Close, Goto, Pcs, Places
<1>18. ASSUME NEW s \in Shards, ResumeEdge(s) \/ ShimDone(s) PROVE TypeOK'
  <2>1. pc' \in [Shards -> Pcs] /\ at' \in [Parkers \union Sleepers -> Places]
    <3>1. \E l \in {"shim", "claim"} : pc' = [pc EXCEPT ![s] = l]
      BY <1>18 DEF ResumeEdge, ShimDone, Goto
    <3>2. at' = at \/ \E l \in {"body", "ended"} : at' = [at EXCEPT ![current[s][1]] = l]
      BY <1>18 DEF ResumeEdge, ShimDone
    <3>3. "shim" \in Pcs /\ "claim" \in Pcs /\ "body" \in Places /\ "ended" \in Places
      BY DEF Pcs, Places
    <3>4. QED
      BY <3>1, <3>2, <3>3
  <2>2. CASE ResumeEdge(s)
    BY <2>1, <2>2 DEF ResumeEdge
  <2>3. CASE ShimDone(s)
    BY <2>1, <2>3 DEF ShimDone
  <2>4. QED
    BY <1>18, <2>2, <2>3
<1>19. ASSUME NEW f \in Fds, DataArrives(f) PROVE TypeOK'
  BY <1>19 DEF DataArrives
<1>20. ASSUME Tick PROVE TypeOK'
  BY <1>20 DEF Tick
<1> HIDE DEF TypeOK
<1>21. QED
  BY <1>1, <1>2, <1>3, <1>4, <1>5, <1>6, <1>7, <1>8, <1>9, <1>10, <1>11, <1>12, <1>13, <1>14,
     <1>15, <1>16, <1>17, <1>18, <1>19, <1>20
     DEF Next, Body, Registering, Canceller, Dispatcher

-----------------------------------------------------------------------------
(***************************************************************************)
(* The dispatcher threads between two steps.                               *)
(***************************************************************************)
LEMMA WiredStep ==
  ASSUME TypeOK, Wired, Next
  PROVE  Wired'
<1> USE DEF Busy
<1>1. CASE UNCHANGED <<timers, edge, interest, pc, current>>
  BY <1>1 DEF Wired
<1>2. ASSUME NEW t, Begin(t) \/ Publish(t) \/ SetCancel(t) \/ Canceller(t) \/ FreeHandle(t)
      PROVE  UNCHANGED <<timers, edge, interest, pc, current>>
  BY <1>2 DEF Begin, Publish, SetCancel, Canceller, CancelRequest, CancelFanOut, FreeHandle
<1>3. ASSUME NEW tok, RecheckCancel(tok) \/ RampRequest(tok) \/ RampFanOut(tok) \/ StoreToken(tok) \/ WakeShard(tok)
      PROVE  UNCHANGED <<timers, edge, interest, pc, current>>
  BY <1>3 DEF RecheckCancel, RampRequest, RampFanOut, StoreToken, WakeShard
<1>4. ASSUME Tick PROVE UNCHANGED <<timers, edge, interest, pc, current>>
  BY <1>4 DEF Tick
<1>5. ASSUME StartDispatcher PROVE Wired'
  BY <1>5 DEF StartDispatcher, Wired
<1>6. ASSUME NEW t \in Parkers, Complete(t) PROVE Wired'
  BY <1>6 DEF Complete, Close, Wired, TypeOK
<1>7. ASSUME NEW tok \in FdTokens, Arm(tok) PROVE Wired'
  <2>1. FdOf(tok) \in Fds /\ tok # None
    BY FdTokenFacts
  <2>2. \A f \in edge' : interest'[f] # None
    BY <1>7, <2>1 DEF Arm, Wired, TypeOK
  <2>3. QED
    BY <1>7, <2>2 DEF Arm, Wired
<1>8. ASSUME NEW z \in Sleepers, NEW d, Sleep(z, d) PROVE Wired'
  BY <1>8 DEF Sleep, Wired
<1>9. ASSUME NEW t, SlotWaitReturns(t) PROVE Wired'
  BY <1>9 DEF SlotWaitReturns, Deregister, Wired, TypeOK
<1>10. ASSUME NEW s \in Shards, EnterPoll(s) \/ Poll(s) \/ PollFails(s) PROVE Wired'
  BY <1>10 DEF EnterPoll, Poll, PollFails, Goto, Wired, TypeOK
<1>11. ASSUME NEW s \in Shards, Translate(s) \/ FinishBatch(s) \/ Collect(s) PROVE Wired'
  BY <1>11 DEF Translate, FinishBatch, Collect, Goto, Wired, TypeOK
<1>12. ASSUME NEW s \in Shards, NEW tok \in Tokens, Claim(s, tok) PROVE Wired'
  <2>1. UNCHANGED <<timers, edge, interest>>
    BY <1>12 DEF Claim
  <2>2. CASE tok \in byToken
    <3>1. current' = [current EXCEPT ![s] = tok] /\ pc' = [pc EXCEPT ![s] = "invoke"]
      BY <1>12, <2>2 DEF Claim, Goto
    <3>2. QED
      BY <2>1, <3>1 DEF Wired, TypeOK
  <2>3. CASE tok \notin byToken
    <3>1. UNCHANGED <<current, pc>>
      BY <1>12, <2>3 DEF Claim
    <3>2. QED
      BY <1>1, <2>1, <3>1
  <2>4. QED
    BY <2>2, <2>3
<1>13. ASSUME NEW s \in Shards, InvokeBlocked(s) PROVE Wired'
  BY <1>13 DEF InvokeBlocked, Goto, Wired, TypeOK
<1>14. ASSUME NEW s \in Shards, InvokeCoro(s) PROVE Wired'
  BY <1>14 DEF InvokeCoro, Deregister, Goto, Wired, TypeOK
<1>15. ASSUME NEW s \in Shards, DestroyEdge(s) PROVE Wired'
  BY <1>15 DEF DestroyEdge, Close, Goto, Wired, TypeOK
<1>16. ASSUME NEW s \in Shards, ResumeEdge(s) \/ ShimDone(s) PROVE Wired'
  <2>1. UNCHANGED <<timers, edge, interest>>
    BY <1>16 DEF ResumeEdge, ShimDone
  <2>2. CASE ResumeEdge(s)
    BY <2>1, <2>2 DEF ResumeEdge, Goto, Wired, TypeOK
  <2>3. CASE ShimDone(s)
    <3>1. pc' = [pc EXCEPT ![s] = "claim"] /\ current' = [current EXCEPT ![s] = None]
      BY <2>3 DEF ShimDone, Goto
    <3>2. QED
      BY <2>1, <3>1 DEF Wired, TypeOK
  <2>4. QED
    BY <1>16, <2>2, <2>3
<1>17. ASSUME NEW f \in Fds, DataArrives(f) PROVE Wired'
  BY <1>17 DEF DataArrives, Wired
<1>18. QED
  BY <1>1, <1>2, <1>3, <1>4, <1>5, <1>6, <1>7, <1>8, <1>9, <1>10, <1>11, <1>12, <1>13, <1>14,
     <1>15, <1>16, <1>17
     DEF Next, Body, Registering, Dispatcher

LEMMA IdleStep ==
  ASSUME TypeOK, StartedFirst, Idle, Next
  PROVE  Idle'
<1>1. CASE UNCHANGED <<pc, batch>>
  BY <1>1 DEF Idle
<1>2. ASSUME NEW t, Begin(t) \/ Publish(t) \/ Complete(t) \/ SlotWaitReturns(t) \/ SetCancel(t)
                    \/ Canceller(t) \/ FreeHandle(t)
      PROVE  UNCHANGED <<pc, batch>>
  BY <1>2 DEF Begin, Publish, Complete, SlotWaitReturns, SetCancel, Canceller, CancelRequest,
              CancelFanOut, FreeHandle
<1>3. ASSUME NEW tok, Registering(tok) PROVE UNCHANGED <<pc, batch>>
  BY <1>3 DEF Registering, Arm, RecheckCancel, RampRequest, RampFanOut, StoreToken, WakeShard
<1>4. ASSUME NEW f, NEW d, Sleep(f, d) \/ DataArrives(f) \/ Tick PROVE UNCHANGED <<pc, batch>>
  BY <1>4 DEF Sleep, DataArrives, Tick
<1>5. ASSUME StartDispatcher PROVE Idle'
  <2>1. \A s \in Shards : pc[s] = "off"
    BY <1>5 DEF StartDispatcher, StartedFirst
  <2>2. QED
    BY <1>5, <2>1 DEF StartDispatcher, Idle
<1>6. ASSUME NEW s \in Shards, EnterPoll(s) \/ Poll(s) \/ PollFails(s) \/ Translate(s) PROVE Idle'
  BY <1>6 DEF EnterPoll, Poll, PollFails, Translate, Goto, Idle, TypeOK
<1>7. ASSUME NEW s \in Shards, FinishBatch(s) \/ Collect(s) PROVE Idle'
  BY <1>7 DEF FinishBatch, Collect, Goto, Idle, TypeOK
<1>8. ASSUME NEW s \in Shards, NEW tok, Claim(s, tok) PROVE Idle'
  BY <1>8 DEF Claim, Goto, Idle, TypeOK
<1>9. ASSUME NEW s \in Shards, InvokeBlocked(s) \/ InvokeCoro(s) \/ DestroyEdge(s) \/ ResumeEdge(s)
                               \/ ShimDone(s)
      PROVE  Idle'
  BY <1>9 DEF InvokeBlocked, InvokeCoro, DestroyEdge, ResumeEdge, ShimDone, Goto, Idle, TypeOK
<1>10. QED
  BY <1>1, <1>2, <1>3, <1>4, <1>5, <1>6, <1>7, <1>8, <1>9 DEF Next, Body, Dispatcher

LEMMA StartedStep ==
  ASSUME TypeOK, StartedFirst, Next
  PROVE  StartedFirst'
<1>1. started' = started \/ started'
  BY DEF Next, StartDispatcher, Begin, Body, Publish, Complete, Registering, Arm, RecheckCancel,
         RampRequest, RampFanOut, StoreToken, WakeShard, Sleep, SlotWaitReturns, SetCancel,
         Canceller, CancelRequest, CancelFanOut, FreeHandle, Dispatcher, EnterPoll, Poll,
         PollFails, Translate, FinishBatch, Collect, Claim, InvokeBlocked, InvokeCoro, DestroyEdge,
         ResumeEdge, ShimDone, DataArrives, Tick
<1>2. byToken' # {} => byToken # {} \/ started
  BY DEF Next, StartDispatcher, Begin, Body, Publish, Complete, Registering, Arm, RecheckCancel,
         RampRequest, RampFanOut, StoreToken, WakeShard, Sleep, SlotWaitReturns, SetCancel,
         Canceller, CancelRequest, CancelFanOut, FreeHandle, Dispatcher, EnterPoll, Poll,
         PollFails, Translate, FinishBatch, Collect, Claim, InvokeBlocked, InvokeCoro, DestroyEdge,
         ResumeEdge, ShimDone, DataArrives, Tick, Deregister
<1>3. sweep' # {} => sweep # {} \/ started
  BY DEF Next, StartDispatcher, Begin, Body, Publish, Complete, Registering, Arm, RecheckCancel,
         RampRequest, RampFanOut, StoreToken, WakeShard, Sleep, SlotWaitReturns, SetCancel,
         Canceller, CancelRequest, CancelFanOut, FreeHandle, Dispatcher, EnterPoll, Poll,
         PollFails, Translate, FinishBatch, Collect, Claim, InvokeBlocked, InvokeCoro, DestroyEdge,
         ResumeEdge, ShimDone, DataArrives, Tick, RequestSweep
<1>4. (\E s \in Shards : pc'[s] # "off") => started' \/ \E s \in Shards : pc[s] # "off"
  BY DEF Next, StartDispatcher, Begin, Body, Publish, Complete, Registering, Arm, RecheckCancel,
         RampRequest, RampFanOut, StoreToken, WakeShard, Sleep, SlotWaitReturns, SetCancel,
         Canceller, CancelRequest, CancelFanOut, FreeHandle, Dispatcher, EnterPoll, Poll,
         PollFails, Translate, FinishBatch, Collect, Claim, InvokeBlocked, InvokeCoro, DestroyEdge,
         ResumeEdge, ShimDone, DataArrives, Tick
<1>5. QED
  BY <1>1, <1>2, <1>3, <1>4 DEF StartedFirst

-----------------------------------------------------------------------------
(***************************************************************************)
(* Registrations.                                                          *)
(***************************************************************************)

\* The token of the next park has not been used.
LEMMA Fresh ==
  ASSUME TypeOK, Armed, NEW t \in Parkers, Publish(t)
  PROVE  /\ <<t, park[t] + 1>> \in FdTokens /\ <<t, park[t] + 1>> \in Tokens
         /\ ramp[<<t, park[t] + 1>>] = "none"
         /\ \A f \in Fds : interest[f] # <<t, park[t] + 1>>
<1> DEFINE tok == <<t, park[t] + 1>>
<1>1. park[t] \in Nat /\ tok \in FdTokens /\ tok \in Tokens
  BY NextToken, FdTokenFacts DEF Publish, TypeOK
<1>2. tok[1] = t /\ tok[2] = park[t] + 1
  OBVIOUS
<1>3. ramp[tok] = "none"
  BY <1>1, <1>2 DEF Armed
<1>4. QED
  BY <1>1, <1>3 DEF Armed

\* The registering thread's own steps on ramp.
LEMMA ArmedStep ==
  ASSUME TypeOK, Armed, Next
  PROVE  Armed'
<1>1. CASE UNCHANGED <<ramp, interest, park>>
  BY <1>1 DEF Armed
<1>2. ASSUME NEW t, Begin(t) \/ SetCancel(t) \/ Canceller(t) \/ FreeHandle(t) \/ DataArrives(t)
                    \/ Tick \/ StartDispatcher
      PROVE  UNCHANGED <<ramp, interest, park>>
  BY <1>2 DEF Begin, SetCancel, Canceller, CancelRequest, CancelFanOut, FreeHandle, DataArrives,
              Tick, StartDispatcher
<1>3. ASSUME NEW s, EnterPoll(s) \/ Poll(s) \/ PollFails(s) \/ Translate(s) \/ FinishBatch(s)
                    \/ Collect(s) \/ (\E tok \in Tokens : Claim(s, tok)) \/ InvokeBlocked(s)
                    \/ ResumeEdge(s) \/ ShimDone(s)
      PROVE  UNCHANGED <<ramp, interest, park>>
  BY <1>3 DEF EnterPoll, Poll, PollFails, Translate, FinishBatch, Collect, Claim, InvokeBlocked,
              ResumeEdge, ShimDone
<1>4. CASE /\ UNCHANGED <<ramp, park>>
           /\ \A f \in Fds : interest'[f] \in {interest[f], None}
  BY <1>4 DEF Armed
<1>5. ASSUME NEW t, Complete(t) \/ SlotWaitReturns(t) PROVE Armed'
  <2>1. UNCHANGED <<ramp, park>>
    BY <1>5 DEF Complete, SlotWaitReturns
  <2>2. \A f \in Fds : interest'[f] \in {interest[f], None}
    BY <1>5 DEF Complete, Close, SlotWaitReturns, Deregister, TypeOK
  <2>3. QED
    BY <1>4, <2>1, <2>2
<1>6. ASSUME NEW s \in Shards, InvokeCoro(s) \/ DestroyEdge(s) PROVE Armed'
  <2>1. UNCHANGED <<ramp, park>>
    BY <1>6 DEF InvokeCoro, DestroyEdge
  <2>2. \A f \in Fds : interest'[f] \in {interest[f], None}
    BY <1>6 DEF InvokeCoro, DestroyEdge, Close, Deregister, TypeOK
  <2>3. QED
    BY <1>4, <2>1, <2>2
<1>7. ASSUME NEW t \in Parkers, Publish(t) PROVE Armed'
  <2> DEFINE new == <<t, park[t] + 1>>
  <2>1. /\ new \in FdTokens /\ new \in Tokens /\ new[1] = t /\ new[2] = park[t] + 1
        /\ park[t] \in Nat /\ \A f \in Fds : interest[f] # new
    BY <1>7, Fresh DEF TypeOK
  <2>2. interest' = interest /\ ramp' = [ramp EXCEPT ![new] = "add"]
        /\ park' = [park EXCEPT ![t] = park[t] + 1]
    BY <1>7 DEF Publish
  <2> HIDE DEF new
  <2>3. ASSUME NEW tok \in FdTokens, ramp'[tok] # "none" PROVE tok[2] <= park'[tok[1]]
    <3>1. tok \in Tokens /\ tok[1] \in Parkers /\ tok[2] \in Nat
      BY FdTokenFacts
    <3>2. CASE tok = new
      BY <2>1, <2>2, <3>1, <3>2 DEF TypeOK
    <3>3. CASE tok # new
      <4>1. tok[2] <= park[tok[1]]
        BY <2>2, <2>3, <3>1, <3>3 DEF TypeOK, Armed
      <4>2. park[tok[1]] \in Nat /\ park'[tok[1]] \in {park[tok[1]], park[tok[1]] + 1}
        BY <2>1, <2>2, <3>1 DEF TypeOK
      <4>3. QED
        BY <3>1, <4>1, <4>2
    <3>4. QED
      BY <3>2, <3>3
  <2>4. ASSUME NEW f \in Fds, interest'[f] # None
        PROVE  ramp'[interest'[f]] # "none" /\ FdOf(interest'[f]) = f
    <3>1. interest[f] \in Tokens
      BY <2>2, <2>4, FdTokenFacts DEF TypeOK
    <3>2. QED
      BY <2>1, <2>2, <2>4, <3>1 DEF Armed, TypeOK
  <2>5. QED
    BY <2>3, <2>4 DEF Armed
<1>8. ASSUME NEW k \in Tokens, ramp[k] # "none", NEW l, l # "none", ramp' = [ramp EXCEPT ![k] = l],
             interest' = interest, park' = park
      PROVE  Armed'
  <2>1. \A tok \in Tokens : ramp'[tok] # "none" <=> ramp[tok] # "none"
    BY <1>8 DEF TypeOK
  <2>2. \A f \in Fds : interest[f] # None => interest[f] \in Tokens
    BY FdTokenFacts DEF TypeOK
  <2>3. QED
    BY <1>8, <2>1, <2>2, FdTokenFacts DEF Armed
<1>9. ASSUME NEW k \in FdTokens, RecheckCancel(k) \/ RampRequest(k) \/ RampFanOut(k) \/ StoreToken(k)
      PROVE  Armed'
  <2>1. k \in Tokens /\ ramp[k] # "none" /\ interest' = interest /\ park' = park
    BY <1>9, FdTokenFacts DEF RecheckCancel, RampRequest, RampFanOut, StoreToken
  <2>2. \E l \in {"request", "store", "fanout", "done"} : ramp' = [ramp EXCEPT ![k] = l]
    BY <1>9 DEF RecheckCancel, RampRequest, RampFanOut, StoreToken
  <2>3. QED
    BY <1>8, <2>1, <2>2
<1>10. ASSUME NEW k \in Tokens, WakeShard(k) PROVE Armed'
  <2>1. ramp[k] # "none" /\ interest' = interest /\ park' = park
    BY <1>10 DEF WakeShard
  <2>2. \E l \in {"check", "store", "done"} : ramp' = [ramp EXCEPT ![k] = l]
    BY <1>10 DEF WakeShard
  <2>3. QED
    BY <1>8, <2>1, <2>2
<1>11. ASSUME NEW k \in FdTokens, Arm(k) PROVE Armed'
  <2>1. k \in Tokens /\ FdOf(k) \in Fds /\ ramp[k] = "add" /\ park' = park /\ k # None
    BY <1>11, FdTokenFacts DEF Arm
  <2>2. \E l \in {"wake", "store"} : ramp' = [ramp EXCEPT ![k] = l]
    BY <1>11 DEF Arm
  <2>3. interest' = interest \/ interest' = [interest EXCEPT ![FdOf(k)] = k]
    BY <1>11 DEF Arm
  <2>4. \A tok \in Tokens : ramp'[tok] # "none" <=> ramp[tok] # "none"
    BY <2>1, <2>2 DEF TypeOK
  <2>5. \A f \in Fds : interest[f] # None => interest[f] \in Tokens
    BY FdTokenFacts DEF TypeOK
  <2>6. \A f \in Fds : interest'[f] # None => ramp'[interest'[f]] # "none" /\ FdOf(interest'[f]) = f
    BY <2>1, <2>3, <2>4, <2>5 DEF Armed, TypeOK
  <2>7. QED
    BY <2>1, <2>4, <2>6, FdTokenFacts DEF Armed
<1>12. ASSUME NEW z \in Sleepers, NEW d, Sleep(z, d) PROVE Armed'
  <2>1. <<z, 1>> \in Tokens /\ <<z, 1>> \notin FdTokens
    <3>1. <<z, 1>> \in Tokens /\ <<z, 1>>[1] = z
      BY DEF Tokens
    <3>2. QED
      BY <3>1, TokenFacts
  <2>2. ramp' = [ramp EXCEPT ![<<z, 1>>] = "wake"] /\ interest' = interest /\ park' = park
    BY <1>12 DEF Sleep
  <2>3. \A tok \in FdTokens : ramp'[tok] = ramp[tok]
    BY <2>1, <2>2, FdTokenFacts DEF TypeOK
  <2>4. QED
    BY <2>2, <2>3 DEF Armed, TypeOK
<1>13. QED
  BY <1>1, <1>2, <1>3, <1>5, <1>6, <1>7, <1>9, <1>10, <1>11, <1>12
     DEF Next, Body, Registering, Dispatcher

-----------------------------------------------------------------------------
(***************************************************************************)
(* The cancel sweep.                                                       *)
(***************************************************************************)

\* Every request is followed by the wakes of the thread that made it, and a
\* dispatcher thread that is awake consumes the request before it sleeps again.
LEMMA AwakeStep ==
  ASSUME TypeOK, StartedFirst, Armed, RequestedShardAwake, Next
  PROVE  RequestedShardAwake'
<1>1. CASE UNCHANGED <<sweep, waker, pc, sweeping, canceller, ramp>>
  BY <1>1 DEF RequestedShardAwake
<1>2. ASSUME NEW t, Begin(t) \/ Complete(t) \/ SlotWaitReturns(t) \/ FreeHandle(t)
                    \/ DataArrives(t) \/ Tick
      PROVE  UNCHANGED <<sweep, waker, pc, sweeping, canceller, ramp>>
  BY <1>2 DEF Begin, Complete, SlotWaitReturns, FreeHandle, DataArrives, Tick
<1>3. ASSUME StartDispatcher PROVE RequestedShardAwake'
  BY <1>3 DEF StartDispatcher, StartedFirst, RequestedShardAwake
<1>4. CASE /\ UNCHANGED <<sweep, pc, sweeping, canceller>> /\ waker \subseteq waker'
           /\ \A tok \in FdTokens : ramp[tok] = "fanout" => ramp'[tok] = "fanout"
  BY <1>4 DEF RequestedShardAwake
<1>5. ASSUME NEW t \in Parkers, Publish(t) PROVE RequestedShardAwake'
  <2>1. UNCHANGED <<sweep, waker, pc, sweeping, canceller>>
        /\ ramp' = [ramp EXCEPT ![<<t, park[t] + 1>>] = "add"]
    BY <1>5 DEF Publish
  <2>2. \A tok \in FdTokens : ramp[tok] = "fanout" => ramp'[tok] = "fanout"
    BY <1>5, <2>1, Fresh, FdTokenFacts DEF TypeOK
  <2>3. QED
    BY <1>4, <2>1, <2>2
<1>6. ASSUME NEW k \in FdTokens, Arm(k) \/ RecheckCancel(k) \/ StoreToken(k)
      PROVE  RequestedShardAwake'
  <2>1. UNCHANGED <<sweep, waker, pc, sweeping, canceller>> /\ ramp[k] # "fanout"
        /\ \E l \in RampSteps : ramp' = [ramp EXCEPT ![k] = l]
    BY <1>6 DEF Arm, RecheckCancel, StoreToken, RampSteps
  <2>2. \A tok \in FdTokens : ramp[tok] = "fanout" => ramp'[tok] = "fanout"
    BY <2>1, FdTokenFacts DEF TypeOK
  <2>3. QED
    BY <1>4, <2>1, <2>2
<1>7. ASSUME NEW k \in Tokens, WakeShard(k) PROVE RequestedShardAwake'
  <2>1. UNCHANGED <<sweep, pc, sweeping, canceller>> /\ ramp[k] # "fanout" /\ waker \subseteq waker'
        /\ \E l \in RampSteps : ramp' = [ramp EXCEPT ![k] = l]
    BY <1>7 DEF WakeShard, RampSteps
  <2>2. \A tok \in FdTokens : ramp[tok] = "fanout" => ramp'[tok] = "fanout"
    BY <2>1, FdTokenFacts DEF TypeOK
  <2>3. QED
    BY <1>4, <2>1, <2>2
<1>8. ASSUME NEW z \in Sleepers, NEW d, Sleep(z, d) PROVE RequestedShardAwake'
  <2>1. <<z, 1>> \in Tokens /\ <<z, 1>>[1] = z
    BY DEF Tokens
  <2>2. UNCHANGED <<sweep, waker, pc, sweeping, canceller>>
        /\ ramp' = [ramp EXCEPT ![<<z, 1>>] = "wake"]
    BY <1>8 DEF Sleep
  <2>3. \A tok \in FdTokens : ramp[tok] = "fanout" => ramp'[tok] = "fanout"
    BY <2>1, <2>2, FdTokenFacts DEF TypeOK
  <2>4. QED
    BY <1>4, <2>2, <2>3
<1>9. ASSUME NEW k \in FdTokens, RampRequest(k) PROVE RequestedShardAwake'
  <2>1. ramp'[k] = "fanout"
    BY <1>9, FdTokenFacts DEF RampRequest, TypeOK
  <2>2. QED
    BY <2>1 DEF RequestedShardAwake
<1>10. ASSUME NEW k \in FdTokens, RampFanOut(k) PROVE RequestedShardAwake'
  BY <1>10 DEF RampFanOut, FanOut, RequestedShardAwake, TypeOK
<1>11. ASSUME NEW t \in Coros, SetCancel(t) PROVE RequestedShardAwake'
  BY <1>11 DEF SetCancel, RequestedShardAwake, TypeOK
<1>12. ASSUME NEW t \in Coros, CancelRequest(t) PROVE RequestedShardAwake'
  <2>1. canceller'[t] = "request"
    BY <1>12 DEF CancelRequest, TypeOK
  <2>2. QED
    BY <2>1 DEF RequestedShardAwake
<1>13. ASSUME NEW t \in Coros, CancelFanOut(t) PROVE RequestedShardAwake'
  BY <1>13 DEF CancelFanOut, FanOut, RequestedShardAwake, TypeOK
<1>14. ASSUME NEW s \in Shards, EnterPoll(s) \/ PollFails(s) PROVE RequestedShardAwake'
  BY <1>14 DEF EnterPoll, PollFails, Goto, RequestedShardAwake, TypeOK
<1>15. ASSUME NEW s \in Shards, Poll(s) PROVE RequestedShardAwake'
  BY <1>15 DEF Poll, Goto, RequestedShardAwake, TypeOK
<1>16. ASSUME NEW s \in Shards, Translate(s) PROVE RequestedShardAwake'
  BY <1>16 DEF Translate, Goto, RequestedShardAwake, TypeOK
<1>17. ASSUME NEW s \in Shards, FinishBatch(s) PROVE RequestedShardAwake'
  BY <1>17 DEF FinishBatch, Goto, RequestedShardAwake, TypeOK
<1>18. ASSUME NEW s \in Shards, Collect(s) PROVE RequestedShardAwake'
  BY <1>18 DEF Collect, Goto, RequestedShardAwake, TypeOK
<1>19. ASSUME NEW s \in Shards, UNCHANGED <<sweep, waker, sweeping, canceller, ramp>>,
              pc[s] \in {"claim", "invoke", "destroy", "resume", "shim"},
              NEW l \in {"claim", "invoke", "destroy", "resume", "shim"},
              pc' = [pc EXCEPT ![s] = l]
       PROVE  RequestedShardAwake'
  BY <1>19 DEF RequestedShardAwake, TypeOK
<1>20. ASSUME NEW s \in Shards, NEW tok, Claim(s, tok) PROVE RequestedShardAwake'
  <2>1. UNCHANGED <<sweep, waker, sweeping, canceller, ramp>> /\ pc[s] = "claim"
    BY <1>20 DEF Claim
  <2>2. pc' = [pc EXCEPT ![s] = "invoke"] \/ pc' = pc
    BY <1>20 DEF Claim, Goto
  <2>3. QED
    BY <1>1, <1>19, <2>1, <2>2
<1>21. ASSUME NEW s \in Shards, InvokeBlocked(s) \/ InvokeCoro(s) \/ DestroyEdge(s) \/ ResumeEdge(s)
                                \/ ShimDone(s)
       PROVE  RequestedShardAwake'
  <2>1. UNCHANGED <<sweep, waker, sweeping, canceller, ramp>>
        /\ pc[s] \in {"invoke", "destroy", "resume", "shim"}
    BY <1>21 DEF InvokeBlocked, InvokeCoro, DestroyEdge, ResumeEdge, ShimDone
  <2>2. \E l \in {"claim", "destroy", "resume", "shim"} : pc' = [pc EXCEPT ![s] = l]
    BY <1>21 DEF InvokeBlocked, InvokeCoro, DestroyEdge, ResumeEdge, ShimDone, Goto
  <2>3. QED
    BY <1>19, <2>1, <2>2
<1>22. QED
  BY <1>1, <1>2, <1>3, <1>5, <1>6, <1>7, <1>8, <1>9, <1>10, <1>11, <1>12, <1>13, <1>14, <1>15,
     <1>16, <1>17, <1>18, <1>20, <1>21
     DEF Next, Body, Registering, Canceller, Dispatcher

\* The sweep takes its snapshot after it has consumed the request, so a request
\* made since is still there, and one made before is in the snapshot.
LEMMA CoversStep ==
  ASSUME TypeOK, StartedFirst, Idle, Armed, SweepCovers, Next
  PROVE  SweepCovers'
<1> DEFINE Covered(k) ==
      \/ ShardOfToken(k) \in sweep \/ pc[ShardOfToken(k)] = "collect" \/ k \in batch[ShardOfToken(k)]
<1>1. CASE /\ byToken' \subseteq byToken /\ UNCHANGED <<sweep, pc, batch, cancel, canceller, ramp>>
  BY <1>1 DEF SweepCovers
<1>2. ASSUME NEW t, Begin(t) \/ Complete(t) \/ SlotWaitReturns(t) \/ FreeHandle(t)
                    \/ DataArrives(t) \/ Tick
      PROVE  byToken' \subseteq byToken /\ UNCHANGED <<sweep, pc, batch, cancel, canceller, ramp>>
  BY <1>2 DEF Begin, Complete, SlotWaitReturns, Deregister, FreeHandle, DataArrives, Tick
<1>3. ASSUME StartDispatcher PROVE SweepCovers'
  BY <1>3 DEF StartDispatcher, StartedFirst, SweepCovers
<1>4. ASSUME UNCHANGED <<sweep, pc, batch, cancel, canceller>>,
             NEW k \in Tokens, byToken' \subseteq byToken \union {k}, NEW l,
             ramp' = [ramp EXCEPT ![k] = l],
             k \in byToken' /\ k[1] \in cancel /\ l \in {"fanout", "store", "done"} =>
               k \in byToken /\ ramp[k] \in {"fanout", "store", "done"}
      PROVE  SweepCovers'
  <2>1. SUFFICES ASSUME NEW tok \in byToken', tok[1] \in cancel, canceller[tok[1]] \in {"request", "done"},
                        ramp'[tok] \in {"fanout", "store", "done"}
                 PROVE  Covered(tok)
    BY <1>4 DEF SweepCovers
  <2>2. CASE tok = k
    <3>1. l \in {"fanout", "store", "done"}
      BY <1>4, <2>1, <2>2 DEF TypeOK
    <3>2. QED
      BY <1>4, <2>1, <2>2, <3>1 DEF SweepCovers
  <2>3. CASE tok # k
    <3>1. tok \in byToken /\ tok \in Tokens /\ ramp'[tok] = ramp[tok]
      BY <1>4, <2>3 DEF TypeOK
    <3>2. QED
      BY <2>1, <3>1 DEF SweepCovers
  <2>4. QED
    BY <2>2, <2>3
<1>5. ASSUME NEW t \in Parkers, Publish(t) PROVE SweepCovers'
  <2>1. <<t, park[t] + 1>> \in Tokens
    BY <1>5, Fresh
  <2>2. /\ UNCHANGED <<sweep, pc, batch, cancel, canceller>>
        /\ byToken' = byToken \union {<<t, park[t] + 1>>}
        /\ ramp' = [ramp EXCEPT ![<<t, park[t] + 1>>] = "add"]
    BY <1>5 DEF Publish
  <2>3. QED
    BY <1>4, <2>1, <2>2
<1>6. ASSUME NEW k \in FdTokens, Arm(k) PROVE SweepCovers'
  <2>1. UNCHANGED <<sweep, pc, batch, cancel, canceller>> /\ k \in Tokens
    BY <1>6, FdTokenFacts DEF Arm
  <2>2. \/ byToken' = byToken /\ ramp' = [ramp EXCEPT ![k] = "wake"]
        \/ byToken' = byToken \ {k} /\ ramp' = [ramp EXCEPT ![k] = "store"]
    BY <1>6 DEF Arm
  <2>3. QED
    BY <1>4, <2>1, <2>2
<1>7. ASSUME NEW k \in FdTokens, RecheckCancel(k) PROVE SweepCovers'
  <2>1. UNCHANGED <<sweep, pc, batch, cancel, canceller, byToken>> /\ k \in Tokens
    BY <1>7, FdTokenFacts DEF RecheckCancel
  <2>2. \/ ramp' = [ramp EXCEPT ![k] = "request"]
        \/ k[1] \notin cancel /\ ramp' = [ramp EXCEPT ![k] = "store"]
    BY <1>7 DEF RecheckCancel
  <2>3. QED
    BY <1>4, <2>1, <2>2
<1>8. ASSUME NEW k \in FdTokens, RampFanOut(k) \/ StoreToken(k) PROVE SweepCovers'
  <2>1. UNCHANGED <<sweep, pc, batch, cancel, canceller, byToken>> /\ k \in Tokens
        /\ ramp[k] \in {"fanout", "store"}
    BY <1>8, FdTokenFacts DEF RampFanOut, StoreToken
  <2>2. \E l \in {"store", "done"} : ramp' = [ramp EXCEPT ![k] = l]
    BY <1>8 DEF RampFanOut, StoreToken
  <2>3. QED
    BY <1>4, <2>1, <2>2
<1>9. ASSUME NEW k \in Tokens, WakeShard(k) PROVE SweepCovers'
  <2>1. UNCHANGED <<sweep, pc, batch, cancel, canceller, byToken>>
    BY <1>9 DEF WakeShard
  <2>2. \/ ramp' = [ramp EXCEPT ![k] = "check"]
        \/ k[1] \notin Coros /\ \E l \in {"store", "done"} : ramp' = [ramp EXCEPT ![k] = l]
    BY <1>9 DEF WakeShard
  <2>3. k[1] \in cancel => k[1] \in Coros
    BY DEF TypeOK
  <2>4. QED
    BY <1>4, <2>1, <2>2, <2>3
<1>10. ASSUME NEW z \in Sleepers, NEW d, Sleep(z, d) PROVE SweepCovers'
  <2>1. <<z, 1>> \in Tokens
    BY DEF Tokens
  <2>2. /\ UNCHANGED <<sweep, pc, batch, cancel, canceller>>
        /\ byToken' = byToken \union {<<z, 1>>}
        /\ ramp' = [ramp EXCEPT ![<<z, 1>>] = "wake"]
    BY <1>10 DEF Sleep
  <2>3. QED
    BY <1>4, <2>1, <2>2
<1>11. ASSUME sweep' = (IF started THEN Shards ELSE sweep), byToken' = byToken
       PROVE  SweepCovers'
  BY <1>11, TokenFacts DEF SweepCovers, StartedFirst, TypeOK
<1>12. ASSUME NEW k, RampRequest(k) \/ CancelRequest(k) PROVE SweepCovers'
  BY <1>11, <1>12 DEF RampRequest, CancelRequest, RequestSweep
<1>13. ASSUME NEW t \in Coros, SetCancel(t) PROVE SweepCovers'
  <2>1. UNCHANGED <<sweep, pc, batch, byToken, ramp>>
        /\ cancel' = cancel \union {t} /\ canceller' = [canceller EXCEPT ![t] = "flag"]
    BY <1>13 DEF SetCancel
  <2>2. \A u \in Coros : canceller'[u] \in {"request", "done"} => u # t /\ canceller'[u] = canceller[u]
    BY <2>1 DEF TypeOK
  <2>3. \A u : u \in cancel' => u \in Coros
    BY <2>1 DEF TypeOK
  <2>4. QED
    BY <2>1, <2>2, <2>3 DEF SweepCovers
<1>14. ASSUME NEW t \in Coros, CancelFanOut(t) PROVE SweepCovers'
  <2>1. UNCHANGED <<sweep, pc, batch, byToken, ramp, cancel>>
        /\ canceller[t] = "request" /\ canceller' = [canceller EXCEPT ![t] = "done"]
    BY <1>14 DEF CancelFanOut
  <2>2. \A u \in Coros : canceller'[u] \in {"request", "done"} => canceller[u] \in {"request", "done"}
    BY <2>1 DEF TypeOK
  <2>3. \A u : u \in cancel' => u \in Coros
    BY <2>1 DEF TypeOK
  <2>4. QED
    BY <2>1, <2>2, <2>3 DEF SweepCovers
<1>15. ASSUME NEW s \in Shards, byToken' \subseteq byToken, UNCHANGED <<cancel, canceller, ramp>>,
              \A r \in Shards : r # s => pc'[r] = pc[r] /\ batch'[r] = batch[r] /\ (r \in sweep => r \in sweep'),
              \A k \in byToken' : ShardOfToken(k) = s /\ k[1] \in cancel /\ Covered(k) =>
                 s \in sweep' \/ pc'[s] = "collect" \/ k \in batch'[s]
       PROVE  SweepCovers'
  <2>1. SUFFICES ASSUME NEW tok \in byToken', tok[1] \in cancel, canceller[tok[1]] \in {"request", "done"},
                        ramp[tok] \in {"fanout", "store", "done"}
                 PROVE  Covered(tok)'
    BY <1>15 DEF SweepCovers
  <2>2. tok \in byToken /\ Covered(tok) /\ ShardOfToken(tok) \in Shards
    BY <1>15, <2>1, TokenFacts DEF SweepCovers, TypeOK
  <2>3. QED
    BY <1>15, <2>1, <2>2
<1>16. ASSUME NEW s \in Shards, EnterPoll(s) \/ PollFails(s) PROVE SweepCovers'
  <2>1. byToken' = byToken /\ UNCHANGED <<cancel, canceller, ramp, sweep, batch>> /\ pc[s] # "collect"
        /\ \A r \in Shards : r # s => pc'[r] = pc[r]
    BY <1>16 DEF EnterPoll, PollFails, Goto, TypeOK
  <2>2. QED
    BY <1>15, <2>1
<1>17. ASSUME NEW s \in Shards, Poll(s) PROVE SweepCovers'
  <2>1. byToken' = byToken /\ UNCHANGED <<cancel, canceller, ramp, sweep>> /\ pc[s] = "poll"
        /\ \A r \in Shards : r # s => pc'[r] = pc[r] /\ batch'[r] = batch[r]
    BY <1>17 DEF Poll, Goto, TypeOK
  <2>2. batch[s] = {}
    BY <2>1 DEF Idle
  <2>3. QED
    BY <1>15, <2>1, <2>2
<1>18. ASSUME NEW s \in Shards, Translate(s) PROVE SweepCovers'
  <2>1. byToken' = byToken /\ UNCHANGED <<cancel, canceller, ramp, sweep>> /\ pc[s] = "got"
        /\ batch[s] \intersect byToken \subseteq batch'[s]
        /\ \A r \in Shards : r # s => pc'[r] = pc[r] /\ batch'[r] = batch[r]
    BY <1>18 DEF Translate, Goto, TypeOK
  <2>2. QED
    BY <1>15, <2>1
<1>19. ASSUME NEW s \in Shards, FinishBatch(s) PROVE SweepCovers'
  <2>1. byToken' = byToken /\ UNCHANGED <<cancel, canceller, ramp, batch>> /\ pc[s] = "claim"
        /\ batch[s] = {} /\ (s \in sweep => s \in sweep' \/ pc'[s] = "collect")
        /\ \A r \in Shards : r # s => pc'[r] = pc[r] /\ (r \in sweep => r \in sweep')
    BY <1>19 DEF FinishBatch, Goto, TypeOK
  <2>2. QED
    BY <1>15, <2>1
<1>20. ASSUME NEW s \in Shards, Collect(s) PROVE SweepCovers'
  <2>1. byToken' = byToken /\ UNCHANGED <<cancel, canceller, ramp, sweep>>
        /\ batch'[s] = {tok \in byToken \intersect Local(s) : tok[1] \in cancel}
        /\ \A r \in Shards : r # s => pc'[r] = pc[r] /\ batch'[r] = batch[r]
    BY <1>20 DEF Collect, Goto, TypeOK
  <2>2. \A k \in byToken : ShardOfToken(k) = s /\ k[1] \in cancel => k \in batch'[s]
    BY <2>1 DEF Local, TypeOK
  <2>3. QED
    BY <1>15, <2>1, <2>2
<1>21. ASSUME NEW s \in Shards, NEW tok, Claim(s, tok) PROVE SweepCovers'
  <2>1. byToken' = byToken \ {tok} /\ UNCHANGED <<cancel, canceller, ramp, sweep>> /\ pc[s] = "claim"
        /\ batch'[s] = batch[s] \ {tok} /\ \A r \in Shards : r # s => batch'[r] = batch[r]
    BY <1>21 DEF Claim, TypeOK
  <2>2. pc' = [pc EXCEPT ![s] = "invoke"] \/ pc' = pc
    BY <1>21 DEF Claim, Goto
  <2>3. \A r \in Shards : r # s => pc'[r] = pc[r]
    BY <2>2 DEF TypeOK
  <2>4. QED
    BY <1>15, <2>1, <2>3
<1>22. ASSUME NEW s \in Shards, InvokeBlocked(s) \/ InvokeCoro(s) \/ DestroyEdge(s) \/ ResumeEdge(s)
                                \/ ShimDone(s)
       PROVE  SweepCovers'
  <2>1. UNCHANGED <<cancel, canceller, ramp, sweep, batch>> /\ byToken' \subseteq byToken
        /\ pc[s] # "collect"
    BY <1>22 DEF InvokeBlocked, InvokeCoro, Deregister, DestroyEdge, ResumeEdge, ShimDone
  <2>2. \E l : pc' = [pc EXCEPT ![s] = l]
    BY <1>22 DEF InvokeBlocked, InvokeCoro, DestroyEdge, ResumeEdge, ShimDone, Goto
  <2>3. \A r \in Shards : r # s => pc'[r] = pc[r]
    BY <2>2 DEF TypeOK
  <2>4. QED
    BY <1>15, <2>1, <2>3
<1>23. QED
  BY <1>1, <1>2, <1>3, <1>5, <1>6, <1>7, <1>8, <1>9, <1>10, <1>12, <1>13, <1>14, <1>16, <1>17,
     <1>18, <1>19, <1>20, <1>21, <1>22
     DEF Next, Body, Registering, Canceller, Dispatcher

-----------------------------------------------------------------------------
(***************************************************************************)
(* Timers.                                                                 *)
(***************************************************************************)

\* A timer is registered in the map and in the heap under one lock; a poll that
\* began before it is woken, one that begins after it is capped by it.
LEMMA TimerStep ==
  ASSUME TypeOK, Wired, StartedFirst, Idle, NoTimerOverslept, Next
  PROVE  NoTimerOverslept'
<1>1. ASSUME UNCHANGED <<timers, batch, pc, timeout, deadline>>, waker \subseteq waker',
             \A k \in byToken' : k[1] \in Sleepers =>
               /\ k \in byToken
               /\ ramp[k] # "wake" \/ ramp'[k] = "wake" \/ ShardOfToken(k) \in waker'
      PROVE  NoTimerOverslept'
  BY <1>1 DEF NoTimerOverslept
<1>2. ASSUME NEW t, Begin(t) \/ Complete(t) \/ SlotWaitReturns(t) \/ SetCancel(t) \/ Canceller(t)
                    \/ FreeHandle(t) \/ DataArrives(t) \/ Tick
      PROVE  /\ UNCHANGED <<timers, batch, pc, timeout, deadline, ramp>>
             /\ waker \subseteq waker' /\ byToken' \subseteq byToken
  BY <1>2 DEF Begin, Complete, SlotWaitReturns, Deregister, SetCancel, Canceller, CancelRequest,
              CancelFanOut, FanOut, FreeHandle, DataArrives, Tick
<1>3. CASE /\ UNCHANGED <<timers, batch, pc, timeout, deadline, ramp>>
           /\ waker \subseteq waker' /\ byToken' \subseteq byToken
  BY <1>1, <1>3
<1>4. ASSUME StartDispatcher PROVE NoTimerOverslept'
  BY <1>4 DEF StartDispatcher, StartedFirst, NoTimerOverslept
<1>5. ASSUME NEW t \in Parkers, Publish(t) PROVE NoTimerOverslept'
  <2> DEFINE new == <<t, park[t] + 1>>
  <2>1. UNCHANGED <<timers, batch, pc, timeout, deadline, waker>>
        /\ byToken' = byToken \union {new} /\ ramp' = [ramp EXCEPT ![new] = "add"]
    BY <1>5 DEF Publish
  <2>2. new[1] \notin Sleepers
    BY DEF Parkers
  <2> HIDE DEF new
  <2>3. \A k \in byToken' : k[1] \in Sleepers => k \in byToken /\ ramp'[k] = ramp[k]
    BY <2>1, <2>2 DEF TypeOK
  <2>4. QED
    BY <1>1, <2>1, <2>3
<1>6. ASSUME NEW k \in FdTokens, Arm(k) \/ RecheckCancel(k) \/ RampRequest(k) \/ RampFanOut(k)
                                 \/ StoreToken(k)
      PROVE  NoTimerOverslept'
  <2>1. UNCHANGED <<timers, batch, pc, timeout, deadline>> /\ waker \subseteq waker'
        /\ byToken' \subseteq byToken
    BY <1>6 DEF Arm, RecheckCancel, RampRequest, RampFanOut, FanOut, StoreToken
  <2>2. \E l : ramp' = [ramp EXCEPT ![k] = l]
    BY <1>6 DEF Arm, RecheckCancel, RampRequest, RampFanOut, StoreToken
  <2>3. \A tok \in byToken' : tok[1] \in Sleepers => tok \in byToken /\ ramp'[tok] = ramp[tok]
    BY <2>1, <2>2, FdTokenFacts DEF TypeOK
  <2>4. QED
    BY <1>1, <2>1, <2>3
<1>7. ASSUME NEW k \in Tokens, WakeShard(k) PROVE NoTimerOverslept'
  <2>1. UNCHANGED <<timers, batch, pc, timeout, deadline, byToken>>
        /\ waker' = waker \union {ShardOfToken(k)}
    BY <1>7 DEF WakeShard
  <2>2. \E l : ramp' = [ramp EXCEPT ![k] = l]
    BY <1>7 DEF WakeShard
  <2>3. \A tok \in byToken' : tok = k \/ ramp'[tok] = ramp[tok]
    BY <2>1, <2>2 DEF TypeOK
  <2>4. QED
    BY <1>1, <2>1, <2>3
<1>8. ASSUME NEW z \in Sleepers, NEW d, Sleep(z, d) PROVE NoTimerOverslept'
  <2> DEFINE new == <<z, 1>>
  <2>1. /\ byToken' = byToken \union {new} /\ timers' = timers \union {new}
        /\ deadline' = [deadline EXCEPT ![z] = now + d] /\ ramp' = [ramp EXCEPT ![new] = "wake"]
        /\ UNCHANGED <<waker, pc, timeout, batch>>
    BY <1>8 DEF Sleep
  <2>2. new \in Tokens
    BY DEF Tokens
  <2>3. ASSUME NEW tok \in byToken, tok # new, tok[1] \in Sleepers
        PROVE  tok \in Tokens /\ deadline'[tok[1]] = deadline[tok[1]] /\ ramp'[tok] = ramp[tok]
    <3>1. tok \in Tokens
      BY DEF TypeOK
    <3>2. tok[1] # z
      BY <2>3, <3>1, TokenFacts
    <3>3. QED
      BY <2>1, <2>3, <3>1, <3>2 DEF TypeOK
  <2>4. ramp'[new] = "wake"
    BY <2>1, <2>2 DEF TypeOK
  <2> HIDE DEF new
  <2>5. QED
    BY <2>1, <2>3, <2>4 DEF NoTimerOverslept
<1>9. ASSUME NEW s \in Shards, byToken' \subseteq byToken, UNCHANGED <<deadline, ramp>>,
             \A r \in Shards : r # s => /\ pc'[r] = pc[r] /\ batch'[r] = batch[r]
                                        /\ timeout'[r] = timeout[r] /\ (r \in waker => r \in waker'),
             \A k \in byToken' : k[1] \in Sleepers =>
               IF ShardOfToken(k) = s
               THEN /\ k \in timers \/ k \in batch[s] => k \in timers' \/ k \in batch'[s]
                    /\ pc'[s] = "poll" => timeout'[s] # None /\ timeout'[s] <= deadline[k[1]]
               ELSE k \in timers => k \in timers'
      PROVE  NoTimerOverslept'
  <2>1. \A k \in byToken' : ShardOfToken(k) \in Shards
    BY <1>9, TokenFacts DEF TypeOK
  <2>2. QED
    BY <1>9, <2>1 DEF NoTimerOverslept
<1>10. ASSUME NEW s \in Shards, EnterPoll(s) PROVE NoTimerOverslept'
  <2> DEFINE ds == {deadline[tok[1]] : tok \in timers \intersect Local(s)}
             low == CHOOSE e \in ds : \A g \in ds : e <= g
  <2>1. /\ UNCHANGED <<byToken, deadline, ramp, timers, batch, waker>> /\ pc[s] = "top"
        /\ timeout' = [timeout EXCEPT ![s] = IF ds = {} THEN None ELSE low]
    BY <1>10 DEF EnterPoll
  <2>2. \A r \in Shards : r # s => pc'[r] = pc[r] /\ timeout'[r] = timeout[r]
    BY <1>10, <2>1 DEF EnterPoll, Goto, TypeOK
  <2>3. batch[s] = {}
    BY <2>1 DEF Idle
  <2>4. ASSUME NEW k \in byToken, k[1] \in Sleepers, ShardOfToken(k) = s
        PROVE  timeout'[s] # None /\ timeout'[s] <= deadline[k[1]]
    <3>1. k \in timers \intersect Local(s)
      BY <2>3, <2>4 DEF NoTimerOverslept, Local, TypeOK
    <3>2. deadline[k[1]] \in ds
      BY <3>1
    <3>3. ds \subseteq Nat
      BY DEF Wired, TypeOK
    <3>4. \E e \in ds : \A g \in ds : e <= g
      BY <3>2, <3>3, LeastExists
    <3>5. low \in ds /\ \A g \in ds : low <= g
      BY <3>4
    <3>6. timeout'[s] = low
      BY <2>1, <3>2 DEF TypeOK
    <3>7. QED
      BY <3>2, <3>3, <3>5, <3>6
  <2> HIDE DEF ds, low
  <2>5. QED
    BY <1>9, <2>1, <2>2, <2>4
<1>11. ASSUME NEW s \in Shards, Poll(s) \/ PollFails(s) \/ FinishBatch(s) \/ Collect(s)
       PROVE  NoTimerOverslept'
  <2>1. UNCHANGED <<byToken, deadline, ramp, timers, timeout>>
    BY <1>11 DEF Poll, PollFails, FinishBatch, Collect
  <2>2. \A r \in Shards : r # s => pc'[r] = pc[r] /\ batch'[r] = batch[r] /\ (r \in waker => r \in waker')
    BY <1>11 DEF Poll, PollFails, FinishBatch, Collect, Goto, TypeOK
  <2>3. pc'[s] # "poll"
    BY <1>11 DEF Poll, PollFails, FinishBatch, Collect, Goto, TypeOK
  <2>4. batch[s] = {}
    BY <1>11 DEF Poll, PollFails, FinishBatch, Collect, Idle
  <2>5. QED
    BY <1>9, <2>1, <2>2, <2>3, <2>4
<1>12. ASSUME NEW s \in Shards, Translate(s) PROVE NoTimerOverslept'
  <2> DEFINE expired == {tok \in timers \intersect Local(s) : Due(tok)}
  <2>1. UNCHANGED <<byToken, deadline, ramp, timeout, waker>> /\ timers' = timers \ expired
        /\ batch' = [batch EXCEPT ![s] = (batch[s] \union expired) \intersect byToken]
        /\ pc' = [pc EXCEPT ![s] = "claim"]
    BY <1>12 DEF Translate, Goto
  <2>2. \A k \in expired : ShardOfToken(k) = s
    BY DEF Local
  <2> HIDE DEF expired
  <2>3. batch'[s] = (batch[s] \union expired) \intersect byToken /\ pc'[s] = "claim"
        /\ \A r \in Shards : r # s => pc'[r] = pc[r] /\ batch'[r] = batch[r]
    BY <2>1 DEF TypeOK
  <2>4. QED
    BY <1>9, <2>1, <2>2, <2>3
<1>13. ASSUME NEW s \in Shards, NEW tok, Claim(s, tok) PROVE NoTimerOverslept'
  <2>1. byToken' = byToken \ {tok} /\ UNCHANGED <<timers, deadline, ramp, timeout, waker>>
        /\ batch' = [batch EXCEPT ![s] = batch[s] \ {tok}] /\ pc[s] = "claim"
    BY <1>13 DEF Claim
  <2>2. pc' = [pc EXCEPT ![s] = "invoke"] \/ pc' = pc
    BY <1>13 DEF Claim, Goto
  <2>3. pc'[s] # "poll" /\ \A r \in Shards : r # s => pc'[r] = pc[r]
    BY <2>1, <2>2 DEF TypeOK
  <2>4. batch'[s] = batch[s] \ {tok} /\ \A r \in Shards : r # s => batch'[r] = batch[r]
    BY <2>1 DEF TypeOK
  <2>5. QED
    BY <1>9, <2>1, <2>3, <2>4
<1>14. ASSUME NEW s \in Shards, InvokeBlocked(s) \/ InvokeCoro(s) \/ DestroyEdge(s) \/ ResumeEdge(s)
                                \/ ShimDone(s)
       PROVE  NoTimerOverslept'
  <2>1. UNCHANGED <<timers, deadline, ramp, timeout, waker, batch>> /\ byToken' \subseteq byToken
    BY <1>14 DEF InvokeBlocked, InvokeCoro, Deregister, DestroyEdge, ResumeEdge, ShimDone
  <2>2. \E l \in {"claim", "destroy", "resume", "shim"} : pc' = [pc EXCEPT ![s] = l]
    BY <1>14 DEF InvokeBlocked, InvokeCoro, DestroyEdge, ResumeEdge, ShimDone, Goto
  <2>3. pc'[s] # "poll" /\ \A r \in Shards : r # s => pc'[r] = pc[r]
    BY <2>2 DEF TypeOK
  <2>4. QED
    BY <1>9, <2>1, <2>3
<1>15. QED
  BY <1>2, <1>3, <1>4, <1>5, <1>6, <1>7, <1>8, <1>10, <1>11, <1>12, <1>13, <1>14
     DEF Next, Body, Registering, Dispatcher

-----------------------------------------------------------------------------
(***************************************************************************)
(* Readiness.                                                              *)
(***************************************************************************)

\* An edge is reported with the token its descriptor is armed with, and that
\* token stays in the batch until the entry is claimed; whoever disarms the
\* descriptor takes the edge away with the interest.
LEMMA ReadyStep ==
  ASSUME TypeOK, Wired, Idle, Armed, NoLostReadiness, Next
  PROVE  NoLostReadiness'
<1> DEFINE Lost(k) == interest[FdOf(k)] = k /\ FdOf(k) \in ready /\ FdOf(k) \notin edge
<1>1. ASSUME \A k \in byToken' \intersect FdTokens : Lost(k)' /\ k \notin batch'[ShardOfToken(k)] =>
               /\ k \in byToken /\ Lost(k)
               /\ k \in batch[ShardOfToken(k)] => k \in batch'[ShardOfToken(k)]
      PROVE  NoLostReadiness'
  BY <1>1 DEF NoLostReadiness
<1>2. CASE /\ byToken' \subseteq byToken /\ ready' \subseteq ready
           /\ UNCHANGED <<interest, edge, batch>>
  BY <1>1, <1>2
<1>3. ASSUME NEW t, StartDispatcher \/ Begin(t) \/ SetCancel(t) \/ Canceller(t) \/ FreeHandle(t) \/ Tick
      PROVE  /\ byToken' \subseteq byToken /\ ready' \subseteq ready
             /\ UNCHANGED <<interest, edge, batch>>
  BY <1>3 DEF StartDispatcher, Begin, SetCancel, Canceller, CancelRequest, CancelFanOut, FreeHandle, Tick
<1>4. ASSUME NEW k, RecheckCancel(k) \/ RampRequest(k) \/ RampFanOut(k) \/ StoreToken(k) \/ WakeShard(k)
      PROVE  /\ byToken' \subseteq byToken /\ ready' \subseteq ready
             /\ UNCHANGED <<interest, edge, batch>>
  BY <1>4 DEF RecheckCancel, RampRequest, RampFanOut, StoreToken, WakeShard
<1>5. ASSUME NEW s, EnterPoll(s) \/ PollFails(s) \/ FinishBatch(s) \/ InvokeBlocked(s) \/ ResumeEdge(s)
                    \/ ShimDone(s)
      PROVE  /\ byToken' \subseteq byToken /\ ready' \subseteq ready
             /\ UNCHANGED <<interest, edge, batch>>
  BY <1>5 DEF EnterPoll, PollFails, FinishBatch, InvokeBlocked, ResumeEdge, ShimDone
<1>6. ASSUME NEW t, Close(t), UNCHANGED <<byToken, batch>> PROVE NoLostReadiness'
  <2>1. SUFFICES ASSUME NEW k \in byToken \intersect FdTokens, Lost(k)' PROVE Lost(k)
    BY <1>1, <1>6
  <2>2. FdOf(k) \in Fds /\ k # None
    BY FdTokenFacts
  <2>3. QED
    BY <1>6, <2>1, <2>2 DEF Close
<1>8. ASSUME NEW t, Complete(t) PROVE NoLostReadiness'
  BY <1>6, <1>8 DEF Complete
<1>9. ASSUME NEW s, DestroyEdge(s) PROVE NoLostReadiness'
  BY <1>6, <1>9 DEF DestroyEdge
<1>10. ASSUME NEW t \in Parkers, Publish(t) PROVE NoLostReadiness'
  <2>1. \A f \in Fds : interest[f] # <<t, park[t] + 1>>
    BY <1>10, Fresh
  <2>2. byToken' = byToken \union {<<t, park[t] + 1>>} /\ UNCHANGED <<interest, edge, ready, batch>>
    BY <1>10 DEF Publish
  <2>3. QED
    BY <1>1, <2>1, <2>2, FdTokenFacts
<1>11. ASSUME NEW k \in FdTokens, Arm(k) PROVE NoLostReadiness'
  <2>1. FdOf(k) \in Fds /\ UNCHANGED <<ready, batch>>
    BY <1>11, FdTokenFacts DEF Arm
  <2>2. CASE open[FdOf(k)] # None /\ interest[FdOf(k)] = None
    <3>1. interest' = [interest EXCEPT ![FdOf(k)] = k] /\ byToken' = byToken
          /\ edge' = IF FdOf(k) \in ready THEN edge \union {FdOf(k)} ELSE edge
      BY <1>11, <2>2 DEF Arm
    <3>2. ASSUME NEW tok \in byToken \intersect FdTokens, Lost(tok)' PROVE Lost(tok)
      <4>1. FdOf(tok) # FdOf(k)
        BY <2>1, <3>1, <3>2
      <4>2. QED
        BY <2>1, <3>1, <3>2, <4>1, FdTokenFacts DEF TypeOK
    <3>3. QED
      BY <1>1, <2>1, <3>1, <3>2
  <2>3. CASE ~(open[FdOf(k)] # None /\ interest[FdOf(k)] = None)
    <3>1. UNCHANGED <<interest, edge>> /\ byToken' \subseteq byToken
      BY <1>11, <2>3 DEF Arm
    <3>2. QED
      BY <1>2, <2>1, <3>1
  <2>4. QED
    BY <2>2, <2>3
<1>12. ASSUME NEW z, NEW d, z \in Sleepers, Sleep(z, d) PROVE NoLostReadiness'
  <2>1. byToken' = byToken \union {<<z, 1>>} /\ UNCHANGED <<interest, edge, ready, batch>>
    BY <1>12 DEF Sleep
  <2>2. <<z, 1>> \notin FdTokens
    <3>1. <<z, 1>>[1] = z
      OBVIOUS
    <3>2. QED
      BY <1>12, <3>1, FdTokenFacts
  <2>3. QED
    BY <1>1, <2>1, <2>2
<1>13. ASSUME NEW t, SlotWaitReturns(t) PROVE NoLostReadiness'
  <2>1. UNCHANGED batch /\ byToken' \subseteq byToken
    BY <1>13 DEF SlotWaitReturns, Deregister
  <2>2. CASE t \in Callers
    <3>1. interest' = [interest EXCEPT ![FdOf(Last(t))] = None] /\ edge' = edge \ {FdOf(Last(t))}
          /\ ready' = ready \ {FdOf(Last(t))}
      BY <1>13, <2>2 DEF SlotWaitReturns, Deregister
    <3>2. ASSUME NEW tok \in FdTokens, Lost(tok)' PROVE Lost(tok)
      <4>1. FdOf(tok) # FdOf(Last(t)) /\ FdOf(tok) \in Fds
        BY <3>1, <3>2, FdTokenFacts
      <4>2. QED
        BY <3>1, <3>2, <4>1 DEF TypeOK
    <3>3. QED
      BY <1>1, <2>1, <3>2
  <2>3. CASE t \notin Callers
    <3>1. UNCHANGED <<interest, edge, ready>>
      BY <1>13, <2>3 DEF SlotWaitReturns
    <3>2. QED
      BY <1>2, <2>1, <3>1
  <2>4. QED
    BY <2>2, <2>3
<1>14. ASSUME NEW s \in Shards, Poll(s) PROVE NoLostReadiness'
  <2>1. UNCHANGED <<byToken, interest, ready>> /\ edge' = edge \ Reported(s)
        /\ batch' = [batch EXCEPT ![s] = {interest[f] : f \in Reported(s)}] /\ pc[s] = "poll"
    BY <1>14 DEF Poll
  <2>2. batch[s] = {} /\ batch'[s] = {interest[f] : f \in Reported(s)}
        /\ \A r \in Shards : r # s => batch'[r] = batch[r]
    BY <2>1 DEF Idle, TypeOK
  <2>3. SUFFICES ASSUME NEW k \in byToken \intersect FdTokens, Lost(k)', k \notin batch'[ShardOfToken(k)]
                 PROVE  Lost(k) /\ (k \in batch[ShardOfToken(k)] => k \in batch'[ShardOfToken(k)])
    BY <1>1, <2>1
  <2>4. ShardOfToken(k) = ShardOf[FdOf(k)] /\ ShardOfToken(k) \in Shards
    BY FdTokenFacts
  <2>5. CASE FdOf(k) \in edge
    <3>1. ShardOfToken(k) = s /\ FdOf(k) \in Reported(s)
      BY <2>1, <2>3, <2>4, <2>5 DEF Reported
    <3>2. QED
      BY <2>1, <2>2, <2>3, <3>1
  <2>6. CASE FdOf(k) \notin edge
    BY <2>1, <2>2, <2>3, <2>4, <2>6
  <2>7. QED
    BY <2>5, <2>6
<1>15. ASSUME NEW s \in Shards, Translate(s) \/ Collect(s) PROVE NoLostReadiness'
  <2>1. UNCHANGED <<byToken, interest, ready, edge>>
    BY <1>15 DEF Translate, Collect
  <2>2. batch[s] \intersect byToken \subseteq batch'[s]
    BY <1>15 DEF Translate, Collect, Idle, TypeOK
  <2>3. \A r \in Shards : r # s => batch'[r] = batch[r]
    BY <1>15 DEF Translate, Collect, TypeOK
  <2>4. QED
    BY <1>1, <2>1, <2>2, <2>3, FdTokenFacts
<1>16. ASSUME NEW s \in Shards, NEW k, Claim(s, k) PROVE NoLostReadiness'
  <2>1. UNCHANGED <<interest, ready, edge>> /\ byToken' = byToken \ {k}
        /\ batch' = [batch EXCEPT ![s] = batch[s] \ {k}]
    BY <1>16 DEF Claim
  <2>2. \A r \in Shards : batch[r] \ {k} \subseteq batch'[r]
    BY <2>1 DEF TypeOK
  <2>3. QED
    BY <1>1, <2>1, <2>2, FdTokenFacts
<1>17. ASSUME NEW s \in Shards, InvokeCoro(s) PROVE NoLostReadiness'
  <2>1. current[s] \in FdTokens
    BY <1>17, TokenFacts DEF InvokeCoro, Wired, Busy, Parkers
  <2>2. UNCHANGED <<ready, batch>> /\ byToken' \subseteq byToken
        /\ interest' = [interest EXCEPT ![FdOf(current[s])] = None] /\ edge' = edge \ {FdOf(current[s])}
    BY <1>17 DEF InvokeCoro, Deregister
  <2>3. ASSUME NEW tok \in FdTokens, Lost(tok)' PROVE Lost(tok)
    <3>1. FdOf(tok) # FdOf(current[s]) /\ FdOf(tok) \in Fds
      BY <2>1, <2>2, <2>3, FdTokenFacts DEF TypeOK
    <3>2. QED
      BY <2>2, <2>3, <3>1 DEF TypeOK
  <2>4. QED
    BY <1>1, <2>2, <2>3
<1>18. ASSUME NEW f \in Fds, DataArrives(f) PROVE NoLostReadiness'
  <2>1. UNCHANGED <<byToken, interest, batch>> /\ ready' = ready \union {f}
        /\ edge' = IF interest[f] # None THEN edge \union {f} ELSE edge
    BY <1>18 DEF DataArrives
  <2>2. \A k \in FdTokens : k # None
    BY FdTokenFacts
  <2>3. ASSUME NEW k \in FdTokens, Lost(k)' PROVE Lost(k)
    BY <2>1, <2>2, <2>3
  <2>4. QED
    BY <1>1, <2>1, <2>3
<1>19. QED
  BY <1>2, <1>3, <1>4, <1>5, <1>8, <1>9, <1>10, <1>11, <1>12, <1>13, <1>14, <1>15, <1>16, <1>17, <1>18
     DEF Next, Body, Registering, Dispatcher

-----------------------------------------------------------------------------
(***************************************************************************)
(* Frames and handles.                                                     *)
(***************************************************************************)

\* What Live says of one coroutine.
LiveTask(t) ==
  /\ at[t] \in {"new", "body", "parked"} => t \notin signalled
  /\ at[t] \in {"body", "parked"} => t \in frames \intersect handles
  /\ \A tok \in byToken : tok[1] = t => at[t] = "parked" /\ tok = Last(t)
  /\ \A s \in Shards : Holds(s, t) =>
       /\ at[t] = "parked" /\ current[s] = Last(t) /\ Last(t) \notin byToken
       /\ \A r \in Shards : Holds(r, t) => r = s

LEMMA LiveByTask == Live <=> \A t \in Coros : LiveTask(t)
BY DEF Live, LiveTask

\* A step that leaves a coroutine alone.
LEMMA LiveElsewhere ==
  ASSUME NEW t \in Coros, LiveTask(t),
         at'[t] = at[t], park'[t] = park[t], t \in signalled' => t \in signalled,
         t \in frames \intersect handles => t \in frames' \intersect handles',
         \A k \in byToken' : k[1] = t => k \in byToken,
         \A s \in Shards : Holds(s, t)' => Holds(s, t) /\ current'[s] = current[s]
  PROVE  LiveTask(t)'
<1>1. Last(t)' = Last(t)
  BY DEF Last
<1>2. Last(t)[1] = t
  BY DEF Last
<1>3. \A k \in byToken' : k[1] = t => at'[t] = "parked" /\ k = Last(t)'
  BY <1>1 DEF LiveTask
<1>4. ASSUME NEW s \in Shards, Holds(s, t)'
      PROVE  /\ at'[t] = "parked" /\ current'[s] = Last(t)' /\ Last(t)' \notin byToken'
             /\ \A r \in Shards : Holds(r, t)' => r = s
  BY <1>1, <1>2, <1>4 DEF LiveTask
<1>5. QED
  BY <1>3, <1>4 DEF LiveTask

\* A coroutine parks before its entry is published, is claimed by one dispatcher
\* thread, and signals only once nothing can find it any more.
LEMMA LiveStep ==
  ASSUME TypeOK, Wired, Live, Next
  PROVE  Live'
<1> DEFINE Calm == /\ \A t \in Coros : at'[t] = at[t]
                   /\ \A t \in Coros : t \in signalled' => t \in signalled
                   /\ UNCHANGED <<park, frames, handles>>
                   /\ \A k \in byToken' : k[1] \in Coros => k \in byToken
                   /\ \A s \in Shards, t \in Coros : Holds(s, t)' => Holds(s, t) /\ current'[s] = current[s]
<1>1. CASE Calm
  <2>1. \A t \in Coros : LiveTask(t)'
    BY <1>1, LiveByTask, LiveElsewhere
  <2>2. QED
    BY <2>1 DEF Live, LiveTask
<1>2. ASSUME NEW c \in Coros, \A t \in Coros : t # c =>
               /\ at'[t] = at[t] /\ park'[t] = park[t] /\ (t \in signalled' => t \in signalled)
               /\ t \in frames \intersect handles => t \in frames' \intersect handles'
               /\ \A k \in byToken' : k[1] = t => k \in byToken
               /\ \A s \in Shards : Holds(s, t)' => Holds(s, t) /\ current'[s] = current[s],
             LiveTask(c)'
      PROVE  Live'
  <2>1. \A t \in Coros : t # c => LiveTask(t)'
    BY <1>2, LiveByTask, LiveElsewhere
  <2>2. \A t \in Coros : LiveTask(t)'
    BY <1>2, <2>1
  <2>3. QED
    BY <2>2 DEF Live, LiveTask
<1>3. UNCHANGED <<pc, current>> => \A s \in Shards, t \in Coros : Holds(s, t)' => Holds(s, t) /\ current'[s] = current[s]
  BY DEF Holds
<1>4. ASSUME NEW s \in Shards, NEW l \in Pcs, pc' = [pc EXCEPT ![s] = l],
             \A r \in Shards : r # s => current'[r] = current[r],
             l \in {"top", "poll", "got", "claim", "collect", "shim"}
      PROVE  \A r \in Shards, t \in Coros : Holds(r, t)' => r # s /\ Holds(r, t) /\ current'[r] = current[r]
  BY <1>4 DEF Holds, TypeOK
<1>5. ASSUME NEW t, DataArrives(t) \/ Tick \/ SetCancel(t) \/ Canceller(t) PROVE Calm
  BY <1>3, <1>5 DEF DataArrives, Tick, SetCancel, Canceller, CancelRequest, CancelFanOut
<1>6. ASSUME StartDispatcher PROVE Calm
  BY <1>6 DEF StartDispatcher, Holds
<1>7. ASSUME NEW k, Arm(k) \/ RecheckCancel(k) \/ RampRequest(k) \/ RampFanOut(k) \/ StoreToken(k) \/ WakeShard(k)
      PROVE  Calm
  BY <1>3, <1>7 DEF Arm, RecheckCancel, RampRequest, RampFanOut, StoreToken, WakeShard
<1>8. ASSUME NEW z \in Sleepers, NEW d, Sleep(z, d) PROVE Calm
  <2>1. byToken' = byToken \union {<<z, 1>>} /\ at' = [at EXCEPT ![z] = "parked"]
        /\ UNCHANGED <<pc, current, park, signalled, frames, handles>>
    BY <1>8 DEF Sleep
  <2>2. z \notin Coros /\ <<z, 1>>[1] = z
    OBVIOUS
  <2>3. QED
    BY <1>3, <2>1, <2>2 DEF TypeOK
<1>9. ASSUME NEW t \in Callers \union Sleepers, SlotWaitReturns(t) PROVE Calm
  <2>1. t \notin Coros
    OBVIOUS
  <2>2. byToken' \subseteq byToken /\ signalled' \subseteq signalled
        /\ UNCHANGED <<pc, current, park, frames, handles>>
    BY <1>9 DEF SlotWaitReturns, Deregister
  <2>3. \E l : at' = [at EXCEPT ![t] = l]
    BY <1>9 DEF SlotWaitReturns
  <2>4. QED
    BY <1>3, <2>1, <2>2, <2>3 DEF TypeOK
<1>10. ASSUME NEW s \in Shards, EnterPoll(s) \/ Poll(s) \/ PollFails(s) \/ Translate(s) \/ FinishBatch(s)
                                \/ Collect(s)
       PROVE  Calm
  <2>1. UNCHANGED <<byToken, current, at, park, signalled, frames, handles>>
    BY <1>10 DEF EnterPoll, Poll, PollFails, Translate, FinishBatch, Collect
  <2>2. \E l \in {"top", "poll", "got", "claim", "collect"} : pc' = [pc EXCEPT ![s] = l]
    BY <1>10 DEF EnterPoll, Poll, PollFails, Translate, FinishBatch, Collect, Goto
  <2>3. QED
    BY <1>4, <2>1, <2>2 DEF Pcs
<1>11. ASSUME NEW s \in Shards, InvokeBlocked(s) PROVE Calm
  <2>1. current' = [current EXCEPT ![s] = None] /\ pc' = [pc EXCEPT ![s] = "claim"]
        /\ signalled' = signalled \union {current[s][1]} /\ current[s][1] \notin Coros
        /\ UNCHANGED <<byToken, at, park, frames, handles>>
    BY <1>11 DEF InvokeBlocked, Goto
  <2>2. \A r \in Shards : r # s => current'[r] = current[r]
    BY <2>1 DEF TypeOK
  <2>3. QED
    BY <1>4, <2>1, <2>2 DEF Pcs
<1>12. ASSUME NEW s \in Shards, InvokeCoro(s) PROVE Calm
  <2>1. byToken' \subseteq byToken /\ UNCHANGED <<current, at, park, signalled, frames, handles>>
        /\ pc[s] = "invoke"
    BY <1>12 DEF InvokeCoro, Deregister
  <2>2. \E l : pc' = [pc EXCEPT ![s] = l]
    BY <1>12 DEF InvokeCoro, Goto
  <2>3. \A r \in Shards, t \in Coros : Holds(r, t)' => Holds(r, t)
    BY <2>1, <2>2 DEF Holds, TypeOK
  <2>4. QED
    BY <2>1, <2>3
<1>13. ASSUME NEW t \in Parkers, Begin(t) PROVE Live'
  <2>1. at[t] = "new" /\ at' = [at EXCEPT ![t] = "body"]
        /\ frames' = frames \union ({t} \intersect Coros) /\ handles' = handles \union ({t} \intersect Coros)
        /\ UNCHANGED <<byToken, pc, current, park, signalled>>
    BY <1>13 DEF Begin
  <2>2. \A u \in Coros : u # t => at'[u] = at[u]
    BY <2>1 DEF TypeOK
  <2>3. CASE t \in Coros
    <3>1. LiveTask(t)
      BY <2>3, LiveByTask
    <3>2. at'[t] = "body"
      BY <2>1 DEF TypeOK
    <3>3. ~\E s \in Shards : Holds(s, t)'
      BY <2>1, <3>1 DEF LiveTask, Holds
    <3>4. LiveTask(t)'
      BY <2>1, <2>3, <3>1, <3>2, <3>3 DEF LiveTask
    <3>5. QED
      BY <1>2, <1>3, <2>1, <2>2, <2>3, <3>4
  <2>4. CASE t \notin Coros
    BY <1>1, <1>3, <2>1, <2>2, <2>4
  <2>5. QED
    BY <2>3, <2>4
<1>14. ASSUME NEW t \in Parkers, Publish(t) PROVE Live'
  <2>1. /\ at[t] = "body" /\ at' = [at EXCEPT ![t] = "parked"]
        /\ park' = [park EXCEPT ![t] = park[t] + 1] /\ byToken' = byToken \union {<<t, park[t] + 1>>}
        /\ UNCHANGED <<pc, current, signalled, frames, handles>>
    BY <1>14 DEF Publish
  <2>2. at'[t] = "parked" /\ park'[t] = park[t] + 1
    BY <2>1 DEF TypeOK
  <2>3. ASSUME NEW u \in Coros, u # t
        PROVE  /\ at'[u] = at[u] /\ park'[u] = park[u]
               /\ \A k \in byToken' : k[1] = u => k \in byToken
    BY <2>1, <2>3 DEF TypeOK, Parkers
  <2>4. CASE t \in Coros
    <3>1. LiveTask(t)
      BY <2>4, LiveByTask
    <3>2. ~\E s \in Shards : Holds(s, t)'
      BY <2>1, <3>1 DEF LiveTask, Holds
    <3>3. \A k \in byToken' : k[1] = t => k = Last(t)'
      BY <2>1, <2>2, <3>1 DEF LiveTask, Last
    <3>4. LiveTask(t)'
      BY <2>1, <2>2, <3>1, <3>2, <3>3 DEF LiveTask
    <3>5. QED
      BY <1>2, <1>3, <2>1, <2>3, <2>4, <3>4
  <2>5. CASE t \notin Coros
    <3>1. \A u \in Coros : LiveTask(u)'
      BY <1>3, <2>1, <2>3, <2>5, LiveByTask, LiveElsewhere
    <3>2. QED
      BY <3>1 DEF Live, LiveTask
  <2>6. QED
    BY <2>4, <2>5
<1>15. ASSUME NEW t \in Parkers, Complete(t) PROVE Live'
  <2>1. at[t] = "body" /\ at' = [at EXCEPT ![t] = IF t \in Coros THEN "final" ELSE "ended"]
        /\ signalled' = signalled \union ({t} \intersect Coros)
        /\ UNCHANGED <<byToken, pc, current, park, frames, handles>>
    BY <1>15 DEF Complete
  <2>2. \A u \in Coros : u # t => at'[u] = at[u]
    BY <2>1 DEF TypeOK
  <2>3. CASE t \in Coros
    <3>1. LiveTask(t)
      BY <2>3, LiveByTask
    <3>2. at'[t] = "final"
      BY <2>1, <2>3 DEF TypeOK
    <3>3. ~\E s \in Shards : Holds(s, t)'
      BY <2>1, <3>1 DEF LiveTask, Holds
    <3>4. LiveTask(t)'
      BY <2>1, <3>1, <3>2, <3>3 DEF LiveTask
    <3>5. QED
      BY <1>2, <1>3, <2>1, <2>2, <2>3, <3>4
  <2>4. CASE t \notin Coros
    BY <1>1, <1>3, <2>1, <2>2, <2>4
  <2>5. QED
    BY <2>3, <2>4
<1>16. ASSUME NEW t \in Coros, FreeHandle(t) PROVE Live'
  <2>1. t \in signalled /\ handles' = handles \ {t}
        /\ UNCHANGED <<byToken, pc, current, at, park, signalled, frames>>
    BY <1>16 DEF FreeHandle
  <2>2. LiveTask(t) /\ Last(t)' = Last(t) /\ \A s \in Shards : Holds(s, t)' <=> Holds(s, t)
    BY <2>1, LiveByTask DEF Last, Holds
  <2>3. LiveTask(t)'
    BY <2>1, <2>2 DEF LiveTask
  <2>4. QED
    BY <1>2, <1>3, <2>1, <2>3
<1>17. ASSUME NEW s \in Shards, NEW k \in Tokens, Claim(s, k) PROVE Live'
  <2>1. byToken' = byToken \ {k} /\ pc[s] = "claim" /\ UNCHANGED <<at, park, signalled, frames, handles>>
    BY <1>17 DEF Claim
  <2>2. CASE k \notin byToken
    <3>1. UNCHANGED <<pc, current>>
      BY <1>17, <2>2 DEF Claim
    <3>2. QED
      BY <1>1, <1>3, <2>1, <3>1
  <2>3. CASE k \in byToken
    <3>1. current' = [current EXCEPT ![s] = k] /\ pc' = [pc EXCEPT ![s] = "invoke"]
      BY <1>17, <2>3 DEF Claim, Goto
    <3>2. \A r \in Shards : \A u : Holds(r, u)' => IF r = s THEN u = k[1] ELSE Holds(r, u) /\ current'[r] = current[r]
      BY <3>1 DEF Holds, TypeOK
    <3>3. CASE k[1] \in Coros
      <4>1. LiveTask(k[1])
        BY <3>3, LiveByTask
      <4>2. at[k[1]] = "parked" /\ k = Last(k[1]) /\ Last(k[1])' = Last(k[1])
        BY <2>1, <2>3, <4>1 DEF LiveTask, Last
      <4>3. \A r \in Shards : ~Holds(r, k[1])
        BY <2>3, <4>1, <4>2 DEF LiveTask
      <4>4. current'[s] = k
        BY <3>1 DEF TypeOK
      <4>5. \A r \in Shards : Holds(r, k[1])' => r = s
        BY <3>2, <4>3
      <4>6. LiveTask(k[1])'
        BY <2>1, <4>1, <4>2, <4>4, <4>5 DEF LiveTask
      <4>7. QED
        BY <1>2, <2>1, <3>2, <3>3, <4>6
    <3>4. CASE k[1] \notin Coros
      BY <1>1, <2>1, <3>2, <3>4
    <3>5. QED
      BY <3>3, <3>4
  <2>4. QED
    BY <2>2, <2>3
<1>18. ASSUME NEW s \in Shards, pc[s] \in {"destroy", "resume", "shim"}
       PROVE  current[s][1] \in Coros /\ current[s][1] \in Parkers \union Sleepers
  BY <1>18 DEF Wired, Parkers
<1>19. ASSUME NEW s \in Shards, DestroyEdge(s) \/ ResumeEdge(s) PROVE Live'
  <2>0. PICK c : c = current[s][1]
    OBVIOUS
  <2>1. c \in Coros /\ LiveTask(c) /\ Holds(s, c)
    BY <2>0, <1>18, <1>19, LiveByTask DEF DestroyEdge, ResumeEdge, Holds
  <2>2. at[c] = "parked" /\ (\A k \in byToken : k[1] # c) /\ \A r \in Shards : Holds(r, c) => r = s
    BY <2>1 DEF LiveTask
  <2>3. c \notin signalled /\ c \in frames \intersect handles
    BY <2>1, <2>2 DEF LiveTask
  <2>4. UNCHANGED <<byToken, park, handles>>
    BY <1>19 DEF DestroyEdge, ResumeEdge
  <2>5. \E l \in {"claim", "shim"} : pc' = [pc EXCEPT ![s] = l]
    BY <1>19 DEF DestroyEdge, ResumeEdge, Goto
  <2>6. \A r \in Shards : r # s => current'[r] = current[r]
    BY <1>19 DEF DestroyEdge, ResumeEdge, TypeOK
  <2>7. \A r \in Shards, t \in Coros : Holds(r, t)' => r # s /\ Holds(r, t) /\ current'[r] = current[r]
    BY <1>4, <2>5, <2>6 DEF Pcs
  <2>8. \/ /\ at' = [at EXCEPT ![c] = "ended"] /\ signalled' = signalled \union {c} /\ frames' = frames \ {c}
        \/ /\ at' = [at EXCEPT ![c] = "body"] /\ UNCHANGED <<signalled, frames>>
    BY <1>19, <2>0 DEF DestroyEdge, ResumeEdge
  <2>9. \A t \in Coros : t # c => at'[t] = at[t]
    <3>1. \E l : at' = [at EXCEPT ![c] = l]
      BY <2>8
    <3>2. QED
      BY <3>1 DEF TypeOK, Parkers
  <2>10. \A t \in Coros : t # c => (t \in signalled' => t \in signalled) /\ (t \in frames => t \in frames')
    BY <2>8
  <2>11. \/ at'[c] = "ended"
         \/ at'[c] = "body" /\ UNCHANGED <<signalled, frames>>
    BY <2>1, <2>8 DEF TypeOK, Parkers
  <2>12. LiveTask(c)'
    BY <2>1, <2>2, <2>3, <2>4, <2>7, <2>11 DEF LiveTask
  <2>13. QED
    BY <1>2, <2>1, <2>4, <2>7, <2>9, <2>10, <2>12
<1>20. ASSUME NEW s \in Shards, ShimDone(s) PROVE Live'
  <2>0. PICK c : c = current[s][1]
    OBVIOUS
  <2>1. c \in Coros /\ LiveTask(c)
    BY <2>0, <1>18, <1>20, LiveByTask DEF ShimDone
  <2>2. UNCHANGED <<byToken, park, signalled, handles>> /\ pc' = [pc EXCEPT ![s] = "claim"]
        /\ current' = [current EXCEPT ![s] = None]
    BY <1>20 DEF ShimDone, Goto
  <2>3. \A r \in Shards : r # s => current'[r] = current[r]
    BY <2>2 DEF TypeOK
  <2>4. \A r \in Shards, t \in Coros : Holds(r, t)' => r # s /\ Holds(r, t) /\ current'[r] = current[r]
    BY <1>4, <2>2, <2>3 DEF Pcs
  <2>5. CASE at[c] = "final"
    <3>1. frames' = frames \ {c} /\ at' = [at EXCEPT ![c] = "ended"]
      BY <1>20, <2>0, <2>5 DEF ShimDone
    <3>2. at'[c] = "ended" /\ \A t \in Coros : t # c => at'[t] = at[t]
      BY <2>1, <3>1 DEF TypeOK, Parkers
    <3>3. (\A k \in byToken : k[1] # c) /\ \A r \in Shards : ~Holds(r, c)
      BY <2>1, <2>5 DEF LiveTask
    <3>4. LiveTask(c)'
      BY <2>1, <2>2, <2>4, <3>2, <3>3 DEF LiveTask
    <3>5. QED
      BY <1>2, <2>1, <2>2, <2>4, <3>1, <3>2, <3>4
  <2>6. CASE at[c] # "final"
    <3>1. UNCHANGED <<frames, at>>
      BY <1>20, <2>0, <2>6 DEF ShimDone
    <3>2. QED
      BY <1>1, <2>2, <2>4, <3>1
  <2>7. QED
    BY <2>5, <2>6
<1>21. QED
  BY <1>1, <1>5, <1>6, <1>7, <1>8, <1>9, <1>10, <1>11, <1>12, <1>13, <1>14, <1>15, <1>16, <1>17,
     <1>19, <1>20
     DEF Next, Body, Registering, Dispatcher

-----------------------------------------------------------------------------
(***************************************************************************)
(* The theorems.                                                           *)
(***************************************************************************)
LEMMA InitIInv == Init => IInv
<1> SUFFICES ASSUME Init PROVE IInv
  OBVIOUS
<1>1. TypeOK
  <2>1. PICK prog \in Programs :
          at = [t \in Parkers \union Sleepers |-> IF t \in prog THEN "new" ELSE "ended"]
    BY DEF Init
  <2>2. at \in [Parkers \union Sleepers -> Places]
    BY <2>1 DEF Places
  <2>3. pc \in [Shards -> Pcs] /\ ramp \in [Tokens -> RampSteps]
    BY DEF Init, Pcs, RampSteps
  <2>4. /\ deadline \in [Sleepers -> 0..MaxTime] /\ now \in 0..MaxTime
        /\ timeout \in [Shards -> (0..MaxTime) \union {None}]
    BY DEF Init
  <2>5. /\ interest \in [Fds -> FdTokens \union {None}] /\ open \in [Fds -> Parkers \union {None}]
        /\ batch \in [Shards -> SUBSET Tokens] /\ current \in [Shards -> Tokens \union {None}]
        /\ park \in [Parkers -> Nat] /\ canceller \in [Coros -> {"no", "flag", "request", "done"}]
    BY DEF Init
  <2>6. started \in BOOLEAN /\ sweeping \in [Shards -> BOOLEAN]
    BY DEF Init
  <2>7. /\ byToken = {} /\ timers = {} /\ edge = {} /\ ready = {} /\ waker = {} /\ sweep = {}
        /\ cancel = {} /\ signalled = {} /\ frames = {} /\ handles = {}
    BY DEF Init
  <2>8. QED
    BY <2>2, <2>3, <2>4, <2>5, <2>6, <2>7 DEF TypeOK
<1>2. Wired /\ Idle /\ StartedFirst
  BY DEF Init, Wired, Busy, Idle, StartedFirst
<1>3. Live
  <2>1. \A t \in Coros : at[t] \in {"new", "ended"}
    BY DEF Init, Parkers
  <2>2. QED
    BY <2>1 DEF Init, Live, Holds
<1>4. SweepCovers /\ RequestedShardAwake /\ NoTimerOverslept /\ NoLostReadiness
  BY DEF Init, SweepCovers, RequestedShardAwake, NoTimerOverslept, NoLostReadiness
<1>5. Armed
  BY FdTokenFacts DEF Init, Armed
<1>6. QED
  BY <1>1, <1>2, <1>3, <1>4, <1>5 DEF IInv

LEMMA NextIInv ==
  ASSUME IInv, [Next]_vars
  PROVE  IInv'
<1>1. CASE Next
  <2>1. TypeOK' /\ Wired'
    BY <1>1, TypeStep, WiredStep DEF IInv
  <2>2. Idle' /\ StartedFirst'
    BY <1>1, IdleStep, StartedStep DEF IInv
  <2>3. Live'
    BY <1>1, LiveStep DEF IInv
  <2>4. SweepCovers' /\ RequestedShardAwake'
    BY <1>1, CoversStep, AwakeStep DEF IInv
  <2>5. NoTimerOverslept' /\ Armed' /\ NoLostReadiness'
    BY <1>1, TimerStep, ArmedStep, ReadyStep DEF IInv
  <2>6. QED
    BY <2>1, <2>2, <2>3, <2>4, <2>5 DEF IInv
<1>2. CASE UNCHANGED vars
  <2>1. TypeOK' /\ Wired' /\ Idle' /\ StartedFirst'
    BY <1>2 DEF vars, IInv, TypeOK, Wired, Idle, StartedFirst
  <2>2. Live'
    BY <1>2 DEF vars, IInv, Live, Holds, Last
  <2>3. SweepCovers' /\ RequestedShardAwake'
    BY <1>2 DEF vars, IInv, SweepCovers, RequestedShardAwake
  <2>4. NoTimerOverslept' /\ Armed' /\ NoLostReadiness'
    BY <1>2 DEF vars, IInv, NoTimerOverslept, Armed, NoLostReadiness
  <2>5. QED
    BY <2>1, <2>2, <2>3, <2>4 DEF IInv
<1>3. QED
  BY <1>1, <1>2

\* The inductive invariant holds in every reachable state of the reactor.
THEOREM Invariance == Spec => []IInv
BY InitIInv, NextIInv, PTL DEF Spec

\* Every variable of the shards, the dispatcher threads and the tasks keeps its
\* type; in particular only tokens get into a batch, and a poll's timeout is a
\* time or none.
THEOREM TypeCorrect == Spec => []TypeOK
<1>1. IInv => TypeOK
  BY DEF IInv
<1>2. QED
  BY <1>1, Invariance, PTL

\* What a dispatcher thread dereferences is allocated: the flag of every
\* registered coroutine (collect_cancelled), and the record and flag of the one
\* it has claimed (take_registration_with_cancel) up to the edge it runs.
THEOREM DereferencesAreLive == Spec => []DispatcherDerefsLive
<1>1. IInv => DispatcherDerefsLive
  BY TokenFacts DEF IInv, Live, Holds, DispatcherDerefsLive, TypeOK
<1>2. QED
  BY <1>1, Invariance, PTL

\* Edge-triggered readiness is never lost between the epoll set and the batch of
\* the descriptor's dispatcher thread.
THEOREM ReadinessNotLost == Spec => []NoLostReadiness
<1>1. IInv => NoLostReadiness
  BY DEF IInv
<1>2. QED
  BY <1>1, Invariance, PTL

\* A cancelled coroutine that stays registered is covered by a sweep, whichever
\* of the cancelling and the registering thread looked first.
THEOREM CancelIsFound == Spec => []SweepWillFind
<1>1. IInv => SweepWillFind
  BY DEF IInv, SweepCovers, SweepWillFind
<1>2. QED
  BY <1>1, Invariance, PTL

\* No poll sleeps past a registered deadline, and no registered timer drops out
\* of the heap unless a dispatcher thread has it.
THEOREM TimersInTime == Spec => []NoTimerOverslept
<1>1. IInv => NoTimerOverslept
  BY DEF IInv
<1>2. QED
  BY <1>1, Invariance, PTL
=============================================================================
