------------------------- MODULE EventLoopReachProofs -------------------------
(***************************************************************************)
(* A suspended task of EventLoop can be found by somebody who will resume  *)
(* it, in a program whose tasks do not reuse each other's descriptor       *)
(* numbers and whose frames hold no other task's token.  With reuse it     *)
(* fails: the registering thread of a destroyed coroutine can still arm    *)
(* its number, then open for another task, whose own registration is       *)
(* refused and rolled back.  With a foreign word it fails too: a coroutine *)
(* resumed before its token was stored deregisters somebody else.          *)
(***************************************************************************)
EXTENDS EventLoopProofs

\* No two tasks of one program park on the same descriptor number.
OwnNumbers ==
  \A prog \in Programs : \A t, u \in prog \intersect Parkers :
    t # u => FdsOf(t) \intersect FdsOf(u) = {}

\* What a coroutine finds in a token field that was not written yet names no
\* registration of another task.
OwnWords == \A t \in Coros : \A w \in Stray[t] : w[1] = t

\* A registration whose descriptor is not in the epoll set yet.
Unarmed == {"none", "add"}

\* A task that is not in the program that runs.
Out(t) == at[t] = "ended" /\ park[t] = 0

Apart == \A t, u \in Parkers : t # u /\ FdsOf(t) \intersect FdsOf(u) # {} => Out(t) \/ Out(u)

\* A task's descriptors are open exactly while it has a body to go on with.
OpenOwned ==
  /\ \A t \in Parkers : at[t] \in {"body", "parked"} => \A f \in FdsOf(t) : open[f] = t
  /\ \A f \in Fds : open[f] # None => at[open[f]] \in {"body", "parked"} /\ f \in FdsOf(open[f])

\* Only a cancelled coroutine is taken before its descriptor is armed, and one
\* that is about to be resumed is disarmed again.
Resumable ==
  /\ \A s \in Shards : \A tok \in batch[s] :
       tok[1] \in Coros /\ tok[1] \notin cancel => ramp[tok] \notin Unarmed
  /\ \A s \in Shards : pc[s] = "invoke" /\ current[s][1] \in Coros /\ current[s][1] \notin cancel
                         => ramp[current[s]] \notin Unarmed
  /\ \A s \in Shards : pc[s] = "resume" =>
       ramp[current[s]] \notin Unarmed /\ interest[FdOf(current[s])] # current[s]

\* What is armed, or about to be, is the last park of its task.
Registered ==
  /\ \A tok \in FdTokens : ramp[tok] = "add" => tok = Last(tok[1]) /\ at[tok[1]] \in {"parked", "ended"}
  /\ \A f \in Fds : interest[f] # None =>
       /\ interest[f] = Last(interest[f][1]) /\ at[interest[f][1]] = "parked"
       /\ ramp[interest[f]] \notin Unarmed

\* SuspendedIsReachable, with the claim up to the edge it runs.
Reach ==
  \A t \in Parkers : at[t] = "parked" =>
    \/ Last(t) \in byToken \/ t \in signalled
    \/ \E s \in Shards : pc[s] \in {"invoke", "destroy", "resume"} /\ current[s] = Last(t)

RInv ==
  /\ IInv
  /\ Apart
  /\ OpenOwned
  /\ Resumable
  /\ Registered
  /\ Reach

USE KindAssumption, BoundAssumption, NoneAssumption
USE DEF loop, disp, tasks, owned, Step

-----------------------------------------------------------------------------
(***************************************************************************)
(* Facts about a park and about a claimed coroutine.                       *)
(***************************************************************************)
LEMMA LastFacts ==
  ASSUME NEW t
  PROVE  Last(t)[1] = t /\ Last(t)[2] = park[t]
BY DEF Last

LEMMA OwnFd ==
  ASSUME NEW tok \in FdTokens
  PROVE  FdOf(tok) \in FdsOf(tok[1])
<1>1. PICK t \in Parkers : tok \in {<<t, n>> : n \in DOMAIN Route[t]}
  BY DEF FdTokens
<1>2. QED
  BY <1>1 DEF FdOf, FdsOf

LEMMA FdsAreFds ==
  ASSUME NEW t \in Parkers
  PROVE  FdsOf(t) \subseteq Fds
<1>1. Route[t] \in Seq(Fds)
  BY RouteAssumption DEF Parkers
<1>2. QED
  BY <1>1, LenProperties DEF FdsOf

\* A claimed coroutine is parked on the token the dispatcher thread has.
LEMMA ClaimedFacts ==
  ASSUME IInv, NEW s \in Shards, pc[s] \in {"invoke", "destroy", "resume"}, current[s][1] \in Coros
  PROVE  /\ current[s][1] \in Parkers /\ at[current[s][1]] = "parked"
         /\ current[s] = Last(current[s][1]) /\ current[s] \in FdTokens
<1>1. current[s] \in Tokens /\ current[s][1] \in Parkers
  BY DEF IInv, Wired, Busy, Parkers
<1>2. QED
  BY <1>1, TokenFacts DEF IInv, Live, Holds

\* The step that resumes or destroys is on a coroutine.
LEMMA EdgeFacts ==
  ASSUME IInv, NEW s \in Shards, DestroyEdge(s) \/ ResumeEdge(s) \/ ShimDone(s)
  PROVE  current[s][1] \in Coros /\ current[s][1] \in Parkers /\ pc[s] \in {"destroy", "resume", "shim"}
BY DEF IInv, Wired, Parkers, DestroyEdge, ResumeEdge, ShimDone

\* The steps that leave every task where it is.
LEMMA TasksStay ==
  ASSUME \/ StartDispatcher \/ Tick
         \/ \E k : \/ Arm(k) \/ RecheckCancel(k) \/ RampRequest(k) \/ RampFanOut(k) \/ StoreToken(k)
                   \/ WakeShard(k) \/ SetCancel(k) \/ Canceller(k) \/ FreeHandle(k) \/ DataArrives(k)
         \/ \E s : \/ EnterPoll(s) \/ Poll(s) \/ PollFails(s) \/ Translate(s) \/ FinishBatch(s)
                   \/ Collect(s) \/ (\E tok \in Tokens : Claim(s, tok)) \/ InvokeBlocked(s)
                   \/ InvokeCoro(s)
  PROVE  UNCHANGED <<at, park, open>>
BY DEF StartDispatcher, Tick, Arm, RecheckCancel, RampRequest, RampFanOut, StoreToken, WakeShard,
       SetCancel, Canceller, CancelRequest, CancelFanOut, FreeHandle, DataArrives, EnterPoll, Poll,
       PollFails, Translate, FinishBatch, Collect, Claim, InvokeBlocked, InvokeCoro

\* The steps that do not.
LEMMA TasksMove ==
  ASSUME IInv, Next, ~UNCHANGED <<at, park, open>>
  PROVE  \/ \E t \in Parkers : Begin(t) \/ Publish(t) \/ Complete(t)
         \/ \E z \in Sleepers : \E d : Sleep(z, d)
         \/ \E t \in Callers \union Sleepers : SlotWaitReturns(t)
         \/ \E s \in Shards : DestroyEdge(s) \/ ResumeEdge(s) \/ ShimDone(s)
BY TasksStay DEF Next, Body, Registering, Dispatcher

-----------------------------------------------------------------------------
\* A task outside the program stays outside.
LEMMA ApartStep ==
  ASSUME IInv, Apart, Next
  PROVE  Apart'
<1>1. SUFFICES ASSUME NEW t \in Parkers, Out(t), ~UNCHANGED <<at, park, open>> PROVE Out(t)'
  BY DEF Apart, Out
<1>2. ASSUME NEW c, c # t, \E l : at' = [at EXCEPT ![c] = l], park'[t] = park[t] PROVE Out(t)'
  BY <1>1, <1>2 DEF Out, IInv, TypeOK
<1>3. ASSUME NEW c \in Parkers, Begin(c) \/ Complete(c) PROVE Out(t)'
  <2>1. c # t /\ UNCHANGED park /\ \E l : at' = [at EXCEPT ![c] = l]
    BY <1>1, <1>3 DEF Begin, Complete, Out
  <2>2. QED
    BY <1>2, <2>1
<1>4. ASSUME NEW c \in Parkers, Publish(c) PROVE Out(t)'
  <2>1. c # t /\ park' = [park EXCEPT ![c] = park[c] + 1] /\ at' = [at EXCEPT ![c] = "parked"]
    BY <1>1, <1>4 DEF Publish, Out
  <2>2. park'[t] = park[t]
    BY <2>1 DEF IInv, TypeOK
  <2>3. QED
    BY <1>2, <2>1, <2>2
<1>5. ASSUME NEW z \in Sleepers, NEW d, Sleep(z, d) PROVE Out(t)'
  <2>1. z # t /\ UNCHANGED park /\ \E l : at' = [at EXCEPT ![z] = l]
    BY <1>5 DEF Sleep, Parkers
  <2>2. QED
    BY <1>2, <2>1
<1>6. ASSUME NEW c \in Callers \union Sleepers, SlotWaitReturns(c) PROVE Out(t)'
  <2>1. c # t /\ UNCHANGED park /\ \E l : at' = [at EXCEPT ![c] = l]
    BY <1>1, <1>6 DEF SlotWaitReturns, Out
  <2>2. QED
    BY <1>2, <2>1
<1>7. ASSUME NEW s \in Shards, DestroyEdge(s) \/ ResumeEdge(s) PROVE Out(t)'
  <2>1. current[s][1] # t
    BY <1>1, <1>7, EdgeFacts, ClaimedFacts DEF DestroyEdge, ResumeEdge, Out
  <2>2. UNCHANGED park /\ \E l : at' = [at EXCEPT ![current[s][1]] = l]
    BY <1>7 DEF DestroyEdge, ResumeEdge
  <2>3. QED
    BY <1>2, <2>1, <2>2
<1>8. ASSUME NEW s \in Shards, ShimDone(s) PROVE Out(t)'
  <2>1. UNCHANGED park
    BY <1>8 DEF ShimDone
  <2>2. \/ at' = at
        \/ at[current[s][1]] = "final" /\ at' = [at EXCEPT ![current[s][1]] = "ended"]
    BY <1>8 DEF ShimDone
  <2>3. QED
    BY <1>1, <1>2, <2>1, <2>2 DEF Out
<1>9. QED
  BY <1>1, <1>3, <1>4, <1>5, <1>6, <1>7, <1>8, TasksMove

\* Descriptors are closed by the step that ends the body.
LEMMA OwnedStep ==
  ASSUME IInv, OpenOwned, Next
  PROVE  OpenOwned'
<1> DEFINE Alive(l) == l \in {"body", "parked"}
<1>1. CASE UNCHANGED <<at, park, open>>
  BY <1>1 DEF OpenOwned
<1>2. \A f \in Fds : open[f] # None => open[f] \in Parkers
  BY DEF IInv, TypeOK
<1>3. ASSUME NEW c, UNCHANGED open, NEW l, at' = [at EXCEPT ![c] = l],
             c \in Parkers => (Alive(at[c]) <=> Alive(l))
      PROVE  OpenOwned'
  <2>1. \A t \in Parkers : Alive(at'[t]) <=> Alive(at[t])
    BY <1>3 DEF IInv, TypeOK
  <2>2. QED
    BY <1>2, <1>3, <2>1 DEF OpenOwned
<1>4. ASSUME NEW c \in Parkers, Close(c), NEW l, at' = [at EXCEPT ![c] = l], ~Alive(l)
      PROVE  OpenOwned'
  <2>1. ~Alive(at'[c]) /\ \A t \in Parkers : t # c => at'[t] = at[t]
    BY <1>4 DEF IInv, TypeOK
  <2>2. \A f \in Fds : open'[f] = IF open[f] = c THEN None ELSE open[f]
    BY <1>4 DEF Close
  <2>3. ASSUME NEW t \in Parkers, Alive(at'[t]), NEW f \in FdsOf(t) PROVE open'[f] = t
    BY <2>1, <2>2, <2>3, FdsAreFds DEF OpenOwned
  <2>4. ASSUME NEW f \in Fds, open'[f] # None PROVE Alive(at'[open'[f]]) /\ f \in FdsOf(open'[f])
    BY <1>2, <2>1, <2>2, <2>4 DEF OpenOwned
  <2>5. QED
    BY <2>3, <2>4 DEF OpenOwned
<1>5. ASSUME NEW c \in Parkers, Begin(c) PROVE OpenOwned'
  <2>1. at[c] = "new" /\ at' = [at EXCEPT ![c] = "body"] /\ \A f \in FdsOf(c) : open[f] = None
    BY <1>5 DEF Begin
  <2>2. at'[c] = "body" /\ \A t \in Parkers : t # c => at'[t] = at[t]
    BY <2>1 DEF IInv, TypeOK
  <2>3. \A f \in Fds : open'[f] = IF f \in FdsOf(c) THEN c ELSE open[f]
    BY <1>5 DEF Begin
  <2>4. ASSUME NEW t \in Parkers, Alive(at'[t]), NEW f \in FdsOf(t) PROVE open'[f] = t
    BY <2>1, <2>2, <2>3, <2>4, FdsAreFds DEF OpenOwned
  <2>5. ASSUME NEW f \in Fds, open'[f] # None PROVE Alive(at'[open'[f]]) /\ f \in FdsOf(open'[f])
    BY <1>2, <2>1, <2>2, <2>3, <2>5 DEF OpenOwned
  <2>6. QED
    BY <2>4, <2>5 DEF OpenOwned
<1>6. ASSUME NEW c \in Parkers, Publish(c) PROVE OpenOwned'
  BY <1>3, <1>6 DEF Publish
<1>7. ASSUME NEW z \in Sleepers, NEW d, Sleep(z, d) PROVE OpenOwned'
  BY <1>3, <1>7 DEF Sleep, Parkers
<1>8. ASSUME NEW c \in Callers \union Sleepers, SlotWaitReturns(c) PROVE OpenOwned'
  <2>1. UNCHANGED open /\ at[c] = "parked"
    BY <1>8 DEF SlotWaitReturns
  <2>2. \/ c \in Callers /\ at' = [at EXCEPT ![c] = "body"]
        \/ c \notin Parkers /\ at' = [at EXCEPT ![c] = "ended"]
    BY <1>8 DEF SlotWaitReturns, Parkers
  <2>3. CASE c \in Callers /\ at' = [at EXCEPT ![c] = "body"]
    BY <1>3, <2>1, <2>3
  <2>4. CASE c \notin Parkers /\ at' = [at EXCEPT ![c] = "ended"]
    BY <1>3, <2>1, <2>4
  <2>5. QED
    BY <2>2, <2>3, <2>4
<1>9. ASSUME NEW c \in Parkers, Complete(c) PROVE OpenOwned'
  <2>1. Close(c) /\ \E l \in {"final", "ended"} : at' = [at EXCEPT ![c] = l]
    BY <1>9 DEF Complete
  <2>2. QED
    BY <1>4, <2>1
<1>10. ASSUME NEW s \in Shards, DestroyEdge(s) PROVE OpenOwned'
  <2>1. PICK c : c = current[s][1]
    OBVIOUS
  <2>2. Close(c) /\ at' = [at EXCEPT ![c] = "ended"]
    BY <1>10, <2>1 DEF DestroyEdge
  <2>3. c \in Parkers
    BY <1>10, <2>1, EdgeFacts
  <2>4. ~Alive("ended")
    OBVIOUS
  <2>5. QED
    BY <1>4, <2>2, <2>3, <2>4
<1>11. ASSUME NEW s \in Shards, ResumeEdge(s) PROVE OpenOwned'
  <2>1. UNCHANGED open /\ at' = [at EXCEPT ![current[s][1]] = "body"] /\ pc[s] = "resume"
    BY <1>11 DEF ResumeEdge
  <2>2. at[current[s][1]] = "parked"
    BY <1>11, <2>1, EdgeFacts, ClaimedFacts
  <2>3. QED
    BY <1>3, <2>1, <2>2
<1>12. ASSUME NEW s \in Shards, ShimDone(s) PROVE OpenOwned'
  <2>1. UNCHANGED <<open, park>>
    BY <1>12 DEF ShimDone
  <2>2. \/ at' = at
        \/ at[current[s][1]] = "final" /\ at' = [at EXCEPT ![current[s][1]] = "ended"]
    BY <1>12 DEF ShimDone
  <2>3. QED
    BY <1>1, <1>3, <2>1, <2>2
<1>13. QED
  BY <1>1, <1>5, <1>6, <1>7, <1>8, <1>9, <1>10, <1>11, <1>12, TasksMove

-----------------------------------------------------------------------------
(***************************************************************************)
(* What is armed.                                                          *)
(***************************************************************************)

\* A registration that has been armed stays so in the registering thread's eyes.
LEMMA RampMono ==
  ASSUME IInv, Next, NEW tok \in Tokens, ramp[tok] \notin Unarmed
  PROVE  ramp'[tok] \notin Unarmed
<1>1. TypeOK /\ Armed
  BY DEF IInv
<1>2. CASE UNCHANGED ramp
  BY <1>2
<1>3. ASSUME NEW k \in Tokens, NEW l, l \notin Unarmed, ramp' = [ramp EXCEPT ![k] = l]
      PROVE  ramp'[tok] \notin Unarmed
  BY <1>1, <1>3 DEF TypeOK
<1>4. ASSUME NEW t, \/ StartDispatcher \/ Tick \/ Begin(t) \/ Complete(t) \/ SlotWaitReturns(t)
                    \/ SetCancel(t) \/ Canceller(t) \/ FreeHandle(t) \/ DataArrives(t)
      PROVE  UNCHANGED ramp
  BY <1>4 DEF StartDispatcher, Tick, Begin, Complete, SlotWaitReturns, SetCancel, Canceller,
              CancelRequest, CancelFanOut, FreeHandle, DataArrives
<1>5. ASSUME NEW s, Dispatcher(s) \/ PollFails(s) PROVE UNCHANGED ramp
  BY <1>5 DEF Dispatcher, EnterPoll, Poll, PollFails, Translate, FinishBatch, Collect, Claim,
              InvokeBlocked, InvokeCoro, DestroyEdge, ResumeEdge, ShimDone
<1>6. ASSUME NEW t \in Parkers, Publish(t) PROVE ramp'[tok] \notin Unarmed
  <2>1. ramp' = [ramp EXCEPT ![<<t, park[t] + 1>>] = "add"]
    BY <1>6 DEF Publish
  <2>2. tok # <<t, park[t] + 1>>
    BY <1>1, <1>6, Fresh DEF Unarmed
  <2>3. QED
    BY <1>1, <2>1, <2>2 DEF TypeOK
<1>7. ASSUME NEW k \in Tokens, Registering(k) PROVE ramp'[tok] \notin Unarmed
  <2>1. \E l \in {"wake", "store", "check", "request", "fanout", "done"} : ramp' = [ramp EXCEPT ![k] = l]
    BY <1>7 DEF Registering, Arm, RecheckCancel, RampRequest, RampFanOut, StoreToken, WakeShard
  <2>2. QED
    BY <1>3, <2>1 DEF Unarmed
<1>8. ASSUME NEW z \in Sleepers, NEW d, Sleep(z, d) PROVE ramp'[tok] \notin Unarmed
  <2>1. ramp' = [ramp EXCEPT ![<<z, 1>>] = "wake"] /\ <<z, 1>> \in Tokens
    BY <1>8 DEF Sleep, Tokens
  <2>2. QED
    BY <1>3, <2>1 DEF Unarmed
<1>9. QED
  BY <1>2, <1>4, <1>5, <1>6, <1>7, <1>8 DEF Next, Body

\* A descriptor that is armed is that of a task which has it open.
LEMMA ArmsOwn ==
  ASSUME IInv, Apart, OpenOwned, NEW k \in FdTokens, ramp[k] # "none", open[FdOf(k)] # None
  PROVE  open[FdOf(k)] = k[1] /\ at[k[1]] \in {"body", "parked"}
<1> DEFINE f == FdOf(k)
<1>1. f \in Fds /\ k[1] \in Parkers /\ k[2] \in Nat /\ k[2] > 0 /\ f \in FdsOf(k[1])
  BY FdTokenFacts, OwnFd
<1>2. open[f] \in Parkers /\ at[open[f]] \in {"body", "parked"} /\ f \in FdsOf(open[f])
  BY <1>1 DEF IInv, TypeOK, OpenOwned
<1>3. park[k[1]] \in Nat /\ k[2] <= park[k[1]]
  BY <1>1 DEF IInv, TypeOK, Armed
<1>4. ~Out(k[1]) /\ ~Out(open[f])
  BY <1>1, <1>2, <1>3 DEF Out
<1>5. open[f] = k[1]
  BY <1>1, <1>2, <1>4 DEF Apart
<1>6. QED
  BY <1>2, <1>5

LEMMA RegisteredStep ==
  ASSUME IInv, Apart, OpenOwned, Resumable, Registered, Next
  PROVE  Registered'
<1> DEFINE Stays(t) == at'[t] = at[t] /\ park'[t] = park[t]
<1>1. ASSUME \A tok \in FdTokens : ramp'[tok] = "add" =>
               /\ ramp[tok] = "add" /\ park'[tok[1]] = park[tok[1]]
               /\ at'[tok[1]] = at[tok[1]] \/ at'[tok[1]] = "ended",
             \A f \in Fds : interest'[f] # None =>
               /\ interest'[f] = interest[f] /\ Stays(interest[f][1])
               /\ ramp'[interest[f]] \notin Unarmed
      PROVE  Registered'
  BY <1>1 DEF Registered, Last
<1>2. TypeOK /\ Armed
  BY DEF IInv
<1>3. ASSUME NEW f \in Fds, interest[f] # None
      PROVE  /\ interest[f] \in FdTokens /\ interest[f] \in Tokens /\ interest[f][1] \in Parkers
             /\ FdOf(interest[f]) = f /\ ramp'[interest[f]] \notin Unarmed
             /\ interest[f] = Last(interest[f][1]) /\ at[interest[f][1]] = "parked"
  <2>1. interest[f] \in FdTokens
    BY <1>2, <1>3 DEF TypeOK
  <2>2. QED
    BY <1>2, <1>3, <2>1, FdTokenFacts, RampMono DEF Registered, Armed
<1>4. CASE UNCHANGED <<at, park, ramp>> /\ \A f \in Fds : interest'[f] \in {interest[f], None}
  BY <1>1, <1>3, <1>4
<1>5. ASSUME NEW t, \/ StartDispatcher \/ Tick \/ SetCancel(t) \/ Canceller(t) \/ FreeHandle(t)
                    \/ DataArrives(t)
      PROVE  UNCHANGED <<at, park, ramp, interest>>
  BY <1>5 DEF StartDispatcher, Tick, SetCancel, Canceller, CancelRequest, CancelFanOut, FreeHandle,
              DataArrives
<1>6. ASSUME NEW s, \/ EnterPoll(s) \/ Poll(s) \/ PollFails(s) \/ Translate(s) \/ FinishBatch(s)
                    \/ Collect(s) \/ (\E tok \in Tokens : Claim(s, tok)) \/ InvokeBlocked(s)
      PROVE  UNCHANGED <<at, park, ramp, interest>>
  BY <1>6 DEF EnterPoll, Poll, PollFails, Translate, FinishBatch, Collect, Claim, InvokeBlocked
<1>7. ASSUME NEW s \in Shards, InvokeCoro(s) PROVE Registered'
  <2>1. UNCHANGED <<at, park, ramp>> /\ \E f : interest' = [interest EXCEPT ![f] = None]
    BY <1>7 DEF InvokeCoro, Deregister
  <2>2. \A f \in Fds : interest'[f] \in {interest[f], None}
    BY <1>2, <2>1 DEF TypeOK
  <2>3. QED
    BY <1>4, <2>1, <2>2
<1>8. ASSUME NEW k \in Tokens, UNCHANGED <<at, park, interest>>, NEW l, l # "add",
             ramp' = [ramp EXCEPT ![k] = l]
      PROVE  Registered'
  <2>1. \A tok \in FdTokens : ramp'[tok] = "add" => ramp[tok] = "add"
    BY <1>2, <1>8, FdTokenFacts DEF TypeOK
  <2>2. QED
    BY <1>1, <1>3, <1>8, <2>1
<1>9. ASSUME NEW k \in Tokens, RecheckCancel(k) \/ RampRequest(k) \/ RampFanOut(k) \/ StoreToken(k) \/ WakeShard(k)
      PROVE  Registered'
  <2>1. UNCHANGED <<at, park, interest>>
    BY <1>9 DEF RecheckCancel, RampRequest, RampFanOut, StoreToken, WakeShard
  <2>2. \E l \in {"store", "check", "request", "fanout", "done"} : ramp' = [ramp EXCEPT ![k] = l]
    BY <1>9 DEF RecheckCancel, RampRequest, RampFanOut, StoreToken, WakeShard
  <2>3. QED
    BY <1>8, <2>1, <2>2
<1>10. ASSUME NEW k \in FdTokens, Arm(k) PROVE Registered'
  <2>1. FdOf(k) \in Fds /\ k \in Tokens /\ k # None /\ ramp[k] = "add" /\ UNCHANGED <<at, park>>
    BY <1>10, FdTokenFacts DEF Arm
  <2>2. CASE open[FdOf(k)] # None /\ interest[FdOf(k)] = None
    <3>1. interest' = [interest EXCEPT ![FdOf(k)] = k] /\ ramp' = [ramp EXCEPT ![k] = "wake"]
      BY <1>10, <2>2 DEF Arm
    <3>2. k = Last(k[1]) /\ at[k[1]] = "parked"
      BY <2>1, <2>2, ArmsOwn DEF Registered
    <3>3. ramp'[k] = "wake" /\ \A tok \in FdTokens : ramp'[tok] = "add" => ramp[tok] = "add"
      BY <1>2, <2>1, <3>1, FdTokenFacts DEF TypeOK
    <3>4. \A f \in Fds : IF f = FdOf(k) THEN interest'[f] = k ELSE interest'[f] = interest[f]
      BY <1>2, <3>1 DEF TypeOK
    <3>5. \A u : Last(u)' = Last(u)
      BY <2>1 DEF Last
    <3>6. \A f \in Fds : interest'[f] # None =>
            /\ interest'[f] = Last(interest'[f][1]) /\ at[interest'[f][1]] = "parked"
            /\ ramp'[interest'[f]] \notin Unarmed
      BY <1>3, <3>2, <3>3, <3>4 DEF Unarmed
    <3>7. QED
      BY <2>1, <3>3, <3>5, <3>6 DEF Registered
  <2>3. CASE ~(open[FdOf(k)] # None /\ interest[FdOf(k)] = None)
    <3>1. interest' = interest /\ ramp' = [ramp EXCEPT ![k] = "store"]
      BY <1>10, <2>3 DEF Arm
    <3>2. QED
      BY <1>8, <2>1, <3>1
  <2>4. QED
    BY <2>2, <2>3
<1>11. ASSUME NEW z \in Sleepers, NEW d, Sleep(z, d) PROVE Registered'
  <2>1. <<z, 1>> \in Tokens /\ at' = [at EXCEPT ![z] = "parked"] /\ UNCHANGED <<park, interest>>
        /\ ramp' = [ramp EXCEPT ![<<z, 1>>] = "wake"]
    BY <1>11 DEF Sleep, Tokens
  <2>2. \A t \in Parkers : Stays(t)
    BY <1>2, <2>1 DEF TypeOK, Parkers
  <2>3. \A tok \in FdTokens : ramp'[tok] = "add" => ramp[tok] = "add"
    BY <1>2, <2>1, FdTokenFacts DEF TypeOK
  <2>4. QED
    BY <1>1, <1>3, <2>1, <2>2, <2>3, FdTokenFacts
<1>12. ASSUME NEW c, UNCHANGED <<park, ramp>>, NEW l, at' = [at EXCEPT ![c] = l],
              l = "ended" \/ \A tok \in FdTokens : ramp[tok] = "add" => tok[1] # c,
              \A f \in Fds : interest'[f] # None => interest'[f] = interest[f] /\ interest[f][1] # c
       PROVE  Registered'
  <2>1. \A t \in Parkers : t # c => at'[t] = at[t]
    BY <1>2, <1>12 DEF TypeOK
  <2>2. \A t \in Parkers : at'[t] = at[t] \/ at'[t] = l
    BY <1>2, <1>12 DEF TypeOK
  <2>3. \A tok \in FdTokens : ramp[tok] = "add" => at'[tok[1]] = at[tok[1]] \/ at'[tok[1]] = "ended"
    BY <1>12, <2>1, <2>2, FdTokenFacts
  <2>4. QED
    BY <1>1, <1>3, <1>12, <2>1, <2>3
<1>13. ASSUME NEW c \in Parkers, Begin(c) PROVE Registered'
  <2>1. UNCHANGED <<park, ramp, interest>> /\ at[c] = "new" /\ at' = [at EXCEPT ![c] = "body"]
    BY <1>13 DEF Begin
  <2>2. \A tok \in FdTokens : ramp[tok] = "add" => tok[1] # c
    BY <2>1 DEF Registered
  <2>3. \A f \in Fds : interest'[f] # None => interest'[f] = interest[f] /\ interest[f][1] # c
    BY <1>3, <2>1
  <2>4. QED
    BY <1>12, <2>1, <2>2, <2>3
<1>14. ASSUME NEW c \in Parkers, Complete(c) PROVE Registered'
  <2>1. UNCHANGED <<park, ramp>> /\ at[c] = "body"
        /\ \E l : at' = [at EXCEPT ![c] = l]
    BY <1>14 DEF Complete
  <2>2. \A f \in Fds : interest'[f] # None => interest'[f] = interest[f]
    BY <1>14 DEF Complete, Close
  <2>3. \A tok \in FdTokens : ramp[tok] = "add" => tok[1] # c
    BY <2>1 DEF Registered
  <2>4. \A f \in Fds : interest'[f] # None => interest'[f] = interest[f] /\ interest[f][1] # c
    BY <1>3, <2>1, <2>2
  <2>5. QED
    BY <1>12, <2>1, <2>3, <2>4
<1>15. ASSUME NEW c \in Parkers, Publish(c) PROVE Registered'
  <2> DEFINE new == <<c, park[c] + 1>>
  <2>1. at[c] = "body" /\ at' = [at EXCEPT ![c] = "parked"] /\ park' = [park EXCEPT ![c] = park[c] + 1]
        /\ ramp' = [ramp EXCEPT ![new] = "add"] /\ UNCHANGED interest
    BY <1>15 DEF Publish
  <2>2. at'[c] = "parked" /\ park'[c] = park[c] + 1 /\ \A t \in Parkers : t # c => Stays(t)
    BY <1>2, <2>1 DEF TypeOK
  <2>3. \A tok \in FdTokens : tok # new => ramp'[tok] = ramp[tok]
    BY <1>2, <2>1, FdTokenFacts DEF TypeOK
  <2>4. ASSUME NEW tok \in FdTokens, ramp'[tok] = "add"
        PROVE  tok = Last(tok[1])' /\ at'[tok[1]] \in {"parked", "ended"}
    <3>1. CASE tok = new
      BY <2>2, <3>1 DEF Last
    <3>2. CASE tok # new
      <4>1. tok = Last(tok[1]) /\ at[tok[1]] \in {"parked", "ended"}
        BY <2>3, <2>4, <3>2 DEF Registered
      <4>2. Stays(tok[1])
        BY <2>1, <2>2, <4>1, FdTokenFacts
      <4>3. QED
        BY <4>1, <4>2 DEF Last
    <3>3. QED
      BY <3>1, <3>2
  <2>5. ASSUME NEW f \in Fds, interest[f] # None
        PROVE  /\ interest[f] = Last(interest[f][1])' /\ at'[interest[f][1]] = "parked"
               /\ ramp'[interest[f]] \notin Unarmed
    <3>1. Stays(interest[f][1])
      BY <1>3, <2>1, <2>2, <2>5
    <3>2. Last(interest[f][1])' = Last(interest[f][1])
      BY <2>1, <3>1 DEF Last
    <3>3. QED
      BY <1>3, <2>5, <3>1, <3>2
  <2>6. QED
    BY <2>1, <2>4, <2>5 DEF Registered
<1>16. ASSUME NEW c \in Callers \union Sleepers, SlotWaitReturns(c) PROVE Registered'
  <2>1. UNCHANGED <<park, ramp>>
    BY <1>16 DEF SlotWaitReturns
  <2>2. CASE c \in Callers
    <3>1. at' = [at EXCEPT ![c] = "body"] /\ ramp[Last(c)] = "done"
          /\ interest' = [interest EXCEPT ![FdOf(Last(c))] = None]
      BY <1>16, <2>2 DEF SlotWaitReturns, Deregister
    <3>2. \A tok \in FdTokens : ramp[tok] = "add" => tok[1] # c
      BY <3>1 DEF Registered
    <3>3. \A f \in Fds : interest'[f] # None => interest'[f] = interest[f] /\ f # FdOf(Last(c))
      BY <1>2, <3>1 DEF TypeOK
    <3>4. \A f \in Fds : interest'[f] # None => interest'[f] = interest[f] /\ interest[f][1] # c
      BY <1>3, <3>3
    <3>5. QED
      BY <1>12, <2>1, <3>1, <3>2, <3>4
  <2>3. CASE c \notin Callers
    <3>1. at' = [at EXCEPT ![c] = "ended"] /\ UNCHANGED interest
      BY <1>16, <2>3 DEF SlotWaitReturns
    <3>2. c \notin Parkers
      BY <2>3 DEF Parkers
    <3>3. \A f \in Fds : interest'[f] # None => interest'[f] = interest[f] /\ interest[f][1] # c
      BY <1>3, <3>1, <3>2
    <3>4. QED
      BY <1>12, <2>1, <3>1, <3>3
  <2>4. QED
    BY <2>2, <2>3
<1>17. ASSUME NEW s \in Shards, DestroyEdge(s) PROVE Registered'
  <2>1. UNCHANGED <<park, ramp>> /\ at' = [at EXCEPT ![current[s][1]] = "ended"] /\ pc[s] = "destroy"
    BY <1>17 DEF DestroyEdge
  <2>2. current[s][1] \in Parkers /\ at[current[s][1]] = "parked"
    BY <1>17, <2>1, EdgeFacts, ClaimedFacts
  <2>3. \A f \in Fds : interest'[f] # None => interest'[f] = interest[f] /\ open[f] # current[s][1]
    BY <1>17 DEF DestroyEdge, Close
  <2>4. ASSUME NEW f \in Fds, interest[f] # None, interest[f][1] = current[s][1]
        PROVE  open[f] = current[s][1]
    <3>1. f \in FdsOf(current[s][1])
      BY <1>3, <2>4, OwnFd
    <3>2. QED
      BY <2>2, <3>1 DEF OpenOwned
  <2>5. \A f \in Fds : interest'[f] # None =>
          interest'[f] = interest[f] /\ interest[f][1] # current[s][1]
    BY <2>3, <2>4
  <2>6. QED
    BY <1>12, <2>1, <2>5
<1>18. ASSUME NEW s \in Shards, ResumeEdge(s) PROVE Registered'
  <2>1. UNCHANGED <<park, ramp, interest>> /\ at' = [at EXCEPT ![current[s][1]] = "body"] /\ pc[s] = "resume"
    BY <1>18 DEF ResumeEdge
  <2>2. current[s] = Last(current[s][1]) /\ ramp[current[s]] # "add"
        /\ interest[FdOf(current[s])] # current[s]
    BY <1>18, <2>1, EdgeFacts, ClaimedFacts DEF Resumable, Unarmed
  <2>3. \A tok \in FdTokens : ramp[tok] = "add" => tok[1] # current[s][1]
    BY <2>2 DEF Registered
  <2>4. \A f \in Fds : interest[f] # None => interest[f][1] # current[s][1]
    BY <1>3, <2>2
  <2>5. QED
    BY <1>12, <2>1, <2>3, <2>4
<1>19. ASSUME NEW s \in Shards, ShimDone(s) PROVE Registered'
  <2>1. UNCHANGED <<park, ramp, interest>>
    BY <1>19 DEF ShimDone
  <2>2. \/ at' = at
        \/ at[current[s][1]] = "final" /\ at' = [at EXCEPT ![current[s][1]] = "ended"]
    BY <1>19 DEF ShimDone
  <2>3. QED
    BY <1>3, <1>4, <1>12, <2>1, <2>2
<1>20. QED
  BY <1>4, <1>5, <1>6, <1>7, <1>9, <1>10, <1>11, <1>13, <1>14, <1>15, <1>16, <1>17, <1>18, <1>19,
     FdTokenFacts
     DEF Next, Body, Registering, Dispatcher

-----------------------------------------------------------------------------
(***************************************************************************)
(* What a dispatcher thread resumes.                                       *)
(***************************************************************************)

\* Where a dispatcher thread's work comes from.
LEMMA BatchFrom ==
  ASSUME IInv, Registered, Next, NEW s \in Shards, NEW tok \in batch'[s]
  PROVE  tok \in batch[s] \/ tok[1] \in cancel \/ tok[1] \notin Coros \/ ramp[tok] \notin Unarmed
<1>1. TypeOK /\ Wired
  BY DEF IInv
<1>2. CASE UNCHANGED batch
  BY <1>2
<1>3. ASSUME NEW r \in Shards, NEW b, batch' = [batch EXCEPT ![r] = b],
             \A k \in b : k \in batch[r] \/ k[1] \in cancel \/ k[1] \notin Coros \/ ramp[k] \notin Unarmed
      PROVE  tok \in batch[s] \/ tok[1] \in cancel \/ tok[1] \notin Coros \/ ramp[tok] \notin Unarmed
  BY <1>1, <1>3 DEF TypeOK
<1>4. ASSUME NEW t, NEW d, \/ StartDispatcher \/ Tick \/ Begin(t) \/ Body(t) \/ SlotWaitReturns(t) \/ Sleep(t, d)
                           \/ SetCancel(t) \/ Canceller(t) \/ FreeHandle(t) \/ DataArrives(t)
      PROVE  UNCHANGED batch
  BY <1>4 DEF StartDispatcher, Tick, Begin, Body, Publish, Complete, SlotWaitReturns, Sleep, SetCancel,
              Canceller, CancelRequest, CancelFanOut, FreeHandle, DataArrives
<1>5. ASSUME NEW k, Registering(k) PROVE UNCHANGED batch
  BY <1>5 DEF Registering, Arm, RecheckCancel, RampRequest, RampFanOut, StoreToken, WakeShard
<1>6. ASSUME NEW r, \/ EnterPoll(r) \/ PollFails(r) \/ FinishBatch(r) \/ InvokeBlocked(r) \/ InvokeCoro(r)
                    \/ DestroyEdge(r) \/ ResumeEdge(r) \/ ShimDone(r)
      PROVE  UNCHANGED batch
  BY <1>6 DEF EnterPoll, PollFails, FinishBatch, InvokeBlocked, InvokeCoro, DestroyEdge, ResumeEdge, ShimDone
<1>7. ASSUME NEW r \in Shards, Poll(r)
      PROVE  tok \in batch[s] \/ tok[1] \in cancel \/ tok[1] \notin Coros \/ ramp[tok] \notin Unarmed
  <2>1. batch' = [batch EXCEPT ![r] = {interest[f] : f \in Reported(r)}]
    BY <1>7 DEF Poll
  <2>2. \A f \in Reported(r) : ramp[interest[f]] \notin Unarmed
    BY <1>1 DEF Reported, Wired, Registered, TypeOK
  <2>3. QED
    BY <1>3, <2>1, <2>2
<1>8. ASSUME NEW r \in Shards, Translate(r)
      PROVE  tok \in batch[s] \/ tok[1] \in cancel \/ tok[1] \notin Coros \/ ramp[tok] \notin Unarmed
  <2> DEFINE expired == {k \in timers \intersect Local(r) : Due(k)}
  <2>1. batch' = [batch EXCEPT ![r] = (batch[r] \union expired) \intersect byToken]
    BY <1>8 DEF Translate
  <2>2. \A k \in expired : k[1] \notin Coros
    BY <1>1 DEF Wired
  <2> HIDE DEF expired
  <2>3. QED
    BY <1>3, <2>1, <2>2
<1>9. ASSUME NEW r \in Shards, Collect(r)
      PROVE  tok \in batch[s] \/ tok[1] \in cancel \/ tok[1] \notin Coros \/ ramp[tok] \notin Unarmed
  <2>1. batch' = [batch EXCEPT ![r] = {k \in byToken \intersect Local(r) : k[1] \in cancel}]
    BY <1>9 DEF Collect
  <2>2. QED
    BY <1>3, <2>1
<1>10. ASSUME NEW r \in Shards, NEW k, Claim(r, k)
       PROVE  tok \in batch[s] \/ tok[1] \in cancel \/ tok[1] \notin Coros \/ ramp[tok] \notin Unarmed
  <2>1. batch' = [batch EXCEPT ![r] = batch[r] \ {k}]
    BY <1>10 DEF Claim
  <2>2. QED
    BY <1>3, <2>1
<1>11. QED
  BY <1>2, <1>4, <1>5, <1>6, <1>7, <1>8, <1>9, <1>10 DEF Next, Dispatcher

\* A dispatcher thread comes to an edge from a claim of its batch.
LEMMA ClaimFrom ==
  ASSUME IInv, Next, NEW s \in Shards, pc'[s] \in {"invoke", "resume"}
  PROVE  \/ pc'[s] = pc[s] /\ current'[s] = current[s]
         \/ pc'[s] = "invoke" /\ current'[s] \in batch[s] /\ current'[s] \in Tokens
         \/ /\ pc'[s] = "resume" /\ pc[s] = "invoke" /\ current'[s] = current[s]
            /\ current[s][1] \in Coros /\ current[s][1] \notin cancel
            /\ interest' = [interest EXCEPT ![FdOf(current[s])] = None] /\ UNCHANGED ramp
<1>1. TypeOK
  BY DEF IInv
<1>2. CASE UNCHANGED <<pc, current>>
  BY <1>2
<1>3. ASSUME NEW t, NEW d, \/ Tick \/ Begin(t) \/ Body(t) \/ SlotWaitReturns(t) \/ Sleep(t, d)
                           \/ SetCancel(t) \/ Canceller(t) \/ FreeHandle(t) \/ DataArrives(t)
      PROVE  UNCHANGED <<pc, current>>
  BY <1>3 DEF Tick, Begin, Body, Publish, Complete, SlotWaitReturns, Sleep, SetCancel,
              Canceller, CancelRequest, CancelFanOut, FreeHandle, DataArrives
<1>4. ASSUME NEW k, Registering(k) PROVE UNCHANGED <<pc, current>>
  BY <1>4 DEF Registering, Arm, RecheckCancel, RampRequest, RampFanOut, StoreToken, WakeShard
<1>5. ASSUME StartDispatcher PROVE FALSE
  BY <1>5 DEF StartDispatcher
<1>6. ASSUME NEW r \in Shards, NEW l, l \notin {"invoke", "resume"}, pc' = [pc EXCEPT ![r] = l],
             current' = current \/ current' = [current EXCEPT ![r] = None]
      PROVE  pc'[s] = pc[s] /\ current'[s] = current[s]
  BY <1>1, <1>6 DEF TypeOK
<1>7. ASSUME NEW r \in Shards, \/ EnterPoll(r) \/ Poll(r) \/ PollFails(r) \/ Translate(r) \/ FinishBatch(r)
                               \/ Collect(r) \/ InvokeBlocked(r) \/ DestroyEdge(r) \/ ResumeEdge(r) \/ ShimDone(r)
      PROVE  pc'[s] = pc[s] /\ current'[s] = current[s]
  <2>1. current' = current \/ current' = [current EXCEPT ![r] = None]
    BY <1>7 DEF EnterPoll, Poll, PollFails, Translate, FinishBatch, Collect, InvokeBlocked, DestroyEdge,
                ResumeEdge, ShimDone
  <2>2. \E l \in {"top", "poll", "got", "claim", "collect", "shim"} : pc' = [pc EXCEPT ![r] = l]
    BY <1>7 DEF EnterPoll, Poll, PollFails, Translate, FinishBatch, Collect, InvokeBlocked, DestroyEdge,
                ResumeEdge, ShimDone, Goto
  <2>3. QED
    BY <1>6, <2>1, <2>2
<1>8. ASSUME NEW r \in Shards, NEW k \in Tokens, Claim(r, k)
      PROVE  \/ pc'[s] = pc[s] /\ current'[s] = current[s]
             \/ pc'[s] = "invoke" /\ current'[s] \in batch[s] /\ current'[s] \in Tokens
  <2>1. CASE k \in byToken
    <3>1. current' = [current EXCEPT ![r] = k] /\ pc' = [pc EXCEPT ![r] = "invoke"] /\ k \in batch[r]
      BY <1>8, <2>1 DEF Claim, Goto
    <3>2. QED
      BY <1>1, <3>1 DEF TypeOK
  <2>2. CASE k \notin byToken
    <3>1. UNCHANGED <<current, pc>>
      BY <1>8, <2>2 DEF Claim
    <3>2. QED
      BY <3>1
  <2>3. QED
    BY <2>1, <2>2
<1>9. ASSUME NEW r \in Shards, InvokeCoro(r)
      PROVE  \/ pc'[s] = pc[s] /\ current'[s] = current[s]
             \/ /\ pc'[s] = "resume" /\ pc[s] = "invoke" /\ current'[s] = current[s]
                /\ current[s][1] \in Coros /\ current[s][1] \notin cancel
                /\ interest' = [interest EXCEPT ![FdOf(current[s])] = None] /\ UNCHANGED ramp
  <2>1. UNCHANGED <<current, ramp>> /\ pc[r] = "invoke" /\ current[r][1] \in Coros
        /\ interest' = [interest EXCEPT ![FdOf(current[r])] = None]
    BY <1>9 DEF InvokeCoro, Deregister
  <2>2. pc' = [pc EXCEPT ![r] = IF current[r][1] \in cancel THEN "destroy" ELSE "resume"]
    BY <1>9 DEF InvokeCoro, Goto
  <2>3. CASE r = s
    BY <1>1, <2>1, <2>2, <2>3 DEF TypeOK
  <2>4. CASE r # s
    BY <1>1, <2>1, <2>2, <2>4 DEF TypeOK
  <2>5. QED
    BY <2>3, <2>4
<1>10. QED
  BY <1>2, <1>3, <1>4, <1>5, <1>7, <1>8, <1>9 DEF Next, Dispatcher

\* Cancel flags are never cleared, and a descriptor is armed by its token's Arm.
LEMMA FlagsGrow ==
  ASSUME Next
  PROVE  cancel \subseteq cancel'
BY DEF Next, StartDispatcher, Begin, Body, Publish, Complete, Registering, Arm, RecheckCancel,
       RampRequest, RampFanOut, StoreToken, WakeShard, Sleep, SlotWaitReturns, SetCancel,
       Canceller, CancelRequest, CancelFanOut, FreeHandle, Dispatcher, EnterPoll, Poll,
       PollFails, Translate, FinishBatch, Collect, Claim, InvokeBlocked, InvokeCoro, DestroyEdge,
       ResumeEdge, ShimDone, DataArrives, Tick

LEMMA InterestFrom ==
  ASSUME IInv, Next, NEW f \in Fds
  PROVE  interest'[f] \in {interest[f], None} \/ ramp[interest'[f]] = "add"
<1>1. TypeOK
  BY DEF IInv
<1>2. CASE UNCHANGED interest
  BY <1>2
<1>3. ASSUME NEW t, NEW d, \/ StartDispatcher \/ Tick \/ Begin(t) \/ Publish(t) \/ Sleep(t, d)
                           \/ SetCancel(t) \/ Canceller(t) \/ FreeHandle(t) \/ DataArrives(t)
      PROVE  UNCHANGED interest
  BY <1>3 DEF StartDispatcher, Tick, Begin, Publish, Sleep, SetCancel, Canceller, CancelRequest,
              CancelFanOut, FreeHandle, DataArrives
<1>4. ASSUME NEW k, RecheckCancel(k) \/ RampRequest(k) \/ RampFanOut(k) \/ StoreToken(k) \/ WakeShard(k)
      PROVE  UNCHANGED interest
  BY <1>4 DEF RecheckCancel, RampRequest, RampFanOut, StoreToken, WakeShard
<1>5. ASSUME NEW s, \/ EnterPoll(s) \/ Poll(s) \/ PollFails(s) \/ Translate(s) \/ FinishBatch(s)
                    \/ Collect(s) \/ (\E tok \in Tokens : Claim(s, tok)) \/ InvokeBlocked(s)
                    \/ ResumeEdge(s) \/ ShimDone(s)
      PROVE  UNCHANGED interest
  BY <1>5 DEF EnterPoll, Poll, PollFails, Translate, FinishBatch, Collect, Claim, InvokeBlocked,
              ResumeEdge, ShimDone
<1>6. ASSUME NEW k, Arm(k) PROVE interest'[f] = interest[f] \/ ramp[interest'[f]] = "add"
  <2>1. ramp[k] = "add" /\ (interest' = interest \/ interest' = [interest EXCEPT ![FdOf(k)] = k])
    BY <1>6 DEF Arm
  <2>2. QED
    BY <1>1, <2>1 DEF TypeOK
<1>7. ASSUME NEW t, Complete(t) \/ SlotWaitReturns(t) \/ DestroyEdge(t) \/ InvokeCoro(t)
      PROVE  interest'[f] \in {interest[f], None}
  BY <1>1, <1>7 DEF Complete, SlotWaitReturns, DestroyEdge, InvokeCoro, Close, Deregister, TypeOK
<1>8. QED
  BY <1>2, <1>3, <1>4, <1>5, <1>6, <1>7 DEF Next, Body, Registering, Dispatcher

LEMMA ResumableStep ==
  ASSUME IInv, Registered, Resumable, Next
  PROVE  Resumable'
<1>1. TypeOK /\ TypeOK'
  BY TypeStep DEF IInv
<1>2. ASSUME NEW s \in Shards, NEW tok \in batch'[s], tok[1] \in Coros, tok[1] \notin cancel'
      PROVE  ramp'[tok] \notin Unarmed
  <2>1. tok \in Tokens /\ tok[1] \notin cancel
    BY <1>1, <1>2, FlagsGrow DEF TypeOK
  <2>2. ramp[tok] \notin Unarmed
    BY <1>2, <2>1, BatchFrom DEF Resumable
  <2>3. QED
    BY <2>1, <2>2, RampMono
<1>3. ASSUME NEW s \in Shards, pc[s] \in {"invoke", "resume"}
      PROVE  current[s] \in Tokens
  BY <1>3 DEF IInv, Wired, Busy
<1>4. ASSUME NEW s \in Shards, pc'[s] = "invoke", current'[s][1] \in Coros, current'[s][1] \notin cancel'
      PROVE  ramp'[current'[s]] \notin Unarmed
  <2>1. current'[s][1] \notin cancel
    BY <1>4, FlagsGrow
  <2>2. \/ pc[s] = "invoke" /\ current'[s] = current[s]
        \/ current'[s] \in batch[s] /\ current'[s] \in Tokens
    BY <1>4, ClaimFrom
  <2>3. ramp[current'[s]] \notin Unarmed /\ current'[s] \in Tokens
    BY <1>3, <1>4, <2>1, <2>2 DEF Resumable
  <2>4. QED
    BY <2>3, RampMono
<1>5. ASSUME NEW s \in Shards, pc'[s] = "resume"
      PROVE  ramp'[current'[s]] \notin Unarmed /\ interest'[FdOf(current[s])] # current[s]
             /\ current'[s] = current[s]
  <2>1. \/ pc[s] = "resume" /\ current'[s] = current[s]
        \/ /\ pc[s] = "invoke" /\ current'[s] = current[s]
           /\ current[s][1] \in Coros /\ current[s][1] \notin cancel
           /\ interest' = [interest EXCEPT ![FdOf(current[s])] = None]
    BY <1>5, ClaimFrom
  <2>2. current'[s] = current[s] /\ current[s] \in Tokens /\ ramp[current[s]] \notin Unarmed
    BY <1>3, <2>1 DEF Resumable
  <2>3. current[s] \in FdTokens
    BY <2>1, <2>2, TokenFacts DEF IInv, Wired, Parkers
  <2>4. FdOf(current[s]) \in Fds /\ current[s] # None
    BY <2>2, <2>3, FdTokenFacts
  <2>5. interest'[FdOf(current[s])] # current[s]
    <3>1. CASE pc[s] = "resume"
      BY <2>2, <2>4, <3>1, InterestFrom DEF Resumable, Unarmed
    <3>2. CASE interest' = [interest EXCEPT ![FdOf(current[s])] = None]
      BY <1>1, <2>4, <3>2 DEF TypeOK
    <3>3. QED
      BY <2>1, <3>1, <3>2
  <2>6. QED
    BY <2>2, <2>5, RampMono
<1>6. \A s \in Shards : pc'[s] = "resume" =>
        ramp'[current'[s]] \notin Unarmed /\ interest'[FdOf(current'[s])] # current'[s]
  BY <1>5
<1>7. QED
  BY <1>2, <1>4, <1>6 DEF Resumable, FdOf

-----------------------------------------------------------------------------
(***************************************************************************)
(* A parked task is registered, claimed or signalled.                      *)
(***************************************************************************)
Edges == {"invoke", "destroy", "resume"}
Found(t) == \E s \in Shards : pc[s] \in Edges /\ current[s] = Last(t)

\* The epoll ADD of a parked task's registration is never refused.
LEMMA ArmSucceeds ==
  ASSUME RInv, NEW k \in FdTokens, ramp[k] = "add", at[k[1]] = "parked"
  PROVE  open[FdOf(k)] # None /\ interest[FdOf(k)] = None
<1> DEFINE f == FdOf(k)
<1>1. f \in Fds /\ f \in FdsOf(k[1]) /\ k[1] \in Parkers
  BY FdTokenFacts, OwnFd
<1>2. open[f] = k[1]
  BY <1>1 DEF RInv, OpenOwned
<1>3. ASSUME interest[f] # None PROVE FALSE
  <2> DEFINE j == interest[f]
  <2>1. j \in FdTokens /\ FdOf(j) = f
    BY <1>1, <1>3 DEF RInv, IInv, TypeOK, Armed
  <2>2. j[1] \in Parkers /\ f \in FdsOf(j[1])
    BY <2>1, FdTokenFacts, OwnFd
  <2>3. j = Last(j[1]) /\ at[j[1]] = "parked" /\ ramp[j] \notin Unarmed
    BY <1>1, <1>3 DEF RInv, Registered
  <2>4. j[1] = k[1]
    BY <1>1, <2>2, <2>3 DEF RInv, Apart, Out
  <2>5. k = Last(k[1])
    BY DEF RInv, Registered
  <2>6. QED
    BY <2>3, <2>4, <2>5 DEF Unarmed
<1>4. QED
  BY <1>1, <1>2, <1>3

LEMMA ReachStep ==
  ASSUME OwnWords, RInv, Next
  PROVE  Reach'
<1>1. IInv /\ TypeOK /\ Reach
  BY DEF RInv, IInv
<1>2. ASSUME \A t \in Parkers : at'[t] = "parked" =>
               \/ Last(t)' \in byToken'
               \/ /\ at[t] = "parked" /\ park'[t] = park[t]
                  /\ Last(t) \in byToken => Last(t) \in byToken' \/ Found(t)'
                  /\ t \in signalled => t \in signalled'
                  /\ Found(t) => Found(t)' \/ t \in signalled'
      PROVE  Reach'
  <2>1. ASSUME NEW t \in Parkers, park'[t] = park[t] PROVE Last(t)' = Last(t)
    BY <2>1 DEF Last
  <2>2. QED
    BY <1>1, <1>2, <2>1 DEF Reach, Found, Edges
<1>3. UNCHANGED <<pc, current>> => \A t \in Parkers : park'[t] = park[t] /\ Found(t) => Found(t)'
  BY DEF Found, Last
<1>4. CASE UNCHANGED <<at, park, pc, current, byToken>> /\ signalled \subseteq signalled'
  BY <1>2, <1>3, <1>4
<1>5. ASSUME NEW t, Tick \/ SetCancel(t) \/ Canceller(t) \/ FreeHandle(t) \/ DataArrives(t)
      PROVE  UNCHANGED <<at, park, pc, current, byToken, signalled>>
  BY <1>5 DEF Tick, SetCancel, Canceller, CancelRequest, CancelFanOut, FreeHandle, DataArrives
<1>6. ASSUME NEW k, RecheckCancel(k) \/ RampRequest(k) \/ RampFanOut(k) \/ StoreToken(k) \/ WakeShard(k)
      PROVE  UNCHANGED <<at, park, pc, current, byToken, signalled>>
  BY <1>6 DEF RecheckCancel, RampRequest, RampFanOut, StoreToken, WakeShard
<1>7. ASSUME NEW r \in Shards, pc[r] \notin Edges, \A s \in Shards : s # r => pc'[s] = pc[s] /\ current'[s] = current[s]
      PROVE  \A t \in Parkers : park'[t] = park[t] /\ Found(t) => Found(t)'
  BY <1>7 DEF Found, Last
<1>8. ASSUME StartDispatcher PROVE Reach'
  <2>1. \A s \in Shards : pc[s] = "off"
    BY <1>1, <1>8 DEF StartDispatcher, IInv, StartedFirst
  <2>2. \A t \in Parkers : ~Found(t)
    BY <2>1 DEF Found, Edges
  <2>3. QED
    BY <1>2, <1>8, <2>2 DEF StartDispatcher
<1>9. ASSUME NEW s \in Shards, EnterPoll(s) \/ Poll(s) \/ PollFails(s) \/ Translate(s) \/ FinishBatch(s) \/ Collect(s)
      PROVE  Reach'
  <2>1. UNCHANGED <<at, park, current, byToken, signalled>> /\ pc[s] \notin Edges
    BY <1>9 DEF EnterPoll, Poll, PollFails, Translate, FinishBatch, Collect, Edges
  <2>2. \E l : pc' = [pc EXCEPT ![s] = l]
    BY <1>9 DEF EnterPoll, Poll, PollFails, Translate, FinishBatch, Collect, Goto
  <2>3. \A r \in Shards : r # s => pc'[r] = pc[r]
    BY <1>1, <2>2 DEF TypeOK
  <2>4. QED
    BY <1>2, <1>7, <2>1, <2>3
<1>10. ASSUME NEW k \in FdTokens, Arm(k) PROVE Reach'
  <2>1. UNCHANGED <<at, park, pc, current, signalled>> /\ ramp[k] = "add"
    BY <1>10 DEF Arm
  <2>2. \A t \in Parkers : at[t] = "parked" /\ Last(t) \in byToken => Last(t) \in byToken'
    <3>1. SUFFICES ASSUME NEW t \in Parkers, at[t] = "parked", Last(t) = k PROVE byToken' = byToken
      BY <1>10 DEF Arm
    <3>2. k[1] = t
      BY <3>1, LastFacts
    <3>3. QED
      BY <1>10, <2>1, <3>1, <3>2, ArmSucceeds DEF Arm
  <2>3. QED
    BY <1>2, <1>3, <2>1, <2>2
<1>11. ASSUME NEW c, \A t \in Parkers : t # c => at'[t] = at[t] /\ park'[t] = park[t],
              c \in Parkers => at'[c] # "parked" \/ Last(c)' \in byToken',
              \A t \in Parkers : t # c /\ Last(t) \in byToken => Last(t) \in byToken',
              \A t \in Parkers : t # c /\ t \in signalled => t \in signalled',
              \A t \in Parkers : t # c /\ Found(t) => Found(t)'
       PROVE  Reach'
  BY <1>2, <1>11
<1>12. ASSUME NEW c \in Parkers, Begin(c) \/ Complete(c) PROVE Reach'
  <2>1. UNCHANGED <<park, pc, current, byToken>> /\ signalled \subseteq signalled'
    BY <1>12 DEF Begin, Complete
  <2>2. \E l \in {"body", "final", "ended"} : at' = [at EXCEPT ![c] = l]
    BY <1>12 DEF Begin, Complete
  <2>3. at'[c] # "parked" /\ \A t \in Parkers : t # c => at'[t] = at[t]
    BY <1>1, <2>2 DEF TypeOK
  <2>4. QED
    BY <1>3, <1>11, <2>1, <2>3
<1>13. ASSUME NEW c \in Parkers, Publish(c) PROVE Reach'
  <2>1. UNCHANGED <<pc, current, signalled>> /\ byToken' = byToken \union {<<c, park[c] + 1>>}
        /\ park' = [park EXCEPT ![c] = park[c] + 1] /\ at' = [at EXCEPT ![c] = "parked"]
    BY <1>13 DEF Publish
  <2>2. park'[c] = park[c] + 1 /\ \A t \in Parkers : t # c => at'[t] = at[t] /\ park'[t] = park[t]
    BY <1>1, <2>1 DEF TypeOK
  <2>3. Last(c)' \in byToken'
    BY <2>1, <2>2 DEF Last
  <2>4. QED
    BY <1>3, <1>11, <2>1, <2>2, <2>3
<1>14. ASSUME NEW z \in Sleepers, NEW d, Sleep(z, d) PROVE Reach'
  <2>1. UNCHANGED <<park, pc, current, signalled>> /\ byToken \subseteq byToken'
        /\ at' = [at EXCEPT ![z] = "parked"] /\ z \notin Parkers
    BY <1>14 DEF Sleep, Parkers
  <2>2. \A t \in Parkers : at'[t] = at[t]
    BY <1>1, <2>1 DEF TypeOK
  <2>3. QED
    BY <1>2, <1>3, <2>1, <2>2
<1>15. ASSUME NEW c \in Callers \union Sleepers, SlotWaitReturns(c) PROVE Reach'
  <2>1. UNCHANGED <<park, pc, current>> /\ signalled' = signalled \ {c}
    BY <1>15 DEF SlotWaitReturns
  <2>2. byToken \ {Last(c)} \subseteq byToken'
    BY <1>15 DEF SlotWaitReturns, Deregister
  <2>3. \E l \in {"body", "ended"} : at' = [at EXCEPT ![c] = l]
    BY <1>15 DEF SlotWaitReturns
  <2>4. (c \in Parkers => at'[c] # "parked") /\ \A t \in Parkers : t # c => at'[t] = at[t]
    BY <1>1, <2>3 DEF TypeOK
  <2>5. \A t \in Parkers : t # c => Last(t) # Last(c)
    BY LastFacts
  <2>6. QED
    BY <1>3, <1>11, <2>1, <2>2, <2>4, <2>5
<1>16. ASSUME NEW s \in Shards, NEW k \in Tokens, Claim(s, k) PROVE Reach'
  <2>1. UNCHANGED <<at, park, signalled>> /\ byToken' = byToken \ {k} /\ pc[s] = "claim"
    BY <1>16 DEF Claim
  <2>2. CASE k \notin byToken
    <3>1. UNCHANGED <<pc, current>>
      BY <1>16, <2>2 DEF Claim
    <3>2. QED
      BY <1>2, <1>3, <2>1, <2>2, <3>1
  <2>3. CASE k \in byToken
    <3>1. current' = [current EXCEPT ![s] = k] /\ pc' = [pc EXCEPT ![s] = "invoke"]
      BY <1>16, <2>3 DEF Claim, Goto
    <3>2. current'[s] = k /\ pc'[s] = "invoke"
          /\ \A r \in Shards : r # s => pc'[r] = pc[r] /\ current'[r] = current[r]
      BY <1>1, <3>1 DEF TypeOK
    <3>3. \A t \in Parkers : Found(t) => Found(t)'
      BY <1>7, <2>1, <3>2 DEF Edges
    <3>4. \A t \in Parkers : Last(t) = k => Found(t)'
      BY <2>1, <3>2 DEF Found, Edges, Last
    <3>5. QED
      BY <1>2, <2>1, <3>3, <3>4
  <2>4. QED
    BY <2>2, <2>3
<1>17. ASSUME NEW s \in Shards, InvokeBlocked(s) PROVE Reach'
  <2>1. UNCHANGED <<at, park, byToken>> /\ signalled' = signalled \union {current[s][1]}
        /\ current' = [current EXCEPT ![s] = None] /\ pc' = [pc EXCEPT ![s] = "claim"]
    BY <1>17 DEF InvokeBlocked, Goto
  <2>2. \A r \in Shards : r # s => pc'[r] = pc[r] /\ current'[r] = current[r]
    BY <1>1, <2>1 DEF TypeOK
  <2>3. ASSUME NEW t \in Parkers, Found(t) PROVE Found(t)' \/ t \in signalled'
    <3>1. PICK r \in Shards : pc[r] \in Edges /\ current[r] = Last(t)
      BY <2>3 DEF Found
    <3>2. CASE r = s
      BY <2>1, <3>1, <3>2, LastFacts
    <3>3. CASE r # s
      BY <2>1, <2>2, <3>1, <3>3 DEF Found, Last
    <3>4. QED
      BY <3>2, <3>3
  <2>4. QED
    BY <1>2, <2>1, <2>3
<1>18. ASSUME NEW s \in Shards, InvokeCoro(s) PROVE Reach'
  <2>1. /\ UNCHANGED <<at, park, current, signalled>>
        /\ pc[s] = "invoke" /\ current[s][1] \in Coros
    BY <1>18 DEF InvokeCoro
  <2>2. current[s] = Last(current[s][1]) /\ current[s][1] \in Parkers
    BY <1>1, <2>1, ClaimedFacts
  <2>3. PICK word \in Loaded(current[s]) : byToken' = byToken \ {word}
    BY <1>18 DEF InvokeCoro, Deregister
  <2>4. word = None \/ word[1] = current[s][1]
    BY <2>1, <2>3 DEF Loaded, OwnWords
  <2>5. \E l \in {"destroy", "resume"} : pc' = [pc EXCEPT ![s] = l]
    BY <1>18 DEF InvokeCoro, Goto
  <2>6. pc'[s] \in Edges /\ \A r \in Shards : r # s => pc'[r] = pc[r]
    BY <1>1, <2>5 DEF TypeOK, Edges
  <2>7. \A t \in Parkers : Found(t) => Found(t)'
    BY <2>1, <2>6 DEF Found, Last
  <2>8. Found(current[s][1])'
    BY <2>1, <2>2, <2>6 DEF Found, Last
  <2>9. ASSUME NEW t \in Parkers, t # current[s][1], Last(t) \in byToken PROVE Last(t) \in byToken'
    BY <1>1, <2>3, <2>4, <2>9, LastFacts DEF TypeOK
  <2>10. QED
    BY <1>2, <2>1, <2>7, <2>8, <2>9
<1>19. ASSUME NEW s \in Shards, DestroyEdge(s) \/ ResumeEdge(s) PROVE Reach'
  <2>1. PICK c : c = current[s][1]
    OBVIOUS
  <2>2. UNCHANGED <<park, byToken>> /\ signalled \subseteq signalled'
    BY <1>19 DEF DestroyEdge, ResumeEdge
  <2>3. \E l \in {"body", "ended"} : at' = [at EXCEPT ![c] = l]
    BY <1>19, <2>1 DEF DestroyEdge, ResumeEdge
  <2>4. c \in Parkers
    BY <1>1, <1>19, <2>1, EdgeFacts
  <2>5. at'[c] # "parked" /\ \A t \in Parkers : t # c => at'[t] = at[t]
    BY <1>1, <2>3, <2>4 DEF TypeOK
  <2>6. \A r \in Shards : r # s => pc'[r] = pc[r] /\ current'[r] = current[r]
    BY <1>1, <1>19 DEF DestroyEdge, ResumeEdge, Goto, TypeOK
  <2>7. ASSUME NEW t \in Parkers, t # c, Found(t) PROVE Found(t)'
    <3>1. PICK r \in Shards : pc[r] \in Edges /\ current[r] = Last(t)
      BY <2>7 DEF Found
    <3>2. r # s
      BY <2>1, <2>7, <3>1, LastFacts
    <3>3. QED
      BY <2>2, <2>6, <3>1, <3>2 DEF Found, Last
  <2>8. QED
    BY <1>11, <2>2, <2>5, <2>7
<1>20. ASSUME NEW s \in Shards, ShimDone(s) PROVE Reach'
  <2>1. UNCHANGED <<park, byToken, signalled>> /\ pc[s] = "shim"
        /\ pc' = [pc EXCEPT ![s] = "claim"] /\ current' = [current EXCEPT ![s] = None]
    BY <1>20 DEF ShimDone, Goto
  <2>2. \A r \in Shards : r # s => pc'[r] = pc[r] /\ current'[r] = current[r]
    BY <1>1, <2>1 DEF TypeOK
  <2>3. at' = at \/ \E c : at' = [at EXCEPT ![c] = "ended"]
    BY <1>20 DEF ShimDone
  <2>4. \A t \in Parkers : at'[t] = "parked" => at[t] = "parked"
    BY <1>1, <2>3 DEF TypeOK
  <2>5. \A t \in Parkers : Found(t) => Found(t)'
    BY <1>7, <2>1, <2>2 DEF Edges
  <2>6. QED
    BY <1>2, <2>1, <2>4, <2>5
<1>21. QED
  BY <1>4, <1>5, <1>6, <1>8, <1>9, <1>10, <1>12, <1>13, <1>14, <1>15, <1>16, <1>17, <1>18, <1>19, <1>20
     DEF Next, Body, Registering, Dispatcher

-----------------------------------------------------------------------------
(***************************************************************************)
(* The theorem.                                                            *)
(***************************************************************************)
LEMMA InitRInv ==
  ASSUME OwnNumbers
  PROVE  Init => RInv
<1> SUFFICES ASSUME Init PROVE RInv
  OBVIOUS
<1>1. IInv
  BY InitIInv
<1>2. PICK prog \in Programs :
        at = [t \in Parkers \union Sleepers |-> IF t \in prog THEN "new" ELSE "ended"]
  BY DEF Init
<1>3. Apart
  <2>1. \A t \in Parkers : t \in prog \/ Out(t)
    BY <1>2 DEF Init, Out
  <2>2. QED
    BY <2>1 DEF Apart, OwnNumbers
<1>4. OpenOwned /\ Reach
  <2>1. \A t \in Parkers : at[t] \in {"new", "ended"}
    BY <1>2
  <2>2. QED
    BY <2>1 DEF Init, OpenOwned, Reach
<1>5. Resumable /\ Registered
  BY FdTokenFacts DEF Init, Resumable, Registered
<1>6. QED
  BY <1>1, <1>3, <1>4, <1>5 DEF RInv

LEMMA NextRInv ==
  ASSUME OwnWords, RInv, [Next]_vars
  PROVE  RInv'
<1>1. IInv'
  BY NextIInv DEF RInv
<1>2. CASE Next
  <2>1. Apart' /\ OpenOwned'
    BY <1>2, ApartStep, OwnedStep DEF RInv
  <2>2. Registered'
    BY <1>2, RegisteredStep DEF RInv
  <2>3. Resumable'
    BY <1>2, ResumableStep DEF RInv
  <2>4. Reach'
    BY <1>2, ReachStep
  <2>5. QED
    BY <1>1, <2>1, <2>2, <2>3, <2>4 DEF RInv
<1>3. CASE UNCHANGED vars
  <2>1. Apart' /\ OpenOwned'
    BY <1>3 DEF vars, RInv, Apart, Out, OpenOwned
  <2>2. Registered'
    BY <1>3 DEF vars, RInv, Registered, Last
  <2>3. Resumable'
    BY <1>3 DEF vars, RInv, Resumable
  <2>4. Reach'
    BY <1>3 DEF vars, RInv, Reach, Last
  <2>5. QED
    BY <1>1, <2>1, <2>2, <2>3, <2>4 DEF RInv
<1>4. QED
  BY <1>2, <1>3

\* A suspended task can be found: it is registered, claimed by a dispatcher
\* thread, or (for a blocked caller) signalled; finish_register never rolls back
\* the entry of a task that waits for it.
THEOREM ParkedIsReachable ==
  ASSUME OwnNumbers, OwnWords
  PROVE  Spec => []SuspendedIsReachable
<1>1. Init => RInv
  BY InitRInv
<1>2. RInv /\ [Next]_vars => RInv'
  BY NextRInv
<1>3. RInv => SuspendedIsReachable
  BY DEF RInv, Reach, SuspendedIsReachable
<1>4. QED
  BY <1>1, <1>2, <1>3, PTL DEF Spec
=============================================================================
