------------------------------- MODULE Channel -------------------------------
(***************************************************************************)
(* The Channel[T] of compiled programs (runtime/src/channel.rs) on targets *)
(* with threads.                                                           *)
(*                                                                         *)
(* A channel is a heap object with two lock-free counters, `total` (every  *)
(* live end, frees the object at 0) and `senders` (live Sender ends,       *)
(* closes the channel at 0), and a Mutex around the queue and the `closed` *)
(* flag.  Each access to a counter is one step, and so is each critical    *)
(* section of the Mutex: nothing inside one touches the counters.          *)
(*                                                                         *)
(* The actors are the Sender ends themselves (each may sit in a task of    *)
(* its own) and the tasks that receive through the one Receiver end.       *)
(* Payloads are heap payloads: codegen sets elem_drop before every send.   *)
(***************************************************************************)
EXTENDS Naturals, Sequences, FiniteSets

CONSTANTS
  Ends,         \* Sender ends that may come to exist
  FirstEnd,     \* the Sender of Channel.new()
  Consumers,    \* tasks receiving through the Receiver end
  Shapes,       \* channels to consider: capacity (0: unbounded), and the bounds
                \* on Sender ends and on send calls
  MaxSends      \* bound: send and try_send calls of any shape

ASSUME EndsAssumption == FirstEnd \in Ends /\ IsFiniteSet(Ends)
ASSUME ConsumersAssumption == IsFiniteSet(Consumers)
ASSUME BoundsAssumption ==
  /\ MaxSends \in Nat
  /\ Shapes \subseteq [capacity : Nat, ends : SUBSET Ends, sends : 0..MaxSends]

VARIABLES
  shape,        \* the member of Shapes that was made, KaracChannel.capacity in it
  total,        \* KaracChannel.total
  senders,      \* KaracChannel.senders
  queue,        \* Inner.queue, payloads by number
  closed,       \* Inner.closed
  elemDrop,     \* elem_drop is set
  freed,        \* the KaracChannel box has been dropped
  pc,           \* pc[e]: what Sender end e is doing
  op,           \* op[e]: its call is "send" or "try_send"
  val,          \* val[e]: the payload of that call
  seenTotal,    \* seenTotal[e]: the value of total that call loaded
  rx,           \* the Receiver end is live
  rpc,          \* rpc[c]: what receiving task c is doing
  calls,        \* send and try_send calls begun, numbering the payloads
  accepted,     \* history: payloads pushed, in order
  received,     \* history: payloads delivered to a receiver, in order
  dropped       \* history: payloads the destructor ran elem_drop on, in order

endVars  == <<pc, op, val, seenTotal, calls>>
counters == <<total, senders, freed>>
inner    == <<shape, queue, closed>>
history  == <<accepted, received, dropped>>
vars     == <<counters, inner, elemDrop, endVars, rx, rpc, history>>

(***************************************************************************)
(* Control states of a Sender end.                                         *)
(*   absent    not created yet           gone     dropped                  *)
(*   idle      between calls             clone    senders bumped, not total*)
(*   check     total loaded              enqueue  receiver check passed    *)
(*   notify    pushed, lock released     close    last sender, not closed  *)
(*   closing   closed set, lock released release  about to release_total   *)
(*   panicked  `send` panicked, which aborts the program                   *)
(***************************************************************************)
Busy == {"clone", "check", "enqueue", "notify", "close", "closing", "release"}
PCs  == {"absent", "idle", "gone", "panicked"} \union Busy

Payloads == 1..MaxSends

TypeOK ==
  /\ shape \in Shapes
  /\ total \in Nat /\ senders \in Nat
  /\ queue \in Seq(Payloads)
  /\ closed \in BOOLEAN /\ elemDrop \in BOOLEAN /\ freed \in BOOLEAN
  /\ pc \in [Ends -> PCs]
  /\ op \in [Ends -> {"send", "try_send"}]
  /\ val \in [Ends -> 0..MaxSends]
  /\ seenTotal \in [Ends -> Nat]
  /\ rx \in BOOLEAN
  /\ rpc \in [Consumers -> {"idle", "parked", "woken"}]
  /\ calls \in 0..MaxSends
  /\ accepted \in Seq(Payloads) /\ received \in Seq(Payloads)
  /\ dropped \in Seq(Payloads)

\* karac_runtime_channel_new / _new_bounded: one Sender and one Receiver.
Init ==
  /\ shape \in Shapes
  /\ total = 2 /\ senders = 1
  /\ queue = <<>> /\ closed = FALSE
  /\ elemDrop = FALSE /\ freed = FALSE
  /\ pc = [e \in Ends |-> IF e = FirstEnd THEN "idle" ELSE "absent"]
  /\ op = [e \in Ends |-> "send"]
  /\ val = [e \in Ends |-> 0]
  /\ seenTotal = [e \in Ends |-> 0]
  /\ rx = TRUE
  /\ rpc = [c \in Consumers |-> "idle"]
  /\ calls = 0
  /\ accepted = <<>> /\ received = <<>> /\ dropped = <<>>

Running == \A e \in Ends : pc[e] # "panicked"

Goto(e, l) == pc' = [pc EXCEPT ![e] = l]

At(e, l) == Running /\ pc[e] = l

\* release_total and, for the last reference, the destructor: every payload
\* still queued is dropped through elem_drop.
ReleaseTotal ==
  /\ total' = total - 1
  /\ freed' = (freed \/ total = 1)
  /\ dropped' = IF total = 1 /\ elemDrop THEN dropped \o queue ELSE dropped

(***************************************************************************)
(* karac_runtime_channel_clone: two separate fetch_adds.                   *)
(***************************************************************************)
CloneSenders(e) ==
  /\ At(e, "idle")
  /\ Cardinality({f \in Ends : pc[f] = "clone"})
       < Cardinality({f \in shape.ends : pc[f] = "absent"})   \* bound
  /\ senders' = senders + 1
  /\ Goto(e, "clone")
  /\ UNCHANGED <<total, freed, inner, elemDrop, op, val, seenTotal, calls,
                 rx, rpc, history>>

\* Mistake: the clone counts as a sender but not as a live end.
CloneTotalForgotten(e) ==
  /\ At(e, "clone")
  /\ \E f \in shape.ends : pc[f] = "absent" /\ pc' = [pc EXCEPT ![e] = "idle", ![f] = "idle"]
  /\ UNCHANGED <<counters, inner, elemDrop, op, val, seenTotal, calls,
                 rx, rpc, history>>

CloneTotal(e) ==
  /\ At(e, "clone")
  /\ total' = total + 1
  /\ \E f \in shape.ends : pc[f] = "absent" /\ pc' = [pc EXCEPT ![e] = "idle", ![f] = "idle"]
  /\ UNCHANGED <<senders, freed, inner, elemDrop, op, val, seenTotal, calls,
                 rx, rpc, history>>

(***************************************************************************)
(* karac_runtime_channel_drop_sender.                                      *)
(***************************************************************************)

\* Mistake: the value fetch_sub returns is taken for the one left behind.
DropSenderMiscounted(e) ==
  /\ At(e, "idle")
  /\ senders' = senders - 1
  /\ Goto(e, IF senders = 2 THEN "close" ELSE "release")
  /\ UNCHANGED <<total, freed, inner, elemDrop, op, val, seenTotal, calls,
                 rx, rpc, history>>

DropSender(e) ==
  /\ At(e, "idle")
  /\ senders' = senders - 1
  /\ Goto(e, IF senders = 1 THEN "close" ELSE "release")
  /\ UNCHANGED <<total, freed, inner, elemDrop, op, val, seenTotal, calls,
                 rx, rpc, history>>

\* Last sender: closed is set inside the lock ...
SetClosed(e) ==
  /\ At(e, "close")
  /\ closed' = TRUE
  /\ Goto(e, "closing")
  /\ UNCHANGED <<counters, shape, queue, elemDrop, op, val, seenTotal, calls,
                 rx, rpc, history>>

\* Mistake: the close wakes one parked receiver only.
CloseNotifyOne(e) ==
  /\ At(e, "closing")
  /\ LET parked == {c \in Consumers : rpc[c] = "parked"}
     IN  IF parked = {} THEN UNCHANGED rpc
         ELSE \E c \in parked : rpc' = [rpc EXCEPT ![c] = "woken"]
  /\ Goto(e, "release")
  /\ UNCHANGED <<counters, inner, elemDrop, op, val, seenTotal, calls,
                 rx, history>>

\* ... and notify_all runs after it.
CloseNotifyAll(e) ==
  /\ At(e, "closing")
  /\ rpc' = [c \in Consumers |-> IF rpc[c] = "parked" THEN "woken" ELSE rpc[c]]
  /\ Goto(e, "release")
  /\ UNCHANGED <<counters, inner, elemDrop, op, val, seenTotal, calls,
                 rx, history>>

ReleaseSender(e) ==
  /\ At(e, "release")
  /\ ReleaseTotal
  /\ Goto(e, "gone")
  /\ UNCHANGED <<senders, inner, elemDrop, op, val, seenTotal, calls,
                 rx, rpc, accepted, received>>

(***************************************************************************)
(* karac_runtime_channel_send and _try_send.                               *)
(***************************************************************************)

\* Codegen stores elem_drop, then the call loads total.
BeginSend(e, kind) ==
  /\ At(e, "idle")
  /\ calls < shape.sends   \* bound
  /\ calls' = calls + 1
  /\ elemDrop' = TRUE
  /\ op' = [op EXCEPT ![e] = kind]
  /\ val' = [val EXCEPT ![e] = calls + 1]
  /\ seenTotal' = [seenTotal EXCEPT ![e] = total]
  /\ Goto(e, "check")
  /\ UNCHANGED <<counters, inner, rx, rpc, history>>

\* Loads senders; total.saturating_sub(senders) == 0 is "no live receiver".
CheckReceiver(e) ==
  /\ At(e, "check")
  /\ Goto(e, IF seenTotal[e] > senders THEN "enqueue"
             ELSE IF op[e] = "send" THEN "panicked" ELSE "idle")
  /\ UNCHANGED <<counters, inner, elemDrop, op, val, seenTotal, calls,
                 rx, rpc, history>>

Full == shape.capacity # 0 /\ Len(queue) >= shape.capacity

Push(e) ==
  /\ queue' = Append(queue, val[e])
  /\ accepted' = Append(accepted, val[e])
  /\ Goto(e, "notify")

\* Mistake: the capacity is not looked at inside the lock.
EnqueueUnchecked(e) ==
  /\ At(e, "enqueue")
  /\ Push(e)
  /\ UNCHANGED <<counters, shape, closed, elemDrop, op, val, seenTotal, calls,
                 rx, rpc, received, dropped>>

\* Mistake: the push is not followed by notify_one.
EnqueueSilent(e) ==
  /\ At(e, "enqueue")
  /\ \/ ~Full /\ Goto(e, "idle")
        /\ queue' = Append(queue, val[e]) /\ accepted' = Append(accepted, val[e])
     \/ /\ Full
        /\ Goto(e, IF op[e] = "send" THEN "panicked" ELSE "idle")
        /\ UNCHANGED <<queue, accepted>>
  /\ UNCHANGED <<counters, shape, closed, elemDrop, op, val, seenTotal, calls,
                 rx, rpc, received, dropped>>

\* Inside the lock: a full queue fails (send panics, try_send answers Full with
\* the value untouched), otherwise the payload is pushed.
Enqueue(e) ==
  /\ At(e, "enqueue")
  /\ \/ ~Full /\ Push(e)
     \/ /\ Full
        /\ Goto(e, IF op[e] = "send" THEN "panicked" ELSE "idle")
        /\ UNCHANGED <<queue, accepted>>
  /\ UNCHANGED <<counters, shape, closed, elemDrop, op, val, seenTotal, calls,
                 rx, rpc, received, dropped>>

\* notify_one after the lock is released.
NotifyOne(e) ==
  /\ At(e, "notify")
  /\ \/ \E c \in Consumers :
          rpc[c] = "parked" /\ rpc' = [rpc EXCEPT ![c] = "woken"]
     \/ (\A c \in Consumers : rpc[c] # "parked") /\ UNCHANGED rpc
  /\ Goto(e, "idle")
  /\ UNCHANGED <<counters, inner, elemDrop, op, val, seenTotal, calls,
                 rx, history>>

(***************************************************************************)
(* karac_runtime_channel_recv, _try_recv and _drop_receiver.               *)
(***************************************************************************)
\* Mistake: deliver the front blob without dequeuing it.
PopByPeeking ==
  /\ queue # <<>>
  /\ UNCHANGED queue
  /\ received' = Append(received, Head(queue))

Pop ==
  /\ queue # <<>>
  /\ queue' = Tail(queue)
  /\ received' = Append(received, Head(queue))

\* One turn of channel_recv_impl's loop inside the lock: pop, or answer
\* "closed" with a zero-filled slot, or park (cv.wait releases the lock).
Recv(c) ==
  /\ Running /\ rx /\ rpc[c] \in {"idle", "woken"}
  /\ \/ Pop /\ rpc' = [rpc EXCEPT ![c] = "idle"]
     \/ /\ queue = <<>>
        /\ rpc' = [rpc EXCEPT ![c] = IF closed THEN "idle" ELSE "parked"]
        /\ UNCHANGED <<queue, received>>
  /\ UNCHANGED <<counters, shape, closed, elemDrop, endVars, rx, accepted, dropped>>

\* A Condvar may wake without a notification.
SpuriousWake(c) ==
  /\ Running /\ rpc[c] = "parked"
  /\ rpc' = [rpc EXCEPT ![c] = "woken"]
  /\ UNCHANGED <<counters, inner, elemDrop, endVars, rx, history>>

\* try_recv never parks and never looks at closed; on an empty queue it (like
\* karac_runtime_channel_pending) changes nothing.
TryRecv(c) ==
  /\ Running /\ rx /\ rpc[c] = "idle"
  /\ Pop
  /\ UNCHANGED <<counters, shape, closed, elemDrop, endVars, rx, rpc, accepted, dropped>>

\* Mistake: codegen emits drop_sender for a Receiver binding.
DropReceiverAsSender ==
  /\ Running /\ rx /\ \A c \in Consumers : rpc[c] = "idle"
  /\ rx' = FALSE
  /\ senders' = senders - 1
  /\ ReleaseTotal
  /\ UNCHANGED <<inner, elemDrop, endVars, rpc, accepted, received>>

\* The Receiver end leaves scope, once no task borrows it.
DropReceiver ==
  /\ Running /\ rx /\ \A c \in Consumers : rpc[c] = "idle"
  /\ rx' = FALSE
  /\ ReleaseTotal
  /\ UNCHANGED <<senders, inner, elemDrop, endVars, rpc, accepted, received>>

\* The program has aborted, or every end is gone.
Finished ==
  /\ ~Running \/ (~rx /\ \A e \in Ends : pc[e] \in {"absent", "gone"})
  /\ UNCHANGED vars

SenderStep(e) ==
  \/ CloneTotal(e)
  \/ SetClosed(e) \/ CloseNotifyAll(e) \/ ReleaseSender(e)
  \/ CheckReceiver(e) \/ Enqueue(e) \/ NotifyOne(e)

Next ==
  \/ \E e \in Ends :
       \/ CloneSenders(e) \/ DropSender(e) \/ SenderStep(e)
       \/ \E kind \in {"send", "try_send"} : BeginSend(e, kind)
  \/ \E c \in Consumers : Recv(c) \/ SpuriousWake(c) \/ TryRecv(c)
  \/ DropReceiver
  \/ Finished

\* A call that has begun keeps running; a woken receiver runs; and scope-exit
\* cleanup drops every Sender sooner or later.  Nothing makes a task send,
\* clone, receive or drop the Receiver.
Fairness ==
  /\ \A e \in Ends : WF_vars(SenderStep(e)) /\ WF_vars(DropSender(e))
  /\ \A c \in Consumers : WF_vars(rpc[c] = "woken" /\ Recv(c))

Spec == Init /\ [][Next]_vars /\ Fairness

-----------------------------------------------------------------------------
LiveEnds    == {e \in Ends : pc[e] \notin {"absent", "gone"}}
CountedEnds == {e \in Ends : pc[e] \notin {"absent", "gone", "close", "closing", "release"}}
Cloning     == {e \in Ends : pc[e] = "clone"}
Parked      == {c \in Consumers : rpc[c] = "parked"}
Woken       == {c \in Consumers : rpc[c] = "woken"}
Notifying   == {e \in Ends : pc[e] = "notify"}

\* The box is freed exactly when the last end has released it: never while any
\* Sender is inside a call (it still has notify_one or notify_all to run on the
\* box after unlocking), and never forgotten.
FreedIffNoEnds == Running => (freed <=> LiveEnds = {} /\ ~rx)

\* `closed` is final: once it is set no Sender is left that could push, so the
\* "closed and empty" answer of recv is never premature, even though clone and
\* drop_sender of different tasks interleave on the counter.
ClosedMeansNoSender == closed => CountedEnds = {} /\ senders = 0

\* No message waits unseen: while some receiver is parked, every queued payload
\* has a notify_one still to come or a woken receiver on its way to it, and a
\* closed channel has its notify_all still to come.
NoLostWakeup ==
  Parked # {} =>
    /\ Len(queue) <= Cardinality(Notifying) + Cardinality(Woken)
    /\ closed => \E e \in Ends : pc[e] = "closing"

\* Accepted payloads are delivered in order, each exactly once, and those never
\* received are dropped exactly once by the destructor: no loss, no duplicate
\* and no leak.  A payload rejected by try_send is never among them.
PayloadConservation ==
  accepted = received \o (IF freed THEN dropped ELSE queue)

\* The bound of Channel.bounded(cap) holds although senders race to push.
WithinCapacity == shape.capacity # 0 => Len(queue) <= shape.capacity

\* A blocked recv returns (with a payload or with "closed") once the senders
\* are done: no receiver stays parked forever.
BlockedRecvReturns ==
  \A c \in Consumers : rpc[c] = "parked" ~> (rpc[c] = "idle" \/ ~Running)

\* What channel.rs says of try_send ("STATUS 2 MEANS \"no live receiver\"") and of
\* send ("PANICS WHEN EVERY RECEIVER IS GONE"): a call gives up on the receiver
\* only when the Receiver has been dropped.
GivesUpOnlyWithoutReceiver ==
  [][\A e \in Ends : pc[e] = "check" /\ pc'[e] \in {"idle", "panicked"} => ~rx]_vars
=============================================================================
