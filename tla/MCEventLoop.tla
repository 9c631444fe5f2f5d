---------------------------- MODULE MCEventLoop ----------------------------
(* Instances of EventLoop for TLC. *)
EXTENDS EventLoop, TLC

CONSTANTS c1, c2, w1, z1, f1, f2, f3, s1, s2

\* c1 parks on a descriptor of each shard, c2 twice on one descriptor, the
\* caller w1 twice on another; the timer of z1 is on the first shard.
MixedRoute == (c1 :> <<f1, f2>>) @@ (c2 :> <<f1, f1>>) @@ (w1 :> <<f3, f3>>)
MixedShards == (f1 :> s2) @@ (f2 :> s1) @@ (f3 :> s1) @@ (z1 :> s1)
\* A token field that was not written yet holds nothing or an earlier token of
\* the same coroutine.
OwnStray == [t \in {c1, c2} |-> {tok \in Tokens : tok[1] = t}]
=============================================================================
