------------------------------ MODULE MCWorkPool -----------------------------
(* Instances of WorkPool for TLC. *)
EXTENDS WorkPool, TLC

CONSTANTS w1, w2, main, c1, c2, c3, a1, a2, b1, b2, d1

\* Two calls of two branches each: one inside the other, or one after it; and a
\* third of one branch, for a nest three deep.
SmallCalls == (c1 :> <<a1, a2>>) @@ (c2 :> <<b1, b2>>) @@ (c3 :> <<d1>>)

OneWorker  == [workers |-> {w1}, calls |-> {c1, c2, c3}]
TwoWorkers == [workers |-> {w1, w2}, calls |-> {c1, c2}]

BothPools == {OneWorker, TwoWorkers}
WidePool  == {TwoWorkers}
=============================================================================
