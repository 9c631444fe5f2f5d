----------------------------- MODULE MCChannel -----------------------------
(* Instances of Channel for TLC. *)
EXTENDS Channel

CONSTANTS e1, e2, e3

\* Many ends and one message, or few ends and several messages.
ManyEnds   == [capacity |-> 0, ends |-> {e1, e2, e3}, sends |-> 1]
ManySends  == [capacity |-> 0, ends |-> {e1, e2}, sends |-> 3]
SmallQueue == [capacity |-> 1, ends |-> {e1, e2}, sends |-> 3]

AllShapes == {ManyEnds, ManySends, SmallQueue}
OneShape  == {ManyEnds}
=============================================================================
