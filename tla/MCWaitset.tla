------------------------------ MODULE MCWaitset ------------------------------
(* Instances of Waitset for TLC. *)
EXTENDS Waitset, TLC

CONSTANTS t1, t2, q1, q2, w1, w2

Unbounded == q1 :> 0 @@ q2 :> 0
Equal == q1 :> 2 @@ q2 :> 2
NoSwap == {}
SwapBoth == {<<q1, q2>>}
Both == <<q1, q2>>
FirstOnly == <<q1>>
=============================================================================
