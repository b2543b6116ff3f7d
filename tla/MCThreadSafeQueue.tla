-------------------------- MODULE MCThreadSafeQueue --------------------------
(* Instances of ThreadSafeQueue for TLC. *)
EXTENDS ThreadSafeQueue, TLC

CONSTANTS t1, t2, t3, t4, q1

\* One bounded queue.
OneOfTwo == q1 :> 2

NoSwap == {}
=============================================================================
