--------------------------- MODULE MCRequestReply ---------------------------
(* Instances of RequestReply for TLC. *)
EXTENDS RequestReply, TLC

CONSTANTS r1, r2, t1, t2, s1, p1

\* One thread for each requester, as the tests and the README use them.
OwnRequester == t1 :> r1 @@ t2 :> r2

\* Two threads that share one requester.
SharedRequester == t1 :> r1 @@ t2 :> r1
=============================================================================
