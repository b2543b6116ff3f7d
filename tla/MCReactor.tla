----------------------------- MODULE MCReactor -----------------------------
(* Instances of Reactor for TLC. *)
EXTENDS Reactor

HalfAndDone == {50, 100}
StartedAndHalf == {1, 50}
=============================================================================
