--------------------------- MODULE MCActiveObject ---------------------------
(* Instances of ActiveObject for TLC. *)
EXTENDS ActiveObject

CONSTANTS c1, c2   \* controlling threads
=============================================================================
