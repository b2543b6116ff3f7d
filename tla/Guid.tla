------------------------------- MODULE Guid -------------------------------
(***************************************************************************)
(* lt::Guid: the 16 byte identity of a writer plus a uint64_t sequence      *)
(* number.  A sequence number is kept here as the pair <<high, low>> of its *)
(* halves, each below Half; the build has Half = 2^32, and TLC runs use a   *)
(* small Half so that the carry, the wrap and the collisions are reachable. *)
(***************************************************************************)
EXTENDS Naturals

CONSTANT Half   \* number of values of one half of a sequence number

ASSUME HalfAssumption == Half \in Nat /\ Half > 1

HalfWord == 0 .. Half - 1
Sequence == HalfWord \X HalfWord

\* The sequence of a Guid made from a bare GUID_t, and of Guid::UNKNOWN().
Zero == <<0, 0>>

\* sequence += 1 on a uint64_t: the low half carries, the high half wraps.
Successor(s) == IF s[2] + 1 < Half THEN <<s[1], s[2] + 1>>
                ELSE <<(s[1] + 1) % Half, 0>>

\* Guid::increment(): never leaves the sequence at zero.
Increment(s) == IF Successor(s) = Zero THEN <<0, 1>> ELSE Successor(s)

\* Guid::makeBadVersion(): the circular shift by 32 exchanges the halves.
BadVersion(s) == <<s[2], s[1]>>
=============================================================================
