----------------------------- MODULE BoundedFifo -----------------------------
(***************************************************************************)
(* What ThreadSafeQueue promises its users, without locks, waiting or       *)
(* notifications: queues that keep their newest items in order, at most     *)
(* Capacity of them when that is not 0.                                     *)
(***************************************************************************)
EXTENDS Naturals, Sequences

CONSTANTS Queues,    \* the queues
          Capacity,  \* of each queue, 0 when unbounded
          Sizes,     \* how many items one put may bring
          Values,    \* the items
          Swaps      \* pairs of queues that may be exchanged

VARIABLE content     \* of each queue, the oldest item first

Init == content = [q \in Queues |-> <<>>]

\* The newest items of s that a queue of this capacity keeps.
Newest(s, cap) == IF cap = 0 \/ Len(s) <= cap THEN s ELSE SubSeq(s, Len(s) - cap + 1, Len(s))

Put(q, items) == content' = [content EXCEPT ![q] = Newest(@ \o items, Capacity[q])]

\* The oldest item, or all of them, leave the queue at once.
Get(q) == content[q] # <<>> /\ content' = [content EXCEPT ![q] = Tail(@)]
Drain(q) == content' = [content EXCEPT ![q] = <<>>]

Exchange(q, o) == content' = [content EXCEPT ![q] = content[o], ![o] = content[q]]

Next == \/ \E q \in Queues : \/ Get(q) \/ Drain(q)
                             \/ \E n \in Sizes : \E items \in [1 .. n -> Values] : Put(q, items)
        \/ \E s \in Swaps : Exchange(s[1], s[2])

Spec == Init /\ [][Next]_content
=============================================================================
