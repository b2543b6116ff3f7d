--------------------------- MODULE ThreadSafeQueue ---------------------------
(***************************************************************************)
(* lt::ThreadSafeQueue: a deque of unique_ptr guarded by m_mutex, with the  *)
(* condition variable m_nonempty for blocked consumers.  One critical       *)
(* section is one step.  What is not atomic in the code is not atomic here: *)
(* the wait on m_nonempty, the notification after the mutex is released,    *)
(* and the notification of an attached condition after that.                *)
(*                                                                          *)
(* An item is the position at which it was pushed.  The count `pushed`      *)
(* belongs to the contents of a queue and moves with them in swap().        *)
(***************************************************************************)
EXTENDS Naturals, Sequences, FiniteSets

CONSTANTS Threads,   \* threads that use the queues
          Queues,    \* ThreadSafeQueue objects
          NoQueue,   \* stands for no queue
          Capacity,  \* m_capacity of each queue, 0 when unbounded
          Bulk,      \* sizes of the containers given to pushAll()
          Swaps,     \* pairs of queues swap() may be called on
          MaxItems   \* bound: items pushed into one queue's contents

ASSUME NoQueueAssumption == NoQueue \notin Queues
ASSUME CapacityAssumption == Capacity \in [Queues -> Nat]
ASSUME BulkAssumption == Bulk \subseteq Nat
ASSUME SwapsAssumption == Swaps \subseteq Queues \X Queues
ASSUME ThreadsFinite == IsFiniteSet(Threads)
ASSUME MaxItemsAssumption == MaxItems \in Nat

VARIABLES m_queue,  \* contents of each queue
          pushed,   \* how many items were ever pushed into those contents
          at        \* where each thread is: in no call, or inside one

queueVars == <<m_queue, pushed>>
vars == <<m_queue, pushed, at>>

\* waiting: blocked on m_nonempty.  woken, expired: the wait ended by a
\* notification or by the clock, and the mutex is to be taken again.
\* notify, signal: about to notify m_nonempty, m_externalCondition.
Places == {"idle", "waiting", "woken", "expired", "notify", "signal"}
Place == [is : Places, queue : Queues \cup {NoQueue}, all : BOOLEAN]
Idle == [is |-> "idle", queue |-> NoQueue, all |-> FALSE]
In(t, place, q) == at[t].is = place /\ at[t].queue = q

Init == /\ m_queue = [q \in Queues |-> <<>>]
        /\ pushed = [q \in Queues |-> 0]
        /\ at = [t \in Threads |-> Idle]

\* The positions of the n items pushed after the first k.
Items(k, n) == [i \in 1 .. n |-> k + i]

\* The trim of pushAll() and emplace(): pop_front until the capacity is met.
Trimmed(s, cap) == IF cap > 0 /\ Len(s) > cap
                   THEN SubSeq(s, Len(s) - cap + 1, Len(s)) ELSE s

\* The trim of push(): at most one pop_front.
TrimmedOnce(s, cap) == IF cap > 0 /\ Len(s) > cap THEN Tail(s) ELSE s

-----------------------------------------------------------------------------
(* Producers. *)

\* A push that notifies only when the queue was empty.
PushNotifyingOnEmpty(t, q) ==
  /\ at[t] = Idle
  /\ pushed[q] < MaxItems
  /\ pushed' = [pushed EXCEPT ![q] = @ + 1]
  /\ m_queue' = [m_queue EXCEPT ![q] = TrimmedOnce(Append(@, pushed[q] + 1), Capacity[q])]
  /\ at' = [at EXCEPT ![t] = IF m_queue[q] = <<>>
                             THEN [is |-> "notify", queue |-> q, all |-> FALSE] ELSE @]

\* push(), up to the release of the mutex.
Push(t, q) ==
  /\ at[t] = Idle
  /\ pushed[q] < MaxItems
  /\ pushed' = [pushed EXCEPT ![q] = @ + 1]
  /\ m_queue' = [m_queue EXCEPT ![q] = TrimmedOnce(Append(@, pushed[q] + 1), Capacity[q])]
  /\ at' = [at EXCEPT ![t] = [is |-> "notify", queue |-> q, all |-> FALSE]]

\* pushAll() that trims before the new items are in.
PushAllTrimFirst(t, q, n) ==
  /\ at[t] = Idle
  /\ pushed[q] + n <= MaxItems
  /\ pushed' = [pushed EXCEPT ![q] = @ + n]
  /\ m_queue' = [m_queue EXCEPT ![q] = Trimmed(@, Capacity[q]) \o Items(pushed[q], n)]
  /\ at' = [at EXCEPT ![t] = [is |-> "notify", queue |-> q, all |-> FALSE]]

\* pushAll() of n items, up to the release of the mutex.
PushAll(t, q, n) ==
  /\ at[t] = Idle
  /\ pushed[q] + n <= MaxItems
  /\ pushed' = [pushed EXCEPT ![q] = @ + n]
  /\ m_queue' = [m_queue EXCEPT ![q] = Trimmed(@ \o Items(pushed[q], n), Capacity[q])]
  /\ at' = [at EXCEPT ![t] = [is |-> "notify", queue |-> q, all |-> FALSE]]

\* emplace() trims and notifies as pushAll() of one item does.
Emplace(t, q) == PushAll(t, q, 1)

\* A producer that forgets which queue it is in before the last notification.
NotifyLosingQueue(t) ==
  /\ at[t].is = "notify"
  /\ at' = [at EXCEPT ![t] = [Idle EXCEPT !.is = "signal"]]
  /\ UNCHANGED queueVars

\* m_nonempty.notify_one(): one blocked consumer is woken, if there is one.
Notify(t) ==
  LET q == at[t].queue
      blocked == {u \in Threads : In(u, "waiting", q)}
  IN /\ at[t].is = "notify"
     /\ \/ /\ blocked = {}
           /\ at' = [at EXCEPT ![t].is = "signal"]
        \/ \E u \in blocked : at' = [at EXCEPT ![t].is = "signal", ![u].is = "woken"]
     /\ UNCHANGED queueVars

\* The last line of push(): notify the attached condition, if any, and return.
Signal(t) == /\ at[t].is = "signal"
             /\ at' = [at EXCEPT ![t] = Idle]
             /\ UNCHANGED queueVars

-----------------------------------------------------------------------------
(* Consumers. *)

\* A consumer that takes the newest item.
TakeBack(q, all) ==
  m_queue' = [m_queue EXCEPT ![q] = IF all THEN <<>> ELSE SubSeq(@, 1, Len(@) - 1)]

\* pop() moves the front item out, popAll() swaps all of them out.
Take(q, all) == m_queue' = [m_queue EXCEPT ![q] = IF all THEN <<>> ELSE Tail(@)]

\* pop() and popAll() that find data at once.
PopNow(t, q, all) == /\ at[t] = Idle
                     /\ m_queue[q] # <<>>
                     /\ Take(q, all)
                     /\ UNCHANGED <<pushed, at>>

\* pop() and popAll() on an empty queue release the mutex and block.
PopBlocks(t, q, all) ==
  /\ at[t] = Idle
  /\ m_queue[q] = <<>>
  /\ at' = [at EXCEPT ![t] = [is |-> "waiting", queue |-> q, all |-> all]]
  /\ UNCHANGED queueVars

\* A wait ends without a notification, or because its time is up.
WakeSpuriously(t) == /\ at[t].is = "waiting"
                     /\ at' = [at EXCEPT ![t].is = "woken"]
                     /\ UNCHANGED queueVars

Expire(t) == /\ at[t].is = "waiting"
             /\ at' = [at EXCEPT ![t].is = "expired"]
             /\ UNCHANGED queueVars

\* The predicate is evaluated again under the mutex.  A woken consumer that
\* finds the queue empty blocks again; an expired one returns nullptr.
Recheck(t) ==
  LET q == at[t].queue
  IN /\ at[t].is \in {"woken", "expired"}
     /\ IF m_queue[q] # <<>>
        THEN Take(q, at[t].all) /\ at' = [at EXCEPT ![t] = Idle]
        ELSE /\ UNCHANGED m_queue
             /\ at' = [at EXCEPT ![t] = IF @.is = "woken" THEN [@ EXCEPT !.is = "waiting"]
                                        ELSE Idle]
     /\ UNCHANGED pushed

\* clear() does not notify, and neither does swap(), which takes no account
\* of the two capacities.
Clear(t, q) == /\ at[t] = Idle
               /\ m_queue' = [m_queue EXCEPT ![q] = <<>>]
               /\ UNCHANGED <<pushed, at>>

Swap(t, q, o) == /\ at[t] = Idle
                 /\ m_queue' = [m_queue EXCEPT ![q] = m_queue[o], ![o] = m_queue[q]]
                 /\ pushed' = [pushed EXCEPT ![q] = pushed[o], ![o] = pushed[q]]
                 /\ UNCHANGED at

-----------------------------------------------------------------------------
Produce(t) == \E q \in Queues : Push(t, q) \/ Emplace(t, q) \/ \E n \in Bulk : PushAll(t, q, n)

Consume(t) == \E q \in Queues : \/ \E all \in BOOLEAN : PopNow(t, q, all) \/ PopBlocks(t, q, all)
                                \/ Clear(t, q)

Blocked(t) == WakeSpuriously(t) \/ Expire(t) \/ Recheck(t)

Exchange(t) == \E s \in Swaps : Swap(t, s[1], s[2])

Next == \E t \in Threads : \/ Produce(t) \/ Notify(t) \/ Signal(t)
                           \/ Consume(t) \/ Blocked(t) \/ Exchange(t)

Spec == Init /\ [][Next]_vars

\* A thread that is past its critical section goes on, and a consumer whose
\* wait ended gets the mutex.  Nothing makes the clock run: a wait may be
\* as long as it likes.
Fairness == \A t \in Threads : WF_vars(Notify(t)) /\ WF_vars(Signal(t)) /\ WF_vars(Recheck(t))

FairSpec == Spec /\ Fairness
-----------------------------------------------------------------------------
(* Properties. *)

\* Every variable holds values of its type; a thread inside a call is inside
\* a call on some queue.
TypeOK == /\ m_queue \in [Queues -> Seq(Nat)]
          /\ pushed \in [Queues -> Nat]
          /\ at \in [Threads -> Place]
          /\ \A t \in Threads : at[t].is # "idle" => at[t].queue \in Queues

\* "the oldest items are discarded": whatever producers, consumers and trims
\* do, the queue holds exactly the newest of the items pushed into it, in the
\* order of the pushes.  So consumers get items in order and none twice.
NewestInOrder ==
  \A q \in Queues :
    /\ Len(m_queue[q]) <= pushed[q]
    /\ m_queue[q] = Items(pushed[q] - Len(m_queue[q]), Len(m_queue[q]))

\* "If nonzero, discard old samples when the queue length exceeds this value":
\* no call leaves more items than the capacity.
CapacityBound == \A q \in Queues : Capacity[q] > 0 => Len(m_queue[q]) <= Capacity[q]

\* Consumers that are about to look at queue q again, and producers that are
\* about to notify it.
Coming(q) == {t \in Threads : /\ at[t].queue = q
                              /\ at[t].is \in {"notify", "woken", "expired"}}

\* While a consumer is blocked on m_nonempty, every item in the queue has a
\* notification or an awake consumer of its own on the way, although the
\* notification is sent after the mutex is released.
WakeupsCover ==
  \A q \in Queues : (\E t \in Threads : In(t, "waiting", q))
                      => Len(m_queue[q]) <= Cardinality(Coming(q))

Fifo == INSTANCE BoundedFifo
          WITH content <- m_queue, Sizes <- Bulk \cup {1}, Values <- 1 .. MaxItems

\* Every call takes effect at one moment, as an operation of BoundedFifo: a
\* push that removes at most one item keeps the newest ones all the same, and
\* a pop that blocked, was woken or expired takes the oldest item or nothing.
ImplementsFifo == Fifo!Spec

\* A consumer blocked in pop() or popAll() on a queue with data is woken, or
\* the data goes to another consumer, without help from the clock.
DataReachesWaiter ==
  \A t \in Threads, q \in Queues :
    (In(t, "waiting", q) /\ m_queue[q] # <<>>) ~> (~ In(t, "waiting", q) \/ m_queue[q] = <<>>)
=============================================================================
