---------------------------- MODULE QueueProofs ----------------------------
(***************************************************************************)
(* Theorems about ThreadSafeQueue and about Waitset, which composes it, for *)
(* any finite set of threads, any queues and capacities, any number of      *)
(* items and of consumers.                                                  *)
(***************************************************************************)
EXTENDS Waitset, FiniteSetTheorems, SequenceTheorems, TLAPS

\* The items pushed after the first k are a sequence, and the operations of
\* std::deque the queue uses map such runs of items to such runs.
LEMMA ItemsShape ==
  ASSUME NEW k \in Nat, NEW n \in Nat
  PROVE  /\ Items(k, n) \in Seq(Nat) /\ Len(Items(k, n)) = n
         /\ \A i \in 1 .. n : Items(k, n)[i] = k + i
<1>1. Items(k, n) \in [1 .. n -> Nat]
  BY DEF Items
<1>2. Items(k, n) \in Seq(Nat) /\ Len(Items(k, n)) = n
  BY <1>1
<1> QED
  BY <1>2 DEF Items

\* A sequence of length n whose items are k + 1, k + 2, ... is that run.
LEMMA IsItems ==
  ASSUME NEW k \in Nat, NEW n \in Nat, NEW s \in Seq(Nat), Len(s) = n,
         \A i \in 1 .. n : s[i] = k + i
  PROVE  s = Items(k, n)
<1>1. s \in [1 .. n -> Nat] /\ Items(k, n) \in [1 .. n -> Nat]
  BY DEF Items
<1>2. \A i \in 1 .. n : s[i] = Items(k, n)[i]
  BY DEF Items
<1> QED
  BY <1>1, <1>2

\* pop_front() of a run.
LEMMA ItemsTail ==
  ASSUME NEW k \in Nat, NEW n \in Nat, n > 0
  PROVE  /\ Tail(Items(k, n)) \in Seq(Nat) /\ Len(Tail(Items(k, n))) = n - 1
         /\ Tail(Items(k, n)) = Items(k + 1, n - 1)
<1> DEFINE s == Items(k, n)
<1>1. s \in Seq(Nat) /\ Len(s) = n /\ \A i \in 1 .. n : s[i] = k + i
  BY ItemsShape
<1> HIDE DEF s
<1>2. s # <<>>
  BY <1>1
<1>3. Tail(s) \in Seq(Nat) /\ Len(Tail(s)) = n - 1
  BY <1>1, <1>2
<1>4. \A i \in 1 .. n - 1 : Tail(s)[i] = (k + 1) + i
  BY <1>1, <1>2
<1>5. k + 1 \in Nat /\ n - 1 \in Nat
  OBVIOUS
<1>6. Tail(s) = Items(k + 1, n - 1)
  BY <1>3, <1>4, <1>5, IsItems, Zenon
<1> QED
  BY <1>3, <1>6 DEF s

\* Runs that follow each other make one run, as in pushAll().
LEMMA ItemsConcat ==
  ASSUME NEW k \in Nat, NEW n \in Nat, NEW m \in Nat
  PROVE  Items(k, n) \o Items(k + n, m) = Items(k, n + m)
<1> DEFINE s == Items(k, n)
           u == Items(k + n, m)
<1>1. s \in Seq(Nat) /\ Len(s) = n /\ \A i \in 1 .. n : s[i] = k + i
  BY ItemsShape
<1>2. u \in Seq(Nat) /\ Len(u) = m /\ \A i \in 1 .. m : u[i] = k + n + i
  <2>1. k + n \in Nat
    OBVIOUS
  <2> QED
    BY <2>1, ItemsShape
<1> HIDE DEF s, u
<1>3. s \o u \in Seq(Nat) /\ Len(s \o u) = n + m
  BY <1>1, <1>2, ConcatProperties
<1>4. ASSUME NEW i \in 1 .. n + m PROVE (s \o u)[i] = k + i
  <2>1. CASE i \in 1 .. n
    BY <2>1, <1>1, <1>2, ConcatProperties
  <2>2. CASE i \in n + 1 .. n + m
    <3>1. (s \o u)[i] = u[i - n]
      BY <2>2, <1>1, <1>2, ConcatProperties
    <3>2. i - n \in 1 .. m
      BY <2>2
    <3> QED
      BY <3>1, <3>2, <1>2
  <2>3. i \in 1 .. n \/ i \in n + 1 .. n + m
    OBVIOUS
  <2> QED
    BY <2>1, <2>2, <2>3, Zenon
<1>5. n + m \in Nat
  OBVIOUS
<1>6. s \o u = Items(k, n + m)
  BY <1>3, <1>4, <1>5, IsItems, Zenon
<1> QED
  BY <1>6 DEF s, u

\* push_back() of the next item.
LEMMA ItemsAppend ==
  ASSUME NEW k \in Nat, NEW n \in Nat
  PROVE  Append(Items(k, n), k + n + 1) = Items(k, n + 1)
<1> DEFINE s == Items(k, n)
<1>1. s \in Seq(Nat) /\ Len(s) = n /\ \A i \in 1 .. n : s[i] = k + i
  BY ItemsShape
<1> HIDE DEF s
<1>2. Append(s, k + n + 1) \in Seq(Nat) /\ Len(Append(s, k + n + 1)) = n + 1
  BY <1>1
<1>3. \A i \in 1 .. n + 1 : Append(s, k + n + 1)[i] = k + i
  BY <1>1
<1>4. n + 1 \in Nat
  OBVIOUS
<1>5. Append(s, k + n + 1) = Items(k, n + 1)
  BY <1>2, <1>3, <1>4, IsItems, Zenon
<1> QED
  BY <1>5 DEF s

\* Repeated pop_front() of a run.
LEMMA ItemsSuffix ==
  ASSUME NEW k \in Nat, NEW n \in Nat, NEW c \in Nat, c <= n
  PROVE  SubSeq(Items(k, n), n - c + 1, n) = Items(k + (n - c), c)
<1> DEFINE s == Items(k, n)
           u == SubSeq(s, n - c + 1, n)
<1>1. s \in Seq(Nat) /\ Len(s) = n /\ \A i \in 1 .. n : s[i] = k + i
  BY ItemsShape
<1>2. /\ u \in Seq(Nat) /\ Len(u) = c
      /\ \A i \in 1 .. c : u[i] = s[(n - c) + i]
  <2> HIDE DEF s
  <2>1. n - c + 1 \in 1 .. n + 1 /\ n \in n - c .. n
    BY <1>1
  <2> QED
    BY <1>1, <2>1
<1>3. \A i \in 1 .. c : u[i] = (k + (n - c)) + i
  BY <1>1, <1>2
<1>4. k + (n - c) \in Nat
  OBVIOUS
<1> HIDE DEF u
<1>5. u = Items(k + (n - c), c)
  BY <1>2, <1>3, <1>4, IsItems
<1> QED
  BY <1>5 DEF u, s

\* Both trims keep a run of items a run that ends with the same item, and
\* Trimmed never exceeds a nonzero capacity.
LEMMA TrimItems ==
  ASSUME NEW k \in Nat, NEW n \in Nat, NEW cap \in Nat
  PROVE  \E j, m \in Nat :
           /\ Trimmed(Items(k, n), cap) = Items(j, m) /\ j + m = k + n /\ m <= n
           /\ cap > 0 => m <= cap
<1>1. Len(Items(k, n)) = n
  BY ItemsShape
<1>2. CASE cap > 0 /\ n > cap
  <2>1. Trimmed(Items(k, n), cap) = Items(k + (n - cap), cap)
    <3>1. cap <= n
      BY <1>2
    <3>2. SubSeq(Items(k, n), n - cap + 1, n) = Items(k + (n - cap), cap)
      BY <3>1, ItemsSuffix, Zenon
    <3> QED
      BY <1>1, <1>2, <3>2 DEF Trimmed
  <2>2. k + (n - cap) \in Nat /\ (k + (n - cap)) + cap = k + n /\ cap <= n
    BY <1>2
  <2> QED
    BY <2>1, <2>2
<1>3. CASE ~ (cap > 0 /\ n > cap)
  <2>1. Trimmed(Items(k, n), cap) = Items(k, n)
    BY <1>1, <1>3 DEF Trimmed
  <2> QED
    BY <2>1, <1>3
<1> QED
  BY <1>2, <1>3

\* The same of the trim of push(), for a queue that was within its capacity.
LEMMA TrimOnceItems ==
  ASSUME NEW k \in Nat, NEW n \in Nat, NEW cap \in Nat
  PROVE  \E j, m \in Nat :
           /\ TrimmedOnce(Items(k, n), cap) = Items(j, m) /\ j + m = k + n /\ m <= n
           /\ cap > 0 /\ n <= cap + 1 => m <= cap
<1>1. Len(Items(k, n)) = n
  BY ItemsShape
<1>2. CASE cap > 0 /\ n > cap
  <2>1. TrimmedOnce(Items(k, n), cap) = Items(k + 1, n - 1)
    <3>1. n > 0
      BY <1>2
    <3>2. Tail(Items(k, n)) = Items(k + 1, n - 1)
      BY <3>1, ItemsTail, Zenon
    <3> QED
      BY <1>1, <1>2, <3>2 DEF TrimmedOnce
  <2>2. /\ k + 1 \in Nat /\ n - 1 \in Nat /\ (k + 1) + (n - 1) = k + n /\ n - 1 <= n
        /\ n <= cap + 1 => n - 1 <= cap
    BY <1>2
  <2> QED
    BY <2>1, <2>2
<1>3. CASE ~ (cap > 0 /\ n > cap)
  <2>1. TrimmedOnce(Items(k, n), cap) = Items(k, n)
    BY <1>1, <1>3 DEF TrimmedOnce
  <2> QED
    BY <2>1, <1>3
<1> QED
  BY <1>2, <1>3

-----------------------------------------------------------------------------
\* What is true of the contents of one queue, whose length is then n.
Run(s, p, n) == p \in Nat /\ n \in Nat /\ n <= p /\ s = Items(p - n, n)

\* A queue's contents are a run of items; with NewestInOrder the sequence
\* part of TypeOK follows.
LEMMA RunShape ==
  ASSUME NEW s, NEW p, NEW n, Run(s, p, n)
  PROVE  s \in Seq(Nat) /\ Len(s) = n /\ n \in Nat /\ n <= p /\ s = Items(p - Len(s), Len(s))
<1>1. p - n \in Nat
  BY DEF Run
<1> QED
  BY <1>1, ItemsShape, Zenon DEF Run

\* What pop, push, pushAll and the trims do to a run.
LEMMA RunOps ==
  ASSUME NEW s, NEW p, NEW n, Run(s, p, n), NEW cap \in Nat
  PROVE  /\ Run(<<>>, p, 0)
         /\ s # <<>> => n > 0 /\ Run(Tail(s), p, n - 1)
         /\ \E m \in Nat : /\ Run(TrimmedOnce(Append(s, p + 1), cap), p + 1, m)
                           /\ m <= n + 1
                           /\ cap > 0 /\ n <= cap => m <= cap
         /\ \A b \in Nat : \E m \in Nat :
              /\ Run(Trimmed(s \o Items(p, b), cap), p + b, m)
              /\ m <= n + b
              /\ cap > 0 => m <= cap
<1>1. p - n \in Nat /\ p \in Nat /\ n \in Nat /\ n <= p /\ s = Items(p - n, n)
  BY DEF Run
<1>2. s \in Seq(Nat) /\ Len(s) = n
  BY RunShape
<1>3. Run(<<>>, p, 0)
  <2>1. <<>> = Items(p - 0, 0)
    BY <1>1 DEF Items
  <2> QED
    BY <1>1, <2>1 DEF Run
<1>4. ASSUME s # <<>> PROVE n > 0 /\ Run(Tail(s), p, n - 1)
  <2>1. n > 0
    BY <1>2, <1>4
  <2>2. Tail(s) = Items((p - n) + 1, n - 1)
    BY <1>1, <2>1, ItemsTail, Zenon
  <2>3. (p - n) + 1 = p - (n - 1) /\ n - 1 \in Nat /\ n - 1 <= p
    BY <1>1, <2>1
  <2> QED
    BY <1>1, <2>1, <2>2, <2>3 DEF Run
<1>5. \E m \in Nat : /\ Run(TrimmedOnce(Append(s, p + 1), cap), p + 1, m)
                     /\ m <= n + 1
                     /\ cap > 0 /\ n <= cap => m <= cap
  <2>1. Append(s, p + 1) = Items(p - n, n + 1)
    <3>1. (p - n) + n + 1 = p + 1
      BY <1>1
    <3> QED
      BY <1>1, <3>1, ItemsAppend, Zenon
  <2>2. PICK d \in Nat, e \in Nat : d = p - n /\ e = n + 1
    BY <1>1
  <2>3. PICK j \in Nat, m \in Nat :
          /\ TrimmedOnce(Items(d, e), cap) = Items(j, m) /\ j + m = d + e
          /\ m <= e
          /\ cap > 0 /\ e <= cap + 1 => m <= cap
    BY TrimOnceItems, Zenon
  <2>4. j = (p + 1) - m /\ m <= p + 1 /\ p + 1 \in Nat
    BY <1>1, <2>2, <2>3
  <2>5. Run(TrimmedOnce(Append(s, p + 1), cap), p + 1, m)
    BY <2>1, <2>2, <2>3, <2>4, Zenon DEF Run
  <2>6. cap > 0 /\ n <= cap => m <= cap
    BY <1>1, <2>2, <2>3
  <2> QED
    BY <2>2, <2>3, <2>5, <2>6
<1>6. ASSUME NEW b \in Nat
      PROVE  \E m \in Nat : /\ Run(Trimmed(s \o Items(p, b), cap), p + b, m)
                            /\ m <= n + b
                            /\ cap > 0 => m <= cap
  <2>1. s \o Items(p, b) = Items(p - n, n + b)
    <3>1. (p - n) + n = p
      BY <1>1
    <3>2. Items(p - n, n) \o Items((p - n) + n, b) = Items(p - n, n + b)
      BY <1>1, ItemsConcat, Zenon
    <3> QED
      BY <1>1, <3>2, <3>1, Zenon
  <2>2. PICK d \in Nat, e \in Nat : d = p - n /\ e = n + b
    BY <1>1
  <2>3. PICK j \in Nat, m \in Nat :
          /\ Trimmed(Items(d, e), cap) = Items(j, m) /\ j + m = d + e
          /\ m <= e
          /\ cap > 0 => m <= cap
    BY TrimItems, Zenon
  <2>4. j = (p + b) - m /\ m <= p + b /\ p + b \in Nat
    BY <1>1, <2>2, <2>3
  <2>5. Run(Trimmed(s \o Items(p, b), cap), p + b, m)
    BY <2>1, <2>2, <2>3, <2>4, Zenon DEF Run
  <2> QED
    BY <2>2, <2>3, <2>5
<1> QED
  BY <1>3, <1>4, <1>5, <1>6

-----------------------------------------------------------------------------
\* A call to swap() exchanges the contents of queues of one capacity.
EqualSwaps == \A s \in Swaps : Capacity[s[1]] = Capacity[s[2]]

\* Queue q is within its bound when it holds n items.
Fits(q, n) == Capacity[q] > 0 => n <= Capacity[q]

\* Contents is what TypeOK and NewestInOrder say of the queues.
Contents == /\ DOMAIN m_queue = Queues /\ m_queue = [q \in Queues |-> m_queue[q]]
            /\ DOMAIN pushed = Queues /\ pushed = [q \in Queues |-> pushed[q]]
            /\ \A q \in Queues : Run(m_queue[q], pushed[q], Len(m_queue[q]))

\* Contents is the part of TypeOK about the contents, and NewestInOrder.
LEMMA ContentsMeans ==
  /\ TypeOK /\ NewestInOrder => Contents
  /\ Contents => /\ m_queue \in [Queues -> Seq(Nat)] /\ pushed \in [Queues -> Nat]
                 /\ NewestInOrder
<1>1. ASSUME TypeOK, NewestInOrder PROVE Contents
  BY <1>1 DEF TypeOK, NewestInOrder, Contents, Run
<1>2. ASSUME Contents
      PROVE  m_queue \in [Queues -> Seq(Nat)] /\ pushed \in [Queues -> Nat] /\ NewestInOrder
  <2>1. \A q \in Queues : /\ m_queue[q] \in Seq(Nat) /\ pushed[q] \in Nat
                          /\ Len(m_queue[q]) <= pushed[q]
                          /\ m_queue[q] = Items(pushed[q] - Len(m_queue[q]), Len(m_queue[q]))
    BY <1>2, RunShape DEF Contents, Run
  <2> QED
    BY <1>2, <2>1 DEF Contents, NewestInOrder
<1> QED
  BY <1>1, <1>2

\* Placed is what TypeOK says of the threads.
Placed == /\ at \in [Threads -> Place]
          /\ \A t \in Threads : at[t].is # "idle" => at[t].queue \in Queues

\* Every step leaves each thread at a place of a call.
LEMMA PlacedStep == Placed /\ [Next]_vars => Placed'
<1> SUFFICES ASSUME Placed, [Next]_vars PROVE Placed'
  OBVIOUS
<1>0. Idle \in Place /\ Idle.is = "idle"
  BY DEF Idle, Place, Places
<1>1. ASSUME NEW t \in Threads, NEW x \in Place, at' = [at EXCEPT ![t] = x],
             x.is # "idle" => x.queue \in Queues
      PROVE  Placed'
  BY <1>1 DEF Placed
<1>2. CASE UNCHANGED at
  BY <1>2 DEF Placed
<1>3. ASSUME NEW t \in Threads, Produce(t) PROVE Placed'
  <2>1. PICK q \in Queues : at' = [at EXCEPT ![t] = [is |-> "notify", queue |-> q, all |-> FALSE]]
    BY <1>3 DEF Produce, Push, PushAll, Emplace
  <2> QED
    BY <1>1, <2>1, Zenon DEF Place, Places
<1>4. ASSUME NEW t \in Threads, Consume(t) PROVE Placed'
  <2>1. \/ UNCHANGED at
        \/ \E q \in Queues, all \in BOOLEAN :
              at' = [at EXCEPT ![t] = [is |-> "waiting", queue |-> q, all |-> all]]
    BY <1>4 DEF Consume, PopNow, PopBlocks, Clear
  <2> QED
    BY <1>1, <1>2, <2>1, Zenon DEF Place, Places
<1>5. ASSUME NEW t \in Threads, NEW p \in Places \ {"idle"}, at[t].is # "idle",
             at' = [at EXCEPT ![t].is = p]
      PROVE  Placed'
  BY <1>5 DEF Placed, Place
<1>6. ASSUME NEW t \in Threads, Notify(t) PROVE Placed'
  <2>1. CASE at' = [at EXCEPT ![t].is = "signal"]
    BY <1>5, <1>6, <2>1, Zenon DEF Notify, Places
  <2>2. ASSUME NEW u \in Threads, at[u].is = "waiting",
               at' = [at EXCEPT ![t].is = "signal", ![u].is = "woken"]
        PROVE  Placed'
    <3>1. at[t].is = "notify" /\ t # u
      BY <1>6, <2>2 DEF Notify
    <3> QED
      BY <2>2, <3>1 DEF Placed, Place, Places
  <2> QED
    BY <1>6, <2>1, <2>2 DEF Notify, In
<1>7. ASSUME NEW t \in Threads, Signal(t) PROVE Placed'
  BY <1>0, <1>1, <1>7, Zenon DEF Signal
<1>8. ASSUME NEW t \in Threads, Blocked(t) PROVE Placed'
  <2>1. CASE WakeSpuriously(t) \/ Expire(t)
    BY <1>5, <2>1 DEF WakeSpuriously, Expire, Places
  <2>2. CASE Recheck(t)
    <3> DEFINE x == IF at[t].is = "woken" THEN [at[t] EXCEPT !.is = "waiting"] ELSE Idle
    <3>1. at[t].is # "idle" /\ (at' = [at EXCEPT ![t] = Idle] \/ at' = [at EXCEPT ![t] = x])
      BY <2>2 DEF Recheck
    <3>2. x \in Place /\ (x.is # "idle" => x.queue \in Queues)
      BY <1>0, <3>1 DEF Placed, Place, Places
    <3> QED
      BY <1>0, <1>1, <3>1, <3>2, Zenon
  <2> QED
    BY <1>8, <2>1, <2>2 DEF Blocked
<1> QED
  BY <1>2, <1>3, <1>4, <1>6, <1>7, <1>8 DEF Next, vars, Exchange, Swap

\* A step that changes one queue keeps Contents, and the bound if the changed
\* queue still fits.
LEMMA OneQueue ==
  ASSUME Contents, NEW q \in Queues, NEW s, NEW p, NEW n, Run(s, p, n),
         m_queue' = [m_queue EXCEPT ![q] = s], pushed' = [pushed EXCEPT ![q] = p]
  PROVE  Contents' /\ (CapacityBound /\ Fits(q, n) => CapacityBound')
<1>1. Len(s) = n
  BY RunShape
<1>2. /\ m_queue' = [o \in Queues |-> IF o = q THEN s ELSE m_queue[o]]
      /\ pushed' = [o \in Queues |-> IF o = q THEN p ELSE pushed[o]]
  BY Zenon DEF Contents
<1>3. \A o \in Queues : Run(m_queue'[o], pushed'[o], Len(m_queue'[o]))
  BY <1>1, <1>2, Zenon DEF Contents
<1>4. CapacityBound /\ Fits(q, n) => CapacityBound'
  BY <1>1, <1>2 DEF CapacityBound, Fits
<1> QED
  BY <1>2, <1>3, <1>4, Zenon DEF Contents

\* What one step does to the contents of the queues.
LEMMA ContentsStep ==
  ASSUME Contents, Placed, [Next]_vars
  PROVE  Contents' /\ (EqualSwaps /\ CapacityBound => CapacityBound')
<1> USE CapacityAssumption
<1>0. ASSUME NEW q \in Queues
      PROVE  /\ Run(m_queue[q], pushed[q], Len(m_queue[q])) /\ Capacity[q] \in Nat
             /\ Len(m_queue[q]) \in Nat
             /\ CapacityBound => Fits(q, Len(m_queue[q]))
  BY RunShape DEF Contents, CapacityBound, Fits
<1>1. CASE UNCHANGED queueVars
  BY <1>1 DEF queueVars, Contents, CapacityBound
<1>2. ASSUME NEW t \in Threads, NEW q \in Queues, Push(t, q)
      PROVE  Contents' /\ (CapacityBound => CapacityBound')
  <2> DEFINE s == TrimmedOnce(Append(m_queue[q], pushed[q] + 1), Capacity[q])
  <2>1. PICK m \in Nat : /\ Run(s, pushed[q] + 1, m)
                         /\ Capacity[q] > 0 /\ Len(m_queue[q]) <= Capacity[q] => m <= Capacity[q]
    BY <1>0, RunOps, Zenon
  <2>2. m_queue' = [m_queue EXCEPT ![q] = s] /\ pushed' = [pushed EXCEPT ![q] = pushed[q] + 1]
    BY <1>2 DEF Push
  <2>3. CapacityBound => Fits(q, m)
    BY <2>1, <1>0 DEF Fits
  <2> QED
    BY <2>1, <2>2, <2>3, OneQueue, Zenon
<1>3. ASSUME NEW t \in Threads, NEW q \in Queues, NEW b \in Nat, PushAll(t, q, b)
      PROVE  Contents' /\ (CapacityBound => CapacityBound')
  <2> DEFINE s == Trimmed(m_queue[q] \o Items(pushed[q], b), Capacity[q])
  <2>1. PICK m \in Nat : Run(s, pushed[q] + b, m) /\ (Capacity[q] > 0 => m <= Capacity[q])
    BY <1>0, RunOps, Zenon
  <2>2. m_queue' = [m_queue EXCEPT ![q] = s] /\ pushed' = [pushed EXCEPT ![q] = pushed[q] + b]
    BY <1>3 DEF PushAll
  <2> QED
    BY <2>1, <2>2, OneQueue, Zenon DEF Fits
<1>4. ASSUME NEW q \in Queues, NEW all \in BOOLEAN, m_queue[q] # <<>>, Take(q, all),
             UNCHANGED pushed
      PROVE  Contents' /\ (CapacityBound => CapacityBound')
  <2> DEFINE s == IF all THEN <<>> ELSE Tail(m_queue[q])
             n == IF all THEN 0 ELSE Len(m_queue[q]) - 1
  <2>1. Run(s, pushed[q], n)
    BY <1>0, <1>4, RunOps, Zenon
  <2>2. m_queue' = [m_queue EXCEPT ![q] = s] /\ pushed' = [pushed EXCEPT ![q] = pushed[q]]
    BY <1>4 DEF Take, Contents
  <2>3. CapacityBound => Fits(q, n)
    BY <1>0 DEF Fits
  <2> QED
    BY <2>1, <2>2, <2>3, OneQueue, Zenon
<1>5. ASSUME NEW t \in Threads, NEW q \in Queues, Clear(t, q)
      PROVE  Contents' /\ (CapacityBound => CapacityBound')
  <2>1. Run(<<>>, pushed[q], 0)
    BY <1>0, RunOps, Zenon
  <2>2. m_queue' = [m_queue EXCEPT ![q] = <<>>] /\ pushed' = [pushed EXCEPT ![q] = pushed[q]]
    BY <1>5 DEF Clear, Contents
  <2>3. Fits(q, 0)
    BY DEF Fits
  <2> QED
    BY <2>1, <2>2, <2>3, OneQueue, Zenon
<1>6. ASSUME NEW t \in Threads, NEW x \in Swaps, Swap(t, x[1], x[2])
      PROVE  Contents' /\ (EqualSwaps /\ CapacityBound => CapacityBound')
  <2> DEFINE a == x[1]
             b == x[2]
             Other(o) == IF o = b THEN a ELSE IF o = a THEN b ELSE o
  <2>1. a \in Queues /\ b \in Queues /\ \A o \in Queues : Other(o) \in Queues
    BY SwapsAssumption
  <2>2. /\ m_queue' = [o \in Queues |-> m_queue[Other(o)]]
        /\ pushed' = [o \in Queues |-> pushed[Other(o)]]
    BY <1>6, <2>1, Zenon DEF Swap, Contents
  <2>3. EqualSwaps => \A o \in Queues : Capacity[Other(o)] = Capacity[o]
    BY DEF EqualSwaps
  <2> HIDE DEF Other
  <2>4. Contents'
    BY <2>1, <2>2 DEF Contents
  <2>5. EqualSwaps /\ CapacityBound => CapacityBound'
    BY <2>1, <2>2, <2>3 DEF CapacityBound
  <2> QED
    BY <2>4, <2>5
<1>7. ASSUME NEW t \in Threads, Produce(t) PROVE Contents' /\ (CapacityBound => CapacityBound')
  BY <1>2, <1>3, <1>7, BulkAssumption DEF Produce, Emplace
<1>8. ASSUME NEW t \in Threads, Consume(t) PROVE Contents' /\ (CapacityBound => CapacityBound')
  <2>1. CASE UNCHANGED queueVars
    BY <1>1, <2>1 DEF EqualSwaps, queueVars, CapacityBound
  <2> QED
    BY <1>4, <1>5, <1>8, <2>1 DEF Consume, PopNow, PopBlocks
<1>9. ASSUME NEW t \in Threads, Recheck(t) PROVE Contents' /\ (CapacityBound => CapacityBound')
  <2>1. at[t].queue \in Queues /\ at[t].all \in BOOLEAN
    BY <1>9 DEF Recheck, Placed, Place
  <2>2. CASE m_queue[at[t].queue] # <<>>
    BY <1>4, <1>9, <2>1, <2>2 DEF Recheck
  <2>3. CASE UNCHANGED queueVars
    BY <2>3 DEF queueVars, Contents, CapacityBound
  <2> QED
    BY <1>9, <2>2, <2>3 DEF Recheck, queueVars
<1> QED
  BY <1>1, <1>6, <1>7, <1>8, <1>9, Zenon
  DEF Next, vars, queueVars, Notify, Signal, Blocked, WakeSpuriously, Expire, Exchange

-----------------------------------------------------------------------------
\* The constructor establishes all three.
LEMMA InitContents == Init => Contents /\ Placed /\ CapacityBound
<1> SUFFICES ASSUME Init PROVE Contents /\ Placed /\ CapacityBound
  OBVIOUS
<1>1. Run(<<>>, 0, 0)
  BY DEF Run, Items
<1>2. Contents
  BY <1>1 DEF Init, Contents
<1>3. Placed
  BY DEF Init, Placed, Place, Places, Idle
<1>4. CapacityBound
  BY CapacityAssumption DEF Init, CapacityBound
<1> QED
  BY <1>2, <1>3, <1>4

\* So contents and places keep their shape.
LEMMA Shaped == Spec => [](Contents /\ Placed)
  BY InitContents, ContentsStep, PlacedStep, PTL DEF Spec

\* Type correctness of the queue's state.
THEOREM TypeCorrect == Spec => []TypeOK
<1>1. Contents /\ Placed => TypeOK
  BY ContentsMeans DEF Placed, TypeOK
<1> QED
  BY <1>1, Shaped, PTL

\* A queue holds the newest items in order, whatever mix of push, pushAll,
\* emplace, pop, popAll, clear and swap the threads perform.
THEOREM OrderKept == Spec => []NewestInOrder
  BY ContentsMeans, Shaped, PTL

\* The capacity is never exceeded between two calls, as long as swap() is only
\* used on queues of one capacity.
THEOREM CapacityKept == ASSUME EqualSwaps PROVE Spec => []CapacityBound
<1>1. Contents /\ Placed /\ CapacityBound /\ [Next]_vars => CapacityBound'
  BY ContentsStep
<1> QED
  BY <1>1, InitContents, Shaped, PTL DEF Spec

-----------------------------------------------------------------------------
\* Every item is pushed on its own: pushAll() gets at most one item at a time
\* and no contents are swapped.
SingleItems == Bulk \subseteq {0, 1} /\ Swaps = {}

\* The threads of Coming, counted.
LEMMA ComingCount ==
  ASSUME NEW q
  PROVE  /\ IsFiniteSet(Coming(q)) /\ Cardinality(Coming(q)) \in Nat
         /\ IsFiniteSet(Coming(q)') /\ Cardinality(Coming(q)') \in Nat
         /\ Coming(q) \subseteq Coming(q)' => Cardinality(Coming(q)) <= Cardinality(Coming(q)')
         /\ \A t : t \notin Coming(q) /\ Coming(q)' = Coming(q) \cup {t}
                     => Cardinality(Coming(q)') = Cardinality(Coming(q)) + 1
         /\ \A t : t \in Coming(q) /\ Coming(q)' = Coming(q) \ {t}
                     => Cardinality(Coming(q)') = Cardinality(Coming(q)) - 1
         /\ \A t, u : t \in Coming(q) /\ u \notin Coming(q) /\ Coming(q)' = (Coming(q) \ {t}) \cup {u}
                     => Cardinality(Coming(q)') = Cardinality(Coming(q))
<1>1. Coming(q) \subseteq Threads /\ Coming(q)' \subseteq Threads
  BY DEF Coming
<1>2. IsFiniteSet(Coming(q)) /\ IsFiniteSet(Coming(q)')
  BY <1>1, ThreadsFinite, FS_Subset
<1> DEFINE C == Coming(q)
           D == Coming(q)'
<1> HIDE DEF C, D
<1>3. IsFiniteSet(C) /\ IsFiniteSet(D) /\ Cardinality(C) \in Nat /\ Cardinality(D) \in Nat
  BY <1>2, FS_CardinalityType DEF C, D
<1>4. C \subseteq D => Cardinality(C) <= Cardinality(D)
  BY <1>3, FS_Subset
<1>5. \A t : t \notin C /\ D = C \cup {t} => Cardinality(D) = Cardinality(C) + 1
  BY <1>3, FS_AddElement
<1>6. \A t : t \in C /\ D = C \ {t} => Cardinality(D) = Cardinality(C) - 1
  BY <1>3, FS_RemoveElement
<1>7. ASSUME NEW t, NEW u, t \in C, u \notin C, D = (C \ {t}) \cup {u}
      PROVE  Cardinality(D) = Cardinality(C)
  <2>1. IsFiniteSet(C \ {t}) /\ Cardinality(C \ {t}) = Cardinality(C) - 1
    BY <1>3, <1>7, FS_RemoveElement
  <2>2. Cardinality(D) = Cardinality(C \ {t}) + 1
    BY <1>7, <2>1, FS_AddElement
  <2> QED
    BY <1>3, <2>1, <2>2
<1> QED
  BY <1>3, <1>4, <1>5, <1>6, <1>7 DEF C, D

\* Does any consumer wait for queue q?
Awaited(q) == \E t \in Threads : In(t, "waiting", q)
Covered(q) == Awaited(q) => Len(m_queue[q]) <= Cardinality(Coming(q))

\* Every step of single-item producers and of consumers keeps a queue covered.
LEMMA CoverStep ==
  ASSUME Contents, Contents', Placed, WakeupsCover, SingleItems, [Next]_vars
  PROVE  WakeupsCover'
<1> USE CapacityAssumption
<1> SUFFICES ASSUME NEW q \in Queues PROVE Covered(q)'
  BY DEF WakeupsCover, Covered, Awaited
<1>0. /\ Covered(q) /\ Len(m_queue[q]) \in Nat /\ Len(m_queue'[q]) \in Nat
      /\ Run(m_queue[q], pushed[q], Len(m_queue[q])) /\ Capacity[q] \in Nat
  BY RunShape DEF WakeupsCover, Covered, Awaited, Contents
<1>1. ASSUME Awaited(q)' => Awaited(q), Coming(q) \subseteq Coming(q)',
             Len(m_queue'[q]) <= Len(m_queue[q])
      PROVE  Covered(q)'
  BY <1>0, <1>1, ComingCount DEF Covered
<1>2. ASSUME Len(m_queue'[q]) = 0 PROVE Covered(q)'
  BY <1>2, ComingCount DEF Covered
<1>3. ASSUME NEW t \in Threads, Produce(t) PROVE Covered(q)'
  <2>1. PICK o \in Queues :
          /\ at[t] = Idle
          /\ at' = [at EXCEPT ![t] = [is |-> "notify", queue |-> o, all |-> FALSE]]
          /\ \/ m_queue' = [m_queue EXCEPT ![o] =
                  TrimmedOnce(Append(m_queue[o], pushed[o] + 1), Capacity[o])]
             \/ \E b \in {0, 1} : m_queue' = [m_queue EXCEPT ![o] =
                  Trimmed(m_queue[o] \o Items(pushed[o], b), Capacity[o])]
    BY <1>3 DEF Produce, Push, PushAll, Emplace, SingleItems
  <2>2. Awaited(q)' => Awaited(q)
    BY <2>1 DEF Awaited, In, Placed
  <2>3. CASE o # q
    <3>1. m_queue'[q] = m_queue[q]
      BY <2>1, <2>3 DEF Contents
    <3>2. Coming(q) \subseteq Coming(q)'
      BY <2>1 DEF Coming, Placed, Idle
    <3> QED
      BY <1>0, <1>1, <2>2, <3>1, <3>2
  <2>4. CASE o = q
    <3>1. t \notin Coming(q) /\ Coming(q)' = Coming(q) \cup {t}
      BY <2>1, <2>4 DEF Coming, Placed, Idle
    <3>2. Len(m_queue'[q]) <= Len(m_queue[q]) + 1
      <4>1. CASE m_queue' = [m_queue EXCEPT ![q] =
                   TrimmedOnce(Append(m_queue[q], pushed[q] + 1), Capacity[q])]
        <5>1. PICK m \in Nat : /\ Run(TrimmedOnce(Append(m_queue[q], pushed[q] + 1), Capacity[q]),
                                      pushed[q] + 1, m)
                               /\ m <= Len(m_queue[q]) + 1
          <6> DEFINE n == Len(m_queue[q])
          <6>1. Run(m_queue[q], pushed[q], n) /\ Capacity[q] \in Nat
            BY <1>0
          <6> HIDE DEF n
          <6>2. \E m \in Nat : /\ Run(TrimmedOnce(Append(m_queue[q], pushed[q] + 1), Capacity[q]),
                                       pushed[q] + 1, m)
                               /\ m <= n + 1
            BY <6>1, RunOps, Zenon
          <6> QED
            BY <6>2 DEF n
        <5>2. m_queue'[q] = TrimmedOnce(Append(m_queue[q], pushed[q] + 1), Capacity[q])
          BY <4>1 DEF Contents
        <5> QED
          BY <5>1, <5>2, RunShape
      <4>2. ASSUME NEW b \in {0, 1}, m_queue' = [m_queue EXCEPT ![q] =
                     Trimmed(m_queue[q] \o Items(pushed[q], b), Capacity[q])]
            PROVE  Len(m_queue'[q]) <= Len(m_queue[q]) + 1
        <5>1. PICK m \in Nat : /\ Run(Trimmed(m_queue[q] \o Items(pushed[q], b), Capacity[q]),
                                      pushed[q] + b, m)
                               /\ m <= Len(m_queue[q]) + b
          BY <1>0, RunOps, Zenon
        <5>2. m_queue'[q] = Trimmed(m_queue[q] \o Items(pushed[q], b), Capacity[q])
          BY <4>2 DEF Contents
        <5>3. Len(m_queue'[q]) = m
          BY <5>1, <5>2, RunShape
        <5> QED
          BY <1>0, <5>1, <5>3
      <4> QED
        BY <2>1, <2>4, <4>1, <4>2
    <3>3. /\ Cardinality(Coming(q)') = Cardinality(Coming(q)) + 1
          /\ Cardinality(Coming(q)) \in Nat
      BY <3>1, ComingCount, Zenon
    <3> QED
      BY <1>0, <2>2, <3>2, <3>3 DEF Covered
  <2> QED
    BY <2>3, <2>4
<1>4. ASSUME NEW t \in Threads, Notify(t) PROVE Covered(q)'
  <2>1. m_queue' = m_queue /\ at[t].is = "notify"
    BY <1>4 DEF Notify, queueVars
  <2>2. CASE at[t].queue # q
    <3>1. \A v \in Threads : at[v].queue = q => at'[v] = at[v]
      BY <1>4, <2>2 DEF Notify, In, Placed
    <3>2. \A v \in Threads : at'[v].queue = at[v].queue
      BY <1>4 DEF Notify, Placed, Place
    <3>3. Coming(q) \subseteq Coming(q)' /\ (Awaited(q)' => Awaited(q))
      BY <3>1, <3>2 DEF Coming, Awaited, In
    <3> QED
      BY <1>0, <1>1, <2>1, <3>3
  <2>3. CASE at[t].queue = q /\ ~ Awaited(q)
    <3>1. at' = [at EXCEPT ![t].is = "signal"]
      BY <1>4, <2>3 DEF Notify, Awaited
    <3>2. ~ Awaited(q)'
      BY <2>3, <3>1 DEF Awaited, In, Placed
    <3> QED
      BY <3>2 DEF Covered
  <2>4. CASE at[t].queue = q /\ Awaited(q)
    <3>1. PICK u \in Threads : /\ at[u].is = "waiting" /\ at[u].queue = q
                               /\ at' = [at EXCEPT ![t].is = "signal", ![u].is = "woken"]
      BY <1>4, <2>4 DEF Notify, Awaited, In
    <3>2. \A v \in Threads : /\ at'[v].queue = at[v].queue
                             /\ at'[v].is = IF v = u THEN "woken" ELSE IF v = t THEN "signal" ELSE at[v].is
      BY <3>1 DEF Placed, Place
    <3>3. /\ t \in Coming(q) /\ u \notin Coming(q)
          /\ Coming(q)' = (Coming(q) \ {t}) \cup {u}
      <4>1. \A v \in Threads : v \in Coming(q)' <=> v = u \/ (v \in Coming(q) /\ v # t)
        <5>1. ASSUME NEW v \in Threads, v # u, v # t PROVE v \in Coming(q)' <=> v \in Coming(q)
          BY <3>2, <5>1 DEF Coming
        <5>2. u \in Coming(q)' /\ t # u
          BY <2>1, <3>1, <3>2, Zenon DEF Coming
        <5>3. t \notin Coming(q)'
          BY <3>2, <5>2 DEF Coming
        <5> QED
          BY <5>1, <5>2, <5>3
      <4>2. t \in Coming(q) /\ u \notin Coming(q)
        BY <2>1, <2>4, <3>1 DEF Coming
      <4>3. Coming(q) \subseteq Threads /\ Coming(q)' \subseteq Threads
        BY DEF Coming
      <4> QED
        BY <4>1, <4>2, <4>3
    <3>4. Cardinality(Coming(q)') = Cardinality(Coming(q))
      BY <3>3, ComingCount, Zenon
    <3> QED
      BY <1>0, <2>1, <2>4, <3>4 DEF Covered
  <2> QED
    BY <2>2, <2>3, <2>4
<1>5. ASSUME NEW t \in Threads, Signal(t) PROVE Covered(q)'
  <2>1. m_queue' = m_queue /\ at[t].is = "signal" /\ at' = [at EXCEPT ![t] = Idle]
    BY <1>5 DEF Signal, queueVars
  <2>2. Coming(q) \subseteq Coming(q)' /\ (Awaited(q)' => Awaited(q))
    BY <2>1 DEF Coming, Awaited, In, Placed, Idle
  <2> QED
    BY <1>0, <1>1, <2>1, <2>2
<1>6. ASSUME NEW o \in Queues, NEW all \in BOOLEAN, m_queue[o] # <<>>, Take(o, all)
      PROVE  /\ o = q => Len(m_queue'[q]) <= Len(m_queue[q]) - 1
             /\ o # q => m_queue'[q] = m_queue[q]
  <2>1. CASE o = q
    <3>1. m_queue'[q] = IF all THEN <<>> ELSE Tail(m_queue[q])
      BY <1>6, <2>1 DEF Take, Contents
    <3>2. m_queue[q] \in Seq(Nat)
      BY <1>0, RunShape
    <3> QED
      BY <1>0, <1>6, <2>1, <3>1, <3>2
  <2>2. CASE o # q
    BY <1>6, <2>2 DEF Take, Contents
  <2> QED
    BY <2>1, <2>2
<1>7. ASSUME NEW t \in Threads, Consume(t) PROVE Covered(q)'
  <2>1. ASSUME NEW o \in Queues, NEW all \in BOOLEAN, PopNow(t, o, all) PROVE Covered(q)'
    <3>1. at' = at /\ Len(m_queue'[q]) <= Len(m_queue[q])
      BY <1>0, <1>6, <2>1 DEF PopNow
    <3> QED
      BY <1>1, <3>1 DEF Awaited, In, Coming
  <2>2. ASSUME NEW o \in Queues, NEW all \in BOOLEAN, PopBlocks(t, o, all) PROVE Covered(q)'
    <3>1. /\ m_queue' = m_queue /\ at[t] = Idle /\ m_queue[o] = <<>>
          /\ at' = [at EXCEPT ![t] = [is |-> "waiting", queue |-> o, all |-> all]]
      BY <2>2 DEF PopBlocks, queueVars
    <3>2. CASE o = q
      BY <1>2, <3>1, <3>2
    <3>3. CASE o # q
      <4>1. Coming(q) \subseteq Coming(q)' /\ (Awaited(q)' => Awaited(q))
        BY <3>1, <3>3 DEF Coming, Awaited, In, Placed, Idle
      <4> QED
        BY <1>0, <1>1, <3>1, <4>1
    <3> QED
      BY <3>2, <3>3
  <2>3. ASSUME NEW o \in Queues, Clear(t, o) PROVE Covered(q)'
    <3>1. at' = at /\ Len(m_queue'[q]) <= Len(m_queue[q])
      BY <1>0, <2>3 DEF Clear, Contents
    <3> QED
      BY <1>1, <3>1 DEF Awaited, In, Coming
  <2> QED
    BY <1>7, <2>1, <2>2, <2>3 DEF Consume
<1>8. ASSUME NEW t \in Threads, WakeSpuriously(t) \/ Expire(t) PROVE Covered(q)'
  <2>1. /\ m_queue' = m_queue /\ at[t].is = "waiting"
        /\ \A v \in Threads : /\ at'[v].queue = at[v].queue
                              /\ v # t => at'[v].is = at[v].is
        /\ at'[t].is \in {"woken", "expired"}
    BY <1>8 DEF WakeSpuriously, Expire, queueVars, Placed, Place
  <2>2. Coming(q) \subseteq Coming(q)' /\ (Awaited(q)' => Awaited(q))
    BY <2>1 DEF Coming, Awaited, In
  <2> QED
    BY <1>0, <1>1, <2>1, <2>2
<1>9. ASSUME NEW t \in Threads, Recheck(t) PROVE Covered(q)'
  <2> DEFINE o == at[t].queue
  <2>1. o \in Queues /\ at[t].all \in BOOLEAN /\ at[t].is \in {"woken", "expired"}
    BY <1>9 DEF Recheck, Placed, Place
  <2>2. CASE m_queue[o] # <<>>
    <3>1. Take(o, at[t].all) /\ at' = [at EXCEPT ![t] = Idle]
      BY <1>9, <2>2 DEF Recheck
    <3>2. Awaited(q)' => Awaited(q)
      BY <3>1 DEF Awaited, In, Placed, Idle
    <3>3. CASE o = q
      <4>1. t \in Coming(q) /\ Coming(q)' = Coming(q) \ {t}
        BY <2>1, <3>1, <3>3 DEF Coming, Placed, Idle
      <4>2. Len(m_queue'[q]) <= Len(m_queue[q]) - 1
        BY <1>6, <2>1, <2>2, <3>1, <3>3
      <4>3. /\ Cardinality(Coming(q)') = Cardinality(Coming(q)) - 1
            /\ Cardinality(Coming(q)) \in Nat
        BY <4>1, ComingCount, Zenon
      <4> QED
        BY <1>0, <3>2, <4>2, <4>3 DEF Covered
    <3>4. CASE o # q
      <4>1. Coming(q) \subseteq Coming(q)'
        BY <3>1, <3>4 DEF Coming, Placed
      <4>2. m_queue'[q] = m_queue[q]
        BY <1>6, <2>1, <2>2, <3>1, <3>4
      <4> QED
        BY <1>0, <1>1, <3>2, <4>1, <4>2
    <3> QED
      BY <3>3, <3>4
  <2>3. CASE m_queue[o] = <<>>
    <3>1. m_queue' = m_queue /\ \A v \in Threads : v # t => at'[v] = at[v]
      BY <1>9, <2>3 DEF Recheck, Placed
    <3>2. CASE o = q
      BY <1>2, <2>3, <3>1, <3>2
    <3>3. CASE o # q
      <4>1. at'[t].queue # q \/ at'[t].is = "idle"
        BY <1>9, <2>1, <2>3, <3>3 DEF Recheck, Placed, Place, Idle
      <4>2. Coming(q) \subseteq Coming(q)' /\ (Awaited(q)' => Awaited(q))
        BY <3>1, <3>3, <4>1 DEF Coming, Awaited, In
      <4> QED
        BY <1>0, <1>1, <3>1, <4>2
    <3> QED
      BY <3>2, <3>3
  <2> QED
    BY <2>2, <2>3
<1>10. CASE UNCHANGED vars
  BY <1>0, <1>1, <1>10 DEF vars, Awaited, In, Coming
<1> QED
  BY <1>3, <1>4, <1>5, <1>7, <1>8, <1>9, <1>10 DEF Next, Blocked, Exchange, SingleItems

\* No wakeup is lost between push() and a blocked pop(), for any number of
\* producers and consumers, as long as every item is pushed on its own.
THEOREM NoLostWakeup == ASSUME SingleItems PROVE Spec => []WakeupsCover
<1>1. Init => WakeupsCover
  BY DEF Init, WakeupsCover, In, Idle
<1>2. Contents /\ Contents' /\ Placed /\ WakeupsCover /\ [Next]_vars => WakeupsCover'
  BY CoverStep
<1> QED
  BY <1>1, <1>2, Shaped, PTL DEF Spec

-----------------------------------------------------------------------------
(* Refinement of BoundedFifo.  It rests on CapacityBound: push() removes at *)
(* most one item, which is enough only for a queue that was within bounds. *)

\* The trim of pushAll() and emplace() is the one BoundedFifo asks for.
LEMMA TrimmedIsNewest ==
  ASSUME NEW s \in Seq(Nat), NEW cap \in Nat
  PROVE  Trimmed(s, cap) = Fifo!Newest(s, cap)
<1>1. Len(s) \in Nat
  OBVIOUS
<1>2. cap > 0 /\ Len(s) > cap <=> ~ (cap = 0 \/ Len(s) <= cap)
  BY <1>1
<1> QED
  BY <1>2, Zenon DEF Trimmed, Fifo!Newest

\* So is the trim of push(), one item past the capacity at most.
LEMMA TrimmedOnceIsNewest ==
  ASSUME NEW k \in Nat, NEW n \in Nat, NEW cap \in Nat, cap > 0 => n <= cap + 1
  PROVE  TrimmedOnce(Items(k, n), cap) = Fifo!Newest(Items(k, n), cap)
<1>1. Len(Items(k, n)) = n
  BY ItemsShape, Zenon
<1>2. CASE cap > 0 /\ n > cap
  <2>1. n = cap + 1 /\ n > 0 /\ cap <= n /\ n - cap = 1 /\ n - 1 = cap
    BY <1>2
  <2>2. Tail(Items(k, n)) = Items(k + 1, cap)
    BY <2>1, ItemsTail, Zenon
  <2>3. SubSeq(Items(k, n), n - cap + 1, n) = Items(k + 1, cap)
    <3>1. SubSeq(Items(k, n), n - cap + 1, n) = Items(k + (n - cap), cap)
      BY <2>1, ItemsSuffix, Zenon
    <3> QED
      BY <2>1, <3>1, Zenon
  <2>4. ~ (cap = 0 \/ n <= cap)
    BY <1>2
  <2> QED
    BY <1>1, <1>2, <2>2, <2>3, <2>4, Zenon DEF TrimmedOnce, Fifo!Newest
<1>3. CASE ~ (cap > 0 /\ n > cap)
  <2>1. cap = 0 \/ n <= cap
    BY <1>3
  <2> QED
    BY <1>1, <1>3, <2>1, Zenon DEF TrimmedOnce, Fifo!Newest
<1> QED
  BY <1>2, <1>3, Zenon

\* The items a producer brings are items of BoundedFifo.
LEMMA ItemsAreValues ==
  ASSUME NEW k \in Nat, NEW n \in Nat, k + n <= MaxItems
  PROVE  Items(k, n) \in [1 .. n -> 1 .. MaxItems]
BY MaxItemsAssumption DEF Items

\* Every step of the threads is a step of BoundedFifo or none.
LEMMA FifoStep ==
  ASSUME Contents, Placed, CapacityBound, [Next]_vars
  PROVE  [Fifo!Next]_m_queue
<1> USE CapacityAssumption
<1>0. ASSUME NEW q \in Queues
      PROVE  /\ m_queue[q] \in Seq(Nat) /\ Len(m_queue[q]) \in Nat /\ pushed[q] \in Nat
             /\ Capacity[q] \in Nat /\ Len(m_queue[q]) <= pushed[q]
             /\ m_queue[q] = Items(pushed[q] - Len(m_queue[q]), Len(m_queue[q]))
             /\ Capacity[q] > 0 => Len(m_queue[q]) <= Capacity[q]
  BY RunShape DEF Contents, Run, CapacityBound
<1>1. ASSUME NEW q \in Queues, NEW n \in Bulk \cup {1}, NEW s \in [1 .. n -> 1 .. MaxItems],
             m_queue' = [m_queue EXCEPT ![q] = Fifo!Newest(m_queue[q] \o s, Capacity[q])]
      PROVE  Fifo!Next
  BY <1>1, Zenon DEF Fifo!Next, Fifo!Put
<1>2. ASSUME NEW t \in Threads, NEW q \in Queues, Push(t, q) PROVE Fifo!Next
  <2>0. 1 \in Nat
    OBVIOUS
  <2>1. PICK k, n : k = pushed[q] - Len(m_queue[q]) /\ n = Len(m_queue[q])
    BY Zenon
  <2>2. /\ k \in Nat /\ n \in Nat /\ n + 1 \in Nat /\ k + n = pushed[q]
        /\ k + n + 1 = pushed[q] + 1
        /\ Capacity[q] > 0 => n + 1 <= Capacity[q] + 1
    BY <1>0, <2>1
  <2>3. m_queue[q] = Items(k, n)
    BY <1>0, <2>1, Zenon
  <2>4. Append(m_queue[q], pushed[q] + 1) = Items(k, n + 1)
    BY <2>2, <2>3, ItemsAppend, Zenon
  <2>5. m_queue[q] \o Items(pushed[q], 1) = Items(k, n + 1)
    <3>1. Items(k, n) \o Items(k + n, 1) = Items(k, n + 1)
      BY <2>0, <2>2, ItemsConcat, Zenon
    <3> QED
      BY <2>2, <2>3, <3>1, Zenon
  <2>6. TrimmedOnce(Items(k, n + 1), Capacity[q]) = Fifo!Newest(Items(k, n + 1), Capacity[q])
    <3>1. PICK m \in Nat, cap \in Nat : m = n + 1 /\ cap = Capacity[q]
      BY <1>0, <2>2, Zenon
    <3>2. cap > 0 => m <= cap + 1
      BY <2>2, <3>1, Zenon
    <3>3. TrimmedOnce(Items(k, m), cap) = Fifo!Newest(Items(k, m), cap)
      BY <2>2, <3>2, TrimmedOnceIsNewest, Zenon
    <3> QED
      BY <3>1, <3>3, Zenon
  <2>7. m_queue' = [m_queue EXCEPT ![q] =
                      Fifo!Newest(m_queue[q] \o Items(pushed[q], 1), Capacity[q])]
    BY <1>2, <2>4, <2>5, <2>6, Zenon DEF Push
  <2>8. pushed[q] + 1 <= MaxItems
    BY <1>0, <1>2, MaxItemsAssumption DEF Push
  <2>9. Items(pushed[q], 1) \in [1 .. 1 -> 1 .. MaxItems]
    BY <1>0, <2>0, <2>8, ItemsAreValues, Zenon
  <2> QED
    BY <1>1, <2>7, <2>9, Zenon
<1>3. ASSUME NEW t \in Threads, NEW q \in Queues, NEW n \in Bulk \cup {1}, PushAll(t, q, n)
      PROVE  Fifo!Next
  <2>1. n \in Nat /\ pushed[q] + n <= MaxItems
    BY <1>3, BulkAssumption DEF PushAll
  <2>2. Items(pushed[q], n) \in Seq(Nat)
    BY <1>0, <2>1, ItemsShape, Zenon
  <2>3. m_queue[q] \o Items(pushed[q], n) \in Seq(Nat)
    BY <1>0, <2>2
  <2>4. m_queue' = [m_queue EXCEPT ![q] =
                      Fifo!Newest(m_queue[q] \o Items(pushed[q], n), Capacity[q])]
    BY <1>0, <1>3, <2>3, TrimmedIsNewest, Zenon DEF PushAll
  <2>5. Items(pushed[q], n) \in [1 .. n -> 1 .. MaxItems]
    BY <1>0, <2>1, ItemsAreValues, Zenon
  <2> QED
    BY <1>1, <2>4, <2>5, Zenon
<1>4. ASSUME NEW q \in Queues, NEW all \in BOOLEAN, m_queue[q] # <<>>, Take(q, all)
      PROVE  Fifo!Next
  <2>1. CASE all
    BY <1>4, <2>1, Zenon DEF Take, Fifo!Next, Fifo!Drain
  <2>2. CASE ~ all
    BY <1>4, <2>2, Zenon DEF Take, Fifo!Next, Fifo!Get
  <2> QED
    BY <2>1, <2>2, Zenon
<1>5. ASSUME NEW t \in Threads, Produce(t) PROVE Fifo!Next
  BY <1>2, <1>3, <1>5, Zenon DEF Produce, Emplace
<1>6. ASSUME NEW t \in Threads, Consume(t) PROVE Fifo!Next \/ m_queue' = m_queue
  BY <1>4, <1>6, Zenon
  DEF Consume, PopNow, PopBlocks, Clear, queueVars, Fifo!Next, Fifo!Drain
<1>7. ASSUME NEW t \in Threads, Recheck(t) PROVE Fifo!Next \/ m_queue' = m_queue
  <2>1. at[t].queue \in Queues /\ at[t].all \in BOOLEAN
    BY <1>7 DEF Recheck, Placed, Place
  <2> QED
    BY <1>4, <1>7, <2>1, Zenon DEF Recheck
<1>8. ASSUME NEW t \in Threads, Exchange(t) PROVE Fifo!Next
  BY <1>8, Zenon DEF Exchange, Swap, Fifo!Next, Fifo!Exchange
<1>9. ASSUME NEW t \in Threads, Notify(t) \/ Signal(t) \/ WakeSpuriously(t) \/ Expire(t)
      PROVE  m_queue' = m_queue
  BY <1>9, Zenon DEF Notify, Signal, WakeSpuriously, Expire, queueVars
<1> QED
  BY <1>5, <1>6, <1>7, <1>8, <1>9, Zenon DEF Next, Blocked, vars

\* Whatever the threads do, the queues behave as bounded queues that keep the
\* newest items in order, as long as swap() is called on queues of one capacity.
THEOREM ImplementsBoundedFifo == ASSUME EqualSwaps PROVE Spec => ImplementsFifo
<1>1. Init => Fifo!Init
  BY DEF Init, Fifo!Init
<1>2. (Contents /\ Placed) /\ CapacityBound /\ [Next]_vars => [Fifo!Next]_m_queue
  BY FifoStep
<1> QED
  BY <1>1, <1>2, Shaped, CapacityKept, PTL DEF Spec, ImplementsFifo, Fifo!Spec

-----------------------------------------------------------------------------
(* The waitset.  A step of it is a step of the queues, or leaves them alone, *)
(* or is the popAll() of a consumer that was told where data is: what is     *)
(* shown of the queues above carries over.                                   *)

\* The watched queues and where the consumers are: an index that wait() has
\* returned is one of a watched queue.
Looking ==
  /\ m_watched \in Seq(Queues)
  /\ m_externalCondition \subseteq Queues
  /\ look \in [Consumers -> [is : Steps, i : Nat]]
  /\ \A w \in Consumers : /\ look[w].i <= Len(m_watched) + 1
                          /\ look[w].is = "done" => look[w].i <= Len(m_watched)
  /\ exists \in BOOLEAN

\* A producer that read the pointer is still inside push().
Ringing == reached \subseteq {t \in Threads : at[t].is = "signal"}

\* Queue q is watched under index i or a higher one.
AtOrAfter(i, q) == \E j \in 1 .. Len(m_watched) : j >= i /\ m_watched[j] = q

\* Where a consumer is in no scan at entry and in no switch.
OwedNothing(x) == x.is \in {"out", "asleep", "notified", "rescan"} \/ x.i = 0

\* What a consumer is owed: a queue that it has yet to reach, in the scan at
\* entry or in its switch, and that has had data ever since.
Owing ==
  /\ owed \in [Consumers -> SUBSET Queues]
  /\ \A w \in Consumers : \A q \in owed[w] : m_queue[q] # <<>> /\ AtOrAfter(look[w].i, q)
  /\ \A w \in Consumers : OwedNothing(look[w]) => owed[w] = {}

WInv == Contents /\ Placed /\ Looking /\ Ringing /\ Owing

-----------------------------------------------------------------------------
\* What a step does to the queues.
LEMMA QueueStep ==
  ASSUME Looking, [WNext]_allVars
  PROVE  \/ [Next]_vars
         \/ \E q \in Queues : Take(q, TRUE) /\ UNCHANGED <<pushed, at>>
<1>1. ASSUME NEW t \in Threads, Producing(t) \/ Exchanging(t) \/ NoCondition(t) \/ Ring(t)
      PROVE  Next
  BY <1>1, Zenon DEF Producing, Exchanging, NoCondition, Ring, Next
<1>2. ASSUME NEW t \in Threads, ReadCondition(t) PROVE UNCHANGED vars
  BY <1>2, Zenon DEF ReadCondition
<1>3. ASSUME NEW w \in Consumers, \/ Enter(w) \/ Scan(w) \/ Sleep(w) \/ WakeAnyway(w)
                                  \/ Rescan(w) \/ TimeOut(w) \/ Leave(w)
      PROVE  UNCHANGED vars
  BY <1>3, Zenon DEF Enter, Scan, Sleep, WakeAnyway, Rescan, TimeOut, Leave
<1>4. ASSUME NEW w \in Consumers, Collect(w)
      PROVE  \E q \in Queues : Take(q, TRUE) /\ UNCHANGED <<pushed, at>>
  <2>1. /\ UNCHANGED <<pushed, at>> /\ Take(m_watched[look[w].i], TRUE)
        /\ look[w].i \in 1 .. Len(m_watched)
    BY <1>4, Zenon DEF Collect
  <2>2. m_watched[look[w].i] \in Queues
    BY <2>1 DEF Looking
  <2> QED
    BY <2>1, <2>2, Zenon
<1>5. ASSUME NEW q \in Queues, Attach(q) PROVE UNCHANGED vars
  BY <1>5, Zenon DEF Attach
<1>6. CASE Destroy \/ UNCHANGED allVars
  BY <1>6, Zenon DEF Destroy, allVars
<1> QED
  BY <1>1, <1>2, <1>3, <1>4, <1>5, <1>6, Zenon DEF WNext, Waiting

\* So the queues keep their shape, and their bound when swap() respects it.
LEMMA QueuesKept ==
  ASSUME Contents, Placed, Looking, [WNext]_allVars
  PROVE  Contents' /\ Placed' /\ (EqualSwaps /\ CapacityBound => CapacityBound')
<1>1. CASE [Next]_vars
  BY <1>1, ContentsStep, PlacedStep, Zenon
<1>2. ASSUME NEW q \in Queues, Take(q, TRUE), UNCHANGED <<pushed, at>>
      PROVE  Contents' /\ Placed' /\ (CapacityBound => CapacityBound')
  <2>1. Run(m_queue[q], pushed[q], Len(m_queue[q])) /\ Capacity[q] \in Nat
    BY CapacityAssumption DEF Contents
  <2>2. Run(<<>>, pushed[q], 0)
    BY <2>1, RunOps, Zenon
  <2>3. m_queue' = [m_queue EXCEPT ![q] = <<>>] /\ pushed' = [pushed EXCEPT ![q] = pushed[q]]
    BY <1>2 DEF Take, Contents
  <2>4. Fits(q, 0)
    BY <2>1 DEF Fits
  <2>5. Placed'
    BY <1>2 DEF Placed
  <2> QED
    BY <2>2, <2>3, <2>4, <2>5, OneQueue, Zenon
<1> QED
  BY <1>1, <1>2, QueueStep, Zenon

-----------------------------------------------------------------------------
\* Consumers stay within the watched queues: wait() returns the index of one.
LEMMA LookingStep == ASSUME Looking, [WNext]_allVars PROVE Looking'
<1>0. /\ Len(m_watched) \in Nat
      /\ \A w \in Consumers : look[w].is \in Steps /\ look[w].i \in Nat
  BY DEF Looking
<1>1. ASSUME NEW w \in Consumers, NEW x \in [is : Steps, i : Nat],
             look' = [look EXCEPT ![w] = x],
             x.i <= Len(m_watched) + 1, x.is = "done" => x.i <= Len(m_watched),
             UNCHANGED <<m_watched, m_externalCondition, exists>>
      PROVE  Looking'
  <2>1. look' \in [Consumers -> [is : Steps, i : Nat]]
    BY <1>1 DEF Looking
  <2>2. \A v \in Consumers : look'[v] = IF v = w THEN x ELSE look[v]
    BY <1>1 DEF Looking
  <2>3. m_watched' = m_watched /\ m_externalCondition' = m_externalCondition /\ exists' = exists
    BY <1>1
  <2> QED
    BY <1>1, <2>1, <2>2, <2>3, Zenon DEF Looking
<1>2. /\ Out \in [is : Steps, i : Nat] /\ Out.i = 0 /\ Out.is = "out"
      /\ \A p \in Steps : \A n \in Nat : /\ [is |-> p, i |-> n] \in [is : Steps, i : Nat]
                                         /\ [is |-> p, i |-> n].i = n /\ [is |-> p, i |-> n].is = p
  BY DEF Out, Steps
<1>3. CASE UNCHANGED waitVars
  BY <1>3 DEF waitVars, Looking
<1>3a. ASSUME NEW w \in Consumers, look' = [look EXCEPT ![w].is = "notified"],
              UNCHANGED <<m_watched, m_externalCondition, exists>>
       PROVE  Looking'
  <2>1. PICK x : x = [look[w] EXCEPT !.is = "notified"]
    BY Zenon
  <2>2. x \in [is : Steps, i : Nat] /\ x.i = look[w].i /\ x.is = "notified"
    BY <2>1 DEF Looking, Steps
  <2>3. look' = [look EXCEPT ![w] = x]
    BY <1>3a, <2>1, Zenon
  <2>4. x.i <= Len(m_watched) + 1
    BY <2>2, Zenon DEF Looking
  <2>5. x.is = "done" => x.i <= Len(m_watched)
    BY <2>2
  <2> QED
    BY <1>1, <1>3a, <2>2, <2>3, <2>4, <2>5, Zenon
<1>4. ASSUME NEW t \in Threads, Ring(t) PROVE Looking'
  <2>1. UNCHANGED <<m_watched, m_externalCondition, exists>>
    BY <1>4, Zenon DEF Ring
  <2>2. CASE UNCHANGED look
    BY <2>1, <2>2 DEF Looking
  <2> QED
    BY <1>4, <1>3a, <2>1, <2>2, Zenon DEF Ring
<1>5. ASSUME NEW w \in Consumers, NEW p \in Steps, NEW n \in Nat,
             look' = [look EXCEPT ![w] = [is |-> p, i |-> n]],
             n <= Len(m_watched) + 1, p = "done" => n <= Len(m_watched),
             UNCHANGED <<m_watched, m_externalCondition, exists>>
      PROVE  Looking'
  BY <1>1, <1>2, <1>5, Zenon
<1>6. 0 <= Len(m_watched) + 1 /\ 0 <= Len(m_watched) /\ 1 <= Len(m_watched) + 1
  BY <1>0
<1>7. ASSUME NEW w \in Consumers, Enter(w) \/ Sleep(w) \/ Rescan(w) \/ TimeOut(w)
      PROVE  Looking'
  <2>1. UNCHANGED <<m_watched, m_externalCondition, exists>>
    BY <1>7, Zenon DEF Enter, Sleep, Rescan, TimeOut
  <2>2. \/ look' = [look EXCEPT ![w] = [is |-> "entry", i |-> 1]]
        \/ look' = [look EXCEPT ![w] = [is |-> "asleep", i |-> 0]]
        \/ look' = [look EXCEPT ![w] = [is |-> "rescan", i |-> 1]]
        \/ look' = [look EXCEPT ![w] = [is |-> "done", i |-> 0]]
    BY <1>7, Zenon DEF Enter, Sleep, Rescan, TimeOut
  <2>3. {"entry", "asleep", "rescan", "done"} \subseteq Steps /\ 0 \in Nat /\ 1 \in Nat
    BY DEF Steps
  <2>4. \A p \in {"entry", "asleep", "rescan"} : p # "done"
    OBVIOUS
  <2> QED
    BY <1>5, <1>6, <2>1, <2>2, <2>3, <2>4, Zenon
<1>8. ASSUME NEW w \in Consumers, Scan(w) PROVE Looking'
  <2>1. PICK i \in Nat, p \in Steps : i = look[w].i /\ p = look[w].is
    BY <1>0, Zenon
  <2>2. /\ p \in {"entry", "rescan"} /\ i <= Len(m_watched)
        /\ UNCHANGED <<m_watched, m_externalCondition, exists>>
    BY <1>8, <2>1, Zenon DEF Scan
  <2>3. CASE look' = [look EXCEPT ![w] = [is |-> "done", i |-> i]]
    <3>1. "done" \in Steps /\ i <= Len(m_watched) + 1
      BY <1>0, <2>2 DEF Steps
    <3> QED
      BY <1>5, <2>2, <2>3, <3>1, Zenon
  <2>4. CASE look' = [look EXCEPT ![w] = [look[w] EXCEPT !.i = i + 1]]
    <3>1. [look[w] EXCEPT !.i = i + 1] = [is |-> p, i |-> i + 1]
      BY <2>1 DEF Looking
    <3>2. i + 1 \in Nat /\ i + 1 <= Len(m_watched) + 1 /\ p # "done"
      BY <1>0, <2>2
    <3> QED
      BY <1>5, <2>2, <2>4, <3>1, <3>2, Zenon
  <2> QED
    BY <1>8, <2>1, <2>3, <2>4, Zenon DEF Scan
<1>9. ASSUME NEW w \in Consumers, WakeAnyway(w) PROVE Looking'
  BY <1>9, <1>3a, Zenon DEF WakeAnyway
<1>10a. ASSUME NEW w \in Consumers, Collect(w) PROVE Looking'
  <2>1. PICK n : n = look[w].i + 1
    BY Zenon
  <2>2. /\ look' = [look EXCEPT ![w] = [is |-> "taking", i |-> n]]
        /\ UNCHANGED <<m_watched, m_externalCondition, exists>> /\ look[w].i \in 1 .. Len(m_watched)
    BY <1>10a, <2>1, Zenon DEF Collect
  <2>3. n \in Nat /\ n <= Len(m_watched) + 1 /\ "taking" \in Steps /\ "taking" # "done"
    BY <1>0, <2>1, <2>2 DEF Steps
  <2> QED
    BY <1>5, <2>2, <2>3, Zenon
<1>10. ASSUME NEW w \in Consumers, Leave(w) PROVE Looking'
  <2>1. look' = [look EXCEPT ![w] = Out] /\ UNCHANGED <<m_watched, m_externalCondition, exists>>
    BY <1>10, Zenon DEF Leave
  <2>2. Out.i <= Len(m_watched) + 1 /\ Out.is # "done"
    BY <1>2, <1>6
  <2> QED
    BY <1>1, <1>2, <2>1, <2>2, Zenon
<1>11. ASSUME NEW q \in Queues, Attach(q) PROVE Looking'
  <2>1. /\ m_watched' = Append(m_watched, q) /\ m_externalCondition' = m_externalCondition \cup {q}
        /\ look' = look /\ exists' = exists
    BY <1>11, Zenon DEF Attach
  <2>2. m_watched' \in Seq(Queues) /\ Len(m_watched') = Len(m_watched) + 1
    BY <2>1 DEF Looking
  <2>3. \A w \in Consumers : /\ look'[w].i <= Len(m_watched') + 1
                             /\ look'[w].is = "done" => look'[w].i <= Len(m_watched')
    BY <1>0, <2>1, <2>2 DEF Looking
  <2> QED
    BY <2>1, <2>2, <2>3 DEF Looking
<1>12. CASE Destroy
  BY <1>12, Zenon DEF Destroy, Looking
<1> QED
  BY <1>3, <1>4, <1>7, <1>8, <1>9, <1>10a, <1>10, <1>11, <1>12, Zenon
  DEF WNext, Waiting, allVars, Producing, Exchanging, ReadCondition, NoCondition

\* Only a producer before its last line has the pointer in hand.
LEMMA RingingStep == ASSUME Placed, Ringing, [WNext]_allVars PROVE Ringing'
<1>1. ASSUME NEW t \in Threads, at[t].is # "signal", reached' = reached,
             \A u \in Threads : u # t /\ at[u].is = "signal" => at'[u].is = "signal"
      PROVE  Ringing'
  BY <1>1, Zenon DEF Ringing
<1>2. CASE UNCHANGED <<at, reached>>
  BY <1>2 DEF Ringing
<1>3. ASSUME NEW t \in Threads, Produce(t), reached' = reached PROVE Ringing'
  <2>1. PICK x : at[t] = Idle /\ at' = [at EXCEPT ![t] = x]
    BY <1>3, Zenon DEF Produce, Push, PushAll, Emplace
  <2>2. \A u \in Threads : u # t => at'[u] = at[u]
    BY <2>1 DEF Placed
  <2>3. at[t].is # "signal"
    BY <2>1 DEF Idle
  <2> QED
    BY <1>1, <1>3, <2>2, <2>3, Zenon
<1>4. ASSUME NEW t \in Threads, Notify(t), reached' = reached PROVE Ringing'
  <2>1. at[t].is = "notify"
    BY <1>4, Zenon DEF Notify
  <2>2. CASE at' = [at EXCEPT ![t].is = "signal"]
    <3>1. \A u \in Threads : u # t => at'[u] = at[u]
      BY <2>2 DEF Placed
    <3> QED
      BY <1>1, <1>4, <2>1, <3>1
  <2>3. ASSUME NEW v \in Threads, at[v].is = "waiting",
               at' = [at EXCEPT ![t].is = "signal", ![v].is = "woken"]
        PROVE  Ringing'
    <3>1. \A u \in Threads : u # t /\ u # v => at'[u] = at[u]
      BY <2>3 DEF Placed
    <3>2. at[t].is # "signal" /\ at[v].is # "signal"
      BY <2>1, <2>3
    <3> QED
      BY <1>1, <1>4, <3>1, <3>2, Zenon
  <2> QED
    BY <1>4, <2>2, <2>3, Zenon DEF Notify, In
<1>5. ASSUME NEW t \in Threads, ReadCondition(t) PROVE Ringing'
  <2>1. at[t].is = "signal" /\ reached' = reached \cup {t} /\ at' = at
    BY <1>5, Zenon DEF ReadCondition, vars
  <2> QED
    BY <2>1, Zenon DEF Ringing
<1>6. ASSUME NEW t \in Threads, Signal(t), t \notin reached' , reached' \subseteq reached
      PROVE  Ringing'
  <2>1. \A u \in Threads : u # t => at'[u] = at[u]
    BY <1>6 DEF Signal, Placed
  <2> QED
    BY <1>6, <2>1, Zenon DEF Ringing
<1>7. ASSUME NEW t \in Threads, NoCondition(t) PROVE Ringing'
  BY <1>6, <1>7, Zenon DEF NoCondition
<1>8. ASSUME NEW t \in Threads, Ring(t) PROVE Ringing'
  BY <1>6, <1>8, Zenon DEF Ring
<1>9. ASSUME NEW t \in Threads, Exchanging(t) PROVE Ringing'
  BY <1>2, <1>9, Zenon DEF Exchanging, Exchange, Swap
<1>10. ASSUME NEW w \in Consumers, Waiting(w) PROVE Ringing'
  BY <1>2, <1>10, Zenon DEF Waiting, Enter, Scan, Sleep, WakeAnyway, Rescan, TimeOut, Collect, Leave,
     vars
<1>11. CASE Destroy \/ UNCHANGED allVars \/ \E q \in Queues : Attach(q)
  BY <1>2, <1>11, Zenon DEF Destroy, Attach, allVars, vars
<1> QED
  BY <1>3, <1>4, <1>5, <1>7, <1>8, <1>9, <1>10, <1>11, Zenon DEF WNext, Producing

-----------------------------------------------------------------------------
\* Neither trim empties a queue: both stop at the capacity, which is then at
\* least one.
LEMMA TrimsLeaveData ==
  ASSUME NEW s \in Seq(Nat), s # <<>>, NEW cap \in Nat
  PROVE  Trimmed(s, cap) # <<>> /\ TrimmedOnce(s, cap) # <<>>
<1>1. Len(s) \in Nat /\ Len(s) > 0
  OBVIOUS
<1>2. CASE cap > 0 /\ Len(s) > cap
  <2>1. PICK u, v : u = SubSeq(s, Len(s) - cap + 1, Len(s)) /\ v = Tail(s)
    BY Zenon
  <2>2. Len(u) = cap
    BY <1>1, <1>2, <2>1
  <2>3. Len(v) = Len(s) - 1
    BY <1>1, <2>1
  <2>4. u # <<>> /\ v # <<>>
    BY <1>1, <1>2, <2>2, <2>3
  <2> QED
    BY <1>2, <2>1, <2>4, Zenon DEF Trimmed, TrimmedOnce
<1>3. CASE ~ (cap > 0 /\ Len(s) > cap)
  BY <1>3, Zenon DEF Trimmed, TrimmedOnce
<1> QED
  BY <1>2, <1>3, Zenon

\* No producer takes the last item out of a queue.
LEMMA ProducersLeaveData ==
  ASSUME Contents, NEW t \in Threads, Produce(t), NEW o \in Queues, m_queue[o] # <<>>
  PROVE  m_queue'[o] # <<>>
<1>0. /\ m_queue \in [Queues -> Seq(Nat)] /\ pushed \in [Queues -> Nat]
      /\ \A q \in Queues : Capacity[q] \in Nat
  BY ContentsMeans, CapacityAssumption
<1>1. ASSUME NEW q \in Queues, NEW s, m_queue' = [m_queue EXCEPT ![q] = s],
             o = q => s # <<>>
      PROVE  m_queue'[o] # <<>>
  BY <1>0, <1>1
<1>2. ASSUME NEW q \in Queues, Push(t, q) PROVE m_queue'[o] # <<>>
  <2>1. PICK s : s = Append(m_queue[q], pushed[q] + 1)
    BY Zenon
  <2>2. s \in Seq(Nat) /\ s # <<>>
    <3>1. m_queue[q] \in Seq(Nat) /\ pushed[q] + 1 \in Nat
      BY <1>0
    <3> QED
      BY <2>1, <3>1
  <2>3. m_queue' = [m_queue EXCEPT ![q] = TrimmedOnce(s, Capacity[q])]
    BY <1>2, <2>1, Zenon DEF Push
  <2> QED
    BY <1>0, <1>1, <2>2, <2>3, TrimsLeaveData, Zenon
<1>3. ASSUME NEW q \in Queues, NEW n \in Nat, PushAll(t, q, n) PROVE m_queue'[o] # <<>>
  <2>1. PICK s : s = m_queue[q] \o Items(pushed[q], n)
    BY Zenon
  <2>2. s \in Seq(Nat) /\ (m_queue[q] # <<>> => s # <<>>)
    <3>1. PICK u, v : u = m_queue[q] /\ v = Items(pushed[q], n)
      BY Zenon
    <3>2. u \in Seq(Nat) /\ v \in Seq(Nat)
      BY <1>0, <3>1, ItemsShape
    <3> QED
      BY <2>1, <3>1, <3>2
  <2>3. m_queue' = [m_queue EXCEPT ![q] = Trimmed(s, Capacity[q])]
    BY <1>3, <2>1, Zenon DEF PushAll
  <2> QED
    BY <1>0, <1>1, <2>2, <2>3, TrimsLeaveData, Zenon
<1>4. 1 \in Nat /\ Bulk \subseteq Nat
  BY BulkAssumption
<1> QED
  BY <1>2, <1>3, <1>4, Zenon DEF Produce, Emplace

\* One thread at a time calls wait(), and it collects what it was told of.
OneConsumer == \A v, w \in Consumers : v = w

\* Between the return of wait() and popAll() the queue keeps its data: others
\* only push, and swap() waits for the consumer.
LEMMA DataStep ==
  ASSUME OneConsumer, Contents, Looking, ReturnedHasData, [WNext]_allVars
  PROVE  ReturnedHasData'
<1> SUFFICES ASSUME NEW w \in Consumers, look'[w].is = "done", look'[w].i > 0
             PROVE  m_queue'[m_watched'[look'[w].i]] # <<>>
  BY Zenon DEF ReturnedHasData
<1>0. /\ look \in [Consumers -> [is : Steps, i : Nat]] /\ m_watched \in Seq(Queues)
      /\ m_queue \in [Queues -> Seq(Nat)]
  BY ContentsMeans DEF Looking
<1>1. ASSUME look'[w] = look[w]
      PROVE  /\ look[w].is = "done" /\ look[w].i \in 1 .. Len(m_watched)
             /\ m_watched[look[w].i] \in Queues /\ m_queue[m_watched[look[w].i]] # <<>>
  <2>1. look[w].is = "done" /\ look[w].i > 0 /\ look[w].i \in Nat
    BY <1>0, <1>1
  <2>2. look[w].i <= Len(m_watched)
    BY <2>1, Zenon DEF Looking
  <2>3. look[w].i \in 1 .. Len(m_watched) /\ m_watched[look[w].i] \in Queues
    BY <1>0, <2>1, <2>2
  <2> QED
    BY <2>1, <2>3, Zenon DEF ReturnedHasData
<1>2. ASSUME look' = look, m_watched' = m_watched,
             \A q \in Queues : m_queue[q] # <<>> => m_queue'[q] # <<>>
      PROVE  m_queue'[m_watched'[look'[w].i]] # <<>>
  BY <1>1, <1>2, Zenon
<1>3. ASSUME NEW t \in Threads, Producing(t) PROVE m_queue'[m_watched'[look'[w].i]] # <<>>
  <2>1. look' = look /\ m_watched' = m_watched
    BY <1>3, Zenon DEF Producing, waitVars
  <2>2. \A q \in Queues : m_queue[q] # <<>> => m_queue'[q] # <<>>
    BY <1>3, ProducersLeaveData, Zenon DEF Producing, Notify, queueVars
  <2> QED
    BY <1>2, <2>1, <2>2, Zenon
<1>4. ASSUME NEW t \in Threads, Exchanging(t) PROVE FALSE
  <2>1. look'[w] = Out
    BY <1>4, Zenon DEF Exchanging, waitVars
  <2> QED
    BY <2>1 DEF Out
<1>5. CASE UNCHANGED <<m_queue, look, m_watched>>
  BY <1>2, <1>5, Zenon
<1>6. ASSUME NEW t \in Threads, Ring(t) PROVE m_queue'[m_watched'[look'[w].i]] # <<>>
  <2>1. m_queue' = m_queue /\ m_watched' = m_watched
    BY <1>6, Zenon DEF Ring, Signal, queueVars
  <2>2. CASE UNCHANGED look
    BY <1>5, <2>1, <2>2
  <2>3. ASSUME NEW v \in Consumers, look' = [look EXCEPT ![v].is = "notified"] PROVE FALSE
    BY <1>0, <2>3 DEF OneConsumer
  <2> QED
    BY <1>6, <2>2, <2>3, Zenon DEF Ring
<1>7. ASSUME NEW v \in Consumers, Scan(v) PROVE m_queue'[m_watched'[look'[w].i]] # <<>>
  <2>1. v = w /\ m_queue' = m_queue /\ m_watched' = m_watched
    BY <1>7, Zenon DEF OneConsumer, Scan, vars
  <2>2. CASE m_queue[m_watched[look[w].i]] # <<>>
    <3>1. look'[w] = [is |-> "done", i |-> look[w].i]
      BY <1>0, <1>7, <2>1, <2>2 DEF Scan
    <3>2. look'[w].i = look[w].i
      BY <3>1
    <3> QED
      BY <2>1, <2>2, <3>2, Zenon
  <2>3. CASE m_queue[m_watched[look[w].i]] = <<>>
    <3>1. look'[w].is = look[w].is
      BY <1>0, <1>7, <2>1, <2>3 DEF Scan
    <3> QED
      BY <1>7, <2>1, <3>1 DEF Scan
  <2> QED
    BY <2>2, <2>3
<1>8. ASSUME NEW v \in Consumers, Enter(v) \/ Sleep(v) \/ WakeAnyway(v) \/ Rescan(v) PROVE FALSE
  <2>1. v = w
    BY Zenon DEF OneConsumer
  <2>2. look'[w].is \in {"entry", "asleep", "notified", "rescan"}
    BY <1>0, <1>8, <2>1 DEF Enter, Sleep, WakeAnyway, Rescan
  <2> QED
    BY <2>2
<1>9. ASSUME NEW v \in Consumers, TimeOut(v) \/ Collect(v) \/ Leave(v) PROVE FALSE
  <2>1. v = w
    BY Zenon DEF OneConsumer
  <2>2. \E n : \E x \in {Out, [is |-> "done", i |-> 0], [is |-> "taking", i |-> n]} :
          look' = [look EXCEPT ![w] = x]
    BY <1>9, <2>1, Zenon DEF TimeOut, Collect, Leave
  <2>3. look'[w].i = 0 \/ look'[w].is = "taking"
    BY <1>0, <2>2 DEF Out
  <2> QED
    BY <2>3
<1>10. ASSUME NEW q \in Queues, Attach(q) PROVE m_queue'[m_watched'[look'[w].i]] # <<>>
  <2>1. m_queue' = m_queue /\ look' = look /\ m_watched' = Append(m_watched, q)
    BY <1>10, Zenon DEF Attach, vars
  <2>2. look[w].i \in 1 .. Len(m_watched) /\ m_queue[m_watched[look[w].i]] # <<>>
    BY <1>1, <2>1, Zenon
  <2>3. m_watched'[look[w].i] = m_watched[look[w].i]
    BY <1>0, <2>1, <2>2
  <2> QED
    BY <2>1, <2>2, <2>3, Zenon
<1>11. ASSUME NEW t \in Threads, ReadCondition(t) \/ NoCondition(t)
       PROVE  UNCHANGED <<m_queue, look, m_watched>>
  BY <1>11, Zenon DEF ReadCondition, NoCondition, Signal, queueVars, vars, waitVars
<1>12. ASSUME Destroy \/ UNCHANGED allVars PROVE UNCHANGED <<m_queue, look, m_watched>>
  BY <1>12, Zenon DEF Destroy, allVars, vars, waitVars
<1> QED
  BY <1>3, <1>4, <1>5, <1>6, <1>7, <1>8, <1>9, <1>10, <1>11, <1>12, Zenon DEF WNext, Waiting

-----------------------------------------------------------------------------
\* What is owed stays owed until somebody takes it, and a consumer passes no
\* queue that it is owed without taking it.
LEMMA OwingStep == ASSUME Contents, Looking, Owing, [WNext]_allVars PROVE Owing'
<1>0. /\ look \in [Consumers -> [is : Steps, i : Nat]] /\ m_watched \in Seq(Queues)
      /\ m_queue \in [Queues -> Seq(Nat)] /\ owed \in [Consumers -> SUBSET Queues]
  BY ContentsMeans DEF Looking, Owing
<1>a. ASSUME m_watched' = m_watched PROVE \A i, q : AtOrAfter(i, q) => AtOrAfter(i, q)'
  BY <1>a, Zenon DEF AtOrAfter
<1>1. ASSUME UNCHANGED waitVars,
             \/ \A q \in Queues : m_queue[q] # <<>> => m_queue'[q] # <<>>
             \/ \A w \in Consumers : look[w] = Out
      PROVE  Owing'
  <2>1. UNCHANGED <<m_watched, look, owed>>
    BY <1>1 DEF waitVars
  <2>2. CASE \A q \in Queues : m_queue[q] # <<>> => m_queue'[q] # <<>>
    <3>1. \A w \in Consumers : \A q \in owed[w] : q \in Queues
      BY <1>0
    <3>2. \A i, q : AtOrAfter(i, q) => AtOrAfter(i, q)'
      BY <1>a, <2>1, Zenon
    <3> QED BY <2>1, <2>2, <3>1, <3>2, Zenon DEF Owing
  <2>3. CASE \A w \in Consumers : look[w] = Out
    <3>1. \A w \in Consumers : owed[w] = {}
      BY <2>3 DEF Owing, Out, OwedNothing
    <3> QED BY <1>0, <2>1, <3>1, Zenon DEF Owing
  <2> QED BY <1>1, <2>2, <2>3, Zenon
\* One consumer moves, past no queue that it is owed.
<1>2. ASSUME NEW w \in Consumers, NEW x \in [is : Steps, i : Nat], look' = [look EXCEPT ![w] = x],
             UNCHANGED <<m_watched, m_queue, owed>>,
             \A q \in owed[w] : AtOrAfter(x.i, q), OwedNothing(x) => owed[w] = {}
      PROVE  Owing'
  <2>1. look'[w] = x /\ \A v \in Consumers : v # w => look'[v] = look[v]
    BY <1>0, <1>2
  <2>2. m_queue' = m_queue /\ owed' = owed /\ \A i, q : AtOrAfter(i, q) => AtOrAfter(i, q)'
    BY <1>a, <1>2, Zenon
  <2>3. ASSUME NEW v \in Consumers
        PROVE  /\ \A q \in owed[v] : m_queue[q] # <<>> /\ AtOrAfter(look'[v].i, q)
               /\ OwedNothing(look'[v]) => owed[v] = {}
    BY <1>2, <2>1, Zenon DEF Owing
  <2> QED BY <2>2, <2>3, Zenon DEF Owing
<1>3. ASSUME NEW w \in Consumers, NEW x \in [is : Steps, i : Nat], look' = [look EXCEPT ![w] = x],
             UNCHANGED <<m_watched, m_queue, owed>>, owed[w] = {}
      PROVE  Owing'
  BY <1>2, <1>3, Zenon
<1>4. /\ Out \in [is : Steps, i : Nat]
      /\ \A p \in Steps : \A n \in Nat : /\ [is |-> p, i |-> n] \in [is : Steps, i : Nat]
                                         /\ [is |-> p, i |-> n].i = n /\ [is |-> p, i |-> n].is = p
      /\ \A w \in Consumers : look[w].i \in Nat /\ look[w].is \in Steps
  BY <1>0 DEF Out, Steps
<1>5. ASSUME NEW t \in Threads, Producing(t) PROVE Owing'
  <2>1. \A q \in Queues : m_queue[q] # <<>> => m_queue'[q] # <<>>
    BY <1>5, ProducersLeaveData, Zenon DEF Producing, Notify, queueVars
  <2> QED BY <1>1, <1>5, <2>1, Zenon DEF Producing
<1>6. ASSUME NEW t \in Threads, Exchanging(t) PROVE Owing'
  BY <1>1, <1>6, Zenon DEF Exchanging
<1>7. ASSUME NEW t \in Threads, ReadCondition(t) \/ NoCondition(t) PROVE Owing'
  <2>1. UNCHANGED waitVars /\ m_queue' = m_queue
    BY <1>7, Zenon DEF ReadCondition, NoCondition, Signal, queueVars, vars
  <2> QED BY <1>1, <2>1, Zenon
\* A wakeup: the consumer was asleep, and is owed nothing.
<1>8. ASSUME NEW w \in Consumers, look[w].is = "asleep", look' = [look EXCEPT ![w].is = "notified"],
             UNCHANGED <<m_watched, m_queue, owed>>
      PROVE  Owing'
  <2>1. PICK x : x = [look[w] EXCEPT !.is = "notified"]
    BY Zenon
  <2>2. x \in [is : Steps, i : Nat]
    <3>1. look[w] \in [is : Steps, i : Nat] /\ "notified" \in Steps
      BY <1>0 DEF Steps
    <3> QED BY <2>1, <3>1
  <2>3. look' = [look EXCEPT ![w] = x]
    BY <1>8, <2>1, Zenon
  <2>4. owed[w] = {}
    BY <1>8, Zenon DEF Owing, OwedNothing
  <2> QED BY <1>3, <1>8, <2>2, <2>3, <2>4, Zenon
<1>9. ASSUME NEW t \in Threads, Ring(t) PROVE Owing'
  <2>1. UNCHANGED <<m_watched, m_queue, owed, m_externalCondition, exists>>
    BY <1>9, Zenon DEF Ring, Signal, queueVars
  <2>2. CASE UNCHANGED look
    BY <1>1, <2>1, <2>2, Zenon DEF waitVars
  <2>3. CASE \E w \in Consumers : look[w].is = "asleep" /\ look' = [look EXCEPT ![w].is = "notified"]
    BY <1>8, <2>1, <2>3, Zenon
  <2> QED BY <1>9, <2>2, <2>3, Zenon DEF Ring
<1>10. ASSUME NEW w \in Consumers, WakeAnyway(w) PROVE Owing'
  BY <1>8, <1>10, Zenon DEF WakeAnyway, vars
<1>11. ASSUME NEW w \in Consumers, Rescan(w) \/ TimeOut(w) PROVE Owing'
  <2>1. look[w].is \in {"asleep", "notified"} /\ UNCHANGED <<m_watched, m_queue, owed>>
    BY <1>11, Zenon DEF Rescan, TimeOut, vars
  <2>2. PICK x \in {[is |-> "rescan", i |-> 1], [is |-> "done", i |-> 0]} :
          look' = [look EXCEPT ![w] = x]
    BY <1>11, Zenon DEF Rescan, TimeOut
  <2>3. x \in [is : Steps, i : Nat]
    BY <2>2 DEF Steps
  <2>4. owed[w] = {}
    BY <2>1, Zenon DEF Owing, OwedNothing
  <2> QED BY <1>3, <2>1, <2>2, <2>3, <2>4, Zenon
<1>12. Len(m_watched) \in Nat /\ DOMAIN m_watched = 1 .. Len(m_watched)
  BY <1>0
<1>13. ASSUME NEW w \in Consumers, Enter(w) PROVE Owing'
  <2>1. PICK had : had = {q \in Queues : Watched(q) /\ m_queue[q] # <<>>}
    BY Zenon
  <2>2. PICK x : x = [is |-> "entry", i |-> 1]
    BY Zenon
  <2>3. /\ look' = [look EXCEPT ![w] = x] /\ owed' = [owed EXCEPT ![w] = had]
        /\ UNCHANGED <<m_watched, m_queue>>
    BY <1>13, <2>1, <2>2, Zenon DEF Enter, vars
  <2>4. /\ look'[w] = x /\ owed'[w] = had /\ owed' \in [Consumers -> SUBSET Queues]
        /\ \A v \in Consumers : v # w => look'[v] = look[v] /\ owed'[v] = owed[v]
    BY <1>0, <2>1, <2>3
  <2>5. ~ OwedNothing(x) /\ x.i = 1
    BY <2>2 DEF OwedNothing
  <2>6. ASSUME NEW q \in had PROVE m_queue[q] # <<>> /\ AtOrAfter(1, q)
    <3>1. m_queue[q] # <<>> /\ \E j \in 1 .. Len(m_watched) : m_watched[j] = q
      BY <1>12, <2>1, <2>6, Zenon DEF Watched
    <3>2. \A j \in 1 .. Len(m_watched) : j >= 1
      BY <1>12
    <3> QED BY <3>1, <3>2, Zenon DEF AtOrAfter
  <2>7. m_queue' = m_queue /\ \A i, q : AtOrAfter(i, q) => AtOrAfter(i, q)'
    BY <1>a, <2>3, Zenon
  <2>8. ASSUME NEW v \in Consumers
        PROVE  /\ \A q \in owed'[v] : m_queue[q] # <<>> /\ AtOrAfter(look'[v].i, q)
               /\ OwedNothing(look'[v]) => owed'[v] = {}
    <3>1. CASE v = w
      BY <2>4, <2>5, <2>6, <3>1, Zenon
    <3>2. CASE v # w
      BY <2>4, <3>2, Zenon DEF Owing
    <3> QED BY <3>1, <3>2
  <2> QED BY <2>4, <2>7, <2>8, Zenon DEF Owing
<1>14. ASSUME NEW w \in Consumers, look[w].i \notin 1 .. Len(m_watched) PROVE owed[w] = {}
  <2>1. CASE look[w].i = 0
    BY <2>1, Zenon DEF Owing, OwedNothing
  <2>2. CASE look[w].i # 0
    <3>1. \A j \in 1 .. Len(m_watched) : ~ (j >= look[w].i)
      BY <1>4, <1>12, <1>14, <2>2
    <3>2. \A q \in owed[w] : FALSE
      BY <3>1, Zenon DEF Owing, AtOrAfter
    <3> QED BY <3>2, Zenon
  <2> QED BY <2>1, <2>2, Zenon
<1>15. ASSUME NEW w \in Consumers, Sleep(w) \/ Leave(w) PROVE Owing'
  <2>1. UNCHANGED <<m_watched, m_queue, owed>> /\ look[w].i \notin 1 .. Len(m_watched)
    BY <1>4, <1>12, <1>15 DEF Sleep, Leave, vars
  <2>2. PICK x \in {[is |-> "asleep", i |-> 0], Out} : look' = [look EXCEPT ![w] = x]
    BY <1>15, Zenon DEF Sleep, Leave
  <2>3. x \in [is : Steps, i : Nat]
    BY <2>2 DEF Steps, Out
  <2> QED BY <1>3, <1>14, <2>1, <2>2, <2>3, Zenon
\* A place that is not the i-th and not below it is above it.
<1>16. ASSUME NEW w \in Consumers, NEW q \in owed[w], m_watched[look[w].i] # q
       PROVE  AtOrAfter(look[w].i + 1, q)
  <2>1. PICK j \in 1 .. Len(m_watched) : j >= look[w].i /\ m_watched[j] = q
    BY Zenon DEF Owing, AtOrAfter
  <2>2. j # look[w].i
    BY <1>16, <2>1, Zenon
  <2>3. j >= look[w].i + 1
    BY <1>4, <1>12, <2>1, <2>2
  <2> QED BY <2>1, <2>3, Zenon DEF AtOrAfter
<1>17. ASSUME NEW w \in Consumers, Scan(w) PROVE Owing'
  <2>1. PICK i \in Nat, p \in Steps : i = look[w].i /\ p = look[w].is
    BY <1>4, Zenon
  <2>2. p \in {"entry", "rescan"} /\ UNCHANGED <<m_watched, m_queue, owed>>
    BY <1>17, <2>1, Zenon DEF Scan, vars
  <2>3. CASE m_queue[m_watched[i]] # <<>>
    <3>1. PICK x : x = [is |-> "done", i |-> i]
      BY Zenon
    <3>2. look' = [look EXCEPT ![w] = x]
      BY <1>17, <2>1, <2>3, <3>1, Zenon DEF Scan
    <3>3. x \in [is : Steps, i : Nat] /\ x.i = look[w].i
          /\ x.is \notin {"out", "asleep", "notified", "rescan"}
      BY <2>1, <3>1 DEF Steps
    <3>4. (\A q \in owed[w] : AtOrAfter(x.i, q)) /\ (OwedNothing(x) => owed[w] = {})
      BY <3>3, Zenon DEF Owing, OwedNothing
    <3> QED BY <1>2, <2>2, <3>2, <3>3, <3>4, Zenon
  <2>4. CASE m_queue[m_watched[i]] = <<>>
    <3>1. PICK x : x = [is |-> p, i |-> i + 1]
      BY Zenon
    <3>2. [look[w] EXCEPT !.i = i + 1] = x
      BY <1>0, <2>1, <3>1
    <3>3. look' = [look EXCEPT ![w] = x]
      BY <1>17, <2>1, <2>4, <3>2, Zenon DEF Scan
    <3>4. x \in [is : Steps, i : Nat] /\ x.i = look[w].i + 1 /\ x.i # 0 /\ x.is = p
      BY <2>1, <3>1
    <3>5. CASE p = "rescan"
      <4>1. owed[w] = {}
        BY <2>1, <3>5, Zenon DEF Owing, OwedNothing
      <4> QED BY <1>3, <2>2, <3>3, <3>4, <4>1, Zenon
    <3>6. CASE p = "entry"
      <4>1. \A q \in owed[w] : m_watched[look[w].i] # q
        BY <2>1, <2>4, Zenon DEF Owing
      <4>2. ~ OwedNothing(x)
        BY <3>4, <3>6 DEF OwedNothing
      <4>3. \A q \in owed[w] : AtOrAfter(x.i, q)
        BY <1>16, <3>4, <4>1, Zenon
      <4> QED BY <1>2, <2>2, <3>3, <3>4, <4>2, <4>3, Zenon
    <3> QED BY <2>2, <3>5, <3>6
  <2> QED BY <2>3, <2>4
<1>18. ASSUME NEW w \in Consumers, Collect(w) PROVE Owing'
  <2>1. PICK o : o = m_watched[look[w].i]
    BY Zenon
  <2>2. PICK x : x = [is |-> "taking", i |-> look[w].i + 1]
    BY Zenon
  <2>3. /\ m_queue' = [m_queue EXCEPT ![o] = <<>>] /\ look' = [look EXCEPT ![w] = x]
        /\ owed' = [v \in Consumers |-> owed[v] \ {o}] /\ m_watched' = m_watched
    BY <1>18, <2>1, <2>2 DEF Collect, Take
  <2>4. /\ look'[w] = x /\ \A v \in Consumers : v # w => look'[v] = look[v]
        /\ \A q \in Queues : q # o => m_queue'[q] = m_queue[q]
        /\ \A v \in Consumers : owed'[v] = owed[v] \ {o}
        /\ owed' \in [Consumers -> SUBSET Queues]
    BY <1>0, <2>3
  <2>5. x.i = look[w].i + 1 /\ ~ OwedNothing(x)
    BY <1>4, <2>2 DEF OwedNothing
  <2>6. ASSUME NEW v \in Consumers, NEW q \in owed'[v]
        PROVE  m_queue'[q] # <<>> /\ AtOrAfter(look'[v].i, q)
    <3>1. q \in owed[v] /\ q # o /\ q \in Queues
      BY <1>0, <2>4, <2>6
    <3>2. m_queue'[q] # <<>>
      BY <2>4, <3>1, Zenon DEF Owing
    <3>3. CASE v = w
      <4>1. AtOrAfter(look[w].i + 1, q)
        BY <1>16, <2>1, <3>1, <3>3, Zenon
      <4> QED BY <2>4, <2>5, <3>2, <3>3, <4>1, Zenon
    <3>4. CASE v # w
      BY <2>3, <2>4, <3>1, <3>2, <3>4, Zenon DEF Owing
    <3> QED BY <3>3, <3>4
  <2>7. ASSUME NEW v \in Consumers, OwedNothing(look'[v]) PROVE owed'[v] = {}
    <3>1. v # w
      BY <2>4, <2>5, <2>7, Zenon
    <3>2. owed[v] = {}
      BY <2>4, <2>7, <3>1, Zenon DEF Owing
    <3> QED BY <2>4, <3>2
  <2>8. \A i, q : AtOrAfter(i, q) => AtOrAfter(i, q)'
    BY <1>a, <2>3, Zenon
  <2> QED BY <2>4, <2>6, <2>7, <2>8, Zenon DEF Owing
<1>19. ASSUME NEW o \in Queues, Attach(o) PROVE Owing'
  <2>1. UNCHANGED <<m_queue, look, owed>> /\ m_watched' = Append(m_watched, o)
    BY <1>19, Zenon DEF Attach, vars
  <2>2. \A j \in 1 .. Len(m_watched) : j \in 1 .. Len(m_watched') /\ m_watched'[j] = m_watched[j]
    BY <1>0, <2>1
  <2>3. \A i, q : AtOrAfter(i, q) => AtOrAfter(i, q)'
    BY <2>2, Zenon DEF AtOrAfter
  <2> QED BY <2>1, <2>3, Zenon DEF Owing
<1>20. CASE Destroy \/ UNCHANGED allVars
  <2>1. UNCHANGED <<m_queue, look, owed, m_watched>>
    BY <1>20, Zenon DEF Destroy, allVars, vars, waitVars
  <2>2. \A i, q : AtOrAfter(i, q) => AtOrAfter(i, q)'
    BY <1>a, <2>1, Zenon
  <2> QED BY <2>1, <2>2, Zenon DEF Owing
<1> QED
  BY <1>5, <1>6, <1>7, <1>9, <1>10, <1>11, <1>13, <1>15, <1>17, <1>18, <1>19, <1>20, Zenon
  DEF WNext, Waiting

-----------------------------------------------------------------------------
\* The constructor of the waitset establishes the invariant.
LEMMA WInitInv == WInit => WInv /\ ReturnedHasData /\ CapacityBound
<1> SUFFICES ASSUME WInit PROVE WInv /\ ReturnedHasData /\ CapacityBound
  OBVIOUS
<1>1. Contents /\ Placed /\ CapacityBound
  BY InitContents, Zenon DEF WInit
<1>2. Out \in [is : Steps, i : Nat] /\ Out.i = 0 /\ Out.is # "done"
  BY DEF Out, Steps
<1>3. \A w \in Consumers : look[w] = Out
  BY DEF WInit
<1>4. Looking
  <2>1. m_watched \in Seq(Queues) /\ Len(m_watched) \in Nat
    BY AtStartAssumption DEF WInit
  <2>2. m_externalCondition \subseteq Queues
    BY AtStartAssumption DEF WInit
  <2>3. look \in [Consumers -> [is : Steps, i : Nat]] /\ exists \in BOOLEAN
    BY <1>2 DEF WInit
  <2> QED
    BY <1>2, <1>3, <2>1, <2>2, <2>3 DEF Looking
<1>5. Ringing
  BY Zenon DEF WInit, Ringing
<1>6. ReturnedHasData
  BY <1>2, <1>3, Zenon DEF ReturnedHasData
<1>7. Owing
  BY DEF WInit, Owing
<1> QED
  BY <1>1, <1>4, <1>5, <1>6, <1>7, Zenon DEF WInv

\* Every step of producers, consumers and the owner of the waitset keeps it.
LEMMA WStepInv == WInv /\ [WNext]_allVars => WInv'
BY QueuesKept, LookingStep, RingingStep, OwingStep, Zenon DEF WInv

\* The waitset keeps its types, and no scan leaves the watched queues.
THEOREM WaitsetTypes == WSpec => []WTypeOK
<1>1. WInv => WTypeOK
  BY ContentsMeans DEF WInv, Looking, Ringing, Owing, Placed, WTypeOK, TypeOK
<1> QED
  BY <1>1, WInitInv, WStepInv, PTL DEF WSpec

\* The index that wait() returns to a single consumer is that of a queue which
\* still has data when the consumer gets to it, whatever the producers do.
THEOREM IndexHasData == ASSUME OneConsumer PROVE WSpec => []ReturnedHasData
<1>1. WInv /\ ReturnedHasData /\ [WNext]_allVars => ReturnedHasData'
  BY DataStep, Zenon DEF WInv
<1> QED
  BY <1>1, WInitInv, WStepInv, PTL DEF WSpec

\* No watched queue starves behind one of lower index: every round of a
\* consumer takes what was there when the round began, with any number of
\* consumers and with producers that never stop.
THEOREM NoQueueStarves == WSpec => []RoundCollects
<1>1. WInv => RoundCollects
  BY Zenon DEF WInv, Owing, OwedNothing, RoundCollects
<1> QED
  BY <1>1, WInitInv, WStepInv, PTL DEF WSpec

\* Under a waitset too no queue exceeds its capacity.
THEOREM WatchedCapacity == ASSUME EqualSwaps PROVE WSpec => []CapacityBound
<1>1. WInv /\ CapacityBound /\ [WNext]_allVars => CapacityBound'
  BY QueuesKept, Zenon DEF WInv
<1> QED
  BY <1>1, WInitInv, WStepInv, PTL DEF WSpec

\* Queues that are watched, rung for and drained by a waitset behave as
\* bounded queues: the notification outside the lock changes nothing about
\* their contents.
THEOREM WatchedQueuesAreFifo == ASSUME EqualSwaps PROVE WSpec => ImplementsFifo
<1>1. WInit => Fifo!Init
  BY DEF WInit, Init, Fifo!Init
<1>2. WInv /\ CapacityBound /\ [WNext]_allVars => [Fifo!Next]_m_queue
  <2> SUFFICES ASSUME WInv, CapacityBound, [WNext]_allVars PROVE [Fifo!Next]_m_queue
    OBVIOUS
  <2>1. CASE [Next]_vars
    BY <2>1, FifoStep, Zenon DEF WInv
  <2>2. ASSUME NEW q \in Queues, Take(q, TRUE) PROVE Fifo!Next
    BY <2>2, Zenon DEF Take, Fifo!Next, Fifo!Drain
  <2> QED
    BY <2>1, <2>2, QueueStep, Zenon DEF WInv
<1> QED
  BY <1>1, <1>2, WInitInv, WStepInv, WatchedCapacity, PTL DEF WSpec, ImplementsFifo, Fifo!Spec
=============================================================================
