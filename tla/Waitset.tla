------------------------------- MODULE Waitset -------------------------------
(***************************************************************************)
(* lt::Waitset over ThreadSafeQueues.  Producers run push() and pushAll()   *)
(* of ThreadSafeQueue; after m_nonempty they read m_externalCondition and   *)
(* notify what it points to, holding no lock.  A consumer in wait() scans   *)
(* ready() of the watched queues one by one: at entry without m_mutex, and  *)
(* with m_mutex after every wakeup.  A scan that finds nothing goes to      *)
(* sleep on the condition variable m_waitset.  Its caller is the loop of     *)
(* example/waitset: a switch on the index that falls through, so that it     *)
(* takes the returned queue and then every queue of a higher index.          *)
(***************************************************************************)
EXTENDS ThreadSafeQueue

CONSTANTS Consumers,   \* threads that call wait()
          AtStart,     \* the queues given to the constructor, a sequence
          MayDestroy   \* may the waitset be destroyed

ASSUME AtStartAssumption == AtStart \in Seq(Queues)

VARIABLES m_watched,            \* the watched queues, in order of attachment
          m_externalCondition,  \* queues whose condition pointer is set
          reached,              \* producers that read a pointer and will use it
          look,                 \* where each consumer is inside wait() and its loop
          owed,                 \* watched queues that had data when a consumer called
                                \* wait(), and that were not taken since
          exists                \* is the Waitset object alive

waitVars == <<m_watched, m_externalCondition, look, owed, exists>>
allVars == <<vars, waitVars, reached>>

\* out: not inside wait().  entry, rescan: about to ask ready() of queue i.
\* asleep, notified: on m_waitset.  done: wait() has returned i, 0 for -1.
\* taking: about to call popAll() of queue i, fallen through from a lower one.
Steps == {"out", "entry", "rescan", "asleep", "notified", "done", "taking"}
Out == [is |-> "out", i |-> 0]

WInit == /\ Init
         /\ m_watched = AtStart
         /\ m_externalCondition = {AtStart[i] : i \in DOMAIN AtStart}
         /\ reached = {}
         /\ look = [w \in Consumers |-> Out]
         /\ owed = [w \in Consumers |-> {}]
         /\ exists = TRUE

Watched(q) == \E i \in DOMAIN m_watched : m_watched[i] = q

\* m_mutex is held by a consumer that scans after a wakeup.
MutexFree == \A w \in Consumers : look[w].is # "rescan"

-----------------------------------------------------------------------------
(* Producers: the queue's own steps, with its last one refined. *)

Producing(t) == (Produce(t) \/ Notify(t)) /\ UNCHANGED <<waitVars, reached>>

\* swap() between two calls of wait(): it notifies nobody, so a consumer inside
\* wait() would not see what it brings.
Exchanging(t) == /\ \A w \in Consumers : look[w] = Out
                 /\ Exchange(t)
                 /\ UNCHANGED <<waitVars, reached>>

\* if (m_externalCondition): the pointer is read without a lock.
ReadCondition(t) ==
  /\ at[t].is = "signal"
  /\ t \notin reached
  /\ at[t].queue \in m_externalCondition
  /\ reached' = reached \cup {t}
  /\ UNCHANGED <<vars, waitVars>>

NoCondition(t) ==
  /\ at[t].queue \notin m_externalCondition
  /\ t \notin reached
  /\ Signal(t)
  /\ UNCHANGED <<waitVars, reached>>

\* A producer that keeps the pointer it read after push() has returned.
RingTwice(t) ==
  /\ t \in reached
  /\ Signal(t)
  /\ UNCHANGED <<waitVars, reached>>

\* m_externalCondition->notify_one(): one sleeping consumer is woken.
Ring(t) ==
  LET sleepers == {w \in Consumers : look[w].is = "asleep"}
  IN /\ t \in reached
     /\ reached' = reached \ {t}
     /\ Signal(t)
     /\ \/ sleepers = {} /\ UNCHANGED look
        \/ \E w \in sleepers : look' = [look EXCEPT ![w].is = "notified"]
     /\ UNCHANGED <<m_watched, m_externalCondition, owed, exists>>

-----------------------------------------------------------------------------
(* Consumers. *)

\* wait() that goes to sleep without looking first.
EnterAsleep(w) ==
  /\ exists /\ look[w] = Out
  /\ look' = [look EXCEPT ![w] = [is |-> "asleep", i |-> 0]]
  /\ UNCHANGED <<vars, reached, m_watched, m_externalCondition, owed, exists>>

Enter(w) ==
  /\ exists /\ look[w] = Out
  /\ look' = [look EXCEPT ![w] = [is |-> "entry", i |-> 1]]
  /\ owed' = [owed EXCEPT ![w] = {q \in Queues : Watched(q) /\ m_queue[q] # <<>>}]
  /\ UNCHANGED <<vars, reached, m_watched, m_externalCondition, exists>>

\* A scan that returns the index of the queue after the one with data.
ScanPastEnd(w) ==
  LET i == look[w].i
  IN /\ look[w].is \in {"entry", "rescan"}
     /\ i <= Len(m_watched)
     /\ look' = [look EXCEPT ![w] = IF m_queue[m_watched[i]] # <<>>
                                    THEN [is |-> "done", i |-> (i % Len(m_watched)) + 1]
                                    ELSE [@ EXCEPT !.i = i + 1]]
     /\ UNCHANGED <<vars, reached, m_watched, m_externalCondition, owed, exists>>

\* One turn of either scan: ready() takes and releases the queue's mutex.
Scan(w) ==
  LET i == look[w].i
  IN /\ look[w].is \in {"entry", "rescan"}
     /\ i <= Len(m_watched)
     /\ look' = [look EXCEPT ![w] = IF m_queue[m_watched[i]] # <<>>
                                    THEN [is |-> "done", i |-> i]
                                    ELSE [@ EXCEPT !.i = i + 1]]
     /\ UNCHANGED <<vars, reached, m_watched, m_externalCondition, owed, exists>>

\* Nothing found: take m_mutex (it is held already in a rescan) and wait.
Sleep(w) ==
  /\ look[w].is \in {"entry", "rescan"}
  /\ look[w].i > Len(m_watched)
  /\ look[w].is = "entry" => MutexFree
  /\ look' = [look EXCEPT ![w] = [is |-> "asleep", i |-> 0]]
  /\ UNCHANGED <<vars, reached, m_watched, m_externalCondition, owed, exists>>

WakeAnyway(w) ==
  /\ look[w].is = "asleep"
  /\ look' = [look EXCEPT ![w].is = "notified"]
  /\ UNCHANGED <<vars, reached, m_watched, m_externalCondition, owed, exists>>

\* The status is no_timeout: scan again, with m_mutex held.
Rescan(w) ==
  /\ look[w].is = "notified"
  /\ MutexFree
  /\ look' = [look EXCEPT ![w] = [is |-> "rescan", i |-> 1]]
  /\ UNCHANGED <<vars, reached, m_watched, m_externalCondition, owed, exists>>

\* The status is timeout: return -1 without another look.
TimeOut(w) ==
  /\ look[w].is = "asleep"
  /\ MutexFree
  /\ look' = [look EXCEPT ![w] = [is |-> "done", i |-> 0]]
  /\ UNCHANGED <<vars, reached, m_watched, m_externalCondition, owed, exists>>

\* A caller that takes the queue it was told of and no other.
CollectFirstOnly(w) ==
  LET i == look[w].i
  IN /\ look[w].is \in {"done", "taking"}
     /\ i \in 1 .. Len(m_watched)
     /\ Take(m_watched[i], TRUE)
     /\ look' = [look EXCEPT ![w] = Out]
     /\ owed' = [v \in Consumers |-> owed[v] \ {m_watched[i]}]
     /\ UNCHANGED <<pushed, at, reached, m_watched, m_externalCondition, exists>>

\* One case of the caller's switch: popAll() on queue i, and fall through.
Collect(w) ==
  LET i == look[w].i
  IN /\ look[w].is \in {"done", "taking"}
     /\ i \in 1 .. Len(m_watched)
     /\ Take(m_watched[i], TRUE)
     /\ look' = [look EXCEPT ![w] = [is |-> "taking", i |-> i + 1]]
     /\ owed' = [v \in Consumers |-> owed[v] \ {m_watched[i]}]
     /\ UNCHANGED <<pushed, at, reached, m_watched, m_externalCondition, exists>>

\* The end of the switch; an index of -1 has no case.
Leave(w) ==
  /\ look[w].is \in {"done", "taking"}
  /\ look[w].i \notin 1 .. Len(m_watched)
  /\ look' = [look EXCEPT ![w] = Out]
  /\ UNCHANGED <<vars, reached, m_watched, m_externalCondition, owed, exists>>

\* attach() while nobody is inside wait(): m_watched has no lock.
Attach(q) ==
  /\ exists
  /\ \A w \in Consumers : look[w].is \in {"out", "done"}
  /\ \A i \in DOMAIN m_watched : m_watched[i] # q
  /\ m_externalCondition' = m_externalCondition \cup {q}
  /\ m_watched' = Append(m_watched, q)
  /\ UNCHANGED <<vars, reached, look, owed, exists>>

\* ~Waitset() when nobody is inside wait().
Destroy ==
  /\ MayDestroy /\ exists
  /\ \A w \in Consumers : look[w] = Out
  /\ exists' = FALSE
  /\ m_externalCondition' = m_externalCondition \ {m_watched[i] : i \in DOMAIN m_watched}
  /\ UNCHANGED <<vars, reached, look, owed, m_watched>>

-----------------------------------------------------------------------------
Waiting(w) == \/ Enter(w) \/ Scan(w) \/ Sleep(w) \/ WakeAnyway(w) \/ Rescan(w)
              \/ TimeOut(w) \/ Collect(w) \/ Leave(w)

WNext == \/ \E t \in Threads : \/ Producing(t) \/ Exchanging(t)
                               \/ ReadCondition(t) \/ NoCondition(t) \/ Ring(t)
         \/ \E w \in Consumers : Waiting(w)
         \/ \E q \in Queues : Attach(q)
         \/ Destroy

WSpec == WInit /\ [][WNext]_allVars

\* Threads inside push() and wait() keep running, and the consumer's loop
\* calls wait() again.  Spurious wakeups are allowed and never required.
Running ==
  /\ \A t \in Threads : /\ WF_allVars(Notify(t) /\ UNCHANGED <<waitVars, reached>>)
                        /\ WF_allVars(ReadCondition(t) \/ NoCondition(t))
                        /\ WF_allVars(Ring(t))
  /\ \A w \in Consumers : WF_allVars(\/ Enter(w) \/ Scan(w) \/ Sleep(w) \/ Rescan(w)
                                     \/ Collect(w) \/ Leave(w))

\* A wait whose time is up ends.
ClockRuns == \A w \in Consumers : WF_allVars(TimeOut(w))

NoClockSpec == WSpec /\ Running
ClockSpec == WSpec /\ Running /\ ClockRuns
-----------------------------------------------------------------------------
(* Properties. *)

\* Every variable holds values of its type, a producer that read the pointer
\* is still inside push(), and a scan stays within the watched queues.
WTypeOK ==
  /\ TypeOK
  /\ m_watched \in Seq(Queues)
  /\ m_externalCondition \subseteq Queues
  /\ reached \subseteq {t \in Threads : at[t].is = "signal"}
  /\ look \in [Consumers -> [is : Steps, i : Nat]]
  /\ \A w \in Consumers : look[w].i <= Len(m_watched) + 1
  /\ owed \in [Consumers -> SUBSET Queues]
  /\ exists \in BOOLEAN

\* "Index in tuple of queue with data": with a single consumer, the queue
\* whose index wait() returned still has data when the caller gets to it.
ReturnedHasData ==
  \A w \in Consumers : look[w].is = "done" /\ look[w].i > 0
                         => m_queue[m_watched[look[w].i]] # <<>>

\* "Wait for any attached Awaitable to have messages": a consumer asleep on
\* m_waitset while a watched queue has data is woken before its time is up.
WakesForData ==
  \A w \in Consumers, q \in Queues :
    (look[w].is = "asleep" /\ Watched(q) /\ m_queue[q] # <<>>)
      ~> (look[w].is # "asleep" \/ m_queue[q] = <<>>)

\* No watched queue starves: what had data when a consumer called wait() has
\* been taken, by it or by another, when the consumer goes to sleep and when it
\* comes to call wait() again, however fast the producers refill the queues of
\* lower index that wait() prefers.  It is the fall-through that the README
\* calls best practice that makes it so.
RoundCollects ==
  \A w \in Consumers : look[w].is \in {"out", "asleep", "notified"} => owed[w] = {}

\* A wakeup that is lost between the scan and the sleep costs the consumer no
\* more than one timeout: what is in a watched queue is collected in the end,
\* unless the waitset is destroyed.  This is about the consumer coming round
\* again; that each round then takes it, with producers that never rest, is
\* RoundCollects.
DataCollected ==
  \A q \in Queues : (Watched(q) /\ m_queue[q] # <<>>) ~> (m_queue[q] = <<>> \/ ~ exists)
=============================================================================
