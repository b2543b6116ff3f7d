---------------------------- MODULE ActiveObject ----------------------------
(***************************************************************************)
(* lt::ActiveObject: a private thread that polls the job list m_work and    *)
(* runs jobs one at a time, startWork() and stopWork() that control it, and *)
(* the destructor of a class derived from it.  A job runs with m_mutex      *)
(* held, so submitJob() waits while one does, and through the whole drain.  *)
(* A job is the position at which it was submitted.                         *)
(***************************************************************************)
EXTENDS Naturals, Sequences

CONSTANTS Controllers,  \* threads that call startWork() and stopWork()
          MaxJobs,      \* bound: jobs submitted
          MaxStarts,    \* bound: calls of startWork() that start a thread
          MayDestroy    \* may the object be destroyed

ASSUME MaxJobsAssumption == MaxJobs \in Nat

VARIABLES m_work,       \* jobs not yet finished, in order
          m_keepAlive,  \* the flag that controls the work loop
          worker,       \* where the work thread is
          joinable,     \* does m_workThread stand for a thread
          call,         \* where each controller is inside a call
          due,          \* jobs submitted when each controller called stopWork()
          submitted,    \* number of jobs submitted
          ran,          \* jobs that ran, in order
          idle,         \* jobs submitted while no thread was there to run them
          starts,       \* number of calls of startWork() that passed its test
          terminated,   \* did std::terminate end the process
          life          \* of the object: alive, destroying, gone

jobVars == <<m_work, submitted, ran, idle>>
threadVars == <<m_keepAlive, worker, joinable>>
controlVars == <<call, due, starts, terminated, life>>
vars == <<jobVars, threadVars, controlVars>>

\* none: no thread.  loop: at the test of m_keepAlive.  locking: about to take
\* m_mutex in the loop.  running: in a job of the loop.  asleep: polling.
\* stopping: left the loop.  draining: in the drain, m_mutex held.
\* exited: returned, and not yet joined.
WorkerSteps == {"none", "loop", "locking", "running", "asleep", "stopping", "draining", "exited"}
CallSteps == {"out", "starting", "spawning", "joining", "stopped"}
MutexHeld == worker \in {"running", "draining"}

\* The constructor has called startWork().
Init == /\ m_work = <<>> /\ submitted = 0 /\ ran = <<>> /\ idle = {}
        /\ m_keepAlive = TRUE /\ worker = "loop" /\ joinable = TRUE
        /\ call = [c \in Controllers |-> "out"]
        /\ due = [c \in Controllers |-> 0]
        /\ starts = 0 /\ terminated = FALSE /\ life = "alive"

-----------------------------------------------------------------------------
(* Clients. *)

\* submitJob(), whose lock waits for a running job.  Nothing tells it that the
\* work thread has drained the list and ended.
SubmitJob ==
  /\ life = "alive" /\ ~ terminated
  /\ submitted < MaxJobs
  /\ ~ MutexHeld
  /\ submitted' = submitted + 1
  /\ m_work' = Append(m_work, submitted + 1)
  /\ idle' = IF worker \in {"none", "exited"} THEN idle \cup {submitted + 1} ELSE idle
  /\ UNCHANGED <<ran, threadVars, controlVars>>

-----------------------------------------------------------------------------
(* The work thread. *)

\* while (m_keepAlive)
TestKeepAlive ==
  /\ worker = "loop"
  /\ worker' = IF m_keepAlive THEN "locking" ELSE "stopping"
  /\ UNCHANGED <<jobVars, m_keepAlive, joinable, controlVars>>

\* Under the lock: start the front job, or release the lock and sleep.
LookForWork ==
  /\ worker = "locking"
  /\ worker' = IF m_work # <<>> THEN "running" ELSE "asleep"
  /\ UNCHANGED <<jobVars, m_keepAlive, joinable, controlVars>>

\* The newest job taken instead of the oldest.
FinishNewestJob ==
  /\ worker = "running"
  /\ ran' = Append(ran, m_work[Len(m_work)])
  /\ m_work' = SubSeq(m_work, 1, Len(m_work) - 1)
  /\ worker' = "loop"
  /\ UNCHANGED <<submitted, idle, m_keepAlive, joinable, controlVars>>

\* The front job returns, is popped, and the lock is released.
FinishJob ==
  /\ worker = "running"
  /\ ran' = Append(ran, Head(m_work))
  /\ m_work' = Tail(m_work)
  /\ worker' = "loop"
  /\ UNCHANGED <<submitted, idle, m_keepAlive, joinable, controlVars>>

WakeUp ==
  /\ worker = "asleep"
  /\ worker' = "loop"
  /\ UNCHANGED <<jobVars, m_keepAlive, joinable, controlVars>>

\* A thread that ends without looking at the list again.
LeaveAtOnce ==
  /\ worker = "stopping"
  /\ worker' = "exited"
  /\ UNCHANGED <<jobVars, m_keepAlive, joinable, controlVars>>

\* Drain queue: the lock is taken once for all that is left.
BeginDrain ==
  /\ worker = "stopping"
  /\ worker' = "draining"
  /\ UNCHANGED <<jobVars, m_keepAlive, joinable, controlVars>>

DrainJob ==
  /\ worker = "draining"
  /\ m_work # <<>>
  /\ ran' = Append(ran, Head(m_work))
  /\ m_work' = Tail(m_work)
  /\ UNCHANGED <<submitted, idle, threadVars, controlVars>>

EndDrain ==
  /\ worker = "draining"
  /\ m_work = <<>>
  /\ worker' = "exited"
  /\ UNCHANGED <<jobVars, m_keepAlive, joinable, controlVars>>

-----------------------------------------------------------------------------
(* startWork() and stopWork(): the flag is atomic, the calls are not. *)

\* if (m_keepAlive) { return; }
StartTest(c) ==
  /\ life = "alive" /\ ~ terminated
  /\ call[c] = "out"
  /\ ~ m_keepAlive
  /\ starts < MaxStarts
  /\ starts' = starts + 1
  /\ call' = [call EXCEPT ![c] = "starting"]
  /\ UNCHANGED <<jobVars, threadVars, due, terminated, life>>

StartSet(c) ==
  /\ call[c] = "starting"
  /\ m_keepAlive' = TRUE
  /\ call' = [call EXCEPT ![c] = "spawning"]
  /\ UNCHANGED <<jobVars, worker, joinable, due, starts, terminated, life>>

\* m_workThread = std::thread(...): assigning to a joinable thread terminates.
StartThread(c) ==
  /\ call[c] = "spawning"
  /\ call' = [call EXCEPT ![c] = "out"]
  /\ IF joinable THEN terminated' = TRUE /\ UNCHANGED <<worker, joinable, idle>>
     ELSE worker' = "loop" /\ joinable' = TRUE /\ idle' = {} /\ UNCHANGED terminated
  /\ UNCHANGED <<m_work, submitted, ran, m_keepAlive, due, starts, life>>

\* stopWork() that returns without waiting for the thread.
StopDetached(c) ==
  /\ life # "gone" /\ ~ terminated
  /\ call[c] = "out"
  /\ m_keepAlive' = FALSE
  /\ call' = [call EXCEPT ![c] = "stopped"]
  /\ due' = [due EXCEPT ![c] = submitted]
  /\ UNCHANGED <<jobVars, worker, joinable, starts, terminated, life>>

\* stopWork() that joins a thread it did not tell to end.
StopWithoutFlag(c) ==
  /\ life # "gone" /\ ~ terminated
  /\ call[c] = "out"
  /\ \A d \in Controllers : call[d] # "joining"
  /\ call' = [call EXCEPT ![c] = IF joinable THEN "joining" ELSE "stopped"]
  /\ due' = [due EXCEPT ![c] = submitted]
  /\ UNCHANGED <<jobVars, threadVars, starts, terminated, life>>

\* stopWork(): clear the flag, then join if there is a thread to join; without
\* one it returns, whatever is on the list.  No two threads are inside
\* stopWork() at once: joining twice is undefined.
Stop(c) ==
  /\ life # "gone" /\ ~ terminated
  /\ call[c] = "out"
  /\ \A d \in Controllers : call[d] # "joining"
  /\ m_keepAlive' = FALSE
  /\ call' = [call EXCEPT ![c] = IF joinable THEN "joining" ELSE "stopped"]
  /\ due' = [due EXCEPT ![c] = submitted]
  /\ UNCHANGED <<jobVars, worker, joinable, starts, terminated, life>>

\* A join after which the thread still counts as joinable.
JoinKeepingHandle(c) ==
  /\ call[c] = "joining"
  /\ worker = "exited"
  /\ worker' = "none"
  /\ call' = [call EXCEPT ![c] = "stopped"]
  /\ UNCHANGED <<jobVars, m_keepAlive, joinable, due, starts, terminated, life>>

Join(c) ==
  /\ call[c] = "joining"
  /\ worker = "exited"
  /\ worker' = "none" /\ joinable' = FALSE
  /\ call' = [call EXCEPT ![c] = "stopped"]
  /\ UNCHANGED <<jobVars, m_keepAlive, due, starts, terminated, life>>

\* stopWork() returns; if the destructor called it, the object is gone.
Return(c) ==
  /\ call[c] = "stopped"
  /\ call' = [call EXCEPT ![c] = "out"]
  /\ due' = [due EXCEPT ![c] = 0]
  /\ life' = IF life = "destroying" THEN "gone" ELSE life
  /\ UNCHANGED <<jobVars, threadVars, starts, terminated>>

\* The destructor of the derived class ends its members before ~ActiveObject
\* runs.  Nobody else is inside a call by then.
DestroyDerived ==
  /\ MayDestroy /\ life = "alive" /\ ~ terminated
  /\ \A c \in Controllers : call[c] = "out"
  /\ life' = "destroying"
  /\ UNCHANGED <<jobVars, threadVars, call, due, starts, terminated>>

-----------------------------------------------------------------------------
Work == \/ TestKeepAlive \/ LookForWork \/ FinishJob \/ WakeUp
        \/ BeginDrain \/ DrainJob \/ EndDrain

Calling(c) == StartSet(c) \/ StartThread(c) \/ Join(c) \/ Return(c)

Next == \/ SubmitJob
        \/ Work
        \/ \E c \in Controllers : StartTest(c) \/ Stop(c) \/ Calling(c)
        \/ DestroyDerived

Spec == Init /\ [][Next]_vars

\* The work thread runs, jobs end, and a call that has begun goes on.
Fairness == /\ WF_vars(Work)
            /\ \A c \in Controllers : WF_vars(Calling(c))

FairSpec == Spec /\ Fairness
-----------------------------------------------------------------------------
(* Properties. *)

\* Every variable holds values of its type, and m_workThread is joinable
\* exactly while there is a thread that was not joined.
TypeOK ==
  /\ m_work \in Seq(Nat) /\ ran \in Seq(Nat) /\ submitted \in Nat /\ idle \subseteq Nat
  /\ m_keepAlive \in BOOLEAN /\ worker \in WorkerSteps /\ joinable \in BOOLEAN
  /\ call \in [Controllers -> CallSteps]
  /\ due \in [Controllers -> Nat]
  /\ starts \in Nat /\ terminated \in BOOLEAN
  /\ life \in {"alive", "destroying", "gone"}
  /\ joinable <=> worker # "none"

\* "The jobs are run one at a time in order of insertion into the queue": what
\* ran, followed by what is queued, is every job submitted, in order, through
\* any number of stops and restarts.
JobsInOrder == ran \o m_work = [n \in 1 .. submitted |-> n]

\* When stopWork() returns, also from the destructor, every job submitted
\* before the call has run, except those submitted since an earlier stopWork()
\* had drained the list and before any startWork().  These it leaves, although
\* the header says of stopWork() "finishing any pending jobs on the caller's
\* thread" and of the destructor "finishes any pending jobs": only the work
\* thread runs jobs.
StopFinishes ==
  \A c \in Controllers : call[c] = "stopped" =>
    \A n \in 1 .. due[c] : n <= Len(ran) \/ n \in idle

\* As long as one thread controls the object, startWork() never assigns to a thread that is
\* still joinable, so it never terminates the process.
NoTerminate == ~ terminated

\* A job submitted while isWorking() runs in the end, even if the object is
\* stopped, restarted or destroyed meanwhile.
EveryJobRuns ==
  \A n \in 1 .. MaxJobs : (submitted >= n /\ m_keepAlive) ~> (Len(ran) >= n)

\* stopWork() returns: the drain is not extended for ever by submitJob().
StopReturns == \A c \in Controllers : call[c] = "joining" ~> call[c] = "stopped"
=============================================================================
