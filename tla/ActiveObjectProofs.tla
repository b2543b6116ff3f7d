------------------------- MODULE ActiveObjectProofs -------------------------
(***************************************************************************)
(* Theorems about ActiveObject, for any number of jobs and restarts.        *)
(***************************************************************************)
EXTENDS ActiveObject, SequenceTheorems, TLAPS

\* The part of the argument that holds for any number of controllers: the
\* work thread is inside a job only when there is one.
Busy == worker = "running" => m_work # <<>>

IInv == TypeOK /\ Busy

\* The constructor establishes the invariant.
LEMMA InvInit == Init => IInv
<1> SUFFICES ASSUME Init PROVE IInv
  OBVIOUS
<1>1. /\ m_work \in Seq(Nat) /\ ran \in Seq(Nat) /\ submitted \in Nat /\ starts \in Nat /\ idle \subseteq Nat
      /\ due \in [Controllers -> Nat]
  BY DEF Init
<1>2. /\ m_keepAlive \in BOOLEAN /\ worker \in WorkerSteps /\ joinable \in BOOLEAN
      /\ call \in [Controllers -> CallSteps] /\ terminated \in BOOLEAN
      /\ life \in {"alive", "destroying", "gone"} /\ (joinable <=> worker # "none")
      /\ Busy
  BY Zenon DEF Init, WorkerSteps, CallSteps, Busy
<1> QED
  BY <1>1, <1>2 DEF IInv, TypeOK

\* Every step of workers, controllers and clients keeps it.
LEMMA InvStep == IInv /\ [Next]_vars => IInv'
<1> SUFFICES ASSUME IInv, [Next]_vars PROVE IInv'
  OBVIOUS
<1> USE DEF IInv, Busy, WorkerSteps, CallSteps, jobVars, threadVars, controlVars
<1>1. CASE SubmitJob
  BY <1>1 DEF SubmitJob, TypeOK, MutexHeld
<1>2. CASE TestKeepAlive \/ LookForWork \/ WakeUp \/ BeginDrain \/ EndDrain
  BY <1>2, Zenon DEF TestKeepAlive, LookForWork, WakeUp, BeginDrain, EndDrain, TypeOK
<1>3. CASE FinishJob \/ DrainJob
  <2>1. /\ m_work # <<>> /\ ran' = Append(ran, Head(m_work)) /\ m_work' = Tail(m_work)
        /\ worker' \in {"loop", "draining"} /\ worker \in {"running", "draining"}
        /\ UNCHANGED <<submitted, idle, m_keepAlive, joinable, controlVars>>
    BY <1>3 DEF FinishJob, DrainJob
  <2>2. m_work \in Seq(Nat) /\ ran \in Seq(Nat)
    BY DEF TypeOK
  <2>3. Head(m_work) \in Nat /\ Tail(m_work) \in Seq(Nat)
    BY <2>1, <2>2
  <2>4. ran' \in Seq(Nat) /\ m_work' \in Seq(Nat)
    BY <2>1, <2>2, <2>3
  <2> QED
    BY <2>1, <2>4 DEF TypeOK
<1>4. ASSUME NEW c \in Controllers, StartTest(c) \/ Stop(c) \/ Calling(c) PROVE IInv'
  <2>1. CASE StartTest(c)
    BY <2>1 DEF StartTest, TypeOK
  <2>2. CASE Stop(c)
    BY <2>2, Zenon DEF Stop, TypeOK
  <2>3. CASE StartSet(c)
    BY <2>3 DEF StartSet, TypeOK
  <2>4. CASE StartThread(c)
    BY <2>4, Zenon DEF StartThread, TypeOK
  <2>5. CASE Join(c)
    BY <2>5, Zenon DEF Join, TypeOK
  <2>6. CASE Return(c)
    BY <2>6 DEF Return, TypeOK
  <2> QED
    BY <1>4, <2>1, <2>2, <2>3, <2>4, <2>5, <2>6 DEF Calling
<1>5. CASE DestroyDerived
  BY <1>5 DEF DestroyDerived, TypeOK
<1>6. CASE UNCHANGED vars
  BY <1>6 DEF vars, TypeOK
<1> QED
  BY <1>1, <1>2, <1>3, <1>4, <1>5, <1>6 DEF Next, Work

\* So it holds throughout.
LEMMA Invariant == Spec => []IInv
  BY InvInit, InvStep, PTL DEF Spec

\* Type correctness of the active object's state.
THEOREM TypeCorrect == Spec => []TypeOK
  BY Invariant, PTL DEF IInv

-----------------------------------------------------------------------------
\* Moving the front of one sequence to the back of another keeps what the two
\* hold together.
LEMMA MoveFront ==
  ASSUME NEW s \in Seq(Nat), NEW u \in Seq(Nat), u # <<>>
  PROVE  Append(s, Head(u)) \o Tail(u) = s \o u
<1>1. Head(u) \in Nat /\ Tail(u) \in Seq(Nat) /\ <<Head(u)>> \in Seq(Nat)
  OBVIOUS
<1>2. Append(s, Head(u)) = s \o <<Head(u)>>
  BY <1>1, AppendIsConcat
<1>3. (s \o <<Head(u)>>) \o Tail(u) = s \o (<<Head(u)>> \o Tail(u))
  BY <1>1, ConcatAssociative, SMTT(20)
<1>4. <<Head(u)>> \o Tail(u) = u
  <2>1. 1 \in 1 .. Len(u) /\ Len(u) \in 1 .. Len(u) /\ Head(u) = u[1]
    OBVIOUS
  <2>2. SubSeq(u, 1, Len(u)) = <<u[1]>> \o SubSeq(u, 1 + 1, Len(u))
    BY <2>1, SubSeqRecursiveFirst
  <2>3. SubSeq(u, 1, Len(u)) = u /\ Tail(u) = SubSeq(u, 2, Len(u)) /\ 1 + 1 = 2
    BY SubSeqFull, TailIsSubSeq
  <2> QED
    BY <2>1, <2>2, <2>3
<1> QED
  BY <1>2, <1>3, <1>4, Zenon

\* JobsInOrder is inductive.
LEMMA OrderStep == IInv /\ JobsInOrder /\ [Next]_vars => JobsInOrder'
<1> SUFFICES ASSUME IInv, JobsInOrder, [Next]_vars PROVE JobsInOrder'
  OBVIOUS
<1>1. m_work \in Seq(Nat) /\ ran \in Seq(Nat) /\ submitted \in Nat
  BY DEF IInv, TypeOK
<1>2. CASE SubmitJob
  <2> DEFINE k == submitted + 1
             all == [n \in 1 .. submitted |-> n]
  <2>1. submitted' = k /\ m_work' = Append(m_work, k) /\ ran' = ran /\ k \in Nat
    BY <1>1, <1>2 DEF SubmitJob
  <2>2. /\ Append(m_work, k) = m_work \o <<k>> /\ <<k>> \in Seq(Nat)
        /\ ran \o (m_work \o <<k>>) = (ran \o m_work) \o <<k>>
    <3>1. <<k>> \in Seq(Nat)
      BY <2>1
    <3> QED
      BY <1>1, <2>1, <3>1, AppendIsConcat, ConcatAssociative, SMTT(20)
  <2>3. ran \o m_work = all
    BY DEF JobsInOrder
  <2>4. all \in Seq(Nat) /\ Len(all) = submitted
    <3>1. all \in [1 .. submitted -> Nat]
      BY <1>1
    <3> QED
      BY <1>1, <3>1
  <2>5. all \o <<k>> = Append(all, k)
    BY <2>1, <2>4, AppendIsConcat, Zenon
  <2>6. Append(all, k) = [n \in 1 .. k |-> n]
    <3>1. \A i \in 1 .. submitted : all[i] = i
      OBVIOUS
    <3> HIDE DEF all
    <3>2. Append(all, k) \in Seq(Nat) /\ Len(Append(all, k)) = k
      BY <1>1, <2>1, <2>4
    <3>3. \A i \in 1 .. k : Append(all, k)[i] = i
      <4>1. /\ Append(all, k)[Len(all) + 1] = k
            /\ \A i \in 1 .. Len(all) : Append(all, k)[i] = all[i]
        BY <2>4
      <4>2. \A i \in 1 .. k : i = submitted + 1 \/ i \in 1 .. submitted
        BY <1>1
      <4> QED
        BY <2>4, <3>1, <4>1, <4>2
    <3>4. Append(all, k) \in [1 .. k -> Nat] /\ [n \in 1 .. k |-> n] \in [1 .. k -> Nat]
      <4>1. PICK a \in Seq(Nat) : a = Append(all, k) /\ Len(a) = k
        BY <3>2, Zenon
      <4>2. a \in [1 .. k -> Nat]
        BY <4>1, LenProperties, Zenon
      <4> QED
        BY <2>1, <4>1, <4>2
    <3> QED
      BY <3>3, <3>4, Zenon
  <2> QED
    BY <2>1, <2>2, <2>3, <2>5, <2>6, Zenon DEF JobsInOrder
<1>3. CASE FinishJob \/ DrainJob
  <2>1. /\ m_work # <<>> /\ ran' = Append(ran, Head(m_work)) /\ m_work' = Tail(m_work)
        /\ submitted' = submitted
    BY <1>3 DEF FinishJob, DrainJob, IInv, Busy
  <2>2. ran' \o m_work' = ran \o m_work
    BY <1>1, <2>1, MoveFront, Zenon
  <2> QED
    BY <2>1, <2>2 DEF JobsInOrder
<1>4. CASE UNCHANGED <<m_work, submitted, ran>>
  BY <1>4 DEF JobsInOrder
<1> QED
  BY <1>2, <1>3, <1>4
  DEF Next, Work, Calling, TestKeepAlive, LookForWork, WakeUp, BeginDrain, EndDrain, StartTest, Stop,
      StartSet, StartThread, Join, Return, DestroyDerived, vars, jobVars

\* Jobs run in the order they were submitted and none is lost or run twice,
\* whatever the controllers do.
THEOREM OrderKept == Spec => []JobsInOrder
<1>1. Init => JobsInOrder
  <2> SUFFICES ASSUME Init PROVE <<>> \o <<>> = [n \in 1 .. 0 |-> n]
    BY DEF Init, JobsInOrder
  <2>1. <<>> \o <<>> = <<>>
    BY ConcatEmptySeq, EmptySeq
  <2>2. <<>> = [n \in 1 .. 0 |-> n]
    OBVIOUS
  <2> QED
    BY <2>1, <2>2
<1> QED
  BY <1>1, OrderStep, Invariant, PTL DEF Spec

-----------------------------------------------------------------------------
\* One controlling thread c: where the thread is, given where c is.
OneController == \E c : Controllers = {c}

Control(c) ==
  /\ call[c] = "out" => IF joinable THEN m_keepAlive /\ worker \in {"loop", "locking", "running", "asleep"}
                                    ELSE ~ m_keepAlive
  /\ call[c] \in {"starting", "stopped"} => ~ joinable /\ ~ m_keepAlive
  /\ call[c] = "spawning" => ~ joinable /\ m_keepAlive
  /\ call[c] = "joining" => joinable /\ ~ m_keepAlive
  /\ ~ terminated

\* What stopWork() owes its caller: once the thread has drained the list, only
\* jobs submitted after that are left.
Debt(c) ==
  /\ due[c] <= submitted
  /\ worker \in {"none", "exited"} => \A n \in 1 .. submitted : n <= Len(ran) \/ n \in idle

\* What stopWork() and startWork() keep true of the only controlling thread.
LEMMA ControlStep ==
  ASSUME NEW c, Controllers = {c}, IInv, Control(c), [Next]_vars
  PROVE  Control(c)'
<1> USE DEF jobVars, threadVars, controlVars, Control
<1>0. /\ call \in [{c} -> CallSteps] /\ joinable \in BOOLEAN /\ m_keepAlive \in BOOLEAN
      /\ worker \in WorkerSteps /\ (joinable <=> worker # "none")
  BY DEF IInv, TypeOK
<1>1. CASE SubmitJob \/ DestroyDerived \/ UNCHANGED vars
  BY <1>1 DEF SubmitJob, DestroyDerived, vars
<1>2. CASE Work
  BY <1>0, <1>2 DEF Work, TestKeepAlive, LookForWork, FinishJob, WakeUp, BeginDrain, DrainJob,
     EndDrain, WorkerSteps, CallSteps
<1>3. CASE StartTest(c) \/ Stop(c)
  BY <1>0, <1>3 DEF StartTest, Stop
<1>4. CASE Calling(c)
  BY <1>0, <1>4 DEF Calling, StartSet, StartThread, Join, Return
<1> QED
  BY <1>1, <1>2, <1>3, <1>4 DEF Next

\* What the loop and the drain of the work thread keep true of the jobs stopWork()
\* waits for.
LEMMA DebtStep ==
  ASSUME NEW c, Controllers = {c}, IInv, JobsInOrder, Control(c), Debt(c), [Next]_vars
  PROVE  Debt(c)'
<1> USE DEF jobVars, threadVars, controlVars, Debt
<1>0. /\ call \in [{c} -> CallSteps] /\ due \in [{c} -> Nat] /\ submitted \in Nat
      /\ ran \in Seq(Nat) /\ m_work \in Seq(Nat) /\ Len(ran) \in Nat
      /\ (joinable <=> worker # "none")
  BY DEF IInv, TypeOK
<1>1. m_work = <<>> => Len(ran) = submitted
  <2> SUFFICES ASSUME m_work = <<>> PROVE Len(ran) = submitted
    OBVIOUS
  <2>1. ran = [n \in 1 .. submitted |-> n]
    BY <1>0, ConcatEmptySeq DEF JobsInOrder
  <2> QED
    BY <1>0, <2>1
<1>2. CASE SubmitJob
  <2>1. submitted' = submitted + 1 /\ UNCHANGED <<ran, worker, due>>
    BY <1>2 DEF SubmitJob
  <2>2. worker \in {"none", "exited"} => idle' = idle \cup {submitted + 1}
    BY <1>2 DEF SubmitJob
  <2>3. \A n \in 1 .. submitted + 1 : n \in 1 .. submitted \/ n = submitted + 1
    BY <1>0
  <2> QED
    BY <1>0, <2>1, <2>2, <2>3
<1>3. CASE DestroyDerived \/ UNCHANGED vars
  BY <1>0, <1>3 DEF DestroyDerived, vars
<1>4. CASE TestKeepAlive \/ LookForWork \/ WakeUp \/ BeginDrain
  BY <1>0, <1>4 DEF TestKeepAlive, LookForWork, WakeUp, BeginDrain
<1>5. CASE EndDrain
  BY <1>0, <1>1, <1>5 DEF EndDrain
<1>6. CASE FinishJob \/ DrainJob
  BY <1>0, <1>6 DEF FinishJob, DrainJob
<1>7. CASE StartTest(c) \/ StartSet(c) \/ StartThread(c) \/ Return(c)
  BY <1>0, <1>7 DEF StartTest, StartSet, StartThread, Return, Control
<1>8. CASE Stop(c)
  BY <1>0, <1>8 DEF Stop
<1>9. CASE Join(c)
  BY <1>0, <1>9 DEF Join
<1> QED
  BY <1>2, <1>3, <1>4, <1>5, <1>6, <1>7, <1>8, <1>9 DEF Next, Work, Calling

\* One controlling thread: startWork() never terminates the process, and
\* stopWork() returns, with or without a thread to join, only when every job
\* submitted before it has run or was submitted after the list was drained.
THEOREM StopIsComplete ==
  ASSUME OneController
  PROVE  Spec => [](StopFinishes /\ NoTerminate)
<1>1. PICK c : Controllers = {c}
  BY DEF OneController
<1>2. Init => Control(c) /\ Debt(c)
  BY <1>1 DEF Init, Control, Debt
<1>3. IInv /\ JobsInOrder /\ Control(c) /\ Debt(c) /\ [Next]_vars => Control(c)' /\ Debt(c)'
  BY <1>1, ControlStep, DebtStep
<1>4. IInv /\ Control(c) /\ Debt(c) => StopFinishes /\ NoTerminate
  <2> SUFFICES ASSUME IInv, Control(c), Debt(c), call[c] = "stopped", NEW n \in 1 .. due[c]
               PROVE  n <= Len(ran) \/ n \in idle
    BY <1>1 DEF StopFinishes, NoTerminate, Control
  <2>1. worker = "none"
    BY DEF Control, IInv, TypeOK
  <2>2. n \in 1 .. submitted
    BY <1>1 DEF Debt, IInv, TypeOK
  <2> QED
    BY <2>1, <2>2, Zenon DEF Debt
<1> QED
  BY <1>2, <1>3, <1>4, Invariant, OrderKept, PTL DEF Spec
=============================================================================
