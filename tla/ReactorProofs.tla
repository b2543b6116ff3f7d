--------------------------- MODULE ReactorProofs ---------------------------
(* Proofs about Reactor, for every bound and every set of user marks. *)
EXTENDS Reactor, SequenceTheorems, TLAPS

\* What groomSessionList() leaves is a session table: each entry is untouched
\* or erased.
LEMMA GroomingKeeps ==
  ASSUME NEW table \in [Ids -> SessionData \cup {Absent}], NEW left \in Groomings(table)
  PROVE  /\ left \in [Ids -> SessionData \cup {Absent}]
         /\ \A k \in Ids : left[k] = table[k] \/ left[k] = Absent
<1>1. PICK gone : left = Erased(table, gone)
  BY DEF Groomings
<1> QED BY <1>1 DEF Erased

\* The marks are integers, and a new session is one of the client's records.
LEMMA MarkFacts ==
  /\ Marks \subseteq Int
  /\ PROG_START \in Marks /\ PROG_FAILED \in Marks /\ PROG_SUCCESS \in Marks
  /\ UserMarks \subseteq Marks
  /\ NewSession \in SessionData
  /\ Absent \notin SessionData
<1>1. UserMarks \subseteq 1 .. 100
  BY UserMarksAssumption DEF PROG_START, PROG_SUCCESS
<1> QED BY <1>1 DEF Marks, NewSession, SessionData, Absent, PROG_START, PROG_FAILED,
           PROG_SUCCESS, PROG_SENT, PROG_UNKNOWN

\* Taking the first sample of a topic leaves a queue of the same kind.
LEMMA TakeFirst ==
  ASSUME NEW S, NEW s \in Seq(S), s # <<>>
  PROVE  Head(s) \in S /\ Tail(s) \in Seq(S)
BY HeadTailProperties

\* The initial state has the types.
LEMMA TypeInit == Init => TypeOK
<1> SUFFICES ASSUME Init PROVE TypeOK
  OBVIOUS
<1>1. \A S : <<>> \in Seq(S)
  BY EmptySeq
<1>2. Len(commands) = 0
  BY EmptySeq DEF Init
<1>3. m_session \in [Ids -> SessionData \cup {Absent}] /\ m_state \in [Ids -> State]
  BY DEF Init, State
<1>4. 0 \in 0 .. MaxSessions
  BY BoundsAssumption
<1>5. commands \in Seq(Ids) /\ replies \in Seq(Ids) /\ m_pending \in Seq(Ids)
      /\ progress \in Seq([id : Ids, mark : Marks])
  BY <1>1 DEF Init
<1>6. reqTaken \in {0} \cup sent /\ cmdTaken \in 0 .. Len(commands)
  BY <1>2 DEF Init
<1>7. /\ m_lastId \in 0 .. MaxSessions /\ held \subseteq 1 .. m_lastId /\ sent \subseteq 1 .. m_lastId
      /\ discovered \in BOOLEAN /\ up \in BOOLEAN /\ open \subseteq Ids /\ stopped \subseteq Ids
      /\ amiss \subseteq Ids /\ events \in Nat
  BY <1>4, Zenon DEF Init
<1> QED BY <1>3, <1>5, <1>6, <1>7 DEF TypeOK

\* The numbers of sessions are numbers.
LEMMA NumberFacts ==
  ASSUME TypeOK PROVE reqTaken \in Int /\ reqTaken \in 0 .. m_lastId /\ sent \subseteq Ids /\ Ids \subseteq Int
<1>1. m_lastId \in 0 .. MaxSessions /\ sent \subseteq 1 .. m_lastId /\ reqTaken \in {0} \cup sent
  BY DEF TypeOK
<1>2. 1 .. m_lastId \subseteq Ids /\ 1 .. m_lastId \subseteq Int /\ Ids \subseteq Int
      /\ 1 .. m_lastId \subseteq 0 .. m_lastId /\ 0 \in 0 .. m_lastId /\ 0 \in Int
  BY <1>1, BoundsAssumption DEF Ids
<1> QED BY <1>1, <1>2, Zenon

\* What is published on a topic has the topic's type.
LEMMA PublishedType ==
  ASSUME NEW S, NEW topic \in Seq(S), NEW sample \in S, NEW refused \in Choice
  PROVE  /\ Published(topic, sample, refused) \in Seq(S)
         /\ Published(topic, sample, refused) \in {topic, Append(topic, sample)}
         /\ Len(topic) \in Nat
         /\ Len(Published(topic, sample, refused)) \in {Len(topic), Len(topic) + 1}
BY AppendProperties, LenProperties DEF Published

\* Spending counts up.
LEMMA SpendType == ASSUME events \in Nat, NEW n \in Nat, Spend(n) PROVE events' \in Nat
BY DEF Spend

\* A step of the client keeps the types.
LEMMA TypeClient == TypeOK /\ ClientStep => TypeOK'
<1> SUFFICES ASSUME TypeOK, ClientStep PROVE TypeOK'
  OBVIOUS
<1> USE MarkFacts, BoundsAssumption
<1>1. CASE Request
  <2>1. PICK table \in Groomings(m_session) :
          m_session' = [table EXCEPT ![m_lastId + 1] = NewSession]
    BY <1>1, Zenon DEF Request
  <2>2. table \in [Ids -> SessionData \cup {Absent}]
    BY <2>1, GroomingKeeps, Zenon DEF TypeOK
  <2>3. m_session' \in [Ids -> SessionData \cup {Absent}]
    BY <2>1, <2>2, Zenon
  <2>4. PICK refused \in Choice :
          Spend(refused) /\ sent' = IF refused = 1 THEN sent ELSE sent \cup {m_lastId + 1}
    BY <1>1, Zenon DEF Request
  <2>5. events' \in Nat
    BY <2>4, SpendType DEF TypeOK, Choice
  <2>6. /\ m_lastId' \in 0 .. MaxSessions /\ held' \subseteq 1 .. m_lastId'
        /\ sent' \subseteq 1 .. m_lastId' /\ reqTaken' \in {0} \cup sent'
    BY <1>1, <2>4 DEF Request, TypeOK, serverVars
  <2> QED BY <1>1, <2>3, <2>5, <2>6 DEF Request, TypeOK, serverVars
<1>2. CASE OnProgress
  <2>1. Head(progress) \in [id : Ids, mark : Marks] /\ Tail(progress) \in Seq([id : Ids, mark : Marks])
    BY <1>2, TakeFirst, Zenon DEF OnProgress, TypeOK
  <2>2. m_session' \in [Ids -> SessionData \cup {Absent}]
    <3>1. CASE m_session[Head(progress).id] = Absent
      BY <1>2, <3>1 DEF OnProgress, TypeOK
    <3>2. CASE m_session[Head(progress).id] # Absent
      <4>1. m_session[Head(progress).id] \in SessionData
        BY <2>1, <3>2 DEF TypeOK
      <4>2. [m_session[Head(progress).id] EXCEPT !.progress = Head(progress).mark] \in SessionData
        BY <2>1, <4>1, Zenon DEF SessionData
      <4> QED BY <1>2, <2>1, <3>2, <4>2, SMTT(20) DEF OnProgress, TypeOK
    <3> QED BY <3>1, <3>2
  <2> QED BY <1>2, <2>1, <2>2, SMTT(20) DEF OnProgress, TypeOK, serverVars
<1>3. CASE OnReply
  <2>1. Head(replies) \in Ids /\ Tail(replies) \in Seq(Ids)
    BY <1>3, TakeFirst DEF OnReply, TypeOK
  <2>2. [progress |-> PROG_SUCCESS, reply |-> "ready"] \in SessionData
    BY DEF SessionData
  <2> QED BY <1>3, <2>1, <2>2 DEF OnReply, TypeOK, serverVars
<1>4. CASE Discover
  BY <1>4 DEF Discover, TypeOK, serverVars
<1>5. ASSUME NEW k \in Ids, Get(k) PROVE TypeOK'
  <2>1. m_session[k] \in SessionData
    BY <1>5 DEF Get, TypeOK, Absent
  <2>2. [m_session[k] EXCEPT !.reply = "moved"] \in SessionData
    BY <2>1 DEF SessionData
  <2> QED BY <1>5, <2>2 DEF Get, TypeOK, serverVars
<1>6. ASSUME NEW k \in Ids, Cancel(k) PROVE TypeOK'
  <2>1. PICK refused \in Choice : Spend(refused) /\ commands' = Published(commands, k, refused)
    BY <1>6, Zenon DEF Cancel
  <2>2. /\ commands' \in Seq(Ids) /\ Len(commands) \in Nat
        /\ Len(commands') \in {Len(commands), Len(commands) + 1}
    BY <2>1, PublishedType, Zenon DEF TypeOK
  <2>3. events' \in Nat
    BY <2>1, SpendType DEF TypeOK, Choice
  <2>4. m_session' \in [Ids -> SessionData \cup {Absent}]
    BY <1>6 DEF Cancel, Erased, TypeOK
  <2>5. cmdTaken' \in 0 .. Len(commands')
    BY <1>6, <2>2 DEF Cancel, TypeOK, serverVars
  <2> QED BY <1>6, <2>2, <2>3, <2>4, <2>5, Zenon DEF Cancel, TypeOK, serverVars
<1>7. ASSUME NEW k \in Ids, DestroySession(k) PROVE TypeOK'
  <2>1. PICK copy \in Choice, refused \in Choice :
          /\ Spend(copy + refused)
          /\ held' = IF copy = 1 THEN held ELSE held \ {k}
          /\ commands' = IF m_session[k].progress \in PROG_SENT .. PROG_SUCCESS
                         THEN Published(commands, k, refused) ELSE commands
    BY <1>7, Zenon DEF DestroySession
  <2>2. commands' = commands \/ commands' = Published(commands, k, refused)
    BY <2>1, Zenon
  <2>3. /\ commands' \in Seq(Ids) /\ Len(commands) \in Nat
        /\ Len(commands') \in {Len(commands), Len(commands) + 1}
    <3>1. commands \in Seq(Ids)
      BY DEF TypeOK
    <3>2. /\ Published(commands, k, refused) \in Seq(Ids) /\ Len(commands) \in Nat
          /\ Len(Published(commands, k, refused)) \in {Len(commands), Len(commands) + 1}
      BY <3>1, PublishedType, Zenon
    <3>3. CASE commands' = commands
      BY <3>1, <3>2, <3>3, Zenon
    <3>4. CASE commands' = Published(commands, k, refused)
      BY <3>2, <3>4, Zenon
    <3> QED BY <2>2, <3>3, <3>4
  <2>4. events' \in Nat
    <3>1. copy + refused \in Nat
      BY DEF Choice
    <3> QED BY <2>1, <3>1, SpendType, Zenon DEF TypeOK
  <2>5. Erased(m_session, {k}) \in [Ids -> SessionData \cup {Absent}]
    BY DEF Erased, TypeOK
  <2>6. m_session' \in [Ids -> SessionData \cup {Absent}]
    BY <1>7, <2>5, GroomingKeeps, Zenon DEF DestroySession
  <2>7. held' \subseteq 1 .. m_lastId
    BY <2>1, Zenon DEF TypeOK
  <2>8. cmdTaken' \in 0 .. Len(commands')
    BY <1>7, <2>3 DEF DestroySession, TypeOK, serverVars
  <2> QED BY <1>7, <2>3, <2>4, <2>6, <2>7, <2>8, Zenon DEF DestroySession, TypeOK, serverVars
<1> QED BY <1>1, <1>2, <1>3, <1>4, <1>5, <1>6, <1>7 DEF ClientStep

\* What a report does to the progress topic.
LEMMA ReportType ==
  ASSUME TypeOK, NEW k \in Ids, NEW mark \in Marks, NEW refused \in Choice, Report(k, mark, refused)
  PROVE  progress' \in Seq([id : Ids, mark : Marks]) /\ amiss' \subseteq Ids
<1>1. [id |-> k, mark |-> mark] \in [id : Ids, mark : Marks]
  OBVIOUS
<1>2. progress' \in Seq([id : Ids, mark : Marks])
  BY <1>1, PublishedType, Zenon DEF Report, TypeOK
<1>3. amiss' \subseteq Ids
  BY Zenon DEF Report, TypeOK
<1> QED BY <1>2, <1>3

\* What progress() does to the server's table and the progress topic.
LEMMA AdvanceType ==
  ASSUME TypeOK, NEW k \in Ids, NEW mark \in Marks, NEW refused \in Choice,
         Advance(k, mark, refused)
  PROVE  /\ m_state' \in [Ids -> State] /\ progress' \in Seq([id : Ids, mark : Marks])
         /\ amiss' \subseteq Ids
<1>1. progress' \in Seq([id : Ids, mark : Marks]) /\ amiss' \subseteq Ids
  BY ReportType, Zenon DEF Advance
<1>2. m_state' \in [Ids -> State]
  BY DEF Advance, TypeOK, State
<1> QED BY <1>1, <1>2

\* A step of the server keeps the types.
LEMMA TypeServer == TypeOK /\ ServerStep => TypeOK'
<1> SUFFICES ASSUME TypeOK, ServerStep PROVE TypeOK'
  OBVIOUS
<1> USE MarkFacts, BoundsAssumption
<1>1. CASE OnCommand
  <2>1. Len(commands) \in Nat
    BY LenProperties DEF TypeOK
  <2>2. cmdTaken + 1 \in 1 .. Len(commands)
    BY <1>1, <2>1 DEF OnCommand, TypeOK
  <2>3. commands[cmdTaken + 1] \in Ids
    BY <2>2, ElementOfSeq DEF TypeOK
  <2> QED BY <1>1, <2>1, <2>2, <2>3 DEF OnCommand, TypeOK, clientVars, State
<1>2. CASE OnRequest
  <2>1. PICK k \in sent : reqTaken' = k /\ m_pending' = Append(m_pending, k)
    BY <1>2, Zenon DEF OnRequest
  <2>2. k \in Ids
    BY DEF TypeOK, Ids
  <2>3. m_pending' \in Seq(Ids)
    BY <2>1, <2>2, AppendProperties DEF TypeOK
  <2>4. UNCHANGED <<clientVars, commands, progress, replies, up, cmdTaken, m_state, open, stopped,
                    amiss, events>>
    BY <1>2, Zenon DEF OnRequest
  <2> QED BY <2>1, <2>3, <2>4 DEF TypeOK, clientVars
<1>3. CASE GetPendingSession
  <2>1. Head(m_pending) \in Ids /\ Tail(m_pending) \in Seq(Ids)
    BY <1>3, TakeFirst DEF GetPendingSession, TypeOK
  <2>2. PICK refused \in Choice : Spend(refused) /\ Advance(Head(m_pending), PROG_START, refused)
    BY <1>3, Zenon DEF GetPendingSession
  <2>3. /\ m_state' \in [Ids -> State] /\ progress' \in Seq([id : Ids, mark : Marks])
        /\ amiss' \subseteq Ids
    BY <2>1, <2>2, AdvanceType, Zenon
  <2>4. events' \in Nat
    BY <2>2, SpendType DEF TypeOK, Choice
  <2> QED BY <1>3, <2>1, <2>3, <2>4 DEF GetPendingSession, TypeOK, clientVars
<1>4. CASE Crash
  <2>1. \A S : <<>> \in Seq(S)
    BY EmptySeq
  <2>2. m_pending' \in Seq(Ids) /\ replies' \in Seq(Ids)
        /\ progress' \in Seq([id : Ids, mark : Marks])
    BY <1>4, <2>1 DEF Crash
  <2>3. m_state' \in [Ids -> State]
    BY <1>4 DEF Crash, State
  <2>4. cmdTaken' \in 0 .. Len(commands')
    <3>1. Len(commands) \in Nat
      BY LenProperties DEF TypeOK
    <3>2. commands' = commands /\ cmdTaken' = 0
      BY <1>4 DEF Crash
    <3> QED BY <3>1, <3>2
  <2>5. reqTaken' \in {0} \cup sent' /\ events' \in Nat /\ up' \in BOOLEAN
        /\ open' \subseteq Ids /\ stopped' \subseteq Ids /\ amiss' \subseteq Ids
    <3>1. events' \in Nat
      BY <1>4, SpendType DEF Crash, TypeOK
    <3>2. reqTaken' \in {0} \cup sent'
      BY <1>4 DEF Crash
    <3>3. up' = FALSE /\ open' = {} /\ stopped' = {} /\ amiss' = {}
      BY <1>4 DEF Crash
    <3> QED BY <3>1, <3>2, <3>3, Zenon
  <2> QED BY <1>4, <2>2, <2>3, <2>4, <2>5 DEF Crash, TypeOK, clientVars
<1>5. CASE Start
  BY <1>5 DEF Start, TypeOK, clientVars
<1>6. ASSUME NEW k \in Ids, Reply(k) PROVE TypeOK'
  <2>1. PICK refused \in Choice, noReply \in Choice :
          /\ Spend(1 + refused + noReply)
          /\ Report(k, PROG_SUCCESS, refused) /\ replies' = Published(replies, k, noReply)
    BY <1>6, Zenon DEF Reply
  <2>2. progress' \in Seq([id : Ids, mark : Marks]) /\ amiss' \subseteq Ids
    BY <2>1, ReportType, Zenon
  <2>3. replies' \in Seq(Ids)
    BY <2>1, PublishedType, Zenon DEF TypeOK
  <2>4. events' \in Nat
    <3>1. 1 + refused + noReply \in Nat
      BY DEF Choice
    <3> QED BY <2>1, <3>1, SpendType, Zenon DEF TypeOK
  <2> QED BY <1>6, <2>2, <2>3, <2>4 DEF Reply, TypeOK, clientVars, State
<1>a. ASSUME NEW k \in Ids, NEW copy \in Choice, NEW refused \in Choice, GiveUp(k, copy, refused),
             m_state' \in [Ids -> State], progress' \in Seq([id : Ids, mark : Marks]),
             amiss' \subseteq Ids
      PROVE  TypeOK'
  <2>1. copy + refused \in Nat
    BY DEF Choice
  <2>2. events' \in Nat
    BY <1>a, <2>1, SpendType, Zenon DEF GiveUp, TypeOK
  <2>3. open' \subseteq Ids
    BY <1>a DEF GiveUp, TypeOK
  <2>4. UNCHANGED <<m_lastId, m_session, held, discovered, sent, commands, replies, up, reqTaken,
                    cmdTaken, m_pending, stopped>>
    BY <1>a, Zenon DEF GiveUp, clientVars
  <2> QED BY <1>a, <2>2, <2>3, <2>4, Zenon DEF TypeOK
<1>7. ASSUME NEW k \in Ids, Fail(k) PROVE TypeOK'
  <2>1. PICK copy \in Choice, refused \in Choice :
          GiveUp(k, copy, refused) /\ Advance(k, PROG_FAILED, refused)
    BY <1>7, Zenon DEF Fail
  <2> QED BY <1>a, <2>1, AdvanceType, Zenon
<1>8. ASSUME NEW k \in Ids, Close(k) PROVE TypeOK'
  <2>1. PICK copy \in Choice, refused \in Choice :
          /\ GiveUp(k, copy, refused)
          /\ m_state' = [m_state EXCEPT ![k] = "none"]
          /\ Report(k, PROG_FAILED, refused) \/ UNCHANGED <<progress, amiss>>
    BY <1>8, Zenon DEF Close
  <2>2. m_state' \in [Ids -> State]
    BY <2>1 DEF TypeOK, State
  <2>3. CASE Report(k, PROG_FAILED, refused)
    BY <1>a, <2>1, <2>2, <2>3, ReportType, Zenon
  <2>4. CASE UNCHANGED <<progress, amiss>>
    <3>1. progress' \in Seq([id : Ids, mark : Marks]) /\ amiss' \subseteq Ids
      BY <2>4, Zenon DEF TypeOK
    <3> QED BY <1>a, <2>1, <2>2, <3>1, Zenon
  <2> QED BY <2>1, <2>3, <2>4
<1>9. ASSUME NEW k \in Ids, NEW mark \in UserMarks, Progress(k, mark) PROVE TypeOK'
  <2>1. PICK refused \in Choice : Spend(1 + refused) /\ Advance(k, mark, refused)
    BY <1>9, Zenon DEF Progress
  <2>2. /\ m_state' \in [Ids -> State] /\ progress' \in Seq([id : Ids, mark : Marks])
        /\ amiss' \subseteq Ids
    BY <2>1, AdvanceType, Zenon
  <2>3. events' \in Nat
    <3>1. 1 + refused \in Nat
      BY DEF Choice
    <3> QED BY <2>1, <3>1, SpendType, Zenon DEF TypeOK
  <2>4. stopped' \subseteq Ids
    BY <1>9 DEF Progress, TypeOK
  <2> QED BY <1>9, <2>2, <2>3, <2>4 DEF Progress, TypeOK, clientVars
<1> QED BY <1>1, <1>2, <1>3, <1>4, <1>5, <1>6, <1>7, <1>8, <1>9 DEF ServerStep, Ending

\* The types hold in every reachable state of client and server, however many
\* sessions there are.
THEOREM TypeCorrect == Spec => []TypeOK
<1>1. TypeOK /\ UNCHANGED vars => TypeOK'
  BY DEF TypeOK, vars, clientVars, serverVars
<1>2. TypeOK /\ [Next]_vars => TypeOK'
  BY <1>1, TypeClient, TypeServer DEF Next
<1> QED BY <1>2, TypeInit, PTL DEF Spec

-----------------------------------------------------------------------------
\* No step brings back a session that the client's table has lost.
LEMMA NoneReturnsStep == TypeOK /\ Next => NoneReturns
<1> SUFFICES ASSUME TypeOK, Next, NEW j \in Ids, j <= m_lastId, m_session[j] = Absent
             PROVE  m_session'[j] = Absent
  BY DEF NoneReturns
<1>1. CASE ServerStep
  BY <1>1, Zenon DEF ServerStep, Ending, OnCommand, OnRequest, GetPendingSession, Crash, Start, Reply,
     Fail, Close, GiveUp, Progress, clientVars
<1>2. CASE Request
  <2>1. PICK table \in Groomings(m_session) :
          m_session' = [table EXCEPT ![m_lastId + 1] = NewSession]
    BY <1>2, Zenon DEF Request
  <2>2. table \in [Ids -> SessionData \cup {Absent}] /\ table[j] = Absent
    BY <2>1, GroomingKeeps DEF TypeOK
  <2>3. j # m_lastId + 1
    BY DEF TypeOK, Ids
  <2> QED BY <2>1, <2>2, <2>3
<1>3. CASE OnProgress
  BY <1>3 DEF OnProgress, TypeOK
<1>4. CASE OnReply
  BY <1>4 DEF OnReply, TypeOK
<1>5. CASE Discover
  BY <1>5 DEF Discover
<1>6. ASSUME NEW k \in Ids, Get(k) PROVE m_session'[j] = Absent
  <2>1. k # j
    BY <1>6 DEF Get, Absent
  <2> QED BY <1>6, <2>1 DEF Get, TypeOK
<1>7. ASSUME NEW k \in Ids, Cancel(k) PROVE m_session'[j] = Absent
  BY <1>7 DEF Cancel, Erased
<1>8. ASSUME NEW k \in Ids, DestroySession(k) PROVE m_session'[j] = Absent
  <2>1. Erased(m_session, {k}) \in [Ids -> SessionData \cup {Absent}]
    BY DEF Erased, TypeOK
  <2>2. Erased(m_session, {k})[j] = Absent
    BY DEF Erased
  <2> QED BY <1>8, <2>1, <2>2, GroomingKeeps, Zenon DEF DestroySession
<1> QED BY <1>1, <1>2, <1>3, <1>4, <1>5, <1>6, <1>7, <1>8 DEF Next, ClientStep

\* Progress and replies still on their way never bring back a session the
\* client cancelled, disposed of or groomed away.
THEOREM GoneForGood == Spec => GoneStaysGone
<1>1. TypeOK /\ [Next]_vars => [NoneReturns]_vars
  BY NoneReturnsStep
<1> QED BY <1>1, TypeCorrect, PTL DEF Spec, GoneStaysGone

-----------------------------------------------------------------------------
\* Sessions are handed out in the order of their numbers: the pending ones
\* are in order, and above all that were opened or stopped.
HandedOutInOrder ==
  /\ \A i \in 1 .. Len(m_pending) : m_pending[i] <= reqTaken
  /\ \A i, j \in 1 .. Len(m_pending) : i < j => m_pending[i] < m_pending[j]
  /\ \A k \in open \cup stopped : k <= reqTaken
  /\ \A k \in open \cup stopped, i \in 1 .. Len(m_pending) : k < m_pending[i]

\* The inductive invariant of cancellation.
CancelInv == HandedOutInOrder /\ CancelSticks

\* Every step keeps the cancellation invariant.
LEMMA CancelStep == TypeOK /\ CancelInv /\ [Next]_vars => CancelInv'
<1> SUFFICES ASSUME TypeOK, CancelInv, [Next]_vars PROVE CancelInv'
  OBVIOUS
<1> DEFINE N == Len(m_pending)
<1>0. N \in Nat /\ DOMAIN m_pending = 1 .. N /\ \A i \in 1 .. N : m_pending[i] \in Ids
  BY LenProperties, ElementOfSeq DEF TypeOK
<1>a. reqTaken \in Int /\ sent \subseteq Ids /\ Ids \subseteq Int /\ open \subseteq Ids /\ stopped \subseteq Ids
      /\ m_state \in [Ids -> State] /\ m_pending \in Seq(Ids)
  BY NumberFacts, Zenon DEF TypeOK
<1>1. CASE ClientStep \/ UNCHANGED vars \/ Start
  <2>1. UNCHANGED <<m_pending, reqTaken, open, stopped, m_state>>
    BY <1>1, Zenon DEF ClientStep, vars, serverVars, Start, Request, OnProgress, OnReply, Discover, Get,
       Cancel, DestroySession
  <2> QED BY <2>1 DEF CancelInv, HandedOutInOrder, CancelSticks
<1>2. CASE OnCommand
  <2>1. \A k \in open \cup stopped' : k \in open \cup stopped
    BY <1>2 DEF OnCommand
  <2>2. HandedOutInOrder'
    BY <1>2, <2>1 DEF OnCommand, CancelInv, HandedOutInOrder
  <2>3. CancelSticks'
    BY <1>2, <1>a DEF OnCommand, CancelInv, CancelSticks
  <2> QED BY <2>2, <2>3 DEF CancelInv
<1>3. CASE OnRequest
  <2>0. PICK r \in sent : /\ reqTaken < r /\ reqTaken' = r /\ m_pending' = Append(m_pending, r)
                          /\ UNCHANGED <<open, stopped, m_state>>
    BY <1>3, Zenon DEF OnRequest
  <2>1. /\ Len(m_pending') = N + 1 /\ m_pending'[N + 1] = r
        /\ \A i \in 1 .. N : m_pending'[i] = m_pending[i]
    BY <1>a, <2>0, AppendProperties
  <2>2. reqTaken' = r /\ r \in Int /\ reqTaken < r /\ UNCHANGED <<open, stopped, m_state>>
    BY <1>a, <2>0
  <2>3. HandedOutInOrder'
    <3> HIDE DEF N
    <3>1. \A i \in 1 .. N : m_pending[i] <= reqTaken
      BY DEF CancelInv, HandedOutInOrder, N
    <3>2. \A i, j \in 1 .. N : i < j => m_pending[i] < m_pending[j]
      BY DEF CancelInv, HandedOutInOrder, N
    <3>3. \A k \in open \cup stopped : k <= reqTaken /\ \A i \in 1 .. N : k < m_pending[i]
      BY DEF CancelInv, HandedOutInOrder, N
    <3>0. \A i \in 1 .. N + 1 : i \in 1 .. N \/ i = N + 1
      BY <1>0
    <3>b. \A i \in 1 .. N : m_pending[i] \in Int
      BY <1>0, <1>a, Zenon
    <3>4. \A i \in 1 .. N + 1 : m_pending'[i] <= reqTaken'
      BY <3>b, <1>a, <2>1, <2>2, <3>0, <3>1
    <3>5. ASSUME NEW i \in 1 .. N + 1, NEW j \in 1 .. N + 1, i < j
          PROVE  m_pending'[i] < m_pending'[j]
      <4>1. i \in 1 .. N
        BY <1>0, <3>5
      <4>2. CASE j \in 1 .. N
        BY <2>1, <3>2, <3>5, <4>1, <4>2
      <4>3. CASE j = N + 1
        BY <1>a, <2>1, <2>2, <3>1, <3>b, <4>1, <4>3
      <4> QED BY <3>0, <4>2, <4>3
    <3>6. \A k \in open' \cup stopped' : k <= reqTaken' /\ \A i \in 1 .. N + 1 : k < m_pending'[i]
      BY <1>0, <1>a, <2>1, <2>2, <3>3
    <3> QED BY <2>1, <3>4, <3>5, <3>6 DEF HandedOutInOrder
  <2> QED BY <2>2, <2>3 DEF CancelInv, CancelSticks
<1>4. CASE GetPendingSession
  <2>1. /\ m_pending # <<>> /\ m_pending' = Tail(m_pending)
        /\ open' = open \cup {Head(m_pending)} /\ UNCHANGED <<reqTaken, stopped>>
    BY <1>4 DEF GetPendingSession
  <2>2. /\ N >= 1 /\ Head(m_pending) = m_pending[1] /\ Len(m_pending') = N - 1
        /\ \A i \in 1 .. N - 1 : m_pending'[i] = m_pending[i + 1]
    BY <1>0, <1>a, <2>1, HeadTailProperties, EmptySeq
  <2>3. HandedOutInOrder'
    <3> HIDE DEF N
    <3>1. \A i \in 1 .. N : m_pending[i] <= reqTaken
      BY DEF CancelInv, HandedOutInOrder, N
    <3>2. \A i, j \in 1 .. N : i < j => m_pending[i] < m_pending[j]
      BY DEF CancelInv, HandedOutInOrder, N
    <3>3. \A k \in open \cup stopped : k <= reqTaken /\ \A i \in 1 .. N : k < m_pending[i]
      BY DEF CancelInv, HandedOutInOrder, N
    <3>4. \A i \in 1 .. N - 1 : i + 1 \in 1 .. N
      BY <1>0
    <3>5. \A i \in 1 .. N - 1 : m_pending'[i] <= reqTaken' /\ m_pending[1] < m_pending'[i]
      BY <1>0, <2>1, <2>2, <3>1, <3>2, <3>4
    <3>6. \A i, j \in 1 .. N - 1 : i < j => m_pending'[i] < m_pending'[j]
      BY <1>0, <2>2, <3>2, <3>4
    <3>7. \A k \in open' \cup stopped' : k <= reqTaken' /\ \A i \in 1 .. N - 1 : k < m_pending'[i]
      BY <1>0, <2>1, <2>2, <3>1, <3>3, <3>4, <3>5
    <3> QED BY <2>2, <3>5, <3>6, <3>7 DEF HandedOutInOrder
  <2>4. m_pending[1] \notin stopped
    <3>1. 1 \in 1 .. N /\ m_pending[1] \in Int
      <4> HIDE DEF N
      <4>1. 1 \in 1 .. N
        BY <1>0, <2>2
      <4> QED BY <1>0, <1>a, <4>1, Zenon
    <3>2. m_pending[1] \in stopped => m_pending[1] < m_pending[1]
      <4>1. \A k \in open \cup stopped, i \in 1 .. N : k < m_pending[i]
        BY DEF CancelInv, HandedOutInOrder
      <4> HIDE DEF N
      <4> QED BY <3>1, <4>1
    <3> QED BY <3>1, <3>2
  <2>5. CancelSticks'
    <3>1. PICK refused : Advance(Head(m_pending), PROG_START, refused)
      BY <1>4, Zenon DEF GetPendingSession
    <3> QED BY <1>a, <2>1, <2>2, <2>4, <3>1 DEF Advance, CancelInv, CancelSticks
  <2> QED BY <2>3, <2>5 DEF CancelInv
<1>5. CASE Crash
  <2>1. m_pending' = <<>> /\ open' = {} /\ stopped' = {}
    BY <1>5 DEF Crash
  <2> QED BY <2>1 DEF CancelInv, HandedOutInOrder, CancelSticks
<1>6. ASSUME UNCHANGED <<reqTaken, m_pending>>, open' \subseteq open, stopped' \subseteq stopped,
             \A k \in stopped' : m_state[k] = "none" => m_state'[k] = "none"
      PROVE  CancelInv'
  <2>1. \A k \in open' \cup stopped' : k \in open \cup stopped
    BY <1>6
  <2>2. HandedOutInOrder'
    BY <1>6, <2>1, Zenon DEF CancelInv, HandedOutInOrder
  <2>3. CancelSticks'
    BY <1>6, Zenon DEF CancelInv, CancelSticks
  <2> QED BY <2>2, <2>3 DEF CancelInv
<1>b. ASSUME NEW k \in Ids, Reply(k) PROVE CancelInv'
  <2>1. /\ UNCHANGED <<reqTaken, m_pending, open, stopped>>
        /\ m_state' = [m_state EXCEPT ![k] = IF @ = "none" THEN "none" ELSE "SUCCEED"]
    BY <1>b, Zenon DEF Reply
  <2> QED BY <1>6, <1>a, <2>1
<1>7. ASSUME NEW k \in Ids, Fail(k) PROVE CancelInv'
  <2>1. PICK copy, refused : GiveUp(k, copy, refused) /\ Advance(k, PROG_FAILED, refused)
    BY <1>7, Zenon DEF Fail
  <2>2. m_state' = [m_state EXCEPT ![k] = "none"]
    BY <2>1 DEF Advance, PROG_FAILED, PROG_START
  <2>3. UNCHANGED <<reqTaken, m_pending, stopped>> /\ open' \subseteq open
    BY <2>1, Zenon DEF GiveUp
  <2> QED BY <1>6, <1>a, <2>2, <2>3
<1>8. ASSUME NEW k \in Ids, Close(k) PROVE CancelInv'
  <2>1. PICK copy, refused : GiveUp(k, copy, refused) /\ m_state' = [m_state EXCEPT ![k] = "none"]
    BY <1>8, Zenon DEF Close
  <2>2. UNCHANGED <<reqTaken, m_pending, stopped>> /\ open' \subseteq open
    BY <2>1, Zenon DEF GiveUp
  <2> QED BY <1>6, <1>a, <2>1, <2>2
<1>9. ASSUME NEW k \in Ids, NEW mark \in UserMarks, Progress(k, mark) PROVE CancelInv'
  <2>1. PICK refused : Advance(k, mark, refused)
    BY <1>9, Zenon DEF Progress
  <2>2. /\ UNCHANGED <<reqTaken, m_pending, open>>
        /\ stopped' = IF mark = PROG_START THEN stopped \ {k} ELSE stopped
    BY <1>9, Zenon DEF Progress
  <2>3. \A j \in Ids : j # k => m_state'[j] = m_state[j]
    BY <1>a, <2>1 DEF Advance
  <2>4. mark # PROG_START /\ m_state[k] = "none" => m_state'[k] = "none"
    BY <1>a, <2>1 DEF Advance
  <2>5. stopped' \subseteq stopped /\ (mark = PROG_START => k \notin stopped')
    BY <2>2
  <2> QED BY <1>6, <1>a, <2>2, <2>3, <2>4, <2>5
<1> QED BY <1>1, <1>2, <1>3, <1>4, <1>5, <1>b, <1>7, <1>8, <1>9 DEF Next, ServerStep, Ending

\* A cancel that arrives while the server works on a session ends it for good:
\* isAlive() stays false whatever the application reports afterwards, the mark
\* for "started" excepted.
THEOREM CancelIsFinal == Spec => []CancelSticks
<1>1. Init => CancelInv
  BY DEF Init, CancelInv, HandedOutInOrder, CancelSticks
<1>2. CancelInv => CancelSticks
  BY DEF CancelInv
<1> QED BY <1>1, <1>2, CancelStep, TypeCorrect, PTL DEF Spec

-----------------------------------------------------------------------------
\* No sample about session k is in queue p after place i.
NoneAfter(p, i, k) == \A j \in 1 .. Len(p) : j > i => p[j].id # k

\* The last that the client will have heard of session k, if nothing more is
\* sent about it, is its end.
Ended(k) ==
  \/ ~ Alive(m_session[k]) /\ NoneAfter(progress, 0, k)
  \/ \E i \in 1 .. Len(progress) : /\ progress[i].id = k /\ Over(progress[i].mark)
                                   /\ NoneAfter(progress, i, k)

\* The server has not begun with session k: its request is still to be taken,
\* or to be fetched.
Ahead(k) == k > reqTaken \/ \E i \in 1 .. Len(m_pending) : m_pending[i] = k

\* ~Session() at the server will report that session k failed.
Going(k) == k \in open /\ m_state[k] \in {"STARTING", "RUNNING"}

\* What is known of a session that the client has in its table, unless the code
\* leaves it alive: its end is on the way or will be sent.
Cared(k) == m_session[k] # Absent /\ Sound(k) => Ended(k) \/ Ahead(k) \/ Going(k)

\* The client has dropped every session it sent a command for.
Abandoned == \A i \in 1 .. Len(commands) :
               commands[i] <= m_lastId /\ m_session[commands[i]] = Absent

\* The inductive invariant of the sessions' ends.
EndInv == Abandoned /\ \A k \in Ids : Cared(k)

\* Reports do not disturb each other: a report of an end is an end, and the
\* end of a session stays one when another is reported on.
LEMMA EndSent ==
  ASSUME TypeOK, NEW k \in Ids, NEW mark \in Marks, m_session' = m_session,
         progress' = Append(progress, [id |-> k, mark |-> mark])
  PROVE  /\ Over(mark) => Ended(k)'
         /\ \A j \in Ids : j # k /\ Ended(j) => Ended(j)'
<1> DEFINE N == Len(progress)
<1>1. N \in Nat /\ progress \in Seq([id : Ids, mark : Marks])
  BY DEF TypeOK
<1>2. /\ Len(progress') = N + 1 /\ progress'[N + 1] = [id |-> k, mark |-> mark]
      /\ \A i \in 1 .. N : progress'[i] = progress[i]
  BY <1>1
<1> HIDE DEF N
<1>3. /\ N + 1 \in 1 .. N + 1 /\ \A j \in 1 .. N + 1 : ~ (j > N + 1)
      /\ \A i \in 1 .. N + 1 : i \in 1 .. N \/ i = N + 1
      /\ \A i \in 1 .. N : i \in 1 .. N + 1
  BY <1>1
<1>4. progress'[N + 1].id = k /\ progress'[N + 1].mark = mark
  BY <1>2
<1>5. NoneAfter(progress', N + 1, k)
  BY <1>2, <1>3, Zenon DEF NoneAfter
<1>6. Over(mark) => Ended(k)'
  BY <1>2, <1>3, <1>4, <1>5, Zenon DEF Ended
<1>7. ASSUME NEW j \in Ids, j # k, NEW i, NoneAfter(progress, i, j)
      PROVE  NoneAfter(progress', i, j)
  BY <1>2, <1>3, <1>4, <1>7, Zenon DEF NoneAfter, N
<1>8. ASSUME NEW j \in Ids, j # k, Ended(j) PROVE Ended(j)'
  <2>1. CASE ~ Alive(m_session[j]) /\ NoneAfter(progress, 0, j)
    <3>1. NoneAfter(progress', 0, j)
      BY <1>7, <1>8, <2>1, Zenon
    <3> QED BY <2>1, <3>1, Zenon DEF Ended
  <2>2. CASE \E i \in 1 .. N : /\ progress[i].id = j /\ Over(progress[i].mark)
                               /\ NoneAfter(progress, i, j)
    <3>1. PICK i \in 1 .. N : /\ progress[i].id = j /\ Over(progress[i].mark)
                              /\ NoneAfter(progress, i, j)
      BY <2>2, Zenon
    <3>2. NoneAfter(progress', i, j)
      BY <1>7, <1>8, <3>1, Zenon
    <3>3. progress'[i].id = j /\ Over(progress'[i].mark) /\ i \in 1 .. Len(progress')
      BY <1>2, <1>3, <3>1, Zenon
    <3> QED BY <3>2, <3>3, Zenon DEF Ended
  <2> QED BY <1>8, <2>1, <2>2, Zenon DEF Ended, N
<1> QED BY <1>6, <1>8, Zenon

\* The end of a session stays one when the client's table changes to an end.
LEMMA EndKept ==
  ASSUME NEW k \in Ids, progress' = progress, Ended(k),
         m_session'[k] = m_session[k] \/ ~ Alive(m_session'[k])
  PROVE  Ended(k)'
<1>1. ~ Alive(m_session[k]) => ~ Alive(m_session'[k])
  BY Zenon
<1> QED BY <1>1, Zenon DEF Ended

\* The client takes a report, of this session or of another.
LEMMA EndTaken ==
  ASSUME TypeOK, OnProgress, NEW k \in Ids, m_session[k] # Absent, Ended(k)
  PROVE  Ended(k)'
<1> DEFINE N == Len(progress)
<1>1. /\ N \in Nat /\ progress \in Seq([id : Ids, mark : Marks]) /\ progress # <<>>
      /\ progress' = Tail(progress)
  BY DEF TypeOK, OnProgress
<1>2. /\ N >= 1 /\ Len(progress') = N - 1 /\ Head(progress) = progress[1]
      /\ \A i \in 1 .. N - 1 : progress'[i] = progress[i + 1]
  BY <1>1, HeadTailProperties, EmptySeq
<1>3. \A i \in 1 .. N : progress[i] \in [id : Ids, mark : Marks]
  BY <1>1, ElementOfSeq, Zenon
<1> HIDE DEF N
<1>4. /\ \A i \in 1 .. N - 1 : i + 1 \in 1 .. N /\ \A j : j = i + 1 => j > 1 /\ j > 0
      /\ 1 \in 1 .. N
      /\ \A i \in 1 .. N : i # 1 => i - 1 \in 1 .. N - 1 /\ (i - 1) + 1 = i
      /\ \A i \in 1 .. N : \A j \in 1 .. N - 1 : j > i - 1 => j + 1 > i
      /\ 1 > 0
  BY <1>1, <1>2
<1>5. ASSUME NEW i \in {0} \cup 1 .. N, NEW l \in {0} \cup 1 .. N, l = i - 1 \/ (i = 0 /\ l = 0),
             NoneAfter(progress, i, k)
      PROVE  NoneAfter(progress', l, k)
  <2> SUFFICES ASSUME NEW j \in 1 .. N - 1, j > l PROVE progress'[j].id # k
    BY <1>2, Zenon DEF NoneAfter
  <2>1. j + 1 \in 1 .. N /\ j + 1 > i
    BY <1>1, <1>5
  <2> QED BY <1>2, <1>5, <2>1, Zenon DEF NoneAfter, N
<1>6. m_session' = IF m_session[progress[1].id] = Absent THEN m_session
                   ELSE [m_session EXCEPT ![progress[1].id].progress = progress[1].mark]
  BY <1>2, Zenon DEF OnProgress
<1>7. m_session \in [Ids -> SessionData \cup {Absent}]
  BY DEF TypeOK
<1>8. progress[1].id # k => m_session'[k] = m_session[k]
  BY <1>3, <1>4, <1>6, <1>7
<1>9. CASE ~ Alive(m_session[k]) /\ NoneAfter(progress, 0, k)
  <2>1. progress[1].id # k
    BY <1>4, <1>9, Zenon DEF NoneAfter, N
  <2>2. NoneAfter(progress', 0, k)
    BY <1>5, <1>9
  <2> QED BY <1>8, <1>9, <2>1, <2>2, Zenon DEF Ended
<1>10. CASE \E i \in 1 .. N : /\ progress[i].id = k /\ Over(progress[i].mark)
                              /\ NoneAfter(progress, i, k)
  <2>1. PICK i \in 1 .. N : /\ progress[i].id = k /\ Over(progress[i].mark)
                            /\ NoneAfter(progress, i, k)
    BY <1>10, Zenon
  <2>2. CASE i = 1
    <3>1. m_session'[k].progress = progress[1].mark
      BY <1>3, <1>4, <1>6, <1>7, <2>1, <2>2 DEF SessionData, Absent
    <3>2. progress[1].mark \in Int
      <4>1. progress[1].mark \in Marks
        BY <1>3, <1>4
      <4> QED BY <4>1, MarkFacts, Zenon
    <3>3. ~ Alive(m_session'[k])
      BY <2>1, <2>2, <3>1, <3>2 DEF Alive, Over, PROG_SENT, PROG_SUCCESS
    <3>4. NoneAfter(progress', 0, k)
      BY <1>1, <1>5, <2>1, <2>2
    <3> QED BY <3>3, <3>4, Zenon DEF Ended
  <2>3. CASE i # 1
    <3>1. PICK l : l = i - 1
      BY Zenon
    <3>2. l \in 1 .. N - 1 /\ l + 1 = i /\ l \in {0} \cup 1 .. N
      BY <1>1, <2>3, <3>1
    <3>3. progress'[l] = progress[i]
      BY <1>2, <3>2, Zenon
    <3>4. NoneAfter(progress', l, k)
      BY <1>5, <2>1, <3>1, <3>2, Zenon
    <3> QED BY <1>2, <2>1, <3>2, <3>3, <3>4, Zenon DEF Ended
  <2> QED BY <2>2, <2>3
<1> QED BY <1>9, <1>10, Zenon DEF Ended, N

\* What a step leaves alone stays cared for.
LEMMA CaredKept ==
  ASSUME NEW k \in Ids, Cared(k), m_session'[k] = Absent \/ m_session[k] # Absent,
         Sound(k)' => Sound(k), Ended(k) => Ended(k)', Ahead(k) => Ahead(k)',
         m_state'[k] = m_state[k], k \in open' <=> k \in open
  PROVE  Cared(k)'
BY Zenon DEF Cared, Going

\* The client's steps keep the invariant of the sessions' ends.
LEMMA EndClient == TypeOK /\ EndInv /\ ClientStep => EndInv'
<1> SUFFICES ASSUME TypeOK, EndInv, ClientStep PROVE EndInv'
  OBVIOUS
<1>0. UNCHANGED serverVars
  BY Zenon DEF ClientStep, Request, OnProgress, OnReply, Discover, Get, Cancel, DestroySession
<1>1. UNCHANGED <<reqTaken, m_pending, m_state, open, amiss>>
  BY <1>0, Zenon DEF serverVars
<1>2. \A k \in Ids : Ahead(k) => Ahead(k)'
  BY <1>1, Zenon DEF Ahead
<1>3. /\ m_session \in [Ids -> SessionData \cup {Absent}] /\ commands \in Seq(Ids)
      /\ m_lastId \in 0 .. MaxSessions /\ held \subseteq 1 .. m_lastId /\ reqTaken \in 0 .. m_lastId
  BY DEF TypeOK
<1>4. ASSUME UNCHANGED <<m_lastId, sent>>,
             \A k \in Ids : \/ m_session'[k] = Absent
                            \/ m_session[k] # Absent /\ (Ended(k) => Ended(k)'),
             NEW c, \/ commands' = commands
                    \/ c \in held /\ commands' = Append(commands, c) /\ m_session'[c] = Absent
      PROVE  EndInv'
  <2>1. \A k \in Ids : m_session[k] = Absent => m_session'[k] = Absent
    BY <1>4, Zenon
  <2>3. ASSUME NEW k \in Ids PROVE Cared(k)'
    <3>1. CASE m_session'[k] = Absent
      BY <3>1, Zenon DEF Cared
    <3>2. CASE m_session[k] # Absent /\ (Ended(k) => Ended(k)')
      <4>1. Cared(k) /\ (Ahead(k) => Ahead(k)')
        BY <1>2, Zenon DEF EndInv
      <4>2. m_state'[k] = m_state[k] /\ (k \in open' <=> k \in open) /\ (Sound(k)' => Sound(k))
        BY <1>1, <1>4, Zenon DEF Sound
      <4> QED BY <3>2, <4>1, <4>2, CaredKept, Zenon
    <3> QED BY <1>4, <3>1, <3>2, Zenon
  <2>4. ASSUME NEW i \in 1 .. Len(commands')
        PROVE  commands'[i] <= m_lastId /\ m_session'[commands'[i]] = Absent
    <3>1. CASE i \in 1 .. Len(commands) /\ commands'[i] = commands[i]
      <4>1. commands[i] \in Ids
        BY <1>3, <3>1
      <4> QED BY <2>1, <3>1, <4>1, Zenon DEF EndInv, Abandoned
    <3>2. CASE c \in held /\ m_session'[c] = Absent /\ commands'[i] = c
      <4>1. c <= m_lastId
        BY <1>3, <3>2
      <4> QED BY <3>2, <4>1, Zenon
    <3>3. \/ i \in 1 .. Len(commands) /\ commands'[i] = commands[i]
          \/ c \in held /\ m_session'[c] = Absent /\ commands'[i] = c
      <4>1. CASE commands' = commands
        BY <2>4, <4>1, Zenon
      <4>2. CASE c \in held /\ commands' = Append(commands, c) /\ m_session'[c] = Absent
        <5>1. c \in Ids
          BY <1>3, <4>2, BoundsAssumption DEF Ids
        <5> QED BY <1>3, <2>4, <4>2, <5>1
      <4> QED BY <1>4, <4>1, <4>2, Zenon
    <3> QED BY <3>1, <3>2, <3>3, Zenon
  <2>5. Abandoned'
    BY <1>4, <2>4, Zenon DEF Abandoned
  <2> QED BY <2>3, <2>5, Zenon DEF EndInv
<1>5. ASSUME progress' = progress, NEW k \in Ids,
             m_session'[k] = m_session[k] \/ ~ Alive(m_session'[k])
      PROVE  Ended(k) => Ended(k)'
  BY <1>5, EndKept, Zenon
<1>6. CASE OnProgress
  <2>1. \A k \in Ids : m_session[k] = Absent => m_session'[k] = Absent
    BY <1>3, <1>6 DEF OnProgress
  <2>2. UNCHANGED <<commands, m_lastId, sent>>
    BY <1>6, Zenon DEF OnProgress
  <2>3. \A k \in Ids : m_session[k] # Absent => (Ended(k) => Ended(k)')
    BY <1>6, EndTaken, Zenon
  <2> QED BY <1>4, <2>1, <2>2, <2>3, Zenon
<1>7. CASE OnReply
  <2>1. PICK r : r = Head(replies)
    BY Zenon
  <2>2. /\ UNCHANGED <<progress, commands, m_lastId, sent>>
        /\ m_session' = IF m_session[r] = Absent THEN m_session
                        ELSE [m_session EXCEPT ![r] = [progress |-> PROG_SUCCESS, reply |-> "ready"]]
    BY <1>7, <2>1, Zenon DEF OnReply
  <2>3. \A k \in Ids : \/ m_session'[k] = m_session[k]
                       \/ /\ m_session[k] # Absent
                          /\ m_session'[k] = [progress |-> PROG_SUCCESS, reply |-> "ready"]
    BY <1>3, <2>2
  <2>4. ~ Alive([progress |-> PROG_SUCCESS, reply |-> "ready"])
    BY DEF Alive, PROG_SUCCESS
  <2>5. \A k \in Ids : Ended(k) => Ended(k)'
    BY <1>5, <2>2, <2>3, <2>4, Zenon
  <2> QED BY <1>4, <2>2, <2>3, <2>5, Zenon
<1>8. CASE Discover
  <2>1. UNCHANGED <<progress, commands, m_lastId, m_session, sent>>
    BY <1>8 DEF Discover
  <2>2. \A k \in Ids : Ended(k) => Ended(k)'
    BY <1>5, <2>1, Zenon
  <2> QED BY <1>4, <2>1, <2>2, Zenon
<1>9. ASSUME NEW c \in Ids, Get(c) PROVE EndInv'
  <2>1. /\ UNCHANGED <<progress, commands, m_lastId, sent>> /\ m_session[c].reply = "ready"
        /\ m_session' = [m_session EXCEPT ![c].reply = "moved"]
    BY <1>9 DEF Get
  <2>2. m_session[c] # Absent
    BY <2>1 DEF Absent
  <2>3. m_session'[c].progress = m_session[c].progress
    BY <1>3, <2>1, <2>2 DEF SessionData
  <2>4. \A k \in Ids : k # c => m_session'[k] = m_session[k]
    BY <1>3, <2>1
  <2>5. Alive(m_session'[c]) => Alive(m_session[c])
    BY <2>3, Zenon DEF Alive
  <2>6. \A k \in Ids : Ended(k) => Ended(k)'
    <3>1. \A k \in Ids : k # c => (Ended(k) => Ended(k)')
      BY <1>5, <2>1, <2>4, Zenon
    <3>2. Ended(c) => Ended(c)'
      BY <2>1, <2>5, Zenon DEF Ended
    <3> QED BY <3>1, <3>2, Zenon
  <2> QED BY <1>4, <2>1, <2>2, <2>4, <2>6, Zenon
<1>10. ASSUME NEW c \in Ids, Cancel(c) \/ DestroySession(c) PROVE EndInv'
  <2>1. UNCHANGED <<progress, m_lastId, sent>> /\ c \in held
    BY <1>10, Zenon DEF Cancel, DestroySession
  <2>2. commands' = commands \/ commands' = Append(commands, c)
    BY <1>10, Zenon DEF Cancel, DestroySession, Published
  <2>3. /\ Erased(m_session, {c}) \in [Ids -> SessionData \cup {Absent}]
        /\ Erased(m_session, {c})[c] = Absent
        /\ \A k \in Ids : Erased(m_session, {c})[k] \in {m_session[k], Absent}
    BY <1>3 DEF Erased
  <2>4. m_session'[c] = Absent /\ \A k \in Ids : m_session'[k] \in {m_session[k], Absent}
    <3>1. CASE Cancel(c)
      BY <2>3, <3>1, Zenon DEF Cancel
    <3>2. CASE DestroySession(c)
      <4>1. m_session' \in Groomings(Erased(m_session, {c}))
        BY <3>2, Zenon DEF DestroySession
      <4>2. \A k \in Ids : m_session'[k] = Erased(m_session, {c})[k] \/ m_session'[k] = Absent
        BY <2>3, <4>1, GroomingKeeps, Zenon
      <4> QED BY <2>3, <4>2, Zenon
    <3> QED BY <1>10, <3>1, <3>2
  <2>5. \A k \in Ids : m_session'[k] = m_session[k] => (Ended(k) => Ended(k)')
    BY <1>5, <2>1, Zenon
  <2>6. ASSUME NEW k \in Ids
        PROVE  \/ m_session'[k] = Absent
               \/ m_session[k] # Absent /\ (Ended(k) => Ended(k)')
    <3>1. m_session'[k] = m_session[k] \/ m_session'[k] = Absent
      BY <2>4, Zenon
    <3>2. CASE m_session'[k] = m_session[k]
      <4>1. Ended(k) => Ended(k)'
        BY <2>5, <3>2, Zenon
      <4> QED BY <3>2, <4>1, Zenon
    <3> QED BY <3>1, <3>2, Zenon
  <2> QED BY <1>4, <2>1, <2>2, <2>4, <2>6, Zenon
<1>11. CASE Request
  <2>1. PICK n : n = m_lastId + 1
    BY Zenon
  <2>2. PICK table \in Groomings(m_session) : m_session' = [table EXCEPT ![n] = NewSession]
    BY <1>11, <2>1, Zenon DEF Request
  <2>3. n <= MaxSessions /\ m_lastId' = n /\ UNCHANGED <<progress, commands>>
    BY <1>11, <2>1 DEF Request
  <2>4. n \in Ids /\ n > m_lastId /\ n > reqTaken /\ \A k \in Ids : k <= m_lastId => k <= n /\ k # n
    BY <1>3, <2>1, <2>3, BoundsAssumption DEF Ids
  <2>5. /\ table \in [Ids -> SessionData \cup {Absent}]
        /\ \A k \in Ids : table[k] = m_session[k] \/ table[k] = Absent
    BY <1>3, <2>2, GroomingKeeps, Zenon
  <2>6. \A k \in Ids : k # n => m_session'[k] = m_session[k] \/ m_session'[k] = Absent
    BY <2>2, <2>5
  <2>7. Abandoned'
    <3>1. ASSUME NEW i \in 1 .. Len(commands)
          PROVE  commands[i] <= n /\ m_session'[commands[i]] = Absent
      <4>1. commands[i] \in Ids
        BY <1>3
      <4>2. commands[i] <= m_lastId /\ m_session[commands[i]] = Absent
        BY Zenon DEF EndInv, Abandoned
      <4> QED BY <2>4, <2>6, <4>1, <4>2, Zenon
    <3> QED BY <2>3, <3>1, Zenon DEF Abandoned
  <2>11. \A k \in Ids : k # n => (k \in sent' => k \in sent)
    BY <1>11, <2>1 DEF Request
  <2>9. ASSUME NEW k \in Ids, k # n PROVE Cared(k)'
    <3>1. CASE m_session'[k] = Absent
      BY <3>1, Zenon DEF Cared
    <3>2. CASE m_session'[k] = m_session[k]
      <4>1. Cared(k) /\ (Ahead(k) => Ahead(k)') /\ (Ended(k) => Ended(k)')
        BY <1>2, <1>5, <2>3, <3>2, Zenon DEF EndInv
      <4>2. m_state'[k] = m_state[k] /\ (k \in open' <=> k \in open) /\ (Sound(k)' => Sound(k))
        BY <1>1, <2>9, <2>11, Zenon DEF Sound
      <4>3. CASE m_session[k] = Absent
        BY <3>2, <4>3, Zenon DEF Cared
      <4>4. CASE m_session[k] # Absent
        BY <4>1, <4>2, <4>4, CaredKept, Zenon
      <4> QED BY <4>3, <4>4
    <3> QED BY <2>6, <2>9, <3>1, <3>2, Zenon
  <2>10. Cared(n)'
    BY <1>1, <2>4, Zenon DEF Cared, Ahead
  <2> QED BY <2>7, <2>9, <2>10, Zenon DEF EndInv
<1> QED BY <1>6, <1>7, <1>8, <1>9, <1>10, <1>11, Zenon DEF ClientStep

\* A report on session c leaves the others cared for.
LEMMA ReportKeeps ==
  ASSUME TypeOK, EndInv, NEW c \in Ids, NEW mark \in Marks, NEW refused, UNCHANGED <<m_session, sent>>,
         Report(c, mark, refused),
         \A k \in Ids : k # c => /\ m_state'[k] = m_state[k] /\ (k \in open' <=> k \in open)
                                 /\ Ahead(k) => Ahead(k)'
  PROVE  /\ \A k \in Ids : k # c => Cared(k)'
         /\ Over(mark) /\ Sound(c)' => Ended(c)'
         /\ m_state[c] = "none" /\ mark # PROG_START /\ ~ Over(mark) => ~ Sound(c)'
<1>1. /\ refused = 1 /\ progress' = progress /\ c \in amiss'
      \/ progress' = Append(progress, [id |-> c, mark |-> mark])
  BY DEF Report, Published
<1>2. Over(mark) /\ Sound(c)' => Ended(c)'
  BY <1>1, EndSent, Zenon DEF Sound
<1>3. \A k \in Ids : k # c => (Ended(k) => Ended(k)')
  BY <1>1, EndSent, EndKept, Zenon
<1>4. \A k \in Ids : k # c => (Sound(k)' => Sound(k))
  BY DEF Report, Sound
<1>5. m_state[c] = "none" /\ mark # PROG_START /\ ~ Over(mark) => ~ Sound(c)'
  BY Zenon DEF Report, Sound
<1>6. ASSUME NEW k \in Ids, k # c PROVE Cared(k)'
  <2>1. Cared(k) /\ (Ended(k) => Ended(k)') /\ (Ahead(k) => Ahead(k)') /\ (Sound(k)' => Sound(k))
    BY <1>3, <1>4, <1>6, Zenon DEF EndInv
  <2>2. m_state'[k] = m_state[k] /\ (k \in open' <=> k \in open)
    BY <1>6, Zenon
  <2>3. CASE m_session[k] = Absent
    BY <2>3, Zenon DEF Cared
  <2>4. CASE m_session[k] # Absent
    BY <2>1, <2>2, <2>4, CaredKept, Zenon
  <2> QED BY <2>3, <2>4, Zenon
<1> QED BY <1>2, <1>5, <1>6, Zenon

\* The server's steps keep the invariant of the sessions' ends.
LEMMA EndServer == TypeOK /\ HandedOutInOrder /\ EndInv /\ ServerStep => EndInv'
<1> SUFFICES ASSUME TypeOK, HandedOutInOrder, EndInv, ServerStep PROVE EndInv'
  OBVIOUS
<1>0. UNCHANGED <<clientVars, commands>>
  BY Zenon DEF ServerStep, Ending, OnCommand, OnRequest, GetPendingSession, Crash, Start, Reply,
     Fail, Close, GiveUp, Progress
<1>1. UNCHANGED <<m_session, m_lastId, sent, commands>>
  BY <1>0, Zenon DEF clientVars
<1>2. Abandoned'
  BY <1>1, Zenon DEF EndInv, Abandoned
<1>3. /\ m_state \in [Ids -> State] /\ open \subseteq Ids /\ m_pending \in Seq(Ids)
      /\ commands \in Seq(Ids) /\ cmdTaken \in 0 .. Len(commands) /\ reqTaken \in Int
      /\ sent \subseteq Ids
  BY NumberFacts, Zenon DEF TypeOK
<1>4. ASSUME NEW k \in Ids, m_session[k] = Absent PROVE Cared(k)'
  BY <1>1, <1>4, Zenon DEF Cared
<1>5. ASSUME NEW k \in Ids, UNCHANGED <<progress, amiss>>, m_state'[k] = m_state[k],
             k \in open' <=> k \in open, Ahead(k) => Ahead(k)'
      PROVE  Cared(k)'
  <2>1. Ended(k) => Ended(k)'
    BY <1>1, <1>5, EndKept, Zenon
  <2>2. Cared(k) /\ (Sound(k)' => Sound(k))
    BY <1>1, <1>5, Zenon DEF EndInv, Sound
  <2> QED BY <1>4, <1>5, <2>1, <2>2, CaredKept, Zenon
<1>6. ASSUME UNCHANGED <<reqTaken, m_pending>>, NEW k \in Ids, Ahead(k) PROVE Ahead(k)'
  BY <1>6, Zenon DEF Ahead
<1>8. CASE OnCommand
  <2>1. PICK c : c = commands[cmdTaken + 1]
    BY Zenon
  <2>2. /\ cmdTaken < Len(commands) /\ m_state' = [m_state EXCEPT ![c] = "none"]
        /\ UNCHANGED <<progress, amiss, reqTaken, m_pending, open>>
    BY <1>8, <2>1, Zenon DEF OnCommand
  <2>3. cmdTaken + 1 \in 1 .. Len(commands)
    BY <1>3, <2>2
  <2>4. c \in Ids /\ m_session[c] = Absent
    BY <1>3, <2>1, <2>3, ElementOfSeq, Zenon DEF EndInv, Abandoned
  <2>5. \A k \in Ids : k # c => m_state'[k] = m_state[k]
    BY <1>3, <2>2
  <2>6. ASSUME NEW k \in Ids, k # c PROVE Cared(k)'
    BY <1>5, <1>6, <2>2, <2>5, <2>6, Zenon
  <2> QED BY <1>2, <1>4, <2>4, <2>6, Zenon DEF EndInv
<1>9. CASE OnRequest
  <2>1. PICK r \in sent : /\ reqTaken < r /\ (\A j \in sent : reqTaken < j => r <= j)
                          /\ reqTaken' = r /\ m_pending' = Append(m_pending, r)
                          /\ UNCHANGED <<progress, amiss, m_state, open>>
    BY <1>9, Zenon DEF OnRequest
  <2>2. r \in Ids
    BY <1>3
  <2>3. PICK N : N = Len(m_pending)
    BY Zenon
  <2>4. /\ N \in Nat /\ Len(m_pending') = N + 1 /\ m_pending'[N + 1] = r
        /\ \A i \in 1 .. N : m_pending'[i] = m_pending[i]
    BY <1>3, <2>1, <2>2, <2>3
  <2>5. N + 1 \in 1 .. N + 1 /\ \A i \in 1 .. N : i \in 1 .. N + 1
    BY <2>4
  <2>6. \A k \in sent : k > reqTaken => k = r \/ k > reqTaken'
    BY <1>3, <2>1 DEF Ids
  <2>7. \A k \in sent : Ahead(k) => Ahead(k)'
    BY <2>3, <2>4, <2>5, <2>6, Zenon DEF Ahead
  <2>8. \A k \in Ids : Cared(k)'
    <3> TAKE k \in Ids
    <3>1. CASE k \in sent
      BY <1>5, <2>1, <2>7, <3>1, Zenon
    <3>2. CASE k \notin sent
      BY <1>1, <3>2, Zenon DEF Cared, Sound
    <3> QED BY <3>1, <3>2
  <2> QED BY <1>2, <2>8, Zenon DEF EndInv
<1>10. CASE GetPendingSession
  <2>1. PICK c : c = Head(m_pending)
    BY Zenon
  <2>2. /\ m_pending # <<>> /\ m_pending' = Tail(m_pending) /\ open' = open \cup {c}
        /\ m_state' = [m_state EXCEPT ![c] = "STARTING"] /\ reqTaken' = reqTaken
        /\ \E refused : Report(c, PROG_START, refused)
    BY <1>10, <2>1, Zenon DEF GetPendingSession, Advance
  <2>3. PICK N : N = Len(m_pending)
    BY Zenon
  <2>4. /\ N \in Nat /\ N >= 1 /\ c = m_pending[1] /\ Len(m_pending') = N - 1
        /\ \A i \in 1 .. N - 1 : m_pending'[i] = m_pending[i + 1]
    BY <1>3, <2>1, <2>2, <2>3, HeadTailProperties, EmptySeq
  <2>5. \A i \in 1 .. N : i = 1 \/ (i - 1 \in 1 .. N - 1 /\ (i - 1) + 1 = i)
    BY <2>4
  <2>6. c \in Ids
    BY <1>3, <2>1, <2>2, HeadTailProperties, Zenon
  <2>7. ASSUME NEW k \in Ids, k # c, Ahead(k) PROVE Ahead(k)'
    <3>1. CASE k > reqTaken
      BY <2>2, <3>1, Zenon DEF Ahead
    <3>2. CASE \E i \in 1 .. N : m_pending[i] = k
      <4>1. PICK i \in 1 .. N : m_pending[i] = k
        BY <3>2, Zenon
      <4>2. PICK l : l = i - 1
        BY Zenon
      <4>3. l \in 1 .. N - 1 /\ l + 1 = i
        BY <2>4, <2>5, <2>7, <4>1, <4>2, Zenon
      <4>4. m_pending'[l] = k
        BY <2>4, <4>1, <4>3, Zenon
      <4> QED BY <2>4, <4>3, <4>4, Zenon DEF Ahead
    <3> QED BY <2>3, <2>7, <3>1, <3>2, Zenon DEF Ahead
  <2>8. \A k \in Ids : k # c => m_state'[k] = m_state[k] /\ (k \in open' <=> k \in open)
    BY <1>3, <2>2
  <2>9. \A k \in Ids : k # c => Cared(k)'
    BY <1>1, <2>2, <2>6, <2>7, <2>8, ReportKeeps, MarkFacts, Zenon
  <2>10. m_state'[c] = "STARTING" /\ c \in open'
    BY <1>3, <2>2, <2>6
  <2>11. Cared(c)'
    BY <2>10 DEF Cared, Going
  <2> QED BY <1>2, <2>9, <2>11, Zenon DEF EndInv
<1>11. CASE Crash
  <2>1. reqTaken' = 0 /\ open' = {}
    BY <1>11 DEF Crash
  <2>2. \A k \in Ids : k > 0
    BY DEF Ids
  <2>3. \A k \in Ids : Cared(k)'
    BY <2>1, <2>2, Zenon DEF Cared, Ahead
  <2> QED BY <1>2, <2>3, Zenon DEF EndInv
<1>12. CASE Start
  <2>1. UNCHANGED <<progress, amiss, reqTaken, m_pending, m_state, open>>
    BY <1>12 DEF Start
  <2>2. \A k \in Ids : Cared(k)'
    BY <1>5, <1>6, <2>1, Zenon
  <2> QED BY <1>2, <2>2, Zenon DEF EndInv
<1>13. ASSUME NEW c \in Ids, NEW mark \in Marks, NEW refused, UNCHANGED <<reqTaken, m_pending>>,
              Report(c, mark, refused),
              \A k \in Ids : k # c => m_state'[k] = m_state[k] /\ (k \in open' <=> k \in open),
              \/ Over(mark)
              \/ Going(c)'
              \/ m_state[c] = "none" /\ mark # PROG_START /\ ~ Over(mark)
       PROVE  EndInv'
  <2>1. \A k \in Ids : k # c => /\ m_state'[k] = m_state[k] /\ (k \in open' <=> k \in open)
                                /\ Ahead(k) => Ahead(k)'
    BY <1>6, <1>13, Zenon
  <2>2. /\ \A k \in Ids : k # c => Cared(k)'
        /\ Over(mark) /\ Sound(c)' => Ended(c)'
        /\ m_state[c] = "none" /\ mark # PROG_START /\ ~ Over(mark) => ~ Sound(c)'
    BY <1>1, <1>13, <2>1, ReportKeeps, Zenon
  <2>3. Cared(c)'
    BY <1>13, <2>2, Zenon DEF Cared
  <2> QED BY <1>2, <2>2, <2>3, Zenon DEF EndInv
<1>14. Over(PROG_SUCCESS) /\ Over(PROG_FAILED)
  BY DEF Over, PROG_SUCCESS, PROG_FAILED, PROG_SENT
<1>15. ASSUME NEW c \in Ids, Reply(c) PROVE EndInv'
  <2>1. PICK refused : Report(c, PROG_SUCCESS, refused)
    BY <1>15, Zenon DEF Reply
  <2>2. /\ UNCHANGED <<reqTaken, m_pending, open>>
        /\ m_state' = [m_state EXCEPT ![c] = IF @ = "none" THEN "none" ELSE "SUCCEED"]
    BY <1>15, Zenon DEF Reply
  <2>3. \A k \in Ids : k # c => m_state'[k] = m_state[k] /\ (k \in open' <=> k \in open)
    BY <1>3, <2>2
  <2> QED BY <1>13, <1>14, <2>1, <2>2, <2>3, MarkFacts, Zenon
<1>16. ASSUME NEW c \in Ids, Fail(c) PROVE EndInv'
  <2>1. PICK copy, refused : GiveUp(c, copy, refused) /\ Advance(c, PROG_FAILED, refused)
    BY <1>16, Zenon DEF Fail
  <2>2. UNCHANGED <<reqTaken, m_pending>> /\ Report(c, PROG_FAILED, refused)
    BY <2>1, Zenon DEF GiveUp, Advance
  <2>3. \A k \in Ids : k # c => m_state'[k] = m_state[k] /\ (k \in open' <=> k \in open)
    BY <1>3, <2>1 DEF GiveUp, Advance
  <2> QED BY <1>13, <1>14, <2>2, <2>3, MarkFacts, Zenon
<1>17. ASSUME NEW c \in Ids, Close(c) PROVE EndInv'
  <2>1. PICK copy, refused :
          /\ GiveUp(c, copy, refused)
          /\ m_state' = [m_state EXCEPT ![c] = "none"]
          /\ IF m_state[c] \in {"STARTING", "RUNNING"} THEN Report(c, PROG_FAILED, refused)
             ELSE UNCHANGED <<progress, amiss>>
    BY <1>17, Zenon DEF Close
  <2>2. UNCHANGED <<reqTaken, m_pending>> /\ c \in open
    BY <2>1, Zenon DEF GiveUp
  <2>3. \A k \in Ids : k # c => m_state'[k] = m_state[k] /\ (k \in open' <=> k \in open)
    BY <1>3, <2>1 DEF GiveUp
  <2>4. CASE m_state[c] \in {"STARTING", "RUNNING"}
    BY <1>13, <1>14, <2>1, <2>2, <2>3, <2>4, MarkFacts, Zenon
  <2>5. CASE m_state[c] \notin {"STARTING", "RUNNING"}
    <3>1. UNCHANGED <<progress, amiss>>
      BY <2>1, <2>5, Zenon
    <3>2. \A k \in Ids : k # c => Cared(k)'
      BY <1>5, <1>6, <2>2, <2>3, <3>1, Zenon
    <3>3. ~ Ahead(c) /\ ~ Going(c)
      <4>1. c <= reqTaken /\ \A i \in 1 .. Len(m_pending) : c < m_pending[i]
        BY <2>2, Zenon DEF HandedOutInOrder
      <4>2. c \in Int /\ ~ (c > reqTaken) /\ ~ (c < c)
        BY <1>3, <4>1 DEF Ids
      <4> QED BY <2>5, <4>1, <4>2, Zenon DEF Ahead, Going
    <3>4. Cared(c) /\ (Sound(c)' => Sound(c)) /\ (Ended(c) => Ended(c)')
      BY <1>1, <3>1, EndKept, Zenon DEF EndInv, Sound
    <3>5. Cared(c)'
      BY <1>1, <3>3, <3>4, Zenon DEF Cared
    <3> QED BY <1>2, <3>2, <3>5, Zenon DEF EndInv
  <2> QED BY <2>4, <2>5
<1>18. ASSUME NEW c \in Ids, NEW mark \in UserMarks, Progress(c, mark) PROVE EndInv'
  <2>1. mark \in PROG_START .. PROG_SUCCESS /\ mark \in Marks
    BY UserMarksAssumption, MarkFacts, Zenon
  <2>2. ~ (mark < PROG_START) /\ (mark >= PROG_SUCCESS <=> Over(mark))
    BY <2>1 DEF PROG_START, PROG_SUCCESS, PROG_SENT, Over
  <2>3. PICK refused : Advance(c, mark, refused)
    BY <1>18, Zenon DEF Progress
  <2>4. c \in open' /\ UNCHANGED <<reqTaken, m_pending, open>> /\ Report(c, mark, refused)
    BY <1>18, <2>3, Zenon DEF Progress, Advance
  <2>5. \A k \in Ids : k # c => m_state'[k] = m_state[k] /\ (k \in open' <=> k \in open)
    BY <1>3, <2>3, <2>4 DEF Advance
  <2>6. CASE mark = PROG_START
    <3>1. m_state'[c] = "STARTING"
      BY <1>3, <2>3, <2>6 DEF Advance
    <3>2. Going(c)'
      BY <2>4, <3>1 DEF Going
    <3> QED BY <1>13, <2>1, <2>4, <2>5, <3>2, Zenon
  <2>7. CASE mark # PROG_START /\ m_state[c] # "none" /\ ~ Over(mark)
    <3>1. m_state'[c] = "RUNNING"
      BY <1>3, <2>2, <2>3, <2>7 DEF Advance
    <3>2. Going(c)'
      BY <2>4, <3>1 DEF Going
    <3> QED BY <1>13, <2>1, <2>4, <2>5, <3>2, Zenon
  <2>8. CASE Over(mark) \/ (m_state[c] = "none" /\ mark # PROG_START /\ ~ Over(mark))
    BY <1>13, <2>1, <2>4, <2>5, <2>8, Zenon
  <2> QED BY <2>6, <2>7, <2>8
<1> QED
  BY <1>8, <1>9, <1>10, <1>11, <1>12, <1>15, <1>16, <1>17, <1>18, Zenon DEF ServerStep, Ending

\* When all is quiet the client takes no session for alive, through any number
\* of restarts, whatever order reports, replies and commands arrive in and
\* whatever copies of Session objects are destroyed when, except for a session
\* whose request or last report was refused by the writer or whose last report
\* came from a copy after another had ended.
THEOREM SettledWhenQuiet == Spec => []Settled
<1>1. Init => EndInv /\ CancelInv
  <2> SUFFICES ASSUME Init PROVE EndInv /\ CancelInv
    OBVIOUS
  <2>1. CancelInv
    BY DEF Init, CancelInv, HandedOutInOrder, CancelSticks
  <2>2. \A k \in Ids : m_session[k] = Absent
    BY DEF Init
  <2>3. Abandoned
    BY DEF Init, Abandoned
  <2> QED BY <2>1, <2>2, <2>3, Zenon DEF EndInv, Cared
<1>2. TypeOK /\ CancelInv /\ EndInv /\ [Next]_vars => EndInv'
  <2> SUFFICES ASSUME TypeOK, CancelInv, EndInv, [Next]_vars PROVE EndInv'
    OBVIOUS
  <2>1. CASE UNCHANGED vars
    <3>1. UNCHANGED <<m_session, m_lastId, sent, commands, progress, reqTaken, m_pending, m_state,
                      open, amiss>>
      BY <2>1, Zenon DEF vars, clientVars, serverVars
    <3> QED BY <3>1, Zenon DEF EndInv, Abandoned, Cared, Sound, Ended, Ahead, Going
  <2> QED BY <2>1, EndClient, EndServer, Zenon DEF Next, CancelInv
<1>3. TypeOK /\ EndInv => Settled
  <2> SUFFICES ASSUME TypeOK, EndInv, Quiet, NEW k \in Ids, Sound(k) PROVE ~ Alive(m_session[k])
    BY Zenon DEF Settled
  <2>1. Len(progress) = 0 /\ Len(m_pending) = 0 /\ open = {} /\ k <= reqTaken
    BY DEF Quiet, Sound
  <2>2. CASE m_session[k] = Absent
    BY <2>2 DEF Absent, Alive, PROG_UNKNOWN, PROG_SENT
  <2>3. CASE m_session[k] # Absent
    <3>1. ~ (k > reqTaken)
      BY <2>1 DEF TypeOK, Ids
    <3>2. ~ Ahead(k) /\ ~ Going(k)
      <4>1. 1 .. Len(m_pending) = {}
        BY <2>1
      <4> QED BY <2>1, <3>1, <4>1, Zenon DEF Ahead, Going
    <3>3. Ended(k)
      BY <2>3, <3>2, Zenon DEF EndInv, Cared
    <3>4. 1 .. Len(progress) = {}
      BY <2>1
    <3> QED BY <3>3, <3>4, Zenon DEF Ended
  <2> QED BY <2>2, <2>3
<1> QED BY <1>1, <1>2, <1>3, CancelStep, TypeCorrect, PTL DEF Spec
=============================================================================
