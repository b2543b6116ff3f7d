------------------------- MODULE RequestReplyProofs -------------------------
(***************************************************************************)
(* Theorems about RequestReply, for any sets of requesters, threads and     *)
(* providers, any number of calls and any width of the sequence number.     *)
(***************************************************************************)
EXTENDS RequestReply, TLAPS

\* Guid arithmetic stays inside the sequence numbers: increment() and
\* makeBadVersion() map sequences to sequences.
LEMMA SequenceClosed ==
  /\ Zero \in Sequence
  /\ \A s \in Sequence : Successor(s) \in Sequence
  /\ \A s \in Sequence : Increment(s) \in Sequence
  /\ \A s \in Sequence : BadVersion(s) \in Sequence
<1>1. Zero \in Sequence
  BY HalfAssumption DEF Zero, Sequence, HalfWord
<1>2. <<0, 1>> \in Sequence
  BY HalfAssumption DEF Sequence, HalfWord
<1>3. ASSUME NEW s \in Sequence PROVE Successor(s) \in Sequence
  <2>1. PICK h \in HalfWord, l \in HalfWord : s = <<h, l>>
    BY DEF Sequence
  <2>2. (h + 1) % Half \in HalfWord
    BY HalfAssumption DEF HalfWord
  <2> QED
    BY <2>1, <2>2, HalfAssumption DEF Sequence, HalfWord, Successor
<1>4. \A s \in Sequence : Increment(s) \in Sequence
  BY <1>2, <1>3 DEF Increment
<1>5. \A s \in Sequence : BadVersion(s) \in Sequence
  BY DEF BadVersion, Sequence
<1> QED
  BY <1>1, <1>3, <1>4, <1>5

\* makeBadVersion() is its own inverse, so onReply() can recover the id of a
\* failed request from the id the failure was sent under.
LEMMA BadVersionInvolution ==
  \A s \in Sequence : BadVersion(BadVersion(s)) = s
BY DEF BadVersion, Sequence

-----------------------------------------------------------------------------
\* The constructors establish the types.
LEMMA TypeInit == Init => TypeOK
BY SequenceClosed, MaxCallsAssumption
DEF Init, TypeOK, Ids, Outcome, Held, Calls, NoCall, Providers, Idle

\* Every step of callers, providers and readers keeps the types.
LEMMA TypeStep == TypeOK /\ [Next]_vars => TypeOK'
<1> SUFFICES ASSUME TypeOK, [Next]_vars PROVE TypeOK'
  OBVIOUS
<1> USE MaxCallsAssumption, RequesterOfAssumption, SequenceClosed
<1>1. ASSUME NEW t \in Callers, RegisterRequest(t) PROVE TypeOK'
  BY <1>1 DEF RegisterRequest, TypeOK, Ids, PendingEntry, Outcome, Held, Calls, NoCall,
              wireVars, readerVars, serverVars
<1>2. ASSUME NEW t \in Callers, PublishRequest(t) PROVE TypeOK'
  <2>1. window[t] \in PendingEntry
    BY <1>2 DEF PublishRequest, TypeOK
  <2>2. [id |-> Successor(lastChange[RequesterOf[t]]), call |-> window[t].call] \in RequestSample
    BY <2>1 DEF TypeOK, Ids, PendingEntry, RequestSample
  <2> QED
    BY <1>2, <2>1, <2>2 DEF PublishRequest, TypeOK, Ids, readerVars, serverVars
<1>3. ASSUME NEW t \in Callers, PublishFails(t) PROVE TypeOK'
  BY <1>3 DEF PublishFails, TypeOK, wireVars, readerVars, serverVars
<1>4. ASSUME NEW r \in Requesters, DestroyRequester(r) PROVE TypeOK'
  BY <1>4 DEF DestroyRequester, TypeOK, Outcome, Held, NoCall, wireVars, readerVars, serverVars
<1>5. ASSUME NEW r \in Requesters, NEW p \in Providers, OnReply(r, p) PROVE TypeOK'
  <2> DEFINE sample == replies[p][seen[r][p] + 1]
  <2>0. seen[r][p] < Len(replies[p]) /\ seen' = [seen EXCEPT ![r][p] = @ + 1]
    BY <1>5, Zenon DEF OnReply
  <2>1. sample \in ReplySample /\ seen[r][p] + 1 <= Len(replies[p])
    BY <2>0 DEF TypeOK
  <2>2. ASSUME NEW e \in m_requests[r], NEW st \in {"value", "error"},
               Resolve(r, e, st, sample)
        PROVE  future' \in [Calls -> Outcome]
               /\ m_requests' \in [Requesters -> SUBSET PendingEntry]
    <3>1. [is |-> st, of |-> sample.of, failed |-> sample.failed] \in Outcome
      BY <2>1 DEF Outcome, ReplySample
    <3>2. future' \in [Calls -> Outcome]
      BY <2>2, <3>1, Zenon DEF Resolve, TypeOK
    <3>3. m_requests' \in [Requesters -> SUBSET PendingEntry]
      BY <2>2 DEF Resolve, TypeOK
    <3> QED
      BY <3>2, <3>3
  <2>3. future' \in [Calls -> Outcome] /\ m_requests' \in [Requesters -> SUBSET PendingEntry]
    BY <1>5, <2>2, Zenon DEF OnReply, Pending, TypeOK
  <2>4. seen' \in [Requesters -> [Providers -> Nat]]
        /\ \A q \in Providers, s \in Requesters : seen'[s][q] <= Len(replies[q])
    BY <2>0, <2>1 DEF TypeOK
  <2> QED
    BY <1>5, <2>3, <2>4, Zenon DEF OnReply, TypeOK, wireVars, serverVars
<1>6. ASSUME NEW r \in Requesters, NEW p \in Providers, TakeRequest(p, r) PROVE TypeOK'
  <2> DEFINE sample == requests[r][taken[p][r] + 1]
  <2>1. sample \in RequestSample /\ taken[p][r] + 1 <= Len(requests[r])
    BY <1>6 DEF TakeRequest, TypeOK
  <2>2. [writer |-> r, id |-> sample.id, call |-> sample.call] \in ServedRequest
    BY <2>1 DEF RequestSample, ServedRequest
  <2>3. backlog' \in [Providers -> Seq(ServedRequest)]
    BY <1>6, <2>2 DEF TakeRequest, TypeOK
  <2> QED
    BY <1>6, <2>1, <2>3 DEF TakeRequest, TypeOK, callerVars, wireVars
<1>7. ASSUME NEW p \in Providers, NEW s \in ServedRequest, NEW failed \in BOOLEAN,
             Answer(p, s, failed)
      PROVE  replies' \in [Providers -> Seq(ReplySample)]
             /\ \A q \in Providers, r \in Requesters : seen[r][q] <= Len(replies'[q])
  <2> DEFINE a == [writer |-> s.writer, related |-> IF failed THEN BadVersion(s.id) ELSE s.id,
                   of |-> s.call, failed |-> failed]
  <2>1. a \in ReplySample
    BY DEF ServedRequest, ReplySample, Ids
  <2>2. replies' = [replies EXCEPT ![p] = Append(@, a)]
    BY <1>7 DEF Answer
  <2> QED
    BY <2>1, <2>2 DEF TypeOK
<1>8. ASSUME NEW p \in Services, RunJob(p) PROVE TypeOK'
  <2>1. p \in Providers /\ Head(backlog[p]) \in ServedRequest
        /\ Tail(backlog[p]) \in Seq(ServedRequest)
    BY <1>8 DEF RunJob, TypeOK, Providers
  <2>2. replies' \in [Providers -> Seq(ReplySample)]
        /\ \A q \in Providers, r \in Requesters : seen[r][q] <= Len(replies'[q])
    BY <1>7, <1>8, <2>1 DEF RunJob
  <2>3. backlog' \in [Providers -> Seq(ServedRequest)]
    BY <1>8, <2>1 DEF RunJob, TypeOK
  <2> QED
    BY <1>8, <2>2, <2>3 DEF RunJob, TypeOK, callerVars, readerVars
<1>9. ASSUME NEW p \in Repliers, GetPendingSession(p) PROVE TypeOK'
  <2>1. p \in Providers /\ Head(backlog[p]) \in ServedRequest
        /\ Tail(backlog[p]) \in Seq(ServedRequest)
    BY <1>9 DEF GetPendingSession, TypeOK, Providers
  <2> QED
    BY <1>9, <2>1 DEF GetPendingSession, TypeOK, callerVars, wireVars, readerVars
<1>10. ASSUME NEW p \in Repliers, NEW s \in sessions[p], CloseSession(p, s) PROVE TypeOK'
  <2>1. p \in Providers /\ s \in ServedRequest
    BY DEF TypeOK, Providers
  <2>2. replies' \in [Providers -> Seq(ReplySample)]
        /\ \A q \in Providers, r \in Requesters : seen[r][q] <= Len(replies'[q])
    BY <1>7, <1>10, <2>1 DEF CloseSession
  <2> QED
    BY <1>10, <2>2 DEF CloseSession, TypeOK, callerVars, readerVars
<1>11. ASSUME NEW p \in Repliers, NEW s \in sessions[p], AbandonSession(p, s) PROVE TypeOK'
  BY <1>11 DEF AbandonSession, TypeOK, callerVars, wireVars, readerVars
<1>12. ASSUME NEW p \in Repliers, RestartReplier(p) PROVE TypeOK'
  BY <1>12 DEF RestartReplier, TypeOK, callerVars, Providers
<1>13. CASE UNCHANGED vars
  BY <1>13 DEF TypeOK, vars, callerVars, wireVars, readerVars, serverVars
<1> QED
  BY <1>1, <1>2, <1>3, <1>4, <1>5, <1>6, <1>8, <1>9, <1>10, <1>11, <1>12, <1>13
  DEF Next, CallerStep, ReplierStep

\* Type correctness of the request/reply components for every instance.
THEOREM TypeCorrect == Spec => []TypeOK
BY TypeInit, TypeStep, PTL DEF Spec

-----------------------------------------------------------------------------
\* What one step does to the promises: it leaves them alone, files one for a
\* fresh call, sets and removes one, or breaks all those of one requester.
LEMMA PromiseSteps ==
  ASSUME TypeOK, [Next]_vars
  PROVE  \/ UNCHANGED <<m_requests, future, made>>
         \/ \E t \in Callers : RegisterRequest(t)
         \/ \E r \in Requesters, p \in Providers, e \in PendingEntry, st \in {"value", "error"} :
              /\ e \in m_requests[r]
              /\ Resolve(r, e, st, replies[p][seen[r][p] + 1])
              /\ UNCHANGED made
         \/ \E r \in Requesters : DestroyRequester(r)
<1>1. ASSUME NEW r \in Requesters, NEW p \in Providers, OnReply(r, p)
      PROVE  \/ UNCHANGED <<m_requests, future, made>>
             \/ \E e \in PendingEntry, st \in {"value", "error"} :
                  /\ e \in m_requests[r]
                  /\ Resolve(r, e, st, replies[p][seen[r][p] + 1])
                  /\ UNCHANGED made
  BY <1>1, Zenon DEF OnReply, Pending, TypeOK
<1> QED
  BY <1>1, Zenon DEF Next, CallerStep, ReplierStep, PublishRequest, PublishFails, TakeRequest, RunJob,
     GetPendingSession, CloseSession, AbandonSession, RestartReplier, vars, callerVars

\* At first there is no promise.
LEMMA PromisesInit == Init => PromisesOpen
BY DEF Init, PromisesOpen, Held

\* Every step keeps PromisesOpen and leaves set promises alone.
LEMMA PromisesStep == TypeOK /\ PromisesOpen /\ [Next]_vars => PromisesOpen' /\ PromiseKept
<1> SUFFICES ASSUME TypeOK, PromisesOpen, [Next]_vars PROVE PromisesOpen' /\ PromiseKept
  OBVIOUS
<1> USE MaxCallsAssumption, RequesterOfAssumption
<1>1. CASE UNCHANGED <<m_requests, future, made>>
  BY <1>1 DEF PromisesOpen, PromiseKept
<1>2. ASSUME NEW t \in Callers, RegisterRequest(t) PROVE PromisesOpen' /\ PromiseKept
  <2> DEFINE r == RequesterOf[t]
             c == made + 1
             n == [id |-> Increment(m_sessionId[r]), call |-> c]
  <2>1. /\ made' = c /\ c \in Calls /\ r \in Requesters
        /\ m_requests' = [m_requests EXCEPT ![r] = @ \cup {n}]
        /\ future' = [future EXCEPT ![c] = Held("pending")]
    BY <1>2 DEF RegisterRequest, TypeOK, Calls
  <2>2. future[c].is = "unmade" /\ future'[c].is = "pending"
        /\ \A d \in Calls : d # c => future'[d] = future[d]
    BY <2>1 DEF PromisesOpen, Held, TypeOK, Calls
  <2>3. \A q \in Requesters : m_requests'[q] \subseteq m_requests[q] \cup {n}
        /\ (q # r => m_requests'[q] = m_requests[q])
    BY <2>1 DEF TypeOK
  <2>4. \A q \in Requesters : \A e \in m_requests[q] : e.call \in Calls /\ e.call <= made
    BY DEF PromisesOpen, TypeOK, PendingEntry
  <2>5. PromiseKept
    BY <2>2 DEF PromiseKept
  <2>6. \A q \in Requesters : \A e \in m_requests'[q] : future'[e.call].is = "pending" /\ e.call <= made'
    BY <2>1, <2>2, <2>3, <2>4 DEF PromisesOpen, TypeOK, Calls
  <2>7. \A q, o \in Requesters : \A e \in m_requests'[q], f \in m_requests'[o] :
           e.call = f.call => q = o /\ e = f
    BY <2>1, <2>3, <2>4 DEF PromisesOpen, TypeOK, Calls
  <2>8. \A d \in Calls : d > made' => future'[d].is = "unmade"
    BY <2>1, <2>2 DEF PromisesOpen, TypeOK, Calls
  <2> QED
    BY <2>5, <2>6, <2>7, <2>8 DEF PromisesOpen
<1>3. ASSUME NEW r \in Requesters, NEW p \in Providers, NEW e \in m_requests[r],
             NEW st \in {"value", "error"},
             Resolve(r, e, st, replies[p][seen[r][p] + 1]), UNCHANGED made
      PROVE  PromisesOpen' /\ PromiseKept
  <2>1. /\ e \in PendingEntry /\ e.call \in Calls
        /\ future[e.call].is = "pending"
        /\ \A d \in Calls : d # e.call => future'[d] = future[d]
    BY <1>3 DEF Resolve, TypeOK, PromisesOpen, PendingEntry
  <2>2. \A q \in Requesters : m_requests'[q] \subseteq m_requests[q]
        /\ (q = r => e \notin m_requests'[q])
    BY <1>3 DEF Resolve, TypeOK
  <2>3. \A q \in Requesters : \A f \in m_requests'[q] : f.call \in Calls /\ f.call # e.call
    <3> SUFFICES ASSUME NEW q \in Requesters, NEW f \in m_requests'[q]
                 PROVE  f.call \in Calls /\ f.call # e.call
      OBVIOUS
    <3>1. f \in m_requests[q] /\ (q = r => f # e)
      BY <2>2
    <3>2. f \in PendingEntry
      BY <3>1 DEF TypeOK
    <3>3. f.call = e.call => q = r /\ f = e
      <4>1. \A a, b \in Requesters : \A g \in m_requests[a], h \in m_requests[b] :
               g.call = h.call => a = b /\ g = h
        BY DEF PromisesOpen
      <4> QED
        BY ONLY <3>1, <4>1, r \in Requesters, q \in Requesters, e \in m_requests[r]
    <3> QED
      BY <3>1, <3>2, <3>3 DEF PendingEntry
  <2>4. PromiseKept
    BY <2>1 DEF PromiseKept
  <2>5. \A d \in Calls : d > made => d # e.call
    BY <2>1 DEF PromisesOpen
  <2> QED
    BY <1>3, <2>1, <2>2, <2>3, <2>4, <2>5 DEF PromisesOpen
<1>4. ASSUME NEW r \in Requesters, DestroyRequester(r) PROVE PromisesOpen' /\ PromiseKept
  <2>1. /\ made' = made
        /\ \A c \in Calls : (\A e \in m_requests[r] : e.call # c) => future'[c] = future[c]
        /\ \A q \in Requesters : m_requests'[q] = IF q = r THEN {} ELSE m_requests[q]
    BY <1>4 DEF DestroyRequester, TypeOK
  <2>2. \A q \in Requesters : \A f \in m_requests'[q] :
           /\ q # r /\ f \in m_requests[q] /\ f.call \in Calls
           /\ \A e \in m_requests[r] : e.call # f.call
    BY <2>1 DEF PromisesOpen, TypeOK, PendingEntry
  <2>3. PromiseKept
    BY <2>1 DEF PromiseKept, PromisesOpen
  <2>4. \A d \in Calls : d > made' => future'[d].is = "unmade"
    BY <2>1 DEF PromisesOpen
  <2>5. \A q \in Requesters : \A f \in m_requests'[q] : future'[f.call].is = "pending" /\ f.call <= made'
    BY <2>1, <2>2 DEF PromisesOpen
  <2>6. \A q, o \in Requesters : \A e \in m_requests'[q], f \in m_requests'[o] :
           e.call = f.call => q = o /\ e = f
    BY <2>2 DEF PromisesOpen
  <2> QED
    BY <2>3, <2>4, <2>5, <2>6 DEF PromisesOpen
<1> QED
  BY <1>1, <1>2, <1>3, <1>4, PromiseSteps

\* Every promise in m_requests is unset and belongs to one call.
THEOREM PromisesStayOpen == Spec => []PromisesOpen
  BY TypeInit, TypeStep, PromisesInit, PromisesStep, PTL DEF Spec

\* No promise is set twice, whatever the threads, providers and restarts do.
THEOREM PromiseOnce == Spec => PromiseSetOnce
<1>1. Spec => [](TypeOK /\ PromisesOpen)
  BY TypeInit, TypeStep, PromisesInit, PromisesStep, PTL DEF Spec
<1>2. TypeOK /\ PromisesOpen /\ [Next]_vars => [PromiseKept]_vars
  BY PromisesStep
<1> QED
  BY <1>1, <1>2, PTL DEF Spec, PromiseSetOnce

-----------------------------------------------------------------------------
(* The ids: under disciplined use request() draws the number its writer gives *)
(* the sample, and files the promise under it.                                *)

\* At first there are no ids to correlate.
LEMMA CorrelationInit == Init => Correlation /\ RightAnswer
<1> SUFFICES ASSUME Init PROVE Correlation /\ RightAnswer
  OBVIOUS
<1>1. NumbersInStep
  BY DEF Init, NumbersInStep, Zero
<1>2. PromisesFiled /\ RequestsTraced /\ RepliesTraced
  BY DEF Init, PromisesFiled, RequestsTraced, RepliesTraced, Providers
<1>3. RightAnswer
  BY DEF Init, RightAnswer, Held
<1> QED
  BY <1>1, <1>2, <1>3 DEF Correlation

\* A sample once written stays in the writer's history.
LEMMA SentStays ==
  ASSUME TypeOK, [Next]_vars, NEW w \in Requesters, NEW id, NEW c, Sent(w, id, c)
  PROVE  Sent(w, id, c)'
<1>1. ASSUME NEW t \in Callers, PublishRequest(t) PROVE Sent(w, id, c)'
  <2> DEFINE r == RequesterOf[t]
  <2>1. \E x : requests' = [requests EXCEPT ![r] = Append(@, x)]
    BY <1>1, Zenon DEF PublishRequest
  <2>2. /\ Len(requests[w]) <= Len(requests'[w])
        /\ \A n \in 1 .. Len(requests[w]) : requests'[w][n] = requests[w][n]
    BY <2>1, RequesterOfAssumption DEF TypeOK
  <2>3. Len(requests[w]) \in Nat /\ Len(requests'[w]) \in Nat
    BY <2>1, RequesterOfAssumption DEF TypeOK
  <2> QED
    BY <2>2, <2>3 DEF Sent
<1>2. CASE requests' = requests
  BY <1>2 DEF Sent
<1>3. ASSUME NEW t \in Callers, CallerStep(t) PROVE Sent(w, id, c)'
  BY <1>1, <1>2, <1>3 DEF CallerStep, RegisterRequest, PublishFails, wireVars
<1>4. ASSUME NEW r, NEW p, OnReply(r, p) \/ TakeRequest(p, r) PROVE requests' = requests
  BY <1>4, Zenon DEF OnReply, TakeRequest, wireVars
<1>5. ASSUME NEW r \in Requesters, DestroyRequester(r) PROVE requests' = requests
  BY <1>5 DEF DestroyRequester, wireVars
<1>6. ASSUME NEW p, RunJob(p) PROVE requests' = requests
  BY <1>6 DEF RunJob
<1>7. ASSUME NEW p, ReplierStep(p) PROVE requests' = requests
  BY <1>7 DEF ReplierStep, GetPendingSession, CloseSession, AbandonSession, RestartReplier, wireVars
<1>8. CASE UNCHANGED vars
  BY <1>2, <1>8 DEF vars, wireVars
<1> QED
  BY <1>2, <1>3, <1>4, <1>5, <1>6, <1>7, <1>8, Zenon DEF Next

\* Registering draws the number the writer will give the sample.
LEMMA RegisterInStep ==
  ASSUME TypeOK, Correlation, Disciplined, NEW t \in Callers, RegisterRequest(t)
  PROVE  NumbersInStep' /\ PromisesFiled'
<1> USE MaxCallsAssumption, RequesterOfAssumption, HalfAssumption
<1> DEFINE r == RequesterOf[t]
           L == Len(requests[r])
           id == Increment(m_sessionId[r])
           c == made + 1
           e == [id |-> id, call |-> c]
<1>1. /\ r \in Requesters /\ window[t] = Idle /\ made < MaxCalls /\ made' = c
      /\ m_sessionId' = [m_sessionId EXCEPT ![r] = id]
      /\ m_requests' = [m_requests EXCEPT ![r] = @ \cup {e}]
      /\ window' = [window EXCEPT ![t] = e]
      /\ requests' = requests /\ lastChange' = lastChange
  BY DEF RegisterRequest, wireVars
<1>2. \A u \in Callers : RequesterOf[u] = r => u = t
  BY DEF Disciplined
<1>3. m_sessionId[r] = <<0, L>> /\ L \in Nat /\ L <= made
  <2>1. m_sessionId[r] = lastChange[r] /\ lastChange[r] = <<0, L>> /\ m_sessionId[r][2] <= made
    BY <1>1, <1>2 DEF Correlation, NumbersInStep
  <2>2. L \in Nat
    BY <1>1 DEF TypeOK
  <2> QED
    BY <2>1, <2>2
<1>4. id = <<0, L + 1>>
  <2>1. L + 1 < Half
    BY <1>1, <1>3 DEF Disciplined, TypeOK
  <2>2. Successor(<<0, L>>) = <<0, L + 1>>
    BY <2>1 DEF Successor
  <2>3. <<0, L + 1>> # Zero
    BY <1>3 DEF Zero
  <2> QED
    BY <1>3, <2>2, <2>3 DEF Increment
<1>5. e # Idle /\ window'[t] = e /\ \A u \in Callers : u # t => window'[u] = window[u]
  <2>1. made \in Nat
    BY DEF TypeOK
  <2>2. e.call = made + 1 /\ Idle.call = 0
    BY DEF Idle, NoCall
  <2>3. e # Idle
    BY <2>1, <2>2
  <2>4. DOMAIN window = Callers
    BY DEF TypeOK
  <2>5. window' = [window EXCEPT ![t] = e]
    BY <1>1
  <2> HIDE DEF e
  <2>6. window'[t] = e /\ \A u \in Callers : u # t => window'[u] = window[u]
    BY <2>4, <2>5
  <2> QED
    BY <2>3, <2>6
<1>6. /\ m_sessionId'[r] = <<0, L + 1>>
      /\ \A q \in Requesters : q # r => m_sessionId'[q] = m_sessionId[q]
  BY <1>1, <1>4 DEF TypeOK
<1>7. NumbersInStep'
  <2>1. ASSUME NEW q \in Requesters
        PROVE  /\ lastChange'[q] = <<0, Len(requests'[q])>>
               /\ \A i \in 1 .. Len(requests'[q]) : requests'[q][i].id = <<0, i>>
    BY <1>1 DEF Correlation, NumbersInStep
  <2>2. ASSUME NEW q \in Requesters PROVE m_sessionId'[q][2] <= made'
    <3>1. CASE q = r
      <4>1. L + 1 <= made + 1
        BY <1>3 DEF TypeOK
      <4> QED
        BY <3>1, <4>1, <1>1, <1>6
    <3>2. CASE q # r
      <4>1. m_sessionId[q][2] \in Nat /\ m_sessionId[q][2] <= made
        <5>1. m_sessionId[q] \in HalfWord \X HalfWord
          BY DEF TypeOK, Ids, Sequence
        <5>2. m_sessionId[q][2] \in HalfWord
          BY <5>1
        <5>3. m_sessionId[q][2] <= made
          BY DEF Correlation, NumbersInStep
        <5> QED
          BY <5>2, <5>3 DEF HalfWord
      <4> QED
        BY <3>2, <4>1, <1>1, <1>6 DEF TypeOK
    <3> QED
      BY <3>1, <3>2
  <2>3. ASSUME NEW q \in Requesters
        PROVE  m_sessionId'[q] = lastChange'[q]
               \/ \E u \in Callers : RequesterOf[u] = q /\ window'[u] # Idle
    BY <1>1, <1>5, <1>6 DEF Correlation, NumbersInStep
  <2>4. ASSUME NEW u \in Callers, window'[u] # Idle
        PROVE  /\ window'[u].id = <<0, Len(requests'[RequesterOf[u]]) + 1>>
               /\ window'[u].id = m_sessionId'[RequesterOf[u]]
    <3>1. CASE u = t
      <4>1. window'[u].id = <<0, L + 1>>
        <5>1. window'[u] = e
          BY <3>1, <1>5
        <5>2. e.id = id
          OBVIOUS
        <5> QED
          BY <5>1, <5>2, <1>4
      <4> QED
        BY <3>1, <4>1, <1>1, <1>6
    <3>2. CASE u # t
      <4>1. RequesterOf[u] # r /\ RequesterOf[u] \in Requesters
        BY <3>2, <1>2
      <4>2. window'[u] = window[u] /\ window[u] # Idle
        BY <2>4, <3>2, <1>5
      <4>3. /\ window[u].id = <<0, Len(requests[RequesterOf[u]]) + 1>>
            /\ window[u].id = m_sessionId[RequesterOf[u]]
        BY <4>2 DEF Correlation, NumbersInStep
      <4>4. m_sessionId'[RequesterOf[u]] = m_sessionId[RequesterOf[u]] /\ requests' = requests
        BY <4>1, <1>1, <1>6
      <4> QED
        BY <4>2, <4>3, <4>4
    <3> QED
      BY <3>1, <3>2
  <2> QED
    BY <2>1, <2>2, <2>3, <2>4 DEF NumbersInStep
<1>8. PromisesFiled'
  <2> SUFFICES ASSUME NEW q \in Requesters, NEW f \in m_requests'[q]
               PROVE  Sent(q, f.id, f.call)'
                      \/ \E u \in Callers : RequesterOf[u] = q /\ window'[u] = f
    BY DEF PromisesFiled
  <2>1. f \in m_requests[q] \/ (q = r /\ f = e)
    BY <1>1 DEF TypeOK
  <2>2. CASE f = e /\ q = r
    BY <2>2, <1>5
  <2>3. CASE f \in m_requests[q]
    <3>1. f # Idle
      BY <2>3 DEF TypeOK, PendingEntry, Calls, Idle, NoCall
    <3> QED
      BY <2>3, <3>1, <1>1, <1>5 DEF Correlation, PromisesFiled, Sent
  <2> QED
    BY <2>1, <2>2, <2>3
<1> QED
  BY <1>7, <1>8

\* Publishing turns the promise of the thread's call into a sent one.
LEMMA PublishInStep ==
  ASSUME TypeOK, Correlation, Disciplined, NEW t \in Callers, PublishRequest(t)
  PROVE  NumbersInStep' /\ PromisesFiled'
<1> USE MaxCallsAssumption, RequesterOfAssumption, HalfAssumption
<1> DEFINE r == RequesterOf[t]
           L == Len(requests[r])
           n == Successor(lastChange[r])
           x == [id |-> n, call |-> window[t].call]
<1>1. /\ r \in Requesters /\ window[t] # Idle /\ made' = made
      /\ m_sessionId' = m_sessionId /\ m_requests' = m_requests
      /\ lastChange' = [lastChange EXCEPT ![r] = n]
      /\ requests' = [requests EXCEPT ![r] = Append(@, x)]
      /\ window' = [window EXCEPT ![t] = Idle]
  BY DEF PublishRequest
<1>2. \A u \in Callers : RequesterOf[u] = r => u = t
  BY DEF Disciplined
<1>3. L \in Nat /\ lastChange[r] = <<0, L>> /\ requests[r] \in Seq(RequestSample)
  <2>1. requests[r] \in Seq(RequestSample)
    BY <1>1 DEF TypeOK
  <2>2. lastChange[r] = <<0, L>>
    BY <1>1 DEF Correlation, NumbersInStep
  <2> QED
    BY <2>1, <2>2
<1>4. window[t].id = <<0, L + 1>> /\ m_sessionId[r] = <<0, L + 1>> /\ window[t] \in PendingEntry
  <2>1. NumbersInStep
    BY DEF Correlation
  <2>2. window[t].id = <<0, L + 1>> /\ window[t].id = m_sessionId[r]
    BY <1>1, <2>1 DEF NumbersInStep
  <2>3. window \in [Callers -> PendingEntry \cup {Idle}]
    BY DEF TypeOK
  <2>4. window[t] \in PendingEntry
    BY <1>1, <2>3
  <2> QED
    BY <2>2, <2>4
<1>5. L + 1 < Half
  BY <1>3, <1>4 DEF PendingEntry, Ids, Sequence, HalfWord
<1>6. n = <<0, L + 1>>
  BY <1>3, <1>5 DEF Successor
<1>7. /\ Len(requests'[r]) = L + 1
      /\ requests'[r][L + 1] = x
      /\ \A i \in 1 .. L : requests'[r][i] = requests[r][i]
      /\ \A q \in Requesters : q # r => requests'[q] = requests[q] /\ lastChange'[q] = lastChange[q]
      /\ lastChange'[r] = n
  <2>1. DOMAIN requests = Requesters /\ DOMAIN lastChange = Requesters
    BY DEF TypeOK
  <2>2. /\ requests' = [requests EXCEPT ![r] = Append(requests[r], x)]
        /\ lastChange' = [lastChange EXCEPT ![r] = n]
        /\ r \in Requesters
    BY <1>1
  <2> HIDE DEF n, x
  <2>3. /\ requests'[r] = Append(requests[r], x)
        /\ lastChange'[r] = n
        /\ \A q \in Requesters : q # r => requests'[q] = requests[q] /\ lastChange'[q] = lastChange[q]
    BY <2>1, <2>2
  <2>4. /\ Len(Append(requests[r], x)) = L + 1
        /\ Append(requests[r], x)[L + 1] = x
        /\ \A i \in 1 .. L : Append(requests[r], x)[i] = requests[r][i]
    BY <1>3
  <2> QED
    BY <2>3, <2>4
<1>8. window'[t] = Idle /\ \A u \in Callers : u # t => window'[u] = window[u]
  BY <1>1 DEF TypeOK
<1>9. NumbersInStep'
  <2>0. NumbersInStep
    BY DEF Correlation
  <2>1. ASSUME NEW q \in Requesters
        PROVE  /\ lastChange'[q] = <<0, Len(requests'[q])>>
               /\ \A i \in 1 .. Len(requests'[q]) : requests'[q][i].id = <<0, i>>
    <3>1. CASE q = r
      <4>1. ASSUME NEW i \in 1 .. L + 1 PROVE requests'[r][i].id = <<0, i>>
        <5>1. CASE i = L + 1
          BY <5>1, <1>6, <1>7
        <5>2. CASE i \in 1 .. L
          <6>1. requests[r][i].id = <<0, i>>
            BY <5>2, <1>1, <2>0 DEF NumbersInStep
          <6> QED
            BY <5>2, <6>1, <1>7
        <5> QED
          BY <5>1, <5>2, <1>3
      <4> QED
        BY <3>1, <4>1, <1>6, <1>7
    <3>2. CASE q # r
      <4>1. requests'[q] = requests[q] /\ lastChange'[q] = lastChange[q]
        BY <3>2, <1>7
      <4>2. /\ lastChange[q] = <<0, Len(requests[q])>>
            /\ \A i \in 1 .. Len(requests[q]) : requests[q][i].id = <<0, i>>
        BY <2>0 DEF NumbersInStep
      <4> QED
        BY <4>1, <4>2
    <3> QED
      BY <3>1, <3>2
  <2>2. ASSUME NEW q \in Requesters
        PROVE  /\ m_sessionId'[q][2] <= made'
               /\ \/ m_sessionId'[q] = lastChange'[q]
                  \/ \E u \in Callers : RequesterOf[u] = q /\ window'[u] # Idle
    <3>1. m_sessionId'[q][2] <= made'
      BY <1>1, <2>0 DEF NumbersInStep
    <3>2. CASE q = r
      <4>1. m_sessionId'[r] = <<0, L + 1>> /\ lastChange'[r] = <<0, L + 1>>
        BY <1>1, <1>4, <1>6, <1>7
      <4> QED
        BY <3>1, <3>2, <4>1
    <3>3. CASE q # r
      <4>1. CASE m_sessionId[q] = lastChange[q]
        <5>1. m_sessionId'[q] = m_sessionId[q]
          BY <1>1
        <5>2. lastChange'[q] = lastChange[q]
          BY <1>7, <3>3
        <5> QED
          BY <3>1, <4>1, <5>1, <5>2
      <4>2. ASSUME NEW u \in Callers, RequesterOf[u] = q, window[u] # Idle
            PROVE  window'[u] # Idle
        <5>1. u # t
          BY <3>3, <4>2
        <5> QED
          BY <5>1, <4>2, <1>8
      <4>3. \/ m_sessionId[q] = lastChange[q]
            \/ \E u \in Callers : RequesterOf[u] = q /\ window[u] # Idle
        BY <2>0 DEF NumbersInStep
      <4> QED
        BY <3>1, <4>1, <4>2, <4>3
    <3> QED
      BY <3>2, <3>3
  <2>3. ASSUME NEW u \in Callers, window'[u] # Idle
        PROVE  /\ window'[u].id = <<0, Len(requests'[RequesterOf[u]]) + 1>>
               /\ window'[u].id = m_sessionId'[RequesterOf[u]]
    <3>1. u # t
      BY <2>3, <1>8
    <3>2. RequesterOf[u] # r /\ RequesterOf[u] \in Requesters
      BY <3>1, <1>2
    <3>3. window'[u] = window[u] /\ window[u] # Idle
      BY <2>3, <3>1, <1>8
    <3>4. /\ window[u].id = <<0, Len(requests[RequesterOf[u]]) + 1>>
          /\ window[u].id = m_sessionId[RequesterOf[u]]
      BY <2>0, <3>3 DEF NumbersInStep
    <3>5. requests'[RequesterOf[u]] = requests[RequesterOf[u]] /\ m_sessionId' = m_sessionId
      BY <1>1, <1>7, <3>2
    <3> QED
      BY <3>3, <3>4, <3>5
  <2> QED
    BY <2>1, <2>2, <2>3 DEF NumbersInStep
<1>10. PromisesFiled'
  <2> SUFFICES ASSUME NEW q \in Requesters, NEW f \in m_requests[q]
               PROVE  Sent(q, f.id, f.call)'
                      \/ \E u \in Callers : RequesterOf[u] = q /\ window'[u] = f
    BY <1>1 DEF PromisesFiled
  <2>1. CASE Sent(q, f.id, f.call)
    <3>1. Next
      BY DEF Next, CallerStep
    <3> QED
      BY <2>1, <3>1, SentStays
  <2>2. ASSUME NEW u \in Callers, RequesterOf[u] = q, window[u] = f, u # t
        PROVE  window'[u] = f
    BY <2>2, <1>8
  <2>3. CASE q = r /\ window[t] = f
    <3>1. f.id = <<0, L + 1>> /\ requests'[r][L + 1].call = f.call
      <4>1. requests'[r][L + 1] = x /\ x.call = window[t].call
        BY <1>7
      <4> QED
        BY <2>3, <1>4, <4>1
    <3>2. L + 1 \in 1 .. Len(requests'[r])
      <4>1. L \in Nat /\ Len(requests'[r]) = L + 1
        BY <1>3, <1>7
      <4> HIDE DEF L
      <4> QED
        BY <4>1
    <3>3. \E k \in 1 .. Len(requests'[q]) : f.id = <<0, k>> /\ requests'[q][k].call = f.call
      BY <2>3, <3>1, <3>2
    <3> QED
      BY <3>3 DEF Sent
  <2>4. \/ Sent(q, f.id, f.call)
        \/ \E u \in Callers : RequesterOf[u] = q /\ window[u] = f
    BY Zenon DEF Correlation, PromisesFiled
  <2>5. CASE \E u \in Callers : RequesterOf[u] = q /\ window[u] = f
    <3>1. PICK u \in Callers : RequesterOf[u] = q /\ window[u] = f
      BY <2>5
    <3>2. CASE u = t
      BY <2>3, <3>1, <3>2
    <3>3. CASE u # t
      BY <2>2, <3>1, <3>3
    <3> QED
      BY <3>2, <3>3
  <2> QED
    BY <2>1, <2>4, <2>5, Zenon
<1> QED
  BY <1>9, <1>10

-----------------------------------------------------------------------------
(* The answers: with the ids in step, every reply is traced to the request it *)
(* answers, and every future gets the answer to its own call.                 *)

\* What is in a sequence after Append: an old entry in its place, or the new one.
LEMMA AppendEntries ==
  ASSUME NEW S, NEW q \in Seq(S), NEW x, NEW i \in 1 .. Len(Append(q, x))
  PROVE  \/ i \in 1 .. Len(q) /\ Append(q, x)[i] = q[i]
         \/ Append(q, x)[i] = x
<1>1. Len(q) \in Nat /\ Len(Append(q, x)) = Len(q) + 1
  OBVIOUS
<1>2. i \in 1 .. Len(q) \/ i = Len(q) + 1
  BY <1>1
<1>3. CASE i \in 1 .. Len(q)
  BY <1>3
<1>4. CASE i = Len(q) + 1
  BY <1>1, <1>4
<1> QED
  BY <1>2, <1>3, <1>4, Zenon

\* Requests that are taken, opened or dropped keep the number they came with.
LEMMA RequestsTracedStep ==
  ASSUME TypeOK, Correlation, [Next]_vars PROVE RequestsTraced'
<1> DEFINE Traced(s) == s \in ServedRequest /\ Sent(s.writer, s.id, s.call)
           Still(s) == Sent(s.writer, s.id, s.call)'
<1>1. ASSUME NEW s, Traced(s) PROVE Still(s)
  BY <1>1, SentStays DEF ServedRequest
<1>2. \A p \in Providers : backlog[p] \in Seq(ServedRequest)
         /\ \A i \in 1 .. Len(backlog[p]) : Traced(backlog[p][i])
  <2>1. ASSUME NEW p \in Providers PROVE backlog[p] \in Seq(ServedRequest)
    BY <2>1, Zenon DEF TypeOK
  <2>2. ASSUME NEW p \in Providers, NEW i \in 1 .. Len(backlog[p])
        PROVE  backlog[p][i] \in ServedRequest
    BY <2>1, <2>2
  <2> QED
    BY <2>1, <2>2, Zenon DEF Correlation, RequestsTraced
<1>3. \A p \in Repliers : \A s \in sessions[p] : Traced(s)
  BY Zenon DEF TypeOK, Correlation, RequestsTraced
<1>4. ASSUME \A p \in Providers : \A i \in 1 .. Len(backlog'[p]) : Traced(backlog'[p][i]),
             \A p \in Repliers : \A s \in sessions'[p] : Traced(s)
      PROVE  RequestsTraced'
  BY <1>1, <1>4 DEF RequestsTraced
<1> HIDE DEF Traced, Still
<1>5. ASSUME NEW p \in Providers, backlog[p] # <<>>
      PROVE  /\ Traced(Head(backlog[p]))
             /\ \A i \in 1 .. Len(Tail(backlog[p])) : Traced(Tail(backlog[p])[i])
  <2>1. /\ backlog[p] \in Seq(ServedRequest) /\ Head(backlog[p]) = backlog[p][1]
        /\ 1 \in 1 .. Len(backlog[p])
        /\ \A i \in 1 .. Len(Tail(backlog[p])) : /\ Tail(backlog[p])[i] = backlog[p][i + 1]
                                                  /\ i + 1 \in 1 .. Len(backlog[p])
    BY <1>2, <1>5
  <2> QED
    BY <2>1, <1>2
<1>6. CASE UNCHANGED <<backlog, sessions>>
  BY <1>2, <1>3, <1>4, <1>6, Zenon
<1>7. ASSUME NEW p \in Providers, NEW r \in Requesters, TakeRequest(p, r) PROVE RequestsTraced'
  <2> DEFINE k == taken[p][r] + 1
             x == [writer |-> r, id |-> requests[r][k].id, call |-> requests[r][k].call]
  <2>1. /\ k \in 1 .. Len(requests[r]) /\ requests[r][k] \in RequestSample
        /\ backlog' = [backlog EXCEPT ![p] = Append(@, x)] /\ sessions' = sessions
    BY <1>7 DEF TakeRequest, TypeOK
  <2>2. requests[r][k].id = <<0, k>>
    BY <2>1 DEF Correlation, NumbersInStep
  <2> x.writer = r /\ x.id = requests[r][k].id /\ x.call = requests[r][k].call
    BY Zenon
  <2>3. Sent(x.writer, x.id, x.call)
    BY <2>1, <2>2, Zenon DEF Sent
  <2>4. Traced(x)
    BY <2>1, <2>3, Zenon DEF Traced, ServedRequest, RequestSample
  <2>5. ASSUME NEW q \in Providers, NEW i \in 1 .. Len(backlog'[q]) PROVE Traced(backlog'[q][i])
    <3>1. CASE q # p
      <4>1. backlog'[q] = backlog[q]
        BY <2>1, <3>1, Zenon DEF TypeOK
      <4> QED
        BY <4>1, <1>2, Zenon
    <3>2. CASE q = p
      <4>1. backlog'[p] = Append(backlog[p], x)
        BY <2>1, Zenon DEF TypeOK
      <4>2. \/ i \in 1 .. Len(backlog[p]) /\ backlog'[q][i] = backlog[p][i]
            \/ backlog'[q][i] = x
        <5>1. backlog[p] \in Seq(ServedRequest) /\ i \in 1 .. Len(Append(backlog[p], x))
          BY <4>1, <3>2, <1>2, Zenon
        <5>2. \/ i \in 1 .. Len(backlog[p]) /\ Append(backlog[p], x)[i] = backlog[p][i]
              \/ Append(backlog[p], x)[i] = x
          BY <5>1, AppendEntries
        <5> QED
          BY <4>1, <5>2, <3>2, Zenon
      <4> QED
        BY <4>2, <1>2, <2>4, Zenon
    <3> QED
      BY <3>1, <3>2, Zenon
  <2> QED
    BY <2>1, <2>5, <1>3, <1>4, Zenon
<1>8. ASSUME NEW p \in Providers, backlog[p] # <<>>,
             backlog' = [backlog EXCEPT ![p] = Tail(@)]
      PROVE  \A q \in Providers : \A i \in 1 .. Len(backlog'[q]) : Traced(backlog'[q][i])
  BY <1>2, <1>5, <1>8 DEF TypeOK
<1>9. ASSUME NEW p \in Services, RunJob(p) PROVE RequestsTraced'
  BY <1>3, <1>4, <1>8, <1>9, Zenon DEF RunJob, Providers
<1>10. ASSUME NEW p \in Repliers, GetPendingSession(p) PROVE RequestsTraced'
  <2>1. /\ p \in Providers /\ backlog[p] # <<>> /\ backlog' = [backlog EXCEPT ![p] = Tail(@)]
        /\ sessions' = [sessions EXCEPT ![p] = @ \cup {Head(backlog[p])}]
    BY <1>10 DEF GetPendingSession, Providers
  <2>2. \A q \in Repliers : \A s \in sessions'[q] : Traced(s)
    BY <2>1, <1>3, <1>5 DEF TypeOK
  <2> QED
    BY <2>1, <2>2, <1>4, <1>8, Zenon
<1>11. ASSUME NEW p \in Repliers, NEW s \in sessions[p], CloseSession(p, s) \/ AbandonSession(p, s)
       PROVE  RequestsTraced'
  BY <1>2, <1>3, <1>4, <1>11, Zenon DEF CloseSession, AbandonSession, TypeOK
<1>12. ASSUME NEW p \in Repliers, RestartReplier(p) PROVE RequestsTraced'
  BY <1>2, <1>3, <1>4, <1>12 DEF RestartReplier, TypeOK
<1>13. ASSUME NEW t, CallerStep(t) PROVE UNCHANGED <<backlog, sessions>>
  BY <1>13 DEF CallerStep, RegisterRequest, PublishRequest, PublishFails, serverVars
<1>14. ASSUME NEW r, NEW p, DestroyRequester(r) \/ OnReply(r, p) PROVE UNCHANGED <<backlog, sessions>>
  BY <1>14, Zenon DEF DestroyRequester, OnReply, serverVars
<1>15. ASSUME NEW p \in Repliers, ReplierStep(p) PROVE RequestsTraced'
  BY <1>10, <1>11, <1>12, <1>15, Zenon DEF ReplierStep
<1>16. CASE UNCHANGED vars
  BY <1>6, <1>16 DEF vars, serverVars
<1> QED
  BY <1>6, <1>7, <1>9, <1>13, <1>14, <1>15, <1>16, Zenon DEF Next

\* A reply is addressed to the number of the request it answers.
LEMMA RepliesTracedStep ==
  ASSUME TypeOK, Correlation, [Next]_vars PROVE RepliesTraced'
<1> DEFINE About(s) == IF s.failed THEN BadVersion(s.related) ELSE s.related
           Traced(s) == s \in ReplySample /\ Sent(s.writer, About(s), s.of)
<1>1. ASSUME NEW s, Traced(s) PROVE Sent(s.writer, About(s), s.of)'
  BY <1>1, SentStays DEF ReplySample
<1>2. \A p \in Providers : replies[p] \in Seq(ReplySample)
         /\ \A i \in 1 .. Len(replies[p]) : Traced(replies[p][i])
  BY DEF TypeOK, Correlation, RepliesTraced
<1>3. ASSUME \A p \in Providers : \A i \in 1 .. Len(replies'[p]) : Traced(replies'[p][i])
      PROVE  RepliesTraced'
  BY <1>1, <1>3 DEF RepliesTraced
<1>4. ASSUME NEW p \in Providers, NEW s \in ServedRequest, NEW failed \in BOOLEAN,
             Sent(s.writer, s.id, s.call), Answer(p, s, failed)
      PROVE  RepliesTraced'
  <2> DEFINE a == [writer |-> s.writer, related |-> IF failed THEN BadVersion(s.id) ELSE s.id,
                   of |-> s.call, failed |-> failed]
  <2>1. a \in ReplySample
    BY SequenceClosed DEF ServedRequest, ReplySample, Ids
  <2>2. About(a) = s.id
    BY BadVersionInvolution DEF ServedRequest, Ids
  <2>3. Traced(a)
    BY <1>4, <2>1, <2>2
  <2>4. replies' = [replies EXCEPT ![p] = Append(@, a)]
    BY <1>4 DEF Answer
  <2> HIDE DEF Traced, a
  <2>5. ASSUME NEW q \in Providers, NEW i \in 1 .. Len(replies'[q]) PROVE Traced(replies'[q][i])
    <3>1. CASE q # p
      <4>1. replies'[q] = replies[q]
        BY <2>4, <3>1, Zenon DEF TypeOK
      <4> QED
        BY <4>1, <1>2, Zenon
    <3>2. CASE q = p
      <4>1. replies'[p] = Append(replies[p], a)
        BY <2>4, Zenon DEF TypeOK
      <4>2. \/ i \in 1 .. Len(replies[p]) /\ replies'[q][i] = replies[p][i]
            \/ replies'[q][i] = a
        <5>1. replies[p] \in Seq(ReplySample) /\ i \in 1 .. Len(Append(replies[p], a))
          BY <4>1, <3>2, <1>2, Zenon
        <5>2. \/ i \in 1 .. Len(replies[p]) /\ Append(replies[p], a)[i] = replies[p][i]
              \/ Append(replies[p], a)[i] = a
          BY <5>1, AppendEntries
        <5> QED
          BY <4>1, <5>2, <3>2, Zenon
      <4> QED
        BY <4>2, <1>2, <2>3, Zenon
    <3> QED
      BY <3>1, <3>2, Zenon
  <2> QED
    BY <2>5, <1>3, Zenon
<1>5. CASE replies' = replies
  BY <1>2, <1>3, <1>5, Zenon
<1>6. ASSUME NEW p \in Services, RunJob(p) PROVE RepliesTraced'
  <2>1. /\ p \in Providers /\ Head(backlog[p]) \in ServedRequest
        /\ Head(backlog[p]) = backlog[p][1] /\ 1 \in 1 .. Len(backlog[p])
    BY <1>6 DEF RunJob, TypeOK, Providers
  <2>2. Sent(Head(backlog[p]).writer, Head(backlog[p]).id, Head(backlog[p]).call)
    BY <2>1, Zenon DEF Correlation, RequestsTraced
  <2> QED
    BY <1>4, <1>6, <2>1, <2>2, Zenon DEF RunJob
<1>7. ASSUME NEW p \in Repliers, NEW s \in sessions[p], CloseSession(p, s) PROVE RepliesTraced'
  <2>1. p \in Providers /\ s \in ServedRequest /\ Sent(s.writer, s.id, s.call)
    BY Zenon DEF TypeOK, Providers, Correlation, RequestsTraced
  <2> QED
    BY <1>4, <1>7, <2>1, Zenon DEF CloseSession
<1>8. ASSUME NEW p \in Repliers, RestartReplier(p) PROVE RepliesTraced'
  <2>1. \A q \in Providers : replies'[q] = IF q = p THEN <<>> ELSE replies[q]
    BY <1>8 DEF RestartReplier, TypeOK
  <2> QED
    BY <2>1, <1>2, <1>3
<1>9. ASSUME NEW t, CallerStep(t) PROVE replies' = replies
  BY <1>9 DEF CallerStep, RegisterRequest, PublishRequest, PublishFails, wireVars
<1>10. ASSUME NEW r, DestroyRequester(r) PROVE replies' = replies
  BY <1>10 DEF DestroyRequester, wireVars
<1>11. ASSUME NEW r, NEW p, OnReply(r, p) \/ TakeRequest(p, r) PROVE replies' = replies
  BY <1>11, Zenon DEF OnReply, TakeRequest, wireVars
<1>12. ASSUME NEW p, NEW s, GetPendingSession(p) \/ AbandonSession(p, s) PROVE replies' = replies
  BY <1>12 DEF GetPendingSession, AbandonSession, wireVars
<1>13. ASSUME NEW p \in Repliers, ReplierStep(p) PROVE RepliesTraced'
  BY <1>5, <1>7, <1>8, <1>12, <1>13, Zenon DEF ReplierStep
<1>14. CASE UNCHANGED vars
  BY <1>5, <1>14 DEF vars, wireVars
<1> QED
  BY <1>5, <1>6, <1>9, <1>10, <1>11, <1>13, <1>14, Zenon DEF Next

\* A promise filed under the number a sample was sent with is the promise of
\* the call that sample carried.
LEMMA FiledIsSent ==
  ASSUME TypeOK, Correlation, NEW r \in Requesters, NEW e \in m_requests[r]
  PROVE  /\ e.id[1] = 0 /\ e.id[2] # 0
         /\ \A c : Sent(r, e.id, c) => c = e.call
<1>1. CASE Sent(r, e.id, e.call)
  <2>1. PICK i \in 1 .. Len(requests[r]) : e.id = <<0, i>> /\ requests[r][i].call = e.call
    BY <1>1 DEF Sent
  <2>2. Len(requests[r]) \in Nat
    BY DEF TypeOK
  <2>3. i # 0
    BY <2>1, <2>2
  <2>4. e.id[1] = 0 /\ e.id[2] = i
    BY <2>1
  <2>5. ASSUME NEW c, Sent(r, e.id, c) PROVE c = e.call
    <3>1. PICK j \in 1 .. Len(requests[r]) : e.id = <<0, j>> /\ requests[r][j].call = c
      BY <2>5 DEF Sent
    <3>2. e.id[2] = j
      BY <3>1
    <3> QED
      BY <2>1, <2>4, <3>1, <3>2
  <2> QED
    BY <2>3, <2>4, <2>5
<1>2. ASSUME NEW t \in Callers, RequesterOf[t] = r, window[t] = e
      PROVE  /\ e.id[1] = 0 /\ e.id[2] # 0
             /\ \A c : ~ Sent(r, e.id, c)
  <2>1. e # Idle
    <3>1. e \in PendingEntry
      BY DEF TypeOK
    <3>2. e.call \in Calls
      BY <3>1 DEF PendingEntry
    <3>3. e.call # 0
      BY <3>2, MaxCallsAssumption DEF Calls
    <3>4. Idle.call = 0
      BY DEF Idle, NoCall
    <3> QED
      BY <3>3, <3>4
  <2>2. e.id = <<0, Len(requests[r]) + 1>> /\ Len(requests[r]) \in Nat
    <3>1. Len(requests[r]) \in Nat
      BY DEF TypeOK
    <3> QED
      BY <1>2, <2>1, <3>1 DEF Correlation, NumbersInStep
  <2>3. PICK l \in Nat : l = Len(requests[r]) /\ e.id = <<0, l + 1>>
    BY <2>2
  <2>4. e.id[1] = 0 /\ e.id[2] = l + 1
    BY <2>3
  <2>5. ASSUME NEW n \in 1 .. l PROVE e.id # <<0, n>>
    <3>1. n # l + 1 /\ <<0, n>>[2] = n
      OBVIOUS
    <3> QED
      BY <2>4, <3>1
  <2> QED
    BY <2>3, <2>4, <2>5 DEF Sent
<1>3. \/ Sent(r, e.id, e.call)
      \/ \E t \in Callers : RequesterOf[t] = r /\ window[t] = e
  BY Zenon DEF Correlation, PromisesFiled
<1>4. CASE \E t \in Callers : RequesterOf[t] = r /\ window[t] = e
  <2>1. e.id[1] = 0 /\ e.id[2] # 0
    BY <1>2, <1>4, Zenon
  <2>2. \A c : ~ Sent(r, e.id, c)
    BY <1>2, <1>4, Zenon
  <2> QED
    BY <2>1, <2>2, Zenon
<1> QED
  BY <1>1, <1>3, <1>4, Zenon

\* onReply() gives a promise only what some provider answered to its call.
LEMMA ReplyRight ==
  ASSUME TypeOK, Correlation, RightAnswer,
         NEW r \in Requesters, NEW p \in Providers, OnReply(r, p)
  PROVE  RightAnswer' /\ \A q \in Requesters : m_requests'[q] \subseteq m_requests[q]
<1> DEFINE s == replies[p][seen[r][p] + 1]
           about == IF s.failed THEN BadVersion(s.related) ELSE s.related
<1>1. seen[r][p] + 1 \in 1 .. Len(replies[p])
  <2>1. seen[r][p] < Len(replies[p])
    BY Zenon DEF OnReply
  <2>2. seen[r][p] \in Nat /\ Len(replies[p]) \in Nat
    BY DEF TypeOK
  <2> QED
    BY <2>1, <2>2
<1>2. s \in ReplySample
  BY <1>1 DEF TypeOK
<1>3. Sent(s.writer, about, s.of)
  BY <1>1, Zenon DEF Correlation, RepliesTraced
<1>4. \/ UNCHANGED <<future, m_requests>>
      \/ /\ s.writer = r
         /\ \E e \in m_requests[r] : e.id = s.related /\ Resolve(r, e, "value", s)
      \/ /\ s.writer = r
         /\ \E e \in m_requests[r] : e.id = BadVersion(s.related) /\ Resolve(r, e, "error", s)
  <2>1. \/ UNCHANGED <<future, m_requests>>
        \/ \E e \in IF s.writer = r THEN Pending(r, s.related) ELSE {} :
              Resolve(r, e, "value", s)
        \/ \E e \in IF s.writer = r THEN Pending(r, BadVersion(s.related)) ELSE {} :
              Resolve(r, e, "error", s)
    BY Zenon DEF OnReply
  <2> HIDE DEF s
  <2> QED
    BY <2>1, Zenon DEF Pending
<1> HIDE DEF s
<1>5. PICK n : /\ about = <<0, n>> /\ n \in Nat /\ n # 0
  <2>1. PICK n \in 1 .. Len(requests[s.writer]) : about = <<0, n>>
    BY <1>3 DEF Sent
  <2>2. n \in Nat /\ n # 0
    BY <1>2, <2>1 DEF TypeOK, ReplySample
  <2> QED
    BY <2>1, <2>2
<1>6. CASE UNCHANGED <<future, m_requests>>
  BY <1>6 DEF RightAnswer
<1>7. ASSUME s.writer = r, NEW e \in m_requests[r], NEW state,
             Resolve(r, e, state, s),
             \/ state = "value" /\ s.failed = FALSE /\ e.id = about
             \/ state = "error" /\ s.failed = TRUE /\ e.id = about
      PROVE  RightAnswer' /\ \A q \in Requesters : m_requests'[q] \subseteq m_requests[q]
  <2>1. s.of = e.call
    BY <1>3, <1>7, FiledIsSent, Zenon
  <2>2. e.call \in Calls
    BY DEF TypeOK, PendingEntry
  <2>3. \A c \in Calls : future'[c] = IF c = e.call THEN [is |-> state, of |-> s.of, failed |-> s.failed]
                                      ELSE future[c]
    BY <1>7, <2>2, Zenon DEF Resolve, TypeOK
  <2>4. ASSUME NEW c \in Calls
        PROVE  /\ future'[c].is = "value" => future'[c].of = c /\ ~ future'[c].failed
               /\ future'[c].is = "error" => future'[c].of = c /\ future'[c].failed
    <3>1. CASE c # e.call
      <4>1. future'[c] = future[c]
        BY <2>3, <3>1
      <4> QED
        BY <4>1, Zenon DEF RightAnswer
    <3>2. CASE c = e.call
      <4>1. future'[c].is = state /\ future'[c].of = c /\ future'[c].failed = s.failed
        <5>1. future'[c] = [is |-> state, of |-> s.of, failed |-> s.failed]
          BY <2>3, <3>2
        <5>2. s.of = c
          BY <2>1, <3>2
        <5>3. future'[c].is = state
          BY <5>1
        <5>4. future'[c].of = s.of
          BY <5>1
        <5>5. future'[c].failed = s.failed
          BY <5>1
        <5> QED
          BY <5>2, <5>3, <5>4, <5>5, Zenon
      <4>2. CASE state = "value" /\ s.failed = FALSE
        BY <4>1, <4>2
      <4>3. CASE state = "error" /\ s.failed = TRUE
        BY <4>1, <4>3
      <4> QED
        BY <1>7, <4>2, <4>3, Zenon
    <3> QED
      BY <3>1, <3>2
  <2>5. RightAnswer'
    BY <2>4, Zenon DEF RightAnswer
  <2> QED
    BY <1>7, <2>5, Zenon DEF Resolve, TypeOK
<1>8. ASSUME s.writer = r, NEW e \in m_requests[r], e.id = s.related, Resolve(r, e, "value", s)
      PROVE  RightAnswer' /\ \A q \in Requesters : m_requests'[q] \subseteq m_requests[q]
  <2>1. s.failed = FALSE
    <3>1. SUFFICES ASSUME s.failed = TRUE PROVE FALSE
      BY <1>2, Zenon DEF ReplySample
    <3>2. s.related[2] = 0
      BY <1>5, <3>1 DEF BadVersion
    <3> QED
      BY <1>8, <3>2, FiledIsSent
  <2> QED
    BY <1>7, <1>8, <2>1, Zenon
<1>9. ASSUME s.writer = r, NEW e \in m_requests[r], e.id = BadVersion(s.related),
             Resolve(r, e, "error", s)
      PROVE  RightAnswer' /\ \A q \in Requesters : m_requests'[q] \subseteq m_requests[q]
  <2>1. s.failed = TRUE
    <3>1. SUFFICES ASSUME s.failed = FALSE PROVE FALSE
      BY <1>2, Zenon DEF ReplySample
    <3>2. BadVersion(s.related)[2] = 0
      BY <1>5, <3>1 DEF BadVersion
    <3> QED
      BY <1>9, <3>2, FiledIsSent
  <2> QED
    BY <1>7, <1>9, <2>1, Zenon
<1> QED
  BY <1>4, <1>6, <1>8, <1>9

\* Correlation and RightAnswer together are inductive for disciplined use.
LEMMA CorrelationStep ==
  ASSUME TypeOK, Correlation, RightAnswer, Disciplined, [Next]_vars
  PROVE  Correlation' /\ RightAnswer'
<1>1. RequestsTraced' /\ RepliesTraced'
  BY RequestsTracedStep, RepliesTracedStep
<1>2. SUFFICES (NumbersInStep /\ PromisesFiled)' /\ RightAnswer'
  BY <1>1 DEF Correlation
<1>3. ASSUME UNCHANGED <<m_sessionId, window, made, requests, lastChange>>,
             \A q \in Requesters : m_requests'[q] \subseteq m_requests[q]
      PROVE  (NumbersInStep /\ PromisesFiled)'
  <2>1. NumbersInStep'
    BY <1>3 DEF Correlation, NumbersInStep
  <2>2. PromisesFiled'
    <3>1. PromisesFiled
      BY DEF Correlation
    <3> QED
      BY <1>3, <3>1 DEF PromisesFiled, Sent
  <2> QED
    BY <2>1, <2>2
<1>4. ASSUME NEW t \in Callers, RegisterRequest(t) PROVE RightAnswer'
  <2>1. future' = [future EXCEPT ![made + 1] = Held("pending")]
    BY <1>4 DEF RegisterRequest
  <2> QED
    BY <2>1 DEF RightAnswer, Held, TypeOK
<1>5. ASSUME NEW t \in Callers, PublishRequest(t) PROVE RightAnswer'
  BY <1>5 DEF PublishRequest, RightAnswer
<1>6. ASSUME NEW t \in Callers, CallerStep(t) PROVE (NumbersInStep /\ PromisesFiled)' /\ RightAnswer'
  BY <1>4, <1>5, <1>6, RegisterInStep, PublishInStep, Zenon DEF CallerStep, PublishFails, Disciplined
<1>7. ASSUME NEW r \in Requesters, DestroyRequester(r)
      PROVE  (NumbersInStep /\ PromisesFiled)' /\ RightAnswer'
  <2>1. RightAnswer'
    BY <1>7 DEF DestroyRequester, RightAnswer, Held
  <2>2. \A q \in Requesters : m_requests'[q] \subseteq m_requests[q]
    BY <1>7 DEF DestroyRequester, TypeOK
  <2> QED
    BY <1>3, <1>7, <2>1, <2>2 DEF DestroyRequester, wireVars
<1>8. ASSUME NEW r \in Requesters, NEW p \in Providers, OnReply(r, p)
      PROVE  (NumbersInStep /\ PromisesFiled)' /\ RightAnswer'
  BY <1>3, <1>8, ReplyRight, Zenon DEF OnReply, wireVars
<1>9. ASSUME UNCHANGED <<callerVars, requests, lastChange>>
      PROVE  (NumbersInStep /\ PromisesFiled)' /\ RightAnswer'
  <2>1. /\ UNCHANGED <<m_sessionId, m_requests, window, made, requests, lastChange>>
        /\ future' = future
    BY <1>9 DEF callerVars
  <2>2. (NumbersInStep /\ PromisesFiled)'
    BY <1>3, <2>1
  <2>3. RightAnswer'
    BY <2>1, Zenon DEF RightAnswer
  <2> QED
    BY <2>2, <2>3
<1>10. ASSUME NEW p, NEW r, TakeRequest(p, r) PROVE UNCHANGED <<callerVars, requests, lastChange>>
  BY <1>10 DEF TakeRequest, wireVars
<1>11. ASSUME NEW p, RunJob(p) \/ ReplierStep(p) PROVE UNCHANGED <<callerVars, requests, lastChange>>
  BY <1>11 DEF RunJob, ReplierStep, GetPendingSession, CloseSession, AbandonSession,
     RestartReplier, wireVars
<1>12. CASE UNCHANGED vars
  BY <1>9, <1>12 DEF vars, wireVars
<1> QED
  BY <1>6, <1>7, <1>8, <1>9, <1>10, <1>11, <1>12, Zenon DEF Next

\* One thread per requester, writes that succeed and fewer than 2^32 requests
\* are enough for onReply(): ids, sample numbers and reply addresses stay in
\* step, and every future gets the answer to its own call.
THEOREM AnswersRight ==
  ASSUME Disciplined
  PROVE  Spec => [](Correlation /\ RightAnswer)
<1>1. Init => Correlation /\ RightAnswer
  BY CorrelationInit
<1>2. TypeOK /\ (Correlation /\ RightAnswer) /\ [Next]_vars => (Correlation /\ RightAnswer)'
  BY CorrelationStep
<1> QED
  BY <1>1, <1>2, TypeCorrect, PTL DEF Spec

-----------------------------------------------------------------------------
(* RequestReply implements Service.  That a future takes a result of its own *)
(* call is RightAnswer after the step; that it takes it once is PromisesOpen *)
(* before the step.                                                          *)

\* Only calls that were made are on their way to a provider.
AllMade ==
  /\ \A t \in Callers : window[t].call <= made
  /\ \A r \in Requesters : \A i \in 1 .. Len(requests[r]) : requests[r][i].call <= made

\* RegisterRequest() counts the call before the request can be published.
LEMMA AllMadeStep == TypeOK /\ AllMade /\ [Next]_vars => AllMade'
<1> SUFFICES ASSUME TypeOK, AllMade, [Next]_vars PROVE AllMade'
  OBVIOUS
<1> USE MaxCallsAssumption, RequesterOfAssumption
<1>0. /\ made \in Nat /\ Idle.call = 0
      /\ \A t \in Callers : window[t].call \in Nat
      /\ \A r \in Requesters : requests[r] \in Seq(RequestSample)
  <2>1. /\ made \in 0 .. MaxCalls /\ window \in [Callers -> PendingEntry \cup {Idle}]
        /\ requests \in [Requesters -> Seq(RequestSample)]
    BY Zenon DEF TypeOK
  <2>2. made \in Nat
    BY <2>1
  <2>3. Idle.call = 0 /\ \A w \in PendingEntry \cup {Idle} : w.call \in Nat
    BY DEF PendingEntry, Calls, Idle, NoCall
  <2> QED
    BY <2>1, <2>2, <2>3, Zenon
<1>1. ASSUME NEW t \in Callers, RegisterRequest(t) PROVE AllMade'
  <2>1. made' = made + 1 /\ requests' = requests
    BY <1>1 DEF RegisterRequest, wireVars
  <2>2. \A u \in Callers : window'[u].call = (IF u = t THEN made + 1 ELSE window[u].call)
    BY <1>1 DEF RegisterRequest, TypeOK
  <2>3. \A r \in Requesters : \A i \in 1 .. Len(requests[r]) : requests[r][i].call \in Nat
    <3>1. \A r \in Requesters : \A i \in 1 .. Len(requests[r]) : requests[r][i] \in RequestSample
      BY <1>0
    <3> QED
      BY <3>1 DEF RequestSample, Calls
  <2>4. \A u \in Callers : window'[u].call <= made'
    BY <1>0, <2>1, <2>2 DEF AllMade
  <2>5. \A r \in Requesters : \A i \in 1 .. Len(requests'[r]) : requests'[r][i].call <= made'
    BY <1>0, <2>1, <2>3 DEF AllMade
  <2> QED
    BY <2>4, <2>5 DEF AllMade
<1>2. ASSUME NEW t \in Callers, PublishRequest(t) PROVE AllMade'
  <2> DEFINE r == RequesterOf[t]
             x == [id |-> Successor(lastChange[r]), call |-> window[t].call]
  <2>1. made' = made /\ requests' = [requests EXCEPT ![r] = Append(@, x)]
    BY <1>2, Zenon DEF PublishRequest
  <2>2. \A u \in Callers : window'[u].call = (IF u = t THEN 0 ELSE window[u].call)
    BY <1>0, <1>2 DEF PublishRequest, TypeOK
  <2>3. x.call <= made
    BY DEF AllMade
  <2> HIDE DEF x
  <2>4. ASSUME NEW q \in Requesters, NEW i \in 1 .. Len(requests'[q])
        PROVE  requests'[q][i].call <= made
    <3>1. CASE q # r
      BY <2>1, <3>1, Zenon DEF AllMade, TypeOK
    <3>2. CASE q = r
      <4>1. requests'[q] = Append(requests[q], x)
        BY <2>1, <3>2 DEF TypeOK
      <4>2. \/ requests'[q][i] = x
            \/ i \in 1 .. Len(requests[q]) /\ requests'[q][i] = requests[q][i]
        BY <1>0, <4>1
      <4> QED
        BY <2>3, <4>2 DEF AllMade
    <3> QED
      BY <3>1, <3>2
  <2>5. \A u \in Callers : window'[u].call <= made
    BY <1>0, <2>2 DEF AllMade
  <2> QED
    BY <2>1, <2>4, <2>5 DEF AllMade
<1>3. ASSUME NEW t \in Callers, PublishFails(t) PROVE AllMade'
  <2>1. made' = made /\ requests' = requests
    BY <1>3 DEF PublishFails, wireVars
  <2>2. \A u \in Callers : window'[u].call = (IF u = t THEN 0 ELSE window[u].call)
    BY <1>0, <1>3 DEF PublishFails, TypeOK
  <2> QED
    BY <1>0, <2>1, <2>2 DEF AllMade
<1>4. ASSUME UNCHANGED <<window, made, requests>> PROVE AllMade'
  BY <1>4 DEF AllMade
<1>5. ASSUME NEW r \in Requesters, NEW p \in Providers,
             DestroyRequester(r) \/ OnReply(r, p) \/ TakeRequest(p, r)
      PROVE  UNCHANGED <<window, made, requests>>
  BY <1>5, Zenon DEF DestroyRequester, OnReply, TakeRequest, callerVars, wireVars
<1>6. ASSUME NEW r \in Requesters, DestroyRequester(r) PROVE UNCHANGED <<window, made, requests>>
  BY <1>6, Zenon DEF DestroyRequester, wireVars
<1>7. ASSUME NEW p, RunJob(p) \/ ReplierStep(p) PROVE UNCHANGED <<window, made, requests>>
  BY <1>7, Zenon DEF RunJob, ReplierStep, GetPendingSession, CloseSession, AbandonSession,
     RestartReplier, callerVars, wireVars
<1>8. CASE UNCHANGED vars
  BY <1>4, <1>8, Zenon DEF vars, callerVars, wireVars
<1> QED
  BY <1>1, <1>2, <1>3, <1>4, <1>5, <1>6, <1>7, <1>8, Zenon DEF Next, CallerStep

-----------------------------------------------------------------------------
Outcomes == [c \in Calls |-> future[c].is]

\* Service's view of a step is a matter of three things.
LEMMA ViewUnchanged ==
  ASSUME UNCHANGED <<future, made, replies>>
  PROVE  UNCHANGED <<made, Results, Outcomes>>
<1>1. future' = future /\ made' = made /\ replies' = replies
  OBVIOUS
<1>2. Results' = Results
  BY <1>1 DEF Results
<1>3. Outcomes' = Outcomes
  BY <1>1 DEF Outcomes
<1> QED
  BY <1>1, <1>2, <1>3

\* What is on its way is a result.
LEMMA ResultsType == Results \subseteq Promise!Result /\ Results' \subseteq Promise!Result
BY Zenon DEF Results, Promise!Result, Promise!Calls, Calls

\* A result is on its way if some provider has written it.
LEMMA InResults ==
  \A x \in Promise!Result : x \in Results <=>
    \E p \in Providers : \E i \in 1 .. Len(replies[p]) :
      x = [call |-> replies[p][i].of, failed |-> replies[p][i].failed]
BY Zenon DEF Results, Promise!Result, Promise!Calls, Calls

\* The same after a step.
LEMMA InResultsNext ==
  \A x \in Promise!Result : x \in Results' <=>
    \E p \in Providers : \E i \in 1 .. Len(replies'[p]) :
      x = [call |-> replies'[p][i].of, failed |-> replies'[p][i].failed]
BY Zenon DEF Results, Promise!Result, Promise!Calls, Calls

\* Publishing a reply for a request that was sent is Serve.
LEMMA AnswerServes ==
  ASSUME TypeOK, AllMade, NEW p \in Providers, NEW s \in ServedRequest, NEW failed \in BOOLEAN,
         Sent(s.writer, s.id, s.call), Answer(p, s, failed), UNCHANGED <<future, made>>
  PROVE  Promise!Next
<1> DEFINE r == [call |-> s.call, failed |-> failed]
           y == [writer |-> s.writer, related |-> IF failed THEN BadVersion(s.id) ELSE s.id,
                 of |-> s.call, failed |-> failed]
<1>1. r \in Promise!Result
  BY DEF ServedRequest, Calls, Promise!Result, Promise!Calls
<1>2. s.call <= made
  BY DEF Sent, AllMade, ServedRequest
<1>3. replies' = [replies EXCEPT ![p] = Append(@, y)]
  BY DEF Answer
<1>4. /\ \A q \in Providers : replies[q] \in Seq(ReplySample)
      /\ replies'[p] = Append(replies[p], y)
      /\ \A q \in Providers : q # p => replies'[q] = replies[q]
  BY <1>3 DEF TypeOK
<1>5. y.of = s.call /\ y.failed = failed
  OBVIOUS
<1> HIDE DEF y
<1>6. /\ Len(replies'[p]) = Len(replies[p]) + 1 /\ Len(replies[p]) \in Nat
      /\ replies'[p][Len(replies[p]) + 1] = y
      /\ \A i \in 1 .. Len(replies[p]) : replies'[p][i] = replies[p][i]
  BY <1>4
<1>7. ASSUME NEW x \in Results' PROVE x \in Results \cup {r}
  <2> x \in Promise!Result
    BY ResultsType, Zenon
  <2>0. PICK q \in Providers : \E i \in 1 .. Len(replies'[q]) :
          x = [call |-> replies'[q][i].of, failed |-> replies'[q][i].failed]
    BY <1>7, InResultsNext, ResultsType, Zenon
  <2>1. PICK i \in 1 .. Len(replies'[q]) :
          x = [call |-> replies'[q][i].of, failed |-> replies'[q][i].failed]
    BY <2>0, Zenon
  <2>2. CASE q # p
    <3>1. replies'[q] = replies[q]
      BY <1>4, <2>2, Zenon
    <3> QED
      BY <2>1, <3>1, InResults, Zenon
  <2>3. CASE q = p /\ i \in 1 .. Len(replies[p])
    <3>1. x = [call |-> replies[p][i].of, failed |-> replies[p][i].failed]
      BY <1>6, <2>1, <2>3, Zenon
    <3> QED
      BY <2>3, <3>1, InResults, Zenon
  <2>4. CASE q = p /\ i = Len(replies[p]) + 1
    BY <1>5, <1>6, <2>1, <2>4, Zenon
  <2>5. q = p => i \in 1 .. Len(replies[p]) \/ i = Len(replies[p]) + 1
    BY <1>6
  <2> QED
    BY <2>2, <2>3, <2>4, <2>5, Zenon
<1>8. ASSUME NEW x \in Results \cup {r} PROVE x \in Results'
  <2> x \in Promise!Result
    BY <1>1, ResultsType, Zenon
  <2>1. CASE x = r
    <3>1. Len(replies[p]) + 1 \in 1 .. Len(replies'[p])
      BY <1>6
    <3> QED
      BY <1>5, <1>6, <2>1, <3>1, InResultsNext, Zenon
  <2>2. CASE x \in Results
    <3>0. PICK q \in Providers : \E i \in 1 .. Len(replies[q]) :
            x = [call |-> replies[q][i].of, failed |-> replies[q][i].failed]
      BY <2>2, InResults, ResultsType, Zenon
    <3>1. PICK i \in 1 .. Len(replies[q]) :
            x = [call |-> replies[q][i].of, failed |-> replies[q][i].failed]
      BY <3>0, Zenon
    <3>2. i \in 1 .. Len(replies'[q]) /\ replies'[q][i] = replies[q][i]
      <4>1. CASE q # p
        BY <1>4, <4>1, Zenon
      <4>2. CASE q = p
        <5>1. Len(replies'[p]) = Len(replies[p]) + 1 /\ Len(replies[p]) \in Nat
          BY <1>6, Zenon
        <5>2. 1 .. Len(replies[p]) \subseteq 1 .. Len(replies'[p])
          BY <5>1
        <5> QED
          BY <1>6, <4>2, <5>2, Zenon
      <4> QED
        BY <4>1, <4>2, Zenon
    <3> QED
      BY <3>1, <3>2, InResultsNext, Zenon
  <2> QED
    BY <1>8, <2>1, <2>2, Zenon
<1>9. Results' = Results \cup {r}
  BY <1>7, <1>8, Zenon
<1>10. UNCHANGED <<made, Outcomes>>
  BY Zenon DEF Outcomes
<1> QED
  BY <1>1, <1>2, <1>9, <1>10, Zenon DEF Promise!Next, Promise!Serve, Outcomes

\* A promise set by onReply() takes a result of its own call.
LEMMA ReplyDelivers ==
  ASSUME TypeOK, PromisesOpen, RightAnswer', NEW r \in Requesters, NEW p \in Providers,
         OnReply(r, p)
  PROVE  Promise!Next \/ UNCHANGED <<made, Results, Outcomes>>
<1> DEFINE k == seen[r][p] + 1
           s == replies[p][k]
<1>1. made' = made /\ replies' = replies
  BY Zenon DEF OnReply, wireVars
<1>2. CASE future' = future
  BY <1>1, <1>2, ViewUnchanged, Zenon
<1>3. ASSUME NEW e \in m_requests[r], NEW st \in {"value", "error"}, Resolve(r, e, st, s)
      PROVE  Promise!Next
  <2> DEFINE x == [call |-> e.call, failed |-> s.failed]
  <2>1. e.call \in Calls /\ future[e.call].is = "pending"
    BY DEF TypeOK, PendingEntry, PromisesOpen
  <2>2. k \in 1 .. Len(replies[p]) /\ s \in ReplySample
    <3>1. seen[r][p] < Len(replies[p])
      BY Zenon DEF OnReply
    <3> QED
      BY <3>1 DEF TypeOK
  <2>3. future' = [future EXCEPT ![e.call] = [is |-> st, of |-> s.of, failed |-> s.failed]]
    BY <1>3, Zenon DEF Resolve
  <2>4. /\ future'[e.call].is = st /\ future'[e.call].of = s.of
        /\ future'[e.call].failed = s.failed
        /\ \A c \in Calls : c # e.call => future'[c] = future[c]
    BY <2>1, <2>3 DEF TypeOK
  <2>5. s.of = e.call /\ (st = "value" => ~ s.failed) /\ (st = "error" => s.failed)
    BY <2>1, <2>4, Zenon DEF RightAnswer
  <2>6. x \in Promise!Result
    BY <2>1, <2>2 DEF ReplySample, Calls, Promise!Result, Promise!Calls
  <2>7. x \in Results
    BY <2>2, <2>5, <2>6, InResults, Zenon
  <2>8. st = IF s.failed THEN "error" ELSE "value"
    BY <2>5, Zenon
  <2>9. Outcomes[e.call] = "pending"
    BY <2>1, Zenon DEF Outcomes
  <2>10. Outcomes' = [Outcomes EXCEPT ![e.call] = st]
    BY <2>1, <2>4, Zenon DEF Outcomes
  <2>11. Results' = Results
    BY <1>1, Zenon DEF Results
  <2>12. x.call = e.call /\ x.failed = s.failed
    OBVIOUS
  <2> HIDE DEF x, s, k
  <2> QED
    BY <1>1, <2>6, <2>7, <2>8, <2>9, <2>10, <2>11, <2>12, Zenon
    DEF Promise!Next, Promise!Deliver, Outcomes
<1> QED
  BY <1>2, <1>3, Zenon DEF OnReply, Pending

\* ~RequesterImpl() breaks promises that are still open, and no other.
LEMMA DestroyBreaks ==
  ASSUME TypeOK, PromisesOpen, NEW r \in Requesters, DestroyRequester(r)
  PROVE  Promise!Next
<1> DEFINE gone == {c \in Calls : \E e \in m_requests[r] : e.call = c}
<1>1. made' = made /\ Results' = Results
  BY Zenon DEF DestroyRequester, wireVars, Results
<1>2. future' = [c \in Calls |-> IF c \in gone THEN Held("broken") ELSE future[c]]
  BY DEF DestroyRequester
<1>3. gone \in SUBSET {c \in Calls : Outcomes[c] = "pending"}
  BY DEF Outcomes, PromisesOpen
<1> HIDE DEF gone
<1>4. Outcomes' = [c \in Calls |-> IF c \in gone THEN "broken" ELSE Outcomes[c]]
  BY <1>2, Zenon DEF Outcomes, Held
<1>5. Promise!Break
  BY <1>1, <1>3, <1>4, Zenon DEF Promise!Break, Promise!Calls, Calls, Outcomes
<1> QED
  BY <1>5, Zenon DEF Promise!Next

\* request() makes a call; its future is pending from then on.
LEMMA RegisterMakes ==
  ASSUME TypeOK, NEW t \in Callers, RegisterRequest(t)
  PROVE  Promise!Next
<1>1. /\ made < MaxCalls /\ made' = made + 1 /\ Results' = Results
      /\ future' = [future EXCEPT ![made + 1] = Held("pending")]
  BY Zenon DEF RegisterRequest, wireVars, Results
<1>2. made + 1 \in Calls
  BY <1>1, MaxCallsAssumption DEF TypeOK, Calls
<1>3. future'[made + 1] = Held("pending") /\ \A c \in Calls : c # made + 1 => future'[c] = future[c]
  BY <1>1, <1>2 DEF TypeOK
<1>4. Held("pending").is = "pending"
  BY DEF Held
<1>5. Outcomes' = [Outcomes EXCEPT ![made + 1] = "pending"]
  BY <1>2, <1>3, <1>4, Zenon DEF Outcomes
<1> QED
  BY <1>1, <1>5, Zenon DEF Promise!Next, Promise!Make, Outcomes

\* A restarted provider loses its results.
LEMMA RestartLoses ==
  ASSUME TypeOK, NEW p \in Repliers, RestartReplier(p)
  PROVE  Promise!Next
<1>1. UNCHANGED <<future, made>> /\ replies' = [replies EXCEPT ![p] = <<>>]
  BY Zenon DEF RestartReplier, callerVars
<1>2. \A q \in Providers : replies'[q] = replies[q] \/ replies'[q] = <<>>
  BY <1>1 DEF TypeOK
<1>3. \A q \in Providers : \A i \in 1 .. Len(replies'[q]) :
        i \in 1 .. Len(replies[q]) /\ replies'[q][i] = replies[q][i]
  BY <1>2
<1>4. Results' \subseteq Results
  BY <1>3, Zenon DEF Results
<1>5. made' = made /\ Outcomes' = Outcomes
  BY <1>1, Zenon DEF Outcomes
<1>6. Promise!Lose
  BY <1>4, <1>5, Zenon DEF Promise!Lose, Outcomes
<1> QED
  BY <1>6, Zenon DEF Promise!Next

-----------------------------------------------------------------------------
\* Every step of callers, providers and readers is a step of Service or none.
LEMMA ServiceStep ==
  ASSUME TypeOK, PromisesOpen, Correlation, AllMade, RightAnswer', [Next]_vars
  PROVE  Promise!Next \/ UNCHANGED <<made, Results, Outcomes>>
<1>1. ASSUME NEW t \in Callers, CallerStep(t)
      PROVE  Promise!Next \/ UNCHANGED <<made, Results, Outcomes>>
  <2>1. CASE RegisterRequest(t)
    BY <2>1, RegisterMakes, Zenon
  <2>2. CASE PublishRequest(t) \/ PublishFails(t)
    <3>1. UNCHANGED <<future, made, replies>>
      BY <2>2, Zenon DEF PublishRequest, PublishFails, wireVars
    <3> QED
      BY <3>1, ViewUnchanged, Zenon
  <2> QED
    BY <1>1, <2>1, <2>2, Zenon DEF CallerStep
<1>2. ASSUME NEW p \in Providers, NEW r \in Requesters, TakeRequest(p, r)
      PROVE  UNCHANGED <<made, Results, Outcomes>>
  <2>1. UNCHANGED <<future, made, replies>>
    BY <1>2, Zenon DEF TakeRequest, callerVars, wireVars
  <2> QED
    BY <2>1, ViewUnchanged, Zenon
<1>3. ASSUME NEW p \in Services, RunJob(p) PROVE Promise!Next
  <2>1. /\ p \in Providers /\ backlog[p] # <<>> /\ UNCHANGED <<future, made>>
        /\ \E failed \in BOOLEAN : Answer(p, Head(backlog[p]), failed)
    BY <1>3, Zenon DEF RunJob, Providers, callerVars
  <2>2. backlog[p] \in Seq(ServedRequest)
    BY <2>1 DEF TypeOK
  <2>3. Head(backlog[p]) = backlog[p][1] /\ 1 \in 1 .. Len(backlog[p])
        /\ Head(backlog[p]) \in ServedRequest
    BY <2>1, <2>2
  <2>4. Sent(backlog[p][1].writer, backlog[p][1].id, backlog[p][1].call)
    BY <2>1, <2>3, Zenon DEF Correlation, RequestsTraced
  <2> QED
    BY <2>1, <2>3, <2>4, AnswerServes, Zenon
<1>4. ASSUME NEW p \in Repliers, NEW s \in sessions[p], CloseSession(p, s) PROVE Promise!Next
  <2>1. /\ p \in Providers /\ UNCHANGED <<future, made>>
        /\ \E failed \in BOOLEAN : Answer(p, s, failed)
    BY <1>4, Zenon DEF CloseSession, Providers, callerVars
  <2>2. s \in ServedRequest
    BY DEF TypeOK
  <2>3. Sent(s.writer, s.id, s.call)
    BY Zenon DEF Correlation, RequestsTraced
  <2> QED
    BY <2>1, <2>2, <2>3, AnswerServes, Zenon
<1>5. ASSUME NEW p \in Repliers, ReplierStep(p)
      PROVE  Promise!Next \/ UNCHANGED <<made, Results, Outcomes>>
  <2>1. CASE RestartReplier(p)
    BY <2>1, RestartLoses, Zenon
  <2>2. CASE GetPendingSession(p) \/ \E s \in sessions[p] : AbandonSession(p, s)
    <3>1. UNCHANGED <<future, made, replies>>
      BY <2>2, Zenon DEF GetPendingSession, AbandonSession, callerVars, wireVars
    <3> QED
      BY <3>1, ViewUnchanged, Zenon
  <2> QED
    BY <1>4, <1>5, <2>1, <2>2, Zenon DEF ReplierStep
<1>6. CASE UNCHANGED vars
  <2>1. UNCHANGED <<future, made, replies>>
    BY <1>6, Zenon DEF vars, callerVars, wireVars
  <2> QED
    BY <2>1, ViewUnchanged, Zenon
<1> QED
  BY <1>1, <1>2, <1>3, <1>5, <1>6, ReplyDelivers, DestroyBreaks, Zenon DEF Next

\* One thread per requester, writes that succeed and fewer than 2^32 requests
\* make request/reply a service that answers each call, at most once, with a
\* result of that call, whatever is lost, repeated or restarted.
THEOREM ImplementsAbstractService == ASSUME Disciplined PROVE Spec => ImplementsService
<1>1. Init => Promise!Init
  <2> SUFFICES ASSUME Init PROVE Promise!Init
    OBVIOUS
  <2>1. Results = {}
    BY DEF Init, Results
  <2>2. [c \in Calls |-> future[c].is] = [c \in Calls |-> "unmade"]
    BY DEF Init, Held
  <2> QED
    BY <2>1, <2>2 DEF Init, Promise!Init, Promise!Calls, Calls
<1>2. Init => AllMade
  BY DEF Init, AllMade, Idle, NoCall
<1>3. Spec => []AllMade
  BY <1>2, AllMadeStep, TypeCorrect, PTL DEF Spec
<1>4. /\ TypeOK /\ PromisesOpen /\ (Correlation /\ RightAnswer) /\ AllMade
      /\ (Correlation /\ RightAnswer)' /\ [Next]_vars
      => [Promise!Next]_(Promise!svars)
  BY ServiceStep, Zenon DEF Promise!svars, Outcomes
<1> QED
  BY <1>1, <1>3, <1>4, TypeCorrect, PromisesStayOpen, AnswersRight, PTL
  DEF Spec, ImplementsService, Promise!Spec
=============================================================================
