---------------------------- MODULE RequestReply ----------------------------
(***************************************************************************)
(* The request/reply pattern: RequesterImpl on the calling side, and on the *)
(* serving side ServiceProvider (push mode, a callback run by an            *)
(* ActiveObject) or ReplierImpl (pull mode, Session objects).               *)
(*                                                                          *)
(* Requests travel on the topic <service>/request and replies on            *)
(* <service>/reply.  Both are RELIABLE, TRANSIENT_LOCAL and KEEP_ALL, so    *)
(* every reader takes all samples of every writer in the writer's order and *)
(* a reader that joins late is sent the whole history.  All providers see   *)
(* all requests and all requesters see all replies; a reply is matched to   *)
(* its request by Guid alone.                                               *)
(*                                                                          *)
(* FastDDS numbers the samples of a DataWriter itself (WriterHistory.cpp).  *)
(* The sample_identity given to write() is not sent; the reader's           *)
(* SampleInfo::sample_identity is the writer's guid and the number the      *)
(* writer gave the sample when write() was called (ReadTakeCommand.hpp).    *)
(***************************************************************************)
EXTENDS Guid, Sequences, FiniteSets

CONSTANTS Requesters,    \* RequesterImpl objects; each owns one request writer
          Callers,       \* client threads that call request()
          RequesterOf,   \* the requester each client thread uses
          Services,      \* providers in push mode (ServiceProvider)
          Repliers,      \* providers in pull mode (ReplierImpl)
          MaxCalls,      \* bound: calls to request() in one behaviour
          MaxRestarts,   \* bound: provider restarts in one behaviour
          WriteMayFail,  \* may DataWriter::write return an error
          MayAbandon,    \* may a Session be dropped without reply or fail
          MayDestroy     \* may a requester be destroyed

ASSUME RequesterOfAssumption == RequesterOf \in [Callers -> Requesters]
ASSUME ProvidersDisjoint == Services \cap Repliers = {}
ASSUME MaxCallsAssumption == MaxCalls \in Nat
ASSUME NoReuse == MaxCalls < Half * Half   \* no requester makes 2^64 calls

Providers == Services \cup Repliers
Calls == 1 .. MaxCalls
NoCall == 0

VARIABLES
  m_sessionId,  \* sequence last given out by each requester
  m_requests,   \* pending promises of each requester: records [id, call]
  future,       \* what the future of each call holds
  window,       \* the call each thread registered and has not yet published
  made,         \* number of calls made so far
  live,         \* requesters not yet destroyed
  requests,     \* samples written by each requester, in order
  lastChange,   \* number the request writer gave its last sample
  taken,        \* how many samples of each requester a provider has taken
  backlog,      \* requests queued in a provider (m_work or m_queue)
  sessions,     \* open Session objects of a replier
  replies,      \* samples written by each provider, in order
  seen,         \* how many samples of each provider a requester has taken
  restarts      \* number of provider restarts so far

callerVars == <<m_sessionId, m_requests, future, window, made, live>>
wireVars == <<requests, lastChange, replies>>
readerVars == <<taken, seen>>
serverVars == <<backlog, sessions, restarts>>
vars == <<callerVars, wireVars, readerVars, serverVars>>

Ids == Sequence
PendingEntry == [id : Ids, call : Calls]
Outcome == [is : {"unmade", "pending", "value", "error", "broken"},
            of : Calls \cup {NoCall}, failed : BOOLEAN]
RequestSample == [id : Ids, call : Calls]
ServedRequest == [writer : Requesters, id : Ids, call : Calls]
ReplySample == [writer : Requesters, related : Ids, of : Calls, failed : BOOLEAN]

Held(state) == [is |-> state, of |-> NoCall, failed |-> FALSE]
Idle == [id |-> Zero, call |-> NoCall]

Init ==
  /\ m_sessionId = [r \in Requesters |-> Zero]
  /\ m_requests = [r \in Requesters |-> {}]
  /\ future = [c \in Calls |-> Held("unmade")]
  /\ window = [t \in Callers |-> Idle]
  /\ made = 0
  /\ live = Requesters
  /\ requests = [r \in Requesters |-> <<>>]
  /\ lastChange = [r \in Requesters |-> Zero]
  /\ taken = [p \in Providers |-> [r \in Requesters |-> 0]]
  /\ backlog = [p \in Providers |-> <<>>]
  /\ sessions = [p \in Repliers |-> {}]
  /\ replies = [p \in Providers |-> <<>>]
  /\ seen = [r \in Requesters |-> [p \in Providers |-> 0]]
  /\ restarts = 0

-----------------------------------------------------------------------------
(* The requester. *)

\* request(): the locked part.  The id is drawn and its promise stored.
RegisterRequest(t) ==
  LET r  == RequesterOf[t]
      id == Increment(m_sessionId[r])
      c  == made + 1
  IN /\ r \in live
     /\ window[t] = Idle
     /\ made < MaxCalls
     /\ made' = c
     /\ m_sessionId' = [m_sessionId EXCEPT ![r] = id]
     /\ m_requests' = [m_requests EXCEPT ![r] = @ \cup {[id |-> id, call |-> c]}]
     /\ future' = [future EXCEPT ![c] = Held("pending")]
     /\ window' = [window EXCEPT ![t] = [id |-> id, call |-> c]]
     /\ UNCHANGED <<live, wireVars, readerVars, serverVars>>

\* request(): publish after the lock is released.  The writer numbers the
\* sample; the id drawn by RegisterRequest stays behind.
PublishRequest(t) ==
  LET r == RequesterOf[t]
      n == Successor(lastChange[r])
  IN /\ window[t] # Idle
     /\ lastChange' = [lastChange EXCEPT ![r] = n]
     /\ requests' = [requests EXCEPT
                       ![r] = Append(@, [id |-> n, call |-> window[t].call])]
     /\ window' = [window EXCEPT ![t] = Idle]
     /\ UNCHANGED <<m_sessionId, m_requests, future, made, live, replies,
                    readerVars, serverVars>>

\* The same when write() fails: request() ignores what publish returns.
PublishFails(t) ==
  /\ WriteMayFail
  /\ window[t] # Idle
  /\ window' = [window EXCEPT ![t] = Idle]
  /\ UNCHANGED <<m_sessionId, m_requests, future, made, live, wireVars,
                 readerVars, serverVars>>

\* The pending entries a reply addressed to `id` resolves.
Pending(r, id) == {e \in m_requests[r] : e.id = id}

\* A promise that stays in the map after it was set.
ResolveKeepingEntry(r, e, state, sample) ==
  /\ future' = [future EXCEPT ![e.call] =
                  [is |-> state, of |-> sample.of, failed |-> sample.failed]]
  /\ UNCHANGED m_requests

\* set_value or set_exception on the promise of entry e, and erase it.
Resolve(r, e, state, sample) ==
  /\ future' = [future EXCEPT ![e.call] =
                  [is |-> state, of |-> sample.of, failed |-> sample.failed]]
  /\ m_requests' = [m_requests EXCEPT ![r] = @ \ {e}]

\* A requester that compares sequence numbers and not the writer's identity.
OnReplyAnyWriter(r, p) ==
  LET sample == replies[p][seen[r][p] + 1]
      good   == Pending(r, sample.related)
      bad    == Pending(r, BadVersion(sample.related))
  IN /\ r \in live
     /\ seen[r][p] < Len(replies[p])
     /\ seen' = [seen EXCEPT ![r][p] = @ + 1]
     /\ \/ \E e \in good : Resolve(r, e, "value", sample)
        \/ /\ good = {}
           /\ \E e \in bad : Resolve(r, e, "error", sample)
        \/ /\ good = {} /\ bad = {}
           /\ UNCHANGED <<future, m_requests>>
     /\ UNCHANGED <<m_sessionId, window, made, live, wireVars, taken, serverVars>>

\* onReply(), for the next sample of provider p: the related id first, then
\* its bad version, and otherwise the reply is ignored.
OnReply(r, p) ==
  LET sample == replies[p][seen[r][p] + 1]
      mine   == sample.writer = r
      good   == IF mine THEN Pending(r, sample.related) ELSE {}
      bad    == IF mine THEN Pending(r, BadVersion(sample.related)) ELSE {}
  IN /\ r \in live
     /\ seen[r][p] < Len(replies[p])
     /\ seen' = [seen EXCEPT ![r][p] = @ + 1]
     /\ \/ \E e \in good : Resolve(r, e, "value", sample)
        \/ /\ good = {}
           /\ \E e \in bad : Resolve(r, e, "error", sample)
        \/ /\ good = {} /\ bad = {}
           /\ UNCHANGED <<future, m_requests>>
     /\ UNCHANGED <<m_sessionId, window, made, live, wireVars, taken, serverVars>>

\* ~RequesterImpl(): the reply reader goes, and with m_requests every promise
\* not yet set.  No thread is inside request() when its requester dies.
DestroyRequester(r) ==
  /\ MayDestroy
  /\ r \in live
  /\ \A t \in Callers : RequesterOf[t] = r => window[t] = Idle
  /\ live' = live \ {r}
  /\ future' = [c \in Calls |-> IF \E e \in m_requests[r] : e.call = c
                                THEN Held("broken") ELSE future[c]]
  /\ m_requests' = [m_requests EXCEPT ![r] = {}]
  /\ UNCHANGED <<m_sessionId, window, made, wireVars, readerVars, serverVars>>

-----------------------------------------------------------------------------
(* The providers. *)

\* One turn of the loop in on_data_available: the next sample of requester r
\* becomes a job (ServiceProvider) or a queued SessionRequest (ReplierImpl).
TakeRequest(p, r) ==
  LET sample == requests[r][taken[p][r] + 1]
  IN /\ taken[p][r] < Len(requests[r])
     /\ taken' = [taken EXCEPT ![p][r] = @ + 1]
     /\ backlog' = [backlog EXCEPT ![p] =
                      Append(@, [writer |-> r, id |-> sample.id, call |-> sample.call])]
     /\ UNCHANGED <<callerVars, wireVars, seen, sessions, restarts>>

\* A failure addressed like a success.
AnswerUnmarked(p, s, failed) ==
  replies' = [replies EXCEPT ![p] =
     Append(@, [writer |-> s.writer, related |-> s.id, of |-> s.call, failed |-> failed])]

\* Publisher::doPublish with correlation: a failure is addressed to the bad
\* version of the request's id.
Answer(p, s, failed) ==
  replies' = [replies EXCEPT ![p] =
     Append(@, [writer  |-> s.writer,
                related |-> IF failed THEN BadVersion(s.id) ELSE s.id,
                of      |-> s.call,
                failed  |-> failed])]

\* The job of a ServiceProvider: run the callback, which may throw, and
\* publish the reply or the failure.
RunJob(p) ==
  /\ backlog[p] # <<>>
  /\ \E failed \in BOOLEAN : Answer(p, Head(backlog[p]), failed)
  /\ backlog' = [backlog EXCEPT ![p] = Tail(@)]
  /\ UNCHANGED <<callerVars, requests, lastChange, readerVars, sessions, restarts>>

\* A session handed out although nothing was pending.
GetPendingSessionAlways(p) ==
  LET s == IF backlog[p] = <<>> THEN [writer |-> "none", id |-> Zero, call |-> NoCall]
           ELSE Head(backlog[p])
  IN /\ sessions' = [sessions EXCEPT ![p] = @ \cup {s}]
     /\ backlog' = [backlog EXCEPT ![p] = IF @ = <<>> THEN @ ELSE Tail(@)]
     /\ UNCHANGED <<callerVars, wireVars, readerVars, restarts>>

\* Replier::getPendingSession() that finds a request.
GetPendingSession(p) ==
  /\ backlog[p] # <<>>
  /\ sessions' = [sessions EXCEPT ![p] = @ \cup {Head(backlog[p])}]
  /\ backlog' = [backlog EXCEPT ![p] = Tail(@)]
  /\ UNCHANGED <<callerVars, wireVars, readerVars, restarts>>

\* Session::reply() and Session::fail(): publish, then the session is dead.
CloseSession(p, s) ==
  /\ \E failed \in BOOLEAN : Answer(p, s, failed)
  /\ sessions' = [sessions EXCEPT ![p] = @ \ {s}]
  /\ UNCHANGED <<callerVars, requests, lastChange, readerVars, backlog, restarts>>

\* A Session that goes out of scope: it has no destructor and says nothing.
AbandonSession(p, s) ==
  /\ MayAbandon
  /\ sessions' = [sessions EXCEPT ![p] = @ \ {s}]
  /\ UNCHANGED <<callerVars, wireVars, readerVars, backlog, restarts>>

\* A restart after which the new reader is sent only new requests.
RestartVolatile(p) ==
  /\ restarts < MaxRestarts
  /\ restarts' = restarts + 1
  /\ backlog' = [backlog EXCEPT ![p] = <<>>]
  /\ sessions' = [sessions EXCEPT ![p] = {}]
  /\ replies' = [replies EXCEPT ![p] = <<>>]
  /\ seen' = [r \in Requesters |-> [seen[r] EXCEPT ![p] = 0]]
  /\ UNCHANGED <<callerVars, requests, lastChange, taken>>

\* The replier's process ends and another one is started: queued requests,
\* open sessions and replies not yet taken are gone, and the new reader is
\* sent every request again.
RestartReplier(p) ==
  /\ restarts < MaxRestarts
  /\ restarts' = restarts + 1
  /\ backlog' = [backlog EXCEPT ![p] = <<>>]
  /\ sessions' = [sessions EXCEPT ![p] = {}]
  /\ replies' = [replies EXCEPT ![p] = <<>>]
  /\ taken' = [taken EXCEPT ![p] = [r \in Requesters |-> 0]]
  /\ seen' = [r \in Requesters |-> [seen[r] EXCEPT ![p] = 0]]
  /\ UNCHANGED <<callerVars, requests, lastChange>>

-----------------------------------------------------------------------------
CallerStep(t) == RegisterRequest(t) \/ PublishRequest(t) \/ PublishFails(t)

ReplierStep(p) == \/ GetPendingSession(p)
                  \/ \E s \in sessions[p] : CloseSession(p, s) \/ AbandonSession(p, s)
                  \/ RestartReplier(p)

Next == \/ \E t \in Callers : CallerStep(t)
        \/ \E r \in Requesters : DestroyRequester(r)
        \/ \E r \in Requesters, p \in Providers : OnReply(r, p) \/ TakeRequest(p, r)
        \/ \E p \in Services : RunJob(p)
        \/ \E p \in Repliers : ReplierStep(p)

Spec == Init /\ [][Next]_vars

\* FastDDS keeps delivering (RELIABLE), a thread inside request() goes on to
\* publish, the worker thread of a ServiceProvider keeps running, and the
\* owner of a Replier keeps fetching and answering sessions.
Fairness ==
  /\ \A t \in Callers : WF_vars(PublishRequest(t))
  /\ \A r \in Requesters, p \in Providers :
        WF_vars(OnReply(r, p)) /\ WF_vars(TakeRequest(p, r))
  /\ \A p \in Services : WF_vars(RunJob(p))
  /\ \A p \in Repliers : WF_vars(GetPendingSession(p))
  /\ \A p \in Repliers : WF_vars(\E s \in sessions[p] : CloseSession(p, s))

FairSpec == Spec /\ Fairness
-----------------------------------------------------------------------------
(* Properties. *)

\* Every variable holds values of its C++ type, and queue positions stay
\* inside the histories they point into.
TypeOK ==
  /\ m_sessionId \in [Requesters -> Ids]
  /\ m_requests \in [Requesters -> SUBSET PendingEntry]
  /\ future \in [Calls -> Outcome]
  /\ window \in [Callers -> PendingEntry \cup {Idle}]
  /\ made \in 0 .. MaxCalls
  /\ live \subseteq Requesters
  /\ requests \in [Requesters -> Seq(RequestSample)]
  /\ lastChange \in [Requesters -> Ids]
  /\ taken \in [Providers -> [Requesters -> Nat]]
  /\ backlog \in [Providers -> Seq(ServedRequest)]
  /\ sessions \in [Repliers -> SUBSET ServedRequest]
  /\ replies \in [Providers -> Seq(ReplySample)]
  /\ seen \in [Requesters -> [Providers -> Nat]]
  /\ restarts \in Nat
  /\ \A p \in Providers, r \in Requesters :
        taken[p][r] <= Len(requests[r]) /\ seen[r][p] <= Len(replies[p])

\* request() returns "future Rep supplied when request fulfilled": a future
\* that holds a value holds the reply some provider computed from the data of
\* that very call, and a future that throws does so because a provider failed
\* that very call.  onReply() relies on ids alone for this.
RightAnswer ==
  \A c \in Calls :
    /\ future[c].is = "value" => future[c].of = c /\ ~ future[c].failed
    /\ future[c].is = "error" => future[c].of = c /\ future[c].failed

\* The promise bookkeeping onReply() and ~RequesterImpl() rest on: a promise
\* in m_requests has not been set, belongs to one call, and that call to one
\* entry of one requester.
PromisesOpen ==
  /\ \A r \in Requesters : \A e \in m_requests[r] :
        future[e.call].is = "pending" /\ e.call <= made
  /\ \A r, q \in Requesters : \A e \in m_requests[r], f \in m_requests[q] :
        e.call = f.call => r = q /\ e = f
  /\ \A c \in Calls : c > made => future[c].is = "unmade"

\* The use of the library under which ids and sample numbers stay in step:
\* one thread per requester, writes that succeed, fewer than Half requests.
Disciplined ==
  /\ \A t, u \in Callers : RequesterOf[t] = RequesterOf[u] => t = u
  /\ WriteMayFail = FALSE
  /\ MaxCalls < Half

\* Call c was sent by requester w as the sample numbered id.
Sent(w, id, c) ==
  \E n \in 1 .. Len(requests[w]) : id = <<0, n>> /\ requests[w][n].call = c

\* The sequence a requester drew last is the number its writer gave last, or
\* the next one while a thread is on its way to publish.
NumbersInStep ==
  /\ \A r \in Requesters :
       /\ lastChange[r] = <<0, Len(requests[r])>>
       /\ \A i \in 1 .. Len(requests[r]) : requests[r][i].id = <<0, i>>
       /\ m_sessionId[r][2] <= made
       /\ \/ m_sessionId[r] = lastChange[r]
          \/ \E t \in Callers : RequesterOf[t] = r /\ window[t] # Idle
  /\ \A t \in Callers : window[t] # Idle =>
       /\ window[t].id = <<0, Len(requests[RequesterOf[t]]) + 1>>
       /\ window[t].id = m_sessionId[RequesterOf[t]]

\* Every promise is filed under the number its request was, or is about to
\* be, sent with.
PromisesFiled ==
  \A r \in Requesters : \A e \in m_requests[r] :
    \/ Sent(r, e.id, e.call)
    \/ \E t \in Callers : RequesterOf[t] = r /\ window[t] = e

\* Every request a provider holds, and every reply on the wire, carries the
\* number of the request it is about; a failure carries its bad version.
RequestsTraced ==
  /\ \A p \in Providers : \A i \in 1 .. Len(backlog[p]) :
       Sent(backlog[p][i].writer, backlog[p][i].id, backlog[p][i].call)
  /\ \A p \in Repliers : \A s \in sessions[p] : Sent(s.writer, s.id, s.call)

RepliesTraced ==
  \A p \in Providers : \A i \in 1 .. Len(replies[p]) :
    LET s == replies[p][i]
    IN Sent(s.writer, IF s.failed THEN BadVersion(s.related) ELSE s.related, s.of)

\* The id request() draws under its lock, the number the DataWriter gives the
\* sample, the key the promise is filed under and the id a reply is addressed
\* to are one and the same for every call, at every moment.
Correlation == NumbersInStep /\ PromisesFiled /\ RequestsTraced /\ RepliesTraced

\* A step leaves every promise that was already set or broken as it was.
PromiseKept == \A c \in Calls : future[c].is \in {"value", "error", "broken"}
                                   => future'[c] = future[c]

\* onReply() sets each promise at most once, however many providers answer
\* and however often a restarted one answers again: a second set_value would
\* throw std::future_error out of the listener thread.
PromiseSetOnce == [][PromiseKept]_vars

\* The results on the wire: of which call, and whether it failed.
Results == {x \in [call : Calls, failed : BOOLEAN] :
              \E p \in Providers : \E i \in 1 .. Len(replies[p]) :
                 x = [call |-> replies[p][i].of, failed |-> replies[p][i].failed]}

Promise == INSTANCE Service WITH outcome <- [c \in Calls |-> future[c].is], results <- Results

\* Requesters, histories, ids and restarts together do what Service says: each
\* future takes, at most once, a result that was computed for its own call
\* and has not been lost, and nothing is served that was not asked for.
ImplementsService == Promise!Spec

\* Every call is eventually answered as long as providers keep serving, even
\* when one of them restarts after it took the request: the transient-local
\* request history is served again.
EveryCallAnswered ==
  \A c \in Calls : future[c].is = "pending" ~> future[c].is \in {"value", "error"}
=============================================================================
