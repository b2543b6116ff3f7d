------------------------------ MODULE Reactor ------------------------------
(***************************************************************************)
(* The reactor pattern: a ReactorClientBackend and a ReactorServerBackend   *)
(* of one service.  They talk over four topics: requests and cancel         *)
(* commands from the client, progress and replies from the server.  Every   *)
(* topic is RELIABLE, TRANSIENT_LOCAL and KEEP_ALL, so it is a FIFO of its  *)
(* own, and a restarted server is sent the client's whole history again;    *)
(* nothing orders samples of different topics.  A write can be refused, and *)
(* no call of publish() here looks at its result.                           *)
(*                                                                          *)
(* Sessions are numbered in the order of the request() calls, which the     *)
(* application does not make concurrently, so requests are on their topic   *)
(* in the order of the numbers.  Session objects can be copied at both      *)
(* ends, and every copy has the destructor of a Session.                    *)
(***************************************************************************)
EXTENDS Integers, Sequences

CONSTANTS UserMarks,    \* marks the server's application passes to progress()
          MaxSessions,  \* bound: sessions started
          MaxCommands,  \* bound: commands published before another cancel()
          MaxEvents     \* bound: progress() and reply() calls, refused writes, ends of
                        \* copies of a Session and server crashes, together

PROG_UNKNOWN == -200
PROG_FAILED == -100
PROG_SENT == 0
PROG_START == 1
PROG_SUCCESS == 100

ASSUME BoundsAssumption == MaxSessions \in Nat
\* "The progress mark integer uses values from 1 to 100"; the application may
\* pass any of them, repeated or decreasing.
ASSUME UserMarksAssumption == UserMarks \subseteq PROG_START .. PROG_SUCCESS

Ids == 1 .. MaxSessions

VARIABLES
  m_lastId,    \* number of sessions the client started
  m_session,   \* the client's record of each session
  held,        \* sessions the client has Session objects of
  sent,        \* sessions whose request was written
  discovered,  \* does the client know of the server
  commands,    \* every cancel command the client published
  progress,    \* progress samples the client has not yet taken
  replies,     \* reply samples the client has not yet taken
  up,          \* is there a server
  reqTaken,    \* the last session whose request the server has taken
  cmdTaken,    \* how many commands the server has taken
  m_pending,   \* sessions waiting for getPendingSession()
  m_state,     \* the server's record (its m_session) of each session
  open,        \* sessions the server's application has Session objects of
  stopped,     \* sessions a command ended after the server had started them
  amiss,       \* sessions whose last report was refused, or was of progress
               \* that the server made after it had lost the session
  events       \* what MaxEvents bounds, so far

clientVars == <<m_lastId, m_session, held, discovered, sent>>
serverVars == <<up, reqTaken, cmdTaken, m_pending, m_state, open, stopped, amiss>>
vars == <<clientVars, commands, progress, replies, serverVars, events>>

Marks == UserMarks \cup {PROG_FAILED, PROG_START, PROG_SUCCESS}
SessionData == [progress : Marks \cup {PROG_SENT}, reply : {"none", "ready", "moved"}]
Absent == [progress |-> PROG_UNKNOWN, reply |-> "none"]
NewSession == [progress |-> PROG_SENT, reply |-> "none"]
State == {"none", "STARTING", "RUNNING", "SUCCEEDING", "SUCCEED"}

Init ==
  /\ m_lastId = 0
  /\ m_session = [k \in Ids |-> Absent]
  /\ held = {} /\ sent = {}
  /\ discovered = FALSE
  /\ commands = <<>> /\ progress = <<>> /\ replies = <<>>
  /\ up = TRUE /\ reqTaken = 0 /\ cmdTaken = 0
  /\ m_pending = <<>>
  /\ m_state = [k \in Ids |-> "none"]
  /\ open = {} /\ stopped = {} /\ amiss = {} /\ events = 0

\* n of the things happen that MaxEvents bounds.
Spend(n) == events + n <= MaxEvents /\ events' = events + n

Choice == {0, 1}

\* Publisher::publish(): a topic with the sample, or as it was if the write is
\* refused.
Published(topic, sample, refused) == IF refused = 1 THEN topic ELSE Append(topic, sample)

-----------------------------------------------------------------------------
(* The client. *)

\* The session's part of isAlive().
Alive(data) == data.progress >= PROG_SENT /\ data.progress < PROG_SUCCESS

Erased(table, gone) == [k \in Ids |-> IF k \in gone THEN Absent ELSE table[k]]

\* groomSessionList(): what it may leave of a session table.  With no server
\* everything goes.  Otherwise the loop erases the entry its iterator stands
\* on, so the lowest dead session goes and what becomes of the other dead ones
\* is undefined.
Groomings(table) ==
  LET dead == {k \in Ids : table[k] # Absent /\ ~ Alive(table[k])}
      cuts == {gone \in SUBSET dead : \A k \in dead : (\A j \in dead : k <= j) => k \in gone}
  IN {Erased(table, gone) : gone \in IF discovered THEN cuts ELSE {Ids}}

\* request(): groom, then enter the session and publish, which may fail.
Request ==
  LET k == m_lastId + 1
  IN /\ k <= MaxSessions
     /\ m_lastId' = k
     /\ \E table \in Groomings(m_session) : m_session' = [table EXCEPT ![k] = NewSession]
     /\ held' = held \cup {k}
     /\ \E refused \in Choice : /\ Spend(refused)
                               /\ sent' = IF refused = 1 THEN sent ELSE sent \cup {k}
     /\ UNCHANGED <<discovered, commands, progress, replies, serverVars>>

\* A progress callback that looks its session up with operator[].
OnProgressInserting ==
  /\ progress # <<>>
  /\ progress' = Tail(progress)
  /\ m_session' = [m_session EXCEPT ![Head(progress).id].progress = Head(progress).mark]
  /\ UNCHANGED <<m_lastId, held, discovered, sent, commands, replies, serverVars, events>>

\* progressLambda, for the next progress sample.
OnProgress ==
  LET p == Head(progress)
  IN /\ progress # <<>>
     /\ progress' = Tail(progress)
     /\ m_session' = IF m_session[p.id] = Absent THEN m_session
                     ELSE [m_session EXCEPT ![p.id].progress = p.mark]
     /\ UNCHANGED <<m_lastId, held, discovered, sent, commands, replies, serverVars, events>>

\* repCallback, for the next reply sample.
OnReply ==
  LET k == Head(replies)
  IN /\ replies # <<>>
     /\ replies' = Tail(replies)
     /\ m_session' = IF m_session[k] = Absent THEN m_session
                     ELSE [m_session EXCEPT ![k] = [progress |-> PROG_SUCCESS, reply |-> "ready"]]
     /\ UNCHANGED <<m_lastId, held, discovered, sent, commands, progress, serverVars, events>>

\* Session::get() that finds the reply moves it out.
Get(k) ==
  /\ k \in held
  /\ m_session[k].reply = "ready"
  /\ m_session' = [m_session EXCEPT ![k].reply = "moved"]
  /\ UNCHANGED <<m_lastId, held, discovered, sent, commands, progress, replies, serverVars, events>>

\* Session::cancel(): erase the session, then publish the command.
Cancel(k) ==
  /\ k \in held
  /\ Len(commands) < MaxCommands
  /\ m_session' = Erased(m_session, {k})
  /\ \E refused \in Choice : Spend(refused) /\ commands' = Published(commands, k, refused)
  /\ UNCHANGED <<m_lastId, held, discovered, sent, progress, replies, serverVars>>

\* ~Session(), of a copy too: a session that is not known to have failed is
\* cancelled, its entry is erased and the list is groomed.
DestroySession(k) ==
  /\ k \in held
  /\ \E copy \in Choice, refused \in Choice :
       /\ Spend(copy + refused)
       /\ held' = IF copy = 1 THEN held ELSE held \ {k}
       /\ commands' = IF m_session[k].progress \in PROG_SENT .. PROG_SUCCESS
                      THEN Published(commands, k, refused) ELSE commands
  /\ m_session' \in Groomings(Erased(m_session, {k}))
  /\ UNCHANGED <<m_lastId, discovered, sent, progress, replies, serverVars>>

\* discoveredServer() follows the server with a delay.
Discover ==
  /\ discovered # up
  /\ discovered' = up
  /\ UNCHANGED <<m_lastId, m_session, held, sent, commands, progress, replies, serverVars, events>>

ClientStep == \/ Request \/ OnProgress \/ OnReply \/ Discover
              \/ \E k \in Ids : Get(k) \/ Cancel(k) \/ DestroySession(k)

-----------------------------------------------------------------------------
(* The server. *)

\* commandCallback, for the next command.
OnCommand ==
  LET k == commands[cmdTaken + 1]
  IN /\ up
     /\ cmdTaken < Len(commands)
     /\ cmdTaken' = cmdTaken + 1
     /\ m_state' = [m_state EXCEPT ![k] = "none"]
     /\ stopped' = IF k \in open THEN stopped \cup {k} ELSE stopped
     /\ UNCHANGED <<clientVars, commands, progress, replies, up, reqTaken, m_pending, open,
                    amiss, events>>

\* A server that takes a request before it was sent.
OnRequestEarly ==
  /\ up
  /\ reqTaken < MaxSessions
  /\ reqTaken' = reqTaken + 1
  /\ m_pending' = Append(m_pending, reqTaken + 1)
  /\ UNCHANGED <<clientVars, commands, progress, replies, up, cmdTaken, m_state, open, stopped,
                 amiss, events>>

\* reqCallback, for the next request.
OnRequest ==
  \E k \in sent :
    /\ up
    /\ reqTaken < k /\ \A j \in sent : reqTaken < j => k <= j
    /\ reqTaken' = k
    /\ m_pending' = Append(m_pending, k)
    /\ UNCHANGED <<clientVars, commands, progress, replies, up, cmdTaken, m_state, open, stopped,
                   amiss, events>>

\* A mark after which the client takes the session for dead.
Over(mark) == mark < PROG_SENT \/ mark >= PROG_SUCCESS

\* A progress sample is published, or refused.
Report(k, mark, refused) ==
  /\ progress' = Published(progress, [id |-> k, mark |-> mark], refused)
  /\ amiss' = IF \/ refused = 1
                 \/ m_state[k] = "none" /\ mark # PROG_START /\ ~ Over(mark)
              THEN amiss \cup {k} ELSE amiss \ {k}

\* A server that enters any session it reports progress of.
AdvanceAlways(k, mark, refused) ==
  /\ m_state' = [m_state EXCEPT ![k] = IF mark = PROG_FAILED THEN "none" ELSE "RUNNING"]
  /\ Report(k, mark, refused)

\* The backend's progress(): update the session and publish the mark.  Only
\* PROG_START enters a session that is not there.
Advance(k, mark, refused) ==
  /\ m_state' = [m_state EXCEPT ![k] =
       IF mark = PROG_START THEN "STARTING"
       ELSE IF @ = "none" \/ mark < PROG_START THEN "none"
       ELSE IF mark >= PROG_SUCCESS THEN "SUCCEEDING" ELSE "RUNNING"]
  /\ Report(k, mark, refused)

\* getPendingSession() that finds a request; the constructor of the Session
\* reports PROG_START.
GetPendingSession ==
  /\ up
  /\ m_pending # <<>>
  /\ m_pending' = Tail(m_pending)
  /\ open' = open \cup {Head(m_pending)}
  /\ \E refused \in Choice : Spend(refused) /\ Advance(Head(m_pending), PROG_START, refused)
  /\ UNCHANGED <<clientVars, commands, replies, up, reqTaken, cmdTaken, stopped>>

\* Session::progress().  The mark PROG_START enters the session anew, one that
\* was cancelled too.
Progress(k, mark) ==
  /\ k \in open
  /\ \E refused \in Choice : Spend(1 + refused) /\ Advance(k, mark, refused)
  /\ stopped' = IF mark = PROG_START THEN stopped \ {k} ELSE stopped
  /\ UNCHANGED <<clientVars, commands, replies, up, reqTaken, cmdTaken, m_pending, open>>

\* Session::reply(): report success, record it, and send the reply on its own
\* topic.  The session object stays usable.
Reply(k) ==
  /\ k \in open
  /\ \E refused \in Choice, noReply \in Choice :
       /\ Spend(1 + refused + noReply)
       /\ Report(k, PROG_SUCCESS, refused)
       /\ replies' = Published(replies, k, noReply)
  /\ m_state' = [m_state EXCEPT ![k] = IF @ = "none" THEN "none" ELSE "SUCCEED"]
  /\ UNCHANGED <<clientVars, commands, up, reqTaken, cmdTaken, m_pending, open, stopped>>

\* A Session object is given up: the last one of its session, or a copy.
GiveUp(k, copy, refused) ==
  /\ k \in open
  /\ Spend(copy + refused)
  /\ open' = IF copy = 1 THEN open ELSE open \ {k}
  /\ UNCHANGED <<clientVars, commands, replies, up, reqTaken, cmdTaken, m_pending, stopped>>

\* Session::fail() detaches the object from the backend.
Fail(k) ==
  \E copy \in Choice, refused \in Choice :
    GiveUp(k, copy, refused) /\ Advance(k, PROG_FAILED, refused)

\* A destructor that forgets to report the failure.
CloseSilently(k) ==
  \E copy \in Choice :
    /\ GiveUp(k, copy, 0)
    /\ m_state' = [m_state EXCEPT ![k] = "none"]
    /\ UNCHANGED <<progress, amiss>>

\* ~Session(), of a copy too: a session still in progress has failed.
Close(k) ==
  \E copy \in Choice, refused \in Choice :
    /\ GiveUp(k, copy, refused)
    /\ m_state' = [m_state EXCEPT ![k] = "none"]
    /\ IF m_state[k] \in {"STARTING", "RUNNING"} THEN Report(k, PROG_FAILED, refused)
       ELSE UNCHANGED <<progress, amiss>>

\* The server's process ends: its state is gone, and so is what it published
\* and the client has not taken.
Crash ==
  /\ up
  /\ Spend(1)
  /\ up' = FALSE
  /\ progress' = <<>> /\ replies' = <<>>
  /\ reqTaken' = 0 /\ cmdTaken' = 0
  /\ m_pending' = <<>> /\ m_state' = [k \in Ids |-> "none"]
  /\ open' = {} /\ stopped' = {} /\ amiss' = {}
  /\ UNCHANGED <<clientVars, commands>>

\* A new server is sent all requests and commands from the beginning.
Start ==
  /\ ~ up
  /\ up' = TRUE
  /\ UNCHANGED <<clientVars, commands, progress, replies, reqTaken, cmdTaken, m_pending, m_state,
                 open, stopped, amiss, events>>

Ending(k) == Fail(k) \/ Close(k)

ServerStep == \/ OnCommand \/ OnRequest \/ GetPendingSession \/ Crash \/ Start
              \/ \E k \in Ids : Reply(k) \/ Ending(k) \/ \E mark \in UserMarks : Progress(k, mark)

-----------------------------------------------------------------------------
Next == ClientStep \/ ServerStep

Spec == Init /\ [][Next]_vars

\* FastDDS delivers and notices that a server came or went, the server's
\* application fetches sessions and keeps no session for ever.  Nobody has to
\* start a new server.
Fairness ==
  /\ WF_vars(OnProgress) /\ WF_vars(OnReply) /\ WF_vars(Discover)
  /\ WF_vars(OnRequest) /\ WF_vars(GetPendingSession)
  /\ \A k \in Ids : WF_vars(Ending(k) /\ k \notin open')

FairSpec == Spec /\ Fairness
-----------------------------------------------------------------------------
(* Properties. *)

\* Every variable holds values of its type, the server is never ahead of the
\* client, and a session object exists only of a session that was handed out.
TypeOK ==
  /\ m_lastId \in 0 .. MaxSessions
  /\ m_session \in [Ids -> SessionData \cup {Absent}]
  /\ held \subseteq 1 .. m_lastId /\ sent \subseteq 1 .. m_lastId
  /\ discovered \in BOOLEAN
  /\ commands \in Seq(Ids)
  /\ progress \in Seq([id : Ids, mark : Marks]) /\ replies \in Seq(Ids)
  /\ up \in BOOLEAN
  /\ reqTaken \in {0} \cup sent /\ cmdTaken \in 0 .. Len(commands)
  /\ m_pending \in Seq(Ids)
  /\ m_state \in [Ids -> State]
  /\ open \subseteq Ids /\ stopped \subseteq Ids /\ amiss \subseteq Ids
  /\ events \in Nat

\* Nothing is left to do: every request that was written was fetched and closed,
\* and the client has taken all there is to take.
Quiet == /\ up /\ (\A k \in sent : k <= reqTaken) /\ m_pending = <<>> /\ open = {}
         /\ progress = <<>> /\ replies = <<>>

\* Sessions whose request was written and whose last report did not go amiss.
Sound(k) == k \in sent /\ k \notin amiss

\* isAlive() at the client: when nothing is left to do, the client takes no
\* session for alive.  Success and failure reports overtake replies, servers
\* restart, sessions are answered twice or not at all, copies of a Session end
\* before the others, and still the last thing the client hears of a session is
\* its end.  Three sessions are left out, because the code leaves them alive for
\* ever: one whose request was refused by the writer, one whose last report was
\* refused, and one on which the application reported progress with a copy of
\* its Session after another copy had failed or was destroyed.
Settled == Quiet => \A k \in Ids : Sound(k) => ~ Alive(m_session[k])

\* isAlive() at the server: a cancel that arrives while the server works on
\* the session ends it for good, however the application goes on reporting
\* progress or replies, unless it reports the mark for "started" once more.
CancelSticks == \A k \in stopped : m_state[k] = "none"

\* "You can check if the session has been canceled by calling isAlive()": the
\* server takes no session for alive whose cancel command it has taken.
CancelSeen ==
  \A i \in 1 .. cmdTaken : m_state[commands[i]] \notin {"STARTING", "RUNNING"}

\* A step that loses no reply.
KeepsReplies ==
  \A k \in Ids : m_session[k].reply = "ready" =>
    m_session'[k].reply # "none" \/ Cancel(k) \/ DestroySession(k)

\* "Get the reply, waiting as necessary": a reply that reached the client stays
\* there for get() until the application itself gives the session up, by
\* cancel() or by destroying a Session object.
ReplyKept == [][KeepsReplies]_vars

\* A step that brings back no session.
NoneReturns ==
  \A k \in Ids : k <= m_lastId /\ m_session[k] = Absent => m_session'[k] = Absent

\* A session that was disposed of or groomed away never comes back
\* to the client's table, whatever is still on its way from the server.
GoneStaysGone == [][NoneReturns]_vars

\* isAlive() at the client, the server's presence included.
IsAlive(k) == discovered /\ Alive(m_session[k])

\* Every session that isAlive() of the client reports alive ends for it, even if
\* the server goes away, for good or to come back: it succeeds, fails or is
\* dropped, or the client loses the server.  The sessions that the code leaves
\* alive for ever are the three that Settled leaves out.
EventuallyEnds == \A k \in Ids : (Sound(k) /\ IsAlive(k)) ~> ~ (Sound(k) /\ IsAlive(k))
=============================================================================
