----------------------------- MODULE Participant -----------------------------
(***************************************************************************)
(* lt::Participant: the topics, readers and writers of one node, the map of *)
(* requesters that Participant::request() keeps, and its mutex.  Threads of *)
(* the application make calls; a call is a list of steps, each of them one  *)
(* FastDDS call or one use of the mutex, and the steps of different threads *)
(* interleave.  A step may put further steps in front of those that are     *)
(* left, which is how constructors and destructors nest.                    *)
(*                                                                          *)
(* Of FastDDS the model keeps this: an entity that was deleted must not be  *)
(* used again, lookup_datareader() and lookup_datawriter() return some      *)
(* endpoint of the topic (the first of their list; any, here), and          *)
(* create_topic() refuses a name that is taken.  The library never deletes  *)
(* a topic that create_topic() gave it, only the proxies that find_topic()  *)
(* gave it.  An undefined use ends the behaviour (mishap).                  *)
(***************************************************************************)
EXTENDS Integers, Sequences, FiniteSets

CONSTANTS Threads,      \* threads of the application
          Names,        \* names of topics and of services
          Types,        \* message types
          Calls,        \* the calls each thread may make
          MaxCalls,     \* bound: calls made in all
          MaxWork,      \* bound: requests an object holds unanswered
          Disciplined,  \* do the threads keep the rules of WellUsed and MayCall
          Nobody,       \* no thread
          NoTopic       \* no topic of that name

\* A topic's name is a name with a suffix: none for a plain topic, and those
\* of detail::requestName() and detail::replyName().
PlainName(s) == <<s, "">>
RequestName(s) == <<s, "/request">>
ReplyName(s) == <<s, "/reply">>
TopicNames == Names \X {"", "/request", "/reply"}

Makers == {"subscribe", "advertise", "makeRequester", "makeReplier", "provide"}
Users == {"drop", "publish", "reply"}
Dos == Makers \cup Users \cup {"unsubscribe", "unadvertise", "request"}

\* A call names a topic or a service, its types (a plain topic has the type
\* rep) and the history depth it asks for, -1 for all.
Call == [do : Dos, name : Names, req : Types, rep : Types, depth : Int]

ASSUME CallsAssumption == \A t \in Threads : \A c \in Calls[t] : c \in Call
\* Is s a service that some thread calls with Participant::request()?
Kept(s) == \E t \in Threads : \E c \in Calls[t] : c.do = "request" /\ c.name = s

\* How a disciplined application divides the names.  A name belongs to one
\* thread, but for the services of request(), which has a mutex; these are used
\* with request() and unsubscribe() alone.  A service has one pair of types,
\* and is answered either by repliers or by a provider.
ServiceDos == {"makeRequester", "makeReplier", "provide", "request"}
WellUsed ==
  \A t, u \in Threads : \A c \in Calls[t], d \in Calls[u] : c.name = d.name =>
    /\ t = u \/ Kept(c.name)
    /\ Kept(c.name) => c.do \in {"request", "unsubscribe"}
    /\ c.do \in ServiceDos /\ d.do \in ServiceDos => c.req = d.req /\ c.rep = d.rep
    /\ c.do = "makeReplier" => d.do \notin {"provide", "unadvertise"}

ASSUME DisciplineAssumption == Disciplined => WellUsed
ASSUME NobodyAssumption == Nobody \notin Threads
ASSUME NoTopicAssumption == NoTopic \notin [type : Types, depth : Int]

VARIABLES topics,    \* the type and depth of each topic
          object,    \* what the calls made: publishers, listeners, backends
          m_requesterBackendMap,  \* the requester kept for each service, or 0
          m_requesterMutex,       \* the thread that holds it
          todo,      \* the steps each thread has still to take
          work,      \* requests each object took and has not answered yet
          mishap,    \* the undefined use that ended the behaviour
          calls      \* calls made so far

requesters == <<m_requesterBackendMap, m_requesterMutex>>
vars == <<topics, object, requesters, todo, work, mishap, calls>>

Kinds == {"publisher", "callback", "requester", "replier", "provider"}
Mishaps == {"none", "stale reader", "stale writer", "dead writer", "null writer",
            "dead listener", "late answer"}
Endpoint == {"none", "open", "deleted"}
Ids == 1..Len(object)

\* held is the thread that holds the handle: nobody holds a listener, or a
\* requester that request() made.  writer is "none" while m_writer is null.
Object == [kind : Kinds, name : Names, req : Types, rep : Types, depth : Int,
           held : Threads \cup {Nobody}, live : BOOLEAN,
           reader : Endpoint, writer : Endpoint]

New(kind, s, req, rep, depth, t) ==
  [kind |-> kind, name |-> s, req |-> req, rep |-> rep, depth |-> depth,
   held |-> t, live |-> TRUE, reader |-> "none", writer |-> "none"]

\* Where an object writes and reads.  Requesters write requests and read
\* replies, providers and repliers the other way round.
WriterTopic(o) == CASE o.kind = "requester" -> RequestName(o.name)
                    [] o.kind \in {"provider", "replier"} -> ReplyName(o.name)
                    [] OTHER -> PlainName(o.name)
ReaderTopic(o) == CASE o.kind = "requester" -> ReplyName(o.name)
                    [] o.kind \in {"provider", "replier"} -> RequestName(o.name)
                    [] OTHER -> PlainName(o.name)
TopicOf(o, end) == IF end = "writer" THEN WriterTopic(o) ELSE ReaderTopic(o)

\* The type an object uses on a topic, and the depth it asks for: the topics
\* of services are always opened with -1.
TypeOn(o, n) == IF n = RequestName(o.name) THEN o.req ELSE o.rep
Asked(o) == IF o.kind \in {"publisher", "callback"} THEN o.depth ELSE -1

ReadersOn(n) == {i \in Ids : object[i].reader = "open" /\ ReaderTopic(object[i]) = n}
WritersOn(n) == {i \in Ids : object[i].writer = "open" /\ WriterTopic(object[i]) = n}

-----------------------------------------------------------------------------
(* Steps. *)

Ends == {"reader", "writer"}
EntityOps == {"topic", "create", "endpoint", "replace", "guid", "delete",
              "end", "store", "send"}
NameOps == {"unsubscribe", "lock", "erase", "unlock", "stop", "retract"}
Step == [op : EntityOps, id : Nat \ {0}, end : Ends]
          \cup [op : NameOps, name : TopicNames]
          \cup [op : {"backend"}, name : Names, req : Types, rep : Types]

Do(op, i, end) == [op |-> op, id |-> i, end |-> end]
On(op, n) == [op |-> op, name |-> n]

\* The constructors of the service backends, and of a provider's listener,
\* make the publisher, ask it for its guid, and subscribe.
Advertising(i) == <<Do("topic", i, "writer")>>
Subscribing(i) == <<Do("replace", i, "reader"), Do("topic", i, "reader")>>
Constructor(kind, i) ==
  CASE kind = "publisher" -> Advertising(i)
    [] kind = "callback" -> Subscribing(i)
    [] OTHER -> Advertising(i) \o <<Do("guid", i, "writer")>> \o Subscribing(i)

\* A destructor that leaves the subscription behind.
DestructorSilent(i) == <<Do("end", i, "writer")>>

\* ~RequesterImpl(), ~ReplierImpl(): unsubscribe, then the members go, among
\* them the Publisher.
Destructor(i) ==
  IF object[i].kind = "publisher"
  THEN <<Do("end", i, "writer")>>
  ELSE <<On("unsubscribe", ReaderTopic(object[i])), Do("end", i, "writer")>>

\* Thread t is about to take a step op, and goes on with other steps instead.
Doing(t, op) == mishap = "none" /\ todo[t] # <<>> /\ Head(todo[t]).op = op
Then(t, steps) == todo' = [todo EXCEPT ![t] = steps \o Tail(@)]
\* The entity that the step is about.
It(t) == Head(todo[t]).id
Becomes(i, end, state) == object' = [object EXCEPT ![i][end] = state]

Init == /\ topics = [n \in TopicNames |-> NoTopic]
        /\ object = <<>>
        /\ m_requesterBackendMap = [s \in Names |-> 0]
        /\ m_requesterMutex = Nobody
        /\ todo = [t \in Threads |-> <<>>]
        /\ work = <<>>
        /\ mishap = "none"
        /\ calls = 0

-----------------------------------------------------------------------------
(* doAdvertise() and doSubscribe(). *)

\* doSubscribe() first deletes a reader that has the topic for another type.
Replace(t) ==
  /\ Doing(t, "replace")
  /\ LET n == ReaderTopic(object[It(t)])
         other(r) == TypeOn(object[r], n) # TypeOn(object[It(t)], n)
     IN \/ \E r \in ReadersOn(n) :
             Then(t, IF other(r) THEN <<Do("delete", r, "reader")>> ELSE <<>>)
        \/ ReadersOn(n) = {} /\ Then(t, <<>>)
  /\ UNCHANGED <<topics, object, requesters, work, mishap, calls>>

\* getTopic() without the check of the type.
FitsAnyType(i, n) == topics[n].depth = -1 \/ topics[n].depth >= Asked(object[i])

\* getTopic() takes an existing topic of the type and of the depth asked for.
\* The depths are compared as numbers: any topic is deep enough for -1.
Fits(i, n) == /\ topics[n].type = TypeOn(object[i], n)
              /\ topics[n].depth = -1 \/ topics[n].depth >= Asked(object[i])

\* getTopic(): find_topic(), and the checks of what it found.
GetTopic(t) ==
  /\ Doing(t, "topic")
  /\ LET i == It(t)
         end == Head(todo[t]).end
         n == TopicOf(object[i], end)
     IN Then(t, IF topics[n] = NoTopic THEN <<Do("create", i, end)>>
                ELSE IF Fits(i, n) THEN <<Do("endpoint", i, end)>> ELSE <<>>)
  /\ UNCHANGED <<topics, object, requesters, work, mishap, calls>>

\* getTopic(): create_topic(), which fails when the name was taken meanwhile.
CreateTopic(t) ==
  /\ Doing(t, "create")
  /\ LET i == It(t)
         end == Head(todo[t]).end
         n == TopicOf(object[i], end)
     IN IF topics[n] = NoTopic
        THEN /\ topics' = [topics EXCEPT ![n] = [type |-> TypeOn(object[i], n),
                                                 depth |-> Asked(object[i])]]
             /\ Then(t, <<Do("endpoint", i, end)>>)
        ELSE Then(t, <<>>) /\ UNCHANGED topics
  /\ UNCHANGED <<object, requesters, work, mishap, calls>>

\* create_datawriter() or create_datareader().
CreateEndpoint(t) ==
  /\ Doing(t, "endpoint")
  /\ Becomes(It(t), Head(todo[t]).end, "open")
  /\ Then(t, <<>>)
  /\ UNCHANGED <<topics, requesters, work, mishap, calls>>

\* Publisher::guid() does not ask whether there is a writer.
GetGuid(t) ==
  /\ Doing(t, "guid")
  /\ mishap' = [none |-> "null writer", open |-> "none",
                deleted |-> "dead writer"][object[It(t)].writer]
  /\ Then(t, <<>>)
  /\ UNCHANGED <<topics, object, requesters, work, calls>>

\* delete_datareader() or delete_datawriter() of what an earlier step looked up.
Delete(t) ==
  /\ Doing(t, "delete")
  /\ LET i == It(t)
         end == Head(todo[t]).end
     IN IF object[i][end] = "open"
        THEN Becomes(i, end, "deleted") /\ UNCHANGED mishap
        ELSE mishap' = [reader |-> "stale reader", writer |-> "stale writer"][end]
             /\ UNCHANGED object
  /\ Then(t, <<>>)
  /\ UNCHANGED <<topics, requesters, work, calls>>

\* The members of an object are destroyed; the deleter of its Publisher
\* deletes the writer.
End(t) ==
  /\ Doing(t, "end")
  /\ LET o == object[It(t)]
     IN /\ mishap' = IF o.writer = "deleted" THEN "stale writer" ELSE "none"
        /\ object' = [object EXCEPT ![It(t)].live = FALSE,
                        ![It(t)].writer = IF @ = "open" THEN "deleted" ELSE @]
  /\ Then(t, <<>>)
  /\ work' = [work EXCEPT ![It(t)] = 0]
  /\ UNCHANGED <<topics, requesters, calls>>

-----------------------------------------------------------------------------
(* unsubscribe(), unadvertise() and request(). *)

\* unsubscribe() that takes the mutex before it looks for the reader.
UnsubscribeLocked(t) ==
  /\ Doing(t, "unsubscribe")
  /\ LET n == Head(todo[t]).name
     IN Then(t, <<On("lock", n)>>
                  \o (IF ReadersOn(n) = {} THEN <<On("erase", n)>>
                      ELSE <<Do("delete", CHOOSE r \in ReadersOn(n) : TRUE, "reader")>>)
                  \o <<On("unlock", n)>>)
  /\ UNCHANGED <<topics, object, requesters, work, mishap, calls>>

\* unsubscribe(): some reader of the topic goes; if there is none, the name
\* may be one of a service.
Unsubscribe(t) ==
  /\ Doing(t, "unsubscribe")
  /\ LET n == Head(todo[t]).name
     IN \/ \E r \in ReadersOn(n) : Then(t, <<Do("delete", r, "reader")>>)
        \/ ReadersOn(n) = {} /\ Then(t, <<On("lock", n), On("erase", n), On("unlock", n)>>)
  /\ UNCHANGED <<topics, object, requesters, work, mishap, calls>>

\* request() and unsubscribe() without the mutex.
LockFree(t) ==
  /\ Doing(t, "lock")
  /\ m_requesterMutex' = t
  /\ Then(t, <<>>)
  /\ UNCHANGED <<topics, object, m_requesterBackendMap, work, mishap, calls>>

\* The guards of m_requesterMutex, which is not recursive.
Lock(t) ==
  /\ Doing(t, "lock")
  /\ m_requesterMutex = Nobody
  /\ m_requesterMutex' = t
  /\ Then(t, <<>>)
  /\ UNCHANGED <<topics, object, m_requesterBackendMap, work, mishap, calls>>
Unlock(t) ==
  /\ Doing(t, "unlock")
  /\ m_requesterMutex' = Nobody
  /\ Then(t, <<>>)
  /\ UNCHANGED <<topics, object, m_requesterBackendMap, work, mishap, calls>>

\* A destroyed requester whose entry stays in the map.
EraseLate(t) ==
  /\ Doing(t, "erase")
  /\ LET n == Head(todo[t]).name
     IN Then(t, IF n[2] = "" /\ m_requesterBackendMap[n[1]] # 0
                THEN Destructor(m_requesterBackendMap[n[1]]) ELSE <<>>)
  /\ UNCHANGED <<topics, object, requesters, work, mishap, calls>>

\* m_requesterBackendMap.erase(), which destroys the requester it held.
Erase(t) ==
  /\ Doing(t, "erase")
  /\ LET n == Head(todo[t]).name
     IN IF n[2] = "" /\ m_requesterBackendMap[n[1]] # 0
        THEN /\ Then(t, Destructor(m_requesterBackendMap[n[1]]))
             /\ m_requesterBackendMap' = [m_requesterBackendMap EXCEPT ![n[1]] = 0]
        ELSE Then(t, <<>>) /\ UNCHANGED m_requesterBackendMap
  /\ UNCHANGED <<topics, object, m_requesterMutex, work, mishap, calls>>

\* request() takes the requester in the map when it has the right types, and
\* makes one otherwise.
Backend(t) ==
  /\ Doing(t, "backend")
  /\ LET c == Head(todo[t])
         i == m_requesterBackendMap[c.name]
         n == Len(object) + 1
     IN IF i # 0 /\ object[i].req = c.req /\ object[i].rep = c.rep
        THEN Then(t, <<Do("send", i, "writer")>>) /\ UNCHANGED <<object, work>>
        ELSE /\ object' = Append(object, New("requester", c.name, c.req, c.rep, -1, Nobody))
             /\ work' = Append(work, 0)
             /\ Then(t, Constructor("requester", n)
                          \o <<Do("store", n, "writer"), Do("send", n, "writer")>>)
  /\ UNCHANGED <<topics, requesters, mishap, calls>>

\* The map's entry is assigned, which destroys the requester it held.
Store(t) ==
  /\ Doing(t, "store")
  /\ LET s == object[It(t)].name
         old == m_requesterBackendMap[s]
     IN /\ m_requesterBackendMap' = [m_requesterBackendMap EXCEPT ![s] = It(t)]
        /\ Then(t, IF old = 0 THEN <<>> ELSE Destructor(old))
  /\ UNCHANGED <<topics, object, m_requesterMutex, work, mishap, calls>>

\* Publisher::doPublish(): a null writer refuses, a deleted one is not noticed.
Published(i, misuse) == mishap' = IF object[i].writer = "deleted" THEN misuse ELSE "none"
Send(t) ==
  /\ Doing(t, "send")
  /\ Published(It(t), "dead writer")
  /\ Then(t, <<>>)
  /\ UNCHANGED <<topics, object, requesters, work, calls>>

\* unadvertise() looks up a reader of the requests, and then a writer of the
\* replies.
Stop(t) ==
  /\ Doing(t, "stop")
  /\ LET n == Head(todo[t]).name
     IN \/ \E r \in ReadersOn(n) : Then(t, <<Do("delete", r, "reader")>>)
        \/ ReadersOn(n) = {} /\ Then(t, <<>>)
  /\ UNCHANGED <<topics, object, requesters, work, mishap, calls>>
Retract(t) ==
  /\ Doing(t, "retract")
  /\ LET n == Head(todo[t]).name
     IN \/ \E w \in WritersOn(n) : Then(t, <<Do("delete", w, "writer")>>)
        \/ WritersOn(n) = {} /\ Then(t, <<>>)
  /\ UNCHANGED <<topics, object, requesters, work, mishap, calls>>

-----------------------------------------------------------------------------
(* Calls of the application, and what arrives. *)

KindOf(do) == [subscribe |-> "callback", advertise |-> "publisher", provide |-> "provider",
               makeRequester |-> "requester", makeReplier |-> "replier"][do]

\* The rule of a disciplined application: one requester, one replier and one
\* provider of a service at a time.
MayCall(c) ==
  c.do \in {"makeRequester", "makeReplier", "provide"} =>
    \A i \in Ids : object[i].name = c.name /\ object[i].kind = KindOf(c.do)
                     => object[i].reader = "deleted"

\* The handles of thread t that a call may use.
Handles(t, c) ==
  {i \in Ids : /\ object[i].held = t /\ object[i].live /\ object[i].name = c.name
               /\ \/ c.do = "drop"
                  \/ c.do = "publish" /\ object[i].kind \in {"publisher", "requester"}}

\* A call that makes a publisher, a subscription or a service backend.
Make(t, c) ==
  /\ c.do \in Makers
  /\ LET kind == KindOf(c.do)
         holder == IF kind \in {"callback", "provider"} THEN Nobody ELSE t
     IN /\ object' = Append(object, New(kind, c.name, c.req, c.rep, c.depth, holder))
        /\ work' = Append(work, 0)
        /\ todo' = [todo EXCEPT ![t] = Constructor(kind, Len(object) + 1)]

\* Publisher::publish(), Requester::request(), or the end of a handle.
UseHandle(t, c) ==
  /\ c.do \in {"drop", "publish"}
  /\ \E i \in Handles(t, c) :
       todo' = [todo EXCEPT ![t] = IF c.do = "drop" THEN Destructor(i)
                                   ELSE <<Do("send", i, "writer")>>]
  /\ UNCHANGED <<object, work>>

\* getPendingSession() and Session::reply() of a Replier.
ReplySession(t, c) ==
  /\ c.do = "reply"
  /\ \E i \in Ids : /\ object[i].held = t /\ object[i].live /\ object[i].name = c.name
                    /\ work[i] > 0
                    /\ work' = [work EXCEPT ![i] = @ - 1]
                    /\ todo' = [todo EXCEPT ![t] = <<Do("send", i, "writer")>>]
  /\ UNCHANGED object

\* The calls that look things up by name.
ByName(t, c) ==
  /\ \/ /\ c.do = "unsubscribe"
        /\ todo' = [todo EXCEPT ![t] = <<On("unsubscribe", PlainName(c.name))>>]
     \/ /\ c.do = "unadvertise"
        /\ todo' = [todo EXCEPT ![t] = <<On("stop", RequestName(c.name)),
                                         On("retract", ReplyName(c.name))>>]
     \/ /\ c.do = "request"
        /\ todo' = [todo EXCEPT ![t] =
             <<On("lock", PlainName(c.name)),
               [op |-> "backend", name |-> c.name, req |-> c.req, rep |-> c.rep],
               On("unlock", PlainName(c.name))>>]
  /\ UNCHANGED <<object, work>>

Begin(t) ==
  /\ mishap = "none" /\ todo[t] = <<>> /\ calls < MaxCalls
  /\ \E c \in Calls[t] : /\ Disciplined => MayCall(c)
                         /\ \/ Make(t, c) \/ UseHandle(t, c)
                            \/ ReplySession(t, c) \/ ByName(t, c)
  /\ calls' = calls + 1
  /\ UNCHANGED <<topics, requesters, mishap>>

\* on_data_available(): the listener hands the sample to its object.  A
\* provider or a replier keeps it to be answered.
Deliver(i) ==
  /\ mishap = "none" /\ work[i] < MaxWork /\ object[i].reader = "open"
  /\ mishap' = IF object[i].live THEN "none" ELSE "dead listener"
  /\ work' = IF object[i].kind \in {"provider", "replier"} THEN [work EXCEPT ![i] = @ + 1]
             ELSE work
  /\ UNCHANGED <<topics, object, requesters, todo, calls>>

\* A provider that publishes a reply nobody asked for.
RunJobUnasked(i) ==
  /\ mishap = "none" /\ object[i].kind = "provider"
  /\ work' = [work EXCEPT ![i] = @ - 1]
  /\ Published(i, "late answer")
  /\ UNCHANGED <<topics, object, requesters, todo, calls>>

\* The job of a ServiceProvider publishes its reply.  unadvertise() may have
\* deleted the writer since the request arrived.
RunJob(i) ==
  /\ mishap = "none" /\ object[i].kind = "provider" /\ work[i] > 0
  /\ work' = [work EXCEPT ![i] = @ - 1]
  /\ Published(i, "late answer")
  /\ UNCHANGED <<topics, object, requesters, todo, calls>>

Advance(t) ==
  \/ Replace(t) \/ GetTopic(t) \/ CreateTopic(t) \/ CreateEndpoint(t) \/ GetGuid(t)
  \/ Delete(t) \/ End(t) \/ Unsubscribe(t) \/ Lock(t)
  \/ Unlock(t) \/ Erase(t) \/ Backend(t) \/ Store(t) \/ Send(t) \/ Stop(t) \/ Retract(t)

Next == \/ \E t \in Threads : Begin(t) \/ Advance(t)
        \/ \E i \in Ids : Deliver(i) \/ RunJob(i)

\* A thread that can take its next step takes it.
Spec == Init /\ [][Next]_vars /\ \A t \in Threads : WF_vars(Advance(t))

-----------------------------------------------------------------------------
(* Properties. *)

\* The type of the state.  The map holds only requesters that were made, and no
\* provider or replier answers more requests than it took.
TypeOK ==
  /\ topics \in [TopicNames -> [type : Types, depth : Int] \cup {NoTopic}]
  /\ object \in Seq(Object)
  /\ m_requesterBackendMap \in [Names -> Ids \cup {0}]
  /\ m_requesterMutex \in Threads \cup {Nobody}
  /\ todo \in [Threads -> Seq(Step)]
  /\ work \in Seq(Nat) /\ Len(work) = Len(object)
  /\ mishap \in Mishaps
  /\ calls \in Nat

\* The readers and writers of one name that are in use at the same time, made
\* by calls of any threads, have one type, and the topic's history, if bounded,
\* is as deep as the deepest bounded one that any of them asked for: getTopic()
\* checks this before the endpoint is made.  Of an endpoint that asked for -1
\* nothing is said, since getTopic() gives it a bounded topic without notice
\* (Participant.cpp:298), although Participant.hpp:57 has -1 keep everything.
\* That the name stays with its first type is not part of it: Participant.hpp:
\* 243-245 has the topic replaced, where the code refuses the second type.
OneTypePerTopic ==
  \A i, j \in Ids : \A e, f \in Ends :
    LET n == TopicOf(object[i], e)
    IN /\ object[i][e] = "open" /\ object[j][f] = "open" /\ TopicOf(object[j], f) = n
       => /\ TypeOn(object[i], n) = TypeOn(object[j], n)
          /\ topics[n].depth # -1 /\ Asked(object[i]) >= 0
               => Asked(object[i]) <= topics[n].depth

\* No reader outlives the object its listener calls: the callbacks of
\* RequesterImpl and ReplierImpl capture this, and their destructors
\* unsubscribe by the name of the topic, not by the reader.
ListenersAlive == \A i \in Ids : object[i].reader = "open" => object[i].live

\* A participant whose threads keep the rules of WellUsed and MayCall makes one
\* undefined use at most: a provider's job publishes its reply through the
\* writer that unadvertise() deleted meanwhile (Participant.cpp:205-206), which
\* no rule can exclude, since a request may arrive at any time and the jobs are
\* hidden.  No call of a thread uses a deleted reader or writer, no callback
\* finds its object gone, and no guid is asked of a publisher without a writer.
\* The rules matter: two threads that unsubscribe one topic delete its reader
\* twice (Participant.cpp:187), and a service with two pairs of types has
\* publishers without a writer (Participant.cpp:24).
NothingStale == mishap \in {"none", "late answer"}

\* Is some thread still making object i?
Making(i) == \E t \in Threads : \E k \in DOMAIN todo[t] :
               todo[t][k].op \in {"topic", "create", "endpoint"} /\ todo[t][k].id = i

\* Can topic n serve object i?
Suits(i, n) == /\ topics[n].type = TypeOn(object[i], n)
               /\ topics[n].depth = -1 \/ Asked(object[i]) <= topics[n].depth

\* The endpoint of a finished advertise() or subscribe() is missing only when
\* the topic has another type or too short a history: two threads that open a
\* topic with one type both get their endpoint.  (Whether another type should be
\* refused at all is left open; Participant.hpp:243-245 says otherwise.)
RefusedOnlyIfUnfit ==
  \A i \in Ids : \A end \in Ends :
    /\ object[i][end] = "none" /\ ~Making(i) /\ mishap = "none"
    /\ <<object[i].kind, end>> \notin {<<"publisher", "reader">>, <<"callback", "writer">>}
    => LET n == TopicOf(object[i], end)
       IN topics[n] # NoTopic /\ ~Suits(i, n)

\* While nobody holds m_requesterMutex, the requester that request() keeps for
\* a service is alive, can send, and its subscription to the replies is the
\* only one: no unsubscribe() of a service and no second request() took its
\* reader away or left one behind.
KeptRequesterHears ==
  m_requesterMutex = Nobody =>
    \A s \in Names :
      LET i == m_requesterBackendMap[s]
      IN i # 0 => /\ object[i].live /\ object[i].writer = "open"
                  /\ ReadersOn(ReplyName(s)) = {i}

\* A thread that holds m_requesterMutex has not returned and does not wait for
\* it: what unsubscribe() and request() destroy or make under the mutex finds
\* its own reader, and so never comes back to the branch that takes the mutex.
HolderGoesOn == \A t \in Threads :
                  m_requesterMutex = t => todo[t] # <<>> /\ Head(todo[t]).op # "lock"

\* Every call returns, unless an undefined use ends the behaviour first: a
\* destructor that runs under m_requesterMutex finds its reader, and so does not
\* ask for the mutex again.
CallsReturn == \A t \in Threads :
                 todo[t] # <<>> ~> (todo[t] = <<>> \/ mishap # "none")
=============================================================================
