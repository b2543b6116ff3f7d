-------------------------- MODULE ParticipantCalls --------------------------
(***************************************************************************)
(* The invariant of ParticipantDiscipline when calls begin, samples arrive  *)
(* and jobs run, and so throughout; and what it says of the participant.    *)
(***************************************************************************)
EXTENDS ParticipantObjects

(* The calls of the application. *)

\* A thread between two calls.
LEMMA AtStart ==
  ASSUME DInv, NEW u \in Threads, todo[u] = <<>>
  PROVE  m_requesterMutex # u /\ \A q : ~ Working(u, q, todo[u])
<1>1. Row(u, todo[u])
  BY Zenon DEF DInv, Rows
<1> QED
  BY <1>1, Zenon DEF Row, Working

\* It may work on a name of its own.
LEMMA OwnName ==
  ASSUME Disciplined, DInv, NEW u \in Threads, todo[u] = <<>>, NEW c \in Calls[u],
         c.do \notin {"request", "unsubscribe"}, NEW s, s = c.name
  PROVE  /\ s \in Names /\ ~ Kept(s) /\ Mine(u, s) /\ CalmBut(s, 0) /\ m_requesterBackendMap[s] = 0
         /\ \A q : ~ Working(u, q, todo[u])
<1>1. s \in Names
  BY CallsAssumption DEF Call
<1>2. ~ Kept(s)
  BY Rules, Zenon
<1>3. Mine(u, s) /\ \A q : ~ Working(u, q, todo[u])
  BY <1>2, AtStart, Zenon DEF Mine, Uses
<1>4. CalmBut(s, 0)
  BY <1>1, <1>3, CalmIfFree, Zenon
<1>5. m_requesterBackendMap[s] = 0
  BY <1>1, <1>2, MapMeans, Zenon
<1> QED
  BY <1>1, <1>2, <1>3, <1>4, <1>5

\* A call that makes an object.
LEMMA MakeAdds ==
  ASSUME Disciplined, DInv, NEW u \in Threads, todo[u] = <<>>, NEW c \in Calls[u], MayCall(c),
         Make(u, c), UNCHANGED <<topics, requesters, mishap>>, NEW kind, kind = KindOf(c.do),
         NEW s, s = c.name, NEW n, n = Len(object) + 1
  PROVE  /\ kind \in Kinds /\ todo' = [todo EXCEPT ![u] = Constructor(kind, n)]
         /\ \E o : Adds(s, o) /\ o.kind = kind
<1>1. c.do \in Makers /\ kind \in Kinds
  BY KindsMade, Zenon DEF Make
<1>2. PICK holder : holder = IF kind \in {"callback", "provider"} THEN Nobody ELSE u
  BY Zenon
<1>3. PICK o : o = New(kind, s, c.req, c.rep, c.depth, holder)
  BY Zenon
<1>4. /\ object' = Append(object, o)
      /\ todo' = [todo EXCEPT ![u] = Constructor(kind, Len(object) + 1)]
  BY <1>2, <1>3 DEF Make
<1>5. /\ o \in Object /\ o.name = s /\ o.live /\ o.reader = "none" /\ o.writer = "none"
      /\ o.kind = kind /\ o.req = c.req /\ o.rep = c.rep /\ o.held = holder
  <2>1. s \in Names /\ c.req \in Types /\ c.rep \in Types /\ c.depth \in Int
    BY CallsAssumption DEF Call
  <2>2. holder \in Threads \cup {Nobody}
    BY <1>2
  <2>3. o \in Object
    BY <1>1, <1>3, <2>1, <2>2, NewObject, Zenon
  <2> QED
    BY <1>3, <2>3 DEF New
<1>6. o.held # Nobody => o.kind \in {"publisher", "requester", "replier"}
  <2>1. kind \in {"callback", "provider"} \/ kind \in {"publisher", "requester", "replier"}
    BY <1>1 DEF Kinds
  <2> QED
    BY <1>2, <1>5, <2>1, Zenon
<1>7. kind \in Services => c.do \in {"makeRequester", "makeReplier", "provide"}
  <2>1. KindOf("subscribe") = "callback" /\ KindOf("advertise") = "publisher"
    BY DEF KindOf
  <2> QED
    BY <1>1, <2>1 DEF Services, Makers
<1>8. MadeBy(o, c)
  BY <1>1, <1>5, Zenon DEF MadeBy
<1>9. kind \in Services => \A j \in Ids : object[j].name = s /\ object[j].kind = kind
                                            => object[j].reader = "deleted"
  BY <1>7, Zenon DEF MayCall
<1>10. Adds(s, o)
  BY <1>4, <1>5, <1>6, <1>8, <1>9, Zenon DEF Adds
<1> QED
  BY <1>1, <1>4, <1>5, <1>10, Zenon

\* A call that makes something starts with an object that has neither endpoint.
LEMMA MakeKeeps ==
  ASSUME Disciplined, DInv, IInv', NEW u \in Threads, todo[u] = <<>>, NEW c \in Calls[u],
         MayCall(c), Make(u, c), UNCHANGED <<topics, requesters, mishap>>
  PROVE  DInv'
<1>1. PICK kind, s, n : kind = KindOf(c.do) /\ s = c.name /\ n = Len(object) + 1
  BY Zenon
<1>2. /\ kind \in Kinds /\ todo' = [todo EXCEPT ![u] = Constructor(kind, n)]
      /\ \E o : Adds(s, o) /\ o.kind = kind
  <2>1. kind = KindOf(c.do) /\ s = c.name /\ n = Len(object) + 1
    BY <1>1
  <2> QED
    BY <2>1, MakeAdds
<1>3. PICK o : Adds(s, o) /\ o.kind = kind
  BY <1>2, Zenon
<1>4. /\ s \in Names /\ ~ Kept(s) /\ Mine(u, s) /\ CalmBut(s, 0) /\ m_requesterBackendMap[s] = 0
      /\ \A q : ~ Working(u, q, todo[u])
  <2>1. c.do \notin {"request", "unsubscribe"}
    BY DEF Make, Makers
  <2> QED
    BY <1>1, <2>1, OwnName, Zenon
<1>5. PICK w : w = todo'[u]
  BY Zenon
<1>6. w = Constructor(kind, n) /\ \A t \in Threads : t # u => todo'[t] = todo[t]
  <2>1. todo \in [Threads -> Seq(GoodSteps)]
    BY DEF DInv, IInv, Todo
  <2> QED
    BY <1>2, <1>5, <2>1
<1>7. Takes(u, s)
  BY <1>4, <1>6, Zenon DEF Takes
<1>8. /\ n \in Ids' /\ object'[n] = o /\ m_requesterBackendMap' = m_requesterBackendMap
      /\ CalmBut(s, n)'
  BY <1>1, <1>3, <1>4, AddIds, AddCalm, Zenon
<1>9. /\ object'[n].name = s /\ object'[n].live /\ object'[n].reader = "none"
      /\ object'[n].writer = "none" /\ object'[n].kind = kind /\ m_requesterBackendMap'[s] = 0
  BY <1>3, <1>4, <1>8 DEF Adds
<1>10. /\ m_requesterMutex' = m_requesterMutex
       /\ Origin' /\ Agreed' /\ Sole' /\ MapWhole' /\ mishap' = "none"
       /\ \A q \in Names : q # s => Same(q)
  BY <1>1, <1>3, <1>4, AddFrame, Zenon
<1>11. CASE kind = "publisher"
  <2>1. PICK x : x = Do("topic", n, "writer")
    BY Zenon
  <2>2. w = <<x>>
    BY <1>6, <1>11, <2>1, Zenon DEF Constructor, Advertising
  <2>3. w # <<>> /\ Head(w) = x /\ Tail(w) = <<>>
    BY <2>2
  <2>4. ToWrite(n)'
    BY <1>9, <1>11 DEF ToWrite
  <2>5. TopicRow(s, n, "writer", Tail(w))'
    BY <1>8, <1>9, <1>11, <2>3, <2>4, Zenon DEF TopicRow
  <2>6. BusyRow(u, s, Do("topic", n, "writer"), Tail(w))'
    BY <1>8, <1>9, <2>5, BusyNext, Zenon DEF BusyRules
  <2>7. Ahead(u, s)
    BY <1>5, <2>1, <2>3, <2>6, Zenon DEF Ahead
  <2> QED
    BY <1>4, <1>7, <1>10, <2>7, NameStep, Zenon
<1>12. CASE kind = "callback"
  <2>1. PICK x, y : x = Do("replace", n, "reader") /\ y = Do("topic", n, "reader")
    BY Zenon
  <2>2. w = <<x, y>>
    BY <1>6, <1>12, <2>1 DEF Constructor, Subscribing
  <2>3. w # <<>> /\ Head(w) = x /\ Tail(w) = <<y>>
    BY <2>2
  <2>4. PICK v : v = <<y>>
    BY Zenon
  <2>5. v # <<>> /\ Head(v) = y /\ Tail(v) = <<>>
    BY <2>4
  <2>6. ToRead(n)'
    BY <1>9, <1>12 DEF ToRead
  <2>7. Subscribes(v, n, s)'
    BY <1>4, <2>1, <2>5, Zenon DEF Subscribes, Follows, Stores, Kept
  <2>8. ReplaceRow(s, n, v)'
    BY <1>8, <2>6, <2>7, Zenon DEF ReplaceRow
  <2>9. BusyRow(u, s, Do("replace", n, "reader"), v)'
    BY <1>8, <1>9, <2>8, BusyNext, Zenon DEF BusyRules
  <2>10. Ahead(u, s)
    BY <1>5, <2>1, <2>3, <2>4, <2>9, Zenon DEF Ahead
  <2> QED
    BY <1>4, <1>7, <1>10, <2>10, NameStep, Zenon
<1>13. CASE kind # "publisher" /\ kind # "callback"
  <2>1. w = Constructor(kind, n) \o <<>> /\ <<>> \in Seq(GoodSteps)
    <3>1. PICK a, b, d, e : /\ a = Do("topic", n, "writer") /\ b = Do("guid", n, "writer")
                            /\ d = Do("replace", n, "reader") /\ e = Do("topic", n, "reader")
      BY Zenon
    <3>2. w = (<<a>> \o <<b>>) \o <<d, e>>
      BY <1>6, <1>13, <3>1, Zenon DEF Constructor, Advertising, Subscribing
    <3>3. w \in Seq({a, b, d, e})
      BY <3>2
    <3>4. w = w \o <<>>
      BY <3>3
    <3> QED
      BY <1>6, <3>4, Lists, Zenon
  <2>2. Stores(<<>>, n, s)
    BY <1>4, Zenon DEF Stores
  <2>3. w # <<>> /\ Head(w) = Do("topic", n, "writer") /\ Asks(Tail(w), n, s)
    BY <1>13, <2>1, <2>2, ServiceList, Zenon
  <2>4. o.kind # "publisher" /\ o.kind # "callback"
    BY <1>3, <1>13
  <2> QED
    BY <1>1, <1>3, <1>4, <1>5, <1>7, <2>3, <2>4, AddService, Zenon
<1> QED
  BY <1>11, <1>12, <1>13, Zenon

\* A call that only sets the steps of its thread, and those of a Replier's
\* answer.
LEMMA SetList ==
  ASSUME DInv, NEW u \in Threads, NEW w, todo' = [todo EXCEPT ![u] = w]
  PROVE  w = todo'[u] /\ \A t \in Threads : t # u => todo'[t] = todo[t]
<1>1. todo \in [Threads -> Seq(GoodSteps)]
  BY DEF DInv, IInv, Todo
<1> QED
  BY <1>1

\* A handle that is alive has a writer, if the topic allowed one.
LEMMA HandleWhole ==
  ASSUME Disciplined, DInv, NEW u \in Threads, NEW i \in Ids, object[i].held = u, object[i].live,
         Settled(i)
  PROVE  /\ object[i].writer # "deleted"
         /\ \/ object[i].kind = "publisher"
            \/ object[i].kind \in {"requester", "replier"} /\ Whole(i)
<1>1. object[i].held # Nobody
  BY NobodyAssumption
<1>2. object[i].kind \in {"publisher", "requester", "replier"}
  BY <1>1, Zenon DEF DInv, Origin
<1>3. CASE object[i].kind = "publisher"
  BY <1>3 DEF Settled
<1>4. CASE object[i].kind \in {"requester", "replier"}
  <2>1. Whole(i)
    BY <1>4 DEF Settled, Gone
  <2> QED
    BY <1>4, <2>1 DEF Whole
<1> QED
  BY <1>2, <1>3, <1>4

\* The thread sends with a handle of its own.
LEMMA SendsOwn ==
  ASSUME Disciplined, DInv, IInv', NEW u \in Threads, NEW s \in Names, Mine(u, s), ~ Kept(s),
         CalmBut(s, 0), \A q : ~ Working(u, q, todo[u]),
         NEW i \in Ids, object[i].held = u, object[i].live, object[i].name = s,
         todo' = [todo EXCEPT ![u] = <<Do("send", i, "writer")>>],
         UNCHANGED <<topics, object, requesters, mishap>>
  PROVE  DInv'
<1>1. PICK x, w : x = Do("send", i, "writer") /\ w = <<x>>
  BY Zenon
<1>2. w = todo'[u] /\ \A t \in Threads : t # u => todo'[t] = todo[t]
  BY <1>1, SetList, Zenon
<1>3. Settled(i)
  <2>1. i # 0
    BY DEF Ids
  <2> QED
    BY <2>1, Zenon DEF CalmBut
<1>4. object[i].writer # "deleted"
  BY <1>3, HandleWhole, Zenon
<1>5. w # <<>> /\ Head(w) = x /\ Tail(w) = <<>>
  BY <1>1
<1>6. RestRow(u, s, x, Tail(w))
  <2>1. x.op = "send" /\ x.id = i /\ "send" \in EntityOps
    BY <1>1 DEF Do, EntityOps
  <2>2. Concerns(x, s)
    BY <2>1, Zenon DEF Concerns
  <2>3. Leaves(Tail(w), s)
    BY <1>5, Zenon DEF Leaves
  <2> QED
    BY <1>4, <2>1, <2>2, <2>3, Zenon DEF RestRow
<1>7. Row(u, w)
  BY <1>5, <1>6, Zenon DEF Row
<1> QED
  BY <1>2, <1>7, QuietRow, Zenon

\* The end of a handle.
LEMMA DropKeeps ==
  ASSUME Disciplined, DInv, IInv', NEW u \in Threads, NEW s \in Names, Mine(u, s), ~ Kept(s),
         CalmBut(s, 0), m_requesterBackendMap[s] = 0, \A q : ~ Working(u, q, todo[u]),
         NEW i \in Ids, object[i].held = u, object[i].live, object[i].name = s,
         todo' = [todo EXCEPT ![u] = Destructor(i)],
         UNCHANGED <<topics, object, requesters, work, mishap>>
  PROVE  DInv'
<1>1. PICK w, x, m : /\ w = Destructor(i) /\ x = Do("end", i, "writer")
                     /\ m = ReaderTopic(object[i])
  BY Zenon
<1>2. w = todo'[u] /\ \A t \in Threads : t # u => todo'[t] = todo[t]
  BY <1>1, SetList, Zenon
<1>3. Settled(i) /\ CalmBut(s, i)
  <2>1. \A j \in Ids : j # 0
    BY DEF Ids
  <2> QED
    BY <2>1, Zenon DEF CalmBut
<1>4. \/ object[i].kind = "publisher"
      \/ object[i].kind \in {"requester", "replier"} /\ Whole(i)
  BY <1>3, HandleWhole, Zenon
<1>5. CASE object[i].kind = "publisher"
  <2>1. w = <<x>>
    BY <1>1, <1>5, Zenon DEF Destructor
  <2>2. w # <<>> /\ Head(w) = x /\ Tail(w) = <<>>
    BY <2>1
  <2>3. EndRow(s, i, Tail(w))
    BY <1>3, <1>5, <2>2, Zenon DEF EndRow, Leaves
  <2>4. BusyRow(u, s, Do("end", i, "writer"), Tail(w))
    BY <2>3, BusyIf, Zenon
  <2>5. BusyRow(u, s, Head(w), Tail(w))
    BY <1>1, <2>2, <2>4, Zenon
  <2> QED
    BY <1>2, <2>2, <2>5, LookStep, Zenon
<1>6. CASE object[i].kind \in {"requester", "replier"} /\ Whole(i)
  <2>1. PICK y : y = On("unsubscribe", m)
    BY Zenon
  <2>2. w = <<y, x>>
    <3>1. object[i].kind # "publisher"
      BY <1>6
    <3> QED
      BY <1>1, <2>1, <3>1, Zenon DEF Destructor
  <2>3. PICK v : v = <<x>>
    BY Zenon
  <2>4. w # <<>> /\ Head(w) = y /\ Tail(w) = v
    BY <2>2, <2>3
  <2>5. v # <<>> /\ Head(v) = x /\ Tail(v) = <<>>
    BY <2>3
  <2>6. Finishes(v, i, s)
    BY <1>1, <2>5, Zenon DEF Finishes, Follows, Leaves
  <2>7. Leaving(s, i)
    BY <1>3, <1>6, Zenon DEF Leaving
  <2>8. UnsubscribeRow(s, m, v)
    BY <1>1, <2>6, <2>7, Zenon DEF UnsubscribeRow
  <2>9. m[1] = s
    <3>1. object[i] \in Object
      BY Typed, Zenon
    <3>2. \A end : TopicOf(object[i], end)[1] = s
      BY <3>1, TopicName, Zenon
    <3>3. TopicOf(object[i], "reader") = m
      BY <1>1 DEF TopicOf
    <3> QED
      BY <3>2, <3>3, Zenon
  <2>10. BusyRow(u, s, On("unsubscribe", m), v)
    BY <2>8, <2>9, BusyIf, Zenon
  <2>11. BusyRow(u, s, Head(w), Tail(w))
    BY <2>1, <2>4, <2>10, Zenon
  <2> QED
    BY <1>2, <2>4, <2>11, LookStep, Zenon
<1> QED
  BY <1>4, <1>5, <1>6, Zenon

\* A call on a handle uses an object that is whole, or begins to destroy it.
LEMMA UseHandleKeeps ==
  ASSUME Disciplined, DInv, IInv', NEW u \in Threads, todo[u] = <<>>, NEW c \in Calls[u],
         UseHandle(u, c) \/ ReplySession(u, c), UNCHANGED <<topics, requesters, mishap>>
  PROVE  DInv'
<1>1. PICK s : s = c.name
  BY Zenon
<1>2. c.do \in {"drop", "publish", "reply"}
  BY DEF UseHandle, ReplySession
<1>3. /\ s \in Names /\ ~ Kept(s) /\ Mine(u, s) /\ CalmBut(s, 0) /\ m_requesterBackendMap[s] = 0
      /\ \A q : ~ Working(u, q, todo[u])
  <2>1. c.do \notin {"request", "unsubscribe"}
    BY <1>2
  <2> QED
    BY <1>1, <2>1, OwnName, Zenon
<1>4. CASE UseHandle(u, c)
  <2>1. PICK i \in Handles(u, c) :
          todo' = [todo EXCEPT ![u] = IF c.do = "drop" THEN Destructor(i)
                                      ELSE <<Do("send", i, "writer")>>]
    BY <1>4, Zenon DEF UseHandle
  <2>2. i \in Ids /\ object[i].held = u /\ object[i].live /\ object[i].name = s
    BY <1>1, <2>1 DEF Handles
  <2>3. UNCHANGED <<topics, object, requesters, work, mishap>>
    BY <1>4 DEF UseHandle
  <2>4. CASE c.do = "drop"
    <3>1. todo' = [todo EXCEPT ![u] = Destructor(i)]
      BY <2>1, <2>4, Zenon
    <3> QED
      BY <1>3, <2>2, <2>3, <3>1, DropKeeps, Zenon
  <2>5. CASE c.do # "drop"
    <3>1. todo' = [todo EXCEPT ![u] = <<Do("send", i, "writer")>>]
      BY <2>1, <2>5, Zenon
    <3>2. UNCHANGED <<topics, object, requesters, mishap>>
      BY <2>3
    <3> QED
      BY <1>3, <2>2, <3>1, <3>2, SendsOwn, Zenon
  <2> QED
    BY <2>4, <2>5, Zenon
<1>5. CASE ReplySession(u, c)
  <2>1. PICK i \in Ids : /\ object[i].held = u /\ object[i].live /\ object[i].name = s
                         /\ todo' = [todo EXCEPT ![u] = <<Do("send", i, "writer")>>]
    BY <1>1, <1>5, Zenon DEF ReplySession
  <2>2. UNCHANGED <<topics, object, requesters, mishap>>
    BY <1>5 DEF ReplySession
  <2> QED
    BY <1>3, <2>1, <2>2, SendsOwn, Zenon
<1> QED
  BY <1>4, <1>5, Zenon

\* The calls that name a topic or a service.
LEMMA ByNameRow ==
  ASSUME Disciplined, DInv, NEW u \in Threads, todo[u] = <<>>, NEW c \in Calls[u], ByName(u, c)
  PROVE  \E w : todo' = [todo EXCEPT ![u] = w] /\ Row(u, w)
<1>1. PICK s : s = c.name
  BY Zenon
<1>2. s \in Names /\ m_requesterMutex # u /\ Uses(u, s)
  <2>1. s \in Names
    BY <1>1, CallsAssumption DEF Call
  <2> QED
    BY <1>1, <2>1, AtStart, Zenon DEF Uses
<1>3. CASE c.do = "unsubscribe" /\ todo' = [todo EXCEPT ![u] = <<On("unsubscribe", PlainName(s))>>]
  <2>1. PICK n, x, w : n = PlainName(s) /\ x = On("unsubscribe", n) /\ w = <<x>>
    BY Zenon
  <2>2. w # <<>> /\ Head(w) = x /\ Tail(w) = <<>>
    BY <2>1
  <2>3. x.op = "unsubscribe" /\ x.name = n
    BY <2>1 DEF On
  <2>4. Named(u, n)
    <3>1. n[1] = s
      BY <2>1, NamesDiffer, Zenon
    <3> QED
      BY <1>2, <2>1, <3>1, Zenon DEF Named
  <2>5. LooseRow(u, Head(w), Tail(w))
    BY <1>2, <2>2, <2>3, <2>4 DEF LooseRow
  <2>6. Row(u, w) /\ todo' = [todo EXCEPT ![u] = w]
    BY <1>3, <2>1, <2>2, <2>5, Zenon DEF Row
  <2> QED
    BY <2>6, Zenon
<1>4. CASE /\ c.do = "unadvertise"
           /\ todo' = [todo EXCEPT ![u] = <<On("stop", RequestName(s)), On("retract", ReplyName(s))>>]
  <2>1. PICK n, x, y, w : /\ n = RequestName(s) /\ x = On("stop", n)
                          /\ y = On("retract", ReplyName(s)) /\ w = <<x, y>>
    BY Zenon
  <2>2. PICK v : v = <<y>>
    BY Zenon
  <2>3. w # <<>> /\ Head(w) = x /\ Tail(w) = v
    BY <2>1, <2>2
  <2>4. v # <<>> /\ Head(v) = y /\ Tail(v) = <<>>
    BY <2>2
  <2>5. Mine(u, s)
    <3>1. c.do \notin {"request", "unsubscribe"}
      BY <1>4
    <3> QED
      BY <1>1, <3>1, OwnName, Zenon
  <2>6. StopRow(u, s, n, v)
    <3>1. Retracts(u, s)
      BY <1>1, <1>4, Zenon DEF Retracts
    <3>3. Withdraws(v, s)
      BY <2>1, <2>4, Zenon DEF Withdraws, Follows
    <3> QED
      BY <2>1, <3>1, <3>3, Zenon DEF StopRow
  <2>7. x.op = "stop" /\ x.name = n /\ x.op \notin EntityOps
    BY <2>1 DEF On, EntityOps
  <2>8. n[1] = s
    BY <2>1, NamesDiffer, Zenon
  <2>9. Concerns(x, s)
    BY <2>7, <2>8, Zenon DEF Concerns
  <2>10. StopRow(u, s, x.name, v)
    BY <2>6, <2>7
  <2>11. RestRow(u, s, x, v)
    BY <2>7, <2>9, <2>10, Zenon DEF RestRow
  <2>12. Row(u, w) /\ todo' = [todo EXCEPT ![u] = w]
    BY <1>2, <1>4, <2>1, <2>3, <2>5, <2>11, Zenon DEF Row
  <2> QED
    BY <2>12, Zenon
<1>5. CASE /\ c.do = "request"
           /\ todo' = [todo EXCEPT ![u] =
                <<On("lock", PlainName(s)),
                  [op |-> "backend", name |-> s, req |-> c.req, rep |-> c.rep],
                  On("unlock", PlainName(s))>>]
  <2>1. PICK x, y, z, w : /\ x = On("lock", PlainName(s))
                          /\ y = [op |-> "backend", name |-> s, req |-> c.req, rep |-> c.rep]
                          /\ z = On("unlock", PlainName(s)) /\ w = <<x, y, z>>
    BY Zenon
  <2>2. PICK v, p : v = <<y, z>> /\ p = <<z>>
    BY Zenon
  <2>3. w # <<>> /\ Head(w) = x /\ Tail(w) = v
    BY <2>1, <2>2
  <2>4. v # <<>> /\ Head(v) = y /\ Tail(v) = p
    BY <2>2
  <2>5. x.op = "lock" /\ z.op = "unlock"
    BY <2>1 DEF On
  <2>6. Unlocks(p)
    BY <2>2, <2>5 DEF Unlocks
  <2>7. IsRequest(u, y)
    <3>1. y.op = "backend" /\ y.name = c.name /\ y.req = c.req /\ y.rep = c.rep
      BY <1>1, <2>1
    <3> QED
      BY <1>5, <3>1, Zenon DEF IsRequest
  <2>8. LooseRow(u, x, v)
    BY <1>2, <2>4, <2>5, <2>6, <2>7, Zenon DEF LooseRow
  <2>9. Row(u, w) /\ todo' = [todo EXCEPT ![u] = w]
    BY <1>5, <2>1, <2>3, <2>8, Zenon DEF Row
  <2> QED
    BY <2>9, Zenon
<1> QED
  BY <1>1, <1>3, <1>4, <1>5, Zenon DEF ByName

\* A call begins with a name that is its own, or outside the mutex.
LEMMA BeginKeeps == ASSUME Disciplined, DInv, NEW u \in Threads, Begin(u) PROVE DInv'
<1>1. IInv'
  BY StepInv, Zenon DEF Next, DInv
<1>2. todo[u] = <<>> /\ UNCHANGED <<topics, requesters, mishap>>
  BY Zenon DEF Begin
<1>3. PICK c \in Calls[u] : /\ MayCall(c)
                            /\ \/ Make(u, c) \/ UseHandle(u, c)
                               \/ ReplySession(u, c) \/ ByName(u, c)
  BY Zenon DEF Begin
<1>4. CASE Make(u, c)
  BY <1>1, <1>2, <1>3, <1>4, MakeKeeps, Zenon
<1>5. CASE UseHandle(u, c) \/ ReplySession(u, c)
  BY <1>1, <1>2, <1>5, UseHandleKeeps, Zenon
<1>6. CASE ByName(u, c)
  <2>1. PICK w : todo' = [todo EXCEPT ![u] = w] /\ Row(u, w)
    BY <1>2, <1>3, <1>6, ByNameRow, Zenon
  <2>2. w = todo'[u] /\ \A t \in Threads : t # u => todo'[t] = todo[t]
    BY <2>1, SetList, Zenon
  <2>3. UNCHANGED <<topics, object, requesters, mishap>>
    BY <1>2, <1>6 DEF ByName
  <2>4. \A q : ~ Working(u, q, todo[u])
    BY <1>2, AtStart, Zenon
  <2> QED
    BY <1>1, <2>1, <2>2, <2>3, <2>4, QuietRow, Zenon
<1> QED
  BY <1>3, <1>4, <1>5, <1>6, Zenon

-----------------------------------------------------------------------------
(* Samples and jobs. *)

\* A thread that works on s has one object of s in its hands, or none.
LEMMA BusyBut ==
  ASSUME NEW t, NEW s, NEW h, NEW r, BusyRow(t, s, h, r)
  PROVE  \E k : CalmBut(s, k) /\ (k \in Ids => object[k].live)
<1>1. 0 \notin Ids
  BY DEF Ids
<1>2. ASSUME NEW k, ToRead(k) \/ ToWrite(k) \/ Whole(k) \/ Deaf(k, s)
      PROVE  object[k].live
  BY <1>2 DEF ToRead, ToWrite, Whole, Deaf
<1>3. CASE \E end : TopicRow(s, h.id, end, r)
  BY <1>2, <1>3, Zenon DEF TopicRow
<1>4. CASE GuidRow(s, h.id, r) \/ ReplaceRow(s, h.id, r) \/ StoreRow(s, h.id, r)
  BY <1>2, <1>4, Zenon DEF GuidRow, ReplaceRow, StoreRow
<1>5. CASE EndRow(s, h.id, r)
  BY <1>5, Zenon DEF EndRow
<1>6. CASE \E end : DeleteRow(t, s, h.id, end, r)
  BY <1>1, <1>2, <1>6, Zenon DEF DeleteRow, SwapRow, Leaving
<1>7. CASE UnsubscribeRow(s, h.name, r)
  BY <1>2, <1>7, Zenon DEF UnsubscribeRow, Leaving
<1>8. CASE RetractRow(t, s, h.name, r)
  BY <1>1, <1>2, <1>8, Zenon DEF RetractRow
<1> QED
  BY <1>3, <1>4, <1>5, <1>6, <1>7, <1>8, Zenon DEF BusyRow, CreateRow

\* So every object is settled, or alive.
LEMMA NoneStale ==
  ASSUME DInv, NEW i \in Ids
  PROVE  Settled(i) \/ object[i].live
<1>1. PICK s \in Names : object[i].name = s
  BY Typed, Zenon
<1>2. i # 0
  BY DEF Ids
<1>3. CASE CalmBut(s, 0)
  BY <1>1, <1>2, <1>3, Zenon DEF CalmBut
<1>4. ASSUME NEW t \in Threads, Working(t, s, todo[t])
      PROVE  Settled(i) \/ object[i].live
  <2>1. PICK h, r : h = Head(todo[t]) /\ r = Tail(todo[t])
    BY Zenon
  <2>2. BusyRow(t, s, h, r)
    BY <1>4, <2>1, Zenon DEF Working
  <2>3. PICK k : CalmBut(s, k) /\ (k \in Ids => object[k].live)
    BY <2>2, BusyBut, Zenon
  <2> QED
    BY <1>1, <2>3, Zenon DEF CalmBut
<1> QED
  BY <1>3, <1>4, Zenon DEF DInv, Calm

\* A reader that is open belongs to an object that is alive.
LEMMA OpenIsLive ==
  ASSUME DInv, NEW i \in Ids
  PROVE  object[i].reader = "open" => object[i].live
<1>1. CASE Settled(i)
  BY <1>1 DEF Settled, Whole, Gone, Withdrawn
<1> QED
  BY <1>1, NoneStale, Zenon

\* A step that changes only the number of requests to answer.
LEMMA QueueStep ==
  ASSUME DInv, IInv', UNCHANGED <<topics, object, requesters, todo>>, mishap' = "none"
  PROVE  DInv'
<1>0. /\ topics' = topics /\ object' = object /\ todo' = todo /\ Ids' = Ids
      /\ m_requesterBackendMap' = m_requesterBackendMap /\ m_requesterMutex' = m_requesterMutex
  BY DEF Ids, requesters
<1>1. \A q : Same(q)
  BY <1>0, Zenon DEF Same
<1>2. ASSUME NEW t \in Threads
      PROVE  /\ Row(t, todo[t])'
             /\ \A q \in Names : Working(t, q, todo[t]) => Working(t, q, todo[t])'
  <2>1. PICK w : w = todo[t] /\ w = todo'[t]
    BY <1>0, Zenon
  <2>2. Row(t, w) /\ IInv
    BY <2>1, Zenon DEF DInv, Rows
  <2>4. Row(t, w)' /\ \A q \in Names : Working(t, q, w) => Working(t, q, w)'
    BY <1>0, <1>1, <2>2, SameRow, Zenon
  <2> QED
    BY <2>1, <2>4, Zenon
<1>3. Rows'
  BY <1>2, Zenon DEF Rows
<1>4. \A q \in Names : CalmBut(q, 0) => CalmBut(q, 0)'
  BY <1>1, SameCalm, Zenon DEF DInv
<1>5. Calm'
  BY <1>2, <1>4, Zenon DEF DInv, Calm
<1>6. Origin' /\ Sole'
  BY <1>0 DEF DInv, Origin, Sole
<1>7. Agreed'
  BY <1>0, Zenon DEF DInv, Agreed, Serves
<1>8. MapWhole'
  BY <1>0 DEF DInv, MapWhole, Whole
<1> QED
  BY <1>3, <1>5, <1>6, <1>7, <1>8, Zenon DEF DInv

\* A callback finds its object alive.
LEMMA DeliverKeeps == ASSUME Disciplined, DInv, NEW i \in Ids, Deliver(i) PROVE DInv'
<1>1. IInv'
  BY StepInv, Zenon DEF Next, DInv
<1>2. object[i].reader = "open" /\ UNCHANGED <<topics, object, requesters, todo>>
  BY Zenon DEF Deliver
<1>3. mishap' = "none"
  BY <1>2, OpenIsLive, Zenon DEF Deliver
<1> QED
  BY <1>1, <1>2, <1>3, QueueStep, Zenon

-----------------------------------------------------------------------------
(* What the invariant says of the participant. *)

\* No reader outlives the object that its listener calls.
LEMMA ListenersFromInv == DInv => ListenersAlive
BY OpenIsLive, Zenon DEF ListenersAlive

\* The map's requester is whole, and the only reader of the replies.
LEMMA HearsFromInv == DInv => KeptRequesterHears
<1> SUFFICES ASSUME DInv, NEW s \in Names, NEW i, i = m_requesterBackendMap[s], i # 0
             PROVE  /\ object[i].live /\ object[i].writer = "open"
                    /\ ReadersOn(ReplyName(s)) = {i}
  BY Zenon DEF KeptRequesterHears
<1>1. i \in Ids
  BY MapMeans
<1>2. object[i].name = s /\ object[i].kind = "requester" /\ Whole(i)
  BY <1>1, MapMeans, Zenon
<1>3. i \in ReadersOn(ReplyName(s))
  <2>1. ReaderTopic(object[i]) = ReplyName(s)
    BY <1>1, <1>2, Typed, WhoReads, Zenon
  <2> QED
    BY <1>1, <1>2, <2>1 DEF ReadersOn, Whole
<1>4. ASSUME NEW k \in ReadersOn(ReplyName(s)) PROVE k = i
  <2>1. k \in Ids /\ object[k].reader = "open" /\ ReaderTopic(object[k]) = ReplyName(s)
    BY <1>4 DEF ReadersOn
  <2>2. object[k].name = s /\ object[k].kind = "requester"
    BY <2>1, Typed, WhoReads, Zenon
  <2>3. object[i].reader = "open"
    BY <1>2 DEF Whole
  <2> QED
    BY <1>1, <1>2, <2>1, <2>2, <2>3 DEF DInv, Sole, Services
<1>5. ReadersOn(ReplyName(s)) = {i}
  BY <1>3, <1>4
<1> QED
  BY <1>2, <1>5 DEF Whole

\* The steps that may come next under the mutex.
LEMMA HolderFromInv == DInv => HolderGoesOn
<1> SUFFICES ASSUME DInv, NEW t \in Threads, m_requesterMutex = t
             PROVE  todo[t] # <<>> /\ Head(todo[t]).op # "lock"
  BY Zenon DEF HolderGoesOn
<1>1. PICK w, h, r : w = todo[t] /\ h = Head(w) /\ r = Tail(w)
  BY Zenon
<1>2. Row(t, w)
  BY <1>1, Zenon DEF DInv, Rows
<1>3. w # <<>>
  BY <1>2, Zenon DEF Row
<1>4. LooseRow(t, h, r) \/ \E s \in Names : BusyRow(t, s, h, r) \/ RestRow(t, s, h, r)
  BY <1>1, <1>2, <1>3, Zenon DEF Row
<1>5. ASSUME LooseRow(t, h, r) PROVE h.op # "lock"
  BY <1>5 DEF LooseRow
<1>6. ASSUME NEW s \in Names, BusyRow(t, s, h, r) \/ RestRow(t, s, h, r) PROVE h.op # "lock"
  BY <1>6 DEF BusyRow, RestRow
<1> QED
  BY <1>1, <1>3, <1>4, <1>5, <1>6, Zenon

-----------------------------------------------------------------------------
(* The invariant. *)

\* Nothing has been made yet.
LEMMA InitD == Init => DInv
<1> SUFFICES ASSUME Init PROVE DInv
  OBVIOUS
<1>1. IInv /\ mishap = "none"
  BY InitInv, Zenon DEF Init
<1>2. Ids = {}
  BY DEF Init, Ids
<1>3. Origin /\ Sole /\ MapWhole /\ \A s, k : CalmBut(s, k)
  BY <1>2, Zenon DEF Origin, Sole, MapWhole, CalmBut
<1>4. Calm
  BY <1>3, Zenon DEF Calm
<1>5. Agreed
  <2>1. ASSUME NEW t \in Threads, NEW c \in Calls[t]
        PROVE  topics[RequestName(c.name)] = NoTopic /\ topics[ReplyName(c.name)] = NoTopic
    <3>1. c.name \in Names
      BY <2>1, CallsAssumption DEF Call
    <3>2. RequestName(c.name) \in TopicNames /\ ReplyName(c.name) \in TopicNames
      BY <3>1, Zenon DEF RequestName, ReplyName, TopicNames
    <3> QED
      BY <3>2 DEF Init
  <2> QED
    BY <2>1, Zenon DEF Agreed, Serves
<1>6. Rows
  <2>1. ASSUME NEW t \in Threads PROVE todo[t] = <<>> /\ m_requesterMutex # t
    BY NobodyAssumption DEF Init
  <2> QED
    BY <2>1, Zenon DEF Rows, Row
<1> QED
  BY <1>1, <1>3, <1>4, <1>5, <1>6, Zenon DEF DInv

\* A provider's job has answered through a deleted writer.  This is the end of
\* the behaviour, and it changed nothing else.
Answered == /\ mishap = "late answer"
            /\ ListenersAlive /\ KeptRequesterHears /\ HolderGoesOn
DEnd == DInv \/ Answered

\* What the invariant says stays so while the objects and the lists do.
LEMMA SaysOn ==
  ASSUME DInv, UNCHANGED <<topics, object, requesters, todo>>
  PROVE  ListenersAlive' /\ KeptRequesterHears' /\ HolderGoesOn'
<1>1. /\ object' = object /\ todo' = todo /\ Ids' = Ids
      /\ m_requesterBackendMap' = m_requesterBackendMap /\ m_requesterMutex' = m_requesterMutex
  BY DEF Ids, requesters
<1>2. ListenersAlive /\ KeptRequesterHears /\ HolderGoesOn
  BY ListenersFromInv, HearsFromInv, HolderFromInv
<1>3. \A n : ReadersOn(n)' = ReadersOn(n)
  BY <1>1, Zenon DEF ReadersOn
<1>4. ListenersAlive'
  BY <1>1, <1>2, Zenon DEF ListenersAlive
<1>5. KeptRequesterHears'
  BY <1>1, <1>2, <1>3, Zenon DEF KeptRequesterHears
<1>6. HolderGoesOn'
  BY <1>1, <1>2, Zenon DEF HolderGoesOn
<1> QED
  BY <1>4, <1>5, <1>6

\* A job of a provider finds its writer, or is the last step.
LEMMA RunJobKeeps == ASSUME Disciplined, DInv, NEW i \in Ids, RunJob(i) PROVE DEnd'
<1>1. IInv'
  BY StepInv, Zenon DEF Next, DInv
<1>2. UNCHANGED <<topics, object, requesters, todo>>
  BY Zenon DEF RunJob
<1>3. mishap' \in {"none", "late answer"}
  BY Zenon DEF RunJob, Published
<1>4. CASE mishap' = "none"
  BY <1>1, <1>2, <1>4, QueueStep, Zenon DEF DEnd
<1>5. CASE mishap' = "late answer"
  BY <1>2, <1>5, SaysOn, Zenon DEF DEnd, Answered
<1> QED
  BY <1>3, <1>4, <1>5

\* Nothing happens after an undefined use.
LEMMA NothingAfter == mishap # "none" => ~ Next
<1> SUFFICES ASSUME mishap # "none" PROVE ~ Next
  OBVIOUS
<1>1. \A t, op : ~ Doing(t, op)
  BY Zenon DEF Doing
<1>2. ASSUME NEW t \in Threads PROVE ~ Advance(t)
  <2>1. ~ (Replace(t) \/ GetTopic(t) \/ CreateTopic(t) \/ CreateEndpoint(t) \/ GetGuid(t))
    BY <1>1, Zenon DEF Replace, GetTopic, CreateTopic, CreateEndpoint, GetGuid
  <2>2. ~ (Delete(t) \/ End(t) \/ Unsubscribe(t) \/ Lock(t) \/ Unlock(t))
    BY <1>1, Zenon DEF Delete, End, Unsubscribe, Lock, Unlock
  <2>3. ~ (Erase(t) \/ Backend(t) \/ Store(t) \/ Send(t) \/ Stop(t) \/ Retract(t))
    BY <1>1, Zenon DEF Erase, Backend, Store, Send, Stop, Retract
  <2> QED
    BY <2>1, <2>2, <2>3, Zenon DEF Advance
<1>3. ASSUME NEW t \in Threads PROVE ~ Begin(t)
  BY Zenon DEF Begin
<1>4. ASSUME NEW i \in Ids PROVE ~ Deliver(i) /\ ~ RunJob(i)
  BY Zenon DEF Deliver, RunJob
<1> QED
  BY <1>2, <1>3, <1>4, Zenon DEF Next

\* Every step keeps the invariant, or is the last.
LEMMA StepD == ASSUME Disciplined PROVE DInv /\ [Next]_vars => DEnd'
<1> SUFFICES ASSUME DInv, [Next]_vars PROVE DEnd'
  OBVIOUS
<1>1. ASSUME NEW u \in Threads, Begin(u) \/ Advance(u) PROVE DInv'
  <2>1. CASE Begin(u)
    BY <2>1, BeginKeeps, Zenon
  <2>2. CASE Replace(u) \/ GetTopic(u) \/ CreateTopic(u) \/ CreateEndpoint(u) \/ GetGuid(u)
    BY <2>2, ReplaceKeeps, GetTopicKeeps, CreateTopicKeeps, CreateEndpointKeeps, GetGuidKeeps, Zenon
  <2>3. CASE Delete(u) \/ End(u) \/ Unsubscribe(u) \/ Lock(u) \/ Unlock(u)
    BY <2>3, DeleteKeeps, EndKeeps, UnsubscribeKeeps, MutexKeeps, Zenon
  <2>4. CASE Erase(u) \/ Backend(u) \/ Store(u) \/ Send(u) \/ Stop(u) \/ Retract(u)
    BY <2>4, EraseKeeps, BackendKeeps, StoreKeeps, SendKeeps, StopKeeps, RetractKeeps, Zenon
  <2> QED
    BY <1>1, <2>1, <2>2, <2>3, <2>4, Zenon DEF Advance
<1>2. ASSUME NEW i \in Ids, Deliver(i) \/ RunJob(i) PROVE DEnd'
  BY <1>2, DeliverKeeps, RunJobKeeps, Zenon DEF DEnd
<1>3. CASE UNCHANGED vars
  <2>1. UNCHANGED <<topics, object, requesters, todo>> /\ mishap' = "none"
    BY <1>3 DEF vars, DInv
  <2>2. IInv'
    BY <1>3, StepInv, Zenon DEF DInv
  <2> QED
    BY <2>1, <2>2, QueueStep, Zenon DEF DEnd
<1> QED
  BY <1>1, <1>2, <1>3, Zenon DEF Next, DEnd

\* So the invariant holds until the end, and what it says then still does.
LEMMA StepEnd == ASSUME Disciplined PROVE DEnd /\ [Next]_vars => DEnd'
<1> SUFFICES ASSUME DEnd, [Next]_vars PROVE DEnd'
  OBVIOUS
<1>1. CASE DInv
  BY <1>1, StepD, Zenon
<1>2. CASE Answered
  <2>1. mishap # "none"
    BY <1>2 DEF Answered
  <2>2. UNCHANGED vars
    BY <2>1, NothingAfter, Zenon
  <2>3. /\ object' = object /\ todo' = todo /\ mishap' = mishap /\ Ids' = Ids
        /\ m_requesterBackendMap' = m_requesterBackendMap
        /\ m_requesterMutex' = m_requesterMutex
    BY <2>2 DEF vars, requesters, Ids
  <2>4. \A n : ReadersOn(n)' = ReadersOn(n)
    BY <2>3, Zenon DEF ReadersOn
  <2>5. ListenersAlive'
    BY <1>2, <2>3, Zenon DEF Answered, ListenersAlive
  <2>6. KeptRequesterHears'
    BY <1>2, <2>3, <2>4, Zenon DEF Answered, KeptRequesterHears
  <2>7. HolderGoesOn'
    BY <1>2, <2>3, Zenon DEF Answered, HolderGoesOn
  <2> QED
    BY <1>2, <2>3, <2>5, <2>6, <2>7, Zenon DEF Answered, DEnd
<1> QED
  BY <1>1, <1>2, Zenon DEF DEnd

\* At the start, and what follows from the invariant.
LEMMA EndHolds ==
  /\ Init => DEnd
  /\ DEnd => ListenersAlive /\ NothingStale /\ KeptRequesterHears /\ HolderGoesOn
<1>1. Init => DEnd
  BY InitD, Zenon DEF DEnd
<1>2. DInv => ListenersAlive /\ NothingStale /\ KeptRequesterHears /\ HolderGoesOn
  <2>1. DInv => NothingStale
    BY DEF DInv, NothingStale
  <2> QED
    BY <2>1, ListenersFromInv, HearsFromInv, HolderFromInv
<1>3. Answered => ListenersAlive /\ NothingStale /\ KeptRequesterHears /\ HolderGoesOn
  BY DEF Answered, NothingStale
<1> QED
  BY <1>1, <1>2, <1>3, Zenon DEF DEnd

-----------------------------------------------------------------------------
(* The theorems. *)

\* The listeners of a disciplined application's readers are alive: no reader
\* outlives the RequesterImpl or ReplierImpl that its callback captured.
THEOREM DisciplinedListeners == ASSUME Disciplined PROVE Spec => []ListenersAlive
BY EndHolds, StepEnd, PTL DEF Spec

\* The only undefined use that a disciplined application meets is the reply of
\* a provider's job through the writer that unadvertise() deleted: none of its
\* calls uses a deleted reader or writer or asks a publisher without a writer
\* for its guid, and nothing is delivered to an object that is gone.
THEOREM DisciplinedUse == ASSUME Disciplined PROVE Spec => []NothingStale
BY EndHolds, StepEnd, PTL DEF Spec

\* The requester that request() keeps for a service is alive, can send and has
\* the only subscription to the replies.
THEOREM DisciplinedRequester == ASSUME Disciplined PROVE Spec => []KeptRequesterHears
BY EndHolds, StepEnd, PTL DEF Spec

\* No thread waits for m_requesterMutex while it holds it, and none returns
\* from a call with it.
THEOREM DisciplinedMutex == ASSUME Disciplined PROVE Spec => []HolderGoesOn
BY EndHolds, StepEnd, PTL DEF Spec
=============================================================================
