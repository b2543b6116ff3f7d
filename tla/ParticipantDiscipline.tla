------------------------ MODULE ParticipantDiscipline ------------------------
(***************************************************************************)
(* What a disciplined application (WellUsed, MayCall) may rely on, for any  *)
(* number of threads, names, types and calls.  A name is worked on by one   *)
(* thread at a time: the thread it belongs to or, for a service that        *)
(* request() uses, the thread that holds m_requesterMutex.  So the          *)
(* invariant says of every name that its objects are settled, or that one   *)
(* thread is at a step which tells what is not.  Here are the invariant,    *)
(* the steps that look things up and those that make endpoints;             *)
(* ParticipantObjects has the steps that delete, end and replace things,    *)
(* ParticipantCalls the calls and the theorems.                             *)
(***************************************************************************)
EXTENDS ParticipantProofs

Uses(t, s) == \E c \in Calls[t] : c.name = s

\* May thread t change the objects, topics and the kept requester of s?
Mine(t, s) == /\ Kept(s) => m_requesterMutex = t
              /\ ~ Kept(s) => Uses(t, s) /\ m_requesterMutex # t

Services == {"requester", "replier", "provider"}

\* Every object comes from a call.
MadeBy(o, c) == /\ c.name = o.name /\ c.req = o.req /\ c.rep = o.rep
                /\ \/ c.do \in Makers /\ o.kind = KindOf(c.do)
                   \/ c.do = "request" /\ o.kind = "requester"
Origin ==
  \A i \in Ids :
    /\ \E t \in Threads : \E c \in Calls[t] : MadeBy(object[i], c)
    /\ object[i].held # Nobody => object[i].kind \in {"publisher", "requester", "replier"}

\* The topics of a service have the types of its calls and keep all.
Serves(n, type) == topics[n] # NoTopic => topics[n].type = type /\ topics[n].depth = -1
Agreed == \A t \in Threads : \A c \in Calls[t] :
            c.do \in ServiceDos => /\ Serves(RequestName(c.name), c.req)
                                   /\ Serves(ReplyName(c.name), c.rep)

\* One requester, replier or provider of a service at a time.
Sole == \A i, j \in Ids :
          /\ i # j /\ object[i].name = object[j].name /\ object[i].kind = object[j].kind
          /\ object[i].kind \in Services
          => object[i].reader = "deleted" \/ object[j].reader = "deleted"

Whole(i) == object[i].live /\ object[i].reader = "open" /\ object[i].writer = "open"
Gone(i) == ~ object[i].live /\ object[i].reader = "deleted" /\ object[i].writer = "deleted"
Withdrawn(i) == object[i].live /\ object[i].reader = "deleted" /\ object[i].writer = "deleted"

\* The map holds working requesters of kept services.
MapWhole == \A s \in Names : \A i \in Ids :
              m_requesterBackendMap[s] = i =>
                Kept(s) /\ object[i].name = s /\ object[i].kind = "requester" /\ Whole(i)

\* An object that no thread is making or taking apart.
Settled(i) ==
  \/ /\ object[i].kind = "publisher" /\ object[i].reader = "none"
     /\ object[i].live => object[i].writer # "deleted"
  \/ object[i].kind = "callback" /\ object[i].writer = "none" /\ object[i].live
  \/ /\ object[i].kind \in {"requester", "replier"}
     /\ \/ Whole(i) /\ (Kept(object[i].name) => m_requesterBackendMap[object[i].name] = i)
        \/ Gone(i)
  \/ object[i].kind = "provider" /\ (Whole(i) \/ Withdrawn(i))

\* The objects of s are settled, but perhaps for object k.
CalmBut(s, k) == \A i \in Ids : object[i].name = s /\ i # k => Settled(i)

-----------------------------------------------------------------------------
(* The steps r that are left behind the one a thread is about to take. *)

Follows(r, x) == r # <<>> /\ Head(r) = x
Unlocks(r) == r # <<>> /\ Head(r).op = "unlock" /\ Tail(r) = <<>>
Leaves(r, s) == IF Kept(s) THEN Unlocks(r) ELSE r = <<>>

\* Behind the making of a reader, of a requester's guid and of its writer.
Sends(r, i, s) == Follows(r, Do("send", i, "writer")) /\ Leaves(Tail(r), s)
Stores(r, i, s) == IF Kept(s) THEN Follows(r, Do("store", i, "writer")) /\ Sends(Tail(r), i, s)
                   ELSE r = <<>>
Subscribes(r, i, s) == Follows(r, Do("topic", i, "reader")) /\ Stores(Tail(r), i, s)
Replaces(r, i, s) == Follows(r, Do("replace", i, "reader")) /\ Subscribes(Tail(r), i, s)
Asks(r, i, s) == Follows(r, Do("guid", i, "writer")) /\ Replaces(Tail(r), i, s)

\* Behind the unsubscribe() of a destructor, and of unadvertise().
Finishes(r, i, s) == Follows(r, Do("end", i, "writer")) /\ Leaves(Tail(r), s)
Withdraws(r, s) == Follows(r, On("retract", ReplyName(s))) /\ Tail(r) = <<>>

-----------------------------------------------------------------------------
(* What is so when thread t is about to take step h on name s. *)

\* An object whose writer, or whose reader, is still to be made.
ToWrite(i) == /\ object[i].live /\ object[i].kind # "callback"
              /\ object[i].reader = "none" /\ object[i].writer = "none"
ToRead(i) == /\ object[i].live /\ object[i].kind # "publisher" /\ object[i].reader = "none"
             /\ object[i].writer = IF object[i].kind = "callback" THEN "none" ELSE "open"

TopicRow(s, i, end, r) ==
  /\ CalmBut(s, i)
  /\ \/ /\ end = "writer" /\ ToWrite(i)
        /\ IF object[i].kind = "publisher" THEN r = <<>> ELSE Asks(r, i, s)
     \/ end = "reader" /\ ToRead(i) /\ Stores(r, i, s)
CreateRow(s, i, end, r) == TopicRow(s, i, end, r) /\ topics[TopicOf(object[i], end)] = NoTopic
GuidRow(s, i, r) == /\ CalmBut(s, i) /\ ToRead(i) /\ object[i].kind \in Services
                    /\ Replaces(r, i, s)
ReplaceRow(s, i, r) == CalmBut(s, i) /\ ToRead(i) /\ Subscribes(r, i, s)
StoreRow(s, i, r) == /\ CalmBut(s, i) /\ Whole(i) /\ Kept(s) /\ object[i].kind = "requester"
                     /\ Sends(r, i, s)

\* An object in the hands of its destructor, before and after unsubscribe().
Leaving(s, i) == /\ CalmBut(s, i) /\ object[i].name = s /\ Whole(i)
                 /\ object[i].kind \in {"requester", "replier"}
EndRow(s, i, r) ==
  /\ CalmBut(s, i) /\ object[i].live /\ Leaves(r, s)
  /\ \/ object[i].kind = "publisher" /\ Settled(i)
     \/ /\ object[i].kind \in {"requester", "replier"}
        /\ object[i].reader = "deleted" /\ object[i].writer = "open"
UnsubscribeRow(s, n, r) ==
  \E i \in Ids : n = ReaderTopic(object[i]) /\ Leaving(s, i) /\ Finishes(r, i, s)

\* A thread that may call unadvertise(s).
Retracts(t, s) == \E c \in Calls[t] : c.do = "unadvertise" /\ c.name = s
StopRow(t, s, n, r) == n = RequestName(s) /\ Retracts(t, s) /\ Withdraws(r, s)

\* unadvertise() has deleted the reader of its provider k.
Deaf(k, s) == /\ object[k].name = s /\ object[k].kind = "provider" /\ object[k].live
              /\ object[k].reader = "deleted" /\ object[k].writer = "open"
RetractRow(t, s, n, r) ==
  /\ n = ReplyName(s) /\ Retracts(t, s) /\ r = <<>>
  /\ \A i \in Ids : object[i].name = s /\ object[i].kind = "provider" => object[i].reader = "deleted"
  /\ CalmBut(s, 0) \/ \E k \in Ids : Deaf(k, s) /\ CalmBut(s, k)

\* delete_datareader() or delete_datawriter(): for unsubscribe() of a topic,
\* for doSubscribe() with another type, for a destructor, for unadvertise().
SwapRow(s, j, r) == /\ object[j].name = s /\ object[j].kind = "callback" /\ ToRead(j)
                    /\ CalmBut(s, j) /\ Follows(r, Do("topic", j, "reader")) /\ Tail(r) = <<>>
DeleteRow(t, s, i, end, r) ==
  \/ /\ end = "reader" /\ object[i].kind = "callback" /\ object[i].reader = "open" /\ ~ Kept(s)
     /\ \/ r = <<>> /\ CalmBut(s, 0)
        \/ \E j \in Ids : SwapRow(s, j, r)
  \/ end = "reader" /\ Leaving(s, i) /\ Finishes(r, i, s)
  \/ /\ end = "reader" /\ object[i].kind = "provider" /\ Whole(i) /\ CalmBut(s, 0)
     /\ Retracts(t, s) /\ Withdraws(r, s)
  \/ end = "writer" /\ Deaf(i, s) /\ CalmBut(s, i) /\ r = <<>>

Concerns(h, s) == /\ h.op \in EntityOps => h.id \in Ids /\ object[h.id].name = s
                  /\ h.op \notin EntityOps => h.name[1] = s

\* Steps of a thread that works on s.
BusyRow(t, s, h, r) ==
  /\ Concerns(h, s) /\ m_requesterBackendMap[s] = 0
  /\ \/ h.op \in {"topic", "endpoint"} /\ TopicRow(s, h.id, h.end, r)
     \/ h.op = "create" /\ CreateRow(s, h.id, h.end, r)
     \/ h.op = "guid" /\ GuidRow(s, h.id, r)
     \/ h.op = "replace" /\ ReplaceRow(s, h.id, r)
     \/ h.op = "store" /\ StoreRow(s, h.id, r)
     \/ h.op = "end" /\ EndRow(s, h.id, r)
     \/ h.op = "delete" /\ DeleteRow(t, s, h.id, h.end, r)
     \/ h.op = "unsubscribe" /\ UnsubscribeRow(s, h.name, r)
     \/ h.op = "retract" /\ RetractRow(t, s, h.name, r)

\* Steps that find the objects of s settled.
RestRow(t, s, h, r) ==
  /\ Concerns(h, s)
  /\ \/ h.op = "send" /\ object[h.id].writer # "deleted" /\ Leaves(r, s)
     \/ h.op = "stop" /\ StopRow(t, s, h.name, r)

\* Steps outside m_requesterMutex, and those that only hold it.
IsRequest(t, x) == \E c \in Calls[t] : /\ c.do = "request" /\ x.op = "backend"
                                       /\ x.name = c.name /\ x.req = c.req /\ x.rep = c.rep
Named(t, n) == Uses(t, n[1]) /\ n = PlainName(n[1])
LooseRow(t, h, r) ==
  \/ /\ h.op = "unsubscribe" /\ Named(t, h.name) /\ m_requesterMutex # t /\ r = <<>>
  \/ /\ h.op = "lock" /\ m_requesterMutex # t /\ r # <<>> /\ Unlocks(Tail(r))
     /\ \/ Head(r).op = "erase" /\ Named(t, Head(r).name)
        \/ IsRequest(t, Head(r))
  \/ h.op = "erase" /\ Named(t, h.name) /\ m_requesterMutex = t /\ Unlocks(r)
  \/ h.op = "backend" /\ IsRequest(t, h) /\ m_requesterMutex = t /\ Unlocks(r)
  \/ h.op = "unlock" /\ m_requesterMutex = t /\ r = <<>>

\* Thread t, with the steps w ahead, works on s.
Working(t, s, w) == w # <<>> /\ Mine(t, s) /\ BusyRow(t, s, Head(w), Tail(w))
Row(t, w) ==
  \/ w = <<>> /\ m_requesterMutex # t
  \/ w # <<>> /\ LooseRow(t, Head(w), Tail(w))
  \/ \E s \in Names : /\ w # <<>> /\ Mine(t, s)
                      /\ BusyRow(t, s, Head(w), Tail(w)) \/ RestRow(t, s, Head(w), Tail(w))

Rows == \A t \in Threads : Row(t, todo[t])
Calm == \A s \in Names : CalmBut(s, 0) \/ \E t \in Threads : Working(t, s, todo[t])

\* The inductive invariant of a disciplined application.
DInv == IInv /\ mishap = "none" /\ Origin /\ Agreed /\ Sole /\ MapWhole /\ Rows /\ Calm
-----------------------------------------------------------------------------
(* Steps that leave a name alone. *)

\* The objects and topics of q, and its entry in the map, stay as they are.
Same(q) ==
  /\ Ids \subseteq Ids'
  /\ \A i \in Ids : object'[i].name = object[i].name
  /\ \A i \in Ids' : object'[i].name = q => i \in Ids
  /\ \A i \in Ids : object[i].name = q => object'[i] = object[i]
  /\ \A n \in TopicNames : n[1] = q => topics'[n] = topics[n]
  /\ m_requesterBackendMap'[q] = m_requesterBackendMap[q]

\* The topics of an object have its name.
LEMMA TopicName ==
  ASSUME NEW o \in Object
  PROVE  \A end : TopicOf(o, end) \in TopicNames /\ TopicOf(o, end)[1] = o.name
<1>1. ReaderTopic(o)[1] = o.name /\ WriterTopic(o)[1] = o.name
  BY DEF ReaderTopic, WriterTopic, PlainName, RequestName, ReplyName
<1> QED
  BY <1>1, TopicsType, Zenon DEF TopicOf

\* What is so of an object stays so.
LEMMA SameObject ==
  ASSUME IInv, NEW q, Same(q), NEW i \in Ids, object[i].name = q
  PROVE  /\ i \in Ids' /\ object'[i] = object[i]
         /\ \A end : topics'[TopicOf(object[i], end)] = topics[TopicOf(object[i], end)]
         /\ Settled(i) => Settled(i)'
<1>1. /\ i \in Ids' /\ object'[i] = object[i]
  BY Zenon DEF Same
<1>2. object[i] \in Object
  BY DEF IInv, Base, Ids
<1>3. \A end : topics'[TopicOf(object[i], end)] = topics[TopicOf(object[i], end)]
  BY <1>2, TopicName, Zenon DEF Same
<1>5. /\ (Whole(i) => Whole(i)') /\ (Gone(i) => Gone(i)') /\ (Withdrawn(i) => Withdrawn(i)')
  BY <1>1, Zenon DEF Whole, Gone, Withdrawn
<1>6. m_requesterBackendMap'[object'[i].name] = m_requesterBackendMap[object[i].name]
  BY <1>1, Zenon DEF Same
<1>7. ASSUME Settled(i) PROVE Settled(i)'
  BY <1>1, <1>5, <1>6, <1>7, Zenon DEF Settled
<1> QED
  BY <1>1, <1>3, <1>7, Zenon

\* The objects of q stay settled.
LEMMA SameCalm ==
  ASSUME IInv, NEW q, Same(q), NEW k, CalmBut(q, k)
  PROVE  CalmBut(q, k)'
<1> SUFFICES ASSUME NEW i \in Ids', object'[i].name = q, i # k PROVE Settled(i)'
  BY Zenon DEF CalmBut
<1>1. i \in Ids /\ object[i].name = q
  BY Zenon DEF Same
<1> QED
  BY <1>1, SameObject, Zenon DEF CalmBut

\* So does what a thread knows of an object of q.
LEMMA SameFacts ==
  ASSUME IInv, NEW q, Same(q), NEW i \in Ids, object[i].name = q
  PROVE  /\ (ToWrite(i) => ToWrite(i)') /\ (ToRead(i) => ToRead(i)') /\ (Whole(i) => Whole(i)')
         /\ (Leaving(q, i) => Leaving(q, i)') /\ (Deaf(i, q) => Deaf(i, q)')
         /\ object'[i] = object[i] /\ i \in Ids'
<1>1. /\ object'[i] = object[i] /\ i \in Ids'
  BY SameObject, Zenon
<1> QED
  BY <1>1, SameCalm, Zenon DEF ToWrite, ToRead, Whole, Leaving, Deaf

\* A step that is about q is still about q.
LEMMA SameConcerns == ASSUME NEW q, Same(q), NEW h, Concerns(h, q) PROVE Concerns(h, q)'
BY Zenon DEF Same, Concerns

\* The row of a thread that works on q stays true.
LEMMA SameBusy ==
  ASSUME IInv, NEW q, Same(q), NEW t, NEW h, NEW r, BusyRow(t, q, h, r)
  PROVE  BusyRow(t, q, h, r)'
<1>1. Concerns(h, q)' /\ m_requesterBackendMap'[q] = 0 /\ Concerns(h, q)
  BY SameConcerns, Zenon DEF BusyRow, Same
<1>2. ASSUME NEW i \in Ids, object[i].name = q
      PROVE  /\ (ToWrite(i) => ToWrite(i)') /\ (ToRead(i) => ToRead(i)') /\ (Whole(i) => Whole(i)')
             /\ (Leaving(q, i) => Leaving(q, i)') /\ (Deaf(i, q) => Deaf(i, q)')
             /\ object'[i] = object[i] /\ (Settled(i) => Settled(i)')
             /\ i \in Ids'
             /\ \A end : topics'[TopicOf(object[i], end)] = topics[TopicOf(object[i], end)]
  BY <1>2, SameFacts, SameObject, Zenon
<1>3. \A k : CalmBut(q, k) => CalmBut(q, k)'
  BY SameCalm, Zenon
<1>4. h.op \in EntityOps => h.id \in Ids /\ object[h.id].name = q
  BY <1>1, Zenon DEF Concerns
<1>5. {"topic", "endpoint", "create", "guid", "replace", "store", "end", "delete"} \subseteq EntityOps
  BY DEF EntityOps
<1>6. ASSUME NEW i \in Ids, object[i].name = q, NEW end, TopicRow(q, i, end, r)
      PROVE  TopicRow(q, i, end, r)'
  BY <1>2, <1>3, <1>6, Zenon DEF TopicRow
<1>7. ASSUME NEW i \in Ids, object[i].name = q, NEW end, CreateRow(q, i, end, r)
      PROVE  CreateRow(q, i, end, r)'
  BY <1>2, <1>6, <1>7, Zenon DEF CreateRow
<1>8. ASSUME NEW i \in Ids, object[i].name = q
      PROVE  /\ GuidRow(q, i, r) => GuidRow(q, i, r)'
             /\ ReplaceRow(q, i, r) => ReplaceRow(q, i, r)'
             /\ StoreRow(q, i, r) => StoreRow(q, i, r)'
             /\ EndRow(q, i, r) => EndRow(q, i, r)'
  BY <1>2, <1>3, <1>8, Zenon DEF GuidRow, ReplaceRow, StoreRow, EndRow
<1>9. ASSUME UnsubscribeRow(q, h.name, r) PROVE UnsubscribeRow(q, h.name, r)'
  BY <1>2, <1>9, Zenon DEF UnsubscribeRow, Leaving
<1>11. ASSUME RetractRow(t, q, h.name, r) PROVE RetractRow(t, q, h.name, r)'
  <2>1. ASSUME NEW i \in Ids', object'[i].name = q, object'[i].kind = "provider"
        PROVE  object'[i].reader = "deleted"
    <3>1. /\ i \in Ids /\ object[i].name = q /\ object'[i] = object[i]
      BY <2>1, Zenon DEF Same
    <3> QED
      BY <1>11, <2>1, <3>1, Zenon DEF RetractRow
  <2>2. CalmBut(q, 0)' \/ \E k \in Ids' : Deaf(k, q)' /\ CalmBut(q, k)'
    BY <1>2, <1>3, <1>11, Zenon DEF RetractRow, Deaf
  <2> QED
    BY <1>11, <2>1, <2>2, Zenon DEF RetractRow
<1>12. ASSUME NEW j \in Ids, SwapRow(q, j, r) PROVE j \in Ids' /\ SwapRow(q, j, r)'
  BY <1>2, <1>3, <1>12, Zenon DEF SwapRow
<1>13. ASSUME NEW i \in Ids, object[i].name = q, NEW end, DeleteRow(t, q, i, end, r)
       PROVE  DeleteRow(t, q, i, end, r)'
  BY <1>2, <1>3, <1>12, <1>13, Zenon DEF DeleteRow
<1> QED
  BY <1>1, <1>4, <1>5, <1>6, <1>7, <1>8, <1>9, <1>11, <1>13, Zenon DEF BusyRow

\* What a thread knows when it is not working on q.
LEMMA SameRest ==
  ASSUME NEW q, Same(q), NEW t, NEW h, NEW r, RestRow(t, q, h, r)
  PROVE  RestRow(t, q, h, r)'
<1>1. Concerns(h, q)' /\ Concerns(h, q)
  BY SameConcerns, Zenon DEF RestRow
<1>2. "send" \in EntityOps
  BY DEF EntityOps
<1>3. h.op = "send" => object'[h.id].writer = object[h.id].writer
  BY <1>1, <1>2, Zenon DEF Concerns, Same
<1>4. StopRow(t, q, h.name, r) => StopRow(t, q, h.name, r)'
  BY Zenon DEF StopRow
<1> QED
  BY <1>1, <1>3, <1>4 DEF RestRow

\* A thread whose names stay as they are, and which holds the mutex after the
\* step if and only if it did before.
LEMMA SameRow ==
  ASSUME IInv, NEW t, NEW w, (m_requesterMutex' = t) <=> (m_requesterMutex = t),
         \A q \in Names : Mine(t, q) => Same(q)
  PROVE  /\ \A q \in Names : Mine(t, q) => Mine(t, q)'
         /\ Row(t, w) => Row(t, w)'
         /\ \A q \in Names : Working(t, q, w) => Working(t, q, w)'
<1>1. \A q \in Names : Mine(t, q) => Mine(t, q)'
  BY Zenon DEF Mine
<1>2. LooseRow(t, Head(w), Tail(w)) => LooseRow(t, Head(w), Tail(w))'
  BY Zenon DEF LooseRow
<1>3. ASSUME NEW q \in Names, Mine(t, q), w # <<>>
      PROVE  /\ BusyRow(t, q, Head(w), Tail(w)) => BusyRow(t, q, Head(w), Tail(w))'
             /\ RestRow(t, q, Head(w), Tail(w)) => RestRow(t, q, Head(w), Tail(w))'
  BY <1>3, SameBusy, SameRest, Zenon
<1>4. Row(t, w) => Row(t, w)'
  BY <1>1, <1>2, <1>3, Zenon DEF Row
<1>5. \A q \in Names : Working(t, q, w) => Working(t, q, w)'
  BY <1>1, <1>3, Zenon DEF Working
<1> QED
  BY <1>1, <1>4, <1>5

\* The rules of the application, for two calls of one name.
LEMMA Rules ==
  ASSUME Disciplined, NEW t \in Threads, NEW u \in Threads, NEW c \in Calls[t],
         NEW d \in Calls[u], c.name = d.name
  PROVE  /\ t = u \/ Kept(c.name)
         /\ Kept(c.name) => c.do \in {"request", "unsubscribe"}
         /\ c.do \in ServiceDos /\ d.do \in ServiceDos => c.req = d.req /\ c.rep = d.rep
         /\ c.do = "makeReplier" => d.do \notin {"provide", "unadvertise"}
BY DisciplineAssumption, Zenon DEF WellUsed

\* No two threads work on one name.
LEMMA Exclusive ==
  ASSUME Disciplined, NEW t \in Threads, NEW u \in Threads, NEW s, Mine(t, s), Mine(u, s)
  PROVE  t = u
<1>1. CASE Kept(s)
  BY <1>1, Zenon DEF Mine
<1>2. CASE ~ Kept(s)
  <2>1. PICK c \in Calls[t], d \in Calls[u] : c.name = s /\ d.name = s
    BY <1>2, Zenon DEF Mine, Uses
  <2>2. c.name = d.name /\ ~ Kept(c.name)
    BY <1>2, <2>1
  <2> QED
    BY <2>2, Rules, Zenon
<1> QED
  BY <1>1, <1>2

-----------------------------------------------------------------------------
(* What is to be shown of a step of thread u. *)

\* A step that changes only what belongs to name s, which is u's.
LEMMA LocalStep ==
  ASSUME Disciplined, DInv, NEW u \in Threads, NEW s \in Names, Mine(u, s),
         \A q \in Names : q # s => Same(q),
         m_requesterMutex' = m_requesterMutex,
         \A t \in Threads : t # u => todo'[t] = todo[t],
         \A q \in Names : Working(u, q, todo[u]) => q = s,
         Row(u, todo[u])', CalmBut(s, 0)' \/ Working(u, s, todo[u])'
  PROVE  Rows' /\ Calm'
<1>1. ASSUME NEW t \in Threads, t # u
      PROVE  \A q \in Names : Mine(t, q) => Same(q)
  BY <1>1, Exclusive, Zenon
<1>2. ASSUME NEW t \in Threads, t # u
      PROVE  /\ Row(t, todo[t])'
             /\ \A q \in Names : Working(t, q, todo[t]) => Working(t, q, todo[t])'
  <2>1. PICK w : w = todo[t] /\ w = todo'[t]
    BY <1>2, Zenon
  <2>2. Row(t, w) /\ IInv
    BY <2>1, Zenon DEF DInv, Rows
  <2>3. Row(t, w)' /\ \A q \in Names : Working(t, q, w) => Working(t, q, w)'
    BY <1>1, <1>2, <2>2, SameRow, Zenon
  <2> QED
    BY <2>1, <2>3, Zenon
<1>3. Rows'
  BY <1>2, Zenon DEF Rows
<1>4. ASSUME NEW q \in Names, q # s
      PROVE  CalmBut(q, 0)' \/ \E t \in Threads : Working(t, q, todo[t])'
  <2>1. CASE CalmBut(q, 0)
    BY <1>4, <2>1, SameCalm, Zenon DEF DInv
  <2>2. ASSUME NEW t \in Threads, Working(t, q, todo[t])
        PROVE  \E v \in Threads : Working(v, q, todo[v])'
    BY <1>2, <1>4, <2>2, Zenon
  <2> QED
    BY <2>1, <2>2, Zenon DEF DInv, Calm
<1>5. Calm'
  BY <1>4, Zenon DEF Calm
<1> QED
  BY <1>3, <1>5

\* A step that changes no object, no topic and not the map.
LEMMA PureStep ==
  ASSUME Disciplined, DInv, IInv', NEW u \in Threads,
         UNCHANGED <<topics, object, m_requesterBackendMap, mishap>>,
         \A t \in Threads : t # u => /\ todo'[t] = todo[t]
                                     /\ (m_requesterMutex' = t) <=> (m_requesterMutex = t),
         Row(u, todo[u])',
         \A q \in Names : Working(u, q, todo[u]) => CalmBut(q, 0) \/ Working(u, q, todo[u])'
  PROVE  DInv'
<1>0. /\ topics' = topics /\ object' = object /\ mishap' = mishap
      /\ m_requesterBackendMap' = m_requesterBackendMap /\ Ids' = Ids
  BY DEF Ids
<1>1. \A q : Same(q)
  BY <1>0, Zenon DEF Same
<1>2. ASSUME NEW t \in Threads, t # u
      PROVE  /\ Row(t, todo[t])'
             /\ \A q \in Names : Working(t, q, todo[t]) => Working(t, q, todo[t])'
  <2>1. PICK w : w = todo[t] /\ w = todo'[t]
    BY <1>2, Zenon
  <2>2. Row(t, w) /\ IInv
    BY <2>1, Zenon DEF DInv, Rows
  <2>3. (m_requesterMutex' = t) <=> (m_requesterMutex = t)
    BY <1>2, Zenon
  <2>4. Row(t, w)' /\ \A q \in Names : Working(t, q, w) => Working(t, q, w)'
    BY <1>1, <2>2, <2>3, SameRow, Zenon
  <2> QED
    BY <2>1, <2>4, Zenon
<1>3. Rows'
  BY <1>2, Zenon DEF Rows
<1>4. \A q \in Names : CalmBut(q, 0) => CalmBut(q, 0)'
  BY <1>1, SameCalm, Zenon DEF DInv
<1>5. Calm'
  BY <1>2, <1>4, Zenon DEF DInv, Calm
<1>6. Origin' /\ Sole'
  BY <1>0 DEF DInv, Origin, Sole
<1>7. Agreed'
  BY <1>0, Zenon DEF DInv, Agreed, Serves
<1>8. MapWhole'
  BY <1>0 DEF DInv, MapWhole, Whole
<1> QED
  BY <1>0, <1>3, <1>5, <1>6, <1>7, <1>8, Zenon DEF DInv

\* One that leaves the mutex alone too.
LEMMA QuietRow ==
  ASSUME Disciplined, DInv, IInv', NEW u \in Threads,
         UNCHANGED <<topics, object, requesters, mishap>>,
         NEW w, w = todo'[u], \A t \in Threads : t # u => todo'[t] = todo[t],
         Row(u, w),
         \A q \in Names : Working(u, q, todo[u]) => CalmBut(q, 0) \/ Working(u, q, w)
  PROVE  DInv'
<1>0. /\ topics' = topics /\ object' = object /\ mishap' = mishap
      /\ m_requesterBackendMap' = m_requesterBackendMap /\ Ids' = Ids
      /\ m_requesterMutex' = m_requesterMutex
  BY DEF Ids, requesters
<1>1. \A q : Same(q)
  BY <1>0, Zenon DEF Same
<1>2. Row(u, w)' /\ \A q \in Names : Working(u, q, w) => Working(u, q, w)'
  BY <1>0, <1>1, SameRow, Zenon DEF DInv
<1>3. Row(u, todo[u])' /\ \A q \in Names : Working(u, q, w) => Working(u, q, todo[u])'
  BY <1>2, Zenon
<1>4. \A q \in Names : Working(u, q, todo[u]) => CalmBut(q, 0) \/ Working(u, q, todo[u])'
  BY <1>3, Zenon
<1>5. \A t \in Threads : t # u => /\ todo'[t] = todo[t]
                                  /\ (m_requesterMutex' = t) <=> (m_requesterMutex = t)
  BY <1>0, Zenon
<1>6. UNCHANGED <<topics, object, m_requesterBackendMap, mishap>>
  BY <1>0
<1> QED
  BY <1>3, <1>4, <1>5, <1>6, PureStep, Zenon

-----------------------------------------------------------------------------
(* What the origin of the objects tells. *)

\* Where an object comes from: a call of the application that has its name and
\* its types.
LEMMA ObjectMade ==
  ASSUME Origin, NEW i \in Ids
  PROVE  \E t \in Threads : \E c \in Calls[t] :
           /\ c.name = object[i].name /\ c.req = object[i].req /\ c.rep = object[i].rep
           /\ object[i].kind = "publisher" => c.do = "advertise"
           /\ object[i].kind = "callback" => c.do = "subscribe"
           /\ object[i].kind = "replier" => c.do = "makeReplier"
           /\ object[i].kind = "provider" => c.do = "provide"
           /\ object[i].kind = "requester" => c.do \in {"makeRequester", "request"}
<1>0. PICK t \in Threads : \E c \in Calls[t] : MadeBy(object[i], c)
  BY Zenon DEF Origin
<1>1. PICK c \in Calls[t] : MadeBy(object[i], c)
  BY <1>0
<1>2. /\ KindOf("subscribe") = "callback" /\ KindOf("advertise") = "publisher"
      /\ KindOf("provide") = "provider"
  BY DEF KindOf
<1>3. KindOf("makeRequester") = "requester" /\ KindOf("makeReplier") = "replier"
  BY DEF KindOf
<1>4. PICK k : k = object[i].kind
  BY Zenon
<1>5. /\ k = "publisher" => c.do = "advertise"
      /\ k = "callback" => c.do = "subscribe"
      /\ k = "replier" => c.do = "makeReplier"
      /\ k = "provider" => c.do = "provide"
      /\ k = "requester" => c.do \in {"makeRequester", "request"}
  BY <1>1, <1>2, <1>3, <1>4 DEF MadeBy, Makers
<1> QED
  BY <1>1, <1>4, <1>5, Zenon DEF MadeBy

\* Kept names have requesters only, and a service has repliers or a provider.
LEMMA KindRules ==
  ASSUME Disciplined, IInv, Origin, NEW i \in Ids
  PROVE  /\ object[i].kind \in Kinds
         /\ Kept(object[i].name) => object[i].kind = "requester"
         /\ \A j \in Ids : object[j].name = object[i].name /\ object[i].kind = "replier"
                             => object[j].kind # "provider"
         /\ \A t \in Threads : Retracts(t, object[i].name)
                                 => object[i].kind # "replier" /\ ~ Kept(object[i].name)
<1>0. PICK t \in Threads : \E c \in Calls[t] :
           /\ c.name = object[i].name
           /\ object[i].kind = "publisher" => c.do = "advertise"
           /\ object[i].kind = "callback" => c.do = "subscribe"
           /\ object[i].kind = "replier" => c.do = "makeReplier"
           /\ object[i].kind = "provider" => c.do = "provide"
  BY ObjectMade, Zenon
<1>1. PICK c \in Calls[t] :
           /\ c.name = object[i].name
           /\ object[i].kind = "publisher" => c.do = "advertise"
           /\ object[i].kind = "callback" => c.do = "subscribe"
           /\ object[i].kind = "replier" => c.do = "makeReplier"
           /\ object[i].kind = "provider" => c.do = "provide"
  BY <1>0
<1>2. object[i].kind \in Kinds
  <2>1. object[i] \in Object
    BY DEF IInv, Base, Ids
  <2> QED
    BY <2>1 DEF Object
<1>3. Kept(object[i].name) => object[i].kind = "requester"
  <2>1. Kept(c.name) => c.do \in {"request", "unsubscribe"}
    BY Rules, Zenon
  <2> QED
    BY <1>1, <1>2, <2>1 DEF Kinds
<1>4. ASSUME NEW j \in Ids, object[j].name = object[i].name, object[i].kind = "replier",
             object[j].kind = "provider"
      PROVE  FALSE
  <2>0. PICK u \in Threads : \E d \in Calls[u] : d.name = object[j].name /\ d.do = "provide"
    BY <1>4, ObjectMade, Zenon
  <2>1. PICK d \in Calls[u] : d.name = object[j].name /\ d.do = "provide"
    BY <2>0
  <2>2. c.name = d.name /\ c.do = "makeReplier"
    BY <1>1, <1>4, <2>1, Zenon
  <2>3. d.do \notin {"provide", "unadvertise"}
    BY <2>2, Rules, Zenon
  <2> QED
    BY <2>1, <2>3, Zenon
<1>5. ASSUME NEW u \in Threads, Retracts(u, object[i].name)
      PROVE  object[i].kind # "replier" /\ ~ Kept(object[i].name)
  <2>1. PICK d \in Calls[u] : d.name = object[i].name /\ d.do = "unadvertise"
    BY <1>5, Zenon DEF Retracts
  <2>2. c.name = d.name /\ d.name = d.name
    BY <1>1, <2>1
  <2>3. c.do = "makeReplier" => d.do \notin {"provide", "unadvertise"}
    BY <2>2, Rules, Zenon
  <2>4. Kept(d.name) => d.do \in {"request", "unsubscribe"}
    BY <2>2, Rules, Zenon
  <2> QED
    BY <1>1, <2>1, <2>3, <2>4
<1> QED
  BY <1>2, <1>3, <1>4, <1>5, Zenon

\* Objects that read, or write, one topic.
LEMMA TopicKinds ==
  ASSUME NEW o \in Object
  PROVE  /\ ReaderTopic(o) = IF o.kind = "requester" THEN ReplyName(o.name)
                             ELSE IF o.kind \in {"provider", "replier"} THEN RequestName(o.name)
                             ELSE PlainName(o.name)
         /\ WriterTopic(o) = IF o.kind = "requester" THEN RequestName(o.name)
                             ELSE IF o.kind \in {"provider", "replier"} THEN ReplyName(o.name)
                             ELSE PlainName(o.name)
<1>1. CASE o.kind = "requester"
  BY <1>1 DEF ReaderTopic, WriterTopic
<1>2. CASE o.kind \in {"provider", "replier"}
  BY <1>2 DEF ReaderTopic, WriterTopic
<1>3. CASE o.kind \notin {"requester", "provider", "replier"}
  BY <1>3 DEF ReaderTopic, WriterTopic
<1> QED
  BY <1>1, <1>2, <1>3, Zenon

\* The topics of a name and of its service are three.
LEMMA NamesDiffer ==
  \A s, q : /\ PlainName(s)[1] = s /\ RequestName(s)[1] = s /\ ReplyName(s)[1] = s
            /\ PlainName(s)[2] = "" /\ RequestName(s)[2] = "/request" /\ ReplyName(s)[2] = "/reply"
            /\ PlainName(s) # RequestName(q) /\ PlainName(s) # ReplyName(q)
            /\ RequestName(s) # ReplyName(q)
            /\ (PlainName(s) = PlainName(q) => s = q)
            /\ (RequestName(s) = RequestName(q) => s = q)
            /\ (ReplyName(s) = ReplyName(q) => s = q)
BY DEF PlainName, RequestName, ReplyName

\* Who reads and writes what.
LEMMA WhoReads ==
  ASSUME NEW o \in Object, NEW s
  PROVE  /\ ReaderTopic(o) = PlainName(s) <=> o.name = s /\ o.kind \in {"publisher", "callback"}
         /\ ReaderTopic(o) = RequestName(s) <=> o.name = s /\ o.kind \in {"provider", "replier"}
         /\ ReaderTopic(o) = ReplyName(s) <=> o.name = s /\ o.kind = "requester"
         /\ WriterTopic(o) = ReplyName(s) <=> o.name = s /\ o.kind \in {"provider", "replier"}
<1>1. PICK k, n : k = o.kind /\ n = o.name
  BY Zenon
<1>2. k \in {"publisher", "callback", "provider", "replier", "requester"}
  BY <1>1 DEF Object, Kinds
<1>3. /\ PlainName(n) # RequestName(s) /\ PlainName(n) # ReplyName(s)
      /\ RequestName(n) # PlainName(s) /\ RequestName(n) # ReplyName(s)
      /\ ReplyName(n) # PlainName(s) /\ ReplyName(n) # RequestName(s)
      /\ (PlainName(n) = PlainName(s)) <=> n = s
      /\ (RequestName(n) = RequestName(s)) <=> n = s
      /\ (ReplyName(n) = ReplyName(s)) <=> n = s
  BY NamesDiffer, Zenon
<1>4. CASE k = "requester"
  <2>1. ReaderTopic(o) = ReplyName(n) /\ WriterTopic(o) = RequestName(n)
    BY <1>1, <1>4, TopicKinds, Zenon
  <2> QED
    BY <1>1, <1>3, <1>4, <2>1
<1>5. CASE k \in {"provider", "replier"}
  <2>1. ReaderTopic(o) = RequestName(n) /\ WriterTopic(o) = ReplyName(n)
    BY <1>1, <1>5, TopicKinds
  <2> QED
    BY <1>1, <1>3, <1>5, <2>1
<1>6. CASE k \in {"publisher", "callback"}
  <2>1. ReaderTopic(o) = PlainName(n) /\ WriterTopic(o) = PlainName(n)
    BY <1>1, <1>6, TopicKinds
  <2> QED
    BY <1>1, <1>3, <1>6, <2>1
<1> QED
  BY <1>2, <1>4, <1>5, <1>6, Zenon

\* A service has one reader of its requests and one of its replies.
LEMMA OneReader ==
  ASSUME Disciplined, IInv, Origin, Sole, NEW i \in Ids, NEW k \in Ids,
         ReaderTopic(object[i]) = ReaderTopic(object[k]), object[i].kind \in Services,
         object[i].reader # "deleted", object[k].reader # "deleted"
  PROVE  i = k
<1>1. object[i] \in Object /\ object[k] \in Object
  BY DEF IInv, Base, Ids
<1>2. PICK s, a, b : s = object[i].name /\ a = object[i].kind /\ b = object[k].kind
  BY Zenon
<1>3. object[k].name = s /\ b = a
  <2>1. CASE a = "requester"
    <3>1. ReaderTopic(object[i]) = ReplyName(s)
      BY <1>1, <1>2, <2>1, WhoReads, Zenon
    <3>2. ReaderTopic(object[k]) = ReplyName(s)
      BY <3>1
    <3> QED
      BY <1>1, <1>2, <2>1, <3>2, WhoReads, Zenon
  <2>2. CASE a \in {"provider", "replier"}
    <3>1. ReaderTopic(object[i]) = RequestName(s)
      BY <1>1, <1>2, <2>2, WhoReads, Zenon
    <3>0. ReaderTopic(object[k]) = RequestName(s)
      BY <3>1
    <3>2. object[k].name = s /\ b \in {"provider", "replier"}
      BY <1>1, <1>2, <3>0, WhoReads, Zenon
    <3>3. ~ (a = "replier" /\ b = "provider") /\ ~ (b = "replier" /\ a = "provider")
      BY <1>2, <3>2, KindRules, Zenon
    <3> QED
      BY <2>2, <3>2, <3>3, Zenon
  <2> QED
    BY <1>2, <2>1, <2>2, Zenon DEF Services
<1> QED
  BY <1>2, <1>3, Zenon DEF Sole

\* The map's entry of a name that request() does not use is empty; others are
\* working requesters.
LEMMA MapMeans ==
  ASSUME DInv, NEW s \in Names
  PROVE  /\ m_requesterBackendMap[s] \in Ids \cup {0}
         /\ ~ Kept(s) => m_requesterBackendMap[s] = 0
         /\ \A i \in Ids : m_requesterBackendMap[s] = i =>
              Kept(s) /\ object[i].name = s /\ object[i].kind = "requester" /\ Whole(i)
<1>1. m_requesterBackendMap[s] \in Ids \cup {0}
  BY DEF DInv, IInv, Base
<1> QED
  BY <1>1, Zenon DEF DInv, MapWhole

\* A name whose thread is not working on it is settled.
LEMMA CalmIfFree ==
  ASSUME Disciplined, DInv, NEW u \in Threads, NEW s \in Names, Mine(u, s),
         ~ Working(u, s, todo[u])
  PROVE  CalmBut(s, 0)
BY Exclusive, Zenon DEF DInv, Calm, Working

-----------------------------------------------------------------------------
(* The steps ahead. *)

\* A step in front of others.
LEMMA Cons ==
  ASSUME NEW S, NEW x, NEW r \in Seq(S)
  PROVE  <<x>> \o r # <<>> /\ Head(<<x>> \o r) = x /\ Tail(<<x>> \o r) = r
<1>1. PICK T : T = S \cup {x}
  BY Zenon
<1>2. r \in Seq(T) /\ x \in T
  BY <1>1, SeqGrows, Zenon
<1>3. PICK v : v = <<x>> \o r
  BY Zenon
<1>4. v \in Seq(T) /\ Len(v) = Len(r) + 1 /\ v[1] = x /\ \A n \in 1 .. Len(r) : v[n + 1] = r[n]
  BY <1>2, <1>3
<1>5. v # <<>> /\ Head(v) = x
  BY <1>2, <1>4
<1>6. Tail(v) \in Seq(T) /\ Len(Tail(v)) = Len(r) /\ \A n \in 1 .. Len(r) : Tail(v)[n] = r[n]
  BY <1>2, <1>4, <1>5
<1>7. Tail(v) = r
  BY <1>2, <1>6
<1> QED
  BY <1>3, <1>5, <1>7

\* What a thread's list is after a step.
LEMMA ThenIs ==
  ASSUME IInv, NEW u \in Threads, todo[u] # <<>>, NEW steps, Then(u, steps)
  PROVE  /\ Tail(todo[u]) \in Seq(GoodSteps)
         /\ todo'[u] = steps \o Tail(todo[u])
         /\ steps = <<>> => todo'[u] = Tail(todo[u])
         /\ \A x : steps = <<x>> => /\ todo'[u] # <<>> /\ Head(todo'[u]) = x
                                    /\ Tail(todo'[u]) = Tail(todo[u])
         /\ \A t \in Threads : t # u => todo'[t] = todo[t]
<1>1. todo \in [Threads -> Seq(GoodSteps)] /\ todo[u] \in Seq(GoodSteps)
  BY DEF IInv, Todo
<1>2. PICK r : r = Tail(todo[u])
  BY Zenon
<1>3. r \in Seq(GoodSteps)
  BY <1>1, <1>2, Lists, Zenon
<1>4. todo' = [todo EXCEPT ![u] = steps \o r]
  BY <1>2 DEF Then
<1>5. todo'[u] = steps \o r /\ \A t \in Threads : t # u => todo'[t] = todo[t]
  BY <1>1, <1>4, Zenon
<1>6. <<>> \o r = r
  BY <1>3
<1>7. \A x : /\ <<x>> \o r # <<>> /\ Head(<<x>> \o r) = x /\ Tail(<<x>> \o r) = r
  BY <1>3, Cons, Zenon
<1> QED
  BY <1>2, <1>3, <1>5, <1>6, <1>7, Zenon

\* The step at the head of a list tells what the thread knows.
LEMMA BusyMeans ==
  ASSUME NEW t, NEW s, NEW h, NEW r, BusyRow(t, s, h, r)
  PROVE  /\ Concerns(h, s) /\ m_requesterBackendMap[s] = 0
         /\ h.op \notin {"send", "stop", "lock", "unlock", "erase", "backend"}
         /\ h.op \in {"topic", "endpoint"} => TopicRow(s, h.id, h.end, r)
         /\ h.op = "create" => CreateRow(s, h.id, h.end, r)
         /\ h.op = "guid" => GuidRow(s, h.id, r)
         /\ h.op = "replace" => ReplaceRow(s, h.id, r)
         /\ h.op = "store" => StoreRow(s, h.id, r)
         /\ h.op = "end" => EndRow(s, h.id, r)
         /\ h.op = "delete" => DeleteRow(t, s, h.id, h.end, r)
         /\ h.op = "unsubscribe" => UnsubscribeRow(s, h.name, r)
         /\ h.op = "retract" => RetractRow(t, s, h.name, r)
<1>1. PICK op : op = h.op
  BY Zenon
<1>2. Concerns(h, s) /\ m_requesterBackendMap[s] = 0
  BY Zenon DEF BusyRow
<1> QED
  BY <1>1, <1>2 DEF BusyRow

\* A thread about to take a step on the objects of a name.
BusyOps == (EntityOps \ {"send"}) \cup {"retract"}

\* A thread at a step that changes objects, and does not unsubscribe by name,
\* works on the name of that step.
LEMMA AtBusy ==
  ASSUME DInv, NEW u \in Threads, NEW op \in BusyOps, Doing(u, op)
  PROVE  \E s \in Names : /\ Mine(u, s) /\ BusyRow(u, s, Head(todo[u]), Tail(todo[u]))
                          /\ \A q \in Names : Working(u, q, todo[u]) => q = s
<1>1. PICK h, r : h = Head(todo[u]) /\ r = Tail(todo[u])
  BY Zenon
<1>2. todo[u] # <<>> /\ h.op = op
  BY <1>1, Zenon DEF Doing
<1>3. op \notin {"send", "stop", "lock", "unlock", "erase", "backend", "unsubscribe"}
  BY DEF BusyOps, EntityOps
<1>4. ~ LooseRow(u, h, r) /\ \A s : ~ RestRow(u, s, h, r)
  BY <1>2, <1>3, Zenon DEF LooseRow, RestRow
<1>5. PICK s \in Names : Mine(u, s) /\ BusyRow(u, s, h, r)
  BY <1>1, <1>2, <1>4, Zenon DEF DInv, Rows, Row
<1>6. \A q : BusyRow(u, q, h, r) => q = s
  BY <1>5, Zenon DEF BusyRow, Concerns
<1> QED
  BY <1>1, <1>5, <1>6, Zenon DEF Working

\* What a thread knows, by the step.
LEMMA BusyIf ==
  ASSUME NEW t, NEW s, m_requesterBackendMap[s] = 0, NEW r
  PROVE  /\ \A i \in Ids : object[i].name = s =>
              /\ \A end : TopicRow(s, i, end, r) => /\ BusyRow(t, s, Do("topic", i, end), r)
                                                    /\ BusyRow(t, s, Do("endpoint", i, end), r)
              /\ \A end : CreateRow(s, i, end, r) => BusyRow(t, s, Do("create", i, end), r)
              /\ \A end : DeleteRow(t, s, i, end, r) => BusyRow(t, s, Do("delete", i, end), r)
              /\ \A end : GuidRow(s, i, r) => BusyRow(t, s, Do("guid", i, end), r)
              /\ \A end : ReplaceRow(s, i, r) => BusyRow(t, s, Do("replace", i, end), r)
              /\ \A end : StoreRow(s, i, r) => BusyRow(t, s, Do("store", i, end), r)
              /\ \A end : EndRow(s, i, r) => BusyRow(t, s, Do("end", i, end), r)
         /\ \A n : n[1] = s => /\ (UnsubscribeRow(s, n, r) => BusyRow(t, s, On("unsubscribe", n), r))
                               /\ (RetractRow(t, s, n, r) => BusyRow(t, s, On("retract", n), r))
<1>1. ASSUME NEW i \in Ids, object[i].name = s, NEW op \in EntityOps, NEW end
      PROVE  Concerns(Do(op, i, end), s)
  <2>1. PICK x : x = Do(op, i, end)
    BY Zenon
  <2>2. x.op = op /\ x.id = i
    BY <2>1 DEF Do
  <2> QED
    BY <1>1, <2>1, <2>2 DEF Concerns
<1>2. ASSUME NEW n, n[1] = s, NEW op, op \notin EntityOps PROVE Concerns(On(op, n), s)
  <2>1. PICK x : x = On(op, n)
    BY Zenon
  <2>2. x.op = op /\ x.name = n
    BY <2>1 DEF On
  <2> QED
    BY <1>2, <2>1, <2>2 DEF Concerns
<1>3. /\ {"topic", "endpoint", "create", "guid", "replace", "store", "end", "delete"} \subseteq EntityOps
      /\ "unsubscribe" \notin EntityOps /\ "retract" \notin EntityOps
  BY DEF EntityOps
<1>4. ASSUME NEW i \in Ids, object[i].name = s, NEW end
      PROVE  /\ TopicRow(s, i, end, r) => /\ BusyRow(t, s, Do("topic", i, end), r)
                                          /\ BusyRow(t, s, Do("endpoint", i, end), r)
             /\ CreateRow(s, i, end, r) => BusyRow(t, s, Do("create", i, end), r)
             /\ DeleteRow(t, s, i, end, r) => BusyRow(t, s, Do("delete", i, end), r)
             /\ GuidRow(s, i, r) => BusyRow(t, s, Do("guid", i, end), r)
             /\ ReplaceRow(s, i, r) => BusyRow(t, s, Do("replace", i, end), r)
             /\ StoreRow(s, i, r) => BusyRow(t, s, Do("store", i, end), r)
             /\ EndRow(s, i, r) => BusyRow(t, s, Do("end", i, end), r)
  <2>1. ASSUME NEW op \in EntityOps
        PROVE  \E x : /\ x = Do(op, i, end) /\ x.op = op /\ x.id = i /\ x.end = end
                      /\ Concerns(x, s)
    <3>1. PICK x : x = Do(op, i, end)
      BY Zenon
    <3>2. x.op = op /\ x.id = i /\ x.end = end
      BY <3>1 DEF Do
    <3> QED
      BY <1>1, <1>4, <3>1, <3>2
  <2>2. TopicRow(s, i, end, r) => /\ BusyRow(t, s, Do("topic", i, end), r)
                                  /\ BusyRow(t, s, Do("endpoint", i, end), r)
    <3>1. ASSUME NEW op \in {"topic", "endpoint"}, TopicRow(s, i, end, r)
          PROVE  BusyRow(t, s, Do(op, i, end), r)
      <4>1. PICK x : /\ x = Do(op, i, end) /\ x.op = op /\ x.id = i /\ x.end = end
                     /\ Concerns(x, s)
        BY <1>3, <2>1, <3>1, Zenon
      <4>2. BusyRow(t, s, x, r)
        BY <3>1, <4>1, Zenon DEF BusyRow
      <4> QED
        BY <4>1, <4>2, Zenon
    <3> QED
      BY <3>1, Zenon
  <2>3. CreateRow(s, i, end, r) => BusyRow(t, s, Do("create", i, end), r)
    <3>1. PICK x : /\ x = Do("create", i, end) /\ x.op = "create" /\ x.id = i /\ x.end = end
                   /\ Concerns(x, s)
      BY <1>3, <2>1, Zenon
    <3>2. CreateRow(s, i, end, r) => BusyRow(t, s, x, r)
      BY <3>1, Zenon DEF BusyRow
    <3> QED
      BY <3>1, <3>2, Zenon
  <2>4. DeleteRow(t, s, i, end, r) => BusyRow(t, s, Do("delete", i, end), r)
    <3>1. PICK x : /\ x = Do("delete", i, end) /\ x.op = "delete" /\ x.id = i /\ x.end = end
                   /\ Concerns(x, s)
      BY <1>3, <2>1, Zenon
    <3>2. DeleteRow(t, s, i, end, r) => BusyRow(t, s, x, r)
      BY <3>1, Zenon DEF BusyRow
    <3> QED
      BY <3>1, <3>2, Zenon
  <2>5. GuidRow(s, i, r) => BusyRow(t, s, Do("guid", i, end), r)
    BY <1>3, <2>1, Zenon DEF BusyRow
  <2>6. ReplaceRow(s, i, r) => BusyRow(t, s, Do("replace", i, end), r)
    BY <1>3, <2>1, Zenon DEF BusyRow
  <2>7. StoreRow(s, i, r) => BusyRow(t, s, Do("store", i, end), r)
    BY <1>3, <2>1, Zenon DEF BusyRow
  <2>8. EndRow(s, i, r) => BusyRow(t, s, Do("end", i, end), r)
    BY <1>3, <2>1, Zenon DEF BusyRow
  <2> QED
    BY <2>2, <2>3, <2>4, <2>5, <2>6, <2>7, <2>8
<1>5. ASSUME NEW n, n[1] = s
      PROVE  /\ (UnsubscribeRow(s, n, r) => BusyRow(t, s, On("unsubscribe", n), r))
             /\ (RetractRow(t, s, n, r) => BusyRow(t, s, On("retract", n), r))
  <2>1. ASSUME NEW op, op \notin EntityOps
        PROVE  \E x : x = On(op, n) /\ x.op = op /\ x.name = n /\ Concerns(x, s)
    <3>1. PICK x : x = On(op, n)
      BY Zenon
    <3>2. x.op = op /\ x.name = n
      BY <3>1 DEF On
    <3> QED
      BY <1>2, <1>5, <2>1, <3>1, <3>2
  <2> QED
    BY <1>3, <2>1, Zenon DEF BusyRow
<1> QED
  BY <1>4, <1>5, Zenon

\* A step of a thread that works on s and changes nothing but its list.
LEMMA LookStep ==
  ASSUME Disciplined, DInv, IInv', NEW u \in Threads, NEW s \in Names, Mine(u, s),
         UNCHANGED <<topics, object, requesters, work, mishap>>,
         \A q \in Names : Working(u, q, todo[u]) => q = s,
         \A t \in Threads : t # u => todo'[t] = todo[t],
         NEW w, w = todo'[u],
         \/ w # <<>> /\ BusyRow(u, s, Head(w), Tail(w))
         \/ Row(u, w) /\ CalmBut(s, 0)
  PROVE  DInv'
<1>1. UNCHANGED <<topics, object, requesters, mishap>>
  OBVIOUS
<1>2. Row(u, w) /\ (CalmBut(s, 0) \/ Working(u, s, w))
  BY Zenon DEF Row, Working
<1>3. \A q \in Names : Working(u, q, todo[u]) => CalmBut(q, 0) \/ Working(u, q, w)
  BY <1>2, Zenon
<1> QED
  BY <1>1, <1>2, <1>3, QuietRow, Zenon

\* Objects of one name.
LEMMA Typed ==
  ASSUME DInv, NEW i \in Ids
  PROVE  /\ IInv /\ Origin /\ Sole /\ object[i] \in Object /\ object[i].name \in Names
         /\ object[i].kind \in {"publisher", "callback", "requester", "replier", "provider"}
         /\ object[i].reader \in {"none", "open", "deleted"}
         /\ object[i].writer \in {"none", "open", "deleted"}
<1>1. IInv /\ Origin /\ Sole
  BY Zenon DEF DInv
<1>2. object[i] \in Object
  BY <1>1 DEF IInv, Base, Ids
<1> QED
  BY <1>1, <1>2 DEF Object, Kinds, Endpoint

-----------------------------------------------------------------------------
(* The steps of a thread that works on a name. *)

\* What it knows when it is about to take a step on object i.
LEMMA AtObject ==
  ASSUME DInv, NEW u \in Threads, NEW op \in EntityOps \ {"send"}, Doing(u, op),
         NEW i, NEW end, NEW r, i = It(u), end = Head(todo[u]).end, r = Tail(todo[u])
  PROVE  \E s \in Names :
           /\ Mine(u, s) /\ m_requesterBackendMap[s] = 0
           /\ i \in Ids /\ object[i].name = s /\ end \in Ends
           /\ \A q \in Names : Working(u, q, todo[u]) => q = s
           /\ op \in {"topic", "endpoint"} => TopicRow(s, i, end, r)
           /\ op = "create" => CreateRow(s, i, end, r)
           /\ op = "guid" => GuidRow(s, i, r)
           /\ op = "replace" => ReplaceRow(s, i, r)
           /\ op = "store" => StoreRow(s, i, r)
           /\ op = "end" => EndRow(s, i, r)
           /\ op = "delete" => DeleteRow(u, s, i, end, r)
<1>1. PICK h : h = Head(todo[u])
  BY Zenon
<1>2. h.op = op /\ h.id = i /\ h.end = end
  BY <1>1 DEF It, Doing
<1>3. op \in BusyOps /\ op \in EntityOps
  BY Zenon DEF BusyOps
<1>4. PICK s \in Names : /\ Mine(u, s) /\ BusyRow(u, s, h, r)
                         /\ \A q \in Names : Working(u, q, todo[u]) => q = s
  BY <1>1, <1>3, AtBusy, Zenon
<1>5. i \in Ids /\ end \in Ends
  BY <1>3, HeadEntity, Zenon DEF DInv
<1>6. object[i].name = s /\ m_requesterBackendMap[s] = 0
  <2>1. Concerns(h, s) /\ m_requesterBackendMap[s] = 0
    BY <1>4, BusyMeans, Zenon
  <2> QED
    BY <1>2, <1>3, <2>1 DEF Concerns
<1>7. /\ op \in {"topic", "endpoint"} => TopicRow(s, i, end, r)
      /\ op = "create" => CreateRow(s, i, end, r)
      /\ op = "guid" => GuidRow(s, i, r)
      /\ op = "replace" => ReplaceRow(s, i, r)
      /\ op = "store" => StoreRow(s, i, r)
      /\ op = "end" => EndRow(s, i, r)
      /\ op = "delete" => DeleteRow(u, s, i, end, r)
  BY <1>2, <1>4, BusyMeans, Zenon
<1> QED
  BY <1>4, <1>5, <1>6, <1>7

\* doSubscribe() finds no other reader of a service, and another reader of a
\* plain topic is a subscription of this thread.
LEMMA ReplaceKeeps == ASSUME Disciplined, DInv, NEW u \in Threads, Replace(u) PROVE DInv'
<1>0. /\ Doing(u, "replace") /\ todo[u] # <<>> /\ IInv
      /\ UNCHANGED <<topics, object, requesters, work, mishap>>
  BY Zenon DEF Replace, Doing, DInv
<1>1. IInv'
  BY <1>0, LookupStep, Zenon
<1>2. PICK i, end, r : i = It(u) /\ end = Head(todo[u]).end /\ r = Tail(todo[u])
  BY Zenon
<1>3. "replace" \in EntityOps \ {"send"}
  BY DEF EntityOps
<1>4. PICK s \in Names :
        /\ Mine(u, s) /\ m_requesterBackendMap[s] = 0
        /\ i \in Ids /\ object[i].name = s
        /\ \A q \in Names : Working(u, q, todo[u]) => q = s
        /\ ReplaceRow(s, i, r)
  BY <1>0, <1>2, <1>3, AtObject, Zenon
<1>5. CalmBut(s, i) /\ ToRead(i) /\ Subscribes(r, i, s)
  BY <1>4, Zenon DEF ReplaceRow
<1>6. CASE Then(u, <<>>)
  <2>1. todo'[u] = r /\ \A t \in Threads : t # u => todo'[t] = todo[t]
    BY <1>0, <1>2, <1>6, ThenIs, Zenon
  <2>2. r # <<>> /\ Head(r) = Do("topic", i, "reader") /\ TopicRow(s, i, "reader", Tail(r))
    BY <1>5, Zenon DEF Subscribes, Follows, TopicRow
  <2>3. BusyRow(u, s, Head(r), Tail(r))
    BY <1>4, <2>2, BusyIf, Zenon
  <2> QED
    BY <1>0, <1>1, <1>4, <2>1, <2>2, <2>3, LookStep, Zenon
<1>7. ASSUME NEW k \in ReadersOn(ReaderTopic(object[i])), Then(u, <<Do("delete", k, "reader")>>)
      PROVE  DInv'
  <2>1. k \in Ids /\ object[k].reader = "open" /\ ReaderTopic(object[k]) = ReaderTopic(object[i])
    BY <1>7, Zenon DEF ReadersOn
  <2>2. object[i].reader = "none" /\ object[i].kind # "publisher"
    BY <1>5, Zenon DEF ToRead
  <2>3. k # i
    BY <2>1, <2>2
  <2>4. object[i].kind \notin Services
    <3>1. object[i].reader # "deleted" /\ object[k].reader # "deleted"
      BY <2>1, <2>2
    <3> QED
      BY <1>4, <2>1, <2>3, <3>1, OneReader, Zenon DEF DInv
  <2>5. object[i].kind = "callback"
    BY <1>4, <2>2, <2>4, Typed DEF Services
  <2>6. ReaderTopic(object[i]) = PlainName(s)
    BY <1>4, <2>5, Typed, WhoReads, Zenon
  <2>7. ReaderTopic(object[k]) = PlainName(s)
    BY <2>1, <2>6
  <2>8. object[k].name = s /\ object[k].kind \in {"publisher", "callback"}
    BY <2>1, <2>7, Typed, WhoReads, Zenon
  <2>9. object[k].kind = "callback"
    <3>1. Settled(k)
      BY <1>5, <2>1, <2>3, <2>8, Zenon DEF CalmBut
    <3> QED
      BY <2>1, <2>8, <3>1 DEF Settled
  <2>10. ~ Kept(s)
    <3>1. Kept(s) => object[i].kind = "requester"
      BY <1>0, <1>4, KindRules, Zenon DEF DInv
    <3> QED
      BY <2>5, <3>1
  <2>11. SwapRow(s, i, r)
    BY <1>4, <1>5, <2>5, <2>10, Zenon DEF SwapRow, Subscribes, Stores, Follows
  <2>12. DeleteRow(u, s, k, "reader", r)
    BY <1>4, <2>1, <2>9, <2>10, <2>11, Zenon DEF DeleteRow
  <2>13. BusyRow(u, s, Do("delete", k, "reader"), r)
    BY <1>4, <2>1, <2>8, <2>12, BusyIf, Zenon
  <2>14. PICK w : w = todo'[u]
    BY Zenon
  <2>15. /\ w # <<>> /\ Head(w) = Do("delete", k, "reader") /\ Tail(w) = r
         /\ \A t \in Threads : t # u => todo'[t] = todo[t]
    BY <1>0, <1>2, <1>7, <2>14, ThenIs, Zenon
  <2>16. BusyRow(u, s, Head(w), Tail(w))
    BY <2>13, <2>15, Zenon
  <2> QED
    BY <1>0, <1>1, <1>4, <2>14, <2>15, <2>16, LookStep, Zenon
<1> QED
  BY <1>2, <1>6, <1>7, Zenon DEF Replace

\* A topic of a service that exists fits: its types are those of the calls.
LEMMA ServiceFits ==
  ASSUME DInv, NEW i \in Ids, object[i].kind \in Services, NEW end \in Ends,
         NEW n, n = TopicOf(object[i], end), topics[n] # NoTopic
  PROVE  Fits(i, n)
<1>1. PICK s, k : s = object[i].name /\ k = object[i].kind
  BY Zenon
<1>2. PICK t \in Threads : \E c \in Calls[t] :
        /\ c.name = s /\ c.req = object[i].req /\ c.rep = object[i].rep
        /\ k = "replier" => c.do = "makeReplier"
        /\ k = "provider" => c.do = "provide"
        /\ k = "requester" => c.do \in {"makeRequester", "request"}
  BY <1>1, ObjectMade, Zenon DEF DInv
<1>3. PICK c \in Calls[t] :
        /\ c.name = s /\ c.req = object[i].req /\ c.rep = object[i].rep
        /\ k = "replier" => c.do = "makeReplier"
        /\ k = "provider" => c.do = "provide"
        /\ k = "requester" => c.do \in {"makeRequester", "request"}
  BY <1>2
<1>4. c.do \in ServiceDos
  BY <1>1, <1>3 DEF Services, ServiceDos
<1>5. Serves(RequestName(s), object[i].req) /\ Serves(ReplyName(s), object[i].rep)
  BY <1>3, <1>4 DEF DInv, Agreed
<1>6. n \in {RequestName(s), ReplyName(s)}
  <2>1. object[i] \in Object
    BY Typed, Zenon
  <2>2. /\ ReaderTopic(object[i]) \in {RequestName(s), ReplyName(s)}
        /\ WriterTopic(object[i]) \in {RequestName(s), ReplyName(s)}
    BY <1>1, <2>1, TopicKinds, Zenon DEF Services
  <2> QED
    BY <2>2, Zenon DEF TopicOf
<1>7. RequestName(s) # ReplyName(s)
  BY NamesDiffer, Zenon
<1>8. topics[n].type = TypeOn(object[i], n) /\ topics[n].depth = -1
  BY <1>1, <1>5, <1>6, <1>7 DEF Serves, TypeOn
<1> QED
  BY <1>8, Zenon DEF Fits

\* The last object of a name settles.
LEMMA CalmAll ==
  ASSUME NEW s, NEW i \in Ids, CalmBut(s, i), Settled(i)
  PROVE  CalmBut(s, 0)
BY Zenon DEF CalmBut

\* request() does not touch the other kinds of object.
LEMMA NotKept ==
  ASSUME Disciplined, DInv, NEW i \in Ids, object[i].kind # "requester"
  PROVE  ~ Kept(object[i].name)
BY KindRules, Zenon DEF DInv

\* getTopic() refuses only publishers and subscriptions.
LEMMA GetTopicKeeps == ASSUME Disciplined, DInv, NEW u \in Threads, GetTopic(u) PROVE DInv'
<1>0. /\ Doing(u, "topic") /\ todo[u] # <<>> /\ IInv
      /\ UNCHANGED <<topics, object, requesters, work, mishap>>
  BY Zenon DEF GetTopic, Doing, DInv
<1>1. IInv'
  BY <1>0, GetTopicStep, Zenon
<1>2. PICK i, end, r : i = It(u) /\ end = Head(todo[u]).end /\ r = Tail(todo[u])
  BY Zenon
<1>3. "topic" \in EntityOps \ {"send"} /\ "topic" \in {"topic", "endpoint"}
  BY DEF EntityOps
<1>4. PICK s \in Names :
        /\ Mine(u, s) /\ m_requesterBackendMap[s] = 0
        /\ i \in Ids /\ object[i].name = s /\ end \in Ends
        /\ \A q \in Names : Working(u, q, todo[u]) => q = s
        /\ TopicRow(s, i, end, r)
  BY <1>0, <1>2, <1>3, AtObject, Zenon
<1>5. PICK n : n = TopicOf(object[i], end)
  BY Zenon
<1>6. ASSUME NEW x, Then(u, <<x>>), BusyRow(u, s, x, r) PROVE DInv'
  <2>1. PICK w : w = todo'[u]
    BY Zenon
  <2>2. w # <<>> /\ Head(w) = x /\ Tail(w) = r /\ \A t \in Threads : t # u => todo'[t] = todo[t]
    BY <1>0, <1>2, <1>6, <2>1, ThenIs, Zenon
  <2>3. BusyRow(u, s, Head(w), Tail(w))
    BY <1>6, <2>2, Zenon
  <2> QED
    BY <1>0, <1>1, <1>4, <2>1, <2>2, <2>3, LookStep, Zenon
<1>7. CASE topics[n] = NoTopic /\ Then(u, <<Do("create", i, end)>>)
  <2>1. CreateRow(s, i, end, r)
    BY <1>4, <1>5, <1>7, Zenon DEF CreateRow
  <2> QED
    BY <1>4, <1>6, <1>7, <2>1, BusyIf, Zenon
<1>8. CASE Then(u, <<Do("endpoint", i, end)>>)
  BY <1>4, <1>6, <1>8, BusyIf, Zenon
<1>9. CASE topics[n] # NoTopic /\ ~ Fits(i, n) /\ Then(u, <<>>)
  <2>1. object[i].kind \notin Services
    BY <1>4, <1>5, <1>9, ServiceFits, Zenon
  <2>2. object[i].kind \in {"publisher", "callback"}
    BY <1>4, <2>1, Typed DEF Services
  <2>3. ~ Kept(s)
    <3>1. object[i].kind # "requester"
      BY <2>2
    <3> QED
      BY <1>4, <3>1, NotKept, Zenon
  <2>4. CalmBut(s, i)
    BY <1>4, Zenon DEF TopicRow
  <2>5. Settled(i) /\ r = <<>>
    <3>1. CASE object[i].kind = "publisher"
      BY <1>4, <3>1 DEF TopicRow, ToWrite, ToRead, Settled
    <3>2. CASE object[i].kind = "callback"
      BY <1>4, <2>3, <3>2 DEF TopicRow, ToWrite, ToRead, Settled, Stores
    <3> QED
      BY <2>2, <3>1, <3>2
  <2>6. CalmBut(s, 0)
    BY <1>4, <2>4, <2>5, CalmAll, Zenon
  <2>7. Row(u, r)
    BY <1>4, <2>3, <2>5, Zenon DEF Row, Mine
  <2>8. r = todo'[u] /\ \A t \in Threads : t # u => todo'[t] = todo[t]
    BY <1>0, <1>2, <1>9, ThenIs, Zenon
  <2> QED
    BY <1>0, <1>1, <1>4, <2>6, <2>7, <2>8, LookStep, Zenon
<1> QED
  <2>1. Then(u, IF topics[n] = NoTopic THEN <<Do("create", i, end)>>
                ELSE IF Fits(i, n) THEN <<Do("endpoint", i, end)>> ELSE <<>>)
    BY <1>2, <1>5, Zenon DEF GetTopic
  <2> QED
    BY <1>7, <1>8, <1>9, <2>1, Zenon

\* A backend's writer is open when its guid is asked for.
LEMMA GetGuidKeeps == ASSUME Disciplined, DInv, NEW u \in Threads, GetGuid(u) PROVE DInv'
<1>0. /\ Doing(u, "guid") /\ todo[u] # <<>> /\ IInv /\ Then(u, <<>>)
      /\ UNCHANGED <<topics, object, requesters, work>>
  BY Zenon DEF GetGuid, Doing, DInv
<1>1. IInv'
  BY <1>0, StepInv, Zenon DEF Next, Advance
<1>2. PICK i, end, r : i = It(u) /\ end = Head(todo[u]).end /\ r = Tail(todo[u])
  BY Zenon
<1>3. "guid" \in EntityOps \ {"send"}
  BY DEF EntityOps
<1>4. PICK s \in Names :
        /\ Mine(u, s) /\ m_requesterBackendMap[s] = 0
        /\ i \in Ids /\ object[i].name = s
        /\ \A q \in Names : Working(u, q, todo[u]) => q = s
        /\ GuidRow(s, i, r)
  BY <1>0, <1>2, <1>3, AtObject, Zenon
<1>5. object[i].writer = "open"
  BY <1>4 DEF GuidRow, ToRead, Services
<1>6. mishap' = mishap
  BY <1>2, <1>5 DEF GetGuid, Doing
<1>7. UNCHANGED <<topics, object, requesters, work, mishap>>
  BY <1>0, <1>6
<1>8. r = todo'[u] /\ \A t \in Threads : t # u => todo'[t] = todo[t]
  BY <1>0, <1>2, ThenIs, Zenon
<1>9. r # <<>> /\ Head(r) = Do("replace", i, "reader") /\ ReplaceRow(s, i, Tail(r))
  BY <1>4, Zenon DEF GuidRow, Replaces, Follows, ReplaceRow
<1>10. BusyRow(u, s, Head(r), Tail(r))
  BY <1>4, <1>9, BusyIf, Zenon
<1> QED
  BY <1>1, <1>4, <1>7, <1>8, <1>9, <1>10, LookStep, Zenon

-----------------------------------------------------------------------------
(* Steps of a thread that works on no name. *)

\* The steps after the last one on a name.
LEMMA LeavesRow == ASSUME NEW u, NEW s, NEW r, Mine(u, s), Leaves(r, s) PROVE Row(u, r)
<1>1. CASE Kept(s)
  BY <1>1, Zenon DEF Mine, Leaves, Unlocks, Row, LooseRow
<1>2. CASE ~ Kept(s)
  BY <1>2, Zenon DEF Mine, Leaves, Row
<1> QED
  BY <1>1, <1>2

\* A thread at another step is at one that finds all settled, or outside.
LEMMA AtRest ==
  ASSUME DInv, NEW u \in Threads, NEW op \in {"send", "stop", "lock", "unlock", "erase", "backend"},
         Doing(u, op), NEW h, NEW r, h = Head(todo[u]), r = Tail(todo[u])
  PROVE  /\ op \in {"send", "stop"} => \E s \in Names : Mine(u, s) /\ RestRow(u, s, h, r)
         /\ op \notin {"send", "stop"} => LooseRow(u, h, r)
         /\ \A q : ~ Working(u, q, todo[u])
<1>1. h.op = op /\ todo[u] # <<>>
  BY DEF Doing
<1>2. \A s : ~ BusyRow(u, s, h, r)
  BY <1>1, BusyMeans, Zenon
<1>3. op \in {"send", "stop"} => ~ LooseRow(u, h, r)
  BY <1>1 DEF LooseRow
<1>4. op \notin {"send", "stop"} => \A s : ~ RestRow(u, s, h, r)
  BY <1>1 DEF RestRow
<1> QED
  BY <1>1, <1>2, <1>3, <1>4, Zenon DEF DInv, Rows, Row, Working

\* doPublish() of a thread finds its writer, or none.
LEMMA SendKeeps == ASSUME Disciplined, DInv, NEW u \in Threads, Send(u) PROVE DInv'
<1>0. /\ Doing(u, "send") /\ todo[u] # <<>> /\ IInv /\ Then(u, <<>>)
      /\ UNCHANGED <<topics, object, requesters, work>>
  BY Zenon DEF Send, Doing, DInv
<1>1. IInv'
  BY <1>0, StepInv, Zenon DEF Next, Advance
<1>2. PICK h, r : h = Head(todo[u]) /\ r = Tail(todo[u])
  BY Zenon
<1>3. PICK s \in Names : Mine(u, s) /\ RestRow(u, s, h, r)
  BY <1>0, <1>2, AtRest, Zenon
<1>4. object[h.id].writer # "deleted" /\ Leaves(r, s)
  <2>1. h.op = "send"
    BY <1>0, <1>2 DEF Doing
  <2> QED
    BY <1>3, <2>1 DEF RestRow
<1>5. mishap' = mishap
  BY <1>2, <1>4 DEF Send, Published, It, Doing
<1>6. UNCHANGED <<topics, object, requesters, mishap>>
  BY <1>0, <1>5
<1>7. r = todo'[u] /\ \A t \in Threads : t # u => todo'[t] = todo[t]
  BY <1>0, <1>2, ThenIs, Zenon
<1>8. Row(u, r)
  BY <1>3, <1>4, LeavesRow, Zenon
<1>9. \A q : ~ Working(u, q, todo[u])
  BY <1>0, <1>2, AtRest, Zenon
<1> QED
  BY <1>1, <1>6, <1>7, <1>8, <1>9, QuietRow, Zenon

\* A service that a thread unadvertises is not one of request().
LEMMA RetractsRules ==
  ASSUME Disciplined, DInv, NEW u \in Threads, NEW s \in Names, Retracts(u, s)
  PROVE  /\ ~ Kept(s) /\ m_requesterBackendMap[s] = 0
         /\ \A k \in Ids : object[k].name = s => object[k].kind # "replier"
<1>1. ~ Kept(s)
  <2>1. PICK c \in Calls[u] : c.do = "unadvertise" /\ c.name = s
    BY Zenon DEF Retracts
  <2>2. Kept(c.name) => c.do \in {"request", "unsubscribe"}
    BY Rules, Zenon
  <2> QED
    BY <2>1, <2>2
<1>2. \A k \in Ids : object[k].name = s => object[k].kind # "replier"
  BY KindRules, Zenon DEF DInv
<1> QED
  BY <1>1, <1>2, MapMeans, Zenon

\* unadvertise() finds the reader of its own provider, or there is none.
LEMMA StopKeeps == ASSUME Disciplined, DInv, NEW u \in Threads, Stop(u) PROVE DInv'
<1>0. /\ Doing(u, "stop") /\ todo[u] # <<>> /\ IInv
      /\ UNCHANGED <<topics, object, requesters, work, mishap>>
  BY Zenon DEF Stop, Doing, DInv
<1>1. IInv'
  BY <1>0, LookupStep, Zenon
<1>2. PICK h, r, n : h = Head(todo[u]) /\ r = Tail(todo[u]) /\ n = h.name
  BY Zenon
<1>3. \A q : ~ Working(u, q, todo[u])
  BY <1>0, <1>2, AtRest, Zenon
<1>4. PICK s \in Names : Mine(u, s) /\ RestRow(u, s, h, r)
  BY <1>0, <1>2, AtRest, Zenon
<1>5. n = RequestName(s) /\ Retracts(u, s) /\ Withdraws(r, s)
  <2>1. h.op = "stop"
    BY <1>0, <1>2 DEF Doing
  <2> QED
    BY <1>2, <1>4, <2>1 DEF RestRow, StopRow
<1>6. CalmBut(s, 0)
  BY <1>3, <1>4, CalmIfFree, Zenon
<1>7. /\ m_requesterBackendMap[s] = 0
      /\ \A k \in Ids : object[k].name = s => object[k].kind # "replier"
  BY <1>5, RetractsRules, Zenon
<1>8. ASSUME NEW k \in ReadersOn(n), Then(u, <<Do("delete", k, "reader")>>) PROVE DInv'
  <2>1. k \in Ids /\ object[k].reader = "open" /\ ReaderTopic(object[k]) = RequestName(s)
    BY <1>5, <1>8, Zenon DEF ReadersOn
  <2>2. object[k].name = s /\ object[k].kind \in {"provider", "replier"}
    BY <2>1, Typed, WhoReads, Zenon
  <2>3. object[k].kind = "provider"
    BY <1>7, <2>1, <2>2, Zenon
  <2>4. Settled(k)
    <3>1. k # 0
      BY <2>1 DEF Ids
    <3> QED
      BY <1>6, <2>1, <2>2, <3>1, Zenon DEF CalmBut
  <2>5. Whole(k)
    BY <2>1, <2>3, <2>4 DEF Settled, Withdrawn
  <2>6. DeleteRow(u, s, k, "reader", r)
    BY <1>5, <1>6, <2>3, <2>5, Zenon DEF DeleteRow
  <2>7. BusyRow(u, s, Do("delete", k, "reader"), r)
    BY <1>7, <2>1, <2>2, <2>6, BusyIf, Zenon
  <2>8. PICK w : w = todo'[u]
    BY Zenon
  <2>9. /\ w # <<>> /\ Head(w) = Do("delete", k, "reader") /\ Tail(w) = r
        /\ \A t \in Threads : t # u => todo'[t] = todo[t]
    BY <1>0, <1>2, <1>8, <2>8, ThenIs, Zenon
  <2>10. BusyRow(u, s, Head(w), Tail(w))
    BY <2>7, <2>9, Zenon
  <2> QED
    BY <1>0, <1>1, <1>3, <1>4, <2>8, <2>9, <2>10, LookStep, Zenon
<1>9. CASE ReadersOn(n) = {} /\ Then(u, <<>>)
  <2>1. ASSUME NEW k \in Ids, object[k].name = s, object[k].kind = "provider"
        PROVE  object[k].reader = "deleted"
    <3>1. k # 0
      BY DEF Ids
    <3>2. Settled(k)
      BY <1>6, <2>1, <3>1, Zenon DEF CalmBut
    <3>3. Whole(k) \/ Withdrawn(k)
      BY <2>1, <3>2 DEF Settled
    <3>4. CASE Whole(k)
      <4>1. ReaderTopic(object[k]) = n
        BY <1>5, <2>1, Typed, WhoReads, Zenon
      <4>2. k \in ReadersOn(n)
        BY <3>4, <4>1, Zenon DEF ReadersOn, Whole
      <4> QED
        BY <1>9, <4>2
    <3> QED
      BY <3>3, <3>4, Zenon DEF Withdrawn
  <2>2. r # <<>> /\ Head(r) = On("retract", ReplyName(s)) /\ Tail(r) = <<>>
    BY <1>5, Zenon DEF Withdraws, Follows
  <2>3. RetractRow(u, s, ReplyName(s), Tail(r))
    BY <1>5, <1>6, <2>1, <2>2, Zenon DEF RetractRow
  <2>4. BusyRow(u, s, Head(r), Tail(r))
    <3>1. ReplyName(s)[1] = s
      BY NamesDiffer, Zenon
    <3>2. BusyRow(u, s, On("retract", ReplyName(s)), Tail(r))
      BY <1>7, <2>3, <3>1, BusyIf, Zenon
    <3> QED
      BY <2>2, <3>2
  <2>5. r = todo'[u] /\ \A t \in Threads : t # u => todo'[t] = todo[t]
    BY <1>0, <1>2, <1>9, ThenIs, Zenon
  <2> QED
    BY <1>0, <1>1, <1>3, <1>4, <2>2, <2>4, <2>5, LookStep, Zenon
<1> QED
  BY <1>2, <1>8, <1>9, Zenon DEF Stop

\* unadvertise() finds the writer of the provider whose reader it deleted.
LEMMA RetractKeeps == ASSUME Disciplined, DInv, NEW u \in Threads, Retract(u) PROVE DInv'
<1>0. /\ Doing(u, "retract") /\ todo[u] # <<>> /\ IInv
      /\ UNCHANGED <<topics, object, requesters, work, mishap>>
  BY Zenon DEF Retract, Doing, DInv
<1>1. IInv'
  BY <1>0, LookupStep, Zenon
<1>2. PICK h, r, n : h = Head(todo[u]) /\ r = Tail(todo[u]) /\ n = h.name
  BY Zenon
<1>3. PICK s \in Names : /\ Mine(u, s) /\ BusyRow(u, s, h, r)
                         /\ \A q \in Names : Working(u, q, todo[u]) => q = s
  BY <1>0, <1>2, AtBusy, Zenon DEF BusyOps
<1>4. h.op = "retract"
  BY <1>0, <1>2 DEF Doing
<1>5. RetractRow(u, s, n, r) /\ m_requesterBackendMap[s] = 0
  BY <1>2, <1>3, <1>4, BusyMeans, Zenon
<1>6. /\ n = ReplyName(s) /\ Retracts(u, s) /\ r = <<>>
      /\ \A i \in Ids : object[i].name = s /\ object[i].kind = "provider" => object[i].reader = "deleted"
      /\ CalmBut(s, 0) \/ \E k \in Ids : Deaf(k, s) /\ CalmBut(s, k)
  BY <1>5, Zenon DEF RetractRow
<1>7. ~ Kept(s) /\ \A k \in Ids : object[k].name = s => object[k].kind # "replier"
  BY <1>6, RetractsRules, Zenon
<1>8. ASSUME NEW k \in WritersOn(n), Then(u, <<Do("delete", k, "writer")>>) PROVE DInv'
  <2>1. k \in Ids /\ object[k].writer = "open" /\ WriterTopic(object[k]) = ReplyName(s)
    BY <1>6, <1>8, Zenon DEF WritersOn
  <2>2. object[k].name = s /\ object[k].kind \in {"provider", "replier"}
    BY <2>1, Typed, WhoReads, Zenon
  <2>3. object[k].kind = "provider"
    BY <1>7, <2>1, <2>2, Zenon
  <2>4. ~ Settled(k)
    BY <1>6, <2>1, <2>2, <2>3 DEF Settled, Whole, Withdrawn
  <2>5. k # 0
    BY <2>1 DEF Ids
  <2>6. Deaf(k, s) /\ CalmBut(s, k)
    BY <1>6, <2>1, <2>2, <2>4, <2>5, Zenon DEF CalmBut
  <2>7. DeleteRow(u, s, k, "writer", r)
    BY <1>6, <2>6, Zenon DEF DeleteRow
  <2>8. BusyRow(u, s, Do("delete", k, "writer"), r)
    BY <1>5, <2>1, <2>2, <2>7, BusyIf, Zenon
  <2>9. PICK w : w = todo'[u]
    BY Zenon
  <2>10. /\ w # <<>> /\ Head(w) = Do("delete", k, "writer") /\ Tail(w) = r
         /\ \A t \in Threads : t # u => todo'[t] = todo[t]
    BY <1>0, <1>2, <1>8, <2>9, ThenIs, Zenon
  <2>11. BusyRow(u, s, Head(w), Tail(w))
    BY <2>8, <2>10, Zenon
  <2> QED
    BY <1>0, <1>1, <1>3, <2>9, <2>10, <2>11, LookStep, Zenon
<1>9. CASE WritersOn(n) = {} /\ Then(u, <<>>)
  <2>1. ASSUME NEW k \in Ids, Deaf(k, s) PROVE FALSE
    <3>1. object[k].name = s /\ object[k].kind = "provider" /\ object[k].writer = "open"
      BY <2>1, Zenon DEF Deaf
    <3>2. WriterTopic(object[k]) = n
      BY <1>6, <3>1, Typed, WhoReads, Zenon
    <3>3. k \in WritersOn(n)
      BY <3>1, <3>2, Zenon DEF WritersOn
    <3> QED
      BY <1>9, <3>3
  <2>2. CalmBut(s, 0)
    BY <1>6, <2>1, Zenon
  <2>3. Row(u, r)
    BY <1>3, <1>6, <1>7, Zenon DEF Row, Mine
  <2>4. r = todo'[u] /\ \A t \in Threads : t # u => todo'[t] = todo[t]
    BY <1>0, <1>2, <1>9, ThenIs, Zenon
  <2> QED
    BY <1>0, <1>1, <1>3, <2>2, <2>3, <2>4, LookStep, Zenon
<1> QED
  BY <1>2, <1>8, <1>9, Zenon DEF Retract

\* The steps of unsubscribe() when there is no reader of the name.
LEMMA ThreeIs ==
  ASSUME IInv, NEW u \in Threads, todo[u] # <<>>, Tail(todo[u]) = <<>>,
         NEW a, NEW b, NEW c, Then(u, <<a, b, c>>)
  PROVE  /\ todo'[u] = <<a, b, c>>
         /\ \A t \in Threads : t # u => todo'[t] = todo[t]
<1>1. /\ todo'[u] = <<a, b, c>> \o Tail(todo[u])
      /\ \A t \in Threads : t # u => todo'[t] = todo[t]
  BY ThenIs, Zenon
<1>2. <<a, b, c>> \o <<>> = <<a, b, c>>
  OBVIOUS
<1> QED
  BY <1>1, <1>2, Zenon

\* Steps of a thread that gets or gives up the mutex.
LEMMA MutexKeeps ==
  ASSUME Disciplined, DInv, NEW u \in Threads, Lock(u) \/ Unlock(u) PROVE DInv'
<1>0. /\ todo[u] # <<>> /\ IInv /\ Then(u, <<>>)
      /\ UNCHANGED <<topics, object, m_requesterBackendMap, work, mishap>>
  BY Zenon DEF Lock, Unlock, Doing, DInv
<1>1. IInv'
  BY <1>0, StepInv, Zenon DEF Next, Advance
<1>2. PICK h, r : h = Head(todo[u]) /\ r = Tail(todo[u])
  BY Zenon
<1>3. r = todo'[u] /\ \A t \in Threads : t # u => todo'[t] = todo[t]
  BY <1>0, <1>2, ThenIs, Zenon
<1>4. LooseRow(u, h, r) /\ \A q : ~ Working(u, q, todo[u])
  BY <1>2, AtRest, Zenon DEF Lock, Unlock
<1>5. \A t \in Threads : t # u => (m_requesterMutex' = t <=> m_requesterMutex = t)
  <2>1. CASE Lock(u)
    BY <2>1, NobodyAssumption DEF Lock
  <2>2. CASE Unlock(u)
    <3>1. h.op = "unlock"
      BY <1>2, <2>2 DEF Unlock, Doing
    <3>2. m_requesterMutex = u
      BY <1>4, <3>1 DEF LooseRow
    <3> QED
      BY <2>2, <3>2, NobodyAssumption DEF Unlock
  <2> QED
    BY <2>1, <2>2
<1>6. Row(u, r)'
  <2>1. CASE Lock(u)
    <3>1. h.op = "lock" /\ m_requesterMutex' = u
      BY <1>2, <2>1 DEF Lock, Doing
    <3>2. /\ r # <<>> /\ Unlocks(Tail(r))
          /\ \/ Head(r).op = "erase" /\ Named(u, Head(r).name)
             \/ IsRequest(u, Head(r))
      BY <1>4, <3>1 DEF LooseRow
    <3>3. IsRequest(u, Head(r)) => Head(r).op = "backend"
      BY Zenon DEF IsRequest
    <3>4. LooseRow(u, Head(r), Tail(r))'
      BY <3>1, <3>2, <3>3, Zenon DEF LooseRow
    <3> QED
      BY <3>2, <3>4, Zenon DEF Row
  <2>2. CASE Unlock(u)
    <3>1. h.op = "unlock" /\ m_requesterMutex' = Nobody
      BY <1>2, <2>2 DEF Unlock, Doing
    <3>2. r = <<>>
      BY <1>4, <3>1 DEF LooseRow
    <3>3. m_requesterMutex' # u
      BY <3>1, NobodyAssumption
    <3> QED
      BY <3>2, <3>3, Zenon DEF Row
  <2> QED
    BY <2>1, <2>2
<1>7. Row(u, todo[u])'
  BY <1>3, <1>6, Zenon
<1>8. UNCHANGED <<topics, object, m_requesterBackendMap, mishap>>
  BY <1>0
<1> QED
  BY <1>1, <1>3, <1>4, <1>5, <1>7, <1>8, PureStep, Zenon

\* The topic that a call names.
LEMMA NamedIn ==
  ASSUME NEW u \in Threads, NEW n, Named(u, n)
  PROVE  \E s \in Names : n = PlainName(s) /\ n[1] = s /\ Uses(u, s)
<1>1. PICK c \in Calls[u] : c.name = n[1]
  BY Zenon DEF Named, Uses
<1>2. c.name \in Names
  BY CallsAssumption DEF Call
<1> QED
  BY <1>1, <1>2 DEF Named

\* unsubscribe() of a topic: a reader it finds is a subscription of this
\* thread, and else the name may be one of request().
LEMMA PlainUnsubscribe ==
  ASSUME Disciplined, DInv, IInv', NEW u \in Threads, Unsubscribe(u),
         LooseRow(u, Head(todo[u]), Tail(todo[u]))
  PROVE  DInv'
<1>0. /\ Doing(u, "unsubscribe") /\ todo[u] # <<>> /\ IInv
      /\ UNCHANGED <<topics, object, requesters, work, mishap>>
  BY Zenon DEF Unsubscribe, Doing, DInv
<1>1. PICK h, r, n : h = Head(todo[u]) /\ r = Tail(todo[u]) /\ n = h.name
  BY Zenon
<1>2. h.op = "unsubscribe"
  BY <1>0, <1>1 DEF Doing
<1>3. Named(u, n) /\ m_requesterMutex # u /\ r = <<>>
  <2>1. LooseRow(u, h, r)
    BY <1>1
  <2> QED
    BY <1>1, <1>2, <2>1 DEF LooseRow
<1>5. PICK s \in Names : n = PlainName(s) /\ n[1] = s /\ Uses(u, s)
  BY <1>3, NamedIn, Zenon
<1>6. \A q : ~ Working(u, q, todo[u])
  <2>1. \A q : ~ UnsubscribeRow(q, n, r)
    BY <1>3, Zenon DEF UnsubscribeRow, Finishes, Follows
  <2> QED
    BY <1>1, <1>2, <2>1, BusyMeans, Zenon DEF Working
<1>7. ASSUME NEW k \in ReadersOn(n), Then(u, <<Do("delete", k, "reader")>>) PROVE DInv'
  <2>1. k \in Ids /\ object[k].reader = "open" /\ ReaderTopic(object[k]) = PlainName(s)
    BY <1>5, <1>7, Zenon DEF ReadersOn
  <2>2. object[k].name = s /\ object[k].kind \in {"publisher", "callback"}
    BY <2>1, Typed, WhoReads, Zenon
  <2>3. ~ Kept(s)
    <3>1. object[k].kind # "requester"
      BY <2>2
    <3> QED
      BY <2>1, <2>2, <3>1, NotKept, Zenon
  <2>4. Mine(u, s)
    BY <1>3, <1>5, <2>3, Zenon DEF Mine
  <2>5. CalmBut(s, 0)
    BY <1>6, <2>4, CalmIfFree, Zenon
  <2>6. Settled(k)
    <3>1. k # 0
      BY <2>1 DEF Ids
    <3> QED
      BY <2>1, <2>2, <2>5, <3>1, Zenon DEF CalmBut
  <2>7. object[k].kind = "callback"
    BY <2>1, <2>2, <2>6 DEF Settled
  <2>8. DeleteRow(u, s, k, "reader", r)
    BY <1>3, <2>1, <2>3, <2>5, <2>7, Zenon DEF DeleteRow
  <2>9. BusyRow(u, s, Do("delete", k, "reader"), r)
    BY <2>1, <2>2, <2>3, <2>8, BusyIf, MapMeans, Zenon
  <2>10. PICK w : w = todo'[u]
    BY Zenon
  <2>11. /\ w # <<>> /\ Head(w) = Do("delete", k, "reader") /\ Tail(w) = r
         /\ \A t \in Threads : t # u => todo'[t] = todo[t]
    BY <1>0, <1>1, <1>7, <2>10, ThenIs, Zenon
  <2>12. BusyRow(u, s, Head(w), Tail(w))
    BY <2>9, <2>11, Zenon
  <2> QED
    BY <1>0, <1>6, <2>4, <2>10, <2>11, <2>12, LookStep, Zenon
<1>8. CASE Then(u, <<On("lock", n), On("erase", n), On("unlock", n)>>)
  <2>1. PICK a, b, c : a = On("lock", n) /\ b = On("erase", n) /\ c = On("unlock", n)
    BY Zenon
  <2>2. a.op = "lock" /\ b.op = "erase" /\ b.name = n /\ c.op = "unlock"
    BY <2>1 DEF On
  <2>3. PICK w : w = <<a, b, c>>
    BY Zenon
  <2>4. w = todo'[u] /\ \A t \in Threads : t # u => todo'[t] = todo[t]
    <3>1. Then(u, <<a, b, c>>) /\ Tail(todo[u]) = <<>>
      BY <1>1, <1>3, <1>8, <2>1
    <3>2. todo'[u] = <<a, b, c>> /\ \A t \in Threads : t # u => todo'[t] = todo[t]
      BY <1>0, <3>1, ThreeIs
    <3> QED
      BY <2>3, <3>2
  <2>5. /\ w # <<>> /\ Head(w) = a /\ Tail(w) # <<>> /\ Head(Tail(w)) = b
        /\ Tail(Tail(w)) = <<c>> /\ Unlocks(<<c>>)
    <3>1. Tail(w) = <<b, c>>
      BY <2>3
    <3>2. w # <<>> /\ Head(w) = a
      BY <2>3
    <3>3. Tail(w) # <<>> /\ Head(Tail(w)) = b /\ Tail(Tail(w)) = <<c>>
      <4>1. PICK v : v = <<b, c>>
        BY Zenon
      <4>2. v # <<>> /\ Head(v) = b /\ Tail(v) = <<c>>
        BY <4>1
      <4> QED
        BY <3>1, <4>1, <4>2, Zenon
    <3>4. Unlocks(<<c>>)
      BY <2>2 DEF Unlocks
    <3> QED
      BY <3>2, <3>3, <3>4
  <2>6. LooseRow(u, Head(w), Tail(w))
    BY <1>3, <2>2, <2>5, Zenon DEF LooseRow
  <2>7. Row(u, w)
    BY <2>5, <2>6, Zenon DEF Row
  <2>8. UNCHANGED <<topics, object, requesters, mishap>>
    BY <1>0
  <2> QED
    BY <1>6, <2>4, <2>7, <2>8, QuietRow, Zenon
<1> QED
  BY <1>1, <1>7, <1>8, Zenon DEF Unsubscribe

\* unsubscribe() of a destructor: the reader it finds is its own, so it does
\* not ask for the mutex.
LEMMA OwnUnsubscribe ==
  ASSUME Disciplined, DInv, IInv', NEW u \in Threads, Unsubscribe(u),
         NEW s \in Names, Mine(u, s), BusyRow(u, s, Head(todo[u]), Tail(todo[u]))
  PROVE  DInv'
<1>0. /\ Doing(u, "unsubscribe") /\ todo[u] # <<>> /\ IInv
      /\ UNCHANGED <<topics, object, requesters, work, mishap>>
  BY Zenon DEF Unsubscribe, Doing, DInv
<1>1. PICK h, r, n : h = Head(todo[u]) /\ r = Tail(todo[u]) /\ n = h.name
  BY Zenon
<1>2. h.op = "unsubscribe" /\ h.op \notin EntityOps
  BY <1>0, <1>1 DEF Doing, EntityOps
<1>3. UnsubscribeRow(s, n, r) /\ m_requesterBackendMap[s] = 0
  BY <1>1, <1>2, BusyMeans, Zenon
<1>4. \A q \in Names : Working(u, q, todo[u]) => q = s
  BY <1>1, <1>2, Zenon DEF Working, BusyRow, Concerns
<1>5. PICK i \in Ids : n = ReaderTopic(object[i]) /\ Leaving(s, i) /\ Finishes(r, i, s)
  BY <1>3, Zenon DEF UnsubscribeRow
<1>6. object[i].name = s /\ object[i].reader = "open" /\ object[i].kind \in Services
  BY <1>5 DEF Leaving, Whole, Services
<1>7. i \in ReadersOn(n)
  BY <1>5, <1>6, Zenon DEF ReadersOn
<1>8. ASSUME NEW k \in ReadersOn(n), Then(u, <<Do("delete", k, "reader")>>) PROVE DInv'
  <2>1. k \in Ids /\ object[k].reader = "open" /\ ReaderTopic(object[i]) = ReaderTopic(object[k])
    BY <1>5, <1>8, Zenon DEF ReadersOn
  <2>2. object[i].reader # "deleted" /\ object[k].reader # "deleted"
    BY <1>6, <2>1
  <2>3. k = i
    BY <1>6, <2>1, <2>2, OneReader, Zenon DEF DInv
  <2>4. DeleteRow(u, s, i, "reader", r)
    BY <1>5, Zenon DEF DeleteRow
  <2>5. BusyRow(u, s, Do("delete", i, "reader"), r)
    BY <1>3, <1>6, <2>4, BusyIf, Zenon
  <2>6. PICK w : w = todo'[u]
    BY Zenon
  <2>7. /\ w # <<>> /\ Head(w) = Do("delete", k, "reader") /\ Tail(w) = r
        /\ \A t \in Threads : t # u => todo'[t] = todo[t]
    BY <1>0, <1>1, <1>8, <2>6, ThenIs, Zenon
  <2>8. BusyRow(u, s, Head(w), Tail(w))
    BY <2>3, <2>5, <2>7, Zenon
  <2> QED
    BY <1>0, <1>4, <2>6, <2>7, <2>8, LookStep, Zenon
<1> QED
  BY <1>1, <1>7, <1>8, Zenon DEF Unsubscribe

\* unsubscribe() finds a reader to delete, or goes on to the map.
LEMMA UnsubscribeKeeps == ASSUME Disciplined, DInv, NEW u \in Threads, Unsubscribe(u) PROVE DInv'
<1>0. Doing(u, "unsubscribe") /\ todo[u] # <<>> /\ IInv
  BY Zenon DEF Unsubscribe, Doing, DInv
<1>1. IInv'
  BY <1>0, LookupStep, Zenon
<1>2. \A s : ~ RestRow(u, s, Head(todo[u]), Tail(todo[u]))
  BY <1>0 DEF Doing, RestRow
<1> QED
  BY <1>0, <1>1, <1>2, PlainUnsubscribe, OwnUnsubscribe, Zenon DEF DInv, Rows, Row

-----------------------------------------------------------------------------
(* Steps that change an object. *)

\* The rules of BusyIf, which hold after a step too.
BusyRules ==
  \A t, s, r : m_requesterBackendMap[s] = 0 =>
    /\ \A i \in Ids : object[i].name = s =>
         /\ \A end : TopicRow(s, i, end, r) => /\ BusyRow(t, s, Do("topic", i, end), r)
                                               /\ BusyRow(t, s, Do("endpoint", i, end), r)
         /\ \A end : GuidRow(s, i, r) => BusyRow(t, s, Do("guid", i, end), r)
         /\ \A end : ReplaceRow(s, i, r) => BusyRow(t, s, Do("replace", i, end), r)
         /\ \A end : StoreRow(s, i, r) => BusyRow(t, s, Do("store", i, end), r)
         /\ \A end : EndRow(s, i, r) => BusyRow(t, s, Do("end", i, end), r)
    /\ \A n : n[1] = s => /\ (UnsubscribeRow(s, n, r) => BusyRow(t, s, On("unsubscribe", n), r))
                          /\ (RetractRow(t, s, n, r) => BusyRow(t, s, On("retract", n), r))

\* The rules are so in every state,
LEMMA BusyAlways == BusyRules
<1> SUFFICES ASSUME NEW t, NEW s, NEW r, m_requesterBackendMap[s] = 0
             PROVE  /\ \A i \in Ids : object[i].name = s =>
                         /\ \A end : TopicRow(s, i, end, r) => /\ BusyRow(t, s, Do("topic", i, end), r)
                                                               /\ BusyRow(t, s, Do("endpoint", i, end), r)
                         /\ \A end : GuidRow(s, i, r) => BusyRow(t, s, Do("guid", i, end), r)
                         /\ \A end : ReplaceRow(s, i, r) => BusyRow(t, s, Do("replace", i, end), r)
                         /\ \A end : StoreRow(s, i, r) => BusyRow(t, s, Do("store", i, end), r)
                         /\ \A end : EndRow(s, i, r) => BusyRow(t, s, Do("end", i, end), r)
                    /\ \A n : n[1] = s => /\ (UnsubscribeRow(s, n, r) => BusyRow(t, s, On("unsubscribe", n), r))
                                          /\ (RetractRow(t, s, n, r) => BusyRow(t, s, On("retract", n), r))
  BY Zenon DEF BusyRules
<1> QED
  BY BusyIf, Zenon

\* and so in the next.
LEMMA BusyNext == BusyRules'
BY BusyAlways, PTL

\* A step changes object i of the name s, to o, and perhaps what is to be
\* answered.
Touches(s, i, o) ==
  /\ object[i].name = s /\ m_requesterBackendMap[s] = 0
  /\ object' = [object EXCEPT ![i] = o]
  /\ o.kind = object[i].kind /\ o.name = s /\ o.req = object[i].req /\ o.rep = object[i].rep
  /\ o.held = object[i].held /\ (o.reader # "deleted" => object[i].reader # "deleted")
  /\ UNCHANGED <<topics, requesters, mishap>>

\* What such a step leaves as it was.
LEMMA ObjectFrame ==
  ASSUME Disciplined, DInv, IInv', NEW s \in Names, NEW i \in Ids, NEW o, Touches(s, i, o)
  PROVE  /\ Ids' = Ids /\ object'[i] = o /\ \A j \in Ids : j # i => object'[j] = object[j]
         /\ m_requesterBackendMap'[s] = 0
         /\ \A j \in Ids : object[j].name = s /\ j # i /\ Settled(j) => Settled(j)'
         /\ m_requesterMutex' = m_requesterMutex
         /\ Origin' /\ Agreed' /\ Sole' /\ MapWhole' /\ mishap' = "none"
         /\ \A p \in Names : p # s => Same(p)
<1>0. /\ topics' = topics /\ mishap' = mishap /\ m_requesterBackendMap' = m_requesterBackendMap
      /\ m_requesterMutex' = m_requesterMutex /\ IInv
  BY DEF Touches, requesters, DInv
<1>a. /\ object[i].name = s /\ m_requesterBackendMap[s] = 0
      /\ object' = [object EXCEPT ![i] = o]
      /\ o.kind = object[i].kind /\ o.name = s /\ o.req = object[i].req /\ o.rep = object[i].rep
      /\ o.held = object[i].held /\ (o.reader # "deleted" => object[i].reader # "deleted")
  BY Zenon DEF Touches
<1>1. object \in Seq(Object) /\ i \in 1 .. Len(object)
  BY <1>0 DEF IInv, Base, Ids
<1>2. /\ Ids' = Ids /\ object'[i] = o /\ \A j \in Ids : j # i => object'[j] = object[j]
  BY <1>1, <1>a DEF Ids
<1>3. \A j \in Ids : /\ object'[j].name = object[j].name /\ object'[j].kind = object[j].kind
                     /\ object'[j].req = object[j].req /\ object'[j].rep = object[j].rep
                     /\ object'[j].held = object[j].held
                     /\ object'[j].reader # "deleted" => object[j].reader # "deleted"
  BY <1>2, <1>a
<1>4. Origin'
  <2>1. ASSUME NEW j \in Ids, NEW c, MadeBy(object[j], c) PROVE MadeBy(object'[j], c)
    BY <1>3, <2>1 DEF MadeBy
  <2>2. ASSUME NEW j \in Ids'
        PROVE  /\ \E t \in Threads : \E c \in Calls[t] : MadeBy(object'[j], c)
               /\ object'[j].held # Nobody => object'[j].kind \in {"publisher", "requester", "replier"}
    <3>1. j \in Ids
      BY <1>2, <2>2
    <3>2. \E t \in Threads : \E c \in Calls[t] : MadeBy(object'[j], c)
      BY <2>1, <3>1, Zenon DEF DInv, Origin
    <3>3. object[j].held # Nobody => object[j].kind \in {"publisher", "requester", "replier"}
      BY <3>1, Zenon DEF DInv, Origin
    <3> QED
      BY <1>3, <3>1, <3>2, <3>3
  <2> QED
    BY <2>2, Zenon DEF Origin
<1>5. Agreed'
  BY <1>0, Zenon DEF DInv, Agreed, Serves
<1>6. Sole'
  BY <1>2, <1>3 DEF DInv, Sole
<1>7. MapWhole'
  <2>1. ASSUME NEW q \in Names, NEW j \in Ids, m_requesterBackendMap[q] = j
        PROVE  Kept(q) /\ object'[j].name = q /\ object'[j].kind = "requester" /\ Whole(j)'
    <3>1. Kept(q) /\ object[j].name = q /\ object[j].kind = "requester" /\ Whole(j)
      BY <2>1, Zenon DEF DInv, MapWhole
    <3>2. j # 0
      BY DEF Ids
    <3>3. j # i
      BY <1>a, <2>1, <3>1, <3>2
    <3>4. object'[j] = object[j]
      BY <1>2, <3>3
    <3> QED
      BY <3>1, <3>4, Zenon DEF Whole
  <2> QED
    BY <1>0, <1>2, <2>1, Zenon DEF MapWhole
<1>8. \A q \in Names : q # s => Same(q)
  <2>1. ASSUME NEW q \in Names, q # s, NEW j \in Ids, object[j].name = q
        PROVE  object'[j] = object[j]
    BY <1>2, <1>a, <2>1
  <2>2. ASSUME NEW q \in Names, q # s PROVE Same(q)
    <3>1. /\ Ids \subseteq Ids' /\ \A j \in Ids : object'[j].name = object[j].name
          /\ \A j \in Ids' : object'[j].name = q => j \in Ids
      BY <1>2, <1>3, Zenon
    <3>2. \A n \in TopicNames : n[1] = q => topics'[n] = topics[n]
      BY <1>0, Zenon
    <3> QED
      BY <1>0, <2>1, <2>2, <3>1, <3>2, Zenon DEF Same
  <2> QED
    BY <2>2, Zenon
<1>9. ASSUME NEW j \in Ids, object[j].name = s, j # i, Settled(j) PROVE Settled(j)'
  <2>1. object'[j] = object[j]
    BY <1>2, <1>9, <1>a, Zenon
  <2>3. (Whole(j) => Whole(j)') /\ (Gone(j) => Gone(j)') /\ (Withdrawn(j) => Withdrawn(j)')
    BY <2>1, Zenon DEF Whole, Gone, Withdrawn
  <2> QED
    BY <1>0, <1>9, <2>1, <2>3, Zenon DEF Settled
<1> QED
  BY <1>0, <1>2, <1>4, <1>5, <1>6, <1>7, <1>8, <1>9, <1>a DEF DInv

\* The part of it that the rows speak of.
LEMMA ObjectNow ==
  ASSUME Disciplined, DInv, IInv', NEW s \in Names, NEW i \in Ids, NEW o, Touches(s, i, o)
  PROVE  /\ Ids' = Ids /\ object'[i] = o /\ m_requesterBackendMap'[s] = 0
         /\ (CalmBut(s, i) => CalmBut(s, i)') /\ m_requesterMutex' = m_requesterMutex
         /\ \A j \in Ids : j # i => object'[j] = object[j]
         /\ \A j \in Ids : object[j].name = s /\ j # i /\ Settled(j) => Settled(j)'
<1>1. /\ Ids' = Ids /\ object'[i] = o /\ m_requesterBackendMap'[s] = 0
      /\ m_requesterMutex' = m_requesterMutex
      /\ \A j \in Ids : j # i => object'[j] = object[j]
      /\ \A j \in Ids : object[j].name = s /\ j # i /\ Settled(j) => Settled(j)'
  BY ObjectFrame, Zenon
<1>2. \A j \in Ids : j # i => object'[j].name = object[j].name
  BY <1>1
<1>3. CalmBut(s, i) => CalmBut(s, i)'
  BY <1>1, <1>2, Zenon DEF CalmBut
<1> QED
  BY <1>1, <1>3

\* A step of thread u, which may work on s and on nothing else.
Takes(u, s) == /\ Mine(u, s)
               /\ \A q \in Names : Working(u, q, todo[u]) => q = s
               /\ \A t \in Threads : t # u => todo'[t] = todo[t]

\* It goes on working on s, or leaves it settled.
Ahead(u, s) == \/ todo'[u] # <<>> /\ BusyRow(u, s, Head(todo[u]), Tail(todo[u]))'
               \/ Row(u, todo[u])' /\ CalmBut(s, 0)'

\* Then the invariant is kept if nothing else was disturbed.
LEMMA NameStep ==
  ASSUME Disciplined, DInv, IInv', NEW u \in Threads, NEW s \in Names, Takes(u, s), Ahead(u, s),
         \A q \in Names : q # s => Same(q),
         m_requesterMutex' = m_requesterMutex,
         Origin', Agreed', Sole', MapWhole', mishap' = "none"
  PROVE  DInv'
<1>1. /\ Mine(u, s) /\ Mine(u, s)' /\ \A q \in Names : Working(u, q, todo[u]) => q = s
      /\ \A t \in Threads : t # u => todo'[t] = todo[t]
  BY Zenon DEF Takes, Mine
<1>2. Row(u, todo[u])' /\ (CalmBut(s, 0)' \/ Working(u, s, todo[u])')
  BY <1>1, Zenon DEF Ahead, Row, Working
<1>3. Rows' /\ Calm'
  BY <1>1, <1>2, LocalStep, Zenon
<1> QED
  BY <1>3 DEF DInv

\* In particular one that touches an object.
LEMMA ObjectStep ==
  ASSUME Disciplined, DInv, IInv', NEW u \in Threads, NEW s \in Names, Takes(u, s), Ahead(u, s),
         NEW i \in Ids, NEW o, Touches(s, i, o)
  PROVE  DInv'
<1>1. /\ m_requesterMutex' = m_requesterMutex
      /\ Origin' /\ Agreed' /\ Sole' /\ MapWhole' /\ mishap' = "none"
      /\ \A p \in Names : p # s => Same(p)
  BY ObjectFrame, Zenon
<1> QED
  BY <1>1, NameStep, Zenon

\* When the one object that was not settled is settled, all are.
LEMMA CalmAllNext ==
  ASSUME NEW s, NEW i \in Ids', CalmBut(s, i)', Settled(i)'
  PROVE  CalmBut(s, 0)'
BY Zenon DEF CalmBut

\* After its last step on s a thread is outside, or at the unlock.
LEMMA LeavesNext ==
  ASSUME NEW u, NEW s, NEW r, Mine(u, s), m_requesterMutex' = m_requesterMutex, Leaves(r, s)
  PROVE  Row(u, r)'
<1>1. CASE Kept(s)
  BY <1>1, Zenon DEF Mine, Leaves, Unlocks, Row, LooseRow
<1>2. CASE ~ Kept(s)
  BY <1>2, Zenon DEF Mine, Leaves, Row
<1> QED
  BY <1>1, <1>2

\* The constructor goes on with the guid, or is at its end.
LEMMA WriterMade ==
  ASSUME Disciplined, DInv, NEW s, NEW u, NEW r, NEW i \in Ids, object[i].name = s,
         TopicRow(s, i, "writer", r), Mine(u, s), m_requesterMutex' = m_requesterMutex,
         NEW o, o.kind = object[i].kind, o.name = s, o.live = object[i].live,
         o.reader = object[i].reader, o.writer = "open",
         i \in Ids', object'[i] = o, CalmBut(s, i)', m_requesterBackendMap'[s] = 0
  PROVE  \/ r # <<>> /\ BusyRow(u, s, Head(r), Tail(r))'
         \/ Row(u, r)' /\ CalmBut(s, 0)'
<1>1. /\ ToWrite(i)
      /\ IF object[i].kind = "publisher" THEN r = <<>> ELSE Asks(r, i, s)
  BY DEF TopicRow
<1>2. object'[i].live /\ object'[i].reader = "none" /\ object'[i].writer = "open"
      /\ object'[i].name = s /\ object'[i].kind = object[i].kind /\ object[i].kind # "callback"
  BY <1>1, Zenon DEF ToWrite
<1>3. CASE object[i].kind = "publisher"
  <2>1. Settled(i)'
    BY <1>2, <1>3 DEF Settled
  <2>2. ~ Kept(s)
    BY <1>3, NotKept
  <2>3. Leaves(r, s)
    BY <1>1, <1>3, <2>2, Zenon DEF Leaves
  <2> QED
    BY <2>1, <2>3, CalmAllNext, LeavesNext, Zenon
<1>4. CASE object[i].kind # "publisher"
  <2>1. object[i].kind \in Services
    BY <1>2, <1>4, Typed DEF Services
  <2>2. ToRead(i)'
    BY <1>2, <1>4 DEF ToRead
  <2>3. r # <<>> /\ Head(r) = Do("guid", i, "writer") /\ Replaces(Tail(r), i, s)
    BY <1>1, <1>4, Zenon DEF Asks, Follows
  <2>4. GuidRow(s, i, Tail(r))'
    BY <1>2, <2>1, <2>2, <2>3 DEF GuidRow
  <2>5. BusyRow(u, s, Do("guid", i, "writer"), Tail(r))'
    BY <1>2, <2>4, BusyNext, Zenon DEF BusyRules
  <2> QED
    BY <2>3, <2>5
<1> QED
  BY <1>3, <1>4

\* The object is complete; one of request() is still to be kept.
LEMMA ReaderMade ==
  ASSUME Disciplined, DInv, NEW s, NEW u, NEW r, NEW i \in Ids, object[i].name = s,
         TopicRow(s, i, "reader", r), Mine(u, s), m_requesterMutex' = m_requesterMutex,
         NEW o, o.kind = object[i].kind, o.name = s, o.live = object[i].live,
         o.writer = object[i].writer, o.reader = "open",
         i \in Ids', object'[i] = o, CalmBut(s, i)', m_requesterBackendMap'[s] = 0
  PROVE  \/ r # <<>> /\ BusyRow(u, s, Head(r), Tail(r))'
         \/ Row(u, r)' /\ CalmBut(s, 0)'
<1>1. ToRead(i) /\ Stores(r, i, s)
  BY DEF TopicRow
<1>2. object'[i].live /\ object'[i].reader = "open"
      /\ object'[i].writer = (IF object[i].kind = "callback" THEN "none" ELSE "open")
      /\ object'[i].name = s /\ object'[i].kind = object[i].kind /\ object[i].kind # "publisher"
  BY <1>1, Zenon DEF ToRead
<1>3. CASE Kept(s)
  <2>1. object[i].kind = "requester"
    BY <1>3, KindRules, Zenon DEF DInv
  <2>2. Whole(i)'
    BY <1>2, <2>1 DEF Whole
  <2>3. r # <<>> /\ Head(r) = Do("store", i, "writer") /\ Sends(Tail(r), i, s)
    BY <1>1, <1>3, Zenon DEF Stores, Follows
  <2>4. StoreRow(s, i, Tail(r))'
    BY <1>2, <1>3, <2>1, <2>2, <2>3 DEF StoreRow
  <2>5. BusyRow(u, s, Do("store", i, "writer"), Tail(r))'
    BY <1>2, <2>4, BusyNext, Zenon DEF BusyRules
  <2> QED
    BY <2>3, <2>5
<1>4. CASE ~ Kept(s)
  <2>1. Leaves(r, s)
    BY <1>1, <1>4, Zenon DEF Leaves, Stores
  <2>2. object[i].kind \in {"callback", "requester", "replier", "provider"}
    BY <1>2, Typed
  <2>3. object[i].kind # "callback" => Whole(i)'
    BY <1>2 DEF Whole
  <2>4. Settled(i)'
    BY <1>2, <1>4, <2>2, <2>3 DEF Settled
  <2> QED
    BY <2>1, <2>4, CalmAllNext, LeavesNext, Zenon
<1> QED
  BY <1>3, <1>4

\* An endpoint is made of a topic that fits.
LEMMA CreateEndpointKeeps ==
  ASSUME Disciplined, DInv, NEW u \in Threads, CreateEndpoint(u) PROVE DInv'
<1>0. /\ Doing(u, "endpoint") /\ todo[u] # <<>> /\ IInv /\ Then(u, <<>>)
      /\ UNCHANGED <<topics, requesters, work, mishap>>
      /\ Becomes(It(u), Head(todo[u]).end, "open")
  BY Zenon DEF CreateEndpoint, Doing, DInv
<1>1. IInv'
  BY <1>0, StepInv, Zenon DEF Next, Advance
<1>2. PICK i, end, r : i = It(u) /\ end = Head(todo[u]).end /\ r = Tail(todo[u])
  BY Zenon
<1>3. "endpoint" \in EntityOps \ {"send"} /\ "endpoint" \in {"topic", "endpoint"}
  BY DEF EntityOps
<1>4. PICK s \in Names :
        /\ Mine(u, s) /\ m_requesterBackendMap[s] = 0
        /\ i \in Ids /\ object[i].name = s /\ end \in Ends
        /\ \A q \in Names : Working(u, q, todo[u]) => q = s
        /\ TopicRow(s, i, end, r)
  BY <1>0, <1>2, <1>3, AtObject, Zenon
<1>5. PICK o : o = [object[i] EXCEPT ![end] = "open"]
  BY Zenon
<1>6. object' = [object EXCEPT ![i] = o]
  BY <1>0, <1>2, <1>5 DEF Becomes
<1>7. /\ o.kind = object[i].kind /\ o.name = s /\ o.req = object[i].req /\ o.rep = object[i].rep
      /\ o.held = object[i].held /\ o.live = object[i].live
      /\ (end = "reader" => o.reader = "open" /\ o.writer = object[i].writer)
      /\ (end = "writer" => o.writer = "open" /\ o.reader = object[i].reader)
  <2>1. object[i] \in Object
    BY <1>4, Typed, Zenon
  <2> QED
    BY <1>4, <1>5, <2>1 DEF Object, Ends
<1>8. object[i].reader = "none" /\ CalmBut(s, i)
  BY <1>4 DEF TopicRow, ToWrite, ToRead
<1>9. Touches(s, i, o) /\ m_requesterMutex' = m_requesterMutex
  BY <1>0, <1>4, <1>6, <1>7, <1>8, Zenon DEF Touches, requesters
<1>10. /\ Ids' = Ids /\ object'[i] = o /\ m_requesterBackendMap'[s] = 0
       /\ CalmBut(s, i)'
  <2>1. i \in Ids /\ Touches(s, i, o)
    BY <1>4, <1>9, Zenon
  <2>2. /\ Ids' = Ids /\ object'[i] = o /\ m_requesterBackendMap'[s] = 0
        /\ (CalmBut(s, i) => CalmBut(s, i)')
    BY <1>1, <2>1, ObjectNow, Zenon
  <2> QED
    BY <1>8, <2>2, Zenon
<1>11. r = todo'[u] /\ \A t \in Threads : t # u => todo'[t] = todo[t]
  BY <1>0, <1>2, ThenIs, Zenon
<1>12. \/ r # <<>> /\ BusyRow(u, s, Head(r), Tail(r))'
       \/ Row(u, r)' /\ CalmBut(s, 0)'
  <2>0. i \in Ids'
    BY <1>4, <1>10
  <2>1. CASE end = "writer"
    BY <1>4, <1>7, <1>9, <1>10, <2>0, <2>1, WriterMade, Zenon
  <2>2. CASE end = "reader"
    BY <1>4, <1>7, <1>9, <1>10, <2>0, <2>2, ReaderMade, Zenon
  <2> QED
    BY <1>4, <2>1, <2>2, Zenon DEF Ends
<1>13. Takes(u, s) /\ Ahead(u, s)
  BY <1>4, <1>11, <1>12 DEF Takes, Ahead
<1> QED
  BY <1>1, <1>4, <1>9, <1>13, ObjectStep, Zenon
=============================================================================
