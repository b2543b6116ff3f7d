------------------------- MODULE ParticipantObjects -------------------------
(***************************************************************************)
(* The invariant of ParticipantDiscipline under the steps that delete       *)
(* endpoints, end objects, make topics and change the map of requesters.    *)
(***************************************************************************)
EXTENDS ParticipantDiscipline

(* Endpoints that are deleted, objects that end, and new topics. *)

\* The reader of a subscription goes, for unsubscribe() or for doSubscribe().
LEMMA CallbackDeleted ==
  ASSUME Disciplined, DInv, IInv', NEW s \in Names, NEW u \in Threads, NEW r, Mine(u, s),
         NEW i \in Ids, NEW o, Touches(s, i, o), ~ Kept(s),
         object[i].kind = "callback", object[i].reader = "open",
         o.writer = object[i].writer, o.live = object[i].live, o.reader = "deleted",
         (r = <<>> /\ CalmBut(s, 0)) \/ \E j \in Ids : SwapRow(s, j, r)
  PROVE  \/ r # <<>> /\ BusyRow(u, s, Head(r), Tail(r))'
         \/ Row(u, r)' /\ CalmBut(s, 0)'
<1>1. object[i].name = s /\ o.kind = "callback" /\ o.name = s
  BY Zenon DEF Touches
<1>2. /\ Ids' = Ids /\ object'[i] = o /\ m_requesterBackendMap'[s] = 0
      /\ (CalmBut(s, i) => CalmBut(s, i)') /\ m_requesterMutex' = m_requesterMutex
  BY ObjectNow, Zenon
<1>3. \A j \in Ids : j # i => object'[j] = object[j]
  BY ObjectNow, Zenon
<1>4. \A j \in Ids : object[j].name = s /\ j # i /\ Settled(j) => Settled(j)'
  BY ObjectNow, Zenon
<1>5. ASSUME Settled(i) PROVE Settled(i)'
  <2>1. object[i].live /\ object[i].writer = "none"
    BY <1>5 DEF Settled
  <2> QED
    BY <1>1, <1>2, <2>1, Zenon DEF Settled
<1>6. i # 0 /\ i \in Ids'
  BY <1>2 DEF Ids
<1>7. CASE r = <<>> /\ CalmBut(s, 0)
  <2>1. Settled(i) /\ CalmBut(s, i)
    <3>1. \A j \in Ids : j # 0
      BY DEF Ids
    <3> QED
      BY <1>1, <1>7, <3>1, Zenon DEF CalmBut
  <2>2. CalmBut(s, 0)'
    BY <1>2, <1>5, <1>6, <2>1, CalmAllNext, Zenon
  <2>3. Row(u, r)'
    BY <1>2, <1>7, LeavesNext, Zenon DEF Leaves
  <2> QED
    BY <2>2, <2>3
<1>8. ASSUME NEW j \in Ids, SwapRow(s, j, r) PROVE r # <<>> /\ BusyRow(u, s, Head(r), Tail(r))'
  <2>1. /\ object[j].name = s /\ ToRead(j) /\ CalmBut(s, j)
        /\ r # <<>> /\ Head(r) = Do("topic", j, "reader") /\ Tail(r) = <<>>
    BY <1>8, Zenon DEF SwapRow, Follows
  <2>2. j # i
    BY <2>1 DEF ToRead
  <2>3. object'[j] = object[j] /\ j \in Ids'
    BY <1>2, <1>3, <2>2, Zenon
  <2>4. ToRead(j)' /\ object'[j].name = s
    BY <2>1, <2>3, Zenon DEF ToRead
  <2>5. CalmBut(s, j)'
    <3>1. ASSUME NEW k \in Ids, object'[k].name = s, k # j PROVE Settled(k)'
      <4>1. CASE k = i
        <5>1. Settled(i)
          BY <1>1, <2>1, <2>2, Zenon DEF CalmBut
        <5> QED
          BY <1>5, <4>1, <5>1
      <4>2. CASE k # i
        <5>1. object[k].name = s
          BY <1>3, <3>1, <4>2
        <5>2. Settled(k)
          BY <2>1, <3>1, <5>1, Zenon DEF CalmBut
        <5> QED
          BY <1>4, <4>2, <5>1, <5>2, Zenon
      <4> QED
        BY <4>1, <4>2
    <3> QED
      BY <1>2, <3>1, Zenon DEF CalmBut
  <2>6. Stores(Tail(r), j, s)
    BY <2>1, Zenon DEF Stores
  <2>7. TopicRow(s, j, "reader", Tail(r))'
    BY <2>4, <2>5, <2>6, Zenon DEF TopicRow
  <2>8. BusyRow(u, s, Do("topic", j, "reader"), Tail(r))'
    BY <1>2, <2>3, <2>4, <2>7, BusyNext, Zenon DEF BusyRules
  <2> QED
    BY <2>1, <2>8
<1> QED
  BY <1>7, <1>8, Zenon

\* The reader of a service object goes, for its destructor.
LEMMA LeavingDeleted ==
  ASSUME Disciplined, DInv, IInv', NEW s \in Names, NEW u \in Threads, NEW r,
         NEW i \in Ids, NEW o, Touches(s, i, o), Leaving(s, i), Finishes(r, i, s),
         o.writer = object[i].writer, o.live = object[i].live, o.reader = "deleted"
  PROVE  r # <<>> /\ BusyRow(u, s, Head(r), Tail(r))'
<1>1. object[i].name = s /\ o.kind = object[i].kind /\ o.name = s
  BY Zenon DEF Touches
<1>2. /\ Ids' = Ids /\ object'[i] = o /\ m_requesterBackendMap'[s] = 0
      /\ (CalmBut(s, i) => CalmBut(s, i)')
  BY ObjectNow, Zenon
<1>3. /\ CalmBut(s, i) /\ object[i].kind \in {"requester", "replier"}
      /\ object[i].live /\ object[i].writer = "open"
  BY Zenon DEF Leaving, Whole
<1>4. r # <<>> /\ Head(r) = Do("end", i, "writer") /\ Leaves(Tail(r), s)
  BY Zenon DEF Finishes, Follows
<1>5. EndRow(s, i, Tail(r))'
  BY <1>1, <1>2, <1>3, <1>4, Zenon DEF EndRow
<1>6. i \in Ids' /\ object'[i].name = s
  BY <1>1, <1>2
<1>7. BusyRow(u, s, Do("end", i, "writer"), Tail(r))'
  BY <1>2, <1>5, <1>6, BusyNext, Zenon DEF BusyRules
<1> QED
  BY <1>4, <1>7

\* The reader of a provider goes, for unadvertise().
LEMMA ProviderDeaf ==
  ASSUME Disciplined, DInv, IInv', NEW s \in Names, NEW u \in Threads, NEW r,
         NEW i \in Ids, NEW o, Touches(s, i, o), object[i].kind = "provider",
         Whole(i), CalmBut(s, 0), Retracts(u, s), Withdraws(r, s),
         o.writer = object[i].writer, o.live = object[i].live, o.reader = "deleted"
  PROVE  r # <<>> /\ BusyRow(u, s, Head(r), Tail(r))'
<1>1. object[i].name = s /\ o.kind = object[i].kind /\ o.name = s
  BY Zenon DEF Touches
<1>2. /\ Ids' = Ids /\ object'[i] = o /\ m_requesterBackendMap'[s] = 0
      /\ (CalmBut(s, i) => CalmBut(s, i)')
  <2>1. Ids' = Ids
    BY ObjectNow, Zenon
  <2>2. object'[i] = o
    BY ObjectNow
  <2>3. m_requesterBackendMap'[s] = 0
    BY ObjectNow, Zenon
  <2>4. CalmBut(s, i) => CalmBut(s, i)'
    BY ObjectNow, Zenon
  <2> QED
    BY <2>1, <2>2, <2>3, <2>4, Zenon
<1>3. \A j \in Ids : j # i => object'[j] = object[j]
  BY ObjectNow, Zenon
<1>4. r # <<>> /\ Head(r) = On("retract", ReplyName(s)) /\ Tail(r) = <<>>
  BY Zenon DEF Withdraws, Follows
<1>5. CalmBut(s, i)'
  <2>1. \A j \in Ids : j # 0
    BY DEF Ids
  <2> QED
    BY <1>2, <2>1, Zenon DEF CalmBut
<1>6. \A j \in Ids : object'[j].name = object[j].name /\ object'[j].kind = object[j].kind
  BY <1>1, <1>2, <1>3
<1>8. ASSUME NEW j \in Ids, object'[j].name = s, object'[j].kind = "provider"
      PROVE  object'[j].reader = "deleted"
  <2>1. CASE j = i
    BY <1>2, <2>1, Zenon
  <2>2. CASE j # i
    <3>1. object[j].name = s /\ object[j].kind = "provider" /\ object'[j] = object[j]
      BY <1>3, <1>6, <1>8, <2>2, Zenon
    <3>2. object[i].reader # "deleted"
      BY DEF Whole
    <3>3. object[j].reader = "deleted"
      BY <1>1, <2>2, <3>1, <3>2 DEF DInv, Sole, Services
    <3> QED
      BY <3>1, <3>3
  <2> QED
    BY <2>1, <2>2
<1>9. Deaf(i, s)'
  BY <1>1, <1>2, Zenon DEF Deaf, Whole
<1>10. RetractRow(u, s, ReplyName(s), Tail(r))'
  BY <1>2, <1>4, <1>5, <1>8, <1>9, Zenon DEF RetractRow
<1>11. ReplyName(s)[1] = s
  BY NamesDiffer, Zenon
<1>12. BusyRow(u, s, On("retract", ReplyName(s)), Tail(r))'
  BY <1>2, <1>10, <1>11, BusyNext, Zenon DEF BusyRules
<1> QED
  BY <1>4, <1>12

\* And its writer.
LEMMA ProviderWithdrawn ==
  ASSUME Disciplined, DInv, IInv', NEW s \in Names, NEW u \in Threads, Mine(u, s),
         NEW i \in Ids, NEW o, Touches(s, i, o), Deaf(i, s), CalmBut(s, i),
         o.reader = object[i].reader, o.live = object[i].live, o.writer = "deleted"
  PROVE  Row(u, <<>>)' /\ CalmBut(s, 0)'
<1>1. object[i].name = s /\ o.kind = object[i].kind /\ o.name = s
  BY Zenon DEF Touches
<1>2. /\ Ids' = Ids /\ object'[i] = o /\ m_requesterMutex' = m_requesterMutex
      /\ (CalmBut(s, i) => CalmBut(s, i)')
  BY ObjectNow, Zenon
<1>3. object[i].kind = "provider" /\ object[i].live /\ object[i].reader = "deleted"
  BY Zenon DEF Deaf
<1>4. Settled(i)'
  BY <1>1, <1>2, <1>3, Zenon DEF Settled, Withdrawn
<1>5. CalmBut(s, 0)'
  BY <1>2, <1>4, CalmAllNext, Zenon
<1>6. ~ Kept(s)
  BY <1>1, <1>3, NotKept
<1> QED
  BY <1>2, <1>5, <1>6, LeavesNext, Zenon DEF Leaves

\* The endpoint that a lookup found is still there when it is deleted.
LEMMA DeleteKeeps == ASSUME Disciplined, DInv, NEW u \in Threads, Delete(u) PROVE DInv'
<1>0. /\ Doing(u, "delete") /\ todo[u] # <<>> /\ IInv /\ Then(u, <<>>)
      /\ UNCHANGED <<topics, requesters, work>>
  BY Zenon DEF Delete, Doing, DInv
<1>1. IInv'
  BY <1>0, StepInv, Zenon DEF Next, Advance
<1>2. PICK i, end, r : i = It(u) /\ end = Head(todo[u]).end /\ r = Tail(todo[u])
  BY Zenon
<1>3. "delete" \in EntityOps \ {"send"}
  BY DEF EntityOps
<1>4. PICK s \in Names :
        /\ Mine(u, s) /\ m_requesterBackendMap[s] = 0
        /\ i \in Ids /\ object[i].name = s /\ end \in Ends
        /\ \A q \in Names : Working(u, q, todo[u]) => q = s
        /\ DeleteRow(u, s, i, end, r)
  BY <1>0, <1>2, <1>3, AtObject, Zenon
<1>5. object[i][end] = "open"
  BY <1>4 DEF DeleteRow, Leaving, Whole, Deaf
<1>6. Becomes(i, end, "deleted") /\ mishap' = mishap
  BY <1>2, <1>5 DEF Delete
<1>7. PICK o : o = [object[i] EXCEPT ![end] = "deleted"]
  BY Zenon
<1>8. object' = [object EXCEPT ![i] = o]
  BY <1>6, <1>7 DEF Becomes
<1>9. /\ o.kind = object[i].kind /\ o.name = s /\ o.req = object[i].req /\ o.rep = object[i].rep
      /\ o.held = object[i].held /\ o.live = object[i].live
      /\ (end = "reader" => o.reader = "deleted" /\ o.writer = object[i].writer)
      /\ (end = "writer" => o.writer = "deleted" /\ o.reader = object[i].reader)
  <2>1. object[i] \in Object
    BY <1>4, Typed, Zenon
  <2> QED
    BY <1>4, <1>7, <2>1 DEF Object, Ends
<1>10. /\ Touches(s, i, o) /\ i \in Ids /\ Mine(u, s)
       /\ m_requesterMutex' = m_requesterMutex
  BY <1>0, <1>4, <1>6, <1>8, <1>9 DEF Touches, requesters, Ends
<1>11. \/ r # <<>> /\ BusyRow(u, s, Head(r), Tail(r))'
       \/ Row(u, r)' /\ CalmBut(s, 0)'
  <2>1. CASE /\ end = "reader" /\ object[i].kind = "callback" /\ object[i].reader = "open" /\ ~ Kept(s)
             /\ (r = <<>> /\ CalmBut(s, 0)) \/ \E j \in Ids : SwapRow(s, j, r)
    BY <1>1, <1>9, <1>10, <2>1, CallbackDeleted
  <2>2. CASE end = "reader" /\ Leaving(s, i) /\ Finishes(r, i, s)
    BY <1>1, <1>9, <1>10, <2>2, LeavingDeleted
  <2>3. CASE /\ end = "reader" /\ object[i].kind = "provider" /\ Whole(i) /\ CalmBut(s, 0)
             /\ Retracts(u, s) /\ Withdraws(r, s)
    BY <1>1, <1>9, <1>10, <2>3, ProviderDeaf
  <2>4. CASE end = "writer" /\ Deaf(i, s) /\ CalmBut(s, i) /\ r = <<>>
    <3>1. Row(u, <<>>)' /\ CalmBut(s, 0)'
      BY <1>1, <1>9, <1>10, <2>4, ProviderWithdrawn
    <3> QED
      BY <2>4, <3>1
  <2> QED
    BY <1>4, <2>1, <2>2, <2>3, <2>4 DEF DeleteRow
<1>12. r = todo'[u] /\ \A t \in Threads : t # u => todo'[t] = todo[t]
  BY <1>0, <1>2, ThenIs, Zenon
<1>13. Takes(u, s) /\ Ahead(u, s)
  BY <1>4, <1>11, <1>12 DEF Takes, Ahead
<1> QED
  BY <1>1, <1>10, <1>13, ObjectStep, Zenon

\* A destructor ends with the Publisher, whose writer nobody deleted before.
LEMMA EndKeeps == ASSUME Disciplined, DInv, NEW u \in Threads, End(u) PROVE DInv'
<1>0. /\ Doing(u, "end") /\ todo[u] # <<>> /\ IInv /\ Then(u, <<>>)
      /\ UNCHANGED <<topics, requesters>>
  BY Zenon DEF End, Doing, DInv
<1>1. IInv'
  BY <1>0, StepInv, Zenon DEF Next, Advance
<1>2. PICK i, end, r : i = It(u) /\ end = Head(todo[u]).end /\ r = Tail(todo[u])
  BY Zenon
<1>3. "end" \in EntityOps \ {"send"}
  BY DEF EntityOps
<1>4. PICK s \in Names :
        /\ Mine(u, s) /\ m_requesterBackendMap[s] = 0
        /\ i \in Ids /\ object[i].name = s
        /\ \A q \in Names : Working(u, q, todo[u]) => q = s
        /\ EndRow(s, i, r)
  BY <1>0, <1>2, <1>3, AtObject, Zenon
<1>5. /\ CalmBut(s, i) /\ object[i].live /\ Leaves(r, s) /\ object[i].writer # "deleted"
      /\ \/ object[i].kind = "publisher" /\ Settled(i)
         \/ /\ object[i].kind \in {"requester", "replier"}
            /\ object[i].reader = "deleted" /\ object[i].writer = "open"
  BY <1>4 DEF EndRow, Settled
<1>6. PICK y : y = IF object[i].writer = "open" THEN "deleted" ELSE object[i].writer
  BY Zenon
<1>7. PICK o : o = [object[i] EXCEPT !.live = FALSE, !.writer = y]
  BY Zenon
<1>8. object' = [object EXCEPT ![i] = o] /\ mishap' = mishap
  <2>1. object' = [object EXCEPT ![i].live = FALSE,
                                 ![i].writer = IF @ = "open" THEN "deleted" ELSE @]
    BY <1>2, Zenon DEF End
  <2>2. object \in Seq(Object) /\ i \in 1 .. Len(object) /\ object[i] \in Object
    BY <1>0, <1>4 DEF IInv, Base, Ids
  <2>3. object' = [object EXCEPT ![i] = o]
    BY <1>6, <1>7, <2>1, <2>2, Zenon DEF Object
  <2>4. mishap' = mishap
    BY <1>2, <1>5 DEF End, Doing
  <2> QED
    BY <2>3, <2>4
<1>9. /\ o.kind = object[i].kind /\ o.name = s /\ o.req = object[i].req /\ o.rep = object[i].rep
      /\ o.held = object[i].held /\ o.reader = object[i].reader /\ o.live = FALSE /\ o.writer = y
  <2>1. object[i] \in Object
    BY <1>4, Typed, Zenon
  <2> QED
    BY <1>4, <1>7, <2>1 DEF Object
<1>11. Touches(s, i, o) /\ i \in Ids /\ Mine(u, s)
  BY <1>0, <1>4, <1>8, <1>9 DEF Touches
<1>12. /\ Ids' = Ids /\ object'[i] = o /\ m_requesterMutex' = m_requesterMutex
       /\ (CalmBut(s, i) => CalmBut(s, i)')
  BY <1>1, <1>11, ObjectNow, Zenon
<1>13. Settled(i)'
  <2>1. CASE object[i].kind = "publisher" /\ Settled(i)
    BY <1>9, <1>12, <2>1 DEF Settled
  <2>2. CASE /\ object[i].kind \in {"requester", "replier"}
             /\ object[i].reader = "deleted" /\ object[i].writer = "open"
    BY <1>6, <1>9, <1>12, <2>2 DEF Settled, Gone
  <2> QED
    BY <1>5, <2>1, <2>2
<1>14. CalmBut(s, 0)'
  BY <1>5, <1>11, <1>12, <1>13, CalmAllNext, Zenon
<1>15. Row(u, r)'
  BY <1>5, <1>11, <1>12, LeavesNext, Zenon
<1>16. r = todo'[u] /\ \A t \in Threads : t # u => todo'[t] = todo[t]
  BY <1>0, <1>2, ThenIs, Zenon
<1>17. Takes(u, s) /\ Ahead(u, s)
  BY <1>4, <1>14, <1>15, <1>16 DEF Takes, Ahead
<1> QED
  BY <1>1, <1>11, <1>17, ObjectStep, Zenon

\* A topic that a service object makes has the types of all its calls.
LEMMA ServesCalls ==
  ASSUME Disciplined, DInv, NEW i \in Ids, NEW end \in Ends, NEW n, n = TopicOf(object[i], end),
         NEW t \in Threads, NEW c \in Calls[t], c.do \in ServiceDos
  PROVE  /\ n = RequestName(c.name) => TypeOn(object[i], n) = c.req /\ Asked(object[i]) = -1
         /\ n = ReplyName(c.name) => TypeOn(object[i], n) = c.rep /\ Asked(object[i]) = -1
<1>1. PICK s, k : s = object[i].name /\ k = object[i].kind
  BY Zenon
<1>2. object[i] \in Object /\ k \in {"publisher", "callback", "requester", "replier", "provider"}
  BY <1>1, Typed, Zenon
<1>3. PICK v \in Threads : \E d \in Calls[v] :
        /\ d.name = s /\ d.req = object[i].req /\ d.rep = object[i].rep
        /\ k = "replier" => d.do = "makeReplier"
        /\ k = "provider" => d.do = "provide"
        /\ k = "requester" => d.do \in {"makeRequester", "request"}
  BY <1>1, ObjectMade, Zenon DEF DInv
<1>4. PICK d \in Calls[v] :
        /\ d.name = s /\ d.req = object[i].req /\ d.rep = object[i].rep
        /\ k = "replier" => d.do = "makeReplier"
        /\ k = "provider" => d.do = "provide"
        /\ k = "requester" => d.do \in {"makeRequester", "request"}
  BY <1>3
<1>5. n \in {PlainName(s), RequestName(s), ReplyName(s)} /\ (k \notin Services => n = PlainName(s))
  <2>1. n = ReaderTopic(object[i]) \/ n = WriterTopic(object[i])
    BY Zenon DEF TopicOf
  <2>2. CASE k = "requester"
    BY <1>1, <1>2, <2>1, <2>2, TopicKinds DEF Services
  <2>3. CASE k \in {"provider", "replier"}
    BY <1>1, <1>2, <2>1, <2>3, TopicKinds DEF Services
  <2>4. CASE k \in {"publisher", "callback"}
    BY <1>1, <1>2, <2>1, <2>4, TopicKinds
  <2> QED
    BY <1>2, <2>2, <2>3, <2>4
<1>6. ASSUME n = RequestName(c.name) \/ n = ReplyName(c.name)
      PROVE  /\ c.name = s /\ k \in Services /\ c.req = object[i].req /\ c.rep = object[i].rep
             /\ Asked(object[i]) = -1
  <2>1. c.name = s /\ k \in Services
    <3>1. PICK a : a = c.name
      BY Zenon
    <3>2. /\ PlainName(s) # RequestName(a) /\ PlainName(s) # ReplyName(a)
          /\ RequestName(s) # ReplyName(a) /\ RequestName(a) # ReplyName(s)
          /\ (RequestName(s) = RequestName(a) => s = a) /\ (ReplyName(s) = ReplyName(a) => s = a)
      BY NamesDiffer, Zenon
    <3> QED
      BY <1>5, <1>6, <3>1, <3>2
  <2>2. d.do \in ServiceDos
    BY <1>4, <2>1 DEF Services, ServiceDos
  <2>3. c.req = d.req /\ c.rep = d.rep
    <3>1. c.do \in ServiceDos /\ d.do \in ServiceDos /\ c.name = d.name
      BY <1>4, <2>1, <2>2
    <3> QED
      BY <3>1, Rules, Zenon
  <2>4. Asked(object[i]) = -1
    BY <1>1, <2>1 DEF Asked, Services
  <2> QED
    BY <1>4, <2>1, <2>3, <2>4
<1>7. CASE n = RequestName(c.name)
  <2>1. n = RequestName(object[i].name) /\ n # ReplyName(c.name)
    BY <1>1, <1>6, <1>7, NamesDiffer, Zenon
  <2> QED
    BY <1>6, <1>7, <2>1 DEF TypeOn
<1>8. CASE n = ReplyName(c.name)
  <2>1. n # RequestName(object[i].name) /\ n # RequestName(c.name)
    BY <1>8, NamesDiffer, Zenon
  <2> QED
    BY <1>6, <1>8, <2>1 DEF TypeOn
<1> QED
  BY <1>7, <1>8

\* Nobody took the name between find_topic() and create_topic().
LEMMA CreateTopicKeeps == ASSUME Disciplined, DInv, NEW u \in Threads, CreateTopic(u) PROVE DInv'
<1>0. /\ Doing(u, "create") /\ todo[u] # <<>> /\ IInv
      /\ UNCHANGED <<object, requesters, work, mishap>>
  BY Zenon DEF CreateTopic, Doing, DInv
<1>1. IInv'
  BY <1>0, StepInv, Zenon DEF Next, Advance
<1>2. PICK i, end, r : i = It(u) /\ end = Head(todo[u]).end /\ r = Tail(todo[u])
  BY Zenon
<1>3. "create" \in EntityOps \ {"send"}
  BY DEF EntityOps
<1>4. PICK s \in Names :
        /\ Mine(u, s) /\ m_requesterBackendMap[s] = 0
        /\ i \in Ids /\ object[i].name = s /\ end \in Ends
        /\ \A q \in Names : Working(u, q, todo[u]) => q = s
        /\ CreateRow(s, i, end, r)
  BY <1>0, <1>2, <1>3, AtObject, Zenon
<1>5. PICK n, x : n = TopicOf(object[i], end)
                  /\ x = [type |-> TypeOn(object[i], n), depth |-> Asked(object[i])]
  BY Zenon
<1>6. topics[n] = NoTopic /\ TopicRow(s, i, end, r)
  BY <1>4, <1>5, Zenon DEF CreateRow
<1>7. topics' = [topics EXCEPT ![n] = x] /\ Then(u, <<Do("endpoint", i, end)>>)
  BY <1>2, <1>5, <1>6 DEF CreateTopic
<1>8. n \in TopicNames /\ n[1] = s
  <2>1. object[i] \in Object
    BY <1>4, Typed, Zenon
  <2> QED
    BY <1>4, <1>5, <2>1, TopicName
<1>9. topics'[n] = x /\ \A m \in TopicNames : m # n => topics'[m] = topics[m]
  BY <1>0, <1>7, <1>8 DEF IInv, Base
<1>10. /\ object' = object /\ Ids' = Ids /\ mishap' = "none"
       /\ m_requesterBackendMap' = m_requesterBackendMap /\ m_requesterMutex' = m_requesterMutex
  BY <1>0 DEF requesters, Ids, DInv
<1>11. Origin' /\ Sole' /\ MapWhole'
  BY <1>10 DEF DInv, Origin, Sole, MapWhole, Whole
<1>12. Agreed'
  <2>1. ASSUME NEW t \in Threads, NEW c \in Calls[t], c.do \in ServiceDos
        PROVE  Serves(RequestName(c.name), c.req)' /\ Serves(ReplyName(c.name), c.rep)'
    <3>1. /\ n = RequestName(c.name) => TypeOn(object[i], n) = c.req /\ Asked(object[i]) = -1
          /\ n = ReplyName(c.name) => TypeOn(object[i], n) = c.rep /\ Asked(object[i]) = -1
      BY <1>4, <1>5, <2>1, ServesCalls
    <3>2. x.type = TypeOn(object[i], n) /\ x.depth = Asked(object[i])
      BY <1>5
    <3>3. Serves(RequestName(c.name), c.req) /\ Serves(ReplyName(c.name), c.rep)
      BY <2>1, Zenon DEF DInv, Agreed
    <3>4. RequestName(c.name) \in TopicNames /\ ReplyName(c.name) \in TopicNames
      <4>1. c.name \in Names
        BY CallsAssumption DEF Call
      <4> QED
        BY <4>1, Zenon DEF RequestName, ReplyName, TopicNames
    <3>5. ASSUME NEW m \in TopicNames, NEW type, Serves(m, type),
                 m = n => x.type = type /\ x.depth = -1
          PROVE  Serves(m, type)'
      BY <1>9, <3>5 DEF Serves
    <3>6. Serves(RequestName(c.name), c.req)'
      BY <3>1, <3>2, <3>3, <3>4, <3>5
    <3>7. Serves(ReplyName(c.name), c.rep)'
      BY <3>1, <3>2, <3>3, <3>4, <3>5
    <3> QED
      BY <3>6, <3>7
  <2> QED
    BY <2>1, Zenon DEF Agreed
<1>13. \A q \in Names : q # s => Same(q)
  <2>1. \A q \in Names : q # s => \A m \in TopicNames : m[1] = q => topics'[m] = topics[m]
    BY <1>8, <1>9
  <2> QED
    BY <1>10, <2>1, Zenon DEF Same
<1>14. CalmBut(s, i)'
  <2>2. ASSUME NEW j \in Ids, Settled(j) PROVE Settled(j)'
    <3>1. (Whole(j) => Whole(j)') /\ (Gone(j) => Gone(j)') /\ (Withdrawn(j) => Withdrawn(j)')
      BY <1>10, Zenon DEF Whole, Gone, Withdrawn
    <3> QED
      BY <1>10, <2>2, <3>1 DEF Settled
  <2> QED
    BY <1>6, <1>10, <2>2 DEF TopicRow, CalmBut
<1>15. TopicRow(s, i, end, r)'
  BY <1>6, <1>10, <1>14 DEF TopicRow, ToWrite, ToRead
<1>16. BusyRow(u, s, Do("endpoint", i, end), r)'
  <2>1. m_requesterBackendMap'[s] = 0 /\ i \in Ids' /\ object'[i].name = s
    BY <1>4, <1>10
  <2> QED
    BY <1>15, <2>1, BusyNext, Zenon DEF BusyRules
<1>17. PICK w : w = todo'[u]
  BY Zenon
<1>18. /\ w # <<>> /\ Head(w) = Do("endpoint", i, end) /\ Tail(w) = r
       /\ \A t \in Threads : t # u => todo'[t] = todo[t]
  BY <1>0, <1>2, <1>7, <1>17, ThenIs, Zenon
<1>19. Takes(u, s) /\ Ahead(u, s)
  <2>1. BusyRow(u, s, Head(w), Tail(w))'
    BY <1>16, <1>18, Zenon
  <2> QED
    BY <1>4, <1>17, <1>18, <2>1 DEF Takes, Ahead
<1> QED
  BY <1>1, <1>10, <1>11, <1>12, <1>13, <1>19, NameStep, Zenon

-----------------------------------------------------------------------------
(* The map of requesters. *)

\* Two steps in front of others.
LEMMA Cons2 ==
  ASSUME NEW S, NEW x, NEW y, NEW r \in Seq(S)
  PROVE  <<x, y>> \o r # <<>> /\ Head(<<x, y>> \o r) = x /\ Tail(<<x, y>> \o r) = <<y>> \o r
<1>1. PICK T : T = S \cup {x, y}
  BY Zenon
<1>2. r \in Seq(T) /\ x \in T /\ y \in T
  BY <1>1, SeqGrows, Zenon
<1>3. Tail(<<x, y>> \o r) = <<y>> \o r
  BY <1>2
<1>4. <<x, y>> \o r # <<>> /\ Head(<<x, y>> \o r) = x
  BY <1>2
<1> QED
  BY <1>3, <1>4

\* Lists of steps may be put together in either order.
LEMMA Assoc ==
  ASSUME NEW S, NEW x \in Seq(S), NEW y \in Seq(S), NEW r \in Seq(S)
  PROVE  (x \o y) \o r = x \o (y \o r)
<1>1. PICK v, w : v = (x \o y) \o r /\ w = x \o (y \o r)
  BY Zenon
<1>2. Len(v) = Len(w) /\ v \in Seq(S) /\ w \in Seq(S)
  BY <1>1
<1>3. ASSUME NEW i \in 1 .. Len(v) PROVE v[i] = w[i]
  BY <1>1
<1> QED
  BY <1>1, <1>2, <1>3

\* The steps of the destructor of a requester or a replier.
LEMMA DestructorIs ==
  ASSUME NEW i, object[i].kind # "publisher", NEW s, NEW r \in Seq(GoodSteps),
         Leaves(r, s), NEW w, w = Destructor(i) \o r, NEW m, m = ReaderTopic(object[i])
  PROVE  w # <<>> /\ Head(w) = On("unsubscribe", m) /\ Finishes(Tail(w), i, s)
<1>1. PICK x, y : x = On("unsubscribe", m) /\ y = Do("end", i, "writer")
  BY Zenon
<1>2. w = <<x, y>> \o r
  BY <1>1, Zenon DEF Destructor
<1>3. PICK v : v = <<y>> \o r
  BY Zenon
<1>4. w # <<>> /\ Head(w) = x /\ Tail(w) = v
  <2>1. /\ <<x, y>> \o r # <<>> /\ Head(<<x, y>> \o r) = x
        /\ Tail(<<x, y>> \o r) = <<y>> \o r
    BY Cons2, SMT
  <2> QED
    BY <1>2, <1>3, <2>1, Zenon
<1>5. v # <<>> /\ Head(v) = y /\ Tail(v) = r
  BY <1>3, Cons, Zenon
<1>6. Finishes(v, i, s)
  BY <1>1, <1>5, Zenon DEF Finishes, Follows
<1> QED
  BY <1>1, <1>4, <1>6, Zenon

\* A step that changes only the map's entry of s.
LEMMA MapFrame ==
  ASSUME DInv, UNCHANGED <<topics, object, m_requesterMutex, work, mishap>>,
         NEW s \in Names, NEW k, m_requesterBackendMap' = [m_requesterBackendMap EXCEPT ![s] = k],
         \A i \in Ids : k = i => /\ Kept(s) /\ object[i].name = s
                                 /\ object[i].kind = "requester" /\ Whole(i)
  PROVE  /\ m_requesterBackendMap'[s] = k /\ Ids' = Ids
         /\ \A q \in Names : q # s => Same(q)
         /\ m_requesterMutex' = m_requesterMutex
         /\ Origin' /\ Agreed' /\ Sole' /\ MapWhole' /\ mishap' = "none"
<1>1. /\ topics' = topics /\ object' = object /\ mishap' = "none" /\ Ids' = Ids
      /\ m_requesterMutex' = m_requesterMutex
  BY DEF DInv, Ids
<1>2. /\ m_requesterBackendMap'[s] = k
      /\ \A q \in Names : q # s => m_requesterBackendMap'[q] = m_requesterBackendMap[q]
  BY DEF DInv, IInv, Base
<1>3. \A q \in Names : q # s => Same(q)
  BY <1>1, <1>2, Zenon DEF Same
<1>4. Origin' /\ Sole'
  BY <1>1 DEF DInv, Origin, Sole
<1>5. Agreed'
  BY <1>1, Zenon DEF DInv, Agreed, Serves
<1>6. MapWhole'
  <2>1. \A i \in Ids : Whole(i) => Whole(i)'
    BY <1>1, Zenon DEF Whole
  <2>2. ASSUME NEW q \in Names, NEW i \in Ids, m_requesterBackendMap'[q] = i
        PROVE  Kept(q) /\ object[i].name = q /\ object[i].kind = "requester" /\ Whole(i)
    <3>1. CASE q = s
      BY <1>2, <2>2, <3>1
    <3>2. CASE q # s
      BY <1>2, <2>2, <3>2, Zenon DEF DInv, MapWhole
    <3> QED
      BY <3>1, <3>2
  <2>3. MapWhole' = \A q \in Names : \A i \in Ids' :
                      m_requesterBackendMap'[q] = i =>
                        Kept(q) /\ object'[i].name = q /\ object'[i].kind = "requester" /\ Whole(i)'
    BY Zenon DEF MapWhole
  <2> QED
    BY <1>1, <2>1, <2>2, <2>3, Zenon
<1> QED
  BY <1>1, <1>2, <1>3, <1>4, <1>5, <1>6

\* The requester that erase() destroys was the only one in use.
LEMMA EraseKept ==
  ASSUME Disciplined, DInv, NEW u \in Threads, Erase(u), NEW s \in Names, NEW j \in Ids,
         m_requesterBackendMap[s] = j, m_requesterMutex = u, Head(todo[u]).name = PlainName(s),
         Unlocks(Tail(todo[u])), \A q : ~ Working(u, q, todo[u])
  PROVE  DInv'
<1>0. /\ Doing(u, "erase") /\ todo[u] # <<>> /\ IInv
      /\ UNCHANGED <<topics, object, m_requesterMutex, work, mishap>>
  BY Zenon DEF Erase, Doing, DInv
<1>1. IInv'
  BY <1>0, StepInv, Zenon DEF Next, Advance
<1>2. PICK n, r : n = PlainName(s) /\ r = Tail(todo[u])
  BY Zenon
<1>3. n[1] = s /\ n[2] = "" /\ j # 0
  <2>1. j # 0
    BY DEF Ids
  <2> QED
    BY <1>2, <2>1, NamesDiffer, Zenon
<1>4. /\ Then(u, Destructor(j))
      /\ m_requesterBackendMap' = [m_requesterBackendMap EXCEPT ![s] = 0]
  BY <1>2, <1>3, Zenon DEF Erase
<1>5. Kept(s) /\ object[j].name = s /\ object[j].kind = "requester" /\ Whole(j)
  BY MapMeans, Zenon
<1>6. Mine(u, s) /\ Leaves(r, s)
  BY <1>2, <1>5, Zenon DEF Mine, Leaves
<1>7. CalmBut(s, 0)
  BY <1>6, CalmIfFree, Zenon
<1>8. /\ m_requesterBackendMap'[s] = 0 /\ Ids' = Ids
      /\ \A q \in Names : q # s => Same(q)
      /\ m_requesterMutex' = m_requesterMutex
      /\ Origin' /\ Agreed' /\ Sole' /\ MapWhole' /\ mishap' = "none"
  <2>1. \A i \in Ids : i # 0
    BY DEF Ids
  <2> QED
    BY <1>0, <1>4, <2>1, MapFrame, Zenon
<1>9. ASSUME NEW k \in Ids, object[k].name = s, k # j PROVE Settled(k)'
  <2>1. object[k].kind = "requester"
    BY <1>5, <1>9, KindRules, Zenon DEF DInv
  <2>2. Settled(k)
    <3>1. k # 0
      BY DEF Ids
    <3> QED
      BY <1>7, <1>9, <3>1, Zenon DEF CalmBut
  <2>3. Gone(k)
    BY <1>5, <1>9, <2>1, <2>2 DEF Settled
  <2> QED
    BY <1>0, <2>1, <2>3 DEF Settled, Gone
<1>10. Leaving(s, j)'
  <2>1. CalmBut(s, j)'
    BY <1>0, <1>8, <1>9 DEF CalmBut
  <2> QED
    BY <1>0, <1>5, <2>1 DEF Leaving, Whole
<1>11. PICK w : w = todo'[u]
  BY Zenon
<1>12. /\ w = Destructor(j) \o r /\ r \in Seq(GoodSteps)
       /\ \A t \in Threads : t # u => todo'[t] = todo[t]
  BY <1>0, <1>2, <1>4, <1>11, ThenIs, Zenon
<1>13. PICK m : m = ReaderTopic(object[j])
  BY Zenon
<1>14. w # <<>> /\ Head(w) = On("unsubscribe", m) /\ Finishes(Tail(w), j, s)
  <2>1. object[j].kind # "publisher" /\ Leaves(r, s)
    BY <1>5, <1>6
  <2>2. w = Destructor(j) \o r /\ r \in Seq(GoodSteps)
    BY <1>12
  <2> QED
    BY <1>13, <2>1, <2>2, DestructorIs, Zenon
<1>15. BusyRow(u, s, Head(w), Tail(w))'
  <2>1. UnsubscribeRow(s, m, Tail(w))'
    <3>1. j \in Ids' /\ m = ReaderTopic(object'[j])
      BY <1>0, <1>8, <1>13
    <3>2. Finishes(Tail(w), j, s)'
      BY <1>14, Zenon DEF Finishes, Leaves, Kept
    <3> QED
      BY <1>10, <3>1, <3>2, Zenon DEF UnsubscribeRow
  <2>2. m[1] = s
    <3>1. m = ReplyName(s)
      BY <1>5, <1>13, Typed, WhoReads, Zenon
    <3> QED
      BY <3>1, NamesDiffer, Zenon
  <2>3. BusyRow(u, s, On("unsubscribe", m), Tail(w))'
    BY <1>8, <2>1, <2>2, BusyNext, Zenon DEF BusyRules
  <2> QED
    BY <1>14, <2>3, Zenon
<1>16. Takes(u, s) /\ Ahead(u, s)
  BY <1>6, <1>11, <1>12, <1>14, <1>15, Zenon DEF Takes, Ahead
<1> QED
  BY <1>1, <1>8, <1>16, NameStep, Zenon

\* erase() takes a requester out of the map, or finds none.
LEMMA EraseKeeps == ASSUME Disciplined, DInv, NEW u \in Threads, Erase(u) PROVE DInv'
<1>0. Doing(u, "erase") /\ todo[u] # <<>> /\ IInv
  BY Zenon DEF Erase, Doing, DInv
<1>1. IInv'
  BY <1>0, StepInv, Zenon DEF Next, Advance
<1>2. PICK h, r : h = Head(todo[u]) /\ r = Tail(todo[u])
  BY Zenon
<1>3. h.op = "erase" /\ LooseRow(u, h, r) /\ \A q : ~ Working(u, q, todo[u])
  <2>1. "erase" \in {"send", "stop", "lock", "unlock", "erase", "backend"}
    OBVIOUS
  <2>2. "erase" \notin {"send", "stop"}
    OBVIOUS
  <2> QED
    BY <1>0, <1>2, <2>1, <2>2, AtRest, Zenon DEF Doing
<1>4. Named(u, h.name) /\ m_requesterMutex = u /\ Unlocks(r)
  BY <1>3 DEF LooseRow
<1>5. PICK s \in Names : h.name = PlainName(s) /\ h.name[1] = s
  <2>1. PICK n : n = h.name
    BY Zenon
  <2>2. \E s \in Names : n = PlainName(s) /\ n[1] = s
    <3>1. Named(u, n)
      BY <1>4, <2>1
    <3> QED
      BY <3>1, NamedIn, Zenon
  <2> QED
    BY <2>1, <2>2, Zenon
<1>6. m_requesterBackendMap[s] \in Ids \cup {0}
  BY MapMeans, Zenon
<1>7. CASE m_requesterBackendMap[s] \in Ids
  <2>1. PICK j \in Ids : m_requesterBackendMap[s] = j
    BY <1>7, Zenon
  <2> QED
    BY <1>2, <1>3, <1>4, <1>5, <2>1, EraseKept, Zenon
<1>8. CASE m_requesterBackendMap[s] = 0
  <2>1. /\ Then(u, <<>>) /\ m_requesterBackendMap' = m_requesterBackendMap
        /\ UNCHANGED <<topics, object, m_requesterMutex, work, mishap>>
    BY <1>2, <1>5, <1>8, Zenon DEF Erase
  <2>2. UNCHANGED <<topics, object, requesters, mishap>>
    BY <2>1 DEF requesters
  <2>3. todo'[u] = r /\ \A t \in Threads : t # u => todo'[t] = todo[t]
    BY <1>0, <1>2, <2>1, ThenIs, Zenon
  <2>4. Row(u, r)
    BY <1>4, Zenon DEF Unlocks, Row, LooseRow
  <2> QED
    BY <1>1, <1>3, <2>2, <2>3, <2>4, QuietRow, Zenon
<1> QED
  BY <1>6, <1>7, <1>8, Zenon

\* A requester is put into the map when it is whole and the others are gone.
LEMMA StoreKeeps == ASSUME Disciplined, DInv, NEW u \in Threads, Store(u) PROVE DInv'
<1>0. /\ Doing(u, "store") /\ todo[u] # <<>> /\ IInv
      /\ UNCHANGED <<topics, object, m_requesterMutex, work, mishap>>
  BY Zenon DEF Store, Doing, DInv
<1>1. IInv'
  BY <1>0, StepInv, Zenon DEF Next, Advance
<1>2. PICK i, end, r : i = It(u) /\ end = Head(todo[u]).end /\ r = Tail(todo[u])
  BY Zenon
<1>3. PICK s \in Names :
        /\ Mine(u, s) /\ m_requesterBackendMap[s] = 0 /\ i \in Ids /\ object[i].name = s
        /\ \A q \in Names : Working(u, q, todo[u]) => q = s
        /\ StoreRow(s, i, r)
  <2>1. "store" \in EntityOps \ {"send"}
    BY DEF EntityOps
  <2> QED
    BY <1>0, <1>2, <2>1, AtObject, Zenon
<1>4. /\ Then(u, <<>>) /\ m_requesterBackendMap' = [m_requesterBackendMap EXCEPT ![s] = i]
  BY <1>2, <1>3 DEF Store
<1>5. /\ CalmBut(s, i) /\ Whole(i) /\ Kept(s) /\ object[i].kind = "requester" /\ Sends(r, i, s)
  BY <1>3, Zenon DEF StoreRow
<1>6. /\ m_requesterBackendMap'[s] = i /\ Ids' = Ids
      /\ \A q \in Names : q # s => Same(q)
      /\ m_requesterMutex' = m_requesterMutex
      /\ Origin' /\ Agreed' /\ Sole' /\ MapWhole' /\ mishap' = "none"
  <2>1. \A k \in Ids : i = k => /\ Kept(s) /\ object[k].name = s
                                /\ object[k].kind = "requester" /\ Whole(k)
    BY <1>3, <1>5, Zenon
  <2> QED
    BY <1>0, <1>4, <2>1, MapFrame, Zenon
<1>7. todo'[u] = r /\ \A t \in Threads : t # u => todo'[t] = todo[t]
  BY <1>0, <1>2, <1>4, ThenIs, Zenon
<1>8. ASSUME NEW k \in Ids, object[k].name = s PROVE Settled(k)'
  <2>1. object[k].kind = "requester"
    BY <1>5, <1>8, KindRules, Zenon DEF DInv
  <2>2. CASE k = i
    BY <1>0, <1>5, <1>6, <1>8, <2>1, <2>2 DEF Settled, Whole
  <2>3. CASE k # i
    <3>1. Settled(k)
      BY <1>5, <1>8, <2>3, Zenon DEF CalmBut
    <3>2. m_requesterBackendMap[s] # k
      BY <1>3 DEF Ids
    <3>3. Gone(k)
      BY <1>5, <1>8, <2>1, <3>1, <3>2 DEF Settled
    <3> QED
      BY <1>0, <2>1, <3>3 DEF Settled, Gone
  <2> QED
    BY <2>2, <2>3, Zenon
<1>9. CalmBut(s, 0)'
  BY <1>0, <1>6, <1>8, Zenon DEF CalmBut
<1>10. Row(u, r)'
  <2>1. PICK x : x = Do("send", i, "writer")
    BY Zenon
  <2>2. x.op = "send" /\ x.id = i /\ "send" \in EntityOps
    BY <2>1 DEF Do, EntityOps
  <2>3. r # <<>> /\ Head(r) = x /\ Leaves(Tail(r), s)
    BY <1>5, <2>1, Zenon DEF Sends, Follows
  <2>4. Concerns(x, s)'
    BY <1>0, <1>3, <1>6, <2>2, Zenon DEF Concerns
  <2>5. object'[i].writer # "deleted"
    BY <1>0, <1>5 DEF Whole
  <2>6. RestRow(u, s, x, Tail(r))'
    BY <2>2, <2>3, <2>4, <2>5, Zenon DEF RestRow, Leaves, Kept
  <2>7. Mine(u, s)'
    BY <1>3, <1>6, Zenon DEF Mine, Kept
  <2> QED
    BY <2>3, <2>6, <2>7, Zenon DEF Row
<1>11. Takes(u, s) /\ Ahead(u, s)
  BY <1>3, <1>7, <1>9, <1>10, Zenon DEF Takes, Ahead
<1> QED
  BY <1>1, <1>6, <1>11, NameStep, Zenon

-----------------------------------------------------------------------------
(* New objects. *)

\* An object of s is added, which a call asks for.
Adds(s, o) ==
  /\ o \in Object /\ o.name = s /\ o.live /\ o.reader = "none" /\ o.writer = "none"
  /\ object' = Append(object, o)
  /\ UNCHANGED <<topics, requesters, mishap>>
  /\ \E t \in Threads : \E c \in Calls[t] : MadeBy(o, c)
  /\ o.held # Nobody => o.kind \in {"publisher", "requester", "replier"}
  /\ o.kind \in Services => \A j \in Ids : object[j].name = s /\ object[j].kind = o.kind
                                             => object[j].reader = "deleted"

\* The objects that were there stay.
LEMMA AddIds ==
  ASSUME DInv, NEW s, NEW o, Adds(s, o), NEW n, n = Len(object) + 1
  PROVE  /\ Ids \subseteq Ids' /\ n \in Ids' /\ n \notin Ids /\ n # 0
         /\ \A j \in Ids' : j = n \/ j \in Ids
         /\ object'[n] = o
         /\ \A j \in Ids : object'[j] = object[j]
         /\ topics' = topics /\ mishap' = "none" /\ m_requesterMutex' = m_requesterMutex
         /\ m_requesterBackendMap' = m_requesterBackendMap
<1>1. object \in Seq(Object)
  BY DEF DInv, IInv, Base
<1>2. object' = Append(object, o) /\ o \in Object
  BY Zenon DEF Adds
<1>3. Len(object') = Len(object) + 1 /\ Len(object) \in Nat
  BY <1>1, <1>2
<1>4. /\ Ids \subseteq Ids' /\ n \in Ids' /\ n \notin Ids /\ n # 0
      /\ \A j \in Ids' : j = n \/ j \in Ids
  BY <1>3 DEF Ids
<1>5. object'[n] = o /\ \A j \in Ids : object'[j] = object[j]
  BY <1>1, <1>2 DEF Ids
<1>7. /\ topics' = topics /\ mishap' = "none" /\ m_requesterMutex' = m_requesterMutex
      /\ m_requesterBackendMap' = m_requesterBackendMap
  BY DEF Adds, requesters, DInv
<1> QED
  BY <1>4, <1>5, <1>7

\* Those of s stay settled.
LEMMA AddCalm ==
  ASSUME DInv, NEW s, NEW o, Adds(s, o), NEW n, n = Len(object) + 1, CalmBut(s, 0)
  PROVE  CalmBut(s, n)'
<1>1. /\ n \notin Ids /\ \A j \in Ids' : j = n \/ j \in Ids
      /\ \A j \in Ids : object'[j] = object[j]
      /\ topics' = topics /\ m_requesterBackendMap' = m_requesterBackendMap
  BY AddIds, Zenon
<1>2. ASSUME NEW j \in Ids, Settled(j) PROVE Settled(j)'
  <2>1. object'[j] = object[j]
    BY <1>1, Zenon
  <2>3. (Whole(j) => Whole(j)') /\ (Gone(j) => Gone(j)') /\ (Withdrawn(j) => Withdrawn(j)')
    BY <2>1, Zenon DEF Whole, Gone, Withdrawn
  <2> QED
    BY <1>1, <1>2, <2>1, <2>3, Zenon DEF Settled
<1>3. ASSUME NEW j \in Ids', object'[j].name = s, j # n PROVE Settled(j)'
  <2>1. j \in Ids /\ object[j].name = s
    BY <1>1, <1>3, Zenon
  <2>2. j # 0
    BY <2>1 DEF Ids
  <2> QED
    BY <1>2, <2>1, <2>2, Zenon DEF CalmBut
<1> QED
  BY <1>3, Zenon DEF CalmBut

\* What is said of all objects is true of the new one.
LEMMA AddFrame ==
  ASSUME Disciplined, DInv, NEW s \in Names, NEW o, Adds(s, o), NEW n, n = Len(object) + 1
  PROVE  /\ m_requesterMutex' = m_requesterMutex
         /\ Origin' /\ Agreed' /\ Sole' /\ MapWhole' /\ mishap' = "none"
         /\ \A q \in Names : q # s => Same(q)
<1>1. /\ Ids \subseteq Ids' /\ n \in Ids' /\ n \notin Ids
      /\ \A j \in Ids' : j = n \/ j \in Ids
      /\ object'[n] = o
      /\ \A j \in Ids : object'[j] = object[j]
      /\ topics' = topics /\ mishap' = "none" /\ m_requesterMutex' = m_requesterMutex
      /\ m_requesterBackendMap' = m_requesterBackendMap
  BY AddIds, Zenon
<1>2. Origin'
  <2>1. ASSUME NEW j \in Ids'
        PROVE  /\ \E t \in Threads : \E c \in Calls[t] : MadeBy(object'[j], c)
               /\ object'[j].held # Nobody => object'[j].kind \in {"publisher", "requester", "replier"}
    <3>1. CASE j = n
      <4>1. object'[j] = o
        BY <1>1, <3>1
      <4>2. /\ \E t \in Threads : \E c \in Calls[t] : MadeBy(o, c)
            /\ o.held # Nobody => o.kind \in {"publisher", "requester", "replier"}
        BY Zenon DEF Adds
      <4> QED
        BY <4>1, <4>2, Zenon
    <3>2. CASE j \in Ids
      BY <1>1, <3>2, Zenon DEF DInv, Origin
    <3> QED
      BY <1>1, <3>1, <3>2, Zenon
  <2> QED
    BY <2>1, Zenon DEF Origin
<1>3. Agreed'
  BY <1>1, Zenon DEF DInv, Agreed, Serves
<1>4. Sole'
  <2>1. /\ o.name = s
        /\ o.kind \in Services => \A j \in Ids : object[j].name = s /\ object[j].kind = o.kind
                                                   => object[j].reader = "deleted"
    BY Zenon DEF Adds
  <2>2. ASSUME NEW i \in Ids', NEW j \in Ids', i # j, object'[i].name = object'[j].name,
               object'[i].kind = object'[j].kind, object'[i].kind \in Services
        PROVE  object'[i].reader = "deleted" \/ object'[j].reader = "deleted"
    <3>1. CASE i \in Ids /\ j \in Ids
      <4>1. object'[i] = object[i] /\ object'[j] = object[j]
        BY <1>1, <3>1, Zenon
      <4> QED
        BY <2>2, <3>1, <4>1 DEF DInv, Sole
    <3>2. CASE i = n /\ j \in Ids
      <4>1. object'[i] = o /\ object'[j] = object[j]
        BY <1>1, <3>2, Zenon
      <4> QED
        BY <2>1, <2>2, <3>2, <4>1
    <3>3. CASE i \in Ids /\ j = n
      <4>1. object'[i] = object[i] /\ object'[j] = o
        BY <1>1, <3>3, Zenon
      <4> QED
        BY <2>1, <2>2, <3>3, <4>1
    <3> QED
      BY <1>1, <2>2, <3>1, <3>2, <3>3, Zenon
  <2> QED
    BY <2>2, Zenon DEF Sole
<1>5. MapWhole'
  <2>1. ASSUME NEW q \in Names, NEW i \in Ids', m_requesterBackendMap[q] = i
        PROVE  Kept(q) /\ object'[i].name = q /\ object'[i].kind = "requester" /\ Whole(i)'
    <3>1. m_requesterBackendMap[q] \in Ids \cup {0}
      BY MapMeans, Zenon
    <3>2. i \in Ids
      <4>1. i # 0
        BY <2>1 DEF Ids
      <4> QED
        BY <2>1, <3>1, <4>1
    <3>3. Kept(q) /\ object[i].name = q /\ object[i].kind = "requester" /\ Whole(i)
      BY <2>1, <3>2, MapMeans, Zenon
    <3>4. object'[i] = object[i]
      BY <1>1, <3>2, Zenon
    <3> QED
      BY <3>3, <3>4, Zenon DEF Whole
  <2> QED
    BY <1>1, <2>1, Zenon DEF MapWhole
<1>6. ASSUME NEW q \in Names, q # s PROVE Same(q)
  <2>1. \A i \in Ids' : object'[i].name = q => i \in Ids
    <3>1. object'[n].name = s
      BY <1>1 DEF Adds
    <3> QED
      BY <1>1, <1>6, <3>1, Zenon
  <2>2. Same(q)
    <3>1. \A i \in Ids : object'[i] = object[i]
      BY <1>1, Zenon
    <3>2. \A i \in Ids : object'[i].name = object[i].name
      BY <3>1
    <3>3. \A m \in TopicNames : m[1] = q => topics'[m] = topics[m]
      BY <1>1, Zenon
    <3> QED
      BY <1>1, <2>1, <3>1, <3>2, <3>3, Zenon DEF Same
  <2> QED
    BY <2>2
<1> QED
  BY <1>1, <1>2, <1>3, <1>4, <1>5, <1>6, Zenon

\* The steps of the constructor of a service's backend, and those behind it.
LEMMA ServiceList ==
  ASSUME NEW kind, kind # "publisher", kind # "callback", NEW i, NEW s, NEW S,
         NEW r \in Seq(S), Stores(r, i, s), NEW w, w = Constructor(kind, i) \o r
  PROVE  w # <<>> /\ Head(w) = Do("topic", i, "writer") /\ Asks(Tail(w), i, s)
<1>1. PICK a, b, c, d : /\ a = Do("topic", i, "writer") /\ b = Do("guid", i, "writer")
                        /\ c = Do("replace", i, "reader") /\ d = Do("topic", i, "reader")
  BY Zenon
<1>2. PICK T : T = S \cup {a, b, c, d}
  BY Zenon
<1>3. r \in Seq(T) /\ a \in T /\ b \in T /\ c \in T /\ d \in T
  BY <1>2, SeqGrows, Zenon
<1>4. PICK x, y, z : x = <<a>> /\ y = <<b>> /\ z = <<c, d>>
  BY Zenon
<1>5. x \in Seq(T) /\ y \in Seq(T) /\ z \in Seq(T) /\ x \o y \in Seq(T) /\ z \o r \in Seq(T)
  BY <1>3, <1>4, Lists, Zenon
<1>6. w = ((x \o y) \o z) \o r
  BY <1>1, <1>4, Zenon DEF Constructor, Advertising, Subscribing
<1>7. PICK p, q, v : p = z \o r /\ q = y \o p /\ v = <<d>> \o r
  BY Zenon
<1>8. w = x \o q
  <2>0. PICK e : e = x \o y
    BY Zenon
  <2>1. (e \o z) \o r = e \o (z \o r)
    <3>1. e \in Seq(T) /\ z \in Seq(T) /\ r \in Seq(T)
      BY <1>3, <1>5, <2>0, Zenon
    <3> QED
      BY <3>1, Assoc, SMTT(20)
  <2>2. (x \o y) \o p = x \o (y \o p)
    <3>1. x \in Seq(T) /\ y \in Seq(T) /\ p \in Seq(T)
      BY <1>5, <1>7, Zenon
    <3> QED
      BY <3>1, Assoc, SMTT(20)
  <2> QED
    BY <1>6, <1>7, <2>0, <2>1, <2>2, Zenon
<1>9. p \in Seq(T) /\ q \in Seq(T)
  BY <1>5, <1>7, Lists, Zenon
<1>10. w # <<>> /\ Head(w) = a /\ Tail(w) = q
  BY <1>4, <1>8, <1>9, Cons, Zenon
<1>11. q # <<>> /\ Head(q) = b /\ Tail(q) = p
  BY <1>4, <1>7, <1>9, Cons, Zenon
<1>12. p # <<>> /\ Head(p) = c /\ Tail(p) = v
  <2>1. /\ <<c, d>> \o r # <<>> /\ Head(<<c, d>> \o r) = c
        /\ Tail(<<c, d>> \o r) = <<d>> \o r
    BY <1>3, Cons2, SMT
  <2> QED
    BY <1>4, <1>7, <2>1, Zenon
<1>13. v # <<>> /\ Head(v) = d /\ Tail(v) = r
  BY <1>3, <1>7, Cons, Zenon
<1>14. Subscribes(v, i, s)
  BY <1>1, <1>13, Zenon DEF Subscribes, Follows
<1>15. Replaces(p, i, s)
  BY <1>1, <1>12, <1>14, Zenon DEF Replaces, Follows
<1>16. Asks(q, i, s)
  BY <1>1, <1>11, <1>15, Zenon DEF Asks, Follows
<1> QED
  BY <1>1, <1>10, <1>16, Zenon

\* What the thread that added the object goes on with.
LEMMA AddService ==
  ASSUME Disciplined, DInv, IInv', NEW u \in Threads, NEW s \in Names, Takes(u, s),
         NEW o, Adds(s, o), o.kind # "publisher", o.kind # "callback", CalmBut(s, 0),
         m_requesterBackendMap[s] = 0, NEW n, n = Len(object) + 1,
         NEW w, w = todo'[u], w # <<>>, Head(w) = Do("topic", n, "writer"), Asks(Tail(w), n, s)
  PROVE  DInv'
<1>1. /\ n \in Ids' /\ object'[n] = o /\ m_requesterBackendMap' = m_requesterBackendMap
  BY AddIds, Zenon
<1>2. CalmBut(s, n)'
  BY AddCalm, Zenon
<1>3. /\ o.name = s /\ o.live /\ o.reader = "none" /\ o.writer = "none"
  BY Zenon DEF Adds
<1>4. ToWrite(n)'
  BY <1>1, <1>3 DEF ToWrite
<1>5. Asks(Tail(w), n, s)'
  BY Zenon DEF Asks, Replaces, Subscribes, Stores, Sends, Leaves, Kept
<1>6. object'[n].kind # "publisher" /\ object'[n].name = s /\ m_requesterBackendMap'[s] = 0
  BY <1>1, <1>3, Zenon
<1>7. TopicRow(s, n, "writer", Tail(w))'
  BY <1>2, <1>4, <1>5, <1>6, Zenon DEF TopicRow
<1>8. BusyRow(u, s, Head(w), Tail(w))'
  <2>1. BusyRow(u, s, Do("topic", n, "writer"), Tail(w))'
    BY <1>1, <1>6, <1>7, BusyNext, Zenon DEF BusyRules
  <2> QED
    BY <2>1, Zenon
<1>9. Ahead(u, s)
  BY <1>8, Zenon DEF Ahead
<1>10. /\ m_requesterMutex' = m_requesterMutex
       /\ Origin' /\ Agreed' /\ Sole' /\ MapWhole' /\ mishap' = "none"
       /\ \A q \in Names : q # s => Same(q)
  BY AddFrame, Zenon
<1> QED
  BY <1>9, <1>10, NameStep, Zenon

\* request() with a requester in the map: it has the types of the call.
LEMMA BackendFound ==
  ASSUME Disciplined, DInv, NEW u \in Threads, Backend(u), NEW h, NEW r, h = Head(todo[u]),
         r = Tail(todo[u]), NEW c \in Calls[u], c.do = "request", h.name = c.name,
         h.req = c.req, h.rep = c.rep, NEW s \in Names, c.name = s, m_requesterMutex = u,
         Unlocks(r), \A q : ~ Working(u, q, todo[u]), NEW j \in Ids, m_requesterBackendMap[s] = j
  PROVE  DInv'
<1>0. Doing(u, "backend") /\ todo[u] # <<>> /\ IInv /\ Origin
  BY Zenon DEF Backend, Doing, DInv
<1>1. IInv'
  BY <1>0, StepInv, Zenon DEF Next, Advance
<1>2. Kept(s) /\ object[j].name = s /\ object[j].kind = "requester" /\ Whole(j)
  BY MapMeans, Zenon
<1>3. object[j].req = c.req /\ object[j].rep = c.rep
  <2>1. PICK t \in Threads : \E d \in Calls[t] :
          /\ d.name = object[j].name /\ d.req = object[j].req /\ d.rep = object[j].rep
          /\ object[j].kind = "requester" => d.do \in {"makeRequester", "request"}
    BY <1>0, ObjectMade, Zenon
  <2>2. PICK d \in Calls[t] :
          /\ d.name = object[j].name /\ d.req = object[j].req /\ d.rep = object[j].rep
          /\ object[j].kind = "requester" => d.do \in {"makeRequester", "request"}
    BY <2>1, Zenon
  <2>3. d.do \in ServiceDos /\ c.do \in ServiceDos /\ c.name = d.name
    BY <1>2, <2>2 DEF ServiceDos
  <2>4. c.req = d.req /\ c.rep = d.rep
    BY <2>3, Rules, Zenon
  <2> QED
    BY <2>2, <2>4
<1>4. j # 0
  BY DEF Ids
<1>5. PICK x : x = Do("send", j, "writer")
  BY Zenon
<1>6. Then(u, <<x>>) /\ UNCHANGED <<topics, object, requesters, work, mishap>>
  BY <1>3, <1>4, <1>5 DEF Backend
<1>7. PICK w : w = todo'[u]
  BY Zenon
<1>8. /\ w # <<>> /\ Head(w) = x /\ Tail(w) = r
      /\ \A t \in Threads : t # u => todo'[t] = todo[t]
  BY <1>0, <1>6, <1>7, ThenIs, Zenon
<1>9. Mine(u, s) /\ Leaves(r, s)
  BY <1>2, Zenon DEF Mine, Leaves
<1>10. RestRow(u, s, x, r)
  <2>1. x.op = "send" /\ x.id = j /\ "send" \in EntityOps
    BY <1>5 DEF Do, EntityOps
  <2>2. object[j].writer # "deleted"
    BY <1>2 DEF Whole
  <2>3. Concerns(x, s)
    BY <1>2, <2>1, Zenon DEF Concerns
  <2> QED
    BY <1>9, <2>1, <2>2, <2>3, Zenon DEF RestRow
<1>11. Row(u, w)
  BY <1>8, <1>9, <1>10, Zenon DEF Row
<1>12. UNCHANGED <<topics, object, requesters, mishap>>
  BY <1>6
<1> QED
  BY <1>1, <1>7, <1>8, <1>11, <1>12, QuietRow, Zenon

\* The steps of request() that make a requester.
Regroups(k, m, r) == (k \o m) \o r = k \o (m \o r) /\ \E T : m \o r \in Seq(T)

\* The steps of a request() that makes its requester.
LEMMA RequestList ==
  ASSUME NEW n, NEW S, NEW r \in Seq(S), NEW x, NEW y
  PROVE  Regroups(Constructor("requester", n), <<x, y>>, r)
<1>1. PICK a, b, d, e : /\ a = Do("topic", n, "writer") /\ b = Do("guid", n, "writer")
                        /\ d = Do("replace", n, "reader") /\ e = Do("topic", n, "reader")
  BY Zenon
<1>2. PICK T : T = S \cup {a, b, d, e, x, y}
  BY Zenon
<1>3. /\ r \in Seq(T) /\ a \in T /\ b \in T /\ d \in T /\ e \in T /\ x \in T /\ y \in T
  <2>1. S \subseteq T /\ a \in T /\ b \in T /\ d \in T /\ e \in T /\ x \in T /\ y \in T
    BY <1>2
  <2> QED
    BY <2>1, SeqGrows, Zenon
<1>4. PICK k, m : k = Constructor("requester", n) /\ m = <<x, y>>
  BY Zenon
<1>5. k = (<<a>> \o <<b>>) \o <<d, e>>
  BY <1>1, <1>4, Zenon DEF Constructor, Advertising, Subscribing
<1>6. k \in Seq(T) /\ m \in Seq(T)
  <2>1. <<a>> \in Seq(T) /\ <<b>> \in Seq(T) /\ <<d, e>> \in Seq(T) /\ <<x, y>> \in Seq(T)
    BY <1>3, Lists, Zenon
  <2>2. <<a>> \o <<b>> \in Seq(T)
    BY <2>1, Lists, Zenon
  <2>3. (<<a>> \o <<b>>) \o <<d, e>> \in Seq(T)
    BY <2>1, <2>2, Lists, Zenon
  <2> QED
    BY <1>4, <1>5, <2>1, <2>3, Zenon
<1>7. (k \o m) \o r = k \o (m \o r) /\ m \o r \in Seq(T)
  <2>1. r \in Seq(T)
    BY <1>3
  <2>2. (k \o m) \o r = k \o (m \o r)
    BY <1>6, <2>1, Assoc, SMTT(20)
  <2> QED
    BY <1>6, <2>1, <2>2, Lists, Zenon
<1> QED
  BY <1>4, <1>7, Zenon DEF Regroups

\* request() without one.
LEMMA BackendMade ==
  ASSUME Disciplined, DInv, NEW u \in Threads, Backend(u), NEW h, NEW r, h = Head(todo[u]),
         r = Tail(todo[u]), NEW c \in Calls[u], c.do = "request", h.name = c.name,
         h.req = c.req, h.rep = c.rep, NEW s \in Names, c.name = s, m_requesterMutex = u,
         Unlocks(r), \A q : ~ Working(u, q, todo[u]), m_requesterBackendMap[s] = 0
  PROVE  DInv'
<1>0. Doing(u, "backend") /\ todo[u] # <<>> /\ IInv
  BY Zenon DEF Backend, Doing, DInv
<1>1. IInv'
  BY <1>0, StepInv, Zenon DEF Next, Advance
<1>2. PICK n, o, x, y : /\ n = Len(object) + 1
                        /\ o = New("requester", s, c.req, c.rep, -1, Nobody)
                        /\ x = Do("store", n, "writer") /\ y = Do("send", n, "writer")
  BY Zenon
<1>3. /\ object' = Append(object, o)
      /\ Then(u, Constructor("requester", n) \o <<x, y>>)
      /\ UNCHANGED <<topics, requesters, mishap>>
  BY <1>2 DEF Backend
<1>4. Kept(s) /\ Mine(u, s) /\ Leaves(r, s) /\ CalmBut(s, 0)
  <2>1. Kept(s)
    BY Zenon DEF Kept
  <2>2. Mine(u, s) /\ Leaves(r, s)
    BY <2>1, Zenon DEF Mine, Leaves
  <2> QED
    BY <2>1, <2>2, CalmIfFree, Zenon
<1>5. /\ o \in Object /\ o.name = s /\ o.live /\ o.reader = "none" /\ o.writer = "none"
      /\ o.kind = "requester" /\ o.req = c.req /\ o.rep = c.rep /\ o.held = Nobody
  <2>1. c.req \in Types /\ c.rep \in Types
    BY CallsAssumption DEF Call
  <2>2. o \in Object
    BY <1>2, <2>1 DEF New, Object, Endpoint, Kinds
  <2> QED
    BY <1>2, <2>2 DEF New
<1>6. Adds(s, o)
  <2>1. MadeBy(o, c)
    BY <1>5, Zenon DEF MadeBy
  <2>2. ASSUME NEW j \in Ids, object[j].name = s, object[j].kind = "requester"
        PROVE  object[j].reader = "deleted"
    <3>1. j # 0
      BY DEF Ids
    <3>2. Settled(j)
      BY <1>4, <2>2, <3>1, Zenon DEF CalmBut
    <3> QED
      BY <1>4, <2>2, <3>1, <3>2 DEF Settled, Gone
  <2> QED
    BY <1>3, <1>5, <2>1, <2>2, Zenon DEF Adds
<1>7. PICK w, v, z : w = todo'[u] /\ z = <<x, y>> \o r /\ v = <<y>> \o r
  BY Zenon
<1>8. /\ w = (Constructor("requester", n) \o <<x, y>>) \o r /\ r \in Seq(GoodSteps)
      /\ \A t \in Threads : t # u => todo'[t] = todo[t]
  BY <1>0, <1>3, <1>7, ThenIs, Zenon
<1>9. Stores(z, n, s)
  <2>1. z # <<>> /\ Head(z) = x /\ Tail(z) = v
    <3>1. /\ <<x, y>> \o r # <<>> /\ Head(<<x, y>> \o r) = x
          /\ Tail(<<x, y>> \o r) = <<y>> \o r
      BY <1>8, Cons2, SMT
    <3> QED
      BY <1>7, <3>1, Zenon
  <2>2. v # <<>> /\ Head(v) = y /\ Tail(v) = r
    BY <1>7, <1>8, Cons, Zenon
  <2>3. Sends(v, n, s)
    BY <1>2, <1>4, <2>2, Zenon DEF Sends, Follows
  <2> QED
    BY <1>2, <1>4, <2>1, <2>3, Zenon DEF Stores, Follows
<1>10. \E T : w = Constructor("requester", n) \o z /\ z \in Seq(T)
  <2>1. r \in Seq(GoodSteps)
    BY <1>8
  <2>2. Regroups(Constructor("requester", n), <<x, y>>, r)
    BY <2>1, RequestList, Zenon
  <2> QED
    BY <1>7, <1>8, <2>2, Zenon DEF Regroups
<1>11. w # <<>> /\ Head(w) = Do("topic", n, "writer") /\ Asks(Tail(w), n, s)
  <2>1. PICK T : w = Constructor("requester", n) \o z /\ z \in Seq(T)
    BY <1>10, Zenon
  <2>2. "requester" # "publisher" /\ "requester" # "callback"
    OBVIOUS
  <2> QED
    BY <1>9, <2>1, <2>2, ServiceList, Zenon
<1>12. Takes(u, s)
  BY <1>4, <1>8, Zenon DEF Takes
<1>13. o.kind # "publisher" /\ o.kind # "callback"
  BY <1>5
<1> QED
  BY <1>1, <1>2, <1>4, <1>6, <1>7, <1>11, <1>12, <1>13, AddService, Zenon

\* request() uses the requester it finds, or makes one.
LEMMA BackendKeeps == ASSUME Disciplined, DInv, NEW u \in Threads, Backend(u) PROVE DInv'
<1>0. Doing(u, "backend") /\ todo[u] # <<>>
  BY Zenon DEF Backend, Doing
<1>1. PICK h, r : h = Head(todo[u]) /\ r = Tail(todo[u])
  BY Zenon
<1>2. h.op = "backend" /\ LooseRow(u, h, r) /\ \A q : ~ Working(u, q, todo[u])
  <2>1. "backend" \in {"send", "stop", "lock", "unlock", "erase", "backend"}
    OBVIOUS
  <2>2. "backend" \notin {"send", "stop"}
    OBVIOUS
  <2> QED
    BY <1>0, <1>1, <2>1, <2>2, AtRest, Zenon DEF Doing
<1>3. IsRequest(u, h) /\ m_requesterMutex = u /\ Unlocks(r)
  BY <1>2 DEF LooseRow
<1>4. PICK c \in Calls[u] : /\ c.do = "request" /\ h.name = c.name
                            /\ h.req = c.req /\ h.rep = c.rep
  BY <1>3, Zenon DEF IsRequest
<1>5. PICK s \in Names : c.name = s
  <2>1. c.name \in Names
    BY CallsAssumption DEF Call
  <2> QED
    BY <2>1, Zenon
<1>6. m_requesterBackendMap[s] \in Ids \cup {0}
  BY MapMeans, Zenon
<1>7. CASE m_requesterBackendMap[s] \in Ids
  <2>1. PICK j \in Ids : m_requesterBackendMap[s] = j
    BY <1>7, Zenon
  <2> QED
    BY <1>1, <1>2, <1>3, <1>4, <1>5, <2>1, BackendFound, Zenon
<1>8. CASE m_requesterBackendMap[s] = 0
  BY <1>1, <1>2, <1>3, <1>4, <1>5, <1>8, BackendMade, Zenon
<1> QED
  BY <1>6, <1>7, <1>8, Zenon
=============================================================================
