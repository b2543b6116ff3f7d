-------------------------- MODULE ParticipantProofs --------------------------
(***************************************************************************)
(* Type correctness and OneTypePerTopic for any threads, names, types and   *)
(* calls, disciplined or not.  The step that makes an endpoint comes later  *)
(* than the one that checked its topic, and steps of other threads come in  *)
(* between, so the invariant also speaks of the steps still to be taken.    *)
(***************************************************************************)
EXTENDS Participant, TLAPS

\* The topic of an object's reader or writer exists and getTopic() grants it.
Granted(i, end) == LET n == TopicOf(object[i], end) IN topics[n] # NoTopic /\ Fits(i, n)

\* Steps about existing objects; those that make an endpoint have their topic.
GoodSteps ==
  {s \in Step : /\ s.op \in EntityOps => /\ s.id \in Ids /\ s.end \in Ends
                                         /\ s.op = "endpoint" => Granted(s.id, s.end)
                /\ s.op \in NameOps => s.name \in TopicNames
                /\ s.op = "backend" => s.name \in Names /\ s.req \in Types /\ s.rep \in Types}

Todo == todo \in [Threads -> Seq(GoodSteps)]
EndsGranted == \A i \in Ids : \A end \in Ends : object[i][end] # "none" => Granted(i, end)

\* TypeOK but for the steps.
Base == /\ topics \in [TopicNames -> [type : Types, depth : Int] \cup {NoTopic}]
        /\ object \in Seq(Object)
        /\ m_requesterBackendMap \in [Names -> Ids \cup {0}]
        /\ m_requesterMutex \in Threads \cup {Nobody}
        /\ work \in Seq(Nat) /\ Len(work) = Len(object)
        /\ mishap \in Mishaps
        /\ calls \in Nat

IInv == Base /\ Todo /\ EndsGranted

-----------------------------------------------------------------------------
\* A sequence over a set is one over a larger set.
LEMMA SeqGrows ==
  ASSUME NEW G, NEW H, G \subseteq H, NEW s \in Seq(G)
  PROVE  s \in Seq(H)
<1>1. s \in [1 .. Len(s) -> G] /\ Len(s) \in Nat
  OBVIOUS
<1>2. s \in [1 .. Len(s) -> H]
  BY <1>1
<1> QED
  BY <1>1, <1>2

\* Lists of steps.
LEMMA Lists ==
  ASSUME NEW G
  PROVE  /\ <<>> \in Seq(G)
         /\ \A a \in G : <<a>> \in Seq(G)
         /\ \A a, b \in G : <<a, b>> \in Seq(G)
         /\ \A a, b, c \in G : <<a, b, c>> \in Seq(G)
         /\ \A s, u \in Seq(G) : s \o u \in Seq(G)
         /\ \A s \in Seq(G) : s # <<>> => Head(s) \in G /\ Tail(s) \in Seq(G)
OBVIOUS

\* Topics, types and depths of an object are those of its constructor.
LEMMA SameTopics ==
  ASSUME NEW o, NEW p, o.kind = p.kind, o.name = p.name, o.req = p.req, o.rep = p.rep,
         o.depth = p.depth
  PROVE  /\ \A end : TopicOf(o, end) = TopicOf(p, end)
         /\ \A n : TypeOn(o, n) = TypeOn(p, n)
         /\ Asked(o) = Asked(p)
BY Zenon DEF TopicOf, WriterTopic, ReaderTopic, TypeOn, Asked

\* They are topics, types and depths.
LEMMA TopicsType ==
  ASSUME NEW o \in Object
  PROVE  /\ \A end : TopicOf(o, end) \in TopicNames
         /\ ReaderTopic(o) \in TopicNames /\ WriterTopic(o) \in TopicNames
         /\ \A n : TypeOn(o, n) \in Types
         /\ Asked(o) \in Int
<1>1. o.name \in Names /\ o.req \in Types /\ o.rep \in Types /\ o.depth \in Int
  BY DEF Object
<1>2. ReaderTopic(o) \in TopicNames /\ WriterTopic(o) \in TopicNames
  BY <1>1 DEF ReaderTopic, WriterTopic, TopicNames, PlainName, RequestName, ReplyName
<1>3. \A end : TopicOf(o, end) \in TopicNames
  BY <1>2, Zenon DEF TopicOf
<1>4. \A n : TypeOn(o, n) \in Types
  BY <1>1, Zenon DEF TypeOn
<1>5. Asked(o) \in Int
  BY <1>1 DEF Asked
<1> QED
  BY <1>2, <1>3, <1>4, <1>5

-----------------------------------------------------------------------------
\* What no step does: change what an object was made with, or a topic.
Frame ==
  /\ Ids \subseteq Ids'
  /\ \A i \in Ids : /\ object'[i].kind = object[i].kind /\ object'[i].name = object[i].name
                    /\ object'[i].req = object[i].req /\ object'[i].rep = object[i].rep
                    /\ object'[i].depth = object[i].depth
  /\ \A n \in TopicNames : topics[n] # NoTopic => topics'[n] = topics[n]

\* So a topic that was granted stays granted, and steps stay good.
LEMMA FrameKeeps ==
  ASSUME Base, Frame
  PROVE  /\ \A i \in Ids : \A end : Granted(i, end) => Granted(i, end)'
         /\ GoodSteps \subseteq GoodSteps'
<1>1. ASSUME NEW i \in Ids, NEW end, Granted(i, end) PROVE Granted(i, end)'
  <2> DEFINE n == TopicOf(object[i], end)
  <2>1. /\ TopicOf(object'[i], end) = n
        /\ TypeOn(object'[i], n) = TypeOn(object[i], n)
        /\ Asked(object'[i]) = Asked(object[i])
    <3>1. PICK o, q : o = object[i] /\ q = object'[i]
      BY Zenon
    <3>2. /\ q.kind = o.kind /\ q.name = o.name /\ q.req = o.req /\ q.rep = o.rep
          /\ q.depth = o.depth
      BY <3>1, Zenon DEF Frame
    <3>3. /\ TopicOf(q, end) = TopicOf(o, end) /\ Asked(q) = Asked(o)
          /\ \A m : TypeOn(q, m) = TypeOn(o, m)
      BY <3>2, SameTopics, Zenon
    <3> QED
      BY <3>1, <3>3, Zenon
  <2>2. object[i] \in Object
    BY DEF Base, Ids
  <2>3. n \in TopicNames
    BY <2>2, TopicsType, Zenon
  <2>4. topics[n] # NoTopic /\ Fits(i, n)
    BY <1>1, Zenon DEF Granted
  <2>5. topics'[n] = topics[n]
    BY <2>3, <2>4, Zenon DEF Frame
  <2> HIDE DEF n
  <2> QED
    BY <2>1, <2>4, <2>5, Zenon DEF Granted, Fits
<1>2. ASSUME NEW s \in GoodSteps PROVE s \in GoodSteps'
  BY <1>1, <1>2, Zenon DEF GoodSteps, Frame
<1> QED
  BY <1>1, <1>2, Zenon

\* The first step of a thread that is about to take it.
LEMMA HeadGood ==
  ASSUME Todo, NEW t \in Threads, NEW op, Doing(t, op)
  PROVE  /\ Head(todo[t]) \in GoodSteps /\ Head(todo[t]).op = op
         /\ todo[t] \in Seq(GoodSteps) /\ todo[t] # <<>>
BY Lists DEF Todo, Doing

\* A step leaves a list of good steps if those it puts first are good.
LEMMA ThenGood ==
  ASSUME Todo, GoodSteps \subseteq GoodSteps', NEW t \in Threads, todo[t] # <<>>,
         NEW steps \in Seq(GoodSteps'), Then(t, steps)
  PROVE  Todo'
<1>1. \A u \in Threads : todo[u] \in Seq(GoodSteps)
  BY DEF Todo
<1>2. \A u \in Threads : todo[u] \in Seq(GoodSteps')
  BY <1>1, SeqGrows, Zenon
<1>3. steps \o Tail(todo[t]) \in Seq(GoodSteps')
  BY <1>2, Lists, Zenon
<1>4. todo' = [todo EXCEPT ![t] = steps \o Tail(todo[t])]
  BY DEF Then
<1> QED
  BY <1>2, <1>3, <1>4 DEF Todo

\* The same for a call that begins.
LEMMA BeginGood ==
  ASSUME Todo, GoodSteps \subseteq GoodSteps', NEW t \in Threads,
         NEW steps \in Seq(GoodSteps'), todo' = [todo EXCEPT ![t] = steps]
  PROVE  Todo'
<1>1. \A u \in Threads : todo[u] \in Seq(GoodSteps)
  BY DEF Todo
<1>2. \A u \in Threads : todo[u] \in Seq(GoodSteps')
  BY <1>1, SeqGrows, Zenon
<1> QED
  BY <1>2 DEF Todo

-----------------------------------------------------------------------------
\* A step that touches neither topics nor objects.
LEMMA Quiet ==
  ASSUME Base, EndsGranted, UNCHANGED <<topics, object>>
  PROVE  Frame /\ Ids' = Ids /\ GoodSteps' = GoodSteps /\ EndsGranted'
<1>1. topics' = topics /\ object' = object
  OBVIOUS
<1>2. Ids' = Ids
  BY <1>1 DEF Ids
<1>3. Frame
  BY <1>1, <1>2, Zenon DEF Frame
<1>4. \A i, end : Granted(i, end)' = Granted(i, end)
  BY <1>1 DEF Granted, Fits
<1>5. GoodSteps' = GoodSteps
  BY <1>2, <1>4, Zenon DEF GoodSteps
<1>6. EndsGranted'
  BY <1>1, <1>2, <1>4, Zenon DEF EndsGranted
<1> QED
  BY <1>2, <1>3, <1>5, <1>6

\* A step that changes one object: making an endpoint needs the topic.
LEMMA ObjectSet ==
  ASSUME Base, EndsGranted, NEW i \in Ids, NEW o \in Object,
         o.kind = object[i].kind, o.name = object[i].name, o.req = object[i].req,
         o.rep = object[i].rep, o.depth = object[i].depth,
         \A e \in Ends : o[e] # "none" => object[i][e] # "none" \/ Granted(i, e),
         object' = [object EXCEPT ![i] = o], UNCHANGED topics
  PROVE  Frame /\ Ids' = Ids /\ object' \in Seq(Object) /\ Len(object') = Len(object)
         /\ EndsGranted'
<1>0. object \in Seq(Object) /\ i \in 1 .. Len(object)
  BY DEF Base, Ids
<1>1. /\ object' \in Seq(Object) /\ Len(object') = Len(object)
      /\ object'[i] = o /\ \A j \in 1 .. Len(object) : j # i => object'[j] = object[j]
  BY <1>0
<1>2. Ids' = Ids
  BY <1>1, Zenon DEF Ids
<1>3. Frame
  BY <1>1, <1>2, Zenon DEF Frame, Ids
<1>4. ASSUME NEW j \in Ids, NEW e \in Ends, object'[j][e] # "none" PROVE Granted(j, e)
  BY <1>1, <1>4, Zenon DEF EndsGranted, Ids
<1>5. EndsGranted'
  BY <1>2, <1>3, <1>4, FrameKeeps, Zenon DEF EndsGranted
<1> QED
  BY <1>1, <1>2, <1>3, <1>5

\* In particular one that gives an endpoint another state.
LEMMA EndpointSet ==
  ASSUME Base, EndsGranted, NEW i \in Ids, NEW end \in Ends, NEW state \in Endpoint,
         Becomes(i, end, state), UNCHANGED topics,
         object[i][end] # "none" \/ Granted(i, end)
  PROVE  Frame /\ Ids' = Ids /\ object' \in Seq(Object) /\ Len(object') = Len(object)
         /\ EndsGranted'
<1>0. object[i] \in Object
  BY DEF Base, Ids
<1>1. PICK o : o = [object[i] EXCEPT ![end] = state]
  BY Zenon
<1>2. object' = [object EXCEPT ![i] = o]
  BY <1>1 DEF Becomes
<1>3. /\ o \in Object
      /\ o.kind = object[i].kind /\ o.name = object[i].name /\ o.req = object[i].req
      /\ o.rep = object[i].rep /\ o.depth = object[i].depth
      /\ \A e \in Ends : o[e] = IF e = end THEN state ELSE object[i][e]
  BY <1>0, <1>1 DEF Object, Ends, Endpoint
<1> QED
  BY <1>2, <1>3, ObjectSet, Zenon

\* A step that adds an object, which has no endpoints yet.
LEMMA ObjectAdded ==
  ASSUME Base, EndsGranted, NEW o \in Object, o.reader = "none", o.writer = "none",
         object' = Append(object, o), UNCHANGED topics
  PROVE  /\ Frame /\ object' \in Seq(Object) /\ Len(object') = Len(object) + 1
         /\ Len(object) + 1 \in Ids' /\ EndsGranted'
<1>0. object \in Seq(Object) /\ Len(object) \in Nat
  BY DEF Base
<1>1. /\ object' \in Seq(Object) /\ Len(object') = Len(object) + 1
      /\ object'[Len(object) + 1] = o /\ \A j \in 1 .. Len(object) : object'[j] = object[j]
  BY <1>0
<1>2. /\ Ids \subseteq Ids' /\ Len(object) + 1 \in Ids'
      /\ \A j \in Ids' : j \in Ids \/ j = Len(object) + 1
  BY <1>0, <1>1 DEF Ids
<1>3. \A j \in Ids : object'[j] = object[j]
  BY <1>1, Zenon DEF Ids
<1>4. Frame
  BY <1>2, <1>3, Zenon DEF Frame
<1>5. ASSUME NEW j \in Ids', NEW e \in Ends, object'[j][e] # "none" PROVE Granted(j, e)'
  <2>1. o[e] = "none"
    BY DEF Ends
  <2>2. j \in Ids /\ object[j][e] # "none"
    BY <1>1, <1>2, <1>3, <1>5, <2>1, Zenon
  <2> QED
    BY <1>4, <2>2, FrameKeeps, Zenon DEF EndsGranted
<1> QED
  BY <1>1, <1>2, <1>4, <1>5, Zenon DEF EndsGranted

\* A step that makes a topic.
LEMMA TopicMade ==
  ASSUME Base, EndsGranted, NEW n \in TopicNames, topics[n] = NoTopic,
         NEW x \in [type : Types, depth : Int], topics' = [topics EXCEPT ![n] = x],
         UNCHANGED object
  PROVE  /\ Frame /\ Ids' = Ids /\ EndsGranted'
         /\ topics' \in [TopicNames -> [type : Types, depth : Int] \cup {NoTopic}]
         /\ topics'[n] = x
<1>1. object' = object
  OBVIOUS
<1>2. Ids' = Ids
  BY <1>1 DEF Ids
<1>3. /\ topics' \in [TopicNames -> [type : Types, depth : Int] \cup {NoTopic}]
      /\ topics'[n] = x /\ \A m \in TopicNames : m # n => topics'[m] = topics[m]
  BY DEF Base
<1>4. Frame
  BY <1>1, <1>2, <1>3, Zenon DEF Frame
<1>5. EndsGranted'
  BY <1>1, <1>2, <1>4, FrameKeeps, Zenon DEF EndsGranted
<1> QED
  BY <1>2, <1>3, <1>4, <1>5

\* Steps that may always be put in front.
LEMMA GoodStep ==
  ASSUME Len(object') \in Nat
  PROVE  /\ \A op \in EntityOps \ {"endpoint"} : \A i \in Ids' : \A end \in Ends :
              Do(op, i, end) \in GoodSteps'
         /\ \A i \in Ids' : \A end \in Ends :
              Granted(i, end)' => Do("endpoint", i, end) \in GoodSteps'
         /\ \A op \in NameOps : \A n \in TopicNames : On(op, n) \in GoodSteps'
<1>1. Ids' \subseteq Nat \ {0}
  BY DEF Ids
<1>2. ASSUME NEW op \in EntityOps, NEW i \in Ids', NEW end \in Ends,
             op = "endpoint" => Granted(i, end)'
      PROVE  Do(op, i, end) \in GoodSteps'
  <2>1. PICK s : s = Do(op, i, end)
    BY Zenon
  <2>2. s \in Step
    BY <1>1, <2>1 DEF Do, Step
  <2>3. s.op = op /\ s.id = i /\ s.end = end
    BY <2>1 DEF Do
  <2>4. op \notin NameOps /\ op # "backend"
    BY DEF EntityOps, NameOps
  <2> QED
    BY <1>2, <2>1, <2>2, <2>3, <2>4, Zenon DEF GoodSteps
<1>3. ASSUME NEW op \in NameOps, NEW n \in TopicNames PROVE On(op, n) \in GoodSteps'
  <2>1. PICK s : s = On(op, n)
    BY Zenon
  <2>2. s \in Step
    BY <2>1 DEF On, Step
  <2>3. s.op = op /\ s.name = n
    BY <2>1 DEF On
  <2>4. op \notin EntityOps /\ op # "backend"
    BY DEF EntityOps, NameOps
  <2> QED
    BY <2>1, <2>2, <2>3, <2>4, Zenon DEF GoodSteps
<1>4. "endpoint" \in EntityOps
  BY DEF EntityOps
<1> QED
  BY <1>2, <1>3, <1>4, Zenon

\* The steps of a constructor.
LEMMA ConstructorGood ==
  ASSUME Len(object') \in Nat, NEW i \in Ids', NEW kind
  PROVE  Constructor(kind, i) \in Seq(GoodSteps')
<1>1. /\ Do("topic", i, "writer") \in GoodSteps' /\ Do("guid", i, "writer") \in GoodSteps'
      /\ Do("replace", i, "reader") \in GoodSteps' /\ Do("topic", i, "reader") \in GoodSteps'
  <2>1. /\ {"topic", "guid", "replace"} \subseteq EntityOps \ {"endpoint"}
        /\ "reader" \in Ends /\ "writer" \in Ends
    BY DEF EntityOps, Ends
  <2> QED
    BY <2>1, GoodStep, Zenon
<1>2. /\ Advertising(i) \in Seq(GoodSteps') /\ Subscribing(i) \in Seq(GoodSteps')
      /\ <<Do("guid", i, "writer")>> \in Seq(GoodSteps')
  BY <1>1, Lists, Zenon DEF Advertising, Subscribing
<1>3. Advertising(i) \o <<Do("guid", i, "writer")>> \o Subscribing(i) \in Seq(GoodSteps')
  <2>1. Advertising(i) \o <<Do("guid", i, "writer")>> \in Seq(GoodSteps')
    BY <1>2, Lists, Zenon
  <2> QED
    BY <1>2, <2>1, Lists, Zenon
<1> QED
  BY <1>2, <1>3, Zenon DEF Constructor

\* The steps of a destructor.
LEMMA DestructorGood ==
  ASSUME Base, Ids' = Ids, Len(object') \in Nat, NEW i \in Ids
  PROVE  Destructor(i) \in Seq(GoodSteps')
<1>1. ReaderTopic(object[i]) \in TopicNames
  BY TopicsType DEF Base, Ids
<1>2. "end" \in EntityOps \ {"endpoint"} /\ "unsubscribe" \in NameOps /\ "writer" \in Ends
  BY DEF EntityOps, NameOps, Ends
<1>3. Do("end", i, "writer") \in GoodSteps'
  BY <1>2, GoodStep, Zenon
<1>4. On("unsubscribe", ReaderTopic(object[i])) \in GoodSteps'
  BY <1>1, <1>2, GoodStep, Zenon
<1> QED
  BY <1>3, <1>4, Lists, Zenon DEF Destructor

-----------------------------------------------------------------------------
\* A step of thread t that touches neither topics nor objects, and the state
\* that such steps may change.
LEMMA QuietStep ==
  ASSUME IInv, UNCHANGED <<topics, object>>, NEW t \in Threads, todo[t] # <<>>,
         NEW steps \in Seq(GoodSteps'), Then(t, steps),
         m_requesterBackendMap' \in [Names -> Ids \cup {0}],
         m_requesterMutex' \in Threads \cup {Nobody},
         work' = work, mishap' \in Mishaps, calls' = calls
  PROVE  IInv'
<1>1. Frame /\ Ids' = Ids /\ EndsGranted'
  BY Quiet, Zenon DEF IInv
<1>2. Base'
  BY <1>1 DEF IInv, Base
<1>3. GoodSteps \subseteq GoodSteps'
  BY <1>1, FrameKeeps, Zenon DEF IInv
<1>4. Todo'
  BY <1>3, ThenGood, Zenon DEF IInv
<1> QED
  BY <1>1, <1>2, <1>4, Zenon DEF IInv

\* What IInv says of the constants of a step that touches no object.
LEMMA QuietIds ==
  ASSUME IInv, UNCHANGED <<topics, object>>
  PROVE  /\ Ids' = Ids /\ Len(object') \in Nat
         /\ \A i \in Ids : \A end : Granted(i, end) => Granted(i, end)'
         /\ m_requesterBackendMap \in [Names -> Ids \cup {0}]
         /\ m_requesterMutex \in Threads \cup {Nobody} /\ mishap \in Mishaps
         /\ \A i \in Ids : object[i] \in Object
<1>1. Ids' = Ids /\ Frame
  BY Quiet, Zenon DEF IInv
<1>2. \A i \in Ids : \A end : Granted(i, end) => Granted(i, end)'
  BY <1>1, FrameKeeps, Zenon DEF IInv
<1>3. /\ Len(object') \in Nat /\ \A i \in Ids : object[i] \in Object
      /\ m_requesterBackendMap \in [Names -> Ids \cup {0}]
      /\ m_requesterMutex \in Threads \cup {Nobody} /\ mishap \in Mishaps
  BY DEF IInv, Base, Ids
<1> QED
  BY <1>1, <1>2, <1>3

\* The steps that only look something up by the name of a topic.
LEMMA LookupStep ==
  ASSUME IInv, NEW t \in Threads, Replace(t) \/ Unsubscribe(t) \/ Stop(t) \/ Retract(t)
  PROVE  IInv'
<1>0. UNCHANGED <<topics, object, requesters, work, mishap, calls>> /\ todo[t] # <<>>
  BY Zenon DEF Replace, Unsubscribe, Stop, Retract, Doing
<1>1. /\ Ids' = Ids /\ Len(object') \in Nat
      /\ m_requesterBackendMap \in [Names -> Ids \cup {0}]
      /\ m_requesterMutex \in Threads \cup {Nobody} /\ mishap \in Mishaps
  BY <1>0, QuietIds, Zenon
<1>2. ASSUME NEW steps \in Seq(GoodSteps'), Then(t, steps) PROVE IInv'
  BY <1>0, <1>1, <1>2, QuietStep, Zenon DEF requesters
<1>3. <<>> \in Seq(GoodSteps') /\ \A i \in Ids : \A end \in Ends :
                                    <<Do("delete", i, end)>> \in Seq(GoodSteps')
  <2>1. "delete" \in EntityOps \ {"endpoint"}
    BY DEF EntityOps
  <2> QED
    BY <1>1, <2>1, GoodStep, Lists, Zenon
<1>4. ASSUME NEW n \in TopicNames
      PROVE  <<On("lock", n), On("erase", n), On("unlock", n)>> \in Seq(GoodSteps')
  <2>1. {"lock", "erase", "unlock"} \subseteq NameOps
    BY DEF NameOps
  <2>2. On("lock", n) \in GoodSteps' /\ On("erase", n) \in GoodSteps' /\ On("unlock", n) \in GoodSteps'
    BY <1>1, <2>1, GoodStep, Zenon
  <2> QED
    BY <2>2, Lists, Zenon
<1>5. "reader" \in Ends /\ "writer" \in Ends
  BY DEF Ends
<1>6. \A n : ReadersOn(n) \subseteq Ids /\ WritersOn(n) \subseteq Ids
  BY Zenon DEF ReadersOn, WritersOn
<1>7. CASE Replace(t)
  BY <1>2, <1>3, <1>5, <1>6, <1>7, Zenon DEF Replace
<1>8. CASE Stop(t) \/ Retract(t)
  BY <1>2, <1>3, <1>5, <1>6, <1>8, Zenon DEF Stop, Retract
<1>9. CASE Unsubscribe(t)
  <2>1. Head(todo[t]) \in GoodSteps /\ Head(todo[t]).op = "unsubscribe"
    BY <1>9, HeadGood, Zenon DEF Unsubscribe, IInv
  <2>2. "unsubscribe" \in NameOps
    BY DEF NameOps
  <2>3. Head(todo[t]).name \in TopicNames
    BY <2>1, <2>2, Zenon DEF GoodSteps
  <2> QED
    BY <1>2, <1>3, <1>4, <1>5, <1>6, <1>9, <2>3, Zenon DEF Unsubscribe
<1> QED
  BY <1>7, <1>8, <1>9

\* The step at the head of a thread's list is about an object.
LEMMA HeadEntity ==
  ASSUME IInv, NEW t \in Threads, NEW op \in EntityOps, Doing(t, op)
  PROVE  /\ todo[t] # <<>> /\ It(t) \in Ids /\ Head(todo[t]).end \in Ends
         /\ object[It(t)] \in Object
         /\ op = "endpoint" => Granted(It(t), Head(todo[t]).end)
<1>1. Head(todo[t]) \in GoodSteps /\ Head(todo[t]).op = op /\ todo[t] # <<>>
  BY HeadGood, Zenon DEF IInv
<1>2. /\ It(t) \in Ids /\ Head(todo[t]).end \in Ends
      /\ op = "endpoint" => Granted(It(t), Head(todo[t]).end)
  BY <1>1, Zenon DEF GoodSteps, It
<1>3. object[It(t)] \in Object
  BY <1>2 DEF IInv, Base, Ids
<1> QED
  BY <1>1, <1>2, <1>3

\* find_topic() and the checks: the endpoint is made only of a topic granted.
LEMMA GetTopicStep == ASSUME IInv, NEW t \in Threads, GetTopic(t) PROVE IInv'
<1> PICK i, end : i = It(t) /\ end = Head(todo[t]).end
  BY Zenon
<1> DEFINE n == TopicOf(object[i], end)
<1>0. UNCHANGED <<topics, object, requesters, work, mishap, calls>> /\ Doing(t, "topic")
  BY Zenon DEF GetTopic
<1>1. "topic" \in EntityOps /\ "create" \in EntityOps \ {"endpoint"}
  BY DEF EntityOps
<1>2. todo[t] # <<>> /\ i \in Ids /\ end \in Ends
  BY <1>0, <1>1, HeadEntity, Zenon
<1>3. /\ Ids' = Ids /\ Len(object') \in Nat
      /\ Granted(i, end) => Granted(i, end)'
      /\ m_requesterBackendMap \in [Names -> Ids \cup {0}]
      /\ m_requesterMutex \in Threads \cup {Nobody} /\ mishap \in Mishaps
  BY <1>0, <1>2, QuietIds, Zenon
<1>4. ASSUME NEW steps \in Seq(GoodSteps'), Then(t, steps) PROVE IInv'
  BY <1>0, <1>2, <1>3, <1>4, QuietStep, Zenon DEF requesters
<1>5. <<>> \in Seq(GoodSteps') /\ <<Do("create", i, end)>> \in Seq(GoodSteps')
  BY <1>1, <1>2, <1>3, GoodStep, Lists, Zenon
<1>6. topics[n] # NoTopic /\ Fits(i, n) => <<Do("endpoint", i, end)>> \in Seq(GoodSteps')
  BY <1>2, <1>3, GoodStep, Lists, Zenon DEF Granted
<1>7. \/ Then(t, <<Do("create", i, end)>>)
      \/ topics[n] # NoTopic /\ Fits(i, n) /\ Then(t, <<Do("endpoint", i, end)>>)
      \/ Then(t, <<>>)
  BY Zenon DEF GetTopic
<1> QED
  BY <1>4, <1>5, <1>6, <1>7, Zenon

\* create_topic(): a topic made for an object is granted to it, and a topic
\* that another thread made meanwhile stays as it is.
LEMMA CreateTopicStep == ASSUME IInv, NEW t \in Threads, CreateTopic(t) PROVE IInv'
<1> PICK i, end : i = It(t) /\ end = Head(todo[t]).end
  BY Zenon
<1> DEFINE n == TopicOf(object[i], end)
           x == [type |-> TypeOn(object[i], n), depth |-> Asked(object[i])]
<1>0. UNCHANGED <<object, requesters, work, mishap, calls>> /\ Doing(t, "create")
  BY Zenon DEF CreateTopic
<1>1. "create" \in EntityOps
  BY DEF EntityOps
<1>2. todo[t] # <<>> /\ i \in Ids /\ end \in Ends /\ object[i] \in Object
  BY <1>0, <1>1, HeadEntity, Zenon
<1>3. n \in TopicNames /\ TypeOn(object[i], n) \in Types /\ Asked(object[i]) \in Int
  BY <1>2, TopicsType, Zenon
<1>4. x \in [type : Types, depth : Int] /\ x.type = TypeOn(object[i], n) /\ x.depth = Asked(object[i])
  BY <1>3
<1>5. CASE topics[n] = NoTopic
  <2>1. topics' = [topics EXCEPT ![n] = x] /\ Then(t, <<Do("endpoint", i, end)>>)
    BY <1>5, Zenon DEF CreateTopic
  <2> HIDE DEF x
  <2>2. /\ Frame /\ Ids' = Ids /\ EndsGranted' /\ topics'[n] = x
        /\ topics' \in [TopicNames -> [type : Types, depth : Int] \cup {NoTopic}]
    BY <1>0, <1>3, <1>4, <1>5, <2>1, TopicMade, Zenon DEF IInv
  <2>3. x # NoTopic
    BY <1>4, NoTopicAssumption, Zenon
  <2>4. Asked(object[i]) >= Asked(object[i])
    BY <1>3
  <2>5. object' = object
    BY <1>0
  <2>6. TopicOf(object'[i], end) = n
    BY <2>5, Zenon
  <2>7. topics'[n].type = TypeOn(object'[i], n) /\ topics'[n].depth >= Asked(object'[i])
    BY <1>4, <2>2, <2>4, <2>5, Zenon
  <2> HIDE DEF n
  <2>8. Granted(i, end)'
    BY <2>2, <2>3, <2>6, <2>7, Zenon DEF Granted, Fits
  <2>9. Len(object') \in Nat
    BY <2>5 DEF IInv, Base
  <2>10. <<Do("endpoint", i, end)>> \in Seq(GoodSteps')
    BY <1>2, <2>2, <2>8, <2>9, GoodStep, Lists, Zenon
  <2>11. Todo'
    BY <1>2, <2>1, <2>2, <2>10, FrameKeeps, ThenGood, Zenon DEF IInv
  <2>12. Base'
    BY <1>0, <2>2 DEF IInv, Base, requesters
  <2> QED
    BY <2>2, <2>11, <2>12, Zenon DEF IInv
<1>6. CASE topics[n] # NoTopic
  <2>1. UNCHANGED topics /\ Then(t, <<>>)
    BY <1>6, Zenon DEF CreateTopic
  <2>2. UNCHANGED <<topics, object>> /\ <<>> \in Seq(GoodSteps')
    BY <1>0, <2>1, Lists, Zenon
  <2>3. /\ m_requesterBackendMap \in [Names -> Ids \cup {0}]
        /\ m_requesterMutex \in Threads \cup {Nobody} /\ mishap \in Mishaps
    BY <2>2, QuietIds, Zenon
  <2> QED
    BY <1>0, <1>2, <2>1, <2>2, <2>3, QuietStep, Zenon DEF requesters
<1> QED
  BY <1>5, <1>6, Zenon

-----------------------------------------------------------------------------
\* A step that sets an endpoint and puts nothing in front.
LEMMA EndpointStep ==
  ASSUME IInv, NEW t \in Threads, todo[t] # <<>>, Then(t, <<>>),
         NEW i \in Ids, NEW end \in Ends, NEW state \in Endpoint, Becomes(i, end, state),
         object[i][end] # "none" \/ Granted(i, end),
         UNCHANGED <<topics, requesters, work, mishap, calls>>
  PROVE  IInv'
<1>1. Frame /\ Ids' = Ids /\ object' \in Seq(Object) /\ Len(object') = Len(object) /\ EndsGranted'
  BY EndpointSet, Zenon DEF IInv
<1>2. Base'
  BY <1>1 DEF IInv, Base, requesters
<1>3. <<>> \in Seq(GoodSteps')
  BY Lists, Zenon
<1>4. Todo'
  BY <1>1, <1>3, FrameKeeps, ThenGood, Zenon DEF IInv
<1> QED
  BY <1>1, <1>2, <1>4, Zenon DEF IInv

\* create_datareader(), create_datawriter() and what deletes them.
LEMMA EndpointSteps ==
  ASSUME IInv, NEW t \in Threads, CreateEndpoint(t) \/ Delete(t) PROVE IInv'
<1> DEFINE i == It(t)
           end == Head(todo[t]).end
<1>0. {"endpoint", "delete"} \subseteq EntityOps /\ {"open", "deleted"} \subseteq Endpoint
  BY DEF EntityOps, Endpoint
<1>1. CASE CreateEndpoint(t)
  <2>1. /\ Doing(t, "endpoint") /\ Then(t, <<>>) /\ Becomes(i, end, "open")
        /\ UNCHANGED <<topics, requesters, work, mishap, calls>>
    BY <1>1, Zenon DEF CreateEndpoint
  <2>2. todo[t] # <<>> /\ i \in Ids /\ end \in Ends /\ Granted(i, end)
    BY <1>0, <2>1, HeadEntity, Zenon
  <2> HIDE DEF i, end
  <2> QED
    BY <1>0, <2>1, <2>2, EndpointStep, Zenon
<1>2. CASE Delete(t)
  <2>1. /\ Doing(t, "delete") /\ Then(t, <<>>)
        /\ UNCHANGED <<topics, requesters, work, calls>>
        /\ \/ object[i][end] = "open" /\ Becomes(i, end, "deleted") /\ UNCHANGED mishap
           \/ /\ mishap' = [reader |-> "stale reader", writer |-> "stale writer"][end]
              /\ UNCHANGED object
    BY <1>2, Zenon DEF Delete
  <2>2. todo[t] # <<>> /\ i \in Ids /\ end \in Ends
    BY <1>0, <2>1, HeadEntity, Zenon
  <2> HIDE DEF i, end
  <2>3. CASE object[i][end] = "open" /\ Becomes(i, end, "deleted") /\ UNCHANGED mishap
    <3>1. object[i][end] # "none"
      BY <2>3
    <3>2. UNCHANGED <<topics, requesters, work, mishap, calls>>
      BY <2>1, <2>3
    <3> QED
      BY <1>0, <2>1, <2>2, <2>3, <3>1, <3>2, EndpointStep, Zenon
  <2>4. CASE /\ mishap' = [reader |-> "stale reader", writer |-> "stale writer"][end]
             /\ UNCHANGED object
    <3>1. mishap' \in Mishaps
      <4>1. CASE end = "reader"
        BY <2>4, <4>1 DEF Mishaps
      <4>2. CASE end = "writer"
        BY <2>4, <4>2 DEF Mishaps
      <4> QED
        BY <2>2, <4>1, <4>2 DEF Ends
    <3>2. UNCHANGED <<topics, object>> /\ <<>> \in Seq(GoodSteps')
      BY <2>1, <2>4, Lists, Zenon
    <3>3. /\ m_requesterBackendMap \in [Names -> Ids \cup {0}]
          /\ m_requesterMutex \in Threads \cup {Nobody}
      BY <3>2, QuietIds, Zenon
    <3> QED
      BY <2>1, <2>2, <3>1, <3>2, <3>3, QuietStep, Zenon DEF requesters
  <2> QED
    BY <2>1, <2>3, <2>4, Zenon
<1> QED
  BY <1>1, <1>2

\* The end of an object: its writer is deleted if it has one.
LEMMA EndStep == ASSUME IInv, NEW t \in Threads, End(t) PROVE IInv'
<1> PICK i : i = It(t)
  BY Zenon
<1>0. "end" \in EntityOps
  BY DEF EntityOps
<1>1. /\ Doing(t, "end") /\ Then(t, <<>>) /\ work' = [work EXCEPT ![i] = 0]
      /\ UNCHANGED <<topics, requesters, calls>>
      /\ mishap' = IF object[i].writer = "deleted" THEN "stale writer" ELSE "none"
      /\ object' = [object EXCEPT ![i].live = FALSE,
                                  ![i].writer = IF @ = "open" THEN "deleted" ELSE @]
  BY Zenon DEF End
<1>2. todo[t] # <<>> /\ i \in Ids /\ object[i] \in Object
  BY <1>0, <1>1, HeadEntity, Zenon
<1>3. PICK o : o = [object[i] EXCEPT !.live = FALSE,
                                     !.writer = IF @ = "open" THEN "deleted" ELSE @]
  BY Zenon
<1>4. object' = [object EXCEPT ![i] = o]
  BY <1>1, <1>2, <1>3 DEF Ids, IInv, Base
<1>5. /\ o \in Object
      /\ o.kind = object[i].kind /\ o.name = object[i].name /\ o.req = object[i].req
      /\ o.rep = object[i].rep /\ o.depth = object[i].depth
      /\ \A e \in Ends : o[e] # "none" => object[i][e] # "none"
  BY <1>2, <1>3, Zenon DEF Object, Ends, Endpoint
<1>6. Frame /\ Ids' = Ids /\ object' \in Seq(Object) /\ Len(object') = Len(object) /\ EndsGranted'
  <2>1. \A e \in Ends : o[e] # "none" => object[i][e] # "none" \/ Granted(i, e)
    BY <1>5, Zenon
  <2>2. Base /\ EndsGranted /\ UNCHANGED topics
    BY <1>1, Zenon DEF IInv
  <2> QED
    BY <1>2, <1>4, <1>5, <2>1, <2>2, ObjectSet, Zenon
<1>7. work' \in Seq(Nat) /\ Len(work') = Len(work)
  <2>1. work \in Seq(Nat) /\ i \in 1 .. Len(work)
    BY <1>2, Zenon DEF IInv, Base, Ids
  <2>2. work' = [work EXCEPT ![i] = 0]
    BY <1>1
  <2> QED
    BY <2>1, <2>2
<1>8. mishap' \in Mishaps
  BY <1>1, Zenon DEF Mishaps
<1>9. Base'
  BY <1>1, <1>6, <1>7, <1>8 DEF IInv, Base, requesters
<1>10. Todo'
  BY <1>1, <1>2, <1>6, FrameKeeps, Lists, ThenGood, Zenon DEF IInv
<1> QED
  BY <1>6, <1>9, <1>10, Zenon DEF IInv

-----------------------------------------------------------------------------
\* The mutex, the guid and the message: no step is put in front.
LEMMA PlainStep ==
  ASSUME IInv, NEW t \in Threads, Lock(t) \/ Unlock(t) \/ GetGuid(t) \/ Send(t)
  PROVE  IInv'
<1>0. /\ UNCHANGED <<topics, object>> /\ todo[t] # <<>> /\ Then(t, <<>>) /\ work' = work
      /\ m_requesterBackendMap' = m_requesterBackendMap /\ calls' = calls
  BY Zenon DEF Lock, Unlock, GetGuid, Send, Doing, requesters
<1>1. /\ m_requesterBackendMap \in [Names -> Ids \cup {0}]
      /\ m_requesterMutex \in Threads \cup {Nobody} /\ mishap \in Mishaps
  BY <1>0, QuietIds, Zenon
<1>2. m_requesterMutex' \in Threads \cup {Nobody}
  BY <1>1, Zenon DEF Lock, Unlock, GetGuid, Send, requesters
<1>3. CASE Lock(t) \/ Unlock(t) \/ Send(t)
  <2>1. mishap' \in Mishaps
    BY <1>1, <1>3, Zenon DEF Lock, Unlock, Send, Published, Mishaps
  <2> QED
    BY <1>0, <1>1, <1>2, <2>1, Lists, QuietStep, Zenon
<1>4. CASE GetGuid(t)
  <2>1. PICK w : w = object[It(t)].writer
    BY Zenon
  <2>2. w \in Endpoint
    <3>1. "guid" \in EntityOps
      BY DEF EntityOps
    <3>2. object[It(t)] \in Object
      BY <1>4, <3>1, HeadEntity, Zenon DEF GetGuid
    <3> QED
      BY <2>1, <3>2 DEF Object
  <2>3. mishap' = [none |-> "null writer", open |-> "none", deleted |-> "dead writer"][w]
    BY <1>4, <2>1, Zenon DEF GetGuid
  <2>4. w = "none" \/ w = "open" \/ w = "deleted"
    BY <2>2, Zenon DEF Endpoint
  <2>5. mishap' \in Mishaps
    <3>1. CASE w = "none"
      BY <2>3, <3>1 DEF Mishaps
    <3>2. CASE w = "open"
      BY <2>3, <3>2 DEF Mishaps
    <3>3. CASE w = "deleted"
      BY <2>3, <3>3 DEF Mishaps
    <3> QED
      BY <2>4, <3>1, <3>2, <3>3, Zenon
  <2> QED
    BY <1>0, <1>1, <1>2, <2>5, Lists, QuietStep, Zenon
<1> QED
  BY <1>3, <1>4, Zenon

\* m_requesterBackendMap loses or replaces an entry, whose destructor runs.
LEMMA MapStep == ASSUME IInv, NEW t \in Threads, Erase(t) \/ Store(t) PROVE IInv'
<1>0. /\ UNCHANGED <<topics, object, m_requesterMutex, work, mishap, calls>>
      /\ todo[t] # <<>>
  BY Zenon DEF Erase, Store, Doing
<1>1. /\ Ids' = Ids /\ Len(object') \in Nat
      /\ m_requesterBackendMap \in [Names -> Ids \cup {0}]
      /\ m_requesterMutex \in Threads \cup {Nobody} /\ mishap \in Mishaps
  BY <1>0, QuietIds, Zenon
<1>2. <<>> \in Seq(GoodSteps') /\ \A i \in Ids : Destructor(i) \in Seq(GoodSteps')
  BY <1>1, DestructorGood, Lists, Zenon DEF IInv
<1>3. ASSUME NEW steps \in Seq(GoodSteps'), Then(t, steps),
             m_requesterBackendMap' \in [Names -> Ids \cup {0}]
      PROVE  IInv'
  BY <1>0, <1>1, <1>3, QuietStep, Zenon
<1>4. CASE Erase(t)
  <2>1. PICK n : n = Head(todo[t]).name
    BY Zenon
  <2>2. n \in TopicNames
    <3>1. "erase" \in NameOps
      BY DEF NameOps
    <3>2. Head(todo[t]) \in GoodSteps /\ Head(todo[t]).op = "erase"
      BY <1>4, HeadGood, Zenon DEF Erase, IInv
    <3> QED
      BY <2>1, <3>1, <3>2, Zenon DEF GoodSteps
  <2>3. n[1] \in Names
    BY <2>2 DEF TopicNames
  <2>4. CASE n[2] = "" /\ m_requesterBackendMap[n[1]] # 0
    <3>1. /\ Then(t, Destructor(m_requesterBackendMap[n[1]]))
          /\ m_requesterBackendMap' = [m_requesterBackendMap EXCEPT ![n[1]] = 0]
      BY <1>4, <2>1, <2>4, Zenon DEF Erase
    <3>2. m_requesterBackendMap[n[1]] \in Ids
      BY <1>1, <2>3, <2>4
    <3>3. m_requesterBackendMap' \in [Names -> Ids \cup {0}]
      BY <1>1, <3>1, Zenon
    <3> QED
      BY <1>2, <1>3, <3>1, <3>2, <3>3, Zenon
  <2>5. CASE ~ (n[2] = "" /\ m_requesterBackendMap[n[1]] # 0)
    <3>1. Then(t, <<>>) /\ m_requesterBackendMap' = m_requesterBackendMap
      BY <1>4, <2>1, <2>5, Zenon DEF Erase
    <3> QED
      BY <1>1, <1>2, <1>3, <3>1, Zenon
  <2> QED
    BY <2>4, <2>5, Zenon
<1>5. CASE Store(t)
  <2>1. PICK i, s, old : i = It(t) /\ s = object[i].name /\ old = m_requesterBackendMap[s]
    BY Zenon
  <2>2. "store" \in EntityOps
    BY DEF EntityOps
  <2>3. i \in Ids /\ object[i] \in Object
    BY <1>5, <2>1, <2>2, HeadEntity, Zenon DEF Store
  <2>4. s \in Names
    BY <2>1, <2>3 DEF Object
  <2>5. /\ m_requesterBackendMap' = [m_requesterBackendMap EXCEPT ![s] = i]
        /\ Then(t, IF old = 0 THEN <<>> ELSE Destructor(old))
    BY <1>5, <2>1, Zenon DEF Store
  <2>6. old \in Ids \cup {0}
    BY <1>1, <2>1, <2>4
  <2>7. m_requesterBackendMap' \in [Names -> Ids \cup {0}]
    BY <1>1, <2>3, <2>5, Zenon
  <2> QED
    BY <1>2, <1>3, <2>5, <2>6, <2>7, Zenon
<1> QED
  BY <1>4, <1>5, Zenon

-----------------------------------------------------------------------------
\* An object under construction.
LEMMA NewObject ==
  ASSUME NEW kind \in Kinds, NEW s \in Names, NEW req \in Types, NEW rep \in Types,
         NEW depth \in Int, NEW h \in Threads \cup {Nobody}
  PROVE  /\ New(kind, s, req, rep, depth, h) \in Object
         /\ New(kind, s, req, rep, depth, h).reader = "none"
         /\ New(kind, s, req, rep, depth, h).writer = "none"
BY DEF New, Object, Endpoint

\* What remains to be shown of a step that adds an object.
LEMMA AddStep ==
  ASSUME IInv, NEW o \in Object, o.reader = "none", o.writer = "none",
         object' = Append(object, o), work' = Append(work, 0),
         UNCHANGED <<topics, requesters, mishap>>, calls' \in Nat
  PROVE  /\ Base' /\ EndsGranted' /\ GoodSteps \subseteq GoodSteps'
         /\ Len(object') \in Nat /\ Len(object) + 1 \in Ids'
<1>1. /\ Frame /\ object' \in Seq(Object) /\ Len(object') = Len(object) + 1
      /\ Len(object) + 1 \in Ids' /\ EndsGranted'
  <2>1. Base /\ EndsGranted /\ UNCHANGED topics
    BY Zenon DEF IInv
  <2> QED
    BY <2>1, ObjectAdded, Zenon
<1>2. GoodSteps \subseteq GoodSteps' /\ Ids \subseteq Ids'
  BY <1>1, FrameKeeps, Zenon DEF IInv, Frame
<1>3. work' \in Seq(Nat) /\ Len(work') = Len(object')
  <2>1. work \in Seq(Nat) /\ Len(work) = Len(object)
    BY DEF IInv, Base
  <2> QED
    BY <1>1, <2>1
<1>4. m_requesterBackendMap' \in [Names -> Ids' \cup {0}]
  <2>1. m_requesterBackendMap \in [Names -> Ids \cup {0}] /\ m_requesterBackendMap' = m_requesterBackendMap
    BY DEF IInv, Base, requesters
  <2> QED
    BY <1>2, <2>1
<1>5. Base'
  <2>1. /\ topics' = topics /\ m_requesterMutex' = m_requesterMutex /\ mishap' = mishap
    BY DEF requesters
  <2> QED
    BY <1>1, <1>3, <1>4, <2>1 DEF IInv, Base
<1>6. Len(object') \in Nat
  BY <1>1
<1> QED
  BY <1>1, <1>2, <1>5, <1>6

\* request() uses the requester of the map or makes one.
LEMMA BackendStep == ASSUME IInv, NEW t \in Threads, Backend(t) PROVE IInv'
<1> PICK c, i, n : c = Head(todo[t]) /\ i = m_requesterBackendMap[c.name] /\ n = Len(object) + 1
  BY Zenon
<1>0. UNCHANGED <<topics, requesters, mishap, calls>> /\ Doing(t, "backend")
  BY Zenon DEF Backend
<1>1. c \in GoodSteps /\ c.op = "backend" /\ todo[t] # <<>>
  BY <1>0, HeadGood, Zenon DEF IInv
<1>2. c.name \in Names /\ c.req \in Types /\ c.rep \in Types
  BY <1>1, Zenon DEF GoodSteps
<1>3. {"send", "store"} \subseteq EntityOps \ {"endpoint"} /\ "writer" \in Ends
  BY DEF EntityOps, Ends
<1>4. CASE i # 0 /\ object[i].req = c.req /\ object[i].rep = c.rep
  <2>1. Then(t, <<Do("send", i, "writer")>>) /\ UNCHANGED <<object, work>>
    BY <1>4, Zenon DEF Backend
  <2>2. UNCHANGED <<topics, object>>
    BY <1>0, <2>1
  <2>3. /\ Ids' = Ids /\ Len(object') \in Nat
        /\ m_requesterBackendMap \in [Names -> Ids \cup {0}]
        /\ m_requesterMutex \in Threads \cup {Nobody} /\ mishap \in Mishaps
    BY <2>2, QuietIds, Zenon
  <2>4. i \in Ids
    BY <1>2, <1>4, <2>3
  <2>5. <<Do("send", i, "writer")>> \in Seq(GoodSteps')
    BY <1>3, <2>3, <2>4, GoodStep, Lists, Zenon
  <2> QED
    BY <1>0, <1>1, <2>1, <2>2, <2>3, <2>5, QuietStep, Zenon DEF requesters
<1>5. CASE ~ (i # 0 /\ object[i].req = c.req /\ object[i].rep = c.rep)
  <2> DEFINE o == New("requester", c.name, c.req, c.rep, -1, Nobody)
             last == <<Do("store", n, "writer"), Do("send", n, "writer")>>
  <2>1. /\ object' = Append(object, o) /\ work' = Append(work, 0)
        /\ Then(t, Constructor("requester", n) \o last)
    BY <1>5, Zenon DEF Backend
  <2>2. o \in Object /\ o.reader = "none" /\ o.writer = "none"
    <3>1. "requester" \in Kinds /\ -1 \in Int /\ Nobody \in Threads \cup {Nobody}
      BY DEF Kinds
    <3> QED
      BY <1>2, <3>1, NewObject
  <2> HIDE DEF o
  <2>3. calls' \in Nat /\ UNCHANGED <<topics, requesters, mishap>>
    BY <1>0 DEF IInv, Base
  <2>4. /\ Base' /\ EndsGranted' /\ GoodSteps \subseteq GoodSteps'
        /\ Len(object') \in Nat /\ n \in Ids'
    BY <2>1, <2>2, <2>3, AddStep, Zenon
  <2>5. Do("store", n, "writer") \in GoodSteps' /\ Do("send", n, "writer") \in GoodSteps'
    BY <1>3, <2>4, GoodStep, Zenon
  <2>6. last \in Seq(GoodSteps') /\ Constructor("requester", n) \in Seq(GoodSteps')
    BY <2>4, <2>5, ConstructorGood, Lists, Zenon
  <2> HIDE DEF last
  <2>7. Constructor("requester", n) \o last \in Seq(GoodSteps')
    BY <2>6, Lists, Zenon
  <2>8. Todo'
    BY <1>1, <2>1, <2>4, <2>7, ThenGood, Zenon DEF IInv
  <2> QED
    BY <2>4, <2>8, Zenon DEF IInv
<1> QED
  BY <1>4, <1>5, Zenon

\* What the calls make.
LEMMA KindsMade == \A do \in Makers : KindOf(do) \in Kinds
<1>1. KindOf("subscribe") \in Kinds /\ KindOf("advertise") \in Kinds /\ KindOf("provide") \in Kinds
  BY DEF KindOf, Kinds
<1>2. KindOf("makeRequester") \in Kinds /\ KindOf("makeReplier") \in Kinds
  BY DEF KindOf, Kinds
<1> QED
  BY <1>1, <1>2, Zenon DEF Makers

\* A call begins with steps about objects that exist or that it makes.
LEMMA BeginStep == ASSUME IInv, NEW t \in Threads, Begin(t) PROVE IInv'
<1> PICK c \in Calls[t] : Make(t, c) \/ UseHandle(t, c) \/ ReplySession(t, c) \/ ByName(t, c)
  BY Zenon DEF Begin
<1>0. /\ c.do \in Dos /\ c.name \in Names /\ c.req \in Types /\ c.rep \in Types
      /\ c.depth \in Int
  BY CallsAssumption DEF Call
<1>1. UNCHANGED <<topics, requesters, mishap>> /\ calls' = calls + 1
  BY Zenon DEF Begin
<1>2. calls' \in Nat
  BY <1>1 DEF IInv, Base
<1>3. ASSUME NEW steps \in Seq(GoodSteps'), todo' = [todo EXCEPT ![t] = steps],
             object' = object, work' \in Seq(Nat), Len(work') = Len(work)
      PROVE  IInv'
  <2>1. UNCHANGED <<topics, object>>
    BY <1>1, <1>3
  <2>2. Frame /\ Ids' = Ids /\ EndsGranted' /\ GoodSteps' = GoodSteps
    BY <2>1, Quiet, Zenon DEF IInv
  <2>3. Base'
    BY <1>1, <1>2, <1>3, <2>2 DEF IInv, Base, requesters
  <2>4. Todo'
    BY <1>3, <2>2, BeginGood, Zenon DEF IInv
  <2> QED
    BY <2>2, <2>3, <2>4, Zenon DEF IInv
<1>4. ASSUME object' = object
      PROVE  Ids' = Ids /\ Len(object') \in Nat
  BY <1>4 DEF IInv, Base, Ids
<1>5. work \in Seq(Nat) /\ Len(work) = Len(object)
  BY DEF IInv, Base
<1>6. "send" \in EntityOps \ {"endpoint"} /\ "writer" \in Ends
  BY DEF EntityOps, Ends
<1>7. CASE Make(t, c)
  <2>1. PICK kind, h : /\ kind = KindOf(c.do)
                       /\ h = IF kind \in {"callback", "provider"} THEN Nobody ELSE t
    BY Zenon
  <2> DEFINE o == New(kind, c.name, c.req, c.rep, c.depth, h)
  <2>2. /\ c.do \in Makers /\ object' = Append(object, o) /\ work' = Append(work, 0)
        /\ todo' = [todo EXCEPT ![t] = Constructor(kind, Len(object) + 1)]
    BY <1>7, <2>1, Zenon DEF Make
  <2>3. kind \in Kinds /\ h \in Threads \cup {Nobody}
    BY <2>1, <2>2, KindsMade, Zenon
  <2>4. o \in Object /\ o.reader = "none" /\ o.writer = "none"
    BY <1>0, <2>3, NewObject
  <2> HIDE DEF o
  <2>5. /\ Base' /\ EndsGranted' /\ GoodSteps \subseteq GoodSteps'
        /\ Len(object') \in Nat /\ Len(object) + 1 \in Ids'
    BY <1>1, <1>2, <2>2, <2>4, AddStep, Zenon
  <2>6. PICK n : n = Len(object) + 1
    BY Zenon
  <2>7. Constructor(kind, n) \in Seq(GoodSteps') /\ todo' = [todo EXCEPT ![t] = Constructor(kind, n)]
    BY <2>2, <2>5, <2>6, ConstructorGood, Zenon
  <2>8. Todo'
    BY <2>5, <2>7, BeginGood, Zenon DEF IInv
  <2> QED
    BY <2>5, <2>8, Zenon DEF IInv
<1>8. CASE UseHandle(t, c)
  <2>1. PICK i \in Handles(t, c) :
          todo' = [todo EXCEPT ![t] = IF c.do = "drop" THEN Destructor(i)
                                      ELSE <<Do("send", i, "writer")>>]
    BY <1>8, Zenon DEF UseHandle
  <2>2. object' = object /\ work' = work
    BY <1>8 DEF UseHandle
  <2>3. i \in Ids
    BY <2>1, Zenon DEF Handles
  <2>4. Ids' = Ids /\ Len(object') \in Nat
    BY <1>4, <2>2, Zenon
  <2>5. Destructor(i) \in Seq(GoodSteps') /\ <<Do("send", i, "writer")>> \in Seq(GoodSteps')
    BY <1>6, <2>3, <2>4, DestructorGood, GoodStep, Lists, Zenon DEF IInv
  <2>6. PICK steps \in Seq(GoodSteps') : todo' = [todo EXCEPT ![t] = steps]
    BY <2>1, <2>5, Zenon
  <2> QED
    BY <1>3, <1>5, <2>2, <2>6, Zenon
<1>9. CASE ReplySession(t, c)
  <2>1. PICK i \in Ids : /\ work[i] > 0 /\ work' = [work EXCEPT ![i] = @ - 1]
                         /\ todo' = [todo EXCEPT ![t] = <<Do("send", i, "writer")>>]
    BY <1>9, Zenon DEF ReplySession
  <2>2. object' = object
    BY <1>9 DEF ReplySession
  <2>3. i \in 1 .. Len(work)
    BY <1>5, Zenon DEF Ids
  <2>4. work' \in Seq(Nat) /\ Len(work') = Len(work)
    BY <1>5, <2>1, <2>3
  <2>5. Ids' = Ids /\ Len(object') \in Nat
    BY <1>4, <2>2, Zenon
  <2>6. <<Do("send", i, "writer")>> \in Seq(GoodSteps')
    BY <1>6, <2>5, GoodStep, Lists, Zenon
  <2> QED
    BY <1>3, <2>1, <2>2, <2>4, <2>6, Zenon
<1>10. CASE ByName(t, c)
  <2>1. object' = object /\ work' = work
    BY <1>10 DEF ByName
  <2>2. Len(object') \in Nat
    BY <1>4, <2>1, Zenon
  <2>3. /\ PlainName(c.name) \in TopicNames /\ RequestName(c.name) \in TopicNames
        /\ ReplyName(c.name) \in TopicNames
    BY <1>0 DEF PlainName, RequestName, ReplyName, TopicNames
  <2>4. {"unsubscribe", "stop", "retract", "lock", "unlock"} \subseteq NameOps
    BY DEF NameOps
  <2> DEFINE b == [op |-> "backend", name |-> c.name, req |-> c.req, rep |-> c.rep]
  <2>5. b \in GoodSteps'
    <3>1. b \in Step
      BY <1>0 DEF Step
    <3>2. b.op = "backend" /\ b.name = c.name /\ b.req = c.req /\ b.rep = c.rep
      OBVIOUS
    <3>3. "backend" \notin EntityOps /\ "backend" \notin NameOps
      BY DEF EntityOps, NameOps
    <3> HIDE DEF b
    <3> QED
      BY <1>0, <3>1, <3>2, <3>3, Zenon DEF GoodSteps
  <2>6. /\ On("unsubscribe", PlainName(c.name)) \in GoodSteps'
        /\ On("stop", RequestName(c.name)) \in GoodSteps'
        /\ On("retract", ReplyName(c.name)) \in GoodSteps'
        /\ On("lock", PlainName(c.name)) \in GoodSteps'
        /\ On("unlock", PlainName(c.name)) \in GoodSteps'
    BY <2>2, <2>3, <2>4, GoodStep, Zenon
  <2>7. \/ todo' = [todo EXCEPT ![t] = <<On("unsubscribe", PlainName(c.name))>>]
        \/ todo' = [todo EXCEPT ![t] = <<On("stop", RequestName(c.name)),
                                         On("retract", ReplyName(c.name))>>]
        \/ todo' = [todo EXCEPT ![t] = <<On("lock", PlainName(c.name)), b,
                                         On("unlock", PlainName(c.name))>>]
    BY <1>10, Zenon DEF ByName
  <2> HIDE DEF b
  <2>8. PICK steps \in Seq(GoodSteps') : todo' = [todo EXCEPT ![t] = steps]
    BY <2>5, <2>6, <2>7, Lists, Zenon
  <2> QED
    BY <1>3, <1>5, <2>1, <2>8, Zenon
<1> QED
  BY <1>7, <1>8, <1>9, <1>10, Zenon

\* A sample arrives, or a provider answers one.
LEMMA WorkStep == ASSUME IInv, NEW i \in Ids, Deliver(i) \/ RunJob(i) PROVE IInv'
<1>0. UNCHANGED <<topics, object, requesters, todo, calls>>
  BY Zenon DEF Deliver, RunJob
<1>1. UNCHANGED <<topics, object>>
  BY <1>0
<1>2. Ids' = Ids /\ EndsGranted' /\ GoodSteps' = GoodSteps
  BY <1>1, Quiet, Zenon DEF IInv
<1>3. work \in Seq(Nat) /\ i \in 1 .. Len(work) /\ Len(work) = Len(object)
  BY Zenon DEF IInv, Base, Ids
<1>4. work[i] \in Nat
  BY <1>3
<1>5. \/ work' = work \/ work' = [work EXCEPT ![i] = @ + 1]
      \/ work[i] > 0 /\ work' = [work EXCEPT ![i] = @ - 1]
  BY Zenon DEF Deliver, RunJob
<1>6. work' \in Seq(Nat) /\ Len(work') = Len(work)
  BY <1>3, <1>4, <1>5
<1>7. mishap' \in Mishaps
  BY Zenon DEF Deliver, RunJob, Published, Mishaps
<1>8. Base'
  BY <1>0, <1>2, <1>3, <1>6, <1>7 DEF IInv, Base, requesters
<1>9. Todo'
  BY <1>0, <1>2, Zenon DEF IInv, Todo
<1> QED
  BY <1>2, <1>8, <1>9, Zenon DEF IInv

-----------------------------------------------------------------------------
\* The constructor of the participant establishes the invariant.
LEMMA InitInv == Init => IInv
<1> SUFFICES ASSUME Init PROVE IInv
  OBVIOUS
<1>1. Ids = {} /\ Len(object) = 0
  BY DEF Init, Ids
<1>2. Base
  BY <1>1 DEF Init, Base, Mishaps
<1>3. Todo
  BY Lists DEF Init, Todo
<1>4. EndsGranted
  BY <1>1, Zenon DEF EndsGranted
<1> QED
  BY <1>2, <1>3, <1>4, Zenon DEF IInv

\* Every step keeps it.
LEMMA StepInv == IInv /\ [Next]_vars => IInv'
<1> SUFFICES ASSUME IInv, [Next]_vars PROVE IInv'
  OBVIOUS
<1>1. ASSUME NEW t \in Threads, Advance(t) PROVE IInv'
  BY <1>1, LookupStep, GetTopicStep, CreateTopicStep, EndpointSteps, EndStep, PlainStep, MapStep,
     BackendStep, Zenon DEF Advance
<1>2. CASE UNCHANGED vars
  <2>1. /\ UNCHANGED <<topics, object>>
        /\ UNCHANGED <<m_requesterBackendMap, m_requesterMutex, todo, work, mishap, calls>>
    BY <1>2, Zenon DEF vars, requesters
  <2>2. Ids' = Ids /\ EndsGranted' /\ GoodSteps' = GoodSteps
    BY <2>1, Quiet, Zenon DEF IInv
  <2> QED
    BY <2>1, <2>2, Zenon DEF IInv, Base, Todo
<1> QED
  BY <1>1, <1>2, BeginStep, WorkStep, Zenon DEF Next

\* What OneTypePerTopic says of two endpoints on topic n.
Agree(i, j, n) == /\ TypeOn(object[i], n) = TypeOn(object[j], n)
                  /\ topics[n].depth # -1 /\ Asked(object[i]) >= 0
                       => Asked(object[i]) <= topics[n].depth

\* Topics of an object's endpoints that were granted have its type and depth.
LEMMA InvImplies == IInv => TypeOK /\ OneTypePerTopic
<1> SUFFICES ASSUME IInv PROVE TypeOK /\ OneTypePerTopic
  OBVIOUS
<1>1. TypeOK
  <2>1. GoodSteps \subseteq Step
    BY Zenon DEF GoodSteps
  <2>2. \A t \in Threads : todo[t] \in Seq(Step)
    BY <2>1, SeqGrows, Zenon DEF IInv, Todo
  <2>3. todo \in [Threads -> Seq(Step)]
    BY <2>2 DEF IInv, Todo
  <2> QED
    BY <2>3, Zenon DEF IInv, Base, TypeOK
<1>2. ASSUME NEW i \in Ids, NEW j \in Ids, NEW e \in Ends, NEW f \in Ends, NEW n,
             n = TopicOf(object[i], e), object[i][e] = "open", object[j][f] = "open",
             TopicOf(object[j], f) = n
      PROVE  Agree(i, j, n)
  <2>1. topics[n] # NoTopic /\ Fits(i, n) /\ Fits(j, n)
    BY <1>2, Zenon DEF IInv, EndsGranted, Granted
  <2>2. object[i] \in Object
    BY DEF IInv, Base, Ids
  <2>3. n \in TopicNames /\ Asked(object[i]) \in Int
    BY <1>2, <2>2, TopicsType, Zenon
  <2>4. topics[n].depth \in Int
    BY <2>1, <2>3 DEF IInv, Base
  <2>5. TypeOn(object[i], n) = TypeOn(object[j], n)
    BY <2>1, Zenon DEF Fits
  <2>6. topics[n].depth = -1 \/ topics[n].depth >= Asked(object[i])
    BY <2>1, Zenon DEF Fits
  <2> QED
    BY <2>1, <2>3, <2>4, <2>5, <2>6 DEF Agree
<1>3. \A i, j \in Ids : \A e, f \in Ends :
        /\ object[i][e] = "open" /\ object[j][f] = "open"
        /\ TopicOf(object[j], f) = TopicOf(object[i], e)
        => Agree(i, j, TopicOf(object[i], e))
  BY <1>2, Zenon
<1>4. OneTypePerTopic
  BY <1>3, Zenon DEF OneTypePerTopic, Agree
<1> QED
  BY <1>1, <1>4

\* Every call of every thread, whatever the interleaving, keeps the types.
THEOREM ParticipantTypes == Spec => []TypeOK
BY InitInv, StepInv, InvImplies, PTL DEF Spec

\* However the calls of any threads interleave, disciplined or not, getTopic()
\* lets no two endpoints that are in use at once have one topic with different
\* types, and none that asked for a bounded history one with a shorter history.
THEOREM TopicsAgree == Spec => []OneTypePerTopic
BY InitInv, StepInv, InvImplies, PTL DEF Spec
=============================================================================
