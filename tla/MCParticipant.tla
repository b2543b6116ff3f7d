---------------------------- MODULE MCParticipant ----------------------------
(* Instances of Participant for TLC. *)
EXTENDS Participant, TLC

CONSTANTS a, b

Plain(do, n, type, depth) == [do |-> do, name |-> n, req |-> type, rep |-> type, depth |-> depth]
Service(do, s) == [do |-> do, name |-> s, req |-> "A", rep |-> "B", depth |-> -1]

MCThreads == {a, b}
MCNames == {"topic", "kept", "own", "served"}
MCTypes == {"A", "B"}

\* Thread a has a topic of its own, and provides a service; b makes a
\* requester and a replier; both make requests of a further service.
DisciplinedCalls ==
  a :> ({Plain("subscribe", "topic", "A", 1), Plain("subscribe", "topic", "B", 2),
         Plain("advertise", "topic", "A", 2), Plain("advertise", "topic", "A", -1),
         Plain("unsubscribe", "topic", "A", -1),
         Plain("publish", "topic", "A", -1), Plain("drop", "topic", "A", -1)}
        \cup {Service(do, "served") : do \in {"provide", "unadvertise"}}
        \cup {Service(do, "kept") : do \in {"request", "unsubscribe"}})
  @@ b :> ({Service(do, "own") : do \in {"makeRequester", "makeReplier", "drop", "reply", "publish"}}
        \cup {Service(do, "kept") : do \in {"request", "unsubscribe"}})

\* Both threads use one topic, with one type.
SharedCalls ==
  a :> {Plain("subscribe", "topic", "A", -1)} @@ b :> {Plain("advertise", "topic", "A", -1)}
=============================================================================
