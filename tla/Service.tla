------------------------------- MODULE Service -------------------------------
(***************************************************************************)
(* What request/reply promises its callers, without ids, topics, histories  *)
(* or sessions.  A call may be served any number of times, by any number of *)
(* providers, with different results, and results may be lost before they   *)
(* arrive.  The call's future takes one result of that very call, once.     *)
(***************************************************************************)
EXTENDS Naturals

CONSTANT MaxCalls  \* bound: calls made

VARIABLES made,     \* number of calls made
          results,  \* results that are on their way
          outcome   \* what the future of each call holds

svars == <<made, results, outcome>>

Calls == 1 .. MaxCalls
Result == [call : Calls, failed : BOOLEAN]

Init == /\ made = 0
        /\ results = {}
        /\ outcome = [c \in Calls |-> "unmade"]

Make == /\ made < MaxCalls
        /\ made' = made + 1
        /\ outcome' = [outcome EXCEPT ![made + 1] = "pending"]
        /\ UNCHANGED results

\* A provider has served a call: nothing is served that was not asked for.
Serve(r) == /\ r.call <= made
            /\ results' = results \cup {r}
            /\ UNCHANGED <<made, outcome>>

\* Results are lost with the provider that has them.
Lose == /\ results' \subseteq results
        /\ UNCHANGED <<made, outcome>>

\* The future of a pending call takes a result of that call.
Deliver(r) ==
  /\ r \in results
  /\ outcome[r.call] = "pending"
  /\ outcome' = [outcome EXCEPT ![r.call] = IF r.failed THEN "error" ELSE "value"]
  /\ UNCHANGED <<made, results>>

\* The caller's side goes away before its calls are answered.
Break == /\ \E gone \in SUBSET {c \in Calls : outcome[c] = "pending"} :
              outcome' = [c \in Calls |-> IF c \in gone THEN "broken" ELSE outcome[c]]
         /\ UNCHANGED <<made, results>>

Next == Make \/ Lose \/ Break \/ \E r \in Result : Serve(r) \/ Deliver(r)

Spec == Init /\ [][Next]_svars
=============================================================================
