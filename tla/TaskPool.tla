------------------------------ MODULE TaskPool ------------------------------
(***************************************************************************)
(* What the thread pool of common/threads promises its callers, without    *)
(* threads, locks or condition variables: submitted actions start in the   *)
(* order of submission, each once, at most Workers at a time, each ends    *)
(* with a value or an exception, and the pool is gone only when everything *)
(* submitted before its destruction began has ended.                       *)
(***************************************************************************)
EXTENDS Naturals, Sequences, FiniteSets

CONSTANTS Actions, Workers

VARIABLES queue,    \* submitted, not started
          running,  \* started, not ended
          outcome,  \* what each action's future holds
          life      \* "open", "closing" (no more submissions), "gone"

poolVars == <<queue, running, outcome, life>>

Init ==
  /\ queue = <<>> /\ running = {} /\ life = "open"
  /\ outcome = [a \in Actions |-> "none"]

Submit(a) ==
  /\ life = "open" /\ outcome[a] = "none"
  /\ queue' = Append(queue, a)
  /\ outcome' = [outcome EXCEPT ![a] = "pending"]
  /\ UNCHANGED <<running, life>>

Start ==
  /\ queue # <<>> /\ Cardinality(running) < Workers
  /\ Head(queue) \notin running
  /\ running' = running \cup {Head(queue)}
  /\ queue' = Tail(queue)
  /\ UNCHANGED <<outcome, life>>

Finish(a) ==
  /\ a \in running
  /\ running' = running \ {a}
  /\ \E o \in {"ready", "exception"} : outcome' = [outcome EXCEPT ![a] = o]
  /\ UNCHANGED <<queue, life>>

Shut ==
  /\ life = "open" /\ life' = "closing"
  /\ UNCHANGED <<queue, running, outcome>>

Vanish ==
  /\ life = "closing" /\ queue = <<>> /\ running = {}
  /\ life' = "gone"
  /\ UNCHANGED <<queue, running, outcome>>

Next == Start \/ Shut \/ Vanish \/ \E a \in Actions : Submit(a) \/ Finish(a)

Spec ==
  /\ Init /\ [][Next]_poolVars
  /\ WF_poolVars(Start) /\ WF_poolVars(Vanish)
  /\ \A a \in Actions : WF_poolVars(Finish(a))
=============================================================================
