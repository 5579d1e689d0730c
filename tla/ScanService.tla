---------------------------- MODULE ScanService ----------------------------
(***************************************************************************)
(* What pnm::imdb::Runner::run_operator promises, without registers and    *)
(* simulator threads.  A host submits a scan, is granted one idle engine   *)
(* thread for itself alone, finds the outcome of its own scan in its       *)
(* result buffer and its size in the operation, and gives the thread back. *)
(***************************************************************************)
EXTENDS Naturals

CONSTANTS Hosts, NoHost, Threads, OutputTypes

VARIABLES holder,  \* the host each engine thread is granted to
          phase,   \* "idle", "pending" or "running", per host
          op,      \* the scan each host runs: its number and output type
          result,  \* what is in the host's result buffer
          size     \* the result size its operation was given

serviceVars == <<holder, phase, op, result, size>>

NoScan   == <<NoHost, 0>>
ScanId(h, o) == <<h, o.no>>
NoOp     == [no |-> 0, type |-> "BitVector"]
NoResult == [column |-> NoScan, predicate |-> NoScan, type |-> "BitVector"]
NoSize   == NoResult

\* The outcome of scanning a column with a predicate.  An index vector has as
\* many entries as there are matches, a bit vector one for every column entry.
Outcome(column, predicate, type) ==
  [column |-> column, predicate |-> predicate, type |-> type]
SizeOf(r) == IF r.type = "BitVector" THEN Outcome(r.column, NoScan, r.type) ELSE r

Expected(h, o) == Outcome(ScanId(h, o), ScanId(h, o), o.type)

Init ==
  /\ holder = [t \in Threads |-> NoHost]
  /\ phase = [h \in Hosts |-> "idle"]
  /\ op = [h \in Hosts |-> NoOp]
  /\ result = [h \in Hosts |-> NoResult]
  /\ size = [h \in Hosts |-> NoSize]

Submit(h) ==
  /\ phase[h] = "idle"
  /\ phase' = [phase EXCEPT ![h] = "pending"]
  /\ \E y \in OutputTypes : op' = [op EXCEPT ![h] = [no |-> @.no + 1, type |-> y]]
  /\ result' = [result EXCEPT ![h] = NoResult]
  /\ size' = [size EXCEPT ![h] = NoSize]
  /\ UNCHANGED holder

Grant(h) ==
  /\ phase[h] = "pending"
  /\ phase' = [phase EXCEPT ![h] = "running"]
  /\ \E t \in Threads : holder[t] = NoHost /\ holder' = [holder EXCEPT ![t] = h]
  /\ UNCHANGED <<op, result, size>>

Produce(h) ==
  /\ phase[h] = "running"
  /\ result' = [result EXCEPT ![h] = Expected(h, op[h])]
  /\ UNCHANGED <<holder, phase, op, size>>

Report(h) ==
  /\ phase[h] = "running" /\ result[h] = Expected(h, op[h])
  /\ size' = [size EXCEPT ![h] = SizeOf(result[h])]
  /\ UNCHANGED <<holder, phase, op, result>>

\* The thread the host was granted last goes back; one lost to an exception is
\* not found again.
Release(h) ==
  /\ phase[h] = "running" /\ size[h] = SizeOf(Expected(h, op[h]))
  /\ \E t \in Threads : holder[t] = h /\ holder' = [holder EXCEPT ![t] = NoHost]
  /\ phase' = [phase EXCEPT ![h] = "idle"]
  /\ UNCHANGED <<op, result, size>>

\* An exception while the scan is prepared: run_operator keeps the thread.
Fail(h) ==
  /\ phase[h] = "running"
  /\ phase' = [phase EXCEPT ![h] = "idle"]
  /\ UNCHANGED <<holder, op, result, size>>

Next ==
  \E h \in Hosts :
    Submit(h) \/ Grant(h) \/ Produce(h) \/ Report(h) \/ Release(h) \/ Fail(h)

Spec == Init /\ [][Next]_serviceVars
=============================================================================
