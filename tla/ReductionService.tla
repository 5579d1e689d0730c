-------------------------- MODULE ReductionService --------------------------
(***************************************************************************)
(* What one ReductionRunner::run_on_pack call promises, without registers, *)
(* buffers or simulator threads.  A host thread submits an operation, is   *)
(* granted one idle compute unit of the operation's pack for itself alone, *)
(* receives the output of every execution exactly as that execution's own  *)
(* trace produces it, in execution order and PSUM before TAGS, and gives   *)
(* the unit back once everything is delivered or after an error.           *)
(***************************************************************************)
EXTENDS Naturals, Sequences

CONSTANTS Hosts, NoHost, Cunits, Packs, Shapes, TagKinds

VARIABLES holder,  \* the host each compute unit is granted to
          phase,   \* "idle", "pending", "running" or "failing", per host
          req,     \* the operation each host is running
          out      \* out[h][i][b]: what output block b of execution i delivered

serviceVars == <<holder, phase, req, out>>

Blocks == {"PSUM", "TAGS"}

\* An operation: its pack, how many output rows each of its executions has, and
\* whether it is a tagged one.  `no' numbers the operations of a host.
Requests(no) ==
  [pack : Packs, tagged : TagKinds, no : {no}, rows : Shapes]

Outputs(q) == IF q.tagged THEN Blocks ELSE {"PSUM"}

\* The trace of execution i adds its lookups to rows 0 .. rows[i]-1; a row that
\* nobody else added to since it was last zeroed holds just that execution.
TraceId(h, q, i)  == <<h, q.no, i>>
Expected(h, q, i) == [r \in 1 .. q.rows[i] |-> <<TraceId(h, q, i)>>]

Nothing(q) == [i \in DOMAIN q.rows |-> [b \in Blocks |-> <<>>]]

NoRequest == [pack |-> {}, tagged |-> FALSE, no |-> 0, rows |-> <<1>>]

Init ==
  /\ holder = [c \in Cunits |-> NoHost]
  /\ phase = [h \in Hosts |-> "idle"]
  /\ req = [h \in Hosts |-> NoRequest]
  /\ out = [h \in Hosts |-> Nothing(NoRequest)]

Delivered(h, i, b) == out[h][i][b] # <<>>

Submit(h) ==
  /\ phase[h] = "idle"
  /\ phase' = [phase EXCEPT ![h] = "pending"]
  /\ \E q \in Requests(req[h].no + 1) :
       req' = [req EXCEPT ![h] = q] /\ out' = [out EXCEPT ![h] = Nothing(q)]
  /\ UNCHANGED holder

Grant(h) ==
  /\ phase[h] = "pending"
  /\ \E c \in req[h].pack : holder[c] = NoHost /\ holder' = [holder EXCEPT ![c] = h]
  /\ phase' = [phase EXCEPT ![h] = "running"]
  /\ UNCHANGED <<req, out>>

Deliver(h, i, b) ==
  /\ phase[h] = "running" /\ i \in DOMAIN req[h].rows /\ b \in Outputs(req[h])
  /\ ~Delivered(h, i, b)
  /\ \A j \in 1 .. i - 1 : \A d \in Outputs(req[h]) : Delivered(h, j, d)
  /\ b = "TAGS" => Delivered(h, i, "PSUM")
  /\ out' = [out EXCEPT ![h][i][b] = Expected(h, req[h], i)]
  /\ UNCHANGED <<holder, phase, req>>

Fail(h) ==
  /\ phase[h] = "running"
  /\ phase' = [phase EXCEPT ![h] = "failing"]
  /\ UNCHANGED <<holder, req, out>>

Release(h) ==
  /\ \/ phase[h] = "failing"
     \/ /\ phase[h] = "running"
        /\ \A i \in DOMAIN req[h].rows : \A b \in Outputs(req[h]) : Delivered(h, i, b)
  /\ holder' = [c \in Cunits |-> IF holder[c] = h THEN NoHost ELSE holder[c]]
  /\ phase' = [phase EXCEPT ![h] = "idle"]
  /\ UNCHANGED <<req, out>>

Next ==
  \E h \in Hosts :
    \/ Submit(h) \/ Grant(h) \/ Fail(h) \/ Release(h)
    \/ \E i \in DOMAIN req[h].rows, b \in Blocks : Deliver(h, i, b)

Spec == Init /\ [][Next]_serviceVars
=============================================================================
