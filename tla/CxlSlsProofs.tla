---------------------------- MODULE CxlSlsProofs -----------------------------
(***************************************************************************)
(* Safety of the CXL protocol for any number of hosts, processes, units,   *)
(* rows, operations, exceptions and deaths: types, the sums every host     *)
(* reads, and that every step is a step of the reduction service.          *)
(***************************************************************************)
EXTENDS CxlSls, TLAPS

Reqs == [pack : SUBSET Cunits, tagged : {FALSE}, no : Nat, rows : Seq(1 .. NumRows) \ {<<>>}]

Types == TypeOK /\ req \in [Hosts -> Reqs] /\ out = [h \in Hosts |-> out[h]]

Begins == {"resetPoll", "resetExec", "enableThread", "switch", "pollSwitched"}
Runs   == {"generate", "write", "zero", "armPoll", "start", "wait", "read"}
Ends   == {"unswitch", "pollEnable", "stopThread", "join", "release"}

Holding(h)  == pc[h] \in Begins \cup Runs \cup Ends
ThreadOn(h) == pc[h] \in {"switch", "pollSwitched"} \cup Runs \cup (Ends \ {"release"})

\* The driver's record of who owns a unit and the hosts' own agree.
Ownership ==
  /\ \A h \in Hosts : Holding(h) => owner[cu[h]] = h
  /\ \A c \in Cunits : owner[c] # NoHost => Holding(owner[c]) /\ cu[owner[c]] = c

\* A worker is on only while its unit is held by its own process.
Workers ==
  \A p \in Procs, c \in Cunits :
    wpc[p][c] # "off" => owner[c] # NoHost /\ ProcOf[owner[c]] = p

\* What a host has been given: the sums of the executions before step[h].
Given(h) ==
  [i \in DOMAIN req[h].rows |-> [b \in Service!Blocks |->
     IF b = "PSUM" /\ i < step[h] THEN Service!Expected(h, req[h], i) ELSE <<>>]]

Progress(h) ==
  /\ step[h] <= Execs(h) + 1
  /\ out[h] = Given(h)
  /\ pc[h] \in {"acquire"} \cup Begins => step[h] = 1
  /\ pc[h] \in Runs => step[h] <= Execs(h)
  /\ pc[h] \in Ends /\ ~failed[h] => step[h] = Execs(h) + 1
  /\ pc[h] \in {"acquire"} \cup Begins \cup Runs => ~failed[h]

\* Of the rows that the host's execution adds to, the first k have its sum and
\* the others are zero.
Summed(h, k) ==
  \A r \in RowIdx : r < req[h].rows[step[h]] =>
    mem[cu[h]][r] = IF r < k THEN <<Service!TraceId(h, req[h], step[h])>> ELSE <<>>

Spinning == {"queued", "loop", "load", "done"}

\* The unit of a host that holds one: disarmed with its worker spinning, except
\* while the host waits.
Flight(h) ==
  LET w == wpc[ProcOf[h]][cu[h]]  x == exec_sls[cu[h]]  f == psum_poll[cu[h]]
      n == req[h].rows[step[h]]
  IN \/ x = "ENABLE" /\ f = "RESET" /\ w \in Spinning /\ Summed(h, 0)
     \/ /\ x = "ENABLE" /\ f = "RESET" /\ w = "exec"
        /\ wrow[ProcOf[h]][cu[h]] < n /\ Summed(h, wrow[ProcOf[h]][cu[h]])
     \/ x = "ENABLE" /\ f = "RESET" /\ w = "disarm" /\ Summed(h, n)
     \/ x = "DISABLE" /\ f = "RESET" /\ w = "finish" /\ Summed(h, n)
     \/ x = "DISABLE" /\ f = "FINISH" /\ w \in Spinning /\ Summed(h, n)

Unit(h) ==
  LET w == wpc[ProcOf[h]][cu[h]] IN
  /\ ThreadOn(h) <=> w # "off"
  /\ pc[h] \notin {"resetPoll", "resetExec", "wait"} =>
       exec_sls[cu[h]] = "DISABLE" /\ w \in Spinning \cup {"off"}
  /\ pc[h] \in {"zero", "armPoll", "start", "wait", "read"} => inst[cu[h]] = TraceOf(h, step[h])
  /\ pc[h] \in {"armPoll", "start"} => Summed(h, 0)
  /\ pc[h] = "start" => psum_poll[cu[h]] = "RESET"
  /\ pc[h] = "wait" => Flight(h)
  /\ pc[h] = "read" => Summed(h, req[h].rows[step[h]])

IInv ==
  /\ Types /\ Ownership /\ Workers
  /\ \A h \in Hosts : Progress(h) /\ (Holding(h) => Unit(h))

(***************************************************************************)
(* Most steps touch one unit: they are steps of the host that holds it or  *)
(* of its worker.                                                          *)
(***************************************************************************)
LocalTo(h) ==
  /\ owner' = owner /\ cu' = cu
  /\ \A g \in Hosts \ {h} :
       /\ pc'[g] = pc[g] /\ step'[g] = step[g] /\ req'[g] = req[g]
       /\ out'[g] = out[g] /\ failed'[g] = failed[g]
  /\ \A d \in Cunits \ {cu[h]} :
       /\ exec_sls'[d] = exec_sls[d] /\ psum_poll'[d] = psum_poll[d]
       /\ inst'[d] = inst[d] /\ mem'[d] = mem[d]
  /\ \A q \in Procs, d \in Cunits :
       q # ProcOf[h] \/ d # cu[h] => wpc'[q][d] = wpc[q][d] /\ wrow'[q][d] = wrow[q][d]

\* The elements of a sequence; one that is not empty has a first.
LEMMA SeqElements ==
  ASSUME NEW S, NEW s \in Seq(S)
  PROVE  Len(s) \in Nat /\ (s # <<>> => Len(s) # 0) /\ (\A i \in 1 .. Len(s) : s[i] \in S)
OBVIOUS

\* A host's progress concerns nothing but its own values.
LEMMA ProgressFrame ==
  ASSUME NEW g, Progress(g), pc'[g] = pc[g], step'[g] = step[g], req'[g] = req[g],
         out'[g] = out[g], failed'[g] = failed[g]
  PROVE  Progress(g)'
BY Zenon DEF Progress, Given, Execs

\* The state of a host's unit concerns nothing but the host and the unit.
LEMMA UnitFrame ==
  ASSUME NEW g, Unit(g), pc'[g] = pc[g], step'[g] = step[g], req'[g] = req[g], cu'[g] = cu[g],
         exec_sls'[cu[g]] = exec_sls[cu[g]], psum_poll'[cu[g]] = psum_poll[cu[g]],
         inst'[cu[g]] = inst[cu[g]], mem'[cu[g]] = mem[cu[g]],
         wpc'[ProcOf[g]][cu[g]] = wpc[ProcOf[g]][cu[g]],
         wrow'[ProcOf[g]][cu[g]] = wrow[ProcOf[g]][cu[g]]
  PROVE  Unit(g)'
<1>1. \A k, l : k = l => Summed(g, k)' = Summed(g, l)
  BY Zenon DEF Summed
<1>2. Flight(g)' = Flight(g)
  BY Zenon, <1>1 DEF Flight
<1>3. ThreadOn(g)' = ThreadOn(g) /\ TraceOf(g, step[g])' = TraceOf(g, step[g])
  BY Zenon DEF ThreadOn, TraceOf
<1> QED
  BY Zenon, <1>1, <1>2, <1>3 DEF Unit

\* A local step that keeps the holder's view keeps the invariant.
LEMMA LocalStep ==
  ASSUME IInv, NEW h \in Hosts, Holding(h), Types', LocalTo(h),
         Holding(h)', Progress(h)', Unit(h)'
  PROVE  IInv'
<1> USE HostAssumption
<1>1. cu' = cu /\ owner' = owner /\ owner[cu[h]] = h /\ cu[h] \in Cunits /\ ProcOf[h] \in Procs
  <2>1. cu \in [Hosts -> Cunits] /\ owner[cu[h]] = h
    BY Zenon DEF IInv, Types, TypeOK, Ownership
  <2> QED
    BY Zenon, <2>1 DEF LocalTo
<1>2. ASSUME NEW g \in Hosts PROVE Holding(g)' <=> Holding(g)
  <2>1. CASE g = h
    BY Zenon, <2>1
  <2>2. CASE g # h
    BY Zenon, <2>2 DEF LocalTo, Holding
  <2> QED
    BY Zenon, <2>1, <2>2
<1>3. Ownership'
  <2>1. ASSUME NEW d \in Cunits, owner[d] # NoHost PROVE owner[d] \in Hosts
    BY Zenon, <2>1 DEF IInv, Types, TypeOK
  <2> QED
    BY Zenon, <1>1, <1>2, <2>1 DEF IInv, Ownership
<1>4. Workers'
  <2> SUFFICES ASSUME NEW q \in Procs, NEW d \in Cunits, wpc'[q][d] # "off"
               PROVE  owner[d] # NoHost /\ ProcOf[owner[d]] = q
    BY Zenon, <1>1 DEF Workers
  <2>1. CASE q = ProcOf[h] /\ d = cu[h]
    BY Zenon, <2>1, <1>1
  <2>2. CASE q # ProcOf[h] \/ d # cu[h]
    <3>1. wpc'[q][d] = wpc[q][d]
      BY Zenon, <2>2 DEF LocalTo
    <3> QED
      BY Zenon, <3>1 DEF IInv, Workers
  <2> QED
    BY Zenon, <2>1, <2>2
<1>5. ASSUME NEW g \in Hosts PROVE Progress(g)' /\ (Holding(g)' => Unit(g)')
  <2>1. CASE g = h
    BY Zenon, <2>1
  <2>2. CASE g # h
    <3>1. Progress(g) /\ g \in Hosts \ {h}
      BY Zenon, <2>2 DEF IInv
    <3>2. Progress(g)'
      BY Zenon, <3>1, ProgressFrame DEF LocalTo
    <3>3. CASE Holding(g)
      <4>a. cu \in [Hosts -> Cunits] /\ owner[cu[g]] = g
        BY Zenon, <3>3 DEF IInv, Types, TypeOK, Ownership
      <4>1. cu[g] \in Cunits \ {cu[h]} /\ ProcOf[g] \in Procs /\ cu[g] # cu[h]
        BY Zenon, <4>a, <2>2, <1>1
      <4>2. Unit(g) /\ cu'[g] = cu[g]
        BY Zenon, <3>3, <1>1 DEF IInv
      <4>3. /\ pc'[g] = pc[g] /\ step'[g] = step[g] /\ req'[g] = req[g]
            /\ exec_sls'[cu[g]] = exec_sls[cu[g]] /\ psum_poll'[cu[g]] = psum_poll[cu[g]]
            /\ inst'[cu[g]] = inst[cu[g]] /\ mem'[cu[g]] = mem[cu[g]]
        BY Zenon, <3>1, <4>1 DEF LocalTo
      <4>4. /\ wpc'[ProcOf[g]][cu[g]] = wpc[ProcOf[g]][cu[g]]
            /\ wrow'[ProcOf[g]][cu[g]] = wrow[ProcOf[g]][cu[g]]
        BY Zenon, <4>1 DEF LocalTo
      <4> QED
        BY Zenon, <3>2, <4>2, <4>3, <4>4, UnitFrame
    <3> QED
      BY Zenon, <3>2, <3>3, <1>2
  <2> QED
    BY Zenon, <2>1, <2>2
<1> QED
  BY Zenon, <1>3, <1>4, <1>5 DEF IInv

\* What an operation asks for.
LEMMA RequestFacts ==
  ASSUME Types, NEW h \in Hosts
  PROVE  /\ req[h] \in Reqs /\ req[h].rows \in Seq(1 .. NumRows) /\ req[h].rows # <<>>
         /\ Execs(h) \in Nat \ {0} /\ DOMAIN req[h].rows = 1 .. Execs(h)
         /\ \A i \in 1 .. Execs(h) : req[h].rows[i] \in 1 .. NumRows
         /\ req[h].pack \subseteq Cunits /\ req[h].tagged = FALSE /\ req[h].no \in Nat
<1>1. req[h] \in Reqs
  BY Zenon DEF Types
<1>2. req[h].rows \in Seq(1 .. NumRows) /\ req[h].rows # <<>> /\ req[h].no \in Nat
      /\ req[h].pack \subseteq Cunits /\ req[h].tagged = FALSE
  BY <1>1, Zenon DEF Reqs
<1>3. Execs(h) \in Nat \ {0} /\ DOMAIN req[h].rows = 1 .. Execs(h)
  BY <1>2, SeqElements DEF Execs
<1>4. \A i \in 1 .. Execs(h) : req[h].rows[i] \in 1 .. NumRows
  BY <1>2, SeqElements, Zenon DEF Execs
<1> QED
  BY Zenon, <1>1, <1>2, <1>3, <1>4

\* A holder and its unit, typed.
LEMMA HolderFacts ==
  ASSUME IInv, NEW h \in Hosts, Holding(h)
  PROVE  /\ cu[h] \in Cunits /\ ProcOf[h] \in Procs /\ owner[cu[h]] = h
         /\ step[h] \in Nat \ {0} /\ Progress(h) /\ Unit(h)
<1>1. cu \in [Hosts -> Cunits] /\ step \in [Hosts -> Nat \ {0}]
  BY Zenon DEF IInv, Types, TypeOK
<1> QED
  BY Zenon, <1>1, HostAssumption DEF IInv, Ownership

\* A host's steps while it holds a unit are local to that unit.
LEMMA HostLocal ==
  ASSUME Types, NEW h \in Hosts, Throw(h) \/ (HostStep(h) /\ ~Release(h))
  PROVE  LocalTo(h)
<1> USE HostAssumption DEF Goto, LocalTo, regVars, thrVars, hostData, bounds
<1>0. /\ pc \in [Hosts -> HostPC] /\ step \in [Hosts -> Nat \ {0}] /\ cu \in [Hosts -> Cunits]
      /\ out = out /\ failed \in [Hosts -> BOOLEAN]
      /\ exec_sls \in [Cunits -> {"ENABLE", "DISABLE"}] /\ psum_poll \in [Cunits -> {"RESET", "FINISH"}]
      /\ inst \in [Cunits -> [id : Ids, n : 1 .. NumRows]]
      /\ mem \in [Cunits -> [RowIdx -> Seq(Ids)]]
      /\ wpc \in [Procs -> [Cunits -> WorkerPC]]
  BY Zenon DEF Types, TypeOK
<1>1. CASE Throw(h)
  BY <1>0, <1>1, Zenon DEF Throw
<1>2. CASE ResetPoll(h)
  BY <1>0, <1>2, Zenon DEF ResetPoll
<1>3. CASE ResetExec(h)
  BY <1>0, <1>3, Zenon DEF ResetExec
<1>4. CASE EnableThread(h)
  BY <1>0, <1>4, Zenon DEF EnableThread
<1>5. CASE SwitchOn(h)
  BY <1>0, <1>5, Zenon DEF SwitchOn
<1>6. CASE PollSwitched(h)
  BY <1>0, <1>6, Zenon DEF PollSwitched
<1>7. CASE Generate(h)
  BY <1>0, <1>7, Zenon DEF Generate
<1>8. CASE WriteInst(h)
  BY <1>0, <1>8, Zenon DEF WriteInst
<1>9. CASE ResetOutput(h)
  BY <1>0, <1>9, Zenon DEF ResetOutput
<1>10. CASE ArmPoll(h)
  BY <1>0, <1>10, Zenon DEF ArmPoll
<1>11. CASE StartExec(h)
  BY <1>0, <1>11, Zenon DEF StartExec
<1>12. CASE Wait(h)
  BY <1>0, <1>12, Zenon DEF Wait
<1>13. CASE ReadOutput(h)
  BY <1>0, <1>13 DEF ReadOutput
<1>14. CASE SwitchOff(h)
  BY <1>0, <1>14, Zenon DEF SwitchOff
<1>15. CASE PollEnable(h)
  BY <1>0, <1>15, Zenon DEF PollEnable
<1>16. CASE StopThread(h)
  BY <1>0, <1>16, Zenon DEF StopThread
<1>17. CASE JoinThread(h)
  BY <1>0, <1>17, Zenon DEF JoinThread
<1> QED
  BY Zenon, <1>1, <1>2, <1>3, <1>4, <1>5, <1>6, <1>7, <1>8, <1>9, <1>10, <1>11, <1>12, <1>13,
     <1>14, <1>15, <1>16, <1>17 DEF HostStep

\* They keep the types.
LEMMA HostTypes ==
  ASSUME IInv, NEW h \in Hosts, Throw(h) \/ (HostStep(h) /\ ~Release(h))
  PROVE  Types'
<1> USE HostAssumption DEF Types, TypeOK, Goto, regVars, thrVars, hostData, bounds
<1>0. Types
  BY Zenon DEF IInv
<1>1. CASE Throw(h)
  BY <1>0, <1>1, Zenon DEF Throw, HostPC
<1>2. CASE ResetPoll(h)
  BY <1>0, <1>2, Zenon DEF ResetPoll, HostPC
<1>3. CASE ResetExec(h)
  BY <1>0, <1>3, Zenon DEF ResetExec, HostPC
<1>4. CASE EnableThread(h)
  BY <1>0, <1>4, Zenon DEF EnableThread, HostPC, WorkerPC
<1>5. CASE SwitchOn(h)
  BY <1>0, <1>5, Zenon DEF SwitchOn, HostPC, written_control
<1>6. CASE PollSwitched(h)
  BY <1>0, <1>6, Zenon DEF PollSwitched, HostPC
<1>7. CASE Generate(h)
  BY <1>0, <1>7, Zenon DEF Generate, HostPC
<1>8. CASE WriteInst(h)
  <2>1. pc[h] \in Runs /\ Holding(h)
    BY <1>8, Zenon DEF WriteInst, Holding, Runs
  <2>2. step[h] \in 1 .. Execs(h)
    BY <2>1, HolderFacts, RequestFacts, <1>0 DEF Progress
  <2>3. req[h].rows[step[h]] \in 1 .. NumRows /\ req[h].no \in Nat
    BY Zenon, <2>2, RequestFacts, <1>0
  <2>4. TraceOf(h, step[h]) \in [id : Ids, n : 1 .. NumRows]
    BY <2>2, <2>3, RequestFacts, <1>0, Zenon DEF TraceOf, Ids, Service!TraceId
  <2> QED
    BY <1>0, <2>4, <1>8, Zenon DEF WriteInst, HostPC
<1>9. CASE ResetOutput(h)
  BY <1>0, <1>9 DEF ResetOutput, HostPC
<1>10. CASE ArmPoll(h)
  BY <1>0, <1>10, Zenon DEF ArmPoll, HostPC
<1>11. CASE StartExec(h)
  BY <1>0, <1>11, Zenon DEF StartExec, HostPC
<1>12. CASE Wait(h)
  BY <1>0, <1>12, Zenon DEF Wait, HostPC
<1>13. CASE ReadOutput(h)
  <2>1. out' = [g \in Hosts |-> out'[g]] /\ req' = req
    BY Zenon, <1>0, <1>13 DEF ReadOutput
  <2>2. TypeOK'
    BY <1>0, <1>13 DEF ReadOutput, HostPC
  <2> QED
    BY Zenon, <1>0, <2>1, <2>2 DEF Types
<1>14. CASE SwitchOff(h)
  BY <1>0, <1>14, Zenon DEF SwitchOff, HostPC, written_control
<1>15. CASE PollEnable(h)
  BY <1>0, <1>15, Zenon DEF PollEnable, HostPC
<1>16. CASE StopThread(h)
  BY <1>0, <1>16, Zenon DEF StopThread, HostPC
<1>17. CASE JoinThread(h)
  BY <1>0, <1>17, Zenon DEF JoinThread, HostPC, WorkerPC
<1> QED
  BY Zenon, <1>1, <1>2, <1>3, <1>4, <1>5, <1>6, <1>7, <1>8, <1>9, <1>10, <1>11, <1>12, <1>13,
     <1>14, <1>15, <1>16, <1>17 DEF HostStep

\* What is read from the output buffer is what the service delivers.
LEMMA ReadsExpected ==
  ASSUME IInv, NEW h \in Hosts, pc[h] = "read"
  PROVE  [r \in 1 .. req[h].rows[step[h]] |-> mem[cu[h]][r - 1]]
           = Service!Expected(h, req[h], step[h])
<1>1. Holding(h) /\ pc[h] \in Runs
  BY Zenon DEF Holding, Runs
<1>2. Types /\ Unit(h) /\ Progress(h) /\ step[h] \in 1 .. Execs(h)
  BY <1>1, HolderFacts, RequestFacts DEF IInv, Progress
<1>3. req[h].rows[step[h]] \in 1 .. NumRows /\ NumRows \in Nat
  BY Zenon, <1>2, RequestFacts, RowAssumption
<1>4. Summed(h, req[h].rows[step[h]])
  BY Zenon, <1>2 DEF Unit
<1>5. ASSUME NEW r \in 1 .. req[h].rows[step[h]]
      PROVE  mem[cu[h]][r - 1] = <<Service!TraceId(h, req[h], step[h])>>
  BY <1>3, <1>4 DEF Summed, RowIdx
<1> QED
  BY Zenon, <1>5 DEF Service!Expected

\* Reading an output gives the host that execution and leaves the others.
LEMMA ReadGives ==
  ASSUME IInv, NEW h \in Hosts, ReadOutput(h)
  PROVE  Given(h)' = out'[h]
<1>1. pc[h] = "read" /\ Holding(h) /\ pc[h] \in Runs
  BY Zenon DEF ReadOutput, Holding, Runs
<1>2. Types /\ Progress(h) /\ step[h] \in 1 .. Execs(h) /\ step \in [Hosts -> Nat \ {0}]
  BY <1>1, HolderFacts, RequestFacts, SMTT(60) DEF IInv, Progress, Types, TypeOK
<1>3. DOMAIN req[h].rows = 1 .. Execs(h) /\ Execs(h) \in Nat
  BY Zenon, <1>2, RequestFacts
<1> DEFINE E == Service!Expected(h, req[h], step[h])
<1>4. out[h] = Given(h) /\ out = [g \in Hosts |-> out[g]]
  BY Zenon, <1>2 DEF Progress, Types
<1>5. /\ out' = [out EXCEPT ![h][step[h]]["PSUM"] = E]
      /\ req' = req /\ step' = [step EXCEPT ![h] = step[h] + 1]
  BY Zenon, <1>1, ReadsExpected DEF ReadOutput
<1>6. out'[h] = [Given(h) EXCEPT ![step[h]]["PSUM"] = E] /\ step'[h] = step[h] + 1
  BY Zenon, <1>2, <1>4, <1>5
<1>7. Given(h)' = [i \in DOMAIN req[h].rows |-> [b \in Service!Blocks |->
        IF b = "PSUM" /\ i < step[h] + 1 THEN Service!Expected(h, req[h], i) ELSE <<>>]]
  BY Zenon, <1>5, <1>6 DEF Given
<1>8. \A i \in 1 .. Execs(h) : i < step[h] + 1 <=> (i < step[h] \/ i = step[h])
  BY <1>2, <1>3
<1>9. ASSUME NEW i \in 1 .. Execs(h) PROVE out'[h][i] = Given(h)'[i]
  <2>1. Given(h)'[i] = [b \in Service!Blocks |->
          IF b = "PSUM" /\ i < step[h] + 1 THEN Service!Expected(h, req[h], i) ELSE <<>>]
    BY Zenon, <1>3, <1>7
  <2>2. Given(h)[i] = [b \in Service!Blocks |->
          IF b = "PSUM" /\ i < step[h] THEN Service!Expected(h, req[h], i) ELSE <<>>]
    BY Zenon, <1>3 DEF Given
  <2>3. DOMAIN Given(h) = 1 .. Execs(h)
    BY Zenon, <1>3 DEF Given
  <2>4. CASE i = step[h]
    <3>1. out'[h][i] = [Given(h)[i] EXCEPT !["PSUM"] = E]
      BY Zenon, <2>3, <2>4, <1>2, <1>6
    <3>2. i < step[h] + 1
      BY <1>2, <2>4
    <3> QED
      BY <2>1, <2>2, <2>4, <3>1, <3>2
  <2>5. CASE i # step[h]
    <3>1. out'[h][i] = Given(h)[i]
      BY Zenon, <2>3, <2>5, <1>6
    <3>2. i < step[h] + 1 <=> i < step[h]
      BY <1>2, <1>8, <2>5, Zenon
    <3> QED
      BY Zenon, <2>1, <2>2, <3>1, <3>2
  <2> QED
    BY Zenon, <2>4, <2>5
<1> QED
  BY Zenon, <1>3, <1>6, <1>7, <1>9 DEF Given

\* The holder's progress through its executions.
LEMMA HostProgress ==
  ASSUME IInv, NEW h \in Hosts, Throw(h) \/ (HostStep(h) /\ ~Release(h))
  PROVE  Holding(h) /\ Holding(h)' /\ Progress(h)'
<1> USE DEF Goto, regVars, thrVars, hostData, bounds, Holding, Begins, Runs, Ends
<1>0. pc \in [Hosts -> HostPC] /\ failed \in [Hosts -> BOOLEAN] /\ step \in [Hosts -> Nat \ {0}]
  BY Zenon DEF IInv, Types, TypeOK
<1>a. Progress(h) /\ Execs(h) \in Nat \ {0}
  BY Zenon, RequestFacts DEF IInv
<1>b. ASSUME step' = step, req' = req, out' = out
      PROVE  Given(h)' = Given(h) /\ Execs(h)' = Execs(h)
  BY Zenon, <1>b DEF Given, Execs
<1>1. CASE Throw(h)
  BY <1>0, <1>a, <1>b, <1>1, Zenon DEF Throw, Progress
<1>2. CASE ResetPoll(h)
  BY <1>0, <1>a, <1>b, <1>2, Zenon DEF ResetPoll, Progress
<1>3. CASE ResetExec(h)
  BY <1>0, <1>a, <1>b, <1>3, Zenon DEF ResetExec, Progress
<1>4. CASE EnableThread(h)
  BY <1>0, <1>a, <1>b, <1>4, Zenon DEF EnableThread, Progress
<1>5. CASE SwitchOn(h)
  BY <1>0, <1>a, <1>b, <1>5, Zenon DEF SwitchOn, Progress
<1>6. CASE PollSwitched(h)
  BY <1>0, <1>a, <1>b, <1>6 DEF PollSwitched, Progress
<1>7. CASE Generate(h)
  BY <1>0, <1>a, <1>b, <1>7, Zenon DEF Generate, Progress
<1>8. CASE WriteInst(h)
  BY <1>0, <1>a, <1>b, <1>8, Zenon DEF WriteInst, Progress
<1>9. CASE ResetOutput(h)
  BY <1>0, <1>a, <1>b, <1>9, Zenon DEF ResetOutput, Progress
<1>10. CASE ArmPoll(h)
  BY <1>0, <1>a, <1>b, <1>10, Zenon DEF ArmPoll, Progress
<1>11. CASE StartExec(h)
  BY <1>0, <1>a, <1>b, <1>11, Zenon DEF StartExec, Progress
<1>12. CASE Wait(h)
  BY <1>0, <1>a, <1>b, <1>12, Zenon DEF Wait, Progress
<1>13. CASE ReadOutput(h)
  <2>1. Execs(h)' = Execs(h)
    BY Zenon, <1>13 DEF ReadOutput, Execs
  <2>2. /\ pc'[h] = IF step[h] < Execs(h) THEN "generate" ELSE "unswitch"
        /\ step'[h] = step[h] + 1 /\ failed'[h] = failed[h] /\ pc[h] = "read"
        /\ step[h] \in Nat
    BY <1>0, <1>13, Zenon DEF ReadOutput
  <2> QED
    BY <1>a, <2>1, <2>2, <1>13, ReadGives DEF Progress
<1>14. CASE SwitchOff(h)
  BY <1>0, <1>a, <1>b, <1>14, Zenon DEF SwitchOff, Progress
<1>15. CASE PollEnable(h)
  BY <1>0, <1>a, <1>b, <1>15, Zenon DEF PollEnable, Progress
<1>16. CASE StopThread(h)
  BY <1>0, <1>a, <1>b, <1>16, Zenon DEF StopThread, Progress
<1>17. CASE JoinThread(h)
  BY <1>0, <1>a, <1>b, <1>17, Zenon DEF JoinThread, Progress
<1> QED
  BY Zenon, <1>1, <1>2, <1>3, <1>4, <1>5, <1>6, <1>7, <1>8, <1>9, <1>10, <1>11, <1>12, <1>13,
     <1>14, <1>15, <1>16, <1>17 DEF HostStep

\* The holder's unit.
LEMMA HostUnit ==
  ASSUME IInv, NEW h \in Hosts, Throw(h) \/ (HostStep(h) /\ ~Release(h))
  PROVE  Unit(h)'
<1> USE DEF Goto, regVars, thrVars, hostData, bounds, Unit, ThreadOn, Spinning, Runs, Ends
<1>0. /\ pc \in [Hosts -> HostPC] /\ step \in [Hosts -> Nat \ {0}]
      /\ exec_sls \in [Cunits -> {"ENABLE", "DISABLE"}] /\ psum_poll \in [Cunits -> {"RESET", "FINISH"}]
      /\ inst \in [Cunits -> [id : Ids, n : 1 .. NumRows]]
      /\ mem \in [Cunits -> [RowIdx -> Seq(Ids)]]
      /\ wpc \in [Procs -> [Cunits -> WorkerPC]]
  BY Zenon DEF IInv, Types, TypeOK
<1>a. cu[h] \in Cunits /\ ProcOf[h] \in Procs /\ Unit(h)
  BY Zenon, HostProgress, HolderFacts
<1>b. ASSUME step' = step, req' = req, cu' = cu, mem' = mem
      PROVE  \A k : Summed(h, k)' <=> Summed(h, k)
  BY Zenon, <1>b DEF Summed
<1>c. ASSUME step' = step, req' = req
      PROVE  TraceOf(h, step[h])' = TraceOf(h, step[h]) /\ (req[h].rows[step[h]])' = req[h].rows[step[h]]
  BY Zenon, <1>c DEF TraceOf
<1>1. CASE Throw(h)
  BY <1>0, <1>a, <1>b, <1>c, <1>1, Zenon DEF Throw
<1>2. CASE ResetPoll(h)
  BY <1>0, <1>a, <1>b, <1>c, <1>2, Zenon DEF ResetPoll
<1>3. CASE ResetExec(h)
  BY <1>0, <1>a, <1>b, <1>c, <1>3, Zenon DEF ResetExec
<1>4. CASE EnableThread(h)
  BY <1>0, <1>a, <1>b, <1>c, <1>4, Zenon DEF EnableThread
<1>5. CASE SwitchOn(h)
  BY <1>0, <1>a, <1>b, <1>c, <1>5, Zenon DEF SwitchOn
<1>6. CASE PollSwitched(h)
  BY <1>0, <1>a, <1>b, <1>c, <1>6, Zenon DEF PollSwitched
<1>7. CASE Generate(h)
  BY <1>0, <1>a, <1>b, <1>c, <1>7, Zenon DEF Generate
<1>8. CASE WriteInst(h)
  BY <1>0, <1>a, <1>b, <1>c, <1>8, Zenon DEF WriteInst
<1>9. CASE ResetOutput(h)
  <2>1. /\ mem'[cu[h]] =
              [r \in RowIdx |-> IF r < req[h].rows[step[h]] THEN <<>> ELSE mem[cu[h]][r]]
        /\ step' = step /\ req' = req /\ cu' = cu
    BY <1>0, <1>a, <1>9, Zenon DEF ResetOutput
  <2>2. \A r \in RowIdx : ~(r < 0)
    BY RowAssumption DEF RowIdx
  <2>3. Summed(h, 0)'
    BY Zenon, <2>1, <2>2 DEF Summed
  <2> QED
    BY <1>0, <1>a, <1>c, <1>9, <2>3, Zenon DEF ResetOutput
<1>10. CASE ArmPoll(h)
  BY <1>0, <1>a, <1>b, <1>c, <1>10, Zenon DEF ArmPoll
<1>11. CASE StartExec(h)
  BY <1>0, <1>a, <1>b, <1>c, <1>11, Zenon DEF StartExec, Flight
<1>12. CASE Wait(h)
  BY <1>0, <1>a, <1>b, <1>c, <1>12, Zenon DEF Wait, Flight
<1>13. CASE ReadOutput(h)
  BY <1>0, <1>a, <1>b, <1>c, <1>13, Zenon DEF ReadOutput
<1>14. CASE SwitchOff(h)
  BY <1>0, <1>a, <1>b, <1>c, <1>14, Zenon DEF SwitchOff
<1>15. CASE PollEnable(h)
  BY <1>0, <1>a, <1>b, <1>c, <1>15, Zenon DEF PollEnable
<1>16. CASE StopThread(h)
  BY <1>0, <1>a, <1>b, <1>c, <1>16, Zenon DEF StopThread
<1>17. CASE JoinThread(h)
  BY <1>0, <1>a, <1>b, <1>c, <1>17, Zenon DEF JoinThread
<1> QED
  BY Zenon, <1>1, <1>2, <1>3, <1>4, <1>5, <1>6, <1>7, <1>8, <1>9, <1>10, <1>11, <1>12, <1>13,
     <1>14, <1>15, <1>16, <1>17 DEF HostStep

\* A worker that is on works for the host that holds its unit.
LEMMA WorkerHost ==
  ASSUME IInv, NEW p \in Procs, NEW c \in Cunits, wpc[p][c] # "off"
  PROVE  owner[c] \in Hosts /\ Holding(owner[c]) /\ ProcOf[owner[c]] = p /\ cu[owner[c]] = c
<1>1. owner[c] # NoHost /\ ProcOf[owner[c]] = p
  BY Zenon DEF IInv, Workers
<1>2. owner \in [Cunits -> Hosts \cup {NoHost}]
  BY Zenon DEF IInv, Types, TypeOK
<1> QED
  BY Zenon, <1>1, <1>2 DEF IInv, Ownership

\* An execution in flight has been started by a waiting host.
LEMMA WorkerFlight ==
  ASSUME IInv, NEW h \in Hosts, Holding(h),
         wpc[ProcOf[h]][cu[h]] \in {"exec", "disarm", "finish"}
  PROVE  /\ pc[h] = "wait" /\ Flight(h) /\ inst[cu[h]] = TraceOf(h, step[h])
         /\ req[h].rows[step[h]] \in 1 .. NumRows
<1>1. Types /\ Unit(h) /\ Progress(h) /\ step[h] \in Nat \ {0}
  BY Zenon, HolderFacts DEF IInv
<1>2. pc[h] = "wait"
  BY Zenon, <1>1 DEF Unit, Spinning, ThreadOn, Runs, Ends
<1>3. step[h] \in 1 .. Execs(h)
  BY <1>1, <1>2, RequestFacts, SMTT(60) DEF Progress, Runs
<1> QED
  BY Zenon, <1>1, <1>2, <1>3, RequestFacts DEF Unit

\* The row that a worker is about to add to.
LEMMA WorkerRow ==
  ASSUME IInv, NEW h \in Hosts, Holding(h), wpc[ProcOf[h]][cu[h]] = "exec"
  PROVE  /\ exec_sls[cu[h]] = "ENABLE" /\ psum_poll[cu[h]] = "RESET"
         /\ wrow[ProcOf[h]][cu[h]] \in RowIdx
         /\ wrow[ProcOf[h]][cu[h]] < req[h].rows[step[h]]
         /\ Summed(h, wrow[ProcOf[h]][cu[h]])
<1>1. Flight(h) /\ req[h].rows[step[h]] \in 1 .. NumRows
  BY Zenon, WorkerFlight
<1>2. wrow[ProcOf[h]][cu[h]] \in 0 .. NumRows
  <2>1. wrow \in [Procs -> [Cunits -> 0 .. NumRows]]
    BY Zenon DEF IInv, Types, TypeOK
  <2> QED
    BY Zenon, <2>1, HolderFacts
<1> QED
  BY <1>1, <1>2, RowAssumption, SMTT(60) DEF Flight, Spinning, RowIdx

\* Storing into one cell of a table.
LEMMA GridType ==
  ASSUME NEW P, NEW C, NEW S, NEW f \in [P -> [C -> S]], NEW p \in P, NEW c \in C, NEW s \in S
  PROVE  [f EXCEPT ![p][c] = s] \in [P -> [C -> S]]
BY Zenon

\* Worker steps keep the types.
LEMMA WorkerTypes ==
  ASSUME IInv, NEW p \in Procs, NEW c \in Cunits, WorkerStep(p, c)
  PROVE  Types'
<1> USE RowAssumption DEF WGoto, regVars, thrVars, hostData, bounds, Types, TypeOK, WorkerPC
<1>0. Types
  BY Zenon DEF IInv
<1>1. CASE WorkerBegin(p, c)
  BY <1>0, <1>1, Zenon DEF WorkerBegin
<1>2. CASE WorkerCheckStop(p, c)
  BY <1>0, <1>2, Zenon DEF WorkerCheckStop
<1>3. CASE WorkerLoad(p, c)
  <2>1. wpc' \in [Procs -> [Cunits -> WorkerPC]] /\ wrow' \in [Procs -> [Cunits -> 0 .. NumRows]]
    <3>1. CASE exec_sls[c] # "ENABLE"
      <4>1. wpc' = [wpc EXCEPT ![p][c] = "loop"] /\ wrow' = wrow
        BY Zenon, <1>3, <3>1 DEF WorkerLoad
      <4> QED
        BY Zenon, <1>0, <4>1, GridType
    <3>2. CASE exec_sls[c] = "ENABLE"
      <4>1. wpc' = [wpc EXCEPT ![p][c] = "exec"] /\ wrow' = [wrow EXCEPT ![p][c] = 0]
        BY Zenon, <1>3, <3>2 DEF WorkerLoad
      <4>2. 0 \in 0 .. NumRows /\ "exec" \in WorkerPC
        BY SMT
      <4> QED
        BY Zenon, <1>0, <4>1, <4>2, GridType
    <3> QED
      BY Zenon, <3>1, <3>2
  <2> QED
    BY Zenon, <1>0, <1>3, <2>1 DEF WorkerLoad
<1>4. CASE WorkerExec(p, c)
  <2>0. wpc[p][c] = "exec" /\ wpc[p][c] # "off"
    BY <1>4, Zenon DEF WorkerExec
  <2>1. wrow[p][c] \in RowIdx
    <3>1. owner[c] \in Hosts /\ Holding(owner[c]) /\ ProcOf[owner[c]] = p /\ cu[owner[c]] = c
      BY Zenon, <2>0, WorkerHost
    <3>2. wpc[ProcOf[owner[c]]][cu[owner[c]]] = "exec"
      BY Zenon, <2>0, <3>1
    <3>3. wrow[ProcOf[owner[c]]][cu[owner[c]]] \in RowIdx
      BY Zenon, <3>1, <3>2, WorkerRow
    <3> QED
      BY Zenon, <3>1, <3>3
  <2>2. inst[c].id \in Ids /\ mem[c] \in [RowIdx -> Seq(Ids)]
    BY <1>0, Zenon
  <2>3. mem' \in [Cunits -> [RowIdx -> Seq(Ids)]]
    BY <1>0, <2>1, <2>2, <1>4 DEF WorkerExec
  <2>4. wrow' \in [Procs -> [Cunits -> 0 .. NumRows]]
    BY <1>0, <2>1, <1>4 DEF WorkerExec, RowIdx
  <2> QED
    BY <1>0, <1>4, <2>3, <2>4, Zenon DEF WorkerExec
<1>5. CASE WorkerComplete(p, c)
  <2>1. /\ wpc' \in [Procs -> [Cunits -> WorkerPC]]
        /\ exec_sls' \in [Cunits -> {"ENABLE", "DISABLE"}]
        /\ psum_poll' \in [Cunits -> {"RESET", "FINISH"}]
    <3>1. \/ /\ wpc' = [wpc EXCEPT ![p][c] = "finish"] /\ psum_poll' = psum_poll
             /\ exec_sls' = [exec_sls EXCEPT ![c] = "DISABLE"]
          \/ /\ wpc' = [wpc EXCEPT ![p][c] = "loop"] /\ exec_sls' = exec_sls
             /\ psum_poll' = [psum_poll EXCEPT ![c] = "FINISH"]
      BY Zenon, <1>5 DEF WorkerComplete
    <3>2. wpc' \in [Procs -> [Cunits -> WorkerPC]]
      <4>1. wpc \in [Procs -> [Cunits -> WorkerPC]] /\ "finish" \in WorkerPC /\ "loop" \in WorkerPC
        BY Zenon, <1>0
      <4> QED
        BY <4>1, <3>1
    <3> QED
      BY <1>0, <3>1, <3>2, Zenon
  <2> QED
    BY Zenon, <1>0, <1>5, <2>1 DEF WorkerComplete
<1> QED
  BY Zenon, <1>1, <1>2, <1>3, <1>4, <1>5 DEF WorkerStep

\* A worker's steps are local to its unit.
LEMMA WorkerLocal ==
  ASSUME Types, NEW h \in Hosts, WorkerStep(ProcOf[h], cu[h])
  PROVE  LocalTo(h)
<1> USE HostAssumption DEF WGoto, LocalTo, regVars, thrVars, hostData, bounds, Types, TypeOK
<1>1. CASE WorkerBegin(ProcOf[h], cu[h])
  BY <1>1, Zenon DEF WorkerBegin
<1>2. CASE WorkerCheckStop(ProcOf[h], cu[h])
  BY <1>2, Zenon DEF WorkerCheckStop
<1>3. CASE WorkerLoad(ProcOf[h], cu[h])
  BY <1>3 DEF WorkerLoad
<1>4. CASE WorkerExec(ProcOf[h], cu[h])
  BY <1>4, ZenonT(60) DEF WorkerExec
<1>5. CASE WorkerComplete(ProcOf[h], cu[h])
  BY <1>5 DEF WorkerComplete
<1> QED
  BY Zenon, <1>1, <1>2, <1>3, <1>4, <1>5 DEF WorkerStep

\* The unit that a worker works on.
LEMMA WorkerUnit ==
  ASSUME IInv, NEW h \in Hosts, Holding(h), WorkerStep(ProcOf[h], cu[h])
  PROVE  Unit(h)'
<1> DEFINE p == ProcOf[h]
           c == cu[h]
           n == req[h].rows[step[h]]
           f == psum_poll[cu[h]]
<1>0. /\ exec_sls \in [Cunits -> {"ENABLE", "DISABLE"}] /\ psum_poll \in [Cunits -> {"RESET", "FINISH"}]
      /\ mem \in [Cunits -> [RowIdx -> Seq(Ids)]]
      /\ wpc \in [Procs -> [Cunits -> WorkerPC]]
      /\ wrow \in [Procs -> [Cunits -> 0 .. NumRows]]
  BY Zenon DEF IInv, Types, TypeOK
<1>a. c \in Cunits /\ p \in Procs /\ Unit(h)
  BY Zenon, HolderFacts
<1>b. /\ pc' = pc /\ step' = step /\ req' = req /\ cu' = cu /\ inst' = inst
  BY Zenon DEF WorkerStep, WorkerBegin, WorkerCheckStop, WorkerLoad, WorkerExec, WorkerComplete,
               hostData
<1>c. TraceOf(h, step[h])' = TraceOf(h, step[h]) /\ n' = n /\ (ThreadOn(h)' <=> ThreadOn(h))
  BY Zenon, <1>b DEF TraceOf, ThreadOn
<1>d. ASSUME mem' = mem PROVE \A k : Summed(h, k)' <=> Summed(h, k)
  BY Zenon, <1>b, <1>d DEF Summed
<1>e. pc[h] \in Runs => n \in 1 .. NumRows
  <2>1. Types /\ Progress(h) /\ step[h] \in Nat \ {0}
    BY Zenon, HolderFacts DEF IInv
  <2>2. pc[h] \in Runs => step[h] \in 1 .. Execs(h)
    BY <2>1, RequestFacts DEF Progress
  <2> QED
    BY Zenon, <2>1, <2>2, RequestFacts
<1>1. CASE WorkerBegin(p, c)
  <2>1. /\ wpc[p][c] = "queued" /\ wpc'[p][c] = "loop" /\ wrow' = wrow
        /\ mem' = mem /\ exec_sls' = exec_sls /\ psum_poll' = psum_poll
    BY <1>0, <1>a, <1>1, Zenon DEF WorkerBegin, WGoto, regVars
  <2> QED
    BY <1>a, <1>b, <1>c, <1>d, <2>1, Zenon DEF Unit, Flight, Spinning
<1>2. CASE WorkerCheckStop(p, c)
  <2>1. /\ wpc[p][c] = "loop" /\ wpc'[p][c] \in {"done", "load"} /\ wrow' = wrow
        /\ mem' = mem /\ exec_sls' = exec_sls /\ psum_poll' = psum_poll
    BY <1>0, <1>a, <1>2, Zenon DEF WorkerCheckStop, WGoto, regVars
  <2> QED
    BY <1>a, <1>b, <1>c, <1>d, <2>1, Zenon DEF Unit, Flight, Spinning
<1>3. CASE WorkerLoad(p, c)
  <2>0. wpc[p][c] = "load" /\ mem' = mem /\ exec_sls' = exec_sls /\ psum_poll' = psum_poll
    BY Zenon, <1>3 DEF WorkerLoad, regVars
  <2>1. CASE exec_sls[c] # "ENABLE"
    <3>1. wpc'[p][c] = "loop" /\ wrow' = wrow
      BY <1>0, <1>a, <1>3, <2>1, SMTT(60) DEF WorkerLoad, WGoto
    <3> QED
      BY <1>a, <1>b, <1>c, <1>d, <2>0, <3>1, Zenon DEF Unit, Flight, Spinning
  <2>2. CASE exec_sls[c] = "ENABLE"
    <3>1. wpc'[p][c] = "exec" /\ wrow'[p][c] = 0
      BY <1>0, <1>a, <1>3, <2>2 DEF WorkerLoad, WGoto
    <3>2. pc[h] = "wait"
      BY <1>a, <2>0, <2>2, Zenon DEF Unit, ThreadOn, Runs, Ends
    <3>3. n \in Nat \ {0}
      BY <3>2, <1>e, RowAssumption DEF Runs
    <3>4. f = "RESET" /\ Summed(h, 0)'
      BY <1>a, <1>d, <2>0, <2>2, <3>2, Zenon DEF Unit, Flight, Spinning
    <3>5. Flight(h)'
      BY <1>b, <1>c, <2>0, <2>2, <3>1, <3>3, <3>4, SMTT(60) DEF Flight
    <3> QED
      BY <1>a, <1>b, <1>c, <2>0, <3>1, <3>2, <3>5, Zenon DEF Unit, Spinning
  <2> QED
    BY Zenon, <2>1, <2>2
<1>4. CASE WorkerExec(p, c)
  <2> DEFINE w == wrow[p][c]
             id == Service!TraceId(h, req[h], step[h])
  <2>0. wpc[p][c] = "exec" /\ exec_sls' = exec_sls /\ psum_poll' = psum_poll
    BY Zenon, <1>4 DEF WorkerExec, regVars
  <2>1. /\ pc[h] = "wait" /\ inst[c].id = id /\ inst[c].n = n /\ n \in 1 .. NumRows
        /\ inst[c] = TraceOf(h, step[h])
    <3>1. pc[h] = "wait" /\ inst[c] = TraceOf(h, step[h]) /\ n \in 1 .. NumRows
      BY Zenon, <2>0, WorkerFlight
    <3> QED
      BY <3>1, SMTT(60) DEF TraceOf
  <2>2. /\ exec_sls[c] = "ENABLE" /\ f = "RESET" /\ w \in RowIdx /\ w < n /\ Summed(h, w)
    BY Zenon, <2>0, WorkerRow
  <2>3. /\ mem'[c] = [mem[c] EXCEPT ![w] = Append(@, id)] /\ wrow'[p][c] = w + 1
        /\ wpc'[p][c] = IF w + 1 < n THEN "exec" ELSE "disarm"
    BY <1>0, <1>a, <2>1, <1>4, Zenon DEF WorkerExec, WGoto
  <2>4. Summed(h, wrow[p][c])'
    <3>1. mem[c][w] = <<>> /\ w \in Nat /\ mem[c] \in [RowIdx -> Seq(Ids)]
      BY <1>0, <1>a, <2>2, RowAssumption, SMTT(60) DEF Summed, RowIdx
    <3>2. Append(mem[c][w], id) = <<id>>
      BY <3>1, SMTT(60)
    <3>3. ASSUME NEW r \in RowIdx, r < n
          PROVE  mem'[c][r] = IF r < w + 1 THEN <<id>> ELSE <<>>
      <4>1. CASE r = w
        BY <4>1, <2>3, <3>1, <3>2
      <4>2. CASE r # w
        <5>1. mem'[c][r] = mem[c][r]
          BY Zenon, <4>2, <2>3, <3>1
        <5>2. r < w + 1 <=> r < w
          BY <4>2, <3>1, RowAssumption, SMTT(60) DEF RowIdx
        <5> QED
          BY Zenon, <5>1, <5>2, <3>3, <2>2 DEF Summed
      <4> QED
        BY Zenon, <4>1, <4>2
    <3>4. id' = id
      BY Zenon, <1>b
    <3> QED
      BY Zenon, <1>b, <1>c, <2>3, <3>3, <3>4 DEF Summed
  <2>5. Flight(h)'
    <3>1. CASE w + 1 < n
      <4>1. wpc'[p][c] = "exec" /\ wrow'[p][c] < n /\ Summed(h, wrow[p][c])'
        BY Zenon, <2>3, <2>4, <3>1, <1>b
      <4> QED
        BY Zenon, <1>b, <1>c, <2>0, <2>2, <4>1 DEF Flight
    <3>2. CASE ~(w + 1 < n)
      <4>1. w + 1 = n
        BY <2>1, <2>2, <3>2, RowAssumption, SMTT(60) DEF RowIdx
      <4>2. wpc'[p][c] = "disarm" /\ Summed(h, n)'
        BY Zenon, <2>3, <2>4, <3>2, <4>1, <1>b, <1>c DEF Summed
      <4> QED
        BY Zenon, <1>b, <1>c, <2>0, <2>2, <4>2 DEF Flight
    <3> QED
      BY Zenon, <3>1, <3>2
  <2>6. wpc'[p][c] # "off"
    BY <2>3, Zenon
  <2> QED
    BY <1>a, <1>b, <1>c, <2>0, <2>1, <2>5, <2>6, Zenon DEF Unit
<1>5. CASE WorkerComplete(p, c)
  <2>0. mem' = mem /\ wpc[p][c] \in {"disarm", "finish"}
    BY Zenon, <1>5 DEF WorkerComplete
  <2>1. pc[h] = "wait" /\ Flight(h) /\ inst[c] = TraceOf(h, step[h])
    BY Zenon, <2>0, WorkerFlight
  <2>2. CASE wpc[p][c] = "disarm"
    <3>1. exec_sls'[c] = "DISABLE" /\ wpc'[p][c] = "finish" /\ psum_poll' = psum_poll
      BY <1>0, <1>a, <1>5, <2>2 DEF WorkerComplete, WGoto
    <3>2. Flight(h)'
      BY <1>b, <1>c, <1>d, <2>0, <2>1, <2>2, <3>1, Zenon DEF Flight, Spinning
    <3> QED
      BY <1>a, <1>b, <1>c, <2>0, <2>1, <3>1, <3>2, Zenon DEF Unit
  <2>3. CASE wpc[p][c] = "finish"
    <3>1. psum_poll'[c] = "FINISH" /\ wpc'[p][c] = "loop" /\ exec_sls' = exec_sls
      BY <1>0, <1>a, <1>5, <2>3, SMTT(60) DEF WorkerComplete, WGoto
    <3>2. Flight(h)'
      BY <1>b, <1>c, <1>d, <2>0, <2>1, <2>3, <3>1, Zenon DEF Flight, Spinning
    <3> QED
      BY <1>a, <1>b, <1>c, <2>0, <2>1, <3>1, <3>2, Zenon DEF Unit
  <2> QED
    BY Zenon, <2>0, <2>2, <2>3
<1> QED
  BY Zenon, <1>1, <1>2, <1>3, <1>4, <1>5 DEF WorkerStep

-----------------------------------------------------------------------------
(* The four steps that change who holds a unit, and the whole of Next.     *)

\* A step of a holder or of a worker keeps the invariant.
LEMMA LocalStepsInv ==
  ASSUME IInv, \/ \E h \in Hosts : Throw(h) \/ (HostStep(h) /\ ~Release(h))
               \/ \E p \in Procs, c \in Cunits : WorkerStep(p, c)
  PROVE  IInv'
<1>1. ASSUME NEW h \in Hosts, Throw(h) \/ (HostStep(h) /\ ~Release(h))
      PROVE  IInv'
  <2>1. Types
    BY Zenon DEF IInv
  <2> QED
    BY Zenon, <1>1, <2>1, HostTypes, HostLocal, HostProgress, HostUnit, LocalStep
<1>2. ASSUME NEW p \in Procs, NEW c \in Cunits, WorkerStep(p, c)
      PROVE  IInv'
  <2>1. wpc[p][c] # "off"
    BY <1>2, Zenon DEF WorkerStep, WorkerBegin, WorkerCheckStop, WorkerLoad, WorkerExec, WorkerComplete
  <2>2. PICK h \in Hosts : Holding(h) /\ ProcOf[h] = p /\ cu[h] = c
    <3>1. owner[c] \in Hosts /\ Holding(owner[c]) /\ ProcOf[owner[c]] = p /\ cu[owner[c]] = c
      BY <2>1, WorkerHost, Zenon
    <3> QED
      BY Zenon, <3>1
  <2>3. WorkerStep(ProcOf[h], cu[h])
    BY Zenon, <1>2, <2>2
  <2>4. /\ pc' = pc /\ step' = step /\ req' = req /\ out' = out /\ failed' = failed
    BY Zenon, <1>2 DEF WorkerStep, WorkerBegin, WorkerCheckStop, WorkerLoad, WorkerExec,
                       WorkerComplete, hostData
  <2>5. Types /\ Progress(h)
    BY Zenon, <2>2 DEF IInv
  <2>6. Holding(h)' /\ Progress(h)'
    BY Zenon, <2>2, <2>4, <2>5, ProgressFrame DEF Holding
  <2> QED
    BY Zenon, <1>2, <2>2, <2>3, <2>5, <2>6, WorkerTypes, WorkerLocal, WorkerUnit, LocalStep
<1> QED
  BY Zenon, <1>1, <1>2

\* The hosts that a step does not concern, when it leaves the units alone.
LEMMA OthersKept ==
  ASSUME IInv, NEW g \in Hosts,
         pc'[g] = pc[g], step'[g] = step[g], req'[g] = req[g], out'[g] = out[g],
         failed'[g] = failed[g], cu'[g] = cu[g],
         exec_sls' = exec_sls, psum_poll' = psum_poll, inst' = inst, mem' = mem,
         wpc' = wpc, wrow' = wrow
  PROVE  (Holding(g)' <=> Holding(g)) /\ Progress(g)' /\ (Holding(g)' => Unit(g)')
<1>1. Holding(g)' <=> Holding(g)
  BY Zenon DEF Holding
<1>2. Progress(g)'
  BY Zenon, ProgressFrame DEF IInv
<1>3. Holding(g) => Unit(g)
  BY Zenon DEF IInv
<1> QED
  BY Zenon, <1>1, <1>2, <1>3, UnitFrame

\* A host that begins an operation has been given nothing of it.
LEMMA StartOpInv ==
  ASSUME IInv, NEW h \in Hosts, StartOp(h)
  PROVE  IInv'
<1> USE DEF StartOp, Goto, regVars, thrVars, bounds
<1>0. /\ Types /\ req[h].no \in Nat
      /\ pc \in [Hosts -> HostPC] /\ step \in [Hosts -> Nat \ {0}] /\ failed \in [Hosts -> BOOLEAN]
      /\ req \in [Hosts -> Reqs] /\ out = [g \in Hosts |-> out[g]]
  BY Zenon, RequestFacts DEF IInv, Types, TypeOK
<1>1. PICK q \in Service!Requests(req[h].no + 1) :
        req' = [req EXCEPT ![h] = q] /\ out' = [out EXCEPT ![h] = Service!Nothing(q)]
  BY Zenon
<1>2. q \in Reqs
  <2> DEFINE N == req[h].no + 1
             R == Seq(1 .. NumRows) \ {<<>>}
  <2>1. N \in Nat /\ Packs \subseteq SUBSET Cunits /\ Shapes \subseteq R
    BY <1>0, PackAssumption, RowAssumption
  <2>2. q \in [pack : Packs, tagged : {FALSE}, no : {N}, rows : Shapes]
    BY Zenon, <1>1 DEF Service!Requests
  <2>3. q \in [pack : SUBSET Cunits, tagged : {FALSE}, no : Nat, rows : R]
    <3> HIDE DEF N, R
    <3> QED BY <2>1, <2>2, Zenon
  <2> QED
    BY Zenon, <2>3 DEF Reqs
<1>3. /\ owner' = owner /\ exec_sls' = exec_sls /\ psum_poll' = psum_poll /\ control' = control
      /\ inst' = inst /\ mem' = mem /\ stop_flag' = stop_flag /\ wpc' = wpc /\ wrow' = wrow
      /\ cu' = cu
  BY Zenon
<1>4. /\ pc' \in [Hosts -> HostPC] /\ step' \in [Hosts -> Nat \ {0}]
      /\ failed' \in [Hosts -> BOOLEAN]
  BY <1>0 DEF HostPC
<1>5. req' \in [Hosts -> Reqs] /\ out' = [g \in Hosts |-> out'[g]]
  BY Zenon, <1>0, <1>1, <1>2
<1>6. Types'
  BY Zenon, <1>0, <1>3, <1>4, <1>5 DEF Types, TypeOK
<1>7. ASSUME NEW g \in Hosts, g # h
      PROVE  (Holding(g)' <=> Holding(g)) /\ Progress(g)' /\ (Holding(g)' => Unit(g)')
  <2>1. /\ pc'[g] = pc[g] /\ step'[g] = step[g] /\ req'[g] = req[g] /\ out'[g] = out[g]
        /\ failed'[g] = failed[g] /\ cu'[g] = cu[g]
    BY Zenon, <1>0, <1>1, <1>3, <1>7
  <2> QED
    BY Zenon, <2>1, <1>3, OthersKept
<1>8. /\ pc[h] = "idle" /\ pc'[h] = "acquire" /\ step'[h] = 1 /\ failed'[h] = FALSE
      /\ req'[h] = q /\ out'[h] = Service!Nothing(q)
  BY Zenon, <1>0, <1>1
<1>9. ~Holding(h) /\ ~Holding(h)'
  BY <1>8, Zenon DEF Holding, Begins, Runs, Ends
<1>10. Progress(h)'
  <2>1. /\ q.rows # <<>> /\ q.rows \in Seq(1 .. NumRows)
    BY <1>2, Zenon DEF Reqs
  <2>2. /\ DOMAIN q.rows = 1 .. Len(q.rows) /\ Len(q.rows) \in Nat \ {0}
    BY <2>1, SeqElements
  <2>3. \A i \in DOMAIN q.rows : ~(i < 1)
    BY <2>2
  <2>4. Given(h)' = Service!Nothing(q)
    BY Zenon, <1>8, <2>3 DEF Given, Service!Nothing
  <2>5. Execs(h)' = Len(q.rows)
    BY Zenon, <1>8 DEF Execs
  <2> QED
    BY <1>8, <2>2, <2>4, <2>5 DEF Progress, Runs, Ends
<1>11. Ownership'
  <2>1. \A g \in Hosts : Holding(g)' <=> Holding(g)
    BY Zenon, <1>7, <1>9
  <2>2. owner \in [Cunits -> Hosts \cup {NoHost}]
    BY Zenon, <1>0 DEF Types, TypeOK
  <2> QED
    BY Zenon, <1>3, <2>1, <2>2 DEF IInv, Ownership
<1>12. Workers'
  BY Zenon, <1>3 DEF IInv, Workers
<1> QED
  BY Zenon, <1>6, <1>7, <1>9, <1>10, <1>11, <1>12 DEF IInv

\* A host that acquires a unit finds it without a worker.
LEMMA AcquireInv ==
  ASSUME IInv, NEW h \in Hosts, Acquire(h)
  PROVE  IInv'
<1> USE HostAssumption DEF Acquire, Goto, regVars, thrVars, bounds
<1>0. /\ Types /\ pc \in [Hosts -> HostPC] /\ cu \in [Hosts -> Cunits]
      /\ owner \in [Cunits -> Hosts \cup {NoHost}] /\ req[h].pack \subseteq Cunits
  BY Zenon, RequestFacts DEF IInv, Types, TypeOK
<1>1. PICK c \in req[h].pack :
        owner[c] = NoHost /\ owner' = [owner EXCEPT ![c] = h] /\ cu' = [cu EXCEPT ![h] = c]
  BY Zenon
<1>2. c \in Cunits
  BY Zenon, <1>0, <1>1
<1>3. /\ exec_sls' = exec_sls /\ psum_poll' = psum_poll /\ control' = control
      /\ inst' = inst /\ mem' = mem /\ stop_flag' = stop_flag /\ wpc' = wpc /\ wrow' = wrow
      /\ req' = req /\ step' = step /\ out' = out /\ failed' = failed
  BY Zenon
<1>4. /\ pc' \in [Hosts -> HostPC] /\ cu' \in [Hosts -> Cunits]
      /\ owner' \in [Cunits -> Hosts \cup {NoHost}]
  BY <1>0, <1>1, <1>2, Zenon DEF HostPC
<1>5. Types'
  BY Zenon, <1>0, <1>3, <1>4, SMTT(60) DEF Types, TypeOK
<1>6. ASSUME NEW g \in Hosts, g # h
      PROVE  (Holding(g)' <=> Holding(g)) /\ Progress(g)' /\ (Holding(g)' => Unit(g)')
  <2>1. pc'[g] = pc[g] /\ cu'[g] = cu[g]
    BY Zenon, <1>0, <1>1, <1>6
  <2> QED
    BY Zenon, <2>1, <1>3, OthersKept
<1>7. pc[h] = "acquire" /\ pc'[h] = "resetPoll" /\ cu'[h] = c
  BY Zenon, <1>0, <1>1
<1>8. ~Holding(h) /\ Holding(h)'
  BY <1>7, Zenon DEF Holding, Begins, Runs, Ends
<1>9. Progress(h)'
  <2>1. Progress(h) /\ Given(h)' = Given(h) /\ Execs(h)' = Execs(h)
    BY Zenon, <1>3 DEF IInv, Given, Execs
  <2> QED
    BY <1>3, <1>7, <2>1, Zenon DEF Progress, Begins, Runs, Ends
<1>10. Unit(h)'
  <2>1. wpc[ProcOf[h]][c] = "off"
    BY Zenon, <1>1, <1>2 DEF IInv, Workers
  <2> QED
    BY <1>3, <1>7, <2>1, Zenon DEF Unit, ThreadOn, Runs, Ends
<1>11. Ownership'
  <2>1. ASSUME NEW g \in Hosts, Holding(g)' PROVE owner'[cu'[g]] = g
    <3>1. CASE g = h
      BY Zenon, <3>1, <1>0, <1>1, <1>2, <1>7
    <3>2. CASE g # h
      <4>1. Holding(g) /\ cu'[g] = cu[g] /\ cu[g] \in Cunits
        BY Zenon, <2>1, <3>2, <1>0, <1>1, <1>6
      <4>2. owner[cu[g]] = g
        BY Zenon, <4>1 DEF IInv, Ownership
      <4>3. cu[g] # c
        BY Zenon, <4>2, <1>1
      <4> QED
        BY Zenon, <4>1, <4>2, <4>3, <1>0, <1>1
    <3> QED
      BY Zenon, <3>1, <3>2
  <2>2. ASSUME NEW d \in Cunits, owner'[d] # NoHost PROVE Holding(owner[d])' /\ cu'[owner'[d]] = d
    <3>1. CASE d = c
      BY Zenon, <3>1, <1>0, <1>1, <1>2, <1>7, <1>8 DEF Holding
    <3>2. CASE d # c
      <4>1. owner'[d] = owner[d] /\ owner[d] \in Hosts
        BY Zenon, <2>2, <3>2, <1>0, <1>1
      <4>2. Holding(owner[d]) /\ cu[owner[d]] = d
        BY Zenon, <2>2, <4>1 DEF IInv, Ownership
      <4>3. owner[d] # h
        BY Zenon, <4>2, <1>8
      <4>4. pc'[owner[d]] = pc[owner[d]] /\ cu'[owner[d]] = cu[owner[d]]
        BY Zenon, <1>0, <1>1, <4>1, <4>3
      <4> QED
        BY Zenon, <4>1, <4>2, <4>4 DEF Holding
    <3> QED
      BY Zenon, <3>1, <3>2
  <2> QED
    BY Zenon, <2>1, <2>2 DEF Ownership
<1>12. Workers'
  <2>1. ASSUME NEW q \in Procs, NEW d \in Cunits, wpc'[q][d] # "off"
        PROVE  owner'[d] # NoHost /\ ProcOf[owner'[d]] = q
    <3>1. owner[d] # NoHost /\ ProcOf[owner[d]] = q
      BY Zenon, <2>1, <1>3 DEF IInv, Workers
    <3>2. owner'[d] = owner[d]
      BY Zenon, <3>1, <1>0, <1>1
    <3> QED
      BY Zenon, <3>1, <3>2
  <2> QED
    BY Zenon, <2>1 DEF Workers
<1> QED
  BY Zenon, <1>5, <1>6, <1>8, <1>9, <1>10, <1>11, <1>12 DEF IInv

\* A unit is given back once its worker is off.
LEMMA ReleaseInv ==
  ASSUME IInv, NEW h \in Hosts, Release(h)
  PROVE  IInv'
<1> USE HostAssumption DEF Release, Goto, regVars, thrVars, hostData, bounds
<1>0. /\ Types /\ pc \in [Hosts -> HostPC] /\ cu \in [Hosts -> Cunits]
      /\ owner \in [Cunits -> Hosts \cup {NoHost}]
  BY Zenon DEF IInv, Types, TypeOK
<1>1. /\ owner' = [owner EXCEPT ![cu[h]] = NoHost]
      /\ exec_sls' = exec_sls /\ psum_poll' = psum_poll /\ control' = control
      /\ inst' = inst /\ mem' = mem /\ stop_flag' = stop_flag /\ wpc' = wpc /\ wrow' = wrow
      /\ req' = req /\ step' = step /\ out' = out /\ failed' = failed /\ cu' = cu
  BY Zenon
<1>2. pc' \in [Hosts -> HostPC] /\ owner' \in [Cunits -> Hosts \cup {NoHost}]
  BY <1>0, <1>1, Zenon DEF HostPC
<1>3. Types'
  BY Zenon, <1>0, <1>1, <1>2 DEF Types, TypeOK
<1>4. ASSUME NEW g \in Hosts, g # h
      PROVE  (Holding(g)' <=> Holding(g)) /\ Progress(g)' /\ (Holding(g)' => Unit(g)')
  <2>1. pc'[g] = pc[g] /\ cu'[g] = cu[g]
    BY Zenon, <1>0, <1>1, <1>4
  <2> QED
    BY Zenon, <2>1, <1>1, OthersKept
<1>5. pc[h] = "release" /\ pc'[h] = "idle"
  BY Zenon, <1>0, <1>1
<1>6. Holding(h) /\ ~Holding(h)'
  BY <1>5, Zenon DEF Holding, Begins, Runs, Ends
<1>7. cu[h] \in Cunits /\ ProcOf[h] \in Procs /\ owner[cu[h]] = h /\ wpc[ProcOf[h]][cu[h]] = "off"
  <2>1. Unit(h) /\ ~ThreadOn(h)
    BY <1>5, <1>6, HolderFacts, Zenon DEF ThreadOn, Runs, Ends
  <2> QED
    BY Zenon, <2>1, <1>6, HolderFacts DEF Unit
<1>8. Progress(h)'
  <2>1. Progress(h) /\ Given(h)' = Given(h) /\ Execs(h)' = Execs(h)
    BY Zenon, <1>1 DEF IInv, Given, Execs
  <2> QED
    BY <1>1, <1>5, <2>1, Zenon DEF Progress, Begins, Runs, Ends
<1>9. Ownership'
  <2>1. ASSUME NEW g \in Hosts, Holding(g)' PROVE owner'[cu'[g]] = g
    <3>1. g # h /\ Holding(g) /\ cu[g] \in Cunits
      BY Zenon, <2>1, <1>0, <1>4, <1>6
    <3>2. owner[cu[g]] = g
      BY Zenon, <3>1 DEF IInv, Ownership
    <3> QED
      BY Zenon, <3>1, <3>2, <1>0, <1>1, <1>7
  <2>2. ASSUME NEW d \in Cunits, owner'[d] # NoHost PROVE Holding(owner[d])' /\ cu'[owner'[d]] = d
    <3>1. d # cu[h]
      BY Zenon, <2>2, <1>0, <1>1
    <3>2. owner'[d] = owner[d] /\ owner[d] \in Hosts
      BY Zenon, <2>2, <3>1, <1>0, <1>1
    <3>3. Holding(owner[d]) /\ cu[owner[d]] = d
      BY Zenon, <2>2, <3>2 DEF IInv, Ownership
    <3>4. pc'[owner[d]] = pc[owner[d]]
      BY Zenon, <1>0, <3>1, <3>2, <3>3
    <3> QED
      BY Zenon, <3>2, <3>3, <3>4, <1>1 DEF Holding
  <2> QED
    BY Zenon, <2>1, <2>2 DEF Ownership
<1>10. Workers'
  <2>1. ASSUME NEW q \in Procs, NEW d \in Cunits, wpc'[q][d] # "off"
        PROVE  owner'[d] # NoHost /\ ProcOf[owner'[d]] = q
    <3>1. owner[d] # NoHost /\ ProcOf[owner[d]] = q
      BY Zenon, <2>1, <1>1 DEF IInv, Workers
    <3>2. d # cu[h]
      BY Zenon, <2>1, <3>1, <1>1, <1>7
    <3> QED
      BY Zenon, <3>1, <3>2, <1>0, <1>1
  <2> QED
    BY Zenon, <2>1 DEF Workers
<1> QED
  BY Zenon, <1>3, <1>4, <1>6, <1>8, <1>9, <1>10 DEF IInv

\* The death of a process leaves the other processes' units alone.
LEMMA CrashInv ==
  ASSUME IInv, NEW p \in Procs, Crash(p)
  PROVE  IInv'
<1> USE HostAssumption
<1>0. /\ Types /\ pc \in [Hosts -> HostPC] /\ cu \in [Hosts -> Cunits]
      /\ owner \in [Cunits -> Hosts \cup {NoHost}]
      /\ stop_flag \in [Procs -> [Cunits -> BOOLEAN]]
      /\ wpc \in [Procs -> [Cunits -> WorkerPC]]
  BY Zenon DEF IInv, Types, TypeOK
<1>1. /\ owner' = [c \in Cunits |->
           IF owner[c] # NoHost /\ ProcOf[owner[c]] = p THEN NoHost ELSE owner[c]]
      /\ stop_flag' = [stop_flag EXCEPT ![p] = [c \in Cunits |-> FALSE]]
      /\ wpc' = [wpc EXCEPT ![p] = [c \in Cunits |-> "off"]]
      /\ pc' = [h \in Hosts |-> IF ProcOf[h] = p THEN "idle" ELSE pc[h]]
  BY Zenon DEF Crash
<1>2. /\ exec_sls' = exec_sls /\ psum_poll' = psum_poll /\ control' = control
      /\ inst' = inst /\ mem' = mem /\ wrow' = wrow
      /\ req' = req /\ step' = step /\ out' = out /\ failed' = failed /\ cu' = cu
  BY Zenon DEF Crash, regVars, hostData
<1>3. Types'
  <2>1. pc' \in [Hosts -> HostPC] /\ owner' \in [Cunits -> Hosts \cup {NoHost}]
    BY <1>0, <1>1, Zenon DEF HostPC
  <2>2. stop_flag' \in [Procs -> [Cunits -> BOOLEAN]] /\ wpc' \in [Procs -> [Cunits -> WorkerPC]]
    BY <1>0, <1>1, Zenon DEF WorkerPC
  <2> QED
    BY Zenon, <1>0, <1>2, <2>1, <2>2 DEF Types, TypeOK
<1>4. ASSUME NEW g \in Hosts, Holding(g)' PROVE ProcOf[g] # p /\ Holding(g) /\ pc'[g] = pc[g]
  <2>1. pc'[g] # "idle"
    BY <1>4, Zenon DEF Holding, Begins, Runs, Ends
  <2>2. ProcOf[g] # p /\ pc'[g] = pc[g]
    BY Zenon, <1>1, <2>1
  <2> QED
    BY Zenon, <1>4, <2>2 DEF Holding
<1>5. ASSUME NEW g \in Hosts PROVE Progress(g)' /\ (Holding(g)' => Unit(g)')
  <2>1. Progress(g) /\ Given(g)' = Given(g) /\ Execs(g)' = Execs(g)
    BY Zenon, <1>2 DEF IInv, Given, Execs
  <2>2. pc'[g] = "idle" \/ pc'[g] = pc[g]
    BY Zenon, <1>1
  <2>3. Progress(g)'
    BY <1>2, <2>1, <2>2, Zenon DEF Progress, Begins, Runs, Ends
  <2>4. ASSUME Holding(g)' PROVE Unit(g)'
    <3>1. wpc'[ProcOf[g]] = wpc[ProcOf[g]]
      BY Zenon, <1>0, <1>1, <1>4, <2>4
    <3>2. Unit(g) /\ pc'[g] = pc[g]
      BY Zenon, <1>4, <2>4 DEF IInv
    <3> QED
      BY Zenon, <1>2, <3>1, <3>2, UnitFrame
  <2> QED
    BY Zenon, <2>3, <2>4
<1>6. Ownership'
  <2>1. ASSUME NEW g \in Hosts, Holding(g)' PROVE owner'[cu'[g]] = g
    <3>1. ProcOf[g] # p /\ Holding(g) /\ cu[g] \in Cunits
      BY Zenon, <2>1, <1>0, <1>4
    <3>2. owner[cu[g]] = g
      BY Zenon, <3>1 DEF IInv, Ownership
    <3> QED
      BY Zenon, <3>1, <3>2, <1>1, <1>2
  <2>2. ASSUME NEW d \in Cunits, owner'[d] # NoHost PROVE Holding(owner[d])' /\ cu'[owner'[d]] = d
    <3>1. owner'[d] = owner[d] /\ owner[d] \in Hosts /\ ProcOf[owner[d]] # p
      BY Zenon, <2>2, <1>0, <1>1
    <3>2. Holding(owner[d]) /\ cu[owner[d]] = d
      BY Zenon, <2>2, <3>1 DEF IInv, Ownership
    <3>3. pc'[owner[d]] = pc[owner[d]]
      BY Zenon, <1>1, <3>1
    <3> QED
      BY Zenon, <3>1, <3>2, <3>3, <1>2 DEF Holding
  <2> QED
    BY Zenon, <2>1, <2>2 DEF Ownership
<1>7. Workers'
  <2>1. ASSUME NEW q \in Procs, NEW d \in Cunits, wpc'[q][d] # "off"
        PROVE  owner'[d] # NoHost /\ ProcOf[owner'[d]] = q
    <3>1. q # p
      BY Zenon, <2>1, <1>0, <1>1
    <3>2. wpc[q][d] # "off"
      BY Zenon, <2>1, <3>1, <1>0, <1>1
    <3>3. owner[d] # NoHost /\ ProcOf[owner[d]] = q
      BY Zenon, <3>2 DEF IInv, Workers
    <3> QED
      BY Zenon, <3>1, <3>3, <1>1
  <2> QED
    BY Zenon, <2>1 DEF Workers
<1> QED
  BY Zenon, <1>3, <1>5, <1>6, <1>7 DEF IInv

\* The invariant holds initially.
LEMMA InitInv ==
  ASSUME Init PROVE IInv
<1>0. Len(<<1>>) = 1 /\ DOMAIN <<1>> = {1}
  OBVIOUS
<1> USE DEF Init
<1> DEFINE q == Service!NoRequest
<1>1. q \in Reqs /\ q.rows = <<1>>
  BY RowAssumption DEF Service!NoRequest, Reqs
<1>2. Types
  <2>1. StaleTrace \in [id : Ids, n : 1 .. NumRows] /\ <<Garbage>> \in Seq(Ids)
    BY RowAssumption DEF StaleTrace, Garbage, Ids
  <2>2. cu \in [Hosts -> Cunits]
    BY Zenon, PackAssumption
  <2>3. 0 \in 0 .. NumRows
    BY RowAssumption
  <2>4. TypeOK
    BY <2>1, <2>2, <2>3 DEF TypeOK, HostPC, WorkerPC
  <2> QED
    BY Zenon, <1>1, <2>4 DEF Types
<1>3. \A h \in Hosts : pc[h] = "idle" /\ ~Holding(h)
  BY Zenon DEF Holding, Begins, Runs, Ends
<1>4. Ownership /\ Workers
  BY Zenon, <1>3 DEF Ownership, Workers
<1>5. ASSUME NEW h \in Hosts PROVE Progress(h)
  <2>0. req[h] = q /\ step[h] = 1
    BY Zenon
  <2>1. Execs(h) = 1 /\ step[h] = 1 /\ DOMAIN q.rows = {1} /\ ~(1 < 1)
    <3>1. ~(1 < 1)
      BY SMT
    <3> QED
      BY Zenon, <1>0, <1>1, <2>0, <3>1 DEF Execs
  <2>2. Given(h) = Service!Nothing(q)
    <3>1. req[h] = q
      BY Zenon
    <3> QED
      BY Zenon, <2>1, <3>1 DEF Given, Service!Nothing
  <2> QED
    BY <1>3, <2>1, <2>2, SMTT(60) DEF Progress, Begins, Runs, Ends
<1> QED
  BY Zenon, <1>2, <1>3, <1>4, <1>5 DEF IInv

\* Every step keeps the invariant.
LEMMA NextInv ==
  ASSUME IInv, [Next]_vars PROVE IInv'
<1>1. CASE \E h \in Hosts : StartOp(h)
  BY Zenon, <1>1, StartOpInv
<1>2. CASE \E h \in Hosts : Acquire(h)
  BY Zenon, <1>2, AcquireInv
<1>3. CASE \E h \in Hosts : Release(h)
  BY Zenon, <1>3, ReleaseInv
<1>4. CASE \E h \in Hosts : Throw(h) \/ (HostStep(h) /\ ~Release(h))
  BY Zenon, <1>4, LocalStepsInv
<1>5. CASE \E p \in Procs, c \in Cunits : WorkerStep(p, c)
  BY Zenon, <1>5, LocalStepsInv
<1>6. CASE \E p \in Procs : Crash(p)
  BY Zenon, <1>6, CrashInv
<1>7. CASE UNCHANGED vars
  <2>1. /\ owner' = owner /\ exec_sls' = exec_sls /\ psum_poll' = psum_poll /\ control' = control
        /\ inst' = inst /\ mem' = mem /\ stop_flag' = stop_flag /\ wpc' = wpc /\ wrow' = wrow
        /\ pc' = pc /\ req' = req /\ cu' = cu /\ step' = step /\ out' = out /\ failed' = failed
    BY <1>7, Zenon DEF vars, regVars, thrVars, hostData
  <2>2. \A g \in Hosts : (Holding(g)' <=> Holding(g)) /\ Progress(g)' /\ (Holding(g)' => Unit(g)')
    BY Zenon, <2>1, OthersKept
  <2>3. Types' /\ Workers'
    BY Zenon, <2>1 DEF IInv, Types, TypeOK, Workers
  <2>4. Ownership'
    BY Zenon, <2>1 DEF IInv, Ownership, Holding
  <2> QED
    BY Zenon, <2>2, <2>3, <2>4 DEF IInv
<1> QED
  BY Zenon, <1>1, <1>2, <1>3, <1>4, <1>5, <1>6, <1>7 DEF Next, Finished, HostStep

\* The inductive invariant of the CXL protocol.
THEOREM Invariance == Spec => []IInv
<1>1. Init => IInv
  BY Zenon, InitInv
<1>2. IInv /\ [Next]_vars => IInv'
  BY Zenon, NextInv
<1> QED
  BY PTL, <1>1, <1>2 DEF Spec

-----------------------------------------------------------------------------
(* What it gives the callers.                                              *)

\* The sums of an execution are never the empty sequence.
LEMMA ExpectedNonempty ==
  ASSUME Types, NEW h \in Hosts, NEW i \in 1 .. Execs(h)
  PROVE  Service!Expected(h, req[h], i) # <<>>
<1>1. req[h].rows[i] \in 1 .. NumRows
  BY Zenon, RequestFacts
<1>2. 1 \in 1 .. req[h].rows[i]
  BY <1>1, RowAssumption
<1>3. 1 \in DOMAIN Service!Expected(h, req[h], i)
  BY Zenon, <1>2 DEF Service!Expected
<1>4. 1 \notin DOMAIN <<>>
  OBVIOUS
<1> QED
  BY Zenon, <1>3, <1>4

\* What has been delivered to a host.
LEMMA GivenValues ==
  ASSUME IInv, NEW h \in Hosts, NEW i \in 1 .. Execs(h)
  PROVE  /\ out[h][i]["PSUM"] = IF i < step[h] THEN Service!Expected(h, req[h], i) ELSE <<>>
         /\ i < step[h] <=> out[h][i]["PSUM"] # <<>>
<1>1. Types /\ out[h] = Given(h) /\ i \in DOMAIN req[h].rows
  BY Zenon, RequestFacts DEF IInv, Progress
<1>2. out[h][i]["PSUM"] = IF i < step[h] THEN Service!Expected(h, req[h], i) ELSE <<>>
  BY <1>1 DEF Given, Service!Blocks
<1> QED
  BY Zenon, <1>1, <1>2, ExpectedNonempty

\* Every host reads exactly the sums of its own executions, and all of them
\* unless an exception ended the operation.
THEOREM CxlResultsCorrect == Spec => []ResultsCorrect
<1>1. IInv => ResultsCorrect
  <2> SUFFICES ASSUME IInv, NEW h \in Hosts, NEW i \in 1 .. Execs(h)
      PROVE  /\ out[h][i]["PSUM"] \in {<<>>, Service!Expected(h, req[h], i)}
             /\ pc[h] \in Ends /\ ~failed[h] => out[h][i]["PSUM"] # <<>>
    BY Zenon DEF ResultsCorrect, Ends
  <2>1. Types /\ Progress(h)
    BY Zenon DEF IInv
  <2>2. pc[h] \in Ends /\ ~failed[h] => i < step[h]
    <3>1. Execs(h) \in Nat /\ (pc[h] \in Ends /\ ~failed[h] => step[h] = Execs(h) + 1)
      BY Zenon, <2>1, RequestFacts DEF Progress
    <3> QED
      BY <3>1
  <2> QED
    BY Zenon, <2>2, GivenValues
<1> QED
  BY PTL, <1>1, Invariance

\* Every variable stays within its type.
THEOREM CxlTypeCorrect == Spec => []TypeOK
<1>1. IInv => TypeOK
  BY Zenon DEF IInv, Types
<1> QED
  BY PTL, <1>1, Invariance

-----------------------------------------------------------------------------
(* The refinement: what every step is to the service.                      *)

\* The phase of a host, as the refinement maps it.
PhaseOf(at, error) ==
  IF at = "idle" THEN "idle"
  ELSE IF at = "acquire" THEN "pending"
  ELSE IF error THEN "failing" ELSE "running"

Phase == [h \in Hosts |-> PhaseOf(pc[h], failed[h])]

\* Its value by cases.
LEMMA PhaseValue ==
  ASSUME NEW at \in Begins \cup Runs \cup Ends, NEW e
  PROVE  /\ PhaseOf("idle", e) = "idle" /\ PhaseOf("acquire", e) = "pending"
         /\ PhaseOf(at, TRUE) = "failing" /\ PhaseOf(at, FALSE) = "running"
<1>1. at # "idle" /\ at # "acquire"
  BY Zenon DEF Begins, Runs, Ends
<1> QED
  BY Zenon, <1>1 DEF PhaseOf

\* A step of one host changes its phase alone.
LEMMA PhaseStep ==
  ASSUME NEW h \in Hosts, \A g \in Hosts \ {h} : pc'[g] = pc[g] /\ failed'[g] = failed[g]
  PROVE  /\ Phase[h] = PhaseOf(pc[h], failed[h])
         /\ Phase' = [Phase EXCEPT ![h] = PhaseOf(pc'[h], failed'[h])]
         /\ PhaseOf(pc'[h], failed'[h]) = Phase[h] => Phase' = Phase
<1>1. ASSUME NEW g \in Hosts, g # h PROVE Phase'[g] = Phase[g]
  <2>1. pc'[g] = pc[g] /\ failed'[g] = failed[g]
    BY Zenon, <1>1
  <2> QED
    BY Zenon, <2>1 DEF Phase
<1>2. Phase[h] = PhaseOf(pc[h], failed[h]) /\ Phase'[h] = PhaseOf(pc'[h], failed'[h])
  BY Zenon DEF Phase
<1> QED
  BY Zenon, <1>1, <1>2 DEF Phase

\* A host that starts an operation submits it.
LEMMA SubmitStep ==
  ASSUME IInv, NEW h \in Hosts, StartOp(h)
  PROVE  Service!Submit(h)
<1>0. pc \in [Hosts -> HostPC] /\ failed \in [Hosts -> BOOLEAN]
  BY Zenon DEF IInv, Types, TypeOK
<1>1. /\ pc[h] = "idle" /\ pc'[h] = "acquire" /\ owner' = owner
      /\ \A g \in Hosts \ {h} : pc'[g] = pc[g] /\ failed'[g] = failed[g]
  BY Zenon, <1>0 DEF StartOp, Goto
<1>2. Phase[h] = "idle" /\ Phase' = [Phase EXCEPT ![h] = "pending"]
  <2>1. /\ Phase[h] = PhaseOf("idle", failed[h])
        /\ Phase' = [Phase EXCEPT ![h] = PhaseOf("acquire", failed'[h])]
    BY Zenon, <1>1, PhaseStep
  <2> QED
    BY Zenon, <2>1 DEF PhaseOf
<1>3. \E q \in Service!Requests(req[h].no + 1) :
        req' = [req EXCEPT ![h] = q] /\ out' = [out EXCEPT ![h] = Service!Nothing(q)]
  BY Zenon DEF StartOp
<1> QED
  BY Zenon, <1>1, <1>2, <1>3 DEF Service!Submit, Phase, PhaseOf

\* A host that acquires a unit is granted it.
LEMMA GrantStep ==
  ASSUME IInv, NEW h \in Hosts, Acquire(h)
  PROVE  Service!Grant(h)
<1>0. pc \in [Hosts -> HostPC] /\ failed \in [Hosts -> BOOLEAN] /\ Progress(h)
  BY Zenon DEF IInv, Types, TypeOK
<1>1. /\ pc[h] = "acquire" /\ pc'[h] = "resetPoll" /\ req' = req /\ out' = out
      /\ \A g \in Hosts \ {h} : pc'[g] = pc[g] /\ failed'[g] = failed[g]
      /\ \E c \in req[h].pack : owner[c] = NoHost /\ owner' = [owner EXCEPT ![c] = h]
      /\ failed'[h] = failed[h]
  BY Zenon, <1>0 DEF Acquire, Goto
<1>2. ~failed[h] /\ pc'[h] \in Begins
  BY <1>0, <1>1, Zenon DEF Progress, Begins
<1>3. Phase[h] = "pending" /\ Phase' = [Phase EXCEPT ![h] = "running"]
  <2>1. /\ Phase[h] = PhaseOf("acquire", FALSE)
        /\ Phase' = [Phase EXCEPT ![h] = PhaseOf(pc'[h], FALSE)]
    <3>1. failed[h] = FALSE /\ failed'[h] = FALSE
      BY Zenon, <1>0, <1>1, <1>2
    <3>2. /\ Phase[h] = PhaseOf(pc[h], failed[h])
          /\ Phase' = [Phase EXCEPT ![h] = PhaseOf(pc'[h], failed'[h])]
      BY Zenon, <1>1, PhaseStep
    <3> QED
      BY Zenon, <1>1, <3>1, <3>2
  <2> QED
    BY Zenon, <1>2, <2>1, PhaseValue
<1> QED
  BY Zenon, <1>1, <1>3 DEF Service!Grant, Phase, PhaseOf

\* An exception is a failure of the operation.
LEMMA FailStep ==
  ASSUME IInv, NEW h \in Hosts, Throw(h)
  PROVE  Service!Fail(h)
<1>0. pc \in [Hosts -> HostPC] /\ failed \in [Hosts -> BOOLEAN] /\ Progress(h)
  BY Zenon DEF IInv, Types, TypeOK
<1>1. /\ pc[h] = "generate" /\ pc'[h] = "unswitch" /\ owner' = owner /\ req' = req /\ out' = out
      /\ \A g \in Hosts \ {h} : pc'[g] = pc[g] /\ failed'[g] = failed[g]
      /\ failed'[h] = TRUE
  BY Zenon, <1>0 DEF Throw, Goto
<1>2. failed[h] = FALSE /\ pc[h] \in Runs /\ pc'[h] \in Ends
  BY <1>0, <1>1, Zenon DEF Progress, Runs, Ends
<1>3. Phase[h] = "running" /\ Phase' = [Phase EXCEPT ![h] = "failing"]
  <2>1. /\ Phase[h] = PhaseOf(pc[h], FALSE)
        /\ Phase' = [Phase EXCEPT ![h] = PhaseOf(pc'[h], TRUE)]
    BY Zenon, <1>1, <1>2, PhaseStep
  <2> QED
    BY Zenon, <1>2, <2>1, PhaseValue
<1> QED
  BY Zenon, <1>1, <1>3 DEF Service!Fail, Phase, PhaseOf

\* A unit is given back when everything is delivered, or after an error.
LEMMA ReleaseStep ==
  ASSUME IInv, NEW h \in Hosts, Release(h)
  PROVE  Service!Release(h)
<1>0. /\ pc \in [Hosts -> HostPC] /\ failed \in [Hosts -> BOOLEAN] /\ Progress(h) /\ Types
      /\ owner \in [Cunits -> Hosts \cup {NoHost}]
  BY Zenon DEF IInv, Types, TypeOK
<1>1. /\ pc[h] = "release" /\ pc'[h] = "idle" /\ req' = req /\ out' = out
      /\ \A g \in Hosts \ {h} : pc'[g] = pc[g] /\ failed'[g] = failed[g]
      /\ owner' = [owner EXCEPT ![cu[h]] = NoHost]
  BY Zenon, <1>0 DEF Release, Goto, hostData
<1>2. pc[h] \in Ends /\ Holding(h)
  BY <1>1, Zenon DEF Ends, Holding
<1>3. Phase[h] = PhaseOf(pc[h], failed[h]) /\ Phase' = [Phase EXCEPT ![h] = "idle"]
  <2>1. Phase' = [Phase EXCEPT ![h] = PhaseOf("idle", failed'[h])] /\ Phase[h] = PhaseOf(pc[h], failed[h])
    BY Zenon, <1>1, PhaseStep
  <2> QED
    BY Zenon, <2>1 DEF PhaseOf
<1>4. owner' = [c \in Cunits |-> IF owner[c] = h THEN NoHost ELSE owner[c]]
  <2>1. owner[cu[h]] = h
    BY Zenon, <1>2 DEF IInv, Ownership
  <2>2. ASSUME NEW c \in Cunits, owner[c] = h PROVE cu[h] = c
    <3>1. owner[c] # NoHost
      BY Zenon, <2>2, HostAssumption
    <3>2. cu[owner[c]] = c
      BY Zenon, <3>1 DEF IInv, Ownership
    <3> QED
      BY Zenon, <2>2, <3>2
  <2> QED
    BY Zenon, <1>0, <1>1, <2>1, <2>2
<1>5. \/ Phase[h] = "failing"
      \/ /\ Phase[h] = "running"
         /\ \A i \in DOMAIN req[h].rows : \A b \in Service!Outputs(req[h]) : out[h][i][b] # <<>>
  <2>1. CASE failed[h] = TRUE
    BY Zenon, <1>2, <1>3, <2>1, PhaseValue
  <2>2. CASE failed[h] = FALSE
    <3>1. Phase[h] = "running"
      <4>1. Phase[h] = PhaseOf(pc[h], FALSE) /\ pc[h] \in Begins \cup Runs \cup Ends
        BY Zenon, <1>2, <1>3, <2>2
      <4> QED
        BY Zenon, <4>1, PhaseValue
    <3>2. step[h] = Execs(h) + 1 /\ DOMAIN req[h].rows = 1 .. Execs(h) /\ Execs(h) \in Nat
      BY Zenon, <1>0, <1>2, <2>2, RequestFacts DEF Progress
    <3>3. Service!Outputs(req[h]) = {"PSUM"}
      BY Zenon, <1>0, RequestFacts DEF Service!Outputs
    <3>4. \A i \in 1 .. Execs(h) : i < step[h]
      BY <3>2
    <3> QED
      BY Zenon, <3>1, <3>2, <3>3, <3>4, GivenValues
  <2> QED
    BY Zenon, <1>0, <2>1, <2>2
<1> QED
  BY Zenon, <1>1, <1>3, <1>4, <1>5 DEF Service!Release, Service!Delivered, Phase, PhaseOf

\* A host that reads an output is delivered it.
LEMMA DeliverStep ==
  ASSUME IInv, NEW h \in Hosts, ReadOutput(h)
  PROVE  step[h] \in DOMAIN req[h].rows /\ Service!Deliver(h, step[h], "PSUM")
<1>0. /\ pc \in [Hosts -> HostPC] /\ failed \in [Hosts -> BOOLEAN] /\ Progress(h) /\ Types
      /\ step[h] \in Nat \ {0}
  BY Zenon DEF IInv, Types, TypeOK
<1>1. /\ pc[h] = "read" /\ pc'[h] \in {"generate", "unswitch"} /\ owner' = owner /\ req' = req
      /\ \A g \in Hosts \ {h} : pc'[g] = pc[g] /\ failed'[g] = failed[g]
      /\ failed'[h] = failed[h]
  BY Zenon, <1>0 DEF ReadOutput, Goto
<1>2. failed[h] = FALSE /\ pc[h] \in Runs /\ pc'[h] \in Runs \cup Ends
  BY <1>0, <1>1, Zenon DEF Progress, Runs, Ends
<1>3. Phase[h] = "running" /\ Phase' = Phase
  <2>1. PhaseOf(pc[h], FALSE) = "running" /\ PhaseOf(pc'[h], FALSE) = "running"
    BY Zenon, <1>2, PhaseValue
  <2>2. PhaseOf(pc[h], failed[h]) = "running" /\ PhaseOf(pc'[h], failed'[h]) = "running"
    BY Zenon, <1>1, <1>2, <2>1
  <2> QED
    BY Zenon, <1>1, <2>2, PhaseStep
<1>4. step[h] \in 1 .. Execs(h) /\ DOMAIN req[h].rows = 1 .. Execs(h) /\ Execs(h) \in Nat
  <2>1. Execs(h) \in Nat /\ DOMAIN req[h].rows = 1 .. Execs(h) /\ step[h] <= Execs(h)
    BY Zenon, <1>0, <1>2, RequestFacts DEF Progress
  <2> QED
    BY <1>0, <2>1
<1>5. Service!Outputs(req[h]) = {"PSUM"}
  BY Zenon, <1>0, RequestFacts DEF Service!Outputs
<1>6. \A j \in 1 .. step[h] - 1 : j \in 1 .. Execs(h) /\ j < step[h]
  BY <1>4
<1>7. ~(step[h] < step[h])
  BY <1>4
<1>8. /\ ~(out[h][step[h]]["PSUM"] # <<>>)
      /\ \A j \in 1 .. step[h] - 1 : \A d \in Service!Outputs(req[h]) : out[h][j][d] # <<>>
  <2>1. \A j \in 1 .. Execs(h) : j < step[h] <=> out[h][j]["PSUM"] # <<>>
    BY Zenon, GivenValues
  <2> QED
    BY Zenon, <1>4, <1>5, <1>6, <1>7, <2>1
<1>9. out' = [out EXCEPT ![h][step[h]]["PSUM"] = Service!Expected(h, req[h], step[h])]
  BY Zenon, <1>1, ReadsExpected DEF ReadOutput
<1>10. "PSUM" \in Service!Outputs(req[h]) /\ "PSUM" # "TAGS"
  BY Zenon, <1>5
<1> QED
  BY Zenon, <1>1, <1>3, <1>4, <1>8, <1>9, <1>10
     DEF Service!Deliver, Service!Delivered, Phase, PhaseOf

\* The other steps of a holder and the steps of the workers are internal.
LEMMA InternalStep ==
  ASSUME IInv, \/ \E h \in Hosts : HostStep(h) /\ ~Release(h) /\ ~ReadOutput(h)
               \/ \E p \in Procs, c \in Cunits : WorkerStep(p, c)
               \/ UNCHANGED vars
  PROVE  UNCHANGED Service!serviceVars
<1>1. ASSUME NEW h \in Hosts, HostStep(h), ~Release(h), ~ReadOutput(h)
      PROVE  owner' = owner /\ Phase' = Phase /\ req' = req /\ out' = out
  <2>1. Holding(h) /\ Holding(h)' /\ Types
    BY Zenon, <1>1, HostProgress DEF IInv
  <2>2. owner' = owner /\ failed' = failed /\ req' = req /\ out' = out
    BY Zenon, <1>1 DEF HostStep, ResetPoll, ResetExec, EnableThread, SwitchOn, PollSwitched,
         Generate, WriteInst, ResetOutput, ArmPoll, StartExec, Wait, SwitchOff, PollEnable,
         StopThread, JoinThread, hostData
  <2>3. \A g \in Hosts \ {h} : pc'[g] = pc[g] /\ failed'[g] = failed[g]
    BY Zenon, <1>1, <2>1, HostLocal DEF LocalTo
  <2>4. failed[h] = TRUE \/ failed[h] = FALSE
    BY Zenon, <2>1 DEF Types, TypeOK
  <2>5. PhaseOf(pc[h], failed[h]) = PhaseOf(pc'[h], failed[h])
    <3>1. pc[h] \in Begins \cup Runs \cup Ends /\ pc'[h] \in Begins \cup Runs \cup Ends
      BY Zenon, <2>1 DEF Holding
    <3>2. /\ PhaseOf(pc[h], TRUE) = PhaseOf(pc'[h], TRUE)
          /\ PhaseOf(pc[h], FALSE) = PhaseOf(pc'[h], FALSE)
      BY Zenon, <3>1, PhaseValue
    <3> QED
      BY Zenon, <2>4, <3>2
  <2> QED
    BY Zenon, <2>2, <2>3, <2>5, PhaseStep
<1>2. ASSUME NEW p \in Procs, NEW c \in Cunits, WorkerStep(p, c)
      PROVE  owner' = owner /\ pc' = pc /\ failed' = failed /\ req' = req /\ out' = out
  BY Zenon, <1>2 DEF WorkerStep, WorkerBegin, WorkerCheckStop, WorkerLoad, WorkerExec,
       WorkerComplete, hostData
<1>3. ASSUME UNCHANGED vars
      PROVE  owner' = owner /\ pc' = pc /\ failed' = failed /\ req' = req /\ out' = out
  BY Zenon, <1>3 DEF vars, hostData
<1>4. ASSUME pc' = pc, failed' = failed PROVE Phase' = Phase
  BY Zenon, <1>4 DEF Phase
<1>5. owner' = owner /\ Phase' = Phase /\ req' = req /\ out' = out
  BY Zenon, <1>1, <1>2, <1>3, <1>4
<1> QED
  BY Zenon, <1>5 DEF Service!serviceVars, Phase, PhaseOf

\* The CXL protocol implements the reduction service: every step is one of its
\* steps, internal, or the death of a process.
THEOREM CxlImplementsService == Spec => ImplementsService
<1>1. Init => Service!Init
  <2> SUFFICES ASSUME Init PROVE Service!Init
    BY Zenon
  <2>1. Phase = [h \in Hosts |-> "idle"]
    BY Zenon DEF Init, Phase, PhaseOf
  <2> QED
    BY Zenon, <2>1 DEF Init, Service!Init, Phase, PhaseOf
<1>2. IInv /\ [Next]_vars => [Service!Next \/ \E p \in Procs : Crash(p)]_(Service!serviceVars)
  <2> SUFFICES ASSUME IInv, [Next]_vars
               PROVE  Service!Next \/ (\E p \in Procs : Crash(p)) \/ UNCHANGED Service!serviceVars
    BY Zenon
  <2>1. CASE \E h \in Hosts : StartOp(h) \/ Acquire(h) \/ Throw(h) \/ Release(h)
    BY Zenon, <2>1, SubmitStep, GrantStep, FailStep, ReleaseStep DEF Service!Next
  <2>2. CASE \E h \in Hosts : ReadOutput(h)
    <3>1. "PSUM" \in Service!Blocks
      BY Zenon DEF Service!Blocks
    <3> QED
      BY Zenon, <2>2, <3>1, DeliverStep DEF Service!Next
  <2>3. CASE \/ \E h \in Hosts : HostStep(h) /\ ~Release(h) /\ ~ReadOutput(h)
             \/ \E p \in Procs, c \in Cunits : WorkerStep(p, c)
             \/ UNCHANGED vars
    BY Zenon, <2>3, InternalStep
  <2>4. CASE \E p \in Procs : Crash(p)
    BY Zenon, <2>4
  <2> QED
    BY Zenon, <2>1, <2>2, <2>3, <2>4 DEF Next, Finished
<1> QED
  BY PTL, <1>1, <1>2, Invariance DEF Spec, ImplementsService
=============================================================================
