--------------------------- MODULE ImdbScanProofs ----------------------------
(***************************************************************************)
(* Safety of a column scan for any number of hosts, processes, engine      *)
(* threads, operations and exceptions: types, that nobody touches the      *)
(* registers of a scanning thread, the outcome every host finds, and that  *)
(* every step is a step of the scan service.  All but the types hold until *)
(* a process dies: a scan that it leaves behind is found by the next       *)
(* holder of the thread.                                                   *)
(***************************************************************************)
EXTENDS ImdbScan, TLAPS

Exp(h) == Service!Expected(h, op[h])

\* A thread that has nothing to scan and that no worker scans.
Resting(t) == ~start[t] /\ \A p \in Procs : ~Scanning(p, t)

\* The locks of the driver: a holder's thread is locked by it, and a worker is
\* on only for the process of the thread's owner.  An exception leaves the
\* owner and the worker behind.
Locks ==
  /\ \A h \in Hosts : Holding(h) => owner[thr[h]] = h
  /\ \A p \in Procs, t \in Threads :
       wpc[p][t] # "off" => owner[t] # NoHost /\ ProcOf[owner[t]] = p

\* A thread scans only for a host that waits for it.
Quiet == \A t \in Threads : Resting(t) \/ \E h \in Hosts : thr[h] = t /\ pc[h] = "spin"

\* A scan in flight: started, collected, its outcome stored, ended.
Flight(h) ==
  LET t == thr[h]
      w == wpc[ProcOf[h]][t]
      done == result[h] = Exp(h) /\ res_size[t] = Service!SizeOf(Exp(h))
  IN /\ w \in {"working", "busy", "collect", "scan", "clearCtrl"} => start[t]
     /\ w \in {"idle", "finish"} => ~start[t]
     /\ w \notin {"scan", "clearCtrl", "idle", "finish"} /\ start[t] => otype[t] = op[h].type
     /\ w = "scan" => wview[ProcOf[h]][t] = <<Id(h), op[h].type>>
     /\ w \in {"clearCtrl", "idle", "finish"} \/ ~start[t] => done
     /\ status[t] # "BUSY" => ~start[t] /\ ~Scanning(ProcOf[h], t)

\* The thread of a host that holds one.
View(h) ==
  LET t == thr[h]  w == wpc[ProcOf[h]][t] IN
  /\ w = "off" <=> pc[h] \in {"enable", "release"}
  /\ pc[h] # "spin" => ~start[t] /\ ~Scanning(ProcOf[h], t)
  /\ pc[h] \in {"predicate", "output", "result", "busy", "start", "spin"} => column[t] = Id(h)
  /\ pc[h] \in {"output", "result", "busy", "start", "spin"} => predicate[t] = Id(h)
  /\ pc[h] \in {"result", "busy", "start"} => otype[t] = op[h].type
  /\ pc[h] \in {"busy", "start", "spin"} => res_addr[t] = Id(h)
  /\ pc[h] = "start" => status[t] = "BUSY"
  /\ pc[h] = "spin" => Flight(h)
  /\ pc[h] \in {"read", "stop", "join", "release"} => result[h] = Exp(h)
  /\ pc[h] = "read" => res_size[t] = Service!SizeOf(Exp(h))
  /\ pc[h] \in {"stop", "join", "release"} => size[h] = Service!SizeOf(Exp(h))

Good == Locks /\ Quiet /\ \A h \in Hosts : Holding(h) => View(h)

IInv == TypeOK /\ (crashes = 0 => Good)

-----------------------------------------------------------------------------
(* Types.                                                                  *)

\* The identities and outcomes that the registers are given.
LEMMA ValueTypes ==
  ASSUME TypeOK
  PROVE  /\ \A h \in Hosts : Id(h) \in Ids /\ op[h].type \in Types
         /\ NoScan \in Ids /\ NoResult \in Outcomes /\ Service!NoSize \in Outcomes
         /\ \A c, q \in Ids, y \in Types : Service!Outcome(c, q, y) \in Outcomes
         /\ \A r \in Outcomes, c \in Ids : [r EXCEPT !.column = c] \in Outcomes
         /\ \A r \in Outcomes : Service!SizeOf(r) \in Outcomes
<1>1. \A h \in Hosts : Id(h) \in Ids /\ op[h].type \in Types
  BY Zenon DEF TypeOK, Id, Service!ScanId, Ids
<1>2. NoScan \in Ids
  BY Zenon DEF NoScan, Service!NoScan, Ids
<1>3. \A c, q \in Ids, y \in Types : Service!Outcome(c, q, y) \in Outcomes
  BY Zenon DEF Service!Outcome, Outcomes
<1>4. NoResult \in Outcomes /\ Service!NoSize \in Outcomes
  BY <1>2, Zenon DEF NoResult, Service!NoResult, Service!NoSize, Outcomes, Types, NoScan
<1>5. \A r \in Outcomes, c \in Ids : [r EXCEPT !.column = c] \in Outcomes
  BY Zenon DEF Outcomes
<1>6. ASSUME NEW r \in Outcomes PROVE Service!SizeOf(r) \in Outcomes
  <2>1. r.column \in Ids /\ r.type \in Types
    BY Zenon DEF Outcomes
  <2> QED
    BY Zenon, <1>2, <1>3, <2>1 DEF Service!SizeOf, NoScan
<1> QED
  BY Zenon, <1>1, <1>2, <1>3, <1>4, <1>5, <1>6

\* Every step keeps the types.
LEMMA TypesStep ==
  ASSUME TypeOK, [Next]_vars PROVE TypeOK'
<1> USE HostAssumption DEF Goto, WGoto, params, regVars, thrVars, hostData, bounds
<1>1. ASSUME NEW h \in Hosts, StartOp(h) PROVE TypeOK'
  <2>1. op' \in [Hosts -> [no : Nat, type : Types]]
    BY <1>1, TypeAssumption DEF TypeOK, StartOp, Types
  <2> QED
    BY <1>1, <2>1, ValueTypes, Zenon DEF TypeOK, StartOp, HostPC
<1>2. ASSUME NEW h \in Hosts, LockThread(h) PROVE TypeOK'
  BY <1>2 DEF TypeOK, LockThread, HostPC
<1>3. ASSUME NEW h \in Hosts, Throw(h) PROVE TypeOK'
  BY <1>3 DEF TypeOK, Throw, HostPC
<1>4. ASSUME NEW h \in Hosts, HostStep(h) PROVE TypeOK'
  <2>1. CASE EnableThread(h)
    BY <2>1, ValueTypes, Zenon DEF TypeOK, EnableThread, HostPC, WorkerPC
  <2>2. CASE WriteColumn(h)
    BY <2>2, ValueTypes, Zenon DEF TypeOK, WriteColumn, HostPC
  <2>3. CASE WritePredicate(h)
    BY <2>3, ValueTypes, Zenon DEF TypeOK, WritePredicate, HostPC
  <2>4. CASE WriteOutput(h)
    BY <2>4, ValueTypes, Zenon DEF TypeOK, WriteOutput, HostPC
  <2>5. CASE WriteResult(h)
    BY <2>5, ValueTypes, Zenon DEF TypeOK, WriteResult, HostPC
  <2>6. CASE SetBusy(h)
    BY <2>6, ValueTypes, Zenon DEF TypeOK, SetBusy, HostPC
  <2>7. CASE SetStart(h)
    BY <2>7, ValueTypes, Zenon DEF TypeOK, SetStart, HostPC
  <2>8. CASE Spin(h)
    BY <2>8, ValueTypes, Zenon DEF TypeOK, Spin, HostPC
  <2>9. CASE ReadRegisters(h)
    BY <2>9, ValueTypes, Zenon DEF TypeOK, ReadRegisters, HostPC
  <2>10. CASE StopThread(h)
    BY <2>10, ValueTypes, Zenon DEF TypeOK, StopThread, HostPC
  <2>11. CASE JoinThread(h)
    BY <2>11, ValueTypes, Zenon DEF TypeOK, JoinThread, HostPC, WorkerPC
  <2>12. CASE ReleaseThread(h)
    BY <2>12, ValueTypes, Zenon DEF TypeOK, ReleaseThread, HostPC
  <2> QED
    BY Zenon, <1>4, <2>1, <2>2, <2>3, <2>4, <2>5, <2>6, <2>7, <2>8, <2>9, <2>10, <2>11, <2>12
       DEF HostStep
<1>5. ASSUME NEW p \in Procs, NEW t \in Threads, WorkerStep(p, t) PROVE TypeOK'
  <2>1. CASE WorkerBegin(p, t)
    BY <2>1, ValueTypes, Zenon DEF TypeOK, WorkerBegin, WorkerPC
  <2>2. CASE WorkerCheckStop(p, t)
    BY <2>2, ValueTypes, Zenon DEF TypeOK, WorkerCheckStop, WorkerPC
  <2>3. CASE WorkerLoad(p, t)
    BY <2>3, ValueTypes, Zenon DEF TypeOK, WorkerLoad, WorkerPC
  <2>4. CASE WorkerSetWorking(p, t)
    BY <2>4, ValueTypes, Zenon DEF TypeOK, WorkerSetWorking, WorkerPC
  <2>5. CASE WorkerSetBusy(p, t)
    BY <2>5, ValueTypes, Zenon DEF TypeOK, WorkerSetBusy, WorkerPC
  <2>6. CASE WorkerCollect(p, t)
    BY <2>6, ValueTypes, Zenon DEF TypeOK, WorkerCollect, WorkerPC
  <2>7. CASE WorkerScan(p, t)
    <3> DEFINE r == Service!Outcome(wview[p][t][1], predicate[t], wview[p][t][2])
               z == IF r.type = "BitVector" THEN [r EXCEPT !.column = column[t]] ELSE r
    <3>1. wview[p][t][1] \in Ids /\ wview[p][t][2] \in Types /\ predicate[t] \in Ids /\ column[t] \in Ids
      BY DEF TypeOK
    <3>2. r \in Outcomes /\ [r EXCEPT !.column = column[t]] \in Outcomes
      BY Zenon, <3>1, ValueTypes
    <3>3. z \in Outcomes
      BY Zenon, <3>2
    <3>4. Service!SizeOf(z) \in Outcomes
      BY Zenon, <3>3, ValueTypes
    <3>5. /\ result' = [h \in Hosts |-> IF res_addr[t] = Id(h) THEN r ELSE result[h]]
          /\ res_size' = [res_size EXCEPT ![t] = Service!SizeOf(z)]
      BY Zenon, <2>7 DEF WorkerScan
    <3> HIDE DEF r, z
    <3>6. result' \in [Hosts -> Outcomes] /\ res_size' \in [Threads -> Outcomes]
      BY <3>2, <3>4, <3>5, Zenon DEF TypeOK
    <3> QED
      BY <2>7, <3>6, Zenon DEF TypeOK, WorkerScan, WorkerPC
  <2>8. CASE WorkerClearCtrl(p, t)
    BY <2>8, ValueTypes, Zenon DEF TypeOK, WorkerClearCtrl, WorkerPC, Types
  <2>9. CASE WorkerComplete(p, t)
    <3>1. \/ /\ wpc' = [wpc EXCEPT ![p][t] = "finish"] /\ status' = status
             /\ com_status' = [com_status EXCEPT ![t] = "Idle"]
          \/ /\ wpc' = [wpc EXCEPT ![p][t] = "loop"] /\ com_status' = com_status
             /\ status' = [status EXCEPT ![t] = "ZERO"]
      BY Zenon, <2>9 DEF WorkerComplete
    <3>2. /\ wpc \in [Procs -> [Threads -> WorkerPC]] /\ "finish" \in WorkerPC /\ "loop" \in WorkerPC
          /\ com_status \in [Threads -> {"Idle", "Working"}]
          /\ status \in [Threads -> {"BUSY", "ZERO"}]
      BY Zenon DEF TypeOK, WorkerPC
    <3>3. wpc' \in [Procs -> [Threads -> WorkerPC]]
      BY <3>1, <3>2
    <3>4. /\ com_status' \in [Threads -> {"Idle", "Working"}]
          /\ status' \in [Threads -> {"BUSY", "ZERO"}]
      BY <3>1, <3>2, Zenon
    <3> QED
      BY Zenon, <2>9, <3>3, <3>4 DEF TypeOK, WorkerComplete
  <2> QED
    BY Zenon, <1>5, <2>1, <2>2, <2>3, <2>4, <2>5, <2>6, <2>7, <2>8, <2>9 DEF WorkerStep
<1>6. ASSUME NEW p \in Procs, Construct(p) PROVE TypeOK'
  BY <1>6, Zenon DEF TypeOK, Construct
<1>7. ASSUME NEW p \in Procs, Crash(p) PROVE TypeOK'
  BY <1>7 DEF TypeOK, Crash, HostPC, WorkerPC
<1>8. CASE UNCHANGED vars
  BY <1>8, Zenon DEF TypeOK, vars
<1> QED
  BY Zenon, <1>1, <1>2, <1>3, <1>4, <1>5, <1>6, <1>7, <1>8 DEF Next, Finished

-----------------------------------------------------------------------------
(* Most steps concern one engine thread: they are steps of the host that   *)
(* holds it or of its worker.                                              *)
LocalTo(h) ==
  /\ owner' = owner /\ thr' = thr /\ op' = op
  /\ \A g \in Hosts \ {h} : pc'[g] = pc[g] /\ result'[g] = result[g] /\ size'[g] = size[g]
  /\ \A d \in Threads \ {thr[h]} :
       /\ column'[d] = column[d] /\ predicate'[d] = predicate[d] /\ otype'[d] = otype[d]
       /\ res_addr'[d] = res_addr[d] /\ res_size'[d] = res_size[d]
       /\ start'[d] = start[d] /\ status'[d] = status[d]
  /\ \A q \in Procs, d \in Threads :
       q # ProcOf[h] \/ d # thr[h] => wpc'[q][d] = wpc[q][d] /\ wview'[q][d] = wview[q][d]

\* What a holder's thread looks like concerns the host and the thread alone.
LEMMA ViewFrame ==
  ASSUME NEW g, View(g), pc'[g] = pc[g], result'[g] = result[g], size'[g] = size[g],
         op'[g] = op[g], thr'[g] = thr[g],
         column'[thr[g]] = column[thr[g]], predicate'[thr[g]] = predicate[thr[g]],
         otype'[thr[g]] = otype[thr[g]], res_addr'[thr[g]] = res_addr[thr[g]],
         res_size'[thr[g]] = res_size[thr[g]], start'[thr[g]] = start[thr[g]],
         status'[thr[g]] = status[thr[g]],
         wpc'[ProcOf[g]][thr[g]] = wpc[ProcOf[g]][thr[g]],
         wview'[ProcOf[g]][thr[g]] = wview[ProcOf[g]][thr[g]]
  PROVE  View(g)'
<1>1. Id(g)' = Id(g) /\ Exp(g)' = Exp(g)
  BY Zenon DEF Id, Service!ScanId, Exp, Service!Expected, Service!Outcome
<1>2. Service!SizeOf(Exp(g))' = Service!SizeOf(Exp(g))
  BY Zenon, <1>1 DEF Service!SizeOf, Service!Outcome, Service!NoScan
<1>3. Scanning(ProcOf[g], thr[g])' <=> Scanning(ProcOf[g], thr[g])
  BY Zenon DEF Scanning
<1>4. Flight(g) => Flight(g)'
  BY <1>1, <1>2, <1>3, ZenonT(60) DEF Flight
<1> QED
  BY Zenon, <1>1, <1>2, <1>3, <1>4, SMTT(60) DEF View

\* Two hosts never hold the same thread.
LEMMA HoldersDiffer ==
  ASSUME Locks, NEW g \in Hosts, NEW h \in Hosts, Holding(g), Holding(h), thr[g] = thr[h]
  PROVE  g = h
BY Zenon DEF Locks

\* A local step that keeps the holder's view keeps everything.
LEMMA LocalStep ==
  ASSUME TypeOK, Good, NEW h \in Hosts, Holding(h), LocalTo(h), Holding(h)', View(h)'
  PROVE  Good'
<1> USE HostAssumption
<1>1. /\ owner' = owner /\ thr' = thr /\ op' = op /\ owner[thr[h]] = h
      /\ thr[h] \in Threads /\ ProcOf[h] \in Procs
  <2>1. thr \in [Hosts -> Threads] /\ owner[thr[h]] = h
    BY Zenon DEF TypeOK, Good, Locks
  <2> QED
    BY Zenon, <2>1 DEF LocalTo
<1>2. ASSUME NEW g \in Hosts PROVE Holding(g)' <=> Holding(g)
  <2>1. CASE g = h
    BY Zenon, <2>1
  <2>2. CASE g # h
    BY Zenon, <2>2 DEF LocalTo, Holding
  <2> QED
    BY Zenon, <2>1, <2>2
<1>3. Locks'
  <2>1. ASSUME NEW q \in Procs, NEW d \in Threads, wpc'[q][d] # "off"
        PROVE  owner[d] # NoHost /\ ProcOf[owner[d]] = q
    <3>1. CASE q = ProcOf[h] /\ d = thr[h]
      BY Zenon, <3>1, <1>1
    <3>2. CASE q # ProcOf[h] \/ d # thr[h]
      <4>1. wpc'[q][d] = wpc[q][d]
        BY Zenon, <3>2 DEF LocalTo
      <4> QED
        BY Zenon, <2>1, <4>1 DEF Good, Locks
    <3> QED
      BY Zenon, <3>1, <3>2
  <2>2. \A g \in Hosts : Holding(g)' => owner'[thr'[g]] = g
    BY Zenon, <1>1, <1>2 DEF Good, Locks
  <2> QED
    BY Zenon, <1>1, <2>1, <2>2 DEF Locks
<1>4. ASSUME NEW t \in Threads
      PROVE  Resting(t)' \/ \E g \in Hosts : thr'[g] = t /\ pc'[g] = "spin"
  <2>1. CASE t = thr[h]
    <3>1. CASE pc'[h] = "spin"
      BY Zenon, <1>1, <2>1, <3>1
    <3>2. CASE pc'[h] # "spin"
      <4>1. ~start'[t] /\ ~Scanning(ProcOf[h], thr[h])'
        BY Zenon, <1>1, <2>1, <3>2 DEF View
      <4>2. ASSUME NEW q \in Procs PROVE ~Scanning(q, t)'
        <5>1. CASE q = ProcOf[h]
          BY Zenon, <1>1, <2>1, <4>1, <5>1
        <5>2. CASE q # ProcOf[h]
          <6>0. owner'[t] = h
            BY Zenon, <1>1, <2>1
          <6>1. wpc'[q][t] = "off"
            BY Zenon, <1>3, <5>2, <6>0 DEF Locks
          <6> QED
            BY <6>1, Zenon DEF Scanning
        <5> QED
          BY Zenon, <5>1, <5>2
      <4> QED
        BY Zenon, <4>1, <4>2 DEF Resting
    <3> QED
      BY Zenon, <3>1, <3>2
  <2>2. CASE t # thr[h]
    <3>1. CASE Resting(t)
      <4>1. start'[t] = start[t] /\ \A q \in Procs : wpc'[q][t] = wpc[q][t]
        BY Zenon, <2>2 DEF LocalTo
      <4> QED
        BY Zenon, <3>1, <4>1 DEF Resting, Scanning
    <3>2. CASE ~Resting(t)
      <4>1. PICK g \in Hosts : thr[g] = t /\ pc[g] = "spin"
        BY Zenon, <3>2 DEF Good, Quiet
      <4>2. pc'[g] = pc[g]
        BY Zenon, <2>2, <4>1 DEF LocalTo
      <4> QED
        BY Zenon, <1>1, <4>1, <4>2
    <3> QED
      BY Zenon, <3>1, <3>2
  <2> QED
    BY Zenon, <2>1, <2>2
<1>5. ASSUME NEW g \in Hosts, Holding(g)' PROVE View(g)'
  <2>1. CASE g = h
    BY Zenon, <2>1
  <2>2. CASE g # h
    <3>1. Holding(g) /\ View(g) /\ thr[g] # thr[h]
      BY Zenon, <1>2, <1>5, <2>2, HoldersDiffer DEF Good
    <3>2. thr[g] \in Threads /\ ProcOf[g] \in Procs
      BY Zenon DEF TypeOK
    <3>3. /\ pc'[g] = pc[g] /\ result'[g] = result[g] /\ size'[g] = size[g]
          /\ op'[g] = op[g] /\ thr'[g] = thr[g]
      BY Zenon, <1>1, <2>2 DEF LocalTo
    <3>4. /\ column'[thr[g]] = column[thr[g]] /\ predicate'[thr[g]] = predicate[thr[g]]
          /\ otype'[thr[g]] = otype[thr[g]] /\ res_addr'[thr[g]] = res_addr[thr[g]]
          /\ res_size'[thr[g]] = res_size[thr[g]] /\ start'[thr[g]] = start[thr[g]]
          /\ status'[thr[g]] = status[thr[g]]
      BY Zenon, <3>1, <3>2 DEF LocalTo
    <3>5. /\ wpc'[ProcOf[g]][thr[g]] = wpc[ProcOf[g]][thr[g]]
          /\ wview'[ProcOf[g]][thr[g]] = wview[ProcOf[g]][thr[g]]
      BY Zenon, <3>1, <3>2 DEF LocalTo
    <3> QED
      BY Zenon, <3>1, <3>3, <3>4, <3>5, ViewFrame
  <2> QED
    BY Zenon, <2>1, <2>2
<1> QED
  BY Zenon, <1>3, <1>4, <1>5 DEF Good, Quiet

\* A holder's steps are local to its thread, and it goes on holding it.
LEMMA HostLocal ==
  ASSUME TypeOK, NEW h \in Hosts, HostStep(h), ~ReleaseThread(h)
  PROVE  Holding(h) /\ Holding(h)' /\ LocalTo(h)
<1> USE HostAssumption DEF Goto, WGoto, params, regVars, thrVars, hostData, bounds, LocalTo,
                           Holding, TypeOK
<1>1. CASE EnableThread(h)
  BY <1>1, Zenon DEF EnableThread
<1>2. CASE WriteColumn(h)
  BY <1>2, Zenon DEF WriteColumn
<1>3. CASE WritePredicate(h)
  BY <1>3, Zenon DEF WritePredicate
<1>4. CASE WriteOutput(h)
  BY <1>4, Zenon DEF WriteOutput
<1>5. CASE WriteResult(h)
  BY <1>5, Zenon DEF WriteResult
<1>6. CASE SetBusy(h)
  BY <1>6, Zenon DEF SetBusy
<1>7. CASE SetStart(h)
  BY <1>7, Zenon DEF SetStart
<1>8. CASE Spin(h)
  BY <1>8, Zenon DEF Spin
<1>9. CASE ReadRegisters(h)
  BY <1>9, Zenon DEF ReadRegisters
<1>10. CASE StopThread(h)
  BY <1>10, Zenon DEF StopThread
<1>11. CASE JoinThread(h)
  BY <1>11, Zenon DEF JoinThread
<1> QED
  BY Zenon, <1>1, <1>2, <1>3, <1>4, <1>5, <1>6, <1>7, <1>8, <1>9, <1>10, <1>11
     DEF HostStep

\* A holder and its thread, typed.
LEMMA HolderFacts ==
  ASSUME TypeOK, Good, NEW h \in Hosts, Holding(h)
  PROVE  thr[h] \in Threads /\ ProcOf[h] \in Procs /\ owner[thr[h]] = h /\ View(h)
<1>1. thr \in [Hosts -> Threads]
  BY Zenon DEF TypeOK
<1> QED
  BY Zenon, <1>1, HostAssumption DEF Good, Locks

\* The holder's view of its thread.
LEMMA HostView ==
  ASSUME TypeOK, Good, NEW h \in Hosts, HostStep(h), ~ReleaseThread(h)
  PROVE  View(h)'
<1> USE HostAssumption DEF Goto, WGoto, params, regVars, thrVars, hostData, bounds, View
<1>0. TypeOK /\ thr[h] \in Threads /\ ProcOf[h] \in Procs /\ View(h)
  BY Zenon, HostLocal, HolderFacts
<1>a. ASSUME op' = op PROVE Id(h)' = Id(h) /\ Exp(h)' = Exp(h)
  BY Zenon, <1>a DEF Id, Service!ScanId, Exp, Service!Expected, Service!Outcome
<1>b. ASSUME op' = op PROVE Service!SizeOf(Exp(h))' = Service!SizeOf(Exp(h))
  BY Zenon, <1>a, <1>b DEF Service!SizeOf, Service!Outcome, Service!NoScan
<1>c. ASSUME wpc' = wpc, thr' = thr
      PROVE  Scanning(ProcOf[h], thr[h])' <=> Scanning(ProcOf[h], thr[h])
  BY Zenon, <1>c DEF Scanning
<1>1. CASE EnableThread(h)
  BY <1>0, <1>a, <1>b, <1>c, <1>1, Zenon DEF EnableThread, TypeOK, Scanning
<1>2. CASE WriteColumn(h)
  BY <1>0, <1>a, <1>b, <1>c, <1>2, Zenon DEF WriteColumn, TypeOK
<1>3. CASE WritePredicate(h)
  BY <1>0, <1>a, <1>b, <1>c, <1>3, Zenon DEF WritePredicate, TypeOK
<1>4. CASE WriteOutput(h)
  BY <1>0, <1>a, <1>b, <1>c, <1>4, Zenon DEF WriteOutput, TypeOK
<1>5. CASE WriteResult(h)
  BY <1>0, <1>a, <1>b, <1>c, <1>5, Zenon DEF WriteResult, TypeOK
<1>6. CASE SetBusy(h)
  BY <1>0, <1>a, <1>b, <1>c, <1>6, Zenon DEF SetBusy, TypeOK
<1>7. CASE SetStart(h)
  BY <1>0, <1>a, <1>b, <1>c, <1>7, Zenon DEF SetStart, TypeOK, Flight, Scanning
<1>8. CASE Spin(h)
  BY <1>0, <1>a, <1>b, <1>c, <1>8, Zenon DEF Spin, TypeOK, Flight, Scanning
<1>9. CASE ReadRegisters(h)
  BY <1>0, <1>a, <1>b, <1>c, <1>9, Zenon DEF ReadRegisters, TypeOK
<1>10. CASE StopThread(h)
  BY <1>0, <1>a, <1>b, <1>c, <1>10, Zenon DEF StopThread, TypeOK
<1>11. CASE JoinThread(h)
  BY <1>0, <1>a, <1>b, <1>c, <1>11, Zenon DEF JoinThread, TypeOK, Scanning
<1> QED
  BY Zenon, <1>1, <1>2, <1>3, <1>4, <1>5, <1>6, <1>7, <1>8, <1>9, <1>10, <1>11
     DEF HostStep

\* A worker that scans works for the host that waits for it.
LEMMA ScanHost ==
  ASSUME TypeOK, Good, NEW p \in Procs, NEW t \in Threads, start[t] \/ Scanning(p, t)
  PROVE  \E h \in Hosts : /\ pc[h] = "spin" /\ Holding(h) /\ thr[h] = t /\ owner[t] = h
                          /\ wpc[p][t] # "off" => ProcOf[h] = p
<1>1. PICK h \in Hosts : thr[h] = t /\ pc[h] = "spin"
  BY Zenon DEF Good, Quiet, Resting
<1>2. Holding(h)
  BY <1>1, Zenon DEF Holding
<1>3. owner[t] = h
  BY Zenon, <1>1, <1>2 DEF Good, Locks
<1>4. wpc[p][t] # "off" => ProcOf[h] = p
  BY Zenon, <1>3 DEF Good, Locks
<1> QED
  BY Zenon, <1>1, <1>2, <1>3, <1>4

\* The worker's steps are local to the thread of a waiting host.
LEMMA WorkerLocal ==
  ASSUME TypeOK, Good, NEW h \in Hosts, pc[h] = "spin", WorkerStep(ProcOf[h], thr[h])
  PROVE  LocalTo(h) /\ pc' = pc
<1> USE HostAssumption DEF WGoto, params, regVars, thrVars, hostData, bounds, LocalTo, TypeOK
<1>1. CASE WorkerBegin(ProcOf[h], thr[h])
  BY <1>1, Zenon DEF WorkerBegin
<1>2. CASE WorkerCheckStop(ProcOf[h], thr[h])
  BY <1>2, Zenon DEF WorkerCheckStop
<1>3. CASE WorkerLoad(ProcOf[h], thr[h])
  BY <1>3, Zenon DEF WorkerLoad
<1>4. CASE WorkerSetWorking(ProcOf[h], thr[h])
  BY <1>4, Zenon DEF WorkerSetWorking
<1>5. CASE WorkerSetBusy(ProcOf[h], thr[h])
  BY <1>5, Zenon DEF WorkerSetBusy
<1>6. CASE WorkerCollect(ProcOf[h], thr[h])
  BY <1>6, Zenon DEF WorkerCollect
<1>7. CASE WorkerScan(ProcOf[h], thr[h])
  <2>1. res_addr[thr[h]] = Id(h)
    BY HolderFacts, Zenon DEF Holding, View
  <2>2. ASSUME NEW g \in Hosts, g # h PROVE result'[g] = result[g]
    <3>1. Id(g) # Id(h)
      BY <2>2, Zenon DEF Id, Service!ScanId
    <3> QED
      BY Zenon, <1>7, <2>1, <3>1 DEF WorkerScan
  <2> QED
    BY <1>7, <2>2, Zenon DEF WorkerScan
<1>8. CASE WorkerClearCtrl(ProcOf[h], thr[h])
  BY <1>8, Zenon DEF WorkerClearCtrl
<1>9. CASE WorkerComplete(ProcOf[h], thr[h])
  BY <1>9 DEF WorkerComplete
<1> QED
  BY Zenon, <1>1, <1>2, <1>3, <1>4, <1>5, <1>6, <1>7, <1>8, <1>9 DEF WorkerStep

\* A worker is where it went.
LEMMA WorkerAt ==
  ASSUME TypeOK, NEW p \in Procs, NEW t \in Threads, NEW x, wpc' = [wpc EXCEPT ![p][t] = x]
  PROVE  wpc'[p][t] = x
<1>1. wpc \in [Procs -> [Threads -> WorkerPC]] BY Zenon DEF TypeOK
<1> QED BY <1>1, Zenon

\* The thread that a worker works on, when its host waits for it.
LEMMA WorkerView ==
  ASSUME TypeOK, Good, NEW h \in Hosts, pc[h] = "spin", WorkerStep(ProcOf[h], thr[h])
  PROVE  View(h)'
<1> USE DEF View, Flight, Scanning
<1> DEFINE p == ProcOf[h]
           t == thr[h]
<1>0. TypeOK /\ t \in Threads /\ p \in Procs /\ View(h)
  BY HolderFacts, Zenon DEF Holding
<1>a. op' = op /\ thr' = thr /\ pc' = pc /\ size' = size
  BY Zenon DEF WorkerStep, WorkerBegin, WorkerCheckStop, WorkerLoad, WorkerSetWorking,
       WorkerSetBusy, WorkerCollect, WorkerScan, WorkerClearCtrl, WorkerComplete, hostData
<1>b. Id(h)' = Id(h) /\ Exp(h)' = Exp(h)
  BY Zenon, <1>a DEF Id, Service!ScanId, Exp, Service!Expected, Service!Outcome
<1>c. Service!SizeOf(Exp(h))' = Service!SizeOf(Exp(h))
  BY Zenon, <1>b DEF Service!SizeOf, Service!Outcome, Service!NoScan
<1>d. /\ column[t] = Id(h) /\ predicate[t] = Id(h) /\ res_addr[t] = Id(h) /\ Flight(h)
      /\ wpc[p][t] # "off"
  BY Zenon, <1>0
<1>1. CASE WorkerBegin(p, t)
  BY <1>0, <1>a, <1>b, <1>c, <1>d, <1>1, Zenon DEF WorkerBegin, TypeOK, WGoto, params, regVars, thrVars, hostData
<1>2. CASE WorkerCheckStop(p, t)
  BY <1>0, <1>a, <1>b, <1>c, <1>d, <1>2, Zenon DEF WorkerCheckStop, TypeOK, WGoto, params, regVars, thrVars, hostData
<1>3. CASE WorkerLoad(p, t)
  BY <1>0, <1>a, <1>b, <1>c, <1>d, <1>3, Zenon DEF WorkerLoad, TypeOK, WGoto, params, regVars, thrVars, hostData
<1>4. CASE WorkerSetWorking(p, t)
  BY <1>0, <1>a, <1>b, <1>c, <1>d, <1>4, ZenonT(60) DEF WorkerSetWorking, TypeOK, WGoto, params, regVars, thrVars, hostData
<1>5. CASE WorkerSetBusy(p, t)
  BY <1>0, <1>a, <1>b, <1>c, <1>d, <1>5, Zenon DEF WorkerSetBusy, TypeOK, WGoto, params, regVars, thrVars, hostData
<1>6. CASE WorkerCollect(p, t)
  BY <1>0, <1>a, <1>b, <1>c, <1>d, <1>6, Zenon DEF WorkerCollect, TypeOK, WGoto, params, regVars, thrVars, hostData
<1>7. CASE WorkerScan(p, t)
  <2> DEFINE r == Service!Outcome(wview[p][t][1], predicate[t], wview[p][t][2])
             z == IF r.type = "BitVector" THEN [r EXCEPT !.column = column[t]] ELSE r
  <2>1. wpc[p][t] = "scan"
    BY Zenon, <1>7 DEF WorkerScan
  <2>2. wview[p][t] = <<Id(h), op[h].type>>
    BY Zenon, <1>d, <2>1
  <2>3. r = Exp(h)
    <3> HIDE DEF p, t, View, Flight, Scanning
    <3>1. wview[p][t][1] = Id(h) /\ wview[p][t][2] = op[h].type BY <2>2
    <3> QED BY Zenon, <1>d, <3>1 DEF Exp, Service!Expected, Id
  <2>4. z = Exp(h)
    BY <1>d, <2>3, Zenon DEF Exp, Service!Expected, Service!Outcome, Id
  <2>5. /\ result' = [g \in Hosts |-> IF res_addr[t] = Id(g) THEN r ELSE result[g]]
        /\ res_size' = [res_size EXCEPT ![t] = Service!SizeOf(z)]
    BY Zenon, <1>7 DEF WorkerScan
  <2> HIDE DEF r, z
  <2>6. result'[h] = Exp(h) /\ res_size'[t] = Service!SizeOf(Exp(h))
    BY Zenon, <1>0, <1>d, <2>3, <2>4, <2>5 DEF TypeOK
  <2>7. /\ wpc'[p][t] = "clearCtrl" /\ start' = start /\ status' = status
        /\ column' = column /\ predicate' = predicate /\ res_addr' = res_addr
    BY <1>0, <1>7, Zenon DEF WorkerScan, TypeOK, WGoto, params
  <2>8. start[t] /\ status[t] = "BUSY"
    BY <1>d, <2>1, Zenon
  <2> QED
    BY <1>a, <1>b, <1>c, <1>d, <2>6, <2>7, <2>8, Zenon
<1>8. CASE WorkerClearCtrl(p, t)
  BY <1>0, <1>a, <1>b, <1>c, <1>d, <1>8, Zenon DEF WorkerClearCtrl, TypeOK, WGoto, params, regVars, thrVars, hostData
<1>9. CASE WorkerComplete(p, t)
  <2>1. /\ column' = column /\ predicate' = predicate /\ res_addr' = res_addr /\ start' = start
        /\ result' = result /\ res_size' = res_size
    BY Zenon, <1>9 DEF WorkerComplete, params, hostData
  <2>2. CASE wpc[p][t] = "idle"
    <3>1. wpc'[p][t] = "finish" /\ status' = status
      <4>1. wpc' = [wpc EXCEPT ![p][t] = "finish"] /\ status' = status
        BY Zenon, <1>9, <2>2 DEF WorkerComplete, WGoto
      <4> QED BY Zenon, <1>0, <4>1, WorkerAt
    <3> QED
      BY <1>a, <1>b, <1>c, <1>d, <2>1, <2>2, <3>1, Zenon
  <2>3. CASE wpc[p][t] = "finish"
    <3>1. wpc'[p][t] = "loop" /\ status'[t] = "ZERO"
      <4>1. wpc' = [wpc EXCEPT ![p][t] = "loop"] /\ status' = [status EXCEPT ![t] = "ZERO"]
        BY Zenon, <1>9, <2>3 DEF WorkerComplete, WGoto
      <4>2. status \in [Threads -> {"BUSY", "ZERO"}] BY Zenon, <1>0 DEF TypeOK
      <4>3. status'[t] = "ZERO" BY Zenon, <1>0, <4>1, <4>2
      <4> QED BY Zenon, <1>0, <4>1, <4>3, WorkerAt
    <3> QED
      BY <1>a, <1>b, <1>c, <1>d, <2>1, <2>3, <3>1, Zenon
  <2> QED
    BY Zenon, <1>9, <2>2, <2>3 DEF WorkerComplete
<1> QED
  BY Zenon, <1>1, <1>2, <1>3, <1>4, <1>5, <1>6, <1>7, <1>8, <1>9 DEF WorkerStep

\* A worker with nothing to scan only goes round its loop.
LEMMA RestingWorker ==
  ASSUME TypeOK, Good, NEW p \in Procs, NEW t \in Threads, WorkerStep(p, t),
         ~start[t], ~Scanning(p, t)
  PROVE  Good'
<1>1. WorkerBegin(p, t) \/ WorkerCheckStop(p, t) \/ WorkerLoad(p, t)
  BY Zenon DEF WorkerStep, Scanning, WorkerSetWorking, WorkerSetBusy, WorkerCollect, WorkerScan,
         WorkerClearCtrl, WorkerComplete
<1>2. /\ owner' = owner /\ column' = column /\ predicate' = predicate /\ otype' = otype
      /\ res_addr' = res_addr /\ res_size' = res_size /\ start' = start /\ status' = status
      /\ wview' = wview /\ pc' = pc /\ op' = op /\ thr' = thr /\ result' = result /\ size' = size
  BY Zenon, <1>1 DEF WorkerBegin, WorkerCheckStop, WorkerLoad, params, regVars, hostData
<1>3. wpc[p][t] \in {"queued", "loop", "load"} /\ wpc'[p][t] \in {"loop", "load", "done"}
  <2>1. wpc \in [Procs -> [Threads -> WorkerPC]]
    BY Zenon DEF TypeOK
  <2>2. CASE WorkerBegin(p, t)
    BY <2>1, <2>2, Zenon DEF WorkerBegin, WGoto
  <2>3. CASE WorkerCheckStop(p, t)
    BY <2>1, <2>3, Zenon DEF WorkerCheckStop, WGoto
  <2>4. CASE WorkerLoad(p, t)
    BY <2>1, <2>4, Zenon DEF WorkerLoad, WGoto
  <2> QED
    BY Zenon, <1>1, <2>2, <2>3, <2>4
<1>4. \A q \in Procs, d \in Threads : q # p \/ d # t => wpc'[q][d] = wpc[q][d]
  <2>1. wpc \in [Procs -> [Threads -> WorkerPC]] /\ \E l : wpc' = [wpc EXCEPT ![p][t] = l]
    BY Zenon, <1>1 DEF WorkerBegin, WorkerCheckStop, WorkerLoad, WGoto, TypeOK
  <2> QED
    BY <2>1, Zenon
<1>5. /\ wpc[p][t] # "off" /\ wpc'[p][t] # "off" /\ ~Scanning(p, t)'
  BY <1>3, Zenon DEF Scanning
<1>6. \A q \in Procs, d \in Threads : Scanning(q, d)' => Scanning(q, d)
  BY Zenon, <1>4, <1>5 DEF Scanning
<1>7. \A q \in Procs, d \in Threads : wpc'[q][d] # "off" => wpc[q][d] # "off"
  BY Zenon, <1>4, <1>5
<1>8. Locks'
  <2>1. \A h \in Hosts : Holding(h)' => Holding(h)
    BY Zenon, <1>2 DEF Holding
  <2>2. \A h \in Hosts : Holding(h)' => owner'[thr'[h]] = h
    BY Zenon, <1>2, <2>1 DEF Good, Locks
  <2>3. \A q \in Procs, d \in Threads :
          wpc'[q][d] # "off" => owner'[d] # NoHost /\ ProcOf[owner'[d]] = q
    <3> SUFFICES ASSUME NEW q \in Procs, NEW d \in Threads, wpc'[q][d] # "off"
                 PROVE  owner'[d] # NoHost /\ ProcOf[owner'[d]] = q
      BY Zenon
    <3>1. owner[d] # NoHost /\ ProcOf[owner[d]] = q
      BY Zenon, <1>7 DEF Good, Locks
    <3>2. owner'[d] = owner[d]
      BY Zenon, <1>2
    <3> QED
      BY Zenon, <3>1, <3>2
  <2> QED
    BY Zenon, <2>2, <2>3 DEF Locks
<1>9. Quiet'
  <2>1. \A d \in Threads : Resting(d) => Resting(d)'
    BY Zenon, <1>2, <1>6 DEF Resting
  <2> QED
    BY Zenon, <1>2, <2>1 DEF Good, Quiet
<1>10. ASSUME NEW h \in Hosts, Holding(h)' PROVE View(h)'
  <2>1. Holding(h)
    BY Zenon, <1>2, <1>10 DEF Holding
  <2>2. View(h) /\ thr[h] \in Threads /\ ProcOf[h] \in Procs
    BY Zenon, <2>1, HolderFacts
  <2>3. CASE ProcOf[h] # p \/ thr[h] # t
    <3>1. wpc'[ProcOf[h]][thr[h]] = wpc[ProcOf[h]][thr[h]]
      BY Zenon, <1>4, <2>2, <2>3
    <3> QED
      BY Zenon, <1>2, <2>2, <3>1, ViewFrame
  <2>4. CASE ProcOf[h] = p /\ thr[h] = t
    <3>1. /\ Id(h)' = Id(h) /\ Exp(h)' = Exp(h)
          /\ Service!SizeOf(Exp(h))' = Service!SizeOf(Exp(h))
      BY Zenon, <1>2 DEF Id, Exp, Service!SizeOf, Service!Expected, Service!Outcome, Service!NoScan, Service!ScanId
    <3>2. Flight(h) => Flight(h)'
      BY <1>2, <1>3, <1>5, <2>4, <3>1, Zenon DEF Flight
    <3> QED
      BY <1>2, <1>5, <2>2, <2>4, <3>1, <3>2, Zenon DEF View
  <2> QED
    BY Zenon, <2>3, <2>4
<1> QED
  BY Zenon, <1>8, <1>9, <1>10 DEF Good

\* A worker's step keeps everything.
LEMMA WorkerGood ==
  ASSUME TypeOK, Good, NEW p \in Procs, NEW t \in Threads, WorkerStep(p, t)
  PROVE  Good'
<1>1. CASE start[t] \/ Scanning(p, t)
  <2>1. wpc[p][t] # "off"
    BY Zenon DEF WorkerStep, WorkerBegin, WorkerCheckStop, WorkerLoad, WorkerSetWorking,
       WorkerSetBusy, WorkerCollect, WorkerScan, WorkerClearCtrl, WorkerComplete
  <2>2. PICK h \in Hosts : /\ pc[h] = "spin" /\ Holding(h) /\ thr[h] = t /\ owner[t] = h
                           /\ wpc[p][t] # "off" => ProcOf[h] = p
    BY <1>1, ScanHost, Zenon
  <2>3. WorkerStep(ProcOf[h], thr[h])
    BY Zenon, <2>1, <2>2
  <2>4. LocalTo(h) /\ View(h)' /\ pc' = pc
    BY Zenon, <2>2, <2>3, WorkerLocal, WorkerView
  <2>5. Holding(h)'
    BY Zenon, <2>2, <2>4 DEF Holding
  <2> QED
    BY Zenon, <2>2, <2>4, <2>5, LocalStep
<1>2. CASE ~start[t] /\ ~Scanning(p, t)
  BY Zenon, <1>2, RestingWorker
<1> QED
  BY Zenon, <1>1, <1>2

\* Registers and workers, which the remaining steps leave alone.
Device == <<column, predicate, otype, res_addr, res_size, start, status, wpc, wview>>

\* The threads and the other hosts, when one host that does not wait moves.
LEMMA OthersKept ==
  ASSUME TypeOK, Good, NEW h, UNCHANGED Device, h \in Hosts => pc[h] # "spin",
         \A g \in Hosts \ {h} : /\ pc'[g] = pc[g] /\ op'[g] = op[g] /\ thr'[g] = thr[g]
                                /\ result'[g] = result[g] /\ size'[g] = size[g]
  PROVE  /\ Quiet' /\ \A t \in Threads : Resting(t)' <=> Resting(t)
         /\ \A g \in Hosts \ {h} : (Holding(g)' <=> Holding(g)) /\ (Holding(g)' => View(g)')
<1>1. /\ column' = column /\ predicate' = predicate /\ otype' = otype /\ res_addr' = res_addr
      /\ res_size' = res_size /\ start' = start /\ status' = status /\ wpc' = wpc /\ wview' = wview
  BY Zenon DEF Device
<1>2. \A t \in Threads : Resting(t)' <=> Resting(t)
  BY Zenon, <1>1 DEF Resting, Scanning
<1>3. Quiet'
  <2>1. ASSUME NEW t \in Threads, ~Resting(t) PROVE \E g \in Hosts : thr'[g] = t /\ pc'[g] = "spin"
    <3>1. PICK g \in Hosts : thr[g] = t /\ pc[g] = "spin"
      BY Zenon, <2>1 DEF Good, Quiet
    <3>2. g \in Hosts \ {h}
      BY Zenon, <3>1
    <3> QED
      BY Zenon, <3>1, <3>2
  <2> QED
    BY Zenon, <1>2, <2>1 DEF Quiet
<1>4. ASSUME NEW g \in Hosts \ {h} PROVE (Holding(g)' <=> Holding(g)) /\ (Holding(g)' => View(g)')
  <2>1. Holding(g)' <=> Holding(g)
    BY Zenon DEF Holding
  <2>2. Holding(g) => View(g)
    BY Zenon DEF Good
  <2> QED
    BY Zenon, <1>1, <2>1, <2>2, ViewFrame
<1> QED
  BY Zenon, <1>2, <1>3, <1>4

\* Beginning an operation, and giving one up, concern nobody's thread.
LEMMA StartThrowGood ==
  ASSUME TypeOK, Good, NEW h \in Hosts, StartOp(h) \/ Throw(h)
  PROVE  Good'
<1>1. owner' = owner /\ thr' = thr /\ UNCHANGED Device /\ ~Holding(h)' /\ pc[h] # "spin"
  BY Zenon DEF StartOp, Throw, Goto, TypeOK, Device, params, regVars, thrVars, hostData, Holding
<1>2. \A g \in Hosts \ {h} : /\ pc'[g] = pc[g] /\ op'[g] = op[g] /\ thr'[g] = thr[g]
                             /\ result'[g] = result[g] /\ size'[g] = size[g]
  BY Zenon DEF StartOp, Throw, Goto, TypeOK, hostData
<1>3. /\ Quiet'
      /\ \A g \in Hosts \ {h} : (Holding(g)' <=> Holding(g)) /\ (Holding(g)' => View(g)')
  BY Zenon, <1>1, <1>2, OthersKept
<1>4. Locks'
  <2>1. wpc' = wpc
    BY Zenon, <1>1 DEF Device
  <2>2. \A g \in Hosts : Holding(g)' => Holding(g)
    BY Zenon, <1>1, <1>3
  <2> QED
    BY Zenon, <1>1, <2>1, <2>2 DEF Good, Locks
<1> QED
  BY Zenon, <1>1, <1>3, <1>4 DEF Good

\* A host that locks a thread finds it resting and without a worker.
LEMMA LockGood ==
  ASSUME TypeOK, Good, NEW h \in Hosts, LockThread(h)
  PROVE  Good'
<1> USE HostAssumption
<1>0. pc \in [Hosts -> HostPC] /\ thr \in [Hosts -> Threads] /\ owner \in [Threads -> Hosts \cup {NoHost}]
  BY Zenon DEF TypeOK
<1>1. PICK t \in Threads :
        owner[t] = NoHost /\ owner' = [owner EXCEPT ![t] = h] /\ thr' = [thr EXCEPT ![h] = t]
  BY Zenon DEF LockThread
<1>2. /\ pc[h] = "lock" /\ pc' = [pc EXCEPT ![h] = "enable"] /\ UNCHANGED Device
      /\ op' = op /\ result' = result /\ size' = size /\ wpc' = wpc
  BY Zenon DEF LockThread, Goto, Device, params, regVars, thrVars
<1>3. \A g \in Hosts \ {h} : /\ pc'[g] = pc[g] /\ op'[g] = op[g] /\ thr'[g] = thr[g]
                             /\ result'[g] = result[g] /\ size'[g] = size[g]
  BY Zenon, <1>0, <1>1, <1>2
<1>4. /\ Quiet' /\ \A d \in Threads : Resting(d)' <=> Resting(d)
      /\ \A g \in Hosts \ {h} : (Holding(g)' <=> Holding(g)) /\ (Holding(g)' => View(g)')
  BY Zenon, <1>2, <1>3, OthersKept
<1>5. \A q \in Procs : wpc[q][t] = "off"
  BY Zenon, <1>1 DEF Good, Locks
<1>6. Resting(t)
  <2>1. ASSUME NEW g \in Hosts, thr[g] = t, pc[g] = "spin" PROVE FALSE
    <3>1. Holding(g)
      BY <2>1, Zenon DEF Holding
    <3>2. owner[thr[g]] = g
      BY Zenon, <3>1 DEF Good, Locks
    <3> QED
      BY Zenon, <1>1, <2>1, <3>2
  <2> QED
    BY Zenon, <2>1 DEF Good, Quiet
<1>7. pc'[h] = "enable" /\ thr'[h] = t /\ ProcOf[h] \in Procs
  BY Zenon, <1>0, <1>1, <1>2
<1>8. View(h)'
  <2>1. Resting(t)'
    BY Zenon, <1>4, <1>6
  <2>2. ~start'[thr'[h]] /\ ~Scanning(ProcOf[h], thr[h])' /\ wpc'[ProcOf[h]][thr'[h]] = "off"
    BY Zenon, <1>2, <1>5, <1>7, <2>1 DEF Resting, Scanning
  <2> QED
    BY <1>7, <2>2, Zenon DEF View
<1>9. Locks'
  <2>1. ASSUME NEW g \in Hosts, Holding(g)' PROVE owner'[thr'[g]] = g
    <3>1. CASE g = h
      BY Zenon, <3>1, <1>0, <1>1, <1>7
    <3>2. CASE g # h
      <4>1. Holding(g) /\ thr'[g] = thr[g] /\ thr[g] \in Threads
        BY Zenon, <2>1, <3>2, <1>0, <1>3, <1>4
      <4>2. owner[thr[g]] = g
        BY Zenon, <4>1 DEF Good, Locks
      <4>3. thr[g] # t
        BY Zenon, <4>2, <1>1
      <4> QED
        BY Zenon, <4>1, <4>2, <4>3, <1>0, <1>1
    <3> QED
      BY Zenon, <3>1, <3>2
  <2>2. ASSUME NEW q \in Procs, NEW d \in Threads, wpc'[q][d] # "off"
        PROVE  owner'[d] # NoHost /\ ProcOf[owner'[d]] = q
    <3>1. owner[d] # NoHost /\ ProcOf[owner[d]] = q
      BY Zenon, <2>2, <1>2 DEF Good, Locks
    <3>2. owner'[d] = owner[d]
      BY Zenon, <3>1, <1>0, <1>1
    <3> QED
      BY Zenon, <3>1, <3>2
  <2> QED
    BY Zenon, <2>1, <2>2 DEF Locks
<1> QED
  BY Zenon, <1>4, <1>8, <1>9 DEF Good

\* A thread is given back once its worker is off.
LEMMA ReleaseGood ==
  ASSUME TypeOK, Good, NEW h \in Hosts, ReleaseThread(h)
  PROVE  Good'
<1> USE HostAssumption
<1>0. pc \in [Hosts -> HostPC] /\ thr \in [Hosts -> Threads] /\ owner \in [Threads -> Hosts \cup {NoHost}]
  BY Zenon DEF TypeOK
<1>1. /\ pc[h] = "release" /\ pc' = [pc EXCEPT ![h] = "idle"] /\ UNCHANGED Device
      /\ op' = op /\ result' = result /\ size' = size /\ thr' = thr /\ wpc' = wpc
      /\ owner' = [owner EXCEPT ![thr[h]] = NoHost]
  BY Zenon DEF ReleaseThread, Goto, Device, params, regVars, thrVars, hostData
<1>2. \A g \in Hosts \ {h} : /\ pc'[g] = pc[g] /\ op'[g] = op[g] /\ thr'[g] = thr[g]
                             /\ result'[g] = result[g] /\ size'[g] = size[g]
  BY Zenon, <1>0, <1>1
<1>3. /\ Quiet'
      /\ \A g \in Hosts \ {h} : (Holding(g)' <=> Holding(g)) /\ (Holding(g)' => View(g)')
  BY Zenon, <1>1, <1>2, OthersKept
<1>4. Holding(h) /\ ~Holding(h)'
  BY <1>0, <1>1, Zenon DEF Holding
<1>5. thr[h] \in Threads /\ owner[thr[h]] = h /\ wpc[ProcOf[h]][thr[h]] = "off"
  BY Zenon, <1>1, <1>4, HolderFacts DEF View
<1>6. Locks'
  <2>1. ASSUME NEW g \in Hosts, Holding(g)' PROVE owner'[thr'[g]] = g
    <3>1. g # h /\ Holding(g) /\ thr[g] \in Threads
      BY Zenon, <2>1, <1>0, <1>3, <1>4
    <3>2. owner[thr[g]] = g
      BY Zenon, <3>1 DEF Good, Locks
    <3>3. thr[g] # thr[h]
      BY Zenon, <3>1, <3>2, <1>5
    <3> QED
      BY Zenon, <3>1, <3>2, <3>3, <1>0, <1>1
  <2>2. ASSUME NEW q \in Procs, NEW d \in Threads, wpc'[q][d] # "off"
        PROVE  owner'[d] # NoHost /\ ProcOf[owner'[d]] = q
    <3>1. owner[d] # NoHost /\ ProcOf[owner[d]] = q
      BY Zenon, <2>2, <1>1 DEF Good, Locks
    <3>2. d # thr[h]
      BY Zenon, <2>2, <3>1, <1>1, <1>5
    <3> QED
      BY Zenon, <3>1, <3>2, <1>0, <1>1
  <2> QED
    BY Zenon, <2>1, <2>2 DEF Locks
<1> QED
  BY Zenon, <1>3, <1>4, <1>6 DEF Good

\* The steps that change nothing of what the invariant speaks of.
LEMMA IdleGood ==
  ASSUME TypeOK, Good, (\E p \in Procs : Construct(p)) \/ UNCHANGED vars
  PROVE  Good'
<1>1. /\ owner' = owner /\ UNCHANGED Device /\ wpc' = wpc
      /\ pc' = pc /\ op' = op /\ thr' = thr /\ result' = result /\ size' = size
  BY Zenon DEF Construct, vars, Device, params, regVars, thrVars, hostData
<1>2. PICK n : n \notin Hosts
  BY Zenon, HostAssumption
<1>3. Quiet' /\ \A g \in Hosts : (Holding(g)' <=> Holding(g)) /\ (Holding(g)' => View(g)')
  BY Zenon, <1>1, <1>2, OthersKept
<1>4. Locks'
  BY Zenon, <1>1, <1>3 DEF Good, Locks
<1> QED
  BY Zenon, <1>3, <1>4 DEF Good

\* The invariant holds initially.
LEMMA InitInv ==
  ASSUME Init PROVE IInv
<1> USE DEF Init
<1>1. TypeOK
  <2>1. NoScan \in Ids /\ NoResult \in Outcomes /\ Service!NoSize \in Outcomes
        /\ Service!NoOp \in [no : Nat, type : Types]
    BY Zenon DEF NoScan, Service!NoScan, Ids, NoResult, Service!NoResult, Service!NoSize, Outcomes, Types,
           Service!NoOp
  <2>2. thr \in [Hosts -> Threads]
    BY Zenon, ThreadAssumption
  <2>3. <<NoScan, "BitVector">> \in Ids \X Types /\ "BitVector" \in Types
    BY <2>1, Zenon DEF Types
  <2> QED
    BY <2>1, <2>2, <2>3, Zenon DEF TypeOK, HostPC, WorkerPC
<1>2. \A h \in Hosts : ~Holding(h)
  <2>1. \A h \in Hosts : pc[h] = "idle"
    BY Zenon
  <2> QED
    BY Zenon, <2>1 DEF Holding
<1>3. Locks
  BY Zenon, <1>2 DEF Locks
<1>4. Quiet
  BY Zenon DEF Quiet, Resting, Scanning
<1> QED
  BY Zenon, <1>1, <1>2, <1>3, <1>4 DEF IInv, Good

\* Only the death of a process counts as one.
LEMMA CrashesOnly ==
  ASSUME [Next]_vars, ~\E p \in Procs : Crash(p) PROVE crashes' = crashes
<1>1. ASSUME NEW h \in Hosts, StartOp(h) \/ LockThread(h) \/ Throw(h) PROVE crashes' = crashes
  BY Zenon, <1>1 DEF StartOp, LockThread, Throw, bounds
<1>2. ASSUME NEW h \in Hosts, HostStep(h) PROVE crashes' = crashes
  BY Zenon, <1>2 DEF HostStep, bounds, EnableThread, WriteColumn, WritePredicate, WriteOutput,
       WriteResult, SetBusy, SetStart, Spin, ReadRegisters, StopThread, JoinThread, ReleaseThread
<1>3. ASSUME NEW p \in Procs, NEW t \in Threads, WorkerStep(p, t) PROVE crashes' = crashes
  BY Zenon, <1>3 DEF WorkerStep, bounds, WorkerBegin, WorkerCheckStop, WorkerLoad,
       WorkerSetWorking, WorkerSetBusy, WorkerCollect, WorkerScan, WorkerClearCtrl, WorkerComplete
<1>4. ASSUME NEW p \in Procs, Construct(p) PROVE crashes' = crashes
  BY Zenon, <1>4 DEF Construct, bounds
<1>5. ASSUME UNCHANGED vars PROVE crashes' = crashes
  BY Zenon, <1>5 DEF vars, bounds
<1> QED
  BY Zenon, <1>1, <1>2, <1>3, <1>4, <1>5 DEF Next, Finished

\* Until a process dies every step keeps the invariant.
LEMMA NextInv ==
  ASSUME IInv, [Next]_vars PROVE IInv'
<1>1. TypeOK /\ TypeOK'
  BY Zenon, TypesStep DEF IInv
<1>2. CASE \E p \in Procs : Crash(p)
  <2>1. crashes' # 0
    BY <1>1, <1>2, SMTT(60) DEF Crash, TypeOK
  <2> QED
    BY Zenon, <1>1, <2>1 DEF IInv
<1>3. ASSUME ~\E p \in Procs : Crash(p) PROVE crashes' = crashes
  BY Zenon, <1>3, CrashesOnly
<1>4. ASSUME Good, ~\E p \in Procs : Crash(p) PROVE Good'
  <2>1. CASE \E h \in Hosts : StartOp(h) \/ Throw(h)
    BY Zenon, <1>1, <1>4, <2>1, StartThrowGood
  <2>2. CASE \E h \in Hosts : LockThread(h)
    BY Zenon, <1>1, <1>4, <2>2, LockGood
  <2>3. CASE \E h \in Hosts : ReleaseThread(h)
    BY Zenon, <1>1, <1>4, <2>3, ReleaseGood
  <2>4. CASE \E h \in Hosts : HostStep(h) /\ ~ReleaseThread(h)
    BY Zenon, <1>1, <1>4, <2>4, HostLocal, HostView, LocalStep
  <2>5. CASE \E p \in Procs, t \in Threads : WorkerStep(p, t)
    BY Zenon, <1>1, <1>4, <2>5, WorkerGood
  <2>6. CASE (\E p \in Procs : Construct(p)) \/ UNCHANGED vars
    BY Zenon, <1>1, <1>4, <2>6, IdleGood
  <2> QED
    BY Zenon, <1>4, <2>1, <2>2, <2>3, <2>4, <2>5, <2>6 DEF Next, Finished
<1> QED
  BY Zenon, <1>1, <1>2, <1>3, <1>4 DEF IInv

\* The inductive invariant of a column scan.
THEOREM Invariance == Spec => []IInv
<1>1. Init => IInv
  BY Zenon, InitInv
<1>2. IInv /\ [Next]_vars => IInv'
  BY Zenon, NextInv
<1> QED
  BY PTL, <1>1, <1>2 DEF Spec

\* Every variable stays within its type, whoever dies.
THEOREM ScanTypeCorrect == Spec => []TypeOK
<1>1. IInv => TypeOK
  BY Zenon DEF IInv
<1> QED
  BY PTL, <1>1, Invariance

\* Nobody accesses the registers of a thread while a worker scans on it: the
\* only host that holds the thread then is in its wait loop.
THEOREM ScanQuiet == Spec => []QuietScans
<1>1. IInv => QuietScans
  <2> SUFFICES ASSUME IInv, crashes = 0, NEW p \in Procs, NEW t \in Threads, NEW h \in Hosts,
                      Scanning(p, t), Holding(h), thr[h] = t
               PROVE  pc[h] = "spin"
    BY Zenon DEF QuietScans, NoModificationDuringScan
  <2>1. TypeOK /\ Good
    BY Zenon DEF IInv
  <2>a. start[t] \/ Scanning(p, t)
    BY Zenon
  <2>2. PICK g \in Hosts : /\ pc[g] = "spin" /\ Holding(g) /\ thr[g] = t /\ owner[t] = g
                           /\ wpc[p][t] # "off" => ProcOf[g] = p
    BY <2>1, <2>a, ScanHost, Zenon
  <2>3. g = h
    BY Zenon, <2>1, <2>2, HoldersDiffer DEF Good
  <2> QED
    BY Zenon, <2>2, <2>3
<1> QED
  BY PTL, <1>1, Invariance

\* A host finds the outcome of its own scan, and its size.
THEOREM ScanResultsCorrect == Spec => []ResultsCorrect
<1>1. IInv => ResultsCorrect
  <2> SUFFICES ASSUME IInv, crashes = 0, NEW h \in Hosts
      PROVE  /\ pc[h] \in {"read", "stop", "join", "release"} => result[h] = Exp(h)
             /\ pc[h] \in {"stop", "join", "release"} => size[h] = Service!SizeOf(Exp(h))
    BY Zenon DEF ResultsCorrect, Exp
  <2>1. pc[h] \in {"read", "stop", "join", "release"} => View(h)
    BY Zenon DEF IInv, Good, Holding
  <2> QED
    BY Zenon, <2>1 DEF View
<1> QED
  BY PTL, <1>1, Invariance

-----------------------------------------------------------------------------
(* The refinement: what every step is to the service.                      *)

\* The phase of a host, as the refinement maps it.
PhaseOf(at) == CASE at = "idle" -> "idle" [] at = "lock" -> "pending" [] OTHER -> "running"

Phase == [h \in Hosts |-> PhaseOf(pc[h])]

\* Its value by cases.
LEMMA PhaseValue ==
  /\ PhaseOf("idle") = "idle" /\ PhaseOf("lock") = "pending"
  /\ \A at : at \notin {"idle", "lock"} => PhaseOf(at) = "running"
BY Zenon DEF PhaseOf

\* A step of one host changes its phase alone.
LEMMA PhaseStep ==
  ASSUME NEW h \in Hosts, NEW at, pc \in [Hosts -> HostPC], pc' = [pc EXCEPT ![h] = at]
  PROVE  /\ Phase[h] = PhaseOf(pc[h]) /\ Phase' = [Phase EXCEPT ![h] = PhaseOf(at)]
         /\ PhaseOf(pc[h]) = PhaseOf(at) => Phase' = Phase
<1>1. \A g \in Hosts : pc'[g] = IF g = h THEN at ELSE pc[g]
  BY Zenon
<1>2. Phase = [g \in Hosts |-> PhaseOf(pc[g])] /\ Phase' = [g \in Hosts |-> PhaseOf(pc'[g])]
  BY Zenon DEF Phase
<1> QED
  BY Zenon, <1>1, <1>2

\* A host that starts an operation submits it.
LEMMA SubmitStep ==
  ASSUME TypeOK, NEW h \in Hosts, StartOp(h) PROVE Service!Submit(h)
<1>1. pc \in [Hosts -> HostPC] /\ pc[h] = "idle" /\ pc' = [pc EXCEPT ![h] = "lock"]
  BY Zenon DEF StartOp, Goto, TypeOK
<1>2. Phase[h] = "idle" /\ Phase' = [Phase EXCEPT ![h] = "pending"]
  <2>1. Phase[h] = PhaseOf("idle") /\ Phase' = [Phase EXCEPT ![h] = PhaseOf("lock")]
    BY Zenon, <1>1, PhaseStep
  <2> QED
    BY Zenon, <2>1, PhaseValue
<1> QED
  BY Zenon, <1>2 DEF StartOp, Service!Submit, Phase, PhaseOf, NoResult

\* A host that locks a thread is granted it.
LEMMA GrantStep ==
  ASSUME TypeOK, NEW h \in Hosts, LockThread(h) PROVE Service!Grant(h)
<1>1. pc \in [Hosts -> HostPC] /\ pc[h] = "lock" /\ pc' = [pc EXCEPT ![h] = "enable"]
  BY Zenon DEF LockThread, Goto, TypeOK
<1>2. Phase[h] = "pending" /\ Phase' = [Phase EXCEPT ![h] = "running"]
  <2>1. Phase[h] = PhaseOf("lock") /\ Phase' = [Phase EXCEPT ![h] = PhaseOf("enable")]
    BY Zenon, <1>1, PhaseStep
  <2> QED
    BY Zenon, <2>1, PhaseValue
<1>3. /\ \E t \in Threads : owner[t] = NoHost /\ owner' = [owner EXCEPT ![t] = h]
      /\ op' = op /\ result' = result /\ size' = size
  BY Zenon DEF LockThread
<1> QED
  BY Zenon, <1>2, <1>3 DEF Service!Grant, Phase, PhaseOf

\* An exception is a failure that keeps the thread.
LEMMA FailStep ==
  ASSUME TypeOK, NEW h \in Hosts, Throw(h) PROVE Service!Fail(h)
<1>1. /\ pc \in [Hosts -> HostPC] /\ pc[h] \notin {"idle", "lock"}
      /\ pc' = [pc EXCEPT ![h] = "idle"]
  BY Zenon DEF Throw, Goto, TypeOK
<1>2. Phase[h] = "running" /\ Phase' = [Phase EXCEPT ![h] = "idle"]
  <2>1. Phase[h] = PhaseOf(pc[h]) /\ Phase' = [Phase EXCEPT ![h] = PhaseOf("idle")]
    BY Zenon, <1>1, PhaseStep
  <2> QED
    BY Zenon, <1>1, <2>1, PhaseValue
<1>3. owner' = owner /\ op' = op /\ result' = result /\ size' = size
  BY Zenon DEF Throw, hostData
<1> QED
  BY Zenon, <1>2, <1>3 DEF Service!Fail, Phase, PhaseOf

\* The size register reports the outcome in the result buffer.
LEMMA ReportStep ==
  ASSUME TypeOK, Good, NEW h \in Hosts, ReadRegisters(h) PROVE Service!Report(h)
<1>1. pc \in [Hosts -> HostPC] /\ pc[h] = "read" /\ pc' = [pc EXCEPT ![h] = "stop"]
  BY Zenon DEF ReadRegisters, Goto, TypeOK
<1>2. Phase[h] = "running" /\ Phase' = Phase
  <2>1. PhaseOf("read") = "running" /\ PhaseOf("stop") = "running"
    BY Zenon, PhaseValue
  <2> QED
    BY Zenon, <1>1, <2>1, PhaseStep
<1>3. result[h] = Exp(h) /\ res_size[thr[h]] = Service!SizeOf(Exp(h))
  BY Zenon, <1>1, HolderFacts DEF Holding, View
<1>4. /\ owner' = owner /\ op' = op /\ result' = result
      /\ size' = [size EXCEPT ![h] = Service!SizeOf(result[h])]
  BY Zenon, <1>3 DEF ReadRegisters
<1> QED
  BY Zenon, <1>2, <1>3, <1>4 DEF Service!Report, Phase, PhaseOf, Exp

\* The thread is given back once the size is reported.
LEMMA ReleaseStep ==
  ASSUME TypeOK, Good, NEW h \in Hosts, ReleaseThread(h) PROVE Service!Release(h)
<1>1. pc \in [Hosts -> HostPC] /\ pc[h] = "release" /\ pc' = [pc EXCEPT ![h] = "idle"]
  BY Zenon DEF ReleaseThread, Goto, TypeOK
<1>2. Phase[h] = "running" /\ Phase' = [Phase EXCEPT ![h] = "idle"]
  <2>1. Phase[h] = PhaseOf("release") /\ Phase' = [Phase EXCEPT ![h] = PhaseOf("idle")]
    BY Zenon, <1>1, PhaseStep
  <2> QED
    BY Zenon, <2>1, PhaseValue
<1>3. size[h] = Service!SizeOf(Exp(h)) /\ thr[h] \in Threads /\ owner[thr[h]] = h
  BY Zenon, <1>1, HolderFacts DEF Holding, View
<1>4. /\ owner' = [owner EXCEPT ![thr[h]] = NoHost]
      /\ op' = op /\ result' = result /\ size' = size
  BY Zenon DEF ReleaseThread, hostData
<1>5. \E t \in Threads : owner[t] = h /\ owner' = [owner EXCEPT ![t] = NoHost]
  BY Zenon, <1>3, <1>4
<1> QED
  BY Zenon, <1>2, <1>3, <1>4, <1>5 DEF Service!Release, Phase, PhaseOf, Exp

\* A scan produces the outcome of the waiting host and of nobody else.
LEMMA ProduceStep ==
  ASSUME TypeOK, Good, NEW p \in Procs, NEW t \in Threads, WorkerScan(p, t)
  PROVE  \E h \in Hosts : Service!Produce(h)
<1>1. wpc[p][t] = "scan" /\ wpc[p][t] # "off" /\ Scanning(p, t)
  BY Zenon DEF WorkerScan, Scanning
<1>2. PICK h \in Hosts : /\ pc[h] = "spin" /\ Holding(h) /\ thr[h] = t /\ owner[t] = h
                         /\ wpc[p][t] # "off" => ProcOf[h] = p
  <2>1. start[t] \/ Scanning(p, t)
    BY Zenon, <1>1
  <2> QED
    BY <2>1, ScanHost, Zenon
<1>3. ProcOf[h] = p /\ WorkerStep(ProcOf[h], thr[h]) /\ WorkerScan(ProcOf[h], thr[h])
  BY Zenon, <1>1, <1>2 DEF WorkerStep
<1>4. /\ owner' = owner /\ pc' = pc /\ op' = op /\ size' = size
  BY Zenon DEF WorkerScan
<1>5. result'[h] = Exp(h) /\ \A g \in Hosts \ {h} : result'[g] = result[g]
  <2>1. View(h)' /\ LocalTo(h)
    BY Zenon, <1>2, <1>3, WorkerView, WorkerLocal
  <2>2. wpc'[ProcOf[h]][thr'[h]] = "clearCtrl"
    <3>1. thr' = thr BY Zenon, <1>3 DEF WorkerScan, hostData
    <3>2. wpc' = [wpc EXCEPT ![ProcOf[h]][thr[h]] = "clearCtrl"] BY Zenon, <1>3 DEF WorkerScan, WGoto
    <3>3. TypeOK /\ ProcOf[h] \in Procs /\ thr[h] \in Threads BY Zenon, <1>2, HolderFacts
    <3> QED BY Zenon, <3>1, <3>2, <3>3, WorkerAt
  <2>3. result'[h] = Exp(h)'
    BY Zenon, <1>2, <1>4, <2>1, <2>2 DEF View, Flight
  <2>4. Exp(h)' = Exp(h)
    BY Zenon, <1>4 DEF Exp, Service!Expected, Service!Outcome, Service!ScanId
  <2> QED
    BY Zenon, <2>1, <2>3, <2>4 DEF LocalTo
<1>6. result' = [result EXCEPT ![h] = Exp(h)]
  <2>1. result \in [Hosts -> Outcomes] /\ DOMAIN result' = Hosts
        /\ result' = [g \in Hosts |-> result'[g]]
    BY Zenon DEF TypeOK, WorkerScan
  <2> QED
    BY Zenon, <1>5, <2>1
<1>7. Phase[h] = "running" /\ Phase' = Phase
  <2>1. Phase[h] = PhaseOf("spin") /\ Phase' = Phase
    BY Zenon, <1>2, <1>4 DEF Phase
  <2> QED
    BY Zenon, <2>1, PhaseValue
<1>8. Service!Produce(h)
  BY Zenon, <1>4, <1>6, <1>7 DEF Service!Produce, Phase, PhaseOf, Exp
<1> QED
  BY Zenon, <1>8

\* The other steps are internal.
LEMMA InternalStep ==
  ASSUME TypeOK,
         \/ \E h \in Hosts : HostStep(h) /\ ~ReleaseThread(h) /\ ~ReadRegisters(h)
         \/ \E p \in Procs, t \in Threads : WorkerStep(p, t) /\ ~WorkerScan(p, t)
         \/ (\E p \in Procs : Construct(p)) \/ UNCHANGED vars
  PROVE  UNCHANGED Service!serviceVars
<1>1. ASSUME NEW h \in Hosts, HostStep(h), ~ReleaseThread(h), ~ReadRegisters(h)
      PROVE  owner' = owner /\ Phase' = Phase /\ op' = op /\ result' = result /\ size' = size
  <2>1. owner' = owner /\ op' = op /\ result' = result /\ size' = size
    BY Zenon, <1>1 DEF HostStep, EnableThread, WriteColumn, WritePredicate, WriteOutput,
         WriteResult, SetBusy, SetStart, Spin, StopThread, JoinThread, hostData
  <2>2. Holding(h) /\ Holding(h)' /\ LocalTo(h)
    BY Zenon, <1>1, HostLocal
  <2>3. ASSUME NEW g \in Hosts PROVE PhaseOf(pc'[g]) = PhaseOf(pc[g])
    <3>1. CASE g = h
      BY Zenon, <2>2, <3>1, PhaseValue DEF Holding
    <3>2. CASE g # h
      BY Zenon, <2>2, <3>2 DEF LocalTo
    <3> QED
      BY Zenon, <3>1, <3>2
  <2> QED
    BY Zenon, <2>1, <2>3 DEF Phase
<1>2. ASSUME NEW p \in Procs, NEW t \in Threads, WorkerStep(p, t), ~WorkerScan(p, t)
      PROVE  owner' = owner /\ pc' = pc /\ op' = op /\ result' = result /\ size' = size
  BY Zenon, <1>2 DEF WorkerStep, WorkerBegin, WorkerCheckStop, WorkerLoad, WorkerSetWorking,
       WorkerSetBusy, WorkerCollect, WorkerClearCtrl, WorkerComplete, hostData
<1>3. ASSUME (\E p \in Procs : Construct(p)) \/ UNCHANGED vars
      PROVE  owner' = owner /\ pc' = pc /\ op' = op /\ result' = result /\ size' = size
  BY Zenon, <1>3 DEF Construct, vars, hostData
<1>4. ASSUME pc' = pc PROVE Phase' = Phase
  BY Zenon, <1>4 DEF Phase
<1>5. owner' = owner /\ Phase' = Phase /\ op' = op /\ result' = result /\ size' = size
  BY Zenon, <1>1, <1>2, <1>3, <1>4
<1> QED
  BY Zenon, <1>5 DEF Service!serviceVars, Phase, PhaseOf

\* Registers, driver and workers implement the scan service until a process
\* dies: every step is one of its steps or internal.
THEOREM ScanImplementsService == Spec => ImplementsScanService
<1>1. Init => Service!Init
  <2> SUFFICES ASSUME Init PROVE Service!Init
    BY Zenon
  <2>1. \A h \in Hosts : PhaseOf(pc[h]) = "idle"
    BY Zenon, PhaseValue DEF Init
  <2>2. Phase = [h \in Hosts |-> "idle"]
    BY Zenon, <2>1 DEF Phase
  <2> QED
    BY Zenon, <2>2 DEF Init, Service!Init, Phase, PhaseOf, NoResult
<1>2. IInv /\ [Next]_vars => [crashes' = 0 => Service!Next]_(Service!serviceVars)
  <2> SUFFICES ASSUME IInv, [Next]_vars, crashes' = 0
               PROVE  Service!Next \/ UNCHANGED Service!serviceVars
    BY Zenon
  <2>1. TypeOK /\ ~\E p \in Procs : Crash(p)
    BY SMTT(60) DEF IInv, TypeOK, Crash
  <2>2. crashes = 0
    BY Zenon, <2>1, CrashesOnly
  <2>3. Good
    BY Zenon, <2>2 DEF IInv
  <2>4. CASE \E h \in Hosts : \/ StartOp(h) \/ LockThread(h) \/ Throw(h)
                              \/ ReadRegisters(h) \/ ReleaseThread(h)
    BY Zenon, <2>1, <2>3, <2>4, SubmitStep, GrantStep, FailStep, ReportStep, ReleaseStep
       DEF Service!Next
  <2>5. CASE \E p \in Procs, t \in Threads : WorkerScan(p, t)
    BY Zenon, <2>1, <2>3, <2>5, ProduceStep DEF Service!Next
  <2>6. CASE \/ \E h \in Hosts : HostStep(h) /\ ~ReleaseThread(h) /\ ~ReadRegisters(h)
             \/ \E p \in Procs, t \in Threads : WorkerStep(p, t) /\ ~WorkerScan(p, t)
             \/ (\E p \in Procs : Construct(p)) \/ UNCHANGED vars
    BY Zenon, <2>1, <2>6, InternalStep
  <2> QED
    BY Zenon, <2>1, <2>4, <2>5, <2>6 DEF Next, Finished
<1> QED
  BY PTL, <1>1, <1>2, Invariance DEF Spec, ImplementsScanService
=============================================================================
