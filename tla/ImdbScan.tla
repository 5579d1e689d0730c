------------------------------ MODULE ImdbScan ------------------------------
(***************************************************************************)
(* One IMDB column scan driven through the functional simulator: host      *)
(* threads inside pnm::imdb::Runner::run_operator, the registers of the    *)
(* engine threads, the simulator's worker threads, and the kernel driver   *)
(* that hands engine threads out.                                          *)
(*                                                                         *)
(* Registers are shared by all processes, the simulator (SimulatorCore)    *)
(* exists once per process.  A scan is identified by its host and number;  *)
(* a register that is derived from an operation holds that identity, so    *)
(* that a scan over a mixture of two operations' registers shows.          *)
(***************************************************************************)
EXTENDS Naturals

CONSTANTS
  Hosts, NoHost,   \* threads that call run_operator
  Procs, ProcOf,   \* processes; ProcOf[h] is the process of host h
  Threads,         \* engine threads of the device
  OutputTypes,     \* the output types that operations ask for
  MaxOps,          \* bound: operations of each host
  MaxThrows,       \* bound: exceptions while registers are written
  MaxCrashes       \* bound: processes that die

ASSUME HostAssumption == NoHost \notin Hosts /\ ProcOf \in [Hosts -> Procs]
ASSUME ThreadAssumption == Threads # {}
ASSUME TypeAssumption == OutputTypes \subseteq {"BitVector", "IndexVector"}
ASSUME BoundAssumption ==
  MaxOps \in [Hosts -> Nat] /\ MaxThrows \in Nat /\ MaxCrashes \in Nat

VARIABLES
  up,          \* up[p]: the process has constructed its SimulatorDevice
  owner,       \* kernel: the host each engine thread is locked by
  column,      \* THREAD_START_ADDR, THREAD_SIZE_SB, ... : whose column
  predicate,   \* THREAD_MIN_VALUE, THREAD_INLIST_ADDR, ... : whose predicate
  start,       \* THREAD_CTRL_START
  otype,       \* THREAD_CTRL_OUTPUT_TYPE
  res_addr,    \* THREAD_RES_ADDR: whose result buffer
  res_size,    \* THREAD_RES_SIZE_SB
  status,      \* THREAD_STATUS: "BUSY" or "ZERO"
  com_status,  \* the bits of IMDB_COM_STATUS: "Idle" or "Working"
  stop_flag,   \* stop_flag[p][t]: ThreadControls::stop_flag
  wpc,         \* wpc[p][t]: the worker thread; "off" iff `finished' is not valid
  wview,       \* the column view and output type that a worker collected
  pc,          \* where each host is in run_operator
  op,          \* the operation it runs
  thr,         \* the engine thread it locked
  result,      \* the content of its operation's result buffer
  size,        \* result_size_ of its operation
  throws, crashes

params   == <<column, predicate, otype, res_addr>>
regVars  == <<params, start, res_size, status, com_status>>
thrVars  == <<stop_flag, wpc, wview>>
hostData == <<op, thr, result, size>>
bounds   == <<throws, crashes>>
vars == <<up, owner, regVars, thrVars, pc, hostData, bounds>>

HostPC == {"idle", "lock", "enable", "column", "predicate", "output", "result",
           "busy", "start", "spin", "read", "stop", "join", "release"}
WorkerPC == {"off", "queued", "loop", "load", "working", "busy", "collect",
             "scan", "clearCtrl", "idle", "finish", "done"}

Service == INSTANCE ScanService WITH
  holder <- owner,
  phase  <- [h \in Hosts |-> CASE pc[h] = "idle" -> "idle"
                               [] pc[h] = "lock" -> "pending"
                               [] OTHER          -> "running"]

Id(h)    == Service!ScanId(h, op[h])
NoScan   == Service!NoScan
NoResult == Service!NoResult

Init ==
  /\ up = [p \in Procs |-> FALSE]
  /\ owner = [t \in Threads |-> NoHost]
  /\ column = [t \in Threads |-> NoScan]
  /\ predicate = [t \in Threads |-> NoScan]
  /\ start = [t \in Threads |-> FALSE]
  /\ otype = [t \in Threads |-> "BitVector"]
  /\ res_addr = [t \in Threads |-> NoScan]
  /\ res_size = [t \in Threads |-> NoResult]
  /\ status = [t \in Threads |-> "ZERO"]
  /\ com_status = [t \in Threads |-> "Idle"]
  /\ stop_flag = [p \in Procs |-> [t \in Threads |-> FALSE]]
  /\ wpc = [p \in Procs |-> [t \in Threads |-> "off"]]
  /\ wview = [p \in Procs |-> [t \in Threads |-> <<NoScan, "BitVector">>]]
  /\ pc = [h \in Hosts |-> "idle"]
  /\ op = [h \in Hosts |-> Service!NoOp]
  /\ thr = [h \in Hosts |-> CHOOSE t \in Threads : TRUE]
  /\ result = [h \in Hosts |-> NoResult]
  /\ size = [h \in Hosts |-> Service!NoSize]
  /\ throws = 0 /\ crashes = 0

Goto(h, label)     == pc' = [pc EXCEPT ![h] = label]
WGoto(p, t, label) == wpc' = [wpc EXCEPT ![p][t] = label]
-----------------------------------------------------------------------------
(* Variants of definitions below as plausible slips would leave them.  They *)
(* take part in no specification; each is put in the place of the operation *)
(* it names to show that a property notices the difference.                 *)

\* enable_thread leaves the stop flag of the previous run.
EnableKeepsStop(h) ==
  /\ pc[h] = "enable" /\ wpc[ProcOf[h]][thr[h]] = "off"
  /\ WGoto(ProcOf[h], thr[h], "queued") /\ Goto(h, "column")
  /\ UNCHANGED <<up, owner, regVars, stop_flag, wview, hostData, bounds>>

\* The status register is left as the previous scan left it.
SetBusySkipped(h) ==
  /\ pc[h] = "busy" /\ Goto(h, "start")
  /\ UNCHANGED <<up, owner, regVars, thrVars, hostData, bounds>>

\* The wait is for the common status register.
SpinOnComStatus(h) ==
  /\ pc[h] = "spin" /\ com_status[thr[h]] = "Idle" /\ Goto(h, "read")
  /\ UNCHANGED <<up, owner, regVars, thrVars, hostData, bounds>>

\* The worker reports the end before the scan.
WorkerCollectEarlyEnd(p, t) ==
  /\ wpc[p][t] = "collect"
  /\ wview' = [wview EXCEPT ![p][t] = <<column[t], otype[t]>>]
  /\ status' = [status EXCEPT ![t] = "ZERO"]
  /\ WGoto(p, t, "scan")
  /\ UNCHANGED <<up, owner, params, start, res_size, com_status, stop_flag, pc, hostData, bounds>>
-----------------------------------------------------------------------------
\* SimulatorDevice and SimulatorCore constructors: the status bits of all engine
\* threads are set, whoever uses them.
Construct(p) ==
  /\ ~up[p]
  /\ up' = [up EXCEPT ![p] = TRUE]
  /\ com_status' = [t \in Threads |-> "Idle"]
  /\ UNCHANGED <<owner, params, start, res_size, status, thrVars, pc, hostData, bounds>>
-----------------------------------------------------------------------------
(* A host in run_operator.                                                 *)

StartOp(h) ==
  /\ pc[h] = "idle" /\ up[ProcOf[h]] /\ op[h].no < MaxOps[h]
  /\ \E y \in OutputTypes : op' = [op EXCEPT ![h] = [no |-> @.no + 1, type |-> y]]
  /\ result' = [result EXCEPT ![h] = NoResult]
  /\ size' = [size EXCEPT ![h] = Service!NoSize]
  /\ Goto(h, "lock")
  /\ UNCHANGED <<up, owner, regVars, thrVars, thr, bounds>>

\* ioctl IMDB_IOCTL_GET_THREAD: the driver blocks until it finds an idle thread.
LockThread(h) ==
  /\ pc[h] = "lock"
  /\ \E t \in Threads :
       /\ owner[t] = NoHost
       /\ owner' = [owner EXCEPT ![t] = h]
       /\ thr' = [thr EXCEPT ![h] = t]
  /\ Goto(h, "enable")
  /\ UNCHANGED <<up, regVars, thrVars, op, result, size, bounds>>

\* enable_thread; it throws when the thread is still enabled.
EnableThread(h) ==
  /\ pc[h] = "enable" /\ wpc[ProcOf[h]][thr[h]] = "off"
  /\ stop_flag' = [stop_flag EXCEPT ![ProcOf[h]][thr[h]] = FALSE]
  /\ WGoto(ProcOf[h], thr[h], "queued")
  /\ Goto(h, "column")
  /\ UNCHANGED <<up, owner, regVars, wview, hostData, bounds>>

\* write_registers: the column's address, size and compression ...
WriteColumn(h) ==
  /\ pc[h] = "column"
  /\ column' = [column EXCEPT ![thr[h]] = Id(h)]
  /\ Goto(h, "predicate")
  /\ UNCHANGED <<up, owner, predicate, otype, res_addr, start, res_size, status,
                 com_status, thrVars, hostData, bounds>>

\* ... set_predicate_info ...
WritePredicate(h) ==
  /\ pc[h] = "predicate"
  /\ predicate' = [predicate EXCEPT ![thr[h]] = Id(h)]
  /\ Goto(h, "output")
  /\ UNCHANGED <<up, owner, column, otype, res_addr, start, res_size, status,
                 com_status, thrVars, hostData, bounds>>

\* ... set_output_type: the control register gets the output flag alone, which
\* drops a start flag ...
WriteOutput(h) ==
  /\ pc[h] = "output"
  /\ start' = [start EXCEPT ![thr[h]] = FALSE]
  /\ otype' = [otype EXCEPT ![thr[h]] = op[h].type]
  /\ Goto(h, "result")
  /\ UNCHANGED <<up, owner, column, predicate, res_addr, res_size, status, com_status,
                 thrVars, hostData, bounds>>

\* ... and the result's address and limit.
WriteResult(h) ==
  /\ pc[h] = "result"
  /\ res_addr' = [res_addr EXCEPT ![thr[h]] = Id(h)]
  /\ Goto(h, "busy")
  /\ UNCHANGED <<up, owner, column, predicate, otype, start, res_size, status,
                 com_status, thrVars, hostData, bounds>>

\* address() throws for a buffer that has no sequential region.  run_operator has
\* nothing that releases the thread then.
Throw(h) ==
  /\ pc[h] \in {"column", "predicate", "result"} /\ throws < MaxThrows
  /\ throws' = throws + 1
  /\ Goto(h, "idle")
  /\ UNCHANGED <<up, owner, regVars, thrVars, hostData, crashes>>

\* run_and_wait: the status is made busy before the start flag is set ...
SetBusy(h) ==
  /\ pc[h] = "busy"
  /\ status' = [status EXCEPT ![thr[h]] = "BUSY"]
  /\ Goto(h, "start")
  /\ UNCHANGED <<up, owner, params, start, res_size, com_status, thrVars, hostData, bounds>>

SetStart(h) ==
  /\ pc[h] = "start"
  /\ start' = [start EXCEPT ![thr[h]] = TRUE]
  /\ Goto(h, "spin")
  /\ UNCHANGED <<up, owner, params, res_size, status, com_status, thrVars, hostData, bounds>>

\* ... and the loop ends once the status is not busy.
Spin(h) ==
  /\ pc[h] = "spin" /\ status[thr[h]] # "BUSY"
  /\ Goto(h, "read")
  /\ UNCHANGED <<up, owner, regVars, thrVars, hostData, bounds>>

ReadRegisters(h) ==
  /\ pc[h] = "read"
  /\ size' = [size EXCEPT ![h] = res_size[thr[h]]]
  /\ Goto(h, "stop")
  /\ UNCHANGED <<up, owner, regVars, thrVars, op, thr, result, bounds>>

\* release_thread: disable_thread raises the stop flag ...
StopThread(h) ==
  /\ pc[h] = "stop" /\ wpc[ProcOf[h]][thr[h]] # "off"
  /\ stop_flag' = [stop_flag EXCEPT ![ProcOf[h]][thr[h]] = TRUE]
  /\ Goto(h, "join")
  /\ UNCHANGED <<up, owner, regVars, wpc, wview, hostData, bounds>>

\* ... takes the worker's future, which leaves it invalid ...
JoinThread(h) ==
  /\ pc[h] = "join" /\ wpc[ProcOf[h]][thr[h]] = "done"
  /\ WGoto(ProcOf[h], thr[h], "off")
  /\ Goto(h, "release")
  /\ UNCHANGED <<up, owner, regVars, stop_flag, wview, hostData, bounds>>

\* ... and ioctl IMDB_IOCTL_RELEASE_THREAD follows.
ReleaseThread(h) ==
  /\ pc[h] = "release"
  /\ owner' = [owner EXCEPT ![thr[h]] = NoHost]
  /\ Goto(h, "idle")
  /\ UNCHANGED <<up, regVars, thrVars, hostData, bounds>>
-----------------------------------------------------------------------------
(* The simulator's worker for engine thread t in process p (worker_job).   *)

\* A pool thread pops the job.
WorkerBegin(p, t) ==
  /\ wpc[p][t] = "queued"
  /\ WGoto(p, t, "loop")
  /\ UNCHANGED <<up, owner, regVars, stop_flag, wview, pc, hostData, bounds>>

WorkerCheckStop(p, t) ==
  /\ wpc[p][t] = "loop"
  /\ WGoto(p, t, IF stop_flag[p][t] THEN "done" ELSE "load")
  /\ UNCHANGED <<up, owner, regVars, stop_flag, wview, pc, hostData, bounds>>

WorkerLoad(p, t) ==
  /\ wpc[p][t] = "load"
  /\ WGoto(p, t, IF start[t] THEN "working" ELSE "loop")
  /\ UNCHANGED <<up, owner, regVars, stop_flag, wview, pc, hostData, bounds>>

WorkerSetWorking(p, t) ==
  /\ wpc[p][t] = "working"
  /\ com_status' = [com_status EXCEPT ![t] = "Working"]
  /\ WGoto(p, t, "busy")
  /\ UNCHANGED <<up, owner, params, start, res_size, status, stop_flag, wview, pc,
                 hostData, bounds>>

WorkerSetBusy(p, t) ==
  /\ wpc[p][t] = "busy"
  /\ status' = [status EXCEPT ![t] = "BUSY"]
  /\ WGoto(p, t, "collect")
  /\ UNCHANGED <<up, owner, params, start, res_size, com_status, stop_flag, wview,
                 pc, hostData, bounds>>

\* The common parameters are collected.
WorkerCollect(p, t) ==
  /\ wpc[p][t] = "collect"
  /\ wview' = [wview EXCEPT ![p][t] = <<column[t], otype[t]>>]
  /\ WGoto(p, t, "scan")
  /\ UNCHANGED <<up, owner, regVars, stop_flag, pc, hostData, bounds>>

\* dispatch_scan_operation reads the remaining registers, fills the result buffer
\* and reports the size; a bit vector's is read from THREAD_SIZE_SB again.
WorkerScan(p, t) ==
  LET r == Service!Outcome(wview[p][t][1], predicate[t], wview[p][t][2]) IN
  /\ wpc[p][t] = "scan"
  /\ result' = [h \in Hosts |-> IF res_addr[t] = Id(h) THEN r ELSE result[h]]
  /\ res_size' = [res_size EXCEPT ![t] =
       Service!SizeOf(IF r.type = "BitVector" THEN [r EXCEPT !.column = column[t]] ELSE r)]
  /\ WGoto(p, t, "clearCtrl")
  /\ UNCHANGED <<up, owner, params, start, status, com_status, stop_flag, wview, pc,
                 op, thr, size, bounds>>

\* THREAD_CTRL is cleared, start flag and output type ...
WorkerClearCtrl(p, t) ==
  /\ wpc[p][t] = "clearCtrl"
  /\ start' = [start EXCEPT ![t] = FALSE]
  /\ otype' = [otype EXCEPT ![t] = "BitVector"]
  /\ WGoto(p, t, "idle")
  /\ UNCHANGED <<up, owner, column, predicate, res_addr, res_size, status, com_status,
                 stop_flag, wview, pc, hostData, bounds>>

\* ... and the two status registers follow.
WorkerComplete(p, t) ==
  /\ \/ /\ wpc[p][t] = "idle"
        /\ com_status' = [com_status EXCEPT ![t] = "Idle"]
        /\ WGoto(p, t, "finish") /\ UNCHANGED status
     \/ /\ wpc[p][t] = "finish"
        /\ status' = [status EXCEPT ![t] = "ZERO"]
        /\ WGoto(p, t, "loop") /\ UNCHANGED com_status
  /\ UNCHANGED <<up, owner, params, start, res_size, stop_flag, wview, pc, hostData, bounds>>
-----------------------------------------------------------------------------
\* A process dies with its threads and its simulator; the driver releases the
\* engine threads that its open file held.  Registers stay as they are.
Crash(p) ==
  /\ up[p] /\ crashes < MaxCrashes
  /\ crashes' = crashes + 1
  /\ up' = [up EXCEPT ![p] = FALSE]
  /\ owner' = [t \in Threads |->
       IF owner[t] # NoHost /\ ProcOf[owner[t]] = p THEN NoHost ELSE owner[t]]
  /\ stop_flag' = [stop_flag EXCEPT ![p] = [t \in Threads |-> FALSE]]
  /\ wpc' = [wpc EXCEPT ![p] = [t \in Threads |-> "off"]]
  /\ pc' = [h \in Hosts |-> IF ProcOf[h] = p THEN "idle" ELSE pc[h]]
  /\ UNCHANGED <<regVars, wview, hostData, throws>>

\* Every host has run its operations, or waits for threads that exceptions lost.
Finished ==
  /\ \A h \in Hosts : \/ pc[h] = "idle" /\ op[h].no = MaxOps[h]
                      \/ pc[h] = "lock" /\ throws > 0 /\ NoHost \notin {owner[t] : t \in Threads}
  /\ UNCHANGED vars

HostStep(h) ==
  \/ EnableThread(h) \/ WriteColumn(h) \/ WritePredicate(h) \/ WriteOutput(h)
  \/ WriteResult(h) \/ SetBusy(h) \/ SetStart(h) \/ Spin(h) \/ ReadRegisters(h)
  \/ StopThread(h) \/ JoinThread(h) \/ ReleaseThread(h)

WorkerStep(p, t) ==
  \/ WorkerBegin(p, t) \/ WorkerCheckStop(p, t) \/ WorkerLoad(p, t)
  \/ WorkerSetWorking(p, t) \/ WorkerSetBusy(p, t) \/ WorkerCollect(p, t)
  \/ WorkerScan(p, t) \/ WorkerClearCtrl(p, t) \/ WorkerComplete(p, t)

Next ==
  \/ \E h \in Hosts : StartOp(h) \/ LockThread(h) \/ Throw(h) \/ HostStep(h)
  \/ \E p \in Procs, t \in Threads : WorkerStep(p, t)
  \/ \E p \in Procs : Construct(p) \/ Crash(p)
  \/ Finished

(* Fairness: a host past its lock and a worker keep running.               *)
Fairness ==
  /\ \A h \in Hosts : WF_vars(HostStep(h))
  /\ \A p \in Procs, t \in Threads : WF_vars(WorkerStep(p, t))

Spec == Init /\ [][Next]_vars /\ Fairness
-----------------------------------------------------------------------------
Ids      == (Hosts \cup {NoHost}) \X Nat
Types    == {"BitVector", "IndexVector"}
Outcomes == [column : Ids, predicate : Ids, type : Types]

TypeOK ==
  /\ up \in [Procs -> BOOLEAN]
  /\ owner \in [Threads -> Hosts \cup {NoHost}]
  /\ column \in [Threads -> Ids]
  /\ predicate \in [Threads -> Ids]
  /\ start \in [Threads -> BOOLEAN]
  /\ otype \in [Threads -> Types]
  /\ res_addr \in [Threads -> Ids]
  /\ res_size \in [Threads -> Outcomes]
  /\ status \in [Threads -> {"BUSY", "ZERO"}]
  /\ com_status \in [Threads -> {"Idle", "Working"}]
  /\ stop_flag \in [Procs -> [Threads -> BOOLEAN]]
  /\ wpc \in [Procs -> [Threads -> WorkerPC]]
  /\ wview \in [Procs -> [Threads -> Ids \X Types]]
  /\ pc \in [Hosts -> HostPC]
  /\ op \in [Hosts -> [no : Nat, type : Types]]
  /\ thr \in [Hosts -> Threads]
  /\ result \in [Hosts -> Outcomes]
  /\ size \in [Hosts -> Outcomes]
  /\ throws \in Nat /\ crashes \in Nat

\* The hosts that have locked a thread and are still in run_operator.
Holding(h) == pc[h] \notin {"idle", "lock"}

\* From the load that finds the start flag to the store that ends the scan.
Scanning(p, t) ==
  wpc[p][t] \in {"working", "busy", "collect", "scan", "clearCtrl", "idle", "finish"}

\* SimulatorCore: "All register modifications must happen prior to the write to
\* THREAD_CTRL that starts a scan operation or after the scan operation has
\* finished": while a worker scans, the thread's holder is in its wait loop.
NoModificationDuringScan ==
  \A p \in Procs, t \in Threads : \A h \in Hosts :
    Scanning(p, t) /\ Holding(h) /\ thr[h] = t => pc[h] = "spin"

\* As long as no process has died, scans never overlap register accesses.
QuietScans == crashes = 0 => NoModificationDuringScan

\* A host that leaves the wait loop finds the outcome of its own scan in its
\* result buffer, and then its size, whatever scans ran on the thread before,
\* as long as no process has died.
ResultsCorrect ==
  crashes = 0 =>
    \A h \in Hosts :
      LET e == Service!Expected(h, op[h]) IN
      /\ pc[h] \in {"read", "stop", "join", "release"} => result[h] = e
      /\ pc[h] \in {"stop", "join", "release"} => size[h] = Service!SizeOf(e)

\* A host that got a thread leaves run_operator: neither the wait for the status
\* nor the wait for the worker's future is for ever, also on a thread whose
\* last holder died in the middle of a scan.
OperationEnds ==
  \A h \in Hosts : pc[h] = "enable" ~> pc[h] = "idle"

\* Registers and workers implement the service: own results only, on a thread
\* held by one host at a time, until a process dies.
ImplementsScanService ==
  Service!Init /\ [][crashes' = 0 => Service!Next]_(Service!serviceVars)
=============================================================================
