------------------------------- MODULE CxlSls -------------------------------
(***************************************************************************)
(* One SLS reduction on CXL compute units (channels) driven through the    *)
(* functional simulator: CxlReductionRunner::run_on_pack, CxlComputeUnit,  *)
(* CxlSimulatorCore::exec_trace and the simulator's worker threads.        *)
(*                                                                         *)
(* Unlike on AxDIMM there is one PSUM buffer, the host zeroes it itself    *)
(* before each execution, and the control switch is polled when a unit is  *)
(* enabled and disabled.  Operations are not tagged: CXL has no tags.      *)
(* Hosts, processes, units and rows of output memory are as in AxdimmSls.  *)
(***************************************************************************)
EXTENDS Naturals, Sequences, FiniteSets

CONSTANTS
  Hosts, NoHost,   \* threads that call run_on_pack
  Procs, ProcOf,   \* processes; ProcOf[h] is the process of host h
  Cunits, Packs,   \* compute units; packs are sets of them
  NumRows,         \* rows of the PSUM buffer
  Shapes,          \* operations: the number of output rows of each execution
  MaxOps,          \* bound: operations of one host
  MaxThrows,       \* bound: exceptions while a trace is generated
  MaxCrashes       \* bound: processes that die

ASSUME HostAssumption == NoHost \notin Hosts /\ ProcOf \in [Hosts -> Procs]
ASSUME PackAssumption == Cunits # {} /\ \A k \in Packs : k \subseteq Cunits
ASSUME RowAssumption  == NumRows \in Nat \ {0} /\ Shapes \subseteq Seq(1 .. NumRows) \ {<<>>}
ASSUME BoundAssumption ==
  MaxOps \in Nat /\ MaxThrows \in Nat /\ MaxCrashes \in Nat

VARIABLES
  owner,       \* kernel: the host each compute unit is acquired by
  exec_sls,    \* exec_sls register: "ENABLE" or "DISABLE"
  psum_poll,   \* psum_poll register: "RESET" or "FINISH"
  control,     \* control switch register
  inst,        \* the trace in the instruction buffer
  mem,         \* mem[c][r]: row r of the PSUM buffer
  stop_flag,   \* stop_flag[p][c]: ThreadControls::stop_flag
  wpc,         \* wpc[p][c]: the worker thread; "off" iff `finished' is not valid
  wrow,        \* wrow[p][c]: the next row of the trace it executes
  pc,          \* where each host is in run_on_pack
  req, cu,     \* the operation it runs, the compute unit it acquired
  step,        \* the execution it is at
  out,         \* out[h][i][b]: what it read
  failed,      \* an exception is unwinding run_on_pack
  throws, crashes

regVars  == <<exec_sls, psum_poll, control>>
thrVars  == <<stop_flag, wpc, wrow>>
hostData == <<req, cu, step, out, failed>>
bounds   == <<throws, crashes>>
vars == <<owner, regVars, inst, mem, thrVars, pc, hostData, bounds>>

HostPC == {"idle", "acquire", "resetPoll", "resetExec", "enableThread", "switch",
           "pollSwitched", "generate", "write", "zero", "armPoll", "start", "wait",
           "read", "unswitch", "pollEnable", "stopThread", "join", "release"}
WorkerPC == {"off", "queued", "loop", "load", "exec", "disarm", "finish", "done"}

Service == INSTANCE ReductionService WITH
  TagKinds <- {FALSE},
  holder <- owner,
  phase  <- [h \in Hosts |->
               IF pc[h] = "idle" THEN "idle"
               ELSE IF pc[h] = "acquire" THEN "pending"
               ELSE IF failed[h] THEN "failing" ELSE "running"]

RowIdx  == 0 .. NumRows - 1
Garbage == <<NoHost, 0, 1>>
Execs(h) == Len(req[h].rows)

\* A trace adds to rows 0 .. n-1.
TraceOf(h, i) == [id |-> Service!TraceId(h, req[h], i), n |-> req[h].rows[i]]
StaleTrace    == [id |-> Garbage, n |-> 1]

Init ==
  /\ owner = [c \in Cunits |-> NoHost]
  /\ exec_sls = [c \in Cunits |-> "DISABLE"]
  /\ psum_poll = [c \in Cunits |-> "RESET"]
  /\ control = [c \in Cunits |-> "DISABLE"]
  /\ inst = [c \in Cunits |-> StaleTrace]
  /\ mem = [c \in Cunits |-> [r \in RowIdx |-> <<Garbage>>]]
  /\ stop_flag = [p \in Procs |-> [c \in Cunits |-> FALSE]]
  /\ wpc = [p \in Procs |-> [c \in Cunits |-> "off"]]
  /\ wrow = [p \in Procs |-> [c \in Cunits |-> 0]]
  /\ pc = [h \in Hosts |-> "idle"]
  /\ req = [h \in Hosts |-> Service!NoRequest]
  /\ cu = [h \in Hosts |-> CHOOSE c \in Cunits : TRUE]
  /\ step = [h \in Hosts |-> 1]
  /\ out = [h \in Hosts |-> Service!Nothing(Service!NoRequest)]
  /\ failed = [h \in Hosts |-> FALSE]
  /\ throws = 0 /\ crashes = 0

Goto(h, label)     == pc' = [pc EXCEPT ![h] = label]
WGoto(p, c, label) == wpc' = [wpc EXCEPT ![p][c] = label]
-----------------------------------------------------------------------------
(* Variants of definitions below as plausible slips would leave them.      *)

\* The poll register keeps the FINISH of the previous execution.
ArmPollSkipped(h) ==
  /\ pc[h] = "armPoll" /\ Goto(h, "start")
  /\ UNCHANGED <<owner, regVars, inst, mem, thrVars, hostData, bounds>>

\* The exec register is not reset on acquisition.
ResetExecSkipped(h) ==
  /\ pc[h] = "resetExec" /\ Goto(h, "enableThread")
  /\ UNCHANGED <<owner, regVars, inst, mem, thrVars, hostData, bounds>>

\* The simulated register keeps the value that was written to it.
written_control_raw(val) == val

\* The unit is released without waiting for the worker.
StopThreadNoJoin(h) ==
  /\ pc[h] = "stopThread" /\ Goto(h, "release")
  /\ stop_flag' = [stop_flag EXCEPT ![ProcOf[h]][cu[h]] = TRUE]
  /\ UNCHANGED <<owner, regVars, inst, mem, wpc, wrow, hostData, bounds>>

-----------------------------------------------------------------------------
(* A host in run_on_pack: the CxlComputeUnit constructor.                  *)

StartOp(h) ==
  /\ pc[h] = "idle" /\ req[h].no < MaxOps
  /\ \E q \in Service!Requests(req[h].no + 1) :
       req' = [req EXCEPT ![h] = q] /\ out' = [out EXCEPT ![h] = Service!Nothing(q)]
  /\ step' = [step EXCEPT ![h] = 1]
  /\ failed' = [failed EXCEPT ![h] = FALSE]
  /\ Goto(h, "acquire")
  /\ UNCHANGED <<owner, regVars, inst, mem, thrVars, cu, bounds>>

\* ioctl GET_CUNIT, in a loop until the driver has an idle unit of the mask.
Acquire(h) ==
  /\ pc[h] = "acquire"
  /\ \E c \in req[h].pack :
       /\ owner[c] = NoHost
       /\ owner' = [owner EXCEPT ![c] = h]
       /\ cu' = [cu EXCEPT ![h] = c]
  /\ Goto(h, "resetPoll")
  /\ UNCHANGED <<regVars, inst, mem, thrVars, req, step, out, failed, bounds>>

ResetPoll(h) ==
  /\ pc[h] = "resetPoll"
  /\ psum_poll' = [psum_poll EXCEPT ![cu[h]] = "RESET"]
  /\ Goto(h, "resetExec")
  /\ UNCHANGED <<owner, exec_sls, control, inst, mem, thrVars, hostData, bounds>>

ResetExec(h) ==
  /\ pc[h] = "resetExec"
  /\ exec_sls' = [exec_sls EXCEPT ![cu[h]] = "DISABLE"]
  /\ Goto(h, "enableThread")
  /\ UNCHANGED <<owner, psum_poll, control, inst, mem, thrVars, hostData, bounds>>

\* enable_thread; it throws when the thread is still enabled.
EnableThread(h) ==
  /\ pc[h] = "enableThread" /\ wpc[ProcOf[h]][cu[h]] = "off"
  /\ stop_flag' = [stop_flag EXCEPT ![ProcOf[h]][cu[h]] = FALSE]
  /\ wpc' = [wpc EXCEPT ![ProcOf[h]][cu[h]] = "queued"]
  /\ Goto(h, "switch")
  /\ UNCHANGED <<owner, regVars, inst, mem, wrow, hostData, bounds>>

\* What the simulated hardware leaves in the control switch register.
written_control(val) ==
  CASE val = "DISABLE" -> "ENABLE" [] val = "ENABLE" -> "SWITCHED" [] OTHER -> val

\* enable() ...
SwitchOn(h) ==
  /\ pc[h] = "switch"
  /\ control' = [control EXCEPT ![cu[h]] = written_control("ENABLE")]
  /\ Goto(h, "pollSwitched")
  /\ UNCHANGED <<owner, exec_sls, psum_poll, inst, mem, thrVars, hostData, bounds>>

\* ... and poll(CONTROL_SWITCH).
PollSwitched(h) ==
  /\ pc[h] = "pollSwitched" /\ control[cu[h]] = "SWITCHED"
  /\ Goto(h, "generate")
  /\ UNCHANGED <<owner, regVars, inst, mem, thrVars, hostData, bounds>>
-----------------------------------------------------------------------------
(* A host in run_on_pack: process_execs.                                   *)

Generate(h) ==
  /\ pc[h] = "generate" /\ Goto(h, "write")
  /\ UNCHANGED <<owner, regVars, inst, mem, thrVars, hostData, bounds>>

\* An exception there unwinds through ~CxlComputeUnit.
Throw(h) ==
  /\ pc[h] = "generate" /\ throws < MaxThrows
  /\ throws' = throws + 1
  /\ failed' = [failed EXCEPT ![h] = TRUE]
  /\ Goto(h, "unswitch")
  /\ UNCHANGED <<owner, regVars, inst, mem, thrVars, req, cu, step, out, crashes>>

WriteInst(h) ==
  /\ pc[h] = "write"
  /\ inst' = [inst EXCEPT ![cu[h]] = TraceOf(h, step[h])]
  /\ Goto(h, "zero")
  /\ UNCHANGED <<owner, regVars, mem, thrVars, hostData, bounds>>

\* reset_output_buffers zeroes as many rows as the execution will be read from.
ResetOutput(h) ==
  /\ pc[h] = "zero"
  /\ mem' = [mem EXCEPT ![cu[h]] =
       [r \in RowIdx |-> IF r < req[h].rows[step[h]] THEN <<>> ELSE mem[cu[h]][r]]]
  /\ Goto(h, "armPoll")
  /\ UNCHANGED <<owner, regVars, inst, thrVars, hostData, bounds>>

\* run(): write_exec_sls_register(ENABLE) and poll(FINISH).
ArmPoll(h) ==
  /\ pc[h] = "armPoll"
  /\ psum_poll' = [psum_poll EXCEPT ![cu[h]] = "RESET"]
  /\ Goto(h, "start")
  /\ UNCHANGED <<owner, exec_sls, control, inst, mem, thrVars, hostData, bounds>>

StartExec(h) ==
  /\ pc[h] = "start"
  /\ exec_sls' = [exec_sls EXCEPT ![cu[h]] = "ENABLE"]
  /\ Goto(h, "wait")
  /\ UNCHANGED <<owner, psum_poll, control, inst, mem, thrVars, hostData, bounds>>

Wait(h) ==
  /\ pc[h] = "wait" /\ psum_poll[cu[h]] = "FINISH"
  /\ Goto(h, "read")
  /\ UNCHANGED <<owner, regVars, inst, mem, thrVars, hostData, bounds>>

\* read_output_buffers; then the next execution or the destructor.
ReadOutput(h) ==
  LET i == step[h] IN
  /\ pc[h] = "read"
  /\ out' = [out EXCEPT ![h][i]["PSUM"] = [r \in 1 .. req[h].rows[i] |-> mem[cu[h]][r - 1]]]
  /\ step' = [step EXCEPT ![h] = i + 1]
  /\ Goto(h, IF i < Execs(h) THEN "generate" ELSE "unswitch")
  /\ UNCHANGED <<owner, regVars, inst, mem, thrVars, req, cu, failed, bounds>>
-----------------------------------------------------------------------------
(* A host in run_on_pack: ~CxlComputeUnit.                                 *)

SwitchOff(h) ==
  /\ pc[h] = "unswitch"
  /\ control' = [control EXCEPT ![cu[h]] = written_control("DISABLE")]
  /\ Goto(h, "pollEnable")
  /\ UNCHANGED <<owner, exec_sls, psum_poll, inst, mem, thrVars, hostData, bounds>>

PollEnable(h) ==
  /\ pc[h] = "pollEnable" /\ control[cu[h]] = "ENABLE"
  /\ Goto(h, "stopThread")
  /\ UNCHANGED <<owner, regVars, inst, mem, thrVars, hostData, bounds>>

\* disable_thread raises the stop flag (it throws when the thread is off) ...
StopThread(h) ==
  /\ pc[h] = "stopThread" /\ wpc[ProcOf[h]][cu[h]] # "off"
  /\ stop_flag' = [stop_flag EXCEPT ![ProcOf[h]][cu[h]] = TRUE]
  /\ Goto(h, "join")
  /\ UNCHANGED <<owner, regVars, inst, mem, wpc, wrow, hostData, bounds>>

\* ... and takes the worker's future, which leaves it invalid.
JoinThread(h) ==
  /\ pc[h] = "join" /\ wpc[ProcOf[h]][cu[h]] = "done"
  /\ wpc' = [wpc EXCEPT ![ProcOf[h]][cu[h]] = "off"]
  /\ Goto(h, "release")
  /\ UNCHANGED <<owner, regVars, inst, mem, stop_flag, wrow, hostData, bounds>>

\* ioctl RELEASE_CUNIT.
Release(h) ==
  /\ pc[h] = "release"
  /\ owner' = [owner EXCEPT ![cu[h]] = NoHost]
  /\ Goto(h, "idle")
  /\ UNCHANGED <<regVars, inst, mem, thrVars, hostData, bounds>>
-----------------------------------------------------------------------------
(* The simulator's worker for compute unit c in process p (worker_job).    *)

WorkerBegin(p, c) ==
  /\ wpc[p][c] = "queued"
  /\ WGoto(p, c, "loop")
  /\ UNCHANGED <<owner, regVars, inst, mem, stop_flag, wrow, pc, hostData, bounds>>

WorkerCheckStop(p, c) ==
  /\ wpc[p][c] = "loop"
  /\ WGoto(p, c, IF stop_flag[p][c] THEN "done" ELSE "load")
  /\ UNCHANGED <<owner, regVars, inst, mem, stop_flag, wrow, pc, hostData, bounds>>

WorkerLoad(p, c) ==
  /\ wpc[p][c] = "load"
  /\ IF exec_sls[c] # "ENABLE"
       THEN WGoto(p, c, "loop") /\ UNCHANGED wrow
       ELSE WGoto(p, c, "exec") /\ wrow' = [wrow EXCEPT ![p][c] = 0]
  /\ UNCHANGED <<owner, regVars, inst, mem, stop_flag, pc, hostData, bounds>>

\* exec_trace: the next row's instructions, up to the one with the end bit.
WorkerExec(p, c) ==
  /\ wpc[p][c] = "exec"
  /\ mem' = [mem EXCEPT ![c][wrow[p][c]] = Append(@, inst[c].id)]
  /\ wrow' = [wrow EXCEPT ![p][c] = @ + 1]
  /\ WGoto(p, c, IF wrow[p][c] + 1 < inst[c].n THEN "exec" ELSE "disarm")
  /\ UNCHANGED <<owner, regVars, inst, stop_flag, pc, hostData, bounds>>

\* The two stores that end an execution, in this order.
WorkerComplete(p, c) ==
  /\ \/ /\ wpc[p][c] = "disarm"
        /\ exec_sls' = [exec_sls EXCEPT ![c] = "DISABLE"]
        /\ WGoto(p, c, "finish") /\ UNCHANGED psum_poll
     \/ /\ wpc[p][c] = "finish"
        /\ psum_poll' = [psum_poll EXCEPT ![c] = "FINISH"]
        /\ WGoto(p, c, "loop") /\ UNCHANGED exec_sls
  /\ UNCHANGED <<owner, control, inst, mem, stop_flag, wrow, pc, hostData, bounds>>
-----------------------------------------------------------------------------
\* A process dies with its threads and its simulator and is started again.  The
\* driver releases its units; registers and memory stay as they are.
Crash(p) ==
  /\ crashes < MaxCrashes
  /\ crashes' = crashes + 1
  /\ owner' = [c \in Cunits |->
       IF owner[c] # NoHost /\ ProcOf[owner[c]] = p THEN NoHost ELSE owner[c]]
  /\ stop_flag' = [stop_flag EXCEPT ![p] = [c \in Cunits |-> FALSE]]
  /\ wpc' = [wpc EXCEPT ![p] = [c \in Cunits |-> "off"]]
  /\ pc' = [h \in Hosts |-> IF ProcOf[h] = p THEN "idle" ELSE pc[h]]
  /\ UNCHANGED <<regVars, inst, mem, wrow, hostData, throws>>

Finished == (\A h \in Hosts : pc[h] = "idle" /\ req[h].no = MaxOps) /\ UNCHANGED vars

HostStep(h) ==
  \/ ResetPoll(h) \/ ResetExec(h) \/ EnableThread(h) \/ SwitchOn(h) \/ PollSwitched(h)
  \/ Generate(h) \/ WriteInst(h) \/ ResetOutput(h) \/ ArmPoll(h) \/ StartExec(h)
  \/ Wait(h) \/ ReadOutput(h) \/ SwitchOff(h) \/ PollEnable(h)
  \/ StopThread(h) \/ JoinThread(h) \/ Release(h)

WorkerStep(p, c) ==
  \/ WorkerBegin(p, c) \/ WorkerCheckStop(p, c) \/ WorkerLoad(p, c)
  \/ WorkerExec(p, c) \/ WorkerComplete(p, c)

Next ==
  \/ \E h \in Hosts : StartOp(h) \/ Acquire(h) \/ Throw(h) \/ HostStep(h)
  \/ \E p \in Procs, c \in Cunits : WorkerStep(p, c)
  \/ \E p \in Procs : Crash(p)
  \/ Finished

(* Fairness: host threads past their acquisition and workers keep running. *)
Fairness ==
  /\ \A h \in Hosts : WF_vars(HostStep(h))
  /\ \A p \in Procs, c \in Cunits : WF_vars(WorkerStep(p, c))

Spec == Init /\ [][Next]_vars /\ Fairness
-----------------------------------------------------------------------------
Ids == (Hosts \cup {NoHost}) \X Nat \X Nat

TypeOK ==
  /\ owner \in [Cunits -> Hosts \cup {NoHost}]
  /\ exec_sls \in [Cunits -> {"ENABLE", "DISABLE"}]
  /\ psum_poll \in [Cunits -> {"RESET", "FINISH"}]
  /\ control \in [Cunits -> {"ENABLE", "DISABLE", "SWITCHED"}]
  /\ inst \in [Cunits -> [id : Ids, n : 1 .. NumRows]]
  /\ mem \in [Cunits -> [RowIdx -> Seq(Ids)]]
  /\ stop_flag \in [Procs -> [Cunits -> BOOLEAN]]
  /\ wpc \in [Procs -> [Cunits -> WorkerPC]]
  /\ wrow \in [Procs -> [Cunits -> 0 .. NumRows]]
  /\ pc \in [Hosts -> HostPC]
  /\ cu \in [Hosts -> Cunits]
  /\ step \in [Hosts -> Nat \ {0}]
  /\ failed \in [Hosts -> BOOLEAN]

\* Every execution's output holds exactly the sums of its own trace, also after
\* another process died in the middle of an execution on the same unit: the host
\* relies on no state of the buffer that it has not written itself.
ResultsCorrect ==
  \A h \in Hosts : \A i \in 1 .. Execs(h) :
    /\ out[h][i]["PSUM"] \in {<<>>, Service!Expected(h, req[h], i)}
    /\ pc[h] \in {"unswitch", "pollEnable", "stopThread", "join", "release"} /\ ~failed[h]
         => out[h][i]["PSUM"] # <<>>

\* None of the three polls (control switched, FINISH, control enabled) and not
\* the wait for the worker is for ever: an acquired unit is released.
UnitReleased ==
  \A h \in Hosts : pc[h] = "resetPoll" ~> pc[h] = "idle"

\* The CXL protocol implements the service that the AxDIMM protocol implements,
\* and only the death of a process interrupts it.
ImplementsService ==
  Service!Init /\ [][Service!Next \/ \E p \in Procs : Crash(p)]_(Service!serviceVars)
=============================================================================
