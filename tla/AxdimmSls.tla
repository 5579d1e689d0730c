----------------------------- MODULE AxdimmSls -----------------------------
(***************************************************************************)
(* One SLS reduction on AxDIMM compute units (ranks) driven through the    *)
(* functional simulator: host threads inside                               *)
(* AxdimmReductionRunner::run_on_pack, the compute unit's registers, its   *)
(* instruction buffer and its double-buffered PSUM and TAGS memory, the    *)
(* simulator's worker threads, and the kernel driver that hands compute    *)
(* units out.                                                              *)
(*                                                                         *)
(* Hosts live in processes.  A compute unit's registers and memory are     *)
(* shared by all processes; the simulator object (buffer indices, dirty    *)
(* ranges, thread controls) exists once per process.  A step is one access *)
(* to something another thread can see.  A row of PSUM or TAGS memory is   *)
(* the sequence of the traces that added to it since it was last zeroed.   *)
(***************************************************************************)
EXTENDS Naturals, Sequences, FiniteSets

CONSTANTS
  Hosts, NoHost,   \* threads that call run_on_pack
  Procs, ProcOf,   \* processes; ProcOf[h] is the process of host h
  Cunits, Packs,   \* compute units; packs are sets of them
  NumBufs,         \* topo().NumOfPSumBuf = topo().NumOfTagsBuf
  NumRows,         \* 64-byte rows in one PSUM or TAGS buffer
  Align,           \* rows in one RankInterleavingSize block
  DummyRow,        \* the row that the dummy instruction adds to
  Shapes,          \* operations: the number of output rows of each execution
  TagKinds,        \* whether an operation may be, or must be, a tagged one
  MaxOps,          \* bound: operations of one host
  MaxThrows,       \* bound: exceptions while a trace is generated
  MaxCrashes       \* bound: processes that die

ASSUME HostAssumption == NoHost \notin Hosts /\ ProcOf \in [Hosts -> Procs]
ASSUME PackAssumption == Cunits # {} /\ \A k \in Packs : k \subseteq Cunits
ASSUME BufAssumption  == NumBufs \in Nat /\ NumBufs >= 2
ASSUME RowAssumption  ==
  /\ NumRows \in Nat /\ Align \in Nat \ {0} /\ NumRows % Align = 0
  /\ DummyRow \in 0 .. NumRows - 1
  /\ Shapes \subseteq Seq(1 .. NumRows) \ {<<>>} /\ TagKinds \subseteq BOOLEAN
ASSUME BoundAssumption ==
  MaxOps \in Nat /\ MaxThrows \in Nat /\ MaxCrashes \in Nat

VARIABLES
  owner,       \* kernel: the host each compute unit is acquired by
  exec_sls,    \* exec_sls register: "ENABLE" or "DISABLE"
  psum_poll,   \* psum_poll register: "RESET" or "FINISH"
  inst,        \* the trace in the single instruction buffer
  mem,         \* mem[c][b][k][r]: row r of buffer k of block b
  rd, wr,      \* rd[p][c], wr[p][c]: NBufferedMemory READ and WRITE indices
  dirty,       \* dirty[p][c][b][k]: the min and max offsets written since cleared
  stop_flag,   \* stop_flag[p][c]: ThreadControls::stop_flag
  wpc,         \* wpc[p][c]: the worker thread; "off" iff `finished' is not valid
  wbuf, wrow,  \* the WRITE index a worker captured, the next row of its trace
  pc,          \* where each host is in run_on_pack
  req,         \* the operation it runs
  cu,          \* the compute unit it acquired
  step,        \* the execution it submits; one more than their number: the dummy
  blk,         \* the output block it reads
  out,         \* out[h][i][b]: what it read
  failed,      \* an exception is unwinding run_on_pack
  throws, crashes

simVars  == <<rd, wr, dirty>>
thrVars  == <<stop_flag, wpc, wbuf, wrow>>
regVars  == <<exec_sls, psum_poll>>
hostData == <<req, cu, step, blk, out, failed>>
bounds   == <<throws, crashes>>
vars == <<owner, regVars, inst, mem, simVars, thrVars, pc, hostData, bounds>>

HostPC == {"idle", "acquire", "resetPoll", "resetExec", "enableThread", "clear",
           "generate", "wait", "write", "shift", "armPoll", "start", "copy", "clean",
           "waitDummy", "stopThread", "join", "release"}
WorkerPC == {"off", "queued", "loop", "load", "exec", "disarm", "finish", "done"}

\* The operations, their trace identities and the outputs expected of them.
Service == INSTANCE ReductionService WITH
  holder <- owner,
  phase  <- [h \in Hosts |->
               IF pc[h] = "idle" THEN "idle"
               ELSE IF pc[h] = "acquire" THEN "pending"
               ELSE IF failed[h] THEN "failing" ELSE "running"]

Blocks  == Service!Blocks
Bufs    == 0 .. NumBufs - 1
RowIdx  == 0 .. NumRows - 1
Dummy   == <<NoHost, 0, 0>>
Garbage == <<NoHost, 0, 1>>
Execs(h)   == Len(req[h].rows)
Outputs(h) == Service!Outputs(req[h])

\* Instruction traces.  A trace adds to rows first .. first+n-1 of each block in
\* `blocks'; a trace whose header is not tagged leaves TAGS alone.
ExecTrace(h, i) ==
  [id |-> Service!TraceId(h, req[h], i), first |-> 0, n |-> req[h].rows[i],
   blocks |-> Outputs(h)]
DummyTrace == [id |-> Dummy, first |-> DummyRow, n |-> 1, blocks |-> {"PSUM"}]
StaleTrace == [id |-> Garbage, first |-> 0, n |-> 1, blocks |-> {"PSUM"}]

TraceOf(h, i) == IF i <= Execs(h) THEN ExecTrace(h, i) ELSE DummyTrace

\* A fresh simulator takes all of its buffers for dirty.
FullyDirty == [min |-> 0, max |-> NumRows]
NotDirty   == [min |-> NumRows, max |-> 0]

Init ==
  /\ owner = [c \in Cunits |-> NoHost]
  /\ exec_sls = [c \in Cunits |-> "DISABLE"]
  /\ psum_poll = [c \in Cunits |-> "RESET"]
  /\ inst = [c \in Cunits |-> StaleTrace]
  /\ mem = [c \in Cunits |-> [b \in Blocks |-> [k \in Bufs |-> [r \in RowIdx |-> <<Garbage>>]]]]
  /\ rd = [p \in Procs |-> [c \in Cunits |-> NumBufs - 1]]
  /\ wr = [p \in Procs |-> [c \in Cunits |-> 0]]
  /\ dirty = [p \in Procs |-> [c \in Cunits |->
                [b \in Blocks |-> [k \in Bufs |-> FullyDirty]]]]
  /\ stop_flag = [p \in Procs |-> [c \in Cunits |-> FALSE]]
  /\ wpc = [p \in Procs |-> [c \in Cunits |-> "off"]]
  /\ wbuf = [p \in Procs |-> [c \in Cunits |-> 0]]
  /\ wrow = [p \in Procs |-> [c \in Cunits |-> 0]]
  /\ pc = [h \in Hosts |-> "idle"]
  /\ req = [h \in Hosts |-> Service!NoRequest]
  /\ cu = [h \in Hosts |-> CHOOSE c \in Cunits : TRUE]
  /\ step = [h \in Hosts |-> 1]
  /\ blk = [h \in Hosts |-> "PSUM"]
  /\ out = [h \in Hosts |-> Service!Nothing(Service!NoRequest)]
  /\ failed = [h \in Hosts |-> FALSE]
  /\ throws = 0 /\ crashes = 0

Goto(h, label)     == pc' = [pc EXCEPT ![h] = label]
WGoto(p, c, label) == wpc' = [wpc EXCEPT ![p][c] = label]
-----------------------------------------------------------------------------
(* Variants of definitions below as plausible slips would leave them.  They *)
(* take part in no specification; each is put in the place of the operation *)
(* it names to show that a property notices the difference.                 *)

align_up_truncating(v) == v - (v % Align)

\* The exec register is not reset on acquisition.
ResetExecSkipped(h) ==
  /\ pc[h] = "resetExec" /\ Goto(h, "enableThread")
  /\ UNCHANGED <<owner, regVars, inst, mem, simVars, thrVars, hostData, bounds>>

\* Instructions are written without waiting for the running trace.
GenerateNoWait(h) ==
  /\ pc[h] = "generate" /\ Goto(h, "write")
  /\ UNCHANGED <<owner, regVars, inst, mem, simVars, thrVars, hostData, bounds>>

\* Only the WRITE index moves.
ShiftWriteOnly(h) ==
  /\ pc[h] = "shift" /\ Goto(h, "armPoll")
  /\ wr' = [wr EXCEPT ![ProcOf[h]][cu[h]] = (@ + 1) % NumBufs]
  /\ UNCHANGED <<owner, regVars, inst, mem, rd, dirty, thrVars, hostData, bounds>>

\* The unit is released without waiting for the worker.
StopThreadNoJoin(h) ==
  /\ pc[h] = "stopThread" /\ Goto(h, "release")
  /\ stop_flag' = [stop_flag EXCEPT ![ProcOf[h]][cu[h]] = TRUE]
  /\ UNCHANGED <<owner, regVars, inst, mem, simVars, wpc, wbuf, wrow, hostData, bounds>>

\* FINISH is published before the exec register is disarmed.
WorkerCompleteSwapped(p, c) ==
  /\ \/ /\ wpc[p][c] = "disarm"
        /\ psum_poll' = [psum_poll EXCEPT ![c] = "FINISH"]
        /\ WGoto(p, c, "finish") /\ UNCHANGED exec_sls
     \/ /\ wpc[p][c] = "finish"
        /\ exec_sls' = [exec_sls EXCEPT ![c] = "DISABLE"]
        /\ WGoto(p, c, "loop") /\ UNCHANGED psum_poll
  /\ UNCHANGED <<owner, inst, mem, simVars, stop_flag, wbuf, wrow, pc, hostData, bounds>>
-----------------------------------------------------------------------------
(* Clearing a buffer (clear_buf_common).                                   *)

align_down(v) == v - (v % Align)
align_up(v)   == IF v % Align = 0 THEN v ELSE v + Align - (v % Align)

\* The range is as long as the dirty one and starts at row 0: clear_memory gets
\* the buffer's address plus `offset', which is 0 in every call.
Cleared(d, rows) ==
  IF d.min >= d.max THEN rows
  ELSE [r \in RowIdx |->
          IF r < align_up(d.max) - align_down(d.min) THEN <<>> ELSE rows[r]]

ClearedRange(d) == IF d.min >= d.max THEN d ELSE NotDirty

\* NBufferedMemory::shift_index.
Shift(k) == (k + 1) % NumBufs
-----------------------------------------------------------------------------
(* A host in run_on_pack: the AxdimmComputeUnit constructor.               *)

StartOp(h) ==
  /\ pc[h] = "idle" /\ req[h].no < MaxOps
  /\ \E q \in Service!Requests(req[h].no + 1) :
       req' = [req EXCEPT ![h] = q] /\ out' = [out EXCEPT ![h] = Service!Nothing(q)]
  /\ step' = [step EXCEPT ![h] = 1]
  /\ failed' = [failed EXCEPT ![h] = FALSE]
  /\ Goto(h, "acquire")
  /\ UNCHANGED <<owner, regVars, inst, mem, simVars, thrVars, cu, blk, bounds>>

\* ioctl GET_CUNIT: the driver picks an idle unit of the mask.  While there is
\* none the call fails after a while and the constructor's loop calls again.
Acquire(h) ==
  /\ pc[h] = "acquire"
  /\ \E c \in req[h].pack :
       /\ owner[c] = NoHost
       /\ owner' = [owner EXCEPT ![c] = h]
       /\ cu' = [cu EXCEPT ![h] = c]
  /\ Goto(h, "resetPoll")
  /\ UNCHANGED <<regVars, inst, mem, simVars, thrVars, req, step, blk, out, failed, bounds>>

ResetPoll(h) ==
  /\ pc[h] = "resetPoll"
  /\ psum_poll' = [psum_poll EXCEPT ![cu[h]] = "RESET"]
  /\ Goto(h, "resetExec")
  /\ UNCHANGED <<owner, exec_sls, inst, mem, simVars, thrVars, hostData, bounds>>

ResetExec(h) ==
  /\ pc[h] = "resetExec"
  /\ exec_sls' = [exec_sls EXCEPT ![cu[h]] = "DISABLE"]
  /\ Goto(h, "enableThread")
  /\ UNCHANGED <<owner, psum_poll, inst, mem, simVars, thrVars, hostData, bounds>>

\* enable_thread; it throws when the thread is still enabled.
EnableThread(h) ==
  /\ pc[h] = "enableThread" /\ wpc[ProcOf[h]][cu[h]] = "off"
  /\ stop_flag' = [stop_flag EXCEPT ![ProcOf[h]][cu[h]] = FALSE]
  /\ wpc' = [wpc EXCEPT ![ProcOf[h]][cu[h]] = "queued"]
  /\ Goto(h, "clear")
  /\ UNCHANGED <<owner, regVars, inst, mem, simVars, wbuf, wrow, hostData, bounds>>

\* enable(): writing ENABLE to the control switch clears every buffer.
ClearBuffers(h) ==
  LET p == ProcOf[h]  c == cu[h] IN
  /\ pc[h] = "clear"
  /\ mem' = [mem EXCEPT ![c] =
       [b \in Blocks |-> [k \in Bufs |-> Cleared(dirty[p][c][b][k], mem[c][b][k])]]]
  /\ dirty' = [dirty EXCEPT ![p][c] =
       [b \in Blocks |-> [k \in Bufs |-> ClearedRange(dirty[p][c][b][k])]]]
  /\ Goto(h, "generate")
  /\ UNCHANGED <<owner, regVars, inst, rd, wr, thrVars, hostData, bounds>>
-----------------------------------------------------------------------------
(* A host in run_on_pack: the executions and the dummy.                    *)

\* generate_instructions for execution step[h]; the first is not waited for.
Generate(h) ==
  /\ pc[h] = "generate"
  /\ Goto(h, IF step[h] = 1 THEN "write" ELSE "wait")
  /\ UNCHANGED <<owner, regVars, inst, mem, simVars, thrVars, hostData, bounds>>

\* An exception there unwinds through ~AxdimmComputeUnit.
Throw(h) ==
  /\ pc[h] = "generate" /\ throws < MaxThrows
  /\ throws' = throws + 1
  /\ failed' = [failed EXCEPT ![h] = TRUE]
  /\ Goto(h, "stopThread")
  /\ UNCHANGED <<owner, regVars, inst, mem, simVars, thrVars, req, cu, step, blk, out, crashes>>

\* wait(): poll_register spins until psum_poll reads FINISH.
Wait(h) ==
  /\ pc[h] = "wait" /\ psum_poll[cu[h]] = "FINISH"
  /\ Goto(h, "write")
  /\ UNCHANGED <<owner, regVars, inst, mem, simVars, thrVars, hostData, bounds>>

WriteInst(h) ==
  /\ pc[h] = "write"
  /\ inst' = [inst EXCEPT ![cu[h]] = TraceOf(h, step[h])]
  /\ Goto(h, "shift")
  /\ UNCHANGED <<owner, regVars, mem, simVars, thrVars, hostData, bounds>>

\* run_async: write_exec_sls_register(ENABLE) shifts the buffers, resets the
\* poll register and only then stores to the exec register.
ShiftBuffers(h) ==
  LET p == ProcOf[h]  c == cu[h] IN
  /\ pc[h] = "shift"
  /\ rd' = [rd EXCEPT ![p][c] = Shift(rd[p][c])]
  /\ wr' = [wr EXCEPT ![p][c] = Shift(wr[p][c])]
  /\ Goto(h, "armPoll")
  /\ UNCHANGED <<owner, regVars, inst, mem, dirty, thrVars, hostData, bounds>>

ArmPoll(h) ==
  /\ pc[h] = "armPoll"
  /\ psum_poll' = [psum_poll EXCEPT ![cu[h]] = "RESET"]
  /\ Goto(h, "start")
  /\ UNCHANGED <<owner, exec_sls, inst, mem, simVars, thrVars, hostData, bounds>>

\* Where the loop goes once execution i runs: to the next one (the dummy is
\* not generated), which the first execution reaches without a read.
AfterRun(h, i) == IF i <= Execs(h) THEN "generate" ELSE "wait"

StartExec(h) ==
  /\ pc[h] = "start"
  /\ exec_sls' = [exec_sls EXCEPT ![cu[h]] = "ENABLE"]
  /\ \/ /\ step[h] = 1
        /\ step' = [step EXCEPT ![h] = 2]
        /\ Goto(h, AfterRun(h, 2))
        /\ UNCHANGED blk
     \/ /\ step[h] > 1
        /\ blk' = [blk EXCEPT ![h] = "PSUM"]
        /\ Goto(h, "copy")
        /\ UNCHANGED step
  /\ UNCHANGED <<owner, psum_poll, inst, mem, simVars, thrVars, req, cu, out, failed, bounds>>

\* read_output_buffers(step - 1): copy block blk from the READ buffer ...
CopyOut(h) ==
  LET p == ProcOf[h]  c == cu[h]  i == step[h] - 1 IN
  /\ pc[h] = "copy"
  /\ out' = [out EXCEPT ![h][i][blk[h]] =
       [r \in 1 .. req[h].rows[i] |-> mem[c][blk[h]][rd[p][c]][r - 1]]]
  /\ Goto(h, "clean")
  /\ UNCHANGED <<owner, regVars, inst, mem, simVars, thrVars, req, cu, step, blk, failed, bounds>>

\* ... and clear that buffer; then TAGS, the next execution, or the last wait.
CleanRead(h) ==
  LET p == ProcOf[h]  c == cu[h]  b == blk[h]  k == rd[p][c] IN
  /\ pc[h] = "clean"
  /\ mem' = [mem EXCEPT ![c][b][k] = Cleared(dirty[p][c][b][k], mem[c][b][k])]
  /\ dirty' = [dirty EXCEPT ![p][c][b][k] = ClearedRange(dirty[p][c][b][k])]
  /\ \/ /\ b = "PSUM" /\ "TAGS" \in Outputs(h)
        /\ blk' = [blk EXCEPT ![h] = "TAGS"]
        /\ Goto(h, "copy")
        /\ UNCHANGED step
     \/ /\ b = "TAGS" \/ "TAGS" \notin Outputs(h)
        /\ IF step[h] <= Execs(h)
             THEN /\ step' = [step EXCEPT ![h] = @ + 1]
                  /\ Goto(h, AfterRun(h, step[h] + 1))
             ELSE Goto(h, "waitDummy") /\ UNCHANGED step
        /\ UNCHANGED blk
  /\ UNCHANGED <<owner, regVars, inst, rd, wr, thrVars, req, cu, out, failed, bounds>>

WaitDummy(h) ==
  /\ pc[h] = "waitDummy" /\ psum_poll[cu[h]] = "FINISH"
  /\ Goto(h, "stopThread")
  /\ UNCHANGED <<owner, regVars, inst, mem, simVars, thrVars, hostData, bounds>>
-----------------------------------------------------------------------------
(* A host in run_on_pack: ~AxdimmComputeUnit.                              *)

\* disable_thread raises the stop flag (it throws when the thread is off) ...
StopThread(h) ==
  /\ pc[h] = "stopThread" /\ wpc[ProcOf[h]][cu[h]] # "off"
  /\ stop_flag' = [stop_flag EXCEPT ![ProcOf[h]][cu[h]] = TRUE]
  /\ Goto(h, "join")
  /\ UNCHANGED <<owner, regVars, inst, mem, simVars, wpc, wbuf, wrow, hostData, bounds>>

\* ... and takes the worker's future, which leaves it invalid.
JoinThread(h) ==
  /\ pc[h] = "join" /\ wpc[ProcOf[h]][cu[h]] = "done"
  /\ wpc' = [wpc EXCEPT ![ProcOf[h]][cu[h]] = "off"]
  /\ Goto(h, "release")
  /\ UNCHANGED <<owner, regVars, inst, mem, simVars, stop_flag, wbuf, wrow, hostData, bounds>>

\* ioctl RELEASE_CUNIT.
Release(h) ==
  /\ pc[h] = "release"
  /\ owner' = [owner EXCEPT ![cu[h]] = NoHost]
  /\ Goto(h, "idle")
  /\ UNCHANGED <<regVars, inst, mem, simVars, thrVars, hostData, bounds>>
-----------------------------------------------------------------------------
(* The simulator's worker for compute unit c in process p (worker_job).    *)

\* A pool thread pops the job.
WorkerBegin(p, c) ==
  /\ wpc[p][c] = "queued"
  /\ WGoto(p, c, "loop")
  /\ UNCHANGED <<owner, regVars, inst, mem, simVars, stop_flag, wbuf, wrow, pc, hostData, bounds>>

WorkerCheckStop(p, c) ==
  /\ wpc[p][c] = "loop"
  /\ WGoto(p, c, IF stop_flag[p][c] THEN "done" ELSE "load")
  /\ UNCHANGED <<owner, regVars, inst, mem, simVars, stop_flag, wbuf, wrow, pc, hostData, bounds>>

\* The exec register is read; if set, exec_trace begins and fixes its buffer.
WorkerLoad(p, c) ==
  /\ wpc[p][c] = "load"
  /\ IF exec_sls[c] # "ENABLE"
       THEN WGoto(p, c, "loop") /\ UNCHANGED <<wbuf, wrow>>
       ELSE /\ WGoto(p, c, "exec")
            /\ wbuf' = [wbuf EXCEPT ![p][c] = wr[p][c]]
            /\ wrow' = [wrow EXCEPT ![p][c] = 0]
  /\ UNCHANGED <<owner, regVars, inst, mem, simVars, stop_flag, pc, hostData, bounds>>

\* The next row's instructions: add to the output and widen the dirty range.
Widened(d, r) == [min |-> IF r < d.min THEN r ELSE d.min,
                  max |-> IF r + 1 > d.max THEN r + 1 ELSE d.max]

WorkerExec(p, c) ==
  LET t == inst[c]  k == wbuf[p][c]  r == t.first + wrow[p][c] IN
  /\ wpc[p][c] = "exec"
  /\ mem' = [mem EXCEPT ![c] = [b \in Blocks |->
       IF b \in t.blocks THEN [mem[c][b] EXCEPT ![k][r] = Append(@, t.id)] ELSE mem[c][b]]]
  /\ dirty' = [dirty EXCEPT ![p][c] = [b \in Blocks |->
       IF b \in t.blocks
         THEN [dirty[p][c][b] EXCEPT ![k] = Widened(@, r)] ELSE dirty[p][c][b]]]
  /\ wrow' = [wrow EXCEPT ![p][c] = @ + 1]
  /\ WGoto(p, c, IF wrow[p][c] + 1 < t.n THEN "exec" ELSE "disarm")
  /\ UNCHANGED <<owner, regVars, inst, rd, wr, stop_flag, wbuf, pc, hostData, bounds>>

\* The two stores that end an execution, in this order.
WorkerComplete(p, c) ==
  /\ \/ /\ wpc[p][c] = "disarm"
        /\ exec_sls' = [exec_sls EXCEPT ![c] = "DISABLE"]
        /\ WGoto(p, c, "finish") /\ UNCHANGED psum_poll
     \/ /\ wpc[p][c] = "finish"
        /\ psum_poll' = [psum_poll EXCEPT ![c] = "FINISH"]
        /\ WGoto(p, c, "loop") /\ UNCHANGED exec_sls
  /\ UNCHANGED <<owner, inst, mem, simVars, stop_flag, wbuf, wrow, pc, hostData, bounds>>
-----------------------------------------------------------------------------
\* A process dies, with its threads and its simulator, and is started again.
\* The driver releases the units its open file held; registers and buffers
\* stay as they are.
Crash(p) ==
  /\ crashes < MaxCrashes
  /\ crashes' = crashes + 1
  /\ owner' = [c \in Cunits |->
       IF owner[c] # NoHost /\ ProcOf[owner[c]] = p THEN NoHost ELSE owner[c]]
  /\ rd' = [rd EXCEPT ![p] = [c \in Cunits |-> NumBufs - 1]]
  /\ wr' = [wr EXCEPT ![p] = [c \in Cunits |-> 0]]
  /\ dirty' = [dirty EXCEPT ![p] =
       [c \in Cunits |-> [b \in Blocks |-> [k \in Bufs |-> FullyDirty]]]]
  /\ stop_flag' = [stop_flag EXCEPT ![p] = [c \in Cunits |-> FALSE]]
  /\ wpc' = [wpc EXCEPT ![p] = [c \in Cunits |-> "off"]]
  /\ pc' = [h \in Hosts |-> IF ProcOf[h] = p THEN "idle" ELSE pc[h]]
  /\ UNCHANGED <<regVars, inst, mem, wbuf, wrow, hostData, throws>>

\* Every host has run its MaxOps operations.
Finished == (\A h \in Hosts : pc[h] = "idle" /\ req[h].no = MaxOps) /\ UNCHANGED vars

HostStep(h) ==
  \/ ResetPoll(h) \/ ResetExec(h) \/ EnableThread(h) \/ ClearBuffers(h)
  \/ Generate(h) \/ Wait(h) \/ WriteInst(h) \/ ShiftBuffers(h) \/ ArmPoll(h)
  \/ StartExec(h) \/ CopyOut(h) \/ CleanRead(h) \/ WaitDummy(h)
  \/ StopThread(h) \/ JoinThread(h) \/ Release(h)

WorkerStep(p, c) ==
  \/ WorkerBegin(p, c) \/ WorkerCheckStop(p, c) \/ WorkerLoad(p, c)
  \/ WorkerExec(p, c) \/ WorkerComplete(p, c)

Next ==
  \/ \E h \in Hosts : StartOp(h) \/ Acquire(h) \/ Throw(h) \/ HostStep(h)
  \/ \E p \in Procs, c \in Cunits : WorkerStep(p, c)
  \/ \E p \in Procs : Crash(p)
  \/ Finished

(* Fairness: a host thread past its acquisition and a worker thread keep    *)
(* running.  Nothing is assumed about who wins the next acquisition.        *)
Fairness ==
  /\ \A h \in Hosts : WF_vars(HostStep(h))
  /\ \A p \in Procs, c \in Cunits : WF_vars(WorkerStep(p, c))

Spec == Init /\ [][Next]_vars /\ Fairness
-----------------------------------------------------------------------------
Ids    == (Hosts \cup {NoHost}) \X Nat \X Nat
Traces == [id : Ids, first : RowIdx, n : 1 .. NumRows, blocks : SUBSET Blocks]
Ranges == [min : 0 .. NumRows, max : 0 .. NumRows]
Reqs   == [pack : SUBSET Cunits, tagged : BOOLEAN, no : Nat, rows : Seq(1 .. NumRows) \ {<<>>}]

TypeOK ==
  /\ owner \in [Cunits -> Hosts \cup {NoHost}]
  /\ exec_sls \in [Cunits -> {"ENABLE", "DISABLE"}]
  /\ psum_poll \in [Cunits -> {"RESET", "FINISH"}]
  /\ inst \in [Cunits -> Traces]
  /\ mem \in [Cunits -> [Blocks -> [Bufs -> [RowIdx -> Seq(Ids)]]]]
  /\ rd \in [Procs -> [Cunits -> Bufs]]
  /\ wr \in [Procs -> [Cunits -> Bufs]]
  /\ dirty \in [Procs -> [Cunits -> [Blocks -> [Bufs -> Ranges]]]]
  /\ stop_flag \in [Procs -> [Cunits -> BOOLEAN]]
  /\ wpc \in [Procs -> [Cunits -> WorkerPC]]
  /\ wbuf \in [Procs -> [Cunits -> Bufs]]
  /\ wrow \in [Procs -> [Cunits -> 0 .. NumRows]]
  /\ pc \in [Hosts -> HostPC]
  /\ cu \in [Hosts -> Cunits]
  /\ step \in [Hosts -> Nat \ {0}]
  /\ req \in [Hosts -> Reqs]
  /\ blk \in [Hosts -> Blocks]
  /\ failed \in [Hosts -> BOOLEAN]

\* The hosts that hold a compute unit, and those whose unit has its worker on.
Holding(h)  == pc[h] \notin {"idle", "acquire"}
ThreadOn(h) == Holding(h) /\ pc[h] \notin {"resetPoll", "resetExec", "enableThread", "release"}

\* A compute unit acquired by acquire_cunit_from_range belongs to one host until
\* release_cunit: two hosts inside run_on_pack never share one.
UnitExclusive ==
  /\ \A h, g \in Hosts : Holding(h) /\ Holding(g) /\ cu[h] = cu[g] => h = g
  /\ \A c \in Cunits : owner[c] # NoHost => Holding(owner[c]) /\ cu[owner[c]] = c

\* A worker thread exists only for a unit that a host of its own process holds:
\* release_cunit ends the thread before the driver can give the unit away.
WorkerOwned ==
  \A p \in Procs, c \in Cunits :
    wpc[p][c] # "off" => owner[c] # NoHost /\ ProcOf[owner[c]] = p

\* enable_thread never finds its thread enabled and disable_thread never finds
\* it off, so neither throws out of the constructor or the destructor.
ThreadControlsMatch ==
  \A h \in Hosts :
    /\ pc[h] = "enableThread" => wpc[ProcOf[h]][cu[h]] = "off"
    /\ pc[h] \in {"stopThread", "join"} => wpc[ProcOf[h]][cu[h]] # "off"

\* While exec_trace runs, the host does not clear the buffers, rewrite the
\* instructions or shift the indices, and it reads and clears another buffer
\* than the one exec_trace adds to.
NoRace ==
  \A h \in Hosts :
    LET p == ProcOf[h]  c == cu[h] IN
    Holding(h) /\ wpc[p][c] = "exec" =>
      /\ pc[h] \notin {"clear", "write", "shift", "armPoll", "start", "release"}
      /\ pc[h] \in {"copy", "clean"} => wbuf[p][c] # rd[p][c]

\* A worker executes only a trace that the unit's present owner wrote for its
\* present operation, whatever an earlier owner left in the registers.
OwnTraceOnly ==
  \A p \in Procs, c \in Cunits :
    wpc[p][c] = "exec" =>
      LET h == owner[c] IN
      \E i \in {step[h], step[h] - 1} : i > 0 /\ inst[c] = TraceOf(h, i)

\* A buffer whose dirty range is empty holds zeros: clear_buf_common has zeroed
\* what was modified, and only then forgets the range.
ModifiedPartZeroed ==
  \A p \in Procs, c \in Cunits, b \in Blocks, k \in Bufs :
    dirty[p][c][b][k].min >= dirty[p][c][b][k].max =>
      \A r \in RowIdx : mem[c][b][k][r] = <<>>

\* Every output block that a host has read holds, in each row, exactly the sum
\* of its own execution's trace; an operation that ran to the end read them all.
ResultsCorrect ==
  \A h \in Hosts : \A i \in 1 .. Execs(h) : \A b \in Outputs(h) :
    /\ out[h][i][b] \in {<<>>, Service!Expected(h, req[h], i)}
    /\ pc[h] \in {"stopThread", "join", "release"} /\ ~failed[h] => out[h][i][b] # <<>>

\* A compute unit that was acquired is released: neither a wait for FINISH nor
\* the wait for the worker's future is for ever, exceptions included.
UnitReleased ==
  \A h \in Hosts : pc[h] = "resetPoll" ~> pc[h] = "idle"

\* The register protocol, the double buffering and the clearing implement the
\* service: own results only, in order, on a unit held by one host at a time.
ImplementsService == Service!Spec
=============================================================================
