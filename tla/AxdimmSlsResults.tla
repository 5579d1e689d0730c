-------------------------- MODULE AxdimmSlsResults --------------------------
(***************************************************************************)
(* What the hosts of AxdimmSls read, for every number of hosts, processes, *)
(* units, buffers and rows: every host reads the sums of its own           *)
(* executions, which implements the reduction service.  The sums are right *)
(* as long as no process shares its units with another after an exception  *)
(* or a death: the dirty ranges that say what is to be cleared are known   *)
(* to one process only.  A leaf is Zenon's unless it names another prover. *)
(***************************************************************************)
EXTENDS AxdimmSlsProofs

USE Zenon

\* No execution has an output in the row of the dummy instruction.
BelowDummy == \A s \in Shapes : \A i \in DOMAIN s : s[i] <= DummyRow

\* No exception and no death so far, or just one process.
Undisturbed == (throws = 0 /\ crashes = 0) \/ \A p, q \in Procs : p = q

ReadBuf(h)  == rd[ProcOf[h]][cu[h]]
WriteBuf(h) == wr[ProcOf[h]][cu[h]]

\* The execution whose sums are in block b of the READ buffer.
InRead(h, b) ==
  IF \/ pc[h] \in {"armPoll", "start"}
     \/ pc[h] \in {"copy", "clean"} /\ ~(b = "PSUM" /\ blk[h] = "TAGS")
  THEN step[h] - 1 ELSE 0

-----------------------------------------------------------------------------
(* Sums.                                                                   *)

\* The rows below the dummy's.
Low == 0 .. DummyRow - 1

\* How many rows the trace in the WRITE buffer has added to; all: NumRows.
Written(h) ==
  IF Worker(h) = "exec" THEN wrow[ProcOf[h]][cu[h]]
  ELSE IF Worker(h) = "disarm" \/ exec_sls[cu[h]] = "DISABLE" THEN NumRows ELSE 0

\* What m rows of execution i leave in row r of block b.
SumOf(h, i, b, m, r) ==
  IF i \in 1 .. Execs(h) /\ b \in Outputs(h) /\ r < m /\ r < req[h].rows[i]
  THEN <<Service!TraceId(h, req[h], i)>> ELSE <<>>

\* The low rows of a unit between the clearing and the release.
Image(h, b, k, r) ==
  IF k = WriteBuf(h) THEN SumOf(h, InWrite(h), b, Written(h), r)
  ELSE IF k = ReadBuf(h) THEN SumOf(h, InRead(h, b), b, NumRows, r) ELSE <<>>

Data(h) ==
  \A b \in Blocks, k \in Bufs, r \in Low : mem[cu[h]][b][k][r] = Image(h, b, k, r)

\* The dirty range that process p has of a buffer covers what is in it.
Covers(p, c, b, k) ==
  \A r \in Low : mem[c][b][k][r] # <<>> =>
    dirty[p][c][b][k].min = 0 /\ r < dirty[p][c][b][k].max

Covered(p, c) == \A b \in Blocks, k \in Bufs : Covers(p, c, b, k)

\* The hosts whose unit is as its last holder left it, and those that cleared it.
Fresh(h) == pc[h] \in {"resetPoll", "resetExec", "enableThread", "clear"}
Used(h)  == Holding(h) /\ ~Fresh(h)

\* The outputs that a host has read, and what they are.
Read(h, i, b) ==
  \/ i + 1 < step[h]
  \/ /\ i + 1 = step[h]
     /\ \/ pc[h] = "copy" /\ blk[h] = "TAGS" /\ b = "PSUM"
        \/ pc[h] = "clean" /\ (b = "PSUM" \/ blk[h] = "TAGS")
        \/ pc[h] \in {"waitDummy", "stopThread", "join", "release"} /\ ~failed[h]

Given(h) ==
  [i \in DOMAIN req[h].rows |-> [b \in Blocks |->
     IF b \in Outputs(h) /\ Read(h, i, b) THEN Service!Expected(h, req[h], i) ELSE <<>>]]

Ends == {"stopThread", "join", "release"}

Progress(h) ==
  /\ step[h] <= Execs(h) + 1 /\ \A i \in 1 .. Execs(h) : req[h].rows[i] <= DummyRow
  /\ pc[h] \in {"acquire", "resetPoll", "resetExec", "enableThread", "clear"} => step[h] = 1
  /\ pc[h] = "generate" => step[h] <= Execs(h)
  /\ pc[h] \in {"wait", "copy", "clean", "waitDummy"} => step[h] > 1
  /\ pc[h] = "waitDummy" \/ (pc[h] \in Ends /\ ~failed[h]) => step[h] = Execs(h) + 1
  /\ pc[h] \in {"copy", "clean"} => blk[h] \in Outputs(h)
  /\ failed[h] => pc[h] \in Ends /\ throws > 0
  /\ out[h] = Given(h)

\* Whatever was read is right, also when the process died since.
Safe(h) ==
  \A i \in 1 .. Execs(h), b \in Outputs(h) :
    out[h][i][b] \in {<<>>, Service!Expected(h, req[h], i)}

RInv ==
  /\ \A h \in Hosts : (pc[h] # "idle" => Progress(h)) /\ (pc[h] = "idle" => Safe(h))
  /\ \A h \in Hosts : Used(h) => Data(h)
  /\ \A p \in Procs, c \in Cunits :
       owner[c] = NoHost \/ Fresh(owner[c]) \/ ProcOf[owner[c]] = p => Covered(p, c)

Results == Undisturbed => RInv

-----------------------------------------------------------------------------
(* Sums: the operators.                                                    *)

\* The low rows are rows.
LEMMA LowRows ==
  /\ NumRows \in Nat /\ DummyRow \in Nat /\ DummyRow < NumRows /\ DummyRow \in RowIdx
  /\ \A r \in Low : r \in RowIdx /\ r \in Nat /\ r < NumRows /\ r < DummyRow
  /\ \A r \in Nat : r < DummyRow => r \in Low
BY SMT, RowAssumption DEF Low, RowIdx

\* The dummy's row is not a low one.
LEMMA DummyAbove == DummyRow \notin Low
BY SMT, RowAssumption DEF Low

\* A request's executions and its outputs.
LEMMA RequestShape ==
  ASSUME NEW h \in Hosts, req[h] \in Reqs
  PROVE  /\ DOMAIN req[h].rows = 1 .. Execs(h) /\ Execs(h) \in Nat /\ Execs(h) >= 1
         /\ \A i \in 1 .. Execs(h) : req[h].rows[i] \in Nat /\ req[h].rows[i] >= 1
         /\ "PSUM" \in Outputs(h) /\ Outputs(h) \subseteq Blocks
         /\ "TAGS" \in Outputs(h) \/ Outputs(h) = {"PSUM"}
<1> DEFINE s == req[h].rows
<1>0. s \in Seq(1 .. NumRows) /\ s # <<>> /\ NumRows \in Nat
  BY LowRows DEF Reqs
<1>1. DOMAIN s = 1 .. Len(s) /\ Len(s) \in Nat /\ \A i \in 1 .. Len(s) : s[i] \in 1 .. NumRows
  <2> HIDE DEF s
  <2> QED BY SMT, <1>0
<1>2. Len(s) >= 1
  <2> HIDE DEF s
  <2>1. Len(s) # 0 BY SMT, <1>0, <1>1
  <2> QED BY SMT, <1>1, <2>1
<1>3. \A i \in 1 .. Len(s) : s[i] \in Nat /\ s[i] >= 1
  <2> HIDE DEF s
  <2> QED BY SMT, <1>0, <1>1
<1>4. "PSUM" \in Outputs(h) /\ Outputs(h) \subseteq Blocks /\ ("TAGS" \in Outputs(h) \/ Outputs(h) = {"PSUM"})
  BY DEF Outputs, Blocks, Service!Outputs, Service!Blocks
<1> QED BY <1>1, <1>2, <1>3, <1>4 DEF Execs

\* A range that covers a buffer clears all of its low rows.
LEMMA ClearedZero ==
  ASSUME NEW d \in Ranges, NEW rows \in [RowIdx -> Seq(Ids)],
         \A r \in Low : rows[r] # <<>> => d.min = 0 /\ r < d.max
  PROVE  \A r \in Low : Cleared(d, rows)[r] = <<>>
<1> SUFFICES ASSUME NEW r \in Low PROVE Cleared(d, rows)[r] = <<>>
  OBVIOUS
<1>0. d.min \in Nat /\ d.max \in Nat /\ r \in RowIdx /\ r \in Nat
  BY SMT, LowRows DEF Ranges
<1>1. CASE d.min >= d.max
  <2>1. rows[r] = <<>> BY SMT, <1>0, <1>1
  <2> QED BY <1>1, <2>1 DEF Cleared
<1>2. CASE ~(d.min >= d.max)
  <2>1. CASE r < align_up(d.max) - align_down(d.min)
    BY <1>0, <1>2, <2>1 DEF Cleared
  <2>2. CASE ~(r < align_up(d.max) - align_down(d.min))
    <3>1. Cleared(d, rows)[r] = rows[r] BY <1>0, <1>2, <2>2 DEF Cleared
    <3>2. ASSUME d.min = 0, r < d.max PROVE FALSE
      <4>1. Align \in Nat \ {0} /\ 0 % Align = 0 /\ d.max % Align \in 0 .. Align - 1
        BY SMT, <1>0, RowAssumption
      <4>2. align_down(d.min) = 0 BY SMT, <3>2, <4>1 DEF align_down
      <4>3. align_up(d.max) >= d.max /\ align_up(d.max) \in Nat BY SMT, <1>0, <4>1 DEF align_up
      <4> QED BY SMT, <1>0, <2>2, <3>2, <4>2, <4>3
    <3> QED BY <3>1, <3>2
  <2> QED BY <2>1, <2>2
<1> QED BY <1>1, <1>2

\* Covering concerns the memory of a unit and one process's ranges of it.
LEMMA CoverFrame ==
  ASSUME NEW p, NEW c, mem'[c] = mem[c], dirty'[p][c] = dirty[p][c], Covered(p, c)
  PROVE  Covered(p, c)'
BY DEF Covered, Covers

\* What was read concerns the request and the position in it.
LEMMA GivenSame ==
  ASSUME NEW h \in Hosts, req'[h] = req[h],
         \A i \in DOMAIN req[h].rows, b \in Outputs(h) : Read(h, i, b)' <=> Read(h, i, b)
  PROVE  Given(h)' = Given(h)
<1>1. Outputs(h)' = Outputs(h) BY DEF Outputs
<1>2. ASSUME NEW i \in DOMAIN req[h].rows, NEW b \in Blocks
      PROVE  (IF b \in Outputs(h) /\ Read(h, i, b) THEN Service!Expected(h, req[h], i) ELSE <<>>)'
             = IF b \in Outputs(h) /\ Read(h, i, b) THEN Service!Expected(h, req[h], i) ELSE <<>>
  <2>1. Service!Expected(h, req[h], i)' = Service!Expected(h, req[h], i)
    OBVIOUS
  <2> QED BY <1>1, <2>1
<1> QED BY <1>2 DEF Given

\* One output of them.
LEMMA GivenCell ==
  ASSUME NEW h
  PROVE  /\ \A i \in DOMAIN req[h].rows, b \in Blocks : Given(h)[i][b] =
              IF b \in Outputs(h) /\ Read(h, i, b) THEN Service!Expected(h, req[h], i) ELSE <<>>
         /\ Given(h) = [i \in DOMAIN req[h].rows |-> [b \in Blocks |-> Given(h)[i][b]]]
<1> DEFINE V(i, b) ==
      IF b \in Outputs(h) /\ Read(h, i, b) THEN Service!Expected(h, req[h], i) ELSE <<>>
<1>0. Given(h) = [i \in DOMAIN req[h].rows |-> [b \in Blocks |-> V(i, b)]]
  BY DEF Given
<1> HIDE DEF V
<1>1. ASSUME NEW i \in DOMAIN req[h].rows
      PROVE  Given(h)[i] = [b \in Blocks |-> V(i, b)]
  BY <1>0
<1>2. ASSUME NEW i \in DOMAIN req[h].rows, NEW b \in Blocks
      PROVE  Given(h)[i][b] = V(i, b)
  BY <1>1
<1>3. Given(h) = [i \in DOMAIN req[h].rows |-> [b \in Blocks |-> Given(h)[i][b]]]
  BY <1>0, <1>2
<1> QED BY <1>2, <1>3 DEF V

\* What a host read so far is right.
LEMMA ProgressSafe ==
  ASSUME NEW h \in Hosts, req[h] \in Reqs, out[h] = Given(h) PROVE Safe(h)
<1> SUFFICES ASSUME NEW i \in 1 .. Execs(h), NEW b \in Outputs(h)
             PROVE  out[h][i][b] \in {<<>>, Service!Expected(h, req[h], i)}
  BY DEF Safe
<1>1. i \in DOMAIN req[h].rows /\ b \in Blocks BY RequestShape
<1>2. Given(h)[i][b] = IF b \in Outputs(h) /\ Read(h, i, b)
                         THEN Service!Expected(h, req[h], i) ELSE <<>>
  BY <1>1, GivenCell
<1>3. out[h][i][b] = Given(h)[i][b] OBVIOUS
<1> QED BY <1>2, <1>3

-----------------------------------------------------------------------------
(* Sums: the frames.                                                       *)

\* The position of a host in its operation concerns nothing but these values.
LEMMA ProgressFrame ==
  ASSUME NEW g \in Hosts, Progress(g), pc'[g] = pc[g], step'[g] = step[g], req'[g] = req[g],
         blk'[g] = blk[g], out'[g] = out[g], failed'[g] = failed[g],
         throws \in Nat, throws' = throws \/ throws' = throws + 1
  PROVE  Progress(g)'
<1>1. Execs(g)' = Execs(g) /\ Outputs(g)' = Outputs(g) BY DEF Execs, Outputs
<1>2. Given(g)' = Given(g)
  <2>1. \A i, b : Read(g, i, b)' <=> Read(g, i, b) BY DEF Read
  <2> QED BY <2>1, GivenSame
<1>3. throws > 0 => throws' > 0 BY SMT
<1> QED BY <1>1, <1>2, <1>3 DEF Progress, Execs

\* So does what it read.
LEMMA SafeFrame ==
  ASSUME NEW g \in Hosts, Safe(g), req'[g] = req[g], out'[g] = out[g]
  PROVE  Safe(g)'
<1>1. Execs(g)' = Execs(g) /\ Outputs(g)' = Outputs(g) BY DEF Execs, Outputs
<1>2. \A i : Service!Expected(g, req[g], i)' = Service!Expected(g, req[g], i) OBVIOUS
<1> QED BY <1>1, <1>2 DEF Safe

\* The contents of a unit, as its holder has them.
LEMMA DataFrame ==
  ASSUME NEW g \in Hosts, Data(g), cu'[g] = cu[g], mem'[cu[g]] = mem[cu[g]],
         \A b \in Blocks, k \in Bufs, r \in Low : Image(g, b, k, r)' = Image(g, b, k, r)
  PROVE  Data(g)'
<1> SUFFICES ASSUME NEW b \in Blocks, NEW k \in Bufs, NEW r \in Low
             PROVE  (mem[cu[g]][b][k][r] = Image(g, b, k, r))'
  BY DEF Data, Blocks, Service!Blocks, Bufs, Low
<1>1. mem[cu[g]][b][k][r] = Image(g, b, k, r) BY DEF Data
<1> QED BY <1>1

\* They are the same as long as these values are.
LEMMA ImageFrame ==
  ASSUME NEW g \in Hosts, cu'[g] = cu[g], req'[g] = req[g],
         ReadBuf(g)' = ReadBuf(g), WriteBuf(g)' = WriteBuf(g), InWrite(g)' = InWrite(g),
         \A b : InRead(g, b)' = InRead(g, b), Written(g)' = Written(g)
  PROVE  \A b, k, r : Image(g, b, k, r)' = Image(g, b, k, r)
<1>1. Execs(g)' = Execs(g) /\ Outputs(g)' = Outputs(g) BY DEF Execs, Outputs
<1>2. \A i, b, m, r : SumOf(g, i, b, m, r)' = SumOf(g, i, b, m, r)
  BY <1>1 DEF SumOf
<1>3. \A b, r : /\ SumOf(g, InWrite(g), b, Written(g), r)' = SumOf(g, InWrite(g), b, Written(g), r)
                /\ SumOf(g, InRead(g, b), b, NumRows, r)' = SumOf(g, InRead(g, b), b, NumRows, r)
  BY <1>2
<1> QED BY <1>3 DEF Image

\* A host that no step touches keeps the contents of its unit.
LEMMA UntouchedData ==
  ASSUME NEW g \in Hosts, Data(g), pc'[g] = pc[g], step'[g] = step[g], req'[g] = req[g],
         blk'[g] = blk[g], failed'[g] = failed[g], cu'[g] = cu[g],
         mem'[cu[g]] = mem[cu[g]], exec_sls'[cu[g]] = exec_sls[cu[g]],
         wpc'[ProcOf[g]][cu[g]] = wpc[ProcOf[g]][cu[g]],
         wrow'[ProcOf[g]][cu[g]] = wrow[ProcOf[g]][cu[g]],
         rd'[ProcOf[g]][cu[g]] = rd[ProcOf[g]][cu[g]],
         wr'[ProcOf[g]][cu[g]] = wr[ProcOf[g]][cu[g]]
  PROVE  Data(g)'
<1>1. ReadBuf(g)' = ReadBuf(g) /\ WriteBuf(g)' = WriteBuf(g) /\ Worker(g)' = Worker(g)
  BY DEF ReadBuf, WriteBuf, Worker
<1>2. InWrite(g)' = InWrite(g) /\ \A b : InRead(g, b)' = InRead(g, b)
  BY DEF InWrite, InRead
<1>3. Written(g)' = Written(g) BY <1>1 DEF Written
<1>4. \A b, k, r : Image(g, b, k, r)' = Image(g, b, k, r)
  BY <1>1, <1>2, <1>3, ImageFrame
<1> QED BY <1>4, DataFrame

\* A local step need only be right for its host and that host's unit.
LEMMA ResultsLocal ==
  ASSUME AInv, RInv, NEW h \in Hosts, Holding(h), Holding(h)', LocalData(h),
         throws' = throws \/ throws' = throws + 1,
         Progress(h)', Used(h)' => Data(h)', NEW cx \in Cunits, cx = cu[h],
         \A p \in Procs : Fresh(h)' \/ ProcOf[h] = p => Covered(p, cx)'
  PROVE  RInv'
<1> USE HostAssumption
<1>0. /\ throws \in Nat /\ owner[cu[h]] = h /\ cu[h] \in Cunits /\ owner' = owner /\ cu' = cu
      /\ owner \in [Cunits -> Hosts \cup {NoHost}]
  BY DEF AInv, IInv, Ownership, CtlType, LocalData
<1>1. ASSUME NEW g \in Hosts, g # h
      PROVE  /\ pc'[g] = pc[g] /\ step'[g] = step[g] /\ req'[g] = req[g] /\ blk'[g] = blk[g]
             /\ out'[g] = out[g] /\ failed'[g] = failed[g]
  BY <1>1 DEF LocalData
<1>2. ASSUME NEW g \in Hosts
      PROVE  ((pc[g] # "idle")' => Progress(g)') /\ ((pc[g] = "idle")' => Safe(g)')
  <2>1. CASE g # h
    <3>1. ASSUME (pc[g] = "idle")' PROVE Safe(g)'
      <4>1. Safe(g) BY <1>1, <2>1, <3>1 DEF RInv
      <4> QED BY <1>1, <2>1, <4>1, SafeFrame
    <3>2. ASSUME (pc[g] # "idle")' PROVE Progress(g)'
      <4>1. Progress(g) BY <1>1, <2>1, <3>2 DEF RInv
      <4> QED BY <1>0, <1>1, <2>1, <4>1, ProgressFrame
    <3> QED BY <3>1, <3>2
  <2> QED BY <2>1 DEF Holding
<1>3. ASSUME NEW g \in Hosts, Used(g)' PROVE Data(g)'
  <2>1. CASE g # h
    <3>1. Used(g) BY <1>1, <1>3, <2>1 DEF Used, Fresh, Holding
    <3>2. Data(g) BY <3>1 DEF RInv
    <3>3. owner[cu[g]] = g /\ cu[g] \in Cunits /\ ProcOf[g] \in Procs
      BY <3>1 DEF Used, AInv, IInv, Ownership, CtlType
    <3>4. cu[g] # cu[h] BY <1>0, <2>1, <3>3
    <3>5. /\ mem'[cu[g]] = mem[cu[g]] /\ exec_sls'[cu[g]] = exec_sls[cu[g]]
          /\ wpc'[ProcOf[g]][cu[g]] = wpc[ProcOf[g]][cu[g]]
          /\ wrow'[ProcOf[g]][cu[g]] = wrow[ProcOf[g]][cu[g]]
          /\ rd'[ProcOf[g]][cu[g]] = rd[ProcOf[g]][cu[g]]
          /\ wr'[ProcOf[g]][cu[g]] = wr[ProcOf[g]][cu[g]]
      BY ZenonT(30), <3>3, <3>4 DEF LocalData
    <3> QED BY <1>0, <1>1, <2>1, <3>2, <3>5, UntouchedData
  <2> QED BY <1>3, <2>1
<1>4. ASSUME NEW p \in Procs, NEW c \in Cunits,
             (owner[c] = NoHost \/ Fresh(owner[c]) \/ ProcOf[owner[c]] = p)'
      PROVE  Covered(p, c)'
  <2>1. CASE c = cx
    <3>1. owner'[c] = h /\ h # NoHost BY <1>0, <2>1
    <3>2. Fresh(h)' \/ ProcOf[h] = p BY <1>4, <3>1 DEF Fresh
    <3> QED BY <2>1, <3>2
  <2>2. CASE c # cx
    <3>0. owner[c] = NoHost \/ (owner[c] \in Hosts /\ owner[c] # h)
      <4>1. owner[c] # NoHost => cu[owner[c]] = c BY DEF AInv, IInv, Ownership
      <4> QED BY <1>0, <2>2, <4>1
    <3>1. owner[c] = NoHost \/ Fresh(owner[c]) \/ ProcOf[owner[c]] = p
      BY <1>0, <1>1, <1>4, <3>0 DEF Fresh
    <3>2. Covered(p, c) BY <3>1 DEF RInv
    <3>3. mem'[c] = mem[c] /\ dirty'[p][c] = dirty[p][c] BY <2>2 DEF LocalData
    <3> QED BY <3>2, <3>3, CoverFrame
  <2> QED BY <2>1, <2>2
<1> QED BY <1>2, <1>3, <1>4 DEF RInv

-----------------------------------------------------------------------------
(* Sums: the progress of a host.                                           *)

\* The steps of a host that only take it to the next one.
Moves(h) ==
  /\ \/ pc[h] = "resetPoll" /\ pc'[h] = "resetExec"
     \/ pc[h] = "resetExec" /\ pc'[h] = "enableThread"
     \/ pc[h] = "enableThread" /\ pc'[h] = "clear"
     \/ pc[h] = "clear" /\ pc'[h] = "generate"
     \/ pc[h] = "generate" /\ step[h] = 1 /\ pc'[h] = "write"
     \/ pc[h] = "generate" /\ step[h] # 1 /\ pc'[h] = "wait"
     \/ pc[h] = "wait" /\ pc'[h] = "write"
     \/ pc[h] = "write" /\ pc'[h] = "shift"
     \/ pc[h] = "shift" /\ pc'[h] = "armPoll"
     \/ pc[h] = "armPoll" /\ pc'[h] = "start"
     \/ pc[h] = "waitDummy" /\ pc'[h] = "stopThread"
     \/ pc[h] = "stopThread" /\ pc'[h] = "join"
     \/ pc[h] = "join" /\ pc'[h] = "release"
  /\ step' = step /\ req' = req /\ blk' = blk /\ out' = out /\ failed' = failed /\ cu' = cu
  /\ throws' = throws

\* All but four of the steps are such.
LEMMA HostMoves ==
  ASSUME AInv, NEW h \in Hosts, HostStep(h),
         ~StartExec(h), ~CopyOut(h), ~CleanRead(h), ~Release(h)
  PROVE  Moves(h)
<1> USE DEF Goto, Moves, hostData, bounds
<1>0. pc \in [Hosts -> HostPC] BY DEF AInv, IInv, CtlType
<1>1. CASE ResetPoll(h) BY <1>0, <1>1 DEF ResetPoll
<1>2. CASE ResetExec(h) BY <1>0, <1>2 DEF ResetExec
<1>3. CASE EnableThread(h) BY <1>0, <1>3 DEF EnableThread
<1>4. CASE ClearBuffers(h) BY <1>0, <1>4 DEF ClearBuffers
<1>5. CASE Generate(h)
  <2>1. CASE step[h] = 1 BY <1>0, <1>5, <2>1 DEF Generate
  <2>2. CASE step[h] # 1 BY <1>0, <1>5, <2>2 DEF Generate
  <2> QED BY <2>1, <2>2
<1>6. CASE Wait(h) BY <1>0, <1>6 DEF Wait
<1>7. CASE WriteInst(h) BY <1>0, <1>7 DEF WriteInst
<1>8. CASE ShiftBuffers(h) BY <1>0, <1>8 DEF ShiftBuffers
<1>9. CASE ArmPoll(h) BY <1>0, <1>9 DEF ArmPoll
<1>10. CASE WaitDummy(h) BY <1>0, <1>10 DEF WaitDummy
<1>11. CASE StopThread(h) BY <1>0, <1>11 DEF StopThread
<1>12. CASE JoinThread(h) BY <1>0, <1>12 DEF JoinThread
<1> QED
  BY <1>1, <1>2, <1>3, <1>4, <1>5, <1>6, <1>7, <1>8, <1>9, <1>10, <1>11, <1>12 DEF HostStep

\* Such a step keeps the progress.
LEMMA MoveProgress ==
  ASSUME AInv, NEW h \in Hosts, Progress(h), Moves(h)
  PROVE  Progress(h)'
<1>0. /\ step[h] \in Nat \ {0} /\ req[h] \in Reqs /\ failed[h] \in BOOLEAN
      /\ step' = step /\ req' = req /\ blk' = blk /\ out' = out /\ failed' = failed
      /\ throws' = throws
  BY TypesHold DEF AInv, TypeOK, Moves
<1>1. Execs(h)' = Execs(h) /\ Outputs(h)' = Outputs(h) /\ Execs(h) \in Nat /\ Execs(h) >= 1
  BY <1>0, RequestShape DEF Execs, Outputs
<1>2. Given(h)' = Given(h)
  <2>1. \A i, b : Read(h, i, b)' <=> Read(h, i, b)
    BY <1>0 DEF Read, Moves, Progress, Ends
  <2> QED BY <1>0, <2>1, GivenSame
<1>3. /\ pc'[h] \in {"acquire", "resetPoll", "resetExec", "enableThread", "clear"} => step[h] = 1
      /\ pc'[h] = "generate" => step[h] <= Execs(h)
      /\ pc'[h] \in {"wait", "copy", "clean", "waitDummy"} => step[h] > 1
      /\ pc'[h] = "waitDummy" \/ (pc'[h] \in Ends /\ ~failed[h]) => step[h] = Execs(h) + 1
      /\ pc'[h] \notin {"copy", "clean"}
      /\ failed[h] => pc'[h] \in Ends
  BY SMT, <1>0, <1>1 DEF Progress, Moves, Ends
<1> QED BY <1>0, <1>1, <1>2, <1>3 DEF Progress

\* Arming the next execution.
LEMMA StartProgress ==
  ASSUME AInv, NEW h \in Hosts, Progress(h), StartExec(h)
  PROVE  Progress(h)'
<1>0. /\ pc \in [Hosts -> HostPC] /\ step \in [Hosts -> Nat \ {0}] /\ blk \in [Hosts -> Blocks]
      /\ req[h] \in Reqs
  BY TypesHold DEF AInv, TypeOK
<1>1. /\ pc[h] = "start" /\ req' = req /\ out' = out /\ failed' = failed /\ throws' = throws
      /\ \/ step[h] = 1 /\ step'[h] = 2 /\ pc'[h] = AfterRun(h, 2)
         \/ step[h] > 1 /\ step'[h] = step[h] /\ pc'[h] = "copy" /\ blk'[h] = "PSUM"
  BY <1>0 DEF StartExec, Goto, bounds
<1>2. /\ Execs(h)' = Execs(h) /\ Outputs(h)' = Outputs(h) /\ Execs(h) \in Nat /\ Execs(h) >= 1
      /\ "PSUM" \in Outputs(h) /\ DOMAIN req[h].rows = 1 .. Execs(h)
  BY <1>0, <1>1, RequestShape DEF Execs, Outputs
<1>3. ~failed[h] /\ step[h] <= Execs(h) + 1 BY <1>1 DEF Progress, Ends
<1>4. Given(h)' = Given(h)
  <2>1. ASSUME NEW i \in 1 .. Execs(h), NEW b PROVE Read(h, i, b)' <=> Read(h, i, b)
    <3>1. CASE step[h] = 1 /\ step'[h] = 2 /\ pc'[h] = AfterRun(h, 2)
      BY SMT, <1>0, <1>1, <1>2, <3>1 DEF Read, AfterRun
    <3>2. CASE step'[h] = step[h] /\ pc'[h] = "copy" /\ blk'[h] = "PSUM"
      BY <1>0, <1>1, <3>2 DEF Read
    <3> QED BY <1>1, <3>1, <3>2
  <2> QED BY <1>1, <1>2, <2>1, GivenSame
<1>5. /\ step'[h] <= Execs(h) + 1
      /\ pc'[h] \notin {"acquire", "resetPoll", "resetExec", "enableThread", "clear"}
      /\ pc'[h] = "generate" => step'[h] <= Execs(h)
      /\ pc'[h] \in {"wait", "copy", "clean", "waitDummy"} => step'[h] > 1
      /\ pc'[h] # "waitDummy" /\ pc'[h] \notin Ends
      /\ pc'[h] \in {"copy", "clean"} => blk'[h] \in Outputs(h)
  BY SMT, <1>0, <1>1, <1>2, <1>3 DEF AfterRun, Ends
<1> QED BY <1>1, <1>2, <1>3, <1>4, <1>5 DEF Progress

\* An exception.
LEMMA ThrowProgress ==
  ASSUME AInv, NEW h \in Hosts, Progress(h), Throw(h)
  PROVE  Progress(h)'
<1>0. /\ pc \in [Hosts -> HostPC] /\ step[h] \in Nat \ {0} /\ failed \in [Hosts -> BOOLEAN]
      /\ throws \in Nat
  BY TypesHold DEF AInv, TypeOK
<1>1. /\ pc[h] = "generate" /\ pc'[h] = "stopThread" /\ failed'[h] = TRUE /\ step' = step
      /\ req' = req /\ blk' = blk /\ out' = out /\ throws' = throws + 1
  BY <1>0 DEF Throw, Goto
<1>2. Execs(h)' = Execs(h) BY <1>1 DEF Execs
<1>3. Given(h)' = Given(h)
  <2>1. \A i, b : Read(h, i, b)' <=> Read(h, i, b) BY <1>1 DEF Read
  <2> QED BY <1>1, <2>1, GivenSame
<1>4. throws' > 0 BY SMT, <1>0, <1>1
<1> QED BY <1>1, <1>2, <1>3, <1>4 DEF Progress, Ends

\* Clearing what was read.
LEMMA CleanProgress ==
  ASSUME AInv, NEW h \in Hosts, Progress(h), CleanRead(h)
  PROVE  Progress(h)'
<1> USE CleanFacts
<1>0. /\ step[h] \in Nat \ {0} /\ blk[h] \in Blocks /\ req[h] \in Reqs
      /\ pc[h] = "clean" /\ req' = req /\ out' = out /\ failed' = failed /\ throws' = throws
  BY TypesHold DEF AInv, TypeOK
<1>1. /\ Execs(h)' = Execs(h) /\ Outputs(h)' = Outputs(h) /\ Execs(h) \in Nat
      /\ "TAGS" \in Outputs(h) \/ Outputs(h) = {"PSUM"}
      /\ DOMAIN req[h].rows = 1 .. Execs(h) /\ Outputs(h) \subseteq {"PSUM", "TAGS"}
  BY <1>0, RequestShape DEF Execs, Outputs, Blocks, Service!Blocks
<1>2. ~failed[h] /\ step[h] <= Execs(h) + 1 /\ blk[h] \in Outputs(h) /\ step[h] > 1
  BY <1>0 DEF Progress, Ends
<1>3. \/ /\ blk[h] = "PSUM" /\ "TAGS" \in Outputs(h) /\ blk'[h] = "TAGS"
         /\ pc'[h] = "copy" /\ step'[h] = step[h]
      \/ /\ \A b \in Outputs(h) : b = "PSUM" \/ blk[h] = "TAGS"
         /\ step[h] <= Execs(h) /\ step'[h] = step[h] + 1 /\ pc'[h] = AfterRun(h, step[h] + 1)
      \/ /\ \A b \in Outputs(h) : b = "PSUM" \/ blk[h] = "TAGS"
         /\ step[h] = Execs(h) + 1 /\ step'[h] = step[h] /\ pc'[h] = "waitDummy"
  BY SMT, <1>0, <1>1, <1>2
<1>4. Given(h)' = Given(h)
  <2>1. ASSUME NEW i \in 1 .. Execs(h), NEW b \in Outputs(h) PROVE Read(h, i, b)' <=> Read(h, i, b)
    BY SMT, <1>0, <1>1, <1>2, <1>3 DEF Read, AfterRun
  <2> QED BY <1>0, <1>1, <2>1, GivenSame
<1>5. /\ step'[h] <= Execs(h) + 1
      /\ pc'[h] \notin {"acquire", "resetPoll", "resetExec", "enableThread", "clear"}
      /\ pc'[h] = "generate" => step'[h] <= Execs(h)
      /\ pc'[h] \in {"wait", "copy", "clean", "waitDummy"} => step'[h] > 1
      /\ pc'[h] = "waitDummy" => step'[h] = Execs(h) + 1
      /\ pc'[h] \notin Ends
      /\ pc'[h] \in {"copy", "clean"} => blk'[h] \in Outputs(h)
  BY SMT, <1>0, <1>1, <1>2, <1>3 DEF AfterRun, Ends
<1> QED BY <1>0, <1>1, <1>2, <1>4, <1>5 DEF Progress

\* Updating one cell of a function of two arguments.
LEMMA CellUpdate ==
  ASSUME NEW D, NEW B, NEW G, G = [j \in D |-> [d \in B |-> G[j][d]]],
         NEW i \in D, NEW b \in B, NEW e
  PROVE  [G EXCEPT ![i][b] = e] = [j \in D |-> [d \in B |-> IF j = i /\ d = b THEN e ELSE G[j][d]]]
<1> DEFINE F == [j \in D |-> [d \in B |-> IF j = i /\ d = b THEN e ELSE G[j][d]]]
<1>1. [G[i] EXCEPT ![b] = e] = F[i]
  <2>1. G[i] = [d \in B |-> G[i][d]] OBVIOUS
  <2>2. F[i] = [d \in B |-> IF d = b THEN e ELSE G[i][d]] OBVIOUS
  <2> HIDE DEF F
  <2> QED BY <2>1, <2>2
<1>2. \A j \in D : j # i => G[j] = F[j]
  <2>1. ASSUME NEW j \in D, j # i PROVE G[j] = F[j]
    <3>1. G[j] = [d \in B |-> G[j][d]] OBVIOUS
    <3>2. F[j] = [d \in B |-> G[j][d]] BY <2>1
    <3> QED BY <3>1, <3>2
  <2> QED BY <2>1
<1>3. F = [j \in D |-> F[j]] OBVIOUS
<1>4. DOMAIN G = D OBVIOUS
<1>5. [G EXCEPT ![i][b] = e] = [j \in D |-> IF j = i THEN [G[i] EXCEPT ![b] = e] ELSE G[j]]
  BY <1>4
<1>6. [G EXCEPT ![i][b] = e] = [j \in D |-> F[j]]
  <2> HIDE DEF F
  <2> QED BY <1>1, <1>2, <1>5
<1> QED BY <1>3, <1>6

\* Reading a block of the previous execution.
LEMMA CopyProgress ==
  ASSUME AInv, NEW h \in Hosts, Progress(h), Data(h), CopyOut(h)
  PROVE  /\ Progress(h)'
         /\ out' = [out EXCEPT ![h][step[h] - 1][blk[h]] = Service!Expected(h, req[h], step[h] - 1)]
<1> DEFINE p == ProcOf[h]  c == cu[h]  i == step[h] - 1  b == blk[h]
           e == Service!Expected(h, req[h], i)
           v == [r \in 1 .. req[h].rows[i] |-> mem[c][b][rd[p][c]][r - 1]]
<1>0. /\ pc \in [Hosts -> HostPC] /\ step[h] \in Nat \ {0} /\ b \in Blocks /\ req[h] \in Reqs
      /\ out = [g \in Hosts |-> out[g]] /\ cu[h] \in Cunits /\ ProcOf[h] \in Procs
      /\ rd[p][c] \in Bufs
  <2>1. TypeOK /\ out = [g \in Hosts |-> out[g]] BY TypesHold DEF AInv
  <2>2. cu[h] \in Cunits /\ ProcOf[h] \in Procs BY <2>1, HostAssumption DEF TypeOK
  <2>3. rd[p][c] \in Bufs BY SMT, <2>1, <2>2 DEF TypeOK
  <2> QED BY <2>1, <2>2, <2>3 DEF TypeOK
<1>1. /\ pc[h] = "copy" /\ pc'[h] = "clean" /\ step' = step /\ req' = req /\ blk' = blk
      /\ failed' = failed /\ throws' = throws
      /\ out' = [out EXCEPT ![h][i][b] = v]
  BY <1>0 DEF CopyOut, Goto, bounds
<1>2. /\ Execs(h)' = Execs(h) /\ Outputs(h)' = Outputs(h) /\ Execs(h) \in Nat
      /\ DOMAIN req[h].rows = 1 .. Execs(h)
      /\ \A j \in 1 .. Execs(h) : req[h].rows[j] \in Nat
  BY <1>0, <1>1, RequestShape DEF Execs, Outputs
<1>3. /\ ~failed[h] /\ step[h] <= Execs(h) + 1 /\ step[h] > 1 /\ b \in Outputs(h)
      /\ out[h] = Given(h) /\ \A j \in 1 .. Execs(h) : req[h].rows[j] <= DummyRow
  BY <1>1 DEF Progress, Ends
<1>4. i \in 1 .. Execs(h) /\ i \in DOMAIN req[h].rows /\ i + 1 = step[h] BY SMT, <1>0, <1>2, <1>3
<1>5. v = e
  <2>1. ASSUME NEW r \in 1 .. req[h].rows[i]
        PROVE  mem[c][b][rd[p][c]][r - 1] = <<Service!TraceId(h, req[h], i)>>
    <3>1. r - 1 \in Low /\ r - 1 < NumRows /\ r - 1 < req[h].rows[i]
      <4>1. req[h].rows[i] \in Nat /\ req[h].rows[i] <= DummyRow BY <1>2, <1>3, <1>4
      <4>2. r - 1 \in Nat /\ r - 1 < req[h].rows[i] /\ r - 1 < DummyRow
        BY SMT, <4>1, LowRows
      <4> QED BY <4>2, LowRows
    <3>2. rd[p][c] # wr[p][c] BY <1>0 DEF AInv, IInv, Buffers
    <3>3. InRead(h, b) = i BY <1>1 DEF InRead
    <3>4. mem[c][b][rd[p][c]][r - 1] = Image(h, b, rd[p][c], r - 1)
      BY <1>0, <3>1 DEF Data
    <3>5. Image(h, b, rd[p][c], r - 1) = SumOf(h, i, b, NumRows, r - 1)
      BY <3>2, <3>3 DEF Image, ReadBuf, WriteBuf
    <3> QED BY <1>3, <1>4, <3>1, <3>4, <3>5 DEF SumOf
  <2> QED BY <2>1 DEF Service!Expected
<1>6. Given(h)' = [Given(h) EXCEPT ![i][b] = e]
  <2>1. ASSUME NEW j \in DOMAIN req[h].rows, NEW d \in Outputs(h)
        PROVE  Read(h, j, d)' <=> (Read(h, j, d) \/ (j = i /\ d = b))
    <3>1. j \in Nat /\ step[h] \in Nat /\ (j + 1 = step[h] <=> j = i)
      BY SMT, <1>0, <1>2
    <3>2. (b = "PSUM" \/ b = "TAGS") /\ (d = "PSUM" \/ d = "TAGS")
      BY <1>0, RequestShape DEF Blocks, Service!Blocks
    <3>3. Read(h, j, d) <=> j + 1 < step[h] \/ (j = i /\ b = "TAGS" /\ d = "PSUM")
      BY <1>1, <3>1 DEF Read
    <3>4. Read(h, j, d)' <=> j + 1 < step[h] \/ (j = i /\ (d = "PSUM" \/ b = "TAGS"))
      BY <1>1, <3>1 DEF Read
    <3> QED BY <3>2, <3>3, <3>4
  <2>2. ASSUME NEW j \in DOMAIN req[h].rows, NEW d \in Blocks
        PROVE  (IF d \in Outputs(h) /\ Read(h, j, d) THEN Service!Expected(h, req[h], j) ELSE <<>>)'
               = IF j = i /\ d = b THEN e ELSE
                 IF d \in Outputs(h) /\ Read(h, j, d) THEN Service!Expected(h, req[h], j) ELSE <<>>
    <3>1. Service!Expected(h, req[h], j)' = Service!Expected(h, req[h], j) BY <1>1
    <3>2. CASE d \in Outputs(h) BY <1>2, <1>3, <2>1, <3>1, <3>2
    <3>3. CASE d \notin Outputs(h) BY <1>2, <1>3, <3>3
    <3> QED BY <3>2, <3>3
  <2>3. Given(h)' = [j \in DOMAIN req[h].rows |-> [d \in Blocks |->
          IF j = i /\ d = b THEN e ELSE
          IF d \in Outputs(h) /\ Read(h, j, d) THEN Service!Expected(h, req[h], j) ELSE <<>>]]
    BY <1>1, <2>2 DEF Given
  <2>4. ASSUME NEW j \in DOMAIN req[h].rows, NEW d \in Blocks
        PROVE  Given(h)[j][d] =
          IF d \in Outputs(h) /\ Read(h, j, d) THEN Service!Expected(h, req[h], j) ELSE <<>>
    BY GivenCell
  <2>5. Given(h) = [j \in DOMAIN req[h].rows |-> [d \in Blocks |-> Given(h)[j][d]]]
    BY GivenCell
  <2>6. Given(h)' = [j \in DOMAIN req[h].rows |-> [d \in Blocks |->
                       IF j = i /\ d = b THEN e ELSE Given(h)[j][d]]]
    <3>1. ASSUME NEW j \in DOMAIN req[h].rows, NEW d \in Blocks
          PROVE  (IF j = i /\ d = b THEN e ELSE
                  IF d \in Outputs(h) /\ Read(h, j, d) THEN Service!Expected(h, req[h], j) ELSE <<>>)
                 = IF j = i /\ d = b THEN e ELSE Given(h)[j][d]
      BY <2>4
    <3> HIDE DEF i, b, e
    <3> QED BY <2>3, <3>1
  <2> DEFINE D == DOMAIN req[h].rows  G == Given(h)
  <2>7. G = [j \in D |-> [d \in Blocks |-> G[j][d]]] /\ i \in D /\ b \in Blocks
    BY <1>0, <1>4, <2>5
  <2>8. [G EXCEPT ![i][b] = e]
        = [j \in D |-> [d \in Blocks |-> IF j = i /\ d = b THEN e ELSE G[j][d]]]
    <3> HIDE DEF D, G, i, b, e
    <3> QED BY <2>7, CellUpdate
  <2> HIDE DEF i, b, e
  <2> QED BY <2>6, <2>8
<1>7. out' = [out EXCEPT ![h][i][b] = e] /\ out'[h] = [out[h] EXCEPT ![i][b] = e]
  <2>1. out' = [out EXCEPT ![h][i][b] = e] BY <1>1, <1>5
  <2> HIDE DEF i, b, e
  <2> QED BY <1>0, <2>1
<1>8. out'[h] = Given(h)' BY <1>3, <1>6, <1>7
<1> HIDE DEF v, e
<1>9. Progress(h)' BY <1>1, <1>2, <1>3, <1>8 DEF Progress, Ends
<1> QED BY <1>7, <1>9 DEF e

-----------------------------------------------------------------------------
(* Sums: the contents of the unit.                                         *)

\* The contents, row by row.
LEMMA DataByRow ==
  ASSUME NEW h \in Hosts,
         \A b \in Blocks, k \in Bufs, r \in Low : (mem[cu[h]][b][k][r] = Image(h, b, k, r))'
  PROVE  Data(h)'
BY DEF Data, Blocks, Service!Blocks, Bufs, Low

\* Moving on between two accesses to the memory.
LEMMA StillData ==
  ASSUME NEW h \in Hosts, Data(h), mem' = mem, cu' = cu, req' = req, rd' = rd, wr' = wr,
         exec_sls' = exec_sls, wrow' = wrow,
         Worker(h)' = Worker(h) \/ (Worker(h) = "done" /\ Worker(h)' = "off"),
         InWrite(h)' = InWrite(h), \A b : InRead(h, b)' = InRead(h, b)
  PROVE  Data(h)'
<1>1. ReadBuf(h)' = ReadBuf(h) /\ WriteBuf(h)' = WriteBuf(h) BY DEF ReadBuf, WriteBuf
<1>2. Written(h)' = Written(h) BY DEF Written
<1>3. \A b, k, r : Image(h, b, k, r)' = Image(h, b, k, r) BY <1>1, <1>2, ImageFrame
<1> QED BY <1>3, DataFrame

\* Arming the unit: the new WRITE buffer is empty, and stays so for now.
LEMMA StartData ==
  ASSUME AInv, NEW h \in Hosts, Progress(h), Data(h), StartExec(h)
  PROVE  Data(h)'
<1>0. /\ pc \in [Hosts -> HostPC] /\ step \in [Hosts -> Nat \ {0}] /\ blk \in [Hosts -> Blocks]
      /\ cu[h] \in Cunits /\ step[h] \in Nat \ {0}
      /\ exec_sls \in [Cunits -> {"ENABLE", "DISABLE"}] /\ HandshakeOf(h)
  BY TypesHold DEF AInv, TypeOK, IInv, Handshake
<1>1. /\ pc[h] = "start" /\ exec_sls'[cu[h]] = "ENABLE" /\ mem' = mem /\ cu' = cu /\ req' = req
      /\ rd' = rd /\ wr' = wr /\ wpc' = wpc
      /\ \/ step[h] = 1 /\ step'[h] = 2 /\ pc'[h] = AfterRun(h, 2)
         \/ step[h] > 1 /\ step'[h] = step[h] /\ pc'[h] = "copy" /\ blk'[h] = "PSUM"
  BY <1>0 DEF StartExec, Goto, simVars, thrVars
<1>2. /\ Worker(h)' \in {"queued", "loop", "load"} /\ ReadBuf(h)' = ReadBuf(h)
      /\ WriteBuf(h)' = WriteBuf(h)
  BY <1>0, <1>1 DEF HandshakeOf, Quiet, Worker, ReadBuf, WriteBuf
<1>3. Written(h)' = 0
  <2>1. (exec_sls[cu[h]])' = "ENABLE" BY <1>1
  <2> QED BY <1>2, <2>1 DEF Written
<1>4. InWrite(h) = 0 /\ \A b : InRead(h, b) = step[h] - 1 BY <1>1 DEF InWrite, InRead
<1>5. \A b : InRead(h, b)' = step[h] - 1
  <2>1. CASE step[h] = 1 /\ step'[h] = 2 /\ pc'[h] = AfterRun(h, 2)
    BY SMT, <2>1 DEF InRead, AfterRun
  <2>2. CASE step'[h] = step[h] /\ pc'[h] = "copy" /\ blk'[h] = "PSUM"
    BY <2>2 DEF InRead
  <2> QED BY <1>1, <2>1, <2>2
<1> SUFFICES ASSUME NEW b \in Blocks, NEW k \in Bufs, NEW r \in Low
             PROVE  (mem[cu[h]][b][k][r] = Image(h, b, k, r))'
  BY DataByRow
<1>6. mem'[cu'[h]][b][k][r] = Image(h, b, k, r) BY <1>1 DEF Data
<1>7. SumOf(h, InWrite(h), b, Written(h), r) = <<>>
  <2>1. 0 \notin 1 .. Execs(h) BY SMT
  <2> QED BY <1>4, <2>1 DEF SumOf
<1>8. SumOf(h, InWrite(h), b, Written(h), r)' = <<>>
  <2>1. ~(r < 0) BY SMT, LowRows
  <2> QED BY <1>3, <2>1 DEF SumOf
<1>9. SumOf(h, InRead(h, b), b, NumRows, r)' = SumOf(h, InRead(h, b), b, NumRows, r)
  BY <1>1, <1>4, <1>5 DEF SumOf, Execs, Outputs
<1>10. Image(h, b, k, r)' = Image(h, b, k, r) BY <1>2, <1>7, <1>8, <1>9 DEF Image
<1> QED BY <1>6, <1>10

\* The dummy is done, and its sum is in no low row.
LEMMA DummyData ==
  ASSUME AInv, NEW h \in Hosts, Progress(h), Data(h), WaitDummy(h)
  PROVE  Data(h)'
<1>0. pc \in [Hosts -> HostPC] /\ req[h] \in Reqs
  BY TypesHold DEF AInv, TypeOK
<1>1. /\ pc[h] = "waitDummy" /\ pc'[h] = "stopThread" /\ mem' = mem /\ cu' = cu /\ req' = req
      /\ rd' = rd /\ wr' = wr /\ failed' = failed
  BY <1>0 DEF WaitDummy, Goto, simVars, hostData
<1>2. ReadBuf(h)' = ReadBuf(h) /\ WriteBuf(h)' = WriteBuf(h)
  BY <1>1 DEF ReadBuf, WriteBuf
<1>3. ~failed[h] /\ step[h] = Execs(h) + 1 /\ Execs(h) \in Nat
  BY <1>0, <1>1, RequestShape DEF Progress, Ends
<1>4. InWrite(h) = Execs(h) + 1 /\ \A b : InRead(h, b) = 0 BY <1>1, <1>3 DEF InWrite, InRead
<1>5. InWrite(h)' = 0 /\ \A b : InRead(h, b)' = 0 BY <1>1, <1>3 DEF InWrite, InRead
<1> SUFFICES ASSUME NEW b \in Blocks, NEW k \in Bufs, NEW r \in Low
             PROVE  (mem[cu[h]][b][k][r] = Image(h, b, k, r))'
  BY DataByRow
<1>6. mem'[cu'[h]][b][k][r] = Image(h, b, k, r) BY <1>1 DEF Data
<1>7. 0 \notin 1 .. Execs(h) /\ Execs(h) + 1 \notin 1 .. Execs(h) /\ Execs(h)' = Execs(h)
  BY SMT, <1>1, <1>3 DEF Execs
<1>8. Image(h, b, k, r) = <<>> BY <1>4, <1>7 DEF Image, SumOf
<1>9. Image(h, b, k, r)' = <<>> BY <1>5, <1>7 DEF Image, SumOf
<1> QED BY <1>6, <1>8, <1>9

\* Shifting the indices: the buffer that was written becomes the one to read.
LEMMA ShiftData ==
  ASSUME AInv, NEW h \in Hosts, Progress(h), Data(h), ShiftBuffers(h)
  PROVE  Data(h)'
<1> DEFINE p == ProcOf[h]  c == cu[h]
<1>0. /\ pc \in [Hosts -> HostPC] /\ cu[h] \in Cunits /\ ProcOf[h] \in Procs
      /\ rd \in [Procs -> [Cunits -> Bufs]] /\ wr \in [Procs -> [Cunits -> Bufs]]
      /\ wr[p][c] = Shift(rd[p][c]) /\ rd[p][c] # wr[p][c] /\ HandshakeOf(h)
  BY HostAssumption DEF AInv, IInv, CtlType, Handshake, Buffers
<1>1. /\ pc[h] = "shift" /\ pc'[h] = "armPoll" /\ mem' = mem /\ cu' = cu /\ req' = req
      /\ rd' = [rd EXCEPT ![p][c] = Shift(rd[p][c])]
      /\ wr' = [wr EXCEPT ![p][c] = Shift(wr[p][c])] /\ step' = step
  BY <1>0 DEF ShiftBuffers, Goto, hostData
<1>2. ReadBuf(h)' = WriteBuf(h) /\ WriteBuf(h)' = Shift(WriteBuf(h))
  <2>1. rd'[p][c] = wr[p][c] /\ wr'[p][c] = Shift(wr[p][c]) BY <1>0, <1>1
  <2> QED BY <1>1, <2>1 DEF ReadBuf, WriteBuf
<1>3. WriteBuf(h)' # WriteBuf(h)
  <2>1. rd[p][c] \in Bufs /\ wr[p][c] \in Bufs BY <1>0
  <2>2. Shift(rd[p][c]) # Shift(wr[p][c]) BY <1>0, <2>1, ShiftFacts
  <2> QED BY <1>0, <1>2, <2>2 DEF WriteBuf
<1>4. InWrite(h) = step[h] - 1 /\ \A b : InRead(h, b) = 0 BY <1>1 DEF InWrite, InRead
<1>5. InWrite(h)' = 0 /\ \A b : InRead(h, b)' = step[h] - 1 BY <1>1 DEF InWrite, InRead
<1>6. Written(h) = NumRows
  <2>1. exec_sls[c] = "DISABLE" /\ Worker(h) \in {"queued", "loop", "load"}
    BY <1>0, <1>1 DEF HandshakeOf, Quiet, Worker
  <2> QED BY <2>1 DEF Written
<1> SUFFICES ASSUME NEW b \in Blocks, NEW k \in Bufs, NEW r \in Low
             PROVE  (mem[cu[h]][b][k][r] = Image(h, b, k, r))'
  BY DataByRow
<1>7. mem'[cu'[h]][b][k][r] = Image(h, b, k, r) BY <1>1 DEF Data
<1>8. 0 \notin 1 .. Execs(h) /\ Execs(h)' = Execs(h) BY SMT, <1>1 DEF Execs
<1>9. /\ SumOf(h, InRead(h, b), b, NumRows, r) = <<>>
      /\ SumOf(h, InWrite(h), b, Written(h), r)' = <<>>
  BY <1>4, <1>5, <1>8 DEF SumOf
<1>10. SumOf(h, InRead(h, b), b, NumRows, r)' = SumOf(h, InWrite(h), b, Written(h), r)
  BY <1>1, <1>4, <1>5, <1>6 DEF SumOf, Execs, Outputs
<1>11. Image(h, b, k, r)' = Image(h, b, k, r)
  <2>1. CASE k = WriteBuf(h) BY <1>2, <1>3, <1>10, <2>1 DEF Image
  <2>2. CASE k # WriteBuf(h)
    <3>1. Image(h, b, k, r) = <<>> BY <1>9, <2>2 DEF Image
    <3>2. Image(h, b, k, r)' = <<>> BY <1>2, <1>9, <2>2 DEF Image
    <3> QED BY <3>1, <3>2
  <2> QED BY <2>1, <2>2
<1> QED BY <1>7, <1>11

\* The steps of a host that leave the memory alone keep the contents.
LEMMA KeptData ==
  ASSUME AInv, NEW h \in Hosts, Progress(h), Used(h) => Data(h), Used(h)',
         Throw(h) \/ (HostStep(h) /\ ~Release(h)), ~ClearBuffers(h), ~CleanRead(h)
  PROVE  Data(h)'
<1> USE HostAssumption DEF Goto, regVars, simVars, thrVars, hostData
<1>0. /\ pc \in [Hosts -> HostPC] /\ failed \in [Hosts -> BOOLEAN]
      /\ wpc \in [Procs -> [Cunits -> WorkerPC]] /\ ProcOf[h] \in Procs /\ cu[h] \in Cunits
  BY TypesHold DEF AInv, TypeOK
<1>1. CASE ResetPoll(h) \/ ResetExec(h) \/ EnableThread(h)
  <2>1. pc'[h] \in {"resetExec", "enableThread", "clear"}
    BY <1>0, <1>1 DEF ResetPoll, ResetExec, EnableThread
  <2> QED BY <2>1 DEF Used, Fresh
<1>2. CASE \/ Generate(h) \/ Wait(h) \/ WriteInst(h) \/ ArmPoll(h) \/ CopyOut(h)
           \/ StopThread(h) \/ Throw(h)
  <2>1. /\ mem' = mem /\ cu' = cu /\ req' = req /\ rd' = rd /\ wr' = wr /\ exec_sls' = exec_sls
        /\ wrow' = wrow /\ wpc' = wpc /\ step' = step /\ blk' = blk
    BY <1>2 DEF Generate, Wait, WriteInst, ArmPoll, CopyOut, StopThread, Throw
  <2>2. \/ pc[h] = "generate" /\ pc'[h] \in {"write", "wait"} /\ failed' = failed
        \/ pc[h] = "wait" /\ pc'[h] = "write" /\ failed' = failed
        \/ pc[h] = "write" /\ pc'[h] = "shift" /\ failed' = failed
        \/ pc[h] = "armPoll" /\ pc'[h] = "start" /\ failed' = failed
        \/ pc[h] = "copy" /\ pc'[h] = "clean" /\ failed' = failed
        \/ pc[h] = "stopThread" /\ pc'[h] = "join" /\ failed' = failed
        \/ pc[h] = "generate" /\ pc'[h] = "stopThread" /\ failed'[h]
    BY <1>0, <1>2 DEF Generate, Wait, WriteInst, ArmPoll, CopyOut, StopThread, Throw
  <2>3. InWrite(h)' = InWrite(h) BY <2>1, <2>2 DEF InWrite
  <2>4. \A b : InRead(h, b)' = InRead(h, b) BY <2>1, <2>2 DEF InRead
  <2>5. Used(h) BY <2>2 DEF Used, Holding, Fresh
  <2>6. Worker(h)' = Worker(h) BY <2>1 DEF Worker
  <2> QED BY <2>1, <2>3, <2>4, <2>5, <2>6, StillData
<1>3. CASE JoinThread(h)
  <2>1. /\ mem' = mem /\ cu' = cu /\ req' = req /\ rd' = rd /\ wr' = wr /\ exec_sls' = exec_sls
        /\ wrow' = wrow /\ step' = step /\ blk' = blk /\ failed' = failed
        /\ pc[h] = "join" /\ pc'[h] = "release" /\ wpc[ProcOf[h]][cu[h]] = "done"
        /\ wpc'[ProcOf[h]][cu[h]] = "off"
    BY <1>0, <1>3 DEF JoinThread
  <2>2. Worker(h) = "done" /\ Worker(h)' = "off" BY <2>1 DEF Worker
  <2>3. InWrite(h)' = InWrite(h) /\ \A b : InRead(h, b)' = InRead(h, b)
    BY <2>1 DEF InWrite, InRead
  <2>4. Used(h) BY <2>1 DEF Used, Holding, Fresh
  <2> QED BY <2>1, <2>2, <2>3, <2>4, StillData
<1>4. CASE StartExec(h) \/ WaitDummy(h) \/ ShiftBuffers(h)
  <2>1. Used(h) BY <1>4 DEF Used, Holding, Fresh, StartExec, WaitDummy, ShiftBuffers
  <2> QED BY <1>4, <2>1, StartData, DummyData, ShiftData
<1> QED BY <1>1, <1>2, <1>3, <1>4 DEF HostStep

\* They keep the covering too.
LEMMA KeptCover ==
  ASSUME AInv, NEW h \in Hosts, Throw(h) \/ (HostStep(h) /\ ~Release(h)),
         ~ClearBuffers(h), ~CleanRead(h), NEW p, NEW c,
         Fresh(h) \/ ProcOf[h] = p => Covered(p, c), Fresh(h)' \/ ProcOf[h] = p
  PROVE  Covered(p, c)'
<1>0. pc \in [Hosts -> HostPC] BY TypesHold DEF AInv, TypeOK
<1>1. mem' = mem /\ dirty' = dirty
  BY DEF HostStep, Throw, ResetPoll, ResetExec, EnableThread, Generate, Wait, WriteInst,
               ShiftBuffers, ArmPoll, StartExec, CopyOut, WaitDummy, StopThread, JoinThread, simVars
<1>2. Fresh(h)' => Fresh(h)
  <2>1. CASE Throw(h) BY <1>0, <2>1 DEF Throw, Goto, Fresh
  <2>2. CASE StartExec(h) BY <1>0, <2>2 DEF StartExec, AfterRun, Goto, Fresh
  <2>3. CASE CopyOut(h) BY <1>0, <2>3 DEF CopyOut, Goto, Fresh
  <2>4. CASE ~Throw(h) /\ ~StartExec(h) /\ ~CopyOut(h)
    <3>1. Moves(h) BY <2>4, HostMoves
    <3> QED BY <3>1 DEF Moves, Fresh
  <2> QED BY <2>1, <2>2, <2>3, <2>4
<1> QED BY <1>1, <1>2, CoverFrame

\* The types of one buffer and of its dirty range.
LEMMA CellTypes ==
  ASSUME DInv, NEW p \in Procs, NEW c \in Cunits, NEW b \in Blocks, NEW k \in Bufs
  PROVE  dirty[p][c][b][k] \in Ranges /\ mem[c][b][k] \in [RowIdx -> Seq(Ids)]
<1>1. mem[c] \in UnitMem /\ dirty[p][c] \in UnitDirty BY DEF DInv, DataType
<1>2. mem[c][b] \in [Bufs -> [RowIdx -> Seq(Ids)]] BY <1>1 DEF UnitMem
<1>3. dirty[p][c][b] \in [Bufs -> Ranges] BY <1>1 DEF UnitDirty
<1> QED BY <1>2, <1>3

\* Clearing the unit on acquisition: whatever is in it goes.
LEMMA ClearData ==
  ASSUME AInv, NEW h \in Hosts, ClearBuffers(h), NEW c \in Cunits, c = cu[h],
         Covered(ProcOf[h], c)
  PROVE  Data(h)' /\ \A p \in Procs : Covered(p, c)'
<1> DEFINE q == ProcOf[h]
<1>0. /\ pc \in [Hosts -> HostPC] /\ q \in Procs /\ HandshakeOf(h)
      /\ mem \in [Cunits -> UnitMem] /\ dirty \in [Procs -> [Cunits -> UnitDirty]]
  BY HostAssumption DEF AInv, IInv, CtlType, Handshake, DInv, DataType
<1>1. /\ pc[h] = "clear" /\ pc'[h] = "generate" /\ step' = step /\ cu' = cu
      /\ mem' = [mem EXCEPT ![c] =
           [b \in Blocks |-> [k \in Bufs |-> Cleared(dirty[q][c][b][k], mem[c][b][k])]]]
  BY <1>0 DEF ClearBuffers, Goto, hostData
<1>2. ASSUME NEW b \in Blocks, NEW k \in Bufs, NEW r \in Low PROVE mem'[c][b][k][r] = <<>>
  <2>1. dirty[q][c][b][k] \in Ranges /\ mem[c][b][k] \in [RowIdx -> Seq(Ids)]
    BY <1>0, CellTypes DEF AInv
  <2>2. \A x \in Low : mem[c][b][k][x] # <<>> =>
          dirty[q][c][b][k].min = 0 /\ x < dirty[q][c][b][k].max
    BY DEF Covered, Covers
  <2>3. Cleared(dirty[q][c][b][k], mem[c][b][k])[r] = <<>> BY <2>1, <2>2, ClearedZero
  <2>4. mem'[c][b][k] = Cleared(dirty[q][c][b][k], mem[c][b][k]) BY <1>0, <1>1
  <2> QED BY <2>3, <2>4
<1>a. \A b \in Blocks, k \in Bufs, r \in Low : mem'[c][b][k][r] = <<>> BY <1>2
<1>3. ASSUME NEW p \in Procs PROVE Covered(p, c)' BY <1>a DEF Covered, Covers
<1>4. step[h] = 1 BY <1>0, <1>1 DEF HandshakeOf
<1>5. InWrite(h)' = 0 BY SMT, <1>1, <1>4 DEF InWrite
<1>6. \A b : InRead(h, b)' = 0 BY <1>1 DEF InRead
<1>7. ASSUME NEW b \in Blocks, NEW k \in Bufs, NEW r \in Low
      PROVE  (mem[cu[h]][b][k][r] = Image(h, b, k, r))'
  <2>1. 0 \notin (1 .. Execs(h))' BY SMT
  <2>2. Image(h, b, k, r)' = <<>> BY <1>5, <1>6, <2>1 DEF Image, SumOf
  <2> QED BY <1>1, <1>2, <2>2
<1> QED BY <1>3, <1>7, DataByRow

\* Clearing the block that was read: that block of the READ buffer goes, and
\* nothing else is touched.
LEMMA CleanMemory ==
  ASSUME AInv, NEW h \in Hosts, CleanRead(h), NEW c \in Cunits, c = cu[h], Covered(ProcOf[h], c),
         NEW b \in Blocks, NEW k \in Bufs
  PROVE  /\ b = blk[h] /\ k = ReadBuf(h) => \A r \in Low : mem'[c][b][k][r] = <<>>
         /\ ~(b = blk[h] /\ k = ReadBuf(h)) =>
              mem'[c][b][k] = mem[c][b][k] /\ dirty'[ProcOf[h]][c][b][k] = dirty[ProcOf[h]][c][b][k]
<1> DEFINE q == ProcOf[h]  b0 == blk[h]  k0 == rd[q][c]
<1>a. /\ q \in Procs /\ b0 \in Blocks /\ rd \in [Procs -> [Cunits -> Bufs]]
      /\ mem \in [Cunits -> UnitMem] /\ dirty \in [Procs -> [Cunits -> UnitDirty]]
  BY HostAssumption DEF AInv, IInv, CtlType, DInv, DataType
<1>b. k0 \in Bufs BY <1>a
<1>0. /\ q \in Procs /\ b0 \in Blocks /\ k0 \in Bufs
      /\ mem \in [Cunits -> UnitMem] /\ dirty \in [Procs -> [Cunits -> UnitDirty]]
  BY <1>a, <1>b
<1>1. /\ mem' = [mem EXCEPT ![c][b0][k0] = Cleared(dirty[q][c][b0][k0], mem[c][b0][k0])]
      /\ dirty' = [dirty EXCEPT ![q][c][b0][k0] = ClearedRange(dirty[q][c][b0][k0])]
  BY DEF CleanRead
<1>2. ReadBuf(h) = k0 BY DEF ReadBuf
<1>3. CASE b = b0 /\ k = k0
  <2>1. dirty[q][c][b][k] \in Ranges /\ mem[c][b][k] \in [RowIdx -> Seq(Ids)]
    BY <1>0, CellTypes DEF AInv
  <2>2. \A x \in Low : mem[c][b][k][x] # <<>> =>
          dirty[q][c][b][k].min = 0 /\ x < dirty[q][c][b][k].max
    BY DEF Covered, Covers
  <2>3. \A r \in Low : Cleared(dirty[q][c][b][k], mem[c][b][k])[r] = <<>>
    BY <2>1, <2>2, ClearedZero
  <2>4. mem'[c][b][k] = Cleared(dirty[q][c][b][k], mem[c][b][k])
    <3> HIDE DEF b0, k0, q
    <3> QED BY SMT, <1>0, <1>1, <1>3 DEF UnitMem
  <2> QED BY <1>2, <1>3, <2>3, <2>4
<1>4. CASE ~(b = b0 /\ k = k0)
  <2>1. mem'[c][b][k] = mem[c][b][k]
    <3> HIDE DEF b0, k0, q
    <3> QED BY SMT, <1>0, <1>1, <1>4 DEF UnitMem
  <2>2. dirty'[q][c][b][k] = dirty[q][c][b][k]
    <3> HIDE DEF b0, k0, q
    <3> QED BY SMT, <1>0, <1>1, <1>4 DEF UnitDirty
  <2> QED BY <1>2, <1>4, <2>1, <2>2
<1> QED BY <1>3, <1>4

\* So the contents are as they should be after it, and covered.
LEMMA CleanData ==
  ASSUME AInv, NEW h \in Hosts, Progress(h), Data(h), CleanRead(h),
         NEW c \in Cunits, c = cu[h], Covered(ProcOf[h], c)
  PROVE  Data(h)'
<1>0. /\ ReadBuf(h) # WriteBuf(h) /\ blk[h] \in Blocks /\ req[h] \in Reqs
      /\ step[h] \in Nat \ {0}
  BY HostAssumption, TypesHold DEF AInv, TypeOK, IInv, CtlType, Buffers, ReadBuf, WriteBuf
<1>1. /\ pc[h] = "clean" /\ exec_sls' = exec_sls /\ wpc' = wpc /\ wrow' = wrow
      /\ rd' = rd /\ wr' = wr /\ cu' = cu /\ req' = req
  BY CleanFacts
<1>2. /\ ReadBuf(h)' = ReadBuf(h) /\ WriteBuf(h)' = WriteBuf(h)
      /\ Execs(h)' = Execs(h) /\ Outputs(h)' = Outputs(h)
  BY <1>1 DEF ReadBuf, WriteBuf, Execs, Outputs
<1>3. Worker(h)' = Worker(h) BY <1>1 DEF Worker
<1>4. Written(h)' = Written(h) BY <1>1, <1>3 DEF Written
<1>5. InWrite(h) = step[h] BY <1>1 DEF InWrite
<1>6. \/ /\ pc'[h] = "copy" /\ step'[h] = step[h] /\ blk[h] = "PSUM" /\ blk'[h] = "TAGS"
      \/ /\ blk[h] = "TAGS" \/ "TAGS" \notin Outputs(h)
         /\ \/ pc'[h] \in {"generate", "wait"} /\ step'[h] = step[h] + 1
            \/ pc'[h] = "waitDummy" /\ step'[h] = step[h]
  BY CleanFacts DEF AfterRun
<1>7. InWrite(h)' = step[h] BY SMT, <1>0, <1>6 DEF InWrite
<1>8. blk[h] \in Outputs(h) /\ ("TAGS" \in Outputs(h) \/ Outputs(h) = {"PSUM"})
  BY <1>0, <1>1, RequestShape DEF Progress
<1>9. 0 \notin 1 .. Execs(h) BY SMT
<1> SUFFICES ASSUME NEW b \in Blocks, NEW k \in Bufs, NEW r \in Low
             PROVE  (mem[cu[h]][b][k][r] = Image(h, b, k, r))'
  BY DataByRow
<1>10. /\ b = blk[h] /\ k = ReadBuf(h) => mem'[c][b][k][r] = <<>>
       /\ ~(b = blk[h] /\ k = ReadBuf(h)) => mem'[c][b][k][r] = mem[c][b][k][r]
  BY ZenonT(30), CleanMemory
<1>11. mem[c][b][k][r] = Image(h, b, k, r) BY DEF Data
<1>12. CASE k = WriteBuf(h)
  <2>1. SumOf(h, InWrite(h), b, Written(h), r)' = SumOf(h, InWrite(h), b, Written(h), r)
    BY <1>1, <1>2, <1>4, <1>5, <1>7 DEF SumOf
  <2>2. Image(h, b, k, r)' = Image(h, b, k, r) BY <1>2, <1>12, <2>1 DEF Image
  <2> QED BY <1>0, <1>1, <1>10, <1>11, <1>12, <2>2
<1>13. CASE k # WriteBuf(h) /\ k # ReadBuf(h)
  <2>1. Image(h, b, k, r) = <<>> /\ Image(h, b, k, r)' = <<>> BY <1>2, <1>13 DEF Image
  <2> QED BY <1>1, <1>10, <1>11, <1>13, <2>1
<1>14. CASE k = ReadBuf(h)
  <2>0. /\ Image(h, b, k, r) = SumOf(h, InRead(h, b), b, NumRows, r)
        /\ Image(h, b, k, r)' = SumOf(h, InRead(h, b), b, NumRows, r)'
    BY <1>0, <1>2, <1>14 DEF Image
  <2>1. CASE b = blk[h]
    <3>1. InRead(h, b)' = 0 BY <1>6, <2>1 DEF InRead
    <3>2. SumOf(h, InRead(h, b), b, NumRows, r)' = <<>> BY <1>2, <1>9, <3>1 DEF SumOf
    <3> QED BY <1>1, <1>10, <1>14, <2>0, <2>1, <3>2
  <2>2. CASE b # blk[h] /\ pc'[h] = "copy"
    <3>1. InRead(h, b)' = InRead(h, b) BY <1>1, <1>6, <2>2 DEF InRead
    <3>2. SumOf(h, InRead(h, b), b, NumRows, r)' = SumOf(h, InRead(h, b), b, NumRows, r)
      BY <1>1, <1>2, <3>1 DEF SumOf
    <3> QED BY <1>1, <1>10, <1>11, <2>0, <2>2, <3>2
  <2>3. CASE b # blk[h] /\ pc'[h] # "copy"
    <3>1. InRead(h, b)' = 0 BY <1>6, <2>3 DEF InRead
    <3>2. SumOf(h, InRead(h, b), b, NumRows, r)' = <<>> BY <1>2, <1>9, <3>1 DEF SumOf
    <3>3. b \notin Outputs(h) \/ (b = "PSUM" /\ blk[h] = "TAGS")
      BY <1>0, <1>6, <1>8, <2>3 DEF Blocks, Service!Blocks
    <3>4. b \notin Outputs(h) \/ InRead(h, b) = 0 BY <1>1, <3>3 DEF InRead
    <3>5. SumOf(h, InRead(h, b), b, NumRows, r) = <<>> BY <1>9, <3>4 DEF SumOf
    <3> QED BY <1>1, <1>10, <1>11, <2>0, <2>3, <3>2, <3>5
  <2> QED BY <2>1, <2>2, <2>3
<1> QED BY <1>12, <1>13, <1>14

\* Clearing a block that was read keeps the covering.
LEMMA CleanCover ==
  ASSUME AInv, NEW h \in Hosts, CleanRead(h), NEW c \in Cunits, c = cu[h], Covered(ProcOf[h], c)
  PROVE  Covered(ProcOf[h], c)'
<1> SUFFICES ASSUME NEW b \in Blocks, NEW k \in Bufs, NEW r \in Low, mem'[c][b][k][r] # <<>>
             PROVE  dirty'[ProcOf[h]][c][b][k].min = 0 /\ r < dirty'[ProcOf[h]][c][b][k].max
  BY DEF Covered, Covers
<1>1. mem'[c][b][k] = mem[c][b][k] /\ dirty'[ProcOf[h]][c][b][k] = dirty[ProcOf[h]][c][b][k]
  BY ZenonT(30), CleanMemory
<1> QED BY <1>1 DEF Covered, Covers

\* All steps of a host between acquisition and release keep what RInv says of it
\* and of its unit.
LEMMA HostResults ==
  ASSUME AInv, RInv, NEW h \in Hosts, Throw(h) \/ (HostStep(h) /\ ~Release(h))
  PROVE  RInv'
<1> USE HostAssumption
<1>0. Holding(h) /\ LocalData(h) BY StepHolds, HostLocal
<1>a. pc \in [Hosts -> HostPC] /\ cu[h] \in Cunits /\ ProcOf[h] \in Procs /\ h # NoHost
  BY DEF AInv, IInv, CtlType
<1>b. owner[cu[h]] = h BY <1>0 DEF AInv, IInv, Ownership
<1>1. /\ pc \in [Hosts -> HostPC] /\ cu[h] \in Cunits /\ ProcOf[h] \in Procs
      /\ owner[cu[h]] = h /\ h # NoHost
  BY <1>a, <1>b
<1>2. Progress(h) /\ (Used(h) => Data(h)) BY <1>0 DEF RInv, Holding
<1>3. PICK cx \in Cunits : cx = cu[h] BY <1>1
<1>4. ASSUME NEW p \in Procs, Fresh(h) \/ ProcOf[h] = p PROVE Covered(p, cx)
  BY <1>1, <1>3, <1>4 DEF RInv
<1>5. Covered(ProcOf[h], cx) BY <1>1, <1>4
<1>6. Holding(h)' /\ Progress(h)' /\ (throws' = throws \/ throws' = throws + 1)
  <2>1. CASE Throw(h)
    <3>1. throws' = throws + 1 /\ Holding(h)' BY <1>1, <2>1 DEF Throw, Goto, Holding
    <3> QED BY <1>2, <2>1, <3>1, ThrowProgress
  <2>2. CASE StartExec(h)
    <3>1. throws' = throws /\ Holding(h)'
      BY <1>1, <2>2 DEF StartExec, AfterRun, Goto, Holding, bounds
    <3> QED BY <1>2, <2>2, <3>1, StartProgress
  <2>3. CASE CopyOut(h)
    <3>0. Data(h) BY <1>2, <2>3 DEF CopyOut, Used, Holding, Fresh
    <3>1. throws' = throws /\ Holding(h)' BY <1>1, <2>3 DEF CopyOut, Goto, Holding, bounds
    <3> QED BY <1>2, <2>3, <3>0, <3>1, CopyProgress
  <2>4. CASE CleanRead(h)
    <3>1. throws' = throws /\ Holding(h)' BY <2>4, CleanFacts DEF AfterRun, Holding
    <3> QED BY <1>2, <2>4, <3>1, CleanProgress
  <2>5. CASE ~Throw(h) /\ ~StartExec(h) /\ ~CopyOut(h) /\ ~CleanRead(h)
    <3>1. Moves(h) BY <2>5, HostMoves
    <3>2. throws' = throws /\ Holding(h)' BY <3>1 DEF Moves, Holding
    <3> QED BY <1>2, <3>1, <3>2, MoveProgress
  <2> QED BY <2>1, <2>2, <2>3, <2>4, <2>5
<1>7. CASE ClearBuffers(h)
  <2>1. Data(h)' /\ \A p \in Procs : Covered(p, cx)' BY <1>3, <1>5, <1>7, ClearData
  <2> QED BY <1>0, <1>3, <1>6, <2>1, ResultsLocal
<1>8. CASE CleanRead(h)
  <2>1. Data(h) /\ ~Fresh(h)'
    BY <1>2, <1>8, CleanFacts DEF Used, Holding, Fresh, AfterRun
  <2>2. Data(h)' BY <1>2, <1>3, <1>5, <1>8, <2>1, CleanData
  <2>3. Covered(ProcOf[h], cx)' BY <1>3, <1>5, <1>8, CleanCover
  <2>4. \A p \in Procs : Fresh(h)' \/ ProcOf[h] = p => Covered(p, cx)' BY <2>1, <2>3
  <2> QED BY <1>0, <1>3, <1>6, <2>2, <2>4, ResultsLocal
<1>9. CASE ~ClearBuffers(h) /\ ~CleanRead(h)
  <2>1. Used(h)' => Data(h)' BY <1>2, <1>9, KeptData
  <2>2. ASSUME NEW p \in Procs, Fresh(h)' \/ ProcOf[h] = p PROVE Covered(p, cx)'
    BY <1>4, <1>9, <2>2, KeptCover
  <2> QED BY <1>0, <1>3, <1>6, <2>1, <2>2, ResultsLocal
<1> QED BY <1>7, <1>8, <1>9

-----------------------------------------------------------------------------
(* Sums: the worker.                                                       *)

\* Between the rows of a trace the worker leaves the contents as they are.
LEMMA SpinData ==
  ASSUME AInv, NEW h \in Hosts, ThreadOn(h), Data(h), WorkerStep(ProcOf[h], cu[h]),
         ~WorkerExec(ProcOf[h], cu[h])
  PROVE  Data(h)'
<1> USE HostAssumption DEF WGoto, regVars, simVars, hostData
<1> DEFINE p == ProcOf[h]  c == cu[h]
<1>0. /\ wpc \in [Procs -> [Cunits -> WorkerPC]] /\ p \in Procs /\ c \in Cunits
      /\ exec_sls \in [Cunits -> {"ENABLE", "DISABLE"}]
      /\ wrow \in [Procs -> [Cunits -> 0 .. NumRows]] /\ Trace(h)
  BY DEF AInv, IInv, CtlType, DInv, DataType, TInv
<1>1. /\ pc' = pc /\ step' = step /\ req' = req /\ cu' = cu /\ failed' = failed /\ blk' = blk
      /\ rd' = rd /\ wr' = wr /\ mem' = mem
  BY DEF WorkerStep, WorkerBegin, WorkerCheckStop, WorkerLoad, WorkerComplete
<1>2. /\ ReadBuf(h)' = ReadBuf(h) /\ WriteBuf(h)' = WriteBuf(h) /\ InWrite(h)' = InWrite(h)
      /\ \A b : InRead(h, b)' = InRead(h, b)
  BY <1>1 DEF ReadBuf, WriteBuf, InWrite, InRead
<1>3. /\ Worker(h) = wpc[p][c] /\ Worker(h)' = wpc'[p][c] /\ (exec_sls[cu[h]])' = exec_sls'[c]
      /\ (wrow[ProcOf[h]][cu[h]])' = wrow'[p][c]
  BY <1>1 DEF Worker
<1>4. Written(h)' = Written(h)
  <2>0. /\ wpc[p][c] = "disarm" => exec_sls[c] = "ENABLE"
        /\ wpc[p][c] = "finish" => exec_sls[c] = "DISABLE"
    BY <1>0, <1>3 DEF Trace
  <2>1. CASE WorkerBegin(p, c)
    <3>1. wpc[p][c] = "queued" /\ wpc'[p][c] = "loop" /\ exec_sls' = exec_sls
      BY <1>0, <2>1 DEF WorkerBegin
    <3> QED BY <1>3, <3>1 DEF Written
  <2>2. CASE WorkerCheckStop(p, c)
    <3>1. wpc[p][c] = "loop" /\ wpc'[p][c] \in {"done", "load"} /\ exec_sls' = exec_sls
      BY <1>0, <2>2 DEF WorkerCheckStop
    <3> QED BY <1>3, <3>1 DEF Written
  <2>3. CASE WorkerLoad(p, c) /\ exec_sls[c] # "ENABLE"
    <3>1. wpc[p][c] = "load" /\ wpc'[p][c] = "loop" /\ exec_sls' = exec_sls
      BY SMT, <1>0, <2>3 DEF WorkerLoad
    <3> QED BY <1>3, <3>1 DEF Written
  <2>4. CASE WorkerLoad(p, c) /\ exec_sls[c] = "ENABLE"
    <3>1. /\ wpc[p][c] = "load" /\ wpc'[p][c] = "exec" /\ exec_sls' = exec_sls
          /\ wrow'[p][c] = 0
      BY SMT, <1>0, <2>4 DEF WorkerLoad
    <3>2. Written(h) = 0 BY <1>3, <2>4, <3>1 DEF Written
    <3>3. Written(h)' = 0 BY <1>3, <3>1 DEF Written
    <3> QED BY <3>2, <3>3
  <2>5. CASE WorkerComplete(p, c) /\ wpc[p][c] = "disarm"
    <3>1. wpc'[p][c] = "finish" /\ exec_sls'[c] = "DISABLE"
      BY SMT, <1>0, <2>5 DEF WorkerComplete
    <3>2. Written(h) = NumRows BY <1>3, <2>5 DEF Written
    <3>3. Written(h)' = NumRows BY <1>3, <3>1 DEF Written
    <3> QED BY <3>2, <3>3
  <2>6. CASE WorkerComplete(p, c) /\ wpc[p][c] = "finish"
    <3>1. wpc'[p][c] = "loop" /\ exec_sls' = exec_sls
      BY SMT, <1>0, <2>6 DEF WorkerComplete
    <3> QED BY <1>3, <2>6, <3>1 DEF Written
  <2> QED BY <2>1, <2>2, <2>3, <2>4, <2>5, <2>6 DEF WorkerStep, WorkerComplete
<1>5. \A b, k, r : Image(h, b, k, r)' = Image(h, b, k, r) BY <1>1, <1>2, <1>4, ImageFrame
<1> QED BY <1>1, <1>5, DataFrame

\* Adding to one row of one of the buffers.
LEMMA AddRow ==
  ASSUME NEW S, NEW f \in [Bufs -> [RowIdx -> S]], NEW k0, NEW r0, NEW v, NEW k \in Bufs,
         NEW r \in RowIdx
  PROVE  /\ k = k0 /\ r = r0 => [f EXCEPT ![k0][r0] = v][k][r] = v
         /\ ~(k = k0 /\ r = r0) => [f EXCEPT ![k0][r0] = v][k][r] = f[k][r]
OBVIOUS

\* One row of a trace is added to the WRITE buffer: row r of buffer k after it.
AddedTo(h, p, c, b, k, r) ==
  LET t == inst[c]  r0 == t.first + wrow[p][c]  to == b \in t.blocks /\ k = WriteBuf(h) IN
  /\ to /\ r = r0 => mem'[c][b][k][r] = Append(mem[c][b][k][r], t.id)
  /\ ~(to /\ r = r0) => mem'[c][b][k][r] = mem[c][b][k][r]
  /\ to => dirty'[p][c][b][k] = Widened(dirty[p][c][b][k], r0)
  /\ ~to => dirty'[p][c][b][k] = dirty[p][c][b][k]

\* That is what the worker does, with its owner's trace.
LEMMA ExecMemory ==
  ASSUME AInv, NEW h \in Hosts, ThreadOn(h), NEW p \in Procs, NEW c \in Cunits,
         p = ProcOf[h], c = cu[h], WorkerExec(p, c), NEW b \in Blocks, NEW k \in Bufs,
         NEW r \in RowIdx
  PROVE  AddedTo(h, p, c, b, k, r)
<1> DEFINE t == inst[c]  k0 == wbuf[p][c]  r0 == t.first + wrow[p][c]
           v == Append(mem[c][b][k0][r0], t.id)  d == Widened(dirty[p][c][b][k0], r0)
<1>0. mem \in [Cunits -> UnitMem] /\ dirty \in [Procs -> [Cunits -> UnitDirty]]
  BY DEF AInv, DInv, DataType
<1>1. /\ mem' = [mem EXCEPT ![c] = [x \in Blocks |->
           IF x \in t.blocks THEN [mem[c][x] EXCEPT ![k0][r0] = Append(@, t.id)] ELSE mem[c][x]]]
      /\ dirty' = [dirty EXCEPT ![p][c] = [x \in Blocks |->
           IF x \in t.blocks
             THEN [dirty[p][c][x] EXCEPT ![k0] = Widened(@, r0)] ELSE dirty[p][c][x]]]
      /\ wpc[p][c] = "exec"
  BY DEF WorkerExec
<1>2. k0 = WriteBuf(h) BY <1>1 DEF AInv, IInv, Buffers, WriteBuf
<1>3. /\ mem'[c][b] = IF b \in t.blocks THEN [mem[c][b] EXCEPT ![k0][r0] = Append(@, t.id)]
                      ELSE mem[c][b]
      /\ dirty'[p][c][b] = IF b \in t.blocks
                             THEN [dirty[p][c][b] EXCEPT ![k0] = Widened(@, r0)] ELSE dirty[p][c][b]
  <2> HIDE DEF t, k0, r0
  <2> QED BY <1>0, <1>1
<1>4. mem[c][b] \in [Bufs -> [RowIdx -> Seq(Ids)]] /\ dirty[p][c][b] \in [Bufs -> Ranges]
  <2>1. mem[c] \in UnitMem /\ dirty[p][c] \in UnitDirty BY <1>0
  <2> QED BY <2>1 DEF UnitMem, UnitDirty
<1>5. ASSUME b \in t.blocks
      PROVE  /\ k = k0 /\ r = r0 => mem'[c][b][k][r] = v
             /\ ~(k = k0 /\ r = r0) => mem'[c][b][k][r] = mem[c][b][k][r]
             /\ k = k0 => dirty'[p][c][b][k] = d
             /\ k # k0 => dirty'[p][c][b][k] = dirty[p][c][b][k]
  <2>1. mem'[c][b] = [mem[c][b] EXCEPT ![k0][r0] = v] BY <1>3, <1>5
  <2>2. dirty'[p][c][b] = [dirty[p][c][b] EXCEPT ![k0] = d] BY <1>3, <1>5
  <2> HIDE DEF v, d, k0, r0
  <2>3. /\ k = k0 /\ r = r0 => mem'[c][b][k][r] = v
        /\ ~(k = k0 /\ r = r0) => mem'[c][b][k][r] = mem[c][b][k][r]
    BY SMT, <1>4, <2>1, AddRow
  <2>4. /\ k = k0 => dirty'[p][c][b][k] = d
        /\ k # k0 => dirty'[p][c][b][k] = dirty[p][c][b][k]
    BY <1>4, <2>2
  <2> QED BY <2>3, <2>4
<1>6. CASE b \notin t.blocks BY <1>3, <1>6 DEF AddedTo
<1>7. CASE b \in t.blocks BY <1>2, <1>5, <1>7 DEF AddedTo
<1> QED BY <1>6, <1>7

\* The trace that it executes, the row that it is at, and how it goes on.
LEMMA ExecFacts ==
  ASSUME AInv, NEW h \in Hosts, ThreadOn(h), NEW p \in Procs, NEW c \in Cunits,
         p = ProcOf[h], c = cu[h], WorkerExec(p, c)
  PROVE  /\ InWrite(h) > 0 /\ InWrite(h) \in Nat /\ inst[c] = TraceOf(h, InWrite(h))
         /\ wrow[p][c] \in Nat /\ wrow[p][c] < inst[c].n /\ Written(h) = wrow[p][c]
         /\ Written(h)' = IF wrow[p][c] + 1 < inst[c].n THEN wrow[p][c] + 1 ELSE NumRows
         /\ pc' = pc /\ step' = step /\ req' = req /\ cu' = cu /\ failed' = failed /\ blk' = blk
         /\ rd' = rd /\ wr' = wr
<1>0. /\ wpc \in [Procs -> [Cunits -> WorkerPC]] /\ wrow \in [Procs -> [Cunits -> 0 .. NumRows]]
      /\ Trace(h) /\ step[h] \in Nat \ {0}
  BY DEF AInv, IInv, CtlType, DInv, DataType, TInv
<1>1. /\ wpc[p][c] = "exec" /\ exec_sls' = exec_sls /\ inst' = inst
      /\ pc' = pc /\ step' = step /\ req' = req /\ cu' = cu /\ failed' = failed /\ blk' = blk
      /\ rd' = rd /\ wr' = wr
      /\ wrow' = [wrow EXCEPT ![p][c] = wrow[p][c] + 1]
      /\ wpc' = [wpc EXCEPT ![p][c] = IF wrow[p][c] + 1 < inst[c].n THEN "exec" ELSE "disarm"]
  BY DEF WorkerExec, WGoto, regVars, hostData
<1>2. Worker(h) = "exec" BY <1>1 DEF Worker
<1>3. InWrite(h) > 0 /\ inst[c] = TraceOf(h, InWrite(h)) BY <1>0, <1>2 DEF Trace
<1>4. InWrite(h) \in Nat BY SMT, <1>0 DEF InWrite
<1>5. wrow[p][c] \in 0 .. NumRows BY <1>0
<1>6. wrow[p][c] \in Nat /\ wrow[p][c] < inst[c].n
  <2>1. wrow[p][c] \in Nat BY SMT, <1>5, LowRows
  <2>2. wrow[p][c] < inst[c].n BY <1>1 DEF AInv, DInv, Fits
  <2> QED BY <2>1, <2>2
<1>7. Written(h) = wrow[p][c] BY <1>2 DEF Written
<1>8. wrow'[p][c] = wrow[p][c] + 1 BY <1>0, <1>1
<1>9. CASE wrow[p][c] + 1 < inst[c].n
  <2>1. wpc'[p][c] = "exec" BY <1>0, <1>1, <1>9
  <2>2. Worker(h)' = "exec" BY <1>1, <2>1 DEF Worker
  <2>3. Written(h)' = wrow[p][c] + 1 BY <1>1, <1>8, <2>2 DEF Written
  <2> QED BY <1>1, <1>3, <1>4, <1>6, <1>7, <1>9, <2>3
<1>10. CASE ~(wrow[p][c] + 1 < inst[c].n)
  <2>1. wpc'[p][c] = "disarm" BY <1>0, <1>1, <1>10
  <2>2. Worker(h)' = "disarm" BY <1>1, <2>1 DEF Worker
  <2>3. Written(h)' = NumRows BY <2>2 DEF Written
  <2> QED BY <1>1, <1>3, <1>4, <1>6, <1>7, <1>10, <2>3
<1> QED BY <1>9, <1>10

\* In the low rows that is a row of the execution, or nothing.
LEMMA ExecRow ==
  ASSUME AInv, NEW h \in Hosts, ThreadOn(h), Progress(h), NEW p \in Procs, NEW c \in Cunits,
         p = ProcOf[h], c = cu[h], WorkerExec(p, c)
  PROVE  LET t == inst[c]  i == InWrite(h)  w == wrow[p][c]  r0 == t.first + w IN
         \/ /\ i \in 1 .. Execs(h) /\ t.blocks = Outputs(h) /\ r0 = w /\ w \in Low
            /\ t.n = req[h].rows[i] /\ t.id = Service!TraceId(h, req[h], i)
         \/ i \notin 1 .. Execs(h) /\ r0 = DummyRow
<1> DEFINE i == InWrite(h)  w == wrow[p][c]
<1>0. req[h] \in Reqs BY DEF AInv, IInv, CtlType
<1>1. /\ i > 0 /\ i \in Nat /\ inst[c] = TraceOf(h, i) /\ w \in Nat /\ w < inst[c].n
  BY ExecFacts
<1>2. /\ Execs(h) \in Nat /\ \A j \in 1 .. Execs(h) : req[h].rows[j] \in Nat /\ req[h].rows[j] <= DummyRow
  BY <1>0, RequestShape DEF Progress
<1>3. CASE i <= Execs(h)
  <2>1. inst[c] = ExecTrace(h, i) BY <1>1, <1>3 DEF TraceOf
  <2>2. /\ inst[c].id = Service!TraceId(h, req[h], i) /\ inst[c].first = 0
        /\ inst[c].n = req[h].rows[i] /\ inst[c].blocks = Outputs(h)
    BY SMT, <2>1 DEF ExecTrace
  <2>3. i \in 1 .. Execs(h)
    <3> HIDE DEF i
    <3> QED BY SMT, <1>1, <1>2, <1>3
  <2>4. inst[c].n \in Nat /\ inst[c].n <= DummyRow BY <1>2, <2>2, <2>3
  <2>5. inst[c].first + w = w /\ w < DummyRow
    <3> HIDE DEF w
    <3> QED BY SMT, <1>1, <2>2, <2>4, LowRows
  <2>6. w \in Low BY <1>1, <2>5, LowRows
  <2> QED BY <2>2, <2>3, <2>5, <2>6
<1>4. CASE ~(i <= Execs(h))
  <2>1. inst[c] = DummyTrace BY <1>1, <1>4 DEF TraceOf
  <2>2. inst[c].first = DummyRow /\ inst[c].n = 1 BY SMT, <2>1 DEF DummyTrace
  <2>3. w = 0 /\ i \notin 1 .. Execs(h)
    <3> HIDE DEF w, i
    <3> QED BY SMT, <1>1, <1>2, <1>4, <2>2
  <2>4. inst[c].first + w = DummyRow
    <3> HIDE DEF w
    <3> QED BY SMT, <2>2, <2>3, LowRows
  <2> QED BY <2>3, <2>4
<1> QED BY <1>3, <1>4

\* So the contents stay those that the holder's progress says.
LEMMA ExecData ==
  ASSUME AInv, NEW h \in Hosts, ThreadOn(h), Progress(h), Data(h),
         NEW p \in Procs, NEW c \in Cunits, p = ProcOf[h], c = cu[h], WorkerExec(p, c)
  PROVE  Data(h)'
<1> DEFINE t == inst[c]  i == InWrite(h)  w == wrow[p][c]  r0 == t.first + w
           e == Service!TraceId(h, req[h], i)  n == req[h].rows[i]
<1>0. /\ i \in Nat /\ w \in Nat /\ w < t.n /\ Written(h) = w
      /\ Written(h)' = IF w + 1 < t.n THEN w + 1 ELSE NumRows
      /\ pc' = pc /\ step' = step /\ req' = req /\ cu' = cu /\ failed' = failed /\ blk' = blk
      /\ rd' = rd /\ wr' = wr
  BY SMT, ExecFacts
<1>1. \/ /\ i \in 1 .. Execs(h) /\ t.blocks = Outputs(h) /\ r0 = w /\ w \in Low
         /\ t.n = n /\ t.id = e
      \/ i \notin 1 .. Execs(h) /\ r0 = DummyRow
  BY ExecRow
<1>2. /\ ReadBuf(h)' = ReadBuf(h) /\ WriteBuf(h)' = WriteBuf(h) /\ InWrite(h)' = i
      /\ \A b : InRead(h, b)' = InRead(h, b)
      /\ Execs(h)' = Execs(h) /\ Outputs(h)' = Outputs(h)
  BY <1>0 DEF ReadBuf, WriteBuf, InWrite, InRead, Execs, Outputs
<1>3. r0 \in RowIdx
  <2>1. r0 \in Low \/ r0 = DummyRow BY <1>1
  <2> QED BY <2>1, LowRows
<1> SUFFICES ASSUME NEW b \in Blocks, NEW k \in Bufs, NEW r \in Low
             PROVE  (mem[cu[h]][b][k][r] = Image(h, b, k, r))'
  BY DataByRow
<1>4. /\ mem[c][b][k][r] = Image(h, b, k, r) /\ r \in Nat /\ r < NumRows /\ r < DummyRow
      /\ r \in RowIdx
  BY LowRows DEF Data
<1>5. mem[c][b][k] \in [RowIdx -> Seq(Ids)] BY CellTypes DEF AInv
<1>6. /\ b \in t.blocks /\ k = WriteBuf(h) /\ r = r0 =>
           mem'[c][b][k][r] = Append(mem[c][b][k][r], t.id)
      /\ ~(b \in t.blocks /\ k = WriteBuf(h) /\ r = r0) => mem'[c][b][k][r] = mem[c][b][k][r]
  <2>1. AddedTo(h, p, c, b, k, r) BY <1>4, ExecMemory
  <2> QED BY <2>1 DEF AddedTo
<1> HIDE DEF t, i, w, r0, e, n
<1>7. r # r0 => mem'[c][b][k][r] = mem[c][b][k][r] BY <1>6
<1>8. CASE k # WriteBuf(h)
  <2>1. SumOf(h, InRead(h, b), b, NumRows, r)' = SumOf(h, InRead(h, b), b, NumRows, r)
    BY SMT, <1>0, <1>2 DEF SumOf
  <2>2. Image(h, b, k, r)' = Image(h, b, k, r) BY <1>2, <1>8, <2>1 DEF Image
  <2> QED BY <1>0, <1>4, <1>6, <1>8, <2>2
<1>9. CASE k = WriteBuf(h)
  <2>1. /\ Image(h, b, k, r) = SumOf(h, i, b, w, r)
        /\ Image(h, b, k, r)' = SumOf(h, InWrite(h), b, Written(h), r)'
    BY <1>0, <1>2, <1>9 DEF Image, i
  <2>2. CASE i \notin 1 .. Execs(h) /\ r0 = DummyRow
    <3>1. SumOf(h, i, b, w, r) = <<>> /\ SumOf(h, InWrite(h), b, Written(h), r)' = <<>>
      BY <1>2, <2>2 DEF SumOf
    <3>2. r # r0 BY <2>2, DummyAbove
    <3> QED BY <1>0, <1>4, <1>7, <2>1, <3>1, <3>2
  <2>3. CASE i \in 1 .. Execs(h) /\ t.blocks = Outputs(h) /\ r0 = w /\ w \in Low /\ t.n = n /\ t.id = e
    <3>0. n \in Nat
      <4>1. req[h] \in Reqs BY DEF AInv, IInv, CtlType
      <4> QED BY <2>3, <4>1, RequestShape DEF n
    <3>1. SumOf(h, i, b, w, r) = IF b \in Outputs(h) /\ r < w /\ r < n THEN <<e>> ELSE <<>>
      BY <2>3 DEF SumOf, n, e
    <3>2. SumOf(h, InWrite(h), b, Written(h), r)' =
            IF b \in Outputs(h) /\ r < Written(h)' /\ r < n THEN <<e>> ELSE <<>>
      BY <1>0, <1>2, <2>3 DEF SumOf, n, e
    <3>3. CASE b \notin Outputs(h)
      BY <1>0, <1>4, <1>6, <2>1, <2>3, <3>1, <3>2, <3>3
    <3>4. CASE b \in Outputs(h) /\ r # w
      <4>1. r < Written(h)' /\ r < n <=> r < w /\ r < n
        <5>1. CASE w + 1 < n BY SMT, <1>0, <1>4, <2>3, <3>4, <5>1
        <5>2. CASE ~(w + 1 < n) BY SMT, <1>0, <1>4, <2>3, <3>0, <3>4, <5>2
        <5> QED BY <5>1, <5>2
      <4> QED BY <1>0, <1>4, <1>7, <2>1, <2>3, <3>1, <3>2, <3>4, <4>1
    <3>5. CASE b \in Outputs(h) /\ r = w
      <4>1. mem[c][b][k][r] = <<>>
        <5>1. ~(r < w) BY SMT, <1>0, <3>5
        <5> QED BY <1>4, <2>1, <3>1, <5>1
      <4>2. mem'[c][b][k][r] = Append(<<>>, e)
        BY <1>4, <1>5, <1>6, <1>9, <2>3, <3>5, <4>1
      <4>3. mem'[c][b][k][r] = <<e>> BY SMT, <4>2
      <4>4. r < Written(h)' /\ r < n
        <5>1. CASE w + 1 < n BY SMT, <1>0, <2>3, <3>5, <5>1
        <5>2. CASE ~(w + 1 < n) BY <1>0, <1>4, <2>3, <3>5, <5>2
        <5> QED BY <5>1, <5>2
      <4> QED BY <1>0, <2>1, <3>2, <3>5, <4>3, <4>4
    <3> QED BY <3>3, <3>4, <3>5
  <2> QED BY <1>1, <2>2, <2>3
<1> QED BY <1>8, <1>9

\* What widening a range does to its bounds.
LEMMA Widening ==
  ASSUME NEW d, d.min \in Nat, d.max \in Nat, NEW x \in Nat, NEW y \in Nat
  PROVE  /\ d.min = 0 \/ x = 0 => Widened(d, x).min = 0
         /\ y < d.max \/ y = x => y < Widened(d, x).max
BY SMT DEF Widened

\* The range grows with the rows, and begins with the first of them.
LEMMA ExecCover ==
  ASSUME AInv, NEW h \in Hosts, ThreadOn(h), Progress(h), Data(h),
         NEW p \in Procs, NEW c \in Cunits, p = ProcOf[h], c = cu[h], WorkerExec(p, c),
         Covered(p, c)
  PROVE  Covered(p, c)'
<1> DEFINE t == inst[c]  i == InWrite(h)  w == wrow[p][c]  r0 == t.first + w
<1>0. i \in Nat /\ w \in Nat /\ w < t.n /\ Written(h) = w
  BY SMT, ExecFacts
<1>1. \/ /\ i \in 1 .. Execs(h) /\ t.blocks = Outputs(h) /\ r0 = w /\ w \in Low
         /\ t.n = req[h].rows[i]
      \/ i \notin 1 .. Execs(h) /\ r0 = DummyRow
  BY ExecRow
<1> SUFFICES ASSUME NEW b \in Blocks, NEW k \in Bufs, NEW r \in Low, mem'[c][b][k][r] # <<>>
             PROVE  dirty'[p][c][b][k].min = 0 /\ r < dirty'[p][c][b][k].max
  BY DEF Covered, Covers
<1> DEFINE d == dirty[p][c][b][k]
<1>2. /\ d \in Ranges /\ mem[c][b][k] \in [RowIdx -> Seq(Ids)]
      /\ \A x \in Low : mem[c][b][k][x] # <<>> => d.min = 0 /\ x < d.max
  BY CellTypes DEF AInv, Covered, Covers
<1>3. d.min \in Nat /\ d.max \in Nat /\ r \in Nat /\ r < DummyRow /\ r \in RowIdx
  <2> HIDE DEF d
  <2>1. d.min \in Nat /\ d.max \in Nat BY SMT, <1>2, LowRows DEF Ranges
  <2> QED BY <2>1, LowRows
<1>4. /\ r # r0 \/ ~(b \in t.blocks /\ k = WriteBuf(h)) => mem'[c][b][k][r] = mem[c][b][k][r]
      /\ b \in t.blocks /\ k = WriteBuf(h) => dirty'[p][c][b][k] = Widened(d, r0)
      /\ ~(b \in t.blocks /\ k = WriteBuf(h)) => dirty'[p][c][b][k] = d
  <2>1. AddedTo(h, p, c, b, k, r) BY <1>3, ExecMemory
  <2> QED BY <2>1 DEF AddedTo
<1>5. r0 \in Nat /\ r0 \in RowIdx /\ r0 <= DummyRow
  <2>1. r0 \in Low \/ r0 = DummyRow BY <1>1
  <2> HIDE DEF r0
  <2> QED BY SMT, <2>1, LowRows
<1>6. CASE ~(b \in t.blocks /\ k = WriteBuf(h)) BY <1>2, <1>4, <1>6
<1>7. CASE b \in t.blocks /\ k = WriteBuf(h)
  <2>0. /\ d.min = 0 \/ r0 = 0 => dirty'[p][c][b][k].min = 0
        /\ r < d.max \/ r = r0 => r < dirty'[p][c][b][k].max
    <3>1. dirty'[p][c][b][k] = Widened(d, r0) BY <1>4, <1>7
    <3> HIDE DEF d, r0
    <3> QED BY <1>3, <1>5, <3>1, Widening
  <2>1. CASE r # r0
    <3>1. mem[c][b][k][r] # <<>> BY <1>2, <1>3, <1>4, <1>7, <2>1
    <3>2. d.min = 0 /\ r < d.max BY <1>2, <3>1
    <3> HIDE DEF d, r0
    <3> QED BY <2>0, <3>2
  <2>2. CASE r = r0
    <3>1. i \in 1 .. Execs(h) /\ t.blocks = Outputs(h) /\ r0 = w /\ w \in Low /\ t.n = req[h].rows[i]
      <4> HIDE DEF r0, w, t, i
      <4>1. r0 # DummyRow BY <2>2, DummyAbove
      <4> QED BY <1>1, <4>1
    <3>2. CASE w = 0
      <4> HIDE DEF d, r0, w
      <4> QED BY <2>0, <2>2, <3>1, <3>2
    <3>3. CASE w # 0
      <4>1. 0 < w /\ 0 < req[h].rows[i] /\ 0 \in Low
        <5> HIDE DEF w, t, i
        <5>1. 0 < w /\ w < req[h].rows[i] /\ w < DummyRow BY SMT, <1>0, <3>1, <3>3, LowRows
        <5>2. t.n \in Nat
          <6>1. t.n \in 1 .. NumRows
            <7>1. inst[c] \in Traces BY DEF AInv, DInv, DataType
            <7> QED BY <7>1 DEF Traces, t
          <6> QED BY SMT, <6>1, LowRows
        <5> QED BY SMT, <1>0, <3>1, <5>1, <5>2, LowRows
      <4>2. mem[c][b][k][0] = Image(h, b, k, 0) BY <4>1 DEF Data
      <4>3. Image(h, b, k, 0) = SumOf(h, i, b, w, 0) BY <1>0, <1>7 DEF Image
      <4>4. SumOf(h, i, b, w, 0) = <<Service!TraceId(h, req[h], i)>>
        BY <1>7, <3>1, <4>1 DEF SumOf
      <4>5. mem[c][b][k][0] # <<>>
        <5>1. <<Service!TraceId(h, req[h], i)>> # <<>> OBVIOUS
        <5> QED BY <4>2, <4>3, <4>4, <5>1
      <4>6. d.min = 0 BY <1>2, <4>1, <4>5
      <4> HIDE DEF d, r0, w
      <4> QED BY <2>0, <2>2, <4>6
    <3> QED BY <3>2, <3>3
  <2> QED BY <2>1, <2>2
<1> QED BY <1>6, <1>7

\* Every step of a worker keeps what RInv says of its owner and of the unit.
LEMMA WorkerResults ==
  ASSUME AInv, RInv, NEW p \in Procs, NEW c \in Cunits, WorkerStep(p, c)
  PROVE  RInv'
<1>0. IInv /\ throws \in Nat BY DEF AInv
<1>1. PICK h \in Hosts : h = owner[c] /\ ProcOf[h] = p /\ cu[h] = c /\ Holding(h) /\ ThreadOn(h)
  BY SMT, <1>0, WorkerHost
<1>2. WorkerStep(ProcOf[h], cu[h]) /\ c = cu[h] /\ p = ProcOf[h] BY <1>1
<1>3. LocalData(h) BY <1>1, <1>2, WorkerStepLocal
<1>4. /\ pc' = pc /\ step' = step /\ req' = req /\ blk' = blk /\ out' = out /\ failed' = failed
      /\ cu' = cu /\ throws' = throws
  BY DEF WorkerStep, WorkerBegin, WorkerCheckStop, WorkerLoad, WorkerExec, WorkerComplete,
               hostData, bounds
<1>5. Progress(h) /\ (Used(h) => Data(h)) BY <1>1 DEF RInv, Holding
<1>6. Progress(h)' BY <1>0, <1>4, <1>5, ProgressFrame
<1>7. Holding(h)' /\ (Used(h)' <=> Used(h)) /\ (Fresh(h)' <=> Fresh(h))
  BY <1>1, <1>4 DEF Holding, Used, Fresh
<1>8. ASSUME NEW q \in Procs, Fresh(h) \/ ProcOf[h] = q PROVE Covered(q, c)
  BY <1>1, <1>8 DEF RInv
<1>9. CASE WorkerExec(p, c)
  <2>1. InWrite(h) > 0 BY <1>1, <1>2, <1>9, ExecFacts
  <2>2. ~Fresh(h)
    <3>1. Fresh(h) => InWrite(h) = 0 BY DEF Fresh, InWrite
    <3> QED BY SMT, <2>1, <3>1
  <2>3. Data(h) BY <1>1, <1>5, <2>2 DEF Used
  <2>4. Data(h)' BY <1>1, <1>2, <1>5, <1>9, <2>3, ExecData
  <2>5. Covered(p, c) BY <1>1, <1>8
  <2>6. Covered(p, c)' BY <1>1, <1>2, <1>5, <1>9, <2>3, <2>5, ExecCover
  <2>7. \A q \in Procs : Fresh(h)' \/ ProcOf[h] = q => Covered(q, c)'
    BY <1>1, <1>7, <2>2, <2>6
  <2> QED BY <1>1, <1>2, <1>3, <1>4, <1>6, <1>7, <2>4, <2>7, ResultsLocal
<1>10. CASE ~WorkerExec(p, c)
  <2>1. ~WorkerExec(ProcOf[h], cu[h]) BY <1>2, <1>10
  <2>2. Used(h)' => Data(h)' BY <1>1, <1>2, <1>5, <1>7, <2>1, SpinData
  <2>3. mem' = mem /\ dirty' = dirty
    BY <1>10 DEF WorkerStep, WorkerBegin, WorkerCheckStop, WorkerLoad, WorkerComplete, simVars
  <2>4. ASSUME NEW q \in Procs, Fresh(h)' \/ ProcOf[h] = q PROVE Covered(q, c)'
    <3>1. Covered(q, c) BY <1>7, <1>8, <2>4
    <3> QED BY <2>3, <3>1, CoverFrame
  <2> QED BY <1>1, <1>2, <1>3, <1>4, <1>6, <1>7, <2>2, <2>4, ResultsLocal
<1> QED BY <1>9, <1>10

-----------------------------------------------------------------------------
(* Sums: the other steps.                                                  *)

\* The units are not touched.
UnitsAlone == UNCHANGED <<mem, exec_sls, wpc, wrow, rd, wr, dirty, throws>>

\* A host that takes no part in such a step.
LEMMA Bystander ==
  ASSUME AInv, RInv, UnitsAlone, NEW g \in Hosts, pc'[g] = pc[g], step'[g] = step[g],
         req'[g] = req[g], blk'[g] = blk[g], out'[g] = out[g], failed'[g] = failed[g],
         cu'[g] = cu[g]
  PROVE  /\ (pc[g] # "idle")' => Progress(g)'
         /\ (pc[g] = "idle")' => Safe(g)'
         /\ Used(g)' => Data(g)'
<1>0. throws \in Nat BY DEF AInv
<1>1. ASSUME (pc[g] # "idle")' PROVE Progress(g)'
  <2>1. Progress(g) BY <1>1 DEF RInv
  <2> QED BY <1>0, <2>1, ProgressFrame DEF UnitsAlone
<1>2. ASSUME (pc[g] = "idle")' PROVE Safe(g)'
  <2>1. Safe(g) BY <1>2 DEF RInv
  <2> QED BY <2>1, SafeFrame
<1>3. ASSUME Used(g)' PROVE Data(g)'
  <2>1. Used(g) BY <1>3 DEF Used, Fresh, Holding
  <2>2. Data(g) BY <2>1 DEF RInv
  <2> QED BY <2>2, UntouchedData DEF UnitsAlone
<1> QED BY <1>1, <1>2, <1>3

\* A unit that takes no part in it.
LEMMA UnitAside ==
  ASSUME AInv, RInv, UnitsAlone, NEW p \in Procs, NEW c \in Cunits,
         (owner[c] = NoHost \/ Fresh(owner[c]) \/ ProcOf[owner[c]] = p)',
         owner'[c] = owner[c], pc'[owner[c]] = pc[owner[c]]
  PROVE  Covered(p, c)'
<1>1. owner[c] = NoHost \/ Fresh(owner[c]) \/ ProcOf[owner[c]] = p BY DEF Fresh
<1>2. Covered(p, c) BY <1>1 DEF RInv
<1> QED BY <1>2, CoverFrame DEF UnitsAlone

\* Submission: a fresh operation, nothing read.
LEMMA SubmitResults ==
  ASSUME AInv, RInv, BelowDummy, NEW h \in Hosts, StartOp(h)
  PROVE  RInv'
<1> USE DEF regVars, simVars, thrVars, bounds
<1>0. /\ pc \in [Hosts -> HostPC] /\ step \in [Hosts -> Nat \ {0}] /\ req \in [Hosts -> Reqs]
      /\ failed \in [Hosts -> BOOLEAN] /\ out = [g \in Hosts |-> out[g]]
  BY TypesHold DEF AInv, TypeOK
<1>1. PICK q \in Service!Requests(req[h].no + 1) :
        req' = [req EXCEPT ![h] = q] /\ out' = [out EXCEPT ![h] = Service!Nothing(q)]
  BY DEF StartOp
<1>2. /\ pc[h] = "idle" /\ pc' = [pc EXCEPT ![h] = "acquire"] /\ step' = [step EXCEPT ![h] = 1]
      /\ failed' = [failed EXCEPT ![h] = FALSE] /\ UnitsAlone /\ owner' = owner /\ cu' = cu
      /\ blk' = blk
  BY DEF StartOp, Goto, UnitsAlone
<1>3. /\ req'[h] = q /\ out'[h] = Service!Nothing(q) /\ pc'[h] = "acquire" /\ step'[h] = 1
      /\ failed'[h] = FALSE
  BY <1>0, <1>1, <1>2
<1>4. ASSUME NEW g \in Hosts, g # h
      PROVE  /\ pc'[g] = pc[g] /\ step'[g] = step[g] /\ req'[g] = req[g] /\ out'[g] = out[g]
             /\ failed'[g] = failed[g]
  BY <1>0, <1>1, <1>2, <1>4
<1>5. q \in Reqs /\ q.rows \in Shapes
  <2>1. req[h].no \in Nat BY <1>0 DEF Reqs
  <2>2. req[h].no + 1 \in Nat BY SMT, <2>1
  <2>3. q \in Reqs BY <2>2, RequestFacts
  <2>4. q.rows \in Shapes BY DEF Service!Requests
  <2> QED BY <2>3, <2>4
<1>6. /\ DOMAIN q.rows = 1 .. Len(q.rows) /\ Len(q.rows) \in Nat
      /\ \A i \in 1 .. Len(q.rows) : q.rows[i] <= DummyRow
  <2>1. q.rows \in Seq(1 .. NumRows) BY <1>5 DEF Reqs
  <2>2. DOMAIN q.rows = 1 .. Len(q.rows) /\ Len(q.rows) \in Nat BY SMT, <2>1
  <2> QED BY <1>5, <2>2 DEF BelowDummy
<1>7. Execs(h)' = Len(q.rows) BY <1>3 DEF Execs
<1>8. Given(h)' = Service!Nothing(q)
  <2>1. \A i \in DOMAIN q.rows : \A b : ~(Read(h, i, b)')
    <3>1. \A i \in DOMAIN q.rows : ~(i + 1 < 1) /\ i + 1 # 1 BY SMT, <1>6
    <3> QED BY <1>3, <3>1 DEF Read
  <2>2. Given(h)' = [i \in DOMAIN q.rows |-> [b \in Blocks |-> <<>>]]
    BY <1>3, <2>1 DEF Given
  <2> QED BY <2>2 DEF Service!Nothing, Blocks
<1>9. Progress(h)'
  <2>1. 1 <= Len(q.rows) + 1 BY SMT, <1>6
  <2> QED BY <1>3, <1>6, <1>7, <1>8, <2>1 DEF Progress, Ends
<1>10. ASSUME NEW g \in Hosts
       PROVE  /\ (pc[g] # "idle")' => Progress(g)'
              /\ (pc[g] = "idle")' => Safe(g)'
              /\ Used(g)' => Data(g)'
  <2>1. CASE g = h BY <1>3, <1>9, <2>1 DEF Used, Holding
  <2>2. CASE g # h BY <1>2, <1>4, <2>2, Bystander
  <2> QED BY <2>1, <2>2
<1>11. ASSUME NEW p \in Procs, NEW c \in Cunits,
              (owner[c] = NoHost \/ Fresh(owner[c]) \/ ProcOf[owner[c]] = p)'
       PROVE  Covered(p, c)'
  <2>0. owner[c] \in Hosts \cup {NoHost} BY DEF AInv, IInv, CtlType
  <2>1. CASE owner[c] = NoHost
    <3>1. Covered(p, c) BY <2>1 DEF RInv
    <3> QED BY <1>2, <3>1, CoverFrame DEF UnitsAlone
  <2>2. CASE owner[c] # NoHost
    <3>1. Holding(owner[c]) BY <2>2 DEF AInv, IInv, Ownership
    <3>2. owner[c] \in Hosts /\ owner[c] # h BY <1>2, <2>0, <2>2, <3>1 DEF Holding
    <3> QED BY <1>2, <1>4, <1>11, <3>2, UnitAside
  <2> QED BY <2>1, <2>2
<1> QED BY <1>10, <1>11 DEF RInv

\* Acquisition: the unit is as its last holder left it, covered for everybody.
LEMMA AcquireResults ==
  ASSUME AInv, RInv, NEW h \in Hosts, Acquire(h)
  PROVE  RInv'
<1> USE HostAssumption DEF regVars, simVars, thrVars, bounds
<1>0. /\ pc \in [Hosts -> HostPC] /\ cu \in [Hosts -> Cunits] /\ step[h] \in Nat \ {0}
      /\ owner \in [Cunits -> Hosts \cup {NoHost}] /\ req[h] \in Reqs
  BY TypesHold DEF AInv, TypeOK
<1>1. PICK c \in req[h].pack : /\ owner[c] = NoHost
                               /\ owner' = [owner EXCEPT ![c] = h]
                               /\ cu' = [cu EXCEPT ![h] = c]
  BY DEF Acquire
<1>2. /\ pc[h] = "acquire" /\ pc' = [pc EXCEPT ![h] = "resetPoll"] /\ step' = step
      /\ req' = req /\ blk' = blk /\ out' = out /\ failed' = failed /\ UnitsAlone
  BY DEF Acquire, Goto, UnitsAlone
<1>3. c \in Cunits
  <2>1. req[h].pack \in SUBSET Cunits BY <1>0 DEF Reqs
  <2> QED BY <2>1
<1>4. pc'[h] = "resetPoll" /\ owner'[c] = h BY <1>0, <1>1, <1>2, <1>3
<1>5. ASSUME NEW g \in Hosts, g # h PROVE pc'[g] = pc[g] /\ cu'[g] = cu[g]
  BY <1>0, <1>1, <1>2, <1>5
<1>6. Progress(h)'
  <2>1. Progress(h) BY <1>2 DEF RInv
  <2>2. Execs(h)' = Execs(h) /\ Outputs(h)' = Outputs(h) BY <1>2 DEF Execs, Outputs
  <2>3. Given(h)' = Given(h)
    <3>1. \A i, b : Read(h, i, b)' <=> Read(h, i, b) BY <1>2, <1>4 DEF Read
    <3> QED BY <1>2, <3>1, GivenSame
  <2>4. failed[h] = FALSE BY <1>2, <2>1, TypesHold DEF Progress, Ends, AInv, TypeOK
  <2> QED BY <1>2, <1>4, <2>1, <2>2, <2>3, <2>4 DEF Progress, Ends, Execs
<1>7. ASSUME NEW g \in Hosts
      PROVE  /\ (pc[g] # "idle")' => Progress(g)'
             /\ (pc[g] = "idle")' => Safe(g)'
             /\ Used(g)' => Data(g)'
  <2>1. CASE g = h BY <1>4, <1>6, <2>1 DEF Used, Fresh
  <2>2. CASE g # h BY <1>2, <1>5, <2>2, Bystander
  <2> QED BY <2>1, <2>2
<1>8. ASSUME NEW p \in Procs, NEW d \in Cunits,
             (owner[d] = NoHost \/ Fresh(owner[d]) \/ ProcOf[owner[d]] = p)'
      PROVE  Covered(p, d)'
  <2>1. CASE d = c \/ owner[d] = NoHost
    <3>1. Covered(p, d) BY <1>1, <2>1 DEF RInv
    <3> QED BY <1>2, <3>1, CoverFrame DEF UnitsAlone
  <2>2. CASE d # c /\ owner[d] # NoHost
    <3>1. Holding(owner[d]) BY <2>2 DEF AInv, IInv, Ownership
    <3>2. owner[d] \in Hosts /\ owner[d] # h BY <1>0, <1>2, <2>2, <3>1 DEF Holding
    <3>3. owner'[d] = owner[d] BY <1>0, <1>1, <2>2
    <3> QED BY <1>2, <1>5, <1>8, <3>2, <3>3, UnitAside
  <2> QED BY <2>1, <2>2
<1> QED BY <1>7, <1>8 DEF RInv

\* Release: after a complete operation every low row is empty; after an exception
\* the next holder is of the same process, whose ranges cover the unit.
LEMMA ReleaseResults ==
  ASSUME AInv, RInv, Undisturbed, NEW h \in Hosts, Release(h)
  PROVE  RInv'
<1> USE HostAssumption DEF regVars, simVars, thrVars, hostData, bounds
<1>0. /\ pc \in [Hosts -> HostPC] /\ cu \in [Hosts -> Cunits] /\ req[h] \in Reqs
      /\ owner \in [Cunits -> Hosts \cup {NoHost}] /\ throws \in Nat
  BY TypesHold DEF AInv, TypeOK
<1>1. /\ pc[h] = "release" /\ pc' = [pc EXCEPT ![h] = "idle"] /\ step' = step
      /\ req' = req /\ blk' = blk /\ out' = out /\ failed' = failed /\ cu' = cu /\ UnitsAlone
      /\ owner' = [owner EXCEPT ![cu[h]] = NoHost]
  BY DEF Release, Goto, UnitsAlone
<1>2. Progress(h) /\ Data(h) BY <1>1 DEF RInv, Used, Holding, Fresh
<1>3. owner[cu[h]] = h /\ cu[h] \in Cunits BY <1>0, <1>1 DEF AInv, IInv, Ownership, Holding
<1>4. pc'[h] = "idle" BY <1>0, <1>1
<1>5. ASSUME NEW g \in Hosts, g # h PROVE pc'[g] = pc[g] BY <1>0, <1>1, <1>5
<1>6. Safe(h)'
  <2>1. Safe(h) BY <1>0, <1>2, ProgressSafe DEF Progress
  <2> QED BY <1>1, <2>1, SafeFrame
<1>7. ASSUME NEW g \in Hosts
      PROVE  /\ (pc[g] # "idle")' => Progress(g)'
             /\ (pc[g] = "idle")' => Safe(g)'
             /\ Used(g)' => Data(g)'
  <2>1. CASE g = h BY <1>4, <1>6, <2>1 DEF Used, Holding
  <2>2. CASE g # h BY <1>1, <1>5, <2>2, Bystander
  <2> QED BY <2>1, <2>2
<1>8. ASSUME NEW p \in Procs, NEW d \in Cunits,
             (owner[d] = NoHost \/ Fresh(owner[d]) \/ ProcOf[owner[d]] = p)'
      PROVE  Covered(p, d)'
  <2>1. CASE owner[d] = NoHost
    <3>1. Covered(p, d) BY <2>1 DEF RInv
    <3> QED BY <1>1, <3>1, CoverFrame DEF UnitsAlone
  <2>2. CASE d # cu[h] /\ owner[d] # NoHost
    <3>1. cu[owner[d]] = d BY <2>2 DEF AInv, IInv, Ownership
    <3>2. owner[d] \in Hosts /\ owner[d] # h BY <1>0, <2>2, <3>1
    <3>3. owner'[d] = owner[d] BY <1>0, <1>1, <2>2
    <3> QED BY <1>1, <1>5, <1>8, <3>2, <3>3, UnitAside
  <2>3. CASE d = cu[h] /\ failed[h]
    <3>1. throws # 0 BY SMT, <1>0, <1>2, <2>3 DEF Progress
    <3>2. ProcOf[h] = p BY <3>1 DEF Undisturbed
    <3>3. Covered(p, d) BY <1>3, <2>3, <3>2 DEF RInv
    <3> QED BY <1>1, <3>3, CoverFrame DEF UnitsAlone
  <2>4. CASE d = cu[h] /\ ~failed[h]
    <3>1. InWrite(h) = 0 /\ \A b : InRead(h, b) = 0 BY <1>1, <2>4 DEF InWrite, InRead
    <3>2. 0 \notin 1 .. Execs(h) BY SMT
    <3>3. \A b, k, r : Image(h, b, k, r) = <<>> BY <3>1, <3>2 DEF Image, SumOf
    <3>4. ASSUME NEW b \in Blocks, NEW k \in Bufs, NEW r \in Low PROVE mem'[d][b][k][r] = <<>>
      <4>1. mem[cu[h]][b][k][r] = Image(h, b, k, r) BY <1>2 DEF Data
      <4>2. mem' = mem BY <1>1 DEF UnitsAlone
      <4> QED BY <2>4, <3>3, <4>1, <4>2
    <3> QED BY <3>4 DEF Covered, Covers
  <2> QED BY <2>1, <2>2, <2>3, <2>4
<1> QED BY <1>7, <1>8 DEF RInv

\* Death, when there is one process: nobody holds a unit, and the new simulator
\* takes everything for dirty.
LEMMA CrashResults ==
  ASSUME AInv, RInv, NEW p \in Procs, Crash(p), \A q, s \in Procs : q = s
  PROVE  RInv'
<1> USE HostAssumption DEF hostData
<1>0. owner \in [Cunits -> Hosts \cup {NoHost}] /\ dirty \in [Procs -> [Cunits -> UnitDirty]]
  BY DEF AInv, IInv, CtlType, DInv, DataType
<1>1. /\ pc' = [h \in Hosts |-> IF ProcOf[h] = p THEN "idle" ELSE pc[h]]
      /\ req' = req /\ out' = out
      /\ dirty' = [dirty EXCEPT ![p] =
           [c \in Cunits |-> [b \in Blocks |-> [k \in Bufs |-> FullyDirty]]]]
  BY DEF Crash
<1>2. ASSUME NEW h \in Hosts PROVE pc'[h] = "idle" /\ Safe(h)'
  <2>1. ProcOf[h] = p OBVIOUS
  <2>2. pc'[h] = "idle" BY <1>1, <2>1
  <2>3. Safe(h)
    <3>1. req[h] \in Reqs BY TypesHold DEF AInv, TypeOK
    <3>2. CASE pc[h] = "idle" BY <3>2 DEF RInv
    <3>3. CASE pc[h] # "idle"
      <4>1. out[h] = Given(h) BY <3>3 DEF RInv, Progress
      <4> QED BY <3>1, <4>1, ProgressSafe
    <3> QED BY <3>2, <3>3
  <2> QED BY <1>1, <2>2, <2>3, SafeFrame
<1>3. ASSUME NEW q \in Procs, NEW c \in Cunits PROVE Covered(q, c)'
  <2> SUFFICES ASSUME NEW b \in Blocks, NEW k \in Bufs, NEW r \in Low
               PROVE  dirty'[q][c][b][k].min = 0 /\ r < dirty'[q][c][b][k].max
    BY DEF Covered, Covers
  <2>1. dirty'[q][c][b][k] = FullyDirty BY <1>0, <1>1
  <2>2. FullyDirty.min = 0 /\ FullyDirty.max = NumRows BY DEF FullyDirty
  <2>3. r < NumRows BY LowRows
  <2> QED BY <2>1, <2>2, <2>3
<1> QED BY <1>2, <1>3 DEF RInv, Used, Holding

\* Nothing happens.
LEMMA StutterResults ==
  ASSUME AInv, RInv, UNCHANGED vars
  PROVE  RInv'
<1>1. /\ UnitsAlone /\ pc' = pc /\ step' = step /\ req' = req /\ blk' = blk /\ out' = out
      /\ failed' = failed /\ cu' = cu /\ owner' = owner
  BY DEF vars, UnitsAlone, regVars, simVars, thrVars, hostData, bounds
<1>2. ASSUME NEW g \in Hosts
      PROVE  /\ (pc[g] # "idle")' => Progress(g)'
             /\ (pc[g] = "idle")' => Safe(g)'
             /\ Used(g)' => Data(g)'
  BY <1>1, Bystander
<1>3. ASSUME NEW p \in Procs, NEW c \in Cunits,
             (owner[c] = NoHost \/ Fresh(owner[c]) \/ ProcOf[owner[c]] = p)'
      PROVE  Covered(p, c)'
  BY <1>1, <1>3, UnitAside
<1> QED BY <1>2, <1>3 DEF RInv

\* The sums are right initially, when all buffers count as dirty.
LEMMA InitResults == Init => Results
<1> SUFFICES ASSUME Init PROVE RInv
  BY DEF Results
<1>1. ASSUME NEW h \in Hosts PROVE pc[h] = "idle" /\ Safe(h)
  <2>1. pc[h] = "idle" /\ req[h] = Service!NoRequest /\ out[h] = Service!Nothing(Service!NoRequest)
    BY DEF Init
  <2>2. /\ Service!NoRequest.rows = <<1>> /\ Service!NoRequest.tagged = FALSE
    BY DEF Service!NoRequest
  <2>3. Execs(h) = 1 /\ Outputs(h) = {"PSUM"} BY SMT, <2>1, <2>2 DEF Execs, Outputs, Service!Outputs
  <2>4. 1 \in DOMAIN Service!NoRequest.rows /\ "PSUM" \in Service!Blocks
    BY SMT, <2>2 DEF Service!Blocks
  <2>5. out[h][1]["PSUM"] = <<>>
    <3>1. Service!Nothing(Service!NoRequest)[1]["PSUM"] = <<>>
      BY <2>4 DEF Service!Nothing
    <3> QED BY <2>1, <3>1
  <2>6. \A i \in 1 .. Execs(h) : i = 1 BY SMT, <2>3
  <2> QED BY <2>1, <2>3, <2>5, <2>6 DEF Safe
<1>2. ASSUME NEW q \in Procs, NEW c \in Cunits PROVE Covered(q, c)
  <2> SUFFICES ASSUME NEW b \in Blocks, NEW k \in Bufs, NEW r \in Low
               PROVE  dirty[q][c][b][k].min = 0 /\ r < dirty[q][c][b][k].max
    BY DEF Covered, Covers
  <2>1. dirty[q][c][b][k] = FullyDirty BY DEF Init
  <2>2. FullyDirty.min = 0 /\ FullyDirty.max = NumRows BY DEF FullyDirty
  <2>3. r < NumRows BY LowRows
  <2> QED BY <2>1, <2>2, <2>3
<1> QED BY <1>1, <1>2 DEF RInv, Used, Holding

\* A disturbance is never undone.
LEMMA StaysDisturbed ==
  ASSUME AInv, [Next]_vars, Undisturbed' PROVE Undisturbed
<1>1. throws \in Nat /\ crashes \in Nat BY DEF AInv
<1>2. throws' \in {throws, throws + 1} /\ crashes' \in {crashes, crashes + 1} BY Seldom
<1>3. throws' = 0 /\ crashes' = 0 => throws = 0 /\ crashes = 0 BY SMT, <1>1, <1>2
<1> QED BY <1>3 DEF Undisturbed

\* Every step keeps the sums right.
LEMMA NextResults ==
  ASSUME BelowDummy, AInv, Results, [Next]_vars PROVE Results'
<1> SUFFICES ASSUME Undisturbed' PROVE RInv'
  BY DEF Results
<1>1. Undisturbed BY StaysDisturbed
<1>2. RInv BY <1>1 DEF Results
<1>3. CASE \E h \in Hosts : StartOp(h) \/ Acquire(h) \/ Release(h)
  BY <1>1, <1>2, <1>3, SubmitResults, AcquireResults, ReleaseResults
<1>4. CASE \E h \in Hosts : Throw(h) \/ (HostStep(h) /\ ~Release(h))
  BY <1>2, <1>4, HostResults
<1>5. CASE \E p \in Procs, c \in Cunits : WorkerStep(p, c) BY <1>2, <1>5, WorkerResults
<1>6. CASE \E p \in Procs : Crash(p)
  <2>1. PICK p \in Procs : Crash(p) BY <1>6
  <2>2. crashes' # 0
    <3>1. crashes \in Nat /\ crashes' = crashes + 1 BY <2>1 DEF AInv, Crash
    <3> QED BY SMT, <3>1
  <2>3. \A q, s \in Procs : q = s BY <2>2 DEF Undisturbed
  <2> QED BY <1>2, <2>1, <2>3, CrashResults
<1>7. CASE UNCHANGED vars BY <1>2, <1>7, StutterResults
<1> QED BY <1>3, <1>4, <1>5, <1>6, <1>7 DEF Next, Finished

\* The sums are right as long as nothing was disturbed.
LEMMA ResultsInvariance ==
  ASSUME BelowDummy PROVE Spec => []Results
<1>1. Init => Results BY InitResults
<1>2. AInv /\ Results /\ [Next]_vars => Results' BY NextResults
<1> QED BY PTL, <1>1, <1>2, SharedInvariant DEF Spec

-----------------------------------------------------------------------------
(* What a host has read.                                                   *)

\* An expected output is not empty.
LEMMA ExpectedRows ==
  ASSUME NEW h \in Hosts, req[h] \in Reqs, NEW i \in 1 .. Execs(h)
  PROVE  Service!Expected(h, req[h], i) # <<>>
<1> DEFINE n == req[h].rows[i]  e == Service!Expected(h, req[h], i)
<1>1. n \in Nat /\ n >= 1 BY RequestShape
<1>2. DOMAIN e = 1 .. n BY DEF Service!Expected
<1>3. 1 \in DOMAIN e
  <2> HIDE DEF n, e
  <2> QED BY SMT, <1>1, <1>2
<1>4. DOMAIN <<>> = {} BY SMT
<1> QED BY <1>3, <1>4

\* A block was delivered exactly when the host has read it.
LEMMA DeliveredRead ==
  ASSUME NEW h \in Hosts, req[h] \in Reqs, Progress(h), NEW i \in 1 .. Execs(h),
         NEW b \in Outputs(h)
  PROVE  out[h][i][b] # <<>> <=> Read(h, i, b)
<1>1. i \in DOMAIN req[h].rows /\ b \in Blocks BY RequestShape
<1>2. Given(h)[i][b] = IF b \in Outputs(h) /\ Read(h, i, b)
                         THEN Service!Expected(h, req[h], i) ELSE <<>>
  BY <1>1, GivenCell
<1>3. out[h][i][b] = Given(h)[i][b] BY DEF Progress
<1>4. Service!Expected(h, req[h], i) # <<>> BY ExpectedRows
<1> QED BY <1>2, <1>3, <1>4

\* A complete operation has read everything.
LEMMA AllRead ==
  ASSUME AInv, NEW h \in Hosts, Progress(h), pc[h] \in Ends, ~failed[h],
         NEW i \in 1 .. Execs(h), NEW b \in Outputs(h)
  PROVE  out[h][i][b] # <<>>
<1>1. req[h] \in Reqs BY TypesHold DEF AInv, TypeOK
<1>2. step[h] = Execs(h) + 1 /\ Execs(h) \in Nat BY <1>1, RequestShape DEF Progress
<1>3. i + 1 < step[h] \/ i + 1 = step[h] BY SMT, <1>2
<1>4. Read(h, i, b) BY <1>3 DEF Read, Ends
<1> QED BY <1>1, <1>4, DeliveredRead

\* Every host reads the sums of its own executions, and all of them by the end of
\* an operation that ends well.
LEMMA ReadsOwnSums ==
  ASSUME AInv, RInv PROVE ResultsCorrect
<1> SUFFICES ASSUME NEW h \in Hosts, NEW i \in 1 .. Execs(h), NEW b \in Outputs(h)
             PROVE  /\ out[h][i][b] \in {<<>>, Service!Expected(h, req[h], i)}
                    /\ pc[h] \in Ends /\ ~failed[h] => out[h][i][b] # <<>>
  BY DEF ResultsCorrect, Ends
<1>1. req[h] \in Reqs BY TypesHold DEF AInv, TypeOK
<1>2. Safe(h)
  <2>1. CASE pc[h] = "idle" BY <2>1 DEF RInv
  <2>2. CASE pc[h] # "idle"
    <3>1. out[h] = Given(h) BY <2>2 DEF RInv, Progress
    <3> QED BY <1>1, <3>1, ProgressSafe
  <2> QED BY <2>1, <2>2
<1>3. out[h][i][b] \in {<<>>, Service!Expected(h, req[h], i)} BY <1>2 DEF Safe
<1>4. ASSUME pc[h] \in Ends, ~failed[h] PROVE out[h][i][b] # <<>>
  <2>1. Progress(h) BY <1>4 DEF RInv, Ends
  <2> QED BY <1>4, <2>1, AllRead
<1> QED BY <1>3, <1>4

\* For every number of hosts, processes, units, buffers and rows, whatever the
\* interleaving: every output that a host has read is the sum of its own
\* execution, and a complete operation has read all of them, as long as no
\* exception and no death came between two processes.
THEOREM SumsAreRight ==
  ASSUME BelowDummy PROVE Spec => [](Undisturbed => ResultsCorrect)
<1>1. AInv /\ Results => (Undisturbed => ResultsCorrect) BY ReadsOwnSums DEF Results
<1> QED BY PTL, <1>1, SharedInvariant, ResultsInvariance

\* The bounds of an instance keep it undisturbed.
Calm == (MaxThrows = 0 /\ MaxCrashes = 0) \/ \A p, q \in Procs : p = q

\* They do.
LEMMA CalmUndisturbed ==
  ASSUME Calm PROVE Spec => []Undisturbed
<1> DEFINE Bound == throws \in 0 .. MaxThrows /\ crashes \in 0 .. MaxCrashes
<1>1. Init => Bound BY SMT, BoundAssumption DEF Init
<1>2. Bound /\ [Next]_vars => Bound'
  <2> SUFFICES ASSUME Bound, [Next]_vars PROVE Bound'
    OBVIOUS
  <2>1. /\ throws' = throws \/ (throws' = throws + 1 /\ throws < MaxThrows)
        /\ crashes' = crashes \/ (crashes' = crashes + 1 /\ crashes < MaxCrashes)
    BY Seldom
  <2> QED BY SMT, <2>1, BoundAssumption
<1>3. Bound => Undisturbed BY SMT DEF Undisturbed, Calm
<1> QED BY PTL, <1>1, <1>2, <1>3 DEF Spec

\* So an instance without exceptions and deaths, or with just one process, always
\* reads the right sums.
THEOREM AxdimmResultsCorrect ==
  ASSUME BelowDummy, Calm PROVE Spec => []ResultsCorrect
BY PTL, SumsAreRight, CalmUndisturbed

-----------------------------------------------------------------------------
(* The refinement: what every step is to the service.                      *)

\* The phase of a host, as the refinement maps it.
PhaseOf(at, error) ==
  IF at = "idle" THEN "idle"
  ELSE IF at = "acquire" THEN "pending"
  ELSE IF error THEN "failing" ELSE "running"

Phase == [h \in Hosts |-> PhaseOf(pc[h], failed[h])]

\* Its value for a holder.
LEMMA HolderPhase ==
  ASSUME NEW at, at \notin {"idle", "acquire"}
  PROVE  PhaseOf(at, TRUE) = "failing" /\ PhaseOf(at, FALSE) = "running"
BY DEF PhaseOf

\* A step of one host changes its phase alone.
LEMMA OnePhase ==
  ASSUME NEW h \in Hosts, \A g \in Hosts \ {h} : pc'[g] = pc[g] /\ failed'[g] = failed[g]
  PROVE  /\ Phase[h] = PhaseOf(pc[h], failed[h])
         /\ Phase' = [Phase EXCEPT ![h] = PhaseOf(pc'[h], failed'[h])]
         /\ PhaseOf(pc'[h], failed'[h]) = Phase[h] => Phase' = Phase
<1>1. ASSUME NEW g \in Hosts, g # h PROVE Phase'[g] = Phase[g]
  <2>1. pc'[g] = pc[g] /\ failed'[g] = failed[g] BY <1>1
  <2> QED BY <2>1 DEF Phase
<1>2. Phase[h] = PhaseOf(pc[h], failed[h]) /\ Phase'[h] = PhaseOf(pc'[h], failed'[h])
  BY DEF Phase
<1> QED BY <1>1, <1>2 DEF Phase

\* The types that the refinement needs.
LEMMA HostTypes ==
  ASSUME AInv
  PROVE  /\ pc \in [Hosts -> HostPC] /\ failed \in [Hosts -> BOOLEAN] /\ req \in [Hosts -> Reqs]
         /\ step \in [Hosts -> Nat \ {0}] /\ blk \in [Hosts -> Blocks]
         /\ owner \in [Cunits -> Hosts \cup {NoHost}]
BY TypesHold DEF AInv, TypeOK

\* A host that starts an operation submits it.
LEMMA SubmitStep ==
  ASSUME AInv, NEW h \in Hosts, StartOp(h)
  PROVE  Service!Submit(h)
<1>1. /\ pc[h] = "idle" /\ pc'[h] = "acquire" /\ owner' = owner
      /\ \A g \in Hosts \ {h} : pc'[g] = pc[g] /\ failed'[g] = failed[g]
  BY HostTypes DEF StartOp, Goto
<1>2. Phase[h] = "idle" /\ Phase' = [Phase EXCEPT ![h] = "pending"]
  <2>1. /\ Phase[h] = PhaseOf("idle", failed[h])
        /\ Phase' = [Phase EXCEPT ![h] = PhaseOf("acquire", failed'[h])]
    BY <1>1, OnePhase
  <2> QED BY <2>1 DEF PhaseOf
<1>3. \E q \in Service!Requests(req[h].no + 1) :
        req' = [req EXCEPT ![h] = q] /\ out' = [out EXCEPT ![h] = Service!Nothing(q)]
  BY DEF StartOp
<1> QED BY <1>1, <1>2, <1>3 DEF Service!Submit, Phase, PhaseOf

\* A host that acquires a unit is granted it.
LEMMA GrantStep ==
  ASSUME AInv, NEW h \in Hosts, Progress(h), Acquire(h)
  PROVE  Service!Grant(h)
<1>1. /\ pc[h] = "acquire" /\ pc'[h] = "resetPoll" /\ req' = req /\ out' = out
      /\ \A g \in Hosts \ {h} : pc'[g] = pc[g] /\ failed'[g] = failed[g]
      /\ \E c \in req[h].pack : owner[c] = NoHost /\ owner' = [owner EXCEPT ![c] = h]
      /\ failed'[h] = failed[h]
  BY HostTypes DEF Acquire, Goto
<1>2. failed[h] = FALSE BY <1>1, HostTypes DEF Progress, Ends
<1>3. Phase[h] = "pending" /\ Phase' = [Phase EXCEPT ![h] = "running"]
  <2>1. /\ Phase[h] = PhaseOf("acquire", FALSE)
        /\ Phase' = [Phase EXCEPT ![h] = PhaseOf("resetPoll", FALSE)]
    BY <1>1, <1>2, OnePhase
  <2>2. PhaseOf("acquire", FALSE) = "pending" /\ PhaseOf("resetPoll", FALSE) = "running"
    BY DEF PhaseOf
  <2> QED BY <2>1, <2>2
<1> QED BY <1>1, <1>3 DEF Service!Grant, Phase, PhaseOf

\* An exception is a failure of the operation.
LEMMA FailStep ==
  ASSUME AInv, NEW h \in Hosts, Progress(h), Throw(h)
  PROVE  Service!Fail(h)
<1>1. /\ pc[h] = "generate" /\ pc'[h] = "stopThread" /\ owner' = owner /\ req' = req /\ out' = out
      /\ \A g \in Hosts \ {h} : pc'[g] = pc[g] /\ failed'[g] = failed[g]
      /\ failed'[h] = TRUE
  BY HostTypes DEF Throw, Goto
<1>2. failed[h] = FALSE BY <1>1, HostTypes DEF Progress, Ends
<1>3. Phase[h] = "running" /\ Phase' = [Phase EXCEPT ![h] = "failing"]
  <2>1. /\ Phase[h] = PhaseOf("generate", FALSE)
        /\ Phase' = [Phase EXCEPT ![h] = PhaseOf("stopThread", TRUE)]
    BY <1>1, <1>2, OnePhase
  <2>2. PhaseOf("generate", FALSE) = "running" /\ PhaseOf("stopThread", TRUE) = "failing"
    BY DEF PhaseOf
  <2> QED BY <2>1, <2>2
<1> QED BY <1>1, <1>3 DEF Service!Fail, Phase, PhaseOf

\* A unit is given back when everything is delivered, or after an error.
LEMMA ReleaseStep ==
  ASSUME AInv, NEW h \in Hosts, Progress(h), Release(h)
  PROVE  Service!Release(h)
<1>0. owner \in [Cunits -> Hosts \cup {NoHost}] /\ failed \in [Hosts -> BOOLEAN] /\ req[h] \in Reqs
  BY HostTypes
<1>1. /\ pc[h] = "release" /\ pc'[h] = "idle" /\ req' = req /\ out' = out
      /\ \A g \in Hosts \ {h} : pc'[g] = pc[g] /\ failed'[g] = failed[g]
      /\ owner' = [owner EXCEPT ![cu[h]] = NoHost]
  BY HostTypes DEF Release, Goto, hostData
<1>2. Phase[h] = PhaseOf(pc[h], failed[h]) /\ Phase' = [Phase EXCEPT ![h] = "idle"]
  <2>1. /\ Phase[h] = PhaseOf(pc[h], failed[h])
        /\ Phase' = [Phase EXCEPT ![h] = PhaseOf("idle", failed'[h])]
    BY <1>1, OnePhase
  <2> QED BY <2>1 DEF PhaseOf
<1>3. owner' = [c \in Cunits |-> IF owner[c] = h THEN NoHost ELSE owner[c]]
  <2>1. owner[cu[h]] = h BY <1>1 DEF AInv, IInv, Ownership, Holding
  <2>2. ASSUME NEW c \in Cunits, owner[c] = h PROVE cu[h] = c
    <3>1. owner[c] # NoHost BY <2>2, HostAssumption
    <3>2. cu[owner[c]] = c BY <3>1 DEF AInv, IInv, Ownership
    <3> QED BY <2>2, <3>2
  <2> QED BY <1>0, <1>1, <2>1, <2>2
<1>4. \/ Phase[h] = "failing"
      \/ /\ Phase[h] = "running"
         /\ \A i \in DOMAIN req[h].rows : \A b \in Service!Outputs(req[h]) : out[h][i][b] # <<>>
  <2>1. /\ PhaseOf("release", TRUE) = "failing" /\ PhaseOf("release", FALSE) = "running"
        /\ failed[h] \in BOOLEAN
    BY <1>0 DEF PhaseOf
  <2>2. CASE failed[h] = TRUE BY <1>1, <1>2, <2>1, <2>2
  <2>3. CASE failed[h] = FALSE
    <3>1. Phase[h] = "running" BY <1>1, <1>2, <2>1, <2>3
    <3>2. DOMAIN req[h].rows = 1 .. Execs(h) /\ Service!Outputs(req[h]) = Outputs(h)
      BY <1>0, RequestShape DEF Outputs
    <3>3. pc[h] \in Ends BY <1>1 DEF Ends
    <3> QED BY <2>3, <3>1, <3>2, <3>3, AllRead
  <2> QED BY <2>1, <2>2, <2>3
<1> QED
  BY <1>1, <1>2, <1>3, <1>4 DEF Service!Release, Service!Delivered, Phase, PhaseOf

\* A host that reads an output block is delivered it.
LEMMA DeliverStep ==
  ASSUME AInv, NEW h \in Hosts, Progress(h), Data(h), CopyOut(h)
  PROVE  /\ step[h] - 1 \in DOMAIN req[h].rows /\ blk[h] \in Service!Blocks
         /\ Service!Deliver(h, step[h] - 1, blk[h])
<1> DEFINE i == step[h] - 1
<1>0. req[h] \in Reqs /\ step[h] \in Nat \ {0} /\ blk[h] \in Blocks /\ failed \in [Hosts -> BOOLEAN]
  BY HostTypes
<1>1. /\ pc[h] = "copy" /\ pc'[h] = "clean" /\ owner' = owner /\ req' = req
      /\ \A g \in Hosts \ {h} : pc'[g] = pc[g] /\ failed'[g] = failed[g]
      /\ failed'[h] = failed[h]
  BY HostTypes DEF CopyOut, Goto
<1>2. failed[h] = FALSE BY <1>0, <1>1 DEF Progress, Ends
<1>3. Phase[h] = "running" /\ Phase' = Phase
  <2>1. PhaseOf("copy", FALSE) = "running" /\ PhaseOf("clean", FALSE) = "running"
    BY DEF PhaseOf
  <2>2. PhaseOf(pc[h], failed[h]) = "running" /\ PhaseOf(pc'[h], failed'[h]) = "running"
    BY <1>1, <1>2, <2>1
  <2> QED BY <1>1, <2>2, OnePhase
<1>4. /\ DOMAIN req[h].rows = 1 .. Execs(h) /\ Execs(h) \in Nat /\ step[h] <= Execs(h) + 1
      /\ step[h] > 1 /\ blk[h] \in Outputs(h) /\ "PSUM" \in Outputs(h)
      /\ Service!Outputs(req[h]) = Outputs(h)
  BY <1>0, <1>1, RequestShape DEF Progress, Outputs
<1>5. i \in 1 .. Execs(h) /\ i + 1 = step[h] /\ ~(i + 1 < step[h]) BY SMT, <1>0, <1>4
<1>6. \A j \in 1 .. i - 1 : j \in 1 .. Execs(h) /\ j + 1 < step[h] BY SMT, <1>0, <1>4
<1>7. ~(out[h][i][blk[h]] # <<>>)
  <2>1. ~Read(h, i, blk[h]) BY <1>1, <1>5 DEF Read
  <2> QED BY <1>0, <1>4, <1>5, <2>1, DeliveredRead
<1>8. \A j \in 1 .. i - 1 : \A d \in Outputs(h) : out[h][j][d] # <<>>
  <2>1. ASSUME NEW j \in 1 .. i - 1, NEW d \in Outputs(h) PROVE out[h][j][d] # <<>>
    <3>1. j \in 1 .. Execs(h) /\ Read(h, j, d) BY <1>6 DEF Read
    <3> QED BY <1>0, <3>1, DeliveredRead
  <2> QED BY <2>1
<1>9. ASSUME blk[h] = "TAGS" PROVE out[h][i]["PSUM"] # <<>>
  <2>1. Read(h, i, "PSUM") BY <1>1, <1>5, <1>9 DEF Read
  <2> QED BY <1>0, <1>4, <1>5, <2>1, DeliveredRead
<1>10. out' = [out EXCEPT ![h][i][blk[h]] = Service!Expected(h, req[h], i)]
  BY CopyProgress
<1>11. blk[h] \in Service!Blocks BY <1>0 DEF Blocks
<1> HIDE DEF i
<1>12. Service!Deliver(h, i, blk[h])
  BY <1>1, <1>3, <1>4, <1>5, <1>7, <1>8, <1>9, <1>10
     DEF Service!Deliver, Service!Delivered, Phase, PhaseOf
<1> QED BY <1>4, <1>5, <1>11, <1>12 DEF i

\* The other steps of a holder and the steps of the workers are internal.
LEMMA InternalStep ==
  ASSUME AInv, \/ \E h \in Hosts : HostStep(h) /\ ~Release(h) /\ ~CopyOut(h)
               \/ \E p \in Procs, c \in Cunits : WorkerStep(p, c)
               \/ UNCHANGED vars
  PROVE  UNCHANGED Service!serviceVars
<1>1. ASSUME NEW h \in Hosts, HostStep(h), ~Release(h), ~CopyOut(h)
      PROVE  owner' = owner /\ Phase' = Phase /\ req' = req /\ out' = out
  <2>0. pc \in [Hosts -> HostPC] /\ failed \in [Hosts -> BOOLEAN] BY HostTypes
  <2>1. LocalData(h) BY <1>1, HostLocal
  <2>2. owner' = owner /\ \A g \in Hosts \ {h} : pc'[g] = pc[g] /\ failed'[g] = failed[g]
    BY <2>1 DEF LocalData
  <2>3. Holding(h) BY <1>1, StepHolds
  <2>4. req' = req /\ out' = out /\ failed' = failed /\ Holding(h)'
    <3>1. CASE StartExec(h) BY <2>0, <3>1 DEF StartExec, Goto, AfterRun, Holding
    <3>2. CASE CleanRead(h) BY <3>2, CleanFacts DEF AfterRun, Holding
    <3>3. CASE ~StartExec(h) /\ ~CleanRead(h)
      <4>1. Moves(h) BY <1>1, <3>3, HostMoves
      <4> QED BY <4>1 DEF Moves, Holding
    <3> QED BY <3>1, <3>2, <3>3
  <2>5. /\ PhaseOf(pc[h], TRUE) = PhaseOf(pc'[h], TRUE)
        /\ PhaseOf(pc[h], FALSE) = PhaseOf(pc'[h], FALSE)
    BY <2>3, <2>4, HolderPhase DEF Holding
  <2>6. failed[h] = TRUE \/ failed[h] = FALSE BY <2>0
  <2>7. PhaseOf(pc'[h], failed'[h]) = PhaseOf(pc[h], failed[h]) BY <2>4, <2>5, <2>6
  <2>8. Phase' = Phase BY <2>2, <2>7, OnePhase
  <2> QED BY <2>2, <2>4, <2>8
<1>2. ASSUME NEW p \in Procs, NEW c \in Cunits, WorkerStep(p, c)
      PROVE  owner' = owner /\ pc' = pc /\ failed' = failed /\ req' = req /\ out' = out
  BY <1>2 DEF WorkerStep, WorkerBegin, WorkerCheckStop, WorkerLoad, WorkerExec,
                     WorkerComplete, hostData
<1>3. ASSUME UNCHANGED vars
      PROVE  owner' = owner /\ pc' = pc /\ failed' = failed /\ req' = req /\ out' = out
  BY <1>3 DEF vars, hostData
<1>4. ASSUME pc' = pc, failed' = failed PROVE Phase' = Phase BY <1>4 DEF Phase
<1>5. owner' = owner /\ Phase' = Phase /\ req' = req /\ out' = out
  BY <1>1, <1>2, <1>3, <1>4
<1> QED BY <1>5 DEF Service!serviceVars, Phase, PhaseOf

\* What a step is to the service: one of its steps, or a death.
Serves == Undisturbed' => Service!Next \/ \E p \in Procs : Crash(p)

\* Every step of the hosts, the workers and the units is one of these, or hidden
\* from the service.
LEMMA StepServes ==
  ASSUME AInv, Results, [Next]_vars PROVE [Serves]_(Service!serviceVars)
<1> SUFFICES ASSUME Undisturbed'
             PROVE  Service!Next \/ (\E p \in Procs : Crash(p)) \/ UNCHANGED Service!serviceVars
  BY DEF Serves
<1>1. RInv BY StaysDisturbed DEF Results
<1>2. CASE \E h \in Hosts : StartOp(h) BY <1>2, SubmitStep DEF Service!Next
<1>3. CASE \E h \in Hosts : Acquire(h) \/ Throw(h) \/ Release(h)
  <2>1. PICK h \in Hosts : Acquire(h) \/ Throw(h) \/ Release(h) BY <1>3
  <2>2. pc[h] \in {"acquire", "generate", "release"} BY <2>1 DEF Acquire, Throw, Release
  <2>3. Progress(h) BY <1>1, <2>2 DEF RInv
  <2> QED BY <2>1, <2>3, GrantStep, FailStep, ReleaseStep DEF Service!Next
<1>4. CASE \E h \in Hosts : CopyOut(h)
  <2>1. PICK h \in Hosts : CopyOut(h) BY <1>4
  <2>2. pc[h] = "copy" BY <2>1 DEF CopyOut
  <2>3. Progress(h) /\ Data(h) BY <1>1, <2>2 DEF RInv, Used, Holding, Fresh
  <2> QED BY <2>1, <2>3, DeliverStep DEF Service!Next
<1>5. CASE \/ \E h \in Hosts : HostStep(h) /\ ~Release(h) /\ ~CopyOut(h)
           \/ \E p \in Procs, c \in Cunits : WorkerStep(p, c)
           \/ UNCHANGED vars
  BY <1>5, InternalStep
<1> QED BY <1>2, <1>3, <1>4, <1>5 DEF Next, Finished

\* The initial states are those of the service.
LEMMA InitServes == Init => Service!Init
<1> SUFFICES ASSUME Init PROVE Service!Init
  OBVIOUS
<1>1. Phase = [h \in Hosts |-> "idle"] BY DEF Init, Phase, PhaseOf
<1> QED BY <1>1 DEF Init, Service!Init, Phase, PhaseOf

\* The register protocol, the double buffering and the clearing implement the
\* reduction service for as long as nothing was disturbed, up to deaths.
THEOREM AxdimmServes ==
  ASSUME BelowDummy PROVE Spec => Service!Init /\ [][Serves]_(Service!serviceVars)
BY PTL, InitServes, StepServes, SharedInvariant, ResultsInvariance DEF Spec

\* Without deaths, and without exceptions unless there is just one process, they
\* implement it.
THEOREM AxdimmImplementsService ==
  ASSUME BelowDummy, Calm, MaxCrashes = 0 PROVE Spec => ImplementsService
<1>1. ASSUME AInv, Undisturbed', [Serves]_(Service!serviceVars), [Next]_vars
      PROVE  [Service!Next]_(Service!serviceVars)
  <2>1. ASSUME NEW p \in Procs, Crash(p) PROVE FALSE
    <3>1. crashes \in Nat /\ crashes < MaxCrashes BY <1>1, <2>1 DEF AInv, Crash
    <3> QED BY SMT, <3>1
  <2> QED BY <1>1, <2>1 DEF Serves
<1> QED
  BY PTL, <1>1, AxdimmServes, SharedInvariant, CalmUndisturbed DEF Spec, ImplementsService, Service!Spec
=============================================================================
