------------------------------ MODULE SecureSls ------------------------------
(***************************************************************************)
(* Secure SLS: tables are encrypted with one-time pads before they go to   *)
(* the device, the device sums encrypted rows, threads of the host sum the *)
(* pads of the same rows meanwhile, and the two sums together are the sum  *)
(* of the plain rows.  With tags the device also sums encrypted checksums, *)
(* and a row whose checksum does not match is not given to the caller.     *)
(*                                                                         *)
(* Entries are numbers modulo EntryMod and tags modulo TagMod, as 2^32 and *)
(* 2^128 in the code.  Addresses of pads count entries, and a pad has one  *)
(* entry.  The pads, AES of prefix, version and address in the code, are   *)
(* any functions of the address.                                           *)
(***************************************************************************)
EXTENDS Integers, Sequences, FiniteSets, FiniteSetsExt, SequencesExt

CONSTANTS
  EntryMod, TagMod,
  Features,            \* entries of a row
  BatchRows,           \* rows_per_batch of the preprocessor, not 0: a row fits its buffer of 8192 bytes
  Tables,              \* the plain tables, sequences of rows
  Pad(_), TagPad(_),   \* pads with prefix 0x00 and 0x10, by address
  Power(_),            \* the factor of an entry in a checksum: s, s^2, s^4, ... for s made with prefix 0x01
  Requests,            \* [lengths, indices], a sequence per table each
  MiniBatch,
  Workers,             \* not empty: with SLS_OTP_NUM_THREADS = 0 no run ends
  MaxRuns              \* bound: runs of the executor

VARIABLES
  pc,
  tagged, sync,            \* with_tag; SlsSync instead of the thread pool
  left, offset, offsets,   \* load_impl: rows not read yet, slice_offset, table_offsets
  device,                  \* device[t]: the encrypted rows of table t, each with its tag
  req, runs,
  epsum, cpsum,            \* buffers_.epsum and the sums from the device: [row, tag]
  queue, running,          \* the thread pool: tasks waiting, and by worker [table, next]
  results,                 \* tables whose futures have not been waited for
  user, checks, verified,  \* the caller's psum and checks, and the value returned
  failed                   \* a run has ended with an exception of the device

loadVars == <<tagged, sync, left, offset, offsets, device>>
poolVars == <<queue, running>>
userVars == <<user, checks, verified>>
vars == <<pc, loadVars, req, runs, epsum, cpsum, poolVars, results, userVars, failed>>

Nt == Len(Tables)
Rows == 1..(Nt * MiniBatch)     \* a row of results: table t, batch b
RowOf(t, b) == (t - 1) * MiniBatch + b
TableOf(k) == (k - 1) \div MiniBatch + 1
BatchOf(k) == ((k - 1) % MiniBatch) + 1
Zero == [f \in 1..Features |-> 0]
Idle == [table |-> 0, next |-> 0]

-----------------------------------------------------------------------------
(* Engines                                                                  *)

AddRows(x, y) == [f \in 1..Features |-> (x[f] + y[f]) % EntryMod]
RowSum(rows) == FoldSeq(AddRows, Zero, rows)
TagSum(tags) == FoldSeq(LAMBDA x, y : (x + y) % TagMod, 0, tags)

\* The pads of the row at an address.
otp(address) == [f \in 1..Features |-> Pad(address + f - 1)]

encrypt(row, address) == [f \in 1..Features |-> (row[f] - otp(address)[f]) % EntryMod]

linear_checksum(row) == FoldFunction(LAMBDA x, y : (x + y) % TagMod, 0,
                                     [f \in 1..Features |-> Power(f) * row[f]])

generate_mac(row, address) == (linear_checksum(row) - TagPad(address)) % TagMod

validate_psum(row, computed_tag_sum, generated_tag_sum) ==
  linear_checksum(row) = (computed_tag_sum + generated_tag_sum) % TagMod

-----------------------------------------------------------------------------
(* load_tables                                                              *)

batch_offset(t) == offset

\* One turn of the loop over batches of a table: read, tag, encrypt and write
\* row by row, each with an offset of its own.
LoadBatch ==
  /\ pc = "load" /\ Len(offsets) > 0 /\ left > 0
  /\ LET t     == Len(offsets)
         count == Min({left, BatchRows})
         first == Len(Tables[t]) - left
         at(k) == batch_offset(t) + (k - 1) * Features
     IN /\ device' = [device EXCEPT ![t] = @ \o
              [k \in 1..count |->
                 [row |-> encrypt(Tables[t][first + k], at(k)),
                  tag |-> IF tagged THEN generate_mac(Tables[t][first + k], at(k)) ELSE 0]]]
        /\ left' = left - count /\ offset' = offset + count * Features
  /\ UNCHANGED <<pc, tagged, sync, offsets, req, runs, epsum, cpsum, poolVars, results, userVars, failed>>

NextTable ==
  /\ pc = "load" /\ left = 0 /\ Len(offsets) < Nt
  /\ offsets' = Append(offsets, offset) /\ left' = Len(Tables[Len(offsets) + 1])
  /\ UNCHANGED <<pc, tagged, sync, offset, device, req, runs, epsum, cpsum, poolVars, results, userVars, failed>>

\* device_.load: the device has its own copy of the encrypted rows from now on.
LoadDevice ==
  /\ pc = "load" /\ left = 0 /\ Len(offsets) = Nt
  /\ pc' = "ready"
  /\ UNCHANGED <<loadVars, req, runs, epsum, cpsum, poolVars, results, userVars, failed>>

-----------------------------------------------------------------------------
(* run_sls on the caller's thread                                           *)

\* The lookups of batch b of table t.
lookup(r, t, b) ==
  LET before == FoldSeq(+, 0, SubSeq(r.lengths[t], 1, b - 1))
  IN SubSeq(r.indices[t], before + 1, before + r.lengths[t][b])

\* resize keeps what is there; reorder_indices replaces the views that tasks of an
\* unfinished run still use.
StartRun ==
  /\ pc = "ready" /\ runs < MaxRuns
  /\ req' \in Requests
  /\ IF queue # <<>> \/ \E w \in Workers : running[w] # Idle
     THEN pc' = "undefined" /\ UNCHANGED <<runs, epsum, userVars>>
     ELSE /\ pc' = "submit" /\ runs' = runs + 1
          /\ epsum' = [k \in Rows |-> IF k \in DOMAIN epsum THEN epsum[k] ELSE [row |-> Zero, tag |-> 0]]
          /\ user' = [k \in Rows |-> Zero] /\ checks' = [k \in Rows |-> FALSE] /\ verified' = FALSE
  /\ UNCHANGED <<loadVars, cpsum, poolVars, results, failed>>

\* The future of table t's task is ready.
Ended(t) == t \notin Range(queue) /\ \A w \in Workers : running[w] = Idle \/ running[w].table # t

\* One task for each table.  Futures of a run that failed are ready by now, and
\* still in the vector.
Submit ==
  /\ pc = "submit" /\ pc' = "device"
  /\ queue' = [t \in 1..Nt |-> t]
  /\ results' = [k \in DOMAIN results |-> 0] \o [t \in 1..Nt |-> t]
  /\ UNCHANGED <<loadVars, req, runs, epsum, cpsum, running, userVars, failed>>

\* What the device computes for a batch of a table: TrivialCPU's compute and
\* compute_with_tag, and what a reduction on the untrusted device amounts to.
compute(t, b) ==
  LET l == lookup(req, t, b)
  IN [row |-> RowSum([n \in DOMAIN l |-> device[t][l[n]].row]),
      tag |-> TagSum([n \in DOMAIN l |-> device[t][l[n]].tag])]

\* The call of the device, after all tasks when they run in the caller's thread.
RunDevice ==
  /\ pc = "device" /\ pc' = "wait"
  /\ sync => \A t \in 1..Nt : Ended(t)
  /\ cpsum' = [k \in Rows |-> compute(TableOf(k), BatchOf(k))]
  /\ UNCHANGED <<loadVars, req, runs, epsum, poolVars, results, userVars, failed>>

\* The device throws: the exception leaves run_sls with the tasks still in the pool.
DeviceThrows ==
  /\ pc = "device" /\ pc' = "ready" /\ failed' = TRUE
  /\ sync => \A t \in 1..Nt : Ended(t)
  /\ UNCHANGED <<loadVars, req, runs, epsum, cpsum, poolVars, results, userVars>>

\* A slip, in no specification: the first future stands for all of them.
WaitFirst ==
  /\ pc = "wait" /\ Ended(Head(results))
  /\ results' = <<>> /\ pc' = "decrypt"
  /\ UNCHANGED <<loadVars, req, runs, epsum, cpsum, poolVars, userVars, failed>>

\* result.get() of one future after the other, results.clear() behind the last.
Wait ==
  /\ pc = "wait" /\ Ended(Head(results))
  /\ results' = Tail(results)
  /\ pc' = IF Len(results) = 1 THEN "decrypt" ELSE "wait"
  /\ UNCHANGED <<loadVars, req, runs, epsum, cpsum, poolVars, userVars, failed>>

copied(ok) == ok

\* decrypt_psum of a row, and its check.
plain_row(k) == AddRows(cpsum[k].row, epsum[k].row)
row_ok(k) == tagged => validate_psum(plain_row(k), cpsum[k].tag, epsum[k].tag)

\* decrypt, and make_user_psum when there are tags.
Decrypt ==
  /\ pc = "decrypt" /\ pc' = "returned"
  /\ checks' = [k \in Rows |-> tagged /\ row_ok(k)]
  /\ user' = [k \in Rows |-> IF tagged => copied(row_ok(k)) THEN plain_row(k) ELSE user[k]]
  /\ verified' = \A k \in Rows : row_ok(k)
  /\ UNCHANGED <<loadVars, req, runs, epsum, cpsum, poolVars, results, failed>>

Return ==
  /\ pc = "returned" /\ pc' = "ready"
  /\ UNCHANGED <<loadVars, req, runs, epsum, cpsum, poolVars, results, userVars, failed>>

-----------------------------------------------------------------------------
(* Tasks                                                                    *)

\* The rows that a loop over a variable_row view visits: its iterators are equal
\* when their positions are, so it ends before trailing rows of length 0.
visited(lengths) ==
  Cardinality({b \in 1..Len(lengths) :
    FoldSeq(+, 0, SubSeq(lengths, 1, b - 1)) # FoldSeq(+, 0, lengths)})

\* The caller itself runs the tasks one by one when sync.
TakeTask(w) ==
  /\ running[w] = Idle /\ queue # <<>> /\ pc # "undefined"
  /\ sync => \A v \in Workers : running[v] = Idle
  /\ running' = [running EXCEPT ![w] = [table |-> Head(queue), next |-> 1]]
  /\ queue' = Tail(queue)
  /\ UNCHANGED <<pc, loadVars, req, runs, epsum, cpsum, results, userVars, failed>>

\* A slip, in no specification: the table's offset is left out.
fill_offset_local(t, index) == (index - 1) * Features
fill_offset(t, index) == offsets[t] + (index - 1) * Features

\* The two offset_transform_reduce_vec over the rows of a lookup.
pad_sum(at) == RowSum([n \in DOMAIN at |-> otp(at[n])])
tag_pad_sum(at) == TagSum([n \in DOMAIN at |-> TagPad(at[n])])

\* perform_sls, one lookup: the pads of its rows go into the task's part of epsum.
SumPads(w) ==
  /\ running[w] # Idle /\ running[w].next <= visited(req.lengths[running[w].table]) /\ pc # "undefined"
  /\ LET t  == running[w].table
         l  == lookup(req, t, running[w].next)
         at == [n \in DOMAIN l |-> fill_offset(t, l[n])]
     IN epsum' = [epsum EXCEPT ![RowOf(t, running[w].next)] =
          [row |-> pad_sum(at), tag |-> IF tagged THEN tag_pad_sum(at) ELSE @.tag]]
  /\ running' = [running EXCEPT ![w].next = @ + 1]
  /\ UNCHANGED <<pc, loadVars, req, runs, cpsum, queue, results, userVars, failed>>

EndTask(w) ==
  /\ running[w] # Idle /\ running[w].next > visited(req.lengths[running[w].table]) /\ pc # "undefined"
  /\ running' = [running EXCEPT ![w] = Idle]
  /\ UNCHANGED <<pc, loadVars, req, runs, epsum, cpsum, queue, results, userVars, failed>>

-----------------------------------------------------------------------------

Init ==
  /\ pc = "load" /\ left = 0 /\ offset = 0 /\ offsets = <<>>
  /\ tagged \in BOOLEAN /\ sync \in BOOLEAN
  /\ device = [t \in 1..Nt |-> <<>>]
  /\ req = [lengths |-> <<>>, indices |-> <<>>] /\ runs = 0
  /\ epsum = <<>> /\ cpsum = <<>>
  /\ queue = <<>> /\ running = [w \in Workers |-> Idle] /\ results = <<>>
  /\ user = [k \in Rows |-> Zero] /\ checks = [k \in Rows |-> FALSE] /\ verified = FALSE
  /\ failed = FALSE

Load == LoadBatch \/ NextTable \/ LoadDevice
Host == StartRun \/ Submit \/ RunDevice \/ DeviceThrows \/ Wait \/ Decrypt \/ Return
Worker(w) == TakeTask(w) \/ SumPads(w) \/ EndTask(w)

Next == Load \/ Host \/ \E w \in Workers : Worker(w)

\* The caller may stop calling, but a run that was started goes on.
Started == Load \/ (pc # "ready" /\ Host)

Spec ==
  /\ Init /\ [][Next]_vars
  /\ WF_vars(Started) /\ \A w \in Workers : WF_vars(Worker(w))

-----------------------------------------------------------------------------
(* Properties                                                               *)

Entries == 0..(EntryMod - 1)
Sums == [row : [1..Features -> Entries], tag : 0..(TagMod - 1)]

\* The state of the executor, its buffers and its threads stays in the types that
\* the members of OperationExecutor have.
TypeOK ==
  /\ pc \in {"load", "ready", "submit", "device", "wait", "decrypt", "returned", "undefined"}
  /\ left \in Nat /\ offset \in Nat /\ \A t \in DOMAIN offsets : offsets[t] \in Nat
  /\ runs \in 0..MaxRuns
  /\ epsum = <<>> \/ epsum \in [Rows -> Sums]
  /\ cpsum = <<>> \/ cpsum \in [Rows -> Sums]
  /\ \A t \in 1..Nt : Range(device[t]) \subseteq Sums
  /\ \A w \in Workers : running[w].table \in 0..Nt /\ running[w].next \in 0..(MiniBatch + 1)

PlainRows(k) ==
  LET l == lookup(req, TableOf(k), BatchOf(k))
  IN [n \in DOMAIN l |-> Tables[TableOf(k)][l[n]]]

\* No entry of the sum of row k leaves the range of the entries.
InRange(k) ==
  \A f \in 1..Features :
    FoldSeq(LAMBDA x, y : x[f] + y, 0, PlainRows(k)) < EntryMod

RowCorrect(k) ==
  /\ (tagged => checks[k]) => user[k] = RowSum(PlainRows(k))
  /\ InRange(k) /\ tagged => checks[k]

\* A run returns the sums of the plain rows of its lookups, and with an honest
\* device and sums in range every check succeeds, for every lookup that a task has
\* visited, and for all lookups in an executor's first run.
ResultsCorrect ==
  pc = "returned" =>
    \A k \in Rows :
      runs = 1 \/ BatchOf(k) <= visited(req.lengths[TableOf(k)]) => RowCorrect(k)

\* The row view's promise: it has as many rows as it has lengths, so each row of the
\* result is correct in every run.
AllRowsCorrect == pc = "returned" => \A k \in Rows : RowCorrect(k)

\* Sums are combined, and buffers taken for another run, only when no task writes to
\* them: a run that returns has no task left, and only after an exception of the
\* device can a run meet tasks of an earlier one.
NoTaskBehindRun ==
  /\ pc \in {"decrypt", "returned"} => queue = <<>> /\ \A w \in Workers : running[w] = Idle
  /\ pc = "undefined" => failed

=============================================================================
