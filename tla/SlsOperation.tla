---------------------------- MODULE SlsOperation ----------------------------
(***************************************************************************)
(* An SLS operation from the caller's arrays to the caller's PSUM buffer:  *)
(* the executions of ExecutionGenerator, the addresses ExecutionPacksData  *)
(* computes for their chunks, the instruction traces, and write_result.    *)
(*                                                                         *)
(* A lookup is its position in the caller's indices array; the sum of a    *)
(* batch is the sequence of the lookups that were added, because sums of   *)
(* floats depend on their order.  A device buffer starts from zero and     *)
(* belongs to one execution, which is what run_on_pack promises.  Packs    *)
(* are run by different threads, so their executions interleave.           *)
(***************************************************************************)
EXTENDS ExecutionGenerator
LOCAL INSTANCE FiniteSetsExt

VARIABLES
  ran,    \* ran[k]: executions of pack k that were run
  psum    \* psum[t * MiniBatch + b]: the caller's sum of batch b of table t

runVars == <<ran, psum>>
opVars == <<genVars, runVars>>

OperationInit ==
  /\ GenInit
  /\ ran = [k \in Packs |-> 0]
  /\ psum = [f \in Flat |-> <<>>]
-----------------------------------------------------------------------------
(* ExecutionPacksData.                                                     *)

\* std::accumulate over lengths, from position a up to position b.
accumulate(a, b) ==
  LET sum[i \in a .. b] == IF i = a THEN 0 ELSE sum[i - 1] + lengths[i - 1] IN sum[b]

\* init_tables_indexing_data goes through the tables in order.
indices_offset(t) ==
  LET at[i \in Tables] ==
        IF i = 0 THEN 0
        ELSE at[i - 1] + accumulate((i - 1) * MiniBatch, i * MiniBatch)
  IN  at[t]
lengths_offset(t) == t * MiniBatch

\* Slips, in no specification: the offset of the chunk is left out.
index_exec_of_table(d) == indices_offset(d.id)
psum_addr_of_table(d)  == d.id * MiniBatch

\* The addresses of a chunk: its first lookup, its first length, its result.
index_exec(d) ==
  indices_offset(d.id) + accumulate(lengths_offset(d.id), lengths_offset(d.id) + d.offset)
length_exec(d) == lengths_offset(d.id) + d.offset
psum_addr(d)   == d.id * MiniBatch + d.offset
-----------------------------------------------------------------------------
(* TraceGeneratorCore.                                                     *)

\* A slip, in no specification: the first batch decides the number of columns.
object_columns_of_first(d) == lengths[length_exec(d)]

\* write_object_trace visits the columns while any batch of the chunk has one.
object_columns(d) ==
  Max({lengths[length_exec(d) + b] : b \in 0 .. d.chunk - 1})

\* The instructions of one chunk, column by column: the lookup that is added
\* and the row of the output buffer it is added to.
object_trace(d, base) ==
  LET first[b \in 0 .. d.chunk] ==
        IF b = 0 THEN index_exec(d) ELSE first[b - 1] + lengths[length_exec(d) + b - 1]
      upto[n \in 0 .. object_columns(d) * d.chunk] ==
        IF n = 0 THEN <<>>
        ELSE LET column == (n - 1) \div d.chunk
                 b      == (n - 1) % d.chunk
             IN  IF column < lengths[length_exec(d) + b]
                   THEN Append(upto[n - 1], [lookup |-> first[b] + column, out |-> base + b])
                   ELSE upto[n - 1]
  IN  upto[object_columns(d) * d.chunk]

\* generate_instructions, and where each chunk's rows begin in the output.
batch_base(e) ==
  [j \in 1 .. Len(e.tables) |->
     LET before[i \in 1 .. j] == IF i = 1 THEN 0 ELSE before[i - 1] + e.tables[i - 1].chunk
     IN  before[j]]
trace(e) ==
  LET upto[j \in 0 .. Len(e.tables)] ==
        IF j = 0 THEN <<>>
        ELSE upto[j - 1] \o object_trace(e.tables[j], batch_base(e)[j])
  IN  upto[Len(e.tables)]
-----------------------------------------------------------------------------
(* Running an execution.                                                   *)

\* The compute unit adds every lookup of the trace to its row.
output(e, row) ==
  LET here == SelectSeq(trace(e), LAMBDA ins : ins.out = row)
  IN  [i \in 1 .. Len(here) |-> here[i].lookup]

\* write_result copies the rows of each chunk to the chunk's place in psum.
written(e) ==
  [f \in Flat |->
     LET owners == {j \in 1 .. Len(e.tables) :
                      f \in psum_addr(e.tables[j]) .. psum_addr(e.tables[j]) + e.tables[j].chunk - 1}
     IN  IF owners = {} THEN psum[f]
         ELSE LET j == Max(owners)
              IN  output(e, batch_base(e)[j] + f - psum_addr(e.tables[j]))]

\* run_on_pack of pack k goes through the pack's executions in order.
RunExec(k) ==
  /\ Generated /\ ran[k] < Len(exec_packs[k])
  /\ psum' = written(exec_packs[k][ran[k] + 1])
  /\ ran' = [ran EXCEPT ![k] = @ + 1]
  /\ UNCHANGED genVars

AllRun == Generated /\ \A k \in Packs : ran[k] = Len(exec_packs[k])

OperationNext ==
  \/ GenerateStep /\ UNCHANGED runVars
  \/ \E k \in Packs : RunExec(k)
  \/ AllRun /\ UNCHANGED opVars

OperationSpec == OperationInit /\ [][OperationNext]_opVars
-----------------------------------------------------------------------------
OperationTypeOK ==
  /\ GenTypeOK
  /\ ran \in [Packs -> 0 .. NumTables * MiniBatch]
  /\ psum \in [Flat -> Seq(Nat)]

\* The sum of the batch at position f: as many lookups as its length says,
\* after the lookups of all the batches before it.
Reference(f) == [i \in 1 .. lengths[f] |-> accumulate(0, f) + i - 1]

\* Whatever the split into executions, the column-wise order of instructions and
\* the order in which the packs run: every batch gets its own lookups, in the
\* order of the indices array, and at the end no batch is without its sum.
SumsComplete ==
  \A f \in Flat :
    /\ psum[f] \in {<<>>, Reference(f)}
    /\ AllRun => psum[f] = Reference(f)

\* write_result of one execution never touches a sum that another one wrote.
NoOverwrite ==
  [][\A f \in Flat : psum[f] # <<>> => psum'[f] = psum[f]]_opVars

\* The trace generator emits as many instructions as the execution generator
\* has counted against the instruction buffer.
TraceAsCounted ==
  Generated => \A k \in Packs : \A i \in DOMAIN exec_packs[k] :
    Len(trace(exec_packs[k][i])) = exec_packs[k][i].lookups
=============================================================================
