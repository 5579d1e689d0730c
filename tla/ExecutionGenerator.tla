------------------------- MODULE ExecutionGenerator -------------------------
(***************************************************************************)
(* How an SLS operation is cut into executions that fit into the buffers   *)
(* of a compute unit: ExecutionGenerator::generate, called once from the   *)
(* constructor of SparseReduction.                                         *)
(*                                                                         *)
(* The tables of a pack are visited in the order of its layout, the        *)
(* batches of a table in order.  A step of the model is one iteration of   *)
(* the innermost loop, or the end of a pack.  Sizes are counted in         *)
(* instructions and in sparse vectors; lengths is the caller's flat array. *)
(***************************************************************************)
EXTENDS Integers, Sequences

CONSTANTS
  NumTables,       \* embedding tables
  MiniBatch,       \* batches of each table
  NumPacks,        \* packs have the identifiers 1 .. NumPacks
  Layouts,         \* the lists of tables that packs may have
  LookupCounts,    \* how many lookups a batch may have
  InstPerBuf,      \* inst_per_single_buf_no_header()
  FeaturesPerBuf,  \* sparse vectors in one PSUM buffer
  Dividers         \* values of the instruction buffer's divider

Tables == 0 .. NumTables - 1
Packs  == 1 .. NumPacks
Flat   == 0 .. NumTables * MiniBatch - 1

ASSUME SizeAssumption ==
  /\ NumTables \in Nat \ {0} /\ MiniBatch \in Nat \ {0} /\ NumPacks \in Nat \ {0}
  /\ InstPerBuf \in Nat \ {0} /\ FeaturesPerBuf \in Nat \ {0}
  /\ Dividers \subseteq 1 .. InstPerBuf /\ LookupCounts \subseteq Nat
ASSUME LayoutAssumption ==
  /\ Layouts \subseteq [Packs -> Seq(Tables)]
  /\ \A l \in Layouts : \A t \in Tables :
       \E k \in Packs : \E i \in DOMAIN l[k] :
         \A m \in Packs : \A j \in DOMAIN l[m] : l[m][j] = t <=> m = k /\ j = i

VARIABLES
  lengths,         \* lengths[t * MiniBatch + b]: lookups of batch b of table t
  layout,          \* tables_layout_
  max_inst,        \* max_inst_in_buf_
  pack, obj, batch,\* the three loops
  current,         \* current_exec_
  tables_batches,  \* batches of each table that are committed
  exec_packs       \* the finished executions of each pack

inputs == <<lengths, layout, max_inst>>
loop   == <<pack, obj, batch>>
genVars == <<inputs, loop, current, tables_batches, exec_packs>>

Unset == -1        \* batch_offset_ of a table whose batches are not committed
EmptyExec == [tables |-> <<>>, lookups |-> 0, batches |-> 0]

\* The instruction buffer is used up to a fraction of its size, but not below
\* the longest batch.
LargestOf(S) == {m \in S : \A n \in S : n <= m}
instr_buffer_size(d) == LargestOf({InstPerBuf \div d} \cup {lengths[i] : i \in Flat})

GenInit ==
  /\ lengths \in [Flat -> LookupCounts]
  /\ layout \in Layouts
  /\ \E d \in Dividers : max_inst \in instr_buffer_size(d)
  /\ pack = 1 /\ obj = 1 /\ batch = 0
  /\ current = EmptyExec
  /\ tables_batches = [t \in Tables |-> 0]
  /\ exec_packs = [k \in Packs |-> <<>>]
-----------------------------------------------------------------------------
(* Execution.                                                              *)

LastTable(e) == e.tables[Len(e.tables)]

\* commit_table_batches: what it does to the execution and to the counts.
CommitTable(e, counts) ==
  [e EXCEPT !.tables[Len(e.tables)].offset = counts[LastTable(e).id]]
CommitCount(e, counts) ==
  [counts EXCEPT ![LastTable(e).id] = @ + LastTable(e).chunk]

Switches(e, t) == e.tables # <<>> /\ LastTable(e).id # t

\* add_batch: the same for one more batch, of n lookups, of table t.
AddToExec(e, counts, t, n) ==
  [tables |->
     IF e.tables # <<>> /\ ~Switches(e, t)
       THEN [e.tables EXCEPT ![Len(e.tables)].chunk = @ + 1]
       ELSE Append((IF Switches(e, t) THEN CommitTable(e, counts) ELSE e).tables,
                   [id |-> t, chunk |-> 1, offset |-> Unset]),
   lookups |-> e.lookups + n,
   batches |-> e.batches + 1]
AddToCounts(e, counts, t) ==
  IF Switches(e, t) THEN CommitCount(e, counts) ELSE counts
-----------------------------------------------------------------------------
(* Variants of definitions below as plausible slips would leave them.      *)

OverflowsLate(e, n) ==
  \/ e.lookups + n > max_inst
  \/ e.batches > FeaturesPerBuf

-----------------------------------------------------------------------------
(* ExecutionGenerator.                                                     *)

\* try_add_batch fails when the batch does not fit any more.
Overflows(e, n) ==
  \/ e.lookups + n > max_inst
  \/ e.batches + 1 > FeaturesPerBuf

Extend(t, n) ==
  /\ current' = AddToExec(current, tables_batches, t, n)
  /\ tables_batches' = AddToCounts(current, tables_batches, t)
  /\ UNCHANGED exec_packs

\* The execution is committed and the batch starts the next one.
Split(t, n) ==
  LET counts == CommitCount(current, tables_batches) IN
  /\ exec_packs' = [exec_packs EXCEPT ![pack] = Append(@, CommitTable(current, tables_batches))]
  /\ current' = AddToExec(EmptyExec, counts, t, n)
  /\ tables_batches' = counts

\* The next batch of the table at hand.
AddBatch ==
  /\ pack \in Packs /\ obj <= Len(layout[pack])
  /\ LET t == layout[pack][obj]
         n == lengths[t * MiniBatch + batch]
     IN  IF Overflows(current, n) THEN Split(t, n) ELSE Extend(t, n)
  /\ IF batch + 1 < MiniBatch
       THEN batch' = batch + 1 /\ UNCHANGED obj
       ELSE batch' = 0 /\ obj' = obj + 1
  /\ UNCHANGED <<inputs, pack>>

Flush ==
  /\ current.lookups > 0
  /\ exec_packs' = [exec_packs EXCEPT ![pack] = Append(@, CommitTable(current, tables_batches))]
  /\ tables_batches' = CommitCount(current, tables_batches)
  /\ current' = EmptyExec

\* After the last table of a pack, what is left is committed.
EndPack ==
  /\ pack \in Packs /\ obj > Len(layout[pack])
  /\ \/ Flush
     \/ current.lookups = 0 /\ UNCHANGED <<current, tables_batches, exec_packs>>
  /\ pack' = pack + 1 /\ obj' = 1 /\ batch' = 0
  /\ UNCHANGED inputs

Generated == pack = NumPacks + 1

GenerateStep == AddBatch \/ EndPack

GenNext == GenerateStep \/ (Generated /\ UNCHANGED genVars)
GenSpec == GenInit /\ [][GenNext]_genVars
-----------------------------------------------------------------------------
TableData == [id : Tables, chunk : 1 .. MiniBatch, offset : -1 .. MiniBatch - 1]
Execs     == [tables : Seq(TableData), lookups : Nat, batches : Nat]

GenTypeOK ==
  /\ lengths \in [Flat -> LookupCounts] /\ layout \in Layouts /\ max_inst \in Nat \ {0}
  /\ pack \in 1 .. NumPacks + 1 /\ obj \in 1 .. NumTables + 1 /\ batch \in 0 .. MiniBatch - 1
  /\ current \in Execs
  /\ tables_batches \in [Tables -> 0 .. MiniBatch]
  /\ exec_packs \in [Packs -> Seq(Execs)]

\* The chunks of tables in all finished executions, and a chunk's batches as
\* positions in lengths.
Chunks == {<<k, i, j>> \in Packs \X (1 .. NumTables * MiniBatch) \X (1 .. NumTables) :
             i <= Len(exec_packs[k]) /\ j <= Len(exec_packs[k][i].tables)}
Data(c)    == exec_packs[c[1]][c[2]].tables[c[3]]
Batches(c) == LET d == Data(c)
                  first == d.id * MiniBatch + d.offset
              IN  first .. first + d.chunk - 1

\* The assertions of commit_execution: every execution has something to do and
\* fits into the instruction buffer and the PSUM buffer.
ExecutionsFit ==
  \A k \in Packs : \A i \in DOMAIN exec_packs[k] :
    /\ exec_packs[k][i].lookups \in 1 .. max_inst
    /\ exec_packs[k][i].batches \in 1 .. FeaturesPerBuf

\* An execution has only tables of the pack it is stored in: the assertion of
\* generate_instructions, which looks each table up in the pack's objects.
OwnTables ==
  \A c \in Chunks : \E i \in DOMAIN layout[c[1]] : layout[c[1]][i] = Data(c).id

=============================================================================
