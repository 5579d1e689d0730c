----------------------------- MODULE SlsDataGen ----------------------------
(***************************************************************************)
(* The generators of SLS test data (tools/datagen/sls, create_tables and   *)
(* create_indices): table rows and entries, the number of lookups of every *)
(* batch, the indices looked up, and the golden sums of the rows they name *)
(* (common/cpu_sls.h, over the row views of include/pnmlib/common).        *)
(*                                                                         *)
(* A run makes tables, then lengths, then indices, then the golden vector. *)
(* Tables, batches and entries are flat sequences, as in the files; a      *)
(* random draw is a choice.                                                *)
(***************************************************************************)
EXTENDS Integers, Sequences, FiniteSets, FiniteSetsExt, SequencesExt

CONSTANTS
    InstBufSize, NumOfInstBuf, InstructionSize,  \* of the device's topology
    Runs,           \* pairs of table parameters (number, least and most rows,
                    \* columns, generator, arguments) and index parameters
                    \* (least and most lookups, batches, generators, overflow)
    RandomEntries,  \* the values the random generator may draw
    None

VARIABLES pc, tparams, iparams, rows, table, lengths, indices, golden

vars == <<pc, tparams, iparams, rows, table, lengths, indices, golden>>

----------------------------------------------------------------------------
(* Views: a stretch of a sequence, and one of its rows without the gaps.   *)
Or(option, default) == IF option = None THEN default ELSE option

make_view(data, first, size) == SubSeq(data, first + 1, first + size)

make_rowwise_view(data, begin, row_size, front_gap, back_gap, row) ==
    make_view(data, begin + row_size * row + front_gap, row_size - front_gap - back_gap)

SumSeq(s) == FoldLeft(+, 0, s)
SumTo(s, n) == SumSeq(SubSeq(s, 1, n))

----------------------------------------------------------------------------
(* Tables. *)

min_rows(p) == IF p.min_rows # None THEN p.min_rows ELSE (3 * p.max_rows) \div 4

(* The entries in the order of the file. *)
Positions(p, r) ==
    FlattenSeq([tid \in 1 .. p.tables |->
        FlattenSeq([rid \in 1 .. r[tid] |->
            [cid \in 1 .. p.cols |-> <<tid - 1, rid - 1, cid - 1>>]])])

PositionedEntry(pos) == pos[1] * 2^16 + pos[2] * 2^8 + pos[3]

(* A counter of entries that starts a new feature every sparse_feature_size*)
NumericEntry(k, args) == (((k - 1) \div args.sparse_feature_size) % args.kvalue) + 1

create_table(p, r) ==
    LET pos == Positions(p, r) IN
    CASE p.generator = "random"   -> {[k \in DOMAIN pos |-> e] : e \in RandomEntries}
      [] p.generator = "position" -> {[k \in DOMAIN pos |-> PositionedEntry(pos[k])]}
      [] p.generator = "tapp"     -> {[k \in DOMAIN pos |-> NumericEntry(k, p.args)]}
      [] p.generator = "fixed"    -> {[k \in DOMAIN pos |-> p.args.value]}

CreateTables ==
    /\ pc = "start"
    /\ \E r \in [1 .. tparams.tables -> min_rows(tparams) .. tparams.max_rows] :
          rows' = r /\ table' \in create_table(tparams, r)
    /\ pc' = "tables"
    /\ UNCHANGED <<tparams, iparams, lengths, indices, golden>>

----------------------------------------------------------------------------
(* Lengths: the lookups of batch b of table t at t * minibatch_size + b.   *)

NumTables == Len(rows)
Batches == NumTables * iparams.minibatch_size
TableOf(batch) == (batch - 1) \div iparams.minibatch_size

rows_distr == Or(iparams.min_lookup, iparams.max_lookup) .. iparams.max_lookup

random_from_lookups_per_table ==
    {[batch \in 1 .. Batches |-> l[TableOf(batch)]] : l \in [0 .. NumTables - 1 -> rows_distr]}

single_overflowed_table_batch_lookups == (InstBufSize \div NumOfInstBuf) \div InstructionSize - 1

single_batch_lookups_min == (InstBufSize \div InstructionSize) \div iparams.minibatch_size + 1

(* The tables that are to overflow the instruction buffer, and by how many *)
(* lookups in each of their batches; the other batches are drawn.          *)
Overflowing ==
    CASE iparams.overflow = 0  -> {{}}
      [] iparams.overflow = -1 -> {{t} : t \in 0 .. NumTables - 1}
      [] iparams.overflow > 0  -> {{t \in 0 .. NumTables - 1 : (t + 1) % iparams.overflow = 0}}

OverflowLookups ==
    IF iparams.overflow = -1 THEN single_overflowed_table_batch_lookups
    ELSE single_batch_lookups_min

RandomLengths ==
    {[batch \in 1 .. Batches |-> IF TableOf(batch) \in o THEN OverflowLookups ELSE l[batch]] :
       o \in Overflowing, l \in [1 .. Batches -> rows_distr]}

CreateLengths ==
    /\ pc = "tables"
    /\ lengths' \in IF iparams.lengths = "random" THEN RandomLengths
                    ELSE random_from_lookups_per_table
    /\ pc' = "lengths"
    /\ UNCHANGED <<tparams, iparams, rows, table, indices, golden>>

----------------------------------------------------------------------------
(* Indices: a length that reaches the table's rows is refused. *)

LengthsFit == \A batch \in 1 .. Batches : lengths[batch] < rows[TableOf(batch) + 1]

(* The batch a position of the indices belongs to. *)
BatchAt(k) == CHOOSE b \in 1 .. Batches : SumTo(lengths, b - 1) < k /\ k <= SumTo(lengths, b)

sequential_indices == [k \in 1 .. SumSeq(lengths) |-> k - 1 - SumTo(lengths, BatchAt(k) - 1)]

(* Random indices: all of a batch the first, or all the last row; between  *)
(* them these reach both ends of the range drawn from.                     *)
random_indices ==
    {[k \in 1 .. SumSeq(lengths) |->
        IF BatchAt(k) \in last THEN rows[TableOf(BatchAt(k)) + 1] - 1 ELSE 0] :
       last \in SUBSET (1 .. Batches)}

CreateIndices ==
    /\ pc = "lengths"
    /\ IF LengthsFit
       THEN /\ pc' = "indices"
            /\ indices' \in IF iparams.indices = "random" THEN random_indices
                            ELSE {sequential_indices}
       ELSE pc' = "thrown" /\ UNCHANGED indices
    /\ UNCHANGED <<tparams, iparams, rows, table, lengths, golden>>

----------------------------------------------------------------------------
(* The golden vector: table, index and length pointers that walk along.    *)

AddRows(a, b) == [c \in DOMAIN a |-> a[c] + b[c]]

reduce_common(table_begin, batch_indices) ==
    FoldLeft(LAMBDA psum, index :
                 AddRows(psum, make_rowwise_view(table, table_begin, tparams.cols, 0, 0, index)),
             [c \in 1 .. tparams.cols |-> 0], batch_indices)

(* A slip, in no specification: the table's begin moves on by its row count. *)
reduce_batch_rows(w, batch) ==
    [table_begin   |-> IF batch % iparams.minibatch_size = 0
                       THEN w.table_begin + rows[TableOf(batch) + 1] ELSE w.table_begin,
     indices_begin |-> w.indices_begin + lengths[batch],
     psum          |-> w.psum \o reduce_common(w.table_begin,
                                 make_view(indices, w.indices_begin, lengths[batch]))]

(* State of the walk: where the table and the batch's indices begin, and   *)
(* the sums so far.                                                        *)
reduce_batch(w, batch) ==
    [table_begin   |-> IF batch % iparams.minibatch_size = 0
                       THEN w.table_begin + rows[TableOf(batch) + 1] * tparams.cols
                       ELSE w.table_begin,
     indices_begin |-> w.indices_begin + lengths[batch],
     psum          |-> w.psum \o reduce_common(w.table_begin,
                                 make_view(indices, w.indices_begin, lengths[batch]))]

compute_golden ==
    FoldLeft(reduce_batch, [table_begin |-> 0, indices_begin |-> 0, psum |-> <<>>],
             [batch \in 1 .. Batches |-> batch]).psum

ComputeGolden ==
    /\ pc = "indices"
    /\ golden' = compute_golden
    /\ pc' = "golden"
    /\ UNCHANGED <<tparams, iparams, rows, table, lengths, indices>>

----------------------------------------------------------------------------
Init ==
    /\ pc = "start" /\ \E run \in Runs : tparams = run[1] /\ iparams = run[2]
    /\ rows = <<>> /\ table = <<>> /\ lengths = <<>> /\ indices = <<>> /\ golden = <<>>

Next == CreateTables \/ CreateLengths \/ CreateIndices \/ ComputeGolden

Spec == Init /\ [][Next]_vars

----------------------------------------------------------------------------
(* Tables, lengths, indices and sums have the sizes the info files declare. *)
TypeOK ==
    /\ pc \in {"start", "tables", "lengths", "indices", "golden", "thrown"}
    /\ pc # "start" => Len(table) = SumSeq(rows) * tparams.cols
    /\ pc \in {"lengths", "indices", "golden"} => Len(lengths) = Batches
    /\ pc = "golden" => Len(golden) = Batches * tparams.cols

(* The golden vector the walking pointers compute is, for every batch and  *)
(* column, the sum of that column over the rows the batch's indices name.  *)
GoldenIsSum ==
    pc = "golden" =>
        \A batch \in 1 .. Batches, c \in 1 .. tparams.cols :
            golden[(batch - 1) * tparams.cols + c] =
                SumSeq([i \in 1 .. lengths[batch] |->
                    table[(SumTo(rows, TableOf(batch)) + indices[SumTo(lengths, batch - 1) + i])
                              * tparams.cols + c]])
============================================================================
