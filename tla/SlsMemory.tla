------------------------------ MODULE SlsMemory ------------------------------
(***************************************************************************)
(* Embedding tables in device memory: EmbeddingTables puts one buffer per  *)
(* table into it and copies the caller's rows there, accessors and the     *)
(* transfer managers reach them from the host, and the simulated unit      *)
(* finds the rows again from nothing but the words of an instruction       *)
(* trace.  Two AxDIMM ranks share every range of device memory block by    *)
(* block; a CXL channel has ranges of its own.                             *)
(*                                                                         *)
(* Addresses count granules of 64 bytes, or words of which eight are a     *)
(* granule.  Device memory is a function on the cells <<block, place>>     *)
(* that were written.  A request is what a caller asks for and where the   *)
(* driver puts the tables: [bus, option, tagged, features, tables] with    *)
(* tables a sequence of [rows, start], start being a function from the     *)
(* units that hold the table to its first granule there.                   *)
(***************************************************************************)
EXTENDS SlsAddress, FiniteSetsExt, SequencesExt

CONSTANTS
  Requests,
  Lookups(_), \* the traces to run for a request: sequences of [table, row, output]
  Units,
  BlockWords, \* bound: words of an instruction block (inst_per_single_buf)
  MaxTraces   \* bound: traces that are written

VARIABLES
  pc, req,
  layout,     \* layout[mask]: the memory objects of the tables that the units of mask hold
  table,      \* the table that is copied next
  memory,     \* device memory
  queued,     \* queued[c]: the lookups of the trace in the block of unit c, not yet run
  psum,       \* the last trace: its lookups, and what was read of its outputs and tags
  stored,     \* the <<table, row>> that an accessor has overwritten
  traces,     \* traces written so far
  back        \* what copy_from_device and an accessor have returned for each table

vars == <<pc, req, layout, table, memory, queued, psum, stored, traces, back>>

-----------------------------------------------------------------------------
(* Sizes                                                                    *)

AlignedTagSize == 1                  \* granules

\* Row size: the caller's rows carry their tag when the operation is tagged.
row_size(r) == r.features + (IF r.tagged THEN AlignedTagSize ELSE 0)
buffer_size(r, t) == r.tables[t].rows * row_size(r)
Locations(r, t) == DOMAIN r.tables[t].start
First(r, t) == Min(Locations(r, t))

\* The caller's data: granule k of row n of table t.
user_row(r, t, n) == [k \in 1..row_size(r) |-> <<t, n, k>>]
new_row(r, t, n) == [k \in 1..row_size(r) |-> <<t, n, k, "new">>]
user_table(r, t) == FlattenSeq([n \in 1..r.tables[t].rows |-> user_row(r, t, n - 1)])

-----------------------------------------------------------------------------
(* Pointers into device memory.  unit is 1 when they count granules and    *)
(* WordsPerGranule when they count words.                                  *)

WordsPerGranule == 8

\* external: the driver gives a pair of ranks, and every channel, a range per block.
RangeSize(block) == IF block = "BASE" THEN 2^29 ELSE 2^17
map_offset(bus, block, c) == RangeSize(block) * (IF bus = "AXDIMM" THEN c \div 2 ELSE c)

\* InterleavedPointer: an address of a rank plus an offset.
InterleavedPointer(block, c, address, unit) ==
  (map_offset("AXDIMM", block, c) + interleaved_address(address \div unit, cunit_to_ha(c))) * unit
    + (address % unit)

\* A plain pointer into the range of a channel.
ChannelPointer(block, c, address, unit) == map_offset("CXL", block, c) * unit + address

\* A slip, in no specification: blocks are counted from the first granule.
block_start_unaligned(address, k, unit) == address + (k - (k % (RankInterleavingSize * unit)))

\* memcpy_interleaved copies up to the end of the interleaving block first and
\* whole blocks then: the start of the piece that element k of a copy is in.
block_start(address, k, unit) ==
  Max({address, (address + k) - ((address + k) % (RankInterleavingSize * unit))})

\* Where element k of a copy to or from an address of a rank goes: the pieces are
\* contiguous.
memcpy_interleaved(block, c, address, k, unit) ==
  LET start == block_start(address, k, unit)
  IN InterleavedPointer(block, c, start, unit) + (address + k - start)

\* The same for a copy to or from a channel.
copy(block, c, address, k, unit) == ChannelPointer(block, c, address, unit) + k

copy_target(bus, block, c, address, k, unit) ==
  IF bus = "AXDIMM" THEN memcpy_interleaved(block, c, address, k, unit)
                    ELSE copy(block, c, address, k, unit)

\* The cells that a copy of a sequence writes.
copied(bus, block, c, address, data, unit) ==
  [cell \in {<<block, copy_target(bus, block, c, address, k, unit)>> : k \in 0..(Len(data) - 1)} |->
     data[1 + CHOOSE k \in 0..(Len(data) - 1) :
                copy_target(bus, block, c, address, k, unit) = cell[2]]]

read(cell, default) == IF cell \in DOMAIN memory THEN memory[cell] ELSE default

\* What a read of an unwritten granule returns is not a row of any table.
Blank == <<>>

-----------------------------------------------------------------------------
(* Embedding tables                                                         *)

\* construct_layout: one memory object per table, filed under the units it is in.
construct_layout(r) ==
  [mask \in {Locations(r, t) : t \in 1..Len(r.tables)} |->
     [n \in {t \in 1..Len(r.tables) : Locations(r, t) = mask} |->
        [bytes |-> buffer_size(r, n), offset |-> r.tables[n].start]]]

\* A policy the constructor knows; AUTO and REPLICATE_ALL put a table into all units
\* and DISTRIBUTE_ALL into one that the driver chooses.
KnownPolicy(r) == r.option \in {"AUTO", "REPLICATE_ALL", "DISTRIBUTE_ALL"}

-----------------------------------------------------------------------------
(* Accessors and transfer managers                                          *)

MMAP_ALIGN == 4096 \div Granule
page_size == 2^21 \div Granule
aligned_floor(a) == a - (a % MMAP_ALIGN)
aligned_ceil(a) == aligned_floor(a + MMAP_ALIGN - 1)
fast_align_up(a, page) == ((a + page - 1) \div page) * page

\* A slip, in no specification: the length is taken before the interleaving.
init_virtual_region_plain(r, t, c) ==
  LET offset == InterleavedPointer("BASE", c, r.tables[t].start[c], 1)
  IN aligned_floor(offset)..(aligned_floor(offset) + aligned_ceil(buffer_size(r, t)) - 1)

\* SlsAccessorCore: the granules of the device that the mapping on rank c covers.
init_virtual_region(r, t, c) ==
  LET offset == InterleavedPointer("BASE", c, r.tables[t].start[c], 1)
      size   == InterleavedPointer("BASE", c, r.tables[t].start[c] + buffer_size(r, t), 1) - offset
  IN aligned_floor(offset)..(aligned_floor(offset) + aligned_ceil(size) - 1)

\* ChannelAccessorCore: the same for a channel.
ChannelAccessorCore(r, t, c) ==
  LET offset == ChannelPointer("BASE", c, r.tables[t].start[c], 1)
  IN offset..(offset + fast_align_up(buffer_size(r, t), page_size) - 1)

create_accessor_core(r, t, c) ==
  IF r.bus = "AXDIMM" THEN init_virtual_region(r, t, c) ELSE ChannelAccessorCore(r, t, c)

\* copy_to_device of AxdimmTransferManager and of ChannelTransferManager: every unit
\* that holds the table gets the data.
copy_to_device(r, t, data) ==
  FoldSet(LAMBDA c, m : copied(r.bus, "BASE", c, r.tables[t].start[c], data, 1) @@ m,
          memory, Locations(r, t))

\* copy_from_device of AxdimmTransferManager: from the first rank that holds the table.
Axdimm_copy_from_device(r, t) ==
  LET c == First(r, t)
  IN [k \in 1..buffer_size(r, t) |->
        read(<<"BASE", memcpy_interleaved("BASE", c, r.tables[t].start[c], k - 1, 1)>>, Blank)]

\* copy_from_device of ChannelTransferManager: the whole region of the first channel.
Channel_copy_from_device(r, t) ==
  LET c == First(r, t)
  IN [k \in 1..buffer_size(r, t) |->
        read(<<"BASE", copy("BASE", c, r.tables[t].start[c], k - 1, 1)>>, Blank)]

copy_from_device(r, t) ==
  IF r.bus = "AXDIMM" THEN Axdimm_copy_from_device(r, t) ELSE Channel_copy_from_device(r, t)

\* store_impl of both accessors: in every unit that holds the table.
store_impl(r, t, offset, value) ==
  FoldSet(LAMBDA c, m : copied(r.bus, "BASE", c, r.tables[t].start[c] + offset, value, 1) @@ m,
          memory, Locations(r, t))

\* access_impl of SlsAccessorCore and of ChannelAccessorCore: a pointer into the
\* first unit that holds the table.
Sls_access_impl(r, t, offset) ==
  InterleavedPointer("BASE", First(r, t), r.tables[t].start[First(r, t)] + offset, 1)
Channel_access_impl(r, t, offset) ==
  ChannelPointer("BASE", First(r, t), r.tables[t].start[First(r, t)], 1) + offset

access(r, t, index) ==
  read(<<"BASE", IF r.bus = "AXDIMM" THEN Sls_access_impl(r, t, index)
                                     ELSE Channel_access_impl(r, t, index)>>, Blank)

-----------------------------------------------------------------------------
(* Traces: TraceGenerator on the host                                       *)

\* 32-bit arithmetic: a table of 2^26 granules or more wraps around.
get_phys_address(r, row, offset) == offset + ((row * row_size(r)) % 2^26)

write_header(r) == BitsOf((r.features * Granule) \div 128) \cup (IF r.tagged THEN {8} ELSE {})

\* Opcodes.
SPARSE_FT_SUM_F32 == 0
RESERVED == 1
SPARSE_FT_SUM_U32 == 2

\* One lookup as an intermediate instruction: the object of its table gives the offset.
write_ir(r, c, mask, u) ==
  [opcode |-> SPARSE_FT_SUM_U32, output_index |-> u.output,
   address |-> get_phys_address(r, u.row, layout[mask][u.table].offset[c])]

compile(bus, ir) ==
  encode_instruction(decode_address_to_instruction(bus, Address(ir.address))
                       @@ make_empty_instruction(ir.opcode, ir.output_index))

set_trace_end(trace) == [trace EXCEPT ![Len(trace)] = @ \cup {INSTR.trace_end[1]}]

generate_instructions(r, c, mask, lookups) ==
  set_trace_end(<<write_header(r)>> \o
    [k \in 1..Len(lookups) |-> compile(r.bus, write_ir(r, c, mask, lookups[k]))])

\* RankedBlockWriter and RawBlockWriter on the instruction block.
write_block(bus, c, trace) == copied(bus, "INST", c, 0, trace, WordsPerGranule) @@ memory

-----------------------------------------------------------------------------
(* exec_trace on the unit                                                   *)

\* The mode in the header gives the granules of a row.
get_bytes_per_idx(mode) == 2^NumOf(mode)

\* The simulator's pointer to address a of a block of unit c.
UnitPointer(bus, c, block, a) ==
  IF bus = "AXDIMM" THEN InterleavedPointer(block, c, a, 1) ELSE ChannelPointer(block, c, 0, 1) + a

\* What a lookup adds, and to which cells.
RowSum(bus, c, address, output_idx, size) ==
  LET sum_at(k) == UnitPointer(bus, c, "PSUM", output_idx * size + k)
  IN [cell \in {<<"PSUM", sum_at(k)>> : k \in 0..(size - 1)} |->
        LET k == CHOOSE n \in 0..(size - 1) : cell[2] = sum_at(n)
        IN read(<<"BASE", UnitPointer(bus, c, "BASE", address + k)>>, Blank)]

\* The tag lies behind its row.
TagSum(bus, c, address, output_idx, size) ==
  <<"TAGS", UnitPointer(bus, c, "TAGS", output_idx * AlignedTagSize)>> :>
    read(<<"BASE", UnitPointer(bus, c, "BASE", address + size)>>, Blank)

\* sparse_ft_sum and sparse_ft_sum_tagged of AxdimmSimulatorCore and CxlSimulatorCore.
Axdimm_sparse_ft_sum(c, address, output_idx, size) ==
  RowSum("AXDIMM", c, address, output_idx, size)
Axdimm_sparse_ft_sum_tagged(c, address, output_idx, size) ==
  Axdimm_sparse_ft_sum(c, address, output_idx, size)
    @@ TagSum("AXDIMM", c, address, output_idx, size)
Cxl_sparse_ft_sum(c, address, output_idx, size) ==
  RowSum("CXL", c, address, output_idx, size)
Cxl_sparse_ft_sum_tagged(c, address, output_idx, size) ==
  Cxl_sparse_ft_sum(c, address, output_idx, size)
    @@ TagSum("CXL", c, address, output_idx, size)

\* A sum is the sequence of what was added to a cell.
Add(cells, added) ==
  [cell \in DOMAIN cells \cup DOMAIN added |->
     (IF cell \in DOMAIN cells THEN cells[cell] ELSE <<>>)
       \o (IF cell \in DOMAIN added THEN <<added[cell]>> ELSE <<>>)]

\* The loop over the words of an instruction block (a word that was never written is
\* zero) up to the end bit: the sums and the number of words that were processed, and
\* nothing if an opcode is refused.  sum[i] and tagged[i] are what word i adds without
\* and with its tag.
ExecLoop(words, sum, tagged) ==
  LET ends      == {i \in 1..(BlockWords - 1) : INSTR.trace_end[1] \in words[i]}
      last      == IF ends = {} THEN BlockWords - 1 ELSE Min(ends)
      opcode(i) == NumOf(decode_instruction(words[i]).opcode)
      added(i)  == IF 8 \in words[0] /\ opcode(i) # SPARSE_FT_SUM_F32 THEN tagged[i] ELSE sum[i]
  IN IF \E i \in 1..last : opcode(i) = RESERVED
     THEN [cells |-> <<>>, processed |-> 0]
     ELSE [cells |-> FoldLeft(LAMBDA cells, i : Add(cells, added(i)), <<>>, [i \in 1..last |-> i]),
           processed |-> last + 1]

\* The granules of a row, from the header in word 0.
bytes_per_idx(words) == get_bytes_per_idx(Field(words[0], 0, 2))

Axdimm_exec_trace(c) ==
  LET words    == [i \in 0..(BlockWords - 1) |->
                     read(<<"INST", InterleavedPointer("INST", c, i, WordsPerGranule)>>, {})]
      instr(i) == decode_instruction(words[i])
      cunit_addr(i) == GranuleOf(Ranked_encode_address(instr(i)))
      output(i) == NumOf(instr(i).output_idx)
  IN ExecLoop(words,
       [i \in 1..(BlockWords - 1) |-> Axdimm_sparse_ft_sum(c, cunit_addr(i), output(i), bytes_per_idx(words))],
       [i \in 1..(BlockWords - 1) |-> Axdimm_sparse_ft_sum_tagged(c, cunit_addr(i), output(i), bytes_per_idx(words))])

Cxl_exec_trace(c) ==
  LET words    == [i \in 0..(BlockWords - 1) |->
                     read(<<"INST", ChannelPointer("INST", c, 0, WordsPerGranule) + i>>, {})]
      instr(i) == decode_instruction(words[i])
      channel_addr(i) == GranuleOf(Channel_encode_address(instr(i)))
      output(i) == NumOf(instr(i).output_idx)
  IN ExecLoop(words,
       [i \in 1..(BlockWords - 1) |-> Cxl_sparse_ft_sum(c, channel_addr(i), output(i), bytes_per_idx(words))],
       [i \in 1..(BlockWords - 1) |-> Cxl_sparse_ft_sum_tagged(c, channel_addr(i), output(i), bytes_per_idx(words))])

exec_trace(bus, c) == IF bus = "AXDIMM" THEN Axdimm_exec_trace(c) ELSE Cxl_exec_trace(c)

\* The rows of the outputs that the host copies out of the block of sums, and the
\* tags of the tagged ones.
ReadOutputs(r, c, cells, outputs) ==
  LET cell(block, k) == <<block, copy_target(r.bus, block, c, 0, k, 1)>>
      sum(p) == IF p \in DOMAIN cells THEN cells[p] ELSE <<>>
  IN [o \in outputs |->
        [k \in 1..r.features |-> sum(cell("PSUM", o * r.features + k - 1))]
          \o (IF r.tagged THEN <<sum(cell("TAGS", o * AlignedTagSize))>> ELSE <<>>)]

-----------------------------------------------------------------------------
(* Specification                                                            *)

Init ==
  /\ pc = "new" /\ req \in Requests /\ layout = <<>> /\ table = 1
  /\ memory = <<>> /\ queued = [c \in Units |-> <<>>] /\ psum = <<>>
  /\ stored = {} /\ traces = 0 /\ back = <<>>

\* The constructor allocates the buffers; a policy it does not know is refused.
init_buffers ==
  /\ pc = "new"
  /\ \/ KnownPolicy(req) /\ pc' = "load" /\ layout' = construct_layout(req)
     \/ ~KnownPolicy(req) /\ pc' = "refused" /\ UNCHANGED layout
  /\ UNCHANGED <<req, table, memory, queued, psum, stored, traces, back>>

\* transfer_data, one buffer after the other.
transfer_data ==
  /\ pc = "load" /\ table <= Len(req.tables)
  /\ memory' = copy_to_device(req, table, user_table(req, table))
  /\ table' = table + 1
  /\ UNCHANGED <<pc, req, layout, queued, psum, stored, traces, back>>

\* An accessor stores an element of the size of a row: the first or the last row.
store ==
  /\ pc = "load" /\ table > Len(req.tables)
  /\ \E t \in 1..Len(req.tables) : \E n \in {0, req.tables[t].rows - 1} :
       /\ memory' = store_impl(req, t, n * row_size(req), new_row(req, t, n))
       /\ stored' = {<<t, n>>}
  /\ pc' = "stored"
  /\ UNCHANGED <<req, layout, table, queued, psum, traces, back>>

\* The host writes a trace of lookups into the tables of one pack to a unit of it.
WriteTrace ==
  /\ pc = "stored" /\ traces < MaxTraces /\ traces' = traces + 1
  /\ \E mask \in DOMAIN layout : \E c \in mask, lookups \in Lookups(req) :
       /\ queued[c] = <<>>
       /\ \A k \in 1..Len(lookups) : lookups[k].table \in DOMAIN layout[mask]
       /\ memory' = write_block(req.bus, c, generate_instructions(req, c, mask, lookups))
       /\ queued' = [queued EXCEPT ![c] = lookups]
  /\ UNCHANGED <<pc, req, layout, table, psum, stored, back>>

\* A unit runs the trace in its block and the host reads the sums.
RunTrace ==
  /\ pc = "stored"
  /\ \E c \in {u \in Units : queued[u] # <<>>} :
       /\ \E done \in {exec_trace(req.bus, c)} :
            psum' = [lookups |-> queued[c], processed |-> done.processed,
                     sums |-> ReadOutputs(req, c, done.cells,
                                {queued[c][k].output : k \in 1..Len(queued[c])})]
       /\ queued' = [queued EXCEPT ![c] = <<>>]
  /\ UNCHANGED <<pc, req, layout, table, memory, stored, traces, back>>

\* copy_from_device of every table, and an accessor reading it granule by granule.
ReadBack ==
  /\ pc = "stored" /\ traces = MaxTraces /\ (\A c \in Units : queued[c] = <<>>) /\ pc' = "done"
  /\ back' = [t \in 1..Len(req.tables) |->
                [copy |-> copy_from_device(req, t),
                 access |-> [k \in 1..buffer_size(req, t) |-> access(req, t, k - 1)]]]
  /\ UNCHANGED <<req, layout, table, memory, queued, psum, stored, traces>>

Done == pc \in {"done", "refused"} /\ UNCHANGED vars

Next == init_buffers \/ transfer_data \/ store \/ WriteTrace \/ RunTrace \/ ReadBack \/ Done

Spec == Init /\ [][Next]_vars

-----------------------------------------------------------------------------
(* Properties                                                               *)

\* The copied tables and the 64-bit words of the instruction blocks.
TypeOK ==
  /\ pc \in {"new", "refused", "load", "stored", "done"}
  /\ table \in 1..(Len(req.tables) + 1)
  /\ \A cell \in DOMAIN memory :
       /\ cell[1] \in {"BASE", "INST"} /\ cell[2] \in Nat
       /\ cell[1] = "INST" => memory[cell] \subseteq 0..63

\* What the caller has last put into row n of table t.
current_row(t, n) == IF <<t, n>> \in stored THEN new_row(req, t, n) ELSE user_row(req, t, n)

\* The unit adds to every output the rows, and to every tag the tags, that the
\* trace's lookups name, in their order and nothing else: the words of an
\* instruction lead it, through bank and row bits and through the interleaving, to
\* the row that the host has put there; words of an earlier and longer trace, and
\* those of the other rank of the pair, are not executed.
SumsLookups ==
  (pc = "stored" /\ psum # <<>>) =>
    \E lookups \in {psum.lookups} :
      /\ psum.sums = [o \in {lookups[k].output : k \in 1..Len(lookups)} |->
                        LET mine == SelectSeq(lookups, LAMBDA u : u.output = o)
                        IN [g \in 1..row_size(req) |->
                              [k \in 1..Len(mine) |-> current_row(mine[k].table, mine[k].row)[g]]]]
      /\ psum.processed = Len(lookups) + 1

\* A buffer copied back, and one read through an accessor, holds what was copied in
\* and stored.
ReadsBack ==
  pc = "done" =>
    \A t \in 1..Len(req.tables) :
      \E rows \in {FlattenSeq([n \in 1..req.tables[t].rows |-> current_row(t, n - 1)])} :
        back[t].copy = rows /\ back[t].access = rows

\* A buffer that begins in the upper blocks of its pair and ends in the first block
\* behind a multiple of 2^HA_XOR_BIT, where its rank changes over to the lower ones:
\* the length is then taken from an upper to a lower block and the mapping ends
\* where the last block begins.
EndsBehindSwitch(t, c) ==
  LET start == req.tables[t].start[c]
      end   == start + buffer_size(req, t)
      upper(a) == (a \div 2^(HA_XOR_BIT - GranuleBit) + cunit_to_ha(c)) % 2 = 1
  IN upper(start) /\ ~upper(end) /\ end % 2^(HA_XOR_BIT - GranuleBit) \in 1..(RankInterleavingSize - 1)

\* Every granule that a copy or an accessor touches lies in the mapping of the
\* buffer it belongs to, except for the buffers described above.
AccessesMapped ==
  \A t \in 1..Len(req.tables) : \A c \in Locations(req, t) :
    ~(req.bus = "AXDIMM" /\ EndsBehindSwitch(t, c)) =>
      \A k \in 0..(buffer_size(req, t) - 1) :
        copy_target(req.bus, "BASE", c, req.tables[t].start[c], k, 1) \in create_accessor_core(req, t, c)

=============================================================================
