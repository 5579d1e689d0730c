----------------------------- MODULE MCLibrary ------------------------------
(***************************************************************************)
(* Instances of the library's host side for TLC.  A behaviour is one of    *)
(* four programs: an SLS operation (SlsOperation, extended), processes     *)
(* that allocate and share device memory (DeviceMemory, extended too),     *)
(* embedding tables that are copied, accessed and read by traces           *)
(* (SlsMemory), or a column scan on the host (SoftwareScan).  The programs *)
(* have nothing in common but the run; a variable that a program does not  *)
(* use is Unused, and the device memory stays as it was initially.         *)
(***************************************************************************)
EXTENDS SlsOperation, DeviceMemory

CONSTANTS
  Unused,
  BlockWords, MaxTraces,
  ColumnSizes, BitSizes

VARIABLES
  program,
  pc, req,
  table, memory, queued, stored, traces, back,
  column, list, base, i, count, out

operationVars == <<lengths, max_inst, pack, obj, batch, current, tables_batches,
                   exec_packs, ran>>
tableVars  == <<table, memory, queued, stored, traces, back>>
scanVars   == <<column, list, base, i, count, out>>

operationUnused ==
  /\ lengths = Unused /\ max_inst = Unused /\ pack = Unused
  /\ obj = Unused /\ batch = Unused /\ current = Unused /\ tables_batches = Unused
  /\ exec_packs = Unused /\ ran = Unused
tableUnused ==
  /\ table = Unused /\ memory = Unused /\ queued = Unused /\ stored = Unused
  /\ traces = Unused /\ back = Unused
scanUnused ==
  /\ column = Unused /\ list = Unused /\ base = Unused /\ i = Unused /\ count = Unused
  /\ out = Unused

-----------------------------------------------------------------------------
(* SLS operations: packs 1 and 2 are single ranks, pack 3 is both of them. *)

ThreeTableLayouts ==
  {<< <<>>, <<>>, <<2, 0, 1>> >>, << <<0, 2>>, <<1>>, <<>> >>, << <<2>>, <<>>, <<1, 0>> >>}

-----------------------------------------------------------------------------
(* Tables at places where single bits and pairs of bits of the address are *)
(* set, in pages that end at a switch of the home agent, and in the units  *)
(* of one pair or of two.                                                  *)

TableUnits == {0, 1, 3}

Page == 64   \* in granules

\* First granules: page aligned, up to the highest bit an instruction can name.
Starts == {0} \cup {2^b : b \in 6..27} \cup {2^b + 2^12 : b \in 13..27}
              \cup {2^13 - Page, 2^14 - Page, 2^28 - Page}

Request(bus, option, tagged, features, tables) ==
  [bus |-> bus, option |-> option, tagged |-> tagged, features |-> features, tables |-> tables]

Table(rows, start) == [rows |-> rows, start |-> start]

\* One table in a unit, two tables in the two ranks of a pair, a replicated one and a
\* second one behind it, tables that cross a switch of the home agent, and a policy
\* that is not offered.
TableRequests ==
  {Request(bus, "DISTRIBUTE_ALL", tagged, features, <<Table(3, [c \in {1} |-> a])>>) :
     bus \in {"AXDIMM", "CXL"}, tagged \in BOOLEAN, features \in {1, 2, 4}, a \in Starts}
  \cup
  {Request(bus, "DISTRIBUTE_ALL", TRUE, features,
           <<Table(3, [c \in {0} |-> a]), Table(2, [c \in {1} |-> b])>>) :
     bus \in {"AXDIMM", "CXL"}, features \in {1, 4}, a \in {0, 2^13}, b \in {0, Page, 2^13}}
  \cup
  {Request("AXDIMM", option, TRUE, 4, <<Table(3, [c \in TableUnits |-> Page * c]),
                                        Table(2, [c \in TableUnits |-> Page * (c + 1)])>>) :
     option \in {"AUTO", "REPLICATE_ALL", "SINGLE"}}
  \cup
  {Request("AXDIMM", "DISTRIBUTE_ALL", FALSE, 1, <<Table(rows, [c \in {u} |-> 2^13 * n - Page])>>) :
     rows \in {64, 65, 67, 68, 70}, u \in {0, 1}, n \in {1, 2}}

Lookup(t, row, result) == [table |-> t, row |-> row, output |-> result]

\* Two lookups into one output, one lookup into the last output, two outputs, and for
\* large tables a trace that is longer than an interleaving block.
TableLookups(r) ==
  LET last(t) == r.tables[t].rows - 1
  IN UNION {{<<Lookup(t, 0, 0), Lookup(t, last(t), 0)>>, <<Lookup(t, last(t), 4095)>>,
             <<Lookup(t, 0, 1), Lookup(t, last(t), 2)>>} : t \in 1..Len(r.tables)}
       \cup {[k \in 1..34 |-> Lookup(t, k, k % 2)] : t \in {u \in 1..Len(r.tables) : last(u) > 64}}

Memory == INSTANCE SlsMemory WITH
            Requests <- TableRequests, Lookups <- TableLookups, Units <- TableUnits

-----------------------------------------------------------------------------
(* Columns in which one value differs from all the others: every bit that  *)
(* a shuffle puts in the wrong place shows up as a wrong value.            *)

Bits == INSTANCE ImdbBits

\* The values to look for: the lowest bit, the highest, all bits and an
\* alternating pattern.
Marks(bits) ==
  {{0}, {bits - 1}, Bits!LowBits(bits), {b \in Bits!LowBits(bits) : b % 2 = 0}}

Columns(bits, size) ==
  {[j \in 1..size |-> IF j = k THEN v ELSE rest] :
     k \in {1, (size + 1) \div 2, size}, v \in Marks(bits), rest \in {{}, Bits!LowBits(bits)}}

Listed(values) == [kind |-> "InList", start |-> {}, end |-> {}, list |-> values]
Between(first, last) == [kind |-> "InRange", start |-> first, end |-> last, list |-> {}]

\* Lists hold small values only: a list is a bit per value up to its largest one.
Predicates(v) ==
  {Between(v, v), Between({0}, {30}), Between({0}, {31}), Between({}, v),
   Listed({}), Listed({0, 1, 31})}
    \cup (IF v \subseteq 0..5 THEN {Listed({Bits!Num(v)}), Listed({33, Bits!Num(v)})} ELSE {})

ScanRequests ==
  UNION {UNION {UNION {
    {[bits |-> bits, values |-> values, kind |-> p.kind, start |-> p.start, end |-> p.end,
      list |-> p.list, output |-> o] :
        p \in Predicates(values[Len(values)]), o \in {"BitVector", "IndexVector"}}
    : values \in Columns(bits, size)} : size \in ColumnSizes} : bits \in BitSizes}

Scan == INSTANCE SoftwareScan WITH Requests <- ScanRequests

-----------------------------------------------------------------------------

LibraryInit ==
  /\ Init
  /\ \/ /\ program = "operation" /\ OperationInit
        /\ tableUnused /\ scanUnused /\ pc = Unused /\ req = Unused
     \/ /\ program = "device"
        /\ operationUnused /\ tableUnused /\ scanUnused /\ pc = Unused /\ req = Unused
        /\ psum = Unused /\ layout = Unused
     \/ /\ program = "tables" /\ Memory!Init
        /\ operationUnused /\ scanUnused
     \/ /\ program = "scan" /\ Scan!Init
        /\ operationUnused /\ tableUnused
        /\ psum = Unused /\ layout = Unused

LibraryNext ==
  /\ UNCHANGED program
  /\ \/ /\ program = "operation" /\ OperationNext
        /\ UNCHANGED <<vars, tableVars, scanVars, pc, req>>
     \/ /\ program = "device" /\ Next
        /\ UNCHANGED <<operationVars, tableVars, scanVars, pc, req, psum, layout>>
     \/ /\ program = "tables" /\ Memory!Next
        /\ UNCHANGED <<operationVars, vars, scanVars>>
     \/ /\ program = "scan" /\ Scan!Next
        /\ UNCHANGED <<operationVars, vars, tableVars, psum, layout>>

libraryVars == <<program, operationVars, vars, tableVars, scanVars,
                 pc, req, psum, layout>>

LibrarySpec == LibraryInit /\ [][LibraryNext]_libraryVars

-----------------------------------------------------------------------------
(* Properties.  Each one belongs to one program and is stated, with its    *)
(* reason, in that program's module; RegionsAllocated, ExclusiveOrShared   *)
(* and NoLeak are DeviceMemory's own.                                      *)

\* Every execution fits the instruction buffer and the output buffer.
OperationFits == program = "operation" => ExecutionsFit

\* Every batch gets its own lookups, in order, whatever the split.
OperationSums == program = "operation" => SumsComplete

\* As many instructions are emitted as were counted.
OperationTraces == program = "operation" => TraceAsCounted

\* No execution overwrites a sum that another one wrote.
OperationNoOverwrite ==
  [][program = "operation" => \A f \in Flat : psum[f] # <<>> => psum'[f] = psum[f]]_libraryVars

\* A trace adds the rows that its lookups name.
SumsLookups == program = "tables" => Memory!SumsLookups

\* A table copied back holds what was copied in and stored.
TablesReadBack == program = "tables" => Memory!ReadsBack

\* Every access lies in the mapping of its buffer.
AccessesMapped == program = "tables" => Memory!AccessesMapped

\* The vector scan and the scalar scan find the same values.
ScansAgree == program = "scan" => Scan!ScansAgree

=============================================================================
