----------------------------- MODULE SlsAddress -----------------------------
(***************************************************************************)
(* Addresses of the SLS devices: where a byte of a rank lies in the memory *)
(* that two ranks share block by block, and how an instruction names the   *)
(* row of a table by row, bank group, bank and column of the DRAM.         *)
(*                                                                         *)
(* Interleaving is arithmetic on granules of 64 bytes, the smallest row.   *)
(* Instructions are built from bits: a word is the set of its bits.        *)
(***************************************************************************)
EXTENDS Naturals, Sequences, FiniteSets, TLC

Granule == 64
GranuleBit == 6

HA_XOR_BIT == 19
HA_BIT_POS == 8
RankInterleavingSize == 2^(HA_BIT_POS - GranuleBit)  \* in granules

cunit_to_ha(cunit) == cunit % 2

interleaved_address(rank_address, HA) ==
  LET block == rank_address \div RankInterleavingSize
      xor   == rank_address \div 2^(HA_XOR_BIT - GranuleBit)
  IN (2 * block + ((xor + HA) % 2)) * RankInterleavingSize + (rank_address % RankInterleavingSize)

-----------------------------------------------------------------------------
(* Words                                                                    *)

Sll(x, n) == {b + n : b \in x}
Srl(x, n) == {b - n : b \in {c \in x : c >= n}}
Field(x, first, width) == Srl(x, first) \cap (0 .. width - 1)
BitsOf(n) == {b \in 0..30 : (n \div 2^b) % 2 = 1}
NumOf(x) == LET low[b \in 0..31] == IF b = 0 THEN 0 ELSE low[b - 1] + (IF b - 1 \in x THEN 2^(b - 1) ELSE 0)
            IN low[31]

\* The byte address of a granule as a word, and back.
Address(granule) == Sll(BitsOf(granule), GranuleBit)
GranuleOf(address) == NumOf(Srl(address, GranuleBit))

-----------------------------------------------------------------------------
(* hw_sim_addr_map: <<RAOffset, bits of Mask, StartBit>> and               *)
(* <<RAOffset0, RAOffset1, StartBit>>.                                      *)

COL  == {<<3, 5, 0>>, <<14, 5, 5>>}
ROW  == {<<8, 4, 0>>, <<28, 1, 4>>, <<21, 7, 5>>, <<29, 5, 12>>}
BG   == {<<21, 12, 0>>, <<22, 13, 1>>}
BANK == {<<23, 19, 0>>, <<24, 20, 1>>}

Gather(address, map) == UNION {Sll(Field(address, e[1], e[2]), e[3]) : e \in map}
Scatter(field, map)  == UNION {Sll(Field(field, e[3], e[2]), e[1]) : e \in map}
GatherXor(address, map) == {e[3] : e \in {f \in map : (f[1] \in address) # (f[2] \in address)}}
ScatterXor(field, address, map) == {e[2] : e \in {f \in map : (f[3] \in field) # (f[1] \in address)}}

\* The bank bits of a channel address are stored as they are.
GatherBit(address, map) == {e[3] : e \in {f \in map : f[2] \in address}}
ScatterBit(field, map) == {e[2] : e \in {f \in map : f[3] \in field}}

\* RankedInstGenerator::decode_address_to_instruction.
Ranked_decode_address(address) ==
  [row       |-> Gather(address, ROW),
   column    |-> Gather(address, COL),
   bankgroup |-> GatherXor(address, BG),
   bank      |-> GatherXor(address, BANK)]

\* ChannelInstGenerator::decode_address_to_instruction: bank and bank group are
\* taken over.
Channel_decode_address(address) ==
  [Ranked_decode_address(address) EXCEPT
     !.bankgroup = GatherBit(address, BG), !.bank = GatherBit(address, BANK)]

decode_address_to_instruction(bus, address) ==
  IF bus = "AXDIMM" THEN Ranked_decode_address(address) ELSE Channel_decode_address(address)

\* RankedInstGenerator::encode_address_from_instruction; the bits of BG and BANK are
\* XORed with bits that the row has set before.
Ranked_encode_address(inst) ==
  LET placed == Scatter(inst.column, COL) \cup Scatter(inst.row, ROW)
  IN placed \cup ScatterXor(inst.bankgroup, placed, BG) \cup ScatterXor(inst.bank, placed, BANK)

\* ChannelInstGenerator::encode_address_from_instruction: the bank and bank group
\* bits of the rank address are cleared and written again.
Channel_encode_address(inst) ==
  (Ranked_encode_address(inst) \ {e[2] : e \in BG \cup BANK})
    \cup ScatterBit(inst.bankgroup, BG) \cup ScatterBit(inst.bank, BANK)

-----------------------------------------------------------------------------
(* The instruction word                                                     *)

\* Field: offset and width.
INSTR == [opcode |-> <<62, 2>>, local_bit |-> <<61, 1>>, output_idx |-> <<49, 12>>,
          trace_end |-> <<48, 1>>, row |-> <<14, 17>>, bankgroup |-> <<12, 2>>,
          bank |-> <<10, 2>>, column |-> <<0, 10>>]

\* The code adds the shifted fields, which is their union when they do not overlap.
encode_instruction(inst) == UNION {Sll(inst[f], INSTR[f][1]) : f \in DOMAIN INSTR} \cap (0..63)

\* A slip, in no specification: the column field one bit too short.
decode_instruction_short(word) ==
  [f \in DOMAIN INSTR |-> Field(word, INSTR[f][1], INSTR[f][2] - (IF f = "column" THEN 1 ELSE 0))]

decode_instruction(word) == [f \in DOMAIN INSTR |-> Field(word, INSTR[f][1], INSTR[f][2])]

make_empty_instruction(opcode, output_idx) ==
  [opcode |-> BitsOf(opcode), local_bit |-> {}, output_idx |-> BitsOf(output_idx), trace_end |-> {}]

=============================================================================
