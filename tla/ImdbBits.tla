------------------------------ MODULE ImdbBits ------------------------------
(***************************************************************************)
(* The IMDB bit containers and their views: compressed_vector stores       *)
(* values of a few bits next to each other, bit_vector stores a set as one *)
(* bit per member, both in 32-bit cells of a storage aligned to 512 bits.  *)
(*                                                                         *)
(* A word is the set of its bits that are 1, so that the masks and shifts  *)
(* of the code are set operations; a storage is a function from cell       *)
(* numbers to words.                                                       *)
(***************************************************************************)
EXTENDS Naturals, Sequences, FiniteSetsExt, SequencesExt

BIT_IN_BYTE == 8
CellBytes == 4
CellBits == CellBytes * BIT_IN_BYTE

\* x >> n and x << n; the mask of the n lowest bits; the number a word below
\* 2^31 stands for.
Srl(x, n) == {b - n : b \in {c \in x : c >= n}}
Sll(x, n) == {b + n : b \in {c \in x : c + n < CellBits}}
LowBits(n) == {b \in 0..(CellBits - 1) : b < n}
Num(x) ==
  LET low[n \in 0..(CellBits - 1)] ==
        IF n = 0 THEN 0 ELSE low[n - 1] + (IF n - 1 \in x THEN 2^(n - 1) ELSE 0)
  IN low[CellBits - 1]

------------------------------------------------------------------------------
(* Storage                                                                  *)

align_size(size, align) == ((size + align - 1) \div align) * align

\* In cells.
aligned_storage_size(bits_count, bit_align) ==
  LET bytes == align_size(bits_count, BIT_IN_BYTE) \div BIT_IN_BYTE
  IN align_size(align_size(bytes, CellBytes), bit_align \div BIT_IN_BYTE) \div CellBytes

AlignBits == 512
ExtraBits == 512

compressed_vector_storage_size(value_bits, n) ==
  aligned_storage_size(value_bits * n + ExtraBits, AlignBits)

bit_vector_storage_size(max_value) == aligned_storage_size(max_value, AlignBits)

Zeroed(cells) == [c \in 0..(cells - 1) |-> {}]

in_storage_bit_position(index) == [cell |-> index \div CellBits, shift |-> index % CellBits]

------------------------------------------------------------------------------
(* bit_compressed and compressed_vector                                     *)

get_value(data, value_bits, i) ==
  LET at    == in_storage_bit_position(i * value_bits)
      mask  == LowBits(value_bits)
      part1 == CellBits - at.shift
  IN IF value_bits + at.shift < CellBits THEN Srl(data[at.cell], at.shift) \cap mask
     ELSE Sll(data[at.cell + 1] \cap Srl(mask, part1), part1) \cup Srl(data[at.cell], at.shift)

\* set_value only adds bits: it writes a value where none has been written yet.
set_value(data, value_bits, i, value) ==
  LET at    == in_storage_bit_position(i * value_bits)
      mask  == LowBits(value_bits)
      v     == value \cap mask
      part1 == CellBits - at.shift
  IN IF value_bits + at.shift < CellBits
     THEN [data EXCEPT ![at.cell] = @ \cup Sll(v, at.shift)]
     ELSE [data EXCEPT ![at.cell] = @ \cup Sll(v \cap Srl(mask, value_bits - part1), at.shift),
                       ![at.cell + 1] = @ \cup Srl(v, part1)]

\* compressed_vector(value_bits, first, last)
compressed_vector(value_bits, values) ==
  FoldLeftDomain(LAMBDA data, i : set_value(data, value_bits, i - 1, values[i]),
                 Zeroed(compressed_vector_storage_size(value_bits, Len(values))), values)

------------------------------------------------------------------------------
(* bit_vector: its size is max_value, its storage data.                     *)

bit_vector(max_value) ==
  [size |-> max_value, data |-> Zeroed(bit_vector_storage_size(max_value))]

insert(bv, value) ==
  LET at == in_storage_bit_position(value)
  IN [bv EXCEPT !.data[at.cell] = @ \cup {at.shift}]

contains(bv, value) ==
  /\ value < bv.size
  /\ LET at == in_storage_bit_position(value) IN at.shift \in bv.data[at.cell]

\* bit_vector(first, last): the size is the largest value plus one.
range_upper_limit(values) == IF values = {} THEN 0 ELSE Max(values) + 1

bit_vector_of(values) ==
  FoldSet(LAMBDA v, bv : insert(bv, v), bit_vector(range_upper_limit(values)), values)

\* begin and it_helper_next: the first member at or after index, or the end.
it_helper_next(bv, index) == Min({bv.size} \cup {v \in index..bv.size : contains(bv, v)})

\* What a loop over the container visits, in order.
RECURSIVE visited(_, _)
visited(bv, index) ==
  LET at == it_helper_next(bv, index)
  IN IF at >= bv.size THEN <<>> ELSE <<at>> \o visited(bv, at + 1)

=============================================================================
