---------------------------- MODULE SoftwareScan ----------------------------
(***************************************************************************)
(* The column scans that run on the host: the scalar one (nosimd), and the *)
(* AVX2 one, which the simulated device executes and which handles eight   *)
(* values in an iteration: it loads 32 bytes, moves the bytes of each      *)
(* value to a lane of 32 bits, shifts and masks them, compares all lanes   *)
(* and stores the lanes that match.                                        *)
(***************************************************************************)
EXTENDS ImdbBits, Integers

CONSTANTS Requests    \* the scans to run: [bits, values, kind, start, end, list, output]

VARIABLES pc, req, column, list, base, i, count, out

vars == <<pc, req, column, list, base, i, count, out>>

block_size == 8
Lanes == 0..(block_size - 1)
LaneBytes == 16      \* of a 128-bit lane, single_simd_lane_size

valid_bit_counts == {1, 2, 3, 4, 5, 6, 7, 9, 10, 12, 16, 17, 18}

------------------------------------------------------------------------------
(* Scalar scan                                                              *)

Size == Len(req.values)

\* Unsigned comparison of words: the highest bit in which they differ decides.
Less(x, y) == x # y /\ Max((x \ y) \cup (y \ x)) \in y

in_range_value(value) == ~Less(value, req.start) /\ ~Less(req.end, value)
in_list_value(value) == contains(list, Num(value))
matches(value) == IF req.kind = "InRange" THEN in_range_value(value) ELSE in_list_value(value)

\* The indices whose value satisfies the predicate, in order.
Selected(Predicate(_)) ==
  SelectSeq([k \in 1..Size |-> k - 1],
            LAMBDA k : \E value \in {get_value(column, req.bits, k)} : Predicate(value))

in_range_to_iv == Selected(in_range_value)
in_list_to_iv  == Selected(in_list_value)

\* The loops of these two insert where the ones above append.
in_range_to_bv == FoldLeft(insert, bit_vector(Size), Selected(in_range_value))
in_list_to_bv  == FoldLeft(insert, bit_vector(Size), Selected(in_list_value))

\* CPURunner
cpu_scan_iv == IF req.kind = "InRange" THEN in_range_to_iv ELSE in_list_to_iv
cpu_scan_bv == IF req.kind = "InRange" THEN in_range_to_bv ELSE in_list_to_bv

------------------------------------------------------------------------------
(* DecompressionConstants and load_with_decompression                       *)

\* The bytes of the register that hold value number l.
byte_min(bits, l) == (l * bits) \div BIT_IN_BYTE
byte_max(bits, l) == (bits * (l + 1) - 1) \div BIT_IN_BYTE

\* The shuffle control of lane l: for each of its four bytes the byte to take;
\* bytes that the value does not reach take byte 0 and are masked later.
value_shuffle_bytes(bits, l) ==
  [k \in 0..3 |-> IF byte_min(bits, l) + k <= byte_max(bits, l)
                  THEN (byte_min(bits, l) + k) % LaneBytes ELSE 0]

\* The bytes of lane 7 that inverse_crop_mask takes from the high half of the
\* register: entries of 17 and 18 bits reach into it.
cropped(bits, l, k) == l = 7 /\ k >= (IF bits = 17 THEN 2 ELSE 1)

\* Byte a of the column.
byte_at(a) ==
  {b \in 0..(BIT_IN_BYTE - 1) : b + BIT_IN_BYTE * (a % CellBytes) \in column[a \div CellBytes]}

\* Lane l after a shuffle of the 32 bytes at address.
singlelane_shuffle(address, bits, l) ==
  UNION {{b + BIT_IN_BYTE * k : b \in byte_at(address + value_shuffle_bytes(bits, l)[k])} : k \in 0..3}

crosslane_shuffle(address, bits, l) ==
  UNION {LET src == value_shuffle_bytes(bits, l)[k] + (IF cropped(bits, l, k) THEN LaneBytes ELSE 0)
         IN {b + BIT_IN_BYTE * k : b \in byte_at(address + src)} : k \in 0..3}

align_shift(bits, l) == (l * bits) % BIT_IN_BYTE

\* Lane l of the result.
load_with_decompression(address, bits, l) ==
  LET decompressed == IF bits <= 16 THEN singlelane_shuffle(address, bits, l)
                      ELSE crosslane_shuffle(address, bits, l)
  IN Srl(decompressed, align_shift(bits, l)) \cap LowBits(bits)

------------------------------------------------------------------------------
(* apply_predicate                                                          *)

\* _mm256_cmpgt_epi32 compares signed words: flipping the sign bits of both
\* makes that an unsigned comparison.
cmpgt(x, y) ==
  LET Biased(w) == IF CellBits - 1 \in w THEN w \ {CellBits - 1} ELSE w \cup {CellBits - 1}
  IN Less(Biased(y), Biased(x))

in_range(value) == ~(cmpgt(req.start, value) \/ cmpgt(value, req.end))

\* ((size - 1) >> 5) + 1, which for an empty list wraps around to 0.
max_index(size) == IF size = 0 THEN 0 ELSE (size - 1) \div CellBits + 1

\* The list is read by cells: 0 is taken for those behind the last one.
in_list(value) ==
  LET at == in_storage_bit_position(Num(value))
  IN at.cell < max_index(list.size) /\ at.shift \in list.data[at.cell]

\* The lanes whose value satisfies the predicate.
apply_predicate(lanes) ==
  {l \in Lanes : \E value \in {lanes[l]} :
                   IF req.kind = "InRange" THEN in_range(value) ELSE in_list(value)}

------------------------------------------------------------------------------
(* store                                                                    *)

\* The indices of the lanes in mask, moved to the front; the lanes behind them
\* hold the first index.
permuted(first, mask) ==
  [k \in 1..block_size |->
    first + (IF k > Cardinality(mask) THEN 0
             ELSE CHOOSE l \in mask : Cardinality({m \in mask : m < l}) = k - 1)]

\* A slip, in no specification: only the matching indices are counted, but all eight stay.
store_count_all(mask) == block_size

store_count(mask) == Cardinality(mask)

\* The index output, as far as it has been written.
store_iv(result, first, mask, out_index) ==
  SubSeq(result, 1, out_index) \o permuted(first, mask)

\* Byte out_index of the bit vector becomes the mask.
store_bv(result, mask, out_index) ==
  LET shift == BIT_IN_BYTE * (out_index % CellBytes)
      cell  == out_index \div CellBytes
  IN [result EXCEPT !.data[cell] = (@ \ (shift..(shift + 7))) \cup {l + shift : l \in mask}]

------------------------------------------------------------------------------
(* scan_avx2_impl, called by the worker of the simulated device and by      *)
(* AVX2Runner: one action for each iteration.                               *)

Init ==
  /\ pc = "construct" /\ req \in Requests
  /\ column = <<>> /\ list = bit_vector(0) /\ base = 0 /\ i = 0 /\ count = 0 /\ out = <<>>

\* The operation refuses other entry sizes.
Refuse ==
  /\ pc = "construct" /\ req.bits \notin valid_bit_counts /\ pc' = "thrown"
  /\ UNCHANGED <<req, column, list, base, i, count, out>>

Construct ==
  /\ pc = "construct" /\ req.bits \in valid_bit_counts /\ pc' = "scan"
  /\ column' = compressed_vector(req.bits, req.values)
  /\ list' = bit_vector_of(req.list)
  /\ out' = IF req.output = "BitVector" THEN bit_vector(Size) ELSE <<>>
  /\ UNCHANGED <<req, base, i, count>>

ScanBlock ==
  /\ pc = "scan" /\ i < Size
  /\ \E mask \in {apply_predicate([l \in Lanes |-> load_with_decompression(base, req.bits, l)])} :
       IF req.output = "BitVector"
       THEN out' = store_bv(out, mask, count) /\ count' = count + 1
       ELSE out' = store_iv(out, i, mask, count) /\ count' = count + store_count(mask)
  /\ base' = base + req.bits /\ i' = i + block_size
  /\ UNCHANGED <<pc, req, column, list>>

\* The caller's part: AVX2Runner resizes the index vector to the count, the
\* simulator reports it as THREAD_RES_SIZE_SB.
Finish ==
  /\ pc = "scan" /\ i >= Size /\ pc' = "done"
  /\ out' = IF req.output = "BitVector" THEN out ELSE SubSeq(out, 1, count)
  /\ UNCHANGED <<req, column, list, base, i, count>>

Done == pc \in {"done", "thrown"} /\ UNCHANGED vars

Next == Refuse \/ Construct \/ ScanBlock \/ Finish \/ Done

Spec == Init /\ [][Next]_vars

------------------------------------------------------------------------------
(* Properties                                                               *)

\* The loop variables, the storage of the column and the cells of the result.
TypeOK ==
  /\ pc \in {"construct", "scan", "done", "thrown"}
  /\ i \in Nat /\ base = (i \div block_size) * req.bits
  /\ pc \in {"scan", "done"} =>
       DOMAIN column = 0..(compressed_vector_storage_size(req.bits, Size) - 1)
  /\ req.output = "BitVector" /\ pc \in {"scan", "done"} => \A c \in DOMAIN out.data : out.data[c] \subseteq 0..31

\* Behind the last value a column holds zeros; the last block matches them too
\* unless it is complete or zero does not satisfy the predicate.
TailSafe == Size % block_size = 0 \/ ~matches({})

\* Ranges that the signed comparison of the vector unit orders like the unsigned
\* one of the scalar code.
SignedSafe == CellBits - 1 \notin req.start \cup req.end

\* Both scans find the same indices in the same order, and the bit vector, walked
\* with its iterator, has the same members.
ScansAgree ==
  pc = "done" /\ SignedSafe =>
    IF req.output = "BitVector" THEN \A bv \in {out, cpu_scan_bv} : visited(bv, 0) = cpu_scan_iv
    ELSE TailSafe => out = cpu_scan_iv

=============================================================================
