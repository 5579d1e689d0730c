---------------------------- MODULE ImdbDataGen ----------------------------
(***************************************************************************)
(* The generators of IMDB test data (tools/datagen/imdb): the arguments a  *)
(* generator's factory reads back from a string, the entries of a column,  *)
(* and the scan ranges and predicate vectors of a wanted selectivity, drawn*)
(* at random and then made precise.                                        *)
(*                                                                         *)
(* A run makes one column and one input for it.  Selectivities and epsilons*)
(* are multiples of 1 / Denominator; a random draw is a choice.            *)
(***************************************************************************)
EXTENDS Integers, Sequences, FiniteSets, SequencesExt

CONSTANTS
    ColumnParams,   \* the GeneratorColumnParams of the runs
    RandomColumns,  \* the columns the random generator may draw
    Denominator,    \* of selectivities and epsilons
    DefaultEpsilon, \* of the precise generators
    Epsilons,       \* epsilons the parameters give
    SelectivityRanges, \* counts and bounds for the selectivity generators
    MaxValueDraws,  \* the maximal values of predicate vectors that are looked at
    None            \* a std::optional without a value

VARIABLES
    pc,             \* what the run has made so far, or how it ended
    params,         \* its column parameters
    col,            \* the column
    want,           \* kind, selectivity, epsilon and max value of the input
    drawn,          \* the input the random generator drew
    made            \* the input the precise generator made of it

vars == <<pc, params, col, want, drawn, made>>

Abs(x) == IF x < 0 THEN -x ELSE x

(* The C++ remainder: its sign is the dividend's. *)
Rem(a, b) == IF a < 0 THEN -((-a) % b) ELSE a % b

Or(option, default) == IF option = None THEN default ELSE option

calc_entry_max_value(bits) == 2^bits - 1

----------------------------------------------------------------------------
(* Factory arguments: the words of a string, written from the parameters   *)
(* that are set and read back in order.                                    *)

WordsOf(options) == SelectSeq(options, LAMBDA o : o # None)

column_str_arg(p) ==
    <<p.bits>> \o WordsOf(<<IF p.gen = "random" THEN p.seed ELSE p.step>>)
               \o IF p.min = None THEN <<>> ELSE WordsOf(<<p.min, p.max>>)

word(words, i, default) == IF i <= Len(words) THEN words[i] ELSE default

(* create_entry_generator, once for each kind of entries.  A seed that is  *)
(* not given is any.                                                       *)
create_random_entry(words) ==
    [bits |-> words[1], vary |-> word(words, 2, None), min |-> word(words, 3, 0),
     max |-> word(words, 4, calc_entry_max_value(words[1]))]

create_positioned_entry(words) ==
    [bits |-> words[1], vary |-> word(words, 2, 1), min |-> word(words, 3, 0),
     max |-> word(words, 4, calc_entry_max_value(words[1]))]

validate_entry_gen_args(bits, min, max) ==
    /\ min <= calc_entry_max_value(bits) /\ max <= calc_entry_max_value(bits)
    /\ min <= max

(* The seed and, straight behind it, the epsilon with its six decimals: the*)
(* digits before the decimal point become the seed's last ones.            *)
ranges_str_arg(seed, epsilon) ==
    IF seed = None THEN <<>>
    ELSE IF epsilon = None THEN <<seed>>
    ELSE <<10 * seed + epsilon \div Denominator, epsilon % Denominator>>

(* The parameters of predicate vectors are put together the same way.      *)
predicates_str_arg(seed, epsilon) == ranges_str_arg(seed, epsilon)

(* The builders of both kinds of input: an epsilon is read behind a seed.  *)
ranges_epsilon(words) == word(words, 2, DefaultEpsilon)
predicates_epsilon(words) == word(words, 2, DefaultEpsilon)

----------------------------------------------------------------------------
(* Columns. *)

PositionedEntry(min, max, wanted_step, index) ==
    LET length == max - min + 1
        step   == Rem(wanted_step, length)
        mod_value == Abs(index * step) % length
    IN  IF min = max THEN min
        ELSE IF step >= 0 THEN min + mod_value ELSE max - mod_value

ColumnValues(c) == {c[i] : i \in DOMAIN c}
CountIn(c, S) == Cardinality({i \in DOMAIN c : c[i] \in S})

(* What the factory made of the parameters. *)
EntryGen(p) ==
    IF p.gen = "random" THEN create_random_entry(column_str_arg(p))
    ELSE create_positioned_entry(column_str_arg(p))

RandomEntry(min, max) == min .. max

Columns(p) ==
    LET g == EntryGen(p) IN
    IF p.gen = "random"
    THEN {c \in RandomColumns : Len(c) = p.count /\ ColumnValues(c) \subseteq RandomEntry(g.min, g.max)}
    ELSE {[i \in 1 .. p.count |-> PositionedEntry(g.min, g.max, g.vary, i - 1)]}

CreateColumn ==
    /\ pc = "start"
    /\ LET g == EntryGen(params) IN
       IF validate_entry_gen_args(g.bits, g.min, g.max)
       THEN pc' = "column" /\ col' \in Columns(params)
       ELSE pc' = "thrown" /\ UNCHANGED col
    /\ UNCHANGED <<params, want, drawn, made>>

----------------------------------------------------------------------------
(* Inputs drawn at random. *)

MaxEntry == calc_entry_max_value(params.bits)

(* floor(selectivity * 2^bits) computed in doubles: a whole product may    *)
(* come out a little short and be rounded down by one.                     *)
value_per_request_count(selectivity) ==
    LET n == selectivity * (MaxEntry + 1) IN
    {n \div Denominator} \cup
        IF n > 0 /\ n % Denominator = 0 THEN {n \div Denominator - 1} ELSE {}

(* With the whole range requested, max - size wraps round and the start is *)
(* any 32-bit value; two values behind the last one stand for those.       *)
RangeStarts(size) == IF size <= MaxEntry THEN 0 .. MaxEntry - size ELSE 0 .. MaxEntry + 2

RandomRange ==
    /\ pc = "column" /\ want # None /\ want.kind = "range"
    /\ \E size \in value_per_request_count(want.selectivity) :
          \E start \in RangeStarts(size) : drawn' = [start |-> start, end |-> start + size]
    /\ pc' = "drawn"
    /\ UNCHANGED <<params, col, want, made>>

RandomPredicateVector ==
    /\ pc = "column" /\ want # None /\ want.kind = "list"
    /\ \E size \in value_per_request_count(want.selectivity) :
       LET corrected == ((Denominator + want.selectivity) * size) \div Denominator IN
       drawn' \in {s \cup {want.max_value} :
                     s \in {t \in SUBSET (0 .. want.max_value) : Cardinality(t) < corrected \/ t = {}}}
    /\ pc' = "drawn"
    /\ UNCHANGED <<params, col, want, made>>

----------------------------------------------------------------------------
(* Inputs made precise. *)

calc_next_range(max_value, length, start) ==
    IF length > max_value - start
    THEN [start |-> max_value - length, end |-> max_value]
    ELSE [start |-> start, end |-> start + length]

(* Matches and wanted matches, both times Denominator. *)
Selected(r) == CountIn(col, r.start .. r.end) * Denominator
Wanted == want.selectivity * Len(col)

InEpsilon(r) ==
    Abs(Selected(r) - Wanted) <= ranges_epsilon(ranges_str_arg(want.seed, want.epsilon)) * Len(col)

(* A slip, in no specification: the search goes on in the wrong half. *)
find_solution_wrong_half(start) ==
    LET f[bottom \in 0 .. MaxEntry + 1, top \in 0 .. MaxEntry + 1] ==
          IF bottom >= top THEN bottom
          ELSE LET mid == (bottom + top) \div 2
                   r   == calc_next_range(MaxEntry, mid, start)
               IN  IF InEpsilon(r) THEN mid
                   ELSE IF Selected(r) < Wanted THEN f[bottom, mid]
                   ELSE f[mid + 1, top]
    IN  f[0, MaxEntry + 1]

(* The binary search over lengths bottom .. top - 1. *)
find_solution(start) ==
    LET f[bottom \in 0 .. MaxEntry + 1, top \in 0 .. MaxEntry + 1] ==
          IF bottom >= top THEN bottom
          ELSE LET mid == (bottom + top) \div 2
                   r   == calc_next_range(MaxEntry, mid, start)
               IN  IF InEpsilon(r) THEN mid
                   ELSE IF Selected(r) > Wanted THEN f[bottom, mid]
                   ELSE f[mid + 1, top]
    IN  f[0, MaxEntry + 1]

optimal_range(start) == calc_next_range(MaxEntry, find_solution(start), start)

PreciseRange ==
    /\ pc = "drawn" /\ want.kind = "range"
    /\ IF drawn.end <= MaxEntry
       THEN made' = optimal_range(drawn.start) /\ pc' = "made"
       ELSE pc' = "undefined" /\ UNCHANGED made
    /\ UNCHANGED <<params, col, want, drawn>>

(* std::round(selectivity * size) *)
expected_results_count == (2 * Wanted + Denominator) \div (2 * Denominator)

(* One entry of the loop: taken in or out when that brings the count nearer*)
(* to the expected one.  The state is the predictor, the difference and    *)
(* whether the loop has ended.                                             *)
Near(diff) ==
    Abs(diff) * Denominator
        < predicates_epsilon(predicates_str_arg(want.seed, want.epsilon)) * Len(col)

AdjustEntry(entry, s) ==
    LET n    == CountIn(col, {entry})
        skip == \/ s.ended \/ entry > want.max_value
                \/ (s.diff < 0) = (entry \in s.predictor)
        next == IF s.diff < 0 THEN s.diff + n ELSE s.diff - n
        diff == IF ~skip /\ Abs(next) < Abs(s.diff) THEN next ELSE s.diff
    IN  [predictor |-> IF diff = s.diff THEN s.predictor
                       ELSE IF s.diff < 0 THEN s.predictor \cup {entry}
                       ELSE s.predictor \ {entry},
         diff      |-> diff,
         ended     |-> s.ended \/ (~skip /\ Near(diff))]

calc_results_count(predictor) == CountIn(col, predictor)

Difference(predictor) == calc_results_count(predictor) - expected_results_count

adjust_predictor(order, predictor) ==
    LET start == [predictor |-> predictor, diff |-> Difference(predictor),
                  ended |-> Near(Difference(predictor))]
    IN  FoldLeft(LAMBDA s, entry : AdjustEntry(entry, s), start, order).predictor

calc_max_results_count ==
    IF want.max_value = MaxEntry THEN Len(col) ELSE CountIn(col, 0 .. want.max_value)

(* The unordered map is walked in an order nothing fixes. *)
PrecisePredicateVector ==
    /\ pc = "drawn" /\ want.kind = "list"
    /\ IF calc_max_results_count < expected_results_count
       THEN made' = 0 .. want.max_value
       ELSE \E order \in SetToSeqs(ColumnValues(col)) : made' = adjust_predictor(order, drawn)
    /\ pc' = "made"
    /\ UNCHANGED <<params, col, want, drawn>>

----------------------------------------------------------------------------
(* The selectivities of the requests: evenly spaced, or drawn.  (The unit  *)
(* is 1 / Denominator; the instances' ranges divide evenly.)               *)
seq_selectivities(r) == {r.min + ((r.max - r.min) \div r.count) * i : i \in 0 .. r.count - 1}
random_selectivities(r) == r.min .. r.max
validate_selectivities(r) == 0 <= r.min /\ r.min <= r.max /\ r.max <= Denominator

Selectivities ==
    UNION {IF r.random THEN random_selectivities(r) ELSE seq_selectivities(r) :
             r \in {q \in SelectivityRanges : validate_selectivities(q)}}

(* Maximal values of predicate vectors are entries a column could hold; the*)
(* bounds passed to their generator are not used.                          *)
max_values == {v \in MaxValueDraws : v <= calc_entry_max_value(params.bits)}

create_input_info ==
    [kind : {"range"}, selectivity : Selectivities, seed : {None, 1}, epsilon : Epsilons,
     max_value : {0}]
    \cup [kind : {"list"}, selectivity : Selectivities, seed : {None, 1}, epsilon : Epsilons,
          max_value : max_values]

Init ==
    /\ pc = "start" /\ params \in ColumnParams /\ want = None
    /\ col = <<>> /\ drawn = None /\ made = None

WantInput ==
    /\ pc = "column" /\ want = None /\ want' \in create_input_info
    /\ UNCHANGED <<pc, params, col, drawn, made>>

Next == \/ CreateColumn \/ WantInput \/ RandomRange \/ RandomPredicateVector
        \/ PreciseRange \/ PrecisePredicateVector

Spec == Init /\ [][Next]_vars

----------------------------------------------------------------------------
(* Every state has the shape the generators give it. *)
TypeOK ==
    /\ pc \in {"start", "column", "drawn", "made", "thrown", "undefined"}
    /\ pc \in {"column", "drawn", "made"} => Len(col) = params.count
    /\ drawn # None /\ want.kind = "range" => drawn.start <= drawn.end

(* The binary search finds a range of the wanted selectivity whenever some *)
(* length has one: the ranges of calc_next_range grow with the length.     *)
RangePrecise ==
    pc = "made" /\ want.kind = "range" =>
        \/ InEpsilon(made)
        \/ \A l \in 0 .. MaxEntry : ~InEpsilon(calc_next_range(MaxEntry, l, drawn.start))
============================================================================
