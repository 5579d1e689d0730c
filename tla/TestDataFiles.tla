--------------------------- MODULE TestDataFiles ---------------------------
(***************************************************************************)
(* A directory of test data (tools/datagen): the calls that load the data  *)
(* or make and store them, for IMDB scans (generate_and_store_data) and for*)
(* SLS (get_or_create_test_tables, get_or_create_test_indices and          *)
(* get_golden_vector), and the tools create_tables and create_indices that *)
(* write into the same directory.  A process may die between any two       *)
(* writes, and the next one finds what it left.                            *)
(*                                                                         *)
(* Base data are a column or the tables, inputs the ranges, predicate      *)
(* vectors or indices, golden data the results.  What was generated has a  *)
(* number; golden data carry the numbers of what they were computed from.  *)
(***************************************************************************)
EXTENDS Integers, Sequences

CONSTANTS
    Kinds,      \* of directories: "range", "list", "sls"
    Sizes,      \* of the tables create_tables makes
    MaxRuns,    \* processes that use the directory
    MaxDeaths   \* of processes

VARIABLES
    kind,       \* of the directory
    files,      \* its files
    pc,         \* what the process does next
    call,       \* the call it serves
    todo,       \* writes it still has to make before that
    got,        \* what it has loaded
    made,       \* number of generated data
    runs, deaths,
    bare,       \* inputs were stored without golden data
    retooled    \* base data or indices were stored over others

vars == <<kind, files, pc, call, todo, got, made, runs, deaths, bare, retooled>>

Names == {"base.info", "base.bin", "in.info", "in.bin",
          "bv.info", "bv.bin", "iv.info", "iv.bin", "golden.bin"}

Data(base, input, size) == [st |-> "full", base |-> base, input |-> input, size |-> size]
Cut(st) == [st |-> st, base |-> 0, input |-> 0, size |-> 0]
Absent  == Cut("absent")

exists(f) == files[f].st # "absent"

----------------------------------------------------------------------------
(* What is stored, in the order of the writes: the info file before the    *)
(* data it describes.                                                      *)

Put(file, d) == <<[file |-> file, data |-> d]>>

store_columns_info(d)    == Put("base.info", d)
store_tables_info(d)     == Put("base.info", d)
store_ranges_info(d)     == Put("in.info", d)
store_predicates_info(d) == Put("in.info", d)
store_indices_info(d)    == Put("in.info", d)
store_sizes_info(file, d) == Put(file, d)

store_columns(d)    == store_columns_info(d) \o Put("base.bin", d)
store_tables(d)     == store_tables_info(d) \o Put("base.bin", d)
store_ranges(d)     == store_ranges_info(d) \o Put("in.bin", d)
store_predicates(d) == store_predicates_info(d) \o Put("in.bin", d)
store_indices(d)    == store_indices_info(d) \o Put("in.bin", d)

store_bit_vectors(d)   == store_sizes_info("bv.info", d) \o Put("bv.bin", d)
store_index_vectors(d) == store_sizes_info("iv.info", d) \o Put("iv.bin", d)

(* A slip, in no specification: only the bit vectors are computed. *)
compute_and_store_golden_bits(d) == store_bit_vectors(d)

compute_and_store_golden(d) == store_bit_vectors(d) \o store_index_vectors(d)

compute_and_store_golden_sls(d) == Put("golden.bin", d)

----------------------------------------------------------------------------
(* Loading.  A file must not be empty to be mapped.  What an info file that*)
(* was cut off announces fits no data.                                     *)

MappedFile(f) == files[f].st \in {"part", "full"}

Announced(info) == IF info.st = "full" THEN info.size ELSE 0

load_columns_info    == Announced(files["base.info"])
load_tables_info     == Announced(files["base.info"])
load_ranges_info     == Announced(files["in.info"])
load_predicates_info == Announced(files["in.info"])
load_sizes_info(f)   == Announced(files[f])

SizeOf(bin) == IF files[bin].st = "full" THEN files[bin].size ELSE -1

(* IMDB data must have the size their info announces. *)
load_columns == /\ exists("base.info") /\ MappedFile("base.bin")
                /\ load_columns_info = SizeOf("base.bin")

load_ranges == /\ exists("in.info") /\ MappedFile("in.bin")
               /\ load_ranges_info = SizeOf("in.bin")

load_predicates == /\ exists("in.info") /\ MappedFile("in.bin")
                   /\ load_predicates_info = SizeOf("in.bin")

(* A slip, in no specification: the size of the file is not compared. *)
load_bit_vectors_unchecked == exists("bv.info") /\ exists("bv.bin")

load_bit_vectors == /\ exists("bv.info") /\ MappedFile("bv.bin")
                    /\ load_sizes_info("bv.info") = SizeOf("bv.bin")

load_index_vectors == /\ exists("iv.info") /\ MappedFile("iv.bin")
                      /\ load_sizes_info("iv.info") = SizeOf("iv.bin")

(* SLS data are taken as they are. *)
get_test_tables_mmap == MappedFile("base.bin") /\ exists("base.info")
get_test_indices     == exists("in.bin") /\ exists("in.info")
get_golden_vector    == exists("golden.bin")

----------------------------------------------------------------------------
(* Calls. *)

Nothing == [base |-> Absent, input |-> Absent, golden |-> Absent]

Calls == [name : {"get_or_create"}, golden : IF kind = "sls" THEN {TRUE} ELSE BOOLEAN,
          output : IF kind = "sls" THEN {"bv"} ELSE {"bv", "iv"}, size : {1}]
         \cup IF kind = "sls"
              THEN [name : {"create_tables"}, golden : {TRUE}, output : {"bv"}, size : Sizes]
                   \cup [name : {"create_indices"}, golden : {TRUE}, output : {"bv"}, size : {1}]
              ELSE {}

Start ==
    /\ pc = "idle" /\ runs < MaxRuns /\ runs' = runs + 1
    /\ call' \in Calls
    /\ got' = Nothing /\ todo' = <<>>
    /\ pc' = IF call'.name = "get_or_create" THEN "base" ELSE call'.name
    /\ UNCHANGED <<kind, files, made, deaths, bare, retooled>>

(* New base data, and new inputs for the base data that are there.         *)
NewBase == Data(made + 1, 0, call.size)
NewInputs(announced) == Data(files["base.bin"].base, made + 1, announced)

CreateBase(stores) ==
    /\ made' = made + 1
    /\ todo' = stores
    /\ retooled' = (retooled \/ exists("base.bin") \/ exists("in.bin"))
    /\ UNCHANGED bare

(* The inputs are stored, and their golden data.                           *)
CreateInputs(stores, goldens) ==
    /\ made' = made + 1
    /\ todo' = stores \o IF call.golden THEN goldens ELSE <<>>
    /\ bare' = (bare \/ ~call.golden)
    /\ retooled' = (retooled \/ exists("in.bin"))

Keep == UNCHANGED <<todo, made, bare, retooled>>

get_or_create_test_columns ==
    /\ pc = "base" /\ kind # "sls" /\ todo = <<>> /\ pc' = "load_base"
    /\ IF exists("base.bin") THEN Keep ELSE CreateBase(store_columns(NewBase))
    /\ UNCHANGED <<kind, files, call, got, runs, deaths>>

get_or_create_test_tables ==
    /\ pc = "base" /\ kind = "sls" /\ todo = <<>> /\ pc' = "load_base"
    /\ IF exists("base.bin") THEN Keep ELSE CreateBase(store_tables(NewBase))
    /\ UNCHANGED <<kind, files, call, got, runs, deaths>>

create_tables ==
    /\ pc = "create_tables" /\ pc' = "returned"
    /\ CreateBase(store_tables(NewBase))
    /\ UNCHANGED <<kind, files, call, got, runs, deaths>>

LoadBase ==
    /\ pc = "load_base" /\ todo = <<>>
    /\ IF IF kind = "sls" THEN get_test_tables_mmap ELSE load_columns
       THEN got' = [got EXCEPT !.base = files["base.bin"]] /\ pc' = "inputs"
       ELSE pc' = "thrown" /\ UNCHANGED got
    /\ UNCHANGED <<kind, files, call, todo, made, runs, deaths, bare, retooled>>

(* The column with its info, read again. *)
get_column_with_info == load_columns

get_or_create_test_predicate_vectors ==
    /\ pc = "inputs" /\ kind = "list" /\ todo = <<>>
    /\ IF exists("in.bin") THEN pc' = "load_inputs" /\ Keep
       ELSE IF get_column_with_info
       THEN /\ pc' = "load_inputs"
            /\ CreateInputs(store_predicates(NewInputs(load_columns_info)),
                         compute_and_store_golden(NewInputs(files["base.bin"].size)))
       ELSE pc' = "thrown" /\ Keep
    /\ UNCHANGED <<kind, files, call, got, runs, deaths>>

get_or_create_test_scan_ranges ==
    /\ pc = "inputs" /\ kind = "range" /\ todo = <<>>
    /\ IF exists("in.bin") THEN pc' = "load_inputs" /\ Keep
       ELSE IF get_column_with_info
       THEN /\ pc' = "load_inputs"
            /\ CreateInputs(store_ranges(NewInputs(load_columns_info)),
                         compute_and_store_golden(NewInputs(files["base.bin"].size)))
       ELSE pc' = "thrown" /\ Keep
    /\ UNCHANGED <<kind, files, call, got, runs, deaths>>

get_or_create_test_indices ==
    /\ pc = "inputs" /\ kind = "sls" /\ todo = <<>>
    /\ IF exists("in.bin") THEN pc' = "load_inputs" /\ Keep
       ELSE IF get_test_tables_mmap
       THEN /\ pc' = "load_inputs"
            /\ CreateInputs(store_indices(NewInputs(load_tables_info)),
                         compute_and_store_golden_sls(NewInputs(files["base.bin"].size)))
       ELSE pc' = "thrown" /\ Keep
    /\ UNCHANGED <<kind, files, call, got, runs, deaths>>

create_indices ==
    /\ pc = "create_indices"
    /\ IF get_test_tables_mmap
       THEN /\ pc' = "returned"
            /\ CreateInputs(store_indices(NewInputs(load_tables_info)),
                         compute_and_store_golden_sls(NewInputs(files["base.bin"].size)))
       ELSE pc' = "thrown" /\ Keep
    /\ UNCHANGED <<kind, files, call, got, runs, deaths>>

InputLoads == CASE kind = "range" -> load_ranges
                [] kind = "list"  -> load_predicates
                [] kind = "sls"   -> get_test_indices

LoadInputs ==
    /\ pc = "load_inputs" /\ todo = <<>>
    /\ IF InputLoads
       THEN /\ got' = [got EXCEPT !.input = files["in.bin"]]
            /\ pc' = IF call.golden THEN "load_golden" ELSE "returned"
       ELSE pc' = "thrown" /\ UNCHANGED got
    /\ UNCHANGED <<kind, files, call, todo, made, runs, deaths, bare, retooled>>

GoldenLoads == CASE kind = "sls" -> get_golden_vector
                 [] kind # "sls" /\ call.output = "bv" -> load_bit_vectors
                 [] kind # "sls" /\ call.output = "iv" -> load_index_vectors
GoldenFile == IF kind = "sls" THEN "golden.bin"
              ELSE IF call.output = "bv" THEN "bv.bin" ELSE "iv.bin"

(* The end of generate_and_store_data, and the caller of the SLS functions.*)
LoadGolden ==
    /\ pc = "load_golden" /\ todo = <<>>
    /\ IF GoldenLoads
       THEN got' = [got EXCEPT !.golden = files[GoldenFile]] /\ pc' = "returned"
       ELSE pc' = "thrown" /\ UNCHANGED got
    /\ UNCHANGED <<kind, files, call, todo, made, runs, deaths, bare, retooled>>

(* A write: the file is opened and emptied, then filled. *)
Write ==
    /\ todo # <<>> /\ pc # "idle"
    /\ LET w == Head(todo) IN
       IF files[w.file].st = "empty"
       THEN files' = [files EXCEPT ![w.file] = w.data] /\ todo' = Tail(todo)
       ELSE files' = [files EXCEPT ![w.file] = Cut("empty")] /\ UNCHANGED todo
    /\ UNCHANGED <<kind, pc, call, got, made, runs, deaths, bare, retooled>>

End ==
    /\ pc \in {"returned", "thrown"} /\ todo = <<>>
    /\ pc' = "idle" /\ got' = Nothing
    /\ UNCHANGED <<kind, files, call, todo, made, runs, deaths, bare, retooled>>

(* The process dies; of a file it was filling a part may be there. *)
Die ==
    /\ pc # "idle" /\ todo # <<>> /\ deaths < MaxDeaths
    /\ deaths' = deaths + 1
    /\ files' \in {files} \cup {[files EXCEPT ![f] = Cut("part")] :
                                  f \in {g \in {Head(todo).file} : files[g].st = "empty"}}
    /\ pc' = "idle" /\ todo' = <<>> /\ got' = Nothing
    /\ UNCHANGED <<kind, call, made, runs, bare, retooled>>

----------------------------------------------------------------------------
Init ==
    /\ kind \in Kinds
    /\ files = [f \in Names |-> Absent]
    /\ pc = "idle" /\ todo = <<>> /\ got = Nothing /\ made = 0 /\ runs = 0 /\ deaths = 0
    /\ call = [name |-> "get_or_create", golden |-> TRUE, output |-> "bv", size |-> 1]
    /\ bare = FALSE /\ retooled = FALSE

Next == \/ Start \/ get_or_create_test_columns \/ get_or_create_test_tables \/ LoadBase
        \/ get_or_create_test_predicate_vectors \/ get_or_create_test_scan_ranges
        \/ get_or_create_test_indices \/ LoadInputs \/ LoadGolden
        \/ create_tables \/ create_indices \/ Write \/ End \/ Die

Spec == Init /\ [][Next]_vars

----------------------------------------------------------------------------
(* Files are absent, empty, cut off or full, and a call has loaded nothing *)
(* it has not reached.                                                     *)
TypeOK ==
    /\ \A f \in Names : files[f].st \in {"absent", "empty", "part", "full"}
    /\ todo # <<>> => pc \in {"load_base", "load_inputs", "returned"}
    /\ made <= 2 * runs

Returned == pc = "returned" /\ todo = <<>> /\ call.name = "get_or_create"

(* What a call returns belongs together: the inputs were made for the base *)
(* data, the golden data computed from both.  For IMDB this holds whatever *)
(* process died before, for SLS unless one did or a tool wrote over data   *)
(* that others were made from.                                             *)
DataBelongTogether ==
    Returned /\ (kind = "sls" => deaths = 0 /\ ~retooled) =>
        /\ got.base.st = "full" /\ got.input.st = "full"
        /\ got.input.base = got.base.base
        /\ call.golden => /\ got.golden.base = got.base.base
                          /\ got.golden.input = got.input.input

(* A call fails only after a process died in the middle of its writes, or  *)
(* when it asks for golden data an earlier call did not want, or, for the  *)
(* tool that makes indices, when there are no tables.                      *)
FailsOnlyAfterDeath ==
    pc = "thrown" => \/ deaths > 0 \/ bare
                     \/ call.name = "create_indices" /\ ~exists("base.bin")
============================================================================
