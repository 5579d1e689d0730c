------------------------------ MODULE MCTools -------------------------------
(***************************************************************************)
(* Instances of the tools for TLC.  A behaviour is one of four programs:   *)
(* the generators of IMDB test data (ImdbDataGen), those of SLS test data  *)
(* (SlsDataGen), the processes that keep both in directories               *)
(* (TestDataFiles), or pnm_ctl with the drivers and their clients          *)
(* (PnmControl).  A variable that a program does not use is None.          *)
(***************************************************************************)
EXTENDS Integers, Sequences, FiniteSets

CONSTANTS
  None,
  Denominator, DefaultEpsilon, Epsilons, MaxValueDraws,
  InstBufSize, NumOfInstBuf, InstructionSize, RandomEntries,
  Kinds, Sizes, MaxRuns, MaxDeaths,
  Units, Clients, RegArea, MemArgs, Timeouts, MaxTools, MaxProcs

VARIABLES
  program,
  pc, made,
  params, col, want, drawn,
  tparams, iparams, rows, table, lengths, indices, golden,
  kind, files, call, todo, got, runs, deaths, bare, retooled,
  loaded, shm, dax, timeout, drv, client, tool, said, hist

imdbVars == <<params, col, want, drawn>>
slsVars  == <<tparams, iparams, rows, table, lengths, indices, golden>>
fileVars == <<kind, files, call, todo, got, deaths, bare, retooled>>
ctlVars  == <<loaded, shm, dax, timeout, drv, client, tool, said, hist>>

imdbUnused == /\ params = None /\ col = None /\ want = None /\ drawn = None
slsUnused  == /\ tparams = None /\ iparams = None /\ rows = None /\ table = None
              /\ lengths = None /\ indices = None /\ golden = None
fileUnused == /\ kind = None /\ files = None /\ call = None /\ todo = None /\ got = None
              /\ deaths = None /\ bare = None /\ retooled = None
ctlUnused  == /\ loaded = None /\ shm = None /\ dax = None /\ timeout = None /\ drv = None
              /\ client = None /\ tool = None /\ said = None /\ hist = None

-----------------------------------------------------------------------------
(* IMDB: random and positioned columns with all, some and no arguments;    *)
(* two selectivities, the whole range, and bounds that are refused.        *)

Column(gen, bits, count, seed, step, min, max) ==
  [gen |-> gen, bits |-> bits, count |-> count, seed |-> seed, step |-> step,
   min |-> min, max |-> max]

MCColumnParams ==
  {Column("random", 2, 4, 7, None, None, None), Column("random", 3, 3, 7, None, 1, None),
   Column("random", 2, 4, None, None, None, None), Column("random", 2, 4, 1, None, 3, 2),
   Column("positioned", 3, 4, None, 3, None, None), Column("positioned", 3, 4, None, -5, 1, 6),
   Column("positioned", 3, 4, None, None, 7, 7), Column("positioned", 3, 4, None, 11, 1, 8),
   Column("positioned", 3, 4, None, 9, 2, None), Column("positioned", 3, 4, None, -1, None, 6)}

Sorted(S) == {c \in S : \A k \in 2 .. Len(c) : c[k - 1] <= c[k]}

MCRandomColumns == Sorted([1 .. 4 -> 0 .. 3]) \cup Sorted([1 .. 3 -> {1, 4, 7}])

MCSelectivityRanges ==
  {[random |-> FALSE, count |-> 2, min |-> 250, max |-> 1000],
   [random |-> TRUE, count |-> 1, min |-> 1000, max |-> 1000],
   [random |-> FALSE, count |-> 1, min |-> 500, max |-> 300]}

ImdbGen == INSTANCE ImdbDataGen WITH
             ColumnParams <- MCColumnParams, RandomColumns <- MCRandomColumns,
             SelectivityRanges <- MCSelectivityRanges

-----------------------------------------------------------------------------
(* SLS: all generators of entries, lengths and indices, tables that        *)
(* overflow the instruction buffer and lookups that reach the row count.   *)

TableParams(tables, min, max, cols, g) ==
  [tables |-> tables, min_rows |-> min, max_rows |-> max, cols |-> cols, generator |-> g,
   args |-> [kvalue |-> 3, sparse_feature_size |-> 2, value |-> 5]]

IndexParams(min, max, b, l, o, k) ==
  [min_lookup |-> min, max_lookup |-> max, minibatch_size |-> b, lengths |-> l,
   overflow |-> o, indices |-> k]

MCRuns ==
  {<<TableParams(2, 2, 3, 2, g), IndexParams(None, 2, 1, "random", 0, k)>> :
     g \in {"random", "position", "tapp", "fixed"}, k \in {"random", "sequential"}}
  \cup
  {<<TableParams(2, None, 8, 1, "position"), IndexParams(None, 2, 1, "random", o, "sequential")>> :
     o \in -1 .. 2}
  \cup
  {<<TableParams(2, 3, 4, 2, "position"), IndexParams(0, 2, 2, l, o, k)>> :
     l \in {"random", "random_from_lookups_per_table"}, o \in {0, 2},
     k \in {"random", "sequential"}}

SlsGen == INSTANCE SlsDataGen WITH Runs <- MCRuns

-----------------------------------------------------------------------------
(* Directories and pnm_ctl: the third client uses the IMDB device.         *)

Directory == INSTANCE TestDataFiles

Control == INSTANCE PnmControl WITH
             DevOf <- [c \in Clients |-> IF c = 3 THEN "imdb" ELSE "sls"],
             MemSize <- [sls |-> 8, imdb |-> 4],
             Loads <- {{"sls", "imdb"}, {"sls"}}

-----------------------------------------------------------------------------

ToolsInit ==
  \/ /\ program = "imdb" /\ ImdbGen!Init
     /\ slsUnused /\ fileUnused /\ ctlUnused /\ runs = None
  \/ /\ program = "sls" /\ SlsGen!Init
     /\ imdbUnused /\ fileUnused /\ ctlUnused /\ made = None /\ runs = None
  \/ /\ program = "files" /\ Directory!Init
     /\ imdbUnused /\ slsUnused /\ ctlUnused
  \/ /\ program = "control" /\ Control!Init
     /\ imdbUnused /\ slsUnused /\ fileUnused /\ pc = None /\ made = None

ToolsNext ==
  /\ UNCHANGED program
  /\ \/ /\ program = "imdb" /\ ImdbGen!Next
        /\ UNCHANGED <<slsVars, fileVars, ctlVars, runs>>
     \/ /\ program = "sls" /\ SlsGen!Next
        /\ UNCHANGED <<imdbVars, fileVars, ctlVars, made, runs>>
     \/ /\ program = "files" /\ Directory!Next
        /\ UNCHANGED <<imdbVars, slsVars, ctlVars>>
     \/ /\ program = "control" /\ Control!Next
        /\ UNCHANGED <<imdbVars, slsVars, fileVars, pc, made>>

toolsVars == <<program, pc, made, runs, imdbVars, slsVars, fileVars, ctlVars>>

ToolsSpec == ToolsInit /\ [][ToolsNext]_toolsVars

-----------------------------------------------------------------------------
(* Properties.  Each one belongs to one program and is stated, with its    *)
(* reason, in that program's module.                                       *)

\* The search for a range of a wanted selectivity finds one if there is one.
RangePrecise == program = "imdb" => ImdbGen!RangePrecise

\* The golden vector is the sum of the rows that the indices name.
GoldenIsSum == program = "sls" => SlsGen!GoldenIsSum

\* The base data, inputs and golden data that a call returns belong together.
DataBelongTogether == program = "files" => Directory!DataBelongTogether

\* A call fails only because of what a death or a call without golden data left.
FailsOnlyAfterDeath == program = "files" => Directory!FailsOnlyAfterDeath

\* Every busy unit of a device that was not reset has exactly one owner.
UnitsAccounted == program = "control" => Control!UnitsAccounted

\* Shared memory files are as the last setup or destroy reported.
ShmAsReported == program = "control" => Control!ShmAsReported

=============================================================================
