----------------------------- MODULE MCRunners ------------------------------
(***************************************************************************)
(* Instances of the library's two users of a thread pool for TLC.  A       *)
(* behaviour is one of two programs: threads that run SLS operations with  *)
(* one runner (ReductionRunner, extended), or an executor of secure SLS    *)
(* (SecureSls) beside threads that have not begun to.  They have nothing   *)
(* in common but the run; a variable of the executor is Unused if there is *)
(* none.                                                                   *)
(***************************************************************************)
EXTENDS ReductionRunner

CONSTANTS Unused, EntryMod, TagMod, Features, BatchRows, MiniBatch, MaxRuns

VARIABLES
  program,
  pc, tagged, sync, left, offset, offsets, device, req, runs, epsum, cpsum, waiting, running,
  awaited, user, checks, verified, failed

secureVars == <<pc, tagged, sync, left, offset, offsets, device, req, runs, epsum, cpsum,
                waiting, running, awaited, user, checks, verified, failed>>

-----------------------------------------------------------------------------
(* Calls that are refused at each check, one without executions, and ones  *)
(* with executions in one pack and in all of them.                         *)

Call(execs) ==
  [kind |-> "SlsOperation", tables |-> TRUE, features |-> 16, batches |-> 1, lengths |-> 1,
   indices |-> 1, psum |-> 1, execs |-> execs]

RunnerCalls ==
  {Call(<<1, 1, 1>>), Call(<<0, 0, 2>>), Call(<<0, 0, 0>>),
   [Call(<<0, 1, 0>>) EXCEPT !.kind = "Scan"], [Call(<<0, 1, 0>>) EXCEPT !.tables = FALSE],
   [Call(<<0, 1, 0>>) EXCEPT !.batches = 0]}

-----------------------------------------------------------------------------
(* Two tables of three rows and one, loaded two rows at a time; entries    *)
(* modulo 4 and tags modulo 32, so that sums wrap around in some requests. *)
(* Lookups of the first table go through its rows, those of the second     *)
(* repeat its row.                                                         *)

SecurePad(a) == <<2, 3, 1, 0, 1, 3, 0, 2>>[a + 1]
SecureTagPad(a) == (7 * a * a + 5 * a + 3) % 32
SecurePower(f) == IF f = 1 THEN 5 ELSE 25

SecureRequests ==
  {[lengths |-> <<l, m>>,
    indices |-> << [n \in 1..(l[1] + l[2]) |-> ((n + 1) % 3) + 1],
                   [n \in 1..(m[1] + m[2]) |-> 1] >>] :
   l \in {<<1, 1>>, <<2, 0>>, <<0, 2>>}, m \in {<<2, 0>>, <<0, 0>>}}

Secure == INSTANCE SecureSls WITH
            Tables <- << << <<1, 0>>, <<2, 1>>, <<3, 1>> >>, << <<1, 2>> >> >>,
            Pad <- SecurePad, TagPad <- SecureTagPad, Power <- SecurePower,
            Requests <- SecureRequests, queue <- waiting, results <- awaited

-----------------------------------------------------------------------------

secureUnused ==
  /\ pc = Unused /\ tagged = Unused /\ sync = Unused /\ left = Unused /\ offset = Unused
  /\ offsets = Unused /\ device = Unused /\ req = Unused /\ runs = Unused /\ epsum = Unused
  /\ cpsum = Unused /\ waiting = Unused /\ running = Unused /\ awaited = Unused
  /\ user = Unused /\ checks = Unused /\ verified = Unused /\ failed = Unused

\* The calls of all callers but one are not refused: the callers are alike.
RunnersInit ==
  /\ Init
  /\ \/ /\ program = "runner" /\ secureUnused
        /\ \A t \in Callers : t # 1 => asked[t] \in {Call(<<1, 1, 1>>), Call(<<0, 0, 2>>), Call(<<0, 0, 0>>)}
     \/ program = "secure" /\ Secure!Init /\ asked = [t \in Callers |-> Call(<<0, 0, 0>>)]

RunnerStep(A) == program = "runner" /\ A /\ UNCHANGED <<program, secureVars>>
SecureStep(A) == program = "secure" /\ A /\ UNCHANGED <<program, vars>>

\* The executor's caller has made all its runs, or one over tasks of a failed run.
SecureOver ==
  /\ pc \in {"ready", "undefined"} /\ (pc = "ready" => runs = MaxRuns)
  /\ UNCHANGED secureVars

RunnersNext == RunnerStep(Next) \/ SecureStep(Secure!Next) \/ SecureStep(SecureOver)

runnersVars == <<program, vars, secureVars>>

\* The fairness of each program, thread by thread.
RunnersSpec ==
  /\ RunnersInit /\ [][RunnersNext]_runnersVars
  /\ \A t \in Callers : WF_runnersVars(RunnerStep(Caller(t) \/ OnPack(t)))
  /\ \A w \in Workers :
       WF_runnersVars(RunnerStep(Take(w) \/ OnPack(w)) \/ SecureStep(Secure!Worker(w)))
  /\ WF_runnersVars(SecureStep(Secure!Started))

-----------------------------------------------------------------------------
(* Properties of the executor, stated with their reasons in SecureSls;     *)
(* those of the runner are ReductionRunner's own.                          *)

\* A run returns the sums of the plain rows.
ResultsCorrect == program = "secure" => Secure!ResultsCorrect

\* Sums are combined only when no task writes to them.
NoTaskBehindRun == program = "secure" => Secure!NoTaskBehindRun

\* Every row of every result is correct, as the row view's promise has it.
AllRowsCorrect == program = "secure" => Secure!AllRowsCorrect

=============================================================================
