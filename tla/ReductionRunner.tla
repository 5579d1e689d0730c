--------------------------- MODULE ReductionRunner ---------------------------
(***************************************************************************)
(* SLS operations on a context that several threads of a process share:    *)
(* the checks of SlsOperation, the dispatcher, and run_operation, which    *)
(* keeps the first pack with executions for the calling thread, pushes the *)
(* others to the runner's pool and waits for their futures in order.       *)
(*                                                                         *)
(* A pack is the mask of the compute units that hold its tables.  One      *)
(* execution on a unit is one step (AxdimmSls and CxlSls have its parts).  *)
(* The internal operation is local to the dispatched function: it is gone  *)
(* when that function has returned or thrown.                              *)
(*                                                                         *)
(* A call is what a thread asks for: [kind, tables, features, batches,     *)
(* lengths, indices, psum, execs], execs[pack] being the number of         *)
(* executions that the generator has made for a pack.                      *)
(***************************************************************************)
EXTENDS Naturals, Sequences

CONSTANTS
  Callers,      \* the threads that run operations
  Workers,      \* the threads of the pool: as many as there are units
  NoThread,
  NumOfCUnits,
  Calls,
  MaxThrows     \* bound: executions that throw

VARIABLES
  pool,         \* TRUE once init_impl has created the pool
  where,        \* where[t]: how far caller t is
  asked,        \* asked[t]: its call
  next_pack,    \* next_pack[t]: the pack that the loop of run_operation visits next
  futures,      \* futures[t]: run_queue, the packs whose futures t waits for, in order
  queue,        \* the pool's queue: [caller, pack]
  task,         \* task[x]: what thread x runs on a pack, Free if nothing
  holds,        \* holds[u]: the thread that has acquired unit u, or NoThread
  results,      \* results[t][pack]: executions whose results were written
  outcome,      \* outcome[t][pack]: how run_on_pack has ended, "ok" or "thrown", or "none"
  throws

vars == <<pool, where, asked, next_pack, futures, queue, task, holds, results, outcome, throws>>

Threads == Callers \cup Workers
CUnits == 0..(NumOfCUnits - 1)
num_of_pack == 2^NumOfCUnits

\* A slip, in no specification: the last identifier is left out.
pack_identifiers_short == 1..(num_of_pack - 2)

\* The loop visits them in increasing order.
pack_identifiers == 1..(num_of_pack - 1)

\* Mask 0 is no pack, but a thread can be left with it.
Masks == {0} \cup 1..(num_of_pack - 1)

\* The units of a mask.
UnitsOf(pack) == {u \in CUnits : (pack \div 2^u) % 2 = 1}

Free == [caller |-> NoThread, pack |-> 0, done |-> 0, state |-> "free"]

ASSUME ThreadAssumption == NoThread \notin Threads /\ Callers \cap Workers = {}
ASSUME PackAssumption == num_of_pack \in Nat \ {0}
ASSUME CallAssumption == \A c \in Calls : c.execs \in [1..(num_of_pack - 1) -> Nat]
ASSUME BoundAssumption == MaxThrows \in Nat

\* Mask 0 has no executions.
get_num_exec_iterations(t, pack) == IF pack = 0 THEN 0 ELSE asked[t].execs[pack]

Init ==
  /\ pool = FALSE
  /\ where = [t \in Callers |-> "new"] /\ asked \in [Callers -> Calls]
  /\ next_pack = [t \in Callers |-> 1] /\ futures = [t \in Callers |-> <<>>]
  /\ queue = <<>> /\ task = [x \in Threads |-> Free] /\ holds = [u \in CUnits |-> NoThread]
  /\ results = [t \in Callers |-> [pack \in Masks |-> 0]]
  /\ outcome = [t \in Callers |-> [pack \in Masks |-> "none"]] /\ throws = 0

-----------------------------------------------------------------------------
(* The caller's side                                                        *)

check_sparse_feature_size(size) == size \in {16, 32, 64}

check_run_params(c) == c.batches # 0 /\ c.lengths > 0 /\ c.indices > 0 /\ c.psum > 0

\* The constructor of the operation.
SlsOperation(t) ==
  /\ where[t] = "new"
  /\ where' = [where EXCEPT ![t] = IF asked[t].tables /\ check_sparse_feature_size(asked[t].features)
                                   THEN "operation" ELSE "refused"]
  /\ UNCHANGED <<pool, asked, next_pack, futures, queue, task, holds, results, outcome, throws>>

\* The parameters are stored first and checked then.
set_run_params(t) ==
  /\ where[t] = "operation"
  /\ where' = [where EXCEPT ![t] = IF check_run_params(asked[t]) THEN "params" ELSE "refused"]
  /\ UNCHANGED <<pool, asked, next_pack, futures, queue, task, holds, results, outcome, throws>>

\* The constructor of the runner: call_once creates the pool.
Runner(t) ==
  /\ where[t] = "params"
  /\ where' = [where EXCEPT ![t] = "runner"] /\ pool' = TRUE
  /\ UNCHANGED <<asked, next_pack, futures, queue, task, holds, results, outcome, throws>>

\* The operations that define_supported_operation registers in an SLS context.
functions == {"SlsOperation"}

\* Runner::run and Dispatcher::invoke; a type without a function throws.
invoke(t) ==
  /\ where[t] = "runner"
  /\ where' = [where EXCEPT ![t] = IF asked[t].kind \in functions THEN "submit" ELSE "refused"]
  /\ UNCHANGED <<pool, asked, next_pack, futures, queue, task, holds, results, outcome, throws>>

\* A task for a thread: run_on_pack starts with the constructor of the compute unit.
Started(t, pack) == [caller |-> t, pack |-> pack, done |-> 0, state |-> "acquire"]

\* The next pack of the loop: without executions it is passed over, the first one
\* with executions is the caller's own, the others are pushed to the queue.
Submit(t) ==
  LET pack == next_pack[t]
  IN /\ where[t] = "submit" /\ pack \in pack_identifiers
     /\ IF get_num_exec_iterations(t, pack) = 0
        THEN UNCHANGED <<queue, futures, task>>
        ELSE IF task[t] = Free
        THEN task' = [task EXCEPT ![t] = Started(t, pack)] /\ UNCHANGED <<queue, futures>>
        ELSE /\ queue' = Append(queue, [caller |-> t, pack |-> pack])
             /\ futures' = [futures EXCEPT ![t] = Append(@, pack)]
             /\ UNCHANGED task
     /\ next_pack' = [next_pack EXCEPT ![t] = @ + 1]
     /\ UNCHANGED <<pool, where, asked, holds, results, outcome, throws>>

\* After the loop the caller runs its own pack, which is 0 if no pack has an execution.
Submitted(t) ==
  /\ where[t] = "submit" /\ next_pack[t] \notin pack_identifiers
  /\ where' = [where EXCEPT ![t] = "main"]
  /\ task' = [task EXCEPT ![t] = IF @ = Free THEN Started(t, 0) ELSE @]
  /\ UNCHANGED <<pool, asked, next_pack, futures, queue, holds, results, outcome, throws>>

\* A slip, in no specification: the futures are not asked for.
Join_own_only(t) ==
  /\ where[t] = "main" /\ task[t].state = "end"
  /\ where' = [where EXCEPT ![t] = IF outcome[t][task[t].pack] = "thrown" THEN "thrown" ELSE "returned"]
  /\ task' = [task EXCEPT ![t] = Free]
  /\ UNCHANGED <<pool, asked, next_pack, futures, queue, holds, results, outcome, throws>>

\* An exception of the caller's pack leaves run_operation at once; the futures are
\* asked for in order, and the first exception leaves it as well.
Join(t) ==
  LET end(how) == where' = [where EXCEPT ![t] = how] /\ task' = [task EXCEPT ![t] = Free]
      own  == outcome[t][task[t].pack]
      next == Head(futures[t])
  IN /\ where[t] = "main" /\ task[t].state = "end"
     /\ \/ own = "thrown" /\ end("thrown") /\ UNCHANGED futures
        \/ own = "ok" /\ futures[t] = <<>> /\ end("returned") /\ UNCHANGED futures
        \/ /\ own = "ok" /\ futures[t] # <<>> /\ outcome[t][next] # "none"
           /\ futures' = [futures EXCEPT ![t] = Tail(@)]
           /\ IF outcome[t][next] = "thrown" THEN end("thrown") ELSE UNCHANGED <<where, task>>
     /\ UNCHANGED <<pool, asked, next_pack, queue, holds, results, outcome, throws>>

-----------------------------------------------------------------------------
(* run_on_pack, in the caller's thread and in the workers                   *)

\* A worker takes the oldest task of the queue.
Take(w) ==
  /\ pool /\ task[w] = Free /\ queue # <<>>
  /\ task' = [task EXCEPT ![w] = Started(Head(queue).caller, Head(queue).pack)]
  /\ queue' = Tail(queue)
  /\ UNCHANGED <<pool, where, asked, next_pack, futures, holds, results, outcome, throws>>

Running(x) == x \in Callers => where[x] = "main"

\* The constructor of the compute unit asks the driver for a unit of the pack until
\* it gets one.
Acquire(x) ==
  /\ Running(x) /\ task[x].state = "acquire"
  /\ \E u \in UnitsOf(task[x].pack) :
       /\ holds[u] = NoThread
       /\ holds' = [holds EXCEPT ![u] = x]
  /\ task' = [task EXCEPT ![x].state = "run"]
  /\ UNCHANGED <<pool, where, asked, next_pack, futures, queue, results, outcome, throws>>

\* The driver has no unit for mask 0.
Spin(x) == Running(x) /\ task[x].state = "acquire" /\ task[x].pack = 0 /\ UNCHANGED vars

\* One execution: instructions are generated and submitted and the results written.
Execute(x) ==
  LET t == task[x].caller
      pack == task[x].pack
  IN /\ Running(x) /\ task[x].state = "run" /\ task[x].done < get_num_exec_iterations(t, pack)
     /\ task' = [task EXCEPT ![x].done = @ + 1]
     /\ results' = [results EXCEPT ![t][pack] = @ + 1]
     /\ UNCHANGED <<pool, where, asked, next_pack, futures, queue, holds, outcome, throws>>

\* run_on_pack ends in thread x: the caller goes on and a worker is free, and the
\* future of a pool's task is ready (packaged_task keeps an exception).
Ends(x, how) ==
  /\ outcome' = [outcome EXCEPT ![task[x].caller][task[x].pack] = how]
  /\ task' = [task EXCEPT ![x] = IF x \in Workers THEN Free ELSE [@ EXCEPT !.state = "end"]]

\* The destructor of the compute unit disables and releases it.
ReleaseUnit(x) == holds' = [u \in CUnits |-> IF holds[u] = x THEN NoThread ELSE holds[u]]

\* A slip, in no specification: the unit is not given back when the stack unwinds.
ExecuteThrows_keeps(x) ==
  /\ Running(x) /\ task[x].state = "run" /\ throws < MaxThrows
  /\ task[x].done < get_num_exec_iterations(task[x].caller, task[x].pack)
  /\ throws' = throws + 1 /\ Ends(x, "thrown")
  /\ UNCHANGED <<pool, where, asked, next_pack, futures, queue, holds, results>>

\* An execution throws, for want of memory for a trace or for a result.
ExecuteThrows(x) ==
  /\ Running(x) /\ task[x].state = "run" /\ throws < MaxThrows
  /\ task[x].done < get_num_exec_iterations(task[x].caller, task[x].pack)
  /\ throws' = throws + 1 /\ Ends(x, "thrown") /\ ReleaseUnit(x)
  /\ UNCHANGED <<pool, where, asked, next_pack, futures, queue, results>>

\* The end of run_on_pack.
Release(x) ==
  /\ Running(x) /\ task[x].state = "run"
  /\ task[x].done = get_num_exec_iterations(task[x].caller, task[x].pack)
  /\ Ends(x, "ok") /\ ReleaseUnit(x)
  /\ UNCHANGED <<pool, where, asked, next_pack, futures, queue, results, throws>>

-----------------------------------------------------------------------------

Caller(t) == \/ SlsOperation(t) \/ set_run_params(t) \/ Runner(t) \/ invoke(t)
             \/ Submit(t) \/ Submitted(t) \/ Join(t)
OnPack(x) == Acquire(x) \/ Spin(x) \/ Execute(x) \/ ExecuteThrows(x) \/ Release(x)

Ended(t) == where[t] \in {"refused", "returned", "thrown"}

Finished ==
  /\ \A t \in Callers : Ended(t)
  /\ queue = <<>> /\ \A w \in Workers : task[w] = Free
  /\ UNCHANGED vars

Next ==
  \/ \E t \in Callers : Caller(t)
  \/ \E w \in Workers : Take(w)
  \/ \E x \in Threads : OnPack(x)
  \/ Finished

\* The operating system runs every thread again and again.
Fairness ==
  /\ \A t \in Callers : WF_vars(Caller(t) \/ OnPack(t))
  /\ \A w \in Workers : WF_vars(Take(w) \/ OnPack(w))

Spec == Init /\ [][Next]_vars /\ Fairness

-----------------------------------------------------------------------------
(* Properties                                                               *)

\* Threads, units and the queue; no thread makes more executions than its pack has.
TypeOK ==
  /\ pool \in BOOLEAN /\ throws \in 0..MaxThrows
  /\ where \in [Callers -> {"new", "operation", "params", "runner", "submit", "main",
                            "refused", "returned", "thrown"}]
  /\ asked \in [Callers -> Calls]
  /\ next_pack \in [Callers -> 1..num_of_pack]
  /\ futures \in [Callers -> Seq(1..(num_of_pack - 1))]
  /\ queue \in Seq([caller : Callers, pack : 1..(num_of_pack - 1)])
  /\ task \in [Threads -> [caller : Callers \cup {NoThread}, pack : Masks, done : Nat,
                           state : {"free", "acquire", "run", "end"}]]
  /\ \A x \in Threads : task[x].done <= get_num_exec_iterations(task[x].caller, task[x].pack)
  /\ holds \in [CUnits -> Threads \cup {NoThread}]
  /\ results \in [Callers -> [Masks -> Nat]]
  /\ outcome \in [Callers -> [Masks -> {"none", "ok", "thrown"}]]

\* run returns without an exception only when every execution of every pack was run
\* and its results written, each of them once, whichever threads have run them.
RunComplete ==
  \A t \in Callers : where[t] = "returned" =>
    \A pack \in 1..(num_of_pack - 1) : results[t][pack] = asked[t].execs[pack]

\* A task works on the operation of a call that has ended, which no longer exists,
\* only after an exception has ended that call: a run that returns leaves none behind.
OutlivedByThrow ==
  \A t \in Callers : where[t] = "returned" =>
    /\ \A w \in Workers : task[w].caller # t
    /\ \A k \in 1..Len(queue) : queue[k].caller # t

\* Every unit that is not free is in the hands of a thread that runs a pack the unit
\* belongs to: an exception does not lose the unit.
UnitsHeld ==
  \A u \in CUnits : holds[u] # NoThread =>
    task[holds[u]].state = "run" /\ u \in UnitsOf(task[holds[u]].pack)

\* A thread asks for a unit of mask 0, which the driver never grants, only for an
\* operation without executions.
SpinExplained ==
  \A x \in Threads : (Running(x) /\ task[x].state = "acquire" /\ task[x].pack = 0) =>
    \A pack \in 1..(num_of_pack - 1) : asked[task[x].caller].execs[pack] = 0

\* The call has something to execute.
HasExecutions(t) == \E pack \in 1..(num_of_pack - 1) : asked[t].execs[pack] > 0

\* Every call with an execution ends: threads that wait for units, for the pool or for
\* futures do not wait for each other for ever, whatever is thrown.
CallsEnd == \A t \in Callers : (where[t] = "new" /\ HasExecutions(t)) ~> Ended(t)

=============================================================================
