----------------------- MODULE ReductionRunnerProofs ------------------------
(***************************************************************************)
(* The inductive invariant of the runner, for any number of threads,       *)
(* units, calls and exceptions, that every step keeps it, and the          *)
(* runner's properties, which follow from it.  The invariant follows a     *)
(* pack of a call through its places: not visited yet, in the pool's       *)
(* queue, with one thread, ended.                                          *)
(***************************************************************************)
EXTENDS ReductionRunner, TLAPS

Packs == 1..(num_of_pack - 1)
Inside == {"submit", "main"}
Before == {"new", "operation", "params", "runner"}

\* Thread x is at a pack: p of caller t.
At(x, t, p) == task[x] # Free /\ task[x].caller = t /\ task[x].pack = p

\* Workers are at packs of calls, callers at a pack of their own call while they are in
\* run_operation, and in run_on_pack only behind the loop.
TaskShape ==
  \A x \in Threads :
    /\ task[x].state = "free" <=> task[x] = Free
    /\ task[x] # Free => task[x].caller \in Callers /\ task[x].pack < next_pack[task[x].caller]
    /\ x \in Workers /\ task[x] # Free => task[x].pack # 0 /\ task[x].state # "end"
    /\ x \in Callers /\ task[x] # Free => task[x].caller = x /\ where[x] \in Inside
    /\ x \in Callers /\ where[x] = "main" => task[x] # Free
    /\ x \in Callers /\ task[x].state \in {"run", "end"} => where[x] = "main"
    /\ x \in Callers /\ task[x].pack = 0 /\ task[x] # Free => where[x] = "main"

\* Nothing has happened to a pack that the loop has not visited.
Fresh ==
  \A t \in Callers :
    /\ where[t] \in Before => next_pack[t] = 1
    /\ where[t] \in {"main", "returned"} => next_pack[t] = num_of_pack
    /\ \A p \in Packs : p >= next_pack[t] => results[t][p] = 0 /\ outcome[t][p] = "none"
    /\ where[t] \in Before \cup {"submit"} => results[t][0] = 0 /\ outcome[t][0] = "none"

\* A pack is with at most one thread, which has written what it has counted.
TasksApart ==
  \A x \in Threads : \A t \in Callers : \A p \in Masks : At(x, t, p) =>
    /\ \A y \in Threads : y # x => ~At(y, t, p)
    /\ task[x].state = "acquire" => outcome[t][p] = "none" /\ results[t][p] = 0 /\ task[x].done = 0
    /\ task[x].state = "run" => outcome[t][p] = "none" /\ results[t][p] = task[x].done

Queued(t, p) == \E k \in 1..Len(queue) : queue[k].caller = t /\ queue[k].pack = p

\* A pack in the queue is there once, with no thread and not begun.
QueueApart ==
  /\ \A j, k \in 1..Len(queue) : j # k => queue[j] # queue[k]
  /\ \A t \in Callers : \A p \in Masks : Queued(t, p) =>
       /\ p < next_pack[t] /\ results[t][p] = 0 /\ outcome[t][p] = "none"
       /\ \A x \in Threads : ~At(x, t, p)

\* A pack whose run_on_pack has ended without an exception was run to its end.
Counted ==
  \A t \in Callers : \A p \in Masks :
    /\ results[t][p] <= get_num_exec_iterations(t, p)
    /\ outcome[t][p] = "ok" => results[t][p] = get_num_exec_iterations(t, p)

Awaits(t, p) == \E k \in 1..Len(futures[t]) : futures[t][k] = p

\* A visited pack with executions is the caller's own, awaited, or ended.
Covered ==
  \A t \in Callers : where[t] \in Inside =>
    \A p \in Packs : p < next_pack[t] /\ get_num_exec_iterations(t, p) # 0 =>
      /\ task[t] # Free /\ task[t].pack # 0
      /\ task[t].pack = p \/ Awaits(t, p) \/ outcome[t][p] = "ok"

\* A pack that is queued or with a worker is awaited, or its call has thrown.
Awaited ==
  \A t \in Callers : \A p \in Masks :
    (Queued(t, p) \/ \E w \in Workers : At(w, t, p)) =>
      where[t] = "thrown" \/ (where[t] \in Inside /\ Awaits(t, p))

IInv ==
  /\ TypeOK /\ TaskShape /\ Fresh /\ TasksApart /\ QueueApart /\ Counted /\ Covered /\ Awaited
  /\ RunComplete /\ UnitsHeld

\* The elements of a sequence; one that is not empty has a first.
LEMMA SeqElements ==
  ASSUME NEW S, NEW s \in Seq(S)
  PROVE  Len(s) \in Nat /\ (s # <<>> => Len(s) # 0) /\ (\A i \in 1 .. Len(s) : s[i] \in S)
OBVIOUS

\* A sequence that an element is put behind.
LEMMA SeqGrows ==
  ASSUME NEW S, NEW s \in Seq(S), NEW e \in S
  PROVE  Append(s, e) \in Seq(S)
OBVIOUS

\* A sequence without its first element.
LEMMA SeqShrinks ==
  ASSUME NEW S, NEW s \in Seq(S), s # <<>>
  PROVE  /\ Tail(s) \in Seq(S) /\ Len(Tail(s)) = Len(s) - 1
         /\ \A i \in 1 .. Len(Tail(s)) : Tail(s)[i] = s[i + 1]
OBVIOUS

\* A bound that grows.
LEMMA BoundGrows ==
  ASSUME NEW m \in Nat, NEW n \in Nat, NEW q \in Nat, m <= n
  PROVE  (q < m => q < n) /\ (q >= n => q >= m)
OBVIOUS

\* What the types give about the elements of the variables.
LEMMA Facts ==
  ASSUME TypeOK
  PROVE  /\ num_of_pack \in Nat \ {0} /\ Packs \subseteq Masks /\ 0 \in Masks
         /\ Masks \subseteq Nat /\ \A p \in Packs : p # 0
         /\ \A t \in Callers :
              /\ next_pack[t] \in 1..num_of_pack /\ Len(futures[t]) \in Nat
              /\ \A p \in Masks : get_num_exec_iterations(t, p) \in Nat /\ results[t][p] \in Nat
              /\ \A k \in 1..Len(futures[t]) : futures[t][k] \in Packs
         /\ Len(queue) \in Nat
         /\ \A k \in 1..Len(queue) :
              /\ queue[k].caller \in Callers /\ queue[k].pack \in Packs
              /\ queue[k] = [caller |-> queue[k].caller, pack |-> queue[k].pack]
         /\ \A x \in Threads :
              /\ task[x].pack \in Masks /\ task[x].done \in Nat
              /\ task[x].state \in {"free", "acquire", "run", "end"}
              /\ task[x] = [caller |-> task[x].caller, pack |-> task[x].pack,
                            done |-> task[x].done, state |-> task[x].state]
         /\ \A u \in CUnits : holds[u] # NoThread => holds[u] \in Threads
<1> USE DEF TypeOK
<1>1. num_of_pack \in Nat \ {0} /\ Packs \subseteq Masks /\ 0 \in Masks /\ Masks \subseteq Nat
  BY PackAssumption DEF Masks, Packs
<1>2. \A p \in Packs : p # 0
  BY PackAssumption DEF Packs
<1>3. ASSUME NEW t \in Callers
      PROVE  /\ next_pack[t] \in 1..num_of_pack /\ Len(futures[t]) \in Nat
             /\ \A p \in Masks : get_num_exec_iterations(t, p) \in Nat /\ results[t][p] \in Nat
             /\ \A k \in 1..Len(futures[t]) : futures[t][k] \in Packs
  <2>1. asked[t].execs \in [1..(num_of_pack - 1) -> Nat]
    BY <1>3, CallAssumption, Zenon
  <2>2. \A p \in Masks : get_num_exec_iterations(t, p) \in Nat
    BY <2>1, PackAssumption, Zenon DEF get_num_exec_iterations, Masks
  <2>3. futures[t] \in Seq(1..(num_of_pack - 1))
    BY <1>3, Zenon
  <2>4. \A k \in 1..Len(futures[t]) : futures[t][k] \in 1..(num_of_pack - 1)
    BY <2>3, SeqElements, Zenon
  <2> QED
    BY <1>3, <2>2, <2>3, <2>4 DEF Packs
<1>4. Len(queue) \in Nat
  OBVIOUS
<1>5. ASSUME NEW k \in 1..Len(queue)
      PROVE  /\ queue[k].caller \in Callers /\ queue[k].pack \in Packs
             /\ queue[k] = [caller |-> queue[k].caller, pack |-> queue[k].pack]
  <2>1. queue[k] \in [caller : Callers, pack : 1..(num_of_pack - 1)]
    BY <1>5, SeqElements, Zenon
  <2> QED
    BY <2>1, Zenon DEF Packs
<1>6. ASSUME NEW x \in Threads
      PROVE  /\ task[x].pack \in Masks /\ task[x].done \in Nat
             /\ task[x].state \in {"free", "acquire", "run", "end"}
             /\ task[x] = [caller |-> task[x].caller, pack |-> task[x].pack,
                           done |-> task[x].done, state |-> task[x].state]
  <2>1. task[x] \in [caller : Callers \cup {NoThread}, pack : Masks, done : Nat,
                     state : {"free", "acquire", "run", "end"}]
    BY <1>6, Zenon
  <2> QED
    BY <2>1, Zenon
<1>7. \A u \in CUnits : holds[u] # NoThread => holds[u] \in Threads
  BY Zenon
<1> QED
  BY <1>1, <1>2, <1>3, <1>4, <1>5, <1>6, <1>7, Zenon

-----------------------------------------------------------------------------
(* Steps of a caller before run_operation.                                  *)

EarlyStep(t) ==
  /\ where[t] \in Before
  /\ \E here \in Before \cup {"refused", "submit"} : where' = [where EXCEPT ![t] = here]
  /\ pool' \in BOOLEAN
  /\ UNCHANGED <<asked, next_pack, futures, queue, task, holds, results, outcome, throws>>

\* A step of a caller before its loop keeps the invariant.
LEMMA EarlyStepInv ==
  ASSUME IInv, NEW t \in Callers, EarlyStep(t)
  PROVE  IInv'
<1> USE DEF IInv, EarlyStep
<1>1. TypeOK'
  BY Zenon DEF TypeOK, Before, get_num_exec_iterations
<1>2. /\ where' \in [Callers -> Before \cup {"refused", "submit", "main", "returned", "thrown"}]
      /\ where'[t] \in Before \cup {"refused", "submit"}
      /\ \A s \in Callers : s # t => where'[s] = where[s]
  BY DEF TypeOK, Before
<1>3. TaskShape'
  BY <1>2, Zenon DEF TaskShape, Inside, Before
<1>4. Fresh'
  BY <1>2, Zenon DEF Fresh, Before
<1>5. TasksApart'
  BY DEF TasksApart, At
<1>6. QueueApart'
  BY DEF QueueApart, At, Queued
<1>7. Counted'
  BY Zenon DEF Counted, get_num_exec_iterations
<1>8. Covered'
  <2> SUFFICES ASSUME NEW s \in Callers, where'[s] \in Inside, NEW p \in Packs,
                      p < next_pack[s], get_num_exec_iterations(s, p) # 0
               PROVE  /\ task[s] # Free /\ task[s].pack # 0
                      /\ task[s].pack = p \/ Awaits(s, p) \/ outcome[s][p] = "ok"
    BY Zenon DEF Covered, Awaits, get_num_exec_iterations
  <2>1. CASE s = t
    BY <2>1, Facts DEF Fresh, Packs
  <2>2. CASE s # t
    BY <2>2, <1>2, Zenon DEF Covered
  <2> QED
    BY <2>1, <2>2, Zenon
<1>9. Awaited'
  <2> SUFFICES ASSUME NEW s \in Callers, NEW p \in Masks,
                      Queued(s, p) \/ \E w \in Workers : At(w, s, p)
               PROVE  where'[s] = "thrown" \/ (where'[s] \in Inside /\ Awaits(s, p))
    BY DEF Awaited, Queued, At, Awaits
  <2>1. where[s] = "thrown" \/ (where[s] \in Inside /\ Awaits(s, p))
    BY Zenon DEF Awaited
  <2> QED
    BY <2>1, <1>2, Zenon DEF Before, Inside
<1>10. RunComplete'
  BY <1>2, Zenon DEF RunComplete, Before
<1>11. UnitsHeld'
  BY Zenon DEF UnitsHeld
<1> QED
  BY <1>1, <1>3, <1>4, <1>5, <1>6, <1>7, <1>8, <1>9, <1>10, <1>11, Zenon

\* The constructors and the checks before run_operation are such steps.
LEMMA EarlySteps ==
  ASSUME IInv, NEW t \in Callers, SlsOperation(t) \/ set_run_params(t) \/ Runner(t) \/ invoke(t)
  PROVE  IInv'
<1>1. EarlyStep(t)
  BY Zenon DEF EarlyStep, SlsOperation, set_run_params, Runner, invoke, Before, IInv, TypeOK
<1> QED
  BY <1>1, EarlyStepInv, Zenon

-----------------------------------------------------------------------------
(* Steps of run_on_pack: thread x stays at its pack, or a worker leaves it, *)
(* and what is known of the other packs stays as it is.                     *)

PackStep(x) ==
  LET t == task[x].caller
      p == task[x].pack
  IN /\ Running(x) /\ task[x].state \in {"acquire", "run"}
     /\ UNCHANGED <<pool, where, asked, next_pack, futures, queue>>
     /\ \A y \in Threads : y # x => task'[y] = task[y]
     /\ \/ x \in Workers /\ task'[x] = Free
        \/ /\ task'[x] # Free /\ task'[x].caller = t /\ task'[x].pack = p
           /\ task'[x].state \in (IF x \in Workers THEN {"run"} ELSE {"run", "end"})
     /\ \A s \in Callers : \A q \in Masks : (s # t \/ q # p) =>
          results'[s][q] = results[s][q] /\ outcome'[s][q] = outcome[s][q]

\* What the invariant says of the pack that x is at.
LEMMA PackFacts ==
  ASSUME IInv, NEW x \in Threads, PackStep(x)
  PROVE  /\ task[x] # Free /\ task[x].caller \in Callers /\ task[x].pack \in Masks
         /\ task[x].pack < next_pack[task[x].caller]
         /\ where[task[x].caller] \in {"main", "thrown"} \/ x \in Workers
         /\ where[task[x].caller] \in {"submit", "main", "thrown"}
         /\ x \in Callers => task[x].caller = x /\ where[x] = "main"
         /\ x \in Workers => x \notin Callers /\ task[x].pack # 0
         /\ outcome[task[x].caller][task[x].pack] = "none"
<1> USE DEF IInv, PackStep
<1>1. task[x] # Free /\ task[x].caller \in Callers /\ task[x].pack < next_pack[task[x].caller]
  BY Zenon DEF TaskShape
<1>2. task[x].pack \in Masks
  BY Facts, Zenon
<1>3. x \in Callers => task[x].caller = x /\ where[x] = "main"
  BY <1>1, Zenon DEF TaskShape, Running
<1>4. x \in Workers => x \notin Callers /\ task[x].pack # 0
  BY <1>1, ThreadAssumption, Zenon DEF TaskShape
<1>5. where[task[x].caller] \in {"submit", "main", "thrown"}
  <2>1. CASE x \in Workers
    BY <1>1, <1>2, <2>1, Zenon DEF Awaited, At, Inside
  <2> QED
    BY <1>3, <2>1, Zenon DEF Threads
<1>6. outcome[task[x].caller][task[x].pack] = "none"
  BY <1>1, <1>2 DEF TasksApart, At
<1> QED
  BY <1>1, <1>2, <1>3, <1>4, <1>5, <1>6, Zenon DEF Threads

\* What a step of a thread inside run_on_pack leaves in place.
LEMMA PackStepInv ==
  ASSUME IInv, NEW x \in Threads, PackStep(x)
  PROVE  /\ TaskShape' /\ Fresh' /\ QueueApart' /\ Covered' /\ Awaited' /\ RunComplete'
         /\ \A y \in Threads : \A s \in Callers : \A q \in Masks : At(y, s, q)' => At(y, s, q)
<1> USE DEF IInv
<1> DEFINE t == task[x].caller
           p == task[x].pack
<1>1. /\ \A y \in Threads : y # x => task'[y] = task[y]
      /\ UNCHANGED <<pool, where, asked, next_pack, futures, queue>>
      /\ task'[x] # Free => task'[x].caller = t /\ task'[x].pack = p
      /\ x \in Workers \/ task'[x] # Free
      /\ \A s \in Callers : \A q \in Masks : (s # t \/ q # p) =>
           results'[s][q] = results[s][q] /\ outcome'[s][q] = outcome[s][q]
  BY Zenon DEF PackStep
<1>2. /\ task[x] # Free /\ t \in Callers /\ p \in Masks /\ p < next_pack[t]
      /\ where[t] \in {"submit", "main", "thrown"}
      /\ x \in Callers => t = x /\ where[x] = "main"
      /\ x \in Workers => x \notin Callers /\ p # 0
      /\ outcome[t][p] = "none"
  BY PackFacts, Zenon
<1>3. TaskShape'
  <2> SUFFICES ASSUME NEW y \in Threads
      PROVE  /\ task'[y].state = "free" <=> task'[y] = Free
             /\ task'[y] # Free => task'[y].caller \in Callers /\ task'[y].pack < next_pack[task'[y].caller]
             /\ y \in Workers /\ task'[y] # Free => task'[y].pack # 0 /\ task'[y].state # "end"
             /\ y \in Callers /\ task'[y] # Free => task'[y].caller = y /\ where[y] \in Inside
             /\ y \in Callers /\ where[y] = "main" => task'[y] # Free
             /\ y \in Callers /\ task'[y].state \in {"run", "end"} => where[y] = "main"
             /\ y \in Callers /\ task'[y].pack = 0 /\ task'[y] # Free => where[y] = "main"
    BY <1>1, Zenon DEF TaskShape
  <2>1. CASE y # x
    BY <1>1, <2>1, Zenon DEF TaskShape
  <2>2. CASE y = x
    BY <1>1, <1>2, <2>2, SMTT(60) DEF PackStep, Inside, Free, Threads
  <2> QED
    BY <2>1, <2>2, Zenon
<1>4. \A y \in Threads : \A s \in Callers : \A q \in Masks : At(y, s, q)' => At(y, s, q)
  BY <1>1, <1>2, Zenon DEF At
<1>5. Fresh'
  <2> SUFFICES ASSUME NEW s \in Callers
      PROVE  /\ \A q \in Packs : q >= next_pack[s] => results'[s][q] = 0 /\ outcome'[s][q] = "none"
             /\ where[s] \in Before \cup {"submit"} => results'[s][0] = 0 /\ outcome'[s][0] = "none"
    BY <1>1, Zenon DEF Fresh
  <2>1. ASSUME NEW q \in Packs, q >= next_pack[s]
        PROVE  results'[s][q] = 0 /\ outcome'[s][q] = "none"
    <3>1. q \in Masks /\ next_pack[s] \in Nat /\ p \in Nat /\ q \in Nat
      BY <1>2, Facts
    <3>2. s # t \/ q # p
      BY <3>1, <2>1, <1>2
    <3> QED
      BY <3>1, <3>2, <2>1, <1>1 DEF Fresh
  <2>2. ASSUME where[s] \in Before \cup {"submit"}
        PROVE  results'[s][0] = 0 /\ outcome'[s][0] = "none"
    <3>1. s # t \/ 0 # p
      BY <2>2, <1>2, Zenon DEF Before, Threads
    <3> QED
      BY <3>1, <2>2, <1>1, Facts DEF Fresh
  <2> QED
    BY <2>1, <2>2, Zenon
<1>6. QueueApart'
  <2> SUFFICES ASSUME NEW s \in Callers, NEW q \in Masks, Queued(s, q)
      PROVE  /\ q < next_pack[s] /\ results'[s][q] = 0 /\ outcome'[s][q] = "none"
             /\ \A y \in Threads : ~At(y, s, q)'
    BY <1>1, Zenon DEF QueueApart, Queued
  <2>1. /\ q < next_pack[s] /\ results[s][q] = 0 /\ outcome[s][q] = "none"
        /\ \A y \in Threads : ~At(y, s, q)
    BY Zenon DEF QueueApart
  <2>2. s # t \/ q # p
    BY <2>1, <1>2, Zenon DEF At
  <2> QED
    BY <2>1, <2>2, <1>1, <1>4, Zenon
<1>7. Covered'
  <2> SUFFICES ASSUME NEW s \in Callers, where[s] \in Inside, NEW q \in Packs,
                      q < next_pack[s], get_num_exec_iterations(s, q) # 0
               PROVE  /\ task'[s] # Free /\ task'[s].pack # 0
                      /\ task'[s].pack = q \/ Awaits(s, q) \/ outcome'[s][q] = "ok"
    BY <1>1, Zenon DEF Covered, Awaits, get_num_exec_iterations
  <2>1. /\ task[s] # Free /\ task[s].pack # 0
        /\ task[s].pack = q \/ Awaits(s, q) \/ outcome[s][q] = "ok"
    BY Zenon DEF Covered
  <2>2. task'[s] # Free /\ task'[s].pack = task[s].pack
    BY <2>1, <1>1, <1>2, Zenon DEF Threads
  <2>3. outcome[s][q] = "ok" => outcome'[s][q] = "ok"
    BY <1>1, <1>2, Facts, Zenon
  <2> QED
    BY <2>1, <2>2, <2>3, Zenon
<1>8. Awaited'
  <2>1. ASSUME NEW s \in Callers, NEW q \in Masks, Queued(s, q)' \/ \E w \in Workers : At(w, s, q)'
        PROVE  Queued(s, q) \/ \E w \in Workers : At(w, s, q)
    BY <2>1, <1>1, <1>4, Zenon DEF Queued, Threads
  <2>2. ASSUME NEW s \in Callers, NEW q \in Masks, Awaits(s, q)
        PROVE  Awaits(s, q)'
    BY <2>2, <1>1, Zenon DEF Awaits
  <2> QED
    BY <2>1, <2>2, <1>1, Zenon DEF Awaited
<1>9. RunComplete'
  <2>1. Packs \subseteq Masks
    BY Facts, Zenon
  <2> QED
    BY <2>1, <1>1, <1>2 DEF RunComplete, Packs
<1> QED
  BY <1>3, <1>4, <1>5, <1>6, <1>7, <1>8, <1>9, Zenon

\* Acquiring a compute unit for a pack keeps the invariant.
LEMMA AcquireStep ==
  ASSUME IInv, NEW x \in Threads, Acquire(x)
  PROVE  IInv'
<1> USE DEF IInv
<1> DEFINE t == task[x].caller
           p == task[x].pack
<1>1. /\ UNCHANGED <<pool, where, asked, next_pack, futures, queue, results, outcome, throws>>
      /\ task' = [task EXCEPT ![x].state = "run"]
      /\ Running(x) /\ task[x].state = "acquire"
  BY Zenon DEF Acquire
<1>2. PICK u \in CUnits : /\ u \in UnitsOf(p) /\ holds[u] = NoThread
                          /\ holds' = [holds EXCEPT ![u] = x]
  BY Zenon DEF Acquire, UnitsOf
<1>3. TypeOK'
  BY <1>1, <1>2, ZenonT(60) DEF TypeOK, get_num_exec_iterations
<1>4. /\ \A y \in Threads : y # x => task'[y] = task[y]
      /\ task'[x].caller = t /\ task'[x].pack = p /\ task'[x].done = task[x].done
      /\ task'[x].state = "run" /\ task'[x] # Free
  BY <1>1, Zenon DEF TypeOK, Free
<1>5. PackStep(x)
  BY <1>1, <1>4 DEF PackStep
<1>6. TasksApart'
  <2> SUFFICES ASSUME NEW y \in Threads, NEW s \in Callers, NEW q \in Masks, At(y, s, q)'
      PROVE  /\ \A z \in Threads : z # y => ~At(z, s, q)'
             /\ task'[y].state = "acquire" => outcome[s][q] = "none" /\ results[s][q] = 0 /\ task'[y].done = 0
             /\ task'[y].state = "run" => outcome[s][q] = "none" /\ results[s][q] = task'[y].done
    BY <1>1 DEF TasksApart
  <2>1. At(y, s, q) /\ \A z \in Threads : z # y => ~At(z, s, q)'
    BY <1>5, PackStepInv, Zenon DEF TasksApart
  <2> QED
    BY <2>1, <1>1, <1>4 DEF TasksApart
<1>7. Counted'
  BY <1>1, Zenon DEF Counted, get_num_exec_iterations
<1>8. UnitsHeld'
  <2> SUFFICES ASSUME NEW v \in CUnits, holds'[v] # NoThread
      PROVE  task'[holds'[v]].state = "run" /\ v \in UnitsOf(task'[holds'[v]].pack)
    BY Zenon DEF UnitsHeld
  <2>1. CASE v = u
    <3>1. holds'[v] = x
      BY <2>1, <1>2, Zenon DEF TypeOK
    <3> QED
      BY <3>1, <2>1, <1>2, <1>4, Zenon
  <2>2. CASE v # u
    <3>1. holds'[v] = holds[v]
      BY <2>2, <1>2, Zenon DEF TypeOK
    <3>2. holds[v] \in Threads /\ task[holds[v]].state = "run" /\ v \in UnitsOf(task[holds[v]].pack)
      BY <3>1, Zenon DEF UnitsHeld, TypeOK
    <3>3. task'[holds[v]] = task[holds[v]]
      BY <3>2, <1>1, <1>4, Zenon
    <3> QED
      BY <3>1, <3>2, <3>3, Zenon
  <2> QED
    BY <2>1, <2>2, Zenon
<1> QED
  BY <1>3, <1>5, <1>6, <1>7, <1>8, PackStepInv, Zenon

\* Running the operation on a pack, which adds its results, keeps it.
LEMMA ExecuteStep ==
  ASSUME IInv, NEW x \in Threads, Execute(x)
  PROVE  IInv'
<1> USE DEF IInv
<1> DEFINE t == task[x].caller
           p == task[x].pack
<1>1. /\ UNCHANGED <<pool, where, asked, next_pack, futures, queue, holds, outcome, throws>>
      /\ task' = [task EXCEPT ![x].done = @ + 1]
      /\ results' = [results EXCEPT ![t][p] = @ + 1]
      /\ Running(x) /\ task[x].state = "run" /\ task[x].done < get_num_exec_iterations(t, p)
  BY Zenon DEF Execute
<1>2. task[x] # Free /\ t \in Callers /\ p \in Masks /\ results[t][p] = task[x].done
  <2>1. task[x] # Free /\ t \in Callers
    BY <1>1, Zenon DEF TaskShape
  <2>2. p \in Masks
    BY Facts, Zenon
  <2> QED
    BY <1>1, <2>1, <2>2, Zenon DEF TasksApart, At
<1>3. /\ \A y \in Threads : y # x => task'[y] = task[y]
      /\ task'[x].caller = t /\ task'[x].pack = p /\ task'[x].done = task[x].done + 1
      /\ task'[x].state = "run" /\ task'[x] # Free
  BY <1>1, Zenon DEF TypeOK, Free
<1>4. /\ \A s \in Callers : \A q \in Masks : (s # t \/ q # p) => results'[s][q] = results[s][q]
      /\ results'[t][p] = results[t][p] + 1
  BY <1>1, <1>2, Zenon DEF TypeOK
<1>5. TypeOK'
  <2>1. task[x].done + 1 <= get_num_exec_iterations(t, p)
    BY <1>1, <1>2, Facts
  <2>2. \A y \in Threads : task'[y].done <= get_num_exec_iterations(task'[y].caller, task'[y].pack)
    BY <1>3, <2>1, Zenon DEF TypeOK
  <2>3. task' \in [Threads -> [caller : Callers \cup {NoThread}, pack : Masks, done : Nat,
                               state : {"free", "acquire", "run", "end"}]]
    <3>1. [task[x] EXCEPT !.done = @ + 1] \in [caller : Callers \cup {NoThread}, pack : Masks,
                    done : Nat, state : {"free", "acquire", "run", "end"}]
      <4>1. task[x] \in [caller : Callers \cup {NoThread}, pack : Masks, done : Nat,
                         state : {"free", "acquire", "run", "end"}]
        BY Zenon DEF TypeOK
      <4>2. task[x].done + 1 \in Nat
        BY <4>1
      <4> QED
        BY <4>1, <4>2, Zenon
    <3> QED
      BY <3>1, <1>1, Zenon DEF TypeOK
  <2>4. results' \in [Callers -> [Masks -> Nat]]
    BY <1>1, <1>2 DEF TypeOK
  <2>5. (\A y \in Threads : task[y].done <= get_num_exec_iterations(task[y].caller, task[y].pack))'
    <3>1. asked' = asked
      BY <1>1, Zenon
    <3> QED
      BY <3>1, <2>2, Zenon DEF get_num_exec_iterations
  <2> QED
    BY <1>1, <2>3, <2>4, <2>5, Zenon DEF TypeOK
<1>6. PackStep(x)
  <2>1. task'[x].state \in (IF x \in Workers THEN {"run"} ELSE {"run", "end"}) /\ outcome' = outcome
    BY <1>1, <1>3
  <2> QED
    BY <2>1, <1>1, <1>3, <1>4, Zenon DEF PackStep
<1>7. TasksApart'
  <2> SUFFICES ASSUME NEW y \in Threads, NEW s \in Callers, NEW q \in Masks, At(y, s, q)'
      PROVE  /\ \A z \in Threads : z # y => ~At(z, s, q)'
             /\ task'[y].state = "acquire" => outcome[s][q] = "none" /\ results'[s][q] = 0 /\ task'[y].done = 0
             /\ task'[y].state = "run" => outcome[s][q] = "none" /\ results'[s][q] = task'[y].done
    BY <1>1, SMTT(40) DEF TasksApart
  <2>1. At(y, s, q) /\ \A z \in Threads : z # y => ~At(z, s, q)'
    BY <1>6, PackStepInv, Zenon DEF TasksApart
  <2>2. CASE y # x
    <3>1. s # t \/ q # p
      <4>1. At(x, t, p)
        BY <1>2, Zenon DEF At
      <4> QED
        BY <4>1, <2>1, <2>2, <1>2, Zenon DEF TasksApart
    <3> QED
      <4>1. task'[y] = task[y] /\ results'[s][q] = results[s][q]
        BY <2>2, <3>1, <1>3, <1>4, Zenon
      <4>2. /\ task[y].state = "acquire" => outcome[s][q] = "none" /\ results[s][q] = 0 /\ task[y].done = 0
            /\ task[y].state = "run" => outcome[s][q] = "none" /\ results[s][q] = task[y].done
        BY <2>1, Zenon DEF TasksApart
      <4> QED
        BY <2>1, <4>1, <4>2, Zenon
  <2>3. CASE y = x
    BY <2>1, <2>3, <1>1, <1>2, <1>3, <1>4, SMTT(60) DEF TasksApart, At
  <2> QED
    BY <2>2, <2>3, Zenon
<1>8. Counted'
  <2>0. asked' = asked /\ outcome' = outcome
    BY <1>1, Zenon
  <2> SUFFICES ASSUME NEW s \in Callers, NEW q \in Masks
      PROVE  /\ results'[s][q] <= get_num_exec_iterations(s, q)
             /\ outcome[s][q] = "ok" => results'[s][q] = get_num_exec_iterations(s, q)
    BY <2>0, Zenon DEF Counted, get_num_exec_iterations
  <2>1. CASE s = t /\ q = p
    <3>1. outcome[t][p] = "none"
      BY <1>1, <1>2, Zenon DEF TasksApart, At
    <3> QED
      BY <2>1, <3>1, <1>1, <1>2, <1>4, Facts
  <2>2. CASE s # t \/ q # p
    BY <2>2, <1>4, Zenon DEF Counted
  <2> QED
    BY <2>1, <2>2, Zenon
<1>9. UnitsHeld'
  BY <1>1, <1>3, ThreadAssumption, Zenon DEF UnitsHeld, TypeOK
<1> QED
  BY <1>5, <1>6, <1>7, <1>8, <1>9, PackStepInv, Zenon

\* The two ways out of run_on_pack, which both give the unit back.
LEMMA EndStep ==
  ASSUME IInv, NEW x \in Threads, NEW how \in {"ok", "thrown"},
         Running(x), task[x].state = "run", Ends(x, how), ReleaseUnit(x),
         how = "ok" => task[x].done = get_num_exec_iterations(task[x].caller, task[x].pack),
         throws' \in 0..MaxThrows,
         UNCHANGED <<pool, where, asked, next_pack, futures, queue, results>>
  PROVE  IInv'
<1> USE DEF IInv
<1> DEFINE t == task[x].caller
           p == task[x].pack
<1>2. task[x] # Free /\ t \in Callers /\ p \in Masks /\ results[t][p] = task[x].done
  <2>1. task[x] # Free /\ t \in Callers
    BY Zenon DEF TaskShape
  <2>2. p \in Masks
    BY Facts, Zenon
  <2> QED
    BY <2>1, <2>2, Zenon DEF TasksApart, At
<1>3. /\ \A y \in Threads : y # x => task'[y] = task[y]
      /\ IF x \in Workers THEN task'[x] = Free
         ELSE /\ task'[x].caller = t /\ task'[x].pack = p /\ task'[x].done = task[x].done
              /\ task'[x].state = "end" /\ task'[x] # Free
  BY Zenon DEF Ends, TypeOK, Free
<1>4. /\ \A s \in Callers : \A q \in Masks : (s # t \/ q # p) => outcome'[s][q] = outcome[s][q]
      /\ outcome'[t][p] = how
  BY <1>2, Zenon DEF Ends, TypeOK
<1>5. TypeOK'
  <2>1. task' \in [Threads -> [caller : Callers \cup {NoThread}, pack : Masks, done : Nat,
                               state : {"free", "acquire", "run", "end"}]]
    <3>1. 0 \in Masks
      BY Facts, Zenon
    <3>2. Free \in [caller : Callers \cup {NoThread}, pack : Masks, done : Nat,
                    state : {"free", "acquire", "run", "end"}]
      BY <3>1, Zenon DEF Free
    <3>3. [task[x] EXCEPT !.state = "end"] \in [caller : Callers \cup {NoThread}, pack : Masks,
                    done : Nat, state : {"free", "acquire", "run", "end"}]
      BY ZenonT(60) DEF TypeOK
    <3> QED
      BY <3>2, <3>3, Zenon DEF Ends, TypeOK
  <2>2. \A y \in Threads : task'[y].done <= get_num_exec_iterations(task'[y].caller, task'[y].pack)
    <3>1. 0 <= get_num_exec_iterations(NoThread, 0)
      BY SMTT(60) DEF get_num_exec_iterations
    <3>2. task'[x].done <= get_num_exec_iterations(task'[x].caller, task'[x].pack)
      <4>1. CASE x \in Workers
        BY <4>1, <1>3, <3>1 DEF Free
      <4>2. CASE x \notin Workers
        BY <4>2, <1>3, Zenon DEF TypeOK
      <4> QED
        BY <4>1, <4>2, Zenon
    <3> QED
      BY <1>3, <3>2, Zenon DEF TypeOK
  <2>3. outcome' \in [Callers -> [Masks -> {"none", "ok", "thrown"}]]
    BY <1>2, Zenon DEF Ends, TypeOK
  <2>4. holds' \in [CUnits -> Threads \cup {NoThread}]
    BY Zenon DEF ReleaseUnit, TypeOK
  <2> QED
    BY <2>1, <2>2, <2>3, <2>4, Zenon DEF TypeOK, get_num_exec_iterations
<1>6. PackStep(x)
  BY <1>3, <1>4, Zenon DEF PackStep
<1>7. TasksApart'
  <2> SUFFICES ASSUME NEW y \in Threads, NEW s \in Callers, NEW q \in Masks, At(y, s, q)'
      PROVE  /\ \A z \in Threads : z # y => ~At(z, s, q)'
             /\ task'[y].state = "acquire" => outcome'[s][q] = "none" /\ results[s][q] = 0 /\ task'[y].done = 0
             /\ task'[y].state = "run" => outcome'[s][q] = "none" /\ results[s][q] = task'[y].done
    BY SMTT(60) DEF TasksApart
  <2>1. At(y, s, q) /\ \A z \in Threads : z # y => ~At(z, s, q)'
    BY <1>6, PackStepInv, Zenon DEF TasksApart
  <2>2. CASE y # x
    <3>1. s # t \/ q # p
      <4>1. At(x, t, p)
        BY <1>2, Zenon DEF At
      <4> QED
        BY <4>1, <2>1, <2>2, <1>2, Zenon DEF TasksApart
    <3> QED
      <4>1. task'[y] = task[y] /\ outcome'[s][q] = outcome[s][q]
        BY <2>2, <3>1, <1>3, <1>4, Zenon
      <4>2. /\ task[y].state = "acquire" => outcome[s][q] = "none" /\ results[s][q] = 0 /\ task[y].done = 0
            /\ task[y].state = "run" => outcome[s][q] = "none" /\ results[s][q] = task[y].done
        BY <2>1, Zenon DEF TasksApart
      <4> QED
        BY <2>1, <4>1, <4>2, Zenon
  <2>3. CASE y = x
    <3>1. task'[x].state = "free" \/ task'[x].state = "end"
      <4>1. Free.state = "free"
        BY Zenon DEF Free
      <4> QED
        BY <4>1, <1>3, Zenon
    <3>2. task'[y].state # "acquire" /\ task'[y].state # "run"
      BY <2>3, <3>1, Zenon
    <3> QED
      BY <2>1, <3>2, Zenon
  <2> QED
    BY <2>2, <2>3, Zenon
<1>8. Counted'
  <2> SUFFICES ASSUME NEW s \in Callers, NEW q \in Masks
      PROVE  /\ results[s][q] <= get_num_exec_iterations(s, q)
             /\ outcome'[s][q] = "ok" => results[s][q] = get_num_exec_iterations(s, q)
    BY Zenon DEF Counted, get_num_exec_iterations
  <2>1. CASE s = t /\ q = p
    BY <2>1, <1>2, <1>4, Zenon DEF Counted
  <2>2. CASE s # t \/ q # p
    BY <2>2, <1>4, Zenon DEF Counted
  <2> QED
    BY <2>1, <2>2, Zenon
<1>9. UnitsHeld'
  BY <1>3, ThreadAssumption, SMTT(60) DEF UnitsHeld, TypeOK, ReleaseUnit
<1> QED
  BY <1>5, <1>6, <1>7, <1>8, <1>9, PackStepInv, Zenon

\* An exception in a pack keeps it.
LEMMA ExecuteThrowsStep ==
  ASSUME IInv, NEW x \in Threads, ExecuteThrows(x)
  PROVE  IInv'
<1>1. throws' \in 0..MaxThrows
  BY BoundAssumption DEF IInv, TypeOK, ExecuteThrows
<1> QED
  BY <1>1, EndStep, Zenon DEF ExecuteThrows

\* Giving the unit back at the end of a pack keeps it.
LEMMA ReleaseStep ==
  ASSUME IInv, NEW x \in Threads, Release(x)
  PROVE  IInv'
<1>1. throws' \in 0..MaxThrows
  BY Zenon DEF IInv, TypeOK, Release
<1> QED
  BY <1>1, EndStep, Zenon DEF Release

-----------------------------------------------------------------------------
(* A worker takes a task, and the caller's loop ends.                       *)

\* A pool worker that pops a task takes its pack from the queue to itself.
LEMMA TakeStep ==
  ASSUME IInv, NEW w \in Workers, Take(w)
  PROVE  IInv'
<1> USE DEF IInv
<1> DEFINE t == queue[1].caller
           p == queue[1].pack
<1>1. /\ UNCHANGED <<pool, where, asked, next_pack, futures, holds, results, outcome, throws>>
      /\ w \in Threads /\ task[w] = Free
  BY Zenon DEF Take, Threads
<1>2. /\ Len(queue) \in Nat /\ 1 \in 1..Len(queue) /\ Len(queue') = Len(queue) - 1
      /\ \A k \in 1..Len(queue') : k + 1 \in 1..Len(queue) /\ queue'[k] = queue[k + 1]
      /\ queue' \in Seq([caller : Callers, pack : 1..(num_of_pack - 1)])
      /\ Head(queue) = queue[1]
  BY DEF Take, TypeOK
<1>3. t \in Callers /\ p \in Packs /\ p \in Masks /\ p # 0 /\ Queued(t, p)
  <2>1. 1 \in 1..Len(queue)
    BY <1>2, Zenon
  <2>2. t \in Callers /\ p \in Packs /\ p \in Masks /\ p # 0
    BY <2>1, Facts, Zenon
  <2> QED
    BY <2>1, <2>2, Zenon DEF Queued
<1>4. /\ p < next_pack[t] /\ results[t][p] = 0 /\ outcome[t][p] = "none"
      /\ \A x \in Threads : ~At(x, t, p)
  BY <1>3, Zenon DEF QueueApart
<1>5. /\ \A y \in Threads : y # w => task'[y] = task[y]
      /\ task'[w] = Started(t, p) /\ task'[w] # Free
      /\ task'[w].caller = t /\ task'[w].pack = p /\ task'[w].done = 0 /\ task'[w].state = "acquire"
  BY <1>1, <1>2, Zenon DEF Take, TypeOK, Started, Free
<1>6. ASSUME NEW s \in Callers, NEW q \in Masks, Queued(s, q)'
      PROVE  Queued(s, q) /\ (s # t \/ q # p)
  <2>1. PICK k \in 1..Len(queue') : queue'[k].caller = s /\ queue'[k].pack = q
    BY <1>6, Zenon DEF Queued
  <2>2. k + 1 \in 1..Len(queue) /\ queue[k + 1].caller = s /\ queue[k + 1].pack = q /\ k + 1 # 1
        /\ 1 \in 1..Len(queue)
    <3>1. Len(queue') \in Nat /\ k \in Nat \ {0}
      BY <2>1, <1>2
    <3>2. k + 1 \in 1..Len(queue) /\ queue'[k] = queue[k + 1] /\ 1 \in 1..Len(queue)
      BY <1>2, Zenon
    <3>3. k + 1 # 1
      BY <3>1
    <3> QED
      BY <2>1, <3>2, <3>3, Zenon
  <2>3. queue[k + 1] # queue[1]
    BY <2>2, Zenon DEF QueueApart
  <2> QED
    BY <2>2, <2>3, Facts, Zenon DEF Queued
<1>7. ASSUME NEW y \in Threads, NEW s \in Callers, NEW q \in Masks, At(y, s, q)'
      PROVE  IF y = w THEN s = t /\ q = p ELSE At(y, s, q)
  BY <1>5, <1>7, Zenon DEF At
<1>8. TypeOK'
  <2>1. Started(t, p) \in [caller : Callers \cup {NoThread}, pack : Masks, done : Nat,
                           state : {"free", "acquire", "run", "end"}]
    BY <1>3, Zenon DEF Started
  <2>2. task' \in [Threads -> [caller : Callers \cup {NoThread}, pack : Masks, done : Nat,
                               state : {"free", "acquire", "run", "end"}]]
    BY <2>1, <1>2, Zenon DEF Take, TypeOK
  <2>3. 0 <= get_num_exec_iterations(t, p)
    BY <1>3, Facts, SMTT(60)
  <2>4. \A y \in Threads : task'[y].done <= get_num_exec_iterations(task'[y].caller, task'[y].pack)
    BY <2>3, <1>5, Zenon DEF TypeOK
  <2>5. (\A y \in Threads : task[y].done <= get_num_exec_iterations(task[y].caller, task[y].pack))'
    <3>1. asked' = asked
      BY <1>1, Zenon
    <3> QED
      BY <3>1, <2>4, Zenon DEF get_num_exec_iterations
  <2> QED
    BY <1>1, <1>2, <2>2, <2>5, Zenon DEF TypeOK
<1>9. TaskShape'
  BY <1>1, <1>3, <1>4, <1>5, ThreadAssumption, SMTT(60) DEF TaskShape
<1>10. Fresh'
  BY <1>1, Zenon DEF Fresh
<1>11. TasksApart'
  <2> SUFFICES ASSUME NEW y \in Threads, NEW s \in Callers, NEW q \in Masks, At(y, s, q)'
      PROVE  /\ \A z \in Threads : z # y => ~At(z, s, q)'
             /\ task'[y].state = "acquire" => outcome[s][q] = "none" /\ results[s][q] = 0 /\ task'[y].done = 0
             /\ task'[y].state = "run" => outcome[s][q] = "none" /\ results[s][q] = task'[y].done
    BY <1>1, SMTT(60) DEF TasksApart
  <2>1. CASE y = w
    BY <2>1, <1>4, <1>5, <1>7, Zenon
  <2>2. CASE y # w
    BY <2>2, <1>4, <1>5, <1>7, SMTT(60) DEF TasksApart
  <2> QED
    BY <2>1, <2>2, Zenon
<1>12. QueueApart'
  <2>1. \A j, k \in 1..Len(queue') : j # k => queue'[j] # queue'[k]
    <3> SUFFICES ASSUME NEW j \in 1..Len(queue'), NEW k \in 1..Len(queue'), j # k
                 PROVE  queue'[j] # queue'[k]
      BY Zenon
    <3>1. /\ j + 1 \in 1..Len(queue) /\ queue'[j] = queue[j + 1]
          /\ k + 1 \in 1..Len(queue) /\ queue'[k] = queue[k + 1]
      BY <1>2, Zenon
    <3>2. j + 1 # k + 1
      BY <1>2
    <3> QED
      BY <3>1, <3>2, Zenon DEF QueueApart
  <2>2. ASSUME NEW s \in Callers, NEW q \in Masks, Queued(s, q)'
        PROVE  /\ q < next_pack[s] /\ results[s][q] = 0 /\ outcome[s][q] = "none"
               /\ \A x \in Threads : ~At(x, s, q)'
    BY <2>2, <1>6, <1>7 DEF QueueApart
  <2> QED
    BY <2>1, <2>2, <1>1, Zenon DEF QueueApart
<1>13. Counted'
  BY <1>1, Zenon DEF Counted, get_num_exec_iterations
<1>14. Covered'
  <2>1. \A s \in Callers : task'[s] = task[s]
    BY <1>5, ThreadAssumption, Zenon DEF Threads
  <2> QED
    BY <2>1, <1>1, Zenon DEF Covered, Awaits, get_num_exec_iterations
<1>15. Awaited'
  <2>1. Queued(t, p)
    BY <1>3, Zenon
  <2>2. ASSUME NEW s \in Callers, NEW q \in Masks, Queued(s, q)' \/ \E v \in Workers : At(v, s, q)'
        PROVE  Queued(s, q) \/ \E v \in Workers : At(v, s, q)
    BY <2>1, <2>2, <1>6, <1>7, Zenon DEF Threads
  <2>3. ASSUME NEW s \in Callers, NEW q \in Masks, Awaits(s, q)
        PROVE  Awaits(s, q)'
    BY <2>3, <1>1, Zenon DEF Awaits
  <2> QED
    BY <2>2, <2>3, <1>1, Zenon DEF Awaited
<1>16. RunComplete'
  BY <1>1, Zenon DEF RunComplete
<1>17. UnitsHeld'
  <2>1. \A x \in Threads : task[x].state = "run" => task'[x] = task[x]
    BY <1>1, <1>5, SMTT(60) DEF Free
  <2> QED
    BY <2>1, <1>1, Facts, Zenon DEF UnitsHeld
<1> QED
  BY <1>8, <1>9, <1>10, <1>11, <1>12, <1>13, <1>14, <1>15, <1>16, <1>17, Zenon

\* Going from the loop to the caller's own pack keeps the invariant.
LEMMA SubmittedStep ==
  ASSUME IInv, NEW t \in Callers, Submitted(t)
  PROVE  IInv'
<1> USE DEF IInv
<1>1. /\ UNCHANGED <<pool, asked, next_pack, futures, queue, holds, results, outcome, throws>>
      /\ where[t] = "submit" /\ where'[t] = "main" /\ \A s \in Callers : s # t => where'[s] = where[s]
      /\ t \in Threads /\ t \notin Workers /\ next_pack[t] \notin pack_identifiers
  BY ThreadAssumption, Zenon DEF Submitted, Threads, TypeOK
<1>2. next_pack[t] = num_of_pack
  BY <1>1, Facts, SMTT(60) DEF pack_identifiers
<1>3. /\ \A y \in Threads : y # t => task'[y] = task[y]
      /\ IF task[t] = Free THEN task'[t] = Started(t, 0) ELSE task'[t] = task[t]
      /\ task'[t] # Free
  BY <1>1, Zenon DEF Submitted, TypeOK, Started, Free
<1>4. /\ task'[t].caller = t /\ task'[t].state \in {"acquire", "run", "end"} /\ task'[t].pack < next_pack[t]
      /\ task'[t].state \in {"run", "end"} => task'[t] = task[t]
      /\ task[t] = Free => task'[t].pack = 0 /\ task'[t].done = 0 /\ task'[t].state = "acquire"
  <2>1. CASE task[t] = Free
    <3>1. 0 < next_pack[t]
      BY <1>2, PackAssumption
    <3> QED
      BY <2>1, <3>1, <1>3, SMTT(60) DEF Started
  <2>2. CASE task[t] # Free
    <3>1. task[t].state \in {"free", "acquire", "run", "end"}
      BY <1>1, Facts, Zenon
    <3> QED
      BY <2>2, <3>1, <1>1, <1>3, Zenon DEF TaskShape
  <2> QED
    BY <2>1, <2>2, Zenon
<1>5. ASSUME NEW y \in Threads, NEW s \in Callers, NEW q \in Masks, At(y, s, q)'
      PROVE  IF y = t /\ task[t] = Free THEN s = t /\ q = 0 ELSE At(y, s, q)
  BY <1>3, <1>4, <1>5, Zenon DEF At
<1>6. \A y \in Threads : ~At(y, t, 0) \/ y = t
  BY Zenon DEF At, TaskShape, Threads
<1>7. ~Queued(t, 0)
  BY Facts, Zenon DEF Queued
<1>8. TypeOK'
  <2>1. Started(t, 0) \in [caller : Callers \cup {NoThread}, pack : Masks, done : Nat,
                           state : {"free", "acquire", "run", "end"}]
    BY Facts, Zenon DEF Started
  <2>2. task' \in [Threads -> [caller : Callers \cup {NoThread}, pack : Masks, done : Nat,
                               state : {"free", "acquire", "run", "end"}]]
    BY <2>1, Zenon DEF Submitted, TypeOK
  <2>3. 0 <= get_num_exec_iterations(t, 0)
    BY DEF get_num_exec_iterations
  <2>4. \A y \in Threads : task'[y].done <= get_num_exec_iterations(task'[y].caller, task'[y].pack)
    BY <2>3, <1>3, <1>4, Zenon DEF TypeOK
  <2>5. (\A y \in Threads : task[y].done <= get_num_exec_iterations(task[y].caller, task[y].pack))'
    <3>1. asked' = asked
      BY <1>1, Zenon
    <3> QED
      BY <3>1, <2>4, Zenon DEF get_num_exec_iterations
  <2>6. where' \in [Callers -> {"new", "operation", "params", "runner", "submit", "main",
                                "refused", "returned", "thrown"}]
    BY Zenon DEF Submitted, TypeOK
  <2> QED
    BY <1>1, <2>2, <2>5, <2>6, Zenon DEF TypeOK
<1>9. TaskShape'
  BY <1>1, <1>3, <1>4, SMTT(60) DEF TaskShape, Inside, Free
<1>10. Fresh'
  BY <1>1, <1>2, Zenon DEF Fresh, Before
<1>11. TasksApart'
  <2> SUFFICES ASSUME NEW y \in Threads, NEW s \in Callers, NEW q \in Masks, At(y, s, q)'
      PROVE  /\ \A z \in Threads : z # y => ~At(z, s, q)'
             /\ task'[y].state = "acquire" => outcome[s][q] = "none" /\ results[s][q] = 0 /\ task'[y].done = 0
             /\ task'[y].state = "run" => outcome[s][q] = "none" /\ results[s][q] = task'[y].done
    BY <1>1, SMTT(60) DEF TasksApart
  <2>1. CASE y = t /\ task[t] = Free
    <3>1. s = t /\ q = 0 /\ task'[y].done = 0 /\ task'[y].state = "acquire"
      BY <2>1, <1>4, <1>5, Zenon
    <3>2. outcome[t][0] = "none" /\ results[t][0] = 0
      BY <1>1, Zenon DEF Fresh
    <3> QED
      BY <2>1, <3>1, <3>2, <1>5, <1>6, Zenon
  <2>2. CASE ~(y = t /\ task[t] = Free)
    <3>1. At(y, s, q) /\ task'[y] = task[y]
      BY <2>2, <1>3, <1>5, Zenon
    <3>2. \A z \in Threads : z # y => ~At(z, s, q)'
      BY <3>1, <2>2, <1>5, <1>6, SMTT(60) DEF TasksApart
    <3> QED
      BY <3>1, <3>2, Zenon DEF TasksApart
  <2> QED
    BY <2>1, <2>2, Zenon
<1>12. QueueApart'
  <2>1. ASSUME NEW s \in Callers, NEW q \in Masks, Queued(s, q)
        PROVE  \A x \in Threads : ~At(x, s, q)'
    BY <2>1, <1>5, <1>7, SMTT(60) DEF QueueApart
  <2> QED
    BY <2>1, <1>1, Zenon DEF QueueApart, Queued
<1>13. Counted'
  BY <1>1, Zenon DEF Counted, get_num_exec_iterations
<1>14. Covered'
  <2> SUFFICES ASSUME NEW s \in Callers, where'[s] \in Inside, NEW q \in Packs,
                      q < next_pack[s], get_num_exec_iterations(s, q) # 0
               PROVE  /\ task'[s] # Free /\ task'[s].pack # 0
                      /\ task'[s].pack = q \/ Awaits(s, q) \/ outcome[s][q] = "ok"
    BY <1>1, Zenon DEF Covered, Awaits, get_num_exec_iterations
  <2>1. where[s] \in Inside /\ s \in Threads
    BY <1>1, Zenon DEF Inside, Threads
  <2>2. /\ task[s] # Free /\ task[s].pack # 0
        /\ task[s].pack = q \/ Awaits(s, q) \/ outcome[s][q] = "ok"
    BY <2>1, Zenon DEF Covered
  <2> QED
    BY <2>1, <2>2, <1>3, Zenon
<1>15. Awaited'
  <2>1. ASSUME NEW s \in Callers, NEW q \in Masks, Queued(s, q)' \/ \E v \in Workers : At(v, s, q)'
        PROVE  Queued(s, q) \/ \E v \in Workers : At(v, s, q)
    BY <2>1, <1>1, <1>5, Zenon DEF Queued, Threads
  <2>2. ASSUME NEW s \in Callers, NEW q \in Masks, Awaits(s, q)
        PROVE  Awaits(s, q)'
    BY <2>2, <1>1, Zenon DEF Awaits
  <2> QED
    BY <2>1, <2>2, <1>1, Zenon DEF Awaited, Inside
<1>16. RunComplete'
  BY <1>1, Zenon DEF RunComplete
<1>17. UnitsHeld'
  <2>1. ASSUME NEW x \in Threads, task[x].state = "run" PROVE task'[x] = task[x]
    <3>1. task[x] # Free
      BY <2>1, Zenon DEF TaskShape
    <3> QED
      BY <3>1, <1>3, Zenon
  <2> QED
    BY <2>1, <1>1, Facts, SMTT(60) DEF UnitsHeld
<1> QED
  BY <1>8, <1>9, <1>10, <1>11, <1>12, <1>13, <1>14, <1>15, <1>16, <1>17, Zenon

-----------------------------------------------------------------------------
(* The loop of run_operation, and its end.                                  *)

\* Visiting a pack in the loop, queued or skipped, keeps the invariant.
LEMMA SubmitStep ==
  ASSUME IInv, NEW t \in Callers, Submit(t)
  PROVE  IInv'
<1> USE DEF IInv
<1>0. PICK p \in Packs : p = next_pack[t]
  BY Zenon DEF Submit, pack_identifiers, Packs
<1> DEFINE skipped == get_num_exec_iterations(t, p) = 0 /\ UNCHANGED <<queue, futures, task>>
           kept    == /\ task[t] = Free /\ task' = [task EXCEPT ![t] = Started(t, p)]
                      /\ get_num_exec_iterations(t, p) # 0 /\ UNCHANGED <<queue, futures>>
           pushed  == /\ task[t] # Free /\ queue' = Append(queue, [caller |-> t, pack |-> p])
                      /\ futures' = [futures EXCEPT ![t] = Append(@, p)]
                      /\ get_num_exec_iterations(t, p) # 0 /\ UNCHANGED task
<1>1. /\ UNCHANGED <<pool, where, asked, holds, results, outcome, throws>>
      /\ where[t] = "submit" /\ next_pack' = [next_pack EXCEPT ![t] = p + 1]
      /\ t \in Threads /\ t \notin Workers
  BY <1>0, ThreadAssumption, Zenon DEF Submit, Threads
<1>2. skipped \/ kept \/ pushed
  BY <1>0, Zenon DEF Submit
<1>3. /\ p \in Nat /\ p \in Masks /\ p # 0 /\ p + 1 \in 1..num_of_pack
      /\ next_pack'[t] = p + 1 /\ \A s \in Callers : s # t => next_pack'[s] = next_pack[s]
      /\ \A s \in Callers : \A q \in Masks : q < next_pack[s] => q < next_pack'[s]
      /\ \A s \in Callers : \A q \in Masks : q >= next_pack'[s] => q >= next_pack[s]
  <2>1. p \in Nat /\ p \in Masks /\ p # 0 /\ p + 1 \in 1..num_of_pack /\ Masks \subseteq Nat
    BY <1>1, Facts, SMTT(60) DEF Packs
  <2>2. next_pack'[t] = p + 1 /\ \A s \in Callers : s # t => next_pack'[s] = next_pack[s]
    BY <1>1, Zenon DEF TypeOK
  <2>3. \A s \in Callers : next_pack[s] \in Nat
    BY Facts, SMTT(60)
  <2>4. \A s \in Callers : next_pack'[s] \in Nat /\ next_pack[s] <= next_pack'[s]
    BY <2>1, <2>2, <2>3, <1>0
  <2>5. \A q \in Masks : q \in Nat
    BY <2>1, Zenon
  <2> QED
    BY <2>1, <2>2, <2>3, <2>4, <2>5, BoundGrows, Zenon
<1>4. /\ results[t][p] = 0 /\ outcome[t][p] = "none" /\ ~Queued(t, p)
      /\ \A y \in Threads : ~At(y, t, p)
  <2>1. results[t][p] = 0 /\ outcome[t][p] = "none"
    BY <1>0, <1>3 DEF Fresh
  <2>2. ~(p < p)
    BY <1>3
  <2>3. ~Queued(t, p)
    BY <2>2, <1>0, <1>3, Zenon DEF QueueApart
  <2>4. \A y \in Threads : ~At(y, t, p)
    BY <2>2, <1>0, Zenon DEF At, TaskShape
  <2> QED
    BY <2>1, <2>3, <2>4, Zenon
<1>5. /\ \A y \in Threads : y # t => task'[y] = task[y]
      /\ task'[t] = IF kept THEN Started(t, p) ELSE task[t]
      /\ kept => task[t] = Free /\ task'[t] # Free /\ task'[t].caller = t /\ task'[t].pack = p
                 /\ task'[t].done = 0 /\ task'[t].state = "acquire"
  BY <1>1, <1>2, SMTT(60) DEF TypeOK, Started, Free
<1>6. ASSUME NEW y \in Threads, NEW s \in Callers, NEW q \in Masks, At(y, s, q)'
      PROVE  IF y = t /\ kept THEN s = t /\ q = p ELSE At(y, s, q)
  BY <1>5, <1>6, Zenon DEF At
<1>7. /\ ~pushed => queue' = queue /\ futures' = futures
      /\ pushed => /\ Len(queue') = Len(queue) + 1 /\ queue'[Len(queue) + 1] = [caller |-> t, pack |-> p]
                   /\ \A k \in 1..Len(queue) : queue'[k] = queue[k]
                   /\ Len(futures'[t]) = Len(futures[t]) + 1 /\ futures'[t][Len(futures[t]) + 1] = p
                   /\ \A k \in 1..Len(futures[t]) : futures'[t][k] = futures[t][k]
      /\ \A s \in Callers : s # t => futures'[s] = futures[s]
  <2>1. CASE pushed
    <3>1. futures[t] \in Seq(1..(num_of_pack - 1)) /\ futures'[t] = Append(futures[t], p)
      BY <2>1, Zenon DEF TypeOK
    <3>2. \A s \in Callers : s # t => futures'[s] = futures[s]
      BY <2>1, Zenon DEF TypeOK
    <3> QED
      BY <2>1, <3>1, <3>2, SMTT(60) DEF TypeOK
  <2> QED
    BY <1>2, <2>1, Zenon
<1>8. ASSUME NEW s \in Callers, NEW q \in Masks, Queued(s, q)'
      PROVE  Queued(s, q) \/ (pushed /\ s = t /\ q = p)
  <2>1. CASE pushed
    <3>1. PICK k \in 1..Len(queue') : queue'[k].caller = s /\ queue'[k].pack = q
      BY <1>8, Zenon DEF Queued
    <3>2. k \in 1..Len(queue) \/ k = Len(queue) + 1
      BY <2>1, <3>1, <1>7, Facts, SMTT(60)
    <3> QED
      BY <2>1, <3>1, <3>2, <1>7, SMTT(60) DEF Queued
  <2>2. CASE ~pushed
    BY <2>2, <1>7, <1>8, Zenon DEF Queued
  <2> QED
    BY <2>1, <2>2, Zenon
<1>9. /\ \A s \in Callers : \A q \in Masks : Awaits(s, q) => Awaits(s, q)'
      /\ pushed => Awaits(t, p)'
  <2>1. CASE pushed
    <3>1. Len(futures[t]) \in Nat
      BY Facts, Zenon
    <3>2. /\ \A k \in 1..Len(futures[t]) : k \in 1..Len(futures'[t])
          /\ Len(futures[t]) + 1 \in 1..Len(futures'[t])
      BY <2>1, <3>1, <1>7, SMTT(60)
    <3>3. \A q : Awaits(t, q) => Awaits(t, q)'
      BY <2>1, <3>2, <1>7, Zenon DEF Awaits
    <3>4. \A s \in Callers : \A q : s # t /\ Awaits(s, q) => Awaits(s, q)'
      BY <1>7, Zenon DEF Awaits
    <3>5. Awaits(t, p)'
      BY <2>1, <3>2, <1>7, Zenon DEF Awaits
    <3> QED
      BY <3>3, <3>4, <3>5, Zenon
  <2>2. CASE ~pushed
    BY <2>2, <1>7, Zenon DEF Awaits
  <2> QED
    BY <2>1, <2>2, Zenon
<1>10. TypeOK'
  <2>1. Started(t, p) \in [caller : Callers \cup {NoThread}, pack : Masks, done : Nat,
                           state : {"free", "acquire", "run", "end"}]
    BY <1>3, Zenon DEF Started
  <2>2. task' \in [Threads -> [caller : Callers \cup {NoThread}, pack : Masks, done : Nat,
                               state : {"free", "acquire", "run", "end"}]]
    BY <2>1, <1>2, ZenonT(60) DEF TypeOK
  <2>3. 0 <= get_num_exec_iterations(t, p)
    BY <1>3, Facts, SMTT(60)
  <2>4. \A y \in Threads : task'[y].done <= get_num_exec_iterations(task'[y].caller, task'[y].pack)
    BY <2>3, <1>5, Zenon DEF TypeOK
  <2>5. (\A y \in Threads : task[y].done <= get_num_exec_iterations(task[y].caller, task[y].pack))'
    <3>1. asked' = asked
      BY <1>1, Zenon
    <3> QED
      BY <3>1, <2>4, Zenon DEF get_num_exec_iterations
  <2>6. queue' \in Seq([caller : Callers, pack : 1..(num_of_pack - 1)])
    <3>1. [caller |-> t, pack |-> p] \in [caller : Callers, pack : 1..(num_of_pack - 1)]
      BY Zenon DEF Packs
    <3>2. queue \in Seq([caller : Callers, pack : 1..(num_of_pack - 1)])
      BY Zenon DEF TypeOK
    <3>3. Append(queue, [caller |-> t, pack |-> p]) \in Seq([caller : Callers, pack : 1..(num_of_pack - 1)])
      BY <3>1, <3>2, SeqGrows, Zenon
    <3> QED
      BY <3>2, <3>3, <1>2, Zenon
  <2>7. futures' \in [Callers -> Seq(1..(num_of_pack - 1))]
    <3>1. futures[t] \in Seq(1..(num_of_pack - 1)) /\ p \in 1..(num_of_pack - 1)
      BY Zenon DEF TypeOK, Packs
    <3>2. Append(futures[t], p) \in Seq(1..(num_of_pack - 1))
      BY <3>1, SeqGrows, Zenon
    <3> QED
      BY <3>2, <1>2, Zenon DEF TypeOK
  <2>8. next_pack' \in [Callers -> 1..num_of_pack]
    BY <1>1, <1>3, Zenon DEF TypeOK
  <2> QED
    BY <1>1, <2>2, <2>5, <2>6, <2>7, <2>8, Zenon DEF TypeOK
<1>11. TaskShape'
  <2> SUFFICES ASSUME NEW y \in Threads
      PROVE  /\ task'[y].state = "free" <=> task'[y] = Free
             /\ task'[y] # Free => task'[y].caller \in Callers /\ task'[y].pack < next_pack'[task'[y].caller]
             /\ y \in Workers /\ task'[y] # Free => task'[y].pack # 0 /\ task'[y].state # "end"
             /\ y \in Callers /\ task'[y] # Free => task'[y].caller = y /\ where[y] \in Inside
             /\ y \in Callers /\ where[y] = "main" => task'[y] # Free
             /\ y \in Callers /\ task'[y].state \in {"run", "end"} => where[y] = "main"
             /\ y \in Callers /\ task'[y].pack = 0 /\ task'[y] # Free => where[y] = "main"
    BY <1>1, Zenon DEF TaskShape
  <2>1. CASE y = t /\ kept
    BY <2>1, <1>1, <1>3, <1>5, SMTT(60) DEF Free, Inside
  <2>2. CASE ~(y = t /\ kept)
    <3>1. task'[y] = task[y] /\ task[y].pack \in Masks
      BY <2>2, <1>5, Facts, Zenon
    <3> QED
      BY <3>1, <1>3, Zenon DEF TaskShape
  <2> QED
    BY <2>1, <2>2, Zenon
<1>12. Fresh'
  <2>1. Packs \subseteq Masks
    BY Facts, Zenon
  <2> QED
    BY <2>1, <1>1, <1>3, Zenon DEF Fresh, Before
<1>13. TasksApart'
  <2> SUFFICES ASSUME NEW y \in Threads, NEW s \in Callers, NEW q \in Masks, At(y, s, q)'
      PROVE  /\ \A z \in Threads : z # y => ~At(z, s, q)'
             /\ task'[y].state = "acquire" => outcome[s][q] = "none" /\ results[s][q] = 0 /\ task'[y].done = 0
             /\ task'[y].state = "run" => outcome[s][q] = "none" /\ results[s][q] = task'[y].done
    BY <1>1, SMTT(60) DEF TasksApart
  <2>1. CASE y = t /\ kept
    <3>1. s = t /\ q = p
      BY <2>1, <1>6, Zenon
    <3>2. task'[y].state = "acquire" /\ task'[y].done = 0
      BY <2>1, <1>5, Zenon
    <3>3. ASSUME NEW z \in Threads, z # y PROVE ~At(z, s, q)'
      <4>1. ~At(z, s, q)
        BY <3>1, <3>3, <1>4, Zenon
      <4> QED
        BY <4>1, <2>1, <3>3, <1>6, Zenon
    <3> QED
      BY <3>1, <3>2, <3>3, <1>4, Zenon
  <2>2. CASE ~(y = t /\ kept)
    <3>1. At(y, s, q) /\ task'[y] = task[y]
      BY <2>2, <1>5, <1>6, Zenon
    <3>2. \A z \in Threads : z # y => ~At(z, s, q)'
      <4> SUFFICES ASSUME NEW z \in Threads, z # y, At(z, s, q)' PROVE FALSE
        BY Zenon
      <4>1. CASE z = t /\ kept
        <5>1. s = t /\ q = p
          BY <4>1, <1>6, Zenon
        <5> QED
          BY <5>1, <3>1, <1>4, Zenon
      <4>2. CASE ~(z = t /\ kept)
        <5>1. At(z, s, q)
          BY <4>2, <1>6, Zenon
        <5> QED
          BY <5>1, <3>1, Zenon DEF TasksApart
      <4> QED
        BY <4>1, <4>2, Zenon
    <3> QED
      BY <3>1, <3>2, Zenon DEF TasksApart
  <2> QED
    BY <2>1, <2>2, Zenon
<1>14. QueueApart'
  <2>1. ASSUME NEW s \in Callers, NEW q \in Masks, Queued(s, q)'
        PROVE  /\ q < next_pack'[s] /\ results[s][q] = 0 /\ outcome[s][q] = "none"
               /\ \A x \in Threads : ~At(x, s, q)'
    <3>1. CASE Queued(s, q)
      <4>1. q < next_pack[s] /\ results[s][q] = 0 /\ outcome[s][q] = "none" /\ \A x \in Threads : ~At(x, s, q)
        BY <3>1, Zenon DEF QueueApart
      <4>2. ASSUME NEW x \in Threads, At(x, s, q)' PROVE FALSE
        <5>1. s = t /\ q = p
          BY <4>1, <4>2, <1>6, Zenon
        <5> QED
          BY <5>1, <3>1, <1>4, Zenon
      <4>3. q < next_pack'[s]
        BY <4>1, <1>3, Zenon
      <4> QED
        BY <4>1, <4>2, <4>3, Zenon
    <3>2. CASE pushed /\ s = t /\ q = p
      <4>1. p < p + 1 /\ ~kept
        BY <3>2, <1>3, SMTT(60)
      <4> QED
        BY <3>2, <4>1, <1>3, <1>4, <1>6, Zenon
    <3> QED
      BY <2>1, <3>1, <3>2, <1>8, Zenon
  <2>2. ASSUME NEW j \in 1..Len(queue'), NEW k \in 1..Len(queue'), j # k
        PROVE  queue'[j] # queue'[k]
    <3>1. CASE ~pushed
      BY <3>1, <2>2, <1>7, Zenon DEF QueueApart
    <3>2. CASE pushed
      <4>1. /\ j \in 1..Len(queue) \/ j = Len(queue) + 1
            /\ k \in 1..Len(queue) \/ k = Len(queue) + 1
        BY <3>2, <2>2, <1>7, Facts, SMTT(60)
      <4>2. \A i \in 1..Len(queue) : queue[i] # [caller |-> t, pack |-> p]
        BY <1>4, SMTT(60) DEF Queued
      <4> QED
        BY <3>2, <4>1, <4>2, <2>2, <1>7, SMTT(60) DEF QueueApart
    <3> QED
      BY <3>1, <3>2, Zenon
  <2> QED
    BY <2>1, <2>2, <1>1, Zenon DEF QueueApart
<1>15. Counted'
  BY <1>1, Zenon DEF Counted, get_num_exec_iterations
<1>16. Covered'
  <2> SUFFICES ASSUME NEW s \in Callers, where[s] \in Inside, NEW q \in Packs,
                      q < next_pack'[s], get_num_exec_iterations(s, q) # 0
               PROVE  /\ task'[s] # Free /\ task'[s].pack # 0
                      /\ task'[s].pack = q \/ Awaits(s, q)' \/ outcome[s][q] = "ok"
    BY <1>1, Zenon DEF Covered, get_num_exec_iterations
  <2>1. q \in Masks /\ q \in Nat /\ s \in Threads /\ next_pack[s] \in Nat
    BY Facts, SMTT(60) DEF Threads
  <2>2. CASE s = t /\ q = p
    <3>1. CASE kept
      BY <2>2, <3>1, <1>3, <1>5, Zenon
    <3>2. CASE pushed
      <4>1. task[t] # Free /\ task'[t] = task[t] /\ Awaits(t, p)'
        BY <3>2, <1>5, <1>9, Zenon
      <4>2. task[t].pack # 0
        BY <4>1, <1>1, Zenon DEF TaskShape
      <4> QED
        BY <2>2, <4>1, <4>2, Zenon
    <3> QED
      BY <2>2, <3>1, <3>2, <1>2, Zenon
  <2>3. CASE ~(s = t /\ q = p)
    <3>1. q < next_pack[s]
      BY <2>1, <2>3, <1>0, <1>3, SMTT(60)
    <3>2. /\ task[s] # Free /\ task[s].pack # 0
          /\ task[s].pack = q \/ Awaits(s, q) \/ outcome[s][q] = "ok"
      BY <3>1, Zenon DEF Covered
    <3>3. task'[s] = task[s]
      BY <3>2, <2>1, <1>5, Zenon
    <3> QED
      BY <2>1, <3>2, <3>3, <1>9, Zenon
  <2> QED
    BY <2>2, <2>3, Zenon
<1>17. Awaited'
  <2> SUFFICES ASSUME NEW s \in Callers, NEW q \in Masks,
                      Queued(s, q)' \/ \E w \in Workers : At(w, s, q)'
               PROVE  where[s] = "thrown" \/ (where[s] \in Inside /\ Awaits(s, q)')
    BY <1>1, Zenon DEF Awaited
  <2>1. (Queued(s, q) \/ \E w \in Workers : At(w, s, q)) \/ (pushed /\ s = t /\ q = p)
    BY <1>1, <1>6, <1>8, Zenon DEF Threads
  <2> QED
    BY <2>1, <1>1, <1>9, Zenon DEF Awaited, Inside
<1>18. RunComplete'
  BY <1>1, Zenon DEF RunComplete
<1>19. UnitsHeld'
  <2>1. \A x \in Threads : task[x].state = "run" => task'[x] = task[x]
    BY <1>1, <1>5, SMTT(60) DEF Free
  <2> QED
    BY <2>1, <1>1, Facts, Zenon DEF UnitsHeld
<1> QED
  BY <1>10, <1>11, <1>12, <1>13, <1>14, <1>15, <1>16, <1>17, <1>18, <1>19, Zenon

-----------------------------------------------------------------------------
(* The caller waits for the futures; the theorems.                         *)

\* Waiting for the futures keeps the invariant: the call ends with all of
\* its packs ended.
LEMMA JoinStep ==
  ASSUME IInv, NEW t \in Callers, Join(t)
  PROVE  IInv'
<1> USE DEF IInv
<1> DEFINE own  == outcome[t][task[t].pack]
           goes == where' = where /\ task' = task
           ends(how) == where' = [where EXCEPT ![t] = how] /\ task' = [task EXCEPT ![t] = Free]
           asks == /\ futures[t] # <<>> /\ outcome[t][Head(futures[t])] # "none"
                   /\ futures' = [futures EXCEPT ![t] = Tail(@)]
<1>1. /\ UNCHANGED <<pool, asked, next_pack, queue, holds, results, outcome, throws>>
      /\ where[t] = "main" /\ task[t].state = "end" /\ t \in Threads /\ t \notin Workers
  BY ThreadAssumption, Zenon DEF Join, Threads
<1>2. \/ ends("thrown") /\ futures' = futures
      \/ own = "ok" /\ futures[t] = <<>> /\ ends("returned") /\ futures' = futures
      \/ asks /\ outcome[t][Head(futures[t])] = "thrown" /\ ends("thrown")
      \/ own = "ok" /\ asks /\ outcome[t][Head(futures[t])] # "thrown" /\ goes
  BY Zenon DEF Join
<1>3. /\ \A s \in Callers : s # t => where'[s] = where[s] /\ futures'[s] = futures[s]
      /\ \A y \in Threads : y # t => task'[y] = task[y]
      /\ \/ where'[t] = "thrown" /\ task'[t] = Free
         \/ where'[t] = "returned" /\ task'[t] = Free /\ futures[t] = <<>> /\ own = "ok"
         \/ where'[t] = "main" /\ task'[t] = task[t]
  BY <1>1, <1>2, Zenon DEF TypeOK
<1>4. ASSUME NEW y \in Threads, NEW s \in Callers, NEW q \in Masks, At(y, s, q)'
      PROVE  At(y, s, q) /\ task'[y] = task[y]
  BY <1>3, <1>4, Zenon DEF At
<1>5. ASSUME NEW q \in Masks, Awaits(t, q), where'[t] = "main"
      PROVE  Awaits(t, q)' \/ outcome[t][q] = "ok"
  <2>1. asks /\ outcome[t][Head(futures[t])] # "thrown"
    BY <1>1, <1>2, <1>5, Zenon DEF TypeOK
  <2>2. futures[t] \in Seq(1..(num_of_pack - 1)) /\ futures'[t] = Tail(futures[t])
    BY <2>1, Zenon DEF TypeOK
  <2>3. /\ Len(futures[t]) \in Nat /\ 1 \in 1..Len(futures[t]) /\ Len(futures'[t]) = Len(futures[t]) - 1
        /\ \A k \in 1..Len(futures'[t]) : futures'[t][k] = futures[t][k + 1]
        /\ Head(futures[t]) = futures[t][1]
    <3>1. futures[t] # <<>>
      BY <2>1, Zenon
    <3>2. Len(futures[t]) \in Nat /\ 1 \in 1..Len(futures[t]) /\ Head(futures[t]) = futures[t][1]
      BY <2>2, <3>1
    <3>3. /\ Len(Tail(futures[t])) = Len(futures[t]) - 1
          /\ \A k \in 1..Len(Tail(futures[t])) : Tail(futures[t])[k] = futures[t][k + 1]
      BY <2>2, <3>1, SeqShrinks, Zenon
    <3> QED
      BY <2>2, <3>2, <3>3, Zenon
  <2>4. PICK k \in 1..Len(futures[t]) : futures[t][k] = q
    BY <1>5, Zenon DEF Awaits
  <2>5. CASE k = 1
    <3>1. outcome[t][q] \in {"none", "ok", "thrown"}
      BY DEF TypeOK
    <3> QED
      BY <3>1, <2>1, <2>3, <2>4, <2>5, Zenon
  <2>6. CASE k # 1
    <3>1. k - 1 \in 1..Len(futures'[t]) /\ (k - 1) + 1 = k
      BY <2>3, <2>6
    <3>2. futures'[t][k - 1] = q
      BY <3>1, <2>3, <2>4, Zenon
    <3> QED
      BY <3>1, <3>2, Zenon DEF Awaits
  <2> QED
    BY <2>5, <2>6, Zenon
<1>6. TypeOK'
  <2>1. Free \in [caller : Callers \cup {NoThread}, pack : Masks, done : Nat,
                  state : {"free", "acquire", "run", "end"}]
    <3>1. 0 \in Masks
      BY Facts, Zenon
    <3> QED
      BY <3>1, Zenon DEF Free
  <2>2. task' \in [Threads -> [caller : Callers \cup {NoThread}, pack : Masks, done : Nat,
                               state : {"free", "acquire", "run", "end"}]]
    BY <2>1, <1>2, Zenon DEF TypeOK
  <2>3. \A y \in Threads : task'[y].done <= get_num_exec_iterations(task'[y].caller, task'[y].pack)
    <3>1. 0 <= get_num_exec_iterations(NoThread, 0)
      BY DEF get_num_exec_iterations
    <3>2. \A y \in Threads : task'[y] = task[y] \/ task'[y] = Free
      BY <1>3, Zenon
    <3>3. /\ Free.done = 0 /\ Free.caller = NoThread /\ Free.pack = 0
          /\ \A y \in Threads : task[y].done <= get_num_exec_iterations(task[y].caller, task[y].pack)
      BY Zenon DEF TypeOK, Free
    <3> QED
      BY <3>1, <3>2, <3>3, Zenon
  <2>4. (\A y \in Threads : task[y].done <= get_num_exec_iterations(task[y].caller, task[y].pack))'
    <3>1. asked' = asked
      BY <1>1, Zenon
    <3> QED
      BY <3>1, <2>3, Zenon DEF get_num_exec_iterations
  <2>5. futures' \in [Callers -> Seq(1..(num_of_pack - 1))]
    <3>1. futures[t] \in Seq(1..(num_of_pack - 1))
      BY Zenon DEF TypeOK
    <3>2. futures[t] # <<>> => Tail(futures[t]) \in Seq(1..(num_of_pack - 1))
      BY <3>1, SeqShrinks, Zenon
    <3> QED
      BY <3>2, <1>2, Zenon DEF TypeOK
  <2>6. where' \in [Callers -> {"new", "operation", "params", "runner", "submit", "main",
                                "refused", "returned", "thrown"}]
    BY <1>2, Zenon DEF TypeOK
  <2> QED
    BY <1>1, <2>2, <2>4, <2>5, <2>6, Zenon DEF TypeOK
<1>7. TaskShape'
  <2> SUFFICES ASSUME NEW y \in Threads
      PROVE  /\ task'[y].state = "free" <=> task'[y] = Free
             /\ task'[y] # Free => task'[y].caller \in Callers /\ task'[y].pack < next_pack[task'[y].caller]
             /\ y \in Workers /\ task'[y] # Free => task'[y].pack # 0 /\ task'[y].state # "end"
             /\ y \in Callers /\ task'[y] # Free => task'[y].caller = y /\ where'[y] \in Inside
             /\ y \in Callers /\ where'[y] = "main" => task'[y] # Free
             /\ y \in Callers /\ task'[y].state \in {"run", "end"} => where'[y] = "main"
             /\ y \in Callers /\ task'[y].pack = 0 /\ task'[y] # Free => where'[y] = "main"
    BY <1>1, Zenon DEF TaskShape
  <2>1. CASE y = t
    BY <2>1, <1>1, <1>3, SMTT(60) DEF TaskShape, Free, Inside
  <2>2. CASE y # t
    BY <2>2, <1>3, Zenon DEF TaskShape
  <2> QED
    BY <2>1, <2>2, Zenon
<1>8. Fresh'
  <2>1. /\ where'[t] \notin Before \cup {"submit"}
        /\ \A s \in Callers : s # t => where'[s] = where[s]
    BY <1>3, Zenon DEF Before
  <2>2. next_pack[t] = num_of_pack
    BY <1>1, Zenon DEF Fresh
  <2>3. \A s \in Callers : \A q \in Packs : q >= next_pack[s] => results[s][q] = 0 /\ outcome[s][q] = "none"
    BY Zenon DEF Fresh
  <2>4. \A s \in Callers :
          /\ where'[s] \in Before => next_pack[s] = 1
          /\ where'[s] \in {"main", "returned"} => next_pack[s] = num_of_pack
          /\ where'[s] \in Before \cup {"submit"} => results[s][0] = 0 /\ outcome[s][0] = "none"
    BY <2>1, <2>2, Zenon DEF Fresh
  <2> QED
    BY <1>1, <2>3, <2>4, Zenon DEF Fresh
<1>9. TasksApart'
  <2> SUFFICES ASSUME NEW y \in Threads, NEW s \in Callers, NEW q \in Masks, At(y, s, q)'
      PROVE  /\ \A z \in Threads : z # y => ~At(z, s, q)'
             /\ task'[y].state = "acquire" => outcome[s][q] = "none" /\ results[s][q] = 0 /\ task'[y].done = 0
             /\ task'[y].state = "run" => outcome[s][q] = "none" /\ results[s][q] = task'[y].done
    BY <1>1 DEF TasksApart
  <2>1. At(y, s, q) /\ task'[y] = task[y]
    BY <1>4, Zenon
  <2>2. \A z \in Threads : z # y => ~At(z, s, q)'
    BY <2>1, <1>4, Zenon DEF TasksApart
  <2> QED
    BY <2>1, <2>2, Zenon DEF TasksApart
<1>10. QueueApart'
  <2>1. ASSUME NEW s \in Callers, NEW q \in Masks, Queued(s, q)
        PROVE  \A x \in Threads : ~At(x, s, q)'
    BY <2>1, <1>4, Zenon DEF QueueApart
  <2> QED
    BY <2>1, <1>1, Zenon DEF QueueApart, Queued
<1>11. Counted'
  BY <1>1, Zenon DEF Counted, get_num_exec_iterations
<1>12. Covered'
  <2> SUFFICES ASSUME NEW s \in Callers, where'[s] \in Inside, NEW q \in Packs,
                      q < next_pack[s], get_num_exec_iterations(s, q) # 0
               PROVE  /\ task'[s] # Free /\ task'[s].pack # 0
                      /\ task'[s].pack = q \/ Awaits(s, q)' \/ outcome[s][q] = "ok"
    BY <1>1, Zenon DEF Covered, get_num_exec_iterations
  <2>1. q \in Masks /\ s \in Threads
    BY Facts, Zenon DEF Threads
  <2>2. where[s] \in Inside /\ task'[s] = task[s] /\ (s = t => where'[t] = "main")
    BY <2>1, <1>1, <1>3, Zenon DEF Inside
  <2>3. /\ task[s] # Free /\ task[s].pack # 0
        /\ task[s].pack = q \/ Awaits(s, q) \/ outcome[s][q] = "ok"
    BY <2>2, Zenon DEF Covered
  <2>4. Awaits(s, q) => Awaits(s, q)' \/ outcome[s][q] = "ok"
    <3>1. CASE s = t
      BY <3>1, <2>1, <2>2, <1>5, Zenon
    <3>2. CASE s # t
      BY <3>2, <1>3, Zenon DEF Awaits
    <3> QED
      BY <3>1, <3>2, Zenon
  <2> QED
    BY <2>2, <2>3, <2>4, Zenon
<1>13. Awaited'
  <2> SUFFICES ASSUME NEW s \in Callers, NEW q \in Masks,
                      Queued(s, q)' \/ \E w \in Workers : At(w, s, q)'
               PROVE  where'[s] = "thrown" \/ (where'[s] \in Inside /\ Awaits(s, q)')
    BY Zenon DEF Awaited
  <2>1. Queued(s, q) \/ \E w \in Workers : At(w, s, q)
    BY <1>1, <1>4, Zenon DEF Queued, Threads
  <2>2. where[s] = "thrown" \/ (where[s] \in Inside /\ Awaits(s, q))
    BY <2>1, Zenon DEF Awaited
  <2>3. outcome[s][q] = "none"
    <3>1. CASE Queued(s, q)
      BY <3>1, Zenon DEF QueueApart
    <3>2. ASSUME NEW w \in Workers, At(w, s, q) PROVE outcome[s][q] = "none"
      <4>1. w \in Threads /\ task[w] # Free /\ task[w].state \in {"free", "acquire", "run", "end"}
        BY <3>2, Facts, Zenon DEF At, Threads
      <4>2. task[w].state \in {"acquire", "run"}
        BY <4>1, Zenon DEF TaskShape
      <4> QED
        BY <3>2, <4>1, <4>2, Zenon DEF TasksApart
    <3> QED
      BY <2>1, <3>1, <3>2, Zenon
  <2>4. CASE s # t
    BY <2>2, <2>4, <1>3, Zenon DEF Awaits
  <2>5. CASE s = t
    <3>1. Awaits(t, q)
      BY <2>2, <2>5, <1>1, Zenon
    <3>2. where'[t] # "returned"
      BY <3>1, <1>3, SMTT(60) DEF Awaits
    <3> QED
      BY <2>3, <2>5, <3>1, <3>2, <1>3, <1>5, Zenon DEF Inside
  <2> QED
    BY <2>4, <2>5, Zenon
<1>14. RunComplete'
  <2> SUFFICES ASSUME NEW s \in Callers, where'[s] = "returned", NEW q \in Packs
               PROVE  results[s][q] = asked[s].execs[q]
    BY <1>1, Zenon DEF RunComplete, Packs
  <2>1. q \in Masks /\ q # 0 /\ q \in Nat /\ q < num_of_pack
    BY Facts, SMTT(60) DEF Packs
  <2>2. CASE s # t
    BY <2>2, <1>3, Zenon DEF RunComplete, Packs
  <2>3. CASE s = t
    <3>1. own = "ok" /\ ~Awaits(t, q) /\ next_pack[t] = num_of_pack /\ where[t] \in Inside
      BY <2>3, <1>1, <1>3, SMTT(60) DEF Awaits, Fresh, Inside
    <3>2. CASE get_num_exec_iterations(t, q) # 0
      <4>1. outcome[t][q] = "ok"
        BY <2>1, <3>1, <3>2, Zenon DEF Covered
      <4> QED
        BY <4>1, <2>1, <2>3, Zenon DEF Counted, get_num_exec_iterations
    <3>3. CASE get_num_exec_iterations(t, q) = 0
      <4>1. results[t][q] = 0
        <5>1. results[t][q] \in Nat
          BY <2>1, Facts, Zenon
        <5>2. results[t][q] <= 0
          BY <2>1, <3>3, Zenon DEF Counted
        <5> QED
          BY <5>1, <5>2, SMTT(60)
      <4>2. get_num_exec_iterations(t, q) = asked[t].execs[q]
        BY <2>1, Zenon DEF get_num_exec_iterations
      <4> QED
        BY <4>1, <4>2, <3>3, <2>3, Zenon
    <3> QED
      BY <3>2, <3>3, Zenon
  <2> QED
    BY <2>2, <2>3, Zenon
<1>15. UnitsHeld'
  <2>1. \A x \in Threads : task[x].state = "run" => task'[x] = task[x]
    BY <1>1, <1>3, Zenon
  <2> QED
    <3>1. \A u \in CUnits : holds[u] # NoThread => holds[u] \in Threads
      BY Facts, Zenon
    <3> QED
      BY <3>1, <2>1, <1>1, Zenon DEF UnitsHeld
<1> QED
  BY <1>6, <1>7, <1>8, <1>9, <1>10, <1>11, <1>12, <1>13, <1>14, <1>15, Zenon

-----------------------------------------------------------------------------
(* The theorems                                                             *)

\* The initial states satisfy the invariant.
LEMMA InitInv == Init => IInv
<1> SUFFICES ASSUME Init PROVE IInv
  BY Zenon
<1> USE DEF Init
<1>1. 0 \in Masks /\ 1 \in 1..num_of_pack
  BY PackAssumption DEF Masks
<1>2. TypeOK
  <2>1. Free \in [caller : Callers \cup {NoThread}, pack : Masks, done : Nat,
                  state : {"free", "acquire", "run", "end"}]
    BY <1>1, Zenon DEF Free
  <2>2. \A x \in Threads : task[x].done <= get_num_exec_iterations(task[x].caller, task[x].pack)
    BY SMTT(60) DEF Free, get_num_exec_iterations
  <2>3. asked \in [Callers -> Calls] /\ throws \in 0..MaxThrows
    BY BoundAssumption
  <2>4. /\ next_pack \in [Callers -> 1..num_of_pack] /\ futures \in [Callers -> Seq(1..(num_of_pack - 1))]
        /\ queue \in Seq([caller : Callers, pack : 1..(num_of_pack - 1)])
    BY <1>1
  <2>5. task \in [Threads -> [caller : Callers \cup {NoThread}, pack : Masks, done : Nat,
                              state : {"free", "acquire", "run", "end"}]]
    BY <2>1, Zenon
  <2>6. /\ results \in [Callers -> [Masks -> Nat]]
        /\ outcome \in [Callers -> [Masks -> {"none", "ok", "thrown"}]]
    BY Zenon
  <2>7. /\ holds \in [CUnits -> Threads \cup {NoThread}] /\ pool \in BOOLEAN
        /\ where \in [Callers -> {"new", "operation", "params", "runner", "submit", "main",
                                  "refused", "returned", "thrown"}]
    BY Zenon
  <2> QED
    BY <2>2, <2>3, <2>4, <2>5, <2>6, <2>7, Zenon DEF TypeOK
<1>3. TaskShape
  BY Zenon DEF TaskShape, Free, Threads
<1>4. Fresh
  BY <1>1, Zenon DEF Fresh, Before, Masks, Packs
<1>5. TasksApart /\ QueueApart /\ Awaited
  <2>1. 1..Len(queue) = {}
    OBVIOUS
  <2>2. \A x \in Threads : task[x] = Free
    BY Zenon
  <2> QED
    BY <2>1, <2>2, Zenon DEF TasksApart, QueueApart, Awaited, At, Queued, Threads
<1>6. Counted
  <2>1. \A t \in Callers : \A p \in Masks : results[t][p] = 0 /\ outcome[t][p] = "none"
    BY Zenon
  <2>2. \A t \in Callers : \A p \in Masks : get_num_exec_iterations(t, p) \in Nat
    BY <1>2, Facts, Zenon
  <2> QED
    BY <2>1, <2>2 DEF Counted
<1>7. Covered /\ RunComplete
  BY Zenon DEF Covered, RunComplete, Inside
<1>8. UnitsHeld
  BY Zenon DEF UnitsHeld
<1> QED
  BY <1>2, <1>3, <1>4, <1>5, <1>6, <1>7, <1>8, Zenon DEF IInv

\* So does a step that changes nothing.
LEMMA StutterInv == IInv /\ UNCHANGED vars => IInv'
<1> SUFFICES ASSUME IInv, UNCHANGED vars PROVE IInv'
  BY Zenon
<1> USE DEF IInv, vars
<1>1. TypeOK'
  BY Zenon DEF TypeOK, get_num_exec_iterations
<1>2. TaskShape'
  BY Zenon DEF TaskShape
<1>3. Fresh' /\ RunComplete' /\ UnitsHeld'
  BY Zenon DEF Fresh, RunComplete, UnitsHeld
<1>4. TasksApart'
  BY DEF TasksApart, At
<1>5. QueueApart'
  BY DEF QueueApart, At, Queued
<1>6. Counted' /\ Covered'
  BY Zenon DEF Counted, Covered, Awaits, get_num_exec_iterations
<1>7. Awaited'
  BY Zenon DEF Awaited, Awaits, At, Queued
<1> QED
  BY <1>1, <1>2, <1>3, <1>4, <1>5, <1>6, <1>7, Zenon

\* Every step keeps the invariant.
LEMMA NextInv == IInv /\ [Next]_vars => IInv'
<1> SUFFICES ASSUME IInv, [Next]_vars PROVE IInv'
  BY Zenon
<1>1. ASSUME NEW t \in Callers, Caller(t) PROVE IInv'
  BY <1>1, EarlySteps, SubmitStep, SubmittedStep, JoinStep, Zenon DEF Caller
<1>2. ASSUME NEW w \in Workers, Take(w) PROVE IInv'
  BY <1>2, TakeStep, Zenon
<1>3. ASSUME NEW x \in Threads, OnPack(x) PROVE IInv'
  <2>1. CASE Spin(x)
    BY <2>1, StutterInv, Zenon DEF Spin
  <2> QED
    BY <1>3, <2>1, AcquireStep, ExecuteStep, ExecuteThrowsStep, ReleaseStep, Zenon DEF OnPack
<1>4. CASE Finished \/ UNCHANGED vars
  BY <1>4, StutterInv, Zenon DEF Finished
<1> QED
  BY <1>1, <1>2, <1>3, <1>4, Zenon DEF Next

\* The invariant holds always.
LEMMA SpecInv == Spec => []IInv
<1> QED
  BY InitInv, NextInv, PTL DEF Spec

\* Whatever threads, units, calls and exceptions there are, the runner's state stays
\* in its types, and no thread makes more executions than its pack has.
THEOREM RunnerTypes == Spec => []TypeOK
<1>1. IInv => TypeOK
  BY Zenon DEF IInv
<1> QED
  BY <1>1, SpecInv, PTL

\* A run that returns has run every execution of every pack exactly once, however the
\* packs were spread over the caller and the pool.
THEOREM RunnerComplete == Spec => []RunComplete
<1>1. IInv => RunComplete
  BY Zenon DEF IInv
<1> QED
  BY <1>1, SpecInv, PTL

\* A run that returns leaves no task behind, neither queued nor with a worker, that
\* would use its operation.
THEOREM RunnerOutlived == Spec => []OutlivedByThrow
<1>1. ASSUME IInv PROVE OutlivedByThrow
  <2> USE <1>1 DEF IInv
  <2> SUFFICES ASSUME NEW t \in Callers, where[t] = "returned"
               PROVE  /\ \A w \in Workers : task[w].caller # t
                      /\ \A k \in 1..Len(queue) : queue[k].caller # t
    BY Zenon DEF OutlivedByThrow
  <2>1. ASSUME NEW p \in Masks PROVE ~Queued(t, p) /\ \A w \in Workers : ~At(w, t, p)
    BY Zenon DEF Awaited, Inside
  <2>2. ASSUME NEW w \in Workers PROVE task[w].caller # t
    <3>1. w \in Threads /\ task[w].pack \in Masks
      BY Facts, Zenon DEF Threads
    <3>2. CASE task[w] = Free
      BY <3>2, ThreadAssumption DEF Free, Threads
    <3> QED
      BY <3>1, <3>2, <2>1, Zenon DEF At
  <2>3. ASSUME NEW k \in 1..Len(queue) PROVE queue[k].caller # t
    <3>1. queue[k].pack \in Masks
      BY Facts, Zenon
    <3> QED
      BY <3>1, <2>1, Zenon DEF Queued
  <2> QED
    BY <2>2, <2>3, Zenon
<1> QED
  BY <1>1, SpecInv, PTL

\* A unit that is not free is in the hands of a thread that runs one of its packs, so
\* no exception loses a unit.
THEOREM RunnerUnits == Spec => []UnitsHeld
<1>1. IInv => UnitsHeld
  BY Zenon DEF IInv
<1> QED
  BY <1>1, SpecInv, PTL

\* Only an operation without executions asks for a unit of no pack.
THEOREM RunnerSpin == Spec => []SpinExplained
<1>1. ASSUME IInv PROVE SpinExplained
  <2> USE <1>1 DEF IInv
  <2> SUFFICES ASSUME NEW x \in Threads, Running(x), task[x].state = "acquire", task[x].pack = 0,
                      NEW p \in Packs
               PROVE  asked[task[x].caller].execs[p] = 0
    BY Zenon DEF SpinExplained, Packs
  <2>1. task[x] # Free /\ x \in Callers /\ task[x].caller = x /\ where[x] = "main"
    BY Zenon DEF TaskShape, Threads, Running
  <2>2. next_pack[x] = num_of_pack /\ p < num_of_pack /\ p # 0
    BY <2>1, PackAssumption, SMTT(60) DEF Fresh, Packs
  <2>3. get_num_exec_iterations(x, p) = 0
    BY <2>1, <2>2, Zenon DEF Covered, Inside
  <2> QED
    BY <2>1, <2>2, <2>3, Zenon DEF get_num_exec_iterations
<1> QED
  BY <1>1, SpecInv, PTL
=============================================================================
