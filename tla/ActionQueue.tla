---------------------------- MODULE ActionQueue ----------------------------
(***************************************************************************)
(* The thread pool of common/threads: an ActionQueue guarded by one mutex  *)
(* and one condition variable, the ActionConsumer threads that pop and run *)
(* actions, and the ProducerConsumer that owns both, from its constructor  *)
(* to the end of its destructor.                                           *)
(*                                                                         *)
(* A critical section that no other thread can observe half-way is one     *)
(* step (push, the locked part of close).  pop is split where another      *)
(* thread can get in between or where the order of check and wait matters: *)
(* lock, check of the wait predicate, wait, take.  The condition variable  *)
(* may wake a waiter spuriously, as std::condition_variable may.           *)
(***************************************************************************)
EXTENDS Naturals, Sequences, FiniteSets

CONSTANTS Consumers,  \* the worker threads Manager::create starts
          Actions,    \* the packaged_tasks that callers may submit
          NoThread,   \* "no thread holds the mutex"
          NoAction    \* the invalid packaged_task that pop() returns at the end

ASSUME ThreadAssumption == NoThread \notin Consumers
ASSUME ActionAssumption == NoAction \notin Actions

VARIABLES actions,    \* ActionQueue::actions_
          is_active,  \* ActionQueue::is_active_
          mutex,      \* the consumer inside pop()'s critical section, or NoThread
          waiting,    \* the consumers blocked on queue_cv_, not yet notified
          pc,         \* where each consumer is in ActionConsumer::start
          func,       \* the action each consumer has popped
          future,     \* shared state of each submitted action's std::future
          owner       \* progress of the ProducerConsumer object's lifetime

vars == <<actions, is_active, mutex, waiting, pc, func, future, owner>>

ConsumerPC == {"unborn", "lock", "check", "wait", "blocked", "take", "call", "exited"}
OwnerPC    == {"ctor", "open", "notify", "join", "destroyed"}

TypeOK ==
  /\ actions \in Seq(Actions)
  /\ is_active \in BOOLEAN
  /\ mutex \in Consumers \cup {NoThread}
  /\ waiting \subseteq Consumers
  /\ pc \in [Consumers -> ConsumerPC]
  /\ func \in [Consumers -> Actions \cup {NoAction}]
  /\ future \in [Actions -> {"none", "pending", "ready", "exception"}]
  /\ owner \in OwnerPC

Init ==
  /\ actions = <<>>
  /\ is_active = TRUE
  /\ mutex = NoThread
  /\ waiting = {}
  /\ pc = [c \in Consumers |-> "unborn"]
  /\ func = [c \in Consumers |-> NoAction]
  /\ future = [a \in Actions |-> "none"]
  /\ owner = "ctor"
-----------------------------------------------------------------------------
(* Variants of the operations below as plausible slips would leave them.    *)
(* They take part in no specification; each is put in the place of the      *)
(* operation it names to show that a property notices the difference.       *)

\* close() with an atomic flag in place of the lock.
CloseAtomicFlag ==
  /\ owner = "open"
  /\ is_active' = FALSE
  /\ owner' = "notify"
  /\ UNCHANGED <<actions, mutex, waiting, pc, func, future>>

\* std::queue replaced by a stack: the action pushed last runs first.
PopTakeLast(c) ==
  /\ pc[c] = "take"
  /\ mutex' = NoThread
  /\ IF ~is_active /\ actions = <<>>
       THEN pc' = [pc EXCEPT ![c] = "exited"] /\ UNCHANGED <<actions, func>>
       ELSE /\ func' = [func EXCEPT ![c] = actions[Len(actions)]]
            /\ actions' = SubSeq(actions, 1, Len(actions) - 1)
            /\ pc' = [pc EXCEPT ![c] = "call"]
  /\ UNCHANGED <<is_active, waiting, future, owner>>

-----------------------------------------------------------------------------
(* The owner.  notify_all makes every blocked consumer contend for the     *)
(* mutex again; "blocked" consumers outside `waiting' are in that state.   *)

\* ProducerConsumer(): one thread per iteration; a started consumer runs at once.
Create(c) ==
  /\ owner = "ctor" /\ pc[c] = "unborn"
  /\ pc' = [pc EXCEPT ![c] = "lock"]
  /\ owner' = IF \A d \in Consumers \ {c} : pc[d] # "unborn" THEN "open" ELSE "ctor"
  /\ UNCHANGED <<actions, is_active, mutex, waiting, func, future>>

\* ProducerConsumer::run: get_future, then ActionQueue::push under the lock.
Run(a) ==
  /\ owner = "open" /\ future[a] = "none"
  /\ mutex = NoThread
  /\ future' = [future EXCEPT ![a] = "pending"]
  /\ actions' = Append(actions, a)
  /\ waiting' = {}
  /\ UNCHANGED <<is_active, mutex, pc, func, owner>>

\* ~ProducerConsumer: the locked block of ActionQueue::close ...
Close ==
  /\ owner = "open" /\ mutex = NoThread
  /\ is_active' = FALSE
  /\ owner' = "notify"
  /\ UNCHANGED <<actions, mutex, waiting, pc, func, future>>

\* ... and its notify_all, after the lock is gone.
CloseNotify ==
  /\ owner = "notify"
  /\ waiting' = {}
  /\ owner' = "join"
  /\ UNCHANGED <<actions, is_active, mutex, pc, func, future>>

\* ~Storage: join_workers returns when every worker thread has ended.
JoinWorkers ==
  /\ owner = "join"
  /\ \A c \in Consumers : pc[c] = "exited"
  /\ owner' = "destroyed"
  /\ UNCHANGED <<actions, is_active, mutex, waiting, pc, func, future>>
-----------------------------------------------------------------------------
(* A consumer. *)

PopLock(c) ==
  /\ pc[c] = "lock" /\ mutex = NoThread
  /\ mutex' = c
  /\ pc' = [pc EXCEPT ![c] = "check"]
  /\ UNCHANGED <<actions, is_active, waiting, func, future, owner>>

\* The predicate of queue_cv_.wait, evaluated with the lock held.
PopCheck(c) ==
  /\ pc[c] = "check"
  /\ pc' = [pc EXCEPT ![c] = IF actions = <<>> /\ is_active THEN "wait" ELSE "take"]
  /\ UNCHANGED <<actions, is_active, mutex, waiting, func, future, owner>>

\* wait releases the lock and blocks in one step.
PopWait(c) ==
  /\ pc[c] = "wait"
  /\ mutex' = NoThread
  /\ waiting' = waiting \cup {c}
  /\ pc' = [pc EXCEPT ![c] = "blocked"]
  /\ UNCHANGED <<actions, is_active, func, future, owner>>

\* A notified waiter takes the lock back and evaluates the predicate again.
PopWake(c) ==
  /\ pc[c] = "blocked" /\ c \notin waiting /\ mutex = NoThread
  /\ mutex' = c
  /\ pc' = [pc EXCEPT ![c] = "check"]
  /\ UNCHANGED <<actions, is_active, waiting, func, future, owner>>

\* The condition variable may stop blocking without a notification.
SpuriousWakeup(c) ==
  /\ c \in waiting
  /\ waiting' = waiting \ {c}
  /\ UNCHANGED <<actions, is_active, mutex, pc, func, future, owner>>

\* The rest of pop, and start()'s reaction to what it returns.
PopTake(c) ==
  /\ pc[c] = "take"
  /\ mutex' = NoThread
  /\ \/ /\ ~is_active /\ actions = <<>>
        /\ pc' = [pc EXCEPT ![c] = "exited"]
        /\ UNCHANGED <<actions, func>>
     \/ /\ is_active \/ actions # <<>>
        /\ func' = [func EXCEPT ![c] = Head(actions)]
        /\ actions' = Tail(actions)
        /\ pc' = [pc EXCEPT ![c] = "call"]
  /\ UNCHANGED <<is_active, waiting, future, owner>>

\* func(): the packaged_task returns or throws; both end in its future.
Call(c) ==
  /\ pc[c] = "call"
  /\ \E outcome \in {"ready", "exception"} :
       future' = [future EXCEPT ![func[c]] = outcome]
  /\ func' = [func EXCEPT ![c] = NoAction]
  /\ pc' = [pc EXCEPT ![c] = "lock"]
  /\ UNCHANGED <<actions, is_active, mutex, waiting, owner>>
-----------------------------------------------------------------------------
ConsumerStep(c) ==
  PopLock(c) \/ PopCheck(c) \/ PopWait(c) \/ PopWake(c) \/ PopTake(c) \/ Call(c)

\* Nothing is left to do once the destructor has returned.
Destroyed == owner = "destroyed" /\ UNCHANGED vars

Next ==
  \/ \E c \in Consumers : Create(c) \/ ConsumerStep(c) \/ SpuriousWakeup(c)
  \/ \E a \in Actions : Run(a)
  \/ Close \/ CloseNotify \/ JoinWorkers \/ Destroyed

(* Fairness: the operating system runs every started thread, an action the  *)
(* pool is given terminates, and a destructor that has begun is carried on. *)
(* Nothing obliges a caller to submit an action or to destroy the pool, and *)
(* a spurious wakeup need never happen.                                     *)
Fairness ==
  /\ \A c \in Consumers : WF_vars(Create(c)) /\ WF_vars(ConsumerStep(c))
  /\ WF_vars(CloseNotify) /\ WF_vars(JoinWorkers)

Spec == Init /\ [][Next]_vars /\ Fairness
-----------------------------------------------------------------------------
Queued(a)  == \E i \in 1 .. Len(actions) : actions[i] = a
Holders(a) == {c \in Consumers : func[c] = a}

\* Every submitted action that has not ended is in exactly one place: once in
\* the queue or in the hands of one consumer.  Ended and unsubmitted ones are
\* nowhere: push, pop and start neither lose nor duplicate an action.
ActionsAccounted ==
  /\ \A i, j \in 1 .. Len(actions) : actions[i] = actions[j] => i = j
  /\ \A a \in Actions :
       /\ Queued(a) => future[a] = "pending" /\ Holders(a) = {}
       /\ \A c, d \in Holders(a) : c = d
       /\ Holders(a) # {} => future[a] = "pending"
       /\ future[a] = "pending" => Queued(a) \/ Holders(a) # {}

\* No lost wakeup: a consumer sleeps un-notified only while there is nothing
\* for it to do, or while close() still owes its notify_all.
NoLostWakeup ==
  waiting # {} => \/ actions = <<>> /\ is_active
                  \/ owner = "notify"

\* The destructor returns only after every action submitted before it has
\* ended: a closed queue is drained, not dropped.
DrainedWhenDestroyed ==
  owner = "destroyed" => \A a \in Actions : future[a] # "pending"

Pool == INSTANCE TaskPool WITH
  queue   <- actions,
  running <- {func[c] : c \in Consumers} \ {NoAction},
  outcome <- future,
  life    <- CASE owner \in {"ctor", "open"}   -> "open"
               [] owner \in {"notify", "join"} -> "closing"
               [] OTHER                        -> "gone",
  Workers <- Cardinality(Consumers)

\* The mutex-and-condition-variable queue implements the task pool: FIFO
\* start, each action once, bounded concurrency, drained before it is gone.
ImplementsTaskPool == Pool!Spec
=============================================================================
