-------------------------- MODULE WaitQueueProofs --------------------------
(***************************************************************************)
(* Proofs about the two places where threads sleep until others wake them: *)
(* ActionQueue, for every number of consumers and actions, and             *)
(* CunitScheduler, for every number of threads and units and every         *)
(* assignment of masks to threads.                                         *)
(***************************************************************************)
EXTENDS ActionQueue, CunitScheduler, FiniteSetTheorems, WellFoundedInduction, TLAPS

\* The mutex is held by the one consumer inside pop's critical section.
MutexInv == \A c \in Consumers : pc[c] \in {"check", "wait", "take"} <=> mutex = c

\* What a consumer concluded from the predicate still holds while it has the
\* lock, and a consumer that has left found the queue closed and empty.
PopInv ==
  \A c \in Consumers :
    /\ c \in waiting => pc[c] = "blocked"
    /\ pc[c] = "wait" => actions = <<>> /\ is_active
    /\ pc[c] = "take" => actions # <<>> \/ ~is_active
    /\ pc[c] = "exited" => actions = <<>> /\ ~is_active
    /\ func[c] # NoAction <=> pc[c] = "call"

\* How far the owner's lifetime is.
OwnerInv ==
  /\ is_active <=> owner \in {"ctor", "open"}
  /\ owner # "ctor" => Consumers # {}
  /\ owner = "destroyed" => \A c \in Consumers : pc[c] = "exited"

\* ActionsAccounted over positions and consumers, without derived sets.
Accounted ==
  /\ \A i, j \in 1 .. Len(actions) : actions[i] = actions[j] => i = j
  /\ \A i \in 1 .. Len(actions) : future[actions[i]] = "pending"
  /\ \A i \in 1 .. Len(actions), c \in Consumers : func[c] # actions[i]
  /\ \A c, d \in Consumers : func[c] # NoAction /\ func[c] = func[d] => c = d
  /\ \A c \in Consumers : func[c] # NoAction => future[func[c]] = "pending"
  /\ \A a \in Actions : future[a] = "pending" =>
       \/ \E i \in 1 .. Len(actions) : actions[i] = a
       \/ \E c \in Consumers : func[c] = a

IInv == TypeOK /\ MutexInv /\ PopInv /\ OwnerInv /\ NoLostWakeup /\ Accounted

\* The empty queue has no positions; a non-empty one has a head and a tail.
LEMMA QueueFacts ==
  ASSUME NEW s \in Seq(Actions)
  PROVE  /\ s = <<>> <=> Len(s) = 0
         /\ s # <<>> => /\ Head(s) = s[1] /\ Head(s) \in Actions /\ 1 \in 1 .. Len(s)
                        /\ Tail(s) \in Seq(Actions) /\ Len(Tail(s)) = Len(s) - 1
                        /\ \A i \in 1 .. Len(Tail(s)) : Tail(s)[i] = s[i + 1] /\ i + 1 \in 1 .. Len(s)
                        /\ \A i \in 1 .. Len(s) : i # 1 => i - 1 \in 1 .. Len(Tail(s))
OBVIOUS

\* Appending keeps the old positions and adds one.
LEMMA AppendFacts ==
  ASSUME NEW s \in Seq(Actions), NEW a \in Actions
  PROVE  /\ Append(s, a) \in Seq(Actions) /\ Append(s, a) # <<>>
         /\ Len(Append(s, a)) = Len(s) + 1 /\ Len(s) \in Nat
         /\ \A i \in 1 .. Len(s) : Append(s, a)[i] = s[i]
         /\ Append(s, a)[Len(s) + 1] = a
OBVIOUS

\* The initial states satisfy the invariant.
LEMMA InitIInv == Init => IInv
<1> SUFFICES ASSUME Init PROVE IInv
  BY Zenon
<1>1. TypeOK BY DEF Init, TypeOK, ConsumerPC, OwnerPC
<1>2. MutexInv /\ PopInv /\ OwnerInv /\ NoLostWakeup
  BY ThreadAssumption, Zenon DEF Init, MutexInv, PopInv, OwnerInv, NoLostWakeup
<1>3. Accounted BY DEF Init, Accounted
<1> QED BY <1>1, <1>2, <1>3, Zenon DEF IInv

\* A step that leaves the queue, the functions and the futures alone.
LEMMA AccountedUnchanged ==
  ASSUME Accounted, UNCHANGED <<actions, func, future>>
  PROVE  Accounted'
BY Zenon DEF Accounted

\* Steps of the owner and of its callers.
LEMMA OwnerPreserves ==
  ASSUME IInv,
         \/ \E c \in Consumers : Create(c)
         \/ \E a \in Actions : Run(a)
         \/ Close \/ CloseNotify \/ JoinWorkers
  PROVE  IInv'
<1> USE ThreadAssumption, ActionAssumption DEF IInv
<1>1. ASSUME NEW c \in Consumers, Create(c) PROVE IInv'
  <2> USE <1>1 DEF Create
  <2>1. TypeOK' BY Zenon DEF TypeOK, ConsumerPC, OwnerPC
  <2>2. MutexInv' BY Zenon DEF TypeOK, MutexInv
  <2>3. PopInv' BY Zenon DEF TypeOK, PopInv
  <2>4. OwnerInv' BY Zenon DEF OwnerInv
  <2>5. NoLostWakeup' BY Zenon DEF NoLostWakeup, OwnerInv
  <2> QED BY <2>1, <2>2, <2>3, <2>4, <2>5, AccountedUnchanged, Zenon
<1>2. ASSUME NEW a \in Actions, Run(a) PROVE IInv'
  <2> USE <1>2 DEF Run
  <2>0. /\ actions \in Seq(Actions) /\ actions' \in Seq(Actions) /\ actions' # <<>>
        /\ Len(actions') = Len(actions) + 1 /\ Len(actions) \in Nat
        /\ \A i \in 1 .. Len(actions) : actions'[i] = actions[i]
        /\ actions'[Len(actions) + 1] = a
        /\ future' = [future EXCEPT ![a] = "pending"] /\ future[a] = "none"
        /\ func' = func
    BY AppendFacts DEF TypeOK
  <2>1. TypeOK' BY <2>0, Zenon DEF TypeOK
  <2>2. MutexInv' BY Zenon DEF MutexInv
  <2>3. PopInv'
    <3>1. \A c \in Consumers : pc[c] \notin {"wait", "exited"}
      BY Zenon DEF MutexInv, PopInv, OwnerInv
    <3> QED BY <2>0, <3>1, Zenon DEF PopInv
  <2>4. OwnerInv' /\ NoLostWakeup' BY Zenon DEF OwnerInv, NoLostWakeup
  <2>5. Accounted'
    <3> HIDE DEF Run
    <3>1. /\ \A i \in 1 .. Len(actions) : actions[i] \in Actions /\ actions[i] # a
          /\ \A c \in Consumers : func[c] # a
      BY <2>0 DEF Accounted
    <3>2. \A i \in 1 .. Len(actions') : i \in 1 .. Len(actions) \/ i = Len(actions) + 1
      BY <2>0
    <3>3. \A i, j \in 1 .. Len(actions') : actions'[i] = actions'[j] => i = j
      BY <2>0, <3>1, <3>2 DEF Accounted
    <3>4. \A i \in 1 .. Len(actions') : future'[actions'[i]] = "pending"
      BY <2>0, <3>1, <3>2 DEF Accounted, TypeOK
    <3>5. \A i \in 1 .. Len(actions'), c \in Consumers : func[c] # actions'[i]
      BY <2>0, <3>1, <3>2 DEF Accounted
    <3>6. \A c \in Consumers : func[c] # NoAction => future'[func[c]] = "pending"
      BY <2>0, <3>1 DEF Accounted, TypeOK
    <3>7. ASSUME NEW b \in Actions, future'[b] = "pending"
          PROVE  \/ \E i \in 1 .. Len(actions') : actions'[i] = b
                 \/ \E c \in Consumers : func[c] = b
      <4>1. CASE b = a BY <2>0, <4>1
      <4>2. CASE b # a
        <5>1. future[b] = "pending" BY <2>0, <3>7, <4>2, Zenon DEF TypeOK
        <5>2. CASE \E c \in Consumers : func[c] = b BY <5>2, Zenon
        <5>3. CASE \E i \in 1 .. Len(actions) : actions[i] = b
          <6>1. PICK i \in 1 .. Len(actions) : actions[i] = b BY <5>3, Zenon
          <6>2. i \in 1 .. Len(actions') /\ actions'[i] = b BY <2>0, <6>1
          <6> QED BY <6>2, Zenon
        <5> QED BY <5>1, <5>2, <5>3, Zenon DEF Accounted
      <4> QED BY <4>1, <4>2, Zenon
    <3> QED BY <2>0, <3>3, <3>4, <3>5, <3>6, <3>7 DEF Accounted
  <2> QED BY <2>1, <2>2, <2>3, <2>4, <2>5, Zenon
<1>3. ASSUME Close PROVE IInv'
  <2> USE <1>3 DEF Close
  <2>1. TypeOK' BY Zenon DEF TypeOK, OwnerPC
  <2>2. MutexInv' /\ OwnerInv' /\ NoLostWakeup' BY Zenon DEF MutexInv, OwnerInv, NoLostWakeup
  <2>3. PopInv' BY Zenon DEF MutexInv, PopInv
  <2> QED BY <2>1, <2>2, <2>3, AccountedUnchanged, Zenon
<1>4. ASSUME CloseNotify PROVE IInv'
  <2> USE <1>4 DEF CloseNotify
  <2>1. TypeOK' BY Zenon DEF TypeOK, OwnerPC
  <2>2. MutexInv' /\ OwnerInv' /\ NoLostWakeup' BY Zenon DEF MutexInv, OwnerInv, NoLostWakeup
  <2>3. PopInv' BY Zenon DEF PopInv
  <2> QED BY <2>1, <2>2, <2>3, AccountedUnchanged, Zenon
<1>5. ASSUME JoinWorkers PROVE IInv'
  <2> USE <1>5 DEF JoinWorkers
  <2>1. TypeOK' BY Zenon DEF TypeOK, OwnerPC
  <2>2. MutexInv' /\ OwnerInv' /\ NoLostWakeup' BY Zenon DEF MutexInv, OwnerInv, NoLostWakeup
  <2>3. PopInv' BY Zenon DEF PopInv
  <2> QED BY <2>1, <2>2, <2>3, AccountedUnchanged, Zenon
<1> QED BY <1>1, <1>2, <1>3, <1>4, <1>5, Zenon

\* Steps of a consumer.
LEMMA ConsumerPreserves ==
  ASSUME IInv, NEW c \in Consumers, ConsumerStep(c) \/ SpuriousWakeup(c)
  PROVE  IInv'
<1> USE ThreadAssumption, ActionAssumption DEF IInv
<1>1. CASE PopLock(c) \/ PopWake(c)
  <2> USE <1>1 DEF PopLock, PopWake
  <2>1. TypeOK' BY Zenon DEF TypeOK, ConsumerPC
  <2>2. MutexInv' BY Zenon DEF TypeOK, MutexInv
  <2>3. PopInv' BY Zenon DEF TypeOK, PopInv
  <2>4. OwnerInv' /\ NoLostWakeup' BY DEF TypeOK, OwnerInv, NoLostWakeup
  <2> QED BY <2>1, <2>2, <2>3, <2>4, AccountedUnchanged, Zenon
<1>2. CASE PopCheck(c)
  <2> USE <1>2 DEF PopCheck
  <2>1. TypeOK' BY Zenon DEF TypeOK, ConsumerPC
  <2>2. MutexInv' BY Zenon DEF TypeOK, MutexInv
  <2>3. PopInv' BY Zenon DEF TypeOK, PopInv
  <2>4. OwnerInv' /\ NoLostWakeup' BY Zenon DEF TypeOK, OwnerInv, NoLostWakeup
  <2> QED BY <2>1, <2>2, <2>3, <2>4, AccountedUnchanged, Zenon
<1>3. CASE PopWait(c)
  <2> USE <1>3 DEF PopWait
  <2>1. TypeOK' BY Zenon DEF TypeOK, ConsumerPC
  <2>2. MutexInv' BY Zenon DEF TypeOK, MutexInv
  <2>3. PopInv' BY Zenon DEF TypeOK, PopInv
  <2>4. OwnerInv' BY Zenon DEF TypeOK, OwnerInv
  <2>5. NoLostWakeup' BY Zenon DEF PopInv, NoLostWakeup
  <2> QED BY <2>1, <2>2, <2>3, <2>4, <2>5, AccountedUnchanged, Zenon
<1>4. CASE SpuriousWakeup(c)
  <2> USE <1>4 DEF SpuriousWakeup
  <2>1. TypeOK' BY Zenon DEF TypeOK
  <2>2. MutexInv' /\ PopInv' /\ OwnerInv' /\ NoLostWakeup'
    BY Zenon DEF MutexInv, PopInv, OwnerInv, NoLostWakeup
  <2> QED BY <2>1, <2>2, AccountedUnchanged, Zenon
<1>5. CASE PopTake(c) /\ actions = <<>>
  <2>1. /\ ~is_active /\ pc[c] = "take" /\ mutex' = NoThread
        /\ pc' = [pc EXCEPT ![c] = "exited"]
        /\ UNCHANGED <<actions, func, is_active, waiting, future, owner>>
    BY <1>5, Zenon DEF PopTake, PopInv
  <2>2. TypeOK' BY <2>1, Zenon DEF TypeOK, ConsumerPC
  <2>3. MutexInv' BY <2>1, Zenon DEF TypeOK, MutexInv
  <2>4. PopInv' BY <1>5, <2>1, Zenon DEF TypeOK, PopInv
  <2>5. OwnerInv' /\ NoLostWakeup' BY <2>1, Zenon DEF TypeOK, OwnerInv, NoLostWakeup
  <2> QED BY <2>1, <2>2, <2>3, <2>4, <2>5, AccountedUnchanged, Zenon
<1>6. CASE PopTake(c) /\ actions # <<>>
  <2>1. /\ pc[c] = "take" /\ mutex' = NoThread /\ pc' = [pc EXCEPT ![c] = "call"]
        /\ func' = [func EXCEPT ![c] = actions[1]] /\ actions' = Tail(actions)
        /\ UNCHANGED <<is_active, waiting, future, owner>>
    BY <1>6, QueueFacts, Zenon DEF PopTake, TypeOK
  <2>2. /\ actions' \in Seq(Actions) /\ actions[1] \in Actions /\ 1 \in 1 .. Len(actions)
        /\ \A i \in 1 .. Len(actions') : actions'[i] = actions[i + 1] /\ i + 1 \in 1 .. Len(actions)
        /\ \A i \in 1 .. Len(actions) : i # 1 => i - 1 \in 1 .. Len(actions')
        /\ Len(actions) \in Nat /\ Len(actions') \in Nat
    BY <1>6, <2>1, QueueFacts DEF TypeOK
  <2>3. TypeOK' BY <2>1, <2>2, Zenon DEF TypeOK, ConsumerPC
  <2>4. MutexInv' BY <2>1, Zenon DEF TypeOK, MutexInv
  <2>5. PopInv'
    <3>1. \A d \in Consumers \ {c} : pc[d] \notin {"wait", "take", "exited"}
      BY <1>6, <2>1, Zenon DEF MutexInv, PopInv
    <3> QED BY <2>1, <2>2, <3>1, Zenon DEF TypeOK, PopInv
  <2>6. OwnerInv' BY <2>1, Zenon DEF TypeOK, OwnerInv
  <2>7. NoLostWakeup' BY <1>6, <2>1, Zenon DEF NoLostWakeup
  <2>8. Accounted'
    <3>0. func[c] = NoAction BY <2>1, Zenon DEF PopInv
    <3>1. \A i \in 1 .. Len(actions') : actions'[i] # actions[1]
      BY <2>2 DEF Accounted
    <3>2. \A i, j \in 1 .. Len(actions') : actions'[i] = actions'[j] => i = j
      <4>1. ASSUME NEW i \in 1 .. Len(actions'), NEW j \in 1 .. Len(actions'),
                   actions'[i] = actions'[j]
            PROVE  i = j
        <5>1. i + 1 = j + 1 BY <2>2, <4>1 DEF Accounted
        <5> QED BY <2>2, <5>1
      <4> QED BY <4>1, Zenon
    <3>3. \A i \in 1 .. Len(actions') : future[actions'[i]] = "pending"
      BY <2>2 DEF Accounted
    <3>4. \A i \in 1 .. Len(actions'), d \in Consumers : func'[d] # actions'[i]
      BY <2>1, <2>2, <3>1 DEF Accounted, TypeOK
    <3>5. \A d, e \in Consumers : func'[d] # NoAction /\ func'[d] = func'[e] => d = e
      BY <2>1, <2>2 DEF Accounted, TypeOK
    <3>6. \A d \in Consumers : func'[d] # NoAction => future[func'[d]] = "pending"
      BY <2>1, <2>2, Zenon DEF Accounted, TypeOK
    <3>7. ASSUME NEW a \in Actions, future[a] = "pending"
          PROVE  \/ \E i \in 1 .. Len(actions') : actions'[i] = a
                 \/ \E d \in Consumers : func'[d] = a
      <4>1. CASE \E d \in Consumers : func[d] = a
        BY <2>1, <3>0, <4>1, Zenon DEF TypeOK
      <4>2. CASE \E i \in 1 .. Len(actions) : actions[i] = a
        <5>1. PICK i \in 1 .. Len(actions) : actions[i] = a BY <4>2, Zenon
        <5>2. CASE i = 1 BY <2>1, <5>1, <5>2, Zenon DEF TypeOK
        <5>3. CASE i # 1
          <6>1. i - 1 \in 1 .. Len(actions') /\ (i - 1) + 1 = i BY <2>2, <5>3
          <6>2. actions'[i - 1] = a BY <2>2, <5>1, <6>1, Zenon
          <6> QED BY <6>1, <6>2, Zenon
        <5> QED BY <5>2, <5>3, Zenon
      <4> QED BY <3>7, <4>1, <4>2, Zenon DEF Accounted
    <3> QED BY <2>1, <3>2, <3>3, <3>4, <3>5, <3>6, <3>7, Zenon DEF Accounted
  <2> QED BY <2>3, <2>4, <2>5, <2>6, <2>7, <2>8, Zenon
<1>7. CASE Call(c)
  <2>0. PICK outcome \in {"ready", "exception"} : future' = [future EXCEPT ![func[c]] = outcome]
    BY <1>7, Zenon DEF Call
  <2>1. /\ pc[c] = "call" /\ pc' = [pc EXCEPT ![c] = "lock"]
        /\ func' = [func EXCEPT ![c] = NoAction]
        /\ UNCHANGED <<actions, is_active, mutex, waiting, owner>>
        /\ func[c] \in Actions
    BY <1>7, Zenon DEF Call, PopInv, TypeOK
  <2>2. TypeOK' BY <2>0, <2>1, Zenon DEF TypeOK, ConsumerPC
  <2>3. MutexInv' BY <2>1, Zenon DEF TypeOK, MutexInv
  <2>4. PopInv' BY <2>1, Zenon DEF TypeOK, PopInv
  <2>5. OwnerInv' BY <2>1, Zenon DEF TypeOK, OwnerInv
  <2>6. NoLostWakeup' BY <2>1, Zenon DEF NoLostWakeup
  <2>7. Accounted'
    <3>1. \A i \in 1 .. Len(actions) : actions[i] \in Actions /\ actions[i] # func[c]
      BY DEF Accounted, TypeOK
    <3>2. \A d \in Consumers : d # c => func'[d] = func[d] /\ func[d] # func[c]
      BY <2>1 DEF Accounted, TypeOK
    <3>3. func'[c] = NoAction BY <2>1, Zenon DEF TypeOK
    <3>4. \A a \in Actions : a # func[c] => future'[a] = future[a]
      BY <2>0, <2>1, Zenon DEF TypeOK
    <3>5. future'[func[c]] # "pending" BY <2>0, <2>1, Zenon DEF TypeOK
    <3>6. \A i \in 1 .. Len(actions) : future'[actions[i]] = "pending"
      BY <3>1, <3>4, Zenon DEF Accounted
    <3>7. \A i \in 1 .. Len(actions), d \in Consumers : func'[d] # actions[i]
      BY <3>1, <3>2, <3>3 DEF Accounted
    <3>8. \A d, e \in Consumers : func'[d] # NoAction /\ func'[d] = func'[e] => d = e
      BY <3>2, <3>3 DEF Accounted
    <3>9. \A d \in Consumers : func'[d] # NoAction => future'[func'[d]] = "pending"
      BY <3>2, <3>3, <3>4 DEF Accounted, TypeOK
    <3>10. ASSUME NEW a \in Actions, future'[a] = "pending"
           PROVE  \/ \E i \in 1 .. Len(actions) : actions[i] = a
                  \/ \E d \in Consumers : func'[d] = a
      <4>1. a # func[c] /\ future[a] = "pending" BY <3>4, <3>5, <3>10, Zenon
      <4> QED BY <3>2, <4>1, Zenon DEF Accounted
    <3> QED BY <2>1, <3>6, <3>7, <3>8, <3>9, <3>10 DEF Accounted
  <2> QED BY <2>2, <2>3, <2>4, <2>5, <2>6, <2>7, Zenon
<1> QED BY <1>1, <1>2, <1>3, <1>4, <1>5, <1>6, <1>7, Zenon DEF ConsumerStep

\* Every step of the pool keeps the invariant.
LEMMA NextPreserves == IInv /\ [Next]_vars => IInv'
<1> SUFFICES ASSUME IInv, [Next]_vars PROVE IInv'
  BY Zenon
<1>1. CASE UNCHANGED vars
  BY <1>1 DEF vars, IInv, TypeOK, MutexInv, PopInv, OwnerInv, NoLostWakeup, Accounted
<1>2. CASE Destroyed BY <1>1, <1>2, Zenon DEF Destroyed
<1> QED BY <1>1, <1>2, OwnerPreserves, ConsumerPreserves, Zenon DEF Next

\* The inductive invariant holds of every behaviour.
THEOREM Invariant == Spec => []IInv
BY InitIInv, NextPreserves, PTL DEF Spec

\* Every variable keeps its type: a consumer that calls an action never takes
\* the process down, the packaged_task turns an exception into its future.
THEOREM TypeCorrect == Spec => []TypeOK
<1>1. IInv => TypeOK BY Zenon DEF IInv
<1> QED BY <1>1, Invariant, PTL

\* pop and close lose no wakeup, whatever the number of consumers: nobody
\* sleeps un-notified while there is work or while the pool is closed.
THEOREM WakeupsAreNotLost == Spec => []NoLostWakeup
<1>1. IInv => NoLostWakeup BY Zenon DEF IInv
<1> QED BY <1>1, Invariant, PTL

\* push, pop and start neither lose nor duplicate a submitted action.
THEOREM ActionsAreAccountedFor == Spec => []ActionsAccounted
<1>1. IInv => ActionsAccounted
  BY ActionAssumption DEF IInv, TypeOK, Accounted, ActionsAccounted, Queued, Holders
<1> QED BY <1>1, Invariant, PTL

\* The destructor returns only after everything that was submitted has ended.
THEOREM PoolIsDrained == Spec => []DrainedWhenDestroyed
<1>1. ASSUME IInv PROVE DrainedWhenDestroyed
  <2>1. SUFFICES ASSUME owner = "destroyed", NEW a \in Actions, future[a] = "pending"
                 PROVE  FALSE
    BY Zenon DEF DrainedWhenDestroyed
  <2>2. PICK c \in Consumers : pc[c] = "exited" BY <1>1, <2>1, Zenon DEF IInv, OwnerInv
  <2>3. actions = <<>> BY <1>1, <2>2, Zenon DEF IInv, PopInv
  <2>4. \A d \in Consumers : func[d] = NoAction
    BY <1>1, <2>1, Zenon DEF IInv, OwnerInv, PopInv
  <2> QED BY <1>1, <2>1, <2>3, <2>4, ActionAssumption DEF IInv, Accounted
<1> QED BY <1>1, Invariant, PTL

-----------------------------------------------------------------------------
(* The pool takes only steps of TaskPool.  What TaskPool says of fairness   *)
(* is left to TLC.                                                          *)

\* The actions that consumers are in, as TaskPool sees them.
Running == {func[c] : c \in Consumers} \ {NoAction}

\* Steps that TaskPool does not see leave what it sees alone.
LEMMA HiddenSteps ==
  ASSUME UNCHANGED <<actions, func, future>>,
         owner' = owner \/ (owner \in {"ctor", "open"} /\ owner' \in {"ctor", "open"})
                        \/ (owner \in {"notify", "join"} /\ owner' \in {"notify", "join"})
  PROVE  UNCHANGED Pool!poolVars
BY Zenon DEF Pool!poolVars

\* A consumer that has nothing in its hands leaves room for one more action.
LEMMA RoomToStart ==
  ASSUME IsFiniteSet(Consumers), NEW c \in Consumers, func[c] = NoAction
  PROVE  Cardinality(Running) < Cardinality(Consumers)
<1> DEFINE Others == Consumers \ {c}
           Called == {func[d] : d \in Others}
<1>1. /\ IsFiniteSet(Others) /\ Cardinality(Others) = Cardinality(Consumers) - 1
      /\ Cardinality(Consumers) \in Nat
  BY FS_RemoveElement, FS_CardinalityType, Zenon
<1>2. IsFiniteSet(Called) /\ Cardinality(Called) <= Cardinality(Others)
  <2>1. [d \in Others |-> func[d]] \in Surjection(Others, Called) BY Zenon DEF Surjection
  <2> HIDE DEF Others, Called
  <2> QED BY <1>1, <2>1, FS_Surjection, Zenon
<1>3. Running \in SUBSET Called BY Zenon DEF Running
<1>4. IsFiniteSet(Running) /\ Cardinality(Running) <= Cardinality(Called)
  BY <1>2, <1>3, FS_Subset, Zenon
<1>5. Cardinality(Called) \in Nat /\ Cardinality(Running) \in Nat
  BY <1>2, <1>4, FS_CardinalityType, Zenon
<1> QED
  <2> HIDE DEF Others, Called, Running
  <2> QED BY <1>1, <1>2, <1>4, <1>5

\* The initial state of the pool is one of TaskPool.
LEMMA InitPool == Init => Pool!Init
BY Zenon DEF Init, Pool!Init

\* Every step of the pool is a step of TaskPool or one it does not see.
LEMMA StepPool ==
  ASSUME IsFiniteSet(Consumers), IInv, [Next]_vars
  PROVE  [Pool!Next]_(Pool!poolVars)
<1> USE DEF IInv
<1>1. CASE UNCHANGED vars \/ Destroyed \/ CloseNotify \/ \E c \in Consumers :
             Create(c) \/ PopLock(c) \/ PopCheck(c) \/ PopWait(c) \/ PopWake(c) \/ SpuriousWakeup(c)
  <2>1. UNCHANGED <<actions, func, future>>
    BY <1>1, Zenon DEF vars, Destroyed, CloseNotify, Create, PopLock, PopCheck, PopWait, PopWake, SpuriousWakeup
  <2>2. owner' = owner \/ (owner \in {"ctor", "open"} /\ owner' \in {"ctor", "open"})
                       \/ (owner \in {"notify", "join"} /\ owner' \in {"notify", "join"})
    BY <1>1, Zenon DEF vars, Destroyed, CloseNotify, Create, PopLock, PopCheck, PopWait, PopWake, SpuriousWakeup
  <2> QED BY <2>1, <2>2, HiddenSteps, Zenon
<1>2. ASSUME NEW a \in Actions, Run(a) PROVE Pool!Next
  <2>1. Pool!Submit(a) BY <1>2, Zenon DEF Run, Pool!Submit
  <2> QED BY <2>1, Zenon DEF Pool!Next
<1>3. CASE Close
  <2>1. Pool!Shut BY <1>3, Zenon DEF Close, Pool!Shut
  <2> QED BY <2>1, Zenon DEF Pool!Next
<1>4. CASE JoinWorkers
  <2>1. \A c \in Consumers : func[c] = NoAction BY <1>4, Zenon DEF JoinWorkers, PopInv
  <2>2. actions = <<>> BY <1>4, Zenon DEF JoinWorkers, PopInv, OwnerInv
  <2>3. Pool!Vanish BY <1>4, <2>1, <2>2, Zenon DEF JoinWorkers, Pool!Vanish
  <2> QED BY <2>3, Zenon DEF Pool!Next
<1>5. ASSUME NEW c \in Consumers, PopTake(c) PROVE [Pool!Next]_(Pool!poolVars)
  <2>1. CASE actions = <<>>
    <3>1. UNCHANGED <<actions, func, future, owner>>
      BY <1>5, <2>1, Zenon DEF PopTake, PopInv
    <3> QED BY <3>1, HiddenSteps, Zenon
  <2>2. CASE actions # <<>>
    <3>1. /\ func' = [func EXCEPT ![c] = Head(actions)] /\ actions' = Tail(actions)
          /\ UNCHANGED <<future, owner>> /\ func[c] = NoAction
      BY <1>5, <2>2, Zenon DEF PopTake, PopInv
    <3>2. Head(actions) = actions[1] /\ Head(actions) \in Actions /\ 1 \in 1 .. Len(actions)
      BY <2>2, QueueFacts, Zenon DEF TypeOK
    <3>3. Head(actions) \notin Running BY <3>2 DEF Running, Accounted
    <3>4. Running' = Running \cup {Head(actions)}
      BY <3>1, <3>2, ActionAssumption, Zenon DEF Running, TypeOK
    <3>5. Cardinality(Running) < Cardinality(Consumers) BY <3>1, RoomToStart, Zenon
    <3>6. Pool!Cardinality(Running) = Cardinality(Running)
      BY Zenon DEF Pool!Cardinality, Cardinality, Pool!IsFiniteSet, IsFiniteSet
    <3>7. Pool!Cardinality(Running) < Cardinality(Consumers) BY <3>5, <3>6, Zenon
    <3>8. Pool!Start BY <2>2, <3>1, <3>3, <3>4, <3>7, Zenon DEF Running, Pool!Start
    <3> QED BY <3>8, Zenon DEF Pool!Next
  <2> QED BY <2>1, <2>2, Zenon
<1>6. ASSUME NEW c \in Consumers, Call(c) PROVE Pool!Next
  <2>1. /\ func[c] \in Actions /\ func' = [func EXCEPT ![c] = NoAction]
        /\ \E o \in {"ready", "exception"} : future' = [future EXCEPT ![func[c]] = o]
        /\ UNCHANGED <<actions, owner>>
    BY <1>6, Zenon DEF Call, PopInv, TypeOK
  <2>2. PICK a \in Actions : a = func[c] BY <2>1, Zenon
  <2>3. a \in Running BY <2>2, ActionAssumption, Zenon DEF Running
  <2>4. Running' = Running \ {a}
    <3>1. \A d \in Consumers : d # c => func'[d] = func[d] /\ func[d] # a
      BY <2>1, <2>2, ActionAssumption DEF Accounted, TypeOK
    <3>2. func'[c] = NoAction BY <2>1, Zenon DEF TypeOK
    <3> QED BY <2>2, <3>1, <3>2, Zenon DEF Running
  <2>5. Pool!Finish(a) BY <2>1, <2>2, <2>3, <2>4, Zenon DEF Running, Pool!Finish
  <2> QED BY <2>5, Zenon DEF Pool!Next
<1> QED BY <1>1, <1>2, <1>3, <1>4, <1>5, <1>6, Zenon DEF Next, ConsumerStep

\* For every number of consumers: actions start in the order of submission, each
\* once, no more at a time than there are consumers, each ends once, and the pool
\* is gone only when all have ended.  This is TaskPool without its fairness.
THEOREM PoolTakesItsSteps ==
  ASSUME IsFiniteSet(Consumers)
  PROVE  Spec => Pool!Init /\ [][Pool!Next]_(Pool!poolVars)
<1>1. Init => Pool!Init BY InitPool, Zenon
<1>2. IInv /\ [Next]_vars => [Pool!Next]_(Pool!poolVars) BY StepPool, Zenon
<1> QED BY <1>1, <1>2, Invariant, PTL DEF Spec

-----------------------------------------------------------------------------
(* The scheduler of compute units.                                         *)

\* The drivers number their units from 0, and a mask names units of the device.
Masks == Units \subseteq Nat /\ 0 \in Units /\ (\A t \in Threads : Request[t] \subseteq Units)

\* A unit whose release set the flag, which no waiter has cleared since: the
\* flag is still set.  Who fell asleep found it clear, so a sleeper beside a set
\* flag is about to be woken by the release that set it.
FlagInv ==
  /\ \A u \in Units : freed[u] = "signalled" => wait_flag = 1
  /\ \A t \in Threads : at[t] = "asleep" /\ wait_flag = 1 => \E s \in Threads : at[s] = "wake"

SchedulerInv == SchedulerTypeOK /\ FlagInv

\* Sets of natural numbers have a smallest element: Min is defined for them.
LEMMA MinInSet ==
  ASSUME NEW S, S \subseteq Nat, S # {}
  PROVE  Min(S) \in S
<1> DEFINE Less == {ss \in Nat \X Nat : ss[1] < ss[2]}
<1>1. IsWellFoundedOn(Less, Nat) BY NatLessThanWellFounded, Zenon DEF OpToRel
<1>2. PICK x \in S : \A y \in S : ~(<<y, x>> \in Less)
  <2> HIDE DEF Less
  <2> QED BY <1>1, WFMin, Zenon
<1>3. \A y \in S : x =< y
  <2> TAKE y \in S
  <2>1. <<y, x>> \in Nat \X Nat BY Zenon
  <2>2. ~(y < x) BY <1>2, <2>1, Zenon
  <2> QED BY <2>2
<1> QED BY <1>3, Zenon DEF Min

\* The initial states satisfy the invariant.
LEMMA InitSchedulerInv == Masks /\ MaxDeaths \in Nat /\ SchedulerInit => SchedulerInv
BY DEF Masks, SchedulerInit, SchedulerInv, SchedulerTypeOK, FlagInv

\* A thread takes a unit that nobody has, or goes to wait.
LEMMA FindPreserves ==
  ASSUME Masks, SchedulerInv, NEW t \in Threads, pnm_sched_find_acquire_free_cunit(t)
  PROVE  SchedulerInv'
<1> USE DEF SchedulerInv
<1>1. CASE Free(t) = {}
  <2>1. /\ at[t] = "find" /\ at' = [at EXCEPT ![t] = "retry"]
        /\ UNCHANGED <<unit, busy, wait_flag, has_timeout, freed, deaths>>
    BY <1>1, Zenon DEF pnm_sched_find_acquire_free_cunit
  <2>2. SchedulerTypeOK' BY <2>1, Zenon DEF SchedulerTypeOK
  <2>3. FlagInv' BY <2>1, Zenon DEF SchedulerTypeOK, FlagInv
  <2> QED BY <2>2, <2>3, Zenon
<1>2. CASE Free(t) # {}
  <2>1. PICK m : m = Min(Free(t)) BY Zenon
  <2>2. Free(t) \subseteq Nat BY Zenon DEF Masks, Free
  <2>3. m \in Free(t) BY <1>2, <2>1, <2>2, MinInSet, Zenon
  <2>4. m \in Units /\ m \notin busy BY <2>3, Zenon DEF Masks, Free
  <2>5. /\ at[t] = "find" /\ at' = [at EXCEPT ![t] = "held"]
        /\ unit' = [unit EXCEPT ![t] = m] /\ busy' = busy \cup {m}
        /\ UNCHANGED <<wait_flag, has_timeout, freed, deaths>>
    BY <1>2, <2>1, Zenon DEF pnm_sched_find_acquire_free_cunit
  <2>6. SchedulerTypeOK' BY <2>4, <2>5, Zenon DEF SchedulerTypeOK
  <2>7. FlagInv' BY <2>5, Zenon DEF SchedulerTypeOK, FlagInv
  <2> QED BY <2>6, <2>7, Zenon
<1> QED BY <1>1, <1>2, Zenon

\* The steps of a waiter.
LEMMA WaitPreserves ==
  ASSUME SchedulerInv, NEW t \in Threads,
         Ask(t) \/ pnm_sched_wait_for_cunit(t) \/ wait_event(t) \/ hrtimeout(t)
  PROVE  SchedulerInv'
<1> USE DEF SchedulerInv
<1>1. CASE Ask(t) \/ hrtimeout(t)
  <2>1. /\ at[t] \in {"out", "asleep"} /\ at' = [at EXCEPT ![t] = "find"]
        /\ UNCHANGED <<unit, busy, wait_flag, has_timeout, freed, deaths>>
    BY <1>1, Zenon DEF Ask, hrtimeout
  <2>2. SchedulerTypeOK' BY <2>1, Zenon DEF SchedulerTypeOK
  <2>3. FlagInv' BY <2>1, Zenon DEF SchedulerTypeOK, FlagInv
  <2> QED BY <2>2, <2>3, Zenon
<1>2. CASE pnm_sched_wait_for_cunit(t)
  <2> USE <1>2 DEF pnm_sched_wait_for_cunit
  <2>1. SchedulerTypeOK' BY DEF SchedulerTypeOK
  <2>2. FlagInv' BY DEF SchedulerTypeOK, FlagInv
  <2> QED BY <2>1, <2>2, Zenon
<1>3. CASE wait_event(t)
  <2> USE <1>3 DEF wait_event
  <2>1. SchedulerTypeOK' BY Zenon DEF SchedulerTypeOK
  <2>2. FlagInv' BY Zenon DEF SchedulerTypeOK, FlagInv
  <2> QED BY <2>1, <2>2, Zenon
<1> QED BY <1>1, <1>2, <1>3, Zenon

\* The steps of a release, and the end of a process.
LEMMA ReleasePreserves ==
  ASSUME SchedulerInv, NEW t \in Threads,
         \/ pnm_sched_release_cunit(t) \/ pnm_sched_set_flag(t)
         \/ wake_up_interruptible(t) \/ release_process(t),
         MaxDeaths \in Nat
  PROVE  SchedulerInv'
<1> USE DEF SchedulerInv
<1>1. CASE pnm_sched_release_cunit(t)
  <2> USE <1>1 DEF pnm_sched_release_cunit
  <2>1. SchedulerTypeOK' BY Zenon DEF SchedulerTypeOK
  <2>2. FlagInv' BY Zenon DEF SchedulerTypeOK, FlagInv
  <2> QED BY <2>1, <2>2, Zenon
<1>2. CASE pnm_sched_set_flag(t)
  <2> USE <1>2 DEF pnm_sched_set_flag
  <2>1. SchedulerTypeOK' BY DEF SchedulerTypeOK
  <2>2. FlagInv' BY Zenon DEF SchedulerTypeOK, FlagInv
  <2> QED BY <2>1, <2>2, Zenon
<1>3. CASE wake_up_interruptible(t)
  <2> USE <1>3 DEF wake_up_interruptible
  <2>1. SchedulerTypeOK' BY Zenon DEF SchedulerTypeOK
  <2>2. FlagInv' BY Zenon DEF SchedulerTypeOK, FlagInv
  <2> QED BY <2>1, <2>2, Zenon
<1>4. CASE release_process(t)
  <2> USE <1>4 DEF release_process
  <2>1. SchedulerTypeOK' BY DEF SchedulerTypeOK
  <2>2. FlagInv' BY Zenon DEF SchedulerTypeOK, FlagInv
  <2> QED BY <2>1, <2>2, Zenon
<1> QED BY <1>1, <1>2, <1>3, <1>4, Zenon

\* The invariant holds of every behaviour.
THEOREM SchedulerInvariant ==
  ASSUME Masks, MaxDeaths \in Nat
  PROVE  SchedulerSpec => []SchedulerInv
<1>1. SchedulerInit => SchedulerInv BY InitSchedulerInv, Zenon
<1>2. SchedulerInv /\ [SchedulerNext]_schedulerVars => SchedulerInv'
  <2> SUFFICES ASSUME SchedulerInv, [SchedulerNext]_schedulerVars PROVE SchedulerInv'
    BY Zenon
  <2>1. CASE UNCHANGED schedulerVars
    BY <2>1, Zenon DEF schedulerVars, SchedulerInv, SchedulerTypeOK, FlagInv
  <2> QED BY <2>1, FindPreserves, WaitPreserves, ReleasePreserves, Zenon DEF SchedulerNext, Ioctl
<1> QED BY <1>1, <1>2, PTL DEF SchedulerSpec

\* Every variable keeps its type, and no two threads have the same unit: the
\* search and the release are each under the scheduler's mutex.
THEOREM UnitsAreExclusive ==
  ASSUME Masks, MaxDeaths \in Nat
  PROVE  SchedulerSpec => []SchedulerTypeOK
<1>1. SchedulerInv => SchedulerTypeOK BY Zenon DEF SchedulerInv
<1> QED BY <1>1, SchedulerInvariant, PTL

\* Whatever the masks and however many threads wait: one sleeps beside a free
\* unit of its mask only after one of the known losses of a wake-up.
THEOREM SleepIsExplained ==
  ASSUME Masks, MaxDeaths \in Nat
  PROVE  SchedulerSpec => []SleepExplained
<1>1. SchedulerInv => SleepExplained
  <2> SUFFICES ASSUME SchedulerInv, \A s \in Threads : at[s] \notin {"signal", "wake"},
                      NEW t \in Threads, at[t] = "asleep", NEW u \in Free(t)
               PROVE  freed[u] \in {"silent", "cleared"}
    BY Zenon DEF SleepExplained
  <2>1. u \in Units BY Zenon DEF Masks, Free
  <2>2. freed[u] # "signalled" BY <2>1, Zenon DEF SchedulerInv, FlagInv
  <2> QED BY <2>1, <2>2, Zenon DEF SchedulerInv, SchedulerTypeOK
<1> QED BY <1>1, SchedulerInvariant, PTL

=============================================================================
