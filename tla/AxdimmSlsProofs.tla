-------------------------- MODULE AxdimmSlsProofs ---------------------------
(***************************************************************************)
(* Control and types of AxdimmSls for every number of hosts, processes,    *)
(* compute units, buffers (at least two) and rows, with exceptions and     *)
(* crashes: the inductive invariant of the protocol, kept by the holder    *)
(* of a unit, its worker and the others, and on top of it the types (no    *)
(* trace that a worker runs leaves the buffers it adds to and no dirty     *)
(* range leaves its buffer) and the traces: a worker runs its owner's only.*)
(***************************************************************************)
EXTENDS AxdimmSls, TLAPS

\* The types of the variables that control the protocol.
CtlType ==
  /\ owner \in [Cunits -> Hosts \cup {NoHost}]
  /\ exec_sls \in [Cunits -> {"ENABLE", "DISABLE"}]
  /\ psum_poll \in [Cunits -> {"RESET", "FINISH"}]
  /\ rd \in [Procs -> [Cunits -> Bufs]]
  /\ wr \in [Procs -> [Cunits -> Bufs]]
  /\ stop_flag \in [Procs -> [Cunits -> BOOLEAN]]
  /\ wpc \in [Procs -> [Cunits -> WorkerPC]]
  /\ wbuf \in [Procs -> [Cunits -> Bufs]]
  /\ pc \in [Hosts -> HostPC]
  /\ cu \in [Hosts -> Cunits]
  /\ step \in [Hosts -> Nat \ {0}]
  /\ req \in [Hosts -> Reqs]

\* The driver's record of who owns a unit and the hosts' own agree.
Ownership ==
  /\ \A h \in Hosts : Holding(h) => owner[cu[h]] = h
  /\ \A c \in Cunits : owner[c] # NoHost => Holding(owner[c]) /\ cu[owner[c]] = c

\* A worker is on exactly while its unit's owner is between enable_thread and
\* the end of disable_thread, and asked to stop only in that last wait.
Threads ==
  /\ \A p \in Procs, c \in Cunits :
       wpc[p][c] # "off" => owner[c] # NoHost /\ ProcOf[owner[c]] = p /\ ThreadOn(owner[c])
  /\ \A h \in Hosts :
       ThreadOn(h) =>
         /\ wpc[ProcOf[h]][cu[h]] # "off"
         /\ pc[h] # "join" => /\ ~stop_flag[ProcOf[h]][cu[h]]
                              /\ wpc[ProcOf[h]][cu[h]] # "done"

\* Hosts with no execution in flight, and hosts with one.
Quiet(h) == \/ pc[h] \in {"clear", "write", "shift", "armPoll", "start"}
            \/ pc[h] = "generate" /\ step[h] = 1
Busy(h)  == \/ pc[h] \in {"wait", "copy", "clean", "waitDummy"}
            \/ pc[h] = "generate" /\ step[h] > 1

\* The register handshake: quiet means disarmed and the worker spinning; busy
\* means armed and not finished, between the two stores, or finished.
HandshakeOf(h) ==
  LET w == wpc[ProcOf[h]][cu[h]]  x == exec_sls[cu[h]]  f == psum_poll[cu[h]] IN
  /\ pc[h] \in {"acquire", "resetPoll", "resetExec", "enableThread", "clear"} => step[h] = 1
  /\ pc[h] = "enableThread" => x = "DISABLE"
  /\ Quiet(h) => x = "DISABLE" /\ w \in {"queued", "loop", "load"}
  /\ pc[h] = "start" => f = "RESET"
  /\ Busy(h) =>
       \/ x = "ENABLE" /\ f = "RESET" /\ w \in {"queued", "loop", "load", "exec", "disarm"}
       \/ x = "DISABLE" /\ f = "RESET" /\ w = "finish"
       \/ x = "DISABLE" /\ f = "FINISH" /\ w \in {"loop", "load"}

Handshake == \A h \in Hosts : HandshakeOf(h)

\* The READ buffer is never the WRITE buffer, and a running trace adds to the
\* latter.
Buffers ==
  \A p \in Procs, c \in Cunits :
    /\ rd[p][c] # wr[p][c]
    /\ wpc[p][c] = "exec" => wbuf[p][c] = wr[p][c]

IInv == CtlType /\ Ownership /\ Threads /\ Handshake /\ Buffers

\* Updating one cell of a function of two arguments keeps its type.
LEMMA UpdateCell ==
  ASSUME NEW S, NEW f \in [Procs -> [Cunits -> S]], NEW p \in Procs, NEW c \in Cunits,
         NEW v \in S
  PROVE  [f EXCEPT ![p][c] = v] \in [Procs -> [Cunits -> S]]
BY Zenon

\* Advancing an index stays inside the buffers and keeps two indices apart.
LEMMA ShiftFacts ==
  /\ \A k \in Bufs : Shift(k) \in Bufs
  /\ \A j, k \in Bufs : j # k => Shift(j) # Shift(k)
<1>1. ASSUME NEW k \in Bufs PROVE Shift(k) = IF k + 1 = NumBufs THEN 0 ELSE k + 1
  BY BufAssumption DEF Shift, Bufs
<1> QED BY <1>1, BufAssumption DEF Bufs

\* What a host asks for is a well-formed operation.
LEMMA RequestFacts ==
  /\ Service!NoRequest \in Reqs
  /\ \A n \in Nat : \A q \in Service!Requests(n) : q \in Reqs
<1>1. Service!NoRequest \in Reqs
  BY RowAssumption DEF Service!NoRequest, Reqs
<1>2. ASSUME NEW n \in Nat, NEW q \in Service!Requests(n) PROVE q \in Reqs
  BY Zenon, RowAssumption, PackAssumption DEF Service!Requests, Reqs
<1> QED BY Zenon, <1>1, <1>2

\* The initial states satisfy the invariant.
LEMMA InitIInv == Init => IInv
<1> SUFFICES ASSUME Init PROVE IInv
  BY Zenon
<1> USE HostAssumption, PackAssumption, BufAssumption
<1>1. CtlType BY RequestFacts DEF Init, CtlType, Bufs, HostPC, WorkerPC
<1>2. Ownership BY Zenon DEF Init, Ownership, Holding
<1>3. Threads BY Zenon DEF Init, Threads, ThreadOn, Holding
<1>4. Handshake BY Zenon DEF Init, Handshake, HandshakeOf, Quiet, Busy
<1>5. Buffers BY DEF Init, Buffers
<1> QED BY Zenon, <1>1, <1>2, <1>3, <1>4, <1>5 DEF IInv

(***************************************************************************)
(* Most steps touch one unit: they are steps of the host that holds it or  *)
(* of its worker.  LocalTo says so; LocalInv is the invariant seen from    *)
(* such a host.  A local step need only re-establish LocalInv.             *)
(***************************************************************************)
LocalTo(h) ==
  /\ owner' = owner /\ cu' = cu
  /\ \A g \in Hosts \ {h} : pc'[g] = pc[g] /\ step'[g] = step[g]
  /\ \A d \in Cunits \ {cu[h]} : exec_sls'[d] = exec_sls[d] /\ psum_poll'[d] = psum_poll[d]
  /\ \A q \in Procs, d \in Cunits :
       q # ProcOf[h] \/ d # cu[h] =>
         /\ stop_flag'[q][d] = stop_flag[q][d] /\ wpc'[q][d] = wpc[q][d]
         /\ wbuf'[q][d] = wbuf[q][d] /\ rd'[q][d] = rd[q][d] /\ wr'[q][d] = wr[q][d]

LocalInv(h) ==
  LET p == ProcOf[h]  c == cu[h] IN
  /\ Holding(h)
  /\ ThreadOn(h) <=> wpc[p][c] # "off"
  /\ ThreadOn(h) /\ pc[h] # "join" => ~stop_flag[p][c] /\ wpc[p][c] # "done"
  /\ HandshakeOf(h)
  /\ rd[p][c] # wr[p][c]
  /\ wpc[p][c] = "exec" => wbuf[p][c] = wr[p][c]

\* The invariant as the holder of a unit sees it.
LEMMA HolderView ==
  ASSUME IInv, NEW h \in Hosts, Holding(h)
  PROVE  LocalInv(h)
<1> USE HostAssumption DEF IInv
<1>1. owner[cu[h]] = h /\ cu[h] \in Cunits /\ ProcOf[h] \in Procs
  BY Zenon DEF Ownership, CtlType
<1>2. ThreadOn(h) <=> wpc[ProcOf[h]][cu[h]] # "off"
  BY <1>1 DEF Threads
<1>3. HandshakeOf(h) BY Zenon DEF Handshake
<1> QED BY <1>1, <1>2, <1>3 DEF LocalInv, Threads, Buffers

\* The owner of a unit whose worker is on, as the worker sees it.
LEMMA WorkerView ==
  ASSUME IInv, NEW p \in Procs, NEW c \in Cunits, wpc[p][c] # "off"
  PROVE  /\ owner[c] \in Hosts /\ ProcOf[owner[c]] = p /\ cu[owner[c]] = c
         /\ Holding(owner[c]) /\ ThreadOn(owner[c])
BY HostAssumption DEF IInv, CtlType, Ownership, Threads

\* The same two views with a name for the owner.
LEMMA OwnerOf ==
  ASSUME IInv, NEW c \in Cunits, owner[c] # NoHost
  PROVE  \E g \in Hosts : g = owner[c] /\ Holding(g) /\ cu[g] = c
<1>1. owner[c] \in Hosts BY Zenon DEF IInv, CtlType
<1>2. Holding(owner[c]) /\ cu[owner[c]] = c BY Zenon DEF IInv, Ownership
<1> QED BY Zenon, <1>1, <1>2

\* A worker that is on has a unit whose owner is a host of its process.
LEMMA WorkerOwner ==
  ASSUME IInv, NEW p \in Procs, NEW c \in Cunits, wpc[p][c] # "off"
  PROVE  \E g \in Hosts : /\ g = owner[c] /\ ProcOf[g] = p /\ cu[g] = c
                          /\ Holding(g) /\ ThreadOn(g)
<1> QED BY Zenon, WorkerView, SMTT(60)

\* A local step that keeps the local invariant keeps the invariant.
LEMMA LocalStep ==
  ASSUME IInv, NEW h \in Hosts, Holding(h), CtlType', LocalTo(h), LocalInv(h)'
  PROVE  IInv'
<1> USE HostAssumption
<1> DEFINE p == ProcOf[h]  c == cu[h]
<1>0. p \in Procs /\ c \in Cunits /\ cu' = cu /\ owner' = owner
  BY Zenon DEF IInv, CtlType, LocalTo
<1>1. \A g \in Hosts : g # h /\ Holding(g) => cu[g] # c
  BY Zenon DEF IInv, Ownership
<1>2. owner[c] = h
  BY Zenon DEF IInv, Ownership
<1>3. \A g \in Hosts \ {h} : /\ pc'[g] = pc[g] /\ step'[g] = step[g]
                            /\ Holding(g)' = Holding(g) /\ ThreadOn(g)' = ThreadOn(g)
                            /\ Quiet(g)' = Quiet(g) /\ Busy(g)' = Busy(g)
  BY Zenon DEF LocalTo, Holding, ThreadOn, Quiet, Busy
<1>4. Holding(h)'
  BY Zenon DEF LocalInv
<1>5. Ownership'
  <2>1. \A g \in Hosts : Holding(g)' => Holding(g)
    BY Zenon, <1>3
  <2>2. \A g \in Hosts : Holding(g) => Holding(g)'
    BY Zenon, <1>3, <1>4
  <2>3. ASSUME NEW g \in Hosts, Holding(g)' PROVE (owner[cu[g]] = g)'
    BY Zenon, <1>0, <2>1, <2>3 DEF IInv, Ownership
  <2>4. ASSUME NEW d \in Cunits, (owner[d] # NoHost)'
        PROVE  (Holding(owner[d]) /\ cu[owner[d]] = d)'
    <3>1. owner[d] \in Hosts /\ Holding(owner[d]) /\ cu[owner[d]] = d
      BY <1>0, <2>4 DEF IInv, Ownership, CtlType
    <3>2. PICK g \in Hosts : g = owner[d] BY Zenon, <3>1
    <3>3. Holding(g)' BY Zenon, <2>2, <3>1, <3>2
    <3> QED BY Zenon, <1>0, <3>1, <3>2, <3>3
  <2> QED BY Zenon, <2>3, <2>4 DEF Ownership
<1>6. Threads'
  <2>1. ASSUME NEW q \in Procs, NEW d \in Cunits, (wpc[q][d] # "off")'
        PROVE  (owner[d] # NoHost /\ ProcOf[owner[d]] = q /\ ThreadOn(owner[d]))'
    <3>1. CASE q = p /\ d = c
      BY Zenon, <1>0, <1>2, <2>1, <3>1 DEF LocalInv
    <3>2. CASE q = p /\ d # c
      <4>1. wpc[q][d] # "off" BY Zenon, <2>1, <3>2 DEF LocalTo
      <4>2. owner[d] \in Hosts /\ owner[d] # h /\ ProcOf[owner[d]] = q /\ ThreadOn(owner[d])
        BY Zenon, <4>1, <3>2, WorkerView
      <4> QED BY Zenon, <4>2, <1>0, <1>3
    <3>3. CASE q # p
      <4>1. wpc[q][d] # "off" BY Zenon, <2>1, <3>3 DEF LocalTo
      <4>2. owner[d] \in Hosts /\ owner[d] # h /\ ProcOf[owner[d]] = q /\ ThreadOn(owner[d])
        BY ZenonT(30), <4>1, <3>3, WorkerView
      <4> QED BY Zenon, <4>2, <1>0, <1>3
    <3> QED BY Zenon, <3>1, <3>2, <3>3
  <2>2. ASSUME NEW g \in Hosts, ThreadOn(g)'
        PROVE  (/\ wpc[ProcOf[g]][cu[g]] # "off"
                /\ pc[g] # "join" => /\ ~stop_flag[ProcOf[g]][cu[g]]
                                     /\ wpc[ProcOf[g]][cu[g]] # "done")'
    <3>1. CASE g = h
      BY Zenon, <2>2, <3>1 DEF LocalInv
    <3>2. CASE g # h
      <4>1. ThreadOn(g) /\ cu[g] # c /\ cu[g] \in Cunits /\ ProcOf[g] \in Procs
        BY Zenon, <1>1, <1>3, <2>2, <3>2 DEF IInv, CtlType, ThreadOn
      <4> QED BY <1>0, <1>3, <3>2, <4>1 DEF IInv, Threads, LocalTo
    <3> QED BY Zenon, <3>1, <3>2
  <2> QED BY Zenon, <2>1, <2>2 DEF Threads
<1>7. Handshake'
  <2>1. ASSUME NEW g \in Hosts, g # h PROVE HandshakeOf(g)'
    <3>1. HandshakeOf(g) /\ cu[g] \in Cunits /\ ProcOf[g] \in Procs
      BY Zenon DEF IInv, Handshake, CtlType
    <3>2. CASE Holding(g)
      BY <1>0, <1>1, <1>3, <2>1, <3>1, <3>2 DEF HandshakeOf, LocalTo
    <3>3. CASE ~Holding(g)
      BY Zenon, <1>3, <2>1, <3>1, <3>3 DEF HandshakeOf, Holding, Quiet, Busy
    <3> QED BY Zenon, <3>2, <3>3
  <2> QED BY Zenon, <2>1 DEF Handshake, LocalInv
<1>8. Buffers'
  <2>1. ASSUME NEW q \in Procs, NEW d \in Cunits
        PROVE  (rd[q][d] # wr[q][d] /\ (wpc[q][d] = "exec" => wbuf[q][d] = wr[q][d]))'
    <3>1. CASE q = p /\ d = c BY Zenon, <1>0, <3>1 DEF LocalInv
    <3>2. CASE q # p \/ d # c BY <3>2 DEF IInv, Buffers, LocalTo
    <3> QED BY Zenon, <3>1, <3>2
  <2> QED BY Zenon, <2>1 DEF Buffers
<1> QED BY Zenon, <1>5, <1>6, <1>7, <1>8 DEF IInv

\* The handshake of a host concerns nothing but these values.
LEMMA HandshakeFrame ==
  ASSUME NEW g \in Hosts, HandshakeOf(g), pc'[g] = pc[g], cu'[g] = cu[g], step'[g] = step[g],
         exec_sls'[cu[g]] = exec_sls[cu[g]], psum_poll'[cu[g]] = psum_poll[cu[g]],
         wpc'[ProcOf[g]][cu[g]] = wpc[ProcOf[g]][cu[g]]
  PROVE  HandshakeOf(g)'
BY Zenon DEF HandshakeOf, Quiet, Busy

\* A host that moves on while its execution is in flight keeps its view.
LEMMA BusyFrame ==
  ASSUME NEW h, LocalInv(h), Busy(h), cu' = cu, rd' = rd, wr' = wr, wbuf' = wbuf,
         wpc' = wpc, stop_flag' = stop_flag, exec_sls' = exec_sls, psum_poll' = psum_poll,
         \/ pc'[h] \in {"wait", "copy", "clean", "waitDummy"}
         \/ pc'[h] = "generate" /\ step'[h] > 1
  PROVE  LocalInv(h)'
<1>1. Holding(h)' /\ ThreadOn(h) /\ ThreadOn(h)' /\ pc[h] # "join" /\ Busy(h)' /\ ~Quiet(h)'
  BY DEF Holding, ThreadOn, Busy, Quiet
<1>2. HandshakeOf(h)' BY Zenon, <1>1 DEF LocalInv, HandshakeOf
<1> QED BY Zenon, <1>1, <1>2 DEF LocalInv

\* A step of a host that holds a unit and keeps it preserves the invariant.
LEMMA HolderPreserves ==
  ASSUME IInv, NEW h \in Hosts, Holding(h), Throw(h) \/ HostStep(h), ~Release(h)
  PROVE  IInv'
<1> USE HostAssumption DEF Goto
<1> DEFINE Same == /\ owner' = owner /\ exec_sls' = exec_sls /\ psum_poll' = psum_poll
                   /\ rd' = rd /\ wr' = wr /\ stop_flag' = stop_flag /\ wpc' = wpc
                   /\ wbuf' = wbuf /\ cu' = cu /\ req' = req
<1>0. CtlType /\ LocalInv(h) /\ cu[h] \in Cunits /\ ProcOf[h] \in Procs
  BY Zenon, HolderView DEF IInv, CtlType
<1>1. CASE Throw(h)
  <2> USE <1>1 DEF Throw, regVars, simVars, thrVars, hostData, bounds
  <2>1. CtlType' BY Zenon, <1>0 DEF CtlType, HostPC
  <2>2. LocalTo(h) BY Zenon, <1>0 DEF CtlType, LocalTo
  <2>3. LocalInv(h)'
    BY Zenon, <1>0 DEF CtlType, LocalInv, HandshakeOf, Holding, ThreadOn, Quiet, Busy
  <2> QED BY Zenon, <2>1, <2>2, <2>3, LocalStep
<1>2. CASE ResetPoll(h)
  <2> USE <1>2 DEF ResetPoll, regVars, simVars, thrVars, hostData, bounds
  <2>1. CtlType' BY Zenon, <1>0 DEF CtlType, HostPC
  <2>2. LocalTo(h) BY Zenon, <1>0 DEF CtlType, LocalTo
  <2>3. LocalInv(h)'
    BY Zenon, <1>0 DEF CtlType, LocalInv, HandshakeOf, Holding, ThreadOn, Quiet, Busy
  <2> QED BY Zenon, <2>1, <2>2, <2>3, LocalStep
<1>3. CASE ResetExec(h)
  <2> USE <1>3 DEF ResetExec, regVars, simVars, thrVars, hostData, bounds
  <2>1. CtlType' BY Zenon, <1>0 DEF CtlType, HostPC
  <2>2. LocalTo(h) BY Zenon, <1>0 DEF CtlType, LocalTo
  <2>3. LocalInv(h)'
    BY Zenon, <1>0 DEF CtlType, LocalInv, HandshakeOf, Holding, ThreadOn, Quiet, Busy
  <2> QED BY Zenon, <2>1, <2>2, <2>3, LocalStep
<1>4. CASE EnableThread(h)
  <2> USE <1>4 DEF EnableThread, regVars, simVars, thrVars, hostData, bounds
  <2>1. CtlType' BY Zenon, <1>0 DEF CtlType, HostPC, WorkerPC
  <2>2. LocalTo(h) BY Zenon, <1>0 DEF CtlType, LocalTo
  <2>3. LocalInv(h)'
    BY Zenon, <1>0 DEF CtlType, LocalInv, HandshakeOf, Holding, ThreadOn, Quiet, Busy
  <2> QED BY Zenon, <2>1, <2>2, <2>3, LocalStep
<1>5. CASE ClearBuffers(h)
  <2>0. pc[h] = "clear" /\ pc' = [pc EXCEPT ![h] = "generate"] /\ step' = step
        /\ Same
    BY Zenon, <1>5, <1>0 DEF ClearBuffers, CtlType, AfterRun, regVars, simVars, thrVars, hostData, bounds
  <2>1. CtlType' BY Zenon, <1>0, <2>0 DEF CtlType, HostPC
  <2>2. LocalTo(h) BY Zenon, <1>0, <2>0 DEF CtlType, LocalTo
  <2>3. LocalInv(h)'
    BY <1>0, <2>0 DEF CtlType, LocalInv, HandshakeOf, Holding, ThreadOn, Quiet, Busy
  <2> QED BY Zenon, <2>1, <2>2, <2>3, LocalStep
<1>6. CASE Generate(h)
  <2>0. Same /\ step' = step /\ pc[h] = "generate"
        /\ \/ step[h] = 1 /\ pc' = [pc EXCEPT ![h] = "write"]
           \/ step[h] > 1 /\ pc' = [pc EXCEPT ![h] = "wait"]
    <3>0. step[h] \in Nat \ {0} BY Zenon, <1>0 DEF CtlType
    <3>1. step[h] = 1 \/ (step[h] > 1 /\ step[h] # 1) BY <3>0
    <3>2. Same /\ step' = step /\ pc[h] = "generate"
      BY Zenon, <1>6 DEF Generate, regVars, simVars, thrVars, hostData
    <3>3. CASE step[h] = 1 BY Zenon, <1>6, <3>2, <3>3 DEF Generate
    <3>4. CASE step[h] > 1 /\ step[h] # 1 BY Zenon, <1>6, <3>2, <3>4 DEF Generate
    <3> QED BY Zenon, <3>1, <3>3, <3>4
  <2>1. CtlType' BY Zenon, <1>0, <2>0 DEF CtlType, HostPC
  <2>2. LocalTo(h) BY Zenon, <1>0, <2>0 DEF CtlType, LocalTo
  <2>3. LocalInv(h)'
    BY Zenon, <1>0, <2>0, SMTT(60) DEF CtlType, LocalInv, HandshakeOf, Holding, ThreadOn, Quiet, Busy
  <2> QED BY Zenon, <2>1, <2>2, <2>3, LocalStep
<1>7. CASE Wait(h)
  <2> USE <1>7 DEF Wait, regVars, simVars, thrVars, hostData, bounds
  <2>1. CtlType' BY Zenon, <1>0 DEF CtlType, HostPC
  <2>2. LocalTo(h) BY Zenon, <1>0 DEF CtlType, LocalTo
  <2>3. LocalInv(h)'
    BY Zenon, <1>0 DEF CtlType, LocalInv, HandshakeOf, Holding, ThreadOn, Quiet, Busy
  <2> QED BY Zenon, <2>1, <2>2, <2>3, LocalStep
<1>8. CASE WriteInst(h)
  <2> USE <1>8 DEF WriteInst, regVars, simVars, thrVars, hostData, bounds
  <2>1. CtlType' BY Zenon, <1>0 DEF CtlType, HostPC
  <2>2. LocalTo(h) BY Zenon, <1>0 DEF CtlType, LocalTo
  <2>3. LocalInv(h)'
    BY Zenon, <1>0 DEF CtlType, LocalInv, HandshakeOf, Holding, ThreadOn, Quiet, Busy
  <2> QED BY Zenon, <2>1, <2>2, <2>3, LocalStep
<1>9. CASE ShiftBuffers(h)
  <2> USE <1>9 DEF ShiftBuffers, regVars, simVars, thrVars, hostData, bounds
  <2>1. CtlType' BY ShiftFacts, <1>0 DEF CtlType, HostPC
  <2>2. LocalTo(h) BY Zenon, <1>0 DEF CtlType, LocalTo
  <2>3. LocalInv(h)'
    BY ShiftFacts, <1>0, SMTT(60) DEF CtlType, LocalInv, HandshakeOf, Holding, ThreadOn, Quiet, Busy
  <2> QED BY Zenon, <2>1, <2>2, <2>3, LocalStep
<1>10. CASE ArmPoll(h)
  <2> USE <1>10 DEF ArmPoll, regVars, simVars, thrVars, hostData, bounds
  <2>1. CtlType' BY Zenon, <1>0 DEF CtlType, HostPC
  <2>2. LocalTo(h) BY Zenon, <1>0 DEF CtlType, LocalTo
  <2>3. LocalInv(h)'
    BY Zenon, <1>0 DEF CtlType, LocalInv, HandshakeOf, Holding, ThreadOn, Quiet, Busy
  <2> QED BY Zenon, <2>1, <2>2, <2>3, LocalStep
<1>11. CASE StartExec(h)
  <2>0. /\ pc[h] = "start" /\ exec_sls' = [exec_sls EXCEPT ![cu[h]] = "ENABLE"]
        /\ owner' = owner /\ psum_poll' = psum_poll /\ rd' = rd /\ wr' = wr
        /\ stop_flag' = stop_flag /\ wpc' = wpc /\ wbuf' = wbuf /\ cu' = cu /\ req' = req
    BY Zenon, <1>11 DEF StartExec, simVars, thrVars
  <2>a. \E l \in HostPC, n \in Nat \ {0} :
          /\ pc' = [pc EXCEPT ![h] = l] /\ step' = [step EXCEPT ![h] = n]
          /\ l \in {"copy", "wait"} \/ (l = "generate" /\ n > 1)
    <3>1. CASE step[h] = 1 /\ step' = [step EXCEPT ![h] = 2]
               /\ pc' = [pc EXCEPT ![h] = AfterRun(h, 2)]
      <4>1. 2 \in Nat \ {0} /\ 2 > 1 OBVIOUS
      <4>2. CASE AfterRun(h, 2) = "generate" BY Zenon, <3>1, <4>1, <4>2 DEF HostPC
      <4>3. CASE AfterRun(h, 2) = "wait" BY Zenon, <3>1, <4>1, <4>3 DEF HostPC
      <4> QED BY Zenon, <4>2, <4>3 DEF AfterRun
    <3>2. CASE step' = step /\ pc' = [pc EXCEPT ![h] = "copy"]
      <4>1. step[h] \in Nat \ {0} /\ step' = [step EXCEPT ![h] = step[h]]
        BY Zenon, <1>0, <3>2 DEF CtlType
      <4> QED BY Zenon, <3>2, <4>1 DEF HostPC
    <3> QED BY Zenon, <1>11, <3>1, <3>2 DEF StartExec
  <2>b. PICK l \in HostPC, n \in Nat \ {0} :
          /\ pc' = [pc EXCEPT ![h] = l] /\ step' = [step EXCEPT ![h] = n]
          /\ l \in {"copy", "wait"} \/ (l = "generate" /\ n > 1)
    BY Zenon, <2>a
  <2>1. CtlType' BY Zenon, <1>0, <2>0, <2>b DEF CtlType
  <2>2. LocalTo(h) BY Zenon, <1>0, <2>0, <2>b DEF CtlType, LocalTo
  <2>3. LocalInv(h)'
    <3>1. pc'[h] = l /\ step'[h] = n /\ exec_sls'[cu[h]] = "ENABLE"
      BY Zenon, <1>0, <2>0, <2>b DEF CtlType
    <3>2. /\ psum_poll[cu[h]] = "RESET"
          /\ wpc[ProcOf[h]][cu[h]] \in {"queued", "loop", "load"}
      BY Zenon, <1>0, <2>0 DEF LocalInv, HandshakeOf, Quiet
    <3>3. ThreadOn(h) /\ Holding(h)' /\ ThreadOn(h)' /\ Busy(h)' /\ ~Quiet(h)'
      BY <2>0, <2>b, <3>1 DEF Holding, ThreadOn, Busy, Quiet
    <3>4. HandshakeOf(h)' BY Zenon, <2>0, <2>b, <3>1, <3>2, <3>3 DEF HandshakeOf
    <3> QED BY Zenon, <1>0, <2>0, <3>3, <3>4 DEF LocalInv
  <2> QED BY Zenon, <2>1, <2>2, <2>3, LocalStep
<1>12. CASE CopyOut(h)
  <2>0. pc[h] = "copy" /\ pc' = [pc EXCEPT ![h] = "clean"] /\ step' = step
        /\ Same
    BY Zenon, <1>12, <1>0 DEF CopyOut, CtlType, AfterRun, regVars, simVars, thrVars, hostData, bounds
  <2>1. CtlType' BY Zenon, <1>0, <2>0 DEF CtlType, HostPC
  <2>2. LocalTo(h) BY Zenon, <1>0, <2>0 DEF CtlType, LocalTo
  <2>3. LocalInv(h)'
    <3>1. Busy(h) /\ pc'[h] = "clean" BY Zenon, <1>0, <2>0 DEF Busy, CtlType
    <3> QED BY Zenon, <1>0, <2>0, <3>1, BusyFrame
  <2> QED BY Zenon, <2>1, <2>2, <2>3, LocalStep
<1>13. CASE CleanRead(h)
  <2>0. pc[h] = "clean" /\ Same
        /\ \E l \in HostPC, n \in Nat \ {0} :
             /\ pc' = [pc EXCEPT ![h] = l] /\ step' = [step EXCEPT ![h] = n]
             /\ l \in {"copy", "waitDummy", "wait"} \/ (l = "generate" /\ n > 1)
    <3>1. pc[h] = "clean" /\ Same
      BY Zenon, <1>13 DEF CleanRead, regVars, thrVars
    <3>2. step[h] \in Nat \ {0} /\ step[h] + 1 \in Nat \ {0} /\ step[h] + 1 > 1
      BY <1>0 DEF CtlType
    <3>3. step = [step EXCEPT ![h] = step[h]]
      BY Zenon, <1>0 DEF CtlType
    <3>4. CASE pc' = [pc EXCEPT ![h] = "copy"] /\ step' = step
      BY Zenon, <3>1, <3>2, <3>3, <3>4 DEF HostPC
    <3>5. CASE pc' = [pc EXCEPT ![h] = "waitDummy"] /\ step' = step
      BY Zenon, <3>1, <3>2, <3>3, <3>5 DEF HostPC
    <3>6. CASE /\ pc' = [pc EXCEPT ![h] = AfterRun(h, step[h] + 1)]
               /\ step' = [step EXCEPT ![h] = step[h] + 1]
      <4>1. CASE AfterRun(h, step[h] + 1) = "generate"
        BY Zenon, <3>1, <3>2, <3>6, <4>1 DEF HostPC
      <4>2. CASE AfterRun(h, step[h] + 1) = "wait"
        BY Zenon, <3>1, <3>2, <3>6, <4>2 DEF HostPC
      <4> QED BY Zenon, <4>1, <4>2 DEF AfterRun
    <3> QED BY Zenon, <1>13, <3>4, <3>5, <3>6 DEF CleanRead
  <2>1. CtlType' BY <1>0, <2>0 DEF CtlType, HostPC
  <2>2. LocalTo(h) BY Zenon, <1>0, <2>0 DEF CtlType, LocalTo
  <2>3. LocalInv(h)'
    <3>1. Busy(h) BY Zenon, <2>0 DEF Busy
    <3>2. \/ pc'[h] \in {"wait", "copy", "clean", "waitDummy"}
          \/ pc'[h] = "generate" /\ step'[h] > 1
      BY Zenon, <1>0, <2>0 DEF CtlType
    <3> QED BY Zenon, <1>0, <2>0, <3>1, <3>2, BusyFrame
  <2> QED BY Zenon, <2>1, <2>2, <2>3, LocalStep
<1>14. CASE WaitDummy(h)
  <2> USE <1>14 DEF WaitDummy, regVars, simVars, thrVars, hostData, bounds
  <2>1. CtlType' BY Zenon, <1>0 DEF CtlType, HostPC
  <2>2. LocalTo(h) BY Zenon, <1>0 DEF CtlType, LocalTo
  <2>3. LocalInv(h)'
    BY Zenon, <1>0 DEF CtlType, LocalInv, HandshakeOf, Holding, ThreadOn, Quiet, Busy
  <2> QED BY Zenon, <2>1, <2>2, <2>3, LocalStep
<1>15. CASE StopThread(h)
  <2> USE <1>15 DEF StopThread, regVars, simVars, thrVars, hostData, bounds
  <2>1. CtlType' BY Zenon, <1>0 DEF CtlType, HostPC
  <2>2. LocalTo(h) BY Zenon, <1>0 DEF CtlType, LocalTo
  <2>3. LocalInv(h)'
    BY Zenon, <1>0 DEF CtlType, LocalInv, HandshakeOf, Holding, ThreadOn, Quiet, Busy
  <2> QED BY Zenon, <2>1, <2>2, <2>3, LocalStep
<1>16. CASE JoinThread(h)
  <2> USE <1>16 DEF JoinThread, regVars, simVars, thrVars, hostData, bounds
  <2>1. CtlType' BY Zenon, <1>0 DEF CtlType, HostPC, WorkerPC
  <2>2. LocalTo(h) BY Zenon, <1>0 DEF CtlType, LocalTo
  <2>3. LocalInv(h)'
    BY Zenon, <1>0 DEF CtlType, LocalInv, HandshakeOf, Holding, ThreadOn, Quiet, Busy
  <2> QED BY Zenon, <2>1, <2>2, <2>3, LocalStep
<1> QED BY Zenon, <1>1, <1>2, <1>3, <1>4, <1>5, <1>6, <1>7, <1>8, <1>9, <1>10, <1>11, <1>12, <1>13, <1>14, <1>15, <1>16 DEF HostStep

\* A step of a worker preserves the invariant.
LEMMA WorkerPreserves ==
  ASSUME IInv, NEW p \in Procs, NEW c \in Cunits, WorkerStep(p, c)
  PROVE  IInv'
<1> USE HostAssumption DEF WGoto
<1>a. wpc[p][c] # "off"
  BY Zenon DEF WorkerStep, WorkerBegin, WorkerCheckStop, WorkerLoad, WorkerExec, WorkerComplete
<1>b. PICK h \in Hosts :
        h = owner[c] /\ ProcOf[h] = p /\ cu[h] = c /\ Holding(h) /\ ThreadOn(h)
  BY Zenon, <1>a, WorkerView, ZenonT(60)
<1>0. CtlType /\ LocalInv(h)
  BY Zenon, <1>b, HolderView DEF IInv
<1>1. CASE WorkerBegin(p, c)
  <2> USE <1>1 DEF WorkerBegin, regVars, simVars, hostData, bounds
  <2>1. CtlType' BY Zenon, <1>0, <1>b DEF CtlType, WorkerPC
  <2>2. LocalTo(h) BY Zenon, <1>0, <1>b DEF CtlType, LocalTo
  <2>3. LocalInv(h)'
    BY Zenon, <1>0, <1>b DEF CtlType, LocalInv, HandshakeOf, Holding, ThreadOn, Quiet, Busy
  <2> QED BY Zenon, <1>b, <2>1, <2>2, <2>3, LocalStep
<1>2. CASE WorkerCheckStop(p, c)
  <2> USE <1>2 DEF WorkerCheckStop, regVars, simVars, hostData, bounds
  <2>1. CtlType' BY Zenon, <1>0, <1>b DEF CtlType, WorkerPC
  <2>2. LocalTo(h) BY Zenon, <1>0, <1>b DEF CtlType, LocalTo
  <2>3. LocalInv(h)'
    BY Zenon, <1>0, <1>b DEF CtlType, LocalInv, HandshakeOf, Holding, ThreadOn, Quiet, Busy
  <2> QED BY Zenon, <1>b, <2>1, <2>2, <2>3, LocalStep
<1>3. CASE WorkerLoad(p, c)
  <2> USE <1>3 DEF WorkerLoad, regVars, simVars, hostData, bounds
  <2>1. CtlType'
    <3>1. wr[p][c] \in Bufs BY <1>0 DEF CtlType
    <3>2. \A l \in WorkerPC : [wpc EXCEPT ![p][c] = l] \in [Procs -> [Cunits -> WorkerPC]]
      BY Zenon, <1>0, UpdateCell DEF CtlType
    <3>3. [wbuf EXCEPT ![p][c] = wr[p][c]] \in [Procs -> [Cunits -> Bufs]]
      BY Zenon, <1>0, <3>1, UpdateCell DEF CtlType
    <3>4. CASE exec_sls[c] # "ENABLE" BY Zenon, <1>0, <3>2, <3>4 DEF CtlType, WorkerPC
    <3>5. CASE exec_sls[c] = "ENABLE" BY Zenon, <1>0, <3>2, <3>3, <3>5 DEF CtlType, WorkerPC
    <3> QED BY Zenon, <3>4, <3>5
  <2>2. LocalTo(h) BY <1>0, <1>b DEF CtlType, LocalTo
  <2>3. LocalInv(h)'
    BY <1>0, <1>b, SMTT(60) DEF CtlType, LocalInv, HandshakeOf, Holding, ThreadOn, Quiet, Busy
  <2> QED BY Zenon, <1>b, <2>1, <2>2, <2>3, LocalStep
<1>4. CASE WorkerExec(p, c)
  <2>0. /\ wpc[p][c] = "exec"
        /\ WGoto(p, c, "exec") \/ WGoto(p, c, "disarm")
        /\ UNCHANGED <<owner, exec_sls, psum_poll, rd, wr, stop_flag, wbuf, pc, cu, step, req>>
    BY Zenon, <1>4 DEF WorkerExec, regVars, hostData
  <2>1. CtlType'
    <3>0. \A l \in WorkerPC : [wpc EXCEPT ![p][c] = l] \in [Procs -> [Cunits -> WorkerPC]]
      BY Zenon, <1>0, UpdateCell DEF CtlType
    <3>1. wpc' \in [Procs -> [Cunits -> WorkerPC]] BY Zenon, <2>0, <3>0 DEF WorkerPC
    <3> QED BY Zenon, <1>0, <2>0, <3>1 DEF CtlType
  <2>2. LocalTo(h) BY <1>0, <2>0, <1>b DEF CtlType, LocalTo
  <2>3. LocalInv(h)'
    BY <1>0, <2>0, <1>b DEF CtlType, LocalInv, HandshakeOf, Holding, ThreadOn, Quiet, Busy
  <2> QED BY Zenon, <1>b, <2>1, <2>2, <2>3, LocalStep
<1>5. CASE WorkerComplete(p, c)
  <2>0. /\ \/ /\ wpc[p][c] = "disarm"
              /\ exec_sls' = [exec_sls EXCEPT ![c] = "DISABLE"]
              /\ WGoto(p, c, "finish") /\ psum_poll' = psum_poll
           \/ /\ wpc[p][c] = "finish"
              /\ psum_poll' = [psum_poll EXCEPT ![c] = "FINISH"]
              /\ WGoto(p, c, "loop") /\ exec_sls' = exec_sls
        /\ UNCHANGED <<owner, rd, wr, stop_flag, wbuf, pc, cu, step, req>>
    BY Zenon, <1>5 DEF WorkerComplete, simVars, hostData
  <2>1. CtlType'
    <3>0. \A l \in WorkerPC : [wpc EXCEPT ![p][c] = l] \in [Procs -> [Cunits -> WorkerPC]]
      BY Zenon, <1>0, UpdateCell DEF CtlType
    <3>1. wpc' \in [Procs -> [Cunits -> WorkerPC]] BY Zenon, <2>0, <3>0 DEF WorkerPC
    <3>2. /\ exec_sls' \in [Cunits -> {"ENABLE", "DISABLE"}]
          /\ psum_poll' \in [Cunits -> {"RESET", "FINISH"}]
      BY Zenon, <1>0, <2>0 DEF CtlType
    <3> QED BY Zenon, <1>0, <2>0, <3>1, <3>2 DEF CtlType
  <2>2. LocalTo(h) BY <1>0, <2>0, <1>b DEF CtlType, LocalTo
  <2>3. LocalInv(h)'
    <3>0. CASE wpc[p][c] = "disarm"
      <4>1. wpc'[p][c] = "finish" /\ exec_sls'[c] = "DISABLE" /\ psum_poll'[c] = psum_poll[c]
        BY <1>0, <2>0, <3>0 DEF CtlType
      <4>2. ~Quiet(h) /\ (Busy(h) => psum_poll[c] = "RESET")
        BY Zenon, <1>0, <1>b, <3>0 DEF LocalInv, HandshakeOf
      <4>3. pc[h] = "start" => Quiet(h) BY Zenon DEF Quiet
      <4>4. (Quiet(h)' <=> Quiet(h)) /\ (Busy(h)' <=> Busy(h)) /\ HandshakeOf(h)
        BY Zenon, <1>0, <2>0 DEF Quiet, Busy, LocalInv
      <4>5. HandshakeOf(h)'
        <5>1. /\ pc'[h] = pc[h] /\ step'[h] = step[h] /\ cu'[h] = c /\ cu[h] = c
              /\ wpc'[ProcOf[h]][cu'[h]] = "finish" /\ exec_sls'[cu'[h]] = "DISABLE"
              /\ psum_poll'[cu'[h]] = psum_poll[c]
          BY Zenon, <1>b, <2>0, <4>1
        <5> QED BY Zenon, <4>2, <4>3, <4>4, <5>1 DEF HandshakeOf
      <4> QED BY Zenon, <1>0, <1>b, <2>0, <3>0, <4>1, <4>5 DEF LocalInv, Holding, ThreadOn
    <3>1. CASE wpc[p][c] = "finish"
      <4>1. wpc'[p][c] = "loop" /\ exec_sls'[c] = exec_sls[c] /\ psum_poll'[c] = "FINISH"
        BY <1>0, <2>0, <3>1 DEF CtlType
      <4>2. ~Quiet(h) /\ (Busy(h) => exec_sls[c] = "DISABLE")
        BY Zenon, <1>0, <1>b, <3>1 DEF LocalInv, HandshakeOf
      <4>3. pc[h] = "start" => Quiet(h) BY Zenon DEF Quiet
      <4>4. (Quiet(h)' <=> Quiet(h)) /\ (Busy(h)' <=> Busy(h)) /\ HandshakeOf(h)
        BY Zenon, <1>0, <2>0 DEF Quiet, Busy, LocalInv
      <4>5. HandshakeOf(h)'
        <5>1. /\ pc'[h] = pc[h] /\ step'[h] = step[h] /\ cu'[h] = c /\ cu[h] = c
              /\ wpc'[ProcOf[h]][cu'[h]] = "loop" /\ exec_sls'[cu'[h]] = exec_sls[c]
              /\ psum_poll'[cu'[h]] = "FINISH"
          BY Zenon, <1>b, <2>0, <4>1
        <5> QED BY Zenon, <4>2, <4>3, <4>4, <5>1 DEF HandshakeOf
      <4> QED BY Zenon, <1>0, <1>b, <2>0, <3>1, <4>1, <4>5 DEF LocalInv, Holding, ThreadOn
    <3> QED BY <2>0, <3>0, <3>1, Zenon
  <2> QED BY Zenon, <1>b, <2>1, <2>2, <2>3, LocalStep
<1> QED BY Zenon, <1>1, <1>2, <1>3, <1>4, <1>5 DEF WorkerStep

\* Starting an operation concerns a host that holds nothing.
LEMMA StartOpPreserves ==
  ASSUME IInv, NEW h \in Hosts, StartOp(h)
  PROVE  IInv'
<1>i. CtlType /\ Ownership /\ Threads /\ Handshake /\ Buffers BY Zenon DEF IInv
<1> USE <1>i
<1>0. /\ pc[h] = "idle" /\ pc' = [pc EXCEPT ![h] = "acquire"]
      /\ step' = [step EXCEPT ![h] = 1]
      /\ UNCHANGED <<owner, exec_sls, psum_poll, rd, wr, stop_flag, wpc, wbuf, cu>>
      /\ \E q \in Service!Requests(req[h].no + 1) : req' = [req EXCEPT ![h] = q]
  BY Zenon DEF StartOp, Goto, regVars, simVars, thrVars
<1>1. CtlType'
  <2>1. req[h].no + 1 \in Nat BY DEF CtlType, Reqs
  <2>2. req' \in [Hosts -> Reqs] BY Zenon, <1>0, <2>1, RequestFacts DEF CtlType
  <2> QED BY <1>0, <2>2 DEF CtlType, HostPC
<1>2. ASSUME NEW g \in Hosts, g # h PROVE pc'[g] = pc[g] /\ step'[g] = step[g]
  BY Zenon, <1>0, <1>2 DEF CtlType
<1>3. /\ pc'[h] = "acquire" /\ step'[h] = 1 /\ ~Holding(h) /\ ~Holding(h)'
      /\ ~ThreadOn(h) /\ ~ThreadOn(h)'
  BY Zenon, <1>0 DEF CtlType, Holding, ThreadOn
<1>4. ASSUME NEW g \in Hosts
      PROVE  (Holding(g)' <=> Holding(g)) /\ (ThreadOn(g)' <=> ThreadOn(g))
  BY Zenon, <1>2, <1>3 DEF Holding, ThreadOn
<1>5. Ownership'
  <2>1. ASSUME NEW g \in Hosts, Holding(g)' PROVE (owner[cu[g]] = g)'
    BY Zenon, <1>0, <1>4, <2>1 DEF Ownership
  <2>2. ASSUME NEW d \in Cunits, (owner[d] # NoHost)'
        PROVE  (Holding(owner[d]) /\ cu[owner[d]] = d)'
    <3>1. PICK g \in Hosts : g = owner[d] /\ Holding(g) /\ cu[g] = d
      <4>1. owner[d] # NoHost BY Zenon, <1>0, <2>2
      <4> QED BY Zenon, <4>1, OwnerOf
    <3> QED BY Zenon, <1>0, <1>4, <3>1
  <2> QED BY Zenon, <2>1, <2>2 DEF Ownership
<1>6. Threads'
  <2>1. ASSUME NEW q \in Procs, NEW d \in Cunits, (wpc[q][d] # "off")'
        PROVE  (owner[d] # NoHost /\ ProcOf[owner[d]] = q /\ ThreadOn(owner[d]))'
    <3>1. PICK g \in Hosts : g = owner[d] /\ ProcOf[g] = q /\ ThreadOn(g)
      <4>1. wpc[q][d] # "off" BY Zenon, <1>0, <2>1
      <4> QED BY Zenon, <4>1, WorkerOwner, SMTT(60)
    <3> QED BY Zenon, <1>0, <1>4, <3>1, HostAssumption
  <2>2. ASSUME NEW g \in Hosts, ThreadOn(g)'
        PROVE  (/\ wpc[ProcOf[g]][cu[g]] # "off"
                /\ pc[g] # "join" => /\ ~stop_flag[ProcOf[g]][cu[g]]
                                     /\ wpc[ProcOf[g]][cu[g]] # "done")'
    <3>1. g # h /\ ThreadOn(g) BY Zenon, <1>3, <1>4, <2>2
    <3> QED BY Zenon, <1>0, <1>2, <3>1 DEF Threads
  <2> QED BY Zenon, <2>1, <2>2 DEF Threads
<1>7. Handshake'
  <2>1. ASSUME NEW g \in Hosts, g # h PROVE HandshakeOf(g)'
    BY Zenon, <1>0, <1>2, <2>1, HandshakeFrame DEF Handshake
  <2>2. HandshakeOf(h)' BY Zenon, <1>3 DEF HandshakeOf, Quiet, Busy
  <2> QED BY Zenon, <2>1, <2>2 DEF Handshake
<1>8. Buffers' BY Zenon, <1>0 DEF Buffers
<1> QED BY Zenon, <1>1, <1>5, <1>6, <1>7, <1>8 DEF IInv

\* The driver hands a host a unit that nobody owns, so no worker is on there.
LEMMA AcquirePreserves ==
  ASSUME IInv, NEW h \in Hosts, Acquire(h)
  PROVE  IInv'
<1>i. CtlType /\ Ownership /\ Threads /\ Handshake /\ Buffers BY Zenon DEF IInv
<1> USE <1>i, HostAssumption
<1>1. PICK c \in req[h].pack : owner[c] = NoHost /\ owner' = [owner EXCEPT ![c] = h]
                               /\ cu' = [cu EXCEPT ![h] = c]
  BY Zenon DEF Acquire
<1>2. c \in Cunits
  <2>1. req[h] \in Reqs BY Zenon DEF CtlType
  <2> QED BY Zenon, <2>1 DEF Reqs
<1>3. /\ pc[h] = "acquire" /\ pc' = [pc EXCEPT ![h] = "resetPoll"]
      /\ UNCHANGED <<exec_sls, psum_poll, rd, wr, stop_flag, wpc, wbuf, step, req>>
  BY Zenon DEF Acquire, Goto, regVars, simVars, thrVars
<1>4. CtlType' BY Zenon, <1>1, <1>2, <1>3 DEF CtlType, HostPC
<1>5. ~Holding(h) /\ Holding(h)' /\ ~ThreadOn(h)'
  BY Zenon, <1>3 DEF CtlType, Holding, ThreadOn
<1>6. ASSUME NEW g \in Hosts, g # h
      PROVE  /\ pc'[g] = pc[g] /\ cu'[g] = cu[g]
             /\ (Holding(g)' <=> Holding(g)) /\ (ThreadOn(g)' <=> ThreadOn(g))
             /\ Holding(g) => cu[g] # c
  <2>1. pc'[g] = pc[g] /\ cu'[g] = cu[g] BY Zenon, <1>1, <1>3, <1>6 DEF CtlType
  <2>2. (Holding(g)' <=> Holding(g)) /\ (ThreadOn(g)' <=> ThreadOn(g))
    BY Zenon, <2>1 DEF Holding, ThreadOn
  <2>3. Holding(g) => owner[cu[g]] = g BY Zenon DEF Ownership
  <2> QED BY Zenon, <1>1, <2>1, <2>2, <2>3
<1>7. Ownership'
  <2>1. ASSUME NEW g \in Hosts, Holding(g)' PROVE (owner[cu[g]] = g)'
    <3>1. CASE g = h BY Zenon, <1>1, <1>2, <3>1 DEF CtlType
    <3>2. CASE g # h
      <4>1. Holding(g) /\ cu'[g] = cu[g] /\ cu[g] # c BY Zenon, <1>6, <2>1, <3>2
      <4>2. owner[cu[g]] = g /\ cu[g] \in Cunits BY Zenon, <4>1 DEF Ownership, CtlType
      <4>3. owner'[cu[g]] = g BY Zenon, <1>1, <4>1, <4>2 DEF CtlType
      <4> QED BY Zenon, <4>1, <4>3
    <3> QED BY Zenon, <3>1, <3>2
  <2>2. ASSUME NEW d \in Cunits, (owner[d] # NoHost)'
        PROVE  (Holding(owner[d]) /\ cu[owner[d]] = d)'
    <3>1. CASE d = c
      <4>1. owner'[d] = h BY Zenon, <1>1, <1>2, <3>1 DEF CtlType
      <4> QED BY Zenon, <1>1, <1>5, <3>1, <4>1 DEF CtlType
    <3>2. CASE d # c
      <4>0. owner'[d] = owner[d] /\ owner[d] # NoHost BY Zenon, <1>1, <2>2, <3>2 DEF CtlType
      <4>a. PICK g \in Hosts : g = owner[d] /\ Holding(g) /\ cu[g] = d BY Zenon, <4>0, OwnerOf
      <4>1. g = owner[d] /\ owner'[d] = g /\ Holding(g) /\ cu[g] = d /\ g # h
        BY Zenon, <1>5, <4>0, <4>a
      <4>2. Holding(g)' /\ cu'[g] = d BY Zenon, <1>1, <1>3, <1>6, <4>1 DEF Holding
      <4> QED BY Zenon, <4>1, <4>2
    <3> QED BY Zenon, <3>1, <3>2
  <2> QED BY Zenon, <2>1, <2>2 DEF Ownership
<1>8. Threads'
  <2>1. ASSUME NEW q \in Procs, NEW d \in Cunits, (wpc[q][d] # "off")'
        PROVE  (owner[d] # NoHost /\ ProcOf[owner[d]] = q /\ ThreadOn(owner[d]))'
    <3>1. PICK g \in Hosts : g = owner[d] /\ ProcOf[g] = q /\ ThreadOn(g) /\ Holding(g)
      <4>1. wpc[q][d] # "off" BY Zenon, <1>3, <2>1
      <4> QED BY <4>1, WorkerOwner
    <3>2. d # c /\ g # h BY Zenon, <1>1, <1>5, <3>1
    <3>3. owner'[d] = g /\ ThreadOn(g)' BY Zenon, <1>1, <1>6, <3>1, <3>2 DEF CtlType, ThreadOn
    <3> QED BY Zenon, <3>1, <3>3
  <2>2. ASSUME NEW g \in Hosts, ThreadOn(g)'
        PROVE  (/\ wpc[ProcOf[g]][cu[g]] # "off"
                /\ pc[g] # "join" => /\ ~stop_flag[ProcOf[g]][cu[g]]
                                     /\ wpc[ProcOf[g]][cu[g]] # "done")'
    <3>1. g # h /\ ThreadOn(g) /\ pc'[g] = pc[g] /\ cu'[g] = cu[g] BY Zenon, <1>5, <1>6, <2>2
    <3> QED BY Zenon, <1>3, <3>1 DEF Threads
  <2> QED BY Zenon, <2>1, <2>2 DEF Threads
<1>9. Handshake'
  <2>1. ASSUME NEW g \in Hosts, g # h PROVE HandshakeOf(g)'
    BY Zenon, <1>3, <1>6, <2>1, HandshakeFrame DEF Handshake
  <2>2. HandshakeOf(h)'
    BY Zenon, <1>3 DEF CtlType, Handshake, HandshakeOf, Quiet, Busy
  <2> QED BY Zenon, <2>1, <2>2 DEF Handshake
<1>10. Buffers' BY Zenon, <1>3 DEF Buffers
<1> QED BY Zenon, <1>4, <1>7, <1>8, <1>9, <1>10 DEF IInv

\* A host that releases its unit has ended the worker before.
LEMMA ReleasePreserves ==
  ASSUME IInv, NEW h \in Hosts, Release(h)
  PROVE  IInv'
<1>i. CtlType /\ Ownership /\ Threads /\ Handshake /\ Buffers BY Zenon DEF IInv
<1> USE <1>i, HostAssumption
<1> DEFINE c == cu[h]
<1>1. /\ pc[h] = "release" /\ pc' = [pc EXCEPT ![h] = "idle"]
      /\ owner' = [owner EXCEPT ![c] = NoHost] /\ c \in Cunits
      /\ UNCHANGED <<exec_sls, psum_poll, rd, wr, stop_flag, wpc, wbuf, step, req, cu>>
  BY Zenon DEF Release, Goto, regVars, simVars, thrVars, hostData, CtlType
<1>2. Holding(h) /\ ~ThreadOn(h) /\ ~Holding(h)' /\ ~ThreadOn(h)' /\ owner[c] = h
  <2>1. pc'[h] = "idle" BY Zenon, <1>1 DEF CtlType
  <2>2. Holding(h) /\ ~ThreadOn(h) /\ ~Holding(h)' /\ ~ThreadOn(h)'
    BY Zenon, <1>1, <2>1 DEF Holding, ThreadOn
  <2> QED BY Zenon, <2>2 DEF Ownership
<1>3. ASSUME NEW g \in Hosts, g # h
      PROVE  /\ pc'[g] = pc[g]
             /\ (Holding(g)' <=> Holding(g)) /\ (ThreadOn(g)' <=> ThreadOn(g))
             /\ Holding(g) => cu[g] # c
  <2>1. pc'[g] = pc[g] BY Zenon, <1>1, <1>3 DEF CtlType
  <2>2. (Holding(g)' <=> Holding(g)) /\ (ThreadOn(g)' <=> ThreadOn(g))
    BY Zenon, <2>1 DEF Holding, ThreadOn
  <2>3. Holding(g) => owner[cu[g]] = g BY Zenon DEF Ownership
  <2> QED BY Zenon, <1>2, <1>3, <2>1, <2>2, <2>3
<1>4. CtlType' BY Zenon, <1>1 DEF CtlType, HostPC
<1>5. Ownership'
  <2>1. ASSUME NEW g \in Hosts, Holding(g)' PROVE (owner[cu[g]] = g)'
    <3>1. g # h /\ Holding(g) /\ cu[g] # c /\ cu[g] \in Cunits
      BY Zenon, <1>2, <1>3, <2>1 DEF CtlType
    <3>2. owner[cu[g]] = g BY Zenon, <3>1 DEF Ownership
    <3> QED BY Zenon, <1>1, <3>1, <3>2 DEF CtlType
  <2>2. ASSUME NEW d \in Cunits, (owner[d] # NoHost)'
        PROVE  (Holding(owner[d]) /\ cu[owner[d]] = d)'
    <3>1. d # c BY Zenon, <1>1, <2>2 DEF CtlType
    <3>0. owner'[d] = owner[d] /\ owner[d] # NoHost BY Zenon, <1>1, <2>2, <3>1 DEF CtlType
    <3>a. PICK g \in Hosts : g = owner[d] /\ Holding(g) /\ cu[g] = d BY Zenon, <3>0, OwnerOf
    <3>2. g = owner[d] /\ owner'[d] = g /\ Holding(g) /\ cu[g] = d /\ g # h
      BY Zenon, <3>0, <3>1, <3>a
    <3>3. Holding(g)' /\ cu'[g] = d BY Zenon, <1>1, <1>3, <3>2 DEF Holding
    <3> QED BY Zenon, <3>2, <3>3
  <2> QED BY Zenon, <2>1, <2>2 DEF Ownership
<1>6. Threads'
  <2>1. ASSUME NEW q \in Procs, NEW d \in Cunits, (wpc[q][d] # "off")'
        PROVE  (owner[d] # NoHost /\ ProcOf[owner[d]] = q /\ ThreadOn(owner[d]))'
    <3>1. PICK g \in Hosts : g = owner[d] /\ ProcOf[g] = q /\ ThreadOn(g) /\ Holding(g)
      <4>1. wpc[q][d] # "off" BY Zenon, <1>1, <2>1
      <4> QED BY <4>1, WorkerOwner
    <3>2. d # c /\ g # h BY Zenon, <1>2, <3>1
    <3>3. owner'[d] = g /\ ThreadOn(g)' BY Zenon, <1>1, <1>3, <3>1, <3>2 DEF CtlType, ThreadOn
    <3> QED BY Zenon, <3>1, <3>3
  <2>2. ASSUME NEW g \in Hosts, ThreadOn(g)'
        PROVE  (/\ wpc[ProcOf[g]][cu[g]] # "off"
                /\ pc[g] # "join" => /\ ~stop_flag[ProcOf[g]][cu[g]]
                                     /\ wpc[ProcOf[g]][cu[g]] # "done")'
    <3>1. g # h /\ ThreadOn(g) /\ pc'[g] = pc[g] BY Zenon, <1>2, <1>3, <2>2
    <3> QED BY Zenon, <1>1, <3>1 DEF Threads
  <2> QED BY Zenon, <2>1, <2>2 DEF Threads
<1>7. Handshake'
  <2>1. ASSUME NEW g \in Hosts, g # h PROVE HandshakeOf(g)'
    BY Zenon, <1>1, <1>3, <2>1, HandshakeFrame DEF Handshake
  <2>2. HandshakeOf(h)'
    BY Zenon, <1>1 DEF CtlType, HandshakeOf, Quiet, Busy
  <2> QED BY Zenon, <2>1, <2>2 DEF Handshake
<1>8. Buffers' BY Zenon, <1>1 DEF Buffers
<1> QED BY Zenon, <1>4, <1>5, <1>6, <1>7, <1>8 DEF IInv

\* A crash frees the units of its process and ends its workers together.
LEMMA CrashPreserves ==
  ASSUME IInv, NEW p \in Procs, Crash(p)
  PROVE  IInv'
<1>i. CtlType /\ Ownership /\ Threads /\ Handshake /\ Buffers BY Zenon DEF IInv
<1> USE <1>i, HostAssumption
<1>1. /\ owner' = [c \in Cunits |->
            IF owner[c] # NoHost /\ ProcOf[owner[c]] = p THEN NoHost ELSE owner[c]]
      /\ rd' = [rd EXCEPT ![p] = [c \in Cunits |-> NumBufs - 1]]
      /\ wr' = [wr EXCEPT ![p] = [c \in Cunits |-> 0]]
      /\ stop_flag' = [stop_flag EXCEPT ![p] = [c \in Cunits |-> FALSE]]
      /\ wpc' = [wpc EXCEPT ![p] = [c \in Cunits |-> "off"]]
      /\ pc' = [h \in Hosts |-> IF ProcOf[h] = p THEN "idle" ELSE pc[h]]
      /\ UNCHANGED <<exec_sls, psum_poll, wbuf, req, cu, step>>
  BY Zenon DEF Crash, regVars, hostData
<1>2. CtlType'
  <2>1. NumBufs - 1 \in Bufs /\ 0 \in Bufs BY BufAssumption DEF Bufs
  <2>2. owner' \in [Cunits -> Hosts \cup {NoHost}] BY Zenon, <1>1 DEF CtlType
  <2>3. rd' \in [Procs -> [Cunits -> Bufs]] /\ wr' \in [Procs -> [Cunits -> Bufs]]
    BY Zenon, <1>1, <2>1 DEF CtlType
  <2>4. /\ stop_flag' \in [Procs -> [Cunits -> BOOLEAN]]
        /\ wpc' \in [Procs -> [Cunits -> WorkerPC]] /\ pc' \in [Hosts -> HostPC]
    BY Zenon, <1>1 DEF CtlType, WorkerPC, HostPC
  <2> QED BY Zenon, <1>1, <2>2, <2>3, <2>4 DEF CtlType
<1>3. ASSUME NEW h \in Hosts, ProcOf[h] = p
      PROVE  pc'[h] = "idle" /\ ~Holding(h)' /\ ~ThreadOn(h)'
  BY Zenon, <1>1, <1>3 DEF Holding, ThreadOn
<1>4. ASSUME NEW h \in Hosts, ProcOf[h] # p
      PROVE  /\ pc'[h] = pc[h]
             /\ (Holding(h)' <=> Holding(h)) /\ (ThreadOn(h)' <=> ThreadOn(h))
             /\ \A c \in Cunits : wpc'[ProcOf[h]][c] = wpc[ProcOf[h]][c]
                               /\ stop_flag'[ProcOf[h]][c] = stop_flag[ProcOf[h]][c]
  BY Zenon, <1>1, <1>4 DEF CtlType, Holding, ThreadOn
<1>5. Ownership'
  <2>1. ASSUME NEW h \in Hosts, Holding(h)' PROVE (owner[cu[h]] = h)'
    <3>1. ProcOf[h] # p /\ Holding(h) /\ cu[h] \in Cunits
      BY Zenon, <1>3, <1>4, <2>1 DEF CtlType
    <3>2. owner[cu[h]] = h BY Zenon, <3>1 DEF Ownership
    <3> QED BY Zenon, <1>1, <3>1, <3>2
  <2>2. ASSUME NEW d \in Cunits, (owner[d] # NoHost)'
        PROVE  (Holding(owner[d]) /\ cu[owner[d]] = d)'
    <3>0. owner[d] # NoHost /\ ProcOf[owner[d]] # p /\ owner'[d] = owner[d] BY Zenon, <1>1, <2>2
    <3>1. PICK g \in Hosts : g = owner[d] /\ Holding(g) /\ cu[g] = d BY Zenon, <3>0, OwnerOf
    <3>3. owner'[d] = g /\ Holding(g)' /\ cu'[g] = d BY Zenon, <1>1, <1>4, <3>0, <3>1
    <3> QED BY Zenon, <3>1, <3>3
  <2> QED BY Zenon, <2>1, <2>2 DEF Ownership
<1>6. Threads'
  <2>1. ASSUME NEW q \in Procs, NEW d \in Cunits, (wpc[q][d] # "off")'
        PROVE  (owner[d] # NoHost /\ ProcOf[owner[d]] = q /\ ThreadOn(owner[d]))'
    <3>1. q # p /\ wpc[q][d] # "off" BY Zenon, <1>1, <2>1 DEF CtlType
    <3>2. PICK g \in Hosts : g = owner[d] /\ ProcOf[g] = q /\ ThreadOn(g)
      BY <3>1, WorkerOwner, Zenon
    <3>3. owner'[d] = g BY Zenon, <1>1, <3>1, <3>2
    <3>4. ThreadOn(g)' BY Zenon, <1>4, <3>1, <3>2
    <3> QED BY Zenon, <3>2, <3>3, <3>4
  <2>2. ASSUME NEW h \in Hosts, ThreadOn(h)'
        PROVE  (/\ wpc[ProcOf[h]][cu[h]] # "off"
                /\ pc[h] # "join" => /\ ~stop_flag[ProcOf[h]][cu[h]]
                                     /\ wpc[ProcOf[h]][cu[h]] # "done")'
    <3>1. ProcOf[h] # p /\ ThreadOn(h) BY Zenon, <1>3, <1>4, <2>2
    <3> QED BY <1>1, <1>4, <3>1 DEF Threads, CtlType
  <2> QED BY Zenon, <2>1, <2>2 DEF Threads
<1>7. Handshake'
  <2>1. ASSUME NEW h \in Hosts PROVE HandshakeOf(h)'
    <3>1. CASE ProcOf[h] = p BY Zenon, <1>3, <3>1 DEF HandshakeOf, Quiet, Busy
    <3>2. CASE ProcOf[h] # p
      BY Zenon, <1>1, <1>4, <3>2 DEF CtlType, Handshake, HandshakeOf, Quiet, Busy
    <3> QED BY Zenon, <3>1, <3>2
  <2> QED BY Zenon, <2>1 DEF Handshake
<1>8. Buffers'
  <2>1. NumBufs - 1 # 0 BY BufAssumption
  <2> QED BY Zenon, <1>1, <2>1, SMTT(60) DEF Buffers, CtlType
<1> QED BY Zenon, <1>2, <1>5, <1>6, <1>7, <1>8 DEF IInv

\* Every step of the system keeps the invariant.
LEMMA NextPreserves == IInv /\ [Next]_vars => IInv'
<1> SUFFICES ASSUME IInv, [Next]_vars PROVE IInv'
  BY Zenon
<1>1. CASE UNCHANGED vars
  <2>1. UNCHANGED <<owner, exec_sls, psum_poll, rd, wr, stop_flag, wpc, wbuf, pc, cu, step, req>>
    BY Zenon, <1>1 DEF vars, regVars, simVars, thrVars, hostData
  <2>2. CtlType' BY Zenon, <2>1 DEF IInv, CtlType
  <2>3. Ownership' BY Zenon, <2>1 DEF IInv, Ownership, Holding
  <2>4. Threads' BY Zenon, <2>1 DEF IInv, Threads, Holding, ThreadOn
  <2>5. Handshake' BY <2>1, ZenonT(30) DEF IInv, Handshake, HandshakeOf, Quiet, Busy
  <2>6. Buffers' BY Zenon, <2>1 DEF IInv, Buffers
  <2> QED BY Zenon, <2>2, <2>3, <2>4, <2>5, <2>6 DEF IInv
<1>2. CASE \E h \in Hosts : StartOp(h) \/ Acquire(h) \/ Throw(h) \/ HostStep(h)
  <2>1. PICK h \in Hosts : StartOp(h) \/ Acquire(h) \/ Throw(h) \/ HostStep(h) BY Zenon, <1>2
  <2>2. CASE StartOp(h) BY Zenon, <2>2, StartOpPreserves
  <2>3. CASE Acquire(h) BY Zenon, <2>3, AcquirePreserves
  <2>4. CASE Release(h) BY Zenon, <2>4, ReleasePreserves
  <2>5. CASE (Throw(h) \/ HostStep(h)) /\ ~Release(h)
    <3>1. Holding(h)
      BY Zenon, <2>5 DEF Holding, Throw, HostStep, ResetPoll, ResetExec, EnableThread, ClearBuffers,
                  Generate, Wait, WriteInst, ShiftBuffers, ArmPoll, StartExec, CopyOut,
                  CleanRead, WaitDummy, StopThread, JoinThread
    <3> QED BY Zenon, <2>5, <3>1, HolderPreserves
  <2> QED BY Zenon, <2>1, <2>2, <2>3, <2>4, <2>5 DEF HostStep
<1>3. CASE \E p \in Procs, c \in Cunits : WorkerStep(p, c)
  BY Zenon, <1>3, WorkerPreserves
<1>4. CASE \E p \in Procs : Crash(p) BY Zenon, <1>4, CrashPreserves
<1>5. CASE Finished BY Zenon, <1>1, <1>5 DEF Finished
<1> QED BY Zenon, <1>1, <1>2, <1>3, <1>4, <1>5 DEF Next

\* The inductive invariant holds of every behaviour.
THEOREM Invariant == Spec => []IInv
BY InitIInv, NextPreserves, PTL DEF Spec

\* Two hosts inside run_on_pack never share a compute unit, and the driver's
\* record of a unit's owner is the host that really holds it.
THEOREM UnitsAreExclusive == Spec => []UnitExclusive
<1>1. IInv => UnitExclusive
  BY Zenon, HostAssumption DEF IInv, Ownership, UnitExclusive, CtlType
<1> QED BY <1>1, Invariant, PTL

\* release_cunit ends the simulator's thread before the driver gets the unit
\* back, so a worker never runs on a unit that its process does not hold.
THEOREM WorkersAreOwned == Spec => []WorkerOwned
<1>1. IInv => WorkerOwned BY Zenon DEF IInv, Threads, WorkerOwned
<1> QED BY <1>1, Invariant, PTL

\* The errors that enable_thread and disable_thread throw are never raised.
THEOREM ThreadControlsAreUsedInTurn == Spec => []ThreadControlsMatch
<1>1. ASSUME IInv PROVE ThreadControlsMatch
  <2>1. ASSUME NEW h \in Hosts, pc[h] = "enableThread" PROVE wpc[ProcOf[h]][cu[h]] = "off"
    <3>1. Holding(h) /\ ~ThreadOn(h) BY Zenon, <2>1 DEF Holding, ThreadOn
    <3> QED BY Zenon, <1>1, <3>1, HolderView DEF LocalInv
  <2>2. ASSUME NEW h \in Hosts, pc[h] \in {"stopThread", "join"}
        PROVE  wpc[ProcOf[h]][cu[h]] # "off"
    <3>1. Holding(h) /\ ThreadOn(h) BY Zenon, <2>2 DEF Holding, ThreadOn
    <3> QED BY Zenon, <1>1, <3>1, HolderView DEF LocalInv
  <2> QED BY Zenon, <2>1, <2>2 DEF ThreadControlsMatch
<1> QED BY <1>1, Invariant, PTL

\* The host and exec_trace never touch the same output buffer, the instruction
\* buffer or the buffer indices at the same time.
THEOREM HostAndWorkerDoNotRace == Spec => []NoRace
<1>1. ASSUME IInv PROVE NoRace
  <2>1. SUFFICES ASSUME NEW h \in Hosts, Holding(h), wpc[ProcOf[h]][cu[h]] = "exec"
                 PROVE  /\ pc[h] \notin {"clear", "write", "shift", "armPoll", "start", "release"}
                        /\ wbuf[ProcOf[h]][cu[h]] # rd[ProcOf[h]][cu[h]]
    BY Zenon DEF NoRace
  <2>2. LocalInv(h) BY Zenon, <1>1, <2>1, HolderView
  <2>3. ThreadOn(h) /\ HandshakeOf(h) BY Zenon, <2>1, <2>2 DEF LocalInv
  <2>4. pc[h] # "release" BY Zenon, <2>3 DEF ThreadOn
  <2>5. ~Quiet(h) BY Zenon, <2>1, <2>3 DEF HandshakeOf
  <2>6. wbuf[ProcOf[h]][cu[h]] # rd[ProcOf[h]][cu[h]] BY Zenon, <2>1, <2>2 DEF LocalInv
  <2> QED BY Zenon, <2>4, <2>5, <2>6 DEF Quiet
<1> QED BY <1>1, Invariant, PTL

-----------------------------------------------------------------------------
(* Types.                                                                  *)

\* The memory of a compute unit and the dirty ranges of its simulator.
UnitMem   == [Blocks -> [Bufs -> [RowIdx -> Seq(Ids)]]]
UnitDirty == [Blocks -> [Bufs -> Ranges]]

DataType ==
  /\ inst \in [Cunits -> Traces]
  /\ mem \in [Cunits -> UnitMem]
  /\ dirty \in [Procs -> [Cunits -> UnitDirty]]
  /\ wrow \in [Procs -> [Cunits -> 0 .. NumRows]]
  /\ blk \in [Hosts -> Blocks]
  /\ failed \in [Hosts -> BOOLEAN]

\* The trace in an instruction buffer stays inside the output buffers, and a
\* worker that executes has a row of it left.
Fits ==
  /\ \A c \in Cunits : inst[c].first + inst[c].n <= NumRows
  /\ \A p \in Procs, c \in Cunits : wpc[p][c] = "exec" => wrow[p][c] < inst[c].n

DInv == DataType /\ Fits

\* Clearing a buffer keeps the types of its rows and of its dirty range, and a
\* write inside the buffer widens the range inside it.
LEMMA RangeFacts ==
  /\ \A d \in Ranges, rows \in [RowIdx -> Seq(Ids)] : Cleared(d, rows) \in [RowIdx -> Seq(Ids)]
  /\ \A d \in Ranges : ClearedRange(d) \in Ranges
  /\ \A d \in Ranges, r \in RowIdx : Widened(d, r) \in Ranges
<1>0. NumRows \in Nat BY Zenon, RowAssumption
<1>1. ASSUME NEW d \in Ranges, NEW rows \in [RowIdx -> Seq(Ids)]
      PROVE  Cleared(d, rows) \in [RowIdx -> Seq(Ids)]
  <2>1. <<>> \in Seq(Ids) OBVIOUS
  <2> QED BY Zenon, <2>1 DEF Cleared
<1>2. ASSUME NEW d \in Ranges PROVE ClearedRange(d) \in Ranges
  BY <1>0 DEF ClearedRange, NotDirty, Ranges
<1>3. ASSUME NEW d \in Ranges, NEW r \in RowIdx PROVE Widened(d, r) \in Ranges
  BY <1>0 DEF Widened, Ranges, RowIdx
<1> QED BY Zenon, <1>1, <1>2, <1>3

\* Every trace that is ever in an instruction buffer fits into the buffers.
LEMMA TraceFacts ==
  /\ StaleTrace \in Traces /\ StaleTrace.first + StaleTrace.n <= NumRows
  /\ \A h \in Hosts, i \in Nat \ {0} : req[h] \in Reqs =>
       TraceOf(h, i) \in Traces /\ TraceOf(h, i).first + TraceOf(h, i).n <= NumRows
<1> USE RowAssumption
<1>0. NumRows \in Nat /\ NumRows >= 1 /\ DummyRow \in RowIdx /\ DummyRow + 1 <= NumRows
      /\ 0 \in RowIdx
  BY DEF RowIdx
<1>1. Dummy \in Ids /\ Garbage \in Ids BY Zenon DEF Dummy, Garbage, Ids
<1>2. StaleTrace \in Traces /\ StaleTrace.first + StaleTrace.n <= NumRows
  BY <1>0, <1>1 DEF StaleTrace, Traces, Blocks, Service!Blocks
<1>3. ASSUME NEW h \in Hosts, NEW i \in Nat \ {0}, req[h] \in Reqs
      PROVE  TraceOf(h, i) \in Traces /\ TraceOf(h, i).first + TraceOf(h, i).n <= NumRows
  <2>1. CASE i <= Execs(h)
    <3>1. req[h].rows \in Seq(1 .. NumRows) /\ req[h].no \in Nat BY Zenon, <1>3 DEF Reqs
    <3>2. req[h].rows[i] \in 1 .. NumRows BY <2>1, <3>1 DEF Execs
    <3>3. Service!TraceId(h, req[h], i) \in Ids BY Zenon, <3>1 DEF Service!TraceId, Ids
    <3>4. Outputs(h) \in SUBSET Blocks BY Zenon DEF Outputs, Service!Outputs, Blocks, Service!Blocks
    <3>5. TraceOf(h, i) = ExecTrace(h, i) BY Zenon, <2>1 DEF TraceOf
    <3> QED BY <1>0, <3>2, <3>3, <3>4, <3>5, SMTT(60) DEF ExecTrace, Traces
  <2>2. CASE ~(i <= Execs(h))
    BY <1>0, <1>1, <2>2 DEF TraceOf, DummyTrace, Traces, Blocks, Service!Blocks
  <2> QED BY Zenon, <2>1, <2>2
<1> QED BY Zenon, <1>2, <1>3

\* The initial states satisfy the invariant.
LEMMA InitDInv == Init => DInv
<1> SUFFICES ASSUME Init PROVE DInv
  BY Zenon
<1>1. inst \in [Cunits -> Traces] BY Zenon, TraceFacts DEF Init
<1>2. mem \in [Cunits -> UnitMem]
  <2>1. <<Garbage>> \in Seq(Ids) BY DEF Garbage, Ids
  <2> QED BY Zenon, <2>1 DEF Init, UnitMem
<1>3. dirty \in [Procs -> [Cunits -> UnitDirty]]
  <2>1. FullyDirty \in Ranges BY RowAssumption DEF FullyDirty, Ranges
  <2> QED BY Zenon, <2>1 DEF Init, UnitDirty
<1>4. wrow \in [Procs -> [Cunits -> 0 .. NumRows]] BY RowAssumption DEF Init
<1>5. blk \in [Hosts -> Blocks] /\ failed \in [Hosts -> BOOLEAN]
  BY Zenon DEF Init, Blocks, Service!Blocks
<1>6. Fits BY Zenon, TraceFacts DEF Init, Fits
<1> QED BY Zenon, <1>1, <1>2, <1>3, <1>4, <1>5, <1>6 DEF DInv, DataType

\* A step that leaves the data alone and starts no trace preserves the types.
LEMMA TamePreserves ==
  ASSUME DInv, UNCHANGED <<inst, mem, dirty, wrow>>,
         blk' \in [Hosts -> Blocks], failed' \in [Hosts -> BOOLEAN],
         \A p \in Procs, c \in Cunits : wpc'[p][c] = "exec" => wpc[p][c] = "exec"
  PROVE  DInv'
BY Zenon DEF DInv, DataType, Fits

\* The control effect of a host's step on the workers: it starts none of their
\* traces.
LEMMA HostStartsNoTrace ==
  ASSUME CtlType, NEW h \in Hosts, StartOp(h) \/ Acquire(h) \/ Throw(h) \/ HostStep(h)
  PROVE  \A p \in Procs, c \in Cunits : wpc'[p][c] = "exec" => wpc[p][c] = "exec"
<1>1. CASE EnableThread(h) BY Zenon, <1>1, HostAssumption DEF EnableThread, CtlType
<1>2. CASE JoinThread(h) BY Zenon, <1>2, HostAssumption DEF JoinThread, CtlType
<1>3. CASE /\ ~EnableThread(h) /\ ~JoinThread(h)
  <2>1. wpc' = wpc
    BY Zenon, <1>3 DEF StartOp, Acquire, Throw, HostStep, ResetPoll, ResetExec, ClearBuffers,
                Generate, Wait, WriteInst, ShiftBuffers, ArmPoll, StartExec, CopyOut,
                CleanRead, WaitDummy, StopThread, Release, thrVars
  <2> QED BY Zenon, <2>1
<1> QED BY Zenon, <1>1, <1>2, <1>3

\* Every step of a host preserves the types.
LEMMA HostPreservesTypes ==
  ASSUME IInv, DInv, NEW h \in Hosts, StartOp(h) \/ Acquire(h) \/ Throw(h) \/ HostStep(h)
  PROVE  DInv'
<1>0. /\ \A p \in Procs, c \in Cunits : wpc'[p][c] = "exec" => wpc[p][c] = "exec"
      /\ blk \in [Hosts -> Blocks] /\ failed \in [Hosts -> BOOLEAN]
      /\ cu[h] \in Cunits /\ ProcOf[h] \in Procs
      /\ "PSUM" \in Blocks /\ "TAGS" \in Blocks
  BY Zenon, HostStartsNoTrace, HostAssumption DEF IInv, CtlType, DInv, DataType, Blocks, Service!Blocks
<1>1. CASE ClearBuffers(h)
  <2> DEFINE p == ProcOf[h]  c == cu[h]
             m == [b \in Blocks |-> [k \in Bufs |-> Cleared(dirty[p][c][b][k], mem[c][b][k])]]
             r == [b \in Blocks |-> [k \in Bufs |-> ClearedRange(dirty[p][c][b][k])]]
  <2>1. mem' = [mem EXCEPT ![c] = m] /\ dirty' = [dirty EXCEPT ![p][c] = r]
        /\ UNCHANGED <<inst, wrow, blk, failed>>
    BY Zenon, <1>1 DEF ClearBuffers, thrVars, hostData
  <2>2. mem[c] \in UnitMem /\ dirty[p][c] \in UnitDirty BY Zenon, <1>0 DEF DInv, DataType
  <2>3. m \in UnitMem /\ r \in UnitDirty
    <3>1. ASSUME NEW b \in Blocks, NEW k \in Bufs
          PROVE  /\ Cleared(dirty[p][c][b][k], mem[c][b][k]) \in [RowIdx -> Seq(Ids)]
                 /\ ClearedRange(dirty[p][c][b][k]) \in Ranges
      <4>1. mem[c][b][k] \in [RowIdx -> Seq(Ids)] BY Zenon, <2>2 DEF UnitMem
      <4>2. dirty[p][c][b][k] \in Ranges BY Zenon, <2>2 DEF UnitDirty
      <4> QED BY Zenon, <4>1, <4>2, RangeFacts
    <3>2. m \in UnitMem BY Zenon, <3>1 DEF UnitMem
    <3> QED BY Zenon, <3>1, <3>2 DEF UnitDirty
  <2>4. mem' \in [Cunits -> UnitMem] BY Zenon, <1>0, <2>1, <2>3 DEF DInv, DataType
  <2>5. dirty' \in [Procs -> [Cunits -> UnitDirty]]
    <3> HIDE DEF m, r
    <3> QED BY <1>0, <2>1, <2>3, UpdateCell, SMTT(60) DEF DInv, DataType
  <2> QED BY Zenon, <1>0, <2>1, <2>4, <2>5 DEF DInv, DataType, Fits
<1>2. CASE CleanRead(h)
  <2> DEFINE p == ProcOf[h]  c == cu[h]  b == blk[h]  k == rd[p][c]
  <2>1. /\ mem' = [mem EXCEPT ![c][b][k] = Cleared(dirty[p][c][b][k], mem[c][b][k])]
        /\ dirty' = [dirty EXCEPT ![p][c][b][k] = ClearedRange(dirty[p][c][b][k])]
        /\ UNCHANGED <<inst, wrow, failed>>
        /\ blk' = blk \/ blk' = [blk EXCEPT ![h] = "TAGS"]
    BY Zenon, <1>2 DEF CleanRead, thrVars
  <2>2. b \in Blocks /\ k \in Bufs BY Zenon, <1>0 DEF IInv, CtlType
  <2>3. mem[c] \in UnitMem /\ dirty[p][c] \in UnitDirty BY Zenon, <1>0 DEF DInv, DataType
  <2>4. /\ Cleared(dirty[p][c][b][k], mem[c][b][k]) \in [RowIdx -> Seq(Ids)]
        /\ ClearedRange(dirty[p][c][b][k]) \in Ranges
    BY Zenon, <2>2, <2>3, RangeFacts DEF UnitMem, UnitDirty
  <2>5. mem' \in [Cunits -> UnitMem]
    <3>1. [mem[c] EXCEPT ![b][k] = Cleared(dirty[p][c][b][k], mem[c][b][k])] \in UnitMem
      BY Zenon, <2>2, <2>3, <2>4 DEF UnitMem
    <3>2. mem' = [mem EXCEPT ![c] =
                   [mem[c] EXCEPT ![b][k] = Cleared(dirty[p][c][b][k], mem[c][b][k])]]
      BY Zenon, <1>0, <2>1 DEF DInv, DataType
    <3> QED BY Zenon, <1>0, <3>1, <3>2 DEF DInv, DataType
  <2>6. dirty' \in [Procs -> [Cunits -> UnitDirty]]
    <3>1. [dirty[p][c] EXCEPT ![b][k] = ClearedRange(dirty[p][c][b][k])] \in UnitDirty
      BY Zenon, <2>2, <2>3, <2>4 DEF UnitDirty
    <3>2. dirty' = [dirty EXCEPT ![p][c] =
                     [dirty[p][c] EXCEPT ![b][k] = ClearedRange(dirty[p][c][b][k])]]
      BY Zenon, <1>0, <2>1 DEF DInv, DataType
    <3> DEFINE v == [dirty[p][c] EXCEPT ![b][k] = ClearedRange(dirty[p][c][b][k])]
    <3>3. v \in UnitDirty /\ dirty' = [dirty EXCEPT ![p][c] = v] BY Zenon, <3>1, <3>2
    <3> HIDE DEF v
    <3> QED BY <1>0, <3>3, UpdateCell DEF DInv, DataType
  <2>7. blk' \in [Hosts -> Blocks] BY Zenon, <1>0, <2>1
  <2> QED BY Zenon, <1>0, <2>1, <2>5, <2>6, <2>7 DEF DInv, DataType, Fits
<1>3. CASE WriteInst(h)
  <2> DEFINE c == cu[h]
  <2>1. /\ inst' = [inst EXCEPT ![c] = TraceOf(h, step[h])] /\ pc[h] = "write"
        /\ UNCHANGED <<mem, dirty, wpc, wrow, blk, failed>>
    BY Zenon, <1>3 DEF WriteInst, simVars, thrVars, hostData
  <2>2. req[h] \in Reqs /\ step[h] \in Nat \ {0} BY Zenon DEF IInv, CtlType
  <2>3. TraceOf(h, step[h]) \in Traces
        /\ TraceOf(h, step[h]).first + TraceOf(h, step[h]).n <= NumRows
    BY Zenon, <2>2, TraceFacts
  <2>4. ASSUME NEW p \in Procs PROVE wpc[p][c] # "exec"
    <3>1. Holding(h) /\ Quiet(h) BY Zenon, <2>1 DEF Holding, Quiet
    <3>2. wpc[ProcOf[h]][c] # "exec" BY Zenon, <3>1, HolderView DEF LocalInv, HandshakeOf
    <3>3. CASE p # ProcOf[h]
      BY <1>0, <3>1, <3>3, WorkerView, SMTT(60) DEF IInv, Ownership
    <3> QED BY Zenon, <3>2, <3>3
  <2>5. inst' \in [Cunits -> Traces] BY Zenon, <1>0, <2>1, <2>3 DEF DInv, DataType
  <2>6. Fits' BY Zenon, <1>0, <2>1, <2>3, <2>4 DEF DInv, DataType, Fits
  <2> QED BY Zenon, <2>1, <2>5, <2>6 DEF DInv, DataType
<1>4. CASE ~ClearBuffers(h) /\ ~CleanRead(h) /\ ~WriteInst(h)
  <2>1. UNCHANGED <<inst, mem, dirty, wrow>>
    BY Zenon, <1>4 DEF StartOp, Acquire, Throw, HostStep, ResetPoll, ResetExec, EnableThread,
                Generate, Wait, ShiftBuffers, ArmPoll, StartExec, CopyOut,
                WaitDummy, StopThread, JoinThread, Release, thrVars, simVars
  <2>2. blk' = blk \/ blk' = [blk EXCEPT ![h] = "PSUM"]
    BY Zenon, <1>4 DEF StartOp, Acquire, Throw, HostStep, ResetPoll, ResetExec, EnableThread,
                Generate, Wait, ShiftBuffers, ArmPoll, StartExec, CopyOut,
                WaitDummy, StopThread, JoinThread, Release, hostData
  <2>3. \/ failed' = failed \/ failed' = [failed EXCEPT ![h] = TRUE]
        \/ failed' = [failed EXCEPT ![h] = FALSE]
    BY Zenon, <1>4 DEF StartOp, Acquire, Throw, HostStep, ResetPoll, ResetExec, EnableThread,
                Generate, Wait, ShiftBuffers, ArmPoll, StartExec, CopyOut,
                WaitDummy, StopThread, JoinThread, Release, hostData
  <2>4. blk' \in [Hosts -> Blocks] /\ failed' \in [Hosts -> BOOLEAN] BY ZenonT(30), <1>0, <2>2, <2>3
  <2> QED BY Zenon, <1>0, <2>1, <2>4, TamePreserves
<1> QED BY Zenon, <1>1, <1>2, <1>3, <1>4

\* Every step of a worker preserves the types.
LEMMA WorkerPreservesTypes ==
  ASSUME IInv, DInv, NEW p \in Procs, NEW c \in Cunits, WorkerStep(p, c)
  PROVE  DInv'
<1>0. /\ blk \in [Hosts -> Blocks] /\ failed \in [Hosts -> BOOLEAN] /\ NumRows \in Nat
      /\ wrow \in [Procs -> [Cunits -> 0 .. NumRows]] /\ inst[c] \in Traces
      /\ wpc \in [Procs -> [Cunits -> WorkerPC]]
  BY Zenon, RowAssumption DEF IInv, CtlType, DInv, DataType
<1>1. CASE WorkerExec(p, c)
  <2> DEFINE t == inst[c]  k == wbuf[p][c]  r == t.first + wrow[p][c]
             m == [b \in Blocks |-> IF b \in t.blocks
                     THEN [mem[c][b] EXCEPT ![k][r] = Append(mem[c][b][k][r], t.id)] ELSE mem[c][b]]
             d == [b \in Blocks |-> IF b \in t.blocks
                     THEN [dirty[p][c][b] EXCEPT ![k] = Widened(dirty[p][c][b][k], r)]
                     ELSE dirty[p][c][b]]
  <2>0. /\ wpc[p][c] = "exec" /\ wrow' = [wrow EXCEPT ![p][c] = wrow[p][c] + 1]
        /\ wpc' = [wpc EXCEPT ![p][c] = IF wrow[p][c] + 1 < t.n THEN "exec" ELSE "disarm"]
        /\ UNCHANGED <<inst, blk, failed>>
    BY Zenon, <1>0, <1>1 DEF WorkerExec, WGoto, hostData
  <2>1. mem' = [mem EXCEPT ![c] = m]
    BY Zenon, <1>1 DEF WorkerExec
  <2>2. dirty' = [dirty EXCEPT ![p][c] = d]
    BY Zenon, <1>1 DEF WorkerExec
  <2>3. /\ t.first \in Nat /\ t.n \in 1 .. NumRows /\ t.id \in Ids
        /\ wrow[p][c] \in Nat /\ wrow[p][c] < t.n /\ t.first + t.n <= NumRows
        /\ wrow[p][c] + 1 \in 0 .. NumRows /\ r \in RowIdx
    BY <1>0, <2>0, SMTT(60) DEF DInv, Fits, Traces, RowIdx
  <2>4. k \in Bufs /\ mem[c] \in UnitMem /\ dirty[p][c] \in UnitDirty
    BY Zenon DEF IInv, CtlType, DInv, DataType
  <2>5. m \in UnitMem
    <3>1. ASSUME NEW b \in Blocks PROVE m[b] \in [Bufs -> [RowIdx -> Seq(Ids)]]
      <4>1. mem[c][b] \in [Bufs -> [RowIdx -> Seq(Ids)]] BY Zenon, <2>4 DEF UnitMem
      <4>2. Append(mem[c][b][k][r], t.id) \in Seq(Ids)
        <5>1. mem[c][b][k][r] \in Seq(Ids) BY Zenon, <2>3, <2>4, <4>1
        <5>2. ASSUME NEW q \in Seq(Ids), NEW x \in Ids PROVE Append(q, x) \in Seq(Ids)
          <6> HIDE DEF m, d, t, k, r
          <6> QED OBVIOUS
        <5> QED BY Zenon, <2>3, <5>1, <5>2
      <4>3. [mem[c][b] EXCEPT ![k][r] = Append(mem[c][b][k][r], t.id)]
              \in [Bufs -> [RowIdx -> Seq(Ids)]]
        <5> DEFINE v == Append(mem[c][b][k][r], t.id)  f == mem[c][b]
        <5>1. v \in Seq(Ids) /\ f \in [Bufs -> [RowIdx -> Seq(Ids)]] BY Zenon, <4>1, <4>2
        <5> HIDE DEF v, f
        <5>2. [f[k] EXCEPT ![r] = v] \in [RowIdx -> Seq(Ids)] BY Zenon, <2>3, <2>4, <5>1
        <5>3. [f EXCEPT ![k] = [f[k] EXCEPT ![r] = v]] \in [Bufs -> [RowIdx -> Seq(Ids)]]
          BY Zenon, <2>4, <5>1, <5>2
        <5>4. [f EXCEPT ![k][r] = v] = [f EXCEPT ![k] = [f[k] EXCEPT ![r] = v]]
          BY Zenon, <2>4, <5>1
        <5> QED BY Zenon, <5>3, <5>4 DEF v, f
      <4> QED BY Zenon, <4>1, <4>3
    <3> QED BY Zenon, <3>1 DEF UnitMem
  <2>6. d \in UnitDirty
    <3>1. ASSUME NEW b \in Blocks PROVE d[b] \in [Bufs -> Ranges]
      <4>1. dirty[p][c][b] \in [Bufs -> Ranges] BY Zenon, <2>4 DEF UnitDirty
      <4>2. Widened(dirty[p][c][b][k], r) \in Ranges BY Zenon, <2>3, <2>4, <4>1, RangeFacts
      <4> QED BY Zenon, <2>4, <4>1, <4>2
    <3> QED BY Zenon, <3>1 DEF UnitDirty
  <2>7. mem' \in [Cunits -> UnitMem]
    <3> HIDE DEF m
    <3> QED BY Zenon, <2>1, <2>5 DEF DInv, DataType
  <2>8. dirty' \in [Procs -> [Cunits -> UnitDirty]]
    <3> HIDE DEF d
    <3> QED BY Zenon, <2>2, <2>6, UpdateCell DEF DInv, DataType
  <2>9. wrow' \in [Procs -> [Cunits -> 0 .. NumRows]] BY Zenon, <1>0, <2>0, <2>3, UpdateCell
  <2>10. Fits'
    <3>1. ASSUME NEW q \in Procs, NEW e \in Cunits, wpc'[q][e] = "exec"
          PROVE  wrow'[q][e] < inst[e].n
      <4>1. CASE q = p /\ e = c BY Zenon, <1>0, <2>0, <3>1, <4>1
      <4>2. CASE q # p \/ e # c BY Zenon, <1>0, <2>0, <3>1, <4>2 DEF DInv, Fits
      <4> QED BY Zenon, <4>1, <4>2
    <3> QED BY Zenon, <2>0, <3>1 DEF DInv, Fits
  <2> QED BY Zenon, <2>0, <2>7, <2>8, <2>9, <2>10 DEF DInv, DataType
<1>2. CASE WorkerLoad(p, c) /\ exec_sls[c] = "ENABLE"
  <2>1. /\ wrow' = [wrow EXCEPT ![p][c] = 0] /\ wpc' = [wpc EXCEPT ![p][c] = "exec"]
        /\ UNCHANGED <<inst, mem, dirty, blk, failed>>
    BY Zenon, <1>2 DEF WorkerLoad, WGoto, simVars, hostData
  <2>2. wrow' \in [Procs -> [Cunits -> 0 .. NumRows]]
    <3>1. 0 \in 0 .. NumRows BY <1>0
    <3> QED BY Zenon, <1>0, <2>1, <3>1, UpdateCell
  <2>3. inst[c].n \in Nat /\ 0 < inst[c].n BY <1>0, SMTT(60) DEF Traces
  <2>4. Fits'
    <3>1. ASSUME NEW q \in Procs, NEW e \in Cunits, wpc'[q][e] = "exec"
          PROVE  wrow'[q][e] < inst[e].n
      <4>1. CASE q = p /\ e = c BY Zenon, <1>0, <2>1, <2>3, <3>1, <4>1
      <4>2. CASE q # p \/ e # c BY Zenon, <1>0, <2>1, <3>1, <4>2 DEF DInv, Fits
      <4> QED BY Zenon, <4>1, <4>2
    <3> QED BY Zenon, <2>1, <3>1 DEF DInv, Fits
  <2> QED BY Zenon, <2>1, <2>2, <2>4 DEF DInv, DataType
<1>3. CASE ~WorkerExec(p, c) /\ ~(WorkerLoad(p, c) /\ exec_sls[c] = "ENABLE")
  <2>1. /\ UNCHANGED <<inst, mem, dirty, wrow, blk, failed>>
        /\ \E l \in WorkerPC \ {"exec"} : wpc' = [wpc EXCEPT ![p][c] = l]
    BY Zenon, <1>3 DEF WorkerStep, WorkerBegin, WorkerCheckStop, WorkerLoad, WorkerComplete, WGoto,
                simVars, hostData, WorkerPC
  <2>2. \A q \in Procs, e \in Cunits : wpc'[q][e] = "exec" => wpc[q][e] = "exec"
    BY <1>0, <2>1
  <2> QED BY Zenon, <1>0, <2>1, <2>2, TamePreserves
<1> QED BY Zenon, <1>1, <1>2, <1>3

\* Every step of the system preserves the types.
LEMMA NextPreservesTypes == IInv /\ DInv /\ [Next]_vars => DInv'
<1> SUFFICES ASSUME IInv, DInv, [Next]_vars PROVE DInv'
  BY Zenon
<1>1. CASE UNCHANGED vars
  BY Zenon, <1>1 DEF vars, simVars, thrVars, hostData, DInv, DataType, Fits
<1>2. CASE \E h \in Hosts : StartOp(h) \/ Acquire(h) \/ Throw(h) \/ HostStep(h)
  BY Zenon, <1>2, HostPreservesTypes
<1>3. CASE \E p \in Procs, c \in Cunits : WorkerStep(p, c)
  BY Zenon, <1>3, WorkerPreservesTypes
<1>4. CASE \E p \in Procs : Crash(p)
  <2>1. PICK p \in Procs : Crash(p) BY Zenon, <1>4
  <2>2. /\ UNCHANGED <<inst, mem, wrow, blk, failed>>
        /\ wpc' = [wpc EXCEPT ![p] = [c \in Cunits |-> "off"]]
        /\ dirty' = [dirty EXCEPT ![p] =
             [c \in Cunits |-> [b \in Blocks |-> [k \in Bufs |-> FullyDirty]]]]
    BY Zenon, <2>1 DEF Crash, hostData
  <2>3. FullyDirty \in Ranges BY RowAssumption DEF FullyDirty, Ranges
  <2>4. [c \in Cunits |-> [b \in Blocks |-> [k \in Bufs |-> FullyDirty]]] \in [Cunits -> UnitDirty]
    BY Zenon, <2>3 DEF UnitDirty
  <2>5. dirty' \in [Procs -> [Cunits -> UnitDirty]] BY Zenon, <2>2, <2>4 DEF DInv, DataType
  <2>6. \A q \in Procs, c \in Cunits : wpc'[q][c] = "exec" => wpc[q][c] = "exec"
    BY Zenon, <2>2 DEF IInv, CtlType
  <2> QED BY Zenon, <2>2, <2>5, <2>6 DEF DInv, DataType, Fits
<1>5. CASE Finished BY Zenon, <1>1, <1>5 DEF Finished
<1> QED BY Zenon, <1>1, <1>2, <1>3, <1>4, <1>5 DEF Next

\* All of the types.
LEMMA TypesHold ==
  ASSUME IInv, DInv PROVE TypeOK
BY Zenon DEF IInv, CtlType, DInv, DataType, UnitMem, UnitDirty, TypeOK

\* Every variable of the model keeps its type; in particular every row that
\* exec_trace adds to lies inside the output buffer, and the recorded dirty
\* range never leaves it.
THEOREM TypeCorrect == Spec => []TypeOK
<1>1. IInv /\ DInv => TypeOK BY TypesHold
<1> QED BY <1>1, InitIInv, NextPreserves, InitDInv, NextPreservesTypes, PTL DEF Spec

-----------------------------------------------------------------------------
(* Traces.  From here on a leaf is Zenon's unless it names another prover. *)

USE Zenon

\* Where the worker of a host's unit is.
Worker(h) == wpc[ProcOf[h]][cu[h]]

\* The execution whose sums are in the WRITE buffer, complete or not: the one
\* before the present one until that is started.  0: none.
InWrite(h) ==
  IF pc[h] \in {"copy", "clean", "waitDummy"} THEN step[h]
  ELSE IF \/ pc[h] \in {"generate", "wait", "write", "shift"}
          \/ pc[h] \in {"stopThread", "join", "release"} /\ failed[h]
       THEN step[h] - 1 ELSE 0

\* An armed unit, and one that executes, has the trace of that execution.
Trace(h) ==
  LET w == Worker(h)  x == exec_sls[cu[h]] IN
  /\ pc[h] \in {"shift", "armPoll", "start"} => inst[cu[h]] = TraceOf(h, step[h])
  /\ w \in {"exec", "disarm"} \/ x = "ENABLE" =>
       InWrite(h) > 0 /\ inst[cu[h]] = TraceOf(h, InWrite(h))
  /\ w \in {"exec", "disarm"} => x = "ENABLE"
  /\ w = "finish" => x = "DISABLE"

TInv == \A h \in Hosts : ThreadOn(h) => Trace(h)

\* What holds in any case.
AInv == /\ IInv /\ DInv /\ TInv /\ throws \in Nat /\ crashes \in Nat
        /\ out = [h \in Hosts |-> out[h]]
        /\ \A p \in Procs, c \in Cunits : wr[p][c] = Shift(rd[p][c])

-----------------------------------------------------------------------------
(* Steps that touch one unit.                                              *)

LocalData(h) ==
  /\ owner' = owner /\ cu' = cu
  /\ \A g \in Hosts \ {h} :
       /\ pc'[g] = pc[g] /\ step'[g] = step[g] /\ req'[g] = req[g] /\ blk'[g] = blk[g]
       /\ out'[g] = out[g] /\ failed'[g] = failed[g]
  /\ \A d \in Cunits \ {cu[h]} :
       exec_sls'[d] = exec_sls[d] /\ inst'[d] = inst[d] /\ mem'[d] = mem[d]
  /\ \A q \in Procs, d \in Cunits :
       q # ProcOf[h] \/ d # cu[h] =>
         /\ wpc'[q][d] = wpc[q][d] /\ wrow'[q][d] = wrow[q][d] /\ dirty'[q][d] = dirty[q][d]
         /\ rd'[q][d] = rd[q][d] /\ wr'[q][d] = wr[q][d]

\* The steps of a host that holds a unit are such.
LEMMA HostLocal ==
  ASSUME AInv, NEW h \in Hosts, Throw(h) \/ (HostStep(h) /\ ~Release(h))
  PROVE  LocalData(h)
<1> USE HostAssumption DEF Goto, LocalData, regVars, simVars, thrVars, hostData, bounds
<1>0. /\ pc \in [Hosts -> HostPC] /\ step \in [Hosts -> Nat \ {0}] /\ cu \in [Hosts -> Cunits]
      /\ blk \in [Hosts -> Blocks] /\ failed \in [Hosts -> BOOLEAN]
      /\ out = [g \in Hosts |-> out[g]]
  BY TypesHold DEF AInv, TypeOK
<1>a. /\ exec_sls \in [Cunits -> {"ENABLE", "DISABLE"}] /\ inst \in [Cunits -> Traces]
      /\ wpc \in [Procs -> [Cunits -> WorkerPC]] /\ rd \in [Procs -> [Cunits -> Bufs]]
      /\ wr \in [Procs -> [Cunits -> Bufs]] /\ mem \in [Cunits -> UnitMem]
      /\ dirty \in [Procs -> [Cunits -> UnitDirty]]
  BY DEF AInv, IInv, CtlType, DInv, DataType
<1>1. CASE Throw(h)
  BY <1>0, <1>a, <1>1 DEF Throw
<1>2. CASE ResetPoll(h)
  BY <1>0, <1>a, <1>2 DEF ResetPoll
<1>3. CASE ResetExec(h)
  BY <1>0, <1>a, <1>3 DEF ResetExec
<1>4. CASE EnableThread(h)
  BY <1>0, <1>a, <1>4 DEF EnableThread
<1>5. CASE ClearBuffers(h)
  BY <1>0, <1>a, <1>5 DEF ClearBuffers
<1>6. CASE Generate(h)
  BY <1>0, <1>a, <1>6 DEF Generate
<1>7. CASE Wait(h)
  BY <1>0, <1>a, <1>7 DEF Wait
<1>8. CASE WriteInst(h)
  BY <1>0, <1>a, <1>8 DEF WriteInst
<1>9. CASE ShiftBuffers(h)
  BY <1>0, <1>a, <1>9 DEF ShiftBuffers
<1>10. CASE ArmPoll(h)
  BY <1>0, <1>a, <1>10 DEF ArmPoll
<1>11. CASE StartExec(h)
  BY <1>0, <1>a, <1>11 DEF StartExec
<1>12. CASE CopyOut(h)
  BY <1>0, <1>a, <1>12 DEF CopyOut
<1>13. CASE CleanRead(h)
  BY <1>0, <1>a, <1>13 DEF CleanRead
<1>14. CASE WaitDummy(h)
  BY <1>0, <1>a, <1>14 DEF WaitDummy
<1>15. CASE StopThread(h)
  BY <1>0, <1>a, <1>15 DEF StopThread
<1>16. CASE JoinThread(h)
  BY <1>0, <1>a, <1>16 DEF JoinThread
<1> QED
  BY <1>1, <1>2, <1>3, <1>4, <1>5, <1>6, <1>7, <1>8, <1>9, <1>10, <1>11, <1>12, <1>13, <1>14, <1>15, <1>16 DEF HostStep

\* So are the steps of its worker.
LEMMA WorkerStepLocal ==
  ASSUME AInv, NEW h \in Hosts, WorkerStep(ProcOf[h], cu[h])
  PROVE  LocalData(h)
<1> USE HostAssumption DEF WGoto, LocalData, regVars, simVars, thrVars, hostData, bounds
<1>a. /\ exec_sls \in [Cunits -> {"ENABLE", "DISABLE"}] /\ mem \in [Cunits -> UnitMem]
      /\ wpc \in [Procs -> [Cunits -> WorkerPC]] /\ dirty \in [Procs -> [Cunits -> UnitDirty]]
      /\ wrow \in [Procs -> [Cunits -> 0 .. NumRows]]
  BY DEF AInv, IInv, CtlType, DInv, DataType
<1>1. CASE WorkerBegin(ProcOf[h], cu[h])
  BY <1>a, <1>1 DEF WorkerBegin
<1>2. CASE WorkerCheckStop(ProcOf[h], cu[h])
  BY <1>a, <1>2 DEF WorkerCheckStop
<1>3. CASE WorkerLoad(ProcOf[h], cu[h])
  BY SMT, <1>a, <1>3 DEF WorkerLoad
<1>4. CASE WorkerExec(ProcOf[h], cu[h])
  BY <1>a, <1>4 DEF WorkerExec
<1>5. CASE WorkerComplete(ProcOf[h], cu[h])
  BY SMT, <1>a, <1>5 DEF WorkerComplete
<1> QED
  BY <1>1, <1>2, <1>3, <1>4, <1>5 DEF WorkerStep

-----------------------------------------------------------------------------
(* Traces: every step keeps TInv.                                          *)

\* The trace of a host concerns nothing but these values.
LEMMA TraceFrame ==
  ASSUME NEW g \in Hosts, Trace(g), pc'[g] = pc[g], cu'[g] = cu[g], step'[g] = step[g],
         req'[g] = req[g], failed'[g] = failed[g],
         exec_sls'[cu[g]] = exec_sls[cu[g]], inst'[cu[g]] = inst[cu[g]],
         wpc'[ProcOf[g]][cu[g]] = wpc[ProcOf[g]][cu[g]]
  PROVE  Trace(g)'
<1>1. InWrite(g)' = InWrite(g) BY DEF InWrite
<1>2. \A i : TraceOf(g, i)' = TraceOf(g, i)
  BY DEF TraceOf, ExecTrace, DummyTrace, Execs, Outputs
<1>3. /\ (Worker(g) = Worker(g))' /\ Worker(g)' = Worker(g)
      /\ (inst[cu[g]])' = inst[cu[g]] /\ (exec_sls[cu[g]])' = exec_sls[cu[g]]
      /\ (TraceOf(g, step[g]))' = TraceOf(g, step[g])
      /\ (TraceOf(g, InWrite(g)))' = TraceOf(g, InWrite(g))
  BY <1>1, <1>2 DEF Worker
<1> QED BY <1>1, <1>3 DEF Trace

\* A quiet host has a disarmed unit.
LEMMA QuietTrace ==
  ASSUME NEW h \in Hosts, HandshakeOf(h)', Quiet(h)',
         (pc[h] \in {"shift", "armPoll", "start"} => inst[cu[h]] = TraceOf(h, step[h]))'
  PROVE  Trace(h)'
<1>1. (exec_sls[cu[h]] = "DISABLE" /\ Worker(h) \in {"queued", "loop", "load"})'
  BY DEF HandshakeOf, Worker
<1> QED BY <1>1 DEF Trace

\* A host that moves on past an execution in flight keeps its trace.
LEMMA SameTrace ==
  ASSUME NEW h \in Hosts, Trace(h), InWrite(h)' = InWrite(h), cu'[h] = cu[h], req'[h] = req[h],
         exec_sls' = exec_sls, inst' = inst, wpc' = wpc,
         pc'[h] \notin {"shift", "armPoll", "start"}
  PROVE  Trace(h)'
<1>1. \A i : TraceOf(h, i)' = TraceOf(h, i)
  BY DEF TraceOf, ExecTrace, DummyTrace, Execs, Outputs
<1>2. /\ Worker(h)' = Worker(h) /\ (TraceOf(h, InWrite(h)))' = TraceOf(h, InWrite(h))
      /\ (inst[cu[h]])' = inst[cu[h]] /\ (exec_sls[cu[h]])' = exec_sls[cu[h]]
  BY <1>1 DEF Worker
<1> QED BY <1>2 DEF Trace

\* Local steps concern the trace of one host.
LEMMA TraceLocal ==
  ASSUME AInv, NEW h \in Hosts, Holding(h), LocalData(h), ThreadOn(h)' => Trace(h)'
  PROVE  TInv'
<1> SUFFICES ASSUME NEW g \in Hosts, g # h, ThreadOn(g)' PROVE Trace(g)'
  BY DEF TInv
<1>1. /\ pc'[g] = pc[g] /\ step'[g] = step[g] /\ req'[g] = req[g] /\ failed'[g] = failed[g]
      /\ cu'[g] = cu[g]
  BY DEF LocalData
<1>2. ThreadOn(g) /\ Trace(g) /\ cu[g] # cu[h] /\ cu[g] \in Cunits /\ ProcOf[g] \in Procs
  <2>1. ThreadOn(g) BY <1>1 DEF ThreadOn, Holding
  <2>2. Trace(g) BY <2>1 DEF AInv, TInv
  <2>3. owner[cu[g]] = g /\ owner[cu[h]] = h
    BY <2>1 DEF AInv, IInv, Ownership, ThreadOn
  <2> QED BY <2>1, <2>2, <2>3, HostAssumption DEF AInv, IInv, CtlType
<1>3. /\ exec_sls'[cu[g]] = exec_sls[cu[g]] /\ inst'[cu[g]] = inst[cu[g]]
      /\ wpc'[ProcOf[g]][cu[g]] = wpc[ProcOf[g]][cu[g]]
  BY <1>2 DEF LocalData
<1> QED BY <1>1, <1>2, <1>3, TraceFrame

\* What reading and clearing a block ends with: TAGS, the next execution or the
\* wait for the dummy.
LEMMA CleanFacts ==
  ASSUME AInv, NEW h \in Hosts, CleanRead(h)
  PROVE  /\ pc[h] = "clean" /\ exec_sls' = exec_sls /\ inst' = inst /\ wpc' = wpc /\ wrow' = wrow
         /\ rd' = rd /\ wr' = wr /\ cu' = cu /\ req' = req /\ out' = out /\ failed' = failed
         /\ throws' = throws /\ crashes' = crashes /\ owner' = owner
         /\ \/ /\ blk[h] = "PSUM" /\ "TAGS" \in Outputs(h) /\ blk'[h] = "TAGS"
               /\ pc'[h] = "copy" /\ step'[h] = step[h]
            \/ /\ blk[h] = "TAGS" \/ "TAGS" \notin Outputs(h)
               /\ blk' = blk /\ step[h] <= Execs(h) /\ step'[h] = step[h] + 1
               /\ pc'[h] = AfterRun(h, step[h] + 1)
            \/ /\ blk[h] = "TAGS" \/ "TAGS" \notin Outputs(h)
               /\ blk' = blk /\ ~(step[h] <= Execs(h)) /\ step'[h] = step[h]
               /\ pc'[h] = "waitDummy"
<1>0. pc \in [Hosts -> HostPC] /\ step \in [Hosts -> Nat \ {0}] /\ blk \in [Hosts -> Blocks]
  BY TypesHold DEF AInv, TypeOK
<1>1. /\ pc[h] = "clean" /\ exec_sls' = exec_sls /\ inst' = inst /\ wpc' = wpc /\ wrow' = wrow
      /\ rd' = rd /\ wr' = wr /\ cu' = cu /\ req' = req /\ out' = out /\ failed' = failed
      /\ throws' = throws /\ crashes' = crashes /\ owner' = owner
  BY DEF CleanRead, regVars, thrVars, bounds
<1>2. CASE /\ blk[h] = "PSUM" /\ "TAGS" \in Outputs(h)
           /\ blk' = [blk EXCEPT ![h] = "TAGS"] /\ Goto(h, "copy") /\ UNCHANGED step
  BY <1>0, <1>1, <1>2 DEF Goto
<1>3. CASE /\ blk[h] = "TAGS" \/ "TAGS" \notin Outputs(h)
           /\ IF step[h] <= Execs(h)
                THEN /\ step' = [step EXCEPT ![h] = @ + 1]
                     /\ Goto(h, AfterRun(h, step[h] + 1))
                ELSE Goto(h, "waitDummy") /\ UNCHANGED step
           /\ UNCHANGED blk
  <2>1. CASE step[h] <= Execs(h) BY <1>0, <1>1, <1>3, <2>1 DEF Goto
  <2>2. CASE ~(step[h] <= Execs(h)) BY <1>0, <1>1, <1>3, <2>2 DEF Goto
  <2> QED BY <2>1, <2>2
<1> QED BY <1>2, <1>3 DEF CleanRead

\* The steps of a host keep its trace.
LEMMA HostTrace ==
  ASSUME AInv, IInv', NEW h \in Hosts, Holding(h), Throw(h) \/ (HostStep(h) /\ ~Release(h))
  PROVE  ThreadOn(h)' => Trace(h)'
<1> USE HostAssumption DEF Goto
<1>0. /\ pc \in [Hosts -> HostPC] /\ step \in [Hosts -> Nat \ {0}] /\ cu[h] \in Cunits
      /\ failed \in [Hosts -> BOOLEAN] /\ inst \in [Cunits -> Traces]
      /\ exec_sls \in [Cunits -> {"ENABLE", "DISABLE"}]
      /\ ProcOf[h] \in Procs /\ step[h] \in Nat \ {0}
  BY TypesHold DEF AInv, TypeOK
<1>a. /\ ThreadOn(h) => Trace(h)
      /\ HandshakeOf(h) /\ HandshakeOf(h)'
  BY DEF AInv, TInv, IInv, Handshake
<1> DEFINE Same == /\ exec_sls' = exec_sls /\ inst' = inst /\ wpc' = wpc
                   /\ cu'[h] = cu[h] /\ req'[h] = req[h]
<1>1. CASE Throw(h)
  <2>1. Same /\ pc'[h] = "stopThread" /\ failed'[h] /\ step' = step /\ pc[h] = "generate"
    BY <1>0, <1>1 DEF Throw, regVars, simVars, thrVars
  <2>2. InWrite(h)' = InWrite(h) /\ ThreadOn(h)
    BY <2>1 DEF InWrite, ThreadOn, Holding
  <2> QED BY <1>a, <2>1, <2>2, SameTrace
<1>2. CASE ResetPoll(h)
  BY <1>0, <1>2 DEF ResetPoll, ThreadOn
<1>3. CASE ResetExec(h)
  BY <1>0, <1>3 DEF ResetExec, ThreadOn
<1>4. CASE EnableThread(h)
  <2>1. pc'[h] = "clear" BY <1>0, <1>4 DEF EnableThread
  <2> QED BY <1>a, <2>1, QuietTrace DEF Quiet
<1>5. CASE ClearBuffers(h)
  <2>1. pc'[h] = "generate" /\ step'[h] = 1
    BY <1>0, <1>a, <1>5 DEF ClearBuffers, HandshakeOf, hostData
  <2> QED BY <1>a, <2>1, QuietTrace DEF Quiet
<1>6. CASE Generate(h)
  <2>1. Same /\ step' = step /\ failed' = failed /\ pc[h] = "generate" /\ pc'[h] \in {"write", "wait"}
    BY <1>0, <1>6 DEF Generate, regVars, simVars, thrVars, hostData
  <2>2. InWrite(h)' = InWrite(h) /\ ThreadOn(h)
    BY <2>1 DEF InWrite, ThreadOn, Holding
  <2> QED BY <1>a, <2>1, <2>2, SameTrace
<1>7. CASE Wait(h)
  <2>1. pc'[h] = "write" BY <1>0, <1>7 DEF Wait
  <2> QED BY <1>a, <2>1, QuietTrace DEF Quiet
<1>8. CASE WriteInst(h)
  <2>1. /\ pc'[h] = "shift" /\ inst'[cu[h]] = TraceOf(h, step[h]) /\ step' = step
        /\ req' = req /\ cu' = cu
    BY <1>0, <1>8 DEF WriteInst, hostData
  <2>2. (TraceOf(h, step[h]))' = TraceOf(h, step[h])
    BY <2>1 DEF TraceOf, ExecTrace, DummyTrace, Execs, Outputs
  <2>3. (inst[cu[h]] = TraceOf(h, step[h]))' BY <2>1, <2>2
  <2> QED BY <1>a, <2>1, <2>3, QuietTrace DEF Quiet
<1>9. CASE ShiftBuffers(h) \/ ArmPoll(h)
  <2>1. /\ pc[h] \in {"shift", "armPoll"} /\ pc'[h] \in {"armPoll", "start"} /\ step' = step
        /\ inst' = inst /\ req' = req /\ cu' = cu
    BY <1>0, <1>9 DEF ShiftBuffers, ArmPoll, hostData
  <2>2. (TraceOf(h, step[h]))' = TraceOf(h, step[h])
    BY <2>1 DEF TraceOf, ExecTrace, DummyTrace, Execs, Outputs
  <2>3. ThreadOn(h) /\ Quiet(h)' BY <2>1 DEF ThreadOn, Holding, Quiet
  <2>4. inst[cu[h]] = TraceOf(h, step[h]) BY <1>a, <2>1, <2>3 DEF Trace
  <2>5. (inst[cu[h]] = TraceOf(h, step[h]))' BY <2>1, <2>2, <2>4
  <2> QED BY <1>a, <2>3, <2>5, QuietTrace
<1>11. CASE StartExec(h)
  <2>1. /\ pc[h] = "start" /\ exec_sls'[cu[h]] = "ENABLE"
        /\ inst' = inst /\ wpc' = wpc /\ req' = req /\ cu' = cu
        /\ \/ step[h] = 1 /\ step'[h] = 2 /\ pc'[h] \in {"generate", "wait"}
           \/ step'[h] = step[h] /\ pc'[h] = "copy"
    BY <1>0, <1>11 DEF StartExec, AfterRun, simVars, thrVars
  <2>2. InWrite(h)' = step[h] BY SMT, <1>0, <2>1 DEF InWrite
  <2>3. /\ Worker(h) \in {"queued", "loop", "load"} /\ ThreadOn(h)
        /\ pc'[h] \notin {"shift", "armPoll", "start"}
    BY <1>a, <2>1 DEF HandshakeOf, Quiet, Worker, ThreadOn, Holding
  <2>4. inst[cu[h]] = TraceOf(h, step[h]) BY <1>a, <2>1, <2>3 DEF Trace
  <2>5. \A i : TraceOf(h, i)' = TraceOf(h, i)
    BY <2>1 DEF TraceOf, ExecTrace, DummyTrace, Execs, Outputs
  <2>6. (TraceOf(h, InWrite(h)))' = TraceOf(h, step[h]) BY <2>2, <2>5
  <2>7. Worker(h)' \in {"queued", "loop", "load"} BY <2>1, <2>3 DEF Worker
  <2>8. (inst[cu[h]] = TraceOf(h, InWrite(h)))' BY <2>1, <2>4, <2>6
  <2>9. (InWrite(h) > 0)' BY SMT, <1>0, <2>2
  <2> QED BY <2>3, <2>7, <2>8, <2>9 DEF Trace
<1>12. CASE CopyOut(h)
  <2>1. Same /\ step' = step /\ failed' = failed /\ pc[h] = "copy" /\ pc'[h] = "clean"
    BY <1>0, <1>12 DEF CopyOut, regVars, simVars, thrVars, hostData
  <2>2. InWrite(h)' = InWrite(h) /\ ThreadOn(h)
    BY <2>1 DEF InWrite, ThreadOn, Holding
  <2> QED BY <1>a, <2>1, <2>2, SameTrace
<1>13. CASE CleanRead(h)
  <2>1. /\ Same /\ pc[h] = "clean"
        /\ \/ step'[h] = step[h] /\ pc'[h] \in {"copy", "waitDummy"}
           \/ step'[h] = step[h] + 1 /\ pc'[h] \in {"generate", "wait"}
    BY <1>13, CleanFacts DEF AfterRun
  <2>2. InWrite(h)' = InWrite(h) /\ ThreadOn(h)
    BY SMT, <1>0, <2>1 DEF InWrite, ThreadOn, Holding
  <2>3. pc'[h] \notin {"shift", "armPoll", "start"} BY <2>1
  <2> QED BY <1>a, <2>1, <2>2, <2>3, SameTrace
<1>14. CASE WaitDummy(h)
  <2>1. /\ pc[h] = "waitDummy" /\ pc'[h] = "stopThread" /\ exec_sls' = exec_sls /\ wpc' = wpc
        /\ cu' = cu /\ psum_poll[cu[h]] = "FINISH"
    BY <1>0, <1>14 DEF WaitDummy, regVars, thrVars, hostData
  <2>2. exec_sls[cu[h]] = "DISABLE" /\ Worker(h) \in {"loop", "load"}
    BY <1>a, <2>1 DEF HandshakeOf, Busy, Worker
  <2>3. (exec_sls[cu[h]])' = "DISABLE" /\ Worker(h)' \in {"loop", "load"}
    BY <2>1, <2>2 DEF Worker
  <2> QED BY <2>1, <2>3 DEF Trace
<1>15. CASE StopThread(h)
  <2>1. Same /\ step' = step /\ failed' = failed /\ pc[h] = "stopThread" /\ pc'[h] = "join"
    BY <1>0, <1>15 DEF StopThread, regVars, simVars, thrVars, hostData
  <2>2. InWrite(h)' = InWrite(h) /\ ThreadOn(h)
    BY <2>1 DEF InWrite, ThreadOn, Holding
  <2> QED BY <1>a, <2>1, <2>2, SameTrace
<1>16. CASE JoinThread(h)
  BY <1>0, <1>16 DEF JoinThread, ThreadOn
<1> QED
  BY <1>1, <1>2, <1>3, <1>4, <1>5, <1>6, <1>7, <1>8, <1>9, <1>11, <1>12, <1>13, <1>14,
     <1>15, <1>16 DEF HostStep

\* So do the steps of its worker.
LEMMA WorkerTrace ==
  ASSUME AInv, NEW h \in Hosts, ThreadOn(h), WorkerStep(ProcOf[h], cu[h])
  PROVE  Trace(h)'
<1> USE HostAssumption DEF WGoto
<1> DEFINE p == ProcOf[h]  c == cu[h]
<1>0. /\ wpc \in [Procs -> [Cunits -> WorkerPC]] /\ p \in Procs /\ c \in Cunits
      /\ exec_sls \in [Cunits -> {"ENABLE", "DISABLE"}]
  BY DEF AInv, IInv, CtlType
<1>1. /\ pc' = pc /\ step' = step /\ req' = req /\ cu' = cu /\ failed' = failed /\ inst' = inst
  BY DEF WorkerStep, WorkerBegin, WorkerCheckStop, WorkerLoad, WorkerExec, WorkerComplete, hostData
<1>2. \A i : TraceOf(h, i)' = TraceOf(h, i)
  BY <1>1 DEF TraceOf, ExecTrace, DummyTrace, Execs, Outputs
<1>3. InWrite(h)' = InWrite(h) BY <1>1 DEF InWrite
<1>4. /\ (TraceOf(h, InWrite(h)))' = TraceOf(h, InWrite(h)) /\ (inst[cu[h]])' = inst[c]
      /\ (TraceOf(h, step[h]))' = TraceOf(h, step[h])
      /\ Worker(h) = wpc[p][c] /\ Worker(h)' = wpc'[p][c] /\ (exec_sls[cu[h]])' = exec_sls'[c]
  BY <1>1, <1>2, <1>3 DEF Worker
<1>5. Trace(h) BY DEF AInv, TInv
<1>6. /\ wpc'[p][c] \in {"exec", "disarm"} => exec_sls'[c] = "ENABLE"
      /\ wpc'[p][c] = "finish" => exec_sls'[c] = "DISABLE"
      /\ wpc'[p][c] \in {"exec", "disarm"} \/ exec_sls'[c] = "ENABLE"
           => wpc[p][c] \in {"exec", "disarm"} \/ exec_sls[c] = "ENABLE"
  <2>0. /\ wpc[p][c] \in {"exec", "disarm"} => exec_sls[c] = "ENABLE"
        /\ wpc[p][c] = "finish" => exec_sls[c] = "DISABLE"
    BY <1>4, <1>5 DEF Trace
  <2>1. CASE WorkerBegin(p, c)
    BY <1>0, <2>0, <2>1 DEF WorkerBegin, regVars
  <2>2. CASE WorkerCheckStop(p, c)
    BY <1>0, <2>0, <2>2 DEF WorkerCheckStop, regVars
  <2>3. CASE WorkerLoad(p, c)
    BY SMT, <1>0, <2>0, <2>3 DEF WorkerLoad, regVars
  <2>4. CASE WorkerExec(p, c)
    <3>1. wpc[p][c] = "exec" /\ wpc'[p][c] \in {"exec", "disarm"} /\ exec_sls' = exec_sls
      BY <1>0, <2>4 DEF WorkerExec, regVars
    <3> QED BY <2>0, <3>1
  <2>5. CASE WorkerComplete(p, c)
    <3>1. CASE wpc[p][c] = "disarm" BY SMT, <1>0, <2>5, <3>1 DEF WorkerComplete
    <3>2. CASE wpc[p][c] = "finish" BY SMT, <1>0, <2>0, <2>5, <3>2 DEF WorkerComplete
    <3> QED BY <2>5, <3>1, <3>2 DEF WorkerComplete
  <2> QED BY <2>1, <2>2, <2>3, <2>4, <2>5 DEF WorkerStep
<1>7. (pc[h] \in {"shift", "armPoll", "start"} => inst[cu[h]] = TraceOf(h, step[h]))'
  BY <1>1, <1>4, <1>5 DEF Trace
<1>8. (Worker(h) \in {"exec", "disarm"} \/ exec_sls[cu[h]] = "ENABLE" =>
         InWrite(h) > 0 /\ inst[cu[h]] = TraceOf(h, InWrite(h)))'
  BY <1>3, <1>4, <1>5, <1>6 DEF Trace
<1> QED BY <1>4, <1>6, <1>7, <1>8 DEF Trace

\* The worker of a unit is that of its owner.
LEMMA WorkerHost ==
  ASSUME IInv, NEW p \in Procs, NEW c \in Cunits, WorkerStep(p, c)
  PROVE  \E g \in Hosts : g = owner[c] /\ ProcOf[g] = p /\ cu[g] = c /\ Holding(g) /\ ThreadOn(g)
<1>1. wpc[p][c] \in {"queued", "loop", "load", "exec", "disarm", "finish"}
  BY DEF WorkerStep, WorkerBegin, WorkerCheckStop, WorkerLoad, WorkerExec, WorkerComplete
<1>2. wpc[p][c] # "off" BY <1>1
<1> QED BY SMT, <1>2, WorkerOwner

\* A host that takes a step of run_on_pack holds a unit.
LEMMA StepHolds ==
  ASSUME NEW h \in Hosts, Throw(h) \/ HostStep(h) PROVE Holding(h)
BY DEF Holding, Throw, HostStep, ResetPoll, ResetExec, EnableThread, ClearBuffers,
             Generate, Wait, WriteInst, ShiftBuffers, ArmPoll, StartExec, CopyOut,
             CleanRead, WaitDummy, StopThread, JoinThread, Release

\* Submission, acquisition, release and death leave the other hosts alone.
LEMMA OthersAlone ==
  ASSUME AInv,
         \/ \E h \in Hosts : StartOp(h) \/ Acquire(h) \/ Release(h)
         \/ \E p \in Procs : Crash(p)
         \/ UNCHANGED vars,
         NEW g \in Hosts, ThreadOn(g)'
  PROVE  /\ pc'[g] = pc[g] /\ cu'[g] = cu[g] /\ step'[g] = step[g] /\ req'[g] = req[g]
         /\ failed'[g] = failed[g] /\ exec_sls' = exec_sls /\ inst' = inst
         /\ \A c \in Cunits : wpc'[ProcOf[g]][c] = wpc[ProcOf[g]][c]
<1> USE HostAssumption
<1>0. /\ pc \in [Hosts -> HostPC] /\ step \in [Hosts -> Nat \ {0}] /\ cu \in [Hosts -> Cunits]
      /\ failed \in [Hosts -> BOOLEAN] /\ req \in [Hosts -> Reqs]
      /\ wpc \in [Procs -> [Cunits -> WorkerPC]] /\ ProcOf[g] \in Procs
  BY TypesHold DEF AInv, TypeOK
<1>1. CASE \E h \in Hosts : StartOp(h)
  <2>1. PICK h \in Hosts : StartOp(h) BY <1>1
  <2>2. PICK q : req' = [req EXCEPT ![h] = q] BY <2>1 DEF StartOp
  <2>3. /\ pc' = [pc EXCEPT ![h] = "acquire"] /\ step' = [step EXCEPT ![h] = 1]
        /\ failed' = [failed EXCEPT ![h] = FALSE] /\ cu' = cu /\ wpc' = wpc
        /\ exec_sls' = exec_sls /\ inst' = inst
    BY <2>1 DEF StartOp, Goto, regVars, thrVars
  <2>4. g # h BY <1>0, <2>3 DEF ThreadOn, Holding
  <2> QED BY <1>0, <2>2, <2>3, <2>4
<1>2. CASE \E h \in Hosts : Acquire(h)
  <2>1. PICK h \in Hosts : Acquire(h) BY <1>2
  <2>2. PICK c : cu' = [cu EXCEPT ![h] = c] BY <2>1 DEF Acquire
  <2>3. /\ pc' = [pc EXCEPT ![h] = "resetPoll"] /\ step' = step
        /\ failed' = failed /\ req' = req /\ wpc' = wpc
        /\ exec_sls' = exec_sls /\ inst' = inst
    BY <2>1 DEF Acquire, Goto, regVars, thrVars
  <2>4. g # h BY <1>0, <2>3 DEF ThreadOn, Holding
  <2> QED BY <1>0, <2>2, <2>3, <2>4
<1>3. CASE \E h \in Hosts : Release(h)
  <2>1. PICK h \in Hosts : Release(h) BY <1>3
  <2>3. /\ pc' = [pc EXCEPT ![h] = "idle"] /\ step' = step
        /\ failed' = failed /\ req' = req /\ wpc' = wpc /\ cu' = cu
        /\ exec_sls' = exec_sls /\ inst' = inst
    BY <2>1 DEF Release, Goto, regVars, thrVars, hostData
  <2>4. g # h BY <1>0, <2>3 DEF ThreadOn, Holding
  <2> QED BY <1>0, <2>3, <2>4
<1>4. CASE \E p \in Procs : Crash(p)
  <2>1. PICK p \in Procs : Crash(p) BY <1>4
  <2>3. /\ pc' = [h \in Hosts |-> IF ProcOf[h] = p THEN "idle" ELSE pc[h]] /\ step' = step
        /\ failed' = failed /\ req' = req /\ cu' = cu
        /\ wpc' = [wpc EXCEPT ![p] = [c \in Cunits |-> "off"]]
        /\ exec_sls' = exec_sls /\ inst' = inst
    BY <2>1 DEF Crash, regVars, hostData
  <2>4. ProcOf[g] # p BY <2>3 DEF ThreadOn, Holding
  <2> QED BY <1>0, <2>3, <2>4
<1>5. CASE UNCHANGED vars
  BY <1>5 DEF vars, regVars, thrVars, hostData
<1> QED BY <1>1, <1>2, <1>3, <1>4, <1>5

\* Every step keeps the traces.
LEMMA NextTraces ==
  ASSUME AInv, IInv', [Next]_vars PROVE TInv'
<1>1. ASSUME NEW h \in Hosts, Throw(h) \/ (HostStep(h) /\ ~Release(h)) PROVE TInv'
  <2>1. Holding(h) BY <1>1, StepHolds
  <2>2. ThreadOn(h)' => Trace(h)' BY <1>1, <2>1, HostTrace
  <2>3. LocalData(h) BY <1>1, HostLocal
  <2> QED BY <2>1, <2>2, <2>3, TraceLocal
<1>2. ASSUME NEW p \in Procs, NEW c \in Cunits, WorkerStep(p, c) PROVE TInv'
  <2>0. IInv BY DEF AInv
  <2>1. PICK h \in Hosts : /\ h = owner[c] /\ ProcOf[h] = p /\ cu[h] = c
                           /\ Holding(h) /\ ThreadOn(h)
    BY SMT, <1>2, <2>0, WorkerHost
  <2>2. WorkerStep(ProcOf[h], cu[h]) BY <1>2, <2>1
  <2>3. Trace(h)' /\ LocalData(h) BY <2>1, <2>2, WorkerTrace, WorkerStepLocal
  <2> QED BY <2>1, <2>3, TraceLocal
<1>3. ASSUME \/ \E h \in Hosts : StartOp(h) \/ Acquire(h) \/ Release(h)
             \/ \E p \in Procs : Crash(p)
             \/ UNCHANGED vars
      PROVE  TInv'
  <2> SUFFICES ASSUME NEW g \in Hosts, ThreadOn(g)' PROVE Trace(g)'
    BY DEF TInv
  <2>1. /\ pc'[g] = pc[g] /\ cu'[g] = cu[g] /\ step'[g] = step[g] /\ req'[g] = req[g]
        /\ failed'[g] = failed[g] /\ exec_sls' = exec_sls /\ inst' = inst
        /\ \A c \in Cunits : wpc'[ProcOf[g]][c] = wpc[ProcOf[g]][c]
    BY <1>3, OthersAlone
  <2>2. ThreadOn(g) BY <2>1 DEF ThreadOn, Holding
  <2>3. Trace(g) /\ cu[g] \in Cunits BY <2>2 DEF AInv, TInv, IInv, CtlType
  <2> QED BY <2>1, <2>3, TraceFrame
<1> QED BY <1>1, <1>2, <1>3 DEF Next, HostStep, Finished

\* The shared part of the invariant: initially, and step by step.
LEMMA InitAInv == Init => AInv
<1> SUFFICES ASSUME Init PROVE AInv
  OBVIOUS
<1>1. IInv /\ DInv BY InitIInv, InitDInv
<1>2. TInv BY DEF Init, TInv, ThreadOn, Holding
<1>3. throws \in Nat /\ crashes \in Nat BY DEF Init
<1>4. out = [h \in Hosts |-> out[h]] BY DEF Init
<1>5. \A p \in Procs, c \in Cunits : wr[p][c] = Shift(rd[p][c])
  <2>1. Shift(NumBufs - 1) = 0 BY SMT, BufAssumption DEF Shift
  <2> QED BY <2>1 DEF Init
<1> QED BY <1>1, <1>2, <1>3, <1>4, <1>5 DEF AInv

\* What few steps change: the counters, the outputs and the indices.
LEMMA Seldom ==
  ASSUME [Next]_vars
  PROVE  /\ throws' = throws \/ (throws' = throws + 1 /\ throws < MaxThrows)
         /\ crashes' = crashes \/ (crashes' = crashes + 1 /\ crashes < MaxCrashes)
         /\ out' = out \/ \E h \in Hosts : StartOp(h) \/ CopyOut(h)
         /\ \/ rd' = rd /\ wr' = wr
            \/ \E h \in Hosts : ShiftBuffers(h)
            \/ \E p \in Procs : Crash(p)
<1>1. ASSUME NEW h \in Hosts, StartOp(h) \/ Acquire(h) \/ Throw(h) \/ HostStep(h)
      PROVE  /\ throws' = throws \/ (throws' = throws + 1 /\ throws < MaxThrows)
             /\ crashes' = crashes
             /\ out' = out \/ StartOp(h) \/ CopyOut(h)
             /\ (rd' = rd /\ wr' = wr) \/ ShiftBuffers(h)
  <2>1. CASE StartOp(h) BY <2>1 DEF StartOp, bounds, simVars
  <2>2. CASE Acquire(h) \/ ResetPoll(h) \/ ResetExec(h) \/ EnableThread(h)
    BY <2>2 DEF Acquire, ResetPoll, ResetExec, EnableThread, bounds, simVars, hostData
  <2>3. CASE ClearBuffers(h) \/ Generate(h) \/ Wait(h) \/ WriteInst(h)
    BY <2>3 DEF ClearBuffers, Generate, Wait, WriteInst, bounds, simVars, hostData
  <2>4. CASE ShiftBuffers(h) \/ ArmPoll(h) \/ CopyOut(h)
    BY <2>4 DEF ShiftBuffers, ArmPoll, CopyOut, bounds, simVars, hostData
  <2>5. CASE StartExec(h) \/ WaitDummy(h) \/ StopThread(h) \/ JoinThread(h)
    BY <2>5 DEF StartExec, WaitDummy, StopThread, JoinThread, bounds, simVars, hostData
  <2>6. CASE CleanRead(h) BY <2>6 DEF CleanRead, bounds
  <2>7. CASE Throw(h) \/ Release(h) BY <2>7 DEF Throw, Release, bounds, simVars, hostData
  <2> QED BY <1>1, <2>1, <2>2, <2>3, <2>4, <2>5, <2>6, <2>7 DEF HostStep
<1>2. ASSUME NEW p \in Procs, NEW c \in Cunits, WorkerStep(p, c)
      PROVE  throws' = throws /\ crashes' = crashes /\ out' = out /\ rd' = rd /\ wr' = wr
  BY <1>2 DEF WorkerStep, WorkerBegin, WorkerCheckStop, WorkerLoad, WorkerExec,
                     WorkerComplete, bounds, simVars, hostData
<1>3. ASSUME NEW p \in Procs, Crash(p)
      PROVE  /\ throws' = throws /\ crashes' = crashes + 1 /\ crashes < MaxCrashes
             /\ out' = out
  BY <1>3 DEF Crash, hostData
<1>4. CASE UNCHANGED vars BY <1>4 DEF vars, bounds, hostData, simVars
<1> QED BY <1>1, <1>2, <1>3, <1>4 DEF Next, Finished

\* Every step keeps it.
LEMMA NextAInv == AInv /\ [Next]_vars => AInv'
<1> SUFFICES ASSUME AInv, [Next]_vars PROVE AInv'
  OBVIOUS
<1> USE HostAssumption
<1>0. IInv /\ DInv BY DEF AInv
<1>1. IInv' /\ DInv' BY <1>0, NextPreserves, NextPreservesTypes
<1>2. TInv' BY <1>1, NextTraces
<1>3. throws' \in Nat /\ crashes' \in Nat
  BY SMT, Seldom DEF AInv
<1>4. out' = [h \in Hosts |-> out'[h]]
  <2>0. out = [h \in Hosts |-> out[h]] BY DEF AInv
  <2>1. CASE \E h \in Hosts : StartOp(h)
    <3>1. PICK h \in Hosts : \E q : out' = [out EXCEPT ![h] = q] BY <2>1 DEF StartOp
    <3> QED BY <2>0, <3>1
  <2>2. CASE \E h \in Hosts : CopyOut(h)
    <3>1. PICK h \in Hosts : CopyOut(h) BY <2>2
    <3>2. \E q : out' = [out EXCEPT ![h] = q] BY <3>1 DEF CopyOut
    <3> QED BY <2>0, <3>2
  <2>3. CASE out' = out BY <2>0, <2>3
  <2> QED BY <2>1, <2>2, <2>3, Seldom
<1>5. ASSUME NEW p \in Procs, NEW c \in Cunits PROVE (wr[p][c] = Shift(rd[p][c]))'
  <2>0. /\ wr[p][c] = Shift(rd[p][c]) /\ rd \in [Procs -> [Cunits -> Bufs]]
        /\ wr \in [Procs -> [Cunits -> Bufs]]
    BY <1>0 DEF AInv, IInv, CtlType
  <2>1. CASE \E h \in Hosts : ShiftBuffers(h)
    <3>1. PICK h \in Hosts : ShiftBuffers(h) BY <2>1
    <3>2. /\ rd' = [rd EXCEPT ![ProcOf[h]][cu[h]] = Shift(rd[ProcOf[h]][cu[h]])]
          /\ wr' = [wr EXCEPT ![ProcOf[h]][cu[h]] = Shift(wr[ProcOf[h]][cu[h]])]
      BY <3>1 DEF ShiftBuffers
    <3>3. CASE p = ProcOf[h] /\ c = cu[h] BY <2>0, <3>2, <3>3
    <3>4. CASE ~(p = ProcOf[h] /\ c = cu[h]) BY <2>0, <3>2, <3>4
    <3> QED BY <3>3, <3>4
  <2>2. CASE \E q \in Procs : Crash(q)
    <3>0. Shift(NumBufs - 1) = 0 BY SMT, BufAssumption DEF Shift
    <3>1. PICK q \in Procs : Crash(q) BY <2>2
    <3>2. /\ rd' = [rd EXCEPT ![q] = [d \in Cunits |-> NumBufs - 1]]
          /\ wr' = [wr EXCEPT ![q] = [d \in Cunits |-> 0]]
      BY <3>1 DEF Crash
    <3>3. CASE p = q BY <2>0, <3>0, <3>2, <3>3
    <3>4. CASE p # q BY <2>0, <3>2, <3>4
    <3> QED BY <3>3, <3>4
  <2>3. CASE rd' = rd /\ wr' = wr BY <2>0, <2>3
  <2> QED BY <2>1, <2>2, <2>3, Seldom
<1> QED BY <1>1, <1>2, <1>3, <1>4, <1>5 DEF AInv

\* It holds of every behaviour.
THEOREM SharedInvariant == Spec => []AInv
BY InitAInv, NextAInv, PTL DEF Spec

\* A worker executes only a trace that its unit's present owner wrote for its
\* present operation: whatever an earlier owner, a dead process or an exception
\* left in the registers and in the instruction buffer is never run.
THEOREM WorkersRunOwnTraces == Spec => []OwnTraceOnly
<1>1. ASSUME AInv PROVE OwnTraceOnly
  <2> SUFFICES ASSUME NEW p \in Procs, NEW c \in Cunits, wpc[p][c] = "exec"
               PROVE  \E i \in {step[owner[c]], step[owner[c]] - 1} :
                        i > 0 /\ inst[c] = TraceOf(owner[c], i)
    BY DEF OwnTraceOnly
  <2>0. IInv /\ wpc[p][c] # "off" BY <1>1 DEF AInv
  <2>1. PICK h \in Hosts : h = owner[c] /\ ProcOf[h] = p /\ cu[h] = c /\ Holding(h) /\ ThreadOn(h)
    BY SMT, <2>0, WorkerOwner
  <2>2. Trace(h) BY <1>1, <2>1 DEF AInv, TInv
  <2>3. InWrite(h) > 0 /\ inst[c] = TraceOf(h, InWrite(h))
    BY <2>1, <2>2 DEF Trace, Worker
  <2>4. InWrite(h) \in {step[h], step[h] - 1} \/ InWrite(h) = 0 BY DEF InWrite
  <2>5. InWrite(h) # 0 BY SMT, <2>3
  <2> QED BY <2>1, <2>3, <2>4, <2>5
<1> QED BY <1>1, SharedInvariant, PTL
=============================================================================
