-------------------------- MODULE DeviceMemoryProofs -------------------------
(****************************************************************************)
(* Proofs about DeviceMemory for every number of processes, buffers, ranks  *)
(* and blocks: as long as nothing happened that tainted stands for, what a  *)
(* process holds is allocated, is shared only knowingly, and is not lost.   *)
(* The invariant is that of DeviceMemorySteps.                              *)
(****************************************************************************)
EXTENDS DeviceMemorySteps, FiniteSetTheorems, WellFoundedInduction

USE Zenon

------------------------------------------------------------------------------
(* Memory is released.                                                      *)

\* DEALLOCATE_MEMORY of a block that is not shared, or of its last reference.
LEMMA FreeBlock ==
  ASSUME Config, Counting, NEW u, NEW n \in 0 .. 1, NEW d \in [Started -> Flags], NEW F, NEW L, NEW hs, NEW ss,
         BlockOK(u, n, d, F, L, hs, ss), NEW x \in hs, NEW v
  PROVE  BlockOK(v, 0, [d EXCEPT ![F[x[1]]] = "none"], F, L, hs \ {x}, ss \ {x})
<1>1. F[x[1]] \in Files(d) BY DEF BlockOK
<1>2. PICK f : f = F[x[1]] BY SMT
<1>b. f \in Files(d) BY <1>1, <1>2
<1>c. Files(d) = {f} /\ Alone(F, hs, f) BY <1>b, OneFile
<1>a. Files(d) = {f} /\ \A y, z \in hs : F[y[1]] = f /\ y = z BY <1>c DEF Alone
<1>3. F[x[1]] \in Started BY <1>1 DEF Files
<1>4. Files([d EXCEPT ![F[x[1]]] = "none"]) = {} BY <1>2, <1>a, <1>3, FilesChange
<1>5. hs \ {x} = {} BY <1>a
<1>6. BlockOK(v, 0, [d EXCEPT ![F[x[1]]] = "none"], F, L, {}, ss \ {x}) BY <1>4, EmptyBlock
<1> QED BY <1>5, <1>6

\* DEALLOCATE_MEMORY of a reference that is not the last.
LEMMA UnrefBlock ==
  ASSUME Config, Counting, NEW u, NEW n \in Nat, NEW d \in [Started -> Flags], NEW F, NEW L, NEW hs, NEW ss,
         BlockOK(u, n, d, F, L, hs, ss), n > 1, NEW x \in hs
  PROVE  BlockOK(u, n - 1, [d EXCEPT ![F[x[1]]] = "none"], F, L, hs \ {x}, ss \ {x})
<1> DEFINE f == F[x[1]]  e == [d EXCEPT ![f] = "none"]
<1>0. n > 0 /\ n - 1 > 0 /\ n - 1 # 0 BY CountCases
<1>1. f \in Files(d) BY DEF BlockOK
<1>2. f \in Started BY <1>1 DEF Files
<1>3. Files(e) = Files(d) \ {f} BY <1>2, FilesChange
<1>4. n = Cardinality(Files(d)) BY <1>0 DEF BlockOK
<1>5. n - 1 = Cardinality(Files(e)) BY <1>1, <1>3, <1>4, FilesCount
<1> HIDE DEF e
<1>6. u BY <1>1 DEF BlockOK
<1>7. \A v, w \in hs : F[v[1]] = F[w[1]] => v = w BY DEF BlockOK
<1>8. ASSUME NEW y \in hs \ {x} PROVE L[y[1]] = "alive" /\ F[y[1]] \in Files(e) /\ y \in ss \ {x}
  <2>1. L[y[1]] = "alive" /\ F[y[1]] \in Files(d) /\ y \in ss BY <1>0 DEF BlockOK
  <2>2. F[y[1]] # f BY <1>7
  <2> QED BY <1>3, <2>1, <2>2
<1>9. ASSUME NEW g \in Files(e)
      PROVE  /\ \E q \in Procs : L[q] = "alive" /\ F[q] = g
             /\ \/ \E q \in Procs : L[q] = "dead" /\ F[q] = g
                \/ \E y \in hs \ {x} : F[y[1]] = g
  <2>1. g \in Files(d) /\ g # f BY <1>3
  <2>2. /\ \E q \in Procs : L[q] = "alive" /\ F[q] = g
        /\ \/ \E q \in Procs : L[q] = "dead" /\ F[q] = g
           \/ \E y \in hs : F[y[1]] = g
    BY <2>1 DEF BlockOK
  <2> QED BY <2>1, <2>2
<1>10. \A v, w \in hs \ {x} : F[v[1]] = F[w[1]] => v = w BY <1>7
<1> QED BY <1>0, <1>5, <1>6, <1>8, <1>9, <1>10 DEF BlockOK, e

\* A release frees b, which is not shared or has one reference.
LEMMA FreeHeld ==
  ASSUME Config, Counting, NEW u, NEW n \in 0 .. 1, NEW d \in [Started -> Flags], NEW F, NEW L, NEW v,
         NEW C, NEW B, NEW D, NEW p \in Procs, NEW b \in Blocks,
         Only(p, C, D),
         D[p].op = C[p].op, D[p].slot = C[p].slot, C[p].op # "share",
         C[p].at[b[1]] = b[2], D[p].at[b[1]] # b[2],
         BlockOK(u, n, d, F, L, HoldersIn(C, B, b), SharersIn(C, B, b))
  PROVE  BlockOK(v, 0, [d EXCEPT ![F[p]] = "none"], F, L, HoldersIn(D, B, b), SharersIn(D, B, b))
<1>1. PICK x : x = <<p, 0>> OBVIOUS
<1>2. x \in Places /\ x[1] = p /\ x[2] = 0 BY <1>1, PlaceOf
<1>4. Holds(p, C[p], B[p], 0, b) BY DEF Holds
<1>5. x \in HoldersIn(C, B, b) BY <1>2, <1>4 DEF HoldersIn
<1>6. BlockOK(v, 0, [d EXCEPT ![F[p]] = "none"], F, L, HoldersIn(C, B, b) \ {x}, SharersIn(C, B, b) \ {x})
  <2>1. BlockOK(v, 0, [d EXCEPT ![F[x[1]]] = "none"], F, L, HoldersIn(C, B, b) \ {x}, SharersIn(C, B, b) \ {x})
    BY <1>5, FreeBlock
  <2> QED BY <1>2, <2>1
<1>7. ~Holds(p, D[p], B[p], 0, b) BY DEF Holds
<1>8. /\ SlotsSame(p, C, D, B, b)
      /\ SharersIn(D, B, b) = SharersIn(C, B, b)
  BY SameOp
<1>9. HoldersIn(D, B, b) = HoldersIn(C, B, b) \ {x}
  <2>1. HoldersIn(D, B, b) = Drop(HoldersIn(C, B, b), <<p, 0>>) BY <1>7, SameOp DEF HoldersFollow
  <2> QED BY <1>1, <2>1 DEF Drop
<1>10. \A y \in HoldersIn(D, B, b) : y \in SharersIn(C, B, b) \ {x} <=> y \in SharersIn(D, B, b)
  BY <1>8, <1>9
<1> QED BY <1>6, <1>9, <1>10, SameKnowledge

\* A release gives back a reference to b that is not the last.
LEMMA UnrefHeld ==
  ASSUME Config, Counting, NEW u, NEW n \in Nat, NEW d \in [Started -> Flags], NEW F, NEW L,
         NEW C, NEW B, NEW D, NEW p \in Procs, NEW b \in Blocks,
         Only(p, C, D),
         D[p].op = C[p].op, D[p].slot = C[p].slot, C[p].op # "share",
         C[p].at[b[1]] = b[2], D[p].at[b[1]] # b[2], n > 1,
         BlockOK(u, n, d, F, L, HoldersIn(C, B, b), SharersIn(C, B, b))
  PROVE  BlockOK(u, n - 1, [d EXCEPT ![F[p]] = "none"], F, L, HoldersIn(D, B, b), SharersIn(D, B, b))
<1>1. PICK x : x = <<p, 0>> OBVIOUS
<1>2. x \in Places /\ x[1] = p /\ x[2] = 0 BY <1>1, PlaceOf
<1>4. Holds(p, C[p], B[p], 0, b) BY DEF Holds
<1>5. x \in HoldersIn(C, B, b) BY <1>2, <1>4 DEF HoldersIn
<1>6. BlockOK(u, n - 1, [d EXCEPT ![F[p]] = "none"], F, L, HoldersIn(C, B, b) \ {x}, SharersIn(C, B, b) \ {x})
  <2>1. BlockOK(u, n - 1, [d EXCEPT ![F[x[1]]] = "none"], F, L, HoldersIn(C, B, b) \ {x},
                SharersIn(C, B, b) \ {x})
    BY <1>5, UnrefBlock
  <2> QED BY <1>2, <2>1
<1>7. ~Holds(p, D[p], B[p], 0, b) BY DEF Holds
<1>8. /\ SlotsSame(p, C, D, B, b)
      /\ SharersIn(D, B, b) = SharersIn(C, B, b)
  BY SameOp
<1>9. HoldersIn(D, B, b) = HoldersIn(C, B, b) \ {x}
  <2>1. HoldersIn(D, B, b) = Drop(HoldersIn(C, B, b), <<p, 0>>) BY <1>7, SameOp DEF HoldersFollow
  <2> QED BY <1>1, <2>1 DEF Drop
<1>10. \A y \in HoldersIn(D, B, b) : y \in SharersIn(C, B, b) \ {x} <=> y \in SharersIn(D, B, b)
  BY <1>8, <1>9
<1> QED BY <1>6, <1>9, <1>10, SameKnowledge

\* A release that has gone through rank r.
LEMMA ReleasedMid ==
  ASSUME Config, NEW p, NEW c, NEW bs, NEW L, CallMid(p, c, bs, L),
         c.op \in {"rollback", "destroy", "assign"},
         NEW r \in Ranks, NEW T \in SUBSET Ranks, NEW d, Stepped(c, d, T, r, 0)
  PROVE  SteppedTo(p, c, d, bs, L, T, r, 0)
<1>0. c \in Calls /\ c.at \in Regions
  <2>1. c \in Calls BY DEF CallMid
  <2> QED BY <2>1, CallFields
<1>1. 0 \in 0 .. NumBlocks BY SMT DEF Config
<1>a. d = [c EXCEPT !.todo = T, !.at[r] = 0] BY DEF Stepped
<1>b. PICK at2 : CallAfter(c, d, T, at2) /\ RegionAfter(c.at, at2, r, 0) BY <1>0, <1>1, <1>a, CallChange
<1>2. /\ d \in Calls /\ d.op = c.op /\ d.slot = c.slot /\ d.todo = T /\ d.want = c.want
      /\ d.from = c.from /\ d.at = at2
  BY <1>b DEF CallAfter
<1>3. /\ RanksOf(d.at) = RanksOf(c.at) \ {r}
      /\ \A b \in Blocks : /\ b[1] = r => d.at[b[1]] = 0
                           /\ b[1] # r => d.at[b[1]] = c.at[b[1]]
  BY <1>b, <1>2 DEF RegionAfter
<1>4. c.op \notin {"allocate", "get", "share", "idle"} BY SMT
<1>5. d.op \notin {"allocate", "get", "share", "idle"} BY <1>2, <1>4
<1>6. d.op # "allocate" /\ d.op # "get" /\ d.op # "share" /\ d.op # "idle" /\ c.op # "idle"
  BY <1>4, <1>5
<1>7. L[p] = "alive" /\ c.slot \in Slots /\ (c.op = "rollback" => bs[c.slot] = Empty)
      /\ (Releases(c) => bs[c.slot] # Empty) /\ (c.op = "assign" => c.from \in Slots \ {c.slot})
  BY <1>6 DEF CallMid
<1>8. Releases(d) <=> Releases(c) BY <1>2 DEF Releases
<1>9. CallMid(p, d, bs, L) BY <1>2, <1>6, <1>7, <1>8 DEF CallMid
<1> QED BY <1>2, <1>3, <1>9 DEF SteppedTo

\* What DEALLOCATE_MEMORY of a call c of p does to block k.
Deallocated(p, c, k, rc) == Deallocate(file[p], k, (c.op # "rollback" /\ buf[p][c.slot].global), rc)

\* What that does to the driver's tables, with block k of file f ...
KernelAfter(f, k) ==
  /\ used' \subseteq used /\ (\A b \in Blocks : b # k /\ b \in used => b \in used')
  /\ Registered(desc, desc', f, k, "none")
  /\ ref_cnt' \in [Blocks -> Nat] /\ (\A b \in Blocks : b # k => ref_cnt'[b] = ref_cnt[b])
  /\ tainted' \in BOOLEAN /\ (~tainted' => ~tainted)

\* ... and to block k, if it is registered with the flag that is passed.
Registration(p, c, k) ==
  /\ desc[file[p]][k] # "none"
  /\ c.op # "rollback" /\ buf[p][c.slot].global <=> ref_cnt[k] > 0

BlockAfter(k, rc) ==
  /\ ~(rc < 0)
  /\ ref_cnt[k] \in 0 .. 1 => ref_cnt'[k] = 0
  /\ ref_cnt[k] > 1 => ref_cnt'[k] = ref_cnt[k] - 1 /\ used' = used

\* DEALLOCATE_MEMORY and the driver's tables.
LEMMA DeallocateKernel ==
  ASSUME Config, MInv, NEW p \in Procs, NEW c, NEW f \in Started, f = file[p], NEW k \in Blocks,
         NEW rc, Deallocated(p, c, k, rc)
  PROVE  KernelAfter(f, k)
<1>0. used \subseteq Blocks /\ ref_cnt \in [Blocks -> Nat] /\ tainted \in BOOLEAN
  BY KernelTypes DEF KernelOK
<1>1. used' \in {used, used \ {k}} BY DEF Deallocated, Deallocate
<1>2. used' \subseteq used /\ (\A b \in Blocks : b # k /\ b \in used => b \in used') BY <1>1
<1>3. desc' = [desc EXCEPT ![f][k] = "none"] BY DEF Deallocated, Deallocate
<1>4. ref_cnt' = ref_cnt \/ (ref_cnt[k] > 0 /\ ref_cnt' = [ref_cnt EXCEPT ![k] = ref_cnt[k] - 1])
  BY DEF Deallocated, Deallocate
<1>5. ref_cnt' \in [Blocks -> Nat] /\ (\A b \in Blocks : b # k => ref_cnt'[b] = ref_cnt[b])
  <2>1. ref_cnt[k] \in Nat BY <1>0
  <2>2. ref_cnt[k] > 0 => ref_cnt[k] - 1 \in Nat BY <2>1, CountCases
  <2>3. CASE ref_cnt' = ref_cnt BY <1>0, <2>3
  <2>4. CASE ref_cnt[k] > 0 /\ ref_cnt' = [ref_cnt EXCEPT ![k] = ref_cnt[k] - 1] BY ZenonT(30), <1>0, <2>2, <2>4
  <2> QED BY <1>4, <2>3, <2>4
<1>6. tainted' \in BOOLEAN /\ (~tainted' => ~tainted) BY SMT, <1>0 DEF Deallocated, Deallocate, Taint
<1> QED BY <1>2, <1>3, <1>5, <1>6 DEF Registered, KernelAfter

\* DEALLOCATE_MEMORY and its block.
LEMMA DeallocateBlock ==
  ASSUME Config, MInv, ~tainted', NEW p \in Procs, NEW c, NEW k \in Blocks,
         NEW rc, Deallocated(p, c, k, rc), Registration(p, c, k)
  PROVE  BlockAfter(k, rc)
<1> DEFINE f == file[p]
<1>0. ref_cnt \in [Blocks -> Nat] BY KernelTypes
<1>r. desc[f][k] # "none" /\ (c.op # "rollback" /\ buf[p][c.slot].global <=> ref_cnt[k] > 0)
  BY DEF Registration
<1>n. ref_cnt[k] \in Nat BY <1>0
<1>1. CASE ref_cnt[k] = 0
  <2>0. ~(ref_cnt[k] > 0) /\ ~(ref_cnt[k] > 1) /\ ~(0 < 0) BY <1>n, <1>1, CountCases
  <2>1. rc = 0 /\ ref_cnt' = ref_cnt BY <1>r, <2>0 DEF Deallocated, Deallocate
  <2> QED BY <1>1, <2>0, <2>1 DEF BlockAfter
<1>2. CASE ref_cnt[k] = 1
  <2>0. ref_cnt[k] > 0 /\ ~(ref_cnt[k] > 1) /\ ref_cnt[k] - 1 = 0 /\ ~(0 < 0) BY <1>n, <1>2, CountCases
  <2>1. rc = 0
    <3>1. Taint(/\ desc[f][k] # "none" /\ (c.op # "rollback" /\ buf[p][c.slot].global) /\ ref_cnt[k] = 1
                /\ rc # 0)
      BY DEF Deallocated, Deallocate
    <3>2. c.op # "rollback" /\ buf[p][c.slot].global BY <1>r, <2>0
    <3> QED BY <1>r, <1>2, <3>1, <3>2 DEF Taint
  <2>2. ref_cnt' = [ref_cnt EXCEPT ![k] = ref_cnt[k] - 1]
    BY <1>r, <2>0 DEF Deallocated, Deallocate
  <2>3. ref_cnt'[k] = 0 BY <1>0, <2>0, <2>2
  <2> QED BY <2>0, <2>1, <2>3 DEF BlockAfter
<1>3. CASE ref_cnt[k] > 1
  <2>0. ref_cnt[k] > 0 /\ ref_cnt[k] # 0 /\ ref_cnt[k] # 1 /\ ref_cnt[k] \notin 0 .. 1 /\ ~(1 < 0)
    BY <1>n, <1>3, CountCases
  <2>1. rc = 1 BY <1>r, <1>3, <2>0 DEF Deallocated, Deallocate
  <2>2. 1 # 0 BY SMT
  <2>3. ref_cnt' = [ref_cnt EXCEPT ![k] = ref_cnt[k] - 1] /\ used' = used
    BY <1>r, <2>0, <2>1, <2>2 DEF Deallocated, Deallocate
  <2>4. ref_cnt'[k] = ref_cnt[k] - 1 BY <1>0, <2>3
  <2> QED BY <2>0, <2>1, <2>3, <2>4 DEF BlockAfter
<1> QED BY <1>n, <1>1, <1>2, <1>3, CountCases

\* A release holds its block, which is registered with the flag it passes.
LEMMA ReleasedHeld ==
  ASSUME Config, MInv, ~tainted, NEW p \in Procs, NEW c, c = call[p], Releases(c) \/ c.op = "rollback",
         NEW k \in Blocks, c.at[k[1]] = k[2]
  PROVE  Registration(p, c, k)
<1>1. BlockOK(k \in used, ref_cnt[k], Column(desc, k), file, life, HoldersIn(call, buf, k), SharersIn(call, buf, k))
  BY DEF MInv, BlocksOK
<1>2. c.op # "share" /\ c.op # "get" /\ (c.op # "rollback" <=> Releases(c)) BY SMT DEF Releases
<1>x. PICK x : x = <<p, 0>> OBVIOUS
<1>3. x \in Places /\ x[1] = p /\ x[2] = 0 BY <1>x, PlaceOf
<1>4. PICK bs : bs = buf[p] OBVIOUS
<1>5. Holds(p, c, bs, 0, k) BY <1>2 DEF Holds
<1>6. Shares(p, c, bs, 0, k) <=> c.op # "rollback" /\ bs[c.slot].global BY <1>2 DEF Shares
<1>7. x \in HoldersIn(call, buf, k) BY <1>3, <1>4, <1>5 DEF HoldersIn
<1>8. x \in SharersIn(call, buf, k) <=> c.op # "rollback" /\ bs[c.slot].global
  BY <1>3, <1>4, <1>6 DEF SharersIn
<1>9. file[p] \in Files(Column(desc, k)) /\ (ref_cnt[k] > 0 <=> x \in SharersIn(call, buf, k))
  BY <1>1, <1>3, <1>7 DEF BlockOK
<1>10. desc[file[p]][k] # "none" BY <1>9 DEF Files, Column
<1> QED BY <1>4, <1>8, <1>9, <1>10 DEF Registration

\* DEALLOCATE_MEMORY.
LEMMA DeallocateOne ==
  ASSUME Config, Counting, MInv, NEW p \in Procs, NEW c, c = call[p], c.op \in {"rollback", "destroy", "assign"},
         NEW r, r = Min(c.todo), NEW a, a = c.at[r], NEW k, k = <<r, a>>, NEW rc, Deallocated(p, c, k, rc),
         NEW T, rc < 0 => T = {}, ~(rc < 0) => T = Drop(c.todo, r),
         NEW d, Stepped(c, d, T, r, 0), Continue(p, d),
         UNCHANGED <<life, file, published, ops, forks, deaths>>
  PROVE  MInv'
<1>0. c.op # "idle" /\ c.op # "share" /\ (Releases(c) \/ c.op = "rollback") BY OpNames DEF Releases
<1>1. /\ file[p] \in Started /\ c \in Calls /\ life[p] = "alive" /\ c.at \in Regions /\ c.todo \in SUBSET Ranks
      /\ CallMid(p, c, buf[p], life) /\ r \in Ranks /\ r \in c.todo /\ c.todo = RanksOf(c.at)
  BY <1>0, InCall
<1>2. a \in 0 .. NumBlocks /\ a # 0 /\ k \in Blocks
  <2>1. r \in RanksOf(c.at) BY <1>1
  <2> QED BY <1>1, <2>1, WantedBlock
<1>3. T \in SUBSET Ranks
  <2>1. Drop(c.todo, r) \in SUBSET Ranks BY <1>1 DEF Drop
  <2> QED BY <2>1
<1>4. PICK bs : bs = buf[p] OBVIOUS
<1>5. SteppedTo(p, c, d, bs, life, T, r, 0)
  <2>1. CallMid(p, c, bs, life) BY ZenonT(30), <1>1, <1>4
  <2> QED BY <1>1, <1>3, <2>1, ReleasedMid
<1>6. /\ CallMid(p, d, bs, life) /\ d.op = c.op /\ d.slot = c.slot /\ d.todo = T
      /\ RanksOf(d.at) = RanksOf(c.at) \ {r}
  BY <1>5 DEF SteppedTo
<1>7. d.op # "idle" /\ d.op # "share" /\ d.op \notin {"allocate", "get"}
  <2>1. c.op \notin {"allocate", "get"} BY OpNames
  <2> QED BY ZenonT(30), <1>0, <1>6, <2>1
<1>8. ~(rc < 0) => d.todo = RanksOf(d.at) BY <1>1, <1>6 DEF Drop
<1>9. d.todo # {} => d.todo = RanksOf(d.at) BY <1>6, <1>8
<1>f. PICK f : f = file[p] OBVIOUS
<1>t. /\ used \subseteq Blocks /\ desc \in [Started -> [Blocks -> Flags]] /\ ref_cnt \in [Blocks -> Nat]
      /\ call \in [Procs -> Calls] /\ buf \in [Procs -> [Slots -> Buffers]]
      /\ LocalsOK /\ ProcsOK /\ KernelOK
  BY KernelTypes
<1>k. KernelAfter(f, k) BY <1>1, <1>2, <1>f, DeallocateKernel
<1>d. /\ used' \subseteq used /\ (\A b \in Blocks : b # k /\ b \in used => b \in used')
      /\ Registered(desc, desc', f, k, "none")
      /\ ref_cnt' \in [Blocks -> Nat] /\ (\A b \in Blocks : b # k => ref_cnt'[b] = ref_cnt[b])
      /\ tainted' \in BOOLEAN /\ (~tainted' => ~tainted)
  BY <1>k DEF KernelAfter
<1>e. ColumnsAfter(desc, desc', f, k, "none")
  <2>1. "none" \in Flags BY DEF Flags
  <2>3. PICK D, E : D = desc /\ E = desc' OBVIOUS
  <2>4. D \in [Started -> [Blocks -> Flags]] /\ Registered(D, E, f, k, "none") BY <1>t, <1>d, <2>3
  <2>5. ColumnsAfter(D, E, f, k, "none") BY <1>1, <1>2, <1>f, <2>1, <2>4, ColumnChange
  <2> QED BY <2>3, <2>5
<1>10. KernelOK' BY <1>t, <1>d, <1>e DEF KernelOK, ColumnsAfter
<1>11. ProcsOK' BY <1>t DEF ProcsOK
<1>12. LocalsOK' BY <1>t, <1>4, <1>6, <1>7, <1>9, ContinueLocals
<1>13. ASSUME ~tainted' PROVE OwnOK' /\ BlocksOK(call)'
  <2>0. ~tainted BY <1>d, <1>13
  <2>1. OwnOK /\ BlocksOK(call) BY <2>0 DEF MInv
  <2>k. k[1] = r /\ k[2] = a /\ c.at[k[1]] = k[2] BY SMT
  <2>h. /\ ~(rc < 0)
        /\ ref_cnt[k] \in 0 .. 1 => ref_cnt'[k] = 0
        /\ ref_cnt[k] > 1 => ref_cnt'[k] = ref_cnt[k] - 1 /\ used' = used
    <3>1. Registration(p, c, k) BY <1>0, <1>2, <2>0, <2>k, ReleasedHeld
    <3>2. BlockAfter(k, rc) BY <1>2, <1>13, <3>1, DeallocateBlock
    <3> QED BY <3>2 DEF BlockAfter
  <2>2. Own(p, d, buf[p])
    <3>1. Own(p, c, buf[p]) BY <2>1 DEF OwnOK
    <3> QED BY <1>6, <3>1 DEF Own, Releases
  <2>3. PICK K, C, B : K = call /\ C = [call EXCEPT ![p] = d] /\ B = buf OBVIOUS
  <2>4. C[p] = d /\ K[p] = c /\ Only(p, K, C) BY <1>t, <2>3 DEF Only
  <2>5. C[p].op = K[p].op /\ C[p].slot = K[p].slot /\ K[p].op # "share" BY <1>0, <1>6, <2>4
  <2>6. MidBlocks(C)
    <3> SUFFICES ASSUME NEW b \in Blocks
                 PROVE  BlockOK(b \in used', ref_cnt'[b], Column(desc', b), file, life,
                                HoldersIn(C, buf, b), SharersIn(C, buf, b))
      BY DEF MidBlocks
    <3>1. BlockOK(b \in used, ref_cnt[b], Column(desc, b), file, life, HoldersIn(K, B, b), SharersIn(K, B, b))
      BY <2>1, <2>3 DEF BlocksOK
    <3>2. ref_cnt[b] \in Nat BY <1>t
    <3>3. CASE b = k
      <4>1. C[p].at[b[1]] # b[2] /\ K[p].at[b[1]] = b[2]
        <5>1. d.at[b[1]] = 0 BY <1>5, <2>k, <3>3 DEF SteppedTo
        <5>2. b[2] # 0 BY <1>2, <2>k, <3>3
        <5> QED BY <2>4, <2>k, <3>3, <5>1, <5>2
      <4>2. Column(desc, b) \in [Started -> Flags] BY <1>t, ColumnType
      <4>3. CASE ref_cnt[b] \in 0 .. 1
        <5>1. BlockOK(FALSE, 0, [Column(desc, b) EXCEPT ![file[p]] = "none"], file, life,
                      HoldersIn(C, B, b), SharersIn(C, B, b))
          BY <2>4, <2>5, <3>1, <4>1, <4>2, <4>3, FreeHeld
        <5>2. BlockOK(b \in used', 0, [Column(desc, b) EXCEPT ![file[p]] = "none"], file, life,
                      HoldersIn(C, B, b), SharersIn(C, B, b))
          BY <5>1 DEF BlockOK
        <5> QED BY <1>e, <1>f, <2>3, <2>h, <3>3, <4>3, <5>2 DEF ColumnsAfter
      <4>4. CASE ref_cnt[b] > 1
        <5>1. BlockOK(b \in used, ref_cnt[b] - 1, [Column(desc, b) EXCEPT ![file[p]] = "none"], file, life,
                      HoldersIn(C, B, b), SharersIn(C, B, b))
          BY <2>4, <2>5, <3>1, <3>2, <4>1, <4>2, <4>4, UnrefHeld
        <5>2. ref_cnt'[b] = ref_cnt[b] - 1 /\ used' = used BY ZenonT(30), <2>h, <3>3, <4>4
        <5> QED BY <1>e, <1>f, <2>3, <3>3, <5>1, <5>2 DEF ColumnsAfter
      <4>5. ref_cnt[b] \in 0 .. 1 \/ ref_cnt[b] > 1 BY <3>2, CountCases
      <4> QED BY <4>3, <4>4, <4>5
    <3>4. CASE b # k
      <4>1. b[1] # r \/ b[2] # a BY <3>4, OtherPair
      <4>2. C[p].at[b[1]] = b[2] <=> K[p].at[b[1]] = b[2]
        <5>1. b[1] = r => c.at[b[1]] # b[2] BY <4>1
        <5>2. b[2] # 0 BY BlockFacts
        <5>3. b[1] = r => d.at[b[1]] # b[2] BY <1>5, <5>2 DEF SteppedTo
        <5> QED BY <1>5, <2>4, <5>1, <5>3 DEF SteppedTo
      <4>3. BlockOK(b \in used, ref_cnt[b], Column(desc, b), file, life, HoldersIn(C, B, b), SharersIn(C, B, b))
        BY <2>4, <2>5, <3>1, <4>2, OtherBlock
      <4>4. b \in used => b \in used' BY <1>d, <3>4
      <4>5. BlockOK(b \in used', ref_cnt[b], Column(desc, b), file, life, HoldersIn(C, B, b), SharersIn(C, B, b))
        BY <4>3, <4>4 DEF BlockOK
      <4> QED BY <1>d, <1>e, <2>3, <3>4, <4>5 DEF ColumnsAfter
    <3> QED BY <3>3, <3>4
  <2>7. MidBlocks([call EXCEPT ![p] = d]) BY <2>3, <2>6
  <2>8. CallMid(p, d, buf[p], life) BY <1>4, <1>6
  <2>9. d.todo = {} => RanksOf(d.at) = {} BY <1>8, <2>h
  <2> QED BY <1>t, <1>7, <2>1, <2>2, <2>7, <2>8, <2>9, ContinueBlocks
<1> QED BY ZenonT(30), <1>10, <1>11, <1>12, <1>13 DEF MInv

\* One DEALLOCATE_MEMORY of a release.
LEMMA DeallocateInv ==
  ASSUME Config, Counting, MInv, NEW p \in Procs, DeallocateStep(p)
  PROVE  MInv'
<1>1. PICK c, r, a, k : c = call[p] /\ r = Min(c.todo) /\ a = c.at[r] /\ k = <<r, a>> OBVIOUS
<1>2. PICK rc \in -1 .. 1 :
        /\ Deallocate(file[p], k, (c.op # "rollback" /\ buf[p][c.slot].global), rc)
        /\ Continue(p, [c EXCEPT !.todo = IF rc < 0 THEN {} ELSE c.todo \ {r}, !.at[r] = 0])
  BY <1>1 DEF DeallocateStep
<1>3. /\ c.op \in {"rollback", "destroy", "assign"} /\ UNCHANGED <<life, file, published, ops, forks, deaths>>
  BY <1>1 DEF DeallocateStep
<1>4. PICK T : T = IF rc < 0 THEN {} ELSE c.todo \ {r} OBVIOUS
<1>5. PICK d : d = [c EXCEPT !.todo = T, !.at[r] = 0] OBVIOUS
<1>6. Continue(p, d) BY <1>2, <1>4, <1>5
<1>7. Stepped(c, d, T, r, 0) BY <1>5 DEF Stepped
<1>8. (rc < 0 => T = {}) /\ (~(rc < 0) => T = Drop(c.todo, r)) BY <1>4 DEF Drop
<1>9. Deallocated(p, c, k, rc) BY <1>2 DEF Deallocated
<1> QED BY <1>1, <1>3, <1>6, <1>7, <1>8, <1>9, DeallocateOne

------------------------------------------------------------------------------
(* The invariant, and what it says.                                         *)

\* Every step keeps the invariant.
LEMMA NextInv ==
  ASSUME Config, Counting, MInv, [Next]_vars
  PROVE  MInv'
<1>1. ASSUME NEW p \in Procs, AllocateStep(p) PROVE MInv' BY <1>1, AllocateInv
<1>2. ASSUME NEW p \in Procs, GetStep(p) PROVE MInv' BY <1>2, GetInv
<1>3. ASSUME NEW p \in Procs, ShareStep(p) PROVE MInv' BY <1>3, ShareInv
<1>4. ASSUME NEW p \in Procs, DeallocateStep(p) PROVE MInv' BY <1>4, DeallocateInv
<1>5. ASSUME NEW p \in Procs, Die(p) PROVE MInv' BY <1>5, DieInv
<1>6. ASSUME NEW p \in Procs, NEW t \in Slots, NEW r \in Ranks, New(p, t, {r}) PROVE MInv'
  <2>1. {r} \in SUBSET Ranks /\ {r} # {} OBVIOUS
  <2> QED BY <1>6, <2>1, NewInv
<1>7. ASSUME NEW p \in Procs, NEW t \in Slots, New(p, t, Ranks) PROVE MInv'
  <2>1. Ranks # {} BY SMT DEF Ranks, Config
  <2>2. Ranks \in SUBSET Ranks OBVIOUS
  <2> QED BY <1>7, <2>1, <2>2, NewInv
<1>8. ASSUME NEW p \in Procs, NEW t \in Slots, NEW region \in published, FromShared(p, t, region) PROVE MInv'
  BY <1>8, FromSharedInv
<1>9. ASSUME NEW p \in Procs, NEW t \in Slots, MakeShared(p, t) PROVE MInv' BY <1>9, MakeSharedInv
<1>10. ASSUME NEW p \in Procs, NEW t \in Slots, Destroy(p, t) PROVE MInv' BY <1>10, DestroyInv
<1>11. ASSUME NEW p \in Procs, NEW t \in Slots, NEW u \in Slots, View(p, t, u) PROVE MInv' BY <1>11, ViewInv
<1>12. ASSUME NEW p \in Procs, NEW t \in Slots, NEW u \in Slots, MoveAssign(p, t, u) PROVE MInv'
  BY <1>12, MoveAssignInv
<1>13. ASSUME NEW p \in Procs, NEW q \in Procs, Fork(p, q) PROVE MInv' BY <1>13, ForkInv
<1>14. ASSUME UNCHANGED vars PROVE MInv'
  BY <1>14 DEF vars, MInv, KernelOK, ProcsOK, LocalsOK, OwnOK, BlocksOK
<1> QED
  BY <1>1, <1>2, <1>3, <1>4, <1>5, <1>6, <1>7, <1>8, <1>9, <1>10, <1>11, <1>12, <1>13, <1>14 DEF Next, Finished

\* What a process holds, as the places that hold it.
LEMMA HeldPlaces ==
  ASSUME NEW p \in Procs, NEW b
  PROVE  b \in Held(p) <=> b \in Blocks /\ \E x \in HoldersIn(call, buf, b) : x[1] = p
<1>1. PICK c, bs : c = call[p] /\ bs = buf[p] OBVIOUS
<1>2. b \in Held(p) <=> b \in Blocks /\ \E h \in Slots \cup {0} : Holds(p, c, bs, h, b)
  <2> DEFINE Kept == {t \in Slots : bs[t].maker = p /\ ~(c.op \in {"destroy", "assign"} /\ t = c.slot)}
  <2>0. Held(p) = (IF c.op = "share" THEN {} ELSE BlocksOf(c.at)) \cup UNION {BlocksOf(bs[t].at) : t \in Kept}
    BY <1>1 DEF Held
  <2> HIDE DEF Kept
  <2>u. b \in UNION {BlocksOf(bs[t].at) : t \in Kept} <=> \E t \in Kept : b \in BlocksOf(bs[t].at) BY SMT
  <2>b. \A at : b \in BlocksOf(at) <=> b \in Blocks /\ at[b[1]] = b[2] BY DEF BlocksOf
  <2>c. b \in Held(p) <=> (c.op # "share" /\ b \in BlocksOf(c.at)) \/ \E t \in Kept : b \in BlocksOf(bs[t].at)
    BY <2>0, <2>u
  <2>1. b \in Held(p) <=> /\ b \in Blocks
                          /\ \/ c.op # "share" /\ c.at[b[1]] = b[2]
                             \/ \E t \in Slots : /\ bs[t].maker = p /\ ~(c.op \in {"destroy", "assign"} /\ t = c.slot)
                                                 /\ bs[t].at[b[1]] = b[2]
    BY <2>b, <2>c DEF Kept
  <2>2. \A t \in Slots : t # 0 BY DeviceAssumption DEF Config
  <2>3. c.op # "share" /\ c.at[b[1]] = b[2] <=> Holds(p, c, bs, 0, b) BY DEF Holds
  <2>4. \A t \in Slots : Holds(p, c, bs, t, b)
                       <=> /\ bs[t].maker = p /\ ~(c.op \in {"destroy", "assign"} /\ t = c.slot)
                           /\ bs[t].at[b[1]] = b[2]
    BY <2>2 DEF Holds, Releases
  <2> QED BY <2>1, <2>3, <2>4
<1>3. (\E h \in Slots \cup {0} : Holds(p, c, bs, h, b)) <=> \E x \in HoldersIn(call, buf, b) : x[1] = p
  <2>1. ASSUME NEW h \in Slots \cup {0}, Holds(p, c, bs, h, b) PROVE \E x \in HoldersIn(call, buf, b) : x[1] = p
    <3>1. PICK x : x = <<p, h>> OBVIOUS
    <3>2. x \in Places /\ x[1] = p /\ x[2] = h BY <3>1, PlaceOf
    <3>3. x \in HoldersIn(call, buf, b) BY <1>1, <2>1, <3>2 DEF HoldersIn
    <3> QED BY <3>2, <3>3
  <2>2. ASSUME NEW x \in HoldersIn(call, buf, b), x[1] = p PROVE \E h \in Slots \cup {0} : Holds(p, c, bs, h, b)
    <3>1. x \in Places /\ Holds(p, c, bs, x[2], b) BY <1>1, <2>2 DEF HoldersIn
    <3> QED BY <3>1, PlaceParts
  <2> QED BY <2>1, <2>2
<1> QED BY <1>2, <1>3

\* One block, as the invariant has it.
LEMMA OneBlock ==
  ASSUME Config, MInv, ~tainted, NEW b \in Blocks
  PROVE  /\ BlockOK(b \in used, ref_cnt[b], Column(desc, b), file, life, HoldersIn(call, buf, b), SharersIn(call, buf, b))
         /\ ref_cnt[b] \in Nat
         /\ \A f \in Started : f \in Files(Column(desc, b)) <=> desc[f][b] # "none"
<1>1. BlocksOK(call) /\ desc \in [Started -> [Blocks -> Flags]] /\ ref_cnt \in [Blocks -> Nat]
  BY KernelTypes DEF MInv
<1>2. \A f \in Started : Column(desc, b)[f] = desc[f][b] BY DEF Column
<1> QED BY <1>1, <1>2 DEF BlocksOK, Files

\* What a running process holds is allocated and registered with its file.
LEMMA InvAllocated ==
  ASSUME Config, MInv
  PROVE  RegionsAllocated
<1> SUFFICES ASSUME ~tainted, NEW p \in Procs, life[p] = "alive", NEW b \in Held(p)
             PROVE  b \in used /\ desc[file[p]][b] # "none"
  BY DEF RegionsAllocated
<1>1. PICK x \in HoldersIn(call, buf, b) : x[1] = p BY HeldPlaces
<1>2. b \in Blocks BY HeldPlaces
<1>3. file[p] \in Files(Column(desc, b)) /\ b \in used BY <1>1, <1>2, OneBlock DEF BlockOK
<1>4. file[p] \in Started BY KernelTypes DEF ProcsOK
<1> QED BY <1>2, <1>3, <1>4, OneBlock

\* A count that is neither 0 nor 1.
LEMMA AtLeastTwo ==
  ASSUME NEW n \in Nat, n # 0, n # 1
  PROVE  n >= 2
BY SMT

\* Who holds a block together with another process holds a reference.
LEMMA InvExclusive ==
  ASSUME Config, Counting, MInv
  PROVE  ExclusiveOrShared
<1> SUFFICES ASSUME ~tainted, NEW p \in Procs, NEW q \in Procs, p # q, NEW b \in Held(p) \cap Held(q)
             PROVE  ref_cnt[b] >= 2
  BY DEF ExclusiveOrShared
<1>1. PICK x \in HoldersIn(call, buf, b) : x[1] = p BY HeldPlaces
<1>2. PICK y \in HoldersIn(call, buf, b) : y[1] = q BY HeldPlaces
<1>3. b \in Blocks BY HeldPlaces
<1>4. PICK d, n, f, g : d = Column(desc, b) /\ n = ref_cnt[b] /\ f = file[p] /\ g = file[q] OBVIOUS
<1>5. f \in Files(d) /\ g \in Files(d) /\ f # g
  BY ZenonT(30), <1>1, <1>2, <1>3, <1>4, OneBlock DEF BlockOK
<1>6. n \in Nat /\ (n = 0 => f = g) /\ (n > 0 => n = Cardinality(Files(d)))
  <2>1. PICK hs, ss : BlockOK(b \in used, n, d, file, life, hs, ss) BY <1>3, <1>4, OneBlock
  <2>2. n > 0 => n = Cardinality(Files(d)) BY <2>1 DEF BlockOK
  <2>3. n = 0 => \A v, w \in Files(d) : v = w BY <2>1 DEF BlockOK
  <2>4. n \in Nat BY <1>3, <1>4, OneBlock
  <2> QED BY <1>5, <2>2, <2>3, <2>4
<1>7. Cardinality(Files(d)) # 1
  <2>1. ASSUME Cardinality(Files(d)) = 1 PROVE FALSE
    <3>1. Files(d) = {f} BY <1>5, <2>1, FilesCount
    <3> QED BY <1>5, <3>1
  <2> QED BY <2>1
<1>8. n # 0 /\ n # 1
  <2>1. n # 0 BY <1>5, <1>6
  <2>2. n > 0 BY <1>6, <2>1, CountCases
  <2> QED BY <1>6, <1>7, <2>1, <2>2
<1>9. n >= 2 BY <1>6, <1>8, AtLeastTwo
<1> QED BY <1>4, <1>9

\* A registered block is held, or a process of its file has died.
LEMMA InvNoLeak ==
  ASSUME Config, MInv
  PROVE  NoLeak
<1> SUFFICES ASSUME ~tainted, NEW f \in Started, NEW b \in Blocks, desc[f][b] # "none"
             PROVE  /\ \E p \in Procs : life[p] = "alive" /\ file[p] = f
                    /\ \/ \E p \in Procs : file[p] = f /\ b \in Held(p)
                       \/ \E p \in Procs : file[p] = f /\ life[p] = "dead"
  BY DEF NoLeak
<1>1. f \in Files(Column(desc, b)) BY OneBlock
<1>2. /\ \E p \in Procs : life[p] = "alive" /\ file[p] = f
      /\ \/ \E p \in Procs : life[p] = "dead" /\ file[p] = f
         \/ \E x \in HoldersIn(call, buf, b) : file[x[1]] = f
  BY <1>1, OneBlock DEF BlockOK
<1>3. ASSUME NEW x \in HoldersIn(call, buf, b), file[x[1]] = f PROVE \E p \in Procs : file[p] = f /\ b \in Held(p)
  <2>1. PICK p \in Procs : p = x[1] BY PlaceParts DEF HoldersIn
  <2> QED BY ZenonT(30), <1>3, <2>1, HeldPlaces
<1> QED BY <1>2, <1>3

------------------------------------------------------------------------------
(* The theorems.                                                            *)

\* Finite sets can be counted, and sets of numbers have a minimum.
LEMMA CountingHolds ==
  ASSUME Config
  PROVE  Counting
<1>1. ASSUME NEW d PROVE CountsFiles(d)
  <2>0. IsFiniteSet(Started) BY DEF Config
  <2>1. Files(d) \in SUBSET Started BY DEF Files
  <2>2. IsFiniteSet(Files(d)) BY <2>0, <2>1, FS_Subset
  <2>3. Cardinality(Files(d)) \in Nat BY <2>2, FS_CardinalityType
  <2>4. Cardinality(Files(d)) = 0 <=> Files(d) = {} BY <2>2, FS_EmptySet
  <2>5. ASSUME NEW f, Cardinality(Files(d)) = 1, f \in Files(d) PROVE Files(d) = {f}
    <3>1. PICK x : Files(d) = {x} BY <2>2, <2>5, FS_Singleton
    <3> QED BY <2>5, <3>1
  <2>6. ASSUME NEW f, Files(d) = {f} PROVE Cardinality(Files(d)) = 1 BY <2>6, FS_Singleton
  <2>7. ASSUME NEW f, f \in Files(d) PROVE Cardinality(Files(d) \ {f}) = Cardinality(Files(d)) - 1
    BY <2>2, <2>7, FS_RemoveElement
  <2>8. ASSUME NEW f, f \notin Files(d) PROVE Cardinality(Files(d) \cup {f}) = Cardinality(Files(d)) + 1
    BY <2>2, <2>8, FS_AddElement
  <2> QED BY <2>2, <2>3, <2>4, <2>5, <2>6, <2>7, <2>8 DEF CountsFiles
<1>2. ASSUME NEW S, S \subseteq Nat, S # {} PROVE Min(S) \in S
  <2> DEFINE Less == {ss \in Nat \X Nat : ss[1] < ss[2]}
  <2>1. IsWellFoundedOn(Less, Nat) BY NatLessThanWellFounded DEF OpToRel
  <2>2. PICK x \in S : \A y \in S : ~(<<y, x>> \in Less)
    <3> HIDE DEF Less
    <3> QED BY <1>2, <2>1, WFMin
  <2>3. \A y \in S : x =< y
    <3> TAKE y \in S
    <3>1. <<y, x>> \in Nat \X Nat BY <1>2
    <3>2. ~(y < x) BY <2>2, <3>1
    <3> QED BY <1>2, <3>2, NotLess
  <2> QED BY <2>3 DEF Min
<1> QED BY <1>1, <1>2 DEF Counting

\* The inductive invariant holds in every behaviour.
THEOREM DeviceInvariant == Spec => []MInv
<1>1. Init => MInv BY InitInv, DeviceAssumption
<1>2. MInv /\ [Next]_vars => MInv' BY NextInv, DeviceAssumption, CountingHolds
<1> QED BY <1>1, <1>2, PTL DEF Spec

\* Types.
LEMMA MInvType ==
  ASSUME MInv
  PROVE  TypeOK
BY DEF MInv, KernelOK, ProcsOK, LocalsOK, TypeOK, Flags

\* Type correctness: the driver's tables, the buffers and the calls in progress
\* keep their types.
THEOREM DeviceTypes == Spec => []TypeOK
<1>1. MInv => TypeOK BY MInvType
<1> QED BY <1>1, DeviceInvariant, PTL

\* No buffer of a running process dangles: what a process has obtained and not
\* given back is allocated and registered with its open file, for any number of
\* processes, ranks, blocks and buffers, whichever calls interleave or fail.
THEOREM BuffersAllocated == Spec => []RegionsAllocated
<1>1. MInv => RegionsAllocated BY InvAllocated, DeviceAssumption
<1> QED BY <1>1, DeviceInvariant, PTL

\* A block is in the hands of two processes only by sharing, and then the shared
\* entry counts at least two references.
THEOREM BlocksExclusive == Spec => []ExclusiveOrShared
<1>1. MInv => ExclusiveOrShared BY InvExclusive, DeviceAssumption, CountingHolds
<1> QED BY <1>1, DeviceInvariant, PTL

\* What the driver has registered with a file is held by a process of that file,
\* or a process of it has died; after the last close nothing is registered.
THEOREM BlocksNotLost == Spec => []NoLeak
<1>1. MInv => NoLeak BY InvNoLeak, DeviceAssumption
<1> QED BY <1>1, DeviceInvariant, PTL
==============================================================================
