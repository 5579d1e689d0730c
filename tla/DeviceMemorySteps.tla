-------------------------- MODULE DeviceMemorySteps --------------------------
(****************************************************************************)
(* The inductive invariant of DeviceMemory, and that every step keeps it    *)
(* but the release of memory, which is in DeviceMemoryProofs.               *)
(*                                                                          *)
(* The argument is about one block at a time.  A block has holders: the     *)
(* buffers, and the call in progress, of the processes that obtained it.    *)
(* An ioctl changes one block and its holders; everything else a process    *)
(* does with a region (construct, release, move) renames holders.           *)
(*                                                                          *)
(* A leaf is Zenon's unless it names another prover.                        *)
(****************************************************************************)
EXTENDS DeviceMemory, TLAPS

USE Zenon

------------------------------------------------------------------------------
(* One block, its holders, the invariant; and a process that forks.         *)

Places == Procs \X (Slots \cup {0})

\* A pair that is a place.
LEMMA PlaceOf ==
  \A x : \A p \in Procs, h \in Slots \cup {0} :
    x = <<p, h>> => x \in Places /\ x[1] = p /\ x[2] = h
BY SMT DEF Places

\* The parts of a pair.
LEMMA PairParts == \A b, r, a : b = <<r, a>> => b[1] = r /\ b[2] = a
BY SMT

\* A block that is not a given pair.
LEMMA OtherPair ==
  \A b \in Blocks : \A r, a : b # <<r, a>> => b[1] # r \/ b[2] # a
BY SMT DEF Blocks

\* The operations are different ones.
LEMMA OpNames ==
  \A o : /\ o = "get" => /\ o # "idle" /\ o # "share" /\ o \in {"allocate", "get"}
                        /\ o \notin {"rollback", "destroy", "assign"}
         /\ o \in {"rollback", "destroy", "assign"} =>
              /\ o # "idle" /\ o # "share" /\ o # "get" /\ o \notin {"allocate", "get"}
              /\ o = "rollback" \/ o \in {"destroy", "assign"}
BY SMT

\* The fields of a call.
LEMMA CallFields ==
  ASSUME NEW c \in Calls
  PROVE  c.at \in Regions /\ c.want \in Regions /\ c.todo \in SUBSET Ranks
BY SMT DEF Calls

\* Numbers are ordered.
LEMMA NotLess == \A x, y \in Nat : ~(y < x) => x =< y
BY SMT

\* A counter is zero, one or more.
LEMMA CountCases ==
  ASSUME NEW n \in Nat
  PROVE  /\ n = 0 \/ n = 1 \/ n > 1
         /\ n = 0 => ~(n > 0) /\ ~(n > 1)
         /\ n = 1 => n > 0 /\ ~(n > 1) /\ n # 0 /\ n - 1 = 0
         /\ n > 1 => n > 0 /\ n # 0 /\ n # 1 /\ n \notin 0 .. 1 /\ n - 1 > 0 /\ n - 1 # 0
         /\ n \in 0 .. 1 \/ n > 1
         /\ (n > 0 => n - 1 \in Nat) /\ n + 1 \in Nat /\ ~(0 < 0) /\ ~(1 < 0)
BY SMT

\* A block's flag in an open file, and the places that can hold a block: the
\* buffers of a process, and the call it is in as place 0.
Flags == {"none", "local", "global"}

\* The files a block is registered with, from its flag in each of them.
Files(d) == {f \in Started : d[f] # "none"}

\* A block: u is whether it is in use, n its reference count, d its flag in each
\* file, hs its holders and ss those that know that it is shared.  A registered
\* block is in use; the references are the files it is registered with, or it
\* is local to one file; a holder's file has registered it, it is shared if and
\* only if its holders know, and the processes of one file hold it once; it is
\* held through each of its files, unless a process of the file has died.
BlockOK(u, n, d, F, L, hs, ss) ==
  /\ Files(d) # {} => u
  /\ n > 0 => n = Cardinality(Files(d))
  /\ n = 0 => \A f, g \in Files(d) : f = g /\ d[f] = "local"
  /\ \A x \in hs : L[x[1]] = "alive" /\ F[x[1]] \in Files(d) /\ (n > 0 <=> x \in ss)
  /\ \A x, y \in hs : F[x[1]] = F[y[1]] => x = y
  /\ \A f \in Files(d) :
       /\ \E p \in Procs : L[p] = "alive" /\ F[p] = f
       /\ \/ \E p \in Procs : L[p] = "dead" /\ F[p] = f
          \/ \E x \in hs : F[x[1]] = f

\* A fork: the child uses its parent's file and holds nothing.
LEMMA ForkBlock ==
  ASSUME NEW u, NEW n, NEW d, NEW F \in [Procs -> Started \cup {NoProc}],
         NEW L \in [Procs -> {"unborn", "alive", "dead"}], NEW hs, NEW ss,
         BlockOK(u, n, d, F, L, hs, ss), hs \subseteq Places,
         NEW p \in Procs, NEW q \in Procs, L[p] = "alive", L[q] = "unborn"
  PROVE  BlockOK(u, n, d, [F EXCEPT ![q] = F[p]], [L EXCEPT ![q] = "alive"], hs, ss)
<1> DEFINE F2 == [F EXCEPT ![q] = F[p]]  L2 == [L EXCEPT ![q] = "alive"]
<1>1. \A r \in Procs \ {q} : F2[r] = F[r] /\ L2[r] = L[r] OBVIOUS
<1>2. "unborn" # "alive" /\ "unborn" # "dead" BY SMT
<1>3. \A x \in hs : x[1] \in Procs \ {q}
  <2> SUFFICES ASSUME NEW x \in hs PROVE x[1] \in Procs \ {q} BY SMT
  <2>1. L[x[1]] = "alive" BY DEF BlockOK
  <2>2. x \in Places BY SMT
  <2>3. x[1] \in Procs BY SMT, <2>2 DEF Places
  <2> QED BY <1>2, <2>1, <2>3
<1> HIDE DEF F2, L2
<1>4. \A x \in hs : F2[x[1]] = F[x[1]] /\ L2[x[1]] = L[x[1]] BY <1>1, <1>3
<1>5. ASSUME NEW f, \E r \in Procs : L[r] = "alive" /\ F[r] = f
      PROVE  \E r \in Procs : L2[r] = "alive" /\ F2[r] = f
  BY <1>1, <1>2, <1>5
<1>6. ASSUME NEW f, \E r \in Procs : L[r] = "dead" /\ F[r] = f
      PROVE  \E r \in Procs : L2[r] = "dead" /\ F2[r] = f
  BY <1>1, <1>2, <1>6
<1>7. \A v, w \in hs : F[v[1]] = F[w[1]] => v = w BY DEF BlockOK
<1>8. \A v, w \in hs : F2[v[1]] = F2[w[1]] => v = w BY <1>4, <1>7
<1>9. \A f : (\E x \in hs : F[x[1]] = f) => \E x \in hs : F2[x[1]] = f BY <1>4
<1>10. \A x \in hs : L2[x[1]] = "alive" /\ F2[x[1]] \in Files(d) /\ (n > 0 <=> x \in ss)
  BY ZenonT(30), <1>4 DEF BlockOK
<1> QED BY <1>5, <1>6, <1>8, <1>9, <1>10 DEF BlockOK, F2, L2

\* The calls that give a buffer's region back.
Releases(c) == c.op \in {"destroy", "assign"}

\* A buffer is empty or has a region; who made it was alive at some time; an
\* owned buffer is its maker's, and a buffer is owned by its maker until it is
\* shared.
BufferOK(p, b, L) ==
  /\ b \in Buffers
  /\ b # Empty => RanksOf(b.at) # {}
  /\ b.maker # NoProc => L[b.maker] # "unborn"
  /\ b.owned => b.owner = b.maker
  /\ b.maker = p => b.is_global = b.global /\ (b.is_global \/ b.owned)

\* A call, between two of its ioctls or just before it returns: constructors
\* have an empty slot to fill and meet every rank once, sharing goes through the
\* ranks of its buffer, and a release has a buffer.
CallMid(p, c, bs, L) ==
  /\ c \in Calls
  /\ c.op = "idle" => c = Idle
  /\ c.op # "idle" => L[p] = "alive" /\ c.slot \in Slots
  /\ c.op \in {"allocate", "get", "rollback"} => bs[c.slot] = Empty
  /\ c.op \in {"allocate", "get"} => c.todo \cap RanksOf(c.at) = {}
  /\ c.op = "get" => c.todo \subseteq RanksOf(c.want)
  /\ Releases(c) => bs[c.slot] # Empty
  /\ c.op = "assign" => c.from \in Slots \ {c.slot}
  /\ c.op = "share" => /\ bs[c.slot] # Empty /\ ~bs[c.slot].is_global
                       /\ c.want = bs[c.slot].at /\ c.todo \subseteq RanksOf(c.want)

\* Between two steps a call has an ioctl to make, and a release has exactly the
\* ranks to go through in which it still holds something.
CallOK(p, c, bs, L) ==
  /\ CallMid(p, c, bs, L)
  /\ c.op # "idle" => c.todo # {}
  /\ c.op \in {"rollback", "destroy", "assign"} => c.todo = RanksOf(c.at)

\* Every buffer of p is in order; a process that does not run has none.
BuffersOK(p, bs, L) == bs \in [Slots -> Buffers] /\ \A s \in Slots : BufferOK(p, bs[s], L)

LocalOK(p, c, bs, L) ==
  /\ BuffersOK(p, bs, L)
  /\ CallOK(p, c, bs, L)
  /\ L[p] # "alive" => \A s \in Slots : bs[s] = Empty

\* The place h of a process (a buffer, or the call for 0) holds block b, and
\* knows that it is shared.
Holds(p, c, bs, h, b) ==
  IF h = 0 THEN c.op # "share" /\ c.at[b[1]] = b[2]
  ELSE bs[h].maker = p /\ ~(Releases(c) /\ h = c.slot) /\ bs[h].at[b[1]] = b[2]

Shares(p, c, bs, h, b) ==
  IF h = 0 THEN c.op = "get" \/ (Releases(c) /\ bs[c.slot].global)
  ELSE bs[h].global \/ (c.op = "share" /\ h = c.slot /\ b[1] \notin c.todo)

\* The fields of the idle call and of the empty buffer.
LEMMA EmptyFields ==
  ASSUME Config
  PROVE  /\ NoRegion \in Regions /\ RanksOf(NoRegion) = {} /\ \A r \in Ranks : NoRegion[r] = 0
         /\ Idle \in Calls /\ Idle.op = "idle" /\ Idle.slot = 0 /\ Idle.todo = {}
         /\ Idle.want = NoRegion /\ Idle.at = NoRegion /\ Idle.from = 0
         /\ Empty \in Buffers /\ Empty.at = NoRegion /\ ~Empty.global /\ ~Empty.owned
         /\ ~Empty.is_global /\ Empty.maker = NoProc /\ Empty.owner = NoProc
<1>1. NoRegion \in Regions /\ \A r \in Ranks : NoRegion[r] = 0
  BY SMT DEF Config, NoRegion, Regions
<1>2. RanksOf(NoRegion) = {} BY SMT, <1>1 DEF RanksOf
<1> HIDE DEF NoRegion
<1>3. Idle \in Calls BY SMT, <1>1 DEF Idle, Calls, Ops
<1>4. /\ Idle.op = "idle" /\ Idle.slot = 0 /\ Idle.todo = {}
      /\ Idle.want = NoRegion /\ Idle.at = NoRegion /\ Idle.from = 0
  BY SMT DEF Idle
<1>5. Empty \in Buffers BY SMT, <1>1 DEF Empty, Buffers
<1>6. /\ Empty.at = NoRegion /\ ~Empty.global /\ ~Empty.owned
      /\ ~Empty.is_global /\ Empty.maker = NoProc /\ Empty.owner = NoProc
  BY SMT DEF Empty
<1> QED BY SMT, <1>1, <1>2, <1>3, <1>4, <1>5, <1>6

\* A process that is in no call.
LEMMA IdleOK ==
  ASSUME Config, NEW p \in Procs, NEW bs, NEW L
  PROVE  CallOK(p, Idle, bs, L)
<1> HIDE DEF Idle
<1>1. "idle" \notin {"allocate", "get", "rollback", "destroy", "assign", "share"} BY SMT
<1> QED BY <1>1, EmptyFields DEF CallOK, CallMid, Releases

\* A region has at most one block in a rank, and NoRegion none.
LEMMA BlockFacts ==
  ASSUME Config, NEW b \in Blocks
  PROVE  /\ b[1] \in Ranks /\ b[2] \in 1 .. NumBlocks /\ b[2] # 0
         /\ \A at : RanksOf(at) = {} => at[b[1]] # b[2]
         /\ \A at : at[b[1]] = b[2] => b[1] \in RanksOf(at)
<1>1. b[1] \in Ranks /\ b[2] \in 1 .. NumBlocks BY SMT DEF Blocks
<1>2. b[2] # 0 BY SMT, <1>1 DEF Config
<1>3. ASSUME NEW at, at[b[1]] = b[2] PROVE b[1] \in RanksOf(at)
  BY <1>1, <1>2, <1>3 DEF RanksOf
<1> QED BY <1>1, <1>2, <1>3

\* A process that is in no call holds nothing in its call.
LEMMA IdleHolds ==
  ASSUME Config, NEW p, NEW bs, NEW b \in Blocks
  PROVE  ~Holds(p, Idle, bs, 0, b)
<1> HIDE DEF Idle
<1>1. Idle.at[b[1]] # b[2] BY EmptyFields, BlockFacts
<1> QED BY <1>1 DEF Holds

\* The places that hold block b, and those that know that it is shared.
HoldersIn(C, B, b) == {x \in Places : Holds(x[1], C[x[1]], B[x[1]], x[2], b)}

SharersIn(C, B, b) == {x \in Places : Shares(x[1], C[x[1]], B[x[1]], x[2], b)}

\* A place, taken apart.
LEMMA PlaceParts ==
  /\ \A x \in Places : x[1] \in Procs /\ x[2] \in Slots \cup {0} /\ x = <<x[1], x[2]>>
  /\ \A p \in Procs, h \in Slots \cup {0} :
        <<p, h>> \in Places /\ <<p, h>>[1] = p /\ <<p, h>>[2] = h
BY SMT DEF Places

\* Only p's call, or only p's buffers, change; and they change nothing about what
\* its buffers hold.
Only(p, C, D) == \A q \in Procs : q # p => D[q] = C[q]

\* The flags of a block in all files.
Column(D, b) == [f \in Started |-> D[f][b]]

\* The driver's tables and the bounds.
KernelOK ==
  /\ used \subseteq Blocks /\ desc \in [Started -> [Blocks -> Flags]] /\ ref_cnt \in [Blocks -> Nat]
  /\ published \subseteq Regions /\ (\A at \in published : RanksOf(at) # {}) /\ tainted \in BOOLEAN
  /\ ops \in 0 .. MaxOps /\ forks \in 0 .. MaxForks /\ deaths \in 0 .. MaxDeaths

\* The processes and their open files.
ProcsOK ==
  /\ life \in [Procs -> {"unborn", "alive", "dead"}] /\ file \in [Procs -> Started \cup {NoProc}]
  /\ \A p \in Procs : life[p] = "alive" => file[p] \in Started

\* Each process by itself.
LocalsOK ==
  /\ buf \in [Procs -> [Slots -> Buffers]] /\ call \in [Procs -> Calls]
  /\ \A p \in Procs : LocalOK(p, call[p], buf[p], life)

\* What a call releases or shares was obtained by the process that calls.
Own(p, c, bs) == Releases(c) \/ c.op = "share" => bs[c.slot].maker = p

OwnOK == \A p \in Procs : Own(p, call[p], buf[p])

\* Every block, with calls C.
BlocksOK(C) ==
  \A b \in Blocks : BlockOK(b \in used, ref_cnt[b], Column(desc, b), file, life,
                           HoldersIn(C, buf, b), SharersIn(C, buf, b))

\* The inductive invariant.
MInv == KernelOK /\ ProcsOK /\ LocalsOK /\ (~tainted => OwnOK /\ BlocksOK(call))

\* The types of what a step works with.
LEMMA KernelTypes ==
  ASSUME MInv
  PROVE  /\ used \subseteq Blocks /\ desc \in [Started -> [Blocks -> Flags]] /\ ref_cnt \in [Blocks -> Nat]
         /\ call \in [Procs -> Calls] /\ buf \in [Procs -> [Slots -> Buffers]]
         /\ LocalsOK /\ ProcsOK /\ KernelOK
BY DEF MInv, KernelOK, LocalsOK

\* A process that is ready for a call.
LEMMA ReadyFacts ==
  ASSUME Config, MInv, NEW p \in Procs, Ready(p)
  PROVE  call[p] = Idle /\ life[p] = "alive" /\ file[p] \in Started /\ BuffersOK(p, buf[p], life)
<1>1. LocalOK(p, call[p], buf[p], life) BY DEF MInv, LocalsOK
<1>2. CallMid(p, call[p], buf[p], life) /\ BuffersOK(p, buf[p], life) BY <1>1 DEF LocalOK, CallOK
<1>3. call[p] = Idle /\ life[p] = "alive" BY <1>2 DEF CallMid, Ready
<1>4. file[p] \in Started BY <1>3 DEF MInv, ProcsOK
<1> QED BY <1>2, <1>3, <1>4

\* A counter that is below its bound.
LEMMA CountUp ==
  ASSUME NEW m \in Nat, NEW n \in 0 .. m, n < m
  PROVE  n + 1 \in 0 .. m
BY SMT

\* A process stays in order when others are born or die.
LEMMA LocalLater ==
  ASSUME Config, NEW p, NEW c, NEW bs, NEW L, NEW M, LocalOK(p, c, bs, L), M[p] = L[p],
         \A q \in Procs : L[q] # "unborn" => M[q] # "unborn"
  PROVE  LocalOK(p, c, bs, M)
<1>1. ASSUME NEW t \in Slots PROVE BufferOK(p, bs[t], M)
  <2>1. BufferOK(p, bs[t], L) BY DEF LocalOK, BuffersOK
  <2>2. PICK b : b = bs[t] OBVIOUS
  <2>3. b \in Buffers BY <2>1, <2>2 DEF BufferOK
  <2>4. b.maker \in Procs \cup {NoProc} BY SMT, <2>3 DEF Buffers
  <2>5. b.maker # NoProc => M[b.maker] # "unborn" BY <2>1, <2>2, <2>4 DEF BufferOK
  <2> QED BY <2>1, <2>2, <2>5 DEF BufferOK
<1>2. CallOK(p, c, bs, M) BY DEF LocalOK, CallOK, CallMid
<1> QED BY <1>1, <1>2 DEF LocalOK, BuffersOK

\* Only what the holders know counts.
LEMMA SameHolders ==
  ASSUME NEW u, NEW n, NEW d, NEW F, NEW L, NEW hs, NEW ss, NEW ts,
         BlockOK(u, n, d, F, L, hs, ss), \A x \in hs : x \in ss <=> x \in ts
  PROVE  BlockOK(u, n, d, F, L, hs, ts)
BY DEF BlockOK

\* A process that is not alive is in no call and holds nothing.
LEMMA NotAlive ==
  ASSUME Config, MInv, NEW q \in Procs, life[q] # "alive"
  PROVE  call[q] = Idle /\ \A t \in Slots : buf[q][t] = Empty
<1>1. LocalOK(q, call[q], buf[q], life) BY DEF MInv, LocalsOK
<1>2. CallMid(q, call[q], buf[q], life) BY <1>1 DEF LocalOK, CallOK
<1> QED BY <1>1, <1>2 DEF LocalOK, CallMid

\* The child of a fork has made none of its buffers.
LEMMA ChildBuffers ==
  ASSUME Config, MInv, NEW p \in Procs, NEW q \in Procs, Ready(p), life[q] = "unborn",
         NEW bs, bs = buf[p], NEW M, M[q] = "alive", \A x \in Procs : life[x] # "unborn" => M[x] # "unborn"
  PROVE  LocalOK(q, Idle, bs, M) /\ \A t \in Slots : bs[t].maker # q
<1>1. BuffersOK(p, bs, life) BY ReadyFacts
<1>2. bs \in [Slots -> Buffers] BY <1>1 DEF BuffersOK
<1>3. ASSUME NEW t \in Slots PROVE bs[t].maker # q /\ BufferOK(q, bs[t], M)
  <2>1. BufferOK(p, bs[t], life) BY <1>1 DEF BuffersOK
  <2>2. PICK b : b = bs[t] OBVIOUS
  <2>3. b \in Buffers BY <2>1, <2>2 DEF BufferOK
  <2>4. b.maker \in Procs \cup {NoProc} BY SMT, <2>3 DEF Buffers
  <2>5. b.maker # NoProc => life[b.maker] # "unborn" BY <2>1, <2>2 DEF BufferOK
  <2>6. b.maker # q BY <2>5 DEF Config
  <2>7. b.maker # NoProc => M[b.maker] # "unborn" BY <2>4, <2>5
  <2> QED BY <2>1, <2>2, <2>6, <2>7 DEF BufferOK
<1>4. CallOK(q, Idle, bs, M) BY IdleOK
<1> QED BY <1>2, <1>3, <1>4 DEF LocalOK, BuffersOK

\* fork.
LEMMA ForkInv ==
  ASSUME Config, MInv, NEW p \in Procs, NEW q \in Procs, Fork(p, q)
  PROVE  MInv'
<1>0. /\ Ready(p) /\ life[q] = "unborn" /\ forks < MaxForks /\ forks' = forks + 1
      /\ life' = [life EXCEPT ![q] = "alive"] /\ file' = [file EXCEPT ![q] = file[p]]
      /\ buf' = [buf EXCEPT ![q] = buf[p]]
      /\ UNCHANGED <<kernel, call, published, tainted, ops, deaths>>
  BY DEF Fork
<1>u. /\ used' = used /\ desc' = desc /\ ref_cnt' = ref_cnt /\ call' = call /\ published' = published
      /\ tainted' = tainted /\ ops' = ops /\ deaths' = deaths
  BY <1>0 DEF kernel
<1>t. /\ call \in [Procs -> Calls] /\ buf \in [Procs -> [Slots -> Buffers]]
      /\ LocalsOK /\ ProcsOK /\ KernelOK
  BY KernelTypes
<1>l. life \in [Procs -> {"unborn", "alive", "dead"}] /\ file \in [Procs -> Started \cup {NoProc}]
  BY <1>t DEF ProcsOK
<1>p. life[p] = "alive" /\ file[p] \in Started BY <1>0, ReadyFacts
<1>1. forks' \in 0 .. MaxForks
  <2>1. forks \in 0 .. MaxForks /\ MaxForks \in Nat BY <1>t DEF KernelOK, Config
  <2> QED BY ZenonT(30), <1>0, <2>1, CountUp
<1>2. KernelOK' BY <1>t, <1>u, <1>1 DEF KernelOK
<1>3. /\ life'[q] = "alive" /\ file'[q] = file[p] /\ buf'[q] = buf[p]
      /\ \A x \in Procs : x # q => life'[x] = life[x] /\ file'[x] = file[x] /\ buf'[x] = buf[x]
  BY <1>0, <1>l, <1>t
<1>4. ProcsOK'
  <2>1. life' \in [Procs -> {"unborn", "alive", "dead"}] BY <1>0, <1>l
  <2>2. file' \in [Procs -> Started \cup {NoProc}] BY <1>0, <1>l, <1>p
  <2>3. \A x \in Procs : life'[x] = "alive" => file'[x] \in Started BY <1>t, <1>3, <1>p DEF ProcsOK
  <2> QED BY <2>1, <2>2, <2>3 DEF ProcsOK
<1>5. "alive" # "unborn" BY SMT
<1>6. \A x \in Procs : life[x] # "unborn" => life'[x] # "unborn" BY <1>3, <1>5
<1>7. call[q] = Idle /\ \A t \in Slots : buf[q][t] = Empty BY <1>0, <1>5, NotAlive
<1>8. LocalOK(q, Idle, buf[p], life') /\ \A t \in Slots : buf[p][t].maker # q
  <2>1. PICK bs, M : bs = buf[p] /\ M = life' OBVIOUS
  <2>2. M[q] = "alive" /\ \A x \in Procs : life[x] # "unborn" => M[x] # "unborn" BY <1>3, <1>6, <2>1
  <2>3. LocalOK(q, Idle, bs, M) /\ \A t \in Slots : bs[t].maker # q BY ZenonT(30), <1>0, <2>1, <2>2, ChildBuffers
  <2> QED BY <2>1, <2>3
<1>9. LocalsOK'
  <2>1. ASSUME NEW x \in Procs PROVE LocalOK(x, call'[x], buf'[x], life')
    <3>1. CASE x = q BY <1>u, <1>3, <1>7, <1>8, <3>1
    <3>2. CASE x # q
      <4>1. LocalOK(x, call[x], buf[x], life) BY <1>t DEF LocalsOK
      <4>2. PICK c, bs, M : c = call[x] /\ bs = buf[x] /\ M = life' OBVIOUS
      <4>3. M[x] = life[x] /\ \A y \in Procs : life[y] # "unborn" => M[y] # "unborn" BY <1>3, <1>6, <3>2, <4>2
      <4>4. LocalOK(x, c, bs, M) BY <4>1, <4>2, <4>3, LocalLater
      <4> QED BY <1>u, <1>3, <3>2, <4>2, <4>4
    <3> QED BY <3>1, <3>2
  <2>2. buf' \in [Procs -> [Slots -> Buffers]] BY <1>0, <1>t
  <2> QED BY <1>t, <1>u, <2>1, <2>2 DEF LocalsOK
<1>10. ASSUME ~tainted PROVE OwnOK' /\ BlocksOK(call)'
  <2>1. OwnOK /\ BlocksOK(call) BY <1>10 DEF MInv
  <2>2. ~Releases(Idle) /\ Idle.op # "share"
    <3>1. "idle" \notin {"destroy", "assign"} /\ "idle" # "share" BY SMT
    <3> QED BY <3>1, EmptyFields DEF Releases
  <2>3. OwnOK'
    <3>1. ASSUME NEW x \in Procs PROVE Own(x, call'[x], buf'[x])
      <4>1. CASE x = q BY <1>u, <1>7, <2>2, <4>1 DEF Own
      <4>2. CASE x # q
        <5>1. Own(x, call[x], buf[x]) BY <2>1 DEF OwnOK
        <5> QED BY <1>u, <1>3, <4>2, <5>1
      <4> QED BY <4>1, <4>2
    <3> QED BY <3>1 DEF OwnOK
  <2>4. PICK K, B, E : K = call /\ B = buf /\ E = buf' OBVIOUS
  <2>5. K[q] = Idle /\ (\A t \in Slots : B[q][t] = Empty /\ E[q][t].maker # q) /\ Only(q, B, E)
    BY <1>3, <1>7, <1>8, <2>4 DEF Only
  <2>6. ASSUME NEW b \in Blocks
        PROVE  BlockOK(b \in used', ref_cnt'[b], Column(desc', b), file', life',
                       HoldersIn(call', buf', b), SharersIn(call', buf', b))
    <3>1. BlockOK(b \in used, ref_cnt[b], Column(desc, b), file, life, HoldersIn(K, B, b), SharersIn(K, B, b))
      BY <2>1, <2>4 DEF BlocksOK
    <3>2. ASSUME NEW x \in Places
          PROVE  /\ x \in HoldersIn(K, E, b) <=> x \in HoldersIn(K, B, b)
                 /\ x \in HoldersIn(K, B, b) => (x \in SharersIn(K, B, b) <=> x \in SharersIn(K, E, b))
      <4>1. x[1] \in Procs /\ x[2] \in Slots \cup {0} BY PlaceParts
      <4>2. CASE x[1] # q
        <5>1. E[x[1]] = B[x[1]] BY <2>5, <4>1, <4>2 DEF Only
        <5> QED BY <5>1 DEF HoldersIn, SharersIn
      <4>3. CASE x[1] = q
        <5>1. CASE x[2] = 0
          <6>1. ~Holds(q, K[q], E[q], x[2], b) /\ ~Holds(q, K[q], B[q], x[2], b) BY <2>5, <5>1, IdleHolds
          <6> QED BY <4>3, <6>1 DEF HoldersIn
        <5>2. CASE x[2] # 0
          <6>1. x[2] \in Slots BY <4>1, <5>2
          <6>2. ~Holds(q, K[q], E[q], x[2], b) BY <2>5, <5>2, <6>1 DEF Holds
          <6>3. B[q][x[2]].maker # q BY <2>5, <6>1, EmptyFields DEF Config
          <6>4. ~Holds(q, K[q], B[q], x[2], b) BY <5>2, <6>3 DEF Holds
          <6> QED BY <4>3, <6>2, <6>4 DEF HoldersIn
        <5> QED BY <5>1, <5>2
      <4> QED BY <4>2, <4>3
    <3>3. HoldersIn(K, B, b) \subseteq Places /\ HoldersIn(K, E, b) \subseteq Places BY DEF HoldersIn
    <3>4. HoldersIn(K, E, b) = HoldersIn(K, B, b) BY <3>2, <3>3
    <3>5. PICK hs, ss, ts : hs = HoldersIn(K, B, b) /\ ss = SharersIn(K, B, b) /\ ts = SharersIn(K, E, b) OBVIOUS
    <3>6. hs \subseteq Places /\ \A x \in hs : x \in ss <=> x \in ts BY <3>2, <3>3, <3>5
    <3>7. BlockOK(b \in used, ref_cnt[b], Column(desc, b), file, life, hs, ts) BY <3>1, <3>5, <3>6, SameHolders
    <3>8. BlockOK(b \in used, ref_cnt[b], Column(desc, b), [file EXCEPT ![q] = file[p]], [life EXCEPT ![q] = "alive"], hs, ts)
      BY <1>0, <1>l, <1>p, <3>6, <3>7, ForkBlock
    <3>9. BlockOK(b \in used, ref_cnt[b], Column(desc, b), file', life', HoldersIn(K, E, b), SharersIn(K, E, b))
      BY <1>0, <3>4, <3>5, <3>8
    <3> QED BY <1>u, <2>4, <3>9
  <2>7. BlocksOK(call)' BY <2>6 DEF BlocksOK
  <2> QED BY <2>3, <2>7
<1> QED BY <1>u, <1>2, <1>4, <1>9, <1>10 DEF MInv

------------------------------------------------------------------------------
(* The initial states.                                                      *)

\* A block that is registered nowhere and held by nobody.
LEMMA EmptyBlock ==
  ASSUME NEW u, NEW d, NEW F, NEW L, NEW ss, Files(d) = {}
  PROVE  BlockOK(u, 0, d, F, L, {}, ss)
<1>1. ~(0 > 0) BY SMT
<1> QED BY <1>1 DEF BlockOK

\* An empty buffer is in order, and holds nothing.
LEMMA EmptyOK ==
  ASSUME Config, NEW p \in Procs, NEW L
  PROVE  BufferOK(p, Empty, L)
<1>1. NoProc # p BY DEF Config
<1> QED BY <1>1, EmptyFields DEF BufferOK

\* Slots are not called 0.
LEMMA SlotsNotZero ==
  ASSUME Config, NEW h \in Slots
  PROVE  h # 0
BY DEF Config

\* What a process in a call holds in its buffers.
LEMMA SlotHolds ==
  ASSUME Config, NEW p, NEW c, NEW bs, NEW h \in Slots, NEW b
  PROVE  /\ Holds(p, c, bs, h, b) <=>
               bs[h].maker = p /\ ~(Releases(c) /\ h = c.slot) /\ bs[h].at[b[1]] = b[2]
         /\ Shares(p, c, bs, h, b) <=>
               bs[h].global \/ (c.op = "share" /\ h = c.slot /\ b[1] \notin c.todo)
<1>1. h # 0 BY SlotsNotZero
<1> QED BY <1>1 DEF Holds, Shares

\* An empty buffer holds nothing.
LEMMA EmptyHolds ==
  ASSUME Config, NEW p \in Procs, NEW c, NEW bs, NEW h \in Slots, bs[h] = Empty, NEW b
  PROVE  ~Holds(p, c, bs, h, b)
<1>1. Empty.maker = NoProc /\ NoProc # p BY EmptyFields DEF Config
<1>2. bs[h].maker # p BY <1>1
<1> QED BY SMT, <1>2, SlotHolds

\* Nothing is allocated at first.
LEMMA InitInv ==
  ASSUME Config, Init
  PROVE  MInv
<1>1. KernelOK
  <2>1. 0 \in Nat /\ 0 \in 0 .. MaxOps /\ 0 \in 0 .. MaxForks /\ 0 \in 0 .. MaxDeaths BY SMT DEF Config
  <2>2. "none" \in Flags BY DEF Flags
  <2>3. desc \in [Started -> [Blocks -> Flags]] BY <2>2 DEF Init
  <2>4. ref_cnt \in [Blocks -> Nat] BY <2>1 DEF Init
  <2>5. used = {} /\ published = {} /\ tainted = FALSE /\ ops = 0 /\ forks = 0 /\ deaths = 0 BY DEF Init
  <2>6. used \subseteq Blocks /\ published \subseteq Regions /\ (\A at \in published : RanksOf(at) # {}) BY <2>5
  <2>7. tainted \in BOOLEAN BY <2>5
  <2>8. ops \in 0 .. MaxOps /\ forks \in 0 .. MaxForks /\ deaths \in 0 .. MaxDeaths BY <2>1, <2>5
  <2> QED BY <2>3, <2>4, <2>6, <2>7, <2>8 DEF KernelOK
<1>2. ProcsOK
  <2>1. ASSUME NEW p \in Procs, life[p] = "alive" PROVE file[p] \in Started BY SMT, <2>1 DEF Init
  <2> QED BY SMT, <2>1 DEF Init, ProcsOK
<1>3. /\ \A p \in Procs : call[p] = Idle /\ buf[p] \in [Slots -> Buffers] /\ \A t \in Slots : buf[p][t] = Empty
      /\ buf \in [Procs -> [Slots -> Buffers]] /\ call \in [Procs -> Calls]
  BY EmptyFields DEF Init
<1>4. LocalsOK
  <2>1. ASSUME NEW p \in Procs PROVE LocalOK(p, call[p], buf[p], life)
    <3>1. BufferOK(p, Empty, life) BY EmptyOK
    <3>2. BuffersOK(p, buf[p], life) BY <1>3, <3>1 DEF BuffersOK
    <3>3. CallOK(p, Idle, buf[p], life) BY IdleOK
    <3> QED BY <1>3, <3>2, <3>3 DEF LocalOK
  <2> QED BY <1>3, <2>1 DEF LocalsOK
<1>5. OwnOK
  <2>1. "idle" \notin {"destroy", "assign"} /\ "idle" # "share" BY SMT
  <2> QED BY <1>3, <2>1, EmptyFields DEF OwnOK, Own, Releases
<1>6. ASSUME NEW b \in Blocks
      PROVE  BlockOK(b \in used, ref_cnt[b], Column(desc, b), file, life, HoldersIn(call, buf, b), SharersIn(call, buf, b))
  <2>1. HoldersIn(call, buf, b) = {}
    <3>1. ASSUME NEW x \in Places PROVE ~Holds(x[1], call[x[1]], buf[x[1]], x[2], b)
      <4>1. PICK p \in Procs, h \in Slots \cup {0} : p = x[1] /\ h = x[2] BY PlaceParts
      <4>2. PICK c, bs : c = call[p] /\ bs = buf[p] OBVIOUS
      <4>3. ~Holds(p, c, bs, h, b)
        <5>1. CASE h = 0 BY <1>3, <4>2, <5>1, IdleHolds
        <5>2. CASE h \in Slots
          <6>1. bs[h] = Empty BY <1>3, <4>2, <5>2
          <6> QED BY <5>2, <6>1, EmptyHolds
        <5> QED BY <5>1, <5>2
      <4> QED BY <4>1, <4>2, <4>3
    <3> QED BY <3>1 DEF HoldersIn
  <2>2. ref_cnt[b] = 0 /\ Files(Column(desc, b)) = {}
    <3>1. \A f \in Started : Column(desc, b)[f] = "none" BY DEF Init, Column
    <3>2. Files(Column(desc, b)) = {} BY <3>1 DEF Files
    <3> QED BY <3>2 DEF Init
  <2>3. BlockOK(b \in used, 0, Column(desc, b), file, life, {}, SharersIn(call, buf, b)) BY SMT, <2>2, EmptyBlock
  <2> QED BY <2>1, <2>2, <2>3
<1>7. BlocksOK(call) BY <1>6 DEF BlocksOK
<1> QED BY <1>1, <1>2, <1>4, <1>5, <1>7 DEF MInv

------------------------------------------------------------------------------
(* A process dies, and its file is closed.                                  *)

\* Files are finitely many, so they can be counted.
CountsFiles(d) ==
  /\ IsFiniteSet(Files(d)) /\ Cardinality(Files(d)) \in Nat
  /\ Cardinality(Files(d)) = 0 <=> Files(d) = {}
  /\ \A f : Cardinality(Files(d)) = 1 /\ f \in Files(d) => Files(d) = {f}
  /\ \A f : Files(d) = {f} => Cardinality(Files(d)) = 1
  /\ \A f : f \in Files(d) => Cardinality(Files(d) \ {f}) = Cardinality(Files(d)) - 1
  /\ \A f : f \notin Files(d) => Cardinality(Files(d) \cup {f}) = Cardinality(Files(d)) + 1

\* The facts of arithmetic that the steps use; CountingHolds proves them.
Counting == /\ \A d : CountsFiles(d)
            /\ \A S : S \subseteq Nat /\ S # {} => Min(S) \in S

\* The count of the files of a block.
LEMMA FilesCount ==
  ASSUME Counting, NEW d
  PROVE  /\ IsFiniteSet(Files(d)) /\ Cardinality(Files(d)) \in Nat
         /\ Cardinality(Files(d)) = 0 <=> Files(d) = {}
         /\ \A f : Cardinality(Files(d)) = 1 /\ f \in Files(d) => Files(d) = {f}
         /\ \A f : Files(d) = {f} => Cardinality(Files(d)) = 1
         /\ \A f : f \in Files(d) => Cardinality(Files(d) \ {f}) = Cardinality(Files(d)) - 1
         /\ \A f : f \notin Files(d) => Cardinality(Files(d) \cup {f}) = Cardinality(Files(d)) + 1
BY DEF Counting, CountsFiles

\* Registering with a file and removing from it.
LEMMA FilesChange ==
  ASSUME NEW d \in [Started -> Flags], NEW f \in Started
  PROVE  /\ \A v \in Flags \ {"none"} : Files([d EXCEPT ![f] = v]) = Files(d) \cup {f}
         /\ Files([d EXCEPT ![f] = "none"]) = Files(d) \ {f}
BY SMT DEF Files, Flags

\* At most one place has the block, of a process with file f.
Alone(F, hs, f) == \A x, y \in hs : F[x[1]] = f /\ x = y

\* Who holds a block that has one file holds it alone.
LEMMA OneFile ==
  ASSUME Config, Counting, NEW u, NEW n \in 0 .. 1, NEW d, NEW F, NEW L, NEW hs, NEW ss,
         BlockOK(u, n, d, F, L, hs, ss), NEW f \in Files(d)
  PROVE  Files(d) = {f} /\ Alone(F, hs, f)
<1>1. Files(d) = {f}
  <2>1. CASE n = 0
    <3>1. \A g, h \in Files(d) : g = h BY <2>1 DEF BlockOK
    <3> QED BY <3>1
  <2>2. CASE n = 1
    <3>1. n > 0 BY SMT, <2>2
    <3>2. Cardinality(Files(d)) = 1 BY <2>2, <3>1 DEF BlockOK
    <3> QED BY <3>2, FilesCount
  <2> QED BY SMT, <2>1, <2>2
<1>2. \A x \in hs : F[x[1]] = f
  <2>1. \A x \in hs : F[x[1]] \in Files(d) BY DEF BlockOK
  <2> QED BY <1>1, <2>1
<1>3. \A v, w \in hs : F[v[1]] = F[w[1]] => v = w BY DEF BlockOK
<1> QED BY <1>1, <1>2, <1>3 DEF Alone

\* What is left of the holders when p dies.
Without(hs, p) == {x \in hs : x[1] # p}

\* A death while another process has the file open.
LEMMA DieBlock ==
  ASSUME NEW u, NEW n, NEW d, NEW F, NEW L \in [Procs -> {"unborn", "alive", "dead"}], NEW hs, NEW ss,
         BlockOK(u, n, d, F, L, hs, ss), hs \subseteq Places,
         NEW p \in Procs, NEW q \in Procs \ {p}, L[q] = "alive", F[q] = F[p]
  PROVE  BlockOK(u, n, d, F, [L EXCEPT ![p] = "dead"], Without(hs, p), Without(ss, p))
<1> DEFINE M == [L EXCEPT ![p] = "dead"]  ks == Without(hs, p)
<1>1. M[p] = "dead" /\ \A r \in Procs \ {p} : M[r] = L[r] OBVIOUS
<1>2. \A x \in ks : x \in hs /\ x[1] # p /\ x[1] \in Procs
  <2>1. \A x \in Places : x[1] \in Procs BY SMT DEF Places
  <2> QED BY <2>1 DEF Without
<1> HIDE DEF M
<1>3. \A x \in ks : M[x[1]] = "alive" /\ F[x[1]] \in Files(d) /\ (n > 0 <=> x \in Without(ss, p))
  <2> SUFFICES ASSUME NEW x \in ks
               PROVE  M[x[1]] = "alive" /\ F[x[1]] \in Files(d) /\ (n > 0 <=> x \in Without(ss, p))
    BY SMT
  <2>1. x \in hs /\ x[1] # p /\ x[1] \in Procs BY <1>2
  <2>2. L[x[1]] = "alive" /\ F[x[1]] \in Files(d) /\ (n > 0 <=> x \in ss) BY <2>1 DEF BlockOK
  <2> QED BY <1>1, <2>1, <2>2 DEF Without
<1>4. \A v, w \in ks : F[v[1]] = F[w[1]] => v = w
  <2>1. \A v, w \in hs : F[v[1]] = F[w[1]] => v = w BY DEF BlockOK
  <2> QED BY <1>2, <2>1
<1>5. ASSUME NEW f \in Files(d)
      PROVE  /\ \E r \in Procs : M[r] = "alive" /\ F[r] = f
             /\ \/ \E r \in Procs : M[r] = "dead" /\ F[r] = f
                \/ \E x \in ks : F[x[1]] = f
  <2>1. CASE f = F[p] BY <1>1, <2>1
  <2>2. CASE f # F[p]
    <3>1. /\ \E r \in Procs : L[r] = "alive" /\ F[r] = f
          /\ \/ \E r \in Procs : L[r] = "dead" /\ F[r] = f
             \/ \E x \in hs : F[x[1]] = f
      BY DEF BlockOK
    <3>2. \A x \in hs : F[x[1]] = f => x \in ks BY <2>2 DEF Without
    <3> QED BY <1>1, <2>2, <3>1, <3>2
  <2> QED BY <2>1, <2>2
<1> HIDE DEF ks
<1> QED BY <1>3, <1>4, <1>5 DEF BlockOK, M, ks

\* What the last close of a file with flag g for a block does to the block's
\* allocation, from u to v, and to its count, from n to m.
ClosedTo(u, v, n, m, g) ==
  /\ ~(g = "local" /\ n > 0)
  /\ v <=> u /\ ~(g = "local" \/ (g = "global" /\ n = 1))
  /\ m = n - (IF g = "global" /\ n > 0 THEN 1 ELSE 0)

\* The last close of a file, when the only process that had it open dies.
LEMMA CloseBlock ==
  ASSUME Config, Counting, NEW u, NEW n \in Nat, NEW d \in [Started -> Flags], NEW F,
         NEW L \in [Procs -> {"unborn", "alive", "dead"}], NEW hs, NEW ss,
         BlockOK(u, n, d, F, L, hs, ss), hs \subseteq Places,
         NEW p \in Procs, F[p] \in Started,
         \A q \in Procs \ {p} : ~(L[q] = "alive" /\ F[q] = F[p]),
         NEW v, NEW m, ClosedTo(u, v, n, m, d[F[p]])
  PROVE  BlockOK(v, m, [d EXCEPT ![F[p]] = "none"], F, [L EXCEPT ![p] = "dead"],
                 Without(hs, p), Without(ss, p))
<1> USE DEF ClosedTo
<1> DEFINE M == [L EXCEPT ![p] = "dead"]  ks == Without(hs, p)  ts == Without(ss, p)
<1>f. PICK f \in Started : f = F[p] BY SMT
<1>e. PICK e : e = [d EXCEPT ![f] = "none"] OBVIOUS
<1>1. M[p] = "dead" /\ \A r \in Procs \ {p} : M[r] = L[r] OBVIOUS
<1>2. \A x \in hs : x[1] \in Procs
  <2>1. \A x \in Places : x[1] \in Procs BY SMT DEF Places
  <2> QED BY <2>1
<1> HIDE DEF M
<1>3. \A x \in hs : L[x[1]] = "alive" /\ F[x[1]] \in Files(d) /\ (n > 0 <=> x \in ss)
  BY DEF BlockOK
<1>4. \A x \in hs : x \in ks <=> F[x[1]] # f BY <1>f, <1>2, <1>3 DEF Without
<1>5. Files(e) = Files(d) \ {f} BY <1>e, FilesChange
<1>6. \A x \in ks : M[x[1]] = "alive" /\ F[x[1]] \in Files(e) /\ (n > 0 <=> x \in ts)
  <2> SUFFICES ASSUME NEW x \in ks
               PROVE  M[x[1]] = "alive" /\ F[x[1]] \in Files(e) /\ (n > 0 <=> x \in ts)
    BY SMT
  <2>1. x \in hs /\ x[1] # p BY DEF Without
  <2>2. F[x[1]] \in Files(e) BY <1>3, <1>4, <1>5, <2>1
  <2> QED BY <1>1, <1>2, <1>3, <2>1, <2>2 DEF Without
<1>7. \A x, y \in ks : F[x[1]] = F[y[1]] => x = y
  <2>1. \A x, y \in hs : F[x[1]] = F[y[1]] => x = y BY DEF BlockOK
  <2> QED BY <2>1 DEF Without
<1>8. ASSUME NEW g \in Files(e)
      PROVE  /\ \E r \in Procs : M[r] = "alive" /\ F[r] = g
             /\ \/ \E r \in Procs : M[r] = "dead" /\ F[r] = g
                \/ \E x \in ks : F[x[1]] = g
  <2>1. g \in Files(d) /\ g # f BY <1>5
  <2>2. /\ \E r \in Procs : L[r] = "alive" /\ F[r] = g
        /\ \/ \E r \in Procs : L[r] = "dead" /\ F[r] = g
           \/ \E x \in hs : F[x[1]] = g
    BY <2>1 DEF BlockOK
  <2> QED BY <1>f, <1>1, <1>4, <2>1, <2>2
<1> HIDE DEF ks, ts
<1>a. CASE f \notin Files(d)
  <2>1. d[f] = "none" BY <1>a DEF Files
  <2>2. Files(e) = Files(d) /\ e = d BY <1>a, <1>e, <1>5, <2>1
  <2>3. m = n /\ (v <=> u)
    <3>1. "none" # "local" /\ "none" # "global" BY SMT
    <3>2. n - 0 = n BY SMT
    <3> QED BY <1>f, <2>1, <3>1, <3>2
  <2>4. Files(e) # {} => v BY <2>2, <2>3 DEF BlockOK
  <2>5. m > 0 => m = Cardinality(Files(e)) BY <2>2, <2>3 DEF BlockOK
  <2>6. m = 0 => \A g, h \in Files(e) : g = h /\ e[g] = "local" BY <2>2, <2>3 DEF BlockOK
  <2>7. \A x \in ks : M[x[1]] = "alive" /\ F[x[1]] \in Files(e) /\ (m > 0 <=> x \in ts)
    BY <1>6, <2>3
  <2>8. BlockOK(v, m, e, F, M, ks, ts) BY <1>7, <1>8, <2>4, <2>5, <2>6, <2>7 DEF BlockOK
  <2> QED BY <1>e, <1>f, <2>8 DEF M, ks, ts
<1>b. CASE f \in Files(d) /\ n \in 0 .. 1
  <2>a. Files(d) = {f} /\ Alone(F, hs, f) BY <1>b, OneFile
  <2>1. Files(d) = {f} /\ \A x, y \in hs : F[x[1]] = f /\ x = y BY <2>a DEF Alone
  <2>2. Files(e) = {} BY <1>5, <2>1
  <2>3. ks = {} BY <1>4, <2>1 DEF ks, Without
  <2>4. m = 0
    <3>1. d[f] \in {"local", "global"} BY SMT, <1>b DEF Files, Flags
    <3> QED BY SMT, <1>b, <1>f, <3>1
  <2>5. BlockOK(v, 0, e, F, M, {}, ts) BY <2>2, EmptyBlock
  <2> QED BY <1>e, <1>f, <2>3, <2>4, <2>5 DEF M, ks, ts
<1>c. CASE f \in Files(d) /\ n > 1
  <2>1. d[f] = "global"
    <3>1. d[f] \in {"local", "global"} BY SMT, <1>c DEF Files, Flags
    <3> QED BY SMT, <1>c, <1>f, <3>1
  <2>2. m = n - 1 /\ m > 0 /\ m # 0 /\ n > 0 /\ n # 1 BY SMT, <1>c, <1>f, <2>1
  <2>3. n = Cardinality(Files(d)) BY <2>2 DEF BlockOK
  <2>4. m = Cardinality(Files(e)) BY <1>c, <1>5, <2>2, <2>3, FilesCount
  <2>5. v
    <3>1. u BY <1>c DEF BlockOK
    <3>2. "global" # "local" BY SMT
    <3> QED BY <1>f, <2>1, <2>2, <3>1, <3>2
  <2>7. \A x \in ks : M[x[1]] = "alive" /\ F[x[1]] \in Files(e) /\ (m > 0 <=> x \in ts)
    BY <1>6, <2>2
  <2>8. BlockOK(v, m, e, F, M, ks, ts) BY <1>7, <1>8, <2>2, <2>4, <2>5, <2>7 DEF BlockOK
  <2> QED BY <1>e, <1>f, <2>8 DEF M, ks, ts
<1>d. f \in Files(d) => n \in 0 .. 1 \/ n > 1 BY SMT
<1> QED BY <1>a, <1>b, <1>c, <1>d

\* A block has a flag in every file.
LEMMA ColumnType ==
  ASSUME NEW D \in [Started -> [Blocks -> Flags]], NEW b \in Blocks
  PROVE  Column(D, b) \in [Started -> Flags] /\ \A f \in Started : Column(D, b)[f] = D[f][b]
BY SMT DEF Column

\* What the last close of file f does to the driver's tables.
ClosedTables(f) ==
  /\ used' \subseteq used /\ desc' \in [Started -> [Blocks -> Flags]] /\ ref_cnt' \in [Blocks -> Nat]
  /\ tainted' \in BOOLEAN /\ (~tainted' => ~tainted)

\* What it does to block b.
ClosedBlock(f, b) ==
  /\ ~(desc[f][b] = "local" /\ ref_cnt[b] > 0)
  /\ b \in used' <=> b \in used /\ ~(desc[f][b] = "local" \/ (desc[f][b] = "global" /\ ref_cnt[b] = 1))
  /\ ref_cnt'[b] = ref_cnt[b] - (IF desc[f][b] = "global" /\ ref_cnt[b] > 0 THEN 1 ELSE 0)
  /\ Column(desc', b) = [Column(desc, b) EXCEPT ![f] = "none"]

\* After the last close of f the driver's tables keep their types, and an
\* execution that was tainted stays so.
LEMMA CloseTables ==
  ASSUME Config, MInv, NEW f \in Started, NEW kept, release_process_resources(f, kept)
  PROVE  ClosedTables(f)
<1>0. /\ desc \in [Started -> [Blocks -> Flags]] /\ ref_cnt \in [Blocks -> Nat] /\ tainted \in BOOLEAN
  BY KernelTypes DEF KernelOK
<1>1. used' \subseteq used BY DEF release_process_resources
<1>2. desc' \in [Started -> [Blocks -> Flags]]
  <2>1. desc' = [desc EXCEPT ![f] = [b \in Blocks |-> "none"]] BY DEF release_process_resources
  <2>2. "none" \in Flags BY DEF Flags
  <2>3. [b \in Blocks |-> "none"] \in [Blocks -> Flags] BY <2>2
  <2> QED BY <1>0, <2>1, <2>3
<1>3. ref_cnt' \in [Blocks -> Nat]
  <2>1. ref_cnt' = [b \in Blocks |-> ref_cnt[b] - (IF desc[f][b] = "global" /\ ref_cnt[b] > 0 THEN 1 ELSE 0)]
    BY DEF release_process_resources
  <2>2. ASSUME NEW b \in Blocks
        PROVE  ref_cnt[b] - (IF desc[f][b] = "global" /\ ref_cnt[b] > 0 THEN 1 ELSE 0) \in Nat
    <3>1. PICK n \in Nat, g \in Flags : n = ref_cnt[b] /\ g = desc[f][b] BY <1>0
    <3>2. n - (IF g = "global" /\ n > 0 THEN 1 ELSE 0) \in Nat BY SMT
    <3> QED BY <3>1, <3>2
  <2> QED BY <2>1, <2>2
<1>4. tainted' \in BOOLEAN /\ (~tainted' => ~tainted)
  <2>1. Taint(kept # {} \/ \E b \in Blocks : desc[f][b] = "local" /\ ref_cnt[b] > 0)
    BY DEF release_process_resources
  <2> QED BY SMT, <1>0, <2>1 DEF Taint
<1> QED BY <1>1, <1>2, <1>3, <1>4 DEF ClosedTables

\* The last close of f and block b, in an execution that is not tainted.
LEMMA CloseOne ==
  ASSUME Config, MInv, ~tainted', NEW f \in Started, NEW kept, release_process_resources(f, kept),
         NEW b \in Blocks
  PROVE  ClosedBlock(f, b)
<1>0. /\ desc \in [Started -> [Blocks -> Flags]] /\ ref_cnt \in [Blocks -> Nat]
  BY KernelTypes DEF KernelOK
<1>1. kept = {} /\ ~\E c \in Blocks : desc[f][c] = "local" /\ ref_cnt[c] > 0
  <2>1. Taint(kept # {} \/ \E c \in Blocks : desc[f][c] = "local" /\ ref_cnt[c] > 0)
    BY DEF release_process_resources
  <2> QED BY <2>1 DEF Taint
<1>2. ~(desc[f][b] = "local" /\ ref_cnt[b] > 0) BY <1>1
<1>3. b \in used' <=> b \in used /\ ~(desc[f][b] = "local" \/ (desc[f][b] = "global" /\ ref_cnt[b] = 1))
  <2>1. used' = used \ {c \in Blocks : \/ desc[f][c] = "local"
                                       \/ desc[f][c] = "global" /\ ref_cnt[c] = 1 /\ c \notin kept}
    BY DEF release_process_resources
  <2> QED BY <1>1, <2>1
<1>4. ref_cnt'[b] = ref_cnt[b] - (IF desc[f][b] = "global" /\ ref_cnt[b] > 0 THEN 1 ELSE 0)
  <2>1. ref_cnt' = [c \in Blocks |-> ref_cnt[c] - (IF desc[f][c] = "global" /\ ref_cnt[c] > 0 THEN 1 ELSE 0)]
    BY DEF release_process_resources
  <2> QED BY <2>1
<1>5. Column(desc', b) = [Column(desc, b) EXCEPT ![f] = "none"]
  <2>1. desc' = [desc EXCEPT ![f] = [c \in Blocks |-> "none"]] BY DEF release_process_resources
  <2>2. PICK D, E : D = desc /\ E = desc' OBVIOUS
  <2>3. /\ E[f][b] = "none" /\ (\A g \in Started : g # f => E[g][b] = D[g][b])
    BY <1>0, <2>1, <2>2
  <2>4. Column(E, b) = [Column(D, b) EXCEPT ![f] = "none"] BY <2>3 DEF Column
  <2> QED BY <2>2, <2>4
<1> QED BY <1>2, <1>3, <1>4, <1>5 DEF ClosedBlock

\* The last close and one block.
LEMMA CloseHeld ==
  ASSUME Config, Counting, MInv, NEW p \in Procs, file[p] \in Started, NEW b \in Blocks, ClosedBlock(file[p], b),
         \A q \in Procs \ {p} : ~(life[q] = "alive" /\ file[q] = file[p]),
         NEW hs, NEW ss, hs \subseteq Places,
         BlockOK(b \in used, ref_cnt[b], Column(desc, b), file, life, hs, ss)
  PROVE  BlockOK(b \in used', ref_cnt'[b], Column(desc', b), file, [life EXCEPT ![p] = "dead"],
                 Without(hs, p), Without(ss, p))
<1>t. /\ desc \in [Started -> [Blocks -> Flags]] /\ ref_cnt \in [Blocks -> Nat]
      /\ life \in [Procs -> {"unborn", "alive", "dead"}]
  BY KernelTypes DEF ProcsOK
<1>1. PICK n, d, F, L, f, m : /\ n = ref_cnt[b] /\ d = Column(desc, b) /\ F = file /\ L = life /\ f = F[p]
                              /\ m = ref_cnt'[b]
  OBVIOUS
<1>2. PICK u, v \in BOOLEAN : (u <=> b \in used) /\ (v <=> b \in used')
  <2>1. \E u \in BOOLEAN : u <=> b \in used OBVIOUS
  <2>2. \E v \in BOOLEAN : v <=> b \in used' OBVIOUS
  <2> QED BY <2>1, <2>2
<1>3. n \in Nat /\ d \in [Started -> Flags] /\ L \in [Procs -> {"unborn", "alive", "dead"}] /\ F[p] \in Started
  BY <1>t, <1>1, ColumnType
<1>4. d[F[p]] = desc[file[p]][b] BY <1>1 DEF Column
<1>5. ClosedTo(u, v, n, m, d[F[p]]) /\ Column(desc', b) = [d EXCEPT ![F[p]] = "none"]
  <2>1. PICK g : g = desc[file[p]][b] OBVIOUS
  <2>2. /\ ~(g = "local" /\ n > 0)
        /\ b \in used' <=> b \in used /\ ~(g = "local" \/ (g = "global" /\ n = 1))
        /\ m = n - (IF g = "global" /\ n > 0 THEN 1 ELSE 0)
        /\ Column(desc', b) = [d EXCEPT ![F[p]] = "none"]
    BY <1>1, <2>1 DEF ClosedBlock
  <2>3. v <=> u /\ ~(g = "local" \/ (g = "global" /\ n = 1)) BY <1>2, <2>2
  <2>4. ClosedTo(u, v, n, m, g) BY <2>2, <2>3 DEF ClosedTo
  <2> QED BY <1>4, <2>1, <2>2, <2>4
<1>6. BlockOK(u, n, d, F, L, hs, ss) BY ZenonT(30), <1>1, <1>2 DEF BlockOK
<1>7. \A q \in Procs \ {p} : ~(L[q] = "alive" /\ F[q] = F[p]) BY <1>1
<1>8. BlockOK(v, m, [d EXCEPT ![F[p]] = "none"], F, [L EXCEPT ![p] = "dead"], Without(hs, p), Without(ss, p))
  BY <1>3, <1>5, <1>6, <1>7, CloseBlock
<1>9. BlockOK(b \in used', m, [d EXCEPT ![F[p]] = "none"], F, [L EXCEPT ![p] = "dead"],
              Without(hs, p), Without(ss, p))
  BY <1>2, <1>8 DEF BlockOK
<1> QED BY <1>1, <1>5, <1>9

\* Who holds what when p has died.
LEMMA HoldersAfterDeath ==
  ASSUME Config, NEW C, NEW B, NEW D, NEW E, NEW p \in Procs, NEW b \in Blocks, Only(p, C, D), Only(p, B, E),
         D[p] = Idle, \A t \in Slots : E[p][t] = Empty
  PROVE  /\ HoldersIn(D, E, b) = Without(HoldersIn(C, B, b), p)
         /\ \A x \in HoldersIn(D, E, b) : x \in Without(SharersIn(C, B, b), p) <=> x \in SharersIn(D, E, b)
<1>1. ASSUME NEW x \in Places, x[1] # p
      PROVE  /\ x \in HoldersIn(D, E, b) <=> x \in HoldersIn(C, B, b)
             /\ x \in SharersIn(D, E, b) <=> x \in SharersIn(C, B, b)
  <2>1. x[1] \in Procs BY PlaceParts
  <2>2. E[x[1]] = B[x[1]] /\ D[x[1]] = C[x[1]] BY <1>1, <2>1 DEF Only
  <2> QED BY <2>2 DEF HoldersIn, SharersIn
<1>2. ASSUME NEW x \in Places, x[1] = p PROVE x \notin HoldersIn(D, E, b)
  <2>1. x[2] \in Slots \cup {0} BY PlaceParts
  <2>2. ~Holds(p, D[p], E[p], x[2], b)
    <3>1. CASE x[2] = 0 BY <3>1, IdleHolds
    <3>2. CASE x[2] # 0
      <4>1. x[2] \in Slots BY <2>1, <3>2
      <4>2. E[p][x[2]].maker # p BY <4>1, EmptyFields DEF Config
      <4> QED BY <3>2, <4>2 DEF Holds
    <3> QED BY <3>1, <3>2
  <2> QED BY <1>2, <2>2 DEF HoldersIn
<1>3. HoldersIn(D, E, b) \subseteq Places /\ HoldersIn(C, B, b) \subseteq Places BY DEF HoldersIn
<1>4. HoldersIn(D, E, b) = Without(HoldersIn(C, B, b), p) BY <1>1, <1>2, <1>3 DEF Without
<1>5. \A x \in HoldersIn(D, E, b) : x \in Without(SharersIn(C, B, b), p) <=> x \in SharersIn(D, E, b)
  BY <1>1, <1>2, <1>3 DEF Without
<1> QED BY <1>4, <1>5

\* What a death does to every block, from what it does to the block's holders.
DeathBlocks(p) ==
  \A b \in Blocks, hs \in SUBSET Places, ss \in SUBSET Places :
    BlockOK(b \in used, ref_cnt[b], Column(desc, b), file, life, hs, ss)
    => BlockOK(b \in used', ref_cnt'[b], Column(desc', b), file, life', Without(hs, p), Without(ss, p))

\* A process has died, and the driver has done what it does then.
LEMMA DeathInv ==
  ASSUME Config, MInv, KernelOK', NEW p \in Procs, life[p] = "alive", life' = [life EXCEPT ![p] = "dead"],
         buf' = [buf EXCEPT ![p] = [t \in Slots |-> Empty]], call' = [call EXCEPT ![p] = Idle],
         file' = file, ~tainted' => ~tainted /\ DeathBlocks(p)
  PROVE  MInv'
<1>t. /\ call \in [Procs -> Calls] /\ buf \in [Procs -> [Slots -> Buffers]] /\ LocalsOK /\ ProcsOK
  BY KernelTypes
<1>l. life \in [Procs -> {"unborn", "alive", "dead"}] BY <1>t DEF ProcsOK
<1>e. PICK es : es = [t \in Slots |-> Empty] OBVIOUS
<1>1. es \in [Slots -> Buffers] /\ \A t \in Slots : es[t] = Empty BY <1>e, EmptyFields
<1>2. /\ life'[p] = "dead" /\ buf'[p] = es /\ call'[p] = Idle
      /\ \A x \in Procs : x # p => life'[x] = life[x] /\ buf'[x] = buf[x] /\ call'[x] = call[x]
  BY <1>e, <1>l, <1>t
<1>3. "dead" # "alive" /\ "dead" # "unborn" BY SMT
<1>4. ProcsOK'
  <2>1. life' \in [Procs -> {"unborn", "alive", "dead"}] BY <1>l
  <2>2. \A x \in Procs : life'[x] = "alive" => file[x] \in Started BY <1>t, <1>2, <1>3 DEF ProcsOK
  <2> QED BY <1>t, <2>1, <2>2 DEF ProcsOK
<1>5. \A x \in Procs : life[x] # "unborn" => life'[x] # "unborn" BY <1>2, <1>3
<1>6. LocalsOK'
  <2>1. ASSUME NEW x \in Procs PROVE LocalOK(x, call'[x], buf'[x], life')
    <3>1. CASE x = p
      <4>1. PICK M : M = life' OBVIOUS
      <4>2. BuffersOK(p, es, M)
        <5>1. BufferOK(p, Empty, M) BY EmptyOK
        <5> QED BY <1>1, <5>1 DEF BuffersOK
      <4>3. CallOK(p, Idle, es, M) BY IdleOK
      <4>4. LocalOK(p, Idle, es, M) BY <1>1, <4>2, <4>3 DEF LocalOK
      <4> QED BY <1>2, <3>1, <4>1, <4>4
    <3>2. CASE x # p
      <4>1. LocalOK(x, call[x], buf[x], life) BY <1>t DEF LocalsOK
      <4>2. PICK c, bs, M : c = call[x] /\ bs = buf[x] /\ M = life' OBVIOUS
      <4>3. M[x] = life[x] /\ \A y \in Procs : life[y] # "unborn" => M[y] # "unborn" BY <1>2, <1>5, <3>2, <4>2
      <4>4. LocalOK(x, c, bs, M) BY <4>1, <4>2, <4>3, LocalLater
      <4> QED BY <1>2, <3>2, <4>2, <4>4
    <3> QED BY <3>1, <3>2
  <2>2. buf' \in [Procs -> [Slots -> Buffers]] /\ call' \in [Procs -> Calls]
    BY <1>t, <1>e, <1>1, EmptyFields
  <2> QED BY <2>1, <2>2 DEF LocalsOK
<1>7. ASSUME ~tainted' PROVE OwnOK' /\ BlocksOK(call)'
  <2>1. OwnOK /\ BlocksOK(call) /\ DeathBlocks(p) BY <1>7 DEF MInv
  <2>2. ~Releases(Idle) /\ Idle.op # "share"
    <3>1. "idle" \notin {"destroy", "assign"} /\ "idle" # "share" BY SMT
    <3> QED BY <3>1, EmptyFields DEF Releases
  <2>3. OwnOK'
    <3>1. ASSUME NEW x \in Procs PROVE Own(x, call'[x], buf'[x])
      <4>1. CASE x = p BY <1>2, <2>2, <4>1 DEF Own
      <4>2. CASE x # p
        <5>1. Own(x, call[x], buf[x]) BY <2>1 DEF OwnOK
        <5> QED BY <1>2, <4>2, <5>1
      <4> QED BY <4>1, <4>2
    <3> QED BY <3>1 DEF OwnOK
  <2>4. PICK K, B, C, E : K = call /\ B = buf /\ C = call' /\ E = buf' OBVIOUS
  <2>5. C[p] = Idle /\ (\A t \in Slots : E[p][t] = Empty) /\ Only(p, K, C) /\ Only(p, B, E)
    BY <1>1, <1>2, <2>4 DEF Only
  <2>6. ASSUME NEW b \in Blocks
        PROVE  BlockOK(b \in used', ref_cnt'[b], Column(desc', b), file', life',
                       HoldersIn(call', buf', b), SharersIn(call', buf', b))
    <3>1. BlockOK(b \in used, ref_cnt[b], Column(desc, b), file, life, HoldersIn(K, B, b), SharersIn(K, B, b))
      BY <2>1, <2>4 DEF BlocksOK
    <3>2. HoldersIn(K, B, b) \in SUBSET Places /\ SharersIn(K, B, b) \in SUBSET Places
      BY DEF HoldersIn, SharersIn
    <3>3. PICK hs, ss, ks, us, ts : /\ hs = HoldersIn(K, B, b) /\ ss = SharersIn(K, B, b)
                                    /\ ks = Without(hs, p) /\ us = Without(ss, p) /\ ts = SharersIn(C, E, b)
      OBVIOUS
    <3>4. BlockOK(b \in used', ref_cnt'[b], Column(desc', b), file, life', ks, us)
      BY <2>1, <3>1, <3>2, <3>3 DEF DeathBlocks
    <3>5. HoldersIn(C, E, b) = ks /\ \A x \in ks : x \in us <=> x \in ts
      <4>1. /\ HoldersIn(C, E, b) = Without(HoldersIn(K, B, b), p)
            /\ \A x \in HoldersIn(C, E, b) : x \in Without(SharersIn(K, B, b), p) <=> x \in SharersIn(C, E, b)
        BY <2>5, HoldersAfterDeath
      <4> QED BY ZenonT(30), <3>3, <4>1
    <3>6. BlockOK(b \in used', ref_cnt'[b], Column(desc', b), file, life', ks, ts)
      BY <3>4, <3>5, SameHolders
    <3> QED BY <2>4, <3>3, <3>5, <3>6
  <2>7. BlocksOK(call)' BY <2>6 DEF BlocksOK
  <2> QED BY <2>3, <2>7
<1> QED BY <1>4, <1>6, <1>7 DEF MInv

\* A process ends.
LEMMA DieInv ==
  ASSUME Config, Counting, MInv, NEW p \in Procs, Die(p)
  PROVE  MInv'
<1>0. /\ life[p] = "alive" /\ deaths < MaxDeaths /\ deaths' = deaths + 1
      /\ life' = [life EXCEPT ![p] = "dead"]
      /\ buf' = [buf EXCEPT ![p] = [t \in Slots |-> Empty]] /\ call' = [call EXCEPT ![p] = Idle]
      /\ file' = file /\ published' = published /\ ops' = ops /\ forks' = forks
  BY DEF Die
<1>t. /\ used \subseteq Blocks /\ desc \in [Started -> [Blocks -> Flags]] /\ ref_cnt \in [Blocks -> Nat]
      /\ call \in [Procs -> Calls] /\ buf \in [Procs -> [Slots -> Buffers]]
      /\ LocalsOK /\ ProcsOK /\ KernelOK
  BY KernelTypes
<1>l. life \in [Procs -> {"unborn", "alive", "dead"}] /\ file \in [Procs -> Started \cup {NoProc}]
      /\ file[p] \in Started
  BY <1>0, <1>t DEF ProcsOK
<1>1. deaths' \in 0 .. MaxDeaths
  <2>1. deaths \in 0 .. MaxDeaths /\ MaxDeaths \in Nat BY <1>t DEF KernelOK, Config
  <2> QED BY ZenonT(30), <1>0, <2>1, CountUp
<1>2. CASE \E q \in Procs \ {p} : life[q] = "alive" /\ file[q] = file[p]
  <2>1. used' = used /\ desc' = desc /\ ref_cnt' = ref_cnt /\ tainted' = tainted BY <1>2 DEF Die, kernel
  <2>2. KernelOK' BY <1>0, <1>1, <1>t, <2>1 DEF KernelOK
  <2>3. ASSUME ~tainted', NEW b \in Blocks, NEW hs, NEW ss, hs \subseteq Places,
               BlockOK(b \in used, ref_cnt[b], Column(desc, b), file, life, hs, ss)
        PROVE  BlockOK(b \in used', ref_cnt'[b], Column(desc', b), file, life', Without(hs, p), Without(ss, p))
    <3>1. PICK q \in Procs \ {p} : life[q] = "alive" /\ file[q] = file[p] BY <1>2
    <3>2. BlockOK(b \in used, ref_cnt[b], Column(desc, b), file, [life EXCEPT ![p] = "dead"],
                  Without(hs, p), Without(ss, p))
      BY <1>l, <2>3, <3>1, DieBlock
    <3> QED BY <1>0, <2>1, <3>2
  <2>4. ~tainted' => ~tainted /\ DeathBlocks(p) BY <2>1, <2>3 DEF DeathBlocks
  <2> QED BY <1>0, <2>2, <2>4, DeathInv
<1>3. CASE ~\E q \in Procs \ {p} : life[q] = "alive" /\ file[q] = file[p]
  <2>0. PICK kept : release_process_resources(file[p], kept) BY <1>3 DEF Die
  <2>f. PICK f \in Started : f = file[p] BY <1>l
  <2>r. release_process_resources(f, kept) BY <2>0, <2>f
  <2>1. ClosedTables(f) BY <2>r, CloseTables
  <2>2. KernelOK' BY <1>0, <1>1, <1>t, <2>1 DEF KernelOK, ClosedTables
  <2>3. ASSUME ~tainted', NEW b \in Blocks, NEW hs, NEW ss, hs \subseteq Places,
               BlockOK(b \in used, ref_cnt[b], Column(desc, b), file, life, hs, ss)
        PROVE  BlockOK(b \in used', ref_cnt'[b], Column(desc', b), file, life', Without(hs, p), Without(ss, p))
    <3>1. ClosedBlock(f, b) BY <2>3, <2>r, CloseOne
    <3>2. ClosedBlock(file[p], b) BY <2>f, <3>1
    <3>3. \A q \in Procs \ {p} : ~(life[q] = "alive" /\ file[q] = file[p]) BY <1>3
    <3>4. BlockOK(b \in used', ref_cnt'[b], Column(desc', b), file, [life EXCEPT ![p] = "dead"],
                  Without(hs, p), Without(ss, p))
      BY <1>l, <2>3, <3>2, <3>3, CloseHeld
    <3> QED BY <1>0, <3>4
  <2>4. ~tainted' => ~tainted /\ DeathBlocks(p) BY <2>1, <2>3 DEF ClosedTables, DeathBlocks
  <2> QED BY <1>0, <2>2, <2>4, DeathInv
<1> QED BY <1>2, <1>3

------------------------------------------------------------------------------
(* Steps that leave the driver alone.                                       *)

\* The place that x is called when two places of p exchange their names.
Swap(p, g, h, x) == IF x = <<p, g>> THEN <<p, h>> ELSE IF x = <<p, h>> THEN <<p, g>> ELSE x

\* Exchanging two names twice changes nothing.
LEMMA SwapTwice ==
  ASSUME NEW p, NEW g, NEW h, NEW x
  PROVE  Swap(p, g, h, Swap(p, g, h, x)) = x /\ Swap(p, g, h, x)[1] = x[1]
BY SMT DEF Swap

\* Moving a region between a call and a buffer, or between buffers.
LEMMA SwapHolders ==
  ASSUME NEW u, NEW n, NEW d, NEW F, NEW L, NEW hs, NEW ss, NEW hs2, NEW ss2,
         NEW p \in Procs, NEW g \in Slots \cup {0}, NEW h \in Slots \cup {0},
         hs \subseteq Places, hs2 \subseteq Places,
         \A x \in Places : x \in hs2 <=> Swap(p, g, h, x) \in hs,
         \A x \in Places : x \in hs2 => (x \in ss2 <=> Swap(p, g, h, x) \in ss),
         BlockOK(u, n, d, F, L, hs, ss)
  PROVE  BlockOK(u, n, d, F, L, hs2, ss2)
<1>0. \A x : Swap(p, g, h, Swap(p, g, h, x)) = x /\ Swap(p, g, h, x)[1] = x[1] BY SMT, SwapTwice
<1>1. ASSUME NEW x \in hs2
      PROVE  /\ Swap(p, g, h, x) \in hs /\ Swap(p, g, h, x)[1] = x[1]
             /\ x \in ss2 <=> Swap(p, g, h, x) \in ss
  BY <1>0
<1>2. ASSUME NEW x \in hs2 PROVE L[x[1]] = "alive" /\ F[x[1]] \in Files(d) /\ (n > 0 <=> x \in ss2)
  <2>1. PICK y : y = Swap(p, g, h, x) BY SMT
  <2>2. y \in hs /\ y[1] = x[1] /\ (x \in ss2 <=> y \in ss) BY <1>1, <2>1
  <2>3. L[y[1]] = "alive" /\ F[y[1]] \in Files(d) /\ (n > 0 <=> y \in ss) BY <2>2 DEF BlockOK
  <2> QED BY <2>2, <2>3
<1>3. \A v, w \in hs : F[v[1]] = F[w[1]] => v = w BY DEF BlockOK
<1>4. ASSUME NEW v \in hs2, NEW w \in hs2, F[v[1]] = F[w[1]] PROVE v = w
  <2>1. PICK y, z : y = Swap(p, g, h, v) /\ z = Swap(p, g, h, w) BY SMT
  <2>2. y \in hs /\ z \in hs /\ y[1] = v[1] /\ z[1] = w[1] BY <1>1, <2>1
  <2>3. y = z BY <1>3, <1>4, <2>2
  <2>4. v = Swap(p, g, h, y) /\ w = Swap(p, g, h, z) BY <1>0, <2>1
  <2> QED BY <2>3, <2>4
<1>5. ASSUME NEW f, \E x \in hs : F[x[1]] = f PROVE \E x \in hs2 : F[x[1]] = f
  <2>1. PICK x \in hs : F[x[1]] = f BY <1>5
  <2>2. PICK y : y = Swap(p, g, h, x) BY SMT
  <2>3. Swap(p, g, h, y) = x /\ y[1] = x[1] BY <2>2, <1>0
  <2>4. y \in Places
    <3>1. x \in Places BY SMT
    <3> QED BY <2>2, <3>1 DEF Swap, Places
  <2> QED BY <2>1, <2>3, <2>4
<1> QED BY <1>2, <1>4, <1>5 DEF BlockOK

\* h, when the places g and k of a process exchange their names.
Other(g, k, h) == IF h = g THEN k ELSE IF h = k THEN g ELSE h

\* With call d and buffers ts, p holds of b what it held with c and bs, but for
\* an exchange of two names, and knows as much about it.
Renamed(p, c, bs, d, ts, b) ==
  \E g, k \in Slots \cup {0} : \A h \in Slots \cup {0} :
    /\ Holds(p, d, ts, h, b) <=> Holds(p, c, bs, Other(g, k, h), b)
    /\ Holds(p, d, ts, h, b) => (Shares(p, d, ts, h, b) <=> Shares(p, c, bs, Other(g, k, h), b))

\* What the call itself holds.
LEMMA CallHolds ==
  ASSUME NEW p, NEW c, NEW bs, NEW b
  PROVE  /\ Holds(p, c, bs, 0, b) <=> c.op # "share" /\ c.at[b[1]] = b[2]
         /\ Shares(p, c, bs, 0, b) <=> c.op = "get" \/ (Releases(c) /\ bs[c.slot].global)
BY DEF Holds, Shares

\* or nothing changes hands.
LEMMA SameRenamed ==
  ASSUME NEW p, NEW c, NEW bs, NEW d, NEW ts, NEW b,
         \A h \in Slots \cup {0} :
            /\ Holds(p, d, ts, h, b) <=> Holds(p, c, bs, h, b)
            /\ Holds(p, d, ts, h, b) => (Shares(p, d, ts, h, b) <=> Shares(p, c, bs, h, b))
  PROVE  Renamed(p, c, bs, d, ts, b)
<1>1. \A h \in Slots \cup {0} : Other(0, 0, h) = h BY DEF Other
<1>2. \A h \in Slots \cup {0} :
        /\ Holds(p, d, ts, h, b) <=> Holds(p, c, bs, Other(0, 0, h), b)
        /\ Holds(p, d, ts, h, b) => (Shares(p, d, ts, h, b) <=> Shares(p, c, bs, Other(0, 0, h), b))
  BY <1>1
<1> QED BY <1>2 DEF Renamed

\* Other, for the places of a process.
LEMMA SwapOther ==
  ASSUME NEW p, NEW g, NEW k, NEW h
  PROVE  /\ Swap(p, g, k, <<p, h>>) = <<p, Other(g, k, h)>>
         /\ \A q : q # p => Swap(p, g, k, <<q, h>>) = <<q, h>>
BY SMT DEF Swap, Other

\* A process renames what it holds, the others do nothing.
LEMMA RenamedBlock ==
  ASSUME NEW u, NEW n, NEW d, NEW F, NEW L, NEW C, NEW B, NEW D, NEW E, NEW p \in Procs, NEW b,
         Only(p, C, D), Only(p, B, E),
         Renamed(p, C[p], B[p], D[p], E[p], b),
         BlockOK(u, n, d, F, L, HoldersIn(C, B, b), SharersIn(C, B, b))
  PROVE  BlockOK(u, n, d, F, L, HoldersIn(D, E, b), SharersIn(D, E, b))
<1>1. PICK g, k \in Slots \cup {0} : \A h \in Slots \cup {0} :
        /\ Holds(p, D[p], E[p], h, b) <=> Holds(p, C[p], B[p], Other(g, k, h), b)
        /\ Holds(p, D[p], E[p], h, b) =>
             (Shares(p, D[p], E[p], h, b) <=> Shares(p, C[p], B[p], Other(g, k, h), b))
  BY DEF Renamed
<1>2. ASSUME NEW x \in Places
      PROVE  /\ x \in HoldersIn(D, E, b) <=> Swap(p, g, k, x) \in HoldersIn(C, B, b)
             /\ x \in HoldersIn(D, E, b) =>
                  (x \in SharersIn(D, E, b) <=> Swap(p, g, k, x) \in SharersIn(C, B, b))
  <2>1. PICK q \in Procs, h \in Slots \cup {0} : q = x[1] /\ h = x[2] /\ x = <<q, h>>
    BY SMT, PlaceParts
  <2>2. /\ x \in HoldersIn(D, E, b) <=> Holds(q, D[q], E[q], h, b)
        /\ x \in SharersIn(D, E, b) <=> Shares(q, D[q], E[q], h, b)
    BY <2>1 DEF HoldersIn, SharersIn
  <2>3. CASE q = p
    <3>1. PICK o \in Slots \cup {0} : o = Other(g, k, h) BY DEF Other
    <3>2. PICK y : y = Swap(p, g, k, x) OBVIOUS
    <3>3. y = <<p, o>>
      <4>1. x = <<p, h>> BY <2>1, <2>3
      <4>2. Swap(p, g, k, <<p, h>>) = <<p, Other(g, k, h)>> BY SMT, SwapOther
      <4> QED BY <3>1, <3>2, <4>1, <4>2
    <3>4. y \in Places /\ y[1] = p /\ y[2] = o BY <3>3, PlaceParts
    <3>5. /\ y \in HoldersIn(C, B, b) <=> Holds(p, C[p], B[p], o, b)
          /\ y \in SharersIn(C, B, b) <=> Shares(p, C[p], B[p], o, b)
      BY <3>4 DEF HoldersIn, SharersIn
    <3> QED BY <1>1, <2>2, <2>3, <3>1, <3>2, <3>5
  <2>4. CASE q # p
    <3>1. Swap(p, g, k, x) = x BY SMT, <2>1, <2>4 DEF Swap
    <3>2. D[q] = C[q] /\ E[q] = B[q] BY <2>4 DEF Only
    <3>3. /\ x \in HoldersIn(C, B, b) <=> Holds(q, C[q], B[q], h, b)
          /\ x \in SharersIn(C, B, b) <=> Shares(q, C[q], B[q], h, b)
      BY <2>1 DEF HoldersIn, SharersIn
    <3> QED BY <2>2, <3>1, <3>2, <3>3
  <2> QED BY <2>3, <2>4
<1>3. HoldersIn(C, B, b) \subseteq Places /\ HoldersIn(D, E, b) \subseteq Places BY DEF HoldersIn
<1> QED BY <1>2, <1>3, SwapHolders

\* A step of one process.
LEMMA OneProcess ==
  ASSUME Config, LocalsOK, NEW p \in Procs, NEW c, NEW bs, LocalOK(p, c, bs, life),
         call' = [call EXCEPT ![p] = c], buf' = [buf EXCEPT ![p] = bs], life' = life
  PROVE  LocalsOK'
<1>1. buf \in [Procs -> [Slots -> Buffers]] /\ call \in [Procs -> Calls] BY DEF LocalsOK
<1>2. bs \in [Slots -> Buffers] /\ c \in Calls BY DEF LocalOK, BuffersOK, CallOK, CallMid
<1>3. buf' \in [Procs -> [Slots -> Buffers]] /\ call' \in [Procs -> Calls] BY <1>1, <1>2
<1>4. ASSUME NEW q \in Procs PROVE LocalOK(q, call'[q], buf'[q], life')
  <2>1. CASE q = p
    <3>1. call'[q] = c /\ buf'[q] = bs BY <1>1, <2>1
    <3> QED BY <2>1, <3>1
  <2>2. CASE q # p
    <3>1. call'[q] = call[q] /\ buf'[q] = buf[q] BY <1>1, <2>2
    <3>2. LocalOK(q, call[q], buf[q], life) BY DEF LocalsOK
    <3> QED BY <3>1, <3>2
  <2> QED BY <2>1, <2>2
<1> QED BY <1>3, <1>4 DEF LocalsOK

\* Calls that begin or end without a change of what is held.
LEMMA CallRenames ==
  ASSUME Config, NEW p, NEW c, NEW d, NEW bs, NEW b \in Blocks,
         ~Releases(c), ~Releases(d), c.op # "share",
         d.op = "share" => b[1] \in d.todo \/ bs[d.slot].at[b[1]] # b[2],
         Holds(p, d, bs, 0, b) <=> Holds(p, c, bs, 0, b),
         Holds(p, d, bs, 0, b) => (d.op = "get" <=> c.op = "get")
  PROVE  Renamed(p, c, bs, d, bs, b)
<1>1. ASSUME NEW h \in Slots
      PROVE  /\ Holds(p, d, bs, h, b) <=> Holds(p, c, bs, h, b)
             /\ Holds(p, d, bs, h, b) => (Shares(p, d, bs, h, b) <=> Shares(p, c, bs, h, b))
  <2>1. h # 0 BY SlotsNotZero
  <2> QED BY <2>1 DEF Holds, Shares
<1>2. Holds(p, d, bs, 0, b) => (Shares(p, d, bs, 0, b) <=> Shares(p, c, bs, 0, b))
  BY CallHolds
<1>3. \A h \in Slots \cup {0} :
        /\ Holds(p, d, bs, h, b) <=> Holds(p, c, bs, h, b)
        /\ Holds(p, d, bs, h, b) => (Shares(p, d, bs, h, b) <=> Shares(p, c, bs, h, b))
  BY <1>1, <1>2
<1> QED BY <1>3, SameRenamed

\* The driver's tables are what they were, but for blocks that are marked used.
SameKernel == desc' = desc /\ ref_cnt' = ref_cnt /\ used \subseteq used'

\* Every block is held as before, by places that may have changed their names.
AllRenamed(p, c, bs, d, ts) == \A b \in Blocks : Renamed(p, c, bs, d, ts, b)

\* A step of one process that only renames the places of what is held.
LEMMA RenameStep ==
  ASSUME Config, MInv, KernelOK', NEW p \in Procs, NEW d, NEW ts, LocalOK(p, d, ts, life),
         call' = [call EXCEPT ![p] = d], buf' = [buf EXCEPT ![p] = ts], life' = life, file' = file,
         ~tainted' => /\ ~tainted /\ SameKernel /\ Own(p, d, ts)
                      /\ AllRenamed(p, call[p], buf[p], d, ts)
  PROVE  MInv'
<1>t. /\ call \in [Procs -> Calls] /\ buf \in [Procs -> [Slots -> Buffers]]
      /\ LocalsOK /\ ProcsOK
  BY KernelTypes
<1>1. ProcsOK' BY <1>t DEF ProcsOK
<1>2. LocalsOK' BY <1>t, OneProcess
<1>3. ASSUME ~tainted' PROVE OwnOK' /\ BlocksOK(call)'
  <2>0. SameKernel /\ Own(p, d, ts) /\ AllRenamed(p, call[p], buf[p], d, ts) BY <1>3
  <2>1. OwnOK /\ BlocksOK(call) BY <1>3 DEF MInv
  <2>2. /\ call'[p] = d /\ buf'[p] = ts
        /\ \A q \in Procs : q # p => call'[q] = call[q] /\ buf'[q] = buf[q]
    BY <1>t
  <2>3. OwnOK'
    <3>1. ASSUME NEW q \in Procs PROVE Own(q, call'[q], buf'[q])
      <4>1. CASE q = p BY <2>0, <2>2, <4>1
      <4>2. CASE q # p
        <5>1. Own(q, call[q], buf[q]) BY <2>1 DEF OwnOK
        <5> QED BY <2>2, <4>2, <5>1
      <4> QED BY <4>1, <4>2
    <3> QED BY <3>1 DEF OwnOK
  <2>4. PICK K, B, C, E : K = call /\ B = buf /\ C = call' /\ E = buf' OBVIOUS
  <2>5. Only(p, K, C) /\ Only(p, B, E) BY <2>2, <2>4 DEF Only
  <2>6. ASSUME NEW b \in Blocks
        PROVE  BlockOK(b \in used', ref_cnt'[b], Column(desc', b), file', life',
                       HoldersIn(call', buf', b), SharersIn(call', buf', b))
    <3>1. BlockOK(b \in used, ref_cnt[b], Column(desc, b), file, life, HoldersIn(K, B, b), SharersIn(K, B, b))
      BY <2>1, <2>4 DEF BlocksOK
    <3>2. b \in used => b \in used' BY <2>0 DEF SameKernel
    <3>3. BlockOK(b \in used', ref_cnt[b], Column(desc, b), file, life, HoldersIn(K, B, b), SharersIn(K, B, b))
      BY <3>1, <3>2 DEF BlockOK
    <3>4. Renamed(p, K[p], B[p], C[p], E[p], b) BY <2>0, <2>2, <2>4 DEF AllRenamed
    <3>5. BlockOK(b \in used', ref_cnt[b], Column(desc, b), file, life, HoldersIn(C, E, b), SharersIn(C, E, b))
      BY <2>5, <3>3, <3>4, RenamedBlock
    <3>6. ref_cnt' = ref_cnt /\ desc' = desc BY <2>0 DEF SameKernel
    <3> QED BY <2>4, <3>5, <3>6
  <2>7. BlocksOK(call)' BY <2>6 DEF BlocksOK
  <2> QED BY <2>3, <2>7
<1> QED BY <1>1, <1>2, <1>3 DEF MInv

\* The beginning of a constructor.
LEMMA BeginConstructor ==
  ASSUME Config, MInv, NEW p \in Procs, Ready(p), NEW d \in Calls, NEW t \in Slots, buf[p][t] = Empty,
         d.op \in {"allocate", "get"}, d.slot = t, d.at = NoRegion, d.todo # {},
         d.op = "get" => d.todo \subseteq RanksOf(d.want),
         call' = [call EXCEPT ![p] = d], Count,
         UNCHANGED <<kernel, life, file, buf, published, tainted, forks, deaths>>
  PROVE  MInv'
<1>0. /\ used' = used /\ desc' = desc /\ ref_cnt' = ref_cnt /\ life' = life /\ file' = file /\ buf' = buf
      /\ published' = published /\ tainted' = tainted /\ forks' = forks /\ deaths' = deaths
  BY DEF kernel
<1>1. ops' \in 0 .. MaxOps
  <2>1. ops \in 0 .. MaxOps BY KernelTypes DEF KernelOK
  <2>2. MaxOps \in Nat /\ ops < MaxOps /\ ops' = ops + 1 BY DEF Count, Config
  <2> QED BY <2>1, <2>2, CountUp
<1>2. KernelOK' BY <1>0, <1>1, KernelTypes DEF KernelOK
<1>3. call[p] = Idle /\ life[p] = "alive" /\ BuffersOK(p, buf[p], life) BY ReadyFacts
<1>4. d.op \notin {"idle", "rollback", "destroy", "assign", "share"} BY SMT
<1>5. d.op # "idle" /\ d.op # "rollback" /\ d.op # "assign" /\ d.op # "share" /\ ~Releases(d)
      /\ d.op \notin {"rollback", "destroy", "assign"}
  BY <1>4 DEF Releases
<1>6. RanksOf(d.at) = {} BY EmptyFields
<1>7. d.todo \cap RanksOf(d.at) = {} BY <1>6
<1>8. CallMid(p, d, buf[p], life) BY <1>3, <1>5, <1>7 DEF CallMid
<1>9. LocalOK(p, d, buf[p], life) BY <1>3, <1>5, <1>8 DEF LocalOK, CallOK
<1>10. buf' = [buf EXCEPT ![p] = buf[p]]
  <2>1. buf \in [Procs -> [Slots -> Buffers]] BY KernelTypes
  <2> QED BY SMT, <1>0, <2>1
<1>11. Own(p, d, buf[p]) BY <1>5 DEF Own
<1>12. PICK bs, c : bs = buf[p] /\ c = call[p] OBVIOUS
<1>13. ~Releases(c) /\ c.op # "share"
  <2>1. "idle" \notin {"destroy", "assign"} /\ "idle" # "share" BY SMT
  <2> QED BY <1>3, <1>12, <2>1, EmptyFields DEF Releases
<1>14. ASSUME NEW b \in Blocks PROVE Renamed(p, c, bs, d, bs, b)
  <2>1. c.at[b[1]] # b[2] /\ d.at[b[1]] # b[2] BY <1>3, <1>6, <1>12, EmptyFields, BlockFacts
  <2>2. ~Holds(p, d, bs, 0, b) /\ ~Holds(p, c, bs, 0, b) BY <2>1 DEF Holds
  <2> QED BY <1>5, <1>13, <2>2, CallRenames
<1>15. AllRenamed(p, call[p], buf[p], d, buf[p]) BY <1>12, <1>14 DEF AllRenamed
<1>16. SameKernel BY <1>0 DEF SameKernel
<1>17. life' = life /\ file' = file /\ (~tainted' => ~tainted)
  <2>1. life' = life /\ file' = file /\ tainted' = tainted BY <1>0
  <2> QED BY SMT, <2>1
<1> QED BY ZenonT(30), <1>2, <1>9, <1>10, <1>11, <1>15, <1>16, <1>17, RenameStep

\* Buffer(size, context, props).
LEMMA NewInv ==
  ASSUME Config, MInv, NEW p \in Procs, NEW t \in Slots, NEW T \in SUBSET Ranks, T # {}, New(p, t, T)
  PROVE  MInv'
<1>1. PICK d : d = [Idle EXCEPT !.op = "allocate", !.slot = t, !.todo = T] OBVIOUS
<1>2. /\ d \in Calls /\ d.op = "allocate" /\ d.slot = t /\ d.at = NoRegion /\ d.todo = T
  BY <1>1, EmptyFields DEF Calls, Ops
<1>3. /\ Ready(p) /\ buf[p][t] = Empty /\ Count /\ call' = [call EXCEPT ![p] = d]
      /\ UNCHANGED <<kernel, life, file, buf, published, tainted, forks, deaths>>
  BY <1>1 DEF New, NewSlot, Free, Begin
<1>4. d.op \in {"allocate", "get"} /\ d.op # "get" BY SMT, <1>2
<1> QED BY <1>2, <1>3, <1>4, BeginConstructor

\* Buffer(shared_region, context).
LEMMA FromSharedInv ==
  ASSUME Config, MInv, NEW p \in Procs, NEW t \in Slots, NEW region \in published, FromShared(p, t, region)
  PROVE  MInv'
<1>0. region \in Regions /\ RanksOf(region) # {} BY KernelTypes DEF KernelOK
<1>t. PICK T \in SUBSET Ranks : T = RanksOf(region)
  <2>1. RanksOf(region) \in SUBSET Ranks BY DEF RanksOf
  <2> QED BY <2>1
<1>1. PICK d : d = [Idle EXCEPT !.op = "get", !.slot = t, !.todo = T, !.want = region] OBVIOUS
<1>2. /\ d \in Calls /\ d.op = "get" /\ d.slot = t /\ d.at = NoRegion /\ d.todo = T /\ d.want = region
  BY <1>0, <1>1, EmptyFields DEF Calls, Ops
<1>3. /\ Ready(p) /\ buf[p][t] = Empty /\ Count /\ call' = [call EXCEPT ![p] = d]
      /\ UNCHANGED <<kernel, life, file, buf, published, tainted, forks, deaths>>
  BY <1>1, <1>t DEF FromShared, NewSlot, Free, Begin
<1>4. d.op \in {"allocate", "get"} BY SMT, <1>2
<1>5. d.todo # {} /\ d.todo \subseteq RanksOf(d.want) BY <1>0, <1>t, <1>2
<1> QED BY <1>2, <1>3, <1>4, <1>5, BeginConstructor

\* A buffer that a ready process has.
LEMMA ReadyBuffer ==
  ASSUME Config, MInv, NEW p \in Procs, Ready(p), NEW t \in Slots, ~Free(p, t), NEW v, v = buf[p][t]
  PROVE  /\ v # Empty /\ v \in Buffers /\ v.at \in Regions /\ RanksOf(v.at) # {}
         /\ RanksOf(v.at) \in SUBSET Ranks
         /\ v.owned => v.owner = v.maker
         /\ v.maker = p => v.is_global \/ v.owned
<1>1. BuffersOK(p, buf[p], life) BY ReadyFacts
<1>2. BufferOK(p, v, life) BY <1>1 DEF BuffersOK
<1>3. v # Empty BY DEF Free
<1>4. v \in Buffers BY <1>2 DEF BufferOK
<1>5. v.at \in Regions BY SMT, <1>4 DEF Buffers
<1>6. RanksOf(v.at) \in SUBSET Ranks BY DEF RanksOf
<1> QED BY <1>2, <1>3, <1>4, <1>5, <1>6 DEF BufferOK

\* make_shared.
LEMMA MakeSharedInv ==
  ASSUME Config, MInv, NEW p \in Procs, NEW t \in Slots, MakeShared(p, t)
  PROVE  MInv'
<1>1. PICK v, T, bs, c : v = buf[p][t] /\ T = RanksOf(v.at) /\ bs = buf[p] /\ c = call[p] OBVIOUS
<1>2. PICK d : d = [Idle EXCEPT !.op = "share", !.slot = t, !.todo = T, !.want = v.at] OBVIOUS
<1>3. /\ Ready(p) /\ ~Free(p, t) /\ ~v.is_global /\ call' = [call EXCEPT ![p] = d]
      /\ UNCHANGED <<kernel, life, file, buf, published, ops, forks, deaths>>
  BY <1>1, <1>2 DEF MakeShared, Begin
<1>4. tainted' = (tainted \/ v.maker # p) BY <1>1 DEF MakeShared, Taint
<1>5. /\ used' = used /\ desc' = desc /\ ref_cnt' = ref_cnt /\ life' = life /\ file' = file /\ buf' = buf
      /\ published' = published /\ ops' = ops /\ forks' = forks /\ deaths' = deaths
  BY <1>3 DEF kernel
<1>6. tainted' \in BOOLEAN /\ (~tainted' => ~tainted /\ v.maker = p)
  <2>1. tainted \in BOOLEAN BY KernelTypes DEF KernelOK
  <2> QED BY <1>4, <2>1
<1>7. KernelOK' BY <1>5, <1>6, KernelTypes DEF KernelOK
<1>8. c = Idle /\ life[p] = "alive" /\ BuffersOK(p, bs, life) BY <1>1, <1>3, ReadyFacts
<1>9. v # Empty /\ v.at \in Regions /\ T # {} /\ T \in SUBSET Ranks BY <1>1, <1>3, ReadyBuffer
<1>10. /\ d \in Calls /\ d.op = "share" /\ d.slot = t /\ d.at = NoRegion /\ d.todo = T /\ d.want = v.at
  BY <1>2, <1>9, EmptyFields DEF Calls, Ops
<1>11. d.op # "idle" /\ d.op # "get" /\ d.op # "assign" /\ ~Releases(d) /\ ~Releases(c) /\ c.op # "share"
       /\ d.op \notin {"allocate", "get", "rollback", "destroy", "assign"}
  <2>1. /\ "share" \notin {"idle", "allocate", "get", "rollback", "destroy", "assign"}
        /\ "idle" \notin {"destroy", "assign", "share"}
    BY SMT
  <2> QED BY <1>8, <1>10, <2>1, EmptyFields DEF Releases
<1>12. CallMid(p, d, bs, life)
  <2>1. bs[d.slot] = v BY <1>1, <1>10
  <2>2. d.todo \subseteq RanksOf(d.want) BY <1>1, <1>10
  <2>3. d.op \notin {"allocate", "get", "rollback"} /\ d.op \notin {"allocate", "get"} BY <1>11
  <2> QED BY <1>3, <1>8, <1>9, <1>10, <1>11, <2>1, <2>2, <2>3 DEF CallMid
<1>13. LocalOK(p, d, buf[p], life)
  <2>1. d.op \notin {"rollback", "destroy", "assign"} /\ d.todo # {} BY <1>9, <1>10, <1>11
  <2> QED BY <1>1, <1>8, <1>12, <2>1 DEF LocalOK, CallOK
<1>14. buf' = [buf EXCEPT ![p] = buf[p]]
  <2>1. buf \in [Procs -> [Slots -> Buffers]] BY KernelTypes
  <2> QED BY SMT, <1>5, <2>1
<1>15. ~tainted' => Own(p, d, buf[p]) BY <1>1, <1>6, <1>10 DEF Own
<1>16. ASSUME NEW b \in Blocks PROVE Renamed(p, c, bs, d, bs, b)
  <2>1. RanksOf(NoRegion) = {} /\ c.at = NoRegion BY <1>8, EmptyFields
  <2>2. c.at[b[1]] # b[2] /\ d.at[b[1]] # b[2] BY <1>10, <2>1, BlockFacts
  <2>3. ~Holds(p, d, bs, 0, b) /\ ~Holds(p, c, bs, 0, b) BY <2>2 DEF Holds
  <2>4. b[1] \in d.todo \/ bs[d.slot].at[b[1]] # b[2] BY <1>1, <1>10, BlockFacts
  <2> QED BY <1>11, <2>3, <2>4, CallRenames
<1>17. AllRenamed(p, call[p], buf[p], d, buf[p]) BY <1>1, <1>16 DEF AllRenamed
<1>18. SameKernel BY <1>5 DEF SameKernel
<1> QED BY <1>3, <1>5, <1>6, <1>7, <1>13, <1>14, <1>15, <1>17, <1>18, RenameStep

\* Storing a buffer that is in order.
LEMMA StoreOK ==
  ASSUME NEW p, NEW L, NEW bs, BuffersOK(p, bs, L), NEW t \in Slots, NEW v, BufferOK(p, v, L)
  PROVE  BuffersOK(p, [bs EXCEPT ![t] = v], L)
<1>0. bs \in [Slots -> Buffers] /\ \A s \in Slots : BufferOK(p, bs[s], L) BY DEF BuffersOK
<1>1. v \in Buffers BY DEF BufferOK
<1>2. ASSUME NEW s \in Slots PROVE BufferOK(p, [bs EXCEPT ![t] = v][s], L)
  <2>1. CASE s = t BY <1>0, <2>1
  <2>2. CASE s # t BY <1>0, <2>2
  <2> QED BY <2>1, <2>2
<1> QED BY <1>0, <1>1, <1>2 DEF BuffersOK

\* What it holds in a buffer.
LEMMA IdleSlot ==
  ASSUME Config, NEW p, NEW bs, NEW b \in Blocks, NEW h \in Slots, NEW v, v = bs[h]
  PROVE  /\ Holds(p, Idle, bs, h, b) <=> v.maker = p /\ v.at[b[1]] = b[2]
         /\ Shares(p, Idle, bs, h, b) <=> v.global
<1>1. h # 0 BY SlotsNotZero
<1>2. ~Releases(Idle) /\ Idle.op # "share"
  <2>1. "idle" \notin {"destroy", "assign"} /\ "idle" # "share" BY SMT
  <2> QED BY <2>1, EmptyFields DEF Releases
<1> HIDE DEF Idle
<1> QED BY <1>1, <1>2 DEF Holds, Shares

\* A buffer that a call is not about stays what it is when the call returns.
LEMMA OtherSlot ==
  ASSUME Config, NEW p, NEW c, NEW bs, NEW ts, NEW h \in Slots, NEW b \in Blocks, ts[h] = bs[h],
         h = c.slot => ~Releases(c) /\ c.op # "share"
  PROVE  /\ Holds(p, Idle, ts, h, b) <=> Holds(p, c, bs, h, b)
         /\ Shares(p, Idle, ts, h, b) <=> Shares(p, c, bs, h, b)
<1>1. /\ Holds(p, Idle, ts, h, b) <=> bs[h].maker = p /\ bs[h].at[b[1]] = b[2]
      /\ Shares(p, Idle, ts, h, b) <=> bs[h].global
  BY SMT, IdleSlot
<1>2. /\ Holds(p, c, bs, h, b) <=> bs[h].maker = p /\ bs[h].at[b[1]] = b[2]
      /\ Shares(p, c, bs, h, b) <=> bs[h].global
  BY SMT, SlotHolds
<1> QED BY <1>1, <1>2

\* A release begins: what a buffer of the process held is held by the call.
LEMMA ReleaseRenames ==
  ASSUME Config, NEW p, NEW d, NEW bs, NEW t \in Slots, NEW b \in Blocks,
         Releases(d), d.op # "share", d.op # "get", d.slot = t, d.at = bs[t].at, bs[t].maker = p
  PROVE  Renamed(p, Idle, bs, d, bs, b)
<1>1. t # 0 BY SlotsNotZero
<1>2. /\ Holds(p, d, bs, 0, b) <=> Holds(p, Idle, bs, t, b)
      /\ Shares(p, d, bs, 0, b) <=> Shares(p, Idle, bs, t, b)
  <2>1. /\ Holds(p, d, bs, 0, b) <=> bs[t].at[b[1]] = b[2]
        /\ Shares(p, d, bs, 0, b) <=> bs[t].global
    BY SMT, CallHolds
  <2>2. PICK v : v = bs[t] OBVIOUS
  <2>3. /\ Holds(p, Idle, bs, t, b) <=> v.maker = p /\ v.at[b[1]] = b[2]
        /\ Shares(p, Idle, bs, t, b) <=> v.global
    BY SMT, <2>2, IdleSlot
  <2> QED BY <2>1, <2>2, <2>3
<1>3. ~Holds(p, d, bs, t, b) /\ ~Holds(p, Idle, bs, 0, b)
  BY <1>1, IdleHolds DEF Holds
<1>4. ASSUME NEW h \in Slots, h # t
      PROVE  /\ Holds(p, d, bs, h, b) <=> Holds(p, Idle, bs, h, b)
             /\ Shares(p, d, bs, h, b) <=> Shares(p, Idle, bs, h, b)
  <2>0. h = d.slot => ~Releases(d) /\ d.op # "share" BY <1>4
  <2> QED BY <2>0, OtherSlot
<1>5. Other(0, t, 0) = t /\ Other(0, t, t) = 0 /\ \A h \in Slots : h # t => Other(0, t, h) = h
  <2>1. \A h \in Slots : h # 0 BY SlotsNotZero
  <2> QED BY <1>1, <2>1 DEF Other
<1>6. \A h \in Slots \cup {0} :
        /\ Holds(p, d, bs, h, b) <=> Holds(p, Idle, bs, Other(0, t, h), b)
        /\ Holds(p, d, bs, h, b) => (Shares(p, d, bs, h, b) <=> Shares(p, Idle, bs, Other(0, t, h), b))
  <2> SUFFICES ASSUME NEW h \in Slots \cup {0}
               PROVE  /\ Holds(p, d, bs, h, b) <=> Holds(p, Idle, bs, Other(0, t, h), b)
                      /\ Holds(p, d, bs, h, b) =>
                            (Shares(p, d, bs, h, b) <=> Shares(p, Idle, bs, Other(0, t, h), b))
    BY SMT
  <2>1. CASE h = 0 BY <1>2, <1>5, <2>1
  <2>2. CASE h = t BY <1>3, <1>5, <2>2
  <2>3. CASE h # 0 /\ h # t
    <3>1. h \in Slots BY <2>3
    <3> QED BY <1>4, <1>5, <2>3, <3>1
  <2> QED BY <2>1, <2>2, <2>3
<1> QED BY <1>6 DEF Renamed

\* A buffer that holds nothing takes the place of another that holds nothing.
LEMMA BufferRenames ==
  ASSUME Config, NEW p, NEW bs, NEW ts, NEW t \in Slots, NEW b \in Blocks,
         bs[t].maker # p, ts[t].maker # p, \A h \in Slots : h # t => ts[h] = bs[h]
  PROVE  Renamed(p, Idle, bs, Idle, ts, b)
<1>1. ~Holds(p, Idle, bs, t, b) /\ ~Holds(p, Idle, ts, t, b) BY SMT, SlotHolds
<1>2. ~Holds(p, Idle, bs, 0, b) /\ ~Holds(p, Idle, ts, 0, b) BY IdleHolds
<1>0. ~Releases(Idle) /\ Idle.op # "share"
  <2>1. "idle" \notin {"destroy", "assign"} /\ "idle" # "share" BY SMT
  <2> HIDE DEF Idle
  <2> QED BY <2>1, EmptyFields DEF Releases
<1>3. ASSUME NEW h \in Slots, h # t
      PROVE  /\ Holds(p, Idle, ts, h, b) <=> Holds(p, Idle, bs, h, b)
             /\ Shares(p, Idle, ts, h, b) <=> Shares(p, Idle, bs, h, b)
  <2>1. ts[h] = bs[h] BY <1>3
  <2> HIDE DEF Idle
  <2> QED BY <1>0, <2>1, OtherSlot
<1>4. \A h \in Slots \cup {0} :
        /\ Holds(p, Idle, ts, h, b) <=> Holds(p, Idle, bs, h, b)
        /\ Holds(p, Idle, ts, h, b) => (Shares(p, Idle, ts, h, b) <=> Shares(p, Idle, bs, h, b))
  BY <1>1, <1>2, <1>3
<1> HIDE DEF Idle
<1> QED BY <1>4, SameRenamed

\* The beginning of a release of the buffer in slot t; from is the slot a move
\* assignment takes its value from.
LEMMA BeginRelease ==
  ASSUME Config, MInv, KernelOK', NEW p \in Procs, NEW t \in Slots, Ready(p), ~Free(p, t),
         NEW op \in {"destroy", "assign"}, NEW from \in Slots \cup {0},
         op = "assign" => from \in Slots \ {t}, Release(p, t, op, from),
         ~tainted' => ~tainted /\ buf[p][t].maker = p,
         UNCHANGED <<kernel, life, file, buf>>
  PROVE  MInv'
<1>1. PICK v, T, bs, c : v = buf[p][t] /\ T = RanksOf(v.at) /\ bs = buf[p] /\ c = call[p] OBVIOUS
<1>2. PICK d : d = [Idle EXCEPT !.op = op, !.slot = t, !.from = from, !.at = v.at, !.todo = T] OBVIOUS
<1>3. call' = [call EXCEPT ![p] = d] BY <1>1, <1>2 DEF Release
<1>5. used' = used /\ desc' = desc /\ ref_cnt' = ref_cnt /\ life' = life /\ file' = file /\ buf' = buf
  BY DEF kernel
<1>8. c = Idle /\ life[p] = "alive" /\ BuffersOK(p, bs, life) BY <1>1, ReadyFacts
<1>9. v # Empty /\ v.at \in Regions /\ T # {} /\ T \in SUBSET Ranks BY ZenonT(30), <1>1, ReadyBuffer
<1>10. /\ d \in Calls /\ d.op = op /\ d.slot = t /\ d.at = v.at /\ d.todo = T /\ d.from = from
  <2>1. op \in Ops BY SMT DEF Ops
  <2> QED BY <1>2, <1>9, <2>1, EmptyFields DEF Calls
<1>11. /\ d.op # "idle" /\ d.op # "get" /\ d.op # "share" /\ Releases(d)
       /\ d.op \notin {"allocate", "get", "rollback"} /\ d.op \notin {"allocate", "get"}
  <2>1. op \notin {"idle", "share", "allocate", "get", "rollback"} BY SMT
  <2> QED BY <1>10, <2>1 DEF Releases
<1>12. CallMid(p, d, bs, life)
  <2>1. bs[d.slot] = v BY <1>1, <1>10
  <2> QED BY <1>8, <1>9, <1>10, <1>11, <2>1 DEF CallMid
<1>13. LocalOK(p, d, buf[p], life)
  <2>1. d.todo = RanksOf(d.at) /\ d.todo # {} BY <1>1, <1>9, <1>10
  <2> QED BY <1>1, <1>8, <1>12, <2>1 DEF LocalOK, CallOK
<1>14. buf' = [buf EXCEPT ![p] = buf[p]]
  <2>1. buf \in [Procs -> [Slots -> Buffers]] BY KernelTypes
  <2> QED BY SMT, <1>5, <2>1
<1>15. ~tainted' => Own(p, d, buf[p]) BY <1>10 DEF Own
<1>16. ASSUME NEW b \in Blocks, ~tainted' PROVE Renamed(p, Idle, bs, d, bs, b)
  <2>1. d.at = bs[t].at /\ bs[t].maker = p BY <1>1, <1>10, <1>16
  <2> QED BY <1>10, <1>11, <2>1, ReleaseRenames
<1>17. ~tainted' => AllRenamed(p, call[p], buf[p], d, buf[p]) BY <1>1, <1>8, <1>16 DEF AllRenamed
<1>18. SameKernel BY <1>5 DEF SameKernel
<1> QED BY <1>3, <1>5, <1>13, <1>14, <1>15, <1>17, <1>18, RenameStep

\* A ready process replaces a buffer that holds nothing.
LEMMA ReplaceBuffer ==
  ASSUME Config, MInv, KernelOK', NEW p \in Procs, NEW t \in Slots, Ready(p),
         NEW w, BufferOK(p, w, life), w.maker # p, NEW ts, ts = [buf[p] EXCEPT ![t] = w],
         buf' = [buf EXCEPT ![p] = ts],
         ~tainted' => ~tainted /\ buf[p][t].maker # p,
         UNCHANGED <<kernel, life, file, call>>
  PROVE  MInv'
<1>0. used' = used /\ desc' = desc /\ ref_cnt' = ref_cnt /\ life' = life /\ file' = file /\ call' = call
  BY DEF kernel
<1>1. call[p] = Idle /\ life[p] = "alive" /\ BuffersOK(p, buf[p], life) BY ReadyFacts
<1>2. BuffersOK(p, ts, life) BY <1>1, StoreOK
<1>3. LocalOK(p, Idle, ts, life) BY <1>1, <1>2, IdleOK DEF LocalOK
<1>4. call' = [call EXCEPT ![p] = Idle]
  <2>1. call \in [Procs -> Calls] BY KernelTypes
  <2>2. call' = [call EXCEPT ![p] = call[p]] BY SMT, <1>0, <2>1
  <2> QED BY <1>1, <2>2
<1>5. Own(p, Idle, ts)
  <2>1. "idle" \notin {"destroy", "assign"} /\ "idle" # "share" BY SMT
  <2> QED BY <2>1, EmptyFields DEF Own, Releases
<1>6. PICK bs : bs = buf[p] OBVIOUS
<1>7. ts[t] = w /\ \A h \in Slots : h # t => ts[h] = bs[h]
  <2>1. bs \in [Slots -> Buffers] /\ ts = [bs EXCEPT ![t] = w] BY <1>1, <1>6 DEF BuffersOK
  <2> QED BY <2>1
<1>8. ASSUME NEW b \in Blocks, ~tainted' PROVE Renamed(p, Idle, bs, Idle, ts, b)
  <2>1. bs[t].maker # p /\ ts[t].maker # p BY <1>6, <1>7, <1>8
  <2> QED BY <1>7, <2>1, BufferRenames
<1>9. ~tainted' => AllRenamed(p, call[p], buf[p], Idle, ts) BY <1>1, <1>6, <1>8 DEF AllRenamed
<1>10. SameKernel BY <1>0 DEF SameKernel
<1> QED BY <1>0, <1>3, <1>4, <1>5, <1>9, <1>10, RenameStep

\* ~Buffer.
LEMMA DestroyInv ==
  ASSUME Config, MInv, NEW p \in Procs, NEW t \in Slots, Destroy(p, t)
  PROVE  MInv'
<1>1. PICK v : v = buf[p][t] OBVIOUS
<1>2. /\ Ready(p) /\ ~Free(p, t) /\ UNCHANGED <<kernel, life, file, published, ops, forks, deaths>>
      /\ released(p, v) => Release(p, t, "destroy", 0) /\ buf' = buf
      /\ ~released(p, v) => buf' = [buf EXCEPT ![p][t] = Empty] /\ call' = call
  BY <1>1 DEF Destroy
<1>3. tainted' = (tainted \/ (v.is_global /\ v.maker # p)) BY <1>1 DEF Destroy, Taint
<1>4. tainted' \in BOOLEAN /\ (~tainted' => ~tainted /\ ~(v.is_global /\ v.maker # p))
  <2>1. tainted \in BOOLEAN BY KernelTypes DEF KernelOK
  <2> QED BY <1>3, <2>1
<1>5. KernelOK' BY <1>2, <1>4, KernelTypes DEF KernelOK, kernel
<1>6. (v.owned => v.owner = v.maker) /\ (v.maker = p => v.is_global \/ v.owned)
  BY <1>1, <1>2, ReadyBuffer
<1>7. CASE released(p, v)
  <2>1. ~tainted' => v.maker = p BY <1>4, <1>6, <1>7 DEF released
  <2>2. "destroy" \in {"destroy", "assign"} /\ "destroy" # "assign" /\ 0 \in Slots \cup {0} BY SMT
  <2>3. UNCHANGED <<kernel, life, file, buf>> BY <1>2, <1>7
  <2>4. Ready(p) /\ ~Free(p, t) /\ Release(p, t, "destroy", 0) BY <1>2, <1>7
  <2>5. ~tainted' => ~tainted /\ buf[p][t].maker = p BY <1>1, <1>4, <2>1
  <2> QED BY <1>5, <2>2, <2>3, <2>4, <2>5, BeginRelease
<1>8. CASE ~released(p, v)
  <2>1. v.maker # p BY <1>6, <1>8 DEF released
  <2>2. PICK ts : ts = [buf[p] EXCEPT ![t] = Empty] OBVIOUS
  <2>3. buf' = [buf EXCEPT ![p] = ts] BY <1>2, <1>8, <2>2
  <2>4. BufferOK(p, Empty, life) BY EmptyOK
  <2>5. Empty.maker # p BY EmptyFields DEF Config
  <2>6. ~tainted' => ~tainted /\ buf[p][t].maker # p BY <1>1, <1>4, <2>1
  <2>7. UNCHANGED <<kernel, life, file, call>> BY <1>2, <1>8
  <2>8. Ready(p) BY <1>2
  <2> QED BY <1>5, <2>2, <2>3, <2>4, <2>5, <2>6, <2>7, <2>8, ReplaceBuffer
<1> QED BY <1>7, <1>8

\* Buffer(dev_region, context).
LEMMA ViewInv ==
  ASSUME Config, MInv, NEW p \in Procs, NEW t \in Slots, NEW u \in Slots, View(p, t, u)
  PROVE  MInv'
<1>1. PICK v, w : v = buf[p][u] /\ w = [Empty EXCEPT !.at = v.at, !.global = v.global] OBVIOUS
<1>2. PICK ts : ts = [buf[p] EXCEPT ![t] = w] OBVIOUS
<1>3. /\ Ready(p) /\ buf[p][t] = Empty /\ ~Free(p, u) /\ Count
      /\ UNCHANGED <<kernel, life, file, call, published, tainted, forks, deaths>>
  BY DEF View, NewSlot, Free
<1>4. buf' = [buf EXCEPT ![p] = ts]
  <2>1. buf' = [buf EXCEPT ![p][t] = [Empty EXCEPT !.at = buf[p][u].at, !.global = buf[p][u].global]]
    BY DEF View
  <2>2. buf' = [buf EXCEPT ![p][t] = w] BY <1>1, <2>1
  <2> QED BY <1>2, <2>2
<1>5. ops' \in 0 .. MaxOps
  <2>1. ops \in 0 .. MaxOps BY KernelTypes DEF KernelOK
  <2>2. MaxOps \in Nat /\ ops < MaxOps /\ ops' = ops + 1 BY <1>3 DEF Count, Config
  <2> QED BY <2>1, <2>2, CountUp
<1>6. KernelOK' BY <1>3, <1>5, KernelTypes DEF KernelOK, kernel
<1>7. v \in Buffers /\ RanksOf(v.at) # {} BY <1>1, <1>3, ReadyBuffer
<1>8. /\ w \in Buffers /\ w.at = v.at /\ ~w.owned /\ ~w.is_global /\ w.maker = NoProc
  BY <1>1, <1>7, EmptyFields DEF Buffers
<1>9. NoProc # p BY DEF Config
<1>10. BufferOK(p, w, life) /\ w.maker # p BY <1>7, <1>8, <1>9 DEF BufferOK
<1>11. buf[p][t].maker # p BY <1>3, <1>9, EmptyFields
<1>12. ~tainted' => ~tainted BY <1>3
<1>13. UNCHANGED <<kernel, life, file, call>> BY <1>3
<1>14. Ready(p) BY <1>3
<1> QED BY <1>2, <1>4, <1>6, <1>10, <1>11, <1>12, <1>13, <1>14, ReplaceBuffer

\* operator=(Buffer &&).
LEMMA MoveAssignInv ==
  ASSUME Config, MInv, NEW p \in Procs, NEW t \in Slots, NEW u \in Slots, MoveAssign(p, t, u)
  PROVE  MInv'
<1>1. /\ Ready(p) /\ t # u /\ ~Free(p, t) /\ Release(p, t, "assign", u)
      /\ UNCHANGED <<kernel, life, file, buf, published, ops, forks, deaths>>
  BY DEF MoveAssign
<1>2. tainted' = (tainted \/ buf[p][t].maker # p) BY DEF MoveAssign, Taint
<1>3. tainted' \in BOOLEAN /\ (~tainted' => ~tainted /\ buf[p][t].maker = p)
  <2>1. tainted \in BOOLEAN BY KernelTypes DEF KernelOK
  <2> QED BY <1>2, <2>1
<1>4. KernelOK' BY <1>1, <1>3, KernelTypes DEF KernelOK, kernel
<1>5. "assign" \in {"destroy", "assign"} /\ u \in Slots \ {t} /\ u \in Slots \cup {0} BY SMT, <1>1
<1>6. UNCHANGED <<kernel, life, file, buf>> BY <1>1
<1>7. Ready(p) /\ ~Free(p, t) /\ Release(p, t, "assign", u) BY <1>1
<1> QED BY <1>3, <1>4, <1>5, <1>6, <1>7, BeginRelease

------------------------------------------------------------------------------
(* Memory is allocated.                                                     *)

\* ALLOCATE_MEMORY takes a block that nobody holds.
LEMMA TakeBlock ==
  ASSUME Config, Counting, NEW n \in Nat, NEW d \in [Started -> Flags], NEW F, NEW L, NEW hs, NEW ss,
         BlockOK(FALSE, n, d, F, L, hs, ss),
         NEW p \in Procs, NEW x, x[1] = p, L[p] = "alive", F[p] \in Started,
         x \notin ss
  PROVE  BlockOK(TRUE, n, [d EXCEPT ![F[p]] = "local"], F, L, hs \cup {x}, ss)
<1> DEFINE e == [d EXCEPT ![F[p]] = "local"]
<1>1. Files(d) = {} BY DEF BlockOK
<1>2. n = 0
  <2>1. n > 0 => n = Cardinality(Files(d)) BY DEF BlockOK
  <2>2. Cardinality(Files(d)) = 0 BY <1>1, FilesCount
  <2> QED BY SMT, <2>1, <2>2
<1>3. hs = {} BY <1>1 DEF BlockOK
<1>4. Files(e) = {F[p]} /\ e[F[p]] = "local"
  <2>1. "local" \in Flags \ {"none"} BY SMT DEF Flags
  <2>2. Files(e) = Files(d) \cup {F[p]} BY <2>1, FilesChange
  <2> QED BY <1>1, <2>2
<1> HIDE DEF e
<1>5. ~(0 > 0) BY SMT
<1> QED BY ZenonT(30), <1>2, <1>3, <1>4, <1>5 DEF BlockOK, e

\* What a call that fills an empty slot constructs.
LEMMA ConstructedFacts ==
  ASSUME Config, NEW p \in Procs, NEW c \in Calls
  PROVE  /\ Constructed(p, c) \in Buffers
         /\ Constructed(p, c).at = c.at /\ Constructed(p, c).maker = p
         /\ Constructed(p, c).global = (c.op = "get") /\ Constructed(p, c).is_global = (c.op = "get")
         /\ Constructed(p, c).owned = (c.op # "get")
         /\ Constructed(p, c).owned => Constructed(p, c).owner = p
BY DEF Constructed, Buffers, Calls

\* The buffers of p when call c returns, from the buffers it has.
Result(p, c, bs) ==
  CASE c.op \in {"allocate", "get"} -> [bs EXCEPT ![c.slot] = Constructed(p, c)]
    [] c.op = "share"    -> [bs EXCEPT ![c.slot].global = TRUE, ![c.slot].is_global = TRUE]
    [] c.op = "destroy"  -> [bs EXCEPT ![c.slot] = Empty]
    [] c.op = "assign"   -> [bs EXCEPT ![c.slot] = bs[c.from], ![c.from] = Empty]
    [] c.op = "rollback" -> bs

\* A constructor that failed leaves no buffer behind.
LEMMA RollbackResult ==
  ASSUME NEW p, NEW c, NEW bs, c.op = "rollback"
  PROVE  Result(p, c, bs) = bs
BY SMT DEF Result

\* A call that returns leaves its process in order.
LEMMA ReturnOK ==
  ASSUME Config, NEW p \in Procs, NEW c, NEW bs, NEW L, L[p] = "alive",
         BuffersOK(p, bs, L), CallMid(p, c, bs, L), c.op # "idle",
         c.op \in {"allocate", "get"} => RanksOf(c.at) # {}
  PROVE  LocalOK(p, Idle, Result(p, c, bs), L)
<1>0. c \in Calls /\ c.slot \in Slots BY DEF CallMid
<1>b. bs \in [Slots -> Buffers] /\ \A s \in Slots : BufferOK(p, bs[s], L) BY DEF BuffersOK
<1>r. PICK rs : rs = Result(p, c, bs) OBVIOUS
<1>1. ASSUME c.op \in {"allocate", "get"} PROVE BuffersOK(p, rs, L)
  <2>1. PICK v : v = Constructed(p, c) OBVIOUS
  <2>2. rs = [bs EXCEPT ![c.slot] = v] BY SMT, <1>1, <1>r, <2>1 DEF Result
  <2>3. v \in Buffers /\ v.at = c.at /\ v.maker = p BY <1>0, <2>1, ConstructedFacts
  <2>4. v.owned => v.owner = p BY <1>0, <2>1, ConstructedFacts
  <2>5. v.is_global = v.global /\ (v.is_global \/ v.owned)
    <3>1. v.is_global = (c.op = "get") /\ v.global = (c.op = "get") /\ v.owned = (c.op # "get")
      BY <1>0, <2>1, ConstructedFacts
    <3> QED BY <3>1
  <2>6. v # Empty => RanksOf(v.at) # {} BY <1>1, <2>3
  <2>7. BufferOK(p, v, L) BY <2>3, <2>4, <2>5, <2>6 DEF BufferOK
  <2> QED BY <1>0, <2>2, <2>7, StoreOK
<1>2. ASSUME c.op = "share" PROVE BuffersOK(p, rs, L)
  <2>1. PICK v : v = [bs[c.slot] EXCEPT !.global = TRUE, !.is_global = TRUE] OBVIOUS
  <2>2. rs = [bs EXCEPT ![c.slot] = v] BY <1>2, <1>r, <2>1 DEF Result
  <2>3. PICK w : w = bs[c.slot] OBVIOUS
  <2>4. w \in Buffers /\ w # Empty /\ BufferOK(p, w, L) BY <1>0, <1>b, <1>2, <2>3 DEF CallMid
  <2>5. /\ v \in Buffers /\ v.at = w.at /\ v.maker = w.maker /\ v.owned = w.owned
        /\ v.owner = w.owner /\ v.global = TRUE /\ v.is_global = TRUE
    BY <2>1, <2>3, <2>4 DEF Buffers
  <2>6. BufferOK(p, v, L) BY <2>4, <2>5 DEF BufferOK
  <2> QED BY <1>0, <2>2, <2>6, StoreOK
<1>3. ASSUME c.op = "destroy" PROVE BuffersOK(p, rs, L)
  <2>1. rs = [bs EXCEPT ![c.slot] = Empty] BY SMT, <1>3, <1>r DEF Result
  <2> QED BY <1>0, <2>1, EmptyOK, StoreOK
<1>4. ASSUME c.op = "assign" PROVE BuffersOK(p, rs, L)
  <2>0. c.from \in Slots BY <1>4 DEF CallMid
  <2>1. PICK ts : ts = [bs EXCEPT ![c.slot] = bs[c.from]] OBVIOUS
  <2>2. rs = [ts EXCEPT ![c.from] = Empty] BY SMT, <1>4, <1>r, <2>1 DEF Result
  <2>3. BufferOK(p, bs[c.from], L) BY <1>b, <2>0
  <2>4. BuffersOK(p, ts, L) BY <1>0, <2>1, <2>3, StoreOK
  <2> QED BY <2>0, <2>2, <2>4, EmptyOK, StoreOK
<1>5. ASSUME c.op = "rollback" PROVE BuffersOK(p, rs, L)
  BY SMT, <1>5, <1>r DEF Result
<1>6. c.op \in {"allocate", "get", "share", "destroy", "assign", "rollback"}
  BY SMT, <1>0 DEF Calls, Ops
<1>7. BuffersOK(p, rs, L) BY <1>1, <1>2, <1>3, <1>4, <1>5, <1>6
<1> QED BY <1>r, <1>7, IdleOK DEF LocalOK

\* The three ways in which a call that returns renames what it holds: the
\* buffer it fills takes over from the call,
LEMMA FillRenames ==
  ASSUME Config, NEW p \in Procs, NEW c, NEW bs, NEW ts, NEW t \in Slots, NEW b \in Blocks,
         c.slot = t, c.op \in {"allocate", "get"}, bs[t] = Empty,
         \A h \in Slots : h # t => ts[h] = bs[h],
         ts[t].maker = p, ts[t].at = c.at, ts[t].global <=> c.op = "get"
  PROVE  Renamed(p, c, bs, Idle, ts, b)
<1>0. t # 0 /\ ~Releases(c) /\ c.op # "share"
  <2>1. c.op \notin {"destroy", "assign", "share"} BY SMT
  <2> QED BY <2>1, SlotsNotZero DEF Releases
<1>1. /\ Holds(p, Idle, ts, 0, b) <=> Holds(p, c, bs, t, b)
      /\ ~Holds(p, Idle, ts, 0, b)
  BY SMT, IdleHolds, EmptyHolds
<1>2. /\ Holds(p, Idle, ts, t, b) <=> Holds(p, c, bs, 0, b)
      /\ Shares(p, Idle, ts, t, b) <=> Shares(p, c, bs, 0, b)
  <2>1. /\ Holds(p, Idle, ts, t, b) <=> c.at[b[1]] = b[2]
        /\ Shares(p, Idle, ts, t, b) <=> c.op = "get"
    <3>1. PICK v : v = ts[t] OBVIOUS
    <3>2. /\ Holds(p, Idle, ts, t, b) <=> v.maker = p /\ v.at[b[1]] = b[2]
          /\ Shares(p, Idle, ts, t, b) <=> v.global
      BY SMT, <3>1, IdleSlot
    <3> QED BY <3>1, <3>2
  <2>2. /\ Holds(p, c, bs, 0, b) <=> c.at[b[1]] = b[2]
        /\ Shares(p, c, bs, 0, b) <=> c.op = "get"
    BY <1>0, CallHolds
  <2> QED BY <2>1, <2>2
<1>3. ASSUME NEW h \in Slots, h # t
      PROVE  /\ Holds(p, Idle, ts, h, b) <=> Holds(p, c, bs, h, b)
             /\ Shares(p, Idle, ts, h, b) <=> Shares(p, c, bs, h, b)
  BY <1>3, OtherSlot
<1>4. Other(0, t, 0) = t /\ Other(0, t, t) = 0 /\ \A h \in Slots : h # t => Other(0, t, h) = h
  BY <1>0, SlotsNotZero DEF Other
<1>5. ASSUME NEW h \in Slots \cup {0}
      PROVE  /\ Holds(p, Idle, ts, h, b) <=> Holds(p, c, bs, Other(0, t, h), b)
             /\ Holds(p, Idle, ts, h, b) => (Shares(p, Idle, ts, h, b) <=> Shares(p, c, bs, Other(0, t, h), b))
  <2>1. CASE h = 0 BY <1>1, <1>4, <2>1
  <2>2. CASE h = t BY <1>2, <1>4, <2>2
  <2>3. CASE h # t /\ h # 0 BY <1>3, <1>4, <2>3
  <2> QED BY <2>1, <2>2, <2>3
<1> QED BY <1>5 DEF Renamed

\* the buffer that is assigned to takes over from the one it is assigned,
LEMMA MoveRenames ==
  ASSUME Config, NEW p \in Procs, NEW c, NEW bs, NEW ts, NEW t \in Slots, NEW w \in Slots \ {t},
         NEW b \in Blocks, c.slot = t, c.op = "assign", RanksOf(c.at) = {},
         \A h \in Slots : h # t /\ h # w => ts[h] = bs[h],
         ts[t] = bs[w], ts[w] = Empty
  PROVE  Renamed(p, c, bs, Idle, ts, b)
<1>0. t # 0 /\ w # 0 /\ Releases(c) /\ c.op # "share"
  <2>1. c.op # "share" /\ c.op \in {"destroy", "assign"} BY SMT
  <2> QED BY <2>1, SlotsNotZero DEF Releases
<1>1. /\ Holds(p, Idle, ts, 0, b) <=> Holds(p, c, bs, 0, b)
      /\ ~Holds(p, Idle, ts, 0, b)
  BY SMT, IdleHolds, CallHolds, BlockFacts
<1>2. /\ Holds(p, Idle, ts, t, b) <=> Holds(p, c, bs, w, b)
      /\ Shares(p, Idle, ts, t, b) <=> Shares(p, c, bs, w, b)
  <2>1. /\ Holds(p, Idle, ts, t, b) <=> bs[w].maker = p /\ bs[w].at[b[1]] = b[2]
        /\ Shares(p, Idle, ts, t, b) <=> bs[w].global
    <3>1. PICK v : v = ts[t] OBVIOUS
    <3>2. /\ Holds(p, Idle, ts, t, b) <=> v.maker = p /\ v.at[b[1]] = b[2]
          /\ Shares(p, Idle, ts, t, b) <=> v.global
      BY SMT, <3>1, IdleSlot
    <3> QED BY <3>1, <3>2
  <2>2. /\ Holds(p, c, bs, w, b) <=> bs[w].maker = p /\ bs[w].at[b[1]] = b[2]
        /\ Shares(p, c, bs, w, b) <=> bs[w].global
    BY SMT, <1>0, SlotHolds
  <2> QED BY <2>1, <2>2
<1>3. /\ Holds(p, Idle, ts, w, b) <=> Holds(p, c, bs, t, b)
      /\ ~Holds(p, Idle, ts, w, b)
  <2>1. ~Holds(p, Idle, ts, w, b) BY EmptyHolds
  <2>2. ~Holds(p, c, bs, t, b) BY <1>0, SlotHolds
  <2> QED BY <2>1, <2>2
<1>4. ASSUME NEW h \in Slots, h # t, h # w
      PROVE  /\ Holds(p, Idle, ts, h, b) <=> Holds(p, c, bs, h, b)
             /\ Shares(p, Idle, ts, h, b) <=> Shares(p, c, bs, h, b)
  BY <1>4, OtherSlot
<1>5. /\ Other(t, w, 0) = 0 /\ Other(t, w, t) = w /\ Other(t, w, w) = t
      /\ \A h \in Slots : h # t /\ h # w => Other(t, w, h) = h
  BY <1>0 DEF Other
<1>6. ASSUME NEW h \in Slots \cup {0}
      PROVE  /\ Holds(p, Idle, ts, h, b) <=> Holds(p, c, bs, Other(t, w, h), b)
             /\ Holds(p, Idle, ts, h, b) => (Shares(p, Idle, ts, h, b) <=> Shares(p, c, bs, Other(t, w, h), b))
  <2>1. CASE h = 0 BY <1>1, <1>5, <2>1
  <2>2. CASE h = t BY <1>2, <1>5, <2>2
  <2>3. CASE h = w BY <1>3, <1>5, <2>3
  <2>4. CASE h # t /\ h # w /\ h # 0 BY <1>4, <1>5, <2>4
  <2> QED BY <2>1, <2>2, <2>3, <2>4
<1> QED BY <1>6 DEF Renamed

\* A call that returns after its last ioctl renames what it holds.
LEMMA ReturnRenames ==
  ASSUME Config, NEW p \in Procs, NEW c, NEW bs, NEW L, NEW b \in Blocks,
         BuffersOK(p, bs, L), CallMid(p, c, bs, L), c.op # "idle", c.todo = {},
         c.op \in {"rollback", "destroy", "assign"} => RanksOf(c.at) = {}
  PROVE  Renamed(p, c, bs, Idle, Result(p, c, bs), b)
<1>0. c \in Calls /\ c.slot \in Slots BY DEF CallMid
<1>b. bs \in [Slots -> Buffers] BY DEF BuffersOK
<1>r. PICK ts : ts = Result(p, c, bs) OBVIOUS
<1>t. PICK t \in Slots : t = c.slot BY <1>0
<1>1. ASSUME c.op \in {"allocate", "get"} PROVE Renamed(p, c, bs, Idle, ts, b)
  <2>1. PICK v : v = Constructed(p, c) OBVIOUS
  <2>2. ts = [bs EXCEPT ![t] = v] BY SMT, <1>1, <1>r, <1>t, <2>1 DEF Result
  <2>3. ts[t] = v /\ \A h \in Slots : h # t => ts[h] = bs[h] BY <1>b, <2>2
  <2>4. v.maker = p /\ v.at = c.at /\ v.global = (c.op = "get") BY <1>0, <2>1, ConstructedFacts
  <2>5. bs[t] = Empty BY <1>1, <1>t DEF CallMid
  <2> QED BY <1>1, <1>t, <2>3, <2>4, <2>5, FillRenames
<1>2. ASSUME c.op = "share" PROVE Renamed(p, c, bs, Idle, ts, b)
  <2>1. PICK v : v = [bs[t] EXCEPT !.global = TRUE, !.is_global = TRUE] OBVIOUS
  <2>2. ts = [bs EXCEPT ![t] = v] BY <1>2, <1>r, <1>t, <2>1 DEF Result
  <2>3. ts[t] = v /\ \A h \in Slots : h # t => ts[h] = bs[h] BY <1>b, <2>2
  <2>4. bs[t] \in Buffers BY <1>b
  <2>5. v.maker = bs[t].maker /\ v.at = bs[t].at /\ v.global = TRUE BY SMT, <2>1, <2>4 DEF Buffers
  <2>6. ~Releases(c) BY SMT, <1>2 DEF Releases
  <2>7. /\ Holds(p, Idle, ts, t, b) <=> Holds(p, c, bs, t, b)
        /\ Shares(p, Idle, ts, t, b) <=> Shares(p, c, bs, t, b)
    <3>1. /\ Holds(p, Idle, ts, t, b) <=> v.maker = p /\ v.at[b[1]] = b[2]
          /\ Shares(p, Idle, ts, t, b) <=> v.global
      <4>1. v = ts[t] BY <2>3
      <4> QED BY SMT, <4>1, IdleSlot
    <3>2. Holds(p, c, bs, t, b) <=> bs[t].maker = p /\ bs[t].at[b[1]] = b[2]
      BY SMT, <2>6, SlotHolds
    <3>3. Shares(p, c, bs, t, b) BY SMT, <1>2, <1>t, SlotHolds
    <3> QED BY <2>5, <3>1, <3>2, <3>3
  <2>8. ~Holds(p, Idle, ts, 0, b) /\ ~Holds(p, c, bs, 0, b) BY <1>2, IdleHolds, CallHolds
  <2>9. ASSUME NEW h \in Slots, h # t
        PROVE  /\ Holds(p, Idle, ts, h, b) <=> Holds(p, c, bs, h, b)
               /\ Shares(p, Idle, ts, h, b) <=> Shares(p, c, bs, h, b)
    <3>1. h # c.slot /\ ts[h] = bs[h] BY <1>t, <2>3, <2>9
    <3> QED BY <3>1, OtherSlot
  <2>10. \A h \in Slots \cup {0} :
           /\ Holds(p, Idle, ts, h, b) <=> Holds(p, c, bs, h, b)
           /\ Holds(p, Idle, ts, h, b) => (Shares(p, Idle, ts, h, b) <=> Shares(p, c, bs, h, b))
    BY <2>7, <2>8, <2>9
  <2> QED BY <2>10, SameRenamed
<1>3. ASSUME c.op = "destroy" PROVE Renamed(p, c, bs, Idle, ts, b)
  <2>1. ts = [bs EXCEPT ![t] = Empty] BY SMT, <1>3, <1>r, <1>t DEF Result
  <2>2. ts[t] = Empty /\ \A h \in Slots : h # t => ts[h] = bs[h] BY <1>b, <2>1
  <2>3. ~Holds(p, Idle, ts, t, b) BY <2>2, EmptyHolds
  <2>4. ~Holds(p, c, bs, t, b)
    <3>1. Releases(c) BY SMT, <1>3 DEF Releases
    <3> QED BY <1>t, <3>1, SlotHolds
  <2>5. ~Holds(p, Idle, ts, 0, b) BY IdleHolds
  <2>6. ~Holds(p, c, bs, 0, b)
    <3>1. RanksOf(c.at) = {} BY <1>3
    <3>2. c.at[b[1]] # b[2] BY <3>1, BlockFacts
    <3> QED BY <3>2, CallHolds
  <2>7. ASSUME NEW h \in Slots, h # t
        PROVE  /\ Holds(p, Idle, ts, h, b) <=> Holds(p, c, bs, h, b)
               /\ Shares(p, Idle, ts, h, b) <=> Shares(p, c, bs, h, b)
    <3>1. h # c.slot /\ ts[h] = bs[h] BY <1>t, <2>2, <2>7
    <3> QED BY <3>1, OtherSlot
  <2>8. \A h \in Slots \cup {0} :
           /\ Holds(p, Idle, ts, h, b) <=> Holds(p, c, bs, h, b)
           /\ Holds(p, Idle, ts, h, b) => (Shares(p, Idle, ts, h, b) <=> Shares(p, c, bs, h, b))
    BY <2>3, <2>4, <2>5, <2>6, <2>7
  <2> QED BY <2>8, SameRenamed
<1>4. ASSUME c.op = "assign" PROVE Renamed(p, c, bs, Idle, ts, b)
  <2>0. PICK w \in Slots \ {t} : w = c.from BY <1>4, <1>t DEF CallMid
  <2>1. ts = [bs EXCEPT ![t] = bs[w], ![w] = Empty] BY SMT, <1>4, <1>r, <1>t, <2>0 DEF Result
  <2>2. ts[t] = bs[w] /\ ts[w] = Empty /\ \A h \in Slots : h # t /\ h # w => ts[h] = bs[h]
    BY SMT, <1>b, <2>0, <2>1
  <2>3. RanksOf(c.at) = {} BY <1>4
  <2> QED BY <1>4, <1>t, <2>0, <2>2, <2>3, MoveRenames
<1>5. ASSUME c.op = "rollback" PROVE Renamed(p, c, bs, Idle, ts, b)
  <2>1. ts = bs BY SMT, <1>5, <1>r DEF Result
  <2>2. ~Holds(p, Idle, ts, 0, b) BY IdleHolds
  <2>3. ~Holds(p, c, bs, 0, b)
    <3>1. RanksOf(c.at) = {} BY <1>5
    <3>2. c.at[b[1]] # b[2] BY <3>1, BlockFacts
    <3> QED BY <3>2, CallHolds
  <2>4. ~Releases(c) /\ c.op # "share" BY SMT, <1>5 DEF Releases
  <2>5. ASSUME NEW h \in Slots
        PROVE  /\ Holds(p, Idle, ts, h, b) <=> Holds(p, c, bs, h, b)
               /\ Shares(p, Idle, ts, h, b) <=> Shares(p, c, bs, h, b)
    <3>1. ts[h] = bs[h] BY <2>1
    <3> QED BY <2>4, <3>1, OtherSlot
  <2>6. \A h \in Slots \cup {0} :
           /\ Holds(p, Idle, ts, h, b) <=> Holds(p, c, bs, h, b)
           /\ Holds(p, Idle, ts, h, b) => (Shares(p, Idle, ts, h, b) <=> Shares(p, c, bs, h, b))
    BY <2>2, <2>3, <2>5
  <2> QED BY <2>6, SameRenamed
<1>6. c.op \in {"allocate", "get", "share", "destroy", "assign", "rollback"}
  BY SMT, <1>0 DEF Calls, Ops
<1> QED BY <1>r, <1>1, <1>2, <1>3, <1>4, <1>5, <1>6

Add(hs, x) == hs \cup {x}

Drop(hs, x) == hs \ {x}

SlotsSame(p, C, D, B, b) ==
  \A h \in Slots : Holds(p, D[p], B[p], h, b) <=> Holds(p, C[p], B[p], h, b)

\* The holders of b are what they were, but for the call of p.
HoldersFollow(p, C, D, B, b) ==
  /\ Holds(p, D[p], B[p], 0, b) => HoldersIn(D, B, b) = Add(HoldersIn(C, B, b), <<p, 0>>)
  /\ ~Holds(p, D[p], B[p], 0, b) => HoldersIn(D, B, b) = Drop(HoldersIn(C, B, b), <<p, 0>>)

\* A process obtains or gives back a block, the others do nothing.
LEMMA HoldersChange ==
  ASSUME NEW C, NEW B, NEW D, NEW p \in Procs, NEW b,
         Only(p, C, D),
         SlotsSame(p, C, D, B, b)
  PROVE  HoldersFollow(p, C, D, B, b)
<1>0. <<p, 0>> \in Places /\ <<p, 0>>[1] = p /\ <<p, 0>>[2] = 0 BY PlaceParts
<1>1. <<p, 0>> \in HoldersIn(D, B, b) <=> Holds(p, D[p], B[p], 0, b) BY <1>0 DEF HoldersIn
<1>2. ASSUME NEW x \in Places, x # <<p, 0>>
      PROVE  x \in HoldersIn(D, B, b) <=> x \in HoldersIn(C, B, b)
  <2>1. PICK q \in Procs, h \in Slots \cup {0} : q = x[1] /\ h = x[2] /\ x = <<q, h>>
    BY SMT, PlaceParts
  <2>2. Holds(q, D[q], B[q], h, b) <=> Holds(q, C[q], B[q], h, b)
    <3>1. CASE q = p
      <4>1. h \in Slots BY <1>2, <2>1, <3>1
      <4> QED BY <3>1, <4>1 DEF SlotsSame
    <3>2. CASE q # p BY <3>2 DEF Only
    <3> QED BY <3>1, <3>2
  <2> QED BY <2>1, <2>2 DEF HoldersIn
<1>3. HoldersIn(C, B, b) \subseteq Places /\ HoldersIn(D, B, b) \subseteq Places BY DEF HoldersIn
<1>4. ASSUME Holds(p, D[p], B[p], 0, b)
      PROVE  HoldersIn(D, B, b) = Add(HoldersIn(C, B, b), <<p, 0>>)
  BY <1>0, <1>1, <1>2, <1>3, <1>4 DEF Add
<1>5. ASSUME ~Holds(p, D[p], B[p], 0, b)
      PROVE  HoldersIn(D, B, b) = Drop(HoldersIn(C, B, b), <<p, 0>>)
  BY <1>0, <1>1, <1>2, <1>3, <1>5 DEF Drop
<1> QED BY <1>4, <1>5 DEF HoldersFollow

\* A step of p that leaves its operation and its slot as they are: nothing
\* changes for the buffers, nor for what is known about a block.
LEMMA SameOp ==
  ASSUME Config, NEW C, NEW B, NEW D, NEW p \in Procs, NEW b \in Blocks,
         Only(p, C, D),
         D[p].op = C[p].op, D[p].slot = C[p].slot, C[p].op # "share"
  PROVE  /\ SlotsSame(p, C, D, B, b)
         /\ \A h \in Slots \cup {0} : Shares(p, D[p], B[p], h, b) <=> Shares(p, C[p], B[p], h, b)
         /\ SharersIn(D, B, b) = SharersIn(C, B, b)
         /\ HoldersFollow(p, C, D, B, b)
<1>1. Releases(D[p]) <=> Releases(C[p]) BY DEF Releases
<1>2. ASSUME NEW h \in Slots
      PROVE  /\ Holds(p, D[p], B[p], h, b) <=> Holds(p, C[p], B[p], h, b)
             /\ Shares(p, D[p], B[p], h, b) <=> Shares(p, C[p], B[p], h, b)
  <2>1. h # 0 BY SlotsNotZero
  <2> QED BY SMT, <1>1, <2>1 DEF Holds, Shares
<1>3. Shares(p, D[p], B[p], 0, b) <=> Shares(p, C[p], B[p], 0, b) BY SMT, <1>1 DEF Shares
<1>4. ASSUME NEW x \in Places PROVE x \in SharersIn(D, B, b) <=> x \in SharersIn(C, B, b)
  <2>1. PICK q \in Procs, h \in Slots \cup {0} : q = x[1] /\ h = x[2] BY SMT, PlaceParts
  <2>2. Shares(q, D[q], B[q], h, b) <=> Shares(q, C[q], B[q], h, b)
    <3>1. CASE q = p BY <1>2, <1>3, <3>1
    <3>2. CASE q # p BY <3>2 DEF Only
    <3> QED BY <3>1, <3>2
  <2> QED BY <2>1, <2>2 DEF SharersIn
<1>5. SharersIn(D, B, b) = SharersIn(C, B, b) BY <1>4 DEF SharersIn
<1>6. HoldersFollow(p, C, D, B, b)
  <2>1. SlotsSame(p, C, D, B, b) BY <1>2 DEF SlotsSame
  <2> QED BY <2>1, HoldersChange
<1> QED BY <1>2, <1>3, <1>5, <1>6 DEF SlotsSame

\* A block that such a step is not about.
LEMMA OtherBlock ==
  ASSUME Config, NEW u, NEW n, NEW d, NEW F, NEW L, NEW C, NEW B, NEW D, NEW p \in Procs, NEW b \in Blocks,
         Only(p, C, D),
         D[p].op = C[p].op, D[p].slot = C[p].slot, C[p].op # "share",
         D[p].at[b[1]] = b[2] <=> C[p].at[b[1]] = b[2],
         BlockOK(u, n, d, F, L, HoldersIn(C, B, b), SharersIn(C, B, b))
  PROVE  BlockOK(u, n, d, F, L, HoldersIn(D, B, b), SharersIn(D, B, b))
<1>1. Holds(p, D[p], B[p], 0, b) <=> Holds(p, C[p], B[p], 0, b) BY SMT, CallHolds
<1>2. /\ SlotsSame(p, C, D, B, b)
      /\ \A h \in Slots \cup {0} : Shares(p, D[p], B[p], h, b) <=> Shares(p, C[p], B[p], h, b)
  BY SameOp
<1>3. \A h \in Slots \cup {0} :
        /\ Holds(p, D[p], B[p], h, b) <=> Holds(p, C[p], B[p], h, b)
        /\ Holds(p, D[p], B[p], h, b) => (Shares(p, D[p], B[p], h, b) <=> Shares(p, C[p], B[p], h, b))
  BY <1>1, <1>2 DEF SlotsSame
<1>4. Only(p, B, B) BY DEF Only
<1>5. Renamed(p, C[p], B[p], D[p], B[p], b) BY <1>3, SameRenamed
<1> QED BY <1>4, <1>5, RenamedBlock

\* An allocation takes block b.
LEMMA TakeHeld ==
  ASSUME Config, Counting, NEW n \in Nat, NEW d \in [Started -> Flags], NEW F, NEW L,
         NEW C, NEW B, NEW D, NEW p \in Procs, NEW b \in Blocks,
         Only(p, C, D),
         D[p].op = C[p].op, D[p].slot = C[p].slot, C[p].op # "share",
         C[p].op = "allocate", D[p].at[b[1]] = b[2], L[p] = "alive", F[p] \in Started,
         BlockOK(FALSE, n, d, F, L, HoldersIn(C, B, b), SharersIn(C, B, b))
  PROVE  BlockOK(TRUE, n, [d EXCEPT ![F[p]] = "local"], F, L, HoldersIn(D, B, b), SharersIn(D, B, b))
<1>1. PICK x : x = <<p, 0>> OBVIOUS
<1>2. x \in Places /\ x[1] = p /\ x[2] = 0 BY <1>1, PlaceOf
<1>3. ~Shares(p, C[p], B[p], 0, b)
  <2>1. C[p].op # "get" /\ ~Releases(C[p]) BY SMT DEF Releases
  <2> QED BY <2>1 DEF Shares
<1>4. x \notin SharersIn(C, B, b) BY <1>2, <1>3 DEF SharersIn
<1>5. BlockOK(TRUE, n, [d EXCEPT ![F[p]] = "local"], F, L, HoldersIn(C, B, b) \cup {x}, SharersIn(C, B, b))
  BY <1>2, <1>4, TakeBlock
<1>6. Holds(p, D[p], B[p], 0, b) BY DEF Holds
<1>7. /\ SlotsSame(p, C, D, B, b)
      /\ SharersIn(D, B, b) = SharersIn(C, B, b)
  BY SameOp
<1>8. HoldersIn(D, B, b) = HoldersIn(C, B, b) \cup {x}
  <2>1. HoldersIn(D, B, b) = Add(HoldersIn(C, B, b), <<p, 0>>) BY <1>6, SameOp DEF HoldersFollow
  <2> QED BY <1>1, <2>1 DEF Add
<1> QED BY <1>5, <1>7, <1>8

\* A region and a call after rank r has been gone through.
RegionAfter(at, at2, r, a) ==
  /\ at2 \in Regions
  /\ a # 0 => RanksOf(at2) = RanksOf(at) \cup {r}
  /\ a = 0 => RanksOf(at2) = RanksOf(at) \ {r}
  /\ \A b \in Blocks : (b[1] = r => at2[b[1]] = a) /\ (b[1] # r => at2[b[1]] = at[b[1]])

CallAfter(c, d, T, at2) ==
  /\ d \in Calls /\ d.op = c.op /\ d.slot = c.slot /\ d.todo = T /\ d.want = c.want
  /\ d.from = c.from /\ d.at = at2

\* They are what EXCEPT makes of them.
LEMMA RegionChange ==
  ASSUME Config, NEW at \in Regions, NEW r \in Ranks, NEW a \in 0 .. NumBlocks,
         NEW at2, at2 = [at EXCEPT ![r] = a]
  PROVE  RegionAfter(at, at2, r, a)
<1>1. at2 \in Regions BY SMT DEF Regions
<1>2. at2[r] = a /\ \A q \in Ranks : q # r => at2[q] = at[q] BY SMT DEF Regions
<1>3. RanksOf(at2) = IF a # 0 THEN RanksOf(at) \cup {r} ELSE RanksOf(at) \ {r}
  BY SMT, <1>2 DEF RanksOf
<1>4. \A b \in Blocks : b[1] \in Ranks BY BlockFacts
<1> QED BY <1>1, <1>2, <1>3, <1>4 DEF RegionAfter

\* The fields of a call after one of its ioctls.
LEMMA CallChange ==
  ASSUME Config, NEW c \in Calls, NEW T \in SUBSET Ranks, NEW r \in Ranks, NEW a \in 0 .. NumBlocks,
         NEW d, d = [c EXCEPT !.todo = T, !.at[r] = a]
  PROVE  \E at2 : CallAfter(c, d, T, at2) /\ RegionAfter(c.at, at2, r, a)
<1>1. c.at \in Regions BY SMT DEF Calls
<1>2. PICK at2 : at2 = [c.at EXCEPT ![r] = a] OBVIOUS
<1>3. RegionAfter(c.at, at2, r, a) BY <1>1, <1>2, RegionChange
<1>4. d = [c EXCEPT !.todo = T, !.at = at2] BY SMT, <1>2 DEF Calls
<1>5. at2 \in Regions BY <1>3 DEF RegionAfter
<1>6. CallAfter(c, d, T, at2) BY <1>4, <1>5 DEF Calls, CallAfter
<1> QED BY <1>3, <1>6

\* Descriptors E are descriptors D with v for block k in file f.
Registered(D, E, f, k, v) == E = [D EXCEPT ![f][k] = v]

ColumnsAfter(D, E, f, k, v) ==
  /\ E \in [Started -> [Blocks -> Flags]]
  /\ Column(E, k) = [Column(D, k) EXCEPT ![f] = v]
  /\ \A b \in Blocks : b # k => Column(E, b) = Column(D, b)

\* Registering a block with a file changes that block's flags only.
LEMMA ColumnChange ==
  ASSUME NEW D \in [Started -> [Blocks -> Flags]], NEW f \in Started, NEW k \in Blocks, NEW v \in Flags,
         NEW E, Registered(D, E, f, k, v)
  PROVE  ColumnsAfter(D, E, f, k, v)
<1>0. E = [D EXCEPT ![f][k] = v] BY DEF Registered
<1>1. E \in [Started -> [Blocks -> Flags]] BY SMT, <1>0
<1>2. Column(E, k) = [Column(D, k) EXCEPT ![f] = v] BY <1>0 DEF Column
<1>3. ASSUME NEW b \in Blocks, b # k PROVE Column(E, b) = Column(D, b)
  <2>1. \A g \in Started : E[g][b] = D[g][b] BY SMT, <1>0, <1>3
  <2> QED BY <2>1 DEF Column
<1> QED BY <1>1, <1>2, <1>3 DEF ColumnsAfter

\* Ranks are gone through in ascending order, and a pool takes its first block.
LEMMA MinInSet ==
  ASSUME Counting, NEW S, S \subseteq Nat, S # {}
  PROVE  Min(S) \in S
BY DEF Counting

\* A call with ranks to go through has a next rank, one of them.
LEMMA NextRank ==
  ASSUME Config, Counting, NEW T \in SUBSET Ranks, T # {}
  PROVE  Min(T) \in T /\ Min(T) \in Ranks
<1>1. T \subseteq Nat BY SMT DEF Ranks, Config
<1> QED BY <1>1, MinInSet

\* The pool hands out a block of the rank that is not in use.
LEMMA FirstFit ==
  ASSUME Config, Counting, NEW r \in Ranks, FreeIn(r) # {}
  PROVE  /\ first_fit(r) \in 1 .. NumBlocks /\ first_fit(r) # 0
         /\ <<r, first_fit(r)>> \in Blocks /\ <<r, first_fit(r)>> \notin used
<1>1. FreeIn(r) \subseteq Nat BY SMT DEF FreeIn, Config
<1>2. PICK a : a = first_fit(r) OBVIOUS
<1>3. a \in FreeIn(r) BY <1>1, <1>2, MinInSet DEF first_fit
<1>4. a \in 1 .. NumBlocks /\ <<r, a>> \notin used BY <1>3 DEF FreeIn
<1>5. a # 0 BY SMT, <1>4 DEF Config
<1>6. <<r, a>> \in Blocks BY <1>4 DEF Blocks
<1> QED BY <1>2, <1>4, <1>5, <1>6

\* Every block, in the driver's new tables, after an ioctl in call c of p and
\* before the call returns if it was the last.
MidBlocks(C) ==
  \A b \in Blocks : BlockOK(b \in used', ref_cnt'[b], Column(desc', b), file, life,
                           HoldersIn(C, buf, b), SharersIn(C, buf, b))

\* The two ways in which an ioctl ends: the call goes on, or it returns.
LEMMA ContinueCases ==
  ASSUME LocalsOK, NEW p \in Procs, NEW c, Continue(p, c)
  PROVE  \E d, bs : /\ call' = [call EXCEPT ![p] = d] /\ buf' = [buf EXCEPT ![p] = bs]
                    /\ c.todo # {} => d = c /\ bs = buf[p]
                    /\ c.todo = {} => d = Idle /\ bs = Result(p, c, buf[p])
<1>1. CASE c.todo # {}
  <2>1. call' = [call EXCEPT ![p] = c] /\ buf' = buf BY <1>1 DEF Continue
  <2>2. buf' = [buf EXCEPT ![p] = buf[p]] BY SMT, <2>1 DEF LocalsOK
  <2> QED BY <1>1, <2>1, <2>2
<1>2. CASE c.todo = {}
  <2>1. call' = [call EXCEPT ![p] = Idle] /\ buf' = [buf EXCEPT ![p] = Returned(p, c)]
    BY <1>2 DEF Continue
  <2>2. Returned(p, c) = Result(p, c, buf[p]) BY SMT DEF Returned, Result
  <2> QED BY <1>2, <2>1, <2>2
<1> QED BY <1>1, <1>2

\* After an ioctl of p every process is in order.
LEMMA ContinueLocals ==
  ASSUME Config, LocalsOK, NEW p \in Procs, NEW c, Continue(p, c), life' = life,
         CallMid(p, c, buf[p], life), c.op # "idle",
         c.op \in {"allocate", "get"} => RanksOf(c.at) # {},
         c.todo # {} /\ c.op \in {"rollback", "destroy", "assign"} => c.todo = RanksOf(c.at)
  PROVE  LocalsOK'
<1>1. PICK d, bs : /\ call' = [call EXCEPT ![p] = d] /\ buf' = [buf EXCEPT ![p] = bs]
                   /\ c.todo # {} => d = c /\ bs = buf[p]
                   /\ c.todo = {} => d = Idle /\ bs = Result(p, c, buf[p])
  BY ContinueCases
<1>2. life[p] = "alive" BY DEF CallMid
<1>3. BuffersOK(p, buf[p], life) BY DEF LocalsOK, LocalOK
<1>4. LocalOK(p, d, bs, life)
  <2>1. CASE c.todo # {}
    <3>1. d = c /\ bs = buf[p] BY <1>1, <2>1
    <3>2. CallOK(p, c, buf[p], life) BY <2>1 DEF CallOK
    <3> QED BY <1>2, <1>3, <3>1, <3>2 DEF LocalOK
  <2>2. CASE c.todo = {}
    <3>1. d = Idle /\ bs = Result(p, c, buf[p]) BY <1>1, <2>2
    <3>2. LocalOK(p, Idle, Result(p, c, buf[p]), life) BY <1>2, <1>3, ReturnOK
    <3> QED BY <3>1, <3>2
  <2> QED BY <2>1, <2>2
<1> QED BY <1>1, <1>4, OneProcess

\* and every block.
LEMMA ContinueBlocks ==
  ASSUME Config, LocalsOK, OwnOK, NEW p \in Procs, NEW c, Continue(p, c), life' = life, file' = file,
         CallMid(p, c, buf[p], life), c.op # "idle", Own(p, c, buf[p]),
         c.todo = {} /\ c.op \in {"rollback", "destroy", "assign"} => RanksOf(c.at) = {},
         MidBlocks([call EXCEPT ![p] = c])
  PROVE  OwnOK' /\ BlocksOK(call)'
<1>0. buf \in [Procs -> [Slots -> Buffers]] /\ call \in [Procs -> Calls] BY DEF LocalsOK
<1>1. PICK d, bs : /\ call' = [call EXCEPT ![p] = d] /\ buf' = [buf EXCEPT ![p] = bs]
                   /\ c.todo # {} => d = c /\ bs = buf[p]
                   /\ c.todo = {} => d = Idle /\ bs = Result(p, c, buf[p])
  BY ContinueCases
<1>2. PICK C : C = [call EXCEPT ![p] = c] OBVIOUS
<1>3. C[p] = c /\ \A q \in Procs : q # p => C[q] = call[q] BY <1>0, <1>2
<1>4. /\ call'[p] = d /\ buf'[p] = bs
      /\ \A q \in Procs : q # p => call'[q] = call[q] /\ buf'[q] = buf[q]
  BY <1>0, <1>1
<1>5. Only(p, C, call') /\ Only(p, buf, buf') BY <1>3, <1>4 DEF Only
<1>6. BuffersOK(p, buf[p], life) BY DEF LocalsOK, LocalOK
<1>7. ASSUME NEW b \in Blocks PROVE Renamed(p, c, buf[p], d, bs, b)
  <2>1. CASE c.todo # {}
    <3>1. d = c /\ bs = buf[p] BY <1>1, <2>1
    <3> QED BY <3>1, SameRenamed
  <2>2. CASE c.todo = {}
    <3>1. d = Idle /\ bs = Result(p, c, buf[p]) BY <1>1, <2>2
    <3>2. c.op \in {"rollback", "destroy", "assign"} => RanksOf(c.at) = {} BY <2>2
    <3>3. Renamed(p, c, buf[p], Idle, Result(p, c, buf[p]), b) BY <1>6, <2>2, <3>2, ReturnRenames
    <3> QED BY <3>1, <3>3
  <2> QED BY <2>1, <2>2
<1>8. BlocksOK(call)'
  <2> SUFFICES ASSUME NEW b \in Blocks
               PROVE  BlockOK(b \in used', ref_cnt'[b], Column(desc', b), file', life',
                              HoldersIn(call', buf', b), SharersIn(call', buf', b))
    BY DEF BlocksOK
  <2>1. PICK u, n, fl : u = (b \in used') /\ n = ref_cnt'[b] /\ fl = Column(desc', b) OBVIOUS
  <2>2. BlockOK(u, n, fl, file, life, HoldersIn(C, buf, b), SharersIn(C, buf, b))
    <3>1. BlockOK(b \in used', ref_cnt'[b], Column(desc', b), file, life,
                  HoldersIn(C, buf, b), SharersIn(C, buf, b))
      BY <1>2 DEF MidBlocks
    <3> QED BY <2>1, <3>1
  <2>3. PICK B, D, E : B = buf /\ D = call' /\ E = buf' OBVIOUS
  <2>4. Renamed(p, C[p], B[p], D[p], E[p], b) BY <1>3, <1>4, <1>7, <2>3
  <2>5. Only(p, C, D) /\ Only(p, B, E) BY <1>5, <2>3
  <2>6. PICK F, L : F = file /\ L = life OBVIOUS
  <2>7. BlockOK(u, n, fl, F, L, HoldersIn(C, B, b), SharersIn(C, B, b)) BY <2>2, <2>3, <2>6
  <2>8. BlockOK(u, n, fl, F, L, HoldersIn(D, E, b), SharersIn(D, E, b)) BY <2>4, <2>5, <2>7, RenamedBlock
  <2> QED BY <2>1, <2>3, <2>6, <2>8
<1>9. OwnOK'
  <2> SUFFICES ASSUME NEW q \in Procs PROVE Own(q, call'[q], buf'[q]) BY DEF OwnOK
  <2>1. CASE q # p
    <3>1. Own(q, call[q], buf[q]) BY DEF OwnOK
    <3> QED BY <1>4, <2>1, <3>1
  <2>2. CASE q = p
    <3>1. Own(p, Idle, bs)
      <4>1. "idle" \notin {"destroy", "assign"} /\ "idle" # "share" BY SMT
      <4> QED BY <4>1, EmptyFields DEF Own, Releases
    <3>2. Own(p, d, bs) BY <1>1, <3>1
    <3> QED BY <1>4, <2>2, <3>2
  <2> QED BY <2>1, <2>2
<1> QED BY <1>8, <1>9

\* A process that is in a call.
LEMMA InCall ==
  ASSUME Config, Counting, MInv, NEW p \in Procs, NEW c, c = call[p], c.op # "idle"
  PROVE  /\ life[p] = "alive" /\ file[p] \in Started /\ c \in Calls /\ c.slot \in Slots
         /\ c.todo \in SUBSET Ranks /\ c.at \in Regions /\ c.want \in Regions
         /\ CallMid(p, c, buf[p], life) /\ BuffersOK(p, buf[p], life)
         /\ c.op \in {"rollback", "destroy", "assign"} => c.todo = RanksOf(c.at)
         /\ Min(c.todo) \in c.todo /\ Min(c.todo) \in Ranks
<1>1. LocalOK(p, call[p], buf[p], life) BY DEF MInv, LocalsOK
<1>2. CallOK(p, c, buf[p], life) /\ BuffersOK(p, buf[p], life) BY <1>1 DEF LocalOK
<1>3. /\ CallMid(p, c, buf[p], life) /\ c.todo # {}
      /\ c.op \in {"rollback", "destroy", "assign"} => c.todo = RanksOf(c.at)
  BY <1>2 DEF CallOK
<1>4. c \in Calls /\ life[p] = "alive" /\ c.slot \in Slots BY <1>3 DEF CallMid
<1>5. file[p] \in Started BY <1>4 DEF MInv, ProcsOK
<1>6. c.todo \in SUBSET Ranks /\ c.at \in Regions /\ c.want \in Regions BY SMT, <1>4 DEF Calls
<1>7. Min(c.todo) \in c.todo /\ Min(c.todo) \in Ranks BY <1>3, <1>6, NextRank
<1> QED BY <1>2, <1>3, <1>4, <1>5, <1>6, <1>7

\* Call d is call c after an ioctl that obtained, or released (a = 0), its block
\* in rank r, and ranks T are left.
Stepped(c, d, T, r, a) == d = [c EXCEPT !.todo = T, !.at[r] = a]

\* What is left of a call afterwards.
SteppedTo(p, c, d, bs, L, T, r, a) ==
  /\ CallMid(p, d, bs, L) /\ d.op = c.op /\ d.slot = c.slot /\ d.todo = T
  /\ a # 0 => RanksOf(d.at) # {}
  /\ a = 0 => RanksOf(d.at) = RanksOf(c.at) \ {r}
  /\ \A b \in Blocks : /\ b[1] = r => d.at[b[1]] = a
                       /\ b[1] # r => d.at[b[1]] = c.at[b[1]]

\* A constructor that has obtained a block in rank r.
LEMMA ObtainedMid ==
  ASSUME Config, NEW p, NEW c, NEW bs, NEW L, CallMid(p, c, bs, L), c.op \in {"allocate", "get"},
         NEW r \in Ranks, NEW a \in 0 .. NumBlocks, a # 0,
         NEW T, T = Drop(c.todo, r), NEW d, Stepped(c, d, T, r, a)
  PROVE  SteppedTo(p, c, d, bs, L, T, r, a)
<1>0. c \in Calls /\ c.at \in Regions /\ c.todo \in SUBSET Ranks
  <2>1. c \in Calls BY DEF CallMid
  <2> QED BY SMT, <2>1 DEF Calls
<1>1. T = c.todo \ {r} BY DEF Drop
<1>t. T \in SUBSET Ranks BY <1>0, <1>1
<1>a. d = [c EXCEPT !.todo = T, !.at[r] = a] BY DEF Stepped
<1>b. PICK at2 : CallAfter(c, d, T, at2) /\ RegionAfter(c.at, at2, r, a) BY <1>0, <1>a, <1>t, CallChange
<1>2. /\ d \in Calls /\ d.op = c.op /\ d.slot = c.slot /\ d.todo = c.todo \ {r} /\ d.want = c.want
      /\ d.from = c.from /\ d.at = at2
  BY <1>1, <1>b DEF CallAfter
<1>3. /\ RanksOf(d.at) = RanksOf(c.at) \cup {r}
      /\ \A b \in Blocks : /\ b[1] = r => d.at[b[1]] = a
                           /\ b[1] # r => d.at[b[1]] = c.at[b[1]]
  BY <1>b, <1>2 DEF RegionAfter
<1>4. c.op \notin {"rollback", "destroy", "assign", "share", "idle"} BY SMT
<1>5. c.op # "rollback" /\ c.op # "assign" /\ c.op # "share" /\ c.op # "idle" /\ ~Releases(c)
  BY <1>4 DEF Releases
<1>6. d.op # "rollback" /\ d.op # "assign" /\ d.op # "share" /\ d.op # "idle" /\ ~Releases(d)
  BY <1>2, <1>5 DEF Releases
<1>7. L[p] = "alive" /\ c.slot \in Slots /\ bs[c.slot] = Empty /\ c.todo \cap RanksOf(c.at) = {}
      /\ (c.op = "get" => c.todo \subseteq RanksOf(c.want))
  BY <1>5 DEF CallMid
<1>8. d.todo \cap RanksOf(d.at) = {} /\ (d.op = "get" => d.todo \subseteq RanksOf(d.want))
  BY <1>2, <1>3, <1>7
<1>9. CallMid(p, d, bs, L) BY <1>2, <1>6, <1>7, <1>8 DEF CallMid
<1>10. RanksOf(d.at) # {} BY <1>3
<1> QED BY <1>1, <1>2, <1>3, <1>9, <1>10 DEF SteppedTo

\* An allocation that has failed.
LEMMA RollbackMid ==
  ASSUME Config, NEW p, NEW c, NEW bs, NEW L, CallMid(p, c, bs, L), c.op = "allocate"
  PROVE  /\ CallMid(p, Rollback(c), bs, L) /\ Rollback(c).op = "rollback"
         /\ Rollback(c).slot = c.slot /\ Rollback(c).at = c.at /\ Rollback(c).todo = RanksOf(c.at)
<1>0. c \in Calls BY DEF CallMid
<1>1. PICK T : T = RanksOf(c.at) OBVIOUS
<1>2. T \in SUBSET Ranks BY <1>1 DEF RanksOf
<1>3. PICK d : d = Rollback(c) OBVIOUS
<1>4. d = [c EXCEPT !.op = "rollback", !.todo = T] BY <1>1, <1>3 DEF Rollback
<1>5. d \in Calls /\ d.op = "rollback" /\ d.slot = c.slot /\ d.at = c.at /\ d.todo = T
  BY <1>0, <1>2, <1>4 DEF Calls, Ops
<1>6. L[p] = "alive" /\ c.slot \in Slots /\ bs[c.slot] = Empty
  <2>1. c.op # "idle" /\ c.op \in {"allocate", "get", "rollback"} BY SMT
  <2> QED BY <2>1 DEF CallMid
<1>7. /\ "rollback" # "idle" /\ "rollback" \notin {"allocate", "get"} /\ "rollback" # "get"
      /\ "rollback" \notin {"destroy", "assign"} /\ "rollback" # "assign" /\ "rollback" # "share"
  BY SMT
<1>8. CallMid(p, d, bs, L) BY <1>5, <1>6, <1>7 DEF CallMid, Releases
<1> QED BY <1>1, <1>3, <1>5, <1>8

\* ALLOCATE_MEMORY that succeeds.
LEMMA AllocateOne ==
  ASSUME Config, Counting, MInv, NEW p \in Procs, NEW c, c = call[p], c.op = "allocate",
         NEW r, r = Min(c.todo), FreeIn(r) # {}, NEW a, a = first_fit(r),
         NEW T, T = Drop(c.todo, r), NEW d, Stepped(c, d, T, r, a), Continue(p, d),
         NEW k, k = <<r, a>>, used' = Add(used, k), Registered(desc, desc', file[p], k, "local"),
         UNCHANGED <<ref_cnt, life, file, published, tainted, ops, forks, deaths>>
  PROVE  MInv'
<1>0. c.op # "idle" /\ c.op # "share" /\ c.op \in {"allocate", "get"} BY SMT
<1>1. /\ file[p] \in Started /\ c \in Calls /\ life[p] = "alive"
      /\ CallMid(p, c, buf[p], life) /\ r \in Ranks
  BY <1>0, InCall
<1>2. a \in 1 .. NumBlocks /\ a # 0 /\ k \in Blocks /\ k \notin used BY <1>1, FirstFit
<1>3. a \in 0 .. NumBlocks BY SMT, <1>2 DEF Config
<1>4. PICK bs : bs = buf[p] OBVIOUS
<1>5. SteppedTo(p, c, d, bs, life, T, r, a)
  <2>1. CallMid(p, c, bs, life) BY ZenonT(30), <1>1, <1>4
  <2> QED BY <1>0, <1>1, <1>2, <1>3, <2>1, ObtainedMid
<1>6. /\ CallMid(p, d, bs, life) /\ d.op = c.op /\ d.slot = c.slot /\ RanksOf(d.at) # {}
      /\ d.op # "idle" /\ d.op # "share" /\ d.op \notin {"rollback", "destroy", "assign"}
  <2>1. /\ CallMid(p, d, bs, life) /\ d.op = c.op /\ d.slot = c.slot /\ RanksOf(d.at) # {}
    BY <1>2, <1>5 DEF SteppedTo
  <2>2. d.op = "allocate" BY <2>1
  <2> QED BY SMT, <2>1, <2>2
<1>t. /\ used \subseteq Blocks /\ desc \in [Started -> [Blocks -> Flags]] /\ ref_cnt \in [Blocks -> Nat]
      /\ call \in [Procs -> Calls] /\ buf \in [Procs -> [Slots -> Buffers]]
      /\ LocalsOK /\ ProcsOK /\ KernelOK
  BY KernelTypes
<1>u. used' = used \cup {k} BY DEF Add
<1>8. ColumnsAfter(desc, desc', file[p], k, "local")
  <2>1. "local" \in Flags BY DEF Flags
  <2>3. PICK D, E : D = desc /\ E = desc' OBVIOUS
  <2>4. D \in [Started -> [Blocks -> Flags]] /\ Registered(D, E, file[p], k, "local") BY <1>t, <2>3
  <2>5. ColumnsAfter(D, E, file[p], k, "local") BY <1>1, <1>2, <2>1, <2>4, ColumnChange
  <2> QED BY <2>3, <2>5
<1>9. KernelOK' BY <1>t, <1>u, <1>2, <1>8 DEF KernelOK, ColumnsAfter
<1>10. ProcsOK' BY <1>t DEF ProcsOK
<1>11. LocalsOK' BY <1>t, <1>4, <1>6, ContinueLocals
<1>12. ASSUME ~tainted PROVE OwnOK' /\ BlocksOK(call)'
  <2>1. OwnOK /\ BlocksOK(call) BY <1>12 DEF MInv
  <2>2. Own(p, d, buf[p]) BY <1>6 DEF Own, Releases
  <2>3. PICK K, C, B : K = call /\ C = [call EXCEPT ![p] = d] /\ B = buf OBVIOUS
  <2>4. C[p] = d /\ K[p] = c /\ Only(p, K, C) BY <1>t, <2>3 DEF Only
  <2>5. /\ C[p].op = K[p].op /\ C[p].slot = K[p].slot /\ K[p].op # "share" /\ K[p].op = "allocate"
    BY <1>0, <1>6, <2>4
  <2>6. MidBlocks(C)
    <3> SUFFICES ASSUME NEW b \in Blocks
                 PROVE  BlockOK(b \in used', ref_cnt'[b], Column(desc', b), file, life,
                                HoldersIn(C, buf, b), SharersIn(C, buf, b))
      BY DEF MidBlocks
    <3>1. BlockOK(b \in used, ref_cnt[b], Column(desc, b), file, life, HoldersIn(K, B, b), SharersIn(K, B, b))
      BY <2>1, <2>3 DEF BlocksOK
    <3>2. ref_cnt'[b] = ref_cnt[b] /\ ref_cnt[b] \in Nat BY <1>t
    <3>3. CASE b = k
      <4>1. b[1] = r /\ b[2] = a BY <3>3, PairParts
      <4>2. C[p].at[b[1]] = b[2] BY <1>5, <2>4, <4>1 DEF SteppedTo
      <4>3. ~(b \in used) /\ b \in used' BY <1>2, <1>u, <3>3
      <4>4. BlockOK(FALSE, ref_cnt[b], Column(desc, b), file, life, HoldersIn(K, B, b), SharersIn(K, B, b))
        BY <3>1, <4>3 DEF BlockOK
      <4>5. Column(desc, b) \in [Started -> Flags] BY <1>t, ColumnType
      <4>6. BlockOK(TRUE, ref_cnt[b], [Column(desc, b) EXCEPT ![file[p]] = "local"], file, life,
                    HoldersIn(C, B, b), SharersIn(C, B, b))
        BY <1>1, <2>4, <2>5, <3>2, <4>2, <4>4, <4>5, TakeHeld
      <4>7. BlockOK(b \in used', ref_cnt[b], [Column(desc, b) EXCEPT ![file[p]] = "local"], file, life,
                    HoldersIn(C, B, b), SharersIn(C, B, b))
        BY <4>3, <4>6 DEF BlockOK
      <4> QED BY ZenonT(30), <1>8, <2>3, <3>2, <3>3, <4>7 DEF ColumnsAfter
    <3>4. CASE b # k
      <4>1. b[1] # r \/ b[2] # a BY <3>4, OtherPair
      <4>2. C[p].at[b[1]] = b[2] <=> K[p].at[b[1]] = b[2]
        <5>1. c.todo \cap RanksOf(c.at) = {} /\ r \in c.todo BY <1>0, <1>1, InCall DEF CallMid
        <5>2. b[1] = r => c.at[b[1]] # b[2] BY <5>1, BlockFacts
        <5>3. b[1] = r => d.at[b[1]] # b[2] BY <1>5, <4>1 DEF SteppedTo
        <5> QED BY <1>5, <2>4, <5>2, <5>3 DEF SteppedTo
      <4>3. BlockOK(b \in used, ref_cnt[b], Column(desc, b), file, life, HoldersIn(C, B, b), SharersIn(C, B, b))
        BY <2>4, <2>5, <3>1, <4>2, OtherBlock
      <4>4. b \in used => b \in used' BY <1>u
      <4>5. BlockOK(b \in used', ref_cnt[b], Column(desc, b), file, life, HoldersIn(C, B, b), SharersIn(C, B, b))
        BY <4>3, <4>4 DEF BlockOK
      <4> QED BY ZenonT(30), <1>8, <2>3, <3>2, <3>4, <4>5 DEF ColumnsAfter
    <3> QED BY <3>3, <3>4
  <2>7. MidBlocks([call EXCEPT ![p] = d]) BY <2>3, <2>6
  <2>8. CallMid(p, d, buf[p], life) BY <1>4, <1>6
  <2> QED BY <1>t, <1>6, <2>1, <2>2, <2>7, <2>8, ContinueBlocks
<1> QED BY <1>9, <1>10, <1>11, <1>12 DEF MInv

\* ALLOCATE_MEMORY that fails.
LEMMA AllocateFails ==
  ASSUME Config, Counting, MInv, NEW p \in Procs, NEW c, c = call[p], c.op = "allocate", Continue(p, Rollback(c)),
         used \subseteq used', used' \subseteq Blocks,
         UNCHANGED <<desc, ref_cnt, life, file, published, tainted, ops, forks, deaths>>
  PROVE  MInv'
<1>0. c.op # "idle" BY SMT
<1>1. /\ c \in Calls /\ life[p] = "alive" /\ CallMid(p, c, buf[p], life) /\ BuffersOK(p, buf[p], life)
  BY <1>0, InCall
<1>2. KernelOK' BY KernelTypes DEF KernelOK
<1>3. PICK e : e = Rollback(c) OBVIOUS
<1>4. PICK bs : bs = buf[p] OBVIOUS
<1>5. /\ CallMid(p, e, bs, life) /\ e.op = "rollback"
      /\ e.slot = c.slot /\ e.at = c.at /\ e.todo = RanksOf(c.at)
  BY <1>1, <1>3, <1>4, RollbackMid
<1>6. Result(p, e, bs) = bs BY <1>5, RollbackResult
<1>7. LocalsOK BY KernelTypes
<1>8. PICK d, ts : /\ call' = [call EXCEPT ![p] = d] /\ buf' = [buf EXCEPT ![p] = ts]
                   /\ e.todo # {} => d = e /\ ts = buf[p]
                   /\ e.todo = {} => d = Idle /\ ts = Result(p, e, buf[p])
  <2>1. Continue(p, e) BY <1>3
  <2> QED BY <1>7, <2>1, ContinueCases
<1>9. ts = bs BY <1>4, <1>6, <1>8
<1>10. LocalOK(p, d, ts, life)
  <2>1. CASE e.todo # {} BY <1>1, <1>4, <1>5, <1>8, <1>9, <2>1 DEF LocalOK, CallOK
  <2>2. CASE e.todo = {} BY <1>1, <1>4, <1>8, <1>9, <2>2, IdleOK DEF LocalOK
  <2> QED BY <2>1, <2>2
<1>11. /\ ~Releases(d) /\ d.op # "share" /\ d.op # "get" /\ ~Releases(c) /\ c.op # "share" /\ c.op # "get"
  <2>1. d.op \in {"rollback", "idle"} BY <1>5, <1>8, EmptyFields
  <2>2. d.op \notin {"destroy", "assign", "share", "get"} /\ c.op \notin {"destroy", "assign", "share", "get"}
    BY SMT, <2>1
  <2> QED BY <2>2 DEF Releases
<1>12. Own(p, d, ts) BY <1>11 DEF Own
<1>13. ASSUME NEW b \in Blocks PROVE Renamed(p, c, bs, d, bs, b)
  <2>1. d.at[b[1]] = b[2] <=> c.at[b[1]] = b[2]
    <3>1. CASE e.todo # {} BY <1>5, <1>8, <3>1
    <3>2. CASE e.todo = {}
      <4>1. d.at = NoRegion /\ RanksOf(NoRegion) = {} BY <1>8, <3>2, EmptyFields
      <4> QED BY <1>5, <3>2, <4>1, BlockFacts
    <3> QED BY <3>1, <3>2
  <2>2. Holds(p, d, bs, 0, b) <=> Holds(p, c, bs, 0, b) BY <1>11, <2>1 DEF Holds
  <2> QED BY <1>11, <2>2, CallRenames
<1>14. AllRenamed(p, call[p], buf[p], d, ts) BY <1>4, <1>9, <1>13 DEF AllRenamed
<1>15. SameKernel BY DEF SameKernel
<1> QED BY ZenonT(30), <1>2, <1>8, <1>10, <1>12, <1>14, <1>15, RenameStep

\* One ALLOCATE_MEMORY.
LEMMA AllocateInv ==
  ASSUME Config, Counting, MInv, NEW p \in Procs, AllocateStep(p)
  PROVE  MInv'
<1>1. PICK c, r, a, k, T, d : /\ c = call[p] /\ r = Min(c.todo) /\ a = first_fit(r) /\ k = <<r, a>>
                              /\ T = Drop(c.todo, r) /\ d = [c EXCEPT !.todo = c.todo \ {r}, !.at[r] = a]
  OBVIOUS
<1>2. /\ c.op = "allocate"
      /\ \/ /\ FreeIn(r) # {} /\ used' = used \cup {k}
            /\ desc' = [desc EXCEPT ![file[p]][k] = "local"] /\ Continue(p, d)
         \/ /\ FreeIn(r) # {} /\ used' = used \cup {k}
            /\ Continue(p, Rollback(c)) /\ UNCHANGED desc
         \/ /\ Continue(p, Rollback(c)) /\ UNCHANGED <<used, desc>>
      /\ UNCHANGED <<ref_cnt, life, file, published, tainted, ops, forks, deaths>>
  BY <1>1 DEF AllocateStep
<1>3. Stepped(c, d, T, r, a) BY <1>1 DEF Stepped, Drop
<1>4. CASE /\ FreeIn(r) # {} /\ used' = used \cup {k}
           /\ desc' = [desc EXCEPT ![file[p]][k] = "local"] /\ Continue(p, d)
  <2>1. used' = Add(used, k) /\ Registered(desc, desc', file[p], k, "local")
    BY <1>4 DEF Add, Registered
  <2>2. FreeIn(r) # {} /\ Continue(p, d) BY <1>4
  <2>3. c = call[p] /\ r = Min(c.todo) /\ a = first_fit(r) /\ k = <<r, a>> /\ T = Drop(c.todo, r)
    BY <1>1
  <2>4. c.op = "allocate" /\ UNCHANGED <<ref_cnt, life, file, published, tainted, ops, forks, deaths>>
    BY <1>2
  <2> QED BY <1>3, <2>1, <2>2, <2>3, <2>4, AllocateOne
<1>5. CASE /\ FreeIn(r) # {} /\ used' = used \cup {k} /\ Continue(p, Rollback(c)) /\ UNCHANGED desc
  <2>1. r \in Ranks
    <3>1. c.op # "idle" BY SMT, <1>2
    <3> QED BY <1>1, <3>1, InCall
  <2>2. k \in Blocks BY <1>1, <1>5, <2>1, FirstFit
  <2>3. used \subseteq used' /\ used' \subseteq Blocks BY <1>5, <2>2, KernelTypes
  <2> QED BY <1>1, <1>2, <1>5, <2>3, AllocateFails
<1>6. CASE Continue(p, Rollback(c)) /\ UNCHANGED <<used, desc>>
  <2>1. used \subseteq used' /\ used' \subseteq Blocks BY <1>6, KernelTypes
  <2> QED BY <1>1, <1>2, <1>6, <2>1, AllocateFails
<1> QED BY <1>2, <1>4, <1>5, <1>6

------------------------------------------------------------------------------
(* A shared block is obtained.                                              *)

\* GET_SHARED_ALLOC adds a reference.
LEMMA GetBlock ==
  ASSUME Config, Counting, NEW u, NEW n \in Nat, NEW d \in [Started -> Flags], NEW F, NEW L, NEW hs, NEW ss,
         BlockOK(u, n, d, F, L, hs, ss), n > 0,
         NEW p \in Procs, NEW x, x[1] = p, L[p] = "alive", F[p] \in Started, d[F[p]] = "none"
  PROVE  BlockOK(u, n + 1, [d EXCEPT ![F[p]] = "global"], F, L, hs \cup {x}, ss \cup {x})
<1> DEFINE e == [d EXCEPT ![F[p]] = "global"]
<1>1. F[p] \notin Files(d) BY DEF Files
<1>2. Files(e) = Files(d) \cup {F[p]}
  <2>1. "global" \in Flags \ {"none"} BY SMT DEF Flags
  <2> QED BY <2>1, FilesChange
<1>3. n = Cardinality(Files(d)) BY DEF BlockOK
<1>4. Cardinality(Files(e)) = n + 1 BY <1>1, <1>2, <1>3, FilesCount
<1>5. Files(d) # {} /\ n + 1 > 0 /\ n + 1 # 0 BY SMT, <1>3, FilesCount
<1> HIDE DEF e
<1>6. u BY <1>5 DEF BlockOK
<1>7. \A y \in hs : F[y[1]] # F[p] BY <1>1 DEF BlockOK
<1>8. \A y \in hs \cup {x} :
        L[y[1]] = "alive" /\ F[y[1]] \in Files(e) /\ y \in ss \cup {x}
  BY <1>2 DEF BlockOK
<1>9. ASSUME NEW y \in hs \cup {x}, NEW z \in hs \cup {x}, F[y[1]] = F[z[1]] PROVE y = z
  <2>1. CASE y \in hs /\ z \in hs
    <3>1. \A v, w \in hs : F[v[1]] = F[w[1]] => v = w BY DEF BlockOK
    <3> QED BY <1>9, <2>1, <3>1
  <2>2. CASE y = x \/ z = x BY <1>7, <1>9, <2>2
  <2> QED BY <2>1, <2>2
<1>10. \A f \in Files(e) :
       /\ \E q \in Procs : L[q] = "alive" /\ F[q] = f
       /\ \/ \E q \in Procs : L[q] = "dead" /\ F[q] = f
          \/ \E y \in hs \cup {x} : F[y[1]] = f
  BY ZenonT(30), <1>2 DEF BlockOK
<1> QED BY <1>4, <1>5, <1>6, <1>8, <1>9, <1>10 DEF BlockOK, e

\* An ioctl adds a reference to b.
LEMMA GetHeld ==
  ASSUME Config, Counting, NEW u, NEW n \in Nat, NEW d \in [Started -> Flags], NEW F, NEW L,
         NEW C, NEW B, NEW D, NEW p \in Procs, NEW b \in Blocks,
         Only(p, C, D),
         D[p].op = C[p].op, D[p].slot = C[p].slot, C[p].op # "share",
         C[p].op = "get", D[p].at[b[1]] = b[2], L[p] = "alive", F[p] \in Started,
         n > 0, d[F[p]] = "none",
         BlockOK(u, n, d, F, L, HoldersIn(C, B, b), SharersIn(C, B, b))
  PROVE  BlockOK(u, n + 1, [d EXCEPT ![F[p]] = "global"], F, L, HoldersIn(D, B, b), SharersIn(D, B, b))
<1>1. PICK x : x = <<p, 0>> OBVIOUS
<1>2. x \in Places /\ x[1] = p /\ x[2] = 0 BY <1>1, PlaceOf
<1>3. Shares(p, C[p], B[p], 0, b) BY DEF Shares
<1>4. x \in SharersIn(C, B, b) BY <1>2, <1>3 DEF SharersIn
<1>5. BlockOK(u, n + 1, [d EXCEPT ![F[p]] = "global"], F, L, HoldersIn(C, B, b) \cup {x},
              SharersIn(C, B, b) \cup {x})
  BY <1>2, GetBlock
<1>6. Holds(p, D[p], B[p], 0, b) BY DEF Holds
<1>7. /\ SlotsSame(p, C, D, B, b)
      /\ SharersIn(D, B, b) = SharersIn(C, B, b)
  BY SMT, SameOp
<1>8. HoldersIn(D, B, b) = HoldersIn(C, B, b) \cup {x}
  <2>1. HoldersIn(D, B, b) = Add(HoldersIn(C, B, b), <<p, 0>>) BY <1>6, SameOp DEF HoldersFollow
  <2> QED BY <1>1, <2>1 DEF Add
<1>9. SharersIn(D, B, b) = SharersIn(C, B, b) \cup {x} BY <1>4, <1>7
<1> QED BY <1>5, <1>8, <1>9

\* Reference counts N are reference counts n with m for block k.
Counted(n, N, k, m) == N = [n EXCEPT ![k] = m]

CountsAfter(n, N, k, m) ==
  N \in [Blocks -> Nat] /\ N[k] = m /\ \A b \in Blocks : b # k => N[b] = n[b]

\* Setting the count of a block leaves the other blocks' counts alone.
LEMMA CountsChange ==
  ASSUME NEW n \in [Blocks -> Nat], NEW k \in Blocks, NEW m \in Nat, NEW N, Counted(n, N, k, m)
  PROVE  CountsAfter(n, N, k, m)
BY DEF Counted, CountsAfter

\* The block that a call of GET_SHARED_ALLOC or MAKE_SHARED_ALLOC is about.
LEMMA WantedBlock ==
  ASSUME Config, NEW want \in Regions, NEW r \in Ranks, r \in RanksOf(want), NEW a, a = want[r]
  PROVE  a \in 0 .. NumBlocks /\ a # 0 /\ <<r, a>> \in Blocks
<1>1. a \in 0 .. NumBlocks BY SMT DEF Regions
<1>2. a # 0 BY DEF RanksOf
<1>3. a \in 1 .. NumBlocks BY SMT, <1>1, <1>2 DEF Config
<1> QED BY <1>1, <1>2, <1>3 DEF Blocks

\* GET_SHARED_ALLOC that succeeds.
LEMMA GetOne ==
  ASSUME Config, Counting, MInv, NEW p \in Procs, NEW c, c = call[p], c.op = "get",
         NEW r, r = Min(c.todo), NEW a, a = c.want[r], NEW k, k = <<r, a>>,
         ref_cnt[k] > 0, desc[file[p]][k] = "none",
         NEW T, T = Drop(c.todo, r), NEW d, Stepped(c, d, T, r, a), Continue(p, d),
         Counted(ref_cnt, ref_cnt', k, ref_cnt[k] + 1), Registered(desc, desc', file[p], k, "global"),
         UNCHANGED <<used, life, file, published, tainted, ops, forks, deaths>>
  PROVE  MInv'
<1>0. c.op # "idle" /\ c.op # "share" /\ c.op \in {"allocate", "get"} BY OpNames
<1>1. /\ file[p] \in Started /\ c \in Calls /\ life[p] = "alive" /\ c.want \in Regions
      /\ CallMid(p, c, buf[p], life) /\ r \in Ranks /\ r \in c.todo
  BY <1>0, InCall
<1>2. a \in 0 .. NumBlocks /\ a # 0 /\ k \in Blocks
  <2>1. r \in RanksOf(c.want) BY <1>1 DEF CallMid
  <2> QED BY <1>1, <2>1, WantedBlock
<1>4. PICK bs : bs = buf[p] OBVIOUS
<1>5. SteppedTo(p, c, d, bs, life, T, r, a)
  <2>1. CallMid(p, c, bs, life) BY ZenonT(30), <1>1, <1>4
  <2> QED BY <1>0, <1>1, <1>2, <2>1, ObtainedMid
<1>6. /\ CallMid(p, d, bs, life) /\ d.op = c.op /\ d.slot = c.slot /\ RanksOf(d.at) # {}
      /\ d.op # "idle" /\ d.op # "share" /\ d.op \notin {"rollback", "destroy", "assign"}
  <2>1. /\ CallMid(p, d, bs, life) /\ d.op = c.op /\ d.slot = c.slot /\ RanksOf(d.at) # {}
    BY <1>2, <1>5 DEF SteppedTo
  <2>2. d.op = "get" BY <2>1
  <2> QED BY <2>1, <2>2, OpNames
<1>t. /\ used \subseteq Blocks /\ desc \in [Started -> [Blocks -> Flags]] /\ ref_cnt \in [Blocks -> Nat]
      /\ call \in [Procs -> Calls] /\ buf \in [Procs -> [Slots -> Buffers]]
      /\ LocalsOK /\ ProcsOK /\ KernelOK
  BY KernelTypes
<1>7. CountsAfter(ref_cnt, ref_cnt', k, ref_cnt[k] + 1)
  <2>1. PICK n, N, m : n = ref_cnt /\ N = ref_cnt' /\ m = n[k] + 1 OBVIOUS
  <2>2. n \in [Blocks -> Nat] /\ Counted(n, N, k, m) BY ZenonT(30), <1>t, <2>1
  <2>3. n[k] \in Nat BY <1>2, <2>2
  <2>4. m \in Nat BY <2>1, <2>3, CountCases
  <2>5. CountsAfter(n, N, k, m) BY <1>2, <2>2, <2>4, CountsChange
  <2> QED BY <2>1, <2>5
<1>8. ColumnsAfter(desc, desc', file[p], k, "global")
  <2>1. "global" \in Flags BY DEF Flags
  <2>3. PICK D, E : D = desc /\ E = desc' OBVIOUS
  <2>4. D \in [Started -> [Blocks -> Flags]] /\ Registered(D, E, file[p], k, "global") BY <1>t, <2>3
  <2>5. ColumnsAfter(D, E, file[p], k, "global") BY <1>1, <1>2, <2>1, <2>4, ColumnChange
  <2> QED BY <2>3, <2>5
<1>9. KernelOK' BY <1>t, <1>7, <1>8 DEF KernelOK, ColumnsAfter, CountsAfter
<1>10. ProcsOK' BY <1>t DEF ProcsOK
<1>11. LocalsOK' BY <1>t, <1>4, <1>6, ContinueLocals
<1>12. ASSUME ~tainted PROVE OwnOK' /\ BlocksOK(call)'
  <2>1. OwnOK /\ BlocksOK(call) BY <1>12 DEF MInv
  <2>2. Own(p, d, buf[p]) BY <1>6 DEF Own, Releases
  <2>3. PICK K, C, B : K = call /\ C = [call EXCEPT ![p] = d] /\ B = buf OBVIOUS
  <2>4. C[p] = d /\ K[p] = c /\ Only(p, K, C) BY <1>t, <2>3 DEF Only
  <2>5. /\ C[p].op = K[p].op /\ C[p].slot = K[p].slot /\ K[p].op # "share" /\ K[p].op = "get"
    BY <1>0, <1>6, <2>4
  <2>6. MidBlocks(C)
    <3> SUFFICES ASSUME NEW b \in Blocks
                 PROVE  BlockOK(b \in used', ref_cnt'[b], Column(desc', b), file, life,
                                HoldersIn(C, buf, b), SharersIn(C, buf, b))
      BY DEF MidBlocks
    <3>1. BlockOK(b \in used, ref_cnt[b], Column(desc, b), file, life, HoldersIn(K, B, b), SharersIn(K, B, b))
      BY <2>1, <2>3 DEF BlocksOK
    <3>2. ref_cnt[b] \in Nat /\ (b \in used <=> b \in used') BY <1>t
    <3>3. CASE b = k
      <4>1. b[1] = r /\ b[2] = a BY <3>3, PairParts
      <4>2. C[p].at[b[1]] = b[2] BY <1>5, <2>4, <4>1 DEF SteppedTo
      <4>5. Column(desc, b) \in [Started -> Flags] BY <1>t, ColumnType
      <4>3. Column(desc, b)[file[p]] = "none" BY <1>1, <3>3 DEF Column
      <4>4. ref_cnt[b] > 0 BY <3>3
      <4>6. BlockOK(b \in used, ref_cnt[b] + 1, [Column(desc, b) EXCEPT ![file[p]] = "global"], file, life,
                    HoldersIn(C, B, b), SharersIn(C, B, b))
        BY <1>1, <2>4, <2>5, <3>1, <3>2, <4>2, <4>3, <4>4, <4>5, GetHeld
      <4>7. BlockOK(b \in used', ref_cnt[b] + 1, [Column(desc, b) EXCEPT ![file[p]] = "global"], file, life,
                    HoldersIn(C, B, b), SharersIn(C, B, b))
        BY <3>2, <4>6 DEF BlockOK
      <4> QED BY ZenonT(30), <1>7, <1>8, <2>3, <3>3, <4>7 DEF ColumnsAfter, CountsAfter
    <3>4. CASE b # k
      <4>1. b[1] # r \/ b[2] # a BY <3>4, OtherPair
      <4>2. C[p].at[b[1]] = b[2] <=> K[p].at[b[1]] = b[2]
        <5>1. c.todo \cap RanksOf(c.at) = {} /\ r \in c.todo BY <1>0, <1>1 DEF CallMid
        <5>2. b[1] = r => c.at[b[1]] # b[2] BY <5>1, BlockFacts
        <5>3. b[1] = r => d.at[b[1]] # b[2] BY <1>5, <4>1 DEF SteppedTo
        <5> QED BY <1>5, <2>4, <5>2, <5>3 DEF SteppedTo
      <4>3. BlockOK(b \in used, ref_cnt[b], Column(desc, b), file, life, HoldersIn(C, B, b), SharersIn(C, B, b))
        BY <2>4, <2>5, <3>1, <4>2, OtherBlock
      <4>5. BlockOK(b \in used', ref_cnt[b], Column(desc, b), file, life, HoldersIn(C, B, b), SharersIn(C, B, b))
        BY <3>2, <4>3 DEF BlockOK
      <4> QED BY ZenonT(30), <1>7, <1>8, <2>3, <3>4, <4>5 DEF ColumnsAfter, CountsAfter
    <3> QED BY <3>3, <3>4
  <2>7. MidBlocks([call EXCEPT ![p] = d]) BY <2>3, <2>6
  <2>8. CallMid(p, d, buf[p], life) BY <1>4, <1>6
  <2> QED BY <1>t, <1>6, <2>1, <2>2, <2>7, <2>8, ContinueBlocks
<1> QED BY ZenonT(30), <1>9, <1>10, <1>11, <1>12 DEF MInv

\* A call that ends with an exception; what the call has got so far is lost,
\* unless that is nothing.
LEMMA ThrowInv ==
  ASSUME Config, Counting, MInv, KernelOK', NEW p \in Procs, NEW c, c = call[p], c.op # "idle", ~Releases(c),
         Throw(p), UNCHANGED <<life, file>>,
         ~tainted' => ~tainted /\ SameKernel /\ c.op # "share" /\ c.at = NoRegion
  PROVE  MInv'
<1>1. life[p] = "alive" /\ BuffersOK(p, buf[p], life) BY InCall
<1>2. call' = [call EXCEPT ![p] = Idle] /\ buf' = buf BY DEF Throw
<1>3. LocalOK(p, Idle, buf[p], life) BY <1>1, IdleOK DEF LocalOK
<1>4. buf' = [buf EXCEPT ![p] = buf[p]]
  <2>1. buf \in [Procs -> [Slots -> Buffers]] BY KernelTypes
  <2> QED BY SMT, <1>2, <2>1
<1>5. ~Releases(Idle) /\ Idle.op # "share"
  <2>1. "idle" \notin {"destroy", "assign"} /\ "idle" # "share" BY SMT
  <2> QED BY <2>1, EmptyFields DEF Releases
<1>6. Own(p, Idle, buf[p]) BY <1>5 DEF Own
<1>7. PICK bs : bs = buf[p] OBVIOUS
<1>8. ASSUME NEW b \in Blocks, ~tainted' PROVE Renamed(p, c, bs, Idle, bs, b)
  <2>1. RanksOf(NoRegion) = {} /\ c.at = NoRegion BY <1>8, EmptyFields
  <2>2. c.at[b[1]] # b[2] BY <2>1, BlockFacts
  <2>3. ~Holds(p, Idle, bs, 0, b) /\ ~Holds(p, c, bs, 0, b) BY <2>2, IdleHolds DEF Holds
  <2> QED BY <1>5, <1>8, <2>3, CallRenames
<1>9. ~tainted' => AllRenamed(p, call[p], buf[p], Idle, buf[p]) BY <1>7, <1>8 DEF AllRenamed
<1> QED BY <1>2, <1>3, <1>4, <1>6, <1>9, RenameStep

\* One GET_SHARED_ALLOC.
LEMMA GetInv ==
  ASSUME Config, Counting, MInv, NEW p \in Procs, GetStep(p)
  PROVE  MInv'
<1>1. PICK c, r, a, k, T, d : /\ c = call[p] /\ r = Min(c.todo) /\ a = c.want[r] /\ k = <<r, a>>
                              /\ T = Drop(c.todo, r) /\ d = [c EXCEPT !.todo = c.todo \ {r}, !.at[r] = k[2]]
  OBVIOUS
<1>2. /\ c.op = "get"
      /\ \/ /\ ref_cnt[k] > 0 /\ desc[file[p]][k] = "none"
            /\ ref_cnt' = [ref_cnt EXCEPT ![k] = ref_cnt[k] + 1]
            /\ desc' = [desc EXCEPT ![file[p]][k] = "global"] /\ Continue(p, d) /\ UNCHANGED tainted
         \/ /\ ref_cnt' = [ref_cnt EXCEPT ![k] = ref_cnt[k] + 1]
            /\ Throw(p) /\ Taint(TRUE) /\ UNCHANGED desc
         \/ Throw(p) /\ Taint(c.at # NoRegion) /\ UNCHANGED <<ref_cnt, desc>>
      /\ UNCHANGED <<used, life, file, published, ops, forks, deaths>>
  BY <1>1 DEF GetStep
<1>3. /\ c = call[p] /\ r = Min(c.todo) /\ a = c.want[r] /\ k = <<r, a>> /\ T = Drop(c.todo, r)
      /\ c.op = "get" /\ c.op # "idle" /\ c.op # "share" /\ ~Releases(c)
  <2>1. c.op \notin {"idle", "share", "destroy", "assign"} BY SMT, <1>2
  <2> QED BY <1>1, <1>2, <2>1 DEF Releases
<1>4. Stepped(c, d, T, r, a)
  <2>1. k[2] = a BY SMT, <1>3
  <2> QED BY <1>1, <2>1 DEF Stepped, Drop
<1>5. k \in Blocks
  <2>1. c.want \in Regions /\ r \in Ranks /\ r \in RanksOf(c.want) BY <1>3, InCall DEF CallMid
  <2> QED BY <1>3, <2>1, WantedBlock
<1>6. CASE /\ ref_cnt[k] > 0 /\ desc[file[p]][k] = "none"
           /\ ref_cnt' = [ref_cnt EXCEPT ![k] = ref_cnt[k] + 1]
           /\ desc' = [desc EXCEPT ![file[p]][k] = "global"] /\ Continue(p, d) /\ UNCHANGED tainted
  <2>1. Counted(ref_cnt, ref_cnt', k, ref_cnt[k] + 1) /\ Registered(desc, desc', file[p], k, "global")
    BY <1>6 DEF Counted, Registered
  <2>2. ref_cnt[k] > 0 /\ desc[file[p]][k] = "none" /\ Continue(p, d) BY <1>6
  <2>3. UNCHANGED <<used, life, file, published, tainted, ops, forks, deaths>> BY <1>2, <1>6
  <2> QED BY <1>3, <1>4, <2>1, <2>2, <2>3, GetOne
<1>7. CASE /\ ref_cnt' = [ref_cnt EXCEPT ![k] = ref_cnt[k] + 1] /\ Throw(p) /\ Taint(TRUE) /\ UNCHANGED desc
  <2>1. ref_cnt' \in [Blocks -> Nat]
    <3>1. PICK n, m : n = ref_cnt /\ m = n[k] + 1 OBVIOUS
    <3>2. n \in [Blocks -> Nat] /\ ref_cnt' = [n EXCEPT ![k] = m] BY <1>7, <3>1, KernelTypes
    <3>3. n[k] \in Nat BY <1>5, <3>2
    <3>4. m \in Nat BY <3>1, <3>3, CountCases
    <3> QED BY <3>2, <3>4
  <2>2. tainted' = TRUE BY <1>7 DEF Taint
  <2>3. tainted' \in BOOLEAN /\ tainted' BY SMT, <2>2
  <2>4. KernelOK' BY <1>2, <1>7, <2>1, <2>3, KernelTypes DEF KernelOK
  <2>5. Throw(p) /\ UNCHANGED <<life, file>> BY <1>2, <1>7
  <2> QED BY <1>3, <2>3, <2>4, <2>5, ThrowInv
<1>8. CASE Throw(p) /\ Taint(c.at # NoRegion) /\ UNCHANGED <<ref_cnt, desc>>
  <2>1. tainted' = (tainted \/ c.at # NoRegion) BY <1>8 DEF Taint
  <2>2. tainted' \in BOOLEAN /\ (~tainted' => ~tainted /\ c.at = NoRegion)
    <3>1. tainted \in BOOLEAN BY KernelTypes DEF KernelOK
    <3> QED BY <2>1, <3>1
  <2>3. KernelOK' BY <1>2, <1>8, <2>2, KernelTypes DEF KernelOK
  <2>4. SameKernel BY <1>2, <1>8 DEF SameKernel
  <2>5. Throw(p) /\ UNCHANGED <<life, file>> BY <1>2, <1>8
  <2> QED BY <1>3, <2>2, <2>3, <2>4, <2>5, ThrowInv
<1> QED BY <1>2, <1>6, <1>7, <1>8

------------------------------------------------------------------------------
(* A block is shared.                                                       *)

\* MAKE_SHARED_ALLOC by the holder of a block that is not shared.
LEMMA ShareBlock ==
  ASSUME Config, Counting, NEW u, NEW d \in [Started -> Flags], NEW F, NEW L, NEW hs, NEW ss,
         BlockOK(u, 0, d, F, L, hs, ss), NEW x \in hs
  PROVE  BlockOK(u, 1, d, F, L, hs, ss \cup {x})
<1>1. F[x[1]] \in Files(d) BY DEF BlockOK
<1>2. \A f, g \in Files(d) : f = g BY DEF BlockOK
<1>3. Files(d) = {F[x[1]]} BY <1>1, <1>2
<1>4. Cardinality(Files(d)) = 1 BY <1>3, FilesCount
<1>5. hs = {x}
  <2>1. ASSUME NEW y \in hs PROVE y = x
    <3>1. F[y[1]] \in Files(d) BY DEF BlockOK
    <3>2. F[y[1]] = F[x[1]] BY <1>1, <1>2, <3>1
    <3>3. \A v, w \in hs : F[v[1]] = F[w[1]] => v = w BY DEF BlockOK
    <3> QED BY <3>2, <3>3
  <2> QED BY <2>1
<1>6. 1 > 0 /\ 1 # 0 BY SMT
<1>7. Files(d) # {} => u BY DEF BlockOK
<1>8. \A y \in hs : L[y[1]] = "alive" /\ F[y[1]] \in Files(d) /\ y \in ss \cup {x}
  BY <1>5 DEF BlockOK
<1> QED BY <1>4, <1>5, <1>6, <1>7, <1>8 DEF BlockOK

\* Only what the holders know about a block matters.
LEMMA SameKnowledge ==
  ASSUME NEW u, NEW n, NEW d, NEW F, NEW L, NEW hs, NEW ss, NEW ts,
         BlockOK(u, n, d, F, L, hs, ss), \A x \in hs : x \in ss <=> x \in ts
  PROVE  BlockOK(u, n, d, F, L, hs, ts)
BY DEF BlockOK

\* A step of a sharing call that goes through rank r: who holds b stays, and only
\* the buffer that is shared knows more about b.
SharedMore(p, C, D, B, t, r, b) ==
  /\ \A h \in Slots \cup {0} : Holds(p, D[p], B[p], h, b) <=> Holds(p, C[p], B[p], h, b)
  /\ ~Holds(p, C[p], B[p], 0, b)
  /\ \A h \in Slots : h # t => (Shares(p, D[p], B[p], h, b) <=> Shares(p, C[p], B[p], h, b))
  /\ b[1] # r => (Shares(p, D[p], B[p], t, b) <=> Shares(p, C[p], B[p], t, b))
  /\ b[1] = r => Shares(p, D[p], B[p], t, b)
  /\ Holds(p, C[p], B[p], t, b) <=> B[p][t].maker = p /\ B[p][t].at[b[1]] = b[2]

\* That is what a sharing call does.
LEMMA SharingStep ==
  ASSUME Config, NEW C, NEW B, NEW D, NEW p \in Procs, NEW t \in Slots, NEW r, NEW b \in Blocks,
         Only(p, C, D), C[p].op = "share", D[p].op = "share", C[p].slot = t, D[p].slot = t,
         D[p].todo = Drop(C[p].todo, r)
  PROVE  SharedMore(p, C, D, B, t, r, b)
<1>0. PICK c, d, bs : c = C[p] /\ d = D[p] /\ bs = B[p] OBVIOUS
<1>1. ~Releases(c) /\ ~Releases(d) BY SMT, <1>0 DEF Releases
<1>2. /\ c.op = "share" /\ d.op = "share" /\ c.slot = t /\ d.slot = t /\ d.todo = c.todo \ {r}
  BY <1>0 DEF Drop
<1>3. t # 0 /\ \A h \in Slots : h # 0 BY SlotsNotZero
<1>4. ASSUME NEW h \in Slots
      PROVE  /\ Holds(p, d, bs, h, b) <=> Holds(p, c, bs, h, b)
             /\ Holds(p, c, bs, h, b) <=> bs[h].maker = p /\ bs[h].at[b[1]] = b[2]
  BY <1>1, <1>3 DEF Holds
<1>5. ~Holds(p, c, bs, 0, b) /\ ~Holds(p, d, bs, 0, b) BY <1>2 DEF Holds
<1>6. ASSUME NEW h \in Slots, h # t PROVE Shares(p, d, bs, h, b) <=> Shares(p, c, bs, h, b)
  BY <1>2, <1>3, <1>6 DEF Shares
<1>7. b[1] # r => (Shares(p, d, bs, t, b) <=> Shares(p, c, bs, t, b))
  BY <1>2, <1>3 DEF Shares
<1>8. b[1] = r => Shares(p, d, bs, t, b)
  BY SMT, <1>2, <1>3 DEF Shares
<1>9. /\ \A h \in Slots \cup {0} : Holds(p, d, bs, h, b) <=> Holds(p, c, bs, h, b)
      /\ ~Holds(p, c, bs, 0, b)
      /\ \A h \in Slots : h # t => (Shares(p, d, bs, h, b) <=> Shares(p, c, bs, h, b))
      /\ Holds(p, c, bs, t, b) <=> bs[t].maker = p /\ bs[t].at[b[1]] = b[2]
  BY <1>4, <1>5, <1>6
<1> QED BY <1>0, <1>7, <1>8, <1>9 DEF SharedMore

\* The block that is shared.
LEMMA ShareHeld ==
  ASSUME Config, Counting, NEW u, NEW d \in [Started -> Flags], NEW F, NEW L,
         NEW C, NEW B, NEW D, NEW p \in Procs, NEW t \in Slots, NEW r, NEW b \in Blocks,
         Only(p, C, D), C[p].op = "share", D[p].op = "share", C[p].slot = t, D[p].slot = t,
         D[p].todo = Drop(C[p].todo, r),
         b[1] = r, B[p][t].maker = p, B[p][t].at[b[1]] = b[2],
         BlockOK(u, 0, d, F, L, HoldersIn(C, B, b), SharersIn(C, B, b))
  PROVE  BlockOK(u, 1, d, F, L, HoldersIn(D, B, b), SharersIn(D, B, b))
<1>0. /\ \A h \in Slots \cup {0} : Holds(p, D[p], B[p], h, b) <=> Holds(p, C[p], B[p], h, b)
      /\ ~Holds(p, C[p], B[p], 0, b)
      /\ \A h \in Slots : h # t => (Shares(p, D[p], B[p], h, b) <=> Shares(p, C[p], B[p], h, b))
      /\ Shares(p, D[p], B[p], t, b) /\ Holds(p, C[p], B[p], t, b)
  <2>1. SharedMore(p, C, D, B, t, r, b) BY SharingStep
  <2> QED BY <2>1 DEF SharedMore
<1>1. PICK x : x = <<p, t>> OBVIOUS
<1>2. x \in Places /\ x[1] = p /\ x[2] = t BY <1>1, PlaceOf
<1>3. x \in HoldersIn(C, B, b) BY <1>0, <1>2 DEF HoldersIn
<1>4. BlockOK(u, 1, d, F, L, HoldersIn(C, B, b), SharersIn(C, B, b) \cup {x})
  BY <1>3, ShareBlock
<1>5. ASSUME NEW y \in Places
      PROVE  /\ y \in HoldersIn(D, B, b) <=> y \in HoldersIn(C, B, b)
             /\ y \in HoldersIn(C, B, b) =>
                  (y \in SharersIn(C, B, b) \cup {x} <=> y \in SharersIn(D, B, b))
  <2>1. PICK q \in Procs, h \in Slots \cup {0} : q = y[1] /\ h = y[2] /\ y = <<q, h>> BY SMT, PlaceParts
  <2>2. /\ y \in HoldersIn(D, B, b) <=> Holds(q, D[q], B[q], h, b)
        /\ y \in SharersIn(D, B, b) <=> Shares(q, D[q], B[q], h, b)
        /\ y \in HoldersIn(C, B, b) <=> Holds(q, C[q], B[q], h, b)
        /\ y \in SharersIn(C, B, b) <=> Shares(q, C[q], B[q], h, b)
    BY <2>1 DEF HoldersIn, SharersIn
  <2>3. CASE q = p /\ h = t
    <3>1. y = x BY <1>1, <2>1, <2>3
    <3> QED BY <1>0, <2>2, <2>3, <3>1
  <2>4. CASE q # p
    <3>1. D[q] = C[q] BY <2>4 DEF Only
    <3>2. y # x BY <1>2, <2>1, <2>4
    <3> QED BY <2>2, <3>1, <3>2
  <2>5. CASE q = p /\ h # t
    <3>1. y # x BY <1>2, <2>1, <2>5
    <3>2. h = 0 \/ h \in Slots OBVIOUS
    <3> QED BY <1>0, <2>2, <2>5, <3>1, <3>2
  <2> QED BY <2>3, <2>4, <2>5
<1>6. HoldersIn(D, B, b) = HoldersIn(C, B, b) BY <1>5 DEF HoldersIn
<1>7. \A y \in HoldersIn(C, B, b) : y \in SharersIn(C, B, b) \cup {x} <=> y \in SharersIn(D, B, b)
  BY <1>5 DEF HoldersIn
<1>8. BlockOK(u, 1, d, F, L, HoldersIn(C, B, b), SharersIn(D, B, b)) BY <1>4, <1>7, SameKnowledge
<1> QED BY <1>6, <1>8

\* Region at has another block, or none, in rank r.
NotIn(at, r, b) == b[1] = r => at[b[1]] # b[2]

\* Any other block.
LEMMA ShareOther ==
  ASSUME Config, NEW u, NEW n, NEW d, NEW F, NEW L,
         NEW C, NEW B, NEW D, NEW p \in Procs, NEW t \in Slots, NEW r, NEW b \in Blocks,
         Only(p, C, D), C[p].op = "share", D[p].op = "share", C[p].slot = t, D[p].slot = t,
         D[p].todo = Drop(C[p].todo, r),
         NotIn(B[p][t].at, r, b),
         BlockOK(u, n, d, F, L, HoldersIn(C, B, b), SharersIn(C, B, b))
  PROVE  BlockOK(u, n, d, F, L, HoldersIn(D, B, b), SharersIn(D, B, b))
<1>0. /\ \A h \in Slots \cup {0} : Holds(p, D[p], B[p], h, b) <=> Holds(p, C[p], B[p], h, b)
      /\ ~Holds(p, C[p], B[p], 0, b)
      /\ \A h \in Slots : h # t => (Shares(p, D[p], B[p], h, b) <=> Shares(p, C[p], B[p], h, b))
      /\ b[1] # r => (Shares(p, D[p], B[p], t, b) <=> Shares(p, C[p], B[p], t, b))
      /\ b[1] = r => ~Holds(p, C[p], B[p], t, b)
  <2>1. SharedMore(p, C, D, B, t, r, b) BY SharingStep
  <2> QED BY <2>1 DEF SharedMore, NotIn
<1>1. \A h \in Slots \cup {0} :
        /\ Holds(p, D[p], B[p], h, b) <=> Holds(p, C[p], B[p], h, b)
        /\ Holds(p, D[p], B[p], h, b) => (Shares(p, D[p], B[p], h, b) <=> Shares(p, C[p], B[p], h, b))
  BY <1>0
<1>2. Only(p, B, B) BY DEF Only
<1>3. Renamed(p, C[p], B[p], D[p], B[p], b) BY <1>1, SameRenamed
<1> QED BY <1>2, <1>3, RenamedBlock

\* Process p is in the sharing call c, which is about block k.
Sharing(p, c, r, a, k) ==
  c = call[p] /\ c.op = "share" /\ r = Min(c.todo) /\ a = c.want[r] /\ k = <<r, a>>

\* A sharing call: its buffer v and the block it is about.
SharesBlock(p, c, r, k, v) ==
  /\ life[p] = "alive" /\ file[p] \in Started /\ c.slot \in Slots
  /\ c.want \in Regions /\ c.want = v.at /\ RanksOf(c.want) # {}
  /\ CallMid(p, c, buf[p], life) /\ r \in c.todo /\ r \in Ranks /\ k \in Blocks
  /\ (v.maker = p => ~v.global)

\* It is a call on a buffer whose blocks are not shared yet.
LEMMA SharingCall ==
  ASSUME Config, Counting, MInv, NEW p \in Procs, NEW c, NEW r, NEW a, NEW k, Sharing(p, c, r, a, k)
  PROVE  SharesBlock(p, c, r, k, buf[p][c.slot])
<1>v. PICK v : v = buf[p][c.slot] OBVIOUS
<1> USE DEF Sharing
<1>0. c.op # "idle" BY SMT
<1>1. /\ life[p] = "alive" /\ file[p] \in Started /\ c \in Calls /\ c.slot \in Slots
      /\ c.todo \in SUBSET Ranks /\ c.want \in Regions /\ CallMid(p, c, buf[p], life)
      /\ BuffersOK(p, buf[p], life) /\ r \in c.todo /\ r \in Ranks
  BY <1>0, InCall
<1>2. v # Empty /\ ~v.is_global /\ c.want = v.at /\ c.todo \subseteq RanksOf(c.want)
  BY <1>v, <1>1 DEF CallMid
<1>3. BufferOK(p, v, life) BY <1>v, <1>1 DEF BuffersOK
<1>4. RanksOf(c.want) # {} BY ZenonT(30), <1>2, <1>3 DEF BufferOK
<1>5. v.maker = p => ~v.global
  <2>1. v.maker = p => v.is_global = v.global BY <1>3 DEF BufferOK
  <2> QED BY SMT, <1>2, <2>1
<1>6. r \in RanksOf(c.want) BY <1>1, <1>2
<1>7. k \in Blocks /\ a # 0 BY <1>1, <1>6, WantedBlock
<1>8. SharesBlock(p, c, r, k, v) BY <1>1, <1>2, <1>4, <1>5, <1>7 DEF SharesBlock
<1> QED BY <1>v, <1>8

\* Call d is call c with ranks T left.
Remaining(c, d, T) == d = [c EXCEPT !.todo = T]

Fewer(c, d, T) == T \in SUBSET c.todo /\ Remaining(c, d, T)

ShareMid(p, c, bs, L) == CallMid(p, c, bs, L) /\ c.op = "share"

ShareLeft(c, d, T) == d.slot = c.slot /\ d.todo = T

\* A sharing call after one of its ioctls.
LEMMA SharedMid ==
  ASSUME NEW p, NEW c, NEW bs, NEW L, NEW T, NEW d, ShareMid(p, c, bs, L), Fewer(c, d, T)
  PROVE  ShareMid(p, d, bs, L) /\ ShareLeft(c, d, T)
<1> USE DEF Fewer, ShareMid
<1>0. c \in Calls BY DEF CallMid
<1>2. c.todo \in SUBSET Ranks BY <1>0, CallFields
<1>3. T \in SUBSET Ranks BY <1>2
<1>4. d \in Calls /\ d.op = "share" /\ d.slot = c.slot /\ d.todo = T /\ d.want = c.want
  BY SMT, <1>0, <1>3 DEF Calls, Remaining
<1>5. d.op \notin {"idle", "allocate", "get", "rollback", "destroy", "assign"} BY SMT, <1>4
<1>6. d.op # "idle" /\ d.op \notin {"allocate", "get", "rollback"} /\ d.op \notin {"allocate", "get"}
      /\ d.op # "get" /\ ~Releases(d) /\ d.op # "assign"
  BY <1>5 DEF Releases
<1>7. c.op # "idle" BY SMT
<1>8. L[p] = "alive" /\ c.slot \in Slots /\ bs[c.slot] # Empty /\ ~bs[c.slot].is_global
      /\ c.want = bs[c.slot].at /\ c.todo \subseteq RanksOf(c.want)
  BY <1>7 DEF CallMid
<1>9. d.todo \subseteq RanksOf(d.want) BY <1>4, <1>8
<1>10. CallMid(p, d, bs, L) BY <1>4, <1>6, <1>8, <1>9 DEF CallMid
<1> QED BY <1>4, <1>10 DEF ShareLeft

\* MAKE_SHARED_ALLOC that succeeds.
LEMMA ShareOne ==
  ASSUME Config, Counting, MInv, NEW p \in Procs, NEW c, NEW r, NEW a, NEW k, Sharing(p, c, r, a, k), ref_cnt[k] = 0,
         NEW d, Remaining(c, d, Drop(c.todo, r)), Continue(p, d),
         Counted(ref_cnt, ref_cnt', k, 1), published' \in {published, Add(published, c.want)},
         UNCHANGED <<used, desc, life, file, tainted, ops, forks, deaths>>
  PROVE  MInv'
<1>1. PICK v, t : t = c.slot /\ v = buf[p][c.slot] BY ZenonT(30)
<1>2. /\ life[p] = "alive" /\ file[p] \in Started /\ t \in Slots
      /\ c.want \in Regions /\ c.want = v.at /\ RanksOf(c.want) # {}
      /\ CallMid(p, c, buf[p], life) /\ r \in c.todo /\ r \in Ranks /\ k \in Blocks
  <2>1. SharesBlock(p, c, r, k, buf[p][c.slot]) BY SharingCall
  <2> QED BY <1>1, <2>1 DEF SharesBlock
<1>s. c = call[p] /\ c.op = "share" /\ a = c.want[r] /\ k = <<r, a>> BY DEF Sharing
<1>3. PICK bs : bs = buf[p] BY ZenonT(30)
<1>4. CallMid(p, d, bs, life) /\ d.op = "share" /\ d.slot = t /\ d.todo = Drop(c.todo, r)
  <2>1. ShareMid(p, c, bs, life) BY <1>s, <1>2, <1>3 DEF ShareMid
  <2>2. PICK T : T = Drop(c.todo, r) OBVIOUS
  <2>3. Fewer(c, d, T) BY <2>2 DEF Drop, Fewer
  <2>4. ShareMid(p, d, bs, life) /\ ShareLeft(c, d, T) BY <2>1, <2>3, SharedMid
  <2> QED BY <1>1, <2>2, <2>4 DEF ShareMid, ShareLeft
<1>5. d.op # "idle" /\ d.op \notin {"allocate", "get"} /\ d.op \notin {"rollback", "destroy", "assign"} BY <1>4
<1>t. /\ used \subseteq Blocks /\ desc \in [Started -> [Blocks -> Flags]] /\ ref_cnt \in [Blocks -> Nat]
      /\ call \in [Procs -> Calls] /\ buf \in [Procs -> [Slots -> Buffers]]
      /\ LocalsOK /\ ProcsOK /\ KernelOK
  BY KernelTypes
<1>7. CountsAfter(ref_cnt, ref_cnt', k, 1)
  <2>1. PICK n, N, m : n = ref_cnt /\ N = ref_cnt' /\ m = 1 OBVIOUS
  <2>2. n \in [Blocks -> Nat] /\ Counted(n, N, k, m) BY <1>t, <2>1
  <2>3. m \in Nat BY SMT, <2>1
  <2>4. CountsAfter(n, N, k, m) BY <1>2, <2>2, <2>3, CountsChange
  <2> QED BY <2>1, <2>4
<1>8. published' \subseteq Regions /\ \A at \in published' : RanksOf(at) # {}
  BY <1>t, <1>2 DEF KernelOK, Add
<1>9. KernelOK' BY <1>t, <1>7, <1>8 DEF KernelOK, CountsAfter
<1>10. ProcsOK' BY <1>t DEF ProcsOK
<1>11. LocalsOK' BY <1>t, <1>3, <1>4, <1>5, ContinueLocals
<1>12. ASSUME ~tainted PROVE OwnOK' /\ BlocksOK(call)'
  <2>1. OwnOK /\ BlocksOK(call) BY <1>12 DEF MInv
  <2>m. v.maker = p
    <3>1. Own(p, c, buf[p]) BY <1>s, <2>1 DEF OwnOK
    <3> QED BY <1>s, <1>1, <3>1 DEF Own
  <2>2. Own(p, d, buf[p]) BY <1>1, <1>4, <2>m DEF Own
  <2>3. PICK K, C, B : K = call /\ C = [call EXCEPT ![p] = d] /\ B = buf OBVIOUS
  <2>4. C[p] = d /\ K[p] = c /\ Only(p, K, C) /\ B[p][t] = v BY <1>s, <1>t, <1>1, <2>3 DEF Only
  <2>5. /\ K[p].op = "share" /\ C[p].op = "share" /\ K[p].slot = t /\ C[p].slot = t
        /\ C[p].todo = Drop(K[p].todo, r)
    BY <1>s, <1>1, <1>4, <2>4
  <2>6. MidBlocks(C)
    <3> SUFFICES ASSUME NEW b \in Blocks
                 PROVE  BlockOK(b \in used', ref_cnt'[b], Column(desc', b), file, life,
                                HoldersIn(C, buf, b), SharersIn(C, buf, b))
      BY DEF MidBlocks
    <3>1. BlockOK(b \in used, ref_cnt[b], Column(desc, b), file, life, HoldersIn(K, B, b), SharersIn(K, B, b))
      BY <2>1, <2>3 DEF BlocksOK
    <3>2. b \in used <=> b \in used' OBVIOUS
    <3>3. CASE b = k
      <4>1. b[1] = r /\ b[2] = a BY <1>s, <3>3, PairParts
      <4>2. B[p][t].maker = p /\ B[p][t].at[b[1]] = b[2] BY <1>s, <1>2, <2>m, <2>4, <4>1
      <4>3. Column(desc, b) \in [Started -> Flags] BY <1>t, ColumnType
      <4>4. BlockOK(b \in used, 0, Column(desc, b), file, life, HoldersIn(K, B, b), SharersIn(K, B, b))
        BY <3>1, <3>3
      <4>5. BlockOK(b \in used, 1, Column(desc, b), file, life, HoldersIn(C, B, b), SharersIn(C, B, b))
        BY <1>2, <2>4, <2>5, <4>1, <4>2, <4>3, <4>4, ShareHeld
      <4>6. BlockOK(b \in used', 1, Column(desc, b), file, life, HoldersIn(C, B, b), SharersIn(C, B, b))
        BY <3>2, <4>5 DEF BlockOK
      <4> QED BY ZenonT(30), <1>7, <2>3, <3>3, <4>6 DEF CountsAfter
    <3>4. CASE b # k
      <4>1. b[1] # r \/ b[2] # a BY <1>s, <3>4, OtherPair
      <4>2. NotIn(B[p][t].at, r, b) BY <1>s, <1>2, <2>4, <4>1 DEF NotIn
      <4>3. BlockOK(b \in used, ref_cnt[b], Column(desc, b), file, life, HoldersIn(C, B, b), SharersIn(C, B, b))
        BY <1>2, <2>4, <2>5, <3>1, <4>2, ShareOther
      <4>5. BlockOK(b \in used', ref_cnt[b], Column(desc, b), file, life, HoldersIn(C, B, b), SharersIn(C, B, b))
        BY <3>2, <4>3 DEF BlockOK
      <4> QED BY ZenonT(30), <1>7, <2>3, <3>4, <4>5 DEF CountsAfter
    <3> QED BY <3>3, <3>4
  <2>7. MidBlocks([call EXCEPT ![p] = d]) BY <2>3, <2>6
  <2>8. CallMid(p, d, buf[p], life) BY <1>3, <1>4
  <2> QED BY <1>t, <1>5, <2>1, <2>2, <2>7, <2>8, ContinueBlocks
<1> QED BY <1>9, <1>10, <1>11, <1>12 DEF MInv

\* The blocks of a buffer that its maker is about to share have no entry.
LEMMA NotYetShared ==
  ASSUME Config, Counting, MInv, ~tainted, NEW p \in Procs, NEW c, NEW r, NEW a, NEW k, Sharing(p, c, r, a, k)
  PROVE  ~(ref_cnt[k] > 0)
<1>1. PICK v, t, bs : t = c.slot /\ v = buf[p][c.slot] /\ bs = buf[p] OBVIOUS
<1>2. /\ t \in Slots /\ c.want = v.at /\ r \in c.todo /\ k \in Blocks
      /\ (v.maker = p => ~v.global)
  <2>1. SharesBlock(p, c, r, k, buf[p][c.slot]) BY SharingCall
  <2> QED BY <1>1, <2>1 DEF SharesBlock
<1> USE DEF Sharing
<1>3. OwnOK /\ BlocksOK(call) BY DEF MInv
<1>4. v.maker = p
  <2>1. Own(p, c, buf[p]) BY <1>3 DEF OwnOK
  <2> QED BY <1>1, <2>1 DEF Own
<1>5. BlockOK(k \in used, ref_cnt[k], Column(desc, k), file, life, HoldersIn(call, buf, k), SharersIn(call, buf, k))
  BY <1>2, <1>3 DEF BlocksOK
<1>6. k[1] = r /\ k[2] = a BY SMT
<1>7. bs[t] = v /\ c.slot = t BY <1>1
<1>8. ~Releases(c)
  <2>1. c.op \notin {"destroy", "assign"} BY SMT
  <2> QED BY <2>1 DEF Releases
<1>9. t # 0 BY <1>2, SlotsNotZero
<1>10. Holds(p, c, bs, t, k)
  <2>1. bs[t].maker = p /\ bs[t].at[k[1]] = k[2] BY <1>2, <1>4, <1>6, <1>7
  <2> QED BY <1>8, <1>9, <2>1 DEF Holds
<1>11. ~Shares(p, c, bs, t, k)
  <2>1. ~bs[t].global /\ k[1] \in c.todo BY <1>2, <1>4, <1>6, <1>7
  <2> QED BY <1>9, <2>1 DEF Shares
<1>x. PICK x : x = <<p, t>> OBVIOUS
<1>12. x \in Places /\ x[1] = p /\ x[2] = t BY <1>2, <1>x, PlaceOf
<1>13. x \in HoldersIn(call, buf, k) BY <1>1, <1>10, <1>12 DEF HoldersIn
<1>14. x \notin SharersIn(call, buf, k) BY <1>1, <1>11, <1>12 DEF SharersIn
<1> QED BY ZenonT(30), <1>5, <1>13, <1>14 DEF BlockOK

\* One MAKE_SHARED_ALLOC.
LEMMA ShareInv ==
  ASSUME Config, Counting, MInv, NEW p \in Procs, ShareStep(p)
  PROVE  MInv'
<1>1. PICK c, r, a, k, d : /\ c = call[p] /\ r = Min(c.todo) /\ a = c.want[r] /\ k = <<r, a>>
                           /\ d = [c EXCEPT !.todo = c.todo \ {r}]
  OBVIOUS
<1>2. /\ c.op = "share"
      /\ \/ /\ ref_cnt[k] = 0 /\ ref_cnt' = [ref_cnt EXCEPT ![k] = 1] /\ Continue(p, d)
            /\ published' = IF c.todo = {r} THEN published \cup {c.want} ELSE published
         \/ ref_cnt[k] > 0 /\ Throw(p) /\ UNCHANGED <<ref_cnt, published>>
      /\ UNCHANGED <<used, desc, life, file, tainted, ops, forks, deaths>>
  BY <1>1 DEF ShareStep
<1>3. c = call[p] /\ c.op # "idle" /\ ~Releases(c)
  <2>1. c.op \notin {"idle", "destroy", "assign"} BY SMT, <1>2
  <2> QED BY <1>1, <1>2, <2>1 DEF Releases
<1>4. Remaining(c, d, Drop(c.todo, r)) /\ Sharing(p, c, r, a, k) BY <1>1, <1>2 DEF Remaining, Drop, Sharing
<1>6. CASE /\ ref_cnt[k] = 0 /\ ref_cnt' = [ref_cnt EXCEPT ![k] = 1] /\ Continue(p, d)
           /\ published' = IF c.todo = {r} THEN published \cup {c.want} ELSE published
  <2>1. Counted(ref_cnt, ref_cnt', k, 1) BY <1>6 DEF Counted
  <2>2. ref_cnt[k] = 0 /\ Continue(p, d) BY <1>6
  <2>3. published' \in {published, Add(published, c.want)} BY <1>6 DEF Add
  <2>4. UNCHANGED <<used, desc, life, file, tainted, ops, forks, deaths>> BY <1>2
  <2> QED BY <1>4, <2>1, <2>2, <2>3, <2>4, ShareOne
<1>7. CASE ref_cnt[k] > 0 /\ Throw(p) /\ UNCHANGED <<ref_cnt, published>>
  <2>1. KernelOK' BY <1>2, <1>7, KernelTypes DEF KernelOK
  <2>2. tainted
    <3>1. ref_cnt[k] > 0 BY <1>7
    <3> QED BY <1>4, <3>1, NotYetShared
  <2>3. tainted' BY <1>2, <2>2
  <2>4. Throw(p) /\ UNCHANGED <<life, file>> BY <1>2, <1>7
  <2>5. c = call[p] /\ c.op # "idle" /\ ~Releases(c) BY <1>3
  <2> QED BY <2>1, <2>3, <2>4, <2>5, ThrowInv
<1> QED BY <1>2, <1>6, <1>7
==============================================================================
