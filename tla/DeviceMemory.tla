---------------------------- MODULE DeviceMemory ----------------------------
(***************************************************************************)
(* Device memory: Buffer, RankedAllocator and the driver's pools, per-file *)
(* allocation descriptors and shared entries.  A process runs one buffer   *)
(* operation at a time; an operation on a region of several ranks is one   *)
(* ioctl per rank, and other processes run in between.                     *)
(*                                                                         *)
(* A rank's pool has NumBlocks blocks of one size; a region has at most    *)
(* one block in each rank, address 0 standing for the default-constructed  *)
(* SequentialRegion.  What is stored in the memory is left out.            *)
(***************************************************************************)
EXTENDS Integers, FiniteSets, FiniteSetsExt

CONSTANTS Procs,      \* processes
          Started,    \* those that open the device themselves; the others are forked
          NoProc,     \* the owner -1
          Slots,      \* buffer objects of a process
          NumRanks, NumBlocks,
          MaxOps,     \* bound: constructions
          MaxForks, MaxDeaths

\* A process that opens the device has an open file of its own; a region has at
\* least one rank; no slot is called 0.
Config ==
  /\ IsFiniteSet(Started) /\ Started \subseteq Procs /\ NoProc \notin Procs
  /\ NumRanks \in Nat \ {0} /\ NumBlocks \in Nat /\ Slots \subseteq Nat \ {0}
  /\ MaxOps \in Nat /\ MaxForks \in Nat /\ MaxDeaths \in Nat

ASSUME DeviceAssumption == Config

VARIABLES
  used,       \* the pools: blocks handed out
  desc,       \* allocation descriptors of each open file: "none", "local" or "global"
  ref_cnt,    \* shared entries; 0: there is none
  life,       \* "unborn", "alive" or "dead"
  file,       \* the open file a process uses; a child has its parent's
  buf,        \* the Buffer in each slot
  call,       \* the operation a process is in
  published,  \* SharedRegions that have been made, in any process's hands
  tainted,    \* ghost: something happened that the properties below exclude
  ops, forks, deaths

kernel == <<used, desc, ref_cnt>>
vars == <<used, desc, ref_cnt, life, file, buf, call, published, tainted, ops, forks, deaths>>

Ranks == 1..NumRanks
Blocks == Ranks \X (1..NumBlocks)
Regions == [Ranks -> 0..NumBlocks]
NoRegion == [r \in Ranks |-> 0]

\* The blocks of a region.
BlocksOf(at) == {b \in Blocks : at[b[1]] = b[2]}

\* A buffer: its region, the is_global flag inside the region, the fields of
\* DeviceRegionWrapper, and (ghost) the process that obtained the region.
\* Empty has no context, like a moved-from buffer.
Empty == [at |-> NoRegion, global |-> FALSE, owner |-> NoProc, owned |-> FALSE,
          is_global |-> FALSE, maker |-> NoProc]

Buffers == [at : Regions, global : BOOLEAN, owner : Procs \cup {NoProc}, owned : BOOLEAN,
            is_global : BOOLEAN, maker : Procs \cup {NoProc}]

\* An operation in progress: its slot, the ranks it has still to go through in
\* ascending order, the region it was given, the region it holds so far (a
\* release: still holds), and the slot a move assignment takes its value from.
Idle == [op |-> "idle", slot |-> 0, todo |-> {}, want |-> NoRegion, at |-> NoRegion, from |-> 0]

Ops == {"idle", "allocate", "rollback", "destroy", "assign", "share", "get"}

Calls == [op : Ops, slot : Slots \cup {0}, todo : SUBSET Ranks, want : Regions, at : Regions,
          from : Slots \cup {0}]

Init ==
  /\ used = {}
  /\ desc = [f \in Started |-> [b \in Blocks |-> "none"]]
  /\ ref_cnt = [b \in Blocks |-> 0]
  /\ life = [p \in Procs |-> IF p \in Started THEN "alive" ELSE "unborn"]
  /\ file = [p \in Procs |-> IF p \in Started THEN p ELSE NoProc]
  /\ buf = [p \in Procs |-> [s \in Slots |-> Empty]]
  /\ call = [p \in Procs |-> Idle]
  /\ published = {} /\ tainted = FALSE
  /\ ops = 0 /\ forks = 0 /\ deaths = 0

Ready(p) == life[p] = "alive" /\ call[p].op = "idle"

Free(p, s) == buf[p][s] = Empty

Count == ops < MaxOps /\ ops' = ops + 1

Taint(cond) == tainted' = (tainted \/ cond)

\* The ranks in which a region has a block.
RanksOf(at) == {r \in Ranks : at[r] # 0}

\* p starts a call of several ioctls.
Begin(p, c) == Ready(p) /\ call' = [call EXCEPT ![p] = c]

\* The buffer a constructor leaves in its slot.
Constructed(p, c) ==
  LET shared == c.op = "get"
  IN [at |-> c.at, global |-> shared, owner |-> IF shared THEN NoProc ELSE p,
      owned |-> ~shared, is_global |-> shared, maker |-> p]

\* The buffers of p when call c returns.
Returned(p, c) ==
  CASE c.op \in {"allocate", "get"} -> [buf[p] EXCEPT ![c.slot] = Constructed(p, c)]
    [] c.op = "share"    -> [buf[p] EXCEPT ![c.slot].global = TRUE, ![c.slot].is_global = TRUE]
    [] c.op = "destroy"  -> [buf[p] EXCEPT ![c.slot] = Empty]
    [] c.op = "assign"   -> [buf[p] EXCEPT ![c.slot] = buf[p][c.from], ![c.from] = Empty]
    [] c.op = "rollback" -> buf[p]

\* c is what is left of p's call after an ioctl; the call returns after its last.
Continue(p, c) ==
  IF c.todo # {} THEN call' = [call EXCEPT ![p] = c] /\ UNCHANGED buf
  ELSE call' = [call EXCEPT ![p] = Idle] /\ buf' = [buf EXCEPT ![p] = Returned(p, c)]

\* The call ends with an exception and leaves the buffers alone.
Throw(p) == call' = [call EXCEPT ![p] = Idle] /\ UNCHANGED buf

\* The slot of a new buffer: which one it is makes no difference.
NewSlot(p, s) == Free(p, s) /\ \A t \in Slots : t < s => ~Free(p, t)

------------------------------------------------------------------------------
(* The driver.  Each ioctl holds the allocator's lock.                      *)

\* Addresses of a rank that the pool can hand out; the pool takes the first.
FreeIn(r) == {a \in 1..NumBlocks : <<r, a>> \notin used}

first_fit(r) == Min(FreeIn(r))

\* Slip: a shared block is freed with its first reference.
DeallocateAtOnce(f, b, global, rc) ==
  /\ rc = IF desc[f][b] = "none" THEN -1 ELSE 0
  /\ desc' = [desc EXCEPT ![f][b] = "none"]
  /\ ref_cnt' = IF global /\ ref_cnt[b] > 0 THEN [ref_cnt EXCEPT ![b] = @ - 1] ELSE ref_cnt
  /\ used' = IF rc = 0 THEN used \ {b} ELSE used
  /\ UNCHANGED tainted

\* DEALLOCATE_MEMORY with result rc.  Removing the last reference frees the
\* entry and then reads its counter: the value read may be anything, and the
\* block goes back to its pool only if it is 0.
Deallocate(f, b, global, rc) ==
  LET found == desc[f][b] # "none"
      last  == global /\ ref_cnt[b] = 1
  IN /\ rc = CASE ~found -> -1
               [] found /\ ~global -> 0
               [] found /\ global /\ ref_cnt[b] = 0 -> -1
               [] found /\ global /\ ref_cnt[b] > 1 -> 1
               [] OTHER -> rc
     /\ desc' = [desc EXCEPT ![f][b] = "none"]
     /\ ref_cnt' = IF found /\ global /\ ref_cnt[b] > 0 THEN [ref_cnt EXCEPT ![b] = @ - 1] ELSE ref_cnt
     /\ used' = IF found /\ rc = 0 THEN used \ {b} ELSE used
     /\ Taint(found /\ last /\ rc # 0)

------------------------------------------------------------------------------
(* Construction                                                             *)

\* Buffer(size, context, props): allocate_single takes one rank,
\* allocate_replicate_all all of them.
New(p, s, ranks) ==
  /\ NewSlot(p, s) /\ Count
  /\ Begin(p, [Idle EXCEPT !.op = "allocate", !.slot = s, !.todo = ranks])
  /\ UNCHANGED <<kernel, life, file, buf, published, tainted, forks, deaths>>

\* Slip: the exception is passed on and nothing is given back.
RollbackNothing(c) == [c EXCEPT !.op = "rollback", !.todo = {}]

\* The ioctl of an allocation failed: what it has got so far is given back.
Rollback(c) == [c EXCEPT !.op = "rollback", !.todo = RanksOf(c.at)]

\* One ALLOCATE_MEMORY of allocate_single or allocate_replicate_all.
AllocateStep(p) ==
  LET c == call[p]
      r == Min(c.todo)
      a == first_fit(r)
  IN /\ c.op = "allocate"
     /\ \/ /\ FreeIn(r) # {} /\ desc[file[p]][<<r, a>>] = "none"
           /\ used' = used \cup {<<r, a>>}
           /\ desc' = [desc EXCEPT ![file[p]][<<r, a>>] = "local"]
           /\ Continue(p, [c EXCEPT !.todo = @ \ {r}, !.at[r] = a])
        \/ /\ FreeIn(r) # {} /\ desc[file[p]][<<r, a>>] # "none"  \* it cannot be registered
           /\ used' = used \cup {<<r, a>>}
           /\ Continue(p, Rollback(c)) /\ UNCHANGED desc
        \/ /\ FreeIn(r) = {}
           /\ Continue(p, Rollback(c)) /\ UNCHANGED <<used, desc>>
     /\ UNCHANGED <<ref_cnt, life, file, published, tainted, ops, forks, deaths>>

\* Buffer(shared_region, context): get_shared_alloc.
FromShared(p, s, region) ==
  /\ NewSlot(p, s) /\ Count
  /\ Begin(p, [Idle EXCEPT !.op = "get", !.slot = s, !.todo = RanksOf(region), !.want = region])
  /\ UNCHANGED <<kernel, life, file, buf, published, tainted, forks, deaths>>

\* One GET_SHARED_ALLOC.  Its errors end the constructor, which keeps the
\* references and descriptors of the ranks before; a descriptor that is there
\* already also keeps the new reference.
GetStep(p) ==
  LET c == call[p]
      r == Min(c.todo)
      b == <<r, c.want[r]>>
  IN /\ c.op = "get"
     /\ \/ /\ ref_cnt[b] > 0 /\ desc[file[p]][b] = "none"
           /\ ref_cnt' = [ref_cnt EXCEPT ![b] = @ + 1]
           /\ desc' = [desc EXCEPT ![file[p]][b] = "global"]
           /\ Continue(p, [c EXCEPT !.todo = @ \ {r}, !.at[r] = b[2]]) /\ UNCHANGED tainted
        \/ /\ ref_cnt[b] > 0 /\ desc[file[p]][b] # "none"
           /\ ref_cnt' = [ref_cnt EXCEPT ![b] = @ + 1]
           /\ Throw(p) /\ Taint(TRUE) /\ UNCHANGED desc
        \/ /\ ref_cnt[b] = 0
           /\ Throw(p) /\ Taint(c.at # NoRegion) /\ UNCHANGED <<ref_cnt, desc>>
     /\ UNCHANGED <<used, life, file, published, ops, forks, deaths>>

\* Buffer(dev_region, context): a view of a region that some buffer has.
View(p, s, t) ==
  /\ Ready(p) /\ NewSlot(p, s) /\ ~Free(p, t) /\ Count
  /\ buf' = [buf EXCEPT ![p][s] = [Empty EXCEPT !.at = buf[p][t].at, !.global = buf[p][t].global]]
  /\ UNCHANGED <<kernel, life, file, call, published, tainted, forks, deaths>>

------------------------------------------------------------------------------
(* Sharing                                                                  *)

\* make_shared; a buffer that is_global returns the region it has published.
MakeShared(p, s) ==
  LET b == buf[p][s]
  IN /\ ~Free(p, s) /\ ~b.is_global
     /\ Begin(p, [Idle EXCEPT !.op = "share", !.slot = s, !.todo = RanksOf(b.at), !.want = b.at])
     /\ Taint(b.maker # p)
     /\ UNCHANGED <<kernel, life, file, buf, published, ops, forks, deaths>>

\* One MAKE_SHARED_ALLOC; the descriptor of the file stays as it is.  An entry
\* that is there already is an error, which ends the call.
ShareStep(p) ==
  LET c == call[p]
      r == Min(c.todo)
      b == <<r, c.want[r]>>
  IN /\ c.op = "share"
     /\ \/ /\ ref_cnt[b] = 0
           /\ ref_cnt' = [ref_cnt EXCEPT ![b] = 1]
           /\ Continue(p, [c EXCEPT !.todo = @ \ {r}])
           /\ published' = IF c.todo = {r} THEN published \cup {c.want} ELSE published
        \/ ref_cnt[b] > 0 /\ Throw(p) /\ UNCHANGED <<ref_cnt, published>>
     /\ UNCHANGED <<used, desc, life, file, tainted, ops, forks, deaths>>

------------------------------------------------------------------------------
(* Release                                                                  *)

\* Slip: the owner's process id is not compared.
released_by_all(p, b) == b.owned \/ b.is_global

\* What the destructor releases.
released(p, b) == (b.owned /\ b.owner = p) \/ b.is_global

Release(p, s, op, from) ==
  call' = [call EXCEPT ![p] = [Idle EXCEPT !.op = op, !.slot = s, !.from = from,
                               !.at = buf[p][s].at, !.todo = RanksOf(buf[p][s].at)]]

\* ~Buffer
Destroy(p, s) ==
  LET b == buf[p][s]
  IN /\ Ready(p) /\ ~Free(p, s)
     /\ IF released(p, b) THEN Release(p, s, "destroy", 0) /\ UNCHANGED buf
        ELSE buf' = [buf EXCEPT ![p][s] = Empty] /\ UNCHANGED call
     /\ Taint(b.is_global /\ b.maker # p)
     /\ UNCHANGED <<kernel, life, file, published, ops, forks, deaths>>

\* operator=(Buffer &&) on a buffer that has a region, which is released whoever
\* owns it.  (Moving to an empty object only renames the buffer.)
MoveAssign(p, s, t) ==
  /\ Ready(p) /\ s # t /\ ~Free(p, s) /\ ~Free(p, t)
  /\ Release(p, s, "assign", t) /\ Taint(buf[p][s].maker # p)
  /\ UNCHANGED <<kernel, life, file, buf, published, ops, forks, deaths>>

\* One DEALLOCATE_MEMORY of deallocate_impl; the first error ends the release,
\* which reports nothing.
DeallocateStep(p) ==
  LET c == call[p]
      r == Min(c.todo)
      global == c.op # "rollback" /\ buf[p][c.slot].global
  IN /\ c.op \in {"rollback", "destroy", "assign"}
     /\ \E rc \in -1..1 :
          /\ Deallocate(file[p], <<r, c.at[r]>>, global, rc)
          /\ Continue(p, [c EXCEPT !.todo = IF rc < 0 THEN {} ELSE @ \ {r}, !.at[r] = 0])
     /\ UNCHANGED <<life, file, published, ops, forks, deaths>>

------------------------------------------------------------------------------
(* Processes                                                                *)

\* fork: the child has the parent's objects and its open file.
Fork(p, q) ==
  /\ Ready(p) /\ life[q] = "unborn" /\ forks < MaxForks /\ forks' = forks + 1
  /\ life' = [life EXCEPT ![q] = "alive"] /\ file' = [file EXCEPT ![q] = file[p]]
  /\ buf' = [buf EXCEPT ![q] = buf[p]]
  /\ UNCHANGED <<kernel, call, published, tainted, ops, deaths>>

\* The last close of f: every descriptor is deallocated with its own flag.
\* kept: the entries whose counter reads as not 0 after they are freed.
release_process_resources(f, kept) ==
  LET freed == {b \in Blocks : \/ desc[f][b] = "local"
                               \/ desc[f][b] = "global" /\ ref_cnt[b] = 1 /\ b \notin kept}
  IN /\ used' = used \ freed
     /\ ref_cnt' = [b \in Blocks |-> ref_cnt[b] - (IF desc[f][b] = "global" /\ ref_cnt[b] > 0 THEN 1 ELSE 0)]
     /\ desc' = [desc EXCEPT ![f] = [b \in Blocks |-> "none"]]
     /\ Taint(kept # {} \/ \E b \in Blocks : desc[f][b] = "local" /\ ref_cnt[b] > 0)

\* A process ends at any point, without the destructors of what it has left.
Die(p) ==
  LET f == file[p]
  IN /\ life[p] = "alive" /\ deaths < MaxDeaths /\ deaths' = deaths + 1
     /\ life' = [life EXCEPT ![p] = "dead"]
     /\ buf' = [buf EXCEPT ![p] = [s \in Slots |-> Empty]]
     /\ call' = [call EXCEPT ![p] = Idle]
     /\ IF \E q \in Procs \ {p} : life[q] = "alive" /\ file[q] = f
        THEN UNCHANGED <<kernel, tainted>>
        ELSE \E kept \in SUBSET {b \in Blocks : desc[f][b] = "global" /\ ref_cnt[b] = 1} :
               release_process_resources(f, kept)
     /\ UNCHANGED <<file, published, ops, forks>>

\* Nobody is in a call: the programs may leave it at that.
Finished == (\A p \in Procs : call[p].op = "idle") /\ UNCHANGED vars

Next ==
  \/ \E p \in Procs : \/ AllocateStep(p) \/ GetStep(p) \/ ShareStep(p) \/ DeallocateStep(p) \/ Die(p)
  \/ \E p \in Procs, s \in Slots :
       \/ \E r \in Ranks : New(p, s, {r})
       \/ New(p, s, Ranks)
       \/ \E region \in published : FromShared(p, s, region)
       \/ MakeShared(p, s) \/ Destroy(p, s)
       \/ \E t \in Slots : View(p, s, t) \/ MoveAssign(p, s, t)
  \/ \E p, q \in Procs : Fork(p, q)
  \/ Finished

Spec == Init /\ [][Next]_vars

------------------------------------------------------------------------------
(* Properties.  The ghost tainted is set by what the code has no answer to:  *)
(* releasing or sharing through a view or an inherited buffer, a sharing     *)
(* call that fails half way, the death of the process that shared a region,  *)
(* and the read of a freed entry's counter.                                  *)

\* All variables have their types.
TypeOK ==
  /\ used \subseteq Blocks
  /\ desc \in [Started -> [Blocks -> {"none", "local", "global"}]]
  /\ ref_cnt \in [Blocks -> Nat]
  /\ life \in [Procs -> {"unborn", "alive", "dead"}]
  /\ file \in [Procs -> Started \cup {NoProc}]
  /\ buf \in [Procs -> [Slots -> Buffers]]
  /\ call \in [Procs -> Calls]
  /\ published \subseteq Regions /\ tainted \in BOOLEAN
  /\ ops \in 0..MaxOps /\ forks \in 0..MaxForks /\ deaths \in 0..MaxDeaths

\* The blocks a process has obtained and not given back, in buffers and in the
\* call it is in.
Held(p) ==
  LET c == call[p]
      releasing == c.op \in {"destroy", "assign"}
  IN (IF c.op = "share" THEN {} ELSE BlocksOf(c.at))
     \cup UNION {BlocksOf(buf[p][s].at) :
                  s \in {t \in Slots : buf[p][t].maker = p /\ ~(releasing /\ t = c.slot)}}

\* What a process has obtained is allocated and registered with its file as long
\* as it has not given it back, whatever forked children do with their copies of
\* the buffers, other sharers with theirs, and whichever allocations fail: no
\* buffer of a running process dangles.
RegionsAllocated ==
  ~tainted => \A p \in Procs : life[p] = "alive" =>
    \A b \in Held(p) : b \in used /\ desc[file[p]][b] # "none"

\* Two processes have the same block only by sharing, and then each of them has
\* a reference.
ExclusiveOrShared ==
  ~tainted => \A p, q \in Procs : p # q =>
    \A b \in Held(p) \cap Held(q) : ref_cnt[b] >= 2

\* No leak: a registered block is held by a process that will give it back, or
\* goes back when the file is closed because a process died; after the last
\* close nothing is registered.
NoLeak ==
  ~tainted => \A f \in Started, b \in Blocks : desc[f][b] # "none" =>
    /\ \E p \in Procs : life[p] = "alive" /\ file[p] = f
    /\ \/ \E p \in Procs : file[p] = f /\ b \in Held(p)
       \/ \E p \in Procs : file[p] = f /\ life[p] = "dead"
=============================================================================
