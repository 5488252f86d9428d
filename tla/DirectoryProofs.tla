-------------------------- MODULE DirectoryProofs --------------------------
(***************************************************************************)
(* Names, inodes and blocks of one program, for any number of names,       *)
(* contents, slots and open files and any sizes of the partition, the      *)
(* blocks and the inodes: no PANIC is reached, the disk is consistent      *)
(* between any two accesses, nothing leaks, a listing is complete, and     *)
(* the file system implements Catalog.                                     *)
(*                                                                         *)
(* None of these is inductive.  In the middle of a call an inode has its   *)
(* bit and no name yet (creat, mine) or its name and no bit any more       *)
(* (unlink, dead), a block is marked and in no inode (Extra), and an inode *)
(* in memory is ahead of the one on disk until inode_sync (Syncs).  DInv   *)
(* says which inode, name and block that is, by where the call stands:     *)
(* SyncInv compares memory with disk, RootInv, BitsInv and OwnInv say what *)
(* the entries, the bits and the blocks of the inodes have to do with each *)
(* other, and CallInv what the locals of the call know of it.              *)
(***************************************************************************)
EXTENDS Directory, FiniteSetTheorems, NaturalsInduction, WellFoundedInduction, TLAPS

\* The program that changes files, where it is in its call, and its locals.
prog == CHOOSE p \in Procs : TRUE
OneProgram == Procs = {prog}
at == pc[prog]
rq == req[prog]

\* Where a call is in inode_write, in inode_sync and in block_bitmap_free.
Writing == {"lock", "bbit", "get", "put"}
Syncs == {"iget", "iput"}
Zeroing == {"zero", "zbit"}
Calling == {"look", "open", "scan", "ibit"} \cup Writing \cup Syncs \cup Zeroing

\* Locals have their fields.
IsReq(r) == r = [op |-> r.op, n |-> r.n, why |-> r.why, off |-> r.off, slot |-> r.slot,
                 h |-> r.h, i |-> r.i, new |-> r.new, b |-> r.b, val |-> r.val, buf |-> r.buf]

\* The cells of an inode, an inode on disk, and what it is of one in memory.
Capacity == PerBlock * NSectors
DiskInode(B) == [size : 0..Capacity, sectors : [Sectors -> {0} \cup B]]
Of(ino) == [size |-> ino.size, sectors |-> ino.sectors]

-----------------------------------------------------------------------------
\* What is in memory.
IsCore(c) ==
  /\ c = [used |-> c.used, ibits |-> c.ibits, ino |-> c.ino, open |-> c.open,
          slots |-> c.slots, panic |-> c.panic]
  /\ DOMAIN c.ino = Handles

\* An inode that is open.
IsInode(ino, B) ==
  /\ ino = [i_no |-> ino.i_no, cnts |-> ino.cnts, size |-> ino.size, sectors |-> ino.sectors]
  /\ ino.i_no \in Inodes /\ ino.cnts \in Nat
  /\ ino.size \in 0..Capacity /\ ino.sectors \in [Sectors -> {0} \cup B]

\* The files that are open, and the slots that refer to one.
Files(c) == c.open \ {ROOT}
Refs(c, h) == {s \in Slots : c.slots[s] = h}

\* The open inodes are those of different files, and each is counted as often
\* as slots refer to it, or more.
MemInv(c, B) ==
  /\ IsCore(c)
  /\ c.open \subseteq Handles /\ c.slots \in [Slots -> Files(c) \cup {NULL}]
  /\ ROOT \in c.open /\ c.ino[ROOT].i_no = ROOT
  /\ \A h \in c.open : IsInode(c.ino[h], B)
  /\ \A g, h \in c.open : c.ino[g].i_no = c.ino[h].i_no => g = h
  /\ \A h \in Files(c) : c.ino[h].cnts >= 1 /\ Cardinality(Refs(c, h)) <= c.ino[h].cnts

\* Types.
DTypes ==
  /\ ~core.panic
  /\ dsk = [used |-> dsk.used, ibits |-> dsk.ibits, itab |-> dsk.itab, blk |-> dsk.blk]
  /\ Blocks \subseteq Nat \ {0}
  /\ \A b \in Blocks : DOMAIN dsk.blk[b] = 0..PerBlock - 1
  /\ core.used \subseteq Blocks /\ dsk.used \subseteq Blocks
  /\ core.ibits \subseteq Inodes /\ dsk.ibits \subseteq Inodes
  /\ dsk.itab \in [Inodes -> DiskInode(Blocks)]
  /\ DOMAIN pc = Procs /\ DOMAIN req = Procs /\ IsReq(rq)
  /\ at \in {"user"} \cup Calling

\* An inode in memory is as on disk, but the one that is about to be synced.
SyncInv == \A h \in core.open :
  Of(core.ino[h]) = dsk.itab[core.ino[h].i_no] \/ (at \in Syncs /\ h = rq.h)

\* The inodes, wherever their last state is.
Node(i) == IF at \in Syncs /\ i = core.ino[rq.h].i_no THEN Of(core.ino[rq.h]) ELSE dsk.itab[i]

-----------------------------------------------------------------------------
\* The root directory.
root == core.ino[ROOT]
Dir(c) == Cell(root, c)
Used == {c \in 2..root.size - 1 : Dir(c) # NULL}
HasName(n) == \E c \in Used : Dir(c).filename = n
Named == {Dir(c).i_no : c \in Used}

\* The root directory has no hole in its blocks, and no name and no inode twice.
RootInv ==
  /\ root.size \in 2..Capacity
  /\ \A c \in 0..root.size - 1 : root.sectors[c \div PerBlock] # 0
  /\ Dir(0) = Entry(NULL, ROOT) /\ Dir(1) = Entry(NULL, ROOT)
  /\ \A c \in Used : Dir(c) \in [filename : Names, i_no : Inodes \ {ROOT}]
  /\ \A c, d \in Used : Dir(c).filename = Dir(d).filename \/ Dir(c).i_no = Dir(d).i_no => c = d

\* The inode whose bit creat has set, before the bitmap is on disk.
taken == IF at = "ibit" THEN {rq.i} ELSE {}

\* The inode of a creat that has no name yet.
mine == IF rq.op = "creat" /\ ~(at \in Syncs /\ rq.why = "write")
          THEN IF at = "ibit" THEN {rq.i} ELSE {core.ino[rq.new].i_no}
          ELSE {}

\* The name whose inode unlink has freed.
dead == IF rq.op = "unlink" /\ \/ at \in Zeroing
                               \/ rq.why = "remove"
                               \/ rq.why = "write" /\ at \notin Syncs
          THEN {rq.n} ELSE {}

\* Bits and names: they differ by what the call has under way.
BitsInv ==
  /\ ROOT \in core.ibits
  /\ \A c \in Used : Dir(c).i_no \in core.ibits <=> Dir(c).filename \notin dead
  /\ core.ibits \subseteq {ROOT} \cup Named \cup mine
  /\ mine \subseteq core.ibits /\ mine \cap (Named \cup {ROOT}) = {}
  /\ core.ibits \subseteq dsk.ibits \cup taken
  /\ \A h \in Files(core) : core.ino[h].i_no \in core.ibits \/ (at \in Zeroing /\ h = rq.h)

-----------------------------------------------------------------------------
\* Blocks.
Known == core.ibits \ taken

\* The sectors of an inode are different blocks.
Distinct(ino) == \A k, l \in Sectors : ino.sectors[k] = ino.sectors[l] /\ ino.sectors[k] # 0 => k = l

\* The blocks of an inode from the k-th.
From(ino, k) == {ino.sectors[l] : l \in {l \in Sectors : l >= k}} \ {0}

\* Blocks that are marked and in no inode: one that was just taken, and those
\* of the inode that is being freed.
Extra == IF at \in {"bbit", "get", "put"} THEN {rq.b}
         ELSE IF at \in Zeroing THEN From(core.ino[rq.h], rq.off + 1)
         ELSE {}

\* Every block that is marked is in one inode, or under way.
OwnInv ==
  /\ \A i \in Known : Distinct(Node(i)) /\ (Node(i).size > 0 => Node(i).sectors[0] # 0)
  /\ \A i, j \in Known : i # j => BlocksOf(Node(i)) \cap BlocksOf(Node(j)) = {}
  /\ core.used = (UNION {BlocksOf(Node(i)) : i \in Known}) \cup Extra
  /\ core.used \subseteq dsk.used \cup (IF at = "bbit" THEN {rq.b} ELSE {})

\* What an inode that is about to be synced may be on disk.
Behind(a, b) ==
  /\ a.size <= b.size /\ (a.size > 0 => a.sectors[0] # 0)
  /\ \A k \in Sectors : a.sectors[k] \in {0, b.sectors[k]}

-----------------------------------------------------------------------------
\* The locals of a call, by where it is.

\* No file of that name is open.
Closed(n) == \A c \in Used, h \in Files(core) :
               Dir(c).filename = n => core.ino[h].i_no # Dir(c).i_no

\* Which call can be where.
OpInv ==
  /\ at = "user" => rq = NoReq
  /\ at # "user" => rq.op \in {"open", "stat", "unlink", "creat", "write"}
  /\ rq.op \in {"open", "stat", "unlink", "creat"} => rq.n \in Names
  /\ rq.op \in {"open", "stat"} => at \in {"look", "open"}
  /\ rq.op = "unlink" => at \in {"look", "open"} \cup Writing \cup Syncs \cup Zeroing
  /\ rq.op = "write" => at \in Writing \cup Syncs
  /\ at \in {"ibit", "scan"} => rq.op = "creat"
  /\ at \in Zeroing => rq.op = "unlink"
  /\ at = "scan" => rq.off \in 0..root.size - 1

\* A lookup has passed no entry of the name.
LookInv == at \in {"look", "open"} =>
  /\ \/ rq.op \in {"open", "stat"} /\ rq.why = rq.op
     \/ rq.op = "unlink" /\ rq.why \in {"unlink", "delete", "remove"}
     \/ rq.op = "creat" /\ rq.why = "link"
  /\ rq.off \in 0..root.size - 1
  /\ \A c \in Used : c < rq.off => Dir(c).filename # rq.n
  /\ rq.op = "unlink" /\ rq.why # "remove" => Closed(rq.n)
  /\ rq.op = "unlink" /\ rq.why = "remove" => HasName(rq.n)

\* The inode that is about to be read is that of the name, and not in memory.
OpenInv == at = "open" =>
  rq.off \in Used /\ Dir(rq.off) = Entry(rq.n, rq.i) /\ Find(core, rq.i) = {}

\* The inode that creat made is empty and nobody else has it.
NewInv == rq.op = "creat" =>
  /\ rq.slot \in Slots /\ core.slots[rq.slot] = NULL
  /\ at = "ibit" => rq.i \in Inodes /\ Find(core, rq.i) = {}
  /\ at # "ibit" => /\ rq.new \in Files(core) /\ Refs(core, rq.new) = {}
                    /\ core.ino[rq.new] = InMemory(core.ino[rq.new].i_no, 1, NewInode)
  /\ at \in {"scan"} \cup Writing => ~HasName(rq.n)

\* The inode that is freed: its blocks from off + 1 on are still marked.
ZeroInv == at \in Zeroing =>
  /\ rq.h \in Files(core) /\ HasName(rq.n) /\ rq.off \in Sectors
  /\ core.ino[rq.h].cnts = 1 /\ Refs(core, rq.h) = {} /\ core.ino[rq.h].i_no \notin core.ibits
  /\ Distinct(core.ino[rq.h])
  /\ \A i \in Known : Extra \cap BlocksOf(Node(i)) = {}
  /\ at = "zero" => rq.b \in Blocks \ core.used

\* What is written where: an entry for creat, a hole for unlink, else contents.
WriteInv ==
  /\ at \in Writing => rq.why = "write"
  /\ at \in Writing \cup Syncs =>
       /\ rq.h \in core.open
       /\ \/ rq.why = "write" /\ rq.op \in {"creat", "unlink"} /\ rq.h = ROOT
          \/ rq.why = "write" /\ rq.op = "write" /\ rq.h # ROOT /\ rq.off = 0 /\ rq.val \in Data
          \/ rq.why = "new" /\ rq.op = "creat" /\ rq.h = rq.new /\ at \in Syncs
  /\ at \in Writing /\ rq.op = "creat" =>
       /\ rq.off \in 2..root.size /\ rq.off < Capacity
       /\ rq.val = Entry(rq.n, core.ino[rq.new].i_no)
       /\ rq.off < root.size => Dir(rq.off) = NULL
  /\ at \in Writing /\ rq.op = "unlink" =>
       rq.off \in Used /\ Dir(rq.off).filename = rq.n /\ rq.val = NULL /\ at # "bbit"

\* The block that inode_write will write is in the inode already, or in none.
BlockInv == at \in {"bbit", "get", "put"} =>
  LET s == core.ino[rq.h].sectors[rq.off \div PerBlock] IN
  /\ rq.b \in Blocks
  /\ s = 0 => \A i \in Known : rq.b \notin BlocksOf(Node(i))
  /\ s # 0 => s = rq.b /\ at # "bbit"
  /\ at = "put" => rq.buf = dsk.blk[rq.b]

\* The inode table that is written back is as on disk but for one inode.
DirtyInv == at \in Syncs =>
  /\ rq.why = "write" => Behind(dsk.itab[core.ino[rq.h].i_no], core.ino[rq.h])
  /\ at = "iput" => rq.buf = [dsk.itab EXCEPT ![core.ino[rq.h].i_no] = Of(core.ino[rq.h])]

\* The locals of a call.
CallInv == OpInv /\ LookInv /\ OpenInv /\ NewInv /\ ZeroInv /\ WriteInv /\ BlockInv /\ DirtyInv

-----------------------------------------------------------------------------
\* The listing so far.
Seen == {n \in ls.there : \E c \in Used : c < ls.pos /\ Dir(c).filename = n}

\* A listing has seen the names before pos that were there all the time.
LsInv ==
  /\ ls = [st |-> ls.st, pos |-> ls.pos, there |-> ls.there, seen |-> ls.seen, again |-> ls.again]
  /\ ls.st \in {"closed", "open", "end"}
  /\ ls.again = {}
  /\ ls.st = "open" => ls.there \subseteq Present /\ ls.pos \in 0..root.size /\ ls.seen = Seen
  /\ ls.st = "end" => ls.seen = ls.there

\* The inductive invariant.
DInv == /\ DTypes /\ MemInv(core, Blocks) /\ SyncInv /\ RootInv /\ BitsInv /\ OwnInv
        /\ CallInv /\ LsInv

-----------------------------------------------------------------------------
(* Constants, numbers and cells *)

\* The least of a set of numbers is one of them.
LEMMA LeastLemma ==
  ASSUME NEW S, S \subseteq Nat, S # {}
  PROVE  Least(S) \in S /\ \A y \in S : Least(S) <= y
<1>1. PICK x \in S : \A y \in S : <<y, x>> \notin OpToRel(<, Nat)
  BY NatLessThanWellFounded, WFMin, Zenon
<1>2. \A y \in S : ~(y < x)
  BY <1>1 DEF OpToRel
<1>3. \E z \in S : \A y \in S : z <= y
  BY <1>2
<1> QED BY <1>3 DEF Least

\* A product of naturals.
LEMMA Product ==
  ASSUME NEW a \in Nat, NEW b \in Nat
  PROVE  a * b \in Nat
OBVIOUS

\* The constants, and the indices that they bound.
LEMMA Consts ==
  /\ NInodes \in Nat \ {0} /\ NSectors \in Nat \ {0} /\ NSlots \in Nat \ {0}
  /\ NHandles \in Nat \ {0} /\ NInodes <= NHandles /\ PerBlock \in Nat \ {0} /\ 2 <= PerBlock
  /\ Sizes \subseteq Nat \ {0}
  /\ Capacity \in Nat /\ 2 <= Capacity
  /\ ROOT \in Handles /\ ROOT \in Inodes /\ ROOT = 0 /\ 0 \in Sectors
  /\ NULL \notin Handles /\ NULL \notin Names /\ NULL \notin Data
  /\ Handles \subseteq Nat /\ Inodes \subseteq Nat /\ Slots \subseteq Nat /\ Sectors \subseteq Nat
<1>1. /\ NInodes \in Nat \ {0} /\ NSectors \in Nat \ {0} /\ NSlots \in Nat \ {0}
      /\ NHandles \in Nat \ {0} /\ NInodes <= NHandles /\ PerBlock \in Nat \ {0, 1}
      /\ Sizes \subseteq Nat \ {0}
      /\ NULL \notin Handles /\ NULL \notin Names /\ NULL \notin Data
  BY DirectoryAssumption DEF Handles
<1>2. PICK n \in Nat : NSectors = n + 1
  <2>1. NSectors - 1 \in Nat /\ NSectors = (NSectors - 1) + 1
    BY <1>1
  <2> QED BY <2>1
<1>3. PICK m \in Nat : PerBlock = m + 2
  <2>1. PerBlock - 2 \in Nat /\ PerBlock = (PerBlock - 2) + 2
    BY <1>1
  <2> QED BY <2>1
<1>4. Capacity = PerBlock * n + PerBlock /\ PerBlock * n \in Nat
  BY <1>2, <1>3 DEF Capacity
<1>5. Capacity \in Nat /\ 2 <= Capacity
  BY <1>3, <1>4
<1> QED BY <1>1, <1>3, <1>5 DEF ROOT, Handles, Inodes, Sectors, Slots

\* The cells of a file are in its sectors, each in a place of its own.
LEMMA DivMod ==
  ASSUME NEW n \in Nat
  PROVE  /\ n \div PerBlock \in Nat /\ n % PerBlock \in 0..PerBlock - 1
         /\ n = (n \div PerBlock) * PerBlock + (n % PerBlock)
<1>1. \A b \in Nat \ {0} : n \div b \in Nat /\ n % b \in 0..b - 1 /\ n = (n \div b) * b + (n % b)
  OBVIOUS
<1> QED BY <1>1, Consts

\* A cell of an inode is in one of its sectors.
LEMMA Place ==
  ASSUME NEW c \in 0..Capacity - 1
  PROVE  c \div PerBlock \in Sectors /\ c % PerBlock \in 0..PerBlock - 1
<1> DEFINE q == c \div PerBlock
           m == c % PerBlock
<1>1. c \in Nat /\ c < Capacity
  BY Consts
<1>2. q \in Nat /\ m \in 0..PerBlock - 1 /\ c = q * PerBlock + m
  BY <1>1, DivMod
<1>3. q < NSectors
  <2> HIDE DEF q, m
  <2> SUFFICES ASSUME q >= NSectors PROVE FALSE
    BY <1>2, Consts
  <2>1. PICK d \in Nat : q = NSectors + d
    <3>1. q - NSectors \in Nat /\ q = NSectors + (q - NSectors)
      BY <1>2, Consts
    <3> QED BY <3>1
  <2>2. q * PerBlock = Capacity + d * PerBlock
    <3>1. \A a, b, e \in Nat : (a + b) * e = e * a + b * e
      OBVIOUS
    <3> QED BY <2>1, <3>1, Consts DEF Capacity
  <2>3. d * PerBlock \in Nat
    BY <2>1, Product, Consts
  <2> QED BY ONLY <1>1, <1>2, <2>2, <2>3, Consts
<1> QED BY <1>2, <1>3, Consts DEF Sectors

\* Two cells that are at the same place are the same.
LEMMA SameCell ==
  ASSUME NEW c \in Nat, NEW d \in Nat, c \div PerBlock = d \div PerBlock, c % PerBlock = d % PerBlock
  PROVE  c = d
BY DivMod

-----------------------------------------------------------------------------
(* Steps *)

\* prog is the one process.
LEMMA ProgLemma ==
  ASSUME OneProgram
  PROVE  prog \in Procs /\ \A p \in Procs : p = prog
BY DEF OneProgram

\* Go, for the one program.
LEMMA GoLemma ==
  ASSUME OneProgram, DOMAIN pc = Procs, DOMAIN req = Procs, NEW c, NEW a, NEW r, Go(prog, c, a, r)
  PROVE  core' = c /\ at' = a /\ rq' = r /\ DOMAIN pc' = Procs /\ DOMAIN req' = Procs
BY ProgLemma DEF Go, at, rq

-----------------------------------------------------------------------------
(* Inodes in memory *)

\* Two states of the memory that differ in inodes that are not open.
Same(c, x) ==
  /\ IsCore(x) /\ x.used = c.used /\ x.ibits = c.ibits /\ x.open = c.open
  /\ x.slots = c.slots /\ x.panic = c.panic
  /\ \A h \in c.open : x.ino[h] = c.ino[h]

\* What is in memory depends on the inodes that are open only.
LEMMA SameMem ==
  ASSUME NEW B, NEW c, MemInv(c, B), NEW x, IsCore(x), x.open = c.open, x.slots = c.slots,
         \A h \in c.open : x.ino[h] = c.ino[h]
  PROVE  /\ MemInv(x, B) /\ Files(x) = Files(c) /\ \A h : Refs(x, h) = Refs(c, h)
         /\ \A i : Find(x, i) = Find(c, i)
<1>1. Files(x) = Files(c) /\ (\A h : Refs(x, h) = Refs(c, h)) /\ ROOT \in c.open
  BY DEF Files, Refs, MemInv
<1>2. \A i : Find(x, i) = Find(c, i)
  BY DEF Find
<1>3. \A h \in Files(c) : h \in c.open
  BY DEF Files
<1> QED BY <1>1, <1>2, <1>3 DEF MemInv

\* The slots that refer to a file are finitely many.
LEMMA RefsFinite ==
  ASSUME NEW c, NEW h
  PROVE  /\ IsFiniteSet(Refs(c, h)) /\ Cardinality(Refs(c, h)) \in Nat
         /\ Refs(c, h) \subseteq Slots
         /\ Refs(c, h) = {} <=> Cardinality(Refs(c, h)) = 0
<1>1. IsFiniteSet(Slots)
  BY Consts, FS_Interval DEF Slots
<1>2. Refs(c, h) \in SUBSET Slots
  BY DEF Refs
<1>3. IsFiniteSet(Refs(c, h))
  BY <1>1, <1>2, FS_Subset
<1> QED BY <1>2, <1>3, FS_CardinalityType, FS_EmptySet

\* There is memory for an inode that is not open.
LEMMA FreshLemma ==
  ASSUME NEW B, NEW c, MemInv(c, B), NEW i \in Inodes, Find(c, i) = {}
  PROVE  Fresh(c) \in Handles /\ Fresh(c) \notin c.open /\ Fresh(c) # ROOT
<1>1. Handles \ c.open # {}
  <2> SUFFICES ASSUME c.open = Handles PROVE FALSE
    BY DEF MemInv
  <2> DEFINE f == [h \in Handles |-> c.ino[h].i_no]
             T == Inodes \ {i}
  <2>1. \A h \in Handles : c.ino[h].i_no \in Inodes /\ c.ino[h].i_no # i
    BY DEF MemInv, IsInode, Find
  <2>2. f \in [Handles -> T]
    BY <2>1
  <2>3. IsFiniteSet(Handles) /\ Cardinality(Handles) = NHandles
    BY FS_Interval, Consts DEF Handles
  <2>4. IsFiniteSet(Inodes) /\ Cardinality(Inodes) = NInodes
    BY FS_Interval, Consts DEF Inodes
  <2>5. IsFiniteSet(T) /\ Cardinality(T) = NInodes - 1
    BY <2>4, FS_RemoveElement
  <2>6. Cardinality(T) < Cardinality(Handles)
    BY <2>3, <2>5, Consts
  <2> HIDE DEF T, f
  <2>7. \E g, h \in Handles : g # h /\ f[g] = f[h]
    BY <2>2, <2>3, <2>5, <2>6, FS_PigeonHole
  <2>8. \A g, h \in Handles : c.ino[g].i_no = c.ino[h].i_no => g = h
    BY DEF MemInv
  <2> QED BY <2>7, <2>8 DEF f
<1>2. Fresh(c) \in Handles \ c.open
  BY <1>1, LeastLemma, Consts DEF Fresh
<1> QED BY <1>2 DEF MemInv

\* inode_open reads an inode that was not in memory.
LEMMA PushLemma ==
  ASSUME NEW B, NEW c, MemInv(c, B), NEW i \in Inodes, Find(c, i) = {},
         NEW d \in DiskInode(B), NEW h, h = Fresh(c), NEW x, x = Push(c, InMemory(i, 1, d))
  PROVE  /\ h \in Handles /\ h \notin c.open /\ h # ROOT
         /\ IsCore(x) /\ x.used = c.used /\ x.ibits = c.ibits /\ x.slots = c.slots
         /\ x.panic = c.panic /\ x.open = c.open \cup {h}
         /\ \A g \in c.open : x.ino[g] = c.ino[g]
         /\ x.ino[h] = InMemory(i, 1, d) /\ x.ino[h].i_no = i /\ x.ino[h].cnts = 1
         /\ Of(x.ino[h]) = d /\ x.ino[h].sectors = d.sectors /\ x.ino[h].size = d.size
         /\ MemInv(x, B) /\ Refs(x, h) = {} /\ Files(x) = Files(c) \cup {h}
<1>1. h \in Handles /\ h \notin c.open /\ h # ROOT
  BY FreshLemma
<1>2. IsCore(c) /\ c.open \subseteq Handles
  BY DEF MemInv
<1>3. /\ IsCore(x) /\ x.used = c.used /\ x.ibits = c.ibits /\ x.slots = c.slots
      /\ x.panic = c.panic /\ x.open = c.open \cup {h}
      /\ \A g \in c.open : x.ino[g] = c.ino[g]
      /\ x.ino[h] = InMemory(i, 1, d)
  BY <1>1, <1>2 DEF Push, IsCore
<1>4. d = [size |-> d.size, sectors |-> d.sectors] /\ d.size \in 0..Capacity
      /\ d.sectors \in [Sectors -> {0} \cup B]
  BY DEF DiskInode
<1>5. /\ x.ino[h].i_no = i /\ x.ino[h].cnts = 1 /\ IsInode(x.ino[h], B)
      /\ Of(x.ino[h]) = d /\ x.ino[h].sectors = d.sectors /\ x.ino[h].size = d.size
  BY <1>3, <1>4 DEF InMemory, IsInode, Of
<1>6. Files(x) = Files(c) \cup {h}
  BY <1>1, <1>3 DEF Files
<1>7. \A g \in Files(c) : Refs(x, g) = Refs(c, g) /\ g \in c.open
  BY <1>3 DEF Refs, Files
<1>8. Refs(x, h) = {}
  <2>1. \A s \in Slots : c.slots[s] \in Files(c) \cup {NULL}
    BY DEF MemInv
  <2>2. h \notin Files(c) \cup {NULL}
    BY <1>1, Consts DEF Files
  <2> QED BY <1>3, <2>1, <2>2 DEF Refs
<1>9. MemInv(x, B)
  <2>1. x.slots \in [Slots -> Files(x) \cup {NULL}]
    BY <1>3, <1>6 DEF MemInv
  <2>2. ROOT \in x.open /\ x.ino[ROOT].i_no = ROOT /\ x.open \subseteq Handles
    BY <1>1, <1>2, <1>3 DEF MemInv
  <2>3. \A g \in x.open : IsInode(x.ino[g], B)
    BY <1>3, <1>5 DEF MemInv
  <2>4. \A g, k \in x.open : x.ino[g].i_no = x.ino[k].i_no => g = k
    <3>1. \A g \in c.open : c.ino[g].i_no # i
      BY DEF Find
    <3> QED BY <1>3, <1>5, <3>1 DEF MemInv
  <2>5. \A g \in Files(x) : x.ino[g].cnts >= 1 /\ Cardinality(Refs(x, g)) <= x.ino[g].cnts
    <3>1. Cardinality(Refs(x, h)) = 0
      BY <1>8, RefsFinite
    <3>2. \A g \in Files(c) : x.ino[g] = c.ino[g]
      BY <1>3, <1>7
    <3> QED BY <1>5, <1>6, <1>7, <3>1, <3>2 DEF MemInv
  <2> QED BY <1>3, <2>1, <2>2, <2>3, <2>4, <2>5 DEF MemInv
<1> QED BY <1>1, <1>3, <1>5, <1>6, <1>8, <1>9

\* i_open_cnts.
Up(ino) == [ino EXCEPT !.cnts = @ + 1]
Down(ino) == [ino EXCEPT !.cnts = @ - 1]

\* A count that goes up and down again.
LEMMA CountLemma ==
  ASSUME NEW B, NEW y, IsInode(y, B), NEW z, z = Up(y)
  PROVE  /\ IsInode(z, B) /\ z.i_no = y.i_no /\ z.cnts = y.cnts + 1 /\ Of(z) = Of(y)
         /\ z.sectors = y.sectors /\ z.size = y.size /\ Down(z) = y
<1>1. PICK i, n, s, t : y = [i_no |-> i, cnts |-> n, size |-> s, sectors |-> t]
  BY DEF IsInode
<1>2. n \in Nat
  BY <1>1 DEF IsInode
<1>3. z = [i_no |-> i, cnts |-> n + 1, size |-> s, sectors |-> t]
  BY <1>1 DEF Up
<1>4. z.i_no = y.i_no /\ z.cnts = y.cnts + 1 /\ z.sectors = y.sectors /\ z.size = y.size
  BY <1>1, <1>3
<1>5. IsInode(z, B)
  <2>1. z = [i_no |-> z.i_no, cnts |-> z.cnts, size |-> z.size, sectors |-> z.sectors]
    BY <1>3
  <2>2. z.cnts \in Nat
    BY <1>2, <1>3
  <2> QED BY <2>1, <2>2, <1>4 DEF IsInode
<1>6. Down(z) = [i_no |-> i, cnts |-> (n + 1) - 1, size |-> s, sectors |-> t]
  <2>1. \A m : Down([i_no |-> i, cnts |-> m, size |-> s, sectors |-> t])
                 = [i_no |-> i, cnts |-> m - 1, size |-> s, sectors |-> t]
    BY DEF Down
  <2> QED BY <2>1, <1>3, Zenon
<1>7. (n + 1) - 1 = n
  BY <1>2
<1> QED BY <1>1, <1>4, <1>5, <1>6, <1>7 DEF Of

\* inode_open of one that is.
LEMMA AgainLemma ==
  ASSUME NEW B, NEW c, MemInv(c, B), NEW h \in Files(c), NEW x, x = Again(c, h)
  PROVE  /\ IsCore(x) /\ x.used = c.used /\ x.ibits = c.ibits /\ x.open = c.open
         /\ x.slots = c.slots /\ x.panic = c.panic
         /\ \A g \in c.open \ {h} : x.ino[g] = c.ino[g]
         /\ x.ino[h].i_no = c.ino[h].i_no /\ x.ino[h].cnts = c.ino[h].cnts + 1
         /\ Of(x.ino[h]) = Of(c.ino[h]) /\ x.ino[h].cnts # 1
         /\ x.ino[h].sectors = c.ino[h].sectors /\ x.ino[h].size = c.ino[h].size
         /\ MemInv(x, B) /\ Cardinality(Refs(x, h)) + 1 <= x.ino[h].cnts
         /\ Down(x.ino[h]) = c.ino[h]
<1>1. /\ IsCore(c) /\ c.open \subseteq Handles /\ h \in Handles /\ h # ROOT /\ h \in c.open
      /\ IsInode(c.ino[h], B)
  BY DEF MemInv, Files
<1>2. /\ IsCore(x) /\ x.used = c.used /\ x.ibits = c.ibits /\ x.open = c.open
      /\ x.slots = c.slots /\ x.panic = c.panic
      /\ \A g \in c.open \ {h} : x.ino[g] = c.ino[g]
      /\ x.ino[h] = [c.ino[h] EXCEPT !.cnts = @ + 1]
  BY <1>1 DEF Again, IsCore
<1>3. IsInode(c.ino[h], B) /\ x.ino[h] = Up(c.ino[h])
  BY <1>1, <1>2 DEF Up
<1>4. /\ IsInode(x.ino[h], B) /\ x.ino[h].i_no = c.ino[h].i_no /\ x.ino[h].cnts = c.ino[h].cnts + 1
      /\ Of(x.ino[h]) = Of(c.ino[h])
      /\ x.ino[h].sectors = c.ino[h].sectors /\ x.ino[h].size = c.ino[h].size
      /\ Down(x.ino[h]) = c.ino[h]
  <2> DEFINE y == c.ino[h]
             z == x.ino[h]
  <2>1. IsInode(y, B) /\ z = Up(y)
    BY <1>3
  <2> HIDE DEF y, z
  <2>2. /\ IsInode(z, B) /\ z.i_no = y.i_no /\ z.cnts = y.cnts + 1 /\ Of(z) = Of(y)
        /\ z.sectors = y.sectors /\ z.size = y.size /\ Down(z) = y
    BY ONLY <2>1, CountLemma, Zenon
  <2> QED BY <2>2 DEF y, z
<1>5. c.ino[h].cnts \in Nat /\ c.ino[h].cnts >= 1 /\ Cardinality(Refs(c, h)) <= c.ino[h].cnts
  BY <1>1 DEF MemInv, IsInode
<1>6. Files(x) = Files(c) /\ \A g : Refs(x, g) = Refs(c, g)
  BY <1>2 DEF Files, Refs
<1>7. MemInv(x, B)
  <2>1. \A g \in x.open : IsInode(x.ino[g], B) /\ x.ino[g].i_no = c.ino[g].i_no
    BY <1>2, <1>4 DEF MemInv
  <2>2. \A g \in Files(x) : x.ino[g].cnts >= 1 /\ Cardinality(Refs(x, g)) <= x.ino[g].cnts
    <3>1. \A g \in Files(c) \ {h} : x.ino[g] = c.ino[g]
      BY <1>2 DEF Files
    <3> QED BY <1>4, <1>5, <1>6, <3>1, RefsFinite DEF MemInv
  <2> QED BY <1>2, <1>6, <2>1, <2>2 DEF MemInv
<1> QED BY <1>2, <1>4, <1>5, <1>6, <1>7, RefsFinite

\* inode_close after inode_open changes nothing.
LEMMA AgainClose ==
  ASSUME NEW B, NEW c, MemInv(c, B), NEW h \in Files(c)
  PROVE  Same(c, Close(Again(c, h), h))
<1> DEFINE x == Again(c, h)
           y == Close(x, h)
<1>1. /\ IsCore(x) /\ x.used = c.used /\ x.ibits = c.ibits /\ x.open = c.open
      /\ x.slots = c.slots /\ x.panic = c.panic
      /\ \A g \in c.open \ {h} : x.ino[g] = c.ino[g]
      /\ x.ino[h].cnts # 1 /\ Down(x.ino[h]) = c.ino[h]
  BY AgainLemma
<1>2. h # ROOT /\ h \in Handles /\ c.open \subseteq Handles
  BY DEF Files, MemInv
<1> HIDE DEF x
<1>3. y = [x EXCEPT !.ino[h].cnts = @ - 1]
  BY <1>1, <1>2 DEF Close
<1>4. /\ IsCore(y) /\ y.used = x.used /\ y.ibits = x.ibits /\ y.open = x.open
      /\ y.slots = x.slots /\ y.panic = x.panic
      /\ \A g \in c.open \ {h} : y.ino[g] = x.ino[g]
      /\ y.ino[h] = Down(x.ino[h])
  BY <1>1, <1>2, <1>3 DEF IsCore, Down
<1>5. \A g \in c.open : y.ino[g] = c.ino[g]
  BY <1>1, <1>4
<1> HIDE DEF y
<1>6. Same(c, y)
  BY <1>1, <1>4, <1>5 DEF Same
<1> QED BY <1>6 DEF y, x

-----------------------------------------------------------------------------
(* Inodes that are closed, slots, bits *)

\* inode_close of an inode that was read for it.
LEMMA PushClose ==
  ASSUME NEW B, NEW c, MemInv(c, B), NEW i \in Inodes, Find(c, i) = {},
         NEW d \in DiskInode(B), NEW h, h = Fresh(c), NEW x, x = Push(c, InMemory(i, 1, d))
  PROVE  Same(c, Close(x, h))
<1>1. /\ h \in Handles /\ h \notin c.open /\ h # ROOT
      /\ IsCore(x) /\ x.used = c.used /\ x.ibits = c.ibits /\ x.slots = c.slots
      /\ x.panic = c.panic /\ x.open = c.open \cup {h}
      /\ \A g \in c.open : x.ino[g] = c.ino[g]
      /\ x.ino[h].cnts = 1
  BY PushLemma
<1>2. c.open \subseteq Handles
  BY DEF MemInv
<1> DEFINE y == Close(x, h)
<1>3. y = [x EXCEPT !.open = @ \ {h}, !.ino[h] = InMemory(ROOT, 0, NewInode)]
  BY <1>1 DEF Close
<1>4. /\ IsCore(y) /\ y.used = x.used /\ y.ibits = x.ibits /\ y.open = x.open \ {h}
      /\ y.slots = x.slots /\ y.panic = x.panic
      /\ \A g \in Handles \ {h} : y.ino[g] = x.ino[g]
  BY ONLY <1>1, <1>3 DEF IsCore
<1> HIDE DEF y
<1>5. y.open = c.open /\ \A g \in c.open : y.ino[g] = c.ino[g]
  BY <1>1, <1>2, <1>4
<1>6. Same(c, y)
  BY <1>1, <1>4, <1>5 DEF Same
<1> QED BY <1>6 DEF y

\* A slot that is free refers to a file that is open once more than that.
LEMMA SlotLemma ==
  ASSUME NEW B, NEW x, MemInv(x, B), NEW h \in Files(x), Cardinality(Refs(x, h)) + 1 <= x.ino[h].cnts,
         NEW s \in Slots, x.slots[s] = NULL, NEW y, y = [x EXCEPT !.slots[s] = h]
  PROVE  /\ MemInv(y, B) /\ y.used = x.used /\ y.ibits = x.ibits /\ y.panic = x.panic
         /\ y.open = x.open /\ y.ino = x.ino /\ Files(y) = Files(x)
<1>1. IsCore(x) /\ x.slots \in [Slots -> Files(x) \cup {NULL}] /\ IsInode(x.ino[h], B) /\ h \in x.open
  BY DEF MemInv, Files
<1>2. /\ IsCore(y) /\ y.used = x.used /\ y.ibits = x.ibits /\ y.panic = x.panic
      /\ y.open = x.open /\ y.ino = x.ino /\ y.slots = [x.slots EXCEPT ![s] = h]
  BY <1>1 DEF IsCore
<1>3. Files(y) = Files(x)
  BY <1>2 DEF Files
<1>4. y.slots \in [Slots -> Files(y) \cup {NULL}]
  BY <1>1, <1>2, <1>3
<1>5. \A g \in Files(y) : g # NULL /\ g \in x.open
  BY <1>3, Consts DEF Files, MemInv
<1>6. \A g \in Files(y) : g # h => Refs(y, g) = Refs(x, g)
  BY <1>1, <1>2, <1>5 DEF Refs
<1>7. Refs(y, h) = Refs(x, h) \cup {s} /\ s \notin Refs(x, h)
  BY <1>1, <1>2, <1>3, <1>5 DEF Refs
<1>8. Cardinality(Refs(y, h)) = Cardinality(Refs(x, h)) + 1
  BY <1>7, RefsFinite, FS_AddElement
<1>9. \A g \in Files(y) : y.ino[g].cnts >= 1 /\ Cardinality(Refs(y, g)) <= y.ino[g].cnts
  BY <1>2, <1>3, <1>6, <1>8 DEF MemInv
<1> QED BY <1>2, <1>3, <1>4, <1>9 DEF MemInv

\* inode_close of the last one.
LEMMA CloseLast ==
  ASSUME NEW B, NEW c, MemInv(c, B), NEW h \in Files(c), c.ino[h].cnts = 1, Refs(c, h) = {},
         NEW y, y = Close(c, h)
  PROVE  /\ MemInv(y, B) /\ y.used = c.used /\ y.ibits = c.ibits /\ y.panic = c.panic
         /\ y.open = c.open \ {h} /\ y.slots = c.slots /\ Files(y) = Files(c) \ {h}
         /\ \A g \in y.open : y.ino[g] = c.ino[g]
         /\ \A g : Refs(y, g) = Refs(c, g)
<1>1. IsCore(c) /\ c.open \subseteq Handles /\ h \in Handles /\ h # ROOT
  BY DEF MemInv, Files
<1>2. y = [c EXCEPT !.open = @ \ {h}, !.ino[h] = InMemory(ROOT, 0, NewInode)]
  BY <1>1 DEF Close
<1>3. /\ IsCore(y) /\ y.used = c.used /\ y.ibits = c.ibits /\ y.panic = c.panic
      /\ y.open = c.open \ {h} /\ y.slots = c.slots
      /\ \A g \in y.open : y.ino[g] = c.ino[g]
  BY <1>1, <1>2 DEF IsCore
<1>4. Files(y) = Files(c) \ {h} /\ \A g : Refs(y, g) = Refs(c, g)
  BY <1>3 DEF Files, Refs
<1>5. y.slots \in [Slots -> Files(y) \cup {NULL}]
  <2>1. \A t \in Slots : c.slots[t] # h /\ c.slots[t] \in Files(c) \cup {NULL}
    BY DEF MemInv, Refs
  <2> QED BY <1>3, <1>4, <2>1 DEF MemInv
<1>6. ROOT \in y.open /\ y.ino[ROOT].i_no = ROOT /\ y.open \subseteq Handles /\ y.open \subseteq c.open
  BY <1>1, <1>3 DEF MemInv
<1>7. \A g \in Files(y) : g \in Files(c) /\ y.ino[g] = c.ino[g]
  BY <1>3, <1>4 DEF Files
<1> QED BY <1>3, <1>4, <1>5, <1>6, <1>7 DEF MemInv

\* The memory after file_close.
Closing(c, s) == [Close(c, c.slots[s]) EXCEPT !.slots[s] = NULL]

\* file_close.
LEMMA CloseSlot ==
  ASSUME NEW B, NEW c, MemInv(c, B), NEW s \in Slots, c.slots[s] # NULL,
         NEW h, h = c.slots[s], NEW y, y = Closing(c, s)
  PROVE  /\ h \in Files(c)
         /\ MemInv(y, B) /\ y.used = c.used /\ y.ibits = c.ibits /\ y.panic = c.panic
         /\ y.open \subseteq c.open /\ Files(y) \subseteq Files(c)
         /\ \A g \in y.open : Of(y.ino[g]) = Of(c.ino[g]) /\ y.ino[g].i_no = c.ino[g].i_no
<1>1. /\ IsCore(c) /\ c.open \subseteq Handles /\ c.slots \in [Slots -> Files(c) \cup {NULL}]
      /\ h \in Files(c)
  BY DEF MemInv
<1>2. h \in Handles /\ h # ROOT /\ h \in c.open /\ IsInode(c.ino[h], B)
  BY <1>1 DEF MemInv, Files
<1>3. s \in Refs(c, h) /\ Cardinality(Refs(c, h)) <= c.ino[h].cnts
  BY <1>1 DEF MemInv, Refs
<1> DEFINE T == Refs(c, h) \ {s}
<1>4. Cardinality(T) = Cardinality(Refs(c, h)) - 1
  BY <1>3, RefsFinite, FS_RemoveElement
<1>5. \A g \in Files(c) : g # NULL /\ g \in c.open
  BY Consts DEF Files, MemInv
<1>6. CASE c.ino[h].cnts = 1
  <2>1. y = [c EXCEPT !.open = @ \ {h}, !.ino[h] = InMemory(ROOT, 0, NewInode), !.slots[s] = NULL]
    BY <1>1, <1>2, <1>6 DEF Close, Closing, IsCore
  <2>2. /\ IsCore(y) /\ y.used = c.used /\ y.ibits = c.ibits /\ y.panic = c.panic
        /\ y.open = c.open \ {h} /\ y.slots = [c.slots EXCEPT ![s] = NULL]
        /\ \A g \in y.open : y.ino[g] = c.ino[g]
    BY ONLY <1>1, <1>2, <2>1 DEF IsCore
  <2>3. Files(y) = Files(c) \ {h}
    BY <2>2 DEF Files
  <2>4. T = {}
    <3>1. Cardinality(T) = 0 /\ IsFiniteSet(T)
      <4>1. IsFiniteSet(T) /\ Cardinality(T) \in Nat
        BY RefsFinite, FS_Subset, FS_CardinalityType
      <4> QED BY <4>1, <1>3, <1>4, <1>6, RefsFinite
    <3> QED BY <3>1, FS_EmptySet
  <2>5. y.slots \in [Slots -> Files(y) \cup {NULL}]
    BY ONLY <1>1, <2>2, <2>3, <2>4 DEF T, Refs
  <2>6. \A g \in Files(y) : Refs(y, g) = Refs(c, g) /\ y.ino[g] = c.ino[g] /\ g \in Files(c)
    <3>1. \A g \in Files(y) : g # NULL /\ g # h /\ g \in y.open /\ g \in Files(c)
      BY <1>5, <2>3, <2>2 DEF Files
    <3> QED BY <1>1, <2>2, <3>1 DEF Refs
  <2>7. ROOT \in y.open /\ y.ino[ROOT].i_no = ROOT /\ y.open \subseteq Handles /\ y.open \subseteq c.open
    BY <1>2, <2>2 DEF MemInv
  <2>8. MemInv(y, B)
    BY <2>2, <2>5, <2>6, <2>7 DEF MemInv
  <2> QED BY <1>1, <2>2, <2>3, <2>7, <2>8
<1>7. CASE c.ino[h].cnts # 1
  <2>1. y = [c EXCEPT !.ino[h] = Down(@), !.slots[s] = NULL]
    BY <1>1, <1>2, <1>7 DEF Close, Closing, IsCore, Down
  <2>2. /\ IsCore(y) /\ y.used = c.used /\ y.ibits = c.ibits /\ y.panic = c.panic
        /\ y.open = c.open /\ y.slots = [c.slots EXCEPT ![s] = NULL]
        /\ \A g \in y.open \ {h} : y.ino[g] = c.ino[g]
        /\ y.ino[h] = Down(c.ino[h])
    BY ONLY <1>1, <1>2, <2>1 DEF IsCore
  <2>3. Files(y) = Files(c)
    BY <2>2 DEF Files
  <2>4. c.ino[h].cnts \in Nat /\ c.ino[h].cnts >= 1
    BY <1>1, <1>2 DEF MemInv, IsInode
  <2>5. /\ y.ino[h].cnts = c.ino[h].cnts - 1 /\ y.ino[h].i_no = c.ino[h].i_no
        /\ Of(y.ino[h]) = Of(c.ino[h])
        /\ IsInode(y.ino[h], B)
    <3>1. PICK i, n, z, t : c.ino[h] = [i_no |-> i, cnts |-> n, size |-> z, sectors |-> t]
      BY <1>2 DEF IsInode
    <3>2. y.ino[h] = [i_no |-> i, cnts |-> n - 1, size |-> z, sectors |-> t]
      <4>1. \A m : Down([i_no |-> i, cnts |-> m, size |-> z, sectors |-> t])
                   = [i_no |-> i, cnts |-> m - 1, size |-> z, sectors |-> t]
        BY DEF Down
      <4> QED BY <4>1, <3>1, <2>2, Zenon
    <3>3. n - 1 \in Nat
      BY <3>1, <2>4, <1>7
    <3> QED BY <3>1, <3>2, <3>3, <1>2 DEF IsInode, Of
  <2>6. y.slots \in [Slots -> Files(y) \cup {NULL}]
    BY ONLY <1>1, <2>2, <2>3
  <2>7. \A g \in Files(c) : g # h => Refs(y, g) = Refs(c, g)
    BY <1>1, <1>5, <2>2 DEF Refs
  <2>8. Refs(y, h) = T
    BY <1>1, <1>5, <2>2 DEF Refs
  <2>9. \A g \in y.open : IsInode(y.ino[g], B) /\ Of(y.ino[g]) = Of(c.ino[g])
                          /\ y.ino[g].i_no = c.ino[g].i_no
    BY <2>2, <2>5 DEF MemInv
  <2>10. \A g \in Files(y) : y.ino[g].cnts >= 1 /\ Cardinality(Refs(y, g)) <= y.ino[g].cnts
    <3>1. y.ino[h].cnts >= 1 /\ Cardinality(Refs(y, h)) <= y.ino[h].cnts
      BY ONLY <1>3, <1>4, <1>7, <2>4, <2>5, <2>8, RefsFinite
    <3>2. \A g \in Files(c) \ {h} : y.ino[g] = c.ino[g]
      BY <1>5, <2>2
    <3> QED BY <2>3, <2>7, <3>1, <3>2 DEF MemInv
  <2>11. MemInv(y, B)
    <3>1. \A f, g \in y.open : y.ino[f].i_no = y.ino[g].i_no => f = g
      BY <2>2, <2>9 DEF MemInv
    <3>2. ROOT \in y.open /\ y.ino[ROOT].i_no = ROOT /\ y.open \subseteq Handles
      BY <1>1, <2>2, <2>9 DEF MemInv
    <3> QED BY <2>2, <2>6, <2>9, <2>10, <3>1, <3>2 DEF MemInv
  <2> QED BY <1>1, <2>2, <2>3, <2>9, <2>11
<1> QED BY <1>6, <1>7

\* New bitmaps.
WithUsed(c, u) == [c EXCEPT !.used = u]
WithBits(c, u) == [c EXCEPT !.ibits = u]

\* The bits are no matter of the inodes in memory.
LEMMA UsedMem ==
  ASSUME NEW B, NEW c, MemInv(c, B), NEW u, NEW y, y = WithUsed(c, u)
  PROVE  /\ MemInv(y, B) /\ y.used = u /\ y.ibits = c.ibits /\ y.panic = c.panic
         /\ y.open = c.open /\ y.slots = c.slots /\ y.ino = c.ino /\ Files(y) = Files(c)
<1>1. IsCore(c)
  BY DEF MemInv
<1>2. /\ IsCore(y) /\ y.used = u /\ y.ibits = c.ibits /\ y.panic = c.panic
      /\ y.open = c.open /\ y.slots = c.slots /\ y.ino = c.ino
  BY <1>1 DEF IsCore, WithUsed
<1>3. MemInv(y, B) /\ Files(y) = Files(c)
  BY <1>2, SameMem
<1> QED BY <1>2, <1>3

\* Nor are those of the inode bitmap.
LEMMA BitsMem ==
  ASSUME NEW B, NEW c, MemInv(c, B), NEW u, NEW y, y = WithBits(c, u)
  PROVE  /\ MemInv(y, B) /\ y.used = c.used /\ y.ibits = u /\ y.panic = c.panic
         /\ y.open = c.open /\ y.slots = c.slots /\ y.ino = c.ino /\ Files(y) = Files(c)
<1>1. IsCore(c)
  BY DEF MemInv
<1>2. /\ IsCore(y) /\ y.used = c.used /\ y.ibits = u /\ y.panic = c.panic
      /\ y.open = c.open /\ y.slots = c.slots /\ y.ino = c.ino
  BY <1>1 DEF IsCore, WithBits
<1>3. MemInv(y, B) /\ Files(y) = Files(c)
  BY <1>2, SameMem
<1> QED BY <1>2, <1>3

\* A new size, and a new sector.
Sized(ino, n) == [ino EXCEPT !.size = n]
Placed(ino, k, b) == [ino EXCEPT !.sectors[k] = b]

\* inode_write has put the b-th block in the k-th sector of h.
WriteAt(c, h, n, k, b) == [c EXCEPT !.ino[h].size = n, !.ino[h].sectors[k] = b]
SectorsWith(ino, k, b) == [ino.sectors EXCEPT ![k] = b]

\* The memory of an inode after inode_write.
Written(B, c, h, n, k, b, y) ==
  /\ MemInv(y, B) /\ y.used = c.used /\ y.ibits = c.ibits /\ y.panic = c.panic
  /\ y.open = c.open /\ y.slots = c.slots /\ Files(y) = Files(c)
  /\ \A g \in c.open \ {h} : y.ino[g] = c.ino[g]
  /\ y.ino[h] = InMemory(c.ino[h].i_no, c.ino[h].cnts,
                  [size |-> n, sectors |-> SectorsWith(c.ino[h], k, b)])

\* inode_write changes the size and one sector of one inode.
LEMMA WriteMem ==
  ASSUME NEW B, NEW c, MemInv(c, B), NEW h \in c.open, NEW n \in 0..Capacity,
         NEW k \in Sectors, NEW b \in B,
         NEW y, y = WriteAt(c, h, n, k, b)
  PROVE  Written(B, c, h, n, k, b, y)
<1>1. IsCore(c) /\ c.open \subseteq Handles /\ IsInode(c.ino[h], B)
  BY DEF MemInv
<1>2. PICK i, m, z, t : c.ino[h] = [i_no |-> i, cnts |-> m, size |-> z, sectors |-> t]
  BY <1>1 DEF IsInode
<1>3. /\ IsCore(y) /\ y.used = c.used /\ y.ibits = c.ibits /\ y.panic = c.panic
      /\ y.open = c.open /\ y.slots = c.slots
      /\ \A g \in c.open \ {h} : y.ino[g] = c.ino[g]
      /\ y.ino[h] = Placed(Sized(c.ino[h], n), k, b)
  BY <1>1 DEF IsCore, Sized, Placed, WriteAt
<1>4. y.ino[h] = [i_no |-> i, cnts |-> m, size |-> n, sectors |-> [t EXCEPT ![k] = b]]
  <2>1. \A u, v : Sized([i_no |-> i, cnts |-> m, size |-> u, sectors |-> v], n)
                   = [i_no |-> i, cnts |-> m, size |-> n, sectors |-> v]
    BY DEF Sized
  <2>2. \A u, v : Placed([i_no |-> i, cnts |-> m, size |-> u, sectors |-> v], k, b)
                   = [i_no |-> i, cnts |-> m, size |-> u, sectors |-> [v EXCEPT ![k] = b]]
    BY DEF Placed
  <2>3. c.ino[h] = [i_no |-> i, cnts |-> m, size |-> z, sectors |-> t]
    BY <1>2
  <2>4. y.ino[h] = Placed(Sized([i_no |-> i, cnts |-> m, size |-> z, sectors |-> t], n), k, b)
    BY <1>3, <2>3
  <2>5. y.ino[h] = Placed([i_no |-> i, cnts |-> m, size |-> n, sectors |-> t], k, b)
    BY ONLY <2>1, <2>4
  <2> QED BY ONLY <2>2, <2>5
<1>5. /\ y.ino[h].i_no = c.ino[h].i_no /\ y.ino[h].cnts = c.ino[h].cnts
      /\ y.ino[h] = InMemory(c.ino[h].i_no, c.ino[h].cnts,
                         [size |-> n, sectors |-> [c.ino[h].sectors EXCEPT ![k] = b]])
  BY <1>2, <1>4 DEF InMemory
<1>6. IsInode(y.ino[h], B)
  <2>1. t \in [Sectors -> {0} \cup B]
    BY <1>1, <1>2 DEF IsInode
  <2>2. [t EXCEPT ![k] = b] \in [Sectors -> {0} \cup B]
    BY <2>1
  <2> QED BY <1>1, <1>2, <1>4, <2>2 DEF IsInode
<1>7. Files(y) = Files(c) /\ \A g : Refs(y, g) = Refs(c, g)
  BY <1>3 DEF Files, Refs
<1>8. \A g \in c.open : /\ IsInode(y.ino[g], B)
                        /\ y.ino[g].i_no = c.ino[g].i_no /\ y.ino[g].cnts = c.ino[g].cnts
  BY <1>3, <1>5, <1>6 DEF MemInv
<1>9. \A g \in Files(c) : g \in c.open
  BY DEF Files
<1>10. MemInv(y, B)
  <2>1. y.slots \in [Slots -> Files(y) \cup {NULL}] /\ ROOT \in y.open /\ y.ino[ROOT].i_no = ROOT
    BY <1>3, <1>7, <1>8 DEF MemInv
  <2>2. \A f, g \in y.open : y.ino[f].i_no = y.ino[g].i_no => f = g
    BY <1>3, <1>8 DEF MemInv
  <2>3. \A g \in Files(y) : y.ino[g].cnts >= 1 /\ Cardinality(Refs(y, g)) <= y.ino[g].cnts
    BY <1>7, <1>8, <1>9 DEF MemInv
  <2> QED BY <1>1, <1>3, <1>8, <2>1, <2>2, <2>3 DEF MemInv
<1> QED BY <1>3, <1>5, <1>7, <1>10 DEF SectorsWith, Written

-----------------------------------------------------------------------------
(* The directory *)

\* The inode of the root directory.
LEMMA RootIno ==
  ASSUME MemInv(core, Blocks), RootInv
  PROVE  /\ ROOT \in core.open /\ root.i_no = ROOT /\ IsInode(root, Blocks)
         /\ root.size \in 2..Capacity /\ root.size \in Nat
         /\ root.sectors \in [Sectors -> {0} \cup Blocks]
         /\ \A c \in 0..root.size - 1 :
              /\ c \in Nat /\ c < Capacity /\ c \div PerBlock \in Sectors /\ c % PerBlock \in 0..PerBlock - 1
              /\ root.sectors[c \div PerBlock] \in BlocksOf(root)
              /\ Dir(c) = dsk.blk[root.sectors[c \div PerBlock]][c % PerBlock]
<1>1. ROOT \in core.open /\ root.i_no = ROOT /\ IsInode(root, Blocks)
  BY DEF MemInv, root
<1>2. root.size \in 2..Capacity /\ root.sectors \in [Sectors -> {0} \cup Blocks]
  BY <1>1 DEF RootInv, IsInode
<1>3. \A c \in 0..root.size - 1 : c \in 0..Capacity - 1
  BY <1>2, Consts
<1>4. \A c \in 0..root.size - 1 : root.sectors[c \div PerBlock] # 0
  BY DEF RootInv
<1>5. \A c \in 0..root.size - 1 : c \div PerBlock \in Sectors /\ c % PerBlock \in 0..PerBlock - 1
  BY <1>3, Place
<1>6. \A c \in 0..root.size - 1 : root.sectors[c \div PerBlock] \in BlocksOf(root)
  BY <1>4, <1>5 DEF BlocksOf
<1>7. \A c \in 0..root.size - 1 : Dir(c) = dsk.blk[root.sectors[c \div PerBlock]][c % PerBlock]
  BY <1>4 DEF Dir, Cell
<1> QED BY <1>1, <1>2, <1>3, <1>5, <1>6, <1>7, Consts

\* The entries of the directory.
LEMMA UsedLemma ==
  ASSUME RootInv
  PROVE  /\ \A c \in Used : /\ c \in 0..root.size - 1 /\ c \in Nat /\ c >= 2 /\ Dir(c) # NULL
                            /\ Dir(c).filename \in Names /\ Dir(c).i_no \in Inodes /\ Dir(c).i_no # ROOT
                            /\ Dir(c) = Entry(Dir(c).filename, Dir(c).i_no)
                            /\ Dir(c).i_no \in Named
         /\ \A c \in 0..root.size - 1 : Dir(c) # NULL => c \in Used \/ Dir(c) = Entry(NULL, ROOT)
         /\ Named \subseteq Inodes \ {ROOT}
         /\ \A n : HasName(n) => n \in Names
         /\ Present = {Dir(c).filename : c \in Used}
         /\ \A n : n \in Present <=> HasName(n)
<1>1. root.size \in 2..Capacity /\ Capacity \in Nat
  BY Consts DEF RootInv
<1>2. \A c \in Used : c \in 2..root.size - 1 /\ Dir(c) # NULL
  BY DEF Used
<1>3. \A c \in Used : Dir(c) \in [filename : Names, i_no : Inodes \ {ROOT}]
  BY DEF RootInv
<1>4. /\ \A c \in Used : /\ c \in 0..root.size - 1 /\ c \in Nat /\ c >= 2 /\ Dir(c) # NULL
                         /\ Dir(c).filename \in Names /\ Dir(c).i_no \in Inodes /\ Dir(c).i_no # ROOT
                         /\ Dir(c) = Entry(Dir(c).filename, Dir(c).i_no)
                         /\ Dir(c).i_no \in Named
  BY <1>1, <1>2, <1>3 DEF Entry, Named
<1>5. \A c \in 0..root.size - 1 : c \in {0, 1} \/ c \in 2..root.size - 1
  BY <1>1
<1>6. \A c \in 0..root.size - 1 : Dir(c) # NULL => c \in Used \/ Dir(c) = Entry(NULL, ROOT)
  BY <1>5 DEF Used, RootInv
<1>7. Present = {Dir(c).filename : c \in Used}
  <2>1. \A c \in 0..root.size - 1 : Dir(c) = Cell(core.ino[ROOT], c)
    BY DEF Dir, root
  <2>2. Present = {Dir(c).filename : c \in {c \in 0..root.size - 1 : Dir(c) # NULL}} \ {NULL}
    BY <2>1 DEF Present, root
  <2>3. Entry(NULL, ROOT).filename = NULL
    BY DEF Entry
  <2> QED BY <2>2, <2>3, <1>4, <1>6, Consts
<1>8. \A n : n \in Present <=> HasName(n)
  BY <1>7 DEF HasName
<1> QED BY <1>4, <1>6, <1>7, <1>8 DEF Named, HasName

\* What is not written to stays as it is.
LEMMA RootFrame ==
  ASSUME RootInv, MemInv(core, Blocks), root'.size = root.size, root'.sectors = root.sectors,
         \A b \in BlocksOf(root) : dsk'.blk[b] = dsk.blk[b]
  PROVE  /\ RootInv' /\ (\A c \in 0..root.size - 1 : Dir(c)' = Dir(c)) /\ Used' = Used /\ Named' = Named
         /\ Present' = Present /\ (\A n : HasName(n)' <=> HasName(n))
<1>1. \A c \in 0..root.size - 1 : Dir(c)' = Dir(c)
  <2>1. \A c \in 0..root.size - 1 : /\ root.sectors[c \div PerBlock] \in BlocksOf(root)
                                    /\ root.sectors[c \div PerBlock] # 0
                                    /\ Dir(c) = dsk.blk[root.sectors[c \div PerBlock]][c % PerBlock]
    BY RootIno DEF RootInv
  <2> QED BY <2>1 DEF Dir, Cell
<1>2. \A c \in 2..root.size - 1 : c \in 0..root.size - 1
  BY DEF RootInv
<1>3. Used' = Used
  <2>1. \A c \in 2..root.size - 1 : Dir(c)' # NULL <=> Dir(c) # NULL
    BY <1>1, <1>2
  <2> QED BY <2>1 DEF Used
<1>4. \A c \in Used : Dir(c)' = Dir(c)
  BY <1>1, <1>2 DEF Used
<1>5. Named' = Named /\ \A n : HasName(n)' <=> HasName(n)
  BY <1>3, <1>4 DEF Named, HasName
<1>6. RootInv'
  <2>1. 0 \in 0..root.size - 1 /\ 1 \in 0..root.size - 1
    BY DEF RootInv
  <2>2. root'.size \in 2..Capacity /\ \A c \in 0..root'.size - 1 : root'.sectors[c \div PerBlock] # 0
    BY DEF RootInv
  <2>3. Dir(0)' = Entry(NULL, ROOT) /\ Dir(1)' = Entry(NULL, ROOT)
    BY <1>1, <2>1 DEF RootInv
  <2>4. \A c \in Used : Dir(c) \in [filename : Names, i_no : Inodes \ {ROOT}]
    BY DEF RootInv
  <2>5. \A c, d \in Used : Dir(c).filename = Dir(d).filename \/ Dir(c).i_no = Dir(d).i_no => c = d
    BY DEF RootInv
  <2>6. \A c \in Used' : Dir(c)' \in [filename : Names, i_no : Inodes \ {ROOT}]
    BY <1>3, <1>4, <2>4
  <2>7. \A c, d \in Used' : Dir(c)'.filename = Dir(d)'.filename \/ Dir(c)'.i_no = Dir(d)'.i_no => c = d
    BY <1>3, <1>4, <2>5
  <2> QED BY <2>2, <2>3, <2>6, <2>7 DEF RootInv
<1>7. Present' = Present
  <2> DEFINE S == {c \in 0..root.size - 1 : Dir(c) # NULL}
             T == {c \in 0..root.size - 1 : Dir(c)' # NULL}
  <2>1. Present = {Dir(c).filename : c \in S} \ {NULL}
    BY DEF Present, Dir, root
  <2>2. Present' = {Dir(c)'.filename : c \in T} \ {NULL}
    BY DEF Present, Dir, root
  <2>3. S = T /\ \A c \in S : Dir(c)' = Dir(c)
    BY <1>1
  <2> QED BY <2>1, <2>2, <2>3
<1> QED BY <1>1, <1>3, <1>5, <1>6, <1>7

\* A listing sees nothing of a step that leaves the directory alone.
LEMMA LsFrame ==
  ASSUME LsInv, Watch(ls), root'.size = root.size, Present' = Present, Used' = Used,
         \A c \in Used : Dir(c)' = Dir(c)
  PROVE  LsInv'
<1>1. CASE ls.st = "open"
  <2>1. ls' = [ls EXCEPT !.there = @ \cap Present, !.seen = @ \cap Present, !.again = @ \cap Present]
    BY <1>1 DEF Watch
  <2>2. ls = [st |-> ls.st, pos |-> ls.pos, there |-> ls.there, seen |-> ls.seen, again |-> ls.again]
    BY DEF LsInv
  <2>3. /\ ls.there \subseteq Present /\ ls.pos \in 0..root.size /\ ls.seen = Seen /\ ls.again = {}
    BY <1>1 DEF LsInv
  <2>4. ls.seen \subseteq ls.there
    BY <2>3 DEF Seen
  <2>5. ls.there \cap Present = ls.there /\ ls.seen \cap Present = ls.seen /\ ls.again \cap Present = {}
    BY <2>3, <2>4
  <2>6. /\ ls' = [st |-> ls'.st, pos |-> ls'.pos, there |-> ls'.there, seen |-> ls'.seen, again |-> ls'.again]
        /\ ls'.st = ls.st /\ ls'.pos = ls.pos
        /\ ls'.there = ls.there \cap Present
        /\ ls'.seen = ls.seen \cap Present /\ ls'.again = ls.again \cap Present
    BY ONLY <2>1, <2>2
  <2>7. ls'.there = ls.there /\ ls'.seen = ls.seen /\ ls'.again = {}
    BY ONLY <2>5, <2>6
  <2>8. Seen' = Seen
    BY <2>6, <2>7 DEF Seen
  <2> QED BY <1>1, <2>3, <2>6, <2>7, <2>8 DEF LsInv
<1>2. CASE ls.st # "open"
  <2>1. ls' = ls
    BY <1>2 DEF Watch
  <2> QED BY <1>2, <2>1 DEF LsInv
<1> QED BY <1>1, <1>2

-----------------------------------------------------------------------------
(* Steps that change no file *)

\* Types after a step.
LEMMA TypesStep ==
  ASSUME OneProgram, DTypes, NEW c, NEW a, NEW r, Go(prog, c, a, r), IsReq(r),
         a \in {"user"} \cup Calling, ~c.panic, c.used \subseteq Blocks, c.ibits \subseteq Inodes,
         dsk' = [used |-> dsk'.used, ibits |-> dsk'.ibits, itab |-> dsk'.itab, blk |-> dsk'.blk],
         dsk'.used \subseteq Blocks, dsk'.ibits \subseteq Inodes, dsk'.itab \in [Inodes -> DiskInode(Blocks)],
         DOMAIN dsk'.blk = Blocks, \A b \in Blocks : DOMAIN dsk'.blk[b] = 0..PerBlock - 1
  PROVE  DTypes' /\ Blocks' = Blocks
<1>1. core' = c /\ at' = a /\ rq' = r /\ DOMAIN pc' = Procs /\ DOMAIN req' = Procs
  BY GoLemma DEF DTypes
<1>2. Blocks' = Blocks
  BY DEF Blocks
<1> QED BY <1>1, <1>2 DEF DTypes, DiskInode

\* A step that leaves the disk alone.
LEMMA SameDisk ==
  ASSUME OneProgram, DTypes, NEW c, NEW a, NEW r, Go(prog, c, a, r), IsReq(r),
         a \in {"user"} \cup Calling, ~c.panic, c.used \subseteq Blocks, c.ibits \subseteq Inodes,
         dsk' = dsk
  PROVE  DTypes' /\ Blocks' = Blocks
BY TypesStep DEF DTypes, Blocks

\* A step that leaves the inode bitmap alone.
LEMMA BitsFrame ==
  ASSUME BitsInv, core'.ibits = core.ibits, dsk'.ibits = dsk.ibits,
         taken' = taken, mine' = mine, dead' = dead,
         Used' = Used, Named' = Named, \A c \in Used : Dir(c)' = Dir(c),
         \A h \in Files(core)' : core'.ino[h].i_no \in core.ibits \/ (at' \in Zeroing /\ h = rq'.h)
  PROVE  BitsInv' /\ Known' = Known
BY DEF BitsInv, Known

\* A step that leaves blocks and their bitmap alone.
LEMMA OwnFrame ==
  ASSUME OwnInv, Known' = Known, \A i \in Known : Node(i)' = Node(i), core'.used = core.used,
         \/ Extra' = Extra
         \/ Extra = {} /\ Extra' \subseteq UNION {BlocksOf(Node(i)) : i \in Known},
         dsk'.used \in {dsk.used, core.used},
         dsk'.used = core.used \/ ((at' = "bbit" <=> at = "bbit") /\ (at' = "bbit" => rq'.b = rq.b))
  PROVE  OwnInv'
<1> DEFINE U == UNION {BlocksOf(Node(i)) : i \in Known}
           V == UNION {BlocksOf(Node(i))' : i \in Known'}
<1>1. \A i \in Known : BlocksOf(Node(i))' = BlocksOf(Node(i)) /\ Distinct(Node(i))' = Distinct(Node(i))
  BY DEF BlocksOf, Distinct
<1>2. V = U
  BY <1>1
<1>3. core'.used = V \cup Extra'
  <2>1. core.used = U \cup Extra
    BY DEF OwnInv
  <2>2. Extra' = Extra \/ (Extra = {} /\ Extra' \subseteq U)
    OBVIOUS
  <2> HIDE DEF U, V
  <2> QED BY <1>2, <2>1, <2>2
<1>4. core'.used \subseteq dsk'.used \cup (IF at' = "bbit" THEN {rq'.b} ELSE {})
  BY DEF OwnInv
<1>5. \A i \in Known' : Distinct(Node(i))' /\ (Node(i)'.size > 0 => Node(i)'.sectors[0] # 0)
  BY <1>1 DEF OwnInv
<1>6. \A i, j \in Known' : i # j => BlocksOf(Node(i))' \cap BlocksOf(Node(j))' = {}
  BY <1>1 DEF OwnInv
<1> QED BY <1>3, <1>4, <1>5, <1>6 DEF OwnInv

\* A step in which files are opened and closed, or the call goes on.
LEMMA QuietLemma ==
  ASSUME OneProgram, DInv, NEW c, NEW a, NEW r, Go(prog, c, a, r), Watch(ls), IsReq(r),
         a \in {"user"} \cup Calling,
         \/ dsk' = dsk /\ (a = "bbit" <=> at = "bbit") /\ (a = "bbit" => r.b = rq.b)
         \/ dsk' = [dsk EXCEPT !.used = core.used],
         MemInv(c, Blocks), c.used = core.used, c.ibits = core.ibits, c.panic = core.panic,
         Of(c.ino[ROOT]) = Of(root),
         \A h \in Files(c) :
           /\ Of(c.ino[h]) = dsk.itab[c.ino[h].i_no] \/ (a \in Syncs /\ h = r.h)
           /\ c.ino[h].i_no \in core.ibits \/ (a \in Zeroing /\ h = r.h),
         a \in Syncs <=> at \in Syncs, a \in Syncs => c = core /\ r.h = rq.h,
         taken' = taken, mine' = mine, dead' = dead,
         \/ Extra' = Extra
         \/ Extra = {} /\ Extra' \subseteq UNION {BlocksOf(Node(i)) : i \in Known}
  PROVE  /\ DTypes' /\ MemInv(core, Blocks)' /\ SyncInv' /\ RootInv' /\ BitsInv' /\ OwnInv' /\ LsInv'
         /\ core' = c /\ at' = a /\ rq' = r /\ root'.size = root.size /\ root'.sectors = root.sectors
         /\ Used' = Used /\ (\A d \in 0..root.size - 1 : Dir(d)' = Dir(d))
         /\ (\A n : HasName(n)' <=> HasName(n)) /\ Known' = Known
         /\ Blocks' = Blocks /\ dsk'.itab = dsk.itab /\ dsk'.blk = dsk.blk
         /\ (\A i \in Known : Node(i)' = Node(i))
<1> USE DEF DInv
<1>1. core' = c /\ at' = a /\ rq' = r
  BY GoLemma DEF DTypes
<1>2. /\ dsk'.itab = dsk.itab /\ dsk'.blk = dsk.blk /\ dsk'.ibits = dsk.ibits
      /\ dsk'.used \in {dsk.used, core.used}
      /\ dsk'.used = core.used \/ ((a = "bbit" <=> at = "bbit") /\ (a = "bbit" => r.b = rq.b))
      /\ dsk' = [used |-> dsk'.used, ibits |-> dsk'.ibits, itab |-> dsk'.itab, blk |-> dsk'.blk]
  <2>1. dsk = [used |-> dsk.used, ibits |-> dsk.ibits, itab |-> dsk.itab, blk |-> dsk.blk]
    BY DEF DTypes
  <2>2. CASE dsk' = dsk /\ (a = "bbit" <=> at = "bbit") /\ (a = "bbit" => r.b = rq.b)
    BY <2>1, <2>2
  <2>3. CASE dsk' = [dsk EXCEPT !.used = core.used]
    BY ONLY <2>1, <2>3
  <2> QED BY <2>2, <2>3
<1>3. DTypes' /\ Blocks' = Blocks
  <2>1. ~c.panic /\ c.used \subseteq Blocks /\ c.ibits \subseteq Inodes
    BY DEF DTypes
  <2>2. /\ dsk'.used \subseteq Blocks /\ dsk'.ibits \subseteq Inodes /\ dsk'.itab \in [Inodes -> DiskInode(Blocks)]
        /\ DOMAIN dsk'.blk = Blocks /\ \A b \in Blocks : DOMAIN dsk'.blk[b] = 0..PerBlock - 1
    BY <1>2 DEF DTypes, Blocks
  <2> QED BY <1>2, <2>1, <2>2, TypesStep
<1>4. MemInv(core, Blocks)'
  BY <1>1, <1>3
<1>5. root'.size = root.size /\ root'.sectors = root.sectors
  BY <1>1 DEF Of, root
<1>6. /\ RootInv' /\ (\A d \in 0..root.size - 1 : Dir(d)' = Dir(d)) /\ Used' = Used /\ Named' = Named
      /\ Present' = Present /\ (\A n : HasName(n)' <=> HasName(n))
  BY <1>2, <1>5, RootFrame
<1>7. \A d \in Used : Dir(d)' = Dir(d)
  <2>1. \A d \in Used : d \in 0..root.size - 1
    BY UsedLemma
  <2> QED BY <1>6, <2>1
<1>8. LsInv'
  BY <1>5, <1>6, <1>7, LsFrame
<1>9. SyncInv'
  <2>1. Of(core.ino[ROOT]) = dsk.itab[core.ino[ROOT].i_no] \/ (at \in Syncs /\ ROOT = rq.h)
    BY DEF SyncInv, MemInv
  <2>2. c.ino[ROOT].i_no = ROOT /\ core.ino[ROOT].i_no = ROOT
    BY DEF MemInv
  <2>3. Of(c.ino[ROOT]) = dsk.itab[c.ino[ROOT].i_no] \/ (a \in Syncs /\ ROOT = r.h)
    BY <2>1, <2>2 DEF root
  <2>4. \A h \in c.open : h = ROOT \/ h \in Files(c)
    BY DEF Files
  <2> QED BY <1>1, <1>2, <2>3, <2>4 DEF SyncInv
<1>10. BitsInv' /\ Known' = Known
  <2>1. \A h \in Files(core)' : core'.ino[h].i_no \in core.ibits \/ (at' \in Zeroing /\ h = rq'.h)
    BY <1>1
  <2> QED BY <1>1, <1>2, <1>6, <1>7, <2>1, BitsFrame
<1>11. \A i : Node(i)' = Node(i)
  BY <1>1, <1>2 DEF Node, Of
<1>12. OwnInv'
  <2>1. dsk'.used = core.used \/ ((at' = "bbit" <=> at = "bbit") /\ (at' = "bbit" => rq'.b = rq.b))
    BY <1>1, <1>2
  <2> QED BY <1>1, <1>2, <1>10, <1>11, <2>1, OwnFrame
<1> QED BY <1>1, <1>2, <1>3, <1>4, <1>5, <1>6, <1>8, <1>9, <1>10, <1>11, <1>12

-----------------------------------------------------------------------------
(* The locals of a call *)

\* The locals that a lookup, inode_write and a new call start with, and changes of
\* one of them.
ForLook(r, w) == [r EXCEPT !.why = w, !.off = 0, !.buf = NULL]
ForWrite(r, h, o, v) == [r EXCEPT !.why = "write", !.h = h, !.off = o, !.val = v]
ForCall(o, n) == [NoReq EXCEPT !.op = o, !.n = n]
WithOp(r, o) == [r EXCEPT !.op = o]
WithOff(r, o) == [r EXCEPT !.off = o]
WithBlock(r, b) == [r EXCEPT !.b = b]
WithBuf(r, v) == [r EXCEPT !.buf = v]
WithIno(r, i) == [r EXCEPT !.i = i]

\* Locals that differ in what a lookup sets.
LEMMA ReqLook ==
  ASSUME NEW r, IsReq(r), NEW w, NEW x, x = ForLook(r, w)
  PROVE  /\ IsReq(x) /\ x.op = r.op /\ x.n = r.n /\ x.why = w /\ x.off = 0 /\ x.slot = r.slot
         /\ x.h = r.h /\ x.i = r.i /\ x.new = r.new /\ x.b = r.b /\ x.val = r.val
BY DEF IsReq, ForLook

\* Locals that differ in what inode_write sets.
LEMMA ReqWrite ==
  ASSUME NEW r, IsReq(r), NEW h, NEW o, NEW v, NEW x,
         x = ForWrite(r, h, o, v)
  PROVE  /\ IsReq(x) /\ x.op = r.op /\ x.n = r.n /\ x.why = "write" /\ x.off = o /\ x.slot = r.slot
         /\ x.h = h /\ x.i = r.i /\ x.new = r.new /\ x.b = r.b /\ x.val = v
BY DEF IsReq, ForWrite

\* The locals of a call that begins.
LEMMA ReqNew ==
  ASSUME NEW o, NEW n, NEW x, x = ForCall(o, n)
  PROVE  IsReq(x) /\ x.op = o /\ x.n = n
BY DEF IsReq, ForCall, NoReq

\* Locals that differ in op.
LEMMA ReqOp ==
  ASSUME NEW r, IsReq(r), NEW o, NEW x, x = WithOp(r, o)
  PROVE  IsReq(x) /\ x.op = o
BY DEF IsReq, WithOp

\* Locals that differ in off.
LEMMA ReqOff ==
  ASSUME NEW r, IsReq(r), NEW o, NEW x, x = WithOff(r, o)
  PROVE  /\ IsReq(x) /\ x.op = r.op /\ x.n = r.n /\ x.why = r.why /\ x.off = o /\ x.slot = r.slot
         /\ x.h = r.h /\ x.i = r.i /\ x.new = r.new /\ x.b = r.b /\ x.val = r.val /\ x.buf = r.buf
BY DEF IsReq, WithOff

\* Locals that differ in b.
LEMMA ReqBlock ==
  ASSUME NEW r, IsReq(r), NEW b, NEW x, x = WithBlock(r, b)
  PROVE  /\ IsReq(x) /\ x.op = r.op /\ x.n = r.n /\ x.why = r.why /\ x.off = r.off /\ x.slot = r.slot
         /\ x.h = r.h /\ x.i = r.i /\ x.new = r.new /\ x.b = b /\ x.val = r.val /\ x.buf = r.buf
BY DEF IsReq, WithBlock

\* Locals that differ in buf.
LEMMA ReqBuf ==
  ASSUME NEW r, IsReq(r), NEW v, NEW x, x = WithBuf(r, v)
  PROVE  /\ IsReq(x) /\ x.op = r.op /\ x.n = r.n /\ x.why = r.why /\ x.off = r.off /\ x.slot = r.slot
         /\ x.h = r.h /\ x.i = r.i /\ x.new = r.new /\ x.b = r.b /\ x.val = r.val /\ x.buf = v
BY DEF IsReq, WithBuf

\* Locals that differ in i.
LEMMA ReqIno ==
  ASSUME NEW r, IsReq(r), NEW i, NEW x, x = WithIno(r, i)
  PROVE  /\ IsReq(x) /\ x.op = r.op /\ x.n = r.n /\ x.why = r.why /\ x.off = r.off /\ x.slot = r.slot
         /\ x.h = r.h /\ x.i = i /\ x.new = r.new /\ x.b = r.b /\ x.val = r.val /\ x.buf = r.buf
BY DEF IsReq, WithIno

\* A program that is in no call.
LEMMA UserCall ==
  ASSUME at' = "user", rq' = NoReq
  PROVE  CallInv' /\ mine' = {} /\ dead' = {} /\ taken' = {} /\ Extra' = {}
<1>1. rq'.op = "" /\ rq'.why = "" /\ at' = "user"
  BY DEF NoReq
<1>2. mine' = {} /\ dead' = {} /\ taken' = {} /\ Extra' = {}
  BY <1>1 DEF mine, dead, taken, Extra, Zeroing
<1>3. OpInv' /\ LookInv' /\ OpenInv' /\ NewInv'
  BY <1>1 DEF OpInv, LookInv, OpenInv, NewInv, Zeroing
<1>4. ZeroInv' /\ WriteInv' /\ BlockInv' /\ DirtyInv'
  BY <1>1 DEF ZeroInv, WriteInv, BlockInv, DirtyInv, Zeroing, Writing, Syncs
<1> QED BY <1>2, <1>3, <1>4 DEF CallInv

\* A call returns, and has changed no file.
LEMMA QuietReturn ==
  ASSUME OneProgram, DInv, NEW c, Return(prog, c), Watch(ls), dsk' = dsk,
         MemInv(c, Blocks), c.used = core.used, c.ibits = core.ibits, c.panic = core.panic,
         Of(c.ino[ROOT]) = Of(root),
         \A h \in Files(c) :
           Of(c.ino[h]) = dsk.itab[c.ino[h].i_no] /\ c.ino[h].i_no \in core.ibits,
         at \in {"user", "look", "open", "lock", "scan"}, mine = {}, dead = {}
  PROVE  DInv'
<1>1. Go(prog, c, "user", NoReq)
  BY DEF Return
<1>2. core' = c /\ at' = "user" /\ rq' = NoReq
  BY <1>1, GoLemma DEF DInv, DTypes
<1>3. CallInv' /\ mine' = mine /\ dead' = dead /\ taken' = taken /\ Extra' = Extra
  <2>1. taken = {} /\ Extra = {}
    BY DEF taken, Extra, Zeroing
  <2> QED BY <1>2, <2>1, UserCall
<1>4. IsReq(NoReq) /\ "user" \notin Syncs /\ at \notin Syncs /\ at # "bbit"
  BY DEF IsReq, NoReq, Syncs
<1>5. DTypes' /\ MemInv(core, Blocks)' /\ SyncInv' /\ RootInv' /\ BitsInv' /\ OwnInv' /\ LsInv'
  BY <1>1, <1>3, <1>4, QuietLemma
<1> QED BY <1>3, <1>5 DEF DInv

\* Files are as on disk, and marked, but in inode_sync and inode_free.
LEMMA FilesQuiet ==
  ASSUME DInv, at \notin Syncs, at \notin Zeroing
  PROVE  /\ \A h \in Files(core) :
             Of(core.ino[h]) = dsk.itab[core.ino[h].i_no] /\ core.ino[h].i_no \in core.ibits
         /\ Of(root) = dsk.itab[ROOT]
BY DEF DInv, SyncInv, BitsInv, MemInv, Files, root

-----------------------------------------------------------------------------
(* Calls *)

\* open, stat and unlink begin with a lookup.
LEMMA SearchStep ==
  ASSUME OneProgram, DInv, Search(prog), Watch(ls)
  PROVE  DInv'
<1>1. PICK n \in Names, op \in {"open", "stat", "unlink"} :
        /\ op = "unlink" => NotInMemory(n)
        /\ LookUp(prog, core, [NoReq EXCEPT !.op = op, !.n = n], op)
  BY DEF Search
<1>2. at = "user" /\ dsk' = dsk /\ rq = NoReq
  BY DEF Search, at, DInv, CallInv, OpInv
<1> DEFINE q == [NoReq EXCEPT !.op = op, !.n = n]
<1>3. IsReq(q) /\ q.op = op /\ q.n = n
  <2>1. q = ForCall(op, n)
    BY DEF ForCall
  <2> HIDE DEF q
  <2> QED BY <2>1, ReqNew
<1> HIDE DEF q
<1>4. PICK x : /\ Go(prog, core, "look", x)
               /\ IsReq(x) /\ x.op = op /\ x.n = n /\ x.why = op /\ x.off = 0
  <2>1. Go(prog, core, "look", [q EXCEPT !.why = op, !.off = 0, !.buf = NULL])
    BY <1>1 DEF LookUp, q
  <2>2. Go(prog, core, "look", ForLook(q, op))
    BY <2>1 DEF ForLook
  <2> QED BY <1>3, <2>2, ReqLook
<1>5. core' = core /\ at' = "look" /\ rq' = x
  BY <1>4, GoLemma DEF DInv, DTypes
<1>6. mine' = mine /\ dead' = dead /\ taken' = taken /\ Extra' = Extra
  BY <1>2, <1>4, <1>5 DEF mine, dead, taken, Extra, NoReq, Zeroing, Syncs
<1>7. /\ DTypes' /\ MemInv(core, Blocks)' /\ SyncInv' /\ RootInv' /\ BitsInv' /\ OwnInv' /\ LsInv'
      /\ root'.size = root.size
      /\ Used' = Used /\ (\A d \in 0..root.size - 1 : Dir(d)' = Dir(d))
  <2>1. "look" \in {"user"} \cup Calling /\ "look" \notin Syncs /\ at \notin Syncs /\ at \notin Zeroing
        /\ at # "bbit"
    BY <1>2 DEF Calling, Syncs, Zeroing
  <2>2. MemInv(core, Blocks) /\ Of(core.ino[ROOT]) = Of(root)
    BY DEF DInv, root
  <2> QED BY <1>2, <1>4, <1>6, <2>1, <2>2, FilesQuiet, QuietLemma
<1>8. op = "unlink" => Closed(n)'
  <2> SUFFICES ASSUME op = "unlink" PROVE Closed(n)'
    OBVIOUS
  <2>1. NotInMemory(n)
    BY <1>1
  <2>2. \A h \in Files(core), d \in Used : Dir(d) # Entry(n, core.ino[h].i_no) 
    BY <2>1, UsedLemma DEF NotInMemory, DInv, Files, root, Dir
  <2>3. \A d \in Used : Dir(d) = Entry(Dir(d).filename, Dir(d).i_no) /\ Dir(d)' = Dir(d)
    BY <1>7, UsedLemma DEF DInv
  <2> QED BY <1>5, <1>7, <2>2, <2>3 DEF Closed, Files
<1>9. root.size \in 2..Capacity
  BY DEF DInv, RootInv
<1>10. CallInv'
  <2>1. OpInv' /\ OpenInv' /\ NewInv' /\ ZeroInv'
    BY <1>4, <1>5 DEF OpInv, OpenInv, NewInv, ZeroInv, Zeroing
  <2>2. LookInv'
    <3>1. 0 \in 0..root'.size - 1
      BY <1>7, <1>9, Consts
    <3>2. \A d \in Used' : ~(d < 0)
      BY <1>7, <1>9 DEF Used
    <3> QED BY <1>4, <1>5, <1>8, <3>1, <3>2 DEF LookInv
  <2>3. WriteInv' /\ BlockInv' /\ DirtyInv'
    BY <1>5 DEF WriteInv, BlockInv, DirtyInv, Writing, Syncs
  <2> QED BY <2>1, <2>2, <2>3 DEF CallInv
<1> QED BY <1>7, <1>10 DEF DInv

\* close gives back a slot, and its inode when nobody else has it.
LEMMA CloseStep ==
  ASSUME OneProgram, DInv, file_close(prog), Watch(ls)
  PROVE  DInv'
<1>1. PICK s \in Slots : core.slots[s] # NULL
                         /\ Return(prog, [Close(core, core.slots[s]) EXCEPT !.slots[s] = NULL])
  BY DEF file_close, FreeSlots
<1>2. at = "user" /\ dsk' = dsk /\ rq = NoReq
  BY DEF file_close, at, DInv, CallInv, OpInv
<1>3. MemInv(core, Blocks)
  BY DEF DInv
<1> DEFINE y == [Close(core, core.slots[s]) EXCEPT !.slots[s] = NULL]
<1>4. /\ MemInv(y, Blocks) /\ y.used = core.used /\ y.ibits = core.ibits /\ y.panic = core.panic
      /\ y.open \subseteq core.open /\ Files(y) \subseteq Files(core)
      /\ \A g \in y.open : Of(y.ino[g]) = Of(core.ino[g]) /\ y.ino[g].i_no = core.ino[g].i_no
  <2>1. y = Closing(core, s)
    BY DEF Closing
  <2> HIDE DEF y
  <2> QED BY <1>1, <1>3, <2>1, CloseSlot
<1>5. Return(prog, y)
  BY <1>1
<1> HIDE DEF y
<1>6. \A h \in Files(y) : Of(y.ino[h]) = dsk.itab[y.ino[h].i_no] /\ y.ino[h].i_no \in core.ibits
  <2>1. at \notin Syncs /\ at \notin Zeroing
    BY <1>2 DEF Syncs, Zeroing
  <2>2. \A h \in Files(y) : h \in y.open /\ h \in Files(core)
    BY <1>4 DEF Files
  <2> QED BY <1>4, <2>1, <2>2, FilesQuiet
<1>7. Of(y.ino[ROOT]) = Of(root)
  BY <1>4 DEF MemInv, root
<1>8. mine = {} /\ dead = {}
  BY <1>2 DEF mine, dead, NoReq
<1> QED BY <1>2, <1>4, <1>5, <1>6, <1>7, <1>8, QuietReturn

\* write begins with inode_write of an open file.
LEMMA WriteStep ==
  ASSUME OneProgram, DInv, sys_write(prog), Watch(ls)
  PROVE  DInv'
<1>1. PICK s \in Slots, d \in Data :
        core.slots[s] # NULL /\ inode_write(prog, core, [NoReq EXCEPT !.op = "write"], core.slots[s], 0, d)
  BY DEF sys_write, FreeSlots
<1>2. at = "user" /\ dsk' = dsk /\ rq = NoReq
  BY DEF sys_write, at, DInv, CallInv, OpInv
<1> DEFINE h == core.slots[s]
           q == [NoReq EXCEPT !.op = "write"]
<1>3. h \in Files(core) /\ h \in core.open /\ h # ROOT
  BY <1>1 DEF DInv, MemInv, Files
<1>4. IsReq(q) /\ q.op = "write"
  <2>1. q = WithOp(NoReq, "write") /\ IsReq(NoReq)
    BY DEF WithOp, NoReq, IsReq
  <2> HIDE DEF q
  <2> QED BY <2>1, ReqOp
<1>5. Go(prog, core, "lock", [q EXCEPT !.why = "write", !.h = h, !.off = 0, !.val = d])
  <2>1. ~(0 >= Capacity)
    BY Consts
  <2> QED BY <1>1, <2>1 DEF inode_write, Capacity
<1> HIDE DEF h, q
<1>6. PICK x : /\ Go(prog, core, "lock", x) /\ IsReq(x) /\ x.op = "write" /\ x.why = "write"
               /\ x.h = h /\ x.off = 0 /\ x.val = d
  <2>1. Go(prog, core, "lock", ForWrite(q, h, 0, d))
    BY <1>5 DEF ForWrite
  <2> QED BY <1>4, <2>1, ReqWrite
<1>7. core' = core /\ at' = "lock" /\ rq' = x
  BY <1>6, GoLemma DEF DInv, DTypes
<1>8. mine' = mine /\ dead' = dead /\ taken' = taken /\ Extra' = Extra
  BY <1>2, <1>6, <1>7 DEF mine, dead, taken, Extra, NoReq, Zeroing, Syncs
<1>9. /\ DTypes' /\ MemInv(core, Blocks)' /\ SyncInv' /\ RootInv' /\ BitsInv' /\ OwnInv' /\ LsInv'
  <2>1. "lock" \in {"user"} \cup Calling /\ "lock" \notin Syncs /\ at \notin Syncs /\ at \notin Zeroing
        /\ at # "bbit"
    BY <1>2 DEF Calling, Writing, Syncs, Zeroing
  <2>2. MemInv(core, Blocks) /\ Of(core.ino[ROOT]) = Of(root)
    BY DEF DInv, root
  <2> QED BY <1>2, <1>6, <1>8, <2>1, <2>2, FilesQuiet, QuietLemma
<1>10. CallInv'
  <2>1. OpInv' /\ LookInv' /\ OpenInv' /\ NewInv' /\ ZeroInv'
    BY <1>6, <1>7 DEF OpInv, LookInv, OpenInv, NewInv, ZeroInv, Zeroing, Writing
  <2>2. WriteInv' /\ BlockInv' /\ DirtyInv'
    BY <1>3, <1>6, <1>7 DEF WriteInv, BlockInv, DirtyInv, Writing, Syncs
  <2> QED BY <2>1, <2>2 DEF CallInv
<1> QED BY <1>9, <1>10 DEF DInv

-----------------------------------------------------------------------------
(* inode_free of an inode without blocks *)

\* What inode_free does first.
Clearing(c, h) == [c EXCEPT !.ibits = @ \ {c.ino[h].i_no}]
ForFree(r, h) == [r EXCEPT !.h = h, !.off = 0]

\* Locals that differ in what inode_free sets.
LEMMA ReqFree ==
  ASSUME NEW r, IsReq(r), NEW h, NEW x, x = ForFree(r, h)
  PROVE  /\ IsReq(x) /\ x.op = r.op /\ x.n = r.n /\ x.why = r.why /\ x.off = 0 /\ x.slot = r.slot
         /\ x.h = h /\ x.i = r.i /\ x.new = r.new /\ x.b = r.b /\ x.val = r.val /\ x.buf = r.buf
BY DEF IsReq, ForFree

\* A creat that gives up: the new inode is given back.
LEMMA AbandonLemma ==
  ASSUME OneProgram, DInv, rq.op = "creat", at \in {"look", "open", "scan", "lock"},
         NEW c, Same(core, c), NEW r, IsReq(r), r.op = "creat",
         inode_free(prog, c, r, rq.new), dsk' = dsk, Watch(ls)
  PROVE  DInv'
<1> DEFINE h == rq.new
           i == core.ino[h].i_no
           x == Clearing(c, h)
           q == ForFree(r, h)
           y == Close(x, h)
<1>1. h \in Files(core) /\ Refs(core, h) = {} /\ core.ino[h] = InMemory(i, 1, NewInode)
  BY DEF DInv, CallInv, NewInv
<1>2. h \in core.open /\ h # ROOT
  BY <1>1 DEF Files
<1>3. core.ino[h].cnts = 1 /\ core.ino[h].sectors = [s \in Sectors |-> 0] /\ core.ino[h].size = 0
  BY <1>1 DEF InMemory, NewInode
<1>4. c.ino[h] = core.ino[h] /\ c.ibits = core.ibits /\ c.used = core.used /\ c.open = core.open
      /\ c.panic = core.panic /\ c.slots = core.slots
  BY <1>2 DEF Same
<1>5. /\ MemInv(c, Blocks) /\ Files(c) = Files(core) /\ Refs(c, h) = {}
  BY <1>1, SameMem DEF Same, DInv
<1>6. /\ MemInv(x, Blocks) /\ x.used = core.used /\ x.ibits = core.ibits \ {i} /\ x.panic = core.panic
      /\ x.open = core.open /\ x.slots = core.slots /\ x.ino = c.ino /\ Files(x) = Files(core)
  <2>1. x = WithBits(c, core.ibits \ {i})
    BY <1>4 DEF Clearing, WithBits
  <2> HIDE DEF x, i
  <2> QED BY <1>4, <1>5, <2>1, BitsMem
<1>7. IsReq(q) /\ q.h = h /\ q.off = 0 /\ q.op = "creat"
  BY ReqFree
<1>8. FreeBlocks(prog, x, q)
  BY DEF inode_free, Clearing, ForFree
<1> HIDE DEF x, q
<1>9. Return(prog, y)
  <2>1. {k \in Sectors : k >= q.off /\ x.ino[q.h].sectors[k] # 0} = {}
    BY <1>3, <1>4, <1>6, <1>7
  <2>2. Freed(prog, x, q)
    BY <1>8, <2>1 DEF FreeBlocks
  <2> QED BY <1>3, <1>4, <1>6, <1>7, <2>2 DEF Freed
<1>10. Refs(x, h) = {} /\ x.ino[h].cnts = 1 /\ h \in Files(x)
  BY <1>1, <1>3, <1>4, <1>6 DEF Refs
<1>11. /\ MemInv(y, Blocks) /\ y.used = core.used /\ y.ibits = core.ibits \ {i} /\ y.panic = core.panic
       /\ y.open = core.open \ {h} /\ Files(y) = Files(core) \ {h}
       /\ \A g \in y.open : y.ino[g] = core.ino[g]
  <2>1. /\ MemInv(y, Blocks) /\ y.used = x.used /\ y.ibits = x.ibits /\ y.panic = x.panic
        /\ y.open = x.open \ {h} /\ Files(y) = Files(x) \ {h}
        /\ \A g \in y.open : y.ino[g] = x.ino[g]
    BY <1>6, <1>10, CloseLast
  <2> QED BY <1>6, <2>1 DEF Same
<1> HIDE DEF y
<1>12. core' = y /\ at' = "user" /\ rq' = NoReq /\ Go(prog, y, "user", NoReq)
  BY <1>9, GoLemma DEF Return, DInv, DTypes
<1>13. CallInv' /\ mine' = {} /\ dead' = {} /\ taken' = {} /\ Extra' = {}
  BY <1>12, UserCall
<1>14. at \notin Syncs /\ at \notin Zeroing /\ at # "ibit" /\ at # "bbit" /\ mine = {i} /\ dead = {} /\ taken = {} /\ Extra = {}
  <2>1. at \notin Syncs /\ at \notin Zeroing /\ at # "ibit" /\ at # "bbit"
    BY DEF Syncs, Zeroing
  <2> QED BY <2>1 DEF mine, dead, taken, Extra
<1>15. DTypes' /\ Blocks' = Blocks
  <2>1. ~y.panic /\ y.used \subseteq Blocks /\ y.ibits \subseteq Inodes
    BY <1>11 DEF DInv, DTypes
  <2>2. IsReq(NoReq)
    BY DEF IsReq, NoReq
  <2> QED BY <1>12, <2>1, <2>2, SameDisk DEF DInv
<1>16. MemInv(core, Blocks)'
  BY <1>11, <1>12, <1>15
<1>17. ROOT \in y.open /\ root' = root
  BY <1>2, <1>11, <1>12 DEF root, DInv, MemInv
<1>18. /\ RootInv' /\ (\A d \in 0..root.size - 1 : Dir(d)' = Dir(d)) /\ Used' = Used /\ Named' = Named
       /\ Present' = Present
  BY <1>17, RootFrame DEF DInv
<1>19. \A d \in Used : Dir(d)' = Dir(d) /\ Dir(d).i_no \in Named
  BY <1>18, UsedLemma DEF DInv
<1>20. LsInv'
  BY <1>17, <1>18, <1>19, LsFrame DEF DInv
<1>21. SyncInv'
  <2>1. \A g \in core.open : Of(core.ino[g]) = dsk.itab[core.ino[g].i_no]
    BY <1>14 DEF DInv, SyncInv
  <2> QED BY <1>11, <1>12, <2>1 DEF SyncInv
<1>22. BitsInv'
  <2>1. i \notin Named /\ i # ROOT /\ i \in core.ibits
    BY <1>14 DEF DInv, BitsInv
  <2>2. \A g \in Files(core) \ {h} : core.ino[g].i_no # i
    BY <1>2 DEF Files, DInv, MemInv
  <2>3. ROOT \in y.ibits
    BY <1>11, <2>1 DEF DInv, BitsInv
  <2>4. \A d \in Used' : Dir(d)'.i_no \in y.ibits
    BY <1>11, <1>14, <1>18, <1>19, <2>1 DEF DInv, BitsInv
  <2>5. y.ibits \subseteq {ROOT} \cup Named'
    BY <1>11, <1>14, <1>18 DEF DInv, BitsInv
  <2>6. y.ibits \subseteq dsk.ibits
    BY <1>11, <1>14 DEF DInv, BitsInv
  <2>7. \A g \in Files(y) : y.ino[g].i_no \in y.ibits
    <3>1. \A g \in Files(core) : core.ino[g].i_no \in core.ibits
      BY <1>14 DEF DInv, BitsInv
    <3>2. \A g \in Files(y) : g \in y.open
      BY DEF Files
    <3> QED BY <1>11, <2>2, <3>1, <3>2
  <2>8. \A g \in Files(core)' : core'.ino[g].i_no \in core'.ibits
    BY <1>12, <2>7
  <2> QED BY <1>12, <1>13, <2>3, <2>4, <2>5, <2>6, <2>8 DEF BitsInv
<1>23. OwnInv'
  <2>1. Known = core.ibits /\ Known' = core.ibits \ {i} /\ Known' = Known \ {i}
    BY <1>11, <1>12, <1>13, <1>14 DEF Known
  <2>2. \A j : Node(j)' = dsk.itab[j] /\ Node(j) = dsk.itab[j]
    BY <1>12, <1>14 DEF Node, Syncs
  <2>3. BlocksOf(Node(i)) = {}
    <3>1. Of(core.ino[h]) = dsk.itab[i]
      BY <1>2, <1>14 DEF DInv, SyncInv
    <3>2. Node(i).sectors = [s \in Sectors |-> 0]
      BY <1>3, <2>2, <3>1 DEF Of
    <3> QED BY <3>2 DEF BlocksOf
  <2>4. \A j : BlocksOf(Node(j))' = BlocksOf(Node(j)) /\ Distinct(Node(j))' = Distinct(Node(j))
    BY <2>2 DEF BlocksOf, Distinct
  <2>5. i \in Known
    BY <2>1, <1>14 DEF DInv, BitsInv
  <2>6. core'.used = UNION {BlocksOf(Node(j))' : j \in Known'}
    <3>1. core.used = UNION {BlocksOf(Node(j)) : j \in Known}
      BY <1>14 DEF DInv, OwnInv
    <3> QED BY <1>11, <1>12, <2>1, <2>3, <2>4, <3>1
  <2>7. core'.used \subseteq dsk'.used
    BY <1>11, <1>12, <1>14 DEF DInv, OwnInv
  <2>8. \A j \in Known' : Distinct(Node(j))' /\ (Node(j)'.size > 0 => Node(j)'.sectors[0] # 0)
    BY <2>1, <2>2, <2>4 DEF DInv, OwnInv
  <2>9. \A j, k \in Known' : j # k => BlocksOf(Node(j))' \cap BlocksOf(Node(k))' = {}
    BY <2>1, <2>4 DEF DInv, OwnInv
  <2> QED BY <1>12, <1>13, <2>6, <2>7, <2>8, <2>9 DEF OwnInv
<1> QED BY <1>13, <1>15, <1>16, <1>18, <1>20, <1>21, <1>22, <1>23 DEF DInv

-----------------------------------------------------------------------------
(* Lookups *)

\* A call that goes on, and has changed no file.
LEMMA QuietGo ==
  ASSUME OneProgram, DInv, NEW c, Same(core, c), NEW a \in {"look", "open", "scan", "lock"},
         NEW r, Go(prog, c, a, r), IsReq(r), dsk' = dsk, Watch(ls),
         at \in {"look", "open", "scan", "lock"},
         r.op = rq.op, r.new = rq.new, r.n = rq.n, r.slot = rq.slot,
         rq.op = "unlink" => (r.why \in {"remove", "write"} <=> rq.why \in {"remove", "write"}),
         rq.op = "creat" /\ a \in {"scan", "lock"} => ~HasName(rq.n)
  PROVE  /\ DTypes' /\ MemInv(core, Blocks)' /\ SyncInv' /\ RootInv' /\ BitsInv' /\ OwnInv' /\ LsInv'
         /\ NewInv' /\ core' = c /\ at' = a /\ rq' = r /\ root'.size = root.size
         /\ Used' = Used /\ (\A d \in 0..root.size - 1 : Dir(d)' = Dir(d))
         /\ (\A d \in Used : Dir(d)' = Dir(d))
         /\ (\A n : HasName(n)' <=> HasName(n)) /\ (\A n : Closed(n)' <=> Closed(n))
         /\ (\A i : Find(core, i)' = Find(core, i))
<1>1. core' = c /\ at' = a /\ rq' = r
  BY GoLemma DEF DInv, DTypes
<1>2. /\ MemInv(c, Blocks) /\ Files(c) = Files(core) /\ (\A h : Refs(c, h) = Refs(core, h))
      /\ \A i : Find(c, i) = Find(core, i)
  BY SameMem DEF Same, DInv
<1>3. /\ c.used = core.used /\ c.ibits = core.ibits /\ c.panic = core.panic /\ c.slots = core.slots
      /\ \A h \in core.open : c.ino[h] = core.ino[h]
  BY DEF Same
<1>4. \A h \in Files(core) : h \in core.open /\ c.ino[h] = core.ino[h]
  BY <1>3 DEF Files
<1>5. ROOT \in core.open /\ c.ino[ROOT] = root
  BY <1>3 DEF DInv, MemInv, root
<1>6. /\ a \notin Syncs /\ at \notin Syncs /\ a \notin Zeroing /\ at \notin Zeroing
      /\ a # "bbit" /\ at # "bbit" /\ a # "ibit" /\ at # "ibit" /\ a \in {"user"} \cup Calling
      /\ Extra' = {} /\ Extra = {} /\ taken' = {} /\ taken = {}
  BY <1>1 DEF Syncs, Zeroing, Calling, Writing, Extra, taken
<1>7. mine' = mine
  <2>1. CASE rq.op = "creat"
    <3>1. rq.new \in Files(core)
      BY <1>6, <2>1 DEF DInv, CallInv, NewInv
    <3> QED BY <1>1, <1>4, <1>6, <2>1, <3>1 DEF mine
  <2>2. CASE rq.op # "creat"
    BY <1>1, <2>2 DEF mine
  <2> QED BY <2>1, <2>2
<1>8. dead' = dead
  BY <1>1, <1>6 DEF dead
<1>9. \A h \in Files(c) : Of(c.ino[h]) = dsk.itab[c.ino[h].i_no] /\ c.ino[h].i_no \in core.ibits
  BY <1>2, <1>4, <1>6, FilesQuiet
<1>10. /\ DTypes' /\ MemInv(core, Blocks)' /\ SyncInv' /\ RootInv' /\ BitsInv' /\ OwnInv' /\ LsInv'
       /\ root'.size = root.size
       /\ Used' = Used /\ (\A d \in 0..root.size - 1 : Dir(d)' = Dir(d))
       /\ (\A n : HasName(n)' <=> HasName(n))
  BY <1>2, <1>3, <1>5, <1>6, <1>7, <1>8, <1>9, QuietLemma
<1>11. \A d \in Used : Dir(d)' = Dir(d)
  BY <1>10, UsedLemma DEF DInv
<1>12. \A n : Closed(n)' <=> Closed(n)
  BY <1>1, <1>2, <1>4, <1>10, <1>11 DEF Closed
<1>13. \A i : Find(core, i)' = Find(core, i)
  BY <1>1, <1>2
<1>14. NewInv'
  <2> SUFFICES ASSUME rq.op = "creat" PROVE NewInv'
    BY <1>1 DEF NewInv
  <2>1. /\ rq.slot \in Slots /\ core.slots[rq.slot] = NULL /\ rq.new \in Files(core) /\ Refs(core, rq.new) = {}
        /\ core.ino[rq.new] = InMemory(core.ino[rq.new].i_no, 1, NewInode)
    BY <1>6 DEF DInv, CallInv, NewInv
  <2>2. rq.new \in Files(c) /\ Refs(c, rq.new) = {} /\ c.ino[rq.new] = InMemory(c.ino[rq.new].i_no, 1, NewInode)
    BY <1>2, <1>4, <2>1
  <2>3. at' \in {"scan"} \cup Writing => ~HasName(rq.n)'
    BY <1>1, <1>10 DEF Writing
  <2> QED BY <1>1, <1>3, <1>6, <2>1, <2>2, <2>3 DEF NewInv
<1> QED BY <1>1, <1>10, <1>11, <1>12, <1>13, <1>14

\* The rest of a lookup.
LEMMA LookRest ==
  ASSUME at' \in {"look", "open"}, rq'.op \in {"open", "stat", "unlink", "creat"}, rq'.n \in Names,
         LookInv', OpenInv', NewInv'
  PROVE  CallInv'
<1>1. OpInv' /\ ZeroInv'
  BY DEF OpInv, ZeroInv, Zeroing
<1>2. WriteInv' /\ BlockInv' /\ DirtyInv'
  BY DEF WriteInv, BlockInv, DirtyInv, Writing, Syncs
<1> QED BY <1>1, <1>2 DEF CallInv

\* Nothing has changed in memory.
LEMMA SameSelf ==
  ASSUME DInv
  PROVE  Same(core, core) /\ IsReq(rq) /\ MemInv(core, Blocks) /\ IsCore(core)
BY DEF Same, DInv, MemInv, DTypes

\* What a lookup knows of its locals.
LEMMA LookOps ==
  ASSUME DInv, at \in {"look", "open"}
  PROVE  /\ rq.op \in {"open", "stat", "unlink", "creat"} /\ rq.n \in Names
         /\ rq.op \in {"open", "stat"} => rq.why = rq.op
         /\ rq.op = "unlink" => rq.why \in {"unlink", "delete", "remove"}
         /\ rq.op = "creat" => rq.why = "link"
         /\ rq.off \in 0..root.size - 1 /\ rq.off \in Nat
         /\ rq.op \in {"open", "stat"} => dead = {}
         /\ rq.op # "creat" => mine = {}
<1>1. LookInv /\ OpInv
  BY DEF DInv, CallInv
<1>2. rq.op \in {"open", "stat", "unlink", "creat"} /\ rq.n \in Names
  BY <1>1 DEF LookInv, OpInv
<1>3. rq.off \in Nat
  BY <1>1 DEF LookInv, DInv, RootInv
<1>4. (rq.op \in {"open", "stat"} => dead = {}) /\ (rq.op # "creat" => mine = {})
  BY DEF dead, mine
<1> QED BY <1>1, <1>2, <1>3, <1>4 DEF LookInv

\* A call returns, and has changed nothing.
LEMMA SameReturn ==
  ASSUME OneProgram, DInv, NEW y, Same(core, y), Return(prog, y), dsk' = dsk, Watch(ls),
         at \in {"user", "look", "open", "lock", "scan"}, mine = {}, dead = {}
  PROVE  DInv'
<1>1. /\ MemInv(y, Blocks) /\ Files(y) = Files(core) /\ y.used = core.used /\ y.ibits = core.ibits
      /\ y.panic = core.panic /\ (\A g \in core.open : y.ino[g] = core.ino[g])
  BY SameMem, SameSelf DEF Same
<1>2. /\ Of(y.ino[ROOT]) = Of(root)
      /\ \A g \in Files(y) : Of(y.ino[g]) = dsk.itab[y.ino[g].i_no] /\ y.ino[g].i_no \in core.ibits
  <2>1. \A g \in Files(core) : Of(core.ino[g]) = dsk.itab[core.ino[g].i_no] /\ core.ino[g].i_no \in core.ibits
    BY FilesQuiet DEF Syncs, Zeroing
  <2>2. (\A g \in Files(core) : g \in core.open) /\ ROOT \in core.open
    BY DEF Files, DInv, MemInv
  <2> QED BY <1>1, <2>1, <2>2 DEF root
<1> QED BY <1>1, <1>2, QuietReturn

\* A call returns with a file that it has opened in a slot, or without.
LEMMA OpenReturn ==
  ASSUME OneProgram, DInv, at \in {"look", "open"}, rq.op \in {"open", "stat"}, NEW x, MemInv(x, Blocks),
         x.used = core.used, x.ibits = core.ibits, x.panic = core.panic, Of(x.ino[ROOT]) = Of(root),
         \A g \in Files(x) : Of(x.ino[g]) = dsk.itab[x.ino[g].i_no] /\ x.ino[g].i_no \in core.ibits,
         NEW h \in Files(x), Cardinality(Refs(x, h)) + 1 <= x.ino[h].cnts,
         Return(prog, IF FreeSlots(x) = {} THEN x ELSE [x EXCEPT !.slots[Least(FreeSlots(x))] = h]),
         dsk' = dsk, Watch(ls)
  PROVE  DInv'
<1>1. mine = {} /\ dead = {}
  BY LookOps
<1>2. CASE FreeSlots(x) = {}
  <2>1. Return(prog, x)
    BY <1>2
  <2> QED BY <1>1, <2>1, QuietReturn
<1>3. CASE FreeSlots(x) # {}
  <2> DEFINE s == Least(FreeSlots(x))
             y == [x EXCEPT !.slots[s] = h]
  <2>1. s \in Slots /\ x.slots[s] = NULL
    <3>1. FreeSlots(x) \subseteq Nat
      BY Consts DEF FreeSlots
    <3>2. s \in FreeSlots(x)
      BY <1>3, <3>1, LeastLemma
    <3> QED BY <3>2 DEF FreeSlots
  <2>2. Return(prog, y)
    BY <1>3
  <2> HIDE DEF s
  <2>3. /\ MemInv(y, Blocks) /\ y.used = x.used /\ y.ibits = x.ibits /\ y.panic = x.panic
        /\ y.open = x.open /\ y.ino = x.ino /\ Files(y) = Files(x)
    BY <2>1, SlotLemma
  <2> HIDE DEF y
  <2> QED BY <1>1, <2>2, <2>3, QuietReturn
<1> QED BY <1>2, <1>3

-----------------------------------------------------------------------------
(* dir_look_up *)

\* The entry has another name: the next one is read.
LEMMA LookNext ==
  ASSUME OneProgram, DInv, at = "look", NEW r, r = WithOff(rq, rq.off + 1), Go(prog, core, "look", r),
         rq.off + 1 # root.size, rq.off \in Used => Dir(rq.off).filename # rq.n, dsk' = dsk, Watch(ls)
  PROVE  DInv'
<1>1. /\ IsReq(r) /\ r.op = rq.op /\ r.n = rq.n /\ r.why = rq.why /\ r.off = rq.off + 1
      /\ r.slot = rq.slot /\ r.new = rq.new
  BY SameSelf, ReqOff
<1>2. /\ DTypes' /\ MemInv(core, Blocks)' /\ SyncInv' /\ RootInv' /\ BitsInv' /\ OwnInv' /\ LsInv'
      /\ NewInv' /\ core' = core /\ at' = "look" /\ rq' = r /\ root'.size = root.size
      /\ Used' = Used /\ (\A d \in Used : Dir(d)' = Dir(d))
      /\ (\A n : HasName(n)' <=> HasName(n)) /\ (\A n : Closed(n)' <=> Closed(n))
  BY <1>1, SameSelf, QuietGo
<1>3. LookInv
  BY DEF DInv, CallInv
<1>4. r.off \in 0..root.size - 1
  BY <1>1, LookOps DEF DInv, RootInv
<1>5. \A c \in Used : c < r.off => Dir(c).filename # r.n
  <2>1. \A c \in Used : c < rq.off => Dir(c).filename # rq.n
    BY <1>3 DEF LookInv
  <2>2. \A c \in Used : c < rq.off + 1 => c < rq.off \/ c = rq.off
    BY UsedLemma, LookOps DEF DInv
  <2> QED BY <1>1, <2>1, <2>2
<1>6. LookInv'
  BY <1>1, <1>2, <1>3, <1>4, <1>5 DEF LookInv
<1>7. OpenInv' /\ r.op \in {"open", "stat", "unlink", "creat"} /\ r.n \in Names
  BY <1>1, <1>2, LookOps DEF OpenInv
<1>8. CallInv'
  BY <1>2, <1>6, <1>7, LookRest
<1> QED BY <1>2, <1>8 DEF DInv

\* The inode is not in memory: it is read.
LEMMA LookOpen ==
  ASSUME OneProgram, DInv, at = "look", rq.off \in Used, Dir(rq.off).filename = rq.n,
         Find(core, Dir(rq.off).i_no) = {},
         NEW r, r = WithIno(rq, Dir(rq.off).i_no), Go(prog, core, "open", r), dsk' = dsk, Watch(ls)
  PROVE  DInv'
<1>1. /\ IsReq(r) /\ r.op = rq.op /\ r.n = rq.n /\ r.why = rq.why /\ r.off = rq.off
      /\ r.slot = rq.slot /\ r.new = rq.new /\ r.i = Dir(rq.off).i_no
  BY SameSelf, ReqIno
<1>2. /\ DTypes' /\ MemInv(core, Blocks)' /\ SyncInv' /\ RootInv' /\ BitsInv' /\ OwnInv' /\ LsInv'
      /\ NewInv' /\ core' = core /\ at' = "open" /\ rq' = r /\ root'.size = root.size
      /\ Used' = Used /\ (\A d \in Used : Dir(d)' = Dir(d))
      /\ (\A n : HasName(n)' <=> HasName(n)) /\ (\A n : Closed(n)' <=> Closed(n))
      /\ (\A i : Find(core, i)' = Find(core, i))
  BY <1>1, SameSelf, QuietGo
<1>3. LookInv
  BY DEF DInv, CallInv
<1>4. LookInv'
  BY <1>1, <1>2, <1>3 DEF LookInv
<1>5. OpenInv'
  <2>1. Dir(rq.off) = Entry(rq.n, r.i)
    BY <1>1, UsedLemma DEF DInv
  <2>2. Find(core, r.i)' = {} /\ Dir(rq.off)' = Dir(rq.off)
    BY <1>1, <1>2
  <2> QED BY <1>1, <1>2, <2>1, <2>2 DEF OpenInv
<1>6. r.op \in {"open", "stat", "unlink", "creat"} /\ r.n \in Names
  BY <1>1, LookOps
<1>7. CallInv'
  BY <1>2, <1>4, <1>5, <1>6, LookRest
<1> QED BY <1>2, <1>7 DEF DInv

\* The inode is in memory.
LEMMA LookFound ==
  ASSUME OneProgram, DInv, at = "look", rq.off \in Used, Dir(rq.off).filename = rq.n,
         NEW h \in Find(core, Dir(rq.off).i_no), Found(prog, Again(core, h), rq, h), dsk' = dsk, Watch(ls)
  PROVE  DInv'
<1>1. h \in core.open /\ core.ino[h].i_no = Dir(rq.off).i_no
  BY DEF Find
<1>2. h \in Files(core)
  BY <1>1, UsedLemma DEF Files, DInv, MemInv
<1> DEFINE x == Again(core, h)
<1>3. /\ x.used = core.used /\ x.ibits = core.ibits /\ x.open = core.open
      /\ x.panic = core.panic
      /\ \A g \in core.open \ {h} : x.ino[g] = core.ino[g]
      /\ x.ino[h].i_no = core.ino[h].i_no
      /\ Of(x.ino[h]) = Of(core.ino[h]) /\ x.ino[h].cnts # 1
      /\ MemInv(x, Blocks) /\ Cardinality(Refs(x, h)) + 1 <= x.ino[h].cnts
  BY <1>2, SameSelf, AgainLemma
<1>4. Same(core, Close(x, h))
  BY <1>2, SameSelf, AgainClose
<1>5. Found(prog, x, rq, h)
  OBVIOUS
<1> HIDE DEF x
<1>6. Files(x) = Files(core) /\ h \in Files(x)
  BY <1>2, <1>3 DEF Files
<1>7. /\ Of(x.ino[ROOT]) = Of(root)
      /\ \A g \in Files(x) : Of(x.ino[g]) = dsk.itab[x.ino[g].i_no] /\ x.ino[g].i_no \in core.ibits
  <2>1. \A g \in Files(core) : Of(core.ino[g]) = dsk.itab[core.ino[g].i_no] /\ core.ino[g].i_no \in core.ibits
    BY FilesQuiet DEF Syncs, Zeroing
  <2>2. \A g \in Files(core) : g \in core.open
    BY DEF Files
  <2>3. ROOT \in core.open \ {h} /\ core.ino[ROOT] = root
    BY <1>2 DEF DInv, MemInv, Files, root
  <2> QED BY <1>3, <1>6, <2>1, <2>2, <2>3
<1>8. CASE rq.op = "open"
  <2>1. rq.why = "open"
    BY <1>8, LookOps
  <2>2. Return(prog, IF FreeSlots(x) = {} THEN x ELSE [x EXCEPT !.slots[Least(FreeSlots(x))] = h])
    BY <1>5, <2>1 DEF Found
  <2> QED BY <1>3, <1>6, <1>7, <1>8, <2>2, OpenReturn
<1>9. CASE rq.op = "stat"
  <2>1. rq.why = "stat" /\ mine = {} /\ dead = {}
    BY <1>9, LookOps
  <2>2. Return(prog, Close(x, h))
    BY <1>5, <2>1 DEF Found
  <2> QED BY <1>4, <2>1, <2>2, SameReturn
<1>10. CASE rq.op = "creat"
  <2>1. rq.why = "link"
    BY <1>10, LookOps
  <2>2. inode_free(prog, Close(x, h), rq, rq.new)
    BY <1>5, <2>1 DEF Found
  <2> QED BY <1>4, <1>10, <2>2, AbandonLemma, SameSelf
<1>11. CASE rq.op = "unlink"
  <2>1. CASE rq.why # "remove"
    <3>1. Closed(rq.n)
      BY <1>11, <2>1 DEF DInv, CallInv, LookInv
    <3> QED BY <1>1, <1>2, <3>1 DEF Closed
  <2>2. CASE rq.why = "remove"
    <3>1. dead = {rq.n}
      BY <1>11, <2>2 DEF dead
    <3>2. Dir(rq.off).i_no \notin core.ibits
      BY <3>1 DEF DInv, BitsInv
    <3>3. core.ino[h].i_no \in core.ibits
      BY <1>2, FilesQuiet DEF Syncs, Zeroing
    <3> QED BY <1>1, <3>2, <3>3
  <2> QED BY <2>1, <2>2
<1> QED BY <1>8, <1>9, <1>10, <1>11, LookOps

\* The directory has no such name.
LEMMA LookNone ==
  ASSUME OneProgram, DInv, at = "look", rq.off \in Used => Dir(rq.off).filename # rq.n,
         rq.off + 1 = root.size, NotFound(prog, core, rq), dsk' = dsk, Watch(ls)
  PROVE  DInv'
<1>1. ~HasName(rq.n)
  <2>1. \A c \in Used : c < rq.off \/ c = rq.off
    BY LookOps, UsedLemma DEF DInv
  <2>2. \A c \in Used : c < rq.off => Dir(c).filename # rq.n
    BY DEF DInv, CallInv, LookInv
  <2> QED BY <2>1, <2>2 DEF HasName
<1>2. CASE rq.op = "creat"
  <2>1. rq.why = "link"
    BY <1>2, LookOps
  <2> DEFINE r == WithOff(rq, 0)
  <2>2. Go(prog, core, "scan", r)
    BY <2>1 DEF NotFound, WithOff
  <2>3. /\ IsReq(r) /\ r.op = rq.op /\ r.n = rq.n /\ r.why = rq.why /\ r.off = 0
        /\ r.slot = rq.slot /\ r.new = rq.new
    BY SameSelf, ReqOff
  <2> HIDE DEF r
  <2>4. /\ DTypes' /\ MemInv(core, Blocks)' /\ SyncInv' /\ RootInv' /\ BitsInv' /\ OwnInv' /\ LsInv'
        /\ NewInv' /\ core' = core /\ at' = "scan" /\ rq' = r /\ root'.size = root.size
    BY <1>1, <1>2, <2>2, <2>3, SameSelf, QuietGo
  <2>5. 0 \in 0..root.size - 1
    BY DEF DInv, RootInv
  <2>6. OpInv'
    BY <1>2, <2>3, <2>4, <2>5, LookOps DEF OpInv, Zeroing
  <2>7. LookInv' /\ OpenInv' /\ ZeroInv' /\ WriteInv' /\ BlockInv' /\ DirtyInv'
    BY <2>4 DEF LookInv, OpenInv, ZeroInv, WriteInv, BlockInv, DirtyInv, Zeroing, Writing, Syncs
  <2> QED BY <2>4, <2>6, <2>7 DEF DInv, CallInv
<1>3. CASE rq.op # "creat"
  <2>1. rq.why \notin {"link", "remove"}
    <3>1. rq.why # "link"
      BY <1>3, LookOps
    <3>2. ASSUME rq.why = "remove" PROVE FALSE
      <4>1. rq.op = "unlink"
        BY <3>2, LookOps
      <4> QED BY <1>1, <3>2, <4>1 DEF DInv, CallInv, LookInv
    <3> QED BY <3>1, <3>2
  <2>2. Return(prog, core)
    BY <2>1 DEF NotFound
  <2>3. mine = {} /\ dead = {}
    BY <1>3, <2>1, LookOps DEF dead, Zeroing
  <2> QED BY <2>2, <2>3, SameReturn, SameSelf
<1> QED BY <1>2, <1>3

\* dir_look_up reads an entry, and may be done.
LEMMA LookStep ==
  ASSUME OneProgram, DInv, Look(prog), Watch(ls)
  PROVE  DInv'
<1>1. at = "look" /\ dsk' = dsk
  BY DEF Look, at
<1> DEFINE e == Dir(rq.off)
<1>2. IF e # NULL /\ e.filename = rq.n
        THEN IF Find(core, e.i_no) = {} THEN Go(prog, core, "open", WithIno(rq, e.i_no))
             ELSE \E h \in Find(core, e.i_no) : Found(prog, Again(core, h), rq, h)
        ELSE IF rq.off + 1 = root.size THEN NotFound(prog, core, rq)
             ELSE Go(prog, core, "look", WithOff(rq, rq.off + 1))
  BY DEF Look, rq, root, Dir, WithIno, WithOff
<1>3. rq.off \in Used => e # NULL
  BY UsedLemma DEF DInv
<1>4. e # NULL /\ e.filename = rq.n => rq.off \in Used
  <2>1. rq.off \in 0..root.size - 1 /\ rq.n \in Names
    BY <1>1, LookOps
  <2>2. Entry(NULL, ROOT).filename \notin Names
    BY Consts DEF Entry
  <2> QED BY <2>1, <2>2, UsedLemma DEF DInv
<1>5. CASE e # NULL /\ e.filename = rq.n
  <2>1. CASE Find(core, e.i_no) = {}
    BY <1>1, <1>2, <1>4, <1>5, <2>1, LookOpen
  <2>2. CASE Find(core, e.i_no) # {}
    <3>1. PICK h \in Find(core, e.i_no) : Found(prog, Again(core, h), rq, h)
      BY <1>2, <1>5, <2>2
    <3> QED BY <1>1, <1>4, <1>5, <3>1, LookFound
  <2> QED BY <2>1, <2>2
<1>6. CASE ~(e # NULL /\ e.filename = rq.n)
  <2>1. rq.off \in Used => e.filename # rq.n
    BY <1>3, <1>6
  <2>2. CASE rq.off + 1 = root.size
    BY <1>1, <1>2, <1>6, <2>1, <2>2, LookNone
  <2>3. CASE rq.off + 1 # root.size
    BY <1>1, <1>2, <1>6, <2>1, <2>3, LookNext
  <2> QED BY <2>2, <2>3
<1> QED BY <1>5, <1>6

-----------------------------------------------------------------------------
(* inode_open, dir_link *)

\* inode_write of an entry of the root directory, up to its lock.
LEMMA RootWrite ==
  ASSUME OneProgram, DInv, at \in {"open", "scan"}, NEW c, Same(core, c), NEW o \in Nat, o < Capacity, NEW v,
         NEW r, r = ForWrite(rq, ROOT, o, v), Go(prog, c, "lock", r),
         \/ rq.op = "creat" /\ ~HasName(rq.n) /\ o \in 2..root.size /\ v = Entry(rq.n, core.ino[rq.new].i_no)
            /\ (o < root.size => Dir(o) = NULL)
         \/ rq.op = "unlink" /\ rq.why = "remove" /\ o \in Used /\ Dir(o).filename = rq.n /\ v = NULL,
         rq.n \in Names, dsk' = dsk, Watch(ls)
  PROVE  DInv'
<1>1. /\ IsReq(r) /\ r.op = rq.op /\ r.n = rq.n /\ r.why = "write" /\ r.off = o /\ r.slot = rq.slot
      /\ r.h = ROOT /\ r.new = rq.new /\ r.val = v
  BY SameSelf, ReqWrite
<1>2. /\ DTypes' /\ MemInv(core, Blocks)' /\ SyncInv' /\ RootInv' /\ BitsInv' /\ OwnInv' /\ LsInv'
      /\ NewInv' /\ core' = c /\ at' = "lock" /\ rq' = r /\ root'.size = root.size
      /\ Used' = Used /\ (\A d \in 0..root.size - 1 : Dir(d)' = Dir(d)) /\ (\A d \in Used : Dir(d)' = Dir(d))
  BY <1>1, QuietGo
<1>3. rq.op = "creat" => core'.ino[rq.new].i_no = core.ino[rq.new].i_no
  <2>1. rq.op = "creat" => rq.new \in core.open
    BY DEF DInv, CallInv, NewInv, Files
  <2> QED BY <1>2, <2>1 DEF Same
<1>4. ROOT \in core'.open
  BY <1>2 DEF MemInv
<1>5. OpInv' /\ LookInv' /\ OpenInv' /\ ZeroInv'
  BY <1>1, <1>2 DEF OpInv, LookInv, OpenInv, ZeroInv, Zeroing, Writing
<1>6. BlockInv' /\ DirtyInv'
  BY <1>2 DEF BlockInv, DirtyInv, Syncs
<1>7. WriteInv'
  <2>1. rq.op \in {"creat", "unlink"}
    OBVIOUS
  <2>2. rq.op = "creat" => /\ o \in 2..root'.size /\ v = Entry(rq.n, core'.ino[rq.new].i_no)
                           /\ (o < root'.size => Dir(o)' = NULL)
    <3> SUFFICES ASSUME rq.op = "creat" PROVE o < root.size => Dir(o)' = NULL
      BY <1>2, <1>3
    <3> SUFFICES ASSUME o < root.size PROVE Dir(o)' = NULL
      OBVIOUS
    <3>1. o \in 0..root.size - 1
      BY DEF DInv, RootInv
    <3> QED BY <1>2, <3>1
  <2>3. rq.op = "unlink" => o \in Used' /\ Dir(o)'.filename = rq.n /\ v = NULL
    BY <1>2
  <2> QED BY <1>1, <1>2, <1>4, <2>1, <2>2, <2>3 DEF WriteInv, Writing, Syncs
<1> QED BY <1>2, <1>5, <1>6, <1>7 DEF DInv, CallInv

\* dir_link reads an entry, and may have found a hole.
LEMMA ScanStep ==
  ASSUME OneProgram, DInv, Scan(prog), Watch(ls)
  PROVE  DInv'
<1> DEFINE e == Entry(rq.n, core.ino[rq.new].i_no)
<1>1. /\ at = "scan" /\ dsk' = dsk
      /\ IF Dir(rq.off) = NULL THEN inode_write(prog, core, rq, ROOT, rq.off, e)
         ELSE IF rq.off + 1 = root.size THEN inode_write(prog, core, rq, ROOT, rq.off + 1, e)
         ELSE Go(prog, core, "scan", WithOff(rq, rq.off + 1))
  BY DEF Scan, at, rq, root, Dir, WithOff
<1>2. /\ rq.op = "creat" /\ rq.n \in Names /\ rq.off \in 0..root.size - 1 /\ ~HasName(rq.n)
  BY <1>1 DEF DInv, CallInv, OpInv, NewInv
<1>3. root.size \in 2..Capacity /\ rq.off \in Nat /\ Capacity \in Nat
  BY <1>2, Consts DEF DInv, RootInv
<1>4. CASE Dir(rq.off) = NULL
  <2>1. ~(rq.off >= PerBlock * NSectors) /\ rq.off < Capacity
    BY <1>2, <1>3 DEF Capacity
  <2>2. Go(prog, core, "lock", ForWrite(rq, ROOT, rq.off, e))
    BY <1>1, <1>4, <2>1 DEF inode_write, ForWrite
  <2>3. rq.off # 0 /\ rq.off # 1
    <3>1. Entry(NULL, ROOT) # NULL
      <4>1. Entry(NULL, ROOT) \in [filename : Names \cup {NULL}, i_no : 0..NInodes - 1]
        BY Consts DEF Entry, Inodes
      <4> QED BY <4>1, DirectoryAssumption
    <3> QED BY <1>4, <3>1 DEF DInv, RootInv
  <2>4. rq.off \in 2..root.size
    BY <1>2, <1>3, <2>3
  <2> QED BY <1>1, <1>2, <1>3, <1>4, <2>1, <2>2, <2>4, RootWrite, SameSelf
<1>5. CASE Dir(rq.off) # NULL /\ rq.off + 1 = root.size
  <2>1. inode_write(prog, core, rq, ROOT, rq.off + 1, e)
    BY <1>1, <1>5
  <2>2. CASE rq.off + 1 >= Capacity
    <3>1. inode_free(prog, core, rq, rq.new)
      BY <1>2, <2>1, <2>2 DEF inode_write, WriteFailed, Capacity
    <3> QED BY <1>1, <1>2, <3>1, AbandonLemma, SameSelf
  <2>3. CASE ~(rq.off + 1 >= Capacity)
    <3>1. Go(prog, core, "lock", ForWrite(rq, ROOT, rq.off + 1, e))
      BY <2>1, <2>3 DEF inode_write, ForWrite, Capacity
    <3>2. rq.off + 1 \in Nat /\ rq.off + 1 < Capacity /\ rq.off + 1 \in 2..root.size /\ ~(rq.off + 1 < root.size)
      BY <1>3, <1>5, <2>3
    <3> QED BY <1>1, <1>2, <3>1, <3>2, RootWrite, SameSelf
  <2> QED BY <2>2, <2>3
<1>6. CASE Dir(rq.off) # NULL /\ rq.off + 1 # root.size
  <2> DEFINE r == WithOff(rq, rq.off + 1)
  <2>1. Go(prog, core, "scan", r)
    BY <1>1, <1>6
  <2>2. /\ IsReq(r) /\ r.op = rq.op /\ r.n = rq.n /\ r.why = rq.why /\ r.off = rq.off + 1
        /\ r.slot = rq.slot /\ r.new = rq.new
    BY SameSelf, ReqOff
  <2> HIDE DEF r
  <2>3. /\ DTypes' /\ MemInv(core, Blocks)' /\ SyncInv' /\ RootInv' /\ BitsInv' /\ OwnInv' /\ LsInv'
        /\ NewInv' /\ core' = core /\ at' = "scan" /\ rq' = r /\ root'.size = root.size
    BY <1>1, <1>2, <2>1, <2>2, SameSelf, QuietGo
  <2>4. r.off \in 0..root.size - 1
    BY <1>2, <1>3, <1>6, <2>2
  <2>5. OpInv'
    BY <1>2, <2>2, <2>3, <2>4 DEF OpInv, Zeroing
  <2>6. LookInv' /\ OpenInv' /\ ZeroInv' /\ WriteInv' /\ BlockInv' /\ DirtyInv'
    BY <2>3 DEF LookInv, OpenInv, ZeroInv, WriteInv, BlockInv, DirtyInv, Zeroing, Writing, Syncs
  <2> QED BY <2>3, <2>5, <2>6 DEF DInv, CallInv
<1> QED BY <1>4, <1>5, <1>6

\* inode_open of an inode that was not in memory.
Pushed == Push(core, InMemory(rq.i, 1, dsk.itab[rq.i]))

\* The inode that inode_open has read is that of the name looked up.
LEMMA PushedLemma ==
  ASSUME DInv, at = "open", NEW h, h = Fresh(core), NEW x, x = Pushed
  PROVE  /\ rq.off \in Used /\ Dir(rq.off).filename = rq.n /\ Dir(rq.off).i_no = rq.i
         /\ rq.i \in Inodes /\ rq.i # ROOT /\ HasName(rq.n)
         /\ rq.i \in core.ibits <=> rq.n \notin dead
         /\ h \in Handles /\ h \notin core.open /\ h # ROOT
         /\ IsCore(x) /\ x.used = core.used /\ x.ibits = core.ibits /\ x.slots = core.slots
         /\ x.panic = core.panic /\ x.open = core.open \cup {h}
         /\ \A g \in core.open : x.ino[g] = core.ino[g]
         /\ x.ino[h].i_no = rq.i /\ x.ino[h].cnts = 1
         /\ Of(x.ino[h]) = dsk.itab[rq.i] /\ x.ino[h].sectors = dsk.itab[rq.i].sectors
         /\ MemInv(x, Blocks) /\ Refs(x, h) = {} /\ Files(x) = Files(core) \cup {h}
         /\ Same(core, Close(x, h))
<1>1. rq.off \in Used /\ Dir(rq.off) = Entry(rq.n, rq.i) /\ Find(core, rq.i) = {}
  BY DEF DInv, CallInv, OpenInv
<1>2. Dir(rq.off).filename = rq.n /\ Dir(rq.off).i_no = rq.i
  BY <1>1 DEF Entry
<1>3. rq.i \in Inodes /\ rq.i # ROOT /\ HasName(rq.n)
  BY <1>1, <1>2, UsedLemma DEF DInv, HasName
<1>4. rq.i \in core.ibits <=> rq.n \notin dead
  BY <1>1, <1>2 DEF DInv, BitsInv
<1>5. dsk.itab[rq.i] \in DiskInode(Blocks)
  BY <1>3 DEF DInv, DTypes
<1>6. /\ h \in Handles /\ h \notin core.open /\ h # ROOT
      /\ IsCore(x) /\ x.used = core.used /\ x.ibits = core.ibits /\ x.slots = core.slots
      /\ x.panic = core.panic /\ x.open = core.open \cup {h}
      /\ \A g \in core.open : x.ino[g] = core.ino[g]
      /\ x.ino[h].i_no = rq.i /\ x.ino[h].cnts = 1
      /\ Of(x.ino[h]) = dsk.itab[rq.i] /\ x.ino[h].sectors = dsk.itab[rq.i].sectors
      /\ MemInv(x, Blocks) /\ Refs(x, h) = {} /\ Files(x) = Files(core) \cup {h}
  BY <1>1, <1>3, <1>5, SameSelf, PushLemma DEF Pushed
<1>7. Same(core, Close(x, h))
  BY <1>1, <1>3, <1>5, SameSelf, PushClose DEF Pushed
<1> QED BY <1>1, <1>2, <1>3, <1>4, <1>6, <1>7

\* All but the start of inode_free in an unlink.
LEMMA ReadInodeQuiet ==
  ASSUME OneProgram, DInv, ReadInode(prog), rq.why # "delete", Watch(ls)
  PROVE  DInv'
<1> DEFINE h == Fresh(core)
           x == Pushed
<1>1. at = "open" /\ dsk' = dsk /\ Found(prog, x, rq, h)
  BY DEF ReadInode, at, rq, Pushed
<1>2. /\ rq.off \in Used /\ Dir(rq.off).filename = rq.n /\ HasName(rq.n)
      /\ rq.i \in core.ibits <=> rq.n \notin dead
      /\ h \notin core.open /\ h # ROOT
      /\ IsCore(x) /\ x.used = core.used /\ x.ibits = core.ibits /\ x.slots = core.slots
      /\ x.panic = core.panic
      /\ \A g \in core.open : x.ino[g] = core.ino[g]
      /\ x.ino[h].i_no = rq.i /\ x.ino[h].cnts = 1
      /\ Of(x.ino[h]) = dsk.itab[rq.i]
      /\ MemInv(x, Blocks) /\ Refs(x, h) = {} /\ Files(x) = Files(core) \cup {h}
      /\ Same(core, Close(x, h))
  BY <1>1, PushedLemma
<1> HIDE DEF h, x
<1>3. CASE rq.op = "open"
  <2>1. rq.why = "open" /\ dead = {}
    BY <1>1, <1>3, LookOps
  <2>2. Return(prog, IF FreeSlots(x) = {} THEN x ELSE [x EXCEPT !.slots[Least(FreeSlots(x))] = h])
    BY <1>1, <2>1 DEF Found
  <2>3. \A g \in Files(x) : Of(x.ino[g]) = dsk.itab[x.ino[g].i_no] /\ x.ino[g].i_no \in core.ibits
    <3>1. \A g \in Files(core) : Of(core.ino[g]) = dsk.itab[core.ino[g].i_no] /\ core.ino[g].i_no \in core.ibits
      BY <1>1, FilesQuiet DEF Syncs, Zeroing
    <3>2. \A g \in Files(core) : g \in core.open
      BY DEF Files
    <3> QED BY <1>2, <2>1, <3>1, <3>2
  <2>4. Of(x.ino[ROOT]) = Of(root)
    BY <1>2 DEF DInv, MemInv, root
  <2>5. Cardinality(Refs(x, h)) + 1 <= x.ino[h].cnts /\ h \in Files(x)
    <3>1. Cardinality(Refs(x, h)) = 0
      BY <1>2, RefsFinite
    <3> QED BY <1>2, <3>1
  <2> QED BY <1>1, <1>2, <1>3, <2>2, <2>3, <2>4, <2>5, OpenReturn
<1>4. CASE rq.op = "stat"
  <2>1. rq.why = "stat" /\ mine = {} /\ dead = {}
    BY <1>1, <1>4, LookOps
  <2>2. Return(prog, Close(x, h))
    BY <1>1, <2>1 DEF Found
  <2> QED BY <1>1, <1>2, <2>1, <2>2, SameReturn
<1>5. CASE rq.op = "creat"
  <2>1. rq.why = "link"
    BY <1>1, <1>5, LookOps
  <2>2. inode_free(prog, Close(x, h), rq, rq.new)
    BY <1>1, <2>1 DEF Found
  <2> QED BY <1>1, <1>2, <1>5, <2>2, AbandonLemma, SameSelf
<1>6. CASE rq.op = "unlink" /\ rq.why = "unlink"
  <2> DEFINE y == Close(x, h)
             r == ForLook(rq, "delete")
  <2>1. [x EXCEPT !.slots = [s \in Slots |-> IF @[s] = h THEN NULL ELSE @[s]]] = x
    <3>1. \A s \in Slots : x.slots[s] # h
      BY <1>2 DEF Refs
    <3>2. [s \in Slots |-> IF x.slots[s] = h THEN NULL ELSE x.slots[s]] = x.slots
      <4>1. x.slots \in [Slots -> Files(x) \cup {NULL}]
        BY <1>2 DEF MemInv
      <4> QED BY <3>1, <4>1
    <3>3. [x EXCEPT !.slots = x.slots] = x
      BY <1>2 DEF IsCore
    <3> QED BY <3>2, <3>3
  <2>2. LookUp(prog, Close([x EXCEPT !.slots = [s \in Slots |-> IF @[s] = h THEN NULL ELSE @[s]]], h), rq, "delete")
    BY <1>1, <1>6 DEF Found
  <2>3. Go(prog, y, "look", r)
    BY <2>1, <2>2 DEF LookUp, ForLook
  <2>4. /\ IsReq(r) /\ r.op = "unlink" /\ r.n = rq.n /\ r.why = "delete" /\ r.off = 0
        /\ r.slot = rq.slot /\ r.new = rq.new
    BY <1>6, SameSelf, ReqLook
  <2>5. Same(core, y)
    BY <1>2
  <2> HIDE DEF y, r
  <2>6. /\ DTypes' /\ MemInv(core, Blocks)' /\ SyncInv' /\ RootInv' /\ BitsInv' /\ OwnInv' /\ LsInv'
        /\ NewInv' /\ core' = y /\ at' = "look" /\ rq' = r /\ root'.size = root.size /\ Used' = Used
        /\ (\A n : Closed(n)' <=> Closed(n))
    BY <1>1, <1>6, <2>3, <2>4, <2>5, QuietGo
  <2>7. LookInv'
    <3>1. Closed(rq.n)
      BY <1>1, <1>6 DEF DInv, CallInv, LookInv
    <3>2. 0 \in 0..root.size - 1 /\ \A c \in Used : ~(c < 0)
      BY UsedLemma DEF DInv, RootInv
    <3> QED BY <2>4, <2>6, <3>1, <3>2 DEF LookInv
  <2>8. OpenInv' /\ rq.n \in Names
    BY <1>1, <2>6, LookOps DEF OpenInv
  <2>9. CallInv'
    BY <2>4, <2>6, <2>7, <2>8, LookRest
  <2> QED BY <2>6, <2>9 DEF DInv
<1>7. CASE rq.op = "unlink" /\ rq.why = "remove"
  <2>1. inode_write(prog, Close(x, h), rq, ROOT, rq.off, NULL)
    BY <1>1, <1>7 DEF Found
  <2>2. rq.off \in Nat /\ rq.off < Capacity /\ ~(rq.off >= PerBlock * NSectors)
    BY <1>1, LookOps, Consts DEF DInv, RootInv, Capacity
  <2>3. Go(prog, Close(x, h), "lock", ForWrite(rq, ROOT, rq.off, NULL))
    BY <2>1, <2>2 DEF inode_write, ForWrite
  <2>4. rq.n \in Names
    BY <1>1, LookOps
  <2> QED BY <1>1, <1>2, <1>7, <2>2, <2>3, <2>4, RootWrite
<1> QED BY <1>1, <1>3, <1>4, <1>5, <1>6, <1>7, LookOps

-----------------------------------------------------------------------------
(* inode_alloc *)

\* The locals that creat starts with, and those for inode_init.
ForCreate(n, s, i) == [NoReq EXCEPT !.op = "creat", !.n = n, !.slot = s, !.i = i]
ForNew(r, h) == [r EXCEPT !.why = "new", !.new = h, !.h = h]

\* The locals of creat.
LEMMA ReqCreate ==
  ASSUME NEW m, NEW t, NEW j, NEW x, x = ForCreate(m, t, j)
  PROVE  x.op = "creat" /\ x.n = m /\ x.slot = t /\ x.i = j
BY DEF NoReq, ForCreate

\* The locals of creat have their fields.
LEMMA ReqCreated ==
  ASSUME NEW m, NEW t, NEW j, NEW x, x = ForCreate(m, t, j)
  PROVE  IsReq(x)
BY DEF IsReq, NoReq, ForCreate

\* Locals that differ in what inode_alloc sets.
LEMMA ReqInode ==
  ASSUME NEW r, IsReq(r), NEW h, NEW x, x = ForNew(r, h)
  PROVE  /\ IsReq(x) /\ x.op = r.op /\ x.n = r.n /\ x.why = "new" /\ x.off = r.off /\ x.slot = r.slot
         /\ x.h = h /\ x.i = r.i /\ x.new = h /\ x.b = r.b /\ x.val = r.val /\ x.buf = r.buf
BY DEF IsReq, ForNew

\* creat takes a slot and a bit.
LEMMA CreateStep ==
  ASSUME OneProgram, DInv, file_create(prog), Watch(ls)
  PROVE  DInv'
<1>a. PICK i, s : i = Least(Inodes \ core.ibits) /\ s = Least(FreeSlots(core))
  OBVIOUS
<1> DEFINE c == WithBits(core, core.ibits \cup {i})
<1>1. PICK n \in Names : Go(prog, c, "ibit", ForCreate(n, s, i))
  BY <1>a DEF file_create, WithBits, ForCreate
<1>2. at = "user" /\ dsk' = dsk /\ rq = NoReq /\ FreeSlots(core) # {} /\ core.ibits # Inodes
  BY DEF file_create, at, DInv, CallInv, OpInv
<1>3. i \in Inodes /\ i \notin core.ibits
  <2>1. Inodes \ core.ibits # {}
    BY <1>2 DEF DInv, DTypes
  <2>2. i \in Inodes \ core.ibits
    BY <1>a, <2>1, LeastLemma, Consts
  <2> QED BY <2>2
<1>4. s \in Slots /\ core.slots[s] = NULL
  <2>1. FreeSlots(core) \subseteq Nat
    BY Consts DEF FreeSlots
  <2>2. s \in FreeSlots(core)
    BY <1>2, <1>a, <2>1, LeastLemma
  <2> QED BY <2>2 DEF FreeSlots
<1>5. /\ MemInv(c, Blocks) /\ c.used = core.used /\ c.ibits = core.ibits \cup {i} /\ c.panic = core.panic
      /\ c.open = core.open /\ c.slots = core.slots /\ c.ino = core.ino /\ Files(c) = Files(core)
  BY SameSelf, BitsMem
<1> HIDE DEF c
<1>6. PICK r : /\ Go(prog, c, "ibit", r) /\ IsReq(r) /\ r.op = "creat" /\ r.n = n
               /\ r.slot = s /\ r.i = i
  <2>1. PICK x : x = ForCreate(n, s, i)
    OBVIOUS
  <2>2. x.op = "creat" /\ x.n = n /\ x.slot = s /\ x.i = i
    BY <2>1, ReqCreate
  <2>3. IsReq(x)
    BY <2>1, ReqCreated
  <2> QED BY <1>1, <2>1, <2>2, <2>3
<1>7. core' = c /\ at' = "ibit" /\ rq' = r
  BY <1>6, GoLemma DEF DInv, DTypes
<1>8. DTypes' /\ Blocks' = Blocks
  <2>1. ~c.panic /\ c.used \subseteq Blocks /\ c.ibits \subseteq Inodes /\ "ibit" \in {"user"} \cup Calling
    BY <1>3, <1>5 DEF DInv, DTypes, Calling
  <2> QED BY <1>2, <1>6, <2>1, SameDisk DEF DInv
<1>9. MemInv(core, Blocks)'
  BY <1>5, <1>7, <1>8
<1>10. root' = root
  BY <1>5, <1>7 DEF root
<1>11. /\ RootInv' /\ Used' = Used /\ Named' = Named /\ Present' = Present
       /\ (\A d \in 0..root.size - 1 : Dir(d)' = Dir(d))
  BY <1>2, <1>10, RootFrame DEF DInv
<1>12. \A d \in Used : Dir(d)' = Dir(d) /\ Dir(d).i_no \in Named
  BY <1>11, UsedLemma DEF DInv
<1>13. LsInv'
  BY <1>10, <1>11, <1>12, LsFrame DEF DInv
<1>14. SyncInv'
  <2>1. at \notin Syncs
    BY <1>2 DEF Syncs
  <2> QED BY <1>2, <1>5, <1>7, <2>1 DEF DInv, SyncInv
<1>15. /\ taken = {} /\ mine = {} /\ dead = {} /\ Extra = {}
       /\ taken' = {i} /\ mine' = {i} /\ dead' = {} /\ Extra' = {}
  BY <1>2, <1>6, <1>7 DEF taken, mine, dead, Extra, NoReq, Syncs, Zeroing
<1>16. Named \cup {ROOT} \subseteq core.ibits
  BY <1>15 DEF DInv, BitsInv, Named
<1>17. \A h \in Files(core) : core.ino[h].i_no \in core.ibits
  BY <1>2, FilesQuiet DEF Syncs, Zeroing
<1>18. BitsInv'
  <2>1. ROOT \in c.ibits /\ c.ibits \subseteq {ROOT} \cup Named \cup {i}
    BY <1>5, <1>15 DEF DInv, BitsInv
  <2>2. \A d \in Used' : Dir(d)'.i_no \in c.ibits
    BY <1>5, <1>11, <1>12, <1>16
  <2>3. {i} \subseteq c.ibits /\ {i} \cap (Named \cup {ROOT}) = {}
    BY <1>3, <1>5, <1>16
  <2>4. c.ibits \subseteq dsk.ibits \cup {i}
    BY <1>5, <1>15 DEF DInv, BitsInv
  <2>5. \A h \in Files(core)' : core'.ino[h].i_no \in c.ibits
    BY <1>5, <1>7, <1>17
  <2> QED BY <1>2, <1>7, <1>11, <1>15, <2>1, <2>2, <2>3, <2>4, <2>5 DEF BitsInv
<1>19. OwnInv'
  <2>1. Known' = Known
    BY <1>3, <1>5, <1>7, <1>15 DEF Known
  <2>2. \A j : Node(j)' = Node(j)
    BY <1>2, <1>7 DEF Node, Syncs
  <2> QED BY <1>2, <1>5, <1>7, <1>15, <2>1, <2>2, OwnFrame DEF DInv
<1>20. CallInv'
  <2>1. NewInv'
    <3>1. Find(core, i)' = {}
      <4>1. \A h \in core.open : h = ROOT \/ h \in Files(core)
        BY DEF Files
      <4>2. \A h \in core.open : core.ino[h].i_no \in core.ibits
        BY <1>16, <1>17, <4>1 DEF DInv, MemInv
      <4> QED BY <1>3, <1>5, <1>7, <4>2 DEF Find
    <3> QED BY <1>3, <1>4, <1>5, <1>6, <1>7, <3>1 DEF NewInv, Writing
  <2>2. OpInv' /\ LookInv' /\ OpenInv' /\ ZeroInv'
    BY <1>6, <1>7 DEF OpInv, LookInv, OpenInv, ZeroInv, Zeroing
  <2>3. WriteInv' /\ BlockInv' /\ DirtyInv'
    BY <1>7 DEF WriteInv, BlockInv, DirtyInv, Writing, Syncs
  <2> QED BY <2>1, <2>2, <2>3 DEF CallInv
<1> QED BY <1>8, <1>9, <1>11, <1>13, <1>14, <1>18, <1>19, <1>20 DEF DInv

\* inode_alloc has its bitmap on disk, and an inode in memory.
LEMMA InodeBitmapStep ==
  ASSUME OneProgram, DInv, WriteInodeBitmap(prog), Watch(ls)
  PROVE  DInv'
<1>a. PICK i, h : i = rq.i /\ h = Fresh(core)
  OBVIOUS
<1> DEFINE x == Push(core, InMemory(i, 1, NewInode))
<1>1. /\ at = "ibit" /\ dsk' = [dsk EXCEPT !.ibits = core.ibits]
      /\ Go(prog, x, "iget", ForNew(rq, h))
  BY <1>a DEF WriteInodeBitmap, at, rq, ForNew
<1>2. /\ rq.op = "creat" /\ rq.n \in Names /\ rq.slot \in Slots /\ core.slots[rq.slot] = NULL
      /\ i \in Inodes /\ Find(core, i) = {}
  BY <1>1, <1>a DEF DInv, CallInv, OpInv, NewInv
<1>3. NewInode \in DiskInode(Blocks)
  <2>1. 0 \in 0..Capacity
    BY Consts
  <2> QED BY <2>1 DEF NewInode, DiskInode
<1>4. /\ h \in Handles /\ h \notin core.open /\ h # ROOT
      /\ x.used = core.used /\ x.ibits = core.ibits /\ x.slots = core.slots
      /\ x.panic = core.panic /\ x.open = core.open \cup {h}
      /\ \A g \in core.open : x.ino[g] = core.ino[g]
      /\ x.ino[h] = InMemory(i, 1, NewInode) /\ x.ino[h].i_no = i
      /\ Of(x.ino[h]) = NewInode
      /\ MemInv(x, Blocks) /\ Refs(x, h) = {} /\ Files(x) = Files(core) \cup {h}
  BY <1>2, <1>3, <1>a, SameSelf, PushLemma
<1> HIDE DEF x
<1>5. PICK r : /\ Go(prog, x, "iget", r) /\ IsReq(r) /\ r.op = "creat" /\ r.n = rq.n /\ r.why = "new"
               /\ r.slot = rq.slot /\ r.new = h /\ r.h = h
  BY <1>1, <1>2, SameSelf, ReqInode
<1>6. core' = x /\ at' = "iget" /\ rq' = r
  BY <1>5, GoLemma DEF DInv, DTypes
<1>7. /\ dsk'.itab = dsk.itab /\ dsk'.blk = dsk.blk /\ dsk'.ibits = core.ibits /\ dsk'.used = dsk.used
      /\ dsk' = [used |-> dsk'.used, ibits |-> dsk'.ibits, itab |-> dsk'.itab, blk |-> dsk'.blk]
  <2>1. dsk = [used |-> dsk.used, ibits |-> dsk.ibits, itab |-> dsk.itab, blk |-> dsk.blk]
    BY DEF DInv, DTypes
  <2>2. dsk' = [dsk EXCEPT !.ibits = core.ibits]
    BY <1>1
  <2> QED BY ONLY <2>1, <2>2
<1>8. DTypes' /\ Blocks' = Blocks
  <2>1. ~x.panic /\ x.used \subseteq Blocks /\ x.ibits \subseteq Inodes /\ "iget" \in {"user"} \cup Calling
    BY <1>4 DEF DInv, DTypes, Calling, Syncs
  <2>2. /\ dsk'.used \subseteq Blocks /\ dsk'.ibits \subseteq Inodes /\ dsk'.itab \in [Inodes -> DiskInode(Blocks)]
        /\ DOMAIN dsk'.blk = Blocks /\ \A b \in Blocks : DOMAIN dsk'.blk[b] = 0..PerBlock - 1
    BY <1>7 DEF DInv, DTypes, Blocks
  <2>3. DTypes
    BY DEF DInv
  <2> QED BY <1>5, <1>7, <2>1, <2>2, <2>3, TypesStep
<1>9. MemInv(core, Blocks)'
  BY <1>4, <1>6, <1>8
<1>10. root' = root
  BY <1>4, <1>6 DEF root, DInv, MemInv
<1>11. /\ RootInv' /\ Used' = Used /\ Named' = Named /\ Present' = Present
       /\ (\A d \in 0..root.size - 1 : Dir(d)' = Dir(d))
  BY <1>7, <1>10, RootFrame DEF DInv
<1>12. \A d \in Used : Dir(d)' = Dir(d)
  BY <1>11, UsedLemma DEF DInv
<1>13. LsInv'
  BY <1>10, <1>11, <1>12, LsFrame DEF DInv
<1>14. SyncInv'
  <2>1. at \notin Syncs /\ at' \in Syncs
    BY <1>1, <1>6 DEF Syncs
  <2>2. \A g \in core.open : Of(core.ino[g]) = dsk.itab[core.ino[g].i_no]
    BY <2>1 DEF DInv, SyncInv
  <2> QED BY <1>4, <1>5, <1>6, <1>7, <2>1, <2>2 DEF SyncInv
<1>15. /\ taken = {i} /\ mine = {i} /\ dead = {} /\ Extra = {}
       /\ taken' = {} /\ mine' = {i} /\ dead' = {} /\ Extra' = {}
  BY <1>1, <1>2, <1>4, <1>5, <1>6, <1>a DEF taken, mine, dead, Extra, Syncs, Zeroing
<1>16. i \in core.ibits /\ i \notin Named \cup {ROOT}
  BY <1>15 DEF DInv, BitsInv
<1>17. BitsInv'
  <2>1. \A g \in Files(core) : core.ino[g].i_no \in core.ibits /\ g \in core.open
    BY <1>1, FilesQuiet DEF Syncs, Zeroing, Files
  <2>2. \A g \in Files(core)' : core'.ino[g].i_no \in core'.ibits
    BY <1>4, <1>6, <1>16, <2>1
  <2>3. \A d \in Used' : Dir(d)'.i_no \in core'.ibits
    BY <1>4, <1>6, <1>11, <1>12, <1>15 DEF DInv, BitsInv
  <2>4. ROOT \in core.ibits /\ core.ibits \subseteq {ROOT} \cup Named \cup {i}
    BY <1>15 DEF DInv, BitsInv
  <2> QED BY <1>4, <1>6, <1>7, <1>11, <1>15, <1>16, <2>2, <2>3, <2>4 DEF BitsInv
<1>18. OwnInv'
  <2>1. Known = core.ibits \ {i} /\ Known' = core.ibits /\ Known' = Known \cup {i}
    BY <1>4, <1>6, <1>15, <1>16 DEF Known
  <2>2. Node(i)' = NewInode
    BY <1>4, <1>5, <1>6 DEF Node, Syncs
  <2>3. \A j \in Known : Node(j)' = Node(j)
    BY <1>1, <1>4, <1>5, <1>6, <1>7, <2>1 DEF Node, Syncs
  <2>4. BlocksOf(Node(i))' = {} /\ Distinct(Node(i))' /\ (Node(i)'.size > 0 => Node(i)'.sectors[0] # 0)
    BY <2>2 DEF BlocksOf, Distinct, NewInode
  <2>5. \A j \in Known : BlocksOf(Node(j))' = BlocksOf(Node(j)) /\ Distinct(Node(j))' = Distinct(Node(j))
    BY <2>3 DEF BlocksOf, Distinct
  <2>6. \A j \in Known' : Distinct(Node(j))' /\ (Node(j)'.size > 0 => Node(j)'.sectors[0] # 0)
    BY <2>1, <2>3, <2>4, <2>5 DEF DInv, OwnInv
  <2>7. \A j, k \in Known' : j # k => BlocksOf(Node(j))' \cap BlocksOf(Node(k))' = {}
    <3>1. \A j, k \in Known : j # k => BlocksOf(Node(j)) \cap BlocksOf(Node(k)) = {}
      BY DEF DInv, OwnInv
    <3> QED BY <2>1, <2>4, <2>5, <3>1
  <2>8. core'.used = UNION {BlocksOf(Node(j))' : j \in Known'}
    <3>1. core.used = UNION {BlocksOf(Node(j)) : j \in Known}
      BY <1>15 DEF DInv, OwnInv
    <3> QED BY <1>4, <1>6, <2>1, <2>4, <2>5, <3>1
  <2>9. core'.used \subseteq dsk'.used
    BY <1>1, <1>4, <1>6, <1>7 DEF DInv, OwnInv
  <2> QED BY <1>6, <1>15, <2>6, <2>7, <2>8, <2>9 DEF OwnInv
<1>19. CallInv'
  <2>1. NewInv'
    BY <1>2, <1>4, <1>5, <1>6 DEF NewInv, Writing
  <2>2. WriteInv' /\ DirtyInv'
    BY <1>4, <1>5, <1>6 DEF WriteInv, DirtyInv, Writing, Syncs
  <2>3. OpInv' /\ LookInv' /\ OpenInv' /\ ZeroInv' /\ BlockInv'
    BY <1>2, <1>5, <1>6 DEF OpInv, LookInv, OpenInv, ZeroInv, BlockInv, Zeroing, Syncs
  <2> QED BY <2>1, <2>2, <2>3 DEF CallInv
<1> QED BY <1>8, <1>9, <1>11, <1>13, <1>14, <1>17, <1>18, <1>19 DEF DInv

-----------------------------------------------------------------------------
(* inode_write, up to the block *)

\* What the locals of a write say.
LEMMA WriteOps ==
  ASSUME DInv, at \in Writing
  PROVE  /\ rq.op \in {"creat", "unlink", "write"} /\ rq.why = "write" /\ rq.h \in core.open
         /\ rq.op \in {"creat", "unlink"} <=> rq.h = ROOT
         /\ rq.off \in Nat /\ rq.off < Capacity
         /\ rq.off \div PerBlock \in Sectors /\ rq.off % PerBlock \in 0..PerBlock - 1
         /\ IsInode(core.ino[rq.h], Blocks)
         /\ core.ino[rq.h].sectors[rq.off \div PerBlock] \in {0} \cup Blocks
         /\ at \notin Syncs /\ at \notin Zeroing /\ taken = {} /\ Known = core.ibits
         /\ core.ino[rq.h].i_no \in core.ibits
         /\ \A i : Node(i) = dsk.itab[i]
         /\ Of(core.ino[rq.h]) = dsk.itab[core.ino[rq.h].i_no]
         /\ rq.op = "unlink" => core.ino[rq.h].sectors[rq.off \div PerBlock] # 0
         /\ rq.op = "creat" => /\ rq.new \in Files(core) /\ core.slots[rq.slot] = NULL
                               /\ ~HasName(rq.n) /\ rq.n \in Names
         /\ rq.op = "unlink" => rq.n \in Names
<1>1. WriteInv /\ OpInv /\ NewInv /\ RootInv
  BY DEF DInv, CallInv
<1>2. /\ rq.op \in {"creat", "unlink", "write"} /\ rq.why = "write" /\ rq.h \in core.open
      /\ rq.op \in {"creat", "unlink"} <=> rq.h = ROOT
      /\ rq.op = "write" => rq.off = 0
  BY <1>1 DEF WriteInv, Writing, Syncs
<1>3. rq.off \in Nat /\ rq.off < Capacity
  <2>1. CASE rq.op = "write"
    BY <1>2, <2>1, Consts
  <2>2. CASE rq.op = "creat"
    BY <1>1, <2>2 DEF WriteInv, RootInv
  <2>3. CASE rq.op = "unlink"
    <3>1. rq.off \in Used
      BY <1>1, <2>3 DEF WriteInv
    <3>2. rq.off \in Nat /\ rq.off < root.size
      BY <1>1, <3>1, UsedLemma DEF RootInv
    <3> QED BY <1>1, <3>2, Consts DEF RootInv
  <2> QED BY <1>2, <2>1, <2>2, <2>3
<1>4. rq.off \div PerBlock \in Sectors /\ rq.off % PerBlock \in 0..PerBlock - 1
  <2>1. rq.off \in 0..Capacity - 1
    BY <1>3, Consts
  <2> QED BY <2>1, Place
<1>5. IsInode(core.ino[rq.h], Blocks)
  BY <1>2 DEF DInv, MemInv
<1>6. core.ino[rq.h].sectors[rq.off \div PerBlock] \in {0} \cup Blocks
  BY <1>4, <1>5 DEF IsInode
<1>7. at \notin Syncs /\ at \notin Zeroing /\ taken = {} /\ Known = core.ibits
  BY DEF Writing, Syncs, Zeroing, taken, Known
<1>8. core.ino[rq.h].i_no \in core.ibits /\ Of(core.ino[rq.h]) = dsk.itab[core.ino[rq.h].i_no]
  <2>1. CASE rq.h = ROOT
    BY <1>7, <2>1, FilesQuiet DEF DInv, MemInv, BitsInv, root
  <2>2. CASE rq.h # ROOT
    BY <1>2, <1>7, <2>2, FilesQuiet DEF Files
  <2> QED BY <2>1, <2>2
<1>9. \A i : Node(i) = dsk.itab[i]
  BY <1>7 DEF Node
<1>10. rq.op = "unlink" => core.ino[rq.h].sectors[rq.off \div PerBlock] # 0
  <2> SUFFICES ASSUME rq.op = "unlink" PROVE core.ino[rq.h].sectors[rq.off \div PerBlock] # 0
    OBVIOUS
  <2>1. rq.off \in Used
    BY <1>1 DEF WriteInv
  <2>2. rq.off \in 0..root.size - 1
    BY <1>1, <2>1, UsedLemma
  <2> QED BY <1>1, <1>2, <2>2 DEF RootInv, root
<1>11. rq.op = "creat" => /\ rq.new \in Files(core) /\ core.slots[rq.slot] = NULL /\ ~HasName(rq.n)
  BY <1>1 DEF NewInv, Writing
<1>12. rq.op \in {"creat", "unlink"} => rq.n \in Names
  BY <1>1 DEF OpInv
<1> QED BY <1>2, <1>3, <1>4, <1>5, <1>6, <1>7, <1>8, <1>9, <1>10, <1>11, <1>12

\* A write goes on.
LEMMA WriteRest ==
  ASSUME DInv, at \in Writing, at' \in Writing,
         core'.ino = core.ino, core'.open = core.open, core'.slots = core.slots,
         rq'.op = rq.op, rq'.n = rq.n, rq'.why = rq.why, rq'.off = rq.off, rq'.slot = rq.slot,
         rq'.h = rq.h, rq'.new = rq.new, rq'.val = rq.val,
         root'.size = root.size, Used' = Used, \A d \in 0..root.size - 1 : Dir(d)' = Dir(d),
         \A n : HasName(n)' <=> HasName(n), rq.op = "unlink" => at' # "bbit"
  PROVE  /\ OpInv' /\ LookInv' /\ OpenInv' /\ NewInv' /\ ZeroInv' /\ WriteInv' /\ DirtyInv'
         /\ mine' = mine /\ dead' = dead /\ taken' = taken
<1>1. WriteInv /\ OpInv /\ NewInv /\ RootInv
  BY DEF DInv, CallInv
<1>2. OpInv' /\ LookInv' /\ OpenInv' /\ ZeroInv' /\ DirtyInv'
  BY <1>1, WriteOps DEF OpInv, LookInv, OpenInv, ZeroInv, DirtyInv, Zeroing, Syncs, Writing
<1>3. Files(core)' = Files(core) /\ \A h : Refs(core, h)' = Refs(core, h)
  BY DEF Files, Refs
<1>4. at # "ibit" /\ at' # "ibit" /\ at' \notin Syncs /\ at \notin Syncs /\ at \notin Zeroing /\ at' \notin Zeroing
  BY DEF Writing, Syncs, Zeroing
<1>5. mine' = mine /\ dead' = dead /\ taken' = taken
  BY <1>4 DEF mine, dead, taken
<1>6. NewInv'
  BY <1>1, <1>3, <1>4 DEF NewInv
<1>7. WriteInv'
  <2>0. PICK o : o = rq.off
    OBVIOUS
  <2>1. rq.op = "creat" => (o < root'.size => Dir(o)' = NULL)
    <3> SUFFICES ASSUME rq.op = "creat", o < root.size PROVE Dir(o)' = NULL
      OBVIOUS
    <3>1. o \in 0..root.size - 1
      BY <2>0, WriteOps DEF DInv, RootInv
    <3>2. Dir(o) = NULL
      BY <1>1, <2>0 DEF WriteInv
    <3> QED BY <3>1, <3>2
  <2>2. rq.op = "unlink" => o \in Used /\ Dir(o)'.filename = rq.n
    <3> SUFFICES ASSUME rq.op = "unlink" PROVE o \in Used /\ Dir(o)'.filename = rq.n
      OBVIOUS
    <3>1. o \in Used /\ Dir(o).filename = rq.n
      BY <1>1, <2>0 DEF WriteInv
    <3>2. o \in 0..root.size - 1
      BY <1>1, <3>1, UsedLemma
    <3> QED BY <3>1, <3>2
  <2>3. /\ rq'.why = "write" /\ rq'.h \in core'.open
        /\ \/ rq'.op \in {"creat", "unlink"} /\ rq'.h = ROOT
           \/ rq'.op = "write" /\ rq'.h # ROOT /\ rq'.off = 0 /\ rq'.val \in Data
    BY <1>1, <1>4 DEF WriteInv
  <2>4. rq'.op = "creat" =>
       /\ rq'.off \in 2..root'.size /\ rq'.off < Capacity
       /\ rq'.val = Entry(rq'.n, core'.ino[rq'.new].i_no)
       /\ o < root'.size => Dir(o)' = NULL
    <3>1. rq.op = "creat" => rq.off \in 2..root.size /\ rq.off < Capacity
                             /\ rq.val = Entry(rq.n, core.ino[rq.new].i_no)
      BY <1>1 DEF WriteInv
    <3> QED BY <2>0, <2>1, <3>1
  <2>5. rq'.op = "unlink" =>
          o \in Used' /\ Dir(o)'.filename = rq'.n /\ rq'.val = NULL /\ at' # "bbit"
    <3>1. rq.op = "unlink" => rq.val = NULL
      BY <1>1 DEF WriteInv
    <3> QED BY <2>0, <2>2, <3>1
  <2> QED BY <1>4, <2>0, <2>3, <2>4, <2>5 DEF WriteInv
<1> QED BY <1>2, <1>5, <1>6, <1>7

-----------------------------------------------------------------------------
(* inode_write, steps that change no inode *)

\* The block of a write is found, or marked, or read.
LEMMA WriteGo ==
  ASSUME OneProgram, DInv, at \in Writing, NEW a \in {"get", "put"}, NEW r, Go(prog, core, a, r), IsReq(r),
         r.op = rq.op, r.n = rq.n, r.why = rq.why, r.off = rq.off, r.slot = rq.slot,
         r.h = rq.h, r.new = rq.new, r.val = rq.val,
         \/ dsk' = dsk /\ at # "bbit"
         \/ dsk' = [dsk EXCEPT !.used = core.used],
         \/ at # "lock" /\ r.b = rq.b
         \/ at = "lock" /\ r.b = core.ino[rq.h].sectors[rq.off \div PerBlock] /\ r.b # 0,
         a = "put" => r.buf = dsk.blk[r.b], Watch(ls)
  PROVE  DInv'
<1>1. core' = core /\ at' = a /\ rq' = r /\ a \in Writing
  BY GoLemma DEF DInv, DTypes, Writing
<1>2. a \in {"user"} \cup Calling /\ a \notin Syncs /\ a \notin Zeroing /\ a # "bbit"
  BY DEF Calling, Writing, Syncs, Zeroing
<1>3. at \notin Syncs /\ at \notin Zeroing
  BY WriteOps
<1>4. taken' = taken /\ mine' = mine /\ dead' = dead
  <2>1. taken' = taken /\ dead' = dead
    BY <1>1, <1>2, <1>3 DEF taken, dead, Writing
  <2>2. mine' = mine
    BY <1>1, <1>2, <1>3 DEF mine, Writing
  <2> QED BY <2>1, <2>2
<1>5. \/ Extra' = Extra
      \/ Extra = {} /\ Extra' \subseteq UNION {BlocksOf(Node(i)) : i \in Known}
  <2>1. Extra' = {r.b}
    BY <1>1 DEF Extra
  <2>2. CASE at # "lock" /\ r.b = rq.b
    <3>1. Extra = {rq.b}
      BY <2>2 DEF Extra, Writing
    <3> QED BY <2>1, <2>2, <3>1
  <2>3. CASE at = "lock" /\ r.b = core.ino[rq.h].sectors[rq.off \div PerBlock] /\ r.b # 0
    <3> DEFINE i == core.ino[rq.h].i_no
    <3>1. Extra = {}
      BY <2>3 DEF Extra, Zeroing
    <3>2. i \in Known /\ Node(i) = Of(core.ino[rq.h]) /\ rq.off \div PerBlock \in Sectors
      BY WriteOps
    <3>3. r.b \in BlocksOf(Node(i))
      <4>1. Node(i).sectors = core.ino[rq.h].sectors
        BY <3>2 DEF Of
      <4> HIDE DEF i
      <4> QED BY <2>3, <3>2, <4>1 DEF BlocksOf
    <3> QED BY <2>1, <3>1, <3>2, <3>3
  <2> QED BY <2>2, <2>3
<1>6. /\ DTypes' /\ MemInv(core, Blocks)' /\ SyncInv' /\ RootInv' /\ BitsInv' /\ OwnInv' /\ LsInv'
      /\ root'.size = root.size /\ Used' = Used /\ (\A d \in 0..root.size - 1 : Dir(d)' = Dir(d))
      /\ (\A n : HasName(n)' <=> HasName(n)) /\ Known' = Known
      /\ Blocks' = Blocks /\ dsk'.blk = dsk.blk
      /\ (\A i \in Known : Node(i)' = Node(i))
  <2>1. Of(core.ino[ROOT]) = Of(root) /\ MemInv(core, Blocks)
    BY DEF root, DInv
  <2> QED BY <1>2, <1>3, <1>4, <1>5, <2>1, FilesQuiet, QuietLemma
<1>7. OpInv' /\ LookInv' /\ OpenInv' /\ NewInv' /\ ZeroInv' /\ WriteInv' /\ DirtyInv'
  BY <1>1, <1>2, <1>6, WriteRest
<1>8. BlockInv'
  <2> DEFINE s == core.ino[rq.h].sectors[rq.off \div PerBlock]
  <2>1. /\ r.b \in Blocks
        /\ s = 0 => \A i \in Known : r.b \notin BlocksOf(Node(i))
        /\ s # 0 => s = r.b
    <3>1. CASE at # "lock"
      BY <3>1 DEF DInv, CallInv, BlockInv, Writing
    <3>2. CASE at = "lock"
      BY <3>2, WriteOps
    <3> QED BY <3>1, <3>2
  <2>2. \A i \in Known : BlocksOf(Node(i))' = BlocksOf(Node(i))
    BY <1>6 DEF BlocksOf
  <2> QED BY <1>1, <1>2, <1>6, <2>1, <2>2 DEF BlockInv
<1> QED BY <1>6, <1>7, <1>8 DEF DInv, CallInv

\* inode_write reads its block.
LEMMA GetStep ==
  ASSUME OneProgram, DInv, GetBlock(prog), Watch(ls)
  PROVE  DInv'
<1>1. at = "get" /\ dsk' = dsk /\ Go(prog, core, "put", WithBuf(rq, dsk.blk[rq.b]))
  BY DEF GetBlock, at, rq, WithBuf
<1>2. PICK r : /\ Go(prog, core, "put", r) /\ IsReq(r) /\ r.op = rq.op /\ r.n = rq.n /\ r.why = rq.why
               /\ r.off = rq.off /\ r.slot = rq.slot /\ r.h = rq.h /\ r.new = rq.new /\ r.b = rq.b
               /\ r.val = rq.val /\ r.buf = dsk.blk[rq.b]
  BY <1>1, SameSelf, ReqBuf
<1>3. at \in Writing
  BY <1>1 DEF Writing
<1> QED BY <1>1, <1>2, <1>3, WriteGo

\* block_bitmap_alloc has marked the block.
LEMMA BlockBitmapStep ==
  ASSUME OneProgram, DInv, at = "bbit", dsk' = [dsk EXCEPT !.used = core.used], Go(prog, core, "get", rq),
         Watch(ls)
  PROVE  DInv'
<1>1. at \in Writing /\ at # "lock"
  BY DEF Writing
<1> QED BY <1>1, WriteGo, SameSelf

\* inode_write takes its block, or a new one, or fails.
LEMMA LockStep ==
  ASSUME OneProgram, DInv, Lock(prog), Watch(ls)
  PROVE  DInv'
<1>a. PICK b, new : /\ b = core.ino[rq.h].sectors[rq.off \div PerBlock]
                    /\ new = Least(Blocks \ core.used)
  OBVIOUS
<1>1. /\ at = "lock" /\ dsk' = dsk
      /\ IF b = 0 /\ core.used = Blocks THEN WriteFailed(prog, core, rq)
         ELSE IF b # 0 THEN Go(prog, core, "get", WithBlock(rq, b))
         ELSE Go(prog, WithUsed(core, core.used \cup {new}), "bbit", WithBlock(rq, new))
  BY <1>a DEF Lock, at, rq, WithBlock, WithUsed
<1>2. at \in Writing
  BY <1>1 DEF Writing
<1>3. CASE b = 0 /\ core.used = Blocks
  <2>1. WriteFailed(prog, core, rq)
    BY <1>1, <1>3
  <2>2. rq.op # "unlink"
    BY <1>2, <1>3, <1>a, WriteOps
  <2>3. CASE rq.op = "creat"
    <3>1. inode_free(prog, core, rq, rq.new)
      BY <2>1, <2>3 DEF WriteFailed
    <3> QED BY <1>1, <2>3, <3>1, AbandonLemma, SameSelf
  <2>4. CASE rq.op # "creat"
    <3>1. Return(prog, core)
      BY <2>1, <2>4 DEF WriteFailed
    <3>2. mine = {} /\ dead = {}
      BY <2>2, <2>4 DEF mine, dead
    <3> QED BY <1>1, <3>1, <3>2, SameReturn, SameSelf
  <2> QED BY <2>3, <2>4
<1>4. CASE b # 0
  <2>1. Go(prog, core, "get", WithBlock(rq, b))
    BY <1>1, <1>4
  <2>2. PICK r : /\ Go(prog, core, "get", r) /\ IsReq(r) /\ r.op = rq.op /\ r.n = rq.n /\ r.why = rq.why
                 /\ r.off = rq.off /\ r.slot = rq.slot /\ r.h = rq.h /\ r.new = rq.new /\ r.b = b
                 /\ r.val = rq.val
    BY <2>1, SameSelf, ReqBlock
  <2> QED BY <1>1, <1>2, <1>4, <1>a, <2>2, WriteGo
<1>5. CASE b = 0 /\ core.used # Blocks
  <2> DEFINE c == WithUsed(core, core.used \cup {new})
  <2>1. Go(prog, c, "bbit", WithBlock(rq, new))
    BY <1>1, <1>5
  <2>2. /\ MemInv(c, Blocks) /\ c.used = core.used \cup {new} /\ c.ibits = core.ibits /\ c.panic = core.panic
        /\ c.open = core.open /\ c.slots = core.slots /\ c.ino = core.ino /\ Files(c) = Files(core)
    BY SameSelf, UsedMem
  <2> HIDE DEF c
  <2>3. PICK r : /\ Go(prog, c, "bbit", r) /\ IsReq(r) /\ r.op = rq.op /\ r.n = rq.n /\ r.why = rq.why
                 /\ r.off = rq.off /\ r.slot = rq.slot /\ r.h = rq.h /\ r.new = rq.new /\ r.b = new
                 /\ r.val = rq.val
    BY <2>1, SameSelf, ReqBlock
  <2>4. core' = c /\ at' = "bbit" /\ rq' = r /\ "bbit" \in Writing
    BY <2>3, GoLemma DEF DInv, DTypes, Writing
  <2>5. new \in Blocks /\ new \notin core.used
    <3>1. Blocks \ core.used # {} /\ Blocks \subseteq Nat
      BY <1>5 DEF DInv, DTypes
    <3>2. new \in Blocks \ core.used
      BY <1>a, <3>1, LeastLemma
    <3> QED BY <3>2
  <2>6. DTypes' /\ Blocks' = Blocks
    <3>1. ~c.panic /\ c.used \subseteq Blocks /\ c.ibits \subseteq Inodes /\ "bbit" \in {"user"} \cup Calling
      BY <2>2, <2>5 DEF DInv, DTypes, Calling, Writing
    <3> QED BY <1>1, <2>3, <3>1, SameDisk DEF DInv
  <2>7. MemInv(core, Blocks)'
    BY <2>2, <2>4, <2>6
  <2>8. root' = root
    BY <2>2, <2>4 DEF root
  <2>9. /\ RootInv' /\ Used' = Used /\ Named' = Named /\ Present' = Present
        /\ (\A d \in 0..root.size - 1 : Dir(d)' = Dir(d)) /\ (\A n : HasName(n)' <=> HasName(n))
    BY <1>1, <2>8, RootFrame DEF DInv
  <2>10. \A d \in Used : Dir(d)' = Dir(d)
    BY <2>9, UsedLemma DEF DInv
  <2>11. LsInv'
    BY <2>8, <2>9, <2>10, LsFrame DEF DInv
  <2>12. rq.op # "unlink"
    BY <1>2, <1>5, <1>a, WriteOps
  <2>13. /\ OpInv' /\ LookInv' /\ OpenInv' /\ NewInv' /\ ZeroInv' /\ WriteInv' /\ DirtyInv'
         /\ mine' = mine /\ dead' = dead /\ taken' = taken
    BY <1>2, <2>2, <2>3, <2>4, <2>8, <2>9, <2>12, WriteRest
  <2>14. SyncInv'
    BY <1>1, <1>2, <2>2, <2>4, WriteOps DEF DInv, SyncInv
  <2>15. BitsInv' /\ Known' = Known
    <3>1. \A h \in Files(core)' : core'.ino[h].i_no \in core.ibits
      BY <1>2, <2>2, <2>4, WriteOps, FilesQuiet
    <3> QED BY <1>1, <2>2, <2>4, <2>9, <2>10, <2>13, <3>1, BitsFrame DEF DInv
  <2>16. \A i : Node(i)' = Node(i)
    BY <1>1, <1>2, <2>4, WriteOps DEF Node, Syncs
  <2>17. OwnInv'
    <3>1. Extra = {} /\ Extra' = {new}
      BY <1>1, <2>3, <2>4 DEF Extra, Zeroing
    <3>2. \A i : BlocksOf(Node(i))' = BlocksOf(Node(i)) /\ Distinct(Node(i))' = Distinct(Node(i))
      BY <2>16 DEF BlocksOf, Distinct
    <3>3. core'.used = (UNION {BlocksOf(Node(i))' : i \in Known'}) \cup Extra'
      <4>1. core.used = UNION {BlocksOf(Node(i)) : i \in Known}
        BY <3>1 DEF DInv, OwnInv
      <4> QED BY <2>2, <2>4, <2>15, <3>1, <3>2, <4>1
    <3>4. core'.used \subseteq dsk'.used \cup {new}
      BY <1>1, <2>2, <2>4 DEF DInv, OwnInv
    <3>5. \A i \in Known' : Distinct(Node(i))' /\ (Node(i)'.size > 0 => Node(i)'.sectors[0] # 0)
      BY <2>15, <2>16, <3>2 DEF DInv, OwnInv
    <3>6. \A i, j \in Known' : i # j => BlocksOf(Node(i))' \cap BlocksOf(Node(j))' = {}
      BY <2>15, <3>2 DEF DInv, OwnInv
    <3> QED BY <2>3, <2>4, <3>3, <3>4, <3>5, <3>6 DEF OwnInv
  <2>18. BlockInv'
    <3>1. \A i \in Known : BlocksOf(Node(i))' \subseteq core.used
      BY <2>16 DEF BlocksOf, DInv, OwnInv
    <3>2. core'.ino[rq'.h].sectors[rq'.off \div PerBlock] = 0
      BY <1>5, <1>a, <2>2, <2>3, <2>4
    <3> QED BY <2>3, <2>4, <2>5, <2>6, <2>15, <3>1, <3>2 DEF BlockInv
  <2> QED BY <2>6, <2>7, <2>9, <2>11, <2>13, <2>14, <2>15, <2>17, <2>18 DEF DInv, CallInv
<1> QED BY <1>3, <1>4, <1>5

\* inode_sync reads.
LEMMA GetInodesStep ==
  ASSUME OneProgram, DInv, GetInodes(prog), Watch(ls)
  PROVE  DInv'
<1>a. PICK v : v = [dsk.itab EXCEPT ![core.ino[rq.h].i_no] = Of(core.ino[rq.h])]
  OBVIOUS
<1>1. at = "iget" /\ dsk' = dsk /\ Go(prog, core, "iput", WithBuf(rq, v))
  BY <1>a DEF GetInodes, at, rq, WithBuf, Of
<1>2. PICK r : /\ Go(prog, core, "iput", r) /\ IsReq(r) /\ r.op = rq.op /\ r.n = rq.n /\ r.why = rq.why
               /\ r.off = rq.off /\ r.slot = rq.slot /\ r.h = rq.h /\ r.new = rq.new /\ r.b = rq.b
               /\ r.val = rq.val /\ r.buf = v
  BY <1>1, SameSelf, ReqBuf
<1>3. core' = core /\ at' = "iput" /\ rq' = r
  BY <1>2, GoLemma DEF DInv, DTypes
<1>4. taken' = taken /\ mine' = mine /\ dead' = dead /\ Extra' = Extra
  BY <1>1, <1>2, <1>3 DEF taken, mine, dead, Extra, Syncs, Zeroing
<1>5. /\ DTypes' /\ MemInv(core, Blocks)' /\ SyncInv' /\ RootInv' /\ BitsInv' /\ OwnInv' /\ LsInv'
      /\ dsk'.itab = dsk.itab
  <2>1. Of(core.ino[ROOT]) = Of(root) /\ MemInv(core, Blocks)
    BY DEF root, DInv
  <2>2. /\ "iput" \in {"user"} \cup Calling /\ "iput" \in Syncs /\ at \in Syncs /\ at \notin Zeroing /\ at # "bbit"
    BY <1>1 DEF Calling, Syncs, Zeroing
  <2>3. \A h \in Files(core) : /\ Of(core.ino[h]) = dsk.itab[core.ino[h].i_no] \/ h = r.h
                               /\ core.ino[h].i_no \in core.ibits
    BY <1>2, <2>2 DEF DInv, SyncInv, BitsInv, Files
  <2> QED BY <1>1, <1>2, <1>4, <2>1, <2>2, <2>3, QuietLemma
<1>6. CallInv'
  <2>1. OpInv' /\ NewInv'
    <3>1. OpInv /\ NewInv
      BY DEF DInv, CallInv
    <3>2. Files(core)' = Files(core) /\ \A h : Refs(core, h)' = Refs(core, h)
      BY <1>3
    <3> QED BY <1>1, <1>2, <1>3, <3>1, <3>2 DEF OpInv, NewInv, Zeroing, Syncs, Writing
  <2>2. WriteInv' /\ DirtyInv'
    <3>1. WriteInv /\ DirtyInv
      BY DEF DInv, CallInv
    <3> QED BY <1>1, <1>2, <1>3, <1>5, <1>a, <3>1 DEF WriteInv, DirtyInv, Writing, Syncs
  <2>3. LookInv' /\ OpenInv' /\ ZeroInv' /\ BlockInv'
    BY <1>3 DEF LookInv, OpenInv, ZeroInv, BlockInv, Zeroing
  <2> QED BY <2>1, <2>2, <2>3 DEF CallInv
<1> QED BY <1>5, <1>6 DEF DInv

-----------------------------------------------------------------------------
(* inode_free *)

\* The locals for block_bitmap_free.
WithZero(r, k, b) == [r EXCEPT !.off = k, !.b = b]

\* Locals that differ in off and b.
LEMMA ReqZero ==
  ASSUME NEW r, IsReq(r), NEW k, NEW b, NEW x, x = WithZero(r, k, b)
  PROVE  /\ IsReq(x) /\ x.op = r.op /\ x.n = r.n /\ x.why = r.why /\ x.off = k /\ x.slot = r.slot
         /\ x.h = r.h /\ x.i = r.i /\ x.new = r.new /\ x.b = b /\ x.val = r.val /\ x.buf = r.buf
BY DEF IsReq, WithZero

\* The inode that unlink frees: only r refers to it, its bit is clear, and its
\* blocks from the r.off-th are no other inode's.
Freeing(c, r) ==
  LET h == r.h IN
  /\ MemInv(c, Blocks) /\ ~c.panic /\ c.used \subseteq Blocks /\ c.ibits \subseteq Inodes
  /\ Of(c.ino[ROOT]) = Of(root)
  /\ IsReq(r) /\ r.op = "unlink" /\ r.n \in Names /\ HasName(r.n) /\ r.off \in Nat
  /\ h \in Files(c) /\ c.ino[h].cnts = 1 /\ Refs(c, h) = {} /\ c.ino[h].i_no \notin c.ibits
  /\ Distinct(c.ino[h])
  /\ \A g \in Files(c) : /\ Of(c.ino[g]) = dsk.itab[c.ino[g].i_no]
                         /\ g # h => c.ino[g].i_no \in c.ibits
  /\ ROOT \in c.ibits /\ c.ibits \subseteq {ROOT} \cup Named /\ c.ibits \subseteq dsk.ibits
  /\ \A d \in Used : Dir(d).i_no \in c.ibits <=> Dir(d).filename # r.n
  /\ \A i \in c.ibits : /\ Distinct(dsk.itab[i]) /\ (dsk.itab[i].size > 0 => dsk.itab[i].sectors[0] # 0)
                        /\ From(c.ino[h], r.off) \cap BlocksOf(dsk.itab[i]) = {}
  /\ \A i, j \in c.ibits : i # j => BlocksOf(dsk.itab[i]) \cap BlocksOf(dsk.itab[j]) = {}
  /\ c.used = (UNION {BlocksOf(dsk.itab[i]) : i \in c.ibits}) \cup From(c.ino[h], r.off)

\* The disk after a step of inode_free.
DiskAsIs(u) ==
  /\ dsk' = [used |-> dsk'.used, ibits |-> dsk'.ibits, itab |-> dsk'.itab, blk |-> dsk'.blk]
  /\ dsk'.used \subseteq Blocks /\ dsk'.ibits = dsk.ibits /\ dsk'.itab = dsk.itab /\ dsk'.blk = dsk.blk
  /\ u \subseteq dsk'.used

\* What holds after a step of inode_free, whatever comes next.
LEMMA FreeFrame ==
  ASSUME OneProgram, DInv, at \notin Syncs, NEW c, NEW y, NEW r, NEW q, NEW a \in {"look", "zero"},
         Freeing(c, r), Go(prog, y, a, q), IsReq(q), q.op = "unlink", q.n = r.n,
         a = "look" => q.why = "remove",
         a = "zero" => q.h = r.h /\ q.off \in Nat,
         MemInv(y, Blocks), y.used = (UNION {BlocksOf(dsk.itab[i]) : i \in c.ibits}) \cup
                                     (IF a = "zero" THEN From(y.ino[r.h], q.off + 1) ELSE {}),
         y.used \subseteq c.used,
         y.ibits = c.ibits, ~y.panic, y.open \subseteq c.open,
         \A g \in y.open : y.ino[g] = c.ino[g], a = "look" => r.h \notin y.open,
         DiskAsIs(c.used), Watch(ls)
  PROVE  /\ DTypes' /\ MemInv(core, Blocks)' /\ SyncInv' /\ RootInv' /\ BitsInv' /\ OwnInv' /\ LsInv'
         /\ core' = y /\ at' = a /\ rq' = q /\ root'.size = root.size /\ Used' = Used
         /\ (\A n : HasName(n)' <=> HasName(n)) /\ Known' = c.ibits /\ (\A i : Node(i)' = dsk.itab[i])
         /\ Blocks' = Blocks
<1>1. core' = y /\ at' = a /\ rq' = q
  BY GoLemma DEF DInv, DTypes
<1>2. DTypes' /\ Blocks' = Blocks
  <2>1. y.used \subseteq Blocks /\ y.ibits \subseteq Inodes /\ a \in {"user"} \cup Calling
    BY DEF Freeing, Calling, Zeroing
  <2>2. /\ dsk'.used \subseteq Blocks /\ dsk'.ibits \subseteq Inodes /\ dsk'.itab \in [Inodes -> DiskInode(Blocks)]
        /\ DOMAIN dsk'.blk = Blocks /\ \A b \in Blocks : DOMAIN dsk'.blk[b] = 0..PerBlock - 1
        /\ dsk' = [used |-> dsk'.used, ibits |-> dsk'.ibits, itab |-> dsk'.itab, blk |-> dsk'.blk]
    BY DEF DInv, DTypes, Blocks, DiskAsIs
  <2>3. DTypes
    BY DEF DInv
  <2> QED BY <2>1, <2>2, <2>3, TypesStep
<1>3. MemInv(core, Blocks)'
  BY <1>1, <1>2
<1>4. ROOT \in y.open /\ root'.size = root.size /\ root'.sectors = root.sectors /\ root'.i_no = ROOT
      /\ Of(root') = Of(root)
  BY <1>1 DEF Freeing, MemInv, root, Of
<1>5. /\ RootInv' /\ (\A d \in 0..root.size - 1 : Dir(d)' = Dir(d)) /\ Used' = Used /\ Named' = Named
      /\ Present' = Present /\ (\A n : HasName(n)' <=> HasName(n))
  BY <1>4, RootFrame DEF DInv, DiskAsIs
<1>6. \A d \in Used : Dir(d)' = Dir(d)
  BY <1>5, UsedLemma DEF DInv
<1>7. LsInv'
  BY <1>4, <1>5, <1>6, LsFrame DEF DInv
<1>8. at' \notin Syncs /\ taken' = {} /\ mine' = {} /\ dead' = {r.n} /\ Known' = c.ibits
  <2>1. at' \notin Syncs /\ taken' = {} /\ mine' = {}
    BY <1>1 DEF Syncs, taken, mine
  <2>2. dead' = {r.n}
    BY <1>1 DEF dead, Zeroing
  <2> QED BY <1>1, <2>1, <2>2 DEF Known
<1>9. \A i : Node(i)' = dsk.itab[i]
  BY <1>8 DEF Node, DiskAsIs
<1>10. \A g \in Files(y) : g \in Files(c) /\ y.ino[g] = c.ino[g] /\ (a = "look" => g # r.h)
  BY DEF Files
<1>11. SyncInv'
  <2>1. Of(root) = dsk.itab[ROOT]
    BY DEF DInv, SyncInv, MemInv, root
  <2>2. \A g \in y.open : g = ROOT \/ g \in Files(y)
    BY DEF Files
  <2> QED BY <1>1, <1>4, <1>8, <1>10, <2>1, <2>2 DEF SyncInv, Freeing, root, DiskAsIs
<1>12. BitsInv'
  <2>1. \A h \in Files(core)' : core'.ino[h].i_no \in core'.ibits \/ (at' \in Zeroing /\ h = rq'.h)
    <3>1. \A g \in Files(y) : g # r.h => y.ino[g].i_no \in c.ibits
      BY <1>10 DEF Freeing
    <3> QED BY <1>1, <1>10, <3>1 DEF Zeroing
  <2>2. \A d \in Used' : Dir(d)'.i_no \in core'.ibits <=> Dir(d)'.filename \notin {r.n}
    BY <1>1, <1>5, <1>6 DEF Freeing
  <2> QED BY <1>1, <1>5, <1>8, <2>1, <2>2 DEF BitsInv, Freeing, DiskAsIs
<1>13. OwnInv'
  <2>1. \A i : BlocksOf(Node(i))' = BlocksOf(dsk.itab[i]) /\ Distinct(Node(i))' = Distinct(dsk.itab[i])
    BY <1>9 DEF BlocksOf, Distinct
  <2>2. Extra' = IF a = "zero" THEN From(y.ino[r.h], q.off + 1) ELSE {}
    <3>1. CASE a = "look"
      BY <1>1, <3>1 DEF Extra, Zeroing
    <3>2. CASE a = "zero"
      <4>1. PICK ino, k : ino = y.ino[r.h] /\ k = q.off + 1
        OBVIOUS
      <4>2. core'.ino[rq'.h] = ino /\ rq'.off + 1 = k
        BY <1>1, <3>2, <4>1
      <4>3. Extra' = From(ino, k)
        BY <1>1, <3>2, <4>2 DEF Extra, Zeroing, From
      <4> QED BY <3>2, <4>1, <4>3
    <3> QED BY <3>1, <3>2
  <2>3. core'.used = (UNION {BlocksOf(Node(i))' : i \in Known'}) \cup Extra'
    BY <1>1, <1>8, <2>1, <2>2
  <2>4. core'.used \subseteq dsk'.used /\ at' # "bbit"
    BY <1>1 DEF DiskAsIs
  <2>5. \A i \in Known' : Distinct(Node(i))' /\ (Node(i)'.size > 0 => Node(i)'.sectors[0] # 0)
    BY <1>8, <1>9, <2>1 DEF Freeing
  <2>6. \A i, j \in Known' : i # j => BlocksOf(Node(i))' \cap BlocksOf(Node(j))' = {}
    <3>1. \A i, j \in c.ibits : i # j => BlocksOf(dsk.itab[i]) \cap BlocksOf(dsk.itab[j]) = {}
      BY DEF Freeing
    <3> QED BY <1>8, <2>1, <3>1
  <2> QED BY <2>3, <2>4, <2>5, <2>6 DEF OwnInv
<1> QED BY <1>1, <1>2, <1>3, <1>4, <1>5, <1>7, <1>8, <1>9, <1>11, <1>12, <1>13

-----------------------------------------------------------------------------
\* The sectors of an inode from the o-th that have a block.
Rest(ino, o) == {k \in Sectors : k >= o /\ ino.sectors[k] # 0}

\* From one block of an inode to the next that it has.
LEMMA FromLemma ==
  ASSUME NEW ino, Distinct(ino), NEW o \in Nat, NEW K, K = Rest(ino, o),
         K # {}, NEW k, k = Least(K), NEW b, b = ino.sectors[k]
  PROVE  /\ k \in Sectors /\ k \in Nat /\ b # 0 /\ b \in From(ino, o)
         /\ From(ino, k + 1) = From(ino, o) \ {b}
<1>1. K \subseteq Nat
  BY Consts DEF Rest
<1>2. k \in K /\ \A l \in K : k <= l
  BY <1>1, LeastLemma
<1>3. k \in Sectors /\ k >= o /\ b # 0 /\ k \in Nat
  BY <1>1, <1>2 DEF Rest
<1>4. \A l \in Sectors : l >= k + 1 => l >= o /\ l # k
  BY <1>3, Consts
<1>5. \A l \in Sectors : l >= o /\ ino.sectors[l] # 0 => l = k \/ l >= k + 1
  <2>1. \A l \in Sectors : l >= o /\ ino.sectors[l] # 0 => k <= l
    BY <1>2 DEF Rest
  <2> QED BY <1>3, <2>1, Consts
<1>6. \A l \in Sectors : ino.sectors[l] = b => l = k
  BY <1>3 DEF Distinct
<1> QED BY <1>3, <1>4, <1>5, <1>6 DEF From

\* The next block of inode_free, or its end.
LEMMA FreeLemma ==
  ASSUME OneProgram, DInv, at \notin Syncs, NEW c, NEW r, Freeing(c, r), FreeBlocks(prog, c, r),
         DiskAsIs(c.used), Watch(ls)
  PROVE  DInv'
<1>a. PICK h, ino, K : h = r.h /\ ino = c.ino[h] /\ K = {k \in Sectors : k >= r.off /\ ino.sectors[k] # 0}
  OBVIOUS
<1>b. PICK U : U = UNION {BlocksOf(dsk.itab[i]) : i \in c.ibits}
  OBVIOUS
<1>1. /\ MemInv(c, Blocks) /\ ~c.panic /\ IsReq(r) /\ r.op = "unlink" /\ r.n \in Names /\ HasName(r.n) /\ r.off \in Nat
      /\ h \in Files(c) /\ c.ino[h].cnts = 1 /\ Refs(c, h) = {} /\ c.ino[h].i_no \notin c.ibits
      /\ Distinct(ino) /\ c.used = U \cup From(ino, r.off)
      /\ \A i \in c.ibits : From(ino, r.off) \cap BlocksOf(dsk.itab[i]) = {}
  BY <1>a, <1>b DEF Freeing
<1>2. h \in c.open /\ IsInode(ino, Blocks)
  BY <1>1, <1>a DEF Files, MemInv
<1>3. CASE K = {}
  <2>1. From(ino, r.off) = {}
    BY <1>3, <1>a DEF From
  <2>2. Freed(prog, c, r)
    BY <1>3, <1>a DEF FreeBlocks
  <2> DEFINE y == Close(c, h)
             q == ForLook(r, "remove")
  <2>3. Go(prog, y, "look", q)
    BY <1>1, <1>a, <2>2 DEF Freed, LookUp, ForLook
  <2>4. /\ MemInv(y, Blocks) /\ y.used = c.used /\ y.ibits = c.ibits /\ y.panic = c.panic
        /\ y.open = c.open \ {h} /\ \A g \in y.open : y.ino[g] = c.ino[g]
    BY <1>1, CloseLast
  <2>5. IsReq(q) /\ q.op = "unlink" /\ q.n = r.n /\ q.why = "remove" /\ q.off = 0
    BY <1>1, ReqLook
  <2> HIDE DEF y, q
  <2>6. y.used = (UNION {BlocksOf(dsk.itab[i]) : i \in c.ibits}) \cup {}
    BY <1>1, <1>b, <2>1, <2>4
  <2>7. /\ DTypes' /\ MemInv(core, Blocks)' /\ SyncInv' /\ RootInv' /\ BitsInv' /\ OwnInv' /\ LsInv'
        /\ core' = y /\ at' = "look" /\ rq' = q /\ root'.size = root.size /\ Used' = Used
        /\ (\A n : HasName(n)' <=> HasName(n))
    BY <1>1, <1>a, <2>3, <2>4, <2>5, <2>6, FreeFrame
  <2>8. LookInv'
    <3>1. 0 \in 0..root.size - 1 /\ \A d \in Used : ~(d < 0)
      BY UsedLemma DEF DInv, RootInv
    <3> QED BY <1>1, <2>5, <2>7, <3>1 DEF LookInv
  <2>9. OpenInv' /\ NewInv'
    BY <2>5, <2>7 DEF OpenInv, NewInv
  <2>10. CallInv'
    BY <1>1, <2>5, <2>7, <2>8, <2>9, LookRest
  <2> QED BY <2>7, <2>10 DEF DInv
<1>4. CASE K # {}
  <2>1. PICK k, b : k = Least(K) /\ b = ino.sectors[k]
    OBVIOUS
  <2>2. /\ k \in Sectors /\ k \in Nat /\ b # 0 /\ b \in From(ino, r.off)
        /\ From(ino, k + 1) = From(ino, r.off) \ {b}
    <3>1. PICK o : o = r.off
      OBVIOUS
    <3>2. Distinct(ino) /\ o \in Nat /\ K = Rest(ino, o)
      BY <1>1, <1>a, <3>1 DEF Rest
    <3>3. /\ k \in Sectors /\ k \in Nat /\ b # 0 /\ b \in From(ino, o)
          /\ From(ino, k + 1) = From(ino, o) \ {b}
      BY ONLY <1>4, <2>1, <3>2, FromLemma
    <3> QED BY <3>1, <3>3
  <2>3. b \in Blocks
    BY <1>2, <2>1, <2>2 DEF IsInode
  <2>4. b \notin U
    BY <1>1, <1>b, <2>2
  <2> DEFINE y == WithUsed(c, c.used \ {b})
             q == WithZero(r, k, b)
  <2>5. Go(prog, y, "zero", q)
    BY <1>4, <1>a, <2>1 DEF FreeBlocks, WithUsed, WithZero
  <2>6. /\ MemInv(y, Blocks) /\ y.used = c.used \ {b} /\ y.ibits = c.ibits /\ y.panic = c.panic
        /\ y.open = c.open /\ y.slots = c.slots /\ y.ino = c.ino /\ Files(y) = Files(c)
    BY <1>1, UsedMem
  <2>7. /\ IsReq(q) /\ q.op = "unlink" /\ q.n = r.n /\ q.off = k /\ q.h = h /\ q.b = b
    BY <1>1, <1>a, ReqZero
  <2> HIDE DEF y, q
  <2>8. y.used = U \cup From(ino, k + 1)
    BY <1>1, <2>2, <2>4, <2>6
  <2>9. y.ino[h] = ino /\ y.used \subseteq c.used
    BY <1>a, <2>6
  <2>10. y.used = (UNION {BlocksOf(dsk.itab[i]) : i \in c.ibits}) \cup From(y.ino[r.h], q.off + 1)
    BY <1>a, <1>b, <2>7, <2>8, <2>9
  <2>11. /\ DTypes' /\ MemInv(core, Blocks)' /\ SyncInv' /\ RootInv' /\ BitsInv' /\ OwnInv' /\ LsInv'
         /\ core' = y /\ at' = "zero" /\ rq' = q
         /\ (\A n : HasName(n)' <=> HasName(n)) /\ Known' = c.ibits /\ (\A i : Node(i)' = dsk.itab[i])
         /\ Blocks' = Blocks
    BY <1>1, <1>a, <2>2, <2>5, <2>6, <2>7, <2>9, <2>10, FreeFrame
  <2>12. ZeroInv'
    <3>1. Extra' = From(ino, k + 1)
      <4>1. core'.ino[rq'.h] = ino /\ rq'.off = k
        BY <2>7, <2>9, <2>11
      <4> QED BY <2>11, <4>1 DEF Extra, Zeroing, From
    <3>2. \A i \in Known' : Extra' \cap BlocksOf(Node(i))' = {}
      <4>1. \A i : BlocksOf(Node(i))' = BlocksOf(dsk.itab[i])
        BY <2>11 DEF BlocksOf
      <4> QED BY <1>1, <2>2, <2>11, <3>1, <4>1
    <3>3. Distinct(core.ino[rq.h])'
      BY <1>1, <2>7, <2>9, <2>11 DEF Distinct
    <3>4. rq'.h \in Files(core)' /\ Refs(core, rq.h)' = {}
      <4>1. Files(core)' = Files(y) /\ Refs(core, rq.h)' = Refs(y, h)
        BY <2>7, <2>11 DEF Files, Refs
      <4>2. Refs(y, h) = Refs(c, h)
        BY <2>6 DEF Refs
      <4> QED BY <1>1, <2>6, <2>7, <2>11, <4>1, <4>2
    <3>5. HasName(rq.n)'
      <4>1. PICK n : n = rq'.n
        OBVIOUS
      <4>2. HasName(n)'
        BY <1>1, <2>7, <2>11, <4>1
      <4> QED BY <4>1, <4>2 DEF HasName, Used, Dir, root, Cell
    <3>6. core'.ino[rq'.h].cnts = 1 /\ core'.ino[rq'.h].i_no \notin core'.ibits /\ rq'.off \in Sectors
          /\ rq'.b \in Blocks' \ core'.used
      BY <1>1, <1>a, <2>2, <2>3, <2>6, <2>7, <2>9, <2>11
    <3> QED BY <3>2, <3>3, <3>4, <3>5, <3>6 DEF ZeroInv
  <2>13. OpInv' /\ LookInv' /\ OpenInv' /\ NewInv'
    BY <1>1, <2>7, <2>11 DEF OpInv, LookInv, OpenInv, NewInv, Zeroing
  <2>14. WriteInv' /\ BlockInv' /\ DirtyInv'
    BY <2>11 DEF WriteInv, BlockInv, DirtyInv, Writing, Syncs
  <2> QED BY <2>11, <2>12, <2>13, <2>14 DEF DInv, CallInv
<1> QED BY <1>3, <1>4

-----------------------------------------------------------------------------
\* unlink starts inode_free.
LEMMA DeleteStart ==
  ASSUME OneProgram, DInv, ReadInode(prog), rq.why = "delete", Watch(ls)
  PROVE  DInv'
<1> DEFINE f == Fresh(core)
           x == Pushed
           c == Clearing(x, f)
           r == ForFree(rq, f)
<1>1. at = "open" /\ dsk' = dsk /\ FreeBlocks(prog, c, r)
  <2>1. at = "open" /\ dsk' = dsk /\ Found(prog, x, rq, f)
    BY DEF ReadInode, at, rq, Pushed
  <2>2. inode_free(prog, x, rq, f)
    BY <2>1 DEF Found
  <2> QED BY <2>1, <2>2 DEF inode_free, Clearing, ForFree
<1>2. PICK i : i = rq.i
  OBVIOUS
<1>3. /\ rq.op = "unlink" /\ rq.n \in Names /\ Find(core, i) = {}
      /\ mine = {} /\ dead = {} /\ taken = {} /\ Extra = {} /\ at \notin Syncs /\ at \notin Zeroing
  <2>1. rq.op = "unlink" /\ rq.n \in Names /\ at \notin Syncs /\ at \notin Zeroing
    BY <1>1 DEF DInv, CallInv, LookInv, OpInv, Syncs, Zeroing
  <2>2. Find(core, i) = {}
    BY <1>1, <1>2 DEF DInv, CallInv, OpenInv
  <2> QED BY <1>1, <2>1, <2>2 DEF mine, dead, taken, Extra
<1>4. /\ rq.off \in Used /\ Dir(rq.off).filename = rq.n /\ Dir(rq.off).i_no = i
      /\ i \in Inodes /\ i # ROOT /\ HasName(rq.n) /\ i \in core.ibits
      /\ f \notin core.open /\ f # ROOT
      /\ x.used = core.used /\ x.ibits = core.ibits /\ x.panic = core.panic
      /\ \A g \in core.open : x.ino[g] = core.ino[g]
      /\ x.ino[f].i_no = i /\ x.ino[f].cnts = 1
      /\ Of(x.ino[f]) = dsk.itab[i] /\ x.ino[f].sectors = dsk.itab[i].sectors
      /\ MemInv(x, Blocks) /\ Refs(x, f) = {} /\ Files(x) = Files(core) \cup {f}
  BY <1>1, <1>2, <1>3, PushedLemma
<1>5. /\ MemInv(c, Blocks) /\ c.used = core.used /\ c.ibits = core.ibits \ {i} /\ c.panic = core.panic
      /\ c.ino = x.ino /\ Files(c) = Files(core) \cup {f} /\ Refs(c, f) = {}
  <2>1. c = WithBits(x, core.ibits \ {i})
    BY <1>4 DEF Clearing, WithBits
  <2> HIDE DEF c, x, f
  <2>2. /\ MemInv(c, Blocks) /\ c.used = x.used /\ c.ibits = core.ibits \ {i} /\ c.panic = x.panic
        /\ c.slots = x.slots /\ c.ino = x.ino /\ Files(c) = Files(x)
    BY <1>4, <2>1, BitsMem
  <2> QED BY <1>4, <2>2 DEF Refs
<1>6. IsReq(r) /\ r.op = "unlink" /\ r.n = rq.n /\ r.off = 0 /\ r.h = f
  BY <1>3, SameSelf, ReqFree
<1> HIDE DEF f, x, c, r
<1>7. Known = core.ibits /\ \A j : Node(j) = dsk.itab[j]
  BY <1>3 DEF Known, Node
<1>8. /\ \A j \in core.ibits : Distinct(dsk.itab[j]) /\ (dsk.itab[j].size > 0 => dsk.itab[j].sectors[0] # 0)
      /\ \A j, k \in core.ibits : j # k => BlocksOf(dsk.itab[j]) \cap BlocksOf(dsk.itab[k]) = {}
      /\ core.used = UNION {BlocksOf(dsk.itab[j]) : j \in core.ibits}
      /\ core.used \subseteq dsk.used
  <2>1. \A j : BlocksOf(Node(j)) = BlocksOf(dsk.itab[j]) /\ Distinct(Node(j)) = Distinct(dsk.itab[j])
    BY <1>7
  <2> QED BY <1>1, <1>3, <1>7, <2>1 DEF DInv, OwnInv
<1>9. From(c.ino[f], 0) = BlocksOf(dsk.itab[i]) /\ Distinct(c.ino[f])
  <2>1. c.ino[f].sectors = dsk.itab[i].sectors /\ Distinct(dsk.itab[i])
    BY <1>4, <1>5, <1>8
  <2>2. \A k \in Sectors : k >= 0
    BY Consts
  <2> QED BY <2>1, <2>2 DEF From, BlocksOf, Distinct
<1>10. Of(c.ino[ROOT]) = Of(root) /\ c.ino[f].i_no \notin c.ibits /\ f \in Files(c) /\ c.ino[f].cnts = 1
  BY <1>4, <1>5 DEF DInv, MemInv, root
<1>11. \A g \in Files(c) : /\ Of(c.ino[g]) = dsk.itab[c.ino[g].i_no]
                           /\ g # f => c.ino[g].i_no \in c.ibits
  <2>1. \A g \in Files(core) : /\ Of(core.ino[g]) = dsk.itab[core.ino[g].i_no]
                               /\ core.ino[g].i_no \in core.ibits /\ core.ino[g].i_no # i
                               /\ c.ino[g] = core.ino[g]
    <3>1. \A g \in Files(core) : g \in core.open
      BY DEF Files
    <3> QED BY <1>3, <1>4, <1>5, <3>1, FilesQuiet DEF Find
  <2> QED BY <1>4, <1>5, <2>1
<1>12. /\ ROOT \in c.ibits /\ c.ibits \subseteq {ROOT} \cup Named /\ c.ibits \subseteq dsk.ibits
       /\ \A d \in Used : Dir(d).i_no \in c.ibits <=> Dir(d).filename # rq.n
  <2>1. /\ ROOT \in core.ibits /\ core.ibits \subseteq {ROOT} \cup Named /\ core.ibits \subseteq dsk.ibits
        /\ \A d \in Used : Dir(d).i_no \in core.ibits
    BY <1>3 DEF DInv, BitsInv
  <2>2. \A d \in Used : Dir(d).i_no = i <=> Dir(d).filename = rq.n
    <3>1. \A d, e \in Used : Dir(e).filename = Dir(d).filename \/ Dir(e).i_no = Dir(d).i_no => e = d
      BY DEF DInv, RootInv
    <3>2. PICK e \in Used : Dir(e).filename = rq.n /\ Dir(e).i_no = i
      BY <1>4
    <3> QED BY <3>1, <3>2
  <2> QED BY <1>4, <1>5, <2>1, <2>2
<1>13. c.used = (UNION {BlocksOf(dsk.itab[j]) : j \in c.ibits}) \cup From(c.ino[f], 0)
  BY <1>4, <1>5, <1>8, <1>9
<1>14. \A j \in c.ibits : From(c.ino[f], 0) \cap BlocksOf(dsk.itab[j]) = {}
  BY <1>4, <1>5, <1>8, <1>9
<1>15. Freeing(c, r)
  <2>1. ~c.panic /\ c.used \subseteq Blocks /\ c.ibits \subseteq Inodes
    BY <1>5 DEF DInv, DTypes
  <2>2. r.h \in Files(c) /\ c.ino[r.h].cnts = 1 /\ Refs(c, r.h) = {} /\ c.ino[r.h].i_no \notin c.ibits
        /\ Distinct(c.ino[r.h])
    BY <1>5, <1>6, <1>9, <1>10
  <2>3. /\ \A g \in Files(c) : /\ Of(c.ino[g]) = dsk.itab[c.ino[g].i_no]
                               /\ g # r.h => c.ino[g].i_no \in c.ibits
        /\ \A d \in Used : Dir(d).i_no \in c.ibits <=> Dir(d).filename # r.n
    BY <1>6, <1>11, <1>12
  <2>4. /\ \A j \in c.ibits : /\ Distinct(dsk.itab[j]) /\ (dsk.itab[j].size > 0 => dsk.itab[j].sectors[0] # 0)
                               /\ From(c.ino[r.h], r.off) \cap BlocksOf(dsk.itab[j]) = {}
        /\ \A j, k \in c.ibits : j # k => BlocksOf(dsk.itab[j]) \cap BlocksOf(dsk.itab[k]) = {}
        /\ c.used = (UNION {BlocksOf(dsk.itab[j]) : j \in c.ibits}) \cup From(c.ino[r.h], r.off)
    BY <1>5, <1>6, <1>8, <1>13, <1>14
  <2>5. r.n \in Names /\ HasName(r.n) /\ r.off \in Nat
    BY <1>3, <1>4, <1>6 DEF HasName
  <2>6. /\ MemInv(c, Blocks) /\ Of(c.ino[ROOT]) = Of(root) /\ IsReq(r) /\ r.op = "unlink"
        /\ ROOT \in c.ibits /\ c.ibits \subseteq {ROOT} \cup Named /\ c.ibits \subseteq dsk.ibits
    BY <1>5, <1>6, <1>10, <1>12
  <2> QED BY ONLY <2>1, <2>2, <2>3, <2>4, <2>5, <2>6 DEF Freeing
<1>16. DiskAsIs(c.used)
  BY <1>1, <1>5, <1>8 DEF DiskAsIs, DInv, DTypes
<1> QED BY <1>1, <1>3, <1>15, <1>16, FreeLemma

\* inode_open reads an inode, and the lookup is done.
LEMMA ReadInodeStep ==
  ASSUME OneProgram, DInv, ReadInode(prog), Watch(ls)
  PROVE  DInv'
BY DeleteStart, ReadInodeQuiet

\* block_bitmap_free has cleared a bit; the next block of inode_free.
LEMMA ZeroBitmapStep ==
  ASSUME OneProgram, DInv, at = "zbit", dsk' = [dsk EXCEPT !.used = core.used],
         FreeBlocks(prog, core, WithOff(rq, rq.off + 1)), Watch(ls)
  PROVE  DInv'
<1> DEFINE r == WithOff(rq, rq.off + 1)
<1>1. PICK h, o : h = rq.h /\ o = rq.off + 1
  OBVIOUS
<1>2. /\ h \in Files(core) /\ HasName(rq.n) /\ rq.off \in Sectors /\ rq.off \in Nat /\ o \in Nat
      /\ core.ino[h].cnts = 1 /\ Refs(core, h) = {} /\ core.ino[h].i_no \notin core.ibits
      /\ Distinct(core.ino[h]) /\ rq.op = "unlink" /\ rq.n \in Names
  BY <1>1, Consts DEF DInv, CallInv, ZeroInv, OpInv, Zeroing
<1>3. mine = {} /\ dead = {rq.n} /\ taken = {} /\ at \notin Syncs /\ at # "bbit" /\ Known = core.ibits
  BY <1>2 DEF mine, dead, taken, Syncs, Zeroing, Known
<1>4. Extra = From(core.ino[h], o)
  BY <1>1 DEF Extra, Zeroing, From
<1>5. \A j : Node(j) = dsk.itab[j]
  BY <1>3 DEF Node
<1>6. /\ \A j \in core.ibits : /\ Distinct(dsk.itab[j]) /\ (dsk.itab[j].size > 0 => dsk.itab[j].sectors[0] # 0)
                               /\ From(core.ino[h], o) \cap BlocksOf(dsk.itab[j]) = {}
      /\ \A j, k \in core.ibits : j # k => BlocksOf(dsk.itab[j]) \cap BlocksOf(dsk.itab[k]) = {}
      /\ core.used = (UNION {BlocksOf(dsk.itab[j]) : j \in core.ibits}) \cup From(core.ino[h], o)
  <2>1. \A j : BlocksOf(Node(j)) = BlocksOf(dsk.itab[j]) /\ Distinct(Node(j)) = Distinct(dsk.itab[j])
    BY <1>5
  <2>2. \A j \in Known : Extra \cap BlocksOf(Node(j)) = {}
    BY DEF DInv, CallInv, ZeroInv, Zeroing
  <2> QED BY <1>3, <1>4, <1>5, <2>1, <2>2 DEF DInv, OwnInv
<1>7. IsReq(r) /\ r.op = "unlink" /\ r.n = rq.n /\ r.off = o /\ r.h = h
  BY <1>1, <1>2, SameSelf, ReqOff
<1>8. FreeBlocks(prog, core, r)
  OBVIOUS
<1> HIDE DEF r
<1>9. \A g \in Files(core) : /\ Of(core.ino[g]) = dsk.itab[core.ino[g].i_no]
                             /\ g # h => core.ino[g].i_no \in core.ibits
  BY <1>1, <1>3 DEF DInv, SyncInv, BitsInv, Files
<1>10. /\ ROOT \in core.ibits /\ core.ibits \subseteq {ROOT} \cup Named /\ core.ibits \subseteq dsk.ibits
       /\ \A d \in Used : Dir(d).i_no \in core.ibits <=> Dir(d).filename # rq.n
  BY <1>3 DEF DInv, BitsInv
<1>11. Freeing(core, r)
  <2>1. MemInv(core, Blocks) /\ ~core.panic /\ core.used \subseteq Blocks /\ core.ibits \subseteq Inodes
        /\ Of(core.ino[ROOT]) = Of(root)
    BY DEF DInv, DTypes, root
  <2> QED BY <1>2, <1>6, <1>7, <1>9, <1>10, <2>1 DEF Freeing
<1>12. DiskAsIs(core.used)
  <2>1. dsk = [used |-> dsk.used, ibits |-> dsk.ibits, itab |-> dsk.itab, blk |-> dsk.blk]
        /\ core.used \subseteq Blocks
    BY DEF DInv, DTypes
  <2>2. /\ dsk' = [used |-> dsk'.used, ibits |-> dsk'.ibits, itab |-> dsk'.itab, blk |-> dsk'.blk]
        /\ dsk'.used = core.used /\ dsk'.ibits = dsk.ibits /\ dsk'.itab = dsk.itab /\ dsk'.blk = dsk.blk
    BY ONLY <2>1, dsk' = [dsk EXCEPT !.used = core.used]
  <2> QED BY <2>1, <2>2 DEF DiskAsIs
<1> QED BY <1>3, <1>8, <1>11, <1>12, FreeLemma

\* The block bitmap is written, by block_bitmap_alloc or block_bitmap_free.
LEMMA BitmapStep ==
  ASSUME OneProgram, DInv, WriteBlockBitmap(prog), Watch(ls)
  PROVE  DInv'
<1>1. dsk' = [dsk EXCEPT !.used = core.used]
  BY DEF WriteBlockBitmap
<1>2. CASE at = "bbit" /\ Go(prog, core, "get", rq)
  BY <1>1, <1>2, BlockBitmapStep
<1>3. CASE at = "zbit" /\ FreeBlocks(prog, core, WithOff(rq, rq.off + 1))
  BY <1>1, <1>3, ZeroBitmapStep
<1> QED BY <1>2, <1>3 DEF WriteBlockBitmap, at, rq, WithOff

-----------------------------------------------------------------------------
\* block_bitmap_free writes zeros, to a block of no inode.
LEMMA ZeroStep ==
  ASSUME OneProgram, DInv, ZeroTheBlock(prog), Watch(ls)
  PROVE  DInv'
<1>1. at = "zero" /\ dsk' = [dsk EXCEPT !.blk[rq.b] = ZeroBlock] /\ Go(prog, core, "zbit", rq)
  BY DEF ZeroTheBlock, at, rq
<1>2. core' = core /\ at' = "zbit" /\ rq' = rq
  BY <1>1, GoLemma DEF DInv, DTypes
<1>3. rq.b \in Blocks \ core.used
  BY <1>1 DEF DInv, CallInv, ZeroInv, Zeroing
<1>4. /\ dsk' = [used |-> dsk'.used, ibits |-> dsk'.ibits, itab |-> dsk'.itab, blk |-> dsk'.blk]
      /\ dsk'.used = dsk.used /\ dsk'.ibits = dsk.ibits /\ dsk'.itab = dsk.itab
      /\ dsk'.blk = [dsk.blk EXCEPT ![rq.b] = ZeroBlock]
  <2>1. dsk = [used |-> dsk.used, ibits |-> dsk.ibits, itab |-> dsk.itab, blk |-> dsk.blk]
    BY DEF DInv, DTypes
  <2> QED BY ONLY <1>1, <2>1
<1>5. DTypes' /\ Blocks' = Blocks
  <2>1. DOMAIN dsk'.blk = Blocks /\ \A b \in Blocks : DOMAIN dsk'.blk[b] = 0..PerBlock - 1
    BY <1>3, <1>4 DEF DInv, DTypes, Blocks, ZeroBlock
  <2>2. ~core.panic /\ IsReq(rq) /\ "zbit" \in {"user"} \cup Calling
    BY DEF DInv, DTypes, Calling, Zeroing
  <2> QED BY <1>1, <1>4, <2>1, <2>2, TypesStep DEF DInv, DTypes
<1>6. MemInv(core, Blocks)'
  BY <1>2, <1>5 DEF DInv
<1>7. /\ at \notin Syncs /\ at' \notin Syncs /\ at \in Zeroing /\ at' \in Zeroing
      /\ taken' = taken /\ mine' = mine /\ dead' = dead /\ Extra' = Extra
  <2>1. at \notin Syncs /\ at' \notin Syncs /\ at \in Zeroing /\ at' \in Zeroing
    BY <1>1, <1>2 DEF Syncs, Zeroing
  <2> QED BY <1>1, <1>2, <2>1 DEF taken, mine, dead, Extra
<1>8. \A i : Node(i)' = Node(i) /\ Node(i) = dsk.itab[i]
  BY <1>4, <1>7 DEF Node
<1>9. rq.b \notin BlocksOf(root)
  <2>1. Of(root) = dsk.itab[ROOT] /\ ROOT \in core.ibits
    BY <1>7 DEF DInv, SyncInv, MemInv, BitsInv, root
  <2>2. ROOT \in Known
    BY <1>1, <2>1 DEF Known, taken
  <2>3. BlocksOf(root) = BlocksOf(Node(ROOT))
    BY <1>8, <2>1 DEF BlocksOf, Of
  <2>4. BlocksOf(Node(ROOT)) \subseteq core.used
    BY <2>2 DEF DInv, OwnInv
  <2> QED BY <1>3, <2>3, <2>4
<1>10. root' = root /\ \A b \in BlocksOf(root) : dsk'.blk[b] = dsk.blk[b]
  BY <1>2, <1>4, <1>9 DEF root
<1>11. /\ RootInv' /\ Used' = Used /\ Named' = Named /\ Present' = Present
       /\ (\A d \in 0..root.size - 1 : Dir(d)' = Dir(d)) /\ (\A n : HasName(n)' <=> HasName(n))
  BY <1>10, RootFrame DEF DInv
<1>12. \A d \in Used : Dir(d)' = Dir(d)
  BY <1>11, UsedLemma DEF DInv
<1>13. LsInv'
  BY <1>10, <1>11, <1>12, LsFrame DEF DInv
<1>14. SyncInv'
  BY <1>2, <1>4, <1>7 DEF DInv, SyncInv
<1>15. BitsInv' /\ Known' = Known
  <2>1. \A h \in Files(core)' : core'.ino[h].i_no \in core.ibits \/ (at' \in Zeroing /\ h = rq'.h)
    BY <1>2, <1>7 DEF DInv, BitsInv
  <2> QED BY <1>2, <1>4, <1>7, <1>11, <1>12, <2>1, BitsFrame DEF DInv
<1>16. OwnInv'
  <2>1. at # "bbit" /\ at' # "bbit"
    BY <1>1, <1>2
  <2> QED BY <1>2, <1>4, <1>7, <1>8, <1>15, <2>1, OwnFrame DEF DInv
<1>17. ZeroInv'
  <2>1. \A i : BlocksOf(Node(i))' = BlocksOf(Node(i))
    BY <1>8 DEF BlocksOf
  <2>2. PICK n : n = rq.n
    OBVIOUS
  <2>3. HasName(n)'
    BY <1>7, <1>11, <2>2 DEF DInv, CallInv, ZeroInv
  <2>4. HasName(rq.n)'
    BY <1>2, <2>2, <2>3 DEF HasName, Used, Dir, root, Cell
  <2>5. Distinct(core.ino[rq.h])' /\ Files(core)' = Files(core) /\ Refs(core, rq.h)' = Refs(core, rq.h)
    BY <1>2, <1>7 DEF Distinct, DInv, CallInv, ZeroInv
  <2> QED BY <1>2, <1>5, <1>7, <1>15, <2>1, <2>4, <2>5 DEF DInv, CallInv, ZeroInv
<1>18. OpInv' /\ LookInv' /\ OpenInv' /\ NewInv' /\ WriteInv' /\ BlockInv' /\ DirtyInv'
  <2>1. rq.op = "unlink"
    BY <1>7 DEF DInv, CallInv, OpInv
  <2>2. OpInv' /\ LookInv' /\ OpenInv' /\ NewInv'
    BY <1>1, <1>2, <1>7, <2>1 DEF DInv, CallInv, OpInv, LookInv, OpenInv, NewInv
  <2>3. WriteInv' /\ BlockInv' /\ DirtyInv'
    BY <1>2, <1>7 DEF WriteInv, BlockInv, DirtyInv, Writing
  <2> QED BY <2>2, <2>3
<1> QED BY <1>5, <1>6, <1>11, <1>13, <1>14, <1>15, <1>16, <1>17, <1>18 DEF DInv, CallInv

-----------------------------------------------------------------------------
(* inode_sync *)

\* What holds when an inode has been synced, whatever comes next.
LEMMA SyncFrame ==
  ASSUME OneProgram, DInv, at = "iput", dsk' = [dsk EXCEPT !.itab = rq.buf],
         NEW c, NEW a \in {"user", "look"}, NEW r, Go(prog, c, a, r), IsReq(r), MemInv(c, Blocks),
         c.used = core.used, c.ibits = core.ibits, c.panic = core.panic,
         c.open = core.open, c.ino = core.ino, mine' = mine, dead' = dead, Watch(ls)
  PROVE  /\ DTypes' /\ MemInv(core, Blocks)' /\ SyncInv' /\ RootInv' /\ BitsInv' /\ OwnInv' /\ LsInv'
         /\ core' = c /\ at' = a /\ rq' = r /\ root' = root /\ Used' = Used
<1>a. PICK h, i, v : h = rq.h /\ i = core.ino[h].i_no /\ v = Of(core.ino[h])
  OBVIOUS
<1>1. core' = c /\ at' = a /\ rq' = r
  BY GoLemma DEF DInv, DTypes
<1>2. /\ at \in Syncs /\ at \notin Zeroing /\ at' \notin Syncs /\ at' \notin Zeroing
      /\ taken = {} /\ taken' = {} /\ Extra = {} /\ Extra' = {} /\ at # "bbit" /\ at' # "bbit"
  BY <1>1 DEF Syncs, Zeroing, taken, Extra
<1>3. h \in core.open /\ rq.buf = [dsk.itab EXCEPT ![i] = v]
  BY <1>2, <1>a DEF DInv, CallInv, WriteInv, DirtyInv
<1>4. IsInode(core.ino[h], Blocks) /\ i \in Inodes
  BY <1>3, <1>a DEF DInv, MemInv, IsInode
<1>5. v \in DiskInode(Blocks)
  BY <1>4, <1>a DEF IsInode, Of, DiskInode
<1>6. /\ dsk' = [used |-> dsk'.used, ibits |-> dsk'.ibits, itab |-> dsk'.itab, blk |-> dsk'.blk]
      /\ dsk'.used = dsk.used /\ dsk'.ibits = dsk.ibits /\ dsk'.blk = dsk.blk
      /\ dsk'.itab = rq.buf
  <2>1. dsk = [used |-> dsk.used, ibits |-> dsk.ibits, itab |-> dsk.itab, blk |-> dsk.blk]
    BY DEF DInv, DTypes
  <2> QED BY ONLY <2>1, dsk' = [dsk EXCEPT !.itab = rq.buf]
<1>7. /\ dsk'.itab \in [Inodes -> DiskInode(Blocks)]
      /\ dsk'.itab[i] = v /\ \A j \in Inodes : j # i => dsk'.itab[j] = dsk.itab[j]
  BY <1>3, <1>4, <1>5, <1>6 DEF DInv, DTypes
<1>8. DTypes' /\ Blocks' = Blocks
  <2>1. ~c.panic /\ c.used \subseteq Blocks /\ c.ibits \subseteq Inodes /\ a \in {"user"} \cup Calling
    BY DEF DInv, DTypes, Calling
  <2>2. DOMAIN dsk'.blk = Blocks /\ \A b \in Blocks : DOMAIN dsk'.blk[b] = 0..PerBlock - 1
    BY <1>6 DEF DInv, DTypes, Blocks
  <2>3. dsk'.used \subseteq Blocks /\ dsk'.ibits \subseteq Inodes
    BY <1>6 DEF DInv, DTypes
  <2> QED BY <1>6, <1>7, <2>1, <2>2, <2>3, TypesStep DEF DInv
<1>9. MemInv(core, Blocks)' /\ root' = root
  BY <1>1, <1>8 DEF root
<1>10. /\ RootInv' /\ Used' = Used /\ Named' = Named /\ Present' = Present
       /\ (\A d \in 0..root.size - 1 : Dir(d)' = Dir(d))
  BY <1>6, <1>9, RootFrame DEF DInv
<1>11. \A d \in Used : Dir(d)' = Dir(d)
  BY <1>10, UsedLemma DEF DInv
<1>12. LsInv'
  BY <1>9, <1>10, <1>11, LsFrame DEF DInv
<1>13. SyncInv'
  <2>1. \A g \in core.open : g = h \/ (core.ino[g].i_no # i /\ core.ino[g].i_no \in Inodes)
    BY <1>3, <1>a DEF DInv, MemInv, IsInode
  <2>2. \A g \in core.open : g = h \/ Of(core.ino[g]) = dsk.itab[core.ino[g].i_no]
    BY <1>a DEF DInv, SyncInv
  <2> QED BY <1>1, <1>7, <1>a, <2>1, <2>2 DEF SyncInv
<1>14. BitsInv' /\ Known' = Known
  <2>1. \A g \in Files(core)' : core'.ino[g].i_no \in core.ibits
    BY <1>1, <1>2 DEF DInv, BitsInv, Files
  <2> QED BY <1>1, <1>2, <1>6, <1>10, <1>11, <2>1, BitsFrame DEF DInv
<1>15. \A j \in Known : Node(j)' = Node(j)
  <2>1. \A j : Node(j) = IF j = i THEN v ELSE dsk.itab[j]
    BY <1>2, <1>a DEF Node
  <2>2. \A j : Node(j)' = dsk'.itab[j]
    BY <1>2 DEF Node
  <2>3. Known \subseteq Inodes
    BY DEF Known, DInv, DTypes
  <2> QED BY <1>7, <2>1, <2>2, <2>3
<1>16. OwnInv'
  BY <1>1, <1>2, <1>6, <1>14, <1>15, OwnFrame DEF DInv
<1> QED BY <1>1, <1>8, <1>9, <1>10, <1>12, <1>13, <1>14, <1>16

\* inode_sync writes: the end of inode_alloc, or of inode_write.
LEMMA PutInodesStep ==
  ASSUME OneProgram, DInv, PutInodes(prog), Watch(ls)
  PROVE  DInv'
<1>1. /\ at = "iput" /\ dsk' = [dsk EXCEPT !.itab = rq.buf]
      /\ IF rq.why = "new" THEN LookUp(prog, core, rq, "link")
         ELSE Return(prog, IF rq.op = "creat" THEN [core EXCEPT !.slots[rq.slot] = rq.new] ELSE core)
  BY DEF PutInodes, at, rq
<1>2. at \in Syncs /\ at \notin Zeroing
  BY <1>1 DEF Syncs, Zeroing
<1>3. /\ \/ rq.why = "write" /\ rq.op \in {"creat", "unlink", "write"}
         \/ rq.why = "new" /\ rq.op = "creat"
      /\ rq.op = "creat" =>
           /\ rq.slot \in Slots /\ core.slots[rq.slot] = NULL
           /\ rq.new \in Files(core) /\ Refs(core, rq.new) = {}
           /\ core.ino[rq.new] = InMemory(core.ino[rq.new].i_no, 1, NewInode)
           /\ rq.n \in Names
  BY <1>1, <1>2 DEF DInv, CallInv, WriteInv, NewInv, OpInv
<1>4. CASE rq.why = "new"
  <2> DEFINE r == ForLook(rq, "link")
  <2>1. Go(prog, core, "look", r)
    BY <1>1, <1>4 DEF LookUp, ForLook
  <2>2. /\ IsReq(r) /\ r.op = "creat" /\ r.n = rq.n /\ r.why = "link" /\ r.off = 0
        /\ r.slot = rq.slot /\ r.new = rq.new
    BY <1>3, <1>4, SameSelf, ReqLook
  <2> HIDE DEF r
  <2>3. core' = core /\ at' = "look" /\ rq' = r
    BY <2>1, GoLemma DEF DInv, DTypes
  <2>4. mine' = mine /\ dead' = dead
    BY <1>1, <1>3, <1>4, <2>2, <2>3 DEF mine, dead, Syncs
  <2>5. /\ DTypes' /\ MemInv(core, Blocks)' /\ SyncInv' /\ RootInv' /\ BitsInv' /\ OwnInv' /\ LsInv'
        /\ root' = root /\ Used' = Used
    BY <1>1, <2>1, <2>2, <2>4, SameSelf, SyncFrame
  <2>6. LookInv'
    <3>1. 0 \in 0..root.size - 1 /\ \A d \in Used : ~(d < 0)
      BY UsedLemma DEF DInv, RootInv
    <3> QED BY <2>2, <2>3, <2>5, <3>1 DEF LookInv
  <2>7. OpInv' /\ OpenInv' /\ ZeroInv' /\ WriteInv' /\ BlockInv' /\ DirtyInv'
    BY <1>3, <1>4, <2>2, <2>3 DEF OpInv, OpenInv, ZeroInv, WriteInv, BlockInv, DirtyInv, Zeroing, Writing, Syncs
  <2>8. NewInv'
    BY <1>3, <1>4, <2>2, <2>3 DEF NewInv, Writing
  <2> QED BY <2>5, <2>6, <2>7, <2>8 DEF DInv, CallInv
<1>5. CASE rq.why # "new"
  <2> DEFINE c == IF rq.op = "creat" THEN [core EXCEPT !.slots[rq.slot] = rq.new] ELSE core
  <2>1. Go(prog, c, "user", NoReq) /\ IsReq(NoReq)
    BY <1>1, <1>5 DEF Return, IsReq, NoReq
  <2>2. /\ MemInv(c, Blocks) /\ c.used = core.used /\ c.ibits = core.ibits /\ c.panic = core.panic
        /\ c.open = core.open /\ c.ino = core.ino
    <3>1. CASE rq.op = "creat"
      <4>1. Cardinality(Refs(core, rq.new)) + 1 <= core.ino[rq.new].cnts
        <5>1. Cardinality(Refs(core, rq.new)) = 0
          BY <1>3, <3>1, RefsFinite
        <5>2. core.ino[rq.new].cnts = 1
          BY <1>3, <3>1 DEF InMemory
        <5> QED BY <5>1, <5>2
      <4>2. c = [core EXCEPT !.slots[rq.slot] = rq.new] /\ MemInv(core, Blocks)
        BY <3>1 DEF DInv
      <4> HIDE DEF c
      <4> QED BY <1>3, <3>1, <4>1, <4>2, SlotLemma
    <3>2. CASE rq.op # "creat"
      BY <3>2 DEF DInv
    <3> QED BY <3>1, <3>2
  <2> HIDE DEF c
  <2>3. core' = c /\ at' = "user" /\ rq' = NoReq
    BY <2>1, GoLemma DEF DInv, DTypes
  <2>4. CallInv' /\ mine' = {} /\ dead' = {}
    BY <2>3, UserCall
  <2>5. mine = {} /\ dead = {}
    BY <1>2, <1>3, <1>5 DEF mine, dead
  <2>6. DTypes' /\ MemInv(core, Blocks)' /\ SyncInv' /\ RootInv' /\ BitsInv' /\ OwnInv' /\ LsInv'
    BY <1>1, <2>1, <2>2, <2>4, <2>5, SyncFrame
  <2> QED BY <2>4, <2>6 DEF DInv
<1> QED BY <1>4, <1>5

-----------------------------------------------------------------------------
(* ls *)

\* Only the listing changes.
LEMMA OnlyListing ==
  ASSUME DInv, UNCHANGED <<core, dsk, pc, req>>
  PROVE  /\ DTypes' /\ MemInv(core, Blocks)' /\ SyncInv' /\ RootInv' /\ BitsInv' /\ OwnInv' /\ CallInv'
         /\ root' = root /\ Used' = Used /\ Present' = Present /\ (\A d : Dir(d)' = Dir(d))
<1>1. at' = at /\ rq' = rq /\ root' = root /\ Blocks' = Blocks
  BY DEF at, rq, root, Blocks
<1>2. \A d : Dir(d)' = Dir(d)
  BY <1>1 DEF Dir, Cell
<1>3. Used' = Used /\ Present' = Present
  BY <1>1, <1>2 DEF Used, Present, Cell
<1>4. (\A n : HasName(n)' <=> HasName(n)) /\ Named' = Named
  BY <1>2, <1>3 DEF HasName, Named
<1>5. DTypes' /\ MemInv(core, Blocks)' /\ SyncInv'
  BY <1>1 DEF DInv, DTypes, SyncInv, DiskInode
<1>6. RootInv'
  BY <1>1, <1>2, <1>3 DEF DInv, RootInv
<1>7. taken' = taken /\ mine' = mine /\ dead' = dead /\ Known' = Known /\ Extra' = Extra
  BY <1>1 DEF taken, mine, dead, Known, Extra
<1>8. \A i : Node(i)' = Node(i)
  BY <1>1 DEF Node
<1>9. BitsInv'
  BY <1>1, <1>2, <1>3, <1>4, <1>7 DEF DInv, BitsInv
<1>10. \A i : BlocksOf(Node(i))' = BlocksOf(Node(i)) /\ Distinct(Node(i))' = Distinct(Node(i))
  BY <1>8 DEF BlocksOf, Distinct
<1>11. OwnInv'
  BY <1>1, <1>7, <1>8, <1>10 DEF DInv, OwnInv
<1>12. OpInv' /\ NewInv' /\ DirtyInv'
  BY <1>1, <1>4 DEF DInv, CallInv, OpInv, NewInv, DirtyInv, HasName, Dir, Used, Cell
<1>13. LookInv' /\ OpenInv'
  BY <1>1, <1>3 DEF DInv, CallInv, LookInv, OpenInv, Closed, HasName, Dir, Cell
<1>14. ZeroInv'
  BY <1>1, <1>3, <1>7, <1>10 DEF DInv, CallInv, ZeroInv, HasName, Dir, Cell
<1>15. WriteInv'
  BY <1>1, <1>3 DEF DInv, CallInv, WriteInv, Dir, Cell
<1>16. BlockInv'
  BY <1>1, <1>7, <1>10 DEF DInv, CallInv, BlockInv
<1> QED BY <1>1, <1>2, <1>3, <1>5, <1>6, <1>9, <1>11, <1>12, <1>13, <1>14, <1>15, <1>16 DEF CallInv

\* A history without the names that are gone.
LEMMA WatchLemma ==
  ASSUME NEW l, l = [st |-> l.st, pos |-> l.pos, there |-> l.there, seen |-> l.seen, again |-> l.again],
         l.st = "open", Watch(l)
  PROVE  /\ ls' = [st |-> ls'.st, pos |-> ls'.pos, there |-> ls'.there, seen |-> ls'.seen, again |-> ls'.again]
         /\ ls'.st = "open" /\ ls'.pos = l.pos /\ ls'.there = l.there \cap Present'
         /\ ls'.seen = l.seen \cap Present' /\ ls'.again = l.again \cap Present'
<1>1. ls' = [l EXCEPT !.there = @ \cap Present', !.seen = @ \cap Present', !.again = @ \cap Present']
  BY DEF Watch
<1> QED BY <1>1

\* A listing begins.
LEMMA OpendirStep ==
  ASSUME DInv, sys_opendir
  PROVE  DInv'
<1>1. UNCHANGED <<core, dsk, pc, req>> /\ Watch([NoListing EXCEPT !.st = "open", !.there = Names])
  BY DEF sys_opendir
<1>2. /\ ls' = [st |-> ls'.st, pos |-> ls'.pos, there |-> ls'.there, seen |-> ls'.seen, again |-> ls'.again]
      /\ ls'.st = "open" /\ ls'.pos = 0 /\ ls'.there = Names \cap Present' /\ ls'.seen = {} /\ ls'.again = {}
  <2>0. PICK l : l = [NoListing EXCEPT !.st = "open", !.there = Names]
    OBVIOUS
  <2>1. /\ l = [st |-> l.st, pos |-> l.pos, there |-> l.there, seen |-> l.seen, again |-> l.again]
        /\ l.st = "open" /\ l.pos = 0 /\ l.there = Names /\ l.seen = {} /\ l.again = {}
    <3>1. l = [st |-> "open", pos |-> 0, there |-> Names, seen |-> {}, again |-> {}]
      BY <2>0 DEF NoListing
    <3> QED BY ONLY <3>1
  <2>2. Watch(l)
    BY <1>1, <2>0
  <2> QED BY <2>1, <2>2, WatchLemma
<1>3. /\ DTypes' /\ MemInv(core, Blocks)' /\ SyncInv' /\ RootInv' /\ BitsInv' /\ OwnInv' /\ CallInv'
      /\ root' = root /\ Used' = Used
  BY <1>1, OnlyListing
<1>4. LsInv'
  <2>1. Seen' = {}
    <3>1. \A c \in Used' : ~(c < 0)
      BY <1>3, UsedLemma DEF DInv
    <3> QED BY <1>2, <3>1 DEF Seen
  <2>2. 0 \in 0..root'.size
    BY <1>3, Consts DEF DInv, RootInv
  <2> QED BY <1>2, <2>1, <2>2 DEF LsInv
<1> QED BY <1>3, <1>4 DEF DInv

\* A listing has its fields, and goes on by one entry.
IsListing(l) == l = [st |-> l.st, pos |-> l.pos, there |-> l.there, seen |-> l.seen, again |-> l.again]

Onward(l, N) == [l EXCEPT !.pos = @ + 1, !.seen = @ \cup N, !.again = @ \cup (N \cap l.seen)]

\* A listing goes on by one entry.
LEMMA OnwardLemma ==
  ASSUME NEW l, IsListing(l), NEW N, NEW x, x = Onward(l, N)
  PROVE  /\ IsListing(x) /\ x.st = l.st /\ x.pos = l.pos + 1 /\ x.there = l.there
         /\ x.seen = l.seen \cup N /\ x.again = l.again \cup (N \cap l.seen)
BY DEF Onward, IsListing

\* readdir reads one entry, or reaches the end.
LEMMA ReaddirStep ==
  ASSUME DInv, sys_readdir
  PROVE  DInv'
<1> DEFINE N == IF Dir(ls.pos) = NULL THEN {} ELSE {Dir(ls.pos).filename} \cap ls.there
           l == [ls EXCEPT !.pos = @ + 1, !.seen = @ \cup N, !.again = @ \cup (N \cap ls.seen)]
<1>1. /\ UNCHANGED <<core, dsk, pc, req>> /\ ls.st = "open"
      /\ IF ls.pos + 1 > root.size THEN Watch([ls EXCEPT !.st = "end"]) ELSE Watch(l)
  BY DEF sys_readdir, Dir, root
<1>2. /\ DTypes' /\ MemInv(core, Blocks)' /\ SyncInv' /\ RootInv' /\ BitsInv' /\ OwnInv' /\ CallInv'
      /\ root' = root /\ Used' = Used /\ Present' = Present /\ (\A d : Dir(d)' = Dir(d))
  BY <1>1, OnlyListing
<1>3. /\ ls = [st |-> ls.st, pos |-> ls.pos, there |-> ls.there, seen |-> ls.seen, again |-> ls.again]
      /\ ls.again = {} /\ ls.there \subseteq Present /\ ls.pos \in 0..root.size /\ ls.seen = Seen
      /\ root.size \in Nat
  BY <1>1, Consts DEF DInv, LsInv, RootInv
<1>4. /\ \A n \in ls.there : n \in Names /\ \E c \in Used : Dir(c).filename = n
      /\ \A c \in Used : c \in Nat /\ c < root.size
      /\ \A c, d \in Used : Dir(c).filename = Dir(d).filename => c = d
  BY <1>3, UsedLemma DEF HasName, DInv, RootInv
<1>5. CASE ls.pos + 1 > root.size
  <2>1. ls' = [ls EXCEPT !.st = "end"]
    BY <1>1, <1>5 DEF Watch
  <2>2. /\ ls' = [st |-> ls'.st, pos |-> ls'.pos, there |-> ls'.there, seen |-> ls'.seen, again |-> ls'.again]
        /\ ls'.st = "end" /\ ls'.there = ls.there /\ ls'.seen = ls.seen /\ ls'.again = {}
    BY <1>3, <2>1
  <2>3. \A c \in Used : c < ls.pos
    BY <1>3, <1>4, <1>5
  <2>4. Seen = ls.there
    BY <1>4, <2>3 DEF Seen
  <2>5. LsInv'
    BY <1>3, <2>2, <2>4 DEF LsInv
  <2> QED BY <1>2, <2>5 DEF DInv
<1>6. CASE ~(ls.pos + 1 > root.size)
  <2>1. Watch(l)
    BY <1>1, <1>6
  <2>2. N \subseteq ls.there
    OBVIOUS
  <2>3. ls.pos \in 0..root.size - 1 /\ ls.pos + 1 \in 0..root.size /\ ls.pos \in Nat
    BY <1>3, <1>6
  <2>4. \A n \in N : ls.pos \in Used /\ Dir(ls.pos).filename = n
    <3>1. Dir(ls.pos) # NULL => ls.pos \in Used \/ Dir(ls.pos) = Entry(NULL, ROOT)
      BY <2>3, UsedLemma DEF DInv
    <3>2. Entry(NULL, ROOT).filename = NULL
      BY DEF Entry
    <3> QED BY <1>4, <3>1, <3>2, Consts
  <2>5. ls.pos \in Used => N = {Dir(ls.pos).filename} \cap ls.there
    BY DEF Used
  <2>6. N \cap ls.seen = {}
    <3>1. \A n \in ls.seen : \E c \in Used : c < ls.pos /\ Dir(c).filename = n
      BY <1>3 DEF Seen
    <3> HIDE DEF N
    <3> QED BY <1>4, <2>3, <2>4, <3>1
  <2> HIDE DEF N
  <2>7. /\ l = [st |-> l.st, pos |-> l.pos, there |-> l.there, seen |-> l.seen, again |-> l.again]
        /\ l.st = "open" /\ l.pos = ls.pos + 1 /\ l.there = ls.there /\ l.seen = ls.seen \cup N /\ l.again = {}
    <3>1. l = Onward(ls, N)
      BY DEF Onward
    <3>2. IsListing(ls)
      BY <1>3 DEF IsListing
    <3> HIDE DEF l
    <3>3. /\ IsListing(l) /\ l.st = ls.st /\ l.pos = ls.pos + 1 /\ l.there = ls.there
          /\ l.seen = ls.seen \cup N /\ l.again = ls.again \cup (N \cap ls.seen)
      BY <3>1, <3>2, OnwardLemma
    <3>4. ls.again \cup (N \cap ls.seen) = {}
      BY <1>3, <2>6
    <3> QED BY <1>1, <3>3, <3>4 DEF IsListing
  <2> HIDE DEF l
  <2>8. ls.seen \cup N \subseteq Present
    BY <1>3, <2>2 DEF Seen
  <2>9. /\ ls' = [st |-> ls'.st, pos |-> ls'.pos, there |-> ls'.there, seen |-> ls'.seen, again |-> ls'.again]
        /\ ls'.st = "open" /\ ls'.pos = ls.pos + 1 /\ ls'.there = ls.there
        /\ ls'.seen = ls.seen \cup N /\ ls'.again = {}
    <3>1. /\ ls' = [st |-> ls'.st, pos |-> ls'.pos, there |-> ls'.there, seen |-> ls'.seen, again |-> ls'.again]
          /\ ls'.st = "open" /\ ls'.pos = l.pos /\ ls'.there = l.there \cap Present'
          /\ ls'.seen = l.seen \cap Present' /\ ls'.again = l.again \cap Present'
      BY <2>1, <2>7, WatchLemma
    <3> QED BY <1>2, <1>3, <2>7, <2>8, <3>1
  <2>10. Seen' = ls.seen \cup N
    <3>1. Seen' = {n \in ls.there : \E c \in Used : c < ls.pos + 1 /\ Dir(c).filename = n}
      BY <1>2, <2>9 DEF Seen
    <3>2. \A c \in Used : c < ls.pos + 1 <=> c < ls.pos \/ c = ls.pos
      BY <1>4, <2>3
    <3>3. ls.seen = {n \in ls.there : \E c \in Used : c < ls.pos /\ Dir(c).filename = n}
      BY <1>3 DEF Seen
    <3>4. \A n : n \in N <=> n \in ls.there /\ ls.pos \in Used /\ Dir(ls.pos).filename = n
      BY <2>2, <2>4, <2>5
    <3> QED BY <3>1, <3>2, <3>3, <3>4
  <2>11. LsInv'
    BY <1>2, <1>3, <2>3, <2>9, <2>10 DEF LsInv
  <2> QED BY <1>2, <2>11 DEF DInv
<1> QED BY <1>5, <1>6

\* A listing is closed.
LEMMA ClosedirStep ==
  ASSUME DInv, sys_closedir
  PROVE  DInv'
<1>1. UNCHANGED <<core, dsk, pc, req>> /\ ls' = NoListing
  BY DEF sys_closedir
<1>2. LsInv'
  BY <1>1 DEF LsInv, NoListing
<1> QED BY <1>1, <1>2, OnlyListing DEF DInv

\* A step of nobody.
LEMMA StutterStep ==
  ASSUME DInv, UNCHANGED vars
  PROVE  DInv'
<1>1. UNCHANGED <<core, dsk, pc, req>> /\ ls' = ls
  BY DEF vars
<1>2. root' = root /\ Used' = Used /\ Present' = Present /\ (\A d : Dir(d)' = Dir(d))
  BY <1>1, OnlyListing
<1>3. Seen' = Seen
  BY <1>1, <1>2 DEF Seen
<1>4. LsInv'
  BY <1>1, <1>2, <1>3 DEF DInv, LsInv
<1> QED BY <1>1, <1>4, OnlyListing DEF DInv

-----------------------------------------------------------------------------
(* inode_write of its block *)

\* The size that inode_write leaves.
Max2(a, b) == IF a > b THEN a ELSE b

\* What inode_write does to memory and disk: the block b, of which it has
\* written the m-th cell, is in the k-th sector, and the size is n.
PutDone(h, o, b, k, m, i, n, v) ==
  /\ at = "put" /\ at' = "iget" /\ rq' = rq
  /\ core'.used = core.used /\ core'.ibits = core.ibits /\ core'.panic = core.panic
  /\ core'.open = core.open /\ core'.slots = core.slots /\ Files(core)' = Files(core)
  /\ \A g \in core.open \ {h} : core'.ino[g] = core.ino[g]
  /\ core'.ino[h].i_no = i /\ Of(core'.ino[h]) = [size |-> n, sectors |-> v]
  /\ core'.ino[h].size = n /\ core'.ino[h].sectors = v
  /\ n \in Nat /\ n >= o + 1 /\ n >= core.ino[h].size /\ (n = o + 1 \/ n = core.ino[h].size)
  /\ dsk'.used = dsk.used /\ dsk'.ibits = dsk.ibits /\ dsk'.itab = dsk.itab
  /\ \A a \in Blocks \ {b} : dsk'.blk[a] = dsk.blk[a]
  /\ dsk'.blk[b] = [dsk.blk[b] EXCEPT ![m] = rq.val]
  /\ DTypes' /\ MemInv(core, Blocks)' /\ Blocks' = Blocks /\ b \in Blocks

\* The next state of PutBlock, field by field.
LEMMA PutFacts ==
  ASSUME OneProgram, DInv, PutBlock(prog), NEW h, h = rq.h, NEW o, o = rq.off, NEW b, b = rq.b,
         NEW k, k = o \div PerBlock, NEW m, m = o % PerBlock, NEW i, i = core.ino[h].i_no,
         NEW n, n = Max2(o + 1, core.ino[h].size), NEW v, v = SectorsWith(core.ino[h], k, b)
  PROVE  PutDone(h, o, b, k, m, i, n, v)
<1>1. /\ at = "put" /\ dsk' = [dsk EXCEPT !.blk[b] = [rq.buf EXCEPT ![m] = rq.val]]
      /\ Go(prog, [core EXCEPT !.ino[h].size = IF o + 1 > @ THEN o + 1 ELSE @, !.ino[h].sectors[k] = b], "iget", rq)
  BY DEF PutBlock, at, rq
<1>2. at \in Writing
  BY <1>1 DEF Writing
<1>3. /\ h \in core.open /\ o \in Nat /\ o < Capacity /\ k \in Sectors /\ m \in 0..PerBlock - 1
      /\ IsInode(core.ino[h], Blocks)
  BY <1>2, WriteOps
<1>4. b \in Blocks /\ rq.buf = dsk.blk[b]
  BY <1>1 DEF DInv, CallInv, BlockInv
<1>5. /\ n \in 0..Capacity /\ n \in Nat /\ n >= o + 1 /\ n >= core.ino[h].size
      /\ (n = o + 1 \/ n = core.ino[h].size)
  <2>1. core.ino[h].size \in 0..Capacity /\ o + 1 \in 0..Capacity
    BY <1>3, Consts DEF IsInode
  <2> QED BY <2>1, Consts DEF Max2
<1>6. PICK y : y = WriteAt(core, h, n, k, b)
  OBVIOUS
<1>7. Go(prog, y, "iget", rq)
  <2>1. IsCore(core) /\ core.open \subseteq Handles
    BY DEF DInv, MemInv
  <2>2. n = IF o + 1 > core.ino[h].size THEN o + 1 ELSE core.ino[h].size
    BY DEF Max2
  <2> QED BY <1>1, <1>6, <2>2 DEF WriteAt
<1>8. core' = y /\ at' = "iget" /\ rq' = rq
  BY <1>7, GoLemma DEF DInv, DTypes
<1>9. /\ MemInv(y, Blocks) /\ y.used = core.used /\ y.ibits = core.ibits /\ y.panic = core.panic
      /\ y.open = core.open /\ y.slots = core.slots /\ Files(y) = Files(core)
      /\ \A g \in core.open \ {h} : y.ino[g] = core.ino[g]
      /\ y.ino[h] = InMemory(i, core.ino[h].cnts, [size |-> n, sectors |-> v])
  <2>1. MemInv(core, Blocks)
    BY DEF DInv
  <2>2. /\ MemInv(y, Blocks) /\ y.used = core.used /\ y.ibits = core.ibits /\ y.panic = core.panic
        /\ y.open = core.open /\ y.slots = core.slots /\ Files(y) = Files(core)
        /\ \A g \in core.open \ {h} : y.ino[g] = core.ino[g]
        /\ y.ino[h] = InMemory(core.ino[h].i_no, core.ino[h].cnts,
                               [size |-> n, sectors |-> SectorsWith(core.ino[h], k, b)])
    <3>1. h \in core.open /\ n \in 0..Capacity /\ k \in Sectors /\ b \in Blocks
      BY <1>3, <1>4, <1>5
    <3>2. Written(Blocks, core, h, n, k, b, y)
      BY <1>6, <2>1, <3>1, WriteMem
    <3> QED BY <3>2 DEF Written
  <2> QED BY <2>2
<1>10. /\ y.ino[h].i_no = i /\ Of(y.ino[h]) = [size |-> n, sectors |-> v]
       /\ y.ino[h].size = n /\ y.ino[h].sectors = v
  BY <1>9 DEF InMemory, Of
<1>11. /\ dsk' = [used |-> dsk'.used, ibits |-> dsk'.ibits, itab |-> dsk'.itab, blk |-> dsk'.blk]
       /\ dsk'.used = dsk.used /\ dsk'.ibits = dsk.ibits /\ dsk'.itab = dsk.itab
       /\ dsk'.blk = [dsk.blk EXCEPT ![b] = [rq.buf EXCEPT ![m] = rq.val]]
  <2>1. dsk = [used |-> dsk.used, ibits |-> dsk.ibits, itab |-> dsk.itab, blk |-> dsk.blk]
    BY DEF DInv, DTypes
  <2> QED BY ONLY <1>1, <2>1
<1>12. /\ DOMAIN dsk'.blk = Blocks
       /\ \A a \in Blocks \ {b} : dsk'.blk[a] = dsk.blk[a]
       /\ dsk'.blk[b] = [dsk.blk[b] EXCEPT ![m] = rq.val]
  BY <1>4, <1>11 DEF Blocks
<1>13. DTypes' /\ Blocks' = Blocks
  <2>1. \A a \in Blocks : DOMAIN dsk'.blk[a] = 0..PerBlock - 1
    BY <1>4, <1>12 DEF DInv, DTypes
  <2>2. ~y.panic /\ y.used \subseteq Blocks /\ y.ibits \subseteq Inodes /\ "iget" \in {"user"} \cup Calling /\ IsReq(rq)
    BY <1>9 DEF DInv, DTypes, Calling, Syncs
  <2> QED BY <1>7, <1>11, <1>12, <2>1, <2>2, TypesStep DEF DInv, DTypes
<1>14. MemInv(core, Blocks)' /\ Files(core)' = Files(core)
  BY <1>8, <1>9, <1>13
<1> QED BY <1>1, <1>4, <1>5, <1>8, <1>9, <1>10, <1>11, <1>12, <1>13, <1>14 DEF PutDone

\* The blocks of the inode that was written to, and of the others.
LEMMA PutOwn ==
  ASSUME OneProgram, DInv, PutBlock(prog)
  PROVE  /\ SyncInv' /\ OwnInv' /\ DirtyInv' /\ BlockInv' /\ Known' = Known
         /\ taken = {} /\ taken' = {} /\ at \notin Zeroing /\ at' \notin Zeroing /\ at \notin Syncs /\ at' \in Syncs
         /\ \A j \in Known : j # core.ino[rq.h].i_no => rq.b \notin BlocksOf(dsk.itab[j])
         /\ core.ino[rq.h].i_no \in Known
         /\ \A l \in Sectors : core.ino[rq.h].sectors[l] = rq.b => l = rq.off \div PerBlock
         /\ rq.b # 0 /\ rq.off \div PerBlock \in Sectors
<1>a. PICK h, o, b, i : h = rq.h /\ o = rq.off /\ b = rq.b /\ i = core.ino[h].i_no
  OBVIOUS
<1>b. PICK k, m, n, v : /\ k = o \div PerBlock /\ m = o % PerBlock
                        /\ n = Max2(o + 1, core.ino[h].size) /\ v = SectorsWith(core.ino[h], k, b)
  OBVIOUS
<1>1. /\ at = "put" /\ at' = "iget" /\ rq' = rq
      /\ core'.used = core.used /\ core'.ibits = core.ibits /\ core'.open = core.open
      /\ \A g \in core.open \ {h} : core'.ino[g] = core.ino[g]
      /\ core'.ino[h].i_no = i /\ Of(core'.ino[h]) = [size |-> n, sectors |-> v]
      /\ core'.ino[h].size = n /\ core'.ino[h].sectors = v
      /\ n \in Nat /\ n >= o + 1 /\ n >= core.ino[h].size
      /\ dsk'.used = dsk.used /\ dsk'.ibits = dsk.ibits /\ dsk'.itab = dsk.itab
      /\ Blocks' = Blocks /\ b \in Blocks
  <2>1. PutDone(h, o, b, k, m, i, n, v)
    BY <1>a, <1>b, PutFacts
  <2> QED BY <2>1 DEF PutDone
<1>2. /\ at \notin Syncs /\ at \notin Zeroing /\ at' \in Syncs /\ at' \notin Zeroing /\ at \in Writing
      /\ taken = {} /\ taken' = {} /\ Known = core.ibits /\ Known' = Known /\ Extra = {b} /\ Extra' = {}
  <2>1. at \notin Syncs /\ at \notin Zeroing /\ at' \in Syncs /\ at' \notin Zeroing /\ at \in Writing
    BY <1>1 DEF Syncs, Zeroing, Writing
  <2>2. taken = {} /\ taken' = {} /\ Known = core.ibits /\ Known' = Known
    BY <1>1 DEF taken, Known
  <2>3. Extra = {b} /\ Extra' = {}
    BY <1>1, <1>a, <2>1 DEF Extra
  <2> QED BY <2>1, <2>2, <2>3
<1>3. /\ h \in core.open /\ o \in Nat /\ k \in Sectors /\ IsInode(core.ino[h], Blocks)
      /\ i \in core.ibits /\ Of(core.ino[h]) = dsk.itab[i] /\ rq.why = "write"
      /\ core.ino[h].size \in Nat
      /\ rq.op \in {"creat", "unlink", "write"} /\ (rq.op \in {"creat", "unlink"} <=> h = ROOT)
  BY <1>2, <1>a, <1>b, WriteOps DEF IsInode
<1>4. b # 0
  BY <1>1 DEF DInv, DTypes
<1>5. /\ \A j \in core.ibits : Distinct(dsk.itab[j]) /\ (dsk.itab[j].size > 0 => dsk.itab[j].sectors[0] # 0)
      /\ \A j, l \in core.ibits : j # l => BlocksOf(dsk.itab[j]) \cap BlocksOf(dsk.itab[l]) = {}
      /\ core.used = (UNION {BlocksOf(dsk.itab[j]) : j \in core.ibits}) \cup {b}
      /\ core.used \subseteq dsk.used
  <2>1. \A j : Node(j) = dsk.itab[j]
    BY <1>2 DEF Node
  <2>2. \A j : BlocksOf(Node(j)) = BlocksOf(dsk.itab[j]) /\ Distinct(Node(j)) = Distinct(dsk.itab[j])
    BY <2>1
  <2> QED BY <1>1, <1>2, <2>1, <2>2 DEF DInv, OwnInv
<1>6. /\ core.ino[h].sectors = dsk.itab[i].sectors /\ core.ino[h].size = dsk.itab[i].size
      /\ dsk.itab[i].sectors \in [Sectors -> {0} \cup Blocks]
  <2>1. Of(core.ino[h]).sectors = core.ino[h].sectors /\ Of(core.ino[h]).size = core.ino[h].size
    BY DEF Of
  <2> QED BY <1>3, <2>1 DEF IsInode
<1>7. /\ dsk.itab[i].sectors[k] = 0 => \A j \in core.ibits : b \notin BlocksOf(dsk.itab[j])
      /\ dsk.itab[i].sectors[k] # 0 => dsk.itab[i].sectors[k] = b
  <2>1. /\ core.ino[h].sectors[k] = 0 => \A j \in Known : b \notin BlocksOf(Node(j))
        /\ core.ino[h].sectors[k] # 0 => core.ino[h].sectors[k] = b
    BY <1>1, <1>a, <1>b DEF DInv, CallInv, BlockInv
  <2>2. \A j : BlocksOf(Node(j)) = BlocksOf(dsk.itab[j])
    BY <1>2 DEF Node
  <2> QED BY <1>2, <1>6, <2>1, <2>2
<1>8. \A j \in core.ibits : j # i => b \notin BlocksOf(dsk.itab[j])
  <2>1. dsk.itab[i].sectors[k] # 0 => b \in BlocksOf(dsk.itab[i])
    BY <1>3, <1>7 DEF BlocksOf
  <2> QED BY <1>3, <1>5, <1>7, <2>1
<1>9. \A l \in Sectors : dsk.itab[i].sectors[l] = b => l = k
  <2>1. \A l \in Sectors : dsk.itab[i].sectors[l] = b => b \in BlocksOf(dsk.itab[i])
    BY <1>4 DEF BlocksOf
  <2> QED BY <1>3, <1>4, <1>5, <1>7, <2>1 DEF Distinct
<1>10. v = [dsk.itab[i].sectors EXCEPT ![k] = b]
  BY <1>b, <1>6 DEF SectorsWith
<1>11. \A l \in Sectors : v[l] = IF l = k THEN b ELSE dsk.itab[i].sectors[l]
  BY <1>3, <1>6, <1>10
<1>12. /\ \A k1, k2 \in Sectors : v[k1] = v[k2] /\ v[k1] # 0 => k1 = k2
       /\ v[0] # 0 \/ n = 0
       /\ {v[l] : l \in Sectors} \ {0} = BlocksOf(dsk.itab[i]) \cup {b}
  <2>1. \A k1, k2 \in Sectors : v[k1] = v[k2] /\ v[k1] # 0 => k1 = k2
    BY <1>3, <1>5, <1>9, <1>11 DEF Distinct
  <2>2. v[0] # 0
    <3>1. CASE k = 0
      BY <1>3, <1>4, <1>11, <3>1
    <3>2. CASE k # 0
      <4>1. dsk.itab[i].size > 0
        <5>1. rq.op # "write"
          <6>1. rq.op = "write" => o = 0
            BY <1>1, <1>a DEF DInv, CallInv, WriteInv, Writing
          <6>2. 0 \div PerBlock = 0
            BY Consts
          <6> QED BY <1>b, <3>2, <6>1, <6>2
        <5>2. h = ROOT
          BY <1>3, <5>1
        <5>3. root.size \in 2..Capacity
          BY DEF DInv, RootInv
        <5> QED BY <1>6, <5>2, <5>3 DEF root
      <4>2. 0 \in Sectors
        BY Consts
      <4> QED BY <1>3, <1>5, <1>11, <3>2, <4>1, <4>2
    <3> QED BY <3>1, <3>2
  <2>3. {v[l] : l \in Sectors} \ {0} = BlocksOf(dsk.itab[i]) \cup {b}
    <3>1. \A x \in BlocksOf(dsk.itab[i]) : x # 0 /\ \E l \in Sectors : v[l] = x
      <4>1. \A x \in BlocksOf(dsk.itab[i]) : x # 0 /\ \E l \in Sectors : dsk.itab[i].sectors[l] = x
        BY DEF BlocksOf
      <4> QED BY <1>3, <1>7, <1>11, <4>1
    <3>2. \A l \in Sectors : v[l] = 0 \/ v[l] = b \/ v[l] \in BlocksOf(dsk.itab[i])
      BY <1>11 DEF BlocksOf
    <3>3. v[k] = b
      BY <1>3, <1>11
    <3> QED BY <1>3, <1>4, <3>1, <3>2, <3>3
  <2> QED BY <2>1, <2>2, <2>3
<1>13. \A j : Node(j)' = IF j = i THEN [size |-> n, sectors |-> v] ELSE dsk.itab[j]
  BY <1>1, <1>2, <1>a DEF Node
<1>14. /\ \A j : j # i => BlocksOf(Node(j))' = BlocksOf(dsk.itab[j]) /\ Distinct(Node(j))' = Distinct(dsk.itab[j])
       /\ BlocksOf(Node(i))' = BlocksOf(dsk.itab[i]) \cup {b}
       /\ Distinct(Node(i))' /\ (Node(i)'.size > 0 => Node(i)'.sectors[0] # 0)
  <2>1. \A j : j # i => Node(j)' = dsk.itab[j]
    BY <1>13
  <2>2. Node(i)'.sectors = v /\ Node(i)'.size = n
    BY <1>13
  <2> QED BY <1>1, <1>12, <2>1, <2>2 DEF BlocksOf, Distinct
<1>15. OwnInv'
  <2>1. UNION {BlocksOf(Node(j))' : j \in core.ibits} = (UNION {BlocksOf(dsk.itab[j]) : j \in core.ibits}) \cup {b}
    BY <1>3, <1>14
  <2>2. core'.used = (UNION {BlocksOf(Node(j))' : j \in Known'}) \cup Extra'
    BY <1>1, <1>2, <1>5, <2>1
  <2>3. core'.used \subseteq dsk'.used /\ at' # "bbit"
    BY <1>1, <1>5
  <2>4. \A j \in Known' : Distinct(Node(j))' /\ (Node(j)'.size > 0 => Node(j)'.sectors[0] # 0)
    BY <1>2, <1>5, <1>13, <1>14
  <2>5. \A j, l \in Known' : j # l => BlocksOf(Node(j))' \cap BlocksOf(Node(l))' = {}
    BY <1>2, <1>3, <1>5, <1>8, <1>14
  <2> QED BY <2>2, <2>3, <2>4, <2>5 DEF OwnInv
<1>16. SyncInv'
  <2>1. \A g \in core.open : Of(core.ino[g]) = dsk.itab[core.ino[g].i_no]
    BY <1>2 DEF DInv, SyncInv
  <2> QED BY <1>1, <1>2, <1>a, <2>1 DEF SyncInv
<1>17. DirtyInv'
  <2>1. Behind(dsk.itab[i], core'.ino[h])
    <3>1. dsk.itab[i].size <= core'.ino[h].size
      BY <1>1, <1>6
    <3>2. dsk.itab[i].size > 0 => dsk.itab[i].sectors[0] # 0
      BY <1>3, <1>5
    <3>3. \A l \in Sectors : dsk.itab[i].sectors[l] \in {0, core'.ino[h].sectors[l]}
      BY <1>1, <1>7, <1>11
    <3> QED BY <3>1, <3>2, <3>3 DEF Behind
  <2> QED BY <1>1, <1>a, <2>1 DEF DirtyInv, Behind
<1>18. BlockInv'
  BY <1>1 DEF BlockInv
<1> QED BY <1>2, <1>3, <1>4, <1>6, <1>8, <1>9, <1>15, <1>16, <1>17, <1>18, <1>a, <1>b

-----------------------------------------------------------------------------
\* One entry of the root directory is written, and no other is.
LEMMA PutEntry ==
  ASSUME OneProgram, DInv, PutBlock(prog), rq.h = ROOT, NEW o, o = rq.off
  PROVE  /\ root'.size \in 2..Capacity /\ root'.size >= root.size /\ o < root'.size
         /\ (root'.size = o + 1 \/ root'.size = root.size)
         /\ \A c \in 0..root'.size - 1 : c = o \/ c \in 0..root.size - 1
         /\ \A c \in 0..root'.size - 1 : root'.sectors[c \div PerBlock] # 0
         /\ \A c \in 0..root.size - 1 : c # o => Dir(c)' = Dir(c)
         /\ Dir(o)' = rq.val
<1>a. PICK b, k, m : b = rq.b /\ k = o \div PerBlock /\ m = o % PerBlock
  OBVIOUS
<1>b. PICK n, v : n = Max2(o + 1, core.ino[ROOT].size) /\ v = SectorsWith(core.ino[ROOT], k, b)
  OBVIOUS
<1>1. PutDone(ROOT, o, b, k, m, core.ino[ROOT].i_no, n, v)
  BY <1>a, <1>b, PutFacts
<1>2. /\ at = "put" /\ root'.size = n /\ root'.sectors = v
      /\ n \in Nat /\ n >= o + 1 /\ n >= root.size /\ (n = o + 1 \/ n = root.size)
      /\ \A a \in Blocks \ {b} : dsk'.blk[a] = dsk.blk[a]
      /\ dsk'.blk[b] = [dsk.blk[b] EXCEPT ![m] = rq.val]
      /\ b \in Blocks
  BY <1>1 DEF PutDone, root
<1>3. o \in Nat /\ o < Capacity /\ k \in Sectors /\ m \in 0..PerBlock - 1
      /\ (rq.op = "creat" \/ rq.op = "unlink")
  <2>1. at \in Writing
    BY <1>2 DEF Writing
  <2> QED BY <2>1, <1>a, WriteOps
<1>4. o <= root.size /\ root.size \in 2..Capacity
  <2>1. root.size \in 2..Capacity
    BY DEF DInv, RootInv
  <2>2. rq.op = "creat" => o \in 2..root.size
    BY <1>2 DEF DInv, CallInv, WriteInv, Writing
  <2>3. rq.op = "unlink" => o \in Used
    BY <1>2 DEF DInv, CallInv, WriteInv, Writing
  <2>4. rq.op = "unlink" => o \in 0..root.size - 1
    BY <2>3, UsedLemma DEF DInv
  <2> QED BY <1>3, <2>1, <2>2, <2>4
<1>5. /\ root'.size \in 2..Capacity /\ root'.size >= root.size /\ o < root'.size
      /\ (root'.size = o + 1 \/ root'.size = root.size)
      /\ \A c \in 0..root'.size - 1 : c = o \/ c \in 0..root.size - 1
  BY <1>2, <1>3, <1>4, Consts
<1>6. /\ \A l \in Sectors : v[l] = IF l = k THEN b ELSE root.sectors[l]
      /\ \A l \in Sectors : root.sectors[l] = b => l = k
      /\ b # 0
  <2>1. root.sectors \in [Sectors -> {0} \cup Blocks]
    BY RootIno DEF DInv
  <2>2. v = [root.sectors EXCEPT ![k] = b]
    BY <1>b DEF SectorsWith, root
  <2> QED BY <1>3, <1>a, <2>1, <2>2, PutOwn DEF root
<1>7. \A c \in 0..root.size - 1 :
        /\ c \in Nat /\ c \div PerBlock \in Sectors /\ c % PerBlock \in 0..PerBlock - 1
        /\ root.sectors[c \div PerBlock] # 0 /\ root.sectors[c \div PerBlock] \in Blocks
        /\ Dir(c) = dsk.blk[root.sectors[c \div PerBlock]][c % PerBlock]
  <2>1. root.sectors \in [Sectors -> {0} \cup Blocks]
    BY RootIno DEF DInv
  <2> QED BY <2>1, RootIno DEF DInv, RootInv
<1>8. \A c \in 0..root'.size - 1 : root'.sectors[c \div PerBlock] # 0
  <2> SUFFICES ASSUME NEW c \in 0..root'.size - 1 PROVE root'.sectors[c \div PerBlock] # 0
    OBVIOUS
  <2>1. PICK q : q = c \div PerBlock
    OBVIOUS
  <2>2. q \in Sectors
    BY <1>3, <1>5, <1>7, <1>a, <2>1
  <2>3. c # o => root.sectors[q] # 0
    BY <1>5, <1>7, <2>1
  <2>4. v[q] # 0
    BY <1>6, <1>a, <2>1, <2>2, <2>3
  <2> QED BY <1>2, <2>1, <2>4
<1>9. DOMAIN dsk.blk[b] = 0..PerBlock - 1
  BY <1>2 DEF DInv, DTypes
<1>10. Dir(o)' = rq.val
  <2>1. v[k] = b
    BY <1>3, <1>6
  <2>2. dsk'.blk[b][m] = rq.val
    BY <1>2, <1>3, <1>9
  <2>3. Dir(o)' = dsk'.blk[b][m]
    BY <1>2, <1>6, <1>a, <2>1 DEF Dir, Cell
  <2> QED BY <2>2, <2>3
<1>11. \A c \in 0..root.size - 1 : c # o => Dir(c)' = Dir(c)
  <2> SUFFICES ASSUME NEW c \in 0..root.size - 1, c # o PROVE Dir(c)' = Dir(c)
    OBVIOUS
  <2>1. PICK q, p, s : q = c \div PerBlock /\ p = c % PerBlock /\ s = root.sectors[q]
    OBVIOUS
  <2>2. /\ c \in Nat /\ q \in Sectors /\ p \in 0..PerBlock - 1 /\ s # 0 /\ s \in Blocks
        /\ Dir(c) = dsk.blk[s][p]
    BY <1>7, <2>1
  <2>3. q = k => p # m
    BY <1>3, <1>a, <2>1, <2>2, SameCell
  <2>4. CASE q = k /\ s = b
    <3>1. v[q] = b
      BY <1>6, <2>2, <2>4
    <3>2. dsk'.blk[b][p] = dsk.blk[b][p]
      BY <1>2, <1>9, <2>2, <2>3, <2>4
    <3>3. Dir(c)' = dsk'.blk[b][p]
      BY <1>2, <1>6, <2>1, <3>1 DEF Dir, Cell
    <3> QED BY <2>2, <2>4, <3>2, <3>3
  <2>5. CASE q # k
    <3>1. v[q] = s /\ s # b
      BY <1>6, <2>1, <2>2, <2>5
    <3>2. dsk'.blk[s] = dsk.blk[s]
      BY <1>2, <2>2, <3>1
    <3>3. Dir(c)' = dsk'.blk[s][p]
      BY <1>2, <2>1, <2>2, <3>1 DEF Dir, Cell
    <3> QED BY <2>2, <3>2, <3>3
  <2>6. q = k => s = b
    <3>1. core.ino[rq.h].sectors[rq.off \div PerBlock] # 0 => core.ino[rq.h].sectors[rq.off \div PerBlock] = rq.b
      BY <1>2 DEF DInv, CallInv, BlockInv
    <3> QED BY <1>a, <2>1, <2>2, <3>1 DEF root
  <2> QED BY <2>4, <2>5, <2>6
<1> QED BY <1>5, <1>8, <1>10, <1>11

\* A listing, in a step that adds a name or takes one away.
LEMMA LsStep ==
  ASSUME LsInv, Watch(ls), root.size \in Nat, root'.size \in Nat, root'.size >= root.size,
         \A n \in Present \cap Present' : \A p :
           (\E c \in Used : c < p /\ Dir(c).filename = n) <=> (\E c \in Used' : c < p /\ Dir(c)'.filename = n)
  PROVE  LsInv'
<1>1. CASE ls.st = "open"
  <2>1. /\ ls = [st |-> ls.st, pos |-> ls.pos, there |-> ls.there, seen |-> ls.seen, again |-> ls.again]
        /\ ls.there \subseteq Present /\ ls.pos \in 0..root.size /\ ls.seen = Seen /\ ls.again = {}
    BY <1>1 DEF LsInv
  <2>2. /\ ls' = [st |-> ls'.st, pos |-> ls'.pos, there |-> ls'.there, seen |-> ls'.seen, again |-> ls'.again]
        /\ ls'.st = "open" /\ ls'.pos = ls.pos /\ ls'.there = ls.there \cap Present'
        /\ ls'.seen = ls.seen \cap Present' /\ ls'.again = ls.again \cap Present'
    BY <1>1, <2>1, WatchLemma
  <2>3. PICK p : p = ls.pos
    OBVIOUS
  <2>4. ls.seen = {n \in ls.there : \E c \in Used : c < p /\ Dir(c).filename = n}
    BY <2>1, <2>3 DEF Seen
  <2>5. Seen' = {n \in ls'.there : \E c \in Used' : c < p /\ Dir(c)'.filename = n}
    BY <2>2, <2>3 DEF Seen
  <2>6. ls'.there \subseteq Present \cap Present'
    BY <2>1, <2>2
  <2>7. \A n \in ls'.there :
          (\E c \in Used : c < p /\ Dir(c).filename = n) <=> (\E c \in Used' : c < p /\ Dir(c)'.filename = n)
    BY <2>6
  <2>8. ls'.seen = Seen'
    BY <2>2, <2>4, <2>5, <2>7
  <2>9. ls'.pos \in 0..root'.size /\ ls'.again = {}
    BY <2>1, <2>2
  <2> QED BY <2>2, <2>6, <2>8, <2>9 DEF LsInv
<1>2. CASE ls.st # "open"
  <2>1. ls' = ls
    BY <1>2 DEF Watch
  <2> QED BY <1>2, <2>1 DEF LsInv
<1> QED BY <1>1, <1>2

-----------------------------------------------------------------------------
\* The rest of the call, when its block is written.
LEMMA PutRest ==
  ASSUME OneProgram, DInv, PutBlock(prog)
  PROVE  /\ DTypes' /\ MemInv(core, Blocks)' /\ SyncInv' /\ OwnInv' /\ CallInv'
         /\ core'.ibits = core.ibits /\ dsk'.ibits = dsk.ibits /\ mine' = {} /\ dead' = {}
         /\ taken = {} /\ taken' = {}
         /\ \A h \in Files(core)' : core'.ino[h].i_no \in core.ibits
         /\ rq.op \in {"creat", "unlink", "write"} /\ (rq.op \in {"creat", "unlink"} <=> rq.h = ROOT)
         /\ rq.op = "creat" => /\ mine = {core.ino[rq.new].i_no} /\ dead = {} /\ ~HasName(rq.n) /\ rq.n \in Names
                               /\ rq.off \in 2..root.size /\ rq.val = Entry(rq.n, core.ino[rq.new].i_no)
                               /\ core.ino[rq.new].i_no \in Inodes
                               /\ rq.off \notin Used
         /\ rq.op = "unlink" => /\ mine = {} /\ dead = {rq.n} /\ rq.off \in Used /\ Dir(rq.off).filename = rq.n
                                /\ rq.val = NULL
         /\ rq.op = "write" => mine = {} /\ dead = {} /\ root' = root /\ \A b \in BlocksOf(root) : dsk'.blk[b] = dsk.blk[b]
<1>a. PICK h, o, b, i : h = rq.h /\ o = rq.off /\ b = rq.b /\ i = core.ino[h].i_no
  OBVIOUS
<1>b. PICK k, m, n, v : /\ k = o \div PerBlock /\ m = o % PerBlock
                        /\ n = Max2(o + 1, core.ino[h].size) /\ v = SectorsWith(core.ino[h], k, b)
  OBVIOUS
<1>1. PutDone(h, o, b, k, m, i, n, v)
  BY <1>a, <1>b, PutFacts
<1>2. /\ at = "put" /\ at' = "iget" /\ rq' = rq
      /\ core'.ibits = core.ibits /\ core'.open = core.open /\ core'.slots = core.slots
      /\ Files(core)' = Files(core)
      /\ \A g \in core.open \ {h} : core'.ino[g] = core.ino[g]
      /\ core'.ino[h].i_no = core.ino[h].i_no
      /\ dsk'.ibits = dsk.ibits /\ \A a \in Blocks \ {b} : dsk'.blk[a] = dsk.blk[a]
      /\ DTypes' /\ MemInv(core, Blocks)'
  BY <1>1, <1>a DEF PutDone
<1>3. /\ SyncInv' /\ OwnInv' /\ DirtyInv' /\ BlockInv' /\ taken = {} /\ taken' = {}
      /\ at \notin Syncs /\ at \notin Zeroing /\ at' \in Syncs /\ at' \notin Zeroing
      /\ \A j \in Known : j # i => b \notin BlocksOf(dsk.itab[j])
  BY <1>a, PutOwn
<1>4. /\ h \in core.open /\ rq.why = "write" /\ at \in Writing /\ Known = core.ibits
      /\ rq.op \in {"creat", "unlink", "write"} /\ (rq.op \in {"creat", "unlink"} <=> h = ROOT)
      /\ rq.op = "creat" => /\ rq.new \in Files(core) /\ core.slots[rq.slot] = NULL
                            /\ ~HasName(rq.n) /\ rq.n \in Names
      /\ rq.op = "unlink" => rq.n \in Names
  <2>1. at \in Writing
    BY <1>2 DEF Writing
  <2> QED BY <2>1, <1>a, WriteOps
<1>5. WriteInv /\ NewInv
  BY DEF DInv, CallInv
<1>6. \A g \in Files(core) : g \in core.open /\ g # ROOT
  BY DEF Files
<1>7. OpInv' /\ LookInv' /\ OpenInv' /\ ZeroInv'
  BY <1>2, <1>3, <1>4 DEF OpInv, LookInv, OpenInv, ZeroInv, Syncs
<1>8. WriteInv'
  BY <1>2, <1>3, <1>4, <1>5, <1>a DEF WriteInv, Writing
<1>9. NewInv'
  <2> SUFFICES ASSUME rq.op = "creat" PROVE NewInv'
    BY <1>2 DEF NewInv
  <2>1. h = ROOT /\ rq.new # ROOT /\ rq.new \in core.open
    BY <1>4, <1>6
  <2>2. core'.ino[rq.new] = core.ino[rq.new]
    BY <1>2, <2>1
  <2>3. Refs(core, rq.new)' = Refs(core, rq.new)
    BY <1>2 DEF Refs
  <2> QED BY <1>2, <1>4, <1>5, <2>2, <2>3 DEF NewInv, Writing
<1>10. mine' = {} /\ dead' = {}
  BY <1>2, <1>3, <1>4 DEF mine, dead
<1>11. \A g \in Files(core)' : core'.ino[g].i_no \in core.ibits
  <2>1. \A g \in Files(core) : core.ino[g].i_no \in core.ibits
    BY <1>3 DEF DInv, BitsInv
  <2> QED BY <1>2, <1>6, <2>1
<1>12. ASSUME rq.op = "creat"
       PROVE  /\ mine = {core.ino[rq.new].i_no} /\ dead = {} /\ rq.off \in 2..root.size
              /\ rq.val = Entry(rq.n, core.ino[rq.new].i_no)
              /\ core.ino[rq.new].i_no \in Inodes /\ rq.off \notin Used
  <2>1. mine = {core.ino[rq.new].i_no} /\ dead = {}
    BY <1>2, <1>3, <1>12 DEF mine, dead
  <2>2. rq.off \in 2..root.size /\ rq.val = Entry(rq.n, core.ino[rq.new].i_no)
        /\ (rq.off < root.size => Dir(rq.off) = NULL)
    BY <1>4, <1>5, <1>12 DEF WriteInv
  <2>3. core.ino[rq.new].i_no \in Inodes
    BY <1>4, <1>6, <1>12 DEF DInv, MemInv, IsInode
  <2>4. rq.off \notin Used
    <3>1. rq.off \in Used => rq.off < root.size /\ Dir(rq.off) # NULL
      BY UsedLemma DEF DInv, RootInv
    <3> QED BY <2>2, <3>1
  <2> QED BY <2>1, <2>2, <2>3, <2>4
<1>13. ASSUME rq.op = "unlink"
       PROVE  mine = {} /\ dead = {rq.n} /\ rq.off \in Used /\ Dir(rq.off).filename = rq.n /\ rq.val = NULL
  BY <1>3, <1>4, <1>5, <1>13 DEF mine, dead, WriteInv
<1>14. ASSUME rq.op = "write"
       PROVE  mine = {} /\ dead = {} /\ root' = root /\ \A a \in BlocksOf(root) : dsk'.blk[a] = dsk.blk[a]
  <2>1. mine = {} /\ dead = {} /\ h # ROOT
    BY <1>4, <1>14 DEF mine, dead
  <2>2. ROOT \in core.open /\ core.ino[ROOT].i_no = ROOT /\ i # ROOT
    BY <1>4, <1>a, <2>1 DEF DInv, MemInv
  <2>3. root' = root
    BY <1>2, <2>1, <2>2 DEF root
  <2>4. BlocksOf(root) = BlocksOf(dsk.itab[ROOT])
    <3>1. Of(root) = dsk.itab[ROOT]
      BY <1>3, FilesQuiet
    <3> QED BY <3>1 DEF BlocksOf, Of
  <2>5. b \notin BlocksOf(root)
    <3>1. ROOT \in core.ibits
      BY DEF DInv, BitsInv
    <3> QED BY <1>3, <1>4, <2>2, <2>4, <3>1
  <2>6. BlocksOf(root) \subseteq Blocks
    BY RootIno DEF DInv, BlocksOf
  <2> QED BY <1>2, <2>1, <2>3, <2>5, <2>6
<1> QED BY <1>2, <1>3, <1>4, <1>7, <1>8, <1>9, <1>10, <1>11, <1>12, <1>13, <1>14, <1>a DEF CallInv

\* creat puts an entry into the directory.
LEMMA PutName ==
  ASSUME OneProgram, DInv, PutBlock(prog), rq.op = "creat", Watch(ls)
  PROVE  /\ DInv' /\ Used' = Used \cup {rq.off} /\ (\A c \in Used : Dir(c)' = Dir(c))
         /\ \A o : o = rq.off => Dir(o)' = Entry(rq.n, core.ino[rq.new].i_no)
<1>a. PICK o, f, j : o = rq.off /\ f = rq.n /\ j = core.ino[rq.new].i_no
  OBVIOUS
<1>1. /\ DTypes' /\ MemInv(core, Blocks)' /\ SyncInv' /\ OwnInv' /\ CallInv'
      /\ core'.ibits = core.ibits /\ dsk'.ibits = dsk.ibits /\ mine' = {} /\ dead' = {}
      /\ taken = {} /\ taken' = {}
      /\ \A h \in Files(core)' : core'.ino[h].i_no \in core.ibits
      /\ rq.h = ROOT /\ mine = {j} /\ dead = {} /\ ~HasName(f) /\ f \in Names
      /\ o \in 2..root.size /\ rq.val = Entry(f, j) /\ j \in Inodes /\ o \notin Used
  BY <1>a, PutRest
<1>2. /\ root'.size \in 2..Capacity /\ root'.size >= root.size /\ o < root'.size
      /\ (root'.size = o + 1 \/ root'.size = root.size)
      /\ \A c \in 0..root'.size - 1 : c = o \/ c \in 0..root.size - 1
      /\ \A c \in 0..root'.size - 1 : root'.sectors[c \div PerBlock] # 0
      /\ \A c \in 0..root.size - 1 : c # o => Dir(c)' = Dir(c)
      /\ Dir(o)' = Entry(f, j)
  BY <1>1, <1>a, PutEntry
<1>3. root.size \in 2..Capacity /\ root.size \in Nat /\ o \in Nat /\ o >= 2 /\ root'.size \in Nat
  BY <1>1, <1>2, Consts DEF DInv, RootInv
<1>4. /\ Entry(f, j) # NULL /\ Entry(f, j).filename = f /\ Entry(f, j).i_no = j
      /\ j \notin Named \cup {ROOT} /\ j \in core.ibits
  <2>1. Entry(f, j) \in [filename : Names \cup {NULL}, i_no : 0..NInodes - 1]
    BY <1>1 DEF Entry, Inodes
  <2>2. j \notin Named \cup {ROOT} /\ j \in core.ibits
    BY <1>1 DEF DInv, BitsInv
  <2> QED BY <2>1, <2>2, DirectoryAssumption DEF Entry
<1>5. \A c \in Used : c \in 0..root.size - 1 /\ c # o /\ Dir(c)' = Dir(c) /\ c \in 2..root.size - 1 /\ Dir(c) # NULL
  BY <1>1, <1>2, UsedLemma DEF DInv, Used
<1>6. Used' = Used \cup {o}
  <2>1. \A c \in 2..root'.size - 1 : c = o \/ (c \in 2..root.size - 1 /\ Dir(c)' = Dir(c))
    BY <1>2, <1>3
  <2>2. \A c \in 2..root.size - 1 : c \in 2..root'.size - 1
    BY <1>2, <1>3
  <2>3. o \in 2..root'.size - 1
    BY <1>2, <1>3
  <2>4. \A c : c \in Used' <=> c \in 2..root'.size - 1 /\ Dir(c)' # NULL
    BY DEF Used
  <2>5. \A c : c \in Used <=> c \in 2..root.size - 1 /\ Dir(c) # NULL
    BY DEF Used
  <2> QED BY <1>2, <1>4, <1>5, <2>1, <2>2, <2>3, <2>4, <2>5
<1>7. RootInv'
  <2>1. Dir(0)' = Entry(NULL, ROOT) /\ Dir(1)' = Entry(NULL, ROOT)
    <3>1. 0 \in 0..root.size - 1 /\ 1 \in 0..root.size - 1 /\ 0 # o /\ 1 # o
      BY <1>3
    <3> QED BY <1>2, <3>1 DEF DInv, RootInv
  <2>2. \A c \in Used : Dir(c) \in [filename : Names, i_no : Inodes \ {ROOT}]
    BY DEF DInv, RootInv
  <2>3. Entry(f, j) \in [filename : Names, i_no : Inodes \ {ROOT}]
    BY <1>1, <1>4 DEF Entry
  <2>4. \A c \in Used' : Dir(c)' \in [filename : Names, i_no : Inodes \ {ROOT}]
    BY <1>2, <1>5, <1>6, <2>2, <2>3
  <2>5. \A c \in Used : Dir(c).filename # f /\ Dir(c).i_no # j
    BY <1>1, <1>4 DEF HasName, Named
  <2>6. \A c, d \in Used : Dir(c).filename = Dir(d).filename \/ Dir(c).i_no = Dir(d).i_no => c = d
    BY DEF DInv, RootInv
  <2>7. \A c, d \in Used' : Dir(c)'.filename = Dir(d)'.filename \/ Dir(c)'.i_no = Dir(d)'.i_no => c = d
    BY <1>2, <1>4, <1>5, <1>6, <2>5, <2>6
  <2> QED BY <1>2, <2>1, <2>4, <2>7 DEF RootInv
<1>8. Named' = Named \cup {j}
  <2>1. Named' = {Dir(c)'.i_no : c \in Used'}
    BY DEF Named
  <2> QED BY <1>2, <1>4, <1>5, <1>6, <2>1 DEF Named
<1>9. BitsInv'
  <2>1. /\ ROOT \in core.ibits /\ (\A c \in Used : Dir(c).i_no \in core.ibits)
        /\ core.ibits \subseteq {ROOT} \cup Named \cup {j} /\ core.ibits \subseteq dsk.ibits
    BY <1>1 DEF DInv, BitsInv
  <2>2. \A c \in Used' : Dir(c)'.i_no \in core'.ibits
    BY <1>1, <1>2, <1>4, <1>5, <1>6, <2>1
  <2> QED BY <1>1, <1>8, <2>1, <2>2 DEF BitsInv
<1>10. LsInv'
  <2>1. \A n \in Present : \A p :
          (\E c \in Used : c < p /\ Dir(c).filename = n) <=> (\E c \in Used' : c < p /\ Dir(c)'.filename = n)
    <3> SUFFICES ASSUME NEW n \in Present, NEW p
                 PROVE (\E c \in Used : c < p /\ Dir(c).filename = n)
                       <=> (\E c \in Used' : c < p /\ Dir(c)'.filename = n)
      OBVIOUS
    <3>1. n # f
      BY <1>1, UsedLemma DEF DInv
    <3> QED BY <1>2, <1>4, <1>5, <1>6, <3>1
  <2> QED BY <1>2, <1>3, <2>1, LsStep DEF DInv
<1>11. DInv'
  BY <1>1, <1>7, <1>9, <1>10 DEF DInv
<1>12. Used' = Used \cup {rq.off} /\ \A d : d = rq.off => Dir(d)' = Entry(rq.n, core.ino[rq.new].i_no)
  BY <1>2, <1>6, <1>a
<1>13. \A c \in Used : Dir(c)' = Dir(c)
  BY <1>5
<1> QED BY <1>11, <1>12, <1>13

\* unlink takes its entry away.
LEMMA PutHole ==
  ASSUME OneProgram, DInv, PutBlock(prog), rq.op = "unlink", Watch(ls)
  PROVE  DInv' /\ Used' = Used \ {rq.off} /\ (\A c \in Used \ {rq.off} : Dir(c)' = Dir(c))
<1>a. PICK o, f : o = rq.off /\ f = rq.n
  OBVIOUS
<1>1. /\ DTypes' /\ MemInv(core, Blocks)' /\ SyncInv' /\ OwnInv' /\ CallInv'
      /\ core'.ibits = core.ibits /\ dsk'.ibits = dsk.ibits /\ mine' = {} /\ dead' = {}
      /\ taken = {} /\ taken' = {}
      /\ \A h \in Files(core)' : core'.ino[h].i_no \in core.ibits
      /\ rq.h = ROOT /\ mine = {} /\ dead = {f} /\ o \in Used /\ Dir(o).filename = f /\ rq.val = NULL
  BY <1>a, PutRest
<1>2. /\ root'.size \in 2..Capacity /\ root'.size >= root.size
      /\ (root'.size = o + 1 \/ root'.size = root.size)
      /\ \A c \in 0..root'.size - 1 : root'.sectors[c \div PerBlock] # 0
      /\ \A c \in 0..root.size - 1 : c # o => Dir(c)' = Dir(c)
      /\ Dir(o)' = NULL
  BY <1>1, <1>a, PutEntry
<1>3. /\ root.size \in 2..Capacity /\ root.size \in Nat /\ o \in 0..root.size - 1 /\ o \in Nat /\ o >= 2
      /\ root'.size = root.size
  <2>1. root.size \in 2..Capacity /\ root.size \in Nat /\ o \in 0..root.size - 1 /\ o \in Nat /\ o >= 2
    BY <1>1, UsedLemma, Consts DEF DInv, RootInv
  <2> QED BY <1>2, <2>1
<1>4. \A c \in Used \ {o} : c \in 0..root.size - 1 /\ c \in 2..root.size - 1 /\ Dir(c)' = Dir(c) /\ Dir(c) # NULL
  BY <1>2, UsedLemma DEF DInv, Used
<1>5. Used' = Used \ {o}
  <2>1. \A c \in 2..root.size - 1 : c = o \/ Dir(c)' = Dir(c)
    BY <1>2, <1>3
  <2>2. \A c : c \in Used' <=> c \in 2..root.size - 1 /\ Dir(c)' # NULL
    BY <1>3 DEF Used
  <2>3. \A c : c \in Used <=> c \in 2..root.size - 1 /\ Dir(c) # NULL
    BY DEF Used
  <2> QED BY <1>2, <1>4, <2>1, <2>2, <2>3
<1>6. \A c, d \in Used : Dir(c).filename = Dir(d).filename \/ Dir(c).i_no = Dir(d).i_no => c = d
  BY DEF DInv, RootInv
<1>7. RootInv'
  <2>1. Dir(0)' = Entry(NULL, ROOT) /\ Dir(1)' = Entry(NULL, ROOT)
    <3>1. 0 \in 0..root.size - 1 /\ 1 \in 0..root.size - 1 /\ 0 # o /\ 1 # o
      BY <1>3
    <3> QED BY <1>2, <3>1 DEF DInv, RootInv
  <2>2. \A c \in Used : Dir(c) \in [filename : Names, i_no : Inodes \ {ROOT}]
    BY DEF DInv, RootInv
  <2>3. \A c \in Used' : Dir(c)' \in [filename : Names, i_no : Inodes \ {ROOT}]
    BY <1>4, <1>5, <2>2
  <2>4. \A c, d \in Used' : Dir(c)'.filename = Dir(d)'.filename \/ Dir(c)'.i_no = Dir(d)'.i_no => c = d
    BY <1>4, <1>5, <1>6
  <2> QED BY <1>2, <2>1, <2>3, <2>4 DEF RootInv
<1>8. \A i \in Named : i # Dir(o).i_no => i \in Named'
  <2>1. Named' = {Dir(c)'.i_no : c \in Used'}
    BY DEF Named
  <2> QED BY <1>4, <1>5, <2>1 DEF Named
<1>9. BitsInv'
  <2>1. /\ ROOT \in core.ibits /\ (\A c \in Used : Dir(c).i_no \in core.ibits <=> Dir(c).filename # f)
        /\ core.ibits \subseteq {ROOT} \cup Named /\ core.ibits \subseteq dsk.ibits
    BY <1>1 DEF DInv, BitsInv
  <2>2. \A c \in Used' : Dir(c)'.i_no \in core'.ibits
    BY <1>1, <1>4, <1>5, <1>6, <2>1
  <2>3. core.ibits \subseteq {ROOT} \cup Named'
    BY <1>1, <1>8, <2>1
  <2> QED BY <1>1, <2>1, <2>2, <2>3 DEF BitsInv
<1>10. LsInv'
  <2>1. \A n \in Present' : \A p :
          (\E c \in Used : c < p /\ Dir(c).filename = n) <=> (\E c \in Used' : c < p /\ Dir(c)'.filename = n)
    <3> SUFFICES ASSUME NEW n \in Present', NEW p
                 PROVE (\E c \in Used : c < p /\ Dir(c).filename = n)
                       <=> (\E c \in Used' : c < p /\ Dir(c)'.filename = n)
      OBVIOUS
    <3>1. PICK c \in 0..root'.size - 1 : Dir(c)' # NULL /\ Dir(c)'.filename = n
      BY DEF Present, Dir, root
    <3>2. n # NULL
      BY DEF Present
    <3>3. c # 0 /\ c # 1
      BY <1>7, <3>1, <3>2 DEF RootInv, Entry
    <3>4. c \in Used'
      BY <1>3, <3>1, <3>3 DEF Used
    <3>5. n # f
      BY <1>1, <1>4, <1>5, <1>6, <3>1, <3>4
    <3> QED BY <1>1, <1>4, <1>5, <3>5
  <2> QED BY <1>2, <1>3, <2>1, LsStep DEF DInv
<1> QED BY <1>1, <1>4, <1>5, <1>7, <1>9, <1>10, <1>a DEF DInv

\* write changes no name.
LEMMA PutContents ==
  ASSUME OneProgram, DInv, PutBlock(prog), rq.op = "write", Watch(ls)
  PROVE  DInv' /\ Used' = Used /\ (\A c \in Used : Dir(c)' = Dir(c))
<1>1. /\ DTypes' /\ MemInv(core, Blocks)' /\ SyncInv' /\ OwnInv' /\ CallInv'
      /\ core'.ibits = core.ibits /\ dsk'.ibits = dsk.ibits /\ mine' = {} /\ dead' = {}
      /\ taken = {} /\ taken' = {}
      /\ \A h \in Files(core)' : core'.ino[h].i_no \in core.ibits
      /\ mine = {} /\ dead = {} /\ root' = root /\ \A b \in BlocksOf(root) : dsk'.blk[b] = dsk.blk[b]
  BY PutRest
<1>2. /\ RootInv' /\ Used' = Used /\ Named' = Named /\ Present' = Present
      /\ (\A d \in 0..root.size - 1 : Dir(d)' = Dir(d))
  BY <1>1, RootFrame DEF DInv
<1>3. \A d \in Used : Dir(d)' = Dir(d)
  BY <1>2, UsedLemma DEF DInv
<1>4. LsInv'
  BY <1>1, <1>2, <1>3, LsFrame DEF DInv
<1>5. BitsInv'
  BY <1>1, <1>2, <1>3, BitsFrame DEF DInv
<1> QED BY <1>1, <1>2, <1>3, <1>4, <1>5 DEF DInv

\* inode_write writes its block, for creat, unlink or write.
LEMMA PutStep ==
  ASSUME OneProgram, DInv, PutBlock(prog), Watch(ls)
  PROVE  DInv'
<1>1. rq.op \in {"creat", "unlink", "write"}
  BY PutRest
<1> QED BY <1>1, PutName, PutHole, PutContents

-----------------------------------------------------------------------------
(* The invariant *)

\* The size and the first sector of an inode are set.
LEMMA SizeAndSector ==
  ASSUME NEW x, NEW z, x = [size |-> 0, sectors |-> z]
  PROVE  [x EXCEPT !.size = 2, !.sectors[0] = 1] = [size |-> 2, sectors |-> [z EXCEPT ![0] = 1]]
<1>1. PICK y : y = [x EXCEPT !.size = 2, !.sectors[0] = 1]
  OBVIOUS
<1>2. y.size = 2 /\ y.sectors = [z EXCEPT ![0] = 1]
  BY <1>1
<1>3. y = [size |-> y.size, sectors |-> y.sectors]
  BY <1>1
<1> QED BY <1>1, <1>2, <1>3

\* What partition_format has written, and mount_partition has read.
LEMMA InitFacts ==
  ASSUME OneProgram, Init
  PROVE  /\ Blocks \subseteq Nat \ {0} /\ 1 \in Blocks
         /\ dsk = [used |-> {1}, ibits |-> {ROOT}, itab |-> dsk.itab, blk |-> dsk.blk]
         /\ dsk.itab[ROOT] = [size |-> 2, sectors |-> [s \in Sectors |-> IF s = 0 THEN 1 ELSE 0]]
         /\ (\A i \in Inodes \ {ROOT} : dsk.itab[i] = NewInode) /\ DOMAIN dsk.itab = Inodes
         /\ dsk.blk[1] = [c \in 0..PerBlock - 1 |-> IF c < 2 THEN Entry(NULL, ROOT) ELSE NULL]
         /\ \A b \in Blocks : DOMAIN dsk.blk[b] = 0..PerBlock - 1
         /\ core = [used |-> {1}, ibits |-> {ROOT}, ino |-> core.ino, open |-> {ROOT},
                    slots |-> [s \in Slots |-> NULL], panic |-> FALSE]
         /\ DOMAIN core.ino = Handles
         /\ root = [i_no |-> ROOT, cnts |-> 1, size |-> 2,
                    sectors |-> [s \in Sectors |-> IF s = 0 THEN 1 ELSE 0]]
         /\ at = "user" /\ rq = NoReq /\ ls = NoListing
         /\ DOMAIN pc = Procs /\ DOMAIN req = Procs
<1>1. PICK n \in Sizes : dsk = Formatted(n)
  BY DEF Init
<1>2. n \in Nat \ {0} /\ ROOT \in Inodes /\ ROOT \in Handles /\ 0 \in Sectors
  BY Consts
<1>3. DOMAIN dsk.blk = 1..n /\ Blocks = 1..n
  BY <1>1 DEF Formatted, Blocks
<1>4. NewInode = [size |-> 0, sectors |-> [s \in Sectors |-> 0]]
  BY DEF NewInode
<1>5. dsk.itab[ROOT] = [size |-> 2, sectors |-> [s \in Sectors |-> IF s = 0 THEN 1 ELSE 0]]
  <2>1. dsk.itab[ROOT] = [NewInode EXCEPT !.size = 2, !.sectors[0] = 1]
    BY <1>1, <1>2 DEF Formatted
  <2>2. [NewInode EXCEPT !.size = 2, !.sectors[0] = 1]
        = [size |-> 2, sectors |-> [s \in Sectors |-> IF s = 0 THEN 1 ELSE 0]]
    <3>1. [[s \in Sectors |-> 0] EXCEPT ![0] = 1] = [s \in Sectors |-> IF s = 0 THEN 1 ELSE 0]
      OBVIOUS
    <3>2. [NewInode EXCEPT !.size = 2, !.sectors[0] = 1]
          = [size |-> 2, sectors |-> [[s \in Sectors |-> 0] EXCEPT ![0] = 1]]
      BY <1>4, SizeAndSector, Zenon
    <3> QED BY <3>1, <3>2
  <2> QED BY <2>1, <2>2
<1>6. (\A i \in Inodes \ {ROOT} : dsk.itab[i] = NewInode) /\ DOMAIN dsk.itab = Inodes
  BY <1>1 DEF Formatted
<1>7. dsk = [used |-> {1}, ibits |-> {ROOT}, itab |-> dsk.itab, blk |-> dsk.blk]
  BY <1>1 DEF Formatted
<1>8. dsk.blk[1] = [c \in 0..PerBlock - 1 |-> IF c < 2 THEN Entry(NULL, ROOT) ELSE NULL]
  BY <1>1, <1>2, <1>3 DEF Formatted
<1>9. \A b \in Blocks : DOMAIN dsk.blk[b] = 0..PerBlock - 1
  <2> SUFFICES ASSUME NEW b \in Blocks PROVE DOMAIN dsk.blk[b] = 0..PerBlock - 1
    OBVIOUS
  <2>1. b = 1 \/ dsk.blk[b] = ZeroBlock
    BY <1>1, <1>3 DEF Formatted
  <2> QED BY <1>8, <2>1 DEF ZeroBlock
<1>10. core = Mount(dsk)
  BY DEF Init
<1>11. core.ino = [h \in Handles |-> IF h = ROOT THEN InMemory(ROOT, 1, dsk.itab[ROOT])
                                       ELSE InMemory(ROOT, 0, NewInode)]
  BY <1>10 DEF Mount
<1>12. core = [used |-> {1}, ibits |-> {ROOT}, ino |-> core.ino, open |-> {ROOT},
               slots |-> [s \in Slots |-> NULL], panic |-> FALSE]
  BY <1>7, <1>10 DEF Mount
<1>13. root = [i_no |-> ROOT, cnts |-> 1, size |-> 2, sectors |-> [s \in Sectors |-> IF s = 0 THEN 1 ELSE 0]]
  BY <1>2, <1>5, <1>11 DEF root, InMemory
<1>14. at = "user" /\ rq = NoReq /\ ls = NoListing /\ DOMAIN pc = Procs /\ DOMAIN req = Procs
  BY ProgLemma DEF Init, at, rq
<1> QED BY <1>2, <1>3, <1>5, <1>6, <1>7, <1>8, <1>9, <1>11, <1>12, <1>13, <1>14

\* A partition that was just formatted and mounted.
LEMMA InitInv ==
  ASSUME OneProgram, Init
  PROVE  DInv
<1>1. /\ ROOT \in Inodes /\ ROOT \in Handles /\ ROOT = 0 /\ 0 \in Sectors /\ Capacity \in Nat /\ 2 <= Capacity
      /\ PerBlock \in Nat /\ 2 <= PerBlock /\ Sectors \subseteq Nat /\ NULL \notin Handles
  BY Consts
<1>2. NewInode = [size |-> 0, sectors |-> [s \in Sectors |-> 0]] /\ NewInode.size = 0
      /\ (\A k \in Sectors : NewInode.sectors[k] = 0) /\ NewInode \in DiskInode(Blocks)
  BY <1>1 DEF NewInode, DiskInode
<1>3. dsk.itab[ROOT] \in DiskInode(Blocks)
  <2>1. 2 \in 0..Capacity /\ [s \in Sectors |-> IF s = 0 THEN 1 ELSE 0] \in [Sectors -> {0} \cup Blocks]
    BY <1>1, InitFacts
  <2> QED BY <2>1, InitFacts DEF DiskInode
<1>4. DTypes
  <2>1. dsk.itab \in [Inodes -> DiskInode(Blocks)]
    <3>1. \A i \in Inodes : dsk.itab[i] \in DiskInode(Blocks)
      BY <1>2, <1>3, InitFacts
    <3>2. dsk.itab = [i \in Inodes |-> dsk.itab[i]]
      <4>1. PICK n : dsk = Formatted(n)
        BY DEF Init
      <4> QED BY <4>1 DEF Formatted
    <3> QED BY <3>1, <3>2
  <2>2. IsReq(rq)
    BY InitFacts DEF NoReq, IsReq
  <2>3. ~core.panic /\ core.used = {1} /\ dsk.used = {1} /\ core.ibits = {ROOT} /\ dsk.ibits = {ROOT}
    BY InitFacts
  <2>4. dsk = [used |-> dsk.used, ibits |-> dsk.ibits, itab |-> dsk.itab, blk |-> dsk.blk]
    BY <2>3, InitFacts
  <2>5. Blocks \subseteq Nat \ {0} /\ 1 \in Blocks /\ (\A b \in Blocks : DOMAIN dsk.blk[b] = 0..PerBlock - 1)
        /\ at = "user" /\ DOMAIN pc = Procs /\ DOMAIN req = Procs
    BY InitFacts
  <2> QED BY <1>1, <2>1, <2>2, <2>3, <2>4, <2>5 DEF DTypes
<1>5. /\ root = [i_no |-> root.i_no, cnts |-> root.cnts, size |-> root.size, sectors |-> root.sectors]
      /\ root.i_no = ROOT /\ root.cnts = 1 /\ root.size = 2 /\ root.sectors = dsk.itab[ROOT].sectors
      /\ root.sectors[0] = 1 /\ (\A k \in Sectors : k # 0 => root.sectors[k] = 0)
      /\ dsk.itab[ROOT].size = 2 /\ Of(root) = dsk.itab[ROOT]
  BY <1>1, InitFacts DEF Of
<1>6. core.open = {ROOT} /\ Files(core) = {} /\ (\A s \in Slots : core.slots[s] = NULL) /\ core.slots = [s \in Slots |-> NULL]
  BY InitFacts DEF Files
<1>7. MemInv(core, Blocks)
  <2>1. IsCore(core)
    BY InitFacts DEF IsCore
  <2>2. IsInode(root, Blocks)
    BY <1>1, <1>3, <1>5 DEF IsInode, DiskInode
  <2> QED BY <1>1, <1>5, <1>6, <2>1, <2>2 DEF MemInv, root
<1>8. at = "user" /\ rq = NoReq /\ rq.op = "" /\ ls = NoListing /\ at \notin Calling /\ at \notin Syncs
      /\ at \notin Zeroing /\ at \notin Writing
  <2>1. at = "user" /\ rq = NoReq /\ ls = NoListing
    BY InitFacts
  <2>2. rq.op = ""
    BY <2>1 DEF NoReq
  <2> QED BY <2>1, <2>2 DEF Calling, Syncs, Zeroing, Writing
<1>9. SyncInv
  BY <1>5, <1>6 DEF SyncInv, root
<1>10. Dir(0) = Entry(NULL, ROOT) /\ Dir(1) = Entry(NULL, ROOT)
  <2>1. 0 \div PerBlock = 0 /\ 0 % PerBlock = 0 /\ 1 \div PerBlock = 0 /\ 1 % PerBlock = 1
    BY <1>1
  <2>2. dsk.blk[1][0] = Entry(NULL, ROOT) /\ dsk.blk[1][1] = Entry(NULL, ROOT)
    <3>1. dsk.blk[1] = [c \in 0..PerBlock - 1 |-> IF c < 2 THEN Entry(NULL, ROOT) ELSE NULL]
      BY InitFacts
    <3> QED BY <1>1, <3>1
  <2> QED BY <1>5, <2>1, <2>2 DEF Dir, Cell
<1>11. Used = {} /\ Named = {}
  BY <1>5 DEF Used, Named
<1>12. RootInv
  <2>1. \A c \in 0..root.size - 1 : c \div PerBlock = 0
    BY <1>1, <1>5
  <2> QED BY <1>1, <1>5, <1>10, <1>11, <2>1 DEF RootInv
<1>13. taken = {} /\ mine = {} /\ dead = {} /\ Extra = {}
  BY <1>8 DEF taken, mine, dead, Extra, NoReq
<1>14. BitsInv
  BY <1>6, <1>11, <1>13, InitFacts DEF BitsInv
<1>15. OwnInv
  <2>1. Known = {ROOT} /\ core.used = {1} /\ dsk.used = {1}
    BY <1>13, InitFacts DEF Known
  <2>2. Node(ROOT) = dsk.itab[ROOT]
    BY <1>8 DEF Node
  <2>3. BlocksOf(dsk.itab[ROOT]) = {1} /\ Distinct(dsk.itab[ROOT]) /\ dsk.itab[ROOT].sectors[0] # 0
    BY <1>1, <1>5 DEF BlocksOf, Distinct
  <2>4. UNION {BlocksOf(Node(i)) : i \in Known} = {1}
    BY <2>1, <2>2, <2>3
  <2> QED BY <1>8, <1>13, <2>1, <2>2, <2>3, <2>4 DEF OwnInv
<1>16. CallInv
  BY <1>8 DEF CallInv, OpInv, LookInv, OpenInv, NewInv, ZeroInv, WriteInv, BlockInv, DirtyInv, Calling,
              Writing, Syncs, Zeroing
<1>17. LsInv
  BY <1>8 DEF LsInv, NoListing
<1> QED BY <1>4, <1>7, <1>9, <1>12, <1>14, <1>15, <1>16, <1>17 DEF DInv

\* A step of the program keeps the invariant.
LEMMA ProgramStep ==
  ASSUME OneProgram, DInv, Call(prog) \/ Access(prog), Watch(ls)
  PROVE  DInv'
BY SearchStep, CreateStep, CloseStep, WriteStep, LookStep, ReadInodeStep, ScanStep, InodeBitmapStep,
   LockStep, BitmapStep, ZeroStep, GetStep, PutStep, GetInodesStep, PutInodesStep DEF Call, Access

\* Each step keeps the invariant.
LEMMA NextInv ==
  ASSUME OneProgram, DInv, [Next]_vars
  PROVE  DInv'
<1>1. CASE List
  BY <1>1, OpendirStep, ReaddirStep, ClosedirStep DEF List
<1>2. CASE (\E p \in Procs : Call(p) \/ Access(p)) /\ Watch(ls)
  BY <1>2, ProgLemma, ProgramStep
<1>3. CASE UNCHANGED vars
  BY <1>3, StutterStep
<1> QED BY <1>1, <1>2, <1>3 DEF Next

\* The inductive invariant of fs/dir.c, fs/file.c and the calls of fs/fs.c holds
\* between any two accesses to the disk.
THEOREM DirectoryInvariant ==
  ASSUME OneProgram
  PROVE  Spec => []DInv
<1>1. Init => DInv
  BY InitInv
<1>2. DInv /\ [Next]_vars => DInv'
  BY NextInv
<1> QED BY <1>1, <1>2, PTL DEF Spec

-----------------------------------------------------------------------------
(* What the invariant says *)

\* An inode with a bit, but one that creat has just taken, is on disk no
\* further than it is in memory.
LEMMA OnDisk ==
  ASSUME DInv
  PROVE  /\ ROOT \in Known /\ ROOT \notin mine
         /\ \A i \in core.ibits \cap Named : i \in Known /\ i \notin mine
         /\ \A i \in Known \ mine : Behind(dsk.itab[i], Node(i)) /\ BlocksOf(Node(i)) \subseteq dsk.used
         /\ Node(ROOT) = Of(root)
<1>1. taken \subseteq mine /\ mine \cap (Named \cup {ROOT}) = {} /\ ROOT \in core.ibits
      /\ core.ibits \subseteq Inodes /\ dsk.itab \in [Inodes -> DiskInode(Blocks)]
  <2>1. taken \subseteq mine
    BY DEF DInv, CallInv, OpInv, taken, mine, Syncs
  <2> QED BY <2>1 DEF DInv, BitsInv, DTypes
<1>2. ROOT \in Known /\ ROOT \notin mine
  BY <1>1 DEF Known
<1>3. \A i \in core.ibits \cap Named : i \in Known /\ i \notin mine
  BY <1>1 DEF Known
<1>4. \A i \in Known \ mine : Behind(dsk.itab[i], Node(i))
  <2> SUFFICES ASSUME NEW i \in Known \ mine PROVE Behind(dsk.itab[i], Node(i))
    OBVIOUS
  <2>1. i \in Inodes /\ dsk.itab[i].size \in Nat /\ (Node(i).size > 0 => Node(i).sectors[0] # 0)
    <3>1. i \in Known /\ i \in Inodes
      BY <1>1 DEF Known
    <3>2. Node(i).size > 0 => Node(i).sectors[0] # 0
      BY <3>1 DEF DInv, OwnInv
    <3>3. dsk.itab[i].size \in 0..Capacity /\ Capacity \in Nat
      BY <1>1, <3>1, Consts DEF DiskInode
    <3> QED BY <3>1, <3>2, <3>3
  <2>2. CASE at \in Syncs /\ i = core.ino[rq.h].i_no
    <3>1. rq.why # "new"
      <4>1. rq.why = "new" => rq.op = "creat" /\ rq.h = rq.new /\ at # "ibit"
        BY <2>2 DEF DInv, CallInv, WriteInv, Syncs
      <4> QED BY <2>2, <4>1 DEF mine
    <3>2. rq.why = "write"
      BY <2>2, <3>1 DEF DInv, CallInv, WriteInv
    <3>3. Behind(dsk.itab[i], core.ino[rq.h])
      BY <2>2, <3>2 DEF DInv, CallInv, DirtyInv
    <3>4. Node(i).size = core.ino[rq.h].size /\ Node(i).sectors = core.ino[rq.h].sectors
      BY <2>2 DEF Node, Of
    <3> QED BY <3>3, <3>4 DEF Behind
  <2>3. CASE ~(at \in Syncs /\ i = core.ino[rq.h].i_no)
    <3>1. Node(i) = dsk.itab[i]
      BY <2>3 DEF Node
    <3> QED BY <2>1, <3>1 DEF Behind
  <2> QED BY <2>2, <2>3
<1>5. \A i \in Known : BlocksOf(Node(i)) \subseteq dsk.used
  <2> SUFFICES ASSUME NEW i \in Known, NEW b \in BlocksOf(Node(i)) PROVE b \in dsk.used
    OBVIOUS
  <2>1. b \in core.used /\ core.used \subseteq dsk.used \cup (IF at = "bbit" THEN {rq.b} ELSE {})
    BY DEF DInv, OwnInv
  <2>2. at = "bbit" => \A j \in Known : rq.b \notin BlocksOf(Node(j))
    BY DEF DInv, CallInv, BlockInv
  <2> QED BY <2>1, <2>2
<1>6. Node(ROOT) = Of(root)
  <2>1. ROOT \in core.open /\ core.ino[ROOT].i_no = ROOT
        /\ (\A g, h \in core.open : core.ino[g].i_no = core.ino[h].i_no => g = h)
    BY DEF DInv, MemInv
  <2>2. at \in Syncs => rq.h \in core.open
    BY DEF DInv, CallInv, WriteInv
  <2> QED BY <2>1, <2>2 DEF DInv, SyncInv, Node, root
<1> QED BY <1>2, <1>3, <1>4, <1>5, <1>6

\* The blocks of an inode on disk are blocks of it in memory.
LEMMA BehindBlocks ==
  ASSUME NEW a, NEW b, Behind(a, b)
  PROVE  BlocksOf(a) \subseteq BlocksOf(b)
BY DEF Behind, BlocksOf

\* The entries that are on disk are entries of the directory in memory.
LEMMA EntriesOnDisk ==
  ASSUME DInv, NEW c \in Entries(dsk.itab[ROOT])
  PROVE  c \in Used /\ Cell(dsk.itab[ROOT], c) = Dir(c)
<1>1. Behind(dsk.itab[ROOT], Of(root)) /\ dsk.itab[ROOT] \in DiskInode(Blocks)
  <2>1. ROOT \in Inodes /\ dsk.itab \in [Inodes -> DiskInode(Blocks)]
    BY Consts DEF DInv, DTypes
  <2> QED BY <2>1, OnDisk
<1>2. Of(root).size = root.size /\ Of(root).sectors = root.sectors
  BY DEF Of
<1>3. dsk.itab[ROOT].size <= root.size
      /\ \A k \in Sectors : dsk.itab[ROOT].sectors[k] \in {0, root.sectors[k]}
  BY <1>1, <1>2 DEF Behind
<1>4. c \in 2..dsk.itab[ROOT].size - 1 /\ Cell(dsk.itab[ROOT], c) # NULL
  BY DEF Entries
<1>5. dsk.itab[ROOT].size \in 0..Capacity /\ root.size \in 2..Capacity /\ Capacity \in Nat
  BY <1>1, Consts DEF DiskInode, DInv, RootInv
<1>6. c \in 2..root.size - 1 /\ c \in 0..Capacity - 1
  BY <1>3, <1>4, <1>5
<1>7. c \div PerBlock \in Sectors
  BY <1>6, Place
<1>8. Cell(dsk.itab[ROOT], c) = Dir(c)
  <2>1. dsk.itab[ROOT].sectors[c \div PerBlock] # 0
    BY <1>4 DEF Cell
  <2>2. dsk.itab[ROOT].sectors[c \div PerBlock] = root.sectors[c \div PerBlock]
    BY <1>3, <1>7, <2>1
  <2> QED BY <2>2 DEF Cell, Dir
<1> QED BY <1>4, <1>6, <1>8 DEF Used

\* The invariant has the disk consistent.
LEMMA InvDiskConsistent ==
  ASSUME DInv
  PROVE  DiskConsistent
<1> DEFINE r == dsk.itab[ROOT]
           i(c) == Cell(r, c).i_no
           E == {c \in Entries(r) : ~Dying(i(c))}
<1>1. \A c \in E : c \in Used /\ Cell(r, c) = Dir(c) /\ i(c) \in core.ibits /\ i(c) \in Named /\ i(c) # ROOT
  <2> SUFFICES ASSUME NEW c \in E
               PROVE  c \in Used /\ Cell(r, c) = Dir(c) /\ i(c) \in core.ibits /\ i(c) \in Named /\ i(c) # ROOT
    OBVIOUS
  <2>1. c \in Used /\ Cell(r, c) = Dir(c)
    BY EntriesOnDisk
  <2>2. i(c) \in core.ibits
    BY DEF Dying
  <2>3. Dir(c).i_no \in Named /\ Dir(c).i_no # ROOT
    BY <2>1, UsedLemma DEF DInv
  <2> QED BY <2>1, <2>2, <2>3
<1>2. \A j \in Known \ mine : /\ BlocksOf(dsk.itab[j]) \subseteq BlocksOf(Node(j))
                              /\ BlocksOf(Node(j)) \subseteq dsk.used
                              /\ dsk.itab[j].size > 0 => dsk.itab[j].sectors[0] # 0
  BY OnDisk, BehindBlocks DEF Behind
<1>3. \A c \in E : i(c) \in Known \ mine
  BY <1>1, OnDisk
<1>4. BlocksOf(r) \subseteq dsk.used
  BY <1>2, OnDisk
<1>5. \A j, k \in Known : j # k => BlocksOf(Node(j)) \cap BlocksOf(Node(k)) = {}
  BY DEF DInv, OwnInv
<1>6. \A j, k \in Known \ mine : j # k => BlocksOf(dsk.itab[j]) \cap BlocksOf(dsk.itab[k]) = {}
  BY <1>2, <1>5
<1>7. \A c \in E : i(c) \in dsk.ibits
  <2>1. core.ibits \subseteq dsk.ibits \cup taken
    BY DEF DInv, BitsInv
  <2> QED BY <1>1, <1>3, <2>1 DEF Known
<1>8. \A c \in E : BlocksOf(dsk.itab[i(c)]) \subseteq dsk.used \ BlocksOf(r)
  BY <1>1, <1>2, <1>3, <1>6, OnDisk
<1>9. \A c \in E : \A d \in E \ {c} : Cell(r, c).filename # Cell(r, d).filename /\ i(c) # i(d)
  <2>1. \A c, d \in Used : Dir(c).filename = Dir(d).filename \/ Dir(c).i_no = Dir(d).i_no => c = d
    BY DEF DInv, RootInv
  <2> QED BY <1>1, <2>1
<1> HIDE DEF E, i
<1>10. \A c \in E : /\ i(c) \in dsk.ibits \ {ROOT}
                    /\ BlocksOf(dsk.itab[i(c)]) \subseteq dsk.used \ BlocksOf(r)
                    /\ dsk.itab[i(c)].size > 0 => dsk.itab[i(c)].sectors[0] # 0
                    /\ \A d \in E \ {c} :
                         /\ Cell(r, c).filename # Cell(r, d).filename /\ i(c) # i(d)
                         /\ BlocksOf(dsk.itab[i(c)]) \cap BlocksOf(dsk.itab[i(d)]) = {}
  BY <1>1, <1>2, <1>3, <1>6, <1>7, <1>8, <1>9
<1> USE DEF E, i
<1> QED BY <1>4, <1>10 DEF DiskConsistent

\* What is in memory of an inode that is open is its last state.
LEMMA CurrentNode ==
  ASSUME DInv, NEW i \in Inodes
  PROVE  Current(i).size = Node(i).size /\ Current(i).sectors = Node(i).sectors
<1>1. /\ \A g, h \in core.open : core.ino[g].i_no = core.ino[h].i_no => g = h
      /\ at \in Syncs => rq.h \in core.open
      /\ \A h \in core.open : Of(core.ino[h]) = dsk.itab[core.ino[h].i_no] \/ (at \in Syncs /\ h = rq.h)
  BY DEF DInv, MemInv, SyncInv, CallInv, WriteInv
<1>2. CASE Find(core, i) = {}
  <2>1. Current(i) = dsk.itab[i]
    BY <1>2 DEF Current
  <2>2. Node(i) = dsk.itab[i]
    BY <1>1, <1>2 DEF Node, Find
  <2> QED BY <2>1, <2>2
<1>3. CASE Find(core, i) # {}
  <2>1. PICK h \in core.open : Current(i) = core.ino[h] /\ core.ino[h].i_no = i
    BY <1>3 DEF Current, Find
  <2>2. Node(i) = Of(core.ino[h])
    BY <1>1, <2>1 DEF Node
  <2> QED BY <2>1, <2>2 DEF Of
<1> QED BY <1>2, <1>3

\* The invariant has an inode for every name and no other between calls.
LEMMA InvInodesNamed ==
  ASSUME OneProgram, DInv
  PROVE  InodesNamed
<1> SUFFICES ASSUME \A p \in Procs : pc[p] = "user" PROVE
      LET I == {ROOT} \cup {Cell(root, c).i_no : c \in Entries(root)}
      IN  /\ core.ibits = I
          /\ \A i \in I :
               /\ BlocksOf(Current(i)) \subseteq core.used
               /\ \A j \in I \ {i} : BlocksOf(Current(i)) \cap BlocksOf(Current(j)) = {}
  BY DEF InodesNamed, root
<1>1. at = "user"
  BY ProgLemma DEF at
<1>2. rq.op = "" /\ at \notin {"bbit", "get", "put"} /\ at \notin Zeroing
  <2>1. rq = NoReq
    BY <1>1 DEF DInv, CallInv, OpInv
  <2>2. rq.op = ""
    BY <2>1 DEF NoReq
  <2> QED BY <1>1, <2>2 DEF Zeroing
<1>3. taken = {} /\ mine = {} /\ dead = {} /\ Extra = {}
  BY <1>1, <1>2 DEF taken, mine, dead, Extra
<1>4. Named = {Cell(root, c).i_no : c \in Entries(root)}
  BY DEF Named, Used, Entries, Dir
<1>5. core.ibits = {ROOT} \cup Named
  <2>1. Named \subseteq core.ibits
    BY <1>3 DEF DInv, BitsInv, Named
  <2> QED BY <1>3, <2>1 DEF DInv, BitsInv
<1>6. Known = {ROOT} \cup Named /\ Known \subseteq Inodes
  BY <1>3, <1>5 DEF Known, DInv, DTypes
<1>7. core.used = UNION {BlocksOf(Node(i)) : i \in {ROOT} \cup Named}
  BY <1>3, <1>6 DEF DInv, OwnInv
<1>8. \A i \in {ROOT} \cup Named : BlocksOf(Current(i)) = BlocksOf(Node(i))
  BY <1>6, CurrentNode DEF BlocksOf
<1>9. \A i \in {ROOT} \cup Named : BlocksOf(Current(i)) \subseteq core.used
  BY <1>7, <1>8
<1>10. \A i, j \in {ROOT} \cup Named :
         i # j => BlocksOf(Current(i)) \cap BlocksOf(Current(j)) = {}
  BY <1>6, <1>8 DEF DInv, OwnInv
<1> QED BY <1>4, <1>5, <1>9, <1>10

\* No call of a program that unlinks only what it has closed reaches the PANIC of
\* inode_free or that of delete_file_or_directory.
THEOREM DirectoryNoPanic ==
  ASSUME OneProgram
  PROVE  Spec => []NoPanic
<1>1. DInv => NoPanic
  BY DEF DInv, DTypes, NoPanic
<1> QED BY <1>1, DirectoryInvariant, PTL

\* Between any two accesses to the disk a restart finds on it, but for a file that
\* is being deleted, entries with inodes of their own and blocks of their own, all
\* marked in the two bitmaps: create_file_or_directory and inode_write order their
\* writes so.
THEOREM DirectoryDiskConsistent ==
  ASSUME OneProgram
  PROVE  Spec => []DiskConsistent
BY InvDiskConsistent, DirectoryInvariant, PTL

\* Between calls the inodes that are taken are the root directory's and those that
\* have a name, also when a creat has failed half way, and the blocks of each are
\* marked and in no other.
THEOREM DirectoryInodesNamed ==
  ASSUME OneProgram
  PROVE  Spec => []InodesNamed
<1>1. DInv => InodesNamed
  BY InvInodesNamed
<1> QED BY <1>1, DirectoryInvariant, PTL

\* readdir returns every name that was in the directory from opendir to the end,
\* and once, whatever is created and unlinked meanwhile: dir_link and dir_unlink
\* move no entry.
THEOREM DirectoryListingComplete ==
  ASSUME OneProgram
  PROVE  Spec => []ListingComplete
<1>1. DInv => ListingComplete
  BY DEF DInv, LsInv, ListingComplete
<1> QED BY <1>1, DirectoryInvariant, PTL

-----------------------------------------------------------------------------
(* The catalog *)

\* What is in the first cell of an inode, when it has one.
Content(i) == IF Node(i).size = 0 THEN NULL ELSE Cell(Node(i), 0)

\* A name stands for a file when it has an entry whose inode has its bit.
Stands(n) == \E c \in Used : Dir(c).filename = n /\ Dir(c).i_no \in core.ibits

\* What a name stands for is in the node that its entry names.
MapInv ==
  /\ Node(ROOT) = Of(root)
  /\ \A n \in Names : ~Stands(n) => Contents(n) = "absent"
  /\ \A c \in Used : Dir(c).i_no \in core.ibits => Contents(Dir(c).filename) = Content(Dir(c).i_no)

\* Files have contents of the program in them.
Typed == \A c \in Used : Dir(c).i_no \in core.ibits => Content(Dir(c).i_no) \in Data \cup {NULL}

\* What Catalog sees.
files == [n \in Names |-> Contents(n)]

\* The contents of a name, by its entry.
LEMMA MapLemma ==
  ASSUME DInv
  PROVE  MapInv
<1> DEFINE D == {Cell(root, c) : c \in 2..root.size - 1}
           I(n) == {i \in core.ibits : Entry(n, i) \in D}
           Value(n, ino) == IF I(n) = {} THEN "absent" ELSE IF ino.size = 0 THEN NULL ELSE Cell(ino, 0)
<1>1. \A n : Contents(n) = Value(n, Current(CHOOSE i \in I(n) : TRUE))
  BY DEF Contents, root
<1>2. core.ibits \subseteq Inodes /\ NULL \notin [filename : Names \cup {NULL}, i_no : Inodes]
  BY DirectoryAssumption DEF DInv, DTypes, Inodes
<1>3. ASSUME NEW n \in Names, NEW i \in I(n)
      PROVE  \E c \in Used : Dir(c).filename = n /\ Dir(c).i_no = i
  <2>1. PICK c \in 2..root.size - 1 : Dir(c) = Entry(n, i)
    BY <1>3 DEF Dir
  <2>2. Entry(n, i) # NULL
    BY <1>2, <1>3 DEF Entry
  <2> QED BY <2>1, <2>2 DEF Used, Entry
<1>4. ASSUME NEW n \in Names, ~Stands(n)
      PROVE  Contents(n) = "absent"
  <2>1. I(n) = {}
    BY <1>3, <1>4 DEF Stands
  <2> QED BY <1>1, <2>1
<1>5. ASSUME NEW c \in Used, Dir(c).i_no \in core.ibits
      PROVE  Contents(Dir(c).filename) = Content(Dir(c).i_no)
  <2>1. PICK n, i : n = Dir(c).filename /\ i = Dir(c).i_no
    OBVIOUS
  <2>2. n \in Names /\ Dir(c) = Entry(n, i) /\ c \in 2..root.size - 1 /\ i \in Inodes
    BY <1>2, <1>5, <2>1, UsedLemma DEF DInv, Used
  <2>3. i \in I(n)
    BY <1>5, <2>1, <2>2 DEF Dir
  <2>4. \A j \in I(n) : j = i
    <3>1. \A d \in Used : Dir(d).filename = n => d = c
      BY <2>1 DEF DInv, RootInv
    <3> SUFFICES ASSUME NEW j \in I(n) PROVE j = i
      OBVIOUS
    <3>2. \E d \in Used : Dir(d).filename = n /\ Dir(d).i_no = j
      BY <1>3, <2>2
    <3> QED BY <2>1, <3>1, <3>2
  <2>5. I(n) # {} /\ (CHOOSE j \in I(n) : TRUE) = i
    BY <2>3, <2>4
  <2> HIDE DEF I
  <2>6. Contents(n) = IF Current(i).size = 0 THEN NULL ELSE Cell(Current(i), 0)
    BY <1>1, <2>5
  <2>7. Current(i).size = Node(i).size /\ Cell(Current(i), 0) = Cell(Node(i), 0)
    BY <2>2, CurrentNode DEF Cell
  <2> QED BY <2>1, <2>6, <2>7 DEF Content
<1> QED BY <1>4, <1>5, OnDisk DEF MapInv

\* What a step of the catalog is.
LEMMA CatalogStep ==
  ASSUME NEW n \in Names,
         \/ files[n] = "absent" /\ files' = [files EXCEPT ![n] = NULL] /\ NULL # "absent"
         \/ files[n] # "absent" /\ files' = [files EXCEPT ![n] = "absent"]
         \/ files[n] # "absent" /\ \E d \in Data : files' = [files EXCEPT ![n] = d]
  PROVE  Catalog!Next \/ files' = files
<1>1. DOMAIN files = Names
  BY DEF files
<1>2. CASE files'[n] = files[n]
  <2>1. PICK x : files' = [files EXCEPT ![n] = x]
    OBVIOUS
  <2>2. files[n] = x
    BY <1>1, <1>2, <2>1
  <2>3. files = [m \in Names |-> files[m]]
    BY DEF files
  <2> HIDE DEF files
  <2> QED BY <2>1, <2>2, <2>3
<1>3. CASE files'[n] # files[n]
  BY <1>3 DEF Catalog!Next, Catalog!Create, Catalog!Remove, Catalog!Store, files
<1> QED BY <1>2, <1>3

\* An inode has the contents that it had when neither it nor its blocks change.
LEMMA SameContent ==
  ASSUME DInv, NEW i \in Known, Node(i)' = Node(i), \A b \in BlocksOf(Node(i)) : dsk'.blk[b] = dsk.blk[b]
  PROVE  Content(i)' = Content(i)
<1>1. CASE Node(i).size = 0
  BY <1>1 DEF Content
<1>2. CASE Node(i).size # 0
  <2>1. Node(i).size > 0 => Node(i).sectors[0] # 0
    BY DEF DInv, OwnInv
  <2>2. Node(i).size \in Nat
    <3>1. Node(i) = dsk.itab[i] \/ \E h \in core.open : Node(i) = Of(core.ino[h])
      BY DEF Node, DInv, CallInv, WriteInv
    <3>2. \A h \in core.open : core.ino[h].size \in 0..Capacity
      BY DEF DInv, MemInv, IsInode
    <3>3. dsk.itab[i].size \in 0..Capacity
      <4>1. i \in Inodes /\ dsk.itab \in [Inodes -> DiskInode(Blocks)]
        BY DEF DInv, DTypes, Known
      <4> QED BY <4>1 DEF DiskInode
    <3> QED BY <3>1, <3>2, <3>3, Consts DEF Of
  <2>3. 0 \div PerBlock = 0 /\ 0 \in Sectors
    BY Consts
  <2>4. Node(i).sectors[0] \in BlocksOf(Node(i))
    BY <1>2, <2>1, <2>2, <2>3 DEF BlocksOf
  <2>5. Cell(Node(i), 0)' = Cell(Node(i), 0)
    BY <2>3, <2>4 DEF Cell
  <2> QED BY <2>5 DEF Content
<1> QED BY <1>1, <1>2

\* Nothing happens to the inodes that have a name, but that one of them may
\* lose its bit.
LEMMA FrameStep ==
  ASSUME DInv, DInv', MapInv, MapInv', Typed,
         \A i \in {ROOT} \cup Named : i \in core.ibits => Node(i)' = Node(i),
         \A b \in core.used : dsk'.blk[b] = dsk.blk[b],
         core'.ibits \cap Named \subseteq core.ibits
  PROVE  Typed' /\ (Catalog!Next \/ files' = files)
<1>1. ROOT \in core.ibits /\ ROOT \in Known
  BY OnDisk DEF Known
<1>2. \A i \in Known : BlocksOf(Node(i)) \subseteq core.used
  BY DEF DInv, OwnInv
<1>3. Of(root)' = Of(root)
  BY <1>1 DEF MapInv
<1>4. root'.size = root.size /\ root'.sectors = root.sectors
  BY <1>3 DEF Of
<1>5. BlocksOf(root) = BlocksOf(Node(ROOT))
  BY DEF MapInv, BlocksOf, Of
<1>6. /\ Used' = Used /\ Named' = Named /\ \A c \in Used : Dir(c)' = Dir(c)
  <2>1. \A b \in BlocksOf(root) : dsk'.blk[b] = dsk.blk[b]
    BY <1>1, <1>2, <1>5
  <2> QED BY <1>4, <2>1, RootFrame, UsedLemma DEF DInv
<1>7. \A i \in Named \cap core.ibits : Content(i)' = Content(i)
  BY <1>2, OnDisk, SameContent
<1>8. \A c \in Used : Dir(c).i_no \in Named
  BY UsedLemma DEF DInv
<1>9. \A c \in Used : Dir(c).i_no \in core'.ibits => Dir(c).i_no \in core.ibits
  BY <1>8
<1>10. Typed'
  BY <1>6, <1>7, <1>8, <1>9 DEF Typed
<1>11. \A n \in Names : Stands(n)' => Stands(n) /\ Contents(n)' = Contents(n)
  <2> SUFFICES ASSUME NEW n \in Names, Stands(n)' PROVE Stands(n) /\ Contents(n)' = Contents(n)
    OBVIOUS
  <2>1. PICK c \in Used : Dir(c).filename = n /\ Dir(c).i_no \in core'.ibits
    BY <1>6 DEF Stands
  <2>2. Dir(c).i_no \in core.ibits /\ Dir(c).i_no \in Named
    BY <1>8, <1>9, <2>1
  <2>3. Contents(n) = Content(Dir(c).i_no)
    BY <2>1, <2>2 DEF MapInv
  <2>4. Contents(Dir(c).filename)' = Content(Dir(c).i_no)'
    BY <1>6, <2>1 DEF MapInv
  <2>5. Contents(n)' = Content(Dir(c).i_no)'
    BY <1>6, <2>1, <2>4
  <2>6. Content(Dir(c).i_no)' = Content(Dir(c).i_no)
    <3>1. PICK i \in Named \cap core.ibits : i = Dir(c).i_no
      BY <2>2
    <3>2. i = Dir(c)'.i_no
      BY <1>6, <2>1, <3>1
    <3> QED BY <1>7, <3>1, <3>2
  <2> QED BY <2>1, <2>2, <2>3, <2>5, <2>6 DEF Stands
<1>12. \A n \in Names : ~Stands(n) => Contents(n) = "absent" /\ Contents(n)' = "absent"
  BY <1>11 DEF MapInv
<1>13. \A n \in Names : Stands(n) => Contents(n) # "absent"
  BY DirectoryAssumption DEF Stands, MapInv, Typed
<1>14. \A m, n \in Names : Stands(m) /\ ~Stands(m)' /\ Stands(n) /\ ~Stands(n)' => m = n
  <2>1. \A n \in Names : Stands(n) /\ ~Stands(n)' => n \in dead'
    <3> SUFFICES ASSUME NEW n \in Names, Stands(n), ~Stands(n)' PROVE n \in dead'
      OBVIOUS
    <3>1. PICK c \in Used : Dir(c).filename = n
      BY DEF Stands
    <3>2. c \in Used' /\ Dir(c)'.filename = n /\ Dir(c)'.i_no \notin core'.ibits
      BY <1>6, <3>1 DEF Stands
    <3> QED BY <3>2 DEF DInv, BitsInv
  <2>2. \A m, n \in dead' : m = n
    BY DEF dead
  <2> QED BY <2>1, <2>2
<1>15. Catalog!Next \/ files' = files
  <2>1. CASE \A n \in Names : Stands(n) => Stands(n)'
    <3>1. \A n \in Names : Contents(n)' = Contents(n)
      BY <1>11, <1>12, <2>1
    <3> QED BY <3>1 DEF files
  <2>2. CASE \E n \in Names : Stands(n) /\ ~Stands(n)'
    <3>1. PICK n \in Names : Stands(n) /\ ~Stands(n)'
      BY <2>2
    <3>2. Contents(n) # "absent" /\ Contents(n)' = "absent"
      BY <1>13, <3>1 DEF MapInv
    <3>3. \A m \in Names \ {n} : Contents(m)' = Contents(m)
      BY <1>11, <1>12, <1>14, <3>1
    <3>4. files' = [files EXCEPT ![n] = "absent"] /\ files[n] # "absent"
      BY <3>2, <3>3 DEF files
    <3> QED BY <3>4, CatalogStep
  <2> QED BY <2>1, <2>2
<1> QED BY <1>10, <1>15

-----------------------------------------------------------------------------
\* A step that sets no bit, and after which no inode waits for inode_sync.
Moved == core'.ibits \subseteq core.ibits /\ at' \notin Syncs

\* ... in one Go,
LEMMA MovedGo ==
  ASSUME OneProgram, DTypes, NEW c, c.ibits \subseteq core.ibits, NEW a, NEW r, Go(prog, c, a, r), a \notin Syncs
  PROVE  Moved
BY GoLemma DEF DTypes, Moved

\* ... at the end of a call,
LEMMA MovedReturn ==
  ASSUME OneProgram, DTypes, NEW c, c.ibits \subseteq core.ibits, Return(prog, c)
  PROVE  Moved
BY MovedGo DEF Return, Syncs

\* inode_close sets no bit.
LEMMA CloseBits ==
  ASSUME NEW c, IsCore(c), NEW h
  PROVE  IsCore(Close(c, h)) /\ Close(c, h).ibits = c.ibits
<1>1. CASE h = ROOT
  BY <1>1 DEF Close
<1>2. CASE h # ROOT /\ c.ino[h].cnts # 1
  <2>1. PICK v : v = [c.ino EXCEPT ![h].cnts = @ - 1]
    OBVIOUS
  <2>2. Close(c, h) = [c EXCEPT !.ino = v]
    BY <1>2, <2>1 DEF Close
  <2>3. DOMAIN v = DOMAIN c.ino
    BY <2>1
  <2> QED BY <2>2, <2>3 DEF IsCore
<1>3. CASE h # ROOT /\ c.ino[h].cnts = 1
  <2>1. PICK y, n : n = InMemory(ROOT, 0, NewInode) /\ y = [c EXCEPT !.open = @ \ {h}, !.ino[h] = n]
    OBVIOUS
  <2>2. Close(c, h) = y
    BY <1>3, <2>1 DEF Close
  <2>3. IsCore(y) /\ y.ibits = c.ibits
    BY <2>1 DEF IsCore
  <2> QED BY <2>2, <2>3
<1> QED BY <1>1, <1>2, <1>3

\* ... in a lookup that begins,
LEMMA MovedLookUp ==
  ASSUME OneProgram, DTypes, NEW c, c.ibits \subseteq core.ibits, NEW r, NEW w, LookUp(prog, c, r, w)
  PROVE  Moved
BY MovedGo DEF LookUp, Syncs

\* ... in block_bitmap_free,
LEMMA MovedFree ==
  ASSUME OneProgram, DTypes, NEW c, IsCore(c), c.ibits \subseteq core.ibits, NEW r, FreeBlocks(prog, c, r)
  PROVE  Moved
<1>1. CASE Freed(prog, c, r)
  <2>1. ASSUME Stop(prog, c) PROVE Moved
    <3>1. [c EXCEPT !.panic = TRUE].ibits = c.ibits
      BY DEF IsCore
    <3> QED BY <2>1, <3>1, MovedReturn DEF Stop
  <2>2. Close(c, r.h).ibits = c.ibits
    BY CloseBits
  <2>3. ASSUME Return(prog, Close(c, r.h)) PROVE Moved
    BY <2>2, <2>3, MovedReturn
  <2>4. ASSUME LookUp(prog, Close(c, r.h), r, "remove") PROVE Moved
    BY <2>2, <2>4, MovedLookUp
  <2> QED BY <1>1, <2>1, <2>3, <2>4 DEF Freed
<1>2. CASE \E b, k : Go(prog, [c EXCEPT !.used = @ \ {b}], "zero", [r EXCEPT !.off = k, !.b = b])
  <2>1. PICK b, k : Go(prog, [c EXCEPT !.used = @ \ {b}], "zero", [r EXCEPT !.off = k, !.b = b])
    BY <1>2
  <2>2. PICK x, q : x = [c EXCEPT !.used = @ \ {b}] /\ q = [r EXCEPT !.off = k, !.b = b]
    OBVIOUS
  <2>3. Go(prog, x, "zero", q) /\ "zero" \notin Syncs
    BY <2>1, <2>2 DEF Syncs
  <2>4. x.ibits \subseteq core.ibits
    BY <2>2 DEF IsCore
  <2> QED BY <2>3, <2>4, MovedGo
<1> QED BY <1>1, <1>2 DEF FreeBlocks

\* ... in inode_free,
LEMMA MovedInodeFree ==
  ASSUME OneProgram, DTypes, NEW c, IsCore(c), c.ibits \subseteq core.ibits, NEW r, NEW h,
         inode_free(prog, c, r, h)
  PROVE  Moved
<1>1. PICK x : x = [c EXCEPT !.ibits = @ \ {c.ino[h].i_no}]
  OBVIOUS
<1>2. IsCore(x) /\ x.ibits \subseteq core.ibits
  BY <1>1 DEF IsCore
<1>3. \E q : FreeBlocks(prog, x, q)
  BY <1>1 DEF inode_free
<1> QED BY <1>2, <1>3, MovedFree

\* ... in an inode_write that fails,
LEMMA MovedFailed ==
  ASSUME OneProgram, DTypes, NEW c, IsCore(c), c.ibits \subseteq core.ibits, NEW r, WriteFailed(prog, c, r)
  PROVE  Moved
BY MovedInodeFree, MovedReturn DEF WriteFailed

\* ... in one that begins,
LEMMA MovedWrite ==
  ASSUME OneProgram, DTypes, NEW c, IsCore(c), c.ibits \subseteq core.ibits, NEW r, NEW h, NEW o, NEW v,
         inode_write(prog, c, r, h, o, v)
  PROVE  Moved
<1>1. ASSUME NEW q, Go(prog, c, "lock", q) PROVE Moved
  BY <1>1, MovedGo DEF Syncs
<1> QED BY <1>1, MovedFailed DEF inode_write

\* ... and in a lookup that ends.
LEMMA MovedFound ==
  ASSUME OneProgram, DTypes, NEW c, IsCore(c), c.ibits \subseteq core.ibits, NEW r, NEW h,
         r.why \in {"open", "stat", "link", "unlink", "delete", "remove"}, Found(prog, c, r, h)
  PROVE  Moved
<1>1. IsCore(Close(c, h)) /\ Close(c, h).ibits \subseteq core.ibits
  BY CloseBits
<1>2. CASE r.why = "open"
  <2>1. PICK s : s = Least(FreeSlots(c))
    OBVIOUS
  <2>2. [c EXCEPT !.slots[s] = h].ibits = c.ibits
    BY DEF IsCore
  <2>3. Return(prog, c) \/ Return(prog, [c EXCEPT !.slots[s] = h])
    BY <1>2, <2>1 DEF Found
  <2> QED BY <2>2, <2>3, MovedReturn
<1>3. CASE r.why = "stat"
  BY <1>1, <1>3, MovedReturn DEF Found
<1>4. CASE r.why = "link"
  BY <1>1, <1>4, MovedInodeFree DEF Found
<1>5. CASE r.why = "unlink"
  <2>1. PICK v : v = [s \in Slots |-> IF c.slots[s] = h THEN NULL ELSE c.slots[s]]
    OBVIOUS
  <2>2. PICK x : x = [c EXCEPT !.slots = v]
    OBVIOUS
  <2>3. LookUp(prog, Close(x, h), r, "delete")
    BY <1>5, <2>1, <2>2 DEF Found
  <2>4. IsCore(x) /\ x.ibits = c.ibits
    BY <2>2 DEF IsCore
  <2>5. Close(x, h).ibits \subseteq core.ibits
    BY <2>4, CloseBits
  <2> QED BY <2>3, <2>5, MovedLookUp
<1>6. CASE r.why = "delete"
  BY <1>6, MovedInodeFree DEF Found
<1>7. CASE r.why = "remove"
  BY <1>1, <1>7, MovedWrite DEF Found
<1> QED BY <1>2, <1>3, <1>4, <1>5, <1>6, <1>7

\* The next access is not one of inode_sync: the nodes are as on disk.
LEMMA MovedNodes ==
  ASSUME at \notin Syncs, Moved, dsk'.itab = dsk.itab
  PROVE  \A i : Node(i)' = Node(i)
BY DEF Moved, Node

\* The steps of dir_look_up, and of calls that begin.
LEMMA MovedStep ==
  ASSUME OneProgram, DInv,
         Search(prog) \/ file_close(prog) \/ sys_write(prog) \/ Look(prog) \/ ReadInode(prog) \/ Scan(prog)
  PROVE  Moved /\ at \notin Syncs /\ dsk' = dsk
<1>1. DTypes /\ MemInv(core, Blocks) /\ IsCore(core) /\ core.ibits \subseteq core.ibits
  BY DEF DInv, MemInv
<1>2. CASE Search(prog)
  <2>1. \E r, w : LookUp(prog, core, r, w)
    BY <1>2 DEF Search
  <2> QED BY <1>1, <1>2, <2>1, MovedLookUp DEF Search, at, Syncs
<1>3. CASE file_close(prog)
  <2>1. PICK s \in Slots : Return(prog, [Close(core, core.slots[s]) EXCEPT !.slots[s] = NULL])
    BY <1>3 DEF file_close
  <2>2. IsCore(Close(core, core.slots[s])) /\ Close(core, core.slots[s]).ibits = core.ibits
    BY <1>1, CloseBits
  <2>3. [Close(core, core.slots[s]) EXCEPT !.slots[s] = NULL].ibits = core.ibits
    BY <2>2 DEF IsCore
  <2>4. Moved
    BY <1>1, <2>1, <2>3, MovedReturn
  <2> QED BY <1>3, <2>4 DEF file_close, at, Syncs
<1>4. CASE sys_write(prog)
  <2>1. \E r, h, d : inode_write(prog, core, r, h, 0, d)
    BY <1>4 DEF sys_write
  <2> QED BY <1>1, <1>4, <2>1, MovedWrite DEF sys_write, at, Syncs
<1>5. rq.why \in {"open", "stat", "link", "unlink", "delete", "remove"} \/ at \notin {"look", "open"}
  BY LookOps DEF DInv
<1>6. CASE Look(prog)
  <2>1. at = "look" /\ dsk' = dsk
    BY <1>6 DEF Look, at
  <2>2. \/ \E r : Go(prog, core, "open", r) \/ Go(prog, core, "look", r)
        \/ \E h : Found(prog, Again(core, h), rq, h)
        \/ NotFound(prog, core, rq)
    BY <1>6 DEF Look, rq
  <2>3. ASSUME NEW r, Go(prog, core, "open", r) \/ Go(prog, core, "look", r) PROVE Moved
    BY <1>1, <2>3, MovedGo DEF Syncs
  <2>4. ASSUME NEW h, Found(prog, Again(core, h), rq, h) PROVE Moved
    <3>1. IsCore(Again(core, h)) /\ Again(core, h).ibits = core.ibits
      <4>1. PICK v : v = [core.ino EXCEPT ![h].cnts = @ + 1]
        OBVIOUS
      <4>2. Again(core, h) = core \/ Again(core, h) = [core EXCEPT !.ino = v]
        BY <4>1 DEF Again
      <4>3. DOMAIN v = DOMAIN core.ino
        BY <4>1
      <4> QED BY <1>1, <4>2, <4>3 DEF IsCore
    <3> QED BY <1>1, <1>5, <2>1, <2>4, <3>1, MovedFound
  <2>5. ASSUME NotFound(prog, core, rq) PROVE Moved
    <3>1. [core EXCEPT !.panic = TRUE].ibits = core.ibits
      BY <1>1 DEF IsCore
    <3>2. \/ \E r : Go(prog, core, "scan", r)
          \/ Return(prog, core) \/ Return(prog, [core EXCEPT !.panic = TRUE])
      BY <2>5 DEF NotFound, Stop
    <3>3. "scan" \notin Syncs
      BY DEF Syncs
    <3> QED BY <1>1, <3>1, <3>2, <3>3, MovedGo, MovedReturn
  <2> QED BY <2>1, <2>2, <2>3, <2>4, <2>5 DEF Syncs
<1>7. CASE ReadInode(prog)
  <2>1. at = "open" /\ dsk' = dsk
    BY <1>7 DEF ReadInode, at
  <2>2. PICK ino, h : h = Fresh(core) /\ Found(prog, Push(core, ino), rq, h)
    BY <1>7 DEF ReadInode, rq
  <2>3. IsCore(Push(core, ino)) /\ Push(core, ino).ibits = core.ibits
    <3>1. PICK y : y = Push(core, ino)
      OBVIOUS
    <3>2. IsCore(y) /\ y.ibits = core.ibits
      BY <1>1, <3>1 DEF IsCore, Push
    <3> QED BY <3>1, <3>2
  <2>4. Moved
    BY <1>1, <1>5, <2>1, <2>2, <2>3, MovedFound
  <2> QED BY <2>1, <2>4 DEF Syncs
<1>8. CASE Scan(prog)
  <2>1. at = "scan" /\ dsk' = dsk
    BY <1>8 DEF Scan, at
  <2>2. \/ \E h, o, v : inode_write(prog, core, rq, h, o, v)
        \/ \E r : Go(prog, core, "scan", r)
    BY <1>8 DEF Scan, rq
  <2>3. ASSUME NEW r, Go(prog, core, "scan", r) PROVE Moved
    BY <1>1, <2>3, MovedGo DEF Syncs
  <2>4. ASSUME NEW h, NEW o, NEW v, inode_write(prog, core, rq, h, o, v) PROVE Moved
    BY <1>1, <2>4, MovedWrite
  <2> QED BY <2>1, <2>2, <2>3, <2>4 DEF Syncs
<1> QED BY <1>2, <1>3, <1>4, <1>6, <1>7, <1>8

-----------------------------------------------------------------------------
\* What the catalog sees of a step.
Refined == Typed' /\ (Catalog!Next \/ files' = files)

\* A step that moves on, and writes no block that is in use.
LEMMA MovedRefined ==
  ASSUME DInv, DInv', MapInv, MapInv', Typed, at \notin Syncs, Moved, dsk'.itab = dsk.itab,
         \A b \in core.used : dsk'.blk[b] = dsk.blk[b]
  PROVE  Refined
<1>1. \A i \in {ROOT} \cup Named : i \in core.ibits => Node(i)' = Node(i)
  BY MovedNodes
<1>2. core'.ibits \cap Named \subseteq core.ibits
  BY DEF Moved
<1> QED BY <1>1, <1>2, FrameStep DEF Refined

\* The inode of creat has no name when it gets its bit.
LEMMA CreateRefined ==
  ASSUME OneProgram, DInv, DInv', MapInv, MapInv', Typed, file_create(prog)
  PROVE  Refined
<1>1. PICK i, r : Go(prog, [core EXCEPT !.ibits = @ \cup {i}], "ibit", r) /\ i = Least(Inodes \ core.ibits)
  BY DEF file_create
<1>2. PICK x : x = [core EXCEPT !.ibits = @ \cup {i}]
  OBVIOUS
<1>3. x.ibits = core.ibits \cup {i}
  BY <1>2 DEF DInv, MemInv, IsCore
<1>4. core' = x /\ at' = "ibit" /\ at = "user" /\ dsk' = dsk
  BY <1>1, <1>2, GoLemma DEF DInv, DTypes, file_create, at
<1>5. Named \subseteq core.ibits
  <2>1. rq = NoReq
    BY <1>4 DEF DInv, CallInv, OpInv
  <2>2. dead = {}
    BY <2>1 DEF dead, NoReq
  <2> QED BY <2>2 DEF DInv, BitsInv, Named
<1>6. \A j : Node(j)' = Node(j)
  BY <1>4 DEF Node, Syncs
<1> QED BY <1>4, <1>5, <1>6, FrameStep DEF Refined

\* The catalog does not see the block bitmap,
LEMMA BitmapRefined ==
  ASSUME OneProgram, DInv, DInv', MapInv, MapInv', Typed, WriteBlockBitmap(prog)
  PROVE  Refined
<1>1. dsk' = [dsk EXCEPT !.used = core.used]
  BY DEF WriteBlockBitmap
<1>2. dsk'.itab = dsk.itab /\ dsk'.blk = dsk.blk
  BY <1>1 DEF DInv, DTypes
<1>3. DTypes /\ IsCore(core) /\ core.ibits \subseteq core.ibits
  BY DEF DInv, MemInv
<1>4. CASE at = "bbit" /\ Go(prog, core, "get", rq)
  <2>1. "get" \notin Syncs /\ at \notin Syncs
    BY <1>4 DEF Syncs
  <2>2. Moved
    BY <1>3, <1>4, <2>1, MovedGo
  <2> QED BY <1>2, <2>1, <2>2, MovedRefined
<1>5. CASE at = "zbit" /\ \E r : FreeBlocks(prog, core, r)
  <2>1. Moved
    BY <1>3, <1>5, MovedFree
  <2> QED BY <1>2, <1>5, <2>1, MovedRefined DEF Syncs
<1> QED BY <1>4, <1>5 DEF WriteBlockBitmap, at, rq

\* nor a block that is free,
LEMMA ZeroRefined ==
  ASSUME OneProgram, DInv, DInv', MapInv, MapInv', Typed, ZeroTheBlock(prog)
  PROVE  Refined
<1>1. at = "zero" /\ dsk' = [dsk EXCEPT !.blk[rq.b] = ZeroBlock] /\ Go(prog, core, "zbit", rq)
  BY DEF ZeroTheBlock, at, rq
<1>2. dsk'.itab = dsk.itab /\ \A b \in Blocks \ {rq.b} : dsk'.blk[b] = dsk.blk[b]
  BY <1>1 DEF DInv, DTypes, Blocks
<1>3. rq.b \notin core.used /\ core.used \subseteq Blocks
  BY <1>1 DEF DInv, DTypes, CallInv, ZeroInv, Zeroing
<1>4. at \notin Syncs /\ "zbit" \notin Syncs
  BY <1>1 DEF Syncs
<1>5. Moved
  BY <1>1, <1>4, MovedGo DEF DInv
<1> QED BY <1>2, <1>3, <1>4, <1>5, MovedRefined

\* nor the lock of an inode,
LEMMA LockRefined ==
  ASSUME OneProgram, DInv, DInv', MapInv, MapInv', Typed, Lock(prog)
  PROVE  Refined
<1>1. at = "lock" /\ dsk' = dsk
  BY DEF Lock, at
<1>2. DTypes /\ IsCore(core) /\ core.ibits \subseteq core.ibits
  BY DEF DInv, MemInv
<1>3. \/ WriteFailed(prog, core, rq)
      \/ \E r : Go(prog, core, "get", r)
      \/ \E b, r : Go(prog, [core EXCEPT !.used = @ \cup {b}], "bbit", r)
  BY DEF Lock, rq
<1>4. ASSUME NEW r, Go(prog, core, "get", r) PROVE Moved
  BY <1>2, <1>4, MovedGo DEF Syncs
<1>5. ASSUME NEW b, NEW r, Go(prog, [core EXCEPT !.used = @ \cup {b}], "bbit", r) PROVE Moved
  <2>1. PICK x : x = [core EXCEPT !.used = @ \cup {b}]
    OBVIOUS
  <2>2. x.ibits \subseteq core.ibits /\ "bbit" \notin Syncs
    BY <1>2, <2>1 DEF IsCore, Syncs
  <2> QED BY <1>2, <1>5, <2>1, <2>2, MovedGo
<1>6. Moved
  BY <1>2, <1>3, <1>4, <1>5, MovedFailed
<1> QED BY <1>1, <1>6, MovedRefined DEF Syncs

\* nor a read of a block,
LEMMA GetRefined ==
  ASSUME OneProgram, DInv, DInv', MapInv, MapInv', Typed, GetBlock(prog)
  PROVE  Refined
<1>1. PICK r : at = "get" /\ dsk' = dsk /\ Go(prog, core, "put", r)
  BY DEF GetBlock, at
<1>2. at \notin Syncs /\ "put" \notin Syncs
  BY <1>1 DEF Syncs
<1>3. Moved
  BY <1>1, <1>2, MovedGo DEF DInv
<1> QED BY <1>1, <1>2, <1>3, MovedRefined

\* The inode that creat makes has no name yet.
LEMMA InodeBitmapRefined ==
  ASSUME OneProgram, DInv, DInv', MapInv, MapInv', Typed, WriteInodeBitmap(prog)
  PROVE  Refined
<1>a. PICK i, h : i = rq.i /\ h = Fresh(core)
  OBVIOUS
<1>1. /\ at = "ibit" /\ dsk' = [dsk EXCEPT !.ibits = core.ibits]
      /\ \E r : Go(prog, Push(core, InMemory(i, 1, NewInode)), "iget", [r EXCEPT !.why = "new", !.new = h, !.h = h])
                /\ r = rq
  BY <1>a DEF WriteInodeBitmap, at, rq
<1>2. dsk'.itab = dsk.itab /\ dsk'.blk = dsk.blk
  BY <1>1 DEF DInv, DTypes
<1>3. rq.op = "creat" /\ mine = {i} /\ i \in Inodes /\ Find(core, i) = {}
  BY <1>1, <1>a DEF DInv, CallInv, OpInv, NewInv, mine, Syncs
<1>4. PICK x, q : x = Push(core, InMemory(i, 1, NewInode)) /\ q = [rq EXCEPT !.why = "new", !.new = h, !.h = h]
  OBVIOUS
<1>5. core' = x /\ at' = "iget" /\ rq' = q
  BY <1>1, <1>4, GoLemma DEF DInv, DTypes
<1>6. q.h = h
  BY <1>4 DEF DInv, DTypes, IsReq
<1>7. NewInode \in DiskInode(Blocks)
  BY Consts DEF NewInode, DiskInode
<1>8. x.ibits = core.ibits /\ x.ino[h].i_no = i
  BY <1>3, <1>4, <1>7, <1>a, PushLemma DEF DInv
<1>9. i \notin {ROOT} \cup Named
  BY <1>3 DEF DInv, BitsInv
<1>10. \A j \in {ROOT} \cup Named : Node(j)' = Node(j)
  BY <1>1, <1>2, <1>5, <1>6, <1>8, <1>9 DEF Node, Syncs
<1> QED BY <1>2, <1>5, <1>8, <1>10, FrameStep DEF Refined

\* nor one of the inode table.
LEMMA GetInodesRefined ==
  ASSUME OneProgram, DInv, DInv', MapInv, MapInv', Typed, GetInodes(prog)
  PROVE  Refined
<1>1. PICK v : at = "iget" /\ dsk' = dsk /\ Go(prog, core, "iput", WithBuf(rq, v))
  BY DEF GetInodes, at, rq, WithBuf
<1>2. core' = core /\ at' = "iput" /\ rq' = WithBuf(rq, v)
  BY <1>1, GoLemma DEF DInv, DTypes
<1>3. rq'.h = rq.h
  BY <1>2, ReqBuf DEF DInv, DTypes
<1>4. \A i : Node(i)' = Node(i)
  BY <1>1, <1>2, <1>3 DEF Node, Syncs
<1> QED BY <1>1, <1>2, <1>4, FrameStep DEF Refined

\* inode_sync makes the disk as memory.
LEMMA PutInodesRefined ==
  ASSUME OneProgram, DInv, DInv', MapInv, MapInv', Typed, PutInodes(prog)
  PROVE  Refined
<1>a. PICK i : i = core.ino[rq.h].i_no
  OBVIOUS
<1>1. at = "iput" /\ dsk' = [dsk EXCEPT !.itab = rq.buf]
  BY DEF PutInodes, at, rq
<1>2. dsk'.itab = rq.buf /\ dsk'.blk = dsk.blk
  BY <1>1 DEF DInv, DTypes
<1>3. rq.buf = [dsk.itab EXCEPT ![i] = Of(core.ino[rq.h])]
  BY <1>1, <1>a DEF DInv, CallInv, DirtyInv, Syncs
<1>4. core'.ibits = core.ibits /\ at' \notin Syncs
  <2>1. \/ LookUp(prog, core, rq, "link")
        \/ Return(prog, core)
        \/ \E s, n : Return(prog, [core EXCEPT !.slots[s] = n])
    BY DEF PutInodes, rq
  <2>2. DTypes /\ IsCore(core)
    BY DEF DInv, MemInv
  <2>3. ASSUME NEW c, NEW a, NEW r, Go(prog, c, a, r), c.ibits = core.ibits, a \in {"look", "user"}
        PROVE  core'.ibits = core.ibits /\ at' \notin Syncs
    BY <2>2, <2>3, GoLemma DEF DTypes, Syncs
  <2>4. ASSUME NEW s, NEW n, Return(prog, [core EXCEPT !.slots[s] = n])
        PROVE  core'.ibits = core.ibits /\ at' \notin Syncs
    <3>1. PICK x : x = [core EXCEPT !.slots[s] = n]
      OBVIOUS
    <3>2. x.ibits = core.ibits
      BY <2>2, <3>1 DEF IsCore
    <3> QED BY <2>3, <2>4, <3>1, <3>2 DEF Return
  <2> QED BY <2>1, <2>3, <2>4 DEF LookUp, Return
<1>5. \A j \in Inodes : Node(j)' = Node(j)
  <2> SUFFICES ASSUME NEW j \in Inodes PROVE Node(j)' = Node(j)
    OBVIOUS
  <2>1. Node(j)' = rq.buf[j]
    BY <1>2, <1>4 DEF Node
  <2>2. DOMAIN dsk.itab = Inodes
    BY DEF DInv, DTypes
  <2> QED BY <1>1, <1>3, <1>a, <2>1, <2>2 DEF Node, Syncs
<1>6. core.ibits \subseteq Inodes
  BY DEF DInv, DTypes
<1> QED BY <1>2, <1>4, <1>5, <1>6, FrameStep DEF Refined

-----------------------------------------------------------------------------
\* The inodes that inode_write leaves alone when it writes its block.
LEMMA PutOthers ==
  ASSUME OneProgram, DInv, PutBlock(prog)
  PROVE  /\ core'.ibits = core.ibits /\ at \notin Syncs /\ Known = core.ibits /\ rq.b \in Blocks
         /\ \A j \in Known : j # core.ino[rq.h].i_no =>
              /\ Node(j)' = Node(j) /\ Node(j) = dsk.itab[j] /\ Content(j)' = Content(j)
<1>a. PICK h, o, b, i : h = rq.h /\ o = rq.off /\ b = rq.b /\ i = core.ino[h].i_no
  OBVIOUS
<1>b. PICK k, m, n, v : /\ k = o \div PerBlock /\ m = o % PerBlock
                        /\ n = Max2(o + 1, core.ino[h].size) /\ v = SectorsWith(core.ino[h], k, b)
  OBVIOUS
<1>1. PutDone(h, o, b, k, m, i, n, v)
  BY <1>a, <1>b, PutFacts
<1>2. /\ rq' = rq /\ core'.ibits = core.ibits /\ core'.ino[h].i_no = i /\ dsk'.itab = dsk.itab
      /\ b \in Blocks /\ \A a \in Blocks \ {b} : dsk'.blk[a] = dsk.blk[a]
  BY <1>1 DEF PutDone
<1>3. /\ at \notin Syncs /\ taken = {} /\ \A j \in Known : j # i => b \notin BlocksOf(dsk.itab[j])
  BY <1>a, PutOwn
<1>4. ASSUME NEW j \in Known, j # i
      PROVE  Node(j)' = Node(j) /\ Node(j) = dsk.itab[j] /\ Content(j)' = Content(j)
  <2>1. Node(j)' = dsk.itab[j] /\ Node(j) = dsk.itab[j]
    BY <1>2, <1>3, <1>4, <1>a DEF Node
  <2>2. BlocksOf(Node(j)) \subseteq Blocks
    BY DEF DInv, OwnInv, DTypes
  <2>3. \A a \in BlocksOf(Node(j)) : dsk'.blk[a] = dsk.blk[a]
    BY <1>2, <1>3, <1>4, <2>1, <2>2
  <2>4. Node(j)' = Node(j)
    BY <2>1
  <2> QED BY <2>1, <2>3, <2>4, SameContent
<1> QED BY <1>2, <1>3, <1>4, <1>a DEF Known

\* creat: the name stands for an empty file.
LEMMA NameRefined ==
  ASSUME OneProgram, DInv, DInv', MapInv, MapInv', Typed, PutBlock(prog), Watch(ls), rq.op = "creat"
  PROVE  Refined
<1>a. PICK o, f, j : o = rq.off /\ f = rq.n /\ j = core.ino[rq.new].i_no
  OBVIOUS
<1>1. /\ Used' = Used \cup {o} /\ (\A c \in Used : Dir(c)' = Dir(c)) /\ Dir(o)' = Entry(f, j)
  BY <1>a, PutName
<1>2. /\ rq.h = ROOT /\ mine = {j} /\ dead = {} /\ ~HasName(f) /\ f \in Names /\ j \in Inodes /\ o \notin Used
  BY <1>a, PutRest
<1>3. core.ino[rq.h].i_no = ROOT
  BY <1>2 DEF DInv, MemInv
<1>4. /\ core'.ibits = core.ibits /\ Known = core.ibits /\ at \notin Syncs
      /\ \A x \in core.ibits : x # ROOT => Node(x) = dsk.itab[x] /\ Content(x)' = Content(x)
  BY <1>3, PutOthers
<1>5. j \in core.ibits /\ j \notin Named \cup {ROOT}
  BY <1>2 DEF DInv, BitsInv
<1>6. Content(j) = NULL
  <2>1. at = "put"
    BY DEF PutBlock, at
  <2>2. rq.new \in Files(core) /\ core.ino[rq.new] = InMemory(j, 1, NewInode)
    BY <1>a, <2>1 DEF DInv, CallInv, NewInv
  <2>3. Of(core.ino[rq.new]) = dsk.itab[j]
    BY <1>4, <1>a, <2>2 DEF DInv, SyncInv, Files
  <2>4. dsk.itab[j].size = 0
    BY <2>2, <2>3 DEF Of, InMemory, NewInode
  <2> QED BY <1>4, <1>5, <2>4 DEF Content
<1>7. \A c \in Used : Dir(c).i_no # ROOT /\ c # o
  BY <1>2, UsedLemma DEF DInv
<1>8. Entry(f, j).filename = f /\ Entry(f, j).i_no = j
  BY DEF Entry
<1>9. Typed'
  <2>1. \A c \in Used : Dir(c)'.i_no \in core'.ibits => Content(Dir(c).i_no)' \in Data \cup {NULL}
    <3> SUFFICES ASSUME NEW c \in Used, Dir(c)'.i_no \in core'.ibits
                 PROVE  Content(Dir(c).i_no)' \in Data \cup {NULL}
      OBVIOUS
    <3>1. PICK x : x = Dir(c).i_no
      OBVIOUS
    <3>2. x = Dir(c)'.i_no /\ x \in core.ibits /\ x # ROOT
      BY <1>1, <1>4, <1>7, <3>1
    <3>3. Content(x) \in Data \cup {NULL}
      BY <3>1, <3>2 DEF Typed
    <3> QED BY <1>4, <3>1, <3>2, <3>3
  <2>2. Content(j)' = NULL
    BY <1>4, <1>5, <1>6
  <2>3. Content(Dir(o).i_no)' \in Data \cup {NULL}
    BY <1>1, <1>8, <2>2
  <2> QED BY <1>1, <2>1, <2>3 DEF Typed
<1>10. \A n \in Names : n # f => Contents(n)' = Contents(n)
  <2> SUFFICES ASSUME NEW n \in Names, n # f PROVE Contents(n)' = Contents(n)
    OBVIOUS
  <2>1. CASE \E c \in Used : Dir(c).filename = n /\ Dir(c).i_no \in core.ibits
    <3>1. PICK c \in Used : Dir(c).filename = n /\ Dir(c).i_no \in core.ibits
      BY <2>1
    <3>2. PICK x : x = Dir(c).i_no
      OBVIOUS
    <3>3. x = Dir(c)'.i_no /\ x \in core.ibits /\ x # ROOT /\ c \in Used' /\ Dir(c)'.filename = n
          /\ Dir(c)'.i_no \in core'.ibits
      BY <1>1, <1>4, <1>7, <3>1, <3>2
    <3>4. Contents(n) = Content(x) /\ Contents(n)' = Content(x)'
      BY <3>1, <3>2, <3>3 DEF MapInv
    <3> QED BY <1>4, <3>3, <3>4
  <2>2. CASE ~Stands(n)
    <3>1. ~Stands(n)'
      BY <1>1, <1>4, <1>8, <2>2 DEF Stands
    <3> QED BY <2>2, <3>1 DEF MapInv
  <2> QED BY <2>1, <2>2 DEF Stands
<1>11. Contents(f) = "absent"
  BY <1>2 DEF MapInv, Stands, HasName
<1>12. Contents(f)' = NULL
  <2>1. o \in Used' /\ Dir(o)'.filename = f /\ Dir(o)'.i_no = j /\ j \in core'.ibits
    BY <1>1, <1>4, <1>5, <1>8
  <2>2. Contents(Dir(o).filename)' = Content(Dir(o).i_no)'
    BY <2>1 DEF MapInv
  <2> QED BY <1>4, <1>5, <1>6, <2>1, <2>2
<1>13. files' = [files EXCEPT ![f] = NULL] /\ files[f] = "absent"
  BY <1>2, <1>10, <1>11, <1>12 DEF files
<1>14. NULL # "absent"
  BY DirectoryAssumption
<1> QED BY <1>2, <1>9, <1>13, <1>14, CatalogStep DEF Refined

\* unlink: the name whose entry goes stands for nothing any more.
LEMMA HoleRefined ==
  ASSUME OneProgram, DInv, DInv', MapInv, MapInv', Typed, PutBlock(prog), Watch(ls), rq.op = "unlink"
  PROVE  Refined
<1>a. PICK o : o = rq.off
  OBVIOUS
<1>1. Used' = Used \ {o} /\ (\A c \in Used' : Dir(c)' = Dir(c))
  BY <1>a, PutHole
<1>2. rq.h = ROOT /\ o \in Used /\ Dir(o).filename = rq.n /\ dead = {rq.n}
  BY <1>a, PutRest
<1>3. core.ino[rq.h].i_no = ROOT
  BY <1>2 DEF DInv, MemInv
<1>4. /\ core'.ibits = core.ibits
      /\ \A x \in core.ibits : x # ROOT => Content(x)' = Content(x)
  BY <1>3, PutOthers
<1>5. Dir(o).i_no \notin core.ibits
  BY <1>2 DEF DInv, BitsInv
<1>6. \A c \in Used : Dir(c).i_no # ROOT
  BY UsedLemma DEF DInv
<1>7. Typed'
  <2> SUFFICES ASSUME NEW c \in Used', Dir(c)'.i_no \in core'.ibits
               PROVE  Content(Dir(c).i_no)' \in Data \cup {NULL}
    BY DEF Typed
  <2>1. PICK x : x = Dir(c).i_no
    OBVIOUS
  <2>2. x = Dir(c)'.i_no /\ x \in core.ibits /\ x # ROOT /\ c \in Used
    BY <1>1, <1>4, <1>6, <2>1
  <2>3. Content(x) \in Data \cup {NULL}
    BY <2>1, <2>2 DEF Typed
  <2> QED BY <1>4, <2>2, <2>3
<1>8. \A n \in Names : Contents(n)' = Contents(n)
  <2> SUFFICES ASSUME NEW n \in Names PROVE Contents(n)' = Contents(n)
    OBVIOUS
  <2>1. CASE \E c \in Used : Dir(c).filename = n /\ Dir(c).i_no \in core.ibits
    <3>1. PICK c \in Used : Dir(c).filename = n /\ Dir(c).i_no \in core.ibits
      BY <2>1
    <3>2. PICK x : x = Dir(c).i_no
      OBVIOUS
    <3>3. c \in Used' /\ x = Dir(c)'.i_no /\ x \in core.ibits /\ x # ROOT /\ Dir(c)'.filename = n
          /\ Dir(c)'.i_no \in core'.ibits
      BY <1>1, <1>4, <1>5, <1>6, <3>1, <3>2
    <3>4. Contents(n) = Content(x) /\ Contents(n)' = Content(x)'
      BY <3>1, <3>2, <3>3 DEF MapInv
    <3> QED BY <1>4, <3>3, <3>4
  <2>2. CASE ~Stands(n)
    <3>1. ~Stands(n)'
      BY <1>1, <1>4, <2>2 DEF Stands
    <3> QED BY <2>2, <3>1 DEF MapInv
  <2> QED BY <2>1, <2>2 DEF Stands
<1>9. files' = files
  BY <1>8 DEF files
<1> QED BY <1>7, <1>9 DEF Refined

-----------------------------------------------------------------------------
\* write: the file that is open has the new contents.
LEMMA ContentWritten ==
  ASSUME OneProgram, DInv, PutBlock(prog), rq.op = "write", NEW i, i = core.ino[rq.h].i_no
  PROVE  Content(i)' = rq.val /\ rq.val \in Data /\ i \in core.ibits \cap Named
<1>a. PICK h, b : h = rq.h /\ b = rq.b
  OBVIOUS
<1>b. PICK n, v : n = Max2(1, core.ino[h].size) /\ v = SectorsWith(core.ino[h], 0, b)
  OBVIOUS
<1>1. at = "put"
  BY DEF PutBlock, at
<1>2. rq.off = 0 /\ rq.val \in Data /\ h # ROOT /\ h \in core.open
  BY <1>1, <1>a DEF DInv, CallInv, WriteInv, Writing
<1>3. 0 \div PerBlock = 0 /\ 0 % PerBlock = 0 /\ 0 \in Sectors /\ 0 \in 0..PerBlock - 1
  BY Consts
<1>4. PutDone(h, 0, b, 0, 0, i, n, v)
  BY <1>2, <1>3, <1>a, <1>b, PutFacts
<1>5. /\ at' = "iget" /\ rq' = rq /\ core'.ino[h].i_no = i /\ Of(core'.ino[h]) = [size |-> n, sectors |-> v]
      /\ n \in Nat /\ n >= 1 /\ dsk'.blk[b] = [dsk.blk[b] EXCEPT ![0] = rq.val] /\ b \in Blocks
  BY <1>4 DEF PutDone
<1>6. Node(i)' = [size |-> n, sectors |-> v]
  BY <1>5, <1>a DEF Node, Syncs
<1>7. Node(i)'.size # 0 /\ Node(i)'.sectors[0] = b
  <2>1. core.ino[h].sectors \in [Sectors -> {0} \cup Blocks]
    BY <1>2 DEF DInv, MemInv, IsInode
  <2>2. v[0] = b
    BY <1>3, <1>b, <2>1 DEF SectorsWith
  <2> QED BY <1>5, <1>6, <2>2
<1>8. dsk'.blk[b][0] = rq.val
  <2>1. DOMAIN dsk.blk[b] = 0..PerBlock - 1
    BY <1>5 DEF DInv, DTypes
  <2> QED BY <1>3, <1>5, <2>1
<1>9. b # 0
  BY <1>5 DEF DInv, DTypes
<1>10. Content(i)' = rq.val
  BY <1>3, <1>7, <1>8, <1>9 DEF Content, Cell
<1>11. i \in core.ibits \cap Named
  <2>1. i \in core.ibits
    BY <1>1, <1>2, <1>a DEF DInv, BitsInv, Files, Zeroing
  <2>2. mine = {}
    BY PutRest
  <2>3. i # ROOT
    BY <1>2, <1>a DEF DInv, MemInv
  <2> QED BY <2>1, <2>2, <2>3 DEF DInv, BitsInv
<1> QED BY <1>2, <1>10, <1>11

\* write: the name of the file that is open stands for the new contents.
LEMMA ContentsRefined ==
  ASSUME OneProgram, DInv, DInv', MapInv, MapInv', Typed, PutBlock(prog), Watch(ls), rq.op = "write"
  PROVE  Refined
<1>1. PICK i : i = core.ino[rq.h].i_no
  OBVIOUS
<1>2. Content(i)' = rq.val /\ rq.val \in Data /\ i \in core.ibits \cap Named
  BY <1>1, ContentWritten
<1>3. Used' = Used /\ \A c \in Used : Dir(c)' = Dir(c)
  BY PutContents
<1>4. core'.ibits = core.ibits /\ \A x \in core.ibits : x # i => Content(x)' = Content(x)
  BY <1>1, PutOthers
<1>5. PICK c \in Used : Dir(c).i_no = i
  BY <1>2 DEF Named
<1>6. PICK n : n = Dir(c).filename
  OBVIOUS
<1>7. n \in Names /\ \A d \in Used : Dir(d).i_no = i => d = c
  BY <1>5, <1>6, UsedLemma DEF DInv, RootInv
<1>8. Contents(n) = Content(i) /\ Contents(n) \in Data \cup {NULL}
  BY <1>2, <1>5, <1>6 DEF MapInv, Typed
<1>9. Contents(n)' = rq.val
  <2>1. c \in Used' /\ Dir(c)'.i_no = i /\ Dir(c)'.filename = n /\ i \in core'.ibits
    BY <1>2, <1>3, <1>4, <1>5, <1>6
  <2> QED BY <1>2, <2>1 DEF MapInv
<1>10. \A m \in Names : m # n => Contents(m)' = Contents(m)
  <2> SUFFICES ASSUME NEW m \in Names, m # n PROVE Contents(m)' = Contents(m)
    OBVIOUS
  <2>1. CASE \E d \in Used : Dir(d).filename = m /\ Dir(d).i_no \in core.ibits
    <3>1. PICK d \in Used : Dir(d).filename = m /\ Dir(d).i_no \in core.ibits
      BY <2>1
    <3>2. PICK x : x = Dir(d).i_no
      OBVIOUS
    <3>3. x # i
      BY <1>6, <1>7, <3>1, <3>2
    <3>4. d \in Used' /\ x = Dir(d)'.i_no /\ x \in core.ibits /\ Dir(d)'.filename = m /\ Dir(d)'.i_no \in core'.ibits
      BY <1>3, <1>4, <3>1, <3>2
    <3>5. Contents(m) = Content(x) /\ Contents(m)' = Content(x)'
      BY <3>1, <3>2, <3>4 DEF MapInv
    <3> QED BY <1>4, <3>3, <3>4, <3>5
  <2>2. CASE ~Stands(m)
    <3>1. ~Stands(m)'
      BY <1>3, <1>4, <2>2 DEF Stands
    <3> QED BY <2>2, <3>1 DEF MapInv
  <2> QED BY <2>1, <2>2 DEF Stands
<1>11. Typed'
  <2> SUFFICES ASSUME NEW d \in Used', Dir(d)'.i_no \in core'.ibits
               PROVE  Content(Dir(d).i_no)' \in Data \cup {NULL}
    BY DEF Typed
  <2>1. PICK x : x = Dir(d).i_no
    OBVIOUS
  <2>2. d \in Used /\ x = Dir(d)'.i_no /\ x \in core.ibits
    BY <1>3, <1>4, <2>1
  <2>3. Content(x) \in Data \cup {NULL}
    BY <2>1, <2>2 DEF Typed
  <2>4. Content(x)' \in Data \cup {NULL}
    BY <1>2, <1>4, <2>2, <2>3
  <2> QED BY <2>2, <2>4
<1>12. files[n] # "absent" /\ files' = [files EXCEPT ![n] = rq.val]
  BY <1>7, <1>8, <1>9, <1>10, DirectoryAssumption DEF files
<1> QED BY <1>2, <1>7, <1>11, <1>12, CatalogStep DEF Refined

\* Each step of the program is one of the catalog, or none.
LEMMA StepRefined ==
  ASSUME OneProgram, DInv, DInv', MapInv, MapInv', Typed, Call(prog) \/ Access(prog), Watch(ls)
  PROVE  Refined
<1>1. CASE Search(prog) \/ file_close(prog) \/ sys_write(prog) \/ Look(prog) \/ ReadInode(prog) \/ Scan(prog)
  BY <1>1, MovedStep, MovedRefined
<1>2. CASE PutBlock(prog)
  <2>1. rq.op \in {"creat", "unlink", "write"}
    BY <1>2, PutRest
  <2> QED BY <1>2, <2>1, NameRefined, HoleRefined, ContentsRefined
<1> QED BY <1>1, <1>2, CreateRefined, BitmapRefined, ZeroRefined, LockRefined, GetRefined,
           InodeBitmapRefined, GetInodesRefined, PutInodesRefined DEF Call, Access

\* Nothing is read from a directory that has not changed.
LEMMA ListRefined ==
  ASSUME DInv, DInv', MapInv, MapInv', Typed, UNCHANGED <<core, dsk, pc, req>>
  PROVE  Refined
<1>1. \A i : Node(i)' = Node(i)
  BY DEF Node, at, rq
<1> QED BY <1>1, FrameStep DEF Refined

\* Each step is one of the catalog, or none.
LEMMA NextRefined ==
  ASSUME OneProgram, DInv, DInv', MapInv, MapInv', Typed, [Next]_vars
  PROVE  Typed' /\ [Catalog!Next]_files
<1>1. CASE List
  BY <1>1, ListRefined DEF List, sys_opendir, sys_readdir, sys_closedir, Refined
<1>2. CASE (\E p \in Procs : Call(p) \/ Access(p)) /\ Watch(ls)
  BY <1>2, ProgLemma, StepRefined DEF Refined
<1>3. CASE UNCHANGED vars
  BY <1>3, ListRefined DEF vars, Refined
<1> QED BY <1>1, <1>2, <1>3 DEF Next

\* There is no name at first.
LEMMA InitRefined ==
  ASSUME OneProgram, Init
  PROVE  Typed /\ Catalog!Init
<1>1. DInv /\ MapInv
  BY InitInv, MapLemma
<1>2. Used = {}
  <2>1. root.size = 2
    BY InitFacts
  <2> QED BY <2>1 DEF Used
<1>3. \A n \in Names : Contents(n) = "absent"
  BY <1>1, <1>2 DEF MapInv, Stands
<1> QED BY <1>2, <1>3 DEF Typed, Catalog!Init

\* The calls of fs/fs.c implement Catalog: creat, write and unlink each change what
\* one name stands for in one step between two accesses to the disk, and nothing
\* else does.
THEOREM DirectoryImplementsCatalog ==
  ASSUME OneProgram
  PROVE  Spec => ImplementsCatalog
<1>1. Init => Typed /\ Catalog!Init
  BY InitRefined
<1>2. DInv => MapInv
  BY MapLemma
<1>3. DInv /\ DInv' /\ MapInv /\ MapInv' /\ Typed /\ [Next]_vars => Typed' /\ [Catalog!Next]_files
  BY NextRefined
<1>4. Spec => []DInv
  BY DirectoryInvariant
<1> QED BY <1>1, <1>2, <1>3, <1>4, PTL DEF Spec, ImplementsCatalog, Catalog!Spec, files
=============================================================================
