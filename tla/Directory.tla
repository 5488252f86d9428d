----------------------------- MODULE Directory -----------------------------
(***************************************************************************)
(* Names, inodes and blocks: what creat, open, stat, close, write, unlink  *)
(* and readdir do to the root directory, the open inodes, the two bitmaps  *)
(* and the disk (fs/inode.c, fs/dir.c, fs/file.c, fs/fs.c).                *)
(*                                                                         *)
(* As in module Inode an access to the disk is one step, with the code     *)
(* from its return to the next access, and pc names the access that a      *)
(* process is waiting to make.  inode_read and inode_write of more than    *)
(* one block are the matter of module Inode; here they move one cell, a    *)
(* directory entry or the contents of a file, and PerBlock fill a block.   *)
(*                                                                         *)
(* An inode in memory has an address of its own (Handles), so that two     *)
(* copies of one inode can exist, and one that is freed can be followed.   *)
(***************************************************************************)
EXTENDS Integers

CONSTANTS
  Procs,     \* processes that change files
  Names, Data,
  NInodes,   \* MAX_FILES_PER_PART
  Sizes,     \* blocks that the partition may have
  PerBlock,
  NSectors,  \* blocks of an inode
  NSlots,    \* of file_table, without the standard ones
  NHandles,  \* inodes in memory
  MaxOpens,  \* bound: a file that is open so often is not opened again
  NULL

ASSUME DirectoryAssumption ==
  /\ Sizes \cup {NInodes, NSectors, NSlots, NHandles, MaxOpens} \subseteq Nat \ {0}
  /\ PerBlock \in Nat \ {0, 1} /\ NHandles >= NInodes
  /\ NULL \notin Procs \cup Names \cup Data \cup (0..NHandles - 1)
  /\ NULL \notin [filename : Names \cup {NULL}, i_no : 0..NInodes - 1]
  /\ "absent" \notin Data \cup {NULL}

VARIABLES
  core,    \* in memory: see Mount
  dsk,     \* on disk: see Formatted
  holder,  \* of the inode_lock of each inode in memory
  pc, req, \* where a process is in its call, and its locals
  ls       \* a process that runs ls, with the history of its listing

vars == <<core, dsk, holder, pc, req, ls>>

Inodes == 0..NInodes - 1
Blocks == DOMAIN dsk.blk     \* 0 is no block
Sectors == 0..NSectors - 1
Handles == 0..NHandles - 1
Slots == 1..NSlots
ROOT == 0                    \* the root directory, and its address

Least(S) == CHOOSE x \in S : \A y \in S : x <= y

ZeroBlock == [c \in 0..PerBlock - 1 |-> NULL]

NewInode == [size |-> 0, sectors |-> [s \in Sectors |-> 0]]

\* A directory entry.  f_type is not kept: an entry of no use is zero.
Entry(n, i) == [filename |-> n, i_no |-> i]

\* partition_format: the two bitmaps, the inode table and n blocks.
Formatted(n) ==
  [used |-> {1}, ibits |-> {ROOT},
   itab |-> [i \in Inodes |->
               IF i = ROOT THEN [NewInode EXCEPT !.size = 2, !.sectors[0] = 1]
                           ELSE NewInode],
   blk |-> [b \in 1..n |->
              IF b = 1 THEN [c \in 0..PerBlock - 1 |-> IF c < 2 THEN Entry(NULL, ROOT) ELSE NULL]
                       ELSE ZeroBlock]]

\* An inode in memory: i_no, i_open_cnts, and what is on disk too.
InMemory(i, n, ino) == [i_no |-> i, cnts |-> n, size |-> ino.size, sectors |-> ino.sectors]

\* mount_partition and filesys_init: the bitmaps are read, and the root
\* directory is open.  open is open_inodes, without the order that find_inode
\* goes by, ino the memory behind it.
Mount(d) ==
  [used |-> d.used, ibits |-> d.ibits,
   ino |-> [h \in Handles |-> IF h = ROOT THEN InMemory(ROOT, 1, d.itab[ROOT])
                                         ELSE InMemory(ROOT, 0, NewInode)],
   open |-> {ROOT},
   slots |-> [s \in Slots |-> NULL],
   panic |-> FALSE]

NoReq == [op |-> "", n |-> NULL, why |-> "", off |-> 0, slot |-> 0,
          h |-> 0, i |-> 0, new |-> 0, b |-> 0, val |-> NULL, buf |-> NULL]

NoListing == [st |-> "closed", pos |-> 0, there |-> {}, seen |-> {}, again |-> {}]

Init ==
  /\ \E n \in Sizes : dsk = Formatted(n)
  /\ core = Mount(dsk)
  /\ holder = [h \in Handles |-> NULL]
  /\ pc = [p \in Procs |-> "user"] /\ req = [p \in Procs |-> NoReq]
  /\ ls = NoListing

TypeOK ==
  LET Ino == [size : 0..PerBlock * NSectors, sectors : [Sectors -> {0} \cup Blocks]]
  IN  /\ core.used \subseteq Blocks /\ core.ibits \subseteq Inodes
      /\ core.open \subseteq Handles /\ core.slots \in [Slots -> Handles \cup {NULL}]
      /\ dsk.used \subseteq Blocks /\ dsk.ibits \subseteq Inodes
      /\ dsk.itab \in [Inodes -> Ino]
      /\ holder \in [Handles -> Procs \cup {NULL}]
      /\ \A p \in Procs : req[p].slot \in {0} \cup Slots /\ req[p].b \in {0} \cup Blocks
      /\ ls.again \subseteq ls.seen /\ ls.seen \subseteq ls.there /\ ls.there \subseteq Names

-----------------------------------------------------------------------------
\* Inodes in memory.

\* find_inode over open_inodes.
Find(c, i) == {h \in c.open : c.ino[h].i_no = i}

\* inode_open of an inode that is in memory.  The count of the root
\* directory, which only grows and which nothing reads, is left out.
Again(c, h) == IF h = ROOT THEN c ELSE [c EXCEPT !.ino[h].cnts = @ + 1]

\* kernel_alloc and list_push of an inode.
Fresh(c) == Least(Handles \ c.open)
Push(c, ino) == [c EXCEPT !.ino[Fresh(c)] = ino, !.open = @ \cup {Fresh(c)}]

\* inode_close.  The memory of a closed inode is given back.
Close(c, h) ==
  IF h = ROOT THEN c
  ELSE IF c.ino[h].cnts # 1 THEN [c EXCEPT !.ino[h].cnts = @ - 1]
  ELSE [c EXCEPT !.open = @ \ {h},
                 !.ino[h] = InMemory(ROOT, 0, NewInode)]

\* The cell that inode_read returns at off; an inode has no block for it: zero.
Cell(ino, off) ==
  LET b == ino.sectors[off \div PerBlock]
  IN  IF b = 0 THEN NULL ELSE dsk.blk[b][off % PerBlock]

FreeSlots(c) == {s \in Slots : c.slots[s] = NULL}

-----------------------------------------------------------------------------
\* What follows in a call, up to its next access to the disk.

Go(p, c, at, r) ==
  core' = c /\ pc' = [pc EXCEPT ![p] = at] /\ req' = [req EXCEPT ![p] = r]

Return(p, c) == Go(p, c, "user", NoReq)

Stop(p, c) == Return(p, [c EXCEPT !.panic = TRUE])

\* dir_look_up of r.n in the root directory; why says what it is for.
LookUp(p, c, r, why) == Go(p, c, "look", [r EXCEPT !.why = why, !.off = 0, !.buf = NULL])

\* inode_free after its blocks; then what create_file_or_directory or
\* delete_file_or_directory does.  The second inode_close of a freed inode
\* (inode.c:358) decrements the i_open_cnts of a free block, which the links of
\* the free list do not reach, and is not seen here.  Bound: the inodes in
\* memory fit in the kernel's first arena of their size, which the root's inode
\* keeps.  Behind it the free may have given back the page (memory.c:321), and
\* the decrement faults.
Freed(p, c, r) ==
  IF c.ino[r.h].cnts # 1 THEN Stop(p, c)
  ELSE IF r.op = "creat" THEN Return(p, Close(c, r.h))
  ELSE LookUp(p, Close(c, r.h), r, "remove")

\* The blocks of inode_free from the r.off-th; block_bitmap_free clears the bit.
\* Files are too short here to have an indirect block: inode_free reads it for
\* the blocks in it and leaves its own bit set (inode.c:295-301).
FreeBlocks(p, c, r) ==
  LET K == {k \in Sectors : k >= r.off /\ c.ino[r.h].sectors[k] # 0}
      b == c.ino[r.h].sectors[Least(K)]
  IN  IF K = {} THEN Freed(p, c, r)
      ELSE Go(p, [c EXCEPT !.used = @ \ {b}], "zero", [r EXCEPT !.off = Least(K), !.b = b])

inode_free(p, c, r, h) ==
  FreeBlocks(p, [c EXCEPT !.ibits = @ \ {c.ino[h].i_no}], [r EXCEPT !.h = h, !.off = 0])

\* A mistake: the inode is not given back.
Mut_WriteFailed(p, c, r) == Return(p, c)

\* inode_write has failed, in dir_link or in write.
WriteFailed(p, c, r) ==
  IF r.op = "creat" THEN inode_free(p, c, r, r.new) ELSE Return(p, c)

\* inode_write of one cell, up to lock_acquire.
inode_write(p, c, r, h, off, val) ==
  IF off >= PerBlock * NSectors THEN WriteFailed(p, c, r)
  ELSE Go(p, c, "lock", [r EXCEPT !.why = "write", !.h = h, !.off = off, !.val = val])

\* A mistake: sys_unlink does not close the inode.
Mut_Found(p, c, r, h) ==
  CASE r.why = "open" -> Return(p, c)
    [] r.why = "stat" -> Return(p, Close(c, h))
    [] r.why = "link" -> inode_free(p, Close(c, h), r, r.new)
    [] r.why = "unlink" -> LookUp(p, c, r, "delete")
    [] r.why = "delete" -> inode_free(p, c, r, h)
    [] r.why = "remove" -> inode_write(p, Close(c, h), r, ROOT, r.off, NULL)

\* dir_look_up has returned h, open.
Found(p, c, r, h) ==
  CASE r.why = "open" ->
         Return(p, IF FreeSlots(c) = {} THEN c ELSE [c EXCEPT !.slots[Least(FreeSlots(c))] = h])
    [] r.why = "stat" -> Return(p, Close(c, h))
    [] r.why = "link" -> inode_free(p, Close(c, h), r, r.new)
    [] r.why = "unlink" ->
         LookUp(p, Close([c EXCEPT !.slots = [s \in Slots |-> IF @[s] = h THEN NULL ELSE @[s]]], h),
                r, "delete")
    [] r.why = "delete" -> inode_free(p, c, r, h)
    [] r.why = "remove" -> inode_write(p, Close(c, h), r, ROOT, r.off, NULL)

\* dir_look_up has returned NULL.
NotFound(p, c, r) ==
  CASE r.why = "link" -> Go(p, c, "scan", [r EXCEPT !.off = 0])
    [] r.why = "remove" -> Stop(p, c)
    [] OTHER -> Return(p, c)

-----------------------------------------------------------------------------
\* Calls.

\* Bound: unlink only a file that nobody has open (the run files_unlink
\* shows what happens to one that is).
NotInMemory(n) ==
  \A h \in core.open : h # ROOT => \A c \in 0..core.ino[ROOT].size - 1 :
    Cell(core.ino[ROOT], c) # Entry(n, core.ino[h].i_no)

\* search_file: a name without a directory is looked up in the root.
Search(p) ==
  /\ pc[p] = "user"
  /\ \E n \in Names, op \in {"open", "stat", "unlink"} :
       /\ op = "open" => \A h \in Handles : core.ino[h].cnts < MaxOpens
       /\ op = "unlink" => NotInMemory(n)
       /\ LookUp(p, core, [NoReq EXCEPT !.op = op, !.n = n], op)
  /\ UNCHANGED <<dsk, holder>>

\* creat: a slot, and a bit for the inode.
file_create(p) ==
  /\ pc[p] = "user" /\ FreeSlots(core) # {} /\ core.ibits # Inodes
  /\ \E n \in Names : LET i == Least(Inodes \ core.ibits) IN
       Go(p, [core EXCEPT !.ibits = @ \cup {i}], "ibit",
          [NoReq EXCEPT !.op = "creat", !.n = n, !.slot = Least(FreeSlots(core)), !.i = i])
  /\ UNCHANGED <<dsk, holder>>

file_close(p) ==
  /\ pc[p] = "user"
  /\ \E s \in Slots \ FreeSlots(core) :
       Return(p, [Close(core, core.slots[s]) EXCEPT !.slots[s] = NULL])
  /\ UNCHANGED <<dsk, holder>>

\* write, at the start of the file.
sys_write(p) ==
  /\ pc[p] = "user"
  /\ \E s \in Slots \ FreeSlots(core), d \in Data :
       inode_write(p, core, [NoReq EXCEPT !.op = "write"], core.slots[s], 0, d)
  /\ UNCHANGED <<dsk, holder>>

-----------------------------------------------------------------------------
\* Accesses to the disk.

\* dir_look_up reads the next entry, under the lock of the directory.
Look(p) ==
  LET r == req[p]
      e == Cell(core.ino[ROOT], r.off)
  IN  /\ pc[p] = "look" /\ holder[ROOT] = NULL
      /\ IF e # NULL /\ e.filename = r.n
           THEN LET H == Find(core, e.i_no) IN
                IF H = {} THEN Go(p, core, "open", [r EXCEPT !.i = e.i_no])
                ELSE \E h \in H : Found(p, Again(core, h), r, h)
           ELSE IF r.off + 1 = core.ino[ROOT].size THEN NotFound(p, core, r)
           ELSE Go(p, core, "look", [r EXCEPT !.off = @ + 1])
      /\ UNCHANGED <<dsk, holder>>

\* inode_open reads the inode.
ReadInode(p) ==
  /\ pc[p] = "open"
  /\ Found(p, Push(core, InMemory(req[p].i, 1, dsk.itab[req[p].i])), req[p], Fresh(core))
  /\ UNCHANGED <<dsk, holder>>

\* dir_link looks for an entry of no use; without one it appends.
Scan(p) ==
  LET r == req[p]
      e == Entry(r.n, core.ino[r.new].i_no)
  IN  /\ pc[p] = "scan" /\ holder[ROOT] = NULL
      /\ IF Cell(core.ino[ROOT], r.off) = NULL THEN inode_write(p, core, r, ROOT, r.off, e)
         ELSE IF r.off + 1 = core.ino[ROOT].size THEN inode_write(p, core, r, ROOT, r.off + 1, e)
         ELSE Go(p, core, "scan", [r EXCEPT !.off = @ + 1])
      /\ UNCHANGED <<dsk, holder>>

\* A mistake: the bitmap stays in memory.
Mut_WriteInodeBitmap(p) ==
  /\ pc[p] = "ibit"
  /\ Go(p, Push(core, InMemory(req[p].i, 1, NewInode)), "iget",
        [req[p] EXCEPT !.why = "new", !.new = Fresh(core), !.h = Fresh(core)])
  /\ UNCHANGED <<dsk, holder>>

\* inode_alloc writes the bitmap, then inode_init.
WriteInodeBitmap(p) ==
  /\ pc[p] = "ibit"
  /\ dsk' = [dsk EXCEPT !.ibits = core.ibits]
  /\ Go(p, Push(core, InMemory(req[p].i, 1, NewInode)), "iget",
        [req[p] EXCEPT !.why = "new", !.new = Fresh(core), !.h = Fresh(core)])
  /\ UNCHANGED holder

\* lock_acquire of inode_write, and a block for the cell.
Lock(p) ==
  LET r == req[p]
      k == r.off \div PerBlock
      b == core.ino[r.h].sectors[k]
      new == Least(Blocks \ core.used)
  IN  /\ pc[p] = "lock" /\ holder[r.h] = NULL
      /\ IF b = 0 /\ core.used = Blocks
           THEN WriteFailed(p, core, r) /\ UNCHANGED holder
           ELSE /\ holder' = [holder EXCEPT ![r.h] = p]
                /\ IF b # 0 THEN Go(p, core, "get", [r EXCEPT !.b = b])
                   ELSE Go(p, [core EXCEPT !.used = @ \cup {new}], "bbit", [r EXCEPT !.b = new])
      /\ UNCHANGED dsk

\* block_bitmap_alloc and block_bitmap_free write the bitmap.
WriteBlockBitmap(p) ==
  /\ dsk' = [dsk EXCEPT !.used = core.used]
  /\ \/ pc[p] = "bbit" /\ Go(p, core, "get", req[p])
     \/ pc[p] = "zbit" /\ FreeBlocks(p, core, [req[p] EXCEPT !.off = @ + 1])
  /\ UNCHANGED holder

\* block_bitmap_free writes zeros.
ZeroTheBlock(p) ==
  /\ pc[p] = "zero"
  /\ dsk' = [dsk EXCEPT !.blk[req[p].b] = ZeroBlock]
  /\ Go(p, core, "zbit", req[p])
  /\ UNCHANGED holder

\* inode_write reads the block, and writes it.
GetBlock(p) ==
  /\ pc[p] = "get"
  /\ Go(p, core, "put", [req[p] EXCEPT !.buf = dsk.blk[req[p].b]])
  /\ UNCHANGED <<dsk, holder>>

PutBlock(p) ==
  LET r == req[p] IN
  /\ pc[p] = "put"
  /\ dsk' = [dsk EXCEPT !.blk[r.b] = [r.buf EXCEPT ![r.off % PerBlock] = r.val]]
  /\ Go(p, [core EXCEPT !.ino[r.h].size = IF r.off + 1 > @ THEN r.off + 1 ELSE @,
                        !.ino[r.h].sectors[r.off \div PerBlock] = r.b], "iget", r)
  /\ UNCHANGED holder

\* A mistake: the neighbours are not read first.
Mut_GetInodes(p) ==
  LET ino == core.ino[req[p].h] IN
  /\ pc[p] = "iget"
  /\ Go(p, core, "iput", [req[p] EXCEPT !.buf = [i \in Inodes |->
          IF i = ino.i_no THEN [size |-> ino.size, sectors |-> ino.sectors] ELSE NewInode]])
  /\ UNCHANGED <<dsk, holder>>

\* inode_sync reads the sectors of the inode and its neighbours ...
GetInodes(p) ==
  LET ino == core.ino[req[p].h] IN
  /\ pc[p] = "iget"
  /\ Go(p, core, "iput", [req[p] EXCEPT
          !.buf = [dsk.itab EXCEPT ![ino.i_no] = [size |-> ino.size, sectors |-> ino.sectors]]])
  /\ UNCHANGED <<dsk, holder>>

\* ... and writes them back: the end of inode_alloc, or of inode_write.
PutInodes(p) ==
  LET r == req[p] IN
  /\ pc[p] = "iput"
  /\ dsk' = [dsk EXCEPT !.itab = r.buf]
  /\ IF r.why = "new" THEN LookUp(p, core, r, "link") /\ UNCHANGED holder
     ELSE /\ holder' = [holder EXCEPT ![r.h] = NULL]
          /\ Return(p, IF r.op = "creat" THEN [core EXCEPT !.slots[r.slot] = r.new] ELSE core)

-----------------------------------------------------------------------------
\* ls: opendir of the root, readdir until NULL, closedir.

\* The names in the directory.
Present == {Cell(core.ino[ROOT], c).filename :
              c \in {c \in 0..core.ino[ROOT].size - 1 : Cell(core.ino[ROOT], c) # NULL}} \ {NULL}

\* History: of the names that have been there all the time, those that were
\* listed, and those that were listed again.
Watch(l) ==
  ls' = IF l.st = "open" THEN [l EXCEPT !.there = @ \cap Present', !.seen = @ \cap Present',
                                        !.again = @ \cap Present'] ELSE l

sys_opendir ==
  /\ ls.st = "closed" /\ UNCHANGED <<core, dsk, holder, pc, req>>
  /\ Watch([NoListing EXCEPT !.st = "open", !.there = Names])

\* A mistake: >= for >, the last entry is never read.
Mut_sys_readdir ==
  /\ ls.st = "open" /\ UNCHANGED <<core, dsk, holder, pc, req>>
  /\ IF ls.pos + 1 >= core.ino[ROOT].size THEN Watch([ls EXCEPT !.st = "end"])
     ELSE LET e == Cell(core.ino[ROOT], ls.pos)
              N == IF e = NULL THEN {} ELSE {e.filename} \cap ls.there
          IN  /\ holder[ROOT] = NULL
              /\ Watch([ls EXCEPT !.pos = @ + 1, !.seen = @ \cup N, !.again = @ \cup (N \cap ls.seen)])

sys_readdir ==
  /\ ls.st = "open" /\ UNCHANGED <<core, dsk, holder, pc, req>>
  /\ IF ls.pos + 1 > core.ino[ROOT].size THEN Watch([ls EXCEPT !.st = "end"])
     ELSE LET e == Cell(core.ino[ROOT], ls.pos)
              N == IF e = NULL THEN {} ELSE {e.filename} \cap ls.there
          IN  /\ holder[ROOT] = NULL
              /\ Watch([ls EXCEPT !.pos = @ + 1, !.seen = @ \cup N, !.again = @ \cup (N \cap ls.seen)])

sys_closedir ==
  /\ ls.st = "end" /\ ls' = NoListing
  /\ UNCHANGED <<core, dsk, holder, pc, req>>

List == sys_opendir \/ sys_readdir \/ sys_closedir

-----------------------------------------------------------------------------

Call(p) == Search(p) \/ file_create(p) \/ file_close(p) \/ sys_write(p)

Access(p) ==
  \/ Look(p) \/ ReadInode(p) \/ Scan(p) \/ WriteInodeBitmap(p) \/ Lock(p)
  \/ WriteBlockBitmap(p) \/ ZeroTheBlock(p) \/ GetBlock(p) \/ PutBlock(p)
  \/ GetInodes(p) \/ PutInodes(p)

\* A panic stops the machine.
Next ==
  /\ ~core.panic
  /\ List \/ ((\E p \in Procs : Call(p) \/ Access(p)) /\ Watch(ls))

Spec == Init /\ [][Next]_vars

-----------------------------------------------------------------------------
\* Properties.

\* The inode that a name has: in memory when it is open, else on disk.
Current(i) == IF Find(core, i) = {} THEN dsk.itab[i]
              ELSE core.ino[CHOOSE h \in Find(core, i) : TRUE]

BlocksOf(ino) == {ino.sectors[k] : k \in Sectors} \ {0}

\* The entries of a directory of that size and those sectors, without . and ..
Entries(ino) == {c \in 2..ino.size - 1 : Cell(ino, c) # NULL}

\* The inode is being deleted: inode_free has cleared its bit.
Dying(i) == i \notin core.ibits

\* What a restart would find on the disk between any two accesses, while no
\* file is being deleted: every entry has an inode of its own, with its bit
\* in the bitmap, and blocks of its own with theirs (inode_alloc before
\* dir_link, block_bitmap_alloc before inode_sync).
DiskConsistent ==
  LET root == dsk.itab[ROOT]
      i(c) == Cell(root, c).i_no
      E == {c \in Entries(root) : ~Dying(i(c))}
  IN  /\ BlocksOf(root) \subseteq dsk.used
      /\ \A c \in E :
           /\ i(c) \in dsk.ibits \ {ROOT}
           /\ BlocksOf(dsk.itab[i(c)]) \subseteq dsk.used \ BlocksOf(root)
           /\ dsk.itab[i(c)].size > 0 => dsk.itab[i(c)].sectors[0] # 0
           /\ \A d \in E \ {c} :
                /\ Cell(root, c).filename # Cell(root, d).filename /\ i(c) # i(d)
                /\ BlocksOf(dsk.itab[i(c)]) \cap BlocksOf(dsk.itab[i(d)]) = {}

\* Between calls the inodes that are taken are the root directory's and those
\* that have a name: a creat that fails half way gives back its inode, an
\* unlink takes name and inode.  And the blocks of each are marked and nobody
\* else's.  That every marked block is somebody's is not said: blocks do get
\* lost (inode.c:295).
InodesNamed ==
  (\A p \in Procs : pc[p] = "user") =>
    LET root == core.ino[ROOT]
        I == {ROOT} \cup {Cell(root, c).i_no : c \in Entries(root)}
    IN  /\ core.ibits = I
        /\ \A i \in I :
             /\ BlocksOf(Current(i)) \subseteq core.used
             /\ \A j \in I \ {i} : BlocksOf(Current(i)) \cap BlocksOf(Current(j)) = {}

\* A listing, made while others create and unlink files, has every name that
\* was there from its start to its end, and once: dir_unlink leaves a hole,
\* which dir_link fills, and neither moves an entry.
ListingComplete ==
  ls.st = "end" => ls.seen = ls.there /\ ls.again = {}

\* No call of a program that closes what it unlinks reaches a PANIC: that of
\* inode_free, for an inode that is open twice, and that of
\* delete_file_or_directory, for a name that is gone.
NoPanic == ~core.panic

\* The file system implements Catalog: each call changes what one name
\* stands for, in one step between two accesses to the disk, or nothing.
Contents(n) ==
  LET root == core.ino[ROOT]
      D == {Cell(root, c) : c \in 2..root.size - 1}
      I == {i \in core.ibits : Entry(n, i) \in D}
      ino == Current(CHOOSE i \in I : TRUE)
  IN  IF I = {} THEN "absent" ELSE IF ino.size = 0 THEN NULL ELSE Cell(ino, 0)

Catalog == INSTANCE Catalog WITH files <- [n \in Names |-> Contents(n)],
                                 Empty <- NULL, Absent <- "absent"

ImplementsCatalog == Catalog!Spec
=============================================================================
