-------------------------------- MODULE Inode --------------------------------
(***************************************************************************)
(* fs/inode.c: processes that read and write open files of one partition.  *)
(*                                                                         *)
(* A system call runs with interrupts off, so processes interleave where   *)
(* they sleep: at inode_lock and at every ide_read and ide_write.  An      *)
(* access to the disk is one step, in the order the channel's lock grants  *)
(* it; the code that runs from its return to the next access is part of    *)
(* the step.  pc names the access that a process is waiting to make.       *)
(* The power may go at any time; what is on disk is mounted again.         *)
(*                                                                         *)
(* A byte that p writes at position n of a file is the pair <<p, n>>, the  *)
(* number b in an indirect block <<NULL, b>>, and zeros are <<NULL, 0>>.   *)
(***************************************************************************)
EXTENDS Integers, Sequences, FiniteSets

CONSTANTS
  Procs, Inodes,
  BLOCK_SIZE,
  NDIRECT,     \* entries of i_sectors that are blocks of the file
  NINDIRECT,   \* block numbers in the indirect block
  NBlocks,     \* blocks of the partition
  Counts,      \* the count arguments of inode_read and inode_write
  Near,        \* the inodes in the two sectors inode_sync reads for an inode
  Tails,       \* whether writes end on a block boundary, see Loses
  NULL

ASSUME InodeAssumption ==
  /\ {BLOCK_SIZE, NDIRECT, NINDIRECT, NBlocks} \subseteq Nat \ {0}
  /\ Counts \subseteq Nat \ {0}
  /\ Near \in [Inodes -> SUBSET Inodes] /\ \A i \in Inodes : i \in Near[i]
  /\ Tails \in BOOLEAN /\ NULL \notin Procs

VARIABLES
  used, used_disk,  \* the block bitmap, in memory and on disk
  disk,             \* what each block holds
  itab,             \* the inode table on disk
  inode,            \* the inodes in memory
  holder,           \* of each inode_lock
  pc, req,          \* where a process is in its call, and its locals
  file              \* history: what completed writes have put in each file

vars == <<used, used_disk, disk, itab, inode, holder, pc, req, file>>

MAX_FILE_BLOCKS_CNT == NDIRECT + NINDIRECT
MAX_FILE_SIZE == MAX_FILE_BLOCKS_CNT * BLOCK_SIZE

Blocks == 1..NBlocks          \* 0 is no block
Offsets == 0..BLOCK_SIZE - 1
Positions == 0..MAX_FILE_SIZE - 1

Zero == <<NULL, 0>>
ZeroBlock == [c \in Offsets |-> Zero]
ZeroTable == [e \in 0..NINDIRECT - 1 |-> Zero]

NoReq == [i |-> NULL, pos |-> 0, count |-> 0, k |-> 0, blocks |-> <<>>,
          new |-> 0, buf |-> <<>>]

Reading == {"r_lock", "r_table", "r_block"}
Writing == {"w_lock", "w_ibit", "w_izero", "w_table", "w_bit", "w_get", "w_put",
            "i_get", "i_put", "w_last"}

DiskInode == [i_size: 0..MAX_FILE_SIZE, i_sectors: [0..NDIRECT -> 0..NBlocks]]

TypeOK ==
  /\ used \subseteq Blocks /\ used_disk \subseteq Blocks
  /\ DOMAIN disk = Blocks
  /\ itab \in [Inodes -> DiskInode] /\ inode \in [Inodes -> DiskInode]
  /\ holder \in [Inodes -> Procs \cup {NULL}]
  /\ pc \in [Procs -> {"user"} \cup Reading \cup Writing]
  /\ \A i \in Inodes : file[i] \in [Positions -> (Procs \X Positions) \cup {Zero}]

NewInode == [i_size |-> 0, i_sectors |-> [s \in 0..NDIRECT |-> 0]]

\* Empty files that are open; the block of the root directory is none of
\* Blocks.  A block is what a bit of the bitmap stands for.  The code has more
\* bits than the partition has sectors behind data_start_lba (fs.c:297), so
\* the last of them are sectors that are not the partition's; here they are
\* blocks like others, which nobody else writes.
Init ==
  /\ used = {} /\ used_disk = {}
  /\ disk = [b \in Blocks |-> ZeroBlock]
  /\ itab = [i \in Inodes |-> NewInode] /\ inode = itab
  /\ holder = [i \in Inodes |-> NULL]
  /\ pc = [p \in Procs |-> "user"]
  /\ req = [p \in Procs |-> NoReq]
  /\ file = [i \in Inodes |-> [n \in Positions |-> Zero]]

-----------------------------------------------------------------------------
(* Requests *)

Goto(p, l) == pc' = [pc EXCEPT ![p] = l]

block_idx_start(r) == r.pos \div BLOCK_SIZE

\* The index of the last block, block_idx_end - 1 in the code.
block_idx_last(r) == (r.pos + r.count - 1) \div BLOCK_SIZE

\* The positions of a request.
Span(r) == r.pos..r.pos + r.count - 1

\* Bytes that inode_write copies into block k: a request that goes beyond its
\* first block copies block_end_off bytes into its last.
Copied(r, k) ==
  LET off == r.pos % BLOCK_SIZE
      end == (r.pos + r.count) % BLOCK_SIZE
  IN  IF k = block_idx_start(r)
        THEN off..(IF k = block_idx_last(r) THEN off + r.count - 1
                                            ELSE BLOCK_SIZE - 1)
      ELSE IF k = block_idx_last(r) THEN 0..end - 1
      ELSE Offsets

\* The requests whose last block gets nothing: block_end_off is 0.
Loses(r) ==
  /\ block_idx_start(r) # block_idx_last(r)
  /\ (r.pos + r.count) % BLOCK_SIZE = 0

\* The blocks of a file, given its inode and its indirect block.
all_blocks(ino, table) ==
  [k \in 0..MAX_FILE_BLOCKS_CNT - 1 |->
     IF k < NDIRECT THEN ino.i_sectors[k] ELSE table[k - NDIRECT][2]]

\* The indirect block of an inode, on disk d.
TableOf(ino, d) ==
  IF ino.i_sectors[NDIRECT] = 0 THEN ZeroTable ELSE d[ino.i_sectors[NDIRECT]]

\* The byte at position n of a file with blocks bs, on disk d.
ByteAt(bs, d, n) ==
  LET b == bs[n \div BLOCK_SIZE]
  IN  IF b = 0 THEN Zero ELSE d[b][n % BLOCK_SIZE]

Content(ino, d, n) == ByteAt(all_blocks(ino, TableOf(ino, d)), d, n)

Leave(p) ==
  /\ holder' = [holder EXCEPT ![req[p].i] = NULL]
  /\ Goto(p, "user")
  /\ req' = [req EXCEPT ![p] = NoReq]

-----------------------------------------------------------------------------
(* inode_read *)

\* The size is looked at before the lock is taken.
inode_read(p, i, count, pos) ==
  /\ pc[p] = "user"
  /\ pos < inode[i].i_size
  /\ LET left == inode[i].i_size - pos
     IN  req' = [req EXCEPT ![p] = [NoReq EXCEPT
           !.i = i, !.pos = pos, !.count = IF count > left THEN left ELSE count]]
  /\ Goto(p, "r_lock")
  /\ UNCHANGED <<used, used_disk, disk, itab, inode, holder, file>>

ReadBlocks(p, table) ==
  /\ req' = [req EXCEPT ![p].blocks = all_blocks(inode[req[p].i], table),
                        ![p].k = block_idx_start(req[p])]
  /\ Goto(p, "r_block")

\* lock_acquire, by a process that found the lock free or waited for it.
ReadLock(p) ==
  LET i == req[p].i
  IN  /\ pc[p] = "r_lock" /\ holder[i] = NULL
      /\ holder' = [holder EXCEPT ![i] = p]
      /\ IF inode[i].i_sectors[NDIRECT] # 0
           THEN Goto(p, "r_table") /\ UNCHANGED req
           ELSE ReadBlocks(p, ZeroTable)
      /\ UNCHANGED <<used, used_disk, disk, itab, inode, file>>

ReadTable(p) ==
  /\ pc[p] = "r_table"
  /\ ReadBlocks(p, TableOf(inode[req[p].i], disk))
  /\ UNCHANGED <<used, used_disk, disk, itab, inode, holder, file>>

\* The bytes read are those ReadsBack speaks of.
ReadBlock(p) ==
  /\ pc[p] = "r_block"
  /\ IF req[p].k = block_idx_last(req[p])
       THEN Leave(p)
       ELSE /\ req' = [req EXCEPT ![p].k = @ + 1]
            /\ UNCHANGED <<pc, holder>>
  /\ UNCHANGED <<used, used_disk, disk, itab, inode, file>>

-----------------------------------------------------------------------------
(* inode_write *)

\* Bound: pos is at most i_size, as sys_lseek and the calls that succeed leave
\* it.  A call that fails adds -1 to it (fs.c:157, 186), from 0 to 2^32 - 1;
\* writes from there are left out.  So is write_buf, which is kernel memory,
\* and which the calls that fail do not give back (inode.c:206-210, 225-229).
inode_write(p, i, count, pos) ==
  LET r == [NoReq EXCEPT !.i = i, !.pos = pos, !.count = count,
                         !.k = pos \div BLOCK_SIZE]
  IN  /\ pc[p] = "user"
      /\ pos <= inode[i].i_size
      /\ pos + count <= MAX_FILE_SIZE
      /\ Tails \/ ~Loses(r)
      /\ req' = [req EXCEPT ![p] = r]
      /\ Goto(p, "w_lock")
      /\ UNCHANGED <<used, used_disk, disk, itab, inode, holder, file>>

\* The block of the first bit that is clear, for as long as there is one.
block_bitmap_alloc == CHOOSE b \in Blocks \ used : \A c \in Blocks \ used : b <= c

\* What a write that fails at block k has changed in the file.
Stored(p, k) ==
  LET r == req[p]
      bs == all_blocks(inode[r.i], TableOf(inode[r.i], disk))
  IN  {n \in Span(r) : /\ n < inode[r.i].i_size
                       /\ n \div BLOCK_SIZE < k /\ bs[n \div BLOCK_SIZE] # 0}

Record(p, ns) ==
  file' = [file EXCEPT ![req[p].i] =
             [n \in Positions |-> IF n \in ns THEN <<p, n>> ELSE @[n]]]

\* return -1: the blocks that were taken stay taken.
Fail(p, k) ==
  /\ Leave(p)
  /\ Record(p, Stored(p, k))
  /\ UNCHANGED used

\* A block of the file, with the bytes of r copied into what it held.
Merged(p, r, old) ==
  [c \in Offsets |->
     IF c \in Copied(r, r.k) THEN <<p, r.k * BLOCK_SIZE + c>> ELSE old[c]]

\* Mutant of ReadFirst: the last block is not read either.
Mut_ReadFirst(r) == r.k = block_idx_start(r)

\* A block that is neither the first nor the last is not read.
ReadFirst(r) == r.k \in {block_idx_start(r), block_idx_last(r)}

\* With block r.k known: to the ide_read of it or the ide_write of it.
Access(p, r) ==
  IF ReadFirst(r)
    THEN req' = [req EXCEPT ![p] = r] /\ Goto(p, "w_get")
    ELSE /\ req' = [req EXCEPT ![p] = [r EXCEPT !.buf = Merged(p, r, ZeroBlock)]]
         /\ Goto(p, "w_put")

\* The top of the loop.
Loop(p, r) ==
  \/ /\ r.blocks[r.k] # 0
     /\ Access(p, r)
     /\ UNCHANGED <<used, holder, file>>
  \/ /\ r.blocks[r.k] = 0 /\ used # Blocks
     /\ used' = used \cup {block_bitmap_alloc}
     /\ req' = [req EXCEPT ![p] = [r EXCEPT !.blocks[r.k] = block_bitmap_alloc]]
     /\ Goto(p, "w_bit")
     /\ UNCHANGED <<holder, file>>
  \/ /\ r.blocks[r.k] = 0 /\ used = Blocks
     /\ Fail(p, r.k)

WriteLock(p) ==
  LET r == req[p]
      i == r.i
      grows == inode[i].i_sectors[NDIRECT] = 0
               /\ r.pos + r.count > NDIRECT * BLOCK_SIZE
  IN  /\ pc[p] = "w_lock" /\ holder[i] = NULL
      /\ \/ /\ grows /\ used # Blocks
            /\ used' = used \cup {block_bitmap_alloc}
            /\ req' = [req EXCEPT ![p].new = block_bitmap_alloc]
            /\ Goto(p, "w_ibit")
            /\ holder' = [holder EXCEPT ![i] = p] /\ UNCHANGED file
         \/ grows /\ used = Blocks /\ Fail(p, r.k)
         \/ /\ ~grows
            /\ Goto(p, "w_table")
            /\ holder' = [holder EXCEPT ![i] = p] /\ UNCHANGED <<used, req, file>>
      /\ UNCHANGED <<used_disk, disk, itab, inode>>

\* ide_write of the bitmap, after which the indirect block is cleared.
IndirectBit(p) ==
  /\ pc[p] = "w_ibit"
  /\ used_disk' = used
  /\ Goto(p, "w_izero")
  /\ UNCHANGED <<used, disk, itab, inode, holder, req, file>>

IndirectClear(p) ==
  /\ pc[p] = "w_izero"
  /\ disk' = [disk EXCEPT ![req[p].new] = ZeroTable]
  /\ inode' = [inode EXCEPT ![req[p].i].i_sectors[NDIRECT] = req[p].new]
  /\ Goto(p, "w_table")
  /\ UNCHANGED <<used, used_disk, itab, holder, req, file>>

\* get_blocks_lba, which does not access the disk without an indirect block.
WriteTable(p) ==
  LET ino == inode[req[p].i]
  IN  /\ pc[p] = "w_table"
      /\ Loop(p, [req[p] EXCEPT !.blocks = all_blocks(ino, TableOf(ino, disk))])
      /\ UNCHANGED <<used_disk, disk, itab, inode>>

\* Mutant of WriteBit: the bitmap is changed in memory only.
Mut_WriteBit(p) ==
  /\ pc[p] = "w_bit"
  /\ Access(p, req[p])
  /\ UNCHANGED <<used, used_disk, disk, itab, inode, holder, file>>

WriteBit(p) ==
  /\ pc[p] = "w_bit"
  /\ used_disk' = used
  /\ Access(p, req[p])
  /\ UNCHANGED <<used, disk, itab, inode, holder, file>>

WriteGet(p) ==
  /\ pc[p] = "w_get"
  /\ req' = [req EXCEPT ![p].buf = Merged(p, req[p], disk[req[p].blocks[req[p].k]])]
  /\ Goto(p, "w_put")
  /\ UNCHANGED <<used, used_disk, disk, itab, inode, holder, file>>

\* Mutant of Written: the size is where the last write ended.
Mut_Written(ino, r) ==
  [i_size |-> r.pos + r.count,
   i_sectors |-> [s \in 0..NDIRECT |->
                    IF s < NDIRECT THEN r.blocks[s] ELSE ino.i_sectors[s]]]

\* The inode after the last block.
Written(ino, r) ==
  [i_size |-> IF r.pos + r.count > ino.i_size THEN r.pos + r.count ELSE ino.i_size,
   i_sectors |-> [s \in 0..NDIRECT |->
                    IF s < NDIRECT THEN r.blocks[s] ELSE ino.i_sectors[s]]]

WritePut(p) ==
  LET r == req[p]
  IN  /\ pc[p] = "w_put"
      /\ disk' = [disk EXCEPT ![r.blocks[r.k]] = r.buf]
      /\ \/ /\ r.k # block_idx_last(r)
            /\ Loop(p, [r EXCEPT !.k = @ + 1])
            /\ UNCHANGED inode
         \/ /\ r.k = block_idx_last(r)
            /\ inode' = [inode EXCEPT ![r.i] = Written(@, r)]
            /\ Goto(p, "i_get")
            /\ UNCHANGED <<used, holder, req, file>>
      /\ UNCHANGED <<used_disk, itab>>

\* inode_sync: the sectors of the inode table are read, and written back.
SyncGet(p) ==
  LET i == req[p].i
  IN  /\ pc[p] = "i_get"
      /\ req' = [req EXCEPT ![p].buf =
                   [j \in Near[i] |-> IF j = i THEN inode[i] ELSE itab[j]]]
      /\ Goto(p, "i_put")
      /\ UNCHANGED <<used, used_disk, disk, itab, inode, holder, file>>

Return(p) == Leave(p) /\ Record(p, Span(req[p]))

SyncPut(p) ==
  LET r == req[p]
  IN  /\ pc[p] = "i_put"
      /\ itab' = [j \in Inodes |-> IF j \in Near[r.i] THEN r.buf[j] ELSE itab[j]]
      /\ \/ /\ inode[r.i].i_sectors[NDIRECT] # 0
            /\ Goto(p, "w_last")
            /\ UNCHANGED <<holder, req, file>>
         \/ inode[r.i].i_sectors[NDIRECT] = 0 /\ Return(p)
      /\ UNCHANGED <<used, used_disk, disk, inode>>

\* all_blocks + 12 goes to the indirect block.
WriteLast(p) ==
  LET r == req[p]
  IN  /\ pc[p] = "w_last"
      /\ disk' = [disk EXCEPT ![inode[r.i].i_sectors[NDIRECT]] =
                    [e \in 0..NINDIRECT - 1 |-> <<NULL, r.blocks[NDIRECT + e]>>]]
      /\ Return(p)
      /\ UNCHANGED <<used, used_disk, itab, inode>>

-----------------------------------------------------------------------------
\* Power off and on: filesys_init reads the bitmap, inode_open the inodes.  Of a
\* file that was being written, file keeps what is on disk.
mount_partition ==
  /\ \E p \in Procs : pc[p] # "user"
  /\ used' = used_disk
  /\ inode' = itab
  /\ holder' = [i \in Inodes |-> NULL]
  /\ pc' = [p \in Procs |-> "user"]
  /\ req' = [p \in Procs |-> NoReq]
  /\ file' = [i \in Inodes |->
       IF \E p \in Procs : holder[i] = p /\ pc[p] \in Writing
         THEN [n \in Positions |->
                IF n < itab[i].i_size THEN Content(itab[i], disk, n) ELSE Zero]
         ELSE file[i]]
  /\ UNCHANGED <<used_disk, disk, itab>>

Step(p) ==
  \/ \E i \in Inodes, count \in Counts, pos \in Positions :
       inode_read(p, i, count, pos) \/ inode_write(p, i, count, pos)
  \/ ReadLock(p) \/ ReadTable(p) \/ ReadBlock(p)
  \/ WriteLock(p) \/ IndirectBit(p) \/ IndirectClear(p) \/ WriteTable(p)
  \/ WriteBit(p) \/ WriteGet(p) \/ WritePut(p)
  \/ SyncGet(p) \/ SyncPut(p) \/ WriteLast(p)

Next == (\E p \in Procs : Step(p)) \/ mount_partition

Spec == Init /\ [][Next]_vars

-----------------------------------------------------------------------------
(* Properties *)

\* A read returns what writes that returned have put in the file, whatever
\* others read, write or extend meanwhile and wherever the power went: at
\* each block that inode_read copies, the bytes are those of the file
\* (inode.c:144-153).
ReadsBack ==
  \A p \in Procs : pc[p] = "r_block" =>
    \A n \in Span(req[p]) : n \div BLOCK_SIZE = req[p].k =>
      ByteAt(req[p].blocks, disk, n) = file[req[p].i][n]

\* The blocks that hang on an inode.
InUse(bs, ino) == ({bs[k] : k \in DOMAIN bs} \cup {ino.i_sectors[NDIRECT]}) \ {0}

\* With those that its writer has added.
BlocksOf(i) ==
  InUse(all_blocks(inode[i], TableOf(inode[i], disk)), inode[i])
  \cup UNION {InUse(req[p].blocks, inode[i]) : p \in {q \in Procs : holder[i] = q}}

\* A block belongs to one file, and the bitmap says so; on disk the bitmap is
\* never behind the inode table, so that a block in use is not given to
\* another file after the power went (block_bitmap_alloc writes the bitmap
\* before inode_sync writes the inode).
BlocksOwned ==
  /\ \A i, j \in Inodes : i # j => BlocksOf(i) \cap BlocksOf(j) = {}
  /\ \A i \in Inodes :
       /\ BlocksOf(i) \subseteq used
       /\ InUse(all_blocks(itab[i], TableOf(itab[i], disk)), itab[i]) \subseteq used_disk

\* When nobody is in a file the disk has all of it, so that closing and opening
\* it loses nothing: inode_sync and the write of the indirect block come before
\* the lock is released (inode.c:257-263).
OnDisk ==
  \A i \in Inodes : holder[i] = NULL =>
    \A n \in Positions :
      file[i][n] # Zero =>
        n < itab[i].i_size /\ Content(itab[i], disk, n) = file[i][n]
=============================================================================
