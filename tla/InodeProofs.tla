---------------------------- MODULE InodeProofs ----------------------------
(***************************************************************************)
(* fs/inode.c, for any number of processes and open files, any sizes of    *)
(* blocks, inodes, indirect blocks and the partition: a read returns what  *)
(* completed writes stored, no block is given to two files, and a file     *)
(* nobody is in is on disk, with power failures at any access to the disk. *)
(*                                                                         *)
(* None of the three is inductive.  In the middle of a write the blocks    *)
(* of a file are partly in the inode, partly in the all_blocks of the      *)
(* writer, and a block that was just taken may be in one of the bitmaps    *)
(* only.  IInv says for every file which blocks are its own (Owns, Cur),   *)
(* that the table on disk is behind the one in memory and never            *)
(* contradicts it (Shape), and which bytes are already where they will be  *)
(* read (Bytes); CallInv says what the locals of a call know about that,   *)
(* at each access to the disk.  Blocks outside used_disk hold zeros, so a  *)
(* block that a crash takes back from a writer is as if it had never been  *)
(* written.                                                                *)
(***************************************************************************)
EXTENDS Inode, NaturalsInduction, WellFoundedInduction, TLAPS

\* The indices of a file's blocks, and what an indirect block can hold.
Index == 0..MAX_FILE_BLOCKS_CNT - 1
Tables == [0..NINDIRECT - 1 -> {NULL} \X (0..NBlocks)]

\* Where a writer is in the loop over the blocks, and behind it.
Looping == {"w_bit", "w_get", "w_put"}
Syncing == {"i_get", "i_put", "w_last"}
Storing == Looping \cup Syncing
\* Where a process holds the inode's lock.
Inside == {"r_table", "r_block", "w_ibit", "w_izero", "w_table"} \cup Storing

\* A record of the locals of a call, with all its fields.
IsReq(r) == r = [i |-> r.i, pos |-> r.pos, count |-> r.count, k |-> r.k,
                 blocks |-> r.blocks, new |-> r.new, buf |-> r.buf]

\* A request that stays within the largest file.
IsRequest(r) == /\ r.pos \in Nat /\ r.count \in Nat \ {0}
                /\ r.pos + r.count <= MAX_FILE_SIZE

\* The blocks of file i, as the inode in memory and the indirect block say.
Blk(i) == all_blocks(inode[i], TableOf(inode[i], disk))

\* File i has a writer in its loop or behind it.
Stores(i) == holder[i] # NULL /\ pc[holder[i]] \in Storing

\* The blocks of file i with those its writer has added.
Cur(i) == IF Stores(i) THEN req[holder[i]].blocks ELSE Blk(i)

\* The indirect block a writer has taken and not hung on the inode yet.
New(i) == IF holder[i] # NULL /\ pc[holder[i]] \in {"w_ibit", "w_izero"}
            THEN {req[holder[i]].new} ELSE {}

\* All the blocks that file i has.
Owns(i) == ({Cur(i)[k] : k \in Index} \cup {inode[i].i_sectors[NDIRECT]} \cup New(i)) \ {0}

\* The writer of file i has put its byte at position n in a block.
Done(i, n) ==
  Stores(i) /\ LET p == holder[i] IN
     n \in Span(req[p]) /\ (pc[p] \in Syncing \/ n \div BLOCK_SIZE < req[p].k)

\* What position n of file i must hold.
Want(i, n) == IF Done(i, n) THEN <<holder[i], n>> ELSE file[i][n]

\* Types, the two bitmaps, and that a block nobody has been given is zero.
ITypes ==
  /\ used \subseteq Blocks /\ used_disk \subseteq used
  /\ DOMAIN disk = Blocks /\ DOMAIN file = Inodes
  /\ itab \in [Inodes -> DiskInode] /\ inode \in [Inodes -> DiskInode]
  /\ holder \in [Inodes -> Procs \cup {NULL}]
  /\ pc \in [Procs -> {"user"} \cup Reading \cup Writing]
  /\ DOMAIN req = Procs
  /\ \A i \in Inodes : DOMAIN file[i] = Positions
  /\ \A b \in Blocks \ used_disk : disk[b] = ZeroBlock

\* The holder of an inode's lock is the one process inside the file.
LockInv ==
  /\ \A p \in Procs : pc[p] \in Inside => holder[req[p].i] = p
  /\ \A i \in Inodes : holder[i] # NULL => pc[holder[i]] \in Inside /\ req[holder[i]].i = i

\* The blocks of a file: the table on disk is behind the one in memory and
\* never says something else, no block hangs on a file twice, and both bitmaps
\* have the blocks that are in use.
Shape(i) ==
  /\ TableOf(inode[i], disk) \in Tables
  /\ \A s \in 0..NDIRECT : itab[i].i_sectors[s] \in {0, inode[i].i_sectors[s]}
  /\ itab[i].i_sectors[NDIRECT] = 0 => \A k \in Index : k >= NDIRECT => Blk(i)[k] = 0
  /\ Cur(i) \in [Index -> 0..NBlocks]
  /\ \A k \in Index : Blk(i)[k] \in {0, Cur(i)[k]}
  /\ \A k, l \in Index : Cur(i)[k] = Cur(i)[l] /\ Cur(i)[k] # 0 => k = l
  /\ \A k \in Index : Cur(i)[k] # 0 => Cur(i)[k] # inode[i].i_sectors[NDIRECT]
  /\ Owns(i) \subseteq used
  /\ InUse(Blk(i), inode[i]) \subseteq used_disk
  /\ \A n \in New(i) : n \notin {Cur(i)[k] : k \in Index} /\ inode[i].i_sectors[NDIRECT] = 0

\* The content of a file: every byte that was written is where the blocks say,
\* a block that is added holds nothing of the file yet, and the inode on disk is
\* the one in memory unless its writer is about to sync it.
Bytes(i) ==
  /\ \A n \in Positions : n < inode[i].i_size \/ Done(i, n) =>
        ByteAt(Cur(i), disk, n) = Want(i, n)
  /\ \A n \in Positions : n >= inode[i].i_size => file[i][n] = Zero
  /\ holder[i] # NULL /\ pc[holder[i]] \in Looping =>
       \A n \in Positions : n < inode[i].i_size /\ Blk(i)[n \div BLOCK_SIZE] = 0 => file[i][n] = Zero
  /\ ~(holder[i] # NULL /\ pc[holder[i]] \in {"i_get", "i_put"}) =>
       /\ itab[i].i_size = inode[i].i_size
       /\ \A s \in 0..NDIRECT - 1 : itab[i].i_sectors[s] = inode[i].i_sectors[s]

\* The locals of a call, by where it is.
CallInv(p) ==
  LET r == req[p]
      ino == inode[r.i]
  IN  /\ IsReq(r)
      /\ pc[p] # "user" => r.i \in Inodes /\ IsRequest(r)
      /\ pc[p] \in {"r_lock", "r_table", "w_lock", "w_ibit", "w_izero", "w_table"} =>
           r.blocks = <<>>
      /\ pc[p] \in Reading => r.pos + r.count <= ino.i_size
      /\ pc[p] = "r_block" => r.blocks = Blk(r.i) /\ r.k \in block_idx_start(r)..block_idx_last(r)
      /\ pc[p] \in Writing => /\ r.pos <= ino.i_size /\ ~Loses(r)
                              /\ r.k \in block_idx_start(r)..block_idx_last(r)
      /\ pc[p] \in {"w_lock", "w_ibit", "w_izero", "w_table"} => r.k = block_idx_start(r)
      /\ pc[p] \in {"w_ibit", "w_izero"} => r.new \in used
      /\ pc[p] = "w_izero" => r.new \in used_disk
      /\ pc[p] \in {"w_table"} \cup Storing /\ ino.i_sectors[NDIRECT] = 0 =>
           r.pos + r.count <= NDIRECT * BLOCK_SIZE
      /\ pc[p] \in Storing =>
           /\ r.blocks[r.k] # 0
           /\ \A l \in Index : r.blocks[l] # Blk(r.i)[l] => block_idx_start(r) <= l /\ l <= r.k
           /\ \A l \in Index : r.blocks[l] \in used_disk \cup {0} \/ (pc[p] = "w_bit" /\ l = r.k)
      /\ pc[p] = "w_put" => \A c \in Offsets :
           r.buf[c] = IF c \in Copied(r, r.k) THEN <<p, r.k * BLOCK_SIZE + c>>
                                              ELSE disk[r.blocks[r.k]][c]
      /\ pc[p] \in Syncing =>
           /\ r.k = block_idx_last(r)
           /\ \A s \in 0..NDIRECT - 1 : ino.i_sectors[s] = r.blocks[s]
           /\ r.pos + r.count <= ino.i_size
      /\ pc[p] = "i_put" => r.buf[r.i] = ino
      /\ pc[p] = "w_last" => itab[r.i] = ino /\ ino.i_sectors[NDIRECT] # 0

\* The inductive invariant: no two files have a block in common.
IInv ==
  /\ ITypes /\ LockInv
  /\ \A i \in Inodes : Shape(i) /\ Bytes(i)
  /\ \A p \in Procs : CallInv(p)
  /\ \A i, j \in Inodes : i # j => Owns(i) \cap Owns(j) = {}
-----------------------------------------------------------------------------
(* Positions, blocks and requests *)

\* The block size is positive.
LEMMA BlockSize == BLOCK_SIZE \in Nat \ {0}
BY InodeAssumption

\* A product of naturals.
LEMMA Product ==
  ASSUME NEW a \in Nat, NEW b \in Nat
  PROVE  a * b \in Nat
OBVIOUS

\* A position is its block's number and an offset in that block.
LEMMA DivMod ==
  ASSUME NEW n \in Nat
  PROVE  /\ n \div BLOCK_SIZE \in Nat /\ n % BLOCK_SIZE \in Offsets
         /\ n = (n \div BLOCK_SIZE) * BLOCK_SIZE + (n % BLOCK_SIZE)
<1>1. \A b \in Nat \ {0} : n \div b \in Nat /\ n % b \in 0..b - 1 /\ n = (n \div b) * b + (n % b)
  OBVIOUS
<1> QED BY <1>1, BlockSize DEF Offsets

\* The blocks of a file do not overlap.
LEMMA MulLemma ==
  ASSUME NEW k \in Nat, NEW l \in Nat, k < l
  PROVE  k * BLOCK_SIZE + BLOCK_SIZE <= l * BLOCK_SIZE
<1>1. \A b \in Nat \ {0} : k * b + b <= l * b
  <2> SUFFICES ASSUME NEW b \in Nat \ {0} PROVE k * b + b <= l * b
    OBVIOUS
  <2>1. PICK d \in Nat : l = k + 1 + d
    <3>1. l - k - 1 \in Nat /\ l = k + 1 + (l - k - 1)
      OBVIOUS
    <3> QED BY <3>1
  <2>2. l * b = k * b + b + d * b
    BY <2>1
  <2>3. d * b >= 0
    BY <2>1
  <2> QED BY <2>2, <2>3
<1> QED BY <1>1, BlockSize

\* A block's number and an offset are those of one position.
LEMMA Unique ==
  ASSUME NEW k \in Nat, NEW c \in Offsets
  PROVE  /\ k * BLOCK_SIZE + c \in Nat
         /\ (k * BLOCK_SIZE + c) \div BLOCK_SIZE = k
         /\ (k * BLOCK_SIZE + c) % BLOCK_SIZE = c
<1> DEFINE n == k * BLOCK_SIZE + c
           q == n \div BLOCK_SIZE
           m == n % BLOCK_SIZE
<1>1. n \in Nat /\ c \in Nat /\ c < BLOCK_SIZE
  BY BlockSize DEF Offsets
<1>2. q \in Nat /\ m \in Nat /\ m < BLOCK_SIZE /\ n = q * BLOCK_SIZE + m
  BY <1>1, DivMod, BlockSize DEF Offsets
<1>3. k * BLOCK_SIZE \in Nat /\ q * BLOCK_SIZE \in Nat
  BY <1>2, BlockSize
<1> HIDE DEF n, q, m
<1>4. n = k * BLOCK_SIZE + c
  BY DEF n
<1>5. ~(q < k)
  BY <1>1, <1>2, <1>3, <1>4, MulLemma, BlockSize
<1>6. ~(k < q)
  BY <1>1, <1>2, <1>3, <1>4, MulLemma, BlockSize
<1>7. q = k
  BY <1>2, <1>5, <1>6
<1>8. m = c
  BY <1>1, <1>2, <1>3, <1>4, <1>7
<1> QED BY <1>1, <1>7, <1>8 DEF n, q, m

\* A later position is in a later block, or the same.
LEMMA Mono ==
  ASSUME NEW m \in Nat, NEW n \in Nat, m <= n
  PROVE  m \div BLOCK_SIZE <= n \div BLOCK_SIZE
<1> DEFINE x == m \div BLOCK_SIZE
           y == n \div BLOCK_SIZE
           c == m % BLOCK_SIZE
           d == n % BLOCK_SIZE
<1>1. x \in Nat /\ y \in Nat /\ c \in 0..BLOCK_SIZE - 1 /\ d \in 0..BLOCK_SIZE - 1
  BY DivMod DEF Offsets
<1>2. m = x * BLOCK_SIZE + c /\ n = y * BLOCK_SIZE + d
  BY DivMod
<1>3. x * BLOCK_SIZE \in Nat /\ y * BLOCK_SIZE \in Nat
  BY <1>1, BlockSize
<1> HIDE DEF x, y, c, d
<1>4. ~(y < x)
  BY <1>1, <1>2, <1>3, MulLemma, BlockSize
<1>5. x <= y
  BY <1>1, <1>4
<1> QED BY <1>5 DEF x, y

\* Where the last block ends.
LEMMA Bound ==
  ASSUME NEW n \in Nat, NEW l \in Nat
  PROVE  n \div BLOCK_SIZE < l <=> n < l * BLOCK_SIZE
<1> DEFINE x == n \div BLOCK_SIZE
           c == n % BLOCK_SIZE
<1>1. x \in Nat /\ c \in 0..BLOCK_SIZE - 1
  BY DivMod DEF Offsets
<1>2. n = x * BLOCK_SIZE + c
  BY DivMod
<1>3. x * BLOCK_SIZE \in Nat /\ l * BLOCK_SIZE \in Nat
  BY <1>1, BlockSize
<1> HIDE DEF x, c
<1>4. x < l => n < l * BLOCK_SIZE
  BY <1>1, <1>2, <1>3, MulLemma, BlockSize
<1>5. l < x => ~(n < l * BLOCK_SIZE)
  BY <1>1, <1>2, <1>3, MulLemma, BlockSize
<1>6. l = x => ~(n < l * BLOCK_SIZE)
  BY <1>1, <1>2, <1>3
<1>7. x < l <=> n < l * BLOCK_SIZE
  BY <1>1, <1>4, <1>5, <1>6
<1> QED BY <1>7 DEF x

\* The sizes of a file, in blocks and in bytes.
LEMMA Sizes ==
  /\ NDIRECT \in Nat \ {0} /\ NINDIRECT \in Nat \ {0} /\ NBlocks \in Nat \ {0}
  /\ MAX_FILE_BLOCKS_CNT \in Nat /\ MAX_FILE_SIZE \in Nat
  /\ NDIRECT < MAX_FILE_BLOCKS_CNT
BY InodeAssumption DEF MAX_FILE_BLOCKS_CNT, MAX_FILE_SIZE

\* A position of the file is in one of its blocks.
LEMMA Place ==
  ASSUME NEW n \in Positions
  PROVE  /\ n \in Nat
         /\ n \div BLOCK_SIZE \in Index /\ n % BLOCK_SIZE \in Offsets
         /\ n = (n \div BLOCK_SIZE) * BLOCK_SIZE + (n % BLOCK_SIZE)
<1>1. n \in Nat /\ n < MAX_FILE_SIZE
  BY Sizes DEF Positions
<1>2. n \div BLOCK_SIZE < MAX_FILE_BLOCKS_CNT
  BY <1>1, Bound, Sizes DEF MAX_FILE_SIZE
<1> QED BY <1>1, <1>2, DivMod, Sizes DEF Index

\* The positions of a request are those in its blocks, first to last.
LEMMA SpanLemma ==
  ASSUME NEW r, IsRequest(r)
  PROVE  /\ block_idx_start(r) \in Index /\ block_idx_last(r) \in Index
         /\ block_idx_start(r) <= block_idx_last(r)
         /\ \A n \in Span(r) : /\ n \in Positions
                               /\ n \div BLOCK_SIZE \in block_idx_start(r)..block_idx_last(r)
<1>1. r.pos \in Nat /\ r.count \in Nat /\ r.count > 0 /\ r.pos + r.count <= MAX_FILE_SIZE
  BY DEF IsRequest
<1>2. r.pos \in Positions /\ r.pos + r.count - 1 \in Positions
  BY <1>1, Sizes DEF Positions
<1>3. block_idx_start(r) \in Index /\ block_idx_last(r) \in Index
  BY <1>2, Place DEF block_idx_start, block_idx_last
<1>4. block_idx_start(r) <= block_idx_last(r)
  BY <1>1, <1>2, Mono, Place DEF block_idx_start, block_idx_last
<1>5. ASSUME NEW n \in Span(r)
      PROVE  n \in Positions /\ n \div BLOCK_SIZE \in block_idx_start(r)..block_idx_last(r)
  <2>1. n \in Nat /\ r.pos <= n /\ n <= r.pos + r.count - 1
    BY <1>1 DEF Span
  <2>2. n \in Positions
    BY <1>1, <2>1, Sizes DEF Positions
  <2>3. n \div BLOCK_SIZE \in Index
    BY <2>2, Place
  <2>4. block_idx_start(r) <= n \div BLOCK_SIZE
    BY <1>1, <2>1, Mono DEF block_idx_start
  <2>5. n \div BLOCK_SIZE <= block_idx_last(r)
    BY <1>1, <1>2, <2>1, Mono, Place DEF block_idx_last
  <2> QED BY <2>2, <2>3, <2>4, <2>5, <1>3 DEF Index
<1> QED BY <1>3, <1>4, <1>5

\* The blocks of a request are blocks of the file.
LEMMA RangeLemma ==
  ASSUME NEW r, IsRequest(r)
  PROVE  /\ block_idx_start(r)..block_idx_last(r) \subseteq Index
         /\ Index \subseteq Nat
         /\ block_idx_start(r) \in Nat /\ block_idx_last(r) \in Nat
BY SpanLemma, Sizes DEF Index

\* What inode_write copies into a block is what the request asks for there,
\* except for a request that ends on a block boundary.
LEMMA CopiedLemma ==
  ASSUME NEW r, IsRequest(r), ~Loses(r),
         NEW k \in block_idx_start(r)..block_idx_last(r), NEW c \in Offsets
  PROVE  c \in Copied(r, k) <=> k * BLOCK_SIZE + c \in Span(r)
<1> DEFINE start == block_idx_start(r)
           last  == block_idx_last(r)
           off   == r.pos % BLOCK_SIZE
           end   == (r.pos + r.count) % BLOCK_SIZE
           n     == k * BLOCK_SIZE + c
<1>1. r.pos \in Nat /\ r.count \in Nat /\ r.count > 0
  BY DEF IsRequest
<1>2. start \in Nat /\ last \in Nat /\ k \in Nat /\ start <= k /\ k <= last
  BY SpanLemma DEF Index
<1>3. off \in 0..BLOCK_SIZE - 1 /\ r.pos = start * BLOCK_SIZE + off
  BY <1>1, DivMod DEF block_idx_start, Offsets
<1>4. PICK lo \in 0..BLOCK_SIZE - 1 : r.pos + r.count - 1 = last * BLOCK_SIZE + lo
  <2>1. r.pos + r.count - 1 \in Nat
    BY <1>1
  <2> QED BY <2>1, DivMod DEF block_idx_last, Offsets
<1>5. n \in Nat /\ c \in 0..BLOCK_SIZE - 1 /\ n \div BLOCK_SIZE = k
  BY <1>2, Unique DEF Offsets
<1>6. /\ start * BLOCK_SIZE \in Nat /\ last * BLOCK_SIZE \in Nat /\ k * BLOCK_SIZE \in Nat
      /\ BLOCK_SIZE \in Nat /\ BLOCK_SIZE > 0
  BY <1>2, BlockSize
<1>7. start # last => lo # BLOCK_SIZE - 1 /\ end = lo + 1
  <2> SUFFICES ASSUME start # last PROVE lo # BLOCK_SIZE - 1 /\ end = lo + 1
    OBVIOUS
  <2>1. end # 0
    BY DEF Loses
  <2>2. lo # BLOCK_SIZE - 1
    <3> SUFFICES ASSUME lo = BLOCK_SIZE - 1 PROVE FALSE
      OBVIOUS
    <3>1. r.pos + r.count = last * BLOCK_SIZE + BLOCK_SIZE
      BY <1>1, <1>2, <1>4, <1>6
    <3>2. last * BLOCK_SIZE + BLOCK_SIZE = (last + 1) * BLOCK_SIZE + 0
      BY <1>2, <1>6
    <3>3. end = 0
      BY <3>1, <3>2, <1>2, <1>6, Unique DEF Offsets
    <3> QED BY <2>1, <3>3
  <2>3. r.pos + r.count = last * BLOCK_SIZE + (lo + 1) /\ lo + 1 \in Offsets
    BY <1>1, <1>2, <1>4, <1>6, <2>2 DEF Offsets
  <2> QED BY <1>2, <2>2, <2>3, Unique
<1>a. Copied(r, k) = IF k = start
                        THEN off..(IF k = last THEN off + r.count - 1 ELSE BLOCK_SIZE - 1)
                        ELSE IF k = last THEN 0..end - 1 ELSE Offsets
  BY DEF Copied
<1>8. n \in Span(r) <=> r.pos <= n /\ n <= r.pos + r.count - 1
  BY <1>1, <1>5 DEF Span
<1> HIDE DEF start, last, off, end
<1>9. start < k => r.pos <= n
  BY <1>1, <1>2, <1>3, <1>5, <1>6, MulLemma
<1>10. k < last => n <= r.pos + r.count - 1
  BY <1>1, <1>2, <1>4, <1>5, <1>6, MulLemma
<1>11. k = start => (r.pos <= n <=> off <= c)
  BY <1>1, <1>2, <1>3, <1>5, <1>6
<1>12. k = last => (n <= r.pos + r.count - 1 <=> c <= lo)
  BY <1>1, <1>2, <1>4, <1>5, <1>6
<1>13. start = last => off + r.count - 1 = lo
  <2>1. ASSUME NEW a \in Int, NEW b \in Int, NEW x \in Int, NEW y \in Int, NEW z \in Int,
               a = z + x, a + b - 1 = z + y
        PROVE  x + b - 1 = y
    BY <2>1
  <2>2. start = last => r.pos + r.count - 1 = start * BLOCK_SIZE + lo
    BY <1>4
  <2>3. off \in Int /\ lo \in Int /\ r.pos \in Int /\ r.count \in Int /\ start * BLOCK_SIZE \in Int
    BY <1>1, <1>3, <1>6
  <2> QED BY <1>3, <2>1, <2>2, <2>3
<1> HIDE DEF n
<1>15. CASE k = start /\ k = last
  BY <1>1, <1>3, <1>5, <1>8, <1>11, <1>12, <1>13, <1>a, <1>15 DEF n
<1>16. CASE k = start /\ k # last
  <2>1. k < last
    BY <1>2, <1>16
  <2> QED BY <1>1, <1>3, <1>5, <1>6, <1>8, <1>10, <1>11, <1>a, <1>16, <2>1 DEF n
<1>17. CASE k # start /\ k = last
  <2>1. start < k
    BY <1>2, <1>17
  <2> QED BY <1>1, <1>4, <1>5, <1>7, <1>8, <1>9, <1>12, <1>a, <1>17, <2>1 DEF n
<1>18. CASE k # start /\ k # last
  <2>1. start < k /\ k < last
    BY <1>2, <1>18
  <2> QED BY <1>5, <1>8, <1>9, <1>10, <1>a, <1>18, <2>1 DEF n
<1> QED BY <1>15, <1>16, <1>17, <1>18

\* What an inode and an indirect block say.
LEMMA BlocksLemma ==
  ASSUME NEW ino \in DiskInode, NEW table \in Tables
  PROVE  /\ all_blocks(ino, table) \in [Index -> 0..NBlocks]
         /\ \A k \in Index : all_blocks(ino, table)[k] =
              IF k < NDIRECT THEN ino.i_sectors[k] ELSE table[k - NDIRECT][2]
         /\ ino.i_size \in 0..MAX_FILE_SIZE
         /\ \A s \in 0..NDIRECT : ino.i_sectors[s] \in 0..NBlocks
<1>1. /\ ino.i_size \in 0..MAX_FILE_SIZE
      /\ \A s \in 0..NDIRECT : ino.i_sectors[s] \in 0..NBlocks
  BY DEF DiskInode
<1>2. ASSUME NEW k \in Index
      PROVE  (IF k < NDIRECT THEN ino.i_sectors[k] ELSE table[k - NDIRECT][2]) \in 0..NBlocks
  <2>1. k \in Nat /\ k < NDIRECT + NINDIRECT
    BY Sizes DEF Index, MAX_FILE_BLOCKS_CNT
  <2>2. CASE k < NDIRECT
    BY <1>1, <2>1, <2>2, Sizes
  <2>3. CASE ~(k < NDIRECT)
    <3>1. k - NDIRECT \in 0..NINDIRECT - 1
      BY <2>1, <2>3, Sizes
    <3>2. table[k - NDIRECT] \in {NULL} \X (0..NBlocks)
      BY <3>1 DEF Tables
    <3> QED BY <2>3, <3>2
  <2> QED BY <2>2, <2>3
<1>3. all_blocks(ino, table) = [k \in Index |->
        IF k < NDIRECT THEN ino.i_sectors[k] ELSE table[k - NDIRECT][2]]
  BY DEF all_blocks, Index
<1> QED BY <1>1, <1>2, <1>3

\* The inodes of a file, and its blocks as numbers.
LEMMA FileTypes ==
  ASSUME IInv, NEW i \in Inodes
  PROVE  /\ inode[i] \in DiskInode /\ itab[i] \in DiskInode
         /\ inode[i].i_size \in Nat /\ itab[i].i_size \in Nat
         /\ \A s \in 0..NDIRECT : inode[i].i_sectors[s] \in 0..NBlocks
         /\ Blk(i) \in [Index -> 0..NBlocks] /\ Cur(i) \in [Index -> 0..NBlocks]
         /\ 0..NBlocks = Blocks \cup {0} /\ 0 \notin Blocks
         /\ NDIRECT \in 0..NDIRECT
<1>1. inode[i] \in DiskInode /\ itab[i] \in DiskInode
  BY DEF IInv, ITypes
<1>2. TableOf(inode[i], disk) \in Tables /\ Cur(i) \in [Index -> 0..NBlocks]
  BY DEF IInv, Shape
<1>3. Blk(i) \in [Index -> 0..NBlocks]
  BY <1>1, <1>2, BlocksLemma DEF Blk
<1>4. inode[i].i_size \in Nat /\ itab[i].i_size \in Nat
  BY <1>1, Sizes DEF DiskInode
<1>5. \A s \in 0..NDIRECT : inode[i].i_sectors[s] \in 0..NBlocks
  BY <1>1 DEF DiskInode
<1>6. 0..NBlocks = Blocks \cup {0} /\ 0 \notin Blocks /\ NDIRECT \in 0..NDIRECT
  BY Sizes DEF Blocks
<1> QED BY <1>1, <1>2, <1>3, <1>4, <1>5, <1>6

-----------------------------------------------------------------------------
(* What a step leaves alone *)

\* A file whose inode, blocks and lock are left alone, and whose writer stays
\* where it is.
LEMMA OtherFile ==
  ASSUME IInv, NEW j \in Inodes,
         inode'[j] = inode[j], itab'[j] = itab[j], file'[j] = file[j],
         holder'[j] = holder[j],
         holder[j] # NULL => pc'[holder[j]] = pc[holder[j]] /\ req'[holder[j]] = req[holder[j]],
         used \subseteq used', used_disk \subseteq used_disk',
         \A b \in Owns(j) : disk'[b] = disk[b]
  PROVE  /\ Blk(j)' = Blk(j) /\ Cur(j)' = Cur(j) /\ Owns(j)' = Owns(j)
         /\ Shape(j)' /\ Bytes(j)'
<1>1. Shape(j) /\ Bytes(j)
  BY DEF IInv
<1>2. inode[j].i_sectors[NDIRECT] \in Owns(j) \cup {0}
  BY DEF Owns
<1>3. TableOf(inode'[j], disk') = TableOf(inode[j], disk)
  BY <1>2 DEF TableOf
<1>4. Blk(j)' = Blk(j)
  BY <1>3 DEF Blk
<1>5. Stores(j)' = Stores(j) /\ New(j)' = New(j)
  BY DEF Stores, New
<1>6. Cur(j)' = Cur(j)
  BY <1>4, <1>5 DEF Cur, Stores
<1>7. Owns(j)' = Owns(j)
  BY <1>5, <1>6 DEF Owns
<1>8. \A n : Done(j, n)' = Done(j, n) /\ Want(j, n)' = Want(j, n)
  BY <1>5 DEF Done, Want, Stores
<1>9. ASSUME NEW n \in Positions
      PROVE  ByteAt(Cur(j)', disk', n) = ByteAt(Cur(j), disk, n)
  <2>1. n \div BLOCK_SIZE \in Index
    BY Place
  <2>2. Cur(j)[n \div BLOCK_SIZE] \in Owns(j) \cup {0}
    BY <2>1 DEF Owns
  <2> QED BY <1>6, <2>2 DEF ByteAt
<1>10. Shape(j)'
  BY <1>1, <1>3, <1>4, <1>5, <1>6, <1>7 DEF Shape, InUse
<1>11. Bytes(j)'
  BY <1>1, <1>4, <1>8, <1>9 DEF Bytes
<1> QED BY <1>4, <1>6, <1>7, <1>10, <1>11

\* A process that makes no step: the file it is in is left alone, or it waits
\* for the lock of one that only grows.
LEMMA OtherCall ==
  ASSUME IInv, NEW q \in Procs, pc'[q] = pc[q], req'[q] = req[q],
         used \subseteq used', used_disk \subseteq used_disk',
         pc[q] # "user" => inode'[req[q].i].i_size \in Nat
                           /\ inode'[req[q].i].i_size >= inode[req[q].i].i_size,
         pc[q] \in Inside =>
           /\ inode'[req[q].i] = inode[req[q].i] /\ itab'[req[q].i] = itab[req[q].i]
           /\ Blk(req[q].i)' = Blk(req[q].i)
           /\ \A b \in Owns(req[q].i) : disk'[b] = disk[b]
  PROVE  CallInv(q)'
<1> DEFINE r == req[q]
<1>1. CallInv(q)
  BY DEF IInv
<1>2. CASE pc[q] = "user"
  BY <1>1, <1>2 DEF CallInv, Reading, Writing, Storing, Looping, Syncing
<1>3. CASE pc[q] \in {"r_lock", "w_lock"}
  <2>1. r.i \in Inodes /\ IsRequest(r)
    BY <1>1, <1>3 DEF CallInv
  <2>2. inode[r.i].i_size \in Nat
    BY <2>1, FileTypes
  <2> QED BY <1>1, <1>3, <2>1, <2>2
          DEF CallInv, IsRequest, Reading, Writing, Storing, Looping, Syncing
<1>4. CASE pc[q] \in Inside
  <2>1. pc[q] # "user" /\ r.i \in Inodes
    BY <1>1, <1>4 DEF CallInv, Inside, Storing, Looping, Syncing
  <2>2. pc[q] = "w_put" => r.blocks[r.k] \in Owns(r.i)
    <3> SUFFICES ASSUME pc[q] = "w_put" PROVE r.blocks[r.k] \in Owns(r.i)
      OBVIOUS
    <3>1. holder[r.i] = q /\ q # NULL
      BY <1>4, InodeAssumption DEF IInv, LockInv
    <3>2. Cur(r.i) = r.blocks
      BY <3>1 DEF Cur, Stores, Storing, Looping
    <3>3. /\ IsRequest(r) /\ r.blocks[r.k] # 0
          /\ r.k \in block_idx_start(r)..block_idx_last(r)
      BY <1>1, <2>1 DEF CallInv, Writing, Storing, Looping
    <3>4. r.k \in Index
      BY <3>3, RangeLemma
    <3> QED BY <3>2, <3>3, <3>4 DEF Owns
  <2> HIDE DEF r
  <2>3. CallInv(q) /\ req'[q] = r /\ r = req[q]
    BY <1>1 DEF r
  <2> QED BY <1>4, <2>1, <2>2, <2>3 DEF CallInv
<1>5. pc[q] \in {"user"} \cup {"r_lock", "w_lock"} \cup Inside
  BY DEF IInv, ITypes, Reading, Writing, Inside, Storing, Looping, Syncing
<1> QED BY <1>2, <1>3, <1>4, <1>5

\* A step of p in the file i, of which it has the lock or which is free.
LEMMA OwnStep ==
  ASSUME IInv, NEW p \in Procs, NEW i \in Inodes,
         holder[i] \in {NULL, p}, pc[p] \in Inside => req[p].i = i,
         \A q \in Procs \ {p} : pc'[q] = pc[q] /\ req'[q] = req[q],
         \A j \in Inodes \ {i} : /\ inode'[j] = inode[j] /\ itab'[j] = itab[j]
                                 /\ file'[j] = file[j] /\ holder'[j] = holder[j],
         inode'[i].i_size >= inode[i].i_size,
         used \subseteq used', used_disk \subseteq used_disk',
         \A b \in Blocks \ Owns(i) : disk'[b] = disk[b],
         Owns(i)' \subseteq Owns(i) \cup (Blocks \ used),
         ITypes', LockInv', Shape(i)', Bytes(i)', CallInv(p)'
  PROVE  IInv'
<1>1. ASSUME NEW j \in Inodes \ {i}
      PROVE  /\ Blk(j)' = Blk(j) /\ Owns(j)' = Owns(j)
             /\ Shape(j)' /\ Bytes(j)'
             /\ \A b \in Owns(j) : disk'[b] = disk[b]
  <2>1. holder[j] # NULL => holder[j] \in Procs \ {p}
    BY DEF IInv, ITypes, LockInv
  <2>2. Owns(j) \subseteq Blocks /\ Owns(i) \cap Owns(j) = {}
    BY DEF IInv, ITypes, Shape
  <2>3. \A b \in Owns(j) : disk'[b] = disk[b]
    BY <2>2
  <2> QED BY <2>1, <2>3, OtherFile
<1>2. ASSUME NEW q \in Procs \ {p}
      PROVE  CallInv(q)'
  <2>1. pc[q] # "user" => req[q].i \in Inodes
    BY DEF IInv, CallInv
  <2>2. pc[q] \in Inside => holder[req[q].i] = q /\ pc[q] # "user"
    BY DEF IInv, LockInv, Inside, Storing, Looping, Syncing
  <2>3. pc[q] \in Inside => req[q].i \in Inodes \ {i}
    BY <2>1, <2>2, InodeAssumption
  <2>4. \A j \in Inodes : /\ inode[j].i_size \in Nat /\ inode'[j].i_size \in Nat
                          /\ inode'[j].i_size >= inode[j].i_size
    <3>1. \A j \in Inodes : inode[j].i_size \in Nat
      BY FileTypes
    <3>2. \A j \in Inodes : inode'[j].i_size \in Nat
      BY Sizes DEF ITypes, DiskInode
    <3>3. \A j \in Inodes : j = i \/ inode'[j] = inode[j]
      OBVIOUS
    <3> QED BY <3>1, <3>2, <3>3
  <2> QED BY <1>1, <2>1, <2>3, <2>4, OtherCall
<1>3. \A j, l \in Inodes : j # l => Owns(j)' \cap Owns(l)' = {}
  <2>1. \A j \in Inodes : Owns(j) \subseteq used
    BY DEF IInv, Shape
  <2>2. \A j, l \in Inodes : j # l => Owns(j) \cap Owns(l) = {}
    BY DEF IInv
  <2> QED BY <1>1, <2>1, <2>2
<1> QED BY <1>1, <1>2, <1>3 DEF IInv

\* A step of p outside every file.
LEMMA OuterStep ==
  ASSUME IInv, NEW p \in Procs, pc[p] \notin Inside, pc'[p] \notin Inside,
         UNCHANGED <<used, used_disk, disk, itab, inode, holder, file>>,
         \A q \in Procs \ {p} : pc'[q] = pc[q] /\ req'[q] = req[q],
         pc' \in [Procs -> {"user"} \cup Reading \cup Writing], DOMAIN req' = Procs,
         CallInv(p)'
  PROVE  IInv'
<1>1. \A j \in Inodes : holder[j] # NULL => holder[j] \in Procs \ {p}
  BY DEF IInv, ITypes, LockInv
<1>2. ASSUME NEW j \in Inodes
      PROVE  Blk(j)' = Blk(j) /\ Owns(j)' = Owns(j) /\ Shape(j)' /\ Bytes(j)'
  BY <1>1, OtherFile
<1>3. ASSUME NEW q \in Procs \ {p} PROVE CallInv(q)'
  <2>1. pc[q] # "user" => req[q].i \in Inodes
    BY DEF IInv, CallInv
  <2>2. pc[q] \in Inside => pc[q] # "user"
    BY DEF Inside, Storing, Looping, Syncing
  <2> QED BY <1>2, <2>1, <2>2, FileTypes, OtherCall
<1>4. ITypes'
  BY DEF IInv, ITypes
<1>5. LockInv'
  BY <1>1 DEF IInv, LockInv
<1> QED BY <1>2, <1>3, <1>4, <1>5 DEF IInv

(* The lock of an inode *)

\* A step of a holder that stays inside.
LEMMA StayLock ==
  ASSUME IInv, NEW p \in Procs, holder' = holder, pc[p] \in Inside, pc'[p] \in Inside,
         req'[p].i = req[p].i, \A q \in Procs \ {p} : pc'[q] = pc[q] /\ req'[q] = req[q]
  PROVE  LockInv' /\ req[p].i \in Inodes /\ holder[req[p].i] = p /\ p # NULL
<1>1. req[p].i \in Inodes
  BY DEF IInv, CallInv, Inside, Storing, Looping, Syncing
<1>2. holder \in [Inodes -> Procs \cup {NULL}]
  BY DEF IInv, ITypes
<1> QED BY <1>1, <1>2, InodeAssumption DEF IInv, LockInv

\* p takes the lock of inode i.
Takes(p, i) == holder' = [holder EXCEPT ![i] = p]

\* The other processes stay where they are.
Rest(p) == \A q \in Procs \ {p} : pc'[q] = pc[q] /\ req'[q] = req[q]

\* A step that takes the lock.
LEMMA TakeLock ==
  ASSUME IInv, NEW p \in Procs, NEW i \in Inodes, holder[i] = NULL,
         Takes(p, i), pc[p] \notin Inside, pc'[p] \in Inside,
         req'[p].i = i, Rest(p)
  PROVE  /\ LockInv' /\ holder'[i] = p /\ p # NULL
         /\ holder' \in [Inodes -> Procs \cup {NULL}]
         /\ \A j \in Inodes \ {i} : holder'[j] = holder[j]
<1>1. holder \in [Inodes -> Procs \cup {NULL}]
  BY DEF IInv, ITypes
<1>2. \A q \in Procs : pc[q] \in Inside => req[q].i \in Inodes /\ holder[req[q].i] = q
  BY DEF IInv, LockInv, CallInv, Inside, Storing, Looping, Syncing
<1>3. NULL \notin Procs
  BY InodeAssumption
<1>4. \A q \in Procs : pc'[q] \in Inside => holder'[req'[q].i] = q
  BY <1>1, <1>2, <1>3 DEF Takes, Rest
<1>5. \A j \in Inodes : holder'[j] # NULL => pc'[holder'[j]] \in Inside /\ req'[holder'[j]].i = j
  BY <1>1 DEF IInv, LockInv, Takes, Rest
<1> QED BY <1>1, <1>3, <1>4, <1>5 DEF LockInv, Takes, Rest

\* A step that leaves it.
LEMMA LeaveLock ==
  ASSUME IInv, NEW p \in Procs, NEW i \in Inodes, holder[i] \in {NULL, p}, req[p].i = i,
         holder' = [holder EXCEPT ![i] = NULL], pc'[p] = "user",
         \A q \in Procs \ {p} : pc'[q] = pc[q] /\ req'[q] = req[q]
  PROVE  /\ LockInv' /\ holder'[i] = NULL
         /\ holder' \in [Inodes -> Procs \cup {NULL}]
         /\ \A j \in Inodes \ {i} : holder'[j] = holder[j]
<1>1. holder \in [Inodes -> Procs \cup {NULL}]
  BY DEF IInv, ITypes
<1>2. \A q \in Procs : pc[q] \in Inside => req[q].i \in Inodes /\ holder[req[q].i] = q
  BY DEF IInv, LockInv, CallInv, Inside, Storing, Looping, Syncing
<1>3. NULL \notin Procs /\ "user" \notin Inside
  BY InodeAssumption DEF Inside, Storing, Looping, Syncing
<1>4. \A q \in Procs : pc'[q] \in Inside => holder'[req'[q].i] = q
  BY <1>1, <1>2, <1>3
<1>5. \A j \in Inodes : holder'[j] # NULL => pc'[holder'[j]] \in Inside /\ req'[holder'[j]].i = j
  BY <1>1 DEF IInv, LockInv
<1> QED BY <1>1, <1>4, <1>5 DEF LockInv

\* A step in a file by a process that has added no blocks to it: bits are set,
\* and nothing that hangs on the inode changes.
LEMMA BitsStep ==
  ASSUME IInv, NEW p \in Procs, NEW i \in Inodes,
         holder[i] \in {NULL, p}, pc[p] \in Inside => req[p].i = i,
         holder'[i] \in {NULL, p},
         used \subseteq used', used_disk \subseteq used_disk',
         UNCHANGED <<disk, itab, inode, file>>,
         \A q \in Procs \ {p} : pc'[q] = pc[q] /\ req'[q] = req[q],
         \A j \in Inodes \ {i} : holder'[j] = holder[j],
         pc[p] \notin Storing, pc'[p] \notin Storing,
         New(i)' \subseteq New(i) \cup (Blocks \ used), New(i)' \subseteq used',
         New(i)' # {} => inode[i].i_sectors[NDIRECT] = 0,
         ITypes', LockInv', CallInv(p)'
  PROVE  IInv'
<1>1. ~Stores(i) /\ ~Stores(i)'
  BY DEF Stores
<1>2. Blk(i)' = Blk(i) /\ Cur(i) = Blk(i) /\ Cur(i)' = Blk(i)
  BY <1>1 DEF Blk, Cur
<1>3. Owns(i)' \subseteq Owns(i) \cup (Blocks \ used)
  BY <1>2 DEF Owns
<1>4. \A n : Want(i, n) = file[i][n] /\ Want(i, n)' = file[i][n] /\ ~Done(i, n) /\ ~Done(i, n)'
  BY <1>1 DEF Want, Done
<1>5. Shape(i) /\ Bytes(i) /\ inode[i].i_size >= inode[i].i_size
  BY FileTypes DEF IInv
<1>6. Shape(i)'
  <2>1. Owns(i)' \subseteq used'
    BY <1>2, <1>5 DEF Owns, Shape
  <2>2. ASSUME NEW n \in New(i)'
        PROVE  n \notin {Cur(i)'[k] : k \in Index}
    <3>1. CASE n \in New(i)
      BY <1>2, <1>5, <3>1 DEF Shape
    <3>2. CASE n \in Blocks \ used
      <4>1. \A k \in Index : Cur(i)[k] \in Owns(i) \cup {0}
        BY DEF Owns
      <4>2. \A k \in Index : Cur(i)[k] \in used \cup {0}
        BY <1>5, <4>1 DEF Shape
      <4> QED BY <1>2, <3>2, <4>2, FileTypes
    <3> QED BY <3>1, <3>2
  <2> QED BY <1>1, <1>2, <1>5, <2>1, <2>2 DEF Shape, InUse
<1>7. Bytes(i)'
  <2>1. /\ ~(holder[i] # NULL /\ pc[holder[i]] \in {"i_get", "i_put"})
        /\ ~(holder'[i] # NULL /\ pc'[holder'[i]] \in {"i_get", "i_put"})
        /\ ~(holder'[i] # NULL /\ pc'[holder'[i]] \in Looping)
    BY DEF Storing, Looping, Syncing
  <2> QED BY <1>2, <1>4, <1>5, <2>1 DEF Bytes
<1> QED BY <1>3, <1>5, <1>6, <1>7, OwnStep

\* The same when the bitmaps are left alone too.
LEMMA IdleStep ==
  ASSUME IInv, NEW p \in Procs, NEW i \in Inodes,
         holder[i] \in {NULL, p}, pc[p] \in Inside => req[p].i = i,
         holder'[i] \in {NULL, p},
         UNCHANGED <<used, used_disk, disk, itab, inode, file>>,
         \A q \in Procs \ {p} : pc'[q] = pc[q] /\ req'[q] = req[q],
         \A j \in Inodes \ {i} : holder'[j] = holder[j],
         pc[p] \notin Storing \cup {"w_ibit", "w_izero"},
         pc'[p] \notin Storing \cup {"w_ibit", "w_izero"},
         holder' \in [Inodes -> Procs \cup {NULL}],
         pc' \in [Procs -> {"user"} \cup Reading \cup Writing], DOMAIN req' = Procs,
         LockInv', CallInv(p)'
  PROVE  IInv'
<1>1. New(i)' = {}
  BY DEF New
<1>2. ITypes'
  BY DEF IInv, ITypes
<1>3. used \subseteq used' /\ used_disk \subseteq used_disk' /\ UNCHANGED <<disk, itab, inode, file>>
  OBVIOUS
<1> QED BY <1>1, <1>2, <1>3, BitsStep

-----------------------------------------------------------------------------
(* inode_read *)

\* Requests are records: what an update leaves and what it sets.
Asks(i, pos, count) == [NoReq EXCEPT !.i = i, !.pos = pos, !.count = count]

\* Its counterpart for a write, which starts at block k.
AsksFrom(i, pos, count, k) == [NoReq EXCEPT !.i = i, !.pos = pos, !.count = count, !.k = k]

\* A request that has found its blocks and is at block k.
At(r, blocks, k) == [r EXCEPT !.blocks = blocks, !.k = k]

\* What a request holds when the call begins.
LEMMA AsksLemma ==
  ASSUME NEW i, NEW pos, NEW count, NEW k
  PROVE  /\ LET s == Asks(i, pos, count)
            IN  IsReq(s) /\ s.i = i /\ s.pos = pos /\ s.count = count /\ s.blocks = <<>>
         /\ LET s == AsksFrom(i, pos, count, k)
            IN  /\ IsReq(s) /\ s.i = i /\ s.pos = pos /\ s.count = count /\ s.k = k
                /\ s.blocks = <<>>
<1>1. ASSUME NEW s, s = Asks(i, pos, count)
      PROVE  IsReq(s) /\ s.i = i /\ s.pos = pos /\ s.count = count /\ s.blocks = <<>>
  BY <1>1 DEF IsReq, NoReq, Asks
<1>2. ASSUME NEW s, s = AsksFrom(i, pos, count, k)
      PROVE  /\ IsReq(s) /\ s.i = i /\ s.pos = pos /\ s.count = count /\ s.k = k
             /\ s.blocks = <<>>
  BY <1>2 DEF IsReq, NoReq, AsksFrom
<1> QED BY <1>1, <1>2

\* What it holds with the blocks known.
LEMMA AtLemma ==
  ASSUME NEW r, IsReq(r), NEW blocks, NEW k
  PROVE  LET s == At(r, blocks, k)
         IN  /\ IsReq(s) /\ s.i = r.i /\ s.pos = r.pos /\ s.count = r.count /\ s.k = k
             /\ s.blocks = blocks
<1>1. ASSUME NEW s, s = At(r, blocks, k)
      PROVE  /\ IsReq(s) /\ s.i = r.i /\ s.pos = r.pos /\ s.count = r.count /\ s.k = k
             /\ s.blocks = blocks
  BY <1>1 DEF IsReq, At
<1> QED BY <1>1

\* Only p moves.
LEMMA Moves ==
  ASSUME IInv, NEW p \in Procs, NEW l \in {"user"} \cup Reading \cup Writing, NEW r,
         Goto(p, l), req' = [req EXCEPT ![p] = r]
  PROVE  /\ pc'[p] = l /\ req'[p] = r
         /\ pc' \in [Procs -> {"user"} \cup Reading \cup Writing] /\ DOMAIN req' = Procs
         /\ \A q \in Procs \ {p} : pc'[q] = pc[q] /\ req'[q] = req[q]
BY DEF IInv, ITypes, Goto

\* The process that is in a file has its lock.
LEMMA Holds ==
  ASSUME IInv, NEW p \in Procs, pc[p] \in Inside
  PROVE  req[p].i \in Inodes /\ holder[req[p].i] = p /\ p # NULL
BY InodeAssumption DEF IInv, LockInv, CallInv, Inside, Storing, Looping, Syncing

(* inode_read *)

\* inode_read begins: the count is cut to what the file has.
LEMMA InodeReadStep ==
  ASSUME IInv, NEW p \in Procs, NEW i \in Inodes, NEW count \in Counts, NEW pos \in Positions,
         inode_read(p, i, count, pos)
  PROVE  IInv'
<1> DEFINE left == inode[i].i_size - pos
           c == IF count > left THEN left ELSE count
           r == Asks(i, pos, c)
<1>1. /\ pc[p] = "user" /\ Goto(p, "r_lock") /\ req' = [req EXCEPT ![p] = r]
      /\ pos < inode[i].i_size
      /\ UNCHANGED <<used, used_disk, disk, itab, inode, holder, file>>
  BY DEF inode_read, Asks
<1>2. /\ pc'[p] = "r_lock" /\ req'[p] = r
      /\ pc' \in [Procs -> {"user"} \cup Reading \cup Writing] /\ DOMAIN req' = Procs
      /\ \A q \in Procs \ {p} : pc'[q] = pc[q] /\ req'[q] = req[q]
  <2> HIDE DEF r
  <2> QED BY <1>1, Moves DEF Reading
<1>3. c \in Nat \ {0} /\ pos \in Nat /\ pos + c <= inode[i].i_size /\ pos + c <= MAX_FILE_SIZE
  <2>1. count \in Nat \ {0} /\ pos \in Nat /\ inode[i].i_size \in Nat
    BY FileTypes, Place, InodeAssumption
  <2>2. inode[i].i_size <= MAX_FILE_SIZE
    BY Sizes DEF IInv, ITypes, DiskInode
  <2> QED BY <1>1, <2>1, <2>2, Sizes
<1>4. IsReq(r) /\ r.i = i /\ r.pos = pos /\ r.count = c /\ r.blocks = <<>>
  BY AsksLemma
<1>5. CallInv(p)'
  <2>1. inode' = inode
    BY <1>1
  <2>2. IsRequest(r)
    BY <1>3, <1>4 DEF IsRequest
  <2> HIDE DEF r, c
  <2> QED BY <1>2, <1>3, <1>4, <2>1, <2>2
          DEF CallInv, Reading, Writing, Storing, Looping, Syncing
<1>6. "user" \notin Inside /\ "r_lock" \notin Inside
  BY DEF Inside, Storing, Looping, Syncing
<1> QED BY <1>1, <1>2, <1>5, <1>6, OuterStep

\* The step into the lock, or onto the next block: nothing but p moves.
LEMMA ReadStep ==
  ASSUME IInv, NEW p \in Procs, NEW i \in Inodes, req[p].i = i,
         pc[p] \in Reading, holder[i] \in {NULL, p},
         pc[p] = "r_lock" => holder[i] = NULL,
         holder' = [holder EXCEPT ![i] = p],
         UNCHANGED <<used, used_disk, disk, itab, inode, file>>,
         \A q \in Procs \ {p} : pc'[q] = pc[q] /\ req'[q] = req[q],
         pc' \in [Procs -> {"user"} \cup Reading \cup Writing], DOMAIN req' = Procs,
         pc'[p] \in {"r_table", "r_block"}, IsReq(req'[p]), req'[p].i = i,
         req'[p].pos = req[p].pos, req'[p].count = req[p].count,
         pc'[p] = "r_table" => req'[p].blocks = <<>>,
         pc'[p] = "r_block" =>
           /\ req'[p].blocks = Blk(i)
           /\ req'[p].k \in block_idx_start(req[p])..block_idx_last(req[p])
  PROVE  IInv'
<1>1. CallInv(p)'
  <2>1. /\ IsRequest(req[p]) /\ req[p].pos + req[p].count <= inode[i].i_size
    BY DEF IInv, CallInv, Reading
  <2>2. Blk(i)' = Blk(i) /\ inode'[i] = inode[i]
    BY DEF Blk
  <2>3. /\ IsRequest(req'[p]) /\ block_idx_start(req'[p]) = block_idx_start(req[p])
        /\ block_idx_last(req'[p]) = block_idx_last(req[p])
    BY <2>1 DEF IsRequest, block_idx_start, block_idx_last
  <2> QED BY <2>1, <2>2, <2>3 DEF CallInv, Reading, Writing, Storing, Looping, Syncing
<1>2. pc'[p] \in Inside /\ (pc[p] \in Inside \/ pc[p] = "r_lock")
  BY DEF Inside, Reading
<1>3. "r_lock" \notin Inside
  BY DEF Inside, Storing, Looping, Syncing
<1>4. /\ LockInv' /\ holder'[i] = p /\ holder' \in [Inodes -> Procs \cup {NULL}]
      /\ \A j \in Inodes \ {i} : holder'[j] = holder[j]
  <2>1. CASE pc[p] = "r_lock"
    BY <1>2, <1>3, <2>1, TakeLock DEF Takes, Rest
  <2>2. CASE pc[p] \in Inside
    <3>1. holder[i] = p /\ holder \in [Inodes -> Procs \cup {NULL}]
      BY <2>2, Holds DEF IInv, ITypes
    <3>2. holder' = holder
      BY <3>1
    <3> QED BY <1>2, <2>2, <3>1, <3>2, StayLock
  <2> QED BY <1>2, <2>1, <2>2
<1>5. /\ pc[p] \notin Storing \cup {"w_ibit", "w_izero"}
      /\ pc'[p] \notin Storing \cup {"w_ibit", "w_izero"}
  BY DEF Reading, Storing, Looping, Syncing
<1> QED BY <1>1, <1>4, <1>5, IdleStep

\* inode_read gets the lock.
LEMMA ReadLockStep ==
  ASSUME IInv, NEW p \in Procs, ReadLock(p)
  PROVE  IInv'
<1> DEFINE r == req[p]
           i == r.i
           s == At(r, Blk(i), block_idx_start(r))
<1>1. /\ pc[p] = "r_lock" /\ holder[i] = NULL /\ holder' = [holder EXCEPT ![i] = p]
      /\ UNCHANGED <<used, used_disk, disk, itab, inode, file>>
  BY DEF ReadLock
<1>2. IsReq(r) /\ i \in Inodes /\ IsRequest(r)
  BY <1>1 DEF IInv, CallInv
<1>3. pc[p] \in Reading
  BY <1>1 DEF Reading
<1>4. CASE inode[i].i_sectors[NDIRECT] # 0
  <2>1. Goto(p, "r_table") /\ req' = req
    BY <1>4 DEF ReadLock
  <2>2. /\ pc'[p] = "r_table" /\ pc' \in [Procs -> {"user"} \cup Reading \cup Writing]
        /\ DOMAIN req' = Procs /\ \A q \in Procs \ {p} : pc'[q] = pc[q] /\ req'[q] = req[q]
    BY <2>1 DEF IInv, ITypes, Goto, Reading
  <2>3. r.blocks = <<>>
    BY <1>1 DEF IInv, CallInv
  <2> QED BY <1>1, <1>2, <1>3, <2>1, <2>2, <2>3, ReadStep
<1>5. CASE inode[i].i_sectors[NDIRECT] = 0
  <2>1. Blk(i) = all_blocks(inode[i], ZeroTable)
    BY <1>5 DEF Blk, TableOf
  <2>2. Goto(p, "r_block") /\ req' = [req EXCEPT ![p] = s]
    BY <1>5, <2>1 DEF ReadLock, ReadBlocks, At
  <2>3. /\ IsReq(s) /\ s.i = i /\ s.pos = r.pos /\ s.count = r.count
        /\ s.blocks = Blk(i) /\ s.k = block_idx_start(r)
    BY <1>2, AtLemma
  <2>4. block_idx_start(r) \in block_idx_start(r)..block_idx_last(r)
    BY <1>2, SpanLemma, RangeLemma
  <2> HIDE DEF s
  <2>5. /\ pc'[p] = "r_block" /\ req'[p] = s
        /\ pc' \in [Procs -> {"user"} \cup Reading \cup Writing] /\ DOMAIN req' = Procs
        /\ \A q \in Procs \ {p} : pc'[q] = pc[q] /\ req'[q] = req[q]
    BY <2>2, Moves DEF Reading
  <2> QED BY <1>1, <1>2, <1>3, <2>3, <2>4, <2>5, ReadStep
<1> QED BY <1>4, <1>5

\* inode_read reads the indirect block.
LEMMA ReadTableStep ==
  ASSUME IInv, NEW p \in Procs, ReadTable(p)
  PROVE  IInv'
<1> DEFINE r == req[p]
           i == r.i
           s == At(r, Blk(i), block_idx_start(r))
<1>1. /\ pc[p] = "r_table" /\ Goto(p, "r_block") /\ req' = [req EXCEPT ![p] = s]
      /\ UNCHANGED <<used, used_disk, disk, itab, inode, holder, file>>
  BY DEF ReadTable, ReadBlocks, Blk, At
<1>2. IsReq(r) /\ i \in Inodes /\ IsRequest(r)
  BY <1>1 DEF IInv, CallInv
<1>3. holder[i] = p /\ holder \in [Inodes -> Procs \cup {NULL}]
  BY <1>1, Holds DEF Inside, IInv, ITypes
<1>4. /\ pc[p] \in Reading /\ holder' = [holder EXCEPT ![i] = p] /\ pc[p] # "r_lock"
      /\ UNCHANGED <<used, used_disk, disk, itab, inode, file>>
  BY <1>1, <1>3 DEF Reading
<1>5. /\ IsReq(s) /\ s.i = i /\ s.pos = r.pos /\ s.count = r.count
      /\ s.blocks = Blk(i) /\ s.k = block_idx_start(r)
  BY <1>2, AtLemma
<1>6. block_idx_start(r) \in block_idx_start(r)..block_idx_last(r)
  BY <1>2, SpanLemma, RangeLemma
<1> HIDE DEF s
<1>7. /\ pc'[p] = "r_block" /\ req'[p] = s
      /\ pc' \in [Procs -> {"user"} \cup Reading \cup Writing] /\ DOMAIN req' = Procs
      /\ \A q \in Procs \ {p} : pc'[q] = pc[q] /\ req'[q] = req[q]
  BY <1>1, Moves DEF Reading
<1> QED BY <1>2, <1>3, <1>4, <1>5, <1>6, <1>7, ReadStep

\* inode_read copies a block and goes on or returns.
LEMMA ReadBlockStep ==
  ASSUME IInv, NEW p \in Procs, ReadBlock(p)
  PROVE  IInv'
<1> DEFINE r == req[p]
           i == r.i
           s == [r EXCEPT !.k = r.k + 1]
<1>1. /\ pc[p] = "r_block" /\ UNCHANGED <<used, used_disk, disk, itab, inode, file>>
  BY DEF ReadBlock
<1>2. /\ IsReq(r) /\ i \in Inodes /\ IsRequest(r) /\ r.blocks = Blk(i)
      /\ r.k \in block_idx_start(r)..block_idx_last(r)
  BY <1>1 DEF IInv, CallInv
<1>3. /\ holder[i] = p /\ pc[p] \in Inside /\ holder \in [Inodes -> Procs \cup {NULL}]
      /\ pc \in [Procs -> {"user"} \cup Reading \cup Writing] /\ DOMAIN req = Procs
  BY <1>1, Holds DEF Inside, IInv, ITypes
<1>4. CASE r.k = block_idx_last(r)
  <2>1. holder' = [holder EXCEPT ![i] = NULL] /\ Goto(p, "user") /\ req' = [req EXCEPT ![p] = NoReq]
    BY <1>4 DEF ReadBlock, Leave
  <2>2. /\ pc'[p] = "user" /\ req'[p] = NoReq
        /\ pc' \in [Procs -> {"user"} \cup Reading \cup Writing] /\ DOMAIN req' = Procs
        /\ \A q \in Procs \ {p} : pc'[q] = pc[q] /\ req'[q] = req[q]
    BY <2>1, Moves
  <2>3. CallInv(p)'
    <3>1. IsReq(NoReq)
      BY DEF IsReq, NoReq
    <3> QED BY <2>2, <3>1 DEF CallInv, Reading, Writing, Storing, Looping, Syncing
  <2>4. /\ LockInv' /\ holder'[i] = NULL
        /\ holder' \in [Inodes -> Procs \cup {NULL}]
        /\ \A j \in Inodes \ {i} : holder'[j] = holder[j]
    BY <1>2, <1>3, <2>1, <2>2, LeaveLock
  <2>5. /\ pc[p] \notin Storing \cup {"w_ibit", "w_izero"}
        /\ pc'[p] \notin Storing \cup {"w_ibit", "w_izero"}
    BY <1>1, <2>2 DEF Storing, Looping, Syncing
  <2> QED BY <1>1, <1>2, <1>3, <2>2, <2>3, <2>4, <2>5, IdleStep
<1>5. CASE r.k # block_idx_last(r)
  <2>1. req' = [req EXCEPT ![p] = s] /\ pc' = pc /\ holder' = [holder EXCEPT ![i] = p]
    BY <1>2, <1>3, <1>5 DEF ReadBlock
  <2>2. /\ IsReq(s) /\ s.i = i /\ s.pos = r.pos /\ s.count = r.count
        /\ s.blocks = Blk(i) /\ s.k = r.k + 1
    BY <1>2 DEF IsReq
  <2>3. r.k + 1 \in block_idx_start(r)..block_idx_last(r)
    BY <1>2, <1>5, RangeLemma
  <2> HIDE DEF s
  <2>4. /\ pc'[p] = "r_block" /\ req'[p] = s /\ pc[p] \in Reading
        /\ pc' \in [Procs -> {"user"} \cup Reading \cup Writing] /\ DOMAIN req' = Procs
        /\ \A q \in Procs \ {p} : pc'[q] = pc[q] /\ req'[q] = req[q]
    BY <1>1, <1>3, <2>1 DEF Reading
  <2> QED BY <1>1, <1>2, <1>3, <2>1, <2>2, <2>3, <2>4, ReadStep
<1> QED BY <1>4, <1>5

\* No request ends on a block boundary, and inodes are in sectors of their
\* own.  Without the one a write loses its last bytes, without the other a sync
\* may put a stale copy of another inode on disk: neither ReadsBack nor OnDisk
\* holds then, whatever the invariant.
Apart == ~Tails /\ \A i \in Inodes : Near[i] = {i}

-----------------------------------------------------------------------------
(* inode_write begins *)

\* inode_write begins.
LEMMA InodeWriteStep ==
  ASSUME IInv, ~Tails, NEW p \in Procs, NEW i \in Inodes, NEW count \in Counts,
         NEW pos \in Positions, inode_write(p, i, count, pos)
  PROVE  IInv'
<1> DEFINE r == AsksFrom(i, pos, count, pos \div BLOCK_SIZE)
<1>1. /\ pc[p] = "user" /\ Goto(p, "w_lock") /\ req' = [req EXCEPT ![p] = r]
      /\ pos <= inode[i].i_size /\ pos + count <= MAX_FILE_SIZE /\ ~Loses(r)
      /\ UNCHANGED <<used, used_disk, disk, itab, inode, holder, file>>
  BY DEF inode_write, AsksFrom
<1>2. /\ IsReq(r) /\ r.i = i /\ r.pos = pos /\ r.count = count
      /\ r.k = pos \div BLOCK_SIZE /\ r.blocks = <<>>
  BY AsksLemma
<1> HIDE DEF r
<1>3. /\ pc'[p] = "w_lock" /\ req'[p] = r
      /\ pc' \in [Procs -> {"user"} \cup Reading \cup Writing] /\ DOMAIN req' = Procs
      /\ \A q \in Procs \ {p} : pc'[q] = pc[q] /\ req'[q] = req[q]
  BY <1>1, Moves DEF Writing
<1>4. IsRequest(r)
  <2>1. count \in Nat \ {0} /\ pos \in Nat
    BY Place, InodeAssumption
  <2> QED BY <1>1, <1>2, <2>1 DEF IsRequest
<1>5. r.k = block_idx_start(r) /\ r.k \in block_idx_start(r)..block_idx_last(r)
  <2>1. r.k = block_idx_start(r)
    BY <1>2 DEF block_idx_start
  <2> QED BY <1>4, <2>1, SpanLemma, RangeLemma
<1>6. CallInv(p)'
  <2>1. inode' = inode
    BY <1>1
  <2> QED BY <1>1, <1>2, <1>3, <1>4, <1>5, <2>1
          DEF CallInv, Reading, Writing, Storing, Looping, Syncing
<1>7. "user" \notin Inside /\ "w_lock" \notin Inside
  BY DEF Inside, Storing, Looping, Syncing
<1> QED BY <1>1, <1>3, <1>6, <1>7, OuterStep

\* NewIs: what an update of new leaves.
NewAt(r, b) == [r EXCEPT !.new = b]

\* What a request holds when it takes a block for the indirect block.
LEMMA NewAtLemma ==
  ASSUME NEW r, IsReq(r), NEW b
  PROVE  LET s == NewAt(r, b)
         IN  /\ IsReq(s) /\ s.i = r.i /\ s.pos = r.pos /\ s.count = r.count /\ s.k = r.k
             /\ s.new = b /\ s.blocks = r.blocks
<1>1. ASSUME NEW s, s = NewAt(r, b)
      PROVE  /\ IsReq(s) /\ s.i = r.i /\ s.pos = r.pos /\ s.count = r.count /\ s.k = r.k
             /\ s.new = b /\ s.blocks = r.blocks
  BY <1>1 DEF IsReq, NewAt
<1> QED BY <1>1

\* What block_bitmap_alloc returns is a block that was free.
LEMMA AllocLemma ==
  ASSUME IInv, used # Blocks
  PROVE  block_bitmap_alloc \in Blocks \ used
<1>1. Blocks \ used # {} /\ Blocks \ used \subseteq Nat
  <2>1. used \subseteq Blocks /\ Blocks \subseteq Nat
    BY DEF IInv, ITypes, Blocks
  <2> QED BY <2>1
<1>2. \E b \in Blocks \ used : \A c \in Blocks \ used : b <= c
  <2> DEFINE S == Blocks \ used
  <2>1. PICK x \in S : \A y \in S : <<y, x>> \notin OpToRel(<, Nat)
    BY <1>1, NatLessThanWellFounded, WFMin, Zenon
  <2>2. \A y \in S : ~(y < x)
    BY <1>1, <2>1 DEF OpToRel
  <2> QED BY <1>1, <2>2
<1> QED BY <1>2 DEF block_bitmap_alloc

-----------------------------------------------------------------------------
(* A call that ends *)

\* A call that ends: its lock is free, and the inode and its indirect block say
\* what the file is.
LEMMA LeaveStep ==
  ASSUME IInv, NEW p \in Procs, NEW i \in Inodes, req[p].i = i, holder[i] \in {NULL, p},
         pc[p] # "user", pc[p] \in Inside \/ holder[i] = NULL,
         Leave(p), used' = used, used_disk' = used_disk, inode' = inode,
         NEW ns, ns \subseteq Positions, Record(p, ns),
         itab' \in [Inodes -> DiskInode], \A j \in Inodes \ {i} : itab'[j] = itab[j],
         DOMAIN disk' = Blocks, \A b \in Blocks \ Owns(i) : disk'[b] = disk[b],
         \A b \in Blocks \ used_disk : disk'[b] = ZeroBlock,
         TableOf(inode[i], disk') \in Tables,
         \A s \in 0..NDIRECT : itab'[i].i_sectors[s] \in {0, inode[i].i_sectors[s]},
         itab'[i].i_sectors[NDIRECT] = 0 => \A k \in Index : k >= NDIRECT => Blk(i)'[k] = 0,
         \A k \in Index : Blk(i)'[k] \in {0, Cur(i)[k]} /\ Blk(i)'[k] \in used_disk \cup {0},
         itab'[i].i_size = inode[i].i_size,
         \A s \in 0..NDIRECT - 1 : itab'[i].i_sectors[s] = inode[i].i_sectors[s],
         \A n \in ns : n < inode[i].i_size,
         \A n \in Positions : n < inode[i].i_size =>
           ByteAt(Blk(i)', disk', n) = IF n \in ns THEN <<p, n>> ELSE file[i][n]
  PROVE  IInv'
<1>1. /\ holder' = [holder EXCEPT ![i] = NULL] /\ Goto(p, "user")
      /\ req' = [req EXCEPT ![p] = NoReq]
  BY DEF Leave
<1>2. /\ pc'[p] = "user" /\ req'[p] = NoReq
      /\ pc' \in [Procs -> {"user"} \cup Reading \cup Writing] /\ DOMAIN req' = Procs
      /\ \A q \in Procs \ {p} : pc'[q] = pc[q] /\ req'[q] = req[q]
  BY <1>1, Moves
<1>3. /\ LockInv' /\ holder'[i] = NULL
      /\ holder' \in [Inodes -> Procs \cup {NULL}]
      /\ \A j \in Inodes \ {i} : holder'[j] = holder[j]
  <2>1. /\ holder' = [holder EXCEPT ![i] = NULL] /\ pc'[p] = "user"
        /\ \A q \in Procs \ {p} : pc'[q] = pc[q] /\ req'[q] = req[q]
    BY <1>1, <1>2
  <2> QED BY <2>1, LeaveLock
<1>4. CallInv(p)'
  <2>1. IsReq(NoReq)
    BY DEF IsReq, NoReq
  <2> QED BY <1>2, <2>1 DEF CallInv, Reading, Writing, Storing, Looping, Syncing
<1>5. /\ \A j \in Inodes \ {i} : file'[j] = file[j]
      /\ DOMAIN file' = Inodes /\ DOMAIN file'[i] = Positions
      /\ \A n \in Positions : file'[i][n] = IF n \in ns THEN <<p, n>> ELSE file[i][n]
  <2>1. file' = [file EXCEPT ![i] =
          [n \in Positions |-> IF n \in ns THEN <<p, n>> ELSE file[i][n]]]
    BY DEF Record, IInv, ITypes
  <2>2. DOMAIN file = Inodes
    BY DEF IInv, ITypes
  <2> QED BY <2>1, <2>2
<1>6. ITypes'
  <2>1. \A j \in Inodes : DOMAIN file'[j] = Positions
    BY <1>5 DEF IInv, ITypes
  <2> QED BY <1>2, <1>3, <1>5, <2>1 DEF IInv, ITypes
<1>7. /\ Cur(i)' = Blk(i)' /\ New(i)' = {} /\ ~Stores(i)'
      /\ \A n : ~Done(i, n)' /\ Want(i, n)' = file'[i][n]
  BY <1>3 DEF Cur, New, Stores, Done, Want
<1>8. Shape(i) /\ Bytes(i)
  BY DEF IInv
<1>9. Blk(i)' \in [Index -> 0..NBlocks]
  <2>1. inode[i] \in DiskInode /\ Blk(i)' = all_blocks(inode[i], TableOf(inode[i], disk'))
    BY FileTypes DEF Blk
  <2> QED BY <2>1, BlocksLemma
<1>10. Owns(i)' \subseteq Owns(i)
  BY <1>7 DEF Owns
<1>11. inode[i].i_sectors[NDIRECT] \in used_disk \cup {0}
  BY <1>8 DEF Shape, InUse
<1>12. Shape(i)'
  <2>1. InUse(Blk(i)', inode[i]) \subseteq used_disk
    BY <1>9, <1>11 DEF InUse
  <2>2. Owns(i)' \subseteq used'
    BY <1>8, <1>10 DEF Shape
  <2>3. \A k, l \in Index : Blk(i)'[k] = Blk(i)'[l] /\ Blk(i)'[k] # 0 => k = l
    BY <1>8 DEF Shape
  <2>4. \A k \in Index : Blk(i)'[k] # 0 => Blk(i)'[k] # inode[i].i_sectors[NDIRECT]
    BY <1>8 DEF Shape
  <2>5. \A k \in Index : Blk(i)'[k] \in {0, Cur(i)'[k]}
    BY <1>7
  <2> QED BY <1>7, <1>9, <2>1, <2>2, <2>3, <2>4, <2>5 DEF Shape
<1>13. Bytes(i)'
  <2>1. inode[i].i_size \in Nat /\ Positions \subseteq Nat
    BY FileTypes, Place
  <2>2. \A n \in Positions : n >= inode[i].i_size => file'[i][n] = Zero
    BY <1>5, <1>8, <2>1 DEF Bytes
  <2>3. \A n \in Positions : n < inode[i].i_size => ByteAt(Cur(i)', disk', n) = Want(i, n)'
    BY <1>5, <1>7
  <2> QED BY <1>3, <1>7, <2>2, <2>3 DEF Bytes
<1>14. inode'[i].i_size >= inode[i].i_size
  BY FileTypes
<1> QED BY <1>2, <1>3, <1>4, <1>5, <1>6, <1>10, <1>12, <1>13, <1>14, OwnStep

\* What holds of the call that has the lock: Cur is what it knows.
LEMMA Storer ==
  ASSUME IInv, NEW p \in Procs, pc[p] \in {"w_table"} \cup Storing
  PROVE  LET r == req[p]
             i == r.i
         IN  /\ i \in Inodes /\ holder[i] = p /\ p # NULL /\ pc[p] \in Inside
             /\ IsReq(r) /\ IsRequest(r) /\ ~Loses(r) /\ r.pos <= inode[i].i_size
             /\ r.k \in block_idx_start(r)..block_idx_last(r) /\ r.k \in Index
             /\ pc[p] = "w_table" => r.k = block_idx_start(r) /\ Cur(i) = Blk(i)
             /\ pc[p] \in Storing => Cur(i) = r.blocks /\ r.blocks[r.k] # 0
             /\ New(i) = {} /\ CallInv(p)
             /\ inode[i].i_sectors[NDIRECT] = 0 => r.pos + r.count <= NDIRECT * BLOCK_SIZE
<1> DEFINE r == req[p]
           i == r.i
<1>1. pc[p] \in Inside
  BY DEF Inside
<1>2. i \in Inodes /\ holder[i] = p /\ p # NULL
  BY <1>1, Holds
<1>3. pc[p] \in Writing /\ pc[p] # "user" /\ CallInv(p)
  BY DEF Writing, Storing, Looping, Syncing, IInv
<1>4. /\ IsReq(r) /\ IsRequest(r) /\ ~Loses(r) /\ r.pos <= inode[i].i_size
      /\ r.k \in block_idx_start(r)..block_idx_last(r)
  BY <1>3 DEF CallInv
<1>5. r.k \in Index
  BY <1>4, RangeLemma
<1>6. /\ pc[p] = "w_table" => r.k = block_idx_start(r)
      /\ pc[p] \in Storing => r.blocks[r.k] # 0
      /\ inode[i].i_sectors[NDIRECT] = 0 => r.pos + r.count <= NDIRECT * BLOCK_SIZE
  BY <1>3 DEF CallInv
<1>7. "w_table" \notin Storing /\ pc[p] \notin {"w_ibit", "w_izero"}
  BY DEF Storing, Looping, Syncing
<1>8. /\ pc[p] = "w_table" => Cur(i) = Blk(i)
      /\ pc[p] \in Storing => Cur(i) = r.blocks
      /\ New(i) = {}
  BY <1>2, <1>7 DEF Cur, Stores, New
<1> QED BY <1>1, <1>2, <1>3, <1>4, <1>5, <1>6, <1>8

\* A call that goes on in its loop, at block s.k.
LEMMA StoreStep ==
  ASSUME IInv, NEW p \in Procs, pc[p] \in {"w_table"} \cup Looping, NEW i, i = req[p].i,
         UNCHANGED <<itab, inode, holder, file>>,
         pc'[p] \in Looping,
         pc' \in [Procs -> {"user"} \cup Reading \cup Writing], DOMAIN req' = Procs,
         \A q \in Procs \ {p} : pc'[q] = pc[q] /\ req'[q] = req[q],
         NEW s, req'[p] = s, IsReq(s), s.i = i, s.pos = req[p].pos, s.count = req[p].count,
         s.k \in block_idx_start(req[p])..block_idx_last(req[p]), req[p].k <= s.k,
         used \subseteq used', used' \subseteq Blocks,
         used_disk \subseteq used_disk', used_disk' \subseteq used',
         DOMAIN disk' = Blocks, \A b \in Blocks \ Owns(i) : disk'[b] = disk[b],
         \A b \in Blocks \ used_disk' : disk'[b] = ZeroBlock,
         TableOf(inode[i], disk') = TableOf(inode[i], disk),
         s.blocks \in [Index -> 0..NBlocks],
         \A l \in Index \ {s.k} : s.blocks[l] = Cur(i)[l],
         s.blocks[s.k] # 0,
         s.blocks[s.k] = Cur(i)[s.k] \/ (Cur(i)[s.k] = 0 /\ s.blocks[s.k] \in used' \ used),
         \A l \in Index : s.blocks[l] \in used_disk' \cup {0} \/ (pc'[p] = "w_bit" /\ l = s.k),
         \A n \in Positions :
           n < inode[i].i_size \/ (n \in Span(req[p]) /\ n \div BLOCK_SIZE < s.k) =>
             ByteAt(s.blocks, disk', n) =
               IF n \in Span(req[p]) /\ n \div BLOCK_SIZE < s.k THEN <<p, n>> ELSE file[i][n],
         pc'[p] = "w_put" => \A c \in Offsets :
           s.buf[c] = IF c \in Copied(s, s.k) THEN <<p, s.k * BLOCK_SIZE + c>>
                                               ELSE disk'[s.blocks[s.k]][c]
  PROVE  IInv'
<1> DEFINE r == req[p]
<1>0. pc[p] \in {"w_table"} \cup Storing /\ pc[p] \in Inside /\ pc'[p] \in Inside
  BY DEF Storing, Inside
<1>1. /\ i \in Inodes /\ holder[i] = p /\ p # NULL
      /\ IsRequest(r) /\ ~Loses(r) /\ r.pos <= inode[i].i_size
      /\ r.k \in block_idx_start(r)..block_idx_last(r)
      /\ New(i) = {} /\ CallInv(p)
      /\ inode[i].i_sectors[NDIRECT] = 0 => r.pos + r.count <= NDIRECT * BLOCK_SIZE
  BY <1>0, Storer
<1>2. Shape(i) /\ Bytes(i)
  BY <1>1 DEF IInv
<1>3. LockInv'
  BY <1>0, StayLock
<1>4. ITypes'
  BY DEF IInv, ITypes
<1>5. /\ holder'[i] = p /\ Stores(i)' /\ Cur(i)' = s.blocks /\ New(i)' = {}
      /\ pc'[p] \notin Syncing
  BY <1>1 DEF Stores, Cur, New, Storing, Looping, Syncing
<1>6. Blk(i)' = Blk(i)
  BY DEF Blk
<1>7. Span(s) = Span(r) /\ block_idx_start(s) = block_idx_start(r) /\ block_idx_last(s) = block_idx_last(r)
  BY DEF Span, block_idx_start, block_idx_last
<1>8. s.k \in Index /\ r.k \in Nat /\ s.k \in Nat /\ block_idx_start(r) \in Nat /\ Index \subseteq Nat
  BY <1>1, RangeLemma
<1>9. \A l \in Index : Cur(i)[l] # 0 => s.blocks[l] = Cur(i)[l]
  BY <1>8
<1>10. Owns(i)' \subseteq Owns(i) \cup (Blocks \ used)
  <2>1. \A l \in Index : s.blocks[l] \in {Cur(i)[l]} \cup (Blocks \ used)
    BY <1>8
  <2>2. inode' = inode
    OBVIOUS
  <2> QED BY ONLY <1>5, <2>1, <2>2 DEF Owns
<1>11. Owns(i) \subseteq used
  BY ONLY <1>2, Zenon DEF Shape
<1>12. \A l \in Index : Cur(i)[l] \in used \cup {0}
  BY <1>11 DEF Owns
<1>13. inode[i].i_sectors[NDIRECT] \in used \cup {0}
  BY <1>11 DEF Owns
<1>14. Shape(i)'
  <2>9. /\ \A k \in Index : Blk(i)[k] \in {0, Cur(i)[k]}
        /\ \A k, l \in Index : Cur(i)[k] = Cur(i)[l] /\ Cur(i)[k] # 0 => k = l
        /\ \A k \in Index : Cur(i)[k] # 0 => Cur(i)[k] # inode[i].i_sectors[NDIRECT]
        /\ InUse(Blk(i), inode[i]) \subseteq used_disk
    BY ONLY <1>2, Zenon DEF Shape
  <2>1. \A k \in Index : Blk(i)[k] \in {0, s.blocks[k]}
    BY ONLY <1>9, <2>9
  <2>2. \A k, l \in Index : s.blocks[k] = s.blocks[l] /\ s.blocks[k] # 0 => k = l
    <3> SUFFICES ASSUME NEW k \in Index, NEW l \in Index,
                        s.blocks[k] = s.blocks[l], s.blocks[k] # 0, k # l
                 PROVE  FALSE
      OBVIOUS
    <3>1. CASE s.blocks[s.k] = Cur(i)[s.k]
      <4>1. \A m \in Index : s.blocks[m] = Cur(i)[m]
        BY <3>1
      <4> QED BY ONLY <2>9, <4>1, s.blocks[k] = s.blocks[l], s.blocks[k] # 0, k # l,
                      k \in Index, l \in Index
    <3>2. CASE s.blocks[s.k] \notin used
      <4>1. k = s.k => s.blocks[l] = Cur(i)[l]
        OBVIOUS
      <4>2. l = s.k => s.blocks[k] = Cur(i)[k]
        OBVIOUS
      <4>3. k # s.k /\ l # s.k
        BY <1>12, <3>2, <4>1, <4>2
      <4>4. s.blocks[k] = Cur(i)[k] /\ s.blocks[l] = Cur(i)[l]
        BY <4>3
      <4> QED BY ONLY <2>9, <4>4, s.blocks[k] = s.blocks[l], s.blocks[k] # 0, k # l,
                      k \in Index, l \in Index
    <3> QED BY <3>1, <3>2
  <2>3. \A k \in Index : s.blocks[k] # 0 => s.blocks[k] # inode[i].i_sectors[NDIRECT]
    <3> SUFFICES ASSUME NEW k \in Index, s.blocks[k] # 0
                 PROVE  s.blocks[k] # inode[i].i_sectors[NDIRECT]
      OBVIOUS
    <3>1. CASE s.blocks[k] = Cur(i)[k]
      BY <2>9, <3>1
    <3>2. CASE s.blocks[k] # Cur(i)[k]
      BY <1>13, <3>2
    <3> QED BY <3>1, <3>2
  <2>4. Owns(i)' \subseteq used'
    <3>1. \A l \in Index : s.blocks[l] \in used' \cup {0}
      BY <1>8, <1>12
    <3> QED BY <1>5, <1>13, <3>1 DEF Owns
  <2>5. InUse(Blk(i)', inode'[i]) \subseteq used_disk'
    <3>1. inode' = inode /\ used_disk \subseteq used_disk'
      OBVIOUS
    <3> QED BY ONLY <1>6, <2>9, <3>1
  <2>6. /\ TableOf(inode'[i], disk') \in Tables
        /\ \A l \in 0..NDIRECT : itab'[i].i_sectors[l] \in {0, inode'[i].i_sectors[l]}
        /\ itab'[i].i_sectors[NDIRECT] = 0 => \A k \in Index : k >= NDIRECT => Blk(i)'[k] = 0
    <3>1. itab' = itab /\ inode' = inode /\ TableOf(inode[i], disk') = TableOf(inode[i], disk)
      OBVIOUS
    <3>2. /\ TableOf(inode[i], disk) \in Tables
          /\ \A l \in 0..NDIRECT : itab[i].i_sectors[l] \in {0, inode[i].i_sectors[l]}
          /\ itab[i].i_sectors[NDIRECT] = 0 => \A k \in Index : k >= NDIRECT => Blk(i)[k] = 0
      BY ONLY <1>2, Zenon DEF Shape
    <3> QED BY ONLY <1>6, <3>1, <3>2, Zenon
  <2>7. \A n \in New(i)' : n \notin {Cur(i)'[k] : k \in Index} /\ inode'[i].i_sectors[NDIRECT] = 0
    BY <1>5
  <2>8. inode' = inode
    OBVIOUS
  <2> QED BY ONLY <1>5, <1>6, <2>1, <2>2, <2>3, <2>4, <2>5, <2>6, <2>7, <2>8,
                  s.blocks \in [Index -> 0..NBlocks] DEF Shape
<1>15. Bytes(i)'
  <2>2. ASSUME NEW n \in Positions, n < inode[i].i_size, Blk(i)[n \div BLOCK_SIZE] = 0
        PROVE  file[i][n] = Zero
    <3>1. CASE pc[p] \in Looping
      BY ONLY <1>1, <1>2, <2>2, <3>1 DEF Bytes
    <3>2. CASE pc[p] = "w_table"
      <4>1. Cur(i) = Blk(i) /\ ~Stores(i)
        BY <1>1, <3>2 DEF Cur, Stores, Storing, Looping, Syncing
      <4>2. ByteAt(Blk(i), disk, n) = file[i][n]
        BY ONLY <1>2, <2>2, <4>1 DEF Bytes, Want, Done
      <4> QED BY <2>2, <4>2 DEF ByteAt
    <3> QED BY <3>1, <3>2
  <2>3. ~(holder[i] # NULL /\ pc[holder[i]] \in {"i_get", "i_put"})
    BY <1>1 DEF Looping
  <2>4. \A n \in Positions : n < inode[i].i_size \/ Done(i, n)' =>
           ByteAt(Cur(i)', disk', n) = Want(i, n)'
    <3> SUFFICES ASSUME NEW n \in Positions, n < inode[i].i_size \/ Done(i, n)'
                 PROVE  ByteAt(s.blocks, disk', n) = Want(i, n)'
      BY <1>5
    <3>1. Done(i, n)' <=> n \in Span(r) /\ n \div BLOCK_SIZE < s.k
      BY <1>5, <1>7 DEF Done
    <3>2. Want(i, n)' = IF n \in Span(r) /\ n \div BLOCK_SIZE < s.k THEN <<p, n>> ELSE file[i][n]
      BY <1>5, <1>7 DEF Done, Want
    <3> QED BY <3>1, <3>2
  <2>5. UNCHANGED <<inode, holder, itab, file>>
    OBVIOUS
  <2>6. /\ \A n \in Positions : n >= inode[i].i_size => file[i][n] = Zero
        /\ itab[i].i_size = inode[i].i_size
        /\ \A l \in 0..NDIRECT - 1 : itab[i].i_sectors[l] = inode[i].i_sectors[l]
    BY ONLY <1>2, <2>3, Zenon DEF Bytes
  <2> QED BY ONLY <1>6, <2>2, <2>3, <2>4, <2>5, <2>6, Zenon DEF Bytes
<1>16. CallInv(p)'
  <2>1. ASSUME NEW l \in Index, s.blocks[l] # Blk(i)[l]
        PROVE  block_idx_start(r) <= l /\ l <= s.k
    <3>1. CASE l = s.k
      BY <1>8, <3>1
    <3>2. CASE l # s.k
      <4>1. Cur(i)[l] # Blk(i)[l]
        BY <2>1, <3>2
      <4>2. pc[p] \in Storing /\ Cur(i) = r.blocks
        BY <1>0, <4>1, Storer
      <4>3. block_idx_start(r) <= l /\ l <= r.k
        BY ONLY <1>1, <4>1, <4>2, l \in Index, i = req[p].i DEF CallInv
      <4> QED BY <1>8, <4>3
    <3> QED BY <3>1, <3>2
  <2>2. IsRequest(s) /\ ~Loses(s)
    BY <1>1 DEF IsRequest, Loses, block_idx_start, block_idx_last
  <2>3. /\ pc'[p] # "user" /\ pc'[p] \notin Reading /\ pc'[p] \in Writing /\ pc'[p] \in Storing
        /\ pc'[p] \notin {"r_lock", "r_table", "w_lock", "w_ibit", "w_izero", "w_table"}
        /\ pc'[p] \notin Syncing
    BY DEF Reading, Writing, Storing, Looping, Syncing
  <2>4. inode' = inode
    OBVIOUS
  <2>5. pc'[p] # "r_block" /\ pc'[p] # "i_put" /\ pc'[p] # "w_last"
    BY DEF Looping
  <2>6. /\ s.k \in block_idx_start(s)..block_idx_last(s) /\ s.i \in Inodes
        /\ s.pos <= inode'[s.i].i_size
        /\ inode'[s.i].i_sectors[NDIRECT] = 0 => s.pos + s.count <= NDIRECT * BLOCK_SIZE
    BY <1>1, <1>7, <2>4
  <2>7. \A l \in Index : s.blocks[l] # Blk(s.i)'[l] => block_idx_start(s) <= l /\ l <= s.k
    BY <1>6, <1>7, <2>1
  <2>8. req'[p] = s /\ IsReq(s) /\ s.blocks[s.k] # 0
    OBVIOUS
  <2>9. \A l \in Index : s.blocks[l] \in used_disk' \cup {0} \/ (pc'[p] = "w_bit" /\ l = s.k)
    OBVIOUS
  <2>10. pc'[p] = "w_put" => \A c \in Offsets :
           s.buf[c] = IF c \in Copied(s, s.k) THEN <<p, s.k * BLOCK_SIZE + c>>
                                               ELSE disk'[s.blocks[s.k]][c]
    OBVIOUS
  <2> QED BY ONLY <2>2, <2>3, <2>5, <2>6, <2>7, <2>8, <2>9, <2>10 DEF CallInv
<1>17. inode'[i].i_size >= inode[i].i_size
  BY <1>1, FileTypes
<1> QED BY <1>1, <1>3, <1>4, <1>10, <1>14, <1>15, <1>16, <1>17, OwnStep

-----------------------------------------------------------------------------
(* The loop over the blocks *)

\* A request with a buffer.
BufAt(r, b) == [r EXCEPT !.buf = b]

\* What it holds then.
LEMMA BufAtLemma ==
  ASSUME NEW r, IsReq(r), NEW b
  PROVE  LET s == BufAt(r, b)
         IN  /\ IsReq(s) /\ s.i = r.i /\ s.pos = r.pos /\ s.count = r.count /\ s.k = r.k
             /\ s.blocks = r.blocks /\ s.buf = b
<1>1. ASSUME NEW s, s = BufAt(r, b)
      PROVE  /\ IsReq(s) /\ s.i = r.i /\ s.pos = r.pos /\ s.count = r.count /\ s.k = r.k
             /\ s.blocks = r.blocks /\ s.buf = b
  BY <1>1 DEF IsReq, BufAt
<1> QED BY <1>1

\* What a block holds with the bytes of r in it.
LEMMA MergedLemma ==
  ASSUME NEW p, NEW r, NEW old, NEW c \in Offsets
  PROVE  Merged(p, r, old)[c] = IF c \in Copied(r, r.k) THEN <<p, r.k * BLOCK_SIZE + c>> ELSE old[c]
BY DEF Merged

\* Access goes to the block's read or write, and a block that is written
\* without being read is written whole.
LEMMA AccessLemma ==
  ASSUME IInv, NEW p \in Procs, NEW r, IsReq(r), Access(p, r)
  PROVE  \E s : /\ req'[p] = s /\ IsReq(s)
                /\ s.i = r.i /\ s.pos = r.pos /\ s.count = r.count /\ s.k = r.k
                /\ s.blocks = r.blocks
                /\ pc'[p] \in {"w_get", "w_put"}
                /\ pc' \in [Procs -> {"user"} \cup Reading \cup Writing] /\ DOMAIN req' = Procs
                /\ \A q \in Procs \ {p} : pc'[q] = pc[q] /\ req'[q] = req[q]
                /\ pc'[p] = "w_put" => \A c \in Offsets :
                     c \in Copied(r, r.k) /\ s.buf[c] = <<p, r.k * BLOCK_SIZE + c>>
<1>1. CASE ReadFirst(r)
  <2>1. req' = [req EXCEPT ![p] = r] /\ Goto(p, "w_get")
    BY <1>1 DEF Access
  <2>2. /\ pc'[p] = "w_get" /\ req'[p] = r
        /\ pc' \in [Procs -> {"user"} \cup Reading \cup Writing] /\ DOMAIN req' = Procs
        /\ \A q \in Procs \ {p} : pc'[q] = pc[q] /\ req'[q] = req[q]
    BY <2>1, Moves DEF Writing
  <2> QED BY <2>2
<1>2. CASE ~ReadFirst(r)
  <2> DEFINE s == BufAt(r, Merged(p, r, ZeroBlock))
  <2>1. req' = [req EXCEPT ![p] = s] /\ Goto(p, "w_put")
    BY <1>2 DEF Access, BufAt
  <2>2. /\ IsReq(s) /\ s.i = r.i /\ s.pos = r.pos /\ s.count = r.count /\ s.k = r.k
        /\ s.blocks = r.blocks /\ s.buf = Merged(p, r, ZeroBlock)
    BY BufAtLemma
  <2> HIDE DEF s
  <2>3. /\ pc'[p] = "w_put" /\ req'[p] = s
        /\ pc' \in [Procs -> {"user"} \cup Reading \cup Writing] /\ DOMAIN req' = Procs
        /\ \A q \in Procs \ {p} : pc'[q] = pc[q] /\ req'[q] = req[q]
    BY <2>1, Moves DEF Writing
  <2>4. Copied(r, r.k) = Offsets
    BY <1>2 DEF ReadFirst, Copied
  <2>5. \A c \in Offsets : s.buf[c] = <<p, r.k * BLOCK_SIZE + c>>
    <3> SUFFICES ASSUME NEW c \in Offsets PROVE s.buf[c] = <<p, r.k * BLOCK_SIZE + c>>
      OBVIOUS
    <3>1. Merged(p, r, ZeroBlock)[c] =
            IF c \in Copied(r, r.k) THEN <<p, r.k * BLOCK_SIZE + c>> ELSE ZeroBlock[c]
      BY MergedLemma
    <3> QED BY <2>2, <2>4, <3>1
  <2> QED BY <2>2, <2>3, <2>4, <2>5
<1> QED BY <1>1, <1>2

\* The write of a block: the bytes of the file up to it are what is to be.
LEMMA PutLemma ==
  ASSUME IInv, NEW p \in Procs, pc[p] = "w_put", NEW r, r = req[p], NEW i, i = r.i,
         NEW t, t = r.blocks[r.k], DOMAIN disk' = Blocks, disk'[t] = r.buf,
         \A b \in Blocks \ {t} : disk'[b] = disk[b]
  PROVE  /\ DOMAIN disk' = Blocks
         /\ \A b \in Blocks \ Owns(i) : disk'[b] = disk[b]
         /\ \A b \in Blocks \ used_disk : disk'[b] = ZeroBlock
         /\ TableOf(inode[i], disk') = TableOf(inode[i], disk)
         /\ \A l \in Index : r.blocks[l] \in used_disk \cup {0}
         /\ \A n \in Positions :
              n < inode[i].i_size \/ (n \in Span(r) /\ n \div BLOCK_SIZE <= r.k) =>
                ByteAt(r.blocks, disk', n) =
                  IF n \in Span(r) /\ n \div BLOCK_SIZE <= r.k THEN <<p, n>> ELSE file[i][n]
<1>1. /\ i \in Inodes /\ holder[i] = p /\ p # NULL
      /\ IsReq(r) /\ IsRequest(r) /\ ~Loses(r)
      /\ r.k \in block_idx_start(r)..block_idx_last(r) /\ r.k \in Index
      /\ Cur(i) = r.blocks /\ r.blocks[r.k] # 0 /\ CallInv(p)
  <2>1. pc[p] \in {"w_table"} \cup Storing /\ pc[p] \in Storing
    BY DEF Storing, Looping
  <2> QED BY <2>1, Storer
<1>2. Shape(i) /\ Bytes(i)
  BY <1>1 DEF IInv
<1>3. \A l \in Index : r.blocks[l] \in used_disk \cup {0}
  BY <1>1 DEF CallInv, Storing, Looping
<1>4. t \in Owns(i) /\ t \in used_disk /\ t \in Blocks /\ DOMAIN disk = Blocks
  BY <1>1, <1>3 DEF Owns, IInv, ITypes
<1>5. /\ DOMAIN disk' = Blocks /\ disk'[t] = r.buf
      /\ \A b \in Blocks \ {t} : disk'[b] = disk[b]
  OBVIOUS
<1>6. /\ \A b \in Blocks \ Owns(i) : disk'[b] = disk[b]
      /\ \A b \in Blocks \ used_disk : disk'[b] = ZeroBlock
  BY <1>4, <1>5 DEF IInv, ITypes
<1>7. TableOf(inode[i], disk') = TableOf(inode[i], disk)
  <2>1. t # inode[i].i_sectors[NDIRECT]
    BY <1>1, <1>2 DEF Shape
  <2>2. inode[i].i_sectors[NDIRECT] \in Blocks \cup {0}
    BY <1>1, FileTypes
  <2>3. inode[i].i_sectors[NDIRECT] # 0 =>
          disk'[inode[i].i_sectors[NDIRECT]] = disk[inode[i].i_sectors[NDIRECT]]
    BY ONLY <1>5, <2>1, <2>2
  <2> QED BY ONLY <2>3, Zenon DEF TableOf
<1>8. ASSUME NEW n \in Positions,
             n < inode[i].i_size \/ (n \in Span(r) /\ n \div BLOCK_SIZE <= r.k)
      PROVE  ByteAt(r.blocks, disk', n) =
               IF n \in Span(r) /\ n \div BLOCK_SIZE <= r.k THEN <<p, n>> ELSE file[i][n]
  <2> DEFINE b == n \div BLOCK_SIZE
             c == n % BLOCK_SIZE
  <2>1. b \in Index /\ c \in Offsets /\ n = b * BLOCK_SIZE + c /\ Index \subseteq Nat
    BY <1>1, Place, RangeLemma
  <2>2. Stores(i) /\ pc[p] \notin Syncing
    BY <1>1 DEF Stores, Storing, Looping, Syncing
  <2>3. /\ Done(i, n) <=> n \in Span(r) /\ b < r.k
        /\ Want(i, n) = IF n \in Span(r) /\ b < r.k THEN <<p, n>> ELSE file[i][n]
    BY <1>1, <2>2 DEF Done, Want
  <2>4. n < inode[i].i_size \/ Done(i, n) => ByteAt(r.blocks, disk, n) = Want(i, n)
    BY <1>1, <1>2 DEF Bytes
  <2> HIDE DEF b, c
  <2>5. CASE b = r.k
    <3>1. c \in Copied(r, r.k) <=> n \in Span(r)
      BY <1>1, <2>1, <2>5, CopiedLemma
    <3>2. r.buf[c] = IF c \in Copied(r, r.k) THEN <<p, n>> ELSE disk[t][c]
      BY <1>1, <2>1, <2>5 DEF CallInv
    <3>3. ByteAt(r.blocks, disk', n) = r.buf[c]
      BY <1>1, <1>5, <2>5 DEF ByteAt, b, c
    <3>4. ByteAt(r.blocks, disk, n) = disk[t][c]
      BY ONLY <1>1, <2>5, t = r.blocks[r.k] DEF ByteAt, b, c
    <3>5. CASE n \in Span(r)
      <4>1. b <= r.k
        BY <2>1, <2>5
      <4> QED BY ONLY <3>1, <3>2, <3>3, <3>5, <4>1, Zenon DEF b
    <3>6. CASE n \notin Span(r)
      <4>1. n < inode[i].i_size
        BY <1>8, <3>6
      <4>2. ByteAt(r.blocks, disk, n) = file[i][n]
        BY <2>3, <2>4, <3>6, <4>1
      <4> QED BY <3>1, <3>2, <3>3, <3>4, <3>6, <4>2
    <3> QED BY <3>5, <3>6
  <2>6. CASE b # r.k
    <3>1. r.blocks[b] # 0 => r.blocks[b] # t
      BY <1>1, <1>2, <2>1, <2>6 DEF Shape
    <3>2. r.blocks[b] \in Blocks \cup {0}
      BY <1>1, <2>1, FileTypes
    <3>3. ByteAt(r.blocks, disk', n) = ByteAt(r.blocks, disk, n)
      BY <1>5, <3>1, <3>2 DEF ByteAt, b
    <3>4. b <= r.k <=> b < r.k
      BY <1>1, <2>1, <2>6
    <3>5. n < inode[i].i_size \/ (n \in Span(r) /\ b <= r.k)
      BY <1>8 DEF b
    <3>6. ByteAt(r.blocks, disk', n) = IF n \in Span(r) /\ b <= r.k THEN <<p, n>> ELSE file[i][n]
      BY ONLY <2>3, <2>4, <3>3, <3>4, <3>5
    <3> QED BY ONLY <3>6, ZenonT(30) DEF b
  <2> QED BY <2>5, <2>6
<1> QED BY <1>3, <1>5, <1>6, <1>7, <1>8

\* The top of the loop at block k, with the blocks before it in place.
LEMMA LoopStep ==
  ASSUME IInv, NEW p \in Procs, pc[p] \in {"w_table", "w_put"},
         NEW r, r = req[p], NEW i, i = r.i, NEW k,
         k \in block_idx_start(r)..block_idx_last(r), r.k <= k,
         UNCHANGED <<used_disk, itab, inode>>,
         DOMAIN disk' = Blocks, \A b \in Blocks \ Owns(i) : disk'[b] = disk[b],
         \A b \in Blocks \ used_disk : disk'[b] = ZeroBlock,
         TableOf(inode[i], disk') = TableOf(inode[i], disk),
         \A n \in Positions :
           n < inode[i].i_size \/ (n \in Span(r) /\ n \div BLOCK_SIZE < k) =>
             ByteAt(Cur(i), disk', n) =
               IF n \in Span(r) /\ n \div BLOCK_SIZE < k THEN <<p, n>> ELSE file[i][n],
         NEW s, s = At(r, Cur(i), k), Loop(p, s)
  PROVE  IInv'
<1>1. /\ i \in Inodes /\ holder[i] = p /\ p # NULL /\ pc[p] \in Inside
      /\ IsReq(r) /\ IsRequest(r) /\ r.k \in Nat /\ k \in Nat /\ k \in Index
      /\ pc[p] = "w_table" => Cur(i) = Blk(i)
      /\ pc[p] = "w_put" => Cur(i) = r.blocks
      /\ CallInv(p)
  <2>1. pc[p] \in {"w_table"} \cup Storing
    BY DEF Storing, Looping
  <2>2. pc[p] = "w_put" => pc[p] \in Storing
    BY DEF Storing, Looping
  <2>3. IsRequest(r)
    BY <2>1, Storer
  <2> QED BY <2>1, <2>2, <2>3, Storer, RangeLemma
<1>2. Shape(i) /\ Bytes(i) /\ Cur(i) \in [Index -> 0..NBlocks] /\ Blk(i) \in [Index -> 0..NBlocks]
  BY <1>1, FileTypes DEF IInv
<1>3. \A l \in Index : Cur(i)[l] \in used_disk \cup {0}
  <2>1. CASE pc[p] = "w_table"
    BY <1>1, <1>2, <2>1 DEF Shape, InUse
  <2>2. CASE pc[p] = "w_put"
    BY <1>1, <2>2 DEF CallInv, Storing, Looping
  <2> QED BY ONLY <2>1, <2>2, pc[p] \in {"w_table", "w_put"}, Zenon
<1>4. /\ IsReq(s) /\ s.i = i /\ s.pos = r.pos /\ s.count = r.count /\ s.k = k
      /\ s.blocks = Cur(i)
  BY <1>1, AtLemma
<1>5. pc[p] \in {"w_table"} \cup Looping
  BY DEF Looping
<1>6. CASE Cur(i)[k] # 0 /\ Access(p, s) /\ UNCHANGED <<used, holder, file>>
  <2>1. PICK u : /\ req'[p] = u /\ IsReq(u)
                 /\ u.i = i /\ u.pos = r.pos /\ u.count = r.count /\ u.k = k
                 /\ u.blocks = Cur(i)
                 /\ pc'[p] \in {"w_get", "w_put"}
                 /\ pc' \in [Procs -> {"user"} \cup Reading \cup Writing] /\ DOMAIN req' = Procs
                 /\ \A q \in Procs \ {p} : pc'[q] = pc[q] /\ req'[q] = req[q]
                 /\ pc'[p] = "w_put" => \A c \in Offsets :
                      c \in Copied(s, s.k) /\ u.buf[c] = <<p, s.k * BLOCK_SIZE + c>>
    BY <1>4, <1>6, AccessLemma
  <2>2. pc'[p] \in Looping /\ pc'[p] # "w_bit"
    BY <2>1 DEF Looping
  <2>3. Copied(u, u.k) = Copied(s, s.k)
    BY <1>4, <2>1 DEF Copied, block_idx_start, block_idx_last
  <2>4. pc'[p] = "w_put" => \A c \in Offsets :
           u.buf[c] = IF c \in Copied(u, u.k) THEN <<p, u.k * BLOCK_SIZE + c>>
                                               ELSE disk'[u.blocks[u.k]][c]
    BY <1>4, <2>1, <2>3
  <2>5. used \subseteq Blocks /\ used_disk \subseteq used
    BY DEF IInv, ITypes
  <2>6. \A l \in Index : u.blocks[l] \in used_disk' \cup {0} \/ (pc'[p] = "w_bit" /\ l = u.k)
    BY <1>3, <2>1
  <2>7. UNCHANGED <<used, used_disk, itab, inode, holder, file>>
    BY <1>6
  <2> QED BY <1>1, <1>2, <1>5, <1>6, <2>1, <2>2, <2>4, <2>5, <2>6, <2>7, StoreStep
<1>7. CASE /\ Cur(i)[k] = 0 /\ used # Blocks /\ used' = used \cup {block_bitmap_alloc}
           /\ req' = [req EXCEPT ![p] = [s EXCEPT !.blocks[k] = block_bitmap_alloc]]
           /\ Goto(p, "w_bit") /\ UNCHANGED <<holder, file>>
  <2> DEFINE b == block_bitmap_alloc
             bs == [Cur(i) EXCEPT ![k] = b]
             u == At(r, bs, k)
  <2>1. b \in Blocks \ used
    BY <1>7, AllocLemma
  <2>2. [s EXCEPT !.blocks[k] = b] = u
    <3>1. ASSUME NEW x, x = At(r, Cur(i), k) PROVE [x EXCEPT !.blocks[k] = b] = At(r, bs, k)
      BY <1>1, <3>1 DEF At, IsReq
    <3> QED BY <3>1
  <2>3. /\ IsReq(u) /\ u.i = i /\ u.pos = r.pos /\ u.count = r.count /\ u.k = k /\ u.blocks = bs
    BY <1>1, AtLemma
  <2>4. /\ bs \in [Index -> 0..NBlocks] /\ bs[k] = b /\ b # 0
        /\ \A l \in Index \ {k} : bs[l] = Cur(i)[l]
    BY <1>1, <1>2, <2>1, FileTypes
  <2> HIDE DEF u, bs, b
  <2>5. /\ pc'[p] = "w_bit" /\ req'[p] = u
        /\ pc' \in [Procs -> {"user"} \cup Reading \cup Writing] /\ DOMAIN req' = Procs
        /\ \A q \in Procs \ {p} : pc'[q] = pc[q] /\ req'[q] = req[q]
    <3>1. req' = [req EXCEPT ![p] = u] /\ Goto(p, "w_bit")
      BY <1>7, <2>2 DEF b
    <3> QED BY <3>1, Moves DEF Writing
  <2>6. /\ used \subseteq Blocks /\ used_disk \subseteq used
        /\ used' \subseteq Blocks /\ b \in used' \ used /\ used \subseteq used'
        /\ b \notin used_disk
    BY <1>7, <2>1 DEF IInv, ITypes, b
  <2>7. ASSUME NEW n \in Positions
        PROVE  ByteAt(bs, disk', n) = ByteAt(Cur(i), disk', n)
    <3>1. n \div BLOCK_SIZE \in Index /\ n % BLOCK_SIZE \in Offsets
      BY Place
    <3>2. disk'[b] = ZeroBlock
      BY <2>1, <2>6
    <3> QED BY <1>7, <2>4, <3>1, <3>2 DEF ByteAt, ZeroBlock
  <2>8. \A n \in Positions :
           n < inode[i].i_size \/ (n \in Span(r) /\ n \div BLOCK_SIZE < u.k) =>
             ByteAt(u.blocks, disk', n) =
               IF n \in Span(r) /\ n \div BLOCK_SIZE < u.k THEN <<p, n>> ELSE file[i][n]
    BY <2>3, <2>7
  <2>9. \A l \in Index : u.blocks[l] \in used_disk' \cup {0} \/ (pc'[p] = "w_bit" /\ l = u.k)
    BY <1>3, <2>3, <2>4, <2>5
  <2>10. pc'[p] \in Looping /\ pc'[p] # "w_put" /\ UNCHANGED <<used_disk, itab, inode, holder, file>>
    BY <1>7, <2>5 DEF Looping
  <2> QED BY <1>1, <1>2, <1>5, <1>7, <2>3, <2>4, <2>5, <2>6, <2>8, <2>9, <2>10, StoreStep
<1>8. CASE Cur(i)[k] = 0 /\ used = Blocks /\ Fail(p, k)
  <2> DEFINE ns == Stored(p, k)
  <2>1. /\ ns = {n \in Span(r) : /\ n < inode[i].i_size
                                 /\ n \div BLOCK_SIZE < k /\ Blk(i)[n \div BLOCK_SIZE] # 0}
        /\ ns \subseteq Positions
    BY <1>1, SpanLemma DEF Stored, Blk
  <2> HIDE DEF ns
  <2>2. Leave(p) /\ Record(p, ns) /\ used' = used
    BY <1>8 DEF Fail, ns
  <2>3. Blk(i)' = Blk(i)
    BY DEF Blk
  <2>4. ~(holder[i] # NULL /\ pc[holder[i]] \in {"i_get", "i_put"}) /\ pc[p] # "user"
    BY <1>1
  <2>5. /\ itab' \in [Inodes -> DiskInode] /\ inode' = inode /\ used_disk' = used_disk
        /\ \A j \in Inodes \ {i} : itab'[j] = itab[j]
        /\ itab'[i].i_size = inode[i].i_size
        /\ \A l \in 0..NDIRECT - 1 : itab'[i].i_sectors[l] = inode[i].i_sectors[l]
    <3>1. /\ itab[i].i_size = inode[i].i_size
          /\ \A l \in 0..NDIRECT - 1 : itab[i].i_sectors[l] = inode[i].i_sectors[l]
      BY ONLY <1>2, <2>4, Zenon DEF Bytes
    <3>2. itab \in [Inodes -> DiskInode]
      BY DEF IInv, ITypes
    <3>3. itab' = itab /\ inode' = inode /\ used_disk' = used_disk
      OBVIOUS
    <3> QED BY ONLY <3>1, <3>2, <3>3
  <2>6. /\ TableOf(inode[i], disk') \in Tables
        /\ \A l \in 0..NDIRECT : itab'[i].i_sectors[l] \in {0, inode[i].i_sectors[l]}
        /\ itab'[i].i_sectors[NDIRECT] = 0 => \A l \in Index : l >= NDIRECT => Blk(i)'[l] = 0
        /\ \A l \in Index : Blk(i)'[l] \in {0, Cur(i)[l]} /\ Blk(i)'[l] \in used_disk \cup {0}
    <3>1. /\ \A l \in Index : Blk(i)[l] \in {0, Cur(i)[l]}
          /\ \A l \in Index : Blk(i)[l] \in used_disk \cup {0}
      BY ONLY <1>2, <1>3 DEF Shape
    <3>2. TableOf(inode[i], disk') \in Tables
      BY <1>2 DEF Shape
    <3>3. /\ itab' = itab
          /\ \A l \in 0..NDIRECT : itab[i].i_sectors[l] \in {0, inode[i].i_sectors[l]}
          /\ itab[i].i_sectors[NDIRECT] = 0 => \A l \in Index : l >= NDIRECT => Blk(i)[l] = 0
      BY <1>2, Zenon DEF Shape
    <3> QED BY ONLY <2>3, <3>1, <3>2, <3>3
  <2>7. ASSUME NEW n \in Positions, n < inode[i].i_size
        PROVE  ByteAt(Blk(i)', disk', n) = IF n \in ns THEN <<p, n>> ELSE file[i][n]
    <3>1. n \div BLOCK_SIZE \in Index
      BY Place
    <3>2. CASE Blk(i)[n \div BLOCK_SIZE] = 0
      <4>1. ByteAt(Blk(i)', disk', n) = Zero /\ n \notin ns
        BY <2>1, <2>3, <3>2 DEF ByteAt
      <4>2. file[i][n] = Zero
        <5>1. CASE pc[p] = "w_put"
          BY <1>1, <1>2, <2>7, <3>2, <5>1 DEF Bytes, Looping
        <5>2. CASE pc[p] = "w_table"
          <6>1. Cur(i) = Blk(i) /\ ~Stores(i)
            BY <1>1, <5>2 DEF Stores, Storing, Looping, Syncing
          <6>2. ByteAt(Blk(i), disk, n) = file[i][n]
            BY <1>2, <2>7, <6>1 DEF Bytes, Want, Done
          <6> QED BY <3>2, <6>2 DEF ByteAt
        <5> QED BY <5>1, <5>2
      <4> QED BY <4>1, <4>2
    <3>3. CASE Blk(i)[n \div BLOCK_SIZE] # 0
      <4>1. Blk(i)[n \div BLOCK_SIZE] = Cur(i)[n \div BLOCK_SIZE]
        BY <1>2, <3>1, <3>3 DEF Shape
      <4>2. ByteAt(Blk(i)', disk', n) = ByteAt(Cur(i), disk', n)
        BY <2>3, <4>1 DEF ByteAt
      <4>3. n \in ns <=> n \in Span(r) /\ n \div BLOCK_SIZE < k
        BY <2>1, <2>7, <3>3
      <4> QED BY <2>7, <4>2, <4>3
    <3> QED BY <3>2, <3>3
  <2>8. \A n \in ns : n < inode[i].i_size
    BY <2>1
  <2>9. /\ ns \subseteq Positions /\ i \in Inodes /\ req[p].i = i /\ holder[i] \in {NULL, p}
        /\ pc[p] # "user" /\ pc[p] \in Inside
    BY <1>1, <2>1, <2>4
  <2>10. /\ DOMAIN disk' = Blocks /\ \A b \in Blocks \ Owns(i) : disk'[b] = disk[b]
         /\ \A b \in Blocks \ used_disk : disk'[b] = ZeroBlock
    OBVIOUS
  <2> QED BY ONLY IInv, p \in Procs, <2>2, <2>5, <2>6, <2>7, <2>8, <2>9, <2>10, LeaveStep
<1>9. \/ Cur(i)[k] # 0 /\ Access(p, s) /\ UNCHANGED <<used, holder, file>>
      \/ /\ Cur(i)[k] = 0 /\ used # Blocks /\ used' = used \cup {block_bitmap_alloc}
         /\ req' = [req EXCEPT ![p] = [s EXCEPT !.blocks[k] = block_bitmap_alloc]]
         /\ Goto(p, "w_bit") /\ UNCHANGED <<holder, file>>
      \/ Cur(i)[k] = 0 /\ used = Blocks /\ Fail(p, k)
  <2>1. k = s.k /\ Cur(i) = s.blocks
    BY ONLY <1>4, Zenon
  <2>2. \/ s.blocks[s.k] # 0 /\ Access(p, s) /\ UNCHANGED <<used, holder, file>>
        \/ /\ s.blocks[s.k] = 0 /\ used # Blocks /\ used' = used \cup {block_bitmap_alloc}
           /\ req' = [req EXCEPT ![p] = [s EXCEPT !.blocks[s.k] = block_bitmap_alloc]]
           /\ Goto(p, "w_bit") /\ UNCHANGED <<holder, file>>
        \/ s.blocks[s.k] = 0 /\ used = Blocks /\ Fail(p, s.k)
    BY DEF Loop
  <2> QED BY ONLY <2>1, <2>2
<1> QED BY <1>6, <1>7, <1>8, <1>9

\* get_blocks_lba, and the first turn of the loop.
LEMMA WriteTableStep ==
  ASSUME IInv, NEW p \in Procs, WriteTable(p)
  PROVE  IInv'
<1> DEFINE r == req[p]
           i == r.i
           s == At(r, Cur(i), r.k)
<1>1. pc[p] = "w_table" /\ UNCHANGED <<used_disk, disk, itab, inode>>
  BY DEF WriteTable
<1>2. /\ i \in Inodes /\ holder[i] = p /\ p # NULL
      /\ IsReq(r) /\ IsRequest(r) /\ r.k = block_idx_start(r) /\ Cur(i) = Blk(i)
      /\ r.k \in block_idx_start(r)..block_idx_last(r)
  BY <1>1, Storer
<1>3. Loop(p, s)
  <2>1. Loop(p, [r EXCEPT !.blocks = Blk(i)])
    BY DEF WriteTable, Blk
  <2>2. ASSUME NEW x, IsReq(x), NEW y PROVE [x EXCEPT !.blocks = y] = At(x, y, x.k)
    BY <2>2 DEF At, IsReq
  <2>3. [r EXCEPT !.blocks = Blk(i)] = At(r, Blk(i), r.k)
    BY <1>2, <2>2
  <2> QED BY <1>2, <2>1, <2>3
<1>4. /\ DOMAIN disk' = Blocks /\ \A b \in Blocks \ Owns(i) : disk'[b] = disk[b]
      /\ \A b \in Blocks \ used_disk : disk'[b] = ZeroBlock
      /\ TableOf(inode[i], disk') = TableOf(inode[i], disk)
  BY <1>1 DEF IInv, ITypes
<1>5. ASSUME NEW n \in Positions,
             n < inode[i].i_size \/ (n \in Span(r) /\ n \div BLOCK_SIZE < r.k)
      PROVE  ByteAt(Cur(i), disk', n) =
               IF n \in Span(r) /\ n \div BLOCK_SIZE < r.k THEN <<p, n>> ELSE file[i][n]
  <2>1. ~(n \in Span(r) /\ n \div BLOCK_SIZE < r.k)
    BY <1>2, SpanLemma, RangeLemma
  <2>2. ~Stores(i)
    BY <1>1, <1>2 DEF Stores, Storing, Looping, Syncing
  <2>3. Bytes(i)
    BY <1>2 DEF IInv
  <2>4. ByteAt(Cur(i), disk, n) = file[i][n]
    BY <1>5, <2>1, <2>2, <2>3 DEF Bytes, Want, Done
  <2> QED BY <1>1, <2>1, <2>4
<1>6. r.k <= r.k
  BY <1>2, RangeLemma
<1> HIDE DEF s
<1>7. r = req[p] /\ i = r.i /\ s = At(r, Cur(i), r.k) /\ pc[p] \in {"w_table", "w_put"}
  BY <1>1 DEF s
<1> HIDE DEF r, i
<1> QED BY ONLY IInv, p \in Procs, <1>1, <1>2, <1>3, <1>4, <1>5, <1>6, <1>7, LoopStep, ZenonT(30)

\* The bitmap is on disk with the block that was taken.
LEMMA WriteBitStep ==
  ASSUME IInv, NEW p \in Procs, WriteBit(p)
  PROVE  IInv'
<1> DEFINE r == req[p]
           i == r.i
<1>1. /\ pc[p] = "w_bit" /\ used_disk' = used /\ Access(p, r)
      /\ UNCHANGED <<used, disk, itab, inode, holder, file>>
  BY DEF WriteBit
<1>2. pc[p] \in Storing /\ pc[p] \in {"w_table"} \cup Looping
  BY <1>1 DEF Storing, Looping
<1>3. /\ i \in Inodes /\ holder[i] = p /\ p # NULL
      /\ IsReq(r) /\ IsRequest(r) /\ r.k \in block_idx_start(r)..block_idx_last(r)
      /\ Cur(i) = r.blocks /\ r.blocks[r.k] # 0 /\ CallInv(p) /\ r.k \in Index
  BY <1>2, Storer
<1>4. PICK u : /\ req'[p] = u /\ IsReq(u)
               /\ u.i = i /\ u.pos = r.pos /\ u.count = r.count /\ u.k = r.k
               /\ u.blocks = r.blocks
               /\ pc'[p] \in {"w_get", "w_put"}
               /\ pc' \in [Procs -> {"user"} \cup Reading \cup Writing] /\ DOMAIN req' = Procs
               /\ \A q \in Procs \ {p} : pc'[q] = pc[q] /\ req'[q] = req[q]
               /\ pc'[p] = "w_put" => \A c \in Offsets :
                    c \in Copied(r, r.k) /\ u.buf[c] = <<p, r.k * BLOCK_SIZE + c>>
  BY <1>1, <1>3, AccessLemma
<1>5. pc'[p] \in Looping
  BY <1>4 DEF Looping
<1>6. Copied(u, u.k) = Copied(r, r.k)
  BY <1>4 DEF Copied, block_idx_start, block_idx_last
<1>7. pc'[p] = "w_put" => \A c \in Offsets :
        u.buf[c] = IF c \in Copied(u, u.k) THEN <<p, u.k * BLOCK_SIZE + c>>
                                            ELSE disk'[u.blocks[u.k]][c]
  BY <1>4, <1>6
<1>8. /\ used \subseteq Blocks /\ used_disk \subseteq used /\ DOMAIN disk = Blocks
      /\ \A b \in Blocks \ used_disk' : disk'[b] = ZeroBlock
  BY <1>1 DEF IInv, ITypes
<1>9. Shape(i) /\ Bytes(i) /\ Cur(i) \in [Index -> 0..NBlocks]
  BY <1>3, FileTypes DEF IInv
<1>10. \A l \in Index : u.blocks[l] \in used_disk' \cup {0}
  <2>1. \A l \in Index : Cur(i)[l] \in Owns(i) \cup {0}
    BY DEF Owns
  <2> QED BY <1>1, <1>3, <1>4, <1>9, <2>1 DEF Shape
<1>11. ASSUME NEW n \in Positions,
              n < inode[i].i_size \/ (n \in Span(r) /\ n \div BLOCK_SIZE < u.k)
       PROVE  ByteAt(u.blocks, disk', n) =
                IF n \in Span(r) /\ n \div BLOCK_SIZE < u.k THEN <<p, n>> ELSE file[i][n]
  <2>1. Stores(i) /\ pc[p] \notin Syncing
    BY <1>1, <1>3 DEF Stores, Storing, Looping, Syncing
  <2>2. /\ Done(i, n) <=> n \in Span(r) /\ n \div BLOCK_SIZE < u.k
        /\ Want(i, n) = IF n \in Span(r) /\ n \div BLOCK_SIZE < u.k THEN <<p, n>> ELSE file[i][n]
    BY <1>3, <1>4, <2>1 DEF Done, Want
  <2>3. ByteAt(Cur(i), disk, n) = Want(i, n)
    BY <1>9, <1>11, <2>2 DEF Bytes
  <2>4. ByteAt(u.blocks, disk', n) = ByteAt(Cur(i), disk, n)
    BY <1>1, <1>3, <1>4
  <2> QED BY <2>2, <2>3, <2>4
<1>12. TableOf(inode[i], disk') = TableOf(inode[i], disk) /\ r.k <= u.k
  BY <1>1, <1>3, <1>4, RangeLemma
<1>13. r = req[p] /\ i = r.i
  OBVIOUS
<1> HIDE DEF r, i
<1>14. u.k \in block_idx_start(r)..block_idx_last(r) /\ u.blocks[u.k] # 0 /\ u.blocks = Cur(i)
  BY <1>3, <1>4
<1>15. /\ used \subseteq used' /\ used' \subseteq Blocks
       /\ used_disk \subseteq used_disk' /\ used_disk' \subseteq used'
       /\ DOMAIN disk' = Blocks /\ \A b \in Blocks \ Owns(i) : disk'[b] = disk[b]
       /\ UNCHANGED <<itab, inode, holder, file>>
  BY <1>1, <1>8
<1> QED BY <1>2, <1>4, <1>5, <1>7, <1>8, <1>9, <1>10, <1>11, <1>12, <1>13, <1>14, <1>15, StoreStep

\* The first or the last block is read before it is changed.
LEMMA WriteGetStep ==
  ASSUME IInv, NEW p \in Procs, WriteGet(p)
  PROVE  IInv'
<1> DEFINE r == req[p]
           i == r.i
           old == disk[r.blocks[r.k]]
           u == BufAt(r, Merged(p, r, old))
<1>1. /\ pc[p] = "w_get" /\ Goto(p, "w_put") /\ req' = [req EXCEPT ![p] = u]
      /\ UNCHANGED <<used, used_disk, disk, itab, inode, holder, file>>
  <2>1. pc[p] = "w_get" /\ Goto(p, "w_put") /\ UNCHANGED <<used, used_disk, disk, itab, inode, holder, file>>
    BY DEF WriteGet
  <2>2. req' = [req EXCEPT ![p].buf = Merged(p, r, old)]
    BY DEF WriteGet
  <2> QED BY <2>1, <2>2 DEF BufAt
<1>2. pc[p] \in Storing /\ pc[p] \in {"w_table"} \cup Looping
  BY <1>1 DEF Storing, Looping
<1>3. /\ i \in Inodes /\ holder[i] = p /\ p # NULL
      /\ IsReq(r) /\ IsRequest(r) /\ r.k \in block_idx_start(r)..block_idx_last(r)
      /\ Cur(i) = r.blocks /\ r.blocks[r.k] # 0 /\ CallInv(p) /\ r.k \in Index
  BY <1>2, Storer
<1>4. /\ IsReq(u) /\ u.i = i /\ u.pos = r.pos /\ u.count = r.count /\ u.k = r.k
      /\ u.blocks = r.blocks /\ u.buf = Merged(p, r, old)
  BY <1>3, BufAtLemma
<1> HIDE DEF u
<1>5. /\ pc'[p] = "w_put" /\ req'[p] = u /\ pc'[p] \in Looping
      /\ pc' \in [Procs -> {"user"} \cup Reading \cup Writing] /\ DOMAIN req' = Procs
      /\ \A q \in Procs \ {p} : pc'[q] = pc[q] /\ req'[q] = req[q]
  BY <1>1, Moves DEF Writing, Looping
<1>6. Copied(u, u.k) = Copied(r, r.k)
  BY <1>4 DEF Copied, block_idx_start, block_idx_last
<1>7. ASSUME NEW c \in Offsets
      PROVE  u.buf[c] = IF c \in Copied(u, u.k) THEN <<p, u.k * BLOCK_SIZE + c>>
                                                ELSE disk'[u.blocks[u.k]][c]
  <2>1. Merged(p, r, old)[c] = IF c \in Copied(r, r.k) THEN <<p, r.k * BLOCK_SIZE + c>> ELSE old[c]
    BY MergedLemma
  <2>2. disk'[u.blocks[u.k]] = old
    BY <1>1, <1>4
  <2> HIDE DEF old, r
  <2> QED BY <1>4, <1>6, <2>1, <2>2
<1>8. /\ used \subseteq Blocks /\ used_disk \subseteq used /\ DOMAIN disk = Blocks
      /\ \A b \in Blocks \ used_disk' : disk'[b] = ZeroBlock
  BY <1>1 DEF IInv, ITypes
<1>9. Shape(i) /\ Bytes(i) /\ Cur(i) \in [Index -> 0..NBlocks]
  BY <1>3, FileTypes DEF IInv
<1>10. \A l \in Index : u.blocks[l] \in used_disk' \cup {0}
  BY <1>1, <1>2, <1>3, <1>4 DEF CallInv
<1>11. ASSUME NEW n \in Positions,
              n < inode[i].i_size \/ (n \in Span(r) /\ n \div BLOCK_SIZE < u.k)
       PROVE  ByteAt(u.blocks, disk', n) =
                IF n \in Span(r) /\ n \div BLOCK_SIZE < u.k THEN <<p, n>> ELSE file[i][n]
  <2>1. Stores(i) /\ pc[p] \notin Syncing
    BY <1>1, <1>3 DEF Stores, Storing, Looping, Syncing
  <2>2. /\ Done(i, n) <=> n \in Span(r) /\ n \div BLOCK_SIZE < u.k
        /\ Want(i, n) = IF n \in Span(r) /\ n \div BLOCK_SIZE < u.k THEN <<p, n>> ELSE file[i][n]
    BY <1>3, <1>4, <2>1 DEF Done, Want
  <2>3. ByteAt(Cur(i), disk, n) = Want(i, n)
    BY <1>9, <1>11, <2>2 DEF Bytes
  <2>4. ByteAt(u.blocks, disk', n) = ByteAt(Cur(i), disk, n)
    BY <1>1, <1>3, <1>4
  <2> QED BY <2>2, <2>3, <2>4
<1>12. TableOf(inode[i], disk') = TableOf(inode[i], disk) /\ r.k <= u.k
  BY <1>1, <1>3, <1>4, RangeLemma
<1>13. r = req[p] /\ i = r.i
  OBVIOUS
<1> HIDE DEF r, i
<1>14. u.k \in block_idx_start(r)..block_idx_last(r) /\ u.blocks[u.k] # 0 /\ u.blocks = Cur(i)
  BY <1>3, <1>4
<1>15. /\ used \subseteq used' /\ used' \subseteq Blocks
       /\ used_disk \subseteq used_disk' /\ used_disk' \subseteq used'
       /\ DOMAIN disk' = Blocks /\ \A b \in Blocks \ Owns(i) : disk'[b] = disk[b]
       /\ UNCHANGED <<itab, inode, holder, file>>
  BY <1>1, <1>8
<1>16. /\ IInv /\ p \in Procs /\ i = req[p].i /\ pc[p] \in {"w_table"} \cup Looping
       /\ req'[p] = u /\ IsReq(u) /\ u.i = i /\ u.pos = req[p].pos /\ u.count = req[p].count
       /\ u.k \in block_idx_start(req[p])..block_idx_last(req[p]) /\ req[p].k <= u.k
       /\ u.blocks \in [Index -> 0..NBlocks] /\ u.blocks[u.k] # 0
       /\ u.blocks[u.k] = Cur(i)[u.k]
  BY ONLY IInv, p \in Procs, <1>2, <1>4, <1>5, <1>9, <1>12, <1>13, <1>14
<1>17. /\ \A l \in Index \ {u.k} : u.blocks[l] = Cur(i)[l]
       /\ \A l \in Index : u.blocks[l] \in used_disk' \cup {0} \/ (pc'[p] = "w_bit" /\ l = u.k)
       /\ \A b \in Blocks \ used_disk' : disk'[b] = ZeroBlock
  BY ONLY <1>8, <1>10, <1>14
<1>18. \A n \in Positions :
         n < inode[i].i_size \/ (n \in Span(req[p]) /\ n \div BLOCK_SIZE < u.k) =>
           ByteAt(u.blocks, disk', n) =
             IF n \in Span(req[p]) /\ n \div BLOCK_SIZE < u.k THEN <<p, n>> ELSE file[i][n]
  BY ONLY <1>11, <1>13
<1> QED BY ONLY <1>5, <1>7, <1>12, <1>15, <1>16, <1>17, <1>18, StoreStep

-----------------------------------------------------------------------------
(* The lock and the indirect block *)

\* inode_write gets the lock, and takes an indirect block if it needs one.
LEMMA WriteLockStep ==
  ASSUME IInv, NEW p \in Procs, NEW r, r = req[p], NEW i, i = r.i, WriteLock(p)
  PROVE  IInv'
<1> DEFINE grows == inode[i].i_sectors[NDIRECT] = 0 /\ r.pos + r.count > NDIRECT * BLOCK_SIZE
<1>1. pc[p] = "w_lock" /\ holder[i] = NULL /\ UNCHANGED <<used_disk, disk, itab, inode>>
  BY DEF WriteLock
<1>2. /\ i \in Inodes /\ IsReq(r) /\ IsRequest(r) /\ ~Loses(r) /\ r.pos <= inode[i].i_size
      /\ r.k = block_idx_start(r) /\ r.k \in block_idx_start(r)..block_idx_last(r)
      /\ r.blocks = <<>>
  BY <1>1 DEF IInv, CallInv, Writing
<1>3. /\ "w_lock" \notin Inside /\ "w_ibit" \in Inside /\ "w_table" \in Inside
      /\ "w_lock" \notin Storing /\ "w_ibit" \notin Storing /\ "w_table" \notin Storing
  BY DEF Inside, Storing, Looping, Syncing
<1>4. CASE /\ grows /\ used # Blocks /\ used' = used \cup {block_bitmap_alloc}
           /\ req' = [req EXCEPT ![p].new = block_bitmap_alloc] /\ Goto(p, "w_ibit")
           /\ holder' = [holder EXCEPT ![i] = p] /\ UNCHANGED file
  <2> DEFINE b == block_bitmap_alloc
             u == NewAt(r, b)
  <2>1. b \in Blocks \ used
    BY <1>4, AllocLemma
  <2>2. req' = [req EXCEPT ![p] = u]
    BY <1>4 DEF NewAt
  <2>3. /\ IsReq(u) /\ u.i = i /\ u.pos = r.pos /\ u.count = r.count /\ u.k = r.k
        /\ u.new = b /\ u.blocks = r.blocks
    BY <1>2, NewAtLemma
  <2> HIDE DEF u, b
  <2>4. /\ pc'[p] = "w_ibit" /\ req'[p] = u
        /\ pc' \in [Procs -> {"user"} \cup Reading \cup Writing] /\ DOMAIN req' = Procs
        /\ \A q \in Procs \ {p} : pc'[q] = pc[q] /\ req'[q] = req[q]
    BY <1>4, <2>2, Moves DEF Writing
  <2>5. /\ LockInv' /\ holder'[i] = p /\ p # NULL
        /\ holder' \in [Inodes -> Procs \cup {NULL}]
        /\ \A j \in Inodes \ {i} : holder'[j] = holder[j]
    <3>1. /\ Takes(p, i) /\ pc[p] \notin Inside /\ pc'[p] \in Inside
          /\ req'[p].i = i /\ holder[i] = NULL /\ i \in Inodes
      BY <1>1, <1>2, <1>3, <1>4, <2>3, <2>4 DEF Takes
    <3>2. Rest(p)
      BY <2>4 DEF Rest
    <3> QED BY ONLY IInv, p \in Procs, <3>1, <3>2, TakeLock, Zenon
  <2>6. used \subseteq used' /\ b \in used' /\ used' \subseteq Blocks
    BY <1>4, <2>1 DEF IInv, ITypes, b
  <2>7. ITypes'
    BY <1>1, <1>4, <2>4, <2>5, <2>6 DEF IInv, ITypes
  <2>8. New(i)' = {b}
    BY <2>3, <2>4, <2>5 DEF New
  <2>9. CallInv(p)'
    <3>1. /\ IsRequest(u) /\ ~Loses(u) /\ u.k = block_idx_start(u)
          /\ u.k \in block_idx_start(u)..block_idx_last(u)
      BY <1>2, <2>3 DEF IsRequest, Loses, block_idx_start, block_idx_last
    <3>2. u.i \in Inodes /\ u.pos <= inode'[u.i].i_size /\ u.blocks = <<>>
      BY <1>1, <1>2, <2>3
    <3> HIDE DEF grows
    <3> QED BY <2>3, <2>4, <2>6, <3>1, <3>2 DEF CallInv, Reading, Writing, Storing, Looping, Syncing
  <2>10. UNCHANGED <<disk, itab, inode, file>> /\ used_disk \subseteq used_disk'
    BY <1>1, <1>4
  <2>11. /\ holder[i] \in {NULL, p} /\ holder'[i] \in {NULL, p} /\ pc[p] \notin Inside
         /\ pc[p] \notin Storing /\ pc'[p] \notin Storing
         /\ inode[i].i_sectors[NDIRECT] = 0
         /\ New(i)' \subseteq New(i) \cup (Blocks \ used) /\ New(i)' \subseteq used'
    BY <1>1, <1>3, <1>4, <2>1, <2>4, <2>5, <2>6, <2>8
  <2> QED BY <1>2, <2>4, <2>5, <2>6, <2>7, <2>9, <2>10, <2>11, BitsStep
<1>5. CASE grows /\ used = Blocks /\ Fail(p, r.k)
  <2> DEFINE ns == Stored(p, r.k)
  <2>1. ns = {}
    <3>1. \A n \in Span(r) : ~(n \div BLOCK_SIZE < r.k)
      BY <1>2, SpanLemma, RangeLemma
    <3> QED BY <3>1 DEF Stored
  <2>2. Leave(p) /\ Record(p, {}) /\ used' = used
    BY <1>5, <2>1 DEF Fail
  <2>3. Blk(i)' = Blk(i)
    BY <1>1 DEF Blk
  <2>4. Shape(i) /\ Bytes(i) /\ ~Stores(i) /\ Cur(i) = Blk(i) /\ pc[p] # "user"
    BY <1>1, <1>2 DEF IInv, Stores, Cur
  <2>5. /\ itab' \in [Inodes -> DiskInode] /\ inode' = inode /\ used_disk' = used_disk
        /\ \A j \in Inodes \ {i} : itab'[j] = itab[j]
        /\ itab'[i].i_size = inode[i].i_size
        /\ \A l \in 0..NDIRECT - 1 : itab'[i].i_sectors[l] = inode[i].i_sectors[l]
    BY <1>1, <2>4 DEF IInv, ITypes, Bytes
  <2>6. /\ DOMAIN disk' = Blocks /\ \A b \in Blocks \ Owns(i) : disk'[b] = disk[b]
        /\ \A b \in Blocks \ used_disk : disk'[b] = ZeroBlock
        /\ TableOf(inode[i], disk') \in Tables
    BY <1>1, <2>4 DEF IInv, ITypes, Shape
  <2>7. /\ \A l \in 0..NDIRECT : itab'[i].i_sectors[l] \in {0, inode[i].i_sectors[l]}
        /\ itab'[i].i_sectors[NDIRECT] = 0 => \A l \in Index : l >= NDIRECT => Blk(i)'[l] = 0
    BY <1>1, <2>3, <2>4 DEF Shape
  <2>8. \A l \in Index : Blk(i)'[l] \in {0, Cur(i)[l]} /\ Blk(i)'[l] \in used_disk \cup {0}
    <3>1. Blk(i) \in [Index -> 0..NBlocks]
      BY <1>2, FileTypes
    <3> QED BY <2>3, <2>4, <3>1 DEF Shape, InUse
  <2>9. \A n \in Positions : n < inode[i].i_size =>
           ByteAt(Blk(i)', disk', n) = IF n \in {} THEN <<p, n>> ELSE file[i][n]
    <3> SUFFICES ASSUME NEW n \in Positions, n < inode[i].i_size
                 PROVE  ByteAt(Blk(i), disk, n) = file[i][n]
      BY <1>1, <2>3
    <3> QED BY <2>4 DEF Bytes, Want, Done
  <2>10. i \in Inodes /\ req[p].i = i /\ holder[i] \in {NULL, p} /\ holder[i] = NULL
    BY <1>1, <1>2
  <2>11. {} \subseteq Positions /\ \A n \in {} : n < inode[i].i_size
    OBVIOUS
  <2> HIDE DEF ns, grows
  <2> QED BY ONLY IInv, p \in Procs, <2>2, <2>4, <2>5, <2>6, <2>7, <2>8, <2>9, <2>10, <2>11, LeaveStep
<1>6. CASE /\ ~grows /\ Goto(p, "w_table")
           /\ holder' = [holder EXCEPT ![i] = p] /\ UNCHANGED <<used, req, file>>
  <2>1. /\ pc'[p] = "w_table" /\ req'[p] = r
        /\ pc' \in [Procs -> {"user"} \cup Reading \cup Writing] /\ DOMAIN req' = Procs
        /\ \A q \in Procs \ {p} : pc'[q] = pc[q] /\ req'[q] = req[q]
    BY <1>6 DEF IInv, ITypes, Goto, Writing
  <2>2. /\ LockInv' /\ holder'[i] = p /\ p # NULL
        /\ holder' \in [Inodes -> Procs \cup {NULL}]
        /\ \A j \in Inodes \ {i} : holder'[j] = holder[j]
    <3>1. /\ Takes(p, i) /\ pc[p] \notin Inside /\ pc'[p] \in Inside
          /\ req'[p].i = i /\ holder[i] = NULL /\ i \in Inodes
      BY <1>1, <1>2, <1>3, <1>6, <2>1 DEF Takes
    <3>2. Rest(p)
      BY <2>1 DEF Rest
    <3> QED BY ONLY IInv, p \in Procs, <3>1, <3>2, TakeLock, Zenon
  <2>3. inode'[i].i_sectors[NDIRECT] = 0 => r.pos + r.count <= NDIRECT * BLOCK_SIZE
    <3>1. NDIRECT * BLOCK_SIZE \in Nat
      BY ONLY Sizes, BlockSize, Product
    <3>2. r.pos + r.count \in Nat
      BY <1>2 DEF IsRequest
    <3> QED BY <1>1, <1>6, <3>1, <3>2
  <2>4. CallInv(p)'
    <3>1. inode' = inode
      BY <1>1
    <3> HIDE DEF grows
    <3> QED BY <1>2, <2>1, <2>3, <3>1 DEF CallInv, Reading, Writing, Storing, Looping, Syncing
  <2>5. /\ holder[i] \in {NULL, p} /\ holder'[i] \in {NULL, p} /\ pc[p] \notin Inside
        /\ pc[p] \notin Storing \cup {"w_ibit", "w_izero"}
        /\ pc'[p] \notin Storing \cup {"w_ibit", "w_izero"}
        /\ UNCHANGED <<used, used_disk, disk, itab, inode, file>>
    BY <1>1, <1>3, <1>6, <2>1, <2>2
  <2> QED BY <1>2, <2>1, <2>2, <2>4, <2>5, IdleStep
<1> QED BY <1>4, <1>5, <1>6 DEF WriteLock

\* The bitmap is on disk with the indirect block.
LEMMA IndirectBitStep ==
  ASSUME IInv, NEW p \in Procs, NEW r, r = req[p], NEW i, i = r.i, IndirectBit(p)
  PROVE  IInv'
<1>1. /\ pc[p] = "w_ibit" /\ used_disk' = used /\ Goto(p, "w_izero") /\ req' = req
      /\ holder' = holder /\ used' = used /\ UNCHANGED <<disk, itab, inode, file>>
  BY DEF IndirectBit
<1>2. /\ IsReq(r) /\ IsRequest(r) /\ ~Loses(r) /\ r.pos <= inode[i].i_size
      /\ r.k = block_idx_start(r) /\ r.k \in block_idx_start(r)..block_idx_last(r)
      /\ r.blocks = <<>> /\ r.new \in used
  BY <1>1 DEF IInv, CallInv, Writing
<1>3. i \in Inodes /\ holder[i] = p /\ p # NULL
  BY <1>1, Holds DEF Inside
<1>4. /\ pc'[p] = "w_izero" /\ req'[p] = r
      /\ pc' \in [Procs -> {"user"} \cup Reading \cup Writing] /\ DOMAIN req' = Procs
      /\ \A q \in Procs \ {p} : pc'[q] = pc[q] /\ req'[q] = req[q]
  BY <1>1 DEF IInv, ITypes, Goto, Writing
<1>5. /\ pc[p] \in Inside /\ pc'[p] \in Inside /\ pc[p] \notin Storing /\ pc'[p] \notin Storing
  BY <1>1, <1>4 DEF Inside, Storing, Looping, Syncing
<1>6. LockInv'
  BY <1>1, <1>4, <1>5, StayLock
<1>7. ITypes'
  BY <1>1, <1>4 DEF IInv, ITypes
<1>8. New(i) = {r.new} /\ New(i)' = {r.new}
  BY <1>1, <1>3, <1>4 DEF New
<1>9. inode[i].i_sectors[NDIRECT] = 0
  BY <1>3, <1>8 DEF IInv, Shape
<1>10. CallInv(p)'
  <2>1. inode' = inode /\ r.new \in used' /\ r.new \in used_disk'
    BY <1>1, <1>2
  <2> QED BY <1>2, <1>3, <1>4, <2>1 DEF CallInv, Reading, Writing, Storing, Looping, Syncing
<1>11. used \subseteq used' /\ used_disk \subseteq used_disk'
  BY <1>1 DEF IInv, ITypes
<1>12. /\ holder[i] \in {NULL, p} /\ holder'[i] \in {NULL, p} /\ req[p].i = i
       /\ New(i)' \subseteq New(i) \cup (Blocks \ used) /\ New(i)' \subseteq used'
       /\ \A j \in Inodes \ {i} : holder'[j] = holder[j]
  BY <1>1, <1>2, <1>3, <1>8
<1> QED BY <1>1, <1>3, <1>4, <1>5, <1>6, <1>7, <1>9, <1>10, <1>11, <1>12, BitsStep

\* The inode that has an indirect block.
Extended(ino, t) == [ino EXCEPT !.i_sectors[NDIRECT] = t]

\* What an inode is with its indirect block.
LEMMA ExtendedLemma ==
  ASSUME NEW x \in DiskInode, NEW t \in 0..NBlocks
  PROVE  LET y == Extended(x, t)
         IN  /\ y \in DiskInode /\ y.i_size = x.i_size /\ y.i_sectors[NDIRECT] = t
             /\ \A s \in 0..NDIRECT - 1 : y.i_sectors[s] = x.i_sectors[s]
<1>1. NDIRECT \in 0..NDIRECT /\ NDIRECT \notin 0..NDIRECT - 1 /\ 0..NDIRECT - 1 \subseteq 0..NDIRECT
  BY Sizes
<1>2. ASSUME NEW y, y = Extended(x, t)
      PROVE  /\ y \in DiskInode /\ y.i_size = x.i_size /\ y.i_sectors[NDIRECT] = t
             /\ \A s \in 0..NDIRECT - 1 : y.i_sectors[s] = x.i_sectors[s]
  BY <1>1, <1>2 DEF DiskInode, Extended
<1> QED BY <1>2

\* The indirect block is cleared, and hung on the inode.
LEMMA IndirectClearStep ==
  ASSUME IInv, NEW p \in Procs, NEW r, r = req[p], NEW i, i = r.i, NEW t, t = r.new,
         IndirectClear(p)
  PROVE  IInv'
<1>1. /\ pc[p] = "w_izero" /\ disk' = [disk EXCEPT ![t] = ZeroTable]
      /\ inode' = [inode EXCEPT ![i].i_sectors[NDIRECT] = t]
      /\ Goto(p, "w_table") /\ req' = req /\ holder' = holder
      /\ UNCHANGED <<used, used_disk, itab, file>>
  BY DEF IndirectClear
<1>2. /\ IsReq(r) /\ IsRequest(r) /\ ~Loses(r) /\ r.pos <= inode[i].i_size
      /\ r.k = block_idx_start(r) /\ r.k \in block_idx_start(r)..block_idx_last(r)
      /\ r.blocks = <<>> /\ t \in used_disk
  BY <1>1 DEF IInv, CallInv, Writing
<1>3. i \in Inodes /\ holder[i] = p /\ p # NULL
  BY <1>1, Holds DEF Inside
<1>4. /\ pc'[p] = "w_table" /\ req'[p] = r
      /\ pc' \in [Procs -> {"user"} \cup Reading \cup Writing] /\ DOMAIN req' = Procs
      /\ \A q \in Procs \ {p} : pc'[q] = pc[q] /\ req'[q] = req[q]
  BY <1>1 DEF IInv, ITypes, Goto, Writing
<1>5. /\ pc[p] \in Inside /\ pc'[p] \in Inside /\ pc[p] \notin Storing /\ pc'[p] \notin Storing
  BY <1>1, <1>4 DEF Inside, Storing, Looping, Syncing
<1>6. LockInv'
  BY <1>1, <1>4, <1>5, StayLock
<1>7. Shape(i) /\ Bytes(i) /\ inode[i] \in DiskInode /\ Blk(i) \in [Index -> 0..NBlocks]
  BY <1>3, FileTypes DEF IInv
<1>8. /\ t \in Blocks /\ t # 0 /\ DOMAIN disk = Blocks /\ used_disk \subseteq used /\ used \subseteq Blocks
      /\ inode \in [Inodes -> DiskInode]
  BY <1>2, <1>3, FileTypes DEF IInv, ITypes
<1>9. /\ New(i) = {t} /\ Cur(i) = Blk(i) /\ ~Stores(i)
      /\ New(i)' = {} /\ Cur(i)' = Blk(i)' /\ ~Stores(i)'
  BY <1>1, <1>3, <1>4, <1>5 DEF New, Cur, Stores
<1>10. inode[i].i_sectors[NDIRECT] = 0 /\ \A k \in Index : Blk(i)[k] # t
  BY <1>7, <1>9 DEF Shape
<1>11. /\ inode'[i] \in DiskInode /\ inode'[i].i_size = inode[i].i_size
       /\ inode'[i].i_sectors[NDIRECT] = t
       /\ \A s \in 0..NDIRECT - 1 : inode'[i].i_sectors[s] = inode[i].i_sectors[s]
       /\ \A j \in Inodes \ {i} : inode'[j] = inode[j]
  <2>1. t \in 0..NBlocks /\ inode[i] \in DiskInode
    BY <1>3, <1>7, <1>8, FileTypes
  <2>2. inode'[i] = Extended(inode[i], t) /\ \A j \in Inodes \ {i} : inode'[j] = inode[j]
    BY <1>1, <1>3, <1>8 DEF Extended
  <2> QED BY ONLY <2>1, <2>2, ExtendedLemma
<1>12. /\ DOMAIN disk' = Blocks /\ disk'[t] = ZeroTable
       /\ \A b \in Blocks \ {t} : disk'[b] = disk[b]
  BY <1>1, <1>8
<1>13. TableOf(inode[i], disk) = ZeroTable /\ TableOf(inode'[i], disk') = ZeroTable
  BY <1>8, <1>10, <1>11, <1>12 DEF TableOf
<1>14. Blk(i)' = Blk(i)
  <2>1. /\ \A k \in Index : Blk(i)'[k] = IF k < NDIRECT THEN inode'[i].i_sectors[k]
                                         ELSE TableOf(inode'[i], disk')[k - NDIRECT][2]
        /\ \A k \in Index : Blk(i)[k] = IF k < NDIRECT THEN inode[i].i_sectors[k]
                                        ELSE TableOf(inode[i], disk)[k - NDIRECT][2]
        /\ Blk(i)' \in [Index -> 0..NBlocks]
    <3>1. ZeroTable \in Tables
      BY <1>7, <1>13 DEF Shape
    <3> QED BY <1>7, <1>11, <1>13, <3>1, BlocksLemma DEF Blk
  <2>2. \A k \in Index : Blk(i)'[k] = Blk(i)[k]
    <3> SUFFICES ASSUME NEW k \in Index PROVE Blk(i)'[k] = Blk(i)[k]
      OBVIOUS
    <3>1. k \in Nat /\ (k < NDIRECT => k \in 0..NDIRECT - 1)
      BY Sizes DEF Index
    <3> QED BY <1>11, <1>13, <2>1, <3>1
  <2> QED BY <1>7, <2>1, <2>2
<1>15. Owns(i)' = Owns(i)
  BY <1>9, <1>10, <1>11, <1>14 DEF Owns
<1>16. \A b \in Blocks \ Owns(i) : disk'[b] = disk[b]
  <2>1. t \in Owns(i)
    BY <1>8, <1>9 DEF Owns
  <2> QED BY <1>12, <2>1
<1>17. ITypes'
  <2>1. inode' \in [Inodes -> DiskInode]
    BY <1>1, <1>8, <1>11
  <2>2. \A b \in Blocks \ used_disk : disk'[b] = ZeroBlock
    BY <1>2, <1>12 DEF IInv, ITypes
  <2> QED BY <1>1, <1>4, <1>12, <2>1, <2>2 DEF IInv, ITypes
<1>18. Shape(i)'
  <2>1. TableOf(inode'[i], disk') \in Tables
    BY <1>7, <1>13 DEF Shape
  <2>2. \A s \in 0..NDIRECT : itab'[i].i_sectors[s] \in {0, inode'[i].i_sectors[s]}
    <3> SUFFICES ASSUME NEW s \in 0..NDIRECT PROVE itab[i].i_sectors[s] \in {0, inode'[i].i_sectors[s]}
      BY <1>1
    <3>1. s = NDIRECT \/ s \in 0..NDIRECT - 1
      BY Sizes
    <3> QED BY <1>7, <1>10, <1>11, <3>1 DEF Shape
  <2>3. InUse(Blk(i)', inode'[i]) \subseteq used_disk'
    <3>1. \A k \in Index : Blk(i)[k] \in used_disk \cup {0}
      BY <1>7 DEF Shape, InUse
    <3>2. used_disk' = used_disk /\ inode'[i].i_sectors[NDIRECT] \in used_disk
      BY <1>1, <1>2, <1>11
    <3>3. Blk(i)' = Blk(i) /\ DOMAIN Blk(i) = Index
      BY <1>7, <1>14
    <3> QED BY <3>1, <3>2, <3>3 DEF InUse
  <2>4. Owns(i)' \subseteq used'
    BY <1>1, <1>7, <1>15 DEF Shape
  <2>5. /\ Cur(i)' = Cur(i) /\ Cur(i) = Blk(i)
    BY <1>9, <1>14
  <2>6. itab' = itab
    BY <1>1
  <2>7. \A k \in Index : Cur(i)'[k] # inode'[i].i_sectors[NDIRECT]
    BY <1>10, <1>11, <2>5
  <2>8. /\ \A k, l \in Index : Cur(i)'[k] = Cur(i)'[l] /\ Cur(i)'[k] # 0 => k = l
        /\ itab'[i].i_sectors[NDIRECT] = 0 => \A k \in Index : k >= NDIRECT => Blk(i)'[k] = 0
        /\ Cur(i)' \in [Index -> 0..NBlocks]
        /\ \A k \in Index : Blk(i)'[k] \in {0, Cur(i)'[k]}
    BY <1>7, <1>14, <2>5, <2>6 DEF Shape
  <2> QED BY ONLY <1>9, <2>1, <2>2, <2>3, <2>4, <2>7, <2>8 DEF Shape
<1>19. Bytes(i)'
  <2>1. ASSUME NEW n \in Positions
        PROVE  /\ ByteAt(Cur(i)', disk', n) = ByteAt(Cur(i), disk, n)
               /\ ~Done(i, n) /\ ~Done(i, n)' /\ Want(i, n) = file[i][n] /\ Want(i, n)' = file'[i][n]
    <3>1. n \div BLOCK_SIZE \in Index
      BY Place
    <3>2. Blk(i)[n \div BLOCK_SIZE] \in Blocks \cup {0} /\ Blk(i)[n \div BLOCK_SIZE] # t
      BY <1>3, <1>10, <3>1, FileTypes
    <3>3. ByteAt(Cur(i)', disk', n) = ByteAt(Cur(i), disk, n)
      BY <1>9, <1>12, <1>14, <3>2 DEF ByteAt
    <3>4. /\ ~Done(i, n) /\ ~Done(i, n)' /\ Want(i, n) = file[i][n] /\ Want(i, n)' = file'[i][n]
      BY <1>9 DEF Done, Want
    <3> QED BY <3>3, <3>4
  <2>2. /\ ~(holder[i] # NULL /\ pc[holder[i]] \in {"i_get", "i_put"})
        /\ ~(holder'[i] # NULL /\ pc'[holder'[i]] \in Looping)
    <3>1. holder' = holder /\ holder[i] = p /\ pc[p] = "w_izero" /\ pc'[p] = "w_table"
      BY <1>1, <1>3, <1>4
    <3> QED BY ONLY <3>1 DEF Looping
  <2>3. /\ \A n \in Positions : n >= inode'[i].i_size => file'[i][n] = Zero
        /\ itab'[i].i_size = inode'[i].i_size
        /\ \A s \in 0..NDIRECT - 1 : itab'[i].i_sectors[s] = inode'[i].i_sectors[s]
    BY <1>1, <1>7, <1>11, <2>2 DEF Bytes
  <2>4. ASSUME NEW n \in Positions, n < inode'[i].i_size \/ Done(i, n)'
        PROVE  ByteAt(Cur(i)', disk', n) = Want(i, n)'
    <3>1. n < inode[i].i_size
      BY <1>11, <2>1, <2>4
    <3>2. ByteAt(Cur(i), disk, n) = Want(i, n)
      BY <1>7, <3>1 DEF Bytes
    <3> QED BY <1>1, <2>1, <3>2
  <2> QED BY <2>2, <2>3, <2>4 DEF Bytes
<1>20. CallInv(p)'
  <2>1. r.pos <= inode'[i].i_size /\ inode'[i].i_sectors[NDIRECT] # 0
    BY <1>2, <1>8, <1>11
  <2> QED BY <1>2, <1>3, <1>4, <2>1 DEF CallInv, Reading, Writing, Storing, Looping, Syncing
<1>21. /\ inode'[i].i_size >= inode[i].i_size
       /\ \A j \in Inodes \ {i} : /\ inode'[j] = inode[j] /\ itab'[j] = itab[j]
                                  /\ file'[j] = file[j] /\ holder'[j] = holder[j]
       /\ used \subseteq used' /\ used_disk \subseteq used_disk'
       /\ holder[i] \in {NULL, p} /\ req[p].i = i
       /\ Owns(i)' \subseteq Owns(i) \cup (Blocks \ used)
  BY <1>1, <1>3, <1>11, <1>15, FileTypes
<1> QED BY <1>3, <1>4, <1>6, <1>16, <1>17, <1>18, <1>19, <1>20, <1>21, OwnStep

-----------------------------------------------------------------------------
(* A block is written *)

\* What Written sets.
LEMMA WrittenLemma ==
  ASSUME NEW ino \in DiskInode, NEW r, IsRequest(r), r.blocks \in [Index -> 0..NBlocks]
  PROVE  LET w == Written(ino, r)
         IN  /\ w \in DiskInode /\ w.i_size >= ino.i_size /\ w.i_size >= r.pos + r.count
             /\ w.i_size \in {ino.i_size, r.pos + r.count}
             /\ w.i_sectors[NDIRECT] = ino.i_sectors[NDIRECT]
             /\ \A s \in 0..NDIRECT - 1 : w.i_sectors[s] = r.blocks[s]
<1>1. /\ ino.i_size \in 0..MAX_FILE_SIZE /\ ino.i_size \in Nat /\ MAX_FILE_SIZE \in Nat
      /\ r.pos + r.count \in Nat /\ r.pos + r.count <= MAX_FILE_SIZE
  BY Sizes DEF DiskInode, IsRequest
<1>2. \A s \in 0..NDIRECT : ino.i_sectors[s] \in 0..NBlocks
  BY DEF DiskInode
<1>3. \A s \in 0..NDIRECT : s < NDIRECT => s \in Index
  BY Sizes DEF Index
<1>4. NDIRECT \in 0..NDIRECT /\ NDIRECT \in Nat /\ \A s \in 0..NDIRECT - 1 : s < NDIRECT /\ s \in 0..NDIRECT
  BY Sizes
<1> DEFINE size == IF r.pos + r.count > ino.i_size THEN r.pos + r.count ELSE ino.i_size
           secs == [s \in 0..NDIRECT |-> IF s < NDIRECT THEN r.blocks[s] ELSE ino.i_sectors[s]]
<1>5. /\ size \in 0..MAX_FILE_SIZE /\ size >= ino.i_size /\ size >= r.pos + r.count
      /\ size \in {ino.i_size, r.pos + r.count}
  BY <1>1
<1>6. /\ secs \in [0..NDIRECT -> 0..NBlocks] /\ secs[NDIRECT] = ino.i_sectors[NDIRECT]
      /\ \A s \in 0..NDIRECT - 1 : secs[s] = r.blocks[s]
  BY <1>2, <1>3, <1>4
<1>7. Written(ino, r) = [i_size |-> size, i_sectors |-> secs]
  BY DEF Written
<1> HIDE DEF size, secs
<1> QED BY <1>5, <1>6, <1>7 DEF DiskInode

\* A block is written, and the loop goes on or ends.
LEMMA WritePutStep ==
  ASSUME IInv, NEW p \in Procs, NEW r, r = req[p], NEW i, i = r.i, WritePut(p)
  PROVE  IInv'
<1>1. /\ pc[p] = "w_put" /\ disk' = [disk EXCEPT ![r.blocks[r.k]] = r.buf]
      /\ UNCHANGED <<used_disk, itab>>
  BY DEF WritePut
<1>2. pc[p] \in Storing /\ pc[p] \in {"w_table"} \cup Storing /\ pc[p] \notin Syncing
  BY <1>1 DEF Storing, Looping, Syncing
<1>3. /\ i \in Inodes /\ holder[i] = p /\ p # NULL /\ pc[p] \in Inside
      /\ IsReq(r) /\ IsRequest(r) /\ ~Loses(r) /\ r.pos <= inode[i].i_size
      /\ r.k \in block_idx_start(r)..block_idx_last(r) /\ r.k \in Index
      /\ Cur(i) = r.blocks /\ r.blocks[r.k] # 0 /\ New(i) = {} /\ CallInv(p)
      /\ inode[i].i_sectors[NDIRECT] = 0 => r.pos + r.count <= NDIRECT * BLOCK_SIZE
  BY <1>2, Storer
<1>4. /\ DOMAIN disk' = Blocks
      /\ \A b \in Blocks \ Owns(i) : disk'[b] = disk[b]
      /\ \A b \in Blocks \ used_disk : disk'[b] = ZeroBlock
      /\ TableOf(inode[i], disk') = TableOf(inode[i], disk)
      /\ \A l \in Index : r.blocks[l] \in used_disk \cup {0}
      /\ \A n \in Positions :
           n < inode[i].i_size \/ (n \in Span(r) /\ n \div BLOCK_SIZE <= r.k) =>
             ByteAt(r.blocks, disk', n) =
               IF n \in Span(r) /\ n \div BLOCK_SIZE <= r.k THEN <<p, n>> ELSE file[i][n]
  <2> DEFINE t == r.blocks[r.k]
  <2>1. DOMAIN disk' = Blocks /\ disk'[t] = r.buf /\ \A b \in Blocks \ {t} : disk'[b] = disk[b]
    <3>1. t \in Blocks /\ DOMAIN disk = Blocks
      BY <1>3, FileTypes DEF IInv, ITypes
    <3> QED BY <1>1, <3>1
  <2>2. pc[p] = "w_put" /\ t = r.blocks[r.k]
    BY <1>1
  <2> HIDE DEF t
  <2> QED BY ONLY IInv, p \in Procs, r = req[p], i = r.i, <2>1, <2>2, PutLemma
<1>5. Shape(i) /\ Bytes(i) /\ inode[i] \in DiskInode /\ Blk(i) \in [Index -> 0..NBlocks]
      /\ Cur(i) \in [Index -> 0..NBlocks] /\ inode[i].i_size \in Nat
  BY <1>3, FileTypes DEF IInv
<1>6. CASE /\ r.k # block_idx_last(r) /\ Loop(p, [r EXCEPT !.k = r.k + 1]) /\ UNCHANGED inode
  <2> DEFINE k == r.k + 1
             s == At(r, Cur(i), k)
  <2>1. k \in block_idx_start(r)..block_idx_last(r) /\ r.k <= k
    BY <1>3, <1>6, RangeLemma
  <2>2. Loop(p, s)
    <3>1. ASSUME NEW x, IsReq(x), NEW y PROVE [x EXCEPT !.k = y] = At(x, x.blocks, y)
      BY <3>1 DEF At, IsReq
    <3>2. [r EXCEPT !.k = r.k + 1] = At(r, r.blocks, r.k + 1)
      BY <1>3, <3>1
    <3> QED BY <1>3, <1>6, <3>2
  <2>3. ASSUME NEW n \in Positions,
               n < inode[i].i_size \/ (n \in Span(r) /\ n \div BLOCK_SIZE < k)
        PROVE  ByteAt(Cur(i), disk', n) =
                 IF n \in Span(r) /\ n \div BLOCK_SIZE < k THEN <<p, n>> ELSE file[i][n]
    <3>1. n \div BLOCK_SIZE < k <=> n \div BLOCK_SIZE <= r.k
      <4>1. n \div BLOCK_SIZE \in Nat /\ r.k \in Nat
        BY <1>3, Place, RangeLemma
      <4> QED BY <4>1
    <3> QED BY <1>3, <1>4, <2>3, <3>1
  <2>4. s = At(r, Cur(i), k) /\ pc[p] \in {"w_table", "w_put"} /\ UNCHANGED <<used_disk, itab, inode>>
    BY <1>1, <1>6
  <2> HIDE DEF s, k
  <2> QED BY <1>4, <2>1, <2>2, <2>3, <2>4, LoopStep
<1>7. CASE /\ r.k = block_idx_last(r) /\ inode' = [inode EXCEPT ![i] = Written(inode[i], r)]
           /\ Goto(p, "i_get") /\ used' = used /\ holder' = holder /\ req' = req /\ file' = file
  <2>1. /\ inode'[i] \in DiskInode /\ inode'[i].i_size >= inode[i].i_size
        /\ inode'[i].i_size >= r.pos + r.count
        /\ inode'[i].i_size \in {inode[i].i_size, r.pos + r.count}
        /\ inode'[i].i_sectors[NDIRECT] = inode[i].i_sectors[NDIRECT]
        /\ \A s \in 0..NDIRECT - 1 : inode'[i].i_sectors[s] = r.blocks[s]
        /\ \A j \in Inodes \ {i} : inode'[j] = inode[j]
        /\ inode' \in [Inodes -> DiskInode]
    <3>1. inode \in [Inodes -> DiskInode]
      BY DEF IInv, ITypes
    <3>2. inode'[i] = Written(inode[i], r) /\ \A j \in Inodes \ {i} : inode'[j] = inode[j]
      BY <1>3, <1>7, <3>1
    <3>3. r.blocks \in [Index -> 0..NBlocks]
      BY <1>3, <1>5
    <3>4. inode'[i] \in DiskInode => inode' \in [Inodes -> DiskInode]
      BY <1>7, <3>1, <3>2
    <3>5. inode[i] \in DiskInode /\ IsRequest(r)
      BY <1>3, <1>5
    <3> QED BY ONLY <3>2, <3>3, <3>4, <3>5, WrittenLemma
  <2>2. /\ pc'[p] = "i_get" /\ req'[p] = r /\ pc'[p] \in Inside /\ pc'[p] \in Storing
        /\ pc'[p] \in Syncing /\ pc'[p] \notin Looping
        /\ pc' \in [Procs -> {"user"} \cup Reading \cup Writing] /\ DOMAIN req' = Procs
        /\ \A q \in Procs \ {p} : pc'[q] = pc[q] /\ req'[q] = req[q]
    BY <1>7 DEF IInv, ITypes, Goto, Writing, Inside, Storing, Looping, Syncing
  <2>3. LockInv'
    BY <1>3, <1>7, <2>2, StayLock
  <2>4. ITypes'
    BY <1>1, <1>4, <1>7, <2>1, <2>2 DEF IInv, ITypes
  <2>5. Stores(i)' /\ Cur(i)' = r.blocks /\ New(i)' = {} /\ holder'[i] = p
    BY ONLY <1>3, <1>7, <2>2 DEF Stores, Cur, New
  <2>6. TableOf(inode'[i], disk') = TableOf(inode[i], disk)
    BY ONLY <1>4, <2>1 DEF TableOf
  <2>7. ASSUME NEW k \in Index
        PROVE  Blk(i)'[k] = IF k < NDIRECT THEN r.blocks[k] ELSE Blk(i)[k]
    <3>1. TableOf(inode[i], disk) \in Tables
      BY <1>5 DEF Shape
    <3>2. Blk(i)'[k] = IF k < NDIRECT THEN inode'[i].i_sectors[k]
                                      ELSE TableOf(inode[i], disk)[k - NDIRECT][2]
      BY <2>1, <2>6, <3>1, BlocksLemma DEF Blk
    <3>3. Blk(i)[k] = IF k < NDIRECT THEN inode[i].i_sectors[k]
                                     ELSE TableOf(inode[i], disk)[k - NDIRECT][2]
      BY <1>5, <3>1, BlocksLemma DEF Blk
    <3>4. k < NDIRECT => k \in 0..NDIRECT - 1
      BY Sizes DEF Index
    <3> QED BY <2>1, <3>2, <3>3, <3>4
  <2>8. Blk(i)' \in [Index -> 0..NBlocks]
    <3>1. TableOf(inode'[i], disk') \in Tables
      BY <1>5, <2>6 DEF Shape
    <3> QED BY <2>1, <3>1, BlocksLemma DEF Blk
  <2>9. Owns(i)' = Owns(i)
    BY <1>3, <2>1, <2>5 DEF Owns
  <2>10. \A k \in Index : Blk(i)[k] \in {0, r.blocks[k]}
    BY <1>3, <1>5 DEF Shape
  <2>11. Shape(i)'
    <3>1. TableOf(inode'[i], disk') \in Tables
      BY <1>5, <2>6 DEF Shape
    <3>2. \A s \in 0..NDIRECT : itab'[i].i_sectors[s] \in {0, inode'[i].i_sectors[s]}
      <4> SUFFICES ASSUME NEW s \in 0..NDIRECT PROVE itab[i].i_sectors[s] \in {0, inode'[i].i_sectors[s]}
        BY <1>1
      <4>1. itab[i].i_sectors[s] \in {0, inode[i].i_sectors[s]}
        BY <1>5 DEF Shape
      <4>2. CASE s = NDIRECT
        BY <2>1, <4>1, <4>2
      <4>3. CASE s # NDIRECT
        <5>1. s \in 0..NDIRECT - 1 /\ s \in Index /\ s < NDIRECT
          BY <4>3, Sizes DEF Index
        <5>2. Blk(i)[s] = inode[i].i_sectors[s]
          BY <1>5, <5>1, BlocksLemma DEF Blk, Shape
        <5> QED BY <2>1, <2>10, <4>1, <5>1, <5>2
      <4> QED BY <4>2, <4>3
    <3>3. itab'[i].i_sectors[NDIRECT] = 0 => \A k \in Index : k >= NDIRECT => Blk(i)'[k] = 0
      <4> SUFFICES ASSUME itab[i].i_sectors[NDIRECT] = 0, NEW k \in Index, k >= NDIRECT
                   PROVE  Blk(i)'[k] = 0
        BY <1>1
      <4>1. Blk(i)[k] = 0
        BY <1>5 DEF Shape
      <4>2. ~(k < NDIRECT)
        BY Sizes DEF Index
      <4> QED BY <2>7, <4>1, <4>2
    <3>4. \A k \in Index : Blk(i)'[k] \in {0, Cur(i)'[k]}
      BY ONLY <2>5, <2>7, <2>10
    <3>5. /\ \A k, l \in Index : Cur(i)'[k] = Cur(i)'[l] /\ Cur(i)'[k] # 0 => k = l
          /\ \A k \in Index : Cur(i)'[k] # 0 => Cur(i)'[k] # inode'[i].i_sectors[NDIRECT]
          /\ Cur(i)' \in [Index -> 0..NBlocks]
      <4>1. /\ \A k, l \in Index : Cur(i)[k] = Cur(i)[l] /\ Cur(i)[k] # 0 => k = l
            /\ \A k \in Index : Cur(i)[k] # 0 => Cur(i)[k] # inode[i].i_sectors[NDIRECT]
            /\ Cur(i) \in [Index -> 0..NBlocks]
        BY ONLY <1>5, Zenon DEF Shape
      <4>2. Cur(i)' = Cur(i) /\ inode'[i].i_sectors[NDIRECT] = inode[i].i_sectors[NDIRECT]
        BY <1>3, <2>1, <2>5
      <4> QED BY ONLY <4>1, <4>2
    <3>6. Owns(i)' \subseteq used'
      BY <1>5, <1>7, <2>9 DEF Shape
    <3>7. InUse(Blk(i)', inode'[i]) \subseteq used_disk'
      <4>1. \A k \in Index : Blk(i)'[k] \in used_disk \cup {0}
        BY <1>4, <2>7, <2>10
      <4>2. inode'[i].i_sectors[NDIRECT] \in used_disk \cup {0}
        BY ONLY <1>5, <2>1 DEF Shape, InUse
      <4>3. used_disk' = used_disk /\ DOMAIN Blk(i)' = Index
        BY <1>1, <2>8
      <4> QED BY <4>1, <4>2, <4>3 DEF InUse
    <3> QED BY ONLY <2>5, <3>1, <3>2, <3>3, <3>4, <3>5, <3>6, <3>7 DEF Shape
  <2>12. Bytes(i)'
    <3>1. ASSUME NEW n \in Positions, n < inode'[i].i_size \/ Done(i, n)'
          PROVE  ByteAt(Cur(i)', disk', n) = Want(i, n)'
      <4>1. /\ Done(i, n)' <=> n \in Span(r)
            /\ Want(i, n)' = IF n \in Span(r) THEN <<p, n>> ELSE file[i][n]
        BY <1>7, <2>2, <2>5 DEF Done, Want
      <4>2. n \in Span(r) => n \div BLOCK_SIZE <= r.k
        BY <1>3, <1>7, SpanLemma, RangeLemma
      <4>3. n < inode[i].i_size \/ n \in Span(r)
        <5> SUFFICES ASSUME n < inode'[i].i_size, ~(n < inode[i].i_size) PROVE n \in Span(r)
          BY <3>1, <4>1
        <5>1. n < r.pos + r.count /\ r.pos \in Nat /\ r.count \in Nat
          BY <1>3, <2>1 DEF IsRequest
        <5>2. r.pos <= n
          BY <1>3, <1>5, <5>1, Place
        <5> QED BY <5>1, <5>2, Place DEF Span
      <4> QED BY <1>4, <2>5, <4>1, <4>2, <4>3
    <3>2. \A n \in Positions : n >= inode'[i].i_size => file'[i][n] = Zero
      <4> SUFFICES ASSUME NEW n \in Positions, n >= inode'[i].i_size PROVE file[i][n] = Zero
        BY <1>7
      <4>1. n >= inode[i].i_size
        <5>1. inode'[i].i_size \in Nat /\ n \in Nat
          BY <2>1, Place, Sizes DEF DiskInode
        <5> QED BY <1>5, <2>1, <5>1
      <4> QED BY <1>5, <4>1 DEF Bytes
    <3>3. /\ ~(holder'[i] # NULL /\ pc'[holder'[i]] \in Looping)
          /\ holder'[i] # NULL /\ pc'[holder'[i]] \in {"i_get", "i_put"}
      BY <1>3, <2>2, <2>5
    <3> QED BY ONLY <3>1, <3>2, <3>3 DEF Bytes
  <2>13. CallInv(p)'
    <3>1. ASSUME NEW l \in Index, r.blocks[l] # Blk(i)'[l]
          PROVE  block_idx_start(r) <= l /\ l <= r.k
      <4>1. r.blocks[l] # Blk(i)[l]
        BY <2>7, <3>1
      <4> QED BY <1>2, <1>3, <4>1 DEF CallInv
    <3>2. /\ r.pos <= inode'[i].i_size /\ r.pos + r.count <= inode'[i].i_size
      <4>1. inode'[i].i_size \in Nat /\ r.pos \in Nat /\ r.pos + r.count \in Nat
        BY <1>3, <2>1, Sizes DEF IsRequest, DiskInode
      <4> QED BY <1>3, <1>5, <2>1, <4>1
    <3>3. /\ pc'[p] # "user" /\ pc'[p] \notin Reading /\ pc'[p] \in Writing
          /\ pc'[p] \notin {"r_lock", "r_table", "w_lock", "w_ibit", "w_izero", "w_table"}
          /\ pc'[p] # "w_put" /\ pc'[p] # "i_put" /\ pc'[p] # "w_last" /\ pc'[p] # "r_block"
      BY <2>2 DEF Reading, Writing
    <3>4. inode'[i].i_sectors[NDIRECT] = 0 => r.pos + r.count <= NDIRECT * BLOCK_SIZE
      BY <1>3, <2>1
    <3>5. /\ req'[p] = r /\ r.i = i /\ r.k = block_idx_last(r) /\ used_disk' = used_disk
          /\ \A s \in 0..NDIRECT - 1 : inode'[i].i_sectors[s] = r.blocks[s]
      BY <1>1, <1>7, <2>1, <2>2
    <3> QED BY ONLY <1>3, <1>4, <2>2, <3>1, <3>2, <3>3, <3>4, <3>5 DEF CallInv
  <2>14. /\ \A j \in Inodes \ {i} : /\ inode'[j] = inode[j] /\ itab'[j] = itab[j]
                                    /\ file'[j] = file[j] /\ holder'[j] = holder[j]
         /\ used \subseteq used' /\ used_disk \subseteq used_disk'
         /\ holder[i] \in {NULL, p} /\ req[p].i = i
         /\ Owns(i)' \subseteq Owns(i) \cup (Blocks \ used)
    BY <1>1, <1>3, <1>7, <2>1, <2>9
  <2> QED BY <1>3, <1>4, <2>1, <2>2, <2>3, <2>4, <2>11, <2>12, <2>13, <2>14, OwnStep
<1> QED BY <1>6, <1>7 DEF WritePut

-----------------------------------------------------------------------------
(* inode_sync, and the return *)

\* Without an indirect block, the blocks past the direct ones are none.
LEMMA NoTable ==
  ASSUME IInv, NEW i \in Inodes, NEW k \in Index, k >= NDIRECT, inode[i].i_sectors[NDIRECT] = 0
  PROVE  Blk(i)[k] = 0
<1>1. /\ inode[i] \in DiskInode /\ TableOf(inode[i], disk) \in Tables
      /\ TableOf(inode[i], disk) = ZeroTable
  BY FileTypes DEF IInv, Shape, TableOf
<1>2. k - NDIRECT \in 0..NINDIRECT - 1 /\ ~(k < NDIRECT)
  BY Sizes DEF Index, MAX_FILE_BLOCKS_CNT
<1>3. ZeroTable[k - NDIRECT][2] = 0
  BY <1>2 DEF ZeroTable, Zero
<1> QED BY <1>1, <1>2, <1>3, BlocksLemma DEF Blk

\* A step between the writes of inode_sync and the last: the inode on disk is
\* what it was, or what is in memory.
LEMMA SyncStep ==
  ASSUME IInv, NEW p \in Procs, NEW r, r = req[p], NEW i, i = r.i,
         pc[p] \in Syncing, pc'[p] \in Syncing,
         UNCHANGED <<used, used_disk, disk, inode, holder, file>>,
         pc' \in [Procs -> {"user"} \cup Reading \cup Writing], DOMAIN req' = Procs,
         \A q \in Procs \ {p} : pc'[q] = pc[q] /\ req'[q] = req[q],
         NEW s, req'[p] = s, IsReq(s), s.i = i, s.pos = r.pos, s.count = r.count, s.k = r.k,
         s.blocks = r.blocks,
         itab' \in [Inodes -> DiskInode], \A j \in Inodes \ {i} : itab'[j] = itab[j],
         itab'[i] = itab[i] \/ itab'[i] = inode[i],
         pc'[p] = "i_put" => s.buf[i] = inode[i],
         pc'[p] = "w_last" => itab'[i] = inode[i] /\ inode[i].i_sectors[NDIRECT] # 0
  PROVE  IInv'
<1>1. /\ pc[p] \in {"w_table"} \cup Storing /\ pc[p] \in Storing /\ pc'[p] \in Storing
      /\ pc[p] \in Inside /\ pc'[p] \in Inside /\ pc'[p] \notin Looping
      /\ pc'[p] \notin {"w_ibit", "w_izero"}
  BY DEF Inside, Storing, Looping, Syncing
<1>2. /\ i \in Inodes /\ holder[i] = p /\ p # NULL
      /\ IsReq(r) /\ IsRequest(r) /\ ~Loses(r) /\ r.pos <= inode[i].i_size
      /\ r.k \in block_idx_start(r)..block_idx_last(r)
      /\ Cur(i) = r.blocks /\ r.blocks[r.k] # 0 /\ New(i) = {} /\ CallInv(p)
      /\ inode[i].i_sectors[NDIRECT] = 0 => r.pos + r.count <= NDIRECT * BLOCK_SIZE
  BY <1>1, Storer
<1>3. Shape(i) /\ Bytes(i) /\ inode[i].i_size \in Nat
  BY <1>2, FileTypes DEF IInv
<1>4. LockInv'
  BY <1>1, StayLock
<1>5. ITypes'
  BY DEF IInv, ITypes
<1>6. /\ holder'[i] = p /\ Stores(i)' /\ Cur(i)' = r.blocks /\ New(i)' = {} /\ Stores(i)
  BY <1>1, <1>2 DEF Stores, Cur, New
<1>7. Blk(i)' = Blk(i)
  BY DEF Blk
<1>8. Owns(i)' = Owns(i)
  BY <1>2, <1>6 DEF Owns
<1>9. Shape(i)'
  <2>1. \A l \in 0..NDIRECT : itab'[i].i_sectors[l] \in {0, inode[i].i_sectors[l]}
    BY <1>3 DEF Shape
  <2>2. itab'[i].i_sectors[NDIRECT] = 0 => \A k \in Index : k >= NDIRECT => Blk(i)[k] = 0
    <3>1. CASE itab'[i] = itab[i]
      BY <1>3, <3>1 DEF Shape
    <3>2. CASE itab'[i] = inode[i]
      BY <1>2, <3>2, NoTable
    <3> QED BY <3>1, <3>2
  <2>3. /\ inode' = inode /\ disk' = disk /\ used' = used /\ used_disk' = used_disk
        /\ Blk(i)' = Blk(i) /\ Cur(i)' = Cur(i) /\ Owns(i)' = Owns(i) /\ New(i)' = {}
    BY <1>2, <1>6, <1>7, <1>8
  <2> QED BY ONLY <1>3, <2>1, <2>2, <2>3 DEF Shape
<1>10. Bytes(i)'
  <2>1. ASSUME NEW n \in Positions, n < inode'[i].i_size \/ Done(i, n)'
        PROVE  ByteAt(Cur(i)', disk', n) = Want(i, n)'
    <3>1. /\ Done(i, n)' <=> n \in Span(r)
          /\ Want(i, n)' = IF n \in Span(r) THEN <<p, n>> ELSE file[i][n]
      BY <1>6 DEF Done, Want, Span
    <3>2. /\ Done(i, n) <=> n \in Span(r)
          /\ Want(i, n) = IF n \in Span(r) THEN <<p, n>> ELSE file[i][n]
      BY <1>2, <1>6 DEF Done, Want
    <3>3. ByteAt(r.blocks, disk, n) = Want(i, n)
      BY <1>2, <1>3, <2>1, <3>1, <3>2 DEF Bytes
    <3> QED BY <1>6, <3>1, <3>2, <3>3
  <2>2. \A n \in Positions : n >= inode'[i].i_size => file'[i][n] = Zero
    BY <1>3 DEF Bytes
  <2>3. ~(holder'[i] # NULL /\ pc'[holder'[i]] \in Looping)
    BY <1>1, <1>6
  <2>4. ~(holder'[i] # NULL /\ pc'[holder'[i]] \in {"i_get", "i_put"}) =>
          /\ itab'[i].i_size = inode'[i].i_size
          /\ \A l \in 0..NDIRECT - 1 : itab'[i].i_sectors[l] = inode'[i].i_sectors[l]
    BY <1>2, <1>6 DEF Syncing
  <2> QED BY ONLY <2>1, <2>2, <2>3, <2>4 DEF Bytes
<1>11. CallInv(p)'
  <2>1. /\ IsRequest(s) /\ ~Loses(s) /\ s.pos <= inode'[i].i_size
        /\ block_idx_start(s) = block_idx_start(r) /\ block_idx_last(s) = block_idx_last(r)
        /\ s.k \in block_idx_start(s)..block_idx_last(s)
    BY <1>2 DEF IsRequest, Loses, block_idx_start, block_idx_last
  <2>2. /\ \A l \in Index : s.blocks[l] # Blk(i)'[l] => block_idx_start(s) <= l /\ l <= s.k
        /\ \A l \in Index : s.blocks[l] \in used_disk' \cup {0}
        /\ s.k = block_idx_last(s) /\ s.blocks[s.k] # 0
        /\ \A l \in 0..NDIRECT - 1 : inode'[i].i_sectors[l] = s.blocks[l]
        /\ s.pos + s.count <= inode'[i].i_size
    <3>1. pc[p] # "w_bit"
      BY DEF Syncing
    <3> QED BY <1>1, <1>2, <1>7, <2>1, <3>1 DEF CallInv
  <2>3. /\ pc'[p] # "user" /\ pc'[p] \notin Reading /\ pc'[p] \in Writing
        /\ pc'[p] \notin {"r_lock", "r_table", "w_lock", "w_ibit", "w_izero", "w_table"}
        /\ pc'[p] # "w_put" /\ pc'[p] # "r_block"
    BY DEF Syncing, Reading, Writing
  <2>4. inode'[i].i_sectors[NDIRECT] = 0 => s.pos + s.count <= NDIRECT * BLOCK_SIZE
    BY <1>2
  <2>5. /\ req'[p] = s /\ s.i = i /\ i \in Inodes /\ IsReq(s)
        /\ pc'[p] = "i_put" => s.buf[i] = inode'[i]
        /\ pc'[p] = "w_last" => itab'[i] = inode'[i] /\ inode'[i].i_sectors[NDIRECT] # 0
    BY <1>2
  <2> QED BY ONLY <2>1, <2>2, <2>3, <2>4, <2>5 DEF CallInv
<1>12. /\ \A j \in Inodes \ {i} : /\ inode'[j] = inode[j] /\ itab'[j] = itab[j]
                                  /\ file'[j] = file[j] /\ holder'[j] = holder[j]
       /\ used \subseteq used' /\ used_disk \subseteq used_disk'
       /\ \A b \in Blocks \ Owns(i) : disk'[b] = disk[b]
       /\ holder[i] \in {NULL, p} /\ req[p].i = i /\ inode'[i].i_size >= inode[i].i_size
       /\ Owns(i)' \subseteq Owns(i) \cup (Blocks \ used)
  BY <1>2, <1>3, <1>8
<1> QED BY <1>2, <1>4, <1>5, <1>9, <1>10, <1>11, <1>12, OwnStep

\* inode_sync reads the sectors of the inode table.
LEMMA SyncGetStep ==
  ASSUME IInv, NEW p \in Procs, NEW r, r = req[p], NEW i, i = r.i, SyncGet(p)
  PROVE  IInv'
<1> DEFINE buf == [j \in Near[i] |-> IF j = i THEN inode[i] ELSE itab[j]]
           s == BufAt(r, buf)
<1>1. /\ pc[p] = "i_get" /\ Goto(p, "i_put") /\ req' = [req EXCEPT ![p] = s]
      /\ UNCHANGED <<used, used_disk, disk, itab, inode, holder, file>>
  BY DEF SyncGet, BufAt
<1>2. IsReq(r) /\ i \in Inodes
  BY <1>1 DEF IInv, CallInv
<1>3. /\ IsReq(s) /\ s.i = r.i /\ s.pos = r.pos /\ s.count = r.count /\ s.k = r.k
      /\ s.blocks = r.blocks /\ s.buf = buf
  BY <1>2, BufAtLemma
<1>4. buf[i] = inode[i]
  BY <1>2, InodeAssumption
<1> HIDE DEF s, buf
<1>5. /\ pc'[p] = "i_put" /\ req'[p] = s
      /\ pc' \in [Procs -> {"user"} \cup Reading \cup Writing] /\ DOMAIN req' = Procs
      /\ \A q \in Procs \ {p} : pc'[q] = pc[q] /\ req'[q] = req[q]
  BY <1>1, Moves DEF Writing
<1>6. itab' = itab /\ itab \in [Inodes -> DiskInode]
  BY <1>1 DEF IInv, ITypes
<1>7. /\ pc[p] \in Syncing /\ pc'[p] \in Syncing /\ pc'[p] # "w_last" /\ s.buf[i] = inode[i]
      /\ s.i = i /\ UNCHANGED <<used, used_disk, disk, inode, holder, file>>
  BY <1>1, <1>3, <1>4, <1>5 DEF Syncing
<1> QED BY <1>3, <1>5, <1>6, <1>7, SyncStep

\* The last of the three writes of a call: it returns.
LEMMA ReturnStep ==
  ASSUME IInv, NEW p \in Procs, NEW r, r = req[p], NEW i, i = r.i, pc[p] \in Syncing,
         Return(p), UNCHANGED <<used, used_disk, inode>>,
         itab' \in [Inodes -> DiskInode], \A j \in Inodes \ {i} : itab'[j] = itab[j],
         itab'[i] = inode[i],
         DOMAIN disk' = Blocks, \A b \in Blocks \ Owns(i) : disk'[b] = disk[b],
         \A b \in Blocks \ used_disk : disk'[b] = ZeroBlock,
         \A k \in Index : r.blocks[k] # 0 => disk'[r.blocks[k]] = disk[r.blocks[k]],
         TableOf(inode[i], disk') \in Tables, Blk(i)' = r.blocks,
         inode[i].i_sectors[NDIRECT] = 0 => \A k \in Index : k >= NDIRECT => r.blocks[k] = 0
  PROVE  IInv'
<1>1. /\ pc[p] \in {"w_table"} \cup Storing /\ pc[p] \in Storing /\ pc[p] \in Inside /\ pc[p] # "user"
      /\ pc[p] # "w_bit"
  BY DEF Inside, Storing, Looping, Syncing
<1>2. /\ i \in Inodes /\ holder[i] = p /\ p # NULL
      /\ IsRequest(r) /\ Cur(i) = r.blocks /\ CallInv(p)
  BY <1>1, Storer
<1>3. Shape(i) /\ Bytes(i) /\ Stores(i)
  BY <1>1, <1>2 DEF IInv, Stores
<1>4. Leave(p) /\ Record(p, Span(r)) /\ Span(r) \subseteq Positions
  BY <1>2, SpanLemma DEF Return
<1>5. \A n \in Span(r) : n < inode[i].i_size
  <2>1. r.pos + r.count <= inode[i].i_size /\ r.pos \in Nat /\ r.count \in Nat /\ inode[i].i_size \in Nat
    BY <1>2, FileTypes DEF CallInv, IsRequest
  <2> QED BY <2>1 DEF Span
<1>6. \A k \in Index : Blk(i)'[k] \in {0, Cur(i)[k]} /\ Blk(i)'[k] \in used_disk \cup {0}
  BY <1>1, <1>2 DEF CallInv
<1>7. ASSUME NEW n \in Positions, n < inode[i].i_size
      PROVE  ByteAt(Blk(i)', disk', n) = IF n \in Span(r) THEN <<p, n>> ELSE file[i][n]
  <2>1. n \div BLOCK_SIZE \in Index
    BY Place
  <2>2. ByteAt(Blk(i)', disk', n) = ByteAt(Cur(i), disk, n)
    BY <1>2, <2>1 DEF ByteAt
  <2>3. Want(i, n) = IF n \in Span(r) THEN <<p, n>> ELSE file[i][n]
    BY <1>2, <1>3 DEF Want, Done
  <2> QED BY <1>3, <1>7, <2>2, <2>3 DEF Bytes
<1>8. /\ \A s \in 0..NDIRECT : itab'[i].i_sectors[s] \in {0, inode[i].i_sectors[s]}
      /\ itab'[i].i_sectors[NDIRECT] = 0 => \A k \in Index : k >= NDIRECT => Blk(i)'[k] = 0
      /\ itab'[i].i_size = inode[i].i_size
      /\ \A s \in 0..NDIRECT - 1 : itab'[i].i_sectors[s] = inode[i].i_sectors[s]
  OBVIOUS
<1>9. /\ i \in Inodes /\ req[p].i = i /\ holder[i] \in {NULL, p}
      /\ used' = used /\ used_disk' = used_disk /\ inode' = inode
  BY <1>2
<1>10. /\ itab' \in [Inodes -> DiskInode] /\ \A j \in Inodes \ {i} : itab'[j] = itab[j]
       /\ DOMAIN disk' = Blocks /\ \A b \in Blocks \ Owns(i) : disk'[b] = disk[b]
       /\ \A b \in Blocks \ used_disk : disk'[b] = ZeroBlock
       /\ TableOf(inode[i], disk') \in Tables
  OBVIOUS
<1> QED BY ONLY IInv, p \in Procs, <1>1, <1>4, <1>5, <1>6, <1>7, <1>8, <1>9, <1>10, LeaveStep

\* inode_sync writes them: the inode on disk is the one in memory.
LEMMA SyncPutStep ==
  ASSUME IInv, Apart, NEW p \in Procs, NEW r, r = req[p], NEW i, i = r.i, SyncPut(p)
  PROVE  IInv'
<1>1. /\ pc[p] = "i_put" /\ pc[p] \in Syncing /\ pc[p] \in {"w_table"} \cup Storing
      /\ pc[p] \in Storing /\ pc[p] \in Writing
      /\ itab' = [j \in Inodes |-> IF j \in Near[i] THEN r.buf[j] ELSE itab[j]]
      /\ UNCHANGED <<used, used_disk, disk, inode>>
  BY DEF SyncPut, Syncing, Storing, Writing
<1>2. /\ i \in Inodes /\ holder[i] = p /\ p # NULL /\ CallInv(p) /\ Cur(i) = r.blocks
      /\ IsReq(r) /\ IsRequest(r) /\ r.k \in block_idx_start(r)..block_idx_last(r)
      /\ inode[i].i_sectors[NDIRECT] = 0 => r.pos + r.count <= NDIRECT * BLOCK_SIZE
  BY <1>1, Storer
<1>3. Near[i] = {i} /\ r.buf[i] = inode[i]
  BY <1>1, <1>2 DEF Apart, CallInv
<1>4. /\ itab \in [Inodes -> DiskInode] /\ inode \in [Inodes -> DiskInode] /\ DOMAIN disk = Blocks
      /\ \A b \in Blocks \ used_disk : disk[b] = ZeroBlock
  BY DEF IInv, ITypes
<1>5. /\ itab' \in [Inodes -> DiskInode] /\ itab'[i] = inode[i]
      /\ \A j \in Inodes \ {i} : itab'[j] = itab[j]
  BY <1>1, <1>2, <1>3, <1>4
<1>6. CASE inode[i].i_sectors[NDIRECT] # 0 /\ Goto(p, "w_last") /\ UNCHANGED <<holder, req, file>>
  <2>1. /\ pc'[p] = "w_last" /\ req'[p] = r /\ pc'[p] \in Syncing
        /\ pc' \in [Procs -> {"user"} \cup Reading \cup Writing] /\ DOMAIN req' = Procs
        /\ \A q \in Procs \ {p} : pc'[q] = pc[q] /\ req'[q] = req[q]
    BY <1>6 DEF IInv, ITypes, Goto, Writing, Syncing
  <2>2. UNCHANGED <<used, used_disk, disk, inode, holder, file>>
    BY <1>1, <1>6
  <2> QED BY <1>1, <1>2, <1>5, <1>6, <2>1, <2>2, SyncStep
<1>7. CASE inode[i].i_sectors[NDIRECT] = 0 /\ Return(p)
  <2>1. Blk(i)' = Blk(i)
    BY <1>1 DEF Blk
  <2>2. Blk(i) \in [Index -> 0..NBlocks] /\ r.blocks \in [Index -> 0..NBlocks]
    BY <1>2, FileTypes
  <2>3. ASSUME NEW k \in Index PROVE r.blocks[k] = Blk(i)[k]
    <3>1. CASE k < NDIRECT
      <4>1. k \in 0..NDIRECT - 1
        BY <3>1, Sizes DEF Index
      <4>2. TableOf(inode[i], disk) \in Tables /\ inode[i] \in DiskInode
        BY <1>2, FileTypes DEF IInv, Shape
      <4>3. Blk(i)[k] = inode[i].i_sectors[k]
        BY <3>1, <4>2, BlocksLemma DEF Blk
      <4> QED BY <1>1, <1>2, <4>1, <4>3 DEF CallInv
    <3>2. CASE ~(k < NDIRECT)
      <4>1. r.k = block_idx_last(r) /\ r.blocks[k] # Blk(i)[k] => k <= r.k
        BY <1>1, <1>2 DEF CallInv
      <4>2. r.k = block_idx_last(r)
        BY <1>1, <1>2 DEF CallInv
      <4>3. block_idx_last(r) < NDIRECT
        <5>1. r.pos + r.count - 1 \in Nat
          BY <1>2 DEF IsRequest
        <5>2. NDIRECT \in Nat /\ NDIRECT * BLOCK_SIZE \in Nat
          BY Sizes, BlockSize
        <5>3. r.pos + r.count - 1 < NDIRECT * BLOCK_SIZE
          <6> DEFINE e == r.pos + r.count
                     m == NDIRECT * BLOCK_SIZE
          <6>1. e \in Int /\ m \in Int /\ e <= m
            BY <1>2, <1>7, <5>2 DEF IsRequest
          <6> HIDE DEF e, m
          <6>2. e - 1 < m
            BY <6>1
          <6>3. r.pos + r.count - 1 = e - 1
            BY <1>2 DEF IsRequest, e
          <6> QED BY <6>2, <6>3 DEF m
        <5> QED BY <5>1, <5>2, <5>3, Bound DEF block_idx_last
      <4>4. k \in Nat /\ r.k \in Nat
        BY <1>2, RangeLemma
      <4> QED BY <3>2, <4>1, <4>2, <4>3, <4>4, Sizes
    <3> QED BY <3>1, <3>2
  <2>4. Blk(i)' = r.blocks
    BY <2>1, <2>2, <2>3
  <2>5. \A k \in Index : k >= NDIRECT => r.blocks[k] = 0
    BY <1>2, <1>7, <2>3, NoTable
  <2>6. TableOf(inode[i], disk') \in Tables /\ disk' = disk
    BY <1>1, <1>2 DEF IInv, Shape
  <2>7. UNCHANGED <<used, used_disk, inode>>
    BY <1>1
  <2> QED BY <1>1, <1>4, <1>5, <1>7, <2>4, <2>5, <2>6, <2>7, ReturnStep
<1> QED BY <1>6, <1>7 DEF SyncPut

\* The indirect block is written, and the call returns.
LEMMA WriteLastStep ==
  ASSUME IInv, NEW p \in Procs, NEW r, r = req[p], NEW i, i = r.i,
         NEW t, t = inode[i].i_sectors[NDIRECT], WriteLast(p)
  PROVE  IInv'
<1> DEFINE table == [e \in 0..NINDIRECT - 1 |-> <<NULL, r.blocks[NDIRECT + e]>>]
<1>1. /\ pc[p] = "w_last" /\ pc[p] \in Syncing /\ pc[p] \in {"w_table"} \cup Storing
      /\ pc[p] \in Storing
      /\ disk' = [disk EXCEPT ![t] = table] /\ Return(p)
      /\ UNCHANGED <<used, used_disk, itab, inode>>
  BY DEF WriteLast, Syncing, Storing
<1>2. i \in Inodes /\ holder[i] = p /\ p # NULL /\ CallInv(p) /\ Cur(i) = r.blocks
  BY <1>1, Storer
<1>3. Shape(i) /\ itab[i] = inode[i] /\ t # 0 /\ inode[i] \in DiskInode
      /\ r.blocks \in [Index -> 0..NBlocks] /\ t \in 0..NBlocks
      /\ \A s \in 0..NDIRECT - 1 : inode[i].i_sectors[s] = r.blocks[s]
  <2>1. itab[i] = inode[i] /\ t # 0
    BY <1>1, <1>2 DEF CallInv
  <2>2. \A s \in 0..NDIRECT - 1 : inode[i].i_sectors[s] = r.blocks[s]
    BY <1>1, <1>2 DEF CallInv
  <2>3. /\ Shape(i) /\ inode[i] \in DiskInode
        /\ r.blocks \in [Index -> 0..NBlocks] /\ t \in 0..NBlocks
    BY <1>2, FileTypes DEF IInv
  <2> QED BY <2>1, <2>2, <2>3
<1>4. /\ itab \in [Inodes -> DiskInode] /\ DOMAIN disk = Blocks
      /\ \A b \in Blocks \ used_disk : disk[b] = ZeroBlock
      /\ t \in Blocks /\ t \in Owns(i) /\ t \in used_disk
  <2>1. t \in Blocks
    BY <1>2, <1>3, FileTypes
  <2> QED BY <1>3, <2>1 DEF IInv, ITypes, Owns, Shape, InUse
<1>5. DOMAIN disk' = Blocks /\ disk'[t] = table /\ \A b \in Blocks \ {t} : disk'[b] = disk[b]
  BY <1>1, <1>4
<1>6. \A e \in 0..NINDIRECT - 1 : NDIRECT + e \in Index /\ (NDIRECT + e) - NDIRECT = e
  BY Sizes DEF Index, MAX_FILE_BLOCKS_CNT
<1>7. table \in Tables
  BY <1>3, <1>6 DEF Tables
<1>8. TableOf(inode[i], disk') = table
  BY <1>3, <1>5 DEF TableOf
<1>9. Blk(i)' = r.blocks
  <2> HIDE DEF table
  <2>1. inode'[i] = inode[i] /\ Blk(i)' = all_blocks(inode[i], table)
    BY <1>1, <1>8 DEF Blk
  <2>2. Blk(i)' \in [Index -> 0..NBlocks]
    BY <1>3, <1>7, <2>1, BlocksLemma
  <2>3. ASSUME NEW k \in Index PROVE Blk(i)'[k] = r.blocks[k]
    <3>1. Blk(i)'[k] = IF k < NDIRECT THEN inode[i].i_sectors[k] ELSE table[k - NDIRECT][2]
      BY <1>3, <1>7, <2>1, BlocksLemma
    <3>2. CASE k < NDIRECT
      <4>1. k \in 0..NDIRECT - 1
        BY <3>2, Sizes DEF Index
      <4> QED BY <1>3, <3>1, <3>2, <4>1
    <3>3. CASE ~(k < NDIRECT)
      <4>1. k - NDIRECT \in 0..NINDIRECT - 1 /\ NDIRECT + (k - NDIRECT) = k
        BY <3>3, Sizes DEF Index, MAX_FILE_BLOCKS_CNT
      <4>2. table[k - NDIRECT][2] = r.blocks[NDIRECT + (k - NDIRECT)]
        BY <4>1 DEF table
      <4> QED BY <3>1, <3>3, <4>1, <4>2
    <3> QED BY <3>2, <3>3
  <2> QED BY <1>3, <2>2, <2>3
<1> HIDE DEF table
<1>10. /\ \A b \in Blocks \ Owns(i) : disk'[b] = disk[b]
       /\ \A b \in Blocks \ used_disk : disk'[b] = ZeroBlock
  BY <1>4, <1>5
<1>11. \A k \in Index : r.blocks[k] # 0 => disk'[r.blocks[k]] = disk[r.blocks[k]]
  <2> SUFFICES ASSUME NEW k \in Index, r.blocks[k] # 0
               PROVE  disk'[r.blocks[k]] = disk[r.blocks[k]]
    OBVIOUS
  <2>1. r.blocks[k] # t
    BY <1>2, <1>3 DEF Shape
  <2>2. r.blocks[k] \in Blocks
    BY <1>2, <1>3, FileTypes
  <2> QED BY <1>5, <2>1, <2>2
<1>12. /\ itab' \in [Inodes -> DiskInode] /\ \A j \in Inodes \ {i} : itab'[j] = itab[j]
       /\ itab'[i] = inode[i] /\ TableOf(inode[i], disk') \in Tables
       /\ ~(inode[i].i_sectors[NDIRECT] = 0) /\ UNCHANGED <<used, used_disk, inode>>
  BY <1>1, <1>3, <1>4, <1>7, <1>8
<1>13. pc[p] \in Syncing /\ Return(p) /\ DOMAIN disk' = Blocks
  BY <1>1, <1>5
<1> QED BY ONLY IInv, p \in Procs, r = req[p], i = r.i, <1>9, <1>10, <1>11, <1>12, <1>13, ReturnStep

-----------------------------------------------------------------------------
(* Power off and on *)

\* The blocks that the inode on disk says.
Mounted(i) == all_blocks(itab[i], TableOf(itab[i], disk))

\* The inode on disk has blocks of the file in memory, or none.
LEMMA MountedLemma ==
  ASSUME IInv, NEW i \in Inodes
  PROVE  /\ TableOf(itab[i], disk) \in Tables
         /\ Mounted(i) \in [Index -> 0..NBlocks]
         /\ \A k \in Index : Mounted(i)[k] \in {0, Blk(i)[k]}
         /\ itab[i].i_sectors[NDIRECT] \in {0, inode[i].i_sectors[NDIRECT]}
         /\ InUse(Mounted(i), itab[i]) \subseteq used_disk
         /\ (\A s \in 0..NDIRECT - 1 : itab[i].i_sectors[s] = inode[i].i_sectors[s])
              => Mounted(i) = Blk(i)
         /\ itab[i].i_sectors[NDIRECT] = 0 =>
              \A k \in Index : k >= NDIRECT => Mounted(i)[k] = 0
<1>1. /\ itab[i] \in DiskInode /\ inode[i] \in DiskInode /\ TableOf(inode[i], disk) \in Tables
      /\ Shape(i) /\ Blk(i) \in [Index -> 0..NBlocks] /\ NDIRECT \in 0..NDIRECT
  BY FileTypes DEF IInv, Shape
<1>2. \A e \in 0..NINDIRECT - 1 : ZeroTable[e] = Zero
  BY DEF ZeroTable
<1>3. ZeroTable \in Tables
  <2>1. Zero \in {NULL} \X (0..NBlocks)
    BY Sizes DEF Zero
  <2> QED BY <2>1 DEF ZeroTable, Tables
<1>4. itab[i].i_sectors[NDIRECT] \in {0, inode[i].i_sectors[NDIRECT]}
  BY <1>1 DEF Shape
<1>5. \/ itab[i].i_sectors[NDIRECT] = 0 /\ TableOf(itab[i], disk) = ZeroTable
      \/ /\ itab[i].i_sectors[NDIRECT] # 0
         /\ TableOf(itab[i], disk) = TableOf(inode[i], disk)
  BY <1>4 DEF TableOf
<1>6. TableOf(itab[i], disk) \in Tables
  BY <1>1, <1>3, <1>5
<1>7. Mounted(i) \in [Index -> 0..NBlocks]
  BY <1>1, <1>6, BlocksLemma DEF Mounted
<1>8. ASSUME NEW k \in Index, k < NDIRECT
      PROVE  /\ Mounted(i)[k] = itab[i].i_sectors[k] /\ Blk(i)[k] = inode[i].i_sectors[k]
             /\ Mounted(i)[k] \in {0, Blk(i)[k]} /\ k \in 0..NDIRECT - 1
  <2>1. k \in 0..NDIRECT /\ k \in 0..NDIRECT - 1
    BY <1>8, Sizes DEF Index
  <2>2. Mounted(i)[k] = itab[i].i_sectors[k] /\ Blk(i)[k] = inode[i].i_sectors[k]
    BY <1>1, <1>6, <1>8, BlocksLemma DEF Mounted, Blk
  <2> QED BY <1>1, <2>1, <2>2 DEF Shape
<1>9. ASSUME NEW k \in Index, ~(k < NDIRECT)
      PROVE  /\ Mounted(i)[k] = Blk(i)[k]
             /\ itab[i].i_sectors[NDIRECT] = 0 => Mounted(i)[k] = 0
  <2>1. k - NDIRECT \in 0..NINDIRECT - 1 /\ k >= NDIRECT
    BY <1>9, Sizes DEF Index, MAX_FILE_BLOCKS_CNT
  <2>2. /\ Mounted(i)[k] = TableOf(itab[i], disk)[k - NDIRECT][2]
        /\ Blk(i)[k] = TableOf(inode[i], disk)[k - NDIRECT][2]
    BY <1>1, <1>6, <1>9, BlocksLemma DEF Mounted, Blk
  <2>3. CASE itab[i].i_sectors[NDIRECT] = 0
    <3>1. TableOf(itab[i], disk)[k - NDIRECT] = Zero
      BY <1>2, <1>5, <2>1, <2>3
    <3>2. Mounted(i)[k] = 0
      BY <2>2, <3>1 DEF Zero
    <3>3. Blk(i)[k] = 0
      BY <1>1, <2>1, <2>3 DEF Shape
    <3> QED BY <3>2, <3>3
  <2>4. CASE itab[i].i_sectors[NDIRECT] # 0
    BY <1>5, <2>2, <2>4
  <2> QED BY <2>3, <2>4
<1>10. \A k \in Index : Mounted(i)[k] \in {0, Blk(i)[k]}
  BY <1>8, <1>9
<1>11. InUse(Mounted(i), itab[i]) \subseteq used_disk
  <2>1. \A k \in Index : Blk(i)[k] \in used_disk \cup {0}
    BY <1>1 DEF Shape, InUse
  <2>2. inode[i].i_sectors[NDIRECT] \in used_disk \cup {0}
    BY <1>1 DEF Shape, InUse
  <2> QED BY <1>4, <1>7, <1>10, <2>1, <2>2 DEF InUse
<1>12. ASSUME \A s \in 0..NDIRECT - 1 : itab[i].i_sectors[s] = inode[i].i_sectors[s]
       PROVE  Mounted(i) = Blk(i)
  <2>1. \A k \in Index : Mounted(i)[k] = Blk(i)[k]
    BY <1>8, <1>9, <1>12
  <2> QED BY <1>1, <1>7, <2>1
<1>13. ASSUME itab[i].i_sectors[NDIRECT] = 0, NEW k \in Index, k >= NDIRECT
       PROVE  Mounted(i)[k] = 0
  <2>1. ~(k < NDIRECT)
    BY <1>13, Sizes DEF Index
  <2> QED BY <1>9, <1>13, <2>1
<1> QED BY <1>4, <1>6, <1>7, <1>10, <1>11, <1>12, <1>13

\* Power off and on: what was allocated and did not get to disk is forgotten.
LEMMA MountStep ==
  ASSUME IInv, mount_partition
  PROVE  IInv'
<1>1. /\ used' = used_disk /\ inode' = itab
      /\ holder' = [i \in Inodes |-> NULL] /\ pc' = [p \in Procs |-> "user"]
      /\ req' = [p \in Procs |-> NoReq]
      /\ UNCHANGED <<used_disk, disk, itab>>
  BY DEF mount_partition
<1>2. /\ DOMAIN file' = Inodes
      /\ \A i \in Inodes : file'[i] =
           IF \E p \in Procs : holder[i] = p /\ pc[p] \in Writing
             THEN [n \in Positions |->
                    IF n < itab[i].i_size THEN Content(itab[i], disk, n) ELSE Zero]
             ELSE file[i]
  BY DEF mount_partition
<1>3. ITypes'
  <2>1. \A i \in Inodes : DOMAIN file'[i] = Positions
    BY <1>2 DEF IInv, ITypes
  <2> QED BY <1>1, <1>2, <2>1 DEF IInv, ITypes
<1>4. LockInv'
  BY <1>1 DEF LockInv, Inside, Storing, Looping, Syncing
<1>5. \A p \in Procs : CallInv(p)'
  <2>1. IsReq(NoReq)
    BY DEF IsReq, NoReq
  <2> QED BY <1>1, <2>1 DEF CallInv, Reading, Writing, Storing, Looping, Syncing
<1>6. ASSUME NEW i \in Inodes
      PROVE  /\ Blk(i)' = Mounted(i) /\ Cur(i)' = Mounted(i) /\ New(i)' = {}
             /\ Owns(i)' \subseteq Owns(i) /\ Owns(i)' \subseteq used_disk
             /\ ~Stores(i)' /\ holder'[i] = NULL
  <2>1. holder'[i] = NULL
    BY <1>1
  <2>2. Blk(i)' = Mounted(i)
    BY <1>1 DEF Blk, Mounted
  <2>3. ~Stores(i)' /\ Cur(i)' = Mounted(i) /\ New(i)' = {}
    BY <2>1, <2>2 DEF Stores, Cur, New
  <2>4. \A k \in Index : Blk(i)[k] \in {0, Cur(i)[k]}
    BY DEF IInv, Shape
  <2>5. \A k \in Index : Mounted(i)[k] \in {0, Cur(i)[k]}
    BY <2>4, MountedLemma
  <2>6. itab[i].i_sectors[NDIRECT] \in {0, inode[i].i_sectors[NDIRECT]} /\ inode'[i] = itab[i]
    BY <1>1, MountedLemma
  <2>7. Owns(i)' \subseteq Owns(i)
    BY <2>3, <2>5, <2>6 DEF Owns
  <2>8. Owns(i)' \subseteq used_disk
    <3>1. DOMAIN Mounted(i) = Index /\ InUse(Mounted(i), itab[i]) \subseteq used_disk
      BY MountedLemma
    <3> QED BY <2>3, <2>6, <3>1 DEF Owns, InUse
  <2> QED BY <2>1, <2>2, <2>3, <2>7, <2>8
<1>7. ASSUME NEW i \in Inodes
      PROVE  Shape(i)'
  <2>1. Shape(i)
    BY DEF IInv
  <2>2. TableOf(inode'[i], disk') \in Tables /\ inode'[i] = itab[i] /\ itab'[i] = itab[i]
    BY <1>1, MountedLemma
  <2>3. itab[i].i_sectors[NDIRECT] = 0 => \A k \in Index : k >= NDIRECT => Mounted(i)[k] = 0
    BY MountedLemma
  <2>4. \A k \in Index : Mounted(i)[k] \in {0, Cur(i)[k]}
    BY <2>1, MountedLemma DEF Shape
  <2>5. Mounted(i) \in [Index -> 0..NBlocks] /\ InUse(Mounted(i), itab[i]) \subseteq used_disk
        /\ itab[i].i_sectors[NDIRECT] \in {0, inode[i].i_sectors[NDIRECT]}
    BY MountedLemma
  <2>6. /\ \A k, l \in Index : Mounted(i)[k] = Mounted(i)[l] /\ Mounted(i)[k] # 0 => k = l
        /\ \A k \in Index : Mounted(i)[k] # 0 => Mounted(i)[k] # itab[i].i_sectors[NDIRECT]
    BY <2>1, <2>4, <2>5 DEF Shape
  <2>7. /\ Blk(i)' = Mounted(i) /\ Cur(i)' = Mounted(i) /\ New(i)' = {}
        /\ Owns(i)' \subseteq used' /\ used_disk' = used_disk
    BY <1>1, <1>6
  <2> QED BY ONLY <2>2, <2>3, <2>5, <2>6, <2>7 DEF Shape
<1>8. ASSUME NEW i \in Inodes
      PROVE  Bytes(i)'
  <2>1. Bytes(i) /\ itab[i].i_size \in Nat
    BY FileTypes DEF IInv
  <2>2. /\ Cur(i)' = Mounted(i) /\ disk' = disk /\ inode'[i] = itab[i] /\ itab'[i] = itab[i]
        /\ holder'[i] = NULL
    BY <1>1, <1>6
  <2>3. ASSUME NEW n \in Positions
        PROVE  /\ n < itab[i].i_size => ByteAt(Mounted(i), disk, n) = file'[i][n]
               /\ n >= itab[i].i_size => file'[i][n] = Zero
    <3>1. n \in Nat
      BY Place
    <3>2. CASE \E p \in Procs : holder[i] = p /\ pc[p] \in Writing
      <4>1. file'[i][n] = IF n < itab[i].i_size THEN Content(itab[i], disk, n) ELSE Zero
        BY <1>2, <3>2
      <4>2. Content(itab[i], disk, n) = ByteAt(Mounted(i), disk, n)
        BY DEF Content, Mounted
      <4>3. n >= itab[i].i_size => ~(n < itab[i].i_size)
        BY <2>1, <3>1
      <4> QED BY <4>1, <4>2, <4>3
    <3>3. CASE ~\E p \in Procs : holder[i] = p /\ pc[p] \in Writing
      <4>1. file'[i] = file[i]
        BY <1>2, <3>3
      <4>2. holder[i] # NULL => holder[i] \in Procs /\ pc[holder[i]] \notin Writing
        BY <3>3 DEF IInv, ITypes
      <4>3. Storing \subseteq Writing /\ {"i_get", "i_put"} \subseteq Writing
        BY DEF Storing, Looping, Syncing, Writing
      <4>4. /\ ~Stores(i) /\ Cur(i) = Blk(i)
            /\ ~(holder[i] # NULL /\ pc[holder[i]] \in {"i_get", "i_put"})
        BY <4>2, <4>3 DEF Stores, Cur
      <4>5. /\ itab[i].i_size = inode[i].i_size
            /\ \A s \in 0..NDIRECT - 1 : itab[i].i_sectors[s] = inode[i].i_sectors[s]
        BY <2>1, <4>4 DEF Bytes
      <4>6. Mounted(i) = Blk(i)
        BY <4>5, MountedLemma
      <4>7. ~Done(i, n) /\ Want(i, n) = file[i][n]
        BY <4>4 DEF Done, Want
      <4> QED BY <2>1, <4>1, <4>4, <4>5, <4>6, <4>7 DEF Bytes
    <3> QED BY <3>2, <3>3
  <2>4. ASSUME NEW n \in Positions, n < inode'[i].i_size \/ Done(i, n)'
        PROVE  ByteAt(Cur(i)', disk', n) = Want(i, n)'
    <3>1. ~Done(i, n)' /\ Want(i, n)' = file'[i][n]
      BY <1>6 DEF Done, Want
    <3> QED BY <2>2, <2>3, <2>4, <3>1
  <2>5. \A n \in Positions : n >= inode'[i].i_size => file'[i][n] = Zero
    BY <2>2, <2>3
  <2> QED BY ONLY <2>2, <2>4, <2>5 DEF Bytes
<1>9. \A i, j \in Inodes : i # j => Owns(i)' \cap Owns(j)' = {}
  <2>1. \A i, j \in Inodes : i # j => Owns(i) \cap Owns(j) = {}
    BY DEF IInv
  <2> QED BY <1>6, <2>1
<1> QED BY <1>3, <1>4, <1>5, <1>7, <1>8, <1>9 DEF IInv

-----------------------------------------------------------------------------
(* The theorems *)

\* Empty files satisfy the invariant.
LEMMA InodeInit ==
  ASSUME Init
  PROVE  IInv
<1>1. /\ used = {} /\ used_disk = {} /\ disk = [b \in Blocks |-> ZeroBlock]
      /\ itab = [i \in Inodes |-> NewInode] /\ inode = itab
      /\ holder = [i \in Inodes |-> NULL] /\ pc = [p \in Procs |-> "user"]
      /\ req = [p \in Procs |-> NoReq]
      /\ file = [i \in Inodes |-> [n \in Positions |-> Zero]]
  BY DEF Init
<1>2. /\ NewInode \in DiskInode /\ NewInode.i_size = 0
      /\ \A s \in 0..NDIRECT : NewInode.i_sectors[s] = 0
  BY Sizes DEF NewInode, DiskInode
<1>3. ITypes
  BY <1>1, <1>2 DEF ITypes
<1>4. LockInv
  BY <1>1 DEF LockInv, Inside, Storing, Looping, Syncing
<1>5. \A p \in Procs : CallInv(p)
  <2>1. IsReq(NoReq)
    BY DEF IsReq, NoReq
  <2> QED BY <1>1, <2>1 DEF CallInv, Reading, Writing, Storing, Looping, Syncing
<1>6. ASSUME NEW i \in Inodes
      PROVE  /\ holder[i] = NULL /\ inode[i] = NewInode /\ itab[i] = NewInode
             /\ TableOf(inode[i], disk) = ZeroTable /\ ZeroTable \in Tables
             /\ inode[i].i_sectors[NDIRECT] = 0
  <2>1. /\ holder[i] = NULL /\ inode[i] = NewInode /\ itab[i] = NewInode
        /\ inode[i].i_sectors[NDIRECT] = 0
    BY <1>1, <1>2, Sizes
  <2>2. ZeroTable \in Tables
    BY Sizes DEF ZeroTable, Tables, Zero
  <2> QED BY <2>1, <2>2 DEF TableOf
<1>7. ASSUME NEW i \in Inodes
      PROVE  /\ Blk(i) \in [Index -> 0..NBlocks] /\ \A k \in Index : Blk(i)[k] = 0
             /\ Cur(i) = Blk(i) /\ New(i) = {} /\ Owns(i) = {} /\ InUse(Blk(i), inode[i]) = {}
  <2>1. Blk(i) \in [Index -> 0..NBlocks]
    BY <1>2, <1>6, BlocksLemma DEF Blk
  <2>2. ASSUME NEW k \in Index PROVE Blk(i)[k] = 0
    <3>1. k \in Nat /\ (~(k < NDIRECT) => k - NDIRECT \in 0..NINDIRECT - 1)
          /\ (k < NDIRECT => k \in 0..NDIRECT)
      BY Sizes DEF Index, MAX_FILE_BLOCKS_CNT
    <3>2. Blk(i)[k] = IF k < NDIRECT THEN inode[i].i_sectors[k] ELSE ZeroTable[k - NDIRECT][2]
      BY <1>2, <1>6, BlocksLemma DEF Blk
    <3>3. ~(k < NDIRECT) => ZeroTable[k - NDIRECT][2] = 0
      BY <3>1 DEF ZeroTable, Zero
    <3> QED BY <1>2, <1>6, <3>1, <3>2, <3>3
  <2>3. Cur(i) = Blk(i) /\ New(i) = {}
    BY <1>6 DEF Cur, Stores, New
  <2>4. Owns(i) = {}
    BY <1>6, <2>2, <2>3 DEF Owns
  <2>5. InUse(Blk(i), inode[i]) = {}
    BY <1>6, <2>1, <2>2 DEF InUse
  <2> QED BY <2>1, <2>2, <2>3, <2>4, <2>5
<1>8. ASSUME NEW i \in Inodes
      PROVE  Shape(i) /\ Bytes(i)
  <2>1. Shape(i)
    BY <1>1, <1>2, <1>6, <1>7 DEF Shape
  <2>2. \A n \in Positions : n \in Nat /\ file[i][n] = Zero
    BY <1>1, Place
  <2>3. \A n \in Positions : ~(n < inode[i].i_size)
    BY <1>2, <1>6, <2>2
  <2>4. \A n \in Positions : ~Done(i, n)
    BY <1>6 DEF Done, Stores
  <2>5. itab[i] = inode[i] /\ holder[i] = NULL
    BY <1>6
  <2> QED BY ONLY <2>1, <2>2, <2>3, <2>4, <2>5 DEF Bytes
<1>9. \A i, j \in Inodes : i # j => Owns(i) \cap Owns(j) = {}
  BY <1>7
<1> QED BY <1>3, <1>4, <1>5, <1>8, <1>9 DEF IInv

\* A step that changes nothing.
LEMMA InodeStutter ==
  ASSUME IInv, UNCHANGED vars
  PROVE  IInv'
<1>1. \A i \in Inodes : /\ Blk(i)' = Blk(i) /\ Cur(i)' = Cur(i) /\ New(i)' = New(i)
                        /\ Owns(i)' = Owns(i) /\ Stores(i)' = Stores(i)
  BY DEF vars, Blk, Cur, New, Owns, Stores
<1>2. \A i \in Inodes : Shape(i)' /\ Bytes(i)'
  <2> SUFFICES ASSUME NEW i \in Inodes PROVE Shape(i)' /\ Bytes(i)'
    OBVIOUS
  <2>1. Shape(i) /\ Bytes(i)
    BY DEF IInv
  <2>2. Shape(i)'
    BY <2>1 DEF vars, Shape, Blk, Cur, New, Owns, Stores, InUse
  <2>3. Bytes(i)'
    BY <2>1 DEF vars, Bytes, Blk, Cur, Stores, Done, Want
  <2> QED BY <2>2, <2>3
<1>3. ITypes' /\ LockInv'
  BY DEF vars, IInv, ITypes, LockInv
<1>4. \A p \in Procs : CallInv(p)'
  <2> SUFFICES ASSUME NEW p \in Procs PROVE CallInv(p)'
    OBVIOUS
  <2>1. CallInv(p)
    BY DEF IInv
  <2> QED BY <2>1 DEF vars, CallInv, Blk
<1>5. \A i, j \in Inodes : i # j => Owns(i)' \cap Owns(j)' = {}
  BY <1>1 DEF IInv
<1> QED BY <1>2, <1>3, <1>4, <1>5 DEF IInv

\* Every step preserves the invariant: one case per action of Inode.
LEMMA InodeStep ==
  ASSUME IInv, Apart, [Next]_vars
  PROVE  IInv'
<1>1. ASSUME NEW p \in Procs, Step(p)
      PROVE  IInv'
  <2>1. ASSUME NEW i \in Inodes, NEW count \in Counts, NEW pos \in Positions,
               inode_read(p, i, count, pos)
        PROVE  IInv'
    BY <2>1, InodeReadStep
  <2>2. ASSUME NEW i \in Inodes, NEW count \in Counts, NEW pos \in Positions,
               inode_write(p, i, count, pos)
        PROVE  IInv'
    BY <2>2, InodeWriteStep DEF Apart
  <2>3. CASE ReadLock(p)
    BY <2>3, ReadLockStep
  <2>4. CASE ReadTable(p)
    BY <2>4, ReadTableStep
  <2>5. CASE ReadBlock(p)
    BY <2>5, ReadBlockStep
  <2>6. CASE WriteLock(p)
    BY <2>6, WriteLockStep
  <2>7. CASE IndirectBit(p)
    BY <2>7, IndirectBitStep
  <2>8. CASE IndirectClear(p)
    BY <2>8, IndirectClearStep
  <2>9. CASE WriteTable(p)
    BY <2>9, WriteTableStep
  <2>10. CASE WriteBit(p)
    BY <2>10, WriteBitStep
  <2>11. CASE WriteGet(p)
    BY <2>11, WriteGetStep
  <2>12. CASE WritePut(p)
    BY <2>12, WritePutStep
  <2>13. CASE SyncGet(p)
    BY <2>13, SyncGetStep
  <2>14. CASE SyncPut(p)
    BY <2>14, SyncPutStep
  <2>15. CASE WriteLast(p)
    BY <2>15, WriteLastStep
  <2> QED BY <1>1, <2>1, <2>2, <2>3, <2>4, <2>5, <2>6, <2>7, <2>8, <2>9, <2>10, <2>11,
             <2>12, <2>13, <2>14, <2>15 DEF Step
<1>2. CASE mount_partition
  BY <1>2, MountStep
<1>3. CASE UNCHANGED vars
  BY <1>3, InodeStutter
<1> QED BY <1>1, <1>2, <1>3 DEF Next

\* The inductive invariant of fs/inode.c holds in every reachable state, across
\* power failures too.
THEOREM InodeInvariant == Apart => (Spec => []IInv)
<1> SUFFICES ASSUME Apart PROVE Spec => []IInv
  OBVIOUS
<1>1. Init => IInv
  BY InodeInit
<1>2. IInv /\ [Next]_vars => IInv'
  BY InodeStep
<1> QED BY <1>1, <1>2, PTL DEF Spec

\* What the invariant says of a read that is under way.
LEMMA ReadsBackLemma ==
  ASSUME IInv
  PROVE  ReadsBack
<1> SUFFICES ASSUME NEW p \in Procs, pc[p] = "r_block", NEW n \in Span(req[p]),
                    n \div BLOCK_SIZE = req[p].k
             PROVE  ByteAt(req[p].blocks, disk, n) = file[req[p].i][n]
  BY DEF ReadsBack
<1> DEFINE r == req[p]
           i == r.i
<1>1. pc[p] \in Inside /\ pc[p] \in Reading /\ pc[p] # "user" /\ pc[p] \notin Storing
  BY DEF Inside, Reading, Storing, Looping, Syncing
<1>2. i \in Inodes /\ holder[i] = p /\ p # NULL
  BY <1>1, Holds
<1>3. IsRequest(r) /\ r.blocks = Blk(i) /\ r.pos + r.count <= inode[i].i_size
  BY <1>1 DEF IInv, CallInv
<1>4. ~Stores(i) /\ Cur(i) = Blk(i) /\ ~Done(i, n) /\ Want(i, n) = file[i][n]
  BY <1>1, <1>2 DEF Stores, Cur, Done, Want
<1>5. n \in Positions /\ n < inode[i].i_size
  <2>1. r.pos \in Nat /\ r.count \in Nat /\ inode[i].i_size \in Nat
    BY <1>2, <1>3, FileTypes DEF IsRequest
  <2> QED BY <1>3, <2>1, SpanLemma DEF Span
<1>6. Bytes(i)
  BY <1>2 DEF IInv
<1> QED BY <1>3, <1>4, <1>5, <1>6 DEF Bytes

\* What it says of the blocks.
LEMMA BlocksOwnedLemma ==
  ASSUME IInv
  PROVE  BlocksOwned
<1>1. ASSUME NEW i \in Inodes
      PROVE  BlocksOf(i) \subseteq Owns(i)
  <2>1. Shape(i) /\ Blk(i) \in [Index -> 0..NBlocks] /\ Cur(i) \in [Index -> 0..NBlocks]
    BY FileTypes DEF IInv
  <2>2. InUse(Blk(i), inode[i]) \subseteq Owns(i)
    BY <2>1 DEF InUse, Owns, Shape
  <2>3. ASSUME NEW q \in Procs, holder[i] = q
        PROVE  InUse(req[q].blocks, inode[i]) \subseteq Owns(i)
    <3>1. q # NULL /\ pc[q] \in Inside /\ req[q].i = i
      BY <2>3, InodeAssumption DEF IInv, LockInv
    <3>2. CASE pc[q] \in Storing
      <4>1. Cur(i) = req[q].blocks
        BY <2>3, <3>1, <3>2 DEF Cur, Stores
      <4> QED BY <2>1, <4>1 DEF InUse, Owns
    <3>3. CASE pc[q] = "r_block"
      <4>1. req[q].blocks = Blk(i)
        BY <3>1, <3>3 DEF IInv, CallInv
      <4> QED BY <2>2, <4>1
    <3>4. CASE pc[q] \in {"r_table", "w_ibit", "w_izero", "w_table"}
      <4>1. req[q].blocks = <<>>
        BY <3>4 DEF IInv, CallInv
      <4>2. DOMAIN req[q].blocks = {}
        BY <4>1
      <4> QED BY <4>2 DEF InUse, Owns
    <3> QED BY <3>1, <3>2, <3>3, <3>4 DEF Inside
  <2> QED BY <2>2, <2>3 DEF BlocksOf, Blk
<1>2. \A i \in Inodes : Owns(i) \subseteq used
  BY DEF IInv, Shape
<1>3. \A i, j \in Inodes : i # j => Owns(i) \cap Owns(j) = {}
  BY DEF IInv
<1>4. \A i \in Inodes : InUse(all_blocks(itab[i], TableOf(itab[i], disk)), itab[i]) \subseteq used_disk
  BY MountedLemma DEF Mounted
<1>5. \A i, j \in Inodes : i # j => BlocksOf(i) \cap BlocksOf(j) = {}
  BY <1>1, <1>3
<1>6. \A i \in Inodes : BlocksOf(i) \subseteq used
  BY <1>1, <1>2
<1> QED BY <1>4, <1>5, <1>6 DEF BlocksOwned

\* What it says of a file nobody is in.
LEMMA OnDiskLemma ==
  ASSUME IInv
  PROVE  OnDisk
<1> SUFFICES ASSUME NEW i \in Inodes, holder[i] = NULL, NEW n \in Positions, file[i][n] # Zero
             PROVE  n < itab[i].i_size /\ Content(itab[i], disk, n) = file[i][n]
  BY DEF OnDisk
<1>1. Bytes(i) /\ inode[i].i_size \in Nat /\ n \in Nat
  BY FileTypes, Place DEF IInv
<1>2. /\ itab[i].i_size = inode[i].i_size
      /\ \A s \in 0..NDIRECT - 1 : itab[i].i_sectors[s] = inode[i].i_sectors[s]
  BY <1>1 DEF Bytes
<1>3. n < inode[i].i_size
  BY <1>1 DEF Bytes
<1>4. ~Stores(i) /\ Cur(i) = Blk(i) /\ ~Done(i, n) /\ Want(i, n) = file[i][n]
  BY DEF Stores, Cur, Done, Want
<1>5. Mounted(i) = Blk(i)
  BY <1>2, MountedLemma
<1>6. ByteAt(Mounted(i), disk, n) = file[i][n]
  BY <1>1, <1>3, <1>4, <1>5 DEF Bytes
<1> QED BY <1>2, <1>3, <1>6 DEF Content, Mounted

\* inode_read returns, at each block it copies, what the writes that returned
\* have put in the file, whatever others read, write or extend meanwhile and
\* wherever the power went.
THEOREM InodeReadsBack == Apart => (Spec => []ReadsBack)
BY InodeInvariant, ReadsBackLemma, PTL

\* block_bitmap_alloc never gives a block to two files: a block belongs to one
\* file, both bitmaps have every block in use, and the one on disk is not behind
\* the inode table, wherever the power goes.
THEOREM InodeBlocksOwned == Apart => (Spec => []BlocksOwned)
BY InodeInvariant, BlocksOwnedLemma, PTL

\* inode_write returns when the disk has the whole file: with the lock free, the
\* inode table and the blocks on disk give every byte that was written.
THEOREM InodeOnDisk == Apart => (Spec => []OnDisk)
BY InodeInvariant, OnDiskLemma, PTL

=============================================================================
