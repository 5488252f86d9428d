----------------------------- MODULE FilesProofs -----------------------------
(***************************************************************************)
(* File descriptors, for any number of processes, names and inodes and any *)
(* sizes of the tables: a pipe counts its descriptors through fork, close  *)
(* and exit, an inode that is in use stays open, and, but for the slots in *)
(* stale, no call follows a bad pointer and no slot is given away under a  *)
(* descriptor.                                                             *)
(*                                                                         *)
(* None of these is inductive by itself.  That fork, close and exit find   *)
(* the inode depends on SlotInv: a slot without an object has no           *)
(* descriptor, and a process has at most one for the slot of a file; that  *)
(* a created file starts with the count 1, on no slot having an inode      *)
(* without a name; and the counts are about finite sets only because the   *)
(* processes alive are finitely many.                                      *)
(***************************************************************************)
EXTENDS Files, FiniteSetTheorems, NaturalsInduction, WellFoundedInduction, TLAPS

FilesTypes == TypeOK /\ IsFiniteSet(alive)

Tables == [Procs -> [Fds -> Slots \cup {-1}]]
Entries == [fd_inode: Inodes \cup {PAGE, NULL}, fd_pos: Int, flag: {"file", "pipe"}]

\* A slot has an object of its kind, and an inode in it has a name.
Kind(s) ==
  LET f == file_table[s]
  IN  /\ f.flag = "pipe" => f.fd_inode \in {PAGE, NULL}
      /\ f.flag = "file" => f.fd_inode \in Inodes \cup {NULL}
      /\ f.fd_inode \in Inodes => \E n \in Names : dir[n] = f.fd_inode

\* A slot that is not stale has no descriptor when it has no object, and only
\* one of each process when it has a file.
Unused(s) ==
  s \notin stale /\ s >= 3 /\ file_table[s].fd_inode = NULL => AllRefs(s) = {}
OneEach(s) ==
  s \notin stale /\ file_table[s].flag = "file" =>
    \A p \in alive, a, b \in OwnFds :
      fd_table[p][a] = s /\ fd_table[p][b] = s => a = b

\* The slots of the standard descriptors are of no other.
OwnTables == \A p \in alive, fd \in OwnFds : fd_table[p][fd] \notin 0..2

SlotInv == OwnTables /\ \A s \in Slots : Kind(s) /\ Unused(s) /\ OneEach(s)

\* PipeCounted, of one slot.
Counted(s) ==
  s \notin stale /\ file_table[s].flag = "pipe" =>
    /\ file_table[s].fd_pos = Cardinality(Refs(s)) + lost[s]
    /\ file_table[s].fd_inode = NULL <=> Refs(s) = {} /\ lost[s] = 0

IInv == FilesTypes /\ SlotInv /\ PipeCounted /\ InodeStaysOpen /\ NoCrash

\* What NoSlotReuse says of a step.
Reuse ==
  \A s \in Slots : file_table'[s].fd_inode # file_table[s].fd_inode =>
                     AllRefs(s) = {} \/ AllRefs(s)' = {} \/ s \in stale'

-----------------------------------------------------------------------------
(* Numbers, tables and descriptors *)

\* The least element of a set of numbers that is not empty is in it.
LEMMA LeastLemma ==
  ASSUME NEW S, S \subseteq Nat, S # {}
  PROVE  Least(S) \in S
<1>1. PICK x \in S : \A y \in S : <<y, x>> \notin OpToRel(<, Nat)
  BY NatLessThanWellFounded, WFMin, Zenon
<1>2. \A y \in S : ~(y < x)
  BY <1>1 DEF OpToRel
<1>3. \E z \in S : \A y \in S : z <= y
  BY <1>2
<1> QED BY <1>3 DEF Least

\* The tables are finite, and -1 names no slot.
LEMMA TablesLemma ==
  /\ IsFiniteSet(Fds) /\ IsFiniteSet(OwnFds) /\ IsFiniteSet(Slots)
  /\ Fds \subseteq Nat /\ OwnFds \subseteq Fds /\ Slots \subseteq Nat
  /\ -1 \notin Slots /\ 0..2 \subseteq Slots
<1>1. MaxFd - 1 \in Int /\ MaxFile - 1 \in Int
  BY FilesAssumption
<1>2. IsFiniteSet(Fds) /\ IsFiniteSet(Slots)
  BY <1>1, FS_Interval DEF Fds, Slots
<1>3. /\ Fds \subseteq Nat /\ OwnFds \subseteq Fds /\ Slots \subseteq Nat
      /\ 0..2 \subseteq Slots
  BY FilesAssumption DEF Fds, OwnFds, Slots
<1>4. IsFiniteSet(OwnFds)
  BY <1>2, <1>3, FS_Subset
<1> QED BY <1>2, <1>3, <1>4

\* What FilesTypes and the assumption say, without their definitions.
LEMMA TypesLemma ==
  ASSUME FilesTypes
  PROVE  /\ alive \subseteq Procs /\ IsFiniteSet(alive)
         /\ fd_table \in Tables /\ file_table \in [Slots -> Entries]
         /\ i_open_cnts \in [Inodes -> Nat] /\ dir \in [Names -> Inodes \cup {NULL}]
         /\ lost \in [Slots -> 0..2] /\ stale \subseteq Slots
         /\ NULL \notin Inodes /\ PAGE \notin Inodes /\ NULL # PAGE
BY FilesAssumption DEF FilesTypes, TypeOK, Tables, Entries

\* The descriptors that are counted are among all, and PipeCounted is Counted
\* of every slot.
LEMMA CountedLemma ==
  /\ \A s : Refs(s) \subseteq AllRefs(s)
  /\ PipeCounted <=> \A s \in Slots : Counted(s)
<1>1. \A s : Refs(s) \subseteq AllRefs(s)
  BY TablesLemma DEF Refs, AllRefs
<1>2. PipeCounted <=> \A s \in Slots : Counted(s)
  BY DEF PipeCounted, Counted
<1> QED BY <1>1, <1>2

\* A slot has finitely many descriptors.
LEMMA RefsLemma ==
  ASSUME FilesTypes, NEW s \in Slots
  PROVE  /\ IsFiniteSet(Refs(s)) /\ Cardinality(Refs(s)) \in Nat
         /\ Cardinality(Refs(s)) = 0 <=> Refs(s) = {}
<1>1. IsFiniteSet(alive \X OwnFds)
  BY TablesLemma, TypesLemma, FS_Product
<1>2. Refs(s) \in SUBSET (alive \X OwnFds)
  BY DEF Refs
<1>3. IsFiniteSet(Refs(s))
  BY <1>1, <1>2, FS_Subset
<1> QED BY <1>3, FS_CardinalityType, FS_EmptySet

\* The table of a process that has only the standard descriptors.
LEMMA StandardLemma ==
  [fd \in Fds |-> IF fd < 3 THEN fd ELSE -1] \in [Fds -> Slots \cup {-1}]
BY FilesAssumption DEF Fds, Slots

\* One process has as many descriptors as its table has places for them.
LEMMA ProductLemma ==
  ASSUME NEW p, NEW U, IsFiniteSet(U)
  PROVE  IsFiniteSet({p} \X U) /\ Cardinality({p} \X U) = Cardinality(U)
<1>1. IsFiniteSet({p}) /\ Cardinality({p}) = 1
  BY FS_Singleton
<1>2. /\ IsFiniteSet({p} \X U)
      /\ Cardinality({p} \X U) = Cardinality({p}) * Cardinality(U)
  BY <1>1, FS_Product, Zenon
<1>3. Cardinality(U) \in Nat
  BY FS_CardinalityType
<1> QED BY <1>1, <1>2, <1>3

\* pcb_fd_install fills one free place, if there is one.
LEMMA InstallLemma ==
  ASSUME NEW table \in [Fds -> Slots \cup {-1}], NEW g \in Slots
  PROVE  LET free == {fd \in OwnFds : table[fd] = -1}
         IN  \/ free = {} /\ pcb_fd_install(table, g) = table
             \/ \E fd \in free : pcb_fd_install(table, g) = [table EXCEPT ![fd] = g]
<1> DEFINE free == {fd \in OwnFds : table[fd] = -1}
<1>1. free \subseteq Nat
  BY TablesLemma
<1>2. CASE free = {}
  BY <1>2 DEF pcb_fd_install
<1>3. CASE free # {}
  <2>1. Least(free) \in free
    BY <1>1, <1>3, LeastLemma
  <2>2. pcb_fd_install(table, g) = [table EXCEPT ![Least(free)] = g]
    BY <1>3 DEF pcb_fd_install
  <2> QED BY <2>1, <2>2
<1> QED BY <1>2, <1>3

\* The slot the table is asked for is free: it has no object and, unless it is
\* stale, nobody's descriptor refers to it.
LEMMA FreeSlotLemma ==
  ASSUME IInv, FreeSlots # {}
  PROVE  LET s == get_free_slot_in_global
         IN  /\ s \in Slots /\ s >= 3 /\ file_table[s].fd_inode = NULL
             /\ s \in stale \/ AllRefs(s) = {}
<1> DEFINE s == get_free_slot_in_global
<1>1. FreeSlots \subseteq Slots /\ Slots \subseteq Nat
  BY TablesLemma DEF FreeSlots
<1>2. s \in FreeSlots
  BY <1>1, LeastLemma DEF get_free_slot_in_global
<1>3. s \in Slots /\ s >= 3 /\ file_table[s].fd_inode = NULL
  BY <1>1, <1>2 DEF FreeSlots
<1> HIDE DEF s
<1>4. s \in stale \/ AllRefs(s) = {}
  BY <1>3 DEF IInv, SlotInv, Unused
<1> QED BY <1>3, <1>4 DEF s

\* A step that leaves the slots and the descriptors that are counted alone, and
\* gives a slot without any no other descriptor either.
LEMMA SameTablesLemma ==
  ASSUME IInv, UNCHANGED <<alive, file_table, dir, lost, stale>>,
         fd_table' \in Tables, i_open_cnts' \in [Inodes -> Nat],
         status' \in {"ok", "assert", "wild"}, faulted' \subseteq stale,
         \A p \in alive, fd \in OwnFds : fd_table'[p][fd] = fd_table[p][fd],
         \A s \in Slots : s >= 3 /\ AllRefs(s) = {} => AllRefs(s)' = {}
  PROVE  FilesTypes' /\ SlotInv' /\ PipeCounted' /\ NoCrash'
<1>0. \A s \in Slots : Refs(s)' = Refs(s)
  BY DEF Refs
<1>1. FilesTypes' /\ NoCrash'
  BY DEF IInv, FilesTypes, TypeOK, Tables, NoCrash
<1>2. OwnTables' /\ \A s \in Slots : Kind(s)' /\ Unused(s)' /\ OneEach(s)'
  BY DEF IInv, SlotInv, OwnTables, Kind, Unused, OneEach
<1>3. PipeCounted'
  BY <1>0 DEF IInv, PipeCounted
<1> QED BY <1>1, <1>2, <1>3 DEF SlotInv

\* A step that changes nothing.
LEMMA SkipLemma ==
  ASSUME IInv, UNCHANGED vars
  PROVE  IInv' /\ Reuse
<1>1. UNCHANGED <<alive, fd_table, file_table, i_open_cnts, dir, status, faulted,
                  lost, stale>>
  BY DEF vars, history
<1>2. /\ fd_table' \in Tables /\ i_open_cnts' \in [Inodes -> Nat]
      /\ status' \in {"ok", "assert", "wild"} /\ faulted' \subseteq stale
  BY <1>1 DEF IInv, FilesTypes, TypeOK, NoCrash, Tables
<1>3. \A s \in Slots : AllRefs(s)' = AllRefs(s)
  BY <1>1 DEF AllRefs
<1>4. FilesTypes' /\ SlotInv' /\ PipeCounted' /\ NoCrash'
  BY <1>1, <1>2, <1>3, SameTablesLemma
<1>5. InodeStaysOpen'
  BY <1>1 DEF IInv, InodeStaysOpen
<1> QED BY <1>1, <1>4, <1>5 DEF IInv, Reuse

\* The slots with an inode.
Having(i) == {s \in Slots : file_table[s].fd_inode = i}

LEMMA HavingLemma ==
  ASSUME NEW i
  PROVE  IsFiniteSet(Having(i)) /\ Cardinality(Having(i)) \in Nat
<1>1. Having(i) \in SUBSET Slots
  BY DEF Having
<1> QED BY <1>1, TablesLemma, FS_Subset, FS_CardinalityType

\* A free slot takes an object, and its taker descriptors for it.
LEMMA TakeLemma ==
  ASSUME IInv, NEW p \in alive, NEW s \in Slots,
         NEW new, new \subseteq FreeFds(p),
         s >= 3, file_table[s].fd_inode = NULL, s \in stale \/ AllRefs(s) = {},
         fd_table' \in Tables,
         \A q \in alive, fd \in Fds : fd_table'[q][fd] =
           IF q = p /\ fd \in new THEN s ELSE fd_table[q][fd],
         NEW e \in Entries, e.fd_inode # NULL,
         e.flag = "file" => /\ e.fd_inode \in Inodes
                            /\ \E n \in Names : dir'[n] = e.fd_inode
                            /\ \A a, b \in new : a = b,
         e.flag = "pipe" => /\ e.fd_inode = PAGE /\ e.fd_pos > 0
                            /\ e.fd_pos = Cardinality(new) + lost'[s],
         file_table' \in [Slots -> Entries], file_table'[s] = e,
         \A u \in Slots \ {s} : file_table'[u] = file_table[u],
         UNCHANGED alive, UNCHANGED status, UNCHANGED faulted, UNCHANGED stale,
         dir' \in [Names -> Inodes \cup {NULL}],
         \A n \in Names : dir[n] \in Inodes => dir'[n] = dir[n],
         lost' \in [Slots -> 0..2], \A u \in Slots \ {s} : lost'[u] = lost[u],
         i_open_cnts' \in [Inodes -> Nat], InodeStaysOpen'
  PROVE  IInv' /\ Reuse
<1>1. FilesTypes /\ file_table \in [Slots -> Entries] /\ OwnFds \subseteq Fds
  BY TypesLemma, TablesLemma DEF IInv
<1>2. /\ file_table'[s] = e /\ file_table' \in [Slots -> Entries]
      /\ \A u \in Slots \ {s} : file_table'[u] = file_table[u]
  BY <1>1
<1>3. \A u \in Slots \ {s} : AllRefs(u)' = AllRefs(u) /\ Refs(u)' = Refs(u)
  <2>1. new \subseteq OwnFds /\ \A fd \in new : fd_table[p][fd] = -1
    BY DEF FreeFds
  <2>2. \A u \in Slots \ {s}, q \in alive, fd \in Fds :
          fd_table'[q][fd] = u <=> fd_table[q][fd] = u
    BY <2>1, TablesLemma
  <2> QED BY <1>1, <2>2 DEF AllRefs, Refs
<1>4. FilesTypes'
  BY <1>2, <1>3 DEF IInv, FilesTypes, TypeOK, Tables, Entries
<1>5. ASSUME NEW u \in Slots \ {s}
      PROVE  Kind(u)' /\ Unused(u)' /\ OneEach(u)' /\ Counted(u)'
  <2>1. Kind(u) /\ Unused(u) /\ OneEach(u) /\ Counted(u)
    BY CountedLemma DEF IInv, SlotInv
  <2>2. Kind(u)' /\ Unused(u)' /\ Counted(u)'
    BY <1>2, <1>3, <2>1 DEF Kind, Unused, Counted
  <2>3. OneEach(u)'
    BY <1>1, <1>2, <1>3, <2>1 DEF OneEach
  <2> QED BY <2>2, <2>3
<1>6. OwnTables'
  BY <1>1, <1>3 DEF IInv, SlotInv, OwnTables
<1>7. Unused(s)' /\ Kind(s)'
  BY <1>1, <1>2, TypesLemma DEF Unused, Kind, Entries
<1>8. ASSUME s \notin stale
      PROVE  /\ new \subseteq OwnFds
             /\ \A q \in alive, fd \in OwnFds :
                  fd_table'[q][fd] = s <=> q = p /\ fd \in new
  <2>1. ASSUME NEW q \in alive, NEW fd \in Fds, fd_table[q][fd] = s PROVE FALSE
    <3>1. <<q, fd>> \in AllRefs(s)
      BY <2>1 DEF AllRefs
    <3> QED BY <1>8, <3>1
  <2> QED BY <1>1, <2>1 DEF FreeFds
<1>9. OneEach(s)'
  BY <1>2, <1>8 DEF OneEach
<1>10. Counted(s)'
  <2>1. ASSUME s \notin stale, e.flag = "pipe"
        PROVE  /\ e.fd_pos = Cardinality(Refs(s)') + lost'[s]
               /\ ~(Refs(s)' = {} /\ lost'[s] = 0)
    <3>1. Refs(s)' = {p} \X new
      BY <1>8, <2>1 DEF Refs
    <3>2. IsFiniteSet(new)
      BY <1>8, <2>1, TablesLemma, FS_Subset
    <3>3. Cardinality({p} \X new) = Cardinality(new)
      BY <3>2, ProductLemma, ZenonT(120)
    <3>4. {p} \X new = {} => Cardinality(new) = 0
      BY <3>3, FS_EmptySet
    <3> QED BY <2>1, <3>1, <3>3, <3>4
  <2> QED BY <1>2, <2>1 DEF Counted
<1>11. SlotInv'
  <2>1. \A u \in Slots : Kind(u)' /\ Unused(u)' /\ OneEach(u)'
    BY <1>5, <1>7, <1>9
  <2> QED BY <1>6, <2>1 DEF SlotInv
<1>12. PipeCounted'
  <2>1. \A u \in Slots : Counted(u)'
    BY <1>5, <1>10
  <2> QED BY <2>1 DEF PipeCounted, Counted
<1>13. NoCrash' /\ Reuse
  BY <1>2 DEF IInv, NoCrash, Reuse
<1> QED BY <1>4, <1>11, <1>12, <1>13 DEF IInv

\* A free slot takes an inode that has a name and whose count allows for one
\* slot more.
LEMMA InstallStep ==
  ASSUME IInv, NEW p \in alive, NEW s \in Slots, NEW i \in Inodes,
         s >= 3, file_table[s].fd_inode = NULL, s \in stale \/ AllRefs(s) = {},
         Install(p, s, i), UNCHANGED <<alive, status, faulted, history>>,
         dir' \in [Names -> Inodes \cup {NULL}], \E n \in Names : dir'[n] = i,
         \A n \in Names : dir[n] \in Inodes => dir'[n] = dir[n],
         i_open_cnts' \in [Inodes -> Nat],
         i_open_cnts'[i] >= Cardinality(Having(i)) + 1,
         \A j \in Inodes \ {i} : i_open_cnts'[j] = i_open_cnts[j]
  PROVE  IInv' /\ Reuse
<1> DEFINE e == [fd_inode |-> i, fd_pos |-> 0, flag |-> "file"]
           table == fd_table[p]
<1>1. /\ file_table' = [file_table EXCEPT ![s] = e]
      /\ fd_table' = [fd_table EXCEPT ![p] = pcb_fd_install(table, s)]
  BY DEF Install
<1>2. /\ fd_table \in Tables /\ p \in Procs /\ alive \subseteq Procs
      /\ table \in [Fds -> Slots \cup {-1}]
      /\ file_table \in [Slots -> Entries] /\ lost \in [Slots -> 0..2]
      /\ NULL \notin Inodes /\ PAGE \notin Inodes /\ OwnFds \subseteq Fds
  BY TypesLemma, TablesLemma DEF IInv, Tables
<1>3. e \in Entries /\ e.fd_inode = i /\ e.flag = "file" /\ i # NULL
  BY <1>2 DEF Entries
<1>4. PICK new \in SUBSET FreeFds(p) :
        /\ \A a, b \in new : a = b
        /\ pcb_fd_install(table, s) \in [Fds -> Slots \cup {-1}]
        /\ \A fd \in Fds : pcb_fd_install(table, s)[fd] =
             IF fd \in new THEN s ELSE table[fd]
  <2>1. FreeFds(p) = {fd \in OwnFds : table[fd] = -1}
    BY DEF FreeFds
  <2> HIDE DEF table
  <2>2. CASE pcb_fd_install(table, s) = table
    <3> WITNESS {} \in SUBSET FreeFds(p)
    <3> QED BY <1>2, <2>2
  <2>3. ASSUME NEW d \in FreeFds(p),
               pcb_fd_install(table, s) = [table EXCEPT ![d] = s]
        PROVE  \E new \in SUBSET FreeFds(p) :
                 /\ \A a, b \in new : a = b
                 /\ pcb_fd_install(table, s) \in [Fds -> Slots \cup {-1}]
                 /\ \A fd \in Fds : pcb_fd_install(table, s)[fd] =
                      IF fd \in new THEN s ELSE table[fd]
    <3> WITNESS {d} \in SUBSET FreeFds(p)
    <3> QED BY <1>2, <2>1, <2>3
  <2> QED BY <1>2, <2>1, <2>2, <2>3, InstallLemma
<1>5. /\ fd_table' \in Tables
      /\ \A q \in alive, fd \in Fds : fd_table'[q][fd] =
           IF q = p /\ fd \in new THEN s ELSE fd_table[q][fd]
  BY <1>1, <1>2, <1>4 DEF Tables
<1> HIDE DEF e, table
<1>6. /\ file_table'[s] = e /\ file_table' \in [Slots -> Entries]
      /\ \A u \in Slots \ {s} : file_table'[u] = file_table[u]
  BY <1>1, <1>2, <1>3
<1>7. InodeStaysOpen'
  <2>1. ASSUME NEW j \in Inodes PROVE i_open_cnts'[j] >= Cardinality(Having(j)')
    <3>1. CASE j = i
      <4>1. Having(j)' = Having(j) \cup {s}
        BY <1>3, <1>6, <3>1 DEF Having
      <4>2. IsFiniteSet(Having(j)) /\ Cardinality(Having(j)) \in Nat
        BY HavingLemma
      <4>3. Cardinality(Having(j) \cup {s}) \in
              {Cardinality(Having(j)), Cardinality(Having(j)) + 1}
        BY <4>2, FS_AddElement
      <4>4. i_open_cnts'[j] >= Cardinality(Having(j)) + 1 /\ i_open_cnts'[j] \in Nat
        BY <3>1
      <4> QED BY <4>1, <4>2, <4>3, <4>4
    <3>2. CASE j # i
      <4>1. Having(j)' = Having(j)
        BY <1>2, <1>3, <1>6, <3>2 DEF Having
      <4>2. i_open_cnts[j] >= Cardinality(Having(j))
        BY DEF IInv, InodeStaysOpen, Having
      <4> QED BY <3>2, <4>1, <4>2
    <3> QED BY <3>1, <3>2
  <2> QED BY <2>1 DEF InodeStaysOpen, Having
<1>8. /\ UNCHANGED alive /\ UNCHANGED status /\ UNCHANGED faulted /\ UNCHANGED stale
      /\ lost' \in [Slots -> 0..2]
      /\ \A u \in Slots \ {s} : lost'[u] = lost[u]
      /\ new \subseteq FreeFds(p) /\ \A a, b \in new : a = b
  BY <1>2, <1>4 DEF history
<1>9. /\ e.flag = "pipe" => FALSE
      /\ e.flag = "file" => /\ e.fd_inode \in Inodes
                            /\ \E n \in Names : dir'[n] = e.fd_inode
                            /\ \A a, b \in new : a = b
      /\ e \in Entries /\ e.fd_inode # NULL
  BY <1>3, <1>8
<1> HIDE DEF Install
<1> QED
  BY <1>5, <1>6, <1>7, <1>8, <1>9, TakeLemma

\* file_open counts the inode, whether it gets a slot or not.
LEMMA FileOpenStep ==
  ASSUME IInv, NEW p \in Procs, NEW n \in Names, file_open(p, n)
  PROVE  IInv' /\ Reuse
<1>1. /\ p \in alive /\ dir[n] # NULL
      /\ i_open_cnts' = [i_open_cnts EXCEPT ![dir[n]] = @ + 1]
      /\ UNCHANGED <<alive, dir, status, faulted, history, lost, stale>>
  BY DEF file_open, Runs, history
<1>2. /\ i_open_cnts \in [Inodes -> Nat] /\ dir \in [Names -> Inodes \cup {NULL}]
      /\ fd_table \in Tables /\ status \in {"ok", "assert", "wild"}
      /\ faulted \subseteq stale
      /\ \A j \in Inodes : /\ i_open_cnts[j] >= Cardinality(Having(j))
                           /\ Cardinality(Having(j)) \in Nat
  BY TypesLemma, HavingLemma DEF IInv, FilesTypes, TypeOK, InodeStaysOpen, NoCrash, Having
<1>3. PICK i \in Inodes : i = dir[n]
  BY <1>1, <1>2
<1>4. /\ i_open_cnts' \in [Inodes -> Nat] /\ i_open_cnts'[i] = i_open_cnts[i] + 1
      /\ \A j \in Inodes \ {i} : i_open_cnts'[j] = i_open_cnts[j]
  BY <1>1, <1>2, <1>3
<1>5. CASE get_free_slot_in_global = -1
  <2>1. UNCHANGED <<file_table, fd_table>>
    BY <1>5 DEF file_open
  <2>2. \A s \in Slots : AllRefs(s)' = AllRefs(s)
    BY <1>1, <2>1 DEF AllRefs
  <2>3. FilesTypes' /\ SlotInv' /\ PipeCounted' /\ NoCrash'
    BY <1>1, <1>2, <1>4, <2>1, <2>2, SameTablesLemma
  <2>4. \A j \in Inodes : i_open_cnts'[j] >= Cardinality(Having(j))
    BY <1>2, <1>3, <1>4
  <2>5. InodeStaysOpen'
    BY <2>1, <2>4 DEF InodeStaysOpen, Having
  <2> QED BY <2>1, <2>3, <2>5 DEF IInv, Reuse
<1>6. CASE get_free_slot_in_global # -1
  <2>1. Install(p, get_free_slot_in_global, dir[n])
    BY <1>6 DEF file_open
  <2>2. FreeSlots # {}
    BY <1>6 DEF get_free_slot_in_global
  <2>3. PICK s \in Slots : /\ s = get_free_slot_in_global /\ s >= 3
                           /\ file_table[s].fd_inode = NULL
                           /\ s \in stale \/ AllRefs(s) = {}
    BY <2>2, FreeSlotLemma
  <2>4. Install(p, s, i)
    BY <1>3, <2>1, <2>3
  <2>5. i_open_cnts'[i] >= Cardinality(Having(i)) + 1
    BY <1>2, <1>4
  <2> QED BY <1>1, <1>2, <1>3, <1>4, <2>3, <2>4, <2>5, InstallStep
<1> QED BY <1>5, <1>6

\* file_create gives a name to an inode no slot has.
LEMMA FileCreateStep ==
  ASSUME IInv, NEW p \in Procs, NEW n \in Names, file_create(p, n)
  PROVE  IInv' /\ Reuse
<1>1. /\ p \in alive /\ dir[n] = NULL /\ FreeInodes # {} /\ FreeSlots # {}
      /\ UNCHANGED <<alive, status, faulted, history>>
  BY DEF file_create, Runs
<1>2. Least(FreeInodes) \in FreeInodes /\ FreeInodes \subseteq Inodes
  BY <1>1, LeastLemma, FilesAssumption DEF FreeInodes
<1>3. PICK i \in Inodes : i = Least(FreeInodes) /\ \A m \in Names : dir[m] # i
  BY <1>2 DEF FreeInodes
<1>4. /\ dir' = [dir EXCEPT ![n] = i]
      /\ i_open_cnts' = [i_open_cnts EXCEPT ![i] = 1]
      /\ Install(p, get_free_slot_in_global, i)
  BY <1>3 DEF file_create
<1>5. PICK s \in Slots : /\ s = get_free_slot_in_global /\ s >= 3
                         /\ file_table[s].fd_inode = NULL
                         /\ s \in stale \/ AllRefs(s) = {}
  BY <1>1, FreeSlotLemma
<1>6. /\ dir \in [Names -> Inodes \cup {NULL}] /\ i_open_cnts \in [Inodes -> Nat]
      /\ NULL \notin Inodes
  BY TypesLemma DEF IInv
<1>7. /\ dir' \in [Names -> Inodes \cup {NULL}] /\ dir'[n] = i
      /\ \A m \in Names : dir[m] \in Inodes => dir'[m] = dir[m]
  BY <1>1, <1>4, <1>6
<1>8. /\ i_open_cnts' \in [Inodes -> Nat] /\ i_open_cnts'[i] = 1
      /\ \A j \in Inodes \ {i} : i_open_cnts'[j] = i_open_cnts[j]
  BY <1>4, <1>6
<1>9. Having(i) = {}
  BY <1>3 DEF Having, IInv, SlotInv, Kind
<1>10. i_open_cnts'[i] >= Cardinality(Having(i)) + 1
  BY <1>8, <1>9, FS_EmptySet
<1>11. Install(p, s, i)
  BY <1>4, <1>5
<1> QED BY <1>1, <1>5, <1>7, <1>8, <1>10, <1>11, InstallStep

\* fd_redirect changes no descriptor that is counted, and refers to a slot that
\* has a descriptor.
LEMMA RedirectStep ==
  ASSUME IInv, NEW p \in Procs, NEW old \in Fds, NEW new \in Fds,
         sys_fd_redirect(p, old, new)
  PROVE  IInv' /\ Reuse
<1> DEFINE v == IF new < 3 THEN new ELSE fd_table[p][new]
<1>1. /\ p \in alive /\ old \in 0..2 /\ fd_table' = [fd_table EXCEPT ![p][old] = v]
      /\ UNCHANGED <<alive, file_table, i_open_cnts, dir, status, faulted, lost, stale>>
  BY FilesAssumption DEF sys_fd_redirect, Runs, history
<1>2. /\ fd_table \in Tables /\ alive \subseteq Procs /\ i_open_cnts \in [Inodes -> Nat]
      /\ new \in Nat /\ OwnFds \subseteq Fds /\ 0..2 \subseteq Slots
      /\ status \in {"ok", "assert", "wild"} /\ faulted \subseteq stale
  BY TypesLemma, TablesLemma DEF IInv, FilesTypes, TypeOK, NoCrash
<1>3. v \in Slots \cup {-1} /\ (v \in Slots => v < 3 \/ v = fd_table[p][new])
  BY <1>2 DEF Tables
<1> HIDE DEF v
<1>4. /\ fd_table' \in Tables
      /\ \A q \in alive, fd \in Fds : fd_table'[q][fd] =
           IF q = p /\ fd = old THEN v ELSE fd_table[q][fd]
  BY <1>1, <1>2, <1>3 DEF Tables
<1>5. \A q \in alive, fd \in OwnFds : fd_table'[q][fd] = fd_table[q][fd]
  <2>1. \A fd \in OwnFds : fd \in Fds /\ fd # old
    BY <1>1 DEF OwnFds
  <2> QED BY <1>4, <2>1
<1>6. ASSUME NEW s \in Slots, s >= 3, AllRefs(s) = {} PROVE AllRefs(s)' = {}
  <2>1. \A q \in alive, fd \in Fds : fd_table[q][fd] # s
    <3>1. ASSUME NEW q \in alive, NEW fd \in Fds, fd_table[q][fd] = s PROVE FALSE
      <4>1. <<q, fd>> \in AllRefs(s)
        BY <3>1 DEF AllRefs
      <4> QED BY <1>6, <4>1
    <3> QED BY <3>1
  <2>2. s \in Nat /\ v # s
    BY <1>1, <1>3, <1>6, <2>1, TablesLemma
  <2>3. \A q \in alive, fd \in Fds : fd_table'[q][fd] # s
    BY <1>4, <2>1, <2>2
  <2> QED BY <1>1, <2>3 DEF AllRefs
<1>7. FilesTypes' /\ SlotInv' /\ PipeCounted' /\ NoCrash'
  BY <1>1, <1>2, <1>4, <1>5, <1>6, SameTablesLemma
<1>8. InodeStaysOpen'
  BY <1>1 DEF IInv, InodeStaysOpen
<1> QED BY <1>1, <1>7, <1>8 DEF IInv, Reuse

\* read, write and lseek find an object behind every descriptor they follow,
\* unless its slot is stale.
LEMMA UseStep ==
  ASSUME IInv, NEW p \in Procs, NEW fd \in Fds, Use(p, fd)
  PROVE  IInv' /\ Reuse
<1>1. /\ p \in alive /\ fd_table[p][fd] >= 3
      /\ UNCHANGED <<alive, fd_table, file_table, i_open_cnts, dir, status, lost, stale>>
      /\ faulted' = {s \in {fd_table[p][fd]} : file_table[s].fd_inode = NULL}
  BY DEF Use, Runs, Followed, history
<1>2. PICK s \in Slots : s = fd_table[p][fd]
  BY <1>1, TypesLemma DEF IInv, Tables
<1>3. <<p, fd>> \in AllRefs(s)
  BY <1>1, <1>2 DEF AllRefs
<1>4. file_table[s].fd_inode = NULL => s \in stale
  BY <1>1, <1>2, <1>3 DEF IInv, SlotInv, Unused
<1>5. /\ faulted' \subseteq stale /\ fd_table' \in Tables
      /\ i_open_cnts' \in [Inodes -> Nat] /\ status' \in {"ok", "assert", "wild"}
  BY <1>1, <1>2, <1>4, TypesLemma DEF IInv, FilesTypes, TypeOK
<1>6. \A u \in Slots : AllRefs(u)' = AllRefs(u)
  BY <1>1 DEF AllRefs
<1>7. FilesTypes' /\ SlotInv' /\ PipeCounted' /\ NoCrash'
  BY <1>1, <1>5, <1>6, SameTablesLemma
<1>8. InodeStaysOpen'
  BY <1>1 DEF IInv, InodeStaysOpen
<1> QED BY <1>1, <1>7, <1>8 DEF IInv, Reuse

\* Two ends take two free places, or as many as there are.
LEMMA TwoEndsLemma ==
  ASSUME FilesTypes, NEW p \in alive, NEW g \in Slots
  PROVE  LET both == pcb_fd_install(pcb_fd_install(fd_table[p], g), g)
             room == Cardinality(FreeFds(p))
         IN  /\ both \in [Fds -> Slots \cup {-1}] /\ room \in Nat
             /\ \E new \in SUBSET FreeFds(p) :
                  /\ \A fd \in Fds : both[fd] = IF fd \in new THEN g ELSE fd_table[p][fd]
                  /\ Cardinality(new) = IF room < 2 THEN room ELSE 2
<1> DEFINE table == fd_table[p]
           free == FreeFds(p)
           both == pcb_fd_install(pcb_fd_install(table, g), g)
           room == Cardinality(free)
<1>0. table \in [Fds -> Slots \cup {-1}] /\ free = {fd \in OwnFds : table[fd] = -1}
  BY TypesLemma DEF Tables, FreeFds
<1> HIDE DEF table, free
<1>1. OwnFds \subseteq Fds /\ g # -1 /\ IsFiniteSet(OwnFds)
  BY TablesLemma
<1>2. IsFiniteSet(free) /\ room \in Nat
  BY <1>0, <1>1, FS_Subset, FS_CardinalityType
<1> SUFFICES /\ both \in [Fds -> Slots \cup {-1}] /\ room \in Nat
               /\ \E new \in SUBSET free :
                    /\ \A fd \in Fds : both[fd] = IF fd \in new THEN g ELSE table[fd]
                    /\ Cardinality(new) = IF room < 2 THEN room ELSE 2
  BY DEF table, free
<1>3. CASE free = {}
  <2>1. both = table
    BY <1>0, <1>3, InstallLemma
  <2>2. room = 0
    BY <1>3, FS_EmptySet
  <2>3. {} \in SUBSET free /\ \A fd \in Fds : table[fd] = IF fd \in {} THEN g ELSE table[fd]
    OBVIOUS
  <2> HIDE DEF both
  <2>4. Cardinality({}) = 0
    BY FS_EmptySet
  <2> QED BY <1>0, <1>2, <2>1, <2>2, <2>3, <2>4
<1>4. CASE free # {}
  <2>1. PICK a \in free : pcb_fd_install(table, g) = [table EXCEPT ![a] = g]
    BY <1>0, <1>4, InstallLemma
  <2>2. PICK t : t = [table EXCEPT ![a] = g]
    OBVIOUS
  <2>3. /\ t \in [Fds -> Slots \cup {-1}]
        /\ \A fd \in Fds : t[fd] = IF fd = a THEN g ELSE table[fd]
        /\ a \in OwnFds /\ table[a] = -1
    BY <1>0, <1>1, <2>2
  <2>4. {fd \in OwnFds : t[fd] = -1} = free \ {a}
    BY <1>0, <1>1, <2>3
  <2>5. CASE free = {a}
    <3>1. pcb_fd_install(t, g) = t
      BY <2>3, <2>4, <2>5, InstallLemma
    <3>2. room = 1 /\ Cardinality({a}) = 1
      BY <2>5, FS_Singleton
    <3>3. both = t
      BY <2>1, <2>2, <3>1
    <3>4. \A fd \in Fds : t[fd] = IF fd \in {a} THEN g ELSE table[fd]
      BY <2>3
    <3>5. {a} \in SUBSET free
      OBVIOUS
    <3> HIDE DEF both
    <3> QED BY <1>2, <2>3, <3>2, <3>3, <3>4, <3>5
  <2>6. CASE free # {a}
    <3>1. free \ {a} # {}
      BY <2>6
    <3>2. PICK b \in free \ {a} : pcb_fd_install(t, g) = [t EXCEPT ![b] = g]
      BY <2>3, <2>4, <3>1, InstallLemma
    <3>3. PICK w : w = [t EXCEPT ![b] = g]
      OBVIOUS
    <3>4. /\ w \in [Fds -> Slots \cup {-1}]
          /\ \A fd \in Fds : w[fd] = IF fd \in {a, b} THEN g ELSE table[fd]
      BY <1>1, <2>3, <3>3
    <3>5. both = w
      BY <2>1, <2>2, <3>2, <3>3
    <3>6. IsFiniteSet({a}) /\ Cardinality({a}) = 1 /\ b \notin {a}
      BY FS_Singleton
    <3>7. Cardinality({a, b}) = 2
      <4>1. Cardinality({a} \cup {b}) = 2
        BY <3>6, FS_AddElement
      <4>2. {a} \cup {b} = {a, b}
        OBVIOUS
      <4> QED BY <4>1, <4>2
    <3>8. {a, b} \in SUBSET free
      OBVIOUS
    <3> HIDE DEF both
    <3>9. room >= 2
      <4>1. Cardinality({a, b}) <= Cardinality(free)
        BY <1>2, <3>8, FS_Subset
      <4> QED BY <3>7, <4>1
    <3> QED BY <1>2, <3>4, <3>5, <3>7, <3>8, <3>9
  <2> QED BY <2>5, <2>6
<1> QED BY <1>3, <1>4

\* A new pipe counts two ends, of which the caller gets as many as it has
\* places for.
LEMMA PipeStep ==
  ASSUME IInv, NEW p \in Procs, sys_pipe(p)
  PROVE  IInv' /\ Reuse
<1> DEFINE table == fd_table[p]
           e == [fd_inode |-> PAGE, fd_pos |-> 2, flag |-> "pipe"]
           room == Cardinality(FreeFds(p))
<1>1. p \in alive /\ UNCHANGED <<alive, i_open_cnts, dir, faulted, stale>>
  BY DEF sys_pipe, Runs
<1>2. /\ fd_table \in Tables /\ alive \subseteq Procs
      /\ file_table \in [Slots -> Entries] /\ lost \in [Slots -> 0..2]
      /\ i_open_cnts \in [Inodes -> Nat] /\ dir \in [Names -> Inodes \cup {NULL}]
      /\ status \in {"ok", "assert", "wild"} /\ faulted \subseteq stale
      /\ NULL \notin Inodes /\ PAGE \notin Inodes /\ NULL # PAGE
      /\ -1 \notin Slots /\ OwnFds \subseteq Fds
  BY TypesLemma, TablesLemma DEF IInv, FilesTypes, TypeOK, NoCrash
<1>3. CASE get_free_slot_in_global = -1
  <2>1. UNCHANGED <<file_table, fd_table, lost>> /\ status' = "wild"
    BY <1>3 DEF sys_pipe
  <2>2. \A s \in Slots : AllRefs(s)' = AllRefs(s)
    BY <1>1, <2>1 DEF AllRefs
  <2>3. FilesTypes' /\ SlotInv' /\ PipeCounted' /\ NoCrash'
    BY <1>1, <1>2, <2>1, <2>2, SameTablesLemma
  <2>4. InodeStaysOpen'
    BY <1>1, <2>1 DEF IInv, InodeStaysOpen
  <2> QED BY <2>1, <2>3, <2>4 DEF IInv, Reuse
<1>4. CASE get_free_slot_in_global # -1
  <2>1. PICK s \in Slots : /\ s = get_free_slot_in_global /\ s >= 3
                           /\ file_table[s].fd_inode = NULL
                           /\ s \in stale \/ AllRefs(s) = {}
    BY <1>4, FreeSlotLemma DEF get_free_slot_in_global
  <2>2. /\ file_table' = [file_table EXCEPT ![s] = e] /\ UNCHANGED status
        /\ fd_table' = [fd_table EXCEPT ![p] =
                          pcb_fd_install(pcb_fd_install(table, s), s)]
        /\ lost' = [lost EXCEPT ![s] = IF room < 2 THEN 2 - room ELSE 0]
    BY <1>4, <2>1 DEF sys_pipe
  <2>3. table \in [Fds -> Slots \cup {-1}] /\ FreeFds(p) = {fd \in OwnFds : table[fd] = -1}
    BY <1>1, <1>2 DEF Tables, FreeFds
  <2> DEFINE both == pcb_fd_install(pcb_fd_install(table, s), s)
  <2>5. both \in [Fds -> Slots \cup {-1}] /\ room \in Nat
    BY <1>1, TwoEndsLemma DEF table, IInv
  <2>6. PICK new \in SUBSET FreeFds(p) :
          /\ \A fd \in Fds : both[fd] = IF fd \in new THEN s ELSE table[fd]
          /\ Cardinality(new) = IF room < 2 THEN room ELSE 2
    BY <1>1, TwoEndsLemma DEF table, IInv
  <2> HIDE DEF room, both
  <2>7. /\ lost' \in [Slots -> 0..2] /\ Cardinality(new) + lost'[s] = 2
        /\ \A u \in Slots \ {s} : lost'[u] = lost[u]
    BY <1>2, <2>2, <2>5, <2>6
  <2>8. /\ fd_table' \in Tables
        /\ \A q \in alive, fd \in Fds : fd_table'[q][fd] =
             IF q = p /\ fd \in new THEN s ELSE fd_table[q][fd]
    BY <1>1, <1>2, <2>2, <2>5, <2>6 DEF Tables, table, both
  <2>9. /\ e \in Entries /\ e.fd_inode = PAGE /\ e.fd_pos = 2 /\ e.flag = "pipe"
    BY DEF Entries
  <2> HIDE DEF e
  <2>10. /\ file_table' \in [Slots -> Entries] /\ file_table'[s] = e
         /\ \A u \in Slots \ {s} : file_table'[u] = file_table[u]
    BY <1>2, <2>2, <2>9
  <2>11. InodeStaysOpen'
    <3>1. ASSUME NEW j \in Inodes PROVE i_open_cnts'[j] >= Cardinality(Having(j)')
      <4>1. Having(j)' = Having(j)
        BY <1>2, <2>1, <2>9, <2>10 DEF Having
      <4>2. i_open_cnts[j] >= Cardinality(Having(j))
        BY DEF IInv, InodeStaysOpen, Having
      <4> QED BY <1>1, <4>1, <4>2
    <3> QED BY <3>1 DEF InodeStaysOpen, Having
  <2>12. /\ e \in Entries /\ e.fd_inode # NULL
         /\ e.flag = "file" => /\ e.fd_inode \in Inodes
                               /\ \E n \in Names : dir'[n] = e.fd_inode
                               /\ \A a, b \in new : a = b
         /\ e.flag = "pipe" => /\ e.fd_inode = PAGE /\ e.fd_pos > 0
                               /\ e.fd_pos = Cardinality(new) + lost'[s]
    BY <1>2, <2>7, <2>9
  <2>13. /\ UNCHANGED alive /\ UNCHANGED status /\ UNCHANGED faulted /\ UNCHANGED stale
         /\ dir' \in [Names -> Inodes \cup {NULL}]
         /\ \A n \in Names : dir[n] \in Inodes => dir'[n] = dir[n]
         /\ i_open_cnts' \in [Inodes -> Nat] /\ new \subseteq FreeFds(p)
    BY <1>1, <1>2, <2>2
  <2> QED BY <1>1, <2>1, <2>7, <2>8, <2>10, <2>11, <2>12, <2>13, TakeLemma
<1> QED BY <1>3, <1>4

\* The effect of closing the descriptors in gone, all of one process: what each
\* slot loses is what it counted, and a slot that is not stale afterwards has
\* lost its object only with its last descriptor.
LEMMA CloseLemma ==
  ASSUME IInv, NEW p \in alive, NEW gone, gone \subseteq {p} \X OwnFds,
         NEW n \in [Slots -> Nat], CloseSlots(n),
         \A s \in Slots : n[s] = Cardinality(Refs(s) \cap gone),
         alive' \subseteq alive, UNCHANGED <<dir, status, lost>>,
         stale' = stale \cup Emptied, fd_table' \in Tables,
         \A q \in alive, fd \in OwnFds, s \in Slots :
           q \in alive' /\ fd_table'[q][fd] = s <=>
             fd_table[q][fd] = s /\ <<q, fd>> \notin gone,
         \A q \in alive', fd \in Fds, s \in Slots :
           fd_table'[q][fd] = s => fd_table[q][fd] = s
  PROVE  IInv' /\ Reuse
<1> DEFINE closed(flag) == {s \in Slots : n[s] > 0 /\ file_table[s].flag = flag}
           freed == {s \in closed("pipe") : file_table[s].fd_pos \in 1..n[s]}
           given(i) == {s \in closed("file") : file_table[s].fd_inode = i}
<1>1. /\ FilesTypes /\ file_table \in [Slots -> Entries] /\ IsFiniteSet(alive)
      /\ alive \subseteq Procs /\ i_open_cnts \in [Inodes -> Nat]
      /\ lost \in [Slots -> 0..2] /\ stale \subseteq Slots
      /\ NULL \notin Inodes /\ PAGE \notin Inodes /\ NULL # PAGE
  BY TypesLemma DEF IInv
<1>2. file_table' = [s \in Slots |->
        IF file_table[s].flag = "pipe"
          THEN [file_table[s] EXCEPT !.fd_pos = @ - n[s],
                                     !.fd_inode = IF s \in freed THEN NULL ELSE @]
        ELSE IF n[s] > 0 THEN [file_table[s] EXCEPT !.fd_inode = NULL]
        ELSE file_table[s]]
  BY DEF CloseSlots
<1>3. /\ i_open_cnts' = [i \in Inodes |-> i_open_cnts[i] - Cardinality(given(i))]
      /\ faulted' = {s \in closed("file") : n[s] > 1}
           \cup {s \in closed("file") \cup freed : file_table[s].fd_inode = NULL}
  BY DEF CloseSlots
<1>4. ASSUME NEW s \in Slots
      PROVE  /\ file_table'[s] \in Entries /\ n[s] \in Nat
             /\ file_table'[s].flag = file_table[s].flag
             /\ file_table[s].flag \in {"file", "pipe"}
             /\ file_table[s].fd_pos \in Int
             /\ file_table[s].flag = "pipe" =>
                  /\ file_table'[s].fd_pos = file_table[s].fd_pos - n[s]
                  /\ file_table'[s].fd_inode = IF file_table[s].fd_pos \in 1..n[s]
                                                 THEN NULL ELSE file_table[s].fd_inode
             /\ file_table[s].flag = "file" =>
                  file_table'[s].fd_inode = IF n[s] > 0 THEN NULL
                                            ELSE file_table[s].fd_inode
  <2>1. file_table[s] \in [fd_inode: Inodes \cup {PAGE, NULL}, fd_pos: Int,
                           flag: {"file", "pipe"}]
    BY <1>1 DEF Entries
  <2>2. n[s] \in Nat
    OBVIOUS
  <2>3. CASE file_table[s].flag = "pipe"
    <3>1. s \in freed <=> file_table[s].fd_pos \in 1..n[s]
      BY <2>1, <2>2, <2>3
    <3>2. PICK v, w : /\ v = file_table[s].fd_pos - n[s]
                      /\ w = IF file_table[s].fd_pos \in 1..n[s] THEN NULL
                                                                ELSE file_table[s].fd_inode
      OBVIOUS
    <3>3. file_table'[s] = [file_table[s] EXCEPT !.fd_pos = v, !.fd_inode = w]
      BY <1>2, <2>3, <3>1, <3>2
    <3> HIDE DEF freed
    <3>4. v \in Int /\ w \in Inodes \cup {PAGE, NULL}
      BY <2>1, <2>2, <3>2
    <3> QED BY <2>1, <2>2, <2>3, <3>2, <3>3, <3>4 DEF Entries
  <2>4. CASE file_table[s].flag = "file"
    <3>1. file_table'[s] = IF n[s] > 0 THEN [file_table[s] EXCEPT !.fd_inode = NULL]
                                       ELSE file_table[s]
      BY <1>2, <2>4
    <3> HIDE DEF freed
    <3> QED BY <2>1, <2>2, <2>4, <3>1 DEF Entries
  <2> QED BY <2>1, <2>3, <2>4
<1>5. \A s \in Slots : Refs(s)' = Refs(s) \ gone /\ AllRefs(s)' \subseteq AllRefs(s)
  BY DEF Refs, AllRefs
<1>6. ASSUME NEW s \in Slots
      PROVE  /\ Cardinality(Refs(s)) \in Nat /\ n[s] <= Cardinality(Refs(s))
             /\ Cardinality(Refs(s) \ gone) = Cardinality(Refs(s)) - n[s]
             /\ Refs(s) = {} <=> Cardinality(Refs(s)) = 0
             /\ Refs(s) \ gone = {} <=> n[s] = Cardinality(Refs(s))
             /\ n[s] = 0 => Refs(s) \ gone = Refs(s)
  <2> DEFINE R == Refs(s)
  <2>1. /\ IsFiniteSet(R) /\ Cardinality(R) \in Nat
        /\ R = {} <=> Cardinality(R) = 0
    BY RefsLemma DEF IInv
  <2>2. n[s] = Cardinality(R \cap gone) /\ n[s] \in Nat
    OBVIOUS
  <2> HIDE DEF R
  <2>3. /\ IsFiniteSet(R \ gone) /\ IsFiniteSet(R \cap gone)
        /\ Cardinality(R \ gone) = Cardinality(R) - Cardinality(R \cap gone)
    BY <2>1, FS_Difference, FS_Intersection, Zenon
  <2>4. /\ Cardinality(R \ gone) \in Nat
        /\ R \ gone = {} <=> Cardinality(R \ gone) = 0
        /\ R \cap gone = {} <=> Cardinality(R \cap gone) = 0
    BY <2>3, FS_CardinalityType, FS_EmptySet
  <2>5. n[s] <= Cardinality(R) /\ Cardinality(R \ gone) = Cardinality(R) - n[s]
    BY <2>1, <2>2, <2>3, <2>4
  <2>6. R \ gone = {} <=> n[s] = Cardinality(R)
    BY <2>1, <2>2, <2>4, <2>5
  <2>7. n[s] = 0 => R \ gone = R
    BY <2>2, <2>4
  <2> QED BY <2>1, <2>5, <2>6, <2>7 DEF R
<1>7. ASSUME NEW s \in Slots, n[s] > 0
      PROVE  s >= 3 /\ Refs(s) # {} /\ AllRefs(s) # {}
  <2>1. Refs(s) # {}
    BY <1>6, <1>7
  <2>2. PICK r \in Refs(s) : r[1] \in alive /\ r[2] \in OwnFds /\ fd_table[r[1]][r[2]] = s
    BY <2>1 DEF Refs
  <2>3. s \notin 0..2 /\ s \in Nat
    BY <2>2, TablesLemma DEF IInv, SlotInv, OwnTables
  <2>4. AllRefs(s) # {}
    BY <2>1, CountedLemma
  <2> QED BY <2>1, <2>3, <2>4
<1>8. ASSUME NEW s \in Slots, file_table[s].flag = "file", s \notin stale
      PROVE  n[s] <= 1
  <2> DEFINE R == Refs(s) \cap gone
  <2>1. \A x, y \in R : x = y
    <3>1. ASSUME NEW x \in R, NEW y \in R PROVE x = y
      <4>1. PICK a \in OwnFds : x = <<p, a>> /\ fd_table[p][a] = s
        BY DEF Refs
      <4>2. PICK b \in OwnFds : y = <<p, b>> /\ fd_table[p][b] = s
        BY DEF Refs
      <4>3. a = b
        BY <1>8, <4>1, <4>2 DEF IInv, SlotInv, OneEach
      <4> QED BY <4>1, <4>2, <4>3
    <3> QED BY <3>1
  <2>2. n[s] = Cardinality(R)
    OBVIOUS
  <2> HIDE DEF R
  <2>3. ASSUME NEW x \in R PROVE R = {x}
    BY <2>1
  <2>4. Cardinality(R) \in {0, 1}
    <3>1. CASE R = {}
      BY <3>1, FS_EmptySet
    <3>2. CASE R # {}
      <4>1. PICK x : R = {x}
        BY <2>3, <3>2
      <4> QED BY <4>1, FS_Singleton
    <3> QED BY <3>1, <3>2
  <2> QED BY <2>2, <2>4
<1>9. faulted' \subseteq stale
  <2>1. ASSUME NEW s \in faulted' PROVE s \in stale
    <3>1. /\ s \in Slots /\ n[s] > 0
          /\ \/ file_table[s].fd_inode = NULL
             \/ file_table[s].flag = "file" /\ n[s] > 1
      <4>1. \/ s \in closed("file") /\ n[s] > 1
            \/ s \in closed("file") \cup freed /\ file_table[s].fd_inode = NULL
        BY <1>3
      <4>2. freed \subseteq closed("pipe")
        OBVIOUS
      <4> HIDE DEF freed
      <4>3. s \in closed("file") \/ s \in closed("pipe")
        BY <4>1, <4>2
      <4>4. s \in Slots /\ n[s] > 0
        BY <4>3
      <4>5. s \in closed("file") => file_table[s].flag = "file"
        OBVIOUS
      <4> HIDE DEF closed
      <4> QED BY <4>1, <4>4, <4>5
    <3>2. file_table[s].fd_inode = NULL => s \in stale
      BY <1>7, <3>1 DEF IInv, SlotInv, Unused
    <3>3. file_table[s].flag = "file" /\ n[s] > 1 => s \in stale
      BY <1>4, <1>8, <3>1
    <3> QED BY <3>1, <3>2, <3>3
  <2> QED BY <2>1
<1>10. ASSUME NEW s \in Slots, s \notin stale', file_table[s].flag = "pipe"
       PROVE  /\ file_table'[s].fd_pos = Cardinality(Refs(s) \ gone) + lost[s]
              /\ file_table'[s].fd_inode = NULL <=> Refs(s) \ gone = {} /\ lost[s] = 0
  <2>1. /\ file_table[s].fd_pos = Cardinality(Refs(s)) + lost[s]
        /\ file_table[s].fd_inode = NULL <=> Refs(s) = {} /\ lost[s] = 0
    BY <1>10 DEF IInv, PipeCounted
  <2>2. lost[s] \in 0..2
    BY <1>1
  <2>3. file_table[s].fd_pos \in 1..n[s] <=>
          Refs(s) # {} /\ Refs(s) \ gone = {} /\ lost[s] = 0
    <3> DEFINE c == Cardinality(Refs(s))
    <3>1. /\ c \in Nat /\ n[s] \in Nat /\ n[s] <= c /\ file_table[s].fd_pos = c + lost[s]
          /\ Refs(s) = {} <=> c = 0
          /\ Refs(s) \ gone = {} <=> n[s] = c
      BY <1>4, <1>6, <2>1
    <3> HIDE DEF c
    <3> QED BY <2>2, <3>1
  <2>4. Refs(s) = {} => Refs(s) \ gone = {}
    OBVIOUS
  <2>5. file_table'[s].fd_pos = Cardinality(Refs(s) \ gone) + lost[s]
    BY <1>4, <1>6, <1>10, <2>1, <2>2
  <2> QED BY <1>4, <1>10, <2>1, <2>3, <2>4, <2>5
<1>11. ASSUME NEW s \in Slots, file_table[s].fd_inode # NULL, file_table'[s].fd_inode = NULL
       PROVE  AllRefs(s)' = {} \/ s \in stale'
  <2>1. CASE file_table[s].flag = "file"
    BY <1>11, <2>1 DEF Emptied
  <2>2. CASE file_table[s].flag = "pipe" /\ s \notin stale'
    BY <1>5, <1>10, <1>11, <2>2 DEF Emptied
  <2> QED BY <1>4, <2>1, <2>2
<1>12. ASSUME NEW i \in Inodes
       PROVE  /\ given(i) \subseteq Having(i) /\ Having(i)' = Having(i) \ given(i)
              /\ Cardinality(given(i)) \in Nat
              /\ Cardinality(Having(i) \ given(i)) =
                   Cardinality(Having(i)) - Cardinality(given(i))
              /\ Cardinality(Having(i) \ given(i)) \in Nat
              /\ Cardinality(Having(i)) \in Nat
  <2>1. given(i) \subseteq Having(i)
    BY DEF Having
  <2>2. Having(i)' = Having(i) \ given(i)
    <3>1. ASSUME NEW s \in Slots
          PROVE  file_table'[s].fd_inode = i <=>
                   file_table[s].fd_inode = i /\ s \notin given(i)
      <4>1. CASE file_table[s].flag = "pipe"
        <5>1. file_table[s].fd_inode \in {PAGE, NULL}
          BY <4>1 DEF IInv, SlotInv, Kind
        <5>2. file_table'[s].fd_inode \in {PAGE, NULL}
          BY <1>4, <4>1, <5>1
        <5> QED BY <1>1, <5>1, <5>2
      <4>2. CASE file_table[s].flag = "file"
        <5>1. s \in given(i) <=> n[s] > 0 /\ file_table[s].fd_inode = i
          BY <4>2
        <5> HIDE DEF given
        <5> QED BY <1>1, <1>4, <4>2, <5>1
      <4> QED BY <1>4, <4>1, <4>2
    <3> QED BY <3>1 DEF Having
  <2>3. IsFiniteSet(Having(i)) /\ Cardinality(Having(i)) \in Nat
    BY HavingLemma
  <2> HIDE DEF given
  <2>4. Having(i) \cap given(i) = given(i)
    BY <2>1
  <2>5. /\ IsFiniteSet(Having(i) \ given(i))
        /\ Cardinality(Having(i) \ given(i)) =
             Cardinality(Having(i)) - Cardinality(given(i))
    <3>1. /\ IsFiniteSet(Having(i) \ given(i))
          /\ Cardinality(Having(i) \ given(i)) =
               Cardinality(Having(i)) - Cardinality(Having(i) \cap given(i))
      BY <2>3, FS_Difference, Zenon
    <3> QED BY <2>4, <3>1
  <2>6. IsFiniteSet(given(i))
    BY <2>1, <2>3, FS_Subset
  <2> QED BY <2>1, <2>2, <2>3, <2>5, <2>6, FS_CardinalityType
<1>13. InodeStaysOpen' /\ i_open_cnts' \in [Inodes -> Nat]
  <2>1. ASSUME NEW i \in Inodes
        PROVE  i_open_cnts'[i] \in Nat /\ i_open_cnts'[i] >= Cardinality(Having(i)')
    <3>1. i_open_cnts[i] >= Cardinality(Having(i)) /\ i_open_cnts[i] \in Nat
      BY <1>1 DEF IInv, InodeStaysOpen, Having
    <3>2. i_open_cnts'[i] = i_open_cnts[i] - Cardinality(given(i))
      BY <1>3
    <3> HIDE DEF given
    <3>3. i_open_cnts'[i] \in Nat /\ i_open_cnts'[i] >= Cardinality(Having(i) \ given(i))
      <4>1. /\ Cardinality(given(i)) \in Nat /\ Cardinality(Having(i)) \in Nat
            /\ Cardinality(Having(i) \ given(i)) \in Nat
            /\ Cardinality(Having(i) \ given(i)) =
                 Cardinality(Having(i)) - Cardinality(given(i))
        BY <1>12
      <4> QED BY <3>1, <3>2, <4>1
    <3> QED BY <1>12, <3>3
  <2> QED BY <1>3, <2>1 DEF InodeStaysOpen, Having
<1> HIDE DEF given, freed, closed
<1>14. FilesTypes'
  <2>1. IsFiniteSet(alive')
    BY <1>1, FS_Subset
  <2>2. file_table' \in [Slots -> Entries]
    BY <1>2, <1>4
  <2>3. stale' \subseteq Slots /\ faulted' \subseteq Slots
    BY <1>1, <1>9 DEF Emptied
  <2> QED BY <1>1, <1>13, <2>1, <2>2, <2>3 DEF IInv, FilesTypes, TypeOK, Tables, Entries
<1>15. ASSUME NEW s \in Slots PROVE Kind(s)' /\ Unused(s)' /\ OneEach(s)' /\ Counted(s)'
  <2>1. Kind(s) /\ Unused(s) /\ OneEach(s) /\ stale \subseteq stale'
    BY DEF IInv, SlotInv
  <2>2. Kind(s)'
    BY <1>1, <1>4, <2>1 DEF Kind
  <2>3. Unused(s)'
    BY <1>5, <1>11, <2>1 DEF Unused
  <2>4. OneEach(s)'
    BY <1>4, <2>1, TablesLemma DEF OneEach
  <2>5. Counted(s)'
    BY <1>4, <1>5, <1>10 DEF Counted
  <2> QED BY <2>2, <2>3, <2>4, <2>5
<1>16. OwnTables'
  <2>1. ASSUME NEW q \in alive', NEW fd \in OwnFds, fd_table'[q][fd] \in 0..2 PROVE FALSE
    <3>1. PICK s \in Slots : s = fd_table'[q][fd]
      BY <2>1, TablesLemma
    <3>2. fd_table[q][fd] = s /\ q \in alive
      BY <3>1, TablesLemma
    <3> QED BY <2>1, <3>1, <3>2 DEF IInv, SlotInv, OwnTables
  <2> QED BY <2>1 DEF OwnTables
<1>17. SlotInv' /\ PipeCounted'
  <2>1. \A s \in Slots : Kind(s)' /\ Unused(s)' /\ OneEach(s)' /\ Counted(s)'
    BY <1>15
  <2> QED BY <1>16, <2>1 DEF SlotInv, PipeCounted, Counted
<1>18. NoCrash' /\ Reuse
  <2>1. ASSUME NEW s \in Slots, file_table'[s].fd_inode # file_table[s].fd_inode
        PROVE  file_table[s].fd_inode # NULL /\ file_table'[s].fd_inode = NULL
    BY <1>4, <2>1
  <2> QED BY <1>9, <1>11, <2>1 DEF NoCrash, Reuse
<1> QED BY <1>13, <1>14, <1>17, <1>18 DEF IInv

\* close gives up one descriptor.
LEMMA CloseStep ==
  ASSUME IInv, NEW p \in Procs, NEW fd \in Fds, sys_close(p, fd)
  PROVE  IInv' /\ Reuse
<1> DEFINE n == [s \in Slots |-> IF s = fd_table[p][fd] THEN 1 ELSE 0]
<1>1. /\ p \in alive /\ fd \in OwnFds /\ fd_table[p][fd] # -1
      /\ CloseSlots(n) /\ UNCHANGED <<alive, dir, status, lost>>
      /\ fd_table' = [fd_table EXCEPT ![p][fd] = -1]
      /\ stale' = stale \cup Emptied
  BY DEF sys_close, Runs
<1>2. /\ fd_table \in Tables /\ alive \subseteq Procs
      /\ OwnFds \subseteq Fds /\ -1 \notin Slots
  BY TypesLemma, TablesLemma DEF IInv
<1>3. n \in [Slots -> Nat] /\ fd_table' \in Tables
  BY <1>1, <1>2 DEF Tables
<1>4. PICK gone : gone = {<<p, fd>>}
  OBVIOUS
<1>5. ASSUME NEW s \in Slots PROVE n[s] = Cardinality(Refs(s) \cap gone)
  <2>1. CASE s = fd_table[p][fd]
    <3>1. Refs(s) \cap gone = {<<p, fd>>}
      BY <1>1, <1>4, <2>1 DEF Refs
    <3> QED BY <2>1, <3>1, FS_Singleton
  <2>2. CASE s # fd_table[p][fd]
    <3>1. Refs(s) \cap gone = {}
      BY <1>4, <2>2 DEF Refs
    <3> QED BY <2>2, <3>1, FS_EmptySet
  <2> QED BY <2>1, <2>2
<1>6. \A q \in alive, d \in Fds :
        fd_table'[q][d] = IF q = p /\ d = fd THEN -1 ELSE fd_table[q][d]
  BY <1>1, <1>2 DEF Tables
<1>7. \A q \in alive, d \in OwnFds, s \in Slots :
        q \in alive' /\ fd_table'[q][d] = s <=>
          fd_table[q][d] = s /\ <<q, d>> \notin gone
  BY <1>1, <1>2, <1>4, <1>6
<1>8. \A q \in alive', d \in Fds, s \in Slots :
        fd_table'[q][d] = s => fd_table[q][d] = s
  BY <1>1, <1>2, <1>6
<1>9. /\ alive' \subseteq alive /\ gone \subseteq {p} \X OwnFds
      /\ UNCHANGED <<dir, status, lost>>
  BY <1>1, <1>4
<1> HIDE DEF n
<1>10. \A s \in Slots : n[s] = Cardinality(Refs(s) \cap gone)
  BY <1>5
<1> QED BY <1>1, <1>3, <1>7, <1>8, <1>9, <1>10, CloseLemma

\* exit gives up every descriptor of the process but the standard ones.
LEMMA ExitStep ==
  ASSUME IInv, NEW p \in Procs, sys_exit(p)
  PROVE  IInv' /\ Reuse
<1> DEFINE n == [s \in Slots |-> Uses(p, s)]
<1>1. /\ p \in alive /\ CloseSlots(n) /\ UNCHANGED <<dir, status, lost>>
      /\ alive' = alive \ {p}
      /\ fd_table' = [fd_table EXCEPT ![p] = [fd \in Fds |-> IF fd < 3 THEN fd ELSE -1]]
      /\ stale' = stale \cup Emptied
  BY DEF sys_exit, Runs
<1>2. /\ fd_table \in Tables /\ alive \subseteq Procs /\ OwnFds \subseteq Fds
  BY TypesLemma, TablesLemma DEF IInv
<1>3. PICK gone : gone = {p} \X OwnFds
  OBVIOUS
<1>4. ASSUME NEW s \in Slots
      PROVE  n[s] \in Nat /\ n[s] = Cardinality(Refs(s) \cap gone)
  <2> DEFINE U == {fd \in OwnFds : fd_table[p][fd] = s}
  <2>1. Refs(s) \cap gone = {p} \X U
    BY <1>1, <1>3 DEF Refs
  <2>2. n[s] = Cardinality(U)
    BY DEF Uses
  <2>3. IsFiniteSet(U)
    BY TablesLemma, FS_Subset
  <2> HIDE DEF U
  <2>4. Cardinality({p} \X U) = Cardinality(U) /\ Cardinality(U) \in Nat
    BY <2>3, ProductLemma, FS_CardinalityType
  <2> QED BY <2>1, <2>2, <2>4
<1>5. n \in [Slots -> Nat] /\ \A s \in Slots : n[s] = Cardinality(Refs(s) \cap gone)
  BY <1>4
<1>6. fd_table' \in Tables
  BY <1>1, <1>2, StandardLemma DEF Tables
<1>7. \A q \in alive, d \in Fds : q # p => fd_table'[q][d] = fd_table[q][d]
  BY <1>1, <1>2 DEF Tables
<1>8. \A q \in alive, d \in OwnFds, s \in Slots :
        q \in alive' /\ fd_table'[q][d] = s <=>
          fd_table[q][d] = s /\ <<q, d>> \notin gone
  BY <1>1, <1>2, <1>3, <1>7
<1>9. \A q \in alive', d \in Fds, s \in Slots :
        fd_table'[q][d] = s => fd_table[q][d] = s
  BY <1>1, <1>7
<1>10. alive' \subseteq alive /\ gone \subseteq {p} \X OwnFds
  BY <1>1, <1>3
<1> HIDE DEF n
<1> QED BY <1>1, <1>5, <1>6, <1>8, <1>9, <1>10, CloseLemma

\* fork gives the child a descriptor for each of its parent's.
LEMMA ForkStep ==
  ASSUME IInv, NEW p \in Procs, NEW c \in Procs, sys_fork(p, c)
  PROVE  IInv' /\ Reuse
<1> DEFINE files == {s \in Slots : Uses(p, s) > 0 /\ file_table[s].flag = "file"}
           more(i) == Cardinality({fd \in OwnFds :
                        /\ fd_table[p][fd] \in files
                        /\ file_table[fd_table[p][fd]].fd_inode = i})
           own(s) == {fd \in OwnFds : fd_table[p][fd] = s}
<1>1. /\ p \in alive /\ c \notin alive /\ UNCHANGED <<dir, status, lost, stale>>
      /\ alive' = alive \cup {c} /\ fd_table' = [fd_table EXCEPT ![c] = fd_table[p]]
  BY DEF sys_fork, Runs, history
<1>2. /\ file_table' = [s \in Slots |->
           IF file_table[s].flag = "pipe"
             THEN [file_table[s] EXCEPT !.fd_pos = @ + Uses(p, s)]
           ELSE file_table[s]]
      /\ i_open_cnts' = [i \in Inodes |-> i_open_cnts[i] + more(i)]
      /\ faulted' = {s \in files : file_table[s].fd_inode = NULL}
  BY DEF sys_fork, update_inode_open_cnts
<1>3. /\ FilesTypes /\ fd_table \in Tables /\ alive \subseteq Procs /\ IsFiniteSet(alive)
      /\ file_table \in [Slots -> Entries] /\ i_open_cnts \in [Inodes -> Nat]
      /\ lost \in [Slots -> 0..2] /\ OwnFds \subseteq Fds
  BY TypesLemma, TablesLemma DEF IInv
<1>4. /\ fd_table' \in Tables
      /\ \A q \in alive, fd \in Fds : fd_table'[q][fd] = fd_table[q][fd]
      /\ \A fd \in Fds : fd_table'[c][fd] = fd_table[p][fd]
  BY <1>1, <1>3 DEF Tables
<1>5. ASSUME NEW s \in Slots
      PROVE  /\ Refs(s)' = Refs(s) \cup ({c} \X own(s))
             /\ AllRefs(s) = {} => AllRefs(s)' = {}
  <2>1. Refs(s)' = Refs(s) \cup ({c} \X own(s))
    BY <1>1, <1>3, <1>4 DEF Refs
  <2>2. ASSUME AllRefs(s) = {} PROVE AllRefs(s)' = {}
    <3>1. ASSUME NEW q \in alive, NEW fd \in Fds, fd_table[q][fd] = s PROVE FALSE
      <4>1. <<q, fd>> \in AllRefs(s)
        BY <3>1 DEF AllRefs
      <4> QED BY <2>2, <4>1
    <3> QED BY <1>1, <1>4, <3>1 DEF AllRefs
  <2> QED BY <2>1, <2>2
<1>6. ASSUME NEW s \in Slots
      PROVE  /\ Cardinality(Refs(s) \cup ({c} \X own(s))) =
                  Cardinality(Refs(s)) + Uses(p, s)
             /\ Cardinality(Refs(s)) \in Nat /\ Uses(p, s) \in Nat
             /\ Uses(p, s) > 0 => \E fd \in OwnFds : fd_table[p][fd] = s
             /\ Refs(s) \cup ({c} \X own(s)) = {} <=> Refs(s) = {}
  <2> DEFINE R == Refs(s)
             U == own(s)
  <2>1. IsFiniteSet(R) /\ Cardinality(R) \in Nat
    BY <1>3, RefsLemma
  <2>2. IsFiniteSet(U) /\ Uses(p, s) = Cardinality(U)
    BY TablesLemma, FS_Subset DEF Uses
  <2>3. R \cap ({c} \X U) = {}
    BY <1>1 DEF Refs
  <2>4. R = {} => U = {}
    <3>1. ASSUME NEW fd \in U PROVE <<p, fd>> \in R
      BY <1>1 DEF Refs
    <3> QED BY <3>1
  <2> HIDE DEF R, U
  <2>5. /\ IsFiniteSet({c} \X U) /\ Cardinality({c} \X U) = Cardinality(U)
        /\ Cardinality(U) \in Nat
    BY <2>2, ProductLemma, FS_CardinalityType
  <2>6. Cardinality(R \cup ({c} \X U)) =
          Cardinality(R) + Cardinality({c} \X U) - Cardinality(R \cap ({c} \X U))
    BY <2>1, <2>5, FS_Union, Zenon
  <2>7. Cardinality(R \cup ({c} \X U)) = Cardinality(R) + Uses(p, s)
    <3>1. Cardinality(R \cap ({c} \X U)) = 0
      BY <2>3, FS_EmptySet
    <3> QED BY <2>1, <2>2, <2>5, <2>6, <3>1
  <2>8. Uses(p, s) > 0 => U # {}
    BY <2>2, FS_EmptySet
  <2>9. R \cup ({c} \X U) = {} <=> R = {}
    BY <2>4
  <2> QED BY <2>1, <2>2, <2>5, <2>7, <2>8, <2>9 DEF R, U
<1>7. faulted' \subseteq stale
  <2>1. ASSUME NEW s \in files, file_table[s].fd_inode = NULL PROVE s \in stale
    <3>1. PICK fd \in OwnFds : fd_table[p][fd] = s
      BY <1>6
    <3>2. <<p, fd>> \in AllRefs(s) /\ s >= 3
      BY <1>1, <1>3, <3>1, TablesLemma DEF AllRefs, IInv, SlotInv, OwnTables
    <3> QED BY <2>1, <3>2 DEF IInv, SlotInv, Unused
  <2> HIDE DEF files
  <2> QED BY <1>2, <2>1
<1>8. ASSUME NEW i \in Inodes PROVE more(i) \in Nat
  <2> DEFINE M == {fd \in OwnFds : /\ fd_table[p][fd] \in files
                                   /\ file_table[fd_table[p][fd]].fd_inode = i}
  <2>1. M \in SUBSET OwnFds
    OBVIOUS
  <2> HIDE DEF M
  <2>2. Cardinality(M) \in Nat
    BY <2>1, TablesLemma, FS_Subset, FS_CardinalityType
  <2> QED BY <2>2 DEF M
<1> HIDE DEF own, files, more
<1>9. ASSUME NEW s \in Slots
      PROVE  /\ file_table'[s].flag = file_table[s].flag
             /\ file_table'[s].fd_inode = file_table[s].fd_inode
             /\ file_table'[s].fd_pos = IF file_table[s].flag = "pipe"
                                          THEN file_table[s].fd_pos + Uses(p, s)
                                        ELSE file_table[s].fd_pos
             /\ file_table'[s] \in Entries
  <2>1. file_table'[s] = IF file_table[s].flag = "pipe"
                           THEN [file_table[s] EXCEPT !.fd_pos = @ + Uses(p, s)]
                         ELSE file_table[s]
    BY <1>2
  <2>2. file_table[s] \in [fd_inode: Inodes \cup {PAGE, NULL}, fd_pos: Int,
                           flag: {"file", "pipe"}]
    BY <1>3 DEF Entries
  <2>3. Uses(p, s) \in Nat
    BY <1>6
  <2> QED BY <2>1, <2>2, <2>3 DEF Entries
<1>10. InodeStaysOpen' /\ i_open_cnts' \in [Inodes -> Nat]
  <2>1. ASSUME NEW i \in Inodes
        PROVE  i_open_cnts'[i] \in Nat /\ i_open_cnts'[i] >= Cardinality(Having(i)')
    <3>1. /\ i_open_cnts[i] >= Cardinality(Having(i)) /\ i_open_cnts[i] \in Nat
          /\ Cardinality(Having(i)) \in Nat
      BY <1>3, HavingLemma DEF IInv, InodeStaysOpen, Having
    <3>2. Having(i)' = Having(i)
      BY <1>9 DEF Having
    <3>3. i_open_cnts'[i] = i_open_cnts[i] + more(i) /\ more(i) \in Nat
      BY <1>2, <1>8
    <3>4. i_open_cnts'[i] \in Nat /\ i_open_cnts'[i] >= Cardinality(Having(i))
      BY <3>1, <3>3
    <3> QED BY <3>2, <3>4
  <2>2. i_open_cnts' \in [Inodes -> Nat]
    BY <1>2, <2>1
  <2> QED BY <2>1, <2>2 DEF InodeStaysOpen, Having
<1>11. FilesTypes'
  <2>1. IsFiniteSet(alive') /\ alive' \subseteq Procs
    BY <1>1, <1>3, FS_AddElement
  <2>2. file_table' \in [Slots -> Entries]
    BY <1>2, <1>9
  <2>3. faulted' \subseteq Slots
    BY <1>7 DEF IInv, FilesTypes, TypeOK
  <2> QED BY <1>1, <1>4, <1>10, <2>1, <2>2, <2>3 DEF IInv, FilesTypes, TypeOK, Tables, Entries
<1>12. OwnTables'
  BY <1>1, <1>3, <1>4 DEF IInv, SlotInv, OwnTables
<1>13. ASSUME NEW s \in Slots PROVE Kind(s)' /\ Unused(s)' /\ OneEach(s)' /\ Counted(s)'
  <2>1. Kind(s) /\ Unused(s) /\ OneEach(s) /\ Counted(s)
    BY CountedLemma DEF IInv, SlotInv
  <2>2. Kind(s)'
    BY <1>1, <1>9, <2>1 DEF Kind
  <2>3. Unused(s)'
    BY <1>1, <1>5, <1>9, <2>1 DEF Unused
  <2>4. OneEach(s)'
    BY <1>1, <1>3, <1>4, <1>9, <2>1 DEF OneEach
  <2>5. Counted(s)'
    <3>1. ASSUME s \notin stale, file_table[s].flag = "pipe"
          PROVE  /\ file_table'[s].fd_pos =
                      Cardinality(Refs(s) \cup ({c} \X own(s))) + lost[s]
                 /\ file_table'[s].fd_inode = NULL <=>
                      Refs(s) \cup ({c} \X own(s)) = {} /\ lost[s] = 0
      <4> DEFINE all == Refs(s) \cup ({c} \X own(s))
      <4>1. /\ file_table[s].fd_pos = Cardinality(Refs(s)) + lost[s]
            /\ file_table[s].fd_inode = NULL <=> Refs(s) = {} /\ lost[s] = 0
        BY <2>1, <3>1 DEF Counted
      <4>2. /\ file_table'[s].fd_pos = file_table[s].fd_pos + Uses(p, s)
            /\ file_table'[s].fd_inode = file_table[s].fd_inode /\ lost[s] \in 0..2
        BY <1>3, <1>9, <3>1
      <4>3. /\ Cardinality(all) = Cardinality(Refs(s)) + Uses(p, s)
            /\ Cardinality(Refs(s)) \in Nat /\ Uses(p, s) \in Nat
            /\ all = {} <=> Refs(s) = {}
        BY <1>6
      <4> HIDE DEF all
      <4>4. /\ file_table'[s].fd_pos = Cardinality(all) + lost[s]
            /\ file_table'[s].fd_inode = NULL <=> all = {} /\ lost[s] = 0
        BY <4>1, <4>2, <4>3
      <4> QED BY <4>4 DEF all
    <3> QED BY <1>1, <1>5, <1>9, <3>1 DEF Counted
  <2> QED BY <2>2, <2>3, <2>4, <2>5
<1>14. SlotInv' /\ PipeCounted'
  <2>1. \A s \in Slots : Kind(s)' /\ Unused(s)' /\ OneEach(s)' /\ Counted(s)'
    BY <1>13
  <2> QED BY <1>12, <2>1 DEF SlotInv, PipeCounted, Counted
<1>15. NoCrash' /\ Reuse
  BY <1>1, <1>7, <1>9 DEF NoCrash, Reuse
<1> QED BY <1>10, <1>11, <1>14, <1>15 DEF IInv

\* unlink removes the name of an inode no slot has, or empties the slots that
\* have it and panics.
LEMMA UnlinkStep ==
  ASSUME IInv, NEW p \in Procs, NEW n \in Names, sys_unlink(p, n)
  PROVE  IInv' /\ Reuse
<1>1. /\ dir[n] # NULL /\ UNCHANGED <<alive, fd_table, i_open_cnts, faulted, lost>>
      /\ stale' = stale \cup Emptied
      /\ file_table' = [s \in Slots |->
           IF file_table[s].fd_inode = dir[n]
             THEN [file_table[s] EXCEPT !.fd_inode = NULL] ELSE file_table[s]]
      /\ IF i_open_cnts[dir[n]] = 0
           THEN dir' = [dir EXCEPT ![n] = NULL] /\ UNCHANGED status
           ELSE status' = "assert" /\ UNCHANGED dir
  BY DEF sys_unlink, Runs
<1>2. /\ file_table \in [Slots -> Entries] /\ i_open_cnts \in [Inodes -> Nat]
      /\ dir \in [Names -> Inodes \cup {NULL}] /\ fd_table \in Tables
      /\ faulted \subseteq stale /\ stale \subseteq Slots
      /\ NULL \notin Inodes /\ PAGE \notin Inodes /\ NULL # PAGE
  BY TypesLemma DEF IInv, NoCrash
<1>3. PICK i \in Inodes : i = dir[n]
  BY <1>1, <1>2
<1>4. ASSUME NEW s \in Slots
      PROVE  /\ file_table'[s] \in Entries
             /\ file_table'[s].flag = file_table[s].flag
             /\ file_table'[s].fd_pos = file_table[s].fd_pos
             /\ file_table'[s].fd_inode = IF file_table[s].fd_inode = i THEN NULL
                                          ELSE file_table[s].fd_inode
  <2>1. file_table'[s] = IF file_table[s].fd_inode = i
                           THEN [file_table[s] EXCEPT !.fd_inode = NULL]
                         ELSE file_table[s]
    BY <1>1, <1>3
  <2> QED BY <1>2, <2>1 DEF Entries
<1>5. /\ dir' \in [Names -> Inodes \cup {NULL}]
      /\ \A m \in Names : dir[m] # i => dir'[m] = dir[m]
  BY <1>1, <1>2, <1>3
<1>6. \A s \in Slots : Refs(s)' = Refs(s) /\ AllRefs(s)' = AllRefs(s)
  BY <1>1 DEF Refs, AllRefs
<1>7. ASSUME NEW s \in Slots
      PROVE  /\ file_table[s].flag \in {"file", "pipe"}
             /\ file_table[s].fd_inode = i => file_table[s].flag = "file"
             /\ file_table[s].fd_inode = i => AllRefs(s) = {} \/ s \in stale'
  <2>1. /\ file_table[s].flag \in {"file", "pipe"}
        /\ file_table[s].fd_inode = i => file_table[s].flag = "file"
    BY <1>2 DEF IInv, SlotInv, Kind, Entries
  <2>2. ASSUME file_table[s].fd_inode = i PROVE AllRefs(s) = {} \/ s \in stale'
    BY <1>1, <1>2, <1>4, <1>6, <2>1, <2>2 DEF Emptied
  <2> QED BY <2>1, <2>2
<1>8. ASSUME NEW s \in Slots PROVE Kind(s)' /\ Unused(s)' /\ OneEach(s)' /\ Counted(s)'
  <2>1. /\ Kind(s) /\ Unused(s) /\ OneEach(s) /\ Counted(s)
        /\ stale \subseteq stale'
    BY <1>1, CountedLemma DEF IInv, SlotInv
  <2>2. Kind(s)'
    BY <1>2, <1>4, <1>5, <2>1 DEF Kind
  <2>3. Unused(s)'
    BY <1>4, <1>6, <1>7, <2>1 DEF Unused
  <2>4. OneEach(s)'
    BY <1>1, <1>4, <2>1 DEF OneEach
  <2>5. Counted(s)'
    BY <1>1, <1>4, <1>6, <1>7, <2>1 DEF Counted
  <2> QED BY <2>2, <2>3, <2>4, <2>5
<1>9. SlotInv' /\ PipeCounted'
  <2>1. \A s \in Slots : Kind(s)' /\ Unused(s)' /\ OneEach(s)' /\ Counted(s)'
    BY <1>8
  <2>2. OwnTables'
    BY <1>1 DEF IInv, SlotInv, OwnTables
  <2> QED BY <2>1, <2>2 DEF SlotInv, PipeCounted, Counted
<1>10. FilesTypes'
  <2>1. file_table' \in [Slots -> Entries]
    BY <1>1, <1>4
  <2>2. stale' \subseteq Slots /\ status' \in {"ok", "assert", "wild"}
    BY <1>1, <1>2 DEF Emptied, IInv, FilesTypes, TypeOK
  <2> QED BY <1>1, <1>5, <2>1, <2>2 DEF IInv, FilesTypes, TypeOK, Tables, Entries
<1>11. InodeStaysOpen'
  <2>1. ASSUME NEW j \in Inodes PROVE i_open_cnts'[j] >= Cardinality(Having(j)')
    <3>1. Having(j)' \subseteq Having(j)
      BY <1>2, <1>4 DEF Having
    <3>2. /\ IsFiniteSet(Having(j)) /\ Cardinality(Having(j)) \in Nat
          /\ i_open_cnts[j] >= Cardinality(Having(j)) /\ i_open_cnts[j] \in Nat
      BY <1>2, HavingLemma DEF IInv, InodeStaysOpen, Having
    <3>3. /\ Cardinality(Having(j)') <= Cardinality(Having(j))
          /\ Cardinality(Having(j)') \in Nat
      BY <3>1, <3>2, FS_Subset, FS_CardinalityType
    <3> QED BY <1>1, <3>2, <3>3
  <2> QED BY <2>1 DEF InodeStaysOpen, Having
<1>12. NoCrash' /\ Reuse
  BY <1>1, <1>2, <1>4, <1>7 DEF NoCrash, Reuse
<1> QED BY <1>9, <1>10, <1>11, <1>12 DEF IInv

-----------------------------------------------------------------------------
(* The theorems *)

LEMMA InitIInv == Init => IInv
<1> SUFFICES ASSUME Init PROVE IInv
  OBVIOUS
<1>1. /\ alive = {shell} /\ status = "ok" /\ faulted = {} /\ stale = {}
      /\ lost = [s \in Slots |-> 0]
      /\ fd_table = [p \in Procs |-> [fd \in Fds |-> IF fd < 3 THEN fd ELSE -1]]
      /\ file_table = [s \in Slots |->
           [fd_inode |-> NULL, fd_pos |-> 0, flag |-> "file"]]
      /\ i_open_cnts = [i \in Inodes |-> 0]
      /\ dir = [n \in Names |-> NULL]
  BY DEF Init
<1>2. FilesTypes
  <2>1. IsFiniteSet(alive) /\ alive \subseteq Procs
    BY <1>1, FS_Singleton, FilesAssumption
  <2>2. fd_table \in Tables
    BY <1>1, StandardLemma DEF Tables
  <2> QED BY <1>1, <2>1, <2>2 DEF FilesTypes, TypeOK, Tables
<1>3. \A p \in alive, fd \in Fds : fd_table[p][fd] = IF fd < 3 THEN fd ELSE -1
  BY <1>1, FilesAssumption
<1>4. \A s \in Slots : s >= 3 => AllRefs(s) = {}
  <2>1. ASSUME NEW s \in Slots, s >= 3, NEW r \in AllRefs(s) PROVE FALSE
    <3>1. PICK p \in alive, fd \in Fds : fd_table[p][fd] = s
      BY DEF AllRefs
    <3> QED BY <1>3, <2>1, <3>1, TablesLemma
  <2> QED BY <2>1
<1>5. OwnTables /\ \A p \in alive, fd \in OwnFds : fd_table[p][fd] = -1
  BY <1>3, TablesLemma DEF OwnTables, OwnFds
<1>6. SlotInv /\ PipeCounted /\ NoCrash
  <2>1. ASSUME NEW s \in Slots PROVE Kind(s) /\ Unused(s) /\ OneEach(s)
    BY <1>1, <1>4, <1>5, TablesLemma, FilesAssumption DEF Kind, Unused, OneEach
  <2> QED BY <1>1, <1>5, <2>1 DEF SlotInv, PipeCounted, NoCrash
<1>7. InodeStaysOpen
  <2>1. ASSUME NEW i \in Inodes PROVE i_open_cnts[i] >= Cardinality(Having(i))
    <3>1. Having(i) = {}
      BY <1>1, FilesAssumption DEF Having
    <3> QED BY <1>1, <3>1, FS_EmptySet
  <2> QED BY <2>1 DEF InodeStaysOpen, Having
<1> QED BY <1>2, <1>6, <1>7 DEF IInv

LEMMA NextIInv ==
  ASSUME IInv, [Next]_vars
  PROVE  IInv' /\ Reuse
<1>1. ASSUME NEW p \in Procs, NEW n \in Names, file_open(p, n)
      PROVE  IInv' /\ Reuse
  BY <1>1, FileOpenStep
<1>2. ASSUME NEW p \in Procs, NEW n \in Names, file_create(p, n)
      PROVE  IInv' /\ Reuse
  BY <1>2, FileCreateStep
<1>3. ASSUME NEW p \in Procs, NEW n \in Names, sys_unlink(p, n)
      PROVE  IInv' /\ Reuse
  BY <1>3, UnlinkStep
<1>4. ASSUME NEW p \in Procs, NEW fd \in Fds, sys_close(p, fd)
      PROVE  IInv' /\ Reuse
  BY <1>4, CloseStep
<1>5. ASSUME NEW p \in Procs, NEW fd \in Fds, Use(p, fd)
      PROVE  IInv' /\ Reuse
  BY <1>5, UseStep
<1>6. ASSUME NEW p \in Procs, NEW old \in Fds, NEW new \in Fds,
             sys_fd_redirect(p, old, new)
      PROVE  IInv' /\ Reuse
  BY <1>6, RedirectStep
<1>7. ASSUME NEW p \in Procs, NEW c \in Procs, sys_fork(p, c)
      PROVE  IInv' /\ Reuse
  BY <1>7, ForkStep
<1>8. ASSUME NEW p \in Procs, sys_pipe(p)
      PROVE  IInv' /\ Reuse
  BY <1>8, PipeStep
<1>9. ASSUME NEW p \in Procs, sys_exit(p)
      PROVE  IInv' /\ Reuse
  BY <1>9, ExitStep
<1>10. CASE UNCHANGED vars
  BY <1>10, SkipLemma
<1> QED BY <1>1, <1>2, <1>3, <1>4, <1>5, <1>6, <1>7, <1>8, <1>9, <1>10 DEF Next

\* The inductive invariant holds of every behaviour.
THEOREM FilesInvariant == Spec => []IInv
<1>1. IInv /\ [Next]_vars => IInv'
  BY NextIInv
<1> QED BY <1>1, InitIInv, PTL DEF Spec

\* A pipe lives as long as a descriptor of its own refers to it: sys_pipe,
\* fork, close and exit, in any order and of any processes, leave fd_pos the
\* number of these descriptors and of the ends that sys_pipe had no room for,
\* and the last close frees the page unless there is such an end.
THEOREM PipeCountedTheorem == Spec => []PipeCounted
<1>1. IInv => PipeCounted
  BY DEF IInv
<1> QED BY <1>1, FilesInvariant, PTL

\* An inode some slot refers to is open, once for each of these slots at least,
\* so that no close frees an inode another descriptor still uses.
THEOREM InodeStaysOpenTheorem == Spec => []InodeStaysOpen
<1>1. IInv => InodeStaysOpen
  BY DEF IInv
<1> QED BY <1>1, FilesInvariant, PTL

\* The only slots in which a call can follow a descriptor to an object that is
\* gone are those that a close or an unlink has emptied under a descriptor.
THEOREM NoCrashTheorem == Spec => []NoCrash
<1>1. IInv => NoCrash
  BY DEF IInv
<1> QED BY <1>1, FilesInvariant, PTL

\* And the only slots that go to another object under a descriptor, a redirected
\* one included, are these.
THEOREM NoSlotReuseTheorem == Spec => NoSlotReuse
<1>1. IInv /\ [Next]_vars =>
        [\A s \in Slots : file_table'[s].fd_inode # file_table[s].fd_inode =>
           AllRefs(s) = {} \/ AllRefs(s)' = {} \/ s \in stale']_vars
  BY NextIInv DEF Reuse
<1> QED BY <1>1, FilesInvariant, PTL DEF Spec, NoSlotReuse
=============================================================================
