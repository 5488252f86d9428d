-------------------------------- MODULE Files --------------------------------
(***************************************************************************)
(* File descriptors: the fd_table of every process, the file_table they    *)
(* share, the reference counts behind it, and what open, close, pipe,      *)
(* fork, exit and unlink do to them (fs/file.c, fs/fs.c, pipe/pipe.c,      *)
(* userprog/fork.c, userprog/wait_exit.c).                                 *)
(*                                                                         *)
(* A system call is one step: what happens when calls interleave at the    *)
(* disk is not part of this module, and positions in files are not.        *)
(* Programs pass descriptors they have, redirect only standard ones, and   *)
(* lseek only files: sys_lseek does not ask, and would set the count that  *)
(* a pipe keeps in fd_pos (fs.c:215).  i_open_cnts is 0 for an inode that  *)
(* is not in memory.                                                       *)
(*                                                                         *)
(* Three things take an object from a slot under a descriptor: the close   *)
(* of a file whose slot others share, after a fork or a redirection; the   *)
(* close of the last end of a pipe that a standard descriptor has been     *)
(* redirected to, which is not counted; and unlink.  The slots they have   *)
(* happened to are in stale.                                               *)
(***************************************************************************)
EXTENDS Integers, FiniteSets

CONSTANTS
  Procs, shell,  \* the processes, and the one there is at first
  Names,         \* of files in the root directory
  Inodes,        \* inode numbers, a set of integers; 0 is the root directory's
  Redirected,    \* the standard descriptors that programs redirect
  MaxFd,         \* MAX_FILES_OPEN_PER_PROC
  MaxFile,       \* MAX_FILES_OPEN
  MaxOpens,      \* bound on i_open_cnts
  PAGE,          \* the page a pipe's queue is in
  NULL

ASSUME FilesAssumption ==
  /\ shell \in Procs /\ Redirected \subseteq 0..2
  /\ Inodes \subseteq Nat \ {0} /\ {NULL, PAGE} \cap Inodes = {}
  /\ NULL # PAGE
  /\ MaxFd \in Nat /\ MaxFile \in Nat /\ MaxFd >= 3 /\ MaxFile >= 3
  /\ MaxOpens \in Nat

VARIABLES
  alive,        \* the processes that have not exited
  fd_table,     \* each process's, from local to global descriptors, or -1
  file_table,   \* fd_inode (an inode, PAGE or NULL), fd_pos and flag
  i_open_cnts,
  dir,          \* the root directory: the inode of each name, or NULL
  status,       \* "ok", "assert" after a PANIC, "wild" after a write to
                \* file_table[-1]
  faulted,      \* slots in which a call has followed NULL: a page fault
  lost,         \* history: the ends of a pipe that got no descriptor
  stale         \* history: the slots that were emptied under a descriptor

history == <<lost, stale>>
vars == <<alive, fd_table, file_table, i_open_cnts, dir, status, faulted, history>>

Fds == 0..MaxFd - 1
Slots == 0..MaxFile - 1
OwnFds == {fd \in Fds : fd >= 3}     \* all but the standard ones

TypeOK ==
  /\ alive \subseteq Procs
  /\ fd_table \in [Procs -> [Fds -> Slots \cup {-1}]]
  /\ file_table \in [Slots -> [fd_inode: Inodes \cup {PAGE, NULL},
                               fd_pos: Int,
                               flag: {"file", "pipe"}]]
  /\ i_open_cnts \in [Inodes -> Nat]
  /\ dir \in [Names -> Inodes \cup {NULL}]
  /\ status \in {"ok", "assert", "wild"}
  /\ faulted \subseteq Slots /\ stale \subseteq Slots
  /\ lost \in [Slots -> 0..2]

Init ==
  /\ alive = {shell}
  /\ fd_table = [p \in Procs |-> [fd \in Fds |-> IF fd < 3 THEN fd ELSE -1]]
  /\ file_table = [s \in Slots |->
       [fd_inode |-> NULL, fd_pos |-> 0, flag |-> "file"]]
  /\ i_open_cnts = [i \in Inodes |-> 0]
  /\ dir = [n \in Names |-> NULL]
  /\ status = "ok" /\ faulted = {}
  /\ lost = [s \in Slots |-> 0] /\ stale = {}

-----------------------------------------------------------------------------
(* Descriptors *)

Least(S) == CHOOSE x \in S : \A y \in S : x <= y

FreeSlots == {s \in Slots : s >= 3 /\ file_table[s].fd_inode = NULL}

FreeFds(p) == {fd \in OwnFds : fd_table[p][fd] = -1}

\* get_free_slot_in_global, -1 if there is none.
get_free_slot_in_global ==
  IF FreeSlots = {} THEN -1 ELSE Least(FreeSlots)

\* pcb_fd_install: the table with the global descriptor in the first free
\* place, unchanged if there is none.
pcb_fd_install(table, g) ==
  LET free == {fd \in OwnFds : table[fd] = -1}
  IN  IF free = {} THEN table ELSE [table EXCEPT ![Least(free)] = g]

\* The descriptors, of any process, for a slot, and those of them that fork,
\* close and exit count.
AllRefs(s) == {r \in alive \X Fds : fd_table[r[1]][r[2]] = s}
Refs(s) == {r \in alive \X OwnFds : fd_table[r[1]][r[2]] = s}

\* How many descriptors of p refer to slot s.
Uses(p, s) == Cardinality({fd \in OwnFds : fd_table[p][fd] = s})

\* Mutant of CloseSlots: a pipe is freed when either end is closed.
Mut_CloseSlots(n) ==
  LET files == {s \in Slots : n[s] > 0 /\ file_table[s].flag = "file"}
  IN  /\ file_table' = [s \in Slots |->
           IF n[s] > 0 THEN [file_table[s] EXCEPT !.fd_pos = @ - n[s], !.fd_inode = NULL]
                       ELSE file_table[s]]
      /\ i_open_cnts' = [i \in Inodes |-> i_open_cnts[i] -
           Cardinality({s \in files : file_table[s].fd_inode = i})]
      /\ UNCHANGED faulted

\* sys_close on n[s] descriptors of every slot s.  A pipe counts its
\* descriptors in fd_pos (below 0 it wraps around), and when the count comes to
\* 0 the page is freed.  A file gives up its inode, and the slot with it,
\* although others may refer to the slot: the next one to close it finds NULL.
CloseSlots(n) ==
  LET closed(flag) == {s \in Slots : n[s] > 0 /\ file_table[s].flag = flag}
      freed == {s \in closed("pipe") : file_table[s].fd_pos \in 1..n[s]}
  IN  /\ file_table' = [s \in Slots |->
           LET f == file_table[s]
           IN  IF f.flag = "pipe"
                 THEN [f EXCEPT !.fd_pos = @ - n[s],
                                !.fd_inode = IF s \in freed THEN NULL ELSE @]
               ELSE IF n[s] > 0 THEN [f EXCEPT !.fd_inode = NULL] ELSE f]
      /\ i_open_cnts' = [i \in Inodes |-> i_open_cnts[i] -
           Cardinality({s \in closed("file") : file_table[s].fd_inode = i})]
      /\ faulted' = {s \in closed("file") : n[s] > 1}
           \cup {s \in closed("file") \cup freed : file_table[s].fd_inode = NULL}

\* The slots that the step empties under a descriptor that is not counted: a
\* file counts none, a pipe no standard ones.
Emptied ==
  {s \in Slots :
     /\ file_table[s].fd_inode # NULL /\ file_table'[s].fd_inode = NULL
     /\ AllRefs(s)' # {}
     /\ file_table[s].flag = "file" \/ Refs(s)' = {}}

-----------------------------------------------------------------------------
(* Calls *)

Runs(p) == p \in alive /\ status = "ok" /\ faulted = {}

\* A slot takes an inode, and the caller a descriptor for it if it has room.
Install(p, s, i) ==
  /\ file_table' = [file_table EXCEPT ![s] =
       [fd_inode |-> i, fd_pos |-> 0, flag |-> "file"]]
  /\ fd_table' = [fd_table EXCEPT ![p] = pcb_fd_install(@, s)]

\* Mutant of file_open: the inode is not opened.
Mut_file_open(p, n) ==
  /\ Runs(p)
  /\ dir[n] # NULL
  /\ get_free_slot_in_global # -1
  /\ Install(p, get_free_slot_in_global, dir[n])
  /\ UNCHANGED <<alive, dir, status, faulted, history, i_open_cnts>>

\* file_open: the inode is opened before a slot is looked for, and stays open
\* if there is none.
file_open(p, n) ==
  /\ Runs(p)
  /\ dir[n] # NULL
  /\ i_open_cnts' = [i_open_cnts EXCEPT ![dir[n]] = @ + 1]
  /\ IF get_free_slot_in_global = -1
       THEN UNCHANGED <<file_table, fd_table>>
       ELSE Install(p, get_free_slot_in_global, dir[n])
  /\ UNCHANGED <<alive, dir, status, faulted, history>>

\* inode_alloc takes the lowest number that is free.
FreeInodes == Inodes \ {dir[n] : n \in Names}

\* file_create: fails without effect if the name exists, or a slot or an inode
\* is missing.
file_create(p, n) ==
  /\ Runs(p)
  /\ dir[n] = NULL /\ FreeInodes # {} /\ FreeSlots # {}
  /\ LET i == Least(FreeInodes)
     IN  /\ dir' = [dir EXCEPT ![n] = i]
         /\ i_open_cnts' = [i_open_cnts EXCEPT ![i] = 1]
         /\ Install(p, get_free_slot_in_global, i)
  /\ UNCHANGED <<alive, status, faulted, history>>

\* Mutant of sys_close: the descriptor stays in the table.
Mut_sys_close(p, fd) ==
  /\ Runs(p)
  /\ fd \in OwnFds /\ fd_table[p][fd] # -1
  /\ CloseSlots([s \in Slots |-> IF s = fd_table[p][fd] THEN 1 ELSE 0])
  /\ UNCHANGED <<alive, dir, fd_table, status, lost>>
  /\ stale' = stale \cup Emptied

sys_close(p, fd) ==
  /\ Runs(p)
  /\ fd \in OwnFds /\ fd_table[p][fd] # -1
  /\ CloseSlots([s \in Slots |-> IF s = fd_table[p][fd] THEN 1 ELSE 0])
  /\ fd_table' = [fd_table EXCEPT ![p][fd] = -1]
  /\ UNCHANGED <<alive, dir, status, lost>>
  /\ stale' = stale \cup Emptied

\* sys_pipe tests neither for a slot nor for descriptors: without a slot it
\* writes to file_table[-1]; and the count starts at 2 although the caller may
\* have room for one end or none, which then keeps the pipe for ever.
sys_pipe(p) ==
  LET s == get_free_slot_in_global
      room == Cardinality(FreeFds(p))
  IN  /\ Runs(p)
      /\ IF s = -1 THEN status' = "wild" /\ UNCHANGED <<file_table, fd_table, lost>>
         ELSE /\ file_table' = [file_table EXCEPT ![s] =
                   [fd_inode |-> PAGE, fd_pos |-> 2, flag |-> "pipe"]]
              /\ fd_table' = [fd_table EXCEPT ![p] =
                   pcb_fd_install(pcb_fd_install(@, s), s)]
              /\ lost' = [lost EXCEPT ![s] = IF room < 2 THEN 2 - room ELSE 0]
              /\ UNCHANGED status
      /\ UNCHANGED <<alive, i_open_cnts, dir, faulted, stale>>

\* fd_redirect of a standard descriptor, to another one or to what a descriptor
\* refers to; the counts do not change.
sys_fd_redirect(p, old, new) ==
  /\ Runs(p)
  /\ old \in Redirected /\ fd_table[p][new] # -1
  /\ fd_table' = [fd_table EXCEPT ![p][old] =
       IF new < 3 THEN new ELSE fd_table[p][new]]
  /\ UNCHANGED <<alive, file_table, i_open_cnts, dir, status, faulted, history>>

\* Mutant of update_inode_open_cnts: one descriptor per slot is counted.
Mut_update_inode_open_cnts(p) ==
  /\ file_table' = [s \in Slots |->
       IF Uses(p, s) > 0 /\ file_table[s].flag = "pipe"
         THEN [file_table[s] EXCEPT !.fd_pos = @ + 1] ELSE file_table[s]]
  /\ UNCHANGED <<i_open_cnts, faulted>>

\* update_inode_open_cnts: each descriptor of the child counts; it follows NULL
\* in a file's slot whose inode is gone.
update_inode_open_cnts(p) ==
  LET files == {s \in Slots : Uses(p, s) > 0 /\ file_table[s].flag = "file"}
      more(i) == Cardinality({fd \in OwnFds :
                   /\ fd_table[p][fd] \in files
                   /\ file_table[fd_table[p][fd]].fd_inode = i})
  IN  /\ file_table' = [s \in Slots |->
           IF file_table[s].flag = "pipe"
             THEN [file_table[s] EXCEPT !.fd_pos = @ + Uses(p, s)]
             ELSE file_table[s]]
      /\ i_open_cnts' = [i \in Inodes |-> i_open_cnts[i] + more(i)]
      /\ faulted' = {s \in files : file_table[s].fd_inode = NULL}

sys_fork(p, c) ==
  /\ Runs(p)
  /\ c \notin alive
  /\ alive' = alive \cup {c}
  /\ fd_table' = [fd_table EXCEPT ![c] = fd_table[p]]
  /\ update_inode_open_cnts(p)
  /\ UNCHANGED <<dir, status, history>>

\* sys_exit, release_prog_resource: every descriptor is closed, but for the
\* standard ones.
sys_exit(p) ==
  /\ Runs(p)
  /\ p # shell
  /\ CloseSlots([s \in Slots |-> Uses(p, s)])
  /\ alive' = alive \ {p}
  /\ fd_table' = [fd_table EXCEPT ![p] = [fd \in Fds |->
       IF fd < 3 THEN fd ELSE -1]]
  /\ UNCHANGED <<dir, status, lost>>
  /\ stale' = stale \cup Emptied

\* Whether reading or writing fd goes to the slot it refers to: not for the
\* keyboard and the console, which standard output is unless it is a pipe.
Followed(p, fd) ==
  LET s == fd_table[p][fd]
  IN  s >= 3 /\ (file_table[s].flag = "pipe" \/ fd # 1)

\* sys_read, sys_write and sys_lseek follow the slot to its object.
Use(p, fd) ==
  /\ Runs(p)
  /\ Followed(p, fd)
  /\ faulted' = {s \in {fd_table[p][fd]} : file_table[s].fd_inode = NULL}
  /\ UNCHANGED <<alive, fd_table, file_table, i_open_cnts, dir, status, history>>

\* sys_unlink: every slot with the inode loses it; inode_free panics unless
\* the call itself is the only one to have the inode open.
sys_unlink(p, n) ==
  /\ Runs(p)
  /\ dir[n] # NULL
  /\ file_table' = [s \in Slots |->
       IF file_table[s].fd_inode = dir[n]
         THEN [file_table[s] EXCEPT !.fd_inode = NULL] ELSE file_table[s]]
  /\ IF i_open_cnts[dir[n]] = 0
       THEN dir' = [dir EXCEPT ![n] = NULL] /\ UNCHANGED status
       ELSE status' = "assert" /\ UNCHANGED dir
  /\ UNCHANGED <<alive, fd_table, i_open_cnts, faulted, lost>>
  /\ stale' = stale \cup Emptied

Next ==
  \E p \in Procs :
    \/ \E n \in Names : file_open(p, n) \/ file_create(p, n) \/ sys_unlink(p, n)
    \/ \E fd \in Fds : sys_close(p, fd) \/ Use(p, fd)
    \/ \E old, new \in Fds : sys_fd_redirect(p, old, new)
    \/ \E c \in Procs : sys_fork(p, c)
    \/ sys_pipe(p) \/ sys_exit(p)

Spec == Init /\ [][Next]_vars

\* Bound on the state space: file_open with a full table leaves the inode open
\* for ever, and is repeated as often as MaxOpens allows.
BoundedOpens == \A i \in Inodes : i_open_cnts[i] <= MaxOpens

-----------------------------------------------------------------------------
(* Properties *)

\* A pipe lives as long as a descriptor of its own refers to it: the count is
\* the number of these descriptors, over all processes, through fork, close
\* and exit in any order, and of the ends that sys_pipe could not install.
PipeCounted ==
  \A s \in Slots \ stale : file_table[s].flag = "pipe" =>
    /\ file_table[s].fd_pos = Cardinality(Refs(s)) + lost[s]
    /\ file_table[s].fd_inode = NULL <=> Refs(s) = {} /\ lost[s] = 0

\* A slot goes to another object only after the last descriptor for it is
\* gone, redirected ones included, so that nobody's descriptor ends up at
\* somebody else's object; but for the slots that close and unlink empty under
\* one (file.c:72-73, pipe.c:62-70, fs.c:275-279).
NoSlotReuse ==
  [][\A s \in Slots :
       file_table'[s].fd_inode # file_table[s].fd_inode =>
         AllRefs(s) = {} \/ AllRefs(s)' = {} \/ s \in stale']_vars

\* No call follows a descriptor to an object that is gone, but in these slots.
NoCrash == faulted \subseteq stale

\* An inode some slot refers to is in memory and counts each of these slots,
\* so that a close never frees an inode another descriptor still uses.
InodeStaysOpen ==
  \A i \in Inodes :
    i_open_cnts[i] >= Cardinality({s \in Slots : file_table[s].fd_inode = i})

\* ASSERT(inode->i_open_cnts == 1) of inode_free, and the PANIC before it.
UnlinkAssertHolds == status # "assert"
=============================================================================
