# RecoverOS in TLA+

RecoverOS is a small x86-64 operating system: preemptive kernel threads, user
processes, an IDE driver, a file system, pipes, a keyboard driver and a shell.
This directory models the parts in which several actors meet, checks them with
TLC and proves with TLAPS what matters most about the scheduler, the lock, the
disk driver, pipes, the keyboard, processes and descriptors.

Contents: [inventory](#inventory), [modules](#modules-and-the-code),
[runs](#runs), [bounds](#bounds), [fairness](#fairness),
[assumptions](#assumptions), [proofs](#proofs), [findings](#findings),
[not modelled](#what-is-not-modelled), [plan](#plan).

## Inventory

What runs concurrently: the clock interrupts whatever runs with IF set, that is
user mode, kernel threads and the idle thread. A system call and an interrupt
handler run with IF clear, so a system call gives up the processor only where it
blocks or yields: in `sema_down`, `ioq_wait`, `sys_wait`, `sys_exit` and
`mtime_sleep`. Everything hard in this code happens at these points, or between
two statements of a kernel thread.

| component | state | operations | used by |
|---|---|---|---|
| scheduler (`thread/thread.c`, `device/timer.c`) | `current`, `ready_threads_list`, `stat` and `ticks` of each task | `schedule`, `thread_block`, `thread_unblock`, `thread_yield`, `intr_time_hdl`, `idle` | everything that waits |
| semaphores and locks (`thread/sync.c`) | `value`, `waiters`; `holder`, `holder_repeat_nr` | `sema_down`, `sema_up`, `lock_acquire`, `lock_release` | disk, queues, inodes, pids, console |
| disk driver (`device/ide.c`) | the channel's `lock`, `disk_done`, `expecting_intr` | `ide_read`, `ide_write`, `busy_wait`, `intr_hd_hdl` | file system, boot |
| I/O queue (`device/ioqueue.c`) | `buf`, `head`, `tail`, `producer`, `consumer`, `lock` | `ioq_getchar`, `ioq_putchar`, `ioq_length` | keyboard, pipes |
| keyboard (`device/keyboard.c`) | `ctrl_status`, `shift_status`, `alt_status`, `caps_lock_status`, `ext_scancode`, `kbd_buf` | `intr_keyboard_hdl` | `sys_read` |
| pipes (`pipe/pipe.c`) | a page with a queue, a slot of `file_table` | `sys_pipe`, `pipe_read`, `pipe_write`, `sys_fd_redirect` | shell |
| processes (`userprog/fork.c`, `wait_exit.c`, `thread.c`, `main.c`) | `all_threads_list`, `pid_pool`, `parent_pid`, pages of PCBs | `sys_fork`, `sys_wait`, `sys_exit`, `thread_exit`, the boot of `main` and `init` | shell, init |
| descriptors (`fs/file.c`, `fs/fs.c`) | `fd_table`, `file_table`, `i_open_cnts` | open, creat, close, unlink, fork, exit | every program |
| inodes and directories (`fs/inode.c`, `fs/dir.c`) | `open_inodes`, block and inode bitmaps, inode table on disk | `inode_open`, `inode_read`, `inode_write`, `inode_alloc`, `inode_free`, `dir_link`, `dir_unlink` | descriptors |
| memory (`kernel/memory.c`, `lib/kernel/bitmap.c`) | `phy_pool`, virtual pools, page tables, arenas and free lists | `alloc_pages`, `free_pages`, `sys_malloc`, `sys_free`, `release_prog_mem` | everything |
| loader (`userprog/exec.c`) | pages of the program | `sys_execv`, `segment_load` | shell |
| console, entry code, shell, commands, boot | | | |

What makes each correct:

- Scheduler: a task is in one list at a time, whoever sleeps can be found by
  whoever wakes, no ASSERT fails, a ready task runs.
- Lock: one holder, re-entry counted, a release wakes somebody who then gets it.
- Disk: a request has the channel to itself, its completion interrupt is neither
  lost nor taken from another command, and it ends.
- Queue: a bounded FIFO; at most one sleeper per slot, who is woken.
- Keyboard: a character is the one the keys that are down stand for.
- Processes: an exit is seen by the parent, the parent a task exits to exists,
  pids are unique, lists and PCB pages agree.
- Descriptors: a pipe lives as long as descriptors of its own refer to it, an
  inode as long as slots do, and no descriptor ends up at another object, but for
  the slots that a close or an unlink empties under one (see [runs](#runs)).
- Inodes: what was written is read back; a block has one owner; bitmaps, inode
  table and blocks agree on disk whenever the power goes.
- Directories: names stand for files as a map would have it, the inodes taken are
  those with a name, a listing misses nothing that stays.
- Memory: a frame has one owner, a block is handed out once, free lists and
  arenas agree, and nothing stops the machine but the lack of memory, or a fork
  after an allocation that failed half way.

`PROJECT.json` lists the hazards of the code, each at its line, with the
properties that would catch it or the reason none does yet.

## Modules and the code

| module | models | how |
|---|---|---|
| `Sched` | `list.c`, `schedule`, `thread_block`, `thread_unblock`, `thread_yield`, `intr_time_hdl`, the halves of `sema_down` and `sema_up` | operators on one record `[cur, stat, ready, ticks, panic]`; a failing ASSERT sets `panic`, after which nothing moves, as in `panic_spin` |
| `Sync` | threads, user processes, idle and the clock on one lock | one action per piece of code that no interrupt can split; `pc` says where each task stands, `ifl` holds each task's IF and `old_stat` the status that `set_intr_stat` returned to it |
| `LockSpec` | nothing in the code: the abstract re-entrant lock | refined by `Sync` |
| `Ide` | `ide.c` on top of `Sched`, with the controller | `dev` is the controller's state, `irq` the interrupt line; `Modes` switches on a slow controller or one that interrupts per sector |
| `CharFifo` | nothing in the code: the abstract bounded FIFO | refined by `IoQueue` |
| `IoQueue` | `ioqueue.c` on top of `Sched` | the part that pipes and keyboard share, with one task per call |
| `Pipe` | `pipe_read`, `pipe_write` | extends `IoQueue` |
| `Keyboard` | `intr_keyboard_hdl`, `sys_read` of the standard input | extends `IoQueue`; a scancode is a record, the `e0` prefix a byte of its own |
| `Process` | fork, wait, exit, `thread_exit`, the boot of main and init | extends `Sched`; a task is the page its PCB is in, so a PCB freed too early is reused by the next fork; `fault` is set when `release_pid` clears the bit of pid 0, number -1 |
| `Files` | `fd_table`, `file_table`, `i_open_cnts` | each system call is one step; the closes of an exit are put together slot by slot (`CloseSlots`), since they do not depend on their order. Standard descriptors can be redirected and are followed where the code follows them; a fault and a write to `file_table[-1]` end the behaviour (`faulted`, `status`). `lost` and `stale` are history variables |
| `Inode` | `inode_read`, `inode_write`, `block_bitmap_alloc`, `inode_sync`, `mount_partition` | an access to the disk is a step, `pc` names the next one; bytes say who wrote them and where, `file` is what completed writes have stored |
| `Directory` | `open_inodes`, both bitmaps, the inode table, `dir.c`, create, open, stat, unlink, close and `ls` in the root directory | an access to the disk is a step; `core` is what is in memory, `dsk` what is on disk; what a call does after its last access is written as operators that end in `Go` or `Return`, in the order of the C calls |
| `Catalog` | nothing in the code: the abstract map from names to contents | refined by `Directory` |
| `Paging` | physical frames, page tables and virtual pools: `palloc`, `alloc_pages`, `free_pages`, `get_pages`, `release_prog_mem`, the copy of a process's pages in `fork.c` | operators on one record; each page table is a frame that a process has or has not: the upper ones are shared by a pool's pages, the lowest serves `PerTable` pages |
| `Memory` | `sys_malloc`, `sys_free`, arenas and free lists, under fork, exec, exit and wait | extends `Paging`; each call is one step; free lists are followed pointer by pointer, because fork copies them |
| `SchedProofs`, `SyncProofs`, `IdeProofs`, `QueueProofs`, `ProcessProofs`, `FilesProofs`, `InodeProofs`, `DirectoryProofs` | | lemmas and theorems |
| `MC*` | | the instances that TLC checks |

`Sched` is the common base: `Sync`, `Ide`, `IoQueue` and `Process` each extend
it, so a driver that sleeps and is woken does it through the same
`thread_block`, `thread_unblock` and `schedule`, ASSERTs included. `Files`,
`Inode`, `Directory` and `Memory` are separate: the first is about counts, and
nothing in it waits; in the next two a process waits only for a lock or the
disk, which `Sync` and `Ide` are about; a call that changes memory runs to its
end. The three modules of the file system divide it: `Files` has the
descriptors, and each call is one step; `Inode` has requests of several blocks
on files that exist; `Directory` has the files' coming and going, with requests
of one cell (a directory entry, or the contents of a file).

Definitions keep the names of the C functions they translate. A definition named
`Mut_X` stands before `X`: it is a plausible mistake in `X`, and each property
is shown to be violated when `X` is replaced by one of them. Each module states
the types of its variables in `TypeOK`, for the reader; in the modules with
proofs the types are part of the inductive invariants, and the runs spend their
time on the other properties.

## Runs

| run | question | states |
|---|---|---|
| `sync` | Do two kernel threads, a process and idle, on one lock nested two deep, exclude each other, keep the lists intact, lose no wakeup, restore the IF they found, and implement `LockSpec`? Does a ready task run, and is the lock always handed on? | 7,882 |
| `disk` | Writes in several commands with a slow controller, and reads with one that interrupts once per sector: no interrupt is lost, none reaches a busy controller, `insw` moves the right data although stale interrupts end waits too early, and the holder of the channel finishes or gives up as long as the other client has something to compute time and again. | 101,031 |
| `pipe_two_writers` | Two writers and two readers of one pipe: FIFO order, no sleeper lost from its slot, and how long a call can sleep. | 22,029 |
| `keyboard` | Shift, caps lock, a prefixed ctrl key, a letter and an unknown prefixed key in any order: the right character is stored, no status sticks, and a sleeping reader is served. | 380,608 |
| `process_safety` | Boot, then fork, wait, exit and adoption in any order among up to four processes, with a fork that fails half way; pages for PCBs and pids are reused. | 208,554 |
| `files` | Two processes open, creat, close, unlink, make pipes, redirect their output, fork and exit, in tables that fill up: are counts right, and which slots, if any, are used or given away under a descriptor? | 1,118,630 |
| `inode_io` | Two processes read and write two files on four blocks, with power failures between any two disk accesses: what was written is read back, blocks have one owner, the disk is complete. | 255,452 |
| `directory` | A program creates, opens, stats, writes, closes and unlinks files while another runs `ls`: do the calls implement `Catalog`, does the disk agree with itself between any two accesses, does an inode keep its bit only if it has a name, also when a call fails half way, is a listing complete? | 499,442 |
| `memory` | A process and its child malloc, free, fork, exec, exit and wait until memory ends, and beyond, when an exit has given page tables back: one owner per frame, blocks apart, arenas counted, and the machine stops only for lack of memory or in a fork after an allocation that failed half way. | 245,806 |
| `inode_tail`, `files_unlink`, `memory_fork` | Expected violations, see [findings](#findings). | |

What they show, beyond that the properties hold:

- `sema_up` does not hand the semaphore over. A thread that comes late can take
  it before the one that was woken (which then sleeps again, at the end of the
  queue), so `LockProgress` says only that somebody gets it.
- In `disk` a read's wait can end on an interrupt of the read before it. What
  makes this harmless is `busy_wait`, not the semaphore: without its poll
  `RightData` fails.
- `pipe_write` can sleep for its last character, because it counts a cell that
  must stay empty (`ShortWait` is exact in this respect: one character).
- With two writers of one pipe a writer can sleep while there is room, and with
  two readers of the keyboard a reader while there is a character: the queue is
  not tested again between `lock_acquire` and `ioq_wait`. `ReaderServed` is
  therefore stated, and holds, for one reader.
- `creat` puts the inode on disk before its name, and a block's bit before the
  inode that uses it, so the disk agrees with itself at every step of a creat or
  a write (`DiskConsistent`). An unlink does not: it zeroes and frees the blocks
  before it removes the name, so the entry of a file that is being deleted is
  left out of the invariant, and a power failure there would leave a name with
  blocks that are free. It also leaves the bit of the inode set on disk, until
  the next creat writes the bitmap.
- `delete_file_or_directory` closes the inode once more after `inode_free` has
  given back its memory (`inode.c:358`). The decrement falls into a word of the
  free block that the free list does not use. This is all as long as the inodes
  in memory fit in the kernel's first arena of their size, where the root's inode
  stays: otherwise `sys_free` may have returned the arena's page
  (`memory.c:321`), and the second close faults. `Directory` keeps to the first.
- Three things empty a slot of `file_table` under a descriptor: the close of a
  file that another descriptor has through a fork or a redirection
  (`file.c:72-73`), the close of the last counted end of a pipe to which a
  standard descriptor has been redirected (`pipe.c:62-70` counts nothing), and
  `unlink` (`fs.c:275-279`). A later call through such a descriptor follows NULL
  or, after the slot has been given away, reaches somebody else's object.
  `stale` collects these slots; `NoCrash` and `NoSlotReuse` say that no others
  are affected, in any order of the calls.
- `sys_pipe` looks for neither a free slot nor two free descriptors
  (`pipe.c:13-25`). With no slot it writes to `file_table[-1]`; with room for
  one descriptor the count is 2 and the pipe is never freed. `PipeCounted` counts
  these `lost` ends.
- An allocation of several pages that fails half way leaves bits of the pool set
  for pages that are not mapped (`memory.c:150-158`), and the next fork of that
  process reads them and faults (`fork.c:80-83`), even when there is memory by
  then. `OnlyMemoryEnds` therefore has two reasons for which the machine stops.
- `inode_free` gives back the blocks of a file but not its indirect block
  (`inode.c:295-301`), so that each file above 12 blocks that is unlinked costs
  one. The files of `Directory` are shorter, and `InodesNamed` does not claim
  that every marked block is in use.
- With a second program that changes files `NoPanic` of `Directory` fails within
  twenty steps: one unlinks a name while the other creates it, and finds it open
  in `inode_free`. No lock covers the steps of a call, so `directory` has one
  such program, and the hazards at `inode.c:34`, `:83` and `:179` say so.
- `free_pages` never makes a frame free again. Frames therefore run out under
  malloc and free alone; what `memory` shows is that they do without one being
  given to two owners.

## Bounds

- `Sync`: three threads are enough for a holder, a waiter and a latecomer, which
  is what the races of `sema_up` need; depth 2 has a first, a nested and a last
  release. The time slice is 0 (`prio`), so the clock preempts at every tick,
  which includes every longer slice. The proofs remove these bounds.
- `Ide`: `Chunk` (2) stands for the 256 sectors of one command; requests of 2 and
  of 3 sectors (`Secs`) take one and two commands. `PollTurns` (2) stands for
  the 30,000 turns of `busy_wait`: one that fails and a last one. The kind of
  controller (`Modes`) is chosen at the start, and `Ops` gives the requests that
  are made of each.
- `IoQueue`: `bufsize` 3 (2 for the scancodes) has an empty, a half full and a full
  queue and wraps at every third character; `MaxCount` lets one call fill it. The
  proofs hold for every `bufsize`, `MaxCount` and number of tasks.
- `Keyboard`: one key of each kind that the decoder tells apart; two keys can be
  down at once in any combination, which is what statuses get wrong.
- `Process`: three pages for PCBs beside main, init and idle, so the fourth
  process that is forked reuses one; `MaxPid` is the number of tasks that can exist, `MaxLeaks`
  (1) bounds the forks that fail half way, as each loses a page and a pid. So
  the run never has a fork without a pid, nor a release of pid 0; the theorems
  state that condition (`PidLeft`).
  Pages are interchangeable except for the order in which the lowest is taken,
  which no property depends on: `SYMMETRY` is used for safety only.
- `Inode`: blocks of two bytes, two direct blocks and one in the indirect block;
  counts of 3 and 4 give requests that start inside a block, end inside one, and
  have a whole block between. Four blocks hold two short files or one long one,
  so every allocation also fails. `Tails = FALSE` leaves out the writes of
  `inode_tail`. `Near` keeps the inodes of the two files in different sectors
  of the inode table: with neighbours `inode_sync` loses updates and `OnDisk`
  fails (see the hazard at `inode.c:34`). Processes and files are
  interchangeable, and nothing is said of liveness: `SYMMETRY`.
- `Directory`: two names; three inodes, so a creat of a name that exists still
  gets one; a block has room for three entries, so the fourth (`.` and `..` come
  first) makes the directory grow; partitions of two blocks, on which a creat and
  a write fail half way, and of four, on which everything fits (`Sizes`). One
  slot in `file_table`, so an open with no slot loses a count; `MaxOpens` (2)
  bounds these. A program unlinks only what nobody has open: `files_unlink` has
  the rest. Files are shorter than 13 blocks, so none has an indirect block, and
  the inodes in memory fit in one arena. Names are only compared: `SYMMETRY`.
- `Memory`: two processes with seven virtual pages each, two levels of page
  tables, programs of up to two pages, blocks of one size and areas of five pages.
  30 frames (`NFrames`) are a few more than two processes need, so every call also
  runs out of them, in its first step and half way; `MaxLive` (2) bounds what a
  program holds. `free_pages` never gives a frame back, only the end of a process
  does, and what it gives are the page tables. In the code a program has up to
  five tables besides those of its stack, and many processes exit; here one does,
  and `PerTable = 1` gives the pool a table per page, so that this one exit gives
  back enough for the fork that follows (reaching a fork that faults with frames
  free was checked). `Programs` bounds the processes that exec and ask for small
  blocks to the child: init, the root, does neither. `InPool` leaves
  out requests whose first fit reaches beyond the pool (`bitmap_alloc` then reads
  bits behind the bitmap, `bitmap.c:38`), `Apart` programs that would be loaded
  over the heap, and `HeapKept = FALSE` forks of a process that has small
  blocks, held or free, which `memory_fork` is about.
- `Files`: both tables have five places, so there are two free slots in
  `file_table` and two in each `fd_table` behind the standard ones, and both run
  out: a pipe finds two, one or no descriptors and one or no slot. One standard
  descriptor is redirected (`Redirected = {1}`, the one that is followed only if
  the slot has a pipe; the proofs have all). `BoundedOpens` (`MaxOpens` 2) stops
  `file_open` from leaking an open count for ever when `file_table` is full.

## Fairness

- `SF(Timer)`: the clock keeps ticking. A tick that finds IF clear stays pending
  in the interrupt controller and is delivered when IF is set, so being possible
  again and again is enough. The same holds for the disk and keyboard interrupts.
- `SF` of the kernel's own steps: between two ticks the processor executes many
  instructions, so a thread that is scheduled again and again gets on.
- `SF(LockRelease)` in `Sync`, of a nested and of the last release: a critical
  section ends. Every section in the code
  is a bounded loop of disk accesses or of characters.
- `WF(DevReady)`: the controller answers. Whether in time is left open: the holder
  may give up.
- No fairness is assumed of user programs (they may never call `wait` or `read`
  again), of key presses, or of which task takes a semaphore.

## Assumptions

- Interrupts are off during a system call. The code relies on it
  (`ASSERT(intr_off == get_intr_stat())` in `fork.c:135`, `ioqueue.c:39` and
  `timer.c:71`); the mask that `syscall` applies to RFLAGS is set up outside
  these sources.
- One processor. A statement that `set_intr_stat(intr_off)` brackets is atomic.
- The slice of 31 ticks that `init` starts with does not run out before it has
  blocked itself in `start_process` (a guard of `Timer` in `Process`). That it has
  then blocked before `main`, whose disk accesses let it run, unblocks it, is
  checked and proved.
- A lock is taken and released, and a semaphore used, from any interrupt status;
  `Sync` lets each task save and restore what it found. In `Ide` a kernel thread
  comes with interrupts on and a process with interrupts off, and gets that back.
- `process_safety` has as many pids as tasks; what holds when pids run out, and
  that they do not with no more pages for PCBs than pids, is proved (see
  [proofs](#proofs)).
- The kernel's own pool of virtual pages does not run out (`k_v_pool` has 2048;
  physical memory ends first), and what is in a page or block that nobody has
  written is never relied on.
- `filesys_init` finds a file system on the partition. As the sources stand
  `sb_init` leaves the magic number out, so that each start formats the disk,
  which a comment calls provisional (`fs.c:299-300`); the power failures of
  `Inode` and `DiskConsistent` are about the mount that the code is written for
  (`fs.c:405-419`).
- A sector is written whole or not at all when the power goes. After it the
  partition is mounted and the files are opened again (`Inode`); a file that was
  being written may then hold any part of the write.
- `sys_malloc` in `inode_read` and `inode_write` gets its buffer; when it does not
  the call returns before it has done anything.
- The controller executes one command at a time and interrupts when a command's
  data is ready or stored (per sector with `Modes = {"stale"}`).

## Proofs

`SchedProofs` proves what the list and scheduler operators do for any number of
tasks: what `elem_find` means for pushed, appended and popped lists, and that
each of `thread_block`, `thread_unblock`, `thread_yield`, `schedule` and
`intr_time_hdl` keeps `Consistent` (a task is queued exactly when it is ready,
once; the running task is not queued) and does not panic when its caller keeps
its side of the contract.

`SyncProofs` proves, for any set of tasks, any division into kernel threads and
processes, any time slices and any nesting bound:

| theorem | statement |
|---|---|
| `Invariance` | `Spec => []IInv` |
| `TypeCorrect`, `MutualExclusion`, `NoAssertFails`, `ListsIntact`, `WakeupNotLost`, `SlotOwnership`, `InterruptsGivenBack` | the safety properties that `sync` checks |
| `Refinement` | `Spec => ImplementsLock`: the lock of `sync.c` is the re-entrant lock of `LockSpec` |

None of the properties is inductive alone. That no list is corrupted needs the
wait queue to hold only blocked threads; that `sema_up` finds the value 0 needs
one thread inside; that the thread inside is the holder needs the link between
`holder_repeat_nr` and what each thread still owes. `IInv` is the conjunction:
`TypeOK`, `SchedInv` (the scheduler's record is consistent), `PcInv`, `WaitInv`
(blocked means in the wait queue or in the slot), `LockInv` (semaphore, holder
and count agree with the program counters), `SlotOwned`, `WakeInv`,
`SavedInv` (the status saved on entry, and which the loop of `sema_down` saves
again, is the one the task came with) and `InterruptsRestored`. There is one lemma per action, and `NextIInv` puts them
together. The refinement maps the owner to the thread inside and the depth to
the releases it still owes.

`IdeProofs` is about `ide.c`, for any number of threads, requests of any length
and any number of turns of `busy_wait`:

| theorem | statement |
|---|---|
| `DriverInvariant` | `ReadsIfStale => (Spec => []IInv)` |
| `DoneNotLostTheorem`, `NoOverrunTheorem`, `RightDataTheorem`, `NoLeftoverTheorem` | the safety properties that `disk` checks, under the same hypothesis |
| `OnlyGivesUp` | the only panic is that of a caller of `busy_wait` that has run out of turns |

Whose command the controller works on depends on the channel's lock, so the
invariant has the lock's part (`LockInv`, `QueueInv`) as in `SyncProofs`. The
core is `DevAt`: for each place of the holder's request what `disk_done`,
`expecting_intr` and the controller can be. `IrqInv` says which controllers
leave an interrupt behind, and `GaveUp` that a panic is the holder's own and ends
everything. The hypothesis is about the environment: a controller that raises
an interrupt per sector is only read from. After a read `busy_wait` makes up for
an interrupt that was left over; after a write the next command would take it
for its own. `disk` has the same condition in `Ops`.

`QueueProofs` is about `ioqueue.c`, for any number of tasks and any size of
the ring, and about the two that are built on the queue, the pipe (`PipeSpec`)
and the keyboard (`Spec`).

| theorem | statement |
|---|---|
| `PipeInvariance`, `KeyboardInvariance` | `PipeSpec => []PipeInv` and `Spec => []QInv` |
| `PipeSlots`, `KeyboardSlots` | `[]SlotsOwned`, which `pipe_two_writers` checks |
| `PipeWaits` | `PipeSpec => []ShortWait`: `pipe_read` never sleeps, `pipe_write` at most for its last character |
| `PipeFifo`, `KeyboardFifo` | `ImplementsFifo`: the ring is the bounded FIFO of `CharFifo` |
| `NoKeySticks` | `Spec => []NoStuckKey`, for any set of keys |
| `TypedCharTheorem` | `OneOfEach => (Spec => TypedChar)`: the character that enters `kbd_buf` is the one the keys stand for |

`SlotsOwned` is not inductive: a waker may find in a slot a task that is not
blocked unless the lock's queue and the slots together hold exactly the blocked
tasks (`WaitInv`), the task in the slot is the holder (`SlotInv`) and the holder
is the one task at or behind `ioq_wait` (`HolderInv`). `QInv` is these three with
the types, the scheduler's consistency and the program counters. Where a slot is
left by the sleeper's waker and the lock only by the sleeper itself, the
invariant lets the holder be in no slot; this is the gap between `wakeup` and
`lock_release` in which other tasks run. `ShortWait` needs `CallInv` as well: the
call that moves characters is the running task's and asks for no more than the
queue has, a writer for at most one more than it has room for; it is here that
interrupts being off in a system call matters. The refinement maps the ring to
the sequence of its characters counted from `tail`. The lemmas about `Cell` say
that the count from `tail` meets each cell once and reaches `head` after
`ioq_length` of them, wherever the two have wrapped; `PutAppends` and `GetPops` follow.

`NoStuckKey` speaks of moments when nothing is on the wire. `KeyInv` says what
holds between the bytes: the wire carries the code of one key, whole or without
the prefix that has just been read, and a key whose break code is on its way
still counts as held.

`TypedChar` needs more: that the statuses are set exactly when such a key is
down (`TypedInv`, again with the key on the wire left out or added), which is
false on a keyboard with two shift keys, where the first to go up clears the
status of both. `OneOfEach` says there is one; the digits, letters and other keys
are arbitrary. That nobody but the handler puts characters in is `OnlyReads`.

`ProcessProofs` is about boot, fork, wait and exit, for any number of pages for
PCBs, any number of pids and any number of forks that fail half way:

| theorem | statement |
|---|---|
| `ProcessInvariant`, `AssertsHold`, `ListsAgreeTheorem` | `Spec => []PInv`, `[]~sched.panic`, `[]ListsAgree` |
| `NoPanicTheorem`, `PidsUniqueTheorem`, `ParentAliveTheorem`, `ExitNotMissedTheorem` | `Spec /\ []PidLeft => []NoPanic`, `[]PidsUnique`, `[]ParentAlive`, `[]ExitNotMissed` |
| `PidsSuffice` | `EnoughPids => (Spec => []PidLeft)` |
| `ProcessesCorrect` | `EnoughPids => (Spec => [](NoPanic /\ PidsUnique /\ ParentAlive /\ ExitNotMissed))` |

That no ASSERT fails includes that `sys_exit` finds its parent in `all_threads_list`, so it
needs `ParentInv`; that `thread_unblock` wakes only sleepers needs `SleepInv`,
which ties the state a task may sleep in to the place its code is at; and that
`thread_unblock(init_proc)` at the end of the boot finds init blocked needs
`BootInv`, that init is at the front of the queue until it has blocked itself.
`ListsAgree` adds `ListInv`: a PCB is listed once, and unlisted exactly when its
task has died. This much holds even when `alloc_pid` has no pid left and fork
goes on with what it returned (`thread.c:69`, not tested). Two tasks then share
a pid, a wake-up may go to the wrong one, and `release_pid` writes outside the
bitmap when the one with pid 0 ends (`thread.c:74`), so the properties about pids
have the hypothesis `PidLeft`: a fork that gets a page gets a pid.
`PidsSuffice` replaces it by a condition on the constants, that there are no
more pages for PCBs than pids, with the count of pids in use as its invariant
(`CountInv`); a fork that fails half way loses one of each.

`FilesProofs` is about descriptors, for any number of processes, names and
inodes, any sizes of `fd_table` and `file_table` and any redirected standard
descriptors, with no condition on what programs share, close or unlink:

| theorem | statement |
|---|---|
| `FilesInvariant` | `Spec => []IInv` |
| `PipeCountedTheorem`, `InodeStaysOpenTheorem`, `NoCrashTheorem` | `Spec => []PipeCounted`, `[]InodeStaysOpen`, `[]NoCrash` |
| `NoSlotReuseTheorem` | `Spec => NoSlotReuse` |

What the code gets wrong is in the statements: the slots in `stale` are excepted, and
a pipe's count includes the ends in `lost`. That a pipe's count is right is kept by
counting sets: `Refs(s)` is finite because the processes alive are finitely many
(which is part of the invariant, so that `Procs` may be infinite), fork adds to it
the product of the child and the parent's descriptors, and close and exit take
from it what they have counted (`CloseLemma`, one lemma for both). That no call
finds the object gone is `SlotInv`: outside `stale` a slot without an object has
no descriptor, standard ones included (`Unused`), a process has at most one
descriptor of its own for a file's slot, so that its exit does not close it twice
(`OneEach`), and no descriptor of its own refers to the slots of the standard ones
(`OwnTables`). It also says that an inode in a slot has a name, so that an inode
that `file_create` takes is in no slot. That a slot which a step empties under a
descriptor is in `stale` is the definition of `stale`; what is proved is that
nothing else makes it necessary, and in particular that the last close of a pipe
that was never redirected to leaves nobody behind.

`InodeProofs` is about `inode_read` and `inode_write`, for any number of
processes and files, any sizes of block, inode, indirect block and partition,
requests of any length, and power failures at any access to the disk:

| theorem | statement |
|---|---|
| `InodeInvariant` | `Apart => (Spec => []IInv)` |
| `InodeReadsBack` | `Apart => (Spec => []ReadsBack)`: a read returns what the writes that returned have stored |
| `InodeBlocksOwned` | `Apart => (Spec => []BlocksOwned)`: no block is given to two files |
| `InodeOnDisk` | `Apart => (Spec => []OnDisk)`: a file nobody is in is on disk |

In the middle of a write a file is in three places: the inode in memory, the
`all_blocks` of the writer (whose direct blocks reach the inode only when the last
block is stored) and the indirect block, which is written after everything else;
and a block just taken is in one bitmap before it is in the other. `IInv`
says for each file what its blocks are wherever it is in that (`Cur`, `Owns`), and
that two files have none in common. `Shape` says that the inode table is behind
the inode in memory and never contradicts it, and that what the inode refers to is
marked on disk. `Bytes` says which bytes are already where they will be read: those
below the size, and of the writer's request those in the blocks that are done.
`CallInv` has what the locals of a call know of this at each disk access. Blocks
outside the bitmap on disk hold zeros (`ITypes`), so a block that a power failure
takes back is as if it had never been written, and `LockInv` puts one writer into
a file. There is one lemma per access; those about positions (`DivMod`, `Bound`,
`CopiedLemma`) say that the three ways in which the loop cuts a request, first,
middle and last block, together cover it, each byte once.

`Apart` states for all values what `inode_io` has in its constants: no write of
more than one block ends on a block boundary, and no two open inodes are in one
sector of the inode table. Both are needed: without the first a write loses its
last block (`inode_tail`, below), without the second a sync may put an old copy of
the other inode on disk (the hazard at `inode.c:34`).

`DirectoryProofs` is about names, inodes and blocks, for any number of names,
contents, inodes and open files and any sizes of the partition and its blocks:

| theorem | statement |
|---|---|
| `DirectoryInvariant` | `OneProgram => (Spec => []DInv)` |
| `DirectoryNoPanic` | `[]NoPanic`: a program that closes what it unlinks reaches none of the PANICs of `inode.c` |
| `DirectoryDiskConsistent` | `[]DiskConsistent`: what the disk says between any two accesses is a file system |
| `DirectoryInodesNamed` | `[]InodesNamed`: between calls the inode bits set are those of the root and of the inodes with a name, and their blocks are marked and in no other |
| `DirectoryListingComplete` | `[]ListingComplete`: `ls` sees each name that stays, once |
| `DirectoryImplementsCatalog` | `ImplementsCatalog`: names and contents change as in `Catalog`, each call in one step |

(each with the hypothesis `OneProgram`). In the middle of a call an inode has
its bit and no name yet (`mine`), or its name and no bit any more (`dead`), a block
is marked and in no inode (`Extra`), and one inode in memory is ahead of the disk
(`Syncs`). `DInv` says for each place of a call which those are. `SyncInv` compares
each open inode with the disk, `RootInv` says that the root directory has no two
entries with one name or one inode, `BitsInv` that the bits are those of the entries
but for `mine` and `dead`, and `OwnInv` that the marked blocks are those of the
inodes and of `Extra`, each in one place. `MemInv` counts: no inode is in memory
twice, and `file_table` refers to it at most `i_open_cnts` times. `CallInv` has what
the locals of the call know, among it that a name has been looked for in the
entries before `off`, which is why creat makes no second entry, and `LsInv` what
the listing has passed. There are lemmas for the C functions that several calls end
in (`Close`, `inode_free`, the writing of an entry) and one per disk access.

The refinement maps a name to its contents where the call stands, in the inode on
disk or, between `inode_write` and `inode_sync`, in memory. `MapLemma` reads that off the
entry of the name, and `FrameStep` says that a step which leaves an entry, its inode's
bit and its block alone leaves the contents of the name. What remains for each access
is the one name it may change: creat adds it with the entry's size, unlink takes
it away with the bit, and a write replaces the contents with the block that is
stored or, for a file that was empty, with its size.

`OneProgram` is the hypothesis that one program changes files, `Procs = {prog}`,
while another lists the directory, which is also the instance of `directory`. It
leaves out calls of two processes on the file system at a time; `Inode` has those
for reads and writes of several files.

The proofs rest on the named assumptions of the modules. `SchedAssumption`,
`SyncAssumption`, `IoQueueAssumption`: idle is a task, every task has a time
slice, the boot order lists each task once, `NULL` is neither task nor
character, and the ring has at least two cells. `PipeAssumption`,
`KeyboardAssumption`: callers are tasks other than idle, `count` is at least 1,
what the keymap yields is a character, and `e0` is no key. `IdeAssumption`,
`ProcessAssumption`, `FilesAssumption`: main, init and idle are different tasks,
there are three pids at least, the tables have room for the standard
descriptors, and marks like `NULL` are not values of other kinds. `InodeAssumption`:
the sizes and counts are at least 1, and an inode is in its own sector.
`DirectoryAssumption`: a directory block has room for two entries, the memory for
every inode, and `NULL` and `"absent"` are no contents, handles or entries. TLC
evaluates them in the runs of the modules.

Left to TLC:

- liveness, since fairness and ENABLED are out of the prover's reach:
  `LockProgress` and its like in `Sync`, `HolderFinishes` of `Ide`, `ReaderServed`
  of `Keyboard`;
- `FramesOwned`, `BlocksApart`, `ArenasCounted` and `OnlyMemoryEnds` of `Memory`:
  fork, `get_pages` and the free lists are folds over pages and blocks, and what a
  fold computes needs an induction over data;
- `Directory` with two programs that change files at a time, which no run has
  either (see above).

## Findings

- `files_unlink`: unlinking a file that a process has open ends in the PANIC of
  `inode_free`, whose assertion is `i_open_cnts == 1` (`inode.c:302-308`).
  `sys_unlink` takes the inode away from the slots of `file_table`, but the
  opens they stood for stay counted. Two calls are enough: creat, unlink.

- `inode_tail`: a write that covers more than one block and ends on a block
  boundary does not store its last block. `block_end_off` is `(pos + count) %
  BLOCK_SIZE` (`inode.c:219`), 0 in that case, and `inode.c:246` copies that many
  bytes into the last block, yet `inode_write` returns `count`. `main.c:41` asserts
  of exactly such sizes (30720, 15360) that the whole file has been written.

- `memory_fork`: after a fork parent and child share the free lists of the heap.
  The arenas are copied with the pages, and their `desc` still points into the
  parent's PCB (`fork.c:12-30` moves only the bitmap and the empty lists). A
  block that both held can then be freed by both, and the second one finds it in
  the list: `ASSERT(!elem_find(...))` of `memory.c:311` fails.

Seen while modelling, listed as hazards and not as runs, since no line of the
code states the opposite: a slot shared after fork is emptied by the first close
(`file.c:72-73`); `mtime_sleep` in a system call never ends when no other task
can run (`timer.c:35`); the double sleep in `ioqueue.c:40-42`; `free_pages`
leaves the physical page marked as used (`memory.c:186`); fork goes on when
`get_pages` has returned NULL (`fork.c:72`, `86`), and faults in the copy; a fork
after an allocation that failed half way faults (`memory.c:150-158`,
`fork.c:80-83`); `sys_pipe` without a slot or without descriptors
(`pipe.c:13-25`); redirected descriptors are not counted (`pipe.c:62-70`);
`release_pid` of the pid 0 that `alloc_pid` gives out when none is left
(`thread.c:67`, `74`); `inode_free` keeps the indirect block (`inode.c:295`); an exec
that fails half way has given back the old program already (`exec.c:91`); two inodes in one
sector of the inode table overwrite each other (`inode.c:34-37`); a child adopted by init
after its exit is not collected until another child of init exits.

## What is not modelled

- Paths of several directories: nothing in the sources creates a directory, so
  every name is looked up in the root. `search_file` is modelled for one name.
- The position in a file (`fd_pos`, `lseek`), and with it `lseek` on a pipe, which
  sets the pipe's count (`fs.c:215`), and the -1 that a failed read or write adds
  to the position (`fs.c:157`, `186`). `Inode` starts requests at positions from 0
  to the size.
- The buffer of an `inode_write` that fails for lack of blocks, which is not
  freed (`inode.c:206-210`, `225-229`): kernel memory is not part of `Inode`.
- The bits of the block bitmap beyond the partition: `sb_init` sizes the
  bitmap by all sectors, the tables before the data included (`fs.c:297`), so the code goes on allocating past the end
  where `Inode` and `Directory` say the partition is full.
- Stacks, `switch_to`, the entry code and the PIC: their effect is the atomicity
  assumed above.
- The start-up of the disk driver: it runs once, before there is anybody to
  interleave with. That of the file system is the initial state of `Directory`.
- ELF headers and arguments of a program; the shell's parser.
- Console, printing, strings, games and commands: text.

## Plan

Done: `Sched`, `Sync` and `LockSpec`, `IoQueue`, `CharFifo`, `Pipe` and `Keyboard`, with
their proofs; `Ide`, `Process`, `Files`, `Inode` and `Directory` with theirs, and `Catalog`;
`Paging`, `Memory`. Left, most important first:

1. `Pipeline`: the calls of the shell for `a | b` over `Pipe` and `Process`.
2. A proof of `FramesOwned`, with the folds of `Paging` replaced by what they
   yield in closed form.
3. `Directory` over the descriptors of `Files`, with positions.
