------------------------------- MODULE Memory -------------------------------
(***************************************************************************)
(* The memory of user processes: malloc, free, fork, exec, exit and wait   *)
(* on top of module Paging.  No call below sleeps while memory changes, and *)
(* interrupts are off in a system call, so each call is one step; only     *)
(* exec reads the disk between two segments.                               *)
(*                                                                         *)
(* The heap is modelled down to its pointers.  list holds, in each PCB and *)
(* for each block size, the two pointers of a free_list that matter        *)
(* (head.next and tail.prev); blk and arena hold what each process has in  *)
(* its own pages.  An address is                                           *)
(*   <<"h", p, d>>, <<"t", p, d>>  head and tail of a list: kernel memory,  *)
(*                                 the same for everybody                  *)
(*   <<"b", v, i>>                 block i of page v: every process has its *)
(*                                 own                                     *)
(* live is the history of the calls: the blocks and areas a program holds. *)
(*                                                                         *)
(* HeapKept lets a process fork when it holds small blocks or has free     *)
(* ones: copy_pcb copies the heads of the lists with the PCB.              *)
(***************************************************************************)
EXTENDS Paging

CONSTANTS
  root,      \* the process that is there at boot, and never exits
  Descs,     \* the block sizes, 0..DESC_CNT - 1
  blocks_per_arena,
  Sizes,     \* pages of the requests above 1024 bytes
  ImageBase, \* first page of programs, which ld puts at 0x400000 (1023)
  MaxImage,  \* pages of the largest program
  MaxLive,   \* bound on what a program holds
  Programs,  \* bound: the processes that exec and ask for small blocks
  HeapKept,
  NULL

ImagePages == ImageBase..ImageBase + MaxImage - 1

ASSUME MemoryAssumption ==
  /\ root \in Procs
  /\ blocks_per_arena \in [Descs -> Nat \ {0}]
  /\ Sizes \subseteq Nat \ {0} /\ ImagePages \subseteq Pool
  /\ MaxLive \in Nat /\ Programs \subseteq Procs /\ HeapKept \in BOOLEAN

VARIABLES
  mem,    \* the record of module Paging
  list, blk, arena,
  stat,   \* "none", "run", "exec" (in segment_load), "hang"
  image,  \* pages of the program
  live

vars == <<mem, list, blk, arena, stat, image, live>>

heap == [list |-> list, blk |-> blk, arena |-> arena]

\* Blocks of a page.
Slots(d) == 0..blocks_per_arena[d] - 1

AllSlots == UNION {Slots(d) : d \in Descs}

Blocks == {<<"b", v, i>> : v \in Pool, i \in AllSlots}

H(p, d) == <<"h", p, d>>
T(p, d) == <<"t", p, d>>

NewList(p, d) == [next |-> T(p, d), prev |-> H(p, d)]

\* What nobody has written.
Garbage == [prev |-> NULL, next |-> NULL]
NoArena == [cnt |-> 0, desc |-> NULL]

TypeOK ==
  /\ mem.phy \subseteq Frames
  /\ mem.pool \in [Procs -> SUBSET Pool]
  /\ mem.map \in [Procs -> [Pages -> Frames \cup {NoFrame}]]
  /\ stat \in [Procs -> {"none", "run", "exec", "hang"}]
  /\ image \in [Procs -> SUBSET Pool]
  /\ live \in [Procs -> SUBSET Blocks]
  /\ DOMAIN list = Procs /\ DOMAIN arena = Procs /\ DOMAIN blk = Procs

-----------------------------------------------------------------------------
(* list.c, on the memory of process p *)

SetNext(h, p, a, x) ==
  IF a[1] = "h" THEN [h EXCEPT !.list[a[2]][a[3]].next = x]
                ELSE [h EXCEPT !.blk[p][a].next = x]

SetPrev(h, p, a, x) ==
  IF a[1] = "t" THEN [h EXCEPT !.list[a[2]][a[3]].prev = x]
                ELSE [h EXCEPT !.blk[p][a].prev = x]

\* list_append(&list[o][d], b): list_insert before the tail.
list_append(h, p, o, d, b) ==
  LET last == h.list[o][d].prev
      g == [h EXCEPT !.blk[p][b] = [prev |-> last, next |-> T(o, d)]]
  IN  SetPrev(SetNext(g, p, last, b), p, T(o, d), b)

list_remove(h, p, b) ==
  LET e == h.blk[p][b]
      g == SetNext(h, p, e.prev, e.next)
  IN  SetPrev(g, p, g.blk[p][b].next, g.blk[p][b].prev)

\* What list_remove follows in a block that is in no list, here or in this
\* process, are no pointers.
Linked(h, p, b) ==
  b \in Blocks /\ h.blk[p][b].prev # NULL /\ h.blk[p][b].next # NULL

list_empty(h, o, d) == h.list[o][d].next = T(o, d)

\* What is found from a on, by the next pointers in p's memory.
RECURSIVE Chain(_, _, _, _)
Chain(h, p, a, seen) ==
  IF a \in seen THEN seen
  ELSE IF a \notin Blocks THEN seen \cup {a}
  ELSE Chain(h, p, h.blk[p][a].next, seen \cup {a})

Walk(h, p, o, d) == Chain(h, p, h.list[o][d].next, {})

elem_find(h, p, o, d, b) == b \in Walk(h, p, o, d)

-----------------------------------------------------------------------------
(* sys_malloc and sys_free *)

SetHeap(h) == list' = h.list /\ blk' = h.blk /\ arena' = h.arena

\* What was in a page that has no frame any more is not seen again.
Forget(h, p, vs) ==
  [h EXCEPT !.blk[p] = [b \in Blocks |-> IF b[2] \in vs THEN Garbage ELSE @[b]],
            !.arena[p] = [v \in Pool |-> IF v \in vs THEN NoArena ELSE @[v]]]

\* The loop of create_free_blocks.
NewArena(h, p, d, v) ==
  LET g == [h EXCEPT !.arena[p][v] = [cnt |-> blocks_per_arena[d],
                                      desc |-> <<p, d>>]]
  IN  FoldLeftDomain(LAMBDA a, i : list_append(a, p, p, d, <<"b", v, i - 1>>),
                     g, [i \in 1..blocks_per_arena[d] |-> i])

\* Mutant of Take: the block is looked at and stays in the list.
Mut_Take(p, d, m, h) ==
  LET b == h.list[p][d].next
  IN  /\ mem' = m
      /\ SetHeap([h EXCEPT !.arena[p][b[2]].cnt = @ - 1])
      /\ live' = [live EXCEPT ![p] = @ \cup {b}]

\* list_pop; the program that gets the block writes in it.
Take(p, d, m, h) ==
  LET b == h.list[p][d].next
      g == list_remove(h, p, b)
  IN  IF Linked(h, p, b)
        THEN /\ mem' = m
             /\ SetHeap([g EXCEPT !.arena[p][b[2]].cnt = @ - 1,
                                  !.blk[p][b] = Garbage])
             /\ live' = [live EXCEPT ![p] = @ \cup {b}]
        ELSE mem' = Stop(m, "fault") /\ UNCHANGED <<list, blk, arena, live>>

\* sys_malloc, of at most 1024 bytes.  create_free_blocks asserts that it got
\* a page.
MallocSmall(p, d) ==
  /\ InPool(mem, p, 1)
  /\ \/ /\ ~list_empty(heap, p, d)
        /\ Take(p, d, mem, heap)
     \/ /\ list_empty(heap, p, d) /\ PoolFull(mem, p, 1)
        /\ mem' = Stop(mem, "memory")
        /\ UNCHANGED <<list, blk, arena, live>>
     \/ /\ list_empty(heap, p, d) /\ ~PoolFull(mem, p, 1)
        /\ LET v == FirstFit(mem, p, 1)
               m == alloc_pages(mem, p, 1)
           IN  IF Got(m, p, v, 1) /\ m.panic = "no"
                 THEN Take(p, d, m, NewArena(heap, p, d, v))
                 ELSE /\ mem' = Stop(m, "memory")
                      /\ UNCHANGED <<list, blk, arena, live>>
  /\ UNCHANGED <<stat, image>>

\* sys_malloc, of more than 1024 bytes: n pages, the header among them.  It
\* returns NULL when there is no room.
MallocLarge(p, n) ==
  /\ InPool(mem, p, n)
  /\ ~PoolFull(mem, p, n)
  /\ LET v == FirstFit(mem, p, n)
         m == alloc_pages(mem, p, n)
     IN  /\ mem' = m
         /\ IF Got(m, p, v, n)
              THEN /\ arena' = [arena EXCEPT ![p][v] = [cnt |-> n, desc |-> NULL]]
                   /\ live' = [live EXCEPT ![p] = @ \cup {<<"b", v, 0>>}]
              ELSE UNCHANGED <<arena, live>>
  /\ UNCHANGED <<list, blk, stat, image>>

sys_malloc(p) ==
  /\ stat[p] = "run" /\ Cardinality(live[p]) < MaxLive
  /\ \/ p \in Programs /\ \E d \in Descs : MallocSmall(p, d)
     \/ \E n \in Sizes : MallocLarge(p, n)

\* The last block of an arena is free: its blocks leave the list, and its page
\* goes.
Retire(p, o, d, v, h) ==
  LET bs == [i \in 1..blocks_per_arena[d] |-> <<"b", v, i - 1>>]
  IN  IF \E i \in DOMAIN bs : ~elem_find(h, p, o, d, bs[i])
        THEN [m |-> Stop(mem, "elem_find"), h |-> h]
      ELSE IF \E i \in DOMAIN bs : ~Linked(h, p, bs[i])
        THEN [m |-> Stop(mem, "fault"), h |-> h]
      ELSE [m |-> free_pages(mem, p, v, 1),
            h |-> Forget(FoldLeft(LAMBDA a, b : list_remove(a, p, b), h, bs), p, {v})]

\* Mutant of FreeSmall: the count of the arena is left as it is.
Mut_FreeSmall(p, b, o, d) ==
  /\ mem' = mem
  /\ SetHeap(list_append(heap, p, o, d, b))

\* list_append to the list that the arena of the block points to, with
\* ASSERT(!elem_find(...)).
FreeSmall(p, b, o, d) ==
  LET v == b[2]
      h == [list_append(heap, p, o, d, b) EXCEPT !.arena[p][v].cnt = @ + 1]
  IN  IF elem_find(heap, p, o, d, b)
        THEN mem' = Stop(mem, "!elem_find") /\ UNCHANGED <<list, blk, arena>>
      ELSE IF h.arena[p][v].cnt = blocks_per_arena[d]
        THEN LET r == Retire(p, o, d, v, h)
             IN  mem' = r.m /\ SetHeap(r.h)
      ELSE mem' = mem /\ SetHeap(h)

\* sys_free, of something the program holds.
sys_free(p, b) ==
  LET a == arena[p][b[2]]
  IN  /\ stat[p] = "run" /\ b \in live[p]
      /\ IF a.desc = NULL
           THEN /\ mem' = free_pages(mem, p, b[2], a.cnt)
                /\ SetHeap(Forget(heap, p, b[2]..b[2] + a.cnt - 1))
           ELSE FreeSmall(p, b, a.desc[1], a.desc[2])
      /\ live' = [live EXCEPT ![p] = @ \ {b}]
      /\ UNCHANGED <<stat, image>>

-----------------------------------------------------------------------------
(* Processes *)

\* Bound: see HeapKept above.
MayKeep(p) ==
  HeapKept \/ /\ \A d \in Descs : list_empty(heap, p, d)
              /\ \A b \in live[p] : arena[p][b[2]].desc = NULL

\* Bound: the heap, which grows from the first page, has not reached the pages
\* that a larger program needs.
Apart(p, vs) == vs \cap mem.pool[p] \subseteq image[p]

\* The heads of the lists come with the PCB; one that is empty is made anew,
\* as an empty list points to itself.
copy_pcb(p, q) ==
  [d \in Descs |-> IF list_empty(heap, p, d) THEN NewList(q, d) ELSE list[p][d]]

sys_fork(p, q) ==
  /\ stat[p] = "run" /\ stat[q] = "none"
  /\ MayKeep(p)
  /\ mem' = ForkMemory(mem, p, q)
  /\ IF Cardinality(Clear(mem)) < ForkPages
       THEN UNCHANGED <<list, blk, arena, stat, image, live>>
       ELSE /\ list' = [list EXCEPT ![q] = copy_pcb(p, q)]
            /\ blk' = [blk EXCEPT ![q] = blk[p]]
            /\ arena' = [arena EXCEPT ![q] = arena[p]]
            /\ stat' = [stat EXCEPT ![q] = "run"]
            /\ image' = [image EXCEPT ![q] = image[p]]
            /\ live' = [live EXCEPT ![q] = live[p]]

\* Mutant of LoadPage: the bit is not set.
Mut_LoadPage(m, p, v) ==
  IF m.panic # "no" \/ Mapped(m, p, v) THEN m ELSE get_pages(m, p, v, 1)

\* One turn of the loop of segment_load.
LoadPage(m, p, v) ==
  IF m.panic # "no" \/ Mapped(m, p, v) THEN m
  ELSE LET n == get_pages(m, p, v, 1)
       IN  IF Mapped(n, p, v) THEN [n EXCEPT !.pool[p] = @ \cup {v}] ELSE n

\* segment_load, of pages v..v+n-1: those without a frame get one, and sys_read
\* overwrites them.  The old program is gone with the first; when a later one
\* fails exec returns -1 all the same.
segment_load(p, v, n) ==
  LET vs == v..v + n - 1
      m == FoldLeft(LAMBDA a, w : LoadPage(a, p, w), mem, InOrder(vs))
  IN  /\ p \in Programs /\ stat[p] \in {"run", "exec"}
      /\ vs \subseteq ImagePages
      /\ Apart(p, vs)
      /\ mem' = m
      /\ live' = [live EXCEPT ![p] = {}]
      /\ image' = [image EXCEPT ![p] = @ \cup {w \in vs : Mapped(m, p, w)}]
      /\ stat' = [stat EXCEPT ![p] = IF Got(m, p, v, n) THEN "exec" ELSE "run"]
      /\ UNCHANGED <<list, blk, arena>>

\* The end of sys_execv: the program starts.  The lists in the PCB stay.
sys_execv(p) ==
  /\ stat[p] = "exec"
  /\ stat' = [stat EXCEPT ![p] = "run"]
  /\ UNCHANGED <<mem, list, blk, arena, image, live>>

\* sys_exit, which goes on in release_prog_mem and ends in TASK_HANGING.
sys_exit(p) ==
  /\ stat[p] = "run" /\ p # root
  /\ mem' = release_prog_mem(mem, p)
  /\ stat' = [stat EXCEPT ![p] = "hang"]
  /\ image' = [image EXCEPT ![p] = {}]
  /\ live' = [live EXCEPT ![p] = {}]
  /\ SetHeap(Forget(heap, p, Pool))

\* sys_wait finds q hanging, and thread_exit frees its pml4 and its PCB: pages
\* of k_v_pool, whose frames keep their bits.
sys_wait(q) ==
  /\ stat[q] = "hang" /\ \E p \in Procs : stat[p] = "run"
  /\ mem' = [Vacate(mem, q) EXCEPT !.phy = @ \cup {mem.pml4[q], mem.pcb[q]}]
  /\ list' = [list EXCEPT ![q] = [d \in Descs |-> NewList(q, d)]]
  /\ stat' = [stat EXCEPT ![q] = "none"]
  /\ UNCHANGED <<blk, arena, image, live>>

-----------------------------------------------------------------------------

Empty == [phy |-> {}, panic |-> "no",
          pool |-> [p \in Procs |-> {}],
          map |-> [p \in Procs |-> [v \in Pages |-> NoFrame]],
          tab |-> [p \in Procs |-> NoTables],
          pcb |-> [p \in Procs |-> NoFrame],
          pml4 |-> [p \in Procs |-> NoFrame]]

\* process_execute and start_process: the stack of the first process; then it
\* loads its program, of one page.
Booted ==
  LET m == get_pages(create_pml4(NewPcb(Empty, root), root), root, NPages, StackPages)
  IN  LoadPage(m, root, ImageBase)

Init ==
  /\ mem = Booted
  /\ list = [p \in Procs |-> [d \in Descs |-> NewList(p, d)]]
  /\ blk = [p \in Procs |-> [b \in Blocks |-> Garbage]]
  /\ arena = [p \in Procs |-> [v \in Pool |-> NoArena]]
  /\ stat = [p \in Procs |-> IF p = root THEN "run" ELSE "none"]
  /\ image = [p \in Procs |-> IF p = root THEN {ImageBase} ELSE {}]
  /\ live = [p \in Procs |-> {}]

Step(p) ==
  \/ sys_malloc(p)
  \/ \E b \in live[p] : sys_free(p, b)
  \/ \E q \in Procs : sys_fork(p, q)
  \/ \E v \in ImagePages, n \in 1..MaxImage : segment_load(p, v, n)
  \/ sys_execv(p) \/ sys_exit(p) \/ sys_wait(p)

Next == mem.panic = "no" /\ \E p \in Procs : Step(p)

Spec == Init /\ [][Next]_vars

-----------------------------------------------------------------------------
(* Properties *)

\* Nothing is said of a machine that has stopped.
Running == IF mem.panic = "no" THEN {p \in Procs : stat[p] \in {"run", "exec"}}
                               ELSE {}

\* The page tables, in the order of the first page behind them.
TableOrder ==
  FoldLeft(LAMBDA s, v : s \o SelectSeq(Way(v), LAMBDA t : ~Contains(s, t)),
           <<>>, InOrder(Pages))

\* Frames of a process: pages and tables while it runs, PCB and pml4 until it
\* has been waited for.  A sequence, as no frame may be in it twice.
FramesOf(p) ==
  (IF stat[p] = "none" THEN <<>> ELSE <<mem.pcb[p], mem.pml4[p]>>)
  \o IF p \notin Running THEN <<>>
     ELSE SelectSeq([i \in DOMAIN TableOrder |-> mem.tab[p][TableOrder[i]]]
                    \o [v \in 1..NPages + StackPages |-> mem.map[p][v - 1]],
                    LAMBDA f : f # NoFrame)

\* A frame has one use: a page of one process, a table, a PCB or a pml4; and
\* its bit is set, so that palloc does not hand it out again, through forks
\* that fail half way, exits that release tables and programs that are loaded
\* over others (memory.c:186, 227).
FramesOwned == mem.panic = "no" =>
  /\ \A p \in Procs : IsInjective(FramesOf(p)) /\ ToSet(FramesOf(p)) \subseteq mem.phy
  /\ \A p, q \in Procs : p # q => ToSet(FramesOf(p)) \cap ToSet(FramesOf(q)) = {}

\* The pages of the area or arena that b is in.
Area(p, b) == LET a == arena[p][b[2]]
              IN  IF a.desc = NULL THEN b[2]..b[2] + a.cnt - 1 ELSE {b[2]}

Large(p, b) == arena[p][b[2]].desc = NULL

\* What malloc has handed out and not been given back is apart from everything
\* else: it is mapped and marked in the pool, not in the program, not in a free
\* list, and overlaps nothing else that is live (memory.c:259-325).
BlocksApart ==
  \A p \in Running : \A b \in live[p] :
    /\ \A v \in Area(p, b) : Mapped(mem, p, v) /\ v \in mem.pool[p] \ image[p]
    /\ \A d \in Descs : ~elem_find(heap, p, p, d, b)
    /\ \A c \in live[p] \ {b} :
         Area(p, b) \cap Area(p, c) = {} \/ ~(Large(p, b) \/ Large(p, c))

\* cnt counts the blocks of an arena that are in the free list of its size, an
\* arena all of whose blocks are free is given back, and no block of a page
\* that is gone stays behind in a list (memory.c:291, 313-321).
ArenasCounted ==
  \A p \in Running, d \in Descs :
    LET free == Walk(heap, p, p, d) \cap Blocks
    IN  /\ \A b \in free : arena[p][b[2]].desc = <<p, d>>
        /\ \A v \in Pool : arena[p][v].desc = <<p, d>> =>
             /\ Mapped(mem, p, v)
             /\ arena[p][v].cnt = Cardinality({b \in free : b[2] = v})
             /\ arena[p][v].cnt < blocks_per_arena[d]

\* alloc_pages has not got all the pages it has marked.
HalfMade(p) == \E v \in mem.pool[p] : ~Mapped(mem, p, v)

\* Only the want of memory stops the machine: when every frame is taken or the
\* pool of a process is full, or later, with frames free again, when a process
\* forks whose alloc_pages has failed half way, as fork copies every page whose
\* bit is set (memory.c:150-158, fork.c:80-83).  The ASSERTs of memory.c and
\* bitmap.c about pages that are freed, pages that are mapped and blocks in a
\* list hold, and nothing else follows a pointer to nowhere.
OnlyMemoryEnds ==
  /\ mem.panic \in {"no", "memory", "unmapped"}
  /\ mem.panic = "memory" => Clear(mem) = {} \/ \E p \in Procs : PoolFull(mem, p, 1)
  /\ mem.panic = "unmapped" => \E p \in Procs : HalfMade(p)

\* ASSERT(!elem_find(&a->desc->free_list, &b->free_elem)) (memory.c:311): a
\* block that a program holds is not in a free list when it is freed.
FreeAssertHolds == mem.panic # "!elem_find"
=============================================================================
