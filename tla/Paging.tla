------------------------------- MODULE Paging -------------------------------
(***************************************************************************)
(* Physical and virtual memory, kernel/memory.c and lib/kernel/bitmap.c:   *)
(* the bitmap of physical frames, the page tables of each process and the  *)
(* bitmap of its pool of virtual pages, as operators on one record         *)
(*                                                                         *)
(*   phy    the frames whose bit is set in phy_pool                        *)
(*   pool   for each process the pages whose bit is set in u_v_pool        *)
(*   map    for each process and page the frame, or NoFrame                *)
(*   tab    for each process and page table the frame, or NoFrame          *)
(*   pcb, pml4  the frames of each process's task_struct and top table     *)
(*   panic  the reason the machine has stopped for, or "no"                *)
(*                                                                         *)
(* A process has two regions, the pool and the user stack, far apart.  On  *)
(* the way from the pml4 to a page there are Levels tables, three in the   *)
(* code: a pdpt, a directory and a table of PerTable (512) pages.  The     *)
(* pages of the pool share all but the last.  The kernel's own pool        *)
(* k_v_pool always has virtual pages and page tables, so a page of it is a *)
(* frame.                                                                  *)
(***************************************************************************)
EXTENDS Integers, FiniteSets, SequencesExt

CONSTANTS
  Procs,
  NFrames,    \* frames of physical memory
  NPages,     \* virtual pages in a pool (2048 in the code)
  StackPages, \* STACK_PAGE_CNT
  Levels,     \* tables on the way to a page, below the pml4
  PerTable    \* pages in a table (512)

ASSUME PagingAssumption ==
  /\ NFrames \in Nat /\ NPages \in Nat \ {0}
  /\ StackPages \in Nat \ {0}
  /\ Levels \in Nat \ {0} /\ PerTable \in Nat \ {0}

Frames == 0..NFrames - 1
NoFrame == -1

Pool == 0..NPages - 1
Stack == NPages..NPages + StackPages - 1
Pages == Pool \cup Stack

\* The tables on the way to page v, from the pdpt on.  The pool begins at the
\* second page of its first table, USER_VADDR_START.
Way(v) ==
  IF v \in Stack THEN [i \in 1..Levels |-> <<"stack", i, 0>>]
  ELSE [i \in 1..Levels |-> <<"pool", i, IF i < Levels THEN 0 ELSE (v + 1) \div PerTable>>]

PoolTables == UNION {ToSet(Way(v)) : v \in Pool}

Tables == PoolTables \cup ToSet(Way(NPages))

NoTables == [t \in Tables |-> NoFrame]

\* map_stat: those that are not there.
Missing(m, p, v) == SelectSeq(Way(v), LAMBDA t : m.tab[p][t] = NoFrame)

Mapped(m, p, v) == m.map[p][v] # NoFrame

\* The first ASSERT that fails, or the first fault, is the last thing.
Stop(m, why) == [m EXCEPT !.panic = IF @ = "no" THEN why ELSE @]

Clear(m) == Frames \ m.phy

\* The n lowest frames whose bit is clear, or all there are.
LowestClear(m, n) == {f \in Clear(m) : Cardinality({g \in Clear(m) : g < f}) < n}

\* The numbers of a set from the least to the greatest.
InOrder(S) ==
  [i \in 1..Cardinality(S) |->
     CHOOSE x \in S : Cardinality({y \in S : y < x}) = i - 1]

\* palloc, n times: bitmap_alloc_a_bit takes the first bit that is clear.
palloc(m, n) == [m EXCEPT !.phy = @ \cup LowestClear(m, n)]

-----------------------------------------------------------------------------
(* Mapping and unmapping *)

\* The tables that are missing are taken first; ASSERT(pg_paddr != NULL).
page_map(m, p, v, f) ==
  LET missing == Missing(m, p, v)
      n == Len(missing)
      new == InOrder(LowestClear(m, n))
  IN  IF Mapped(m, p, v) THEN Stop(m, "stat != 4")
      ELSE IF Len(new) < n THEN Stop(palloc(m, n), "memory")
      ELSE [palloc(m, n) EXCEPT
              !.map[p][v] = f,
              !.tab[p] = [t \in Tables |-> IF Contains(missing, t)
                                            THEN new[SelectInSeq(missing, LAMBDA x : x = t)]
                                            ELSE @[t]]]

\* A page gets a frame, if there is one.
MapPage(m, p, v) ==
  LET new == LowestClear(m, 1)
  IN  IF new = {} THEN m
      ELSE page_map(palloc(m, 1), p, v, CHOOSE f \in new : TRUE)

\* get_pages: pages v..v+n-1 in order, until there is no frame.
get_pages(m, p, v, n) ==
  FoldLeftDomain(LAMBDA a, i : IF a.panic # "no" THEN a
                               ELSE MapPage(a, p, v + i - 1),
                 m, [i \in 1..n |-> i])

\* Whether get_pages or alloc_pages did not return NULL.
Got(m, p, v, n) == \A w \in v..v + n - 1 : Mapped(m, p, w)

\* bitmap_alloc looks at the first page that is clear, and with n - 1 clear
\* bits behind it, which it does not stop at the end of the bitmap for.
Fits(m, p, v, n) ==
  v \in Pool /\ \A w \in v..v + n - 1 : w \notin m.pool[p]

FirstFit(m, p, n) ==
  CHOOSE v \in Pool : Fits(m, p, v, n)
                      /\ \A w \in Pool : Fits(m, p, w, n) => v <= w

\* Bound: no request whose first fit reaches beyond the pool.
InPool(m, p, n) ==
  (\E v \in Pool : Fits(m, p, v, n)) => FirstFit(m, p, n) + n <= NPages

\* vpool_alloc finds nothing.
PoolFull(m, p, n) == ~\E v \in Pool : Fits(m, p, v, n)

\* alloc_pages(&u_v_pool, n), which has room: the bits are set first, and stay
\* when there are not enough frames.
alloc_pages(m, p, n) ==
  LET v == FirstFit(m, p, n)
  IN  get_pages([m EXCEPT !.pool[p] = @ \cup v..v + n - 1], p, v, n)

\* free_pages of user pages: the mapping goes, but the bit of the frame is set
\* to 1 once more (memory.c:186), so the frame is lost.
free_pages(m, p, v, n) ==
  LET vs == v..v + n - 1
  IN  IF \E w \in vs : ~Mapped(m, p, w) THEN Stop(m, "*pte & 1")
      ELSE IF \E w \in vs : w \notin m.pool[p] THEN Stop(m, "bitmap_read")
      ELSE [m EXCEPT !.phy = @ \cup {m.map[p][w] : w \in vs},
                     !.pool[p] = @ \ vs,
                     !.map[p] = [w \in Pages |-> IF w \in vs THEN NoFrame ELSE @[w]]]

\* Mutant of release_prog_mem: the pml4 is released too, while it is in cr3.
Mut_release_prog_mem(m, p) ==
  LET used == {v \in Pool : Mapped(m, p, v)}
      tables == {m.tab[p][t] : t \in PoolTables} \ {NoFrame}
  IN  IF ~used \subseteq m.pool[p] THEN Stop(m, "bitmap_read")
      ELSE [m EXCEPT !.phy = (@ \cup {m.map[p][v] : v \in used})
                             \ (tables \cup {m.pml4[p]}),
                     !.pool[p] = @ \ used,
                     !.map[p] = [v \in Pages |-> IF v \in Pool THEN NoFrame ELSE @[v]]]

\* release_prog_mem goes through the pages of the pool: each that is mapped is
\* freed, and the bits of the tables that there are on the way to it, mapped or
\* not, are cleared.  The stack, its tables and the entries of all tables stay.
release_prog_mem(m, p) ==
  LET used == {v \in Pool : Mapped(m, p, v)}
      tables == {m.tab[p][t] : t \in PoolTables} \ {NoFrame}
  IN  IF ~used \subseteq m.pool[p] THEN Stop(m, "bitmap_read")
      ELSE [m EXCEPT !.phy = (@ \cup {m.map[p][v] : v \in used}) \ tables,
                     !.pool[p] = @ \ used,
                     !.map[p] = [v \in Pages |-> IF v \in Pool THEN NoFrame ELSE @[v]]]

-----------------------------------------------------------------------------
(* The memory of a new process *)

TheFrame(m) == CHOOSE f \in LowestClear(m, 1) : TRUE

\* One page of k_v_pool, of which the caller has checked that there is one.
NewPcb(m, q) == [palloc(m, 1) EXCEPT !.pcb[q] = TheFrame(m)]

\* create_pml4: a new address space, empty but for the kernel's half.
create_pml4(m, q) ==
  [palloc(m, 1) EXCEPT !.pml4[q] = TheFrame(m),
                       !.map[q] = [v \in Pages |-> NoFrame],
                       !.tab[q] = NoTables]

\* Nothing of a process that is gone: it has no cr3 any more.
Vacate(m, q) ==
  [m EXCEPT !.map[q] = [v \in Pages |-> NoFrame], !.tab[q] = NoTables,
            !.pcb[q] = NoFrame, !.pml4[q] = NoFrame]

\* One turn of the loop of copy_body_stack: the page is read in the parent,
\* whose bit may be set without a page behind it, and written in the child,
\* which get_pages may not have mapped.
CopyPage(m, p, q, v) ==
  IF ~Mapped(m, p, v) THEN Stop(m, "unmapped")
  ELSE LET n == get_pages(m, q, v, 1)
       IN  IF Mapped(n, q, v) THEN n ELSE Stop(n, "memory")

CopyPages(m, p, q, vs) ==
  FoldLeft(LAMBDA a, v : IF a.panic # "no" THEN a ELSE CopyPage(a, p, q, v),
           m, vs)

\* copy_body_stack: the stack, then each page whose bit is set.
copy_body_stack(m, p, q) ==
  CopyPages(m, p, q, InOrder(Stack) \o InOrder(m.pool[q]))

\* sys_fork and copy_process: a page for the PCB, StackPages for buf_page, one
\* for the pml4, one for tmp_stack.  When one is missing fork returns -1 and
\* gives back nothing.  free_pages sets the bits of buf_page and tmp_stack
\* that are set already.
ForkPages == StackPages + 3

ForkMemory(m, p, q) ==
  IF Cardinality(Clear(m)) < ForkPages THEN palloc(m, ForkPages)
  ELSE LET a == palloc(NewPcb(m, q), StackPages)
           b == create_pml4([a EXCEPT !.pool[q] = m.pool[p]], q)
       IN  copy_body_stack(palloc(b, 1), p, q)
=============================================================================
