---------------------------- MODULE ProcessProofs ----------------------------
(***************************************************************************)
(* fork, wait and exit for any number of processes: no ASSERT fails, the   *)
(* lists agree with the states, and, as long as no fork is left without a  *)
(* pid, the pid 0 is never released, every process has one parent to       *)
(* report to and no exit is missed.                                        *)
(*                                                                         *)
(* PInv does not say that pids are unique, and does not need it: the first *)
(* two results also hold when alloc_pid has none left and gives out 0.     *)
(***************************************************************************)
EXTENDS Process, SchedProofs, SequenceTheorems, FiniteSetTheorems,
        WellFoundedInduction

\* The places in the code a task may be at.
Places == {"disk", "unblock", "exit", "start", "armed", "user", "wait", "gone",
           "loop", "sti", "hlt"}

UserTasks == Tasks \ Special

\* What main and init are doing while the kernel boots.
Booting == pc[main_thread] \in {"disk", "unblock"}

SchedInv == Consistent(sched) /\ IdleOK(sched) /\ ~sched.panic

ListInv ==
  /\ NoDup(all_threads_list)
  /\ \A t \in Tasks : sched.stat[t] = "DIED" <=> t \notin Listed

PcInv ==
  /\ pc[main_thread] \in {"disk", "unblock", "exit", "gone"}
  /\ pc[init_proc] \in {"start", "armed", "user", "wait"}
  /\ pc[idle_thread] \in {"loop", "sti", "hlt"}
  /\ \A t \in UserTasks : pc[t] \in {"user", "wait", "gone"}

\* The state each task may sleep in, by the place its code is at.
SleepInv ==
  /\ sched.stat[main_thread] \notin {"HANGING", "WAITING"}
  /\ sched.stat[main_thread] = "DIED" <=> pc[main_thread] = "gone"
  /\ sched.stat[main_thread] = "BLOCKED" => Booting
  /\ sched.stat[init_proc] \notin {"HANGING", "DIED"}
  /\ sched.stat[init_proc] = "WAITING" => pc[init_proc] = "wait"
  /\ sched.stat[init_proc] = "BLOCKED" <=> pc[init_proc] = "armed" /\ Booting
  /\ \A t \in UserTasks :
       /\ sched.stat[t] # "BLOCKED"
       /\ sched.stat[t] = "WAITING" => pc[t] = "wait"
       /\ pc[t] = "gone" <=> sched.stat[t] = "HANGING" \/ sched.stat[t] = "DIED"

\* init is at the front of the queue until it has blocked itself.
BootInv ==
  /\ Booting => pc[init_proc] \in {"start", "armed"}
  /\ pc[init_proc] = "start" =>
       /\ Booting
       /\ \/ sched.cur = init_proc
          \/ /\ sched.cur = main_thread /\ pc[main_thread] = "disk"
             /\ sched.ready # <<>> /\ Head(sched.ready) = init_proc

\* The process a child's exit is reported to is there and has not exited.
ParentInv ==
  /\ pid[init_proc] = 1
  /\ \A t \in Procs \ {init_proc} :
       \E p \in Procs : pid[p] = parent_pid[t] /\ sched.stat[p] # "HANGING"

PInv == /\ TypeOK /\ SchedInv /\ ListInv /\ PcInv /\ SleepInv /\ BootInv
        /\ ParentInv

\* A fork that gets a page for the PCB gets a pid.
PidLeft == FreePCB # {} => pid_pool # 1..MaxPid

PidInv == PidsUnique /\ parent_pid[main_thread] = 0

CountInv ==
  /\ leaked \cap (Listed \cup Special) = {}
  /\ Cardinality(pid_pool) <= Cardinality(Listed \cup leaked)

-----------------------------------------------------------------------------
(* Lists and pids *)

\* A set of numbers that is not empty has a least element.
LEMMA LeastLemma ==
  ASSUME NEW S, S \subseteq Nat, S # {}
  PROVE  \E x \in S : \A y \in S : x <= y
<1>1. PICK x \in S : \A y \in S : <<y, x>> \notin OpToRel(<, Nat)
  BY NatLessThanWellFounded, WFMin, Zenon
<1>2. \A y \in S : ~(y < x)
  BY <1>1 DEF OpToRel
<1> QED BY <1>2

\* A listed task has a place in the list.
LEMMA PlaceLemma ==
  ASSUME NEW plist, NEW t, elem_find(plist, t)
  PROVE  Place(plist, t) \in 1..Len(plist) /\ plist[Place(plist, t)] = t
BY DEF Place, elem_find

\* The first of several listed tasks is one of them.
LEMMA FirstLemma ==
  ASSUME all_threads_list \in Seq(Tasks), NEW S, S \subseteq Listed, S # {}
  PROVE  First(S) \in S
<1> DEFINE P == {Place(all_threads_list, c) : c \in S}
<1>1. \A c \in S : Place(all_threads_list, c) \in Nat
  BY PlaceLemma DEF Listed
<1>2. P \subseteq Nat /\ P # {}
  BY <1>1
<1>3. PICK x \in P : \A y \in P : x <= y
  BY <1>2, LeastLemma
<1>4. \E c \in S : \A d \in S :
        Place(all_threads_list, c) <= Place(all_threads_list, d)
  BY <1>3
<1> QED BY <1>4 DEF First

\* alloc_pid gives out a pid that is free, or 0.
LEMMA AllocLemma ==
  ASSUME pid_pool \subseteq 1..MaxPid
  PROVE  /\ alloc_pid \in 0..MaxPid
         /\ alloc_pid \notin pid_pool
         /\ pid_pool # 1..MaxPid => alloc_pid \in 1..MaxPid
<1> DEFINE free == 1..MaxPid \ pid_pool
<1>1. MaxPid \in Nat
  BY ProcessAssumption
<1>2. CASE free = {}
  <2>1. alloc_pid = 0
    BY <1>2 DEF alloc_pid
  <2>2. pid_pool = 1..MaxPid
    BY <1>2
  <2> QED BY <1>1, <2>1, <2>2
<1>3. CASE free # {}
  <2>1. free \subseteq Nat
    BY <1>1
  <2>2. alloc_pid = CHOOSE p \in free : \A q \in free : p <= q
    BY <1>3 DEF alloc_pid
  <2> HIDE DEF free
  <2>3. \E p \in free : \A q \in free : p <= q
    BY <1>3, <2>1, LeastLemma
  <2>4. alloc_pid \in free
    BY <2>2, <2>3
  <2> QED BY <1>1, <2>4 DEF free
<1> QED BY <1>2, <1>3

\* list_remove takes out one task and leaves the others.
LEMMA UnlinkLemma ==
  ASSUME NEW plist \in Seq(Tasks), NoDup(plist), NEW t, elem_find(plist, t)
  PROVE  /\ Unlink(plist, t) \in Seq(Tasks)
         /\ NoDup(Unlink(plist, t))
         /\ \A u : elem_find(Unlink(plist, t), u) <=> elem_find(plist, u) /\ u # t
<1> DEFINE k == Place(plist, t)
           n == Len(plist)
           a == SubSeq(plist, 1, k - 1)
           b == SubSeq(plist, k + 1, n)
           r == a \o b
<1>1. n \in Nat /\ k \in 1..n /\ plist[k] = t
  BY PlaceLemma
<1>2. Unlink(plist, t) = r
  BY DEF Unlink, SX!RemoveAt
<1> HIDE DEF k
<1>3. /\ a \in Seq(Tasks) /\ Len(a) = k - 1
      /\ \A i \in 1..k - 1 : a[i] = plist[i]
  BY <1>1
<1>4. /\ b \in Seq(Tasks) /\ Len(b) = n - k
      /\ \A i \in 1..n - k : b[i] = plist[k + i]
  BY <1>1
<1> HIDE DEF a, b, n
<1>5. /\ r \in Seq(Tasks) /\ Len(r) = n - 1
      /\ \A i \in 1..n - 1 : r[i] = IF i < k THEN plist[i] ELSE plist[i + 1]
  <2>1. /\ r \in Seq(Tasks) /\ Len(r) = Len(a) + Len(b)
        /\ \A i \in 1..Len(a) + Len(b) :
             r[i] = IF i <= Len(a) THEN a[i] ELSE b[i - Len(a)]
    BY <1>3, <1>4, ConcatProperties
  <2> HIDE DEF r
  <2>2. ASSUME NEW i \in 1..n - 1
        PROVE  r[i] = IF i < k THEN plist[i] ELSE plist[i + 1]
    <3> DEFINE j == i - (k - 1)
    <3>1. CASE i < k
      <4>1. i \in 1..k - 1 /\ i \in 1..(k - 1) + (n - k)
        BY <1>1, <3>1
      <4>2. r[i] = a[i]
        BY <1>3, <1>4, <2>1, <4>1
      <4> QED BY <1>3, <3>1, <4>1, <4>2
    <3>2. CASE ~(i < k)
      <4>1. j \in 1..n - k /\ k + j = i + 1 /\ i \in 1..(k - 1) + (n - k) /\ ~(i <= k - 1)
        BY <1>1, <3>2
      <4>2. r[i] = b[j]
        BY <1>3, <1>4, <2>1, <4>1
      <4> HIDE DEF j
      <4> QED BY <1>4, <3>2, <4>1, <4>2
    <3> QED BY <3>1, <3>2
  <2> QED BY <1>1, <1>3, <1>4, <2>1, <2>2
<1> HIDE DEF r
<1>6. \A i, j \in 1..n : plist[i] = plist[j] => i = j
  BY DEF NoDup, n
<1>7. NoDup(r)
  BY <1>1, <1>5, <1>6 DEF NoDup
<1>8. ASSUME NEW u PROVE elem_find(r, u) <=> elem_find(plist, u) /\ u # t
  <2>1. ASSUME elem_find(r, u) PROVE elem_find(plist, u) /\ u # t
    <3>1. PICK i \in 1..n - 1 : r[i] = u
      BY <1>5, <2>1 DEF elem_find
    <3>2. \E j \in 1..n : j # k /\ plist[j] = u
      <4>1. CASE i < k
        BY <1>1, <1>5, <3>1, <4>1
      <4>2. CASE ~(i < k)
        <5>1. i + 1 \in 1..n /\ i + 1 # k /\ plist[i + 1] = u
          BY <1>1, <1>5, <3>1, <4>2
        <5> QED BY <5>1
      <4> QED BY <4>1, <4>2
    <3> QED BY <1>1, <1>6, <3>2 DEF elem_find, n
  <2>2. ASSUME elem_find(plist, u), u # t PROVE elem_find(r, u)
    <3>1. PICK j \in 1..n : plist[j] = u
      BY <2>2 DEF elem_find, n
    <3>2. j # k
      BY <1>1, <2>2, <3>1
    <3>3. \E i \in 1..n - 1 : r[i] = u
      <4>1. CASE j < k
        <5>1. j \in 1..n - 1 /\ r[j] = u
          BY <1>1, <1>5, <3>1, <4>1
        <5> QED BY <5>1
      <4>2. CASE ~(j < k)
        <5>1. j - 1 \in 1..n - 1 /\ ~(j - 1 < k) /\ (j - 1) + 1 = j
          BY <1>1, <3>2, <4>2
        <5>2. r[j - 1] = plist[(j - 1) + 1]
          BY <1>5, <5>1
        <5>3. r[j - 1] = u
          BY <3>1, <5>1, <5>2
        <5> QED BY <5>1, <5>3
      <4> QED BY <4>1, <4>2
    <3> QED BY <1>5, <3>3 DEF elem_find
  <2> QED BY <2>1, <2>2
<1> QED BY <1>2, <1>5, <1>7, <1>8

-----------------------------------------------------------------------------
(* Steps that leave the list of all tasks and the pids alone *)

\* The three threads of the kernel are different tasks.
LEMMA SpecialLemma ==
  /\ main_thread \in Tasks /\ init_proc \in Tasks /\ idle_thread \in Tasks
  /\ main_thread # init_proc /\ main_thread # idle_thread
  /\ init_proc # idle_thread
  /\ \A t \in Tasks : \/ t = main_thread \/ t = init_proc \/ t = idle_thread
                      \/ t \in UserTasks
  /\ UserTasks \subseteq Tasks
  /\ main_thread \notin UserTasks /\ init_proc \notin UserTasks
  /\ idle_thread \notin UserTasks
BY SchedAssumption, ProcessAssumption DEF UserTasks, Special

\* The running task and its state.
LEMMA CurLemma ==
  ASSUME PInv
  PROVE  /\ sched \in SchedState /\ sched.cur \in Tasks
         /\ sched.stat[sched.cur] = "RUNNING"
         /\ \A t \in Tasks : sched.stat[t] = "RUNNING" <=> t = sched.cur
         /\ Consistent(sched) /\ IdleOK(sched) /\ sched.panic = FALSE
         /\ sched.stat \in [Tasks -> task_stat]
BY DEF PInv, TypeOK, SchedInv, Consistent, SchedState

\* Which tasks are DIED and which HANGING is all the lists and the parents
\* depend on.
LEMMA QuietLemma ==
  ASSUME PInv, UNCHANGED Links,
         sched' \in SchedState,
         pc' \in [Tasks -> Places],
         \A t \in Tasks : /\ sched'.stat[t] = "DIED" <=> sched.stat[t] = "DIED"
                          /\ sched'.stat[t] = "HANGING" <=> sched.stat[t] = "HANGING"
  PROVE  TypeOK' /\ ListInv' /\ ParentInv'
<1>1. /\ all_threads_list' = all_threads_list /\ pid' = pid
      /\ parent_pid' = parent_pid /\ pid_pool' = pid_pool /\ leaked' = leaked
      /\ fault' = fault
  BY DEF Links
<1>2. Listed' = Listed /\ Procs' = Procs
  BY <1>1 DEF Listed, Procs
<1>3. TypeOK'
  BY <1>1 DEF PInv, TypeOK, Places
<1>4. ListInv'
  BY <1>1, <1>2 DEF PInv, ListInv
<1>5. ParentInv'
  <2>1. Procs \subseteq Tasks
    BY DEF Procs, Listed
  <2> QED BY <1>1, <1>2, <2>1 DEF PInv, ParentInv
<1> QED BY <1>3, <1>4, <1>5

\* The idle thread neither dies nor hangs.
LEMMA IdleLemma ==
  ASSUME NEW s, IdleOK(s)
  PROVE  s.stat[idle_thread] \notin {"HANGING", "DIED", "WAITING"}
BY DEF IdleOK

\* A thread that yields, or blocks in the state "BLOCKED", leaves everybody
\* else where they are.
LEMMA BlockedLemma ==
  ASSUME PInv, UNCHANGED Links, sched' = thread_block(sched, "BLOCKED"),
         pc' \in [Tasks -> Places]
  PROVE  /\ TypeOK' /\ SchedInv' /\ ListInv' /\ ParentInv'
         /\ \A u \in Tasks \ {idle_thread}, x \in Parked :
              sched'.stat[u] = x <=> IF u = sched.cur THEN x = "BLOCKED"
                                     ELSE sched.stat[u] = x
<1>1. /\ sched \in SchedState /\ Consistent(sched) /\ IdleOK(sched)
      /\ sched.panic = FALSE /\ sched.cur \in Tasks
      /\ sched.stat[sched.cur] = "RUNNING"
  BY CurLemma
<1>2. "BLOCKED" \in Asleep
  BY DEF Asleep
<1>3. LET r == thread_block(sched, "BLOCKED")
      IN  /\ r \in SchedState /\ Consistent(r) /\ IdleOK(r)
          /\ r.panic = sched.panic
          /\ \A u \in Tasks \ {idle_thread}, x \in Parked :
               r.stat[u] = x <=> IF u = sched.cur THEN "BLOCKED" = x
                                 ELSE sched.stat[u] = x
  BY <1>1, <1>2, BlockLemma
<1>4. /\ sched' \in SchedState /\ Consistent(sched') /\ IdleOK(sched')
      /\ sched'.panic = FALSE
      /\ \A u \in Tasks \ {idle_thread}, x \in Parked :
           sched'.stat[u] = x <=> IF u = sched.cur THEN x = "BLOCKED"
                                  ELSE sched.stat[u] = x
  BY <1>1, <1>3
<1>5. SchedInv'
  BY <1>4 DEF SchedInv
<1>6. \A t \in Tasks : /\ sched'.stat[t] = "DIED" <=> sched.stat[t] = "DIED"
                       /\ sched'.stat[t] = "HANGING" <=> sched.stat[t] = "HANGING"
  <2>1. "DIED" \in Parked /\ "HANGING" \in Parked
    BY DEF Parked, Asleep
  <2>2. ASSUME NEW t \in Tasks \ {idle_thread}
        PROVE  /\ sched'.stat[t] = "DIED" <=> sched.stat[t] = "DIED"
               /\ sched'.stat[t] = "HANGING" <=> sched.stat[t] = "HANGING"
    BY <1>1, <1>4, <2>1
  <2> QED BY <1>1, <1>4, <2>2 DEF IdleOK
<1> QED BY <1>4, <1>5, <1>6, QuietLemma

\* main goes to sleep for the disk; the first time, init runs next.
LEMMA MainDiskStep ==
  ASSUME PInv, MainDisk
  PROVE  PInv'
<1>1. /\ sched.cur = main_thread /\ pc[main_thread] = "disk"
      /\ sched' = thread_block(sched, "BLOCKED") /\ UNCHANGED Links
  BY DEF MainDisk, Exec
<1>2. PICK l \in {"disk", "unblock"} : pc' = [pc EXCEPT ![main_thread] = l]
  BY DEF MainDisk, Goto
<1>3. /\ TypeOK' /\ SchedInv' /\ ListInv' /\ ParentInv'
      /\ \A u \in Tasks \ {idle_thread}, x \in Parked :
           sched'.stat[u] = x <=> IF u = sched.cur THEN x = "BLOCKED"
                                  ELSE sched.stat[u] = x
  BY <1>1, <1>2, SpecialLemma, BlockedLemma DEF PInv, TypeOK, Places
<1>4. /\ pc \in [Tasks -> Places]
      /\ pc'[main_thread] \in {"disk", "unblock"}
      /\ \A t \in Tasks \ {main_thread} : pc'[t] = pc[t]
  BY <1>2, SpecialLemma DEF PInv, TypeOK, Places
<1>5. Booting /\ Booting'
  BY <1>1, <1>4 DEF Booting
<1>6. PcInv'
  BY <1>4, SpecialLemma DEF PInv, PcInv
<1>7. SleepInv'
  BY <1>1, <1>3, <1>4, <1>5, SpecialLemma DEF PInv, SleepInv, Parked, Asleep
<1>8. BootInv'
  <2>1. CASE pc[init_proc] = "start"
    <3>1. sched.ready # <<>> /\ Head(sched.ready) = init_proc
      BY <1>1, <2>1, SpecialLemma DEF PInv, BootInv
    <3>2. "BLOCKED" \in Asleep
      BY DEF Asleep
    <3>3. sched'.cur = init_proc
      BY <1>1, <3>1, <3>2, CurLemma, FrontLemma
    <3> QED BY <1>4, <1>5, <2>1, <3>3, SpecialLemma DEF BootInv
  <2>2. CASE pc[init_proc] # "start"
    BY <1>4, <1>5, <2>2, SpecialLemma DEF PInv, BootInv
  <2> QED BY <2>1, <2>2
<1> QED BY <1>3, <1>6, <1>7, <1>8 DEF PInv

\* Steps that put nobody to sleep and wake nobody, and move only the idle
\* thread, cannot disturb more than BootInv.
LEMMA SameLemma ==
  ASSUME PInv, UNCHANGED Links,
         sched' \in SchedState, SchedInv', SameSleepers(sched, sched'),
         pc' \in [Tasks -> Places],
         \A t \in Tasks \ {idle_thread} : pc'[t] = pc[t],
         pc'[idle_thread] \in {"loop", "sti", "hlt"},
         BootInv'
  PROVE  PInv'
<1>1. \A u \in Tasks \ {idle_thread}, x \in Parked :
        sched'.stat[u] = x <=> sched.stat[u] = x
  BY DEF SameSleepers
<1>2. IdleOK(sched) /\ IdleOK(sched)'
  BY DEF PInv, SchedInv
<1>3. \A t \in Tasks : /\ sched'.stat[t] = "DIED" <=> sched.stat[t] = "DIED"
                       /\ sched'.stat[t] = "HANGING" <=> sched.stat[t] = "HANGING"
  <2>1. "DIED" \in Parked /\ "HANGING" \in Parked
    BY DEF Parked, Asleep
  <2>2. ASSUME NEW t \in Tasks \ {idle_thread}
        PROVE  /\ sched'.stat[t] = "DIED" <=> sched.stat[t] = "DIED"
               /\ sched'.stat[t] = "HANGING" <=> sched.stat[t] = "HANGING"
    BY <1>1, <2>1
  <2> QED BY <1>2, <2>2 DEF IdleOK
<1>4. TypeOK' /\ ListInv' /\ ParentInv'
  BY <1>3, QuietLemma
<1>5. PcInv'
  BY SpecialLemma DEF PInv, PcInv
<1>6. SleepInv'
  BY <1>1, SpecialLemma DEF PInv, SleepInv, Parked, Asleep, Booting
<1> QED BY <1>4, <1>5, <1>6 DEF PInv

\* init blocks itself, and goes to user mode when main has woken it.
LEMMA InitStartStep ==
  ASSUME PInv, InitStart
  PROVE  PInv'
<1>1. sched.cur = init_proc /\ sched.panic = FALSE /\ UNCHANGED Links
  BY CurLemma DEF InitStart, Exec
<1>2. sched.stat[init_proc] = "RUNNING"
  BY <1>1, CurLemma
<1>3. pc \in [Tasks -> Places]
  BY DEF PInv, TypeOK, Places
<1>4. CASE /\ pc[init_proc] = "start"
           /\ sched' = thread_block(sched, "BLOCKED")
           /\ Goto(init_proc, "armed")
  <2>1. /\ pc' \in [Tasks -> Places]
        /\ pc'[init_proc] = "armed"
        /\ \A t \in Tasks \ {init_proc} : pc'[t] = pc[t]
    BY <1>3, <1>4, SpecialLemma DEF Goto, Places
  <2>2. /\ TypeOK' /\ SchedInv' /\ ListInv' /\ ParentInv'
        /\ \A u \in Tasks \ {idle_thread}, x \in Parked :
             sched'.stat[u] = x <=> IF u = sched.cur THEN x = "BLOCKED"
                                    ELSE sched.stat[u] = x
    BY <1>1, <1>4, <2>1, BlockedLemma
  <2>3. Booting /\ Booting'
    BY <1>4, <2>1, SpecialLemma DEF PInv, BootInv, Booting
  <2>4. PcInv'
    BY <2>1, SpecialLemma DEF PInv, PcInv
  <2>5. SleepInv'
    BY <1>1, <1>4, <2>1, <2>2, <2>3, SpecialLemma
       DEF PInv, SleepInv, Parked, Asleep
  <2>6. BootInv'
    BY <2>1 DEF BootInv
  <2> QED BY <2>2, <2>4, <2>5, <2>6 DEF PInv
<1>5. CASE /\ pc[init_proc] = "armed"
           /\ Goto(init_proc, "user")
           /\ UNCHANGED sched
  <2>1. /\ pc' \in [Tasks -> Places]
        /\ pc'[init_proc] = "user"
        /\ \A t \in Tasks \ {init_proc} : pc'[t] = pc[t]
    BY <1>3, <1>5, SpecialLemma DEF Goto, Places
  <2>2. TypeOK' /\ ListInv' /\ ParentInv'
    BY <1>1, <1>5, <2>1, CurLemma, QuietLemma
  <2>3. SchedInv'
    BY <1>5 DEF PInv, SchedInv
  <2>4. ~Booting /\ ~Booting'
    BY <1>2, <1>5, <2>1, SpecialLemma DEF PInv, SleepInv, Booting
  <2>5. PcInv'
    BY <2>1, SpecialLemma DEF PInv, PcInv
  <2>6. SleepInv'
    BY <1>2, <1>5, <2>1, <2>4, SpecialLemma DEF PInv, SleepInv
  <2>7. BootInv'
    BY <2>1, <2>4 DEF BootInv
  <2> QED BY <2>2, <2>3, <2>5, <2>6, <2>7 DEF PInv
<1> QED BY <1>4, <1>5 DEF InitStart

\* main wakes init, which has blocked itself by then.
LEMMA MainUnblockStep ==
  ASSUME PInv, MainUnblock
  PROVE  PInv'
<1>1. /\ sched.cur = main_thread /\ pc[main_thread] = "unblock"
      /\ sched' = thread_unblock(sched, init_proc) /\ UNCHANGED Links
      /\ pc' = [pc EXCEPT ![main_thread] = "exit"]
  BY DEF MainUnblock, Exec, Goto
<1>2. /\ pc' \in [Tasks -> Places]
      /\ pc'[main_thread] = "exit"
      /\ \A t \in Tasks \ {main_thread} : pc'[t] = pc[t]
  BY <1>1, SpecialLemma DEF PInv, TypeOK, Places
<1>3. Booting /\ ~Booting'
  BY <1>1, <1>2 DEF Booting
<1>4. pc[init_proc] = "armed" /\ sched.stat[init_proc] = "BLOCKED"
  BY <1>1, <1>3, SpecialLemma DEF PInv, BootInv, SleepInv
<1>5. /\ sched' \in SchedState /\ Consistent(sched') /\ IdleOK(sched')
      /\ sched'.panic = FALSE /\ sched'.cur = sched.cur
      /\ \A u \in Tasks :
           sched'.stat[u] = IF u = init_proc THEN "READY" ELSE sched.stat[u]
  <2>1. sched.stat[init_proc] \in Asleep /\ init_proc \in Tasks \ {idle_thread}
    BY <1>4, SpecialLemma DEF Asleep
  <2>2. sched \in SchedState /\ Consistent(sched) /\ IdleOK(sched)
        /\ sched.panic = FALSE
    BY CurLemma
  <2> QED BY <1>1, <2>1, <2>2, WakeLemma
<1>6. SchedInv'
  BY <1>5 DEF SchedInv
<1>7. TypeOK' /\ ListInv' /\ ParentInv'
  <2>1. \A t \in Tasks :
          /\ sched'.stat[t] = "DIED" <=> sched.stat[t] = "DIED"
          /\ sched'.stat[t] = "HANGING" <=> sched.stat[t] = "HANGING"
    BY <1>4, <1>5
  <2> QED BY <1>1, <1>2, <1>5, <2>1, QuietLemma
<1>8. PcInv'
  BY <1>2, SpecialLemma DEF PInv, PcInv
<1>9. SleepInv'
  <2>1. sched'.stat[main_thread] = "RUNNING" /\ sched'.stat[init_proc] = "READY"
    BY <1>1, <1>5, CurLemma, SpecialLemma
  <2>2. \A t \in UserTasks : sched'.stat[t] = sched.stat[t] /\ pc'[t] = pc[t]
    BY <1>2, <1>5, SpecialLemma
  <2>3. pc'[init_proc] = "armed"
    BY <1>2, <1>4, SpecialLemma
  <2> QED BY <1>2, <1>3, <2>1, <2>2, <2>3 DEF PInv, SleepInv
<1>10. BootInv'
  BY <1>2, <1>3, <1>4, SpecialLemma DEF BootInv
<1> QED BY <1>6, <1>7, <1>8, <1>9, <1>10 DEF PInv

\* A step of the idle thread, or of an interrupt that takes it out of hlt.
LEMMA EndHltLemma ==
  ASSUME PInv, EndHlt
  PROVE  /\ pc' \in [Tasks -> Places]
         /\ \A t \in Tasks \ {idle_thread} : pc'[t] = pc[t]
         /\ pc'[idle_thread] \in {"loop", "sti", "hlt"}
<1>1. pc \in [Tasks -> Places]
  BY DEF PInv, TypeOK, Places
<1>2. sched.cur # idle_thread => pc[sched.cur] # "hlt"
  BY CurLemma, SpecialLemma DEF PInv, PcInv
<1> QED BY <1>1, <1>2, CurLemma, SpecialLemma DEF EndHlt, Places, PInv, PcInv

\* The clock: init does not lose its place at the front before it has run.
LEMMA TimerStep ==
  ASSUME PInv, Timer
  PROVE  PInv'
<1>1. /\ pc[sched.cur] # "start" /\ sched' = intr_time_hdl(sched)
      /\ EndHlt /\ UNCHANGED Links
  BY DEF Timer
<1>2. /\ pc' \in [Tasks -> Places]
      /\ \A t \in Tasks \ {idle_thread} : pc'[t] = pc[t]
      /\ pc'[idle_thread] \in {"loop", "sti", "hlt"}
  BY <1>1, EndHltLemma
<1>3. /\ sched' \in SchedState /\ Consistent(sched') /\ IdleOK(sched')
      /\ sched'.panic = FALSE /\ SameSleepers(sched, sched')
  BY <1>1, CurLemma, TimerLemma
<1>4. SchedInv'
  BY <1>3 DEF SchedInv
<1>5. BootInv'
  <2>1. CASE pc[init_proc] = "start"
    <3>1. /\ sched.cur = main_thread /\ pc[main_thread] = "disk"
          /\ sched.ready # <<>> /\ Head(sched.ready) = init_proc
      BY <1>1, <2>1 DEF PInv, BootInv
    <3>2. \/ sched'.cur = sched.cur /\ sched'.ready = sched.ready
          \/ sched'.cur = init_proc
      BY <1>1, <3>1, CurLemma, FrontLemma
    <3> QED BY <1>2, <2>1, <3>1, <3>2, SpecialLemma DEF PInv, BootInv, Booting
  <2>2. CASE pc[init_proc] # "start"
    BY <1>2, <2>2, SpecialLemma DEF PInv, BootInv, Booting
  <2> QED BY <2>1, <2>2
<1> QED BY <1>1, <1>2, <1>3, <1>4, <1>5, SameLemma

\* The disk's interrupt finds main asleep.
LEMMA DiskInterruptStep ==
  ASSUME PInv, DiskInterrupt
  PROVE  PInv'
<1>1. /\ Booting /\ sched.stat[main_thread] = "BLOCKED"
      /\ sched' = thread_unblock(sched, main_thread)
      /\ EndHlt /\ UNCHANGED Links
  BY DEF DiskInterrupt, Booting
<1>2. /\ pc' \in [Tasks -> Places]
      /\ \A t \in Tasks \ {idle_thread} : pc'[t] = pc[t]
      /\ pc'[idle_thread] \in {"loop", "sti", "hlt"}
  BY <1>1, EndHltLemma
<1>3. /\ sched' \in SchedState /\ Consistent(sched') /\ IdleOK(sched')
      /\ sched'.panic = FALSE /\ sched'.cur = sched.cur
      /\ \A u \in Tasks :
           sched'.stat[u] = IF u = main_thread THEN "READY" ELSE sched.stat[u]
  <2>1. sched.stat[main_thread] \in Asleep
    BY <1>1 DEF Asleep
  <2> QED BY <1>1, <2>1, CurLemma, SpecialLemma, WakeLemma
<1>4. SchedInv'
  BY <1>3 DEF SchedInv
<1>5. TypeOK' /\ ListInv' /\ ParentInv'
  <2>1. \A t \in Tasks :
          /\ sched'.stat[t] = "DIED" <=> sched.stat[t] = "DIED"
          /\ sched'.stat[t] = "HANGING" <=> sched.stat[t] = "HANGING"
    BY <1>1, <1>3
  <2> QED BY <1>1, <1>2, <1>3, <2>1, QuietLemma
<1>6. PcInv'
  BY <1>2, SpecialLemma DEF PInv, PcInv
<1>7. SleepInv'
  BY <1>1, <1>2, <1>3, SpecialLemma DEF PInv, SleepInv, Booting
<1>8. BootInv'
  <2>1. sched.cur # main_thread
    BY <1>1, CurLemma
  <2> QED BY <1>1, <1>2, <1>3, <2>1, SpecialLemma DEF PInv, BootInv, Booting
<1> QED BY <1>4, <1>5, <1>6, <1>7, <1>8 DEF PInv

\* The idle thread blocks itself when it is not wanted, and waits in hlt.
LEMMA IdleStep ==
  ASSUME PInv, Idle
  PROVE  PInv'
<1>1. sched.cur = idle_thread /\ UNCHANGED Links
  BY DEF Idle, Exec
<1>2. pc \in [Tasks -> Places]
  BY DEF PInv, TypeOK, Places
<1>3. pc[init_proc] # "start"
  BY <1>1, SpecialLemma DEF PInv, BootInv
<1>4. PICK l \in {"sti", "hlt"} : pc' = [pc EXCEPT ![idle_thread] = l]
  BY DEF Idle, Goto
<1>5. /\ pc' \in [Tasks -> Places]
      /\ \A t \in Tasks \ {idle_thread} : pc'[t] = pc[t]
      /\ pc'[idle_thread] \in {"loop", "sti", "hlt"}
  BY <1>2, <1>4, SpecialLemma DEF Places
<1>6. BootInv'
  BY <1>3, <1>5, SpecialLemma DEF PInv, BootInv, Booting
<1>7. sched' \in SchedState /\ SchedInv' /\ SameSleepers(sched, sched')
  <2>1. CASE sched' = thread_block(sched, "BLOCKED")
    BY <1>1, <1>5, <2>1, BlockedLemma DEF SameSleepers, TypeOK
  <2>2. CASE sched' = sched
    BY <2>2, CurLemma DEF SameSleepers, PInv, SchedInv
  <2> QED BY <2>1, <2>2 DEF Idle
<1> QED BY <1>1, <1>5, <1>6, <1>7, SameLemma

-----------------------------------------------------------------------------
(* Steps that link or unlink a PCB *)

\* The running task is listed; in user mode, or back in sys_wait, it is init
\* or a process init started.
LEMMA CallerLemma ==
  ASSUME PInv
  PROVE  /\ sched.cur \in Listed
         /\ pc[sched.cur] \in {"user", "wait"} =>
              /\ sched.cur \in Procs
              /\ sched.cur = init_proc \/ sched.cur \in UserTasks
              /\ pc[init_proc] # "start"
<1>1. sched.cur \in Listed
  BY CurLemma DEF PInv, ListInv
<1>2. ASSUME pc[sched.cur] \in {"user", "wait"}
      PROVE  /\ sched.cur \in Procs
             /\ sched.cur = init_proc \/ sched.cur \in UserTasks
             /\ pc[init_proc] # "start"
  BY <1>1, <1>2, CurLemma, SpecialLemma DEF PInv, PcInv, BootInv, Procs
<1> QED BY <1>1, <1>2

\* Only the pid 0 has no bit to clear.
LEMMA ReleaseLemma ==
  ASSUME fault \in BOOLEAN, NEW p, release_pid(p)
  PROVE  /\ pid_pool' = pid_pool \ {p}
         /\ fault' \in BOOLEAN
         /\ p # 0 => fault' = fault
<1>1. fault' = (fault \/ p = 0) /\ pid_pool' = pid_pool \ {p}
  BY DEF release_pid
<1>2. CASE p = 0
  BY <1>1, <1>2
<1>3. CASE p # 0
  BY <1>1, <1>3
<1> QED BY <1>1, <1>2, <1>3

\* thread_exit unlinks one PCB.
LEMMA ExitLemma ==
  ASSUME PInv, NEW t \in Listed, thread_exit(t)
  PROVE  /\ all_threads_list' \in Seq(Tasks) /\ NoDup(all_threads_list')
         /\ Listed' = Listed \ {t}
         /\ pid_pool' = pid_pool \ {pid[t]}
         /\ fault' \in BOOLEAN
         /\ pid[t] # 0 => fault' = fault
<1>1. /\ all_threads_list \in Seq(Tasks) /\ NoDup(all_threads_list)
      /\ elem_find(all_threads_list, t)
      /\ all_threads_list' = Unlink(all_threads_list, t)
  BY DEF PInv, TypeOK, ListInv, Listed, thread_exit
<1>2. /\ all_threads_list' \in Seq(Tasks) /\ NoDup(all_threads_list')
      /\ \A u : elem_find(all_threads_list', u)
                  <=> elem_find(all_threads_list, u) /\ u # t
  BY <1>1, UnlinkLemma
<1>3. Listed' = Listed \ {t}
  BY <1>2 DEF Listed
<1>4. release_pid(pid[t]) /\ fault \in BOOLEAN
  BY DEF thread_exit, PInv, TypeOK
<1> QED BY <1>2, <1>3, <1>4, ReleaseLemma

\* main's thread ends; its PCB stays the only DIED one that is not free.
LEMMA MainExitEffect ==
  ASSUME PInv, MainExit
  PROVE  /\ sched.cur = main_thread
         /\ sched' \in SchedState /\ Consistent(sched') /\ IdleOK(sched')
         /\ sched'.panic = FALSE
         /\ \A u \in Tasks \ {main_thread, idle_thread}, x \in Parked :
              sched'.stat[u] = x <=> sched.stat[u] = x
         /\ sched'.stat[main_thread] = "DIED"
         /\ all_threads_list' \in Seq(Tasks) /\ NoDup(all_threads_list')
         /\ Listed' = Listed \ {main_thread}
         /\ pid_pool' = pid_pool \ {pid[main_thread]}
         /\ fault' \in BOOLEAN
         /\ pid[main_thread] # 0 => fault' = fault
<1>1. /\ sched.cur = main_thread
      /\ thread_exit(main_thread)
      /\ sched' = schedule(SetStat(sched, sched.cur, "DIED"))
  BY DEF MainExit, Exec
<1>2. /\ all_threads_list' \in Seq(Tasks) /\ NoDup(all_threads_list')
      /\ Listed' = Listed \ {main_thread}
      /\ pid_pool' = pid_pool \ {pid[main_thread]}
      /\ fault' \in BOOLEAN
      /\ pid[main_thread] # 0 => fault' = fault
  BY <1>1, CallerLemma, ExitLemma
<1>3. /\ sched' \in SchedState /\ Consistent(sched') /\ IdleOK(sched')
      /\ sched'.panic = FALSE
      /\ \A u \in Tasks \ {idle_thread}, x \in Parked :
           sched'.stat[u] = x <=> IF u = sched.cur THEN "DIED" = x
                                  ELSE sched.stat[u] = x
  <2>1. "DIED" \in Parked /\ sched.cur # idle_thread
    BY <1>1, SpecialLemma DEF Parked
  <2>2. /\ sched \in SchedState /\ Consistent(sched) /\ IdleOK(sched)
        /\ sched.panic = FALSE
    BY CurLemma
  <2> QED BY <1>1, <2>1, <2>2, ParkLemma
<1>4. /\ \A u \in Tasks \ {main_thread, idle_thread}, x \in Parked :
            sched'.stat[u] = x <=> sched.stat[u] = x
      /\ sched'.stat[main_thread] = "DIED"
  BY <1>1, <1>3, CurLemma, SpecialLemma DEF Parked, Asleep
<1> QED BY <1>1, <1>2, <1>3, <1>4

LEMMA MainExitStep ==
  ASSUME PInv, MainExit
  PROVE  PInv'
<1>1. /\ pc[main_thread] = "exit"
      /\ pc' = [pc EXCEPT ![main_thread] = "gone"]
      /\ UNCHANGED <<pid, parent_pid, leaked>>
  BY DEF MainExit, Goto
<1>2. /\ pc' \in [Tasks -> Places]
      /\ pc'[main_thread] = "gone"
      /\ \A t \in Tasks \ {main_thread} : pc'[t] = pc[t]
  BY <1>1, SpecialLemma DEF PInv, TypeOK, Places
<1>3. ~Booting /\ ~Booting'
  BY <1>1, <1>2 DEF Booting
<1>4. pc[init_proc] # "start"
  BY <1>3 DEF PInv, BootInv
<1>5. /\ all_threads_list' \in Seq(Tasks) /\ NoDup(all_threads_list')
      /\ Listed' = Listed \ {main_thread}
      /\ pid_pool' \subseteq pid_pool /\ fault' \in BOOLEAN
  BY MainExitEffect
<1>6. /\ sched' \in SchedState /\ Consistent(sched') /\ IdleOK(sched')
      /\ sched'.panic = FALSE
  BY MainExitEffect
<1>7. SchedInv'
  BY <1>6 DEF SchedInv
<1>8. TypeOK'
  BY <1>1, <1>2, <1>5, <1>6 DEF PInv, TypeOK, Places
<1>9. /\ \A u \in Tasks \ {main_thread, idle_thread}, x \in Parked :
            sched'.stat[u] = x <=> sched.stat[u] = x
      /\ sched'.stat[main_thread] = "DIED"
      /\ IdleOK(sched) /\ IdleOK(sched')
  BY CurLemma, MainExitEffect
<1>10. \A t \in Tasks \ {main_thread} :
         sched'.stat[t] = "DIED" <=> sched.stat[t] = "DIED"
  <2>1. "DIED" \in Parked
    BY DEF Parked
  <2> QED BY <1>9, <2>1 DEF IdleOK
<1>11. ListInv'
  BY <1>5, <1>9, <1>10, SpecialLemma DEF PInv, ListInv
<1>12. PcInv'
  BY <1>2, SpecialLemma DEF PInv, PcInv
<1>13. SleepInv'
  BY <1>2, <1>3, <1>9, SpecialLemma DEF PInv, SleepInv, Parked, Asleep
<1>14. BootInv'
  BY <1>2, <1>3, <1>4, SpecialLemma DEF BootInv
<1>15. ParentInv'
  <2>1. Procs' = Procs /\ Procs \subseteq Tasks \ {main_thread, idle_thread}
    BY <1>5 DEF Procs, Listed
  <2>2. "HANGING" \in Parked
    BY DEF Parked, Asleep
  <2> QED BY <1>1, <1>9, <2>1, <2>2 DEF PInv, ParentInv
<1> QED BY <1>7, <1>8, <1>11, <1>12, <1>13, <1>14, <1>15 DEF PInv

\* A fork: the new PCB was DIED, so it is in neither list yet.
LEMMA ForkEffect ==
  ASSUME PInv, NEW t \in Tasks, sys_fork(t)
  PROVE  /\ sched.cur = t /\ pc[t] = "user" /\ UNCHANGED <<fault, leaked>>
         /\ \E c \in FreePCB :
              /\ c \in UserTasks /\ c \notin Listed /\ c # t
              /\ pid' = [pid EXCEPT ![c] = alloc_pid]
              /\ pid_pool' = pid_pool \cup ({alloc_pid} \ {0})
              /\ parent_pid' = [parent_pid EXCEPT ![c] = pid[t]]
              /\ pc' = [pc EXCEPT ![c] = "user"]
              /\ sched' \in SchedState /\ Consistent(sched') /\ IdleOK(sched')
              /\ sched'.panic = FALSE /\ sched'.cur = sched.cur
              /\ \A u \in Tasks : sched'.stat[u] = IF u = c THEN "READY"
                                                   ELSE sched.stat[u]
              /\ all_threads_list' \in Seq(Tasks) /\ NoDup(all_threads_list')
              /\ Listed' = Listed \cup {c}
<1>1. sched.cur = t /\ pc[t] = "user" /\ UNCHANGED <<fault, leaked>>
  BY DEF sys_fork, Exec
<1>2. PICK c \in FreePCB :
         /\ pid' = [pid EXCEPT ![c] = alloc_pid]
         /\ pid_pool' = pid_pool \cup ({alloc_pid} \ {0})
         /\ parent_pid' = [parent_pid EXCEPT ![c] = pid[t]]
         /\ LET s1 == Check(sched, ~elem_find(sched.ready, c))
            IN  sched' = SetStat([s1 EXCEPT !.ready = list_append(@, c),
                                            !.ticks[c] = prio[c]], c, "READY")
         /\ all_threads_list' = list_append(all_threads_list, c)
         /\ Goto(c, "user")
  BY DEF sys_fork
<1>3. /\ c \in UserTasks /\ c \notin Listed /\ sched.stat[c] = "DIED"
      /\ ~elem_find(sched.ready, c) /\ c # sched.cur
  <2>1. c \in UserTasks /\ c \in Tasks /\ c \notin Listed
    BY DEF FreePCB, UserTasks
  <2>2. sched.stat[c] = "DIED"
    BY <2>1 DEF PInv, ListInv
  <2> QED BY <2>1, <2>2, CurLemma DEF Consistent
<1>6. /\ sched' \in SchedState /\ Consistent(sched') /\ IdleOK(sched')
      /\ sched'.panic = FALSE /\ sched'.cur = sched.cur
      /\ \A u \in Tasks : sched'.stat[u] = IF u = c THEN "READY"
                                           ELSE sched.stat[u]
  <2> DEFINE q == list_append(sched.ready, c)
             tk == [sched.ticks EXCEPT ![c] = prio[c]]
             s2 == [sched EXCEPT !.ready = q, !.ticks = tk]
  <2>1. sched' = SetStat(s2, c, "READY")
    BY <1>2, <1>3 DEF Check
  <2>2. /\ sched.ready \in Seq(Tasks) /\ c \in Tasks
        /\ sched.ticks \in [Tasks -> Nat] /\ NoDup(sched.ready)
    BY <1>3, CurLemma, SpecialLemma DEF SchedState, Consistent
  <2>3. /\ q \in Seq(Tasks) /\ NoDup(q)
        /\ \A u : elem_find(q, u) <=> elem_find(sched.ready, u) \/ u = c
    <3> DEFINE l == sched.ready
    <3>1. l \in Seq(Tasks) /\ ~elem_find(l, c) /\ NoDup(l)
      BY <1>3, <2>2
    <3> HIDE DEF l
    <3>2. /\ list_append(l, c) \in Seq(Tasks) /\ NoDup(list_append(l, c))
          /\ \A u : elem_find(list_append(l, c), u) <=> elem_find(l, u) \/ u = c
      BY <2>2, <3>1, AppendLemma
    <3> QED BY <3>2 DEF l
  <2>4. tk \in [Tasks -> Nat]
    BY <2>2, SchedAssumption
  <2> HIDE DEF q, tk
  <2>5. /\ s2 \in SchedState /\ s2.cur = sched.cur /\ s2.ready = q
        /\ s2.panic = sched.panic /\ s2.stat = sched.stat
    BY <2>3, <2>4, CurLemma DEF SchedState
  <2> HIDE DEF s2
  <2>6. /\ sched' \in SchedState /\ sched'.cur = s2.cur
        /\ sched'.ready = s2.ready /\ sched'.panic = s2.panic
        /\ \A u \in Tasks : sched'.stat[u] = IF u = c THEN "READY"
                                             ELSE s2.stat[u]
    <3>1. "READY" \in task_stat
      BY DEF task_stat
    <3> QED BY <2>1, <2>2, <2>5, <3>1, SetStatLemma
  <2>7. Consistent(sched')
    BY <1>3, <2>2, <2>3, <2>5, <2>6, CurLemma DEF Consistent
  <2>8. IdleOK(sched')
    <3>1. sched'.stat[idle_thread] = sched.stat[idle_thread]
      BY <1>3, <2>5, <2>6, SpecialLemma
    <3> QED BY <3>1, CurLemma DEF IdleOK
  <2> QED BY <2>5, <2>6, <2>7, <2>8, CurLemma
<1>7. /\ all_threads_list' \in Seq(Tasks) /\ NoDup(all_threads_list')
      /\ Listed' = Listed \cup {c}
  <2>1. /\ all_threads_list \in Seq(Tasks) /\ NoDup(all_threads_list)
        /\ ~elem_find(all_threads_list, c) /\ c \in Tasks
    BY <1>3, SpecialLemma DEF PInv, TypeOK, ListInv, Listed
  <2>2. /\ all_threads_list' \in Seq(Tasks) /\ NoDup(all_threads_list')
        /\ \A u : elem_find(all_threads_list', u)
                    <=> elem_find(all_threads_list, u) \/ u = c
    BY <1>2, <2>1, AppendLemma
  <2> QED BY <2>1, <2>2 DEF Listed
<1> QED BY <1>1, <1>2, <1>3, <1>6, <1>7 DEF Goto

LEMMA ForkStep ==
  ASSUME PInv, NEW t \in Tasks, sys_fork(t)
  PROVE  PInv'
<1>1. /\ sched.cur = t /\ pc[t] = "user"
      /\ leaked' = leaked /\ fault' = fault
  BY ForkEffect
<1>2. PICK c \in FreePCB :
         /\ c \in UserTasks /\ c \notin Listed /\ c # t
         /\ pid' = [pid EXCEPT ![c] = alloc_pid]
         /\ pid_pool' = pid_pool \cup ({alloc_pid} \ {0})
         /\ parent_pid' = [parent_pid EXCEPT ![c] = pid[t]]
         /\ pc' = [pc EXCEPT ![c] = "user"]
         /\ sched' \in SchedState /\ Consistent(sched') /\ IdleOK(sched')
         /\ sched'.panic = FALSE /\ sched'.cur = sched.cur
         /\ \A u \in Tasks : sched'.stat[u] = IF u = c THEN "READY"
                                              ELSE sched.stat[u]
         /\ all_threads_list' \in Seq(Tasks) /\ NoDup(all_threads_list')
         /\ Listed' = Listed \cup {c}
  BY ForkEffect
<1>3. c \in UserTasks /\ c \notin Listed /\ c # t
  BY <1>2
<1>4. /\ t \in Procs /\ pc[init_proc] # "start"
  BY <1>1, CallerLemma
<1>5. /\ pc' \in [Tasks -> Places]
      /\ pc'[c] = "user"
      /\ \A u \in Tasks \ {c} : pc'[u] = pc[u]
  BY <1>2, <1>3, SpecialLemma DEF PInv, TypeOK, Places
<1>6. /\ sched' \in SchedState /\ Consistent(sched') /\ IdleOK(sched')
      /\ sched'.panic = FALSE /\ sched'.cur = sched.cur
      /\ \A u \in Tasks : sched'.stat[u] = IF u = c THEN "READY"
                                           ELSE sched.stat[u]
  BY <1>2
<1>7. SchedInv'
  BY <1>6 DEF SchedInv
<1>8. /\ all_threads_list' \in Seq(Tasks) /\ NoDup(all_threads_list')
      /\ Listed' = Listed \cup {c}
  BY <1>2
<1>9. /\ alloc_pid \in 0..MaxPid
      /\ pid \in [Tasks -> 0..MaxPid] /\ parent_pid \in [Tasks -> 0..MaxPid]
      /\ pid_pool \subseteq 1..MaxPid
  BY AllocLemma DEF PInv, TypeOK
<1>10. /\ pid' \in [Tasks -> 0..MaxPid] /\ parent_pid' \in [Tasks -> 0..MaxPid]
       /\ pid_pool' \subseteq 1..MaxPid
  <2>1. {alloc_pid} \ {0} \subseteq 1..MaxPid
    BY <1>9, ProcessAssumption
  <2> QED BY <1>2, <1>9, <2>1
<1>11. TypeOK'
  BY <1>1, <1>5, <1>6, <1>8, <1>10 DEF PInv, TypeOK, Places
<1>12. ListInv'
  BY <1>3, <1>6, <1>8, SpecialLemma DEF PInv, ListInv
<1>13. PcInv'
  BY <1>3, <1>5, SpecialLemma DEF PInv, PcInv
<1>14. Booting' <=> Booting
  BY <1>3, <1>5, SpecialLemma DEF Booting
<1>15. SleepInv'
  BY <1>3, <1>5, <1>6, <1>14, SpecialLemma DEF PInv, SleepInv
<1>16. BootInv'
  BY <1>3, <1>4, <1>5, <1>14, SpecialLemma DEF PInv, BootInv
<1>17. ParentInv'
  <2>1. /\ Procs' = Procs \cup {c}
        /\ Procs \subseteq Tasks \ {c}
        /\ c # init_proc
    BY <1>3, <1>8, SpecialLemma DEF Procs, Listed
  <2>2. /\ \A u \in Tasks \ {c} : /\ pid'[u] = pid[u]
                                  /\ parent_pid'[u] = parent_pid[u]
                                  /\ sched'.stat[u] = sched.stat[u]
        /\ parent_pid'[c] = pid[t]
    BY <1>2, <1>3, <1>6, <1>9, SpecialLemma
  <2>3. sched.stat[t] # "HANGING"
    BY <1>1, CurLemma
  <2>4. ASSUME NEW u \in Procs \ {init_proc}
        PROVE  \E p \in Procs' : /\ pid'[p] = parent_pid'[u]
                                 /\ sched'.stat[p] # "HANGING"
    <3>1. PICK p \in Procs : pid[p] = parent_pid[u] /\ sched.stat[p] # "HANGING"
      BY DEF PInv, ParentInv
    <3> QED BY <2>1, <2>2, <3>1
  <2>5. \E p \in Procs' : /\ pid'[p] = parent_pid'[c]
                          /\ sched'.stat[p] # "HANGING"
    BY <1>4, <2>1, <2>2, <2>3
  <2>6. pid'[init_proc] = 1
    BY <2>1, <2>2, SpecialLemma DEF PInv, ParentInv
  <2> QED BY <2>1, <2>4, <2>5, <2>6 DEF ParentInv
<1> QED BY <1>7, <1>11, <1>12, <1>13, <1>15, <1>16, <1>17 DEF PInv

\* A fork that runs out of memory loses a page, and perhaps a pid.
LEMMA ForkFailsStep ==
  ASSUME PInv, NEW t \in Tasks, ForkFails(t)
  PROVE  PInv'
<1>1. /\ UNCHANGED <<sched, pc, all_threads_list, pid, parent_pid, fault>>
      /\ \E c \in FreePCB : leaked' = leaked \cup {c}
      /\ pid_pool' \in {pid_pool, pid_pool \cup ({alloc_pid} \ {0})}
  BY DEF ForkFails
<1>2. TypeOK'
  <2>1. pid_pool \subseteq 1..MaxPid
    BY DEF PInv, TypeOK
  <2>2. {alloc_pid} \ {0} \subseteq 1..MaxPid
    BY <2>1, AllocLemma, ProcessAssumption
  <2>3. pid_pool' \subseteq 1..MaxPid
    BY <1>1, <2>1, <2>2
  <2> QED BY <1>1, <2>3 DEF PInv, TypeOK, FreePCB
<1>3. Listed' = Listed /\ Procs' = Procs /\ Booting' = Booting
  BY <1>1 DEF Listed, Procs, Booting
<1>4. SchedInv' /\ ListInv' /\ PcInv'
  BY <1>1, <1>3 DEF PInv, SchedInv, ListInv, PcInv
<1>5. SleepInv' /\ BootInv' /\ ParentInv'
  BY <1>1, <1>3 DEF PInv, SleepInv, BootInv, ParentInv
<1> QED BY <1>2, <1>4, <1>5 DEF PInv

\* The task in sys_wait is running, and is a process.
LEMMA WaiterLemma ==
  ASSUME PInv, NEW t \in Tasks, sched.cur = t, pc[t] \in {"user", "wait"}
  PROVE  /\ t \in Procs /\ t # idle_thread /\ t # main_thread
         /\ t = init_proc \/ t \in UserTasks
         /\ pc[init_proc] # "start"
         /\ sched.stat[t] = "RUNNING"
BY CallerLemma, CurLemma DEF Procs

\* sys_wait reaps a child that hangs: a process, and not the caller.
LEMMA ReapEffect ==
  ASSUME PInv, NEW t \in Tasks, sched.cur = t, pc[t] \in {"user", "wait"},
         Hanging(t) # {}, thread_exit(First(Hanging(t))),
         sched' = SetStat(sched, First(Hanging(t)), "DIED")
  PROVE  \E c \in Hanging(t) :
           /\ c \in UserTasks /\ c \in Listed /\ c # t
           /\ sched.stat[c] = "HANGING"
           /\ sched' \in SchedState /\ Consistent(sched') /\ IdleOK(sched')
           /\ sched'.cur = sched.cur /\ sched'.panic = FALSE
           /\ \A u \in Tasks : sched'.stat[u] = IF u = c THEN "DIED"
                                                ELSE sched.stat[u]
           /\ all_threads_list' \in Seq(Tasks) /\ NoDup(all_threads_list')
           /\ Listed' = Listed \ {c}
           /\ pid_pool' = pid_pool \ {pid[c]}
           /\ fault' \in BOOLEAN
           /\ pid[c] # 0 => fault' = fault
<1>1. /\ sched \in SchedState /\ Consistent(sched) /\ IdleOK(sched)
      /\ sched.panic = FALSE /\ sched.stat[t] = "RUNNING"
  BY CurLemma
<1> DEFINE c == First(Hanging(t))
<1>2. c \in Hanging(t) /\ c \in Listed /\ sched.stat[c] = "HANGING"
  <2>1. Hanging(t) \subseteq Listed
    BY DEF Hanging, Children
  <2>2. c \in Hanging(t)
    BY <2>1, FirstLemma DEF PInv, TypeOK
  <2> QED BY <2>1, <2>2 DEF Hanging
<1>3. thread_exit(c) /\ sched' = SetStat(sched, c, "DIED")
  OBVIOUS
<1> HIDE DEF c
<1>4. c \in UserTasks /\ c \in Tasks /\ c # t
  BY <1>1, <1>2, SpecialLemma DEF Listed, PInv, SleepInv, IdleOK
<1>5. /\ sched' \in SchedState /\ sched'.cur = sched.cur
      /\ sched'.ready = sched.ready /\ sched'.panic = FALSE
      /\ \A u \in Tasks : sched'.stat[u] = IF u = c THEN "DIED"
                                           ELSE sched.stat[u]
  <2>1. "DIED" \in task_stat
    BY DEF task_stat
  <2> QED BY <1>1, <1>3, <1>4, <2>1, SetStatLemma
<1>6. Consistent(sched')
  BY <1>1, <1>2, <1>4, <1>5 DEF Consistent
<1>7. IdleOK(sched')
  <2>1. sched'.stat[idle_thread] = sched.stat[idle_thread]
    BY <1>4, <1>5, SpecialLemma
  <2> QED BY <1>1, <2>1 DEF IdleOK
<1>8. /\ all_threads_list' \in Seq(Tasks) /\ NoDup(all_threads_list')
      /\ Listed' = Listed \ {c}
      /\ pid_pool' = pid_pool \ {pid[c]}
      /\ fault' \in BOOLEAN
      /\ pid[c] # 0 => fault' = fault
  BY <1>2, <1>3, ExitLemma
<1> QED BY <1>2, <1>4, <1>5, <1>6, <1>7, <1>8

\* sys_wait puts the caller to sleep and nobody else.
LEMMA WaitSleepEffect ==
  ASSUME PInv, NEW t \in Tasks, sched.cur = t, pc[t] \in {"user", "wait"},
         sched' = thread_block(sched, "WAITING")
  PROVE  /\ sched' \in SchedState /\ Consistent(sched') /\ IdleOK(sched')
         /\ sched'.panic = FALSE
         /\ sched'.stat[t] = "WAITING"
         /\ \A u \in Tasks \ {t, idle_thread}, x \in Parked :
              sched'.stat[u] = x <=> sched.stat[u] = x
         /\ \A u \in Tasks :
              /\ sched'.stat[u] = "DIED" <=> sched.stat[u] = "DIED"
              /\ sched'.stat[u] = "HANGING" <=> sched.stat[u] = "HANGING"
<1>1. /\ sched \in SchedState /\ Consistent(sched) /\ IdleOK(sched)
      /\ sched.panic = FALSE /\ sched.stat[t] = "RUNNING" /\ t # idle_thread
  BY CurLemma, WaiterLemma
<1>2. /\ sched' \in SchedState /\ Consistent(sched') /\ IdleOK(sched')
      /\ sched'.panic = FALSE
      /\ \A u \in Tasks \ {idle_thread}, x \in Parked :
           sched'.stat[u] = x <=> IF u = sched.cur THEN "WAITING" = x
                                  ELSE sched.stat[u] = x
  <2>1. "WAITING" \in Asleep /\ sched.cur # idle_thread
    BY <1>1 DEF Asleep
  <2> QED BY <1>1, <2>1, BlockLemma
<1>3. /\ \A u \in Tasks \ {t, idle_thread}, x \in Parked :
            sched'.stat[u] = x <=> sched.stat[u] = x
      /\ sched'.stat[t] = "WAITING"
  BY <1>1, <1>2 DEF Parked, Asleep
<1>4. \A u \in Tasks : /\ sched'.stat[u] = "DIED" <=> sched.stat[u] = "DIED"
                       /\ sched'.stat[u] = "HANGING" <=> sched.stat[u] = "HANGING"
  <2>1. "DIED" \in Parked /\ "HANGING" \in Parked
    BY DEF Parked, Asleep
  <2>2. ASSUME NEW u \in Tasks \ {t, idle_thread}
        PROVE  /\ sched'.stat[u] = "DIED" <=> sched.stat[u] = "DIED"
               /\ sched'.stat[u] = "HANGING" <=> sched.stat[u] = "HANGING"
    BY <1>3, <2>1
  <2> QED BY <1>1, <1>2, <1>3, <2>2 DEF IdleOK
<1> QED BY <1>2, <1>3, <1>4

\* A turn of sys_wait: reap a child, return, or sleep.
LEMMA WaitStep ==
  ASSUME PInv, NEW t \in Tasks, sys_wait(t)
  PROVE  PInv'
<1>1. /\ sched.cur = t /\ pc[t] \in {"user", "wait"}
      /\ UNCHANGED <<pid, parent_pid, leaked>>
  BY DEF sys_wait, Exec
<1>2. /\ t \in Procs /\ t # idle_thread /\ t # main_thread
      /\ t = init_proc \/ t \in UserTasks
      /\ pc[init_proc] # "start"
      /\ sched.stat[t] = "RUNNING"
  BY <1>1, WaiterLemma
<1>3. sched \in SchedState
  BY CurLemma
<1>4. PICK l \in {"user", "wait"} : pc' = [pc EXCEPT ![t] = l]
  BY DEF sys_wait, Goto
<1>5. /\ pc' \in [Tasks -> Places]
      /\ pc'[t] = l
      /\ \A u \in Tasks \ {t} : pc'[u] = pc[u]
  BY <1>4 DEF PInv, TypeOK, Places
<1>6. Booting' <=> Booting
  BY <1>2, <1>5, SpecialLemma DEF Booting
<1>7. PcInv'
  BY <1>2, <1>5, SpecialLemma DEF PInv, PcInv
<1>8. BootInv'
  BY <1>1, <1>2, <1>5, <1>6, SpecialLemma DEF PInv, BootInv
<1>9. CASE /\ Hanging(t) # {}
           /\ thread_exit(First(Hanging(t)))
           /\ sched' = SetStat(sched, First(Hanging(t)), "DIED")
  <2>1. PICK c \in Hanging(t) :
           /\ c \in UserTasks /\ c \in Listed /\ c # t
           /\ sched.stat[c] = "HANGING"
           /\ sched' \in SchedState /\ Consistent(sched') /\ IdleOK(sched')
           /\ sched'.cur = sched.cur /\ sched'.panic = FALSE
           /\ \A u \in Tasks : sched'.stat[u] = IF u = c THEN "DIED"
                                                ELSE sched.stat[u]
           /\ all_threads_list' \in Seq(Tasks) /\ NoDup(all_threads_list')
           /\ Listed' = Listed \ {c}
           /\ pid_pool' = pid_pool \ {pid[c]}
           /\ fault' \in BOOLEAN
    BY <1>1, <1>9, ReapEffect
  <2>3. c \in Tasks
    BY <2>1, SpecialLemma
  <2>8. TypeOK'
    BY <1>1, <1>5, <2>1 DEF PInv, TypeOK, Places
  <2>9. SchedInv'
    BY <2>1 DEF SchedInv
  <2>10. ListInv'
    BY <2>1, <2>3 DEF PInv, ListInv
  <2>11. SleepInv'
    BY <1>2, <1>5, <1>6, <2>1, <2>3, SpecialLemma DEF PInv, SleepInv
  <2>12. ParentInv'
    <3>1. Procs' = Procs \ {c} /\ Procs \subseteq Tasks
      BY <2>1 DEF Procs, Listed
    <3>2. ASSUME NEW u \in Procs \ {init_proc}, u # c
          PROVE  \E p \in Procs' : /\ pid'[p] = parent_pid'[u]
                                   /\ sched'.stat[p] # "HANGING"
      <4>1. PICK p \in Procs : pid[p] = parent_pid[u] /\ sched.stat[p] # "HANGING"
        BY DEF PInv, ParentInv
      <4> QED BY <1>1, <2>1, <3>1, <4>1
    <3> QED BY <1>1, <3>1, <3>2 DEF PInv, ParentInv
  <2> QED BY <1>7, <1>8, <2>8, <2>9, <2>10, <2>11, <2>12 DEF PInv
<1>10. CASE UNCHANGED <<sched, all_threads_list, pid_pool, fault>> /\ l = "user"
  <2>1. TypeOK' /\ ListInv' /\ ParentInv'
    BY <1>1, <1>3, <1>5, <1>10, QuietLemma DEF Links
  <2>2. SchedInv'
    BY <1>10 DEF PInv, SchedInv
  <2>3. SleepInv'
    BY <1>2, <1>5, <1>6, <1>10, SpecialLemma DEF PInv, SleepInv
  <2> QED BY <1>7, <1>8, <2>1, <2>2, <2>3 DEF PInv
<1>11. CASE /\ sched' = thread_block(sched, "WAITING") /\ l = "wait"
            /\ UNCHANGED <<all_threads_list, pid_pool, fault>>
  <2>1. /\ sched' \in SchedState /\ Consistent(sched') /\ IdleOK(sched')
        /\ sched'.panic = FALSE
        /\ sched'.stat[t] = "WAITING"
        /\ \A u \in Tasks \ {t, idle_thread}, x \in Parked :
             sched'.stat[u] = x <=> sched.stat[u] = x
        /\ \A u \in Tasks :
             /\ sched'.stat[u] = "DIED" <=> sched.stat[u] = "DIED"
             /\ sched'.stat[u] = "HANGING" <=> sched.stat[u] = "HANGING"
    BY <1>1, <1>11, WaitSleepEffect
  <2>2. SchedInv'
    BY <2>1 DEF SchedInv
  <2>3. /\ \A u \in Tasks \ {t, idle_thread}, x \in Parked :
              sched'.stat[u] = x <=> sched.stat[u] = x
        /\ sched'.stat[t] = "WAITING"
    BY <2>1
  <2>5. TypeOK' /\ ListInv' /\ ParentInv'
    BY <1>1, <1>5, <1>11, <2>1, QuietLemma DEF Links
  <2>6. SleepInv'
    <3>1. /\ sched'.stat[main_thread] \notin {"HANGING", "WAITING"}
          /\ sched'.stat[main_thread] = "DIED" <=> pc'[main_thread] = "gone"
          /\ sched'.stat[main_thread] = "BLOCKED" => Booting'
      BY <1>2, <1>5, <1>6, <2>3, SpecialLemma
         DEF PInv, SleepInv, Parked, Asleep
    <3>2. /\ sched'.stat[init_proc] \notin {"HANGING", "DIED"}
          /\ sched'.stat[init_proc] = "WAITING" => pc'[init_proc] = "wait"
          /\ sched'.stat[init_proc] = "BLOCKED"
               <=> pc'[init_proc] = "armed" /\ Booting'
      <4>1. CASE t = init_proc
        BY <1>2, <1>5, <1>11, <2>3, <4>1
      <4>2. CASE t # init_proc
        BY <1>2, <1>5, <1>6, <2>3, <4>2, SpecialLemma
           DEF PInv, SleepInv, Parked, Asleep
      <4> QED BY <4>1, <4>2
    <3>3. ASSUME NEW u \in UserTasks
          PROVE  /\ sched'.stat[u] # "BLOCKED"
                 /\ sched'.stat[u] = "WAITING" => pc'[u] = "wait"
                 /\ pc'[u] = "gone" <=> \/ sched'.stat[u] = "HANGING"
                                        \/ sched'.stat[u] = "DIED"
      <4>1. CASE t = u
        BY <1>2, <1>5, <1>11, <2>3, <4>1
      <4>2. CASE t # u
        BY <1>2, <1>5, <1>6, <2>3, <4>2, SpecialLemma
           DEF PInv, SleepInv, Parked, Asleep
      <4> QED BY <4>1, <4>2
    <3> QED BY <3>1, <3>2, <3>3 DEF SleepInv
  <2> QED BY <1>7, <1>8, <2>2, <2>5, <2>6 DEF PInv
<1> QED
  <2>1. \/ /\ Hanging(t) # {}
           /\ thread_exit(First(Hanging(t)))
           /\ sched' = SetStat(sched, First(Hanging(t)), "DIED")
        \/ /\ UNCHANGED <<sched, all_threads_list, pid_pool, fault>>
           /\ Goto(t, "user")
        \/ /\ sched' = thread_block(sched, "WAITING") /\ Goto(t, "wait")
           /\ UNCHANGED <<all_threads_list, pid_pool, fault>>
    BY DEF sys_wait
  <2>2. ASSUME NEW m \in Places, Goto(t, m) PROVE l = m
    <3>1. pc' = [pc EXCEPT ![t] = m] /\ pc \in [Tasks -> Places]
      BY <2>2 DEF Goto, PInv, TypeOK, Places
    <3> QED BY <1>5, <3>1
  <2> QED BY <1>9, <1>10, <1>11, <2>1, <2>2 DEF Places

\* The parent a process that exits looks for is there, and is woken only if
\* it sleeps in sys_wait.
LEMMA WakeParentLemma ==
  ASSUME PInv, sched.cur \in Procs \ {init_proc}
  PROVE  LET r == WakeParent(sched, sched.cur)
         IN  /\ r \in SchedState /\ Consistent(r) /\ IdleOK(r)
             /\ r.panic = FALSE /\ r.cur = sched.cur
             /\ \A u \in Tasks : \/ r.stat[u] = sched.stat[u]
                                 \/ /\ sched.stat[u] = "WAITING"
                                    /\ r.stat[u] = "READY"
             /\ r.stat[First(pid2thread(parent_pid[sched.cur]))] # "WAITING"
<1> DEFINE t == sched.cur
           S == pid2thread(parent_pid[t])
           p == First(S)
           r == WakeParent(sched, t)
<1>1. /\ sched \in SchedState /\ Consistent(sched) /\ IdleOK(sched)
      /\ sched.panic = FALSE
  BY CurLemma
<1>2. S # {} /\ S \subseteq Listed
  BY DEF PInv, ParentInv, pid2thread, Procs
<1>3. p \in Listed /\ p \in Tasks
  BY <1>2, FirstLemma DEF PInv, TypeOK, Listed
<1>4. r = IF sched.stat[p] = "WAITING" THEN thread_unblock(sched, p) ELSE sched
  BY <1>2 DEF WakeParent
<1> HIDE DEF p, r
<1>5. CASE sched.stat[p] = "WAITING"
  <2>1. sched.stat[p] \in Asleep /\ p \in Tasks \ {idle_thread}
    BY <1>1, <1>3, <1>5 DEF Asleep, IdleOK
  <2>2. r = thread_unblock(sched, p)
    BY <1>4, <1>5
  <2>3. /\ r \in SchedState /\ Consistent(r) /\ IdleOK(r)
        /\ r.panic = sched.panic /\ r.cur = sched.cur
        /\ \A u \in Tasks : r.stat[u] = IF u = p THEN "READY" ELSE sched.stat[u]
    BY <1>1, <2>1, <2>2, WakeLemma
  <2>4. r.stat[p] # "WAITING"
    BY <1>3, <2>3
  <2> QED BY <1>1, <1>5, <2>3, <2>4 DEF r, p
<1>6. CASE sched.stat[p] # "WAITING"
  <2>1. r = sched
    BY <1>4, <1>6
  <2>2. r.stat[p] # "WAITING"
    BY <1>6, <2>1
  <2> QED BY <1>1, <2>1, <2>2 DEF r, p
<1> QED BY <1>5, <1>6

\* The caller of sys_exit hangs, its parent is woken, and nobody else changes
\* state.
LEMMA ExitEffect ==
  ASSUME PInv, NEW t \in Tasks, sys_exit(t)
  PROVE  /\ sched' \in SchedState /\ Consistent(sched') /\ IdleOK(sched')
         /\ sched'.panic = FALSE
         /\ sched'.stat[t] = "HANGING"
         /\ \A u \in Tasks \ {t, idle_thread} :
              /\ sched'.stat[u] = "HANGING" <=> sched.stat[u] = "HANGING"
              /\ sched'.stat[u] = "DIED" <=> sched.stat[u] = "DIED"
              /\ sched'.stat[u] = "BLOCKED" <=> sched.stat[u] = "BLOCKED"
              /\ sched'.stat[u] = "WAITING" =>
                   /\ sched.stat[u] = "WAITING"
                   /\ u # First(pid2thread(parent_pid[t]))
         /\ \A u \in Tasks : sched'.stat[u] = "DIED" <=> sched.stat[u] = "DIED"
<1>1. /\ sched.cur = t /\ pc[t] = "user" /\ t # init_proc
      /\ sched' = thread_block(WakeParent(sched, sched.cur), "HANGING")
  BY DEF sys_exit, Exec
<1>2. /\ t \in Procs /\ t # idle_thread /\ sched.stat[t] = "RUNNING"
  BY <1>1, WaiterLemma
<1> DEFINE s == WakeParent(sched, sched.cur)
<1>3. /\ s \in SchedState /\ Consistent(s) /\ IdleOK(s)
      /\ s.panic = FALSE /\ s.cur = t
      /\ \A u \in Tasks : \/ s.stat[u] = sched.stat[u]
                          \/ /\ sched.stat[u] = "WAITING"
                             /\ s.stat[u] = "READY"
      /\ s.stat[First(pid2thread(parent_pid[t]))] # "WAITING"
  BY <1>1, <1>2, WakeParentLemma
<1>4. sched' = thread_block(s, "HANGING")
  BY <1>1
<1> HIDE DEF s
<1>5. /\ sched' \in SchedState /\ Consistent(sched') /\ IdleOK(sched')
      /\ sched'.panic = FALSE
      /\ \A u \in Tasks \ {idle_thread}, x \in Parked :
           sched'.stat[u] = x <=> IF u = s.cur THEN "HANGING" = x
                                  ELSE s.stat[u] = x
  <2>1. "HANGING" \in Asleep /\ s.cur # idle_thread
    BY <1>2, <1>3 DEF Asleep
  <2> QED BY <1>3, <1>4, <2>1, BlockLemma
<1>8. /\ sched'.stat[t] = "HANGING"
      /\ \A u \in Tasks \ {t, idle_thread} :
           /\ sched'.stat[u] = "HANGING" <=> sched.stat[u] = "HANGING"
           /\ sched'.stat[u] = "DIED" <=> sched.stat[u] = "DIED"
           /\ sched'.stat[u] = "BLOCKED" <=> sched.stat[u] = "BLOCKED"
           /\ sched'.stat[u] = "WAITING" =>
                /\ sched.stat[u] = "WAITING"
                /\ u # First(pid2thread(parent_pid[t]))
  <2>1. /\ "HANGING" \in Parked /\ "DIED" \in Parked
        /\ "BLOCKED" \in Parked /\ "WAITING" \in Parked
    BY DEF Parked, Asleep
  <2>2. sched'.stat[t] = "HANGING"
    BY <1>2, <1>3, <1>5, <2>1
  <2>3. ASSUME NEW u \in Tasks \ {t, idle_thread}
        PROVE  /\ sched'.stat[u] = "HANGING" <=> sched.stat[u] = "HANGING"
               /\ sched'.stat[u] = "DIED" <=> sched.stat[u] = "DIED"
               /\ sched'.stat[u] = "BLOCKED" <=> sched.stat[u] = "BLOCKED"
               /\ sched'.stat[u] = "WAITING" =>
                /\ sched.stat[u] = "WAITING"
                /\ u # First(pid2thread(parent_pid[t]))
    <3>1. \A x \in Parked : sched'.stat[u] = x <=> s.stat[u] = x
      BY <1>3, <1>5
    <3> QED BY <1>3, <2>1, <3>1
  <2> QED BY <2>2, <2>3
<1>9. \A u \in Tasks : sched'.stat[u] = "DIED" <=> sched.stat[u] = "DIED"
  <2>1. IdleOK(sched)
    BY CurLemma
  <2> QED BY <1>2, <1>5, <1>8, <2>1 DEF IdleOK
<1> QED BY <1>5, <1>8, <1>9

\* An exit hands its children to init before it hangs.
LEMMA ExitStep ==
  ASSUME PInv, NEW t \in Tasks, sys_exit(t)
  PROVE  PInv'
<1>1. /\ sched.cur = t /\ pc[t] = "user" /\ t # init_proc
      /\ parent_pid' = [c \in Tasks |-> IF c \in Children(t) THEN 1
                                        ELSE parent_pid[c]]
      /\ pc' = [pc EXCEPT ![t] = "gone"]
      /\ UNCHANGED <<all_threads_list, pid, pid_pool, fault, leaked>>
  BY DEF sys_exit, Exec, Adopt, Goto
<1>2. /\ t \in Procs /\ t \in UserTasks /\ t # idle_thread /\ t # main_thread
      /\ pc[init_proc] # "start"
      /\ sched.stat[t] = "RUNNING"
  BY <1>1, CallerLemma, CurLemma DEF Procs
<1>5. /\ sched' \in SchedState /\ Consistent(sched') /\ IdleOK(sched')
      /\ sched'.panic = FALSE
  BY ExitEffect
<1>6. SchedInv'
  BY <1>5 DEF SchedInv
<1>7. /\ pc' \in [Tasks -> Places]
      /\ pc'[t] = "gone"
      /\ \A u \in Tasks \ {t} : pc'[u] = pc[u]
  BY <1>1 DEF PInv, TypeOK, Places
<1>8. /\ sched'.stat[t] = "HANGING"
      /\ \A u \in Tasks \ {t, idle_thread} :
           /\ sched'.stat[u] = "HANGING" <=> sched.stat[u] = "HANGING"
           /\ sched'.stat[u] = "DIED" <=> sched.stat[u] = "DIED"
           /\ sched'.stat[u] = "BLOCKED" <=> sched.stat[u] = "BLOCKED"
           /\ sched'.stat[u] = "WAITING" => sched.stat[u] = "WAITING"
  BY ExitEffect
<1>9. \A u \in Tasks : sched'.stat[u] = "DIED" <=> sched.stat[u] = "DIED"
  BY ExitEffect
<1>10. /\ Listed' = Listed /\ Procs' = Procs
       /\ Booting' <=> Booting
  BY <1>1, <1>2, <1>7, SpecialLemma DEF Listed, Procs, Booting
<1>11. TypeOK'
  <2>1. 1 \in 0..MaxPid
    BY ProcessAssumption
  <2>2. parent_pid' \in [Tasks -> 0..MaxPid]
    BY <1>1, <2>1 DEF PInv, TypeOK
  <2> QED BY <1>1, <1>5, <1>7, <2>2 DEF PInv, TypeOK, Places
<1>12. ListInv'
  BY <1>1, <1>9, <1>10 DEF PInv, ListInv
<1>13. PcInv'
  BY <1>2, <1>7, SpecialLemma DEF PInv, PcInv
<1>14. SleepInv'
  BY <1>2, <1>7, <1>8, <1>10, SpecialLemma DEF PInv, SleepInv
<1>15. BootInv'
  BY <1>2, <1>7, <1>10, SpecialLemma DEF PInv, BootInv
<1>16. ParentInv'
  <2>1. Procs \subseteq Tasks /\ Procs \subseteq Listed /\ idle_thread \notin Procs
    BY DEF Procs, Listed
  <2>2. init_proc \in Procs /\ sched.stat[init_proc] # "HANGING"
    BY SpecialLemma DEF PInv, SleepInv, ListInv, Procs
  <2>3. ASSUME NEW u \in Procs \ {init_proc}
        PROVE  \E p \in Procs : /\ pid[p] = parent_pid'[u]
                                /\ sched'.stat[p] # "HANGING"
    <3>1. CASE u \in Children(t)
      <4>1. parent_pid'[u] = pid[init_proc]
        BY <1>1, <2>1, <3>1 DEF PInv, ParentInv
      <4>2. sched'.stat[init_proc] # "HANGING"
        BY <1>1, <1>8, <2>1, <2>2
      <4> QED BY <2>2, <4>1, <4>2
    <3>2. CASE u \notin Children(t)
      <4>1. PICK p \in Procs : pid[p] = parent_pid[u] /\ sched.stat[p] # "HANGING"
        BY DEF PInv, ParentInv
      <4>2. p # t
        BY <2>1, <3>2, <4>1 DEF Children
      <4> QED BY <1>1, <1>8, <2>1, <3>2, <4>1, <4>2
    <3> QED BY <3>1, <3>2
  <2> QED BY <1>1, <1>10, <2>3 DEF PInv, ParentInv
<1> QED BY <1>6, <1>11, <1>12, <1>13, <1>14, <1>15, <1>16 DEF PInv

-----------------------------------------------------------------------------
(* The invariant *)

\* The kernel starts in the invariant.
LEMMA InitPInv == Init => PInv
<1> SUFFICES ASSUME Init PROVE PInv
  OBVIOUS
<1>1. /\ sched.cur = main_thread /\ sched.ready = <<init_proc, idle_thread>>
      /\ sched.panic = FALSE
      /\ sched.stat[main_thread] = "RUNNING"
      /\ sched.stat[init_proc] = "READY" /\ sched.stat[idle_thread] = "READY"
      /\ \A t \in UserTasks : sched.stat[t] = "DIED"
  BY SpecialLemma DEF Init, UserTasks, Special
<1>2. /\ pc[main_thread] = "disk" /\ pc[init_proc] = "start"
      /\ pc[idle_thread] = "loop" /\ \A t \in UserTasks : pc[t] = "gone"
  BY SpecialLemma DEF Init
<1>3. /\ Len(<<init_proc, idle_thread>>) = 2
      /\ Len(<<init_proc, main_thread, idle_thread>>) = 3
  OBVIOUS
<1>4. /\ \A u : elem_find(sched.ready, u) <=> u = init_proc \/ u = idle_thread
      /\ NoDup(sched.ready)
  BY <1>1, <1>3, SpecialLemma DEF elem_find, NoDup
<1>5. all_threads_list = <<init_proc, main_thread, idle_thread>>
  BY DEF Init
<1>6. /\ \A u : elem_find(all_threads_list, u)
                  <=> u = init_proc \/ u = main_thread \/ u = idle_thread
      /\ NoDup(all_threads_list)
  BY <1>3, <1>5, SpecialLemma DEF elem_find, NoDup
<1>7. Listed = {init_proc, main_thread, idle_thread} /\ Procs = {init_proc}
  BY <1>6, SpecialLemma DEF Listed, Procs
<1>8. TypeOK
  <2>1. sched \in SchedState
    <3>1. sched.stat \in [Tasks -> task_stat]
      BY DEF Init, task_stat
    <3>2. <<init_proc, idle_thread>> \in Seq(Tasks) /\ prio \in [Tasks -> Nat]
      BY SpecialLemma, SchedAssumption
    <3> QED BY <3>1, <3>2, SpecialLemma DEF Init, SchedState
  <2>2. pc \in [Tasks -> Places]
    BY DEF Init, Places
  <2>3. all_threads_list \in Seq(Tasks)
    BY <1>5, SpecialLemma
  <2>4. /\ pid \in [Tasks -> 0..MaxPid] /\ parent_pid \in [Tasks -> 0..MaxPid]
        /\ pid_pool \subseteq 1..MaxPid /\ leaked \subseteq Tasks
    BY ProcessAssumption DEF Init
  <2>5. fault \in BOOLEAN
    BY DEF Init
  <2> QED BY <2>1, <2>2, <2>3, <2>4, <2>5 DEF TypeOK, Places
<1>9. SchedInv
  <2>1. Consistent(sched)
    BY <1>1, <1>4, SpecialLemma DEF Consistent
  <2> QED BY <1>1, <2>1 DEF SchedInv, IdleOK
<1>10. ListInv
  BY <1>1, <1>6, <1>7, SpecialLemma DEF ListInv
<1>11. PcInv
  BY <1>2 DEF PcInv
<1>12. SleepInv
  BY <1>1, <1>2 DEF SleepInv, Booting
<1>13. BootInv
  BY <1>1, <1>2, SpecialLemma DEF BootInv, Booting
<1>14. ParentInv
  BY <1>7, SpecialLemma DEF ParentInv, Init
<1> QED BY <1>8, <1>9, <1>10, <1>11, <1>12, <1>13, <1>14 DEF PInv

\* Every step keeps it.
LEMMA NextPInv == PInv /\ [Next]_vars => PInv'
<1> SUFFICES ASSUME PInv, [Next]_vars PROVE PInv'
  OBVIOUS
<1>1. CASE MainDisk
  BY <1>1, MainDiskStep
<1>2. CASE InitStart
  BY <1>2, InitStartStep
<1>3. CASE MainUnblock
  BY <1>3, MainUnblockStep
<1>4. CASE MainExit
  BY <1>4, MainExitStep
<1>5. ASSUME NEW t \in Tasks, sys_fork(t) PROVE PInv'
  BY <1>5, ForkStep
<1>6. ASSUME NEW t \in Tasks, ForkFails(t) PROVE PInv'
  BY <1>6, ForkFailsStep
<1>7. ASSUME NEW t \in Tasks, sys_exit(t) PROVE PInv'
  BY <1>7, ExitStep
<1>8. ASSUME NEW t \in Tasks, sys_wait(t) PROVE PInv'
  BY <1>8, WaitStep
<1>9. CASE Timer
  BY <1>9, TimerStep
<1>10. CASE DiskInterrupt
  BY <1>10, DiskInterruptStep
<1>11. CASE Idle
  BY <1>11, IdleStep
<1>12. CASE UNCHANGED vars
  BY <1>12 DEF vars, PInv, TypeOK, SchedInv, ListInv, PcInv, SleepInv, BootInv,
               ParentInv, Booting, Listed, Procs, UserTasks
<1> QED BY <1>1, <1>2, <1>3, <1>4, <1>5, <1>6, <1>7, <1>8, <1>9, <1>10, <1>11,
           <1>12, SpecialLemma DEF Next

\* The processes keep the invariant for ever.
THEOREM ProcessInvariant == Spec => []PInv
BY InitPInv, NextPInv, PTL DEF Spec

\* No ASSERT of the scheduler fails and no exit looks for a parent that is not
\* in all_threads_list: thread_unblock finds its task asleep, the queue never
\* has a task twice, and init_adopt_a_child has left no orphan.  It holds even
\* when fork is out of pids, up to the release of a pid 0.
THEOREM AssertsHold == Spec => []~sched.panic
<1>1. PInv => ~sched.panic
  BY DEF PInv, SchedInv
<1> QED BY <1>1, ProcessInvariant, PTL

\* all_threads_list, the ready queue and the states agree, so that a PCB whose
\* page thread_exit has freed is neither running nor queued to run.
THEOREM ListsAgreeTheorem == Spec => []ListsAgree
<1>1. PInv => ListsAgree
  BY DEF PInv, SchedInv, ListInv, ListsAgree
<1> QED BY <1>1, ProcessInvariant, PTL

-----------------------------------------------------------------------------
(* Pids *)

\* The steps that are not system calls neither put a task to sleep in
\* sys_wait, nor wake one, nor end one.
LEMMA QuietEffect ==
  ASSUME PInv,
         MainDisk \/ InitStart \/ MainUnblock \/ Timer \/ DiskInterrupt \/ Idle
  PROVE  /\ UNCHANGED Links
         /\ \A u \in Tasks :
              /\ sched'.stat[u] = "HANGING" <=> sched.stat[u] = "HANGING"
              /\ sched'.stat[u] = "WAITING" <=> sched.stat[u] = "WAITING"
<1> DEFINE Same == \A u \in Tasks :
              /\ sched'.stat[u] = "HANGING" <=> sched.stat[u] = "HANGING"
              /\ sched'.stat[u] = "WAITING" <=> sched.stat[u] = "WAITING"
<1>1. /\ sched \in SchedState /\ Consistent(sched) /\ IdleOK(sched)
      /\ sched.cur \in Tasks /\ sched.stat[sched.cur] = "RUNNING"
  BY CurLemma
<1>2. "HANGING" \in Parked /\ "WAITING" \in Parked /\ "BLOCKED" \in Asleep
  BY DEF Parked, Asleep
<1>3. UNCHANGED Links
  BY DEF MainDisk, InitStart, MainUnblock, Timer, DiskInterrupt, Idle
<1>4. CASE sched' = thread_block(sched, "BLOCKED")
  <2>1. /\ IdleOK(sched')
        /\ \A u \in Tasks \ {idle_thread}, x \in Parked :
             sched'.stat[u] = x <=> IF u = sched.cur THEN "BLOCKED" = x
                                    ELSE sched.stat[u] = x
    BY <1>1, <1>2, <1>4, BlockLemma
  <2>2. ASSUME NEW u \in Tasks \ {idle_thread}
        PROVE  /\ sched'.stat[u] = "HANGING" <=> sched.stat[u] = "HANGING"
               /\ sched'.stat[u] = "WAITING" <=> sched.stat[u] = "WAITING"
    BY <1>1, <1>2, <2>1
  <2>3. Same
    BY <1>1, <2>1, <2>2 DEF IdleOK
  <2> QED BY <1>3, <2>3
<1>5. CASE sched' = intr_time_hdl(sched)
  <2>1. IdleOK(sched') /\ SameSleepers(sched, sched')
    BY <1>1, <1>5, TimerLemma
  <2>2. ASSUME NEW u \in Tasks \ {idle_thread}
        PROVE  /\ sched'.stat[u] = "HANGING" <=> sched.stat[u] = "HANGING"
               /\ sched'.stat[u] = "WAITING" <=> sched.stat[u] = "WAITING"
    BY <1>2, <2>1 DEF SameSleepers
  <2>3. Same
    BY <1>1, <2>1, <2>2 DEF IdleOK
  <2> QED BY <1>3, <2>3
<1>6. ASSUME NEW p \in Tasks \ {idle_thread}, sched.stat[p] = "BLOCKED",
             sched' = thread_unblock(sched, p)
      PROVE  Same
  <2>1. sched.stat[p] \in Asleep
    BY <1>6 DEF Asleep
  <2>2. \A u \in Tasks : sched'.stat[u] = IF u = p THEN "READY"
                                          ELSE sched.stat[u]
    BY <1>1, <1>6, <2>1, WakeLemma
  <2> QED BY <1>6, <2>2
<1>7. CASE sched' = sched
  BY <1>3, <1>7
<1>8. CASE MainUnblock
  <2>1. pc[main_thread] = "unblock" /\ sched.cur = main_thread
    BY <1>8 DEF MainUnblock, Exec
  <2>2. sched.stat[init_proc] = "BLOCKED"
    BY <2>1, SpecialLemma DEF PInv, BootInv, SleepInv, Booting
  <2>3. Same
    BY <1>6, <1>8, <2>2, SpecialLemma DEF MainUnblock
  <2> QED BY <1>3, <2>3
<1>9. CASE DiskInterrupt
  <2>1. Same
    BY <1>6, <1>9, SpecialLemma DEF DiskInterrupt
  <2> QED BY <1>3, <2>1
<1> QED BY <1>4, <1>5, <1>7, <1>8, <1>9 DEF MainDisk, InitStart, Timer, Idle

\* Every step of Next by what it does to the lists, the pids and the states.
LEMMA NextCases ==
  ASSUME Next
  PROVE  \/ MainDisk \/ InitStart \/ MainUnblock \/ Timer \/ DiskInterrupt \/ Idle
         \/ MainExit
         \/ \E t \in Tasks : sys_fork(t) \/ ForkFails(t) \/ sys_exit(t) \/ sys_wait(t)
BY SpecialLemma DEF Next

\* A turn of sys_wait that does not reap only changes states.
LEMMA WaitCases ==
  ASSUME PInv, NEW t \in Tasks, sys_wait(t)
  PROVE  /\ sched.cur = t /\ pc[t] \in {"user", "wait"}
         /\ UNCHANGED <<pid, parent_pid, leaked>>
         /\ \/ /\ Hanging(t) # {}
               /\ thread_exit(First(Hanging(t)))
               /\ sched' = SetStat(sched, First(Hanging(t)), "DIED")
            \/ UNCHANGED <<sched, all_threads_list, pid_pool, fault>>
            \/ /\ sched' = thread_block(sched, "WAITING")
               /\ Hanging(t) = {} /\ Children(t) # {}
               /\ UNCHANGED <<all_threads_list, pid_pool, fault>>
BY DEF sys_wait, Exec

\* Pids stay unique: alloc_pid gives out one that is free, and thread_exit
\* frees the pid of the task it unlinks.
LEMMA PidStep ==
  ASSUME PInv, PidLeft, PidInv, [Next]_vars
  PROVE  PidInv'
<1>1. /\ pid_pool \subseteq 1..MaxPid
      /\ pid \in [Tasks -> 0..MaxPid] /\ parent_pid \in [Tasks -> 0..MaxPid]
      /\ Listed \subseteq Tasks /\ Listed' \subseteq Tasks
      /\ \A t, u \in Listed : pid[t] = pid[u] => t = u
      /\ \A t \in Listed : pid[t] \in pid_pool
      /\ parent_pid[main_thread] = 0
  BY DEF PInv, TypeOK, Listed, PidInv, PidsUnique
<1>2. CASE UNCHANGED Links
  BY <1>2 DEF Links, PidInv, PidsUnique, Listed
<1>3. ASSUME NEW t \in Listed, Listed' = Listed \ {t},
             pid_pool' = pid_pool \ {pid[t]}, UNCHANGED <<pid, parent_pid>>
      PROVE  PidInv'
  BY <1>1, <1>3 DEF PidInv, PidsUnique
<1>4. CASE MainExit
  <2>1. /\ Listed' = Listed \ {main_thread}
        /\ pid_pool' = pid_pool \ {pid[main_thread]}
        /\ main_thread \in Listed
    BY <1>4, MainExitEffect, CallerLemma
  <2>2. UNCHANGED <<pid, parent_pid>>
    BY <1>4 DEF MainExit
  <2> QED BY <1>3, <2>1, <2>2
<1>5. ASSUME NEW t \in Tasks, sys_fork(t)
      PROVE  PidInv'
  <2>1. PICK c \in FreePCB :
              /\ c \in UserTasks /\ c \notin Listed
              /\ pid' = [pid EXCEPT ![c] = alloc_pid]
              /\ pid_pool' = pid_pool \cup ({alloc_pid} \ {0})
              /\ parent_pid' = [parent_pid EXCEPT ![c] = pid[t]]
              /\ Listed' = Listed \cup {c}
    BY <1>5, ForkEffect
  <2>2. alloc_pid \in 1..MaxPid /\ alloc_pid \notin pid_pool
    BY <1>1, AllocLemma DEF PidLeft
  <2> DEFINE a == alloc_pid
  <2>3. /\ pid'[c] = a /\ pid_pool' = pid_pool \cup {a} /\ a \notin pid_pool
        /\ \A u \in Listed : pid'[u] = pid[u]
        /\ parent_pid'[main_thread] = 0
    BY <1>1, <2>1, <2>2, SpecialLemma
  <2> HIDE DEF a
  <2> QED BY <1>1, <2>1, <2>3 DEF PidInv, PidsUnique
<1>6. ASSUME NEW t \in Tasks, ForkFails(t)
      PROVE  PidInv'
  BY <1>6 DEF ForkFails, PidInv, PidsUnique, Listed
<1>7. ASSUME NEW t \in Tasks, sys_exit(t)
      PROVE  PidInv'
  <2>1. /\ UNCHANGED <<all_threads_list, pid, pid_pool>>
        /\ parent_pid' = [c \in Tasks |-> IF c \in Children(t) THEN 1
                                          ELSE parent_pid[c]]
        /\ t \in Listed
    BY <1>7, CallerLemma DEF sys_exit, Adopt, Exec
  <2>2. pid[t] # 0
    BY <1>1, <2>1
  <2>3. parent_pid'[main_thread] = 0
    BY <1>1, <2>1, <2>2, SpecialLemma DEF Children
  <2> QED BY <2>1, <2>3 DEF PidInv, PidsUnique, Listed
<1>8. ASSUME NEW t \in Tasks, sys_wait(t)
      PROVE  PidInv'
  <2>1. CASE UNCHANGED <<all_threads_list, pid_pool, pid, parent_pid>>
    BY <2>1 DEF PidInv, PidsUnique, Listed
  <2>2. CASE /\ Hanging(t) # {}
             /\ thread_exit(First(Hanging(t)))
             /\ sched' = SetStat(sched, First(Hanging(t)), "DIED")
    <3>1. \E c \in Hanging(t) : /\ c \in Listed /\ Listed' = Listed \ {c}
                                /\ pid_pool' = pid_pool \ {pid[c]}
      BY <1>8, <2>2, WaitCases, ReapEffect
    <3> QED BY <1>3, <1>8, <3>1, WaitCases
  <2> QED BY <1>8, <2>1, <2>2, WaitCases
<1>9. CASE UNCHANGED vars
  BY <1>2, <1>9 DEF vars, Links
<1> QED BY <1>2, <1>4, <1>5, <1>6, <1>7, <1>8, <1>9, NextCases, QuietEffect

\* A sleeper's children are still there after a step, and none of them hangs:
\* the exit of a child wakes its parent, and only the parent reaps it.
LEMMA ExitNotMissedStep ==
  ASSUME PInv, PidInv, ExitNotMissed, [Next]_vars
  PROVE  ExitNotMissed'
<1>1. /\ pid \in [Tasks -> 0..MaxPid] /\ parent_pid \in [Tasks -> 0..MaxPid]
      /\ Listed \subseteq Tasks /\ Procs \subseteq Listed
      /\ idle_thread \notin Procs
      /\ \A t, u \in Listed : pid[t] = pid[u] => t = u
      /\ \A t \in Listed : pid[t] # 0
      /\ parent_pid[main_thread] = 0
      /\ pid[init_proc] = 1 /\ init_proc \in Listed
      /\ sched.cur \in Listed /\ sched.stat[sched.cur] = "RUNNING"
  <2>1. /\ pid \in [Tasks -> 0..MaxPid] /\ parent_pid \in [Tasks -> 0..MaxPid]
        /\ pid_pool \subseteq 1..MaxPid
    BY DEF PInv, TypeOK
  <2>2. /\ Listed \subseteq Tasks /\ Procs \subseteq Listed
        /\ idle_thread \notin Procs
    BY DEF Listed, Procs
  <2>3. /\ \A t, u \in Listed : pid[t] = pid[u] => t = u
        /\ \A t \in Listed : pid[t] # 0
        /\ parent_pid[main_thread] = 0
    BY <2>1 DEF PidInv, PidsUnique
  <2>4. pid[init_proc] = 1 /\ init_proc \in Listed
    BY SpecialLemma DEF PInv, ParentInv, ListInv, SleepInv
  <2> QED BY <2>1, <2>2, <2>3, <2>4, CallerLemma, CurLemma
<1>2. ASSUME UNCHANGED Links,
             \A u \in Tasks :
               /\ sched'.stat[u] = "HANGING" <=> sched.stat[u] = "HANGING"
               /\ sched'.stat[u] = "WAITING" <=> sched.stat[u] = "WAITING"
      PROVE  ExitNotMissed'
  BY <1>1, <1>2 DEF Links, ExitNotMissed, Children, Hanging, Procs, Listed
<1>3. CASE MainExit
  <2>1. /\ Listed' = Listed \ {main_thread}
        /\ \A u \in Tasks \ {main_thread, idle_thread}, x \in Parked :
             sched'.stat[u] = x <=> sched.stat[u] = x
        /\ sched'.stat[main_thread] = "DIED" /\ IdleOK(sched')
        /\ UNCHANGED <<pid, parent_pid>>
    BY <1>3, MainExitEffect DEF MainExit
  <2>2. "WAITING" \in Parked /\ "HANGING" \in Parked
    BY DEF Parked, Asleep
  <2>3. ASSUME NEW t \in Procs', sched'.stat[t] = "WAITING"
        PROVE  Children(t)' # {} /\ (t # init_proc => Hanging(t)' = {})
    <3>1. t \in Procs /\ sched.stat[t] = "WAITING" /\ pid[t] # 0
      BY <1>1, <2>1, <2>2, <2>3 DEF Procs
    <3>2. Children(t)' = Children(t) \ {main_thread} /\ main_thread \notin Children(t)
      BY <1>1, <2>1, <3>1 DEF Children
    <3>3. Hanging(t)' \subseteq Hanging(t)
      BY <1>1, <2>1, <2>2, <3>2 DEF Hanging, Children, IdleOK
    <3> QED BY <3>1, <3>2, <3>3 DEF ExitNotMissed
  <2> QED BY <2>3 DEF ExitNotMissed
<1>4. ASSUME NEW t \in Tasks, sys_fork(t)
      PROVE  ExitNotMissed'
  <2>1. PICK c \in FreePCB :
              /\ c \in UserTasks /\ c \notin Listed /\ c # t
              /\ pid' = [pid EXCEPT ![c] = alloc_pid]
              /\ parent_pid' = [parent_pid EXCEPT ![c] = pid[t]]
              /\ \A u \in Tasks : sched'.stat[u] = IF u = c THEN "READY"
                                                   ELSE sched.stat[u]
              /\ Listed' = Listed \cup {c}
    BY <1>4, ForkEffect
  <2>2. c \in Tasks
    BY <2>1, SpecialLemma
  <2>3. ASSUME NEW u \in Procs', sched'.stat[u] = "WAITING"
        PROVE  Children(u)' # {} /\ (u # init_proc => Hanging(u)' = {})
    <3>1. u \in Procs /\ sched.stat[u] = "WAITING" /\ u # c
      BY <1>1, <2>1, <2>2, <2>3 DEF Procs
    <3>2. Children(u) \subseteq Children(u)'
      BY <1>1, <2>1, <2>2, <3>1 DEF Children
    <3>3. Hanging(u)' \subseteq Hanging(u)
      BY <1>1, <2>1, <2>2, <3>1 DEF Children, Hanging
    <3> QED BY <3>1, <3>2, <3>3 DEF ExitNotMissed
  <2> QED BY <2>3 DEF ExitNotMissed
<1>5. ASSUME NEW t \in Tasks, ForkFails(t)
      PROVE  ExitNotMissed'
  BY <1>5 DEF ForkFails, ExitNotMissed, Children, Hanging, Procs, Listed
<1>6. ASSUME NEW t \in Tasks, sys_exit(t)
      PROVE  ExitNotMissed'
  <2>1. /\ UNCHANGED <<all_threads_list, pid>>
        /\ parent_pid' = [c \in Tasks |-> IF c \in Children(t) THEN 1
                                          ELSE parent_pid[c]]
        /\ t \in Procs /\ t # init_proc
        /\ Listed' = Listed /\ Procs' = Procs
    BY <1>6, WaiterLemma DEF sys_exit, Adopt, Exec, Procs, Listed
  <2>2. /\ sched'.stat[t] = "HANGING"
        /\ \A u \in Tasks \ {t, idle_thread} :
             /\ sched'.stat[u] = "HANGING" <=> sched.stat[u] = "HANGING"
             /\ sched'.stat[u] = "WAITING" =>
                  /\ sched.stat[u] = "WAITING"
                  /\ u # First(pid2thread(parent_pid[t]))
        /\ IdleOK(sched')
    BY <1>6, ExitEffect
  <2>3. ASSUME NEW w \in Procs', sched'.stat[w] = "WAITING"
        PROVE  Children(w)' # {} /\ (w # init_proc => Hanging(w)' = {})
    <3>1. /\ w \in Procs /\ w # t /\ sched.stat[w] = "WAITING"
          /\ w # First(pid2thread(parent_pid[t]))
      BY <1>1, <2>1, <2>2, <2>3
    <3>2. pid[w] # pid[t] /\ (w # init_proc => pid[w] # 1)
      BY <1>1, <2>1, <3>1
    <3>3. /\ Children(w) \subseteq Children(w)'
          /\ w # init_proc => Children(w)' \subseteq Children(w)
      BY <1>1, <2>1, <3>2 DEF Children
    <3>4. t \notin Children(w)
      <4>1. SUFFICES ASSUME parent_pid[t] = pid[w] PROVE FALSE
        BY DEF Children
      <4>2. pid2thread(parent_pid[t]) = {w}
        BY <1>1, <3>1, <4>1 DEF pid2thread
      <4>3. First(pid2thread(parent_pid[t])) \in pid2thread(parent_pid[t])
        BY <1>1, <3>1, <4>2, FirstLemma DEF PInv, TypeOK
      <4> QED BY <3>1, <4>2, <4>3
    <3>5. w # init_proc => Hanging(w)' \subseteq Hanging(w)
      BY <1>1, <2>1, <2>2, <3>3, <3>4 DEF Hanging, Children, IdleOK
    <3> QED BY <3>1, <3>3, <3>5 DEF ExitNotMissed
  <2> QED BY <2>3 DEF ExitNotMissed
<1>7. ASSUME NEW t \in Tasks, sys_wait(t)
      PROVE  ExitNotMissed'
  <2>1. sched.cur = t /\ UNCHANGED <<pid, parent_pid>>
    BY <1>7, WaitCases
  <2>2. CASE UNCHANGED <<sched, all_threads_list, pid_pool>>
    BY <2>1, <2>2 DEF ExitNotMissed, Children, Hanging, Procs, Listed
  <2>3. CASE /\ Hanging(t) # {}
             /\ thread_exit(First(Hanging(t)))
             /\ sched' = SetStat(sched, First(Hanging(t)), "DIED")
    <3>1. PICK c \in Hanging(t) :
            /\ c \in Listed /\ c # t /\ sched.stat[c] = "HANGING"
            /\ \A u \in Tasks : sched'.stat[u] = IF u = c THEN "DIED"
                                                 ELSE sched.stat[u]
            /\ Listed' = Listed \ {c}
      BY <1>7, <2>3, WaitCases, ReapEffect
    <3>2. ASSUME NEW w \in Procs', sched'.stat[w] = "WAITING"
          PROVE  Children(w)' # {} /\ (w # init_proc => Hanging(w)' = {})
      <4>1. w \in Procs /\ w # t /\ sched.stat[w] = "WAITING"
        BY <1>1, <2>1, <3>1, <3>2 DEF Procs
      <4>2. c \notin Children(w)
        BY <1>1, <2>1, <3>1, <4>1 DEF Hanging, Children
      <4>3. Children(w)' = Children(w)
        BY <2>1, <3>1, <4>2 DEF Children
      <4>4. Hanging(w)' \subseteq Hanging(w)
        BY <1>1, <3>1, <4>3 DEF Hanging, Children
      <4> QED BY <4>1, <4>3, <4>4 DEF ExitNotMissed
    <3> QED BY <3>2 DEF ExitNotMissed
  <2>4. CASE /\ sched' = thread_block(sched, "WAITING")
             /\ Hanging(t) = {} /\ Children(t) # {}
             /\ UNCHANGED <<all_threads_list, pid_pool>>
    <3>1. /\ sched'.stat[t] = "WAITING" /\ IdleOK(sched')
          /\ \A u \in Tasks \ {t, idle_thread}, x \in Parked :
               sched'.stat[u] = x <=> sched.stat[u] = x
          /\ \A u \in Tasks : sched'.stat[u] = "HANGING" <=> sched.stat[u] = "HANGING"
      BY <1>7, <2>4, WaitCases, WaitSleepEffect
    <3>2. Listed' = Listed /\ Procs' = Procs
      BY <2>4 DEF Listed, Procs
    <3>3. \A w : Children(w)' = Children(w) /\ Hanging(w)' = Hanging(w)
      BY <1>1, <2>1, <3>1, <3>2 DEF Children, Hanging
    <3>4. "WAITING" \in Parked
      BY DEF Parked, Asleep
    <3>5. ASSUME NEW w \in Procs', sched'.stat[w] = "WAITING"
          PROVE  Children(w)' # {} /\ (w # init_proc => Hanging(w)' = {})
      BY <1>1, <2>4, <3>1, <3>2, <3>3, <3>4, <3>5 DEF ExitNotMissed
    <3> QED BY <3>5 DEF ExitNotMissed
  <2> QED BY <1>7, <2>2, <2>3, <2>4, WaitCases
<1>8. CASE UNCHANGED vars
  BY <1>8 DEF vars, ExitNotMissed, Children, Hanging, Procs, Listed
<1> QED BY <1>2, <1>3, <1>4, <1>5, <1>6, <1>7, <1>8, NextCases, QuietEffect

\* The first three tasks have pids 1, 2 and 3.
LEMMA InitPidInv == Init => PidInv
<1> SUFFICES ASSUME Init PROVE PidInv
  OBVIOUS
<1>1. /\ pid[init_proc] = 1 /\ pid[main_thread] = 2 /\ pid[idle_thread] = 3
      /\ parent_pid[main_thread] = 0 /\ pid_pool = {1, 2, 3}
  BY SpecialLemma DEF Init
<1>2. Len(<<init_proc, main_thread, idle_thread>>) = 3
  OBVIOUS
<1>3. Listed = {init_proc, main_thread, idle_thread}
  BY <1>2, SpecialLemma DEF Init, Listed, elem_find
<1> QED BY <1>1, <1>3 DEF PidInv, PidsUnique

\* As long as a fork that gets a page for its PCB gets a pid, no two tasks in
\* the list have the same one, and none is given out again before sys_wait has
\* reaped its task.
THEOREM PidsUniqueTheorem == Spec /\ []PidLeft => []PidsUnique
<1>1. Init => PidInv
  BY InitPidInv
<1>2. PInv /\ PidLeft /\ PidInv /\ [Next]_vars => PidInv'
  BY PidStep
<1>3. PidInv => PidsUnique
  BY DEF PidInv
<1> QED BY <1>1, <1>2, <1>3, ProcessInvariant, PTL DEF Spec

\* The pids of the tasks in the list are none of them 0, so thread_exit clears
\* a bit of pid_bitmap_bits.
LEMMA NoFaultStep ==
  ASSUME PInv, PidInv, ~fault, [Next]_vars
  PROVE  ~fault'
<1>1. \A t \in Listed : pid[t] # 0
  <2>1. pid_pool \subseteq 1..MaxPid /\ \A t \in Listed : pid[t] \in pid_pool
    BY DEF PInv, TypeOK, PidInv, PidsUnique
  <2> QED BY <2>1
<1>2. CASE fault' = fault
  BY <1>2
<1>3. CASE MainExit
  <2>1. main_thread \in Listed /\ (pid[main_thread] # 0 => fault' = fault)
    BY <1>3, MainExitEffect, CallerLemma
  <2> QED BY <1>1, <1>2, <2>1
<1>4. ASSUME NEW t \in Tasks, sys_fork(t) \/ ForkFails(t) \/ sys_exit(t)
      PROVE  fault' = fault
  BY <1>4 DEF sys_fork, ForkFails, sys_exit
<1>5. ASSUME NEW t \in Tasks, sys_wait(t)
      PROVE  fault' = fault
  <2>1. CASE /\ Hanging(t) # {}
             /\ thread_exit(First(Hanging(t)))
             /\ sched' = SetStat(sched, First(Hanging(t)), "DIED")
    <3>1. \E c \in Hanging(t) : c \in Listed /\ (pid[c] # 0 => fault' = fault)
      BY <1>5, <2>1, WaitCases, ReapEffect
    <3> QED BY <1>1, <3>1
  <2> QED BY <1>5, <2>1, WaitCases
<1>6. CASE UNCHANGED Links \/ UNCHANGED vars
  BY <1>2, <1>6 DEF Links, vars
<1> QED BY <1>2, <1>3, <1>4, <1>5, <1>6, NextCases, QuietEffect

\* As long as a fork that gets a page for its PCB gets a pid, no ASSERT fails,
\* no exit looks for a parent in vain, and release_pid is never called with 0,
\* for which it would write outside pid_bitmap_bits.
THEOREM NoPanicTheorem == Spec /\ []PidLeft => []NoPanic
<1>1. Init => PidInv /\ ~fault
  BY InitPidInv DEF Init
<1>2. PInv /\ PidLeft /\ PidInv /\ [Next]_vars => PidInv'
  BY PidStep
<1>3. PInv /\ PidInv /\ ~fault /\ [Next]_vars => ~fault'
  BY NoFaultStep
<1>4. ~sched.panic /\ ~fault => NoPanic
  BY DEF NoPanic
<1> QED BY <1>1, <1>2, <1>3, <1>4, ProcessInvariant, AssertsHold, PTL DEF Spec

\* Under the same condition every process but init has one parent in the list,
\* and it has not exited: the children of an exiting process are adopted before
\* it hangs.
THEOREM ParentAliveTheorem == Spec /\ []PidLeft => []ParentAlive
<1>1. PInv /\ PidsUnique => ParentAlive
  <2> SUFFICES ASSUME PInv, PidsUnique, NEW t \in Procs \ {init_proc}
               PROVE  \E p \in Procs : /\ pid2thread(parent_pid[t]) = {p}
                                       /\ sched.stat[p] # "HANGING"
    BY DEF ParentAlive
  <2>1. PICK p \in Procs : pid[p] = parent_pid[t] /\ sched.stat[p] # "HANGING"
    BY DEF PInv, ParentInv
  <2>2. pid2thread(parent_pid[t]) = {p}
    BY <2>1 DEF pid2thread, Procs, PidsUnique
  <2> QED BY <2>1, <2>2
<1> QED BY <1>1, ProcessInvariant, PidsUniqueTheorem, PTL

\* Under the same condition a parent that sleeps in sys_wait has a child, and
\* no child of it hangs: the wake-up by sys_exit is never lost.
THEOREM ExitNotMissedTheorem == Spec /\ []PidLeft => []ExitNotMissed
<1>1. Init => ExitNotMissed
  <2> SUFFICES ASSUME Init PROVE ExitNotMissed
    OBVIOUS
  <2>1. \A t \in Tasks : sched.stat[t] # "WAITING"
    BY DEF Init
  <2> QED BY <2>1 DEF ExitNotMissed, Procs, Listed
<1>2. Init => PidInv
  BY InitPidInv
<1>3. PInv /\ PidLeft /\ PidInv /\ [Next]_vars => PidInv'
  BY PidStep
<1>4. PInv /\ PidInv /\ ExitNotMissed /\ [Next]_vars => ExitNotMissed'
  BY ExitNotMissedStep
<1> QED BY <1>1, <1>2, <1>3, <1>4, ProcessInvariant, PTL DEF Spec

-----------------------------------------------------------------------------
(* There are enough pids if there are as many as pages for PCBs *)

EnoughPids == IsFiniteSet(Tasks) /\ Cardinality(Tasks) <= MaxPid

\* Two more sets of which one grows by what the other grows by at most.
LEMMA GrowLemma ==
  ASSUME NEW A, NEW B, IsFiniteSet(A), IsFiniteSet(B),
         Cardinality(A) <= Cardinality(B), NEW a, NEW c, c \notin B
  PROVE  /\ Cardinality(A) <= Cardinality(B \cup {c})
         /\ Cardinality(A \cup {a}) <= Cardinality(B \cup {c})
<1>1. Cardinality(A) \in Nat /\ Cardinality(B) \in Nat
  BY FS_CardinalityType
<1>2. Cardinality(B \cup {c}) = Cardinality(B) + 1
  BY FS_AddElement
<1>3. \/ Cardinality(A \cup {a}) = Cardinality(A)
      \/ Cardinality(A \cup {a}) = Cardinality(A) + 1
  BY FS_AddElement
<1> QED BY <1>1, <1>2, <1>3

\* Two sets of which both lose an element they have.
LEMMA ShrinkLemma ==
  ASSUME NEW A, NEW B, IsFiniteSet(A), IsFiniteSet(B),
         Cardinality(A) <= Cardinality(B), NEW a \in A, NEW c \in B
  PROVE  Cardinality(A \ {a}) <= Cardinality(B \ {c})
<1>1. Cardinality(A) \in Nat /\ Cardinality(B) \in Nat
  BY FS_CardinalityType
<1>2. /\ Cardinality(B \ {c}) = Cardinality(B) - 1
      /\ Cardinality(A \ {a}) = Cardinality(A) - 1
  BY FS_RemoveElement
<1> QED BY <1>1, <1>2

\* Three different elements are three.
LEMMA ThreeLemma ==
  ASSUME NEW a, NEW b, NEW c, a # b, a # c, b # c
  PROVE  Cardinality({a, b, c}) = 3
<1>1. IsFiniteSet({}) /\ Cardinality({}) = 0
  BY FS_EmptySet
<1>2. IsFiniteSet({} \cup {a}) /\ Cardinality({} \cup {a}) = 1
  BY <1>1, FS_AddElement
<1>3. {} \cup {a} = {a} /\ b \notin {a}
  OBVIOUS
<1>4. IsFiniteSet({a}) /\ Cardinality({a}) = 1
  BY <1>2, <1>3
<1>5. IsFiniteSet({a} \cup {b}) /\ Cardinality({a} \cup {b}) = 2
  BY <1>3, <1>4, FS_AddElement
<1>6. {a} \cup {b} = {a, b} /\ c \notin {a, b} /\ {a, b} \cup {c} = {a, b, c}
  OBVIOUS
<1>7. IsFiniteSet({a, b}) /\ Cardinality({a, b}) = 2
  BY <1>5, <1>6
<1>8. Cardinality({a, b} \cup {c}) = 3
  BY <1>6, <1>7, FS_AddElement
<1> QED BY <1>6, <1>8

\* The sets that are counted are finite.
LEMMA CountedFinite ==
  ASSUME TypeOK, EnoughPids
  PROVE  /\ IsFiniteSet(pid_pool) /\ IsFiniteSet(Listed \cup leaked)
         /\ Listed \cup leaked \subseteq Tasks
<1>1. IsFiniteSet(1..MaxPid)
  BY ProcessAssumption, FS_Interval
<1>2. pid_pool \in SUBSET (1..MaxPid) /\ Listed \cup leaked \in SUBSET Tasks
  BY DEF TypeOK, Listed
<1>3. IsFiniteSet(pid_pool)
  BY <1>1, <1>2, FS_Subset
<1>4. IsFiniteSet(Listed \cup leaked)
  BY <1>2, FS_Subset DEF EnoughPids
<1> QED BY <1>2, <1>3, <1>4

\* A page left for a PCB means a pid left for it.
LEMMA CountLemma ==
  ASSUME TypeOK, EnoughPids, CountInv
  PROVE  PidLeft
<1> SUFFICES ASSUME NEW c \in FreePCB, pid_pool = 1..MaxPid PROVE FALSE
  BY DEF PidLeft
<1> DEFINE U == Listed \cup leaked
<1>1. IsFiniteSet(U) /\ U \in SUBSET Tasks /\ c \in Tasks /\ c \notin U
  BY CountedFinite DEF FreePCB
<1>2. Cardinality(pid_pool) = MaxPid /\ MaxPid \in Nat
  <2>1. Cardinality(1..MaxPid) = IF 1 > MaxPid THEN 0 ELSE MaxPid - 1 + 1
    BY ProcessAssumption, FS_Interval
  <2> QED BY <2>1, ProcessAssumption
<1>3. MaxPid <= Cardinality(U)
  BY <1>2 DEF CountInv
<1> HIDE DEF U
<1>4. /\ Cardinality(U) \in Nat /\ Cardinality(Tasks) \in Nat
      /\ Cardinality(U) <= Cardinality(Tasks)
      /\ Cardinality(Tasks) = Cardinality(U) => Tasks = U
  BY <1>1, FS_Subset, FS_CardinalityType DEF EnoughPids
<1>5. Cardinality(U) # Cardinality(Tasks)
  BY <1>1, <1>4
<1>6. Cardinality(Tasks) <= MaxPid
  BY DEF EnoughPids
<1> QED BY <1>2, <1>3, <1>4, <1>5, <1>6

\* fork adds a task for the pid it takes, and a PCB is lost for a pid that is;
\* thread_exit takes one of each.
LEMMA CountStep ==
  ASSUME EnoughPids, PInv, PidInv, CountInv, [Next]_vars
  PROVE  CountInv'
<1>1. /\ IsFiniteSet(pid_pool) /\ IsFiniteSet(Listed \cup leaked)
      /\ leaked \cap (Listed \cup Special) = {}
      /\ Cardinality(pid_pool) <= Cardinality(Listed \cup leaked)
  BY CountedFinite DEF PInv, CountInv
<1>2. \A t \in Listed : pid[t] \in pid_pool
  BY DEF PidInv, PidsUnique
<1>3. ASSUME NEW c \in FreePCB, NEW a,
             pid_pool' \in {pid_pool, pid_pool \cup {a}},
             \/ Listed' = Listed \cup {c} /\ leaked' = leaked
             \/ Listed' = Listed /\ leaked' = leaked \cup {c}
      PROVE  CountInv'
  <2>1. c \notin Listed \cup leaked /\ c \notin Special
    BY DEF FreePCB
  <2>2. (Listed \cup leaked)' = (Listed \cup leaked) \cup {c}
    BY <1>3
  <2>3. Cardinality(pid_pool)' <= Cardinality((Listed \cup leaked) \cup {c})
    BY <1>1, <1>3, <2>1, GrowLemma
  <2>4. leaked' \cap (Listed' \cup Special) = {}
    BY <1>1, <1>3, <2>1
  <2> QED BY <2>2, <2>3, <2>4 DEF CountInv
<1>4. ASSUME NEW t \in Listed, Listed' = Listed \ {t}, leaked' = leaked,
             pid_pool' = pid_pool \ {pid[t]}
      PROVE  CountInv'
  <2>1. (Listed \cup leaked)' = (Listed \cup leaked) \ {t}
    BY <1>1, <1>4
  <2>2. Cardinality(pid_pool \ {pid[t]})
          <= Cardinality((Listed \cup leaked) \ {t})
    BY <1>1, <1>2, ShrinkLemma
  <2> QED BY <1>1, <1>4, <2>1, <2>2 DEF CountInv
<1>5. CASE UNCHANGED <<all_threads_list, pid_pool, leaked>>
  BY <1>5 DEF CountInv, Listed
<1>6. CASE MainExit
  BY <1>4, <1>6, MainExitEffect, CallerLemma DEF MainExit
<1>7. pid_pool \cup ({alloc_pid} \ {0}) \in {pid_pool, pid_pool \cup {alloc_pid}}
  <2>1. CASE alloc_pid = 0
    <3>1. pid_pool \cup ({alloc_pid} \ {0}) = pid_pool
      BY <2>1
    <3> QED BY <3>1
  <2>2. CASE alloc_pid # 0
    <3>1. {alloc_pid} \ {0} = {alloc_pid}
      BY <2>2
    <3> QED BY <3>1
  <2> QED BY <2>1, <2>2
<1>8. ASSUME NEW t \in Tasks, sys_fork(t)
      PROVE  CountInv'
  <2>1. PICK c \in FreePCB :
          /\ pid_pool' = pid_pool \cup ({alloc_pid} \ {0})
          /\ Listed' = Listed \cup {c} /\ leaked' = leaked
    BY <1>8, ForkEffect
  <2>2. pid_pool' \in {pid_pool, pid_pool \cup {alloc_pid}}
    BY <1>7, <2>1
  <2> QED BY <1>3, <2>1, <2>2
<1>9. ASSUME NEW t \in Tasks, ForkFails(t)
      PROVE  CountInv'
  <2>1. PICK c \in FreePCB : /\ leaked' = leaked \cup {c}
                             /\ pid_pool' \in {pid_pool,
                                  pid_pool \cup ({alloc_pid} \ {0})}
    BY <1>9 DEF ForkFails
  <2>2. pid_pool' \in {pid_pool, pid_pool \cup {alloc_pid}}
    BY <1>7, <2>1
  <2>3. Listed' = Listed
    BY <1>9 DEF ForkFails, Listed
  <2>4. \/ Listed' = Listed \cup {c} /\ leaked' = leaked
        \/ Listed' = Listed /\ leaked' = leaked \cup {c}
    BY <2>1, <2>3
  <2> QED BY <1>3, <2>2, <2>4
<1>10. ASSUME NEW t \in Tasks, sys_wait(t)
       PROVE  CountInv'
  <2>1. CASE /\ Hanging(t) # {}
             /\ thread_exit(First(Hanging(t)))
             /\ sched' = SetStat(sched, First(Hanging(t)), "DIED")
    <3>1. \E c \in Hanging(t) : /\ c \in Listed /\ Listed' = Listed \ {c}
                                /\ pid_pool' = pid_pool \ {pid[c]}
      BY <1>10, <2>1, WaitCases, ReapEffect
    <3>2. leaked' = leaked
      BY <1>10, WaitCases
    <3> QED BY <1>4, <3>1, <3>2
  <2> QED BY <1>5, <1>10, <2>1, WaitCases
<1>11. ASSUME NEW t \in Tasks, sys_exit(t)
       PROVE  CountInv'
  BY <1>5, <1>11 DEF sys_exit
<1>12. CASE MainDisk \/ InitStart \/ MainUnblock \/ Timer \/ DiskInterrupt \/ Idle
  BY <1>5, <1>12, QuietEffect DEF Links
<1>13. CASE UNCHANGED vars
  BY <1>5, <1>13 DEF vars
<1> QED BY <1>6, <1>8, <1>9, <1>10, <1>11, <1>12, <1>13, NextCases

\* With no more pages for PCBs than there are pids, every fork that gets a
\* page gets a pid, though fork never checks alloc_pid's result: the condition
\* of the theorems above then always holds.
THEOREM PidsSuffice == EnoughPids => (Spec => []PidLeft)
<1> SUFFICES ASSUME EnoughPids PROVE Spec => []PidLeft
  OBVIOUS
<1>1. Init => CountInv
  <2> SUFFICES ASSUME Init PROVE CountInv
    OBVIOUS
  <2>1. leaked = {} /\ pid_pool = {1, 2, 3}
    BY DEF Init
  <2>2. Len(<<init_proc, main_thread, idle_thread>>) = 3
    OBVIOUS
  <2>3. Listed = {init_proc, main_thread, idle_thread}
    BY <2>2, SpecialLemma DEF Init, Listed, elem_find
  <2>4. Cardinality({1, 2, 3}) = 3
    <3> DEFINE a == 1
               b == 2
               c == 3
    <3>1. a # b /\ a # c /\ b # c
      OBVIOUS
    <3> HIDE DEF a, b, c
    <3>2. Cardinality({a, b, c}) = 3
      BY <3>1, ThreeLemma
    <3> QED BY <3>2 DEF a, b, c
  <2>5. Cardinality({init_proc, main_thread, idle_thread}) = 3
    BY SpecialLemma, ThreeLemma
  <2> QED BY <2>1, <2>3, <2>4, <2>5 DEF CountInv
<1>2. PInv /\ PidInv /\ CountInv /\ [Next]_vars => CountInv'
  BY CountStep
<1>3. PInv /\ CountInv => PidLeft
  BY CountLemma DEF PInv
<1>4. PInv /\ PidLeft /\ PidInv /\ [Next]_vars => PidInv'
  BY PidStep
<1> QED BY <1>1, <1>2, <1>3, <1>4, InitPidInv, ProcessInvariant, PTL DEF Spec

\* So with as many pids as pages for PCBs the four results hold as they stand.
THEOREM ProcessesCorrect ==
  EnoughPids => (Spec => [](/\ NoPanic /\ PidsUnique /\ ParentAlive
                            /\ ExitNotMissed))
BY PidsSuffice, NoPanicTheorem, PidsUniqueTheorem, ParentAliveTheorem,
   ExitNotMissedTheorem, PTL

=============================================================================
