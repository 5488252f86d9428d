------------------------------ MODULE Process ------------------------------
(***************************************************************************)
(* The life of processes: boot (kernel/main.c, thread_init), sys_fork,     *)
(* sys_wait, sys_exit and thread_exit, under the scheduler of Sched.       *)
(*                                                                         *)
(* A task is the page of its PCB.  System calls run with IF clear, so each *)
(* is one step, except that sys_wait sleeps in a loop.  A task not in      *)
(* all_threads_list is DIED here: its page is free, leaked, or main's.     *)
(*                                                                         *)
(* pc:  disk, unblock, exit   main, in the order it goes through them      *)
(*      start, armed          init: before the thread_block of             *)
(*                            start_process, and back from it              *)
(*      user   in user mode   wait  in the loop of sys_wait                *)
(*      gone   has exited     loop, sti, hlt  the idle thread's            *)
(***************************************************************************)
EXTENDS Sched, FiniteSets

SX == INSTANCE SequencesExt

CONSTANTS
  main_thread, init_proc,
  MaxPid,    \* number of pids (1024 in the code)
  MaxLeaks   \* bound on the forks that fail half way

ASSUME ProcessAssumption ==
  /\ {main_thread, init_proc} \subseteq Tasks \ {idle_thread}
  /\ main_thread # init_proc
  /\ MaxPid \in Nat /\ MaxPid >= 3 /\ MaxLeaks \in Nat

VARIABLES
  sched, pc,
  all_threads_list,
  pid, parent_pid,
  pid_pool,    \* the pids whose bit is set
  fault,       \* the kernel has written outside pid_bitmap_bits
  leaked       \* PCBs a failed fork has lost

vars == <<sched, pc, all_threads_list, pid, parent_pid, pid_pool, fault, leaked>>

Special == {main_thread, idle_thread, init_proc}

Listed == {t \in Tasks : elem_find(all_threads_list, t)}

Procs == Listed \ {main_thread, idle_thread}

TypeOK ==
  /\ sched \in SchedState
  /\ pc \in [Tasks -> {"disk", "unblock", "exit", "start", "armed", "user",
                       "wait", "gone", "loop", "sti", "hlt"}]
  /\ all_threads_list \in Seq(Tasks)
  /\ pid \in [Tasks -> 0..MaxPid] /\ parent_pid \in [Tasks -> 0..MaxPid]
  /\ pid_pool \subseteq 1..MaxPid /\ leaked \subseteq Tasks
  /\ fault \in BOOLEAN

\* thread_init: init is made first, then main, then idle; main runs.
Init ==
  /\ sched =
       [cur   |-> main_thread,
        stat  |-> [t \in Tasks |-> IF t = main_thread THEN "RUNNING"
                                   ELSE IF t \in Special THEN "READY"
                                   ELSE "DIED"],
        ready |-> <<init_proc, idle_thread>>, ticks |-> prio, panic |-> FALSE]
  /\ pc = [t \in Tasks |-> CASE t = main_thread -> "disk"
                             [] t = init_proc   -> "start"
                             [] t = idle_thread -> "loop"
                             [] OTHER           -> "gone"]
  /\ all_threads_list = <<init_proc, main_thread, idle_thread>>
  /\ pid = [t \in Tasks |-> CASE t = init_proc   -> 1
                              [] t = main_thread -> 2
                              [] t = idle_thread -> 3
                              [] OTHER           -> 0]
  /\ parent_pid = [t \in Tasks |-> 0]
  /\ pid_pool = {1, 2, 3} /\ leaked = {} /\ fault = FALSE

-----------------------------------------------------------------------------

Exec(t) == sched.cur = t /\ ~sched.panic /\ ~fault

Goto(t, l) == pc' = [pc EXCEPT ![t] = l]

Links == <<all_threads_list, pid, parent_pid, pid_pool, fault, leaked>>

\* Mutant of alloc_pid: counts the pids in use, one too many.
Mut_alloc_pid == Cardinality(pid_pool) + 2

\* alloc_pid: the lowest pid that is free, and 0 when none is.
alloc_pid == LET free == 1..MaxPid \ pid_pool
             IN  IF free = {} THEN 0
                 ELSE CHOOSE p \in free : \A q \in free : p <= q

\* release_pid: for 0 the bit is number -1, and its byte lies at an address the
\* processor refuses.
release_pid(p) ==
  /\ pid_pool' = pid_pool \ {p}
  /\ fault' = (fault \/ p = 0)

\* pid2thread: the tasks in the list with that pid (the first is meant).
pid2thread(p) == {t \in Listed : pid[t] = p}

\* Where a task is in a list.
Place(plist, t) == CHOOSE i \in 1..Len(plist) : plist[i] = t

Unlink(plist, t) == SX!RemoveAt(plist, Place(plist, t))

\* Mutant of thread_exit: the PCB stays in all_threads_list.
Mut_thread_exit(t) ==
  /\ release_pid(pid[t])
  /\ UNCHANGED all_threads_list

\* thread_exit, but for the state: out of the list, the pid is free again and
\* so is the page, unless it is main's.
thread_exit(t) ==
  /\ all_threads_list' = Unlink(all_threads_list, t)
  /\ release_pid(pid[t])

-----------------------------------------------------------------------------
(* Boot *)

\* main reads the disk: it sleeps until the interrupt, at least once.
MainDisk ==
  /\ Exec(main_thread)
  /\ pc[main_thread] = "disk"
  /\ sched' = thread_block(sched, "BLOCKED")
  /\ \E l \in {"disk", "unblock"} : Goto(main_thread, l)
  /\ UNCHANGED Links

\* start_process: init blocks itself, the others go to user mode.
InitStart ==
  /\ Exec(init_proc)
  /\ \/ /\ pc[init_proc] = "start"
        /\ sched' = thread_block(sched, "BLOCKED")
        /\ Goto(init_proc, "armed")
     \/ /\ pc[init_proc] = "armed"
        /\ Goto(init_proc, "user")
        /\ UNCHANGED sched
  /\ UNCHANGED Links

MainUnblock ==
  /\ Exec(main_thread)
  /\ pc[main_thread] = "unblock"
  /\ sched' = thread_unblock(sched, init_proc)
  /\ Goto(main_thread, "exit")
  /\ UNCHANGED Links

\* thread_exit(running_thread(), true)
MainExit ==
  /\ Exec(main_thread)
  /\ pc[main_thread] = "exit"
  /\ thread_exit(main_thread)
  /\ sched' = schedule(SetStat(sched, main_thread, "DIED"))
  /\ Goto(main_thread, "gone")
  /\ UNCHANGED <<pid, parent_pid, leaked>>

-----------------------------------------------------------------------------
(* System calls *)

\* Pages the kernel may hand out for a PCB.
FreePCB == Tasks \ (Listed \cup leaked \cup Special)

\* sys_fork; init forks once (see InitForks).
sys_fork(t) ==
  /\ Exec(t)
  /\ pc[t] = "user"
  /\ \E c \in FreePCB :
       /\ pid' = [pid EXCEPT ![c] = alloc_pid]
       /\ pid_pool' = pid_pool \cup ({alloc_pid} \ {0})
       /\ parent_pid' = [parent_pid EXCEPT ![c] = pid[t]]
       /\ LET s1 == Check(sched, ~elem_find(sched.ready, c))
          IN  sched' = SetStat([s1 EXCEPT !.ready = list_append(@, c),
                                          !.ticks[c] = prio[c]], c, "READY")
       /\ all_threads_list' = list_append(all_threads_list, c)
       /\ Goto(c, "user")
  /\ UNCHANGED <<fault, leaked>>

\* sys_fork without memory: before the PCB, where nothing has happened, or
\* after it, when the page is lost, or after copy_pcb, when the pid is too.
ForkFails(t) ==
  /\ Exec(t)
  /\ pc[t] = "user"
  /\ \E c \in FreePCB :
       /\ Cardinality(leaked) < MaxLeaks
       /\ leaked' = leaked \cup {c}
       /\ pid_pool' \in {pid_pool, pid_pool \cup ({alloc_pid} \ {0})}
  /\ UNCHANGED <<sched, pc, all_threads_list, pid, parent_pid, fault>>

Children(t) == {c \in Listed : parent_pid[c] = pid[t]}

Hanging(t) == {c \in Children(t) : sched.stat[c] = "HANGING"}

\* The first of a set of tasks in all_threads_list.
First(S) ==
  CHOOSE c \in S : \A d \in S : Place(all_threads_list, c) <= Place(all_threads_list, d)

\* Mutant of sys_wait: sleeps without looking for a child that hangs.
Mut_sys_wait(t) ==
  /\ Exec(t)
  /\ \/ /\ pc[t] = "user"
        /\ Children(t) # {}
        /\ sched' = thread_block(sched, "WAITING")
        /\ Goto(t, "wait")
        /\ UNCHANGED <<all_threads_list, pid_pool, fault>>
     \/ /\ pc[t] = "wait" /\ Hanging(t) # {}
        /\ thread_exit(First(Hanging(t)))
        /\ sched' = SetStat(sched, First(Hanging(t)), "DIED")
        /\ Goto(t, "user")
  /\ UNCHANGED <<pid, parent_pid, leaked>>

\* One turn of the loop of sys_wait: take the first child that hangs, or
\* return if there is no child, or sleep.
sys_wait(t) ==
  /\ Exec(t)
  /\ pc[t] \in {"user", "wait"}
  /\ \/ /\ Hanging(t) # {}
        /\ thread_exit(First(Hanging(t)))
        /\ sched' = SetStat(sched, First(Hanging(t)), "DIED")
        /\ Goto(t, "user")
     \/ /\ Children(t) = {}
        /\ Goto(t, "user")
        /\ UNCHANGED <<sched, all_threads_list, pid_pool, fault>>
     \/ /\ Hanging(t) = {} /\ Children(t) # {}
        /\ sched' = thread_block(sched, "WAITING")
        /\ Goto(t, "wait")
        /\ UNCHANGED <<all_threads_list, pid_pool, fault>>
  /\ UNCHANGED <<pid, parent_pid, leaked>>

\* Mutant of Adopt: the children keep their parent.
Mut_Adopt(t) == UNCHANGED parent_pid

\* init_adopt_a_child on every task: the orphans become children of pid 1.
Adopt(t) ==
  parent_pid' = [c \in Tasks |-> IF c \in Children(t) THEN 1 ELSE parent_pid[c]]

\* pid2thread's result is used unchecked; only a parent in sys_wait is woken.
WakeParent(s, t) ==
  LET parent == pid2thread(parent_pid[t])
  IN  IF parent = {} THEN Check(s, FALSE)
      ELSE LET p == First(parent)
           IN  IF s.stat[p] = "WAITING" THEN thread_unblock(s, p) ELSE s

sys_exit(t) ==
  /\ Exec(t)
  /\ pc[t] = "user" /\ t # init_proc
  /\ Adopt(t)
  /\ sched' = thread_block(WakeParent(sched, t), "HANGING")
  /\ Goto(t, "gone")
  /\ UNCHANGED <<all_threads_list, pid, pid_pool, fault, leaked>>

-----------------------------------------------------------------------------
(* Interrupts and the idle thread *)

\* IF is set but in system calls.  A process that starts does not use up the
\* 31 ticks of its slice.
InterruptsOn == ~sched.panic /\ ~fault /\ pc[sched.cur] \notin {"wait", "gone"}

EndHlt == pc' = [pc EXCEPT ![sched.cur] = IF @ = "hlt" THEN "loop" ELSE @]

Timer ==
  /\ InterruptsOn /\ pc[sched.cur] # "start"
  /\ sched' = intr_time_hdl(sched)
  /\ EndHlt
  /\ UNCHANGED Links

DiskInterrupt ==
  /\ InterruptsOn
  /\ pc[main_thread] \in {"disk", "unblock"}
  /\ sched.stat[main_thread] = "BLOCKED"
  /\ sched' = thread_unblock(sched, main_thread)
  /\ EndHlt
  /\ UNCHANGED Links

Idle ==
  /\ Exec(idle_thread)
  /\ \/ /\ pc[idle_thread] = "loop"
        /\ sched' = thread_block(sched, "BLOCKED")
        /\ Goto(idle_thread, "sti")
     \/ /\ pc[idle_thread] = "sti"
        /\ Goto(idle_thread, "hlt")
        /\ UNCHANGED sched
  /\ UNCHANGED Links

\* init forks the shell and then only waits; the others do as they like.
InitForks == parent_pid = [t \in Tasks |-> 0]

Next ==
  \/ MainDisk \/ InitStart \/ MainUnblock \/ MainExit
  \/ \E t \in Tasks \ {init_proc} : sys_fork(t) \/ ForkFails(t) \/ sys_exit(t)
  \/ InitForks /\ sys_fork(init_proc)
  \/ \E t \in Tasks : (t = init_proc => ~InitForks) /\ sys_wait(t)
  \/ Timer \/ DiskInterrupt \/ Idle

Spec == Init /\ [][Next]_vars

-----------------------------------------------------------------------------
(* Properties *)

\* No ASSERT fails and no exiting process looks for a parent that is not
\* there: init sleeps when main wakes it, a task woken was asleep, and a new
\* PCB is in no list.  And nobody releases the pid 0, which alloc_pid gives out
\* when there is none (thread.c:67, 74).
NoPanic == ~sched.panic /\ ~fault

\* Every process but init has exactly one parent in the list, and it has not
\* exited: the children of an exiting process are adopted before it hangs.
ParentAlive ==
  \A t \in Procs \ {init_proc} :
    \E p \in Procs : /\ pid2thread(parent_pid[t]) = {p}
                     /\ sched.stat[p] # "HANGING"

\* A pid names one task, and is not given out again before the task is
\* reaped; pid 0, which fork returns to the child, names none.
PidsUnique ==
  /\ \A t, u \in Listed : pid[t] = pid[u] => t = u
  /\ {pid[t] : t \in Listed} \subseteq pid_pool

\* A parent sleeping in sys_wait has a child, and none that hangs: the exit of
\* a child is never missed.  For init only the first half holds, since a
\* process it adopts may hang already.
ExitNotMissed ==
  \A t \in Procs : sched.stat[t] = "WAITING" =>
    /\ Children(t) # {}
    /\ t # init_proc => Hanging(t) = {}

\* The list of all tasks and the states agree: no PCB is linked twice, the
\* ready queue and the processor have only listed tasks, so that a page that
\* has been freed is not scheduled.
ListsAgree ==
  /\ NoDup(all_threads_list)
  /\ Consistent(sched)
  /\ \A t \in Tasks : sched.stat[t] = "DIED" <=> t \notin Listed
=============================================================================
