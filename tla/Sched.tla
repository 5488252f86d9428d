------------------------------- MODULE Sched -------------------------------
(***************************************************************************)
(* The scheduler of thread/thread.c and the semaphores of thread/sync.c as *)
(* operators on the scheduler's state, one record                          *)
(*                                                                         *)
(*   cur    the global `current`                                           *)
(*   stat   task_struct.stat of every task                                 *)
(*   ready  ready_threads_list, front first                                *)
(*   ticks  task_struct.ticks of every task                                *)
(*   panic  an ASSERT has failed: panic_spin masks interrupts and spins    *)
(*                                                                         *)
(* Every operator is one C function run with interrupts masked, so it is   *)
(* one step of the machine; the modules that extend this one apply them in *)
(* the order the code calls them.  A list is the sequence of its elements: *)
(* every list of tasks is threaded through the one field general_tag.      *)
(***************************************************************************)
EXTENDS Naturals, Sequences

CONSTANTS
  Tasks,        \* every task_struct, the idle thread included
  idle_thread,  \* the thread schedule() falls back on
  prio          \* task_struct.prio: the length of a time slice in ticks

ASSUME SchedAssumption ==
  /\ idle_thread \in Tasks
  /\ prio \in [Tasks -> Nat]

task_stat == {"RUNNING", "READY", "BLOCKED", "HANGING", "WAITING", "DIED"}

\* The states thread_block may be asked for and thread_unblock accepts.
Asleep == {"BLOCKED", "HANGING", "WAITING"}

SchedState == [cur: Tasks, stat: [Tasks -> task_stat], ready: Seq(Tasks),
               ticks: [Tasks -> Nat], panic: BOOLEAN]

-----------------------------------------------------------------------------
(* lib/kernel/list.c *)

elem_find(plist, t) == \E i \in 1..Len(plist) : plist[i] = t

list_push(plist, t) == <<t>> \o plist

list_append(plist, t) == Append(plist, t)

\* list_pop returns Head(plist) and leaves the rest.
list_pop(plist) == Tail(plist)

-----------------------------------------------------------------------------
(* thread/thread.c *)

\* ASSERT: a false condition ends in panic_spin.
Check(s, condition) == IF condition THEN s ELSE [s EXCEPT !.panic = TRUE]

SetStat(s, t, st) == [s EXCEPT !.stat[t] = st]

\* Mutant of thread_unblock: the state change without the list_push.
Mut_thread_unblock(s, t) ==
  SetStat(Check(s, s.stat[t] \in Asleep), t, "READY")

thread_unblock(s, t) ==
  LET s1 == Check(s, s.stat[t] \in Asleep /\ ~elem_find(s.ready, t))
  IN  SetStat([s1 EXCEPT !.ready = list_push(@, t)], t, "READY")

\* Mutant of Requeue: the preempted task goes to the front of the queue.
Mut_Requeue(s) ==
  IF s.stat[s.cur] = "RUNNING"
    THEN SetStat([s EXCEPT !.ready = list_push(@, s.cur)], s.cur, "READY")
    ELSE s

\* schedule, first half: a task still RUNNING goes to the back of the queue
\* with a fresh time slice.
Requeue(s) ==
  IF s.stat[s.cur] = "RUNNING"
    THEN LET s1 == Check(s, ~elem_find(s.ready, s.cur))
         IN  SetStat([s1 EXCEPT !.ready = list_append(@, s.cur),
                                !.ticks[s.cur] = prio[s.cur]],
                     s.cur, "READY")
    ELSE s

\* schedule, the guard against an empty queue.
EnsureReady(s) ==
  IF s.ready = <<>> THEN thread_unblock(s, idle_thread) ELSE s

\* schedule, second half: pop the front and switch to it.
SwitchTo(s) ==
  LET next == Head(s.ready)
  IN  SetStat([s EXCEPT !.ready = list_pop(@), !.cur = next], next, "RUNNING")

schedule(s) == SwitchTo(EnsureReady(Requeue(s)))

thread_block(s, st) == schedule(SetStat(s, s.cur, st))

\* Mutant of thread_yield: the state is left RUNNING, so schedule queues the
\* caller a second time.
Mut_thread_yield(s) == schedule([s EXCEPT !.ready = list_append(@, s.cur)])

thread_yield(s) ==
  LET s1 == Check(s, ~elem_find(s.ready, s.cur))
  IN  schedule(SetStat([s1 EXCEPT !.ready = list_append(@, s.cur)],
                       s.cur, "READY"))

\* device/timer.c: the clock interrupt preempts only when the slice is used up.
intr_time_hdl(s) ==
  IF s.ticks[s.cur] = 0
    THEN schedule(s)
    ELSE [s EXCEPT !.ticks[s.cur] = @ - 1]

-----------------------------------------------------------------------------
(* thread/sync.c: a semaphore is a record [value, waiters].  sema_down is   *)
(* a loop around thread_block, so it takes one step per turn.               *)

Semaphore == [value: {0, 1}, waiters: Seq(Tasks)]

sema_init(value) == [value |-> value, waiters |-> <<>>]

\* One turn of the loop at value 0: queue the caller and block it.
SemaSleep(s, psema) ==
  thread_block(Check(s, ~elem_find(psema.waiters, s.cur)), "BLOCKED")

SemaEnqueue(s, psema) == [psema EXCEPT !.waiters = list_append(@, s.cur)]

\* Mutant of SemaTake: the decrement is forgotten.
Mut_SemaTake(psema) == psema

\* The way out of the loop.
SemaTake(psema) == [psema EXCEPT !.value = @ - 1]

\* Mutant of sema_up: the waiter leaves the list and nobody wakes it.
Mut_SemaWake(s, psema) == Check(s, psema.value = 0)

\* sema_up, the scheduler's side: wake the first waiter.
SemaWake(s, psema) ==
  LET s1 == Check(s, psema.value = 0)
  IN  IF psema.waiters = <<>> THEN s1
                              ELSE thread_unblock(s1, Head(psema.waiters))

\* sema_up, the semaphore's side.
SemaPost(psema) ==
  [value   |-> psema.value + 1,
   waiters |-> IF psema.waiters = <<>> THEN <<>> ELSE list_pop(psema.waiters)]

-----------------------------------------------------------------------------
(* What the lists and the states have to do with each other between steps. *)

\* No element is linked twice.
NoDup(plist) == \A i, j \in 1..Len(plist) : plist[i] = plist[j] => i = j

\* The running task is current and nothing else; the ready queue holds
\* exactly the READY tasks, each once.
Consistent(s) ==
  /\ \A t \in Tasks : s.stat[t] = "RUNNING" <=> t = s.cur
  /\ \A t \in Tasks : s.stat[t] = "READY" <=> elem_find(s.ready, t)
  /\ NoDup(s.ready)

=============================================================================
