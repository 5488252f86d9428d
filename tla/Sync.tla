-------------------------------- MODULE Sync --------------------------------
(***************************************************************************)
(* Threads competing for one lock of thread/sync.c under the scheduler of  *)
(* thread/thread.c, with the clock and a device interrupt.                 *)
(*                                                                         *)
(* Interrupts decide what is atomic.  A kernel thread runs with IF set, so *)
(* every C statement outside a set_intr_stat(intr_off) bracket is a step   *)
(* of its own and the clock may preempt between any two.  A user process   *)
(* is preemptible in user mode only: a system call runs with IF clear, and *)
(* gives up the processor only where it blocks or yields.                  *)
(*                                                                         *)
(* The holder of the lock may sleep with it: ioq_wait (device/ioqueue.c)   *)
(* parks the caller in a one-entry slot that an interrupt handler empties, *)
(* which is what leaves the idle thread alone on the processor.            *)
(***************************************************************************)
EXTENDS Sched

CONSTANTS
  KThreads,   \* the kernel threads; the other tasks are user processes
  MaxDepth,   \* bound on nested acquisitions by one thread
  boot,       \* every task once, in the order they are queued at boot
  NULL

ASSUME SyncAssumption ==
  /\ KThreads \subseteq Tasks \ {idle_thread}
  /\ MaxDepth \in Nat \ {0}
  /\ boot \in Seq(Tasks) /\ NoDup(boot)
  /\ \A t \in Tasks : elem_find(boot, t)
  /\ NULL \notin Tasks

VARIABLES
  sched,    \* the scheduler's record
  ifl,      \* the interrupt flag in each task's own context
  old_stat, \* what set_intr_stat returned when each task last entered sema_down
  pc,       \* where each task stands
  sema,     \* lock.semaphore: value and waiters
  lock,     \* lock.holder and lock.holder_repeat_nr
  owed,     \* each task's lock_acquires whose lock_release has not come yet
  waiter    \* the slot of ioq_wait: the task asleep in it, or NULL

vars == <<sched, ifl, old_stat, pc, sema, lock, owed, waiter>>

Threads == Tasks \ {idle_thread}

(***************************************************************************)
(*   out   outside the lock           down  at sema_down                   *)
(*   wait  in its loop, after a sleep own   sema_down has returned         *)
(*   inc   at ++holder_repeat_nr      cs    lock_acquire has returned      *)
(*   zero  holder cleared             up    at sema_up                     *)
(* and for idle: loop, at thread_block; sti, back from it; hlt, halted.    *)
(***************************************************************************)
ThreadPC == {"out", "down", "wait", "own", "inc", "cs", "zero", "up"}

IdlePC == {"loop", "sti", "hlt"}

-----------------------------------------------------------------------------

TypeOK ==
  /\ sched \in SchedState
  /\ ifl \in [Tasks -> BOOLEAN] /\ old_stat \in [Tasks -> BOOLEAN]
  /\ pc \in [Tasks -> ThreadPC \cup IdlePC]
  /\ sema \in Semaphore
  /\ lock \in [holder: Tasks \cup {NULL}, repeat: 0..MaxDepth]
  /\ owed \in [Tasks -> 0..MaxDepth]
  /\ waiter \in Tasks \cup {NULL}

Init ==
  /\ sched = [cur   |-> Head(boot),
              stat  |-> [t \in Tasks |-> IF t = Head(boot) THEN "RUNNING"
                                                           ELSE "READY"],
              ready |-> Tail(boot), ticks |-> prio, panic |-> FALSE]
  /\ ifl = [t \in Tasks |-> TRUE]
  /\ old_stat = [t \in Tasks |-> TRUE]
  /\ pc = [t \in Tasks |-> IF t = idle_thread THEN "loop" ELSE "out"]
  /\ sema = sema_init(1)
  /\ lock = [holder |-> NULL, repeat |-> 0]
  /\ owed = [t \in Tasks |-> 0]
  /\ waiter = NULL

-----------------------------------------------------------------------------
(* lock_acquire and lock_release *)

\* t is on the processor.
Exec(t) == sched.cur = t /\ ~sched.panic

Goto(t, l) == pc' = [pc EXCEPT ![t] = l]

\* lock_acquire is called: the test for a holder that comes again.  From user
\* mode the system call has cleared IF on the way in.
LockAcquire(t) ==
  /\ Exec(t)
  /\ pc[t] \in {"out", "cs"}
  /\ owed[t] < MaxDepth
  /\ owed' = [owed EXCEPT ![t] = @ + 1]
  /\ Goto(t, IF lock.holder # t THEN "down" ELSE "inc")
  /\ ifl' = [ifl EXCEPT ![t] = @ /\ t \in KThreads]
  /\ UNCHANGED <<sched, old_stat, sema, lock, waiter>>

\* Mutant of sema_down: the status is saved in the loop, each time again.
Mut_sema_down(t) ==
  /\ Exec(t)
  /\ pc[t] \in {"down", "wait"}
  /\ old_stat' = [old_stat EXCEPT ![t] = ifl[t]]
  /\ \/ /\ sema.value = 0
        /\ sched' = SemaSleep(sched, sema)
        /\ sema' = SemaEnqueue(sched, sema)
        /\ ifl' = [ifl EXCEPT ![t] = FALSE]
        /\ Goto(t, "wait")
     \/ /\ sema.value # 0
        /\ sema' = SemaTake(sema)
        /\ ifl' = [ifl EXCEPT ![t] = old_stat'[t]]
        /\ Goto(t, "own")
        /\ UNCHANGED sched
  /\ UNCHANGED <<lock, owed, waiter>>

\* sema_down, one turn of its loop: sleep with IF clear, or take the semaphore
\* and put the IF back that was found on the way in.
sema_down(t) ==
  /\ Exec(t)
  /\ pc[t] \in {"down", "wait"}
  /\ old_stat' = [old_stat EXCEPT ![t] = IF pc[t] = "down" THEN ifl[t] ELSE @]
  /\ \/ /\ sema.value = 0
        /\ sched' = SemaSleep(sched, sema)
        /\ sema' = SemaEnqueue(sched, sema)
        /\ ifl' = [ifl EXCEPT ![t] = FALSE]
        /\ Goto(t, "wait")
     \/ /\ sema.value # 0
        /\ sema' = SemaTake(sema)
        /\ ifl' = [ifl EXCEPT ![t] = old_stat'[t]]
        /\ Goto(t, "own")
        /\ UNCHANGED sched
  /\ UNCHANGED <<lock, owed, waiter>>

SetHolder(t) ==
  /\ Exec(t)
  /\ pc[t] = "own"
  /\ lock' = [lock EXCEPT !.holder = t]
  /\ sched' = Check(sched, lock.repeat = 0)
  /\ Goto(t, "inc")
  /\ UNCHANGED <<ifl, old_stat, sema, owed, waiter>>

IncRepeat(t) ==
  /\ Exec(t)
  /\ pc[t] = "inc"
  /\ lock' = [lock EXCEPT !.repeat = @ + 1]
  /\ Goto(t, "cs")
  /\ UNCHANGED <<sched, ifl, old_stat, sema, owed, waiter>>

\* Mutant of LockRelease: the count of nested acquisitions is not consulted.
Mut_LockRelease(t) ==
  /\ Exec(t)
  /\ pc[t] = "cs"
  /\ owed' = [owed EXCEPT ![t] = @ - 1]
  /\ lock' = [lock EXCEPT !.holder = NULL]
  /\ sched' = Check(sched, lock.holder = t)
  /\ Goto(t, "zero")
  /\ UNCHANGED <<ifl, old_stat, sema, waiter>>

\* lock_release, up to the statement that clears the holder.
LockRelease(t) ==
  /\ Exec(t)
  /\ pc[t] = "cs"
  /\ owed' = [owed EXCEPT ![t] = @ - 1]
  /\ \/ /\ lock.repeat > 1
        /\ lock' = [lock EXCEPT !.repeat = @ - 1]
        /\ sched' = Check(sched, lock.holder = t)
        /\ UNCHANGED pc
     \/ /\ lock.repeat <= 1
        /\ lock' = [lock EXCEPT !.holder = NULL]
        /\ sched' = Check(sched, lock.holder = t /\ lock.repeat = 1)
        /\ Goto(t, "zero")
  /\ UNCHANGED <<ifl, old_stat, sema, waiter>>

ZeroRepeat(t) ==
  /\ Exec(t)
  /\ pc[t] = "zero"
  /\ lock' = [lock EXCEPT !.repeat = 0]
  /\ Goto(t, "up")
  /\ UNCHANGED <<sched, ifl, old_stat, sema, owed, waiter>>

\* sema_up, which puts back the IF it finds, and the return of a system call to
\* user mode, which sets it.
sema_up(t) ==
  /\ Exec(t)
  /\ pc[t] = "up"
  /\ sched' = SemaWake(sched, sema)
  /\ sema' = SemaPost(sema)
  /\ Goto(t, IF owed[t] = 0 THEN "out" ELSE "cs")
  /\ ifl' = [ifl EXCEPT ![t] = @ \/ (t \notin KThreads /\ owed[t] = 0)]
  /\ UNCHANGED <<old_stat, lock, owed, waiter>>

-----------------------------------------------------------------------------
(* Giving up the processor *)

\* A kernel thread yields anywhere, a system call while it polls a device
\* with the lock held.
ThreadYield(t) ==
  /\ Exec(t)
  /\ pc[t] = "cs" \/ (pc[t] = "out" /\ t \in KThreads)
  /\ sched' = thread_yield(sched)
  /\ UNCHANGED <<ifl, old_stat, pc, sema, lock, owed, waiter>>

ioq_wait(t) ==
  /\ Exec(t)
  /\ pc[t] = "cs"
  /\ waiter' = t
  /\ sched' = thread_block(Check(sched, waiter = NULL), "BLOCKED")
  /\ UNCHANGED <<ifl, old_stat, pc, sema, lock, owed>>

\* The interrupt handler that empties the slot.
wakeup ==
  /\ ~sched.panic
  /\ ifl[sched.cur]
  /\ waiter # NULL
  /\ sched' = thread_unblock(sched, waiter)
  /\ waiter' = NULL
  /\ pc' = [pc EXCEPT ![sched.cur] = IF @ = "hlt" THEN "loop" ELSE @]
  /\ UNCHANGED <<ifl, old_stat, sema, lock, owed>>

\* The clock interrupt; it also ends the idle thread's hlt.
Timer ==
  /\ ~sched.panic
  /\ ifl[sched.cur]
  /\ sched' = intr_time_hdl(sched)
  /\ pc' = [pc EXCEPT ![sched.cur] = IF @ = "hlt" THEN "loop" ELSE @]
  /\ UNCHANGED <<ifl, old_stat, sema, lock, owed, waiter>>

\* idle: the loop blocks itself, and halts once it is scheduled again.
IdleBlock ==
  /\ Exec(idle_thread)
  /\ pc[idle_thread] = "loop"
  /\ sched' = thread_block(sched, "BLOCKED")
  /\ Goto(idle_thread, "sti")
  /\ UNCHANGED <<ifl, old_stat, sema, lock, owed, waiter>>

IdleHlt ==
  /\ Exec(idle_thread)
  /\ pc[idle_thread] = "sti"
  /\ Goto(idle_thread, "hlt")
  /\ UNCHANGED <<sched, ifl, old_stat, sema, lock, owed, waiter>>

-----------------------------------------------------------------------------

\* The steps a thread takes by itself once it is inside the lock's code.
LockCode(t) == \/ sema_down(t) \/ SetHolder(t) \/ IncRepeat(t)
               \/ ZeroRepeat(t) \/ sema_up(t)

Next ==
  \/ \E t \in Threads : \/ LockAcquire(t) \/ LockCode(t) \/ LockRelease(t)
                        \/ ThreadYield(t) \/ ioq_wait(t)
  \/ wakeup \/ Timer \/ IdleBlock \/ IdleHlt

Spec == Init /\ [][Next]_vars

(***************************************************************************)
(* The clock keeps ticking (a tick that finds IF clear stays pending in    *)
(* the interrupt controller, hence strong fairness), the processor runs    *)
(* many instructions per tick, critical sections end, the nested ones and  *)
(* the outermost (no loop between lock_acquire and lock_release runs for   *)
(* ever), and a device that is waited for raises its interrupt.            *)
(***************************************************************************)
Fairness ==
  /\ SF_vars(Timer) /\ SF_vars(wakeup)
  /\ WF_vars(IdleBlock) /\ WF_vars(IdleHlt)
  /\ \A t \in Threads : /\ SF_vars(LockCode(t)) /\ SF_vars(LockRelease(t))
                        /\ SF_vars(LockRelease(t) /\ lock.repeat <= 1)

FairSpec == Spec /\ Fairness

-----------------------------------------------------------------------------
(* Properties *)

\* The threads between sema_down's success and the end of sema_up.
Inside == {t \in Threads : pc[t] \in {"own", "inc", "cs", "zero", "up"}}

\* At most one thread is between lock_acquire and lock_release, whatever the
\* clock does between their statements, and the semaphore counts it.
Exclusion ==
  /\ \A t, u \in Inside : t = u
  /\ sema.value = 0 <=> Inside # {}

\* No ASSERT on these paths can fail: list_append and list_push never link a
\* task twice, thread_unblock only finds sleeping tasks, lock_release finds
\* its caller the holder, sema_up finds the value 0, ioq_wait an empty slot.
NoPanic == ~sched.panic

\* general_tag is one pair of pointers, so a task is in at most one of the
\* ready queue and a wait queue, and a blocked thread is in the wait queue or
\* in the slot: whoever sleeps can be found by whoever wakes.
TagInOneList ==
  /\ Consistent(sched)
  /\ NoDup(sema.waiters)
  /\ \A t \in Tasks : ~(elem_find(sched.ready, t) /\ elem_find(sema.waiters, t))
  /\ \A t \in Threads : sched.stat[t] = "BLOCKED"
                          <=> (elem_find(sema.waiters, t) \/ waiter = t)

\* sema_up wakes one waiter but does not hand the semaphore over: while it is
\* free with threads queued, some thread that will retry is on its way.
NoLostWakeup ==
  sema.value = 1 /\ sema.waiters # <<>> =>
    \E t \in Threads : pc[t] \in {"down", "wait"} /\ sched.stat[t] \in {"READY", "RUNNING"}

\* The slot of ioq_wait belongs to the holder of the lock: nobody else can
\* come to wait while it is taken.
SlotOwned == waiter # NULL => lock.holder = waiter /\ pc[waiter] = "cs"

\* The IF a task's kernel code runs with outside set_intr_stat brackets.
Preemptible(t) == t \in KThreads

\* sema_down gives back the IF it found, although it sleeps with IF clear and
\* others run meanwhile: kernel code of a system call is never preemptible,
\* that of a kernel thread stays so, and user mode always is.
InterruptsRestored ==
  \A t \in Threads :
    /\ pc[t] = "out" => ifl[t]
    /\ pc[t] \in {"own", "inc", "cs", "zero", "up"} => ifl[t] = Preemptible(t)

\* The owner is the thread inside, and it owns the lock as many times as it
\* still owes a lock_release; the last one takes effect in sema_up.
owner == IF Inside = {} THEN NULL ELSE CHOOSE t \in Inside : TRUE

depth == IF owner = NULL THEN 0
         ELSE IF pc[owner] \in {"zero", "up"} THEN owed[owner] + 1
         ELSE owed[owner]

LS == INSTANCE LockSpec

\* The lock seen through lock_acquire and lock_release is the re-entrant lock
\* of LockSpec: every step acquires, re-enters, releases or changes nothing.
ImplementsLock == LS!Spec

\* A task in the ready queue gets the processor, although thread_unblock
\* queues the tasks it wakes in front of it.
ReadyRuns == \A t \in Threads : sched.stat[t] = "READY" ~> sched.cur = t

\* Somebody waiting for the lock implies somebody will get it (which waiter is
\* not promised: a thread that comes late may take the semaphore first).
LockProgress == (\E t \in Threads : pc[t] \in {"down", "wait"})
                  ~> (\E t \in Threads : pc[t] = "own")
=============================================================================
