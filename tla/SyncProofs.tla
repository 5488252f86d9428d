----------------------------- MODULE SyncProofs -----------------------------
(***************************************************************************)
(* The lock of thread/sync.c, for any number of threads and any depth of   *)
(* nesting: mutual exclusion, no failing ASSERT, no lost wakeup.           *)
(*                                                                         *)
(* None of these is inductive by itself.  A wakeup pushes the head of the  *)
(* wait queue on the ready queue, so that no list is corrupted depends on  *)
(* the queue holding blocked threads only; that sema_up finds the value 0  *)
(* depends on who is inside; and who is inside on holder_repeat_nr.  IInv  *)
(* is their conjunction with what ties pc, lock and semaphore together.    *)
(***************************************************************************)
EXTENDS Sync, SchedProofs

InsidePC == {"own", "inc", "cs", "zero", "up"}

\* The scheduler's part: nobody sleeps in a state this module never asks for.
SchedInv ==
  /\ Consistent(sched) /\ IdleOK(sched)
  /\ ~sched.panic
  /\ \A t \in Threads : sched.stat[t] \notin {"HANGING", "WAITING", "DIED"}

PcInv ==
  /\ \A t \in Threads : pc[t] \in ThreadPC
  /\ pc[idle_thread] \in IdlePC

\* A thread is blocked exactly when the wait queue or the slot leads to it.
WaitInv ==
  /\ NoDup(sema.waiters)
  /\ \A t \in Tasks : elem_find(sema.waiters, t) => t \in Threads /\ pc[t] = "wait"
  /\ waiter # idle_thread
  /\ \A t \in Threads : sched.stat[t] = "BLOCKED"
                          <=> (elem_find(sema.waiters, t) \/ waiter = t)

\* The semaphore, the holder and the count of its acquisitions agree with
\* where the threads stand.
LockInv ==
  /\ \A t, u \in Threads : pc[t] \in InsidePC /\ pc[u] \in InsidePC => t = u
  /\ sema.value = 0 <=> \E t \in Threads : pc[t] \in InsidePC
  /\ \A t \in Threads : lock.holder = t <=> pc[t] \in {"inc", "cs"}
  /\ lock.holder # idle_thread
  /\ sema.value = 1 => lock.repeat = 0
  /\ \A t \in Threads :
       /\ pc[t] \in {"own", "up"} => lock.repeat = 0
       /\ pc[t] = "zero" => lock.repeat = 1
       /\ pc[t] \in {"out", "zero", "up"} => owed[t] = 0
       /\ pc[t] \in {"down", "wait", "own"} => owed[t] = 1
       /\ pc[t] = "inc" => owed[t] = lock.repeat + 1
       /\ pc[t] = "cs" => owed[t] = lock.repeat /\ lock.repeat >= 1

WakeInv ==
  sema.value = 1 /\ sema.waiters # <<>> =>
    \E t \in Threads : pc[t] \in {"down", "wait"} /\ sched.stat[t] # "BLOCKED"

\* What sema_down will put back is the IF its caller ran with: it is still
\* there before set_intr_stat, and in old_stat behind it.
SavedInv ==
  \A t \in Threads : /\ pc[t] = "down" => ifl[t] = Preemptible(t)
                     /\ pc[t] = "wait" => old_stat[t] = Preemptible(t)

IInv == /\ TypeOK /\ SchedInv /\ PcInv /\ WaitInv /\ LockInv /\ SlotOwned
        /\ WakeInv /\ InterruptsRestored /\ SavedInv

-----------------------------------------------------------------------------

\* The boot state: nobody blocked, the lock free.
LEMMA InitIInv == Init => IInv
<1> SUFFICES ASSUME Init PROVE IInv
  OBVIOUS
<1>1. /\ boot \in Seq(Tasks) /\ boot # <<>> /\ NoDup(boot)
      /\ \A t \in Tasks : elem_find(boot, t)
  <2>1. boot # <<>>
    BY SchedAssumption, SyncAssumption DEF elem_find
  <2> QED BY <2>1, SyncAssumption
<1>2. /\ Head(boot) \in Tasks /\ Tail(boot) \in Seq(Tasks) /\ NoDup(Tail(boot))
      /\ \A t \in Tasks : elem_find(Tail(boot), t) <=> t # Head(boot)
  BY <1>1, PopLemma DEF list_pop
<1>3. /\ sched.cur = Head(boot) /\ sched.ready = Tail(boot) /\ ~sched.panic
      /\ \A t \in Tasks : sched.stat[t] = IF t = Head(boot) THEN "RUNNING" ELSE "READY"
  BY DEF Init
<1>4. sched \in SchedState
  BY <1>2, SchedAssumption DEF Init, SchedState, task_stat
<1>5. SchedInv
  BY <1>2, <1>3, SchedAssumption DEF SchedInv, Consistent, IdleOK, Threads
<1>6. PcInv
  BY SchedAssumption DEF Init, PcInv, ThreadPC, IdlePC, Threads
<1>7. /\ sema.value = 1 /\ sema.waiters = <<>>
      /\ sema \in Semaphore
  BY DEF Init, sema_init, Semaphore
<1>8. WaitInv
  <2>1. \A t : ~elem_find(sema.waiters, t)
    BY <1>7 DEF elem_find
  <2>2. NoDup(sema.waiters)
    BY <1>7 DEF NoDup
  <2> QED BY <1>3, <2>1, <2>2, SyncAssumption, SchedAssumption DEF Init, WaitInv, Threads
<1>9. LockInv
  BY <1>7, SyncAssumption, SchedAssumption DEF Init, LockInv, InsidePC, Threads
<1>10. TypeOK
  BY <1>4, <1>7, SyncAssumption DEF Init, TypeOK, ThreadPC, IdlePC
<1>11. SlotOwned /\ WakeInv /\ InterruptsRestored /\ SavedInv
  BY <1>7 DEF Init, SlotOwned, WakeInv, InterruptsRestored, SavedInv, Threads
<1> QED BY <1>5, <1>6, <1>8, <1>9, <1>10, <1>11 DEF IInv

\* A step of the scheduler alone: the processor changes hands, or a tick is
\* counted, and every thread stays where it stands.
LEMMA SchedStep ==
  ASSUME IInv,
         sched' \in SchedState, Consistent(sched'), IdleOK(sched'), ~sched'.panic,
         SameSleepers(sched, sched'),
         pc' \in [Tasks -> ThreadPC \cup IdlePC], pc'[idle_thread] \in IdlePC,
         \A t \in Threads : pc'[t] = pc[t],
         UNCHANGED <<ifl, old_stat, sema, lock, owed, waiter>>
  PROVE  IInv'
<1>1. \A t \in Threads, x \in Parked : sched'.stat[t] = x <=> sched.stat[t] = x
  BY DEF SameSleepers, Threads
<1>2. TypeOK'
  BY DEF IInv, TypeOK
<1>3. SchedInv'
  BY <1>1 DEF IInv, SchedInv, Parked, Asleep
<1>4. PcInv'
  BY DEF IInv, PcInv
<1>5. WaitInv'
  BY <1>1 DEF IInv, WaitInv, Parked, Asleep
<1>6. LockInv'
  BY DEF IInv, LockInv
<1>7. SlotOwned' /\ InterruptsRestored' /\ SavedInv'
  <2>1. waiter # NULL => waiter \in Threads
    BY DEF IInv, WaitInv, TypeOK, Threads
  <2> QED BY <2>1 DEF IInv, SlotOwned, InterruptsRestored, SavedInv, Preemptible
<1>8. WakeInv'
  BY <1>1 DEF IInv, WakeInv, Parked, Asleep
<1> QED BY <1>2, <1>3, <1>4, <1>5, <1>6, <1>7, <1>8 DEF IInv

\* The thread on the processor is not blocked, so it is in no wait queue.
LEMMA RunnerLemma ==
  ASSUME IInv, NEW t \in Threads, sched.cur = t
  PROVE  /\ sched.stat[t] = "RUNNING"
         /\ ~elem_find(sema.waiters, t)
         /\ waiter # t
         /\ t # idle_thread /\ t # NULL /\ t \in Tasks
BY SyncAssumption DEF IInv, SchedInv, WaitInv, Consistent, Threads

\* A step of the running thread t that leaves the scheduler and the queues
\* alone moves t only: what is left to show is about pc, ifl, the value of
\* the semaphore and the lock.
LEMMA LocalStep ==
  ASSUME IInv, NEW t \in Threads, sched.cur = t,
         NEW l \in ThreadPC, NEW f \in BOOLEAN,
         pc' = [pc EXCEPT ![t] = l], ifl' = [ifl EXCEPT ![t] = f],
         sched' = sched, sema'.waiters = sema.waiters, waiter' = waiter,
         sema' \in Semaphore,
         lock' \in [holder: Tasks \cup {NULL}, repeat: 0..MaxDepth],
         owed' \in [Tasks -> 0..MaxDepth],
         old_stat' \in [Tasks -> BOOLEAN],
         \A u \in Threads \ {t} : old_stat'[u] = old_stat[u],
         l # "wait", l = "out" => f,
         l = "down" \/ l \in InsidePC => f = Preemptible(t),
         sema'.value = 1 => sema.value = 1 \/ sema.waiters = <<>>,
         pc[t] \in {"down", "wait"} => sema'.value = 0,
         lock.holder # t => lock'.holder \in {lock.holder, t},
         waiter # NULL => lock'.holder = lock.holder,
         LockInv'
  PROVE  IInv'
<1>1. /\ sched.stat[t] = "RUNNING" /\ ~elem_find(sema.waiters, t) /\ waiter # t
      /\ t # idle_thread /\ t \in Tasks
  BY RunnerLemma
<1>2. /\ pc \in [Tasks -> ThreadPC \cup IdlePC] /\ ifl \in [Tasks -> BOOLEAN]
      /\ pc'[t] = l /\ ifl'[t] = f
      /\ \A u \in Tasks \ {t} : pc'[u] = pc[u] /\ ifl'[u] = ifl[u]
  BY <1>1 DEF IInv, TypeOK
<1>3. TypeOK'
  BY <1>1, <1>2 DEF IInv, TypeOK
<1>4. SchedInv' /\ PcInv'
  BY <1>1, <1>2, SchedAssumption DEF IInv, SchedInv, PcInv, Threads
<1>5. WaitInv'
  BY <1>1, <1>2 DEF IInv, WaitInv
<1>6. SlotOwned'
  <2>1. waiter # NULL => waiter \in Tasks \ {t}
    BY <1>1 DEF IInv, TypeOK
  <2> QED BY <1>2, <2>1 DEF IInv, SlotOwned
<1>7. WakeInv'
  <2>1. ASSUME sema'.value = 1, sema'.waiters # <<>>
        PROVE  \E u \in Threads : pc'[u] \in {"down", "wait"} /\ sched'.stat[u] # "BLOCKED"
    <3>1. PICK u \in Threads : pc[u] \in {"down", "wait"} /\ sched.stat[u] # "BLOCKED"
      BY <2>1 DEF IInv, WakeInv
    <3>2. u # t
      BY <2>1, <3>1
    <3> QED BY <1>2, <3>1, <3>2 DEF Threads
  <2> QED BY <2>1 DEF WakeInv
<1>8. InterruptsRestored' /\ SavedInv'
  BY <1>2 DEF IInv, InterruptsRestored, SavedInv, InsidePC, Threads, Preemptible
<1> QED BY <1>3, <1>4, <1>5, <1>6, <1>7, <1>8 DEF IInv

\* The types of what a thread's step reads.
LEMMA TypesLemma ==
  ASSUME IInv, NEW t \in Threads
  PROVE  /\ t \in Tasks /\ pc \in [Tasks -> ThreadPC \cup IdlePC]
         /\ sema \in Semaphore
         /\ ifl \in [Tasks -> BOOLEAN] /\ old_stat \in [Tasks -> BOOLEAN]
         /\ lock \in [holder: Tasks \cup {NULL}, repeat: 0..MaxDepth]
         /\ owed \in [Tasks -> 0..MaxDepth] /\ MaxDepth \in Nat \ {0}
BY SyncAssumption DEF IInv, TypeOK, Threads

LEMMA LockAcquireStep ==
  ASSUME IInv, NEW t \in Threads, LockAcquire(t)
  PROVE  IInv'
<1> DEFINE l == IF lock.holder # t THEN "down" ELSE "inc"
<1>1. /\ sched.cur = t /\ pc[t] \in {"out", "cs"}
      /\ owed[t] < MaxDepth /\ owed' = [owed EXCEPT ![t] = @ + 1]
      /\ pc' = [pc EXCEPT ![t] = l]
      /\ ifl' = [ifl EXCEPT ![t] = ifl[t] /\ t \in KThreads]
      /\ UNCHANGED <<sched, old_stat, sema, lock, waiter>>
  BY DEF LockAcquire, Exec, Goto
<1>2. pc[t] = "cs" <=> lock.holder = t
  BY <1>1 DEF IInv, LockInv
<1>3. /\ t \in Tasks /\ pc \in [Tasks -> ThreadPC \cup IdlePC]
      /\ sema \in Semaphore
      /\ ifl \in [Tasks -> BOOLEAN] /\ old_stat \in [Tasks -> BOOLEAN]
      /\ lock \in [holder: Tasks \cup {NULL}, repeat: 0..MaxDepth]
      /\ owed \in [Tasks -> 0..MaxDepth] /\ MaxDepth \in Nat \ {0}
  BY TypesLemma
<1>4. /\ pc'[t] = l /\ \A u \in Threads \ {t} : pc'[u] = pc[u]
      /\ owed'[t] = owed[t] + 1 /\ \A u \in Threads \ {t} : owed'[u] = owed[u]
      /\ owed' \in [Tasks -> 0..MaxDepth]
  BY <1>1, <1>3 DEF Threads
<1>5. LockInv'
  BY <1>1, <1>2, <1>3, <1>4 DEF IInv, LockInv, InsidePC
<1>6. l \in ThreadPC /\ Preemptible(t) \in BOOLEAN /\ l \notin {"out", "wait"}
  BY DEF ThreadPC, Preemptible
<1>7. ifl' = [ifl EXCEPT ![t] = Preemptible(t)]
  <2>1. CASE pc[t] = "out"
    <3>1. ifl[t] = TRUE
      BY <1>3, <2>1 DEF IInv, InterruptsRestored
    <3>2. (ifl[t] /\ t \in KThreads) = Preemptible(t)
      BY <3>1 DEF Preemptible
    <3> QED BY <1>1, <3>2
  <2>2. CASE pc[t] = "cs"
    <3>1. ifl[t] = Preemptible(t) /\ ifl[t] \in BOOLEAN
      BY <1>3, <2>2 DEF IInv, InterruptsRestored
    <3>2. (ifl[t] /\ t \in KThreads) = Preemptible(t)
      <4>1. CASE t \in KThreads
        BY <3>1, <4>1 DEF Preemptible
      <4>2. CASE t \notin KThreads
        BY <3>1, <4>2 DEF Preemptible
      <4> QED BY <4>1, <4>2
    <3> QED BY <1>1, <3>2
  <2> QED BY <1>1, <2>1, <2>2
<1> HIDE DEF l
<1>8. pc[t] \notin {"down", "wait"}
  BY <1>1
<1> QED BY <1>1, <1>3, <1>4, <1>5, <1>6, <1>7, <1>8, LocalStep

\* What sema_down saves, or has saved, is the caller's IF.
LEMMA SavedLemma ==
  ASSUME IInv, NEW t \in Threads, pc[t] \in {"down", "wait"},
         old_stat' = [old_stat EXCEPT ![t] = IF pc[t] = "down" THEN ifl[t] ELSE old_stat[t]]
  PROVE  old_stat' = [old_stat EXCEPT ![t] = Preemptible(t)]
<1>1. CASE pc[t] = "down"
  <2>1. ifl[t] = Preemptible(t)
    BY <1>1 DEF IInv, SavedInv
  <2> QED BY <1>1, <2>1
<1>2. CASE pc[t] = "wait"
  <2>1. old_stat[t] = Preemptible(t)
    BY <1>2 DEF IInv, SavedInv
  <2> QED BY <1>2, <2>1
<1> QED BY <1>1, <1>2

\* sema_down at the value 1.
LEMMA SemaTakeStep ==
  ASSUME IInv, NEW t \in Threads, sema_down(t), sema.value # 0
  PROVE  IInv'
<1>1. /\ sched.cur = t /\ pc[t] \in {"down", "wait"}
      /\ pc' = [pc EXCEPT ![t] = "own"] /\ ifl' = [ifl EXCEPT ![t] = old_stat'[t]]
      /\ old_stat' = [old_stat EXCEPT ![t] = IF pc[t] = "down" THEN ifl[t] ELSE old_stat[t]]
      /\ sema' = SemaTake(sema)
      /\ UNCHANGED <<sched, lock, owed, waiter>>
  BY DEF sema_down, Exec, Goto
<1>2. /\ t \in Tasks /\ pc \in [Tasks -> ThreadPC \cup IdlePC]
      /\ sema \in Semaphore
      /\ ifl \in [Tasks -> BOOLEAN] /\ old_stat \in [Tasks -> BOOLEAN]
      /\ lock \in [holder: Tasks \cup {NULL}, repeat: 0..MaxDepth]
      /\ owed \in [Tasks -> 0..MaxDepth] /\ MaxDepth \in Nat \ {0}
  BY TypesLemma
<1>3. /\ sema.value = 1 /\ sema'.value = 0 /\ sema'.waiters = sema.waiters
      /\ sema' \in Semaphore
  <2>1. sema \in Semaphore BY <1>2
  <2> QED BY <1>1, <2>1 DEF Semaphore, SemaTake
<1>4. pc'[t] = "own" /\ \A u \in Threads \ {t} : pc'[u] = pc[u]
  BY <1>1, <1>2 DEF Threads
<1>5. LockInv'
  BY <1>1, <1>3, <1>4 DEF IInv, LockInv, InsidePC
<1>6. "own" \in ThreadPC /\ Preemptible(t) \in BOOLEAN
  BY DEF ThreadPC, Preemptible
<1>7. old_stat' = [old_stat EXCEPT ![t] = Preemptible(t)]
  BY <1>1, SavedLemma
<1>8. /\ old_stat' \in [Tasks -> BOOLEAN] /\ old_stat'[t] = Preemptible(t)
      /\ \A u \in Threads \ {t} : old_stat'[u] = old_stat[u]
  BY <1>2, <1>6, <1>7 DEF Threads
<1>9. ifl' = [ifl EXCEPT ![t] = Preemptible(t)]
  BY <1>1, <1>8
<1> QED BY <1>1, <1>2, <1>3, <1>5, <1>6, <1>8, <1>9, LocalStep

LEMMA SetHolderStep ==
  ASSUME IInv, NEW t \in Threads, SetHolder(t)
  PROVE  IInv'
<1>1. /\ sched.cur = t /\ pc[t] = "own"
      /\ pc' = [pc EXCEPT ![t] = "inc"]
      /\ lock' = [lock EXCEPT !.holder = t]
      /\ UNCHANGED <<ifl, old_stat, sema, owed, waiter>>
  BY DEF SetHolder, Exec, Goto
<1>2. /\ t \in Tasks /\ pc \in [Tasks -> ThreadPC \cup IdlePC]
      /\ sema \in Semaphore
      /\ ifl \in [Tasks -> BOOLEAN] /\ old_stat \in [Tasks -> BOOLEAN]
      /\ lock \in [holder: Tasks \cup {NULL}, repeat: 0..MaxDepth]
      /\ owed \in [Tasks -> 0..MaxDepth] /\ MaxDepth \in Nat \ {0}
  BY TypesLemma
<1>3. lock.repeat = 0 /\ sema.value = 0 /\ ifl[t] = Preemptible(t)
  BY <1>1 DEF IInv, LockInv, InsidePC, InterruptsRestored
<1>4. sched' = sched
  BY <1>3 DEF SetHolder, Check
<1>5. pc'[t] = "inc" /\ \A u \in Threads \ {t} : pc'[u] = pc[u]
  BY <1>1, <1>2 DEF Threads
<1>6. /\ lock'.holder = t /\ lock'.repeat = 0
      /\ lock' \in [holder: Tasks \cup {NULL}, repeat: 0..MaxDepth]
  BY <1>1, <1>2, <1>3
<1>7. LockInv'
  <2>1. t # idle_thread BY DEF Threads
  <2> QED BY <1>1, <1>2, <1>3, <1>5, <1>6, <2>1 DEF IInv, LockInv, InsidePC
<1>8. ifl' = [ifl EXCEPT ![t] = Preemptible(t)]
  BY <1>1, <1>2, <1>3
<1>9. "inc" \in ThreadPC /\ Preemptible(t) \in BOOLEAN
  BY DEF ThreadPC, Preemptible
<1>10. waiter # NULL => lock'.holder = lock.holder
  <2>1. waiter # NULL => waiter \in Threads
    BY DEF IInv, TypeOK, WaitInv, Threads
  <2> QED BY <1>1, <2>1 DEF IInv, SlotOwned, LockInv, InsidePC
<1> QED BY <1>1, <1>2, <1>4, <1>6, <1>7, <1>8, <1>9, <1>10, LocalStep

LEMMA IncRepeatStep ==
  ASSUME IInv, NEW t \in Threads, IncRepeat(t)
  PROVE  IInv'
<1>1. /\ sched.cur = t /\ pc[t] = "inc"
      /\ pc' = [pc EXCEPT ![t] = "cs"]
      /\ lock' = [lock EXCEPT !.repeat = @ + 1]
      /\ UNCHANGED <<sched, ifl, old_stat, sema, owed, waiter>>
  BY DEF IncRepeat, Exec, Goto
<1>2. /\ t \in Tasks /\ pc \in [Tasks -> ThreadPC \cup IdlePC]
      /\ sema \in Semaphore
      /\ ifl \in [Tasks -> BOOLEAN] /\ old_stat \in [Tasks -> BOOLEAN]
      /\ lock \in [holder: Tasks \cup {NULL}, repeat: 0..MaxDepth]
      /\ owed \in [Tasks -> 0..MaxDepth] /\ MaxDepth \in Nat \ {0}
  BY TypesLemma
<1>3. /\ lock.repeat < MaxDepth /\ lock.holder = t /\ sema.value = 0
      /\ ifl[t] = Preemptible(t)
  BY <1>1, <1>2 DEF IInv, LockInv, InsidePC, InterruptsRestored
<1>4. pc'[t] = "cs" /\ \A u \in Threads \ {t} : pc'[u] = pc[u]
  BY <1>1, <1>2 DEF Threads
<1>5. /\ lock'.holder = t /\ lock'.repeat = lock.repeat + 1
      /\ lock' \in [holder: Tasks \cup {NULL}, repeat: 0..MaxDepth]
  BY <1>1, <1>2, <1>3
<1>6. LockInv'
  BY <1>1, <1>2, <1>3, <1>4, <1>5 DEF IInv, LockInv, InsidePC
<1>7. ifl' = [ifl EXCEPT ![t] = Preemptible(t)]
  BY <1>1, <1>2, <1>3
<1>8. "cs" \in ThreadPC /\ Preemptible(t) \in BOOLEAN
  BY DEF ThreadPC, Preemptible
<1> QED BY <1>1, <1>2, <1>3, <1>5, <1>6, <1>7, <1>8, LocalStep

LEMMA LockReleaseStep ==
  ASSUME IInv, NEW t \in Threads, LockRelease(t)
  PROVE  IInv'
<1>1. /\ sched.cur = t /\ pc[t] = "cs"
      /\ owed' = [owed EXCEPT ![t] = @ - 1]
      /\ UNCHANGED <<ifl, old_stat, sema, waiter>>
  BY DEF LockRelease, Exec
<1>2. /\ t \in Tasks /\ pc \in [Tasks -> ThreadPC \cup IdlePC]
      /\ sema \in Semaphore
      /\ ifl \in [Tasks -> BOOLEAN] /\ old_stat \in [Tasks -> BOOLEAN]
      /\ lock \in [holder: Tasks \cup {NULL}, repeat: 0..MaxDepth]
      /\ owed \in [Tasks -> 0..MaxDepth] /\ MaxDepth \in Nat \ {0}
  BY TypesLemma
<1>3. /\ lock.repeat >= 1 /\ lock.holder = t /\ sema.value = 0
      /\ owed[t] = lock.repeat
      /\ ifl[t] = Preemptible(t)
  BY <1>1 DEF IInv, LockInv, InsidePC, InterruptsRestored
<1>4. sched' = sched
  BY <1>2, <1>3 DEF LockRelease, Check
<1>5. ifl' = [ifl EXCEPT ![t] = Preemptible(t)]
  BY <1>1, <1>2, <1>3
<1>6. {"cs", "zero"} \subseteq ThreadPC /\ Preemptible(t) \in BOOLEAN
  BY DEF ThreadPC, Preemptible
<1>7. waiter = NULL
  BY <1>1, <1>3, RunnerLemma DEF IInv, SlotOwned
<1>8. /\ owed'[t] = owed[t] - 1 /\ \A u \in Threads \ {t} : owed'[u] = owed[u]
      /\ owed' \in [Tasks -> 0..MaxDepth]
  BY <1>1, <1>2, <1>3 DEF Threads
<1>9. CASE lock.repeat > 1
  <2>1. /\ pc' = pc /\ lock'.holder = t /\ lock'.repeat = lock.repeat - 1
        /\ lock' \in [holder: Tasks \cup {NULL}, repeat: 0..MaxDepth]
    BY <1>2, <1>3, <1>9 DEF LockRelease
  <2>2. LockInv'
    BY <1>1, <1>2, <1>3, <1>8, <1>9, <2>1 DEF IInv, LockInv, InsidePC
  <2>3. pc' = [pc EXCEPT ![t] = "cs"]
    BY <1>1, <1>2, <2>1
  <2> QED BY <1>1, <1>2, <1>3, <1>4, <1>5, <1>6, <1>7, <1>8, <2>1, <2>2, <2>3, LocalStep
<1>10. CASE lock.repeat = 1
  <2>1. /\ pc' = [pc EXCEPT ![t] = "zero"]
        /\ lock'.holder = NULL /\ lock'.repeat = 1
        /\ lock' \in [holder: Tasks \cup {NULL}, repeat: 0..MaxDepth]
    BY <1>2, <1>10 DEF LockRelease, Goto
  <2>2. pc'[t] = "zero" /\ \A u \in Threads \ {t} : pc'[u] = pc[u]
    BY <1>2, <2>1 DEF Threads
  <2>3. LockInv'
    <3>1. NULL # idle_thread /\ \A u \in Threads : u # NULL
      BY SchedAssumption, SyncAssumption DEF Threads
    <3> QED BY <1>1, <1>2, <1>3, <1>8, <1>10, <2>1, <2>2, <3>1 DEF IInv, LockInv, InsidePC
  <2> QED BY <1>1, <1>2, <1>3, <1>4, <1>5, <1>6, <1>7, <1>8, <2>1, <2>3, LocalStep
<1> QED BY <1>2, <1>3, <1>9, <1>10

LEMMA ZeroRepeatStep ==
  ASSUME IInv, NEW t \in Threads, ZeroRepeat(t)
  PROVE  IInv'
<1>1. /\ sched.cur = t /\ pc[t] = "zero"
      /\ pc' = [pc EXCEPT ![t] = "up"]
      /\ lock' = [lock EXCEPT !.repeat = 0]
      /\ UNCHANGED <<sched, ifl, old_stat, sema, owed, waiter>>
  BY DEF ZeroRepeat, Exec, Goto
<1>2. /\ t \in Tasks /\ pc \in [Tasks -> ThreadPC \cup IdlePC]
      /\ sema \in Semaphore
      /\ ifl \in [Tasks -> BOOLEAN] /\ old_stat \in [Tasks -> BOOLEAN]
      /\ lock \in [holder: Tasks \cup {NULL}, repeat: 0..MaxDepth]
      /\ owed \in [Tasks -> 0..MaxDepth] /\ MaxDepth \in Nat \ {0}
  BY TypesLemma
<1>3. sema.value = 0 /\ ifl[t] = Preemptible(t)
  BY <1>1 DEF IInv, LockInv, InsidePC, InterruptsRestored
<1>4. pc'[t] = "up" /\ \A u \in Threads \ {t} : pc'[u] = pc[u]
  BY <1>1, <1>2 DEF Threads
<1>5. /\ lock'.holder = lock.holder /\ lock'.repeat = 0
      /\ lock' \in [holder: Tasks \cup {NULL}, repeat: 0..MaxDepth]
  BY <1>1, <1>2
<1>6. LockInv'
  BY <1>1, <1>2, <1>3, <1>4, <1>5 DEF IInv, LockInv, InsidePC
<1>7. ifl' = [ifl EXCEPT ![t] = Preemptible(t)]
  BY <1>1, <1>2, <1>3
<1>8. "up" \in ThreadPC /\ Preemptible(t) \in BOOLEAN
  BY DEF ThreadPC, Preemptible
<1> QED BY <1>1, <1>2, <1>3, <1>5, <1>6, <1>7, <1>8, LocalStep

\* sema_down at the value 0: the caller joins the wait queue and blocks.
LEMMA SemaSleepStep ==
  ASSUME IInv, NEW t \in Threads, sema_down(t), sema.value = 0
  PROVE  IInv'
<1>1. /\ sched.cur = t /\ pc[t] \in {"down", "wait"}
      /\ sched' = SemaSleep(sched, sema) /\ sema' = SemaEnqueue(sched, sema)
      /\ ifl' = [ifl EXCEPT ![t] = FALSE] /\ pc' = [pc EXCEPT ![t] = "wait"]
      /\ old_stat' = [old_stat EXCEPT ![t] = IF pc[t] = "down" THEN ifl[t] ELSE old_stat[t]]
      /\ UNCHANGED <<lock, owed, waiter>>
  BY DEF sema_down, Exec, Goto
<1>2. /\ t \in Tasks /\ pc \in [Tasks -> ThreadPC \cup IdlePC]
      /\ sema \in Semaphore
      /\ ifl \in [Tasks -> BOOLEAN] /\ old_stat \in [Tasks -> BOOLEAN]
      /\ lock \in [holder: Tasks \cup {NULL}, repeat: 0..MaxDepth]
      /\ owed \in [Tasks -> 0..MaxDepth] /\ MaxDepth \in Nat \ {0}
  BY TypesLemma
<1>3. /\ sched.stat[t] = "RUNNING" /\ ~elem_find(sema.waiters, t) /\ waiter # t
      /\ t # idle_thread
  BY <1>1, RunnerLemma
<1>4. sched \in SchedState /\ Consistent(sched) /\ IdleOK(sched) /\ ~sched.panic
  BY DEF IInv, TypeOK, SchedInv
<1>5. sched' = thread_block(sched, "BLOCKED")
  BY <1>1, <1>3 DEF SemaSleep, Check
<1>6. /\ sched' \in SchedState /\ Consistent(sched') /\ IdleOK(sched')
      /\ sched'.panic = sched.panic
      /\ \A u \in Tasks \ {idle_thread}, x \in Parked :
           sched'.stat[u] = x <=> IF u = t THEN "BLOCKED" = x ELSE sched.stat[u] = x
  <2>1. "BLOCKED" \in Asleep BY DEF Asleep
  <2> QED BY <1>1, <1>4, <1>5, <2>1, BlockLemma
<1>7. /\ sema.waiters \in Seq(Tasks) /\ NoDup(sema.waiters)
      /\ sema'.waiters = list_append(sema.waiters, t) /\ sema'.value = sema.value
  BY <1>1, <1>2 DEF Semaphore, SemaEnqueue, IInv, WaitInv
<1>8. /\ list_append(sema.waiters, t) \in Seq(Tasks)
      /\ NoDup(list_append(sema.waiters, t))
      /\ \A u : elem_find(list_append(sema.waiters, t), u)
                  <=> elem_find(sema.waiters, u) \/ u = t
  <2> DEFINE q == sema.waiters
  <2>1. q \in Seq(Tasks) /\ NoDup(q) /\ ~elem_find(q, t) /\ t \in Tasks
    BY <1>2, <1>3, <1>7
  <2> HIDE DEF q
  <2>2. /\ list_append(q, t) \in Seq(Tasks) /\ NoDup(list_append(q, t))
        /\ \A u : elem_find(list_append(q, t), u) <=> elem_find(q, u) \/ u = t
    BY <2>1, AppendLemma
  <2> QED BY <2>2 DEF q
<1>15. /\ old_stat' \in [Tasks -> BOOLEAN] /\ old_stat'[t] = Preemptible(t)
       /\ \A u \in Tasks \ {t} : old_stat'[u] = old_stat[u]
  <2>1. old_stat' = [old_stat EXCEPT ![t] = Preemptible(t)]
    BY <1>1, SavedLemma
  <2>2. Preemptible(t) \in BOOLEAN
    BY DEF Preemptible
  <2> QED BY <1>2, <2>1, <2>2
<1>16. /\ pc' \in [Tasks -> ThreadPC \cup IdlePC] /\ pc'[t] = "wait"
       /\ \A u \in Tasks \ {t} : pc'[u] = pc[u]
  BY <1>1, <1>2 DEF ThreadPC
<1>9. TypeOK'
  <2>1. sema' = [sema EXCEPT !.waiters = list_append(sema.waiters, t)]
    BY <1>1 DEF SemaEnqueue
  <2>2. sema' \in Semaphore
    BY <1>2, <1>8, <2>1 DEF Semaphore
  <2>3. ifl' \in [Tasks -> BOOLEAN]
    BY <1>1, <1>2
  <2> QED BY <1>1, <1>6, <1>15, <1>16, <2>2, <2>3 DEF IInv, TypeOK
<1>10. SchedInv'
  BY <1>4, <1>6 DEF IInv, SchedInv, Parked, Asleep, Threads
<1>11. WaitInv'
  <2>1. \A u \in Threads : sched'.stat[u] = "BLOCKED"
                             <=> u = t \/ sched.stat[u] = "BLOCKED"
    BY <1>6 DEF Parked, Asleep, Threads
  <2> QED BY <1>1, <1>3, <1>7, <1>8, <1>16, <2>1 DEF IInv, WaitInv
<1>12. PcInv' /\ LockInv' /\ SlotOwned'
  <2>1. PcInv'
    BY <1>2, <1>3, <1>16, SchedAssumption DEF IInv, PcInv, ThreadPC, Threads
  <2>2. LockInv'
    BY <1>1, <1>2, <1>7, <1>16 DEF IInv, LockInv, InsidePC, Threads
  <2>3. SlotOwned'
    BY <1>1, <1>2, <1>3, <1>16 DEF IInv, TypeOK, SlotOwned
  <2> QED BY <2>1, <2>2, <2>3
<1>13. WakeInv'
  <2>1. sema'.value = 0 BY <1>7
  <2> QED BY <2>1 DEF WakeInv
<1>14. InterruptsRestored' /\ SavedInv'
  <2>1. ifl'[t] = FALSE /\ \A u \in Tasks \ {t} : ifl'[u] = ifl[u]
    BY <1>1, <1>2
  <2> QED BY <1>15, <1>16, <2>1 DEF IInv, InterruptsRestored, SavedInv, Threads, Preemptible
<1> QED BY <1>9, <1>10, <1>11, <1>12, <1>13, <1>14 DEF IInv

\* sema_up: the value becomes 1 and the first waiter is READY.
LEMMA SemaUpStep ==
  ASSUME IInv, NEW t \in Threads, sema_up(t)
  PROVE  IInv'
<1>1. /\ sched.cur = t /\ pc[t] = "up"
      /\ sched' = SemaWake(sched, sema) /\ sema' = SemaPost(sema)
      /\ ifl' = [ifl EXCEPT ![t] = TRUE] /\ pc' = [pc EXCEPT ![t] = "out"]
      /\ UNCHANGED <<old_stat, lock, owed, waiter>>
  <2>1. owed[t] = 0 /\ pc[t] = "up" /\ t \in Threads
    BY DEF IInv, LockInv, sema_up
  <2>2. ifl[t] = Preemptible(t)
    BY <2>1 DEF IInv, InterruptsRestored
  <2>3. ifl' = [ifl EXCEPT ![t] = ifl[t] \/ (t \notin KThreads /\ owed[t] = 0)]
    BY DEF sema_up
  <2>4. ifl' = [ifl EXCEPT ![t] = TRUE]
    <3>1. CASE t \in KThreads
      <4>1. ifl[t] = TRUE BY <2>2, <3>1 DEF Preemptible
      <4> QED BY <2>3, <4>1
    <3>2. CASE t \notin KThreads
      BY <2>1, <2>3, <3>2
    <3> QED BY <3>1, <3>2
  <2> QED BY <2>1, <2>4 DEF sema_up, Exec, Goto
<1>2. /\ t \in Tasks /\ pc \in [Tasks -> ThreadPC \cup IdlePC]
      /\ sema \in Semaphore
      /\ ifl \in [Tasks -> BOOLEAN] /\ old_stat \in [Tasks -> BOOLEAN]
      /\ lock \in [holder: Tasks \cup {NULL}, repeat: 0..MaxDepth]
      /\ owed \in [Tasks -> 0..MaxDepth] /\ MaxDepth \in Nat \ {0}
  BY TypesLemma
<1>3. /\ sched.stat[t] = "RUNNING" /\ ~elem_find(sema.waiters, t) /\ waiter # t
      /\ t # idle_thread
  BY <1>1, RunnerLemma
<1>4. sched \in SchedState /\ Consistent(sched) /\ IdleOK(sched) /\ ~sched.panic
  BY DEF IInv, TypeOK, SchedInv
<1>5. /\ sema.value = 0 /\ lock.repeat = 0 /\ lock.holder # t
      /\ owed[t] = 0 /\ \A u \in Threads : pc[u] \in InsidePC => u = t
  BY <1>1 DEF IInv, LockInv, InsidePC
<1>6. waiter = NULL
  <2>1. waiter # NULL => waiter \in Threads /\ pc[waiter] = "cs"
    BY DEF IInv, TypeOK, WaitInv, SlotOwned, Threads
  <2> QED BY <1>3, <1>5, <2>1 DEF InsidePC
<1>7. /\ pc'[t] = "out" /\ ifl'[t] = TRUE
      /\ \A u \in Tasks \ {t} : pc'[u] = pc[u] /\ ifl'[u] = ifl[u]
      /\ pc' \in [Tasks -> ThreadPC \cup IdlePC] /\ ifl' \in [Tasks -> BOOLEAN]
  BY <1>1, <1>2 DEF ThreadPC
<1>8. PcInv'
  BY <1>3, <1>7, SchedAssumption DEF IInv, PcInv, ThreadPC, Threads
<1>9. sema'.value = 1
  BY <1>1, <1>5 DEF SemaPost
<1>10. LockInv'
  <2>1. \A u \in Threads : pc'[u] \notin InsidePC
    BY <1>5, <1>7 DEF InsidePC, Threads
  <2> QED BY <1>1, <1>5, <1>7, <1>9, <2>1, <1>2 DEF IInv, LockInv, InsidePC
<1>11. SlotOwned' /\ InterruptsRestored' /\ SavedInv'
  BY <1>1, <1>6, <1>7 DEF IInv, SlotOwned, InterruptsRestored, SavedInv, Threads, Preemptible
<1>12. sema.waiters \in Seq(Tasks) /\ NoDup(sema.waiters)
  BY <1>2 DEF Semaphore, IInv, WaitInv
<1>13. CASE sema.waiters = <<>>
  <2>1. sched' = sched /\ sema'.waiters = <<>> /\ sema' \in Semaphore
    BY <1>1, <1>5, <1>13 DEF SemaWake, SemaPost, Check, Semaphore
  <2>2. TypeOK' /\ SchedInv' /\ WakeInv'
    BY <1>1, <1>7, <2>1 DEF IInv, TypeOK, SchedInv, WakeInv
  <2>3. WaitInv'
    BY <1>1, <1>7, <1>13, <2>1 DEF IInv, WaitInv, Threads, elem_find
  <2> QED BY <1>8, <1>10, <1>11, <2>2, <2>3 DEF IInv
<1>14. CASE sema.waiters # <<>>
  <2> DEFINE w == Head(sema.waiters)
  <2>1. /\ w \in Tasks /\ elem_find(sema.waiters, w)
        /\ list_pop(sema.waiters) \in Seq(Tasks) /\ NoDup(list_pop(sema.waiters))
        /\ \A u : elem_find(list_pop(sema.waiters), u)
                    <=> elem_find(sema.waiters, u) /\ u # w
    BY <1>12, <1>14, PopLemma
  <2>2. w \in Threads /\ pc[w] = "wait" /\ sched.stat[w] = "BLOCKED" /\ w # t
    BY <1>3, <2>1 DEF IInv, WaitInv
  <2>3. /\ sched' = thread_unblock(sched, w)
        /\ sema'.waiters = list_pop(sema.waiters)
    BY <1>1, <1>5, <1>14 DEF SemaWake, SemaPost, Check
  <2>4. sema' \in Semaphore
    BY <1>1, <1>5, <1>14, <2>1 DEF SemaPost, Semaphore
  <2> HIDE DEF w
  <2>5. /\ sched' \in SchedState /\ Consistent(sched') /\ IdleOK(sched')
        /\ sched'.panic = sched.panic
        /\ \A u \in Tasks :
             sched'.stat[u] = IF u = w THEN "READY" ELSE sched.stat[u]
    <3>1. w \in Tasks \ {idle_thread} /\ sched.stat[w] \in Asleep
      BY <2>2 DEF Threads, Asleep
    <3> QED BY <1>4, <2>3, <3>1, WakeLemma
  <2>6. TypeOK'
    BY <1>1, <1>7, <2>4, <2>5 DEF IInv, TypeOK
  <2>7. SchedInv'
    BY <1>4, <2>5 DEF IInv, SchedInv, Threads
  <2>8. WaitInv'
    <3>1. \A u \in Threads : sched'.stat[u] = "BLOCKED"
                               <=> u # w /\ sched.stat[u] = "BLOCKED"
      BY <2>5 DEF Threads
    <3>2. w # waiter
      BY <1>6, <2>1, SyncAssumption
    <3> QED BY <1>1, <1>3, <1>7, <2>1, <2>3, <3>1, <3>2 DEF IInv, WaitInv, Threads
  <2>9. WakeInv'
    <3>1. pc'[w] = "wait" /\ sched'.stat[w] # "BLOCKED"
      BY <1>7, <2>1, <2>2, <2>5
    <3> QED BY <2>2, <3>1 DEF WakeInv
  <2> QED BY <1>8, <1>10, <1>11, <2>6, <2>7, <2>8, <2>9 DEF IInv
<1> QED BY <1>13, <1>14

LEMMA ThreadYieldStep ==
  ASSUME IInv, NEW t \in Threads, ThreadYield(t)
  PROVE  IInv'
<1>1. sched \in SchedState /\ Consistent(sched) /\ IdleOK(sched) /\ ~sched.panic
  BY DEF IInv, TypeOK, SchedInv
<1>2. sched' = thread_yield(sched) /\ UNCHANGED <<ifl, old_stat, pc, sema, lock, owed, waiter>>
  BY DEF ThreadYield
<1>3. /\ sched' \in SchedState /\ Consistent(sched') /\ IdleOK(sched')
      /\ ~sched'.panic /\ SameSleepers(sched, sched')
  BY <1>1, <1>2, YieldLemma
<1>4. pc \in [Tasks -> ThreadPC \cup IdlePC] /\ pc[idle_thread] \in IdlePC
  BY DEF IInv, TypeOK, PcInv
<1> QED BY <1>2, <1>3, <1>4, SchedStep

\* Only the idle thread's pc depends on an interrupt.
LEMMA HltLemma ==
  ASSUME IInv,
         pc' = [pc EXCEPT ![sched.cur] = IF @ = "hlt" THEN "loop" ELSE @]
  PROVE  /\ pc' \in [Tasks -> ThreadPC \cup IdlePC]
         /\ pc'[idle_thread] \in IdlePC
         /\ \A t \in Threads : pc'[t] = pc[t]
<1>1. /\ sched.cur \in Tasks /\ pc \in [Tasks -> ThreadPC \cup IdlePC]
      /\ pc[idle_thread] \in IdlePC /\ idle_thread \in Tasks
      /\ \A t \in Threads : pc[t] \in ThreadPC
  BY SchedAssumption DEF IInv, TypeOK, SchedState, PcInv
<1>2. \A t \in Tasks : pc'[t] = IF t = sched.cur /\ pc[t] = "hlt" THEN "loop" ELSE pc[t]
  BY <1>1
<1>3. \A t \in Threads : pc[t] # "hlt" /\ t \in Tasks
  BY <1>1 DEF ThreadPC, Threads
<1>4. pc' \in [Tasks -> ThreadPC \cup IdlePC]
  BY <1>1 DEF IdlePC
<1> QED BY <1>1, <1>2, <1>3, <1>4 DEF IdlePC

LEMMA TimerStep ==
  ASSUME IInv, Timer
  PROVE  IInv'
<1>1. sched \in SchedState /\ Consistent(sched) /\ IdleOK(sched) /\ ~sched.panic
  BY DEF IInv, TypeOK, SchedInv
<1>2. /\ sched' = intr_time_hdl(sched) /\ UNCHANGED <<ifl, old_stat, sema, lock, owed, waiter>>
      /\ pc' = [pc EXCEPT ![sched.cur] = IF @ = "hlt" THEN "loop" ELSE @]
  BY DEF Timer
<1>3. /\ sched' \in SchedState /\ Consistent(sched') /\ IdleOK(sched')
      /\ ~sched'.panic /\ SameSleepers(sched, sched')
  BY <1>1, <1>2, TimerLemma
<1>4. /\ pc' \in [Tasks -> ThreadPC \cup IdlePC]
      /\ pc'[idle_thread] \in IdlePC
      /\ \A t \in Threads : pc'[t] = pc[t]
  BY <1>2, HltLemma
<1> QED BY <1>2, <1>3, <1>4, SchedStep

LEMMA IdleStep ==
  ASSUME IInv, IdleBlock \/ IdleHlt
  PROVE  IInv'
<1>1. sched \in SchedState /\ Consistent(sched) /\ IdleOK(sched) /\ ~sched.panic
  BY DEF IInv, TypeOK, SchedInv
<1>2. /\ pc \in [Tasks -> ThreadPC \cup IdlePC] /\ idle_thread \in Tasks
      /\ \A t \in Threads : t # idle_thread /\ t \in Tasks
  BY SchedAssumption DEF IInv, TypeOK, Threads
<1>3. ASSUME NEW l \in IdlePC, pc' = [pc EXCEPT ![idle_thread] = l]
      PROVE  /\ pc' \in [Tasks -> ThreadPC \cup IdlePC]
             /\ pc'[idle_thread] \in IdlePC
             /\ \A t \in Threads : pc'[t] = pc[t]
  BY <1>2, <1>3
<1>4. "sti" \in IdlePC /\ "hlt" \in IdlePC
  BY DEF IdlePC
<1>5. CASE IdleBlock
  <2>1. /\ sched.cur = idle_thread /\ sched' = thread_block(sched, "BLOCKED")
        /\ pc' = [pc EXCEPT ![idle_thread] = "sti"]
        /\ UNCHANGED <<ifl, old_stat, sema, lock, owed, waiter>>
    BY <1>5 DEF IdleBlock, Exec, Goto
  <2>2. /\ sched' \in SchedState /\ Consistent(sched') /\ IdleOK(sched')
        /\ sched'.panic = sched.panic
        /\ \A u \in Tasks \ {idle_thread}, x \in Parked :
             sched'.stat[u] = x
               <=> IF u = idle_thread THEN "BLOCKED" = x ELSE sched.stat[u] = x
    <3>1. "BLOCKED" \in Asleep BY DEF Asleep
    <3> QED BY <1>1, <2>1, <3>1, BlockLemma
  <2>3. SameSleepers(sched, sched')
    BY <2>2 DEF SameSleepers
  <2> QED BY <1>1, <1>3, <1>4, <2>1, <2>2, <2>3, SchedStep
<1>6. CASE IdleHlt
  <2>1. /\ sched' = sched /\ UNCHANGED <<ifl, old_stat, sema, lock, owed, waiter>>
        /\ pc' = [pc EXCEPT ![idle_thread] = "hlt"]
    BY <1>6 DEF IdleHlt, Goto
  <2>2. SameSleepers(sched, sched')
    BY <2>1 DEF SameSleepers
  <2> QED BY <1>1, <1>3, <1>4, <2>1, <2>2, SchedStep
<1> QED BY <1>5, <1>6

\* ioq_wait: the holder of the lock finds the slot empty and sleeps in it.
LEMMA IoqWaitStep ==
  ASSUME IInv, NEW t \in Threads, ioq_wait(t)
  PROVE  IInv'
<1>1. /\ sched.cur = t /\ pc[t] = "cs" /\ waiter' = t
      /\ sched' = thread_block(Check(sched, waiter = NULL), "BLOCKED")
      /\ UNCHANGED <<ifl, old_stat, pc, sema, lock, owed>>
  BY DEF ioq_wait, Exec
<1>2. /\ sched.stat[t] = "RUNNING" /\ ~elem_find(sema.waiters, t) /\ waiter # t
      /\ t # idle_thread /\ t \in Tasks
  BY <1>1, RunnerLemma
<1>3. sched \in SchedState /\ Consistent(sched) /\ IdleOK(sched) /\ ~sched.panic
  BY DEF IInv, TypeOK, SchedInv
<1>4. lock.holder = t /\ sema.value = 0
  BY <1>1 DEF IInv, LockInv, InsidePC
<1>5. waiter = NULL
  BY <1>2, <1>4 DEF IInv, SlotOwned
<1>6. sched' = thread_block(sched, "BLOCKED")
  BY <1>1, <1>5 DEF Check
<1>7. /\ sched' \in SchedState /\ Consistent(sched') /\ IdleOK(sched')
      /\ sched'.panic = sched.panic
      /\ \A u \in Tasks \ {idle_thread}, x \in Parked :
           sched'.stat[u] = x <=> IF u = t THEN "BLOCKED" = x ELSE sched.stat[u] = x
  <2>1. "BLOCKED" \in Asleep BY DEF Asleep
  <2> QED BY <1>1, <1>2, <1>3, <1>6, <2>1, BlockLemma
<1>8. TypeOK'
  BY <1>1, <1>2, <1>7 DEF IInv, TypeOK
<1>9. SchedInv'
  BY <1>3, <1>7 DEF IInv, SchedInv, Parked, Asleep, Threads
<1>10. WaitInv'
  <2>1. \A u \in Threads : sched'.stat[u] = "BLOCKED"
                             <=> u = t \/ sched.stat[u] = "BLOCKED"
    BY <1>7 DEF Parked, Asleep, Threads
  <2>2. \A u \in Threads : u # NULL
    BY SyncAssumption DEF Threads
  <2> QED BY <1>1, <1>2, <1>5, <2>1, <2>2 DEF IInv, WaitInv
<1>11. PcInv' /\ LockInv' /\ InterruptsRestored' /\ SavedInv'
  BY <1>1 DEF IInv, PcInv, LockInv, InterruptsRestored, SavedInv, Preemptible
<1>12. SlotOwned'
  BY <1>1, <1>4 DEF SlotOwned
<1>13. WakeInv'
  BY <1>1, <1>4 DEF WakeInv
<1> QED BY <1>8, <1>9, <1>10, <1>11, <1>12, <1>13 DEF IInv

\* wakeup: the sleeper in the slot becomes READY and the slot empty.
LEMMA WakeupStep ==
  ASSUME IInv, wakeup
  PROVE  IInv'
<1>1. /\ waiter # NULL /\ waiter' = NULL
      /\ sched' = thread_unblock(sched, waiter)
      /\ pc' = [pc EXCEPT ![sched.cur] = IF @ = "hlt" THEN "loop" ELSE @]
      /\ UNCHANGED <<ifl, old_stat, sema, lock, owed>>
  BY DEF wakeup
<1>2. /\ pc' \in [Tasks -> ThreadPC \cup IdlePC]
      /\ pc'[idle_thread] \in IdlePC
      /\ \A t \in Threads : pc'[t] = pc[t]
  BY <1>1, HltLemma
<1>3. sched \in SchedState /\ Consistent(sched) /\ IdleOK(sched) /\ ~sched.panic
  BY DEF IInv, TypeOK, SchedInv
<1> DEFINE w == waiter
<1>4. /\ w \in Threads /\ sched.stat[w] = "BLOCKED" /\ pc[w] = "cs"
      /\ ~elem_find(sema.waiters, w)
  BY <1>1 DEF IInv, TypeOK, WaitInv, SlotOwned, Threads
<1>5. w \in Tasks \ {idle_thread} /\ sched.stat[w] \in Asleep
  BY <1>4 DEF Threads, Asleep
<1>6. sched' = thread_unblock(sched, w)
  BY <1>1
<1> HIDE DEF w
<1>7. /\ sched' \in SchedState /\ Consistent(sched') /\ IdleOK(sched')
      /\ sched'.panic = sched.panic
      /\ \A u \in Tasks : sched'.stat[u] = IF u = w THEN "READY" ELSE sched.stat[u]
  BY <1>3, <1>5, <1>6, WakeLemma
<1>8. TypeOK'
  BY <1>1, <1>2, <1>7 DEF IInv, TypeOK
<1>9. SchedInv' /\ PcInv'
  BY <1>2, <1>3, <1>7 DEF IInv, SchedInv, PcInv, Threads
<1>10. WaitInv'
  <2>1. \A u \in Threads : sched'.stat[u] = "BLOCKED"
                             <=> u # w /\ sched.stat[u] = "BLOCKED"
    BY <1>7 DEF Threads
  <2>2. NULL \notin Threads /\ NULL # idle_thread
    BY SyncAssumption, SchedAssumption DEF Threads
  <2> QED BY <1>1, <1>2, <1>4, <2>1, <2>2 DEF IInv, WaitInv, w
<1>11. LockInv'
  BY <1>1, <1>2 DEF IInv, LockInv
<1>12. SlotOwned' /\ InterruptsRestored' /\ SavedInv'
  BY <1>1, <1>2 DEF IInv, SlotOwned, InterruptsRestored, SavedInv, Preemptible
<1>13. WakeInv'
  <2>1. sema.value = 0
    BY <1>4 DEF IInv, LockInv, InsidePC
  <2> QED BY <1>1, <2>1 DEF WakeInv
<1> QED BY <1>8, <1>9, <1>10, <1>11, <1>12, <1>13 DEF IInv

\* Every step preserves the invariant: one case per action of Sync.
LEMMA NextIInv == IInv /\ [Next]_vars => IInv'
<1> SUFFICES ASSUME IInv, [Next]_vars PROVE IInv'
  OBVIOUS
<1>1. ASSUME NEW t \in Threads, LockAcquire(t) PROVE IInv'
  BY <1>1, LockAcquireStep
<1>2. ASSUME NEW t \in Threads, sema_down(t) PROVE IInv'
  BY <1>2, SemaTakeStep, SemaSleepStep
<1>3. ASSUME NEW t \in Threads, SetHolder(t) PROVE IInv'
  BY <1>3, SetHolderStep
<1>4. ASSUME NEW t \in Threads, IncRepeat(t) PROVE IInv'
  BY <1>4, IncRepeatStep
<1>5. ASSUME NEW t \in Threads, LockRelease(t) PROVE IInv'
  BY <1>5, LockReleaseStep
<1>6. ASSUME NEW t \in Threads, ZeroRepeat(t) PROVE IInv'
  BY <1>6, ZeroRepeatStep
<1>7. ASSUME NEW t \in Threads, sema_up(t) PROVE IInv'
  BY <1>7, SemaUpStep
<1>8. ASSUME NEW t \in Threads, ThreadYield(t) PROVE IInv'
  BY <1>8, ThreadYieldStep
<1>9. ASSUME NEW t \in Threads, ioq_wait(t) PROVE IInv'
  BY <1>9, IoqWaitStep
<1>10. CASE wakeup
  BY <1>10, WakeupStep
<1>11. CASE Timer
  BY <1>11, TimerStep
<1>12. CASE IdleBlock \/ IdleHlt
  BY <1>12, IdleStep
<1>13. CASE UNCHANGED vars
  BY <1>13 DEF vars, IInv, TypeOK, SchedInv, PcInv, WaitInv, LockInv, SlotOwned,
               WakeInv, InterruptsRestored, SavedInv, Preemptible
<1> QED BY <1>1, <1>2, <1>3, <1>4, <1>5, <1>6, <1>7, <1>8, <1>9, <1>10, <1>11,
           <1>12, <1>13 DEF Next, LockCode

-----------------------------------------------------------------------------

\* The invariant holds in every reachable state.
THEOREM Invariance == Spec => []IInv
<1> QED BY InitIInv, NextIInv, PTL DEF Spec

\* Every variable keeps the type of the C object it stands for; in particular
\* a semaphore's uint8_t value never leaves 0 and 1.
THEOREM TypeCorrect == Spec => []TypeOK
<1>1. IInv => TypeOK
  BY DEF IInv
<1> QED BY <1>1, Invariance, PTL

\* lock_acquire and lock_release of thread/sync.c exclude: at most one thread
\* is between them, and the semaphore is 0 exactly then.
THEOREM MutualExclusion == Spec => []Exclusion
<1>1. IInv => Exclusion
  BY DEF IInv, TypeOK, Semaphore, LockInv, Exclusion, Inside, InsidePC
<1> QED BY <1>1, Invariance, PTL

\* No ASSERT of thread.c, sync.c and ioq_wait on these paths can fail.
THEOREM NoAssertFails == Spec => []NoPanic
<1>1. IInv => NoPanic
  BY DEF IInv, SchedInv, NoPanic
<1> QED BY <1>1, Invariance, PTL

\* general_tag links a task into one list at a time, and a blocked thread is
\* always reachable by its waker.
THEOREM ListsIntact == Spec => []TagInOneList
<1>1. IInv => TagInOneList
  <2> SUFFICES ASSUME IInv PROVE TagInOneList
    OBVIOUS
  <2>1. \A t \in Tasks : ~(elem_find(sched.ready, t) /\ elem_find(sema.waiters, t))
    BY DEF IInv, SchedInv, WaitInv, Consistent
  <2> QED BY <2>1 DEF IInv, SchedInv, WaitInv, TagInOneList
<1> QED BY <1>1, Invariance, PTL

\* While the semaphore is free and threads are queued on it, one that was
\* woken, or came by, is about to try again: sema_up loses no wakeup.
THEOREM WakeupNotLost == Spec => []NoLostWakeup
<1>1. IInv => NoLostWakeup
  <2> SUFFICES ASSUME IInv, sema.value = 1, sema.waiters # <<>>
               PROVE  \E t \in Threads :
                        pc[t] \in {"down", "wait"} /\ sched.stat[t] \in {"READY", "RUNNING"}
    BY DEF NoLostWakeup
  <2>1. PICK t \in Threads : pc[t] \in {"down", "wait"} /\ sched.stat[t] # "BLOCKED"
    BY DEF IInv, WakeInv
  <2>2. sched.stat[t] \in task_stat
    BY DEF IInv, TypeOK, SchedState, Threads
  <2> QED BY <2>1, <2>2 DEF IInv, SchedInv, task_stat
<1> QED BY <1>1, Invariance, PTL

\* The slot of ioq_wait belongs to the holder of the lock: nobody else can come
\* to wait while it is taken.
THEOREM SlotOwnership == Spec => []SlotOwned
<1>1. IInv => SlotOwned
  BY DEF IInv
<1> QED BY <1>1, Invariance, PTL

\* sema_down gives back the IF it found, also after a sleep, and user mode
\* always runs with IF set.
THEOREM InterruptsGivenBack == Spec => []InterruptsRestored
<1>1. IInv => InterruptsRestored
  BY DEF IInv
<1> QED BY <1>1, Invariance, PTL

-----------------------------------------------------------------------------
(* Sync implements LockSpec. *)


\* What the refinement mapping shows: the thread inside and what it owes.
LEMMA OwnerLemma ==
  ASSUME IInv
  PROVE  /\ \A t \in Threads : pc[t] \in InsidePC =>
              /\ owner = t
              /\ depth = IF pc[t] \in {"zero", "up"} THEN owed[t] + 1
                                                      ELSE owed[t]
         /\ (\A t \in Threads : pc[t] \notin InsidePC) =>
              owner = NULL /\ depth = 0
<1>1. ASSUME NEW t \in Threads, pc[t] \in InsidePC
      PROVE  /\ owner = t
             /\ depth = IF pc[t] \in {"zero", "up"} THEN owed[t] + 1
                                                     ELSE owed[t]
  <2>1. t \in Inside /\ \A u \in Inside : u = t
    BY <1>1 DEF Inside, IInv, LockInv, InsidePC
  <2>2. owner = t
    BY <2>1 DEF owner
  <2>3. t # NULL
    BY SyncAssumption DEF Threads
  <2> QED BY <2>2, <2>3 DEF depth
<1>2. ASSUME \A t \in Threads : pc[t] \notin InsidePC
      PROVE  owner = NULL /\ depth = 0
  <2>1. Inside = {}
    BY <1>2 DEF Inside, InsidePC
  <2> QED BY <2>1 DEF owner, depth
<1> QED BY <1>1, <1>2


\* The same after a step.
LEMMA OwnerLemmaPrimed ==
  ASSUME IInv'
  PROVE  /\ \A t \in Threads : pc'[t] \in InsidePC =>
              /\ owner' = t
              /\ depth' = IF pc'[t] \in {"zero", "up"} THEN owed'[t] + 1
                                                      ELSE owed'[t]
         /\ (\A t \in Threads : pc'[t] \notin InsidePC) =>
              owner' = NULL /\ depth' = 0
<1>1. ASSUME NEW t \in Threads, pc'[t] \in InsidePC
      PROVE  /\ owner' = t
             /\ depth' = IF pc'[t] \in {"zero", "up"} THEN owed'[t] + 1
                                                     ELSE owed'[t]
  <2>1. t \in Inside' /\ \A u \in Inside' : u = t
    BY <1>1 DEF Inside, IInv, LockInv, InsidePC
  <2>2. owner' = t
    BY <2>1 DEF owner
  <2>3. t # NULL
    BY SyncAssumption DEF Threads
  <2> QED BY <2>2, <2>3 DEF depth
<1>2. ASSUME \A t \in Threads : pc'[t] \notin InsidePC
      PROVE  owner' = NULL /\ depth' = 0
  <2>1. Inside' = {}
    BY <1>2 DEF Inside, InsidePC
  <2> QED BY <2>1 DEF owner, depth
<1> QED BY <1>1, <1>2

\* A step that moves neither the thread inside nor what it owes is a stutter.
LEMMA StutterLemma ==
  ASSUME IInv, IInv',
         \A t \in Threads :
           /\ pc'[t] \in InsidePC <=> pc[t] \in InsidePC
           /\ pc[t] \in InsidePC =>
                (IF pc'[t] \in {"zero", "up"} THEN owed'[t] + 1 ELSE owed'[t])
                  = (IF pc[t] \in {"zero", "up"} THEN owed[t] + 1 ELSE owed[t])
  PROVE  owner' = owner /\ depth' = depth
<1>1. CASE \A t \in Threads : pc[t] \notin InsidePC
  BY <1>1, OwnerLemma, OwnerLemmaPrimed
<1>2. CASE \E t \in Threads : pc[t] \in InsidePC
  <2>1. PICK t \in Threads : pc[t] \in InsidePC
    BY <1>2
  <2>2. /\ owner = t
        /\ depth = IF pc[t] \in {"zero", "up"} THEN owed[t] + 1 ELSE owed[t]
    BY <2>1, OwnerLemma
  <2>3. /\ owner' = t
        /\ depth' = IF pc'[t] \in {"zero", "up"} THEN owed'[t] + 1 ELSE owed'[t]
    BY <2>1, OwnerLemmaPrimed
  <2> QED BY <2>1, <2>2, <2>3
<1> QED BY <1>1, <1>2

\* Each step of Sync is a step of LockSpec or a stutter: sema_down's success
\* acquires, a nested lock_acquire re-enters, a nested lock_release and
\* sema_up release.
LEMMA StepRefines ==
  ASSUME IInv, IInv', [Next]_vars
  PROVE  [LS!Next]_LS!lvars
<1> USE DEF InsidePC
<1>0. ASSUME UNCHANGED <<pc, owed>> PROVE owner' = owner /\ depth' = depth
  BY <1>0, StutterLemma
<1>1. ASSUME NEW t \in Threads
      PROVE  /\ t \in Tasks /\ pc \in [Tasks -> ThreadPC \cup IdlePC]
             /\ owed \in [Tasks -> 0..MaxDepth] /\ MaxDepth \in Nat
  BY TypesLemma
<1>2. ASSUME NEW t \in Threads, LockAcquire(t) PROVE [LS!Next]_LS!lvars
  <2> DEFINE l == IF lock.holder # t THEN "down" ELSE "inc"
  <2>1. /\ pc[t] \in {"out", "cs"} /\ owed[t] < MaxDepth
        /\ pc' = [pc EXCEPT ![t] = l] /\ owed' = [owed EXCEPT ![t] = @ + 1]
        /\ pc[t] = "cs" <=> lock.holder = t
    BY <1>2 DEF LockAcquire, Goto, IInv, LockInv
  <2>2. /\ pc'[t] = l /\ owed'[t] = owed[t] + 1
        /\ \A u \in Threads \ {t} : pc'[u] = pc[u] /\ owed'[u] = owed[u]
    BY <1>1, <2>1 DEF Threads
  <2>3. CASE pc[t] = "out"
    <3>1. owner' = owner /\ depth' = depth
      BY <2>1, <2>2, <2>3, StutterLemma
    <3> QED BY <3>1 DEF LS!lvars
  <2>4. CASE pc[t] = "cs"
    <3>1. owner = t /\ depth = owed[t]
      BY <2>4, OwnerLemma
    <3>2. owner' = t /\ depth' = owed'[t]
      BY <2>1, <2>2, <2>4, OwnerLemmaPrimed
    <3>3. LS!Reenter(t)
      BY <1>1, <2>1, <2>2, <3>1, <3>2 DEF LS!Reenter
    <3> QED BY <3>3 DEF LS!Next
  <2> QED BY <2>1, <2>3, <2>4
<1>3. ASSUME NEW t \in Threads, sema_down(t) PROVE [LS!Next]_LS!lvars
  <2>1. pc[t] \in {"down", "wait"} /\ owed' = owed
    BY <1>3 DEF sema_down
  <2>2. CASE sema.value = 0
    <3>1. pc' = [pc EXCEPT ![t] = "wait"]
      BY <1>3, <2>2 DEF sema_down, Goto
    <3>2. pc'[t] = "wait" /\ \A u \in Threads \ {t} : pc'[u] = pc[u]
      BY <1>1, <3>1 DEF Threads
    <3>3. owner' = owner /\ depth' = depth
      BY <2>1, <3>2, StutterLemma
    <3> QED BY <3>3 DEF LS!lvars
  <2>3. CASE sema.value # 0
    <3>1. pc' = [pc EXCEPT ![t] = "own"]
      BY <1>3, <2>3 DEF sema_down, Goto
    <3>2. pc'[t] = "own" /\ owed'[t] = 1
      BY <1>1, <2>1, <3>1 DEF IInv, LockInv
    <3>3. owner = NULL
      BY <2>3, OwnerLemma DEF IInv, LockInv
    <3>4. owner' = t /\ depth' = 1
      BY <3>2, OwnerLemmaPrimed
    <3>5. LS!Acquire(t)
      BY <3>3, <3>4 DEF LS!Acquire
    <3> QED BY <3>5 DEF LS!Next
  <2> QED BY <2>2, <2>3
<1>4. ASSUME NEW t \in Threads, SetHolder(t) \/ IncRepeat(t) \/ ZeroRepeat(t)
      PROVE  [LS!Next]_LS!lvars
  <2>1. /\ owed' = owed
        /\ \/ pc[t] = "own" /\ pc' = [pc EXCEPT ![t] = "inc"]
           \/ pc[t] = "inc" /\ pc' = [pc EXCEPT ![t] = "cs"]
           \/ pc[t] = "zero" /\ pc' = [pc EXCEPT ![t] = "up"]
    BY <1>4 DEF SetHolder, IncRepeat, ZeroRepeat, Goto
  <2>2. /\ \A u \in Threads \ {t} : pc'[u] = pc[u]
        /\ \/ pc[t] = "own" /\ pc'[t] = "inc"
           \/ pc[t] = "inc" /\ pc'[t] = "cs"
           \/ pc[t] = "zero" /\ pc'[t] = "up"
    BY <1>1, <2>1 DEF Threads
  <2>3. owner' = owner /\ depth' = depth
    BY <2>1, <2>2, StutterLemma
  <2> QED BY <2>3 DEF LS!lvars
<1>5. ASSUME NEW t \in Threads, LockRelease(t) PROVE [LS!Next]_LS!lvars
  <2>1. /\ pc[t] = "cs" /\ owed' = [owed EXCEPT ![t] = @ - 1]
        /\ owed[t] = lock.repeat /\ lock.repeat >= 1
    BY <1>5 DEF LockRelease, IInv, LockInv
  <2>2. /\ owed'[t] = owed[t] - 1 /\ owed[t] \in Nat
        /\ \A u \in Threads \ {t} : owed'[u] = owed[u]
    BY <1>1, <2>1 DEF Threads
  <2>3. owner = t /\ depth = owed[t]
    BY <2>1, OwnerLemma
  <2>4. CASE lock.repeat > 1
    <3>1. pc' = pc BY <1>5, <2>1, <2>2, <2>4 DEF LockRelease
    <3>2. owner' = t /\ depth' = owed[t] - 1
      BY <2>1, <2>2, <3>1, OwnerLemmaPrimed
    <3>3. LS!Release(t)
      BY <2>1, <2>2, <2>3, <2>4, <3>2 DEF LS!Release
    <3> QED BY <3>3 DEF LS!Next
  <2>5. CASE lock.repeat = 1
    <3>1. pc' = [pc EXCEPT ![t] = "zero"]
      BY <1>5, <2>5 DEF LockRelease, Goto
    <3>2. pc'[t] = "zero"
      BY <1>1, <3>1
    <3>3. owner' = t /\ depth' = owed'[t] + 1
      BY <3>2, OwnerLemmaPrimed
    <3>4. depth' = depth
      BY <2>2, <2>3, <3>3
    <3> QED BY <2>3, <3>3, <3>4 DEF LS!lvars
  <2> QED BY <2>1, <2>2, <2>4, <2>5
<1>6. ASSUME NEW t \in Threads, sema_up(t) PROVE [LS!Next]_LS!lvars
  <2>1. /\ pc[t] = "up" /\ owed' = owed /\ owed[t] = 0
        /\ pc' = [pc EXCEPT ![t] = "out"]
    BY <1>6 DEF sema_up, Goto, IInv, LockInv
  <2>2. pc'[t] = "out" /\ \A u \in Threads \ {t} : pc'[u] = pc[u]
    BY <1>1, <2>1 DEF Threads
  <2>3. owner = t /\ depth = 1
    BY <2>1, OwnerLemma
  <2>4. \A u \in Threads : pc'[u] \notin InsidePC
    BY <2>1, <2>2 DEF IInv, LockInv
  <2>5. owner' = NULL /\ depth' = 0
    BY <2>4, OwnerLemmaPrimed
  <2>6. LS!Release(t)
    BY <2>3, <2>5 DEF LS!Release
  <2> QED BY <2>6 DEF LS!Next
<1>7. ASSUME NEW t \in Threads, ThreadYield(t) \/ ioq_wait(t)
      PROVE  [LS!Next]_LS!lvars
  BY <1>0, <1>7 DEF ThreadYield, ioq_wait, LS!lvars
<1>8. CASE wakeup \/ Timer \/ IdleBlock \/ IdleHlt
  <2>1. owed' = owed
    BY <1>8 DEF wakeup, Timer, IdleBlock, IdleHlt
  <2>2. \A t \in Threads : pc'[t] = pc[t]
    <3>1. CASE wakeup \/ Timer
      BY <3>1, HltLemma DEF wakeup, Timer
    <3>2. CASE IdleBlock \/ IdleHlt
      <4>1. \E l : pc' = [pc EXCEPT ![idle_thread] = l]
        BY <3>2 DEF IdleBlock, IdleHlt, Goto
      <4> QED BY <1>1, <4>1 DEF Threads
    <3> QED BY <1>8, <3>1, <3>2
  <2>3. owner' = owner /\ depth' = depth
    BY <2>1, <2>2, StutterLemma
  <2> QED BY <2>3 DEF LS!lvars
<1>9. CASE UNCHANGED vars
  BY <1>0, <1>9 DEF vars, LS!lvars
<1> QED BY <1>2, <1>3, <1>4, <1>5, <1>6, <1>7, <1>8, <1>9 DEF Next, LockCode

\* The lock implements LockSpec: whoever uses lock_acquire and lock_release
\* may reason with a re-entrant lock that one thread owns at a time.
THEOREM Refinement == Spec => ImplementsLock
<1>1. Init => LS!Init
  <2> SUFFICES ASSUME Init PROVE LS!Init
    OBVIOUS
  <2>1. \A t \in Threads : pc[t] \notin InsidePC
    BY DEF Init, Threads, InsidePC
  <2> QED BY <2>1, InitIInv, OwnerLemma DEF LS!Init
<1>2. IInv /\ IInv' /\ [Next]_vars => [LS!Next]_LS!lvars
  BY StepRefines
<1> QED BY <1>1, <1>2, Invariance, PTL DEF Spec, ImplementsLock, LS!Spec
=============================================================================
