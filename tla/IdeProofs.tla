------------------------------ MODULE IdeProofs ------------------------------
(***************************************************************************)
(* The disk driver of device/ide.c, for any number of threads, any request *)
(* and any controller of the kinds in Modes: no request sleeps through the *)
(* interrupt it waits for, the controller is never given a second command, *)
(* every transfer moves the caller's own data, and no post is left over.   *)
(*                                                                         *)
(* None of these is inductive by itself.  Whose command the controller     *)
(* works on depends on the channel's lock, hence on where every thread     *)
(* stands; that an interrupt wakes the right thread, on what the two flags *)
(* and the controller can be at each place of the request (DevAt); and     *)
(* that a write never takes an interrupt for its own, on which controllers *)
(* leave an interrupt behind (IrqInv).                                     *)
(***************************************************************************)
EXTENDS Ide, SchedProofs

Inside == {"cmd", "wait", "poll", "nap", "io", "next"}

ThreadPC == {"user", "lock"} \cup Inside

IdlePC == {"loop", "sti", "hlt"}

DevStates == {"idle", "reading", "starting", "writing", "in", "out"}

TypeOK ==
  /\ sched \in SchedState /\ ifl \in [Tasks -> BOOLEAN]
  /\ pc \in [Tasks -> ThreadPC \cup IdlePC]
  /\ lk \in Semaphore /\ disk_done \in Semaphore
  /\ holder \in Tasks \cup {NULL}
  /\ expecting_intr \in BOOLEAN /\ irq \in BOOLEAN
  /\ req \in [Tasks -> [op: {"read", "write"}, secs: Nat, done: Nat]]
  /\ nap \in [Tasks -> [left: Nat, ticked: BOOLEAN]]
  /\ dev \in [st: DevStates, by: Tasks \cup {NULL}, mode: Modes]

\* The scheduler's part: nobody sleeps in a state the driver never asks for.
SchedInv ==
  /\ Consistent(sched) /\ IdleOK(sched)
  /\ \A t \in Threads : sched.stat[t] \notin {"HANGING", "WAITING", "DIED"}

PcInv ==
  /\ \A t \in Threads : pc[t] \in ThreadPC
  /\ pc[idle_thread] \in IdlePC

\* A thread in the driver has sectors left, and asks for what the controller
\* can be asked for.
ReqInv ==
  \A t \in Threads : pc[t] # "user" =>
    req[t].done < req[t].secs /\ req[t].op \in Ops[dev.mode]

LockInv ==
  /\ \A t \in Threads : holder = t <=> pc[t] \in Inside
  /\ holder # idle_thread
  /\ lk.value = 1 <=> holder = NULL

\* A thread is blocked exactly when one of the two queues leads to it.
QueueInv ==
  /\ NoDup(lk.waiters) /\ NoDup(disk_done.waiters)
  /\ \A t \in Tasks : elem_find(lk.waiters, t) => t \in Threads /\ pc[t] = "lock"
  /\ \A t \in Tasks : elem_find(disk_done.waiters, t) =>
       t \in Threads /\ pc[t] = "wait" /\ disk_done.value = 0
  /\ \A t \in Threads : sched.stat[t] = "BLOCKED" <=>
       elem_find(lk.waiters, t) \/ elem_find(disk_done.waiters, t)

Dev(e, d, S) == (expecting_intr <=> e) /\ disk_done.value = d /\ dev.st \in S

\* What the controller and the two flags may be while its user, who does op,
\* is at l.
DevAt(l, op) ==
  /\ l \in {"user", "cmd", "next"} => Dev(FALSE, 0, {"idle"})
  /\ l = "wait" /\ op = "read" =>
       \/ Dev(TRUE, 0, {"reading", "in"}) /\ (dev.st = "in" => irq)
       \/ Dev(FALSE, 1, {"reading", "in"})
  /\ l = "wait" /\ op = "write" =>
       \/ Dev(TRUE, 0, {"writing", "idle"}) /\ (dev.st = "idle" => irq)
       \/ Dev(FALSE, 1, {"idle"})
  /\ l \in {"poll", "nap"} /\ op = "read"  => Dev(FALSE, 0, {"reading", "in"})
  /\ l \in {"poll", "nap"} /\ op = "write" => Dev(TRUE, 0, {"starting", "out"})
  /\ l = "io" /\ op = "read"  => Dev(FALSE, 0, {"in"})
  /\ l = "io" /\ op = "write" => Dev(TRUE, 0, {"out"})

DevInv ==
  /\ dev.st # "idle" => dev.by = holder /\ holder # NULL
  /\ IF holder = NULL THEN DevAt("user", "read")
                      ELSE DevAt(pc[holder], req[holder].op)

\* A controller that interrupts once for a command interrupts only the thread
\* that waits for it, and has a read's data when that thread goes on; one that
\* interrupts for every sector may leave an interrupt behind.
IrqInv ==
  dev.mode # "stale" =>
    /\ irq => /\ holder # NULL /\ pc[holder] = "wait" /\ expecting_intr
              /\ dev.st = IF req[holder].op = "read" THEN "in" ELSE "idle"
    /\ dev.st = "reading" => expecting_intr

\* A panic means that busy_wait ran out of turns.
GaveUp ==
  sched.panic => \E t \in Threads : pc[t] = "poll" /\ nap[t].left = 0

IInv == /\ TypeOK /\ SchedInv /\ PcInv /\ ReqInv /\ LockInv /\ QueueInv
        /\ DevInv /\ IrqInv /\ GaveUp

\* A controller that leaves interrupts behind is only read from: busy_wait
\* makes up for a left-over interrupt after a read and not after a write.
ReadsIfStale == "stale" \in Modes => Ops["stale"] \subseteq {"read"}

-----------------------------------------------------------------------------

\* The boot state: nobody blocked, the channel free, the controller idle.
LEMMA InitIInv == Init => IInv
<1> SUFFICES ASSUME Init PROVE IInv
  OBVIOUS
<1>1. /\ boot \in Seq(Tasks) /\ boot # <<>> /\ NoDup(boot)
      /\ \A t \in Tasks : elem_find(boot, t)
  <2>1. boot # <<>>
    BY SchedAssumption, IdeAssumption DEF elem_find
  <2> QED BY <2>1, IdeAssumption
<1>2. /\ Head(boot) \in Tasks /\ Tail(boot) \in Seq(Tasks) /\ NoDup(Tail(boot))
      /\ \A t \in Tasks : elem_find(Tail(boot), t) <=> t # Head(boot)
  BY <1>1, PopLemma DEF list_pop
<1>3. /\ sched.cur = Head(boot) /\ sched.ready = Tail(boot) /\ ~sched.panic
      /\ \A t \in Tasks : sched.stat[t] = IF t = Head(boot) THEN "RUNNING" ELSE "READY"
  BY DEF Init
<1>4. sched \in SchedState
  BY <1>2, SchedAssumption DEF Init, SchedState, task_stat
<1>5. SchedInv
  BY <1>2, <1>3, SchedAssumption DEF SchedInv, Consistent, IdleOK, Threads
<1>6. /\ \A t \in Threads : pc[t] = "user" /\ t \in Tasks
      /\ pc[idle_thread] = "loop" /\ holder = NULL /\ NULL \notin Tasks
  BY SchedAssumption, IdeAssumption DEF Init, Threads
<1>7. PcInv /\ ReqInv /\ GaveUp
  BY <1>3, <1>6 DEF PcInv, ReqInv, GaveUp, ThreadPC, IdlePC
<1>8. /\ lk.value = 1 /\ lk.waiters = <<>> /\ lk \in Semaphore
      /\ disk_done.value = 0 /\ disk_done.waiters = <<>>
      /\ disk_done \in Semaphore
  BY DEF Init, sema_init, Semaphore
<1>9. LockInv
  BY <1>6, <1>8, SchedAssumption DEF LockInv, Inside
<1>10. QueueInv
  <2>1. \A t : ~elem_find(lk.waiters, t) /\ ~elem_find(disk_done.waiters, t)
    BY <1>8 DEF elem_find
  <2>2. NoDup(lk.waiters) /\ NoDup(disk_done.waiters)
    BY <1>8 DEF NoDup
  <2> QED BY <1>3, <2>1, <2>2 DEF QueueInv, Threads
<1>11. dev.st = "idle" /\ ~expecting_intr /\ ~irq
  BY DEF Init
<1>12. DevInv /\ IrqInv
  BY <1>6, <1>8, <1>11 DEF DevInv, IrqInv, DevAt, Dev
<1>13. TypeOK
  <2>1. /\ pc \in [Tasks -> ThreadPC \cup IdlePC] /\ ifl \in [Tasks -> BOOLEAN]
        /\ dev \in [st: DevStates, by: Tasks \cup {NULL}, mode: Modes]
    BY DEF Init, ThreadPC, IdlePC, DevStates
  <2>2. /\ req \in [Tasks -> [op: {"read", "write"}, secs: Nat, done: Nat]]
        /\ nap \in [Tasks -> [left: Nat, ticked: BOOLEAN]]
    BY IdeAssumption DEF Init
  <2>3. expecting_intr \in BOOLEAN /\ irq \in BOOLEAN /\ holder \in Tasks \cup {NULL}
    BY DEF Init
  <2> QED BY <1>4, <1>8, <2>1, <2>2, <2>3 DEF TypeOK
<1> QED BY <1>5, <1>7, <1>9, <1>10, <1>12, <1>13 DEF IInv

-----------------------------------------------------------------------------
(* Two kinds of steps the actions have in common *)

\* A step of the scheduler or the clock: the processor may change hands, and
\* every thread stays where it stands.
LEMMA SchedStep ==
  ASSUME IInv, ~sched.panic,
         sched' \in SchedState, Consistent(sched'), IdleOK(sched'), ~sched'.panic,
         SameSleepers(sched, sched'),
         pc' \in [Tasks -> ThreadPC \cup IdlePC], pc'[idle_thread] \in IdlePC,
         \A t \in Threads : pc'[t] = pc[t],
         nap' \in [Tasks -> [left: Nat, ticked: BOOLEAN]],
         UNCHANGED <<ifl, req, dev, irq, Driver>>
  PROVE  IInv'
<1>1. \A t \in Threads, x \in Parked : sched'.stat[t] = x <=> sched.stat[t] = x
  BY DEF SameSleepers, Threads
<1>2. UNCHANGED <<ifl, req, dev, irq, lk, holder, disk_done, expecting_intr>>
  BY DEF Driver
<1>3. TypeOK'
  BY <1>2 DEF IInv, TypeOK
<1>4. SchedInv'
  BY <1>1 DEF IInv, SchedInv, Parked, Asleep
<1>5. PcInv' /\ ReqInv' /\ LockInv' /\ GaveUp'
  BY <1>2 DEF IInv, PcInv, ReqInv, LockInv, GaveUp
<1>6. QueueInv'
  BY <1>1, <1>2 DEF IInv, QueueInv, Parked, Asleep
<1>7. holder # NULL => holder \in Threads
  BY DEF IInv, TypeOK, LockInv, Threads
<1>8. DevInv' /\ IrqInv'
  BY <1>2, <1>7 DEF IInv, DevInv, IrqInv, DevAt, Dev
<1> QED BY <1>3, <1>4, <1>5, <1>6, <1>8 DEF IInv

\* The thread on the processor is not blocked, so it is in no wait queue.
LEMMA RunnerLemma ==
  ASSUME IInv, NEW t \in Threads, Exec(t)
  PROVE  /\ sched.cur = t /\ ~sched.panic /\ sched.stat[t] = "RUNNING"
         /\ ~elem_find(lk.waiters, t) /\ ~elem_find(disk_done.waiters, t)
         /\ t # idle_thread /\ t # NULL /\ t \in Tasks
         /\ sched \in SchedState /\ Consistent(sched) /\ IdleOK(sched)
BY IdeAssumption DEF IInv, TypeOK, SchedInv, QueueInv, Consistent, Threads, Exec

\* Who is inside the driver is the holder of the channel, and the controller
\* is at most at work for it.
LEMMA HolderLemma ==
  ASSUME IInv, NEW t \in Threads, pc[t] \in Inside
  PROVE  /\ holder = t /\ holder # NULL /\ lk.value = 0
         /\ DevAt(pc[t], req[t].op)
         /\ dev.st # "idle" => dev.by = t
         /\ req[t].op \in {"read", "write"} /\ req[t].op \in Ops[dev.mode]
         /\ req[t].done < req[t].secs
<1>1. t \in Tasks /\ t # NULL
  BY IdeAssumption DEF Threads
<1>2. holder = t
  BY DEF IInv, LockInv
<1>3. req[t].op \in {"read", "write"} /\ lk.value \in {0, 1}
  BY <1>1 DEF IInv, TypeOK, Semaphore
<1>4. lk.value = 0
  BY <1>1, <1>2, <1>3 DEF IInv, LockInv
<1>5. req[t].op \in Ops[dev.mode] /\ req[t].done < req[t].secs
  BY DEF IInv, ReqInv, Inside
<1> QED BY <1>1, <1>2, <1>3, <1>4, <1>5 DEF IInv, DevInv

\* A step of the holder from one place inside to another that leaves the
\* scheduler, the lock and the wait queues alone: what is left to show is
\* what it makes of the controller and the flags.
LEMMA InsideStep ==
  ASSUME IInv, NEW t \in Threads, Exec(t), pc[t] \in Inside, NEW l \in Inside,
         NEW o \in {"read", "write"}, req[t].op = o, req'[t].op = o,
         pc' = [pc EXCEPT ![t] = l], UNCHANGED <<sched, lk, holder>>,
         disk_done' \in Semaphore, disk_done'.waiters = disk_done.waiters,
         disk_done.value = 0 => disk_done'.value = 0,
         ifl' \in [Tasks -> BOOLEAN], expecting_intr' \in BOOLEAN, irq' \in BOOLEAN,
         req' \in [Tasks -> [op: {"read", "write"}, secs: Nat, done: Nat]],
         \A u \in Threads \ {t} : req'[u] = req[u], req'[t].done < req'[t].secs,
         nap' \in [Tasks -> [left: Nat, ticked: BOOLEAN]],
         dev' \in [st: DevStates, by: Tasks \cup {NULL}, mode: Modes],
         dev'.mode = dev.mode, dev'.st # "idle" => dev'.by = t,
         DevAt(l, o)',
         dev.mode # "stale" =>
           /\ irq' => /\ l = "wait" /\ expecting_intr'
                      /\ dev'.st = IF o = "read" THEN "in" ELSE "idle"
           /\ dev'.st = "reading" => expecting_intr'
  PROVE  IInv'
<1>1. /\ ~sched.panic /\ t \in Tasks /\ t # idle_thread /\ t # NULL
      /\ ~elem_find(lk.waiters, t) /\ ~elem_find(disk_done.waiters, t)
  BY RunnerLemma
<1>2. holder = t /\ req[t].op \in Ops[dev.mode]
  BY HolderLemma
<1>3. pc \in [Tasks -> ThreadPC \cup IdlePC] /\ idle_thread \in Tasks
  BY SchedAssumption DEF IInv, TypeOK
<1>4. /\ pc' \in [Tasks -> ThreadPC \cup IdlePC] /\ pc'[t] = l
      /\ \A u \in Tasks \ {t} : pc'[u] = pc[u]
  BY <1>1, <1>3 DEF ThreadPC
<1>5. TypeOK'
  BY <1>4 DEF IInv, TypeOK
<1>6. SchedInv' /\ GaveUp'
  BY <1>1 DEF IInv, SchedInv, GaveUp
<1>7. PcInv'
  BY <1>1, <1>3, <1>4 DEF IInv, PcInv, ThreadPC, Threads
<1>8. ReqInv'
  <2>1. \A u \in Threads \ {t} : pc'[u] = pc[u] /\ req'[u] = req[u]
    BY <1>4 DEF Threads
  <2> QED BY <1>2, <2>1 DEF IInv, ReqInv
<1>9. LockInv'
  <2>1. \A u \in Threads : holder' = u <=> pc'[u] \in Inside
    BY <1>2, <1>4 DEF IInv, LockInv, Threads
  <2> QED BY <2>1 DEF IInv, LockInv
<1>10. QueueInv'
  <2>1. \A u \in Tasks : elem_find(lk'.waiters, u) => u \in Threads /\ pc'[u] = "lock"
    BY <1>1, <1>4 DEF IInv, QueueInv
  <2>2. \A u \in Tasks : elem_find(disk_done'.waiters, u) =>
           u \in Threads /\ pc'[u] = "wait" /\ disk_done'.value = 0
    BY <1>1, <1>4 DEF IInv, QueueInv
  <2> QED BY <2>1, <2>2 DEF IInv, QueueInv
<1>11. DevInv' /\ IrqInv'
  <2>1. holder' = t /\ pc'[holder'] = l /\ req'[holder'].op = o /\ holder' # NULL
    BY <1>1, <1>2, <1>4
  <2>2. DevAt(pc[holder], req[holder].op)'
    BY <2>1 DEF DevAt, Dev
  <2> QED BY <2>1, <2>2 DEF DevInv, IrqInv
<1> QED BY <1>5, <1>6, <1>7, <1>8, <1>9, <1>10, <1>11 DEF IInv

-----------------------------------------------------------------------------
(* The steps of a request, in the order it takes them *)

\* What a thread that enters the driver becomes.
LEMMA CallStep ==
  ASSUME IInv, NEW t \in Threads, Call(t)
  PROVE  IInv'
<1>1. /\ pc[t] = "user" /\ pc' = [pc EXCEPT ![t] = "lock"]
      /\ ifl' = [ifl EXCEPT ![t] = old_stat(t)]
      /\ UNCHANGED <<sched, nap, dev, irq, lk, holder, disk_done, expecting_intr>>
  BY DEF Call, Goto, Driver
<1>2. PICK op \in Ops[dev.mode], n \in Secs :
         req' = [req EXCEPT ![t] = [op |-> op, secs |-> n, done |-> 0]]
  BY DEF Call
<1>3. /\ ~sched.panic /\ t \in Tasks /\ t # idle_thread /\ t # NULL
      /\ ~elem_find(lk.waiters, t) /\ ~elem_find(disk_done.waiters, t)
  BY RunnerLemma DEF Call
<1>4. /\ pc \in [Tasks -> ThreadPC \cup IdlePC] /\ idle_thread \in Tasks
      /\ req \in [Tasks -> [op: {"read", "write"}, secs: Nat, done: Nat]]
      /\ ifl \in [Tasks -> BOOLEAN] /\ dev.mode \in Modes
  BY SchedAssumption DEF IInv, TypeOK
<1>5. op \in {"read", "write"} /\ n \in Nat \ {0}
  BY <1>4, IdeAssumption
<1>6. /\ pc' \in [Tasks -> ThreadPC \cup IdlePC] /\ pc'[t] = "lock"
      /\ \A u \in Tasks \ {t} : pc'[u] = pc[u]
  BY <1>1, <1>3, <1>4 DEF ThreadPC
<1>7. /\ req' \in [Tasks -> [op: {"read", "write"}, secs: Nat, done: Nat]]
      /\ req'[t] = [op |-> op, secs |-> n, done |-> 0]
      /\ \A u \in Tasks \ {t} : req'[u] = req[u]
  BY <1>2, <1>3, <1>4, <1>5
<1>8. TypeOK'
  <2>1. old_stat(t) \in BOOLEAN
    BY DEF old_stat
  <2>2. ifl' \in [Tasks -> BOOLEAN]
    BY <1>1, <1>4, <2>1
  <2> QED BY <1>1, <1>6, <1>7, <2>2 DEF IInv, TypeOK
<1>9. SchedInv' /\ GaveUp'
  BY <1>1, <1>3 DEF IInv, SchedInv, GaveUp
<1>10. PcInv'
  BY <1>3, <1>4, <1>6 DEF IInv, PcInv, ThreadPC, Threads
<1>11. ReqInv'
  <2>1. req'[t].done < req'[t].secs /\ req'[t].op \in Ops[dev'.mode]
    BY <1>1, <1>5, <1>7
  <2>2. \A u \in Threads \ {t} : pc'[u] = pc[u] /\ req'[u] = req[u]
    BY <1>6, <1>7 DEF Threads
  <2> QED BY <1>1, <2>1, <2>2 DEF IInv, ReqInv
<1>12. holder # t
  BY <1>1 DEF IInv, LockInv, Inside
<1>13. LockInv'
  BY <1>1, <1>6, <1>12 DEF IInv, LockInv, Inside, Threads
<1>14. QueueInv'
  BY <1>1, <1>3, <1>6 DEF IInv, QueueInv
<1>15. DevInv' /\ IrqInv'
  <2>1. holder # NULL => holder \in Tasks \ {t}
    BY <1>12 DEF IInv, TypeOK
  <2>2. holder # NULL => pc'[holder] = pc[holder] /\ req'[holder] = req[holder]
    BY <1>6, <1>7, <2>1
  <2> QED BY <1>1, <2>2 DEF IInv, DevInv, IrqInv, DevAt, Dev
<1> QED BY <1>8, <1>9, <1>10, <1>11, <1>13, <1>14, <1>15 DEF IInv

\* A thread that finds the channel free has it.
LEMMA AcquireStep ==
  ASSUME IInv, NEW t \in Threads, AcquireChannel(t), lk.value # 0
  PROVE  IInv'
<1>1. /\ pc[t] = "lock" /\ pc' = [pc EXCEPT ![t] = "cmd"]
      /\ lk' = SemaTake(lk) /\ holder' = t
      /\ ifl' = [ifl EXCEPT ![t] = old_stat(t)]
      /\ UNCHANGED <<sched, disk_done, expecting_intr, req, nap, dev, irq>>
  BY DEF AcquireChannel, Goto
<1>2. /\ ~sched.panic /\ t \in Tasks /\ t # idle_thread /\ t # NULL
      /\ ~elem_find(lk.waiters, t) /\ ~elem_find(disk_done.waiters, t)
  BY RunnerLemma DEF AcquireChannel
<1>3. /\ pc \in [Tasks -> ThreadPC \cup IdlePC] /\ idle_thread \in Tasks
      /\ ifl \in [Tasks -> BOOLEAN] /\ lk \in Semaphore
  BY SchedAssumption DEF IInv, TypeOK
<1>4. /\ pc' \in [Tasks -> ThreadPC \cup IdlePC] /\ pc'[t] = "cmd"
      /\ \A u \in Tasks \ {t} : pc'[u] = pc[u]
  BY <1>1, <1>2, <1>3 DEF ThreadPC, Inside
<1>5. lk.value = 1 /\ holder = NULL
  BY <1>3 DEF Semaphore, IInv, LockInv
<1>6. lk' \in Semaphore /\ lk'.value = 0 /\ lk'.waiters = lk.waiters
  BY <1>1, <1>3, <1>5, SemaTakeLemma
<1>7. TypeOK'
  <2>1. ifl' \in [Tasks -> BOOLEAN] /\ holder' \in Tasks \cup {NULL}
    BY <1>1, <1>2, <1>3 DEF old_stat
  <2> QED BY <1>1, <1>4, <1>6, <2>1 DEF IInv, TypeOK
<1>8. SchedInv' /\ GaveUp'
  BY <1>1, <1>2 DEF IInv, SchedInv, GaveUp
<1>9. PcInv'
  BY <1>2, <1>3, <1>4 DEF IInv, PcInv, ThreadPC, Inside, Threads
<1>10. ReqInv'
  BY <1>1, <1>4 DEF IInv, ReqInv, Threads
<1>11. \A u \in Threads : pc[u] \notin Inside
  BY <1>5, IdeAssumption DEF IInv, LockInv, Threads
<1>12. LockInv'
  BY <1>1, <1>2, <1>4, <1>6, <1>11 DEF LockInv, Inside, Threads
<1>13. QueueInv'
  <2>1. \A u \in Tasks : elem_find(lk'.waiters, u) => u \in Threads /\ pc'[u] = "lock"
    BY <1>2, <1>4, <1>6 DEF IInv, QueueInv
  <2>2. \A u \in Tasks : elem_find(disk_done'.waiters, u) =>
           u \in Threads /\ pc'[u] = "wait" /\ disk_done'.value = 0
    BY <1>1, <1>2, <1>4 DEF IInv, QueueInv
  <2> QED BY <1>1, <1>6, <2>1, <2>2 DEF IInv, QueueInv
<1>14. DevInv'
  <2>1. dev.st = "idle" /\ disk_done.value = 0 /\ ~expecting_intr
    BY <1>5 DEF IInv, DevInv, DevAt, Dev
  <2> QED BY <1>1, <1>2, <1>4, <2>1 DEF DevInv, DevAt, Dev
<1>15. IrqInv'
  BY <1>1, <1>5 DEF IInv, IrqInv, DevInv
<1> QED BY <1>7, <1>8, <1>9, <1>10, <1>12, <1>13, <1>14, <1>15 DEF IInv

\* A thread goes to sleep on the channel's lock.
LEMMA LockSleepStep ==
  ASSUME IInv, NEW t \in Threads, AcquireChannel(t), lk.value = 0
  PROVE  IInv'
<1>1. /\ pc[t] = "lock" /\ sched' = SemaSleep(sched, lk)
      /\ lk' = SemaEnqueue(sched, lk) /\ ifl' = [ifl EXCEPT ![t] = FALSE]
      /\ UNCHANGED <<pc, holder, disk_done, expecting_intr, req, nap, dev, irq>>
  BY DEF AcquireChannel
<1>2. /\ sched.cur = t /\ ~sched.panic /\ t \in Tasks
      /\ ~elem_find(lk.waiters, t) /\ ~elem_find(disk_done.waiters, t)
      /\ sched \in SchedState /\ Consistent(sched) /\ IdleOK(sched)
  BY RunnerLemma DEF AcquireChannel
<1>3. lk \in Semaphore /\ NoDup(lk.waiters) /\ ifl \in [Tasks -> BOOLEAN]
  BY DEF IInv, TypeOK, QueueInv
<1>4. /\ sched' \in SchedState /\ Consistent(sched') /\ IdleOK(sched')
      /\ ~sched'.panic
      /\ \A u \in Tasks \ {idle_thread}, x \in Parked :
           sched'.stat[u] = x <=> IF u = t THEN "BLOCKED" = x ELSE sched.stat[u] = x
      /\ lk' \in Semaphore /\ lk'.value = lk.value /\ NoDup(lk'.waiters)
      /\ \A u : elem_find(lk'.waiters, u) <=> elem_find(lk.waiters, u) \/ u = t
  BY <1>1, <1>2, <1>3, SemaSleepLemma
<1>5. TypeOK'
  BY <1>1, <1>3, <1>4 DEF IInv, TypeOK
<1>6. SchedInv'
  BY <1>4 DEF IInv, SchedInv, Parked, Asleep, Threads
<1>7. PcInv' /\ ReqInv' /\ LockInv' /\ GaveUp'
  BY <1>1, <1>4 DEF IInv, PcInv, ReqInv, LockInv, GaveUp
<1>8. QueueInv'
  <2>1. \A u \in Threads : sched'.stat[u] = "BLOCKED"
                             <=> u = t \/ sched.stat[u] = "BLOCKED"
    BY <1>4 DEF Parked, Asleep, Threads
  <2> QED BY <1>1, <1>4, <2>1 DEF IInv, QueueInv
<1>9. DevInv' /\ IrqInv'
  BY <1>1 DEF IInv, DevInv, IrqInv, DevAt, Dev
<1> QED BY <1>5, <1>6, <1>7, <1>8, <1>9 DEF IInv

\* A command is given to an idle controller, with the flag set.
LEMMA CommandStep ==
  ASSUME IInv, NEW t \in Threads, Command(t)
  PROVE  IInv'
<1>1. /\ Exec(t) /\ pc[t] = "cmd" /\ pc[t] \in Inside
      /\ pc' = [pc EXCEPT ![t] = IF req[t].op = "read" THEN "wait" ELSE "poll"]
      /\ expecting_intr' = TRUE
      /\ dev' = [dev EXCEPT !.st = IF req[t].op = "read" THEN "reading"
                                   ELSE IF dev.mode = "slow" THEN "starting" ELSE "out",
                            !.by = t]
      /\ nap' = [nap EXCEPT ![t].left = PollTurns]
      /\ UNCHANGED <<sched, ifl, lk, holder, disk_done, req, irq>>
  BY DEF Command, cmd_out, Goto, Inside
<1>2. /\ t \in Tasks /\ t # NULL
      /\ nap \in [Tasks -> [left: Nat, ticked: BOOLEAN]]
      /\ dev \in [st: DevStates, by: Tasks \cup {NULL}, mode: Modes]
      /\ disk_done \in Semaphore /\ irq \in BOOLEAN /\ ifl \in [Tasks -> BOOLEAN]
      /\ req \in [Tasks -> [op: {"read", "write"}, secs: Nat, done: Nat]]
  BY <1>1, RunnerLemma DEF IInv, TypeOK
<1>3. /\ holder = t /\ holder # NULL /\ DevAt(pc[t], req[t].op)
      /\ req[t].op \in {"read", "write"} /\ req[t].done < req[t].secs
  BY <1>1, HolderLemma
<1>4. nap' \in [Tasks -> [left: Nat, ticked: BOOLEAN]]
  <2>1. PollTurns \in Nat BY IdeAssumption
  <2>2. nap' = [nap EXCEPT ![t] = [nap[t] EXCEPT !.left = PollTurns]]
    BY <1>1
  <2>3. [nap[t] EXCEPT !.left = PollTurns] \in [left: Nat, ticked: BOOLEAN]
    BY <1>2, <2>1
  <2> QED BY <1>2, <2>2, <2>3
<1>5. PICK o \in {"read", "write"} : req[t].op = o
  BY <1>3
<1>6. PICK l \in Inside : l = IF o = "read" THEN "wait" ELSE "poll"
  BY DEF Inside
<1>7. PICK s \in DevStates :
         s = IF o = "read" THEN "reading"
             ELSE IF dev.mode = "slow" THEN "starting" ELSE "out"
  BY DEF DevStates
<1>8. /\ dev' \in [st: DevStates, by: Tasks \cup {NULL}, mode: Modes]
      /\ dev'.st = s /\ dev'.by = t /\ dev'.mode = dev.mode
  <2>1. dev' = [dev EXCEPT !.st = s, !.by = t]
    BY <1>1, <1>5, <1>7
  <2> QED BY <1>2, <2>1
<1>9. disk_done.value = 0 /\ dev.st = "idle"
  BY <1>1, <1>3 DEF DevAt, Dev
<1>10. DevAt(l, o)'
  BY <1>1, <1>5, <1>6, <1>7, <1>8, <1>9 DEF DevAt, Dev
<1>11. /\ dev.mode # "stale" => ~irq'
       /\ expecting_intr' /\ expecting_intr' \in BOOLEAN
  BY <1>1, <1>3 DEF IInv, IrqInv
<1>12. pc' = [pc EXCEPT ![t] = l] /\ req'[t].op = o
  BY <1>1, <1>5, <1>6
<1>13. /\ UNCHANGED <<sched, lk, holder>> /\ Exec(t) /\ pc[t] \in Inside
       /\ disk_done' \in Semaphore /\ disk_done'.waiters = disk_done.waiters
       /\ disk_done.value = 0 => disk_done'.value = 0
       /\ ifl' \in [Tasks -> BOOLEAN] /\ irq' \in BOOLEAN
       /\ req' \in [Tasks -> [op: {"read", "write"}, secs: Nat, done: Nat]]
       /\ \A u \in Threads \ {t} : req'[u] = req[u]
       /\ req'[t].done < req'[t].secs
  BY <1>1, <1>2, <1>3
<1> QED BY <1>4, <1>5, <1>8, <1>10, <1>11, <1>12, <1>13, InsideStep DEF DevAt, Dev

\* What every step that ends in InsideStep leaves alone is of its type.
LEMMA TypesLemma ==
  ASSUME IInv, NEW t \in Threads, Exec(t)
  PROVE  /\ t \in Tasks /\ t # NULL
         /\ nap \in [Tasks -> [left: Nat, ticked: BOOLEAN]]
         /\ dev \in [st: DevStates, by: Tasks \cup {NULL}, mode: Modes]
         /\ lk \in Semaphore /\ disk_done \in Semaphore
         /\ irq \in BOOLEAN /\ expecting_intr \in BOOLEAN
         /\ ifl \in [Tasks -> BOOLEAN]
         /\ req \in [Tasks -> [op: {"read", "write"}, secs: Nat, done: Nat]]
         /\ pc \in [Tasks -> ThreadPC \cup IdlePC] /\ idle_thread \in Tasks
BY RunnerLemma, SchedAssumption DEF IInv, TypeOK

\* The wait for the controller ends on the post of the interrupt handler.
LEMMA DoneStep ==
  ASSUME IInv, NEW t \in Threads, WaitDone(t), disk_done.value # 0
  PROVE  IInv'
<1>1. /\ Exec(t) /\ pc[t] = "wait" /\ pc[t] \in Inside
      /\ pc' = [pc EXCEPT ![t] = IF req[t].op = "read" THEN "poll" ELSE "next"]
      /\ disk_done' = SemaTake(disk_done)
      /\ ifl' = [ifl EXCEPT ![t] = old_stat(t)]
      /\ UNCHANGED <<sched, lk, holder, expecting_intr, req, nap, dev, irq>>
  BY DEF WaitDone, Goto, Inside
<1>2. /\ t \in Tasks /\ t # NULL
      /\ nap \in [Tasks -> [left: Nat, ticked: BOOLEAN]]
      /\ dev \in [st: DevStates, by: Tasks \cup {NULL}, mode: Modes]
      /\ disk_done \in Semaphore /\ irq \in BOOLEAN /\ ifl \in [Tasks -> BOOLEAN]
      /\ expecting_intr \in BOOLEAN
      /\ req \in [Tasks -> [op: {"read", "write"}, secs: Nat, done: Nat]]
  BY <1>1, TypesLemma
<1>3. /\ holder = t /\ holder # NULL /\ DevAt(pc[t], req[t].op)
      /\ req[t].op \in {"read", "write"} /\ req[t].done < req[t].secs
      /\ dev.st # "idle" => dev.by = t
  BY <1>1, HolderLemma
<1>4. disk_done.value = 1
  BY <1>2 DEF Semaphore
<1>5. /\ disk_done' \in Semaphore /\ disk_done'.value = 0
      /\ disk_done'.waiters = disk_done.waiters
  BY <1>1, <1>2, <1>4, SemaTakeLemma
<1>6. ifl' \in [Tasks -> BOOLEAN]
  <2>1. old_stat(t) \in BOOLEAN
    BY DEF old_stat
  <2> QED BY <1>1, <1>2, <2>1
<1>7. PICK o \in {"read", "write"} : req[t].op = o
  BY <1>3
<1>8. PICK l \in Inside : l = IF o = "read" THEN "poll" ELSE "next"
  BY DEF Inside
<1>9. ~expecting_intr /\ (o = "write" => dev.st = "idle")
      /\ (o = "read" => dev.st \in {"reading", "in"})
  BY <1>1, <1>3, <1>4, <1>7 DEF DevAt, Dev
<1>10. DevAt(l, o)'
  BY <1>1, <1>5, <1>7, <1>8, <1>9 DEF DevAt, Dev
<1>11. dev.mode # "stale" => ~irq' /\ (dev'.st = "reading" => expecting_intr')
  BY <1>1, <1>9 DEF IInv, IrqInv
<1>12. pc' = [pc EXCEPT ![t] = l] /\ req'[t].op = o
  BY <1>1, <1>7, <1>8
<1>13. /\ UNCHANGED <<sched, lk, holder>> /\ Exec(t) /\ pc[t] \in Inside
       /\ irq' \in BOOLEAN /\ expecting_intr' \in BOOLEAN
       /\ req' \in [Tasks -> [op: {"read", "write"}, secs: Nat, done: Nat]]
       /\ \A u \in Threads \ {t} : req'[u] = req[u]
       /\ req'[t].done < req'[t].secs
       /\ nap' \in [Tasks -> [left: Nat, ticked: BOOLEAN]]
       /\ dev' \in [st: DevStates, by: Tasks \cup {NULL}, mode: Modes]
       /\ dev'.mode = dev.mode /\ (dev'.st # "idle" => dev'.by = t)
  BY <1>1, <1>2, <1>3
<1> QED BY <1>5, <1>6, <1>7, <1>10, <1>11, <1>12, <1>13, InsideStep DEF DevAt, Dev

\* The holder goes to sleep on disk_done, with an interrupt to come.
LEMMA DoneSleepStep ==
  ASSUME IInv, NEW t \in Threads, WaitDone(t), disk_done.value = 0
  PROVE  IInv'
<1>1. /\ Exec(t) /\ pc[t] = "wait" /\ sched' = SemaSleep(sched, disk_done)
      /\ disk_done' = SemaEnqueue(sched, disk_done)
      /\ ifl' = [ifl EXCEPT ![t] = FALSE]
      /\ UNCHANGED <<pc, lk, holder, expecting_intr, req, nap, dev, irq>>
  BY DEF WaitDone
<1>2. /\ sched.cur = t /\ ~sched.panic /\ t \in Tasks
      /\ ~elem_find(lk.waiters, t) /\ ~elem_find(disk_done.waiters, t)
      /\ sched \in SchedState /\ Consistent(sched) /\ IdleOK(sched)
  BY <1>1, RunnerLemma
<1>3. disk_done \in Semaphore /\ NoDup(disk_done.waiters) /\ ifl \in [Tasks -> BOOLEAN]
  BY DEF IInv, TypeOK, QueueInv
<1>4. /\ sched' \in SchedState /\ Consistent(sched') /\ IdleOK(sched')
      /\ ~sched'.panic
      /\ \A u \in Tasks \ {idle_thread}, x \in Parked :
           sched'.stat[u] = x <=> IF u = t THEN "BLOCKED" = x ELSE sched.stat[u] = x
      /\ disk_done' \in Semaphore /\ disk_done'.value = disk_done.value
      /\ NoDup(disk_done'.waiters)
      /\ \A u : elem_find(disk_done'.waiters, u)
                  <=> elem_find(disk_done.waiters, u) \/ u = t
  BY <1>1, <1>2, <1>3, SemaSleepLemma
<1>5. TypeOK'
  BY <1>1, <1>3, <1>4 DEF IInv, TypeOK
<1>6. SchedInv'
  BY <1>4 DEF IInv, SchedInv, Parked, Asleep, Threads
<1>7. PcInv' /\ ReqInv' /\ LockInv' /\ GaveUp'
  BY <1>1, <1>4 DEF IInv, PcInv, ReqInv, LockInv, GaveUp
<1>8. QueueInv'
  <2>1. \A u \in Threads : sched'.stat[u] = "BLOCKED"
                             <=> u = t \/ sched.stat[u] = "BLOCKED"
    BY <1>4 DEF Parked, Asleep, Threads
  <2> QED BY <1>1, <1>4, <2>1 DEF IInv, QueueInv
<1>9. DevInv' /\ IrqInv'
  BY <1>1, <1>4 DEF IInv, DevInv, IrqInv, DevAt, Dev
<1> QED BY <1>5, <1>6, <1>7, <1>8, <1>9 DEF IInv

\* One turn of busy_wait: the caller gives up, finds the data, or naps.
LEMMA BusyWaitStep ==
  ASSUME IInv, NEW t \in Threads, busy_wait(t)
  PROVE  IInv'
<1>1. /\ Exec(t) /\ pc[t] = "poll" /\ pc[t] \in Inside
      /\ UNCHANGED <<ifl, req, dev, irq, lk, holder, disk_done, expecting_intr>>
  BY DEF busy_wait, Inside, Driver
<1>2. /\ t \in Tasks /\ t # NULL
      /\ nap \in [Tasks -> [left: Nat, ticked: BOOLEAN]]
      /\ dev \in [st: DevStates, by: Tasks \cup {NULL}, mode: Modes]
      /\ disk_done \in Semaphore /\ irq \in BOOLEAN /\ ifl \in [Tasks -> BOOLEAN]
      /\ expecting_intr \in BOOLEAN
      /\ req \in [Tasks -> [op: {"read", "write"}, secs: Nat, done: Nat]]
  BY <1>1, TypesLemma
<1>3. /\ holder = t /\ holder # NULL /\ DevAt(pc[t], req[t].op)
      /\ req[t].op \in {"read", "write"} /\ req[t].done < req[t].secs
      /\ dev.st # "idle" => dev.by = t
  BY <1>1, HolderLemma
<1>4. PICK o \in {"read", "write"} : req[t].op = o
  BY <1>3
<1>5. /\ disk_done.value = 0
      /\ o = "read" => ~expecting_intr /\ dev.st \in {"reading", "in"}
      /\ o = "write" => expecting_intr /\ dev.st \in {"starting", "out"}
  BY <1>1, <1>3, <1>4 DEF DevAt, Dev
<1>6. dev.mode # "stale" => ~irq /\ (dev.st = "reading" => expecting_intr)
  BY <1>1, <1>3 DEF IInv, IrqInv
<1>7. ASSUME nap[t].left = 0, sched' = Check(sched, FALSE), UNCHANGED <<pc, nap>>
      PROVE  IInv'
  <2>1. /\ sched' = [sched EXCEPT !.panic = TRUE] /\ sched \in SchedState
    BY <1>7 DEF Check, IInv, TypeOK
  <2>2. /\ sched' \in SchedState /\ sched'.cur = sched.cur
        /\ sched'.stat = sched.stat /\ sched'.ready = sched.ready
    BY <2>1 DEF SchedState
  <2>3. TypeOK' /\ PcInv' /\ ReqInv' /\ LockInv'
    BY <1>1, <1>7, <2>2 DEF IInv, TypeOK, PcInv, ReqInv, LockInv
  <2>4. SchedInv'
    BY <2>2 DEF IInv, SchedInv, Consistent, IdleOK
  <2>7. QueueInv'
    BY <1>1, <1>7, <2>2 DEF IInv, QueueInv
  <2>5. DevInv' /\ IrqInv'
    BY <1>1, <1>7 DEF IInv, DevInv, IrqInv, DevAt, Dev
  <2>6. GaveUp'
    BY <1>1, <1>7 DEF GaveUp
  <2> QED BY <2>3, <2>4, <2>5, <2>6, <2>7 DEF IInv
<1>8. ASSUME NEW l \in {"io", "nap"}, pc' = [pc EXCEPT ![t] = l], UNCHANGED sched,
             nap' \in [Tasks -> [left: Nat, ticked: BOOLEAN]],
             l = "io" => dev.st \notin Busy
      PROVE  IInv'
  <2>1. l \in Inside
    BY DEF Inside
  <2>2. DevAt(l, o)'
    BY <1>1, <1>4, <1>5, <1>8 DEF DevAt, Dev, Busy
  <2>3. /\ UNCHANGED <<sched, lk, holder>> /\ Exec(t) /\ pc[t] \in Inside
        /\ disk_done' \in Semaphore /\ disk_done'.waiters = disk_done.waiters
        /\ disk_done'.value = 0
        /\ ifl' \in [Tasks -> BOOLEAN]
        /\ irq' \in BOOLEAN /\ expecting_intr' \in BOOLEAN
        /\ req' \in [Tasks -> [op: {"read", "write"}, secs: Nat, done: Nat]]
        /\ \A u \in Threads \ {t} : req'[u] = req[u]
        /\ req'[t].done < req'[t].secs /\ req'[t].op = o
        /\ dev' \in [st: DevStates, by: Tasks \cup {NULL}, mode: Modes]
        /\ dev'.mode = dev.mode /\ (dev'.st # "idle" => dev'.by = t)
    BY <1>1, <1>2, <1>3, <1>4, <1>5, <1>8
  <2>4. dev.mode # "stale" => ~irq' /\ (dev'.st = "reading" => expecting_intr')
    BY <1>1, <1>6
  <2> QED BY <1>4, <1>8, <2>1, <2>2, <2>3, <2>4, InsideStep DEF DevAt, Dev
<1>9. CASE nap[t].left = 0
  BY <1>7, <1>9 DEF busy_wait
<1>10. CASE nap[t].left > 0 /\ dev.st \notin Busy
  <2>1. dev.st \in {"in", "out"}
    BY <1>5, <1>10 DEF Busy
  <2>2. pc' = [pc EXCEPT ![t] = "io"] /\ UNCHANGED <<sched, nap>>
    BY <1>10, <2>1 DEF busy_wait, Goto, Check
  <2> QED BY <1>2, <1>8, <1>10, <2>2
<1>11. CASE nap[t].left > 0 /\ dev.st \in Busy
  <2>1. /\ nap' = [nap EXCEPT ![t] = [left |-> @.left - 1, ticked |-> FALSE]]
        /\ pc' = [pc EXCEPT ![t] = "nap"] /\ UNCHANGED sched
    <3>1. nap[t].left # 0
      BY <1>2, <1>11
    <3> QED BY <1>11, <3>1 DEF busy_wait, Goto
  <2>2. nap[t].left - 1 \in Nat
    BY <1>2, <1>11
  <2>3. nap' \in [Tasks -> [left: Nat, ticked: BOOLEAN]]
    BY <1>2, <2>1, <2>2
  <2> QED BY <1>8, <2>1, <2>3
<1>12. nap[t].left \in Nat
  BY <1>2
<1> QED BY <1>9, <1>10, <1>11, <1>12

\* One command's sectors are a number of their own.
LEMMA SecsOpLemma ==
  ASSUME IInv, NEW t \in Threads, req[t].done < req[t].secs
  PROVE  secs_op(t) \in Nat
<1>1. req[t].secs \in Nat /\ req[t].done \in Nat
  BY DEF IInv, TypeOK, Threads
<1> DEFINE rest == req[t].secs - req[t].done
<1>2. rest \in Nat
  BY <1>1
<1> QED BY <1>2, IdeAssumption DEF secs_op

\* mtime_sleep lets others run until the clock has ticked.
LEMMA NapStep ==
  ASSUME IInv, NEW t \in Threads, ticks_to_sleep(t)
  PROVE  IInv'
<1>1. /\ Exec(t) /\ pc[t] = "nap" /\ pc[t] \in Inside
      /\ UNCHANGED <<ifl, req, nap, dev, irq, lk, holder, disk_done, expecting_intr>>
      /\ UNCHANGED Driver
  BY DEF ticks_to_sleep, Inside, Driver
<1>2. /\ t \in Tasks /\ t # NULL
      /\ nap \in [Tasks -> [left: Nat, ticked: BOOLEAN]]
      /\ dev \in [st: DevStates, by: Tasks \cup {NULL}, mode: Modes]
      /\ disk_done \in Semaphore /\ irq \in BOOLEAN /\ ifl \in [Tasks -> BOOLEAN]
      /\ expecting_intr \in BOOLEAN
      /\ req \in [Tasks -> [op: {"read", "write"}, secs: Nat, done: Nat]]
      /\ pc \in [Tasks -> ThreadPC \cup IdlePC]
  BY <1>1, TypesLemma
<1>3. CASE nap[t].ticked
  <2>1. pc' = [pc EXCEPT ![t] = "poll"] /\ UNCHANGED sched
    BY <1>3 DEF ticks_to_sleep, Goto
  <2>2. /\ holder = t /\ holder # NULL /\ DevAt(pc[t], req[t].op)
        /\ req[t].op \in {"read", "write"} /\ req[t].done < req[t].secs
        /\ dev.st # "idle" => dev.by = t
    BY <1>1, HolderLemma
  <2>3. PICK o \in {"read", "write"} : req[t].op = o
    BY <2>2
  <2>4. PICK l \in Inside : l = "poll"
    BY DEF Inside
  <2>5. DevAt(l, o)' /\ disk_done'.value = 0
    BY <1>1, <2>2, <2>3, <2>4 DEF DevAt, Dev
  <2>6. dev.mode # "stale" => ~irq' /\ (dev'.st = "reading" => expecting_intr')
    BY <1>1, <2>2 DEF IInv, IrqInv
  <2>7. pc' = [pc EXCEPT ![t] = l] /\ req'[t].op = o
    BY <1>1, <2>1, <2>3, <2>4
  <2>8. /\ UNCHANGED <<sched, lk, holder>> /\ Exec(t) /\ pc[t] \in Inside
        /\ disk_done' \in Semaphore /\ disk_done'.waiters = disk_done.waiters
        /\ ifl' \in [Tasks -> BOOLEAN]
        /\ irq' \in BOOLEAN /\ expecting_intr' \in BOOLEAN
        /\ req' \in [Tasks -> [op: {"read", "write"}, secs: Nat, done: Nat]]
        /\ \A u \in Threads \ {t} : req'[u] = req[u]
        /\ req'[t].done < req'[t].secs
        /\ nap' \in [Tasks -> [left: Nat, ticked: BOOLEAN]]
        /\ dev' \in [st: DevStates, by: Tasks \cup {NULL}, mode: Modes]
        /\ dev'.mode = dev.mode /\ (dev'.st # "idle" => dev'.by = t)
    BY <1>1, <1>2, <2>1, <2>2
  <2> QED BY <2>3, <2>5, <2>6, <2>7, <2>8, InsideStep DEF DevAt, Dev
<1>4. CASE ~nap[t].ticked
  <2>1. sched' = thread_yield(sched) /\ UNCHANGED pc
    BY <1>4 DEF ticks_to_sleep
  <2>2. ~sched.panic /\ sched \in SchedState /\ Consistent(sched) /\ IdleOK(sched)
    BY <1>1, RunnerLemma
  <2>3. /\ sched' \in SchedState /\ Consistent(sched') /\ IdleOK(sched')
        /\ ~sched'.panic /\ SameSleepers(sched, sched')
    BY <2>1, <2>2, YieldLemma
  <2>4. pc[idle_thread] \in IdlePC
    BY DEF IInv, PcInv
  <2> QED BY <1>1, <1>2, <2>1, <2>2, <2>3, <2>4, SchedStep
<1> QED BY <1>3, <1>4

\* The transfer of a read ends the command; that of a write leaves the
\* controller at work.
LEMMA TransferStep ==
  ASSUME IInv, NEW t \in Threads, Transfer(t)
  PROVE  IInv'
<1>1. /\ Exec(t) /\ pc[t] = "io" /\ pc[t] \in Inside
      /\ UNCHANGED <<sched, ifl, req, nap, lk, holder, disk_done, expecting_intr>>
  BY DEF Transfer, Inside, Driver
<1>2. /\ t \in Tasks /\ t # NULL
      /\ nap \in [Tasks -> [left: Nat, ticked: BOOLEAN]]
      /\ dev \in [st: DevStates, by: Tasks \cup {NULL}, mode: Modes]
      /\ disk_done \in Semaphore /\ irq \in BOOLEAN /\ ifl \in [Tasks -> BOOLEAN]
      /\ expecting_intr \in BOOLEAN
      /\ req \in [Tasks -> [op: {"read", "write"}, secs: Nat, done: Nat]]
  BY <1>1, TypesLemma
<1>3. /\ holder = t /\ holder # NULL /\ DevAt(pc[t], req[t].op)
      /\ req[t].op \in {"read", "write"} /\ req[t].done < req[t].secs
      /\ dev.st # "idle" => dev.by = t
  BY <1>1, HolderLemma
<1>4. PICK o \in {"read", "write"} : req[t].op = o
  BY <1>3
<1>5. PICK l \in Inside : l = IF o = "read" THEN "next" ELSE "wait"
  BY DEF Inside
<1>6. PICK s \in DevStates : s = IF o = "read" THEN "idle" ELSE "writing"
  BY DEF DevStates
<1>7. pc' = [pc EXCEPT ![t] = l] /\ dev' = [dev EXCEPT !.st = s]
  BY <1>4, <1>5, <1>6 DEF Transfer, Goto
<1>8. irq' \in BOOLEAN /\ (dev.mode # "stale" => irq' = irq)
  BY <1>2 DEF Transfer
<1>9. /\ dev' \in [st: DevStates, by: Tasks \cup {NULL}, mode: Modes]
      /\ dev'.st = s /\ dev'.by = dev.by /\ dev'.mode = dev.mode
  BY <1>2, <1>7
<1>10. /\ disk_done.value = 0 /\ dev.st # "idle"
       /\ expecting_intr <=> o = "write"
  BY <1>1, <1>3, <1>4 DEF DevAt, Dev
<1>11. DevAt(l, o)' /\ disk_done'.value = 0
  BY <1>1, <1>5, <1>6, <1>9, <1>10 DEF DevAt, Dev
<1>12. dev.mode # "stale" => ~irq' /\ dev'.st # "reading"
  BY <1>1, <1>3, <1>6, <1>8, <1>9 DEF IInv, IrqInv
<1>13. /\ UNCHANGED <<sched, lk, holder>> /\ Exec(t) /\ pc[t] \in Inside
       /\ disk_done' \in Semaphore /\ disk_done'.waiters = disk_done.waiters
       /\ ifl' \in [Tasks -> BOOLEAN] /\ expecting_intr' \in BOOLEAN
       /\ req' \in [Tasks -> [op: {"read", "write"}, secs: Nat, done: Nat]]
       /\ \A u \in Threads \ {t} : req'[u] = req[u]
       /\ req'[t].done < req'[t].secs /\ req'[t].op = o
       /\ nap' \in [Tasks -> [left: Nat, ticked: BOOLEAN]]
       /\ dev'.st # "idle" => dev'.by = t
  BY <1>1, <1>2, <1>3, <1>4, <1>9, <1>10
<1> QED BY <1>4, <1>7, <1>8, <1>9, <1>11, <1>12, <1>13, InsideStep DEF DevAt, Dev

\* A request that has sectors left goes on to its next command.
LEMMA LoopStep ==
  ASSUME IInv, NEW t \in Threads, Next_or_release(t), req'[t].done < req[t].secs
  PROVE  IInv'
<1>1. /\ Exec(t) /\ pc[t] = "next" /\ pc[t] \in Inside
      /\ req' = [req EXCEPT ![t].done = @ + secs_op(t)]
      /\ pc' = [pc EXCEPT ![t] = "cmd"]
      /\ UNCHANGED <<sched, ifl, nap, dev, irq, lk, holder, disk_done, expecting_intr>>
  BY DEF Next_or_release, Inside, Goto
<1>2. /\ t \in Tasks /\ t # NULL
      /\ nap \in [Tasks -> [left: Nat, ticked: BOOLEAN]]
      /\ dev \in [st: DevStates, by: Tasks \cup {NULL}, mode: Modes]
      /\ disk_done \in Semaphore /\ irq \in BOOLEAN /\ ifl \in [Tasks -> BOOLEAN]
      /\ expecting_intr \in BOOLEAN
      /\ req \in [Tasks -> [op: {"read", "write"}, secs: Nat, done: Nat]]
  BY <1>1, TypesLemma
<1>3. /\ holder = t /\ holder # NULL /\ DevAt(pc[t], req[t].op)
      /\ req[t].op \in {"read", "write"} /\ req[t].done < req[t].secs
      /\ dev.st # "idle" => dev.by = t
  BY <1>1, HolderLemma
<1>4. PICK o \in {"read", "write"} : req[t].op = o
  BY <1>3
<1>5. PICK l \in Inside : l = "cmd"
  BY DEF Inside
<1>6. /\ req' \in [Tasks -> [op: {"read", "write"}, secs: Nat, done: Nat]]
      /\ req'[t].op = o /\ req'[t].secs = req[t].secs
      /\ \A u \in Threads \ {t} : req'[u] = req[u]
  BY <1>1, <1>2, <1>3, <1>4, SecsOpLemma DEF Threads
<1>7. ~expecting_intr /\ disk_done.value = 0 /\ dev.st = "idle"
  BY <1>1, <1>3 DEF DevAt, Dev
<1>8. DevAt(l, o)' /\ disk_done'.value = 0
  BY <1>1, <1>5, <1>7 DEF DevAt, Dev
<1>9. dev.mode # "stale" => ~irq' /\ dev'.st # "reading"
  BY <1>1, <1>3, <1>7 DEF IInv, IrqInv
<1>10. /\ UNCHANGED <<sched, lk, holder>> /\ Exec(t) /\ pc[t] \in Inside
       /\ disk_done' \in Semaphore /\ disk_done'.waiters = disk_done.waiters
       /\ ifl' \in [Tasks -> BOOLEAN] /\ expecting_intr' \in BOOLEAN
       /\ irq' \in BOOLEAN
       /\ req'[t].done < req'[t].secs
       /\ nap' \in [Tasks -> [left: Nat, ticked: BOOLEAN]]
       /\ dev' \in [st: DevStates, by: Tasks \cup {NULL}, mode: Modes]
       /\ dev'.mode = dev.mode /\ (dev'.st # "idle" => dev'.by = t)
       /\ pc' = [pc EXCEPT ![t] = l]
  BY <1>1, <1>2, <1>3, <1>5, <1>6
<1> QED BY <1>4, <1>6, <1>8, <1>9, <1>10, InsideStep DEF DevAt, Dev

\* The last command is done: the channel is given back, to the first waiter
\* if there is one, with the controller idle and no post left over.
LEMMA ReleaseStep ==
  ASSUME IInv, NEW t \in Threads, Next_or_release(t), ~(req'[t].done < req[t].secs)
  PROVE  IInv'
<1>1. /\ Exec(t) /\ pc[t] = "next" /\ pc[t] \in Inside
      /\ req' = [req EXCEPT ![t].done = @ + secs_op(t)]
      /\ sched' = SemaWake(Check(sched, holder = t), lk) /\ lk' = SemaPost(lk)
      /\ holder' = NULL /\ ifl' = [ifl EXCEPT ![t] = TRUE]
      /\ pc' = [pc EXCEPT ![t] = "user"]
      /\ UNCHANGED <<nap, dev, irq, disk_done, expecting_intr>>
  BY DEF Next_or_release, Inside, Goto
<1>2. /\ t \in Tasks /\ t # NULL
      /\ lk \in Semaphore /\ ifl \in [Tasks -> BOOLEAN]
      /\ req \in [Tasks -> [op: {"read", "write"}, secs: Nat, done: Nat]]
      /\ pc \in [Tasks -> ThreadPC \cup IdlePC] /\ idle_thread \in Tasks
  BY <1>1, TypesLemma
<1>3. /\ sched.cur = t /\ ~sched.panic /\ t # idle_thread
      /\ ~elem_find(lk.waiters, t) /\ ~elem_find(disk_done.waiters, t)
      /\ sched \in SchedState /\ Consistent(sched) /\ IdleOK(sched)
  BY <1>1, RunnerLemma
<1>4. /\ holder = t /\ DevAt(pc[t], req[t].op) /\ lk.value = 0
      /\ req[t].done < req[t].secs
  BY <1>1, HolderLemma
<1>5. /\ pc' \in [Tasks -> ThreadPC \cup IdlePC] /\ pc'[t] = "user"
      /\ \A u \in Tasks \ {t} : pc'[u] = pc[u]
  BY <1>1, <1>2 DEF ThreadPC
<1>6. /\ req' \in [Tasks -> [op: {"read", "write"}, secs: Nat, done: Nat]]
      /\ \A u \in Tasks \ {t} : req'[u] = req[u]
  BY <1>1, <1>2, <1>4, SecsOpLemma
<1>7. /\ sched' \in SchedState /\ Consistent(sched') /\ IdleOK(sched')
      /\ ~sched'.panic
      /\ lk' \in Semaphore /\ lk'.value = 1 /\ NoDup(lk'.waiters)
      /\ \A u : elem_find(lk'.waiters, u)
                  <=> elem_find(lk.waiters, u) /\ u # Head(lk.waiters)
      /\ \A u \in Tasks :
           sched'.stat[u] = IF elem_find(lk.waiters, u) /\ ~elem_find(lk'.waiters, u)
                              THEN "READY" ELSE sched.stat[u]
  <2>1. sched' = SemaWake(sched, lk) /\ lk' = SemaPost(lk)
    BY <1>1, <1>4 DEF Check
  <2>2. \A u : elem_find(lk.waiters, u) => u \in Tasks
    BY <1>2 DEF elem_find, Semaphore
  <2>3. /\ NoDup(lk.waiters)
        /\ \A u : elem_find(lk.waiters, u) =>
                    u \in Tasks \ {idle_thread} /\ sched.stat[u] = "BLOCKED"
    BY <2>2 DEF IInv, QueueInv, Threads
  <2>4. lk \in Semaphore /\ lk.value = 0
    BY <1>2, <1>4
  <2>5. ~sched.panic /\ sched \in SchedState /\ Consistent(sched) /\ IdleOK(sched)
    BY <1>3
  <2> QED BY <2>1, <2>3, <2>4, <2>5, SemaWakeLemma
<1>8. TypeOK'
  <2>1. ifl' \in [Tasks -> BOOLEAN]
    BY <1>1, <1>2
  <2> QED BY <1>1, <1>5, <1>6, <1>7, <2>1 DEF IInv, TypeOK
<1>9. SchedInv' /\ GaveUp'
  BY <1>7 DEF IInv, SchedInv, GaveUp, Threads
<1>10. PcInv'
  BY <1>2, <1>3, <1>5 DEF IInv, PcInv, ThreadPC, Threads
<1>11. ReqInv'
  BY <1>1, <1>5, <1>6 DEF IInv, ReqInv, Threads
<1>12. LockInv'
  <2>1. \A u \in Threads : u # t => pc[u] \notin Inside
    BY <1>4 DEF IInv, LockInv
  <2>2. \A u \in Threads : pc'[u] \notin Inside /\ u # NULL
    BY <1>5, <2>1, IdeAssumption DEF Threads, Inside
  <2> QED BY <1>1, <1>2, <1>7, <2>2, IdeAssumption DEF LockInv
<1>13. QueueInv'
  <2>1. \A u \in Tasks : elem_find(lk'.waiters, u) => u \in Threads /\ pc'[u] = "lock"
    BY <1>3, <1>5, <1>7 DEF IInv, QueueInv
  <2>2. \A u \in Tasks : elem_find(disk_done'.waiters, u) =>
           u \in Threads /\ pc'[u] = "wait" /\ disk_done'.value = 0
    BY <1>1, <1>3, <1>5 DEF IInv, QueueInv
  <2>3. ASSUME NEW u \in Threads
        PROVE  sched'.stat[u] = "BLOCKED" <=>
                 elem_find(lk'.waiters, u) \/ elem_find(disk_done'.waiters, u)
    <3>1. u \in Tasks
      BY DEF Threads
    <3>2. /\ elem_find(lk.waiters, u) => pc[u] = "lock"
          /\ elem_find(disk_done.waiters, u) => pc[u] = "wait"
          /\ sched.stat[u] = "BLOCKED" <=>
               elem_find(lk.waiters, u) \/ elem_find(disk_done.waiters, u)
      BY <3>1 DEF IInv, QueueInv
    <3> QED BY <1>1, <1>7, <3>1, <3>2
  <2> QED BY <1>1, <1>7, <2>1, <2>2, <2>3 DEF IInv, QueueInv
<1>14. DevInv' /\ IrqInv'
  <2>1. ~expecting_intr /\ disk_done.value = 0 /\ dev.st = "idle"
    BY <1>1, <1>4 DEF DevAt, Dev
  <2>2. dev.mode # "stale" => ~irq
    BY <1>1, <1>4 DEF IInv, IrqInv
  <2> QED BY <1>1, <2>1, <2>2 DEF DevInv, IrqInv, DevAt, Dev
<1> QED BY <1>8, <1>9, <1>10, <1>11, <1>12, <1>13, <1>14 DEF IInv

-----------------------------------------------------------------------------
(* Interrupts, the idle thread and the controller *)

\* Only the idle thread's pc depends on an interrupt.
LEMMA HltLemma ==
  ASSUME IInv, EndHlt
  PROVE  /\ pc' \in [Tasks -> ThreadPC \cup IdlePC]
         /\ pc'[idle_thread] \in IdlePC
         /\ \A t \in Threads : pc'[t] = pc[t]
<1>1. /\ sched.cur \in Tasks /\ pc \in [Tasks -> ThreadPC \cup IdlePC]
      /\ idle_thread \in Tasks /\ pc[idle_thread] \in IdlePC
      /\ \A t \in Threads : pc[t] # "hlt" /\ t \in Tasks
  BY SchedAssumption DEF IInv, TypeOK, PcInv, SchedState, ThreadPC, Inside, Threads
<1>2. \A t \in Tasks :
         pc'[t] = IF t = sched.cur /\ pc[t] = "hlt" THEN "loop" ELSE pc[t]
  BY <1>1 DEF EndHlt
<1>3. pc' \in [Tasks -> ThreadPC \cup IdlePC]
  BY <1>1 DEF EndHlt, IdlePC
<1> QED BY <1>1, <1>2, <1>3 DEF IdlePC

\* An expected interrupt comes for the thread that waits: it posts once, and
\* what the thread then finds is its own data or its own data stored.
LEMMA HandlerStep ==
  ASSUME ReadsIfStale, IInv, intr_hd_hdl
  PROVE  IInv'
<1>1. /\ ~sched.panic /\ irq /\ irq' = FALSE /\ EndHlt
      /\ UNCHANGED <<ifl, lk, holder, req, nap, dev>>
  BY DEF intr_hd_hdl
<1>2. /\ pc' \in [Tasks -> ThreadPC \cup IdlePC]
      /\ pc'[idle_thread] \in IdlePC
      /\ \A t \in Threads : pc'[t] = pc[t]
  BY <1>1, HltLemma
<1>3. /\ sched \in SchedState /\ Consistent(sched) /\ IdleOK(sched)
      /\ disk_done \in Semaphore /\ expecting_intr \in BOOLEAN
      /\ dev.mode \in Modes /\ dev.st \in DevStates
      /\ holder # NULL => holder \in Threads
  BY DEF IInv, TypeOK, SchedInv, LockInv, Threads
<1>4. PcInv' /\ ReqInv' /\ LockInv'
  BY <1>1, <1>2 DEF IInv, PcInv, ReqInv, LockInv
<1>5. CASE ~expecting_intr
  <2>1. UNCHANGED <<expecting_intr, sched, disk_done>>
    BY <1>5 DEF intr_hd_hdl
  <2>2. TypeOK' /\ SchedInv' /\ GaveUp'
    BY <1>1, <1>2, <2>1 DEF IInv, TypeOK, SchedInv, GaveUp
  <2>3. QueueInv'
    BY <1>1, <1>2, <2>1 DEF IInv, QueueInv
  <2>4. DevInv' /\ IrqInv'
    BY <1>1, <1>2, <1>3, <1>5, <2>1 DEF IInv, DevInv, IrqInv, DevAt, Dev
  <2> QED BY <1>4, <2>2, <2>3, <2>4 DEF IInv
<1>6. CASE expecting_intr
  <2>1. /\ expecting_intr' = FALSE /\ sched' = SemaWake(sched, disk_done)
        /\ disk_done' = SemaPost(disk_done)
    BY <1>6 DEF intr_hd_hdl
  <2>2. holder # NULL
    BY <1>6 DEF IInv, DevInv, DevAt, Dev
  <2>3. PICK h \in Threads : h = holder
    BY <1>3, <2>2
  <2>4. pc[h] \in Inside
    BY <2>3 DEF IInv, LockInv
  <2>5. /\ DevAt(pc[h], req[h].op)
        /\ dev.st # "idle" => dev.by = h
        /\ req[h].op \in {"read", "write"} /\ req[h].op \in Ops[dev.mode]
    BY <2>4, HolderLemma
  <2>6. req[h].op = "write" => dev.mode # "stale"
    BY <1>3, <2>5 DEF ReadsIfStale
  <2>7. /\ pc[h] = "wait" /\ disk_done.value = 0
        /\ req[h].op = "read" => dev.st \in {"reading", "in"}
        /\ req[h].op = "write" => dev.st = "idle"
        /\ dev.mode # "stale" => dev.st # "reading"
    BY <1>1, <1>6, <2>3, <2>4, <2>5, <2>6 DEF IInv, IrqInv, DevAt, Dev, Inside
  <2>8. /\ sched' \in SchedState /\ Consistent(sched') /\ IdleOK(sched')
        /\ ~sched'.panic
        /\ disk_done' \in Semaphore /\ disk_done'.value = 1
        /\ NoDup(disk_done'.waiters)
        /\ \A u : elem_find(disk_done'.waiters, u)
                    <=> elem_find(disk_done.waiters, u) /\ u # Head(disk_done.waiters)
        /\ \A u \in Tasks : sched'.stat[u] =
             IF elem_find(disk_done.waiters, u) /\ ~elem_find(disk_done'.waiters, u)
               THEN "READY" ELSE sched.stat[u]
    <3>1. \A u : elem_find(disk_done.waiters, u) => u \in Tasks
      BY <1>3 DEF elem_find, Semaphore
    <3>2. /\ NoDup(disk_done.waiters)
          /\ \A u : elem_find(disk_done.waiters, u) =>
                      u \in Tasks \ {idle_thread} /\ sched.stat[u] = "BLOCKED"
      BY <3>1 DEF IInv, QueueInv, Threads
    <3> QED BY <1>1, <1>3, <2>1, <2>7, <3>2, SemaWakeLemma
  <2>9. TypeOK'
    BY <1>1, <1>2, <2>1, <2>8 DEF IInv, TypeOK
  <2>10. SchedInv' /\ GaveUp'
    BY <2>8 DEF IInv, SchedInv, GaveUp, Threads
  <2>11. \A u \in Tasks : ~elem_find(disk_done'.waiters, u)
    <3>1. ASSUME NEW u \in Tasks, elem_find(disk_done.waiters, u)
          PROVE  u = h
      <4>1. u \in Threads /\ pc[u] = "wait"
        BY <3>1 DEF IInv, QueueInv
      <4> QED BY <2>3, <4>1 DEF IInv, LockInv, Inside
    <3>2. elem_find(disk_done.waiters, h) => Head(disk_done.waiters) = h
      <4>1. ASSUME elem_find(disk_done.waiters, h) PROVE disk_done.waiters # <<>>
        BY <4>1 DEF elem_find
      <4>2. disk_done.waiters # <<>> =>
              /\ Head(disk_done.waiters) \in Tasks
              /\ elem_find(disk_done.waiters, Head(disk_done.waiters))
        BY <1>3, PopLemma DEF Semaphore
      <4> QED BY <3>1, <4>1, <4>2
    <3> QED BY <2>8, <3>1, <3>2
  <2>12. QueueInv'
    <3>1. \A u \in Tasks : elem_find(lk'.waiters, u) => u \in Threads /\ pc'[u] = "lock"
      BY <1>1, <1>2 DEF IInv, QueueInv
    <3>2. ASSUME NEW u \in Threads
          PROVE  sched'.stat[u] = "BLOCKED" <=>
                   elem_find(lk'.waiters, u) \/ elem_find(disk_done'.waiters, u)
      <4>1. u \in Tasks
        BY DEF Threads
      <4>2. /\ elem_find(lk.waiters, u) => pc[u] = "lock"
            /\ elem_find(disk_done.waiters, u) => pc[u] = "wait"
            /\ sched.stat[u] = "BLOCKED" <=>
                 elem_find(lk.waiters, u) \/ elem_find(disk_done.waiters, u)
        BY <4>1 DEF IInv, QueueInv
      <4> QED BY <1>1, <2>8, <4>1, <4>2
    <3> QED BY <1>1, <2>8, <2>11, <3>1, <3>2 DEF IInv, QueueInv
  <2>13. /\ holder' = h /\ holder' # NULL /\ pc'[holder'] = "wait"
         /\ req'[holder'] = req[h] /\ dev' = dev
    BY <1>1, <1>2, <2>2, <2>3, <2>7
  <2>14. DevInv'
    BY <2>1, <2>5, <2>7, <2>8, <2>13 DEF DevInv, DevAt, Dev
  <2>15. IrqInv'
    BY <1>1, <2>7, <2>13 DEF IrqInv
  <2> QED BY <1>4, <2>9, <2>10, <2>12, <2>14, <2>15 DEF IInv
<1> QED BY <1>3, <1>5, <1>6

\* The clock tells the threads that nap, and may preempt.
LEMMA TimerStep ==
  ASSUME IInv, Timer
  PROVE  IInv'
<1>1. /\ ~sched.panic /\ sched' = intr_time_hdl(sched) /\ EndHlt
      /\ nap' = [t \in Tasks |-> [nap[t] EXCEPT !.ticked = @ \/ pc[t] = "nap"]]
      /\ UNCHANGED <<ifl, req, dev, irq, Driver>>
  BY DEF Timer
<1>2. /\ sched \in SchedState /\ Consistent(sched) /\ IdleOK(sched)
      /\ nap \in [Tasks -> [left: Nat, ticked: BOOLEAN]]
  BY DEF IInv, TypeOK, SchedInv
<1>3. /\ sched' \in SchedState /\ Consistent(sched') /\ IdleOK(sched')
      /\ ~sched'.panic /\ SameSleepers(sched, sched')
  BY <1>1, <1>2, TimerLemma
<1>4. nap' \in [Tasks -> [left: Nat, ticked: BOOLEAN]]
  <2>1. ASSUME NEW t \in Tasks, NEW b \in BOOLEAN
        PROVE  [nap[t] EXCEPT !.ticked = b] \in [left: Nat, ticked: BOOLEAN]
    BY <1>2
  <2>2. \A t \in Tasks : (nap[t].ticked \/ pc[t] = "nap") \in BOOLEAN
    OBVIOUS
  <2>3. \A t \in Tasks : [nap[t] EXCEPT !.ticked = @ \/ pc[t] = "nap"]
                            \in [left: Nat, ticked: BOOLEAN]
    BY <2>1, <2>2
  <2> QED BY <1>1, <2>3
<1>5. /\ pc' \in [Tasks -> ThreadPC \cup IdlePC]
      /\ pc'[idle_thread] \in IdlePC
      /\ \A t \in Threads : pc'[t] = pc[t]
  BY <1>1, HltLemma
<1> QED BY <1>1, <1>3, <1>4, <1>5, SchedStep

\* The idle thread's loop.
LEMMA IdleStep ==
  ASSUME IInv, IdleBlock \/ IdleHlt
  PROVE  IInv'
<1>1. /\ sched \in SchedState /\ Consistent(sched) /\ IdleOK(sched)
      /\ nap \in [Tasks -> [left: Nat, ticked: BOOLEAN]]
      /\ pc \in [Tasks -> ThreadPC \cup IdlePC] /\ idle_thread \in Tasks
  BY SchedAssumption DEF IInv, TypeOK, SchedInv
<1>2. /\ ~sched.panic /\ sched.cur = idle_thread
      /\ UNCHANGED <<ifl, req, dev, irq, Driver>> /\ nap' = nap
      /\ \E l \in {"sti", "hlt"} : pc' = [pc EXCEPT ![idle_thread] = l]
  BY DEF IdleBlock, IdleHlt, Exec, Goto
<1>3. /\ pc' \in [Tasks -> ThreadPC \cup IdlePC] /\ pc'[idle_thread] \in IdlePC
      /\ \A t \in Threads : pc'[t] = pc[t]
  BY <1>1, <1>2 DEF IdlePC, Threads
<1>4. /\ sched' \in SchedState /\ Consistent(sched') /\ IdleOK(sched')
      /\ ~sched'.panic /\ SameSleepers(sched, sched')
  <2>1. CASE IdleBlock
    <3>1. sched' = thread_block(sched, "BLOCKED") /\ "BLOCKED" \in Asleep
      BY <2>1 DEF IdleBlock, Asleep
    <3>2. /\ sched' \in SchedState /\ Consistent(sched') /\ IdleOK(sched')
          /\ sched'.panic = sched.panic
          /\ \A u \in Tasks \ {idle_thread}, x \in Parked :
               sched'.stat[u] = x <=> IF u = sched.cur THEN "BLOCKED" = x
                                                       ELSE sched.stat[u] = x
      BY <1>1, <3>1, BlockLemma
    <3>3. SameSleepers(sched, sched')
      BY <1>2, <3>2 DEF SameSleepers
    <3> QED BY <1>2, <3>2, <3>3
  <2>2. CASE IdleHlt
    <3>1. sched' = sched
      BY <2>2 DEF IdleHlt
    <3>2. SameSleepers(sched, sched)
      BY DEF SameSleepers
    <3> QED BY <1>1, <1>2, <3>1, <3>2
  <2> QED BY <2>1, <2>2
<1>5. nap' \in [Tasks -> [left: Nat, ticked: BOOLEAN]]
  BY <1>1, <1>2
<1> QED BY <1>2, <1>3, <1>4, <1>5, SchedStep

\* The controller gets on with the command of the holder.
LEMMA ControllerStep ==
  ASSUME IInv, DevReady
  PROVE  IInv'
<1>1. /\ dev.st \in Busy /\ irq' = (irq \/ dev.st # "starting")
      /\ UNCHANGED <<sched, ifl, req, nap, pc, lk, holder, disk_done, expecting_intr>>
  BY DEF DevReady, Driver
<1>2. PICK s \in DevStates :
         /\ dev' = [dev EXCEPT !.st = s]
         /\ dev.st = "reading" => s = "in"
         /\ dev.st = "starting" => s = "out"
         /\ dev.st = "writing" => s = "idle"
  BY DEF DevReady, Busy, DevStates
<1>3. /\ dev \in [st: DevStates, by: Tasks \cup {NULL}, mode: Modes]
      /\ irq \in BOOLEAN /\ dev.st # "idle"
  BY <1>1 DEF IInv, TypeOK, Busy
<1>4. /\ dev' \in [st: DevStates, by: Tasks \cup {NULL}, mode: Modes]
      /\ dev'.st = s /\ dev'.by = dev.by /\ dev'.mode = dev.mode
      /\ irq' \in BOOLEAN
  BY <1>1, <1>2, <1>3
<1>5. TypeOK'
  BY <1>1, <1>4 DEF IInv, TypeOK
<1>6. SchedInv' /\ PcInv' /\ ReqInv' /\ LockInv' /\ GaveUp'
  BY <1>1, <1>4 DEF IInv, SchedInv, PcInv, ReqInv, LockInv, GaveUp
<1>7. QueueInv'
  BY <1>1 DEF IInv, QueueInv
<1>8. holder # NULL /\ dev.by = holder
  BY <1>3 DEF IInv, DevInv
<1>9. PICK h \in Threads : h = holder
  BY <1>8 DEF IInv, TypeOK, LockInv, Threads
<1>10. pc[h] \in Inside
  BY <1>9 DEF IInv, LockInv
<1>11. DevAt(pc[h], req[h].op) /\ req[h].op \in {"read", "write"}
  BY <1>10, HolderLemma
<1>12. /\ dev.st = "reading" => /\ req[h].op = "read" /\ pc[h] \in {"wait", "poll", "nap"}
                                /\ expecting_intr => pc[h] = "wait"
       /\ dev.st = "starting" => req[h].op = "write" /\ pc[h] \in {"poll", "nap"}
       /\ dev.st = "writing" => req[h].op = "write" /\ pc[h] = "wait" /\ expecting_intr
  BY <1>1, <1>10, <1>11 DEF DevAt, Dev, Inside, Busy
<1>13. DevInv'
  <2>1. DevAt(pc[h], req[h].op)'
    BY <1>1, <1>2, <1>4, <1>10, <1>11, <1>12 DEF DevAt, Dev, Inside, Busy
  <2>2. DevAt(pc[holder], req[holder].op)'
    BY <1>9, <1>1, <2>1 DEF DevAt, Dev
  <2> QED BY <1>1, <1>4, <1>8, <2>2 DEF DevInv
<1>14. IrqInv'
  <2>1. dev.mode # "stale" =>
          /\ irq => dev.st \in {"in", "idle"}
          /\ dev.st = "reading" => expecting_intr
    BY DEF IInv, IrqInv
  <2> QED BY <1>1, <1>2, <1>4, <1>8, <1>9, <1>12, <2>1 DEF IrqInv, Busy
<1> QED BY <1>5, <1>6, <1>7, <1>13, <1>14 DEF IInv

-----------------------------------------------------------------------------

\* Every step keeps the invariant.
LEMMA NextIInv == ReadsIfStale /\ IInv /\ [Next]_vars => IInv'
<1> SUFFICES ASSUME ReadsIfStale, IInv, [Next]_vars PROVE IInv'
  OBVIOUS
<1>1. ASSUME NEW t \in Threads, Call(t) \/ DriverCode(t) PROVE IInv'
  <2>1. CASE AcquireChannel(t)
    BY <2>1, AcquireStep, LockSleepStep
  <2>2. CASE WaitDone(t)
    BY <2>2, DoneStep, DoneSleepStep
  <2>3. CASE Next_or_release(t)
    BY <2>3, LoopStep, ReleaseStep
  <2> QED BY <1>1, <2>1, <2>2, <2>3, CallStep, CommandStep, BusyWaitStep, NapStep,
             TransferStep DEF DriverCode
<1>2. CASE UNCHANGED vars
  BY <1>2 DEF vars, IInv, TypeOK, SchedInv, PcInv, ReqInv, LockInv, QueueInv,
              DevInv, DevAt, Dev, IrqInv, GaveUp
<1>3. intr_hd_hdl \/ Timer \/ IdleBlock \/ IdleHlt \/ DevReady => IInv'
  BY HandlerStep, TimerStep, IdleStep, ControllerStep
<1> QED BY <1>1, <1>2, <1>3 DEF Next

\* The inductive invariant holds in every reachable state, whatever the
\* threads ask for and whatever the controller does.
THEOREM DriverInvariant == ReadsIfStale => (Spec => []IInv)
<1> SUFFICES ASSUME ReadsIfStale PROVE Spec => []IInv
  OBVIOUS
<1>1. IInv /\ [Next]_vars => IInv'
  BY NextIInv
<1> QED BY <1>1, InitIInv, PTL DEF Spec

\* A thread asleep on disk_done has an expected interrupt to come, so no
\* order of the command, its interrupt and sema_down loses the wakeup.
THEOREM DoneNotLostTheorem == ReadsIfStale => (Spec => []DoneNotLost)
<1>1. IInv => DoneNotLost
  <2> SUFFICES ASSUME IInv, NEW t \in Threads, elem_find(disk_done.waiters, t)
               PROVE  expecting_intr /\ (irq \/ dev.st \in Busy)
    BY DEF DoneNotLost
  <2>1. pc[t] = "wait" /\ disk_done.value = 0
    BY DEF IInv, QueueInv, Threads
  <2>2. DevAt(pc[t], req[t].op) /\ req[t].op \in {"read", "write"}
    BY <2>1, HolderLemma DEF Inside
  <2> QED BY <2>1, <2>2 DEF DevAt, Dev, Busy
<1> QED BY <1>1, DriverInvariant, PTL

\* A command never reaches a controller that is still at work, and no request
\* returns before the disk is done with it.
THEOREM NoOverrunTheorem == ReadsIfStale => (Spec => []NoOverrun)
<1>1. IInv => NoOverrun
  <2> SUFFICES ASSUME IInv, dev.st # "idle"
               PROVE  holder = dev.by /\ holder # NULL /\ pc[holder] \notin {"cmd", "next"}
    BY DEF NoOverrun
  <2> QED BY DEF IInv, DevInv, DevAt, Dev
<1> QED BY <1>1, DriverInvariant, PTL

\* Every insw and outsw moves the data of the caller's own command.
THEOREM RightDataTheorem == ReadsIfStale => (Spec => []RightData)
<1>1. IInv => RightData
  <2> SUFFICES ASSUME IInv, NEW t \in Threads, pc[t] = "io"
               PROVE  dev.by = t /\ dev.st = IF req[t].op = "read" THEN "in" ELSE "out"
    BY DEF RightData
  <2>1. /\ DevAt(pc[t], req[t].op) /\ req[t].op \in {"read", "write"}
        /\ dev.st # "idle" => dev.by = t
    BY HolderLemma DEF Inside
  <2> QED BY <2>1 DEF DevAt, Dev
<1> QED BY <1>1, DriverInvariant, PTL

\* When the channel is free no post of disk_done is left over, and no
\* interrupt is expected.
THEOREM NoLeftoverTheorem == ReadsIfStale => (Spec => []NoLeftover)
<1>1. IInv => NoLeftover
  BY DEF IInv, DevInv, DevAt, Dev, NoLeftover
<1> QED BY <1>1, DriverInvariant, PTL

\* No ASSERT of the driver or of the scheduler under it fails, except that a
\* caller of busy_wait panics when it has run out of turns.
THEOREM OnlyGivesUp == ReadsIfStale => (Spec => []GaveUp)
<1>1. IInv => GaveUp
  BY DEF IInv
<1> QED BY <1>1, DriverInvariant, PTL
=============================================================================
