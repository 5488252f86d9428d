----------------------------- MODULE QueueProofs -----------------------------
(***************************************************************************)
(* The queue of device/ioqueue.c, for any number of tasks, any size of the *)
(* buffer and any program that makes the requests: every step of the       *)
(* queue, of the clock and of the idle thread keeps the slots, the lock    *)
(* and the scheduler in agreement.  Then the two programs that use it:     *)
(* pipe/pipe.c, whose producers and consumers are processes in a system    *)
(* call, and device/keyboard.c, whose producer is an interrupt handler     *)
(* that never sleeps.                                                      *)
(*                                                                         *)
(* SlotsOwned is not inductive: that wakeup finds a task that sleeps       *)
(* depends on the other slot being empty, and that ioq_wait finds its slot *)
(* empty on the lock being free exactly when nobody is back from a sleep   *)
(* and yet to release it.  QInv ties pc, the slots and the lock together.  *)
(*                                                                         *)
(* A pipe, for any number of readers and writers, any size of the buffer   *)
(* and any bound on count: the slots of the queue are never confused, a    *)
(* read never sleeps and a write at most for its last character, and the   *)
(* characters come out once and in order.  ShortWait is not inductive:     *)
(* that a reader finds a character for each that it asked for depends on   *)
(* nobody else running between the length it read and its last             *)
(* ioq_getchar.  CallInv says so: the call that is moving characters is    *)
(* the running thread's, and what it has left fits.                        *)
(*                                                                         *)
(* The keyboard, for any set of keys, any number of readers and any size   *)
(* of the buffer: no control key sticks, the character that is typed goes  *)
(* in, and comes out once and in order, and the slots are never confused.  *)
(* NoStuckKey speaks of the moments when the wire is empty.  KeyInv says   *)
(* what holds in between: the wire carries the code of one key, whole or   *)
(* without the prefix that has been read, and a key that is on its way up  *)
(* still counts as held.  TypedChar is about the step that puts a          *)
(* character into kbd_buf.  TypedInv gives for every moment the keys that  *)
(* the statuses stand for: those that are down, without the one that is    *)
(* being pressed and with the one that is being released.                  *)
(***************************************************************************)
EXTENDS Pipe, Keyboard, SchedProofs, SequenceTheorems

CallPC == {"user", "get", "put", "lock", "slot"}
IdlePC == {"loop", "sti", "hlt"}

QTypes ==
  /\ sched \in SchedState
  /\ pc \in [Tasks -> CallPC \cup IdlePC]
  /\ role \in [Tasks -> {"get", "put"}]
  /\ ioq \in ioqueue

\* The scheduler's part: nobody sleeps in a state the queue never asks for.
SchedInv ==
  /\ Consistent(sched) /\ IdleOK(sched)
  /\ ~sched.panic
  /\ \A t \in Threads : sched.stat[t] \notin {"HANGING", "WAITING", "DIED"}

PcInv ==
  /\ \A t \in Threads : pc[t] \in CallPC
  /\ pc[idle_thread] \in IdlePC

\* The holder of the lock is the one task at or behind ioq_wait.
HolderInv ==
  /\ ioq.lock.value = 0 <=> ioq.holder # NULL
  /\ \A t \in Threads : ioq.holder = t <=> pc[t] = "slot"
  /\ ioq.holder # idle_thread

\* One slot is taken at a time, by the holder.
SlotInv ==
  /\ ioq.producer = NULL \/ ioq.consumer = NULL
  /\ ioq.producer \in {NULL, ioq.holder}
  /\ ioq.consumer \in {NULL, ioq.holder}

\* A thread is blocked exactly when a slot or the lock's queue leads to it.
WaitInv ==
  /\ NoDup(ioq.lock.waiters)
  /\ \A t \in Tasks : elem_find(ioq.lock.waiters, t) => t \in Threads /\ pc[t] = "lock"
  /\ \A t \in Threads : sched.stat[t] = "BLOCKED" <=>
       t \in {ioq.producer, ioq.consumer} \/ elem_find(ioq.lock.waiters, t)

QInv == QTypes /\ SchedInv /\ PcInv /\ HolderInv /\ SlotInv /\ WaitInv

-----------------------------------------------------------------------------
(* The ring buffer *)

\* The types of the queue's parts.
LEMMA QueueTypes ==
  ASSUME NEW q \in ioqueue
  PROVE  /\ q.lock \in Semaphore /\ q.lock.value \in {0, 1}
         /\ q.lock.waiters \in Seq(Tasks)
         /\ q.holder \in Tasks \cup {NULL}
         /\ q.producer \in Tasks \cup {NULL} /\ q.consumer \in Tasks \cup {NULL}
         /\ q.buf \in [0..bufsize - 1 -> Chars \cup {NULL}]
         /\ q.head \in 0..bufsize - 1 /\ q.tail \in 0..bufsize - 1
BY DEF ioqueue, Semaphore

\* next_pos is the next cell of the ring.
LEMMA NextPos ==
  ASSUME NEW pos \in 0..bufsize - 1
  PROVE  /\ next_pos(pos) \in 0..bufsize - 1
         /\ next_pos(pos) = IF pos = bufsize - 1 THEN 0 ELSE pos + 1
<1>1. bufsize \in Nat /\ bufsize >= 2 /\ pos + 1 \in Nat
  BY IoQueueAssumption
<1>2. CASE pos = bufsize - 1
  <2>1. bufsize % bufsize = 0
    BY <1>1
  <2> QED BY <1>1, <1>2, <2>1 DEF next_pos
<1>3. CASE pos # bufsize - 1
  <2>1. pos + 1 \in 0..bufsize - 1
    BY <1>1, <1>3
  <2>2. (pos + 1) % bufsize = pos + 1
    BY <1>1, <2>1
  <2> QED BY <1>3, <2>1, <2>2 DEF next_pos
<1> QED BY <1>2, <1>3

\* ioq_length counts the characters, and a full ring has one cell empty.
LEMMA LengthLemma ==
  ASSUME NEW q \in ioqueue
  PROVE  /\ ioq_length(q) \in 0..bufsize - 1
         /\ ioq_empty(q) <=> ioq_length(q) = 0
         /\ ioq_full(q) <=> ioq_length(q) = bufsize - 1
<1>1. /\ q.head \in 0..bufsize - 1 /\ q.tail \in 0..bufsize - 1
      /\ bufsize \in Nat /\ bufsize >= 2
  BY QueueTypes, IoQueueAssumption
<1>2. next_pos(q.head) = IF q.head = bufsize - 1 THEN 0 ELSE q.head + 1
  BY <1>1, NextPos
<1> QED BY <1>1, <1>2 DEF ioq_length, ioq_empty, ioq_full

\* The fields of the queue that are not the buffer's.
SameSlots(q) ==
  /\ q.lock = ioq.lock /\ q.holder = ioq.holder
  /\ q.producer = ioq.producer /\ q.consumer = ioq.consumer

\* A character that goes in makes the ring one longer and moves no slot.
LEMMA StoreLemma ==
  ASSUME ioq \in ioqueue, NEW byte \in Chars
  PROVE  LET q == Store(ioq, byte)
         IN  /\ q \in ioqueue /\ SameSlots(q)
             /\ q.head = next_pos(ioq.head) /\ q.tail = ioq.tail
             /\ q.buf = [ioq.buf EXCEPT ![ioq.head] = byte]
<1>1. /\ ioq.head \in 0..bufsize - 1 /\ next_pos(ioq.head) \in 0..bufsize - 1
      /\ ioq.buf \in [0..bufsize - 1 -> Chars \cup {NULL}]
  BY QueueTypes, NextPos
<1> QED BY <1>1 DEF Store, ioqueue, SameSlots

\* A character that comes out makes it one shorter and moves no slot.
LEMMA FetchLemma ==
  ASSUME ioq \in ioqueue
  PROVE  LET q == Fetch(ioq)
         IN  /\ q \in ioqueue /\ SameSlots(q)
             /\ q.head = ioq.head /\ q.tail = next_pos(ioq.tail)
             /\ q.buf = ioq.buf
<1>1. ioq.tail \in 0..bufsize - 1 /\ next_pos(ioq.tail) \in 0..bufsize - 1
  BY QueueTypes, NextPos
<1> QED BY <1>1 DEF Fetch, ioqueue, SameSlots

-----------------------------------------------------------------------------
(* The boot state and the steps that move no character *)

\* thread_init and ioqueue_init: nobody is blocked, the lock is free.
LEMMA InitQInv == QInit => QInv
<1> SUFFICES ASSUME QInit PROVE QInv
  OBVIOUS
<1>1. /\ boot \in Seq(Tasks) /\ boot # <<>> /\ NoDup(boot)
      /\ \A t \in Tasks : elem_find(boot, t)
  <2>1. boot # <<>>
    BY SchedAssumption, IoQueueAssumption DEF elem_find
  <2> QED BY <2>1, IoQueueAssumption
<1>2. /\ Head(boot) \in Tasks /\ Tail(boot) \in Seq(Tasks) /\ NoDup(Tail(boot))
      /\ \A t \in Tasks : elem_find(Tail(boot), t) <=> t # Head(boot)
  BY <1>1, PopLemma DEF list_pop
<1>3. /\ sched.cur = Head(boot) /\ sched.ready = Tail(boot) /\ ~sched.panic
      /\ \A t \in Tasks : sched.stat[t] = IF t = Head(boot) THEN "RUNNING" ELSE "READY"
  BY DEF QInit
<1>4. sched \in SchedState
  BY <1>2, SchedAssumption DEF QInit, SchedState, task_stat
<1>5. SchedInv
  BY <1>2, <1>3, SchedAssumption DEF SchedInv, Consistent, IdleOK, Threads
<1>6. PcInv
  BY SchedAssumption DEF QInit, PcInv, CallPC, IdlePC, Threads
<1>7. /\ ioq.lock.value = 1 /\ ioq.lock.waiters = <<>> /\ ioq.lock \in Semaphore
      /\ ioq.holder = NULL /\ ioq.producer = NULL /\ ioq.consumer = NULL
  BY DEF QInit, ioqueue_init, sema_init, Semaphore
<1>8. \A t \in Tasks : t # NULL
  BY IoQueueAssumption
<1>9. HolderInv /\ SlotInv
  BY <1>7, <1>8, SchedAssumption DEF QInit, HolderInv, SlotInv, Threads
<1>10. WaitInv
  <2>1. (\A t : ~elem_find(ioq.lock.waiters, t)) /\ NoDup(ioq.lock.waiters)
    BY <1>7 DEF elem_find, NoDup
  <2> QED BY <1>3, <1>7, <1>8, <2>1 DEF WaitInv, Threads
<1>11. ioq \in ioqueue
  BY <1>7, IoQueueAssumption DEF QInit, ioqueue_init, ioqueue
<1>12. QTypes
  BY <1>4, <1>11 DEF QInit, QTypes, CallPC, IdlePC
<1> QED BY <1>5, <1>6, <1>9, <1>10, <1>12 DEF QInv

\* A step of the scheduler alone: the processor changes hands, or a tick is
\* counted, and every thread stays where it stands.
LEMMA SwitchStep ==
  ASSUME QInv,
         sched' \in SchedState, Consistent(sched'), IdleOK(sched'), ~sched'.panic,
         SameSleepers(sched, sched'),
         pc' \in [Tasks -> CallPC \cup IdlePC], pc'[idle_thread] \in IdlePC,
         \A t \in Threads : pc'[t] = pc[t],
         UNCHANGED <<role, ioq>>
  PROVE  QInv'
<1>1. \A t \in Threads, x \in Parked : sched'.stat[t] = x <=> sched.stat[t] = x
  BY DEF SameSleepers, Threads
<1>2. QTypes'
  BY DEF QInv, QTypes
<1>3. SchedInv'
  BY <1>1 DEF QInv, SchedInv, Parked, Asleep
<1>4. PcInv' /\ HolderInv' /\ SlotInv'
  BY DEF QInv, PcInv, HolderInv, SlotInv
<1>5. WaitInv'
  BY <1>1 DEF QInv, WaitInv, Parked, Asleep
<1> QED BY <1>2, <1>3, <1>4, <1>5 DEF QInv

\* The thread on the processor is not blocked, so no list and no slot holds it.
LEMMA RunnerLemma ==
  ASSUME QInv, NEW t \in Threads, sched.cur = t
  PROVE  /\ sched.stat[t] = "RUNNING"
         /\ ~elem_find(ioq.lock.waiters, t)
         /\ ioq.producer # t /\ ioq.consumer # t
         /\ t # idle_thread /\ t # NULL /\ t \in Tasks
BY IoQueueAssumption DEF QInv, SchedInv, WaitInv, Consistent, Threads

\* Where a thread may go by itself, ahead of ioq_wait.
Ahead == CallPC \ {"slot"}

\* Every thread stays, except that the running one moves ahead of ioq_wait; an
\* interrupt moves nobody but the idle thread.
Moves ==
  /\ pc' \in [Tasks -> CallPC \cup IdlePC] /\ pc'[idle_thread] \in IdlePC
  /\ \A t \in Threads : pc'[t] = pc[t] \/ (sched.cur = t /\ {pc[t], pc'[t]} \subseteq Ahead)

\* A thread's own move is one.
LEMMA GotoLemma ==
  ASSUME QInv, NEW t \in Threads, sched.cur = t,
         NEW l \in Ahead, pc[t] \in Ahead, Goto(t, l)
  PROVE  Moves
<1>1. /\ t \in Tasks /\ t # idle_thread /\ idle_thread \in Tasks
      /\ pc \in [Tasks -> CallPC \cup IdlePC] /\ pc[idle_thread] \in IdlePC
      /\ pc' = [pc EXCEPT ![t] = l]
  BY SchedAssumption DEF QInv, QTypes, PcInv, Threads, Goto
<1>2. pc'[t] = l /\ \A u \in Tasks \ {t} : pc'[u] = pc[u]
  BY <1>1
<1>3. pc' \in [Tasks -> CallPC \cup IdlePC]
  BY <1>1 DEF Ahead
<1> QED BY <1>1, <1>2, <1>3 DEF Moves, Threads

\* So is what an interrupt does: it takes the idle thread out of its hlt.
LEMMA EndHltLemma ==
  ASSUME QInv, EndHlt
  PROVE  Moves /\ \A t \in Threads : pc'[t] = pc[t]
<1>1. /\ sched.cur \in Tasks /\ idle_thread \in Tasks
      /\ pc \in [Tasks -> CallPC \cup IdlePC] /\ pc[idle_thread] \in IdlePC
      /\ \A t \in Threads : pc[t] \in CallPC
      /\ pc' = [pc EXCEPT ![sched.cur] = IF @ = "hlt" THEN "loop" ELSE @]
  BY SchedAssumption DEF QInv, QTypes, SchedState, PcInv, EndHlt
<1>2. \A t \in Tasks : pc'[t] = IF t = sched.cur /\ pc[t] = "hlt" THEN "loop" ELSE pc[t]
  BY <1>1
<1>3. \A t \in Threads : t \in Tasks /\ pc[t] # "hlt"
  BY <1>1 DEF CallPC, Threads
<1>4. pc' \in [Tasks -> CallPC \cup IdlePC]
  BY <1>1 DEF IdlePC
<1> QED BY <1>1, <1>2, <1>3, <1>4 DEF Moves, IdlePC

\* A step that leaves the scheduler, the slots and the lock alone.
LEMMA MoveStep ==
  ASSUME QInv, Moves, sched' = sched, ioq' \in ioqueue, SameSlots(ioq'),
         role' \in [Tasks -> {"get", "put"}]
  PROVE  QInv'
<1>1. QTypes' /\ SchedInv'
  BY DEF QInv, QTypes, SchedInv, Moves
<1>2. PcInv' /\ HolderInv' /\ SlotInv'
  BY DEF QInv, PcInv, HolderInv, SlotInv, Moves, SameSlots, Ahead
<1>3. WaitInv'
  <2>1. ASSUME NEW t \in Tasks, elem_find(ioq.lock.waiters, t)
        PROVE  t \in Threads /\ pc'[t] = "lock"
    <3>1. t \in Threads /\ pc[t] = "lock"
      BY <2>1 DEF QInv, WaitInv
    <3>2. sched.cur # t
      BY <2>1, <3>1, RunnerLemma
    <3> QED BY <3>1, <3>2 DEF Moves
  <2> QED BY <2>1 DEF QInv, WaitInv, SameSlots
<1> QED BY <1>1, <1>2, <1>3 DEF QInv

-----------------------------------------------------------------------------
(* The steps that wake and the steps that sleep *)

\* wakeup finds a thread that sleeps, and empties the slot it sleeps in: a
\* character went in or out of q, which has the slots of ioq.
LEMMA WakeStep ==
  ASSUME QInv, Moves, NEW slot \in Slots,
         NEW q \in ioqueue, SameSlots(q),
         sched' = WakeSlot(sched, ioq, slot), ioq' = wakeup(q, slot),
         role' \in [Tasks -> {"get", "put"}]
  PROVE  QInv'
<1>1. /\ ioq' \in ioqueue /\ ioq'.lock = ioq.lock /\ ioq'.holder = ioq.holder
      /\ ioq'.producer = IF slot = "producer" THEN NULL ELSE ioq.producer
      /\ ioq'.consumer = IF slot = "consumer" THEN NULL ELSE ioq.consumer
      /\ ioq'.head = q.head /\ ioq'.tail = q.tail /\ ioq'.buf = q.buf
  <2>1. CASE slot = "producer"
    BY <2>1 DEF wakeup, ioqueue, SameSlots
  <2>2. CASE slot = "consumer"
    BY <2>2 DEF wakeup, ioqueue, SameSlots
  <2> QED BY <2>1, <2>2 DEF Slots
<1>2. CASE ioq[slot] = NULL
  <2>1. sched' = sched
    BY <1>2 DEF WakeSlot
  <2>2. SameSlots(ioq')
    BY <1>1, <1>2 DEF SameSlots, Slots
  <2> QED BY <1>1, <2>1, <2>2, MoveStep
<1>3. CASE ioq[slot] # NULL
  <2> DEFINE w == ioq[slot]
  <2>1. /\ w = ioq.holder /\ w # NULL
        /\ slot = "producer" => w = ioq.producer /\ ioq.consumer = NULL
        /\ slot = "consumer" => w = ioq.consumer /\ ioq.producer = NULL
    BY <1>3 DEF QInv, SlotInv, Slots
  <2>2. w \in Threads
    <3>1. ioq.holder \in Tasks \cup {NULL}
      BY QueueTypes DEF QInv, QTypes
    <3> QED BY <2>1, <3>1 DEF QInv, HolderInv, Threads
  <2>3. sched.stat[w] = "BLOCKED" /\ pc[w] = "slot"
    BY <2>1, <2>2 DEF QInv, WaitInv, HolderInv, Slots
  <2>4. ~elem_find(ioq.lock.waiters, w)
    BY <2>2, <2>3 DEF QInv, WaitInv, Threads
  <2>5. sched' = thread_unblock(sched, w)
    BY <1>3 DEF WakeSlot
  <2> HIDE DEF w
  <2>6. /\ sched' \in SchedState /\ Consistent(sched') /\ IdleOK(sched')
        /\ sched'.panic = sched.panic
        /\ \A u \in Tasks :
             sched'.stat[u] = IF u = w THEN "READY" ELSE sched.stat[u]
    <3>1. w \in Tasks \ {idle_thread} /\ sched.stat[w] \in Asleep
      BY <2>2, <2>3 DEF Threads, Asleep
    <3>2. sched \in SchedState /\ Consistent(sched) /\ IdleOK(sched)
      BY DEF QInv, QTypes, SchedInv
    <3> QED BY <2>5, <3>1, <3>2, WakeLemma
  <2>7. QTypes' /\ SchedInv'
    BY <1>1, <2>6 DEF QInv, QTypes, SchedInv, Moves, Threads
  <2>8. PcInv' /\ HolderInv'
    BY <1>1 DEF QInv, PcInv, HolderInv, Moves, Ahead
  <2>9. SlotInv'
    BY <1>1 DEF QInv, SlotInv
  <2>10. WaitInv'
    <3>1. ASSUME NEW t \in Tasks, elem_find(ioq.lock.waiters, t)
          PROVE  t \in Threads /\ pc'[t] = "lock"
      <4>1. t \in Threads /\ pc[t] = "lock"
        BY <3>1 DEF QInv, WaitInv
      <4>2. sched.cur # t
        BY <3>1, <4>1, RunnerLemma
      <4> QED BY <4>1, <4>2 DEF Moves
    <3>2. \A t \in Threads : sched'.stat[t] = "BLOCKED"
                               <=> t # w /\ sched.stat[t] = "BLOCKED"
      BY <2>6 DEF Threads
    <3>3. \A t \in Threads : t # NULL
      BY IoQueueAssumption DEF Threads
    <3>4. {ioq'.producer, ioq'.consumer} = {NULL}
      BY <1>1, <2>1 DEF Slots
    <3>5. \A t \in Threads : t \in {ioq.producer, ioq.consumer} <=> t = w
      BY <2>1, <3>3 DEF Slots
    <3>6. \A t \in Threads : sched'.stat[t] = "BLOCKED"
                               <=> elem_find(ioq'.lock.waiters, t)
      BY <1>1, <2>4, <3>2, <3>5 DEF QInv, WaitInv
    <3> QED BY <1>1, <3>1, <3>3, <3>4, <3>6 DEF QInv, WaitInv
  <2> QED BY <2>7, <2>8, <2>9, <2>10 DEF QInv
<1> QED BY <1>2, <1>3

\* PutByte, in a system call or in an interrupt handler.
LEMMA PutStep ==
  ASSUME QInv, Moves, NEW byte \in Chars, PutByte(sched, ioq, byte),
         role' \in [Tasks -> {"get", "put"}]
  PROVE  QInv'
<1>1. Store(ioq, byte) \in ioqueue /\ SameSlots(Store(ioq, byte))
  BY StoreLemma DEF QInv, QTypes
<1>2. "consumer" \in Slots
  BY DEF Slots
<1> QED BY <1>1, <1>2, WakeStep DEF PutByte

LEMMA GetStep ==
  ASSUME QInv, Moves, GetByte(sched, ioq), role' \in [Tasks -> {"get", "put"}]
  PROVE  QInv'
<1>1. Fetch(ioq) \in ioqueue /\ SameSlots(Fetch(ioq))
  BY FetchLemma DEF QInv, QTypes
<1>2. "producer" \in Slots
  BY DEF Slots
<1> QED BY <1>1, <1>2, WakeStep DEF GetByte

\* thread_block of the running thread, as every sleep of the queue uses it.
LEMMA BlockSelf ==
  ASSUME QInv, NEW t \in Threads, sched.cur = t,
         sched' = thread_block(sched, "BLOCKED")
  PROVE  /\ sched' \in SchedState /\ SchedInv'
         /\ \A u \in Threads : sched'.stat[u] = "BLOCKED"
                                 <=> u = t \/ sched.stat[u] = "BLOCKED"
<1>1. sched \in SchedState /\ Consistent(sched) /\ IdleOK(sched) /\ ~sched.panic
  BY DEF QInv, QTypes, SchedInv
<1>2. /\ sched' \in SchedState /\ Consistent(sched') /\ IdleOK(sched')
      /\ sched'.panic = sched.panic
      /\ \A u \in Tasks \ {idle_thread}, x \in Parked :
           sched'.stat[u] = x <=> IF u = t THEN "BLOCKED" = x ELSE sched.stat[u] = x
  <2>1. "BLOCKED" \in Asleep BY DEF Asleep
  <2> QED BY <1>1, <2>1, BlockLemma
<1>3. SchedInv'
  BY <1>1, <1>2 DEF QInv, SchedInv, Parked, Asleep, Threads
<1>4. \A u \in Threads : sched'.stat[u] = "BLOCKED"
                           <=> u = t \/ sched.stat[u] = "BLOCKED"
  BY <1>2 DEF Parked, Asleep, Threads
<1> QED BY <1>2, <1>3, <1>4

\* lock_acquire while a task in a slot holds the lock.
LEMMA SleepStep ==
  ASSUME QInv, NEW t \in Threads, LockAndWait(t), ioq.lock.value = 0
  PROVE  QInv'
<1>1. /\ sched.cur = t /\ pc[t] = "lock" /\ UNCHANGED <<pc, role>>
      /\ sched' = SemaSleep(sched, ioq.lock)
      /\ ioq' = [ioq EXCEPT !.lock = SemaEnqueue(sched, ioq.lock)]
  BY DEF LockAndWait, Exec
<1>2. /\ ~elem_find(ioq.lock.waiters, t) /\ t \in Tasks
      /\ ioq.producer # t /\ ioq.consumer # t
  BY <1>1, RunnerLemma
<1>3. sched' = thread_block(sched, "BLOCKED")
  BY <1>1, <1>2 DEF SemaSleep, Check
<1>4. /\ sched' \in SchedState /\ SchedInv'
      /\ \A u \in Threads : sched'.stat[u] = "BLOCKED"
                              <=> u = t \/ sched.stat[u] = "BLOCKED"
  BY <1>1, <1>3, BlockSelf
<1> DEFINE ws == ioq.lock.waiters
<1>5. ws \in Seq(Tasks) /\ NoDup(ws) /\ ioq.lock \in Semaphore /\ ioq \in ioqueue
  BY QueueTypes DEF QInv, QTypes, WaitInv
<1>6. /\ list_append(ws, t) \in Seq(Tasks) /\ NoDup(list_append(ws, t))
      /\ \A u : elem_find(list_append(ws, t), u) <=> elem_find(ws, u) \/ u = t
  <2>1. ~elem_find(ws, t) BY <1>2
  <2> HIDE DEF ws
  <2> QED BY <1>2, <1>5, <2>1, AppendLemma
<1>7. /\ ioq' \in ioqueue /\ ioq'.lock.waiters = list_append(ws, t)
      /\ ioq'.lock.value = ioq.lock.value /\ ioq'.holder = ioq.holder
      /\ ioq'.producer = ioq.producer /\ ioq'.consumer = ioq.consumer
  <2> DEFINE k == SemaEnqueue(sched, ioq.lock)
  <2>1. k = [ioq.lock EXCEPT !.waiters = list_append(ws, t)]
    BY <1>1 DEF SemaEnqueue
  <2>2. k \in Semaphore /\ k.waiters = list_append(ws, t) /\ k.value = ioq.lock.value
    BY <1>5, <1>6, <2>1 DEF Semaphore
  <2> HIDE DEF k
  <2>3. ioq' = [ioq EXCEPT !.lock = k]
    BY <1>1 DEF k
  <2> QED BY <1>5, <2>2, <2>3 DEF ioqueue
<1> HIDE DEF ws
<1>8. QTypes' /\ PcInv' /\ HolderInv' /\ SlotInv'
  BY <1>1, <1>4, <1>7 DEF QInv, QTypes, PcInv, HolderInv, SlotInv
<1>9. WaitInv'
  BY <1>1, <1>4, <1>6, <1>7 DEF QInv, WaitInv, ws
<1> QED BY <1>4, <1>8, <1>9 DEF QInv

\* lock_acquire of the free lock, and ioq_wait: its ASSERT finds the slot empty.
LEMMA WaitStep ==
  ASSUME QInv, NEW t \in Threads, LockAndWait(t), ioq.lock.value # 0
  PROVE  QInv'
<1>1. /\ sched.cur = t /\ pc[t] = "lock"
      /\ pc' = [pc EXCEPT ![t] = "slot"] /\ role' = role
      /\ sched' = thread_block(Check(sched, ioq[SlotOf(t)] = NULL), "BLOCKED")
      /\ ioq' = [ioq EXCEPT !.lock = SemaTake(ioq.lock), !.holder = t,
                            ![SlotOf(t)] = t]
  BY DEF LockAndWait, Exec, Goto
<1>2. /\ ~elem_find(ioq.lock.waiters, t) /\ t \in Tasks /\ t # NULL
      /\ t # idle_thread
  BY <1>1, RunnerLemma
<1>3. /\ ioq.holder = NULL /\ ioq.producer = NULL /\ ioq.consumer = NULL
      /\ \A u \in Threads : pc[u] # "slot"
  <2>1. \A u \in Threads : u # NULL
    BY IoQueueAssumption DEF Threads
  <2> QED BY <2>1 DEF QInv, HolderInv, SlotInv
<1>4. SlotOf(t) \in Slots /\ ioq[SlotOf(t)] = NULL
  BY <1>3 DEF SlotOf, Slots
<1>5. sched' = thread_block(sched, "BLOCKED")
  BY <1>1, <1>4 DEF Check
<1>6. /\ sched' \in SchedState /\ SchedInv'
      /\ \A u \in Threads : sched'.stat[u] = "BLOCKED"
                              <=> u = t \/ sched.stat[u] = "BLOCKED"
  BY <1>1, <1>5, BlockSelf
<1>7. /\ ioq' \in ioqueue /\ ioq'.lock.waiters = ioq.lock.waiters
      /\ ioq'.lock.value = 0 /\ ioq'.holder = t
      /\ {ioq'.producer, ioq'.consumer} = {NULL, t}
  <2> DEFINE k == SemaTake(ioq.lock)
  <2>1. ioq.lock \in Semaphore /\ ioq.lock.value = 1 /\ ioq \in ioqueue
    BY QueueTypes DEF QInv, QTypes
  <2>2. k \in Semaphore /\ k.value = 0 /\ k.waiters = ioq.lock.waiters
    BY <2>1 DEF SemaTake, Semaphore
  <2> HIDE DEF k
  <2>3. CASE SlotOf(t) = "producer"
    <3>1. ioq' = [ioq EXCEPT !.lock = k, !.holder = t, !.producer = t]
      BY <1>1, <2>3 DEF k
    <3> QED BY <1>2, <1>3, <2>1, <2>2, <3>1 DEF ioqueue
  <2>4. CASE SlotOf(t) = "consumer"
    <3>1. ioq' = [ioq EXCEPT !.lock = k, !.holder = t, !.consumer = t]
      BY <1>1, <2>4 DEF k
    <3> QED BY <1>2, <1>3, <2>1, <2>2, <3>1 DEF ioqueue
  <2> QED BY <1>4, <2>3, <2>4 DEF Slots
<1>8. /\ pc \in [Tasks -> CallPC \cup IdlePC] /\ pc' \in [Tasks -> CallPC \cup IdlePC]
      /\ pc'[t] = "slot" /\ \A u \in Tasks \ {t} : pc'[u] = pc[u]
  <2>1. pc \in [Tasks -> CallPC \cup IdlePC]
    BY DEF QInv, QTypes
  <2> QED BY <1>1, <1>2, <2>1 DEF CallPC
<1>9. QTypes'
  BY <1>1, <1>6, <1>7, <1>8 DEF QInv, QTypes
<1>10. PcInv' /\ HolderInv' /\ SlotInv'
  BY <1>2, <1>3, <1>7, <1>8, SchedAssumption
     DEF QInv, PcInv, HolderInv, SlotInv, CallPC, Threads
<1>11. WaitInv'
  <2>1. \A u \in Threads : u # NULL
    BY IoQueueAssumption DEF Threads
  <2>2. \A u \in Threads : u \in {ioq'.producer, ioq'.consumer} <=> u = t
    BY <1>7, <2>1
  <2>3. \A u \in Threads : sched.stat[u] = "BLOCKED" <=> elem_find(ioq.lock.waiters, u)
    BY <1>3, <2>1 DEF QInv, WaitInv
  <2> QED BY <1>2, <1>6, <1>7, <1>8, <2>2, <2>3 DEF QInv, WaitInv
<1> QED BY <1>6, <1>9, <1>10, <1>11 DEF QInv

\* lock_release behind ioq_wait: its ASSERTs find the caller the holder and the
\* value 0, and the first task that waits for the lock is READY.
LEMMA UnlockStep ==
  ASSUME QInv, NEW t \in Threads, Unlock(t)
  PROVE  QInv'
<1>1. /\ sched.cur = t /\ pc[t] = "slot"
      /\ pc' = [pc EXCEPT ![t] = role[t]] /\ role' = role
      /\ sched' = SemaWake(Check(sched, ioq.holder = t), ioq.lock)
      /\ ioq' = [ioq EXCEPT !.lock = SemaPost(ioq.lock), !.holder = NULL]
  BY DEF Unlock, Exec, Goto
<1>2. /\ ~elem_find(ioq.lock.waiters, t) /\ t \in Tasks /\ t # NULL
      /\ t # idle_thread /\ ioq.producer # t /\ ioq.consumer # t
  BY <1>1, RunnerLemma
<1>3. /\ ioq.holder = t /\ ioq.producer = NULL /\ ioq.consumer = NULL
      /\ ioq.lock.value = 0 /\ \A u \in Threads \ {t} : pc[u] # "slot"
  BY <1>1, <1>2 DEF QInv, HolderInv, SlotInv
<1>4. sched' = SemaWake(sched, ioq.lock)
  BY <1>1, <1>3 DEF Check
<1> DEFINE ws == ioq.lock.waiters
           rest == IF ws = <<>> THEN <<>> ELSE list_pop(ws)
<1>5. ws \in Seq(Tasks) /\ NoDup(ws) /\ ioq \in ioqueue
  BY QueueTypes DEF QInv, QTypes, WaitInv
<1>6. /\ rest \in Seq(Tasks) /\ NoDup(rest)
      /\ \A u : elem_find(rest, u) => elem_find(ws, u)
      /\ ws # <<>> => /\ Head(ws) \in Tasks /\ elem_find(ws, Head(ws))
                      /\ \A u : elem_find(rest, u) <=> elem_find(ws, u) /\ u # Head(ws)
  <2>1. CASE ws = <<>>
    <3>1. rest = <<>> /\ <<>> \in Seq(Tasks)
      BY <2>1
    <3> QED BY <2>1, <3>1 DEF NoDup, elem_find
  <2>2. CASE ws # <<>>
    <3> HIDE DEF ws
    <3>1. rest = list_pop(ws) BY <2>2
    <3> HIDE DEF rest
    <3> QED BY <1>5, <2>2, <3>1, PopLemma
  <2> QED BY <2>1, <2>2
<1>7. /\ ioq' \in ioqueue /\ ioq'.lock.waiters = rest
      /\ ioq'.lock.value = 1 /\ ioq'.holder = NULL
      /\ ioq'.producer = NULL /\ ioq'.consumer = NULL
  <2> DEFINE k == SemaPost(ioq.lock)
  <2>1. k = [value |-> 1, waiters |-> rest]
    BY <1>3 DEF SemaPost
  <2> HIDE DEF rest, k
  <2>2. k \in Semaphore /\ k.value = 1 /\ k.waiters = rest
    BY <1>6, <2>1 DEF Semaphore
  <2>3. ioq' = [ioq EXCEPT !.lock = k, !.holder = NULL]
    BY <1>1 DEF k
  <2> QED BY <1>3, <1>5, <2>2, <2>3 DEF ioqueue
<1>8. /\ pc' \in [Tasks -> CallPC \cup IdlePC]
      /\ pc'[t] \in {"get", "put"} /\ \A u \in Tasks \ {t} : pc'[u] = pc[u]
  <2>1. pc \in [Tasks -> CallPC \cup IdlePC] /\ role[t] \in {"get", "put"}
    BY <1>2 DEF QInv, QTypes
  <2> QED BY <1>1, <1>2, <2>1 DEF CallPC
<1> HIDE DEF rest
<1>9. PcInv' /\ HolderInv' /\ SlotInv'
  <2>1. \A u \in Threads : u # NULL
    BY IoQueueAssumption DEF Threads
  <2>2. PcInv'
    BY <1>2, <1>8, SchedAssumption DEF QInv, PcInv, CallPC, Threads
  <2>3. \A u \in Threads : pc'[u] # "slot"
    BY <1>3, <1>8 DEF Threads
  <2>4. HolderInv'
    <3>1. NULL # idle_thread
      BY IoQueueAssumption, SchedAssumption
    <3> QED BY <1>7, <2>1, <2>3, <3>1 DEF HolderInv
  <2>5. SlotInv'
    BY <1>7 DEF SlotInv
  <2> QED BY <2>2, <2>4, <2>5
<1>10. /\ sched' \in SchedState /\ SchedInv'
       /\ \A u \in Threads : sched'.stat[u] = "BLOCKED" <=> elem_find(rest, u)
  <2>1. \A u \in Threads : u # NULL
    BY IoQueueAssumption DEF Threads
  <2>2. \A u \in Threads : sched.stat[u] = "BLOCKED" <=> elem_find(ws, u)
    BY <1>3, <2>1 DEF QInv, WaitInv
  <2>3. CASE ws = <<>>
    <3>1. sched' = sched
      BY <1>3, <1>4, <2>3 DEF SemaWake, Check
    <3>2. rest = ws
      BY <2>3 DEF rest
    <3> QED BY <2>2, <3>1, <3>2 DEF QInv, QTypes, SchedInv
  <2>4. CASE ws # <<>>
    <3> DEFINE w == Head(ws)
    <3>1. sched' = thread_unblock(sched, w)
      BY <1>3, <1>4, <2>4 DEF SemaWake, Check
    <3>2. w \in Threads /\ sched.stat[w] = "BLOCKED"
      BY <1>6, <2>2, <2>4 DEF QInv, WaitInv
    <3> HIDE DEF w
    <3>3. /\ sched' \in SchedState /\ Consistent(sched') /\ IdleOK(sched')
          /\ sched'.panic = sched.panic
          /\ \A u \in Tasks :
               sched'.stat[u] = IF u = w THEN "READY" ELSE sched.stat[u]
      <4>1. w \in Tasks \ {idle_thread} /\ sched.stat[w] \in Asleep
        BY <3>2 DEF Threads, Asleep
      <4>2. sched \in SchedState /\ Consistent(sched) /\ IdleOK(sched)
        BY DEF QInv, QTypes, SchedInv
      <4> QED BY <3>1, <4>1, <4>2, WakeLemma
    <3>4. SchedInv'
      BY <3>3 DEF QInv, SchedInv, Threads
    <3>5. \A u \in Threads : sched'.stat[u] = "BLOCKED"
                               <=> u # w /\ sched.stat[u] = "BLOCKED"
      BY <3>3 DEF Threads
    <3> QED BY <1>6, <2>2, <2>4, <3>3, <3>4, <3>5 DEF w
  <2> QED BY <2>3, <2>4
<1>11. QTypes'
  BY <1>1, <1>7, <1>8, <1>10 DEF QInv, QTypes
<1>12. WaitInv'
  <2>1. \A u \in Threads : u # NULL
    BY IoQueueAssumption DEF Threads
  <2> QED BY <1>2, <1>6, <1>7, <1>8, <1>10, <2>1 DEF QInv, WaitInv
<1> QED BY <1>9, <1>10, <1>11, <1>12 DEF QInv

\* A turn of the loop of ioq_getchar or ioq_putchar.
LEMMA CharStep ==
  ASSUME QInv, NEW t \in Threads, ioq_getchar(t) \/ ioq_putchar(t)
  PROVE  QInv'
<1>1. /\ sched.cur = t /\ pc[t] \in {"get", "put"} /\ role' = role
      /\ role \in [Tasks -> {"get", "put"}] /\ ioq \in ioqueue
  BY DEF ioq_getchar, ioq_putchar, Exec, QInv, QTypes
<1>2. pc[t] \in Ahead /\ {"lock", "user"} \subseteq Ahead
  BY <1>1 DEF Ahead, CallPC
<1>3. CASE Goto(t, "lock") /\ UNCHANGED <<sched, ioq, left>>
  <2>1. Moves
    BY <1>1, <1>2, <1>3, GotoLemma
  <2>2. ioq' \in ioqueue /\ SameSlots(ioq')
    BY <1>1, <1>3 DEF SameSlots
  <2> QED BY <1>1, <1>3, <2>1, <2>2, MoveStep
<1>4. ASSUME Moved(t) PROVE Moves
  <2> DEFINE l == IF left[t] = 1 THEN "user" ELSE pc[t]
  <2>1. l \in Ahead /\ Goto(t, l)
    BY <1>2, <1>4 DEF Moved
  <2> QED BY <1>1, <1>2, <2>1, GotoLemma
<1>5. CASE GetByte(sched, ioq) /\ Moved(t)
  BY <1>1, <1>4, <1>5, GetStep
<1>6. CASE (\E byte \in Chars : PutByte(sched, ioq, byte)) /\ Moved(t)
  BY <1>1, <1>4, <1>6, PutStep
<1> QED BY <1>3, <1>5, <1>6 DEF ioq_getchar, ioq_putchar

\* All the code of the queue.
LEMMA QueueStep ==
  ASSUME QInv, NEW t \in Threads, QueueCode(t)
  PROVE  QInv'
BY CharStep, SleepStep, WaitStep, UnlockStep DEF QueueCode

\* A system call begins.
LEMMA BeginStep ==
  ASSUME QInv, NEW t \in Threads, sched.cur = t, pc[t] = "user",
         NEW r \in {"get", "put"}, NEW n, Begin(t, r, n)
  PROVE  QInv'
<1> DEFINE l == IF n = 0 THEN "user" ELSE r
<1>1. l \in Ahead /\ pc[t] \in Ahead /\ Goto(t, l)
  BY DEF Ahead, CallPC, Begin
<1>2. Moves
  BY <1>1, GotoLemma
<1>3. ioq' \in ioqueue /\ SameSlots(ioq') /\ sched' = sched
  BY DEF Begin, QInv, QTypes, SameSlots
<1>4. role' \in [Tasks -> {"get", "put"}]
  BY DEF Begin, QInv, QTypes
<1> QED BY <1>2, <1>3, <1>4, MoveStep

\* The clock interrupt.
LEMMA TimerStep ==
  ASSUME QInv, Timer
  PROVE  QInv'
<1>1. sched \in SchedState /\ Consistent(sched) /\ IdleOK(sched) /\ ~sched.panic
  BY DEF QInv, QTypes, SchedInv
<1>2. sched' = intr_time_hdl(sched) /\ EndHlt /\ UNCHANGED <<role, ioq>>
  BY DEF Timer
<1>3. /\ sched' \in SchedState /\ Consistent(sched') /\ IdleOK(sched')
      /\ ~sched'.panic /\ SameSleepers(sched, sched')
  BY <1>1, <1>2, TimerLemma
<1>4. /\ pc' \in [Tasks -> CallPC \cup IdlePC] /\ pc'[idle_thread] \in IdlePC
      /\ \A t \in Threads : pc'[t] = pc[t]
  BY <1>2, EndHltLemma DEF Moves
<1> QED BY <1>2, <1>3, <1>4, SwitchStep

\* The idle thread blocks itself, or waits for an interrupt.
LEMMA IdleStep ==
  ASSUME QInv, Idle
  PROVE  QInv'
<1>1. sched \in SchedState /\ Consistent(sched) /\ IdleOK(sched) /\ ~sched.panic
  BY DEF QInv, QTypes, SchedInv
<1>2. /\ pc \in [Tasks -> CallPC \cup IdlePC] /\ idle_thread \in Tasks
      /\ \A t \in Threads : t # idle_thread /\ t \in Tasks
  BY SchedAssumption DEF QInv, QTypes, Threads
<1>3. ASSUME NEW l \in IdlePC, Goto(idle_thread, l)
      PROVE  /\ pc' \in [Tasks -> CallPC \cup IdlePC] /\ pc'[idle_thread] \in IdlePC
             /\ \A t \in Threads : pc'[t] = pc[t]
  BY <1>2, <1>3 DEF Goto
<1>4. "sti" \in IdlePC /\ "hlt" \in IdlePC
  BY DEF IdlePC
<1>5. CASE sched' = thread_block(sched, "BLOCKED") /\ Goto(idle_thread, "sti")
  <2>1. /\ sched' \in SchedState /\ Consistent(sched') /\ IdleOK(sched')
        /\ sched'.panic = sched.panic
        /\ \A u \in Tasks \ {idle_thread}, x \in Parked :
             sched'.stat[u] = x
               <=> IF u = idle_thread THEN "BLOCKED" = x ELSE sched.stat[u] = x
    <3>1. "BLOCKED" \in Asleep BY DEF Asleep
    <3>2. sched.cur = idle_thread BY DEF Idle, Exec
    <3> QED BY <1>1, <1>5, <3>1, <3>2, BlockLemma
  <2>2. SameSleepers(sched, sched')
    BY <2>1 DEF SameSleepers
  <2>3. UNCHANGED <<role, ioq>>
    BY DEF Idle
  <2> QED BY <1>1, <1>3, <1>4, <1>5, <2>1, <2>2, <2>3, SwitchStep
<1>6. CASE Goto(idle_thread, "hlt") /\ UNCHANGED sched
  <2>1. SameSleepers(sched, sched') /\ UNCHANGED <<role, ioq>>
    BY <1>6 DEF SameSleepers, Idle
  <2> QED BY <1>1, <1>3, <1>4, <1>6, <2>1, SwitchStep
<1> QED BY <1>5, <1>6 DEF Idle

\* What is shown of the queue follows from the invariant.
LEMMA SlotsLemma == QInv => SlotsOwned
<1> SUFFICES ASSUME QInv PROVE SlotsOwned
  OBVIOUS
<1>1. ASSUME NEW slot \in Slots, ioq[slot] # NULL
      PROVE  /\ ioq.holder = ioq[slot] /\ pc[ioq.holder] = "slot"
             /\ sched.stat[ioq.holder] = "BLOCKED"
  <2>1. /\ ioq.holder = ioq[slot]
        /\ ioq.holder \in {ioq.producer, ioq.consumer}
    BY <1>1 DEF QInv, SlotInv, Slots
  <2>2. ioq.holder \in Threads
    <3>1. ioq.holder \in Tasks \cup {NULL}
      BY QueueTypes DEF QInv, QTypes
    <3> QED BY <1>1, <2>1, <3>1 DEF QInv, HolderInv, Threads
  <2>3. pc[ioq.holder] = "slot"
    BY <2>2 DEF QInv, HolderInv
  <2>4. sched.stat[ioq.holder] = "BLOCKED"
    BY <2>1, <2>2 DEF QInv, WaitInv
  <2> QED BY <2>1, <2>3, <2>4
<1> QED BY <1>1 DEF QInv, SchedInv, HolderInv, WaitInv, SlotsOwned

-----------------------------------------------------------------------------
(* What a character does to the ring and to the running task *)

\* A wakeup does not touch the ring.
LEMMA WakeupLemma ==
  ASSUME NEW q \in ioqueue, NEW slot \in Slots
  PROVE  LET r == wakeup(q, slot)
         IN  r.head = q.head /\ r.tail = q.tail /\ r.buf = q.buf
<1>1. CASE slot = "producer"
  BY <1>1 DEF wakeup, ioqueue
<1>2. CASE slot = "consumer"
  BY <1>2 DEF wakeup, ioqueue
<1> QED BY <1>1, <1>2 DEF Slots

\* Waking a task leaves the running one on the processor.
LEMMA StillRunning ==
  ASSUME NEW s \in SchedState, NEW t
  PROVE  thread_unblock(s, t).cur = s.cur
BY DEF thread_unblock, Check, SetStat, SchedState

\* A character that goes in: the ring after it, and one more in it.
LEMMA PutLemma ==
  ASSUME QTypes, ~ioq_full(ioq), NEW byte \in Chars, PutByte(sched, ioq, byte)
  PROVE  /\ sched'.cur = sched.cur
         /\ ioq'.head = next_pos(ioq.head) /\ ioq'.tail = ioq.tail
         /\ ioq'.buf = [ioq.buf EXCEPT ![ioq.head] = byte]
         /\ ioq_length(ioq') = ioq_length(ioq) + 1
<1>1. sched'.cur = sched.cur
  BY StillRunning DEF QTypes, PutByte, WakeSlot
<1>2. /\ ioq'.head = next_pos(ioq.head) /\ ioq'.tail = ioq.tail
      /\ ioq'.buf = [ioq.buf EXCEPT ![ioq.head] = byte]
  <2> DEFINE q == Store(ioq, byte)
  <2>1. /\ q \in ioqueue /\ q.head = next_pos(ioq.head) /\ q.tail = ioq.tail
        /\ q.buf = [ioq.buf EXCEPT ![ioq.head] = byte]
    BY StoreLemma DEF QTypes
  <2>2. ioq' = wakeup(q, "consumer") /\ "consumer" \in Slots
    BY DEF PutByte, Slots
  <2> HIDE DEF q
  <2> QED BY <2>1, <2>2, WakeupLemma
<1>3. ioq_length(ioq') = ioq_length(ioq) + 1
  <2>1. /\ ioq.head \in 0..bufsize - 1 /\ ioq.tail \in 0..bufsize - 1
        /\ bufsize \in Nat /\ bufsize >= 2
    BY QueueTypes, IoQueueAssumption DEF QTypes
  <2>2. next_pos(ioq.head) = IF ioq.head = bufsize - 1 THEN 0 ELSE ioq.head + 1
    BY <2>1, NextPos
  <2>3. next_pos(ioq.head) # ioq.tail
    BY DEF ioq_full
  <2> QED BY <1>2, <2>1, <2>2, <2>3 DEF ioq_length
<1> QED BY <1>1, <1>2, <1>3

\* A character that comes out: one less.
LEMMA GetLemma ==
  ASSUME QTypes, ~ioq_empty(ioq), GetByte(sched, ioq)
  PROVE  /\ sched'.cur = sched.cur
         /\ ioq'.head = ioq.head /\ ioq'.tail = next_pos(ioq.tail)
         /\ ioq'.buf = ioq.buf
         /\ ioq_length(ioq') = ioq_length(ioq) - 1
<1>1. sched'.cur = sched.cur
  BY StillRunning DEF QTypes, GetByte, WakeSlot
<1>2. ioq'.head = ioq.head /\ ioq'.tail = next_pos(ioq.tail) /\ ioq'.buf = ioq.buf
  <2> DEFINE q == Fetch(ioq)
  <2>1. /\ q \in ioqueue /\ q.head = ioq.head /\ q.tail = next_pos(ioq.tail)
        /\ q.buf = ioq.buf
    BY FetchLemma DEF QTypes
  <2>2. ioq' = wakeup(q, "producer") /\ "producer" \in Slots
    BY DEF GetByte, Slots
  <2> HIDE DEF q
  <2> QED BY <2>1, <2>2, WakeupLemma
<1>3. ioq_length(ioq') = ioq_length(ioq) - 1
  <2>1. /\ ioq.head \in 0..bufsize - 1 /\ ioq.tail \in 0..bufsize - 1
        /\ bufsize \in Nat /\ bufsize >= 2
    BY QueueTypes, IoQueueAssumption DEF QTypes
  <2>2. next_pos(ioq.tail) = IF ioq.tail = bufsize - 1 THEN 0 ELSE ioq.tail + 1
    BY <2>1, NextPos
  <2>3. ioq.head # ioq.tail
    BY DEF ioq_empty
  <2> QED BY <1>2, <2>1, <2>2, <2>3 DEF ioq_length
<1> QED BY <1>1, <1>2, <1>3

\* The steps that sleep and the steps that wake leave the ring alone.
LEMMA RingLemma ==
  ASSUME QTypes, NEW t \in Threads, LockAndWait(t) \/ Unlock(t)
  PROVE  ioq'.head = ioq.head /\ ioq'.tail = ioq.tail /\ ioq'.buf = ioq.buf
<1>1. ioq \in ioqueue
  BY DEF QTypes
<1>2. CASE Unlock(t)
  <2> DEFINE k == SemaPost(ioq.lock)
  <2>1. ioq' = [ioq EXCEPT !.lock = k, !.holder = NULL]
    BY <1>2 DEF Unlock
  <2> HIDE DEF k
  <2> QED BY <1>1, <2>1 DEF ioqueue
<1>3. CASE LockAndWait(t) /\ ioq.lock.value = 0
  <2> DEFINE k == SemaEnqueue(sched, ioq.lock)
  <2>1. ioq' = [ioq EXCEPT !.lock = k]
    BY <1>3 DEF LockAndWait
  <2> HIDE DEF k
  <2> QED BY <1>1, <2>1 DEF ioqueue
<1>4. CASE LockAndWait(t) /\ ioq.lock.value # 0
  <2> DEFINE k == SemaTake(ioq.lock)
  <2>1. ioq' = [ioq EXCEPT !.lock = k, !.holder = t, ![SlotOf(t)] = t]
    BY <1>4 DEF LockAndWait
  <2> HIDE DEF k
  <2>2. CASE SlotOf(t) = "producer"
    <3>1. ioq' = [ioq EXCEPT !.lock = k, !.holder = t, !.producer = t]
      BY <2>1, <2>2
    <3> QED BY <1>1, <3>1 DEF ioqueue
  <2>3. CASE SlotOf(t) = "consumer"
    <3>1. ioq' = [ioq EXCEPT !.lock = k, !.holder = t, !.consumer = t]
      BY <2>1, <2>3
    <3> QED BY <1>1, <3>1 DEF ioqueue
  <2> QED BY <2>2, <2>3 DEF SlotOf
<1> QED BY <1>2, <1>3, <1>4

-----------------------------------------------------------------------------
(* The ring is a first-in first-out queue. *)

Cells == Chars \cup {NULL}

\* The cell of the i-th character.
Cell(tail, i) == (tail + i - 1) % bufsize

LEMMA CellLemma ==
  ASSUME NEW tail \in 0..bufsize - 1, NEW i \in 1..bufsize
  PROVE  /\ Cell(tail, i) \in 0..bufsize - 1
         /\ Cell(tail, i) = IF tail + i - 1 < bufsize THEN tail + i - 1
                                                     ELSE tail + i - 1 - bufsize
<1>1. bufsize \in Nat \ {0} /\ tail + i - 1 \in 0..2 * bufsize - 1
  BY IoQueueAssumption
<1>2. \A b \in Nat \ {0} : \A x \in 0..b - 1 : x % b = x
  OBVIOUS
<1>3. \A b \in Nat \ {0} : \A x \in b..2 * b - 1 : x % b = x - b
  OBVIOUS
<1>4. CASE tail + i - 1 < bufsize
  <2>1. tail + i - 1 \in 0..bufsize - 1
    BY <1>1, <1>4
  <2> QED BY <1>1, <1>2, <1>4, <2>1 DEF Cell
<1>5. CASE ~(tail + i - 1 < bufsize)
  <2>1. tail + i - 1 \in bufsize..2 * bufsize - 1 /\ tail + i - 1 - bufsize \in 0..bufsize - 1
    BY <1>1, <1>5
  <2> QED BY <1>1, <1>3, <1>5, <2>1 DEF Cell
<1> QED BY <1>4, <1>5

\* The n characters of a ring lie in its cells between tail and head, and the
\* cell behind them is the one at head.
LEMMA CellsLemma ==
  ASSUME NEW head \in 0..bufsize - 1, NEW tail \in 0..bufsize - 1, NEW n,
         n = IF head >= tail THEN head - tail ELSE bufsize - (tail - head)
  PROVE  /\ n \in 0..bufsize - 1
         /\ \A i \in 1..n : Cell(tail, i) \in 0..bufsize - 1 /\ Cell(tail, i) # head
         /\ Cell(tail, n + 1) = head
<1>1. bufsize \in Nat /\ bufsize >= 2 /\ n \in 0..bufsize - 1
  BY IoQueueAssumption
<1>2. ASSUME NEW i \in 1..n
      PROVE  Cell(tail, i) \in 0..bufsize - 1 /\ Cell(tail, i) # head
  <2>1. i \in 1..bufsize
    BY <1>1
  <2> QED BY <1>1, <2>1, CellLemma
<1>3. Cell(tail, n + 1) = head
  <2> DEFINE j == n + 1
  <2>1. j \in 1..bufsize
    BY <1>1
  <2> HIDE DEF j
  <2>2. Cell(tail, j) = IF tail + j - 1 < bufsize THEN tail + j - 1
                                                  ELSE tail + j - 1 - bufsize
    BY <2>1, CellLemma
  <2> QED BY <1>1, <2>1, <2>2 DEF j
<1> QED BY <1>1, <1>2, <1>3

\* Counted from the next cell, the characters are one closer.
LEMMA NextCell ==
  ASSUME NEW tail \in 0..bufsize - 1, NEW i \in 1..bufsize - 1
  PROVE  Cell(next_pos(tail), i) = Cell(tail, i + 1)
<1> DEFINE j == i + 1
           p == next_pos(tail)
<1>1. /\ bufsize \in Nat /\ bufsize >= 2 /\ i \in 1..bufsize /\ j \in 1..bufsize
      /\ p \in 0..bufsize - 1
      /\ p = IF tail = bufsize - 1 THEN 0 ELSE tail + 1
  BY IoQueueAssumption, NextPos
<1> HIDE DEF j, p
<1>2. Cell(tail, j) = IF tail + j - 1 < bufsize THEN tail + j - 1
                                                ELSE tail + j - 1 - bufsize
  BY <1>1, CellLemma
<1>3. Cell(p, i) = IF p + i - 1 < bufsize THEN p + i - 1 ELSE p + i - 1 - bufsize
  BY <1>1, CellLemma
<1>4. Cell(p, i) = Cell(tail, j)
  BY <1>1, <1>2, <1>3 DEF j
<1> QED BY <1>4 DEF j, p

\* A function on 1..n is a sequence of length n.
LEMMA SeqOfLength ==
  ASSUME NEW S, NEW n \in Nat, NEW s \in [1..n -> S]
  PROVE  s \in Seq(S) /\ Len(s) = n
OBVIOUS

\* The characters of a ring, and how many they are.
LEMMA RingItems ==
  ASSUME NEW q \in ioqueue
  PROVE  /\ ioq_length(q) \in Nat
         /\ \A i \in 1..ioq_length(q) : q.buf[Cell(q.tail, i)] \in Cells
<1> DEFINE n == ioq_length(q)
           h == q.head
           t == q.tail
<1>1. /\ n \in Nat /\ q.buf \in [0..bufsize - 1 -> Cells]
      /\ h \in 0..bufsize - 1 /\ t \in 0..bufsize - 1
      /\ n = IF h >= t THEN h - t ELSE bufsize - (t - h)
  BY LengthLemma, QueueTypes, IoQueueAssumption DEF Cells, ioq_length
<1> HIDE DEF n, h, t
<1>2. \A i \in 1..n : q.buf[Cell(t, i)] \in Cells
  BY <1>1, CellsLemma
<1> QED BY <1>1, <1>2 DEF n, t

\* The characters of the queue, as a sequence.
LEMMA ItemsLemma ==
  ASSUME QTypes
  PROVE  /\ items \in Seq(Cells) /\ Len(items) = ioq_length(ioq)
         /\ \A i \in 1..ioq_length(ioq) :
              items[i] = ioq.buf[Cell(ioq.tail, i)]
<1> DEFINE n == ioq_length(ioq)
           s == items
<1>1. s = [i \in 1..n |-> ioq.buf[Cell(ioq.tail, i)]]
  BY DEF items, Cell
<1>2. n \in Nat /\ \A i \in 1..n : ioq.buf[Cell(ioq.tail, i)] \in Cells
  BY RingItems DEF QTypes
<1> HIDE DEF n, s
<1>3. s \in Seq(Cells) /\ Len(s) = n
  <2>1. n \in Nat
    BY <1>2
  <2>2. s \in [1..n -> Cells]
    BY <1>1, <1>2
  <2> QED BY <2>1, <2>2, SeqOfLength
<1> QED BY <1>1, <1>3 DEF n, s

\* The same of the next state.
LEMMA ItemsLemmaPrimed ==
  ASSUME QTypes'
  PROVE  /\ items' \in Seq(Cells) /\ Len(items') = ioq_length(ioq')
         /\ \A i \in 1..ioq_length(ioq') :
              items'[i] = ioq'.buf[Cell(ioq'.tail, i)]
<1> DEFINE n == ioq_length(ioq')
           s == items'
<1>1. s = [i \in 1..n |-> ioq'.buf[Cell(ioq'.tail, i)]]
  BY DEF items, Cell
<1>2. n \in Nat /\ \A i \in 1..n : ioq'.buf[Cell(ioq'.tail, i)] \in Cells
  BY RingItems DEF QTypes
<1> HIDE DEF n, s
<1>3. s \in Seq(Cells) /\ Len(s) = n
  <2>1. n \in Nat
    BY <1>2
  <2>2. s \in [1..n -> Cells]
    BY <1>1, <1>2
  <2> QED BY <2>1, <2>2, SeqOfLength
<1> QED BY <1>1, <1>3 DEF n, s

\* ioq_putchar: the character is behind all the others, which stay.
LEMMA PutAppends ==
  ASSUME QTypes, QTypes', ~ioq_full(ioq),
         NEW byte \in Chars, PutByte(sched, ioq, byte)
  PROVE  Len(items) < bufsize - 1 /\ items' = Append(items, byte)
<1> DEFINE n == ioq_length(ioq)
<1>1. /\ n \in 0..bufsize - 1 /\ n # bufsize - 1 /\ bufsize \in Nat /\ bufsize >= 2
      /\ ioq.head \in 0..bufsize - 1 /\ ioq.tail \in 0..bufsize - 1
      /\ ioq.buf \in [0..bufsize - 1 -> Cells]
  BY LengthLemma, QueueTypes, IoQueueAssumption DEF QTypes, Cells
<1>2. /\ ioq'.tail = ioq.tail /\ ioq'.buf = [ioq.buf EXCEPT ![ioq.head] = byte]
      /\ ioq_length(ioq') = n + 1
  BY PutLemma
<1>3. /\ Len(items) = n /\ items \in Seq(Cells) /\ byte \in Cells
      /\ \A i \in 1..n : items[i] = ioq.buf[Cell(ioq.tail, i)]
  BY ItemsLemma DEF Cells
<1>4. /\ Len(items') = n + 1 /\ items' \in Seq(Cells)
      /\ \A i \in 1..n + 1 : items'[i] = ioq'.buf[Cell(ioq.tail, i)]
  BY <1>2, ItemsLemmaPrimed
<1> DEFINE h == ioq.head
           t == ioq.tail
<1>5. /\ Cell(t, n + 1) = h
      /\ \A i \in 1..n : Cell(t, i) \in 0..bufsize - 1 /\ Cell(t, i) # h
  <2>1. /\ h \in 0..bufsize - 1 /\ t \in 0..bufsize - 1
        /\ n = IF h >= t THEN h - t ELSE bufsize - (t - h)
    BY <1>1 DEF ioq_length
  <2> HIDE DEF h, t, n
  <2> QED BY <2>1, CellsLemma
<1> HIDE DEF n
<1>7. /\ Append(items, byte) \in Seq(Cells) /\ Len(Append(items, byte)) = n + 1
      /\ Append(items, byte)[n + 1] = byte
      /\ \A i \in 1..n : Append(items, byte)[i] = items[i]
  BY <1>1, <1>3
<1>8. \A i \in 1..n + 1 : items'[i] = Append(items, byte)[i]
  <2>1. /\ ioq'.buf = [ioq.buf EXCEPT ![h] = byte] /\ h \in 0..bufsize - 1
        /\ \A i \in 1..n + 1 : items'[i] = ioq'.buf[Cell(t, i)]
        /\ \A i \in 1..n : items[i] = ioq.buf[Cell(t, i)]
    BY <1>1, <1>2, <1>3, <1>4
  <2> HIDE DEF h, t
  <2>2. items'[n + 1] = byte
    <3>1. n + 1 \in 1..n + 1
      BY <1>1
    <3>2. items'[n + 1] = ioq'.buf[h]
      BY <1>5, <2>1, <3>1
    <3> QED BY <1>1, <2>1, <3>2
  <2>3. ASSUME NEW i \in 1..n PROVE items'[i] = items[i]
    <3>1. i \in 1..n + 1 /\ Cell(t, i) \in 0..bufsize - 1 /\ Cell(t, i) # h
      BY <1>1, <1>5
    <3> QED BY <1>1, <2>1, <3>1
  <2> QED BY <1>1, <1>7, <2>2, <2>3
<1>9. items' = Append(items, byte)
  BY <1>4, <1>7, <1>8, SeqEqual
<1> QED BY <1>1, <1>3, <1>9

\* ioq_getchar: the character that comes out is the oldest.
LEMMA GetPops ==
  ASSUME QTypes, QTypes', ~ioq_empty(ioq), GetByte(sched, ioq)
  PROVE  items # <<>> /\ items' = Tail(items)
<1> DEFINE n == ioq_length(ioq)
<1>1. /\ n \in 0..bufsize - 1 /\ n # 0 /\ bufsize \in Nat /\ bufsize >= 2
      /\ ioq.tail \in 0..bufsize - 1
  BY LengthLemma, QueueTypes, IoQueueAssumption DEF QTypes
<1>2. /\ ioq'.tail = next_pos(ioq.tail) /\ ioq'.buf = ioq.buf
      /\ ioq_length(ioq') = n - 1
      /\ next_pos(ioq.tail) \in 0..bufsize - 1
      /\ next_pos(ioq.tail) = IF ioq.tail = bufsize - 1 THEN 0 ELSE ioq.tail + 1
  BY <1>1, GetLemma, NextPos
<1>3. /\ Len(items) = n /\ items \in Seq(Cells)
      /\ \A i \in 1..n : items[i] = ioq.buf[Cell(ioq.tail, i)]
  BY ItemsLemma
<1>4. /\ Len(items') = n - 1 /\ items' \in Seq(Cells)
      /\ \A i \in 1..n - 1 : items'[i] = ioq.buf[Cell(next_pos(ioq.tail), i)]
  BY <1>2, ItemsLemmaPrimed
<1> HIDE DEF n
<1>5. \A i \in 1..n - 1 : Cell(next_pos(ioq.tail), i) = Cell(ioq.tail, i + 1)
  <2> DEFINE t == ioq.tail
  <2>1. t \in 0..bufsize - 1
    BY <1>1
  <2> HIDE DEF t
  <2>2. ASSUME NEW i \in 1..n - 1 PROVE Cell(next_pos(t), i) = Cell(t, i + 1)
    <3>1. i \in 1..bufsize - 1
      BY <1>1
    <3> QED BY <2>1, <3>1, NextCell
  <2> QED BY <2>2 DEF t
<1>6. items # <<>>
  BY <1>1, <1>3
<1>7. /\ Tail(items) \in Seq(Cells) /\ Len(Tail(items)) = n - 1
      /\ \A i \in 1..n - 1 : Tail(items)[i] = items[i + 1]
  BY <1>1, <1>3, <1>6
<1>8. \A i \in 1..n - 1 : items'[i] = Tail(items)[i]
  BY <1>1, <1>3, <1>4, <1>5, <1>7
<1> QED BY <1>4, <1>6, <1>7, <1>8, SeqEqual

\* A step that does not touch the ring is a step of nothing.
LEMMA ItemsStutter ==
  ASSUME ioq'.head = ioq.head, ioq'.tail = ioq.tail, ioq'.buf = ioq.buf
  PROVE  items' = items
BY DEF items, ioq_length

\* What the queue's code does to the abstract queue.
LEMMA QueueRefines ==
  ASSUME QInv, QInv', NEW t \in Threads, QueueCode(t)
  PROVE  [Fifo!Next]_items
<1>1. QTypes /\ QTypes'
  BY DEF QInv
<1>2. CASE LockAndWait(t) \/ Unlock(t)
  BY <1>1, <1>2, RingLemma, ItemsStutter
<1>3. CASE ioq' = ioq
  BY <1>3, ItemsStutter
<1>4. CASE ~ioq_empty(ioq) /\ GetByte(sched, ioq)
  BY <1>1, <1>4, GetPops DEF Fifo!Next, Fifo!Get
<1>5. CASE ~ioq_full(ioq) /\ \E byte \in Chars : PutByte(sched, ioq, byte)
  <2>1. PICK byte \in Chars : PutByte(sched, ioq, byte)
    BY <1>5
  <2> QED BY <1>1, <1>5, <2>1, PutAppends DEF Fifo!Next, Fifo!Put
<1> QED BY <1>2, <1>3, <1>4, <1>5 DEF QueueCode, ioq_getchar, ioq_putchar

\* The empty queue.
LEMMA InitFifo == QInit => Fifo!Init
<1> SUFFICES ASSUME QInit PROVE items = <<>>
  BY DEF Fifo!Init
<1>1. QTypes /\ ioq_length(ioq) = 0
  BY InitQInv DEF QInv, QInit, ioqueue_init, ioq_length
<1>2. items \in Seq(Cells) /\ Len(items) = 0
  BY <1>1, ItemsLemma
<1> QED BY <1>2

-----------------------------------------------------------------------------
(* A pipe *)

\* The system call under way belongs to the running thread and has as many
\* characters, or cells, to go as the queue holds; a writer may be one short.
CallInv ==
  \A t \in Threads :
    /\ pc[t] \in {"get", "put"} => sched.cur = t /\ role[t] = pc[t] /\ left[t] >= 1
    /\ pc[t] = "get" => left[t] <= ioq_length(ioq)
    /\ pc[t] = "put" => left[t] = 1 \/ left[t] <= bufsize - ioq_length(ioq)

PipeInv == QInv /\ left \in [Tasks -> Nat] /\ CallInv /\ ShortWait

-----------------------------------------------------------------------------

\* Initially nobody is in a system call.
LEMMA InitPipeInv == QInit => PipeInv
<1> SUFFICES ASSUME QInit PROVE PipeInv
  OBVIOUS
<1>1. QInv
  BY InitQInv
<1>2. left \in [Tasks -> Nat] /\ \A t \in Threads : pc[t] = "user"
  BY DEF QInit, Threads
<1> QED BY <1>1, <1>2 DEF PipeInv, CallInv, ShortWait

\* Whoever runs outside a system call, or sleeps, nobody else is in one.
LEMMA NobodyElse ==
  ASSUME PipeInv, NEW t \in Threads, t # sched.cur
  PROVE  pc[t] \notin {"get", "put"}
BY DEF PipeInv, CallInv

\* A step that puts nobody in a system call, whatever the scheduler does.
LEMMA QuietStep ==
  ASSUME PipeInv, QInv', left' \in [Tasks -> Nat],
         \A t \in Threads : pc'[t] \notin {"get", "put"},
         \A t \in Threads : pc'[t] \in {"lock", "slot"} => role'[t] = "put" /\ left'[t] = 1
  PROVE  PipeInv'
BY DEF PipeInv, CallInv, ShortWait

\* One thread's step: the others stay where they are, out of the system calls.
LEMMA OwnStep ==
  ASSUME PipeInv, QInv', NEW t \in Threads, sched.cur = t, sched'.cur = t,
         left' \in [Tasks -> Nat],
         \A u \in Threads \ {t} : /\ pc'[u] = pc[u] /\ role'[u] = role[u]
                                  /\ left'[u] = left[u],
         pc'[t] \in {"get", "put"} => role'[t] = pc'[t] /\ left'[t] >= 1,
         pc'[t] = "get" => left'[t] <= ioq_length(ioq'),
         pc'[t] = "put" => left'[t] = 1 \/ left'[t] <= bufsize - ioq_length(ioq'),
         pc'[t] \in {"lock", "slot"} => role'[t] = "put" /\ left'[t] = 1
  PROVE  PipeInv'
<1>1. \A u \in Threads \ {t} : pc'[u] \notin {"get", "put"}
  BY NobodyElse
<1>2. CallInv'
  BY <1>1 DEF CallInv
<1>3. ShortWait'
  BY DEF PipeInv, ShortWait
<1> QED BY <1>2, <1>3 DEF PipeInv

\* What a thread's step reads.
LEMMA PipeTypes ==
  ASSUME PipeInv, NEW t \in Threads
  PROVE  /\ t \in Tasks /\ sched \in SchedState /\ ioq \in ioqueue
         /\ pc \in [Tasks -> CallPC \cup IdlePC]
         /\ role \in [Tasks -> {"get", "put"}] /\ left \in [Tasks -> Nat]
         /\ ioq_length(ioq) \in 0..bufsize - 1 /\ bufsize \in Nat /\ bufsize >= 2
BY LengthLemma, IoQueueAssumption DEF PipeInv, QInv, QTypes, Threads

\* pipe_read and pipe_write begin: the count is cut to what is there.
LEMMA CallStep ==
  ASSUME PipeInv, NEW t \in Threads, pipe_read(t) \/ pipe_write(t)
  PROVE  PipeInv'
<1>1. PICK r \in {"get", "put"}, n \in Nat :
        /\ Begin(t, r, n) /\ sched.cur = t /\ pc[t] = "user"
        /\ r = "get" => n <= ioq_length(ioq)
        /\ r = "put" => n <= bufsize - ioq_length(ioq)
  <2>1. /\ ioq_length(ioq) \in Nat /\ bufsize - ioq_length(ioq) \in Nat
        /\ 1..MaxCount \subseteq Nat
    BY PipeTypes, IoQueueAssumption
  <2>2. \A a, b \in Nat : lesser(a, b) \in Nat /\ lesser(a, b) <= a
    BY DEF lesser
  <2>3. CASE pipe_read(t)
    <3>1. PICK count \in 1..MaxCount : Begin(t, "get", lesser(ioq_length(ioq), count))
      BY <2>3 DEF pipe_read
    <3> QED BY <2>1, <2>2, <2>3, <3>1 DEF pipe_read, Exec
  <2>4. CASE pipe_write(t)
    <3>1. PICK count \in 1..MaxCount :
            Begin(t, "put", lesser(bufsize - ioq_length(ioq), count))
      BY <2>4 DEF pipe_write
    <3> QED BY <2>1, <2>2, <2>4, <3>1 DEF pipe_write, Exec
  <2> QED BY <2>3, <2>4
<1>2. QInv'
  BY <1>1, BeginStep DEF PipeInv
<1>3. /\ pc' = [pc EXCEPT ![t] = IF n = 0 THEN "user" ELSE r]
      /\ role' = [role EXCEPT ![t] = r] /\ left' = [left EXCEPT ![t] = n]
      /\ sched' = sched /\ ioq' = ioq
  BY <1>1 DEF Begin, Goto
<1>4. /\ pc'[t] = (IF n = 0 THEN "user" ELSE r) /\ role'[t] = r /\ left'[t] = n
      /\ left' \in [Tasks -> Nat]
      /\ \A u \in Threads \ {t} : pc'[u] = pc[u] /\ role'[u] = role[u] /\ left'[u] = left[u]
  BY <1>3, PipeTypes DEF Threads
<1> QED BY <1>1, <1>2, <1>3, <1>4, OwnStep

\* A turn of the loop: it moves a character, or a writer goes to sleep for its
\* last one.
LEMMA TurnStep ==
  ASSUME PipeInv, NEW t \in Threads, ioq_getchar(t) \/ ioq_putchar(t)
  PROVE  PipeInv'
<1>1. /\ t \in Tasks /\ sched \in SchedState /\ ioq \in ioqueue
      /\ pc \in [Tasks -> CallPC \cup IdlePC]
      /\ role \in [Tasks -> {"get", "put"}] /\ left \in [Tasks -> Nat]
      /\ ioq_length(ioq) \in 0..bufsize - 1 /\ bufsize \in Nat /\ bufsize >= 2
  BY PipeTypes
<1>2. QInv' /\ QTypes
  BY CharStep DEF PipeInv, QInv
<1>3. /\ sched.cur = t /\ role' = role /\ pc[t] \in {"get", "put"}
      /\ role[t] = pc[t] /\ left[t] >= 1
      /\ pc[t] = "get" => left[t] <= ioq_length(ioq)
      /\ pc[t] = "put" => left[t] = 1 \/ left[t] <= bufsize - ioq_length(ioq)
  BY DEF PipeInv, CallInv, ioq_getchar, ioq_putchar, Exec
<1>4. CASE Goto(t, "lock") /\ UNCHANGED <<sched, ioq, left>>
  <2>1. role[t] = "put" /\ left[t] = 1
    BY <1>1, <1>3, <1>4, LengthLemma DEF ioq_getchar, ioq_putchar, GetByte, PutByte, Moved, Goto
  <2>2. pc'[t] = "lock" /\ \A u \in Threads \ {t} : pc'[u] = pc[u]
    BY <1>1, <1>4 DEF Goto, Threads
  <2> QED BY <1>1, <1>2, <1>3, <1>4, <2>1, <2>2, OwnStep
<1>5. ASSUME Moved(t)
      PROVE  /\ left'[t] = left[t] - 1 /\ left' \in [Tasks -> Nat]
             /\ pc'[t] = IF left[t] = 1 THEN "user" ELSE pc[t]
             /\ \A u \in Threads \ {t} : pc'[u] = pc[u] /\ left'[u] = left[u]
  BY <1>1, <1>3, <1>5 DEF Moved, Goto, Threads
<1>6. CASE pc[t] = "get" /\ ~ioq_empty(ioq) /\ GetByte(sched, ioq) /\ Moved(t)
  <2>1. sched'.cur = t /\ ioq_length(ioq') = ioq_length(ioq) - 1
    BY <1>2, <1>3, <1>6, GetLemma
  <2> QED BY <1>1, <1>2, <1>3, <1>5, <1>6, <2>1, OwnStep
<1>7. CASE /\ pc[t] = "put" /\ ~ioq_full(ioq) /\ Moved(t)
           /\ \E byte \in Chars : PutByte(sched, ioq, byte)
  <2>1. sched'.cur = t /\ ioq_length(ioq') = ioq_length(ioq) + 1
    BY <1>2, <1>3, <1>7, PutLemma
  <2> QED BY <1>1, <1>2, <1>3, <1>5, <1>7, <2>1, OwnStep
<1> QED BY <1>4, <1>6, <1>7 DEF ioq_getchar, ioq_putchar

\* Going to sleep: the call under way is over with.
LEMMA SleepQuiet ==
  ASSUME PipeInv, NEW t \in Threads, LockAndWait(t)
  PROVE  PipeInv'
<1>1. /\ pc[t] = "lock" /\ sched.cur = t /\ UNCHANGED <<role, left>>
      /\ pc' = pc \/ pc' = [pc EXCEPT ![t] = "slot"]
  BY DEF LockAndWait, Exec, Goto
<1>2. QInv'
  BY QueueStep DEF PipeInv, QueueCode
<1>3. t \in Tasks /\ pc \in [Tasks -> CallPC \cup IdlePC] /\ left \in [Tasks -> Nat]
  BY PipeTypes
<1>4. /\ pc'[t] \in {"lock", "slot"}
      /\ \A u \in Threads \ {t} : pc'[u] = pc[u]
  BY <1>1, <1>3 DEF Threads
<1>5. \A u \in Threads \ {t} : pc[u] \notin {"get", "put"}
  BY <1>1, NobodyElse
<1>6. \A u \in Threads : pc'[u] \in {"lock", "slot"} => role'[u] = "put" /\ left'[u] = 1
  BY <1>1, <1>4 DEF PipeInv, ShortWait
<1> QED BY <1>1, <1>2, <1>3, <1>4, <1>5, <1>6, QuietStep

\* Back from the sleep, with one character to go.
LEMMA UnlockOwn ==
  ASSUME PipeInv, NEW t \in Threads, Unlock(t)
  PROVE  PipeInv'
<1>1. /\ pc[t] = "slot" /\ sched.cur = t /\ UNCHANGED <<role, left>>
      /\ pc' = [pc EXCEPT ![t] = role[t]]
  BY DEF Unlock, Exec, Goto
<1>2. QInv' /\ QTypes
  BY QueueStep DEF PipeInv, QInv, QueueCode
<1>3. /\ t \in Tasks /\ pc \in [Tasks -> CallPC \cup IdlePC] /\ left \in [Tasks -> Nat]
      /\ sched \in SchedState
  BY PipeTypes
<1>4. role[t] = "put" /\ left[t] = 1
  BY <1>1 DEF PipeInv, ShortWait
<1>5. pc'[t] = "put" /\ \A u \in Threads \ {t} : pc'[u] = pc[u]
  BY <1>1, <1>3, <1>4 DEF Threads
<1>6. sched'.cur = t
  <2> DEFINE c == Check(Check(sched, ioq.holder = t), ioq.lock.value = 0)
  <2>1. c \in SchedState /\ c.cur = t
    BY <1>1, <1>3 DEF Check, SchedState
  <2>2. sched' = c \/ sched' = thread_unblock(c, Head(ioq.lock.waiters))
    BY DEF Unlock, SemaWake
  <2> HIDE DEF c
  <2> QED BY <2>1, <2>2, StillRunning
<1> QED BY <1>1, <1>2, <1>3, <1>4, <1>5, <1>6, OwnStep

\* An interrupt comes only when the running task is in no system call.
LEMMA InterruptQuiet ==
  ASSUME PipeInv, QInv', Timer \/ Idle
  PROVE  PipeInv'
<1>1. UNCHANGED <<role, left>> /\ \A t \in Threads : pc'[t] = pc[t]
  <2>1. CASE Timer
    BY <2>1, EndHltLemma DEF Timer, PipeInv
  <2>2. CASE Idle
    <3>1. pc \in [Tasks -> CallPC \cup IdlePC] /\ idle_thread \in Tasks
      BY SchedAssumption DEF PipeInv, QInv, QTypes
    <3> QED BY <2>2, <3>1 DEF Idle, Goto, Threads
  <2> QED BY <2>1, <2>2
<1>2. \A t \in Threads : pc[t] \notin {"get", "put"}
  <2>1. sched.cur \in Threads => pc[sched.cur] \notin {"get", "put"}
    BY DEF Timer, InterruptsOn, Idle, Exec, Threads
  <2> QED BY <2>1, NobodyElse
<1> QED BY <1>1, <1>2, QuietStep DEF PipeInv, ShortWait

\* Every step preserves the invariant: one case per action of Pipe.
LEMMA NextPipeInv == PipeInv /\ [PipeNext]_qvars => PipeInv'
<1> SUFFICES ASSUME PipeInv, [PipeNext]_qvars PROVE PipeInv'
  OBVIOUS
<1>1. ASSUME NEW t \in Threads, pipe_read(t) \/ pipe_write(t) PROVE PipeInv'
  BY <1>1, CallStep
<1>2. ASSUME NEW t \in Threads, QueueCode(t) PROVE PipeInv'
  BY <1>2, TurnStep, SleepQuiet, UnlockOwn DEF QueueCode
<1>3. CASE Timer \/ Idle
  <2>1. QInv'
    BY <1>3, TimerStep, IdleStep DEF PipeInv
  <2> QED BY <1>3, <2>1, InterruptQuiet
<1>4. CASE UNCHANGED qvars
  BY <1>4 DEF qvars, PipeInv, CallInv, ShortWait, QInv, QTypes, SchedInv, PcInv,
              HolderInv, SlotInv, WaitInv
<1> QED BY <1>1, <1>2, <1>3, <1>4 DEF PipeNext

-----------------------------------------------------------------------------

\* The invariant holds in every reachable state.
THEOREM PipeInvariance == PipeSpec => []PipeInv
<1> QED BY InitPipeInv, NextPipeInv, PTL DEF PipeSpec

\* device/ioqueue.c: a task in a slot sleeps and holds the lock, whoever sleeps
\* is found by its waker, and no ASSERT of ioqueue.c, sync.c and thread.c fails.
THEOREM PipeSlots == PipeSpec => []SlotsOwned
<1>1. PipeInv => SlotsOwned
  BY SlotsLemma DEF PipeInv
<1> QED BY <1>1, PipeInvariance, PTL

\* pipe/pipe.c: a call of pipe_read never sleeps, and one of pipe_write at most
\* for its last character.
THEOREM PipeWaits == PipeSpec => []ShortWait
<1>1. PipeInv => ShortWait
  BY DEF PipeInv
<1> QED BY <1>1, PipeInvariance, PTL

\* The pipe is a bounded first-in first-out queue of characters, also across
\* the wrap of head and tail and whoever sleeps.
THEOREM PipeFifo == PipeSpec => ImplementsFifo
<1>1. ASSUME QInv, QInv', [PipeNext]_qvars PROVE [Fifo!Next]_items
  <2>1. ASSUME NEW t \in Threads, QueueCode(t) PROVE [Fifo!Next]_items
    BY <1>1, <2>1, QueueRefines
  <2>2. CASE \E t \in Threads : pipe_read(t) \/ pipe_write(t)
    BY <2>2, ItemsStutter DEF pipe_read, pipe_write, Begin
  <2>3. CASE Timer \/ Idle \/ UNCHANGED qvars
    BY <2>3, ItemsStutter DEF Timer, Idle, qvars
  <2> QED BY <1>1, <2>1, <2>2, <2>3 DEF PipeNext
<1>2. PipeInv => QInv
  BY DEF PipeInv
<1> QED BY <1>1, <1>2, InitFifo, PipeInvariance, PTL DEF PipeSpec, ImplementsFifo, Fifo!Spec

-----------------------------------------------------------------------------
(* The keyboard *)

\* The statuses stand for keys of K.
Justified(K) ==
  /\ ctrl_status => K \cap {"ctrl_l", "ctrl_r"} # {}
  /\ shift_status => K \cap {"shift_l", "shift_r"} # {}
  /\ alt_status => K \cap {"alt_l", "alt_r"} # {}

\* The wire carries the code of k, with or without the prefix.
Carries(k, break) ==
  \/ wire = Bytes(k, break) /\ ~ext_scancode
  \/ /\ k \in Prefixed /\ ext_scancode
     /\ wire = <<[code |-> code(k), break |-> break]>>

KeyInv ==
  \/ wire = <<>> /\ ~ext_scancode /\ Justified(held)
  \/ \E k \in Keys : Carries(k, FALSE) /\ k \in held /\ Justified(held)
  \/ \E k \in Keys : Carries(k, TRUE) /\ Justified(held \cup {k})

StatusTypes ==
  {ctrl_status, shift_status, alt_status, caps_lock_status} \subseteq BOOLEAN

-----------------------------------------------------------------------------
(* The keys *)

\* Sequences of one element, joined.
LEMMA PairLemma ==
  ASSUME NEW x, NEW y
  PROVE  <<x>> \o <<y>> = <<x, y>> /\ <<>> \o <<y>> = <<y>>
<1> DEFINE S == {x, y}
           s == <<x>> \o <<y>>
           p == <<x, y>>
<1>1. <<x>> \in Seq(S) /\ <<y>> \in Seq(S) /\ p \in Seq(S)
  OBVIOUS
<1>2. s \in Seq(S) /\ Len(s) = 2 /\ s[1] = x /\ s[2] = y
  BY <1>1, ConcatProperties
<1>3. Len(p) = 2 /\ p[1] = x /\ p[2] = y
  OBVIOUS
<1> HIDE DEF s, p
<1>4. s = p
  BY <1>1, <1>2, <1>3, SeqEqual
<1>5. <<>> \o <<y>> = <<y>>
  BY <1>1, ConcatEmptySeq
<1> QED BY <1>4, <1>5 DEF s, p

\* A key sends two bytes if it has a prefix, else one.
LEMMA BytesLemma ==
  ASSUME NEW k, NEW b
  PROVE  /\ k \in Prefixed => Bytes(k, b) = <<[code |-> "e0", break |-> FALSE],
                                              [code |-> code(k), break |-> b]>>
         /\ k \notin Prefixed => Bytes(k, b) = <<[code |-> code(k), break |-> b]>>
<1> DEFINE e0 == [code |-> "e0", break |-> FALSE]
           c == [code |-> code(k), break |-> b]
<1>1. Bytes(k, b) = (IF k \in Prefixed THEN <<e0>> ELSE <<>>) \o <<c>>
  BY DEF Bytes
<1> HIDE DEF e0, c
<1>2. <<e0>> \o <<c>> = <<e0, c>> /\ <<>> \o <<c>> = <<c>>
  BY PairLemma
<1>3. k \in Prefixed => Bytes(k, b) = <<e0, c>>
  BY <1>1, <1>2, Zenon
<1>4. k \notin Prefixed => Bytes(k, b) = <<c>>
  BY <1>1, <1>2, Zenon
<1> QED BY <1>3, <1>4, Zenon DEF e0, c

\* What the code of a key tells of the key.
LEMMA CodeLemma ==
  ASSUME NEW k \in Keys
  PROVE  /\ code(k) # "e0"
         /\ code(k) = "ctrl_l" <=> k \in {"ctrl_l", "ctrl_r"}
         /\ code(k) = "alt_l" <=> k \in {"alt_l", "alt_r"}
         /\ k \notin {"ctrl_r", "alt_r"} => code(k) = k
BY KeyboardAssumption DEF code

\* The head of the wire and what is left behind it.
LEMMA WireLemma ==
  ASSUME NEW k \in Keys, NEW b \in BOOLEAN, Carries(k, b)
  PROVE  \/ /\ wire = Bytes(k, b) /\ k \in Prefixed /\ ~ext_scancode
            /\ Head(wire).code = "e0"
            /\ Tail(wire) = <<[code |-> code(k), break |-> b]>>
         \/ /\ Head(wire).code = code(k) /\ Head(wire).break = b
            /\ Head(wire).code # "e0" /\ Tail(wire) = <<>>
            /\ ext_scancode => k \in Prefixed
<1>1. CASE wire = Bytes(k, b) /\ k \in Prefixed /\ ~ext_scancode
  <2>1. wire = <<[code |-> "e0", break |-> FALSE], [code |-> code(k), break |-> b]>>
    BY <1>1, BytesLemma
  <2> QED BY <1>1, <2>1
<1>2. CASE /\ wire = <<[code |-> code(k), break |-> b]>>
           /\ ext_scancode => k \in Prefixed
  BY <1>2, CodeLemma
<1> QED BY <1>1, <1>2, BytesLemma DEF Carries

\* A make code turns a status on only for a key that is down.
LEMMA MakeLemma ==
  ASSUME StatusTypes, NEW k \in Keys, k \in held, Justified(held),
         MakeCode(code(k)), held' = held
  PROVE  StatusTypes' /\ Justified(held)'
<1>1. CASE UNCHANGED status
  BY <1>1 DEF status, StatusTypes, Justified
<1>2. CASE ControlKey(code(k))
  BY <1>2, CodeLemma DEF ControlKey, StatusTypes, Justified
<1> QED BY <1>1, <1>2 DEF MakeCode, status

\* A break code turns off the statuses of the key that goes up.
LEMMA BreakLemma ==
  ASSUME StatusTypes, NEW k \in Keys, Justified(held \cup {k}),
         BreakCode(code(k)), held' = held
  PROVE  StatusTypes' /\ Justified(held)'
<1>1. /\ ctrl_status' = (ctrl_status /\ code(k) # "ctrl_l")
      /\ shift_status' = (shift_status /\ code(k) \notin {"shift_l", "shift_r"})
      /\ alt_status' = (alt_status /\ code(k) # "alt_l")
      /\ caps_lock_status' = caps_lock_status
  BY DEF BreakCode
<1>2. StatusTypes'
  BY <1>1 DEF StatusTypes
<1>3. ctrl_status' => held \cap {"ctrl_l", "ctrl_r"} # {}
  <2>1. ctrl_status' => ctrl_status /\ k \notin {"ctrl_l", "ctrl_r"}
    BY <1>1, CodeLemma
  <2> QED BY <2>1 DEF Justified
<1>4. shift_status' => held \cap {"shift_l", "shift_r"} # {}
  <2>1. shift_status' => k \notin {"shift_l", "shift_r"}
    BY <1>1, CodeLemma
  <2> QED BY <1>1, <2>1 DEF Justified
<1>5. alt_status' => held \cap {"alt_l", "alt_r"} # {}
  <2>1. alt_status' => alt_status /\ k \notin {"alt_l", "alt_r"}
    BY <1>1, CodeLemma
  <2> QED BY <2>1 DEF Justified
<1> QED BY <1>2, <1>3, <1>4, <1>5 DEF Justified

\* Nothing carried means nothing pending.
LEMMA QuietLemma ==
  ASSUME KeyInv, wire = <<>>
  PROVE  ~ext_scancode /\ Justified(held)
<1>1. ASSUME NEW k, NEW b PROVE ~Carries(k, b)
  <2>1. CASE k \in Prefixed
    BY <2>1, BytesLemma DEF Carries
  <2>2. CASE k \notin Prefixed
    BY <2>2, BytesLemma DEF Carries
  <2> QED BY <2>1, <2>2
<1> QED BY <1>1 DEF KeyInv

\* The keyboard's own steps.
LEMMA KeyStep ==
  ASSUME StatusTypes, KeyInv, NEW k \in Keys, Press(k) \/ Release(k)
  PROVE  StatusTypes' /\ KeyInv'
<1>1. /\ UNCHANGED <<status, ext_scancode>> /\ wire = <<>>
      /\ StatusTypes'
  BY DEF Press, Release, status, StatusTypes
<1>2. ~ext_scancode /\ Justified(held)
  BY <1>1, QuietLemma
<1>3. CASE Press(k)
  <2>1. wire' = Bytes(k, FALSE) /\ held' = held \cup {k} /\ ~ext_scancode'
    BY <1>1, <1>2, <1>3 DEF Press
  <2>2. Justified(held)'
    BY <1>1, <1>2, <2>1 DEF Justified, status
  <2> QED BY <1>1, <2>1, <2>2 DEF KeyInv, Carries
<1>4. CASE Release(k)
  <2>1. held \subseteq held' \cup {k}
    BY <1>4 DEF Release
  <2>2. Justified(held \cup {k})'
    BY <1>1, <1>2, <2>1 DEF Justified, status
  <2>3. wire' = Bytes(k, TRUE) /\ ~ext_scancode'
    BY <1>1, <1>2, <1>4 DEF Release
  <2> QED BY <1>1, <2>2, <2>3 DEF KeyInv, Carries
<1> QED BY <1>1, <1>3, <1>4

\* The handler reads one byte.
LEMMA HandlerStep ==
  ASSUME StatusTypes, KeyInv, intr_keyboard_hdl
  PROVE  StatusTypes' /\ KeyInv'
<1> DEFINE byte == Head(wire)
<1>1. /\ wire # <<>> /\ wire' = Tail(wire) /\ held' = held
      /\ ext_scancode' = (byte.code = "e0")
      /\ byte.code = "e0" => UNCHANGED status
      /\ byte.code # "e0" /\ byte.break => BreakCode(byte.code)
      /\ byte.code # "e0" /\ ~byte.break => MakeCode(byte.code)
  BY DEF intr_keyboard_hdl, status
<1>2. CASE \E k \in Keys : Carries(k, FALSE) /\ k \in held /\ Justified(held)
  <2>1. PICK k \in Keys : Carries(k, FALSE) /\ k \in held /\ Justified(held)
    BY <1>2
  <2>2. CASE byte.code = "e0"
    <3>1. k \in Prefixed /\ Tail(wire) = <<[code |-> code(k), break |-> FALSE]>>
      BY <2>1, <2>2, WireLemma
    <3>2. Carries(k, FALSE)'
      BY <1>1, <2>2, <3>1, Zenon DEF Carries
    <3>3. k \in held' /\ Justified(held)' /\ StatusTypes'
      BY <1>1, <2>1, <2>2 DEF Justified, status, StatusTypes
    <3> QED BY <2>1, <3>2, <3>3 DEF KeyInv
  <2>3. CASE byte.code # "e0"
    <3>1. byte.code = code(k) /\ byte.break = FALSE /\ Tail(wire) = <<>>
      BY <2>1, <2>3, WireLemma
    <3>2. StatusTypes' /\ Justified(held)'
      BY <1>1, <2>1, <2>3, <3>1, MakeLemma
    <3> QED BY <1>1, <2>3, <3>1, <3>2 DEF KeyInv
  <2> QED BY <2>2, <2>3
<1>3. CASE \E k \in Keys : Carries(k, TRUE) /\ Justified(held \cup {k})
  <2>1. PICK k \in Keys : Carries(k, TRUE) /\ Justified(held \cup {k})
    BY <1>3
  <2>2. CASE byte.code = "e0"
    <3>1. k \in Prefixed /\ Tail(wire) = <<[code |-> code(k), break |-> TRUE]>>
      BY <2>1, <2>2, WireLemma
    <3>2. Carries(k, TRUE)'
      BY <1>1, <2>2, <3>1, Zenon DEF Carries
    <3>3. Justified(held \cup {k})' /\ StatusTypes'
      BY <1>1, <2>1, <2>2 DEF Justified, status, StatusTypes
    <3> QED BY <3>2, <3>3 DEF KeyInv
  <2>3. CASE byte.code # "e0"
    <3>1. byte.code = code(k) /\ byte.break = TRUE /\ Tail(wire) = <<>>
      BY <2>1, <2>3, WireLemma
    <3>2. StatusTypes' /\ Justified(held)'
      BY <1>1, <2>1, <2>3, <3>1, BreakLemma
    <3> QED BY <1>1, <2>3, <3>1, <3>2 DEF KeyInv
  <2> QED BY <2>2, <2>3
<1> QED BY <1>1, <1>2, <1>3 DEF KeyInv

\* The other code leaves the keys alone.
LEMMA NextKeyInv == StatusTypes /\ KeyInv /\ [Next]_vars => StatusTypes' /\ KeyInv'
<1> SUFFICES ASSUME StatusTypes, KeyInv, [Next]_vars PROVE StatusTypes' /\ KeyInv'
  OBVIOUS
<1>1. CASE UNCHANGED <<status, ext_scancode, wire, held>>
  BY <1>1 DEF status, StatusTypes, KeyInv, Carries, Justified
<1>2. CASE intr_keyboard_hdl
  BY <1>2, HandlerStep
<1>3. CASE \E k \in Keys : Press(k) \/ Release(k)
  BY <1>3, KeyStep
<1> QED BY <1>1, <1>2, <1>3 DEF Next, vars

-----------------------------------------------------------------------------
(* kbd_buf *)

\* What the handler does to the queue: nothing, or it puts in a character.
LEMMA HandlerQueue ==
  ASSUME intr_keyboard_hdl
  PROVE  \/ UNCHANGED <<sched, ioq>>
         \/ ~ioq_full(ioq) /\ \E byte \in Chars : PutByte(sched, ioq, byte)
<1>1. \A k \in Digits \cup Letters : cur_char(k) \in Chars
  <2>1. \A k \in Digits \cup Letters, s \in BOOLEAN : keymap(k, s) \in Chars
    BY KeyboardAssumption DEF keymap, Digits, Letters
  <2>2. ASSUME NEW k \in Digits \cup Letters, keymap(k, use_shift(k)) \in Chars
        PROVE  cur_char(k) \in Chars
    BY <2>2, KeyboardAssumption DEF cur_char
  <2>3. \A k \in Digits \cup Letters : keymap(k, use_shift(k)) \in Chars
    BY KeyboardAssumption DEF keymap, Digits, Letters
  <2> QED BY <2>2, <2>3
<1>2. ASSUME NEW k \in Digits \cup Letters, PutChar(k)
      PROVE  \/ UNCHANGED <<sched, ioq>>
             \/ ~ioq_full(ioq) /\ \E byte \in Chars : PutByte(sched, ioq, byte)
  BY <1>1, <1>2 DEF PutChar
<1> QED BY <1>2 DEF intr_keyboard_hdl, MakeCode, BreakCode, ControlKey

\* The handler wakes the reader that sleeps, with the slots left in order.
LEMMA HandlerSlots ==
  ASSUME QInv, intr_keyboard_hdl
  PROVE  QInv'
<1>1. EndHlt /\ UNCHANGED role
  BY DEF intr_keyboard_hdl
<1>2. Moves /\ ioq \in ioqueue /\ role' \in [Tasks -> {"get", "put"}]
  BY <1>1, EndHltLemma DEF QInv, QTypes
<1>3. CASE UNCHANGED <<sched, ioq>>
  BY <1>2, <1>3, MoveStep DEF SameSlots
<1>4. CASE \E byte \in Chars : PutByte(sched, ioq, byte)
  BY <1>2, <1>4, PutStep
<1> QED BY <1>3, <1>4, HandlerQueue

\* Every step of the system keeps the queue's invariant.
LEMMA NextKeyboardQInv == QInv /\ [Next]_vars => QInv'
<1> SUFFICES ASSUME QInv, [Next]_vars PROVE QInv'
  OBVIOUS
<1>1. ASSUME NEW t \in Readers PROVE t \in Threads
  BY IoQueueAssumption DEF Threads
<1>2. ASSUME NEW t \in Readers, sys_read(t) PROVE QInv'
  <2>1. PICK count \in 1..MaxCount : Begin(t, "get", count)
    BY <1>2 DEF sys_read
  <2> QED BY <1>1, <1>2, <2>1, BeginStep DEF sys_read, Exec
<1>3. ASSUME NEW t \in Readers, QueueCode(t) PROVE QInv'
  BY <1>1, <1>3, QueueStep
<1>4. CASE Timer \/ Idle
  BY <1>4, TimerStep, IdleStep
<1>5. CASE intr_keyboard_hdl
  BY <1>5, HandlerSlots
<1>6. CASE UNCHANGED qvars
  BY <1>6 DEF qvars, QInv, QTypes, SchedInv, PcInv, HolderInv, SlotInv, WaitInv
<1>7. CASE \E k \in Keys : Press(k) \/ Release(k)
  BY <1>6, <1>7 DEF Press, Release
<1> QED BY <1>2, <1>3, <1>4, <1>5, <1>6, <1>7 DEF Next, Machine, vars

\* What every step does to the characters in kbd_buf.
LEMMA KeyboardRefines ==
  ASSUME QInv, QInv', [Next]_vars
  PROVE  [Fifo!Next]_items
<1>1. ASSUME NEW t \in Readers, QueueCode(t) PROVE [Fifo!Next]_items
  BY <1>1, QueueRefines, IoQueueAssumption DEF Threads
<1>2. CASE intr_keyboard_hdl
  <2>1. CASE UNCHANGED <<sched, ioq>>
    BY <2>1, ItemsStutter
  <2>2. CASE ~ioq_full(ioq) /\ \E byte \in Chars : PutByte(sched, ioq, byte)
    <3>1. PICK byte \in Chars : PutByte(sched, ioq, byte)
      BY <2>2
    <3> QED BY <2>2, <3>1, PutAppends DEF QInv, Fifo!Next, Fifo!Put
  <2> QED BY <1>2, <2>1, <2>2, HandlerQueue
<1>3. CASE ioq' = ioq
  BY <1>3, ItemsStutter
<1> QED BY <1>1, <1>2, <1>3
        DEF Next, Machine, sys_read, Begin, Timer, Idle, Press, Release, vars, qvars

-----------------------------------------------------------------------------
(* What is typed *)

\* The keyboard has one key of each kind that shifts: with two, the first to
\* go up clears the status of both.
OneOfEach ==
  /\ ~({"shift_l", "shift_r"} \subseteq Keys)
  /\ ~({"ctrl_l", "ctrl_r"} \subseteq Keys)

\* The statuses stand for keys of K, and all of these have theirs set.
Exact(K) ==
  /\ ctrl_status <=> K \cap {"ctrl_l", "ctrl_r"} # {}
  /\ shift_status <=> K \cap {"shift_l", "shift_r"} # {}

TypedInv ==
  /\ held \subseteq Keys
  /\ \/ wire = <<>> /\ ~ext_scancode /\ Exact(held)
     \/ \E k \in Keys : /\ Carries(k, FALSE)
                        /\ \E K \in SUBSET Keys : held = K \cup {k} /\ Exact(K)
     \/ \E k \in Keys : Carries(k, TRUE) /\ k \notin held /\ Exact(held \cup {k})

\* Nobody but the handler puts characters into kbd_buf.
OnlyReads == \A t \in Tasks : role[t] = "get" /\ pc[t] # "put"

\* After the make code of k the statuses stand for k as well.
LEMMA ExactMake ==
  ASSUME StatusTypes, NEW k \in Keys, NEW K \in SUBSET Keys, held = K \cup {k},
         Exact(K), ext_scancode => k \in Prefixed, MakeCode(code(k)), held' = held
  PROVE  Exact(held)'
<1>1. CASE ~Known(code(k)) \/ code(k) \in Digits \cup Letters
  <2>1. k \notin {"ctrl_l", "ctrl_r", "shift_l", "shift_r"}
    BY <1>1, CodeLemma DEF Known, Prefixed, Digits, Letters
  <2>2. UNCHANGED status
    BY <1>1 DEF MakeCode
  <2> QED BY <2>1, <2>2 DEF Exact, status
<1>2. CASE Known(code(k)) /\ code(k) \notin Digits \cup Letters
  <2>1. /\ ctrl_status' = (ctrl_status \/ code(k) = "ctrl_l")
        /\ shift_status' = (shift_status \/ code(k) \in {"shift_l", "shift_r"})
    BY <1>2 DEF MakeCode, ControlKey
  <2>2. code(k) \in {"shift_l", "shift_r"} <=> k \in {"shift_l", "shift_r"}
    BY DEF code
  <2>3. \A S : held' \cap S # {} <=> K \cap S # {} \/ k \in S
    OBVIOUS
  <2>4. ctrl_status' <=> held' \cap {"ctrl_l", "ctrl_r"} # {}
    BY <2>1, <2>3, CodeLemma DEF Exact, StatusTypes
  <2>5. shift_status' <=> held' \cap {"shift_l", "shift_r"} # {}
    BY <2>1, <2>2, <2>3 DEF Exact, StatusTypes
  <2> QED BY <2>4, <2>5 DEF Exact
<1> QED BY <1>1, <1>2

\* After the break code of k they no longer do.
LEMMA ExactBreak ==
  ASSUME OneOfEach, StatusTypes, NEW k \in Keys, held \subseteq Keys, k \notin held,
         Exact(held \cup {k}), BreakCode(code(k)), held' = held
  PROVE  Exact(held)'
<1>1. /\ ctrl_status' = (ctrl_status /\ code(k) # "ctrl_l")
      /\ shift_status' = (shift_status /\ code(k) \notin {"shift_l", "shift_r"})
  BY DEF BreakCode
<1>2. /\ code(k) \in {"shift_l", "shift_r"} <=> k \in {"shift_l", "shift_r"}
      /\ code(k) = "ctrl_l" <=> k \in {"ctrl_l", "ctrl_r"}
  BY CodeLemma DEF code
<1>3. /\ k \in {"shift_l", "shift_r"} => held \cap {"shift_l", "shift_r"} = {}
      /\ k \in {"ctrl_l", "ctrl_r"} => held \cap {"ctrl_l", "ctrl_r"} = {}
  BY DEF OneOfEach
<1> QED BY <1>1, <1>2, <1>3 DEF Exact, StatusTypes

\* A wire with the code of a key is not empty.
LEMMA CarriesLemma ==
  ASSUME NEW k, NEW b, Carries(k, b)
  PROVE  wire # <<>>
<1>1. CASE k \in Prefixed
  BY <1>1, BytesLemma DEF Carries
<1>2. CASE k \notin Prefixed
  BY <1>2, BytesLemma DEF Carries
<1> QED BY <1>1, <1>2

LEMMA TypedKeyStep ==
  ASSUME TypedInv, NEW k \in Keys, Press(k) \/ Release(k)
  PROVE  TypedInv'
<1>1. wire = <<>> /\ UNCHANGED <<status, ext_scancode>>
  BY DEF Press, Release
<1>2. held \subseteq Keys /\ ~ext_scancode /\ Exact(held)
  BY <1>1, CarriesLemma DEF TypedInv
<1>3. CASE Press(k)
  <2>1. wire' = Bytes(k, FALSE) /\ held' = held \cup {k}
    BY <1>3 DEF Press
  <2>2. Carries(k, FALSE)'
    BY <1>1, <1>2, <2>1 DEF Carries
  <2>3. PICK K \in SUBSET Keys : K = held
    BY <1>2
  <2>4. held' = K \cup {k} /\ Exact(K)'
    BY <1>1, <1>2, <2>1, <2>3 DEF Exact, status
  <2>5. held' \subseteq Keys
    BY <1>2, <2>1
  <2> QED BY <2>2, <2>4, <2>5 DEF TypedInv
<1>4. CASE Release(k)
  <2>1. wire' = Bytes(k, TRUE) /\ held' = held \ {k} /\ k \in held
    BY <1>4 DEF Release
  <2>2. Carries(k, TRUE)'
    BY <1>1, <1>2, <2>1 DEF Carries
  <2>3. held' \cup {k} = held
    BY <2>1
  <2>4. Exact(held \cup {k})'
    BY <1>1, <1>2, <2>3 DEF Exact, status
  <2> QED BY <1>2, <2>1, <2>2, <2>4 DEF TypedInv
<1> QED BY <1>3, <1>4

LEMMA TypedHandlerStep ==
  ASSUME OneOfEach, StatusTypes, TypedInv, intr_keyboard_hdl
  PROVE  TypedInv'
<1> DEFINE byte == Head(wire)
<1>1. /\ wire # <<>> /\ wire' = Tail(wire) /\ held' = held
      /\ ext_scancode' = (byte.code = "e0")
      /\ byte.code = "e0" => UNCHANGED status
      /\ byte.code # "e0" /\ byte.break => BreakCode(byte.code)
      /\ byte.code # "e0" /\ ~byte.break => MakeCode(byte.code)
  BY DEF intr_keyboard_hdl, status
<1>2. held \subseteq Keys
  BY DEF TypedInv
<1>3. ASSUME NEW k \in Keys, NEW b \in BOOLEAN, Carries(k, b), byte.code = "e0"
      PROVE  Carries(k, b)'
  <2>1. k \in Prefixed /\ Tail(wire) = <<[code |-> code(k), break |-> b]>>
    BY <1>3, WireLemma
  <2> QED BY <1>1, <1>3, <2>1, Zenon DEF Carries
<1>4. ASSUME NEW k \in Keys, Carries(k, FALSE),
             NEW K \in SUBSET Keys, held = K \cup {k}, Exact(K)
      PROVE  TypedInv'
  <2>1. CASE byte.code = "e0"
    <3>1. Exact(K)'
      BY <1>1, <1>4, <2>1 DEF Exact, status
    <3> QED BY <1>1, <1>2, <1>3, <1>4, <2>1, <3>1 DEF TypedInv
  <2>2. CASE byte.code # "e0"
    <3>1. /\ byte.code = code(k) /\ byte.break = FALSE /\ Tail(wire) = <<>>
          /\ ext_scancode => k \in Prefixed
      BY <1>4, <2>2, WireLemma
    <3>2. Exact(held)'
      BY <1>1, <1>4, <2>2, <3>1, ExactMake
    <3> QED BY <1>1, <1>2, <2>2, <3>1, <3>2 DEF TypedInv
  <2> QED BY <2>1, <2>2
<1>5. ASSUME NEW k \in Keys, Carries(k, TRUE), k \notin held, Exact(held \cup {k})
      PROVE  TypedInv'
  <2>1. CASE byte.code = "e0"
    <3>1. Exact(held \cup {k})'
      BY <1>1, <1>5, <2>1 DEF Exact, status
    <3> QED BY <1>1, <1>2, <1>3, <1>5, <2>1, <3>1 DEF TypedInv
  <2>2. CASE byte.code # "e0"
    <3>1. byte.code = code(k) /\ byte.break = TRUE /\ Tail(wire) = <<>>
      BY <1>5, <2>2, WireLemma
    <3>2. Exact(held)'
      BY <1>1, <1>2, <1>5, <2>2, <3>1, ExactBreak
    <3> QED BY <1>1, <1>2, <2>2, <3>1, <3>2 DEF TypedInv
  <2> QED BY <2>1, <2>2
<1> QED BY <1>1, <1>4, <1>5 DEF TypedInv

LEMMA NextTypedInv ==
  ASSUME OneOfEach, StatusTypes, TypedInv, [Next]_vars
  PROVE  TypedInv'
<1>1. CASE UNCHANGED <<status, ext_scancode, wire, held>>
  BY <1>1 DEF status, TypedInv, Carries, Exact
<1>2. CASE intr_keyboard_hdl
  BY <1>2, TypedHandlerStep
<1>3. CASE \E k \in Keys : Press(k) \/ Release(k)
  BY <1>3, TypedKeyStep
<1> QED BY <1>1, <1>2, <1>3 DEF Next, vars

\* The readers read.
LEMMA NextOnlyReads == QInv /\ OnlyReads /\ [Next]_vars => OnlyReads'
<1> SUFFICES ASSUME QInv, OnlyReads, [Next]_vars PROVE OnlyReads'
  OBVIOUS
<1>1. /\ pc \in [Tasks -> CallPC \cup IdlePC] /\ role \in [Tasks -> {"get", "put"}]
      /\ \A t \in Tasks : role[t] = "get" /\ pc[t] # "put"
  BY DEF QInv, QTypes, OnlyReads
<1>2. ASSUME NEW t \in Tasks, NEW l, l # "put", pc' = [pc EXCEPT ![t] = l],
             role' = role \/ role' = [role EXCEPT ![t] = "get"]
      PROVE  OnlyReads'
  BY <1>1, <1>2 DEF OnlyReads
<1>3. ASSUME NEW t \in Readers, sys_read(t) PROVE OnlyReads'
  <2>1. PICK count \in 1..MaxCount : Begin(t, "get", count)
    BY <1>3 DEF sys_read
  <2>2. count # 0
    BY IoQueueAssumption
  <2>3. pc' = [pc EXCEPT ![t] = "get"] /\ role' = [role EXCEPT ![t] = "get"]
    BY <2>1, <2>2 DEF Begin, Goto
  <2>4. t \in Tasks
    BY IoQueueAssumption
  <2> QED BY <1>2, <2>3, <2>4
<1>4. ASSUME NEW t \in Readers, QueueCode(t) PROVE OnlyReads'
  <2>1. t \in Tasks /\ role[t] = "get" /\ pc[t] # "put"
    BY <1>1, IoQueueAssumption
  <2>2. role' = role
    BY <1>4 DEF QueueCode, ioq_getchar, ioq_putchar, LockAndWait, Unlock
  <2>3. pc' = pc \/ \E l \in {"lock", "user", "get", "slot"} : pc' = [pc EXCEPT ![t] = l]
    BY <1>4, <2>1 DEF QueueCode, ioq_getchar, ioq_putchar, LockAndWait, Unlock, Goto,
                      Moved
  <2> QED BY <1>1, <1>2, <2>1, <2>2, <2>3 DEF OnlyReads
<1>5. ASSUME EndHlt, role' = role PROVE OnlyReads'
  BY <1>1, <1>5 DEF EndHlt, OnlyReads
<1>6. CASE Idle
  <2>1. /\ role' = role /\ idle_thread \in Tasks
        /\ \E l \in {"sti", "hlt"} : pc' = [pc EXCEPT ![idle_thread] = l]
    BY <1>6, SchedAssumption DEF Idle, Goto
  <2> QED BY <1>2, <2>1
<1>7. CASE UNCHANGED qvars
  BY <1>1, <1>7 DEF qvars, OnlyReads
<1> QED BY <1>3, <1>4, <1>5, <1>6, <1>7
        DEF Next, Machine, Timer, intr_keyboard_hdl, Press, Release, vars

\* The handler finds the character that the statuses give for the key, and with
\* exact statuses it is the one the keys give.
LEMMA TypedStep ==
  ASSUME StatusTypes, TypedInv, QInv, OnlyReads, Next, ioq'.head # ioq.head
  PROVE  ioq'.buf[ioq.head] = Expected(Head(wire).code)
<1>1. /\ ioq \in ioqueue /\ ioq.head \in 0..bufsize - 1
      /\ ioq.buf \in [0..bufsize - 1 -> Chars \cup {NULL}]
  BY QueueTypes DEF QInv, QTypes
<1>2. ASSUME NEW t \in Readers, QueueCode(t) PROVE ioq'.head = ioq.head
  <2>1. pc[t] # "put"
    BY IoQueueAssumption DEF OnlyReads
  <2>2. CASE ioq_getchar(t)
    BY <1>1, <2>2 DEF ioq_getchar, GetByte, wakeup, Fetch, ioqueue
  <2>3. CASE LockAndWait(t)
    BY <1>1, <2>3 DEF LockAndWait, SlotOf, ioqueue
  <2>4. CASE Unlock(t)
    BY <1>1, <2>4 DEF Unlock, ioqueue
  <2> QED BY <1>2, <2>1, <2>2, <2>3, <2>4 DEF QueueCode, ioq_putchar
<1>3. intr_keyboard_hdl
  BY <1>2 DEF Next, Machine, sys_read, Begin, Timer, Idle, Press, Release, qvars
<1> DEFINE c == Head(wire).code
<1>4. /\ c # "e0" /\ ~Head(wire).break /\ Known(c) /\ c \in Digits \cup Letters
      /\ ~ioq_full(ioq) /\ PutByte(sched, ioq, cur_char(c)) /\ wire # <<>>
  BY <1>3 DEF intr_keyboard_hdl, MakeCode, BreakCode, ControlKey, PutChar
<1>5. ioq'.buf[ioq.head] = cur_char(c)
  <2>1. ioq' = [[ioq EXCEPT !.buf[ioq.head] = cur_char(c),
                            !.head = next_pos(@)] EXCEPT !["consumer"] = NULL]
    BY <1>4 DEF PutByte, wakeup, Store
  <2> QED BY <1>1, <2>1 DEF ioqueue
<1>6. PICK k \in Keys, K \in SUBSET Keys :
        Carries(k, FALSE) /\ held = K \cup {k} /\ Exact(K)
  BY <1>4, WireLemma DEF TypedInv
<1>7. c = code(k)
  BY <1>4, <1>6, WireLemma
<1>8. k \notin {"ctrl_l", "ctrl_r", "shift_l", "shift_r"}
  BY <1>4, <1>7, CodeLemma DEF Digits, Letters
<1>9. Exact(held)
  BY <1>6, <1>8 DEF Exact
<1> HIDE DEF c
<1>10. cur_char(c) = Expected(c)
  <2>1. /\ shift_status \in BOOLEAN /\ caps_lock_status \in BOOLEAN
        /\ shift_status <=> held \cap {"shift_l", "shift_r"} # {}
        /\ ctrl_status <=> held \cap {"ctrl_l", "ctrl_r"} # {}
    BY <1>9 DEF StatusTypes, Exact
  <2>2. CASE c = "1"
    BY <2>1, <2>2 DEF cur_char, Expected, use_shift, keymap, Digits, Letters
  <2>3. CASE c = "l"
    BY <2>1, <2>3 DEF cur_char, Expected, use_shift, keymap, Digits, Letters
  <2>4. CASE c = "a"
    BY <2>1, <2>4 DEF cur_char, Expected, use_shift, keymap, Digits, Letters
  <2> QED BY <1>4, <2>2, <2>3, <2>4 DEF Digits, Letters
<1> QED BY <1>5, <1>10 DEF c

-----------------------------------------------------------------------------

\* No control key is taken to be down when it is not, and no prefix to be
\* pending, once the handler has read what was sent.
THEOREM NoKeySticks == Spec => []NoStuckKey
<1>1. Init => StatusTypes /\ KeyInv
  BY DEF Init, StatusTypes, KeyInv, Justified
<1>2. KeyInv => NoStuckKey
  BY QuietLemma DEF NoStuckKey, Justified
<1> QED BY <1>1, <1>2, NextKeyInv, PTL DEF Spec

\* With one shift and one ctrl key, the character that enters kbd_buf is the
\* one the keys that are down stand for: what the handler has made of make and
\* break codes, prefixes included, is what the typist did.
THEOREM TypedCharTheorem == OneOfEach => (Spec => TypedChar)
<1> SUFFICES ASSUME OneOfEach PROVE Spec => TypedChar
  OBVIOUS
<1>1. Init => StatusTypes /\ TypedInv /\ OnlyReads /\ QInv
  <2>1. Init => StatusTypes /\ TypedInv
    BY DEF Init, StatusTypes, TypedInv, Exact
  <2>2. Init => OnlyReads
    BY DEF Init, QInit, OnlyReads
  <2> QED BY <2>1, <2>2, InitQInv DEF Init
<1>2. StatusTypes /\ TypedInv /\ KeyInv /\ [Next]_vars =>
        StatusTypes' /\ TypedInv' /\ KeyInv'
  BY NextTypedInv, NextKeyInv
<1>3. StatusTypes /\ TypedInv /\ QInv /\ OnlyReads /\ [Next]_vars =>
        [ioq'.head # ioq.head => ioq'.buf[ioq.head] = Expected(Head(wire).code)]_vars
  BY TypedStep
<1>4. Init => KeyInv
  BY DEF Init, KeyInv, Justified
<1> QED BY <1>1, <1>2, <1>3, <1>4, NextOnlyReads, NextKeyboardQInv, PTL DEF Spec, TypedChar

\* The queue's invariant, with the handler as the producer.
THEOREM KeyboardInvariance == Spec => []QInv
<1>1. Init => QInv
  BY InitQInv DEF Init
<1> QED BY <1>1, NextKeyboardQInv, PTL DEF Spec

\* A reader in the slot sleeps and holds the lock, whoever sleeps is found by
\* its waker, and no ASSERT of ioqueue.c, sync.c and thread.c fails.
THEOREM KeyboardSlots == Spec => []SlotsOwned
<1> QED BY KeyboardInvariance, SlotsLemma, PTL

\* What is typed is read once and in order, except what is typed while kbd_buf
\* is full.
THEOREM KeyboardFifo == Spec => ImplementsFifo
<1>1. Init => Fifo!Init
  BY InitFifo DEF Init
<1> QED BY <1>1, KeyboardRefines, KeyboardInvariance, PTL
        DEF Spec, ImplementsFifo, Fifo!Spec

=============================================================================
