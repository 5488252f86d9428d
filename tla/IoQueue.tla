------------------------------- MODULE IoQueue -------------------------------
(***************************************************************************)
(* device/ioqueue.c: a ring buffer with one slot for a sleeping producer,  *)
(* one for a sleeping consumer and a lock that guards the slots.           *)
(*                                                                         *)
(* All of it runs with IF clear (its ASSERTs demand that), in a system     *)
(* call or an interrupt handler, so it is interrupted only where it gives  *)
(* up the processor: in sema_down and in thread_block.                     *)
(*                                                                         *)
(* A process t makes a request of `left` characters.  pc tells where it is *)
(*   user  in user mode                                                    *)
(*   get, put    at the head of the loop of ioq_getchar, ioq_putchar       *)
(*   lock        in lock_acquire                                           *)
(*   slot        at the thread_block of ioq_wait, or back from it          *)
(* and loop, sti and hlt are the idle thread's, as in module Sync.         *)
(***************************************************************************)
EXTENDS Sched

CONSTANTS
  bufsize,  \* 2048 in the code
  Chars,
  boot,     \* every task once, in the order they are queued at boot
  NULL,
  Readers,  \* the processes that read from the queue
  MaxCount  \* bound on the count argument of one call

ASSUME IoQueueAssumption ==
  /\ bufsize \in Nat \ {0, 1}
  /\ boot \in Seq(Tasks) /\ NoDup(boot)
  /\ \A t \in Tasks : elem_find(boot, t)
  /\ NULL \notin Tasks \cup Chars
  /\ Readers \subseteq Tasks \ {idle_thread}
  /\ MaxCount \in Nat \ {0}

VARIABLES
  sched,
  pc,
  role,   \* "get" or "put": which loop a process in the kernel is in
  left,   \* how many characters it still has to move
  ioq     \* struct ioqueue

qvars == <<sched, pc, role, left, ioq>>

Threads == Tasks \ {idle_thread}

Slots == {"producer", "consumer"}

ioqueue == [lock: Semaphore, holder: Tasks \cup {NULL},
            producer: Tasks \cup {NULL}, consumer: Tasks \cup {NULL},
            buf: [0..bufsize - 1 -> Chars \cup {NULL}],
            head: 0..bufsize - 1, tail: 0..bufsize - 1]

ioqueue_init ==
  [lock |-> sema_init(1), holder |-> NULL, producer |-> NULL, consumer |-> NULL,
   buf |-> [i \in 0..bufsize - 1 |-> NULL], head |-> 0, tail |-> 0]

QTypeOK(MaxLeft) ==
  /\ sched \in SchedState
  /\ pc \in [Tasks -> {"user", "get", "put", "lock", "slot",
                       "loop", "sti", "hlt"}]
  /\ role \in [Tasks -> {"get", "put"}]
  /\ left \in [Tasks -> 0..MaxLeft]
  /\ ioq \in ioqueue

QInit ==
  /\ sched = [cur   |-> Head(boot),
              stat  |-> [t \in Tasks |-> IF t = Head(boot) THEN "RUNNING"
                                                           ELSE "READY"],
              ready |-> Tail(boot), ticks |-> prio, panic |-> FALSE]
  /\ pc = [t \in Tasks |-> IF t = idle_thread THEN "loop" ELSE "user"]
  /\ role = [t \in Tasks |-> "get"]
  /\ left = [t \in Tasks |-> 0]
  /\ ioq = ioqueue_init

-----------------------------------------------------------------------------
(* The ring buffer *)

next_pos(pos) == (pos + 1) % bufsize

ioq_full(q) == next_pos(q.head) = q.tail

ioq_empty(q) == q.head = q.tail

ioq_length(q) == IF q.head >= q.tail THEN q.head - q.tail
                                     ELSE bufsize - (q.tail - q.head)

\* Mutant of Store: head wraps one cell early.
Mut_Store(q, byte) ==
  [q EXCEPT !.buf[q.head] = byte,
            !.head = IF @ + 2 >= bufsize THEN 0 ELSE @ + 1]

Store(q, byte) == [q EXCEPT !.buf[q.head] = byte, !.head = next_pos(@)]

Fetch(q) == [q EXCEPT !.tail = next_pos(@)]

-----------------------------------------------------------------------------
(* The slots *)

\* wakeup, the queue's side: the slot is emptied.
wakeup(q, slot) == [q EXCEPT ![slot] = NULL]

\* wakeup, the scheduler's side, called only for a slot that is taken.
WakeSlot(s, q, slot) ==
  IF q[slot] = NULL THEN s ELSE thread_unblock(s, q[slot])

\* A character goes in, and a sleeping consumer is woken.
PutByte(s, q, byte) ==
  /\ sched' = WakeSlot(s, q, "consumer")
  /\ ioq' = wakeup(Store(q, byte), "consumer")

\* A character comes out, and a sleeping producer is woken.
GetByte(s, q) ==
  /\ sched' = WakeSlot(s, q, "producer")
  /\ ioq' = wakeup(Fetch(q), "producer")

SlotOf(t) == IF role[t] = "get" THEN "consumer" ELSE "producer"

-----------------------------------------------------------------------------
(* ioq_getchar and ioq_putchar *)

Exec(t) == sched.cur = t /\ ~sched.panic

Goto(t, l) == pc' = [pc EXCEPT ![t] = l]

\* The caller's loop over its characters; after the last, the system call
\* returns.
Moved(t) ==
  /\ left' = [left EXCEPT ![t] = @ - 1]
  /\ Goto(t, IF left[t] = 1 THEN "user" ELSE pc[t])

ioq_getchar(t) ==
  /\ Exec(t)
  /\ pc[t] = "get"
  /\ IF ioq_empty(ioq)
       THEN Goto(t, "lock") /\ UNCHANGED <<sched, ioq, left>>
       ELSE GetByte(sched, ioq) /\ Moved(t)
  /\ UNCHANGED role

ioq_putchar(t) ==
  /\ Exec(t)
  /\ pc[t] = "put"
  /\ IF ioq_full(ioq)
       THEN Goto(t, "lock") /\ UNCHANGED <<sched, ioq, left>>
       ELSE (\E byte \in Chars : PutByte(sched, ioq, byte)) /\ Moved(t)
  /\ UNCHANGED role

\* Mutant of LockAndWait: the slot is taken without the lock.
Mut_LockAndWait(t) ==
  /\ Exec(t)
  /\ pc[t] = "lock"
  /\ sched' = thread_block(Check(sched, ioq[SlotOf(t)] = NULL), "BLOCKED")
  /\ ioq' = [ioq EXCEPT ![SlotOf(t)] = t, !.holder = t]
  /\ Goto(t, "slot")
  /\ UNCHANGED <<role, left>>

\* lock_acquire, and at once ioq_wait: nothing comes between them, and the
\* buffer is not looked at again.
LockAndWait(t) ==
  /\ Exec(t)
  /\ pc[t] = "lock"
  /\ \/ /\ ioq.lock.value = 0
        /\ sched' = SemaSleep(sched, ioq.lock)
        /\ ioq' = [ioq EXCEPT !.lock = SemaEnqueue(sched, @)]
        /\ UNCHANGED pc
     \/ /\ ioq.lock.value # 0
        /\ sched' = thread_block(Check(sched, ioq[SlotOf(t)] = NULL), "BLOCKED")
        /\ ioq' = [ioq EXCEPT !.lock = SemaTake(@), !.holder = t,
                              ![SlotOf(t)] = t]
        /\ Goto(t, "slot")
  /\ UNCHANGED <<role, left>>

\* Mutant of Unlock: no lock_release after the sleep.
Mut_Unlock(t) ==
  /\ Exec(t)
  /\ pc[t] = "slot"
  /\ Goto(t, role[t])
  /\ UNCHANGED <<sched, ioq, role, left>>

\* Back from ioq_wait: lock_release, and the loop's condition again.
Unlock(t) ==
  /\ Exec(t)
  /\ pc[t] = "slot"
  /\ sched' = SemaWake(Check(sched, ioq.holder = t), ioq.lock)
  /\ ioq' = [ioq EXCEPT !.lock = SemaPost(@), !.holder = NULL]
  /\ Goto(t, role[t])
  /\ UNCHANGED <<role, left>>

\* A system call that moves n characters begins.
Begin(t, r, n) ==
  /\ role' = [role EXCEPT ![t] = r]
  /\ left' = [left EXCEPT ![t] = n]
  /\ Goto(t, IF n = 0 THEN "user" ELSE r)
  /\ UNCHANGED <<sched, ioq>>

QueueCode(t) ==
  ioq_getchar(t) \/ ioq_putchar(t) \/ LockAndWait(t) \/ Unlock(t)

-----------------------------------------------------------------------------
(* The clock and the idle thread *)

\* IF is set in user mode and in the idle thread.
InterruptsOn == ~sched.panic /\ pc[sched.cur] \in {"user", "loop", "sti", "hlt"}

EndHlt == pc' = [pc EXCEPT ![sched.cur] = IF @ = "hlt" THEN "loop" ELSE @]

Timer ==
  /\ InterruptsOn
  /\ sched' = intr_time_hdl(sched)
  /\ EndHlt
  /\ UNCHANGED <<role, left, ioq>>

Idle ==
  /\ Exec(idle_thread)
  /\ \/ /\ pc[idle_thread] = "loop"
        /\ sched' = thread_block(sched, "BLOCKED")
        /\ Goto(idle_thread, "sti")
     \/ /\ pc[idle_thread] = "sti"
        /\ Goto(idle_thread, "hlt")
        /\ UNCHANGED sched
  /\ UNCHANGED <<role, left, ioq>>

-----------------------------------------------------------------------------
(* Properties, of every system built on the queue *)

\* A task in a slot sleeps and holds the lock, so at most one slot is taken;
\* whoever sleeps is in a slot or in the lock's queue, where it is found; and no
\* ASSERT fails: ioq_wait finds its slot empty, thread_unblock a task that
\* sleeps, sema_up the value 0, lock_release its caller the holder.
SlotsOwned ==
  /\ ~sched.panic
  /\ \A slot \in Slots : ioq[slot] # NULL =>
       /\ ioq.holder = ioq[slot] /\ pc[ioq.holder] = "slot"
       /\ sched.stat[ioq.holder] = "BLOCKED"
  /\ ioq.lock.value = 0 <=> ioq.holder # NULL
  /\ \A t \in Threads : sched.stat[t] = "BLOCKED" <=>
       \/ t \in {ioq.producer, ioq.consumer}
       \/ elem_find(ioq.lock.waiters, t)

\* The characters in the buffer, oldest first.
items == [i \in 1..ioq_length(ioq) |-> ioq.buf[(ioq.tail + i - 1) % bufsize]]

Fifo == INSTANCE CharFifo WITH Capacity <- bufsize - 1

\* Every step of the queue is a step of a bounded FIFO: no character is lost,
\* duplicated, reordered or overwritten, also across the wrap of head and tail.
ImplementsFifo == Fifo!Spec

=============================================================================
