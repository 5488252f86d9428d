--------------------------------- MODULE Ide ---------------------------------
(***************************************************************************)
(* The disk driver device/ide.c on one channel: threads that read and      *)
(* write, the controller, its interrupt and the clock.                     *)
(*                                                                         *)
(* The channel's lock is taken once per request and not nested, so it is   *)
(* its semaphore here (module Sync has the rest of it); holder names who   *)
(* is inside.  disk_done is the semaphore the interrupt handler posts.     *)
(*                                                                         *)
(* The controller is external, and of one of the kinds in Modes:           *)
(*   "slow"  a command may find the controller busy when it polls it       *)
(*   "stale" a read of several sectors interrupts for each of them, so an  *)
(*           interrupt of a transfer that is over can arrive while a later *)
(*           command is expected to interrupt                              *)
(* busy_wait makes up for that after a read only: a write would take the   *)
(* stale interrupt for its own, so Ops leaves the writes out then.         *)
(***************************************************************************)
EXTENDS Sched

CONSTANTS
  KThreads,   \* threads that run with IF set; the others make system calls
  Clients,    \* the threads that use the disk; the others only compute
  Modes,      \* subset of {"slow", "stale"}
  Ops,        \* with a controller of each kind, subset of {"read", "write"}
  Chunk,      \* sectors one command transfers at most (256 in the code)
  Secs,       \* the sectors of a request
  PollTurns,  \* turns of busy_wait before it gives up (29999 in the code)
  boot,       \* every task once, in the order they are queued at boot
  NULL

ASSUME IdeAssumption ==
  /\ Clients \subseteq Tasks \ {idle_thread} /\ KThreads \subseteq Clients
  /\ Modes \subseteq {"slow", "stale"} /\ Ops \in [Modes -> SUBSET {"read", "write"}]
  /\ Chunk \in Nat \ {0} /\ Secs \subseteq Nat \ {0} /\ PollTurns \in Nat \ {0}
  /\ boot \in Seq(Tasks) /\ NoDup(boot)
  /\ \A t \in Tasks : elem_find(boot, t)
  /\ NULL \notin Tasks

VARIABLES
  sched, ifl, pc,
  lk,             \* channel.lock.semaphore
  holder,         \* channel.lock.holder
  disk_done,      \* channel.disk_done
  expecting_intr, \* channel.expecting_intr
  req,            \* each thread's request: operation, sectors, sectors done
  nap,            \* busy_wait: turns left, and whether the clock has ticked
                  \* since mtime_sleep was called
  dev,            \* the controller: its kind, what it does and for whose
                  \* command
  irq             \* its interrupt is pending

vars == <<sched, ifl, pc, lk, holder, disk_done, expecting_intr, req, nap, dev,
          irq>>

Threads == Tasks \ {idle_thread}

(***************************************************************************)
(*   user  outside the driver       lock  at lock_acquire                  *)
(*   cmd   at select_sector         wait  at sema_down(disk_done)          *)
(*   poll  in busy_wait             nap   in its mtime_sleep               *)
(*   io    at insw or outsw         next  at secs_done += secs_op          *)
(* and for idle as in module Sync.                                         *)
(***************************************************************************)
Busy == {"reading", "starting", "writing"}

Init ==
  /\ sched = [cur   |-> Head(boot),
              stat  |-> [t \in Tasks |-> IF t = Head(boot) THEN "RUNNING"
                                                           ELSE "READY"],
              ready |-> Tail(boot), ticks |-> prio, panic |-> FALSE]
  /\ ifl = [t \in Tasks |-> TRUE]
  /\ pc = [t \in Tasks |-> IF t = idle_thread THEN "loop" ELSE "user"]
  /\ lk = sema_init(1) /\ disk_done = sema_init(0) /\ holder = NULL
  /\ expecting_intr = FALSE /\ irq = FALSE
  /\ req = [t \in Tasks |-> [op |-> "read", secs |-> 0, done |-> 0]]
  /\ nap = [t \in Tasks |-> [left |-> PollTurns, ticked |-> FALSE]]
  /\ dev \in [st: {"idle"}, by: {NULL}, mode: Modes]

-----------------------------------------------------------------------------

Exec(t) == sched.cur = t /\ ~sched.panic

Goto(t, l) == pc' = [pc EXCEPT ![t] = l]

\* What sema_down saves and restores (see module Sync).
old_stat(t) == t \in KThreads

Driver == <<lk, holder, disk_done, expecting_intr>>

\* ide_read or ide_write is called with sec_cnt > 0 sectors.
Call(t) ==
  /\ Exec(t)
  /\ pc[t] = "user"
  /\ t \in Clients
  /\ \E op \in Ops[dev.mode], n \in Secs :
       req' = [req EXCEPT ![t] = [op |-> op, secs |-> n, done |-> 0]]
  /\ ifl' = [ifl EXCEPT ![t] = old_stat(t)]
  /\ Goto(t, "lock")
  /\ UNCHANGED <<sched, nap, dev, irq, Driver>>

\* Mutant of AcquireChannel: taken without looking at the semaphore.
Mut_AcquireChannel(t) ==
  /\ Exec(t)
  /\ pc[t] = "lock"
  /\ lk' = [lk EXCEPT !.value = 0]
  /\ holder' = t
  /\ ifl' = [ifl EXCEPT ![t] = old_stat(t)]
  /\ Goto(t, "cmd")
  /\ UNCHANGED <<sched, disk_done, expecting_intr, req, nap, dev, irq>>

\* lock_acquire(&channel->lock).
AcquireChannel(t) ==
  /\ Exec(t)
  /\ pc[t] = "lock"
  /\ \/ /\ lk.value = 0
        /\ sched' = SemaSleep(sched, lk)
        /\ lk' = SemaEnqueue(sched, lk)
        /\ ifl' = [ifl EXCEPT ![t] = FALSE]
        /\ UNCHANGED <<pc, holder>>
     \/ /\ lk.value # 0
        /\ lk' = SemaTake(lk)
        /\ holder' = t
        /\ ifl' = [ifl EXCEPT ![t] = old_stat(t)]
        /\ Goto(t, "cmd")
        /\ UNCHANGED sched
  /\ UNCHANGED <<disk_done, expecting_intr, req, nap, dev, irq>>

\* Mutant of cmd_out: expecting_intr is left as it is.
Mut_cmd_out(t) ==
  /\ dev' = [dev EXCEPT !.st = IF req[t].op = "read" THEN "reading" ELSE "out",
                         !.by = t]
  /\ UNCHANGED expecting_intr

\* cmd_out: the flag first, then the command.  A controller that is not slow
\* asks for the data of a write at once.
cmd_out(t) ==
  /\ expecting_intr' = TRUE
  /\ dev' = [dev EXCEPT !.st = IF req[t].op = "read" THEN "reading"
                               ELSE IF dev.mode = "slow" THEN "starting" ELSE "out",
                         !.by = t]

\* select_sector and cmd_out; a read then waits for the interrupt, a write
\* polls.
Command(t) ==
  /\ Exec(t)
  /\ pc[t] = "cmd"
  /\ cmd_out(t)
  /\ nap' = [nap EXCEPT ![t].left = PollTurns]
  /\ Goto(t, IF req[t].op = "read" THEN "wait" ELSE "poll")
  /\ UNCHANGED <<sched, ifl, lk, holder, disk_done, req, irq>>

\* sema_down(&channel->disk_done), one turn of its loop.
WaitDone(t) ==
  /\ Exec(t)
  /\ pc[t] = "wait"
  /\ \/ /\ disk_done.value = 0
        /\ sched' = SemaSleep(sched, disk_done)
        /\ disk_done' = SemaEnqueue(sched, disk_done)
        /\ ifl' = [ifl EXCEPT ![t] = FALSE]
        /\ UNCHANGED pc
     \/ /\ disk_done.value # 0
        /\ disk_done' = SemaTake(disk_done)
        /\ ifl' = [ifl EXCEPT ![t] = old_stat(t)]
        /\ Goto(t, IF req[t].op = "read" THEN "poll" ELSE "next")
        /\ UNCHANGED sched
  /\ UNCHANGED <<lk, holder, expecting_intr, req, nap, dev, irq>>

\* Mutant of busy_wait: the status is not read.
Mut_busy_wait(t) ==
  /\ Exec(t)
  /\ pc[t] = "poll"
  /\ Goto(t, "io")
  /\ UNCHANGED <<sched, ifl, req, nap, dev, irq, Driver>>

\* busy_wait, one turn: ready, no data (the caller panics), or sleep 10 ms,
\* which is one tick; out of turns, the caller panics.
busy_wait(t) ==
  /\ Exec(t)
  /\ pc[t] = "poll"
  /\ \/ /\ nap[t].left = 0
        /\ sched' = Check(sched, FALSE)
        /\ UNCHANGED <<pc, nap>>
     \/ /\ nap[t].left > 0 /\ dev.st \notin Busy
        /\ sched' = Check(sched, dev.st \in {"in", "out"})
        /\ Goto(t, "io")
        /\ UNCHANGED nap
     \/ /\ nap[t].left > 0 /\ dev.st \in Busy
        /\ nap' = [nap EXCEPT ![t] = [left |-> @.left - 1, ticked |-> FALSE]]
        /\ Goto(t, "nap")
        /\ UNCHANGED sched
  /\ UNCHANGED <<ifl, req, dev, irq, Driver>>

\* Mutant of ticks_to_sleep: no thread_yield in its loop.
Mut_ticks_to_sleep(t) ==
  /\ Exec(t)
  /\ pc[t] = "nap"
  /\ nap[t].ticked
  /\ Goto(t, "poll")
  /\ UNCHANGED <<sched, ifl, req, nap, dev, irq, Driver>>

\* ticks_to_sleep: yield until the clock has ticked.
ticks_to_sleep(t) ==
  /\ Exec(t)
  /\ pc[t] = "nap"
  /\ IF nap[t].ticked
       THEN Goto(t, "poll") /\ UNCHANGED sched
       ELSE sched' = thread_yield(sched) /\ UNCHANGED pc
  /\ UNCHANGED <<ifl, req, nap, dev, irq, Driver>>

\* secs_op: the sectors of this command.
secs_op(t) == LET rest == req[t].secs - req[t].done
              IN  IF rest >= Chunk THEN Chunk ELSE rest

\* insw or outsw.  Of several sectors, the interrupts of all but the first
\* may be left pending by a read.
Transfer(t) ==
  /\ Exec(t)
  /\ pc[t] = "io"
  /\ IF req[t].op = "read"
       THEN /\ dev' = [dev EXCEPT !.st = "idle"]
            /\ irq' \in (IF dev.mode = "stale" /\ secs_op(t) > 1
                           THEN {irq, TRUE} ELSE {irq})
            /\ Goto(t, "next")
       ELSE /\ dev' = [dev EXCEPT !.st = "writing"]
            /\ Goto(t, "wait")
            /\ UNCHANGED irq
  /\ UNCHANGED <<sched, ifl, req, nap, Driver>>

\* secs_done += secs_op and the loop's condition; lock_release and the return
\* to the caller after the last command.
Next_or_release(t) ==
  /\ Exec(t)
  /\ pc[t] = "next"
  /\ req' = [req EXCEPT ![t].done = @ + secs_op(t)]
  /\ IF req'[t].done < req[t].secs
       THEN /\ Goto(t, "cmd")
            /\ UNCHANGED <<sched, lk, holder, ifl>>
       ELSE /\ sched' = SemaWake(Check(sched, holder = t), lk)
            /\ lk' = SemaPost(lk)
            /\ holder' = NULL
            /\ ifl' = [ifl EXCEPT ![t] = TRUE]
            /\ Goto(t, "user")
  /\ UNCHANGED <<disk_done, expecting_intr, nap, dev, irq>>

-----------------------------------------------------------------------------
(* Interrupts and the idle thread *)

EndHlt == pc' = [pc EXCEPT ![sched.cur] = IF @ = "hlt" THEN "loop" ELSE @]

\* Mutant of intr_hd_hdl: every interrupt posts the semaphore.
Mut_intr_hd_hdl ==
  /\ ~sched.panic /\ ifl[sched.cur]
  /\ irq
  /\ irq' = FALSE
  /\ expecting_intr' = FALSE
  /\ sched' = SemaWake(sched, disk_done)
  /\ disk_done' = SemaPost(disk_done)
  /\ EndHlt
  /\ UNCHANGED <<ifl, lk, holder, req, nap, dev>>

intr_hd_hdl ==
  /\ ~sched.panic /\ ifl[sched.cur]
  /\ irq
  /\ irq' = FALSE
  /\ IF expecting_intr
       THEN /\ expecting_intr' = FALSE
            /\ sched' = SemaWake(sched, disk_done)
            /\ disk_done' = SemaPost(disk_done)
       ELSE UNCHANGED <<expecting_intr, sched, disk_done>>
  /\ EndHlt
  /\ UNCHANGED <<ifl, lk, holder, req, nap, dev>>

Timer ==
  /\ ~sched.panic /\ ifl[sched.cur]
  /\ sched' = intr_time_hdl(sched)
  /\ nap' = [t \in Tasks |-> [nap[t] EXCEPT !.ticked = @ \/ pc[t] = "nap"]]
  /\ EndHlt
  /\ UNCHANGED <<ifl, req, dev, irq, Driver>>

IdleBlock ==
  /\ Exec(idle_thread)
  /\ pc[idle_thread] = "loop"
  /\ sched' = thread_block(sched, "BLOCKED")
  /\ Goto(idle_thread, "sti")
  /\ UNCHANGED <<ifl, req, nap, dev, irq, Driver>>

IdleHlt ==
  /\ Exec(idle_thread)
  /\ pc[idle_thread] = "sti"
  /\ Goto(idle_thread, "hlt")
  /\ UNCHANGED <<sched, ifl, req, nap, dev, irq, Driver>>

-----------------------------------------------------------------------------
(* The controller *)

\* The controller has the data of a read, or has stored the data of a write,
\* and interrupts; a slow one first has to get ready for the data of a write.
DevReady ==
  /\ dev.st \in Busy
  /\ dev' = [dev EXCEPT !.st = CASE dev.st = "reading"  -> "in"
                                 [] dev.st = "starting" -> "out"
                                 [] dev.st = "writing"  -> "idle"]
  /\ irq' = (irq \/ dev.st # "starting")
  /\ UNCHANGED <<sched, ifl, req, nap, pc, Driver>>

-----------------------------------------------------------------------------

DriverCode(t) ==
  \/ AcquireChannel(t) \/ Command(t) \/ WaitDone(t) \/ busy_wait(t)
  \/ ticks_to_sleep(t) \/ Transfer(t) \/ Next_or_release(t)

Next ==
  \/ \E t \in Threads : Call(t) \/ DriverCode(t)
  \/ intr_hd_hdl \/ Timer \/ IdleBlock \/ IdleHlt \/ DevReady

Spec == Init /\ [][Next]_vars

\* The processor runs, the clock ticks and the controller answers.  An
\* interrupt that finds IF clear stays pending, hence strong fairness.
FairSpec ==
  /\ Spec
  /\ SF_vars(Timer) /\ SF_vars(intr_hd_hdl) /\ WF_vars(DevReady)
  /\ WF_vars(IdleBlock) /\ WF_vars(IdleHlt)
  /\ \A t \in Threads : SF_vars(DriverCode(t))

-----------------------------------------------------------------------------
(* Properties *)

\* A thread asleep on disk_done has an interrupt to come that the handler will
\* not ignore: the controller is at work or interrupting, and expected to.
DoneNotLost ==
  \A t \in Threads : elem_find(disk_done.waiters, t) =>
    expecting_intr /\ (irq \/ dev.st \in Busy)

\* insw and outsw move the data of the caller's own command, when the
\* controller offers or asks for it, even if the wait ended on an interrupt
\* left over from an earlier command.
RightData ==
  \A t \in Threads : pc[t] = "io" =>
    dev.by = t /\ dev.st = IF req[t].op = "read" THEN "in" ELSE "out"

\* A controller at work does it for the holder of the channel, so a command
\* never reaches one that is still busy with the last, and a request returns
\* only when the disk is done with it.
NoOverrun ==
  dev.st # "idle" =>
    holder = dev.by /\ holder # NULL /\ pc[holder] \notin {"cmd", "next"}

\* The posts of disk_done match the waits: none is left over when the channel
\* is free, so the next request cannot take an old one for its own.
NoLeftover == holder = NULL => disk_done.value = 0 /\ ~expecting_intr

\* Whoever has the channel finishes its request, or has given up after the
\* last turn of busy_wait, provided that time and again some other thread has
\* something to compute: mtime_sleep in a system call waits for ticks with IF
\* clear, so the clock has to tick while others run.
HolderFinishes ==
  \A t \in Threads :
    []<>(\E u \in Threads \ {t} : pc[u] = "user") =>
      (pc[t] = "cmd" ~> (pc[t] = "user" \/ sched.panic))
=============================================================================
