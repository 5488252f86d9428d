---------------------------- MODULE SchedProofs ----------------------------
(***************************************************************************)
(* Lemmas about the scheduler's operators, for every set of tasks: what    *)
(* each of them does to the ready queue and the task states, and that they *)
(* keep both consistent without failing one of their ASSERTs.              *)
(***************************************************************************)
EXTENDS Sched, TLAPS

-----------------------------------------------------------------------------
(* lib/kernel/list.c *)

\* list_append adds one element, at the back, and links nothing twice.
LEMMA AppendLemma ==
  ASSUME NEW S, NEW q \in Seq(S), NEW t \in S
  PROVE  /\ list_append(q, t) \in Seq(S)
         /\ list_append(q, t) # <<>>
         /\ \A u : elem_find(list_append(q, t), u) <=> elem_find(q, u) \/ u = t
         /\ NoDup(q) /\ ~elem_find(q, t) => NoDup(list_append(q, t))
<1> DEFINE r == Append(q, t)
<1>1. /\ r \in Seq(S) /\ Len(r) = Len(q) + 1 /\ Len(q) \in Nat
      /\ \A i \in 1..Len(q) : r[i] = q[i]
      /\ r[Len(q) + 1] = t
  OBVIOUS
<1>2. \A u : elem_find(r, u) <=> elem_find(q, u) \/ u = t
  <2>1. ASSUME NEW u, elem_find(r, u) PROVE elem_find(q, u) \/ u = t
    BY <1>1, <2>1 DEF elem_find
  <2>2. ASSUME NEW u, elem_find(q, u) \/ u = t PROVE elem_find(r, u)
    <3>1. CASE elem_find(q, u)
      BY <1>1, <3>1 DEF elem_find
    <3>2. CASE u = t
      <4>1. Len(q) + 1 \in 1..Len(r) BY <1>1
      <4> QED BY <1>1, <3>2, <4>1 DEF elem_find
    <3> QED BY <2>2, <3>1, <3>2
  <2> QED BY <2>1, <2>2
<1>3. NoDup(q) /\ ~elem_find(q, t) => NoDup(r)
  BY <1>1 DEF NoDup, elem_find
<1> QED BY <1>1, <1>2, <1>3 DEF list_append

\* list_push adds one element, at the front, and links nothing twice.
LEMMA PushLemma ==
  ASSUME NEW S, NEW q \in Seq(S), NEW t \in S
  PROVE  /\ list_push(q, t) \in Seq(S)
         /\ list_push(q, t) # <<>>
         /\ \A u : elem_find(list_push(q, t), u) <=> elem_find(q, u) \/ u = t
         /\ NoDup(q) /\ ~elem_find(q, t) => NoDup(list_push(q, t))
<1> DEFINE r == <<t>> \o q
<1>1. /\ r \in Seq(S) /\ Len(r) = Len(q) + 1 /\ Len(q) \in Nat
      /\ \A i \in 1..Len(q) : r[i + 1] = q[i]
      /\ r[1] = t
  OBVIOUS
<1>2. \A i \in 1..Len(r) : i = 1 \/ (i - 1 \in 1..Len(q) /\ r[i] = q[i - 1])
  BY <1>1
<1>3. \A u : elem_find(r, u) <=> elem_find(q, u) \/ u = t
  <2>1. ASSUME NEW u, elem_find(r, u) PROVE elem_find(q, u) \/ u = t
    BY <1>1, <1>2, <2>1 DEF elem_find
  <2>2. ASSUME NEW u, elem_find(q, u) \/ u = t PROVE elem_find(r, u)
    <3>1. CASE elem_find(q, u)
      <4>1. PICK i \in 1..Len(q) : q[i] = u BY <3>1 DEF elem_find
      <4>2. i + 1 \in 1..Len(r) BY <1>1
      <4> QED BY <1>1, <4>1, <4>2 DEF elem_find
    <3>2. CASE u = t
      <4>1. 1 \in 1..Len(r) BY <1>1
      <4> QED BY <1>1, <3>2, <4>1 DEF elem_find
    <3> QED BY <2>2, <3>1, <3>2
  <2> QED BY <2>1, <2>2
<1>4. NoDup(q) /\ ~elem_find(q, t) => NoDup(r)
  <2> SUFFICES ASSUME NoDup(q), ~elem_find(q, t),
                      NEW i \in 1..Len(r), NEW j \in 1..Len(r), r[i] = r[j]
               PROVE  i = j
    BY DEF NoDup
  <2>1. CASE i = 1 /\ j # 1
    BY <1>1, <1>2, <2>1 DEF elem_find
  <2>2. CASE i # 1 /\ j = 1
    BY <1>1, <1>2, <2>2 DEF elem_find
  <2>3. CASE i # 1 /\ j # 1
    <3>1. q[i - 1] = q[j - 1] /\ i - 1 \in 1..Len(q) /\ j - 1 \in 1..Len(q)
      BY <1>2, <2>3
    <3>2. i - 1 = j - 1 BY <3>1 DEF NoDup
    <3> QED BY <1>1, <3>2
  <2> QED BY <2>1, <2>2, <2>3
<1> QED BY <1>1, <1>3, <1>4 DEF list_push

\* list_pop removes exactly the front element of a list without duplicates.
LEMMA PopLemma ==
  ASSUME NEW S, NEW q \in Seq(S), q # <<>>
  PROVE  /\ Head(q) \in S
         /\ elem_find(q, Head(q))
         /\ list_pop(q) \in Seq(S)
         /\ NoDup(q) => NoDup(list_pop(q))
         /\ NoDup(q) => \A u : elem_find(list_pop(q), u)
                                 <=> elem_find(q, u) /\ u # Head(q)
<1> DEFINE r == Tail(q)
<1>1. /\ Head(q) = q[1] /\ Len(q) \in Nat /\ Len(q) >= 1 /\ q[1] \in S
      /\ r \in Seq(S) /\ Len(r) = Len(q) - 1
      /\ \A i \in 1..Len(r) : r[i] = q[i + 1]
  OBVIOUS
<1>2. 1 \in 1..Len(q) /\ \A i \in 1..Len(r) : i + 1 \in 1..Len(q)
  BY <1>1
<1>3. elem_find(q, Head(q))
  BY <1>1, <1>2 DEF elem_find
<1>4. NoDup(q) => NoDup(r)
  <2> SUFFICES ASSUME NoDup(q), NEW i \in 1..Len(r), NEW j \in 1..Len(r),
                      r[i] = r[j]
               PROVE  i = j
    BY DEF NoDup
  <2>1. q[i + 1] = q[j + 1] /\ i + 1 \in 1..Len(q) /\ j + 1 \in 1..Len(q)
    BY <1>1, <1>2
  <2>2. i + 1 = j + 1 BY <2>1 DEF NoDup
  <2> QED BY <1>1, <2>2
<1>5. NoDup(q) => \A u : elem_find(r, u) <=> elem_find(q, u) /\ u # Head(q)
  <2> SUFFICES ASSUME NoDup(q), NEW u
               PROVE  elem_find(r, u) <=> elem_find(q, u) /\ u # Head(q)
    OBVIOUS
  <2>1. ASSUME elem_find(r, u) PROVE elem_find(q, u) /\ u # Head(q)
    <3>1. PICK i \in 1..Len(r) : r[i] = u BY <2>1 DEF elem_find
    <3>2. q[i + 1] = u /\ i + 1 \in 1..Len(q) /\ i + 1 # 1
      BY <1>1, <1>2, <3>1
    <3> QED BY <1>1, <1>2, <3>2 DEF elem_find, NoDup
  <2>2. ASSUME elem_find(q, u), u # Head(q) PROVE elem_find(r, u)
    <3>1. PICK i \in 1..Len(q) : q[i] = u BY <2>2 DEF elem_find
    <3>2. i # 1 BY <1>1, <2>2, <3>1
    <3>3. i - 1 \in 1..Len(r) /\ r[i - 1] = q[i]
      <4>1. i - 1 \in 1..Len(r) BY <1>1, <3>2
      <4>2. r[i - 1] = q[(i - 1) + 1] BY <1>1, <4>1
      <4>3. (i - 1) + 1 = i BY <3>1
      <4> QED BY <4>1, <4>2, <4>3
    <3> QED BY <3>1, <3>3 DEF elem_find
  <2> QED BY <2>1, <2>2
<1> QED BY <1>1, <1>3, <1>4, <1>5 DEF list_pop

-----------------------------------------------------------------------------
(* thread/thread.c *)

\* The ready queue holds exactly the READY tasks, each once.
QueueOK(s) ==
  /\ \A t \in Tasks : s.stat[t] = "READY" <=> elem_find(s.ready, t)
  /\ NoDup(s.ready)

NobodyRuns(s) == \A t \in Tasks : s.stat[t] # "RUNNING"

\* A state change touches one entry of stat.
LEMMA SetStatLemma ==
  ASSUME NEW s \in SchedState, NEW t \in Tasks, NEW st \in task_stat
  PROVE  LET r == SetStat(s, t, st)
         IN  /\ r \in SchedState
             /\ r.cur = s.cur /\ r.ready = s.ready /\ r.panic = s.panic
             /\ r.ticks = s.ticks
             /\ \A u \in Tasks : r.stat[u] = IF u = t THEN st ELSE s.stat[u]
BY DEF SetStat, SchedState

\* Replacing the queue touches nothing else.
LEMMA SetReadyLemma ==
  ASSUME NEW s \in SchedState, NEW q \in Seq(Tasks)
  PROVE  LET r == [s EXCEPT !.ready = q]
         IN  /\ r \in SchedState
             /\ r.cur = s.cur /\ r.ready = q /\ r.panic = s.panic
             /\ r.ticks = s.ticks /\ r.stat = s.stat
BY DEF SchedState

\* thread_unblock of a sleeping task passes its ASSERTs, queues the task and
\* changes no other.
LEMMA UnblockLemma ==
  ASSUME NEW s \in SchedState, NEW t \in Tasks, s.stat[t] \in Asleep, QueueOK(s)
  PROVE  LET r == thread_unblock(s, t)
         IN  /\ r \in SchedState
             /\ QueueOK(r)
             /\ r.panic = s.panic
             /\ r.cur = s.cur
             /\ r.ready # <<>>
             /\ \A u \in Tasks :
                  r.stat[u] = IF u = t THEN "READY" ELSE s.stat[u]
<1> DEFINE q == list_push(s.ready, t)
           s2 == [s EXCEPT !.ready = q]
<1>1. ~elem_find(s.ready, t) /\ s.stat[t] \in Asleep
  BY DEF QueueOK, Asleep
<1>2. thread_unblock(s, t) = SetStat(s2, t, "READY")
  BY <1>1 DEF thread_unblock, Check
<1>3. s.ready \in Seq(Tasks)
  BY DEF SchedState
<1>4. /\ q \in Seq(Tasks) /\ q # <<>> /\ NoDup(q)
      /\ \A u : elem_find(q, u) <=> elem_find(s.ready, u) \/ u = t
  BY <1>1, <1>3, PushLemma DEF QueueOK
<1>5. /\ s2 \in SchedState /\ s2.cur = s.cur /\ s2.ready = q
      /\ s2.panic = s.panic /\ s2.stat = s.stat
  BY <1>4, SetReadyLemma
<1> HIDE DEF q, s2
<1> DEFINE r == SetStat(s2, t, "READY")
<1>6. /\ r \in SchedState /\ r.cur = s2.cur /\ r.ready = s2.ready
      /\ r.panic = s2.panic
      /\ \A u \in Tasks : r.stat[u] = IF u = t THEN "READY" ELSE s2.stat[u]
  <2>1. "READY" \in task_stat BY DEF task_stat
  <2> QED BY <1>5, <2>1, SetStatLemma
<1> HIDE DEF r
<1>7. QueueOK(r)
  BY <1>4, <1>5, <1>6 DEF QueueOK
<1>8. thread_unblock(s, t) = r
  BY <1>2 DEF r
<1> QED BY <1>4, <1>5, <1>6, <1>7, <1>8

\* EnsureReady and SwitchTo, the second half of schedule: with nobody RUNNING
\* any more and idle asleep if the queue is empty, the next task is one that
\* was READY, or idle.
LEMMA PickNextLemma ==
  ASSUME NEW s \in SchedState, QueueOK(s), NobodyRuns(s),
         s.ready = <<>> => s.stat[idle_thread] \in Asleep
  PROVE  LET r == SwitchTo(EnsureReady(s))
         IN  /\ r \in SchedState
             /\ Consistent(r)
             /\ r.panic = s.panic
             /\ s.stat[r.cur] = "READY" \/ r.cur = idle_thread
             /\ \A u \in Tasks :
                  r.stat[u] = IF u = r.cur THEN "RUNNING" ELSE s.stat[u]
<1> DEFINE e == EnsureReady(s)
           r == SwitchTo(e)
<1>1. idle_thread \in Tasks
  BY SchedAssumption
<1>2. /\ e \in SchedState /\ QueueOK(e) /\ e.panic = s.panic /\ e.ready # <<>>
      /\ \A u \in Tasks : e.stat[u] = "READY"
                            => s.stat[u] = "READY" \/ u = idle_thread
      /\ \A u \in Tasks : e.stat[u] # s.stat[u] =>
                            /\ u = idle_thread
                            /\ e.stat[u] = "READY"
                            /\ Head(e.ready) = idle_thread
  <2>1. CASE s.ready # <<>>
    BY <2>1 DEF EnsureReady
  <2>2. CASE s.ready = <<>>
    <3>1. e = thread_unblock(s, idle_thread)
      BY <2>2 DEF EnsureReady
    <3> HIDE DEF e
    <3>2. /\ e \in SchedState /\ QueueOK(e) /\ e.panic = s.panic /\ e.ready # <<>>
          /\ \A u \in Tasks :
               e.stat[u] = IF u = idle_thread THEN "READY" ELSE s.stat[u]
      BY <1>1, <2>2, <3>1, UnblockLemma
    <3>3. Head(e.ready) \in Tasks /\ elem_find(e.ready, Head(e.ready))
      BY <3>2, PopLemma DEF SchedState
    <3>4. \A u \in Tasks : s.stat[u] # "READY"
      BY <2>2 DEF QueueOK, elem_find
    <3>5. Head(e.ready) = idle_thread
      BY <3>2, <3>3, <3>4 DEF QueueOK
    <3> QED BY <3>2, <3>5
  <2> QED BY <2>1, <2>2
<1> HIDE DEF e
<1>3. /\ r.ready = list_pop(e.ready) /\ r.cur = Head(e.ready)
      /\ r.panic = e.panic
      /\ r \in SchedState
      /\ \A u \in Tasks : r.stat[u] = IF u = r.cur THEN "RUNNING" ELSE e.stat[u]
  <2> DEFINE n == Head(e.ready)
             e1 == [e EXCEPT !.ready = list_pop(@), !.cur = n]
  <2>1. n \in Tasks /\ list_pop(e.ready) \in Seq(Tasks)
    BY <1>2, PopLemma DEF SchedState
  <2>2. /\ e1 \in SchedState /\ e1.cur = n /\ e1.ready = list_pop(e.ready)
        /\ e1.panic = e.panic /\ e1.stat = e.stat
    BY <1>2, <2>1 DEF SchedState
  <2>3. r = SetStat(e1, n, "RUNNING")
    BY DEF SwitchTo
  <2> HIDE DEF e1, n, r
  <2>4. /\ r \in SchedState /\ r.cur = n /\ r.ready = e1.ready
        /\ r.panic = e1.panic
        /\ \A u \in Tasks : r.stat[u] = IF u = n THEN "RUNNING" ELSE e1.stat[u]
    <3>1. "RUNNING" \in task_stat BY DEF task_stat
    <3> QED BY <2>1, <2>2, <2>3, <3>1, SetStatLemma
  <2> QED BY <2>2, <2>4 DEF n
<1> HIDE DEF r
<1>4. /\ e.ready \in Seq(Tasks) /\ e.stat \in [Tasks -> task_stat]
      /\ e.panic \in BOOLEAN /\ e.ticks \in [Tasks -> Nat]
  BY <1>2 DEF SchedState
<1>5. /\ Head(e.ready) \in Tasks /\ elem_find(e.ready, Head(e.ready))
      /\ list_pop(e.ready) \in Seq(Tasks) /\ NoDup(list_pop(e.ready))
      /\ \A u : elem_find(list_pop(e.ready), u)
                  <=> elem_find(e.ready, u) /\ u # Head(e.ready)
  BY <1>2, <1>4, PopLemma DEF QueueOK
<1>8. s.stat[r.cur] = "READY" \/ r.cur = idle_thread
  BY <1>2, <1>3, <1>5 DEF QueueOK
<1>9. \A u \in Tasks : r.stat[u] = IF u = r.cur THEN "RUNNING" ELSE s.stat[u]
  <2>1. ASSUME NEW u \in Tasks, e.stat[u] # s.stat[u] PROVE u = r.cur
    BY <1>2, <1>3, <2>1
  <2> QED BY <1>3, <2>1
<1>10. Consistent(r)
  <2>1. \A u \in Tasks : r.stat[u] = "RUNNING" <=> u = r.cur
    BY <1>9 DEF NobodyRuns
  <2>2. \A u \in Tasks : r.stat[u] = "READY" <=> elem_find(r.ready, u)
    BY <1>2, <1>3, <1>5 DEF QueueOK
  <2> QED BY <1>3, <1>5, <2>1, <2>2 DEF Consistent
<1> QED BY <1>2, <1>3, <1>8, <1>9, <1>10 DEF e, r

\* The idle thread is only ever blocked by its own loop.
IdleOK(s) == s.stat[idle_thread] \in {"RUNNING", "READY", "BLOCKED"}

\* The states of a task that neither runs nor is queued to run.
Parked == Asleep \cup {"DIED"}

\* What every way of giving up the processor leaves alone: which threads are
\* parked, and in which state.
SameSleepers(s, r) ==
  \A u \in Tasks \ {idle_thread}, x \in Parked : r.stat[u] = x <=> s.stat[u] = x

\* schedule's second half again, in the form its callers use it in.
LEMMA SwitchLemma ==
  ASSUME NEW s \in SchedState, QueueOK(s), NobodyRuns(s), IdleOK(s)
  PROVE  LET r == SwitchTo(EnsureReady(s))
         IN  /\ r \in SchedState /\ Consistent(r) /\ IdleOK(r)
             /\ r.panic = s.panic
             /\ SameSleepers(s, r)
<1> DEFINE r == SwitchTo(EnsureReady(s))
<1>1. idle_thread \in Tasks
  BY SchedAssumption
<1>2. s.ready = <<>> => s.stat[idle_thread] \in Asleep
  BY <1>1 DEF QueueOK, NobodyRuns, IdleOK, Asleep, elem_find
<1>3. /\ r \in SchedState /\ Consistent(r) /\ r.panic = s.panic
      /\ s.stat[r.cur] = "READY" \/ r.cur = idle_thread
      /\ \A u \in Tasks : r.stat[u] = IF u = r.cur THEN "RUNNING" ELSE s.stat[u]
  BY <1>2, PickNextLemma
<1> HIDE DEF r
<1>4. IdleOK(r)
  BY <1>1, <1>3 DEF IdleOK
<1>5. SameSleepers(s, r)
  BY <1>3 DEF SameSleepers, Parked, Asleep
<1> QED BY <1>3, <1>4, <1>5 DEF r

\* A task that stops running, asleep or dead, and nobody else changes state.
LEMMA ParkLemma ==
  ASSUME NEW s \in SchedState, Consistent(s), IdleOK(s), NEW st \in Parked,
         s.cur = idle_thread => st = "BLOCKED"
  PROVE  LET r == schedule(SetStat(s, s.cur, st))
         IN  /\ r \in SchedState /\ Consistent(r) /\ IdleOK(r)
             /\ r.panic = s.panic
             /\ \A u \in Tasks \ {idle_thread}, x \in Parked :
                  r.stat[u] = x <=> IF u = s.cur THEN st = x ELSE s.stat[u] = x
<1> DEFINE s1 == SetStat(s, s.cur, st)
           r == SwitchTo(EnsureReady(s1))
<1>1. s.cur \in Tasks /\ st \in task_stat
  BY DEF SchedState, Parked, Asleep, task_stat
<1>2. /\ s1 \in SchedState /\ s1.cur = s.cur /\ s1.ready = s.ready
      /\ s1.panic = s.panic
      /\ \A u \in Tasks : s1.stat[u] = IF u = s.cur THEN st ELSE s.stat[u]
  BY <1>1, SetStatLemma
<1> HIDE DEF s1
<1>3. s1.stat[s1.cur] # "RUNNING"
  BY <1>1, <1>2 DEF Parked, Asleep
<1>4. schedule(s1) = r
  BY <1>3 DEF schedule, Requeue
<1>5. QueueOK(s1) /\ NobodyRuns(s1) /\ IdleOK(s1)
  BY <1>1, <1>2, SchedAssumption
     DEF QueueOK, NobodyRuns, IdleOK, Consistent, Parked, Asleep
<1>6. /\ r \in SchedState /\ Consistent(r) /\ IdleOK(r)
      /\ r.panic = s1.panic /\ SameSleepers(s1, r)
  BY <1>2, <1>5, SwitchLemma
<1> HIDE DEF r
<1>7. \A u \in Tasks \ {idle_thread}, x \in Parked :
         r.stat[u] = x <=> IF u = s.cur THEN st = x ELSE s.stat[u] = x
  BY <1>2, <1>6 DEF SameSleepers
<1> QED BY <1>2, <1>4, <1>6, <1>7 DEF s1

\* thread_block puts its caller to sleep and nobody else.
LEMMA BlockLemma ==
  ASSUME NEW s \in SchedState, Consistent(s), IdleOK(s), NEW st \in Asleep,
         s.cur = idle_thread => st = "BLOCKED"
  PROVE  LET r == thread_block(s, st)
         IN  /\ r \in SchedState /\ Consistent(r) /\ IdleOK(r)
             /\ r.panic = s.panic
             /\ \A u \in Tasks \ {idle_thread}, x \in Parked :
                  r.stat[u] = x <=> IF u = s.cur THEN st = x ELSE s.stat[u] = x
<1>1. st \in Parked
  BY DEF Parked
<1> QED BY <1>1, ParkLemma DEF thread_block

\* A running task that goes to the back of the queue, by thread_yield or by
\* the clock, wakes nobody and puts nobody to sleep.
LEMMA ToBackLemma ==
  ASSUME NEW s \in SchedState, Consistent(s), IdleOK(s), NEW tk \in [Tasks -> Nat]
  PROVE  LET s1 == [s EXCEPT !.ready = list_append(@, s.cur), !.ticks = tk]
             r  == SwitchTo(EnsureReady(SetStat(s1, s.cur, "READY")))
         IN  /\ r \in SchedState /\ Consistent(r) /\ IdleOK(r)
             /\ r.panic = s.panic
             /\ SameSleepers(s, r)
<1>1. s.cur \in Tasks /\ s.ready \in Seq(Tasks) /\ s.stat[s.cur] = "RUNNING"
      /\ "READY" \in task_stat
  BY DEF SchedState, Consistent, task_stat
<1>2. ~elem_find(s.ready, s.cur) /\ NoDup(s.ready)
  BY <1>1 DEF Consistent
<1> DEFINE q == list_append(s.ready, s.cur)
<1>3. /\ q \in Seq(Tasks) /\ NoDup(q)
      /\ \A u : elem_find(q, u) <=> elem_find(s.ready, u) \/ u = s.cur
  <2> DEFINE c == s.cur
             l == s.ready
  <2>1. c \in Tasks /\ l \in Seq(Tasks) /\ ~elem_find(l, c) /\ NoDup(l)
    BY <1>1, <1>2
  <2> HIDE DEF c, l
  <2>2. /\ list_append(l, c) \in Seq(Tasks) /\ NoDup(list_append(l, c))
        /\ \A u : elem_find(list_append(l, c), u) <=> elem_find(l, u) \/ u = c
    BY <2>1, AppendLemma
  <2> QED BY <2>2 DEF c, l
<1> DEFINE s1 == [s EXCEPT !.ready = list_append(@, s.cur), !.ticks = tk]
           s2 == SetStat(s1, s.cur, "READY")
           r == SwitchTo(EnsureReady(s2))
<1>4. /\ s1 \in SchedState /\ s1.cur = s.cur /\ s1.ready = q
      /\ s1.panic = s.panic /\ s1.stat = s.stat
  <2> HIDE DEF q
  <2>1. s1 = [s EXCEPT !.ready = q, !.ticks = tk] BY DEF q
  <2> HIDE DEF s1
  <2> QED BY <1>3, <2>1 DEF SchedState
<1> HIDE DEF q, s1
<1>5. /\ s2 \in SchedState /\ s2.cur = s1.cur /\ s2.ready = s1.ready
      /\ s2.panic = s1.panic
      /\ \A u \in Tasks : s2.stat[u] = IF u = s.cur THEN "READY" ELSE s1.stat[u]
  BY <1>1, <1>4, SetStatLemma
<1> HIDE DEF s2
<1>6. QueueOK(s2) /\ NobodyRuns(s2) /\ IdleOK(s2)
  <2>1. QueueOK(s2)
    BY <1>1, <1>3, <1>4, <1>5 DEF QueueOK, Consistent
  <2>2. NobodyRuns(s2)
    BY <1>1, <1>4, <1>5 DEF NobodyRuns, Consistent
  <2>3. IdleOK(s2)
    BY <1>1, <1>4, <1>5, SchedAssumption DEF IdleOK
  <2> QED BY <2>1, <2>2, <2>3
<1>7. /\ r \in SchedState /\ Consistent(r) /\ IdleOK(r)
      /\ r.panic = s2.panic /\ SameSleepers(s2, r)
  BY <1>5, <1>6, SwitchLemma
<1> HIDE DEF r
<1>8. SameSleepers(s, r)
  BY <1>1, <1>4, <1>5, <1>7 DEF SameSleepers, Parked, Asleep
<1> QED BY <1>4, <1>5, <1>7, <1>8 DEF r, s1, s2

\* thread_yield passes its ASSERT.
LEMMA YieldLemma ==
  ASSUME NEW s \in SchedState, Consistent(s), IdleOK(s)
  PROVE  LET r == thread_yield(s)
         IN  /\ r \in SchedState /\ Consistent(r) /\ IdleOK(r)
             /\ r.panic = s.panic
             /\ SameSleepers(s, r)
<1> DEFINE s1 == [s EXCEPT !.ready = list_append(@, s.cur)]
           s2 == SetStat(s1, s.cur, "READY")
           s3 == [s EXCEPT !.ready = list_append(@, s.cur), !.ticks = s.ticks]
<1>1. /\ s.cur \in Tasks /\ s.ready \in Seq(Tasks) /\ s.ticks \in [Tasks -> Nat]
      /\ s.stat[s.cur] = "RUNNING" /\ "READY" \in task_stat
  BY DEF SchedState, Consistent, task_stat
<1>2. ~elem_find(s.ready, s.cur)
  BY <1>1 DEF Consistent
<1>3. s1 = s3
  BY DEF SchedState
<1>4. list_append(s.ready, s.cur) \in Seq(Tasks)
  BY <1>1, AppendLemma
<1>5. s1 \in SchedState /\ s1.cur = s.cur /\ s1.stat = s.stat
  <2> DEFINE q == list_append(s.ready, s.cur)
  <2>1. s1 = [s EXCEPT !.ready = q] OBVIOUS
  <2>2. q \in Seq(Tasks) BY <1>4
  <2> HIDE DEF q, s1
  <2> QED BY <2>1, <2>2, SetReadyLemma
<1>6. /\ s2 \in SchedState /\ s2.cur = s.cur
      /\ s2.stat[s.cur] = "READY"
  <2> HIDE DEF s1
  <2> QED BY <1>1, <1>5, SetStatLemma
<1>7. thread_yield(s) = schedule(s2)
  BY <1>2 DEF thread_yield, Check
<1>8. schedule(s2) = SwitchTo(EnsureReady(s2))
  <2> HIDE DEF s2
  <2> QED BY <1>6 DEF schedule, Requeue
<1>9. s2 = SetStat(s3, s.cur, "READY")
  BY <1>3
<1> DEFINE r == SwitchTo(EnsureReady(SetStat(s3, s.cur, "READY")))
<1>10. /\ r \in SchedState /\ Consistent(r) /\ IdleOK(r)
       /\ r.panic = s.panic /\ SameSleepers(s, r)
  BY <1>1, ToBackLemma
<1>11. thread_yield(s) = r
  <2> HIDE DEF s1, s2, s3
  <2> QED BY <1>7, <1>8, <1>9
<1> HIDE DEF r
<1> QED BY <1>10, <1>11

\* The clock interrupt passes schedule's ASSERT.
LEMMA TimerLemma ==
  ASSUME NEW s \in SchedState, Consistent(s), IdleOK(s)
  PROVE  LET r == intr_time_hdl(s)
         IN  /\ r \in SchedState /\ Consistent(r) /\ IdleOK(r)
             /\ r.panic = s.panic
             /\ SameSleepers(s, r)
<1>1. s.cur \in Tasks /\ s.ticks \in [Tasks -> Nat] /\ s.stat[s.cur] = "RUNNING"
  BY DEF SchedState, Consistent
<1>2. CASE s.ticks[s.cur] = 0
  <2> DEFINE tk == [s.ticks EXCEPT ![s.cur] = prio[s.cur]]
             s1 == [s EXCEPT !.ready = list_append(@, s.cur), !.ticks = tk]
  <2>1. tk \in [Tasks -> Nat]
    BY <1>1, SchedAssumption
  <2>2. ~elem_find(s.ready, s.cur)
    BY <1>1 DEF Consistent
  <2>3. intr_time_hdl(s) = SwitchTo(EnsureReady(Requeue(s)))
    BY <1>2 DEF intr_time_hdl, schedule
  <2>4. Requeue(s) = SetStat(s1, s.cur, "READY")
    BY <1>1, <2>2 DEF Requeue, Check, SchedState
  <2> HIDE DEF tk
  <2> QED BY <2>1, <2>3, <2>4, ToBackLemma
<1>3. CASE s.ticks[s.cur] # 0
  <2> DEFINE tk == [s.ticks EXCEPT ![s.cur] = @ - 1]
             r == [s EXCEPT !.ticks = tk]
  <2>1. tk \in [Tasks -> Nat]
    BY <1>1, <1>3
  <2>2. intr_time_hdl(s) = r
    BY <1>3 DEF intr_time_hdl
  <2> HIDE DEF tk
  <2>3. /\ r \in SchedState /\ r.cur = s.cur /\ r.stat = s.stat
        /\ r.ready = s.ready /\ r.panic = s.panic
    BY <2>1 DEF SchedState
  <2> HIDE DEF r
  <2>4. Consistent(r) /\ IdleOK(r) /\ SameSleepers(s, r)
    BY <2>3 DEF Consistent, IdleOK, SameSleepers
  <2> QED BY <2>2, <2>3, <2>4
<1> QED BY <1>2, <1>3

\* thread_unblock seen by the running task: one sleeper fewer.
LEMMA WakeLemma ==
  ASSUME NEW s \in SchedState, Consistent(s), IdleOK(s),
         NEW t \in Tasks \ {idle_thread}, s.stat[t] \in Asleep
  PROVE  LET r == thread_unblock(s, t)
         IN  /\ r \in SchedState /\ Consistent(r) /\ IdleOK(r)
             /\ r.panic = s.panic /\ r.cur = s.cur
             /\ \A u \in Tasks :
                  r.stat[u] = IF u = t THEN "READY" ELSE s.stat[u]
<1> DEFINE r == thread_unblock(s, t)
<1>1. QueueOK(s)
  BY DEF Consistent, QueueOK
<1>2. /\ r \in SchedState /\ QueueOK(r) /\ r.panic = s.panic /\ r.cur = s.cur
      /\ \A u \in Tasks : r.stat[u] = IF u = t THEN "READY" ELSE s.stat[u]
  BY <1>1, UnblockLemma
<1> HIDE DEF r
<1>3. Consistent(r)
  BY <1>2 DEF Consistent, QueueOK, Asleep
<1>4. IdleOK(r)
  BY <1>2, SchedAssumption DEF IdleOK
<1> QED BY <1>2, <1>3, <1>4 DEF r

\* Of several queued tasks the one at the front runs next, when the running
\* task stops and when the clock preempts it.
LEMMA FrontLemma ==
  ASSUME NEW s \in SchedState, Consistent(s), s.ready # <<>>
  PROVE  /\ \A st \in Asleep : thread_block(s, st).cur = Head(s.ready)
         /\ LET r == intr_time_hdl(s)
            IN  \/ r.cur = s.cur /\ r.ready = s.ready
                \/ r.cur = Head(s.ready)
<1>1. /\ s.cur \in Tasks /\ s.ready \in Seq(Tasks) /\ s.stat[s.cur] = "RUNNING"
      /\ ~elem_find(s.ready, s.cur)
  BY DEF SchedState, Consistent
<1>2. ASSUME NEW q, q # <<>>, NEW e, e.ready = q, e \in SchedState
      PROVE  SwitchTo(EnsureReady(e)).cur = Head(q)
  BY <1>2 DEF SwitchTo, EnsureReady, SetStat, SchedState
<1>3. ASSUME NEW st \in Asleep PROVE thread_block(s, st).cur = Head(s.ready)
  <2> DEFINE e == SetStat(s, s.cur, st)
  <2>1. st \in task_stat /\ st # "RUNNING"
    BY DEF Asleep, task_stat
  <2>2. /\ e \in SchedState /\ e.cur = s.cur /\ e.ready = s.ready
        /\ e.stat[s.cur] = st
    BY <1>1, <2>1, SetStatLemma
  <2> HIDE DEF e
  <2>3. schedule(e) = SwitchTo(EnsureReady(e))
    BY <2>1, <2>2 DEF schedule, Requeue
  <2>4. thread_block(s, st) = schedule(e)
    BY DEF thread_block, e
  <2> QED BY <1>2, <2>2, <2>3, <2>4
<1>4. CASE s.ticks[s.cur] = 0
  <2> DEFINE q == list_append(s.ready, s.cur)
             s1 == [s EXCEPT !.ready = q, !.ticks[s.cur] = prio[s.cur]]
             e == SetStat(s1, s.cur, "READY")
  <2>1. intr_time_hdl(s) = SwitchTo(EnsureReady(Requeue(s)))
    BY <1>4 DEF intr_time_hdl, schedule
  <2>2. Requeue(s) = e
    BY <1>1 DEF Requeue, Check, SchedState
  <2>3. q \in Seq(Tasks) /\ q # <<>> /\ Head(q) = Head(s.ready)
    <3> DEFINE c == s.cur
               l == s.ready
    <3>1. c \in Tasks /\ l \in Seq(Tasks) /\ l # <<>>
      BY <1>1
    <3> HIDE DEF c, l
    <3>2. /\ Append(l, c) \in Seq(Tasks) /\ Append(l, c) # <<>>
          /\ Head(Append(l, c)) = Head(l)
      BY <3>1
    <3> QED BY <3>2 DEF c, l, list_append
  <2> HIDE DEF q
  <2>4. s1 \in SchedState /\ s1.ready = q
    BY <1>1, <2>3, SchedAssumption DEF SchedState
  <2>5. e \in SchedState /\ e.ready = q
    <3>1. "READY" \in task_stat
      BY DEF task_stat
    <3> HIDE DEF s1
    <3> QED BY <1>1, <2>4, <3>1, SetStatLemma
  <2> HIDE DEF e
  <2> QED BY <1>2, <1>3, <2>1, <2>2, <2>3, <2>5
<1>5. CASE s.ticks[s.cur] # 0
  BY <1>3, <1>5 DEF intr_time_hdl, SchedState
<1> QED BY <1>4, <1>5

-----------------------------------------------------------------------------
(* thread/sync.c *)

\* One turn of sema_down at the value 0: the caller, who is in no queue yet,
\* joins the wait queue at its back and blocks.
LEMMA SemaSleepLemma ==
  ASSUME NEW s \in SchedState, Consistent(s), IdleOK(s),
         NEW q \in Semaphore, NoDup(q.waiters), ~elem_find(q.waiters, s.cur)
  PROVE  LET r == SemaSleep(s, q)
             p == SemaEnqueue(s, q)
         IN  /\ r \in SchedState /\ Consistent(r) /\ IdleOK(r)
             /\ r.panic = s.panic
             /\ \A u \in Tasks \ {idle_thread}, x \in Parked :
                  r.stat[u] = x <=> IF u = s.cur THEN "BLOCKED" = x ELSE s.stat[u] = x
             /\ p \in Semaphore /\ p.value = q.value /\ NoDup(p.waiters)
             /\ \A u : elem_find(p.waiters, u) <=> elem_find(q.waiters, u) \/ u = s.cur
<1> DEFINE c == s.cur
           w == q.waiters
           r == SemaSleep(s, q)
           p == SemaEnqueue(s, q)
<1>1. c \in Tasks /\ w \in Seq(Tasks) /\ NoDup(w) /\ ~elem_find(w, c)
  BY DEF SchedState, Semaphore
<1>2. r = thread_block(s, "BLOCKED")
  BY DEF SemaSleep, Check
<1>3. "BLOCKED" \in Asleep
  BY DEF Asleep
<1>4. /\ r \in SchedState /\ Consistent(r) /\ IdleOK(r) /\ r.panic = s.panic
      /\ \A u \in Tasks \ {idle_thread}, x \in Parked :
           r.stat[u] = x <=> IF u = s.cur THEN "BLOCKED" = x ELSE s.stat[u] = x
  BY <1>2, <1>3, BlockLemma
<1>5. p = [q EXCEPT !.waiters = list_append(w, c)]
  BY DEF SemaEnqueue
<1> HIDE DEF c, w, r, p
<1>6. /\ list_append(w, c) \in Seq(Tasks) /\ NoDup(list_append(w, c))
      /\ \A u : elem_find(list_append(w, c), u) <=> elem_find(w, u) \/ u = c
  BY <1>1, AppendLemma
<1>7. p \in Semaphore /\ p.value = q.value /\ p.waiters = list_append(w, c)
  BY <1>5, <1>6 DEF Semaphore
<1> QED BY <1>4, <1>6, <1>7 DEF c, w, r, p

\* The way out of sema_down leaves the wait queue alone.
LEMMA SemaTakeLemma ==
  ASSUME NEW q \in Semaphore, q.value = 1
  PROVE  LET p == SemaTake(q)
         IN  p \in Semaphore /\ p.value = 0 /\ p.waiters = q.waiters
<1>1. q.value - 1 = 0
  OBVIOUS
<1>2. SemaTake(q) = [q EXCEPT !.value = 0]
  BY <1>1 DEF SemaTake
<1> QED BY <1>2 DEF Semaphore

\* sema_up passes its ASSERTs when every waiter is blocked: exactly the first
\* waiter leaves the queue, READY, and the running task keeps the processor.
LEMMA SemaWakeLemma ==
  ASSUME NEW s \in SchedState, Consistent(s), IdleOK(s),
         NEW q \in Semaphore, q.value = 0, NoDup(q.waiters),
         \A u : elem_find(q.waiters, u) =>
                  u \in Tasks \ {idle_thread} /\ s.stat[u] = "BLOCKED"
  PROVE  LET r == SemaWake(s, q)
             p == SemaPost(q)
         IN  /\ r \in SchedState /\ Consistent(r) /\ IdleOK(r)
             /\ r.panic = s.panic /\ r.cur = s.cur
             /\ p \in Semaphore /\ p.value = 1 /\ NoDup(p.waiters)
             /\ \A u : elem_find(p.waiters, u)
                         <=> elem_find(q.waiters, u) /\ u # Head(q.waiters)
             /\ \A u \in Tasks :
                  r.stat[u] = IF elem_find(q.waiters, u) /\ ~elem_find(p.waiters, u)
                                THEN "READY" ELSE s.stat[u]
<1> DEFINE w == q.waiters
           r == SemaWake(s, q)
           p == SemaPost(q)
<1>1. w \in Seq(Tasks) /\ NoDup(w)
  BY DEF Semaphore
<1>2. CASE w = <<>>
  <2>1. \A u : ~elem_find(w, u)
    BY <1>2 DEF elem_find
  <2>2. r = s
    BY <1>2 DEF SemaWake, Check
  <2>3. p = [value |-> 1, waiters |-> w]
    BY <1>2 DEF SemaPost
  <2>4. p \in Semaphore /\ p.value = 1 /\ p.waiters = w
    BY <1>1, <2>3 DEF Semaphore
  <2> HIDE DEF w, r, p
  <2>5. /\ NoDup(p.waiters)
        /\ \A u : elem_find(p.waiters, u) <=> elem_find(w, u) /\ u # Head(w)
        /\ \A u \in Tasks : r.stat[u] = IF elem_find(w, u) /\ ~elem_find(p.waiters, u)
                                          THEN "READY" ELSE s.stat[u]
    BY <1>1, <2>1, <2>2, <2>4
  <2> QED BY <2>2, <2>4, <2>5 DEF w, r, p
<1>3. CASE w # <<>>
  <2> DEFINE h == Head(w)
  <2>1. /\ h \in Tasks /\ elem_find(w, h)
        /\ list_pop(w) \in Seq(Tasks) /\ NoDup(list_pop(w))
        /\ \A u : elem_find(list_pop(w), u) <=> elem_find(w, u) /\ u # h
    <3> HIDE DEF w
    <3> QED BY <1>1, <1>3, PopLemma
  <2>2. h \in Tasks \ {idle_thread} /\ s.stat[h] \in Asleep
    BY <2>1 DEF Asleep
  <2>3. r = thread_unblock(s, h)
    BY <1>3 DEF SemaWake, Check
  <2>4. p = [value |-> 1, waiters |-> list_pop(w)]
    BY <1>3 DEF SemaPost
  <2> HIDE DEF w, h, r, p
  <2>5. p \in Semaphore /\ p.value = 1 /\ p.waiters = list_pop(w)
    BY <2>1, <2>4 DEF Semaphore
  <2>6. /\ r \in SchedState /\ Consistent(r) /\ IdleOK(r)
        /\ r.panic = s.panic /\ r.cur = s.cur
        /\ \A u \in Tasks : r.stat[u] = IF u = h THEN "READY" ELSE s.stat[u]
    BY <2>2, <2>3, WakeLemma
  <2>7. /\ NoDup(p.waiters)
        /\ \A u : elem_find(p.waiters, u) <=> elem_find(w, u) /\ u # Head(w)
        /\ \A u \in Tasks : r.stat[u] = IF elem_find(w, u) /\ ~elem_find(p.waiters, u)
                                          THEN "READY" ELSE s.stat[u]
    BY <2>1, <2>5, <2>6 DEF h
  <2> QED BY <2>5, <2>6, <2>7 DEF w, r, p
<1> QED BY <1>2, <1>3
=============================================================================
