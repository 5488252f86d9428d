-------------------------------- MODULE Pipe --------------------------------
(***************************************************************************)
(* pipe/pipe.c: processes that read and write one pipe, which is an        *)
(* ioqueue.  pipe_read and pipe_write fix the number of characters they    *)
(* move when they are called, from the length of the queue at that moment. *)
(***************************************************************************)
EXTENDS IoQueue

CONSTANT Writers  \* the processes with the other end of the pipe

ASSUME PipeAssumption == Writers \subseteq Tasks \ {idle_thread}

lesser(a, b) == IF a > b THEN b ELSE a

PipeTypeOK == QTypeOK(MaxCount)

-----------------------------------------------------------------------------

pipe_read(t) ==
  /\ Exec(t)
  /\ pc[t] = "user"
  /\ t \in Readers
  /\ \E count \in 1..MaxCount : Begin(t, "get", lesser(ioq_length(ioq), count))

\* Mutant of pipe_write: the room left is not consulted.
Mut_pipe_write(t) ==
  /\ Exec(t)
  /\ pc[t] = "user"
  /\ t \in Writers
  /\ \E count \in 1..MaxCount : Begin(t, "put", count)

\* ioq_left counts all the cells of the buffer, the one that has to stay empty
\* too.
pipe_write(t) ==
  /\ Exec(t)
  /\ pc[t] = "user"
  /\ t \in Writers
  /\ \E count \in 1..MaxCount :
       Begin(t, "put", lesser(bufsize - ioq_length(ioq), count))

PipeNext ==
  \/ \E t \in Threads : pipe_read(t) \/ pipe_write(t) \/ QueueCode(t)
  \/ Timer \/ Idle

PipeSpec == QInit /\ [][PipeNext]_qvars

-----------------------------------------------------------------------------
(* Properties *)

\* A call of pipe_read never sleeps, whoever else reads, and a call of
\* pipe_write sleeps at most for its last character.
ShortWait ==
  \A t \in Threads : pc[t] \in {"lock", "slot"} => role[t] = "put" /\ left[t] = 1

=============================================================================
