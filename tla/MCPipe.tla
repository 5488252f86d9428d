------------------------------- MODULE MCPipe -------------------------------
(* Two processes that write a pipe, one that reads it, and the idle thread. *)
EXTENDS Pipe

CONSTANTS w1, w2, r1, idle

MCTasks == {w1, w2, r1, idle}

MCPrio == [t \in MCTasks |-> 0]

MCBoot == <<r1, idle, w1, w2>>
=============================================================================
