------------------------------- MODULE MCSync -------------------------------
(* Three threads, two of them kernel threads, and the idle thread. *)
EXTENDS Sync

CONSTANTS k1, k2, u1, idle

MCTasks == {k1, k2, u1, idle}

MCPrio == [t \in MCTasks |-> 0]

MCBoot == <<u1, idle, k1, k2>>
=============================================================================
