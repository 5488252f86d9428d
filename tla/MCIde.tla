------------------------------- MODULE MCIde -------------------------------
(* A kernel thread and a process that use the disk, and the idle thread. *)
EXTENDS Ide

CONSTANTS k, u, idle

MCTasks == {k, u, idle}

MCPrio == [t \in MCTasks |-> 0]

MCBoot == <<u, idle, k>>

MCOps == [m \in {"slow", "stale"} |-> IF m = "slow" THEN {"write"} ELSE {"read"}]
=============================================================================
