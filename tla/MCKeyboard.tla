----------------------------- MODULE MCKeyboard -----------------------------
(* One process that reads the keyboard and the idle thread. *)
EXTENDS Keyboard

CONSTANTS r1, idle

MCTasks == {r1, idle}

MCPrio == [t \in MCTasks |-> 0]

MCBoot == <<r1, idle>>
=============================================================================
