----------------------------- MODULE MCProcess -----------------------------
(* main, init, idle and pages for three more processes. *)
EXTENDS Process, TLC

CONSTANTS main, init, idle, p1, p2, p3

MCTasks == {main, init, idle, p1, p2, p3}

Pages == Permutations({p1, p2, p3})

MCPrio == [t \in MCTasks |-> 0]
=============================================================================
