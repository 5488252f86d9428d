------------------------------ MODULE MCMemory ------------------------------
(* A process and the child it forks; arenas of two blocks. *)
EXTENDS Memory

CONSTANTS q, p

MCBlocks == [d \in Descs |-> 2]
=============================================================================
