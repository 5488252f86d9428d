------------------------------- MODULE MCFiles -------------------------------
(* Two processes, one of which is there when the system starts. *)
EXTENDS Files

CONSTANTS p1, p2
==============================================================================
