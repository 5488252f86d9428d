------------------------------ MODULE LockSpec ------------------------------
(***************************************************************************)
(* What a re-entrant lock promises: one owner at a time, who may take it   *)
(* again and gives it up by as many releases.                              *)
(***************************************************************************)
EXTENDS Naturals

CONSTANTS Threads, NULL, MaxDepth

VARIABLES owner, depth

lvars == <<owner, depth>>

Init == owner = NULL /\ depth = 0

Acquire(t) == /\ owner = NULL
              /\ owner' = t /\ depth' = 1

Reenter(t) == /\ owner = t /\ depth < MaxDepth
              /\ depth' = depth + 1 /\ UNCHANGED owner

Release(t) == /\ owner = t
              /\ depth' = depth - 1
              /\ owner' = IF depth = 1 THEN NULL ELSE t

Next == \E t \in Threads : Acquire(t) \/ Reenter(t) \/ Release(t)

Spec == Init /\ [][Next]_lvars
=============================================================================
