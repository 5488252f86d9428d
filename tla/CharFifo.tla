------------------------------ MODULE CharFifo ------------------------------
(* What an ioqueue promises: a bounded first-in first-out queue.           *)
EXTENDS Naturals, Sequences

CONSTANTS
  Chars,
  Capacity

VARIABLE items

Init == items = <<>>

Put == /\ Len(items) < Capacity
       /\ \E c \in Chars : items' = Append(items, c)

Get == /\ items # <<>>
       /\ items' = Tail(items)

Next == Put \/ Get

Spec == Init /\ [][Next]_items
=============================================================================
