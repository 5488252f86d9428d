------------------------------ MODULE Catalog ------------------------------
(***************************************************************************)
(* What the file system promises to one program at a time: a map from      *)
(* names to contents, which creat, write and unlink change in one step,    *)
(* and nothing else does.                                                  *)
(***************************************************************************)
CONSTANTS Names, Data, Empty, Absent

VARIABLE files

Init == files = [n \in Names |-> Absent]

Create(n) == files[n] = Absent /\ files' = [files EXCEPT ![n] = Empty]

Store(n, d) == files[n] # Absent /\ files' = [files EXCEPT ![n] = d]

Remove(n) == files[n] # Absent /\ files' = [files EXCEPT ![n] = Absent]

Next == \E n \in Names :
  files'[n] # files[n] /\ (Create(n) \/ Remove(n) \/ \E d \in Data : Store(n, d))

Spec == Init /\ [][Next]_files
=============================================================================
