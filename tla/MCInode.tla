------------------------------ MODULE MCInode ------------------------------
(* Two processes and two files whose inodes are not in the same sectors. *)
EXTENDS Inode, TLC

CONSTANTS p1, p2, f, g

MCNear == [i \in Inodes |-> {i}]

MCSymmetry == {a @@ b : a \in Permutations({p1, p2}), b \in Permutations({f, g})}
=============================================================================
