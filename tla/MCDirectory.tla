---------------------------- MODULE MCDirectory ----------------------------
(***************************************************************************)
(* One program that changes files while another lists the directory.       *)
(***************************************************************************)
EXTENDS Directory, TLC

\* Names are only compared.
Sym == Permutations(Names)
=============================================================================
