------------------------------ MODULE MCDeletion ------------------------------
(***************************************************************************)
(* A small instance of AccountDeletion for TLC: one user's images.         *)
(***************************************************************************)
EXTENDS AccountDeletion

CONSTANTS ann

MCOwnerOf == [i \in Images |-> ann]
=============================================================================
