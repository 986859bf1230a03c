------------------------------ MODULE MCRbTree ------------------------------
(* Red-black trees over a few keys, in every order of insertions and removals. *)
EXTENDS RbTree

CONSTANT N      \* how many keys there are

MCKeys == 1..N
============================================================================
