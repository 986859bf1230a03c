------------------------------ MODULE MCRindex ------------------------------
(* A library package q whose second version has another library, and a      *)
(* package p whose versions need the one and the other.  Version 1 of p     *)
(* reverts its version 2.                                                   *)
EXTENDS Rindex, TLC

CONSTANTS c1, c2, c3

Symmetry == Permutations(Proc)
MCProvides(n, v) == IF n = "q" THEN {v} ELSE {}
MCRequires(n, v) == IF n = "p" THEN {v} ELSE {}
MCArgs == {<<f>> : f \in {"p", "q"} \X {1, 2}} \cup {<<<<"p", 2>>, <<"q", 2>>>>, <<<<"p", 1>>, <<"q", 2>>>>}
OneArg == {<<<<"p", 2>>>>}
MCReverts(n, v)  == IF n = "p" /\ v = 1 THEN {2} ELSE {}
============================================================================
