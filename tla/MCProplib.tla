------------------------------ MODULE MCProplib ------------------------------
(* Two threads and their keys; one string with a special character, data    *)
(* whose last group of base64 is padded, and numbers on both sides of the   *)
(* largest signed one.                                                      *)
EXTENDS Plist

MCMayUse(t, k) == IF t = 1 THEN k \in {1, 3, 4} ELSE k = 5
MCSpell(k) == <<37 + k>>
MCLeaf == {[type |-> "str", name |-> <<60, 97>>], [type |-> "data", name |-> <<255, 16, 7, 130>>]}
============================================================================
