------------------------------ MODULE MCCommit ------------------------------
(***************************************************************************)
(* Commit on a small instance: two packages, two versions, transactions of *)
(* both packages, two commands in a row and one failure or crash anywhere. *)
(***************************************************************************)
EXTENDS Commit

CONSTANTS a, b    \* the two packages

(* The packages are interchangeable, so of two initial databases that      *)
(* differ by swapping them one is enough.  (SYMMETRY would say the same,   *)
(* but is unsound for the liveness properties.)                            *)
Rank(p) == 2 * disk[p].ver + (IF disk[p].state = "installed" THEN 1 ELSE 0)
MCInit == Init /\ Rank(a) <= Rank(b)

MCSpec == MCInit /\ [][Next]_vars /\ WF_vars(CommitStep \/ ReconfStep \/ End)
=============================================================================
