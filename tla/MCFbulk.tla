------------------------------ MODULE MCFbulk ------------------------------
(***************************************************************************)
(* Fbulk with every graph of dependencies over N packages, and main        *)
(* walking up to MaxRoots of them in any order (it meets the others as     *)
(* dependencies).                                                          *)
(***************************************************************************)
EXTENDS Fbulk

CONSTANT MaxRoots    \* bound: packages main finds by itself

MCInit == Init /\ Len(roots) <= MaxRoots

MCSpec == MCInit /\ [][Next]_vars /\ WF_vars(Scheduler)
                 /\ \A i \in Item : WF_vars(BuildEnds(i))
=============================================================================
