--------------------------- MODULE MCPkgdbAccess ---------------------------
(***************************************************************************)
(* PkgdbAccess with three processes and every combination of commands.     *)
(***************************************************************************)
EXTENDS PkgdbAccess

CONSTANTS p1, p2, p3    \* the processes

(* The processes are interchangeable: of the assignments of commands that  *)
(* differ by permuting them one is enough.                                 *)
Rank(p) == CHOOSE n \in 1..5 :
  cmd[p] = <<"transaction", "edit", "alternatives", "clean-orphans", "download">>[n]
MCInit == Init /\ Rank(p1) <= Rank(p2) /\ Rank(p2) <= Rank(p3)

MCSpec == MCInit /\ [][Next]_vars /\ \A p \in Proc : WF_vars(Progress(p))
=============================================================================
