--------------------------- MODULE MCAlternatives ---------------------------
(***************************************************************************)
(* Alternatives with two groups: a group's links are its own, all packages *)
(* of the group share one of them, and a version of group 1 may have a     *)
(* second one.                                                             *)
(***************************************************************************)
EXTENDS Alternatives

CONSTANT MaxPkg   \* bound: packages are 1..MaxPkg

MCPkg == 1..MaxPkg
At(d, n) == [dir |-> d, name |-> n]

(* Names: g is the shared link of group g, 10 + g one beside the target,   *)
(* 100 * p + g package p's file for the group.                             *)
Dir(g) == IF g = 1 THEN "bin" ELSE "lib"
Target(p, g) == At(Dir(g), 100 * p + g)
Shared(p, g) == [link |-> At("bin", g), target |-> Target(p, g)]
Beside(p, g) == [link |-> At("here", 10 + g), target |-> Target(p, g)]
MCPath == UNION {{At("bin", g), At(Dir(g), 10 + g)} \cup {Target(p, g) : p \in Pkg} : g \in Group}

Lists(p, g) ==
  {<<>>, <<Shared(p, g), Beside(p, g)>>} \cup IF g = 1 THEN {<<Shared(p, g)>>} ELSE {}
MCOffer ==
  [p \in Pkg |-> {[g \in Group |-> IF g = 1 THEN s ELSE t] : s \in Lists(p, 1), t \in Lists(p, 2)}]
=============================================================================
