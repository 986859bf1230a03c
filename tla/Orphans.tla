------------------------------ MODULE Orphans -------------------------------
(***************************************************************************)
(* Which packages nobody needs: flappy_find_pkg_orphans                    *)
(* (lib/package_orphans.c) with the dependency trees it asks for           *)
(* (flappy_get_pkg_fulldeptree, lib/package_fulldeptree.c).  In automatic  *)
(* mode (flappy-remove -o) the package database is scanned until nothing   *)
(* is added; in recursive mode (flappy-remove -R) the tree below every     *)
(* package of the growing result is walked.                                *)
(*                                                                         *)
(* The walk is depth first with a stack of frames; `items' and `result'    *)
(* are the static variables of the code.  The list `dbase' of an item is   *)
(* never read: only a finished item has one, and add_deps_recursive        *)
(* returns at once for those.                                              *)
(***************************************************************************)
EXTENDS PkgPool

VARIABLES
  orphansUser, \* orphans_user: {} in automatic mode, one package in recursive mode
  opc,      \* "idle", "scan", "next", "tree", "rdeps" or "found"
  orphans,  \* the array returned, of package names
  scan,     \* automatic mode: the packages left in this pass over the database
  added,    \* automatic mode: something was added in this pass
  opos,     \* recursive mode: the element of `orphans' being processed
  rdeps,    \* recursive mode: what is left of its dependency tree
  tree,     \* the stack of ordered_depends: [pkg, todo]
  items,    \* the names seen by the walk
  result    \* its result

ovars == <<orphansUser, opc, orphans, scan, added, opos, rdeps, tree, items, result>>

OrphansIdle ==
  /\ orphansUser = {} /\ opc = "idle" /\ orphans = <<>> /\ scan = {} /\ added = FALSE
  /\ opos = 1 /\ rdeps = <<>> /\ tree = <<>> /\ items = {} /\ result = <<>>

(* flappy_find_pkg_orphans is called for all orphans, or for a package. *)
FindAutomatic ==
  /\ opc = "idle" /\ opc' = "scan" /\ orphansUser' = {} /\ orphans' = <<>>
  /\ scan' = Installed /\ added' = FALSE
  /\ UNCHANGED <<opos, rdeps, tree, items, result>>

FindRecursive(n) ==
  /\ opc = "idle" /\ opc' = "next" /\ orphansUser' = {n} /\ orphans' = <<n>> /\ opos' = 1
  /\ UNCHANGED <<scan, added, rdeps, tree, items, result>>

(* The caller has the array. *)
OrphansTaken ==
  /\ opc = "found" /\ opc' = "idle"
  /\ UNCHANGED <<orphansUser, orphans, scan, added, opos, rdeps, tree, items, result>>

(* Bug: one reverse dependency in the array is enough. *)
OneQueued(S) == S = {} \/ S \cap ToSet(orphans) # {}

(* All of S in the array: every reverse dependency is queued. *)
AllQueued(S) == S \subseteq ToSet(orphans)

(* Automatic mode: one package of the pass over the database. *)
ScanAutomatic ==
  /\ opc = "scan" /\ scan # {}
  /\ LET n == Min(scan)
         add == db[n].auto /\ n \notin ToSet(orphans) /\ AllQueued(Revdeps(n))
     IN /\ orphans' = IF add THEN Append(orphans, n) ELSE orphans
        /\ added' = (added \/ add)
  /\ scan' = scan \ {Min(scan)}
  /\ UNCHANGED <<orphansUser, opc, opos, rdeps, tree, items, result>>

(* The end of a pass: another one if it added something. *)
ScanEnd ==
  /\ opc = "scan" /\ scan = {}
  /\ IF added THEN scan' = Installed /\ UNCHANGED opc
              ELSE opc' = "found" /\ UNCHANGED scan
  /\ added' = FALSE
  /\ UNCHANGED <<orphansUser, orphans, opos, rdeps, tree, items, result>>

(* Recursive mode: the next element's dependency tree is asked for. *)
NextElement ==
  /\ opc = "next"
  /\ IF opos > Len(orphans)
       THEN opc' = "found" /\ UNCHANGED <<tree, items, result>>
       ELSE /\ opc' = "tree"
            /\ tree' = <<[pkg |-> Inst(orphans[opos]),
                          todo |-> meta[Inst(orphans[opos])].deps]>>
            /\ items' = {orphans[opos]} /\ result' = <<>>
  /\ UNCHANGED <<orphansUser, orphans, scan, added, opos, rdeps>>

(* add_deps_recursive of an item that is not finished puts it in front. *)
InFront(n) == IF n \in ToSet(result) THEN result ELSE <<n>> \o result

(* One dependency of the package on top of the stack. *)
TreeDep ==
  LET top == Head(tree)  p == Head(top.todo)  cur == DbFind(p)
      rest == [top EXCEPT !.todo = Tail(@)]
      skip == cur = NotFound \/ ProvidesName(top.pkg, p.name)
      known == IF p.name \in items THEN p.name ELSE cur[1]
  IN /\ opc = "tree" /\ tree # <<>> /\ Head(tree).todo # <<>>
     /\ \/ /\ skip
           /\ tree' = <<rest>> \o Tail(tree) /\ UNCHANGED <<items, result>>
        \/ /\ ~skip /\ known \in items
           /\ tree' = <<rest>> \o Tail(tree) /\ result' = InFront(known) /\ UNCHANGED items
        \/ /\ ~skip /\ known \notin items
           /\ tree' = <<[pkg |-> cur, todo |-> meta[cur].deps], rest>> \o Tail(tree)
           /\ items' = items \cup {cur[1]} /\ UNCHANGED result
     /\ UNCHANGED <<orphansUser, opc, orphans, scan, added, opos, rdeps>>

(* All dependencies of a package are done: it goes to the head, except the *)
(* package asked for, whose end is the end of the walk (cleanup).          *)
TreeReturn ==
  /\ opc = "tree" /\ tree # <<>> /\ Head(tree).todo = <<>>
  /\ tree' = Tail(tree)
  /\ IF Len(tree) > 1
       THEN result' = InFront(Head(tree).pkg[1]) /\ UNCHANGED <<opc, rdeps, items>>
       ELSE opc' = "rdeps" /\ rdeps' = result /\ items' = {} /\ UNCHANGED result
  /\ UNCHANGED <<orphansUser, orphans, scan, added, opos>>

(* One package of the tree: added if it was installed automatically and    *)
(* everything that requires it is queued.                                  *)
ScanTree ==
  /\ opc = "rdeps" /\ rdeps # <<>>
  /\ LET n == Head(rdeps)
         add == n \notin ToSet(orphans) /\ db[n].auto /\ AllQueued(Revdeps(n))
     IN orphans' = IF add THEN Append(orphans, n) ELSE orphans
  /\ rdeps' = Tail(rdeps)
  /\ UNCHANGED <<orphansUser, opc, scan, added, opos, tree, items, result>>

ScanTreeEnd ==
  /\ opc = "rdeps" /\ rdeps = <<>>
  /\ opc' = "next" /\ opos' = opos + 1
  /\ UNCHANGED <<orphansUser, orphans, scan, added, rdeps, tree, items, result>>

FindOrphans ==
  ScanAutomatic \/ ScanEnd \/ NextElement \/ TreeDep \/ TreeReturn \/ ScanTree \/ ScanTreeEnd

(* The search alone, for a caller that leaves the database as it is. *)
FindNext ==
  /\ FindAutomatic \/ (\E n \in Installed : FindRecursive(n)) \/ FindOrphans \/ OrphansTaken
  /\ UNCHANGED pool

OrphansSpec == PoolTypeOK /\ OrphansIdle /\ [][FindNext]_<<pool, ovars>>

-----------------------------------------------------------------------------
(* What is left over once R is gone, said without an order: the smallest   *)
(* set with R in it that has every automatic package all of whose          *)
(* dependents it has.  Without R, also those that never had a dependent.   *)
Dropped(R, S) ==
  /\ R \subseteq S
  /\ \A n \in Installed :
       db[n].auto /\ Revdeps(n) \subseteq S /\ (R # {} => Revdeps(n) # {}) => n \in S

LeftOver(R) == {n \in Installed : \A S \in SUBSET Installed : Dropped(R, S) => n \in S}

(* flappy-remove -o and -R remove exactly what is left over, whatever the  *)
(* order in which the database and the dependency trees are read, and so   *)
(* nothing that a package which stays depends on                           *)
(* (flappy_find_pkg_orphans).                                              *)
OrphansExact == opc = "found" => ToSet(orphans) = LeftOver(orphansUser)

(* The dependency tree and the reverse dependencies agree on who answers a *)
(* dependency: the database is complete, a virtual package is not the name *)
(* of an installed one too, and no package provides what it depends on.    *)
Regular ==
  \A m \in Installed : \A p \in ToSet(meta[Inst(m)].deps) :
    /\ DbFind(p) = Inst(DepTarget(p)) /\ DepTarget(p) \in Installed
    /\ p.name \in Installed => DepTarget(p) = p.name
    /\ ~ProvidesName(Inst(m), p.name)
=============================================================================
