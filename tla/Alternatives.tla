---------------------------- MODULE Alternatives ----------------------------
(***************************************************************************)
(* The alternatives framework (lib/package_alternatives.c): packages that  *)
(* provide the same group, of which the first in the group's list is the   *)
(* current one and has its symbolic links on the disk.  The transaction    *)
(* calls _unregister when a package is removed or about to be updated      *)
(* (lib/package_remove.c) and _register when it was unpacked               *)
(* (lib/package_unpack.c), before the new record is in the package         *)
(* database; flappy-alternatives -s calls _set.                            *)
(*                                                                         *)
(* Groups are numbers in the order of a dictionary's keys.  A path is a    *)
(* directory and a name.  What a symbolic link says is the way from it to  *)
(* the target (relpath); the model keeps the target.  Calls on the file    *)
(* system succeed.  Every loop over a dictionary's groups takes one group  *)
(* a step.                                                                 *)
(***************************************************************************)
EXTENDS Naturals, Sequences, FiniteSets, SequencesExt

CONSTANTS
  Pkg,
  MaxGroup,   \* bound: groups are 1..MaxGroup
  Path,       \* [dir, name]
  Here,       \* the directory of a link given by its name alone
  None,       \* no link
  Offer       \* package -> what its versions have as "alternatives"

Group == 1..MaxGroup
Entry == [link : Path \cup {[dir |-> Here, name |-> q.name] : q \in Path}, target : Path]

(* A relative link lives beside its target. *)
LinkPath(e) ==
  IF e.link.dir = Here THEN [dir |-> e.target.dir, name |-> e.link.name] ELSE e.link

(* The packages agree on the links: a group's links are its own, and a     *)
(* version gives each of them one target.                                  *)
ASSUME AltAssumption ==
  /\ MaxGroup \in Nat /\ Here \notin {q.dir : q \in Path} /\ None \notin Path /\ None \notin Pkg
  /\ \A p \in Pkg : Offer[p] \subseteq [Group -> Seq(Entry)]
  /\ \A p \in Pkg : \A new \in Offer[p] : \A g \in Group :
       \A e, f \in ToSet(new[g]) : LinkPath(e) = LinkPath(f) => e.target = f.target
  /\ \A p, q \in Pkg : \A old \in Offer[p], new \in Offer[q] : \A g, h \in Group :
       \A e \in ToSet(old[g]), f \in ToSet(new[h]) :
         LinkPath(e) \in Path /\ (LinkPath(e) = LinkPath(f) => g = h)

VARIABLES
  alternatives,  \* _FLAPPY_ALTERNATIVES_: group -> packages, <<>> if there is no such group
  installed,
  offers,        \* "alternatives" of the installed packages: group -> entries
  links,         \* the symbolic links on the disk: path -> target, or None
  apc, op,        \* the loop that runs, and what for
  pkg,           \* the package it is about
  new, pure,     \* the version unpacked: its "alternatives", and no dependencies
  left,          \* groups the loop has not come to
  mine           \* pkg_alternatives in _unregister

local == <<op, pkg, new, pure>>
avars == <<alternatives, installed, offers, links, apc, local, left, mine>>

Nothing == [g \in Group |-> <<>>]

AltTypeOK ==
  /\ alternatives \in [Group -> Seq(Pkg)]
  /\ installed \subseteq Pkg
  /\ offers \in [Pkg -> [Group -> Seq(Entry)]]
  /\ links \in [Path -> Path \cup {None}]
  /\ apc \in {"idle", "unregister", "obsolete", "register", "set"}
  /\ op \in {"none", "install", "reinstall", "update", "remove", "set"}
  /\ pkg \in Pkg \cup {None}
  /\ new \in [Group -> Seq(Entry)] /\ pure \in BOOLEAN
  /\ left \subseteq Group
  /\ mine \in [Group -> Seq(Entry)]

RemoveSymlinks(lk, array) ==
  [q \in Path |-> IF q \in {LinkPath(e) : e \in ToSet(array)} THEN None ELSE lk[q]]

(* A later entry of the array replaces the link of an earlier one. *)
CreateSymlinks(lk, array) ==
  [q \in Path |-> LET at == {i \in DOMAIN array : LinkPath(array[i]) = q}
                  IN IF at = {} THEN lk[q] ELSE array[Max(at)].target]

Provided(offer) == {g \in Group : offer[g] # <<>>}
Leads(g, p) == alternatives[g] # <<>> /\ Head(alternatives[g]) = p

(* The head of a group's list moves to the package n. *)
SwitchAltGroup(lk, g, n) == CreateSymlinks(lk, offers[n][g])

-----------------------------------------------------------------------------
(* Bug: an update takes the package off the list as well. *)
UnregisterAnyway(g) ==
  /\ links' = IF Leads(g, pkg) THEN RemoveSymlinks(links, mine[g]) ELSE links
  /\ alternatives' = [alternatives EXCEPT ![g] = RemoveFirst(@, pkg)]
  /\ UNCHANGED mine

(* flappy_alternatives_unregister.  Once the group was switched to another *)
(* package, the rest of the loop looks into that package's alternatives.   *)
UnregisterGroup(g) ==
  LET cleared == IF Leads(g, pkg) THEN RemoveSymlinks(links, mine[g]) ELSE links
      rest == IF op = "update" THEN alternatives[g] ELSE RemoveFirst(alternatives[g], pkg)
      switch == op # "update" /\ Leads(g, pkg) /\ rest # <<>>
  IN /\ alternatives' = [alternatives EXCEPT ![g] = rest]
     /\ links' = IF switch THEN SwitchAltGroup(cleared, g, Head(rest)) ELSE cleared
     /\ mine' = IF switch THEN offers[Head(rest)] ELSE mine

(* Bug: the list is left alone if another package is the current one. *)
PruneCurrent(g, lk) ==
  LET rest == RemoveFirst(alternatives[g], pkg)
  IN IF Leads(g, pkg) /\ rest # <<>>
       THEN /\ alternatives' = [alternatives EXCEPT ![g] = rest]
            /\ links' = SwitchAltGroup(lk, g, Head(rest))
       ELSE links' = lk /\ UNCHANGED alternatives

(* prune_altgroup: an update drops the group.  A package that became pure  *)
(* meta gives way to the first provider left, another one to the last.     *)
Prune(g, lk) ==
  LET rest == RemoveFirst(alternatives[g], pkg)
      latest == <<Last(rest)>> \o RemoveFirst(rest, Last(rest))
      switch == Leads(g, pkg) /\ rest # <<>>
      list == IF switch /\ ~pure THEN latest ELSE rest
  IN /\ alternatives' = [alternatives EXCEPT ![g] = list]
     /\ links' = IF switch THEN SwitchAltGroup(lk, g, Head(list)) ELSE lk

(* remove_obsoletes for one group of the installed version. *)
RemoveObsolete(g) ==
  LET cleared == IF offers[pkg][g] # new[g] /\ Leads(g, pkg)
                   THEN RemoveSymlinks(links, new[g]) ELSE links
  IN IF new[g] = <<>> THEN Prune(g, cleared) ELSE links' = cleared /\ UNCHANGED alternatives

(* Bug: nothing is done for a package that is on the list. *)
RegisterOnce(g) ==
  /\ alternatives' =
       IF pkg \in ToSet(alternatives[g]) THEN alternatives
       ELSE [alternatives EXCEPT ![g] = Append(@, pkg)]
  /\ links' = IF alternatives[g] = <<>> THEN CreateSymlinks(links, new[g]) ELSE links

(* flappy_alternatives_register for one group: the last on the list, with  *)
(* the links if it is the first.                                           *)
RegisterGroup(g) ==
  /\ alternatives' =
       IF pkg \in ToSet(alternatives[g]) THEN alternatives
       ELSE [alternatives EXCEPT ![g] = Append(@, pkg)]
  /\ links' = IF alternatives[g] = <<>> \/ Leads(g, pkg)
                THEN CreateSymlinks(links, new[g]) ELSE links

(* flappy_alternatives_set for one group. *)
SetGroup(g) ==
  LET array == alternatives[g]
      cleared == IF Leads(g, pkg) THEN links
                 ELSE RemoveSymlinks(links, offers[Head(array)][g])
  IN IF array = <<>> THEN UNCHANGED <<alternatives, links>>
     ELSE /\ alternatives' = [alternatives EXCEPT ![g] = <<pkg>> \o RemoveFirst(@, pkg)]
          /\ links' = CreateSymlinks(cleared, offers[pkg][g])

-----------------------------------------------------------------------------
Call(loop, o, p, n, b, groups) ==
  /\ apc = "idle"
  /\ apc' = loop /\ op' = o /\ pkg' = p /\ new' = n /\ pure' = b /\ left' = groups
  /\ mine' = offers[p]
  /\ UNCHANGED <<alternatives, links, installed, offers>>

Return ==
  /\ apc' = "idle" /\ op' = "none" /\ pkg' = None /\ new' = Nothing /\ pure' = FALSE
  /\ left' = {} /\ mine' = Nothing
  /\ UNCHANGED <<alternatives, links>>

(* FLAPPY_TRANS_INSTALL, and _REINSTALL, which unpacks the same version    *)
(* over itself.                                                            *)
Install(p, n) == p \notin installed /\ Call("register", "install", p, n, FALSE, Provided(n))

Reinstall(p) ==
  p \in installed /\ Call("obsolete", "reinstall", p, offers[p], FALSE, Provided(offers[p]))

(* FLAPPY_TRANS_UPDATE: flappy_remove_pkg with update set, then            *)
(* flappy_unpack_binary_pkg.                                               *)
Update(p, n, b) ==
  p \in installed /\ Call("unregister", "update", p, n, b, Provided(offers[p]))

(* FLAPPY_TRANS_REMOVE. *)
RemovePkg(p) ==
  p \in installed /\ Call("unregister", "remove", p, Nothing, FALSE, Provided(offers[p]))

(* flappy-alternatives -s p, with -g g or for all its groups. *)
SetAll(p) ==
  /\ p \in installed /\ offers[p] # Nothing
  /\ Call("set", "set", p, Nothing, FALSE, Provided(offers[p]))

Set(p, g) ==
  /\ p \in installed /\ offers[p][g] # <<>>
  /\ Call("set", "set", p, Nothing, FALSE, {g})

Loop(loop, Body(_)) ==
  /\ apc = loop /\ left # {}
  /\ Body(Min(left)) /\ left' = left \ {Min(left)}
  /\ UNCHANGED <<installed, offers, apc, local>>

UnregisterLoop == Loop("unregister", UnregisterGroup)
ObsoleteLoop == Loop("obsolete", RemoveObsolete) /\ UNCHANGED mine
RegisterLoop == Loop("register", RegisterGroup) /\ UNCHANGED mine
SetLoop == Loop("set", SetGroup) /\ UNCHANGED mine

(* The end of _unregister: the package goes, or the new version is         *)
(* unpacked and its obsolete groups are next.                              *)
Unregistered ==
  /\ apc = "unregister" /\ left = {}
  /\ \/ /\ op = "remove" /\ Return
        /\ installed' = installed \ {pkg} /\ offers' = [offers EXCEPT ![pkg] = Nothing]
     \/ /\ op = "update" /\ apc' = "obsolete" /\ left' = Provided(offers[pkg])
        /\ UNCHANGED <<alternatives, installed, offers, links, local, mine>>

ObsoletesRemoved ==
  /\ apc = "obsolete" /\ left = {}
  /\ apc' = "register" /\ left' = Provided(new)
  /\ UNCHANGED <<alternatives, installed, offers, links, local, mine>>

(* The record of the new version comes last. *)
Registered ==
  /\ apc = "register" /\ left = {} /\ Return
  /\ installed' = installed \cup {pkg} /\ offers' = [offers EXCEPT ![pkg] = new]

SetDone == apc = "set" /\ left = {} /\ Return /\ UNCHANGED <<installed, offers>>

AltInit ==
  /\ alternatives = Nothing /\ installed = {} /\ offers = [p \in Pkg |-> Nothing]
  /\ links = [q \in Path |-> None]
  /\ apc = "idle" /\ op = "none" /\ pkg = None /\ new = Nothing /\ pure = FALSE
  /\ left = {} /\ mine = Nothing

AltNext ==
  \/ \E p \in Pkg : \E n \in Offer[p] :
       Install(p, n) \/ \E b \in BOOLEAN : Update(p, n, b)
  \/ \E p \in Pkg : Reinstall(p) \/ RemovePkg(p) \/ SetAll(p) \/ \E g \in Group : Set(p, g)
  \/ UnregisterLoop \/ Unregistered \/ ObsoleteLoop \/ ObsoletesRemoved
  \/ RegisterLoop \/ Registered \/ SetLoop \/ SetDone

AltSpec == AltInit /\ [][AltNext]_avars

-----------------------------------------------------------------------------
(* check_pkg_alternatives (flappy-pkgdb -a) finds nothing wrong with p:    *)
(* where it is the current provider its links are there and lead to its    *)
(* targets.                                                                *)
CheckPkgAlternatives(p) ==
  \A g \in Group : Leads(g, p) =>
    \A e \in ToSet(offers[p][g]) : links[LinkPath(e)] = e.target

(* After any sequence of installations, updates, removals and switches the *)
(* links on the disk are those of the current provider of every group      *)
(* (create_symlinks and remove_symlinks in the order in which the loops    *)
(* call them).                                                             *)
LinksOfHead == apc = "idle" => \A p \in installed : CheckPkgAlternatives(p)

(* Between commands a group lists exactly the installed packages that      *)
(* provide it, once each: switch_alt_group asserts that the package it     *)
(* switches to is there, and flappy-alternatives -l that all of them are.  *)
RegisteredExactly ==
  apc = "idle" => \A g \in Group :
    /\ ToSet(alternatives[g]) = {p \in installed : offers[p][g] # <<>>}
    /\ IsInjective(alternatives[g])

(* Transactions leave the choice of the user alone: only -s moves a        *)
(* provider from the head of a group, unless it is the package that is     *)
(* removed or that drops the group (prune_altgroup and _unregister switch  *)
(* only what was current).                                                 *)
ProviderKept ==
  [][\A g \in Group : \A p \in Pkg :
       Leads(g, p) /\ ~Leads(g, p)' =>
         op = "set" \/ (p = pkg /\ (op = "remove" \/ (op = "update" /\ new[g] = <<>>)))]_avars

=============================================================================
