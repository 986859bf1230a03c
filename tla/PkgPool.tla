------------------------------ MODULE PkgPool -------------------------------
(***************************************************************************)
(* What a command knows about packages: the repository pool (lib/rpool.c,  *)
(* lib/repo.c), the package database (lib/pkgdb.c) and how a dependency is *)
(* looked up in them (lib/plist_find.c, lib/plist_match.c).                *)
(*                                                                         *)
(* Package names are numbers, in the order in which a dictionary keeps     *)
(* them; some of them are only provided by other packages.  A pattern such *)
(* as "foo>=2" is the name and the set of the versions it matches; looking *)
(* up a name is looking up the pattern of all its versions.                *)
(***************************************************************************)
EXTENDS Integers, Sequences, FiniteSets, SequencesExt, FiniteSetsExt

CONSTANTS
  MaxName,     \* bound: names are 1..MaxName
  MaxVer,      \* bound: versions are 1..MaxVer
  Lib          \* shared libraries

ASSUME PoolAssumption == MaxName \in Nat \ {0} /\ MaxVer \in Nat \ {0}

Name == 1..MaxName
Ver == 1..MaxVer
Pkgver == Name \X Ver
Pattern == [name : Name, vers : SUBSET Ver]

VARIABLES
  meta,    \* what a package says of itself, in a repository or installed
  repos,   \* the repositories in the order of the configuration: name -> version or 0
  db       \* the package database: name -> record, version 0 if not installed

pool == <<meta, repos, db>>

Meta == [deps : Seq(Pattern), provides : SUBSET Pkgver, conflicts : SUBSET Pattern,
         replaces : Seq(Pattern), reverts : SUBSET Ver, needs : SUBSET Lib,
         libs : SUBSET Lib]
DbRecord == [ver : 0..MaxVer, unpacked : BOOLEAN, auto : BOOLEAN, hold : BOOLEAN,
             lock : Nat]  \* the repository the package is locked to, or 0

PoolTypeOK ==
  /\ meta \in [Pkgver -> Meta]
  /\ repos \in Seq([Name -> 0..MaxVer])
  /\ db \in [Name -> DbRecord]

NotFound == <<0, 0>>

Matches(pv, p) == pv[1] = p.name /\ pv[2] \in p.vers
ByName(n) == [name |-> n, vers |-> Ver]
Provides(pv, p) == \E v \in meta[pv].provides : Matches(v, p)
ProvidesName(pv, n) == Provides(pv, ByName(n))
Sorted(S) == SetToSortSeq(S, <)

Installed == {n \in Name : db[n].ver # 0}
Inst(n) == <<n, db[n].ver>>

DbPkg(p) ==
  IF p.name \in Installed /\ Matches(Inst(p.name), p) THEN Inst(p.name) ELSE NotFound

(* xhp->vpkgd maps every virtual package version to one installed          *)
(* provider, the last one read; the first version that matches decides.    *)
VpkgProvider(p) ==
  LET provided == {v \in UNION {meta[Inst(n)].provides : n \in Installed} : Matches(v, p)}
      first == <<p.name, Min({v[2] : v \in provided})>>
  IN IF provided = {} THEN 0
     ELSE Max({n \in Installed : first \in meta[Inst(n)].provides})

DbVirtual(p) == IF VpkgProvider(p) = 0 THEN NotFound ELSE Inst(VpkgProvider(p))

DbFind(p) == IF DbPkg(p) # NotFound THEN DbPkg(p) ELSE DbVirtual(p)

RepoPkg(r, p) ==
  IF repos[r][p.name] \in p.vers THEN <<p.name, repos[r][p.name]>> ELSE NotFound

(* The installed provider, in whatever version the repository has, or else *)
(* the repository's first package that provides it.                        *)
RepoVirtual(r, p) ==
  LET inRepo == {n \in Name : repos[r][n] # 0}
      providers == {n \in inRepo : Provides(<<n, repos[r][n]>>, p)}
      n == IF VpkgProvider(p) \in inRepo THEN VpkgProvider(p) ELSE Min(providers)
  IN IF VpkgProvider(p) \in inRepo \/ providers # {} THEN <<n, repos[r][n]>> ELSE NotFound

FirstRepo(answer) ==
  LET found == {r \in DOMAIN repos : answer[r] # NotFound}
  IN IF found = {} THEN NotFound ELSE answer[Min(found)]

(* The pool answers with the first repository that has a match, or, for    *)
(* best matches, with the newest version of all of them.                   *)
RpoolPkg(p, best) ==
  LET vers == {RepoPkg(r, p)[2] : r \in DOMAIN repos}
  IN IF best /\ vers \ {0} # {} THEN <<p.name, Max(vers)>>
     ELSE FirstRepo([r \in DOMAIN repos |-> RepoPkg(r, p)])

RpoolVirtual(p) == FirstRepo([r \in DOMAIN repos |-> RepoVirtual(r, p)])

RpoolFind(p, best) == IF RpoolPkg(p, best) # NotFound THEN RpoolPkg(p, best) ELSE RpoolVirtual(p)

(* Who depends on an installed package: a dependency on a virtual package  *)
(* counts for the provider the map names, and for no other.                *)
DepTarget(p) == IF VpkgProvider(ByName(p.name)) # 0 THEN VpkgProvider(ByName(p.name)) ELSE p.name

Revdeps(n) ==
  IF n \notin Installed THEN {}
  ELSE {m \in Installed : \E p \in ToSet(meta[Inst(m)].deps) : DepTarget(p) = n}
=============================================================================
