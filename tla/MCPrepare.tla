----------------------------- MODULE MCPrepare ------------------------------
(***************************************************************************)
(* Prepare with three packages and one virtual one, in two versions: every *)
(* small dependency graph, every consistent package database over it, and  *)
(* the other things a package may say of itself one at a time.             *)
(***************************************************************************)
EXTENDS Prepare

CONSTANTS Pools,      \* bound: the repositories
          MaxTargets  \* bound: how many packages flappy-install is asked for

a == 1
b == 2
c == 3
v == 4   \* a virtual package
l == CHOOSE x \in Lib : TRUE

All(n) == ByName(n)
New(n) == [name |-> n, vers |-> {MaxVer}]
Old(n) == [name |-> n, vers |-> {1}]

Plain == [deps |-> <<>>, provides |-> {}, conflicts |-> {}, replaces |-> <<>>, reverts |-> {},
          needs |-> {}, libs |-> {}]

(* The dependencies of a, b and c, of all their versions, and what else    *)
(* the packages say.  A version that is reverted is not asked for.         *)
Graphs ==
  [a : {<<>>, <<New(b)>>, <<All(b)>>, <<All(b), All(c)>>, <<New(c), New(b)>>, <<All(v)>>, <<New(v), All(b)>>},
   b : {<<>>, <<All(c)>>, <<All(a)>>, <<New(v)>>},
   c : {<<>>, <<All(b)>>, <<New(a)>>}]

Extra(x, pv) ==
  CASE x = "provides" /\ pv[1] = c -> [Plain EXCEPT !.provides = {<<v, pv[2]>>}]
    [] x = "conflicts" /\ pv \in {<<a, 2>>, <<c, 1>>} -> [Plain EXCEPT !.conflicts = {All(b)}]
    [] x = "replaces" /\ pv = <<a, 2>> -> [Plain EXCEPT !.replaces = <<All(c)>>]
    [] x = "shlibs" /\ pv[1] = c -> [Plain EXCEPT !.libs = IF pv[2] = 1 THEN {l} ELSE {}]
    [] x = "shlibs" /\ pv[1] = b -> [Plain EXCEPT !.needs = {l}]
    [] x = "reverts" /\ pv = <<b, 1>> -> [Plain EXCEPT !.reverts = {2}]
    [] OTHER -> Plain

Extras(g, p) ==
  IF p = "new" THEN {"none", "provides", "conflicts", "replaces", "shlibs"}
                     \cup (IF g.c = <<>> THEN {"old"} ELSE {})
  ELSE {"none"}
         \cup (IF p = "old_b" /\ New(b) \notin ToSet(g.a) THEN {"reverts"} ELSE {})

MetaOf(g, x) ==
  [pv \in Pkgver |->
     [Extra(x, pv) EXCEPT !.deps = CASE pv[1] = a -> g.a [] pv[1] = b -> g.b
                                     [] pv = <<c, 1>> /\ x = "old" -> <<Old(b)>>
                                     [] pv[1] = c -> g.c [] OTHER -> <<>>]]

Repo(p) == CASE p = "new" -> <<[n \in Name |-> IF n = v THEN 0 ELSE 2]>>
             [] p = "old_b" -> <<[n \in Name |-> IF n = v THEN 0 ELSE IF n = b THEN 1 ELSE 2]>>
             [] p = "no_c" -> <<[n \in Name |-> IF n \in {v, c} THEN 0 ELSE 2]>>
             [] p = "two" -> <<[n \in Name |-> IF n = v THEN 0 ELSE 1],
                               [n \in Name |-> IF n = v THEN 0 ELSE 2]>>

Record(ver) == [ver |-> ver, unpacked |-> FALSE, auto |-> FALSE, hold |-> FALSE, lock |-> 0]

Cmd(op, targ, flags) == [op |-> op, targets |-> targ, flags |-> flags, ignored |-> {}]

Commands ==
  {Cmd("install", t, {}) : t \in {u \in {<<a>>, <<b, a>>, <<v>>, <<b, a, c>>} : Len(u) <= MaxTargets}}
  \cup {Cmd("install", <<a>>, {f}) : f \in {"force", "download", "auto"}}
  \cup {Cmd("update", <<c>>, {}), Cmd("sysup", <<>>, {})}
  \cup {[Cmd("install", <<a>>, {}) EXCEPT !.ignored = {b}]}
  \cup {Cmd("remove", <<b>>, {}), Cmd("remove", <<c, a>>, {}), Cmd("remove", <<b>>, {"force_revdeps"})}
  \cup {Cmd("remove_recursive", <<a>>, {}), Cmd("remove_recursive", <<b, a>>, {})}
  \cup {Cmd("autoremove", <<>>, {})}

Leaves(op) == op \in {"autoremove", "remove_recursive"}

(* The database: versions where they matter, automatic packages where they *)
(* matter, and one record that is special.                                 *)
Databases(op) ==
  {[n \in Name |->
     IF n = v THEN Record(0)
     ELSE [Record(vers[n]) EXCEPT !.auto = (n \in auto /\ vers[n] # 0),
                                  !.hold = (n = b /\ s = "hold"),
                                  !.lock = IF n = b /\ s = "lock" THEN 1 ELSE 0,
                                  !.unpacked = (n = b /\ s = "unpacked")]] :
     vers \in [{a, b, c} -> IF Leaves(op) THEN {0, 2} ELSE 0..2],
     auto \in IF Leaves(op) THEN SUBSET {a, b, c} ELSE {{c}},
     s \in {"none", "hold", "lock", "unpacked"}}

(* Every dependency and shared library an installed package needs is       *)
(* there.                                                                  *)
Consistent ==
  \A pv \in Before : /\ \A p \in ToSet(meta[pv].deps) : Satisfied(Before, pv, p)
                     /\ meta[pv].needs \subseteq UNION {meta[q].libs : q \in Before}

MCInit ==
  /\ \E g \in Graphs, p \in Pools : \E x \in Extras(g, p) :
       /\ meta = MetaOf(g, x) /\ repos = Repo(p)
       /\ cmd \in Commands
       /\ Leaves(cmd.op) \/ cmd.op = "remove" => p \in {"new", "two"}
       /\ db \in Databases(cmd.op)
       /\ x # "none" => \A n \in Name : ~db[n].hold /\ db[n].lock = 0 /\ ~db[n].unpacked
  /\ (db[b].hold \/ db[b].lock # 0 \/ db[b].unpacked) => db[b].ver = 1
  /\ Consistent
  /\ Start

MCSpec == MCInit /\ [][Next]_vars
=============================================================================
