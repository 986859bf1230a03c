---------------------------- MODULE MCTransFiles ----------------------------
(***************************************************************************)
(* TransFiles with a directory d, two paths in it, and two packages, of    *)
(* which a is changed first.  Every list over the kinds a path may have,   *)
(* every transaction, one option at a time and every change a user may     *)
(* have made to the root directory.                                        *)
(***************************************************************************)
EXTENDS TransFiles

CONSTANTS a, b, \* the packages
          Edited,  \* bound: the paths a user may have changed
          Options  \* bound: flags, and "package", "path" and "baselink"

d == <<"d">>
x == <<"d", "x">>
y == <<"d", "y">>

MCPkg == {a, b}
MCPath == {d, x, y}
MCOrder == <<x, y, d>>

Kinds(p) ==
  CASE p = d -> {"file", "link", "dir"} [] p = x -> {"file", "conf"} [] p = y -> {"file"}

(* The new version of a configuration file may be the old one. *)
Entries(p, version) ==
  {[type |-> t, data |-> IF t = "dir" THEN 0 ELSE version] : t \in Kinds(p)}
    \cup (IF "conf" \in Kinds(p) THEN {[type |-> "conf", data |-> 1]} ELSE {})

Lists(version) ==
  {l \in UNION {[D -> UNION {Entries(p, version) : p \in D}] : D \in SUBSET MCPath} :
     IsList(l) /\ \A p \in DOMAIN l : l[p] \in Entries(p, version)}

Dir == [type |-> "dir", data |-> 0]

(* What may be at a path a package lists as e, or nobody lists. *)
AtPath(p, e) ==
  CASE p \notin Edited -> {e}
    [] e = None -> {None, [type |-> "file", data |-> 3]} \cup (IF p = d THEN {Dir} ELSE {})
    [] e = Dir -> {e, None, [type |-> "file", data |-> 3]}
    [] e.type = "conf" -> {e, None, [type |-> "conf", data |-> 2], [type |-> "conf", data |-> 3],
                           [type |-> "link", data |-> 3]}
    [] OTHER -> {e, None, [type |-> e.type, data |-> 3], [type |-> "file", data |-> 3]}

OldEntry(p) ==
  IF Listed(old[a], p) THEN old[a][p] ELSE IF Listed(old[b], p) THEN old[b][p] ELSE None

MCInit ==
  /\ old \in [MCPkg -> Lists(1) \cup {None}] /\ Exclusive(LAMBDA k : old[k])
  /\ \E ta, tb \in {"install", "update", "remove", "none"},
        option \in Options \cup {"none"} :
       /\ ta # "none"
       /\ ta = "install" <=> old[a] = None
       /\ tb = "install" => old[b] = None
       /\ tb \in {"update", "remove"} => old[b] # None
       /\ \E na \in IF ta = "remove" THEN {None} ELSE Lists(2),
             nb \in IF tb \in {"remove", "none"} THEN {None} ELSE Lists(2) :
            new = [k \in MCPkg |-> IF k = a THEN na ELSE nb]
       /\ steps = <<[pkg |-> a, type |-> ta, preserve |-> option = "package"]>>
                   \o IF tb = "none" THEN <<>> ELSE <<[pkg |-> b, type |-> tb, preserve |-> FALSE]>>
       /\ flags = {option} \cap Flag
       /\ preserved = IF option = "path" THEN {x} ELSE {}
       /\ baselinks = IF option = "baselink" THEN {d} ELSE {}
  /\ Inputs
  /\ \E vd \in AtPath(d, OldEntry(d)), vx \in AtPath(x, OldEntry(x)), vy \in AtPath(y, OldEntry(y)) :
       LET f(p) == CASE p = d -> vd [] p = x -> vx [] p = y -> vy
       IN before = [p \in {q \in MCPath : f(q) # None} |-> OnDisk(f(p))]
  /\ Tree(before)
  /\ Start

MCSpec == MCInit /\ [][Next]_vars
=============================================================================
