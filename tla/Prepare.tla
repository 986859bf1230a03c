------------------------------ MODULE Prepare -------------------------------
(***************************************************************************)
(* How a transaction is made, before flappy_transaction_commit runs it:    *)
(* the requests of the commands (lib/transaction_ops.c), the collection of *)
(* dependencies (lib/transaction_pkg_deps.c, lib/transaction_store.c) and  *)
(* the checks of flappy_transaction_prepare (lib/transaction_prepare.c and *)
(* lib/transaction_check_{replaces,revdeps,conflicts,shlibs}.c).           *)
(*                                                                         *)
(* repo_deps recurses over the repository's packages; `frames' is its      *)
(* stack.  The packages below the first frame are its array `queued'.      *)
(***************************************************************************)
EXTENDS Orphans

CONSTANTS
  Self,      \* the name of the flappy package
  MaxDepth   \* MAX_DEPTH

Type == {"install", "update", "reinstall", "remove", "configure", "hold", "download"}
Flag == {"force", "best", "download", "auto", "force_revdeps"}
Op == {"install", "update", "sysup", "remove", "remove_recursive", "autoremove"}

VARIABLES
  cmd,       \* the command: [op, targets, flags, ignored]
  targets,   \* its targets not yet requested
  ndone,     \* targets that were there already (EEXIST), or not at all for a removal
  forced,    \* FLAPPY_FLAG_FORCE_REMOVE_REVDEPS
  pkgs,      \* transd "packages": the transaction
  frames,    \* repo_deps: the stack, top first
  deps,      \* the run_depends arrays of the repository, as repo_deps leaves them
  cnt, pos,  \* prepare: the packages requested, and the next one of them
  edges,     \* prepare: those whose dependencies were collected
  missing,   \* transd "missing_deps"
  rpos, robj, rrep, \* check_replaces: the package and what is left of its replaces
  pc,        \* "request", "orphans", "prepare", "collect", "deps", "replaces", "check", "done"
  rv         \* the command's result: "ok", "nothing" to do, or an errno

pvars == <<cmd, targets, ndone, forced, pkgs, frames, deps, cnt, pos, edges, missing,
           rpos, robj, rrep, pc, rv>>
vars == <<pool, ovars, pvars>>

Step == [name : Name, ver : Ver, type : Type, auto : BOOLEAN, replaced : BOOLEAN]
Pv(s) == <<s.name, s.ver>>
Has(f) == f \in cmd.flags

(* get_pkg_in_array: the first element that matches decides, and if it has *)
(* not the type asked for there is none.                                   *)
NoStep == [name |-> 0, ver |-> 0, type |-> "none"]
First(ss, Test(_)) == SelectInSeq(ss, Test)
InTrans(ss, p) ==
  LET k == First(ss, LAMBDA s : Matches(Pv(s), p)) IN IF k = 0 THEN NoStep ELSE ss[k]
InTransVirtual(ss, p) ==
  LET conf == VpkgProvider(p)
      byConf == First(ss, LAMBDA s : conf # 0 /\ ProvidesName(Pv(s), conf))
      k == IF byConf # 0 THEN byConf ELSE First(ss, LAMBDA s : Provides(Pv(s), p))
  IN IF k = 0 THEN NoStep ELSE ss[k]
InTransAny(ss, p) == IF InTrans(ss, p) # NoStep THEN InTrans(ss, p) ELSE InTransVirtual(ss, p)
TypeOf(ss, n) == InTrans(ss, ByName(n)).type

(* Bug: the last copy is removed. *)
WithoutLastPkgver(ss, pv) ==
  LET k == SelectLastInSeq(ss, LAMBDA s : Pv(s) = pv) IN IF k = 0 THEN ss ELSE RemoveAt(ss, k)

WithoutPkgver(ss, pv) ==
  LET k == First(ss, LAMBDA s : Pv(s) = pv) IN IF k = 0 THEN ss ELSE RemoveAt(ss, k)

(* flappy_transaction_store: a newer version replaces the stored one. *)
Store(ss, s) ==
  LET old == InTrans(ss, ByName(s.name))
  IN IF old = NoStep THEN Append(ss, s)
     ELSE IF s.ver <= old.ver THEN ss ELSE Append(WithoutPkgver(ss, Pv(old)), s)

NewStep(pv, type, auto) ==
  [name |-> pv[1], ver |-> pv[2], type |-> type, auto |-> auto, replaced |-> FALSE]

-----------------------------------------------------------------------------
(* Requests.                                                               *)

(* trans_find_pkg: what is installed under the name asked for, or what     *)
(* provides it if the pool has no package of that name.                    *)
Target(n) ==
  IF n \notin Installed /\ DbVirtual(ByName(n)) # NotFound
       /\ RpoolPkg(ByName(n), Has("best")) = NotFound
    THEN DbVirtual(ByName(n))[1] ELSE n

Found(n, inst) ==
  IF inst /\ db[n].lock # 0
    THEN IF db[n].lock \in DOMAIN repos THEN RepoPkg(db[n].lock, ByName(n)) ELSE NotFound
    ELSE IF inst THEN RpoolPkg(ByName(n), Has("best")) ELSE RpoolFind(ByName(n), Has("best"))

FindPkg(ss, asked, force) ==
  LET n == Target(asked)
      inst == n \in Installed /\ (Has("download") => n # asked)
      pv == Found(n, inst)
      newer == pv[2] > db[n].ver
      update == inst /\ (~force \/ newer)
      type == IF ~force /\ inst /\ db[n].hold THEN "hold"
              ELSE IF ~inst \/ pv[1] \notin Installed THEN "install"
              ELSE IF update THEN "update" ELSE "reinstall"
  IN IF pv = NotFound THEN [rv |-> "ENOENT", pkgs |-> ss]
     ELSE IF \/ inst /\ ~force /\ ~newer /\ db[n].ver \notin meta[pv].reverts
             \/ update /\ \E k \in DOMAIN ss : Pv(ss[k]) = pv
       THEN [rv |-> "EEXIST", pkgs |-> ss]
     ELSE [rv |-> "ok",
           pkgs |-> Store(ss, NewStep(pv, type, IF inst THEN db[n].auto ELSE Has("auto")))]

(* trans_find_pkg for each of a set of packages in turn, errors ignored. *)
FindAll(ss, names) ==
  FoldLeft(LAMBDA acc, n : FindPkg(acc, n, FALSE).pkgs, ss, Sorted(names))

(* flappy_autoupdate: an update of flappy itself comes first, with all     *)
(* that depends on it, and nothing else may be changed.                    *)
SelfUpdate(ss) ==
  IF DbFind(ByName(Self)) = NotFound THEN [rv |-> "ENOENT", pkgs |-> ss]
  ELSE FindPkg(ss, DbFind(ByName(Self))[1], FALSE)
MustUpdateSelf(ss) == SelfUpdate(ss).rv = "ok" /\ ~Has("download")

Finish(errno) == pc' = "done" /\ rv' = errno
AfterRequests(todo, seen) ==
  /\ targets' = todo /\ ndone' = seen
  /\ IF todo # <<>> THEN UNCHANGED <<pc, rv>>
     ELSE IF seen = Len(cmd.targets) THEN Finish("nothing")
     ELSE pc' = "prepare" /\ UNCHANGED rv

unrequested == <<frames, deps, cnt, pos, edges, missing, rpos, robj, rrep>>

(* flappy_transaction_install_pkg and _update_pkg, and main's loop. *)
Request ==
  /\ pc = "request" /\ cmd.op \in {"install", "update"} /\ targets # <<>>
  /\ LET n == Head(targets)
         self == SelfUpdate(pkgs)
         rev == IF Has("download") THEN {} ELSE Revdeps(n)
         res == FindPkg(FindAll(self.pkgs, rev), n, Has("force"))
     IN IF MustUpdateSelf(pkgs)
          THEN /\ forced' = TRUE
               /\ pkgs' = FindAll(self.pkgs, Revdeps(Self))
               /\ IF n = Self THEN AfterRequests(Tail(targets), ndone)
                  ELSE Finish("EBUSY") /\ UNCHANGED <<targets, ndone>>
          ELSE /\ pkgs' = res.pkgs
               /\ IF res.rv = "ENOENT" THEN Finish("ENOENT") /\ UNCHANGED <<targets, ndone>>
                  ELSE AfterRequests(Tail(targets), ndone + (IF res.rv = "EEXIST" THEN 1 ELSE 0))
               /\ UNCHANGED forced
  /\ UNCHANGED <<cmd, unrequested, pool, ovars>>

(* flappy_transaction_update_packages: every installed package. *)
RequestAll ==
  /\ pc = "request" /\ cmd.op = "sysup"
  /\ LET self == SelfUpdate(pkgs)
         none == \A n \in Installed : FindPkg(self.pkgs, n, FALSE).rv # "ok"
     IN IF MustUpdateSelf(pkgs)
          THEN Finish("EBUSY") /\ forced' = TRUE /\ pkgs' = FindAll(self.pkgs, Revdeps(Self))
          ELSE /\ pkgs' = FindAll(self.pkgs, Installed)
               /\ IF none THEN Finish("nothing") ELSE pc' = "prepare" /\ UNCHANGED rv
               /\ UNCHANGED forced
  /\ UNCHANGED <<cmd, targets, ndone, unrequested, pool, ovars>>

(* flappy_transaction_remove_pkg; a recursive one first looks for orphans. *)
RequestRemove ==
  /\ pc = "request" /\ cmd.op \in {"remove", "remove_recursive"} /\ targets # <<>>
  /\ LET n == Head(targets)
     IN IF n \notin Installed
          THEN AfterRequests(Tail(targets), ndone + 1) /\ UNCHANGED <<pkgs, ovars>>
        ELSE IF cmd.op = "remove"
          THEN /\ pkgs' = Store(pkgs, NewStep(Inst(n), "remove", db[n].auto))
               /\ AfterRequests(Tail(targets), ndone) /\ UNCHANGED ovars
        ELSE /\ pc' = "orphans" /\ FindRecursive(n)
             /\ UNCHANGED <<rv, targets, ndone, pkgs>>
  /\ UNCHANGED <<cmd, forced, unrequested, pool>>

(* flappy_transaction_autoremove_pkgs. *)
RequestOrphans ==
  /\ pc = "request" /\ cmd.op = "autoremove"
  /\ pc' = "orphans" /\ FindAutomatic
  /\ UNCHANGED <<cmd, targets, ndone, forced, pkgs, unrequested, rv, pool>>

StoreOrphans ==
  /\ pc = "orphans" /\ OrphansTaken
  /\ pkgs' = FoldLeft(LAMBDA acc, n : Store(acc, NewStep(Inst(n), "remove", db[n].auto)),
                      pkgs, orphans)
  /\ IF cmd.op = "remove_recursive" /\ Tail(targets) # <<>>
       THEN pc' = "request" /\ targets' = Tail(targets)
       ELSE pc' = "prepare" /\ UNCHANGED targets
  /\ UNCHANGED <<cmd, ndone, forced, unrequested, rv, pool>>

OrphansStep == pc = "orphans" /\ FindOrphans /\ UNCHANGED <<pool, pvars>>

-----------------------------------------------------------------------------
(* Dependencies.                                                           *)

undone == <<cmd, targets, ndone, forced>>

Prepare ==
  /\ pc = "prepare" /\ pc' = "collect"
  /\ cnt' = Len(pkgs) /\ pos' = 1
  /\ UNCHANGED <<undone, pkgs, frames, deps, edges, missing, rpos, robj, rrep, rv, pool, ovars>>

(* The next package requested: its dependencies are collected. *)
Collect ==
  /\ pc = "collect" /\ pos <= cnt
  /\ LET s == pkgs[pos]
     IN IF s.type \in {"remove", "hold"}
          THEN pos' = pos + 1 /\ UNCHANGED <<edges, frames, pc>>
          ELSE /\ edges' = Append(edges, Pv(s))
               /\ frames' = <<[step |-> s, todo |-> deps[Pv(s)], array |-> Pv(s)]>>
               /\ pc' = "deps" /\ UNCHANGED pos
  /\ UNCHANGED <<undone, pkgs, deps, cnt, missing, rpos, robj, rrep, rv, pool, ovars>>

(* A package being processed, the one requested excluded, satisfies p. *)
Queued(p) == InTransAny(Reverse([k \in 1..(Len(frames) - 1) |-> frames[k].step]), p) # NoStep

InTransaction(p) ==
  InTransAny(pkgs, p) # NoStep /\ InTransAny(pkgs, p).type \notin {"remove", "hold"}

InstalledFor(p) == IF Has("download") THEN NotFound ELSE DbFind(ByName(p.name))
Virtual(p) == InstalledFor(p)[1] # p.name
OnHold(pv) == pv # NotFound /\ db[pv[1]].hold

RepoFind(p, cur) ==
  IF cur # NotFound /\ db[cur[1]].lock # 0
    THEN IF db[cur[1]].lock \in DOMAIN repos THEN RepoPkg(db[cur[1]].lock, p) ELSE NotFound
    ELSE RpoolFind(p, Has("best"))

(* Bug: any installed version will do. *)
SkippedByName(top, p) ==
  \/ p.name \in cmd.ignored \/ Provides(Pv(top.step), p) \/ Queued(p) \/ InTransaction(p)
  \/ InstalledFor(p) # NotFound

(* Passes 0 to 4: the dependency needs nothing, now or because an          *)
(* installed package satisfies it.                                         *)
Skipped(top, p) ==
  \/ p.name \in cmd.ignored
  \/ Provides(Pv(top.step), p)
  \/ Queued(p)
  \/ InTransaction(p)
  \/ /\ InstalledFor(p) # NotFound
     /\ \/ Virtual(p) /\ Provides(InstalledFor(p), p)
        \/ Matches(InstalledFor(p), p) /\ ~db[p.name].unpacked

ToConfigure(p) ==
  InstalledFor(p) # NotFound /\ Matches(InstalledFor(p), p) /\ db[p.name].unpacked

(* One dependency of the package on top of the stack. *)
Dep ==
  LET top == Head(frames)  p == Head(top.todo)  cur == InstalledFor(p)
      found == RepoFind(p, cur)
      rest == <<[top EXCEPT !.todo = Tail(@)]>> \o Tail(frames)
      unsatisfiable == OnHold(cur) \/ found = NotFound
      update == cur # NotFound /\ ~Virtual(p)
      type == IF Has("download") THEN "download" ELSE IF update THEN "update" ELSE "install"
      step == NewStep(found, type, IF update THEN db[p.name].auto ELSE TRUE)
  IN /\ pc = "deps" /\ Head(frames).todo # <<>>
     /\ \/ /\ Skipped(top, p)
           /\ frames' = rest /\ UNCHANGED <<pkgs, deps, missing, pc, rv>>
        \/ /\ ~Skipped(top, p) /\ ToConfigure(p)
           /\ pkgs' = Store(pkgs, NewStep(cur, "configure", db[p.name].auto))
           /\ frames' = rest /\ UNCHANGED <<deps, missing, pc, rv>>
        \/ /\ ~Skipped(top, p) /\ ~ToConfigure(p) /\ unsatisfiable
           /\ missing' = missing \cup {p}
           /\ frames' = rest /\ UNCHANGED <<pkgs, deps, pc, rv>>
        \/ \* the package found is the one that depends on it: the string is
           \* removed from the array looked at last, and if that is the one being
           \* walked the iterator stops
           /\ ~Skipped(top, p) /\ ~ToConfigure(p) /\ ~unsatisfiable
           /\ found[1] = top.step.name
           /\ deps' = [deps EXCEPT ![top.array] = SelectSeq(@, LAMBDA q : q # p)]
           /\ frames' = IF top.array = Pv(top.step)
                          THEN <<[top EXCEPT !.todo = <<>>]>> \o Tail(frames) ELSE rest
           /\ UNCHANGED <<pkgs, missing, pc, rv>>
        \/ \* an update is queued that does not match, or the stack is too deep
           /\ ~Skipped(top, p) /\ ~ToConfigure(p) /\ ~unsatisfiable
           /\ found[1] # top.step.name
           /\ \/ /\ update /\ Matches(found, p) /\ TypeOf(pkgs, found[1]) = "update"
                 /\ Finish("ENODEV")
              \/ /\ ~(update /\ Matches(found, p) /\ TypeOf(pkgs, found[1]) = "update")
                 /\ deps[found] # <<>> /\ Len(frames) >= MaxDepth
                 /\ Finish("ELOOP")
           /\ UNCHANGED <<frames, pkgs, deps, missing>>
        \/ /\ ~Skipped(top, p) /\ ~ToConfigure(p) /\ ~unsatisfiable
           /\ found[1] # top.step.name
           /\ ~(update /\ Matches(found, p) /\ TypeOf(pkgs, found[1]) = "update")
           /\ deps[found] = <<>> \/ Len(frames) < MaxDepth
           /\ frames' = <<[step |-> step, todo |-> deps[found], array |-> found],
                         [top EXCEPT !.todo = Tail(@), !.array = found]>> \o Tail(frames)
           /\ UNCHANGED <<pkgs, deps, missing, pc, rv>>
     /\ UNCHANGED <<undone, cnt, pos, edges, rpos, robj, rrep, pool, ovars>>

(* All dependencies of a package are in: it is stored behind them, the one *)
(* requested a second time.                                                *)
DepReturn ==
  /\ pc = "deps" /\ Head(frames).todo = <<>>
  /\ frames' = Tail(frames)
  /\ IF Len(frames) > 1
       THEN pkgs' = Store(pkgs, Head(frames).step) /\ UNCHANGED <<pos, pc>>
       ELSE pkgs' = Append(pkgs, Head(frames).step) /\ pos' = pos + 1 /\ pc' = "collect"
  /\ UNCHANGED <<undone, deps, cnt, edges, missing, rpos, robj, rrep, rv, pool, ovars>>

(* Remove the first of the two, and see what is left to do. *)
CollectEnd ==
  /\ pc = "collect" /\ pos > cnt
  /\ pkgs' = FoldLeft(WithoutPkgver, pkgs, edges)
  /\ IF Has("download") \/ \A k \in 1..cnt : pkgs'[k].type = "hold"
       THEN Finish("ok") ELSE pc' = "replaces" /\ UNCHANGED rv
  /\ UNCHANGED <<undone, frames, deps, cnt, pos, edges, missing, rpos, robj, rrep, pool, ovars>>

-----------------------------------------------------------------------------
(* Checks.                                                                 *)

(* check_replaces: the next package; each one replaces itself as well. *)
ReplaceNext ==
  /\ pc = "replaces" /\ rrep = <<>>
  /\ IF rpos = Len(pkgs) THEN pc' = "check" /\ UNCHANGED <<rpos, robj, rrep>>
     ELSE /\ rpos' = rpos + 1 /\ robj' = pkgs[rpos + 1].name
          /\ rrep' = Append(meta[Pv(pkgs[rpos + 1])].replaces, ByName(robj'))
          /\ UNCHANGED pc
  /\ UNCHANGED <<undone, pkgs, frames, deps, cnt, pos, edges, missing, rv, pool, ovars>>

Manual(ss, n) ==
  [k \in DOMAIN ss |-> IF ss[k].name = n THEN [ss[k] EXCEPT !.auto = FALSE] ELSE ss[k]]
MarkReplaced(ss, k) == [ss EXCEPT ![k].type = "remove", ![k].replaced = TRUE]

(* One pattern: the package it names goes, if it is installed or about to  *)
(* be.  What the package in the transaction is now is what has to match.   *)
Replace ==
  LET p == Head(rrep)
      t == InTrans(pkgs, p)
      isDb == DbFind(p) # NotFound
      old == IF isDb THEN DbFind(p) ELSE IF t.type = "install" THEN Pv(t) ELSE NotFound
      auto == IF isDb THEN db[old[1]].auto ELSE t.auto
      k == First(pkgs, LAMBDA s : s.name = old[1])
      obj == Pv(InTrans(pkgs, ByName(robj)))
      kept == IF auto THEN pkgs ELSE Manual(pkgs, robj)
  IN /\ pc = "replaces" /\ rrep # <<>> /\ rrep' = Tail(rrep)
     /\ pkgs' =
          IF old = NotFound \/ (isDb /\ OnHold(old)) \/ old[1] = robj THEN pkgs
          ELSE IF k = 0
            THEN <<[NewStep(old, "remove", auto) EXCEPT !.replaced = TRUE]>>
                   \o (IF Provides(obj, p) THEN kept ELSE pkgs)
          ELSE IF pkgs[k].type \in {"remove", "hold"}
                  \/ ~(Provides(Pv(pkgs[k]), p) \/ Matches(Pv(pkgs[k]), p))
            THEN pkgs
          ELSE MarkReplaced(kept, k)
     /\ UNCHANGED <<undone, frames, deps, cnt, pos, edges, missing, rpos, robj, pc, rv, pool,
                    ovars>>

DepsIn(t, m) == ToSet(IF t # NoStep THEN deps[Pv(t)] ELSE meta[Inst(m)].deps)

(* check_virtual_pkgs: something s provides is no longer what m asks for. *)
BreaksVirtual(s, asked) ==
  \E v \in meta[Pv(s)].provides, p \in asked : v[1] = p.name /\ ~Matches(v, p)

(* Bug: only a removal does. *)
RemovalBreaks(s, m) ==
  TypeOf(pkgs, m) # "remove" /\ s.type = "remove" /\ ~s.replaced

(* flappy_transaction_check_revdeps: s breaks the installed package m. *)
Breaks(s, m) ==
  LET t == InTrans(pkgs, ByName(m))  asked == DepsIn(t, m)
  IN /\ t.type # "remove"
     /\ IF s.type = "remove" THEN ~s.replaced
        ELSE \/ BreaksVirtual(s, asked)
             \/ /\ \E p \in asked : p.name = s.name
                /\ ~\E p \in asked : Matches(Pv(s), p)
                /\ t.type # "update"

CheckRevdeps ==
  {s \in ToSet(pkgs) :
     /\ s.type \notin {"hold", "install"} /\ s.name \notin cmd.ignored
     /\ \E m \in Revdeps(s.name) : Breaks(s, m)}

(* pkg_conflicts_trans: what s conflicts with.  An installed package that  *)
(* is also in the transaction is not looked at any further.                *)
TransConflicts(s, p) ==
  IF DbFind(p) # NotFound
    THEN /\ ~OnHold(DbFind(p)) /\ DbFind(p)[1] # s.name
         /\ TypeOf(pkgs, DbFind(p)[1]) \notin {"install", "update", "remove", "hold"}
    ELSE InTransaction(p) /\ InTransAny(pkgs, p).name # s.name

(* pkgdb_conflicts_cb: an installed package that stays. *)
DbConflicts(n, p) == InTransaction(p) /\ InTransAny(pkgs, p).name # n

CheckConflicts ==
  \/ \E s \in ToSet(pkgs) : /\ s.type \notin {"hold", "remove"}
                            /\ \E p \in meta[Pv(s)].conflicts : TransConflicts(s, p)
  \/ \E n \in Installed : /\ InTrans(pkgs, ByName(n)) = NoStep
                          /\ \E p \in meta[Inst(n)].conflicts : DbConflicts(n, p)

(* flappy_transaction_check_shlibs. *)
Unseen == {Inst(n) : n \in Installed \ {s.name : s \in {t \in ToSet(pkgs) : t.type # "hold"}}}
Present == Unseen \cup {Pv(s) : s \in {t \in ToSet(pkgs) : t.type \notin {"hold", "remove"}}}
CheckShlibs ==
  UNION {meta[pv].needs : pv \in Present} \ UNION {meta[pv].libs : pv \in Present}

(* The checks in the order of flappy_transaction_prepare; whether there is *)
(* room on the disk comes last.                                            *)
Check ==
  LET mayBreak == forced \/ Has("force_revdeps")
  IN /\ pc = "check"
     /\ \/ (missing # {} \/ CheckRevdeps # {}) /\ ~mayBreak /\ Finish("ENODEV")
        \/ /\ (missing = {} /\ CheckRevdeps = {}) \/ mayBreak
           /\ \/ CheckConflicts /\ Finish("EAGAIN")
              \/ ~CheckConflicts /\ CheckShlibs # {} /\ ~mayBreak /\ Finish("ENOEXEC")
              \/ /\ ~CheckConflicts /\ (CheckShlibs = {} \/ mayBreak)
                 /\ Finish("ok") \/ Finish("ENOSPC")
     /\ UNCHANGED <<undone, pkgs, frames, deps, cnt, pos, edges, missing, rpos, robj, rrep, pool,
                    ovars>>
-----------------------------------------------------------------------------
Start ==
  /\ OrphansIdle
  /\ targets = cmd.targets /\ ndone = 0 /\ forced = FALSE
  /\ pkgs = <<>> /\ frames = <<>> /\ deps = [pv \in Pkgver |-> meta[pv].deps]
  /\ cnt = 0 /\ pos = 1 /\ edges = <<>> /\ missing = {}
  /\ rpos = 0 /\ robj = 0 /\ rrep = <<>>
  /\ pc = "request" /\ rv = "ok"

Next ==
  \/ Request \/ RequestAll \/ RequestRemove \/ RequestOrphans \/ OrphansStep \/ StoreOrphans
  \/ Prepare \/ Collect \/ Dep \/ DepReturn \/ CollectEnd
  \/ ReplaceNext \/ Replace \/ Check

Command == [op : Op, targets : Seq(Name), flags : SUBSET Flag, ignored : SUBSET Name]

Init == PoolTypeOK /\ cmd \in Command /\ Start

Spec == Init /\ [][Next]_vars

TypeOK ==
  /\ PoolTypeOK /\ cmd \in Command
  /\ pkgs \in Seq(Step)
  /\ \A k \in DOMAIN frames : /\ frames[k].step \in Step
                             /\ frames[k].todo \in Seq(Pattern) /\ frames[k].array \in Pkgver
  /\ deps \in [Pkgver -> Seq(Pattern)]
  /\ cnt \in Nat /\ pos \in 1..(cnt + 1) /\ edges \in Seq(Pkgver)
  /\ missing \subseteq Pattern
  /\ rpos \in 0..Len(pkgs) /\ rrep \in Seq(Pattern)
  /\ orphans \in Seq(Name) /\ result \in Seq(Name) /\ items \subseteq Name

-----------------------------------------------------------------------------
(* Properties.                                                             *)

(* A transaction that may be committed, and what the system has after it. *)
Prepared == pc = "done" /\ rv = "ok" /\ ~Has("download")
Unpacked == {s \in ToSet(pkgs) : s.type \in {"install", "update", "reinstall"}}
Removed == {s.name : s \in {t \in ToSet(pkgs) : t.type = "remove"}}
After ==
  {Inst(n) : n \in Installed \ (Removed \cup {s.name : s \in Unpacked})} \cup {Pv(s) : s \in Unpacked}
Before == {Inst(n) : n \in Installed}

Satisfied(system, pv, p) ==
  \/ p.name \in cmd.ignored \/ Provides(pv, p)
  \/ \E q \in system : Matches(q, p) \/ Provides(q, p)

(* The dependency p was given up for a package that replaces another one:  *)
(* packages that replace are trusted to stand in for what they replace.    *)
Replaced(p) == \E s \in ToSet(pkgs) : s.replaced /\ (Matches(Pv(s), p) \/ Provides(Pv(s), p))

(* What a prepared transaction installs or updates finds all its           *)
(* dependencies in the system it leads to, whatever the cycles, virtual    *)
(* packages, holds and packages already in the transaction                 *)
(* (repo_deps, flappy_transaction_prepare).                                *)
NewPackagesComplete ==
  Prepared /\ ~forced =>
    \A s \in Unpacked : \A p \in ToSet(meta[Pv(s)].deps) :
      Satisfied(After, Pv(s), p) \/ Replaced(p)

(* A prepared transaction takes no dependency and no shared library away   *)
(* from a package that stays as it is, unless another package replaces     *)
(* what is removed, and brings nothing it conflicts with                   *)
(* (flappy_transaction_check_revdeps, _check_shlibs, _check_conflicts).    *)
KeptPackagesWork ==
  Prepared /\ ~forced /\ ~Has("force_revdeps") =>
    \A pv \in Before \cap After :
      /\ \A p \in ToSet(meta[pv].deps) :
           Satisfied(Before, pv, p) => Satisfied(After, pv, p) \/ Replaced(p)
      /\ meta[pv].needs \subseteq UNION {meta[q].libs : q \in After}
      /\ pv[1] \notin {s.name : s \in ToSet(pkgs)} /\ ~db[pv[1]].hold =>
           \A s \in Unpacked :
             /\ \A p \in meta[Pv(s)].conflicts : ~Matches(pv, p)
             /\ \A p \in meta[pv].conflicts : ~Matches(Pv(s), p)

(* What was collected as a dependency is unpacked before the packages that *)
(* cannot do without it, unless it depends on them in turn, and every      *)
(* package is in the transaction once: the second copies that              *)
(* flappy_transaction_prepare appends, and the first ones it removes, give *)
(* that order.  (Of the packages requested, dependents may come first.)    *)
Uses(pv, qv) == \E p \in ToSet(meta[pv].deps) : Matches(qv, p) \/ Provides(qv, p)
Reach[k \in Nat] ==
  [pv \in {Pv(s) : s \in Unpacked} |->
     IF k = 0 THEN {pv}
     ELSE {pv} \cup UNION {Reach[k - 1][qv] : qv \in {q \in {Pv(s) : s \in Unpacked} : Uses(pv, q)}}]
DependenciesFirst ==
  Prepared =>
    /\ \A j, k \in DOMAIN pkgs : pkgs[j].name = pkgs[k].name => j = k
    /\ \A j, k \in DOMAIN pkgs :
         /\ j < k /\ {pkgs[j], pkgs[k]} \subseteq Unpacked /\ Pv(pkgs[k]) \notin ToSet(edges)
         /\ \E p \in ToSet(meta[Pv(pkgs[j])].deps) :
              /\ ~Satisfied(Before, Pv(pkgs[j]), p)
              /\ Matches(Pv(pkgs[k]), p) \/ Provides(Pv(pkgs[k]), p)
         => Pv(pkgs[j]) \in Reach[MaxName][Pv(pkgs[k])]
=============================================================================
