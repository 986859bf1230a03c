------------------------------- MODULE Rindex -------------------------------
(***************************************************************************)
(* flappy-rindex: commands that rewrite the repodata of a local repository *)
(* (index, stage and meta) under a lock file, next to each other and while *)
(* package files come and go.                                              *)
(*                                                                         *)
(* The lock is flock on the file at a path.  flappy_repo_unlock closes     *)
(* descriptor 0 instead of the lock's and removes the file, so that the    *)
(* lock itself is held until the process ends, and a process that waits    *)
(* for it waits for a file that has no name any more.                      *)
(*                                                                         *)
(* A package file is its name, its version and its contents; architectures *)
(* and compression are left out.                                           *)
(***************************************************************************)
EXTENDS Naturals, Sequences, FiniteSets

CONSTANTS
  Proc,            \* where commands run
  Name,
  MaxVer,          \* versions are 1..MaxVer
  Provides(_, _),  \* the libraries of a package (shlib-provides)
  Requires(_, _),  \* the libraries it needs (shlib-requires)
  Reverts(_, _),   \* the versions it reverts
  Forced,          \* the values of -f a command may have
  Args,            \* the sequences of files that commands add
  MaxCmds,         \* bound: commands started
  MaxChanges       \* bound: package files made or lost by others

ASSUME RindexAssumption ==
  /\ MaxVer \in Nat \ {0} /\ MaxCmds \in Nat /\ MaxChanges \in Nat
  /\ Forced \subseteq BOOLEAN /\ Args \subseteq Seq(Name \X (1..MaxVer))

VARIABLES
  repodata,   \* the file: index, stage and meta
  files,      \* the package files: their contents, None if there is no such file
  path,       \* the lock file at the path: its inode, or None
  flock,      \* inode -> who has locked it
  inodes,     \* how many lock files were created
  proc,       \* the commands
  cmds, changes

vars == <<repodata, files, path, flock, inodes, proc, cmds, changes>>

None  == 0
Ver   == 1..MaxVer
Sum   == {1, 2}                            \* contents a file may have
Inode == 1..MaxCmds
Binpkg  == Name \X Ver
NoEntry == [ver |-> None, sum |-> None]
Entry   == [ver : Ver, sum : Sum]
Nothing == [n \in Name |-> NoEntry]

In(index)   == {n \in Name : index[n] # NoEntry}
NoRepo == [index |-> Nothing, stage |-> Nothing, meta |-> 0]
Idle == [pc |-> "idle", cmd |-> "none", args |-> <<>>, flag |-> FALSE, inode |-> None,
         repo |-> NoRepo, new |-> NoRepo, todo |-> {}]

(* repo_merge_stage: what the stage has goes before what the index has. *)
repo_merge_stage(r) == [n \in Name |-> IF n \in In(r.stage) THEN r.stage[n] ELSE r.index[n]]

----------------------------------------------------------------------------
(* index-add.c                                                              *)

(* Whether version v of n is newer than version o, reverts considered. *)
Newer(n, v, o) ==
  \/ v < o /\ o \in Reverts(n, v)
  \/ v > o /\ v \notin Reverts(n, o)

(* The stage after file b was added.  A file that cannot be read, or is not *)
(* newer than what is registered, is skipped.                               *)
index_add_pkg(index, stage, b, force) ==
  LET n   == b[1]
      cur == IF n \in In(stage) THEN stage[n] ELSE index[n]
  IN IF /\ files[b] # None
        /\ cur = NoEntry \/ force \/ Newer(n, b[2], cur.ver)
     THEN [stage EXCEPT ![n] = [ver |-> b[2], sum |-> files[b]]]
     ELSE stage

LibsOf(index, ns) == UNION {Provides(n, index[n].ver) : n \in ns}

(* Bug: what a package needs is looked up in the index, though it is staged. *)
InconsistentAsIndexed(index, stage) ==
  LET old  == LibsOf(index, In(stage) \cap In(index))
      used == {s \in old : \E n \in In(index) : s \in Requires(n, index[n].ver)}
  IN used \ (LibsOf(index, In(index) \ In(stage)) \cup LibsOf(stage, In(stage)))

(* Libraries that staged packages no longer provide and others need. *)
Inconsistent(index, stage) ==
  LET old  == LibsOf(index, In(stage) \cap In(index))
      next == repo_merge_stage([index |-> index, stage |-> stage])
      used == {s \in old : \E n \in In(index) : s \in Requires(n, next[n].ver)}
  IN used \ (LibsOf(index, In(index) \ In(stage)) \cup LibsOf(stage, In(stage)))

(* All that is staged goes to the index, or none of it. *)
repodata_commit(r) ==
  IF Inconsistent(r.index, r.stage) = {}
  THEN [r EXCEPT !.index = repo_merge_stage(r), !.stage = Nothing]
  ELSE r

----------------------------------------------------------------------------
(* index-clean.c: an entry whose file is not there, or has not the sum the  *)
(* entry says, is removed.  Both passes look at the merged index.           *)

Readable(n, e, hashcheck) == files[<<n, e.ver>>] # None /\ (hashcheck => files[<<n, e.ver>>] = e.sum)

cleanup_repo(r, hashcheck) ==
  LET idx == repo_merge_stage(r)
      good(n) == Readable(n, idx[n], hashcheck)
      clean(d) == [n \in Name |-> IF n \in In(d) /\ good(n) THEN d[n] ELSE NoEntry]
  IN [r EXCEPT !.index = clean(r.index), !.stage = clean(r.stage)]

----------------------------------------------------------------------------
(* Steps of a command.                                                      *)

At(p, pc) == proc[p].pc = pc
Go(p, pc) == proc' = [proc EXCEPT ![p].pc = pc]

(* add and clean lock the repository first, sign after it has read it, and  *)
(* remove-obsoletes never.                                                  *)
Start(p, cmd, args, flag) ==
  /\ At(p, "idle") /\ cmds < MaxCmds
  /\ cmds' = cmds + 1
  /\ proc' = [proc EXCEPT ![p] = [Idle EXCEPT
       !.pc = IF cmd \in {"add", "clean"} THEN "lock" ELSE "read",
       !.cmd = cmd, !.args = args, !.flag = flag]]
  /\ UNCHANGED <<repodata, files, path, flock, inodes, changes>>

StartAny(p) ==
  \/ \E args \in Args, f \in Forced : Start(p, "add", args, f)
  \/ \E f \in BOOLEAN : Start(p, "clean", <<>>, f)
  \/ \E cmd \in {"obsoletes", "sign"} : Start(p, cmd, <<>>, FALSE)

(* flappy_repo_lock: the file at the path is opened, or made... *)
OpenLock(p) ==
  /\ At(p, "lock")
  /\ LET i == IF path = None THEN inodes + 1 ELSE path
     IN /\ path' = i
        /\ inodes' = IF path = None THEN i ELSE inodes
        /\ proc' = [proc EXCEPT ![p].inode = i, ![p].pc = "wait"]
  /\ UNCHANGED <<repodata, files, flock, cmds, changes>>

(* Bug: the lock is not waited for. *)
LockSkipsWaiting(p) ==
  /\ At(p, "wait")
  /\ flock' = [flock EXCEPT ![proc[p].inode] = p]
  /\ Go(p, IF proc[p].cmd = "sign" THEN "flush" ELSE "read")
  /\ UNCHANGED <<repodata, files, path, inodes, cmds, changes>>

(* ... and locked, as soon as nobody else has it locked. *)
flappy_repo_lock(p) ==
  /\ At(p, "wait") /\ flock[proc[p].inode] = None
  /\ flock' = [flock EXCEPT ![proc[p].inode] = p]
  /\ Go(p, IF proc[p].cmd = "sign" THEN "flush" ELSE "read")
  /\ UNCHANGED <<repodata, files, path, inodes, cmds, changes>>

AfterRead(cmd) == CASE cmd = "sign" -> "lock" [] cmd = "obsoletes" -> "remove" [] OTHER -> "apply"

(* flappy_repo_open.  add works on a copy; what sign is to write it knows now. *)
flappy_repo_open(p) ==
  /\ At(p, "read")
  /\ proc' = [proc EXCEPT
       ![p].repo = repodata, ![p].pc = AfterRead(proc[p].cmd),
       ![p].new = CASE proc[p].cmd = "sign" -> [repodata EXCEPT !.meta = 1]
                    [] proc[p].cmd = "add" -> repodata
                    [] OTHER -> NoRepo,
       ![p].todo = {b \in Binpkg : proc[p].cmd = "obsoletes" /\ files[b] # None}]
  /\ UNCHANGED <<repodata, files, path, flock, inodes, cmds, changes>>

(* sign stops if there is nothing to sign, or nothing to change. *)
SignNothing(p) ==
  /\ At(p, "lock") /\ proc[p].cmd = "sign"
  /\ In(repo_merge_stage(proc[p].repo)) = {} \/ proc[p].repo.meta = 1
  /\ Go(p, "exit")
  /\ UNCHANGED <<repodata, files, path, flock, inodes, cmds, changes>>

SignLocks(p) ==
  /\ proc[p].cmd = "sign" => /\ In(repo_merge_stage(proc[p].repo)) # {}
                             /\ proc[p].repo.meta # 1
  /\ OpenLock(p)

(* index_add: the files are looked at one after the other... *)
AddPkg(p) ==
  /\ At(p, "apply") /\ proc[p].args # <<>>
  /\ proc' = [proc EXCEPT
       ![p].args = Tail(@),
       ![p].new.stage = index_add_pkg(proc[p].repo.index, @, Head(proc[p].args), proc[p].flag)]
  /\ UNCHANGED <<repodata, files, path, flock, inodes, cmds, changes>>

(* ... and nothing is written if nothing is staged, or clean has changed    *)
(* nothing.                                                                 *)
Apply(p) ==
  /\ At(p, "apply") /\ proc[p].args = <<>>
  /\ LET c == proc[p]
         new == IF c.cmd = "clean" THEN cleanup_repo(c.repo, c.flag) ELSE repodata_commit(c.new)
         skip == IF c.cmd = "clean" THEN new = c.repo ELSE c.new.stage = Nothing
     IN proc' = [proc EXCEPT ![p].new = new, ![p].pc = IF skip THEN "unlock" ELSE "flush"]
  /\ UNCHANGED <<repodata, files, path, flock, inodes, cmds, changes>>

(* repodata_flush: a temporary file takes the place of the old one... *)
repodata_flush(p) ==
  /\ At(p, "flush")
  /\ repodata' = proc[p].new
  /\ Go(p, "unlock")
  /\ UNCHANGED <<files, path, flock, inodes, cmds, changes>>

(* ... or is given up.  A file to add that vanishes ends the command, too. *)
Fails(p) ==
  /\ At(p, "flush") \/ (At(p, "apply") /\ proc[p].cmd = "add")
  /\ Go(p, "unlock")
  /\ UNCHANGED <<repodata, files, path, flock, inodes, cmds, changes>>

(* flappy_repo_unlock: the file at the path is removed, whichever it is. *)
flappy_repo_unlock(p) ==
  /\ At(p, "unlock")
  /\ path' = None
  /\ Go(p, "exit")
  /\ UNCHANGED <<repodata, files, flock, inodes, cmds, changes>>

(* A process ends, or is killed, and has nothing locked any more. *)
Exit(p) ==
  /\ proc[p].pc # "idle"
  /\ flock' = [i \in Inode |-> IF flock[i] = p THEN None ELSE flock[i]]
  /\ proc' = [proc EXCEPT ![p] = Idle]
  /\ UNCHANGED <<repodata, files, path, inodes, cmds, changes>>

(* cleaner_cb: a file that neither index nor stage names is removed. *)
cleaner_cb(p) ==
  /\ At(p, "remove")
  /\ \E b \in proc[p].todo :
       LET r == proc[p].repo
           named == r.stage[b[1]].ver = b[2] \/ r.index[b[1]].ver = b[2]
       IN /\ files' = IF named THEN files ELSE [files EXCEPT ![b] = None]
          /\ proc' = [proc EXCEPT ![p].todo = @ \ {b}]
  /\ UNCHANGED <<repodata, path, flock, inodes, cmds, changes>>

(* A builder makes a package file, or somebody removes one. *)
FileChanges ==
  /\ changes < MaxChanges
  /\ changes' = changes + 1
  /\ \E b \in Binpkg, s \in Sum \cup {None} : files' = [files EXCEPT ![b] = s]
  /\ UNCHANGED <<repodata, path, flock, inodes, proc, cmds>>

----------------------------------------------------------------------------
(* A repository with any packages in its index, as forced adds make it. *)
Init ==
  /\ \E index \in [Name -> Entry \cup {NoEntry}] :
       /\ repodata = [NoRepo EXCEPT !.index = index]
       /\ \A n \in Name : index[n] # NoEntry => index[n].sum = 1
  /\ files = [b \in Binpkg |-> 1]
  /\ path = None /\ inodes = 0
  /\ flock = [i \in Inode |-> None]
  /\ proc = [p \in Proc |-> Idle]
  /\ cmds = 0 /\ changes = 0

Next ==
  \/ \E p \in Proc :
       \/ StartAny(p)
       \/ SignNothing(p) \/ SignLocks(p) \/ flappy_repo_lock(p)
       \/ flappy_repo_open(p) \/ AddPkg(p) \/ Apply(p)
       \/ repodata_flush(p) \/ Fails(p) \/ flappy_repo_unlock(p)
       \/ cleaner_cb(p) \/ Exit(p)
  \/ FileChanges

Spec == Init /\ [][Next]_vars

----------------------------------------------------------------------------
Flushed(p) == proc[p].pc = "flush" /\ proc'[p].pc = "unlock" /\ repodata' = proc[p].new

(* new has every library that a package of old and new needs and old had. *)
KeepsLibs(old, new) ==
  \A n \in In(old) \cap In(new) :
    Requires(n, new[n].ver) \cap LibsOf(old, In(old)) \subseteq LibsOf(new, In(new))

(* An add never takes a library away from the index that a package of the    *)
(* index still needs: packages that would do so stay in the stage until what *)
(* needs the library has been rebuilt, in whichever order they are added.    *)
ShlibsKept ==
  [][\A p \in Proc : Flushed(p) /\ proc[p].cmd = "add" =>
       KeepsLibs(repodata.index, repodata'.index)]_vars

(* What add and clean write is made from what they replace: no command's     *)
(* change is lost in between, whichever commands run side by side.           *)
NoUpdateLost ==
  [][\A p \in Proc : Flushed(p) /\ proc[p].cmd \in {"add", "clean"} =>
       proc[p].repo = repodata]_vars

(* flappy_repo_lock gives exclusive access: never do two commands work       *)
(* between their locking and their unlocking.                                *)
ExclusiveAccess ==
  \A p, q \in Proc : p # q =>
    ~(/\ proc[p].pc \in {"apply", "flush"} /\ proc[p].inode # None
      /\ proc[q].pc \in {"apply", "flush"} /\ proc[q].inode # None)
============================================================================
