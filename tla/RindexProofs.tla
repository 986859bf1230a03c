---------------------------- MODULE RindexProofs ----------------------------
(***************************************************************************)
(* What flappy-rindex -a does to the libraries of the index, for any       *)
(* number of commands, packages, versions and libraries.                   *)
(*                                                                         *)
(* The lock does not exclude a third command (see ExclusiveAccess), so     *)
(* that ShlibsKept cannot be had without a condition.  What is proved is   *)
(* that the lock is the only condition: an add computes from what it has   *)
(* read an index that takes no needed library away, and as long as no      *)
(* update is lost, that is the index it replaces.                          *)
(***************************************************************************)
EXTENDS Rindex, TLAPS

Index == [Name -> Entry \cup {NoEntry}]
Repo  == [index : Index, stage : Index, meta : {0, 1}]

Cmd == {"none", "add", "clean", "obsoletes", "sign"}
Pc  == {"idle", "lock", "wait", "read", "apply", "remove", "flush", "unlock", "exit"}
Command == [pc : Pc, cmd : Cmd, args : Seq(Binpkg), flag : BOOLEAN,
            inode : Nat, repo : Repo, new : Repo, todo : SUBSET Binpkg]

(* The types of what a command reads, computes and writes. *)
RepoTypeOK ==
  /\ repodata \in Repo
  /\ files \in [Binpkg -> Sum \cup {None}]
  /\ path \in Nat /\ inodes \in Nat
  /\ proc \in [Proc -> Command]

(* An add stages into its copy of what it read, and what it is about to     *)
(* write keeps the libraries of what it read.                               *)
Sound(c) ==
  c.cmd = "add" =>
    /\ c.pc = "apply" => c.new.index = c.repo.index
    /\ c.pc = "flush" => KeepsLibs(c.repo.index, c.new.index)

AddInv == \A p \in Proc : Sound(proc[p])

IInv == RepoTypeOK /\ AddInv

----------------------------------------------------------------------------
(* The merged index has, for every name, what the stage has or else what    *)
(* the index has (repo_merge_stage).                                       *)
LEMMA Merged ==
  ASSUME NEW r
  PROVE  /\ In(repo_merge_stage(r)) = In(r.index) \cup In(r.stage)
         /\ \A n \in In(r.stage) : repo_merge_stage(r)[n] = r.stage[n]
         /\ \A n \in Name \ In(r.stage) : repo_merge_stage(r)[n] = r.index[n]
<1> DEFINE next == repo_merge_stage(r)
<1>1. \A n \in Name : next[n] = IF n \in In(r.stage) THEN r.stage[n] ELSE r.index[n]
  BY DEF repo_merge_stage
<1>2. \A n \in In(r.stage) : n \in Name /\ next[n] = r.stage[n] /\ r.stage[n] # NoEntry
  BY <1>1 DEF In
<1>3. \A n \in Name \ In(r.stage) : next[n] = r.index[n]
  BY <1>1
<1>4. In(next) = In(r.index) \cup In(r.stage)
  <2> HIDE DEF next
  <2> QED BY <1>2, <1>3 DEF In
<1> QED BY <1>2, <1>3, <1>4

(* The four loops of repodata_commit find every library that would be       *)
(* missed: if none is left, the merged index keeps all that are needed.    *)
LEMMA ConsistentKeeps ==
  ASSUME NEW r, Inconsistent(r.index, r.stage) = {}
  PROVE  KeepsLibs(r.index, repo_merge_stage(r))
<1> DEFINE index == r.index
           stage == r.stage
           next  == repo_merge_stage(r)
           old   == LibsOf(index, In(stage) \cap In(index))
           used  == {s \in old : \E n \in In(index) : s \in Requires(n, next[n].ver)}
           there == LibsOf(index, In(index) \ In(stage)) \cup LibsOf(stage, In(stage))
<1>1. used \subseteq there
  <2>1. repo_merge_stage([index |-> index, stage |-> stage]) = next
    BY DEF repo_merge_stage
  <2> QED BY <2>1 DEF Inconsistent
<1>2. there \subseteq LibsOf(next, In(next))
  <2> SUFFICES ASSUME NEW s \in there PROVE s \in LibsOf(next, In(next))
    OBVIOUS
  <2>1. CASE s \in LibsOf(index, In(index) \ In(stage))
    <3>1. PICK k \in In(index) \ In(stage) : s \in Provides(k, index[k].ver)
      BY <2>1 DEF LibsOf
    <3>2. k \in In(next) /\ next[k] = index[k]
      BY <3>1, Merged DEF In
    <3> QED BY <3>1, <3>2 DEF LibsOf
  <2>2. CASE s \in LibsOf(stage, In(stage))
    <3>1. PICK k \in In(stage) : s \in Provides(k, stage[k].ver)
      BY <2>2 DEF LibsOf
    <3>2. k \in In(next) /\ next[k] = stage[k]
      BY <3>1, Merged DEF In
    <3> QED BY <3>1, <3>2 DEF LibsOf
  <2> QED BY <2>1, <2>2
<1>3. ASSUME NEW n \in In(index), NEW s \in Requires(n, next[n].ver), s \in LibsOf(index, In(index))
      PROVE  s \in LibsOf(next, In(next))
  <2>1. PICK k \in In(index) : s \in Provides(k, index[k].ver)
    BY <1>3 DEF LibsOf
  <2>2. CASE k \in In(stage)
    <3>1. s \in old
      BY <2>1, <2>2 DEF LibsOf
    <3>2. s \in used
      BY <3>1, <1>3
    <3> QED BY <3>2, <1>1, <1>2
  <2>3. CASE k \notin In(stage)
    <3>1. s \in LibsOf(index, In(index) \ In(stage))
      BY <2>1, <2>3 DEF LibsOf
    <3> QED BY <3>1, <1>2
  <2> QED BY <2>2, <2>3
<1> QED BY <1>3 DEF KeepsLibs

(* What repodata_commit returns, merged or staged, keeps what is needed. *)
LEMMA CommitKeeps ==
  ASSUME NEW r \in Repo
  PROVE  KeepsLibs(r.index, repodata_commit(r).index)
<1>1. CASE Inconsistent(r.index, r.stage) = {}
  <2>1. repodata_commit(r).index = repo_merge_stage(r)
    BY <1>1 DEF repodata_commit, Repo
  <2> QED BY <2>1, <1>1, ConsistentKeeps
<1>2. CASE Inconsistent(r.index, r.stage) # {}
  <2>1. repodata_commit(r).index = r.index
    BY <1>2 DEF repodata_commit
  <2> QED BY <2>1 DEF KeepsLibs
<1> QED BY <1>1, <1>2

(* The operators that make indexes make indexes. *)
LEMMA RepoTypes ==
  /\ Nothing \in Index /\ NoRepo \in Repo
  /\ \A r \in Repo : repo_merge_stage(r) \in Index
  /\ \A r \in Repo : repodata_commit(r) \in Repo
  /\ RepoTypeOK => \A r \in Repo, f \in BOOLEAN : cleanup_repo(r, f) \in Repo
  /\ RepoTypeOK => \A i, s \in Index, b \in Binpkg, f \in BOOLEAN : index_add_pkg(i, s, b, f) \in Index
<1>1. Nothing \in Index /\ NoRepo \in Repo
  BY DEF Nothing, NoRepo, Index, Repo
<1>2. ASSUME NEW r \in Repo PROVE repo_merge_stage(r) \in Index
  BY DEF repo_merge_stage, Repo, Index
<1>3. ASSUME NEW r \in Repo PROVE repodata_commit(r) \in Repo
  BY <1>1, <1>2 DEF repodata_commit, Repo
<1>4. ASSUME RepoTypeOK, NEW r \in Repo, NEW f \in BOOLEAN PROVE cleanup_repo(r, f) \in Repo
  <2> DEFINE idx == repo_merge_stage(r)
             good(n) == Readable(n, idx[n], f)
             clean(d) == [n \in Name |-> IF n \in In(d) /\ good(n) THEN d[n] ELSE NoEntry]
  <2>1. \A d \in Index : clean(d) \in Index
    BY DEF Index
  <2>2. r.index \in Index /\ r.stage \in Index
    BY DEF Repo
  <2>3. cleanup_repo(r, f) = [r EXCEPT !.index = clean(r.index), !.stage = clean(r.stage)]
    BY DEF cleanup_repo
  <2> HIDE DEF clean
  <2> QED BY <2>1, <2>2, <2>3 DEF Repo
<1>5. ASSUME RepoTypeOK, NEW i \in Index, NEW s \in Index, NEW b \in Binpkg, NEW f \in BOOLEAN
      PROVE  index_add_pkg(i, s, b, f) \in Index
  <2>1. files[b] # None => [ver |-> b[2], sum |-> files[b]] \in Entry
    BY <1>5 DEF RepoTypeOK, Entry, Binpkg
  <2>2. b[1] \in Name
    BY DEF Binpkg
  <2> QED BY <2>1, <2>2 DEF index_add_pkg, Index
<1> QED BY <1>1, <1>2, <1>3, <1>4, <1>5

(* A process that runs no command. *)
LEMMA IdleType == Idle \in Command
<1>1. <<>> \in Seq(Binpkg) /\ {} \in SUBSET Binpkg /\ 0 \in Nat
  OBVIOUS
<1>2. NoRepo \in Repo
  BY RepoTypes
<1> QED BY <1>1, <1>2 DEF Idle, Command, None, Pc, Cmd

----------------------------------------------------------------------------
(* No command runs at first.                                               *)
LEMMA InitInv == Init => IInv
<1> SUFFICES ASSUME Init PROVE IInv
  OBVIOUS
<1>1. repodata \in Repo
  <2>1. PICK index \in [Name -> Entry \cup {NoEntry}] : repodata = [NoRepo EXCEPT !.index = index]
    BY DEF Init
  <2> QED BY <2>1, RepoTypes DEF Repo, Index
<1>2. Idle \in Command
  BY IdleType
<1>3. RepoTypeOK
  BY <1>1, <1>2 DEF Init, RepoTypeOK, Sum, None
<1>4. AddInv
  BY DEF Init, AddInv, Sound, Idle
<1> QED BY <1>3, <1>4 DEF IInv

(* Every step keeps the types. *)
LEMMA TypeStep == RepoTypeOK /\ [Next]_vars => RepoTypeOK'
<1> SUFFICES ASSUME RepoTypeOK, [Next]_vars PROVE RepoTypeOK'
  OBVIOUS
<1> USE DEF RepoTypeOK, Pc
<1>1. ASSUME NEW p \in Proc, NEW cmd \in Cmd, NEW args \in Seq(Binpkg), NEW f \in BOOLEAN,
             Start(p, cmd, args, f)
      PROVE  RepoTypeOK'
  <2>1. [Idle EXCEPT !.pc = IF cmd \in {"add", "clean"} THEN "lock" ELSE "read",
                     !.cmd = cmd, !.args = args, !.flag = f] \in Command
    BY IdleType DEF Command
  <2> QED BY <2>1, <1>1 DEF Start
<1>2. ASSUME NEW p \in Proc, StartAny(p) PROVE RepoTypeOK'
  <2>1. Args \subseteq Seq(Binpkg) /\ Forced \subseteq BOOLEAN
    <3>1. Args \subseteq Seq(Name \X (1..MaxVer)) /\ Forced \subseteq BOOLEAN
      BY RindexAssumption
    <3>2. Binpkg = Name \X (1..MaxVer)
      BY DEF Binpkg, Ver
    <3> QED BY ONLY <3>1, <3>2, Zenon
  <2>2. <<>> \in Seq(Binpkg)
    OBVIOUS
  <2>3. {"add", "clean", "obsoletes", "sign"} \subseteq Cmd
    BY DEF Cmd
  <2>4. CASE \E args \in Args, f \in Forced : Start(p, "add", args, f)
    BY <1>1, <2>1, <2>3, <2>4
  <2>5. CASE \E f \in BOOLEAN : Start(p, "clean", <<>>, f)
    BY <1>1, <2>2, <2>3, <2>5
  <2>6. CASE \E cmd \in {"obsoletes", "sign"} : Start(p, cmd, <<>>, FALSE)
    BY <1>1, <2>2, <2>3, <2>6
  <2> QED BY <1>2, <2>4, <2>5, <2>6, Zenon DEF StartAny
<1>3. ASSUME NEW p \in Proc, SignNothing(p) PROVE RepoTypeOK'
  BY <1>3 DEF SignNothing, Go, Command
<1>4. ASSUME NEW p \in Proc, SignLocks(p) PROVE RepoTypeOK'
  <2> DEFINE i == IF path = None THEN inodes + 1 ELSE path
  <2>1. i \in Nat
    OBVIOUS
  <2>2. /\ proc' = [proc EXCEPT ![p].inode = i, ![p].pc = "wait"]
        /\ path' = i /\ inodes' \in {i, inodes}
        /\ UNCHANGED <<repodata, files>>
    BY <1>4 DEF SignLocks, OpenLock
  <2> HIDE DEF i
  <2>3. [proc[p] EXCEPT !.inode = i, !.pc = "wait"] \in Command
    BY <2>1 DEF Command
  <2>4. proc' = [proc EXCEPT ![p] = [proc[p] EXCEPT !.inode = i, !.pc = "wait"]]
    BY <2>2
  <2> QED BY <2>1, <2>2, <2>3, <2>4
<1>5. ASSUME NEW p \in Proc, flappy_repo_lock(p) PROVE RepoTypeOK'
  <2>1. PICK pc \in Pc : proc' = [proc EXCEPT ![p].pc = pc]
    BY <1>5 DEF flappy_repo_lock, Go
  <2>2. proc' \in [Proc -> Command]
    BY <2>1 DEF Command
  <2> QED BY <2>2, <1>5 DEF flappy_repo_lock
<1>6. ASSUME NEW p \in Proc, flappy_repo_open(p) PROVE RepoTypeOK'
  <2>1. PICK pc \in Pc, new \in Repo, todo \in SUBSET Binpkg :
          proc' = [proc EXCEPT ![p].repo = repodata, ![p].pc = pc, ![p].new = new, ![p].todo = todo]
    <3>1. AfterRead(proc[p].cmd) \in Pc
      BY DEF AfterRead
    <3>2. NoRepo \in Repo /\ repodata \in Repo /\ [repodata EXCEPT !.meta = 1] \in Repo
      BY RepoTypes DEF Repo
    <3> QED BY <3>1, <3>2, <1>6 DEF flappy_repo_open
  <2> DEFINE c == [proc[p] EXCEPT !.repo = repodata, !.pc = pc, !.new = new, !.todo = todo]
  <2>2. c \in Command
    BY DEF Command
  <2>3. proc' = [proc EXCEPT ![p] = c]
    BY <2>1
  <2> HIDE DEF c
  <2> QED BY <2>2, <2>3, <1>6 DEF flappy_repo_open
<1>7. ASSUME NEW p \in Proc, AddPkg(p) PROVE RepoTypeOK'
  <2> DEFINE c == proc[p]
             stage == index_add_pkg(c.repo.index, c.new.stage, Head(c.args), c.flag)
  <2>1. /\ c.repo.index \in Index /\ c.new.stage \in Index /\ c.flag \in BOOLEAN
        /\ Head(c.args) \in Binpkg /\ Tail(c.args) \in Seq(Binpkg)
    BY <1>7 DEF AddPkg, Command, Repo
  <2>2. stage \in Index
    BY <2>1, RepoTypes
  <2>3. [c.new EXCEPT !.stage = stage] \in Repo
    BY <2>2 DEF Command, Repo
  <2>4. proc' = [proc EXCEPT ![p].args = Tail(c.args), ![p].new = [c.new EXCEPT !.stage = stage]]
    BY <1>7 DEF AddPkg, Command
  <2> HIDE DEF stage
  <2> DEFINE d == [c EXCEPT !.args = Tail(c.args), !.new = [c.new EXCEPT !.stage = stage]]
  <2>5. d \in Command
    BY <2>1, <2>3 DEF Command
  <2>6. proc' = [proc EXCEPT ![p] = d]
    BY <2>4
  <2> HIDE DEF d
  <2> QED BY <2>5, <2>6, <1>7 DEF AddPkg
<1>8. ASSUME NEW p \in Proc, Apply(p) PROVE RepoTypeOK'
  <2>1. PICK new \in Repo, pc \in Pc : proc' = [proc EXCEPT ![p].new = new, ![p].pc = pc]
    <3>1. /\ cleanup_repo(proc[p].repo, proc[p].flag) \in Repo
          /\ repodata_commit(proc[p].new) \in Repo
      BY RepoTypes DEF Command
    <3> QED BY <3>1, <1>8 DEF Apply
  <2>2. [proc[p] EXCEPT !.new = new, !.pc = pc] \in Command
    BY DEF Command
  <2>3. proc' = [proc EXCEPT ![p] = [proc[p] EXCEPT !.new = new, !.pc = pc]]
    BY <2>1
  <2> QED BY <2>2, <2>3, <1>8 DEF Apply
<1>9. ASSUME NEW p \in Proc, repodata_flush(p) PROVE RepoTypeOK'
  BY <1>9 DEF repodata_flush, Go, Command
<1>10. ASSUME NEW p \in Proc, Fails(p) PROVE RepoTypeOK'
  BY <1>10 DEF Fails, Go, Command
<1>11. ASSUME NEW p \in Proc, flappy_repo_unlock(p) PROVE RepoTypeOK'
  BY <1>11 DEF flappy_repo_unlock, Go, Command, None
<1>12. ASSUME NEW p \in Proc, cleaner_cb(p) PROVE RepoTypeOK'
  <2>1. PICK b \in proc[p].todo :
          /\ files' = files \/ files' = [files EXCEPT ![b] = None]
          /\ proc' = [proc EXCEPT ![p].todo = @ \ {b}]
    BY <1>12 DEF cleaner_cb
  <2>2. b \in Binpkg
    BY <2>1 DEF Command
  <2>3. proc' \in [Proc -> Command]
    <3>1. [proc[p] EXCEPT !.todo = proc[p].todo \ {b}] \in Command
      BY DEF Command
    <3>2. proc' = [proc EXCEPT ![p] = [proc[p] EXCEPT !.todo = proc[p].todo \ {b}]]
      BY <2>1
    <3> QED BY <3>1, <3>2
  <2>4. files' \in [Binpkg -> Sum \cup {None}]
    BY <2>1, <2>2
  <2> QED BY <2>3, <2>4, <1>12 DEF cleaner_cb
<1>13. ASSUME NEW p \in Proc, Exit(p) PROVE RepoTypeOK'
  BY <1>13, IdleType DEF Exit
<1>14. ASSUME FileChanges PROVE RepoTypeOK'
  BY <1>14 DEF FileChanges
<1>15. CASE UNCHANGED vars
  BY <1>15 DEF vars
<1> QED
  BY <1>2, <1>3, <1>4, <1>5, <1>6, <1>7, <1>8, <1>9, <1>10, <1>11, <1>12, <1>13, <1>14, <1>15 DEF Next

(* Every step keeps what is known of adds; only the process that takes the  *)
(* step changes.                                                           *)
LEMMA AddStep == IInv /\ [Next]_vars => AddInv'
<1> SUFFICES ASSUME IInv, [Next]_vars PROVE AddInv'
  OBVIOUS
<1>0. proc \in [Proc -> Command] /\ repodata \in Repo /\ AddInv
  BY DEF IInv, RepoTypeOK
<1>a. ASSUME NEW p \in Proc, NEW c, Sound(c), proc' = [proc EXCEPT ![p] = c] PROVE AddInv'
  BY <1>0, <1>a DEF AddInv
<1>b. ASSUME NEW p \in Proc, NEW pc \in {"read", "unlock", "exit", "wait"},
             proc' = [proc EXCEPT ![p].pc = pc]
      PROVE  AddInv'
  <2>1. Sound([proc[p] EXCEPT !.pc = pc])
    BY <1>0 DEF Sound, Command
  <2> QED BY <2>1, <1>a, <1>b
<1>c. ASSUME UNCHANGED proc PROVE AddInv'
  BY <1>0, <1>c DEF AddInv
<1>1. ASSUME NEW p \in Proc, StartAny(p) PROVE AddInv'
  <2>1. PICK cmd, args, f : Start(p, cmd, args, f)
    BY <1>1 DEF StartAny
  <2> DEFINE c == [Idle EXCEPT !.pc = IF cmd \in {"add", "clean"} THEN "lock" ELSE "read",
                               !.cmd = cmd, !.args = args, !.flag = f]
  <2>2. c.pc \in {"lock", "read"}
    BY DEF Idle
  <2>3. Sound(c)
    BY <2>2 DEF Sound
  <2>4. proc' = [proc EXCEPT ![p] = c]
    BY <2>1 DEF Start
  <2> QED BY <2>3, <2>4, <1>a
<1>2. ASSUME NEW p \in Proc, SignNothing(p) PROVE AddInv'
  BY <1>2, <1>b DEF SignNothing, Go
<1>3. ASSUME NEW p \in Proc, SignLocks(p) PROVE AddInv'
  <2>1. PICK i : proc' = [proc EXCEPT ![p].inode = i, ![p].pc = "wait"]
    BY <1>3 DEF SignLocks, OpenLock
  <2>2. Sound([proc[p] EXCEPT !.inode = i, !.pc = "wait"])
    BY <1>0 DEF Sound, Command
  <2>3. proc' = [proc EXCEPT ![p] = [proc[p] EXCEPT !.inode = i, !.pc = "wait"]]
    BY <2>1, <1>0
  <2> QED BY <2>2, <2>3, <1>a
<1>4. ASSUME NEW p \in Proc, flappy_repo_lock(p) PROVE AddInv'
  <2>1. CASE proc[p].cmd = "sign"
    <3>1. Sound([proc[p] EXCEPT !.pc = "flush"])
      BY <2>1, <1>0 DEF Sound, Command
    <3>2. proc' = [proc EXCEPT ![p] = [proc[p] EXCEPT !.pc = "flush"]]
      BY <1>4, <2>1, <1>0 DEF flappy_repo_lock, Go
    <3> QED BY <3>1, <3>2, <1>a
  <2>2. CASE proc[p].cmd # "sign"
    BY <1>4, <2>2, <1>b DEF flappy_repo_lock, Go
  <2> QED BY <2>1, <2>2
<1>5. ASSUME NEW p \in Proc, flappy_repo_open(p) PROVE AddInv'
  <2>1. PICK pc, new, todo :
          /\ proc' = [proc EXCEPT ![p].repo = repodata, ![p].pc = pc, ![p].new = new, ![p].todo = todo]
          /\ proc[p].cmd = "add" => new = repodata /\ pc = "apply"
    BY <1>5 DEF flappy_repo_open, AfterRead
  <2> DEFINE c == [proc[p] EXCEPT !.repo = repodata, !.pc = pc, !.new = new, !.todo = todo]
  <2>2. Sound(c)
    BY <2>1, <1>0 DEF Sound, Command
  <2>3. proc' = [proc EXCEPT ![p] = c]
    BY <2>1, <1>0
  <2> QED BY <2>2, <2>3, <1>a
<1>6. ASSUME NEW p \in Proc, AddPkg(p) PROVE AddInv'
  <2>1. PICK args, stage : proc' = [proc EXCEPT ![p].args = args, ![p].new.stage = stage]
    BY <1>6 DEF AddPkg
  <2> DEFINE c == [proc[p] EXCEPT !.args = args, !.new.stage = stage]
  <2>2. /\ c.cmd = proc[p].cmd /\ c.pc = proc[p].pc /\ c.repo = proc[p].repo
        /\ c.new.index = proc[p].new.index
    BY <1>0 DEF Command, Repo
  <2>3. proc[p].pc = "apply" /\ Sound(proc[p])
    BY <1>6, <1>0 DEF AddPkg, At, AddInv
  <2>4. Sound(c)
    BY <2>2, <2>3 DEF Sound
  <2>5. proc' = [proc EXCEPT ![p] = c]
    BY <2>1, <1>0 DEF Command
  <2> QED BY <2>4, <2>5, <1>a
<1>7. ASSUME NEW p \in Proc, Apply(p) PROVE AddInv'
  <2>1. PICK new, pc : /\ proc' = [proc EXCEPT ![p].new = new, ![p].pc = pc]
                       /\ pc \in {"unlock", "flush"}
                       /\ proc[p].cmd = "add" => new = repodata_commit(proc[p].new)
    BY <1>7 DEF Apply
  <2> DEFINE c == [proc[p] EXCEPT !.new = new, !.pc = pc]
  <2>2. /\ c.cmd = proc[p].cmd /\ c.pc = pc /\ c.repo = proc[p].repo /\ c.new = new
        /\ proc[p].new \in Repo
    BY <1>0 DEF Command
  <2>3. proc[p].cmd = "add" => proc[p].new.index = proc[p].repo.index
    BY <1>7, <1>0 DEF Apply, At, AddInv, Sound
  <2>4. proc[p].cmd = "add" => KeepsLibs(c.repo.index, c.new.index)
    BY <2>1, <2>2, <2>3, CommitKeeps
  <2>5. Sound(c)
    BY <2>1, <2>2, <2>4 DEF Sound
  <2>6. proc' = [proc EXCEPT ![p] = c]
    BY <2>1, <1>0
  <2> QED BY <2>5, <2>6, <1>a
<1>8. ASSUME NEW p \in Proc, repodata_flush(p) \/ Fails(p) \/ flappy_repo_unlock(p) PROVE AddInv'
  BY <1>8, <1>b DEF repodata_flush, Fails, flappy_repo_unlock, Go
<1>9. ASSUME NEW p \in Proc, cleaner_cb(p) PROVE AddInv'
  <2>1. PICK todo : proc' = [proc EXCEPT ![p].todo = todo]
    BY <1>9 DEF cleaner_cb
  <2>2. Sound([proc[p] EXCEPT !.todo = todo])
    BY <1>0 DEF Sound, Command, AddInv
  <2>3. proc' = [proc EXCEPT ![p] = [proc[p] EXCEPT !.todo = todo]]
    BY <2>1, <1>0
  <2> QED BY <2>2, <2>3, <1>a
<1>10. ASSUME NEW p \in Proc, Exit(p) PROVE AddInv'
  <2>1. Sound(Idle)
    BY DEF Sound, Idle
  <2> QED BY <2>1, <1>10, <1>a DEF Exit
<1>11. ASSUME FileChanges PROVE AddInv'
  BY <1>11, <1>c DEF FileChanges
<1>12. CASE UNCHANGED vars
  BY <1>12, <1>c DEF vars
<1> QED
  BY <1>1, <1>2, <1>3, <1>4, <1>5, <1>6, <1>7, <1>8, <1>9, <1>10, <1>11, <1>12 DEF Next

----------------------------------------------------------------------------
(* What flappy-rindex -a is about to write in place of what it read lacks   *)
(* no library that a package of both needs and the old index had: for any   *)
(* packages, whatever other commands do meanwhile.                          *)
THEOREM AddKeepsLibs ==
  Spec => [](\A p \in Proc : proc[p].cmd = "add" /\ proc[p].pc = "flush" =>
               KeepsLibs(proc[p].repo.index, proc[p].new.index))
<1> DEFINE Kept == \A p \in Proc : proc[p].cmd = "add" /\ proc[p].pc = "flush" =>
                     KeepsLibs(proc[p].repo.index, proc[p].new.index)
<1>1. Init => IInv
  BY InitInv
<1>2. IInv /\ [Next]_vars => IInv'
  BY TypeStep, AddStep DEF IInv
<1>3. IInv => Kept
  BY DEF IInv, AddInv, Sound
<1> QED BY <1>1, <1>2, <1>3, PTL DEF Spec

(* As long as the lock lets no update be lost, no add takes a needed        *)
(* library out of the index, whatever the number of commands, packages,     *)
(* versions and libraries.                                                  *)
THEOREM LibsKept == Spec /\ NoUpdateLost => ShlibsKept
<1> DEFINE NotLost == \A p \in Proc : Flushed(p) /\ proc[p].cmd \in {"add", "clean"} =>
                        proc[p].repo = repodata
           Kept == \A p \in Proc : Flushed(p) /\ proc[p].cmd = "add" =>
                     KeepsLibs(repodata.index, repodata'.index)
<1>1. Init => IInv
  BY InitInv
<1>2. IInv /\ [Next]_vars => IInv'
  BY TypeStep, AddStep DEF IInv
<1>3. IInv /\ [NotLost]_vars => [Kept]_vars
  BY DEF IInv, AddInv, Sound, Flushed
<1> QED BY <1>1, <1>2, <1>3, PTL DEF Spec, NoUpdateLost, ShlibsKept
============================================================================
