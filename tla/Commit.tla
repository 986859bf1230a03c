------------------------------- MODULE Commit -------------------------------
(***************************************************************************)
(* flappy_transaction_commit (lib/transaction_commit.c) with the functions *)
(* it drives: flappy_remove_pkg, flappy_unpack_binary_pkg,                 *)
(* flappy_register_pkg, flappy_configure_pkg, run_post_remove_scripts and  *)
(* the writes of flappy_pkgdb_update; and flappy-reconfigure, the command  *)
(* that resumes what an interrupted transaction left unpacked.             *)
(*                                                                         *)
(* The process works on its copy of the package database (mem) and the     *)
(* root directory (files, meta); the database file (disk) changes only     *)
(* when it is flushed.  Every external step may fail and the process may   *)
(* die between any two steps: what is then left is what the next command   *)
(* starts from.  The pkgdb lock makes commands run one at a time (module   *)
(* PkgdbAccess), so there is one process.                                  *)
(***************************************************************************)
EXTENDS PkgRecords, Sequences, FiniteSets

CONSTANTS
  RemScript,   \* packages that carry a REMOVE script
  MaxLen,      \* bound: packages in one transaction
  MaxRuns,     \* bound: commands issued
  MaxFaults    \* bound: failing steps and crashes, over the whole behaviour

ASSUME RemScriptAssumption == RemScript \subseteq Pkg
ASSUME BoundsAssumption == MaxLen \in Nat /\ MaxRuns \in Nat /\ MaxFaults \in Nat

VARIABLES
  disk,     \* the package database file
  mem,      \* xhp->pkgdb, the process's copy of it
  files,    \* per package: the version whose payload is on disk, 0, or Mixed
  meta,     \* per package: the version .<pkgname>-files.plist describes, or 0
  conf,     \* per package: the version whose post-install action completed last
  pc,       \* where the command is
  trans,    \* transd "packages", in order
  idx,      \* the iterator over it
  scripts,  \* remove_scripts: positions in trans whose REMOVE script was stored
  purged,   \* the positions whose post and purge actions both completed
  todo,     \* flappy-reconfigure: the packages still to configure
  flags,    \* "unpack-only" (also: foreign target_arch), "download-only", "all",
            \* "force"
  rv,       \* the return value so far: 0, or 1 for any error
  start,    \* disk when the command began
  runs, faults

rootVars == <<files, meta, conf>>
procVars == <<pc, trans, idx, scripts, purged, todo, flags, rv, start>>
vars == <<disk, mem, files, meta, conf, pc, trans, idx, scripts, purged, todo,
          flags, rv, start, runs, faults>>

Mixed == MaxVer + 1   \* payload incomplete, or of more than one version

Unpacks == {"install", "update", "reinstall"}
Types == Unpacks \cup {"configure", "remove", "hold"}
Step == [pkg : Pkg, type : Types, ver : 0..MaxVer, replaced : BOOLEAN]

(***************************************************************************)
(* The steps trans_find_pkg, repo_deps, flappy_transaction_remove_pkg and  *)
(* flappy_transaction_check_replaces can put in a transaction, given the   *)
(* database d.  A reinstall takes the repository's version unless it is    *)
(* newer; an update takes a newer one or one the package "reverts" to, and *)
(* can name a package that is not installed when repo_deps picks another   *)
(* provider of a dependency; a package that another one replaces becomes a *)
(* removal, of nothing if it was only to be installed.  The version of a   *)
(* package that is removed or on hold is not looked at: 0 stands for it.   *)
(***************************************************************************)
Possible(s, d) ==
  /\ s.type = "install"   => d[s.pkg] = Absent /\ s.ver > 0
  /\ s.type = "update"    => s.ver \notin {0, d[s.pkg].ver}
  /\ s.type = "reinstall" => s.ver \in 1..d[s.pkg].ver
  /\ s.type = "configure" => d[s.pkg] = Record(s.ver, "unpacked")
  /\ s.type = "remove"    => s.replaced \/ d[s.pkg] # Absent
  /\ s.type \in {"remove", "hold"} => s.ver = 0
  /\ s.replaced           => s.type = "remove"

Transactions(d) ==
  LET S == {s \in Step : Possible(s, d)}
  IN  {t \in UNION {[1..n -> S] : n \in 1..MaxLen} :
         \A i, j \in DOMAIN t : t[i].pkg = t[j].pkg => i = j}

Cur == trans[idx]
AtStep(place, types) == pc = place /\ idx <= Len(trans) /\ Cur.type \in types
AtEnd(place) == pc = place /\ idx > Len(trans)

Fault == faults < MaxFaults /\ faults' = faults + 1

(* "goto out" with an error. *)
Fail == rv' = 1 /\ pc' = "out" /\ Fault

Init ==
  /\ disk \in [Pkg -> DurableRecord]
  /\ mem = disk
  /\ files = [p \in Pkg |-> disk[p].ver]
  /\ meta = files
  /\ conf = [p \in Pkg |-> IF disk[p].state = "installed" THEN disk[p].ver ELSE 0]
  /\ pc = "idle" /\ trans = <<>> /\ idx = 1 /\ scripts = {} /\ purged = {}
  /\ todo = {} /\ flags = {} /\ rv = 0 /\ start = disk
  /\ runs = 0 /\ faults = 0

-----------------------------------------------------------------------------
(* The phases before the package database or the root directory change. *)

Begin ==
  /\ pc = "idle" /\ runs < MaxRuns
  /\ trans' \in Transactions(disk)
  /\ flags' \in {{}, {"unpack-only"}, {"download-only"}}
  /\ mem' = disk /\ start' = disk
  /\ pc' = "fetch" /\ idx' = 1 /\ scripts' = {} /\ purged' = {} /\ rv' = 0
  /\ runs' = runs + 1
  /\ UNCHANGED <<disk, rootVars, todo, faults>>

(* flappy_transaction_fetch succeeds; then _internalize and _files, unless *)
(* the packages were only to be downloaded.                                *)
Fetch ==
  /\ pc = "fetch"
  /\ pc' = IF "download-only" \in flags THEN "out" ELSE "preremove"
  /\ UNCHANGED <<disk, mem, rootVars, trans, idx, scripts, purged, todo, flags,
                 rv, start, runs, faults>>

(* The packages whose REMOVE script the pre-remove loop looks for. *)
HasPreRemove(s) == s.type \in {"remove", "update", "reinstall"}
MissingInPkgdb ==
  \E i \in DOMAIN trans : /\ HasPreRemove(trans[i])
                          /\ ~trans[i].replaced
                          /\ mem[trans[i].pkg] = Absent

(* An update runs only the pre action; the other scripts are stored, the   *)
(* ones of packages that are reinstalled included.                         *)
StoredScripts ==
  {i \in DOMAIN trans : /\ HasPreRemove(trans[i]) /\ trans[i].type # "update"
                        /\ mem[trans[i].pkg] # Absent
                        /\ trans[i].pkg \in RemScript}

PreRemove ==
  /\ pc = "preremove"
  /\ ~MissingInPkgdb
  /\ scripts' = StoredScripts
  /\ pc' = "preinstall"
  /\ UNCHANGED <<disk, mem, rootVars, trans, idx, purged, todo, flags, rv,
                 start, runs, faults>>

(* A package to be updated or removed is not in the database: ENOENT. *)
PreRemoveMissing ==
  /\ pc = "preremove"
  /\ MissingInPkgdb
  /\ rv' = 1 /\ pc' = "out"
  /\ UNCHANGED <<disk, mem, rootVars, trans, idx, scripts, purged, todo, flags,
                 start, runs, faults>>

PreInstall ==
  /\ pc = "preinstall"
  /\ pc' = "run" /\ idx' = 1
  /\ UNCHANGED <<disk, mem, rootVars, trans, scripts, purged, todo, flags, rv,
                 start, runs, faults>>

(* A download, a verification, a file conflict or a pre action fails. *)
EarlyFail ==
  /\ pc \in {"fetch", "preremove", "preinstall"}
  /\ Fail
  /\ UNCHANGED <<disk, mem, rootVars, trans, idx, scripts, purged, todo, flags,
                 start, runs>>

-----------------------------------------------------------------------------
(* The main loop: remove, or unpack and register, each package in turn. *)

Skippable ==
  \/ AtStep("run", {"configure", "hold"})
  \/ AtStep("run", {"remove"}) /\ Cur.replaced /\ mem[Cur.pkg] = Absent

RunSkip ==
  /\ Skippable
  /\ idx' = idx + 1
  /\ UNCHANGED <<disk, mem, rootVars, pc, trans, scripts, purged, todo, flags,
                 rv, start, runs, faults>>

(* What deleting the files listed in the metafile leaves: those of another *)
(* version, left by an interrupted unpack, may not be among them.          *)
Leftover(p) == IF meta[p] = 0 THEN {files[p]}
               ELSE IF files[p] = Mixed THEN {0, Mixed} ELSE {0}

(* Bug: the metafile is deleted before the files it lists. *)
RemoveMetafileFirst ==
  /\ AtStep("run", {"remove"})
  /\ mem[Cur.pkg].state \in {"unpacked", "installed"}
  /\ meta' = [meta EXCEPT ![Cur.pkg] = 0]
  /\ mem' = [mem EXCEPT ![Cur.pkg] = Record(@.ver, "half-removed")]
  /\ UNCHANGED <<disk, files, conf, procVars, runs, faults>>

(***************************************************************************)
(* flappy_remove_pkg up to the half-removed state: delete the package's    *)
(* obsolete files, which are the ones its metafile lists.  A file that     *)
(* cannot be deleted is reported and left behind.                          *)
(***************************************************************************)
RemoveFiles ==
  /\ AtStep("run", {"remove"})
  /\ mem[Cur.pkg].state \in {"unpacked", "installed"}
  /\ \/ /\ \E left \in Leftover(Cur.pkg) : files' = [files EXCEPT ![Cur.pkg] = left]
        /\ UNCHANGED faults
     \/ /\ meta[Cur.pkg] # 0 /\ files[Cur.pkg] # 0 /\ Fault
        /\ files' = [files EXCEPT ![Cur.pkg] = Mixed]
  /\ mem' = [mem EXCEPT ![Cur.pkg] = Record(@.ver, "half-removed")]
  /\ UNCHANGED <<disk, meta, conf, procVars, runs>>

(* flappy_remove_pkg from label purge: delete the metafile and unregister. *)
(* A metafile that cannot be deleted is reported and left behind.          *)
RemovePurge ==
  /\ AtStep("run", {"remove"})
  /\ mem[Cur.pkg].state = "half-removed"
  /\ \/ meta' = [meta EXCEPT ![Cur.pkg] = 0] /\ UNCHANGED faults
     \/ Fault /\ UNCHANGED meta
  /\ mem' = [mem EXCEPT ![Cur.pkg] = Absent]
  /\ idx' = idx + 1
  /\ UNCHANGED <<disk, files, conf, pc, trans, scripts, purged, todo, flags, rv,
                 start, runs>>

(* flappy_unpack_binary_pkg deletes obsolete files and starts extracting. *)
UnpackBegin ==
  /\ AtStep("run", Unpacks)
  /\ files' = [files EXCEPT ![Cur.pkg] = Mixed]
  /\ pc' = "unpack"
  /\ UNCHANGED <<disk, mem, meta, conf, trans, idx, scripts, purged, todo, flags,
                 rv, start, runs, faults>>

(* Extraction ends, the metafile is written and the package registered. *)
UnpackEnd ==
  /\ pc = "unpack"
  /\ files' = [files EXCEPT ![Cur.pkg] = Cur.ver]
  /\ meta' = [meta EXCEPT ![Cur.pkg] = Cur.ver]
  /\ mem' = [mem EXCEPT ![Cur.pkg] = Record(Cur.ver, "unpacked")]
  /\ pc' = "run" /\ idx' = idx + 1
  /\ UNCHANGED <<disk, conf, trans, scripts, purged, todo, flags, rv, start,
                 runs, faults>>

(* Bug: the error of flappy_alternatives_register is not looked at. *)
UnpackIgnoresError ==
  /\ pc = "unpack"
  /\ Fault
  /\ files' = [files EXCEPT ![Cur.pkg] = Cur.ver]
  /\ meta' = [meta EXCEPT ![Cur.pkg] = Cur.ver]
  /\ pc' = "run" /\ idx' = idx + 1
  /\ UNCHANGED <<disk, mem, conf, trans, scripts, purged, todo, flags, rv, start,
                 runs>>

(* The alternatives cannot be registered: unpacked, but never registered. *)
UnpackUnregistered ==
  /\ pc = "unpack"
  /\ Fail
  /\ files' = [files EXCEPT ![Cur.pkg] = Cur.ver]
  /\ meta' = [meta EXCEPT ![Cur.pkg] = Cur.ver]
  /\ UNCHANGED <<disk, mem, conf, trans, idx, scripts, purged, todo, flags,
                 start, runs>>

(***************************************************************************)
(* The current removal or unpacking fails: no permission to delete, the    *)
(* alternatives cannot be unregistered, the package cannot be opened or    *)
(* (at "unpack") extracted.                                                *)
(***************************************************************************)
RunFail ==
  /\ \/ AtStep("run", Unpacks)
     \/ AtStep("run", {"remove"}) /\ mem[Cur.pkg].state \in {"unpacked", "installed"}
     \/ pc = "unpack"
  /\ Fail
  /\ UNCHANGED <<disk, mem, rootVars, trans, idx, scripts, purged, todo, flags,
                 start, runs>>

RunEnd ==
  /\ AtEnd("run")
  /\ pc' = IF "unpack-only" \in flags THEN "out" ELSE "flush"
  /\ UNCHANGED <<disk, mem, rootVars, trans, idx, scripts, purged, todo, flags,
                 rv, start, runs, faults>>

-----------------------------------------------------------------------------
(* The forced write, the post and purge actions, the configure loop. *)

(* Bug: the forced write before the configure loop is missing. *)
NoFlushUnpacked ==
  /\ pc = "flush"
  /\ pc' = "postremove" /\ idx' = 1
  /\ UNCHANGED <<disk, mem, rootVars, trans, scripts, purged, todo, flags, rv,
                 start, runs, faults>>

(* flappy_pkgdb_update(xhp, true, true): the file takes the copy's content. *)
FlushUnpacked ==
  /\ pc = "flush"
  /\ disk' = mem
  /\ pc' = "postremove" /\ idx' = 1
  /\ UNCHANGED <<mem, rootVars, trans, scripts, purged, todo, flags, rv, start,
                 runs, faults>>

FlushUnpackedFail ==
  /\ pc = "flush"
  /\ Fail
  /\ UNCHANGED <<disk, mem, rootVars, trans, idx, scripts, purged, todo, flags,
                 start, runs>>

PostRemoveSkip ==
  /\ AtStep("postremove", Types) /\ idx \notin scripts
  /\ idx' = idx + 1
  /\ UNCHANGED <<disk, mem, rootVars, pc, trans, scripts, purged, todo, flags,
                 rv, start, runs, faults>>

(* The post and then the purge action of one stored REMOVE script. *)
PostRemove ==
  /\ AtStep("postremove", Types) /\ idx \in scripts
  /\ purged' = purged \cup {idx}
  /\ idx' = idx + 1
  /\ UNCHANGED <<disk, mem, rootVars, pc, trans, scripts, todo, flags, rv, start,
                 runs, faults>>

(***************************************************************************)
(* One of them fails.  The remaining scripts are dropped either way; only  *)
(* a script that could not run (rv < 0) ends the transaction, an exit      *)
(* status (rv > 0) is left to the configure loop, which overwrites it.     *)
(***************************************************************************)
PostRemoveFail ==
  /\ AtStep("postremove", Types) /\ idx \in scripts
  /\ Fault
  /\ rv' = 1
  /\ pc' \in {"configure", "out"} /\ idx' = 1
  /\ UNCHANGED <<disk, mem, rootVars, trans, scripts, purged, todo, flags, start,
                 runs>>

PostRemoveEnd ==
  /\ AtEnd("postremove")
  /\ pc' = "configure" /\ idx' = 1
  /\ UNCHANGED <<disk, mem, rootVars, trans, scripts, purged, todo, flags, rv,
                 start, runs, faults>>

(* Bug: the iterator does not move past a package on hold or removed. *)
ConfigureStuck ==
  /\ AtStep("configure", {"remove", "hold"})
  /\ UNCHANGED vars

ConfigureSkip ==
  /\ AtStep("configure", {"remove", "hold"})
  /\ idx' = idx + 1
  /\ UNCHANGED <<disk, mem, rootVars, pc, trans, scripts, purged, todo, flags,
                 rv, start, runs, faults>>

(* flappy_configure_pkg: run the post action, then set the state. *)
ConfigurePkg(p) ==
  /\ conf' = [conf EXCEPT ![p] = mem[p].ver]
  /\ mem' = [mem EXCEPT ![p] = Record(@.ver, "installed")]

Configure ==
  /\ AtStep("configure", Unpacks \cup {"configure"})
  /\ ConfigurePkg(Cur.pkg)
  /\ rv' = 0 /\ idx' = idx + 1
  /\ UNCHANGED <<disk, files, meta, pc, trans, scripts, purged, todo, flags,
                 start, runs, faults>>

ConfigureFail ==
  /\ AtStep("configure", Unpacks \cup {"configure"})
  /\ Fail
  /\ UNCHANGED <<disk, mem, rootVars, trans, idx, scripts, purged, todo, flags,
                 start, runs>>

ConfigureEnd ==
  /\ AtEnd("configure")
  /\ pc' = "out"
  /\ UNCHANGED <<disk, mem, rootVars, trans, idx, scripts, purged, todo, flags,
                 rv, start, runs, faults>>

(* Bug: the copy is written whatever failed before. *)
OutAlwaysWrites ==
  /\ pc = "out"
  /\ disk' = mem
  /\ pc' = "done"
  /\ UNCHANGED <<mem, rootVars, trans, idx, scripts, purged, todo, flags, rv,
                 start, runs, faults>>

(* Label out: the copy is written only if nothing failed. *)
Out ==
  /\ pc = "out"
  /\ disk' = IF rv = 0 THEN mem ELSE disk
  /\ pc' = "done"
  /\ UNCHANGED <<mem, rootVars, trans, idx, scripts, purged, todo, flags, rv,
                 start, runs, faults>>

OutFail ==
  /\ pc = "out" /\ rv = 0
  /\ Fault
  /\ rv' = 1 /\ pc' = "done"
  /\ UNCHANGED <<disk, mem, rootVars, trans, idx, scripts, purged, todo, flags,
                 start, runs>>

-----------------------------------------------------------------------------
(* flappy-reconfigure: named packages, or all of them. *)

Reconfigure ==
  /\ pc = "idle" /\ runs < MaxRuns
  /\ \/ flags' \in {{"all"}, {"all", "force"}} /\ todo' = {p \in Pkg : disk[p] # Absent}
     \/ flags' \in {{}, {"force"}} /\ todo' \in SUBSET Pkg \ {{}}
  /\ mem' = disk /\ start' = disk
  /\ pc' = "reconf" /\ rv' = 0 /\ runs' = runs + 1
  /\ UNCHANGED <<disk, rootVars, trans, idx, scripts, purged, faults>>

(* Bug: check_state lets only installed packages through. *)
NeedsPostSwapped(p) == mem[p].state = "installed" /\ "force" \in flags

(* check_state: an installed package is left alone unless -f is given. *)
NeedsPost(p) == mem[p].state = "unpacked" \/ (mem[p].state = "installed" /\ "force" \in flags)

ReconfSkip(p) ==
  /\ pc = "reconf" /\ p \in todo
  /\ ~NeedsPost(p)
  /\ rv' = IF mem[p] = Absent THEN 1 ELSE 0
  /\ todo' = todo \ {p}
  /\ UNCHANGED <<disk, mem, rootVars, pc, trans, idx, scripts, purged, flags,
                 start, runs, faults>>

ReconfPkg(p) ==
  /\ pc = "reconf" /\ p \in todo
  /\ NeedsPost(p)
  /\ ConfigurePkg(p)
  /\ rv' = 0
  /\ todo' = todo \ {p}
  /\ UNCHANGED <<disk, files, meta, pc, trans, idx, scripts, purged, flags, start,
                 runs, faults>>

(* With -a the first failing script ends the loop. *)
ReconfFail(p) ==
  /\ pc = "reconf" /\ p \in todo
  /\ NeedsPost(p)
  /\ Fault
  /\ rv' = 1
  /\ todo' = IF "all" \in flags THEN {} ELSE todo \ {p}
  /\ UNCHANGED <<disk, mem, rootVars, pc, trans, idx, scripts, purged, flags,
                 start, runs>>

(* The result of the last package decides; that of the write is ignored. *)
ReconfEnd ==
  /\ pc = "reconf" /\ todo = {}
  /\ \/ disk' = (IF rv = 0 THEN mem ELSE disk) /\ UNCHANGED faults
     \/ rv = 0 /\ Fault /\ UNCHANGED disk
  /\ pc' = "done"
  /\ UNCHANGED <<mem, rootVars, trans, idx, scripts, purged, todo, flags, rv,
                 start, runs>>

-----------------------------------------------------------------------------
(* flappy_end, or the death of the process: the copy is gone. *)

Reset ==
  /\ pc' = "idle" /\ mem' = disk /\ start' = disk
  /\ trans' = <<>> /\ idx' = 1 /\ scripts' = {} /\ purged' = {} /\ todo' = {}
  /\ flags' = {} /\ rv' = 0

End ==
  /\ pc = "done"
  /\ Reset
  /\ UNCHANGED <<disk, rootVars, runs, faults>>

Crash ==
  /\ pc # "idle"
  /\ Fault
  /\ Reset
  /\ UNCHANGED <<disk, rootVars, runs>>

CommitStep ==
  \/ Fetch \/ PreRemove \/ PreRemoveMissing \/ PreInstall \/ EarlyFail
  \/ RunSkip \/ RemoveFiles \/ RemovePurge \/ UnpackBegin \/ UnpackEnd
  \/ UnpackUnregistered \/ RunFail \/ RunEnd
  \/ FlushUnpacked \/ FlushUnpackedFail
  \/ PostRemoveSkip \/ PostRemove \/ PostRemoveFail \/ PostRemoveEnd
  \/ ConfigureSkip \/ Configure \/ ConfigureFail \/ ConfigureEnd
  \/ Out \/ OutFail

ReconfStep ==
  \/ \E p \in Pkg : ReconfSkip(p) \/ ReconfPkg(p) \/ ReconfFail(p)
  \/ ReconfEnd

(* No command is running and the bound allows no other one. *)
Idle == pc = "idle" /\ runs = MaxRuns /\ UNCHANGED vars

Next == Idle \/ Begin \/ Reconfigure \/ CommitStep \/ ReconfStep \/ End \/ Crash

(* A running command keeps running; nothing makes a user start one. *)
Spec == Init /\ [][Next]_vars /\ WF_vars(CommitStep \/ ReconfStep \/ End)

-----------------------------------------------------------------------------
Places == {"idle", "fetch", "preremove", "preinstall", "run", "unpack", "flush",
           "postremove", "configure", "out", "reconf", "done"}

(* Every variable has its type; in particular the half-removed state of    *)
(* flappy_remove_pkg never reaches the database file.                      *)
TypeOK ==
  /\ disk \in [Pkg -> DurableRecord]
  /\ mem \in [Pkg -> MemRecord]
  /\ files \in [Pkg -> 0..(MaxVer + 1)]
  /\ meta \in [Pkg -> 0..MaxVer]
  /\ conf \in [Pkg -> 0..MaxVer]
  /\ pc \in Places
  /\ trans \in Seq(Step)
  /\ idx \in Nat \ {0}
  /\ scripts \subseteq DOMAIN trans
  /\ purged \subseteq scripts
  /\ todo \subseteq Pkg
  /\ flags \subseteq {"unpack-only", "download-only", "all", "force"}
  /\ rv \in {0, 1}
  /\ start \in [Pkg -> DurableRecord]
  /\ runs \in Nat /\ faults \in Nat

(* flappy_transaction_commit and flappy-reconfigure, with failures and     *)
(* crashes anywhere, keep the promise of the database file: a package is   *)
(* durably installed only after it was durably unpacked and its post       *)
(* action completed, and no post action runs for an unregistered package.  *)
Promise == INSTANCE PkgStates
ImplementsPkgStates == Promise!Spec

(* What one step of the transaction makes of its package's durable record, *)
(* when the packages that were unpacked are recorded in the given state.   *)
StepOutcome(s, state) ==
  IF s.type = "remove" THEN Absent
  ELSE IF s.type \in Unpacks THEN Record(s.ver, state)
  ELSE IF s.type = "configure" /\ state = "installed" THEN Record(s.ver, "installed")
  ELSE start[s.pkg]

Reached(state) ==
  /\ \A i \in DOMAIN trans : disk[trans[i].pkg] = StepOutcome(trans[i], state)
  /\ \A p \in Pkg : (\A i \in DOMAIN trans : trans[i].pkg # p) => disk[p] = start[p]

(* Packages of a transaction move together in the database file, whatever  *)
(* fails and wherever the process dies: the file holds the database the    *)
(* command started from, or every package removed or unpacked, or every    *)
(* package removed or installed; the last only if no error is reported.    *)
AllOrNothing ==
  trans # <<>> => \/ disk = start
                  \/ Reached("unpacked")
                  \/ Reached("installed") /\ rv = 0

(* A commit that returns 0 did what the transaction says, durably: the     *)
(* records are in the file, and for the packages that were unpacked so are *)
(* the files of the new version and the metafile that lists them.          *)
SuccessIsComplete ==
  pc = "done" /\ rv = 0 /\ trans # <<>> /\ "download-only" \notin flags =>
    /\ Reached(IF "unpack-only" \in flags THEN "unpacked" ELSE "installed")
    /\ \A i \in DOMAIN trans :
         trans[i].type \in Unpacks =>
           files[trans[i].pkg] = trans[i].ver /\ meta[trans[i].pkg] = trans[i].ver

(* A complete payload on disk always has the metafile that lists it, so    *)
(* that a later removal finds its files: flappy_remove_pkg deletes the     *)
(* files first, flappy_unpack_binary_pkg writes the metafile before the    *)
(* package counts as unpacked.                                             *)
PayloadHasMetafile ==
  \A p \in Pkg : files[p] \in Ver => meta[p] = files[p]

(* flappy-reconfigure -a resumes: started once no step fails any more, it  *)
(* leaves no package unpacked in the database file.                        *)
ReconfigureRecovers ==
  pc = "reconf" /\ "all" \in flags /\ faults = MaxFaults /\ rv = 0
    ~> \A p \in Pkg : disk[p].state # "unpacked"

(* A command that was started ends: no loop of the commit gets stuck.      *)
CommandEnds == pc # "idle" ~> pc = "idle"
=============================================================================
