---------------------------- MODULE PkgdbAccess ----------------------------
(***************************************************************************)
(* Concurrent commands on one package database (lib/pkgdb.c and the main   *)
(* functions under bin/).  A command reads the whole file once, on its     *)
(* first lookup (flappy_pkgdb_init), changes its copy and writes the whole *)
(* copy back (flappy_pkgdb_update).  Nothing but the order in which it     *)
(* takes the lock (flappy_pkgdb_lock, a flock) and reads the file keeps it *)
(* from writing over what another command wrote in between.                *)
(*                                                                         *)
(* The content of the database is abstracted to the set of changes made to *)
(* it, each named by the command that made it and the place it was made.   *)
(***************************************************************************)
EXTENDS Integers, Sequences

CONSTANTS
  Proc,    \* processes; each runs one command
  Cmds,    \* the commands they may run, a subset of AllCmds
  None     \* no process

ASSUME NoneAssumption == None \notin Proc

AllCmds == {"transaction", "edit", "alternatives", "clean-orphans", "download"}
ASSUME CmdsAssumption == Cmds \subseteq AllCmds

(* What each command does to the database, in order. *)

(* flappy-install and flappy-remove: the lock is taken before the first    *)
(* lookup; the commit writes twice.                                        *)
InstallMain == <<"lock", "load", "change", "flush", "change", "flush">>

(* flappy-reconfigure, flappy-pkgdb: one write. *)
EditMain == <<"lock", "load", "change", "flush">>

(* flappy-alternatives -s: a first lookup, then the lock. *)
AlternativesMain == <<"load", "lock", "change", "flush">>

(* flappy-remove -Oo: clean_cachedir looks packages up before the lock is  *)
(* taken for the removal of orphans.                                       *)
CleanOrphansMain == <<"load", "lock", "change", "flush", "change", "flush">>

(* flappy-install -D: no lock, but the commit still ends with the write at *)
(* its label out.                                                          *)
DownloadMain == <<"load", "flush">>

Program ==
  [c \in AllCmds |->
     CASE c = "transaction"   -> InstallMain
       [] c = "edit"          -> EditMain
       [] c = "alternatives"  -> AlternativesMain
       [] c = "clean-orphans" -> CleanOrphansMain
       [] c = "download"      -> DownloadMain]

(* The commands whose copy is read under the lock. *)
LockFirst(c) == Program[c][1] = "lock"

Change == Proc \X (1..6)
Running == {"run", "write", "reload"}

VARIABLES
  disk,     \* the changes recorded in the database file
  lock,     \* the process that holds the flock on metadir/lock, or None
  cmd,      \* the command each process runs
  pc,       \* its position in Program[cmd[p]]
  mem,      \* its copy of the database (xhp->pkgdb), empty before it is loaded
  status    \* "run"; "write" or "reload" inside a flush; then "ok" or "failed"

vars == <<disk, lock, cmd, pc, mem, status>>

Code(p) == Program[cmd[p]]
At(p, op) == status[p] = "run" /\ pc[p] <= Len(Code(p)) /\ Code(p)[pc[p]] = op
Advance(p) == pc' = [pc EXCEPT ![p] = @ + 1]

Init ==
  /\ disk = {} /\ lock = None
  /\ cmd \in [Proc -> Cmds]
  /\ pc = [p \in Proc |-> 1]
  /\ mem = [p \in Proc |-> {}]
  /\ status = [p \in Proc |-> "run"]

(* Bug: the lock is not waited for. *)
LockNoWait(p) ==
  /\ At(p, "lock")
  /\ lock' = p
  /\ Advance(p)
  /\ UNCHANGED <<disk, cmd, mem, status>>

(* flappy_pkgdb_lock waits in flock(LOCK_EX) until the lock is free. *)
Lock(p) ==
  /\ At(p, "lock") /\ lock = None
  /\ lock' = p
  /\ Advance(p)
  /\ UNCHANGED <<disk, cmd, mem, status>>

(* The first lookup reads the file: flappy_pkgdb_init. *)
Load(p) ==
  /\ At(p, "load")
  /\ mem' = [mem EXCEPT ![p] = disk]
  /\ Advance(p)
  /\ UNCHANGED <<disk, lock, cmd, status>>

(* Packages are registered, removed, configured, or their fields set. *)
ChangeCopy(p) ==
  /\ At(p, "change")
  /\ mem' = [mem EXCEPT ![p] = @ \cup {<<p, pc[p]>>}]
  /\ Advance(p)
  /\ UNCHANGED <<disk, lock, cmd, status>>

(* Bug: a copy is taken for written without being written. *)
FlushSkips(p) ==
  /\ At(p, "flush")
  /\ Advance(p)
  /\ UNCHANGED <<disk, lock, cmd, mem, status>>

(* flappy_pkgdb_update reads the file again and writes only a copy that    *)
(* differs from it, with a rename over the old file; then it drops the     *)
(* copy and, within a transaction, reads the file once more.               *)
FlushCompare(p) ==
  /\ At(p, "flush")
  /\ status' = [status EXCEPT ![p] = IF mem[p] = disk THEN "reload" ELSE "write"]
  /\ UNCHANGED <<disk, lock, cmd, pc, mem>>

FlushWrite(p) ==
  /\ status[p] = "write"
  /\ disk' = mem[p]
  /\ status' = [status EXCEPT ![p] = "reload"]
  /\ UNCHANGED <<lock, cmd, pc, mem>>

(* The write fails, and flappy-reconfigure and flappy-pkgdb do not look at *)
(* the result: the command goes on to report success.                      *)
FlushFailIgnored(p) ==
  /\ status[p] = "write" /\ cmd[p] = "edit"
  /\ status' = [status EXCEPT ![p] = "run"]
  /\ Advance(p)
  /\ UNCHANGED <<disk, lock, cmd, mem>>

FlushReload(p) ==
  /\ status[p] = "reload"
  /\ mem' = [mem EXCEPT ![p] = IF cmd[p] \in {"edit", "alternatives"} THEN {} ELSE disk]
  /\ status' = [status EXCEPT ![p] = "run"]
  /\ Advance(p)
  /\ UNCHANGED <<disk, lock, cmd>>

(* flappy_pkgdb_unlock: nothing to do without the lock. *)
Release(p) == lock' = IF lock = p THEN None ELSE lock

(* Bug: the lock outlives the command. *)
ExitKeepsLock(p) ==
  /\ status[p] = "run" /\ pc[p] > Len(Code(p))
  /\ status' = [status EXCEPT ![p] = "ok"]
  /\ UNCHANGED <<disk, lock, cmd, pc, mem>>

(* flappy_end: flappy_pkgdb_release drops the lock with the copy. *)
Exit(p) ==
  /\ status[p] = "run" /\ pc[p] > Len(Code(p))
  /\ status' = [status EXCEPT ![p] = "ok"]
  /\ Release(p)
  /\ UNCHANGED <<disk, cmd, pc, mem>>

(* An error before the write, a failing write, or the death of the process *)
(* (whose descriptors, and with them the lock, the kernel closes).         *)
Die(p) ==
  /\ status[p] \in Running
  /\ status' = [status EXCEPT ![p] = "failed"]
  /\ Release(p)
  /\ UNCHANGED <<disk, cmd, pc, mem>>

Progress(p) ==
  \/ Lock(p) \/ Load(p) \/ ChangeCopy(p) \/ FlushCompare(p) \/ FlushWrite(p)
  \/ FlushReload(p) \/ Exit(p)

(* Every command has ended. *)
Idle == (\A p \in Proc : status[p] \in {"ok", "failed"}) /\ UNCHANGED vars

Next == Idle \/ \E p \in Proc : Progress(p) \/ FlushFailIgnored(p) \/ Die(p)

(* A running process is scheduled; a lock that is free is granted. *)
Spec == Init /\ [][Next]_vars /\ \A p \in Proc : WF_vars(Progress(p))

-----------------------------------------------------------------------------
(* Every variable has its type. *)
TypeOK ==
  /\ disk \subseteq Change
  /\ lock \in Proc \cup {None}
  /\ cmd \in [Proc -> Cmds]
  /\ pc \in [Proc -> 1..7]
  /\ mem \in [Proc -> SUBSET Change]
  /\ status \in [Proc -> Running \cup {"ok", "failed"}]

(* The purpose of flappy_pkgdb_lock, "to allow a write transaction": what  *)
(* one command has written, no other command's write takes back, as long   *)
(* as every command takes the lock before it reads the file.               *)
NoLostUpdateLockFirst ==
  [][(\A p \in Proc : LockFirst(cmd[p])) => disk \subseteq disk']_vars

(* The changes a command makes along its program. *)
ChangesOf(p) == {<<p, i>> : i \in {j \in DOMAIN Code(p) : Code(p)[j] = "change"}}

(* Then a transaction that ended without an error has its changes in the   *)
(* file, whatever the others wrote before, in between and afterwards.      *)
CompletedIsDurable ==
  (\A q \in Proc : LockFirst(cmd[q])) =>
    \A p \in Proc : status[p] = "ok" /\ cmd[p] # "edit" => ChangesOf(p) \subseteq disk

(* Every command ends: no one waits for the lock forever. *)
CommandsEnd == \A p \in Proc : <>(status[p] \in {"ok", "failed"})
=============================================================================
