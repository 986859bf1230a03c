----------------------------- MODULE PkgStates -----------------------------
(***************************************************************************)
(* What the package database on disk promises.  A package found there as   *)
(* "installed" went through two durable steps: its record was written as   *)
(* "unpacked" first, and the post action of its INSTALL script completed   *)
(* for that very version afterwards.  The module says nothing of how the   *)
(* library reaches those steps; module Commit does, and implements it.     *)
(***************************************************************************)
EXTENDS PkgRecords

VARIABLES
  disk,     \* the package database file (pkgdb-0.38.plist), per package name
  conf      \* the version whose post-install action completed last, 0 if none

vars == <<disk, conf>>

TypeOK ==
  /\ disk \in [Pkg -> DurableRecord]
  /\ conf \in [Pkg -> 0..MaxVer]

Init ==
  /\ TypeOK
  /\ \A p \in Pkg : disk[p].state = "installed" => conf[p] = disk[p].ver

(* One write of the file registers packages as unpacked and drops others. *)
Apply ==
  /\ disk' \in [Pkg -> DurableRecord]
  /\ \A p \in Pkg : \/ disk'[p] = disk[p]
                    \/ disk'[p] = Absent
                    \/ disk'[p].state = "unpacked"
  /\ UNCHANGED conf

(* The post action of the INSTALL script of a registered package completes. *)
RunPost(p) ==
  /\ disk[p].ver # 0
  /\ conf' = [conf EXCEPT ![p] = disk[p].ver]
  /\ UNCHANGED disk

(* One write of the file marks as installed packages whose script completed. *)
MarkInstalled ==
  /\ disk' \in [Pkg -> DurableRecord]
  /\ \A p \in Pkg : \/ disk'[p] = disk[p]
                    \/ /\ disk[p].state = "unpacked"
                       /\ conf[p] = disk[p].ver
                       /\ disk'[p] = Record(disk[p].ver, "installed")
  /\ UNCHANGED conf

Next == Apply \/ MarkInstalled \/ \E p \in Pkg : RunPost(p)

Spec == Init /\ [][Next]_vars

(***************************************************************************)
(* A package the database calls installed is configured: the post action   *)
(* of its INSTALL script completed for the version that is recorded.       *)
(***************************************************************************)
InstalledMeansConfigured ==
  \A p \in Pkg : disk[p].state = "installed" => conf[p] = disk[p].ver

(***************************************************************************)
(* A package becomes installed only from an unpacked record of the same    *)
(* version: no single write of the file takes it there from nothing.       *)
(***************************************************************************)
InstalledThroughUnpacked ==
  [][\A p \in Pkg :
       disk'[p].state = "installed" /\ disk[p] # disk'[p]
         => disk[p] = Record(disk'[p].ver, "unpacked")]_vars
=============================================================================
