----------------------------- MODULE PkgRecords -----------------------------
(***************************************************************************)
(* The records of the package database, shared by every module that reads  *)
(* or writes it: a package name maps to a version and a state.             *)
(***************************************************************************)
EXTENDS Integers

CONSTANTS
  Pkg,      \* package names
  MaxVer    \* versions are the numbers 1..MaxVer, in flappy_cmpver's order

ASSUME MaxVerAssumption == MaxVer \in Nat

Ver == 1..MaxVer

\* The states of package_state.c that lib/ ever sets; nothing sets "broken".
Record(v, s) == [ver |-> v, state |-> s]
Absent == Record(0, "not-installed")
DurableRecord == {Absent} \cup [ver : Ver, state : {"unpacked", "installed"}]
MemRecord == DurableRecord \cup [ver : Ver, state : {"half-removed"}]
=============================================================================
