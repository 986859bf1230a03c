------------------------- MODULE PkgdbAccessProofs -------------------------
(***************************************************************************)
(* For any number of processes: as long as every command takes the lock    *)
(* before it reads the package database, no command takes back what        *)
(* another one wrote, and a completed transaction stays in the file.       *)
(*                                                                         *)
(* The argument: past its first step such a command holds the lock, so at  *)
(* most one copy is live, and that copy contains the file it was read from *)
(* plus the changes made since.                                            *)
(***************************************************************************)
EXTENDS PkgdbAccess, TLAPS

AllLockFirst == \A p \in Proc : LockFirst(cmd[p])

(* Past its first step a running command holds the lock. *)
HoldsLock == \A p \in Proc : status[p] \in Running /\ pc[p] > 1 => lock = p

(* The copy is there once it is loaded; flappy-reconfigure and             *)
(* flappy-pkgdb drop it with their only flush.                             *)
Loaded(p) ==
  status[p] \in Running /\ pc[p] > 2 /\ (cmd[p] = "edit" => pc[p] <= Len(Code(p)))

(* Then the copy contains the file ... *)
CopyIsFresh == \A p \in Proc : Loaded(p) => disk \subseteq mem[p]

(* ... and the changes the command has made so far; after a flush whose    *)
(* result is looked at, the file contains them as well.                    *)
CopyHasChanges ==
  \A p \in Proc :
    Loaded(p) =>
      \A j \in 1..(pc[p] - 1) : Code(p)[j] = "change" => <<p, j>> \in mem[p]
Flushed ==
  \A p \in Proc :
    /\ status[p] \in Running /\ pc[p] > 2
    /\ status[p] = "reload" \/ (cmd[p] # "edit" /\ Code(p)[pc[p] - 1] = "flush")
    => mem[p] = disk

(* A command inside a flush is at a flush of its program. *)
InFlush ==
  \A p \in Proc : status[p] \in {"write", "reload"} =>
                    pc[p] <= Len(Code(p)) /\ Code(p)[pc[p]] = "flush"

PcInProgram == \A p \in Proc : pc[p] <= Len(Code(p)) + 1

IInv ==
  /\ TypeOK
  /\ InFlush
  /\ PcInProgram
  /\ AllLockFirst => /\ HoldsLock
                     /\ CopyIsFresh
                     /\ CopyHasChanges
                     /\ Flushed
                     /\ CompletedIsDurable

-----------------------------------------------------------------------------
(* The programs of the commands that take the lock first. *)
LEMMA ProgramShape ==
  ASSUME NEW c \in AllCmds
  PROVE  /\ Len(Program[c]) \in 2..6
         /\ DOMAIN Program[c] = 1..Len(Program[c])
         /\ \A i \in 1..Len(Program[c]) : Program[c][i] \in {"lock", "load", "change", "flush"}
         /\ LockFirst(c) =>
              /\ c \in {"transaction", "edit"}
              /\ Program[c][1] = "lock" /\ Program[c][2] = "load"
              /\ \A i \in 3..Len(Program[c]) : Program[c][i] \in {"change", "flush"}
              /\ Len(Program[c]) > 2 /\ Program[c][Len(Program[c])] = "flush"
         /\ c = "edit" => \A i \in 1..(Len(Program[c]) - 1) : Program[c][i] # "flush"
<1>1. CASE c = "transaction"
  BY <1>1 DEF Program, InstallMain, LockFirst, AllCmds
<1>2. CASE c = "edit"
  BY <1>2 DEF Program, EditMain, LockFirst, AllCmds
<1>3. CASE c = "alternatives"
  BY <1>3 DEF Program, AlternativesMain, LockFirst, AllCmds
<1>4. CASE c = "clean-orphans"
  BY <1>4 DEF Program, CleanOrphansMain, LockFirst, AllCmds
<1>5. CASE c = "download"
  BY <1>5 DEF Program, DownloadMain, LockFirst, AllCmds
<1> QED
  BY <1>1, <1>2, <1>3, <1>4, <1>5 DEF AllCmds

(* The same facts about the program a process runs. *)
LEMMA CodeShape ==
  ASSUME TypeOK, NEW p \in Proc
  PROVE  /\ Len(Code(p)) \in 2..6
         /\ DOMAIN Code(p) = 1..Len(Code(p))
         /\ LockFirst(cmd[p]) =>
              /\ cmd[p] \in {"transaction", "edit"}
              /\ Code(p)[1] = "lock" /\ Code(p)[2] = "load"
              /\ \A i \in 3..Len(Code(p)) : Code(p)[i] \in {"change", "flush"}
              /\ Len(Code(p)) > 2 /\ Code(p)[Len(Code(p))] = "flush"
         /\ cmd[p] = "edit" => \A i \in 1..(Len(Code(p)) - 1) : Code(p)[i] # "flush"
BY CmdsAssumption, ProgramShape DEF TypeOK, Code

(* No command holds the lock at first.                                     *)
LEMMA InitIInv == Init => IInv
<1> SUFFICES ASSUME Init PROVE IInv
  OBVIOUS
<1>1. TypeOK
  BY DEF Init, TypeOK, Running
<1>2. InFlush /\ PcInProgram
  BY <1>1, CodeShape DEF Init, InFlush, PcInProgram
<1>3. HoldsLock /\ CopyIsFresh /\ CopyHasChanges /\ Flushed /\ CompletedIsDurable
  BY DEF Init, HoldsLock, CopyIsFresh, Loaded, CopyHasChanges, Flushed, CompletedIsDurable
<1> QED
  BY <1>1, <1>2, <1>3 DEF IInv

-----------------------------------------------------------------------------
(* Type correctness, which needs that commands stay within their program. *)
LEMMA TypeStep ==
  ASSUME TypeOK, InFlush, PcInProgram, [Next]_vars
  PROVE  TypeOK' /\ InFlush' /\ PcInProgram' /\ cmd' = cmd
<1> USE DEF TypeOK, Running
<1>1. CASE UNCHANGED vars
  BY <1>1 DEF vars, InFlush, PcInProgram, Code
<1>2. ASSUME NEW p \in Proc, Progress(p) \/ FlushFailIgnored(p) \/ Die(p)
      PROVE  TypeOK' /\ InFlush' /\ PcInProgram' /\ cmd' = cmd
  <2>0. Len(Code(p)) \in 2..6 /\ pc[p] \in 1..7
    BY CodeShape
  <2>1. CASE Lock(p)
    BY <2>0, <2>1 DEF Lock, At, Advance, Code, InFlush, PcInProgram
  <2>2. CASE Load(p)
    BY <2>0, <2>2 DEF Load, At, Advance, Code, InFlush, PcInProgram
  <2>3. CASE ChangeCopy(p)
    BY <2>0, <2>3 DEF ChangeCopy, At, Advance, Code, InFlush, PcInProgram, Change
  <2>4. CASE FlushCompare(p)
    BY <2>0, <2>4 DEF FlushCompare, At, Advance, Code, InFlush, PcInProgram
  <2>5. CASE FlushWrite(p)
    BY <2>0, <2>5 DEF FlushWrite, Code, InFlush, PcInProgram
  <2>6. CASE FlushReload(p)
    BY <2>0, <2>6 DEF FlushReload, Advance, Code, InFlush, PcInProgram
  <2>7. CASE Exit(p)
    BY <2>0, <2>7 DEF Exit, Release, Code, InFlush, PcInProgram
  <2>8. CASE FlushFailIgnored(p)
    BY <2>0, <2>8 DEF FlushFailIgnored, Advance, Code, InFlush, PcInProgram
  <2>9. CASE Die(p)
    BY <2>0, <2>9 DEF Die, Release, Code, InFlush, PcInProgram
  <2> QED
    BY <1>2, <2>1, <2>2, <2>3, <2>4, <2>5, <2>6, <2>7, <2>8, <2>9 DEF Progress
<1> QED
  BY <1>1, <1>2 DEF Next, Idle

-----------------------------------------------------------------------------
(* The five facts that hold when every command takes the lock first. *)
Safe == HoldsLock /\ CopyIsFresh /\ CopyHasChanges /\ Flushed /\ CompletedIsDurable

(* Of the others, none is running past its first step: p holds the lock. *)
LEMMA OthersWait ==
  ASSUME TypeOK, HoldsLock, NEW p \in Proc, status[p] \in Running, pc[p] > 1,
         NEW q \in Proc, q # p, status[q] \in Running
  PROVE  pc[q] = 1
BY DEF TypeOK, HoldsLock

(* A step of a command that locks first loses no update.                   *)
LEMMA SafeStep ==
  ASSUME IInv, AllLockFirst, [Next]_vars
  PROVE  Safe'
<1> USE DEF Running
<1>0. TypeOK /\ InFlush /\ PcInProgram /\ Safe /\ TypeOK' /\ cmd' = cmd
  BY TypeStep DEF IInv, Safe
<1>1. CASE UNCHANGED vars
  BY <1>0, <1>1 DEF vars, Safe, HoldsLock, CopyIsFresh, Loaded, CopyHasChanges, Flushed,
                    CompletedIsDurable, ChangesOf, Code
<1>2. ASSUME NEW p \in Proc, Progress(p) \/ FlushFailIgnored(p) \/ Die(p)
      PROVE  Safe'
  <2>1. \A q \in Proc :
          /\ Len(Code(q)) \in 3..6 /\ DOMAIN Code(q) = 1..Len(Code(q))
          /\ cmd[q] \in {"transaction", "edit"}
          /\ Code(q)[1] = "lock" /\ Code(q)[2] = "load" /\ Code(q)[Len(Code(q))] = "flush"
          /\ \A i \in 3..Len(Code(q)) : Code(q)[i] \in {"change", "flush"}
          /\ cmd[q] = "edit" => \A i \in 1..(Len(Code(q)) - 1) : Code(q)[i] # "flush"
    BY <1>0, CodeShape DEF AllLockFirst
  <2>2. \A q \in Proc : pc[q] \in 1..7 /\ pc[q] <= Len(Code(q)) + 1
    BY <1>0 DEF TypeOK, PcInProgram
  <2>3. \A q \in Proc : Code(q)' = Code(q)
    BY <1>0 DEF Code
  <2>13. status[p] \in Running /\ pc[p] > 1 =>
           \A q \in Proc : q # p /\ status[q] \in Running => pc[q] = 1
    BY <1>0, OthersWait DEF Safe
  <2>4. CASE Lock(p)
    <3>0. pc[p] = 1
      BY <1>0, <2>1, <2>2, <2>4 DEF Lock, At, Advance, InFlush
    <3>1. HoldsLock'
      BY <1>0, <2>2, <2>4, <2>13, <3>0, NoneAssumption DEF Lock, At, Advance, Safe, HoldsLock, TypeOK
    <3>2. CopyIsFresh'
      BY <1>0, <2>2, <2>3, <2>4, <2>13, <3>0 DEF Lock, At, Advance, Safe, CopyIsFresh, Loaded, TypeOK
    <3>3. CopyHasChanges'
      BY <1>0, <2>1, <2>2, <2>3, <2>4, <2>13, <3>0 DEF Lock, At, Advance, Safe, CopyHasChanges, Loaded, TypeOK
    <3>4. Flushed'
      BY <1>0, <2>1, <2>2, <2>3, <2>4, <2>13, <3>0 DEF Lock, At, Advance, Safe, Flushed, TypeOK
    <3>5. CompletedIsDurable'
      BY <1>0, <2>1, <2>2, <2>3, <2>4, <2>13, <3>0 DEF Lock, At, Advance, Safe, CompletedIsDurable, ChangesOf, TypeOK, AllLockFirst
    <3> QED
      BY <3>1, <3>2, <3>3, <3>4, <3>5 DEF Safe
  <2>5. CASE Load(p)
    <3>0. pc[p] = 2
      BY <1>0, <2>1, <2>2, <2>5 DEF Load, At, Advance, InFlush
    <3>1. HoldsLock'
      BY <1>0, <2>2, <2>5, <2>13, <3>0, NoneAssumption DEF Load, At, Advance, Safe, HoldsLock, TypeOK
    <3>2. CopyIsFresh'
      BY <1>0, <2>2, <2>3, <2>5, <2>13, <3>0 DEF Load, At, Advance, Safe, CopyIsFresh, Loaded, TypeOK
    <3>3. CopyHasChanges'
      BY <1>0, <2>1, <2>2, <2>3, <2>5, <2>13, <3>0 DEF Load, At, Advance, Safe, CopyHasChanges, Loaded, TypeOK
    <3>4. Flushed'
      BY <1>0, <2>1, <2>2, <2>3, <2>5, <2>13, <3>0 DEF Load, At, Advance, Safe, Flushed, TypeOK
    <3>5. CompletedIsDurable'
      BY <1>0, <2>1, <2>2, <2>3, <2>5, <2>13, <3>0 DEF Load, At, Advance, Safe, CompletedIsDurable, ChangesOf, TypeOK, AllLockFirst
    <3> QED
      BY <3>1, <3>2, <3>3, <3>4, <3>5 DEF Safe
  <2>6. CASE ChangeCopy(p)
    <3>0. pc[p] \in 3..Len(Code(p))
      BY <1>0, <2>1, <2>2, <2>6 DEF ChangeCopy, At, Advance, InFlush
    <3>1. HoldsLock'
      BY <1>0, <2>2, <2>6, <2>13, <3>0, NoneAssumption DEF ChangeCopy, At, Advance, Safe, HoldsLock, TypeOK
    <3>2. CopyIsFresh'
      BY <1>0, <2>2, <2>3, <2>6, <2>13, <3>0 DEF ChangeCopy, At, Advance, Safe, CopyIsFresh, Loaded, TypeOK
    <3>3. CopyHasChanges'
      <4> SUFFICES ASSUME NEW q \in Proc, Loaded(q)', NEW j \in 1..(pc'[q] - 1), Code(q)'[j] = "change"
                   PROVE  <<q, j>> \in mem'[q]
        BY DEF CopyHasChanges
      <4>1. q = p
        BY <1>0, <2>6, <2>13, <3>0 DEF ChangeCopy, At, Loaded, Advance, TypeOK
      <4>2. Loaded(p) /\ pc'[p] = pc[p] + 1 /\ mem'[p] = mem[p] \cup {<<p, pc[p]>>}
        BY <1>0, <2>6, <3>0 DEF ChangeCopy, At, Loaded, Advance, TypeOK
      <4> QED
        BY <1>0, <2>2, <2>3, <4>1, <4>2 DEF Safe, CopyHasChanges
    <3>4. Flushed'
      BY <1>0, <2>1, <2>2, <2>3, <2>6, <2>13, <3>0 DEF ChangeCopy, At, Advance, Safe, Flushed, TypeOK
    <3>5. CompletedIsDurable'
      BY <1>0, <2>1, <2>2, <2>3, <2>6, <2>13, <3>0 DEF ChangeCopy, At, Advance, Safe, CompletedIsDurable, ChangesOf, TypeOK, AllLockFirst
    <3> QED
      BY <3>1, <3>2, <3>3, <3>4, <3>5 DEF Safe
  <2>7. CASE FlushCompare(p)
    <3>0. pc[p] \in 3..Len(Code(p))
      BY <1>0, <2>1, <2>2, <2>7 DEF FlushCompare, At, InFlush
    <3>1. HoldsLock'
      BY <1>0, <2>2, <2>7, <2>13, <3>0, NoneAssumption DEF FlushCompare, At, Safe, HoldsLock, TypeOK
    <3>2. CopyIsFresh'
      BY <1>0, <2>2, <2>3, <2>7, <2>13, <3>0 DEF FlushCompare, At, Safe, CopyIsFresh, Loaded, TypeOK
    <3>3. CopyHasChanges'
      BY <1>0, <2>1, <2>2, <2>3, <2>7, <2>13, <3>0 DEF FlushCompare, At, Safe, CopyHasChanges, Loaded, TypeOK
    <3>4. Flushed'
      BY <1>0, <2>1, <2>2, <2>3, <2>7, <2>13, <3>0 DEF FlushCompare, At, Safe, Flushed, TypeOK
    <3>5. CompletedIsDurable'
      BY <1>0, <2>1, <2>2, <2>3, <2>7, <2>13, <3>0 DEF FlushCompare, At, Safe, CompletedIsDurable, ChangesOf, TypeOK, AllLockFirst
    <3> QED
      BY <3>1, <3>2, <3>3, <3>4, <3>5 DEF Safe
  <2>8. CASE FlushWrite(p)
    <3>0. pc[p] \in 3..Len(Code(p))
      BY <1>0, <2>1, <2>2, <2>8 DEF FlushWrite, InFlush
    <3>1. HoldsLock'
      BY <1>0, <2>2, <2>8, <2>13, <3>0, NoneAssumption DEF FlushWrite, Safe, HoldsLock, TypeOK
    <3>2. CopyIsFresh'
      BY <1>0, <2>2, <2>3, <2>8, <2>13, <3>0 DEF FlushWrite, Safe, CopyIsFresh, Loaded, TypeOK
    <3>3. CopyHasChanges'
      BY <1>0, <2>1, <2>2, <2>3, <2>8, <2>13, <3>0 DEF FlushWrite, Safe, CopyHasChanges, Loaded, TypeOK
    <3>4. Flushed'
      BY <1>0, <2>1, <2>2, <2>3, <2>8, <2>13, <3>0 DEF FlushWrite, Safe, Flushed, TypeOK
    <3>5. CompletedIsDurable'
      <4>1. disk \subseteq disk'
        BY <1>0, <2>8, <3>0 DEF FlushWrite, Safe, CopyIsFresh, Loaded
      <4>2. \A q \in Proc : /\ ChangesOf(q)' = ChangesOf(q)
                            /\ status'[q] = "ok" => status[q] = "ok"
        BY <1>0, <2>3, <2>8 DEF FlushWrite, ChangesOf, TypeOK
      <4> QED
        BY <1>0, <4>1, <4>2 DEF Safe, CompletedIsDurable, AllLockFirst
    <3> QED
      BY <3>1, <3>2, <3>3, <3>4, <3>5 DEF Safe
  <2>9. CASE FlushFailIgnored(p)
    <3>0. pc[p] \in 3..Len(Code(p))
      BY <1>0, <2>1, <2>2, <2>9 DEF FlushFailIgnored, Advance, InFlush
    <3>1. HoldsLock'
      BY <1>0, <2>2, <2>9, <2>13, <3>0, NoneAssumption DEF FlushFailIgnored, Advance, Safe, HoldsLock, TypeOK
    <3>2. CopyIsFresh'
      BY <1>0, <2>2, <2>3, <2>9, <2>13, <3>0 DEF FlushFailIgnored, Advance, Safe, CopyIsFresh, Loaded, TypeOK
    <3>3. CopyHasChanges'
      BY <1>0, <2>1, <2>2, <2>3, <2>9, <2>13, <3>0 DEF FlushFailIgnored, Advance, Safe, CopyHasChanges, Loaded, InFlush, TypeOK
    <3>4. Flushed'
      BY <1>0, <2>1, <2>2, <2>3, <2>9, <2>13, <3>0 DEF FlushFailIgnored, Advance, Safe, Flushed, TypeOK
    <3>5. CompletedIsDurable'
      BY <1>0, <2>1, <2>2, <2>3, <2>9, <2>13, <3>0 DEF FlushFailIgnored, Advance, Safe, CompletedIsDurable, ChangesOf, TypeOK, AllLockFirst
    <3> QED
      BY <3>1, <3>2, <3>3, <3>4, <3>5 DEF Safe
  <2>10. CASE FlushReload(p)
    <3>0. pc[p] \in 3..Len(Code(p))
      BY <1>0, <2>1, <2>2, <2>10 DEF FlushReload, Advance, InFlush
    <3>1. HoldsLock'
      BY <1>0, <2>2, <2>10, <2>13, <3>0, NoneAssumption DEF FlushReload, Advance, Safe, HoldsLock, TypeOK
    <3>2. CopyIsFresh'
      BY <1>0, <2>1, <2>2, <2>3, <2>10, <2>13, <3>0 DEF FlushReload, Advance, Safe, CopyIsFresh, Loaded, InFlush, TypeOK
    <3>3. CopyHasChanges'
      BY <1>0, <2>1, <2>2, <2>3, <2>10, <2>13, <3>0 DEF FlushReload, Advance, Safe, CopyHasChanges, Loaded, InFlush, Flushed, TypeOK
    <3>4. Flushed'
      BY <1>0, <2>1, <2>2, <2>3, <2>10, <2>13, <3>0 DEF FlushReload, Advance, Safe, Flushed, TypeOK
    <3>5. CompletedIsDurable'
      BY <1>0, <2>1, <2>2, <2>3, <2>10, <2>13, <3>0 DEF FlushReload, Advance, Safe, CompletedIsDurable, ChangesOf, TypeOK, AllLockFirst
    <3> QED
      BY <3>1, <3>2, <3>3, <3>4, <3>5 DEF Safe
  <2>11. CASE Exit(p)
    <3>0. pc[p] = Len(Code(p)) + 1
      BY <1>0, <2>1, <2>2, <2>11 DEF Exit, Release, InFlush
    <3>1. HoldsLock'
      BY <1>0, <2>2, <2>11, <2>13, <3>0, NoneAssumption DEF Exit, Release, Safe, HoldsLock, TypeOK
    <3>2. CopyIsFresh'
      BY <1>0, <2>2, <2>3, <2>11, <2>13, <3>0 DEF Exit, Release, Safe, CopyIsFresh, Loaded, TypeOK
    <3>3. CopyHasChanges'
      BY <1>0, <2>1, <2>2, <2>3, <2>11, <2>13, <3>0 DEF Exit, Release, Safe, CopyHasChanges, Loaded, TypeOK
    <3>4. Flushed'
      BY <1>0, <2>1, <2>2, <2>3, <2>11, <2>13, <3>0 DEF Exit, Release, Safe, Flushed, TypeOK
    <3>5. CompletedIsDurable'
      <4>1. cmd[p] # "edit" => mem[p] = disk
        BY <1>0, <2>1, <2>11, <3>0 DEF Exit, Safe, Flushed
      <4>2. cmd[p] # "edit" => ChangesOf(p) \subseteq mem[p]
        BY <1>0, <2>1, <2>11, <3>0 DEF Exit, Safe, CopyHasChanges, Loaded, ChangesOf
      <4>3. \A q \in Proc : /\ ChangesOf(q)' = ChangesOf(q)
                            /\ status'[q] = "ok" => q = p \/ status[q] = "ok"
        BY <1>0, <2>3, <2>11 DEF Exit, ChangesOf, TypeOK
      <4> QED
        BY <1>0, <2>11, <4>1, <4>2, <4>3 DEF Exit, Safe, CompletedIsDurable, AllLockFirst
    <3> QED
      BY <3>1, <3>2, <3>3, <3>4, <3>5 DEF Safe
  <2>12. CASE Die(p)
    <3>1. HoldsLock'
      BY <1>0, <2>2, <2>12, NoneAssumption DEF Die, Release, Safe, HoldsLock, TypeOK
    <3>2. CopyIsFresh'
      BY <1>0, <2>2, <2>3, <2>12, <2>1 DEF Die, Release, Safe, CopyIsFresh, Loaded, TypeOK
    <3>3. CopyHasChanges'
      BY <1>0, <2>1, <2>2, <2>3, <2>12, <2>1 DEF Die, Release, Safe, CopyHasChanges, Loaded, TypeOK
    <3>4. Flushed'
      BY <1>0, <2>1, <2>2, <2>3, <2>12, <2>1 DEF Die, Release, Safe, Flushed, TypeOK
    <3>5. CompletedIsDurable'
      BY <1>0, <2>1, <2>2, <2>3, <2>12, <2>1 DEF Die, Release, Safe, CompletedIsDurable, ChangesOf, TypeOK, AllLockFirst
    <3> QED
      BY <3>1, <3>2, <3>3, <3>4, <3>5 DEF Safe
  <2> QED
    BY <1>2, <2>4, <2>5, <2>6, <2>7, <2>8, <2>9, <2>10, <2>11, <2>12 DEF Progress
<1> QED
  BY <1>1, <1>2 DEF Next, Idle

(* IInv is an invariant of the specification. *)
THEOREM Invariance == Spec => []IInv
<1>1. ASSUME IInv, [Next]_vars PROVE IInv'
  <2>1. TypeOK' /\ InFlush' /\ PcInProgram' /\ cmd' = cmd
    BY <1>1, TypeStep DEF IInv
  <2>2. AllLockFirst' => Safe'
    BY <1>1, <2>1, SafeStep DEF AllLockFirst
  <2> QED
    BY <2>1, <2>2 DEF IInv, Safe
<1> QED
  BY <1>1, InitIInv, PTL DEF Spec

(* Type correctness of PkgdbAccess, for any set of processes. *)
THEOREM TypeCorrect == Spec => []TypeOK
<1>1. IInv => TypeOK
  BY DEF IInv
<1> QED
  BY <1>1, Invariance, PTL

(* Whatever the number of processes, flappy_pkgdb_lock taken before the    *)
(* first lookup is enough: no flappy_pkgdb_update drops a change another   *)
(* command has written.                                                    *)
THEOREM NoUpdateIsLost == Spec => NoLostUpdateLockFirst
<1>1. ASSUME IInv, [Next]_vars, AllLockFirst PROVE disk \subseteq disk'
  <2>1. CASE UNCHANGED disk
    BY <2>1
  <2>2. ASSUME NEW p \in Proc, FlushWrite(p) PROVE disk \subseteq disk'
    <3>0. pc[p] <= Len(Code(p)) /\ Code(p)[pc[p]] = "flush"
      BY <1>1, <2>2 DEF IInv, InFlush, FlushWrite
    <3>1. status[p] \in Running /\ pc[p] > 2
      <4>1. Code(p)[1] = "lock" /\ Code(p)[2] = "load" /\ pc[p] \in 1..7
        BY <1>1, CodeShape DEF IInv, AllLockFirst, TypeOK
      <4> QED
        BY <2>2, <3>0, <4>1 DEF FlushWrite, Running
    <3> QED
      BY <1>1, <2>2, <3>0, <3>1 DEF IInv, CopyIsFresh, Loaded, FlushWrite
  <2> QED
    BY <1>1, <2>1, <2>2 DEF Next, Idle, vars, Progress, Lock, Load, ChangeCopy,
       FlushCompare, FlushFailIgnored, FlushReload, Exit, Die
<1>2. IInv /\ [Next]_vars =>
        [(\A p \in Proc : LockFirst(cmd[p])) => disk \subseteq disk']_vars
  BY <1>1 DEF AllLockFirst
<1> QED
  BY <1>2, Invariance, PTL DEF Spec, NoLostUpdateLockFirst

(* A transaction that flappy_transaction_commit reports as successful is   *)
(* in the file and stays there, whatever the other commands do.            *)
THEOREM CompletedStays == Spec => []CompletedIsDurable
<1>1. IInv => CompletedIsDurable
  BY DEF IInv, AllLockFirst, CompletedIsDurable
<1> QED
  BY <1>1, Invariance, PTL
=============================================================================
