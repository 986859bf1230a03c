---------------------------- MODULE CommitProofs ----------------------------
(***************************************************************************)
(* Commit keeps the promise of PkgStates for every set of packages, every  *)
(* number of versions, commands, failures and crashes.  The argument: the  *)
(* copy is first written when it differs from the file by packages dropped *)
(* or unpacked only (WriteUnpacks), and then when it differs by packages   *)
(* that were configured only (WriteInstalls).  What makes both inductive   *)
(* is that "half-removed" never outlives the step that sets it, and that   *)
(* the packages the configure loop looks up are registered.                *)
(***************************************************************************)
EXTENDS Commit, TLAPS

(* A step of the transaction names its package alone, and a real version   *)
(* if it unpacks one.                                                      *)
TransOK ==
  /\ \A i, j \in DOMAIN trans : trans[i].pkg = trans[j].pkg => i = j
  /\ \A i \in DOMAIN trans : trans[i].type \in Unpacks => trans[i].ver \in Ver

UnpackingCur == pc = "unpack" => idx <= Len(trans) /\ Cur.type \in Unpacks

(* Half-removed is only the package the main loop is removing, and its     *)
(* payload is no longer complete.                                          *)
HalfRemovedIsCur ==
  \A p \in Pkg : mem[p].state = "half-removed" =>
    /\ pc = "run" /\ idx <= Len(trans) /\ Cur.pkg = p /\ Cur.type = "remove"
    /\ files[p] \notin Ver

(* The packages the configure loop will look up are in the database: the   *)
(* ones to be configured all along, the unpacked ones as the loop gets to  *)
(* them.                                                                   *)
Loop == {"fetch", "preremove", "preinstall", "run", "unpack"}
Unpacked == {"flush", "postremove", "configure"}
ToConfigure(i) ==
  \/ pc \in Loop \cup Unpacked /\ trans[i].type = "configure"
  \/ pc \in {"run", "unpack"} /\ trans[i].type \in Unpacks /\ i < idx
  \/ pc \in Unpacked /\ trans[i].type \in Unpacks
Registered ==
  \A i \in DOMAIN trans :
    ToConfigure(i) => mem[trans[i].pkg].state \in {"unpacked", "installed"}

(* Until it is first written, the copy differs from the file by packages   *)
(* that were dropped or unpacked; ...                                      *)
CopyUntouched == pc = "fetch" => mem = disk
NothingPurged == pc \in {"fetch", "preremove"} => purged = {}
WriteUnpacks ==
  pc \in Loop \cup {"flush"} \/ (pc = "out" /\ "unpack-only" \in flags) =>
    \A p \in Pkg : \/ mem[p] = disk[p]
                   \/ mem[p] = Absent
                   \/ mem[p].state \in {"unpacked", "half-removed"}

(* ... then by packages that were configured. *)
Configured(p) ==
  /\ disk[p].state = "unpacked"
  /\ conf[p] = disk[p].ver
  /\ mem[p] = Record(disk[p].ver, "installed")
WriteInstalls ==
  \/ pc \in {"postremove", "configure", "reconf"}
  \/ pc = "out" /\ rv = 0 /\ "unpack-only" \notin flags
  => \A p \in Pkg : mem[p] = disk[p] \/ Configured(p)

UnpackOnlyStops == pc \in Unpacked \cup {"reconf"} => "unpack-only" \notin flags

IInv ==
  /\ TypeOK
  /\ TransOK
  /\ UnpackingCur
  /\ HalfRemovedIsCur
  /\ Registered
  /\ CopyUntouched
  /\ NothingPurged
  /\ WriteUnpacks
  /\ WriteInstalls
  /\ UnpackOnlyStops
  /\ PayloadHasMetafile

-----------------------------------------------------------------------------
(* What a record of the copy may be.                                       *)
LEMMA RecordFields ==
  ASSUME NEW r \in MemRecord
  PROVE  /\ r.ver \in 0..MaxVer
         /\ r.state \in {"not-installed", "unpacked", "installed", "half-removed"}
         /\ r.state # "not-installed" => r = Record(r.ver, r.state) /\ r.ver \in Ver
         /\ r.state # "not-installed" => r.ver # 0
         /\ r.state = "not-installed" => r = Absent
         /\ r.state # "half-removed" => r \in DurableRecord
         /\ r \in DurableRecord => r.state # "half-removed"
BY MaxVerAssumption DEF MemRecord, DurableRecord, Absent, Record, Ver

(* The records the commit makes.                                           *)
LEMMA RecordTypes ==
  ASSUME NEW v \in Ver
  PROVE  /\ Record(v, "unpacked") \in DurableRecord
         /\ Record(v, "installed") \in DurableRecord
         /\ Record(v, "half-removed") \in MemRecord
         /\ Absent \in DurableRecord
         /\ DurableRecord \subseteq MemRecord
BY DEF MemRecord, DurableRecord, Record

(* A package that is not there has a durable record.                       *)
LEMMA AbsentType == Absent \in DurableRecord /\ DurableRecord \subseteq MemRecord
BY DEF MemRecord, DurableRecord

(* What Begin takes for the transaction. *)
LEMMA TransactionsFacts ==
  ASSUME NEW d \in [Pkg -> DurableRecord], NEW t \in Transactions(d)
  PROVE  /\ t \in Seq(Step)
         /\ \A i, j \in DOMAIN t : t[i].pkg = t[j].pkg => i = j
         /\ \A i \in DOMAIN t :
              /\ t[i].type \in Unpacks => t[i].ver \in Ver
              /\ t[i].type = "configure" => /\ d[t[i].pkg] = Record(t[i].ver, "unpacked")
                                            /\ d[t[i].pkg].state = "unpacked"
<1> DEFINE S == {s \in Step : Possible(s, d)}
<1>1. PICK n \in 1..MaxLen : t \in [1..n -> S]
  BY DEF Transactions
<1>2. t \in Seq(Step)
  BY <1>1, BoundsAssumption
<1>3. \A i, j \in DOMAIN t : t[i].pkg = t[j].pkg => i = j
  BY DEF Transactions
<1>4. ASSUME NEW i \in DOMAIN t
      PROVE  /\ t[i].type \in Unpacks => t[i].ver \in Ver
             /\ t[i].type = "configure" => /\ d[t[i].pkg] = Record(t[i].ver, "unpacked")
                                           /\ d[t[i].pkg].state = "unpacked"
  <2>1. t[i] \in Step /\ Possible(t[i], d)
    BY <1>1
  <2>2. d[t[i].pkg].ver \in 0..MaxVer
    BY <2>1, RecordFields, AbsentType DEF Step
  <2>3. t[i].type \in Unpacks => t[i].ver \in Ver
    BY <2>1, <2>2, MaxVerAssumption DEF Possible, Unpacks, Step, Ver
  <2>4. t[i].type = "configure" => d[t[i].pkg] = Record(t[i].ver, "unpacked")
    BY <2>1 DEF Possible
  <2> QED
    BY <2>3, <2>4 DEF Record
<1> QED
  BY <1>2, <1>3, <1>4

(* A command starts in a state of the invariant.                           *)
LEMMA InitIInv == Init => IInv
<1> SUFFICES ASSUME Init PROVE IInv
  OBVIOUS
<1>1. \A p \in Pkg : disk[p].ver \in 0..MaxVer /\ disk[p].state # "half-removed"
  BY RecordFields, AbsentType DEF Init
<1>2. TypeOK
  BY <1>1, AbsentType, MaxVerAssumption DEF Init, TypeOK, Places
<1> QED
  BY <1>1, <1>2 DEF Init, IInv, TransOK, UnpackingCur, HalfRemovedIsCur,
     Registered, CopyUntouched, NothingPurged, WriteUnpacks, WriteInstalls,
     UnpackOnlyStops, PayloadHasMetafile, Loop, Unpacked

(* Every step, failure and crash keeps the invariant.                      *)
LEMMA StepIInv == IInv /\ [Next]_vars => IInv'
<1> SUFFICES ASSUME IInv, [Next]_vars PROVE IInv'
  OBVIOUS
<1> USE MaxVerAssumption DEF IInv
<1>s. \A i \in DOMAIN trans : trans[i] \in Step
  BY DEF TypeOK
<1>t. \A i \in DOMAIN trans : /\ trans[i].pkg \in Pkg /\ trans[i].type \in Types
                             /\ trans[i].ver \in 0..MaxVer
  BY <1>s DEF Step
<1>i. DOMAIN trans = 1..Len(trans) /\ idx \in Nat \ {0}
  BY DEF TypeOK
<1>c. idx <= Len(trans) => idx \in DOMAIN trans /\ Cur.pkg \in Pkg
  BY <1>t, <1>i DEF Cur
<1>m. \A p \in Pkg :
        /\ mem[p] \in MemRecord
        /\ mem[p].ver \in 0..MaxVer
        /\ mem[p].state # "not-installed" => mem[p].ver \in Ver
        /\ mem[p].state # "half-removed" => mem[p] \in DurableRecord
  BY RecordFields DEF TypeOK
<1>d. \A p \in Pkg :
        /\ disk[p].state \in {"not-installed", "unpacked", "installed"}
        /\ disk[p].state # "not-installed" => disk[p] = Record(disk[p].ver, disk[p].state)
  BY RecordFields, AbsentType DEF TypeOK
<1>1. CASE Idle
  BY <1>1 DEF Idle, vars, TypeOK, TransOK, UnpackingCur, HalfRemovedIsCur,
     Registered, CopyUntouched, NothingPurged, WriteUnpacks, WriteInstalls,
     UnpackOnlyStops, PayloadHasMetafile, ToConfigure, Configured, Loop,
     Unpacked, Places, Cur
<1>2. CASE Begin
  <2>a. disk \in [Pkg -> DurableRecord] /\ trans' \in Transactions(disk)
    BY <1>2 DEF Begin, TypeOK
  <2>0. /\ trans' \in Seq(Step)
        /\ \A i, j \in DOMAIN trans' : trans'[i].pkg = trans'[j].pkg => i = j
        /\ \A i \in DOMAIN trans' :
             /\ trans'[i].type \in Unpacks => trans'[i].ver \in Ver
             /\ trans'[i].type = "configure" => disk[trans'[i].pkg].state = "unpacked"
    BY <2>a, TransactionsFacts
  <2>1. TypeOK'
    BY <1>2, <2>0, AbsentType DEF Begin, rootVars, TypeOK, Places
  <2>2. TransOK'
    BY <1>2, <2>0 DEF Begin, rootVars, TransOK
  <2>3. HalfRemovedIsCur'
    BY <1>2, <1>d DEF Begin, rootVars, HalfRemovedIsCur, Cur
  <2>4. Registered'
    BY <1>2, <2>0 DEF Begin, Registered, ToConfigure, Loop, Unpacked
  <2>5. UnpackingCur' /\ CopyUntouched' /\ NothingPurged' /\ WriteUnpacks' /\
        WriteInstalls' /\ UnpackOnlyStops' /\ PayloadHasMetafile'
    BY <1>2 DEF Begin, rootVars, UnpackingCur, Cur, CopyUntouched,
       NothingPurged, WriteUnpacks, Loop, WriteInstalls, Configured,
       UnpackOnlyStops, Unpacked, PayloadHasMetafile
  <2> QED
    BY <2>1, <2>2, <2>3, <2>4, <2>5
<1>3. CASE Reconfigure
  <2>1. TypeOK'
    BY <1>3, AbsentType DEF Reconfigure, rootVars, TypeOK, Places
  <2>2. HalfRemovedIsCur'
    BY <1>3, <1>d DEF Reconfigure, rootVars, HalfRemovedIsCur, Cur
  <2>3. TransOK' /\ UnpackingCur' /\ Registered' /\ CopyUntouched' /\
        NothingPurged' /\ WriteUnpacks' /\ WriteInstalls' /\ UnpackOnlyStops'
        /\ PayloadHasMetafile'
    BY <1>3 DEF Reconfigure, rootVars, TransOK, UnpackingCur, Cur, Registered,
       ToConfigure, Loop, Unpacked, CopyUntouched, NothingPurged, WriteUnpacks,
       WriteInstalls, Configured, UnpackOnlyStops, PayloadHasMetafile
  <2> QED
    BY <2>1, <2>2, <2>3
<1>4. CASE Fetch
  BY <1>4 DEF Fetch, TypeOK, TransOK, UnpackingCur, HalfRemovedIsCur,
     Registered, CopyUntouched, NothingPurged, WriteUnpacks, WriteInstalls,
     UnpackOnlyStops, PayloadHasMetafile, ToConfigure, Configured, Loop,
     Unpacked, Places, Cur, rootVars
<1>5. CASE PreRemove
  <2>1. TypeOK'
    BY <1>5 DEF PreRemove, rootVars, TypeOK, Places, StoredScripts,
       NothingPurged
  <2>2. TransOK' /\ UnpackingCur' /\ HalfRemovedIsCur' /\ Registered' /\
        CopyUntouched' /\ NothingPurged' /\ WriteUnpacks' /\ WriteInstalls' /\
        UnpackOnlyStops' /\ PayloadHasMetafile'
    BY <1>5 DEF PreRemove, rootVars, TransOK, UnpackingCur, Cur,
       HalfRemovedIsCur, Registered, ToConfigure, Loop, Unpacked,
       CopyUntouched, NothingPurged, WriteUnpacks, WriteInstalls, Configured,
       UnpackOnlyStops, PayloadHasMetafile
  <2> QED
    BY <2>1, <2>2
<1>6. CASE PreRemoveMissing
  BY <1>6 DEF PreRemoveMissing, TypeOK, TransOK, UnpackingCur,
     HalfRemovedIsCur, Registered, CopyUntouched, NothingPurged, WriteUnpacks,
     WriteInstalls, UnpackOnlyStops, PayloadHasMetafile, ToConfigure,
     Configured, Loop, Unpacked, Places, Cur, AtStep, AtEnd, Fault, Fail,
     rootVars, procVars, Unpacks
<1>7. CASE PreInstall
  BY <1>7 DEF PreInstall, TypeOK, TransOK, UnpackingCur, HalfRemovedIsCur,
     Registered, CopyUntouched, NothingPurged, WriteUnpacks, WriteInstalls,
     UnpackOnlyStops, PayloadHasMetafile, ToConfigure, Configured, Loop,
     Unpacked, Places, Cur, rootVars
<1>8. CASE EarlyFail
  BY <1>8 DEF EarlyFail, TypeOK, TransOK, UnpackingCur, HalfRemovedIsCur,
     Registered, CopyUntouched, NothingPurged, WriteUnpacks, WriteInstalls,
     UnpackOnlyStops, PayloadHasMetafile, ToConfigure, Configured, Loop,
     Unpacked, Places, Cur, Fault, Fail, rootVars
<1>9. CASE RunSkip
  <2>1. HalfRemovedIsCur'
    BY <1>9, <1>i DEF RunSkip, AtStep, Skippable, rootVars, HalfRemovedIsCur,
       Cur, Absent, Record
  <2>2. Registered'
    BY <1>9, <1>i DEF RunSkip, AtStep, Skippable, rootVars, Registered,
       ToConfigure, Loop, Unpacked, Cur, Unpacks, TypeOK
  <2>3. TypeOK' /\ TransOK' /\ UnpackingCur' /\ CopyUntouched' /\
        NothingPurged' /\ WriteUnpacks' /\ WriteInstalls' /\ UnpackOnlyStops'
        /\ PayloadHasMetafile'
    BY <1>9 DEF RunSkip, AtStep, Skippable, rootVars, TypeOK, Places, TransOK,
       UnpackingCur, Cur, CopyUntouched, NothingPurged, WriteUnpacks, Loop,
       WriteInstalls, Configured, UnpackOnlyStops, Unpacked, PayloadHasMetafile
  <2> QED
    BY <2>1, <2>2, <2>3
<1>10. CASE RemoveFiles
  <2>0. mem' \in [Pkg -> MemRecord] /\ files' \in [Pkg -> 0..(MaxVer + 1)] /\ faults' \in Nat
    <3>1. Record(mem[Cur.pkg].ver, "half-removed") \in MemRecord
      BY <1>10, <1>c, <1>m, RecordTypes DEF RemoveFiles, AtStep
    <3>2. \A left \in Leftover(Cur.pkg) \cup {Mixed} : left \in 0..(MaxVer + 1)
      BY <1>10, <1>c DEF RemoveFiles, AtStep, Leftover, Mixed, TypeOK
    <3>3. mem' \in [Pkg -> MemRecord]
      BY <1>10, <3>1 DEF RemoveFiles, TypeOK
    <3>4. files' \in [Pkg -> 0..(MaxVer + 1)]
      BY <1>10, <3>2 DEF RemoveFiles, TypeOK
    <3>5. faults' \in Nat
      BY <1>10 DEF RemoveFiles, Fault, TypeOK
    <3> QED
      BY <3>3, <3>4, <3>5
  <2>1. TypeOK'
    BY <1>10, <2>0 DEF RemoveFiles, procVars, TypeOK
  <2>2. HalfRemovedIsCur'
    BY <1>10, <1>c, <1>m DEF RemoveFiles, AtStep, procVars, Fault, rootVars,
       HalfRemovedIsCur, Cur, Leftover, Record, Mixed, Ver, TypeOK,
       PayloadHasMetafile
  <2>3. Registered'
    BY <1>10, <1>c, <1>t, <1>m DEF RemoveFiles, AtStep, procVars, Fault,
       rootVars, Registered, ToConfigure, Loop, Unpacked, TransOK, TypeOK,
       Unpacks, Cur
  <2>4. WriteUnpacks'
    BY <1>10, <1>c, <1>m DEF RemoveFiles, AtStep, procVars, Fault, rootVars,
       WriteUnpacks, Loop, Record, TypeOK
  <2>5. PayloadHasMetafile'
    BY <1>10, <1>c DEF RemoveFiles, AtStep, procVars, Fault, rootVars,
       PayloadHasMetafile, Leftover, Mixed, Ver, TypeOK
  <2>6. TransOK' /\ UnpackingCur' /\ CopyUntouched' /\ NothingPurged' /\
        WriteInstalls' /\ UnpackOnlyStops'
    BY <1>10 DEF RemoveFiles, AtStep, procVars, Fault, rootVars, TransOK,
       UnpackingCur, Cur, CopyUntouched, NothingPurged, WriteInstalls,
       Configured, UnpackOnlyStops, Unpacked
  <2> QED
    BY <2>1, <2>2, <2>3, <2>4, <2>5, <2>6
<1>11. CASE RemovePurge
  <2>0. meta' \in [Pkg -> 0..MaxVer] /\ mem' \in [Pkg -> MemRecord] /\ faults' \in Nat
    <3>1. meta' \in [Pkg -> 0..MaxVer]
      BY <1>11, MaxVerAssumption DEF RemovePurge, TypeOK
    <3>2. mem' \in [Pkg -> MemRecord]
      BY <1>11, AbsentType DEF RemovePurge, TypeOK
    <3>3. faults' \in Nat
      BY <1>11 DEF RemovePurge, Fault, TypeOK
    <3> QED
      BY <3>1, <3>2, <3>3
  <2>1. TypeOK'
    BY <1>11, <1>c, <2>0 DEF RemovePurge, AtStep, rootVars, TypeOK, Places
  <2>2. HalfRemovedIsCur'
    BY <1>11, <1>c DEF RemovePurge, AtStep, rootVars, HalfRemovedIsCur, Cur,
       TypeOK, Absent, Record
  <2>3. Registered'
    <3>1. /\ pc = "run" /\ pc' = pc /\ trans' = trans /\ idx' = idx + 1
          /\ trans[idx].type = "remove" /\ mem[Cur.pkg].state = "half-removed"
          /\ mem' = [mem EXCEPT ![Cur.pkg] = Absent]
      BY <1>11 DEF RemovePurge, AtStep, Cur
    <3>2. ASSUME NEW i \in DOMAIN trans, ToConfigure(i)'
          PROVE  ToConfigure(i)
      BY <1>i, <3>1, <3>2 DEF ToConfigure, Loop, Unpacked, Unpacks
    <3>3. ASSUME NEW i \in DOMAIN trans, ToConfigure(i)
          PROVE  mem'[trans[i].pkg] = mem[trans[i].pkg]
      <4>1. mem[trans[i].pkg].state \in {"unpacked", "installed"}
        BY <3>3 DEF Registered
      <4>2. trans[i].pkg # Cur.pkg
        BY <3>1, <4>1
      <4>3. mem \in [Pkg -> MemRecord] /\ trans[i].pkg \in Pkg
        BY <1>t DEF TypeOK
      <4> QED
        BY <3>1, <4>2, <4>3
    <3> QED
      BY <3>1, <3>2, <3>3 DEF Registered
  <2>4. WriteUnpacks'
    BY <1>11, <1>c DEF RemovePurge, AtStep, rootVars, WriteUnpacks, Loop,
       TypeOK
  <2>5. PayloadHasMetafile'
    BY <1>11, <1>c DEF RemovePurge, AtStep, rootVars, PayloadHasMetafile,
       HalfRemovedIsCur, TypeOK
  <2>6. TransOK' /\ UnpackingCur' /\ CopyUntouched' /\ NothingPurged' /\
        WriteInstalls' /\ UnpackOnlyStops'
    BY <1>11 DEF RemovePurge, AtStep, rootVars, TransOK, UnpackingCur, Cur,
       CopyUntouched, NothingPurged, WriteInstalls, Configured,
       UnpackOnlyStops, Unpacked
  <2> QED
    BY <2>1, <2>2, <2>3, <2>4, <2>5, <2>6
<1>12. CASE UnpackBegin
  <2>1. TypeOK'
    BY <1>12, <1>c DEF UnpackBegin, AtStep, rootVars, TypeOK, Places, Mixed
  <2>2. HalfRemovedIsCur'
    BY <1>12, <1>c DEF UnpackBegin, AtStep, rootVars, HalfRemovedIsCur, Cur,
       Unpacks
  <2>3. PayloadHasMetafile'
    BY <1>12, <1>c DEF UnpackBegin, AtStep, rootVars, PayloadHasMetafile,
       Mixed, Ver, TypeOK
  <2>4. TransOK' /\ UnpackingCur' /\ Registered' /\ CopyUntouched' /\
        NothingPurged' /\ WriteUnpacks' /\ WriteInstalls' /\ UnpackOnlyStops'
    BY <1>12 DEF UnpackBegin, AtStep, rootVars, TransOK, UnpackingCur, Cur,
       Registered, ToConfigure, Loop, Unpacked, CopyUntouched, NothingPurged,
       WriteUnpacks, WriteInstalls, Configured, UnpackOnlyStops
  <2> QED
    BY <2>1, <2>2, <2>3, <2>4
<1>13. CASE UnpackEnd
  <2>0. /\ idx \in DOMAIN trans /\ Cur.ver \in Ver /\ Cur.ver \in 0..MaxVer
        /\ Cur.ver \in 0..(MaxVer + 1) /\ Record(Cur.ver, "unpacked") \in MemRecord
    BY <1>13, <1>c, RecordTypes DEF UnpackEnd, UnpackingCur, TransOK, Cur,
       TypeOK, Ver
  <2>1. TypeOK'
    BY <1>13, <1>c, <2>0, <1>i DEF UnpackEnd, rootVars, TypeOK, Places
  <2>2. HalfRemovedIsCur'
    BY <1>13, <1>c, <2>0 DEF UnpackEnd, rootVars, HalfRemovedIsCur, Cur,
       Record, TypeOK
  <2>3. Registered'
    BY <1>13, <1>c, <1>t, <1>i, <2>0 DEF UnpackEnd, rootVars, Registered,
       ToConfigure, Loop, Unpacked, TransOK, TypeOK, Cur, Record
  <2>4. WriteUnpacks'
    BY <1>13, <1>c, <2>0 DEF UnpackEnd, rootVars, WriteUnpacks, Loop, TypeOK,
       Record
  <2>5. PayloadHasMetafile'
    BY <1>13, <1>c, <2>0 DEF UnpackEnd, rootVars, PayloadHasMetafile, TypeOK
  <2>6. TransOK' /\ UnpackingCur' /\ CopyUntouched' /\ NothingPurged' /\
        WriteInstalls' /\ UnpackOnlyStops'
    BY <1>13 DEF UnpackEnd, rootVars, TransOK, UnpackingCur, Cur,
       CopyUntouched, NothingPurged, WriteInstalls, Configured,
       UnpackOnlyStops, Unpacked
  <2> QED
    BY <2>1, <2>2, <2>3, <2>4, <2>5, <2>6
<1>14. CASE UnpackUnregistered
  <2>0. /\ idx \in DOMAIN trans /\ Cur.ver \in Ver /\ Cur.ver \in 0..MaxVer
        /\ Cur.ver \in 0..(MaxVer + 1)
    BY <1>14, <1>c DEF UnpackUnregistered, UnpackingCur, TransOK, Cur, TypeOK,
       Ver
  <2>1. TypeOK'
    BY <1>14, <1>c, <2>0 DEF UnpackUnregistered, Fail, Fault, rootVars, TypeOK,
       Places
  <2>2. HalfRemovedIsCur'
    BY <1>14, <1>c, <2>0 DEF UnpackUnregistered, Fail, Fault, rootVars,
       HalfRemovedIsCur, Cur, TypeOK
  <2>3. PayloadHasMetafile'
    BY <1>14, <1>c, <2>0 DEF UnpackUnregistered, Fail, Fault, rootVars,
       PayloadHasMetafile, TypeOK
  <2>4. TransOK' /\ UnpackingCur' /\ Registered' /\ CopyUntouched' /\
        NothingPurged' /\ WriteUnpacks' /\ WriteInstalls' /\ UnpackOnlyStops'
    BY <1>14 DEF UnpackUnregistered, Fail, Fault, rootVars, TransOK,
       UnpackingCur, Cur, Registered, ToConfigure, Loop, Unpacked,
       CopyUntouched, NothingPurged, WriteUnpacks, WriteInstalls, Configured,
       UnpackOnlyStops
  <2> QED
    BY <2>1, <2>2, <2>3, <2>4
<1>15. CASE RunFail
  <2>1. HalfRemovedIsCur'
    BY <1>15, <1>c, <1>m DEF RunFail, Fail, Fault, rootVars, HalfRemovedIsCur,
       Cur, AtStep, Unpacks
  <2>2. WriteUnpacks'
    BY <1>15 DEF RunFail, Fail, Fault, rootVars, WriteUnpacks, Loop, AtStep
  <2>3. TypeOK' /\ TransOK' /\ UnpackingCur' /\ Registered' /\ CopyUntouched'
        /\ NothingPurged' /\ WriteInstalls' /\ UnpackOnlyStops' /\
        PayloadHasMetafile'
    BY <1>15 DEF RunFail, Fail, Fault, rootVars, TypeOK, Places, TransOK,
       UnpackingCur, Cur, Registered, ToConfigure, Loop, Unpacked,
       CopyUntouched, NothingPurged, WriteInstalls, Configured,
       UnpackOnlyStops, PayloadHasMetafile
  <2> QED
    BY <2>1, <2>2, <2>3
<1>16. CASE RunEnd
  BY <1>16 DEF RunEnd, TypeOK, TransOK, UnpackingCur, HalfRemovedIsCur,
     Registered, CopyUntouched, NothingPurged, WriteUnpacks, WriteInstalls,
     UnpackOnlyStops, PayloadHasMetafile, ToConfigure, Configured, Loop,
     Unpacked, Places, Cur, AtEnd, rootVars
<1>17. CASE FlushUnpacked
  <2>0. mem \in [Pkg -> DurableRecord]
    BY <1>17, <1>m DEF FlushUnpacked, HalfRemovedIsCur, TypeOK
  <2>1. TypeOK'
    BY <1>17, <2>0 DEF FlushUnpacked, rootVars, TypeOK, Places
  <2>2. TransOK' /\ UnpackingCur' /\ HalfRemovedIsCur' /\ Registered' /\
        CopyUntouched' /\ NothingPurged' /\ WriteUnpacks' /\ WriteInstalls' /\
        UnpackOnlyStops' /\ PayloadHasMetafile'
    BY <1>17 DEF FlushUnpacked, rootVars, TransOK, UnpackingCur, Cur,
       HalfRemovedIsCur, Registered, ToConfigure, Loop, Unpacked,
       CopyUntouched, NothingPurged, WriteUnpacks, WriteInstalls, Configured,
       UnpackOnlyStops, PayloadHasMetafile
  <2> QED
    BY <2>1, <2>2
<1>18. CASE FlushUnpackedFail
  BY <1>18 DEF FlushUnpackedFail, TypeOK, TransOK, UnpackingCur,
     HalfRemovedIsCur, Registered, CopyUntouched, NothingPurged, WriteUnpacks,
     WriteInstalls, UnpackOnlyStops, PayloadHasMetafile, ToConfigure,
     Configured, Loop, Unpacked, Places, Cur, AtStep, AtEnd, Fault, Fail,
     rootVars, procVars, Unpacks
<1>19. CASE PostRemoveSkip
  <2>1. TypeOK' /\ TransOK' /\ UnpackingCur' /\ HalfRemovedIsCur' /\
        Registered' /\ CopyUntouched' /\ NothingPurged' /\ WriteUnpacks' /\
        WriteInstalls' /\ UnpackOnlyStops' /\ PayloadHasMetafile'
    BY <1>19 DEF PostRemoveSkip, AtStep, rootVars, TypeOK, Places, TransOK,
       UnpackingCur, Cur, HalfRemovedIsCur, Registered, ToConfigure, Loop,
       Unpacked, CopyUntouched, NothingPurged, WriteUnpacks, WriteInstalls,
       Configured, UnpackOnlyStops, PayloadHasMetafile
  <2> QED
    BY <2>1
<1>20. CASE PostRemove
  BY <1>20 DEF PostRemove, TypeOK, TransOK, UnpackingCur, HalfRemovedIsCur,
     Registered, CopyUntouched, NothingPurged, WriteUnpacks, WriteInstalls,
     UnpackOnlyStops, PayloadHasMetafile, ToConfigure, Configured, Loop,
     Unpacked, Places, Cur, AtStep, rootVars
<1>21. CASE PostRemoveFail
  <2>1. WriteUnpacks'
    BY <1>21 DEF PostRemoveFail, AtStep, Fault, rootVars, WriteUnpacks, Loop,
       UnpackOnlyStops, Unpacked
  <2>2. TypeOK' /\ TransOK' /\ UnpackingCur' /\ HalfRemovedIsCur' /\
        Registered' /\ CopyUntouched' /\ NothingPurged' /\ WriteInstalls' /\
        UnpackOnlyStops' /\ PayloadHasMetafile'
    BY <1>21 DEF PostRemoveFail, AtStep, Fault, rootVars, TypeOK, Places,
       TransOK, UnpackingCur, Cur, HalfRemovedIsCur, Registered, ToConfigure,
       Loop, Unpacked, CopyUntouched, NothingPurged, WriteInstalls, Configured,
       UnpackOnlyStops, PayloadHasMetafile
  <2> QED
    BY <2>1, <2>2
<1>22. CASE PostRemoveEnd
  BY <1>22 DEF PostRemoveEnd, TypeOK, TransOK, UnpackingCur, HalfRemovedIsCur,
     Registered, CopyUntouched, NothingPurged, WriteUnpacks, WriteInstalls,
     UnpackOnlyStops, PayloadHasMetafile, ToConfigure, Configured, Loop,
     Unpacked, Places, Cur, AtEnd, rootVars
<1>23. CASE ConfigureSkip
  <2>1. TypeOK' /\ TransOK' /\ UnpackingCur' /\ HalfRemovedIsCur' /\
        Registered' /\ CopyUntouched' /\ NothingPurged' /\ WriteUnpacks' /\
        WriteInstalls' /\ UnpackOnlyStops' /\ PayloadHasMetafile'
    BY <1>23 DEF ConfigureSkip, AtStep, rootVars, TypeOK, Places, TransOK,
       UnpackingCur, Cur, HalfRemovedIsCur, Registered, ToConfigure, Loop,
       Unpacked, CopyUntouched, NothingPurged, WriteUnpacks, WriteInstalls,
       Configured, UnpackOnlyStops, PayloadHasMetafile
  <2> QED
    BY <2>1
<1>24. CASE Configure
  <2>0. /\ mem[Cur.pkg].state \in {"unpacked", "installed"}
           /\ mem[Cur.pkg].ver \in Ver
           /\ mem[Cur.pkg].ver \in 0..MaxVer
    BY <1>24, <1>c, <1>m DEF Configure, AtStep, Registered, ToConfigure, Loop,
       Unpacked, Unpacks, Cur
  <2>1. TypeOK'
    BY <1>24, <1>c, <2>0, RecordTypes DEF Configure, AtStep, ConfigurePkg,
       rootVars, TypeOK, Places
  <2>2. HalfRemovedIsCur'
    BY <1>24, <1>c DEF Configure, AtStep, ConfigurePkg, rootVars,
       HalfRemovedIsCur, Cur, TypeOK, Record
  <2>3. Registered'
    BY <1>24, <1>c, <1>t DEF Configure, AtStep, ConfigurePkg, rootVars,
       Registered, ToConfigure, Loop, Unpacked, TypeOK, Record
  <2>4. WriteInstalls'
    BY <1>24, <1>c, <1>d, <2>0 DEF Configure, AtStep, ConfigurePkg, rootVars,
       WriteInstalls, Configured, TypeOK, Record
  <2>5. TransOK' /\ UnpackingCur' /\ CopyUntouched' /\ NothingPurged' /\
        WriteUnpacks' /\ UnpackOnlyStops' /\ PayloadHasMetafile'
    BY <1>24 DEF Configure, AtStep, ConfigurePkg, rootVars, TransOK,
       UnpackingCur, Cur, CopyUntouched, NothingPurged, WriteUnpacks, Loop,
       UnpackOnlyStops, Unpacked, PayloadHasMetafile
  <2> QED
    BY <2>1, <2>2, <2>3, <2>4, <2>5
<1>25. CASE ConfigureFail
  <2>1. WriteUnpacks'
    BY <1>25 DEF ConfigureFail, Fail, Fault, AtStep, rootVars, WriteUnpacks,
       Loop, UnpackOnlyStops, Unpacked
  <2>2. TypeOK' /\ TransOK' /\ UnpackingCur' /\ HalfRemovedIsCur' /\
        Registered' /\ CopyUntouched' /\ NothingPurged' /\ WriteInstalls' /\
        UnpackOnlyStops' /\ PayloadHasMetafile'
    BY <1>25 DEF ConfigureFail, Fail, Fault, AtStep, rootVars, TypeOK, Places,
       TransOK, UnpackingCur, Cur, HalfRemovedIsCur, Registered, ToConfigure,
       Loop, Unpacked, CopyUntouched, NothingPurged, WriteInstalls, Configured,
       UnpackOnlyStops, PayloadHasMetafile
  <2> QED
    BY <2>1, <2>2
<1>26. CASE ConfigureEnd
  BY <1>26 DEF ConfigureEnd, TypeOK, TransOK, UnpackingCur, HalfRemovedIsCur,
     Registered, CopyUntouched, NothingPurged, WriteUnpacks, WriteInstalls,
     UnpackOnlyStops, PayloadHasMetafile, ToConfigure, Configured, Loop,
     Unpacked, Places, Cur, AtEnd, rootVars
<1>27. CASE Out
  <2>0. mem \in [Pkg -> DurableRecord]
    BY <1>27, <1>m DEF Out, HalfRemovedIsCur, TypeOK
  <2>1. TypeOK'
    BY <1>27, <2>0 DEF Out, rootVars, TypeOK, Places
  <2>2. TransOK' /\ UnpackingCur' /\ HalfRemovedIsCur' /\ Registered' /\
        CopyUntouched' /\ NothingPurged' /\ WriteUnpacks' /\ WriteInstalls' /\
        UnpackOnlyStops' /\ PayloadHasMetafile'
    BY <1>27 DEF Out, rootVars, TransOK, UnpackingCur, Cur, HalfRemovedIsCur,
       Registered, ToConfigure, Loop, Unpacked, CopyUntouched, NothingPurged,
       WriteUnpacks, WriteInstalls, Configured, UnpackOnlyStops,
       PayloadHasMetafile
  <2> QED
    BY <2>1, <2>2
<1>28. CASE OutFail
  BY <1>28 DEF OutFail, TypeOK, TransOK, UnpackingCur, HalfRemovedIsCur,
     Registered, CopyUntouched, NothingPurged, WriteUnpacks, WriteInstalls,
     UnpackOnlyStops, PayloadHasMetafile, ToConfigure, Configured, Loop,
     Unpacked, Places, Cur, Fault, rootVars
<1>29. CASE ReconfEnd
  <2>0. mem \in [Pkg -> DurableRecord]
    BY <1>29, <1>m DEF ReconfEnd, HalfRemovedIsCur, TypeOK
  <2>1. TypeOK'
    BY <1>29, <2>0 DEF ReconfEnd, Fault, rootVars, TypeOK, Places
  <2>2. TransOK' /\ UnpackingCur' /\ HalfRemovedIsCur' /\ Registered' /\
        CopyUntouched' /\ NothingPurged' /\ WriteUnpacks' /\ WriteInstalls' /\
        UnpackOnlyStops' /\ PayloadHasMetafile'
    BY <1>29 DEF ReconfEnd, Fault, rootVars, TransOK, UnpackingCur, Cur,
       HalfRemovedIsCur, Registered, ToConfigure, Loop, Unpacked,
       CopyUntouched, NothingPurged, WriteUnpacks, WriteInstalls, Configured,
       UnpackOnlyStops, PayloadHasMetafile
  <2> QED
    BY <2>1, <2>2
<1>30. CASE End
  <2>1. TypeOK'
    BY <1>30, AbsentType DEF End, Reset, rootVars, TypeOK, Places
  <2>2. HalfRemovedIsCur'
    BY <1>30, <1>d DEF End, Reset, rootVars, HalfRemovedIsCur, Cur
  <2>3. Registered'
    BY <1>30 DEF End, Reset, rootVars, Registered, ToConfigure, Loop, Unpacked
  <2>4. TransOK' /\ UnpackingCur' /\ CopyUntouched' /\ NothingPurged' /\
        WriteUnpacks' /\ WriteInstalls' /\ UnpackOnlyStops' /\
        PayloadHasMetafile'
    BY <1>30 DEF End, Reset, rootVars, TransOK, UnpackingCur, Cur,
       CopyUntouched, NothingPurged, WriteUnpacks, Loop, WriteInstalls,
       Configured, UnpackOnlyStops, Unpacked, PayloadHasMetafile
  <2> QED
    BY <2>1, <2>2, <2>3, <2>4
<1>31. CASE Crash
  <2>1. TypeOK'
    BY <1>31, AbsentType DEF Crash, Reset, Fault, rootVars, TypeOK, Places
  <2>2. HalfRemovedIsCur'
    BY <1>31, <1>d DEF Crash, Reset, Fault, rootVars, HalfRemovedIsCur, Cur
  <2>3. Registered'
    BY <1>31 DEF Crash, Reset, Fault, rootVars, Registered, ToConfigure, Loop,
       Unpacked
  <2>4. TransOK' /\ UnpackingCur' /\ CopyUntouched' /\ NothingPurged' /\
        WriteUnpacks' /\ WriteInstalls' /\ UnpackOnlyStops' /\
        PayloadHasMetafile'
    BY <1>31 DEF Crash, Reset, Fault, rootVars, TransOK, UnpackingCur, Cur,
       CopyUntouched, NothingPurged, WriteUnpacks, Loop, WriteInstalls,
       Configured, UnpackOnlyStops, Unpacked, PayloadHasMetafile
  <2> QED
    BY <2>1, <2>2, <2>3, <2>4
<1>32. ASSUME NEW p \in Pkg, ReconfSkip(p) PROVE IInv'
  BY <1>32 DEF ReconfSkip, TypeOK, TransOK, UnpackingCur, HalfRemovedIsCur,
     Registered, CopyUntouched, NothingPurged, WriteUnpacks, WriteInstalls,
     UnpackOnlyStops, PayloadHasMetafile, ToConfigure, Configured, Loop,
     Unpacked, Places, Cur, rootVars
<1>33. ASSUME NEW p \in Pkg, ReconfPkg(p) PROVE IInv'
  <2>0. mem[p].ver \in Ver /\ mem[p].ver \in 0..MaxVer
    BY <1>33, <1>m DEF ReconfPkg, NeedsPost
  <2>1. TypeOK'
    BY <1>33, <2>0, RecordTypes DEF ReconfPkg, ConfigurePkg, rootVars, TypeOK,
       Places
  <2>2. HalfRemovedIsCur'
    BY <1>33 DEF ReconfPkg, ConfigurePkg, rootVars, HalfRemovedIsCur, Cur,
       TypeOK, Record
  <2>3. WriteInstalls'
    BY <1>33, <1>d, <2>0 DEF ReconfPkg, ConfigurePkg, rootVars, WriteInstalls,
       Configured, TypeOK, Record, NeedsPost
  <2>4. TransOK' /\ UnpackingCur' /\ Registered' /\ CopyUntouched' /\
        NothingPurged' /\ WriteUnpacks' /\ UnpackOnlyStops' /\
        PayloadHasMetafile'
    BY <1>33 DEF ReconfPkg, ConfigurePkg, rootVars, TransOK, UnpackingCur, Cur,
       Registered, ToConfigure, Loop, Unpacked, CopyUntouched, NothingPurged,
       WriteUnpacks, UnpackOnlyStops, PayloadHasMetafile
  <2> QED
    BY <2>1, <2>2, <2>3, <2>4
<1>34. ASSUME NEW p \in Pkg, ReconfFail(p) PROVE IInv'
  BY <1>34 DEF ReconfFail, TypeOK, TransOK, UnpackingCur, HalfRemovedIsCur,
     Registered, CopyUntouched, NothingPurged, WriteUnpacks, WriteInstalls,
     UnpackOnlyStops, PayloadHasMetafile, ToConfigure, Configured, Loop,
     Unpacked, Places, Cur, Fault, rootVars
<1>35. CASE UNCHANGED vars
  BY <1>35 DEF vars, TypeOK, TransOK, UnpackingCur, HalfRemovedIsCur,
     Registered, CopyUntouched, NothingPurged, WriteUnpacks, WriteInstalls,
     UnpackOnlyStops, PayloadHasMetafile, ToConfigure, Configured, Cur
<1> QED
  BY <1>1, <1>2, <1>3, <1>4, <1>5, <1>6, <1>7, <1>8, <1>9, <1>10, <1>11, <1>12,
     <1>13, <1>14, <1>15, <1>16, <1>17, <1>18, <1>19, <1>20, <1>21, <1>22,
     <1>23, <1>24, <1>25, <1>26, <1>27, <1>28, <1>29, <1>30, <1>31, <1>32,
     <1>33, <1>34, <1>35 DEF Next, CommitStep, ReconfStep

-----------------------------------------------------------------------------
(* Type correctness: among others, "half-removed" never reaches the file.  *)
THEOREM TypeCorrect == Spec => []TypeOK
<1>1. IInv => TypeOK
  BY DEF IInv
<1> QED
  BY <1>1, InitIInv, StepIInv, PTL DEF Spec

(* Whatever fails, and wherever the process dies, a complete payload on    *)
(* disk has the metafile that lists it.                                    *)
THEOREM PayloadIsListed == Spec => []PayloadHasMetafile
<1>1. IInv => PayloadHasMetafile
  BY DEF IInv
<1> QED
  BY <1>1, InitIInv, StepIInv, PTL DEF Spec

(* PkgStates speaks of the same records. *)
LEMMA SameRecords ==
  /\ Promise!DurableRecord = DurableRecord
  /\ Promise!Absent = Absent
  /\ \A v, state : Promise!Record(v, state) = Record(v, state)
BY DEF Promise!DurableRecord, Promise!Absent, Promise!Record, Promise!Ver,
   DurableRecord, Absent, Record, Ver

(* Every step of Commit is a step of PkgStates, or changes neither the     *)
(* file nor what has been configured.                                      *)
LEMMA StepRefines == IInv /\ [Next]_vars => [Promise!Next]_(Promise!vars)
<1> SUFFICES ASSUME IInv, [Next]_vars
             PROVE  Promise!Next \/ UNCHANGED <<disk, conf>>
  BY DEF Promise!vars
<1>c. idx <= Len(trans) => idx \in DOMAIN trans /\ Cur.pkg \in Pkg
  <2>1. \A i \in DOMAIN trans : trans[i] \in Step
    BY DEF IInv, TypeOK
  <2>2. \A i \in DOMAIN trans : trans[i].pkg \in Pkg
    BY <2>1 DEF Step
  <2> QED
    BY <2>2 DEF IInv, TypeOK, Cur
<1>m. \A p \in Pkg :
        /\ mem[p].state # "half-removed" => mem[p] \in DurableRecord
        /\ mem[p].state \in {"unpacked", "installed"} => mem[p].ver # 0
  BY RecordFields DEF IInv, TypeOK
<1>d. \A p \in Pkg : disk[p].ver \in 0..MaxVer
  BY RecordFields, AbsentType DEF IInv, TypeOK
<1>w. \/ pc \in {"postremove", "configure", "reconf"}
      \/ pc = "out" /\ rv = 0 /\ "unpack-only" \notin flags
      => \A p \in Pkg : /\ mem[p] = disk[p] \/ Configured(p)
                        /\ mem[p].ver = disk[p].ver
  BY DEF IInv, WriteInstalls, Configured, Record
<1>1. CASE FlushUnpacked
  <2>1. disk' \in [Pkg -> DurableRecord]
    BY <1>1, <1>m DEF FlushUnpacked, IInv, TypeOK, HalfRemovedIsCur
  <2>2. Promise!Apply
    BY <1>1, <2>1, SameRecords DEF FlushUnpacked, Promise!Apply, IInv,
       WriteUnpacks, HalfRemovedIsCur, Loop, rootVars
  <2> QED
    BY <2>2 DEF Promise!Next
<1>2. CASE Configure
  <2>1. mem[Cur.pkg].state \in {"unpacked", "installed"}
    BY <1>2, <1>c DEF Configure, AtStep, IInv, Registered, ToConfigure,
       Unpacked, Unpacks, Cur
  <2>2. mem[Cur.pkg].ver = disk[Cur.pkg].ver
    BY <1>2, <1>c, <1>w DEF Configure, AtStep
  <2>3. disk[Cur.pkg].ver # 0
    BY <1>2, <1>c, <1>m, <2>1, <2>2 DEF Configure, AtStep
  <2>4. Promise!RunPost(Cur.pkg)
    BY <1>2, <2>2, <2>3 DEF Configure, ConfigurePkg, Promise!RunPost
  <2> QED
    BY <1>2, <1>c, <2>4 DEF Configure, AtStep, Promise!Next
<1>3. CASE Out
  <2>1. CASE rv # 0
    BY <1>3, <2>1 DEF Out, rootVars
  <2>2. ASSUME rv = 0 PROVE disk' = mem /\ disk' \in [Pkg -> DurableRecord]
    BY <1>3, <2>2, <1>m DEF Out, IInv, TypeOK, HalfRemovedIsCur
  <2>3. CASE rv = 0 /\ "unpack-only" \in flags
    <3>1. Promise!Apply
      BY <1>3, <2>2, <2>3, SameRecords DEF Out, Promise!Apply, IInv,
         WriteUnpacks, HalfRemovedIsCur, rootVars
    <3> QED
      BY <3>1 DEF Promise!Next
  <2>4. CASE rv = 0 /\ "unpack-only" \notin flags
    <3>1. Promise!MarkInstalled
      BY <1>3, <2>2, <2>4, <1>d, <1>w, SameRecords DEF Out,
         Promise!MarkInstalled, Configured, rootVars
    <3> QED
      BY <3>1 DEF Promise!Next
  <2> QED
    BY <2>1, <2>3, <2>4
<1>4. CASE ReconfEnd
  <2>1. CASE disk' = mem
    <3>1. disk' \in [Pkg -> DurableRecord]
      BY <1>4, <2>1, <1>m DEF ReconfEnd, IInv, TypeOK, HalfRemovedIsCur
    <3>2. Promise!MarkInstalled
      BY <1>4, <2>1, <3>1, <1>d, <1>w, SameRecords DEF ReconfEnd,
         Promise!MarkInstalled, Configured, rootVars
    <3> QED
      BY <3>2 DEF Promise!Next
  <2> QED
    BY <1>4, <2>1 DEF ReconfEnd, rootVars
<1>5. ASSUME NEW p \in Pkg, ReconfPkg(p) PROVE Promise!Next
  <2>1. mem[p].state \in {"unpacked", "installed"}
    BY <1>5 DEF ReconfPkg, NeedsPost
  <2>2. mem[p].ver = disk[p].ver
    BY <1>5, <1>w DEF ReconfPkg
  <2>3. disk[p].ver # 0
    BY <1>m, <2>1, <2>2
  <2>4. Promise!RunPost(p)
    BY <1>5, <2>2, <2>3 DEF ReconfPkg, ConfigurePkg, Promise!RunPost
  <2> QED
    BY <2>4 DEF Promise!Next
<1>6. CASE Idle \/ Begin \/ Reconfigure \/ End \/ Crash \/ UNCHANGED vars
  BY <1>6 DEF Idle, Begin, Reconfigure, End, Crash, vars, rootVars
<1>7. ASSUME CommitStep, ~FlushUnpacked, ~Configure, ~Out
      PROVE  UNCHANGED <<disk, conf>>
  BY <1>7 DEF CommitStep, Fetch, PreRemove, PreRemoveMissing, PreInstall,
     EarlyFail, RunSkip, RemoveFiles, RemovePurge, UnpackBegin, UnpackEnd,
     UnpackUnregistered, RunFail, RunEnd, FlushUnpackedFail, PostRemoveSkip,
     PostRemove, PostRemoveFail, PostRemoveEnd, ConfigureSkip, ConfigureFail,
     ConfigureEnd, OutFail, rootVars
<1>8. ASSUME NEW p \in Pkg, ReconfSkip(p) \/ ReconfFail(p)
      PROVE  UNCHANGED <<disk, conf>>
  BY <1>8 DEF ReconfSkip, ReconfFail, rootVars
<1> QED
  BY <1>1, <1>2, <1>3, <1>4, <1>5, <1>6, <1>7, <1>8 DEF Next, ReconfStep

(* flappy_transaction_commit and flappy-reconfigure implement PkgStates:   *)
(* what PkgStates promises holds of the database file they write.          *)
THEOREM KeepsPromise == Spec => ImplementsPkgStates
<1>1. Init => Promise!Init
  <2> SUFFICES ASSUME Init PROVE Promise!Init
    OBVIOUS
  <2>1. \A p \in Pkg : disk[p].ver \in 0..MaxVer
    BY RecordFields, AbsentType DEF Init
  <2> QED
    BY <2>1, SameRecords, MaxVerAssumption DEF Init, Promise!Init,
       Promise!TypeOK
<1> QED
  BY <1>1, InitIInv, StepIInv, StepRefines, PTL
     DEF Spec, ImplementsPkgStates, Promise!Spec

-----------------------------------------------------------------------------
(* What the promise amounts to, from PkgStates alone: its own inductive    *)
(* invariant, with the types.                                              *)
PromiseInv == Promise!TypeOK /\ Promise!InstalledMeansConfigured

(* Every step PkgStates allows keeps its invariant.                        *)
LEMMA PromiseStep == PromiseInv /\ [Promise!Next]_(Promise!vars) => PromiseInv'
<1> SUFFICES ASSUME PromiseInv, [Promise!Next]_(Promise!vars) PROVE PromiseInv'
  OBVIOUS
<1> USE DEF PromiseInv, Promise!TypeOK, Promise!InstalledMeansConfigured
<1>1. CASE Promise!Apply
  BY <1>1, RecordFields, AbsentType, SameRecords DEF Promise!Apply, Absent, Record
<1>2. CASE Promise!MarkInstalled
  BY <1>2, RecordFields, AbsentType, SameRecords DEF Promise!MarkInstalled, Record
<1>3. ASSUME NEW p \in Pkg, Promise!RunPost(p) PROVE PromiseInv'
  BY <1>3, RecordFields, AbsentType, SameRecords DEF Promise!RunPost
<1>4. CASE UNCHANGED Promise!vars
  BY <1>4 DEF Promise!vars
<1> QED
  BY <1>1, <1>2, <1>3, <1>4 DEF Promise!Next

(* A package the file calls installed is configured in that version:       *)
(* whatever keeps the promise of PkgStates.                                *)
THEOREM InstalledIsConfigured == Promise!Spec => []Promise!InstalledMeansConfigured
<1>1. Promise!Init => PromiseInv
  BY DEF Promise!Init, PromiseInv, Promise!InstalledMeansConfigured
<1>2. PromiseInv => Promise!InstalledMeansConfigured
  BY DEF PromiseInv
<1> QED
  BY <1>1, <1>2, PromiseStep, PTL DEF Promise!Spec

(* A package becomes installed only from an unpacked record of its         *)
(* version: whatever keeps the promise of PkgStates.                       *)
THEOREM NeverInstalledAtOnce == Promise!Spec => Promise!InstalledThroughUnpacked
<1>1. Promise!Init => PromiseInv
  BY DEF Promise!Init, PromiseInv, Promise!InstalledMeansConfigured
<1>2. PromiseInv /\ [Promise!Next]_(Promise!vars) =>
        [\A p \in Pkg : disk'[p].state = "installed" /\ disk[p] # disk'[p]
           => disk[p] = Promise!Record(disk'[p].ver, "unpacked")]_(Promise!vars)
  <2> SUFFICES ASSUME PromiseInv, [Promise!Next]_(Promise!vars), NEW p \in Pkg,
                      disk'[p].state = "installed", disk[p] # disk'[p]
               PROVE  disk[p] = Promise!Record(disk'[p].ver, "unpacked")
    OBVIOUS
  <2>1. CASE Promise!Apply
    BY <2>1, SameRecords DEF Promise!Apply, Absent, Record
  <2>2. CASE Promise!MarkInstalled
    <3>1. disk[p] \in MemRecord
      BY AbsentType, SameRecords DEF PromiseInv, Promise!TypeOK
    <3>2. /\ disk[p].state = "unpacked" /\ disk[p] = Record(disk[p].ver, "unpacked")
          /\ disk'[p] = Record(disk[p].ver, "installed")
      <4>1. \/ disk'[p] = disk[p]
            \/ /\ disk[p].state = "unpacked"
               /\ disk'[p] = Record(disk[p].ver, "installed")
        BY <2>2, SameRecords DEF Promise!MarkInstalled
      <4> QED BY <4>1, <3>1, RecordFields
    <3> QED BY <3>2, SameRecords DEF Record
  <2> QED
    BY <2>1, <2>2 DEF Promise!Next, Promise!RunPost, Promise!vars
<1> QED
  BY <1>1, <1>2, PromiseStep, PTL DEF Promise!Spec, Promise!InstalledThroughUnpacked

(* So it is in the file that flappy_transaction_commit and                 *)
(* flappy-reconfigure write: a package it calls installed is configured,   *)
(* and was unpacked before.                                                *)
THEOREM CommitConfigures ==
  Spec => []Promise!InstalledMeansConfigured /\ Promise!InstalledThroughUnpacked
BY KeepsPromise, InstalledIsConfigured, NeverInstalledAtOnce, PTL DEF ImplementsPkgStates

-----------------------------------------------------------------------------
(***************************************************************************)
(* What a commit leaves in the database file and in the root directory,    *)
(* for every transaction, failure and crash.  The argument follows the     *)
(* copy of the database package by package: in the main loop the packages  *)
(* before the iterator have their outcome and the others their old record, *)
(* in the configure loop those before it are installed and the others      *)
(* unpacked, and the file takes the copy only at the ends of the loops.    *)
(***************************************************************************)
(* The copy or the file d holds the outcome of the whole transaction. *)
Others(d) == \A p \in Pkg : (\A i \in DOMAIN trans : trans[i].pkg # p) => d[p] = start[p]
Whole(d, state) ==
  /\ \A i \in DOMAIN trans : d[trans[i].pkg] = StepOutcome(trans[i], state)
  /\ Others(d)

(* The payloads of the packages of the first n - 1 steps are there. *)
Brought(n) ==
  \A i \in DOMAIN trans : i < n /\ trans[i].type \in Unpacks =>
    files[trans[i].pkg] = trans[i].ver /\ meta[trans[i].pkg] = trans[i].ver

NoTransaction == pc \in {"idle", "reconf"} => trans = <<>>

(* A package to be configured was unpacked when the command began. *)
ConfigureOK ==
  \A i \in DOMAIN trans : trans[i].type = "configure" =>
    start[trans[i].pkg] = Record(trans[i].ver, "unpacked")

BeforeLoop == pc \in {"fetch", "preremove", "preinstall"} => mem = start /\ disk = start

InLoop ==
  pc \in {"run", "unpack"} =>
    /\ disk = start
    /\ Brought(idx)
    /\ Others(mem)
    /\ \A i \in DOMAIN trans :
         /\ i < idx => mem[trans[i].pkg] = StepOutcome(trans[i], "unpacked")
         /\ i > idx => mem[trans[i].pkg] = start[trans[i].pkg]
         /\ i = idx => \/ mem[trans[i].pkg] = start[trans[i].pkg]
                       \/ mem[trans[i].pkg].state = "half-removed"

AfterLoop ==
  /\ pc = "flush" => disk = start
  /\ pc \in {"postremove", "configure"} => Whole(disk, "unpacked")
  /\ pc \in {"flush", "postremove"} => Whole(mem, "unpacked")
  /\ pc \in Unpacked => Brought(Len(trans) + 1)

Configuring ==
  pc = "configure" =>
    /\ Others(mem)
    /\ \A i \in DOMAIN trans :
         mem[trans[i].pkg] = StepOutcome(trans[i], IF i < idx THEN "installed" ELSE "unpacked")

(* Only a copy that is whole gets to label out without an error. *)
Final == IF "unpack-only" \in flags THEN "unpacked" ELSE "installed"
AtOut ==
  pc = "out" =>
    /\ disk = start \/ Whole(disk, "unpacked")
    /\ rv = 0 => mem = start \/ Whole(mem, "unpacked") \/ Whole(mem, "installed")
    /\ rv = 0 /\ "download-only" \notin flags => Whole(mem, Final) /\ Brought(Len(trans) + 1)

AtDone ==
  pc = "done" /\ trans # <<>> =>
    /\ disk = start \/ Whole(disk, "unpacked") \/ (Whole(disk, "installed") /\ rv = 0)
    /\ rv = 0 /\ "download-only" \notin flags => Whole(disk, Final) /\ Brought(Len(trans) + 1)

OInv ==
  /\ NoTransaction
  /\ ConfigureOK
  /\ BeforeLoop
  /\ InLoop
  /\ AfterLoop
  /\ Configuring
  /\ AtOut
  /\ AtDone

-----------------------------------------------------------------------------
(* No transaction is loaded at the start. *)
LEMMA InitOInv == Init => OInv
<1> SUFFICES ASSUME Init PROVE OInv
  OBVIOUS
<1>1. DOMAIN trans = {} /\ trans = <<>> /\ pc = "idle"
  BY DEF Init
<1> QED
  BY <1>1 DEF OInv, NoTransaction, ConfigureOK, BeforeLoop, InLoop, AfterLoop, Configuring, AtOut,
     AtDone, Unpacked

(* The step the iterator is at, and its package, which no other step has. *)
LEMMA CurStep ==
  ASSUME IInv, idx <= Len(trans)
  PROVE  /\ idx \in DOMAIN trans /\ Cur = trans[idx] /\ Cur \in Step /\ Cur.pkg \in Pkg
         /\ \A i \in DOMAIN trans : i # idx => trans[i].pkg # Cur.pkg
<1>1. trans \in Seq(Step) /\ idx \in Nat \ {0} /\ TransOK
  BY DEF IInv, TypeOK
<1>2. idx \in DOMAIN trans /\ Cur = trans[idx] /\ Cur \in Step
  BY <1>1 DEF Cur
<1> QED
  BY <1>1, <1>2 DEF Step, TransOK

(* A step of the transaction is a step. *)
LEMMA StepsOf ==
  ASSUME IInv
  PROVE  /\ \A i \in DOMAIN trans : trans[i] \in Step /\ trans[i].pkg \in Pkg /\ i \in 1..Len(trans)
         /\ Len(trans) \in Nat /\ idx \in Nat
<1>1. trans \in Seq(Step) /\ idx \in Nat
  BY DEF IInv, TypeOK
<1>2. \A i \in DOMAIN trans : trans[i] \in Step /\ i \in 1..Len(trans)
  BY <1>1
<1> QED
  BY <1>1, <1>2 DEF Step

-----------------------------------------------------------------------------
(* A step of a commit changes neither the transaction nor what the command  *)
(* started from, so that outcomes stay what they are.                       *)
Same == UNCHANGED <<trans, start, flags>>
(* Outcomes do not change while a transaction runs.                        *)
LEMMA OutcomesStay ==
  ASSUME Same
  PROVE  /\ \A s, state : StepOutcome(s, state)' = StepOutcome(s, state)
         /\ \A state : disk' = disk => (Whole(disk, state)' <=> Whole(disk, state))
         /\ \A state : mem' = mem => (Whole(mem, state)' <=> Whole(mem, state))
         /\ \A state : disk' = mem => (Whole(disk, state)' <=> Whole(mem, state))
         /\ Final' = Final
         /\ mem' = mem => (Others(mem)' <=> Others(mem))
<1> USE DEF Same
<1>1. \A s, state : StepOutcome(s, state)' = StepOutcome(s, state)
  BY DEF StepOutcome
<1>2. \A state : disk' = disk => (Whole(disk, state)' <=> Whole(disk, state))
  BY <1>1 DEF Whole, Others
<1>3. \A state : mem' = mem => (Whole(mem, state)' <=> Whole(mem, state))
  BY <1>1 DEF Whole, Others
<1>4. \A state : disk' = mem => (Whole(disk, state)' <=> Whole(mem, state))
  BY <1>1 DEF Whole, Others
<1> QED BY <1>1, <1>2, <1>3, <1>4 DEF Final, Others

(* Payloads that nothing touches stay. *)
LEMMA BroughtStays ==
  ASSUME Same, UNCHANGED <<files, meta>>
  PROVE  \A n : Brought(n)' <=> Brought(n)
BY DEF Same, Brought

(* Every step of Commit keeps the outcome invariant. *)
LEMMA StepOInv == IInv /\ OInv /\ [Next]_vars => OInv'
<1> SUFFICES ASSUME IInv, OInv, [Next]_vars PROVE OInv'
  OBVIOUS
<1>a. ASSUME Same, pc \notin {"idle", "reconf"}, pc' \notin {"idle", "reconf"}
      PROVE  NoTransaction' /\ ConfigureOK'
  BY <1>a DEF Same, OInv, NoTransaction, ConfigureOK
<1>1. CASE Fetch
  BY <1>1, <1>a DEF OInv, Fetch, Same, BeforeLoop, InLoop, AfterLoop, Configuring, AtOut,
     AtDone, Unpacked
<1>2. CASE PreRemove \/ PreRemoveMissing \/ EarlyFail
  BY <1>2, <1>a DEF OInv, PreRemove, PreRemoveMissing, EarlyFail, Fail, Same, BeforeLoop, InLoop,
     AfterLoop, Configuring, AtOut, AtDone, Unpacked
<1>3. CASE PreInstall
  <2>1. Same /\ mem' = mem /\ disk' = disk /\ mem = start /\ disk = start /\ pc' = "run" /\ idx' = 1
    BY <1>3 DEF PreInstall, Same, OInv, BeforeLoop
  <2>2. NoTransaction' /\ ConfigureOK'
    BY <1>3, <1>a, <2>1 DEF PreInstall
  <2>3. \A i \in DOMAIN trans : i \in Nat /\ ~(i < 1)
    BY StepsOf
  <2>4. InLoop'
    BY <2>1, <2>3 DEF Same, InLoop, Brought, Others
  <2> QED
    BY <2>1, <2>2, <2>4 DEF OInv, BeforeLoop, AfterLoop, Configuring, AtOut, AtDone, Unpacked
<1>4. CASE RunSkip
  <2>1. /\ Same /\ UNCHANGED <<mem, disk, pc, files, meta>> /\ pc = "run" /\ idx' = idx + 1
        /\ idx <= Len(trans) /\ idx \in Nat
    BY <1>4, StepsOf DEF RunSkip, Skippable, AtStep, Same, rootVars
  <2>2. mem[Cur.pkg] = StepOutcome(Cur, "unpacked")
    BY <1>4, <2>1, CurStep DEF RunSkip, Skippable, AtStep, StepOutcome, OInv, InLoop, IInv,
       HalfRemovedIsCur, Unpacks
  <2>3. Brought(idx + 1)
    BY <1>4, <2>1, CurStep, StepsOf DEF RunSkip, Skippable, AtStep, Brought, OInv, InLoop, Unpacks
  <2>4. InLoop'
    BY <2>1, <2>2, <2>3, CurStep, StepsOf, OutcomesStay, BroughtStays DEF OInv, InLoop, Same
  <2> QED
    BY <2>1, <2>4, <1>a DEF OInv, BeforeLoop, AfterLoop, Configuring, AtOut, AtDone, Unpacked
<1>5. CASE RemoveFiles
  <2>1. /\ Same /\ UNCHANGED <<disk, pc, meta, idx>> /\ pc = "run"
        /\ idx <= Len(trans) /\ idx \in Nat
        /\ mem' = [mem EXCEPT ![Cur.pkg] = Record(@.ver, "half-removed")]
        /\ \A p \in Pkg : p # Cur.pkg => files'[p] = files[p]
    BY <1>5, StepsOf DEF RemoveFiles, AtStep, Same, procVars, IInv, TypeOK
  <2>2. /\ mem'[Cur.pkg].state = "half-removed"
        /\ \A p \in Pkg : p # Cur.pkg => mem'[p] = mem[p]
    BY <2>1, CurStep DEF IInv, TypeOK, Record
  <2>3. Brought(idx)'
    BY <2>1, CurStep, StepsOf DEF Brought, OInv, InLoop, Same
  <2>4. Others(mem)'
    BY <2>1, <2>2, CurStep DEF Others, OInv, InLoop, Same
  <2>5. InLoop'
    BY <2>1, <2>2, <2>3, <2>4, CurStep, StepsOf, OutcomesStay DEF OInv, InLoop, Same
  <2> QED
    BY <2>1, <2>5, <1>a DEF OInv, BeforeLoop, AfterLoop, Configuring, AtOut, AtDone, Unpacked
<1>6. CASE RemovePurge
  <2>1. /\ Same /\ UNCHANGED <<disk, pc, files>> /\ pc = "run" /\ idx <= Len(trans) /\ idx \in Nat
        /\ idx' = idx + 1 /\ Cur.type = "remove"
        /\ mem' = [mem EXCEPT ![Cur.pkg] = Absent]
        /\ \A p \in Pkg : p # Cur.pkg => meta'[p] = meta[p]
    BY <1>6, StepsOf DEF RemovePurge, AtStep, Same, IInv, TypeOK
  <2>2. /\ mem'[Cur.pkg] = StepOutcome(Cur, "unpacked")
        /\ \A p \in Pkg : p # Cur.pkg => mem'[p] = mem[p]
    BY <2>1, CurStep DEF IInv, TypeOK, StepOutcome
  <2>3. Brought(idx)'
    BY <2>1, CurStep, StepsOf DEF Brought, OInv, InLoop, Same, Unpacks
  <2>4. Others(mem)'
    BY <2>1, <2>2, CurStep DEF Others, OInv, InLoop, Same
  <2>5. InLoop'
    BY <2>1, <2>2, <2>3, <2>4, CurStep, StepsOf, OutcomesStay DEF OInv, InLoop, Same
  <2> QED
    BY <2>1, <2>5, <1>a DEF OInv, BeforeLoop, AfterLoop, Configuring, AtOut, AtDone, Unpacked
<1>7. CASE UnpackBegin
  <2>1. /\ Same /\ UNCHANGED <<disk, mem, meta, idx>> /\ pc = "run"
        /\ idx <= Len(trans) /\ idx \in Nat
        /\ pc' = "unpack"
        /\ \A p \in Pkg : p # Cur.pkg => files'[p] = files[p]
    BY <1>7, StepsOf DEF UnpackBegin, AtStep, Same, IInv, TypeOK
  <2>2. Brought(idx)'
    BY <2>1, CurStep, StepsOf DEF Brought, OInv, InLoop, Same
  <2>3. InLoop'
    BY <2>1, <2>2, OutcomesStay DEF OInv, InLoop, Same
  <2> QED
    BY <2>1, <2>3, <1>a DEF OInv, BeforeLoop, AfterLoop, Configuring, AtOut, AtDone, Unpacked
<1>8. CASE UnpackEnd
  <2>1. /\ Same /\ UNCHANGED disk /\ pc = "unpack" /\ pc' = "run" /\ idx' = idx + 1
        /\ idx <= Len(trans) /\ Cur.type \in Unpacks /\ idx \in Nat
        /\ mem' = [mem EXCEPT ![Cur.pkg] = Record(Cur.ver, "unpacked")]
        /\ files' = [files EXCEPT ![Cur.pkg] = Cur.ver]
        /\ meta' = [meta EXCEPT ![Cur.pkg] = Cur.ver]
    BY <1>8, StepsOf DEF UnpackEnd, Same, IInv, UnpackingCur
  <2>2. /\ mem'[Cur.pkg] = StepOutcome(Cur, "unpacked")
        /\ \A p \in Pkg : p # Cur.pkg => mem'[p] = mem[p]
    BY <2>1, CurStep DEF IInv, TypeOK, StepOutcome, Unpacks
  <2>3. \A p \in Pkg : IF p = Cur.pkg THEN files'[p] = Cur.ver /\ meta'[p] = Cur.ver
                       ELSE files'[p] = files[p] /\ meta'[p] = meta[p]
    BY <2>1, CurStep DEF IInv, TypeOK
  <2>4. Brought(idx)'
    BY <2>1, <2>3, CurStep, StepsOf DEF Brought, OInv, InLoop, Same
  <2>5. Others(mem)'
    BY <2>1, <2>2, CurStep DEF Others, OInv, InLoop, Same
  <2>6. InLoop'
    BY <2>1, <2>2, <2>4, <2>5, CurStep, StepsOf, OutcomesStay DEF OInv, InLoop, Same
  <2> QED
    BY <2>1, <2>6, <1>a DEF OInv, BeforeLoop, AfterLoop, Configuring, AtOut, AtDone, Unpacked
<1>9. CASE UnpackUnregistered \/ RunFail
  BY <1>9, <1>a DEF UnpackUnregistered, RunFail, Fail, AtStep, OInv, Same, BeforeLoop, InLoop,
     AfterLoop, Configuring, AtOut, AtDone, Unpacked
<1>10. CASE RunEnd
  <2>1. /\ Same /\ UNCHANGED <<disk, mem, files, meta, rv>> /\ pc = "run" /\ idx > Len(trans)
        /\ pc' = IF "unpack-only" \in flags THEN "out" ELSE "flush"
    BY <1>10 DEF RunEnd, AtEnd, Same, rootVars
  <2>2. Whole(mem, "unpacked") /\ Brought(Len(trans) + 1) /\ disk = start
    BY <2>1, StepsOf DEF OInv, InLoop, Whole, Brought
  <2>3. CASE "unpack-only" \in flags
    BY <2>1, <2>2, <2>3, <1>a, OutcomesStay, BroughtStays DEF OInv, Same, BeforeLoop, InLoop,
       AfterLoop, Configuring, AtOut, AtDone, Unpacked, Final
  <2>4. CASE "unpack-only" \notin flags
    BY <2>1, <2>2, <2>4, <1>a, OutcomesStay, BroughtStays DEF OInv, Same, BeforeLoop, InLoop,
       AfterLoop, Configuring, AtOut, AtDone, Unpacked
  <2> QED
    BY <2>3, <2>4
<1>11. CASE FlushUnpacked
  <2>1. /\ Same /\ UNCHANGED <<mem, files, meta>> /\ disk' = mem
        /\ pc = "flush" /\ pc' = "postremove"
    BY <1>11 DEF FlushUnpacked, Same, rootVars
  <2>2. Whole(mem, "unpacked") /\ Brought(Len(trans) + 1)
    BY <2>1 DEF OInv, AfterLoop, Unpacked
  <2> QED
    BY <2>1, <2>2, <1>a, OutcomesStay, BroughtStays DEF OInv, Same, BeforeLoop, InLoop,
       AfterLoop, Configuring, AtOut, AtDone, Unpacked
<1>12. CASE FlushUnpackedFail
  BY <1>12, <1>a DEF FlushUnpackedFail, Fail, OInv, Same, BeforeLoop, InLoop,
     AfterLoop, Configuring, AtOut, AtDone, Unpacked
<1>13. CASE PostRemoveSkip \/ PostRemove
  <2>1. Same /\ UNCHANGED <<disk, mem, files, meta, pc>> /\ pc = "postremove"
    BY <1>13 DEF PostRemoveSkip, PostRemove, AtStep, Same, rootVars
  <2> QED
    BY <2>1, <1>a, OutcomesStay, BroughtStays DEF OInv, Same, BeforeLoop, InLoop,
       AfterLoop, Configuring, AtOut, AtDone, Unpacked
<1>14. CASE PostRemoveFail \/ PostRemoveEnd
  <2>1. /\ Same /\ UNCHANGED <<disk, mem, files, meta>> /\ pc = "postremove"
        /\ \/ pc' = "configure" /\ idx' = 1
           \/ pc' = "out" /\ rv' = 1
    BY <1>14 DEF PostRemoveFail, PostRemoveEnd, AtStep, AtEnd, Same, rootVars
  <2>2. Whole(disk, "unpacked") /\ Whole(mem, "unpacked") /\ Brought(Len(trans) + 1)
    BY <2>1 DEF OInv, AfterLoop, Unpacked
  <2>3. \A i \in DOMAIN trans : ~(i < 1)
    BY StepsOf
  <2>4. Configuring'
    BY <2>1, <2>2, <2>3, OutcomesStay DEF Configuring, Whole, Same
  <2> QED
    BY <2>1, <2>2, <2>4, <1>a, OutcomesStay, BroughtStays DEF OInv, Same, BeforeLoop, InLoop,
       AfterLoop, AtOut, AtDone, Unpacked
<1>15. CASE ConfigureSkip
  <2>1. /\ Same /\ UNCHANGED <<disk, mem, files, meta, pc>> /\ pc = "configure" /\ idx' = idx + 1
        /\ idx <= Len(trans) /\ idx \in Nat /\ Cur.type \in {"remove", "hold"}
    BY <1>15, StepsOf DEF ConfigureSkip, AtStep, Same, rootVars
  <2>2. StepOutcome(Cur, "installed") = StepOutcome(Cur, "unpacked")
    BY <2>1 DEF StepOutcome, Unpacks
  <2>3. Configuring'
    BY <2>1, <2>2, CurStep, StepsOf, OutcomesStay DEF OInv, Configuring, Same
  <2> QED
    BY <2>1, <2>3, <1>a, OutcomesStay, BroughtStays DEF OInv, Same, BeforeLoop, InLoop,
       AfterLoop, AtOut, AtDone, Unpacked
<1>16. CASE Configure
  <2>1. /\ Same /\ UNCHANGED <<disk, files, meta, pc>> /\ pc = "configure" /\ idx' = idx + 1
        /\ idx <= Len(trans) /\ idx \in Nat /\ Cur.type \in Unpacks \cup {"configure"}
        /\ mem' = [mem EXCEPT ![Cur.pkg] = Record(@.ver, "installed")]
    BY <1>16, StepsOf DEF Configure, ConfigurePkg, AtStep, Same
  <2>2. mem[Cur.pkg] = Record(Cur.ver, "unpacked")
    BY <2>1, CurStep DEF OInv, Configuring, ConfigureOK, StepOutcome, Unpacks
  <2>3. /\ mem'[Cur.pkg] = StepOutcome(Cur, "installed")
        /\ \A p \in Pkg : p # Cur.pkg => mem'[p] = mem[p]
    BY <2>1, <2>2, CurStep DEF IInv, TypeOK, StepOutcome, Unpacks, Record
  <2>4. Others(mem)'
    BY <2>1, <2>3, CurStep DEF Others, OInv, Configuring, Same
  <2>5. Configuring'
    BY <2>1, <2>3, <2>4, CurStep, StepsOf, OutcomesStay DEF OInv, Configuring, Same
  <2> QED
    BY <2>1, <2>5, <1>a, OutcomesStay, BroughtStays DEF OInv, Same, BeforeLoop, InLoop,
       AfterLoop, AtOut, AtDone, Unpacked
<1>17. CASE ConfigureFail
  <2>1. Same /\ UNCHANGED disk /\ pc = "configure" /\ pc' = "out" /\ rv' = 1
    BY <1>17 DEF ConfigureFail, Fail, AtStep, Same
  <2> QED
    BY <2>1, <1>a, OutcomesStay DEF OInv, BeforeLoop, InLoop,
       AfterLoop, Configuring, AtOut, AtDone, Unpacked
<1>18. CASE ConfigureEnd
  <2>1. /\ Same /\ UNCHANGED <<disk, mem, files, meta>> /\ pc = "configure" /\ pc' = "out"
        /\ idx > Len(trans) /\ "unpack-only" \notin flags
    BY <1>18 DEF ConfigureEnd, AtEnd, Same, rootVars, IInv, UnpackOnlyStops, Unpacked
  <2>2. Whole(mem, "installed")
    BY <2>1, StepsOf DEF OInv, Configuring, Whole
  <2>3. Whole(disk, "unpacked") /\ Brought(Len(trans) + 1) /\ Final = "installed"
    BY <2>1 DEF OInv, AfterLoop, Unpacked, Final
  <2> QED
    BY <2>1, <2>2, <2>3, <1>a, OutcomesStay, BroughtStays DEF OInv, Same, BeforeLoop, InLoop,
       AfterLoop, Configuring, AtOut, AtDone, Unpacked
<1>19. CASE Out
  <2>1. /\ Same /\ UNCHANGED <<mem, files, meta, rv>> /\ pc = "out" /\ pc' = "done"
        /\ disk' = IF rv = 0 THEN mem ELSE disk
    BY <1>19 DEF Out, Same, rootVars
  <2>2. AtDone'
    <3>1. CASE rv = 0
      BY <2>1, <3>1, OutcomesStay, BroughtStays DEF OInv, AtOut, AtDone, Same
    <3>2. CASE rv # 0
      BY <2>1, <3>2, OutcomesStay DEF OInv, AtOut, AtDone, Same
    <3> QED
      BY <3>1, <3>2
  <2> QED
    BY <2>1, <2>2, <1>a DEF OInv, BeforeLoop, InLoop, AfterLoop, Configuring, AtOut, Unpacked
<1>20. CASE OutFail
  <2>1. Same /\ UNCHANGED disk /\ pc = "out" /\ pc' = "done" /\ rv' = 1
    BY <1>20 DEF OutFail, Same
  <2> QED
    BY <2>1, <1>a, OutcomesStay DEF OInv, Same, BeforeLoop, InLoop,
       AfterLoop, Configuring, AtOut, AtDone, Unpacked
<1>21. CASE Begin
  <2>1. /\ \A i \in DOMAIN trans' : trans'[i].type = "configure" =>
                                      disk[trans'[i].pkg] = Record(trans'[i].ver, "unpacked")
        /\ pc' = "fetch" /\ mem' = disk /\ start' = disk /\ disk' = disk
    BY <1>21, TransactionsFacts DEF Begin, IInv, TypeOK
  <2> QED
    BY <2>1 DEF OInv, NoTransaction, ConfigureOK, BeforeLoop, InLoop, AfterLoop, Configuring, AtOut,
       AtDone, Unpacked
<1>22. CASE Reconfigure \/ ReconfStep
  <2>1. trans' = trans /\ trans = <<>> /\ pc' \in {"reconf", "done"}
    BY <1>22 DEF Reconfigure, ReconfStep, ReconfSkip, ReconfPkg, ReconfFail, ReconfEnd, OInv,
       NoTransaction
  <2> QED
    BY <2>1 DEF OInv, NoTransaction, ConfigureOK, BeforeLoop, InLoop, AfterLoop, Configuring, AtOut,
       AtDone, Unpacked
<1>23. CASE End \/ Crash
  BY <1>23 DEF End, Crash, Reset, OInv, NoTransaction, ConfigureOK, BeforeLoop, InLoop, AfterLoop,
     Configuring, AtOut, AtDone, Unpacked
<1>24. CASE Idle \/ UNCHANGED vars
  <2>1. Same /\ UNCHANGED <<disk, mem, files, meta, pc, rv, idx>>
    BY <1>24 DEF Idle, Same, vars
  <2> QED
    BY <2>1, OutcomesStay, BroughtStays DEF Same, OInv, NoTransaction, ConfigureOK,
       BeforeLoop, InLoop, AfterLoop, Configuring, AtOut, AtDone, Unpacked
<1> QED
  BY <1>1, <1>2, <1>3, <1>4, <1>5, <1>6, <1>7, <1>8, <1>9, <1>10, <1>11, <1>12, <1>13, <1>14, <1>15,
     <1>16, <1>17, <1>18, <1>19, <1>20, <1>21, <1>22, <1>23, <1>24 DEF Next, CommitStep

-----------------------------------------------------------------------------
(* What the outcome invariant says of the file is what is to be shown. *)
LEMMA Outcomes == IInv /\ OInv => AllOrNothing /\ SuccessIsComplete
<1> SUFFICES ASSUME IInv, OInv PROVE AllOrNothing /\ SuccessIsComplete
  OBVIOUS
<1>1. \A state : Reached(state) <=> Whole(disk, state)
  BY DEF Reached, Whole, Others
<1>2. Len(trans) \in Nat /\ \A i \in DOMAIN trans : i < Len(trans) + 1
  BY StepsOf
<1>3. AllOrNothing
  BY <1>1 DEF AllOrNothing, OInv, NoTransaction, BeforeLoop, InLoop, AfterLoop, AtOut, AtDone,
     IInv, TypeOK, Places
<1>4. SuccessIsComplete
  BY <1>1, <1>2 DEF SuccessIsComplete, OInv, AtDone, Final, Brought
<1> QED
  BY <1>3, <1>4

(* Whatever fails, and wherever the process dies, the packages of a         *)
(* transaction move together in the database file.                          *)
THEOREM CommitAllOrNothing == Spec => []AllOrNothing
BY InitIInv, StepIInv, InitOInv, StepOInv, Outcomes, PTL DEF Spec

(* A commit that returns 0 left the records, the payloads and the metafiles *)
(* of the whole transaction on disk.                                        *)
THEOREM CommitSuccessIsComplete == Spec => []SuccessIsComplete
BY InitIInv, StepIInv, InitOInv, StepOInv, Outcomes, PTL DEF Spec
=============================================================================
