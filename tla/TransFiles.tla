----------------------------- MODULE TransFiles -----------------------------
(***************************************************************************)
(* The files of a transaction.  flappy_transaction_files                   *)
(* (lib/transaction_files.c) builds a table of all paths its packages drop *)
(* or bring and decides which of them are obsolete and which package       *)
(* removes them; flappy_remove_pkg (lib/package_remove.c) and              *)
(* unpack_archive (lib/package_unpack.c) then change the root directory,   *)
(* package by package; flappy_entry_install_conf_file                      *)
(* (lib/package_config_files.c) decides about configuration files.         *)
(*                                                                         *)
(* A path is the sequence of its names.  Contents and link targets are     *)
(* numbers.  A package lists its files, configuration files, links and all *)
(* of its directories (flappy-create walks its tree).                      *)
(***************************************************************************)
EXTENDS Integers, Sequences, FiniteSets, Functions, SequencesExt

CONSTANTS
  Pkg,         \* packages
  Path,        \* paths of the root directory
  Order,       \* all of them, longest first (the result of qsort)
  None         \* no item, no list, no package

ASSUME PathAssumption ==
  \A p \in Path : p # <<>> /\ \A k \in 1..Len(p) : SubSeq(p, 1, k) \in Path
ASSUME OrderAssumption ==
  /\ Order \in Seq(Path) /\ ToSet(Order) = Path /\ Len(Order) = Cardinality(Path)
  /\ \A j, k \in DOMAIN Order : IsStrictPrefix(Order[j], Order[k]) => k < j
ASSUME NoneAssumption ==
  /\ None \notin Pkg
  /\ None \notin [pkg : Pkg, index : Nat, type : {"file", "conf", "link", "dir"}, data : Nat,
                  preserve : BOOLEAN, removepkg : BOOLEAN]

Flag == {"force_remove", "force_unpack", "keep_config", "ignore_conflicts"}

VARIABLES
  old, new,    \* per package: the list of the installed version, of the new one
  steps,       \* the transaction: package, type and the package's preserve flag
  flags,       \* the flags given
  preserved,   \* paths the configuration preserves
  baselinks,   \* basesymlinks: links of the root directory that stay
  before,      \* the root directory before the transaction
  disk,        \* the root directory: path -> [type, data]
  saved,       \* paths with a ".new-<version>" file beside them
  table,       \* path -> [old, new], who drops and who brings it
  gone,        \* item->deleted
  obs,         \* obsolete_files: per package, in the order of removal
  idx,         \* the number of the package being collected or changed
  pos,         \* the next item of collect_obsoletes, the next obsolete file to remove
  pc           \* "collect", "obsoletes", "run", "done", "fail", "blocked"

inputs == <<old, new, steps, flags, preserved, baselinks, before>>
vars == <<old, new, steps, flags, preserved, baselinks, before, disk, saved,
          table, gone, obs, idx, pos, pc>>

Entry == [type : {"file", "conf", "link"}, data : Nat] \cup {[type |-> "dir", data |-> 0]}

(* Lists name the directories of what they name. *)
IsList(l) ==
  /\ DOMAIN l \subseteq Path
  /\ \A p \in DOMAIN l : /\ l[p] \in Entry
                         /\ \A q \in Path : IsStrictPrefix(q, p) =>
                              q \in DOMAIN l /\ l[q].type = "dir"

Files(l) == IF l = None THEN {} ELSE {p \in DOMAIN l : l[p].type # "dir"}
Listed(l, p) == l # None /\ p \in DOMAIN l

(* An entry of a list as it is unpacked. *)
OnDisk(e) == IF e.type = "conf" THEN [e EXCEPT !.type = "file"] ELSE e

Unpacks(s) == s.type \in {"install", "update"}
Empty == [p \in {} |-> None]

Step == [pkg : Pkg, type : {"install", "update", "remove"}, preserve : BOOLEAN]

(* What the inputs have in common: an update or a removal has an installed *)
(* version, an installation has none.                                      *)
Inputs ==
  /\ steps \in Seq(Step) /\ flags \subseteq Flag
  /\ \A s \in ToSet(steps) : /\ old[s.pkg] # None <=> s.type # "install"
                             /\ new[s.pkg] # None <=> Unpacks(s)
  /\ \A j, k \in DOMAIN steps : steps[j].pkg = steps[k].pkg => j = k
  /\ \A l \in {old[k] : k \in Pkg} \cup {new[k] : k \in Pkg} : l # None => IsList(l)

Start ==
  /\ disk = before
  /\ saved = {} /\ table = Empty /\ gone = {}
  /\ obs = [k \in Pkg |-> <<>>]
  /\ idx = 1 /\ pos = 1 /\ pc = "collect"

-----------------------------------------------------------------------------
(* collect_file *)

Item(p) == IF p \in DOMAIN table THEN table[p] ELSE [old |-> None, new |-> None]

Slot(s, e, removefile) ==
  [pkg |-> s.pkg, index |-> idx, type |-> e.type, data |-> e.data,
   preserve |-> removefile /\ s.preserve,
   removepkg |-> removefile /\ s.type = "remove"]

BothDirs(e, slot) == e.type = "dir" /\ slot.type = "dir"

(* A file of the new version: two packages may only bring a directory. *)
NewConflict(e, slot) ==
  slot # None /\ ~BothDirs(e, slot) /\ "ignore_conflicts" \notin flags

CollectNew(s, e, slot) == IF slot = None THEN Slot(s, e, FALSE) ELSE slot

(* A file of the installed version. *)
OldConflict(s, e, slot) ==
  slot # None /\ ~BothDirs(e, slot) /\ slot.preserve # s.preserve

(* Bug: the first package to remove a directory is recorded. *)
CollectOldFirst(s, e, slot) == IF slot = None THEN Slot(s, e, TRUE) ELSE slot

(* The last package to remove a directory is recorded, unless the          *)
(* directory is preserved.                                                 *)
CollectOld(s, e, slot) ==
  IF slot = None \/ (BothDirs(e, slot) /\ ~slot.preserve) THEN Slot(s, e, TRUE) ELSE slot

(* One package of flappy_transaction_files: its new list, then its old one.*)
Collect ==
  /\ pc = "collect" /\ idx <= Len(steps)
  /\ LET s == steps[idx]
         n == IF Unpacks(s) THEN new[s.pkg] ELSE Empty
         o == IF old[s.pkg] = None THEN Empty ELSE old[s.pkg]
     IN IF \/ \E p \in DOMAIN n : NewConflict(n[p], Item(p).new)
           \/ \E p \in DOMAIN o : OldConflict(s, o[p], Item(p).old)
        THEN pc' = "fail" /\ UNCHANGED <<table, idx>>
        ELSE /\ table' = [p \in DOMAIN table \cup DOMAIN n \cup DOMAIN o |->
                            [old |-> IF p \in DOMAIN o THEN CollectOld(s, o[p], Item(p).old)
                                     ELSE Item(p).old,
                             new |-> IF p \in DOMAIN n THEN CollectNew(s, n[p], Item(p).new)
                                     ELSE Item(p).new]]
             /\ idx' = idx + 1
             /\ UNCHANGED pc
  /\ UNCHANGED <<inputs, disk, saved, gone, obs, pos>>

CollectEnd ==
  /\ pc = "collect" /\ idx > Len(steps)
  /\ pc' = "obsoletes"
  /\ UNCHANGED <<inputs, disk, saved, table, gone, obs, idx, pos>>

-----------------------------------------------------------------------------
(* collect_obsoletes *)

Children(d, p) == {q \in DOMAIN d : IsStrictPrefix(p, q) /\ Len(q) = Len(p) + 1}
Tracked(p) == {q \in DOMAIN table : IsStrictPrefix(p, q)}

(* can_delete_directory: everything tracked below is to be deleted, and    *)
(* there are no more entries than that.                                    *)
CanDelete(p) ==
  \/ p \notin DOMAIN disk
  \/ /\ disk[p].type = "dir"
     /\ Tracked(p) \subseteq gone
     /\ Cardinality(Children(disk, p)) <= Cardinality(Tracked(p))

DirReplaced(o, n) ==
  o # None /\ n # None /\ o.type = "dir" /\ n.type \notin {"dir", "conf"}

(* The path is dropped, or comes back as something else. *)
Obsolete(o, n) ==
  IF n = None THEN ~o.preserve
  ELSE n.type # "conf" /\ o # None /\ n.type # o.type

ForceRemove == "force_remove" \in flags

(* The checks before a removal: a file with a hash is there and was not    *)
(* changed; a link of a package that is removed was not changed.           *)
Missing(p, o) == o.type \in {"file", "conf"} /\ p \notin DOMAIN disk

Intact(p, o, n) ==
  /\ o.type \in {"file", "conf"} =>
       \/ disk[p] = [type |-> "file", data |-> o.data]
       \/ o.removepkg /\ n = None /\ ForceRemove
  /\ o.type = "link" /\ o.removepkg /\ n = None /\ ~ForceRemove =>
       p \in DOMAIN disk /\ disk[p] = [type |-> "link", data |-> o.data]

(* Bug: the package that comes last removes the file. *)
RemoverLast(o, n) ==
  IF n = None THEN o.pkg ELSE IF o.index > n.index THEN o.pkg ELSE n.pkg

(* The package that removes the path: the first of the two. *)
Remover(o, n) ==
  IF n = None THEN o.pkg ELSE IF o.index > n.index THEN n.pkg ELSE o.pkg

ObsoleteItem ==
  /\ pc = "obsoletes" /\ pos <= Len(Order)
  /\ LET p == Order[pos] o == Item(p).old n == Item(p).new
         blocked == DirReplaced(o, n) /\ p \notin preserved /\ ~CanDelete(p)
         considered == /\ p \in DOMAIN table /\ p \notin preserved /\ Obsolete(o, n)
                       /\ p \notin baselinks
         removed == considered /\ ~Missing(p, o) /\ Intact(p, o, n)
     IN /\ pc' = IF blocked THEN "fail" ELSE pc
        /\ gone' = IF ~blocked /\ considered /\ (removed \/ Missing(p, o))
                     THEN gone \cup {p} ELSE gone
        /\ obs' = IF ~blocked /\ removed
                    THEN [obs EXCEPT ![Remover(o, n)] = Append(@, p)] ELSE obs
  /\ pos' = pos + 1
  /\ UNCHANGED <<inputs, disk, saved, table, idx>>

ObsoletesEnd ==
  /\ pc = "obsoletes" /\ pos > Len(Order)
  /\ pc' = "run" /\ idx' = 1 /\ pos' = 1
  /\ UNCHANGED <<inputs, disk, saved, table, gone, obs>>

-----------------------------------------------------------------------------
(* The packages one after the other *)

(* Bug: a directory is removed with everything in it. *)
RemoveTree(d, p) ==
  Restrict(d, {q \in DOMAIN d : ~IsPrefix(p, q)})

(* remove(3): not of a directory that is not empty. *)
RemovePath(d, p) ==
  IF Children(d, p) # {} THEN d ELSE Restrict(d, DOMAIN d \ {p})

(* A package with "preserve" is unpacked without removing anything. *)
Removes(s) == ~(Unpacks(s) /\ s.preserve)

(* A turn of the loop over the obsolete files of a package: the one of     *)
(* remove_pkg_files, and the one at the beginning of unpack_archive.  What *)
(* cannot be removed is reported and passed over.                          *)
RemoveObsolete ==
  /\ pc = "run" /\ idx <= Len(steps)
  /\ LET s == steps[idx]
     IN /\ Removes(s) /\ pos <= Len(obs[s.pkg])
        /\ disk' = RemovePath(disk, obs[s.pkg][pos])
  /\ pos' = pos + 1
  /\ UNCHANGED <<inputs, saved, table, gone, obs, idx, pc>>

(* The loop over the obsolete files has ended, or there is none. *)
Cleared(s) == Removes(s) => pos > Len(obs[s.pkg])

(* flappy_remove_pkg, after its files. *)
RunRemove ==
  /\ pc = "run" /\ idx <= Len(steps) /\ steps[idx].type = "remove" /\ Cleared(steps[idx])
  /\ idx' = idx + 1 /\ pos' = 1
  /\ UNCHANGED <<inputs, disk, saved, table, gone, obs, pc>>

(* Bug: a file that was changed is replaced. *)
ConfDecisionReplaces(s, p, d) ==
  IF d[p].type = "link" \/ old[s.pkg] \in {None, Empty} THEN "beside"
  ELSE IF ~(Listed(old[s.pkg], p) /\ old[s.pkg][p].type = "conf") THEN "replace"
  ELSE IF d[p].data = new[s.pkg][p].data THEN "keep"
  ELSE IF "keep_config" \in flags THEN "beside" ELSE "replace"

(* flappy_entry_install_conf_file, for a path that is there. *)
ConfDecision(s, p, d) ==
  LET l == old[s.pkg]
      orig == l[p].data cur == d[p].data bin == new[s.pkg][p].data
  IN IF d[p].type = "link" \/ l \in {None, Empty} THEN "beside"
     ELSE IF ~(Listed(l, p) /\ l[p].type = "conf") THEN "replace"
     ELSE IF cur = bin \/ orig = bin THEN "keep"
     ELSE IF orig = cur /\ "keep_config" \notin flags THEN "replace"
     ELSE "beside"

(* What unpack_archive does with one file or link of the archive, when the *)
(* root directory is d.                                                    *)
Decision(s, p, d) ==
  LET e == new[s.pkg][p]
      there == p \in DOMAIN d
  IN IF there /\ p \in preserved THEN "keep"
     ELSE IF there /\ e.type = "conf" /\ "force_unpack" \notin flags /\ d[p].type # "dir"
       THEN ConfDecision(s, p, d)
     ELSE IF there /\ Children(d, p) # {} THEN "error"
     ELSE "replace"

(* The directory after the files R of the archive are extracted, and the   *)
(* directories they are in: a file or a link in the place of a directory   *)
(* is unlinked (EXTRACT_FLAGS has ARCHIVE_EXTRACT_UNLINK).                 *)
Extracted(s, d, R) ==
  LET dirs == {q \in Path : \E p \in R : IsStrictPrefix(q, p)}
  IN [p \in DOMAIN d \cup dirs \cup R |->
        IF p \in R THEN OnDisk(new[s.pkg][p])
        ELSE IF p \in dirs THEN [type |-> "dir", data |-> 0] ELSE d[p]]

With(s, what) == {p \in Files(new[s.pkg]) : Decision(s, p, disk) = what}

(* unpack_archive, the archive after the obsolete files; an entry that     *)
(* cannot be extracted ends it, with some of the others extracted.         *)
RunUnpack ==
  /\ pc = "run" /\ idx <= Len(steps) /\ Unpacks(steps[idx]) /\ Cleared(steps[idx])
  /\ LET s == steps[idx]
     IN IF With(s, "error") = {}
        THEN /\ disk' = Extracted(s, disk, With(s, "replace"))
             /\ saved' = saved \cup With(s, "beside")
             /\ idx' = idx + 1 /\ pos' = 1
             /\ UNCHANGED pc
        ELSE /\ pc' = "blocked"
             /\ \E R \in SUBSET With(s, "replace") : disk' = Extracted(s, disk, R)
             /\ UNCHANGED <<saved, idx, pos>>
  /\ UNCHANGED <<inputs, table, gone, obs>>

RunEnd ==
  /\ pc = "run" /\ idx > Len(steps)
  /\ pc' = "done"
  /\ UNCHANGED <<inputs, disk, saved, table, gone, obs, idx, pos>>

Ended == pc \in {"done", "fail", "blocked"} /\ UNCHANGED vars

Next ==
  \/ Collect \/ CollectEnd \/ ObsoleteItem \/ ObsoletesEnd
  \/ RemoveObsolete \/ RunRemove \/ RunUnpack \/ RunEnd \/ Ended

Tree(d) ==
  /\ DOMAIN d \subseteq Path
  /\ \A p \in DOMAIN d :
       /\ d[p].type \in {"file", "link", "dir"} /\ d[p].data \in Nat
       /\ \A q \in Path : IsStrictPrefix(q, p) => q \in DOMAIN d /\ d[q].type = "dir"

Init == Inputs /\ Tree(before) /\ Start
Spec == Init /\ [][Next]_vars

-----------------------------------------------------------------------------
(* What a package lists after the transaction. *)
Final(k) ==
  IF \E s \in ToSet(steps) : s.pkg = k THEN new[k] ELSE old[k]

(* No file or link of one list is in another. *)
Exclusive(list(_)) ==
  \A k, m \in Pkg : k # m => \A p \in Files(list(k)) : ~Listed(list(m), p)

Changed == {s.pkg : s \in ToSet(steps)}

(* Files of packages outside of the transaction, and files no package      *)
(* lists, are never touched (collect_obsoletes deletes what is recorded as *)
(* dropped only), nor are the links of the root directory, which "must not *)
(* be removed", unless a new version brings something in their place.      *)
OthersUntouched ==
  \A p \in DOMAIN before :
    /\ \A k \in Changed : ~Listed(new[k], p)
    /\ p \in baselinks \/ \A k \in Changed : ~Listed(old[k], p)
    => p \in DOMAIN disk /\ disk[p] = before[p]

(* After the transaction every package that was unpacked has its files and *)
(* links, also those that moved from a package changed before or after it, *)
(* or that were something else; "not delete files after it was installed   *)
(* by another package".                                                    *)
Delivered ==
  pc = "done" /\ Exclusive(Final) =>
    \A k \in Changed : \A p \in Files(new[k]) :
      /\ p \in DOMAIN disk
      /\ \/ disk[p] = OnDisk(new[k][p])
         \/ new[k][p].type = "conf"
         \/ p \in preserved /\ p \in DOMAIN before

(* What nobody lists any more is removed unless it was changed or is to be *)
(* preserved: files and links, and directories nothing is left in.         *)
ObsoleteGone ==
  pc = "done" /\ Exclusive(LAMBDA k : old[k]) =>
    \A p \in DOMAIN disk \ (preserved \cup baselinks) : \A k \in Changed :
      /\ Listed(old[k], p)
      /\ \A m \in Pkg : ~Listed(Final(m), p)
      /\ \A s \in ToSet(steps) : Listed(old[s.pkg], p) => ~s.preserve
      => IF old[k][p].type = "dir" THEN Children(disk, p) # {}
         ELSE before[p] # OnDisk(old[k][p])

(* Without a flag to force it, a file the user has changed is kept when    *)
(* its package goes or drops it, and when a new version brings it as a     *)
(* configuration file again, however far the transaction gets.             *)
EditedKept ==
  flags \cap {"force_remove", "force_unpack"} = {} =>
    \A p \in DOMAIN before :
      /\ before[p].type = "file"
      /\ \A k \in Pkg : Listed(old[k], p) =>
           old[k][p].type \in {"file", "conf"} /\ old[k][p].data # before[p].data
      /\ \A k \in Pkg : Listed(Final(k), p) =>
           /\ Final(k)[p].type = "conf"
           /\ old[k] = None \/ (Listed(old[k], p) /\ old[k][p].type = "conf")
      => p \in DOMAIN disk /\ disk[p] = before[p]

=============================================================================
