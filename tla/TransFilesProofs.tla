-------------------------- MODULE TransFilesProofs --------------------------
(***************************************************************************)
(* What a transaction does to the root directory, for every set of         *)
(* packages and paths, every pair of lists, every set of flags and every   *)
(* change a user has made.  The argument goes through the table of paths:  *)
(* what it records of a path (Table), that it misses none (Collected),     *)
(* that obsolete_files has the paths that are dropped and unchanged, each  *)
(* with the package that Remover names (Obsoletes, AllObsolete), and       *)
(* directories after what is in them (ParentsLast).                        *)
(***************************************************************************)
EXTENDS TransFiles, TLAPS

Ob(a) == obs[steps[a].pkg]

(* No new version of the transaction lists the path. *)
Dropped(p) == \A k \in Changed : ~Listed(new[k], p)

(* All installed versions that list the path list a directory, and none of *)
(* their packages is preserved.                                            *)
OnlyDirs(p) ==
  \A a \in DOMAIN steps : Listed(old[steps[a].pkg], p) =>
    old[steps[a].pkg][p].type = "dir" /\ ~steps[a].preserve

Unpreserved(p) ==
  \A a \in DOMAIN steps : Listed(old[steps[a].pkg], p) => ~steps[a].preserve

(* The slot o of an item is what the list of its package says of p. *)
Recorded(o, list, p) ==
  /\ o.index \in DOMAIN steps /\ steps[o.index].pkg = o.pkg
  /\ Listed(list[o.pkg], p)
  /\ o.type = list[o.pkg][p].type /\ o.data = list[o.pkg][p].data

Typed ==
  /\ pc \in {"collect", "obsoletes", "run", "done", "fail", "blocked"}
  /\ idx \in Nat \ {0} /\ pos \in Nat \ {0}
  /\ obs \in [Pkg -> Seq(Path)]
  /\ DOMAIN table \subseteq Path
  /\ Inputs /\ Tree(before)

(* What the table says of a path is true. *)
Table ==
  \A p \in DOMAIN table :
    /\ table[p].old # None => /\ Recorded(table[p].old, old, p)
                              /\ table[p].old.preserve <=> steps[table[p].old.index].preserve
    /\ table[p].new # None => Recorded(table[p].new, new, p)
    /\ table[p].old # None \/ table[p].new # None

(* The lists of the first packages are in the table; the last package to   *)
(* drop a directory is recorded.                                           *)
CollectedUpTo(n) ==
  \A a \in DOMAIN steps : a < n => \A p \in Path :
    /\ Listed(old[steps[a].pkg], p) =>
         /\ p \in DOMAIN table /\ table[p].old # None
         /\ OnlyDirs(p) => a <= table[p].old.index
    /\ Listed(new[steps[a].pkg], p) => p \in DOMAIN table /\ table[p].new # None

Collected ==
  CASE pc = "collect" -> CollectedUpTo(idx)
    [] pc = "fail"    -> TRUE
    [] OTHER          -> CollectedUpTo(Len(steps) + 1)

(* Before the packages run nothing on the disk changes. *)
Untouched ==
  /\ pc = "collect" => obs = [k \in Pkg |-> <<>>] /\ pos = 1
  /\ pc \in {"collect", "obsoletes", "fail"} => disk = before

(* What obsolete_files has for a package is dropped or replaced, the       *)
(* package is the one to remove it, and a file was not changed.            *)
Obsoletes ==
  \A k \in Pkg : \A i \in DOMAIN obs[k] :
    LET p == obs[k][i] o == table[p].old
    IN /\ p \in DOMAIN table \ baselinks /\ o # None /\ k = Remover(o, table[p].new)
       /\ o.type \in {"file", "conf"} /\ ~ForceRemove =>
            before[p] = [type |-> "file", data |-> o.data]

(* The disk does not have at p what the slot o says. *)
Altered(p, o) ==
  /\ o.type # "dir"
  /\ p \notin DOMAIN before \/ before[p] # OnDisk([type |-> o.type, data |-> o.data])

(* Nothing that is dropped and unchanged is missing in obsolete_files. *)
ObsoleteUpTo(n) ==
  \A j \in DOMAIN Order : j < n =>
    LET p == Order[j] o == table[p].old
    IN /\ p \in DOMAIN table \ (preserved \cup baselinks)
       /\ Dropped(p) /\ Unpreserved(p)
       => Altered(p, o) \/ \E i \in DOMAIN obs[o.pkg] : obs[o.pkg][i] = p

AllObsolete ==
  /\ pc = "obsoletes" => ObsoleteUpTo(pos)
  /\ pc \in {"run", "done", "blocked"} => ObsoleteUpTo(Len(Order) + 1)

(* In the loop over the paths, only earlier ones are in obsolete_files. *)
Scanned ==
  pc = "obsoletes" =>
    \A k \in Pkg : \A i \in DOMAIN obs[k] :
      \E j \in DOMAIN Order : j < pos /\ obs[k][i] = Order[j]

(* A directory is removed after everything of the transaction's packages   *)
(* that is in it.                                                          *)
ParentsLast ==
  \A a, b \in DOMAIN steps : \A i \in DOMAIN Ob(a), j \in DOMAIN Ob(b) :
    /\ IsStrictPrefix(Ob(b)[j], Ob(a)[i])
    /\ Dropped(Ob(b)[j]) /\ OnlyDirs(Ob(b)[j])
    => a < b \/ (a = b /\ i < j)

(* Nothing appears at a path that nobody brings, nor below a file there. *)
NoneAdded ==
  \A p \in Path : Dropped(p) =>
    /\ p \in DOMAIN disk => p \in DOMAIN before
    /\ p \in DOMAIN before /\ before[p].type # "dir" =>
         \A q \in DOMAIN disk : ~IsStrictPrefix(p, q)

(* What was to be removed so far is gone, or is a directory that is not    *)
(* empty.                                                                  *)
RemovedUpTo(n, m) ==
  \A a \in DOMAIN steps : \A i \in DOMAIN Ob(a) :
    LET p == Ob(a)[i]
    IN /\ a < n \/ (a = n /\ i < m)
       /\ Removes(steps[a]) /\ Dropped(p)
       => /\ p \in DOMAIN before /\ before[p].type # "dir" => p \notin DOMAIN disk
          /\ OnlyDirs(p) => p \notin DOMAIN disk \/ Children(disk, p) # {}

Removed == pc \in {"run", "done"} => RemovedUpTo(idx, pos)

(* Packages unpacked so far have their files; those of the others are not  *)
(* there unless they were before.                                          *)
Arrived(k, p) ==
  /\ p \in DOMAIN disk
  /\ \/ disk[p] = OnDisk(new[k][p])
     \/ new[k][p].type = "conf"
     \/ p \in preserved /\ p \in DOMAIN before

Unpacked ==
  pc \in {"run", "done"} /\ Exclusive(Final) =>
    \A b \in DOMAIN steps : \A p \in Files(new[steps[b].pkg]) :
      /\ b < idx => Arrived(steps[b].pkg, p)
      /\ b >= idx /\ p \in DOMAIN disk => p \in DOMAIN before

Finished == pc = "done" => idx > Len(steps)

IInv ==
  /\ Typed /\ Table /\ Collected /\ Untouched
  /\ Obsoletes /\ AllObsolete /\ Scanned /\ ParentsLast
  /\ NoneAdded /\ Removed /\ Unpacked /\ Finished
  /\ OthersUntouched /\ EditedKept

-----------------------------------------------------------------------------
(* The packages of the transaction are those of its steps, which list      *)
(* their new version afterwards.                                           *)
LEMMA ChangedSteps ==
  /\ \A k : k \in Changed <=> \E a \in DOMAIN steps : steps[a].pkg = k
  /\ \A a \in DOMAIN steps : Final(steps[a].pkg) = new[steps[a].pkg]
BY DEF Changed, Final, ToSet

(* The fields of a step of the transaction. *)
LEMMA StepFields ==
  ASSUME Typed, NEW a \in DOMAIN steps
  PROVE  /\ steps[a].pkg \in Pkg /\ steps[a].type \in {"install", "update", "remove"}
         /\ steps[a].preserve \in BOOLEAN
         /\ a \in Nat /\ a >= 1 /\ a <= Len(steps)
<1>1. steps \in Seq(Step)
  BY DEF Typed, Inputs
<1>2. steps[a] \in Step /\ a \in 1..Len(steps)
  BY <1>1
<1> QED
  BY <1>2 DEF Step

(* The lists of a package of the transaction (Inputs). *)
LEMMA StepLists ==
  ASSUME Typed, NEW a \in DOMAIN steps
  PROVE  /\ old[steps[a].pkg] # None <=> steps[a].type # "install"
         /\ new[steps[a].pkg] # None <=> Unpacks(steps[a])
         /\ old[steps[a].pkg] # None => IsList(old[steps[a].pkg])
         /\ new[steps[a].pkg] # None => IsList(new[steps[a].pkg])
<1>1. steps[a] \in ToSet(steps)
  BY DEF ToSet
<1> QED
  BY <1>1, StepFields DEF Typed, Inputs

(* What is listed is a path, with one of the types of an entry. *)
LEMMA ListedEntry ==
  ASSUME Typed, NEW a \in DOMAIN steps, NEW l \in {old, new}, NEW p, Listed(l[steps[a].pkg], p)
  PROVE  /\ p \in Path
         /\ l[steps[a].pkg][p].type \in {"file", "conf", "link", "dir"}
         /\ l[steps[a].pkg][p].data \in Nat
         /\ \A q \in Path : IsStrictPrefix(q, p) =>
              Listed(l[steps[a].pkg], q) /\ l[steps[a].pkg][q].type = "dir"
<1>1. IsList(l[steps[a].pkg])
  BY StepLists DEF Listed
<1> QED
  BY <1>1 DEF IsList, Listed, Entry

(* What collect_file stores is an item. *)
LEMMA SlotIsItem ==
  ASSUME Typed, idx \in DOMAIN steps, NEW e, NEW removefile \in BOOLEAN,
         e.type \in {"file", "conf", "link", "dir"}, e.data \in Nat
  PROVE  Slot(steps[idx], e, removefile) # None
<1>1. Slot(steps[idx], e, removefile) \in
        [pkg : Pkg, index : Nat, type : {"file", "conf", "link", "dir"}, data : Nat,
         preserve : BOOLEAN, removepkg : BOOLEAN]
  BY StepFields DEF Slot
<1> QED
  BY <1>1, NoneAssumption

-----------------------------------------------------------------------------
(* The initial states satisfy the invariant. *)
LEMMA InitIInv == Init => IInv
<1> SUFFICES ASSUME Init PROVE IInv
  OBVIOUS
<1> USE DEF Init, Start
<1>1. Typed
  BY DEF Typed, Empty
<1>2. Table /\ Collected /\ Untouched /\ Finished /\ Removed /\ Unpacked /\ Scanned /\ AllObsolete
  BY <1>1, StepFields DEF Table, Collected, CollectedUpTo, Untouched, Finished, Removed, Unpacked,
     Scanned, AllObsolete, Empty
<1>3. Obsoletes /\ ParentsLast
  BY <1>1, StepFields DEF Obsoletes, ParentsLast, Ob
<1>4. NoneAdded
  BY DEF NoneAdded, Tree
<1>5. OthersUntouched /\ EditedKept
  BY DEF OthersUntouched, EditedKept
<1> QED
  BY <1>1, <1>2, <1>3, <1>4, <1>5 DEF IInv

-----------------------------------------------------------------------------
(* A package entered into the table leaves it true and complete: a slot is *)
(* filled from its list or kept, and the slot of a directory that is only  *)
(* dropped goes to the new package.                                        *)
LEMMA CollectTable ==
  ASSUME IInv, Collect, pc' = "collect"
  PROVE  Table' /\ CollectedUpTo(idx)' /\ DOMAIN table' \subseteq Path
<1> DEFINE s == steps[idx]
           n == IF Unpacks(s) THEN new[s.pkg] ELSE Empty
           o == IF old[s.pkg] = None THEN Empty ELSE old[s.pkg]
<1>a. Typed /\ Table /\ CollectedUpTo(idx) /\ idx \in DOMAIN steps
  BY DEF IInv, Typed, Inputs, Collected, Collect
<1>b. UNCHANGED inputs /\ idx' = idx + 1
  BY DEF Collect
<1>c. /\ DOMAIN table' = DOMAIN table \cup DOMAIN n \cup DOMAIN o
      /\ \A p \in DOMAIN table' :
           /\ table'[p].old = IF p \in DOMAIN o THEN CollectOld(s, o[p], Item(p).old)
                              ELSE Item(p).old
           /\ table'[p].new = IF p \in DOMAIN n THEN CollectNew(s, n[p], Item(p).new)
                              ELSE Item(p).new
  BY DEF Collect
<1>1. \A p : /\ p \in DOMAIN n <=> Listed(new[s.pkg], p)
             /\ p \in DOMAIN n => n[p] = new[s.pkg][p]
             /\ p \in DOMAIN o <=> Listed(old[s.pkg], p)
             /\ p \in DOMAIN o => o[p] = old[s.pkg][p]
  BY <1>a, StepLists DEF Listed, Empty
<1> HIDE DEF n, o
<1> DEFINE newslot(p) == Slot(s, n[p], FALSE)
           oldslot(p) == Slot(s, o[p], TRUE)
<1>2. ASSUME NEW p \in DOMAIN n
      PROVE  /\ p \in Path /\ newslot(p) # None
             /\ newslot(p).index = idx /\ newslot(p).pkg = s.pkg
             /\ newslot(p).type = new[s.pkg][p].type /\ newslot(p).data = new[s.pkg][p].data
  <2>1. p \in Path /\ n[p].type \in {"file", "conf", "link", "dir"} /\ n[p].data \in Nat
    BY <1>a, <1>1, ListedEntry
  <2> QED
    BY <2>1, <1>a, <1>1, SlotIsItem DEF Slot
<1>3. ASSUME NEW p \in DOMAIN o
      PROVE  /\ p \in Path /\ oldslot(p) # None
             /\ oldslot(p).index = idx /\ oldslot(p).pkg = s.pkg
             /\ oldslot(p).type = old[s.pkg][p].type /\ oldslot(p).data = old[s.pkg][p].data
             /\ oldslot(p).preserve <=> s.preserve
  <2>1. p \in Path /\ o[p].type \in {"file", "conf", "link", "dir"} /\ o[p].data \in Nat
    BY <1>a, <1>1, ListedEntry
  <2> QED
    BY <2>1, <1>a, <1>1, SlotIsItem DEF Slot
<1>8. \A p \in DOMAIN table' :
        /\ table'[p].old = Item(p).old \/ (p \in DOMAIN o /\ table'[p].old = oldslot(p))
        /\ /\ p \in DOMAIN o
           /\ Item(p).old = None \/ (BothDirs(o[p], Item(p).old) /\ ~Item(p).old.preserve)
           => table'[p].old = oldslot(p)
        /\ table'[p].new = Item(p).new \/ (p \in DOMAIN n /\ table'[p].new = newslot(p))
        /\ p \in DOMAIN n /\ Item(p).new = None => table'[p].new = newslot(p)
  BY <1>c DEF CollectOld, CollectNew
<1> HIDE DEF newslot, oldslot
<1>4. \A p : /\ p \in DOMAIN table => Item(p) = table[p]
             /\ p \notin DOMAIN table => Item(p).old = None /\ Item(p).new = None
  BY DEF Item
<1>5. DOMAIN table' \subseteq Path
  BY <1>a, <1>c, <1>2, <1>3 DEF Typed
<1>6. Table'
  <2> SUFFICES ASSUME NEW p \in DOMAIN table'
               PROVE  /\ table'[p].old # None =>
                           /\ Recorded(table'[p].old, old, p)
                           /\ table'[p].old.preserve <=> steps[table'[p].old.index].preserve
                      /\ table'[p].new # None => Recorded(table'[p].new, new, p)
                      /\ table'[p].old # None \/ table'[p].new # None
    BY <1>b DEF Table, Recorded, inputs
  <2>1. ASSUME table'[p].old # None
        PROVE  /\ Recorded(table'[p].old, old, p)
               /\ table'[p].old.preserve <=> steps[table'[p].old.index].preserve
    <3>1. CASE table'[p].old = Item(p).old
      BY <2>1, <3>1, <1>a, <1>4 DEF Table
    <3>2. CASE p \in DOMAIN o /\ table'[p].old = oldslot(p)
      BY <3>2, <1>a, <1>1, <1>3 DEF Recorded
    <3> QED
      BY <3>1, <3>2, <1>8
  <2>2. ASSUME table'[p].new # None
        PROVE  Recorded(table'[p].new, new, p)
    <3>1. CASE table'[p].new = Item(p).new
      BY <2>2, <3>1, <1>a, <1>4 DEF Table
    <3>2. CASE p \in DOMAIN n /\ table'[p].new = newslot(p)
      BY <3>2, <1>a, <1>1, <1>2 DEF Recorded
    <3> QED
      BY <3>1, <3>2, <1>8
  <2>3. table'[p].old # None \/ table'[p].new # None
    <3>1. CASE p \in DOMAIN table
      BY <3>1, <1>a, <1>2, <1>3, <1>4, <1>8 DEF Table
    <3>2. CASE p \notin DOMAIN table
      BY <3>2, <1>c, <1>2, <1>3, <1>4, <1>8
    <3> QED
      BY <3>1, <3>2
  <2> QED
    BY <2>1, <2>2, <2>3
<1>7. CollectedUpTo(idx)'
  <2> SUFFICES ASSUME NEW a \in DOMAIN steps, a < idx + 1, NEW p \in Path
               PROVE  /\ Listed(old[steps[a].pkg], p) =>
                           /\ p \in DOMAIN table' /\ table'[p].old # None
                           /\ OnlyDirs(p) => a <= table'[p].old.index
                      /\ Listed(new[steps[a].pkg], p) => p \in DOMAIN table' /\ table'[p].new # None
    BY <1>b DEF CollectedUpTo, OnlyDirs, inputs, Listed
  <2>1. a < idx \/ a = idx
    BY <1>a, StepFields
  <2>2. CASE a < idx
    <3>1. ASSUME Listed(old[steps[a].pkg], p)
          PROVE  /\ p \in DOMAIN table' /\ table'[p].old # None
                 /\ OnlyDirs(p) => a <= table'[p].old.index
      <4>1. p \in DOMAIN table /\ table[p].old # None /\ (OnlyDirs(p) => a <= table[p].old.index)
        BY <2>2, <3>1, <1>a DEF CollectedUpTo
      <4> QED
        BY <4>1, <2>2, <1>c, <1>3, <1>4, <1>8, <1>a, StepFields
    <3>2. ASSUME Listed(new[steps[a].pkg], p)
          PROVE  p \in DOMAIN table' /\ table'[p].new # None
      <4>1. p \in DOMAIN table /\ table[p].new # None
        BY <2>2, <3>2, <1>a DEF CollectedUpTo
      <4> QED
        BY <4>1, <1>c, <1>2, <1>4, <1>8
    <3> QED
      BY <3>1, <3>2
  <2>3. CASE a = idx
    <3>1. ASSUME Listed(old[s.pkg], p)
          PROVE  /\ p \in DOMAIN table' /\ table'[p].old # None
                 /\ OnlyDirs(p) => idx <= table'[p].old.index
      <4>1. p \in DOMAIN o /\ p \in DOMAIN table'
        BY <3>1, <1>1, <1>c DEF Listed
      <4>2. Item(p).old # None => Recorded(Item(p).old, old, p)
                                  /\ (Item(p).old.preserve <=> steps[Item(p).old.index].preserve)
        BY <1>a, <1>4 DEF Table
      <4>3. ASSUME OnlyDirs(p), Item(p).old # None
            PROVE  BothDirs(o[p], Item(p).old) /\ ~Item(p).old.preserve
        BY <4>1, <4>2, <4>3, <1>1, <1>a DEF OnlyDirs, BothDirs, Recorded
      <4> QED
        BY <4>1, <4>3, <1>3, <1>8, <1>a DEF Typed
    <3>2. ASSUME Listed(new[s.pkg], p)
          PROVE  p \in DOMAIN table' /\ table'[p].new # None
      BY <3>2, <1>1, <1>2, <1>c, <1>8
    <3> QED
      BY <2>3, <3>1, <3>2
  <2> QED
    BY <2>1, <2>2, <2>3
<1> QED
  BY <1>5, <1>6, <1>7

(* The inputs never change. *)
LEMMA TypedKept ==
  ASSUME Typed, UNCHANGED inputs,
         pc' \in {"collect", "obsoletes", "run", "done", "fail", "blocked"},
         idx' \in Nat \ {0}, pos' \in Nat \ {0}, obs' \in [Pkg -> Seq(Path)],
         DOMAIN table' \subseteq Path
  PROVE  Typed'
<1>1. Inputs'
  BY DEF Typed, inputs, Inputs, Unpacks
<1>2. Tree(before)'
  BY DEF Typed, inputs, Tree
<1> QED
  BY <1>1, <1>2 DEF Typed

(* An action that leaves the disk alone keeps what is said of it. *)
LEMMA DiskKept ==
  ASSUME IInv, UNCHANGED <<inputs, disk>>
  PROVE  NoneAdded' /\ OthersUntouched' /\ EditedKept'
<1>1. NoneAdded'
  BY DEF IInv, NoneAdded, Dropped, Changed, inputs
<1>2. OthersUntouched'
  BY DEF IInv, OthersUntouched, Changed, inputs
<1>3. EditedKept'
  BY DEF IInv, EditedKept, Final, inputs
<1> QED
  BY <1>1, <1>2, <1>3

(* An action that leaves obsolete_files and the table alone keeps what is  *)
(* said of them.                                                           *)
LEMMA ObsKept ==
  ASSUME IInv, UNCHANGED <<inputs, table, obs>>
  PROVE  /\ Table' /\ Obsoletes' /\ ParentsLast'
         /\ \A n : /\ CollectedUpTo(n) => CollectedUpTo(n)'
                   /\ ObsoleteUpTo(n) => ObsoleteUpTo(n)'
<1>1. Table' /\ Obsoletes'
  BY DEF IInv, Table, Recorded, Obsoletes, ForceRemove, inputs
<1>2. ParentsLast'
  BY DEF IInv, ParentsLast, Ob, OnlyDirs, Dropped, Changed, inputs
<1>3. ASSUME NEW n
      PROVE  /\ CollectedUpTo(n) => CollectedUpTo(n)'
             /\ ObsoleteUpTo(n) => ObsoleteUpTo(n)'
  BY DEF CollectedUpTo, OnlyDirs, ObsoleteUpTo, Altered, Dropped, Unpreserved, Changed, inputs
<1> QED
  BY <1>1, <1>2, <1>3

(* Entering the lists of a package into the table keeps the invariant. *)
LEMMA CollectIInv == IInv /\ Collect => IInv'
<1> SUFFICES ASSUME IInv, Collect PROVE IInv'
  OBVIOUS
<1>1. pc' \in {"collect", "fail"} /\ pc = "collect" /\ idx' \in {idx, idx + 1}
  BY DEF Collect
<1>2. UNCHANGED <<inputs, disk, saved, gone, obs, pos>> /\ (pc' = "fail" => table' = table)
  BY DEF Collect
<1>3. Table' /\ DOMAIN table' \subseteq Path /\ (pc' = "collect" => CollectedUpTo(idx)')
  BY <1>1, <1>2, CollectTable, ObsKept DEF IInv, Typed
<1>4. Typed'
  BY <1>1, <1>2, <1>3, TypedKept DEF IInv, Typed
<1>5. \A k \in Pkg : obs'[k] = <<>>
  BY <1>1, <1>2 DEF IInv, Untouched
<1>6. Obsoletes' /\ ParentsLast'
  <2>1. \A a \in DOMAIN steps' : Ob(a)' = <<>>
    BY <1>4, <1>5, StepFields, <1>2 DEF Ob, inputs, IInv
  <2> QED
    BY <2>1, <1>5 DEF Obsoletes, ParentsLast
<1>7. Collected' /\ Untouched' /\ AllObsolete' /\ Scanned' /\ Removed' /\ Unpacked' /\ Finished'
  BY <1>1, <1>2, <1>3 DEF IInv, Collected, Untouched, AllObsolete, Scanned, Removed, Unpacked,
     Finished, inputs
<1> QED
  BY <1>2, <1>3, <1>4, <1>6, <1>7, DiskKept DEF IInv

(* The table is complete when the loop over the packages ends. *)
LEMMA CollectEndIInv == IInv /\ CollectEnd => IInv'
<1> SUFFICES ASSUME IInv, CollectEnd PROVE IInv'
  OBVIOUS
<1>1. pc' = "obsoletes" /\ pc = "collect" /\ idx > Len(steps) /\ pos = 1
  BY DEF CollectEnd, IInv, Untouched
<1>2. UNCHANGED <<inputs, disk, saved, table, gone, obs, idx, pos>>
  BY DEF CollectEnd
<1>3. Typed'
  BY <1>1, <1>2, TypedKept DEF IInv, Typed
<1>4. CollectedUpTo(Len(steps) + 1)
  <2>1. CollectedUpTo(idx)
    BY <1>1 DEF IInv, Collected
  <2>2. \A a \in DOMAIN steps : a < idx
    BY <1>1, StepFields DEF IInv, Typed
  <2> QED
    BY <2>1, <2>2 DEF CollectedUpTo
<1>5. Collected' /\ Untouched' /\ Removed' /\ Unpacked' /\ Finished'
  BY <1>1, <1>2, <1>4, ObsKept DEF IInv, Collected, Untouched, Removed, Unpacked, Finished, inputs
<1>6. \A k \in Pkg : obs'[k] = <<>>
  BY <1>1, <1>2 DEF IInv, Untouched
<1>7. AllObsolete' /\ Scanned'
  BY <1>1, <1>2, <1>6, OrderAssumption DEF AllObsolete, ObsoleteUpTo, Scanned
<1> QED
  BY <1>2, <1>3, <1>5, <1>7, DiskKept, ObsKept DEF IInv

(* obsolete_files is complete when the loop over the paths ends. *)
LEMMA ObsoletesEndIInv == IInv /\ ObsoletesEnd => IInv'
<1> SUFFICES ASSUME IInv, ObsoletesEnd PROVE IInv'
  OBVIOUS
<1>1. pc' = "run" /\ pc = "obsoletes" /\ pos > Len(Order) /\ idx' = 1 /\ pos' = 1
  BY DEF ObsoletesEnd
<1>2. UNCHANGED <<inputs, disk, saved, table, gone, obs>>
  BY DEF ObsoletesEnd
<1>3. Typed'
  BY <1>1, <1>2, TypedKept DEF IInv, Typed
<1>4. ObsoleteUpTo(Len(Order) + 1)
  BY <1>1, OrderAssumption DEF IInv, Typed, AllObsolete, ObsoleteUpTo
<1>5. Collected' /\ Untouched' /\ AllObsolete' /\ Scanned' /\ Finished'
  BY <1>1, <1>2, <1>4, ObsKept DEF IInv, Collected, Untouched, AllObsolete, Scanned, Finished,
     inputs
<1>6. Removed'
  <2>1. \A a \in DOMAIN steps' : a \in Nat \ {0} /\ \A i \in DOMAIN Ob(a)' : i \in Nat \ {0}
    BY <1>2, StepFields DEF IInv, Typed, Ob, inputs
  <2> QED
    BY <1>1, <2>1 DEF Removed, RemovedUpTo
<1>7. Unpacked'
  <2>1. disk' = before'
    BY <1>1, <1>2 DEF IInv, Untouched, inputs
  <2> QED
    BY <2>1, <1>1, <1>2, StepFields DEF Unpacked, IInv, inputs
<1> QED
  BY <1>2, <1>3, <1>5, <1>6, <1>7, DiskKept, ObsKept DEF IInv

-----------------------------------------------------------------------------
(* The packages run *)

(* When the obsolete files of a package are done with, or it has none to   *)
(* remove, what was to be removed so far includes all of them.             *)
LEMMA RemovedStep ==
  ASSUME IInv, idx \in DOMAIN steps, Cleared(steps[idx]), pc = "run"
  PROVE  RemovedUpTo(idx + 1, 1)
<1> SUFFICES ASSUME NEW a \in DOMAIN steps, NEW i \in DOMAIN Ob(a),
                    a < idx + 1 \/ (a = idx + 1 /\ i < 1), Removes(steps[a])
             PROVE  a < idx \/ (a = idx /\ i < pos)
  BY DEF IInv, Removed, RemovedUpTo
<1>1. Ob(a) \in Seq(Path) /\ i \in Nat /\ i >= 1 /\ i <= Len(Ob(a))
  BY StepFields DEF IInv, Typed, Ob
<1>2. CASE a = idx
  BY <1>1, <1>2 DEF Cleared, Ob, IInv, Typed
<1>3. CASE a # idx
  BY <1>1, <1>3, StepFields DEF IInv, Typed
<1> QED
  BY <1>2, <1>3

(* The end of a removal keeps the invariant. *)
LEMMA RunRemoveIInv == IInv /\ RunRemove => IInv'
<1> SUFFICES ASSUME IInv, RunRemove PROVE IInv'
  OBVIOUS
<1> DEFINE s == steps[idx]
<1>1. /\ pc' = "run" /\ pc = "run" /\ idx \in DOMAIN steps /\ s.type = "remove"
      /\ Cleared(s) /\ idx' = idx + 1 /\ pos' = 1
  BY DEF RunRemove, IInv, Typed, Inputs
<1>2. UNCHANGED <<inputs, disk, saved, table, gone, obs>>
  BY DEF RunRemove
<1>3. Typed'
  BY <1>1, <1>2, TypedKept DEF IInv, Typed
<1>4. Collected' /\ Untouched' /\ AllObsolete' /\ Scanned' /\ Finished'
  BY <1>1, <1>2, ObsKept DEF IInv, Collected, Untouched, AllObsolete, Scanned, Finished, inputs
<1>5. Removed'
  <2>1. RemovedUpTo(idx + 1, 1)
    BY <1>1, RemovedStep
  <2> QED
    BY <2>1, <1>1, <1>2 DEF Removed, RemovedUpTo, Ob, Dropped, OnlyDirs, Changed, inputs
<1>6. Unpacked'
  <2>1. Files(new[s.pkg]) = {}
    BY <1>1, StepLists DEF IInv, Files, Unpacks
  <2>2. \A b \in DOMAIN steps : b < idx + 1 => b < idx \/ b = idx
    BY StepFields DEF IInv, Typed
  <2>3. \A b \in DOMAIN steps : b >= idx + 1 => b >= idx
    BY StepFields DEF IInv, Typed
  <2> QED
    BY <2>1, <2>2, <2>3, <1>1, <1>2 DEF IInv, Unpacked, Exclusive, Final, Arrived, inputs
<1> QED
  BY <1>2, <1>3, <1>4, <1>5, <1>6, DiskKept, ObsKept DEF IInv

(* The end of the transaction keeps the invariant. *)
LEMMA RunEndIInv == IInv /\ RunEnd => IInv'
<1> SUFFICES ASSUME IInv, RunEnd PROVE IInv'
  OBVIOUS
<1>1. pc' = "done" /\ pc = "run" /\ idx > Len(steps)
  BY DEF RunEnd
<1>2. UNCHANGED <<inputs, disk, saved, table, gone, obs, idx, pos>>
  BY DEF RunEnd
<1>3. Typed'
  BY <1>1, <1>2, TypedKept DEF IInv, Typed
<1>4. Collected' /\ Untouched' /\ AllObsolete' /\ Scanned' /\ Finished'
  BY <1>1, <1>2, ObsKept DEF IInv, Collected, Untouched, AllObsolete, Scanned, Finished, inputs
<1>5. Removed'
  BY <1>1, <1>2 DEF IInv, Removed, RemovedUpTo, Ob, Dropped, OnlyDirs, Changed, inputs
<1>6. Unpacked'
  BY <1>1, <1>2 DEF IInv, Unpacked, Exclusive, Final, Arrived, inputs
<1> QED
  BY <1>2, <1>3, <1>4, <1>5, <1>6, DiskKept, ObsKept DEF IInv

-----------------------------------------------------------------------------
(* collect_obsoletes *)

(* Steps are told apart by their packages. *)
LEMMA StepOfPkg ==
  ASSUME Typed, NEW a \in DOMAIN steps, NEW b \in DOMAIN steps, steps[a].pkg = steps[b].pkg
  PROVE  a = b
BY DEF Typed, Inputs

(* The package that removes a path is in the transaction, and not after    *)
(* the one that drops it nor after the one that brings it.                 *)
LEMMA RemoverFirst ==
  ASSUME Typed, Table, NEW p \in DOMAIN table, table[p].old # None
  PROVE  /\ Remover(table[p].old, table[p].new) \in Pkg
         /\ \A a \in DOMAIN steps : steps[a].pkg = Remover(table[p].old, table[p].new) =>
              /\ a <= table[p].old.index
              /\ table[p].new # None => a <= table[p].new.index
              /\ table[p].new = None => a = table[p].old.index
<1> DEFINE o == table[p].old
           n == table[p].new
<1>1. o.index \in DOMAIN steps /\ steps[o.index].pkg = o.pkg
  BY DEF Table, Recorded
<1>2. n # None => n.index \in DOMAIN steps /\ steps[n.index].pkg = n.pkg
  BY DEF Table, Recorded
<1>3. o.index \in Nat /\ (n # None => n.index \in Nat)
  BY <1>1, <1>2, StepFields
<1> HIDE DEF o, n
<1>4. Remover(o, n) \in Pkg
  BY <1>1, <1>2, StepFields DEF Remover
<1>5. ASSUME NEW a \in DOMAIN steps, steps[a].pkg = Remover(o, n)
      PROVE  /\ a <= o.index
             /\ n # None => a <= n.index
             /\ n = None => a = o.index
  <2>1. CASE n = None
    BY <2>1, <1>1, <1>3, <1>5, StepOfPkg DEF Remover
  <2>2. CASE n # None /\ o.index > n.index
    BY <2>2, <1>1, <1>2, <1>3, <1>5, StepOfPkg DEF Remover
  <2>3. CASE n # None /\ ~(o.index > n.index)
    BY <2>3, <1>1, <1>2, <1>3, <1>5, StepOfPkg DEF Remover
  <2> QED
    BY <2>1, <2>2, <2>3
<1> QED
  BY <1>4, <1>5 DEF o, n

(* A path nobody brings has no slot for a new file. *)
LEMMA DroppedHasNoNew ==
  ASSUME Typed, Table, NEW p \in DOMAIN table, Dropped(p)
  PROVE  table[p].new = None /\ table[p].old # None
<1>1. table[p].new = None
  <2> SUFFICES ASSUME table[p].new # None PROVE FALSE
    OBVIOUS
  <2>1. Recorded(table[p].new, new, p)
    BY DEF Table
  <2> QED
    BY <2>1, ChangedSteps DEF Recorded, Dropped
<1> QED
  BY <1>1 DEF Table

(* A path put into obsolete_files is appended to the list of its remover,  *)
(* and was checked.                                                        *)
LEMMA ObsoleteAppended ==
  ASSUME IInv, ObsoleteItem, obs' # obs
  PROVE  LET p == Order[pos] o == table[p].old n == table[p].new r == Remover(o, n)
         IN /\ p \in DOMAIN table \ baselinks /\ o # None /\ r \in Pkg
            /\ o.type \in {"file", "conf"} /\ ~ForceRemove =>
                 before[p] = [type |-> "file", data |-> o.data]
            /\ obs' = [obs EXCEPT ![r] = Append(@, p)]
<1> DEFINE p == Order[pos]
           o == table[p].old
           n == table[p].new
<1>1. /\ p \in DOMAIN table \ baselinks /\ Item(p) = table[p]
      /\ Obsolete(o, n) /\ Intact(p, o, n)
      /\ obs' = [obs EXCEPT ![Remover(o, n)] = Append(@, p)]
  BY DEF ObsoleteItem, Item
<1>2. disk = before
  BY DEF ObsoleteItem, IInv, Untouched
<1>3. o # None
  BY <1>1 DEF Obsolete, IInv, Table
<1>4. o.type \in {"file", "conf"} /\ ~ForceRemove =>
        before[p] = [type |-> "file", data |-> o.data]
  BY <1>1, <1>2 DEF Intact
<1> QED
  BY <1>1, <1>3, <1>4, RemoverFirst DEF IInv

(* The path of this turn. *)
This == Order[pos]

(* In a turn of the loop a package keeps the entries it has, and a new     *)
(* entry is the path of the turn, at the end of the list of its remover.   *)
LEMMA ObsoleteEntries ==
  ASSUME IInv, ObsoleteItem
  PROVE  /\ obs' \in [Pkg -> Seq(Path)]
         /\ \A k \in Pkg : \A i \in DOMAIN obs[k] : i \in DOMAIN obs'[k] /\ obs'[k][i] = obs[k][i]
         /\ \A k \in Pkg : \A i \in DOMAIN obs'[k] :
              \/ i \in DOMAIN obs[k] /\ obs'[k][i] = obs[k][i]
              \/ /\ obs'[k][i] = This /\ \A j \in DOMAIN obs[k] : j < i
                 /\ This \in DOMAIN table \ baselinks /\ table[This].old # None
                 /\ k = Remover(table[This].old, table[This].new)
                 /\ table[This].old.type \in {"file", "conf"} /\ ~ForceRemove =>
                      before[This] = [type |-> "file", data |-> table[This].old.data]
<1>1. obs \in [Pkg -> Seq(Path)] /\ This \in Path
  BY OrderAssumption DEF IInv, Typed, ObsoleteItem, This
<1>2. CASE obs' = obs
  BY <1>1, <1>2
<1>3. CASE obs' # obs
  <2> DEFINE r == Remover(table[This].old, table[This].new)
  <2>1. /\ This \in DOMAIN table \ baselinks /\ table[This].old # None /\ r \in Pkg
        /\ table[This].old.type \in {"file", "conf"} /\ ~ForceRemove =>
             before[This] = [type |-> "file", data |-> table[This].old.data]
        /\ obs' = [obs EXCEPT ![r] = Append(@, This)]
    BY <1>3, ObsoleteAppended DEF This
  <2> HIDE DEF r
  <2>2. \A k \in Pkg : k # r => obs'[k] = obs[k]
    BY <2>1, <1>1
  <2>3. obs'[r] = Append(obs[r], This) /\ obs[r] \in Seq(Path) /\ r \in Pkg
    BY <2>1, <1>1
  <2>4. /\ obs'[r] \in Seq(Path)
        /\ \A i \in DOMAIN obs[r] : i \in DOMAIN obs'[r] /\ obs'[r][i] = obs[r][i]
        /\ \A i \in DOMAIN obs'[r] :
              \/ i \in DOMAIN obs[r] /\ obs'[r][i] = obs[r][i]
              \/ obs'[r][i] = This /\ \A j \in DOMAIN obs[r] : j < i
    BY <2>3, <1>1
  <2>5. obs' \in [Pkg -> Seq(Path)]
    BY <2>1, <2>2, <2>4, <1>1
  <2> QED
    BY <2>1, <2>2, <2>4, <2>5 DEF r
<1> QED
  BY <1>2, <1>3

(* The loop over the paths misses none that is dropped and unchanged. *)
LEMMA ObsoleteItemComplete ==
  ASSUME IInv, ObsoleteItem, pc' = "obsoletes"
  PROVE  ObsoleteUpTo(pos)'
<1>1. /\ disk = before /\ ObsoleteUpTo(pos) /\ pos' = pos + 1 /\ pos \in DOMAIN Order
      /\ UNCHANGED <<inputs, table>>
  BY OrderAssumption DEF ObsoleteItem, IInv, Untouched, AllObsolete, Typed
<1> SUFFICES ASSUME NEW j \in DOMAIN Order, j < pos + 1,
                    Order[j] \in DOMAIN table \ (preserved \cup baselinks),
                    Dropped(Order[j]), Unpreserved(Order[j])
             PROVE  LET o == table[Order[j]].old
                    IN \/ Altered(Order[j], o)
                       \/ \E i \in DOMAIN obs'[o.pkg] : obs'[o.pkg][i] = Order[j]
  BY <1>1 DEF ObsoleteUpTo, Altered, Dropped, Unpreserved, Changed, inputs
<1> DEFINE p == Order[j]
           o == table[p].old
<1>2. table[p].new = None /\ o # None /\ Recorded(o, old, p)
  BY DroppedHasNoNew DEF IInv, Table
<1>3. o.pkg \in Pkg
  BY <1>2, StepFields DEF Recorded, IInv
<1>4. CASE j # pos
  <2>1. j < pos
    BY <1>1, <1>4, OrderAssumption DEF IInv, Typed
  <2> QED
    BY <2>1, <1>1, <1>3, ObsoleteEntries DEF ObsoleteUpTo
<1>5. CASE j = pos /\ ~Altered(p, o)
  <2>1. ~o.preserve
    BY <1>2 DEF Recorded, Unpreserved, IInv, Table
  <2>2. Item(p) = table[p]
    BY DEF Item
  <2>3. ~Missing(p, o) /\ Intact(p, o, None)
    BY <1>1, <1>5 DEF Altered, Missing, Intact, OnDisk
  <2>4. Obsolete(o, None) /\ ~DirReplaced(o, None)
    BY <2>1 DEF Obsolete, DirReplaced
  <2>5. obs' = [obs EXCEPT ![Remover(o, None)] = Append(@, p)]
    BY <1>2, <1>5, <2>2, <2>3, <2>4 DEF ObsoleteItem
  <2>6. Remover(o, None) = o.pkg
    BY DEF Remover
  <2>7. obs[o.pkg] \in Seq(Path) /\ obs'[o.pkg] = Append(obs[o.pkg], p)
    BY <2>5, <2>6, <1>3 DEF IInv, Typed
  <2> HIDE DEF p, o
  <2>8. \E i \in DOMAIN obs'[o.pkg] : obs'[o.pkg][i] = p
    BY <2>7
  <2> QED
    BY <2>8 DEF p, o
<1> QED
  BY <1>4, <1>5

(* The path of the turn comes after what is below it in obsolete_files:    *)
(* those paths come earlier in the order of the loop, and packages that    *)
(* drop one of them drop the directory too, of which the last is its       *)
(* remover.                                                                *)
LEMMA ObsoleteItemParents ==
  ASSUME IInv, ObsoleteItem
  PROVE  ParentsLast'
<1>1. /\ pc = "obsoletes" /\ pos \in DOMAIN Order /\ UNCHANGED <<inputs, table>>
      /\ Typed /\ Table /\ CollectedUpTo(Len(steps) + 1)
  BY OrderAssumption DEF ObsoleteItem, IInv, Typed, Collected
<1> SUFFICES ASSUME NEW a \in DOMAIN steps, NEW b \in DOMAIN steps,
                    NEW i \in DOMAIN obs'[steps[a].pkg], NEW j \in DOMAIN obs'[steps[b].pkg],
                    IsStrictPrefix(obs'[steps[b].pkg][j], obs'[steps[a].pkg][i]),
                    Dropped(obs'[steps[b].pkg][j]), OnlyDirs(obs'[steps[b].pkg][j])
             PROVE  a < b \/ (a = b /\ i < j)
  BY <1>1 DEF ParentsLast, Ob, Dropped, OnlyDirs, Changed, inputs
<1> DEFINE k == steps[a].pkg
           m == steps[b].pkg
<1>2. k \in Pkg /\ m \in Pkg /\ a \in Nat /\ b \in Nat
  BY <1>1, StepFields
<1>3. CASE i \in DOMAIN obs[k] /\ j \in DOMAIN obs[m]
  <2>1. obs'[k][i] = obs[k][i] /\ obs'[m][j] = obs[m][j]
    BY <1>2, <1>3, ObsoleteEntries
  <2>2. /\ IsStrictPrefix(obs[m][j], obs[k][i])
        /\ Dropped(obs[m][j]) /\ OnlyDirs(obs[m][j])
    BY <2>1
  <2> QED
    BY <2>2, <1>3 DEF IInv, ParentsLast, Ob
<1>4. CASE j \notin DOMAIN obs[m] /\ i \in DOMAIN obs[k]
  <2> DEFINE q == obs[k][i]
  <2>1. /\ obs'[m][j] = This /\ This \in DOMAIN table /\ table[This].old # None
        /\ m = Remover(table[This].old, table[This].new)
        /\ \A h \in DOMAIN obs[m] : h < j
    BY <1>2, <1>4, ObsoleteEntries
  <2>2. obs'[k][i] = q
    BY <1>2, <1>4, ObsoleteEntries
  <2>3. IsStrictPrefix(This, q) /\ Dropped(This) /\ OnlyDirs(This)
    BY <2>1, <2>2
  <2>4. q \in DOMAIN table /\ table[q].old # None /\ k = Remover(table[q].old, table[q].new)
    BY <1>2, <1>4 DEF IInv, Obsoletes
  <2>5. Recorded(table[q].old, old, q) /\ a <= table[q].old.index
    BY <1>1, <2>4, RemoverFirst DEF Table
  <2> DEFINE c == table[q].old.index
  <2>6. c \in DOMAIN steps /\ Listed(old[steps[c].pkg], q)
    BY <2>5 DEF Recorded
  <2>7. This \in Path
    BY <1>1, <2>1 DEF Typed
  <2>8. Listed(old[steps[c].pkg], This)
    BY <1>1, <2>3, <2>6, <2>7, ListedEntry
  <2>9. c <= table[This].old.index
    <3>1. c \in Nat /\ c <= Len(steps)
      BY <1>1, <2>6, StepFields
    <3>2. Len(steps) \in Nat
      BY <1>1 DEF Typed, Inputs
    <3> HIDE DEF c
    <3>3. c < Len(steps) + 1
      BY <3>1, <3>2
    <3> QED
      BY <3>3, <1>1, <2>3, <2>6, <2>7, <2>8 DEF CollectedUpTo
  <2>10. b = table[This].old.index
    BY <1>1, <2>1, <2>3, DroppedHasNoNew, RemoverFirst
  <2>11. c \in Nat
    BY <1>1, <2>6, StepFields
  <2>12. a <= b
    <3>1. a <= c /\ c <= b
      BY <2>5, <2>9, <2>10
    <3> HIDE DEF c
    <3> QED
      BY <3>1, <2>11, <1>2
  <2>13. CASE a = b
    BY <2>13, <2>1, <1>4
  <2> QED
    BY <2>12, <2>13, <1>2
<1>5. CASE i \notin DOMAIN obs[k]
  <2>1. obs'[k][i] = Order[pos]
    BY <1>2, <1>5, ObsoleteEntries DEF This
  <2>2. \E h \in DOMAIN Order : h <= pos /\ obs'[m][j] = Order[h]
    <3>1. CASE j \in DOMAIN obs[m]
      <4>1. PICK h \in DOMAIN Order : h < pos /\ obs[m][j] = Order[h]
        BY <1>1, <1>2, <3>1 DEF IInv, Scanned
      <4> QED
        BY <4>1, <1>2, <3>1, ObsoleteEntries, <1>1, OrderAssumption
    <3>2. CASE j \notin DOMAIN obs[m]
      BY <1>1, <1>2, <3>2, ObsoleteEntries, OrderAssumption DEF This
    <3> QED
      BY <3>1, <3>2
  <2>3. PICK h \in DOMAIN Order : h <= pos /\ obs'[m][j] = Order[h]
    BY <2>2
  <2>4. IsStrictPrefix(Order[h], Order[pos])
    BY <2>1, <2>3
  <2>5. pos < h
    BY <2>4, <1>1, OrderAssumption
  <2> QED
    BY <2>3, <2>5, <1>1, OrderAssumption
<1> QED
  BY <1>3, <1>4, <1>5

(* A turn of the loop over the paths keeps the invariant. *)
LEMMA ObsoleteItemIInv == IInv /\ ObsoleteItem => IInv'
<1> SUFFICES ASSUME IInv, ObsoleteItem PROVE IInv'
  OBVIOUS
<1>1. /\ pc = "obsoletes" /\ pc' \in {"obsoletes", "fail"} /\ pos' = pos + 1
      /\ UNCHANGED <<inputs, disk, saved, table, idx>> /\ pos \in DOMAIN Order
  BY OrderAssumption DEF ObsoleteItem, IInv, Typed
<1>2. Typed'
  BY <1>1, ObsoleteEntries, TypedKept DEF IInv, Typed
<1>3. Table'
  BY <1>1 DEF IInv, Table, Recorded, inputs
<1>4. Collected'
  <2>1. CollectedUpTo(Len(steps) + 1)
    BY <1>1 DEF IInv, Collected
  <2>2. CollectedUpTo(Len(steps) + 1)'
    BY <2>1, <1>1 DEF CollectedUpTo, OnlyDirs, inputs
  <2> QED
    BY <2>2, <1>1 DEF Collected
<1>5. Untouched' /\ Removed' /\ Unpacked' /\ Finished'
  BY <1>1 DEF IInv, Untouched, Removed, Unpacked, Finished, inputs
<1>6. Obsoletes'
  <2> SUFFICES ASSUME NEW k \in Pkg, NEW i \in DOMAIN obs'[k]
               PROVE  LET p == obs'[k][i] o == table[p].old
                      IN /\ p \in DOMAIN table \ baselinks /\ o # None
                         /\ k = Remover(o, table[p].new)
                         /\ o.type \in {"file", "conf"} /\ ~ForceRemove =>
                              before[p] = [type |-> "file", data |-> o.data]
    BY <1>1 DEF Obsoletes, ForceRemove, inputs
  <2>1. CASE i \in DOMAIN obs[k] /\ obs'[k][i] = obs[k][i]
    BY <2>1 DEF IInv, Obsoletes
  <2>2. CASE ~(i \in DOMAIN obs[k] /\ obs'[k][i] = obs[k][i])
    BY <2>2, ObsoleteEntries
  <2> QED
    BY <2>1, <2>2
<1>7. AllObsolete'
  BY <1>1, ObsoleteItemComplete DEF AllObsolete
<1>8. Scanned'
  <2> SUFFICES ASSUME NEW k \in Pkg, NEW i \in DOMAIN obs'[k]
               PROVE  \E j \in DOMAIN Order : j < pos + 1 /\ obs'[k][i] = Order[j]
    BY <1>1 DEF Scanned
  <2>1. CASE i \in DOMAIN obs[k] /\ obs'[k][i] = obs[k][i]
    <3>1. PICK j \in DOMAIN Order : j < pos /\ obs[k][i] = Order[j]
      BY <1>1, <2>1 DEF IInv, Scanned
    <3> QED
      BY <3>1, <2>1, <1>1, OrderAssumption
  <2>2. CASE ~(i \in DOMAIN obs[k] /\ obs'[k][i] = obs[k][i])
    BY <2>2, <1>1, ObsoleteEntries, OrderAssumption DEF This
  <2> QED
    BY <2>1, <2>2
<1> QED
  BY <1>1, <1>2, <1>3, <1>4, <1>5, <1>6, <1>7, <1>8, ObsoleteItemParents, DiskKept DEF IInv

-----------------------------------------------------------------------------
(* A turn of the loop over obsolete files *)

(* No file of one new version is listed by another. *)
LEMMA ExclusiveNew ==
  ASSUME Typed, Exclusive(Final), NEW a \in DOMAIN steps, NEW b \in DOMAIN steps,
         NEW p \in Files(new[steps[a].pkg]), Listed(new[steps[b].pkg], p)
  PROVE  a = b
<1>1. /\ Final(steps[a].pkg) = new[steps[a].pkg] /\ Final(steps[b].pkg) = new[steps[b].pkg]
      /\ steps[a].pkg \in Pkg /\ steps[b].pkg \in Pkg
  BY ChangedSteps, StepFields
<1>2. steps[a].pkg = steps[b].pkg
  BY <1>1 DEF Exclusive
<1> QED
  BY <1>2, StepOfPkg

(* A package does not remove what an earlier one has brought: "not delete  *)
(* files after it was installed by another package".                       *)
LEMMA OwnFilesStay ==
  ASSUME IInv, pc = "run", Exclusive(Final), NEW a \in DOMAIN steps, NEW i \in DOMAIN Ob(a),
         NEW b \in DOMAIN steps, Ob(a)[i] \in Files(new[steps[b].pkg])
  PROVE  a <= b
<1> DEFINE p == Ob(a)[i]
<1>1. p \in DOMAIN table /\ table[p].old # None
      /\ steps[a].pkg = Remover(table[p].old, table[p].new)
  BY StepFields DEF IInv, Obsoletes, Ob
<1>2. Listed(new[steps[b].pkg], p)
  BY DEF Files, Listed
<1>3. table[p].new # None
  <2>1. b < Len(steps) + 1
    BY StepFields DEF IInv, Typed, Inputs
  <2>2. p \in Path
    BY <1>1 DEF IInv, Typed
  <2> QED
    BY <1>2, <2>1, <2>2 DEF IInv, Collected, CollectedUpTo
<1>4. Recorded(table[p].new, new, p)
  BY <1>1, <1>3 DEF IInv, Table
<1>5. table[p].new.index = b
  BY <1>4, ExclusiveNew DEF Recorded, IInv
<1> QED
  BY <1>1, <1>3, <1>5, RemoverFirst DEF IInv

(* remove(3) removes one path and nothing else, or fails. *)
LEMMA RemovePathEffect ==
  ASSUME NEW d, NEW p
  PROVE  /\ DOMAIN RemovePath(d, p) \subseteq DOMAIN d
         /\ \A q \in DOMAIN RemovePath(d, p) : RemovePath(d, p)[q] = d[q]
         /\ \A q \in DOMAIN d : q # p => q \in DOMAIN RemovePath(d, p)
         /\ Children(d, p) = {} => p \notin DOMAIN RemovePath(d, p)
         /\ Children(d, p) # {} => RemovePath(d, p) = d
BY DEF RemovePath, Restrict

(* Removing one obsolete file keeps the invariant. *)
LEMMA RemoveObsoleteIInv == IInv /\ RemoveObsolete => IInv'
<1> SUFFICES ASSUME IInv, RemoveObsolete PROVE IInv'
  OBVIOUS
<1> DEFINE p == Ob(idx)[pos]
<1>1. /\ pc = "run" /\ idx \in DOMAIN steps /\ pos \in DOMAIN Ob(idx) /\ pos' = pos + 1
      /\ disk' = RemovePath(disk, p)
  <2>1. pc = "run" /\ idx \in DOMAIN steps
    BY DEF RemoveObsolete, IInv, Typed, Inputs
  <2>2. Ob(idx) \in Seq(Path)
    BY <2>1, StepFields DEF IInv, Typed, Ob
  <2> QED
    BY <2>1, <2>2 DEF RemoveObsolete, Ob, IInv, Typed
<1>2. UNCHANGED <<inputs, saved, table, gone, obs, idx, pc>>
  BY DEF RemoveObsolete
<1>3. /\ p \in DOMAIN table \ baselinks /\ table[p].old # None /\ Recorded(table[p].old, old, p)
      /\ table[p].old.type \in {"file", "conf"} /\ ~ForceRemove =>
           before[p] = [type |-> "file", data |-> table[p].old.data]
  BY <1>1, StepFields DEF IInv, Obsoletes, Table, Ob
<1>4. /\ p \in Path
      /\ \E k \in Changed : /\ k \in Pkg /\ Listed(old[k], p)
                            /\ table[p].old.type = old[k][p].type
                            /\ table[p].old.data = old[k][p].data
  BY <1>3, ChangedSteps, StepFields DEF IInv, Typed, Recorded
<1> HIDE DEF p
<1>5. /\ DOMAIN disk' \subseteq DOMAIN disk
      /\ \A q \in DOMAIN disk' : disk'[q] = disk[q]
      /\ \A q \in DOMAIN disk : q # p => q \in DOMAIN disk'
      /\ Children(disk, p) = {} => p \notin DOMAIN disk'
      /\ Children(disk, p) # {} => disk' = disk
  BY <1>1, RemovePathEffect
<1>6. Typed'
  BY <1>1, <1>2, TypedKept DEF IInv, Typed
<1>7. Collected' /\ Untouched' /\ AllObsolete' /\ Scanned' /\ Finished'
  BY <1>1, <1>2, ObsKept DEF IInv, Collected, Untouched, AllObsolete, Scanned, Finished, inputs
<1>8. NoneAdded'
  BY <1>2, <1>5 DEF IInv, NoneAdded, Dropped, Changed, inputs
<1>9. OthersUntouched'
  <2> SUFFICES ASSUME NEW q \in DOMAIN before,
                      \A k \in Changed : ~Listed(new[k], q),
                      q \in baselinks \/ \A k \in Changed : ~Listed(old[k], q)
               PROVE  q \in DOMAIN disk' /\ disk'[q] = before[q]
    BY <1>2 DEF OthersUntouched, Changed, inputs
  <2>1. q \in DOMAIN disk /\ disk[q] = before[q]
    BY DEF IInv, OthersUntouched
  <2>2. q # p
    BY <1>3, <1>4
  <2> QED
    BY <2>1, <2>2, <1>5
<1>10. EditedKept'
  <2> SUFFICES ASSUME flags \cap {"force_remove", "force_unpack"} = {},
                      NEW q \in DOMAIN before, before[q].type = "file",
                      \A k \in Pkg : Listed(old[k], q) =>
                        old[k][q].type \in {"file", "conf"} /\ old[k][q].data # before[q].data,
                      q \in DOMAIN disk /\ disk[q] = before[q]
               PROVE  q \in DOMAIN disk' /\ disk'[q] = before[q]
    BY <1>2 DEF IInv, EditedKept, Final, inputs
  <2>1. ~ForceRemove
    BY DEF ForceRemove
  <2>2. q # p
    <3> SUFFICES ASSUME q = p PROVE FALSE
      OBVIOUS
    <3>1. table[p].old.type \in {"file", "conf"} /\ table[p].old.data # before[p].data
      BY <1>4
    <3>2. before[p].data = table[p].old.data
      BY <1>3, <2>1, <3>1
    <3> QED
      BY <3>1, <3>2
  <2> QED
    BY <2>2, <1>5
<1>11. Removed'
  <2> SUFFICES ASSUME NEW a \in DOMAIN steps, NEW i \in DOMAIN Ob(a),
                      a < idx \/ (a = idx /\ i < pos + 1), Removes(steps[a]), Dropped(Ob(a)[i])
               PROVE  /\ Ob(a)[i] \in DOMAIN before /\ before[Ob(a)[i]].type # "dir" =>
                           Ob(a)[i] \notin DOMAIN disk'
                      /\ OnlyDirs(Ob(a)[i]) =>
                           Ob(a)[i] \notin DOMAIN disk' \/ Children(disk', Ob(a)[i]) # {}
    BY <1>1, <1>2 DEF Removed, RemovedUpTo, Ob, Dropped, OnlyDirs, Changed, inputs, Children
  <2> DEFINE q == Ob(a)[i]
  <2>0. /\ a \in Nat /\ i \in Nat /\ idx \in Nat /\ pos \in Nat
    BY <1>1, StepFields DEF IInv, Typed, Ob
  <2>1. CASE a = idx /\ i = pos
    <3>1. q = p
      BY <2>1 DEF p
    <3>2. ASSUME p \in DOMAIN before, before[p].type # "dir", Dropped(p)
          PROVE  p \notin DOMAIN disk'
      <4>1. Children(disk, p) = {}
        BY <3>2, <1>4 DEF IInv, NoneAdded, Children
      <4> QED
        BY <4>1, <1>5
    <3> QED
      BY <3>1, <3>2, <1>5
  <2>2. CASE a < idx \/ (a = idx /\ i < pos)
    <3>1. /\ q \in DOMAIN before /\ before[q].type # "dir" => q \notin DOMAIN disk
          /\ OnlyDirs(q) => q \notin DOMAIN disk \/ Children(disk, q) # {}
      BY <2>2, <1>1 DEF IInv, Removed, RemovedUpTo
    <3>2. ASSUME OnlyDirs(q) PROVE p \notin Children(disk, q)
      <4> SUFFICES ASSUME IsStrictPrefix(q, p) PROVE FALSE
        BY DEF Children
      <4>1. idx < a \/ (idx = a /\ pos < i)
        BY <3>2, <1>1 DEF IInv, ParentsLast, p
      <4> QED
        BY <4>1, <2>0, <2>2
    <3> HIDE DEF q
    <3>3. p \notin Children(disk, q) => Children(disk, q) \subseteq Children(disk', q)
      BY <1>5 DEF Children
    <3> QED
      BY <3>1, <3>2, <3>3, <1>5 DEF q
  <2> QED
    BY <2>0, <2>1, <2>2
<1>12. Unpacked'
  <2> SUFFICES ASSUME Exclusive(Final), NEW b \in DOMAIN steps,
                      NEW q \in Files(new[steps[b].pkg]),
                      b < idx => Arrived(steps[b].pkg, q),
                      b >= idx /\ q \in DOMAIN disk => q \in DOMAIN before
               PROVE  /\ b < idx => Arrived(steps[b].pkg, q)'
                      /\ b >= idx /\ q \in DOMAIN disk' => q \in DOMAIN before
    BY <1>1, <1>2 DEF IInv, Unpacked, Exclusive, Final, Arrived, inputs
  <2>1. ASSUME b < idx PROVE q # p
    <3>1. q = p => idx <= b
      BY <1>1, OwnFilesStay DEF p
    <3> QED
      BY <2>1, <3>1, StepFields DEF IInv, Typed
  <2>2. ASSUME b < idx PROVE Arrived(steps[b].pkg, q)'
    BY <2>1, <2>2, <1>2, <1>5 DEF Arrived, inputs
  <2> QED
    BY <2>2, <1>5
<1> QED
  BY <1>2, <1>6, <1>7, <1>8, <1>9, <1>10, <1>11, <1>12, ObsKept DEF IInv

-----------------------------------------------------------------------------
(* An archive is unpacked *)

(* Extraction changes nothing but what the new version lists; a file of    *)
(* its list is extracted or left alone.                                    *)
LEMMA ExtractedEffect ==
  ASSUME Typed, NEW a \in DOMAIN steps, NEW d, NEW R \in SUBSET Files(new[steps[a].pkg])
  PROVE  /\ DOMAIN d \subseteq DOMAIN Extracted(steps[a], d, R)
         /\ \A p \in DOMAIN Extracted(steps[a], d, R) :
              \/ Listed(new[steps[a].pkg], p)
              \/ p \in DOMAIN d /\ Extracted(steps[a], d, R)[p] = d[p]
         /\ \A p \in R : /\ p \in DOMAIN Extracted(steps[a], d, R)
                         /\ Extracted(steps[a], d, R)[p] = OnDisk(new[steps[a].pkg][p])
         /\ \A p \in Files(new[steps[a].pkg]) \ R :
              p \in DOMAIN Extracted(steps[a], d, R) =>
                p \in DOMAIN d /\ Extracted(steps[a], d, R)[p] = d[p]
<1> DEFINE l == new[steps[a].pkg]
           dirs == {q \in Path : \E p \in R : IsStrictPrefix(q, p)}
           x == Extracted(steps[a], d, R)
<1>1. \A p \in Files(l) : Listed(l, p) /\ l[p].type # "dir"
  BY DEF Files, Listed
<1>2. \A q \in dirs : Listed(l, q) /\ l[q].type = "dir"
  BY <1>1, ListedEntry
<1>3. x = [p \in DOMAIN d \cup dirs \cup R |->
             IF p \in R THEN OnDisk(l[p])
             ELSE IF p \in dirs THEN [type |-> "dir", data |-> 0] ELSE d[p]]
  BY DEF Extracted
<1> HIDE DEF l, dirs, x
<1>4. /\ DOMAIN x = DOMAIN d \cup dirs \cup R
      /\ \A p \in R : x[p] = OnDisk(l[p])
      /\ \A p \in DOMAIN d \ (R \cup dirs) : x[p] = d[p]
  BY <1>3
<1>5. R \subseteq Files(l)
  BY DEF l
<1>6. /\ DOMAIN d \subseteq DOMAIN x
      /\ \A p \in DOMAIN x : Listed(l, p) \/ (p \in DOMAIN d /\ x[p] = d[p])
      /\ \A p \in R : p \in DOMAIN x /\ x[p] = OnDisk(l[p])
      /\ \A p \in Files(l) \ R : p \in DOMAIN x => p \in DOMAIN d /\ x[p] = d[p]
  BY <1>1, <1>2, <1>4, <1>5
<1> QED
  BY <1>6 DEF x, l

(* A file the user has changed is never replaced by a configuration file   *)
(* of the new version, unless this is forced.                              *)
LEMMA EditedNotReplaced ==
  ASSUME NEW s, NEW p, p \in DOMAIN disk, disk[p].type = "file",
         "force_unpack" \notin flags, new[s.pkg][p].type = "conf",
         \/ old[s.pkg] = None
         \/ /\ Listed(old[s.pkg], p) /\ old[s.pkg][p].type = "conf"
            /\ old[s.pkg][p].data # disk[p].data
  PROVE  Decision(s, p, disk) # "replace"
<1>1. ConfDecision(s, p, disk) # "replace"
  BY DEF ConfDecision
<1> QED
  BY <1>1 DEF Decision

(* Unpacking an archive, all of it or not, keeps the invariant. *)
LEMMA RunUnpackIInv == IInv /\ RunUnpack => IInv'
<1> SUFFICES ASSUME IInv, RunUnpack PROVE IInv'
  OBVIOUS
<1> DEFINE s == steps[idx]
<1>1. pc = "run" /\ idx \in DOMAIN steps /\ Unpacks(s) /\ Cleared(s)
  BY DEF RunUnpack, IInv, Typed, Inputs
<1>2. UNCHANGED <<inputs, table, gone, obs>>
  BY DEF RunUnpack
<1>3. \/ /\ pc' = "run" /\ idx' = idx + 1 /\ pos' = 1 /\ With(s, "error") = {}
         /\ disk' = Extracted(s, disk, With(s, "replace"))
      \/ /\ pc' = "blocked" /\ idx' = idx /\ pos' = pos
         /\ \E R \in SUBSET With(s, "replace") : disk' = Extracted(s, disk, R)
  BY <1>1 DEF RunUnpack
<1>4. PICK R \in SUBSET With(s, "replace") :
        disk' = Extracted(s, disk, R) /\ (pc' = "run" => R = With(s, "replace"))
  BY <1>3
<1>5. R \in SUBSET Files(new[s.pkg])
  BY <1>4 DEF With
<1>6. /\ DOMAIN disk \subseteq DOMAIN disk'
      /\ \A p \in DOMAIN disk' :
           Listed(new[s.pkg], p) \/ (p \in DOMAIN disk /\ disk'[p] = disk[p])
      /\ \A p \in R : p \in DOMAIN disk' /\ disk'[p] = OnDisk(new[s.pkg][p])
      /\ \A p \in Files(new[s.pkg]) \ R :
           p \in DOMAIN disk' => p \in DOMAIN disk /\ disk'[p] = disk[p]
  BY <1>1, <1>4, <1>5, ExtractedEffect DEF IInv
<1>7. s.pkg \in Changed /\ s.pkg \in Pkg /\ Final(s.pkg) = new[s.pkg]
  BY <1>1, ChangedSteps, StepFields DEF IInv
<1>8. Typed'
  BY <1>2, <1>3, TypedKept DEF IInv, Typed
<1>9. Collected' /\ Untouched' /\ AllObsolete' /\ Scanned' /\ Finished'
  BY <1>1, <1>2, <1>3, ObsKept DEF IInv, Collected, Untouched, AllObsolete, Scanned, Finished,
     inputs
<1>10. NoneAdded'
  <2> SUFFICES ASSUME NEW p \in Path, Dropped(p)
               PROVE  /\ p \in DOMAIN disk' => p \in DOMAIN before
                      /\ p \in DOMAIN before /\ before[p].type # "dir" =>
                           \A q \in DOMAIN disk' : ~IsStrictPrefix(p, q)
    BY <1>2 DEF NoneAdded, Dropped, Changed, inputs
  <2>1. ~Listed(new[s.pkg], p)
    BY <1>7 DEF Dropped
  <2>2. p \in DOMAIN disk' => p \in DOMAIN before
    BY <2>1, <1>6 DEF IInv, NoneAdded
  <2>3. ASSUME p \in DOMAIN before, before[p].type # "dir", NEW q \in DOMAIN disk'
        PROVE  ~IsStrictPrefix(p, q)
    <3>1. CASE Listed(new[s.pkg], q)
      BY <3>1, <2>1, <1>1, ListedEntry DEF IInv
    <3>2. CASE q \in DOMAIN disk
      BY <3>2, <2>3 DEF IInv, NoneAdded
    <3> QED
      BY <3>1, <3>2, <1>6
  <2> QED
    BY <2>2, <2>3
<1>11. OthersUntouched'
  <2> SUFFICES ASSUME NEW p \in DOMAIN before, \A k \in Changed : ~Listed(new[k], p),
                      p \in DOMAIN disk /\ disk[p] = before[p]
               PROVE  p \in DOMAIN disk' /\ disk'[p] = before[p]
    BY <1>2 DEF IInv, OthersUntouched, Changed, inputs
  <2> QED
    BY <1>6, <1>7
<1>12. EditedKept'
  <2> SUFFICES ASSUME flags \cap {"force_remove", "force_unpack"} = {},
                      NEW p \in DOMAIN before, before[p].type = "file",
                      \A k \in Pkg : Listed(old[k], p) =>
                        old[k][p].type \in {"file", "conf"} /\ old[k][p].data # before[p].data,
                      \A k \in Pkg : Listed(Final(k), p) =>
                        /\ Final(k)[p].type = "conf"
                        /\ old[k] = None \/ (Listed(old[k], p) /\ old[k][p].type = "conf"),
                      p \in DOMAIN disk /\ disk[p] = before[p]
               PROVE  p \in DOMAIN disk' /\ disk'[p] = before[p]
    BY <1>2 DEF IInv, EditedKept, Final, inputs
  <2>1. CASE ~Listed(new[s.pkg], p)
    BY <2>1, <1>6
  <2>2. CASE Listed(new[s.pkg], p)
    <3>1. /\ new[s.pkg][p].type = "conf" /\ p \in Files(new[s.pkg])
          /\ \/ old[s.pkg] = None
             \/ /\ Listed(old[s.pkg], p) /\ old[s.pkg][p].type = "conf"
                /\ old[s.pkg][p].data # disk[p].data
      BY <2>2, <1>7 DEF Files, Listed
    <3>2. Decision(s, p, disk) # "replace"
      BY <3>1, EditedNotReplaced
    <3>3. p \notin R
      BY <3>2, <1>4 DEF With
    <3> QED
      BY <3>1, <3>3, <1>6
  <2> QED
    BY <2>1, <2>2
<1>13. Removed'
  <2> SUFFICES ASSUME pc' = "run" PROVE RemovedUpTo(idx, pos)'
    BY <1>3 DEF Removed
  <2>0. idx' = idx + 1 /\ pos' = 1
    BY <1>3
  <2>1. RemovedUpTo(idx + 1, 1)
    BY <1>1, RemovedStep
  <2> SUFFICES ASSUME NEW a \in DOMAIN steps, NEW i \in DOMAIN Ob(a), Dropped(Ob(a)[i]),
                      a < idx + 1 \/ (a = idx + 1 /\ i < 1), Removes(steps[a])
               PROVE  /\ Ob(a)[i] \in DOMAIN before /\ before[Ob(a)[i]].type # "dir" =>
                           Ob(a)[i] \notin DOMAIN disk'
                      /\ OnlyDirs(Ob(a)[i]) =>
                           Ob(a)[i] \notin DOMAIN disk' \/ Children(disk', Ob(a)[i]) # {}
    BY <2>0, <1>2 DEF RemovedUpTo, Ob, Dropped, OnlyDirs, Changed, inputs, Children
  <2>2. Ob(a)[i] \in DOMAIN disk' => Ob(a)[i] \in DOMAIN disk
    BY <1>6, <1>7 DEF Dropped
  <2>3. Children(disk, Ob(a)[i]) \subseteq Children(disk', Ob(a)[i])
    BY <1>6 DEF Children
  <2>4. /\ Ob(a)[i] \in DOMAIN before /\ before[Ob(a)[i]].type # "dir" =>
             Ob(a)[i] \notin DOMAIN disk
        /\ OnlyDirs(Ob(a)[i]) =>
             Ob(a)[i] \notin DOMAIN disk \/ Children(disk, Ob(a)[i]) # {}
    BY <2>1 DEF RemovedUpTo
  <2> QED
    BY <2>2, <2>3, <2>4
<1>14. Unpacked'
  <2> SUFFICES ASSUME pc' = "run", Exclusive(Final), NEW b \in DOMAIN steps,
                      NEW p \in Files(new[steps[b].pkg]),
                      b < idx => Arrived(steps[b].pkg, p),
                      b >= idx /\ p \in DOMAIN disk => p \in DOMAIN before
               PROVE  /\ b < idx + 1 => Arrived(steps[b].pkg, p)'
                      /\ b >= idx + 1 /\ p \in DOMAIN disk' => p \in DOMAIN before
    BY <1>1, <1>2, <1>3 DEF IInv, Unpacked, Exclusive, Final, Arrived, inputs
  <2>1. CASE b # idx
    <3>1. ~Listed(new[s.pkg], p)
      BY <2>1, <1>1, ExclusiveNew DEF IInv
    <3>2. b < idx + 1 => b < idx
      BY <2>1, StepFields DEF IInv, Typed
    <3>3. b >= idx + 1 => b >= idx
      BY StepFields DEF IInv, Typed
    <3>4. b < idx => Arrived(steps[b].pkg, p)'
      BY <3>1, <1>2, <1>6 DEF Arrived, inputs
    <3> QED
      BY <3>1, <3>2, <3>3, <3>4, <1>6
  <2>2. CASE b = idx
    <3>1. Arrived(steps[b].pkg, p)'
      <4>1. CASE Decision(s, p, disk) = "replace"
        <5>1. p \in R
          BY <4>1, <2>2, <1>4 DEF With
        <5> QED
          BY <5>1, <2>2, <1>2, <1>6 DEF Arrived, inputs
      <4>2. CASE Decision(s, p, disk) # "replace"
        <5>1. p \notin R
          BY <4>2, <1>4 DEF With
        <5>2. Decision(s, p, disk) # "error"
          BY <2>2, <1>3 DEF With
        <5>3. /\ p \in DOMAIN disk
              /\ p \in preserved \/ new[s.pkg][p].type = "conf"
          BY <4>2, <5>2 DEF Decision
        <5> QED
          BY <5>1, <5>3, <2>2, <1>1, <1>2, <1>6, StepFields DEF Arrived, inputs, IInv
      <4> QED
        BY <4>1, <4>2
    <3> QED
      BY <3>1, <2>2 DEF IInv, Typed
  <2> QED
    BY <2>1, <2>2
<1> QED
  BY <1>2, <1>8, <1>9, <1>10, <1>11, <1>12, <1>13, <1>14, ObsKept DEF IInv

-----------------------------------------------------------------------------
(* Every step keeps the invariant. *)
LEMMA NextIInv == IInv /\ [Next]_vars => IInv'
<1> SUFFICES ASSUME IInv, [Next]_vars PROVE IInv'
  OBVIOUS
<1>1. CASE UNCHANGED vars
  <2>1. UNCHANGED <<inputs, table, obs>> /\ UNCHANGED <<disk, idx, pos, pc>>
    BY <1>1 DEF vars, inputs
  <2>2. Typed'
    BY <2>1, TypedKept DEF IInv, Typed
  <2>3. Collected' /\ Untouched' /\ AllObsolete' /\ Scanned' /\ Finished'
    BY <2>1, ObsKept DEF IInv, Collected, Untouched, AllObsolete, Scanned, Finished, inputs
  <2>4. Removed'
    BY <2>1 DEF IInv, Removed, RemovedUpTo, Ob, Dropped, OnlyDirs, Changed, inputs
  <2>5. Unpacked'
    BY <2>1 DEF IInv, Unpacked, Exclusive, Final, Arrived, inputs
  <2> QED
    BY <2>1, <2>2, <2>3, <2>4, <2>5, DiskKept, ObsKept DEF IInv
<1>2. CASE Ended
  BY <1>1, <1>2 DEF Ended
<1> QED
  BY <1>1, <1>2, CollectIInv, CollectEndIInv, ObsoleteItemIInv, ObsoletesEndIInv,
     RemoveObsoleteIInv, RunRemoveIInv, RunUnpackIInv, RunEndIInv DEF Next

(* The invariant gives Delivered: when all packages have run, each has     *)
(* what it brings.                                                         *)
LEMMA IInvDelivers == IInv => Delivered
<1> SUFFICES ASSUME IInv, pc = "done", Exclusive(Final), NEW k \in Changed,
                    NEW p \in Files(new[k])
             PROVE  Arrived(k, p)
  BY DEF Delivered, Arrived
<1>1. PICK b \in DOMAIN steps : steps[b].pkg = k
  BY ChangedSteps
<1>2. b < idx
  BY StepFields DEF IInv, Finished, Typed, Inputs
<1> QED
  BY <1>1, <1>2 DEF IInv, Unpacked

(* The invariant gives ObsoleteGone: a path that is dropped and unchanged  *)
(* is in obsolete_files, all of which has been removed.                    *)
LEMMA IInvRemoves == IInv => ObsoleteGone
<1> SUFFICES ASSUME IInv, pc = "done", \A k, m \in Pkg : k # m =>
                      \A p \in Files(old[k]) : ~Listed(old[m], p),
                    NEW p \in DOMAIN disk \ (preserved \cup baselinks), NEW k \in Changed,
                    Listed(old[k], p), \A m \in Pkg : ~Listed(Final(m), p),
                    \A s \in ToSet(steps) : Listed(old[s.pkg], p) => ~s.preserve
             PROVE  IF old[k][p].type = "dir" THEN Children(disk, p) # {}
                    ELSE before[p] # OnDisk(old[k][p])
  BY DEF ObsoleteGone, Exclusive
<1> DEFINE o == table[p].old
<1>1. PICK b \in DOMAIN steps : steps[b].pkg = k
  BY ChangedSteps
<1>2. /\ k \in Pkg /\ p \in Path /\ b < Len(steps) + 1
      /\ old[k][p].type \in {"file", "conf", "link", "dir"} /\ old[k][p].data \in Nat
  BY <1>1, StepFields, ListedEntry DEF IInv, Typed, Inputs
<1>3. old[k][p] \in Entry
  BY <1>1, StepLists DEF IInv, IsList, Listed
<1>4. Unpreserved(p)
  BY DEF Unpreserved, ToSet
<1>5. Dropped(p)
  BY ChangedSteps, StepFields DEF Dropped, IInv
<1>6. p \in DOMAIN table /\ o # None
  BY <1>1, <1>2 DEF IInv, Collected, CollectedUpTo
<1>7. /\ o.index \in DOMAIN steps /\ steps[o.index].pkg = o.pkg /\ o.pkg \in Pkg
      /\ Listed(old[o.pkg], p)
      /\ o.type = old[o.pkg][p].type /\ o.data = old[o.pkg][p].data
  BY <1>6, StepFields DEF IInv, Table, Recorded
<1>8. old[k][p].type # "dir" => o.pkg = k
  BY <1>2, <1>7 DEF Files, Listed
<1>9. old[k][p].type = "dir" => o.type = "dir" /\ OnlyDirs(p)
  <2>1. \A m \in Pkg : Listed(old[m], p) /\ old[k][p].type = "dir" => old[m][p].type = "dir"
    BY <1>2 DEF Files, Listed
  <2> QED
    BY <2>1, <1>4, <1>7, StepFields DEF OnlyDirs, Unpreserved, IInv
<1>10. Altered(p, o) \/ \E i \in DOMAIN obs[o.pkg] : obs[o.pkg][i] = p
  <2>1. PICK j \in DOMAIN Order : Order[j] = p
    BY <1>2, OrderAssumption DEF ToSet
  <2>2. j < Len(Order) + 1
    BY OrderAssumption
  <2> QED
    BY <2>1, <2>2, <1>4, <1>5, <1>6 DEF IInv, AllObsolete, ObsoleteUpTo
<1>11. CASE Altered(p, o)
  <2>1. old[k][p].type # "dir" /\ o.pkg = k
    BY <1>8, <1>9, <1>11 DEF Altered
  <2>2. OnDisk([type |-> o.type, data |-> o.data]) = OnDisk(old[k][p])
    <3>1. old[k][p] = [type |-> o.type, data |-> o.data]
      BY <2>1, <1>3, <1>7 DEF Entry
    <3> QED
      BY <3>1
  <2>3. p \in DOMAIN before
    BY <1>2, <1>5 DEF IInv, NoneAdded
  <2> QED
    BY <2>1, <2>2, <2>3, <1>11 DEF Altered
<1>12. ASSUME NEW i \in DOMAIN obs[o.pkg], obs[o.pkg][i] = p
       PROVE  IF old[k][p].type = "dir" THEN Children(disk, p) # {}
              ELSE before[p] # OnDisk(old[k][p])
  <2> DEFINE a == o.index
  <2>1. a \in DOMAIN steps /\ i \in DOMAIN Ob(a) /\ Ob(a)[i] = p /\ a < idx
    BY <1>7, <1>12, StepFields DEF Ob, IInv, Finished, Typed, Inputs
  <2>2. Removes(steps[a])
    BY <1>4, <1>7 DEF Removes, Unpreserved
  <2>3. /\ p \in DOMAIN before /\ before[p].type # "dir" => p \notin DOMAIN disk
        /\ OnlyDirs(p) => p \notin DOMAIN disk \/ Children(disk, p) # {}
    BY <2>1, <2>2, <1>5 DEF IInv, Removed, RemovedUpTo
  <2>4. p \in DOMAIN before
    BY <1>2, <1>5 DEF IInv, NoneAdded
  <2>5. before[p].type = "dir" /\ old[k][p].type # "dir" => before[p] # OnDisk(old[k][p])
    BY <1>3 DEF OnDisk, Entry
  <2> QED
    BY <2>3, <2>4, <2>5, <1>9
<1> QED
  BY <1>10, <1>11, <1>12

(* The inductive invariant holds in every state. *)
LEMMA Inductive == Spec => []IInv
BY InitIInv, NextIInv, PTL DEF Spec

(* Whatever is in the lists and on the disk, a transaction touches no file *)
(* that its packages do not list, and no link of the root directory        *)
(* (collect_obsoletes, remove_pkg_files, unpack_archive).                  *)
THEOREM OthersStay == Spec => []OthersUntouched
<1>1. IInv => OthersUntouched
  BY DEF IInv
<1> QED
  BY <1>1, Inductive, PTL

(* A file the user has changed survives every transaction that does not    *)
(* force its removal (the hash checks of collect_obsoletes, made before    *)
(* the first package runs, and flappy_entry_install_conf_file).            *)
THEOREM EditedStay == Spec => []EditedKept
<1>1. IInv => EditedKept
  BY DEF IInv
<1> QED
  BY <1>1, Inductive, PTL

(* After a transaction every package unpacked has its files, whatever      *)
(* moved between packages and in whatever order they ran.                  *)
THEOREM FilesDelivered == Spec => []Delivered
BY Inductive, IInvDelivers, PTL

(* After a transaction nothing is left of what it drops: no unchanged file *)
(* and no empty directory.                                                 *)
THEOREM NothingLeft == Spec => []ObsoleteGone
BY Inductive, IInvRemoves, PTL
=============================================================================
