--------------------------- MODULE RemovalProofs ---------------------------
(***************************************************************************)
(* What commands leave behind.  About Alternatives: what the groups list   *)
(* and where the links lead after every command, and that only -s and the  *)
(* package itself move a provider from the head of a group.  About Orphans *)
(* and Prepare: the search finds exactly the packages nobody needs any     *)
(* more, and the transaction of a removal is made from it.                 *)
(***************************************************************************)
EXTENDS Alternatives, Prepare, WellFoundedInduction, TLAPS

-----------------------------------------------------------------------------
(* Sets of numbers and sequences without repetition.                       *)

(* A set of natural numbers that is not empty has a least element: the     *)
(* next key a loop comes to, and the first match in an array.              *)
LEMMA MinExists ==
  ASSUME NEW S, S \subseteq Nat, S # {}
  PROVE  Min(S) \in S /\ \A y \in S : Min(S) =< y
<1> DEFINE R == OpToRel(<, Nat)
<1>1. IsWellFoundedOn(R, Nat)
  BY NatLessThanWellFounded
<1> HIDE DEF R
<1>2. PICK j \in S : \A d \in S : ~(<<d, j>> \in R)
  BY <1>1, WFMin
<1>3. \A d \in S : ~(d < j)
  BY <1>2 DEF R, OpToRel
<1>4. \A d \in S : j =< d
  BY <1>3
<1> QED BY <1>4 DEF Min

(* A set of positions of an array that is not empty has a greatest one.    *)
LEMMA MaxExists ==
  ASSUME NEW n \in Nat, NEW S, S \subseteq 1..n, S # {}
  PROVE  Max(S) \in S /\ \A y \in S : Max(S) >= y
<1> DEFINE T == {n - i : i \in S}
<1>0. \A i \in S : i \in Nat /\ n - i \in Nat /\ n - i \in T
  OBVIOUS
<1>1. T \subseteq Nat /\ T # {}
  BY <1>0
<1>2. Min(T) \in T /\ \A y \in T : Min(T) =< y
  BY <1>1, MinExists
<1>3. PICK i \in S : Min(T) = n - i
  BY <1>2
<1>4. \A j \in S : n - i =< n - j
  BY <1>0, <1>2, <1>3
<1>5. \A j \in S : i >= j
  BY <1>0, <1>4
<1> QED BY <1>5 DEF Max

(* What is in a sequence: its positions are 1..Len(s).                     *)
LEMMA SeqElements ==
  ASSUME NEW S, NEW s \in Seq(S)
  PROVE  /\ DOMAIN s = 1..Len(s) /\ Len(s) \in Nat
         /\ ToSet(s) \subseteq S
         /\ s # <<>> => /\ Len(s) # 0 /\ Head(s) = s[1] /\ Head(s) \in ToSet(s)
                        /\ Last(s) \in ToSet(s)
         /\ ToSet(s) = {} => s = <<>>
  BY DEF ToSet, Last

(* What is at a place of a sequence is one of its elements.                *)
LEMMA ElementIn ==
  ASSUME NEW S, NEW s \in Seq(S), NEW i \in 1..Len(s)
  PROVE  s[i] \in ToSet(s)
BY DEF ToSet

(* remove_obj_from_array: the first match goes and the rest stays in order. *)
LEMMA RemoveFirstKeeps ==
  ASSUME NEW S, NEW s \in Seq(S), NEW e, IsInjective(s)
  PROVE  /\ RemoveFirst(s, e) \in Seq(S)
         /\ IsInjective(RemoveFirst(s, e))
         /\ ToSet(RemoveFirst(s, e)) = ToSet(s) \ {e}
         /\ s # <<>> /\ Head(s) # e =>
              RemoveFirst(s, e) # <<>> /\ Head(RemoveFirst(s, e)) = Head(s)
<1> DEFINE r == RemoveFirst(s, e)
<1>0. Len(s) \in Nat /\ DOMAIN s = 1..Len(s)
  OBVIOUS
<1>1. CASE ~\E i \in 1..Len(s) : s[i] = e
  <2>1. r = s
    BY <1>1 DEF RemoveFirst
  <2>2. e \notin ToSet(s)
    BY <1>1 DEF ToSet
  <2> QED BY <2>1, <2>2
<1>2. CASE \E i \in 1..Len(s) : s[i] = e
  <2> DEFINE I == {i \in 1..Len(s) : s[i] = e}
             k == Min(I)
  <2>1. I # {} /\ I \subseteq Nat
    BY <1>2
  <2>2. k \in I
    BY <2>1, MinExists
  <2>3. k \in 1..Len(s) /\ s[k] = e
    BY <2>2
  <2>4. r = SubSeq(s, 1, k - 1) \o SubSeq(s, k + 1, Len(s))
    BY <1>2, <2>1 DEF RemoveFirst, RemoveAt, SelectInSeq
  <2> HIDE DEF k, r, I
  <2>5. /\ SubSeq(s, 1, k - 1) \in Seq(S) /\ Len(SubSeq(s, 1, k - 1)) = k - 1
        /\ \A i \in 1..(k - 1) : SubSeq(s, 1, k - 1)[i] = s[i]
    BY <2>3
  <2>6. /\ SubSeq(s, k + 1, Len(s)) \in Seq(S) /\ Len(SubSeq(s, k + 1, Len(s))) = Len(s) - k
        /\ \A i \in 1..(Len(s) - k) : SubSeq(s, k + 1, Len(s))[i] = s[i + k]
    BY <2>3
  <2>7. /\ r \in Seq(S) /\ Len(r) = Len(s) - 1
        /\ \A i \in 1..(Len(s) - 1) : r[i] = IF i < k THEN s[i] ELSE s[i + 1]
    <3> DEFINE a == SubSeq(s, 1, k - 1)
               b == SubSeq(s, k + 1, Len(s))
    <3>1. /\ a \in Seq(S) /\ Len(a) = k - 1 /\ \A i \in 1..(k - 1) : a[i] = s[i]
          /\ b \in Seq(S) /\ Len(b) = Len(s) - k /\ \A i \in 1..(Len(s) - k) : b[i] = s[i + k]
          /\ r = a \o b
      BY <2>4, <2>5, <2>6
    <3> HIDE DEF a, b
    <3>2. r \in Seq(S) /\ Len(r) = Len(a) + Len(b)
      BY <3>1
    <3>3. \A i \in 1..(Len(a) + Len(b)) : r[i] = IF i =< Len(a) THEN a[i] ELSE b[i - Len(a)]
      BY <3>1
    <3>4. Len(r) = Len(s) - 1
      BY <3>1, <3>2, <2>3
    <3>5. ASSUME NEW i \in 1..(Len(s) - 1), i < k PROVE r[i] = s[i]
      BY <3>1, <3>3, <3>5, <2>3
    <3>6. ASSUME NEW i \in 1..(Len(s) - 1), ~(i < k) PROVE r[i] = s[i + 1]
      <4>1. i - Len(a) \in 1..(Len(s) - k) /\ (i - Len(a)) + k = i + 1 /\ ~(i =< Len(a))
        BY <3>1, <3>6, <2>3
      <4>2. i \in 1..(Len(a) + Len(b))
        BY <3>1, <2>3
      <4>3. r[i] = b[i - Len(a)]
        BY <4>1, <4>2, <3>3
      <4>4. b[i - Len(a)] = s[(i - Len(a)) + k]
        BY <4>1, <3>1
      <4> QED BY <4>1, <4>3, <4>4
    <3> QED BY <3>2, <3>4, <3>5, <3>6
  <2>8. IsInjective(r)
    BY <2>3, <2>7 DEF IsInjective
  <2>9. ToSet(r) = ToSet(s) \ {e}
    <3>1. ASSUME NEW x \in ToSet(r) PROVE x \in ToSet(s) \ {e}
      <4>1. PICK i \in 1..(Len(s) - 1) : x = r[i]
        BY <2>7 DEF ToSet
      <4> DEFINE j == IF i < k THEN i ELSE i + 1
      <4>2. j \in 1..Len(s) /\ j # k /\ x = s[j]
        BY <4>1, <2>3, <2>7
      <4> QED BY <4>2, <2>3 DEF IsInjective, ToSet
    <3>2. ASSUME NEW x \in ToSet(s), x # e PROVE x \in ToSet(r)
      <4>1. PICK j \in 1..Len(s) : x = s[j]
        BY DEF ToSet
      <4> DEFINE i == IF j < k THEN j ELSE j - 1
      <4>2. i \in 1..(Len(s) - 1) /\ r[i] = x
        BY <4>1, <3>2, <2>3, <2>7
      <4> QED BY <4>2, <2>7 DEF ToSet
    <3> QED BY <3>1, <3>2
  <2>10. ASSUME s # <<>>, Head(s) # e
         PROVE  r # <<>> /\ Head(r) = Head(s)
    <3>1. k # 1 /\ 1 \in 1..(Len(s) - 1) /\ r[1] = s[1]
      BY <2>3, <2>7, <2>10
    <3> QED BY <3>1, <2>7
  <2> QED BY <2>7, <2>8, <2>9, <2>10 DEF r
<1> QED BY <1>1, <1>2

(* flappy_array_add_first of a package that is not on the list.            *)
LEMMA ConsKeeps ==
  ASSUME NEW S, NEW s \in Seq(S), NEW e \in S, IsInjective(s), e \notin ToSet(s)
  PROVE  /\ <<e>> \o s \in Seq(S) /\ IsInjective(<<e>> \o s)
         /\ ToSet(<<e>> \o s) = ToSet(s) \cup {e}
         /\ <<e>> \o s # <<>> /\ Head(<<e>> \o s) = e
<1> DEFINE r == <<e>> \o s
<1>1. /\ r \in Seq(S) /\ Len(r) = Len(s) + 1 /\ r[1] = e /\ Len(s) \in Nat
      /\ \A i \in 1..Len(s) : r[i + 1] = s[i]
  OBVIOUS
<1> HIDE DEF r
<1>2. \A i \in 2..Len(r) : i - 1 \in 1..Len(s) /\ r[i] = s[i - 1]
  BY <1>1
<1>3. IsInjective(r)
  <2> SUFFICES ASSUME NEW i \in 1..Len(r), NEW j \in 1..Len(r), r[i] = r[j]
               PROVE  i = j
    BY <1>1 DEF IsInjective
  <2>1. \A m \in 2..Len(r) : r[m] # e
    BY <1>2 DEF ToSet
  <2>2. CASE i = 1 \/ j = 1
    BY <2>1, <2>2, <1>1
  <2>3. CASE i \in 2..Len(r) /\ j \in 2..Len(r)
    BY <2>3, <1>2 DEF IsInjective
  <2> QED BY <2>2, <2>3, <1>1
<1>4. ToSet(r) = ToSet(s) \cup {e}
  <2>1. ToSet(r) \subseteq ToSet(s) \cup {e}
    <3> SUFFICES ASSUME NEW i \in 1..Len(r) PROVE r[i] \in ToSet(s) \cup {e}
      BY <1>1 DEF ToSet
    <3>1. i = 1 \/ i \in 2..Len(r)
      BY <1>1
    <3> QED BY <3>1, <1>1, <1>2 DEF ToSet
  <2>2. \A i \in 1..Len(s) : i + 1 \in 1..Len(r) /\ r[i + 1] = s[i]
    BY <1>1
  <2>3. ToSet(s) \subseteq ToSet(r)
    BY <1>1, <2>2 DEF ToSet
  <2>4. e \in ToSet(r)
    BY <1>1 DEF ToSet
  <2> QED BY <2>1, <2>3, <2>4
<1> QED BY <1>1, <1>3, <1>4 DEF r

(* flappy_array_add_cstring of a package that is not on the list.          *)
LEMMA AppendKeeps ==
  ASSUME NEW S, NEW s \in Seq(S), NEW e \in S, IsInjective(s), e \notin ToSet(s)
  PROVE  /\ Append(s, e) \in Seq(S) /\ IsInjective(Append(s, e))
         /\ ToSet(Append(s, e)) = ToSet(s) \cup {e}
         /\ Append(s, e) # <<>>
         /\ s # <<>> => Head(Append(s, e)) = Head(s)
         /\ s = <<>> => Head(Append(s, e)) = e
<1> DEFINE r == Append(s, e)
<1>1. /\ r \in Seq(S) /\ Len(s) \in Nat /\ Len(r) = Len(s) + 1 /\ r[Len(s) + 1] = e
      /\ \A i \in 1..Len(s) : r[i] = s[i]
  OBVIOUS
<1> HIDE DEF r
<1>2. \A i \in 1..Len(s) : r[i] # e
  BY <1>1 DEF ToSet
<1>3. IsInjective(r)
  <2> SUFFICES ASSUME NEW i \in 1..Len(r), NEW j \in 1..Len(r), r[i] = r[j]
               PROVE  i = j
    BY <1>1 DEF IsInjective
  <2>1. CASE i = Len(s) + 1 \/ j = Len(s) + 1
    BY <2>1, <1>1, <1>2
  <2>2. CASE i \in 1..Len(s) /\ j \in 1..Len(s)
    BY <2>2, <1>1 DEF IsInjective
  <2> QED BY <2>1, <2>2, <1>1
<1>4. ToSet(r) = ToSet(s) \cup {e}
  <2>1. \A i \in 1..Len(r) : r[i] \in ToSet(s) \cup {e}
    BY <1>1 DEF ToSet
  <2>2. \A i \in 1..Len(s) : i \in 1..Len(r) /\ r[i] = s[i]
    BY <1>1
  <2>3. Len(s) + 1 \in 1..Len(r) /\ r[Len(s) + 1] = e
    BY <1>1
  <2> QED BY <1>1, <2>1, <2>2, <2>3 DEF ToSet
<1>5. r # <<>> /\ (s # <<>> => Head(r) = Head(s)) /\ (s = <<>> => Head(r) = e)
  BY <1>1
<1> QED BY <1>1, <1>3, <1>4, <1>5 DEF r

-----------------------------------------------------------------------------
(* The inductive invariant.                                                *)

(* What the packages will offer once the running command has ended. *)
Later == [offers EXCEPT ![pkg] = new]
Versions(p) == Offer[p] \cup {Nothing}
Providers(off, g) == {q \in Pkg : off[q][g] # <<>>}

(* The group's list is as it will be when the command ends. *)
Passed(g) ==
  /\ g \notin left
  /\ \/ apc = "register"
     \/ apc = "unregister" /\ op = "remove"
     \/ apc = "obsolete" /\ new[g] = <<>>

(* The groups a loop has still to go through are the package's. *)
CallInv ==
  /\ \/ apc = "idle" /\ op = "none" /\ pkg = None /\ left = {}
     \/ /\ apc = "unregister" /\ op \in {"update", "remove"}
        /\ pkg \in installed /\ left \subseteq Provided(offers[pkg])
     \/ /\ apc = "obsolete" /\ op \in {"update", "reinstall"}
        /\ pkg \in installed /\ left \subseteq Provided(offers[pkg])
     \/ /\ apc = "register" /\ op \in {"install", "update", "reinstall"}
        /\ pkg \in Pkg /\ left \subseteq Provided(new)
     \/ /\ apc = "set" /\ op = "set"
        /\ pkg \in installed /\ left \subseteq Provided(offers[pkg])
  /\ op = "remove" => new = Nothing
  /\ op = "reinstall" => new = offers[pkg]
  /\ pkg # None => new \in Versions(pkg)
  /\ apc = "unregister" => \E p \in Pkg : mine \in Versions(p)
  /\ \A p \in Pkg : offers[p] \in Versions(p) /\ (p \notin installed => offers[p] = Nothing)

(* A group lists the packages that offer it, each once: before or after    *)
(* what the command does to them.                                          *)
ListInv ==
  \A g \in Group :
    /\ IsInjective(alternatives[g])
    /\ ToSet(alternatives[g]) = Providers(IF Passed(g) THEN Later ELSE offers, g)

(* The links of the group lead where its first package says in off. *)
LeadBy(off, g) ==
  \A e \in ToSet(off[Head(alternatives[g])][g]) : links[LinkPath(e)] = e.target

(* Only the links of a package that is being replaced may be missing.      *)
GroupLinks(g) ==
  alternatives[g] # <<>> =>
    /\ Head(alternatives[g]) # pkg \/ op \in {"remove", "set"} => LeadBy(offers, g)
    /\ apc = "register" /\ g \notin left => LeadBy(Later, g)

IInv ==
  /\ AltTypeOK /\ CallInv /\ ListInv
  /\ \A g \in Group : GroupLinks(g)

-----------------------------------------------------------------------------
(* What the symbolic links of one group have to do with another's.         *)

(* The two disks have the same links but for the group's. *)
Agree(lk1, lk2, g) ==
  \A h \in Group \ {g} : \A p \in Pkg : \A v \in Versions(p) :
    \A e \in ToSet(v[h]) : lk1[LinkPath(e)] = lk2[LinkPath(e)]

Disk == [Path -> Path \cup {None}]

(* A version lists entries for every group, if only none.                  *)
LEMMA VersionTyped ==
  ASSUME NEW p \in Pkg, NEW v \in Versions(p)
  PROVE  v \in [Group -> Seq(Entry)]
<1>1. Offer[p] \subseteq [Group -> Seq(Entry)]
  BY AltAssumption
<1>2. Nothing \in [Group -> Seq(Entry)]
  BY DEF Nothing
<1> QED BY <1>1, <1>2 DEF Versions

(* Every version of a package has well-formed entries, whose links are     *)
(* their group's and have one target each.                                 *)
LEMMA VersionFacts ==
  ASSUME NEW p \in Pkg, NEW v \in Versions(p), NEW g \in Group
  PROVE  /\ v \in [Group -> Seq(Entry)] /\ v[g] \in Seq(Entry)
         /\ \A e \in ToSet(v[g]) : e \in Entry /\ e.target \in Path /\ LinkPath(e) \in Path
         /\ \A e, f \in ToSet(v[g]) : LinkPath(e) = LinkPath(f) => e.target = f.target
         /\ \A h \in Group \ {g} : \A q \in Pkg : \A w \in Versions(q) :
              \A e \in ToSet(v[g]), f \in ToSet(w[h]) : LinkPath(e) # LinkPath(f)
<1>1. v \in [Group -> Seq(Entry)]
  BY VersionTyped
<1>2. v[g] \in Seq(Entry) /\ \A e \in ToSet(v[g]) : e \in Entry
  BY <1>1 DEF ToSet
<1>3. ToSet(<<>>) = {}
  BY DEF ToSet
<1>4. \A e \in ToSet(v[g]) : LinkPath(e) \in Path
  <2>1. CASE v \in Offer[p]
    BY <2>1, AltAssumption
  <2>2. CASE v = Nothing
    BY <2>2, <1>3 DEF Nothing
  <2> QED BY <2>1, <2>2 DEF Versions
<1>5. \A e, f \in ToSet(v[g]) : LinkPath(e) = LinkPath(f) => e.target = f.target
  <2>1. CASE v \in Offer[p]
    BY <2>1, AltAssumption
  <2>2. CASE v = Nothing
    BY <2>2, <1>3 DEF Nothing
  <2> QED BY <2>1, <2>2 DEF Versions
<1>6. ASSUME NEW h \in Group \ {g}, NEW q \in Pkg, NEW w \in Versions(q),
             NEW e \in ToSet(v[g]), NEW f \in ToSet(w[h])
      PROVE  LinkPath(e) # LinkPath(f)
  <2>1. v \in Offer[p] /\ w \in Offer[q]
    BY <1>3 DEF Versions, Nothing
  <2> QED BY <2>1, AltAssumption
<1> QED BY <1>1, <1>2, <1>4, <1>5, <1>6 DEF Entry

(* create_symlinks: the links of the array lead to their targets, and the  *)
(* links of other groups are untouched.                                    *)
LEMMA CreateFacts ==
  ASSUME NEW p \in Pkg, NEW v \in Versions(p), NEW g \in Group, NEW lk \in Disk
  PROVE  /\ CreateSymlinks(lk, v[g]) \in Disk
         /\ \A e \in ToSet(v[g]) : CreateSymlinks(lk, v[g])[LinkPath(e)] = e.target
         /\ Agree(CreateSymlinks(lk, v[g]), lk, g)
<1> DEFINE array == v[g]
           at(q) == {i \in DOMAIN array : LinkPath(array[i]) = q}
<1>1. array \in Seq(Entry) /\ DOMAIN array = 1..Len(array) /\ Len(array) \in Nat
  BY VersionFacts
<1>2. \A i \in DOMAIN array : array[i] \in ToSet(array)
  BY DEF ToSet
<1>3. \A q : at(q) # {} => Max(at(q)) \in at(q)
  BY <1>1, MaxExists
<1>4. \A q \in Path : CreateSymlinks(lk, array)[q] =
                        IF at(q) = {} THEN lk[q] ELSE array[Max(at(q))].target
  BY DEF CreateSymlinks
<1>5. CreateSymlinks(lk, array) \in Disk
  <2>1. ASSUME NEW q \in Path, at(q) # {} PROVE array[Max(at(q))].target \in Path
    <3>1. Max(at(q)) \in DOMAIN array
      BY <1>3, <2>1
    <3>2. array[Max(at(q))] \in ToSet(array)
      BY <1>2, <3>1
    <3> QED BY <3>2, VersionFacts
  <2> QED BY <2>1 DEF CreateSymlinks, Disk
<1>6. ASSUME NEW e \in ToSet(array)
      PROVE  CreateSymlinks(lk, array)[LinkPath(e)] = e.target
  <2>1. LinkPath(e) \in Path /\ at(LinkPath(e)) # {}
    BY VersionFacts DEF ToSet
  <2> DEFINE m == Max(at(LinkPath(e)))
  <2>2. m \in DOMAIN array /\ LinkPath(array[m]) = LinkPath(e)
    BY <1>3, <2>1
  <2> HIDE DEF m
  <2>3. array[m].target = e.target
    BY <2>2, <1>2, VersionFacts
  <2> QED BY <2>1, <2>3, <1>4 DEF m
<1>7. ASSUME NEW h \in Group \ {g}, NEW q \in Pkg, NEW w \in Versions(q), NEW e \in ToSet(w[h])
      PROVE  CreateSymlinks(lk, array)[LinkPath(e)] = lk[LinkPath(e)]
  <2>1. LinkPath(e) \in Path
    BY VersionFacts
  <2>2. at(LinkPath(e)) = {}
    BY <1>2, VersionFacts
  <2> QED BY <2>1, <2>2, <1>4
<1> QED BY <1>5, <1>6, <1>7 DEF Agree

(* remove_symlinks: the links of other groups are untouched.               *)
LEMMA RemoveFacts ==
  ASSUME NEW p \in Pkg, NEW v \in Versions(p), NEW g \in Group, NEW lk \in Disk
  PROVE  /\ RemoveSymlinks(lk, v[g]) \in Disk
         /\ Agree(RemoveSymlinks(lk, v[g]), lk, g)
<1>1. RemoveSymlinks(lk, v[g]) \in Disk
  BY DEF RemoveSymlinks, Disk
<1>2. ASSUME NEW h \in Group \ {g}, NEW q \in Pkg, NEW w \in Versions(q), NEW e \in ToSet(w[h])
      PROVE  RemoveSymlinks(lk, v[g])[LinkPath(e)] = lk[LinkPath(e)]
  BY VersionFacts DEF RemoveSymlinks
<1> QED BY <1>1, <1>2 DEF Agree

(* Nothing was done to the links.                                          *)
LEMMA AgreeSame == \A lk, g : Agree(lk, lk, g)
BY DEF Agree

(* Two changes of the links of one group are one.                          *)
LEMMA AgreeTwice ==
  ASSUME NEW lk1, NEW lk2, NEW lk3, NEW g, Agree(lk1, lk2, g), Agree(lk2, lk3, g)
  PROVE  Agree(lk1, lk3, g)
BY DEF Agree

-----------------------------------------------------------------------------
(* Every step keeps the invariant.                                         *)

(* No package, no link and no loop: the initial state.                     *)
LEMMA InitIInv == AltInit => IInv
<1> SUFFICES ASSUME AltInit PROVE IInv
  OBVIOUS
<1>1. AltTypeOK
  <2>1. Nothing \in [Group -> Seq(Pkg)] /\ Nothing \in [Group -> Seq(Entry)]
    BY DEF Nothing
  <2> QED BY <2>1 DEF AltInit, AltTypeOK
<1>2. CallInv
  BY DEF AltInit, CallInv, Versions
<1>3. \A g \in Group : alternatives[g] = <<>> /\ ~Passed(g)
  BY DEF AltInit, Nothing, Passed
<1>4. ListInv
  <2>1. \A g \in Group : Providers(offers, g) = {}
    BY DEF AltInit, Nothing, Providers
  <2> QED BY <1>3, <2>1 DEF ListInv, IsInjective, ToSet
<1> QED BY <1>1, <1>2, <1>3, <1>4 DEF IInv, GroupLinks

(* What holds of the group a loop comes to.                                *)
LEMMA NextGroup ==
  ASSUME IInv, NEW g \in left
  PROVE  /\ g \in Group /\ pkg \in Pkg /\ pkg # None
         /\ alternatives[g] \in Seq(Pkg) /\ IsInjective(alternatives[g])
         /\ ToSet(alternatives[g]) = Providers(offers, g)
         /\ links \in Disk
         /\ new \in Versions(pkg)
         /\ \A p \in Pkg : offers[p] \in Versions(p)
<1>1. g \in Group /\ ~Passed(g)
  BY DEF IInv, AltTypeOK, Passed
<1>2. pkg \in Pkg /\ pkg # None
  BY AltAssumption DEF IInv, AltTypeOK, CallInv
<1>3. new \in Versions(pkg)
  BY <1>2 DEF IInv, CallInv
<1> QED BY <1>1, <1>2, <1>3 DEF IInv, AltTypeOK, ListInv, CallInv, Disk

(* A step of a loop is about one group: its list and its links.            *)
LEMMA LoopKeeps ==
  ASSUME IInv, NEW g \in left, NEW r \in Seq(Pkg),
         alternatives' = [alternatives EXCEPT ![g] = r],
         left' = left \ {g}, UNCHANGED <<installed, offers, apc, local>>,
         links' \in Disk, Agree(links', links, g),
         mine' \in [Group -> Seq(Entry)],
         apc = "unregister" => \E p \in Pkg : mine' \in Versions(p),
         IsInjective(r),
         ToSet(r) = Providers(IF Passed(g)' THEN Later ELSE offers, g),
         GroupLinks(g)'
  PROVE  IInv'
<1>1. g \in Group /\ pkg \in Pkg /\ new \in Versions(pkg)
  BY NextGroup DEF IInv, AltTypeOK
<1>2. AltTypeOK'
  BY <1>1 DEF IInv, AltTypeOK, local, Disk
<1>3. CallInv'
  BY <1>1, AltAssumption DEF IInv, CallInv, local
<1>4. \A h \in Group : h # g => alternatives'[h] = alternatives[h] /\ (h \in left' <=> h \in left)
  BY DEF IInv, AltTypeOK
<1>5. Later' = Later /\ \A h \in Group : h # g => (Passed(h)' <=> Passed(h))
  BY <1>4 DEF Later, Passed, local
<1>6. ListInv'
  <2> SUFFICES ASSUME NEW h \in Group
               PROVE  /\ IsInjective(alternatives[h])'
                      /\ ToSet(alternatives[h])' =
                           Providers(IF Passed(h)' THEN Later ELSE offers, h)
    BY <1>5 DEF ListInv, Providers
  <2>1. CASE h = g
    BY <2>1, <1>1 DEF IInv, AltTypeOK
  <2>2. CASE h # g
    BY <2>2, <1>4, <1>5 DEF IInv, ListInv
  <2> QED BY <2>1, <2>2
<1>7. ASSUME NEW h \in Group PROVE GroupLinks(h)'
  <2>1. CASE h = g
    BY <2>1
  <2>2. CASE h # g
    <3> SUFFICES ASSUME alternatives[h] # <<>>
                 PROVE  /\ LeadBy(offers, h) => LeadBy(offers, h)'
                        /\ LeadBy(Later, h) => LeadBy(Later, h)'
      BY <2>2, <1>4 DEF IInv, GroupLinks, local
    <3> DEFINE p == Head(alternatives[h])
    <3>1. p \in Pkg
      BY DEF IInv, AltTypeOK
    <3>2. \A v \in Versions(p) : \A e \in ToSet(v[h]) : links'[LinkPath(e)] = links[LinkPath(e)]
      BY <2>2, <3>1 DEF Agree
    <3>3. offers[p] \in Versions(p) /\ Later[p] \in Versions(p)
      BY <3>1, <1>1 DEF IInv, CallInv, AltTypeOK, Later
    <3>4. Head(alternatives'[h]) = p
      BY <2>2, <1>4
    <3> QED BY <3>2, <3>3, <3>4, <1>5 DEF LeadBy
  <2> QED BY <2>1, <2>2
<1> QED BY <1>2, <1>3, <1>6, <1>7 DEF IInv

(* The group a loop takes is one it has not come to.                       *)
LEMMA MinLeft ==
  ASSUME IInv, left # {}
  PROVE  Min(left) \in left
<1>1. left \subseteq Nat
  BY AltAssumption DEF IInv, AltTypeOK, Group
<1> QED BY <1>1, MinExists

(* One group of flappy_alternatives_unregister.                            *)
LEMMA UnregisterKeeps == IInv /\ UnregisterLoop => IInv'
<1> SUFFICES ASSUME IInv, UnregisterLoop PROVE IInv'
  OBVIOUS
<1>1. PICK g \in left : g = Min(left)
  BY MinLeft DEF UnregisterLoop, Loop
<1>2. /\ apc = "unregister" /\ UnregisterGroup(g) /\ left' = left \ {g}
      /\ UNCHANGED <<installed, offers, apc, local>>
  BY <1>1 DEF UnregisterLoop, Loop
<1> DEFINE cleared == IF Leads(g, pkg) THEN RemoveSymlinks(links, mine[g]) ELSE links
           rest == IF op = "update" THEN alternatives[g] ELSE RemoveFirst(alternatives[g], pkg)
           switch == op # "update" /\ Leads(g, pkg) /\ rest # <<>>
<1>3. /\ alternatives' = [alternatives EXCEPT ![g] = rest]
      /\ links' = IF switch THEN SwitchAltGroup(cleared, g, Head(rest)) ELSE cleared
      /\ mine' = IF switch THEN offers[Head(rest)] ELSE mine
  BY <1>2 DEF UnregisterGroup
<1>4. cleared \in Disk /\ Agree(cleared, links, g)
  <2>1. PICK p \in Pkg : mine \in Versions(p)
    BY <1>2 DEF IInv, CallInv
  <2> QED BY <2>1, NextGroup, RemoveFacts, AgreeSame
<1>5. /\ rest \in Seq(Pkg) /\ IsInjective(rest)
      /\ ToSet(rest) = IF op = "update" THEN Providers(offers, g) ELSE Providers(offers, g) \ {pkg}
      /\ alternatives[g] # <<>> /\ Head(alternatives[g]) # pkg =>
           rest # <<>> /\ Head(rest) = Head(alternatives[g])
  BY NextGroup, RemoveFirstKeeps
<1>6. op \in {"update", "remove"} /\ (op = "remove" => new = Nothing)
  BY <1>2 DEF IInv, CallInv
<1>7. ToSet(rest) = Providers(IF Passed(g)' THEN Later ELSE offers, g)
  <2>1. Passed(g)' <=> op = "remove"
    BY <1>2 DEF Passed, local
  <2>2. op = "remove" => Providers(Later, g) = Providers(offers, g) \ {pkg}
    BY <1>6, NextGroup DEF Providers, Later, Nothing, IInv, AltTypeOK
  <2> QED BY <2>1, <2>2, <1>5, <1>6
<1> HIDE DEF cleared, rest
<1>8. switch => Head(rest) \in Pkg /\ offers[Head(rest)] \in Versions(Head(rest))
  BY <1>5, NextGroup
<1>9. links' \in Disk /\ Agree(links', links, g)
  <2>1. CASE switch
    <3>1. SwitchAltGroup(cleared, g, Head(rest)) \in Disk
          /\ Agree(SwitchAltGroup(cleared, g, Head(rest)), cleared, g)
      BY <2>1, <1>4, <1>8, NextGroup, CreateFacts DEF SwitchAltGroup
    <3> QED BY <2>1, <3>1, <1>3, <1>4, AgreeTwice
  <2>2. CASE ~switch
    BY <2>2, <1>3, <1>4
  <2> QED BY <2>1, <2>2
<1>10. mine' \in [Group -> Seq(Entry)] /\ \E p \in Pkg : mine' \in Versions(p)
  <2>1. CASE switch
    BY <2>1, <1>3, <1>8, NextGroup, VersionFacts
  <2>2. CASE ~switch
    BY <2>2, <1>2, <1>3 DEF IInv, CallInv, AltTypeOK
  <2> QED BY <2>1, <2>2
<1>11. GroupLinks(g)'
  <2>1. alternatives'[g] = rest /\ offers' = offers /\ pkg' = pkg /\ op' = op /\ apc' # "register"
    BY <1>2, <1>3, NextGroup DEF IInv, AltTypeOK, local
  <2> SUFFICES ASSUME rest # <<>>, Head(rest) # pkg \/ op \in {"remove", "set"}
               PROVE  \A e \in ToSet(offers[Head(rest)][g]) : links'[LinkPath(e)] = e.target
    BY <2>1 DEF GroupLinks, LeadBy
  <2>2. CASE switch
    BY <2>2, <1>3, <1>4, <1>8, NextGroup, CreateFacts DEF SwitchAltGroup
  <2>3. CASE ~switch
    <3>1. ~Leads(g, pkg) /\ alternatives[g] # <<>> /\ Head(rest) = Head(alternatives[g])
      <4>1. op = "update" => rest = alternatives[g]
        BY DEF rest
      <4>2. op = "remove" => ~Leads(g, pkg) /\ alternatives[g] # <<>>
        <5>1. ToSet(<<>>) = {}
          BY DEF ToSet
        <5> QED BY <2>3, <1>5, <1>6, NextGroup, <5>1, SeqElements
      <4> QED BY <4>1, <4>2, <1>5, <1>6 DEF Leads
    <3>2. links' = links
      BY <2>3, <3>1, <1>3 DEF cleared
    <3>3. GroupLinks(g) /\ Head(alternatives[g]) # pkg
      BY <3>1, NextGroup DEF IInv, Leads
    <3> QED BY <3>1, <3>2, <3>3 DEF GroupLinks, LeadBy
  <2> QED BY <2>2, <2>3
<1> QED BY <1>2, <1>3, <1>5, <1>7, <1>9, <1>10, <1>11, LoopKeeps

(* One group of remove_obsoletes, with prune_altgroup if it is dropped.    *)
LEMMA ObsoleteKeeps == IInv /\ ObsoleteLoop => IInv'
<1> SUFFICES ASSUME IInv, ObsoleteLoop PROVE IInv'
  OBVIOUS
<1>1. PICK g \in left : g = Min(left)
  BY MinLeft DEF ObsoleteLoop, Loop
<1>2. /\ apc = "obsolete" /\ RemoveObsolete(g) /\ left' = left \ {g}
      /\ UNCHANGED <<installed, offers, apc, local>> /\ UNCHANGED mine
  BY <1>1 DEF ObsoleteLoop, Loop
<1> DEFINE lk == IF offers[pkg][g] # new[g] /\ Leads(g, pkg)
                   THEN RemoveSymlinks(links, new[g]) ELSE links
<1>3. lk \in Disk /\ Agree(lk, links, g)
  BY NextGroup, RemoveFacts, AgreeSame
<1>4. ~Leads(g, pkg) => lk = links
  OBVIOUS
<1>5. mine' \in [Group -> Seq(Entry)] /\ apc # "unregister" /\ op \in {"update", "reinstall"}
  BY <1>2 DEF IInv, AltTypeOK, CallInv
<1>6. IF new[g] = <<>> THEN Prune(g, lk) ELSE links' = lk /\ UNCHANGED alternatives
  BY <1>2 DEF RemoveObsolete
<1> HIDE DEF lk
<1>7. CASE new[g] # <<>>
  <2>1. alternatives' = [alternatives EXCEPT ![g] = alternatives[g]] /\ links' = lk
    BY <1>6, <1>7, NextGroup DEF IInv, AltTypeOK
  <2>2. ~Passed(g)'
    BY <1>2, <1>7 DEF Passed, local
  <2>3. GroupLinks(g)'
    BY <1>2, <1>4, <1>5, <2>1, NextGroup DEF IInv, GroupLinks, LeadBy, Leads, AltTypeOK, local
  <2> QED BY <1>2, <1>3, <1>5, <2>1, <2>2, <2>3, NextGroup, LoopKeeps
<1>8. CASE new[g] = <<>>
  <2> DEFINE rest == RemoveFirst(alternatives[g], pkg)
             latest == <<Last(rest)>> \o RemoveFirst(rest, Last(rest))
             switch == Leads(g, pkg) /\ rest # <<>>
             list == IF switch /\ ~pure THEN latest ELSE rest
  <2>1. /\ alternatives' = [alternatives EXCEPT ![g] = list]
        /\ links' = IF switch THEN SwitchAltGroup(lk, g, Head(list)) ELSE lk
    BY <1>6, <1>8 DEF Prune
  <2>2. /\ rest \in Seq(Pkg) /\ IsInjective(rest)
        /\ ToSet(rest) = Providers(offers, g) \ {pkg}
        /\ alternatives[g] # <<>> /\ Head(alternatives[g]) # pkg =>
             rest # <<>> /\ Head(rest) = Head(alternatives[g])
    BY NextGroup, RemoveFirstKeeps
  <2> HIDE DEF rest
  <2>3. /\ list \in Seq(Pkg) /\ IsInjective(list) /\ ToSet(list) = ToSet(rest)
        /\ list = <<>> <=> rest = <<>>
        /\ ~switch => list = rest
    <3>1. CASE switch /\ ~pure
      <4>1. Last(rest) \in Pkg /\ Last(rest) \in ToSet(rest)
        BY <3>1, <2>2, SeqElements
      <4>2. /\ RemoveFirst(rest, Last(rest)) \in Seq(Pkg)
            /\ IsInjective(RemoveFirst(rest, Last(rest)))
            /\ ToSet(RemoveFirst(rest, Last(rest))) = ToSet(rest) \ {Last(rest)}
        BY <2>2, RemoveFirstKeeps
      <4>3. /\ latest \in Seq(Pkg) /\ IsInjective(latest) /\ latest # <<>>
            /\ ToSet(latest) = (ToSet(rest) \ {Last(rest)}) \cup {Last(rest)}
        BY <4>1, <4>2, ConsKeeps
      <4>4. list = latest
        BY <3>1
      <4> QED BY <3>1, <4>1, <4>3, <4>4
    <3>2. CASE ~(switch /\ ~pure)
      BY <3>2, <2>2
    <3> QED BY <3>1, <3>2
  <2> HIDE DEF list
  <2>4. switch => /\ Head(list) \in Pkg /\ Head(list) # pkg
                  /\ offers[Head(list)] \in Versions(Head(list))
    BY <2>2, <2>3, SeqElements, NextGroup
  <2>5. links' \in Disk /\ Agree(links', links, g)
    <3>1. CASE switch
      <4>1. SwitchAltGroup(lk, g, Head(list)) \in Disk
            /\ Agree(SwitchAltGroup(lk, g, Head(list)), lk, g)
        BY <3>1, <2>4, <1>3, NextGroup, CreateFacts DEF SwitchAltGroup
      <4> QED BY <3>1, <4>1, <2>1, <1>3, AgreeTwice
    <3>2. CASE ~switch
      BY <3>2, <2>1, <1>3
    <3> QED BY <3>1, <3>2
  <2>6. ToSet(list) = Providers(IF Passed(g)' THEN Later ELSE offers, g)
    <3>1. Passed(g)'
      BY <1>2, <1>8 DEF Passed, local
    <3>2. Providers(Later, g) = Providers(offers, g) \ {pkg}
      BY <1>8, NextGroup DEF Providers, Later, IInv, AltTypeOK
    <3> QED BY <3>1, <3>2, <2>2, <2>3
  <2>7. GroupLinks(g)'
    <3>1. /\ alternatives'[g] = list /\ offers' = offers /\ pkg' = pkg
          /\ op' \notin {"remove", "set"} /\ apc' # "register"
      BY <1>2, <1>5, <2>1, NextGroup DEF IInv, AltTypeOK, local
    <3> SUFFICES ASSUME list # <<>>, Head(list) # pkg
                 PROVE  \A e \in ToSet(offers[Head(list)][g]) : links'[LinkPath(e)] = e.target
      BY <3>1 DEF GroupLinks, LeadBy
    <3>2. CASE switch
      BY <3>2, <2>1, <2>4, <1>3, NextGroup, CreateFacts DEF SwitchAltGroup
    <3>3. CASE ~switch
      <4>1. ~Leads(g, pkg) /\ list = rest /\ rest # <<>>
        BY <3>3, <2>3
      <4>2. alternatives[g] # <<>>
        <5>1. ToSet(<<>>) = {}
          BY DEF ToSet
        <5> QED BY <4>1, <2>2, NextGroup, <5>1, SeqElements
      <4>3. Head(list) = Head(alternatives[g]) /\ Head(alternatives[g]) # pkg
        BY <4>1, <4>2, <2>2 DEF Leads
      <4>4. links' = links
        BY <3>3, <4>1, <2>1, <1>4
      <4>5. GroupLinks(g)
        BY NextGroup DEF IInv
      <4> QED BY <4>2, <4>3, <4>4, <4>5 DEF GroupLinks, LeadBy
    <3> QED BY <3>2, <3>3
  <2> QED BY <1>2, <1>5, <2>1, <2>3, <2>5, <2>6, <2>7, LoopKeeps
<1> QED BY <1>7, <1>8

(* One group of flappy_alternatives_register.                              *)
LEMMA RegisterKeeps == IInv /\ RegisterLoop => IInv'
<1> SUFFICES ASSUME IInv, RegisterLoop PROVE IInv'
  OBVIOUS
<1>1. PICK g \in left : g = Min(left)
  BY MinLeft DEF RegisterLoop, Loop
<1>2. /\ apc = "register" /\ RegisterGroup(g) /\ left' = left \ {g}
      /\ UNCHANGED <<installed, offers, apc, local>> /\ UNCHANGED mine
  BY <1>1 DEF RegisterLoop, Loop
<1> DEFINE list == IF pkg \in ToSet(alternatives[g]) THEN alternatives[g]
                   ELSE Append(alternatives[g], pkg)
           applied == alternatives[g] = <<>> \/ Leads(g, pkg)
<1>3. /\ alternatives' = [alternatives EXCEPT ![g] = list]
      /\ links' = IF applied THEN CreateSymlinks(links, new[g]) ELSE links
  BY <1>2, NextGroup DEF RegisterGroup, IInv, AltTypeOK
<1>4. /\ list \in Seq(Pkg) /\ IsInjective(list) /\ list # <<>>
      /\ ToSet(list) = Providers(offers, g) \cup {pkg}
      /\ alternatives[g] # <<>> => Head(list) = Head(alternatives[g])
      /\ alternatives[g] = <<>> => Head(list) = pkg
  <2>1. ToSet(<<>>) = {}
    BY DEF ToSet
  <2> QED BY <2>1, NextGroup, AppendKeeps
<1> HIDE DEF list
<1>5. mine' \in [Group -> Seq(Entry)] /\ apc # "unregister" /\ new[g] # <<>>
      /\ op \notin {"remove", "set"}
  BY <1>2 DEF IInv, AltTypeOK, CallInv, Provided
<1>6. links' \in Disk /\ Agree(links', links, g)
  BY <1>3, NextGroup, CreateFacts, AgreeSame
<1>7. ToSet(list) = Providers(IF Passed(g)' THEN Later ELSE offers, g)
  <2>1. Passed(g)'
    BY <1>2 DEF Passed, local
  <2>2. Providers(Later, g) = Providers(offers, g) \cup {pkg}
    BY <1>5, NextGroup DEF Providers, Later, IInv, AltTypeOK
  <2> QED BY <2>1, <2>2, <1>4
<1>8. GroupLinks(g)'
  <2>1. /\ alternatives'[g] = list /\ offers' = offers /\ pkg' = pkg /\ Later' = Later
        /\ op' \notin {"remove", "set"}
    BY <1>2, <1>3, <1>5, NextGroup DEF IInv, AltTypeOK, local, Later
  <2>2. CASE applied
    <3>1. Head(list) = pkg /\ Later[pkg] = new
      BY <2>2, <1>4, NextGroup DEF Leads, Later, IInv, AltTypeOK
    <3>2. \A e \in ToSet(new[g]) : links'[LinkPath(e)] = e.target
      BY <2>2, <1>3, NextGroup, CreateFacts
    <3> QED BY <3>1, <3>2, <2>1 DEF GroupLinks, LeadBy
  <2>3. CASE ~applied
    <3>1. alternatives[g] # <<>> /\ Head(list) = Head(alternatives[g]) /\ Head(list) # pkg
      BY <2>3, <1>4 DEF Leads
    <3>2. links' = links /\ GroupLinks(g)
      BY <2>3, <1>3, NextGroup DEF IInv
    <3>3. Later[Head(list)] = offers[Head(list)]
      BY <3>1, <1>4, NextGroup, SeqElements DEF Later, IInv, AltTypeOK
    <3> QED BY <3>1, <3>2, <3>3, <2>1 DEF GroupLinks, LeadBy
  <2> QED BY <2>2, <2>3
<1> QED BY <1>2, <1>3, <1>4, <1>5, <1>6, <1>7, <1>8, LoopKeeps

(* One group of flappy_alternatives_set.                                   *)
LEMMA SetKeeps == IInv /\ SetLoop => IInv'
<1> SUFFICES ASSUME IInv, SetLoop PROVE IInv'
  OBVIOUS
<1>1. PICK g \in left : g = Min(left)
  BY MinLeft DEF SetLoop, Loop
<1>2. /\ apc = "set" /\ SetGroup(g) /\ left' = left \ {g}
      /\ UNCHANGED <<installed, offers, apc, local>> /\ UNCHANGED mine
  BY <1>1 DEF SetLoop, Loop
<1>3. pkg \in ToSet(alternatives[g])
  BY <1>2, NextGroup DEF IInv, CallInv, Provided, Providers
<1>4. alternatives[g] # <<>>
  BY <1>3 DEF ToSet
<1> DEFINE lk == IF Leads(g, pkg) THEN links
                 ELSE RemoveSymlinks(links, offers[Head(alternatives[g])][g])
           list == <<pkg>> \o RemoveFirst(alternatives[g], pkg)
<1>5. /\ alternatives' = [alternatives EXCEPT ![g] = list]
      /\ links' = CreateSymlinks(lk, offers[pkg][g])
  BY <1>2, <1>4 DEF SetGroup
<1>6. lk \in Disk /\ Agree(lk, links, g)
  <2>1. Head(alternatives[g]) \in Pkg
    BY <1>4, NextGroup
  <2> QED BY <2>1, NextGroup, RemoveFacts, AgreeSame
<1>7. /\ list \in Seq(Pkg) /\ IsInjective(list) /\ list # <<>> /\ Head(list) = pkg
      /\ ToSet(list) = Providers(offers, g)
  <2>1. /\ RemoveFirst(alternatives[g], pkg) \in Seq(Pkg)
        /\ IsInjective(RemoveFirst(alternatives[g], pkg))
        /\ ToSet(RemoveFirst(alternatives[g], pkg)) = Providers(offers, g) \ {pkg}
    BY NextGroup, RemoveFirstKeeps
  <2>2. /\ list \in Seq(Pkg) /\ IsInjective(list) /\ list # <<>> /\ Head(list) = pkg
        /\ ToSet(list) = (Providers(offers, g) \ {pkg}) \cup {pkg}
    BY <2>1, NextGroup, ConsKeeps
  <2> QED BY <2>2, <1>3, NextGroup
<1> HIDE DEF lk, list
<1>8. /\ links' \in Disk /\ Agree(links', lk, g)
      /\ \A e \in ToSet(offers[pkg][g]) : links'[LinkPath(e)] = e.target
  BY <1>5, <1>6, NextGroup, CreateFacts
<1>9. Agree(links', links, g)
  BY <1>6, <1>8, AgreeTwice
<1>10. ~Passed(g)' /\ mine' \in [Group -> Seq(Entry)] /\ apc # "unregister"
  BY <1>2 DEF Passed, IInv, AltTypeOK
<1>11. GroupLinks(g)'
  <2>1. alternatives'[g] = list /\ offers' = offers /\ apc' # "register"
    BY <1>2, <1>5, NextGroup DEF IInv, AltTypeOK
  <2> QED BY <2>1, <1>7, <1>8 DEF GroupLinks, LeadBy
<1> QED BY <1>2, <1>5, <1>7, <1>8, <1>9, <1>10, <1>11, LoopKeeps

(* Between two loops nothing happens to the lists and the links.           *)
LEMMA StageKeeps ==
  ASSUME IInv, pkg \in Pkg,
         UNCHANGED <<alternatives, installed, offers, links, local>>,
         AltTypeOK', CallInv', apc' # "unregister",
         \A g \in Group : Providers(IF Passed(g) THEN Later ELSE offers, g)
                            = Providers(IF Passed(g)' THEN Later ELSE offers, g),
         apc' = "register" => \A g \in Group : g \notin left' => pkg \notin ToSet(alternatives[g])
  PROVE  IInv'
<1>1. Later' = Later
  BY DEF Later, local
<1>2. ListInv'
  BY <1>1 DEF IInv, ListInv, Providers
<1>3. ASSUME NEW g \in Group, alternatives[g] # <<>>,
             Head(alternatives[g]) # pkg \/ op \in {"remove", "set"}
      PROVE  LeadBy(offers, g)
  BY <1>3 DEF IInv, GroupLinks
<1>4. ASSUME NEW g \in Group, alternatives[g] # <<>>, pkg \notin ToSet(alternatives[g])
      PROVE  LeadBy(Later, g)
  <2>1. Head(alternatives[g]) # pkg /\ Head(alternatives[g]) \in Pkg
    BY <1>4, SeqElements DEF IInv, AltTypeOK
  <2>2. Later[Head(alternatives[g])] = offers[Head(alternatives[g])]
    BY <2>1 DEF Later, IInv, AltTypeOK
  <2> QED BY <1>3, <1>4, <2>1, <2>2 DEF LeadBy
<1>5. ASSUME NEW g \in Group PROVE GroupLinks(g)'
  BY <1>1, <1>3, <1>4 DEF GroupLinks, LeadBy, local
<1> QED BY <1>2, <1>5 DEF IInv

(* A command ends: what the packages offer is what the loops left behind.  *)
LEMMA ReturnKeeps ==
  ASSUME IInv, Return, pkg \in Pkg, new \in Versions(pkg),
         offers' = Later \/ offers' = offers,
         installed' \subseteq Pkg,
         \A p \in Pkg : p \notin installed' => offers'[p] = Nothing,
         \A g \in Group : Providers(IF Passed(g) THEN Later ELSE offers, g) = Providers(offers', g),
         \A g \in Group : alternatives[g] # <<>> => LeadBy(offers', g)
  PROVE  IInv'
<1>1. offers' \in [Pkg -> [Group -> Seq(Entry)]] /\ \A p \in Pkg : offers'[p] \in Versions(p)
  <2>1. new \in [Group -> Seq(Entry)]
    BY DEF IInv, AltTypeOK
  <2> QED BY <2>1 DEF Later, IInv, AltTypeOK, CallInv
<1>2. AltTypeOK'
  <2>1. Nothing \in [Group -> Seq(Entry)]
    BY DEF Nothing
  <2> QED BY <1>1, <2>1 DEF Return, IInv, AltTypeOK
<1>3. CallInv'
  BY <1>1 DEF Return, CallInv
<1>4. ListInv'
  <2>1. \A g \in Group : ~Passed(g)'
    BY DEF Return, Passed
  <2> QED BY <2>1 DEF Return, IInv, ListInv, Providers
<1>5. \A g \in Group : GroupLinks(g)'
  BY DEF Return, GroupLinks, LeadBy
<1> QED BY <1>2, <1>3, <1>4, <1>5 DEF IInv

(* A command begins with nothing done.                                     *)
LEMMA CallKeeps ==
  ASSUME IInv, NEW loop \in {"unregister", "obsolete", "register", "set"},
         NEW o \in {"install", "reinstall", "update", "remove", "set"},
         NEW p \in Pkg, NEW n \in Versions(p), NEW b \in BOOLEAN, NEW groups \in SUBSET Group,
         Call(loop, o, p, n, b, groups),
         \/ loop = "unregister" /\ o \in {"update", "remove"} /\ groups = Provided(offers[p])
         \/ loop = "obsolete" /\ o = "reinstall" /\ groups = Provided(offers[p])
         \/ loop = "register" /\ o = "install" /\ groups = Provided(n)
         \/ loop = "set" /\ o = "set" /\ groups \subseteq Provided(offers[p]),
         IF o = "install" THEN p \notin installed ELSE p \in installed,
         o = "remove" => n = Nothing,
         o = "reinstall" => n = offers[p]
  PROVE  IInv'
<1>1. p # None /\ pkg = None
  BY AltAssumption DEF Call, IInv, CallInv
<1>2. AltTypeOK'
  <2>1. n \in [Group -> Seq(Entry)] /\ offers[p] \in [Group -> Seq(Entry)]
    BY VersionTyped DEF IInv, AltTypeOK
  <2> QED BY <2>1 DEF Call, IInv, AltTypeOK
<1>3. CallInv'
  BY <1>1 DEF Call, IInv, CallInv
<1>4. o = "install" => \A g \in Group : offers[p][g] = <<>>
  BY DEF IInv, CallInv, Nothing
<1>5. Later' = [offers EXCEPT ![p] = n]
  BY DEF Call, Later
<1>6. ASSUME NEW g \in Group, Passed(g)'
      PROVE  n[g] = <<>> /\ offers[p][g] = <<>>
  <2>1. CASE o = "install"
    BY <2>1, <1>4, <1>6 DEF Call, Passed, Provided
  <2>2. CASE o # "install"
    BY <2>2, <1>6 DEF Call, Passed, Provided, Nothing
  <2> QED BY <2>1, <2>2
<1>7. ListInv'
  <2> SUFFICES ASSUME NEW g \in Group, Passed(g)'
               PROVE  Providers([offers EXCEPT ![p] = n], g) = Providers(offers, g)
    <3>1. \A g \in Group : ~Passed(g)
      BY DEF Call, Passed
    <3> QED BY <1>5, <3>1 DEF Call, IInv, ListInv, Providers
  <2> QED BY <1>6 DEF Providers, IInv, AltTypeOK
<1>8. ASSUME NEW g \in Group PROVE GroupLinks(g)'
  <2>1. alternatives'[g] = alternatives[g] /\ links' = links /\ offers' = offers
    BY DEF Call
  <2> SUFFICES ASSUME alternatives[g] # <<>>
               PROVE  /\ LeadBy(offers, g)
                      /\ apc' = "register" /\ g \notin left' => LeadBy([offers EXCEPT ![p] = n], g)
    BY <2>1, <1>5 DEF GroupLinks, LeadBy
  <2>2. Head(alternatives[g]) \in Pkg /\ Head(alternatives[g]) \in ToSet(alternatives[g])
    BY SeqElements DEF IInv, AltTypeOK
  <2>3. LeadBy(offers, g)
    BY <1>1, <2>2, AltAssumption DEF IInv, GroupLinks
  <2>4. ASSUME apc' = "register"
        PROVE  [offers EXCEPT ![p] = n][Head(alternatives[g])] = offers[Head(alternatives[g])]
    <3>1. ~Passed(g)
      BY DEF Call, Passed
    <3>2. offers[Head(alternatives[g])][g] # <<>>
      BY <2>2, <3>1 DEF IInv, ListInv, Providers
    <3>3. offers[p][g] = <<>>
      BY <2>4, <1>4 DEF Call
    <3> QED BY <2>2, <3>2, <3>3 DEF IInv, AltTypeOK
  <2> QED BY <2>3, <2>4 DEF LeadBy
<1> QED BY <1>2, <1>3, <1>7, <1>8 DEF IInv

(* Every step of every command.                                            *)
LEMMA NextIInv == IInv /\ [AltNext]_avars => IInv'
<1> SUFFICES ASSUME IInv, [AltNext]_avars PROVE IInv'
  OBVIOUS
<1>0. /\ \A p \in Pkg : offers[p] \in Versions(p) /\ Nothing \in Versions(p)
      /\ \A p \in Pkg : \A n \in Offer[p] : n \in Versions(p)
      /\ \A n : Provided(n) \in SUBSET Group
  BY DEF IInv, CallInv, Versions, Provided
<1>1. ASSUME NEW p \in Pkg, NEW n \in Offer[p], Install(p, n) PROVE IInv'
  BY <1>0, <1>1, CallKeeps DEF Install
<1>2. ASSUME NEW p \in Pkg, NEW n \in Offer[p], NEW b \in BOOLEAN, Update(p, n, b) PROVE IInv'
  BY <1>0, <1>2, CallKeeps DEF Update
<1>3. ASSUME NEW p \in Pkg, Reinstall(p) PROVE IInv'
  BY <1>0, <1>3, CallKeeps DEF Reinstall
<1>4. ASSUME NEW p \in Pkg, RemovePkg(p) PROVE IInv'
  BY <1>0, <1>4, CallKeeps DEF RemovePkg
<1>5. ASSUME NEW p \in Pkg, SetAll(p) PROVE IInv'
  BY <1>0, <1>5, CallKeeps DEF SetAll
<1>6. ASSUME NEW p \in Pkg, NEW g \in Group, Set(p, g) PROVE IInv'
  <2>1. {g} \in SUBSET Group /\ {g} \subseteq Provided(offers[p])
    BY <1>6 DEF Set, Provided
  <2> QED BY <1>0, <1>6, <2>1, CallKeeps DEF Set
<1>7. CASE Unregistered
  <2>1. pkg \in installed /\ pkg \in Pkg /\ new \in Versions(pkg)
    BY <1>7, AltAssumption DEF Unregistered, IInv, CallInv, AltTypeOK
  <2>2. CASE op = "remove"
    <3>1. /\ Return /\ installed' = installed \ {pkg} /\ new = Nothing
          /\ offers' = Later
      BY <1>7, <2>2 DEF Unregistered, IInv, CallInv, Later
    <3>2. \A g \in Group : Passed(g)
      BY <1>7, <2>2 DEF Unregistered, Passed
    <3>3. ASSUME NEW g \in Group, alternatives[g] # <<>> PROVE LeadBy(offers', g)
      <4>1. Head(alternatives[g]) \in Pkg /\ Head(alternatives[g]) \in ToSet(alternatives[g])
        BY <3>3, SeqElements DEF IInv, AltTypeOK
      <4>2. Later[Head(alternatives[g])][g] # <<>>
        BY <4>1, <3>2 DEF IInv, ListInv, Providers
      <4>3. Later[Head(alternatives[g])] = offers[Head(alternatives[g])]
        BY <4>1, <4>2, <3>1 DEF Later, Nothing, IInv, AltTypeOK
      <4>4. LeadBy(offers, g)
        BY <2>2, <3>3 DEF IInv, GroupLinks
      <4> QED BY <3>1, <4>3, <4>4 DEF LeadBy
    <3>4. \A p \in Pkg : p \notin installed' => offers'[p] = Nothing
      BY <3>1 DEF Later, IInv, CallInv, AltTypeOK
    <3>5. installed' \subseteq Pkg
      BY <3>1 DEF IInv, AltTypeOK
    <3> QED BY <2>1, <3>1, <3>2, <3>3, <3>4, <3>5, ReturnKeeps
  <2>3. CASE op = "update"
    <3>1. /\ apc = "unregister" /\ apc' = "obsolete" /\ left' = Provided(offers[pkg])
          /\ UNCHANGED <<alternatives, installed, offers, links, local>> /\ UNCHANGED mine
      BY <1>7, <2>3 DEF Unregistered
    <3>2. AltTypeOK' /\ CallInv'
      BY <2>1, <2>3, <3>1, <1>0 DEF IInv, AltTypeOK, CallInv, local
    <3>3. ASSUME NEW g \in Group
          PROVE  Providers(IF Passed(g) THEN Later ELSE offers, g)
                   = Providers(IF Passed(g)' THEN Later ELSE offers, g)
      <4>1. ~Passed(g)
        BY <2>3, <3>1 DEF Passed
      <4>2. Passed(g)' => new[g] = <<>> /\ offers[pkg][g] = <<>>
        BY <3>1 DEF Passed, Provided, local
      <4> QED BY <2>1, <4>1, <4>2 DEF Providers, Later, IInv, AltTypeOK
    <3> QED BY <2>1, <3>1, <3>2, <3>3, StageKeeps
  <2> QED BY <1>7, <2>2, <2>3 DEF Unregistered
<1>8. CASE ObsoletesRemoved
  <2>1. /\ apc = "obsolete" /\ left = {} /\ apc' = "register" /\ left' = Provided(new)
        /\ UNCHANGED <<alternatives, installed, offers, links, local>> /\ UNCHANGED mine
    BY <1>8 DEF ObsoletesRemoved
  <2>2. pkg \in Pkg
    BY <2>1 DEF IInv, CallInv, AltTypeOK
  <2>3. AltTypeOK' /\ CallInv'
    BY <2>1, <2>2, <1>0 DEF IInv, AltTypeOK, CallInv, local
  <2>4. \A g \in Group : (Passed(g) <=> new[g] = <<>>) /\ (Passed(g)' <=> new[g] = <<>>)
    BY <2>1 DEF Passed, Provided, local
  <2>5. \A g \in Group : g \notin left' => pkg \notin ToSet(alternatives[g])
    BY <2>1, <2>2, <2>4 DEF IInv, ListInv, AltTypeOK, Later, Providers, Provided
  <2> QED BY <2>1, <2>2, <2>3, <2>4, <2>5, StageKeeps
<1>9. CASE Registered
  <2>1. /\ apc = "register" /\ left = {} /\ Return
        /\ installed' = installed \cup {pkg} /\ offers' = Later
    BY <1>9 DEF Registered, Later
  <2>2. pkg \in Pkg /\ new \in Versions(pkg)
    BY <2>1, AltAssumption DEF IInv, CallInv, AltTypeOK
  <2>3. \A g \in Group : Passed(g) /\ (alternatives[g] # <<>> => LeadBy(Later, g))
    BY <2>1 DEF Passed, IInv, GroupLinks
  <2>4. \A p \in Pkg : p \notin installed' => offers'[p] = Nothing
    BY <2>1 DEF Later, IInv, CallInv, AltTypeOK
  <2>5. installed' \subseteq Pkg
    BY <2>1, <2>2 DEF IInv, AltTypeOK
  <2> QED BY <2>1, <2>2, <2>3, <2>4, <2>5, ReturnKeeps
<1>10. CASE SetDone
  <2>1. /\ apc = "set" /\ op = "set" /\ Return /\ installed' = installed /\ offers' = offers
    BY <1>10 DEF SetDone, IInv, CallInv
  <2>2. pkg \in Pkg /\ new \in Versions(pkg)
    BY <2>1, AltAssumption DEF IInv, CallInv, AltTypeOK
  <2>3. \A g \in Group : ~Passed(g) /\ (alternatives[g] # <<>> => LeadBy(offers, g))
    BY <2>1 DEF Passed, IInv, GroupLinks
  <2> QED BY <2>1, <2>2, <2>3, ReturnKeeps DEF IInv, CallInv, AltTypeOK
<1>11. CASE UNCHANGED avars
  BY <1>11 DEF avars, local, IInv, AltTypeOK, CallInv, ListInv, GroupLinks, LeadBy, Passed, Later
<1> QED
  BY <1>1, <1>2, <1>3, <1>4, <1>5, <1>6, <1>7, <1>8, <1>9, <1>10, <1>11,
     UnregisterKeeps, ObsoleteKeeps, RegisterKeeps, SetKeeps
  DEF AltNext

-----------------------------------------------------------------------------
(* The types of the groups, the links and the running command.             *)
THEOREM AlternativesTyped == AltSpec => []AltTypeOK
<1>1. IInv => AltTypeOK
  BY DEF IInv
<1> QED BY InitIInv, NextIInv, <1>1, PTL DEF AltSpec

(* flappy_alternatives_register, _unregister and _set in any order: between *)
(* commands every group lists exactly the installed packages that provide   *)
(* it, each once.                                                           *)
THEOREM GroupsExact == AltSpec => []RegisteredExactly
<1>1. IInv => RegisteredExactly
  <2> SUFFICES ASSUME IInv, apc = "idle", NEW g \in Group
               PROVE  /\ ToSet(alternatives[g]) = {p \in installed : offers[p][g] # <<>>}
                      /\ IsInjective(alternatives[g])
    BY DEF RegisteredExactly
  <2>1. ToSet(alternatives[g]) = Providers(offers, g) /\ IsInjective(alternatives[g])
    BY DEF IInv, ListInv, Passed
  <2>2. \A p \in Pkg : offers[p][g] # <<>> => p \in installed
    BY DEF IInv, CallInv, Nothing
  <2>3. installed \subseteq Pkg
    BY DEF IInv, AltTypeOK
  <2> QED BY <2>1, <2>2, <2>3 DEF Providers
<1> QED BY InitIInv, NextIInv, <1>1, PTL DEF AltSpec

(* Between commands the links on the disk are the ones of the first package *)
(* of every group (create_symlinks and remove_symlinks in all the loops).   *)
THEOREM LinksLead == AltSpec => []LinksOfHead
<1>1. IInv => LinksOfHead
  <2> SUFFICES ASSUME IInv, apc = "idle", NEW p \in installed, NEW g \in Group, Leads(g, p)
               PROVE  \A e \in ToSet(offers[p][g]) : links[LinkPath(e)] = e.target
    BY DEF LinksOfHead, CheckPkgAlternatives
  <2>1. p \in Pkg /\ p # pkg
    BY AltAssumption DEF IInv, AltTypeOK, CallInv
  <2> QED BY <2>1 DEF IInv, GroupLinks, LeadBy, Leads
<1> QED BY InitIInv, NextIInv, <1>1, PTL DEF AltSpec

(* No transaction takes the head of a group from a package that stays and   *)
(* goes on providing it: prune_altgroup and _unregister switch only what    *)
(* was current, _register appends.                                          *)
THEOREM ChoiceKept == AltSpec => ProviderKept
<1> DEFINE Kept(g, p) ==
      Leads(g, p) /\ ~Leads(g, p)' =>
        op = "set" \/ (p = pkg /\ (op = "remove" \/ (op = "update" /\ new[g] = <<>>)))
<1>1. ASSUME IInv, [AltNext]_avars, NEW h \in Group, NEW p \in Pkg PROVE Kept(h, p)
  <2> SUFFICES ASSUME Leads(h, p), ~Leads(h, p)', op # "set"
               PROVE  p = pkg /\ (op = "remove" \/ (op = "update" /\ new[h] = <<>>))
    OBVIOUS
  <2>1. alternatives'[h] # alternatives[h]
    BY DEF Leads
  <2>2. CASE UnregisterLoop
    <3>1. PICK g \in left : g = Min(left)
      BY <1>1, <2>2, MinLeft DEF UnregisterLoop, Loop
    <3>2. apc = "unregister" /\ UnregisterGroup(g)
      BY <2>2, <3>1 DEF UnregisterLoop, Loop
    <3>3. op \in {"update", "remove"}
      BY <1>1, <3>2 DEF IInv, CallInv
    <3>4. alternatives \in [Group -> Seq(Pkg)] /\ g \in Group
      BY <1>1 DEF IInv, AltTypeOK
    <3>5. op = "remove" /\ h = g /\ alternatives'[g] = RemoveFirst(alternatives[g], pkg)
      BY <2>1, <3>2, <3>3, <3>4 DEF UnregisterGroup
    <3>6. IsInjective(alternatives[g])
      BY <1>1, <3>4 DEF IInv, ListInv
    <3> QED BY <3>4, <3>5, <3>6, RemoveFirstKeeps DEF Leads
  <2>3. CASE ObsoleteLoop
    <3>1. PICK g \in left : g = Min(left)
      BY <1>1, <2>3, MinLeft DEF ObsoleteLoop, Loop
    <3>2. apc = "obsolete" /\ RemoveObsolete(g)
      BY <2>3, <3>1 DEF ObsoleteLoop, Loop
    <3>3. alternatives \in [Group -> Seq(Pkg)] /\ g \in Group
      BY <1>1 DEF IInv, AltTypeOK
    <3>4. op \in {"update", "reinstall"} /\ (op = "reinstall" => new[g] # <<>>)
      BY <1>1, <3>2 DEF IInv, CallInv, Provided
    <3>5. /\ new[g] = <<>> /\ h = g
          /\ ~Leads(g, pkg) => alternatives'[g] = RemoveFirst(alternatives[g], pkg)
      BY <2>1, <3>2, <3>3 DEF RemoveObsolete, Prune
    <3>6. IsInjective(alternatives[g])
      BY <1>1, <3>3 DEF IInv, ListInv
    <3> QED BY <3>3, <3>4, <3>5, <3>6, RemoveFirstKeeps DEF Leads
  <2>4. CASE RegisterLoop
    <3>1. PICK g \in left : g = Min(left)
      BY <1>1, <2>4, MinLeft DEF RegisterLoop, Loop
    <3>2. RegisterGroup(g)
      BY <2>4, <3>1 DEF RegisterLoop, Loop
    <3>3. alternatives \in [Group -> Seq(Pkg)] /\ g \in Group /\ pkg \in Pkg
      BY <1>1, NextGroup DEF IInv, AltTypeOK
    <3>4. h = g /\ alternatives'[g] = Append(alternatives[g], pkg)
      BY <2>1, <3>2, <3>3 DEF RegisterGroup
    <3> QED BY <3>3, <3>4 DEF Leads
  <2>5. CASE SetLoop
    BY <2>5, <1>1 DEF SetLoop, Loop, IInv, CallInv
  <2> QED
    BY <1>1, <2>1, <2>2, <2>3, <2>4, <2>5
    DEF AltNext, Install, Update, Reinstall, RemovePkg, SetAll, Set, Call, Unregistered,
        ObsoletesRemoved, Registered, SetDone, Return, avars
<1>2. IInv /\ [AltNext]_avars => [\A g \in Group : \A p \in Pkg : Kept(g, p)]_avars
  BY <1>1
<1> QED BY InitIInv, NextIInv, <1>2, PTL DEF AltSpec, ProviderKept

-----------------------------------------------------------------------------
(* Orphans: the automatic mode.                                            *)

Settled(n) == db[n].auto /\ Revdeps(n) \subseteq ToSet(orphans) => n \in ToSet(orphans)

(* What is in the array has to go, and a pass over the database that adds  *)
(* nothing leaves nothing to add behind it.                                *)
AutomaticInv ==
  /\ opc \in {"next", "tree", "rdeps"} => orphansUser # {}
  /\ opc = "scan" =>
       /\ orphansUser = {} /\ orphans \in Seq(Installed) /\ scan \subseteq Installed
       /\ added \in BOOLEAN
       /\ ToSet(orphans) \subseteq LeftOver({})
       /\ ~added => \A n \in Installed \ scan : Settled(n)
  /\ opc = "found" /\ orphansUser = {} => ToSet(orphans) = LeftOver({})

(* Nothing but what was asked for and what has to be dropped with it.      *)
LEMMA LeftOverFacts ==
  ASSUME NEW R, NEW n \in Installed
  PROVE  /\ n \in R => n \in LeftOver(R)
         /\ db[n].auto /\ Revdeps(n) \subseteq LeftOver(R) /\ (R # {} => Revdeps(n) # {})
              => n \in LeftOver(R)
BY DEF LeftOver, Dropped

(* A set of packages that has to be dropped is all of it once nothing is   *)
(* missing.                                                                *)
LEMMA LeftOverLeast ==
  ASSUME NEW R, NEW S \in SUBSET Installed, S \subseteq LeftOver(R), Dropped(R, S)
  PROVE  S = LeftOver(R)
BY DEF LeftOver

(* The database does not change, so neither does what is left over.        *)
LEMMA PoolSame ==
  ASSUME UNCHANGED pool
  PROVE  /\ Installed' = Installed /\ PoolTypeOK' = PoolTypeOK /\ Regular' = Regular
         /\ \A n : Revdeps(n)' = Revdeps(n)
         /\ \A R : LeftOver(R)' = LeftOver(R)
         /\ \A p : DepTarget(p)' = DepTarget(p)
<1> USE DEF pool
<1>1. Installed' = Installed /\ PoolTypeOK' = PoolTypeOK /\ \A n : Inst(n)' = Inst(n)
  BY DEF Installed, PoolTypeOK, Inst
<1>2. \A p : VpkgProvider(p)' = VpkgProvider(p)
  <2> SUFFICES ASSUME NEW p PROVE VpkgProvider(p)' = VpkgProvider(p)
    OBVIOUS
  <2>1. UNION {meta[Inst(n)].provides : n \in Installed}'
          = UNION {meta[Inst(n)].provides : n \in Installed}
    BY <1>1
  <2> DEFINE provided == {v \in UNION {meta[Inst(n)].provides : n \in Installed} : Matches(v, p)}
             first == <<p.name, Min({v[2] : v \in provided})>>
             by == {n \in Installed : first \in meta[Inst(n)].provides}
  <2>2. provided' = provided
    BY <2>1
  <2>3. first' = first
    BY <2>2
  <2> HIDE DEF provided, first
  <2>4. by' = by
    BY <1>1, <2>3
  <2>5. VpkgProvider(p) = IF provided = {} THEN 0 ELSE Max(by)
    BY DEF VpkgProvider, provided, first
  <2>6. VpkgProvider(p)' = IF provided' = {} THEN 0 ELSE Max(by')
    BY DEF VpkgProvider, provided, first
  <2> HIDE DEF by
  <2> QED BY <2>2, <2>4, <2>5, <2>6
<1>3. \A p : DepTarget(p)' = DepTarget(p) /\ DbFind(p)' = DbFind(p)
  BY <1>1, <1>2 DEF DepTarget, DbFind, DbPkg, DbVirtual
<1>4. \A n : Revdeps(n)' = Revdeps(n)
  BY <1>1, <1>3 DEF Revdeps
<1>5. \A R : LeftOver(R)' = LeftOver(R)
  BY <1>1, <1>4 DEF LeftOver, Dropped
<1>6. Regular' = Regular
  BY <1>1, <1>3 DEF Regular, ProvidesName, Provides
<1> QED BY <1>1, <1>3, <1>4, <1>5, <1>6

(* Every step of the search keeps the invariant of the automatic mode.     *)
LEMMA AutomaticStep ==
  PoolTypeOK /\ AutomaticInv /\ [FindNext]_<<pool, ovars>> => AutomaticInv'
<1> SUFFICES ASSUME PoolTypeOK, AutomaticInv, [FindNext]_<<pool, ovars>> PROVE AutomaticInv'
  OBVIOUS
<1>1. UNCHANGED pool
  BY DEF FindNext
<1>2. /\ Installed' = Installed /\ db' = db
      /\ \A n : Revdeps(n)' = Revdeps(n) /\ LeftOver({})' = LeftOver({})
  BY <1>1, PoolSame DEF pool
<1>3. ASSUME UNCHANGED ovars PROVE AutomaticInv'
  BY <1>2, <1>3 DEF AutomaticInv, ovars, Settled
<1>4. CASE FindAutomatic
  <2>1. /\ opc' = "scan" /\ orphansUser' = {} /\ orphans' = <<>> /\ scan' = Installed
        /\ added' = FALSE
    BY <1>4 DEF FindAutomatic
  <2>2. ToSet(orphans') = {} /\ orphans' \in Seq(Installed)
    BY <2>1 DEF ToSet
  <2> QED BY <2>1, <2>2, <1>2 DEF AutomaticInv
<1>5. ASSUME NEW n \in Installed, FindRecursive(n) PROVE AutomaticInv'
  BY <1>5 DEF FindRecursive, AutomaticInv
<1>6. CASE ScanAutomatic
  <2> DEFINE n == Min(scan)
             add == db[n].auto /\ n \notin ToSet(orphans) /\ AllQueued(Revdeps(n))
  <2>1. /\ opc = "scan" /\ scan # {} /\ opc' = opc /\ orphansUser' = orphansUser
        /\ orphans' = IF add THEN Append(orphans, n) ELSE orphans
        /\ added' = (added \/ add) /\ scan' = scan \ {n}
    BY <1>6 DEF ScanAutomatic
  <2>2. n \in scan /\ n \in Installed
    <3>1. scan \subseteq Installed /\ Installed \subseteq Nat
      BY <2>1, PoolAssumption DEF AutomaticInv, Installed, Name
    <3> QED BY <2>1, <3>1, MinExists
  <2> HIDE DEF n
  <2>3. CASE add
    <3>1. /\ orphans' \in Seq(Installed)
          /\ ToSet(orphans') = ToSet(orphans) \cup {n}
      <4>1. ToSet(Append(orphans, n)) = ToSet(orphans) \cup {n}
        BY <2>1, <2>2 DEF AutomaticInv, ToSet
      <4> QED BY <2>1, <2>2, <2>3, <4>1 DEF AutomaticInv
    <3>2. n \in LeftOver({})
      BY <2>1, <2>2, <2>3, LeftOverFacts DEF AutomaticInv, AllQueued
    <3> QED BY <2>1, <2>3, <3>1, <3>2, <1>2 DEF AutomaticInv
  <2>4. CASE ~add
    <3>1. Settled(n)
      BY <2>4 DEF Settled, AllQueued
    <3> QED BY <2>1, <2>4, <3>1, <1>2 DEF AutomaticInv, Settled
  <2> QED BY <2>3, <2>4
<1>7. CASE ScanEnd
  <2>1. CASE added
    BY <1>7, <2>1, <1>2 DEF ScanEnd, AutomaticInv
  <2>2. CASE ~added
    <3>1. /\ opc = "scan" /\ scan = {} /\ opc' = "found" /\ orphansUser' = orphansUser
          /\ orphans' = orphans
      BY <1>7, <2>2 DEF ScanEnd
    <3>2. Dropped({}, ToSet(orphans))
      BY <2>2, <3>1 DEF AutomaticInv, Settled, Dropped
    <3>3. ToSet(orphans) \in SUBSET Installed
      BY <3>1 DEF AutomaticInv, ToSet
    <3>4. ToSet(orphans) = LeftOver({})
      BY <3>1, <3>2, <3>3, LeftOverLeast DEF AutomaticInv
    <3> QED BY <3>1, <3>4, <1>2 DEF AutomaticInv
  <2> QED BY <2>1, <2>2
<1>8. CASE NextElement \/ TreeDep \/ TreeReturn \/ ScanTree \/ ScanTreeEnd \/ OrphansTaken
  <2>1. orphansUser' = orphansUser
    BY <1>8 DEF NextElement, TreeDep, TreeReturn, ScanTree, ScanTreeEnd, OrphansTaken
  <2>2. \/ opc \in {"next", "tree", "rdeps"} /\ opc' \in {"next", "tree", "rdeps", "found"}
        \/ opc' = "idle"
    BY <1>8 DEF NextElement, TreeDep, TreeReturn, ScanTree, ScanTreeEnd, OrphansTaken
  <2> QED BY <2>1, <2>2 DEF AutomaticInv
<1> QED BY <1>3, <1>4, <1>5, <1>6, <1>7, <1>8 DEF FindNext, FindOrphans

(* flappy-remove -o finds exactly the packages that nobody needs: the       *)
(* smallest set with every automatic package all of whose dependents it     *)
(* has, whatever the packages say of each other (flappy_find_pkg_orphans,   *)
(* automatic mode).                                                         *)
THEOREM AutomaticExact == OrphansSpec => [](orphansUser = {} => OrphansExact)
<1>1. OrphansIdle => AutomaticInv
  BY DEF OrphansIdle, AutomaticInv
<1>2. PoolTypeOK /\ [FindNext]_<<pool, ovars>> => PoolTypeOK'
  BY PoolSame DEF FindNext, pool, PoolTypeOK
<1>3. AutomaticInv => (orphansUser = {} => OrphansExact)
  BY DEF AutomaticInv, OrphansExact
<1> QED BY <1>1, <1>2, <1>3, AutomaticStep, PTL DEF OrphansSpec

-----------------------------------------------------------------------------
(* Orphans: the recursive mode, in a database where the dependency tree    *)
(* and the reverse dependencies agree.                                     *)

Frame == [pkg : Pkgver, todo : Seq(Pattern)]
Root == orphans[opos]
UpTo(i) == {orphans[k] : k \in 1..i}

(* Everything the first i elements of the array have left over is in it.   *)
Cleared(i) ==
  \A m \in Installed :
    db[m].auto /\ orphans[i] \in Revdeps(m) /\ Revdeps(m) \subseteq UpTo(i) => m \in ToSet(orphans)

Needed(m) == m \in Installed /\ (m = Root \/ Revdeps(m) # {})

(* The walk over a dependency tree: what it has seen is needed by someone, *)
(* and a dependency of the root is in the result, still to do, or the      *)
(* package right above the root on the stack.                              *)
WalkInv ==
  /\ tree \in Seq(Frame) /\ tree # <<>>
  /\ \A k \in 1..Len(tree) :
       LET f == tree[k]
       IN /\ f.pkg[1] \in Installed /\ f.pkg = Inst(f.pkg[1]) /\ Needed(f.pkg[1])
          /\ ToSet(f.todo) \subseteq ToSet(meta[f.pkg].deps)
  /\ tree[Len(tree)].pkg = Inst(Root)
  /\ result \in Seq(Installed) /\ items \subseteq Installed
  /\ \A m \in ToSet(result) \cup items : Needed(m)
  /\ \A m \in Installed : Root \in Revdeps(m) =>
       \/ m \in ToSet(result)
       \/ \E p \in ToSet(tree[Len(tree)].todo) : DepTarget(p) = m
       \/ Len(tree) > 1 /\ tree[Len(tree) - 1].pkg[1] = m

RecursiveInv ==
  /\ PoolTypeOK /\ Regular
  /\ opc \in {"next", "tree", "rdeps"} =>
       /\ orphans \in Seq(Installed) /\ orphansUser # {} /\ orphansUser \subseteq ToSet(orphans)
       /\ ToSet(orphans) \subseteq LeftOver(orphansUser)
       /\ opos \in 1..(Len(orphans) + 1)
       /\ \A i \in 1..(opos - 1) : Cleared(i)
  /\ opc \in {"tree", "rdeps"} => opos =< Len(orphans)
  /\ opc = "tree" => WalkInv
  /\ opc = "rdeps" =>
       /\ rdeps \in Seq(Installed) /\ \A m \in ToSet(rdeps) : Needed(m)
       /\ \A m \in Installed :
            db[m].auto /\ Root \in Revdeps(m) /\ Revdeps(m) \subseteq UpTo(opos)
              => m \in ToSet(orphans) \cup ToSet(rdeps)
  /\ opc = "found" /\ orphansUser # {} => ToSet(orphans) = LeftOver(orphansUser)

(* Who answers a dependency of an installed package is its target, and is  *)
(* needed by the package.                                                  *)
LEMMA TargetFacts ==
  ASSUME PoolTypeOK, Regular, NEW m \in Installed, NEW p \in ToSet(meta[Inst(m)].deps)
  PROVE  /\ DepTarget(p) \in Installed /\ DbFind(p) = Inst(DepTarget(p))
         /\ DbFind(p) # NotFound /\ DbFind(p)[1] = DepTarget(p)
         /\ ~ProvidesName(Inst(m), p.name)
         /\ p.name \in Installed => DepTarget(p) = p.name
         /\ m \in Revdeps(DepTarget(p))
         /\ Inst(DepTarget(p)) \in Pkgver
         /\ meta[Inst(DepTarget(p))].deps \in Seq(Pattern)
<1>1. /\ DepTarget(p) \in Installed /\ DbFind(p) = Inst(DepTarget(p))
      /\ ~ProvidesName(Inst(m), p.name) /\ (p.name \in Installed => DepTarget(p) = p.name)
  BY DEF Regular
<1>2. DepTarget(p) # 0 /\ DepTarget(p) \in Name
  BY <1>1, PoolAssumption DEF Installed, Name
<1>3. DbFind(p) # NotFound /\ DbFind(p)[1] = DepTarget(p)
  BY <1>1, <1>2 DEF Inst, NotFound
<1>4. m \in Revdeps(DepTarget(p))
  BY <1>1 DEF Revdeps
<1>5. Inst(DepTarget(p)) \in Pkgver
  <2>1. db[DepTarget(p)].ver \in 0..MaxVer /\ db[DepTarget(p)].ver # 0
    BY <1>1, <1>2 DEF PoolTypeOK, DbRecord, Installed
  <2>2. db[DepTarget(p)].ver \in Ver
    BY <2>1, PoolAssumption DEF Ver
  <2> QED BY <1>2, <2>2 DEF Inst, Pkgver
<1>6. meta[Inst(DepTarget(p))].deps \in Seq(Pattern)
  BY <1>5 DEF PoolTypeOK, Meta
<1> QED BY <1>1, <1>3, <1>4, <1>5, <1>6

(* The package the walk starts from.                                       *)
LEMMA InstFacts ==
  ASSUME PoolTypeOK, NEW m \in Installed
  PROVE  Inst(m) \in Pkgver /\ Inst(m)[1] = m /\ meta[Inst(m)].deps \in Seq(Pattern)
<1>1. m \in Name /\ db[m].ver \in 0..MaxVer /\ db[m].ver # 0
  BY DEF PoolTypeOK, DbRecord, Installed
<1>2. db[m].ver \in Ver
  BY <1>1, PoolAssumption DEF Ver
<1>3. Inst(m) \in Pkgver /\ Inst(m)[1] = m
  BY <1>1, <1>2 DEF Inst, Pkgver
<1> QED BY <1>3 DEF PoolTypeOK, Meta

(* Everything the invariant says of the array, while the walk goes on.     *)
ArrayInv ==
  /\ PoolTypeOK /\ Regular
  /\ orphans \in Seq(Installed) /\ orphansUser # {} /\ orphansUser \subseteq ToSet(orphans)
  /\ ToSet(orphans) \subseteq LeftOver(orphansUser)
  /\ opos \in 1..(Len(orphans) + 1)
  /\ \A i \in 1..(opos - 1) : Cleared(i)

(* The walk leaves the array alone.                                        *)
LEMMA ArraySame ==
  ASSUME ArrayInv, UNCHANGED pool, UNCHANGED <<orphansUser, orphans, opos>>
  PROVE  ArrayInv' /\ Root' = Root /\ \A m : Needed(m)' = Needed(m)
BY PoolSame DEF ArrayInv, Cleared, UpTo, Root, Needed, pool

(* The search ends: an automatic package all of whose dependents are in    *)
(* the array was looked at when the last of them was processed.            *)
LEMMA AllCleared ==
  ASSUME ArrayInv, opos > Len(orphans)
  PROVE  ToSet(orphans) = LeftOver(orphansUser)
<1>1. /\ orphans \in Seq(Installed) /\ Len(orphans) \in Nat /\ DOMAIN orphans = 1..Len(orphans)
      /\ \A i \in 1..Len(orphans) : Cleared(i)
  BY DEF ArrayInv
<1>2. ASSUME NEW m \in Installed, db[m].auto, Revdeps(m) \subseteq ToSet(orphans), Revdeps(m) # {}
      PROVE  m \in ToSet(orphans)
  <2> DEFINE K == {k \in 1..Len(orphans) : orphans[k] \in Revdeps(m)}
             i == Max(K)
  <2>1. K # {} /\ K \subseteq 1..Len(orphans)
    BY <1>1, <1>2 DEF ToSet
  <2>2. i \in K /\ \A k \in K : i >= k
    BY <1>1, <2>1, MaxExists
  <2> HIDE DEF i
  <2>3. Revdeps(m) \subseteq UpTo(i)
    <3> SUFFICES ASSUME NEW q \in Revdeps(m) PROVE q \in UpTo(i)
      OBVIOUS
    <3>1. PICK k \in 1..Len(orphans) : q = orphans[k]
      BY <1>1, <1>2 DEF ToSet
    <3>2. k \in 1..i
      BY <1>1, <2>2, <3>1
    <3> QED BY <3>1, <3>2 DEF UpTo
  <2> QED BY <1>1, <1>2, <2>2, <2>3 DEF Cleared
<1>3. Dropped(orphansUser, ToSet(orphans))
  BY <1>2 DEF Dropped, ArrayInv
<1>4. ToSet(orphans) \in SUBSET Installed
  BY <1>1 DEF ToSet
<1> QED BY <1>3, <1>4, LeftOverLeast DEF ArrayInv

(* The next element of the array, or the end of it.                        *)
LEMMA NextElementKeeps ==
  ASSUME RecursiveInv, NextElement, UNCHANGED pool
  PROVE  RecursiveInv'
<1>1. ArrayInv /\ opc = "next"
  BY DEF RecursiveInv, ArrayInv, NextElement
<1>2. UNCHANGED <<orphansUser, orphans, opos>> /\ UNCHANGED rdeps
  BY DEF NextElement
<1>3. ArrayInv' /\ Root' = Root /\ (\A m : Needed(m)' = Needed(m)) /\ Installed' = Installed
      /\ LeftOver(orphansUser)' = LeftOver(orphansUser)
  BY <1>1, <1>2, ArraySame, PoolSame
<1>4. CASE opos > Len(orphans)
  <2>1. opc' = "found"
    BY <1>4 DEF NextElement
  <2> QED BY <2>1, <1>1, <1>2, <1>3, <1>4, AllCleared DEF RecursiveInv, ArrayInv
<1>5. CASE ~(opos > Len(orphans))
  <2>1. /\ opc' = "tree" /\ items' = {Root} /\ result' = <<>>
        /\ tree' = <<[pkg |-> Inst(Root), todo |-> meta[Inst(Root)].deps]>>
    BY <1>5 DEF NextElement, Root
  <2>2. opos \in 1..Len(orphans) /\ Root \in Installed
    BY <1>1, <1>5 DEF ArrayInv, Root
  <2>3. Inst(Root) \in Pkgver /\ Inst(Root)[1] = Root /\ meta[Inst(Root)].deps \in Seq(Pattern)
    BY <1>1, <2>2, InstFacts DEF ArrayInv
  <2> DEFINE f == [pkg |-> Inst(Root), todo |-> meta[Inst(Root)].deps]
  <2>4. f \in Frame /\ f.pkg = Inst(Root) /\ f.todo = meta[Inst(Root)].deps
    BY <2>3 DEF Frame
  <2> HIDE DEF f
  <2>5. tree' \in Seq(Frame) /\ Len(tree') = 1 /\ tree'[1] = f /\ tree' # <<>>
    BY <2>1, <2>4 DEF f
  <2>6. meta' = meta /\ \A m : Inst(m)' = Inst(m) /\ Revdeps(m)' = Revdeps(m)
    BY PoolSame DEF pool, Inst
  <2>7. \A p : DepTarget(p)' = DepTarget(p)
    BY PoolSame
  <2>8. ToSet(result') = {} /\ result' \in Seq(Installed)
    BY <2>1 DEF ToSet
  <2>9. \A m \in Installed : Root \in Revdeps(m) => \E p \in ToSet(f.todo) : DepTarget(p) = m
    BY <2>4 DEF Revdeps
  <2>10. WalkInv'
    BY <1>3, <2>1, <2>2, <2>3, <2>4, <2>5, <2>6, <2>7, <2>8, <2>9 DEF WalkInv, Needed, ToSet
  <2> QED BY <2>1, <2>2, <2>10, <1>2, <1>3 DEF RecursiveInv, ArrayInv
<1> QED BY <1>4, <1>5

(* The stack after its top was replaced.                                   *)
LEMMA ReplaceTop ==
  ASSUME NEW S, NEW t \in Seq(S), t # <<>>, NEW r \in S
  PROVE  LET u == <<r>> \o Tail(t)
         IN /\ u \in Seq(S) /\ Len(u) = Len(t) /\ u # <<>> /\ u[1] = r
            /\ \A k \in 2..Len(t) : u[k] = t[k]
<1>1. Len(t) \in Nat /\ Len(t) >= 1 /\ Tail(t) \in Seq(S) /\ Len(Tail(t)) = Len(t) - 1
      /\ \A k \in 1..(Len(t) - 1) : Tail(t)[k] = t[k + 1]
  OBVIOUS
<1> DEFINE u == <<r>> \o Tail(t)
<1>2. u \in Seq(S) /\ Len(u) = Len(t) /\ u[1] = r
      /\ \A k \in 1..(Len(t) - 1) : u[k + 1] = Tail(t)[k]
  BY <1>1
<1> HIDE DEF u
<1>3. \A k \in 2..Len(t) : k - 1 \in 1..(Len(t) - 1) /\ (k - 1) + 1 = k
  BY <1>1
<1>4. \A k \in 2..Len(t) : u[k] = t[k]
  BY <1>1, <1>2, <1>3
<1>5. u # <<>>
  BY <1>1, <1>2
<1> QED BY <1>2, <1>4, <1>5 DEF u

(* The stack after another frame was pushed on the new top.                *)
LEMMA PushTop ==
  ASSUME NEW S, NEW t \in Seq(S), t # <<>>, NEW c \in S, NEW r \in S
  PROVE  LET u == <<c, r>> \o Tail(t)
         IN /\ u \in Seq(S) /\ Len(u) = Len(t) + 1 /\ u # <<>> /\ u[1] = c /\ u[2] = r
            /\ \A k \in 2..Len(t) : u[k + 1] = t[k]
<1>1. Len(t) \in Nat /\ Len(t) >= 1 /\ Tail(t) \in Seq(S) /\ Len(Tail(t)) = Len(t) - 1
      /\ \A k \in 1..(Len(t) - 1) : Tail(t)[k] = t[k + 1]
  OBVIOUS
<1> DEFINE u == <<c, r>> \o Tail(t)
<1>2. u \in Seq(S) /\ Len(u) = Len(t) + 1 /\ u[1] = c /\ u[2] = r
      /\ \A k \in 1..(Len(t) - 1) : u[k + 2] = Tail(t)[k]
  BY <1>1
<1> HIDE DEF u
<1>3. \A k \in 2..Len(t) : /\ k - 1 \in 1..(Len(t) - 1)
                           /\ (k - 1) + 1 = k /\ (k - 1) + 2 = k + 1
  BY <1>1
<1>4. ASSUME NEW k \in 2..Len(t) PROVE u[k + 1] = t[k]
  <2>1. u[(k - 1) + 2] = Tail(t)[k - 1] /\ Tail(t)[k - 1] = t[(k - 1) + 1]
    BY <1>1, <1>2, <1>3
  <2> QED BY <2>1, <1>3
<1>5. u # <<>>
  BY <1>1, <1>2
<1> QED BY <1>2, <1>4, <1>5 DEF u

(* add_deps_recursive: the name is in the result, and so is what was there. *)
LEMMA InFrontFacts ==
  ASSUME NEW S, result \in Seq(S), NEW n \in S
  PROVE  InFront(n) \in Seq(S) /\ ToSet(InFront(n)) = ToSet(result) \cup {n}
<1>1. CASE n \in ToSet(result)
  BY <1>1 DEF InFront
<1>2. CASE n \notin ToSet(result)
  <2> DEFINE r == <<n>> \o result
  <2>1. /\ r \in Seq(S) /\ Len(r) = Len(result) + 1 /\ r[1] = n /\ Len(result) \in Nat
        /\ \A i \in 1..Len(result) : r[i + 1] = result[i]
    OBVIOUS
  <2> HIDE DEF r
  <2>2. ASSUME NEW i \in 1..Len(r) PROVE r[i] \in ToSet(result) \cup {n}
    <3>1. CASE i = 1
      BY <2>1, <3>1
    <3>2. CASE i # 1
      <4>1. i - 1 \in 1..Len(result) /\ (i - 1) + 1 = i
        BY <2>1, <3>2
      <4>2. r[(i - 1) + 1] = result[i - 1]
        BY <2>1, <4>1
      <4> QED BY <4>1, <4>2 DEF ToSet
    <3> QED BY <3>1, <3>2
  <2>3. ToSet(r) \subseteq ToSet(result) \cup {n}
    BY <2>1, <2>2 DEF ToSet
  <2>4. \A i \in 1..Len(result) : i + 1 \in 1..Len(r) /\ r[i + 1] = result[i]
    BY <2>1
  <2>5. ToSet(result) \subseteq ToSet(r) /\ n \in ToSet(r)
    BY <2>1, <2>4 DEF ToSet
  <2> QED BY <1>2, <2>1, <2>3, <2>5 DEF InFront, r
<1> QED BY <1>1, <1>2

(* The first of a sequence and the others.                                 *)
LEMMA HeadTail ==
  ASSUME NEW S, NEW s \in Seq(S), s # <<>>
  PROVE  /\ Head(s) \in S /\ Head(s) = s[1] /\ Tail(s) \in Seq(S)
         /\ ToSet(s) = {Head(s)} \cup ToSet(Tail(s))
<1>1. /\ Len(s) \in Nat /\ Len(s) >= 1 /\ Tail(s) \in Seq(S) /\ Len(Tail(s)) = Len(s) - 1
      /\ Head(s) \in S /\ Head(s) = s[1] /\ \A k \in 1..(Len(s) - 1) : Tail(s)[k] = s[k + 1]
  OBVIOUS
<1>2. \A k \in 1..Len(s) : k = 1 \/ (k - 1 \in 1..(Len(s) - 1) /\ (k - 1) + 1 = k)
  BY <1>1
<1>3. ASSUME NEW k \in 1..Len(s) PROVE s[k] \in {Head(s)} \cup ToSet(Tail(s))
  <2>1. CASE k = 1
    BY <1>1, <2>1
  <2>2. CASE k # 1
    <3>1. k - 1 \in 1..(Len(s) - 1) /\ (k - 1) + 1 = k
      BY <1>2, <2>2
    <3>2. Tail(s)[k - 1] = s[(k - 1) + 1]
      BY <1>1, <3>1
    <3>3. Tail(s)[k - 1] \in ToSet(Tail(s))
      BY <1>1, <3>1, ElementIn
    <3> QED BY <3>1, <3>2, <3>3
  <2> QED BY <2>1, <2>2
<1>4. \A k \in 1..(Len(s) - 1) : k + 1 \in 1..Len(s) /\ Tail(s)[k] = s[k + 1]
  BY <1>1
<1>5. ToSet(Tail(s)) \subseteq ToSet(s) /\ Head(s) \in ToSet(s)
  BY <1>1, <1>4 DEF ToSet
<1> QED BY <1>1, <1>3, <1>5 DEF ToSet

(* The package on top of the stack of the walk.                            *)
LEMMA TopFrame ==
  ASSUME WalkInv
  PROVE  LET top == Head(tree)
         IN /\ tree \in Seq(Frame) /\ Len(tree) \in Nat /\ Len(tree) >= 1
            /\ top = tree[1] /\ top \in Frame
            /\ top.pkg[1] \in Installed /\ top.pkg = Inst(top.pkg[1])
            /\ ToSet(top.todo) \subseteq ToSet(meta[top.pkg].deps) /\ Needed(top.pkg[1])
<1>1. tree \in Seq(Frame) /\ tree # <<>>
  BY DEF WalkInv
<1>2. Len(tree) \in Nat /\ Len(tree) >= 1
  BY <1>1
<1>3. Head(tree) = tree[1] /\ Head(tree) \in Frame
  BY <1>1, HeadTail
<1>4. 1 \in 1..Len(tree)
  BY <1>2
<1>5. /\ tree[1].pkg[1] \in Installed /\ tree[1].pkg = Inst(tree[1].pkg[1])
      /\ Needed(tree[1].pkg[1]) /\ ToSet(tree[1].todo) \subseteq ToSet(meta[tree[1].pkg].deps)
  <2>1. \A k \in 1..Len(tree) :
          /\ tree[k].pkg[1] \in Installed /\ tree[k].pkg = Inst(tree[k].pkg[1])
          /\ Needed(tree[k].pkg[1]) /\ ToSet(tree[k].todo) \subseteq ToSet(meta[tree[k].pkg].deps)
    BY Zenon DEF WalkInv
  <2> QED BY <1>4, <2>1, Zenon
<1> QED BY <1>1, <1>2, <1>3, <1>5

(* One dependency of the package on top of the stack.                      *)
LEMMA TreeDepKeeps ==
  ASSUME RecursiveInv, TreeDep, UNCHANGED pool
  PROVE  RecursiveInv'
<1>1. /\ ArrayInv /\ WalkInv /\ opc = "tree" /\ opc' = "tree" /\ opos =< Len(orphans)
      /\ tree # <<>> /\ Head(tree).todo # <<>>
      /\ UNCHANGED <<orphansUser, orphans, opos>>
  BY DEF RecursiveInv, ArrayInv, TreeDep
<1>2. /\ ArrayInv' /\ Root' = Root /\ (\A m : Needed(m)' = Needed(m)) /\ Installed' = Installed
      /\ meta' = meta /\ \A m : Inst(m)' = Inst(m) /\ Revdeps(m)' = Revdeps(m)
      /\ \A p : DepTarget(p)' = DepTarget(p)
  BY <1>1, ArraySame, PoolSame DEF pool, Inst
<1> DEFINE top == Head(tree)
           p == Head(top.todo)
           x == DepTarget(p)
           rest == [top EXCEPT !.todo = Tail(@)]
           child == [pkg |-> Inst(x), todo |-> meta[Inst(x)].deps]
           n == Len(tree)
<1>3. /\ tree \in Seq(Frame) /\ n \in Nat /\ n >= 1 /\ top = tree[1] /\ top \in Frame
      /\ top.pkg[1] \in Installed /\ top.pkg = Inst(top.pkg[1])
      /\ ToSet(top.todo) \subseteq ToSet(meta[top.pkg].deps) /\ Needed(top.pkg[1])
  BY <1>1, TopFrame
<1>15. n = 1 \/ n > 1
  <2>1. n \in Nat /\ n >= 1
    BY <1>3
  <2> HIDE DEF n
  <2> QED BY <2>1
<1>4. top.todo \in Seq(Pattern) /\ top.todo # <<>>
  BY <1>1, <1>3 DEF Frame
<1>5. /\ p \in ToSet(top.todo) /\ Tail(top.todo) \in Seq(Pattern)
      /\ ToSet(top.todo) = {p} \cup ToSet(Tail(top.todo))
  BY <1>4, HeadTail
<1>6. /\ x \in Installed /\ DbFind(p) = Inst(x) /\ DbFind(p) # NotFound /\ DbFind(p)[1] = x
      /\ ~ProvidesName(top.pkg, p.name) /\ (p.name \in Installed => x = p.name)
      /\ top.pkg[1] \in Revdeps(x) /\ Inst(x) \in Pkgver /\ meta[Inst(x)].deps \in Seq(Pattern)
  BY <1>1, <1>3, <1>5, TargetFacts DEF ArrayInv
<1>7. /\ rest \in Frame /\ rest.pkg = top.pkg /\ rest.todo = Tail(top.todo)
      /\ child \in Frame /\ child.pkg = Inst(x) /\ child.todo = meta[Inst(x)].deps
      /\ child.pkg[1] = x
  BY <1>3, <1>5, <1>6 DEF Frame
<1>8. Needed(x)
  BY <1>6 DEF Needed
<1>9. items \subseteq Installed /\ result \in Seq(Installed)
  BY <1>1 DEF WalkInv
<1>10. (IF p.name \in items THEN p.name ELSE DbFind(p)[1]) = x
  BY <1>6, <1>9
<1>11. \/ /\ x \in items
          /\ tree' = <<rest>> \o Tail(tree) /\ result' = InFront(x) /\ items' = items
       \/ /\ x \notin items
          /\ tree' = <<child, rest>> \o Tail(tree) /\ items' = items \cup {x} /\ result' = result
  BY <1>6, <1>10 DEF TreeDep
<1>12. ASSUME NEW m \in Installed, Root \in Revdeps(m), n = 1,
              ~(m \in ToSet(result)), m # x
       PROVE  \E q \in ToSet(rest.todo) : DepTarget(q) = m
  BY <1>1, <1>3, <1>5, <1>7, <1>12 DEF WalkInv
<1> HIDE DEF top, p, x, rest, child
<1>13. CASE x \in items
  <2>1. tree' = <<rest>> \o Tail(tree) /\ result' = InFront(x) /\ items' = items
    BY <1>11, <1>13
  <2>2. /\ tree' \in Seq(Frame) /\ Len(tree') = n /\ tree' # <<>> /\ tree'[1] = rest
        /\ \A k \in 2..n : tree'[k] = tree[k]
    BY <1>1, <1>3, <1>7, <2>1, ReplaceTop
  <2>3. result' \in Seq(Installed) /\ ToSet(result') = ToSet(result) \cup {x}
    BY <1>6, <1>9, <2>1, InFrontFacts
  <2>4. ASSUME NEW k \in 1..n
        PROVE  /\ tree'[k].pkg = tree[k].pkg
               /\ ToSet(tree'[k].todo) \subseteq ToSet(tree[k].todo)
    <3>1. CASE k = 1
      BY <3>1, <2>2, <1>3, <1>5, <1>7
    <3>2. CASE k # 1
      <4>1. k \in 2..n
        BY <3>2, <1>3
      <4> QED BY <4>1, <2>2
    <3> QED BY <3>1, <3>2
  <2>5. ASSUME NEW m \in Installed, Root \in Revdeps(m), m \notin ToSet(result')
        PROVE  \/ \E q \in ToSet(tree'[n].todo) : DepTarget(q) = m
               \/ n > 1 /\ tree'[n - 1].pkg[1] = m
    <3>1. CASE n = 1
      BY <3>1, <2>2, <2>3, <2>5, <1>12
    <3>2. CASE n > 1
      <4>1. n \in 2..n /\ n - 1 \in 1..n
        BY <3>2, <1>3
      <4>2. tree'[n] = tree[n] /\ tree'[n - 1].pkg = tree[n - 1].pkg
        BY <4>1, <2>2, <2>4
      <4> QED BY <4>2, <2>3, <2>5, <1>1 DEF WalkInv
    <3> QED BY <3>1, <3>2, <1>15
  <2>6. n \in 1..n
    BY <1>3
  <2>7. ASSUME NEW k \in 1..n
        PROVE  LET f == tree'[k]
               IN /\ f.pkg[1] \in Installed /\ f.pkg = Inst(f.pkg[1]) /\ Needed(f.pkg[1])
                  /\ ToSet(f.todo) \subseteq ToSet(meta[f.pkg].deps)
    <3>1. /\ tree[k].pkg[1] \in Installed /\ tree[k].pkg = Inst(tree[k].pkg[1])
          /\ Needed(tree[k].pkg[1]) /\ ToSet(tree[k].todo) \subseteq ToSet(meta[tree[k].pkg].deps)
      BY <1>1, Zenon DEF WalkInv
    <3> QED BY <2>4, <3>1
  <2>8. tree'[n].pkg = Inst(Root)
    BY <2>4, <2>6, <1>1 DEF WalkInv
  <2>9. \A m \in ToSet(result') \cup items' : Needed(m)
    BY <1>1, <1>8, <2>1, <2>3 DEF WalkInv
  <2>10. WalkInv'
    BY <1>2, <1>9, <2>1, <2>2, <2>3, <2>5, <2>7, <2>8, <2>9 DEF WalkInv
  <2> QED BY <1>1, <1>2, <2>10 DEF RecursiveInv, ArrayInv
<1>14. CASE x \notin items
  <2>1. tree' = <<child, rest>> \o Tail(tree) /\ result' = result /\ items' = items \cup {x}
    BY <1>11, <1>14
  <2>2. /\ tree' \in Seq(Frame) /\ Len(tree') = n + 1 /\ tree' # <<>>
        /\ tree'[1] = child /\ tree'[2] = rest
        /\ \A k \in 2..n : tree'[k + 1] = tree[k]
    BY <1>1, <1>3, <1>7, <2>1, PushTop
  <2>3. ASSUME NEW k \in 1..n
        PROVE  /\ tree'[k + 1].pkg = tree[k].pkg
               /\ ToSet(tree'[k + 1].todo) \subseteq ToSet(tree[k].todo)
    <3>1. CASE k = 1
      BY <3>1, <2>2, <1>3, <1>5, <1>7
    <3>2. CASE k # 1
      <4>1. k \in 2..n
        BY <3>2, <1>3
      <4> QED BY <4>1, <2>2
    <3> QED BY <3>1, <3>2
  <2>4. ASSUME NEW k \in 1..(n + 1)
        PROVE  LET f == tree'[k]
               IN /\ f.pkg[1] \in Installed /\ f.pkg = Inst(f.pkg[1]) /\ Needed(f.pkg[1])
                  /\ ToSet(f.todo) \subseteq ToSet(meta[f.pkg].deps)
    <3>1. CASE k = 1
      BY <3>1, <2>2, <1>6, <1>7, <1>8
    <3>2. CASE k # 1
      <4>1. k - 1 \in 1..n /\ (k - 1) + 1 = k
        BY <3>2, <1>3
      <4>2. tree'[k].pkg = tree[k - 1].pkg /\ ToSet(tree'[k].todo) \subseteq ToSet(tree[k - 1].todo)
        BY <4>1, <2>3
      <4> QED BY <4>1, <4>2, <1>1 DEF WalkInv
    <3> QED BY <3>1, <3>2
  <2>5. ASSUME NEW m \in Installed, Root \in Revdeps(m), m \notin ToSet(result)
        PROVE  \/ \E q \in ToSet(tree'[n + 1].todo) : DepTarget(q) = m
               \/ n + 1 > 1 /\ tree'[(n + 1) - 1].pkg[1] = m
    <3>1. CASE n = 1
      BY <3>1, <2>2, <2>5, <1>7, <1>12
    <3>2. CASE n > 1
      <4>1. n \in 2..n /\ n - 1 \in 1..n /\ (n - 1) + 1 = n /\ (n + 1) - 1 = n
        BY <3>2, <1>3
      <4>2. tree'[n + 1] = tree[n] /\ tree'[n].pkg = tree[n - 1].pkg
        BY <4>1, <2>2, <2>3
      <4> QED BY <4>1, <4>2, <2>5, <3>2, <1>1, <1>3 DEF WalkInv
    <3> QED BY <3>1, <3>2, <1>15
  <2>6. tree'[n + 1].pkg = Inst(Root)
    <3>1. n \in 1..n
      BY <1>3
    <3> QED BY <3>1, <2>3, <1>1 DEF WalkInv
  <2>7. WalkInv'
    BY <1>1, <1>2, <1>6, <1>8, <1>9, <2>1, <2>2, <2>4, <2>5, <2>6 DEF WalkInv
  <2> QED BY <1>1, <1>2, <2>7 DEF RecursiveInv, ArrayInv
<1> QED BY <1>13, <1>14

(* All dependencies of the package on top are done.                        *)
LEMMA TreeReturnKeeps ==
  ASSUME RecursiveInv, TreeReturn, UNCHANGED pool
  PROVE  RecursiveInv'
<1>1. /\ ArrayInv /\ WalkInv /\ opc = "tree" /\ opos =< Len(orphans)
      /\ tree # <<>> /\ Head(tree).todo = <<>> /\ tree' = Tail(tree)
      /\ UNCHANGED <<orphansUser, orphans, opos>>
  BY DEF RecursiveInv, ArrayInv, TreeReturn
<1>2. /\ ArrayInv' /\ Root' = Root /\ (\A m : Needed(m)' = Needed(m)) /\ Installed' = Installed
      /\ meta' = meta /\ db' = db /\ \A m : Inst(m)' = Inst(m) /\ Revdeps(m)' = Revdeps(m)
      /\ \A p : DepTarget(p)' = DepTarget(p)
  BY <1>1, ArraySame, PoolSame DEF pool, Inst
<1> DEFINE n == Len(tree)
           x == Head(tree).pkg[1]
<1>3. /\ tree \in Seq(Frame) /\ n \in Nat /\ n >= 1 /\ Head(tree) = tree[1]
      /\ tree' \in Seq(Frame) /\ Len(tree') = n - 1
      /\ \A k \in 1..(n - 1) : tree'[k] = tree[k + 1]
  <2>1. tree \in Seq(Frame) /\ Head(tree) = tree[1]
    BY <1>1, TopFrame
  <2> QED BY <1>1, <2>1
<1>4. x \in Installed /\ Needed(x) /\ result \in Seq(Installed) /\ items \subseteq Installed
  <2>1. x \in Installed /\ Needed(x)
    BY <1>1, TopFrame
  <2>2. result \in Seq(Installed) /\ items \subseteq Installed
    BY <1>1 DEF WalkInv
  <2> QED BY <2>1, <2>2
<1>5. CASE n > 1
  <2>1. result' = InFront(x) /\ opc' = "tree" /\ items' = items
    BY <1>1, <1>5 DEF TreeReturn
  <2>2. result' \in Seq(Installed) /\ ToSet(result') = ToSet(result) \cup {x}
    BY <1>4, <2>1, InFrontFacts
  <2> HIDE DEF n
  <2>3. /\ n - 1 \in 1..(n - 1) /\ (n - 1) + 1 = n /\ n - 1 >= 1 /\ n - 1 \in Nat
        /\ \A k \in 1..(n - 1) : k + 1 \in 1..n
    BY <1>3, <1>5
  <2>4. tree' # <<>> /\ tree'[n - 1] = tree[n]
    BY <1>3, <2>3
  <2>5. ASSUME NEW m \in Installed, Root \in Revdeps(m), m \notin ToSet(result')
        PROVE  \/ \E q \in ToSet(tree'[n - 1].todo) : DepTarget(q) = m
               \/ n - 1 > 1 /\ tree'[(n - 1) - 1].pkg[1] = m
    <3>1. \/ \E q \in ToSet(tree[n].todo) : DepTarget(q) = m
          \/ tree[n - 1].pkg[1] = m
      BY <1>1, <2>2, <2>5 DEF WalkInv, n
    <3>2. CASE \E q \in ToSet(tree[n].todo) : DepTarget(q) = m
      BY <3>2, <2>4
    <3>3. CASE tree[n - 1].pkg[1] = m
      <4>1. n - 1 # 1
        BY <3>3, <1>3, <2>2, <2>5
      <4>2. n - 1 > 1 /\ (n - 1) - 1 \in 1..(n - 1) /\ ((n - 1) - 1) + 1 = n - 1
        BY <4>1, <1>3, <1>5
      <4>3. tree'[(n - 1) - 1] = tree[n - 1]
        BY <4>2, <1>3
      <4> QED BY <4>2, <4>3, <3>3
    <3> QED BY <3>1, <3>2, <3>3
  <2>6. ASSUME NEW k \in 1..(n - 1)
        PROVE  LET f == tree'[k]
               IN /\ f.pkg[1] \in Installed /\ f.pkg = Inst(f.pkg[1]) /\ Needed(f.pkg[1])
                  /\ ToSet(f.todo) \subseteq ToSet(meta[f.pkg].deps)
    BY <1>1, <1>3, <2>3 DEF WalkInv, n
  <2>7. tree'[n - 1].pkg = Inst(Root)
    BY <2>4, <1>1 DEF WalkInv, n
  <2>8. \A m \in ToSet(result') \cup items' : Needed(m)
    BY <1>1, <1>4, <2>1, <2>2 DEF WalkInv
  <2>9. WalkInv'
    BY <1>2, <1>3, <1>4, <2>1, <2>2, <2>4, <2>5, <2>6, <2>7, <2>8 DEF WalkInv
  <2> QED BY <1>1, <1>2, <2>1, <2>9 DEF RecursiveInv, ArrayInv
<1>6. CASE ~(n > 1)
  <2>1. opc' = "rdeps" /\ rdeps' = result
    BY <1>6 DEF TreeReturn
  <2>2. n = 1 /\ tree[n].todo = <<>>
    BY <1>1, <1>3, <1>6
  <2>3. ToSet(tree[n].todo) = {}
    BY <2>2 DEF ToSet
  <2>4. \A m \in Installed : Root \in Revdeps(m) => m \in ToSet(result)
    BY <1>1, <1>6, <2>3 DEF WalkInv
  <2>5. \A m \in ToSet(result) : Needed(m)
    BY <1>1 DEF WalkInv
  <2> QED BY <1>1, <1>2, <1>4, <2>1, <2>4, <2>5 DEF RecursiveInv, ArrayInv
<1> QED BY <1>5, <1>6

(* One more element changes nothing for those before it.                   *)
LEMMA AppendClears ==
  ASSUME ArrayInv, UNCHANGED pool, UNCHANGED <<orphansUser, opos>>, opos =< Len(orphans),
         NEW x \in Installed, orphans' = Append(orphans, x), x \in LeftOver(orphansUser)
  PROVE  /\ ArrayInv' /\ Root' = Root /\ (\A m : Needed(m)' = Needed(m))
         /\ opos' =< Len(orphans') /\ ToSet(orphans') = ToSet(orphans) \cup {x}
         /\ UpTo(opos)' = UpTo(opos)
<1>1. /\ orphans \in Seq(Installed) /\ Len(orphans) \in Nat /\ orphans' \in Seq(Installed)
      /\ Len(orphans') = Len(orphans) + 1 /\ opos \in 1..Len(orphans)
      /\ \A k \in 1..Len(orphans) : orphans'[k] = orphans[k]
  BY DEF ArrayInv
<1>2. ToSet(orphans') = ToSet(orphans) \cup {x}
  BY <1>1 DEF ToSet
<1>3. ASSUME NEW i \in 1..Len(orphans) PROVE UpTo(i)' = UpTo(i)
  <2>1. \A k \in 1..i : orphans'[k] = orphans[k]
    BY <1>1, <1>3
  <2> QED BY <2>1 DEF UpTo
<1>4. /\ Installed' = Installed /\ db' = db /\ \A m : Revdeps(m)' = Revdeps(m)
      /\ \A R : LeftOver(R)' = LeftOver(R)
      /\ PoolTypeOK' /\ Regular'
  BY PoolSame DEF pool, ArrayInv
<1>5. ASSUME NEW i \in 1..(opos - 1) PROVE Cleared(i)'
  <2>1. i \in 1..Len(orphans) /\ Cleared(i)
    BY <1>1 DEF ArrayInv
  <2>2. UpTo(i)' = UpTo(i) /\ orphans'[i] = orphans[i]
    BY <2>1, <1>1, <1>3
  <2> QED BY <2>1, <2>2, <1>2, <1>4 DEF Cleared
<1>6. Root' = Root /\ \A m : Needed(m)' = Needed(m)
  BY <1>1, <1>4 DEF Root, Needed
<1>7. orphansUser # {} /\ orphansUser \subseteq ToSet(orphans)
      /\ ToSet(orphans) \subseteq LeftOver(orphansUser)
  BY DEF ArrayInv
<1>8. opos' \in 1..(Len(orphans') + 1) /\ opos' =< Len(orphans')
  BY <1>1
<1>9. ArrayInv'
  BY <1>1, <1>2, <1>4, <1>5, <1>7, <1>8 DEF ArrayInv
<1> QED BY <1>1, <1>2, <1>3, <1>6, <1>8, <1>9

(* One package of the tree is looked at.                                   *)
LEMMA ScanTreeKeeps ==
  ASSUME RecursiveInv, ScanTree, UNCHANGED pool
  PROVE  RecursiveInv'
<1> DEFINE x == Head(rdeps)
           add == x \notin ToSet(orphans) /\ db[x].auto /\ AllQueued(Revdeps(x))
           Waiting(m) == db[m].auto /\ Root \in Revdeps(m) /\ Revdeps(m) \subseteq UpTo(opos)
<1>1. /\ ArrayInv /\ opc = "rdeps" /\ opc' = "rdeps" /\ opos =< Len(orphans)
      /\ rdeps \in Seq(Installed) /\ rdeps # <<>> /\ rdeps' = Tail(rdeps)
      /\ orphans' = IF add THEN Append(orphans, x) ELSE orphans
      /\ UNCHANGED <<orphansUser, opos>>
      /\ \A m \in ToSet(rdeps) : Needed(m)
      /\ \A m \in Installed : Waiting(m) => m \in ToSet(orphans) \cup ToSet(rdeps)
  BY DEF RecursiveInv, ArrayInv, ScanTree
<1>2. /\ x \in Installed /\ rdeps' \in Seq(Installed)
      /\ ToSet(rdeps) = {x} \cup ToSet(rdeps')
  BY <1>1, HeadTail
<1>3. Installed' = Installed /\ db' = db /\ \A m : Revdeps(m)' = Revdeps(m)
  BY PoolSame DEF pool
<1>4. opos \in 1..Len(orphans) /\ orphans \in Seq(Installed)
  BY <1>1 DEF ArrayInv
<1>5. UpTo(opos) \subseteq ToSet(orphans) /\ Root \in ToSet(orphans)
  BY <1>4 DEF UpTo, Root, ToSet
<1> HIDE DEF x
<1>6. CASE add
  <2>1. Revdeps(x) # {} /\ Revdeps(x) \subseteq LeftOver(orphansUser)
    BY <1>1, <1>2, <1>5, <1>6 DEF Needed, AllQueued, ArrayInv
  <2>2. x \in LeftOver(orphansUser)
    BY <1>2, <1>6, <2>1, LeftOverFacts
  <2>3. orphans' = Append(orphans, x)
    BY <1>1, <1>6
  <2>4. /\ ArrayInv' /\ Root' = Root /\ (\A m : Needed(m)' = Needed(m))
        /\ opos' =< Len(orphans') /\ ToSet(orphans') = ToSet(orphans) \cup {x}
        /\ UpTo(opos)' = UpTo(opos)
    BY <1>1, <1>2, <2>2, <2>3, AppendClears
  <2> QED BY <1>1, <1>2, <1>3, <2>4 DEF RecursiveInv, ArrayInv
<1>7. CASE ~add
  <2>1. orphans' = orphans
    BY <1>1, <1>7
  <2>2. ArrayInv' /\ Root' = Root /\ \A m : Needed(m)' = Needed(m)
    BY <1>1, <2>1, ArraySame
  <2>3. UpTo(opos)' = UpTo(opos)
    BY <1>1, <2>1 DEF UpTo
  <2>4. Waiting(x) => x \in ToSet(orphans)
    BY <1>5, <1>7 DEF AllQueued
  <2> QED BY <1>1, <1>2, <1>3, <2>1, <2>2, <2>3, <2>4 DEF RecursiveInv, ArrayInv
<1> QED BY <1>6, <1>7

(* The whole tree was looked at: the element is done.                      *)
LEMMA ScanTreeEndKeeps ==
  ASSUME RecursiveInv, ScanTreeEnd, UNCHANGED pool
  PROVE  RecursiveInv'
<1>1. /\ ArrayInv /\ opc = "rdeps" /\ opc' = "next" /\ opos =< Len(orphans) /\ rdeps = <<>>
      /\ opos' = opos + 1 /\ orphans' = orphans /\ orphansUser' = orphansUser
      /\ \A m \in Installed :
           db[m].auto /\ Root \in Revdeps(m) /\ Revdeps(m) \subseteq UpTo(opos)
             => m \in ToSet(orphans) \cup ToSet(rdeps)
  BY DEF RecursiveInv, ArrayInv, ScanTreeEnd
<1>2. /\ Installed' = Installed /\ db' = db /\ \A m : Revdeps(m)' = Revdeps(m)
      /\ \A R : LeftOver(R)' = LeftOver(R)
      /\ PoolTypeOK' /\ Regular'
  BY <1>1, PoolSame DEF pool, ArrayInv
<1>3. Cleared(opos)
  <2>1. ToSet(rdeps) = {}
    BY <1>1 DEF ToSet
  <2> QED BY <1>1, <2>1 DEF Cleared, Root
<1>4. opos' \in 1..(Len(orphans') + 1) /\ \A i \in 1..(opos' - 1) : i = opos \/ i \in 1..(opos - 1)
  BY <1>1 DEF ArrayInv
<1>5. \A i : Cleared(i)' = Cleared(i)
  BY <1>1, <1>2 DEF Cleared, UpTo
<1>6. \A i \in 1..(opos' - 1) : Cleared(i)'
  BY <1>1, <1>3, <1>4, <1>5 DEF ArrayInv
<1> QED BY <1>1, <1>2, <1>4, <1>6 DEF RecursiveInv, ArrayInv

(* The search starts with the package asked for.                           *)
LEMMA FindRecursiveKeeps ==
  ASSUME RecursiveInv, UNCHANGED pool, NEW n \in Installed, FindRecursive(n)
  PROVE  RecursiveInv'
<1>1. opc' = "next" /\ orphansUser' = {n} /\ orphans' = <<n>> /\ opos' = 1
  BY DEF FindRecursive
<1>2. /\ Installed' = Installed /\ \A R : LeftOver(R)' = LeftOver(R)
      /\ PoolTypeOK' /\ Regular'
  BY PoolSame DEF RecursiveInv
<1>3. n \in LeftOver({n})
  BY LeftOverFacts
<1>4. orphans' \in Seq(Installed) /\ Len(orphans') = 1 /\ ToSet(orphans') = {n}
  BY <1>1 DEF ToSet
<1>5. opos' \in 1..(Len(orphans') + 1) /\ 1..(opos' - 1) = {}
  BY <1>1, <1>4
<1> QED BY <1>1, <1>2, <1>3, <1>4, <1>5 DEF RecursiveInv

(* Every step of the search keeps the invariant of the recursive mode.     *)
LEMMA RecursiveStep ==
  RecursiveInv /\ AutomaticInv /\ [FindNext]_<<pool, ovars>> => RecursiveInv'
<1> SUFFICES ASSUME RecursiveInv, AutomaticInv, [FindNext]_<<pool, ovars>> PROVE RecursiveInv'
  OBVIOUS
<1>1. UNCHANGED pool
  BY DEF FindNext
<1>2. /\ Installed' = Installed /\ db' = db /\ meta' = meta /\ PoolTypeOK' /\ Regular'
      /\ \A n : Revdeps(n)' = Revdeps(n) /\ Inst(n)' = Inst(n)
      /\ \A R : LeftOver(R)' = LeftOver(R)
      /\ \A p : DepTarget(p)' = DepTarget(p)
  BY <1>1, PoolSame DEF pool, Inst, RecursiveInv
<1>3. ASSUME UNCHANGED ovars PROVE RecursiveInv'
  <2>1. /\ UNCHANGED <<orphansUser, opc, orphans, opos, rdeps>> /\ Root' = Root
        /\ UNCHANGED <<tree, items, result>>
    BY <1>3 DEF ovars, Root
  <2>2. (\A i : UpTo(i)' = UpTo(i)) /\ \A m : Needed(m)' = Needed(m)
    BY <1>2, <2>1 DEF UpTo, Needed
  <2>3. \A i : Cleared(i)' = Cleared(i)
    BY <1>2, <2>1, <2>2 DEF Cleared
  <2>4. WalkInv => WalkInv'
    BY <1>2, <2>1, <2>2 DEF WalkInv
  <2> QED BY <1>2, <2>1, <2>2, <2>3, <2>4 DEF RecursiveInv
<1>4. CASE FindAutomatic \/ ScanAutomatic \/ ScanEnd \/ OrphansTaken
  <2>1. opc' \in {"scan", "idle"} \/ (opc' = "found" /\ orphansUser' = {})
    BY <1>4 DEF FindAutomatic, ScanAutomatic, ScanEnd, OrphansTaken, AutomaticInv
  <2> QED BY <1>2, <2>1 DEF RecursiveInv
<1>5. CASE \E n \in Installed : FindRecursive(n)
  BY <1>1, <1>5, FindRecursiveKeeps
<1>6. CASE NextElement \/ TreeDep \/ TreeReturn \/ ScanTree \/ ScanTreeEnd
  BY <1>1, <1>6, NextElementKeeps, TreeDepKeeps, TreeReturnKeeps, ScanTreeKeeps, ScanTreeEndKeeps
<1> QED BY <1>3, <1>4, <1>5, <1>6 DEF FindNext, FindOrphans

(* flappy-remove -R and -o find exactly what is left over, in a database   *)
(* where the dependency tree and the reverse dependencies agree on who     *)
(* answers a dependency: walking the tree below every package of the       *)
(* growing array misses none and takes none that is still needed           *)
(* (flappy_find_pkg_orphans, both modes).                                  *)
THEOREM OrphansFound == OrphansSpec /\ Regular => []OrphansExact
<1>1. PoolTypeOK /\ OrphansIdle /\ Regular => AutomaticInv /\ RecursiveInv
  BY DEF OrphansIdle, AutomaticInv, RecursiveInv
<1>2. AutomaticInv /\ RecursiveInv /\ [FindNext]_<<pool, ovars>> => AutomaticInv' /\ RecursiveInv'
  BY AutomaticStep, RecursiveStep DEF RecursiveInv
<1>3. AutomaticInv /\ RecursiveInv => OrphansExact
  BY DEF AutomaticInv, RecursiveInv, OrphansExact
<1> QED BY <1>1, <1>2, <1>3, PTL DEF OrphansSpec

-----------------------------------------------------------------------------
(* Prepare calls the search as a caller should: for an installed package   *)
(* or for all, one search at a time, and without changing the database     *)
(* (flappy_transaction_remove_pkg, flappy_transaction_autoremove_pkgs).    *)
THEOREM SearchCalled == Spec => OrphansSpec
<1>1. Init => PoolTypeOK /\ OrphansIdle
  BY DEF Init, Start
<1>2. [Next]_vars => [FindNext]_<<pool, ovars>>
  <2> SUFFICES ASSUME Next PROVE FindNext \/ UNCHANGED <<pool, ovars>>
    BY DEF vars
  <2>1. CASE RequestRemove
    BY <2>1 DEF RequestRemove, FindNext
  <2>2. CASE RequestOrphans
    BY <2>2 DEF RequestOrphans, FindNext
  <2>3. CASE OrphansStep
    BY <2>3 DEF OrphansStep, FindNext
  <2>4. CASE StoreOrphans
    BY <2>4 DEF StoreOrphans, FindNext
  <2>5. CASE Request \/ RequestAll \/ Prepare \/ Collect \/ Dep \/ DepReturn \/ CollectEnd
    BY <2>5 DEF Request, RequestAll, Prepare, Collect, Dep, DepReturn, CollectEnd
  <2>6. CASE ReplaceNext \/ Replace \/ Check
    BY <2>6 DEF ReplaceNext, Replace, Check
  <2> QED BY <2>1, <2>2, <2>3, <2>4, <2>5, <2>6 DEF Next
<1> QED BY <1>1, <1>2, PTL DEF Spec, OrphansSpec

(* flappy-remove -o and -R put into the transaction exactly what is left   *)
(* over, for every database in which the dependency tree and the reverse   *)
(* dependencies agree, and -o for every database.                          *)
THEOREM RemovesOrphans ==
  Spec => [](orphansUser = {} => OrphansExact) /\ (Regular => []OrphansExact)
BY SearchCalled, AutomaticExact, OrphansFound, PTL
=============================================================================
