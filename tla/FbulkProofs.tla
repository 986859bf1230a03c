---------------------------- MODULE FbulkProofs -----------------------------
(***************************************************************************)
(* What the scheduler of flappy-fbulk asserts of itself, for any number of *)
(* packages, any dependencies, any order of the walk and any number of     *)
(* parallel builds, ending in any order.                                   *)
(*                                                                         *)
(* The counts of dependencies are right only together with the place the   *)
(* recursion of processCompletion is at: an item that is being completed   *)
(* has told some of the items that depend on it, and not the others.       *)
(* Owes says who has not been told by whom, and CountInv that dcount       *)
(* counts exactly that.                                                    *)
(***************************************************************************)
EXTENDS Fbulk, FiniteSetTheorems, SequenceTheorems, WellFoundedInduction, TLAPS

Place == {"walk", "deps", "fill", "reap", "wait", "exit", "abort"}
CallFrame == [item : Item, pos : Nat \ {0}, shell : BOOLEAN]
DoneFrame == [item : Item, rest : Seq(Item)]

(* The types of the scheduler's state. *)
TypeOK ==
  /\ deps \in [Item -> Seq(Item)] /\ roots \in Seq(Item)
  /\ status \in [Item -> Statuses]
  /\ dbase \in [Item -> Seq(Item)] /\ dcount \in [Item -> Int] /\ xcode \in [Item -> {0, 1}]
  /\ build \in Seq(Item) /\ running \subseteq Item
  /\ DOMAIN exited \subseteq running /\ \A j \in DOMAIN exited : exited[j] \in {0, 1}
  /\ calls \in Seq(CallFrame) /\ completing \in Seq(DoneFrame) /\ pc \in Place

(* The dependencies of a package are listed once and come before it. *)
DepsInv ==
  \A j \in Item : Injective(deps[j]) /\ \A k \in DOMAIN deps[j] : deps[j][k] < j

(* Where the two recursions are. *)
PlaceInv ==
  /\ Busy => pc \in {"fill", "reap"}
  /\ pc \in {"walk", "wait", "exit"} => calls = <<>>
  /\ pc \in {"deps", "abort"} => calls # <<>>
  /\ pc = "exit" => running = {}

(* ordered_depends: no item twice, and only the lines already read have    *)
(* made an item depend on another.                                         *)
CallInv ==
  /\ \A j, k \in DOMAIN calls : calls[j].item = calls[k].item => j = k
  /\ \A k \in DOMAIN calls :
       /\ status[calls[k].item] # "none"
       /\ \A d \in Item : calls[k].item \in ToSet(dbase[d]) =>
            \E n \in DOMAIN deps[calls[k].item] :
              n < calls[k].pos /\ deps[calls[k].item][n] = d

(* An item is told to another once, which comes before it. *)
DbaseInv ==
  \A d \in Item :
    /\ Injective(dbase[d])
    /\ \A j \in ToSet(dbase[d]) : d < j /\ status[d] # "none" /\ status[j] # "none"

(* processCompletion recurses to larger items, which are not done yet.     *)
FramesOK(cm, st, db, run) ==
  /\ \A j, k \in DOMAIN cm : j < k => cm[j].item < cm[k].item
  /\ \A k \in DOMAIN cm :
       /\ st[cm[k].item] \in {"run", "depfail"}
       /\ cm[k].item \notin run
       /\ Injective(cm[k].rest)
       /\ ToSet(cm[k].rest) \subseteq ToSet(db[cm[k].item])
FrameInv == FramesOK(completing, status, dbase, running)

(* Item d is in the recursion of processCompletion cm. *)
In(cm, d) == \E k \in DOMAIN cm : cm[k].item = d

(* The lists hold the items that have their status. *)
ListInv ==
  /\ Injective(build)
  /\ \A j \in Item : j \in ToSet(build) <=> status[j] = "build"
  /\ \A j \in running : status[j] = "run"
  /\ \A j \in Item : status[j] = "run" => j \in running \/ In(completing, j)

(* d has not told j yet that it has completed. *)
OwesIn(cm, st, db, d, j) ==
  \/ \E k \in DOMAIN cm : cm[k].item = d /\ j \in ToSet(cm[k].rest)
  \/ ~In(cm, d) /\ st[d] # "done" /\ j \in ToSet(db[d])
Owes(d, j) == OwesIn(completing, status, dbase, d, j)
Pending(j) == {d \in Item : Owes(d, j)}

(* The count of an item is that of the dependencies that have not told it. *)
CountInv == \A j \in Item : dcount[j] = Cardinality(Pending(j))

(* An item that waits has not been told of a failure. *)
FailInv ==
  \A d, j \in Item :
    status[j] = "waiting" /\ j \in ToSet(dbase[d]) /\ ~Owes(d, j) => xcode[d] = 0

(* ordered_depends is still reading the lines of j. *)
Open(j) ==
  \E k \in DOMAIN calls : calls[k].item = j /\ (pc \in {"deps", "abort"} \/ k < Len(calls))

(* An item that waits, and is not being looked at, has somebody to wait for. *)
WaitInv ==
  \A j \in Item : status[j] \in {"waiting", "depfail"} =>
    Open(j) \/ In(completing, j) \/ dcount[j] > 0

IInv ==
  /\ TypeOK /\ DepsInv /\ PlaceInv /\ CallInv /\ DbaseInv /\ FrameInv
  /\ ListInv /\ CountInv /\ FailInv /\ WaitInv

----------------------------------------------------------------------------
(* Lists and stacks.                                                        *)

(* An empty list has nothing in it. *)
LEMMA EmptyList ==
  /\ ToSet(<<>>) = {} /\ Injective(<<>>)
  /\ \A S : \A s \in Seq(S) : s # <<>> => Len(s) \in Nat \ {0} /\ Head(s) \in ToSet(s)
<1>1. ToSet(<<>>) = {} /\ Injective(<<>>)
  BY DEF ToSet, Injective
<1>2. ASSUME NEW S, NEW s \in Seq(S), s # <<>>
      PROVE  Len(s) \in Nat \ {0} /\ Head(s) \in ToSet(s)
  <2>1. Len(s) \in Nat \ {0} /\ Head(s) = s[1] /\ DOMAIN s = 1..Len(s)
    BY <1>2, EmptySeq
  <2> QED BY <2>1 DEF ToSet
<1> QED BY <1>1, <1>2

(* SLIST_INSERT_HEAD of what is not in the list. *)
LEMMA Prepended ==
  ASSUME NEW S, NEW s \in Seq(S), NEW e \in S
  PROVE  /\ <<e>> \o s \in Seq(S)
         /\ ToSet(<<e>> \o s) = ToSet(s) \cup {e}
         /\ Injective(s) /\ e \notin ToSet(s) => Injective(<<e>> \o s)
<1> DEFINE t == <<e>> \o s
<1>1. /\ t \in Seq(S) /\ Len(t) = Len(s) + 1 /\ DOMAIN t = 1..(Len(s) + 1)
      /\ t[1] = e /\ \A k \in 1..Len(s) : t[k + 1] = s[k]
      /\ Len(s) \in Nat /\ DOMAIN s = 1..Len(s)
  OBVIOUS
<1> HIDE DEF t
<1>2. \A k \in 2..(Len(s) + 1) : k - 1 \in 1..Len(s) /\ t[k] = s[k - 1]
  BY <1>1
<1>3. \A k \in 1..(Len(s) + 1) : k = 1 \/ k \in 2..(Len(s) + 1)
  BY <1>1
<1>4. ToSet(t) = ToSet(s) \cup {e}
  <2>1. ASSUME NEW x \in ToSet(t) PROVE x \in ToSet(s) \cup {e}
    BY <1>1, <1>2, <1>3, <2>1 DEF ToSet
  <2>2. ASSUME NEW k \in DOMAIN s PROVE s[k] \in ToSet(t)
    <3>1. k + 1 \in DOMAIN t /\ t[k + 1] = s[k]
      BY <1>1
    <3> QED BY <3>1 DEF ToSet
  <2>3. e \in ToSet(t)
    <3>1. 1 \in DOMAIN t
      BY <1>1
    <3> QED BY <1>1, <3>1 DEF ToSet
  <2> QED BY <2>1, <2>2, <2>3 DEF ToSet
<1>5. ASSUME Injective(s), e \notin ToSet(s) PROVE Injective(t)
  <2> SUFFICES ASSUME NEW j \in DOMAIN t, NEW k \in DOMAIN t, t[j] = t[k] PROVE j = k
    BY DEF Injective
  <2>1. \A n \in 2..(Len(s) + 1) : t[n] # e
    <3> SUFFICES ASSUME NEW n \in 2..(Len(s) + 1) PROVE t[n] # e
      OBVIOUS
    <3>1. n - 1 \in DOMAIN s /\ t[n] = s[n - 1]
      BY <1>1, <1>2
    <3> QED BY <1>5, <3>1 DEF ToSet
  <2>2. CASE j \in 2..(Len(s) + 1) /\ k \in 2..(Len(s) + 1)
    <3>1. s[j - 1] = s[k - 1]
      BY <1>2, <2>2
    <3>2. j - 1 = k - 1
      BY <1>1, <1>2, <1>5, <2>2, <3>1 DEF Injective
    <3> QED BY <2>2, <3>2
  <2> QED BY <1>1, <1>3, <2>1, <2>2
<1> QED BY <1>1, <1>4, <1>5 DEF t

(* TAILQ_INSERT_TAIL of what is not in the list. *)
LEMMA Appended ==
  ASSUME NEW S, NEW s \in Seq(S), NEW e \in S
  PROVE  /\ Append(s, e) \in Seq(S)
         /\ ToSet(Append(s, e)) = ToSet(s) \cup {e}
         /\ Injective(s) /\ e \notin ToSet(s) => Injective(Append(s, e))
<1> DEFINE t == Append(s, e)
<1>1. /\ t \in Seq(S) /\ Len(t) = Len(s) + 1 /\ DOMAIN t = 1..(Len(s) + 1)
      /\ t[Len(s) + 1] = e /\ \A k \in 1..Len(s) : t[k] = s[k]
      /\ Len(s) \in Nat /\ DOMAIN s = 1..Len(s)
  OBVIOUS
<1> HIDE DEF t
<1>2. \A k \in 1..(Len(s) + 1) : k = Len(s) + 1 \/ k \in 1..Len(s)
  BY <1>1
<1>3. 1..Len(s) \subseteq 1..(Len(s) + 1) /\ Len(s) + 1 \in 1..(Len(s) + 1)
  BY <1>1
<1>4. ToSet(t) = ToSet(s) \cup {e}
  BY <1>1, <1>2, <1>3 DEF ToSet
<1>5. ASSUME Injective(s), e \notin ToSet(s) PROVE Injective(t)
  BY <1>1, <1>2, <1>5 DEF Injective, ToSet
<1> QED BY <1>1, <1>4, <1>5 DEF t

(* The head of a list is taken off. *)
LEMMA HeadTaken ==
  ASSUME NEW S, NEW s \in Seq(S), s # <<>>, Injective(s)
  PROVE  /\ Head(s) \in S /\ Head(s) \in ToSet(s)
         /\ Tail(s) \in Seq(S) /\ Injective(Tail(s))
         /\ ToSet(Tail(s)) = ToSet(s) \ {Head(s)}
<1> DEFINE t == Tail(s)
<1>1. /\ t \in Seq(S) /\ DOMAIN t = 1..(Len(s) - 1) /\ DOMAIN s = 1..Len(s)
      /\ Len(s) \in Nat \ {0} /\ Head(s) = s[1] /\ Head(s) \in S
      /\ \A k \in 1..(Len(s) - 1) : t[k] = s[k + 1]
  BY EmptySeq, HeadTailProperties
<1> HIDE DEF t
<1>2. 1 \in DOMAIN s /\ \A k \in 1..(Len(s) - 1) : k + 1 \in DOMAIN s /\ k + 1 # 1
  BY <1>1
<1>3. Injective(t)
  <2> SUFFICES ASSUME NEW j \in DOMAIN t, NEW k \in DOMAIN t, t[j] = t[k] PROVE j = k
    BY DEF Injective
  <2>1. j + 1 = k + 1
    BY <1>1, <1>2 DEF Injective
  <2> QED BY <1>1, <2>1
<1>4. \A k \in DOMAIN s : k # 1 => k - 1 \in DOMAIN t /\ t[k - 1] = s[k]
  BY <1>1
<1>5. ToSet(t) = ToSet(s) \ {s[1]}
  <2>1. ASSUME NEW k \in DOMAIN t PROVE t[k] \in ToSet(s) /\ t[k] # s[1]
    <3>1. k + 1 \in DOMAIN s /\ k + 1 # 1 /\ t[k] = s[k + 1]
      BY <1>1, <1>2
    <3> QED BY <1>2, <3>1 DEF ToSet, Injective
  <2>2. ASSUME NEW k \in DOMAIN s, s[k] # s[1] PROVE s[k] \in ToSet(t)
    <3>1. k - 1 \in DOMAIN t /\ t[k - 1] = s[k]
      BY <1>4, <2>2
    <3> QED BY <3>1 DEF ToSet
  <2> QED BY <2>1, <2>2 DEF ToSet
<1> QED BY <1>1, <1>2, <1>3, <1>5 DEF t, ToSet

(* The rest of a stack below its top. *)
LEMMA Below ==
  ASSUME NEW S, NEW s \in Seq(S), s # <<>>
  PROVE  /\ Len(s) \in Nat \ {0} /\ DOMAIN s = 1..Len(s)
         /\ s[Len(s)] \in S /\ \A k \in 1..Len(s) : s[k] \in S
         /\ SubSeq(s, 1, Len(s) - 1) \in Seq(S)
         /\ Len(SubSeq(s, 1, Len(s) - 1)) = Len(s) - 1
         /\ DOMAIN SubSeq(s, 1, Len(s) - 1) = 1..(Len(s) - 1)
         /\ \A k \in 1..(Len(s) - 1) : SubSeq(s, 1, Len(s) - 1)[k] = s[k]
<1>1. Len(s) \in Nat \ {0} /\ DOMAIN s = 1..Len(s) /\ \A k \in 1..Len(s) : s[k] \in S
  BY EmptySeq
<1>2. \A k \in 1..(Len(s) - 1) : s[k] \in S
  BY <1>1
<1> QED BY <1>1, <1>2, SubSeqProperties

----------------------------------------------------------------------------
(* processCompletion: who is told, and who is not.                          *)

(* The item on top of the recursion, and the recursion when item j is       *)
(* completed, when the item on top is done, and when it has told one more.  *)
Topmost(cm) == cm[Len(cm)]
Begun(cm, db, j) == Append(cm, [item |-> j, rest |-> db[j]])
Lower(cm) == SubSeq(cm, 1, Len(cm) - 1)
TopDone(cm, st) == [st EXCEPT ![Topmost(cm).item] = "done"]
Advanced(cm) == Append(SubSeq(cm, 1, Len(cm) - 1), [Topmost(cm) EXCEPT !.rest = Tail(@)])

(* processCompletion of an item that was not being completed: it owes all   *)
(* that depend on it the news, as before.                                  *)
LEMMA Pushed ==
  ASSUME NEW cm \in Seq(DoneFrame), NEW st, NEW db \in [Item -> Seq(Item)], NEW j \in Item,
         ~In(cm, j), st[j] # "done"
  PROVE  /\ Begun(cm, db, j) \in Seq(DoneFrame)
         /\ \A d : In(Begun(cm, db, j), d) <=> In(cm, d) \/ d = j
         /\ \A d, x : OwesIn(Begun(cm, db, j), st, db, d, x) <=> OwesIn(cm, st, db, d, x)
<1> DEFINE f == [item |-> j, rest |-> db[j]]
           cm2 == Begun(cm, db, j)
<1> cm2 = Append(cm, [item |-> j, rest |-> db[j]])
  BY DEF Begun
<1> HIDE DEF cm2
<1>1. f \in DoneFrame /\ f.item = j /\ f.rest = db[j]
  BY DEF DoneFrame
<1>2. /\ cm2 \in Seq(DoneFrame) /\ DOMAIN cm2 = 1..(Len(cm) + 1) /\ DOMAIN cm = 1..Len(cm)
      /\ Len(cm) \in Nat /\ cm2[Len(cm) + 1] = f /\ \A k \in 1..Len(cm) : cm2[k] = cm[k]
  BY <1>1
<1> HIDE DEF f
<1>3. \A k : k \in DOMAIN cm2 <=> k = Len(cm) + 1 \/ k \in DOMAIN cm
  BY <1>2
<1>4. ASSUME NEW d PROVE In(cm2, d) <=> In(cm, d) \/ d = j
  BY <1>1, <1>2, <1>3 DEF In
<1>5. ASSUME NEW d, NEW x PROVE OwesIn(cm2, st, db, d, x) <=> OwesIn(cm, st, db, d, x)
  <2>1. CASE d = j
    <3>1. \A k \in DOMAIN cm2 : cm2[k].item = j <=> k = Len(cm) + 1
      BY <1>1, <1>2, <1>3 DEF In
    <3> QED BY <1>1, <1>2, <1>3, <1>4, <2>1, <3>1 DEF OwesIn
  <2>2. CASE d # j
    BY <1>1, <1>2, <1>3, <1>4, <2>2 DEF OwesIn
  <2> QED BY <2>1, <2>2
<1> QED BY <1>2, <1>4, <1>5 DEF cm2

(* ... and the recursion stays in order if the item is the largest.        *)
LEMMA PushedFrames ==
  ASSUME NEW cm \in Seq(DoneFrame), NEW st, NEW db \in [Item -> Seq(Item)], NEW j \in Item,
         NEW run, FramesOK(cm, st, db, run), \A k \in DOMAIN cm : cm[k].item < j,
         st[j] \in {"run", "depfail"}, j \notin run, Injective(db[j])
  PROVE  FramesOK(Begun(cm, db, j), st, db, run)
<1> DEFINE f == [item |-> j, rest |-> db[j]]
           cm2 == Begun(cm, db, j)
<1> cm2 = Append(cm, [item |-> j, rest |-> db[j]])
  BY DEF Begun
<1> HIDE DEF cm2
<1>1. f \in DoneFrame /\ f.item = j /\ f.rest = db[j]
  BY DEF DoneFrame
<1>2. /\ DOMAIN cm2 = 1..(Len(cm) + 1) /\ DOMAIN cm = 1..Len(cm)
      /\ Len(cm) \in Nat /\ cm2[Len(cm) + 1] = f /\ \A k \in 1..Len(cm) : cm2[k] = cm[k]
  BY <1>1
<1> HIDE DEF f
<1>3. \A k : k \in DOMAIN cm2 <=> k = Len(cm) + 1 \/ k \in DOMAIN cm
  BY <1>2
<1>4. ASSUME NEW k \in DOMAIN cm2, NEW n \in DOMAIN cm2, n < k
      PROVE  cm2[n].item < cm2[k].item
  <2>1. n \in DOMAIN cm /\ cm2[n] = cm[n]
    BY <1>2, <1>4
  <2>2. CASE k = Len(cm) + 1
    BY <1>1, <1>2, <2>1, <2>2
  <2>3. CASE k \in DOMAIN cm
    BY <1>2, <1>4, <2>1, <2>3 DEF FramesOK
  <2> QED BY <1>3, <2>2, <2>3
<1>5. ASSUME NEW k \in DOMAIN cm2
      PROVE  /\ st[cm2[k].item] \in {"run", "depfail"} /\ cm2[k].item \notin run
             /\ Injective(cm2[k].rest) /\ ToSet(cm2[k].rest) \subseteq ToSet(db[cm2[k].item])
  <2>1. CASE k = Len(cm) + 1
    BY <1>1, <1>2, <2>1
  <2>2. CASE k \in DOMAIN cm
    <3>1. cm2[k] = cm[k]
      BY <1>2, <2>2
    <3> QED BY <2>2, <3>1 DEF FramesOK
  <2> QED BY <1>3, <2>1, <2>2
<1> QED BY <1>4, <1>5 DEF FramesOK, cm2

(* The item on top tells the next one.                                     *)
LEMMA Told ==
  ASSUME NEW cm \in Seq(DoneFrame), NEW st, NEW db \in [Item -> Seq(Item)], NEW run,
         FramesOK(cm, st, db, run), cm # <<>>, Topmost(cm).rest # <<>>
  PROVE  /\ Advanced(cm) \in Seq(DoneFrame) /\ FramesOK(Advanced(cm), st, db, run)
         /\ Topmost(cm).item \in Item /\ Head(Topmost(cm).rest) \in Item
         /\ Head(Topmost(cm).rest) \in ToSet(db[Topmost(cm).item])
         /\ \A k \in DOMAIN Advanced(cm) : Advanced(cm)[k].item <= Topmost(cm).item
         /\ \A d : In(Advanced(cm), d) <=> In(cm, d)
         /\ In(cm, Topmost(cm).item)
         /\ OwesIn(cm, st, db, Topmost(cm).item, Head(Topmost(cm).rest))
         /\ \A d, x : OwesIn(Advanced(cm), st, db, d, x) <=>
              OwesIn(cm, st, db, d, x) /\ ~(d = Topmost(cm).item /\ x = Head(Topmost(cm).rest))
<1> DEFINE f == Topmost(cm)
           cm2 == Advanced(cm)
<1> /\ f = cm[Len(cm)] /\ f.rest # <<>>
    /\ cm2 = Append(SubSeq(cm, 1, Len(cm) - 1), [f EXCEPT !.rest = Tail(@)])
  BY DEF Topmost, Advanced
<1> HIDE DEF f, cm2
<1> DEFINE g == [f EXCEPT !.rest = Tail(@)]
           n == Len(cm)
<1>1. f \in DoneFrame /\ n \in Nat \ {0} /\ DOMAIN cm = 1..n /\ \A k \in 1..n : cm[k] \in DoneFrame
  BY Below
<1>2. f.item \in Item /\ f.rest \in Seq(Item) /\ Injective(f.rest)
  <2>1. n \in DOMAIN cm
    BY <1>1
  <2> QED BY <1>1, <2>1 DEF DoneFrame, FramesOK
<1>3. /\ Head(f.rest) \in Item /\ Head(f.rest) \in ToSet(f.rest)
      /\ Tail(f.rest) \in Seq(Item) /\ Injective(Tail(f.rest))
      /\ ToSet(Tail(f.rest)) = ToSet(f.rest) \ {Head(f.rest)}
  BY <1>2, HeadTaken
<1>4. g \in DoneFrame /\ g.item = f.item /\ g.rest = Tail(f.rest)
  BY <1>1, <1>3 DEF DoneFrame
<1>5. /\ cm2 \in Seq(DoneFrame) /\ DOMAIN cm2 = 1..n /\ cm2[n] = g
      /\ \A k \in 1..(n - 1) : cm2[k] = cm[k]
  <2> HIDE DEF g
  <2> QED BY <1>1, <1>4, Below DEF g
<1> HIDE DEF g, n
<1>6. \A k \in 1..n : k = n \/ k \in 1..(n - 1)
  BY <1>1
<1>7. \A k \in 1..n : cm2[k].item = cm[k].item
  BY <1>4, <1>5, <1>6 DEF n
<1>8. \A k \in 1..n : cm[k].item = f.item <=> k = n
  <2> SUFFICES ASSUME NEW k \in 1..n, k # n PROVE cm[k].item # f.item
    BY DEF n
  <2>1. k < n /\ n \in DOMAIN cm
    BY <1>1
  <2>2. cm[k].item < f.item
    BY <1>1, <2>1 DEF FramesOK, n
  <2>3. cm[k].item \in Item
    BY <1>1 DEF DoneFrame
  <2> QED BY <1>2, <2>2, <2>3, NAssumption DEF Item
<1>9. \A k \in DOMAIN cm2 : cm2[k].item <= f.item
  <2> SUFFICES ASSUME NEW k \in 1..n PROVE cm[k].item <= f.item
    BY <1>5, <1>7
  <2>1. cm[k].item \in Item
    BY <1>1 DEF DoneFrame
  <2>2. k = n \/ (k < n /\ n \in DOMAIN cm)
    BY <1>1
  <2>3. k = n \/ cm[k].item < f.item
    BY <1>1, <2>2 DEF FramesOK, n
  <2>4. \A a, b \in Item : a < b => a <= b
    BY NAssumption DEF Item
  <2>5. f.item <= f.item
    BY <1>2, NAssumption DEF Item
  <2> QED BY <1>2, <2>1, <2>3, <2>4, <2>5 DEF n
<1>10. \A k \in 1..n : cm2[k].rest = IF k = n THEN Tail(f.rest) ELSE cm[k].rest
  BY <1>4, <1>5, <1>6
<1>11. \A d : In(cm2, d) <=> In(cm, d)
  BY <1>1, <1>5, <1>7 DEF In
<1>12. FramesOK(cm2, st, db, run)
  <2>1. ASSUME NEW j \in DOMAIN cm2, NEW k \in DOMAIN cm2, j < k
        PROVE  cm2[j].item < cm2[k].item
    <3>1. cm[j].item < cm[k].item
      BY <1>1, <1>5, <2>1 DEF FramesOK
    <3> QED BY <1>5, <1>7, <3>1
  <2>2. ASSUME NEW k \in DOMAIN cm2
        PROVE  /\ st[cm2[k].item] \in {"run", "depfail"} /\ cm2[k].item \notin run
               /\ Injective(cm2[k].rest) /\ ToSet(cm2[k].rest) \subseteq ToSet(db[cm2[k].item])
    <3> k \in 1..n /\ k \in DOMAIN cm
      BY <1>1, <1>5
    <3>1. /\ st[cm[k].item] \in {"run", "depfail"} /\ cm[k].item \notin run
          /\ Injective(cm[k].rest) /\ ToSet(cm[k].rest) \subseteq ToSet(db[cm[k].item])
      BY DEF FramesOK
    <3>2. cm2[k].item = cm[k].item
      BY <1>7
    <3>3. CASE k = n
      <4>1. cm2[k].rest = Tail(f.rest) /\ cm[k].rest = f.rest
        BY <1>10, <3>3 DEF n
      <4> QED BY <1>3, <3>1, <3>2, <4>1
    <3>4. CASE k # n
      BY <1>10, <3>1, <3>2, <3>4
    <3> QED BY <3>3, <3>4
  <2> QED BY ONLY <2>1, <2>2 DEF FramesOK
<1>13. n \in DOMAIN cm /\ cm[n] = f
  BY <1>1 DEF n
<1>14. In(cm, f.item) /\ OwesIn(cm, st, db, f.item, Head(f.rest))
  BY <1>3, <1>13 DEF In, OwesIn
<1>15. Head(f.rest) \in ToSet(db[f.item])
  BY <1>3, <1>13 DEF FramesOK
<1>16. ASSUME NEW d, NEW x
       PROVE  OwesIn(cm2, st, db, d, x) <=>
                OwesIn(cm, st, db, d, x) /\ ~(d = f.item /\ x = Head(f.rest))
  <2>1. CASE d = f.item
    <3>1. OwesIn(cm, st, db, d, x) <=> x \in ToSet(f.rest)
      BY <1>1, <1>8, <1>13, <1>14, <2>1 DEF OwesIn
    <3>2. OwesIn(cm2, st, db, d, x) <=> x \in ToSet(Tail(f.rest))
      <4>1. In(cm2, d)
        BY <1>11, <1>14, <2>1
      <4>2. \A k \in 1..n : cm2[k].item = d <=> k = n
        BY <1>7, <1>8, <2>1
      <4>3. n \in 1..n /\ cm2[n].rest = Tail(f.rest)
        BY <1>1, <1>10, <1>13
      <4> QED BY <1>5, <4>1, <4>2, <4>3 DEF OwesIn
    <3> QED BY <1>3, <2>1, <3>1, <3>2
  <2>2. CASE d # f.item
    <3>1. \A k \in 1..n : cm[k].item = d => cm2[k].item = d /\ cm2[k].rest = cm[k].rest
      BY <1>7, <1>8, <1>10, <2>2
    <3>2. \A k \in 1..n : cm2[k].item = d => cm[k].item = d
      BY <1>7
    <3>3. (\E k \in DOMAIN cm2 : cm2[k].item = d /\ x \in ToSet(cm2[k].rest)) <=>
            (\E k \in DOMAIN cm : cm[k].item = d /\ x \in ToSet(cm[k].rest))
      BY <1>1, <1>5, <3>1, <3>2
    <3>4. In(cm2, d) <=> In(cm, d)
      BY <1>11
    <3> QED BY <2>2, <3>3, <3>4 DEF OwesIn
  <2> QED BY <2>1, <2>2
<1> QED BY <1>2, <1>3, <1>5, <1>9, <1>11, <1>12, <1>14, <1>15, <1>16 DEF f, cm2

(* The item on top has told all of them, and is done.                      *)
LEMMA Popped ==
  ASSUME NEW cm \in Seq(DoneFrame), NEW st \in [Item -> Statuses],
         NEW db \in [Item -> Seq(Item)], NEW run,
         FramesOK(cm, st, db, run), cm # <<>>, Topmost(cm).rest = <<>>
  PROVE  /\ Lower(cm) \in Seq(DoneFrame) /\ FramesOK(Lower(cm), TopDone(cm, st), db, run)
         /\ Topmost(cm).item \in Item /\ Topmost(cm).item \notin run
         /\ st[Topmost(cm).item] \in {"run", "depfail"}
         /\ \A d : In(Lower(cm), d) <=> In(cm, d) /\ d # Topmost(cm).item
         /\ \A d \in Item : \A x :
              OwesIn(Lower(cm), TopDone(cm, st), db, d, x) <=> OwesIn(cm, st, db, d, x)
<1> DEFINE f == Topmost(cm)
           cm2 == Lower(cm)
           st2 == TopDone(cm, st)
<1> /\ f = cm[Len(cm)] /\ f.rest = <<>> /\ st2 = [st EXCEPT ![f.item] = "done"]
    /\ cm2 = SubSeq(cm, 1, Len(cm) - 1)
  BY DEF Topmost, Lower, TopDone
<1> HIDE DEF f, cm2, st2
<1> DEFINE n == Len(cm)
<1>1. /\ f \in DoneFrame /\ n \in Nat \ {0} /\ DOMAIN cm = 1..n
      /\ \A k \in 1..n : cm[k] \in DoneFrame
      /\ cm2 \in Seq(DoneFrame) /\ DOMAIN cm2 = 1..(n - 1)
      /\ \A k \in 1..(n - 1) : cm2[k] = cm[k]
  BY Below
<1> HIDE DEF n
<1>2. f.item \in Item /\ n \in DOMAIN cm /\ cm[n] = f
  BY <1>1 DEF DoneFrame, n
<1>3. st[f.item] \in {"run", "depfail"} /\ f.item \notin run
  BY <1>2 DEF FramesOK
<1>4. \A k \in 1..n : k = n \/ k \in 1..(n - 1)
  BY <1>1
<1>5. \A k \in 1..(n - 1) : k \in DOMAIN cm /\ k # n /\ cm[k].item # f.item
  <2> SUFFICES ASSUME NEW k \in 1..(n - 1) PROVE k \in DOMAIN cm /\ k < n /\ cm[k].item # f.item
    BY <1>1
  <2>1. k \in DOMAIN cm /\ k < n
    BY <1>1
  <2>2. cm[k].item < f.item
    BY <1>2, <2>1 DEF FramesOK
  <2>3. cm[k].item \in Item
    BY <1>1, <2>1 DEF DoneFrame
  <2> QED BY <1>2, <2>1, <2>2, <2>3, NAssumption DEF Item
<1>6. FramesOK(cm2, st2, db, run)
  <2>1. \A j, k \in DOMAIN cm2 : j < k => cm2[j].item < cm2[k].item
    BY <1>1, <1>5 DEF FramesOK
  <2>2. ASSUME NEW k \in DOMAIN cm2 PROVE st2[cm2[k].item] = st[cm2[k].item]
    <3>1. cm2[k].item \in Item /\ cm2[k].item # f.item
      BY <1>1, <1>5 DEF DoneFrame
    <3> QED BY <3>1
  <2>3. ASSUME NEW k \in DOMAIN cm2
        PROVE  /\ st2[cm2[k].item] \in {"run", "depfail"} /\ cm2[k].item \notin run
               /\ Injective(cm2[k].rest) /\ ToSet(cm2[k].rest) \subseteq ToSet(db[cm2[k].item])
    BY <1>1, <1>5, <2>2 DEF FramesOK
  <2> QED BY <2>1, <2>3 DEF FramesOK
<1>7. ASSUME NEW d PROVE In(cm2, d) <=> In(cm, d) /\ d # f.item
  BY <1>1, <1>2, <1>4, <1>5 DEF In
<1>8. ASSUME NEW d \in Item, NEW x
      PROVE  OwesIn(cm2, st2, db, d, x) <=> OwesIn(cm, st, db, d, x)
  <2>1. CASE d = f.item
    <3>1. ~OwesIn(cm, st, db, d, x)
      BY <1>1, <1>2, <1>4, <1>5, <2>1, EmptyList DEF OwesIn, In
    <3>2. ~OwesIn(cm2, st2, db, d, x)
      BY <1>1, <1>2, <1>5, <2>1 DEF OwesIn
    <3> QED BY <3>1, <3>2
  <2>2. CASE d # f.item
    <3>1. st2[d] = st[d]
      BY <2>2
    <3> QED BY <1>1, <1>2, <1>4, <1>5, <1>7, <2>2, <3>1 DEF OwesIn
  <2> QED BY <2>1, <2>2
<1> QED BY <1>1, <1>2, <1>3, <1>6, <1>7, <1>8 DEF f, cm2, st2

----------------------------------------------------------------------------
(* The parts of the invariant that most steps leave alone.                  *)

(* What an item waits for is finite. *)
LEMMA PendingFinite ==
  ASSUME NEW j
  PROVE  /\ IsFiniteSet(Pending(j)) /\ Cardinality(Pending(j)) \in Nat
         /\ Cardinality(Pending(j)) = 0 <=> Pending(j) = {}
<1>1. IsFiniteSet(Item)
  BY NAssumption, FS_Interval DEF Item
<1>2. IsFiniteSet(Pending(j))
  BY <1>1, FS_Subset DEF Pending
<1> QED BY <1>2, FS_CardinalityType, FS_EmptySet

(* Only being done changes what an item owes. *)
LEMMA SameOwed ==
  ASSUME NEW cm, NEW st, NEW st2, NEW db, \A d \in Item : st2[d] = "done" <=> st[d] = "done"
  PROVE  \A d \in Item : \A x : OwesIn(cm, st2, db, d, x) <=> OwesIn(cm, st, db, d, x)
BY DEF OwesIn

(* The counts stand as long as nobody is told. *)
LEMMA CountKept ==
  ASSUME CountInv, dcount' = dcount, \A d, j \in Item : Owes(d, j)' <=> Owes(d, j)
  PROVE  CountInv'
<1>1. \A j \in Item : Pending(j)' = Pending(j)
  BY DEF Pending
<1> QED BY <1>1 DEF CountInv

(* A step of the walk alone: frames of ordered_depends are left, and none  *)
(* of those still reading.                                                 *)
LEMMA Quiet ==
  ASSUME IInv, UNCHANGED <<deps, itemVars, build, running, completing>>, TypeOK', PlaceInv',
         DOMAIN calls' \subseteq DOMAIN calls,
         \A k \in DOMAIN calls' : calls'[k].item = calls[k].item /\ calls'[k].pos = calls[k].pos,
         \A j \in Item : Open(j) => Open(j)'
  PROVE  IInv'
<1>1. UNCHANGED <<deps, status, dbase, dcount, xcode, build, running, completing>>
  BY DEF itemVars
<1>2. DepsInv' /\ DbaseInv' /\ FrameInv' /\ ListInv'
  BY <1>1 DEF IInv, DepsInv, DbaseInv, FrameInv, ListInv
<1>3. \A d, j \in Item : Owes(d, j)' <=> Owes(d, j)
  BY <1>1 DEF Owes
<1>4. CountInv'
  BY <1>1, <1>3, CountKept DEF IInv
<1>5. FailInv'
  BY <1>1, <1>3 DEF IInv, FailInv
<1>6. WaitInv'
  BY <1>1 DEF IInv, WaitInv
<1>7. CallInv'
  BY <1>1 DEF IInv, CallInv
<1> QED BY <1>2, <1>4, <1>5, <1>6, <1>7 DEF IInv

----------------------------------------------------------------------------
(* ordered_depends.                                                         *)

(* A new item waits for nobody, and nobody waits for it. *)
LEMMA CallKeeps ==
  ASSUME IInv, NEW i \in Item, status[i] = "none", Call(i), ~Busy,
         pc = "walk" \/ pc = "deps", roots' \in Seq(Item),
         UNCHANGED <<deps, dbase, dcount, xcode, build, running, exited, completing>>
  PROVE  IInv'
<1> DEFINE f == [item |-> i, pos |-> 1, shell |-> TRUE]
<1>1. /\ status' = [status EXCEPT ![i] = "waiting"] /\ pc' = "deps"
      /\ status \in [Item -> Statuses] /\ calls \in Seq(CallFrame)
  BY DEF Call, IInv, TypeOK
<1>2. f \in CallFrame /\ f.item = i /\ f.pos = 1
  BY DEF CallFrame
<1>3. /\ calls' \in Seq(CallFrame) /\ Len(calls) \in Nat /\ Len(calls') = Len(calls) + 1
      /\ DOMAIN calls = 1..Len(calls) /\ DOMAIN calls' = 1..(Len(calls) + 1)
      /\ calls'[Len(calls) + 1] = f /\ \A k \in 1..Len(calls) : calls'[k] = calls[k]
  BY <1>1, <1>2 DEF Call
<1> HIDE DEF f
<1>4. \A k \in DOMAIN calls' : k = Len(calls) + 1 \/ k \in DOMAIN calls
  BY <1>3
<1>5. /\ status' \in [Item -> Statuses] /\ status'[i] = "waiting"
      /\ \A j \in Item \ {i} : status'[j] = status[j]
  BY <1>1 DEF Statuses
<1>6. completing = <<>> /\ completing' = <<>>
  BY DEF Busy
<1>7. TypeOK'
  BY <1>1, <1>3, <1>5 DEF IInv, TypeOK, Place
<1>8. DepsInv' /\ PlaceInv'
  <2>1. calls' # <<>>
    BY <1>3
  <2> QED BY <1>1, <1>6, <2>1 DEF IInv, DepsInv, PlaceInv, Busy
<1>9. \A d \in Item : i \notin ToSet(dbase[d])
  BY DEF IInv, DbaseInv
<1>10. \A k \in DOMAIN calls : calls[k].item \in Item /\ calls[k].item # i
  <2>1. \A k \in DOMAIN calls : calls[k] \in CallFrame
    BY <1>1, <1>3
  <2> QED BY <2>1 DEF IInv, CallInv, CallFrame
<1>11. CallInv'
  <2>1. \A j, k \in DOMAIN calls' : calls'[j].item = calls'[k].item => j = k
    BY <1>2, <1>3, <1>4, <1>10 DEF IInv, CallInv
  <2>2. ASSUME NEW k \in DOMAIN calls'
        PROVE  /\ status'[calls'[k].item] # "none"
               /\ \A d \in Item : calls'[k].item \in ToSet(dbase[d]) =>
                    \E n \in DOMAIN deps[calls'[k].item] :
                      n < calls'[k].pos /\ deps[calls'[k].item][n] = d
    <3>1. CASE k = Len(calls) + 1
      BY <1>2, <1>3, <1>5, <1>9, <3>1
    <3>2. CASE k \in DOMAIN calls
      <4>1. calls'[k] = calls[k] /\ status'[calls[k].item] = status[calls[k].item]
        BY <1>3, <1>5, <1>10, <3>2
      <4> QED BY <3>2, <4>1 DEF IInv, CallInv
    <3> QED BY <1>4, <3>1, <3>2
  <2> QED BY <2>1, <2>2 DEF CallInv
<1>12. DbaseInv'
  <2>1. ASSUME NEW d \in Item, NEW j \in ToSet(dbase[d])
        PROVE  d < j /\ status'[d] # "none" /\ status'[j] # "none"
    <3>1. d < j /\ status[d] # "none" /\ status[j] # "none"
      BY DEF IInv, DbaseInv
    <3>2. j \in Item
      BY DEF IInv, TypeOK, ToSet
    <3> QED BY <1>5, <3>1, <3>2
  <2> QED BY <2>1 DEF IInv, DbaseInv
<1>13. FrameInv'
  BY <1>6 DEF FrameInv, FramesOK
<1>14. ListInv'
  BY <1>5, <1>6 DEF IInv, ListInv, TypeOK
<1>15. \A d, j \in Item : Owes(d, j)' <=> Owes(d, j)
  BY <1>5, SameOwed DEF Owes
<1>16. CountInv'
  BY <1>15, CountKept DEF IInv
<1>17. FailInv'
  BY <1>5, <1>9, <1>15 DEF IInv, FailInv
<1>18. WaitInv'
  <2> SUFFICES ASSUME NEW j \in Item, status'[j] \in {"waiting", "depfail"}
               PROVE  Open(j)' \/ dcount[j] > 0
    BY DEF WaitInv
  <2>1. CASE j = i
    <3>1. Len(calls) + 1 \in DOMAIN calls'
      BY <1>3
    <3> QED BY <1>1, <1>2, <1>3, <2>1, <3>1 DEF Open
  <2>2. CASE j # i
    <3>1. Open(j) \/ dcount[j] > 0
      BY <1>5, <1>6, <2>2 DEF IInv, WaitInv, In
    <3>2. Open(j) => Open(j)'
      BY <1>1, <1>3 DEF Open
    <3> QED BY <3>1, <3>2
  <2> QED BY <2>1, <2>2
<1> QED BY <1>7, <1>8, <1>11, <1>12, <1>13, <1>14, <1>16, <1>17, <1>18 DEF IInv

(* The item whose dependencies are read. *)
LEMMA TopFrame ==
  ASSUME TypeOK, calls # <<>>
  PROVE  /\ Len(calls) \in Nat \ {0} /\ DOMAIN calls = 1..Len(calls) /\ Len(calls) \in DOMAIN calls
         /\ \A k \in DOMAIN calls : calls[k] \in CallFrame /\ calls[k].item \in Item
         /\ Top = calls[Len(calls)] /\ Top.item \in Item /\ Top.pos \in Nat \ {0}
<1>1. calls \in Seq(CallFrame)
  BY DEF TypeOK
<1>2. /\ Len(calls) \in Nat \ {0} /\ DOMAIN calls = 1..Len(calls)
      /\ \A k \in 1..Len(calls) : calls[k] \in CallFrame
  BY <1>1, Below
<1>3. Len(calls) \in DOMAIN calls
  BY <1>2
<1> QED BY <1>2, <1>3 DEF Top, CallFrame

(* As long as nothing is being completed, all that are not done owe.       *)
LEMMA OwesAtRest ==
  ASSUME NEW st, NEW db, NEW d, NEW x
  PROVE  /\ ~In(<<>>, d)
         /\ OwesIn(<<>>, st, db, d, x) <=> st[d] # "done" /\ x \in ToSet(db[d])
BY DEF OwesIn, In

(* A line is read: the item waits for one more, or fails with it.          *)
LEMMA AddDepnKeeps == ASSUME IInv, AddDepn PROVE IInv'
<1> DEFINE i == Top.item
           d == Dep
           failed == status[d] = "done" /\ xcode[d] # 0
<1>1. /\ pc = "deps" /\ completing = <<>> /\ completing' = <<>> /\ Top.pos <= Len(deps[i])
      /\ status[d] # "none"
      /\ failed => status[i] \in {"waiting", "depfail"}
      /\ dbase' = [dbase EXCEPT ![d] = <<i>> \o @]
      /\ dcount' = [dcount EXCEPT ![i] = IF status[d] = "done" THEN @ ELSE @ + 1]
      /\ status' = [status EXCEPT ![i] = IF failed THEN "depfail" ELSE @]
      /\ xcode' = [xcode EXCEPT ![i] = IF failed THEN xcode[d] ELSE @]
      /\ calls' = [calls EXCEPT ![Len(calls)].pos = @ + 1]
      /\ UNCHANGED <<deps, roots, build, running, exited, pc>>
  BY DEF AddDepn, Reading, At, Busy
<1>2. calls # <<>> /\ calls \in Seq(CallFrame)
  BY <1>1 DEF IInv, PlaceInv, TypeOK
<1>3. /\ Len(calls) \in Nat \ {0} /\ DOMAIN calls = 1..Len(calls) /\ Len(calls) \in DOMAIN calls
      /\ \A k \in DOMAIN calls : calls[k] \in CallFrame /\ calls[k].item \in Item
      /\ Top = calls[Len(calls)] /\ i \in Item /\ Top.pos \in Nat \ {0}
  BY <1>2, TopFrame DEF IInv
<1>s. deps[i] \in Seq(Item) /\ Len(deps[i]) \in Nat /\ DOMAIN deps[i] = 1..Len(deps[i])
  <2>1. deps \in [Item -> Seq(Item)]
    BY DEF IInv, TypeOK
  <2> QED BY <1>3, <2>1
<1>4. Top.pos \in DOMAIN deps[i] /\ d = deps[i][Top.pos]
  <2> HIDE DEF i
  <2>1. Top.pos \in DOMAIN deps[i]
    BY <1>1, <1>3, <1>s
  <2> QED BY <2>1 DEF Dep, i
<1>5. d \in Item /\ d < i /\ d # i
  <2> HIDE DEF i, d
  <2>1. d \in Item
    BY <1>4, <1>s
  <2>2. d < i
    BY <1>3, <1>4 DEF IInv, DepsInv
  <2>3. i \in Nat
    BY <1>3, NAssumption DEF Item
  <2> QED BY <2>1, <2>2, <2>3, NAssumption DEF Item
<1> HIDE DEF i, d, failed
<1>6. /\ calls' \in Seq(CallFrame) /\ DOMAIN calls' = DOMAIN calls /\ Len(calls') = Len(calls)
      /\ \A k \in DOMAIN calls : calls'[k].item = calls[k].item
      /\ calls'[Len(calls)].pos = Top.pos + 1
      /\ \A k \in DOMAIN calls : k # Len(calls) => calls'[k].pos = calls[k].pos
  <2> DEFINE g == [Top EXCEPT !.pos = @ + 1]
  <2>1. g \in CallFrame /\ g.item = Top.item /\ g.pos = Top.pos + 1
    BY <1>3 DEF CallFrame
  <2>2. calls' = [calls EXCEPT ![Len(calls)] = g]
    BY <1>1, <1>3
  <2> HIDE DEF g
  <2> QED BY <1>2, <1>3, <2>1, <2>2, ExceptSeq
<1>7. /\ status \in [Item -> Statuses] /\ status' \in [Item -> Statuses]
      /\ \A j \in Item : status'[j] # status[j] =>
           j = i /\ failed /\ status[j] = "waiting" /\ status'[j] = "depfail"
      /\ failed => status'[i] = "depfail"
  BY <1>1, <1>3, <1>5 DEF IInv, TypeOK, Statuses
<1>8. /\ xcode' \in [Item -> {0, 1}]
      /\ \A j \in Item : xcode'[j] # xcode[j] => j = i /\ failed
  BY <1>1, <1>3, <1>5 DEF IInv, TypeOK
<1>9. i \notin ToSet(dbase[d])
  <2> SUFFICES ASSUME i \in ToSet(dbase[d]) PROVE FALSE
    OBVIOUS
  <2>1. PICK n \in DOMAIN deps[i] : n < Top.pos /\ deps[i][n] = d
    BY <1>3, <1>5 DEF IInv, CallInv, i
  <2>2. n = Top.pos
    BY <1>3, <1>4, <2>1 DEF IInv, DepsInv, Injective
  <2> QED BY <1>3, <2>1, <2>2
<1>10. /\ dbase' \in [Item -> Seq(Item)] /\ Injective(dbase'[d])
       /\ ToSet(dbase'[d]) = ToSet(dbase[d]) \cup {i}
       /\ \A j \in Item \ {d} : dbase'[j] = dbase[j]
  <2>1. dbase \in [Item -> Seq(Item)] /\ dbase[d] \in Seq(Item) /\ Injective(dbase[d])
    BY <1>5 DEF IInv, TypeOK, DbaseInv
  <2>2. /\ <<i>> \o dbase[d] \in Seq(Item) /\ Injective(<<i>> \o dbase[d])
        /\ ToSet(<<i>> \o dbase[d]) = ToSet(dbase[d]) \cup {i}
    BY <1>3, <1>9, <2>1, Prepended
  <2>3. dbase'[d] = <<i>> \o dbase[d]
    BY <1>1, <1>5, <2>1
  <2>4. dbase' \in [Item -> Seq(Item)] /\ \A j \in Item \ {d} : dbase'[j] = dbase[j]
    BY <1>1, <2>1, <2>2
  <2> QED BY <2>2, <2>3, <2>4
<1>11. \A j, x \in Item : x \in ToSet(dbase'[j]) <=> x \in ToSet(dbase[j]) \/ (j = d /\ x = i)
  BY <1>10
<1>12. dcount' \in [Item -> Int]
  BY <1>1, <1>3 DEF IInv, TypeOK
<1>13. TypeOK'
  BY <1>1, <1>6, <1>7, <1>8, <1>10, <1>12 DEF IInv, TypeOK
<1>14. DepsInv' /\ PlaceInv'
  <2>1. calls' # <<>>
    BY <1>3, <1>6
  <2> QED BY <1>1, <2>1 DEF IInv, DepsInv, PlaceInv, Busy
<1>15. CallInv'
  <2>1. \A j, k \in DOMAIN calls' : calls'[j].item = calls'[k].item => j = k
    BY <1>6 DEF IInv, CallInv
  <2>2. ASSUME NEW k \in DOMAIN calls, NEW e \in Item, calls[k].item \in ToSet(dbase'[e])
        PROVE  \E n \in DOMAIN deps[calls[k].item] :
                 n < calls'[k].pos /\ deps[calls[k].item][n] = e
    <3>1. CASE calls[k].item \in ToSet(dbase[e])
      <4>1. PICK n \in DOMAIN deps[calls[k].item] :
                   n < calls[k].pos /\ deps[calls[k].item][n] = e
        BY <3>1 DEF IInv, CallInv
      <4>2. n \in Nat
        <5>1. deps[calls[k].item] \in Seq(Item)
          BY <1>3 DEF IInv, TypeOK
        <5> QED BY <5>1
      <4>3. n < calls'[k].pos
        BY <1>3, <1>6, <4>1, <4>2
      <4> QED BY <4>1, <4>3
    <3>2. CASE e = d /\ calls[k].item = i
      <4>1. k = Len(calls)
        BY <1>3, <3>2 DEF IInv, CallInv, i
      <4>2. Top.pos < calls'[k].pos
        BY <1>3, <1>6, <4>1
      <4> QED BY <1>4, <3>2, <4>2
    <3> QED BY <1>3, <1>11, <2>2, <3>1, <3>2
  <2>3. \A k \in DOMAIN calls : status'[calls[k].item] # "none"
    BY <1>3, <1>7 DEF IInv, CallInv
  <2>4. /\ deps' = deps /\ DOMAIN calls' = DOMAIN calls
        /\ \A k \in DOMAIN calls : calls'[k].item = calls[k].item
    BY <1>1, <1>6
  <2>5. ASSUME NEW k \in DOMAIN calls' PROVE status'[calls'[k].item] # "none"
    BY <2>3, <2>4
  <2>6. ASSUME NEW k \in DOMAIN calls', NEW e \in Item, calls'[k].item \in ToSet(dbase'[e])
        PROVE  \E n \in DOMAIN deps'[calls'[k].item] :
                 n < calls'[k].pos /\ deps'[calls'[k].item][n] = e
    BY <2>2, <2>4, <2>6
  <2> QED BY <2>1, <2>5, <2>6 DEF CallInv
<1>16. DbaseInv'
  <2>1. ASSUME NEW e \in Item PROVE Injective(dbase'[e])
    BY <1>10 DEF IInv, DbaseInv
  <2>2. ASSUME NEW e \in Item, NEW j \in ToSet(dbase'[e])
        PROVE  e < j /\ status'[e] # "none" /\ status'[j] # "none"
    <3>1. j \in Item
      BY <1>10 DEF ToSet
    <3>2. CASE j \in ToSet(dbase[e])
      BY <1>7, <3>1, <3>2 DEF IInv, DbaseInv
    <3>3. CASE e = d /\ j = i
      <4>1. status[i] # "none"
        BY <1>3 DEF IInv, CallInv, i
      <4> QED BY <1>1, <1>5, <1>7, <3>1, <3>3, <4>1
    <3> QED BY <1>11, <2>2, <3>1, <3>2, <3>3
  <2> QED BY <2>1, <2>2 DEF DbaseInv
<1>17. FrameInv'
  BY <1>1 DEF FrameInv, FramesOK
<1>18. ListInv'
  BY <1>1, <1>7 DEF IInv, ListInv, TypeOK
<1>19. ASSUME NEW e \in Item, NEW j \in Item
       PROVE  /\ Owes(e, j) <=> status[e] # "done" /\ j \in ToSet(dbase[e])
              /\ Owes(e, j)' <=> status[e] # "done" /\ j \in ToSet(dbase'[e])
  <2>1. status'[e] = "done" <=> status[e] = "done"
    BY <1>7
  <2>2. Owes(e, j)' <=> status'[e] # "done" /\ j \in ToSet(dbase'[e])
    BY <1>1, OwesAtRest DEF Owes
  <2>3. Owes(e, j) <=> status[e] # "done" /\ j \in ToSet(dbase[e])
    BY <1>1, OwesAtRest DEF Owes
  <2> QED BY <2>1, <2>2, <2>3
<1>20. CountInv'
  <2> SUFFICES ASSUME NEW j \in Item PROVE dcount'[j] = Cardinality(Pending(j)')
    BY DEF CountInv
  <2>1. dcount[j] = Cardinality(Pending(j)) /\ dcount \in [Item -> Int]
    BY DEF IInv, CountInv, TypeOK
  <2>2. CASE j # i \/ status[d] = "done"
    <3>1. Pending(j)' = Pending(j)
      BY <1>11, <1>19, <2>2 DEF Pending
    <3>2. dcount'[j] = dcount[j]
      BY <1>1, <1>3, <2>1, <2>2
    <3> QED BY <2>1, <3>1, <3>2
  <2>3. CASE j = i /\ status[d] # "done"
    <3>1. Pending(j)' = Pending(j) \cup {d} /\ d \notin Pending(j)
      BY <1>5, <1>9, <1>11, <1>19, <2>3 DEF Pending
    <3>2. dcount'[j] = dcount[j] + 1
      BY <1>1, <1>3, <2>1, <2>3
    <3> QED BY <2>1, <3>1, <3>2, PendingFinite, FS_AddElement
  <2> QED BY <2>2, <2>3
<1>21. FailInv'
  <2> SUFFICES ASSUME NEW e \in Item, NEW j \in Item, status'[j] = "waiting",
                      j \in ToSet(dbase'[e]), ~Owes(e, j)'
               PROVE  xcode'[e] = 0
    BY DEF FailInv
  <2>1. status[e] = "done" /\ status[j] = "waiting" /\ ~(j = i /\ failed)
    BY <1>7, <1>19
  <2>2. xcode[e] = 0
    BY <1>8, <1>11, <1>19, <2>1 DEF IInv, FailInv, failed
  <2>3. xcode'[e] = xcode[e]
    BY <1>1, <1>8, <2>1
  <2> QED BY <2>2, <2>3
<1>22. WaitInv'
  <2> SUFFICES ASSUME NEW j \in Item, status'[j] \in {"waiting", "depfail"}
               PROVE  Open(j)' \/ dcount'[j] > 0
    BY DEF WaitInv
  <2>1. Open(j) => Open(j)'
    BY <1>1, <1>6 DEF Open
  <2>2. CASE j = i
    BY <1>1, <1>3, <2>1, <2>2 DEF Open, i
  <2>3. CASE j # i
    <3>1. status[j] = status'[j] /\ dcount'[j] = dcount[j]
      BY <1>1, <1>7, <2>3 DEF IInv, TypeOK
    <3>2. Open(j) \/ dcount[j] > 0
      BY <1>1, <3>1, OwesAtRest DEF IInv, WaitInv
    <3> QED BY <2>1, <3>1, <3>2
  <2> QED BY <2>2, <2>3
<1> QED
  BY <1>13, <1>14, <1>15, <1>16, <1>17, <1>18, <1>20, <1>21, <1>22 DEF IInv

----------------------------------------------------------------------------
(* processCompletion.                                                       *)

(* An item that has come to its end begins to tell the others: it fails    *)
(* with its dependencies, its build has ended or could not be started.     *)
LEMMA CompletionKeeps ==
  ASSUME IInv, ~Busy, NEW i \in Item, status[i] \in {"build", "run", "depfail"},
         completing' = Begun(completing, dbase, i),
         TypeOK', PlaceInv', ListInv', running' \subseteq running,
         status'[i] \in {"run", "depfail"}, i \notin running',
         \A j \in Item \ {i} : status'[j] = status[j] /\ xcode'[j] = xcode[j],
         \A j \in Item \ {i} : Open(j) => Open(j)',
         UNCHANGED <<deps, dbase, dcount, calls>>
  PROVE  IInv'
<1>0. completing = <<>>
  BY DEF Busy
<1>1. ~In(completing, i) /\ completing \in Seq(DoneFrame) /\ dbase \in [Item -> Seq(Item)]
  BY <1>0 DEF IInv, TypeOK, In
<1>2. /\ completing \in Seq(DoneFrame) /\ dbase \in [Item -> Seq(Item)]
      /\ \A d : ~In(completing, d)
      /\ status'[i] # "done" /\ status[i] # "done"
  BY <1>0 DEF IInv, TypeOK, In
<1>3. /\ \A d : In(completing', d) <=> d = i
      /\ \A d, x : OwesIn(completing', status', dbase, d, x) <=>
                     OwesIn(completing, status', dbase, d, x)
  <2>1. /\ \A d : In(completing', d) <=> In(completing, d) \/ d = i
        /\ \A d, x : OwesIn(completing', status', dbase, d, x) <=>
                       OwesIn(completing, status', dbase, d, x)
    BY <1>1, Pushed
  <2> QED BY <1>2, <2>1
<1>4. \A d \in Item : status'[d] = "done" <=> status[d] = "done"
  BY <1>2
<1>5. \A d, j \in Item : Owes(d, j)' <=> Owes(d, j)
  BY <1>1, <1>3, <1>4, SameOwed DEF Owes
<1>6. FrameInv'
  <2>1. FramesOK(completing, status', dbase, running')
    BY <1>0 DEF FramesOK
  <2>2. Injective(dbase[i])
    BY DEF IInv, DbaseInv
  <2>3. \A k \in DOMAIN completing : completing[k].item < i
    BY <1>0
  <2>4. FramesOK(completing', status', dbase, running')
    BY <1>1, <1>2, <2>1, <2>2, <2>3, PushedFrames
  <2> QED BY <2>4 DEF FrameInv
<1>7. \A j \in Item : status[j] # "none" => status'[j] # "none"
  OBVIOUS
<1>8. DepsInv'
  BY DEF IInv, DepsInv
<1>9. DbaseInv'
  <2>1. \A d \in Item : ToSet(dbase[d]) \subseteq Item
    BY DEF IInv, TypeOK, ToSet
  <2> QED BY <1>7, <2>1 DEF IInv, DbaseInv
<1>10. CallInv'
  <2>1. \A k \in DOMAIN calls : calls[k].item \in Item
    BY TopFrame DEF IInv
  <2> QED BY <1>7, <2>1 DEF IInv, CallInv
<1>11. CountInv'
  BY <1>5, CountKept DEF IInv
<1>12. FailInv'
  <2> SUFFICES ASSUME NEW d \in Item, NEW j \in Item, status'[j] = "waiting",
                      j \in ToSet(dbase[d]), ~Owes(d, j)
               PROVE  xcode'[d] = 0
    BY <1>5 DEF FailInv
  <2>1. j # i /\ status[j] = "waiting"
    OBVIOUS
  <2>2. d # i
    BY <1>0, <1>2, OwesAtRest DEF Owes
  <2> QED BY <2>1, <2>2 DEF IInv, FailInv
<1>13. WaitInv'
  <2> SUFFICES ASSUME NEW j \in Item, j # i, status[j] \in {"waiting", "depfail"}
               PROVE  Open(j)' \/ dcount[j] > 0
    BY <1>3 DEF WaitInv
  <2> QED BY <1>2 DEF IInv, WaitInv
<1> QED BY <1>6, <1>8, <1>9, <1>10, <1>11, <1>12, <1>13 DEF IInv

(* The item on top of the recursion, and the one it tells.                 *)
LEMMA TopCompleting ==
  ASSUME IInv, Busy, Frame.rest # <<>>
  PROVE  /\ Frame.item \in Item /\ Head(Frame.rest) \in Item /\ Frame.item < Head(Frame.rest)
         /\ Frame.item # Head(Frame.rest) /\ ~In(completing, Head(Frame.rest))
         /\ Head(Frame.rest) \in ToSet(dbase[Frame.item]) /\ In(completing, Frame.item)
         /\ Owes(Frame.item, Head(Frame.rest)) /\ dcount[Head(Frame.rest)] >= 1
         /\ status[Frame.item] \in {"run", "depfail"} /\ status[Head(Frame.rest)] # "none"
<1> DEFINE f == Topmost(completing)
           x == Head(f.rest)
<1>1. /\ completing \in Seq(DoneFrame) /\ dbase \in [Item -> Seq(Item)] /\ completing # <<>>
      /\ FramesOK(completing, status, dbase, running) /\ f.rest # <<>>
  BY DEF IInv, TypeOK, FrameInv, Busy, Frame, Topmost
<1>2. /\ f.item \in Item /\ x \in Item /\ x \in ToSet(dbase[f.item])
      /\ \A k \in DOMAIN Advanced(completing) : Advanced(completing)[k].item <= f.item
      /\ \A d : In(Advanced(completing), d) <=> In(completing, d)
      /\ In(completing, f.item) /\ OwesIn(completing, status, dbase, f.item, x)
  BY <1>1, Told
<1> HIDE DEF f, x
<1>3. f.item < x /\ status[x] # "none"
  BY <1>2 DEF IInv, DbaseInv
<1>4. f.item # x
  BY <1>2, <1>3, NAssumption DEF Item
<1>5. ~In(completing, x)
  <2> SUFFICES ASSUME NEW k \in DOMAIN Advanced(completing), Advanced(completing)[k].item = x
               PROVE  FALSE
    BY <1>2 DEF In
  <2>1. x <= f.item
    BY <1>2
  <2> QED BY <1>2, <1>3, <2>1, NAssumption DEF Item
<1>6. f.item \in Pending(x)
  BY <1>2 DEF Pending, Owes
<1>7. dcount[x] >= 1
  <2>1. dcount[x] = Cardinality(Pending(x))
    BY <1>2 DEF IInv, CountInv
  <2> QED BY <1>6, <2>1, PendingFinite
<1>8. status[f.item] \in {"run", "depfail"}
  <2>1. Len(completing) \in DOMAIN completing
    BY <1>1, Below
  <2> QED BY <1>1, <2>1 DEF FramesOK, f, Topmost
<1> QED BY <1>2, <1>3, <1>4, <1>5, <1>7, <1>8 DEF f, x, Owes, Frame, Topmost

(* One item is told.  It is listed, completes too, or waits for another.   *)
LEMMA PassOnKeeps == ASSUME IInv, PassOn PROVE IInv'
<1> DEFINE f == Topmost(completing)
           x == Head(f.rest)
           cm1 == Advanced(completing)
           ok == xcode[f.item] = 0
           listed == ok /\ Ready(x)
           too == CompletesToo(x)
<1>1. /\ Busy /\ f.rest # <<>>
      /\ dcount' = [dcount EXCEPT ![x] = @ - 1]
      /\ build' = IF listed THEN Append(build, x) ELSE build
      /\ status' = [status EXCEPT ![x] = IF listed THEN "build" ELSE IF too THEN "depfail" ELSE @]
      /\ xcode' = [xcode EXCEPT ![x] = IF ~ok /\ too THEN xcode[f.item] ELSE @]
      /\ completing' = IF too THEN Append(cm1, [item |-> x, rest |-> dbase[x]]) ELSE cm1
      /\ UNCHANGED <<deps, roots, dbase, running, exited, calls, pc>>
  BY DEF PassOn, Frame, Outer, Topmost, Advanced
<1>2. /\ f.item \in Item /\ x \in Item /\ f.item # x /\ ~In(completing, x)
      /\ x \in ToSet(dbase[f.item]) /\ In(completing, f.item)
      /\ Owes(f.item, x) /\ dcount[x] >= 1 /\ status[x] # "none" /\ f.item < x
  BY <1>1, TopCompleting DEF Frame, Topmost
<1>3. /\ completing \in Seq(DoneFrame) /\ dbase \in [Item -> Seq(Item)] /\ completing # <<>>
      /\ FramesOK(completing, status, dbase, running)
      /\ status \in [Item -> Statuses] /\ xcode \in [Item -> {0, 1}] /\ build \in Seq(Item)
      /\ dcount \in [Item -> Int]
  BY <1>1 DEF IInv, TypeOK, FrameInv, Busy
<1>4. /\ cm1 \in Seq(DoneFrame) /\ FramesOK(cm1, status, dbase, running)
      /\ \A k \in DOMAIN cm1 : cm1[k].item <= f.item
      /\ \A d : In(cm1, d) <=> In(completing, d)
      /\ \A d, y : OwesIn(cm1, status, dbase, d, y) <=>
                     OwesIn(completing, status, dbase, d, y) /\ ~(d = f.item /\ y = x)
  BY <1>1, <1>3, Told
<1>5. /\ too => status[x] \in {"waiting", "depfail"}
      /\ listed => status[x] = "waiting" /\ dcount[x] = 1 /\ ~too
      /\ status[x] = "waiting" /\ ~listed /\ ~too => ok /\ dcount[x] # 1
      /\ status[x] = "depfail" /\ ~too => dcount[x] # 1
      /\ status[x] = "waiting" /\ ~ok => too
  BY DEF CompletesToo, Ready, Frame, Topmost
<1> HIDE DEF f, x, cm1, ok, listed, too
<1>6. /\ status' \in [Item -> Statuses]
      /\ \A j \in Item \ {x} : status'[j] = status[j]
      /\ status'[x] = IF listed THEN "build" ELSE IF too THEN "depfail" ELSE status[x]
  BY <1>1, <1>2, <1>3 DEF Statuses
<1>7. /\ xcode' \in [Item -> {0, 1}]
      /\ \A j \in Item \ {x} : xcode'[j] = xcode[j]
      /\ ~too => xcode' = xcode
  BY <1>1, <1>2, <1>3
<1>8. /\ dcount' \in [Item -> Int] /\ dcount'[x] = dcount[x] - 1
      /\ \A j \in Item \ {x} : dcount'[j] = dcount[j]
  BY <1>1, <1>2, <1>3
<1>9. \A j \in Item : /\ status'[j] = "done" <=> status[j] = "done"
                      /\ status[j] # "none" => status'[j] # "none"
  BY <1>5, <1>6
<1>10. \A k \in DOMAIN cm1 : cm1[k] \in DoneFrame /\ cm1[k].item \in Item /\ cm1[k].item < x
  <2> SUFFICES ASSUME NEW k \in DOMAIN cm1
               PROVE  cm1[k] \in DoneFrame /\ cm1[k].item \in Item /\ cm1[k].item < x
    OBVIOUS
  <2>1. cm1[k] \in DoneFrame
    BY <1>4
  <2>2. cm1[k].item \in Item /\ cm1[k].item <= f.item
    BY <1>4, <2>1 DEF DoneFrame
  <2> QED BY <1>2, <2>1, <2>2, NAssumption DEF Item
<1>11. FramesOK(cm1, status', dbase, running)
  <2>1. \A k \in DOMAIN cm1 : status'[cm1[k].item] = status[cm1[k].item]
    BY <1>2, <1>4, <1>6, <1>10 DEF In
  <2> QED BY <1>4, <2>1 DEF FramesOK
<1>12. \A d \in Item : \A y :
         OwesIn(cm1, status', dbase, d, y) <=> Owes(d, y) /\ ~(d = f.item /\ y = x)
  <2>1. \A d \in Item : \A y :
          OwesIn(cm1, status', dbase, d, y) <=> OwesIn(cm1, status, dbase, d, y)
    BY <1>9, SameOwed
  <2> QED BY <1>4, <2>1 DEF Owes
<1>13. /\ completing' \in Seq(DoneFrame) /\ FrameInv'
       /\ \A d : In(completing', d) <=> In(completing, d) \/ (too /\ d = x)
       /\ \A d \in Item : \A y : Owes(d, y)' <=> Owes(d, y) /\ ~(d = f.item /\ y = x)
  <2>1. CASE ~too
    <3>1. completing' = cm1
      BY <1>1, <2>1
    <3> QED BY <1>1, <1>4, <1>11, <1>12, <2>1, <3>1 DEF FrameInv, Owes
  <2>2. CASE too
    <3>1. completing' = Begun(cm1, dbase, x)
      BY <1>1, <2>2 DEF Begun
    <3>2. /\ ~In(cm1, x) /\ status'[x] = "depfail" /\ status'[x] # "done"
          /\ cm1 \in Seq(DoneFrame) /\ dbase \in [Item -> Seq(Item)] /\ x \in Item
      BY <1>2, <1>3, <1>4, <1>5, <1>6, <2>2
    <3>3. /\ completing' \in Seq(DoneFrame)
          /\ \A d : In(completing', d) <=> In(cm1, d) \/ d = x
          /\ \A d, y : OwesIn(completing', status', dbase, d, y) <=>
                         OwesIn(cm1, status', dbase, d, y)
      BY <3>1, <3>2, Pushed
    <3>4. x \notin running
      BY <1>5, <2>2 DEF IInv, ListInv
    <3>5. Injective(dbase[x])
      BY <1>2 DEF IInv, DbaseInv
    <3>6. FramesOK(completing', status', dbase, running)
      BY <1>2, <1>3, <1>4, <1>10, <1>11, <3>1, <3>2, <3>4, <3>5, PushedFrames
    <3> QED BY <1>1, <1>4, <1>12, <2>2, <3>3, <3>6 DEF FrameInv, Owes
  <2> QED BY <2>1, <2>2
<1>14. build' \in Seq(Item) /\ ListInv'
  <2>1. x \in ToSet(build) => status[x] = "build"
    BY <1>2 DEF IInv, ListInv
  <2>2. Injective(build)
    BY DEF IInv, ListInv
  <2>3. /\ build' \in Seq(Item) /\ Injective(build')
        /\ \A j \in Item : j \in ToSet(build') <=> j \in ToSet(build) \/ (listed /\ j = x)
    <3>1. CASE listed
      <4>1. x \notin ToSet(build) /\ build' = Append(build, x)
        BY <1>1, <1>5, <2>1, <3>1
      <4> QED BY <1>2, <1>3, <2>2, <3>1, <4>1, Appended
    <3>2. CASE ~listed
      BY <1>1, <1>3, <2>2, <3>2
    <3> QED BY <3>1, <3>2
  <2>4. \A j \in Item : j \in ToSet(build') <=> status'[j] = "build"
    BY <1>5, <1>6, <2>3 DEF IInv, ListInv
  <2>5. \A j \in running' : status'[j] = "run"
    BY <1>1, <1>5, <1>6 DEF IInv, ListInv, TypeOK
  <2>6. \A j \in Item : status'[j] = "run" => j \in running' \/ In(completing', j)
    BY <1>1, <1>5, <1>6, <1>13 DEF IInv, ListInv
  <2> QED BY <2>3, <2>4, <2>5, <2>6 DEF ListInv
<1>15. TypeOK'
  BY <1>1, <1>6, <1>7, <1>8, <1>13, <1>14 DEF IInv, TypeOK
<1>16. DepsInv' /\ PlaceInv'
  BY <1>1 DEF IInv, DepsInv, PlaceInv, Busy
<1>17. CallInv'
  <2>1. \A k \in DOMAIN calls : calls[k].item \in Item
    BY TopFrame DEF IInv
  <2> QED BY <1>1, <1>9, <2>1 DEF IInv, CallInv
<1>18. DbaseInv'
  <2>1. \A d \in Item : ToSet(dbase[d]) \subseteq Item
    BY <1>3 DEF ToSet
  <2> QED BY <1>1, <1>9, <2>1 DEF IInv, DbaseInv
<1>19. CountInv'
  <2> SUFFICES ASSUME NEW j \in Item PROVE dcount'[j] = Cardinality(Pending(j)')
    BY DEF CountInv
  <2>1. dcount[j] = Cardinality(Pending(j))
    BY DEF IInv, CountInv
  <2>2. CASE j # x
    <3>1. Pending(j)' = Pending(j)
      BY <1>13, <2>2 DEF Pending
    <3> QED BY <1>8, <2>1, <2>2, <3>1
  <2>3. CASE j = x
    <3>1. Pending(j)' = Pending(j) \ {f.item} /\ f.item \in Pending(j)
      BY <1>2, <1>13, <2>3 DEF Pending
    <3> QED BY <1>8, <2>1, <2>3, <3>1, PendingFinite, FS_RemoveElement
  <2> QED BY <2>2, <2>3
<1>20. FailInv'
  <2> SUFFICES ASSUME NEW d \in Item, NEW j \in Item, status'[j] = "waiting",
                      j \in ToSet(dbase[d]), ~Owes(d, j)'
               PROVE  xcode'[d] = 0
    BY <1>1 DEF FailInv
  <2>1. status[j] = "waiting"
    BY <1>6
  <2>2. CASE d = f.item /\ j = x
    <3>1. ok
      BY <1>5, <1>6, <2>2
    <3> QED BY <1>2, <1>7, <2>2, <3>1 DEF ok
  <2>3. CASE ~Owes(d, j)
    <3>1. xcode[d] = 0
      BY <2>1, <2>3 DEF IInv, FailInv
    <3>2. CASE d = x /\ too
      BY <1>2, <1>5, <2>3, <3>2 DEF Owes, OwesIn
    <3>3. CASE d # x \/ ~too
      BY <1>7, <3>1, <3>3
    <3> QED BY <3>2, <3>3
  <2> QED BY <1>13, <2>2, <2>3
<1>21. WaitInv'
  <2> SUFFICES ASSUME NEW j \in Item, status'[j] \in {"waiting", "depfail"}
               PROVE  Open(j) \/ In(completing', j) \/ dcount'[j] > 0
    BY <1>1 DEF WaitInv, Open
  <2>1. CASE j # x
    BY <1>6, <1>8, <1>13, <2>1 DEF IInv, WaitInv
  <2>2. CASE j = x /\ too
    BY <1>13, <2>2
  <2>3. CASE j = x /\ ~too
    <3>1. dcount[x] # 1 /\ dcount[x] \in Int
      BY <1>2, <1>3, <1>5, <1>6, <2>3
    <3> QED BY <1>2, <1>8, <2>3, <3>1
  <2> QED BY <2>1, <2>2, <2>3
<1> QED
  BY <1>13, <1>14, <1>15, <1>16, <1>17, <1>18, <1>19, <1>20, <1>21 DEF IInv

(* All are told, and the item is done.                                     *)
LEMMA FinishKeeps == ASSUME IInv, Finish PROVE IInv'
<1> DEFINE f == Topmost(completing)
<1>1. /\ completing # <<>> /\ f.rest = <<>>
      /\ status' = [status EXCEPT ![f.item] = "done"] /\ completing' = Lower(completing)
      /\ UNCHANGED <<deps, roots, dbase, dcount, xcode, build, running, exited, calls, pc>>
  BY DEF Finish, Busy, Frame, Outer, Topmost, Lower
<1>2. /\ completing \in Seq(DoneFrame) /\ status \in [Item -> Statuses]
      /\ dbase \in [Item -> Seq(Item)] /\ FramesOK(completing, status, dbase, running)
  BY DEF IInv, TypeOK, FrameInv
<1>3. /\ completing' \in Seq(DoneFrame) /\ FramesOK(completing', status', dbase, running)
      /\ f.item \in Item /\ f.item \notin running /\ status[f.item] \in {"run", "depfail"}
      /\ \A d : In(completing', d) <=> In(completing, d) /\ d # f.item
      /\ \A d \in Item : \A x : OwesIn(completing', status', dbase, d, x) <=>
                                 OwesIn(completing, status, dbase, d, x)
  <2>1. completing # <<>> /\ f.rest = <<>> /\ status' = TopDone(completing, status)
    BY <1>1 DEF TopDone
  <2>2. /\ Lower(completing) \in Seq(DoneFrame)
        /\ FramesOK(Lower(completing), status', dbase, running)
        /\ f.item \in Item /\ f.item \notin running /\ status[f.item] \in {"run", "depfail"}
        /\ \A d : In(Lower(completing), d) <=> In(completing, d) /\ d # f.item
        /\ \A d \in Item : \A x : OwesIn(Lower(completing), status', dbase, d, x) <=>
                                   OwesIn(completing, status, dbase, d, x)
    BY <1>2, <2>1, Popped
  <2> QED BY <1>1, <2>2
<1> HIDE DEF f
<1>4. /\ status' \in [Item -> Statuses] /\ status'[f.item] = "done"
      /\ \A j \in Item \ {f.item} : status'[j] = status[j]
      /\ \A j \in Item : status[j] # "none" => status'[j] # "none"
  BY <1>1, <1>2, <1>3 DEF Statuses
<1>5. \A d, j \in Item : Owes(d, j)' <=> Owes(d, j)
  BY <1>1, <1>3 DEF Owes
<1>6. TypeOK'
  BY <1>1, <1>3, <1>4 DEF IInv, TypeOK
<1>7. DepsInv' /\ PlaceInv' /\ FrameInv'
  BY <1>1, <1>3 DEF IInv, DepsInv, PlaceInv, Busy, FrameInv
<1>8. CallInv'
  <2>1. \A k \in DOMAIN calls : calls[k].item \in Item
    BY TopFrame DEF IInv
  <2> QED BY <1>1, <1>4, <2>1 DEF IInv, CallInv
<1>9. DbaseInv'
  <2>1. \A d \in Item : ToSet(dbase[d]) \subseteq Item
    BY <1>2 DEF ToSet
  <2> QED BY <1>1, <1>4, <2>1 DEF IInv, DbaseInv
<1>10. ListInv'
  BY <1>1, <1>3, <1>4 DEF IInv, ListInv, TypeOK
<1>11. CountInv'
  BY <1>1, <1>5, CountKept DEF IInv
<1>12. FailInv'
  BY <1>1, <1>4, <1>5 DEF IInv, FailInv
<1>13. WaitInv'
  BY <1>1, <1>3, <1>4 DEF IInv, WaitInv, Open
<1> QED BY <1>6, <1>7, <1>8, <1>9, <1>10, <1>11, <1>12, <1>13 DEF IInv

(* All lines are read: the item is listed, fails, or waits for somebody.   *)
LEMMA DependsEndKeeps == ASSUME IInv, DependsEnd PROVE IInv'
<1> DEFINE i == Top.item
<1>1. /\ pc = "deps" /\ ~Busy /\ pc' = "fill" /\ completing = <<>>
      /\ UNCHANGED <<deps, roots, dbase, dcount, xcode, running, exited, calls>>
      /\ dcount[i] = 0 => status[i] \in {"waiting", "depfail"}
      /\ IF dcount[i] = 0 /\ status[i] = "waiting"
           THEN build' = Append(build, i) /\ status' = [status EXCEPT ![i] = "build"]
           ELSE UNCHANGED <<build, status>>
      /\ completing' = IF dcount[i] = 0 /\ status[i] = "depfail"
                         THEN <<[item |-> i, rest |-> dbase[i]]>> ELSE <<>>
  BY DEF DependsEnd, At, Busy
<1>2. calls # <<>>
  BY <1>1 DEF IInv, PlaceInv
<1>3. /\ Len(calls) \in Nat \ {0} /\ DOMAIN calls = 1..Len(calls) /\ i \in Item
      /\ Top = calls[Len(calls)]
  BY <1>2, TopFrame DEF IInv
<1> HIDE DEF i
<1>4. \A j \in Item \ {i} : Open(j) => Open(j)'
  <2> SUFFICES ASSUME NEW j \in Item \ {i}, NEW k \in DOMAIN calls, calls[k].item = j
               PROVE  k < Len(calls)
    BY <1>1 DEF Open
  <2>1. k # Len(calls)
    BY <1>3 DEF i
  <2> QED BY <1>3, <2>1
<1>5. PlaceInv'
  BY <1>1 DEF IInv, PlaceInv
<1>6. CASE dcount[i] = 0 /\ status[i] = "depfail"
  <2>1. UNCHANGED <<build, status>> /\ completing' = <<[item |-> i, rest |-> dbase[i]]>>
    BY <1>1, <1>6
  <2>2. completing' = Begun(completing, dbase, i)
    BY <1>1, <2>1 DEF Begun
  <2>3. TypeOK'
    <3>1. [item |-> i, rest |-> dbase[i]] \in DoneFrame
      BY <1>3 DEF IInv, TypeOK, DoneFrame
    <3>2. completing' \in Seq(DoneFrame)
      BY <2>1, <3>1
    <3> QED BY <1>1, <2>1, <3>2 DEF IInv, TypeOK, Place
  <2>4. i \notin running
    BY <1>6 DEF IInv, ListInv
  <2>5. \A j \in Item : ~In(completing, j)
    BY <1>1 DEF In
  <2>6. ListInv'
    BY <1>1, <2>1, <2>5 DEF IInv, ListInv
  <2> HIDE <1>6
  <2> QED BY <1>1, <1>3, <1>4, <1>5, <1>6, <2>1, <2>2, <2>3, <2>4, <2>6, CompletionKeeps
<1>7. CASE dcount[i] = 0 /\ status[i] = "waiting"
  <2>1. /\ build' = Append(build, i) /\ status' = [status EXCEPT ![i] = "build"]
        /\ completing' = <<>>
    BY <1>1, <1>7
  <2>2. /\ status' \in [Item -> Statuses] /\ status'[i] = "build"
        /\ \A j \in Item \ {i} : status'[j] = status[j]
    BY <1>3, <2>1 DEF IInv, TypeOK, Statuses
  <2>3. i \notin ToSet(build) /\ build \in Seq(Item) /\ Injective(build)
    BY <1>3, <1>7 DEF IInv, ListInv, TypeOK
  <2>4. /\ build' \in Seq(Item) /\ Injective(build')
        /\ ToSet(build') = ToSet(build) \cup {i}
    BY <1>3, <2>1, <2>3, Appended
  <2>5. TypeOK'
    BY <1>1, <2>1, <2>2, <2>4 DEF IInv, TypeOK, Place
  <2>6. ListInv'
    BY <1>1, <1>7, <2>1, <2>2, <2>4 DEF IInv, ListInv, TypeOK, In
  <2>7. FrameInv' /\ DepsInv'
    BY <1>1, <2>1 DEF IInv, DepsInv, FrameInv, FramesOK
  <2>8. \A j \in Item : /\ status'[j] = "done" <=> status[j] = "done"
                        /\ status[j] # "none" => status'[j] # "none"
    BY <1>7, <2>2
  <2>9. \A d, j \in Item : Owes(d, j)' <=> Owes(d, j)
    <3>1. completing' = completing /\ dbase' = dbase
      BY <1>1, <2>1
    <3> QED BY <2>8, <3>1, SameOwed DEF Owes
  <2>10. CountInv'
    BY <1>1, <2>9, CountKept DEF IInv
  <2>11. FailInv'
    BY <1>1, <2>2, <2>9 DEF IInv, FailInv
  <2>12. WaitInv'
    BY <1>1, <1>4, <2>1, <2>2 DEF IInv, WaitInv, In
  <2>13. CallInv'
    <3>1. \A k \in DOMAIN calls : calls[k].item \in Item
      BY TopFrame DEF IInv
    <3> QED BY <1>1, <2>8, <3>1 DEF IInv, CallInv
  <2>14. DbaseInv'
    <3>1. \A d \in Item : ToSet(dbase[d]) \subseteq Item
      BY DEF IInv, TypeOK, ToSet
    <3> QED BY <1>1, <2>8, <3>1 DEF IInv, DbaseInv
  <2> QED BY <1>5, <2>5, <2>6, <2>7, <2>10, <2>11, <2>12, <2>13, <2>14 DEF IInv
<1>8. CASE dcount[i] # 0
  <2>1. UNCHANGED <<deps, status, dbase, dcount, xcode, build, running, completing, calls>>
    BY <1>1, <1>8
  <2>2. dcount[i] > 0
    <3>1. dcount[i] = Cardinality(Pending(i))
      BY <1>3 DEF IInv, CountInv
    <3> QED BY <1>8, <3>1, PendingFinite
  <2>3. TypeOK'
    BY <1>1, <2>1 DEF IInv, TypeOK, Place
  <2>4. DepsInv' /\ CallInv' /\ DbaseInv' /\ FrameInv' /\ ListInv'
    BY <2>1 DEF IInv, DepsInv, CallInv, DbaseInv, FrameInv, ListInv
  <2>5. \A d, j \in Item : Owes(d, j)' <=> Owes(d, j)
    BY <2>1 DEF Owes
  <2>6. CountInv' /\ FailInv'
    BY <2>1, <2>5, CountKept DEF IInv, FailInv
  <2>7. WaitInv'
    BY <1>4, <2>1, <2>2 DEF IInv, WaitInv
  <2> QED BY <1>5, <2>3, <2>4, <2>6, <2>7 DEF IInv
<1> QED BY <1>1, <1>6, <1>7, <1>8

----------------------------------------------------------------------------
(* runBuilds and waitRunning.                                               *)

(* The first item of the build list is taken. *)
LEMMA HeadOfBuild ==
  ASSUME IInv, CanStart, build' = Tail(build), status' = [status EXCEPT ![Head(build)] = "run"]
  PROVE  /\ pc = "fill" /\ completing = <<>> /\ ~Busy
         /\ Head(build) \in Item /\ status[Head(build)] = "build" /\ Head(build) \notin running
         /\ build' \in Seq(Item) /\ Injective(build') /\ ToSet(build') = ToSet(build) \ {Head(build)}
         /\ status' \in [Item -> Statuses] /\ status'[Head(build)] = "run"
         /\ \A j \in Item \ {Head(build)} : status'[j] = status[j]
<1>1. pc = "fill" /\ completing = <<>> /\ ~Busy /\ build # <<>>
  BY DEF CanStart, At, Busy
<1>2. build \in Seq(Item) /\ Injective(build) /\ status \in [Item -> Statuses]
  BY DEF IInv, TypeOK, ListInv
<1>3. /\ Head(build) \in Item /\ Head(build) \in ToSet(build)
      /\ build' \in Seq(Item) /\ Injective(build') /\ ToSet(build') = ToSet(build) \ {Head(build)}
  BY <1>1, <1>2, HeadTaken
<1>4. status[Head(build)] = "build" /\ Head(build) \notin running
  BY <1>3 DEF IInv, ListInv
<1>5. /\ status' \in [Item -> Statuses] /\ status'[Head(build)] = "run"
      /\ \A j \in Item \ {Head(build)} : status'[j] = status[j]
  BY <1>2, <1>3 DEF Statuses
<1> QED BY <1>1, <1>3, <1>4, <1>5

(* A build is started.                                                     *)
LEMMA StartKeeps == ASSUME IInv, Start PROVE IInv'
<1> DEFINE i == Head(build)
<1>1. /\ CanStart /\ build' = Tail(build) /\ status' = [status EXCEPT ![i] = "run"]
      /\ running' = running \cup {i}
      /\ UNCHANGED <<deps, roots, dbase, dcount, xcode, exited, calls, completing, pc>>
  BY DEF Start
<1>2. /\ pc = "fill" /\ completing = <<>> /\ ~Busy
      /\ i \in Item /\ status[i] = "build" /\ i \notin running
      /\ build' \in Seq(Item) /\ Injective(build') /\ ToSet(build') = ToSet(build) \ {i}
      /\ status' \in [Item -> Statuses] /\ status'[i] = "run"
      /\ \A j \in Item \ {i} : status'[j] = status[j]
  BY <1>1, HeadOfBuild
<1> HIDE DEF i
<1>3. \A j \in Item : /\ status'[j] = "done" <=> status[j] = "done"
                      /\ status[j] # "none" => status'[j] # "none"
  BY <1>2
<1>4. \A d, j \in Item : Owes(d, j)' <=> Owes(d, j)
  BY <1>1, <1>3, SameOwed DEF Owes
<1>5. TypeOK'
  BY <1>1, <1>2 DEF IInv, TypeOK
<1>6. DepsInv' /\ PlaceInv' /\ FrameInv'
  BY <1>1, <1>2 DEF IInv, DepsInv, PlaceInv, Busy, FrameInv, FramesOK
<1>7. CallInv'
  <2>1. \A k \in DOMAIN calls : calls[k].item \in Item
    BY TopFrame DEF IInv
  <2> QED BY <1>1, <1>3, <2>1 DEF IInv, CallInv
<1>8. DbaseInv'
  <2>1. \A d \in Item : ToSet(dbase[d]) \subseteq Item
    BY DEF IInv, TypeOK, ToSet
  <2> QED BY <1>1, <1>3, <2>1 DEF IInv, DbaseInv
<1>9. ListInv'
  BY <1>1, <1>2 DEF IInv, ListInv, TypeOK, In
<1>10. CountInv'
  BY <1>1, <1>4, CountKept DEF IInv
<1>11. FailInv'
  BY <1>1, <1>2, <1>4 DEF IInv, FailInv
<1>12. WaitInv'
  BY <1>1, <1>2 DEF IInv, WaitInv, Open
<1> QED BY <1>5, <1>6, <1>7, <1>8, <1>9, <1>10, <1>11, <1>12 DEF IInv

(* A build cannot be started.                                              *)
LEMMA StartFailsKeeps == ASSUME IInv, StartFails PROVE IInv'
<1> DEFINE i == Head(build)
<1>1. /\ CanStart /\ build' = Tail(build) /\ status' = [status EXCEPT ![i] = "run"]
      /\ xcode' = [xcode EXCEPT ![i] = 1]
      /\ completing' = <<[item |-> i, rest |-> dbase[i]]>>
      /\ UNCHANGED <<deps, roots, dbase, dcount, running, exited, calls, pc>>
  BY DEF StartFails
<1>2. /\ pc = "fill" /\ completing = <<>> /\ ~Busy
      /\ i \in Item /\ status[i] = "build" /\ i \notin running
      /\ build' \in Seq(Item) /\ Injective(build') /\ ToSet(build') = ToSet(build) \ {i}
      /\ status' \in [Item -> Statuses] /\ status'[i] = "run"
      /\ \A j \in Item \ {i} : status'[j] = status[j]
  BY <1>1, HeadOfBuild
<1> HIDE DEF i
<1>3. completing' = Begun(completing, dbase, i)
  BY <1>1, <1>2 DEF Begun
<1>4. [item |-> i, rest |-> dbase[i]] \in DoneFrame
  BY <1>2 DEF IInv, TypeOK, DoneFrame
<1>5. completing' \in Seq(DoneFrame) /\ In(completing', i)
  BY <1>1, <1>4 DEF In
<1>6. xcode' \in [Item -> {0, 1}] /\ \A j \in Item \ {i} : xcode'[j] = xcode[j]
  BY <1>1 DEF IInv, TypeOK
<1>7. TypeOK' /\ PlaceInv'
  BY <1>1, <1>2, <1>5, <1>6 DEF IInv, TypeOK, PlaceInv, Busy
<1>8. \A j \in Item : ~In(completing, j)
  BY <1>2 DEF In
<1>9. ListInv'
  BY <1>1, <1>2, <1>5, <1>8 DEF IInv, ListInv, TypeOK
<1>10. \A j \in Item \ {i} : Open(j) => Open(j)'
  BY <1>1 DEF Open
<1>11. status[i] \in {"build", "run", "depfail"} /\ status'[i] \in {"run", "depfail"}
  BY <1>2
<1> QED BY <1>1, <1>2, <1>3, <1>6, <1>7, <1>9, <1>10, <1>11, CompletionKeeps

(* A build that has ended is reaped, by Reap or by Wait.                   *)
LEMMA ReapedKeeps ==
  ASSUME IInv, ~Busy, pc \in {"reap", "wait"}, NEW i \in DOMAIN exited, Reaped(i),
         pc' \in {"reap", "fill"}, pc = "reap" => pc' = pc,
         UNCHANGED <<deps, roots, status, dbase, dcount, build, calls>>
  PROVE  IInv'
<1>1. /\ running' = running \ {i} /\ xcode' = [xcode EXCEPT ![i] = exited[i]]
      /\ exited' = [j \in DOMAIN exited \ {i} |-> exited[j]]
      /\ completing' = <<[item |-> i, rest |-> dbase[i]]>> /\ completing = <<>>
  BY DEF Reaped, Busy
<1>2. i \in Item /\ i \in running /\ status[i] = "run" /\ exited[i] \in {0, 1}
  BY DEF IInv, TypeOK, ListInv
<1>3. completing' = Begun(completing, dbase, i)
  BY <1>1 DEF Begun
<1>4. [item |-> i, rest |-> dbase[i]] \in DoneFrame
  BY <1>2 DEF IInv, TypeOK, DoneFrame
<1>5. completing' \in Seq(DoneFrame) /\ In(completing', i)
  BY <1>1, <1>4 DEF In
<1>6. xcode' \in [Item -> {0, 1}] /\ \A j \in Item \ {i} : xcode'[j] = xcode[j]
  BY <1>1, <1>2 DEF IInv, TypeOK
<1>7. DOMAIN exited' \subseteq running' /\ \A j \in DOMAIN exited' : exited'[j] \in {0, 1}
  BY <1>1 DEF IInv, TypeOK
<1>8. TypeOK'
  BY <1>1, <1>5, <1>6, <1>7 DEF IInv, TypeOK, Place
<1>9. PlaceInv'
  BY DEF IInv, PlaceInv, Busy
<1>10. \A j \in Item : ~In(completing, j)
  BY <1>1 DEF In
<1>11. ListInv'
  BY <1>1, <1>2, <1>5, <1>10 DEF IInv, ListInv, TypeOK
<1>12. \A j \in Item \ {i} : Open(j) => Open(j)'
  <2>1. pc = "wait" => calls = <<>>
    BY DEF IInv, PlaceInv
  <2>2. pc \notin {"deps", "abort"}
    OBVIOUS
  <2> QED BY <2>1, <2>2 DEF Open
<1>13. status[i] \in {"build", "run", "depfail"} /\ status'[i] \in {"run", "depfail"}
  BY <1>2
<1>14. running' \subseteq running /\ i \notin running'
  BY <1>1
<1> QED BY <1>2, <1>3, <1>6, <1>8, <1>9, <1>11, <1>12, <1>13, <1>14, CompletionKeeps

----------------------------------------------------------------------------
(* The specification.                                                       *)

(* A sequence without repetitions over a finite set is one.                *)
LEMMA SeqsAreSeqs ==
  ASSUME NEW S, IsFiniteSet(S), NEW s \in SeqsOver(S)
  PROVE  s \in Seq(S) /\ Injective(s)
<1>1. PICK n \in 0..Cardinality(S) : s \in [1..n -> S]
  BY DEF SeqsOver
<1>2. n \in Nat
  BY <1>1, FS_CardinalityType
<1> QED BY <1>1, <1>2 DEF SeqsOver

(* The scheduler starts with no item.                                      *)
LEMMA InitIInv == Init => IInv
<1> SUFFICES ASSUME Init PROVE IInv
  OBVIOUS
<1>1. IsFiniteSet(1..(N - 1)) /\ IsFiniteSet(Item) /\ 1..(N - 1) \subseteq Item
  BY NAssumption, FS_Interval DEF Item
<1>2. \A j \in Item : deps[j] \in Seq(Item) /\ Injective(deps[j])
  <2> SUFFICES ASSUME NEW j \in Item PROVE deps[j] \in Seq(Item) /\ Injective(deps[j])
    OBVIOUS
  <2>1. deps[j] \in SeqsOver(1..(N - 1))
    BY DEF Init
  <2>2. deps[j] \in Seq(1..(N - 1)) /\ Injective(deps[j])
    BY <1>1, <2>1, SeqsAreSeqs
  <2> QED BY <1>1, <2>2, SeqMonotonic
<1>3. deps \in [Item -> Seq(Item)] /\ DepsInv
  <2>1. deps \in [Item -> SeqsOver(1..(N - 1))]
    BY DEF Init
  <2>2. deps \in [Item -> Seq(Item)]
    BY <1>2, <2>1
  <2>3. \A j \in Item : \A k \in DOMAIN deps[j] : deps[j][k] < j
    BY DEF Init
  <2> QED BY <1>2, <2>2, <2>3 DEF DepsInv
<1>4. roots \in Seq(Item)
  BY <1>1, SeqsAreSeqs DEF Init
<1>5. TypeOK
  <2>1. DOMAIN exited = {}
    BY DEF Init
  <2> QED BY <1>3, <1>4, <2>1 DEF Init, TypeOK, Statuses, Place
<1>6. PlaceInv /\ CallInv /\ FrameInv
  BY DEF Init, PlaceInv, Busy, CallInv, FrameInv, FramesOK
<1>7. \A d \in Item : dbase[d] = <<>> /\ ToSet(dbase[d]) = {} /\ Injective(dbase[d])
  BY EmptyList DEF Init
<1>8. DbaseInv /\ FailInv
  BY <1>7 DEF DbaseInv, FailInv
<1>9. ListInv
  BY EmptyList DEF Init, ListInv
<1>10. CountInv
  <2>1. \A j \in Item : Pending(j) = {}
    <3>1. completing = <<>>
      BY DEF Init
    <3> QED BY <1>7, <3>1, OwesAtRest DEF Pending, Owes
  <2> QED BY <2>1, FS_EmptySet DEF Init, CountInv
<1>11. WaitInv
  BY DEF Init, WaitInv
<1> QED BY <1>3, <1>5, <1>6, <1>8, <1>9, <1>10, <1>11 DEF IInv

(* runBuilds returns to the caller, which goes on reading.                 *)
LEMMA ReturnKeeps == ASSUME IInv, ReapEnd \/ ReapShell PROVE IInv'
<1>1. /\ pc = "reap" /\ ~Busy
      /\ UNCHANGED <<deps, roots, itemVars, build, running, exited, completing>>
  BY DEF ReapEnd, ReapShell, At
<1>2. calls \in Seq(CallFrame)
  BY DEF IInv, TypeOK
<1>3. CASE calls = <<>>
  <2>1. pc' = "wait" /\ calls' = calls
    <3>1. ReapEnd
      BY <1>3 DEF ReapShell
    <3> QED BY <1>3, <3>1 DEF ReapEnd, Return
  <2>2. TypeOK' /\ PlaceInv'
    BY <1>1, <1>3, <2>1 DEF IInv, TypeOK, PlaceInv, Busy, Place, itemVars
  <2>3. \A j \in Item : Open(j) => Open(j)'
    BY <1>3 DEF Open
  <2> QED BY <1>1, <2>1, <2>2, <2>3, Quiet
<1>4. CASE calls # <<>>
  <2>1. /\ Len(calls) \in Nat \ {0} /\ DOMAIN calls = 1..Len(calls)
        /\ Front(calls) \in Seq(CallFrame) /\ Len(Front(calls)) = Len(calls) - 1
        /\ DOMAIN Front(calls) = 1..(Len(calls) - 1)
        /\ \A k \in 1..(Len(calls) - 1) : Front(calls)[k] = calls[k]
    BY <1>2, <1>4, Below DEF Front
  <2>2. /\ calls' \in Seq(CallFrame) /\ DOMAIN calls' = 1..(Len(calls) - 1)
        /\ Len(calls') = Len(calls) - 1
        /\ \A k \in 1..(Len(calls) - 1) :
             calls'[k].item = calls[k].item /\ calls'[k].pos = calls[k].pos
        /\ pc' = IF Len(calls) = 1 THEN "walk" ELSE "deps"
    <3>1. CASE ReapEnd
      <4>1. calls' = Front(calls) /\ pc' = IF Len(calls) = 1 THEN "walk" ELSE "deps"
        BY <1>4, <3>1 DEF ReapEnd, Return
      <4> QED BY <2>1, <4>1
    <3>2. CASE ReapShell
      <4>1. PICK n \in 1..(Len(calls) - 1) : calls' = [Front(calls) EXCEPT ![n].shell = FALSE]
        BY <3>2 DEF ReapShell
      <4> DEFINE g == [calls[n] EXCEPT !.shell = FALSE]
      <4>2. calls[n] \in CallFrame
        BY <2>1
      <4>3. g \in CallFrame /\ g.item = calls[n].item /\ g.pos = calls[n].pos
        BY <4>2 DEF CallFrame
      <4>4. calls' = [Front(calls) EXCEPT ![n] = g]
        BY <2>1, <4>1
      <4> HIDE DEF g
      <4>5. calls' \in Seq(CallFrame) /\ Len(calls') = Len(calls) - 1
        BY <2>1, <4>3, <4>4, ExceptSeq
      <4>6. DOMAIN calls' = 1..(Len(calls) - 1)
        BY <2>1, <4>4
      <4>7. \A k \in 1..(Len(calls) - 1) : calls'[k] = IF k = n THEN g ELSE calls[k]
        BY <2>1, <4>4
      <4>8. Len(calls) # 1 /\ pc' = "deps"
        BY <2>1, <3>2, <4>1 DEF ReapShell
      <4> QED BY <4>3, <4>5, <4>6, <4>7, <4>8
    <3> QED BY <3>1, <3>2
  <2>3. TypeOK'
    BY <1>1, <2>2 DEF IInv, TypeOK, Place, itemVars
  <2>4. PlaceInv'
    <3>1. Len(calls) = 1 => calls' = <<>>
      BY <2>1, <2>2, EmptySeq
    <3>2. Len(calls) # 1 => calls' # <<>>
      BY <2>1, <2>2
    <3> QED BY <1>1, <2>2, <3>1, <3>2 DEF IInv, PlaceInv, Busy
  <2>5. \A j \in Item : Open(j) => Open(j)'
    <3> SUFFICES ASSUME NEW j \in Item, NEW k \in DOMAIN calls, calls[k].item = j, k < Len(calls)
                 PROVE  Open(j)'
      BY <1>1 DEF Open
    <3>1. k \in 1..(Len(calls) - 1) /\ Len(calls) # 1
      BY <2>1
    <3> QED BY <2>2, <3>1 DEF Open
  <2>6. DOMAIN calls' \subseteq DOMAIN calls
    BY <2>1, <2>2
  <2> QED BY <1>1, <2>2, <2>3, <2>4, <2>5, <2>6, Quiet
<1> QED BY <1>3, <1>4

(* Steps that change at most pc, the packages to walk and the exit states. *)
LEMMA PlainKeeps ==
  ASSUME IInv, UNCHANGED <<deps, itemVars, build, running, completing, calls>>,
         TypeOK', PlaceInv', pc \in {"deps", "abort"} => pc' \in {"deps", "abort"}
  PROVE  IInv'
<1>1. \A j \in Item : Open(j) => Open(j)'
  BY DEF Open
<1> QED BY <1>1, Quiet

(* Every step keeps the invariant.                                         *)
LEMMA NextIInv == IInv /\ [Next]_vars => IInv'
<1> SUFFICES ASSUME IInv, [Next]_vars PROVE IInv'
  OBVIOUS
<1>1. CASE Walk
  <2>1. /\ pc = "walk" /\ ~Busy /\ roots # <<>> /\ roots' = Tail(roots) /\ roots \in Seq(Item)
        /\ UNCHANGED <<deps, dbase, dcount, xcode, build, running, exited, completing>>
    BY <1>1 DEF Walk, At, IInv, TypeOK
  <2>2. Head(roots) \in Item /\ roots' \in Seq(Item)
    BY <2>1, HeadTailProperties
  <2>3. CASE status[Head(roots)] = "none"
    <3>1. Call(Head(roots))
      BY <1>1, <2>3 DEF Walk
    <3> QED BY <2>1, <2>2, <2>3, <3>1, CallKeeps
  <2>4. CASE status[Head(roots)] # "none"
    <3>1. UNCHANGED <<calls, status, pc>>
      BY <1>1, <2>4 DEF Walk
    <3>2. TypeOK' /\ PlaceInv'
      BY <2>1, <2>2, <3>1 DEF IInv, TypeOK, PlaceInv, Busy
    <3> QED BY <2>1, <3>1, <3>2, PlainKeeps DEF itemVars
  <2> QED BY <2>3, <2>4
<1>2. CASE WalkEnd
  <2>1. TypeOK' /\ PlaceInv' /\ pc = "walk"
    BY <1>2 DEF WalkEnd, At, IInv, TypeOK, PlaceInv, Busy, Place, itemVars
  <2> QED BY <1>2, <2>1, PlainKeeps DEF WalkEnd
<1>3. CASE Descend
  <2>1. calls # <<>> /\ pc = "deps" /\ ~Busy /\ Top.pos <= Len(deps[Top.item])
    BY <1>3 DEF Descend, Reading, At, IInv, PlaceInv
  <2>2. Top.item \in Item /\ Top.pos \in Nat \ {0}
    BY <2>1, TopFrame DEF IInv
  <2>3. Dep \in Item
    BY <2>1, <2>2 DEF Dep, IInv, TypeOK
  <2>4. /\ status[Dep] = "none" /\ Call(Dep) /\ roots' \in Seq(Item)
        /\ UNCHANGED <<deps, dbase, dcount, xcode, build, running, exited, completing>>
    BY <1>3 DEF Descend, IInv, TypeOK
  <2> QED BY <2>1, <2>3, <2>4, CallKeeps
<1>4. CASE AddDepn
  BY <1>4, AddDepnKeeps
<1>5. CASE DependsEnd
  BY <1>5, DependsEndKeeps
<1>6. CASE Abort
  <2>1. TypeOK' /\ PlaceInv' /\ pc' = "abort"
    BY <1>6 DEF Abort, Reading, At, IInv, TypeOK, PlaceInv, Busy, Place, itemVars
  <2> QED BY <1>6, <2>1, PlainKeeps DEF Abort
<1>7. CASE PassOn
  BY <1>7, PassOnKeeps
<1>8. CASE Finish
  BY <1>8, FinishKeeps
<1>9. CASE Start
  BY <1>9, StartKeeps
<1>10. CASE StartFails
  BY <1>10, StartFailsKeeps
<1>11. CASE FillEnd
  <2>1. TypeOK' /\ PlaceInv' /\ pc = "fill"
    BY <1>11 DEF FillEnd, At, IInv, TypeOK, PlaceInv, Busy, Place, itemVars
  <2> QED BY <1>11, <2>1, PlainKeeps DEF FillEnd
<1>12. CASE Reap
  BY <1>12, ReapedKeeps DEF Reap, At
<1>13. CASE ReapEnd \/ ReapShell
  BY <1>13, ReturnKeeps
<1>14. CASE Wait
  BY <1>14, ReapedKeeps DEF Wait, At
<1>15. CASE Exit
  <2>1. TypeOK' /\ PlaceInv' /\ pc = "wait"
    BY <1>15 DEF Exit, At, IInv, TypeOK, PlaceInv, Busy, Place, itemVars
  <2> QED BY <1>15, <2>1, PlainKeeps DEF Exit
<1>16. CASE \E i \in Item : BuildEnds(i)
  <2>1. PICK i \in Item : BuildEnds(i)
    BY <1>16
  <2>2. DOMAIN exited' \subseteq running /\ \A j \in DOMAIN exited' : exited'[j] \in {0, 1}
    BY <2>1 DEF BuildEnds, IInv, TypeOK
  <2>3. TypeOK' /\ PlaceInv'
    BY <2>1, <2>2 DEF BuildEnds, IInv, TypeOK, PlaceInv, Busy, itemVars
  <2> QED BY <2>1, <2>3, PlainKeeps DEF BuildEnds
<1>17. CASE UNCHANGED vars
  <2>1. TypeOK' /\ PlaceInv'
    BY <1>17 DEF vars, IInv, TypeOK, PlaceInv, Busy
  <2> QED BY <1>17, <2>1, PlainKeeps DEF vars, itemVars
<1> QED
  BY <1>1, <1>2, <1>3, <1>4, <1>5, <1>6, <1>7, <1>8, <1>9, <1>10, <1>11, <1>12, <1>13, <1>14,
     <1>15, <1>16, <1>17
  DEF Next, Scheduler, Ended

----------------------------------------------------------------------------
(* A set of items that is not empty has a least one.                       *)
LEMMA LeastItem ==
  ASSUME NEW T, T \subseteq Item, T # {}
  PROVE  \E j \in T : \A d \in T : ~(d < j)
<1> DEFINE R == OpToRel(<, Nat)
<1>1. IsWellFoundedOn(R, Nat)
  BY NatLessThanWellFounded
<1>2. T \subseteq Nat
  BY NAssumption DEF Item
<1> HIDE DEF R
<1>3. PICK j \in T : \A d \in T : ~(<<d, j>> \in R)
  BY <1>1, <1>2, WFMin
<1>4. \A d \in T : d < j => <<d, j>> \in R
  BY <1>2 DEF R, OpToRel
<1> QED BY <1>3, <1>4

(* The types of the scheduler's state.                                      *)
THEOREM TypeCorrect == Spec => []TypeOK
<1>1. IInv => TypeOK
  BY DEF IInv
<1> QED BY InitIInv, NextIInv, <1>1, PTL DEF Spec

(* What processCompletion asserts: the item it completes runs or fails, and *)
(* the next item it tells still has a dependency to wait for.               *)
THEOREM Assertions == Spec => []AssertionsHold
<1>1. IInv => AssertionsHold
  <2> SUFFICES ASSUME IInv, Busy
               PROVE  /\ Frame.rest # <<>> => dcount[Head(Frame.rest)] > 0
                      /\ status[Frame.item] \in {"run", "depfail"}
    BY DEF AssertionsHold
  <2>1. ASSUME Frame.rest # <<>> PROVE dcount[Head(Frame.rest)] > 0
    <3>1. Head(Frame.rest) \in Item /\ dcount[Head(Frame.rest)] >= 1
      BY <2>1, TopCompleting
    <3>2. dcount[Head(Frame.rest)] \in Int
      BY <3>1 DEF IInv, TypeOK
    <3> QED BY <3>1, <3>2
  <2>2. status[Frame.item] \in {"run", "depfail"}
    <3>1. Len(completing) \in DOMAIN completing
      BY Below DEF IInv, TypeOK, Busy
    <3> QED BY <3>1 DEF IInv, FrameInv, FramesOK, Frame
  <2> QED BY <2>1, <2>2
<1> QED BY InitIInv, NextIInv, <1>1, PTL DEF Spec

(* At the end nothing is waiting that nobody would have built: the least    *)
(* item that is not done would wait for one still less.                     *)
THEOREM AllBuilt == Spec => []NoneForgotten
<1>1. IInv => NoneForgotten
  <2> DEFINE T == {j \in Item : status[j] \notin {"none", "done"}}
  <2> SUFFICES ASSUME IInv, pc = "exit", build = <<>>, T # {} PROVE FALSE
    BY DEF NoneForgotten
  <2>1. completing = <<>> /\ calls = <<>> /\ running = {}
    BY DEF IInv, PlaceInv, Busy
  <2>2. PICK j \in T : \A d \in T : ~(d < j)
    BY LeastItem
  <2>3. ~In(completing, j) /\ ~Open(j) /\ j \in Item
    BY <2>1 DEF In, Open
  <2>4. status[j] # "build" /\ status[j] # "run"
    BY <2>1, <2>3, EmptyList DEF IInv, ListInv
  <2>5. status[j] \in {"waiting", "depfail"}
    BY <2>4 DEF IInv, TypeOK, Statuses
  <2>6. dcount[j] > 0 /\ dcount[j] = Cardinality(Pending(j))
    BY <2>3, <2>5 DEF IInv, WaitInv, CountInv
  <2>7. PICK d \in Item : Owes(d, j)
    <3>1. Pending(j) # {}
      BY <2>6, PendingFinite
    <3> QED BY <3>1 DEF Pending
  <2>8. status[d] # "done" /\ j \in ToSet(dbase[d])
    BY <2>1, <2>7, OwesAtRest DEF Owes
  <2>9. d < j /\ status[d] # "none"
    BY <2>8 DEF IInv, DbaseInv
  <2> QED BY <2>2, <2>8, <2>9
<1> QED BY InitIInv, NextIInv, <1>1, PTL DEF Spec

(* An item enters the build list only when all the dependencies it has     *)
(* been told of have completed without an error.                           *)
THEOREM Listed == Spec => ListedWhenReady
<1> DEFINE Listing ==
      \A i \in Item : status[i] # "build" /\ status'[i] = "build" =>
        \A d \in Item : Contains(dbase[d], i) =>
          xcode[d] = 0 /\ (status[d] = "done" \/ \E k \in DOMAIN completing : completing[k].item = d)
<1>1. ASSUME IInv, Next PROVE Listing
  <2> SUFFICES ASSUME NEW i \in Item, status[i] # "build", status'[i] = "build",
                      NEW d \in Item, Contains(dbase[d], i)
               PROVE  xcode[d] = 0 /\ (status[d] = "done" \/ In(completing, d))
    BY DEF In
  <2>1. i \in ToSet(dbase[d])
    <3>1. dbase[d] \in Seq(Item)
      BY <1>1 DEF IInv, TypeOK
    <3> QED BY <3>1 DEF Contains, ToSet
  <2>2. status \in [Item -> Statuses]
    BY <1>1 DEF IInv, TypeOK
  <2>3. CASE DependsEnd /\ i = Top.item /\ dcount[i] = 0 /\ status[i] = "waiting"
    <3>1. completing = <<>>
      BY <2>3 DEF DependsEnd, At, Busy
    <3>2. Pending(i) = {}
      BY <1>1, <2>3, PendingFinite DEF IInv, CountInv
    <3>3. ~Owes(d, i)
      BY <3>2 DEF Pending
    <3>4. status[d] = "done"
      BY <2>1, <3>1, <3>3, OwesAtRest DEF Owes
    <3> QED BY <1>1, <2>1, <2>3, <3>3, <3>4 DEF IInv, FailInv
  <2>4. CASE PassOn /\ i = Head(Frame.rest) /\ xcode[Frame.item] = 0 /\ Ready(i)
    <3>1. Busy /\ Frame.rest # <<>> /\ status[i] = "waiting" /\ dcount[i] = 1
      BY <2>4 DEF PassOn, Ready
    <3>2. Frame.item \in Item /\ In(completing, Frame.item) /\ Owes(Frame.item, i)
      BY <1>1, <2>4, <3>1, TopCompleting
    <3>3. Pending(i) = {Frame.item}
      <4>1. Cardinality(Pending(i)) = 1 /\ IsFiniteSet(Pending(i))
        BY <1>1, <3>1, PendingFinite DEF IInv, CountInv
      <4>2. PICK y : Pending(i) = {y}
        BY <4>1, FS_Singleton
      <4> QED BY <3>2, <4>2 DEF Pending
    <3>4. CASE d = Frame.item
      BY <2>4, <3>2, <3>4
    <3>5. CASE d # Frame.item
      <4>1. ~Owes(d, i)
        BY <3>3, <3>5 DEF Pending
      <4>2. xcode[d] = 0
        BY <1>1, <2>1, <3>1, <4>1 DEF IInv, FailInv
      <4> QED BY <2>1, <4>1, <4>2 DEF Owes, OwesIn
    <3> QED BY <3>4, <3>5
  <2>5. CASE DependsEnd
    <3>1. Top.item \in Item
      BY <1>1, <2>5, TopFrame DEF DependsEnd, At, IInv, PlaceInv
    <3> QED BY <2>2, <2>3, <2>5, <3>1 DEF DependsEnd
  <2>6. CASE PassOn
    <3>1. Head(Frame.rest) \in Item
      BY <1>1, <2>6, TopCompleting DEF PassOn
    <3> QED BY <2>2, <2>4, <2>6, <3>1 DEF PassOn
  <2>7. ASSUME status' = status PROVE FALSE
    BY <2>7
  <2>8. ASSUME NEW j, NEW v, status' = [status EXCEPT ![j] = v], v # "build" PROVE FALSE
    BY <2>2, <2>8
  <2>9. CASE Walk \/ Descend
    BY <2>7, <2>8, <2>9 DEF Walk, Descend, Call
  <2>10. CASE AddDepn
    <3>1. PICK j : status' = [status EXCEPT ![j] = "depfail"] \/ status' = [status EXCEPT ![j] = status[j]]
      BY <2>10 DEF AddDepn
    <3> QED BY <2>2, <2>8, <3>1
  <2>11. CASE Finish \/ Start \/ StartFails
    BY <2>8, <2>11 DEF Finish, Start, StartFails
  <2>12. CASE \/ WalkEnd \/ Abort \/ FillEnd \/ Reap \/ ReapEnd \/ ReapShell \/ Wait \/ Exit
              \/ Ended \/ \E j \in Item : BuildEnds(j)
    BY <2>7, <2>12
    DEF WalkEnd, Abort, FillEnd, Reap, ReapEnd, ReapShell, Wait, Exit, Ended, BuildEnds, itemVars, vars
  <2> QED
    BY <1>1, <2>5, <2>6, <2>9, <2>10, <2>11, <2>12 DEF Next, Scheduler
<1>2. IInv /\ [Next]_vars => [Listing]_vars
  BY <1>1
<1>3. Spec => [][Listing]_vars
  <2> HIDE DEF Listing
  <2> QED BY InitIInv, NextIInv, <1>2, PTL DEF Spec
<1> QED BY <1>3 DEF ListedWhenReady
=============================================================================
