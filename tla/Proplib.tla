------------------------------- MODULE Proplib -------------------------------
(***************************************************************************)
(* The property lists everything in flappy is kept in                      *)
(* (lib/portableproplib): reference-counted objects, key symbols and       *)
(* numbers shared through two trees, and dictionaries and arrays with      *)
(* their iterators, used by several threads at once, as the callbacks of   *)
(* flappy_array_foreach_cb_multi are.                                      *)
(*                                                                         *)
(* A step is what happens between two points where another thread may      *)
(* interfere.  What runs under a tree's mutex is one step; releasing a key *)
(* symbol outside a dictionary's release takes two, since that type has no *)
(* lock: the count drops, and then the symbol leaves the tree.  As their   *)
(* callers do, threads share what is read and change only containers they  *)
(* created themselves.  Memory does not run out.                           *)
(***************************************************************************)
EXTENDS Integers, Sequences, FiniteSets

CONSTANTS Thread,
          Key,           \* dictionary keys, numbers in their order
          Value,         \* the values of numbers
          FirstKey, FirstValue,   \* the entry of the dictionary threads share
          Leaf,          \* strings and data: records of type and contents
          MayUse(_, _),  \* MayUse(t, k): thread t stores under key k
          MaxObj,        \* bound: objects alive at once
          MaxOps         \* bound: calls made, by all threads together

ASSUME ProplibAssumption ==
  /\ Key \subseteq Nat \ {0} /\ FirstKey \in Key
  /\ Value \subseteq Int /\ FirstValue \in Value
  /\ \A l \in Leaf : l.type \in {"str", "data"} /\ (l.type = "data" => l.name # <<>>)
  /\ MaxObj \in Nat /\ MaxObj >= 3 /\ MaxOps \in Nat

VARIABLES heap,      \* the objects
          symtree,   \* _prop_dict_keysym_tree: the symbol of every key
          numtree,   \* _prop_number_tree: the object of every value
          hand,      \* the references a thread holds
          iter,      \* a thread's iterator
          call,      \* the allocation a thread is in the middle of
          work,      \* what a thread is releasing: the object, then the stack
          dying,     \* the object's count has dropped to 0 and it is to be freed
          ops        \* how many calls were made

vars == <<heap, symtree, numtree, hand, iter, call, work, dying, ops>>

None  == 0
Addr  == 1..MaxObj
Slots == {1, 2}
Free  == [type |-> "free", ref |-> 0, name |-> 0, ents |-> <<>>, ver |-> 0, imm |-> FALSE,
          by |-> None]
NoCall == [what |-> "none", name |-> 0, at |-> None, obj |-> None, slot |-> 1]
NoIter == [obj |-> None, index |-> 0, ver |-> 0]

Containers == {"dict", "array"}
Leaves     == {"str", "data"}
Live(a)    == a # None /\ heap[a].type # "free"
Is(a, T)   == a # None /\ heap[a].type \in T
Entry(k, o) == [key |-> k, obj |-> o]      \* an array's entries have no key

----------------------------------------------------------------------------
(* Objects.                                                                 *)

Unused(h) == {a \in Addr : h[a].type = "free"}
NewAddr(h) == CHOOSE a \in Unused(h) : \A b \in Unused(h) : a <= b

(* _prop_object_init: one reference, held by whoever creates it. *)
_prop_object_init(type, name, ents, imm, t) ==
  [type |-> type, ref |-> 1, name |-> name, ents |-> ents, ver |-> 0, imm |-> imm, by |-> t]

prop_object_retain(h, a) == [h EXCEPT ![a].ref = @ + 1]

(* Bug: a copy shares the symbols without counting it. *)
RetainObjects(h, es) ==
  [a \in Addr |-> [h[a] EXCEPT !.ref = @ + Cardinality({i \in 1..Len(es) : es[i].obj = a})]]

(* A copy's references to the symbols and objects of the original. *)
RetainAll(h, es) ==
  [a \in Addr |-> [h[a] EXCEPT !.ref = @ + Cardinality({i \in 1..Len(es) : es[i].key = a})
                                         + Cardinality({i \in 1..Len(es) : es[i].obj = a})]]

----------------------------------------------------------------------------
(* Dictionaries keep their entries sorted by key and find them by bisection.*)

Name(h, e) == h[e.key].name

(* Bug: a step to the right does not shorten the distance. *)
LookupWide(h, es, k) ==
  LET look[s \in [base : Nat, distance : Nat, idx : Nat]] ==
        LET idx == s.base + s.distance \div 2
            key == Name(h, es[idx + 1])
        IN IF s.distance = 0 \/ s.base + s.distance > Len(es) THEN [found |-> FALSE, idx |-> s.idx]
           ELSE IF key = k THEN [found |-> TRUE, idx |-> idx]
           ELSE look[[base |-> IF k > key THEN idx + 1 ELSE s.base,
                      distance |-> s.distance \div 2, idx |-> idx]]
  IN look[[base |-> 0, distance |-> Len(es), idx |-> 0]]

(* The slot of key k, counted from 0, or the slot looked at last. *)
_prop_dict_lookup(h, es, k) ==
  LET look[s \in [base : Nat, distance : Nat, idx : Nat]] ==
        LET idx == s.base + s.distance \div 2
            key == Name(h, es[idx + 1])
        IN IF s.distance = 0 THEN [found |-> FALSE, idx |-> s.idx]
           ELSE IF key = k THEN [found |-> TRUE, idx |-> idx]
           ELSE IF k > key
           THEN look[[base |-> idx + 1, distance |-> (s.distance - 1) \div 2, idx |-> idx]]
           ELSE look[[base |-> s.base, distance |-> s.distance \div 2, idx |-> idx]]
  IN look[[base |-> 0, distance |-> Len(es), idx |-> 0]]

InsertAt(es, i, e) == SubSeq(es, 1, i) \o <<e>> \o SubSeq(es, i + 1, Len(es))
DeleteAt(es, i)    == SubSeq(es, 1, i) \o SubSeq(es, i + 2, Len(es))

(* A new entry goes to the right of the slot looked at last, or to its left *)
(* if its key is smaller.                                                   *)
Stored(h, es, sym, o) ==
  LET l    == _prop_dict_lookup(h, es, h[sym].name)
      left == es = <<>> \/ h[sym].name < Name(h, es[l.idx + 1])
  IN InsertAt(es, IF left THEN l.idx ELSE l.idx + 1, Entry(sym, o))

----------------------------------------------------------------------------
(* Calls.  A thread makes one when it is in the middle of nothing else.     *)

Ready(t) == call[t] = NoCall /\ work[t] = <<>> /\ ops < MaxOps
Counted == ops' = ops + 1

EmptySlots(t) == {s \in Slots : hand[t][s] = None /\ \A r \in 1..(s - 1) : hand[t][r] # None}
Held(t)       == {hand[t][s] : s \in Slots} \ {None}
Mine(t, T)    == {a \in Held(t) : Is(a, T) /\ heap[a].by = t /\ ~heap[a].imm}
HasRoom(n)    == Cardinality(Unused(heap)) >= n

Take(t, s, a) == hand' = [hand EXCEPT ![t][s] = a]

(* Everything reachable from a, itself included. *)
Reach(a) ==
  LET r[b \in Addr] == {b} \cup UNION {r[heap[b].ents[i].obj] : i \in 1..Len(heap[b].ents)}
  IN r[a]

(* What may be put into container c: callers make no cycles. *)
Storable(t, c) == {v \in Held(t) : c \notin Reach(v)}

----------------------------------------------------------------------------
(* Numbers: looked up, made without the mutex, and looked up again.         *)

NumberFind(t, v, s) ==
  /\ Ready(t) /\ s \in EmptySlots(t)
  /\ Counted
  /\ LET a == numtree[v]
     IN \/ /\ a # None
           /\ heap' = prop_object_retain(heap, a)
           /\ Take(t, s, a)
           /\ UNCHANGED call
        \/ /\ a = None
           /\ call' = [call EXCEPT ![t] = [NoCall EXCEPT !.what = "number", !.name = v, !.slot = s]]
           /\ UNCHANGED <<heap, hand>>
  /\ UNCHANGED <<symtree, numtree, iter, work, dying>>

(* Bug: the tree is not searched again after the mutex was given up. *)
NumberInsertBlindly(t) ==
  /\ call[t].what = "number" /\ HasRoom(1)
  /\ LET v == call[t].name
         b == NewAddr(heap)
     IN /\ heap' = [heap EXCEPT ![b] = _prop_object_init("num", v, <<>>, FALSE, t)]
        /\ numtree' = [numtree EXCEPT ![v] = b]
        /\ Take(t, call[t].slot, b)
  /\ call' = [call EXCEPT ![t] = NoCall]
  /\ UNCHANGED <<symtree, iter, work, dying, ops>>

NumberInsert(t) ==
  /\ call[t].what = "number" /\ HasRoom(1)
  /\ LET v == call[t].name
         a == numtree[v]
         b == NewAddr(heap)
     IN \/ /\ a # None                       \* made by another thread meanwhile
           /\ heap' = prop_object_retain(heap, a)
           /\ Take(t, call[t].slot, a)
           /\ UNCHANGED numtree
        \/ /\ a = None
           /\ heap' = [heap EXCEPT ![b] = _prop_object_init("num", v, <<>>, FALSE, t)]
           /\ numtree' = [numtree EXCEPT ![v] = b]
           /\ Take(t, call[t].slot, b)
  /\ call' = [call EXCEPT ![t] = NoCall]
  /\ UNCHANGED <<symtree, iter, work, dying, ops>>

----------------------------------------------------------------------------
(* prop_dictionary_set.  The entry is stored by the step that obtains the   *)
(* symbol: nobody else changes the dictionary.                              *)

(* The key is there: its object is replaced and the old one released. *)
DictReplace(t, d, k, v) ==
  /\ Ready(t) /\ d \in Mine(t, {"dict"}) /\ v \in Storable(t, d)
  /\ LET l == _prop_dict_lookup(heap, heap[d].ents, k)
     IN /\ l.found
        /\ heap' = [prop_object_retain(heap, v) EXCEPT ![d].ents[l.idx + 1].obj = v]
        /\ work' = [work EXCEPT ![t] = <<heap[d].ents[l.idx + 1].obj>>]
  /\ Counted
  /\ UNCHANGED <<symtree, numtree, hand, iter, call, dying>>

(* The heap once symbol s, on which t already has a reference, is stored. *)
DictStore(h, d, s, v) ==
  [prop_object_retain(h, v) EXCEPT ![d].ents = Stored(h, @, s, v), ![d].ver = @ + 1]

DictFindSym(t, d, k, v) ==
  /\ Ready(t) /\ MayUse(t, k) /\ d \in Mine(t, {"dict"}) /\ v \in Storable(t, d)
  /\ ~_prop_dict_lookup(heap, heap[d].ents, k).found
  /\ LET s == symtree[k]
     IN \/ /\ s # None
           /\ heap' = DictStore(prop_object_retain(heap, s), d, s, v)
           /\ UNCHANGED call
        \/ /\ s = None
           /\ call' = [call EXCEPT ![t] = [NoCall EXCEPT !.what = "sym", !.name = k,
                                                         !.at = d, !.obj = v]]
           /\ UNCHANGED heap
  /\ Counted
  /\ UNCHANGED <<symtree, numtree, hand, iter, work, dying>>

DictMakeSym(t) ==
  /\ call[t].what = "sym" /\ HasRoom(1)
  /\ LET c == call[t]
         s == symtree[c.name]
         b == NewAddr(heap)
     IN \/ /\ s # None
           /\ heap' = DictStore(prop_object_retain(heap, s), c.at, s, c.obj)
           /\ UNCHANGED symtree
        \/ /\ s = None
           /\ heap' = DictStore([heap EXCEPT ![b] = _prop_object_init("sym", c.name, <<>>, FALSE, t)],
                                c.at, b, c.obj)
           /\ symtree' = [symtree EXCEPT ![c.name] = b]
  /\ call' = [call EXCEPT ![t] = NoCall]
  /\ UNCHANGED <<numtree, hand, iter, work, dying, ops>>

(* prop_dictionary_remove: the symbol is released first, then the object. *)
DictRemove(t, d, k) ==
  /\ Ready(t) /\ d \in Mine(t, {"dict"})
  /\ LET l == _prop_dict_lookup(heap, heap[d].ents, k)
         e == heap[d].ents[l.idx + 1]
     IN /\ l.found
        /\ heap' = [heap EXCEPT ![d].ents = DeleteAt(@, l.idx), ![d].ver = @ + 1]
        /\ work' = [work EXCEPT ![t] = <<e.key, e.obj>>]
  /\ Counted
  /\ UNCHANGED <<symtree, numtree, hand, iter, call, dying>>

----------------------------------------------------------------------------
(* Arrays.                                                                  *)

ArrayInsert(t, c, v, i) ==
  /\ Ready(t) /\ c \in Mine(t, {"array"}) /\ v \in Storable(t, c)
  /\ heap' = [prop_object_retain(heap, v) EXCEPT ![c].ents = InsertAt(@, i, Entry(None, v)),
                                                  ![c].ver = @ + 1]
  /\ Counted
  /\ UNCHANGED <<symtree, numtree, hand, iter, call, work, dying>>

prop_array_add(t, c, v)       == Is(c, {"array"}) /\ ArrayInsert(t, c, v, Len(heap[c].ents))
prop_array_add_first(t, c, v) == ArrayInsert(t, c, v, 0)

prop_array_set(t, c, i, v) ==
  /\ Ready(t) /\ c \in Mine(t, {"array"}) /\ v \in Storable(t, c)
  /\ i \in 1..Len(heap[c].ents)
  /\ heap' = [prop_object_retain(heap, v) EXCEPT ![c].ents[i].obj = v, ![c].ver = @ + 1]
  /\ work' = [work EXCEPT ![t] = <<heap[c].ents[i].obj>>]
  /\ Counted
  /\ UNCHANGED <<symtree, numtree, hand, iter, call, dying>>

prop_array_remove(t, c, i) ==
  /\ Ready(t) /\ c \in Mine(t, {"array"})
  /\ i \in 1..Len(heap[c].ents)
  /\ heap' = [heap EXCEPT ![c].ents = DeleteAt(@, i - 1), ![c].ver = @ + 1]
  /\ work' = [work EXCEPT ![t] = <<heap[c].ents[i].obj>>]
  /\ Counted
  /\ UNCHANGED <<symtree, numtree, hand, iter, call, dying>>

----------------------------------------------------------------------------
(* What dictionaries and arrays have in common.                             *)

(* A new container, empty or with references to what is in es. *)
Create(t, s, type, es, imm) ==
  /\ Ready(t) /\ s \in EmptySlots(t) /\ HasRoom(1)
  /\ LET b == NewAddr(heap)
     IN /\ heap' = [RetainAll(heap, es) EXCEPT ![b] = _prop_object_init(type, 0, es, imm, t)]
        /\ Take(t, s, b)
  /\ Counted
  /\ UNCHANGED <<symtree, numtree, iter, call, work, dying>>

(* A string or data object: every one is an object of its own. *)
LeafCreate(t, s, l) ==
  /\ Ready(t) /\ s \in EmptySlots(t) /\ HasRoom(1)
  /\ LET b == NewAddr(heap)
     IN /\ heap' = [heap EXCEPT ![b] = _prop_object_init(l.type, l.name, <<>>, FALSE, t)]
        /\ Take(t, s, b)
  /\ Counted
  /\ UNCHANGED <<symtree, numtree, iter, call, work, dying>>

CreateEmpty(t, s) == \E type \in Containers : Create(t, s, type, <<>>, FALSE)

(* A shallow copy, as immutable as the original or mutable. *)
Copy(t, s, c) ==
  /\ c \in Held(t) /\ Is(c, Containers)
  /\ \E imm \in {heap[c].imm, FALSE} : Create(t, s, heap[c].type, heap[c].ents, imm)

(* The keys of a dictionary: an array of its symbols. *)
prop_dictionary_all_keys(t, s, d) ==
  /\ d \in Held(t) /\ Is(d, {"dict"}) /\ heap[d].ents # <<>>
  /\ Create(t, s, "array", [i \in DOMAIN heap[d].ents |-> Entry(None, heap[d].ents[i].key)], FALSE)

MakeImmutable(t, c) ==
  /\ Ready(t) /\ c \in Mine(t, Containers)
  /\ heap' = [heap EXCEPT ![c].imm = TRUE]
  /\ Counted
  /\ UNCHANGED <<symtree, numtree, hand, iter, call, work, dying>>

(* Getting an object out of a container and keeping it. *)
Get(t, s, c, i) ==
  /\ Ready(t) /\ s \in EmptySlots(t)
  /\ c \in Held(t) /\ Is(c, Containers) /\ i \in 1..Len(heap[c].ents)
  /\ heap' = prop_object_retain(heap, heap[c].ents[i].obj)
  /\ Take(t, s, heap[c].ents[i].obj)
  /\ Counted
  /\ UNCHANGED <<symtree, numtree, iter, call, work, dying>>

----------------------------------------------------------------------------
(* Iterators keep their container and remember its version.                 *)

IteratorNew(t, c) ==
  /\ Ready(t) /\ iter[t] = NoIter /\ c \in Held(t) /\ Is(c, Containers)
  /\ heap' = prop_object_retain(heap, c)
  /\ iter' = [iter EXCEPT ![t] = [obj |-> c, index |-> 0, ver |-> heap[c].ver]]
  /\ Counted
  /\ UNCHANGED <<symtree, numtree, hand, call, work, dying>>

(* The next entry, unless the container has changed or is at its end. *)
IteratorNext(t) ==
  /\ Ready(t) /\ iter[t] # NoIter
  /\ iter[t].ver = heap[iter[t].obj].ver /\ iter[t].index # Len(heap[iter[t].obj].ents)
  /\ iter' = [iter EXCEPT ![t].index = @ + 1]
  /\ Counted
  /\ UNCHANGED <<heap, symtree, numtree, hand, call, work, dying>>

IteratorReset(t) ==
  /\ Ready(t) /\ iter[t] # NoIter
  /\ iter' = [iter EXCEPT ![t].index = 0, ![t].ver = heap[iter[t].obj].ver]
  /\ Counted
  /\ UNCHANGED <<heap, symtree, numtree, hand, call, work, dying>>

IteratorRelease(t) ==
  /\ Ready(t) /\ iter[t] # NoIter
  /\ work' = [work EXCEPT ![t] = <<iter[t].obj>>]
  /\ iter' = [iter EXCEPT ![t] = NoIter]
  /\ Counted
  /\ UNCHANGED <<heap, symtree, numtree, hand, call, dying>>

----------------------------------------------------------------------------
(* Release.                                                                 *)

(* A thread gives up one of its references. *)
prop_object_release(t, s) ==
  /\ Ready(t) /\ hand[t][s] # None
  /\ work' = [work EXCEPT ![t] = <<hand[t][s]>>]
  /\ Take(t, s, None)
  /\ Counted
  /\ UNCHANGED <<heap, symtree, numtree, iter, call, dying>>

Top(t)  == work[t][1]
Popped(t) == work' = [work EXCEPT ![t] = Tail(@)]

(* Not the last reference. *)
ReleaseOne(t) ==
  /\ work[t] # <<>> /\ ~dying[t] /\ heap[Top(t)].ref > 1
  /\ heap' = [heap EXCEPT ![Top(t)].ref = @ - 1]
  /\ Popped(t)
  /\ UNCHANGED <<symtree, numtree, hand, iter, call, dying, ops>>

(* The last reference to a number: count, tree and object under its mutex. *)
_prop_number_free(t) ==
  /\ work[t] # <<>> /\ Is(Top(t), {"num"}) /\ heap[Top(t)].ref = 1
  /\ numtree' = [numtree EXCEPT ![heap[Top(t)].name] = None]
  /\ heap' = [heap EXCEPT ![Top(t)] = Free]
  /\ Popped(t)
  /\ UNCHANGED <<symtree, hand, iter, call, dying, ops>>

(* The last reference to an empty container, a string or data. *)
FreeEmpty(t) ==
  /\ work[t] # <<>> /\ Is(Top(t), Containers \cup Leaves) /\ heap[Top(t)].ref = 1
  /\ heap[Top(t)].ents = <<>>
  /\ heap' = [heap EXCEPT ![Top(t)] = Free]
  /\ Popped(t)
  /\ UNCHANGED <<symtree, numtree, hand, iter, call, dying, ops>>

(* The heap and the symbol tree after a release of symbol s under the mutex. *)
SymReleased(h, s) == IF h[s].ref > 1 THEN [h EXCEPT ![s].ref = @ - 1] ELSE [h EXCEPT ![s] = Free]
SymUnlinked(h, s) == IF h[s].ref > 1 THEN symtree ELSE [symtree EXCEPT ![h[s].name] = None]

(* The last reference to a container that is not empty: it waits on the     *)
(* stack while its last entry is released, a dictionary's symbol at once.   *)
FreeEntry(t) ==
  /\ work[t] # <<>> /\ Is(Top(t), Containers) /\ heap[Top(t)].ref = 1
  /\ heap[Top(t)].ents # <<>>
  /\ LET c == Top(t)
         es == heap[c].ents
         e == es[Len(es)]
         h == [heap EXCEPT ![c].ents = SubSeq(es, 1, Len(es) - 1)]
     IN /\ heap' = IF e.key = None THEN h ELSE SymReleased(h, e.key)
        /\ symtree' = IF e.key = None THEN symtree ELSE SymUnlinked(h, e.key)
        /\ work' = [work EXCEPT ![t] = <<e.obj>> \o @]
  /\ UNCHANGED <<numtree, hand, iter, call, dying, ops>>

(* The last reference to a symbol, without the mutex: first the count... *)
SymDrop(t) ==
  /\ work[t] # <<>> /\ ~dying[t] /\ Is(Top(t), {"sym"}) /\ heap[Top(t)].ref = 1
  /\ heap' = [heap EXCEPT ![Top(t)].ref = 0]
  /\ dying' = [dying EXCEPT ![t] = TRUE]
  /\ UNCHANGED <<symtree, numtree, hand, iter, call, work, ops>>

(* ... then the tree and the object. *)
_prop_dict_keysym_free(t) ==
  /\ dying[t]
  /\ symtree' = [symtree EXCEPT ![heap[Top(t)].name] = None]
  /\ heap' = [heap EXCEPT ![Top(t)] = Free]
  /\ dying' = [dying EXCEPT ![t] = FALSE]
  /\ Popped(t)
  /\ UNCHANGED <<numtree, hand, iter, call, ops>>

----------------------------------------------------------------------------
(* At first all threads hold one dictionary, with one entry. *)
FirstHeap ==
  [a \in Addr |->
     CASE a = 1 -> _prop_object_init("sym", FirstKey, <<>>, FALSE, None)
       [] a = 2 -> _prop_object_init("num", FirstValue, <<>>, FALSE, None)
       [] a = 3 -> [_prop_object_init("dict", 0, <<Entry(1, 2)>>, FALSE, None)
                      EXCEPT !.ref = Cardinality(Thread)]
       [] OTHER -> Free]
FirstSyms  == [k \in Key |-> IF k = FirstKey THEN 1 ELSE None]
FirstNums  == [v \in Value |-> IF v = FirstValue THEN 2 ELSE None]
FirstHands == [t \in Thread |-> [s \in Slots |-> IF s = 1 THEN 3 ELSE None]]

Init ==
  /\ heap = FirstHeap /\ symtree = FirstSyms /\ numtree = FirstNums
  /\ hand = FirstHands
  /\ iter = [t \in Thread |-> NoIter]
  /\ call = [t \in Thread |-> NoCall]
  /\ work = [t \in Thread |-> <<>>]
  /\ dying = [t \in Thread |-> FALSE]
  /\ ops = 0

Dictionary(t) ==
  \E d \in Held(t), k \in Key :
    \/ DictRemove(t, d, k)
    \/ \E v \in Held(t) : DictReplace(t, d, k, v) \/ DictFindSym(t, d, k, v)

Array(t) ==
  \E c \in Held(t) :
    \/ \E v \in Held(t) : prop_array_add(t, c, v) \/ prop_array_add_first(t, c, v)
    \/ \E i \in 1..Len(heap[c].ents) :
         prop_array_remove(t, c, i) \/ \E v \in Held(t) : prop_array_set(t, c, i, v)

Obtain(t) ==
  \E s \in Slots :
    \/ CreateEmpty(t, s)
    \/ \E v \in Value : NumberFind(t, v, s)
    \/ \E l \in Leaf : LeafCreate(t, s, l)
    \/ \E c \in Held(t) : \/ Copy(t, s, c)
                          \/ prop_dictionary_all_keys(t, s, c)
                          \/ \E i \in 1..Len(heap[c].ents) : Get(t, s, c, i)

Iterate(t) ==
  \/ \E c \in Held(t) : IteratorNew(t, c) \/ MakeImmutable(t, c)
  \/ IteratorNext(t) \/ IteratorReset(t) \/ IteratorRelease(t)

Release(t) ==
  \/ \E s \in Slots : prop_object_release(t, s)
  \/ ReleaseOne(t) \/ _prop_number_free(t) \/ FreeEmpty(t) \/ FreeEntry(t)
  \/ SymDrop(t) \/ _prop_dict_keysym_free(t)

Next ==
  \E t \in Thread :
    \/ Dictionary(t) \/ Array(t) \/ Obtain(t) \/ Iterate(t)
    \/ NumberInsert(t) \/ DictMakeSym(t)
    \/ Release(t)

Spec == Init /\ [][Next]_vars

----------------------------------------------------------------------------
(* References to a: entries of containers, what threads hold, iterate over  *)
(* or are about to release.                                                 *)
References(a) ==
  LET slots(c) == {i \in 1..Len(heap[c].ents) : heap[c].ents[i].obj = a}
      keys(c)  == {i \in 1..Len(heap[c].ents) : heap[c].ents[i].key = a}
  IN Cardinality(UNION {{<<c, i>> : i \in slots(c)} : c \in Addr})
     + Cardinality(UNION {{<<c, i>> : i \in keys(c)} : c \in Addr})
     + Cardinality({<<t, s>> \in Thread \X Slots : hand[t][s] = a})
     + Cardinality({t \in Thread : iter[t].obj = a})
     + Cardinality(UNION {{<<t, i>> : i \in {i \in 1..Len(work[t]) :
                                               work[t][i] = a /\ ~(dying[t] /\ i = 1)}} : t \in Thread})

(* Every object counts its references exactly, whatever threads do at the    *)
(* same time: nothing that is still referred to is freed, and nothing stays  *)
(* behind once nobody refers to it.                                          *)
CountsExact ==
  \A a \in Addr :
    IF heap[a].type = "free" THEN References(a) = 0
    ELSE /\ heap[a].ref = References(a)
         /\ heap[a].ref = 0 => \E t \in Thread : dying[t] /\ Top(t) = a

(* Comparing.  Symbols and numbers are the same if their addresses are,      *)
(* strings and data if their contents are, containers entry by entry.        *)
_prop_string_equals(x, y) == Is(x, {"str"}) /\ Is(y, {"str"}) /\ heap[x].name = heap[y].name
_prop_data_equals(x, y)   == Is(x, {"data"}) /\ Is(y, {"data"}) /\ heap[x].name = heap[y].name

_prop_array_equals(x, y, eq) ==
  /\ Is(x, {"array"}) /\ Is(y, {"array"}) /\ Len(heap[x].ents) = Len(heap[y].ents)
  /\ \A i \in 1..Len(heap[x].ents) : eq[<<heap[x].ents[i].obj, heap[y].ents[i].obj>>]

_prop_dictionary_equals(x, y, eq) ==
  /\ Is(x, {"dict"}) /\ Is(y, {"dict"}) /\ Len(heap[x].ents) = Len(heap[y].ents)
  /\ \A i \in 1..Len(heap[x].ents) : /\ heap[x].ents[i].key = heap[y].ents[i].key
                                     /\ eq[<<heap[x].ents[i].obj, heap[y].ents[i].obj>>]

prop_object_equals(a, b) ==
  LET equal[p \in Addr \X Addr] ==
        \/ p[1] = p[2]
        \/ _prop_string_equals(p[1], p[2]) \/ _prop_data_equals(p[1], p[2])
        \/ _prop_array_equals(p[1], p[2], equal) \/ _prop_dictionary_equals(p[1], p[2], equal)
  IN equal[<<a, b>>]

(* What an object stands for. *)
Meaning(a) ==
  LET val[x \in Addr] ==
        IF heap[x].type \in Containers
        THEN <<heap[x].type, [i \in 1..Len(heap[x].ents) |->
                                <<IF heap[x].ents[i].key = None THEN 0 ELSE Name(heap, heap[x].ents[i]),
                                  val[heap[x].ents[i].obj]>>]>>
        ELSE <<heap[x].type, heap[x].name>>
  IN val[a]

(* Comparing addresses is comparing values: there is only ever one copy of a *)
(* key symbol and of a number, also when threads create it at the same time. *)
EqualByValue ==
  \A a, b \in {x \in Addr : Live(x)} :
    prop_object_equals(a, b) <=> Meaning(a) = Meaning(b)

(* Every entry of a dictionary is found where it is, under its key, after    *)
(* any sequence of insertions and removals.                                  *)
LookupSound ==
  \A d \in Addr : Is(d, {"dict"}) =>
    \A i \in 1..Len(heap[d].ents) :
      _prop_dict_lookup(heap, heap[d].ents, Name(heap, heap[d].ents[i]))
        = [found |-> TRUE, idx |-> i - 1]

============================================================================
