----------------------------- MODULE SortedSet -----------------------------
(***************************************************************************)
(* What the red-black tree of proplib promises its callers: a finite set   *)
(* of keys that answers membership, nearest-key and neighbour questions.   *)
(* The dictionary key symbols and the numbers of proplib are shared        *)
(* ("interned") through such a set.  RbTree shows that the tree of rb.c    *)
(* implements this specification.                                          *)
(***************************************************************************)
EXTENDS Integers

CONSTANTS Keys,   \* the keys, numbers in their order
          Null    \* the answer when there is no such key

VARIABLE set      \* the keys in the set

Dir == {0, 1}     \* 0 is towards the smaller keys, 1 towards the greater

Below(k) == {x \in set : x < k}
Above(k) == {x \in set : x > k}
Least(S)    == IF S = {} THEN Null ELSE CHOOSE x \in S : \A y \in S : x <= y
Greatest(S) == IF S = {} THEN Null ELSE CHOOSE x \in S : \A y \in S : x >= y

(* The answers: k itself, the nearest key not below k, the nearest key not *)
(* above k, the end of the set in direction d, and the neighbour of k.     *)
Find(k)    == IF k \in set THEN k ELSE Null
FindGeq(k) == Least(set \ Below(k))
FindLeq(k) == Greatest(set \ Above(k))
First(d)   == IF d = 0 THEN Least(set) ELSE Greatest(set)
Neighbour(k, d) == IF d = 0 THEN Greatest(Below(k)) ELSE Least(Above(k))

Init == set = {}

Insert(k) == k \notin set /\ set' = set \cup {k}
Remove(k) == k \in set /\ set' = set \ {k}

Next == \E k \in Keys : Insert(k) \/ Remove(k)

Spec == Init /\ [][Next]_set
============================================================================
