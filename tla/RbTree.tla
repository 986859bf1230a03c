------------------------------- MODULE RbTree -------------------------------
(***************************************************************************)
(* The red-black tree of proplib (lib/portableproplib/rb.c), through which *)
(* dictionary key symbols and numbers are shared.  A node is named by its  *)
(* key.  Head stands for the address of rbt_root used as a node: its left  *)
(* son is the root.  Linking a node in or out is one step; every pass of   *)
(* the two rebalancing loops is a step of its own.  The caller holds the   *)
(* tree's mutex, so that no call begins before the last one has returned.  *)
(***************************************************************************)
EXTENDS Integers

CONSTANT Keys                    \* the keys a node may have, in their order

Head == 0                        \* (struct rb_node *)&rbt->rbt_root
Null == -1                       \* RB_SENTINEL_NODE

ASSUME KeysAssumption == Keys \subseteq Nat \ {0}

VARIABLES node,      \* the linked nodes: rb_nodes, father, position and colour
          minmax,    \* rbt_minmax
          todo       \* the rebalancing loop under way, its node and side

vars == <<node, minmax, todo>>

Left  == 0
Right == 1
Dir   == {Left, Right}
Idle  == [loop |-> "none", at |-> Null, which |-> Left]

----------------------------------------------------------------------------
(* The macros of rbtree.h.                                                  *)

Root(t)             == t[Head].kid[Left]
Red(t, n)           == n # Null /\ t[n].red
Black(t, n)         == ~Red(t, n)
Childless(t, n)     == n = Null \/ \A d \in Dir : t[n].kid[d] = Null
TwoChildren(t, n)   == n # Null /\ \A d \in Dir : t[n].kid[d] # Null
Mark(t, n, red)     == [t EXCEPT ![n].red = red]
Father(t, n, f)     == IF n = Null THEN t ELSE [t EXCEPT ![n].father = f]

(* The nodes of the subtree at n. *)
Subtree(t, n) ==
  LET sub[m \in Keys \cup {Null}] ==
        IF m = Null THEN {} ELSE {m} \cup sub[t[m].kid[Left]] \cup sub[t[m].kid[Right]]
  IN sub[n]

Set == Subtree(node, Root(node))

----------------------------------------------------------------------------
(* Questions.  From the root a search goes right of every node whose key is *)
(* smaller than the one wanted.                                             *)

Side(n, k) == IF n < k THEN Right ELSE Left

(* Where the walk for k ends: at k, or below `parent` on side `pos`; `last` *)
(* is the nearest node passed on the given side of k.                       *)
Walk(t, k, side) ==
  LET walk[w \in [parent : Keys \cup {Head}, pos : Dir, last : Keys \cup {Null}]] ==
        LET n == t[w.parent].kid[w.pos]
        IN IF n \in {Null, k}
           THEN [found |-> n, parent |-> w.parent, pos |-> w.pos, last |-> w.last]
           ELSE walk[[parent |-> n, pos |-> Side(n, k),
                      last |-> IF Side(n, k) = side THEN w.last ELSE n]]
  IN walk[[parent |-> Head, pos |-> Left, last |-> Null]]

rb_tree_find_node(t, k) == Walk(t, k, Left).found

rb_tree_find_node_geq(t, k) ==
  LET w == Walk(t, k, Right) IN IF w.found = k THEN k ELSE w.last

rb_tree_find_node_leq(t, k) ==
  LET w == Walk(t, k, Left) IN IF w.found = k THEN k ELSE w.last

(* The last node reached from n by going towards d. *)
Furthest(t, n, d) ==
  LET go[m \in Keys] == IF t[m].kid[d] = Null THEN m ELSE go[t[m].kid[d]]
  IN go[n]

(* The neighbour of n towards d; the first or last node for n = Null. *)
rb_tree_iterate(t, mm, n, d) ==
  LET up[m \in Keys] == CASE Root(t) = m       -> Null
                          [] t[m].pos = 1 - d  -> t[m].father
                          [] OTHER             -> up[t[m].father]
  IN CASE n = Null             -> IF Root(t) = Null THEN Null ELSE mm[d]
       [] t[n].kid[d] = Null   -> up[n]
       [] OTHER                -> Furthest(t, t[n].kid[d], 1 - d)

----------------------------------------------------------------------------
(* Rotation.                                                                *)

(* Bug: the son's inner child is lost. *)
ReparentDropping(t, f, which) ==
  LET c == t[f].kid[which]
      other == 1 - which
  IN [t EXCEPT ![t[f].father].kid[t[f].pos] = c,
               ![f] = [@ EXCEPT !.kid[which] = Null, !.father = c,
                                !.red = t[c].red, !.pos = other],
               ![c] = [@ EXCEPT !.kid[other] = f, !.father = t[f].father,
                                !.red = t[f].red, !.pos = t[f].pos]]

(* Swaps the places and the colours of f and its son on side `which`; the   *)
(* son's inner child becomes f's.                                           *)
rb_tree_reparent_nodes(t, f, which) ==
  LET c     == t[f].kid[which]
      other == 1 - which
      inner == t[c].kid[other]
      swapped == [t EXCEPT ![t[f].father].kid[t[f].pos] = c,
                           ![f] = [@ EXCEPT !.kid[which] = inner, !.father = c,
                                            !.red = t[c].red, !.pos = other],
                           ![c] = [@ EXCEPT !.kid[other] = f, !.father = t[f].father,
                                            !.red = t[f].red, !.pos = t[f].pos]]
  IN IF inner = Null THEN swapped
     ELSE [swapped EXCEPT ![inner].father = f, ![inner].pos = which]

----------------------------------------------------------------------------
rb_tree_init ==
  /\ node = [n \in {Head} |-> [kid |-> [d \in Dir |-> Null], father |-> Null,
                               pos |-> Left, red |-> FALSE]]
  /\ minmax = [d \in Dir |-> Null]
  /\ todo = Idle

Idling == todo = Idle

(* A key that is there already answers with its node; another one is linked *)
(* as a red leaf (the first as a black root) and rebalanced below a red     *)
(* father.                                                                  *)
rb_tree_insert_node(k) ==
  /\ Idling
  /\ LET w    == Walk(node, k, Left)
         leaf == [kid |-> [d \in Dir |-> Null], father |-> w.parent, pos |-> w.pos,
                  red |-> w.parent # Head]
         linked == [n \in DOMAIN node \cup {k} |-> IF n = k THEN leaf ELSE node[n]]
     IN IF w.found = k THEN UNCHANGED <<node, minmax, todo>>
        ELSE /\ node' = [linked EXCEPT ![w.parent].kid[w.pos] = k]
             /\ minmax' = [d \in Dir |-> IF w.parent = Head \/ (d = w.pos /\ minmax[d] = w.parent)
                                         THEN k ELSE minmax[d]]
             /\ todo' = IF Red(node, w.parent)
                        THEN [loop |-> "insert", at |-> k, which |-> Left] ELSE Idle

(* A pass of the loop: below a red uncle the colours are inverted and the   *)
(* grandfather is looked at next; below a black one one or two rotations    *)
(* end it.                                                                  *)
rb_tree_insert_rebalance ==
  /\ todo.loop = "insert"
  /\ LET self    == todo.at
         father  == node[self].father
         grandpa == node[father].father
         which   == IF node[grandpa].kid[Right] = father THEN Right ELSE Left
         other   == 1 - which
         uncle   == node[grandpa].kid[other]
         painted == Mark(Mark(node, uncle, FALSE), father, FALSE)
         outward == IF node[father].kid[other] = self
                    THEN rb_tree_reparent_nodes(node, father, other) ELSE node
         rotated == rb_tree_reparent_nodes(outward, grandpa, which)
     IN \/ /\ Red(node, uncle)
           /\ node' = IF grandpa = Root(node) THEN painted ELSE Mark(painted, grandpa, TRUE)
           /\ todo' = IF grandpa # Root(node) /\ Red(node, node[grandpa].father)
                      THEN [todo EXCEPT !.at = grandpa] ELSE Idle
        \/ /\ Black(node, uncle)
           /\ node' = Mark(rotated, Root(rotated), FALSE)
           /\ todo' = Idle
  /\ UNCHANGED minmax

----------------------------------------------------------------------------
(* Removal.  Each case gives the tree without the node, the new minmax and  *)
(* the father and side from which to rebalance (Idle for none).             *)

Unlinked(t, self) == [n \in DOMAIN t \ {self} |-> t[n]]

(* A node without sons: its father's link is cut. *)
rb_tree_prune_node(self, rebalance) ==
  LET father == node[self].father
      which  == node[self].pos
      root   == Root(node) = self
  IN [node   |-> Unlinked([node EXCEPT ![father].kid[which] = Null], self),
      minmax |-> [d \in Dir |->
                    IF minmax[which] = self /\ (d = which \/ (root /\ d = Right))
                    THEN father ELSE minmax[d]],
      todo   |-> IF rebalance THEN [loop |-> "removal", at |-> father, which |-> which] ELSE Idle]

(* A black node with one red son: the son takes its place and colour. *)
rb_tree_prune_blackred_branch(self, which) ==
  LET son    == node[self].kid[which]
      father == node[self].father
      pos    == node[self].pos
  IN [node   |-> Unlinked([node EXCEPT ![father].kid[pos] = son, ![son].father = father,
                             ![son].pos = pos, ![son].red = node[self].red], self),
      minmax |-> [d \in Dir |->
                    IF \/ Root(node) = self /\ d = 1 - which
                       \/ Root(node) # self /\ d = pos /\ minmax[d] = self
                    THEN son ELSE minmax[d]],
      todo   |-> Idle]

(* A node with two sons: its neighbour `standin` is taken out of its own    *)
(* place, where a red son of it becomes black and moves up, and takes over  *)
(* place, colour and sons.                                                  *)
rb_tree_swap_prune_and_rebalance(self, standin) ==
  LET which  == node[standin].pos
      other  == 1 - which
      direct == node[standin].father = self
      son    == node[standin].kid[IF direct THEN which ELSE other]
      black  == Black(node, standin) /\ Black(node, son)
      father == IF direct THEN standin ELSE node[standin].father
      t1 == IF Red(node, son) THEN Mark(node, son, FALSE) ELSE node
      t2 == IF direct THEN t1
            ELSE [Father(t1, son, father) EXCEPT ![father].kid[which] = son]
      t3 == IF ~direct /\ son # Null THEN [t2 EXCEPT ![son].pos = which] ELSE t2
      adopted == IF direct THEN {other} ELSE Dir
      t4 == [n \in DOMAIN t3 |->
               IF \E d \in adopted : n = t3[self].kid[d]
               THEN [t3[n] EXCEPT !.father = standin] ELSE t3[n]]
      t5 == [t4 EXCEPT
               ![standin] = [kid |-> [d \in Dir |-> IF d \in adopted THEN t4[self].kid[d]
                                                    ELSE t4[standin].kid[d]],
                             father |-> t4[self].father, pos |-> t4[self].pos,
                             red |-> t4[self].red],
               ![t4[self].father].kid[t4[self].pos] = standin]
  IN [node   |-> Unlinked(t5, self),
      minmax |-> [d \in Dir |-> IF d = node[self].pos /\ minmax[d] = self
                                THEN node[self].father ELSE minmax[d]],
      todo   |-> IF black THEN [loop |-> "removal", at |-> father, which |-> which] ELSE Idle]

rb_tree_remove_node(k) ==
  /\ Idling /\ k \in DOMAIN node
  /\ LET only == IF node[k].kid[Left] = Null THEN Right ELSE Left
         r == CASE Childless(node, k)   ->
                     rb_tree_prune_node(k, Black(node, k) /\ Root(node) # k)
                [] TwoChildren(node, k) ->
                     rb_tree_swap_prune_and_rebalance(k,
                       rb_tree_iterate(node, minmax, k, 1 - node[k].pos))
                [] OTHER                -> rb_tree_prune_blackred_branch(k, only)
     IN node' = r.node /\ minmax' = r.minmax /\ todo' = r.todo

(* The end of a pass at `parent`, whose other son `brother` is black or has *)
(* just become so: recolouring, or one or two rotations.                    *)
RebalanceAround(t, parent, which) ==
  LET other   == 1 - which
      brother == t[parent].kid[other]
      near    == Red(t, t[brother].kid[which])
      far     == Red(t, t[brother].kid[other])
      turned  == IF far THEN t ELSE rb_tree_reparent_nodes(t, brother, which)
      nephew  == turned[turned[parent].kid[other]].kid[other]
  IN IF Red(t, parent) /\ Black(t, brother) /\ ~near /\ ~far
     THEN Mark(Mark(t, parent, FALSE), brother, TRUE)
     ELSE rb_tree_reparent_nodes(Mark(turned, nephew, FALSE), parent, other)

(* Bug: the father is left out when both brothers are black. *)
RemovalPassShort ==
  /\ todo.loop = "removal"
  /\ LET parent  == todo.at
         which   == todo.which
         brother == node[parent].kid[1 - which]
         poor    == Black(node, parent) /\ \A d \in Dir : Black(node, node[brother].kid[d])
     IN IF poor /\ Black(node, brother) THEN node' = Mark(node, brother, TRUE)
        ELSE node' = RebalanceAround(
                       IF poor THEN rb_tree_reparent_nodes(node, parent, 1 - which) ELSE node,
                       parent, which)
  /\ todo' = Idle
  /\ UNCHANGED minmax

(* A pass of the loop: the side `which` of `parent` has one black node less *)
(* than the other.  The loop's condition, that the node on that side is     *)
(* black, always holds (LoopSound).                                         *)
rb_tree_removal_rebalance ==
  /\ todo.loop = "removal"
  /\ LET parent  == todo.at
         which   == todo.which
         brother == node[parent].kid[1 - which]
         poor    == Black(node, parent) /\ \A d \in Dir : Black(node, node[brother].kid[d])
     IN \/ /\ poor /\ Black(node, brother)
           /\ node' = Mark(node, brother, TRUE)
           /\ todo' = IF Root(node) = parent THEN Idle
                      ELSE [todo EXCEPT !.at = node[parent].father, !.which = node[parent].pos]
        \/ /\ ~(poor /\ Black(node, brother))
           /\ node' = RebalanceAround(
                        IF poor THEN rb_tree_reparent_nodes(node, parent, 1 - which) ELSE node,
                        parent, which)
           /\ todo' = Idle
  /\ UNCHANGED minmax

----------------------------------------------------------------------------
Next ==
  \/ \E k \in Keys : rb_tree_insert_node(k) \/ rb_tree_remove_node(k)
  \/ rb_tree_insert_rebalance
  \/ rb_tree_removal_rebalance

Spec == rb_tree_init /\ [][Next]_vars

----------------------------------------------------------------------------
(* The checks of the debugging build, made on every node.                   *)

(* Links, order and the ends of the tree; true at every moment. *)
CheckLinks(n) ==
  /\ node[node[n].father].kid[node[n].pos] = n
  /\ IF Root(node) = n THEN node[n].father = Head /\ node[n].pos = Left
     ELSE /\ node[n].father # Null
          /\ Side(node[n].father, n) = node[n].pos
  /\ \A d \in Dir : rb_tree_iterate(node, minmax, n, d) = Null => minmax[d] = n

(* The number of black nodes on every way down from n, or -1 when the ways  *)
(* differ (the assertion of rb_tree_count_black).                           *)
rb_tree_count_black(n) ==
  LET count[m \in Keys \cup {Null}] ==
        IF m = Null THEN 0
        ELSE LET l == count[node[m].kid[Left]]
                 r == count[node[m].kid[Right]]
             IN IF l # r \/ l = -1 THEN -1 ELSE IF node[m].red THEN l ELSE l + 1
  IN count[n]

Sons(n) == {node[n].kid[d] : d \in Dir} \ {Null}

(* Colours and shape; true between calls. *)
CheckColours(n) ==
  LET father  == node[n].father
      brother == node[father].kid[1 - node[n].pos]
  IN /\ Root(node) = n => ~node[n].red
     /\ rb_tree_count_black(n) # -1
     /\ node[n].red =>
          /\ Black(node, father)
          /\ Childless(node, n) => brother = Null \/ Red(node, brother) \/ Childless(node, brother)
          /\ Childless(node, n) \/ (TwoChildren(node, n) /\ \A s \in Sons(n) : Black(node, s))
     /\ ~node[n].red =>
          \/ Childless(node, n) \/ TwoChildren(node, n)
          \/ \A s \in Sons(n) : Red(node, s) /\ Childless(node, s)
     /\ Root(node) \in {n, father} \/ TwoChildren(node, node[father].father)
     /\ \A d \in Dir : Childless(node, node[n].kid[d]) \/ node[n].kid[1 - d] # Null
     /\ TwoChildren(node, n) =>
          \A d \in Dir : node[rb_tree_iterate(node, minmax, n, d)].kid[1 - d] = Null

(* What the two loops assert when a pass begins. *)
LoopSound ==
  /\ todo.loop = "insert" =>
       LET father == node[todo.at].father
       IN Red(node, todo.at) /\ Red(node, father) /\ Black(node, node[father].father)
  /\ todo.loop = "removal" =>
       /\ Black(node, node[todo.at].kid[todo.which])
       /\ node[todo.at].kid[1 - todo.which] # Null

rb_tree_check ==
  /\ \A n \in DOMAIN node \ {Head} : CheckLinks(n)
  /\ Idling => \A n \in DOMAIN node \ {Head} : CheckColours(n)

----------------------------------------------------------------------------
(* The set of the keys linked into the tree. *)
Abs == INSTANCE SortedSet WITH set <- Set

(* find, find_geq, find_leq and iterate answer as that set would, the ends   *)
(* cached in minmax included.                                                *)
AnswersAgree ==
  /\ \A k \in Keys : /\ rb_tree_find_node(node, k) = Abs!Find(k)
                     /\ rb_tree_find_node_geq(node, k) = Abs!FindGeq(k)
                     /\ rb_tree_find_node_leq(node, k) = Abs!FindLeq(k)
  /\ \A d \in Dir : /\ rb_tree_iterate(node, minmax, Null, d) = Abs!First(d)
                    /\ \A k \in Set : rb_tree_iterate(node, minmax, k, d) = Abs!Neighbour(k, d)

(* The assertions rb.c makes in its debugging build hold without it: fathers *)
(* and sons agree, the order is kept and minmax names the ends after every   *)
(* step, also in the middle of rebalancing; between calls no red node has a  *)
(* red father, all ways down meet equally many black nodes, and lookups and  *)
(* iterators answer as a sorted set would.                                   *)
TreeSound == rb_tree_check /\ LoopSound /\ (Idling => AnswersAgree)

(* Seen from outside the tree is the set of the keys linked into it: every   *)
(* step inserts one key, removes one or, rebalancing, leaves the set alone.  *)
ImplementsSet == Abs!Spec
============================================================================
