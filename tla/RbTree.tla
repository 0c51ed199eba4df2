------------------------------- MODULE RbTree --------------------------------
(***************************************************************************)
(* The red-black tree: lib/rbtree.c and include/ds/rbtree.h, with the      *)
(* insertion and the search that the header gives as the example of its    *)
(* use.  The code has every case twice, with left and right exchanged;     *)
(* here the side is a parameter.                                           *)
(*                                                                         *)
(* The nodes 2k-1 and 2k have the key k, so that a node can be replaced by *)
(* another one with the same key.  What a node outside the tree points to  *)
(* is left out: it is as after RB_CLEAR_NODE.                              *)
(***************************************************************************)
EXTENDS Integers, Sequences

CONSTANT Keys

RbNode == 1..(2 * Keys)
NIL == 0
Key(n) == (n + 1) \div 2
Other(s) == IF s = "left" THEN "right" ELSE "left"

VARIABLES rb,         \* root, parents, children by side, and the red nodes
          augmented,  \* the augmented value of a node: the size of its subtree
          members     \* history: nodes in the tree

rbVars == <<rb, augmented, members>>

-----------------------------------------------------------------------------
SideOf(t, p, n) == IF t.kid["left"][p] = n THEN "left" ELSE "right"

rb_set_parent(t, n, p) == IF n = NIL THEN t ELSE [t EXCEPT !.par[n] = p]

(* What pointed to n, its parent p or the root, points to m *)
Relink(t, p, n, m) ==
  IF p = NIL THEN [t EXCEPT !.root = m] ELSE [t EXCEPT !.kid[SideOf(t, p, n)][p] = m]

RB_CLEAR_NODE(t, n) ==
  [t EXCEPT !.par[n] = n, !.kid["left"][n] = NIL, !.kid["right"][n] = NIL, !.red = @ \ {n}]

(* n goes down on side s *)
rb_rotate(t, s, n) ==
  LET up     == t.kid[Other(s)][n]
      across == t.kid[s][up]
      moved  == [rb_set_parent(t, across, n) EXCEPT
                   !.kid[Other(s)][n] = across, !.kid[s][up] = n, !.par[up] = t.par[n]]
  IN rb_set_parent(Relink(moved, t.par[n], n, up), n, up)

(* Mutant: the grandparent stays black *)
Recolour_parent(t, p, g) == [t EXCEPT !.red = @ \ {p}]

Recolour(t, p, g) == [t EXCEPT !.red = (@ \ {p}) \cup {g}]

RECURSIVE rb_insert_color(_, _)
rb_insert_color(t, n) ==
  LET p == t.par[n]
      g == t.par[p]
      s == SideOf(t, g, p)
      uncle == t.kid[Other(s)][g]
      inner == t.kid[Other(s)][p] = n
      t1 == IF inner THEN rb_rotate(t, s, p) ELSE t
      top == IF inner THEN n ELSE p
  IN IF p \notin t.red THEN [t EXCEPT !.red = @ \ {t.root}]
     ELSE IF uncle \in t.red
     THEN rb_insert_color([Recolour(t, p, g) EXCEPT !.red = @ \ {uncle}], g)
     ELSE rb_insert_color(rb_rotate(Recolour(t1, top, g), Other(s), g),
                          IF inner THEN p ELSE n)

(* n, which may be NULL, is one black node short *)
RECURSIVE rb_erase_color(_, _, _)
rb_erase_color(t, n, p) ==
  LET s     == SideOf(t, p, n)
      o     == Other(s)
      t1    == IF t.kid[o][p] \in t.red
               THEN rb_rotate([t EXCEPT !.red = (@ \ {t.kid[o][p]}) \cup {p}], s, p) ELSE t
      other == t1.kid[o][p]
      near  == t1.kid[s][other]
      far   == t1.kid[o][other]
      t2    == IF far \notin t1.red
               THEN rb_rotate([t1 EXCEPT !.red = (@ \ {near}) \cup {other}], o, other) ELSE t1
      top   == t2.kid[o][p]
      t3    == rb_rotate([t2 EXCEPT !.red = (IF p \in @ THEN @ \cup {top} ELSE @ \ {top})
                                            \ {p, t2.kid[o][top]}], s, p)
  IN IF n \in t.red \/ n = t.root THEN [t EXCEPT !.red = @ \ {n}]
     ELSE IF {near, far} \cap t1.red = {}
     THEN rb_erase_color([t1 EXCEPT !.red = @ \cup {other}], p, t1.par[p])
     ELSE [t3 EXCEPT !.red = @ \ {t3.root}]

RECURSIVE Down(_, _, _)
Down(t, s, n) == IF t.kid[s][n] = NIL THEN n ELSE Down(t, s, t.kid[s][n])

(* n has at most one child, which takes its place *)
Unlink(t, n) ==
  LET child == IF t.kid["left"][n] = NIL THEN t.kid["right"][n] ELSE t.kid["left"][n]
      p     == t.par[n]
      t1    == Relink(rb_set_parent(t, child, p), p, n, child)
  IN IF n \in t.red THEN t1 ELSE rb_erase_color(t1, child, p)

(* n has two children: its successor m takes its place and its colour, and *)
(* the right child of m that of m                                          *)
Substitute(t, n) ==
  LET m      == Down(t, "left", t.kid["right"][n])
      child  == t.kid["right"][m]
      direct == t.par[m] = n
      p      == IF direct THEN m ELSE t.par[m]
      t1     == Relink(t, t.par[n], n, m)
      t2     == IF direct THEN t1
                ELSE rb_set_parent([rb_set_parent(t1, child, p) EXCEPT
                       !.kid["left"][p] = child, !.kid["right"][m] = t.kid["right"][n]],
                       t.kid["right"][n], m)
      t3     == [t2 EXCEPT !.par[m] = t.par[n], !.par[t.kid["left"][n]] = m,
                           !.kid["left"][m] = t.kid["left"][n],
                           !.red = IF n \in @ THEN @ \cup {m} ELSE @ \ {m}]
  IN IF m \in t.red THEN t3 ELSE rb_erase_color(t3, child, p)

rb_erase(t, n) ==
  IF t.kid["left"][n] = NIL \/ t.kid["right"][n] = NIL THEN Unlink(t, n) ELSE Substitute(t, n)

-----------------------------------------------------------------------------
(* rb_first and rb_last *)
Outermost(t, s) == IF t.root = NIL THEN NIL ELSE Down(t, s, t.root)

RECURSIVE Up(_, _, _)
Up(t, s, n) ==
  IF t.par[n] # NIL /\ t.kid[s][t.par[n]] = n THEN Up(t, s, t.par[n]) ELSE t.par[n]

(* Mutant: a node without a child on that side is the last one *)
Adjoining_down(t, s, n) ==
  IF t.par[n] = n \/ t.kid[s][n] = NIL THEN NIL ELSE Down(t, Other(s), t.kid[s][n])

(* rb_next is on the right, rb_prev on the left *)
Adjoining(t, s, n) ==
  IF t.par[n] = n THEN NIL
  ELSE IF t.kid[s][n] # NIL THEN Down(t, Other(s), t.kid[s][n])
  ELSE Up(t, s, n)

(* The descent to a key: the node that has it, or the place for it *)
RECURSIVE Descend(_, _, _, _)
Descend(t, k, n, p) ==
  IF n = NIL \/ Key(n) = k THEN [node |-> n, parent |-> p]
  ELSE Descend(t, k, t.kid[IF k < Key(n) THEN "left" ELSE "right"][n], n)

rb_search(t, k) == Descend(t, k, t.root, NIL).node

rb_link_node(t, n, p) ==
  LET s    == IF p # NIL /\ Key(n) > Key(p) THEN "right" ELSE "left"
      leaf == [t EXCEPT !.par[n] = p, !.kid["left"][n] = NIL, !.kid["right"][n] = NIL,
                        !.red = @ \cup {n}]
  IN IF p = NIL THEN [leaf EXCEPT !.root = n] ELSE [leaf EXCEPT !.kid[s][p] = n]

(* The callback of the augmented tree *)
func(t, a, n) ==
  [a EXCEPT ![n] = 1 + (IF t.kid["left"][n] = NIL THEN 0 ELSE a[t.kid["left"][n]])
                     + (IF t.kid["right"][n] = NIL THEN 0 ELSE a[t.kid["right"][n]])]

RECURSIVE rb_augment_path(_, _, _)
rb_augment_path(t, a, n) ==
  LET p       == t.par[n]
      sibling == IF n = t.kid["left"][p] /\ t.kid["right"][p] # NIL THEN t.kid["right"][p]
                 ELSE t.kid["left"][p]
      a1      == func(t, a, n)
  IN IF p = NIL THEN a1
     ELSE rb_augment_path(t, IF sibling = NIL THEN a1 ELSE func(t, a1, sibling), p)

rb_augment_insert(t, a, n) ==
  rb_augment_path(t, a, IF t.kid["left"][n] # NIL THEN t.kid["left"][n]
                        ELSE IF t.kid["right"][n] # NIL THEN t.kid["right"][n] ELSE n)

(* Mutant: the parent of the node, also when another one takes its place *)
rb_augment_erase_begin_parent(t, n) == t.par[n]

rb_augment_erase_begin(t, n) ==
  LET l    == t.kid["left"][n]
      r    == t.kid["right"][n]
      next == Adjoining(t, "right", n)
  IN IF l = NIL /\ r = NIL THEN t.par[n]
     ELSE IF r = NIL THEN l
     ELSE IF l = NIL THEN r
     ELSE IF t.kid["right"][next] # NIL THEN t.kid["right"][next]
     ELSE IF t.par[next] # n THEN t.par[next] ELSE next

rb_augment_erase_end(t, a, n) == IF n = NIL THEN a ELSE rb_augment_path(t, a, n)

-----------------------------------------------------------------------------
RbInit ==
  /\ rb = [root |-> NIL, par |-> [n \in RbNode |-> n],
           kid |-> [s \in {"left", "right"} |-> [n \in RbNode |-> NIL]], red |-> {}]
  /\ augmented = [n \in RbNode |-> 0]
  /\ members = {}

(* rb_insert_page_cache of the header *)
Insert(n) ==
  LET at == Descend(rb, Key(n), rb.root, NIL)
      t  == rb_insert_color(rb_link_node(rb, n, at.parent), n)
  IN /\ at.node = NIL
     /\ rb' = t
     /\ augmented' = rb_augment_insert(t, augmented, n)
     /\ members' = members \cup {n}

Erase(n) ==
  LET deepest == rb_augment_erase_begin(rb, n)
      t       == rb_erase(rb, n)
  IN /\ n \in members
     /\ rb' = RB_CLEAR_NODE(t, n)
     /\ augmented' = [rb_augment_erase_end(t, augmented, deepest) EXCEPT ![n] = 0]
     /\ members' = members \ {n}

(* The caller copies the augmented value *)
rb_replace_node(victim, new) ==
  LET t == Relink(rb, rb.par[victim], victim, new)
      l == rb.kid["left"][victim]
      r == rb.kid["right"][victim]
  IN /\ victim \in members /\ new \notin members /\ Key(new) = Key(victim)
     /\ rb' = RB_CLEAR_NODE(
                [rb_set_parent(rb_set_parent(t, l, new), r, new) EXCEPT
                   !.par[new] = rb.par[victim],
                   !.kid["left"][new] = l, !.kid["right"][new] = r,
                   !.red = IF victim \in @ THEN @ \cup {new} ELSE @], victim)
     /\ augmented' = [augmented EXCEPT ![new] = augmented[victim], ![victim] = 0]
     /\ members' = (members \ {victim}) \cup {new}

RbNext ==
  \/ \E n \in RbNode : Insert(n) \/ Erase(n)
  \/ \E victim, new \in RbNode : rb_replace_node(victim, new)

-----------------------------------------------------------------------------
(* Black nodes on the paths from n down; -1 when they differ, or when a    *)
(* red node has a red child                                                *)
RECURSIVE BlackHeight(_)
BlackHeight(n) ==
  IF n = NIL THEN 0
  ELSE LET l == BlackHeight(rb.kid["left"][n])
           r == BlackHeight(rb.kid["right"][n])
           bad == n \in rb.red /\ {rb.kid["left"][n], rb.kid["right"][n]} \cap rb.red # {}
       IN IF bad \/ l # r \/ l = -1 THEN -1 ELSE l + IF n \in rb.red THEN 0 ELSE 1

(* After any insertions, removals and replacements the root is black, no   *)
(* red node has a red child and all paths down have as many black nodes,   *)
(* so no path is more than twice as long as another.                       *)
RbBalanced == rb.root \notin rb.red /\ BlackHeight(rb.root) # -1

RECURSIVE WalkFrom(_, _)
WalkFrom(s, n) == IF n = NIL THEN <<>> ELSE <<n>> \o WalkFrom(s, Adjoining(rb, s, n))

Ascending(q) == \A i, j \in 1..Len(q) : i < j => Key(q[i]) < Key(q[j])
Elements(q) == {q[i] : i \in 1..Len(q)}

(* rb_first and rb_next go through the nodes that were put in and not      *)
(* taken out, in ascending order and each once, rb_last and rb_prev the    *)
(* other way round, and a search finds every one of them.                  *)
RbOrdered ==
  LET up == WalkFrom("right", Outermost(rb, "left"))
      dn == WalkFrom("left", Outermost(rb, "right"))
  IN /\ Elements(up) = members /\ Ascending(up)
     /\ Len(dn) = Len(up) /\ \A i \in 1..Len(up) : dn[i] = up[Len(up) + 1 - i]
     /\ \A k \in 1..Keys :
          rb_search(rb, k) = IF \E n \in members : Key(n) = k
                             THEN CHOOSE n \in members : Key(n) = k ELSE NIL

RECURSIVE SubtreeSize(_)
SubtreeSize(n) ==
  IF n = NIL THEN 0 ELSE 1 + SubtreeSize(rb.kid["left"][n]) + SubtreeSize(rb.kid["right"][n])

(* "update the tree to account for both the new entry and any damage done  *)
(* by rebalance": the values along one path, and of the siblings on it,    *)
(* are computed again, and then all values are right.                      *)
RbAugmented == \A n \in members : augmented[n] = SubtreeSize(n)
=============================================================================
