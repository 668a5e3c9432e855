------------------------------- MODULE Rbtree -------------------------------
(***************************************************************************)
(* The red-black tree of c/linux/common/rbtree: a set of keys, with NULL   *)
(* for the leaves and for the root's parent.                               *)
(*                                                                         *)
(* No two nodes have the same key and no key ever moves from one node to   *)
(* another, so that a node is named by its key; malloc gives the node of a *)
(* key.  As in NgxRbtree, an operator of a side stands for the two mirror  *)
(* images in the source, the binary insert and delete are one step each,   *)
(* and so is every turn of the two fixup loops.                            *)
(***************************************************************************)
EXTENDS Naturals, Sequences, FiniteSets

CONSTANTS Keys,         \* the keys the callers use
          Null

ASSUME KeysAssumption == Keys \subseteq Nat /\ Null \notin Keys

VARIABLES tree,         \* the root, and the fields of every node
          pc,           \* "idle", or the fixup loop that is running
          cur,          \* node in the fixup loops
          up,           \* parent in the delete loop
          gone          \* the node to be freed after the delete loop

vars == <<tree, pc, cur, up, gone>>

-----------------------------------------------------------------------------
Set(t, field, x, v) == [t EXCEPT ![field][x] = v]
Paint(t, x, c) == Set(t, "color", x, c)

\* A leaf is black.
Red(t, x) == x # Null /\ t.color[x] = "red"
Black(t, x) == ~ Red(t, x)

Opposite(side) == IF side = "left" THEN "right" ELSE "left"
SideOf(t, x) == IF t.left[t.parent[x]] = x THEN "left" ELSE "right"

\* The parent of x, or the root, now leads to new; x is at its old place.
Relink(t, x, new) == IF t.parent[x] = Null THEN [t EXCEPT !.root = new]
                     ELSE Set(t, SideOf(t, x), t.parent[x], new)

SetParent(t, x, p) == IF x = Null THEN t ELSE Set(t, "parent", x, p)

\* rbtree_left_rotate and rbtree_right_rotate
Rotate(t, x, side) ==
  LET y == t[Opposite(side)][x]
      t1 == SetParent(Set(t, Opposite(side), x, t[side][y]), t[side][y], x)
      t2 == Relink(Set(t1, "parent", y, t.parent[x]), x, y)
  IN Set(Set(t2, side, y, x), "parent", x, y)

-----------------------------------------------------------------------------
(* Queries                                                                 *)

Search(t, k) ==
  LET search[x \in Keys \cup {Null}] ==
        IF x = Null \/ x = k THEN x
        ELSE IF k < x THEN search[t.left[x]] ELSE search[t.right[x]]
  IN search[t.root]

\* minimum for "left", maximum for "right"
Extreme(t, root, side) ==
  LET last[x \in Keys] == IF t[side][x] = Null THEN x ELSE last[t[side][x]]
  IN IF root = Null THEN Null ELSE last[root]

\* Mutant: the parent is next, whichever child x is.
NeighbourParent(t, x, side) ==
  IF t[side][x] # Null THEN Extreme(t, t[side][x], Opposite(side)) ELSE t.parent[x]

\* rbtree_successor for "right", rbtree_predecessor for "left"
Neighbour(t, x, side) ==
  LET climb[y \in Keys] == IF t.parent[y] # Null /\ y = t[side][t.parent[y]]
                           THEN climb[t.parent[y]] ELSE t.parent[y]
  IN IF t[side][x] # Null THEN Extreme(t, t[side][x], Opposite(side)) ELSE climb[x]

InOrder(t) == LET io[x \in Keys \cup {Null}] ==
                    IF x = Null THEN <<>> ELSE io[t.left[x]] \o <<x>> \o io[t.right[x]]
              IN io[t.root]

-----------------------------------------------------------------------------
(* Insert                                                                  *)

Empty == [root |-> Null, left |-> [k \in Keys |-> Null], right |-> [k \in Keys |-> Null],
          parent |-> [k \in Keys |-> Null], color |-> [k \in Keys |-> "black"]]

\* create_rbtree
Init == /\ tree = Empty
        /\ pc = "idle"
        /\ cur = Null /\ up = Null /\ gone = Null

\* The binary insert of a new red node.
Linked(t, node) ==
  LET below(x) == IF node < x THEN "left" ELSE "right"
      last[x \in Keys] == IF t[below(x)][x] = Null THEN x ELSE last[t[below(x)][x]]
      y == last[t.root]
  IN IF t.root = Null THEN Paint([t EXCEPT !.root = node], node, "red")
     ELSE Paint(Set(Set(t, "parent", node, y), below(y), y, node), node, "red")

\* insert_rbtree of a key that is not there; otherwise, or if malloc fails, it
\* returns -1 and changes nothing.
Insert(k) ==
  /\ pc = "idle" /\ Search(tree, k) = Null
  /\ tree' = Linked(tree, k)
  /\ pc' = "insert" /\ cur' = k
  /\ UNCHANGED <<up, gone>>

RedParent == Red(tree, tree.parent[cur])

Recolored(t, parent, uncle, grand) ==
  Paint(Paint(Paint(t, uncle, "black"), parent, "black"), grand, "red")

\* A turn of rbtree_insert_fixup: case 1, or cases 2 and 3.
InsertRecolor ==
  /\ pc = "insert" /\ RedParent
  /\ LET parent == tree.parent[cur]
         grand == tree.parent[parent]
         uncle == tree[Opposite(SideOf(tree, parent))][grand]
     IN /\ Red(tree, uncle)
        /\ tree' = Recolored(tree, parent, uncle, grand)
        /\ cur' = grand
  /\ UNCHANGED <<pc, up, gone>>

Raised(t, parent, grand, side) ==
  Rotate(Paint(Paint(t, parent, "black"), grand, "red"), grand, Opposite(side))

InsertRotate ==
  /\ pc = "insert" /\ RedParent
  /\ LET parent == tree.parent[cur]
         grand == tree.parent[parent]
         side == SideOf(tree, parent)
     IN /\ Black(tree, tree[Opposite(side)][grand])
        /\ IF cur = tree[Opposite(side)][parent]
           THEN /\ tree' = Raised(Rotate(tree, parent, side), cur, grand, side)
                /\ cur' = parent
           ELSE /\ tree' = Raised(tree, parent, grand, side)
                /\ UNCHANGED cur
  /\ UNCHANGED <<pc, up, gone>>

InsertDone == /\ pc = "insert" /\ ~ RedParent
              /\ tree' = Paint(tree, tree.root, "black")
              /\ pc' = "idle" /\ cur' = Null
              /\ UNCHANGED <<up, gone>>

-----------------------------------------------------------------------------
(* Delete                                                                  *)

Freed(t, node) == [t EXCEPT !.left[node] = Null, !.right[node] = Null,
                            !.parent[node] = Null, !.color[node] = "black"]

\* The rest of rbtree_delete: child may need a fixup below parent.
FixupOrFree(t, node, child, parent, color) ==
  IF color = "black"
  THEN tree' = t /\ pc' = "delete" /\ cur' = child /\ up' = parent /\ gone' = node
  ELSE tree' = Freed(t, node) /\ UNCHANGED <<pc, cur, up, gone>>

\* The node has at most one child, which takes its place.
DeleteNode(node) ==
  /\ pc = "idle" /\ Search(tree, node) = node
  /\ Null \in {tree.left[node], tree.right[node]}
  /\ LET child == IF tree.left[node] # Null THEN tree.left[node] ELSE tree.right[node]
         parent == tree.parent[node]
     IN FixupOrFree(Relink(SetParent(tree, child, parent), node, child),
                    node, child, parent, tree.color[node])

\* Mutant: the parent of the place that is empty now is always that of replace.
PlaceOfOld(t, node, replace) == t.parent[replace]

PlaceOf(t, node, replace) == IF t.parent[replace] = node THEN replace ELSE t.parent[replace]

\* replace leaves its place to its right child and takes the one of node.
Replaced(t, node, replace) ==
  LET child == t.right[replace]
      parent == t.parent[replace]
      t1 == Relink(t, node, replace)
      t2 == IF parent = node THEN t1
            ELSE SetParent(Set(Set(SetParent(t1, child, parent), "left", parent, child),
                               "right", replace, t.right[node]),
                           t.right[node], replace)
      t3 == Paint(Set(t2, "parent", replace, t.parent[node]), replace, t.color[node])
  IN SetParent(Set(t3, "left", replace, t.left[node]), t.left[node], replace)

\* The node has two children: its successor replaces it.
DeleteInner(node) ==
  /\ pc = "idle" /\ Search(tree, node) = node
  /\ Null \notin {tree.left[node], tree.right[node]}
  /\ LET replace == Extreme(tree, tree.right[node], "left")
     IN FixupOrFree(Replaced(tree, node, replace), node, tree.right[replace],
                    PlaceOf(tree, node, replace), tree.color[replace])

LacksBlack == Black(tree, cur) /\ cur # tree.root

CurSide == IF tree.left[up] = cur THEN "left" ELSE "right"

\* Case 1: the sibling is made black.
BlackSibling(t, side) ==
  LET other == t[Opposite(side)][up]
  IN IF Black(t, other) THEN t
     ELSE Rotate(Paint(Paint(t, other, "black"), up, "red"), up, side)

\* Mutant: parent is not set to the parent of the new node.
DeleteRecolorStays ==
  /\ pc = "delete" /\ LacksBlack
  /\ LET t == BlackSibling(tree, CurSide)
         other == t[Opposite(CurSide)][up]
     IN /\ Black(t, t.left[other]) /\ Black(t, t.right[other])
        /\ tree' = Paint(t, other, "red")
        /\ cur' = up
  /\ UNCHANGED <<pc, up, gone>>

\* A turn of rbtree_delete_fixup: case 2, or cases 3 and 4.
DeleteRecolor ==
  /\ pc = "delete" /\ LacksBlack
  /\ LET t == BlackSibling(tree, CurSide)
         other == t[Opposite(CurSide)][up]
     IN /\ Black(t, t.left[other]) /\ Black(t, t.right[other])
        /\ tree' = Paint(t, other, "red")
        /\ cur' = up
        /\ up' = t.parent[up]
  /\ UNCHANGED <<pc, gone>>

\* Case 3: the outer child of the sibling is made red.
OuterRed(t, other, side) ==
  IF Red(t, t[Opposite(side)][other]) THEN t
  ELSE Rotate(Paint(Paint(t, t[side][other], "black"), other, "red"),
              other, Opposite(side))

\* Case 4.
Lowered(t, side) ==
  LET other == t[Opposite(side)][up]
      t1 == Paint(Paint(t, other, t.color[up]), up, "black")
  IN Rotate(Paint(t1, t1[Opposite(side)][other], "black"), up, side)

DeleteRotate ==
  /\ pc = "delete" /\ LacksBlack
  /\ LET t == BlackSibling(tree, CurSide)
         other == t[Opposite(CurSide)][up]
     IN /\ Red(t, t.left[other]) \/ Red(t, t.right[other])
        /\ tree' = Lowered(OuterRed(t, other, CurSide), CurSide)
        /\ cur' = tree'.root
  /\ UNCHANGED <<pc, up, gone>>

DeleteDone ==
  /\ pc = "delete" /\ ~ LacksBlack
  /\ tree' = Freed(IF cur = Null THEN tree ELSE Paint(tree, cur, "black"), gone)
  /\ pc' = "idle" /\ cur' = Null /\ up' = Null /\ gone' = Null

\* destroy_rbtree, and create_rbtree again.
Destroy == /\ pc = "idle"
           /\ tree' = Empty
           /\ UNCHANGED <<pc, cur, up, gone>>

-----------------------------------------------------------------------------
Turn == \/ InsertRecolor \/ InsertRotate \/ InsertDone
        \/ DeleteRecolor \/ DeleteRotate \/ DeleteDone

Call(k) == Insert(k) \/ DeleteNode(k) \/ DeleteInner(k)

Next == Turn \/ Destroy \/ \E k \in Keys : Call(k)

Spec == Init /\ [][Next]_vars

-----------------------------------------------------------------------------
(* Properties                                                              *)

Links == [Keys -> Keys \cup {Null}]

\* Fields hold nodes and colors.
TypeOK == /\ tree \in [root : Keys \cup {Null}, left : Links, right : Links,
                       parent : Links, color : [Keys -> {"red", "black"}]]
          /\ pc \in {"idle", "insert", "delete"}
          /\ {cur, up, gone} \subseteq Keys \cup {Null}

InTree == {k \in Keys : Search(tree, k) # Null}

\* Each node but the root is a child of its parent; nothing leads to the node that
\* is about to be freed.
ParentsExact ==
  /\ tree.root # Null => tree.parent[tree.root] = Null
  /\ gone \notin InTree
  /\ \A x \in InTree \ {tree.root} :
        tree.parent[x] \in InTree /\ x = tree[SideOf(tree, x)][tree.parent[x]]
  /\ \A x \in InTree : {tree.left[x], tree.right[x]} \subseteq InTree \cup {Null}

\* The blacks on the paths from a node to its leaves, one more below the place
\* that the delete loop makes up for.
MissingAt(x, side) == pc = "delete" /\ up = x /\ cur = tree[side][x] /\ cur # tree.root

One(p) == IF p THEN 1 ELSE 0

Blacks ==
  LET blacks[x \in Keys \cup {Null}] ==
        IF x = Null THEN {1}
        ELSE UNION {{One(Black(tree, x)) + One(MissingAt(x, side)) + n :
                       n \in blacks[tree[side][x]]} : side \in {"left", "right"}}
  IN blacks[tree.root]

\* A red node has a red parent only at the node a loop is at.
RedsApart == \A x \in InTree : Red(tree, x) /\ Red(tree, tree.parent[x]) =>
               \/ pc = "insert" /\ cur = x
               \/ pc = "delete" /\ cur \in {x, tree.parent[x]}

\* The parent pointers are right, the tree is red-black between the calls and off
\* by one node in the loops, and the delete loop knows where its node is, though
\* that node may be NULL: parent is the parent of that place.
RedBlack == /\ TypeOK
            /\ ParentsExact
            /\ Cardinality(Blacks) = 1
            /\ RedsApart
            /\ pc = "idle" => Black(tree, tree.root)
            /\ pc = "delete" /\ cur # tree.root => cur = tree[CurSide][up]

Depth(t, x) == LET depth[y \in Keys] == IF t.parent[y] = Null THEN 1
                                        ELSE 1 + depth[t.parent[y]]
               IN IF x = Null THEN 0 ELSE depth[x]

\* The loops end: every turn moves the node the loop is at towards the root, or is
\* the last one.
LoopsClimb ==
  [][/\ pc = "insert" /\ pc' = "insert" =>
          Depth(tree', cur') < Depth(tree, cur) \/ ~ RedParent'
     /\ pc = "delete" /\ pc' = "delete" =>
          Depth(tree', up') < Depth(tree, up) \/ ~ LacksBlack']_vars

\* The tree is a set of keys: insert and delete do to the set what their comments
\* say, a fixup does nothing to it, and the queries and the traversal answer from
\* it, at every turn.
Abstract == INSTANCE KeySet
              WITH None <- Null,
                   keys <- InTree,
                   found <- {k \in Keys : Search(tree, k) = k},
                   order <- InOrder(tree),
                   minimum <- Extreme(tree, tree.root, "left"),
                   maximum <- Extreme(tree, tree.root, "right"),
                   successor <- [k \in InTree |-> Neighbour(tree, k, "right")],
                   predecessor <- [k \in InTree |-> Neighbour(tree, k, "left")]
ImplementsKeySet == Abstract!Spec
=============================================================================
