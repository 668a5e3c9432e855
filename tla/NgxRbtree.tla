----------------------------- MODULE NgxRbtree ------------------------------
(***************************************************************************)
(* The red-black tree of c/linux/common/ngx_rbtree, with both of its       *)
(* insert functions.                                                       *)
(*                                                                         *)
(* The two branches of every loop in the source are mirror images; here a  *)
(* branch is an operator of the side it works on.  The binary insert and   *)
(* the binary delete are one step each, and so is every turn of the two    *)
(* rebalancing loops, so that what holds between the turns can be stated.  *)
(*                                                                         *)
(* The callers insert a node that is not in the tree and delete one that   *)
(* is.  With the timer function, the keys in the tree at one time span     *)
(* less than half of the numbers, as its comment says timers do.           *)
(***************************************************************************)
EXTENDS Naturals, Sequences, FiniteSets

CONSTANTS Nodes,        \* the nodes of the callers
          Sentinel,     \* the node that stands for every leaf
          Null,
          Width,        \* bits of ngx_rbtree_key_t (64 in the build)
          Keys          \* the keys the callers use

Cells == Nodes \cup {Sentinel}
KeyMod == 2 ^ Width     \* the numbers of ngx_rbtree_key_t

ASSUME CellsAssumption == Sentinel \notin Nodes /\ Null \notin Cells
ASSUME KeysAssumption == /\ KeyMod \in Nat /\ KeyMod % 2 = 0
                         /\ Keys \subseteq 0 .. KeyMod - 1

VARIABLES tree,         \* the root, and the fields of every node
          insert,       \* the function that compares: "value" or "timer"
          pc,           \* "idle", or the loop that is running
          cur           \* node in the insert loop, temp in the delete loop

vars == <<tree, insert, pc, cur>>

-----------------------------------------------------------------------------
(* Fields, sides and rotations                                             *)

Set(t, field, x, v) == [t EXCEPT ![field][x] = v]
Paint(t, x, c) == Set(t, "color", x, c)
Red(t, x) == t.color[x] = "red"
Black(t, x) == ~ Red(t, x)

Opposite(side) == IF side = "left" THEN "right" ELSE "left"
In(t) == {x \in Nodes : t.left[x] # Null}
SideOf(t, x) == IF x = t.left[t.parent[x]] THEN "left" ELSE "right"

\* What stood at old is now new: its parent, or the root, is told.
Relink(t, old, new) == IF old = t.root THEN [t EXCEPT !.root = new]
                       ELSE Set(t, SideOf(t, old), t.parent[old], new)

\* ngx_rbtree_left_rotate and ngx_rbtree_right_rotate
Rotate(t, node, side) ==
  LET temp == t[Opposite(side)][node]
      inner == t[side][temp]
      t1 == Set(t, Opposite(side), node, inner)
      t2 == IF inner # Sentinel THEN Set(t1, "parent", inner, node) ELSE t1
      t3 == Relink(Set(t2, "parent", temp, t.parent[node]), node, temp)
  IN Set(Set(t3, side, temp, node), "parent", node, temp)

Min(t, x) == LET min[y \in In(t)] == IF t.left[y] = Sentinel THEN y ELSE min[t.left[y]]
             IN min[x]

\* Mutant: the parent of a node without a right child is next.
SuccessorParent(t, x) == IF t.right[x] # Sentinel THEN Min(t, t.right[x])
                         ELSE IF x = t.root THEN Null ELSE t.parent[x]

\* ngx_rbtree_next
Successor(t, x) ==
  LET climb[y \in In(t)] == IF y = t.root THEN Null
                            ELSE IF SideOf(t, y) = "left" THEN t.parent[y]
                            ELSE climb[t.parent[y]]
  IN IF t.right[x] # Sentinel THEN Min(t, t.right[x]) ELSE climb[x]

InTree == In(tree)

-----------------------------------------------------------------------------
\* ngx_rbtree_init; the fields of a new node are zero, as calloc leaves them.
Init ==
  /\ tree = [root |-> Sentinel, key |-> [x \in Nodes |-> 0],
             left |-> [x \in Cells |-> Null], right |-> [x \in Cells |-> Null],
             parent |-> [x \in Cells |-> Null],
             color |-> [x \in Cells |-> "black"]]
  /\ insert \in {"value", "timer"}
  /\ pc = "idle"
  /\ cur = Sentinel

\* Mutant: the timers are compared like other keys.
LessUnsigned(how, a, b) == a < b

\* (ngx_rbtree_key_int_t) (a - b) < 0 for timers, a < b otherwise
Less(how, a, b) == IF how = "timer" THEN (a + KeyMod - b) % KeyMod >= KeyMod \div 2
                   ELSE a < b

Linked(t, node, parent, color) ==
  [t EXCEPT !.parent[node] = parent, !.left[node] = Sentinel,
            !.right[node] = Sentinel, !.color[node] = color]

\* ngx_rbtree_insert_value, ngx_rbtree_insert_timer_value
InsertValue(t, node) ==
  LET side(x) == IF Less(insert, t.key[node], t.key[x]) THEN "left" ELSE "right"
      last[x \in In(t)] == IF t[side(x)][x] = Sentinel THEN x ELSE last[t[side(x)][x]]
      temp == last[t.root]
  IN Linked(Set(t, side(temp), temp, node), node, temp, "red")

\* A key comes before another one: what the callers mean by the order.
Earlier(how, a, b) ==
  IF how = "timer" THEN \E d \in 1 .. KeyMod \div 2 - 1 : b = (a + d) % KeyMod
                   ELSE a < b

Narrow(keys) == \E base \in keys : \A k \in keys \ {base} : Earlier("timer", base, k)

Insert(node, k) ==
  LET t == Set(tree, "key", node, k)
  IN /\ pc = "idle" /\ node \notin InTree
     /\ insert = "timer" => Narrow({k} \cup {tree.key[x] : x \in InTree})
     /\ IF t.root = Sentinel
        THEN /\ tree' = [Linked(t, node, Null, "black") EXCEPT !.root = node]
             /\ UNCHANGED <<pc, cur>>
        ELSE /\ tree' = InsertValue(t, node)
             /\ pc' = "insert" /\ cur' = node

RedParent == cur # tree.root /\ Red(tree, tree.parent[cur])

Recolored(t, parent, uncle, grand) ==
  Paint(Paint(Paint(t, parent, "black"), uncle, "black"), grand, "red")

\* A turn of the insert loop: the uncle is red, or it is black.
InsertRecolor ==
  /\ pc = "insert" /\ RedParent
  /\ LET parent == tree.parent[cur]
         grand == tree.parent[parent]
         uncle == tree[Opposite(SideOf(tree, parent))][grand]
     IN /\ Red(tree, uncle)
        /\ tree' = Recolored(tree, parent, uncle, grand)
        /\ cur' = grand
  /\ UNCHANGED pc

InsertRotated(t, node, side) ==
  LET parent == t.parent[node]
      grand == t.parent[parent]
  IN Rotate(Paint(Paint(t, parent, "black"), grand, "red"), grand, Opposite(side))

InsertRotate ==
  /\ pc = "insert" /\ RedParent
  /\ LET parent == tree.parent[cur]
         grand == tree.parent[parent]
         side == SideOf(tree, parent)
         inside == cur = tree[Opposite(side)][parent]
     IN /\ Black(tree, tree[Opposite(side)][grand])
        /\ cur' = IF inside THEN parent ELSE cur
        /\ tree' = InsertRotated(IF inside THEN Rotate(tree, parent, side) ELSE tree,
                                 cur', side)
  /\ UNCHANGED pc

InsertDone == /\ pc = "insert" /\ ~ RedParent
              /\ tree' = Paint(tree, tree.root, "black")
              /\ pc' = "idle" /\ UNCHANGED cur

-----------------------------------------------------------------------------
\* The node that leaves its place, and the child that takes it.
Subst(t, node) == IF Sentinel \in {t.left[node], t.right[node]} THEN node
                  ELSE Min(t, t.right[node])
Child(t, subst) == IF t.left[subst] = Sentinel THEN t.right[subst] ELSE t.left[subst]

Cleared(t, node) == [t EXCEPT !.left[node] = Null, !.right[node] = Null,
                              !.parent[node] = Null, !.key[node] = 0]

\* Mutant: subst keeps its color.
TakePlaceUncolored(t, node, subst) ==
  LET t1 == [t EXCEPT !.left[subst] = t.left[node], !.right[subst] = t.right[node],
                      !.parent[subst] = t.parent[node]]
      t2 == Relink(t1, node, subst)
      child == {t2.left[subst], t2.right[subst]} \ {Sentinel}
  IN [t2 EXCEPT !.parent = [x \in Cells |-> IF x \in child THEN subst ELSE @[x]]]

\* subst takes the place, the links and the color of node.
TakePlace(t, node, subst) ==
  LET t1 == [t EXCEPT !.left[subst] = t.left[node], !.right[subst] = t.right[node],
                      !.parent[subst] = t.parent[node], !.color[subst] = t.color[node]]
      t2 == Relink(t1, node, subst)
      child == {t2.left[subst], t2.right[subst]} \ {Sentinel}
  IN [t2 EXCEPT !.parent = [x \in Cells |-> IF x \in child THEN subst ELSE @[x]]]

Unlinked(t, node) ==
  LET subst == Subst(t, node)
      temp == Child(t, subst)
      t1 == Set(t, SideOf(t, subst), t.parent[subst], temp)
      up == IF subst # node /\ t.parent[subst] = node THEN subst ELSE t.parent[subst]
      t2 == Set(t1, "parent", temp, up)
  IN IF subst = node THEN t2 ELSE TakePlace(t2, node, subst)

Delete(node) ==
  LET subst == Subst(tree, node)
      temp == Child(tree, subst)
  IN /\ pc = "idle" /\ node \in InTree
     /\ IF subst = tree.root
        THEN /\ tree' = Cleared(Paint([tree EXCEPT !.root = temp], temp, "black"), node)
             /\ UNCHANGED <<pc, cur>>
        ELSE /\ tree' = Cleared(Unlinked(tree, node), node)
             /\ IF Red(tree, subst) THEN UNCHANGED <<pc, cur>>
                ELSE pc' = "delete" /\ cur' = temp

LacksBlack == cur # tree.root /\ Black(tree, cur)

\* The sibling w is made black, by a rotation if it is not.
BlackSibling(t, temp, side) ==
  LET parent == t.parent[temp]
      w == t[Opposite(side)][parent]
  IN IF Black(t, w) THEN t
     ELSE Rotate(Paint(Paint(t, w, "black"), parent, "red"), parent, side)

Sibling(t, temp, side) == t[Opposite(side)][t.parent[temp]]

\* Mutant: temp = temp->parent is forgotten.
DeleteRecolorStays ==
  /\ pc = "delete" /\ LacksBlack
  /\ LET side == SideOf(tree, cur)
         t == BlackSibling(tree, cur, side)
         w == Sibling(t, cur, side)
     IN /\ Black(t, t.left[w]) /\ Black(t, t.right[w])
        /\ tree' = Paint(t, w, "red")
  /\ UNCHANGED <<cur, pc>>

\* A turn of the delete loop: w has no red child, or it has one.
DeleteRecolor ==
  /\ pc = "delete" /\ LacksBlack
  /\ LET side == SideOf(tree, cur)
         t == BlackSibling(tree, cur, side)
         w == Sibling(t, cur, side)
     IN /\ Black(t, t.left[w]) /\ Black(t, t.right[w])
        /\ tree' = Paint(t, w, "red")
        /\ cur' = t.parent[cur]
  /\ UNCHANGED pc

\* The red child of w is the outer one.
OuterRed(t, w, side) ==
  IF Red(t, t[Opposite(side)][w]) THEN t
  ELSE Rotate(Paint(Paint(t, t[side][w], "black"), w, "red"), w, Opposite(side))

DeleteRotated(t, temp, side) ==
  LET parent == t.parent[temp]
      w == Sibling(t, temp, side)
      t1 == Paint(Paint(t, w, t.color[parent]), parent, "black")
  IN Rotate(Paint(t1, t1[Opposite(side)][w], "black"), parent, side)

DeleteRotate ==
  /\ pc = "delete" /\ LacksBlack
  /\ LET side == SideOf(tree, cur)
         t == BlackSibling(tree, cur, side)
         w == Sibling(t, cur, side)
     IN /\ Red(t, t.left[w]) \/ Red(t, t.right[w])
        /\ tree' = DeleteRotated(OuterRed(t, w, side), cur, side)
        /\ cur' = tree'.root
  /\ UNCHANGED pc

DeleteDone == /\ pc = "delete" /\ ~ LacksBlack
              /\ tree' = Paint(tree, cur, "black")
              /\ pc' = "idle" /\ UNCHANGED cur

-----------------------------------------------------------------------------
Turn == \/ InsertRecolor \/ InsertRotate \/ InsertDone
        \/ DeleteRecolor \/ DeleteRotate \/ DeleteDone

Next == /\ Turn \/ \E node \in Nodes : Delete(node) \/ \E k \in Keys : Insert(node, k)
        /\ UNCHANGED insert

Spec == Init /\ [][Next]_vars

-----------------------------------------------------------------------------
(* Properties                                                              *)

\* Fields hold nodes, colors and keys, and the sentinel stays black between
\* the calls, as its comment demands.
TypeOK == /\ tree.root \in Cells
          /\ tree.key \in [Nodes -> Keys \cup {0}]
          /\ {tree.left, tree.right, tree.parent} \subseteq [Cells -> Cells \cup {Null}]
          /\ tree.color \in [Cells -> {"red", "black"}]
          /\ insert \in {"value", "timer"}
          /\ pc \in {"idle", "insert", "delete"}
          /\ cur \in Cells
          /\ Black(tree, Sentinel)

InOrder == LET io[x \in InTree \cup {Sentinel}] ==
                 IF x = Sentinel THEN <<>>
                 ELSE io[tree.left[x]] \o <<x>> \o io[tree.right[x]]
           IN io[tree.root]

\* The nodes the root leads to are those that were inserted and not deleted, and
\* each but the root is a child of its parent.  (The root's parent may be a node
\* deleted long ago; no function reads it.)
ParentsExact ==
  /\ Len(InOrder) = Cardinality(InTree)
  /\ \A x \in InTree \ {tree.root} :
        /\ tree.parent[x] \in InTree
        /\ x = tree[SideOf(tree, x)][tree.parent[x]]

\* The blacks on the paths from a node to its leaves; temp counts one more while
\* the delete loop makes up for the black node that is gone.
MissingAt(x, side) == /\ pc = "delete" /\ cur = tree[side][x]
                      /\ cur # tree.root /\ tree.parent[cur] = x /\ SideOf(tree, cur) = side
One(p) == IF p THEN 1 ELSE 0
Blacks ==
  LET blacks[x \in InTree \cup {Sentinel}] ==
        IF x = Sentinel THEN {1}
        ELSE UNION {{One(Black(tree, x)) + One(MissingAt(x, side)) + n :
                       n \in blacks[tree[side][x]]} : side \in {"left", "right"}}
  IN blacks[tree.root]

\* A red node has a red parent only at the node a loop is at: in the insert loop
\* that node is the child, in the delete loop it may be either.
RedsApart == \A x \in InTree \ {tree.root} :
               Red(tree, x) /\ Red(tree, tree.parent[x]) =>
                 \/ pc = "insert" /\ cur = x
                 \/ pc = "delete" /\ cur \in {x, tree.parent[x]}

\* ngx_rbtree_next, from ngx_rbtree_min on, goes through the nodes one by one,
\* their keys in order.
NextInOrder ==
  pc = "idle" /\ tree.root # Sentinel =>
    /\ Min(tree, tree.root) = InOrder[1]
    /\ \A i \in 1 .. Len(InOrder) :
         Successor(tree, InOrder[i]) = IF i = Len(InOrder) THEN Null ELSE InOrder[i + 1]
    /\ \A i \in 1 .. Len(InOrder) - 1 :
         ~ Earlier(insert, tree.key[InOrder[i + 1]], tree.key[InOrder[i]])

\* The parent pointers are right, and the tree is red-black between the calls, and
\* in the loops but for the node the loop is at; and it can be walked in order.
RedBlack == /\ TypeOK
            /\ ParentsExact
            /\ Cardinality(Blacks) = 1
            /\ RedsApart
            /\ pc = "idle" => Black(tree, tree.root)
            /\ NextInOrder

\* How deep a node is in the tree, or the leaf that the delete loop is at.
Depth(t, x) == LET depth[y \in In(t)] == IF y = t.root THEN 0 ELSE 1 + depth[t.parent[y]]
               IN IF x \in In(t) THEN depth[x] ELSE 1 + depth[t.parent[x]]

\* The loops end: every turn moves the node the loop is at towards the root, or
\* is the last one.
LoopsClimb ==
  [][/\ pc = "insert" /\ pc' = "insert" =>
          Depth(tree', cur') < Depth(tree, cur) \/ ~ RedParent'
     /\ pc = "delete" /\ pc' = "delete" =>
          Depth(tree', cur') < Depth(tree, cur) \/ ~ LacksBlack']_vars

\* The tree holds the inserted nodes in the order of their keys; nothing the loops
\* do changes it.
Queue == INSTANCE KeyQueue
           WITH Orders <- {"value", "timer"},
                Before <- Earlier,
                order <- insert,
                items <- [i \in 1 .. Len(InOrder) |->
                            [node |-> InOrder[i], key |-> tree.key[InOrder[i]]]]
ImplementsQueue == Queue!Spec
=============================================================================
