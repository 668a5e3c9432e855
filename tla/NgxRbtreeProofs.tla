--------------------------- MODULE NgxRbtreeProofs ---------------------------
(***************************************************************************)
(* The red-black tree of ngx_rbtree.c, for any nodes, keys and width.      *)
(*                                                                         *)
(* The nodes of a tree in order are numbered; the nodes under each node    *)
(* have the numbers from lo to hi.  So what a rotation, a new leaf or a    *)
(* deletion does to the tree is told node by node, without induction over  *)
(* the tree; only that the recursive functions of the model (InOrder,      *)
(* Blacks, Min, Successor, the descent of an insertion) compute what the   *)
(* numbers say is an induction, along the number of nodes under a node.    *)
(***************************************************************************)
EXTENDS NgxRbtree, FiniteSetTheorems, SequenceTheorems, WellFoundedInduction, TLAPS

\* The two child links, and all links.
Sides == {"left", "right"}
Links == {"left", "right", "parent"}

\* Trees as TypeOK has them.
Trees == [root : Cells, key : [Nodes -> Keys \cup {0}],
          left : [Cells -> Cells \cup {Null}], right : [Cells -> Cells \cup {Null}],
          parent : [Cells -> Cells \cup {Null}], color : [Cells -> {"red", "black"}]]

\* r is t with v in one link of x.
LinkSet(r, t, f, x, v) ==
  /\ r \in Trees /\ r.root = t.root /\ r.key = t.key /\ r.color = t.color
  /\ \A g \in Links, y \in Cells : r[g][y] = IF g = f /\ y = x THEN v ELSE t[g][y]

\* Set changes one link.
LEMMA SetLinks ==
  ASSUME NEW t \in Trees, NEW f \in Links, NEW x \in Cells, NEW v \in Cells \cup {Null}
  PROVE  LinkSet(Set(t, f, x, v), t, f, x, v)
  BY DEF Set, Trees, Links, LinkSet

\* The types of the fields of a tree.
LEMMA Fields ==
  ASSUME NEW t \in Trees
  PROVE  /\ t.root \in Cells
         /\ \A f \in Links : t[f] \in [Cells -> Cells \cup {Null}]
         /\ t["left"] = t.left /\ t["right"] = t.right /\ t["parent"] = t.parent
         /\ t.color \in [Cells -> {"red", "black"}] /\ t.key \in [Nodes -> Keys \cup {0}]
         /\ In(t) \subseteq Nodes
  BY DEF Trees, Links, In

\* Sides are links, and each is opposite to the other.
LEMMA SideFacts ==
  /\ Sides \subseteq Links /\ "parent" \in Links /\ "parent" \notin Sides
  /\ Opposite("left") = "right" /\ Opposite("right") = "left"
  /\ \A s \in Sides : Opposite(s) \in Sides /\ Opposite(s) # s /\ Opposite(Opposite(s)) = s
  BY DEF Sides, Links, Opposite

\* r is t after a rotation.
Rotated(r, t, node, side) ==
  LET p == t.parent[node]
      temp == t[Opposite(side)][node]
      inner == t[side][temp]
  IN  /\ r \in Trees /\ r.key = t.key /\ r.color = t.color
      /\ r.root = IF node = t.root THEN temp ELSE t.root
      /\ \A x \in Cells :
            r.parent[x] = IF x = node THEN temp ELSE IF x = temp THEN p
                          ELSE IF x = inner /\ inner # Sentinel THEN node
                          ELSE t.parent[x]
      /\ \A s \in Sides, x \in Cells :
            r[s][x] = IF x = temp /\ s = side THEN node
                      ELSE IF x = node /\ s = Opposite(side) THEN inner
                      ELSE IF node # t.root /\ x = p /\ s = SideOf(t, node) THEN temp
                      ELSE t[s][x]

\* What a rotation does to the links.
LEMMA RotateFields ==
  ASSUME NEW t \in Trees, NEW node \in Cells, NEW side \in Sides, NEW temp \in Cells,
         NEW inner \in Cells,
         temp = t[Opposite(side)][node], inner = t[side][temp],
         node # temp, inner # node, inner # temp,
         node # t.root => /\ t.parent[node] \in Cells /\ t.parent[node] # node
                          /\ t.parent[node] # temp
  PROVE  Rotated(Rotate(t, node, side), t, node, side)
  <1> DEFINE p == t.parent[node]
             o == Opposite(side)
             t1 == Set(t, o, node, inner)
             t2 == IF inner # Sentinel THEN Set(t1, "parent", inner, node) ELSE t1
             t3 == Set(t2, "parent", temp, p)
             t4 == Relink(t3, node, temp)
             t5 == Set(t4, side, temp, node)
             r == Set(t5, "parent", node, temp)
  <1>0. Rotate(t, node, side) = r
    BY DEF Rotate
  <1>1. /\ o \in Links /\ side \in Links /\ o \in Sides /\ "parent" \in Links /\ o # side
        /\ o # "parent" /\ side # "parent"
    BY SideFacts
  <1>2. p \in Cells \cup {Null} /\ temp \in Cells \cup {Null} /\ inner \in Cells \cup {Null}
    BY <1>1, Fields
  <1> HIDE DEF o, p
  <1>3. /\ t1 \in Trees /\ t1.root = t.root /\ t1.key = t.key /\ t1.color = t.color
        /\ \A g \in Links, y \in Cells :
               t1[g][y] = IF g = o /\ y = node THEN inner ELSE t[g][y]
    <2>1. LinkSet(t1, t, o, node, inner)
      BY <1>1, <1>2, SetLinks
    <2> HIDE DEF t1
    <2> QED
      BY <2>1 DEF LinkSet
  <1> HIDE DEF t1
  <1>4. /\ t2 \in Trees /\ t2.root = t.root /\ t2.key = t.key /\ t2.color = t.color
        /\ \A g \in Links, y \in Cells :
               t2[g][y] = IF g = "parent" /\ y = inner /\ inner # Sentinel THEN node
                          ELSE t1[g][y]
    <2>1. CASE inner # Sentinel
      <3>1. t2 = Set(t1, "parent", inner, node) /\ node \in Cells \cup {Null}
        BY <2>1
      <3>2. LinkSet(t2, t1, "parent", inner, node)
        BY <1>1, <1>3, <3>1, SetLinks
      <3> HIDE DEF t2
      <3> QED
        BY <1>3, <2>1, <3>2 DEF LinkSet
    <2>2. CASE inner = Sentinel
      BY <1>3, <2>2
    <2> QED
      BY <2>1, <2>2
  <1> HIDE DEF t2
  <1>5. /\ t3 \in Trees /\ t3.root = t.root /\ t3.key = t.key /\ t3.color = t.color
        /\ \A g \in Links, y \in Cells :
               t3[g][y] = IF g = "parent" /\ y = temp THEN p ELSE t2[g][y]
    <2>1. LinkSet(t3, t2, "parent", temp, p)
      BY <1>1, <1>2, <1>4, SetLinks
    <2> HIDE DEF t3
    <2> QED
      BY <1>4, <2>1 DEF LinkSet
  <1> HIDE DEF t3
  <1>6. /\ t4 \in Trees /\ t4.key = t.key /\ t4.color = t.color
        /\ t4.root = IF node = t.root THEN temp ELSE t.root
        /\ \A g \in Links, y \in Cells :
               t4[g][y] = IF node # t.root /\ g = SideOf(t, node) /\ y = p THEN temp
                          ELSE t3[g][y]
    <2>1. CASE node = t.root
      <3>1. t4 = [t3 EXCEPT !.root = temp]
        BY <1>5, <2>1 DEF Relink
      <3> QED
        BY <1>5, <2>1, <3>1 DEF Trees, Links
    <2>2. CASE node # t.root
      <3>1. t3.parent[node] = p
        <4>1. t3["parent"][node] = t["parent"][node]
          BY <1>1, <1>3, <1>4, <1>5
        <4> QED
          BY <1>5, <4>1, Fields DEF p
      <3>2. p \in Cells /\ p # node /\ p # temp
        BY <2>2 DEF p
      <3>3. t3.left[p] = t.left[p]
        <4>1. t3["left"][p] = t["left"][p]
          BY <1>1, <1>3, <1>4, <1>5, <3>2, SideFacts DEF Sides
        <4> QED
          BY <1>5, <4>1, Fields
      <3>4. SideOf(t3, node) = SideOf(t, node)
        BY <3>1, <3>3 DEF SideOf, p
      <3>5. SideOf(t, node) \in Links
        BY SideFacts DEF SideOf, Sides
      <3>6. t4 = Set(t3, SideOf(t, node), p, temp)
        BY <1>5, <2>2, <3>1, <3>4 DEF Relink
      <3>7. LinkSet(t4, t3, SideOf(t, node), p, temp)
        BY <1>2, <1>5, <3>2, <3>5, <3>6, SetLinks
      <3> HIDE DEF t4
      <3> QED
        BY <1>5, <2>2, <3>7 DEF LinkSet
    <2> QED
      BY <2>1, <2>2
  <1> HIDE DEF t4
  <1>7. /\ t5 \in Trees /\ t5.root = t4.root /\ t5.key = t.key /\ t5.color = t.color
        /\ \A g \in Links, y \in Cells :
               t5[g][y] = IF g = side /\ y = temp THEN node ELSE t4[g][y]
    <2>1. LinkSet(t5, t4, side, temp, node)
      BY <1>1, <1>6, SetLinks
    <2> HIDE DEF t5
    <2> QED
      BY <1>6, <2>1 DEF LinkSet
  <1> HIDE DEF t5
  <1>8. /\ r \in Trees /\ r.root = t4.root /\ r.key = t.key /\ r.color = t.color
        /\ \A g \in Links, y \in Cells :
               r[g][y] = IF g = "parent" /\ y = node THEN temp ELSE t5[g][y]
    <2>1. LinkSet(r, t5, "parent", node, temp)
      BY <1>1, <1>2, <1>7, SetLinks
    <2> HIDE DEF r
    <2> QED
      BY <1>7, <2>1 DEF LinkSet
  <1> HIDE DEF r
  <1>9. /\ r["parent"] = r.parent /\ t["parent"] = t.parent
    BY <1>8, Fields
  <1>10. ASSUME NEW x \in Cells
         PROVE  r.parent[x] = IF x = node THEN temp ELSE IF x = temp THEN p
                              ELSE IF x = inner /\ inner # Sentinel THEN node
                              ELSE t.parent[x]
    <2>1. SideOf(t, node) # "parent"
      BY DEF SideOf
    <2> QED
      BY <1>1, <1>3, <1>4, <1>5, <1>6, <1>7, <1>8, <1>9, <2>1
  <1>11. ASSUME NEW s \in Sides, NEW x \in Cells
         PROVE  r[s][x] = IF x = temp /\ s = side THEN node
                          ELSE IF x = node /\ s = o THEN inner
                          ELSE IF node # t.root /\ x = p /\ s = SideOf(t, node) THEN temp
                          ELSE t[s][x]
    <2>1. s \in Links /\ s # "parent"
      BY SideFacts
    <2>2. node # t.root => p # node
      BY DEF p
    <2> QED
      BY <1>1, <1>3, <1>4, <1>5, <1>6, <1>7, <1>8, <2>1, <2>2
  <1> QED
    BY <1>0, <1>6, <1>8, <1>10, <1>11 DEF o, p, Rotated

\* The nodes are numbered.
Numbered(t, n, pos) ==
  /\ n \in Nat
  /\ pos \in [In(t) -> 1 .. n]
  /\ \A x, y \in In(t) : pos[x] = pos[y] => x = y
  /\ \A i \in 1 .. n : \E x \in In(t) : pos[x] = i

\* The nodes on the left of x end just before it.
LeftSpan(t, pos, lo, hi, x) ==
  IF t.left[x] = Sentinel THEN lo[x] = pos[x]
  ELSE /\ t.left[x] \in In(t) /\ t.parent[t.left[x]] = x
       /\ lo[t.left[x]] = lo[x] /\ hi[t.left[x]] = pos[x] - 1

\* Those on its right begin just after it.
RightSpan(t, pos, lo, hi, x) ==
  IF t.right[x] = Sentinel THEN hi[x] = pos[x]
  ELSE /\ t.right[x] \in In(t) /\ t.parent[t.right[x]] = x
       /\ lo[t.right[x]] = pos[x] + 1 /\ hi[t.right[x]] = hi[x]

\* All nodes are under the root.
RootSpan(t, n, lo, hi) ==
  IF t.root = Sentinel THEN n = 0
  ELSE t.root \in In(t) /\ lo[t.root] = 1 /\ hi[t.root] = n

\* A node is among the nodes under it.
Bounded(S, n, pos, lo, hi) ==
  /\ lo \in [S -> 1 .. n] /\ hi \in [S -> 1 .. n]
  /\ \A x \in S : lo[x] <= pos[x] /\ pos[x] <= hi[x]

\* The nodes under x are those from lo[x] to hi[x], those on its left before it.
Spans(t, n, pos, lo, hi) ==
  /\ Bounded(In(t), n, pos, lo, hi)
  /\ \A x \in In(t) : LeftSpan(t, pos, lo, hi, x) /\ RightSpan(t, pos, lo, hi, x)
  /\ RootSpan(t, n, lo, hi)

\* Each node but the root is a child of its parent.
Parents(t) ==
  \A x \in In(t) : x # t.root =>
     /\ t.parent[x] \in In(t)
     /\ x = t.left[t.parent[x]] \/ x = t.right[t.parent[x]]

\* A tree in order, with the nodes under each node.
Shape(t, n, pos, lo, hi) ==
  /\ t \in Trees /\ Numbered(t, n, pos) /\ Spans(t, n, pos, lo, hi) /\ Parents(t)

\* Who is whose child.
Family(t) ==
  /\ \A x \in In(t) : x \in Cells /\ x # Sentinel
  /\ \A x \in In(t), s \in Sides :
        /\ t[s][x] \in Cells /\ t[s][x] # x /\ t[s][x] # Null
        /\ t[s][x] # Sentinel =>
              /\ t[s][x] \in In(t) /\ t.parent[t[s][x]] = x
              /\ SideOf(t, t[s][x]) = s /\ t[s][x] # t.root
              /\ t[Opposite(s)][x] # t[s][x]
              /\ \A s2 \in Sides : t[s2][t[s][x]] # x
  /\ \A x \in In(t) : x # t.root =>
        /\ t.parent[x] \in In(t) /\ SideOf(t, x) \in Sides /\ t.parent[x] # x
        /\ t[SideOf(t, x)][t.parent[x]] = x
        /\ \A s \in Sides : t.parent[x] # t[s][x]

\* The spans separate parents, children and siblings.
LEMMA ShapeFamily ==
  ASSUME NEW t, NEW n, NEW pos, NEW lo, NEW hi, Shape(t, n, pos, lo, hi)
  PROVE  Family(t)
  <1> DEFINE S == In(t)
  <1>1. /\ t \in Trees /\ n \in Nat /\ S \subseteq Nodes
        /\ t["left"] = t.left /\ t["right"] = t.right
        /\ Sentinel \notin S /\ Null \notin S /\ S \subseteq Cells /\ Sentinel \in Cells
        /\ Null \notin Cells
    BY Fields, CellsAssumption DEF Shape, Numbered, Cells
  <1>2. /\ \A x \in S : pos[x] \in Nat /\ lo[x] \in Nat /\ hi[x] \in Nat
        /\ \A x \in S : lo[x] <= pos[x] /\ pos[x] <= hi[x] /\ 1 <= lo[x] /\ hi[x] <= n
    BY <1>1 DEF Shape, Numbered, Spans, Bounded
  <1>3. \A x \in S : LeftSpan(t, pos, lo, hi, x) /\ RightSpan(t, pos, lo, hi, x)
    BY DEF Shape, Spans
  <1>4. t.root \in S => lo[t.root] = 1 /\ hi[t.root] = n
    BY <1>1 DEF Shape, Spans, RootSpan
  <1>5. \A x \in S : x # t.root =>
           t.parent[x] \in S /\ (x = t.left[t.parent[x]] \/ x = t.right[t.parent[x]])
    BY DEF Shape, Parents
  <1> HIDE DEF S
  <1>6. ASSUME NEW x \in S, t.left[x] # Sentinel
        PROVE  /\ t.left[x] \in S /\ t.parent[t.left[x]] = x /\ t.left[x] # x
               /\ t.left[x] # t.root /\ t.left[x] # t.right[x]
               /\ t.left[t.left[x]] # x /\ t.right[t.left[x]] # x
    BY <1>1, <1>2, <1>3, <1>4, <1>6 DEF LeftSpan, RightSpan, S
  <1>7. ASSUME NEW x \in S, t.right[x] # Sentinel
        PROVE  /\ t.right[x] \in S /\ t.parent[t.right[x]] = x /\ t.right[x] # x
               /\ t.right[x] # t.root /\ t.left[x] # t.right[x]
               /\ t.left[t.right[x]] # x /\ t.right[t.right[x]] # x
    BY <1>1, <1>2, <1>3, <1>4, <1>7 DEF LeftSpan, RightSpan, S
  <1>8. ASSUME NEW x \in S, NEW s \in Sides
        PROVE  /\ t[s][x] \in Cells /\ t[s][x] # x /\ t[s][x] # Null
               /\ t[s][x] # Sentinel =>
                    /\ t[s][x] \in S /\ t.parent[t[s][x]] = x
                    /\ SideOf(t, t[s][x]) = s /\ t[s][x] # t.root
                    /\ t[Opposite(s)][x] # t[s][x]
                    /\ \A s2 \in Sides : t[s2][t[s][x]] # x
    <2>1. CASE s = "left"
      BY <1>1, <1>6, <2>1 DEF SideOf, Opposite, Sides
    <2>2. CASE s = "right"
      BY <1>1, <1>7, <2>2 DEF SideOf, Opposite, Sides
    <2> QED
      BY <2>1, <2>2 DEF Sides
  <1>9. ASSUME NEW x \in S, x # t.root
        PROVE  /\ t.parent[x] \in S /\ SideOf(t, x) \in Sides /\ t.parent[x] # x
               /\ t[SideOf(t, x)][t.parent[x]] = x
               /\ \A s \in Sides : t.parent[x] # t[s][x]
    <2>1. CASE x = t.left[t.parent[x]]
      BY <1>1, <1>5, <1>6, <1>9, <2>1 DEF SideOf, Sides
    <2>2. CASE x # t.left[t.parent[x]]
      BY <1>1, <1>5, <1>7, <1>9, <2>2 DEF SideOf, Sides
    <2> QED
      BY <2>1, <2>2
  <1> QED
    BY <1>1, <1>8, <1>9 DEF Family, S

\* A rotation keeps the nodes.
LEMMA RotateIn ==
  ASSUME NEW t \in Trees, Family(t), NEW node \in In(t), NEW side \in Sides,
         t[Opposite(side)][node] # Sentinel
  PROVE  /\ Rotated(Rotate(t, node, side), t, node, side)
         /\ In(Rotate(t, node, side)) = In(t)
  <1> DEFINE r == Rotate(t, node, side)
             temp == t[Opposite(side)][node]
             inner == t[side][temp]
  <1>1. Opposite(side) \in Sides /\ Opposite(side) # side /\ Opposite(Opposite(side)) = side
    BY SideFacts
  <1>2. /\ temp \in In(t) /\ temp \in Cells /\ node \in Cells /\ temp # node
        /\ t.parent[temp] = node /\ temp # t.root
    BY <1>1 DEF Family
  <1>3. /\ inner \in Cells /\ inner # temp /\ inner # node /\ inner # Null
    <2>1. inner \in Cells /\ inner # temp /\ inner # Null
      BY <1>1, <1>2 DEF Family
    <2>2. inner # node
      BY <1>1, <1>2 DEF Family
    <2> QED
      BY <2>1, <2>2
  <1>4. node # t.root => /\ t.parent[node] \in In(t) /\ t.parent[node] \in Cells
                         /\ t.parent[node] # node /\ t.parent[node] # temp
    BY <1>1, <1>2 DEF Family
  <1>5. Rotated(r, t, node, side)
    BY <1>1, <1>2, <1>3, <1>4, RotateFields
  <1>6. /\ r \in Trees /\ r["left"] = r.left /\ t["left"] = t.left /\ "left" \in Sides
        /\ Nodes \subseteq Cells /\ Null \notin Cells
    <2>1. r \in Trees
      BY <1>5 DEF Rotated
    <2> HIDE DEF r
    <2> QED
      BY <2>1, Fields, CellsAssumption DEF Sides, Cells
  <1> HIDE DEF r
  <1>7. ASSUME NEW x \in Nodes PROVE r.left[x] # Null <=> t.left[x] # Null
    <2>1. x \in Cells
      BY <1>6
    <2>2. r["left"][x] = IF x = temp /\ "left" = side THEN node
                         ELSE IF x = node /\ "left" = Opposite(side) THEN inner
                         ELSE IF node # t.root /\ x = t.parent[node] /\ "left" = SideOf(t, node)
                              THEN temp
                         ELSE t["left"][x]
      BY <1>5, <1>6, <2>1 DEF Rotated
    <2>3. \A y \in In(t) : t.left[y] # Null
      BY DEF In
    <2> QED
      BY <1>2, <1>3, <1>4, <1>6, <2>2, <2>3
  <1>8. In(r) = In(t)
    BY <1>7 DEF In
  <1> QED
    BY <1>5, <1>8 DEF r

\* The new end of the turned nodes.
LEMMA RotateLeftShape ==
  ASSUME NEW t, NEW n, NEW pos, NEW lo, NEW hi, Shape(t, n, pos, lo, hi),
         NEW node \in In(t), NEW r, Rotated(r, t, node, "left"), In(r) = In(t),
         t.right[node] # Sentinel
  PROVE  \E l2, h2 : Shape(r, n, pos, l2, h2)
  <1> DEFINE S == In(t)
             temp == t.right[node]
             inner == t.left[temp]
             p == t.parent[node]
             l2 == [x \in S |-> IF x = temp THEN lo[node] ELSE lo[x]]
             h2 == [x \in S |-> IF x = node THEN pos[temp] - 1 ELSE hi[x]]
  <1>1. /\ t \in Trees /\ r \in Trees /\ n \in Nat /\ S \subseteq Nodes
        /\ t["left"] = t.left /\ t["right"] = t.right
        /\ r["left"] = r.left /\ r["right"] = r.right
        /\ Sentinel \notin S /\ Null \notin S /\ S \subseteq Cells /\ Sentinel \in Cells
        /\ Null \notin Cells
    BY Fields, CellsAssumption DEF Shape, Numbered, Cells, Rotated
  <1>2. /\ \A x \in S : pos[x] \in Nat /\ lo[x] \in Nat /\ hi[x] \in Nat
        /\ \A x \in S : lo[x] <= pos[x] /\ pos[x] <= hi[x] /\ 1 <= lo[x] /\ hi[x] <= n
    BY <1>1 DEF Shape, Numbered, Spans, Bounded
  <1>3. \A x \in S : LeftSpan(t, pos, lo, hi, x) /\ RightSpan(t, pos, lo, hi, x)
    BY DEF Shape, Spans
  <1>4. Family(t) /\ "left" \in Sides /\ "right" \in Sides
    BY ShapeFamily DEF Sides
  <1>5. /\ temp \in S /\ temp # node /\ t.parent[temp] = node /\ temp # t.root
        /\ t.left[node] # temp
        /\ lo[temp] = pos[node] + 1 /\ hi[temp] = hi[node]
    <2>1. /\ temp \in S /\ temp # node /\ t.parent[temp] = node /\ temp # t.root
          /\ t.left[node] # temp
      BY <1>1, <1>4, SideFacts DEF Family
    <2>2. RightSpan(t, pos, lo, hi, node)
      BY <1>3
    <2> QED
      BY <2>1, <2>2 DEF RightSpan
  <1>6. /\ inner # node /\ inner # temp
        /\ inner # Sentinel => inner \in S /\ inner # t.root /\ t.parent[inner] = temp
                               /\ lo[inner] = lo[temp] /\ hi[inner] = pos[temp] - 1
        /\ inner = Sentinel => lo[temp] = pos[temp]
    <2>1. LeftSpan(t, pos, lo, hi, temp)
      BY <1>3, <1>5
    <2>2. /\ inner # temp
          /\ inner # Sentinel => inner \in S /\ inner # t.root /\ t.parent[inner] = temp
      BY <1>1, <1>4, <1>5 DEF Family
    <2>3. inner # node
      BY <1>1, <1>4, <1>5 DEF Family
    <2> QED
      BY <2>1, <2>2, <2>3 DEF LeftSpan
  <1>7. /\ r.root = IF node = t.root THEN temp ELSE t.root
        /\ \A x \in S : r.parent[x] = IF x = node THEN temp ELSE IF x = temp THEN p
                                      ELSE IF x = inner THEN node ELSE t.parent[x]
        /\ \A x \in S : r.left[x] =
               IF x = temp THEN node
               ELSE IF node # t.root /\ x = p /\ SideOf(t, node) = "left" THEN temp
               ELSE t.left[x]
        /\ \A x \in S : r.right[x] =
               IF x = node THEN inner
               ELSE IF node # t.root /\ x = p /\ SideOf(t, node) = "right" THEN temp
               ELSE t.right[x]
    <2>1. Opposite("left") = "right" /\ t["right"] = t.right /\ t["left"] = t.left
      BY <1>1, SideFacts
    <2>2. /\ r.root = IF node = t.root THEN temp ELSE t.root
          /\ \A x \in S : r.parent[x] = IF x = node THEN temp ELSE IF x = temp THEN p
                                        ELSE IF x = inner THEN node ELSE t.parent[x]
      BY <1>1, <2>1 DEF Rotated
    <2>3. \A s \in Sides, x \in Cells :
              r[s][x] = IF x = temp /\ s = "left" THEN node
                        ELSE IF x = node /\ s = "right" THEN inner
                        ELSE IF node # t.root /\ x = p /\ s = SideOf(t, node) THEN temp
                        ELSE t[s][x]
      BY <2>1 DEF Rotated
    <2>4. \A x \in S : r.left[x] =
               IF x = temp THEN node
               ELSE IF node # t.root /\ x = p /\ SideOf(t, node) = "left" THEN temp
               ELSE t.left[x]
      BY <1>1, <1>4, <2>3
    <2>5. \A x \in S : r.right[x] =
               IF x = node THEN inner
               ELSE IF node # t.root /\ x = p /\ SideOf(t, node) = "right" THEN temp
               ELSE t.right[x]
      BY <1>1, <1>4, <2>3
    <2> QED
      BY <2>2, <2>4, <2>5
  <1>8. \A x \in S : x # t.root =>
           t.parent[x] \in S /\ (x = t.left[t.parent[x]] \/ x = t.right[t.parent[x]])
    BY DEF Shape, Parents
  <1>9. node # t.root => /\ p \in S /\ p # node /\ p # temp /\ p # inner
                         /\ SideOf(t, node) \in Sides /\ t[SideOf(t, node)][p] = node
    <2> SUFFICES ASSUME node # t.root
                 PROVE  /\ p \in S /\ p # node /\ p # temp /\ p # inner
                        /\ SideOf(t, node) \in Sides /\ t[SideOf(t, node)][p] = node
      OBVIOUS
    <2>1. /\ p \in S /\ p # node /\ p # temp
          /\ SideOf(t, node) \in Sides /\ t[SideOf(t, node)][p] = node
      BY <1>1, <1>4 DEF Family
    <2>2. ASSUME p = inner PROVE FALSE
      <3>1. lo[inner] = lo[temp] /\ hi[inner] = pos[temp] - 1 /\ inner \in S
        BY <1>6, <2>1, <2>2, <1>1
      <3>2. t.left[p] = node \/ t.right[p] = node
        BY <1>1, <2>1 DEF Sides
      <3>3. LeftSpan(t, pos, lo, hi, p) /\ RightSpan(t, pos, lo, hi, p)
        BY <1>3, <2>1
      <3>4. lo[p] <= lo[node] /\ node # Sentinel
        BY <1>1, <1>2, <2>1, <3>2, <3>3 DEF LeftSpan, RightSpan
      <3>5. lo[node] <= pos[node]
        BY <1>2
      <3> QED
        BY <1>2, <1>5, <2>1, <2>2, <3>1, <3>4, <3>5
    <2> QED
      BY <2>1, <2>2
  <1> HIDE DEF S, temp, inner, p
  <1>10. Bounded(S, n, pos, l2, h2)
    <2>1. pos[temp] - 1 \in 1 .. n /\ lo[node] \in 1 .. n
      BY <1>1, <1>2, <1>5 DEF S
    <2>2. l2 \in [S -> 1 .. n] /\ h2 \in [S -> 1 .. n]
      BY <1>1, <1>2, <2>1
    <2>3. \A x \in S : l2[x] <= pos[x] /\ pos[x] <= h2[x]
      BY <1>1, <1>2, <1>5 DEF S
    <2> QED
      BY <2>2, <2>3 DEF Bounded
  <1>11. /\ \A x \in S : l2[x] = IF x = temp THEN lo[node] ELSE lo[x]
         /\ \A x \in S : h2[x] = IF x = node THEN pos[temp] - 1 ELSE hi[x]
    OBVIOUS
  <1> HIDE DEF l2, h2
  <1>12. ASSUME NEW x \in S PROVE LeftSpan(r, pos, l2, h2, x)
    <2>1. LeftSpan(t, pos, lo, hi, x) /\ node \in S /\ (node # t.root => p \in S)
      BY <1>3, <1>9 DEF S
    <2>2. CASE x = temp
      BY <1>1, <1>5, <1>7, <1>11, <2>1, <2>2 DEF LeftSpan, S
    <2>3. CASE x # temp /\ node # t.root /\ x = p /\ SideOf(t, node) = "left"
      BY <1>1, <1>5, <1>7, <1>9, <1>11, <2>1, <2>3 DEF LeftSpan, S
    <2>4. CASE x # temp /\ ~ (node # t.root /\ x = p /\ SideOf(t, node) = "left")
      <3>1. r.left[x] = t.left[x]
        BY <1>7, <2>4
      <3>2. t.left[x] # Sentinel => t.left[x] \in S /\ t.parent[t.left[x]] = x
        BY <2>1 DEF LeftSpan, S
      <3>3. t.left[x] # Sentinel => t.left[x] # temp /\ t.left[x] # inner
        BY <1>1, <1>5, <1>6, <2>4, <3>2
      <3>4. t.left[x] # Sentinel => t.left[x] # node
        <4>1. ASSUME t.left[x] = node PROVE FALSE
          <5>1. node # t.root /\ SideOf(t, node) = "left" /\ t.parent[node] = x
            BY <1>1, <1>4, <4>1 DEF Family, S
          <5> QED
            BY <2>4, <5>1 DEF p
        <4> QED
          BY <4>1
      <3> QED
        BY <1>1, <1>7, <1>11, <2>1, <2>4, <3>1, <3>2, <3>3, <3>4 DEF LeftSpan, S
    <2> QED
      BY <2>2, <2>3, <2>4
  <1>13. ASSUME NEW x \in S PROVE RightSpan(r, pos, l2, h2, x)
    <2>1. RightSpan(t, pos, lo, hi, x) /\ node \in S /\ (node # t.root => p \in S)
      BY <1>3, <1>9 DEF S
    <2>2. CASE x = node
      <3>1. r.right[x] = inner /\ h2[x] = pos[temp] - 1 /\ node # temp
        BY <1>5, <1>7, <1>11, <2>1, <2>2
      <3>2. CASE inner = Sentinel
        BY <1>2, <1>5, <1>6, <2>1, <2>2, <3>1, <3>2 DEF RightSpan
      <3>3. CASE inner # Sentinel
        <4>1. inner \in S /\ lo[inner] = pos[node] + 1 /\ hi[inner] = pos[temp] - 1
          BY <1>5, <1>6, <3>3
        <4>2. r.parent[inner] = node /\ l2[inner] = lo[inner] /\ h2[inner] = hi[inner]
          BY <1>6, <1>7, <1>11, <4>1
        <4> QED
          BY <1>11, <2>2, <3>1, <3>3, <4>1, <4>2 DEF RightSpan, S
      <3> QED
        BY <3>2, <3>3
    <2>3. CASE x # node /\ node # t.root /\ x = p /\ SideOf(t, node) = "right"
      BY <1>1, <1>5, <1>7, <1>9, <1>11, <2>1, <2>3 DEF RightSpan, S
    <2>4. CASE x # node /\ ~ (node # t.root /\ x = p /\ SideOf(t, node) = "right")
      <3>1. r.right[x] = t.right[x]
        BY <1>7, <2>4
      <3>2. t.right[x] # Sentinel => t.right[x] \in S /\ t.parent[t.right[x]] = x
        BY <2>1 DEF RightSpan, S
      <3>3. t.right[x] # Sentinel => t.right[x] # temp /\ t.right[x] # inner
        <4>1. t.right[x] # Sentinel => t.right[x] # temp
          BY <1>5, <2>4, <3>2
        <4>2. ASSUME t.right[x] = inner, inner # Sentinel PROVE FALSE
          <5>1. x = temp
            BY <1>6, <3>2, <4>2
          <5>2. t.left[temp] # Sentinel /\ t.right[temp] # t.left[temp]
            BY <1>1, <1>4, <1>5, <4>2, SideFacts DEF Family, S, inner
          <5> QED
            BY <4>2, <5>1, <5>2 DEF inner
        <4> QED
          BY <4>1, <4>2
      <3>4. t.right[x] # Sentinel => t.right[x] # node
        <4>1. ASSUME t.right[x] = node PROVE FALSE
          <5>1. node # t.root /\ SideOf(t, node) = "right" /\ t.parent[node] = x
            BY <1>1, <1>4, <4>1 DEF Family, S
          <5> QED
            BY <2>4, <5>1 DEF p
        <4> QED
          BY <4>1
      <3> QED
        BY <1>1, <1>7, <1>11, <2>1, <2>4, <3>1, <3>2, <3>3, <3>4 DEF RightSpan, S
    <2> QED
      BY <2>2, <2>3, <2>4
  <1>14. RootSpan(r, n, l2, h2)
    <2>1. RootSpan(t, n, lo, hi) /\ node \in S
      BY DEF Shape, Spans, S
    <2>2. t.root # Sentinel
      BY <1>1, <2>1 DEF RootSpan, Shape, Numbered, S
    <2> QED
      BY <1>1, <1>5, <1>7, <1>11, <2>1, <2>2 DEF RootSpan, S
  <1>15. Parents(r)
    <2> SUFFICES ASSUME NEW x \in S, x # r.root
                 PROVE  /\ r.parent[x] \in S
                        /\ x = r.left[r.parent[x]] \/ x = r.right[r.parent[x]]
      BY DEF Parents, S
    <2>1. node \in S /\ temp \in S
      BY <1>5 DEF S
    <2>2. CASE x = node
      BY <1>7, <2>1, <2>2
    <2>3. CASE x = temp
      <3>1. node # t.root /\ p \in S /\ r.parent[x] = p
        BY <1>5, <1>7, <1>9, <2>3
      <3>2. SideOf(t, node) = "left" \/ SideOf(t, node) = "right"
        BY <1>9, <3>1 DEF Sides
      <3> QED
        BY <1>7, <1>9, <2>3, <3>1, <3>2
    <2>4. CASE x = inner
      BY <1>6, <1>7, <2>1, <2>4
    <2>5. CASE x \notin {node, temp, inner}
      <3>1. r.parent[x] = t.parent[x] /\ x # t.root
        BY <1>7, <2>5
      <3>2. t.parent[x] \in S /\ (x = t.left[t.parent[x]] \/ x = t.right[t.parent[x]])
        BY <1>8, <3>1
      <3>3. CASE x = t.left[t.parent[x]]
        <4>1. t.parent[x] # temp
          BY <2>5, <3>3 DEF inner
        <4>2. ~ (node # t.root /\ t.parent[x] = p /\ SideOf(t, node) = "left")
          BY <1>1, <1>9, <2>5, <3>3
        <4>3. r.left[t.parent[x]] = t.left[t.parent[x]]
          BY <1>7, <3>2, <4>1, <4>2
        <4> QED
          BY <3>1, <3>2, <3>3, <4>3
      <3>4. CASE x = t.right[t.parent[x]]
        <4>1. t.parent[x] # node
          BY <2>5, <3>4 DEF temp
        <4>2. ~ (node # t.root /\ t.parent[x] = p /\ SideOf(t, node) = "right")
          BY <1>1, <1>9, <2>5, <3>4
        <4>3. r.right[t.parent[x]] = t.right[t.parent[x]]
          BY <1>7, <3>2, <4>1, <4>2
        <4> QED
          BY <3>1, <3>2, <3>4, <4>3
      <3> QED
        BY <3>2, <3>3, <3>4
    <2> QED
      BY <2>2, <2>3, <2>4, <2>5
  <1>16. Numbered(r, n, pos)
    BY DEF Shape, Numbered
  <1> QED
    BY <1>1, <1>10, <1>12, <1>13, <1>14, <1>15, <1>16 DEF Shape, Spans, S

\* The same, to the other side.
LEMMA RotateRightShape ==
  ASSUME NEW t, NEW n, NEW pos, NEW lo, NEW hi, Shape(t, n, pos, lo, hi),
         NEW node \in In(t), NEW r, Rotated(r, t, node, "right"), In(r) = In(t),
         t.left[node] # Sentinel
  PROVE  \E l2, h2 : Shape(r, n, pos, l2, h2)
  <1> DEFINE S == In(t)
             temp == t.left[node]
             inner == t.right[temp]
             p == t.parent[node]
             h2 == [x \in S |-> IF x = temp THEN hi[node] ELSE hi[x]]
             l2 == [x \in S |-> IF x = node THEN pos[temp] + 1 ELSE lo[x]]
  <1>1. /\ t \in Trees /\ r \in Trees /\ n \in Nat /\ S \subseteq Nodes
        /\ t["right"] = t.right /\ t["left"] = t.left
        /\ r["right"] = r.right /\ r["left"] = r.left
        /\ Sentinel \notin S /\ Null \notin S /\ S \subseteq Cells /\ Sentinel \in Cells
        /\ Null \notin Cells
    BY Fields, CellsAssumption DEF Shape, Numbered, Cells, Rotated
  <1>2. /\ \A x \in S : pos[x] \in Nat /\ hi[x] \in Nat /\ lo[x] \in Nat
        /\ \A x \in S : lo[x] <= pos[x] /\ pos[x] <= hi[x] /\ 1 <= lo[x] /\ hi[x] <= n
    BY <1>1 DEF Shape, Numbered, Spans, Bounded
  <1>3. \A x \in S : RightSpan(t, pos, lo, hi, x) /\ LeftSpan(t, pos, lo, hi, x)
    BY DEF Shape, Spans
  <1>4. Family(t) /\ "right" \in Sides /\ "left" \in Sides
    BY ShapeFamily DEF Sides
  <1>5. /\ temp \in S /\ temp # node /\ t.parent[temp] = node /\ temp # t.root
        /\ t.right[node] # temp
        /\ hi[temp] = pos[node] - 1 /\ lo[temp] = lo[node]
    <2>1. /\ temp \in S /\ temp # node /\ t.parent[temp] = node /\ temp # t.root
          /\ t.right[node] # temp
      BY <1>1, <1>4, SideFacts DEF Family
    <2>2. LeftSpan(t, pos, lo, hi, node)
      BY <1>3
    <2> QED
      BY <2>1, <2>2 DEF LeftSpan
  <1>6. /\ inner # node /\ inner # temp
        /\ inner # Sentinel => inner \in S /\ inner # t.root /\ t.parent[inner] = temp
                               /\ hi[inner] = hi[temp] /\ lo[inner] = pos[temp] + 1
        /\ inner = Sentinel => hi[temp] = pos[temp]
    <2>1. RightSpan(t, pos, lo, hi, temp)
      BY <1>3, <1>5
    <2>2. /\ inner # temp
          /\ inner # Sentinel => inner \in S /\ inner # t.root /\ t.parent[inner] = temp
      BY <1>1, <1>4, <1>5 DEF Family
    <2>3. inner # node
      BY <1>1, <1>4, <1>5 DEF Family
    <2> QED
      BY <2>1, <2>2, <2>3 DEF RightSpan
  <1>7. /\ r.root = IF node = t.root THEN temp ELSE t.root
        /\ \A x \in S : r.parent[x] = IF x = node THEN temp ELSE IF x = temp THEN p
                                      ELSE IF x = inner THEN node ELSE t.parent[x]
        /\ \A x \in S : r.right[x] =
               IF x = temp THEN node
               ELSE IF node # t.root /\ x = p /\ SideOf(t, node) = "right" THEN temp
               ELSE t.right[x]
        /\ \A x \in S : r.left[x] =
               IF x = node THEN inner
               ELSE IF node # t.root /\ x = p /\ SideOf(t, node) = "left" THEN temp
               ELSE t.left[x]
    <2>1. Opposite("right") = "left" /\ t["left"] = t.left /\ t["right"] = t.right
      BY <1>1, SideFacts
    <2>2. /\ r.root = IF node = t.root THEN temp ELSE t.root
          /\ \A x \in S : r.parent[x] = IF x = node THEN temp ELSE IF x = temp THEN p
                                        ELSE IF x = inner THEN node ELSE t.parent[x]
      BY <1>1, <2>1 DEF Rotated
    <2>3. \A s \in Sides, x \in Cells :
              r[s][x] = IF x = temp /\ s = "right" THEN node
                        ELSE IF x = node /\ s = "left" THEN inner
                        ELSE IF node # t.root /\ x = p /\ s = SideOf(t, node) THEN temp
                        ELSE t[s][x]
      BY <2>1 DEF Rotated
    <2>4. \A x \in S : r.right[x] =
               IF x = temp THEN node
               ELSE IF node # t.root /\ x = p /\ SideOf(t, node) = "right" THEN temp
               ELSE t.right[x]
      BY <1>1, <1>4, <2>3
    <2>5. \A x \in S : r.left[x] =
               IF x = node THEN inner
               ELSE IF node # t.root /\ x = p /\ SideOf(t, node) = "left" THEN temp
               ELSE t.left[x]
      BY <1>1, <1>4, <2>3
    <2> QED
      BY <2>2, <2>4, <2>5
  <1>8. \A x \in S : x # t.root =>
           t.parent[x] \in S /\ (x = t.right[t.parent[x]] \/ x = t.left[t.parent[x]])
    BY DEF Shape, Parents
  <1>9. node # t.root => /\ p \in S /\ p # node /\ p # temp /\ p # inner
                         /\ SideOf(t, node) \in Sides /\ t[SideOf(t, node)][p] = node
    <2> SUFFICES ASSUME node # t.root
                 PROVE  /\ p \in S /\ p # node /\ p # temp /\ p # inner
                        /\ SideOf(t, node) \in Sides /\ t[SideOf(t, node)][p] = node
      OBVIOUS
    <2>1. /\ p \in S /\ p # node /\ p # temp
          /\ SideOf(t, node) \in Sides /\ t[SideOf(t, node)][p] = node
      BY <1>1, <1>4 DEF Family
    <2>2. ASSUME p = inner PROVE FALSE
      <3>1. hi[inner] = hi[temp] /\ lo[inner] = pos[temp] + 1 /\ inner \in S
        BY <1>6, <2>1, <2>2, <1>1
      <3>2. t.right[p] = node \/ t.left[p] = node
        BY <1>1, <2>1 DEF Sides
      <3>3. RightSpan(t, pos, lo, hi, p) /\ LeftSpan(t, pos, lo, hi, p)
        BY <1>3, <2>1
      <3>4. hi[p] >= hi[node] /\ node # Sentinel
        BY <1>1, <1>2, <2>1, <3>2, <3>3 DEF RightSpan, LeftSpan
      <3>5. hi[node] >= pos[node]
        BY <1>2
      <3> QED
        BY <1>2, <1>5, <2>1, <2>2, <3>1, <3>4, <3>5
    <2> QED
      BY <2>1, <2>2
  <1> HIDE DEF S, temp, inner, p
  <1>10. Bounded(S, n, pos, l2, h2)
    <2>1. pos[temp] + 1 \in 1 .. n /\ hi[node] \in 1 .. n
      BY <1>1, <1>2, <1>5 DEF S
    <2>2. h2 \in [S -> 1 .. n] /\ l2 \in [S -> 1 .. n]
      BY <1>1, <1>2, <2>1
    <2>3. \A x \in S : l2[x] <= pos[x] /\ pos[x] <= h2[x]
      BY <1>1, <1>2, <1>5 DEF S
    <2> QED
      BY <2>2, <2>3 DEF Bounded
  <1>11. /\ \A x \in S : h2[x] = IF x = temp THEN hi[node] ELSE hi[x]
         /\ \A x \in S : l2[x] = IF x = node THEN pos[temp] + 1 ELSE lo[x]
    OBVIOUS
  <1> HIDE DEF h2, l2
  <1>12. ASSUME NEW x \in S PROVE RightSpan(r, pos, l2, h2, x)
    <2>1. RightSpan(t, pos, lo, hi, x) /\ node \in S /\ (node # t.root => p \in S)
      BY <1>3, <1>9 DEF S
    <2>2. CASE x = temp
      BY <1>1, <1>5, <1>7, <1>11, <2>1, <2>2 DEF RightSpan, S
    <2>3. CASE x # temp /\ node # t.root /\ x = p /\ SideOf(t, node) = "right"
      BY <1>1, <1>5, <1>7, <1>9, <1>11, <2>1, <2>3 DEF RightSpan, S
    <2>4. CASE x # temp /\ ~ (node # t.root /\ x = p /\ SideOf(t, node) = "right")
      <3>1. r.right[x] = t.right[x]
        BY <1>7, <2>4
      <3>2. t.right[x] # Sentinel => t.right[x] \in S /\ t.parent[t.right[x]] = x
        BY <2>1 DEF RightSpan, S
      <3>3. t.right[x] # Sentinel => t.right[x] # temp /\ t.right[x] # inner
        BY <1>1, <1>5, <1>6, <2>4, <3>2
      <3>4. t.right[x] # Sentinel => t.right[x] # node
        <4>1. ASSUME t.right[x] = node PROVE FALSE
          <5>1. node # t.root /\ SideOf(t, node) = "right" /\ t.parent[node] = x
            BY <1>1, <1>4, <4>1 DEF Family, S
          <5> QED
            BY <2>4, <5>1 DEF p
        <4> QED
          BY <4>1
      <3> QED
        BY <1>1, <1>7, <1>11, <2>1, <2>4, <3>1, <3>2, <3>3, <3>4 DEF RightSpan, S
    <2> QED
      BY <2>2, <2>3, <2>4
  <1>13. ASSUME NEW x \in S PROVE LeftSpan(r, pos, l2, h2, x)
    <2>1. LeftSpan(t, pos, lo, hi, x) /\ node \in S /\ (node # t.root => p \in S)
      BY <1>3, <1>9 DEF S
    <2>2. CASE x = node
      <3>1. r.left[x] = inner /\ l2[x] = pos[temp] + 1 /\ node # temp
        BY <1>5, <1>7, <1>11, <2>1, <2>2
      <3>2. CASE inner = Sentinel
        BY <1>2, <1>5, <1>6, <2>1, <2>2, <3>1, <3>2 DEF LeftSpan
      <3>3. CASE inner # Sentinel
        <4>1. inner \in S /\ hi[inner] = pos[node] - 1 /\ lo[inner] = pos[temp] + 1
          BY <1>5, <1>6, <3>3
        <4>2. r.parent[inner] = node /\ h2[inner] = hi[inner] /\ l2[inner] = lo[inner]
          BY <1>6, <1>7, <1>11, <4>1
        <4> QED
          BY <1>11, <2>2, <3>1, <3>3, <4>1, <4>2 DEF LeftSpan, S
      <3> QED
        BY <3>2, <3>3
    <2>3. CASE x # node /\ node # t.root /\ x = p /\ SideOf(t, node) = "left"
      BY <1>1, <1>5, <1>7, <1>9, <1>11, <2>1, <2>3 DEF LeftSpan, S
    <2>4. CASE x # node /\ ~ (node # t.root /\ x = p /\ SideOf(t, node) = "left")
      <3>1. r.left[x] = t.left[x]
        BY <1>7, <2>4
      <3>2. t.left[x] # Sentinel => t.left[x] \in S /\ t.parent[t.left[x]] = x
        BY <2>1 DEF LeftSpan, S
      <3>3. t.left[x] # Sentinel => t.left[x] # temp /\ t.left[x] # inner
        <4>1. t.left[x] # Sentinel => t.left[x] # temp
          BY <1>5, <2>4, <3>2
        <4>2. ASSUME t.left[x] = inner, inner # Sentinel PROVE FALSE
          <5>1. x = temp
            BY <1>6, <3>2, <4>2
          <5>2. t.right[temp] # Sentinel /\ t.left[temp] # t.right[temp]
            BY <1>1, <1>4, <1>5, <4>2, SideFacts DEF Family, S, inner
          <5> QED
            BY <4>2, <5>1, <5>2 DEF inner
        <4> QED
          BY <4>1, <4>2
      <3>4. t.left[x] # Sentinel => t.left[x] # node
        <4>1. ASSUME t.left[x] = node PROVE FALSE
          <5>1. node # t.root /\ SideOf(t, node) = "left" /\ t.parent[node] = x
            BY <1>1, <1>4, <4>1 DEF Family, S
          <5> QED
            BY <2>4, <5>1 DEF p
        <4> QED
          BY <4>1
      <3> QED
        BY <1>1, <1>7, <1>11, <2>1, <2>4, <3>1, <3>2, <3>3, <3>4 DEF LeftSpan, S
    <2> QED
      BY <2>2, <2>3, <2>4
  <1>14. RootSpan(r, n, l2, h2)
    <2>1. RootSpan(t, n, lo, hi) /\ node \in S
      BY DEF Shape, Spans, S
    <2>2. t.root # Sentinel
      BY <1>1, <2>1 DEF RootSpan, Shape, Numbered, S
    <2> QED
      BY <1>1, <1>5, <1>7, <1>11, <2>1, <2>2 DEF RootSpan, S
  <1>15. Parents(r)
    <2> SUFFICES ASSUME NEW x \in S, x # r.root
                 PROVE  /\ r.parent[x] \in S
                        /\ x = r.right[r.parent[x]] \/ x = r.left[r.parent[x]]
      BY DEF Parents, S
    <2>1. node \in S /\ temp \in S
      BY <1>5 DEF S
    <2>2. CASE x = node
      BY <1>7, <2>1, <2>2
    <2>3. CASE x = temp
      <3>1. node # t.root /\ p \in S /\ r.parent[x] = p
        BY <1>5, <1>7, <1>9, <2>3
      <3>2. SideOf(t, node) = "right" \/ SideOf(t, node) = "left"
        BY <1>9, <3>1 DEF Sides
      <3> QED
        BY <1>7, <1>9, <2>3, <3>1, <3>2
    <2>4. CASE x = inner
      BY <1>6, <1>7, <2>1, <2>4
    <2>5. CASE x \notin {node, temp, inner}
      <3>1. r.parent[x] = t.parent[x] /\ x # t.root
        BY <1>7, <2>5
      <3>2. t.parent[x] \in S /\ (x = t.right[t.parent[x]] \/ x = t.left[t.parent[x]])
        BY <1>8, <3>1
      <3>3. CASE x = t.right[t.parent[x]]
        <4>1. t.parent[x] # temp
          BY <2>5, <3>3 DEF inner
        <4>2. ~ (node # t.root /\ t.parent[x] = p /\ SideOf(t, node) = "right")
          BY <1>1, <1>9, <2>5, <3>3
        <4>3. r.right[t.parent[x]] = t.right[t.parent[x]]
          BY <1>7, <3>2, <4>1, <4>2
        <4> QED
          BY <3>1, <3>2, <3>3, <4>3
      <3>4. CASE x = t.left[t.parent[x]]
        <4>1. t.parent[x] # node
          BY <2>5, <3>4 DEF temp
        <4>2. ~ (node # t.root /\ t.parent[x] = p /\ SideOf(t, node) = "left")
          BY <1>1, <1>9, <2>5, <3>4
        <4>3. r.left[t.parent[x]] = t.left[t.parent[x]]
          BY <1>7, <3>2, <4>1, <4>2
        <4> QED
          BY <3>1, <3>2, <3>4, <4>3
      <3> QED
        BY <3>2, <3>3, <3>4
    <2> QED
      BY <2>2, <2>3, <2>4, <2>5
  <1>16. Numbered(r, n, pos)
    BY DEF Shape, Numbered
  <1> QED
    BY <1>1, <1>10, <1>12, <1>13, <1>14, <1>15, <1>16 DEF Shape, Spans, S

\* A tree whose nodes, in order, have the positions 1 .. n.
Ordered(t, n, pos) == \E lo, hi : Shape(t, n, pos, lo, hi)

\* What is known of a tree in order.
LEMMA OrderedFacts ==
  ASSUME NEW t, NEW n, NEW pos, Ordered(t, n, pos)
  PROVE  /\ t \in Trees /\ Family(t) /\ Numbered(t, n, pos) /\ Parents(t)
         /\ \/ t.root \in In(t)
            \/ t.root = Sentinel /\ In(t) = {}
  <1>1. PICK lo, hi : Shape(t, n, pos, lo, hi)
    BY DEF Ordered
  <1>2. CASE t.root = Sentinel
    <2>1. n = 0
      BY <1>1, <1>2 DEF Shape, Spans, RootSpan
    <2>2. pos \in [In(t) -> 1 .. n]
      BY <1>1 DEF Shape, Numbered
    <2>3. In(t) = {}
      BY <2>1, <2>2
    <2> QED
      BY <1>1, <1>2, <2>3, ShapeFamily DEF Shape
  <1>3. CASE t.root # Sentinel
    <2>1. Family(t)
      BY <1>1, ShapeFamily
    <2>2. RootSpan(t, n, lo, hi)
      BY <1>1 DEF Shape, Spans
    <2>3. t.root \in In(t)
      BY <1>3, <2>2 DEF RootSpan
    <2>4. t \in Trees /\ Numbered(t, n, pos) /\ Parents(t)
      BY <1>1 DEF Shape
    <2> QED
      BY <2>1, <2>3, <2>4
  <1> QED
    BY <1>2, <1>3

\* A rotation leaves the order of the nodes.
LEMMA RotateOrdered ==
  ASSUME NEW t, NEW n, NEW pos, Ordered(t, n, pos), NEW node \in In(t), NEW side \in Sides,
         t[Opposite(side)][node] # Sentinel
  PROVE  /\ Rotated(Rotate(t, node, side), t, node, side)
         /\ In(Rotate(t, node, side)) = In(t)
         /\ Ordered(Rotate(t, node, side), n, pos)
  <1> DEFINE r == Rotate(t, node, side)
  <1>1. PICK lo, hi : Shape(t, n, pos, lo, hi)
    BY DEF Ordered
  <1>2. t \in Trees /\ Family(t) /\ t["left"] = t.left /\ t["right"] = t.right
    BY <1>1, ShapeFamily, Fields DEF Shape
  <1>3. Rotated(r, t, node, side) /\ In(r) = In(t)
    BY <1>2, RotateIn
  <1> HIDE DEF r
  <1>4. CASE side = "left"
    <2>1. t.right[node] # Sentinel
      BY <1>2, <1>4, SideFacts
    <2>2. \E l2, h2 : Shape(r, n, pos, l2, h2)
      BY <1>1, <1>3, <1>4, <2>1, RotateLeftShape
    <2> QED
      BY <1>3, <2>2 DEF r, Ordered
  <1>5. CASE side = "right"
    <2>1. t.left[node] # Sentinel
      BY <1>2, <1>5, SideFacts
    <2>2. \E l2, h2 : Shape(r, n, pos, l2, h2)
      BY <1>1, <1>3, <1>5, <2>1, RotateRightShape
    <2> QED
      BY <1>3, <2>2 DEF r, Ordered
  <1> QED
    BY <1>4, <1>5 DEF Sides

\* r is t but for colors.
SameLinks(r, t) ==
  /\ r \in Trees /\ r.root = t.root /\ r.key = t.key
  /\ r.left = t.left /\ r.right = t.right /\ r.parent = t.parent
  /\ \A f \in Links : r[f] = t[f]

\* Colors have no part in the order.
LEMMA SameLinksOrdered ==
  ASSUME NEW t, NEW n, NEW pos, Ordered(t, n, pos), NEW r, SameLinks(r, t)
  PROVE  /\ In(r) = In(t) /\ Ordered(r, n, pos) /\ Family(r)
         /\ \A x : SideOf(r, x) = SideOf(t, x)
  <1>1. PICK lo, hi : Shape(t, n, pos, lo, hi)
    BY DEF Ordered
  <1>2. In(r) = In(t) /\ \A x : SideOf(r, x) = SideOf(t, x)
    BY DEF SameLinks, In, SideOf
  <1>3. Numbered(r, n, pos)
    BY <1>1, <1>2 DEF Shape, Numbered
  <1>4. Spans(r, n, pos, lo, hi)
    BY <1>1, <1>2 DEF Shape, Spans, LeftSpan, RightSpan, RootSpan, SameLinks
  <1>5. Parents(r)
    BY <1>1, <1>2 DEF Shape, Parents, SameLinks
  <1>6. Shape(r, n, pos, lo, hi)
    BY <1>3, <1>4, <1>5 DEF Shape, SameLinks
  <1> QED
    BY <1>2, <1>6, ShapeFamily DEF Ordered

\* r is t with x painted.
Painted(r, t, x, c) ==
  /\ r \in Trees /\ SameLinks(r, t)
  /\ \A y \in Cells : r.color[y] = IF y = x THEN c ELSE t.color[y]

\* What painting a node does.
LEMMA PaintPainted ==
  ASSUME NEW t \in Trees, NEW x \in Cells, NEW c \in {"red", "black"}
  PROVE  Painted(Paint(t, x, c), t, x, c)
  <1> DEFINE r == Paint(t, x, c)
  <1>1. /\ r \in Trees
        /\ \A y \in Cells : r.color[y] = IF y = x THEN c ELSE t.color[y]
    BY DEF Paint, Set, Trees
  <1>2. \A g \in Links : r[g] = t[g]
    BY DEF Paint, Set, Trees, Links
  <1>3. /\ r.left = t.left /\ r.right = t.right /\ r.parent = t.parent
        /\ r.root = t.root /\ r.key = t.key
    BY DEF Paint, Set, Trees
  <1> HIDE DEF r
  <1>4. Painted(r, t, x, c)
    BY <1>1, <1>2, <1>3 DEF SameLinks, Painted
  <1> QED
    BY <1>4 DEF r

\* Colors may change more than once.
LEMMA SameLinksTwice ==
  ASSUME NEW r, NEW s, NEW t, SameLinks(r, s), SameLinks(s, t)
  PROVE  SameLinks(r, t)
  BY DEF SameLinks

(* Black heights: one black is missing on the side s of mp, or nowhere when mp is Null. *)
HeightAt(t, b, mp, ms, x) ==
  \A s \in Sides : b[x] = One(Black(t, x)) + One(x = mp /\ s = ms) + b[t[s][x]]

\* Heights are positive, and that of a leaf is 1.
Measured(t, b) == b \in [In(t) \cup {Sentinel} -> Nat \ {0}] /\ b[Sentinel] = 1

\* The heights of all nodes agree with those of their children.
Heights(t, b, mp, ms) ==
  Measured(t, b) /\ \A x \in In(t) : HeightAt(t, b, mp, ms, x)

\* The heights after a rotation, when those of the two nodes are right.
LEMMA RotateHeights ==
  ASSUME NEW t \in Trees, Family(t), NEW r, NEW node \in In(t), NEW side \in Sides,
         NEW temp, temp = t[Opposite(side)][node], temp # Sentinel,
         Rotated(r, t, node, side), In(r) = In(t),
         NEW b, NEW mp, NEW ms, Measured(t, b),
         \A x \in In(t) \ {node, temp} : HeightAt(t, b, mp, ms, x),
         NEW c, Measured(t, c), \A x \in In(t) \ {node, temp} : c[x] = b[x],
         c[temp] = b[node],
         HeightAt(r, c, mp, ms, node), HeightAt(r, c, mp, ms, temp)
  PROVE  Heights(r, c, mp, ms)
  <1>1. temp \in In(t) /\ temp # node /\ t.parent[temp] = node
    BY SideFacts DEF Family
  <1>2. ASSUME NEW x \in In(t), x # node, x # temp PROVE HeightAt(r, c, mp, ms, x)
    <2> SUFFICES ASSUME NEW s \in Sides
                 PROVE c[x] = One(Black(r, x)) + One(x = mp /\ s = ms) + c[r[s][x]]
      BY DEF HeightAt
    <2>1. b[x] = One(Black(t, x)) + One(x = mp /\ s = ms) + b[t[s][x]]
      BY <1>2 DEF HeightAt
    <2>2. Black(r, x) = Black(t, x)
      BY DEF Rotated, Black, Red
    <2>3. c[r[s][x]] = b[t[s][x]]
      <3>1. x \in Cells /\ t[s][x] \in In(t) \cup {Sentinel} /\ Sentinel \notin In(t)
        BY DEF Family
      <3>2. CASE node # t.root /\ x = t.parent[node] /\ s = SideOf(t, node)
        <4>1. r[s][x] = temp /\ t[s][x] = node
          BY <1>1, <1>2, <3>1, <3>2 DEF Rotated, Family
        <4> QED
          BY <4>1
      <3>3. CASE ~ (node # t.root /\ x = t.parent[node] /\ s = SideOf(t, node))
        <4>1. r[s][x] = t[s][x]
          BY <1>2, <3>1, <3>3 DEF Rotated
        <4>2. t[s][x] # temp
          BY <1>1, <1>2 DEF Family
        <4>3. t[s][x] # node
          BY <3>3 DEF Family
        <4> QED
          BY <3>1, <4>1, <4>2, <4>3 DEF Measured
      <3> QED
        BY <3>2, <3>3
    <2> QED
      BY <1>2, <2>1, <2>2, <2>3
  <1> QED
    BY <1>2 DEF Heights, Measured

\* A red node has a red parent only when it is cc or its parent is cp.
Reds(t, cc, cp) ==
  \A x \in In(t), s \in Sides : Red(t, x) /\ Red(t, t[s][x]) => t[s][x] = cc \/ x = cp

\* The insert loop is at x.
InsertAt(t, b, x) ==
  /\ Heights(t, b, Null, Null) /\ Reds(t, x, Null)
  /\ x \in In(t) /\ Red(t, x) /\ (Red(t, t.root) => x = t.root)
  /\ Black(t, Sentinel)

\* Facts about the nodes and fields of a tree in order.
LEMMA Lines ==
  ASSUME NEW t, NEW n, NEW pos, Ordered(t, n, pos)
  PROVE  /\ t \in Trees /\ Family(t) /\ In(t) \subseteq Cells /\ Sentinel \notin In(t)
         /\ Null \notin In(t) /\ Null \notin Cells /\ Sentinel \in Cells
         /\ \A f \in Sides, x \in In(t) : t[f][x] \in In(t) \cup {Sentinel}
         /\ \A x \in Cells : t.color[x] \in {"red", "black"}
         /\ t["left"] = t.left /\ t["right"] = t.right
  BY OrderedFacts, Fields, CellsAssumption, SideFacts DEF Family, Cells

\* The parent, the grandparent and the uncle of x, and the sides they are on.
Kin(t, x, p, g, side, o, u) ==
  /\ p = t.parent[x] /\ g = t.parent[p]
  /\ side = SideOf(t, p) /\ o = Opposite(side) /\ u = t[o][g]

\* What they are to each other.
KinFacts(t, x, p, g, side, o, u) ==
  /\ p \in In(t) /\ p # t.root /\ g \in In(t) /\ Black(t, g)
  /\ x # p /\ p # g /\ x # g /\ side \in Sides /\ o \in Sides /\ o # side
  /\ Opposite(o) = side
  /\ t[side][g] = p /\ u # p /\ u # g /\ u # x /\ u \in In(t) \cup {Sentinel}
  /\ \E s \in Sides : t[s][p] = x
  /\ Black(t, t.root)

\* A red node with a red parent has a black grandparent.
LEMMA InsertFamily ==
  ASSUME NEW t, NEW n, NEW pos, Ordered(t, n, pos), NEW b, NEW x, InsertAt(t, b, x),
         x # t.root, Red(t, t.parent[x]),
         NEW p, NEW g, NEW side, NEW o, NEW u, Kin(t, x, p, g, side, o, u)
  PROVE  KinFacts(t, x, p, g, side, o, u)
  <1> USE DEF Kin
  <1>1. Family(t) /\ Sentinel \notin In(t) /\ Null \notin In(t) /\ t \in Trees
    BY Lines
  <1>2. p \in In(t) /\ SideOf(t, x) \in Sides /\ t[SideOf(t, x)][p] = x /\ p # x
    BY <1>1 DEF InsertAt, Family
  <1>3. p # t.root /\ Black(t, t.root)
    BY DEF InsertAt, Black
  <1>4. g \in In(t) /\ side \in Sides /\ t[side][g] = p /\ p # g
    BY <1>1, <1>2, <1>3 DEF Family
  <1>5. o \in Sides /\ o # side /\ Opposite(o) = side
    BY <1>4, SideFacts
  <1>6. Black(t, g)
    <2>1. ASSUME Red(t, g) PROVE FALSE
      <3>1. p = x \/ g = Null
        BY <1>4, <2>1 DEF InsertAt, Reds
      <3> QED
        BY <1>1, <1>2, <1>4, <3>1
    <2> QED
      BY <2>1 DEF Black
  <1>7. x # g
    BY <1>1, <1>2, <1>4 DEF Family
  <1>8. u # p /\ u # g /\ u \in In(t) \cup {Sentinel}
    BY <1>1, <1>2, <1>4, <1>5 DEF Family
  <1>9. u # x
    <2>1. ASSUME u = x PROVE FALSE
      <3>1. u \in In(t) /\ u # Sentinel
        BY <1>1, <2>1 DEF InsertAt
      <3>2. t.parent[u] = g
        BY <1>1, <1>4, <1>5, <3>1 DEF Family
      <3> QED
        BY <1>4, <2>1, <3>2
    <2> QED
      BY <2>1
  <1> QED
    BY <1>2, <1>3, <1>4, <1>5, <1>6, <1>7, <1>8, <1>9 DEF KinFacts

\* A red uncle.
LEMMA InsertRecolored ==
  ASSUME NEW t, NEW n, NEW pos, Ordered(t, n, pos), NEW b, NEW x, InsertAt(t, b, x),
         x # t.root, Red(t, t.parent[x]),
         NEW p, NEW g, NEW side, NEW o, NEW u, Kin(t, x, p, g, side, o, u), Red(t, u),
         NEW r, r = Recolored(t, p, u, g)
  PROVE  SameLinks(r, t) /\ \E c : InsertAt(r, c, g)
  <1>0. /\ p = t.parent[x] /\ g = t.parent[p] /\ Red(t, p) /\ u = t[o][g]
        /\ side \in Sides /\ o = Opposite(side)
    BY InsertFamily DEF Kin, KinFacts
  <1>1. /\ p \in In(t) /\ p # t.root /\ g \in In(t) /\ Black(t, g)
        /\ x # p /\ p # g /\ x # g /\ side \in Sides /\ o \in Sides /\ o # side
        /\ t[side][g] = p /\ u # p /\ u # g /\ u # x /\ u \in In(t) \cup {Sentinel}
        /\ \E s \in Sides : t[s][p] = x
        /\ Black(t, t.root)
    BY InsertFamily DEF KinFacts
  <1>2. /\ t \in Trees /\ Family(t) /\ In(t) \subseteq Cells /\ Sentinel \notin In(t)
        /\ Sentinel \in Cells /\ Null \notin In(t)
        /\ \A f \in Sides, y \in In(t) : t[f][y] \in In(t) \cup {Sentinel}
    BY Lines
  <1>3. u \in In(t) /\ x \in In(t) /\ Red(t, x)
    BY <1>1 DEF InsertAt, Black
  <1>4. /\ SameLinks(r, t) /\ r \in Trees
        /\ \A y \in Cells : Red(r, y) = IF y = g THEN TRUE
                                        ELSE IF y \in {p, u} THEN FALSE ELSE Red(t, y)
    <2> DEFINE t1 == Paint(t, p, "black")
               t2 == Paint(t1, u, "black")
    <2>1. p \in Cells /\ u \in Cells /\ g \in Cells /\ r = Paint(t2, g, "red")
      BY <1>1, <1>2, <1>3 DEF Recolored
    <2>2. Painted(t1, t, p, "black")
      BY <1>2, <2>1, PaintPainted
    <2> HIDE DEF t1
    <2>3. t1 \in Trees
      BY <2>2 DEF Painted
    <2>4. Painted(t2, t1, u, "black")
      BY <2>1, <2>3, PaintPainted
    <2> HIDE DEF t2
    <2>5. t2 \in Trees
      BY <2>4 DEF Painted
    <2>6. Painted(r, t2, g, "red")
      BY <2>1, <2>5, PaintPainted
    <2>7. SameLinks(r, t)
      <3>1. SameLinks(t1, t) /\ SameLinks(t2, t1) /\ SameLinks(r, t2)
        BY <2>2, <2>4, <2>6 DEF Painted
      <3> QED
        BY <3>1, SameLinksTwice
    <2>8. \A y \in Cells : r.color[y] = IF y = g THEN "red" ELSE IF y = u THEN "black"
                                        ELSE IF y = p THEN "black" ELSE t.color[y]
      BY <2>2, <2>4, <2>6 DEF Painted
    <2> QED
      BY <2>6, <2>7, <2>8 DEF Red, Painted
  <1>5. /\ In(r) = In(t) /\ Family(r) /\ r.root = t.root
        /\ \A f \in Sides : r[f] = t[f]
    <2>1. In(r) = In(t) /\ Family(r)
      BY <1>4, SameLinksOrdered
    <2> QED
      BY <1>4, <2>1, SideFacts DEF SameLinks
  <1> DEFINE c == [y \in In(t) \cup {Sentinel} |-> IF y \in {p, u} THEN b[y] + 1 ELSE b[y]]
  <1>6. Measured(t, b) /\ \A y \in In(t) : HeightAt(t, b, Null, Null, y)
    BY DEF InsertAt, Heights
  <1>7. /\ \A y \in In(t) \cup {Sentinel} : b[y] \in Nat \ {0}
        /\ \A y \in In(t) \cup {Sentinel} : c[y] = IF y \in {p, u} THEN b[y] + 1 ELSE b[y]
    BY <1>6 DEF Measured
  <1>8. Measured(r, c)
    <2>1. c \in [In(t) \cup {Sentinel} -> Nat \ {0}]
      BY <1>7
    <2>2. c[Sentinel] = 1
      BY <1>1, <1>2, <1>3, <1>6, <1>7 DEF Measured
    <2> HIDE DEF c
    <2> QED
      BY <1>5, <2>1, <2>2 DEF Measured
  <1> HIDE DEF c
  <1>9. ASSUME NEW y \in In(t) PROVE HeightAt(r, c, Null, Null, y)
    <2> SUFFICES ASSUME NEW s \in Sides
                 PROVE c[y] = One(Black(r, y)) + One(y = Null /\ s = Null) + c[r[s][y]]
      BY DEF HeightAt
    <2>1. b[y] = One(Black(t, y)) + One(y = Null /\ s = Null) + b[t[s][y]]
      BY <1>6 DEF HeightAt
    <2>2. One(y = Null /\ s = Null) = 0
      BY <1>2 DEF One
    <2>3. One(Black(t, y)) = (IF Red(t, y) THEN 0 ELSE 1)
          /\ One(Black(r, y)) = (IF Red(r, y) THEN 0 ELSE 1)
      BY DEF One, Black
    <2>4. /\ y \in Cells /\ r[s][y] = t[s][y] /\ t[s][y] \in In(t) \cup {Sentinel}
      BY <1>2, <1>5
    <2>5. CASE y = g
      <3>1. t[s][g] \in {p, u}
        BY <1>0, <1>1, SideFacts DEF Sides, Opposite
      <3> QED
        <4>1. Red(r, y) /\ ~ Red(t, y) /\ c[y] = b[y]
          BY <1>1, <1>4, <1>7, <2>4, <2>5 DEF Black
        <4>2. c[t[s][y]] = b[t[s][y]] + 1
          BY <1>7, <2>4, <2>5, <3>1
        <4> QED
          BY <1>7, <2>1, <2>2, <2>3, <2>4, <4>1, <4>2
    <2>6. CASE y # g
      <3>1. t[s][y] \notin {p, u}
        BY <1>0, <1>1, <1>2, <1>3, <2>6 DEF Family
      <3>2. y \in {p, u} => Red(t, y)
        BY <1>0 DEF Black
      <3> QED
        <4>1. c[t[s][y]] = b[t[s][y]]
          BY <1>7, <2>4, <3>1
        <4>2. CASE y \in {p, u}
          <5>1. ~ Red(r, y) /\ Red(t, y) /\ c[y] = b[y] + 1
            BY <1>4, <1>7, <2>4, <2>6, <3>2, <4>2
          <5> QED
            BY <1>7, <2>1, <2>2, <2>3, <2>4, <4>1, <5>1
        <4>3. CASE y \notin {p, u}
          <5>1. Red(r, y) = Red(t, y) /\ c[y] = b[y]
            BY <1>4, <1>7, <2>4, <2>6, <4>3
          <5> QED
            BY <1>7, <2>1, <2>2, <2>3, <2>4, <4>1, <5>1
        <4> QED
          BY <4>2, <4>3
    <2> QED
      BY <2>5, <2>6
  <1>10. Reds(r, g, Null)
    <2> SUFFICES ASSUME NEW y \in In(t), NEW s \in Sides, Red(r, y), Red(r, r[s][y])
                 PROVE  r[s][y] = g
      BY <1>5 DEF Reds
    <2>1. r[s][y] = t[s][y] /\ t[s][y] \in Cells /\ y \in Cells
      BY <1>2, <1>5
    <2>2. CASE y = g
      <3>1. t[s][g] \in {p, u}
        BY <1>0, <1>1, SideFacts DEF Sides, Opposite
      <3> QED
        BY <1>1, <1>2, <1>3, <1>4, <2>1, <2>2, <3>1
    <2>3. CASE y # g /\ t[s][y] # g
      <3>1. Red(t, y) /\ Red(t, t[s][y]) /\ y \notin {p, u}
        BY <1>4, <2>1, <2>3
      <3>2. t[s][y] = x
        BY <1>2, <3>1 DEF InsertAt, Reds
      <3>3. y = p
        BY <1>0, <1>2, <1>3, <3>2 DEF Family
      <3> QED
        BY <3>1, <3>3
    <2> QED
      BY <2>1, <2>2, <2>3
  <1>11. g \in In(r) /\ Red(r, g) /\ (Red(r, r.root) => g = r.root) /\ Black(r, Sentinel)
    <2>1. t.root \in Cells
      BY <1>2, Fields
    <2>2. ~ Red(t, t.root)
      BY <1>1 DEF Black
    <2>3. Red(r, r.root) => g = r.root
      <3>1. t.root # g => ~ Red(r, t.root)
        BY <1>4, <2>1, <2>2
      <3> QED
        BY <1>5, <3>1
    <2>4. Sentinel \notin {p, u, g} /\ ~ Red(t, Sentinel)
      BY <1>1, <1>2, <1>3 DEF InsertAt, Black
    <2> QED
      BY <1>1, <1>2, <1>4, <1>5, <2>3, <2>4 DEF Black
  <1>12. InsertAt(r, c, g)
    BY <1>5, <1>8, <1>9, <1>10, <1>11 DEF InsertAt, Heights
  <1> QED
    BY <1>4, <1>12

\* The node is between its parent and its grandparent: it changes places with its parent.
LEMMA InsertInner ==
  ASSUME NEW t, NEW n, NEW pos, Ordered(t, n, pos), NEW b, NEW x, InsertAt(t, b, x),
         x # t.root, Red(t, t.parent[x]),
         NEW p, NEW g, NEW side, NEW o, NEW u, Kin(t, x, p, g, side, o, u),
         x = t[o][p],
         NEW r, r = Rotate(t, p, side)
  PROVE  /\ In(r) = In(t) /\ Ordered(r, n, pos) /\ r.key = t.key /\ InsertAt(r, b, p)
         /\ p # r.root /\ r.parent[p] = x /\ Red(r, x) /\ r.parent[x] = g
         /\ SideOf(r, x) = side /\ r[side][x] = p /\ r[o][g] = u
         /\ r.color = t.color
  <1>0. /\ p = t.parent[x] /\ g = t.parent[p] /\ Red(t, p) /\ u = t[o][g]
        /\ x = t[o][p]
    BY DEF Kin
  <1>1. /\ p \in In(t) /\ p # t.root /\ g \in In(t) /\ Black(t, g)
        /\ x # p /\ p # g /\ x # g /\ side \in Sides /\ o \in Sides /\ o # side
        /\ Opposite(o) = side /\ t[side][g] = p /\ u # p /\ u # g /\ u # x
    BY InsertFamily DEF KinFacts
  <1>2. /\ t \in Trees /\ Family(t) /\ In(t) \subseteq Cells /\ Sentinel \notin In(t)
        /\ Sentinel \in Cells /\ Null \notin In(t)
        /\ \A f \in Sides, y \in In(t) : t[f][y] \in In(t) \cup {Sentinel}
    BY Lines
  <1>3. x \in In(t) /\ x \in Cells /\ p \in Cells /\ g \in Cells /\ Red(t, x) /\ Red(t, p)
    BY <1>0, <1>1, <1>2 DEF InsertAt
  <1>4. Rotated(r, t, p, side) /\ In(r) = In(t) /\ Ordered(r, n, pos)
    <2>1. t[Opposite(side)][p] # Sentinel
      BY <1>0, <1>2, <1>3 DEF Kin
    <2> QED
      BY <1>1, <2>1, RotateOrdered
  <1> DEFINE inner == t[side][x]
  <1>5. /\ r.key = t.key /\ r.color = t.color /\ r.root = t.root
        /\ \A y \in Cells : Red(r, y) = Red(t, y)
        /\ r.parent[p] = x /\ r.parent[x] = g
        /\ r[side][x] = p /\ r[o][p] = inner /\ r[side][p] = t[side][p]
        /\ r[o][x] = t[o][x] /\ r[side][g] = x /\ r[o][g] = u
    <2>1. /\ Opposite(side) = o /\ side # o /\ t.parent[p] = g /\ t[o][p] = x
          /\ SideOf(t, p) = side
      BY <1>0, <1>1 DEF Kin
    <2>2. inner # x /\ inner # p
      <3>1. inner # x
        BY <1>1, <1>2, <1>3 DEF Family
      <3>2. ASSUME inner = p PROVE FALSE
        <4>1. t[side][x] # Sentinel /\ t[o][t[side][x]] = x
          BY <1>0, <1>1, <1>2, <3>2
        <4> QED
          BY <1>1, <1>2, <1>3, <4>1 DEF Family
      <3> QED
        BY <3>1, <3>2
    <2>3. /\ r.key = t.key /\ r.color = t.color /\ r.root = t.root
          /\ r.parent[p] = x /\ r.parent[x] = g
      BY <1>1, <1>3, <1>4, <2>1, <2>2 DEF Rotated
    <2>4. /\ r[side][x] = p /\ r[o][p] = inner /\ r[side][p] = t[side][p]
          /\ r[o][x] = t[o][x] /\ r[side][g] = x /\ r[o][g] = u
      BY <1>0, <1>1, <1>3, <1>4, <2>1, <2>2 DEF Rotated
    <2> QED
      BY <2>3, <2>4 DEF Red
  <1>6. inner \in In(t) \cup {Sentinel} /\ inner # x /\ inner # p /\ t[side][p] # x
    <2>1. inner \in In(t) \cup {Sentinel} /\ inner # x
      BY <1>1, <1>2, <1>3 DEF Family
    <2>2. ASSUME inner = p PROVE FALSE
      <3>1. t[side][x] # Sentinel /\ t[o][t[side][x]] = x
        BY <1>0, <1>1, <1>2, <2>2
      <3> QED
        BY <1>1, <1>2, <1>3, <3>1 DEF Family
    <2>3. t[side][p] # x
      <3>1. o \in Sides /\ t[o][p] # Sentinel /\ Opposite(o) = side
        BY <1>0, <1>1, <1>2, <1>3
      <3>2. t[Opposite(o)][p] # t[o][p]
        BY <1>1, <1>2, <3>1 DEF Family
      <3> QED
        BY <1>0, <3>1, <3>2
    <2> QED
      BY <2>1, <2>2, <2>3
  <1>7. Black(t, inner) /\ Black(t, t[side][p]) /\ Black(t, t[o][x])
    <2>1. Reds(t, x, Null)
      BY DEF InsertAt
    <2>2. \A s \in Sides, y \in In(t) : Red(t, y) /\ t[s][y] # x => ~ Red(t, t[s][y])
      BY <1>2, <2>1 DEF Reds
    <2>3. t[o][x] # x
      BY <1>1, <1>2, <1>3 DEF Family
    <2> QED
      BY <1>1, <1>3, <1>6, <2>2, <2>3 DEF Black
  <1>8. Measured(t, b) /\ \A y \in In(t) : HeightAt(t, b, Null, Null, y)
    BY DEF InsertAt, Heights
  <1>9. /\ b[p] = b[x] /\ b[x] = b[inner] /\ b[p] = b[t[side][p]] /\ b[x] = b[t[o][x]]
    <2>1. /\ b[p] = One(Black(t, p)) + One(p = Null /\ side = Null) + b[t[side][p]]
          /\ b[p] = One(Black(t, p)) + One(p = Null /\ o = Null) + b[t[o][p]]
          /\ b[x] = One(Black(t, x)) + One(x = Null /\ side = Null) + b[t[side][x]]
          /\ b[x] = One(Black(t, x)) + One(x = Null /\ o = Null) + b[t[o][x]]
      BY <1>1, <1>3, <1>8 DEF HeightAt
    <2>2. /\ One(Black(t, p)) = 0 /\ One(Black(t, x)) = 0
          /\ \A s : One(p = Null /\ s = Null) = 0 /\ One(x = Null /\ s = Null) = 0
      BY <1>1, <1>2, <1>3 DEF One, Black
    <2>3. b[t[side][p]] \in Nat /\ b[x] \in Nat /\ b[inner] \in Nat /\ b[t[o][x]] \in Nat
      BY <1>1, <1>2, <1>3, <1>6, <1>8 DEF Measured
    <2>4. /\ One(p = Null /\ side = Null) = 0 /\ One(p = Null /\ o = Null) = 0
          /\ One(x = Null /\ side = Null) = 0 /\ One(x = Null /\ o = Null) = 0
      BY <2>2
    <2>5. b[t[o][p]] = b[x] /\ b[t[side][x]] = b[inner]
      BY <1>0
    <2> HIDE DEF inner
    <2> QED
      BY <2>1, <2>2, <2>3, <2>4, <2>5
  <1>10. Heights(r, b, Null, Null)
    <2>1. \A s \in Sides : s = side \/ s = o
      BY <1>1, SideFacts DEF Sides, Opposite
    <2>2. /\ One(Black(r, p)) = 0 /\ One(Black(r, x)) = 0
          /\ \A s : One(p = Null /\ s = Null) = 0 /\ One(x = Null /\ s = Null) = 0
      BY <1>1, <1>2, <1>3, <1>5 DEF One, Black
    <2>3. b[p] \in Nat /\ b[x] \in Nat
      BY <1>1, <1>3, <1>8 DEF Measured
    <2>4. HeightAt(r, b, Null, Null, p)
      <3> SUFFICES ASSUME NEW s \in Sides
                   PROVE b[p] = One(Black(r, p)) + One(p = Null /\ s = Null) + b[r[s][p]]
        BY DEF HeightAt
      <3>1. b[r[s][p]] = b[p]
        BY <1>5, <1>9, <2>1
      <3> QED
        BY <2>2, <2>3, <3>1
    <2>5. HeightAt(r, b, Null, Null, x)
      <3> SUFFICES ASSUME NEW s \in Sides
                   PROVE b[x] = One(Black(r, x)) + One(x = Null /\ s = Null) + b[r[s][x]]
        BY DEF HeightAt
      <3>1. b[r[s][x]] = b[x]
        BY <1>5, <1>9, <2>1
      <3> QED
        BY <2>2, <2>3, <3>1
    <2>6. x # Sentinel /\ b[x] = b[p]
      BY <1>2, <1>3, <1>9
    <2>7. Measured(r, b)
      BY <1>4, <1>8 DEF Measured
    <2>8. x = t[Opposite(side)][p]
      BY <1>0 DEF Kin
    <2> QED
      BY <1>1, <1>2, <1>4, <1>8, <2>4, <2>5, <2>6, <2>7, <2>8, RotateHeights
  <1>11. Reds(r, p, Null)
    <2> SUFFICES ASSUME NEW y \in In(t), NEW s \in Sides, Red(r, y), Red(r, r[s][y])
                 PROVE  r[s][y] = p
      BY <1>4 DEF Reds
    <2>1. s = side \/ s = o
      BY <1>1, SideFacts DEF Sides, Opposite
    <2>2. y \in Cells /\ Red(t, y)
      BY <1>2, <1>5
    <2>3. CASE y = p
      <3>1. r[s][y] \in {inner, t[side][p]} /\ r[s][y] \in Cells
        BY <1>1, <1>2, <1>5, <1>6, <2>1, <2>3
      <3> QED
        BY <1>5, <1>7, <3>1 DEF Black
    <2>4. CASE y = x
      <3>1. /\ r[s][y] = p \/ r[s][y] = t[o][x]
            /\ t[o][x] \in Cells
        BY <1>1, <1>2, <1>3, <1>5, <2>1, <2>4
      <3> QED
        BY <1>5, <1>7, <3>1 DEF Black
    <2>5. CASE y # p /\ y # x
      <3>1. y # g
        BY <1>1, <2>2 DEF Black
      <3>2. r[s][y] = t[s][y] /\ t[s][y] \in Cells
        BY <1>0, <1>1, <1>2, <1>4, <2>2, <2>5, <3>1 DEF Rotated, Kin
      <3>3. t[s][y] = x
        BY <1>2, <1>5, <2>2, <3>2 DEF InsertAt, Reds
      <3>4. t.parent[t[s][y]] = y
        BY <1>2, <1>3, <3>3 DEF Family
      <3> QED
        BY <1>0, <2>5, <3>3, <3>4
    <2> QED
      BY <2>3, <2>4, <2>5
  <1>12. SideOf(r, x) = side
    <2>1. Family(r)
      BY <1>4, OrderedFacts
    <2>2. x # Sentinel /\ g \in In(r)
      BY <1>1, <1>2, <1>3, <1>4
    <2> QED
      BY <1>1, <1>5, <2>1, <2>2 DEF Family
  <1>13. t.root \in Cells /\ Black(r, Sentinel) /\ ~ Red(r, t.root)
    <2>1. t.root \in Cells
      BY <1>2, Fields
    <2>2. ~ Red(t, t.root) /\ ~ Red(t, Sentinel)
      BY DEF InsertAt, Black
    <2> QED
      BY <1>2, <1>5, <2>1, <2>2 DEF Black
  <1>14. InsertAt(r, b, p)
    BY <1>1, <1>3, <1>4, <1>5, <1>10, <1>11, <1>13 DEF InsertAt
  <1> QED
    BY <1>1, <1>3, <1>4, <1>5, <1>12, <1>14

\* A side is one of two.
LEMMA TwoSides ==
  ASSUME NEW side \in Sides
  PROVE  \A f \in Sides : f = side \/ f = Opposite(side)
  BY DEF Sides, Opposite

\* r is t with x painted, and then y.
PaintedTwice(r, t, x, c, y, d) ==
  /\ r \in Trees /\ SameLinks(r, t)
  /\ \A z \in Cells : r.color[z] = IF z = y THEN d ELSE IF z = x THEN c ELSE t.color[z]

\* Two nodes are painted.
LEMMA PaintTwice ==
  ASSUME NEW t \in Trees, NEW x \in Cells, NEW c \in {"red", "black"},
         NEW y \in Cells, NEW d \in {"red", "black"}
  PROVE  PaintedTwice(Paint(Paint(t, x, c), y, d), t, x, c, y, d)
  <1> DEFINE t1 == Paint(t, x, c)
             r == Paint(t1, y, d)
  <1>1. Painted(t1, t, x, c)
    BY PaintPainted
  <1> HIDE DEF t1
  <1>2. t1 \in Trees /\ SameLinks(t1, t)
    BY <1>1 DEF Painted
  <1>3. Painted(r, t1, y, d)
    BY <1>2, PaintPainted
  <1> HIDE DEF r
  <1>4. SameLinks(r, t1) /\ r \in Trees
    BY <1>3 DEF Painted
  <1>5. SameLinks(r, t)
    BY <1>2, <1>4, SameLinksTwice
  <1>6. \A z \in Cells : r.color[z] = IF z = y THEN d ELSE IF z = x THEN c ELSE t.color[z]
    BY <1>1, <1>3 DEF Painted
  <1>7. PaintedTwice(r, t, x, c, y, d)
    BY <1>4, <1>5, <1>6 DEF PaintedTwice
  <1> QED
    BY <1>7 DEF r, t1

\* The links, and the colors of s, after a rotation of s, which is t but for colors.
Turned(r, s, t, n, pos, node, side) ==
  /\ Rotated(r, s, node, side) /\ r \in Trees
  /\ In(s) = In(t) /\ In(r) = In(t) /\ Ordered(s, n, pos) /\ Ordered(r, n, pos)
  /\ Family(s) /\ Family(r)
  /\ r.key = t.key /\ r.color = s.color
  /\ \A f \in Sides : s[f] = t[f]
  /\ s.root = t.root /\ s.parent = t.parent /\ SideOf(s, node) = SideOf(t, node)

\* A rotation of a painted tree.
LEMMA TurnSame ==
  ASSUME NEW t, NEW n, NEW pos, Ordered(t, n, pos), NEW s, SameLinks(s, t),
         NEW node \in In(t), NEW side \in Sides, t[Opposite(side)][node] # Sentinel
  PROVE  Turned(Rotate(s, node, side), s, t, n, pos, node, side)
  <1> DEFINE r == Rotate(s, node, side)
  <1>1. In(s) = In(t) /\ Ordered(s, n, pos) /\ Family(s) /\ SideOf(s, node) = SideOf(t, node)
    BY SameLinksOrdered
  <1>2. s \in Trees /\ s.key = t.key /\ (\A f \in Sides : s[f] = t[f])
        /\ s.root = t.root /\ s.parent = t.parent
    BY SideFacts DEF SameLinks
  <1>3. node \in In(s) /\ s[Opposite(side)][node] # Sentinel
    BY <1>1, <1>2, SideFacts
  <1>4. Rotated(r, s, node, side) /\ In(r) = In(s) /\ Ordered(r, n, pos)
    BY <1>1, <1>3, RotateOrdered
  <1> HIDE DEF r
  <1>5. Family(r)
    BY <1>4, OrderedFacts
  <1>6. r \in Trees /\ r.key = t.key /\ r.color = s.color
    BY <1>2, <1>4 DEF Rotated
  <1>7. Turned(r, s, t, n, pos, node, side)
    BY <1>1, <1>2, <1>4, <1>5, <1>6 DEF Turned
  <1> QED
    BY <1>7 DEF r

\* What the rotation does to the two nodes and to the link above them, by name.
TurnedLinks(r, t, node, side, o, temp) ==
  /\ temp \in In(t) /\ temp # node /\ t.parent[temp] = node /\ temp # t.root
  /\ r.root = IF node = t.root THEN temp ELSE t.root
  /\ r[side][temp] = node /\ r[o][temp] = t[o][temp]
  /\ r[o][node] = t[side][temp] /\ r[side][node] = t[side][node]
  /\ r.parent[node] = temp /\ r.parent[Sentinel] = t.parent[Sentinel]
  /\ node # t.root => /\ r.parent[temp] = t.parent[node]
                      /\ r[SideOf(t, node)][t.parent[node]] = temp
                      /\ SideOf(r, temp) = SideOf(t, node)
  /\ \A y \in In(t), f \in Sides :
       y \notin {node, temp} =>
         r[f][y] = IF node # t.root /\ y = t.parent[node] /\ f = SideOf(t, node)
                   THEN temp ELSE t[f][y]

\* The links it leaves and those it makes.
LEMMA TurnLinks ==
  ASSUME NEW t, NEW n, NEW pos, Ordered(t, n, pos), NEW s, NEW r,
         NEW node \in In(t), NEW side \in Sides, NEW o, o = Opposite(side),
         NEW temp, temp = t[o][node], temp # Sentinel,
         Turned(r, s, t, n, pos, node, side)
  PROVE  TurnedLinks(r, t, node, side, o, temp)
  <1>1. /\ t \in Trees /\ Family(t) /\ In(t) \subseteq Cells /\ Sentinel \notin In(t)
        /\ Sentinel \in Cells
    BY Lines
  <1>2. o \in Sides /\ o # side /\ (\A f \in Sides : f = side \/ f = o)
    BY SideFacts DEF Sides, Opposite
  <1>3. temp \in In(t) /\ temp # node /\ t.parent[temp] = node /\ temp # t.root
    BY <1>1, <1>2 DEF Family
  <1>4. /\ s[Opposite(side)][node] = temp /\ s[side][temp] = t[side][temp]
        /\ s.root = t.root /\ s.parent = t.parent /\ SideOf(s, node) = SideOf(t, node)
        /\ \A f \in Sides : s[f] = t[f]
    BY <1>2 DEF Turned
  <1>5. /\ r.root = IF node = t.root THEN temp ELSE t.root
        /\ \A x \in Cells :
              r.parent[x] = IF x = node THEN temp ELSE IF x = temp THEN t.parent[node]
                            ELSE IF x = t[side][temp] /\ t[side][temp] # Sentinel THEN node
                            ELSE t.parent[x]
        /\ \A f \in Sides, x \in Cells :
              r[f][x] = IF x = temp /\ f = side THEN node
                        ELSE IF x = node /\ f = o THEN t[side][temp]
                        ELSE IF node # t.root /\ x = t.parent[node] /\ f = SideOf(t, node) THEN temp
                        ELSE t[f][x]
    <2>1. Rotated(r, s, node, side)
      BY DEF Turned
    <2> QED
      BY <1>2, <1>4, <2>1 DEF Rotated
  <1>6. node # t.root => /\ t.parent[node] \in In(t) /\ t.parent[node] # node
                         /\ t.parent[node] # temp /\ SideOf(t, node) \in Sides
    BY <1>1, <1>2 DEF Family
  <1>7. node \in Cells /\ temp \in Cells
    BY <1>1, <1>3
  <1>8. /\ r[side][temp] = node /\ r[o][temp] = t[o][temp]
        /\ r[o][node] = t[side][temp] /\ r[side][node] = t[side][node]
        /\ r.parent[node] = temp /\ r.parent[Sentinel] = t.parent[Sentinel]
    BY <1>1, <1>2, <1>3, <1>5, <1>6, <1>7
  <1>9. ASSUME node # t.root
        PROVE  /\ r.parent[temp] = t.parent[node] /\ r[SideOf(t, node)][t.parent[node]] = temp
               /\ SideOf(r, temp) = SideOf(t, node)
    <2>1. r.parent[temp] = t.parent[node] /\ r[SideOf(t, node)][t.parent[node]] = temp
      BY <1>1, <1>3, <1>5, <1>6, <1>7, <1>9
    <2>2. Family(r) /\ t.parent[node] \in In(r) /\ temp # Sentinel
      BY <1>6, <1>9 DEF Turned
    <2>3. SideOf(r, temp) = SideOf(t, node)
      BY <1>6, <1>9, <2>1, <2>2 DEF Family
    <2> QED
      BY <2>1, <2>3
  <1>10. ASSUME NEW y \in In(t), NEW f \in Sides, y \notin {node, temp}
         PROVE  r[f][y] = IF node # t.root /\ y = t.parent[node] /\ f = SideOf(t, node)
                          THEN temp ELSE t[f][y]
    BY <1>1, <1>5, <1>10
  <1> QED
    BY <1>3, <1>5, <1>8, <1>9, <1>10 DEF TurnedLinks

\* The node is the outer grandchild: its grandparent changes places with its parent.
LEMMA InsertOuter ==
  ASSUME NEW t, NEW n, NEW pos, Ordered(t, n, pos), NEW b, NEW x, InsertAt(t, b, x),
         x # t.root, Red(t, t.parent[x]),
         NEW p, NEW g, NEW side, NEW o, NEW u, Kin(t, x, p, g, side, o, u),
         x = t[side][p], Black(t, u),
         NEW r, r = InsertRotated(t, x, side)
  PROVE  /\ In(r) = In(t) /\ Ordered(r, n, pos) /\ r.key = t.key
         /\ \E c : InsertAt(r, c, x)
         /\ Black(r, r.parent[x])
  <1>0. /\ p = t.parent[x] /\ g = t.parent[p] /\ Red(t, p) /\ u = t[o][g]
        /\ x = t[side][p] /\ ~ Red(t, u) /\ o = Opposite(side)
    BY DEF Kin, Black
  <1>1. /\ p \in In(t) /\ p # t.root /\ g \in In(t) /\ ~ Red(t, g)
        /\ x # p /\ p # g /\ x # g /\ side \in Sides /\ o \in Sides /\ o # side
        /\ Opposite(o) = side /\ t[side][g] = p /\ u # p /\ u # g /\ u # x
        /\ u \in In(t) \cup {Sentinel} /\ ~ Red(t, t.root)
    BY InsertFamily DEF KinFacts, Black
  <1>2. /\ t \in Trees /\ Family(t) /\ In(t) \subseteq Cells /\ Sentinel \notin In(t)
        /\ Sentinel \in Cells /\ Null \notin In(t)
        /\ \A f \in Sides, y \in In(t) : t[f][y] \in In(t) \cup {Sentinel}
    BY Lines
  <1>3. x \in In(t) /\ x \in Cells /\ p \in Cells /\ g \in Cells /\ Red(t, x) /\ u \in Cells
    BY <1>1, <1>2 DEF InsertAt
  <1>4. \A f \in Sides : f = side \/ f = o
    BY <1>0, <1>1, TwoSides
  <1> DEFINE s == Paint(Paint(t, p, "black"), g, "red")
             inner == t[o][p]
  <1>5. PaintedTwice(s, t, p, "black", g, "red") /\ r = Rotate(s, g, o)
    BY <1>0, <1>2, <1>3, PaintTwice DEF InsertRotated
  <1> HIDE DEF s
  <1>6. Turned(r, s, t, n, pos, g, o)
    <2>1. SameLinks(s, t) /\ t[Opposite(o)][g] # Sentinel
      BY <1>1, <1>2, <1>5 DEF PaintedTwice
    <2> QED
      BY <1>1, <1>5, <2>1, TurnSame
  <1>7. TurnedLinks(r, t, g, o, side, p)
    <2>1. side = Opposite(o) /\ p = t[side][g] /\ p # Sentinel
      BY <1>1, <1>2
    <2> QED
      BY <1>1, <1>6, <2>1, TurnLinks
  <1>8. /\ In(r) = In(t) /\ Ordered(r, n, pos) /\ r.key = t.key /\ r \in Trees /\ Family(r)
        /\ s \in Trees /\ Family(s) /\ In(s) = In(t) /\ Rotated(r, s, g, o)
        /\ \A f \in Sides : s[f] = t[f]
    BY <1>5, <1>6 DEF Turned, PaintedTwice
  <1>9. /\ \A y \in Cells : Red(s, y) = IF y = g THEN TRUE ELSE IF y = p THEN FALSE
                                        ELSE Red(t, y)
        /\ \A y \in Cells : Red(r, y) = Red(s, y)
    BY <1>5, <1>6 DEF PaintedTwice, Turned, Red
  <1>10. /\ r[o][p] = g /\ r[side][p] = x /\ r[side][g] = inner /\ r[o][g] = u
         /\ r.root = IF g = t.root THEN p ELSE t.root
         /\ \A y \in In(t), f \in Sides : y \notin {g, p} => r[f][y] \in {p, t[f][y]}
    BY <1>0, <1>7 DEF TurnedLinks
  <1>11. inner \in In(t) \cup {Sentinel} /\ inner # x /\ ~ Red(t, inner)
         /\ inner # g /\ inner # p
    <2>1. inner \in In(t) \cup {Sentinel} /\ inner # x /\ inner # p
      <3>1. inner \in In(t) \cup {Sentinel} /\ inner # p
        BY <1>1, <1>2 DEF Family
      <3>2. inner # x
        <4>1. p \in In(t) /\ side \in Sides /\ t[side][p] # Sentinel
          BY <1>0, <1>1, <1>2, <1>3
        <4>2. t[Opposite(side)][p] # t[side][p]
          BY <1>2, <4>1 DEF Family
        <4> QED
          BY <1>0, <4>2
      <3> QED
        BY <3>1, <3>2
    <2>2. inner # g
      BY <1>0, <1>1, <1>2, <1>3 DEF Family
    <2>3. ~ Red(t, inner)
      BY <1>0, <1>1, <1>2, <2>1 DEF InsertAt, Reds
    <2> QED
      BY <2>1, <2>2, <2>3
  <1>12. Measured(t, b) /\ \A y \in In(t) : HeightAt(t, b, Null, Null, y)
    BY DEF InsertAt, Heights
  <1>13. /\ b[g] = 1 + b[p] /\ b[u] = b[p] /\ b[x] = b[p] /\ b[inner] = b[p] /\ b[p] \in Nat \ {0}
    <2>1. /\ b[p] = One(Black(t, p)) + One(p = Null /\ side = Null) + b[t[side][p]]
          /\ b[p] = One(Black(t, p)) + One(p = Null /\ o = Null) + b[t[o][p]]
          /\ b[g] = One(Black(t, g)) + One(g = Null /\ side = Null) + b[t[side][g]]
          /\ b[g] = One(Black(t, g)) + One(g = Null /\ o = Null) + b[t[o][g]]
      BY <1>1, <1>3, <1>12 DEF HeightAt
    <2>2. /\ One(Black(t, p)) = 0 /\ One(Black(t, g)) = 1
          /\ One(p = Null /\ side = Null) = 0 /\ One(p = Null /\ o = Null) = 0
          /\ One(g = Null /\ side = Null) = 0 /\ One(g = Null /\ o = Null) = 0
      BY <1>0, <1>1, <1>2, <1>3 DEF One, Black
    <2>3. b[p] \in Nat \ {0} /\ b[u] \in Nat /\ b[x] \in Nat /\ b[inner] \in Nat
      BY <1>1, <1>3, <1>11, <1>12 DEF Measured
    <2>4. /\ b[p] = One(Black(t, p)) + One(p = Null /\ side = Null) + b[x]
          /\ b[p] = One(Black(t, p)) + One(p = Null /\ o = Null) + b[inner]
          /\ b[g] = One(Black(t, g)) + One(g = Null /\ side = Null) + b[p]
          /\ b[g] = One(Black(t, g)) + One(g = Null /\ o = Null) + b[u]
      BY <1>0, <1>1, <2>1
    <2> HIDE DEF inner
    <2> QED
      BY <2>2, <2>3, <2>4
  <1> DEFINE c == [y \in In(t) \cup {Sentinel} |->
                     IF y = g THEN b[p] ELSE IF y = p THEN b[g] ELSE b[y]]
  <1>14. /\ Measured(r, c) /\ Measured(s, c) /\ Measured(t, c)
         /\ c[g] = b[p] /\ c[p] = b[g] /\ c[u] = b[p] /\ c[x] = b[p] /\ c[inner] = b[p]
         /\ \A y \in In(t) \ {g, p} : c[y] = b[y]
    <2>1. /\ \A y \in In(t) \cup {Sentinel} : b[y] \in Nat \ {0}
          /\ b[Sentinel] = 1
      BY <1>12 DEF Measured
    <2>2. c \in [In(t) \cup {Sentinel} -> Nat \ {0}]
      BY <1>1, <2>1
    <2>3. c[Sentinel] = 1
      BY <1>1, <1>2, <2>1
    <2>4. Measured(r, c) /\ Measured(s, c) /\ Measured(t, c)
      BY <1>8, <2>2, <2>3 DEF Measured
    <2>5. c[g] = b[p] /\ c[p] = b[g] /\ c[x] = b[p] /\ \A y \in In(t) \ {g, p} : c[y] = b[y]
      BY <1>1, <1>3, <1>13
    <2>6. c[u] = b[p] /\ c[inner] = b[p]
      BY <1>1, <1>11, <1>13
    <2> QED
      BY <2>4, <2>5, <2>6
  <1> HIDE DEF c
  <1>15. Heights(r, c, Null, Null)
    <2>1. HeightAt(r, c, Null, Null, g)
      <3> SUFFICES ASSUME NEW f \in Sides
                   PROVE c[g] = One(Black(r, g)) + One(g = Null /\ f = Null) + c[r[f][g]]
        BY DEF HeightAt
      <3>1. c[r[f][g]] = b[p]
        BY <1>4, <1>10, <1>14
      <3>2. One(Black(r, g)) = 0 /\ One(g = Null /\ f = Null) = 0
        BY <1>1, <1>2, <1>3, <1>9 DEF One, Black
      <3> QED
        BY <1>13, <1>14, <3>1, <3>2
    <2>2. HeightAt(r, c, Null, Null, p)
      <3> SUFFICES ASSUME NEW f \in Sides
                   PROVE c[p] = One(Black(r, p)) + One(p = Null /\ f = Null) + c[r[f][p]]
        BY DEF HeightAt
      <3>1. c[r[f][p]] = b[p]
        BY <1>4, <1>10, <1>14
      <3>2. One(Black(r, p)) = 1 /\ One(p = Null /\ f = Null) = 0
        BY <1>1, <1>2, <1>3, <1>9 DEF One, Black
      <3> QED
        BY <1>13, <1>14, <3>1, <3>2
    <2>3. ASSUME NEW y \in In(t) \ {g, p} PROVE HeightAt(s, b, Null, Null, y)
      <3>1. Black(s, y) = Black(t, y)
        BY <1>2, <1>9 DEF Black
      <3> QED
        BY <1>8, <1>12, <3>1 DEF HeightAt
    <2>4. /\ g \in In(s) /\ p = s[Opposite(o)][g] /\ p # Sentinel /\ In(r) = In(s)
          /\ \A y \in In(s) \ {g, p} : HeightAt(s, b, Null, Null, y)
          /\ Measured(s, b) /\ (\A y \in In(s) \ {g, p} : c[y] = b[y])
          /\ c[p] = b[g]
      BY <1>1, <1>2, <1>8, <1>12, <1>14, <2>3 DEF Measured
    <2> QED
      BY <1>1, <1>8, <1>14, <2>1, <2>2, <2>4, RotateHeights
  <1>16. Reds(r, x, Null)
    <2> SUFFICES ASSUME NEW y \in In(t), NEW f \in Sides, Red(r, y), Red(r, r[f][y])
                 PROVE  FALSE
      BY <1>8 DEF Reds
    <2>1. y # p /\ y \in Cells
      BY <1>2, <1>3, <1>9, <1>1
    <2>2. CASE y = g
      <3>1. r[f][y] \in {inner, u} /\ inner \in Cells
        BY <1>2, <1>4, <1>10, <1>11, <2>2
      <3> QED
        BY <1>0, <1>1, <1>3, <1>9, <1>11, <3>1
    <2>3. CASE y # g
      <3>1. r[f][y] \in {p, t[f][y]} /\ t[f][y] \in Cells /\ Red(t, y)
        BY <1>2, <1>9, <1>10, <2>1, <2>3
      <3>2. r[f][y] = t[f][y]
        BY <1>1, <1>3, <1>9, <3>1
      <3>3. t[f][y] # g
        <4>1. ASSUME t[f][y] = g PROVE FALSE
          <5>1. g # t.root /\ y = t.parent[g] /\ f = SideOf(t, g)
            BY <1>1, <1>2, <4>1 DEF Family
          <5>2. r[f][y] = p
            BY <1>7, <2>1, <2>3, <5>1 DEF TurnedLinks
          <5> QED
            BY <1>1, <1>3, <1>9, <5>2
        <4> QED
          BY <4>1
      <3>4. t[f][y] # p
        BY <1>1, <1>3, <1>9, <3>2
      <3>5. Red(t, t[f][y])
        BY <1>9, <3>1, <3>2, <3>3, <3>4
      <3>6. t[f][y] = x
        BY <1>2, <3>1, <3>5 DEF InsertAt, Reds
      <3>7. t.parent[x] = y
        BY <1>2, <1>3, <3>6 DEF Family
      <3> QED
        BY <1>0, <2>1, <3>7
    <2> QED
      BY <2>2, <2>3
  <1>17. x \in In(r) /\ Red(r, x) /\ ~ Red(r, r.root) /\ Black(r, Sentinel)
    <2>1. ~ Red(t, Sentinel) /\ t.root \in Cells
      BY <1>2, Fields DEF InsertAt, Black
    <2>2. ~ Red(r, Sentinel)
      BY <1>1, <1>2, <1>9, <2>1
    <2>3. ~ Red(r, r.root)
      BY <1>1, <1>3, <1>9, <1>10, <2>1
    <2> QED
      BY <1>1, <1>3, <1>8, <1>9, <2>2, <2>3 DEF Black
  <1>18. InsertAt(r, c, x)
    BY <1>15, <1>16, <1>17 DEF InsertAt
  <1>19. Black(r, r.parent[x])
    <2>1. p \in In(r) /\ x # Sentinel /\ Family(r) /\ r[side][p] = x /\ side \in Sides
      BY <1>1, <1>2, <1>3, <1>8, <1>10
    <2>2. r.parent[x] = p
      BY <2>1 DEF Family
    <2> QED
      BY <1>1, <1>3, <1>9, <2>2 DEF Black
  <1> QED
    BY <1>8, <1>18, <1>19

\* The turn of the insert loop that rotates.
LEMMA InsertTurn ==
  ASSUME NEW t, NEW n, NEW pos, Ordered(t, n, pos), NEW b, NEW x, InsertAt(t, b, x),
         x # t.root, Red(t, t.parent[x]),
         NEW p, NEW g, NEW side, NEW o, NEW u, Kin(t, x, p, g, side, o, u), Black(t, u),
         NEW y, y = IF x = t[o][p] THEN p ELSE x,
         NEW r, r = InsertRotated(IF x = t[o][p] THEN Rotate(t, p, side) ELSE t, y, side)
  PROVE  /\ In(r) = In(t) /\ Ordered(r, n, pos) /\ r.key = t.key
         /\ \E c : InsertAt(r, c, y)
         /\ Black(r, r.parent[y])
  <1>1. CASE x = t[o][p]
    <2> DEFINE t1 == Rotate(t, p, side)
    <2>1. /\ In(t1) = In(t) /\ Ordered(t1, n, pos) /\ t1.key = t.key /\ InsertAt(t1, b, p)
          /\ p # t1.root /\ t1.parent[p] = x /\ Red(t1, x) /\ t1.parent[x] = g
          /\ SideOf(t1, x) = side /\ t1[side][x] = p /\ t1[o][g] = u
          /\ t1.color = t.color
      BY <1>1, InsertInner
    <2>2. y = p /\ r = InsertRotated(t1, p, side)
      BY <1>1
    <2> HIDE DEF t1
    <2>3. Kin(t1, p, x, g, side, o, u) /\ Red(t1, t1.parent[p]) /\ p = t1[side][x]
      BY <2>1 DEF Kin
    <2>4. Black(t1, u)
      BY <2>1 DEF Black, Red
    <2>5. /\ In(r) = In(t1) /\ Ordered(r, n, pos) /\ r.key = t1.key
          /\ \E c : InsertAt(r, c, p)
          /\ Black(r, r.parent[p])
      BY <2>1, <2>2, <2>3, <2>4, InsertOuter
    <2> QED
      BY <2>1, <2>2, <2>5
  <1>2. CASE x # t[o][p]
    <2>1. KinFacts(t, x, p, g, side, o, u)
      BY InsertFamily
    <2>2. x = t[side][p]
      BY <1>2, <2>1, TwoSides DEF KinFacts, Kin
    <2>3. y = x /\ r = InsertRotated(t, x, side)
      BY <1>2
    <2> QED
      BY <2>2, <2>3, InsertOuter
  <1> QED
    BY <1>1, <1>2

\* The tree between the calls.
Settled(t, b) ==
  /\ Heights(t, b, Null, Null) /\ Reds(t, Null, Null)
  /\ Black(t, t.root) /\ Black(t, Sentinel)

\* The end of the insert loop.
LEMMA InsertEnds ==
  ASSUME NEW t, NEW n, NEW pos, Ordered(t, n, pos), NEW b, NEW x, InsertAt(t, b, x),
         ~ (x # t.root /\ Red(t, t.parent[x])),
         NEW r, r = Paint(t, t.root, "black")
  PROVE  SameLinks(r, t) /\ \E c : Settled(r, c)
  <1>1. /\ t \in Trees /\ Family(t) /\ In(t) \subseteq Cells /\ Sentinel \notin In(t)
        /\ Sentinel \in Cells /\ Null \notin In(t) /\ Null \notin Cells
        /\ \A f \in Sides, y \in In(t) : t[f][y] \in In(t) \cup {Sentinel}
    BY Lines
  <1>2. x \in In(t) /\ t.root \in In(t)
    BY OrderedFacts DEF InsertAt
  <1>3. Painted(r, t, t.root, "black")
    BY <1>1, <1>2, PaintPainted
  <1>4. /\ SameLinks(r, t) /\ r.root = t.root
        /\ \A y \in Cells : Red(r, y) = IF y = t.root THEN FALSE ELSE Red(t, y)
    BY <1>3 DEF Painted, SameLinks, Red
  <1>5. In(r) = In(t) /\ Family(r) /\ \A f \in Sides : r[f] = t[f]
    BY <1>4, SameLinksOrdered, SideFacts DEF SameLinks
  <1> DEFINE c == [y \in In(t) \cup {Sentinel} |->
                     IF y = t.root /\ Red(t, y) THEN b[y] + 1 ELSE b[y]]
  <1>6. Measured(t, b) /\ \A y \in In(t) : HeightAt(t, b, Null, Null, y)
    BY DEF InsertAt, Heights
  <1>7. /\ \A y \in In(t) \cup {Sentinel} : b[y] \in Nat \ {0}
        /\ \A y \in In(t) \cup {Sentinel} :
              c[y] = IF y = t.root /\ Red(t, y) THEN b[y] + 1 ELSE b[y]
    BY <1>6 DEF Measured
  <1>8. Measured(r, c)
    <2>1. c \in [In(t) \cup {Sentinel} -> Nat \ {0}]
      BY <1>7
    <2>2. c[Sentinel] = 1
      BY <1>1, <1>2, <1>6, <1>7 DEF Measured
    <2> HIDE DEF c
    <2> QED
      BY <1>5, <2>1, <2>2 DEF Measured
  <1> HIDE DEF c
  <1>9. ASSUME NEW y \in In(t) PROVE HeightAt(r, c, Null, Null, y)
    <2> SUFFICES ASSUME NEW s \in Sides
                 PROVE c[y] = One(Black(r, y)) + One(y = Null /\ s = Null) + c[r[s][y]]
      BY DEF HeightAt
    <2>1. b[y] = One(Black(t, y)) + One(y = Null /\ s = Null) + b[t[s][y]]
      BY <1>6 DEF HeightAt
    <2>2. One(y = Null /\ s = Null) = 0
      BY <1>1 DEF One
    <2>3. c[r[s][y]] = b[t[s][y]] /\ b[t[s][y]] \in Nat /\ b[y] \in Nat
      <3>1. t[s][y] # t.root
        BY <1>1, <1>2 DEF Family
      <3> QED
        BY <1>1, <1>5, <1>7, <3>1
    <2>4. CASE y = t.root /\ Red(t, y)
      <3>1. c[y] = b[y] + 1 /\ One(Black(t, y)) = 0 /\ One(Black(r, y)) = 1
        BY <1>1, <1>4, <1>7, <2>4 DEF One, Black
      <3> QED
        BY <2>1, <2>2, <2>3, <3>1
    <2>5. CASE ~ (y = t.root /\ Red(t, y))
      <3>1. c[y] = b[y] /\ One(Black(t, y)) = One(Black(r, y))
        BY <1>1, <1>4, <1>7, <2>5 DEF One, Black
      <3> QED
        BY <2>1, <2>2, <2>3, <3>1
    <2> QED
      BY <2>4, <2>5
  <1>10. Reds(r, Null, Null)
    <2> SUFFICES ASSUME NEW y \in In(t), NEW s \in Sides, Red(r, y), Red(r, r[s][y])
                 PROVE  FALSE
      BY <1>5 DEF Reds
    <2>1. Red(t, y) /\ Red(t, t[s][y]) /\ r[s][y] = t[s][y] /\ y # t.root
      BY <1>1, <1>4, <1>5
    <2>2. t[s][y] = x
      BY <1>1, <2>1 DEF InsertAt, Reds
    <2>3. t.parent[x] = y /\ x # t.root
      BY <1>1, <1>2, <2>2 DEF Family
    <2> QED
      BY <2>1, <2>3
  <1>11. Black(r, r.root) /\ Black(r, Sentinel)
    BY <1>1, <1>2, <1>4 DEF InsertAt, Black
  <1>12. Settled(r, c)
    BY <1>5, <1>8, <1>9, <1>10, <1>11 DEF Settled, Heights
  <1> QED
    BY <1>4, <1>12

(* The delete loop: it is at x, a black node is missing above it. *)
Place(t, x) ==
  /\ t.parent[x] \in In(t) /\ SideOf(t, x) \in Sides
  /\ t[SideOf(t, x)][t.parent[x]] = x

\* temp is x: the heights agree but for one black above it.
DeleteAt(t, b, x) ==
  /\ x \in In(t) \cup {Sentinel} /\ Reds(t, x, x)
  /\ Black(t, t.root) /\ Black(t, Sentinel) /\ t.root \in In(t)
  /\ IF x = t.root THEN Heights(t, b, Null, Null)
     ELSE Place(t, x) /\ Heights(t, b, t.parent[x], SideOf(t, x))

\* The end of the delete loop.
LEMMA DeleteEnds ==
  ASSUME NEW t, NEW n, NEW pos, Ordered(t, n, pos), NEW b, NEW x, DeleteAt(t, b, x),
         ~ (x # t.root /\ Black(t, x)),
         NEW r, r = Paint(t, x, "black")
  PROVE  SameLinks(r, t) /\ \E c : Settled(r, c)
  <1>1. /\ t \in Trees /\ Family(t) /\ In(t) \subseteq Cells /\ Sentinel \notin In(t)
        /\ Sentinel \in Cells /\ Null \notin In(t) /\ Null \notin Cells
        /\ \A f \in Sides, y \in In(t) : t[f][y] \in In(t) \cup {Sentinel}
    BY Lines
  <1>2. x \in In(t) /\ x # Sentinel
    BY <1>1 DEF DeleteAt, Black
  <1>3. Painted(r, t, x, "black")
    BY <1>1, <1>2, PaintPainted
  <1>4. /\ SameLinks(r, t) /\ r.root = t.root
        /\ \A y \in Cells : Red(r, y) = IF y = x THEN FALSE ELSE Red(t, y)
    BY <1>3 DEF Painted, SameLinks, Red
  <1>5. In(r) = In(t) /\ Family(r) /\ \A f \in Sides : r[f] = t[f]
    BY <1>4, SameLinksOrdered, SideFacts DEF SameLinks
  <1>6. Reds(r, Null, Null)
    <2> SUFFICES ASSUME NEW y \in In(t), NEW s \in Sides, Red(r, y), Red(r, r[s][y])
                 PROVE  FALSE
      BY <1>5 DEF Reds
    <2>1. Red(t, y) /\ Red(t, t[s][y]) /\ y # x /\ t[s][y] # x
      BY <1>1, <1>4, <1>5
    <2> QED
      BY <2>1 DEF DeleteAt, Reds
  <1>7. Black(r, r.root) /\ Black(r, Sentinel)
    BY <1>1, <1>2, <1>4 DEF DeleteAt, Black
  <1>8. CASE x = t.root
    <2>1. \A y \in Cells : Red(r, y) = Red(t, y)
      <3>1. ~ Red(t, x)
        BY <1>8 DEF DeleteAt, Black
      <3> QED
        BY <1>4, <3>1 DEF Red
    <2>2. Heights(r, b, Null, Null)
      <3>1. Measured(t, b) /\ \A y \in In(t) : HeightAt(t, b, Null, Null, y)
        BY <1>8 DEF DeleteAt, Heights
      <3>2. Measured(r, b)
        BY <1>5, <3>1 DEF Measured
      <3>3. ASSUME NEW y \in In(t) PROVE HeightAt(r, b, Null, Null, y)
        <4>1. Black(r, y) = Black(t, y)
          BY <1>1, <2>1 DEF Black
        <4> QED
          BY <1>5, <3>1, <4>1 DEF HeightAt
      <3> QED
        BY <1>5, <3>2, <3>3 DEF Heights
    <2> QED
      BY <1>4, <1>6, <1>7, <2>2 DEF Settled
  <1>9. CASE x # t.root
    <2> DEFINE c == [y \in In(t) \cup {Sentinel} |-> IF y = x THEN b[y] + 1 ELSE b[y]]
               p == t.parent[x]
               side == SideOf(t, x)
    <2>1. /\ Measured(t, b) /\ Red(t, x) /\ p \in In(t) /\ side \in Sides /\ t[side][p] = x
          /\ \A y \in In(t) : HeightAt(t, b, p, side, y)
      BY <1>9 DEF DeleteAt, Heights, Place, Black
    <2> HIDE DEF side, p
    <2>2. /\ \A y \in In(t) \cup {Sentinel} : b[y] \in Nat \ {0}
          /\ \A y \in In(t) \cup {Sentinel} : c[y] = IF y = x THEN b[y] + 1 ELSE b[y]
      BY <2>1 DEF Measured
    <2>3. Measured(r, c)
      <3>1. c \in [In(t) \cup {Sentinel} -> Nat \ {0}]
        BY <2>2
      <3>2. c[Sentinel] = 1
        BY <1>2, <2>1, <2>2 DEF Measured
      <3> HIDE DEF c
      <3> QED
        BY <1>5, <3>1, <3>2 DEF Measured
    <2> HIDE DEF c
    <2>4. ASSUME NEW y \in In(t) PROVE HeightAt(r, c, Null, Null, y)
      <3> SUFFICES ASSUME NEW s \in Sides
                   PROVE c[y] = One(Black(r, y)) + One(y = Null /\ s = Null) + c[r[s][y]]
        BY DEF HeightAt
      <3>1. b[y] = One(Black(t, y)) + One(y = p /\ s = side) + b[t[s][y]]
        BY <2>1 DEF HeightAt
      <3>2. One(y = Null /\ s = Null) = 0
        BY <1>1 DEF One
      <3>3. t[s][y] \in In(t) \cup {Sentinel} /\ r[s][y] = t[s][y]
        BY <1>1, <1>5
      <3>4. c[r[s][y]] = b[t[s][y]] + One(y = p /\ s = side)
        <4>1. t[s][y] = x <=> y = p /\ s = side
          <5>1. t[s][y] = x => y = p /\ s = side
            BY <1>1, <1>2 DEF Family, p, side
          <5> QED
            BY <2>1, <5>1
        <4> QED
          BY <2>2, <3>3, <4>1 DEF One
      <3>5. c[y] = b[y] + One(Black(r, y)) - One(Black(t, y))
        <4>1. CASE y = x
          <5>1. c[y] = b[y] + 1 /\ b[y] \in Nat
            BY <2>2, <4>1
          <5>2. One(Black(r, y)) = 1 /\ One(Black(t, y)) = 0
            BY <1>1, <1>4, <2>1, <4>1 DEF One, Black
          <5> QED
            BY <5>1, <5>2
        <4>2. CASE y # x
          <5>1. Black(r, y) = Black(t, y)
            BY <1>1, <1>4, <4>2 DEF Black
          <5> QED
            BY <2>2, <4>2, <5>1 DEF One
        <4> QED
          BY <4>1, <4>2
      <3>6. b[y] \in Nat /\ b[t[s][y]] \in Nat /\ \A q : One(q) \in {0, 1}
        BY <2>2, <3>3 DEF One
      <3> QED
        BY <3>1, <3>2, <3>4, <3>5, <3>6
    <2>5. Settled(r, c)
      BY <1>5, <1>6, <1>7, <2>3, <2>4 DEF Settled, Heights
    <2> QED
      BY <1>4, <2>5
  <1> QED
    BY <1>8, <1>9

\* A turn of the delete loop is at x, the child of p on that side.
Lacking(t, b, x, p, side) ==
  /\ x \in In(t) \cup {Sentinel} /\ x # t.root /\ Black(t, x)
  /\ p \in In(t) /\ side \in Sides /\ t[side][p] = x /\ p = t.parent[x] /\ side = SideOf(t, x)
  /\ Heights(t, b, p, side) /\ Reds(t, Null, Null)
  /\ Black(t, t.root) /\ Black(t, Sentinel) /\ t.root \in In(t)

\* A turn of the delete loop finds a black missing.
LEMMA LackingHere ==
  ASSUME NEW t, NEW n, NEW pos, Ordered(t, n, pos), NEW b, NEW x, DeleteAt(t, b, x),
         x # t.root, Black(t, x)
  PROVE  Lacking(t, b, x, t.parent[x], SideOf(t, x))
  <1>1. ASSUME NEW y \in In(t), NEW s \in Sides, Red(t, y), Red(t, t[s][y]) PROVE FALSE
    BY <1>1 DEF DeleteAt, Reds, Black
  <1> QED
    BY <1>1 DEF DeleteAt, Place, Lacking, Reds

\* The sibling is a node, since a black is missing on this side.
SiblingFacts(t, b, x, p, side, o, w) ==
  /\ o \in Sides /\ o # side /\ Opposite(o) = side /\ (\A f \in Sides : f = side \/ f = o)
  /\ w \in In(t) /\ w # x /\ w # p /\ p # x /\ w # t.root /\ t.parent[w] = p
  /\ b[x] \in Nat \ {0} /\ b[w] = b[x] + 1 /\ b[p] = One(Black(t, p)) + b[w]
  /\ \A f \in Sides : /\ t[f][w] \in In(t) \cup {Sentinel}
                      /\ b[t[f][w]] \in Nat \ {0}
                      /\ b[w] = One(Black(t, w)) + b[t[f][w]]
                      /\ t[f][w] # w /\ t[f][w] # p /\ (t[f][w] = x => x = Sentinel)
  /\ Red(t, w) => /\ Black(t, p) /\ p # w
                  /\ \A f \in Sides : Black(t, t[f][w]) /\ t[f][w] # Sentinel

\* The facts about the sibling.
LEMMA SiblingKnown ==
  ASSUME NEW t, NEW n, NEW pos, Ordered(t, n, pos), NEW b, NEW x, NEW p, NEW side,
         Lacking(t, b, x, p, side), NEW o, o = Opposite(side), NEW w, w = t[o][p]
  PROVE  SiblingFacts(t, b, x, p, side, o, w)
  <1>1. /\ t \in Trees /\ Family(t) /\ In(t) \subseteq Cells /\ Sentinel \notin In(t)
        /\ Sentinel \in Cells /\ Null \notin In(t) /\ Null \notin Cells
        /\ \A f \in Sides, y \in In(t) : t[f][y] \in In(t) \cup {Sentinel}
    BY Lines
  <1>2. /\ x \in In(t) \cup {Sentinel} /\ p \in In(t) /\ side \in Sides /\ t[side][p] = x
        /\ Heights(t, b, p, side) /\ ~ Red(t, x) /\ Reds(t, Null, Null) /\ p = t.parent[x]
    BY DEF Lacking, Black
  <1>3. o \in Sides /\ o # side /\ Opposite(o) = side /\ (\A f \in Sides : f = side \/ f = o)
    BY <1>2, SideFacts, TwoSides
  <1>4. /\ \A y \in In(t) \cup {Sentinel} : b[y] \in Nat \ {0}
        /\ b[Sentinel] = 1
        /\ \A y \in In(t), f \in Sides :
             b[y] = One(Black(t, y)) + One(y = p /\ f = side) + b[t[f][y]]
    BY <1>2 DEF Heights, Measured, HeightAt
  <1>5. One(TRUE) = 1 /\ One(FALSE) = 0 /\ (\A q : One(q) \in {0, 1})
    BY DEF One
  <1>6. b[x] \in Nat \ {0} /\ b[w] = b[x] + 1 /\ b[p] = One(Black(t, p)) + b[w]
    <2>1. b[p] = One(Black(t, p)) + One(p = p /\ side = side) + b[x]
      BY <1>2, <1>4
    <2>2. b[p] = One(Black(t, p)) + One(p = p /\ o = side) + b[w]
      BY <1>2, <1>3, <1>4
    <2>3. One(p = p /\ side = side) = 1 /\ One(p = p /\ o = side) = 0
      BY <1>3 DEF One
    <2>4. b[x] \in Nat \ {0} /\ b[w] \in Nat \ {0} /\ One(Black(t, p)) \in {0, 1}
      BY <1>1, <1>2, <1>3, <1>4, <1>5
    <2> QED
      BY <2>1, <2>2, <2>3, <2>4
  <1>7. w \in In(t)
    <2>1. w # Sentinel
      BY <1>4, <1>6
    <2> QED
      BY <1>1, <1>2, <1>3, <2>1
  <1>8. w # x /\ w # p /\ w # t.root /\ t.parent[w] = p /\ p # x
    BY <1>1, <1>2, <1>3, <1>7 DEF Family
  <1>9. ASSUME NEW f \in Sides
        PROVE  /\ t[f][w] \in In(t) \cup {Sentinel} /\ b[t[f][w]] \in Nat \ {0}
               /\ b[w] = One(Black(t, w)) + b[t[f][w]]
               /\ t[f][w] # w /\ t[f][w] # p /\ (t[f][w] = x => x = Sentinel)
    <2>1. t[f][w] \in In(t) \cup {Sentinel} /\ b[t[f][w]] \in Nat \ {0}
      BY <1>1, <1>4, <1>7
    <2>2. b[w] = One(Black(t, w)) + One(w = p /\ f = side) + b[t[f][w]]
      BY <1>4, <1>7
    <2>3. One(w = p /\ f = side) = 0 /\ One(Black(t, w)) \in {0, 1}
      BY <1>5, <1>8
    <2>4. t[f][w] # w
      BY <1>1, <1>7 DEF Family
    <2>5. t[f][w] # p
      <3>1. t[o][p] # Sentinel /\ \A s2 \in Sides : t[s2][t[o][p]] # p
        BY <1>1, <1>2, <1>3, <1>7 DEF Family
      <3> QED
        BY <3>1
    <2>6. ASSUME t[f][w] = x, x # Sentinel PROVE FALSE
      <3>1. t.parent[x] = w
        BY <1>1, <1>7, <2>6 DEF Family
      <3> QED
        BY <1>2, <1>8, <3>1
    <2> QED
      BY <1>6, <2>1, <2>2, <2>3, <2>4, <2>5, <2>6
  <1>10. ASSUME Red(t, w)
         PROVE  /\ Black(t, p)
                /\ \A f \in Sides : Black(t, t[f][w]) /\ t[f][w] # Sentinel
    <2>1. \A y \in In(t), f \in Sides : ~ (Red(t, y) /\ Red(t, t[f][y]))
      <3>1. ASSUME NEW y \in In(t), NEW f \in Sides, Red(t, y), Red(t, t[f][y])
            PROVE  t[f][y] = Null \/ y = Null
        BY <1>2, <3>1 DEF Reds
      <3> QED
        BY <1>1, <3>1
    <2>2. Black(t, p)
      BY <1>2, <1>3, <1>10, <2>1 DEF Black
    <2>3. ASSUME NEW f \in Sides PROVE Black(t, t[f][w]) /\ t[f][w] # Sentinel
      <3>1. b[w] = One(Black(t, w)) + b[t[f][w]] /\ One(Black(t, w)) = 0
        BY <1>9, <1>10 DEF One, Black
      <3>2. t[f][w] # Sentinel
        BY <1>4, <1>6, <3>1
      <3> QED
        BY <1>7, <1>10, <2>1, <3>2 DEF Black
    <2> QED
      BY <2>2, <2>3
  <1> QED
    BY <1>3, <1>6, <1>7, <1>8, <1>9, <1>10 DEF SiblingFacts

\* A black sibling without a red child: it is painted red, and the loop climbs.
LEMMA DeleteClimbs ==
  ASSUME NEW t, NEW n, NEW pos, Ordered(t, n, pos), NEW b, NEW x, NEW p, NEW side,
         Lacking(t, b, x, p, side), NEW o, o = Opposite(side), NEW w, w = t[o][p],
         Black(t, w), Black(t, t.left[w]), Black(t, t.right[w]),
         NEW r, r = Paint(t, w, "red")
  PROVE  SameLinks(r, t) /\ \E c : DeleteAt(r, c, p)
  <1>1. /\ t \in Trees /\ Family(t) /\ In(t) \subseteq Cells /\ Sentinel \notin In(t)
        /\ Sentinel \in Cells /\ Null \notin In(t) /\ Null \notin Cells
        /\ (\A f \in Sides, y \in In(t) : t[f][y] \in In(t) \cup {Sentinel})
        /\ t["left"] = t.left /\ t["right"] = t.right
    BY Lines
  <1>2. /\ x \in In(t) \cup {Sentinel} /\ p \in In(t) /\ side \in Sides /\ t[side][p] = x
        /\ Heights(t, b, p, side) /\ Reds(t, Null, Null)
        /\ ~ Red(t, x) /\ ~ Red(t, t.root) /\ ~ Red(t, Sentinel) /\ t.root \in In(t)
    BY DEF Lacking, Black
  <1>3. SiblingFacts(t, b, x, p, side, o, w)
    BY SiblingKnown
  <1>4. /\ o \in Sides /\ o # side /\ (\A f \in Sides : f = side \/ f = o)
        /\ w \in In(t) /\ w # x /\ w # p /\ w # t.root /\ t.parent[w] = p /\ p # x
        /\ b[x] \in Nat \ {0} /\ b[w] = b[x] + 1 /\ b[p] = One(Black(t, p)) + b[w]
        /\ (\A f \in Sides : t[f][w] # w /\ t[f][w] # p)
        /\ ~ Red(t, w)
    BY <1>3 DEF SiblingFacts, Black
  <1>5. Painted(r, t, w, "red")
    BY <1>1, <1>4, PaintPainted
  <1>6. /\ SameLinks(r, t) /\ r.root = t.root
        /\ \A y \in Cells : Red(r, y) = IF y = w THEN TRUE ELSE Red(t, y)
    BY <1>5 DEF Painted, SameLinks, Red
  <1>7. /\ In(r) = In(t) /\ Family(r) /\ (\A f \in Sides : r[f] = t[f])
        /\ r.parent = t.parent /\ \A y : SideOf(r, y) = SideOf(t, y)
    BY <1>6, SameLinksOrdered, SideFacts DEF SameLinks
  <1> DEFINE c == [y \in In(t) \cup {Sentinel} |-> IF y \in {p, w} THEN b[y] - 1 ELSE b[y]]
             mp == IF p = t.root THEN Null ELSE t.parent[p]
             ms == IF p = t.root THEN Null ELSE SideOf(t, p)
  <1>8. /\ \A y \in In(t) \cup {Sentinel} : b[y] \in Nat \ {0}
        /\ b[Sentinel] = 1
        /\ \A y \in In(t) \cup {Sentinel} : c[y] = IF y \in {p, w} THEN b[y] - 1 ELSE b[y]
        /\ \A y \in In(t), f \in Sides :
             b[y] = One(Black(t, y)) + One(y = p /\ f = side) + b[t[f][y]]
    BY <1>2 DEF Heights, Measured, HeightAt
  <1>9. \A y \in In(t) \cup {Sentinel} : c[y] \in Nat \ {0}
    <2>1. c[p] = b[p] - 1 /\ c[w] = b[w] - 1
      BY <1>2, <1>4, <1>8
    <2>2. b[w] > 1 /\ b[w] \in Nat
      BY <1>4
    <2>3. One(Black(t, p)) \in {0, 1}
      BY DEF One
    <2>4. b[p] > 1 /\ b[p] \in Nat
      BY <1>4, <2>2, <2>3
    <2>5. \A y \in In(t) \cup {Sentinel} : y \notin {p, w} => c[y] = b[y]
      BY <1>8
    <2> HIDE DEF c
    <2>6. c[p] \in Nat \ {0} /\ c[w] \in Nat \ {0}
      BY <2>1, <2>2, <2>4
    <2> QED
      BY <1>8, <2>5, <2>6
  <1>10. Measured(r, c)
    <2>1. c \in [In(t) \cup {Sentinel} -> Nat \ {0}]
      BY <1>9
    <2>2. c[Sentinel] = 1
      BY <1>1, <1>2, <1>4, <1>8
    <2> HIDE DEF c
    <2> QED
      BY <1>7, <2>1, <2>2 DEF Measured
  <1> HIDE DEF c
  <1>11. \A y \in In(t), f \in Sides : t[f][y] = p <=> y = mp /\ f = ms
    <2>1. ASSUME NEW y \in In(t), NEW f \in Sides, t[f][y] = p
          PROVE  y = mp /\ f = ms
      BY <1>1, <1>2, <2>1 DEF Family
    <2>2. ASSUME NEW y \in In(t), NEW f \in Sides, y = mp, f = ms
          PROVE  t[f][y] = p
      BY <1>1, <1>2, <2>2 DEF Family
    <2> QED
      BY <2>1, <2>2
  <1>12. ASSUME NEW y \in In(t) PROVE HeightAt(r, c, mp, ms, y)
    <2> SUFFICES ASSUME NEW f \in Sides
                 PROVE c[y] = One(Black(r, y)) + One(y = mp /\ f = ms) + c[r[f][y]]
      BY DEF HeightAt
    <2> HIDE DEF mp, ms
    <2>1. b[y] = One(Black(t, y)) + One(y = p /\ f = side) + b[t[f][y]]
      BY <1>8
    <2>2. /\ r[f][y] = t[f][y] /\ t[f][y] \in In(t) \cup {Sentinel}
          /\ b[y] \in Nat /\ b[t[f][y]] \in Nat
          /\ c[y] = (IF y \in {p, w} THEN b[y] - 1 ELSE b[y])
          /\ c[t[f][y]] = (IF t[f][y] \in {p, w} THEN b[t[f][y]] - 1 ELSE b[t[f][y]])
      BY <1>1, <1>7, <1>8
    <2>3. One(y = mp /\ f = ms) = One(t[f][y] = p)
      BY <1>11
    <2>4. CASE y = w
      <3>1. t[f][y] \notin {p, w} /\ y # p
        BY <1>4, <2>4
      <3>2. /\ One(Black(t, y)) = 1 /\ One(Black(r, y)) = 0
            /\ One(y = p /\ f = side) = 0 /\ One(t[f][y] = p) = 0
        BY <1>1, <1>4, <1>6, <2>4, <3>1 DEF One, Black
      <3> QED
        BY <2>1, <2>2, <2>3, <2>4, <3>1, <3>2
    <2>5. CASE y = p
      <3>1. t[f][y] # p
        BY <1>1, <2>5 DEF Family
      <3>2. /\ One(Black(t, y)) = One(Black(r, y)) /\ One(Black(t, y)) \in {0, 1}
            /\ One(t[f][y] = p) = 0
        BY <1>1, <1>4, <1>6, <2>5, <3>1 DEF One, Black
      <3>3. CASE f = side
        <4>1. t[f][y] \notin {p, w} /\ One(y = p /\ f = side) = 1
          BY <1>2, <1>4, <2>5, <3>3 DEF One
        <4> QED
          BY <2>1, <2>2, <2>3, <2>5, <3>2, <4>1
      <3>4. CASE f = o
        <4>1. t[f][y] \in {p, w} /\ One(y = p /\ f = side) = 0
          BY <1>2, <1>4, <2>5, <3>4 DEF One
        <4> QED
          BY <2>1, <2>2, <2>3, <2>5, <3>2, <4>1
      <3> QED
        BY <1>4, <3>3, <3>4
    <2>6. CASE y \notin {p, w}
      <3>1. t[f][y] # w
        BY <1>1, <1>4, <2>6 DEF Family
      <3>2. /\ One(Black(t, y)) = One(Black(r, y)) /\ One(Black(t, y)) \in {0, 1}
            /\ One(y = p /\ f = side) = 0
        <4>1. Black(t, y) = Black(r, y)
          BY <1>1, <1>6, <2>6 DEF Black
        <4> QED
          BY <2>6, <4>1 DEF One
      <3>3. CASE t[f][y] = p
        <4>1. One(t[f][y] = p) = 1
          BY <3>3 DEF One
        <4> QED
          BY <2>1, <2>2, <2>3, <2>6, <3>2, <3>3, <4>1
      <3>4. CASE t[f][y] # p
        <4>1. One(t[f][y] = p) = 0
          BY <3>4 DEF One
        <4> QED
          BY <2>1, <2>2, <2>3, <2>6, <3>1, <3>2, <3>4, <4>1
      <3> QED
        BY <3>3, <3>4
    <2> QED
      BY <2>4, <2>5, <2>6
  <1>13. Reds(r, p, p)
    <2> SUFFICES ASSUME NEW y \in In(t), NEW f \in Sides, Red(r, y), Red(r, r[f][y])
                 PROVE  r[f][y] = p \/ y = p
      BY <1>7 DEF Reds
    <2>1. r[f][y] = t[f][y] /\ t[f][y] \in Cells /\ y \in Cells
      BY <1>1, <1>7
    <2>2. CASE y = w
      <3>1. ~ Red(t, t[f][w])
        BY <1>1 DEF Black, Sides
      <3> QED
        BY <1>4, <1>6, <2>1, <2>2, <3>1
    <2>3. CASE t[f][y] = w
      BY <1>1, <1>4, <2>3 DEF Family
    <2>4. CASE y # w /\ t[f][y] # w
      <3>1. Red(t, y) /\ Red(t, t[f][y])
        BY <1>6, <2>1, <2>4
      <3> QED
        BY <1>1, <1>2, <2>1, <3>1 DEF Reds
    <2> QED
      BY <2>2, <2>3, <2>4
  <1>14. Black(r, r.root) /\ Black(r, Sentinel) /\ r.root \in In(r)
    BY <1>1, <1>2, <1>4, <1>6, <1>7 DEF Black
  <1>15. Heights(r, c, mp, ms)
    BY <1>7, <1>10, <1>12 DEF Heights
  <1>16. p # t.root => Place(r, p) /\ mp = r.parent[p] /\ ms = SideOf(r, p)
    <2> SUFFICES ASSUME p # t.root
                 PROVE  Place(r, p) /\ mp = r.parent[p] /\ ms = SideOf(r, p)
      OBVIOUS
    <2>1. mp = r.parent[p] /\ ms = SideOf(r, p)
      BY <1>7
    <2>2. Place(r, p)
      BY <1>2, <1>6, <1>7 DEF Place, Family
    <2> QED
      BY <2>1, <2>2
  <1>17. DeleteAt(r, c, p)
    BY <1>2, <1>6, <1>7, <1>13, <1>14, <1>15, <1>16 DEF DeleteAt, mp, ms
  <1> QED
    BY <1>6, <1>17

\* A child knows its parent and its side.
LEMMA FamilyChild ==
  ASSUME NEW t, Family(t), NEW x \in In(t), NEW s \in Sides, t[s][x] # Sentinel
  PROVE  /\ t[s][x] \in In(t) /\ t.parent[t[s][x]] = x /\ SideOf(t, t[s][x]) = s
         /\ t[s][x] # t.root
  BY DEF Family

\* The red child of a black sibling is made the outer one.
LEMMA OuterReddened ==
  ASSUME NEW t, NEW n, NEW pos, Ordered(t, n, pos), NEW b, NEW x, NEW p, NEW side,
         Lacking(t, b, x, p, side), NEW o, o = Opposite(side), NEW w, w = t[o][p],
         Black(t, w), NEW inner, inner = t[side][w], Red(t, inner), Black(t, t[o][w]),
         NEW r, r = Rotate(Paint(Paint(t, inner, "black"), w, "red"), w, o)
  PROVE  /\ In(r) = In(t) /\ Ordered(r, n, pos) /\ r.key = t.key
         /\ r[o][p] = inner /\ Black(r, inner) /\ r[o][inner] = w /\ Red(r, w)
         /\ \E c : Lacking(r, c, x, p, side)
  <1> DEFINE s == Paint(Paint(t, inner, "black"), w, "red")
             mid == t[o][inner]
             outer == t[o][w]
             near == t[side][inner]
  <1>1. /\ t \in Trees /\ Family(t) /\ In(t) \subseteq Cells /\ Sentinel \notin In(t)
        /\ Sentinel \in Cells /\ Null \notin In(t) /\ Null \notin Cells
        /\ (\A f \in Sides, y \in In(t) : t[f][y] \in In(t) \cup {Sentinel})
    BY Lines
  <1>2. /\ x \in In(t) \cup {Sentinel} /\ p \in In(t) /\ side \in Sides /\ t[side][p] = x
        /\ x # t.root /\ p = t.parent[x] /\ side = SideOf(t, x)
        /\ Heights(t, b, p, side) /\ Reds(t, Null, Null)
        /\ ~ Red(t, x) /\ ~ Red(t, t.root) /\ ~ Red(t, Sentinel) /\ t.root \in In(t)
    BY DEF Lacking, Black
  <1>3. SiblingFacts(t, b, x, p, side, o, w)
    BY SiblingKnown
  <1>4. /\ o \in Sides /\ o # side /\ Opposite(o) = side /\ (\A f \in Sides : f = side \/ f = o)
        /\ w \in In(t) /\ w # x /\ w # p /\ w # t.root /\ t.parent[w] = p /\ p # x
        /\ ~ Red(t, w)
    BY <1>3 DEF SiblingFacts, Black
  <1>5. /\ inner \in In(t) \cup {Sentinel} /\ outer \in In(t) \cup {Sentinel}
        /\ b[inner] \in Nat \ {0} /\ b[outer] \in Nat \ {0}
        /\ b[w] = One(Black(t, w)) + b[inner] /\ b[w] = One(Black(t, w)) + b[outer]
        /\ inner # w /\ inner # p /\ outer # w /\ outer # p
        /\ (inner = x => x = Sentinel) /\ ~ Red(t, outer)
    BY <1>2, <1>3, <1>4 DEF SiblingFacts, Black
  <1>6. inner \in In(t) /\ inner # Sentinel /\ inner # x
    BY <1>1, <1>2, <1>5
  <1>7. SideOf(t, w) = o
    BY <1>1, <1>2, <1>4 DEF Family
  <1>8. /\ mid \in In(t) \cup {Sentinel} /\ near \in In(t) \cup {Sentinel}
        /\ mid # w /\ mid # inner /\ near # w /\ near # inner
        /\ ~ Red(t, mid) /\ ~ Red(t, near)
    <2>1. ASSUME NEW f \in Sides
          PROVE  /\ t[f][inner] \in In(t) \cup {Sentinel} /\ t[f][inner] # inner
                 /\ t[f][inner] # w /\ ~ Red(t, t[f][inner])
      <3>1. t[f][inner] \in In(t) \cup {Sentinel} /\ t[f][inner] # inner
        BY <1>1, <1>6 DEF Family
      <3>2. t[f][inner] # w
        <4>1. ASSUME t[f][inner] = w PROVE FALSE
          <5>1. t[f][inner] # Sentinel
            BY <1>1, <1>4, <4>1
          <5>2. t.parent[t[f][inner]] = inner
            BY <1>1, <1>6, <2>1, <5>1, FamilyChild
          <5> QED
            BY <1>4, <1>5, <4>1, <5>2
        <4> QED
          BY <4>1
      <3>3. ~ Red(t, t[f][inner])
        <4>1. ASSUME Red(t, t[f][inner]) PROVE t[f][inner] = Null \/ inner = Null
          BY <1>2, <1>6, <4>1 DEF Reds
        <4> QED
          BY <1>1, <1>6, <3>1, <4>1
      <3> QED
        BY <3>1, <3>2, <3>3
    <2> QED
      BY <1>2, <1>4, <2>1
  <1>9. PaintedTwice(s, t, inner, "black", w, "red") /\ r = Rotate(s, w, o)
    BY <1>1, <1>4, <1>6, PaintTwice
  <1> HIDE DEF s
  <1>10. Turned(r, s, t, n, pos, w, o)
    <2>1. SameLinks(s, t) /\ t[Opposite(o)][w] # Sentinel
      BY <1>4, <1>6, <1>9 DEF PaintedTwice
    <2> QED
      BY <1>4, <1>9, <2>1, TurnSame
  <1>11. TurnedLinks(r, t, w, o, side, inner)
    <2>1. side = Opposite(o) /\ inner = t[side][w] /\ inner # Sentinel
      BY <1>4, <1>6
    <2> QED
      BY <1>4, <1>10, <2>1, TurnLinks
  <1>12. /\ In(r) = In(t) /\ Ordered(r, n, pos) /\ r.key = t.key /\ r \in Trees /\ Family(r)
         /\ s \in Trees /\ Family(s) /\ In(s) = In(t) /\ Rotated(r, s, w, o)
         /\ \A f \in Sides : s[f] = t[f]
    BY <1>9, <1>10 DEF Turned, PaintedTwice
  <1>13. /\ \A y \in Cells : Red(s, y) = IF y = w THEN TRUE ELSE IF y = inner THEN FALSE
                                         ELSE Red(t, y)
         /\ \A y \in Cells : Red(r, y) = Red(s, y)
    BY <1>9, <1>10 DEF PaintedTwice, Turned, Red
  <1>14. /\ r[o][inner] = w /\ r[side][inner] = near /\ r[side][w] = mid /\ r[o][w] = outer
         /\ r[o][p] = inner /\ r.root = t.root
         /\ r.parent[Sentinel] = t.parent[Sentinel]
         /\ \A y \in In(t), f \in Sides : y \notin {w, inner} => r[f][y] \in {inner, t[f][y]}
    <2>1. /\ r[o][inner] = w /\ r[side][inner] = near /\ r[side][w] = mid /\ r[o][w] = outer
          /\ r.parent[Sentinel] = t.parent[Sentinel]
      BY <1>11 DEF TurnedLinks
    <2>2. r[o][p] = inner /\ r.root = t.root
      BY <1>4, <1>7, <1>11 DEF TurnedLinks
    <2>3. ASSUME NEW y \in In(t), NEW f \in Sides, y \notin {w, inner}
          PROVE  r[f][y] \in {inner, t[f][y]}
      <3>1. r[f][y] = IF w # t.root /\ y = t.parent[w] /\ f = SideOf(t, w)
                      THEN inner ELSE t[f][y]
        BY <1>11, <2>3 DEF TurnedLinks
      <3> QED
        BY <3>1
    <2> QED
      BY <2>1, <2>2, <2>3
  <1>15. r[side][p] = x
    BY <1>2, <1>4, <1>5, <1>7, <1>11 DEF TurnedLinks
  <1>16. /\ Measured(t, b) /\ (\A y \in In(t) : HeightAt(t, b, p, side, y))
         /\ (\A y \in In(t) \cup {Sentinel} : b[y] \in Nat \ {0}) /\ b[Sentinel] = 1
    BY <1>2 DEF Heights, Measured
  <1>17. /\ b[w] = 1 + b[inner] /\ b[outer] = b[inner] /\ b[mid] = b[inner]
         /\ b[near] = b[inner] /\ b[inner] \in Nat \ {0} /\ b[w] \in Nat \ {0}
    <2>1. /\ b[inner] = One(Black(t, inner)) + One(inner = p /\ o = side) + b[t[o][inner]]
          /\ b[inner] = One(Black(t, inner)) + One(inner = p /\ side = side) + b[t[side][inner]]
      BY <1>2, <1>4, <1>6, <1>16 DEF HeightAt
    <2>2. /\ One(Black(t, w)) = 1 /\ One(Black(t, inner)) = 0
          /\ One(inner = p /\ o = side) = 0 /\ One(inner = p /\ side = side) = 0
      BY <1>4, <1>5 DEF One, Black
    <2>3. b[mid] \in Nat /\ b[near] \in Nat /\ b[w] \in Nat \ {0}
      BY <1>4, <1>8, <1>16
    <2>4. /\ b[inner] = One(Black(t, inner)) + One(inner = p /\ o = side) + b[mid]
          /\ b[inner] = One(Black(t, inner)) + One(inner = p /\ side = side) + b[near]
      BY <2>1
    <2> HIDE DEF mid, near, outer
    <2>5. b[inner] \in Nat \ {0} /\ b[mid] = b[inner] /\ b[near] = b[inner]
      BY <1>5, <2>2, <2>3, <2>4
    <2>6. b[w] = 1 + b[inner] /\ b[w] = 1 + b[outer] /\ b[outer] \in Nat
      BY <1>5, <2>2
    <2> QED
      BY <2>3, <2>5, <2>6
  <1> DEFINE c == [y \in In(t) \cup {Sentinel} |->
                     IF y = w THEN b[inner] ELSE IF y = inner THEN b[w] ELSE b[y]]
  <1>18. /\ Measured(r, c) /\ Measured(s, b) /\ Measured(s, c)
         /\ c[w] = b[inner] /\ c[inner] = b[w] /\ c[outer] = b[inner] /\ c[mid] = b[inner]
         /\ c[near] = b[inner]
         /\ \A y \in In(t) \ {w, inner} : c[y] = b[y]
    <2>1. c \in [In(t) \cup {Sentinel} -> Nat \ {0}]
      BY <1>16, <1>17
    <2>2. c[Sentinel] = 1
      BY <1>1, <1>4, <1>6, <1>16
    <2>3. c[w] = b[inner] /\ c[inner] = b[w] /\ \A y \in In(t) \ {w, inner} : c[y] = b[y]
      BY <1>4, <1>5, <1>6
    <2>4. outer # inner
      <3>1. t[Opposite(side)][w] # t[side][w]
        BY <1>1, <1>2, <1>4, <1>6 DEF Family
      <3> QED
        BY <3>1
    <2>5. c[outer] = b[inner] /\ c[mid] = b[inner] /\ c[near] = b[inner]
      BY <1>5, <1>8, <1>17, <2>4
    <2> HIDE DEF c
    <2>6. Measured(r, c) /\ Measured(s, b) /\ Measured(s, c)
      BY <1>12, <1>16, <2>1, <2>2 DEF Measured
    <2> QED
      BY <2>3, <2>5, <2>6
  <1> HIDE DEF c
  <1>19. Heights(r, c, p, side)
    <2>1. HeightAt(r, c, p, side, w)
      <3> SUFFICES ASSUME NEW f \in Sides
                   PROVE c[w] = One(Black(r, w)) + One(w = p /\ f = side) + c[r[f][w]]
        BY DEF HeightAt
      <3>1. c[r[f][w]] = b[inner]
        <4>1. c[r[o][w]] = b[inner] /\ c[r[side][w]] = b[inner]
          BY <1>14, <1>18
        <4> QED
          BY <1>4, <4>1
      <3>2. One(Black(r, w)) = 0 /\ One(w = p /\ f = side) = 0
        BY <1>1, <1>4, <1>13 DEF One, Black
      <3> QED
        BY <1>17, <1>18, <3>1, <3>2
    <2>2. HeightAt(r, c, p, side, inner)
      <3> SUFFICES ASSUME NEW f \in Sides
                   PROVE c[inner] = One(Black(r, inner)) + One(inner = p /\ f = side)
                                    + c[r[f][inner]]
        BY DEF HeightAt
      <3>1. c[r[f][inner]] = b[inner]
        <4>1. c[r[o][inner]] = b[inner] /\ c[r[side][inner]] = b[inner]
          BY <1>14, <1>18
        <4> QED
          BY <1>4, <4>1
      <3>2. One(Black(r, inner)) = 1 /\ One(inner = p /\ f = side) = 0
        BY <1>1, <1>5, <1>6, <1>13 DEF One, Black
      <3> QED
        <4>1. c[inner] = b[w] /\ b[w] = 1 + b[inner] /\ b[inner] \in Nat
          BY <1>17, <1>18
        <4>2. 1 + b[inner] = 1 + 0 + b[inner]
          BY <4>1
        <4> QED
          BY <3>1, <3>2, <4>1, <4>2, Zenon
    <2>3. ASSUME NEW y \in In(t) \ {w, inner} PROVE HeightAt(s, b, p, side, y)
      <3>1. Black(s, y) = Black(t, y)
        BY <1>1, <1>13 DEF Black
      <3> QED
        BY <1>12, <1>16, <3>1 DEF HeightAt
    <2>4. /\ w \in In(s) /\ inner = s[Opposite(o)][w] /\ inner # Sentinel /\ In(r) = In(s)
          /\ (\A y \in In(s) \ {w, inner} : HeightAt(s, b, p, side, y))
          /\ (\A y \in In(s) \ {w, inner} : c[y] = b[y])
          /\ c[inner] = b[w]
      BY <1>2, <1>4, <1>6, <1>12, <1>18, <2>3
    <2>5. s \in Trees /\ Family(s) /\ o \in Sides /\ Rotated(r, s, w, o)
          /\ Measured(s, b) /\ Measured(s, c)
      BY <1>4, <1>12, <1>18
    <2> QED
      BY <2>1, <2>2, <2>4, <2>5, RotateHeights
  <1>20. Reds(r, Null, Null)
    <2> SUFFICES ASSUME NEW y \in In(t), NEW f \in Sides, Red(r, y), Red(r, r[f][y])
                 PROVE  FALSE
      BY <1>12 DEF Reds
    <2>1. y # inner /\ y \in Cells
      BY <1>1, <1>5, <1>13
    <2>2. CASE y = w
      <3>1. r[f][y] \in {mid, outer} /\ mid \in Cells /\ outer \in Cells
        BY <1>1, <1>4, <1>5, <1>8, <1>14, <2>2
      <3> QED
        BY <1>5, <1>8, <1>13, <3>1
    <2>3. CASE y # w
      <3>1. r[f][y] \in {inner, t[f][y]} /\ t[f][y] \in Cells /\ Red(t, y)
        BY <1>1, <1>13, <1>14, <2>1, <2>3
      <3>2. r[f][y] = t[f][y] /\ t[f][y] # inner
        BY <1>1, <1>5, <1>6, <1>13, <3>1
      <3>3. t[f][y] # w
        <4>1. ASSUME t[f][y] = w PROVE FALSE
          <5>1. y = t.parent[w] /\ f = SideOf(t, w)
            BY <1>1, <1>4, <4>1 DEF Family
          <5>2. r[f][y] = inner
            BY <1>4, <1>11, <2>1, <2>3, <5>1 DEF TurnedLinks
          <5> QED
            BY <3>2, <5>2
        <4> QED
          BY <4>1
      <3>4. Red(t, t[f][y])
        BY <1>13, <3>1, <3>2, <3>3
      <3> QED
        BY <1>1, <1>2, <3>1, <3>4 DEF Reds
    <2> QED
      BY <2>2, <2>3
  <1>21. /\ ~ Red(r, x) /\ ~ Red(r, r.root) /\ ~ Red(r, Sentinel) /\ r.root \in In(r)
         /\ Red(r, w) /\ ~ Red(r, inner)
    <2>1. \A y \in Cells : y # w => (Red(r, y) => Red(t, y))
      BY <1>13
    <2>2. x \in Cells /\ t.root \in Cells /\ w \in Cells /\ inner \in Cells
      BY <1>1, <1>2, <1>4, <1>6
    <2> QED
      BY <1>1, <1>2, <1>4, <1>5, <1>12, <1>13, <1>14, <2>1, <2>2
  <1>22. r.parent[x] = p /\ SideOf(r, x) = side
    <2>1. CASE x # Sentinel
      <3>1. p \in In(r) /\ r[side][p] # Sentinel
        BY <1>2, <1>12, <1>15, <2>1
      <3>2. r.parent[r[side][p]] = p /\ SideOf(r, r[side][p]) = side
        <4>1. Family(r) /\ side \in Sides
          BY <1>2, <1>12
        <4> QED
          BY <3>1, <4>1, FamilyChild
      <3> QED
        BY <1>15, <3>2
    <2>2. CASE x = Sentinel
      <3>1. r.parent[x] = p
        BY <1>2, <1>14, <2>2
      <3>2. t["left"] = t.left /\ r["left"] = r.left
        BY <1>1, <1>12, Fields
      <3>3. SideOf(r, x) = side
        <4>1. CASE side = "left"
          BY <1>15, <3>1, <3>2, <4>1 DEF SideOf
        <4>2. CASE side = "right"
          <5>1. o = "left"
            BY <4>2 DEF Opposite
          <5>2. r.left[p] # x
            BY <1>6, <1>14, <3>2, <5>1
          <5> QED
            BY <3>1, <4>2, <5>2 DEF SideOf
        <4> QED
          BY <1>2, <4>1, <4>2 DEF Sides
      <3> QED
        BY <3>1, <3>3
    <2> QED
      BY <2>1, <2>2
  <1>23. Lacking(r, c, x, p, side)
    BY <1>2, <1>12, <1>14, <1>15, <1>19, <1>20, <1>21, <1>22 DEF Lacking, Black
  <1> QED
    BY <1>12, <1>14, <1>21, <1>23 DEF Black

\* A red sibling changes places with the parent; the new sibling is black.
LEMMA SiblingBlackened ==
  ASSUME NEW t, NEW n, NEW pos, Ordered(t, n, pos), NEW b, NEW x, NEW p, NEW side,
         Lacking(t, b, x, p, side), NEW o, o = Opposite(side), NEW w, w = t[o][p], Red(t, w),
         NEW r, r = Rotate(Paint(Paint(t, w, "black"), p, "red"), p, side)
  PROVE  /\ In(r) = In(t) /\ Ordered(r, n, pos) /\ r.key = t.key
         /\ Black(r, r[o][p]) /\ Red(r, p) /\ \E c : Lacking(r, c, x, p, side)
  <1> DEFINE s == Paint(Paint(t, w, "black"), p, "red")
             inner == t[side][w]
             outer == t[o][w]
  <1>1. /\ t \in Trees /\ Family(t) /\ In(t) \subseteq Cells /\ Sentinel \notin In(t)
        /\ Sentinel \in Cells /\ Null \notin In(t) /\ Null \notin Cells
        /\ (\A f \in Sides, y \in In(t) : t[f][y] \in In(t) \cup {Sentinel})
    BY Lines
  <1>2. /\ x \in In(t) \cup {Sentinel} /\ p \in In(t) /\ side \in Sides /\ t[side][p] = x
        /\ x # t.root /\ p = t.parent[x] /\ side = SideOf(t, x)
        /\ Heights(t, b, p, side) /\ Reds(t, Null, Null)
        /\ ~ Red(t, x) /\ ~ Red(t, t.root) /\ ~ Red(t, Sentinel) /\ t.root \in In(t)
    BY DEF Lacking, Black
  <1>3. SiblingFacts(t, b, x, p, side, o, w)
    BY SiblingKnown
  <1>4. /\ o \in Sides /\ o # side /\ Opposite(o) = side /\ (\A f \in Sides : f = side \/ f = o)
        /\ w \in In(t) /\ w # x /\ w # p /\ w # t.root /\ t.parent[w] = p /\ p # x
        /\ ~ Red(t, p) /\ b[x] \in Nat \ {0} /\ b[w] = b[x] + 1
        /\ b[p] = One(Black(t, p)) + b[w]
    BY <1>3 DEF SiblingFacts, Black
  <1>5. /\ inner \in In(t) /\ outer \in In(t) /\ inner # w /\ inner # p /\ outer # w /\ outer # p
        /\ inner # x /\ outer # x /\ ~ Red(t, inner) /\ ~ Red(t, outer)
        /\ b[inner] \in Nat \ {0} /\ b[outer] \in Nat \ {0}
        /\ b[w] = One(Black(t, w)) + b[inner] /\ b[w] = One(Black(t, w)) + b[outer]
    <2>1. ASSUME NEW f \in Sides
          PROVE  /\ t[f][w] \in In(t) /\ t[f][w] # w /\ t[f][w] # p /\ t[f][w] # x
                 /\ ~ Red(t, t[f][w]) /\ b[t[f][w]] \in Nat \ {0}
                 /\ b[w] = One(Black(t, w)) + b[t[f][w]]
      BY <1>1, <1>3 DEF SiblingFacts, Black
    <2> QED
      BY <1>2, <1>4, <2>1
  <1>6. PaintedTwice(s, t, w, "black", p, "red") /\ r = Rotate(s, p, side)
    BY <1>1, <1>2, <1>4, PaintTwice
  <1> HIDE DEF s
  <1>7. Turned(r, s, t, n, pos, p, side)
    <2>1. SameLinks(s, t) /\ t[Opposite(side)][p] # Sentinel
      BY <1>1, <1>4, <1>6 DEF PaintedTwice
    <2> QED
      BY <1>2, <1>6, <2>1, TurnSame
  <1>8. TurnedLinks(r, t, p, side, o, w)
    <2>1. w # Sentinel
      BY <1>1, <1>4
    <2> QED
      BY <1>2, <1>7, <2>1, TurnLinks
  <1>9. /\ In(r) = In(t) /\ Ordered(r, n, pos) /\ r.key = t.key /\ r \in Trees /\ Family(r)
        /\ s \in Trees /\ Family(s) /\ In(s) = In(t) /\ Rotated(r, s, p, side)
        /\ \A f \in Sides : s[f] = t[f]
    BY <1>6, <1>7 DEF Turned, PaintedTwice
  <1>10. /\ \A y \in Cells : Red(s, y) = IF y = p THEN TRUE ELSE IF y = w THEN FALSE
                                         ELSE Red(t, y)
         /\ \A y \in Cells : Red(r, y) = Red(s, y)
    BY <1>6, <1>7 DEF PaintedTwice, Turned, Red
  <1>11. /\ r[side][w] = p /\ r[o][w] = outer /\ r[o][p] = inner /\ r[side][p] = x
         /\ r.parent[Sentinel] = t.parent[Sentinel]
         /\ r.root = IF p = t.root THEN w ELSE t.root
    BY <1>2, <1>8 DEF TurnedLinks
  <1>12. \A y \in In(t), f \in Sides : y \notin {p, w} => r[f][y] \in {w, t[f][y]}
    <2>1. ASSUME NEW y \in In(t), NEW f \in Sides, y \notin {p, w}
          PROVE  r[f][y] \in {w, t[f][y]}
      BY <1>8, <2>1 DEF TurnedLinks
    <2> QED
      BY <2>1
  <1>13. /\ Measured(t, b) /\ (\A y \in In(t) : HeightAt(t, b, p, side, y))
         /\ (\A y \in In(t) \cup {Sentinel} : b[y] \in Nat \ {0}) /\ b[Sentinel] = 1
    BY <1>2 DEF Heights, Measured
  <1>14. /\ b[p] = 1 + b[w] /\ b[inner] = b[w] /\ b[outer] = b[w] /\ b[w] = b[x] + 1
         /\ b[w] \in Nat \ {0} /\ b[p] \in Nat \ {0} /\ b[x] \in Nat \ {0}
    <2>1. One(Black(t, p)) = 1 /\ One(Black(t, w)) = 0
      BY <1>4 DEF One, Black
    <2>2. b[w] \in Nat \ {0} /\ b[p] \in Nat \ {0}
      BY <1>2, <1>4, <1>13
    <2> HIDE DEF inner, outer
    <2>3. b[inner] = b[w] /\ b[outer] = b[w]
      BY <1>5, <2>1
    <2>4. b[p] = 1 + b[w]
      BY <1>4, <2>1
    <2> QED
      BY <1>4, <2>2, <2>3, <2>4
  <1> DEFINE c == [y \in In(t) \cup {Sentinel} |->
                     IF y = p THEN b[w] ELSE IF y = w THEN b[p] ELSE b[y]]
  <1>15. /\ Measured(r, c) /\ Measured(s, b) /\ Measured(s, c)
         /\ c[p] = b[w] /\ c[w] = b[p] /\ c[outer] = b[w] /\ c[inner] = b[w] /\ c[x] = b[x]
         /\ \A y \in In(t) \ {p, w} : c[y] = b[y]
    <2>1. c \in [In(t) \cup {Sentinel} -> Nat \ {0}]
      BY <1>13, <1>14
    <2>2. c[Sentinel] = 1
      BY <1>1, <1>2, <1>4, <1>13
    <2>3. c[p] = b[w] /\ c[w] = b[p] /\ \A y \in In(t) \ {p, w} : c[y] = b[y]
      BY <1>2, <1>4
    <2>4. c[outer] = b[w] /\ c[inner] = b[w] /\ c[x] = b[x]
      BY <1>2, <1>4, <1>5, <1>14
    <2> HIDE DEF c
    <2>5. Measured(r, c) /\ Measured(s, b) /\ Measured(s, c)
      BY <1>9, <1>13, <2>1, <2>2 DEF Measured
    <2> QED
      BY <2>3, <2>4, <2>5
  <1> HIDE DEF c
  <1>16. Heights(r, c, p, side)
    <2>1. HeightAt(r, c, p, side, p)
      <3> SUFFICES ASSUME NEW f \in Sides
                   PROVE c[p] = One(Black(r, p)) + One(p = p /\ f = side) + c[r[f][p]]
        BY DEF HeightAt
      <3>1. One(Black(r, p)) = 0
        BY <1>1, <1>2, <1>10 DEF One, Black
      <3>2. CASE f = side
        <4>1. One(p = p /\ f = side) = 1
          BY <3>2 DEF One
        <4>2. c[r[f][p]] = b[x] /\ c[p] = b[w]
          BY <1>11, <1>15, <3>2
        <4>3. b[w] = 0 + 1 + b[x]
          BY <1>14
        <4> QED
          BY <3>1, <4>1, <4>2, <4>3, Zenon
      <3>3. CASE f = o
        <4>1. One(p = p /\ f = side) = 0
          BY <1>4, <3>3 DEF One
        <4>2. c[r[f][p]] = b[w] /\ c[p] = b[w]
          BY <1>11, <1>15, <3>3
        <4>3. b[w] = 0 + 0 + b[w]
          BY <1>14
        <4> QED
          BY <3>1, <4>1, <4>2, <4>3, Zenon
      <3> QED
        BY <1>4, <3>2, <3>3
    <2>2. HeightAt(r, c, p, side, w)
      <3> SUFFICES ASSUME NEW f \in Sides
                   PROVE c[w] = One(Black(r, w)) + One(w = p /\ f = side) + c[r[f][w]]
        BY DEF HeightAt
      <3>1. c[r[f][w]] = b[w]
        <4>1. c[r[o][w]] = b[w] /\ c[r[side][w]] = b[w]
          BY <1>11, <1>15
        <4> QED
          BY <1>4, <4>1
      <3>2. One(Black(r, w)) = 1 /\ One(w = p /\ f = side) = 0
        BY <1>1, <1>4, <1>10 DEF One, Black
      <3>3. c[w] = b[p] /\ b[p] = 1 + 0 + b[w]
        BY <1>14, <1>15
      <3> QED
        BY <3>1, <3>2, <3>3, Zenon
    <2>3. ASSUME NEW y \in In(t) \ {p, w} PROVE HeightAt(s, b, p, side, y)
      <3>1. Black(s, y) = Black(t, y)
        BY <1>1, <1>10 DEF Black
      <3> QED
        BY <1>9, <1>13, <3>1 DEF HeightAt
    <2>4. /\ p \in In(s) /\ w = s[Opposite(side)][p] /\ w # Sentinel /\ In(r) = In(s)
          /\ (\A y \in In(s) \ {p, w} : HeightAt(s, b, p, side, y))
          /\ (\A y \in In(s) \ {p, w} : c[y] = b[y])
          /\ c[w] = b[p]
      BY <1>1, <1>2, <1>4, <1>9, <1>15, <2>3
    <2>5. s \in Trees /\ Family(s) /\ side \in Sides /\ Rotated(r, s, p, side)
          /\ Measured(s, b) /\ Measured(s, c)
      BY <1>2, <1>9, <1>15
    <2> QED
      BY <2>1, <2>2, <2>4, <2>5, RotateHeights
  <1>17. Reds(r, Null, Null)
    <2> SUFFICES ASSUME NEW y \in In(t), NEW f \in Sides, Red(r, y), Red(r, r[f][y])
                 PROVE  FALSE
      BY <1>9 DEF Reds
    <2>1. y # w /\ y \in Cells
      BY <1>1, <1>4, <1>10
    <2>2. CASE y = p
      <3>1. r[f][y] \in {inner, x} /\ inner \in Cells /\ x \in Cells
        BY <1>1, <1>2, <1>4, <1>5, <1>11, <2>2
      <3> QED
        BY <1>2, <1>4, <1>5, <1>10, <3>1
    <2>3. CASE y # p
      <3>1. r[f][y] \in {w, t[f][y]} /\ t[f][y] \in Cells /\ Red(t, y)
        BY <1>1, <1>10, <1>12, <2>1, <2>3
      <3>2. r[f][y] = t[f][y] /\ t[f][y] # w
        BY <1>1, <1>4, <1>10, <3>1
      <3>3. t[f][y] # p
        <4>1. ASSUME t[f][y] = p PROVE FALSE
          <5>1. p # t.root /\ y = t.parent[p] /\ f = SideOf(t, p)
            BY <1>1, <1>2, <4>1 DEF Family
          <5>2. r[f][y] = w
            BY <1>8, <2>1, <2>3, <5>1 DEF TurnedLinks
          <5> QED
            BY <3>2, <5>2
        <4> QED
          BY <4>1
      <3>4. Red(t, t[f][y])
        BY <1>10, <3>1, <3>2, <3>3
      <3> QED
        BY <1>1, <1>2, <3>1, <3>4 DEF Reds
    <2> QED
      BY <2>2, <2>3
  <1>18. /\ ~ Red(r, x) /\ ~ Red(r, r.root) /\ ~ Red(r, Sentinel) /\ r.root \in In(r)
         /\ ~ Red(r, inner) /\ x # r.root
    <2>1. \A y \in Cells : y # p => (Red(r, y) => Red(t, y))
      BY <1>10
    <2>2. x \in Cells /\ t.root \in Cells /\ w \in Cells /\ inner \in Cells
      BY <1>1, <1>2, <1>4, <1>5
    <2>3. ~ Red(r, x) /\ ~ Red(r, Sentinel) /\ ~ Red(r, inner)
      BY <1>1, <1>2, <1>4, <1>5, <2>1, <2>2
    <2>4. CASE p = t.root
      BY <1>4, <1>9, <1>10, <1>11, <2>2, <2>3, <2>4
    <2>5. CASE p # t.root
      BY <1>2, <1>9, <1>11, <2>1, <2>2, <2>3, <2>5
    <2> QED
      BY <2>4, <2>5
  <1>19. r.parent[x] = p /\ SideOf(r, x) = side
    <2>1. CASE x # Sentinel
      <3>1. Family(r) /\ side \in Sides /\ p \in In(r) /\ r[side][p] # Sentinel
        BY <1>2, <1>9, <1>11, <2>1
      <3>2. r.parent[r[side][p]] = p /\ SideOf(r, r[side][p]) = side
        BY <3>1, FamilyChild
      <3> QED
        BY <1>11, <3>2
    <2>2. CASE x = Sentinel
      <3>1. r.parent[x] = p
        BY <1>2, <1>11, <2>2
      <3>2. t["left"] = t.left /\ r["left"] = r.left
        BY <1>1, <1>9, Fields
      <3>3. SideOf(r, x) = side
        <4>1. CASE side = "left"
          BY <1>11, <3>1, <3>2, <4>1 DEF SideOf
        <4>2. CASE side = "right"
          <5>1. o = "left"
            BY <4>2 DEF Opposite
          <5>2. r.left[p] # x
            BY <1>5, <1>11, <3>2, <5>1
          <5> QED
            BY <3>1, <4>2, <5>2 DEF SideOf
        <4> QED
          BY <1>2, <4>1, <4>2 DEF Sides
      <3> QED
        BY <3>1, <3>3
    <2> QED
      BY <2>1, <2>2
  <1>20. Lacking(r, c, x, p, side)
    BY <1>2, <1>9, <1>11, <1>16, <1>17, <1>18, <1>19 DEF Lacking, Black
  <1>21. Red(r, p)
    BY <1>1, <1>2, <1>10
  <1> QED
    BY <1>9, <1>11, <1>18, <1>20, <1>21 DEF Black

\* The outer child of a black sibling is red: the rotation adds the missing black.
LEMMA DeleteTurned ==
  ASSUME NEW t, NEW n, NEW pos, Ordered(t, n, pos), NEW b, NEW x, NEW p, NEW side,
         Lacking(t, b, x, p, side), NEW o, o = Opposite(side), NEW w, w = t[o][p],
         Black(t, w), NEW outer, outer = t[o][w], Red(t, outer),
         NEW r, r = DeleteRotated(t, x, side)
  PROVE  /\ In(r) = In(t) /\ Ordered(r, n, pos) /\ r.key = t.key
         /\ \E c : DeleteAt(r, c, r.root)
  <1> DEFINE t1 == Paint(Paint(t, w, t.color[p]), p, "black")
             s == Paint(t1, outer, "black")
             inner == t[side][w]
  <1>1. /\ t \in Trees /\ Family(t) /\ In(t) \subseteq Cells /\ Sentinel \notin In(t)
        /\ Sentinel \in Cells /\ Null \notin In(t) /\ Null \notin Cells
        /\ (\A f \in Sides, y \in In(t) : t[f][y] \in In(t) \cup {Sentinel})
        /\ (\A y \in Cells : t.color[y] \in {"red", "black"})
    BY Lines
  <1>2. /\ x \in In(t) \cup {Sentinel} /\ p \in In(t) /\ side \in Sides /\ t[side][p] = x
        /\ p = t.parent[x]
        /\ Heights(t, b, p, side) /\ Reds(t, Null, Null)
        /\ ~ Red(t, x) /\ ~ Red(t, t.root) /\ ~ Red(t, Sentinel) /\ t.root \in In(t)
    BY DEF Lacking, Black
  <1>3. SiblingFacts(t, b, x, p, side, o, w)
    BY SiblingKnown
  <1>4. /\ o \in Sides /\ o # side /\ Opposite(o) = side /\ (\A f \in Sides : f = side \/ f = o)
        /\ w \in In(t) /\ w # x /\ w # p /\ w # t.root /\ t.parent[w] = p /\ p # x
        /\ ~ Red(t, w) /\ b[x] \in Nat \ {0} /\ b[w] = b[x] + 1
        /\ b[p] = One(Black(t, p)) + b[w]
    BY <1>3 DEF SiblingFacts, Black
  <1>5. /\ inner \in In(t) \cup {Sentinel} /\ inner # w /\ inner # p
        /\ outer \in In(t) /\ outer # w /\ outer # p /\ outer # x
        /\ b[inner] \in Nat \ {0} /\ b[outer] \in Nat \ {0}
        /\ b[w] = One(Black(t, w)) + b[inner] /\ b[w] = One(Black(t, w)) + b[outer]
    <2>1. ASSUME NEW f \in Sides
          PROVE  /\ t[f][w] \in In(t) \cup {Sentinel} /\ t[f][w] # w /\ t[f][w] # p
                 /\ b[t[f][w]] \in Nat \ {0}
                 /\ b[w] = One(Black(t, w)) + b[t[f][w]]
      BY <1>1, <1>3 DEF SiblingFacts
    <2>2. outer # Sentinel
      BY <1>2
    <2> QED
      BY <1>2, <1>4, <2>1, <2>2
  <1>6. t.parent[outer] = w /\ inner # outer
    <2>1. t[o][w] # Sentinel
      BY <1>1, <1>5
    <2>2. t.parent[t[o][w]] = w /\ t[Opposite(o)][w] # t[o][w]
      BY <1>1, <1>4, <2>1 DEF Family
    <2> QED
      BY <1>4, <2>2
  <1>7. /\ SameLinks(s, t) /\ s \in Trees /\ r = Rotate(s, p, side)
        /\ \A y \in Cells : Red(s, y) = IF y \in {outer, p} THEN FALSE
                                        ELSE IF y = w THEN Red(t, p) ELSE Red(t, y)
    <2>1. p \in Cells /\ w \in Cells /\ outer \in Cells /\ t.color[p] \in {"red", "black"}
      BY <1>1, <1>2, <1>4, <1>5
    <2>2. PaintedTwice(t1, t, w, t.color[p], p, "black")
      BY <1>1, <2>1, PaintTwice
    <2>3. t1[o][w] = outer
      BY <1>4, <2>2, SideFacts DEF PaintedTwice, SameLinks
    <2>4. r = Rotate(s, p, side)
      BY <1>2, <2>3 DEF DeleteRotated, Sibling
    <2> HIDE DEF t1
    <2>5. t1 \in Trees /\ SameLinks(t1, t)
      BY <2>2 DEF PaintedTwice
    <2>6. Painted(s, t1, outer, "black")
      BY <2>1, <2>5, PaintPainted
    <2> HIDE DEF s
    <2>7. SameLinks(s, t1) /\ s \in Trees
      BY <2>6 DEF Painted
    <2>8. SameLinks(s, t)
      BY <2>5, <2>7, SameLinksTwice
    <2>9. \A y \in Cells : s.color[y] = IF y = outer THEN "black" ELSE IF y = p THEN "black"
                                        ELSE IF y = w THEN t.color[p] ELSE t.color[y]
      BY <2>2, <2>6 DEF PaintedTwice, Painted
    <2> QED
      BY <2>4, <2>7, <2>8, <2>9 DEF Red
  <1> HIDE DEF s
  <1>8. Turned(r, s, t, n, pos, p, side)
    <2>1. t[Opposite(side)][p] # Sentinel
      BY <1>1, <1>4
    <2> QED
      BY <1>2, <1>7, <2>1, TurnSame
  <1>9. TurnedLinks(r, t, p, side, o, w)
    <2>1. w # Sentinel
      BY <1>1, <1>4
    <2> QED
      BY <1>2, <1>8, <2>1, TurnLinks
  <1>10. /\ In(r) = In(t) /\ Ordered(r, n, pos) /\ r.key = t.key /\ r \in Trees /\ Family(r)
         /\ Family(s) /\ In(s) = In(t) /\ Rotated(r, s, p, side)
         /\ (\A f \in Sides : s[f] = t[f])
         /\ \A y \in Cells : Red(r, y) = Red(s, y)
    BY <1>8 DEF Turned, Red
  <1>11. /\ r[side][w] = p /\ r[o][w] = outer /\ r[o][p] = inner /\ r[side][p] = x
         /\ r.root = IF p = t.root THEN w ELSE t.root
    BY <1>2, <1>9 DEF TurnedLinks
  <1>12. /\ Measured(t, b) /\ (\A y \in In(t) : HeightAt(t, b, p, side, y))
         /\ (\A y \in In(t) \cup {Sentinel} : b[y] \in Nat \ {0}) /\ b[Sentinel] = 1
    BY <1>2 DEF Heights, Measured
  <1>13. /\ b[inner] = b[x] /\ b[outer] = b[x] /\ b[w] = b[x] + 1
         /\ b[w] \in Nat \ {0} /\ b[p] \in Nat \ {0} /\ b[x] \in Nat \ {0}
    <2>1. One(Black(t, w)) = 1
      BY <1>4 DEF One, Black
    <2>2. b[w] \in Nat \ {0} /\ b[p] \in Nat \ {0}
      BY <1>2, <1>4, <1>12
    <2> HIDE DEF inner
    <2>3. b[w] = 1 + b[inner] /\ b[w] = 1 + b[outer]
      BY <1>5, <2>1, Zenon
    <2>4. b[inner] = b[x]
      BY <1>4, <1>5, <2>3
    <2>5. b[outer] = b[x]
      BY <1>4, <1>5, <2>3
    <2> QED
      BY <1>4, <2>2, <2>4, <2>5
  <1> DEFINE e == [y \in In(t) \cup {Sentinel} |-> IF y = outer THEN b[y] + 1 ELSE b[y]]
             c == [y \in In(t) \cup {Sentinel} |->
                     IF y = p THEN b[w] ELSE IF y = w THEN b[p] ELSE e[y]]
  <1>14. /\ Measured(r, c) /\ Measured(s, e) /\ Measured(s, c)
         /\ (\A y \in In(t) \cup {Sentinel} : y # outer => e[y] = b[y])
         /\ e[outer] = b[outer] + 1
         /\ c[p] = b[w] /\ c[w] = b[p] /\ c[outer] = b[w] /\ c[inner] = b[x] /\ c[x] = b[x]
         /\ (\A y \in In(t) \ {p, w} : c[y] = e[y])
         /\ e[p] = b[p]
    <2>1. /\ \A y \in In(t) \cup {Sentinel} : y # outer => e[y] = b[y]
          /\ e[outer] = b[outer] + 1
      BY <1>5
    <2>2. e \in [In(t) \cup {Sentinel} -> Nat \ {0}]
      BY <1>12
    <2>3. e[Sentinel] = 1
      BY <1>1, <1>5, <1>12, <2>1
    <2> HIDE DEF e
    <2>4. c \in [In(t) \cup {Sentinel} -> Nat \ {0}]
      BY <1>13, <2>2
    <2>5. c[Sentinel] = 1
      BY <1>1, <1>2, <1>4, <2>3
    <2>6. c[p] = b[w] /\ c[w] = b[p] /\ \A y \in In(t) \ {p, w} : c[y] = e[y]
      BY <1>2, <1>4
    <2>7. c[outer] = e[outer] /\ c[inner] = e[inner] /\ c[x] = e[x]
      BY <1>2, <1>4, <1>5
    <2>8. e[inner] = b[inner] /\ e[x] = b[x] /\ e[p] = b[p]
      BY <1>2, <1>5, <1>6, <2>1
    <2> HIDE DEF c
    <2>9. c[outer] = b[w] /\ c[inner] = b[x] /\ c[x] = b[x]
      BY <1>13, <2>1, <2>7, <2>8, Zenon
    <2>10. Measured(r, c) /\ Measured(s, e) /\ Measured(s, c)
      BY <1>10, <2>2, <2>3, <2>4, <2>5 DEF Measured
    <2> QED
      BY <2>1, <2>6, <2>8, <2>9, <2>10
  <1> HIDE DEF c, e
  <1>15. ASSUME NEW y \in In(t) \ {p, w} PROVE HeightAt(s, e, Null, Null, y)
    <2> SUFFICES ASSUME NEW f \in Sides
                 PROVE e[y] = One(Black(s, y)) + One(y = Null /\ f = Null) + e[s[f][y]]
      BY DEF HeightAt
    <2>1. b[y] = One(Black(t, y)) + One(y = p /\ f = side) + b[t[f][y]]
      BY <1>12 DEF HeightAt
    <2>2. One(y = p /\ f = side) = 0 /\ One(y = Null /\ f = Null) = 0
      BY <1>1 DEF One
    <2>3. /\ s[f][y] = t[f][y] /\ t[f][y] \in In(t) \cup {Sentinel}
          /\ b[t[f][y]] \in Nat /\ b[y] \in Nat
      BY <1>1, <1>10, <1>12
    <2>4. t[f][y] # outer
      <3>1. ASSUME t[f][y] = outer PROVE FALSE
        <4>1. t[f][y] # Sentinel
          BY <1>1, <1>5, <3>1
        <4>2. t.parent[t[f][y]] = y
          BY <1>1, <4>1, FamilyChild
        <4> QED
          BY <1>6, <3>1, <4>2
      <3> QED
        BY <3>1
    <2>5. e[s[f][y]] = b[t[f][y]]
      BY <1>14, <2>3, <2>4
    <2>6. CASE y = outer
      <3>1. One(Black(t, y)) = 0 /\ One(Black(s, y)) = 1
        BY <1>1, <1>7, <2>6 DEF One, Black
      <3>2. e[y] = b[y] + 1
        BY <1>14, <2>6
      <3>3. b[y] = 0 + 0 + b[t[f][y]]
        BY <2>1, <2>2, <3>1, Zenon
      <3>4. b[y] + 1 = 1 + 0 + b[t[f][y]]
        BY <2>3, <3>3
      <3> QED
        BY <2>2, <2>5, <3>1, <3>2, <3>4, Zenon
    <2>7. CASE y # outer
      <3>1. Black(t, y) = Black(s, y)
        BY <1>1, <1>7, <2>7 DEF Black
      <3>2. One(Black(t, y)) = One(Black(s, y))
        BY <3>1 DEF One
      <3>3. e[y] = b[y]
        BY <1>14, <2>7
      <3> QED
        BY <2>1, <2>2, <2>5, <3>2, <3>3, Zenon
    <2> QED
      BY <2>6, <2>7
  <1>16. Heights(r, c, Null, Null)
    <2>1. HeightAt(r, c, Null, Null, p)
      <3> SUFFICES ASSUME NEW f \in Sides
                   PROVE c[p] = One(Black(r, p)) + One(p = Null /\ f = Null) + c[r[f][p]]
        BY DEF HeightAt
      <3>1. One(Black(r, p)) = 1 /\ One(p = Null /\ f = Null) = 0
        BY <1>1, <1>2, <1>7, <1>10 DEF One, Black
      <3>2. c[r[f][p]] = b[x]
        <4>1. c[r[o][p]] = b[x] /\ c[r[side][p]] = b[x]
          BY <1>11, <1>14
        <4> QED
          BY <1>4, <4>1
      <3>3. b[w] = 1 + 0 + b[x]
        BY <1>13
      <3>4. c[p] = b[w]
        BY <1>14
      <3> QED
        BY <3>1, <3>2, <3>3, <3>4, Zenon
    <2>2. HeightAt(r, c, Null, Null, w)
      <3> SUFFICES ASSUME NEW f \in Sides
                   PROVE c[w] = One(Black(r, w)) + One(w = Null /\ f = Null) + c[r[f][w]]
        BY DEF HeightAt
      <3>1. One(Black(r, w)) = One(Black(t, p)) /\ One(w = Null /\ f = Null) = 0
        <4>1. Black(r, w) = Black(t, p)
          BY <1>1, <1>4, <1>5, <1>7, <1>10 DEF Black
        <4> QED
          BY <1>1, <1>4, <4>1 DEF One
      <3>2. c[r[f][w]] = b[w]
        <4>1. c[r[o][w]] = b[w] /\ c[r[side][w]] = b[w]
          BY <1>11, <1>14
        <4> QED
          BY <1>4, <4>1
      <3>3. c[w] = b[p] /\ b[p] = One(Black(t, p)) + b[w]
        BY <1>4, <1>14
      <3>4. One(Black(t, p)) + b[w] = One(Black(t, p)) + 0 + b[w]
        <4>1. One(Black(t, p)) \in {0, 1} /\ b[w] \in Nat
          BY <1>13 DEF One
        <4> QED
          BY <4>1
      <3> QED
        BY <3>1, <3>2, <3>3, <3>4, Zenon
    <2>3. /\ p \in In(s) /\ w = s[Opposite(side)][p] /\ w # Sentinel /\ In(r) = In(s)
          /\ (\A y \in In(s) \ {p, w} : HeightAt(s, e, Null, Null, y))
          /\ (\A y \in In(s) \ {p, w} : c[y] = e[y])
          /\ c[w] = e[p]
      BY <1>1, <1>2, <1>4, <1>10, <1>14, <1>15
    <2>4. s \in Trees /\ Family(s) /\ side \in Sides /\ Rotated(r, s, p, side)
          /\ Measured(s, e) /\ Measured(s, c)
      BY <1>2, <1>7, <1>10, <1>14
    <2> QED
      BY <2>1, <2>2, <2>3, <2>4, RotateHeights
  <1>17. ASSUME NEW y \in In(t), NEW f \in Sides, Red(r, y), Red(r, r[f][y])
         PROVE  FALSE
    <2>1. y \in Cells /\ y # p /\ y # outer /\ Red(s, y)
      BY <1>1, <1>2, <1>5, <1>7, <1>10, <1>17
    <2>2. CASE y = w
      <3>1. r[f][y] \in {p, outer} /\ p \in Cells /\ outer \in Cells
        BY <1>1, <1>2, <1>4, <1>5, <1>11, <2>2
      <3> QED
        BY <1>7, <1>10, <1>17, <3>1
    <2>3. CASE y # w
      <3>1. Red(t, y)
        BY <1>7, <2>1, <2>3
      <3>2. r[f][y] = IF p # t.root /\ y = t.parent[p] /\ f = SideOf(t, p) THEN w ELSE t[f][y]
        BY <1>9, <2>1, <2>3 DEF TurnedLinks
      <3>3. ~ Red(t, t[f][y]) /\ t[f][y] \in Cells
        BY <1>1, <1>2, <3>1 DEF Reds
      <3>4. CASE p # t.root /\ y = t.parent[p] /\ f = SideOf(t, p)
        <4>1. t[f][y] = p
          BY <1>1, <1>2, <3>4 DEF Family
        <4>2. w \in Cells /\ r[f][y] = w
          BY <1>1, <1>4, <3>2, <3>4
        <4>3. Red(s, w)
          BY <1>10, <1>17, <4>2
        <4> QED
          BY <1>4, <1>5, <1>7, <3>3, <4>1, <4>2, <4>3
      <3>5. CASE ~ (p # t.root /\ y = t.parent[p] /\ f = SideOf(t, p))
        <4>1. r[f][y] = t[f][y]
          BY <3>2, <3>5
        <4>2. t[f][y] # w
          <5>1. ASSUME t[f][y] = w PROVE FALSE
            <6>1. t[f][y] # Sentinel
              BY <1>1, <1>4, <5>1
            <6>2. t.parent[t[f][y]] = y
              BY <1>1, <6>1, FamilyChild
            <6> QED
              BY <1>4, <2>1, <5>1, <6>2
          <5> QED
            BY <5>1
        <4> QED
          BY <1>7, <1>10, <1>17, <3>3, <4>1, <4>2
      <3> QED
        BY <3>4, <3>5
    <2> QED
      BY <2>2, <2>3
  <1>18. /\ ~ Red(r, r.root) /\ ~ Red(r, Sentinel) /\ r.root \in In(r)
    <2>1. ~ Red(r, Sentinel)
      BY <1>1, <1>2, <1>4, <1>7, <1>10
    <2>2. CASE p = t.root
      BY <1>1, <1>2, <1>4, <1>5, <1>7, <1>10, <1>11, <2>1, <2>2
    <2>3. CASE p # t.root
      BY <1>1, <1>2, <1>4, <1>7, <1>10, <1>11, <2>1, <2>3
    <2> QED
      BY <2>2, <2>3
  <1>19. DeleteAt(r, c, r.root)
    <2>1. Reds(r, r.root, r.root)
      BY <1>10, <1>17 DEF Reds
    <2> QED
      BY <1>16, <1>18, <2>1 DEF DeleteAt, Black
  <1> QED
    BY <1>10, <1>19

\* Every turn of the delete loop first sees to it that the sibling is black.
LEMMA SiblingReady ==
  ASSUME NEW t, NEW n, NEW pos, Ordered(t, n, pos), NEW b, NEW x, DeleteAt(t, b, x),
         x # t.root, Black(t, x), NEW side, side = SideOf(t, x),
         NEW r, r = BlackSibling(t, x, side)
  PROVE  /\ In(r) = In(t) /\ Ordered(r, n, pos) /\ r.key = t.key
         /\ \E c, p : Lacking(r, c, x, p, side) /\ Black(r, r[Opposite(side)][p])
         /\ r = t \/ Red(r, r.parent[x])
  <1> DEFINE p == t.parent[x]
             o == Opposite(side)
             w == t[o][p]
  <1>1. Lacking(t, b, x, p, side)
    BY LackingHere
  <1>2. r = IF Black(t, w) THEN t
            ELSE Rotate(Paint(Paint(t, w, "black"), p, "red"), p, side)
    BY DEF BlackSibling
  <1>3. CASE Black(t, w)
    BY <1>1, <1>2, <1>3
  <1>4. CASE ~ Black(t, w)
    <2> HIDE DEF p, o, w
    <2>1. o = Opposite(side) /\ w = t[o][p] /\ Red(t, w)
      BY <1>4 DEF o, w, Black
    <2>2. r = Rotate(Paint(Paint(t, w, "black"), p, "red"), p, side)
      BY <1>2, <1>4
    <2>3. /\ In(r) = In(t) /\ Ordered(r, n, pos) /\ r.key = t.key
          /\ Black(r, r[o][p]) /\ Red(r, p) /\ \E c : Lacking(r, c, x, p, side)
      BY <1>1, <2>1, <2>2, SiblingBlackened
    <2>4. p = r.parent[x]
      BY <2>3 DEF Lacking
    <2> QED
      BY <2>1, <2>3, <2>4
  <1> QED
    BY <1>3, <1>4

\* The turn of the delete loop that climbs.
LEMMA DeleteRecolored ==
  ASSUME NEW t, NEW n, NEW pos, Ordered(t, n, pos), NEW b, NEW x, DeleteAt(t, b, x),
         x # t.root, Black(t, x), NEW side, side = SideOf(t, x),
         NEW s, s = BlackSibling(t, x, side), NEW w, w = Sibling(s, x, side),
         Black(s, s.left[w]), Black(s, s.right[w]), NEW r, r = Paint(s, w, "red")
  PROVE  /\ In(r) = In(t) /\ Ordered(r, n, pos) /\ r.key = t.key
         /\ \E c : DeleteAt(r, c, s.parent[x])
         /\ (s = t /\ SameLinks(r, t)) \/ Red(r, s.parent[x])
  <1>1. /\ In(s) = In(t) /\ Ordered(s, n, pos) /\ s.key = t.key
        /\ \E c, p : Lacking(s, c, x, p, side) /\ Black(s, s[Opposite(side)][p])
        /\ s = t \/ Red(s, s.parent[x])
    BY SiblingReady
  <1>2. PICK c, p : Lacking(s, c, x, p, side) /\ Black(s, s[Opposite(side)][p])
    BY <1>1
  <1>3. p = s.parent[x] /\ w = s[Opposite(side)][p] /\ Black(s, w)
    BY <1>2 DEF Lacking, Sibling
  <1>4. SameLinks(r, s) /\ \E d : DeleteAt(r, d, p)
    <2> DEFINE o == Opposite(side)
    <2>1. o = Opposite(side) /\ w = s[o][p]
      BY <1>3
    <2> HIDE DEF o
    <2> QED
      BY <1>1, <1>2, <1>3, <2>1, DeleteClimbs
  <1>5. In(r) = In(s) /\ Ordered(r, n, pos)
    BY <1>1, <1>4, SameLinksOrdered
  <1>6. r.key = s.key
    BY <1>4 DEF SameLinks
  <1>7. ASSUME Red(s, p) PROVE Red(r, p)
    <2>1. s \in Trees /\ w \in Cells /\ p \in Cells
      <3>1. SiblingFacts(s, c, x, p, side, Opposite(side), w)
        BY <1>1, <1>2, <1>3, SiblingKnown
      <3>2. In(s) \subseteq Cells /\ s \in Trees
        BY <1>1, Lines
      <3> QED
        BY <1>2, <3>1, <3>2 DEF SiblingFacts, Lacking
    <2>2. Painted(r, s, w, "red")
      BY <2>1, PaintPainted
    <2> QED
      BY <1>7, <2>1, <2>2 DEF Painted, Red
  <1> QED
    BY <1>1, <1>3, <1>4, <1>5, <1>6, <1>7

\* The turn of the delete loop that rotates.
LEMMA DeleteTurn ==
  ASSUME NEW t, NEW n, NEW pos, Ordered(t, n, pos), NEW b, NEW x, DeleteAt(t, b, x),
         x # t.root, Black(t, x), NEW side, side = SideOf(t, x),
         NEW s, s = BlackSibling(t, x, side), NEW w, w = Sibling(s, x, side),
         Red(s, s.left[w]) \/ Red(s, s.right[w]),
         NEW r, r = DeleteRotated(OuterRed(s, w, side), x, side)
  PROVE  /\ In(r) = In(t) /\ Ordered(r, n, pos) /\ r.key = t.key
         /\ \E c : DeleteAt(r, c, r.root)
  <1> DEFINE o == Opposite(side)
             q == OuterRed(s, w, side)
  <1>1. /\ In(s) = In(t) /\ Ordered(s, n, pos) /\ s.key = t.key
        /\ \E c, p : Lacking(s, c, x, p, side) /\ Black(s, s[o][p])
    BY SiblingReady
  <1>2. PICK c, p : Lacking(s, c, x, p, side) /\ Black(s, s[o][p])
    BY <1>1
  <1>3. p = s.parent[x] /\ w = s[o][p] /\ Black(s, w) /\ side \in Sides
    BY <1>2 DEF Lacking, Sibling
  <1>4. /\ In(q) = In(s) /\ Ordered(q, n, pos) /\ q.key = s.key
        /\ \E d : Lacking(q, d, x, p, side) /\ Black(q, q[o][p]) /\ Red(q, q[o][q[o][p]])
    <2>1. CASE Red(s, s[o][w])
      BY <1>1, <1>2, <1>3, <2>1 DEF OuterRed
    <2>2. CASE ~ Red(s, s[o][w])
      <3> DEFINE inner == s[side][w]
      <3>1. Red(s, inner)
        BY <1>3, <2>2 DEF Sides, Opposite
      <3>2. q = Rotate(Paint(Paint(s, inner, "black"), w, "red"), w, o)
        BY <2>2 DEF OuterRed
      <3>3. o = Opposite(side) /\ inner = s[side][w] /\ Black(s, s[o][w])
        BY <2>2 DEF Black
      <3> HIDE DEF o, inner, q
      <3>4. /\ In(q) = In(s) /\ Ordered(q, n, pos) /\ q.key = s.key
            /\ q[o][p] = inner /\ Black(q, inner) /\ q[o][inner] = w /\ Red(q, w)
            /\ \E d : Lacking(q, d, x, p, side)
        <4>1. Ordered(s, n, pos) /\ Lacking(s, c, x, p, side) /\ w = s[o][p] /\ Black(s, w)
          BY <1>1, <1>2, <1>3
        <4> QED
          BY ONLY <4>1, <3>1, <3>2, <3>3, OuterReddened
      <3> QED
        BY <3>4
    <2> QED
      BY <2>1, <2>2
  <1>5. PICK d : Lacking(q, d, x, p, side)
    BY <1>4
  <1>6. Black(q, q[o][p]) /\ Red(q, q[o][q[o][p]])
    BY <1>4
  <1>7. o = Opposite(side) /\ r = DeleteRotated(q, x, side)
    OBVIOUS
  <1>8. /\ In(r) = In(q) /\ Ordered(r, n, pos) /\ r.key = q.key
        /\ \E e : DeleteAt(r, e, r.root)
    <2> DEFINE v == q[o][p]
               outer == q[o][v]
    <2>1. v = q[o][p] /\ outer = q[o][v] /\ Black(q, v) /\ Red(q, outer)
      BY <1>6
    <2> HIDE DEF v, outer, o, q
    <2> QED
      BY <1>4, <1>5, <1>7, <2>1, DeleteTurned
  <1> QED
    BY <1>1, <1>4, <1>8

\* Induction over nodes that are numbered by m.
LEMMA Induct ==
  ASSUME NEW S, NEW m \in [S -> Nat], NEW P,
         \A x \in S : (\A y \in S : m[y] < m[x] => y \in P) => x \in P
  PROVE  S \subseteq P
  <1> DEFINE T == {m[x] : x \in S \ P}
             R == OpToRel(<, Nat)
  <1>1. IsWellFoundedOn(R, Nat)
    BY NatLessThanWellFounded
  <1>2. ASSUME NEW i \in Nat, NEW j \in Nat, i < j PROVE <<i, j>> \in R
    BY <1>2 DEF OpToRel
  <1> HIDE DEF R
  <1>3. T \subseteq Nat
    OBVIOUS
  <1>4. ASSUME T # {} PROVE FALSE
    <2>1. PICK i \in T : \A j \in T : ~ (<<j, i>> \in R)
      <3> HIDE DEF T
      <3> QED
        BY <1>1, <1>3, <1>4, WFMin
    <2>2. PICK x \in S \ P : i = m[x]
      BY <2>1
    <2>3. ASSUME NEW y \in S, m[y] < m[x] PROVE y \in P
      <3>1. m[y] \in Nat /\ m[x] \in Nat
        BY <2>2
      <3>2. <<m[y], i>> \in R
        BY <1>2, <2>2, <2>3, <3>1
      <3> QED
        BY <2>1, <3>2
    <2>4. x \in P
      BY <2>2, <2>3
    <2> QED
      BY <2>2, <2>4
  <1> QED
    BY <1>4

\* Going from link to link defines a function, whether or not it comes to an end.
Follows(c, S, stop, next, val) ==
  c = [x \in S |-> IF next[x] = stop THEN val[x] ELSE c[next[x]]]

\* A recursion along next that ends at stop has a result.
LEMMA Chain ==
  ASSUME NEW S, NEW stop, stop \notin S, NEW next \in [S -> S \cup {stop}], NEW val
  PROVE  \E c : Follows(c, S, stop, next, val)
  <1> DEFINE Closed(C) == \A v \in C : next[v] # stop => next[v] \in C
             Reach(x) == {y \in S : \A C \in SUBSET S : x \in C /\ Closed(C) => y \in C}
             Ends(x) == {y \in Reach(x) : next[y] = stop}
             c == [x \in S |-> val[CHOOSE y : y \in Ends(x)]]
  <1>1. ASSUME NEW x \in S PROVE x \in Reach(x) /\ Closed(Reach(x)) /\ Reach(x) \in SUBSET S
    OBVIOUS
  <1>2. ASSUME NEW x \in S, next[x] = stop PROVE Ends(x) = {x}
    <2>1. x \in Ends(x)
      BY <1>1, <1>2
    <2>2. ASSUME NEW y \in Ends(x) PROVE y = x
      <3>1. {x} \in SUBSET S /\ Closed({x}) /\ x \in {x}
        BY <1>2
      <3>2. y \in Reach(x)
        OBVIOUS
      <3> QED
        BY <3>1, <3>2
    <2> HIDE DEF Ends
    <2> QED
      BY <2>1, <2>2
  <1>3. ASSUME NEW x \in S, next[x] # stop PROVE next[x] \in S /\ Ends(x) = Ends(next[x])
    <2>1. next[x] \in S
      BY <1>3
    <2>2. ASSUME NEW y \in Reach(next[x]) PROVE y \in Reach(x)
      BY <1>3, <2>1, <2>2
    <2>3. ASSUME NEW y \in Reach(x), y # x PROVE y \in Reach(next[x])
      <3> DEFINE D == {x} \cup Reach(next[x])
      <3>1. D \in SUBSET S
        BY <2>1, <1>1
      <3>2. next[x] \in D
        BY <1>1, <2>1
      <3>3. Closed(D)
        <4>1. ASSUME NEW v \in D, next[v] # stop PROVE next[v] \in D
          <5>1. CASE v = x
            BY <3>2, <5>1
          <5>2. CASE v \in Reach(next[x])
            BY <1>1, <2>1, <4>1, <5>2
          <5> QED
            BY <5>1, <5>2
        <4> QED
          BY <4>1
      <3>4. y \in D
        <4> HIDE DEF D
        <4>1. x \in D
          BY DEF D
        <4>2. \A C \in SUBSET S : x \in C /\ Closed(C) => y \in C
          BY <2>3
        <4> QED
          BY <3>1, <3>3, <4>1, <4>2
      <3> QED
        BY <2>3, <3>4
    <2> HIDE DEF Reach
    <2>4. Ends(x) = Ends(next[x])
      BY <1>3, <2>2, <2>3
    <2> QED
      BY <2>1, <2>4
  <1>4. c = [x \in S |-> IF next[x] = stop THEN val[x] ELSE c[next[x]]]
    <2> HIDE DEF Ends
    <2>1. ASSUME NEW x \in S
          PROVE  c[x] = IF next[x] = stop THEN val[x] ELSE c[next[x]]
      <3>1. CASE next[x] = stop
        <4>1. Ends(x) = {x}
          BY <1>2, <3>1
        <4>2. (CHOOSE y : y \in {x}) = x
          OBVIOUS
        <4>3. c[x] = val[CHOOSE y : y \in Ends(x)]
          OBVIOUS
        <4>4. c[x] = val[x]
          <5> HIDE DEF c
          <5> QED
            BY <4>1, <4>2, <4>3, Zenon
        <4> QED
          BY <3>1, <4>4
      <3>2. CASE next[x] # stop
        BY <1>3, <3>2
      <3> QED
        BY <3>1, <3>2
    <2>2. c = [x \in S |-> c[x]]
      OBVIOUS
    <2> HIDE DEF c
    <2> QED
      BY <2>1, <2>2
  <1> QED
    BY <1>4 DEF Follows

\* The node at a position.
At(t, pos, i) == CHOOSE x \in In(t) : pos[x] = i

\* Each position has its node.
LEMMA AtPosition ==
  ASSUME NEW t, NEW n, NEW pos, Numbered(t, n, pos)
  PROVE  /\ \A i \in 1 .. n : At(t, pos, i) \in In(t) /\ pos[At(t, pos, i)] = i
         /\ \A x \in In(t) : At(t, pos, pos[x]) = x /\ pos[x] \in 1 .. n
  <1>1. ASSUME NEW i \in 1 .. n
        PROVE  At(t, pos, i) \in In(t) /\ pos[At(t, pos, i)] = i
    BY DEF At, Numbered
  <1>2. ASSUME NEW x \in In(t) PROVE At(t, pos, pos[x]) = x /\ pos[x] \in 1 .. n
    <2>1. pos[x] \in 1 .. n
      BY DEF Numbered
    <2> QED
      BY <1>1, <2>1 DEF Numbered
  <1> QED
    BY <1>1, <1>2

\* The first and the last node under x.
LEMMA SpanEnds ==
  ASSUME NEW t, NEW n, NEW pos, NEW lo, NEW hi, Shape(t, n, pos, lo, hi)
  PROVE  /\ \A x \in In(t) : t.left[At(t, pos, lo[x])] = Sentinel
         /\ \A x \in In(t) : t.right[At(t, pos, hi[x])] = Sentinel
  <1> DEFINE S == In(t)
             m == [x \in S |-> hi[x] - lo[x]]
             L == {x \in S : t.left[At(t, pos, lo[x])] = Sentinel}
             R == {x \in S : t.right[At(t, pos, hi[x])] = Sentinel}
  <1>1. /\ Bounded(S, n, pos, lo, hi) /\ Numbered(t, n, pos)
        /\ \A x \in S : LeftSpan(t, pos, lo, hi, x) /\ RightSpan(t, pos, lo, hi, x)
    BY DEF Shape, Spans
  <1>2. n \in Nat /\ \A x \in S : lo[x] \in 1 .. n /\ hi[x] \in 1 .. n /\ pos[x] \in 1 .. n
                                  /\ lo[x] <= pos[x] /\ pos[x] <= hi[x]
    BY <1>1 DEF Bounded, Numbered
  <1>3. \A x \in S : At(t, pos, pos[x]) = x
    BY <1>1, AtPosition
  <1>4. m \in [S -> Nat]
    BY <1>2
  <1>5. ASSUME NEW x \in S, \A y \in S : m[y] < m[x] => y \in L PROVE x \in L
    <2>1. CASE t.left[x] = Sentinel
      BY <1>1, <1>3, <2>1 DEF LeftSpan
    <2>2. CASE t.left[x] # Sentinel
      <3> DEFINE y == t.left[x]
      <3>1. y \in S /\ lo[y] = lo[x] /\ hi[y] = pos[x] - 1
        BY <1>1, <2>2 DEF LeftSpan
      <3>2. m[y] < m[x]
        BY <1>2, <3>1
      <3>3. y \in L
        BY <1>5, <3>1, <3>2
      <3> QED
        BY <3>1, <3>3
    <2> QED
      BY <2>1, <2>2
  <1>6. ASSUME NEW x \in S, \A y \in S : m[y] < m[x] => y \in R PROVE x \in R
    <2>1. CASE t.right[x] = Sentinel
      BY <1>1, <1>3, <2>1 DEF RightSpan
    <2>2. CASE t.right[x] # Sentinel
      <3> DEFINE y == t.right[x]
      <3>1. y \in S /\ lo[y] = pos[x] + 1 /\ hi[y] = hi[x]
        BY <1>1, <2>2 DEF RightSpan
      <3>2. m[y] < m[x]
        BY <1>2, <3>1
      <3>3. y \in R
        BY <1>6, <3>1, <3>2
      <3> QED
        BY <3>1, <3>3
    <2> QED
      BY <2>1, <2>2
  <1> HIDE DEF m, S
  <1>7. S \subseteq L
    <2> HIDE DEF L
    <2> QED
      BY <1>4, <1>5, Induct
  <1>8. S \subseteq R
    <2> HIDE DEF R
    <2> QED
      BY <1>4, <1>6, Induct
  <1> QED
    BY <1>7, <1>8 DEF S

\* ngx_rbtree_min finds the first node under x.
LEMMA MinFirst ==
  ASSUME NEW t, NEW n, NEW pos, NEW lo, NEW hi, Shape(t, n, pos, lo, hi), NEW x \in In(t)
  PROVE  Min(t, x) = At(t, pos, lo[x])
  <1> DEFINE S == In(t)
             next == [y \in S |-> t.left[y]]
             val == [y \in S |-> y]
             min == CHOOSE f : f = [y \in S |-> IF t.left[y] = Sentinel THEN y
                                                ELSE f[t.left[y]]]
             m == [y \in S |-> hi[y] - lo[y]]
             P == {y \in S : min[y] = At(t, pos, lo[y])}
  <1>1. /\ Bounded(S, n, pos, lo, hi) /\ Numbered(t, n, pos) /\ Sentinel \notin S
        /\ \A y \in S : LeftSpan(t, pos, lo, hi, y)
    BY CellsAssumption DEF Shape, Spans, In
  <1>2. n \in Nat /\ \A y \in S : lo[y] \in 1 .. n /\ hi[y] \in 1 .. n /\ pos[y] \in 1 .. n
                                  /\ lo[y] <= pos[y] /\ pos[y] <= hi[y]
    BY <1>1 DEF Bounded, Numbered
  <1>3. \A y \in S : At(t, pos, pos[y]) = y
    BY <1>1, AtPosition
  <1>4. m \in [S -> Nat]
    BY <1>2
  <1>5. \A y \in S : t.left[y] # Sentinel => t.left[y] \in S
    BY <1>1 DEF LeftSpan
  <1>6. next \in [S -> S \cup {Sentinel}]
    BY <1>5
  <1>7. \E c : Follows(c, S, Sentinel, next, val)
    <2> HIDE DEF S, next, val
    <2> QED
      BY <1>1, <1>6, Chain
  <1>8. \E c : c = [y \in S |-> IF t.left[y] = Sentinel THEN y ELSE c[t.left[y]]]
    <2>1. PICK c : c = [y \in S |-> IF next[y] = Sentinel THEN val[y] ELSE c[next[y]]]
      BY <1>7 DEF Follows
    <2>2. [y \in S |-> IF next[y] = Sentinel THEN val[y] ELSE c[next[y]]]
            = [y \in S |-> IF t.left[y] = Sentinel THEN y ELSE c[t.left[y]]]
      OBVIOUS
    <2> HIDE DEF next, val
    <2> QED
      BY <2>1, <2>2
  <1>9. min = [y \in S |-> IF t.left[y] = Sentinel THEN y ELSE min[t.left[y]]]
    BY <1>8
  <1>10. Min(t, x) = min[x]
    BY DEF Min
  <1> HIDE DEF min
  <1>11. ASSUME NEW y \in S, \A z \in S : m[z] < m[y] => z \in P PROVE y \in P
    <2>1. CASE t.left[y] = Sentinel
      BY <1>1, <1>3, <1>9, <2>1 DEF LeftSpan
    <2>2. CASE t.left[y] # Sentinel
      <3> DEFINE z == t.left[y]
      <3>1. z \in S /\ lo[z] = lo[y] /\ hi[z] = pos[y] - 1
        BY <1>1, <2>2 DEF LeftSpan
      <3>2. m[z] < m[y]
        BY <1>2, <3>1
      <3>3. z \in P
        BY <1>11, <3>1, <3>2
      <3> QED
        BY <1>9, <2>2, <3>1, <3>3
    <2> QED
      BY <2>1, <2>2
  <1> HIDE DEF m, S, P
  <1>12. S \subseteq P
    BY <1>4, <1>11, Induct
  <1> QED
    BY <1>10, <1>12 DEF P, S

\* ngx_rbtree_next climbs to the node after the last one under x.
LEMMA ClimbNext ==
  ASSUME NEW t, NEW n, NEW pos, NEW lo, NEW hi, Shape(t, n, pos, lo, hi), NEW x \in In(t),
         t.right[x] = Sentinel
  PROVE  Successor(t, x) = IF hi[x] = n THEN Null ELSE At(t, pos, hi[x] + 1)
  <1> DEFINE S == In(t)
             stops(y) == y = t.root \/ SideOf(t, y) = "left"
             next == [y \in S |-> IF stops(y) THEN Sentinel ELSE t.parent[y]]
             val == [y \in S |-> IF y = t.root THEN Null ELSE t.parent[y]]
             climb == CHOOSE f : f = [y \in S |-> IF y = t.root THEN Null
                                                  ELSE IF SideOf(t, y) = "left" THEN t.parent[y]
                                                  ELSE f[t.parent[y]]]
             m == [y \in S |-> n - (hi[y] - lo[y])]
             P == {y \in S : climb[y] = IF hi[y] = n THEN Null ELSE At(t, pos, hi[y] + 1)}
  <1>1. /\ Bounded(S, n, pos, lo, hi) /\ Numbered(t, n, pos) /\ Sentinel \notin S
        /\ \A y \in S : LeftSpan(t, pos, lo, hi, y) /\ RightSpan(t, pos, lo, hi, y)
        /\ RootSpan(t, n, lo, hi) /\ Family(t)
    BY CellsAssumption, ShapeFamily DEF Shape, Spans, In
  <1>2. n \in Nat /\ \A y \in S : lo[y] \in 1 .. n /\ hi[y] \in 1 .. n /\ pos[y] \in 1 .. n
                                  /\ lo[y] <= pos[y] /\ pos[y] <= hi[y]
    BY <1>1 DEF Bounded, Numbered
  <1>3. \A y \in S : At(t, pos, pos[y]) = y
    BY <1>1, AtPosition
  <1>4. m \in [S -> Nat]
    BY <1>2
  <1>5. \A y \in S : y # t.root => /\ t.parent[y] \in S /\ t[SideOf(t, y)][t.parent[y]] = y
                                   /\ SideOf(t, y) \in Sides /\ y # Sentinel
    BY <1>1 DEF Family
  <1>6. next \in [S -> S \cup {Sentinel}]
    BY <1>5
  <1>7. \E c : Follows(c, S, Sentinel, next, val)
    <2> HIDE DEF S, next, val
    <2> QED
      BY <1>1, <1>6, Chain
  <1>8. \E c : c = [y \in S |-> IF y = t.root THEN Null
                                ELSE IF SideOf(t, y) = "left" THEN t.parent[y]
                                ELSE c[t.parent[y]]]
    <2>1. PICK c : c = [y \in S |-> IF next[y] = Sentinel THEN val[y] ELSE c[next[y]]]
      BY <1>7 DEF Follows
    <2>2. ASSUME NEW y \in S
          PROVE  (IF next[y] = Sentinel THEN val[y] ELSE c[next[y]])
                   = IF y = t.root THEN Null
                     ELSE IF SideOf(t, y) = "left" THEN t.parent[y] ELSE c[t.parent[y]]
      <3>1. CASE stops(y)
        BY <3>1
      <3>2. CASE ~ stops(y)
        <4>1. t.parent[y] \in S
          BY <1>5, <3>2
        <4>2. next[y] = t.parent[y] /\ next[y] # Sentinel
          BY <1>1, <3>2, <4>1
        <4> HIDE DEF next, val
        <4> QED
          BY <3>2, <4>2
      <3> QED
        BY <3>1, <3>2
    <2> HIDE DEF next, val
    <2> QED
      BY <2>1, <2>2
  <1>9. climb = [y \in S |-> IF y = t.root THEN Null
                             ELSE IF SideOf(t, y) = "left" THEN t.parent[y]
                             ELSE climb[t.parent[y]]]
    BY <1>8
  <1>10. Successor(t, x) = climb[x]
    BY DEF Successor
  <1> HIDE DEF climb
  <1>11. ASSUME NEW y \in S, \A z \in S : m[z] < m[y] => z \in P PROVE y \in P
    <2>1. CASE y = t.root
      <3>1. hi[y] = n /\ climb[y] = Null
        BY <1>1, <1>9, <2>1 DEF RootSpan
      <3> QED
        BY <3>1
    <2>2. CASE y # t.root /\ SideOf(t, y) = "left"
      <3> DEFINE z == t.parent[y]
      <3>1. z \in S /\ t.left[z] = y /\ y # Sentinel
        BY <1>5, <2>2
      <3>2. hi[y] = pos[z] - 1
        BY <1>1, <3>1 DEF LeftSpan
      <3>3. hi[y] # n /\ hi[y] + 1 = pos[z]
        BY <1>2, <3>1, <3>2
      <3>4. climb[y] = z
        BY <1>9, <2>2
      <3> HIDE DEF z
      <3> QED
        BY <1>3, <3>1, <3>3, <3>4
    <2>3. CASE y # t.root /\ SideOf(t, y) # "left"
      <3> DEFINE z == t.parent[y]
      <3>1. z \in S /\ t.right[z] = y /\ y # Sentinel
        BY <1>5, <2>3 DEF Sides
      <3>2. lo[y] = pos[z] + 1 /\ hi[y] = hi[z]
        BY <1>1, <3>1 DEF RightSpan
      <3>3. m[z] < m[y]
        BY <1>2, <3>1, <3>2
      <3>4. climb[y] = climb[z]
        BY <1>9, <2>3
      <3>5. z \in P
        BY <1>11, <3>1, <3>3
      <3> HIDE DEF z
      <3> QED
        BY <3>2, <3>4, <3>5
    <2> QED
      BY <2>1, <2>2, <2>3
  <1> HIDE DEF m, S, P
  <1>12. S \subseteq P
    BY <1>4, <1>11, Induct
  <1> QED
    BY <1>10, <1>12 DEF P, S

\* ngx_rbtree_next finds the next node.
LEMMA SuccessorNext ==
  ASSUME NEW t, NEW n, NEW pos, NEW lo, NEW hi, Shape(t, n, pos, lo, hi), NEW x \in In(t)
  PROVE  Successor(t, x) = IF pos[x] = n THEN Null ELSE At(t, pos, pos[x] + 1)
  <1>1. /\ Bounded(In(t), n, pos, lo, hi) /\ Numbered(t, n, pos)
        /\ RightSpan(t, pos, lo, hi, x)
    BY DEF Shape, Spans
  <1>2. CASE t.right[x] = Sentinel
    BY <1>1, <1>2, ClimbNext DEF RightSpan
  <1>3. CASE t.right[x] # Sentinel
    <2> DEFINE y == t.right[x]
    <2>1. y \in In(t) /\ lo[y] = pos[x] + 1 /\ lo[y] \in 1 .. n /\ n \in Nat /\ pos[x] \in 1 .. n
      BY <1>1, <1>3 DEF RightSpan, Bounded, Numbered
    <2>2. pos[x] # n
      BY <2>1
    <2>3. Min(t, y) = At(t, pos, pos[x] + 1)
      BY <2>1, MinFirst
    <2>4. Successor(t, x) = Min(t, y)
      BY <1>3 DEF Successor
    <2> QED
      BY <2>2, <2>3, <2>4
  <1> QED
    BY <1>2, <1>3

\* The nodes from one position to another.
Piece(at, a, b) == [i \in 1 .. b - a + 1 |-> at[a + i - 1]]

\* Two pieces and what is between them are a piece.
LEMMA Pieces ==
  ASSUME NEW n \in Nat, NEW S, NEW at \in [1 .. n -> S], NEW p \in 1 .. n,
         NEW l \in 1 .. n, NEW h \in 1 .. n, l <= p, p <= h
  PROVE  /\ Piece(at, l, p - 1) \o <<at[p]>> \o Piece(at, p + 1, h) = Piece(at, l, h)
         /\ l = p => Piece(at, l, p - 1) = <<>>
         /\ h = p => Piece(at, p + 1, h) = <<>>
  <1> DEFINE A == Piece(at, l, p - 1)
             B == <<at[p]>>
             C == Piece(at, p + 1, h)
             D == Piece(at, l, h)
  <1>1. /\ p - 1 - l + 1 = p - l /\ p - l \in Nat
        /\ h - (p + 1) + 1 = h - p /\ h - p \in Nat
        /\ h - l + 1 \in Nat /\ p - l + 1 + (h - p) = h - l + 1
    OBVIOUS
  <1>2. A = [i \in 1 .. p - l |-> at[l + i - 1]] /\ A \in Seq(S) /\ Len(A) = p - l
    <2>1. A = [i \in 1 .. p - l |-> at[l + i - 1]]
      BY <1>1 DEF Piece
    <2>2. \A i \in 1 .. p - l : at[l + i - 1] \in S
      <3>1. \A i \in 1 .. p - l : l + i - 1 \in 1 .. n
        OBVIOUS
      <3> QED
        BY <3>1
    <2> HIDE DEF A
    <2> QED
      BY <1>1, <2>1, <2>2
  <1>3. C = [i \in 1 .. h - p |-> at[p + 1 + i - 1]] /\ C \in Seq(S) /\ Len(C) = h - p
    <2>1. C = [i \in 1 .. h - p |-> at[p + 1 + i - 1]]
      BY <1>1 DEF Piece
    <2>2. \A i \in 1 .. h - p : at[p + 1 + i - 1] \in S
      <3>1. \A i \in 1 .. h - p : p + 1 + i - 1 \in 1 .. n
        OBVIOUS
      <3> QED
        BY <3>1
    <2> HIDE DEF C
    <2> QED
      BY <1>1, <2>1, <2>2
  <1>4. B \in Seq(S) /\ Len(B) = 1 /\ B[1] = at[p]
    OBVIOUS
  <1>5. D \in Seq(S) /\ Len(D) = h - l + 1 /\ \A i \in 1 .. h - l + 1 : D[i] = at[l + i - 1]
    <2>1. D = [i \in 1 .. h - l + 1 |-> at[l + i - 1]]
      BY DEF Piece
    <2>2. \A i \in 1 .. h - l + 1 : at[l + i - 1] \in S
      <3>1. \A i \in 1 .. h - l + 1 : l + i - 1 \in 1 .. n
        OBVIOUS
      <3> QED
        BY <3>1
    <2> HIDE DEF D
    <2> QED
      BY <1>1, <2>1, <2>2
  <1>6. /\ A \o B \in Seq(S) /\ Len(A \o B) = p - l + 1
        /\ \A i \in 1 .. p - l + 1 : (A \o B)[i] = IF i <= p - l THEN A[i] ELSE B[i - (p - l)]
    <2> HIDE DEF A, B
    <2>1. /\ A \o B \in Seq(S) /\ Len(A \o B) = Len(A) + Len(B)
          /\ \A i \in 1 .. Len(A) + Len(B) : (A \o B)[i] = IF i <= Len(A) THEN A[i]
                                                            ELSE B[i - Len(A)]
      BY <1>2, <1>4, ConcatProperties
    <2>2. Len(A) + Len(B) = p - l + 1
      BY <1>1, <1>2, <1>4
    <2> QED
      BY <1>2, <2>1, <2>2
  <1>7. /\ (A \o B) \o C \in Seq(S) /\ Len((A \o B) \o C) = h - l + 1
        /\ \A i \in 1 .. h - l + 1 : ((A \o B) \o C)[i] = IF i <= p - l + 1 THEN (A \o B)[i]
                                                          ELSE C[i - (p - l + 1)]
    <2> DEFINE E == A \o B
    <2>1. E \in Seq(S) /\ Len(E) = p - l + 1
      BY <1>6
    <2> HIDE DEF E, C
    <2>2. /\ E \o C \in Seq(S) /\ Len(E \o C) = Len(E) + Len(C)
          /\ \A i \in 1 .. Len(E) + Len(C) : (E \o C)[i] = IF i <= Len(E) THEN E[i]
                                                            ELSE C[i - Len(E)]
      BY <1>3, <2>1, ConcatProperties
    <2>3. Len(E) + Len(C) = h - l + 1
      BY <1>1, <1>3, <2>1
    <2>4. /\ E \o C \in Seq(S) /\ Len(E \o C) = h - l + 1
          /\ \A i \in 1 .. h - l + 1 : (E \o C)[i] = IF i <= p - l + 1 THEN E[i]
                                                            ELSE C[i - (p - l + 1)]
      BY <2>1, <2>2, <2>3
    <2> QED
      BY <2>4 DEF E
  <1>8. ASSUME NEW i \in 1 .. h - l + 1 PROVE ((A \o B) \o C)[i] = at[l + i - 1]
    <2>1. CASE i <= p - l
      <3>1. i \in 1 .. p - l + 1 /\ i <= p - l + 1 /\ i \in 1 .. p - l
        BY <2>1
      <3>2. ((A \o B) \o C)[i] = A[i]
        BY <1>6, <1>7, <2>1, <3>1
      <3> HIDE DEF A
      <3> QED
        BY <1>2, <3>1, <3>2
    <2>2. CASE i = p - l + 1
      <3>1. i \in 1 .. p - l + 1 /\ i <= p - l + 1 /\ ~ (i <= p - l) /\ i - (p - l) = 1
            /\ l + i - 1 = p
        BY <2>2
      <3>2. ((A \o B) \o C)[i] = B[1]
        BY <1>6, <1>7, <3>1
      <3> QED
        BY <1>4, <3>1, <3>2
    <2>3. CASE i > p - l + 1
      <3>1. /\ i - (p - l + 1) \in 1 .. h - p /\ ~ (i <= p - l + 1)
            /\ p + 1 + (i - (p - l + 1)) - 1 = l + i - 1
        BY <2>3
      <3>2. ((A \o B) \o C)[i] = C[i - (p - l + 1)]
        BY <1>7, <3>1
      <3>3. C[i - (p - l + 1)] = at[p + 1 + (i - (p - l + 1)) - 1]
        <4> HIDE DEF C
        <4> QED
          BY <1>3, <3>1
      <3> QED
        BY <3>1, <3>2, <3>3
    <2>4. i <= p - l \/ i = p - l + 1 \/ i > p - l + 1
      OBVIOUS
    <2> QED
      BY <2>1, <2>2, <2>3, <2>4, Zenon
  <1>9. (A \o B) \o C = D
    <2> DEFINE E == (A \o B) \o C
    <2>1. /\ E \in Seq(S) /\ Len(E) = h - l + 1
          /\ \A i \in 1 .. h - l + 1 : E[i] = D[i]
      BY <1>5, <1>7, <1>8
    <2> HIDE DEF E, D
    <2>2. E = D
      BY <1>5, <2>1
    <2> QED
      BY <2>2 DEF E
  <1>10. ASSUME l = p PROVE A = <<>>
    <2>1. Len(A) = 0
      BY <1>2, <1>10
    <2> HIDE DEF A
    <2> QED
      BY <1>2, <2>1
  <1>11. ASSUME h = p PROVE C = <<>>
    <2>1. Len(C) = 0
      BY <1>3, <1>11
    <2> HIDE DEF C
    <2> QED
      BY <1>3, <2>1
  <1> QED
    BY <1>9, <1>10, <1>11

\* The nodes in order.
Line(t, n, pos) == [i \in 1 .. n |-> At(t, pos, i)]

\* InOrder, for any tree.
Walked(t) == LET io[x \in In(t) \cup {Sentinel}] ==
                   IF x = Sentinel THEN <<>> ELSE io[t.left[x]] \o <<x>> \o io[t.right[x]]
             IN io[t.root]

\* Two pieces around p are a piece, and empty at the ends.
Abutting(at, l, p, h) ==
  /\ Piece(at, l, p - 1) \o <<at[p]>> \o Piece(at, p + 1, h) = Piece(at, l, h)
  /\ l = p => Piece(at, l, p - 1) = <<>>
  /\ h = p => Piece(at, p + 1, h) = <<>>

\* What lies before a place of a row, the place and what lies behind it are the row.
LEMMA PiecesAbut ==
  ASSUME NEW n \in Nat, NEW S, NEW at \in [1 .. n -> S], NEW p \in 1 .. n,
         NEW l \in 1 .. n, NEW h \in 1 .. n, l <= p, p <= h
  PROVE  Abutting(at, l, p, h)
  BY Pieces DEF Abutting

\* The walk meets the nodes in the order of their positions.
LEMMA WalkedLine ==
  ASSUME NEW t, NEW n, NEW pos, NEW lo, NEW hi, Shape(t, n, pos, lo, hi)
  PROVE  Walked(t) = Line(t, n, pos)
  <1> DEFINE S == In(t)
             at == Line(t, n, pos)
             under(x) == IF x = Sentinel THEN <<>> ELSE Piece(at, lo[x], hi[x])
             c == [x \in S \cup {Sentinel} |-> under(x)]
             io == CHOOSE f : f = [x \in S \cup {Sentinel} |->
                                     IF x = Sentinel THEN <<>>
                                     ELSE f[t.left[x]] \o <<x>> \o f[t.right[x]]]
             m == [x \in S |-> hi[x] - lo[x]]
             P == {x \in S : io[x] = under(x)}
  <1>1. /\ Bounded(S, n, pos, lo, hi) /\ Numbered(t, n, pos) /\ Sentinel \notin S
        /\ \A x \in S : LeftSpan(t, pos, lo, hi, x) /\ RightSpan(t, pos, lo, hi, x)
        /\ RootSpan(t, n, lo, hi)
    BY CellsAssumption DEF Shape, Spans, In
  <1>2. n \in Nat /\ \A x \in S : lo[x] \in 1 .. n /\ hi[x] \in 1 .. n /\ pos[x] \in 1 .. n
                                  /\ lo[x] <= pos[x] /\ pos[x] <= hi[x]
    BY <1>1 DEF Bounded, Numbered
  <1>3. at \in [1 .. n -> S] /\ \A x \in S : at[pos[x]] = x
    BY <1>1, <1>2, AtPosition DEF Line
  <1> HIDE DEF at
  <1>4. m \in [S -> Nat]
    BY <1>2
  <1>5. ASSUME NEW x \in S
        PROVE  /\ under(t.left[x]) = Piece(at, lo[x], pos[x] - 1)
               /\ under(t.right[x]) = Piece(at, pos[x] + 1, hi[x])
               /\ under(t.left[x]) \o <<x>> \o under(t.right[x]) = under(x)
               /\ t.left[x] \in S \cup {Sentinel} /\ t.right[x] \in S \cup {Sentinel}
    <2>1. /\ Piece(at, lo[x], pos[x] - 1) \o <<at[pos[x]]>> \o Piece(at, pos[x] + 1, hi[x])
               = Piece(at, lo[x], hi[x])
          /\ lo[x] = pos[x] => Piece(at, lo[x], pos[x] - 1) = <<>>
          /\ hi[x] = pos[x] => Piece(at, pos[x] + 1, hi[x]) = <<>>
      <3> HIDE DEF S
      <3> QED
        BY <1>2, <1>3, Pieces
    <2>2. under(t.left[x]) = Piece(at, lo[x], pos[x] - 1)
      <3>1. CASE t.left[x] = Sentinel
        BY <1>1, <2>1, <3>1 DEF LeftSpan
      <3>2. CASE t.left[x] # Sentinel
        BY <1>1, <3>2 DEF LeftSpan
      <3> QED
        BY <3>1, <3>2
    <2>3. under(t.right[x]) = Piece(at, pos[x] + 1, hi[x])
      <3>1. CASE t.right[x] = Sentinel
        BY <1>1, <2>1, <3>1 DEF RightSpan
      <3>2. CASE t.right[x] # Sentinel
        BY <1>1, <3>2 DEF RightSpan
      <3> QED
        BY <3>1, <3>2
    <2>4. t.left[x] \in S \cup {Sentinel} /\ t.right[x] \in S \cup {Sentinel}
      BY <1>1 DEF LeftSpan, RightSpan
    <2>5. under(x) = Piece(at, lo[x], hi[x]) /\ at[pos[x]] = x
      BY <1>1, <1>3
    <2> HIDE DEF under
    <2> QED
      BY <2>1, <2>2, <2>3, <2>4, <2>5, Zenon
  <1>6. c = [x \in S \cup {Sentinel} |-> IF x = Sentinel THEN <<>>
                                         ELSE c[t.left[x]] \o <<x>> \o c[t.right[x]]]
    <2>1. ASSUME NEW x \in S
          PROVE  c[t.left[x]] \o <<x>> \o c[t.right[x]] = under(x)
      <3>1. c[t.left[x]] = under(t.left[x]) /\ c[t.right[x]] = under(t.right[x])
        BY <1>5
      <3> HIDE DEF c, under
      <3> QED
        BY <1>5, <3>1
    <2>2. ASSUME NEW x \in S \cup {Sentinel}
          PROVE  c[x] = IF x = Sentinel THEN <<>>
                        ELSE c[t.left[x]] \o <<x>> \o c[t.right[x]]
      <3>1. c[x] = under(x)
        OBVIOUS
      <3>2. CASE x = Sentinel
        BY <3>1, <3>2
      <3>3. CASE x # Sentinel
        <4>1. x \in S
          BY <3>3
        <4> HIDE DEF c, under
        <4> QED
          BY <2>1, <3>1, <3>3, <4>1
      <3> QED
        BY <3>2, <3>3
    <2>3. c = [x \in S \cup {Sentinel} |-> c[x]]
      OBVIOUS
    <2> HIDE DEF c
    <2> QED
      BY <2>2, <2>3
  <1>7. io = [x \in S \cup {Sentinel} |-> IF x = Sentinel THEN <<>>
                                          ELSE io[t.left[x]] \o <<x>> \o io[t.right[x]]]
    <2> HIDE DEF c
    <2> QED
      BY <1>6
  <1>8. Walked(t) = io[t.root]
    BY DEF Walked
  <1> HIDE DEF io, c
  <1>9. io[Sentinel] = under(Sentinel)
    BY <1>7
  <1>10. ASSUME NEW x \in S, \A y \in S : m[y] < m[x] => y \in P PROVE x \in P
    <2>1. io[x] = io[t.left[x]] \o <<x>> \o io[t.right[x]]
      BY <1>1, <1>7
    <2>2. io[t.left[x]] = under(t.left[x])
      <3>1. CASE t.left[x] = Sentinel
        BY <1>9, <3>1
      <3>2. CASE t.left[x] # Sentinel
        <4> DEFINE y == t.left[x]
        <4>1. y \in S /\ lo[y] = lo[x] /\ hi[y] = pos[x] - 1
          BY <1>1, <3>2 DEF LeftSpan
        <4>2. m[y] < m[x]
          BY <1>2, <4>1
        <4> QED
          BY <1>10, <4>1, <4>2
      <3> QED
        BY <3>1, <3>2
    <2>3. io[t.right[x]] = under(t.right[x])
      <3>1. CASE t.right[x] = Sentinel
        BY <1>9, <3>1
      <3>2. CASE t.right[x] # Sentinel
        <4> DEFINE y == t.right[x]
        <4>1. y \in S /\ lo[y] = pos[x] + 1 /\ hi[y] = hi[x]
          BY <1>1, <3>2 DEF RightSpan
        <4>2. m[y] < m[x]
          BY <1>2, <4>1
        <4> QED
          BY <1>10, <4>1, <4>2
      <3> QED
        BY <3>1, <3>2
    <2>4. io[x] = under(x)
      <3> HIDE DEF under
      <3> QED
        BY <1>5, <2>1, <2>2, <2>3
    <2> QED
      BY <2>4
  <1>11. S \subseteq P
    <2> HIDE DEF m, S, P
    <2> QED
      BY <1>4, <1>10, Induct
  <1>12. CASE t.root = Sentinel
    <2>1. n = 0
      BY <1>1, <1>12 DEF RootSpan
    <2>2. io[t.root] = <<>>
      BY <1>9, <1>12
    <2>3. Line(t, n, pos) = <<>>
      BY <2>1 DEF Line
    <2> QED
      BY <1>8, <2>2, <2>3
  <1>13. CASE t.root # Sentinel
    <2>1. t.root \in S /\ lo[t.root] = 1 /\ hi[t.root] = n
      BY <1>1, <1>13 DEF RootSpan
    <2>2. io[t.root] = Piece(at, 1, n)
      BY <1>11, <1>13, <2>1
    <2>3. Piece(at, 1, n) = at
      <3>1. n - 1 + 1 = n /\ \A i \in 1 .. n : 1 + i - 1 = i
        BY <1>2
      <3> QED
        BY <1>3, <3>1 DEF Piece
    <2> QED
      BY <1>8, <2>2, <2>3 DEF at
  <1> QED
    BY <1>12, <1>13

\* InOrder is the nodes in the order of their positions.
LEMMA InOrderLine ==
  ASSUME NEW n, NEW pos, NEW lo, NEW hi, Shape(tree, n, pos, lo, hi)
  PROVE  InOrder = Line(tree, n, pos)
  <1>1. InOrder = Walked(tree)
    BY DEF InOrder, InTree, Walked
  <1> QED
    BY <1>1, WalkedLine

\* Every path from a node to its leaves has as many blacks as its height says.
LEMMA BlacksHeight ==
  ASSUME NEW n, NEW pos, Ordered(tree, n, pos), NEW b, NEW mp, NEW ms,
         Heights(tree, b, mp, ms),
         \A x \in In(tree), s \in Sides : MissingAt(x, s) <=> (x = mp /\ s = ms)
  PROVE  Blacks = {b[tree.root]}
  <1>1. PICK lo, hi : Shape(tree, n, pos, lo, hi)
    BY DEF Ordered
  <1> DEFINE S == In(tree)
             step(f, x) == UNION {{One(Black(tree, x)) + One(MissingAt(x, s)) + k :
                                     k \in f[tree[s][x]]} : s \in {"left", "right"}}
             c == [x \in S \cup {Sentinel} |-> {b[x]}]
             blacks == CHOOSE f : f = [x \in S \cup {Sentinel} |->
                                         IF x = Sentinel THEN {1}
                                         ELSE UNION {{One(Black(tree, x)) + One(MissingAt(x, s)) + k :
                                                k \in f[tree[s][x]]} : s \in {"left", "right"}}]
             m == [x \in S |-> hi[x] - lo[x]]
             P == {x \in S : blacks[x] = {b[x]}}
  <1>2. /\ Bounded(S, n, pos, lo, hi) /\ Numbered(tree, n, pos) /\ Sentinel \notin S
        /\ \A x \in S : LeftSpan(tree, pos, lo, hi, x) /\ RightSpan(tree, pos, lo, hi, x)
        /\ tree.root \in S \cup {Sentinel}
    BY <1>1, CellsAssumption DEF Shape, Spans, RootSpan, In
  <1>3. n \in Nat /\ \A x \in S : lo[x] \in 1 .. n /\ hi[x] \in 1 .. n /\ pos[x] \in 1 .. n
                                  /\ lo[x] <= pos[x] /\ pos[x] <= hi[x]
    BY <1>2 DEF Bounded, Numbered
  <1>4. m \in [S -> Nat]
    BY <1>3
  <1>5. \A x \in S, s \in Sides : tree[s][x] \in S \cup {Sentinel}
    BY Lines
  <1>6. b[Sentinel] = 1 /\ \A x \in S, s \in Sides :
          b[x] = One(Black(tree, x)) + One(MissingAt(x, s)) + b[tree[s][x]]
    <2>1. b[Sentinel] = 1
      BY DEF Heights, Measured
    <2>2. ASSUME NEW x \in S, NEW s \in Sides
          PROVE  b[x] = One(Black(tree, x)) + One(MissingAt(x, s)) + b[tree[s][x]]
      <3>1. b[x] = One(Black(tree, x)) + One(x = mp /\ s = ms) + b[tree[s][x]]
        BY DEF Heights, HeightAt
      <3>2. One(MissingAt(x, s)) = One(x = mp /\ s = ms)
        <4>1. MissingAt(x, s) <=> (x = mp /\ s = ms)
          OBVIOUS
        <4> QED
          BY <4>1 DEF One
      <3> QED
        BY <3>1, <3>2
    <2> QED
      BY <2>1, <2>2
  <1>7. ASSUME NEW x \in S, NEW f, \A s \in Sides : f[tree[s][x]] = {b[tree[s][x]]}
        PROVE  step(f, x) = {b[x]}
    <2>1. ASSUME NEW s \in Sides
          PROVE  {One(Black(tree, x)) + One(MissingAt(x, s)) + k : k \in f[tree[s][x]]} = {b[x]}
      BY <1>6, <1>7
    <2>2. "left" \in Sides /\ "right" \in Sides
      BY DEF Sides
    <2> QED
      BY <2>1, <2>2
  <1>8. c = [x \in S \cup {Sentinel} |-> IF x = Sentinel THEN {1} ELSE step(c, x)]
    <2>1. ASSUME NEW x \in S PROVE step(c, x) = {b[x]}
      <3>1. \A s \in Sides : c[tree[s][x]] = {b[tree[s][x]]}
        BY <1>5
      <3> HIDE DEF c, step
      <3> QED
        BY <1>7, <3>1
    <2>2. ASSUME NEW x \in S \cup {Sentinel}
          PROVE  c[x] = IF x = Sentinel THEN {1} ELSE step(c, x)
      <3>1. c[x] = {b[x]}
        OBVIOUS
      <3> HIDE DEF c, step
      <3> QED
        BY <1>6, <2>1, <3>1
    <2>3. c = [x \in S \cup {Sentinel} |-> c[x]]
      OBVIOUS
    <2> HIDE DEF c, step
    <2> QED
      BY <2>2, <2>3
  <1>9. blacks = [x \in S \cup {Sentinel} |-> IF x = Sentinel THEN {1} ELSE step(blacks, x)]
    <2> HIDE DEF c
    <2> QED
      BY <1>8
  <1>10. Blacks = blacks[tree.root]
    BY DEF Blacks, InTree
  <1> HIDE DEF blacks, c, step
  <1>11. blacks[Sentinel] = {b[Sentinel]}
    BY <1>6, <1>9
  <1>12. ASSUME NEW x \in S, \A y \in S : m[y] < m[x] => y \in P PROVE x \in P
    <2>1. blacks[x] = step(blacks, x)
      BY <1>2, <1>9
    <2>2. ASSUME NEW s \in Sides PROVE blacks[tree[s][x]] = {b[tree[s][x]]}
      <3>1. CASE tree[s][x] = Sentinel
        BY <1>11, <3>1
      <3>2. CASE tree[s][x] # Sentinel
        <4> DEFINE y == tree[s][x]
        <4>1. y \in S
          BY <1>5, <3>2
        <4>2. \/ lo[y] = lo[x] /\ hi[y] = pos[x] - 1
              \/ lo[y] = pos[x] + 1 /\ hi[y] = hi[x]
          BY <1>2, <2>2, <3>2 DEF LeftSpan, RightSpan, Sides
        <4>3. m[y] < m[x]
          BY <1>3, <4>1, <4>2
        <4> QED
          BY <1>12, <4>1, <4>3
      <3> QED
        BY <3>1, <3>2
    <2> QED
      BY <1>7, <2>1, <2>2
  <1>13. S \subseteq P
    <2> HIDE DEF m, S, P
    <2> QED
      BY <1>4, <1>12, Induct
  <1> QED
    BY <1>2, <1>10, <1>11, <1>13

\* The keys in the tree are keys of the callers, and none is before the one ahead of it.
Sorted(t, how, pos) ==
  /\ \A x \in In(t) : t.key[x] \in Keys
  /\ \A x, y \in In(t) : pos[x] < pos[y] => ~ Earlier(how, t.key[y], t.key[x])

\* The colors at the loop, or between the calls.
Balanced == /\ pc = "idle" => \E b : Settled(tree, b)
            /\ pc = "insert" => \E b : InsertAt(tree, b, cur)
            /\ pc = "delete" => \E b : DeleteAt(tree, b, cur)

\* The inductive invariant: the nodes are in order, with parents to match, their keys
\* are sorted, and the black heights agree but for the node a loop is at.
IInv == /\ tree \in Trees /\ insert \in {"value", "timer"}
        /\ pc \in {"idle", "insert", "delete"} /\ cur \in Cells
        /\ Black(tree, Sentinel)
        /\ \E n, pos : Ordered(tree, n, pos) /\ Sorted(tree, insert, pos)
        /\ Balanced

\* The line is as long as there are nodes.
LEMMA LineLength ==
  ASSUME NEW t, NEW n, NEW pos, Numbered(t, n, pos)
  PROVE  /\ n \in Nat /\ Len(Line(t, n, pos)) = n /\ Cardinality(In(t)) = n
         /\ \A i \in 1 .. n : Line(t, n, pos)[i] = At(t, pos, i)
  <1>1. n \in Nat /\ pos \in [In(t) -> 1 .. n]
    BY DEF Numbered
  <1>2. Line(t, n, pos) = [i \in 1 .. n |-> At(t, pos, i)]
    BY DEF Line
  <1>3. Len(Line(t, n, pos)) = n
    BY <1>1, <1>2
  <1>4. Cardinality(In(t)) = n
    <2> DEFINE at == [i \in 1 .. n |-> At(t, pos, i)]
    <2>1. /\ \A i \in 1 .. n : At(t, pos, i) \in In(t) /\ pos[At(t, pos, i)] = i
          /\ \A x \in In(t) : At(t, pos, pos[x]) = x /\ pos[x] \in 1 .. n
      BY AtPosition
    <2>2. at \in Bijection(1 .. n, In(t))
      <3>1. at \in [1 .. n -> In(t)] /\ DOMAIN at = 1 .. n
        BY <2>1
      <3>2. \A i, j \in 1 .. n : at[i] = at[j] => i = j
        <4>1. ASSUME NEW i \in 1 .. n, NEW j \in 1 .. n, at[i] = at[j] PROVE i = j
          <5>1. pos[at[i]] = i /\ pos[at[j]] = j
            BY <2>1
          <5> HIDE DEF at
          <5> QED
            BY <4>1, <5>1
        <4> QED
          BY <4>1
      <3>3. \A x \in In(t) : \E i \in 1 .. n : at[i] = x
        BY <2>1
      <3> HIDE DEF at
      <3> QED
        BY <3>1, <3>2, <3>3 DEF Bijection, Injection, Surjection, IsInjective
    <2>3. ExistsBijection(1 .. n, In(t))
      BY <2>2 DEF ExistsBijection
    <2>4. IsFiniteSet(1 .. n) /\ Cardinality(1 .. n) = n
      BY <1>1, FS_Interval
    <2> QED
      BY <2>3, <2>4, FS_Bijection
  <1> QED
    BY <1>1, <1>2, <1>3, <1>4

\* The colors that Balanced allows, in the form of RedBlack.
LEMMA BalancedColors ==
  ASSUME NEW n, NEW pos, Ordered(tree, n, pos), Balanced,
         pc \in {"idle", "insert", "delete"}
  PROVE  RedsApart /\ Cardinality(Blacks) = 1 /\ (pc = "idle" => Black(tree, tree.root))
  <1>1. /\ Family(tree) /\ Null \notin In(tree)
    BY Lines
  <1>2. PICK b, cc, cp, mp, ms :
          /\ Heights(tree, b, mp, ms) /\ Reds(tree, cc, cp)
          /\ pc = "idle" => cc = Null /\ cp = Null /\ mp = Null /\ Black(tree, tree.root)
          /\ pc = "insert" => cc = cur /\ cp = Null /\ mp = Null
          /\ pc = "delete" => /\ cc = cur /\ cp = cur
                              /\ cur = tree.root => mp = Null
                              /\ cur # tree.root => /\ mp = tree.parent[cur]
                                                    /\ ms = SideOf(tree, cur)
                                                    /\ Place(tree, cur)
    <2>1. CASE pc = "idle"
      BY <2>1 DEF Balanced, Settled
    <2>2. CASE pc = "insert"
      BY <2>2 DEF Balanced, InsertAt
    <2>3. CASE pc = "delete" /\ cur = tree.root
      BY <2>3 DEF Balanced, DeleteAt
    <2>4. CASE pc = "delete" /\ cur # tree.root
      BY <2>4 DEF Balanced, DeleteAt
    <2> QED
      BY <2>1, <2>2, <2>3, <2>4
  <1>3. RedsApart
    <2>1. ASSUME NEW x \in In(tree) \ {tree.root}, Red(tree, x), Red(tree, tree.parent[x])
          PROVE  x = cc \/ tree.parent[x] = cp
      <3>1. /\ tree.parent[x] \in In(tree) /\ SideOf(tree, x) \in Sides
            /\ tree[SideOf(tree, x)][tree.parent[x]] = x
        BY <1>1 DEF Family
      <3> QED
        BY <1>2, <2>1, <3>1 DEF Reds
    <2>2. ASSUME NEW x \in In(tree) \ {tree.root}, Red(tree, x), Red(tree, tree.parent[x])
          PROVE  \/ pc = "insert" /\ cur = x
                 \/ pc = "delete" /\ cur \in {x, tree.parent[x]}
      <3>1. tree.parent[x] \in In(tree)
        BY <1>1 DEF Family
      <3> QED
        BY <1>1, <1>2, <2>1, <2>2, <3>1
    <2> QED
      BY <2>2 DEF RedsApart, InTree
  <1>4. \A x \in In(tree), s \in Sides : MissingAt(x, s) <=> (x = mp /\ s = ms)
    <2>1. CASE pc = "delete" /\ cur # tree.root
      BY <1>2, <2>1 DEF MissingAt, Place
    <2>2. CASE ~ (pc = "delete" /\ cur # tree.root)
      BY <1>1, <1>2, <2>2 DEF MissingAt
    <2> QED
      BY <2>1, <2>2
  <1>5. Blacks = {b[tree.root]}
    BY <1>2, <1>4, BlacksHeight
  <1>6. Cardinality(Blacks) = 1
    BY <1>5, FS_Singleton
  <1> QED
    BY <1>2, <1>3, <1>6

\* The invariant says that the parents are right and the tree can be walked in order.
LEMMA WalkedInOrder ==
  ASSUME NEW n, NEW pos, Ordered(tree, n, pos), Sorted(tree, insert, pos)
  PROVE  ParentsExact /\ NextInOrder
  <1>1. PICK lo, hi : Shape(tree, n, pos, lo, hi)
    BY DEF Ordered
  <1>2. /\ Family(tree) /\ Numbered(tree, n, pos) /\ RootSpan(tree, n, lo, hi)
    BY <1>1, ShapeFamily DEF Shape, Spans
  <1>3. /\ n \in Nat /\ Len(InOrder) = n /\ Cardinality(In(tree)) = n
        /\ \A i \in 1 .. n : InOrder[i] = At(tree, pos, i)
    BY <1>1, <1>2, InOrderLine, LineLength
  <1>4. \A i \in 1 .. n : At(tree, pos, i) \in In(tree) /\ pos[At(tree, pos, i)] = i
    BY <1>2, AtPosition
  <1>5. ParentsExact
    <2>1. ASSUME NEW x \in In(tree) \ {tree.root}
          PROVE  /\ tree.parent[x] \in In(tree)
                 /\ x = tree[SideOf(tree, x)][tree.parent[x]]
      BY <1>2 DEF Family
    <2> QED
      BY <1>3, <2>1 DEF ParentsExact, InTree
  <1>6. ASSUME tree.root # Sentinel
        PROVE  Min(tree, tree.root) = InOrder[1]
    <2>1. tree.root \in In(tree) /\ lo[tree.root] = 1 /\ pos[tree.root] \in 1 .. n
      BY <1>2, <1>6 DEF RootSpan, Numbered
    <2>2. 1 \in 1 .. n
      BY <1>3, <2>1
    <2> QED
      BY <1>1, <1>3, <2>1, <2>2, MinFirst
  <1>7. ASSUME NEW i \in 1 .. n
        PROVE  Successor(tree, InOrder[i]) = IF i = n THEN Null ELSE InOrder[i + 1]
    <2> DEFINE x == At(tree, pos, i)
    <2>1. InOrder[i] = x /\ x \in In(tree) /\ pos[x] = i
      BY <1>3, <1>4
    <2> HIDE DEF x
    <2>2. Successor(tree, x) = IF pos[x] = n THEN Null ELSE At(tree, pos, pos[x] + 1)
      BY <1>1, <2>1, SuccessorNext
    <2>3. i # n => i + 1 \in 1 .. n
      BY <1>3
    <2> QED
      BY <1>3, <2>1, <2>2, <2>3
  <1>8. ASSUME NEW i \in 1 .. n - 1
        PROVE  ~ Earlier(insert, tree.key[InOrder[i + 1]], tree.key[InOrder[i]])
    <2> DEFINE x == At(tree, pos, i)
               y == At(tree, pos, i + 1)
    <2>1. i \in 1 .. n /\ i + 1 \in 1 .. n /\ i < i + 1
      BY <1>3
    <2>2. /\ InOrder[i] = x /\ x \in In(tree) /\ pos[x] = i
          /\ InOrder[i + 1] = y /\ y \in In(tree) /\ pos[y] = i + 1
      BY <1>3, <1>4, <2>1
    <2> HIDE DEF x, y
    <2>3. ~ Earlier(insert, tree.key[y], tree.key[x])
      BY <2>1, <2>2 DEF Sorted
    <2> QED
      BY <2>2, <2>3
  <1>9. NextInOrder
    BY <1>3, <1>6, <1>7, <1>8 DEF NextInOrder
  <1> QED
    BY <1>5, <1>9

\* The invariant says what RedBlack says.
LEMMA InvRedBlack == IInv => RedBlack
  <1> SUFFICES ASSUME IInv PROVE RedBlack
    OBVIOUS
  <1>1. PICK n, pos : Ordered(tree, n, pos) /\ Sorted(tree, insert, pos)
    BY DEF IInv
  <1>2. TypeOK
    BY DEF IInv, Trees, TypeOK
  <1>3. ParentsExact /\ NextInOrder
    BY <1>1, WalkedInOrder
  <1>4. RedsApart /\ Cardinality(Blacks) = 1 /\ (pc = "idle" => Black(tree, tree.root))
    BY <1>1, BalancedColors DEF IInv
  <1> QED
    BY <1>2, <1>3, <1>4 DEF RedBlack

\* The parts of the invariant after a step.
LEMMA InvKept ==
  ASSUME NEW n, NEW pos, Ordered(tree', n, pos), Sorted(tree', insert, pos),
         insert' = insert, insert \in {"value", "timer"},
         pc' \in {"idle", "insert", "delete"}, cur' \in Cells, Balanced'
  PROVE  IInv'
  <1>1. tree' \in Trees
    BY OrderedFacts
  <1>2. Black(tree', Sentinel)
    BY DEF Balanced, Settled, InsertAt, DeleteAt
  <1> QED
    BY <1>1, <1>2 DEF IInv

\* Links and colors have no part in how the keys are sorted.
LEMMA SortedKept ==
  ASSUME NEW t, NEW r, NEW how, NEW pos, Sorted(t, how, pos), In(r) = In(t), r.key = t.key
  PROVE  Sorted(r, how, pos)
  BY DEF Sorted

\* r is t with other links and colors, but the same nodes in the same order.
Unmoved(r, t, n, pos) == In(r) = In(t) /\ Ordered(r, n, pos) /\ r.key = t.key

\* What the turns of the insert loop do to the invariant.
LEMMA InsertTurnsKeep ==
  ASSUME IInv, insert' = insert, NEW n, NEW pos,
         Ordered(tree, n, pos), Sorted(tree, insert, pos),
         InsertRecolor \/ InsertRotate \/ InsertDone
  PROVE  IInv' /\ Unmoved(tree', tree, n, pos)
  <1>1. Ordered(tree, n, pos) /\ Sorted(tree, insert, pos)
    OBVIOUS
  <1>2. pc = "insert" /\ insert \in {"value", "timer"}
    BY DEF IInv, InsertRecolor, InsertRotate, InsertDone
  <1>3. PICK b : InsertAt(tree, b, cur)
    BY <1>2 DEF IInv, Balanced
  <1> DEFINE p == tree.parent[cur]
             g == tree.parent[p]
             side == SideOf(tree, p)
             o == Opposite(side)
             u == tree[o][g]
  <1>4. Kin(tree, cur, p, g, side, o, u)
    BY DEF Kin
  <1>5. CASE InsertRecolor
    <2>1. /\ cur # tree.root /\ Red(tree, tree.parent[cur]) /\ Red(tree, u)
          /\ tree' = Recolored(tree, p, u, g) /\ cur' = g /\ pc' = "insert"
      BY <1>2, <1>5 DEF InsertRecolor, RedParent
    <2> HIDE DEF p, g, side, o, u
    <2>2. SameLinks(tree', tree) /\ \E c : InsertAt(tree', c, g)
      BY <1>1, <1>3, <1>4, <2>1, InsertRecolored
    <2>3. In(tree') = In(tree) /\ Ordered(tree', n, pos) /\ tree'.key = tree.key
      BY <1>1, <2>2, SameLinksOrdered DEF SameLinks
    <2>4. Sorted(tree', insert, pos)
      BY <1>1, <2>3, SortedKept
    <2>5. Balanced'
      BY <2>1, <2>2 DEF Balanced
    <2>6. cur' \in Cells
      BY <2>1, <2>2 DEF InsertAt, In, Cells
    <2> QED
      BY <1>2, <2>1, <2>3, <2>4, <2>5, <2>6, InvKept DEF Unmoved
  <1>6. CASE InsertRotate
    <2> DEFINE y == IF cur = tree[o][p] THEN p ELSE cur
    <2>1. /\ cur # tree.root /\ Red(tree, tree.parent[cur]) /\ Black(tree, u)
          /\ tree' = InsertRotated(IF cur = tree[o][p] THEN Rotate(tree, p, side) ELSE tree,
                                   y, side)
          /\ cur' = y /\ pc' = "insert"
      BY <1>2, <1>6 DEF InsertRotate, RedParent
    <2>2. y = IF cur = tree[o][p] THEN p ELSE cur
      OBVIOUS
    <2> HIDE DEF p, g, side, o, u, y
    <2>3. /\ In(tree') = In(tree) /\ Ordered(tree', n, pos) /\ tree'.key = tree.key
          /\ \E c : InsertAt(tree', c, y)
      BY <1>1, <1>3, <1>4, <2>1, <2>2, InsertTurn
    <2>4. Sorted(tree', insert, pos)
      BY <1>1, <2>3, SortedKept
    <2>5. Balanced'
      BY <2>1, <2>3 DEF Balanced
    <2>6. cur' \in Cells
      BY <2>1, <2>3 DEF InsertAt, In, Cells
    <2> QED
      BY <1>2, <2>1, <2>3, <2>4, <2>5, <2>6, InvKept DEF Unmoved
  <1>7. CASE InsertDone
    <2>1. /\ ~ (cur # tree.root /\ Red(tree, tree.parent[cur]))
          /\ tree' = Paint(tree, tree.root, "black") /\ cur' = cur /\ pc' = "idle"
      BY <1>7 DEF InsertDone, RedParent
    <2>2. SameLinks(tree', tree) /\ \E c : Settled(tree', c)
      BY <1>1, <1>3, <2>1, InsertEnds
    <2>3. In(tree') = In(tree) /\ Ordered(tree', n, pos) /\ tree'.key = tree.key
      BY <1>1, <2>2, SameLinksOrdered DEF SameLinks
    <2>4. Sorted(tree', insert, pos)
      BY <1>1, <2>3, SortedKept
    <2>5. Balanced'
      BY <2>1, <2>2 DEF Balanced
    <2>6. cur' \in Cells
      BY <2>1 DEF IInv
    <2> QED
      BY <1>2, <2>1, <2>3, <2>4, <2>5, <2>6, InvKept DEF Unmoved
  <1> QED
    BY <1>5, <1>6, <1>7

\* What the turns of the delete loop do to the invariant.
LEMMA DeleteTurnsKeep ==
  ASSUME IInv, insert' = insert, NEW n, NEW pos,
         Ordered(tree, n, pos), Sorted(tree, insert, pos),
         DeleteRecolor \/ DeleteRotate \/ DeleteDone
  PROVE  IInv' /\ Unmoved(tree', tree, n, pos)
  <1>1. Ordered(tree, n, pos) /\ Sorted(tree, insert, pos)
    OBVIOUS
  <1>2. pc = "delete" /\ insert \in {"value", "timer"}
    BY DEF IInv, DeleteRecolor, DeleteRotate, DeleteDone
  <1>3. PICK b : DeleteAt(tree, b, cur)
    BY <1>2 DEF IInv, Balanced
  <1> DEFINE side == SideOf(tree, cur)
             s == BlackSibling(tree, cur, side)
             w == Sibling(s, cur, side)
  <1>4. side = SideOf(tree, cur) /\ s = BlackSibling(tree, cur, side) /\ w = Sibling(s, cur, side)
    OBVIOUS
  <1>5. CASE DeleteRecolor
    <2>1. /\ cur # tree.root /\ Black(tree, cur) /\ Black(s, s.left[w]) /\ Black(s, s.right[w])
          /\ tree' = Paint(s, w, "red") /\ cur' = s.parent[cur] /\ pc' = "delete"
      BY <1>2, <1>5 DEF DeleteRecolor, LacksBlack
    <2> HIDE DEF side, s, w
    <2>2. /\ In(tree') = In(tree) /\ Ordered(tree', n, pos) /\ tree'.key = tree.key
          /\ \E c : DeleteAt(tree', c, cur')
      BY <1>1, <1>3, <1>4, <2>1, DeleteRecolored
    <2>3. Sorted(tree', insert, pos)
      BY <1>1, <2>2, SortedKept
    <2>4. Balanced'
      BY <2>1, <2>2 DEF Balanced
    <2>5. cur' \in Cells
      BY <2>2 DEF DeleteAt, In, Cells
    <2> QED
      BY <1>2, <2>1, <2>2, <2>3, <2>4, <2>5, InvKept DEF Unmoved
  <1>6. CASE DeleteRotate
    <2>1. /\ cur # tree.root /\ Black(tree, cur)
          /\ Red(s, s.left[w]) \/ Red(s, s.right[w])
          /\ tree' = DeleteRotated(OuterRed(s, w, side), cur, side)
          /\ cur' = tree'.root /\ pc' = "delete"
      BY <1>2, <1>6 DEF DeleteRotate, LacksBlack
    <2> HIDE DEF side, s, w
    <2>2. /\ In(tree') = In(tree) /\ Ordered(tree', n, pos) /\ tree'.key = tree.key
          /\ \E c : DeleteAt(tree', c, cur')
      <3> DEFINE r == DeleteRotated(OuterRed(s, w, side), cur, side)
      <3>1. r = DeleteRotated(OuterRed(s, w, side), cur, side)
        OBVIOUS
      <3>2. cur' = r.root /\ tree' = r
        BY <2>1
      <3> HIDE DEF r
      <3>3. /\ In(r) = In(tree) /\ Ordered(r, n, pos) /\ r.key = tree.key
            /\ \E c : DeleteAt(r, c, r.root)
        BY <1>1, <1>3, <1>4, <2>1, <3>1, DeleteTurn
      <3> QED
        BY <3>2, <3>3
    <2>3. Sorted(tree', insert, pos)
      BY <1>1, <2>2, SortedKept
    <2>4. Balanced'
      BY <2>1, <2>2 DEF Balanced
    <2>5. cur' \in Cells
      BY <2>2 DEF DeleteAt, In, Cells
    <2> QED
      BY <1>2, <2>1, <2>2, <2>3, <2>4, <2>5, InvKept DEF Unmoved
  <1>7. CASE DeleteDone
    <2>1. /\ ~ (cur # tree.root /\ Black(tree, cur))
          /\ tree' = Paint(tree, cur, "black") /\ cur' = cur /\ pc' = "idle"
      BY <1>7 DEF DeleteDone, LacksBlack
    <2>2. SameLinks(tree', tree) /\ \E c : Settled(tree', c)
      BY <1>1, <1>3, <2>1, DeleteEnds
    <2>3. In(tree') = In(tree) /\ Ordered(tree', n, pos) /\ tree'.key = tree.key
      BY <1>1, <2>2, SameLinksOrdered DEF SameLinks
    <2>4. Sorted(tree', insert, pos)
      BY <1>1, <2>3, SortedKept
    <2>5. Balanced'
      BY <2>1, <2>2 DEF Balanced
    <2>6. cur' \in Cells
      BY <2>1 DEF IInv
    <2> QED
      BY <1>2, <2>1, <2>3, <2>4, <2>5, <2>6, InvKept DEF Unmoved
  <1> QED
    BY <1>5, <1>6, <1>7

\* Remainders of sums and differences of two numbers.
LEMMA Wrap ==
  ASSUME NEW M \in Nat \ {0}, NEW a \in 0 .. M - 1, NEW c \in 0 .. M - 1
  PROVE  /\ (a + c) % M = IF a + c < M THEN a + c ELSE a + c - M
         /\ (a + M - c) % M = IF a < c THEN a + M - c ELSE a - c
  <1>1. (a + c) % M = IF a + c < M THEN a + c ELSE a + c - M
    OBVIOUS
  <1>2. (a + M - c) % M = IF a < c THEN a + M - c ELSE a - c
    OBVIOUS
  <1> QED
    BY <1>1, <1>2

\* Both comparisons of a and c go by i and j.
GoBy(M, H, a, c, i, j) ==
  /\ (a + M - c) % M >= H <=> i < j
  /\ (\E d \in 1 .. H - 1 : c = (a + d) % M) <=> i < j

\* Numbers at distances i and j from base, which are less than half of the circle.
LEMMA Circle ==
  ASSUME NEW M \in Nat \ {0}, NEW H \in Nat, M = 2 * H, NEW base \in 0 .. M - 1,
         NEW i \in 0 .. H - 1, NEW j \in 0 .. H - 1,
         NEW a \in 0 .. M - 1, NEW c \in 0 .. M - 1,
         a = (base + i) % M, c = (base + j) % M
  PROVE  GoBy(M, H, a, c, i, j)
  <1>1. /\ a = IF base + i < M THEN base + i ELSE base + i - M
        /\ c = IF base + j < M THEN base + j ELSE base + j - M
    <2>1. i \in 0 .. M - 1 /\ j \in 0 .. M - 1
      OBVIOUS
    <2>2. (base + i) % M = IF base + i < M THEN base + i ELSE base + i - M
      BY <2>1, Wrap
    <2>3. (base + j) % M = IF base + j < M THEN base + j ELSE base + j - M
      BY <2>1, Wrap
    <2> QED
      BY <2>2, <2>3
  <1>2. (a + M - c) % M = IF a < c THEN a + M - c ELSE a - c
    BY Wrap
  <1>3. (a + M - c) % M >= H <=> i < j
    <2>1. IF a < c THEN (a + M - c >= H <=> i < j) ELSE (a - c >= H <=> i < j)
      BY <1>1
    <2> QED
      BY <1>2, <2>1
  <1>4. ASSUME NEW d \in 1 .. H - 1
        PROVE  (a + d) % M = IF a + d < M THEN a + d ELSE a + d - M
    <2>1. d \in 0 .. M - 1
      OBVIOUS
    <2> QED
      BY <2>1, Wrap
  <1>5. ASSUME i < j PROVE \E d \in 1 .. H - 1 : c = (a + d) % M
    <2>1. j - i \in 1 .. H - 1
      BY <1>5
    <2>2. c = IF a + (j - i) < M THEN a + (j - i) ELSE a + (j - i) - M
      BY <1>1, <1>5
    <2> QED
      BY <1>4, <2>1, <2>2
  <1>6. ASSUME NEW d \in 1 .. H - 1, c = (a + d) % M PROVE i < j
    <2>1. c = IF a + d < M THEN a + d ELSE a + d - M
      BY <1>4, <1>6
    <2> QED
      BY <1>1, <2>1
  <1> QED
    BY <1>3, <1>5, <1>6 DEF GoBy

\* The keys in the tree have ranks that both comparisons go by.
LEMMA Ranked ==
  ASSUME NEW how \in {"value", "timer"}, NEW K, K \subseteq Keys,
         how = "timer" => Narrow(K)
  PROVE  \E rank \in [K -> Nat] : \A a, c \in K :
            /\ Less(how, a, c) <=> rank[a] < rank[c]
            /\ Earlier(how, a, c) <=> rank[a] < rank[c]
  <1>1. KeyMod \in Nat /\ KeyMod % 2 = 0 /\ \A k \in K : k \in 0 .. KeyMod - 1
    BY KeysAssumption
  <1>2. CASE how = "value"
    <2> DEFINE rank == [k \in K |-> k]
    <2>1. rank \in [K -> Nat]
      BY <1>1
    <2>2. \A a, c \in K : /\ Less(how, a, c) <=> rank[a] < rank[c]
                          /\ Earlier(how, a, c) <=> rank[a] < rank[c]
      BY <1>2 DEF Less, Earlier
    <2> QED
      BY <2>1, <2>2
  <1>3. CASE how = "timer"
    <2>1. PICK base \in K : \A k \in K \ {base} : Earlier("timer", base, k)
      BY <1>3 DEF Narrow
    <2>2. PICK M : M = KeyMod
      OBVIOUS
    <2>3. PICK H : H = KeyMod \div 2
      OBVIOUS
    <2>4. M \in Nat \ {0} /\ H \in Nat \ {0} /\ M = 2 * H /\ base \in 0 .. M - 1
      BY <1>1, <2>1, <2>2, <2>3
    <2>5. ASSUME NEW k \in K PROVE \E i \in 0 .. H - 1 : k = (base + i) % M
      <3>1. CASE k = base
        <4>1. base = (base + 0) % M
          BY <2>4
        <4> QED
          BY <2>4, <3>1, <4>1
      <3>2. CASE k # base
        <4>1. PICK d \in 1 .. H - 1 : k = (base + d) % M
          BY <2>1, <2>2, <2>3, <3>2 DEF Earlier
        <4> QED
          BY <4>1
      <3> QED
        BY <3>1, <3>2
    <2> DEFINE rank == [k \in K |-> CHOOSE i \in 0 .. H - 1 : k = (base + i) % M]
    <2>6. \A k \in K : rank[k] \in 0 .. H - 1 /\ k = (base + rank[k]) % M
      BY <2>5
    <2> HIDE DEF rank
    <2>7. rank \in [K -> Nat]
      <3>1. rank = [k \in K |-> rank[k]]
        BY DEF rank
      <3>2. \A k \in K : rank[k] \in Nat
        BY <2>6
      <3> QED
        BY <3>1, <3>2
    <2>8. ASSUME NEW a \in K, NEW c \in K
          PROVE  /\ Less(how, a, c) <=> rank[a] < rank[c]
                 /\ Earlier(how, a, c) <=> rank[a] < rank[c]
      <3>1. /\ rank[a] \in 0 .. H - 1 /\ rank[c] \in 0 .. H - 1
            /\ a \in 0 .. M - 1 /\ c \in 0 .. M - 1
            /\ a = (base + rank[a]) % M /\ c = (base + rank[c]) % M
        BY <1>1, <2>2, <2>6
      <3>2. /\ (a + M - c) % M >= H <=> rank[a] < rank[c]
            /\ (\E d \in 1 .. H - 1 : c = (a + d) % M) <=> rank[a] < rank[c]
        <4>1. PICK i, j : i = rank[a] /\ j = rank[c]
          OBVIOUS
        <4>2. /\ i \in 0 .. H - 1 /\ j \in 0 .. H - 1 /\ H \in Nat
              /\ a = (base + i) % M /\ c = (base + j) % M
          BY <2>4, <3>1, <4>1
        <4>3. GoBy(M, H, a, c, i, j)
          BY ONLY <2>4, <3>1, <4>2, Circle
        <4> QED
          BY <4>1, <4>3 DEF GoBy
      <3>3. Less(how, a, c) <=> (a + M - c) % M >= H
        BY <1>3, <2>2, <2>3 DEF Less
      <3>4. Earlier(how, a, c) <=> \E d \in 1 .. H - 1 : c = (a + d) % M
        BY <1>3, <2>2, <2>3 DEF Earlier
      <3> QED
        BY <3>2, <3>3, <3>4
    <2> QED
      BY <2>7, <2>8
  <1> QED
    BY <1>2, <1>3

\* The place of a new leaf on that side of z.
Slot(pos, z, side) == IF side = "left" THEN pos[z] ELSE pos[z] + 1

\* Between the nodes that send the new one to the right and those that send it to the left.
Parted(t, pos, sd, z) ==
  /\ z \in In(t) /\ t[sd[z]][z] = Sentinel
  /\ \A y \in In(t) : sd[y] = "right" <=> pos[y] < Slot(pos, z, sd[z])

\* The way down ends there, when the nodes that send right come first.
LEMMA DescentEnds ==
  ASSUME NEW t, NEW n, NEW pos, NEW lo, NEW hi, Shape(t, n, pos, lo, hi), t.root \in In(t),
         NEW sd \in [In(t) -> Sides],
         \A x, y \in In(t) : pos[x] < pos[y] /\ sd[y] = "right" => sd[x] = "right",
         NEW last,
         \A x \in In(t) : last[x] = IF t[sd[x]][x] = Sentinel THEN x ELSE last[t[sd[x]][x]]
  PROVE  Parted(t, pos, sd, last[t.root])
  <1> DEFINE S == In(t)
             m == [x \in S |-> hi[x] - lo[x]]
             slot(x) == Slot(pos, last[x], sd[last[x]])
             P == {x \in S : /\ last[x] \in S /\ t[sd[last[x]]][last[x]] = Sentinel
                             /\ lo[x] <= slot(x) /\ slot(x) <= hi[x] + 1
                             /\ \A y \in S : lo[x] <= pos[y] /\ pos[y] <= hi[x] =>
                                               (sd[y] = "right" <=> pos[y] < slot(x))}
  <1>1. /\ Bounded(S, n, pos, lo, hi) /\ Numbered(t, n, pos) /\ RootSpan(t, n, lo, hi)
        /\ \A x \in S : LeftSpan(t, pos, lo, hi, x) /\ RightSpan(t, pos, lo, hi, x)
        /\ Sentinel \notin S
    BY CellsAssumption DEF Shape, Spans, In
  <1>2. n \in Nat /\ \A x \in S : lo[x] \in 1 .. n /\ hi[x] \in 1 .. n /\ pos[x] \in 1 .. n
                                  /\ lo[x] <= pos[x] /\ pos[x] <= hi[x]
    BY <1>1 DEF Bounded, Numbered
  <1>3. \A x, y \in S : pos[x] = pos[y] => x = y
    BY <1>1 DEF Numbered
  <1>4. m \in [S -> Nat]
    BY <1>2
  <1>5. \A x \in S : sd[x] = "left" \/ sd[x] = "right"
    BY DEF Sides
  <1>6. ASSUME NEW x \in S, \A y \in S : m[y] < m[x] => y \in P PROVE x \in P
    <2>1. CASE t[sd[x]][x] = Sentinel
      <3>1. last[x] = x
        BY <2>1
      <3>2. CASE sd[x] = "left"
        <4>1. slot(x) = pos[x] /\ lo[x] = pos[x]
          BY <1>1, <2>1, <3>1, <3>2 DEF Slot, LeftSpan
        <4>2. ASSUME NEW y \in S, lo[x] <= pos[y]
              PROVE  sd[y] = "right" <=> pos[y] < pos[x]
          <5>1. pos[x] = pos[y] \/ pos[x] < pos[y]
            BY <1>2, <4>1, <4>2
          <5> QED
            BY <1>2, <1>3, <3>2, <5>1
        <4> HIDE DEF slot
        <4> QED
          BY <1>2, <2>1, <3>1, <4>1, <4>2
      <3>3. CASE sd[x] = "right"
        <4>1. slot(x) = pos[x] + 1 /\ hi[x] = pos[x]
          BY <1>1, <2>1, <3>1, <3>3 DEF Slot, RightSpan
        <4>2. ASSUME NEW y \in S, pos[y] <= hi[x]
              PROVE  sd[y] = "right" <=> pos[y] < pos[x] + 1
          <5>1. pos[x] = pos[y] \/ pos[y] < pos[x]
            BY <1>2, <4>1, <4>2
          <5> QED
            BY <1>2, <1>3, <3>3, <5>1
        <4> HIDE DEF slot
        <4> QED
          BY <1>2, <2>1, <3>1, <4>1, <4>2
      <3> QED
        BY <1>5, <3>2, <3>3
    <2>2. CASE t[sd[x]][x] # Sentinel
      <3> DEFINE c == t[sd[x]][x]
      <3>1. last[x] = last[c] /\ slot(x) = slot(c)
        BY <2>2
      <3>2. CASE sd[x] = "left"
        <4>1. c \in S /\ lo[c] = lo[x] /\ hi[c] = pos[x] - 1
          BY <1>1, <2>2, <3>2 DEF LeftSpan
        <4>2. m[c] < m[x]
          BY <1>2, <4>1
        <4>3. /\ last[c] \in S /\ t[sd[last[c]]][last[c]] = Sentinel
              /\ lo[c] <= slot(c) /\ slot(c) <= hi[c] + 1
              /\ \A y \in S : lo[c] <= pos[y] /\ pos[y] <= hi[c] =>
                                (sd[y] = "right" <=> pos[y] < slot(c))
          BY <1>6, <4>1, <4>2
        <4>4. slot(c) \in Int
          BY <1>2, <4>3 DEF Slot
        <4> HIDE DEF c, slot
        <4>5. ASSUME NEW y \in S, lo[x] <= pos[y], pos[y] <= hi[x]
              PROVE  sd[y] = "right" <=> pos[y] < slot(c)
          <5>1. CASE pos[y] <= hi[c]
            BY <4>1, <4>3, <4>5, <5>1
          <5>2. CASE ~ (pos[y] <= hi[c])
            <6>1. pos[x] = pos[y] \/ pos[x] < pos[y]
              BY <1>2, <4>1, <5>2
            <6>2. ~ (pos[y] < slot(c))
              BY <1>2, <4>1, <4>3, <4>4, <5>2
            <6> QED
              BY <1>3, <3>2, <6>1, <6>2
          <5> QED
            BY <5>1, <5>2
        <4>6. slot(c) <= hi[x] + 1
          BY <1>2, <4>1, <4>3, <4>4
        <4> QED
          BY <3>1, <4>1, <4>3, <4>5, <4>6
      <3>3. CASE sd[x] = "right"
        <4>1. c \in S /\ lo[c] = pos[x] + 1 /\ hi[c] = hi[x]
          BY <1>1, <2>2, <3>3 DEF RightSpan
        <4>2. m[c] < m[x]
          BY <1>2, <4>1
        <4>3. /\ last[c] \in S /\ t[sd[last[c]]][last[c]] = Sentinel
              /\ lo[c] <= slot(c) /\ slot(c) <= hi[c] + 1
              /\ \A y \in S : lo[c] <= pos[y] /\ pos[y] <= hi[c] =>
                                (sd[y] = "right" <=> pos[y] < slot(c))
          BY <1>6, <4>1, <4>2
        <4>4. slot(c) \in Int
          BY <1>2, <4>3 DEF Slot
        <4> HIDE DEF c, slot
        <4>5. ASSUME NEW y \in S, lo[x] <= pos[y], pos[y] <= hi[x]
              PROVE  sd[y] = "right" <=> pos[y] < slot(c)
          <5>1. CASE pos[y] >= lo[c]
            BY <4>1, <4>3, <4>5, <5>1
          <5>2. CASE ~ (pos[y] >= lo[c])
            <6>1. pos[x] = pos[y] \/ pos[y] < pos[x]
              BY <1>2, <4>1, <5>2
            <6>2. pos[y] < slot(c)
              BY <1>2, <4>1, <4>3, <4>4, <5>2
            <6> QED
              BY <1>3, <3>3, <6>1, <6>2
          <5> QED
            BY <5>1, <5>2
        <4>6. lo[x] <= slot(c)
          BY <1>2, <4>1, <4>3, <4>4
        <4> QED
          BY <3>1, <4>1, <4>3, <4>5, <4>6
      <3> QED
        BY <1>5, <3>2, <3>3
    <2> QED
      BY <2>1, <2>2
  <1>7. S \subseteq P
    <2> HIDE DEF m, S, P
    <2> QED
      BY <1>4, <1>6, Induct
  <1>8. /\ last[t.root] \in S /\ t[sd[last[t.root]]][last[t.root]] = Sentinel
        /\ \A y \in S : 1 <= pos[y] /\ pos[y] <= n =>
                          (sd[y] = "right" <=> pos[y] < slot(t.root))
    <2>1. t.root \in P /\ lo[t.root] = 1 /\ hi[t.root] = n
      BY <1>1, <1>7 DEF RootSpan
    <2> QED
      BY <2>1
  <1>9. \A y \in S : 1 <= pos[y] /\ pos[y] <= n
    BY <1>2
  <1> QED
    BY <1>8, <1>9 DEF Parted

\* r is t with node, a red leaf, on that side of z.
LeafLinked(r, t, node, z, side) ==
  /\ r \in Trees /\ r.root = t.root
  /\ \A x \in Cells : /\ r.color[x] = IF x = node THEN "red" ELSE t.color[x]
                      /\ r.parent[x] = IF x = node THEN z ELSE t.parent[x]
  /\ \A f \in Sides, x \in Cells :
       r[f][x] = IF x = node THEN Sentinel ELSE IF x = z /\ f = side THEN node ELSE t[f][x]

\* The positions with a new node at k.
MadeRoom(S, pos, node, k) ==
  [x \in S \cup {node} |-> IF x = node THEN k ELSE IF pos[x] >= k THEN pos[x] + 1 ELSE pos[x]]

\* The positions with the new node are positions again.
LEMMA RoomNumbered ==
  ASSUME NEW t, NEW n, NEW pos, Numbered(t, n, pos), NEW node, node \notin In(t),
         NEW k \in 1 .. n + 1, NEW r, In(r) = In(t) \cup {node}
  PROVE  Numbered(r, n + 1, MadeRoom(In(t), pos, node, k))
  <1> DEFINE S == In(t)
             p2 == MadeRoom(S, pos, node, k)
  <1>1. /\ n \in Nat /\ (\A x \in S : pos[x] \in 1 .. n)
        /\ (\A x, y \in S : pos[x] = pos[y] => x = y)
        /\ (\A i \in 1 .. n : \E x \in S : pos[x] = i)
    BY DEF Numbered
  <1>2. /\ p2[node] = k
        /\ \A x \in S : p2[x] = IF pos[x] >= k THEN pos[x] + 1 ELSE pos[x]
        /\ p2 = [x \in S \cup {node} |-> p2[x]]
    BY DEF MadeRoom
  <1> HIDE DEF p2, S
  <1>3. \A x \in S : p2[x] \in 1 .. n + 1 /\ p2[x] # k
    BY <1>1, <1>2
  <1>4. p2 \in [S \cup {node} -> 1 .. n + 1]
    <2>1. \A x \in S \cup {node} : p2[x] \in 1 .. n + 1
      BY <1>2, <1>3
    <2> QED
      BY <1>2, <2>1
  <1>5. ASSUME NEW x \in S \cup {node}, NEW y \in S \cup {node}, p2[x] = p2[y] PROVE x = y
    <2>1. CASE x \in S /\ y \in S
      <3>1. pos[x] = pos[y]
        BY <1>1, <1>2, <1>5, <2>1
      <3> QED
        BY <1>1, <2>1, <3>1
    <2>2. CASE x = node \/ y = node
      BY <1>2, <1>3, <1>5, <2>2
    <2> QED
      BY <2>1, <2>2
  <1>6. ASSUME NEW i \in 1 .. n + 1 PROVE \E x \in S \cup {node} : p2[x] = i
    <2>1. CASE i = k
      BY <1>2, <2>1
    <2>2. CASE i < k
      <3>1. i \in 1 .. n
        BY <1>1, <2>2
      <3>2. PICK x \in S : pos[x] = i
        BY <1>1, <3>1
      <3>3. p2[x] = i
        BY <1>2, <2>2, <3>2
      <3> QED
        BY <3>3
    <2>3. CASE i > k
      <3>1. i - 1 \in 1 .. n /\ i - 1 >= k
        BY <1>1, <2>3
      <3>2. PICK x \in S : pos[x] = i - 1
        BY <1>1, <3>1
      <3>3. p2[x] = i
        BY <1>2, <3>1, <3>2
      <3> QED
        BY <3>3
    <2>4. i = k \/ i < k \/ i > k
      OBVIOUS
    <2> QED
      BY <2>1, <2>2, <2>3, <2>4, Zenon
  <1> QED
    BY <1>1, <1>4, <1>5, <1>6 DEF Numbered, p2, S

\* The tree with a new leaf is in order.
LEMMA LeafShape ==
  ASSUME NEW t, NEW n, NEW pos, NEW lo, NEW hi, Shape(t, n, pos, lo, hi),
         NEW node \in Nodes, node \notin In(t), NEW z \in In(t), NEW side \in Sides,
         t[side][z] = Sentinel, NEW r, LeafLinked(r, t, node, z, side),
         NEW k, k = Slot(pos, z, side)
  PROVE  /\ In(r) = In(t) \cup {node}
         /\ Ordered(r, n + 1, MadeRoom(In(t), pos, node, k))
  <1> DEFINE S == In(t)
             R == S \cup {node}
             q == pos[z]
             p2 == MadeRoom(S, pos, node, k)
             l2 == [x \in R |-> IF x = node THEN k ELSE IF lo[x] > q THEN lo[x] + 1 ELSE lo[x]]
             h2 == [x \in R |-> IF x = node THEN k ELSE IF hi[x] >= q THEN hi[x] + 1 ELSE hi[x]]
  <1>1. /\ Bounded(S, n, pos, lo, hi) /\ Numbered(t, n, pos) /\ RootSpan(t, n, lo, hi)
        /\ (\A x \in S : LeftSpan(t, pos, lo, hi, x) /\ RightSpan(t, pos, lo, hi, x))
        /\ Parents(t) /\ t \in Trees /\ Family(t) /\ S \subseteq Nodes
    BY ShapeFamily DEF Shape, Spans, In
  <1>2. n \in Nat /\ \A x \in S : lo[x] \in 1 .. n /\ hi[x] \in 1 .. n /\ pos[x] \in 1 .. n
                                  /\ lo[x] <= pos[x] /\ pos[x] <= hi[x]
    BY <1>1 DEF Bounded, Numbered
  <1>3. /\ q \in 1 .. n /\ k \in 1 .. n + 1
        /\ side = "left" => k = q /\ t.left[z] = Sentinel
        /\ side = "right" => k = q + 1 /\ t.right[z] = Sentinel
        /\ side = "left" \/ side = "right"
    BY <1>2 DEF Slot, Sides
  <1>4. \A x \in S : x # z => pos[x] # q
    BY <1>1 DEF Numbered
  <1>5. /\ Sentinel \notin R /\ Null \notin R /\ Null # Sentinel /\ R \subseteq Nodes
        /\ R \subseteq Cells /\ Sentinel \in Cells
    BY <1>1, CellsAssumption DEF Cells
  <1>6. /\ r \in Trees /\ r.root = t.root
        /\ \A x \in Cells : r.parent[x] = IF x = node THEN z ELSE t.parent[x]
        /\ \A x \in Cells : r.left[x] = IF x = node THEN Sentinel
                                        ELSE IF x = z /\ side = "left" THEN node ELSE t.left[x]
        /\ \A x \in Cells : r.right[x] = IF x = node THEN Sentinel
                                         ELSE IF x = z /\ side = "right" THEN node ELSE t.right[x]
    BY DEF LeafLinked, Sides
  <1>7. In(r) = R
    <2>1. ASSUME NEW x \in Nodes PROVE r.left[x] # Null <=> x \in R
      <3>1. x \in Cells
        BY DEF Cells
      <3>2. x \in S <=> t.left[x] # Null
        BY DEF In
      <3> QED
        BY <1>5, <1>6, <3>1, <3>2
    <2> QED
      BY <1>5, <2>1 DEF In
  <1>8. Numbered(r, n + 1, p2)
    BY <1>1, <1>3, <1>7, RoomNumbered
  <1>9. /\ p2[node] = k /\ l2[node] = k /\ h2[node] = k
        /\ (\A x \in S : x # z => p2[x] = IF pos[x] > q THEN pos[x] + 1 ELSE pos[x])
        /\ p2[z] = (IF side = "left" THEN q + 1 ELSE q)
        /\ (\A x \in S : l2[x] = IF lo[x] > q THEN lo[x] + 1 ELSE lo[x])
        /\ (\A x \in S : h2[x] = IF hi[x] >= q THEN hi[x] + 1 ELSE hi[x])
        /\ l2 = [x \in R |-> l2[x]] /\ h2 = [x \in R |-> h2[x]]
    <2>1. p2[node] = k /\ \A x \in S : p2[x] = IF pos[x] >= k THEN pos[x] + 1 ELSE pos[x]
      BY DEF MadeRoom
    <2>2. \A x \in S : x # node
      OBVIOUS
    <2>3. ASSUME NEW x \in S, x # z PROVE p2[x] = IF pos[x] > q THEN pos[x] + 1 ELSE pos[x]
      <3> HIDE DEF p2, q
      <3> QED
        BY <1>2, <1>3, <1>4, <2>1, <2>3
    <2>4. p2[z] = IF side = "left" THEN q + 1 ELSE q
      <3>1. p2[z] = IF q >= k THEN q + 1 ELSE q
        BY <2>1
      <3> HIDE DEF p2, q
      <3> QED
        BY <1>3, <3>1
    <2> HIDE DEF p2
    <2> QED
      BY <2>1, <2>2, <2>3, <2>4
  <1> HIDE DEF p2, l2, h2, q
  <1>10. Bounded(R, n + 1, p2, l2, h2)
    <2>1. ASSUME NEW x \in R
          PROVE  /\ l2[x] \in 1 .. n + 1 /\ h2[x] \in 1 .. n + 1
                 /\ l2[x] <= p2[x] /\ p2[x] <= h2[x]
      <3>1. CASE x = node
        BY <1>2, <1>3, <1>9, <3>1
      <3>2. CASE x = z
        BY <1>2, <1>3, <1>9, <3>2 DEF q
      <3>3. CASE x \in S /\ x # z
        BY <1>2, <1>3, <1>9, <3>3
      <3> QED
        BY <3>1, <3>2, <3>3
    <2> QED
      BY <1>9, <2>1 DEF Bounded
  <1>11. ASSUME NEW x \in R PROVE LeftSpan(r, p2, l2, h2, x)
    <2>1. CASE x = node
      BY <1>5, <1>6, <1>9, <2>1 DEF LeftSpan
    <2>2. CASE x = z /\ side = "left"
      <3>1. r.left[x] = node /\ node \in In(r) /\ r.parent[node] = x /\ node # Sentinel
        BY <1>5, <1>6, <1>7, <2>2
      <3>2. lo[z] = q
        BY <1>1, <1>3, <2>2 DEF LeftSpan, q
      <3>3. l2[node] = l2[x] /\ h2[node] = p2[x] - 1
        BY <1>3, <1>9, <2>2, <3>2
      <3> QED
        BY <3>1, <3>3 DEF LeftSpan
    <2>3. CASE x \in S /\ ~ (x = z /\ side = "left")
      <3>1. r.left[x] = t.left[x]
        BY <1>5, <1>6, <2>3
      <3>2. CASE t.left[x] = Sentinel
        <4>1. lo[x] = pos[x]
          BY <1>1, <2>3, <3>2 DEF LeftSpan
        <4>2. l2[x] = p2[x]
          <5>1. CASE x = z
            BY <1>2, <1>3, <1>9, <2>3, <4>1, <5>1 DEF q
          <5>2. CASE x # z
            BY <1>2, <1>9, <2>3, <4>1, <5>2
          <5> QED
            BY <5>1, <5>2
        <4> QED
          BY <3>1, <3>2, <4>2 DEF LeftSpan
      <3>3. CASE t.left[x] # Sentinel
        <4> DEFINE c == t.left[x]
        <4>1. c \in S /\ t.parent[c] = x /\ lo[c] = lo[x] /\ hi[c] = pos[x] - 1
          BY <1>1, <2>3, <3>3 DEF LeftSpan
        <4>2. r.parent[c] = x /\ c \in In(r)
          BY <1>5, <1>6, <1>7, <4>1
        <4>3. l2[c] = l2[x]
          BY <1>9, <2>3, <4>1
        <4> HIDE DEF c
        <4>4. h2[c] = p2[x] - 1
          <5>1. CASE x = z
            <6>1. hi[c] = q - 1 /\ q \in Int
              BY <1>3, <4>1, <5>1 DEF q
            <6>2. h2[c] = q - 1
              BY <1>9, <4>1, <6>1
            <6> QED
              BY <1>3, <1>9, <2>3, <5>1, <6>2
          <5>2. CASE x # z
            <6>1. pos[x] # q /\ pos[x] \in 1 .. n
              BY <1>2, <1>4, <2>3, <5>2
            <6> QED
              BY <1>3, <1>9, <2>3, <4>1, <5>2, <6>1
          <5> QED
            BY <5>1, <5>2
        <4>5. r.left[x] = c /\ c # Sentinel
          BY <3>1, <3>3 DEF c
        <4> QED
          BY <4>2, <4>3, <4>4, <4>5 DEF LeftSpan
      <3> QED
        BY <3>2, <3>3
    <2> QED
      BY <2>1, <2>2, <2>3
  <1>12. ASSUME NEW x \in R PROVE RightSpan(r, p2, l2, h2, x)
    <2>1. CASE x = node
      BY <1>5, <1>6, <1>9, <2>1 DEF RightSpan
    <2>2. CASE x = z /\ side = "right"
      <3>1. r.right[x] = node /\ node \in In(r) /\ r.parent[node] = x /\ node # Sentinel
        BY <1>5, <1>6, <1>7, <2>2
      <3>2. hi[z] = q
        BY <1>1, <1>3, <2>2 DEF RightSpan, q
      <3>3. h2[node] = h2[x] /\ l2[node] = p2[x] + 1
        BY <1>3, <1>9, <2>2, <3>2
      <3> QED
        BY <3>1, <3>3 DEF RightSpan
    <2>3. CASE x \in S /\ ~ (x = z /\ side = "right")
      <3>1. r.right[x] = t.right[x]
        BY <1>5, <1>6, <2>3
      <3>2. CASE t.right[x] = Sentinel
        <4>1. hi[x] = pos[x]
          BY <1>1, <2>3, <3>2 DEF RightSpan
        <4>2. h2[x] = p2[x]
          <5>1. CASE x = z
            BY <1>2, <1>3, <1>9, <2>3, <4>1, <5>1 DEF q
          <5>2. CASE x # z
            <6>1. pos[x] # q /\ pos[x] \in 1 .. n
              BY <1>2, <1>4, <2>3, <5>2
            <6> QED
              BY <1>3, <1>9, <2>3, <4>1, <5>2, <6>1
          <5> QED
            BY <5>1, <5>2
        <4> QED
          BY <3>1, <3>2, <4>2 DEF RightSpan
      <3>3. CASE t.right[x] # Sentinel
        <4> DEFINE c == t.right[x]
        <4>1. c \in S /\ t.parent[c] = x /\ lo[c] = pos[x] + 1 /\ hi[c] = hi[x]
          BY <1>1, <2>3, <3>3 DEF RightSpan
        <4>2. r.parent[c] = x /\ c \in In(r)
          BY <1>5, <1>6, <1>7, <4>1
        <4>3. h2[c] = h2[x]
          BY <1>9, <2>3, <4>1
        <4> HIDE DEF c
        <4>4. l2[c] = p2[x] + 1
          <5>1. CASE x = z
            <6>1. lo[c] = q + 1 /\ q \in Int
              BY <1>3, <4>1, <5>1 DEF q
            <6>2. l2[c] = q + 2
              BY <1>9, <4>1, <6>1
            <6> QED
              BY <1>3, <1>9, <2>3, <5>1, <6>1, <6>2
          <5>2. CASE x # z
            <6>1. pos[x] # q /\ pos[x] \in 1 .. n
              BY <1>2, <1>4, <2>3, <5>2
            <6> QED
              BY <1>3, <1>9, <2>3, <4>1, <5>2, <6>1
          <5> QED
            BY <5>1, <5>2
        <4>5. r.right[x] = c /\ c # Sentinel
          BY <3>1, <3>3 DEF c
        <4> QED
          BY <4>2, <4>3, <4>4, <4>5 DEF RightSpan
      <3> QED
        BY <3>2, <3>3
    <2> QED
      BY <2>1, <2>2, <2>3
  <1>13. RootSpan(r, n + 1, l2, h2)
    <2>1. t.root \in S /\ lo[t.root] = 1 /\ hi[t.root] = n
      BY <1>1, <1>2, <1>3 DEF RootSpan
    <2>2. l2[t.root] = 1 /\ h2[t.root] = n + 1
      BY <1>2, <1>3, <1>9, <2>1
    <2> QED
      BY <1>5, <1>6, <1>7, <2>1, <2>2 DEF RootSpan
  <1>14. Parents(r)
    <2>1. ASSUME NEW x \in R, x # r.root
          PROVE  /\ r.parent[x] \in R
                 /\ x = r.left[r.parent[x]] \/ x = r.right[r.parent[x]]
      <3>1. CASE x = node
        <4>1. r.parent[x] = z /\ z \in Cells /\ z # node
          BY <1>5, <1>6, <3>1
        <4> QED
          BY <1>3, <1>6, <3>1, <4>1
      <3>2. CASE x \in S
        <4> DEFINE p == t.parent[x]
        <4>1. p \in S /\ (x = t.left[p] \/ x = t.right[p]) /\ r.parent[x] = p
          BY <1>1, <1>5, <1>6, <2>1, <3>2 DEF Parents
        <4>2. x = t.left[p] => r.left[p] = x
          BY <1>3, <1>5, <1>6, <3>2, <4>1
        <4>3. x = t.right[p] => r.right[p] = x
          BY <1>3, <1>5, <1>6, <3>2, <4>1
        <4> QED
          BY <4>1, <4>2, <4>3
      <3> QED
        BY <3>1, <3>2
    <2> QED
      BY <1>7, <2>1 DEF Parents
  <1>15. Shape(r, n + 1, p2, l2, h2)
    BY <1>6, <1>7, <1>8, <1>10, <1>11, <1>12, <1>13, <1>14 DEF Shape, Spans
  <1> QED
    BY <1>7, <1>15 DEF Ordered, p2

\* The new red leaf is where the insert loop begins.
LEMMA LeafColors ==
  ASSUME NEW t, NEW n, NEW pos, Ordered(t, n, pos), NEW b, Settled(t, b),
         NEW node \in Nodes, node \notin In(t), NEW z \in In(t), NEW side \in Sides,
         t[side][z] = Sentinel, NEW r, LeafLinked(r, t, node, z, side),
         In(r) = In(t) \cup {node}
  PROVE  \E c : InsertAt(r, c, node)
  <1> DEFINE S == In(t)
             c == [x \in In(r) \cup {Sentinel} |-> IF x = node THEN 1 ELSE b[x]]
  <1>1. /\ t \in Trees /\ Family(t) /\ S \subseteq Cells /\ Sentinel \notin S
        /\ Null \notin S /\ Null \notin Cells /\ Sentinel \in Cells
        /\ \A f \in Sides, x \in S : t[f][x] \in S \cup {Sentinel}
    BY Lines
  <1>2. node \in Cells /\ node # Sentinel
    BY CellsAssumption DEF Cells
  <1>3. /\ \A x \in Cells : r.color[x] = IF x = node THEN "red" ELSE t.color[x]
        /\ \A f \in Sides, x \in Cells :
             r[f][x] = IF x = node THEN Sentinel ELSE IF x = z /\ f = side THEN node ELSE t[f][x]
        /\ r.root = t.root
    BY DEF LeafLinked
  <1>4. /\ (\A x \in S \cup {Sentinel} : b[x] \in Nat \ {0}) /\ b[Sentinel] = 1
        /\ (\A x \in S, f \in Sides :
              b[x] = One(Black(t, x)) + One(x = Null /\ f = Null) + b[t[f][x]])
        /\ Reds(t, Null, Null) /\ Black(t, t.root) /\ Black(t, Sentinel)
    BY DEF Settled, Heights, Measured, HeightAt
  <1>5. t.root \in S
    BY OrderedFacts
  <1>6. /\ c[node] = 1 /\ c[Sentinel] = 1 /\ (\A x \in S \cup {Sentinel} : c[x] = b[x])
        /\ c \in [In(r) \cup {Sentinel} -> Nat \ {0}]
    BY <1>2, <1>4
  <1> HIDE DEF c
  <1>7. /\ \A x \in S \cup {Sentinel} : Red(r, x) <=> Red(t, x)
        /\ Red(r, node)
    BY <1>1, <1>2, <1>3 DEF Red
  <1>8. ASSUME NEW x \in In(r), NEW f \in Sides
        PROVE  c[x] = One(Black(r, x)) + One(x = Null /\ f = Null) + c[r[f][x]]
    <2>1. x # Null
      BY <1>1, <1>2
    <2>2. One(x = Null /\ f = Null) = 0
      BY <2>1 DEF One
    <2>3. CASE x = node
      <3>1. r[f][x] = Sentinel
        BY <1>2, <1>3, <2>3
      <3>2. One(Black(r, x)) = 0
        BY <1>7, <2>3 DEF One, Black
      <3> QED
        BY <1>6, <2>2, <2>3, <3>1, <3>2
    <2>4. CASE x \in S
      <3>1. One(Black(r, x)) = One(Black(t, x))
        BY <1>7, <2>4 DEF Black, One
      <3>2. b[x] = One(Black(t, x)) + One(x = Null /\ f = Null) + b[t[f][x]]
        BY <1>4, <2>4
      <3>3. c[r[f][x]] = b[t[f][x]]
        <4>1. CASE x = z /\ f = side
          BY <1>1, <1>3, <1>4, <1>6, <2>4, <4>1
        <4>2. CASE ~ (x = z /\ f = side)
          <5>1. r[f][x] = t[f][x] /\ t[f][x] \in S \cup {Sentinel}
            BY <1>1, <1>3, <2>4, <4>2
          <5> QED
            BY <1>6, <5>1
        <4> QED
          BY <4>1, <4>2
      <3>4. c[x] = b[x]
        BY <1>6, <2>4
      <3> QED
        BY <3>1, <3>2, <3>3, <3>4
    <2> QED
      BY <2>3, <2>4
  <1>9. Heights(r, c, Null, Null)
    BY <1>6, <1>8 DEF Heights, Measured, HeightAt
  <1>10. ASSUME NEW x \in In(r), NEW f \in Sides, Red(r, x), Red(r, r[f][x])
         PROVE  r[f][x] = node
    <2>1. CASE x = node
      BY <1>2, <1>3, <1>4, <1>7, <1>10, <2>1 DEF Black
    <2>2. CASE x \in S /\ ~ (x = z /\ f = side)
      <3>1. r[f][x] = t[f][x] /\ t[f][x] \in S \cup {Sentinel}
        BY <1>1, <1>3, <2>2
      <3>2. Red(t, x) /\ Red(t, t[f][x])
        BY <1>7, <1>10, <2>2, <3>1
      <3>3. t[f][x] = Null \/ x = Null
        BY <1>4, <2>2, <3>2 DEF Reds
      <3> QED
        BY <1>1, <2>2, <3>1, <3>3
    <2>3. CASE x = z /\ f = side
      BY <1>1, <1>3, <2>3
    <2> QED
      BY <2>1, <2>2, <2>3
  <1>11. Black(r, r.root) /\ Black(r, Sentinel)
    BY <1>3, <1>4, <1>5, <1>7 DEF Black
  <1> QED
    BY <1>7, <1>9, <1>10, <1>11 DEF InsertAt, Reds, Black

\* The keys stay sorted with that of the new node.
LEMMA LeafSorted ==
  ASSUME NEW t, NEW n, NEW pos, Numbered(t, n, pos), NEW how \in {"value", "timer"},
         Sorted(t, how, pos), NEW node \in Nodes, node \notin In(t), NEW k \in Keys,
         how = "timer" => Narrow({k} \cup {t.key[x] : x \in In(t)}),
         NEW sd, \A x \in In(t) : sd[x] = IF Less(how, k, t.key[x]) THEN "left" ELSE "right",
         NEW z, Parted(t, pos, sd, z), NEW r, In(r) = In(t) \cup {node},
         \A x \in In(r) : r.key[x] = IF x = node THEN k ELSE t.key[x],
         NEW p2, p2 = MadeRoom(In(t), pos, node, Slot(pos, z, sd[z]))
  PROVE  Sorted(r, how, p2)
  <1> DEFINE S == In(t)
             K == {k} \cup {t.key[x] : x \in S}
             s == Slot(pos, z, sd[z])
  <1>1. /\ n \in Nat /\ \A x \in S : pos[x] \in 1 .. n
    BY DEF Numbered
  <1>2. K \subseteq Keys
    BY DEF Sorted
  <1>3. PICK rank \in [K -> Nat] : \A a, c \in K :
            /\ Less(how, a, c) <=> rank[a] < rank[c]
            /\ Earlier(how, a, c) <=> rank[a] < rank[c]
    <2> HIDE DEF K
    <2>1. how = "timer" => Narrow(K)
      BY DEF K
    <2> QED
      BY <1>2, <2>1, Ranked
  <1>4. k \in K /\ (\A x \in S : t.key[x] \in K) /\ (\A a \in K : rank[a] \in Nat)
    OBVIOUS
  <1>5. /\ z \in S /\ s \in Int /\ (\A y \in S : sd[y] = "right" <=> pos[y] < s)
    BY <1>1 DEF Parted, Slot
  <1>6. /\ p2[node] = s
        /\ \A x \in S : p2[x] = IF pos[x] >= s THEN pos[x] + 1 ELSE pos[x]
    BY DEF MadeRoom
  <1> HIDE DEF K, s
  <1>7. ASSUME NEW x \in In(r), NEW y \in In(r), p2[x] < p2[y]
        PROVE  ~ Earlier(how, r.key[y], r.key[x])
    <2>1. CASE x \in S /\ y \in S
      <3>1. pos[x] < pos[y]
        BY <1>1, <1>5, <1>6, <1>7, <2>1
      <3> QED
        BY <2>1, <3>1 DEF Sorted
    <2>2. CASE x = node /\ y \in S
      <3>1. pos[y] >= s
        BY <1>1, <1>5, <1>6, <1>7, <2>2
      <3>2. ~ (pos[y] < s)
        BY <1>1, <1>5, <2>2, <3>1
      <3>3. Less(how, k, t.key[y])
        BY <1>5, <2>2, <3>2
      <3>4. rank[k] < rank[t.key[y]]
        BY <1>3, <1>4, <2>2, <3>3
      <3>5. ~ (rank[t.key[y]] < rank[k])
        BY <1>4, <2>2, <3>4
      <3> QED
        BY <1>3, <1>4, <2>2, <3>5
    <2>3. CASE x \in S /\ y = node
      <3>1. pos[x] < s
        BY <1>1, <1>5, <1>6, <1>7, <2>3
      <3>2. ~ Less(how, k, t.key[x])
        BY <1>5, <2>3, <3>1
      <3>3. ~ (rank[k] < rank[t.key[x]])
        BY <1>3, <1>4, <2>3, <3>2
      <3> QED
        BY <1>3, <1>4, <2>3, <3>3
    <2>4. CASE x = node /\ y = node
      BY <1>5, <1>6, <1>7, <2>4
    <2> QED
      BY <2>1, <2>2, <2>3, <2>4
  <1>8. \A x \in In(r) : r.key[x] \in Keys
    BY DEF Sorted
  <1> QED
    BY <1>7, <1>8 DEF Sorted

\* The nodes whose keys are not after the new one come first.
LEMMA RightsFirst ==
  ASSUME NEW t, NEW pos, NEW how \in {"value", "timer"},
         Sorted(t, how, pos), NEW k \in Keys,
         how = "timer" => Narrow({k} \cup {t.key[x] : x \in In(t)}),
         NEW sd, \A x \in In(t) : sd[x] = IF Less(how, k, t.key[x]) THEN "left" ELSE "right"
  PROVE  \A x, y \in In(t) : pos[x] < pos[y] /\ sd[y] = "right" => sd[x] = "right"
  <1> DEFINE K == {k} \cup {t.key[x] : x \in In(t)}
  <1>1. K \subseteq Keys
    BY DEF Sorted
  <1>2. PICK rank \in [K -> Nat] : \A a, c \in K :
            /\ Less(how, a, c) <=> rank[a] < rank[c]
            /\ Earlier(how, a, c) <=> rank[a] < rank[c]
    <2> HIDE DEF K
    <2>1. how = "timer" => Narrow(K)
      BY DEF K
    <2> QED
      BY <1>1, <2>1, Ranked
  <1>3. k \in K /\ (\A x \in In(t) : t.key[x] \in K) /\ (\A a \in K : rank[a] \in Nat)
    OBVIOUS
  <1> HIDE DEF K
  <1>4. ASSUME NEW x \in In(t), NEW y \in In(t), pos[x] < pos[y], sd[y] = "right"
        PROVE  sd[x] = "right"
    <2>1. ~ (rank[k] < rank[t.key[y]])
      BY <1>2, <1>3, <1>4
    <2>2. ~ (rank[t.key[y]] < rank[t.key[x]])
      BY <1>2, <1>3, <1>4 DEF Sorted
    <2>3. ~ (rank[k] < rank[t.key[x]])
      BY <1>3, <2>1, <2>2
    <2> QED
      BY <1>2, <1>3, <2>3
  <1> QED
    BY <1>4

\* u is t with a key for node.
Keyed(u, t, node, k) ==
  /\ u \in Trees /\ u.root = t.root /\ u.color = t.color
  /\ u.left = t.left /\ u.right = t.right /\ u.parent = t.parent
  /\ \A f \in Links : u[f] = t[f]
  /\ \A x \in Nodes : u.key[x] = IF x = node THEN k ELSE t.key[x]

\* What setting a key does.
LEMMA SetKeyed ==
  ASSUME NEW t \in Trees, NEW node \in Nodes, NEW k \in Keys
  PROVE  Keyed(Set(t, "key", node, k), t, node, k)
  <1> DEFINE u == Set(t, "key", node, k)
  <1>1. u \in Trees /\ \A x \in Nodes : u.key[x] = IF x = node THEN k ELSE t.key[x]
    BY DEF Set, Trees
  <1>2. \A f \in Links : u[f] = t[f]
    BY DEF Set, Trees, Links
  <1>3. /\ u.left = t.left /\ u.right = t.right /\ u.parent = t.parent
        /\ u.root = t.root /\ u.color = t.color
    BY DEF Set, Trees
  <1> HIDE DEF u
  <1>4. Keyed(u, t, node, k)
    BY <1>1, <1>2, <1>3 DEF Keyed
  <1> QED
    BY <1>4 DEF u

\* What Linked does to the fields.
NewFields(r, s, node, z, c) ==
  /\ r \in Trees /\ r.root = s.root /\ r.key = s.key
  /\ \A x \in Cells : /\ r.color[x] = IF x = node THEN c ELSE s.color[x]
                      /\ r.parent[x] = IF x = node THEN z ELSE s.parent[x]
  /\ \A f \in Sides, x \in Cells : r[f][x] = IF x = node THEN Sentinel ELSE s[f][x]

\* What ngx_rbt_red and the links of a new node do.
LEMMA LinkedFields ==
  ASSUME NEW s \in Trees, NEW node \in Cells, NEW z \in Cells \cup {Null},
         NEW c \in {"red", "black"}
  PROVE  NewFields(Linked(s, node, z, c), s, node, z, c)
  <1> DEFINE r == Linked(s, node, z, c)
  <1>1. r \in Trees /\ r.root = s.root /\ r.key = s.key
    BY DEF Linked, Trees, Cells
  <1>2. /\ \A x \in Cells : r.color[x] = IF x = node THEN c ELSE s.color[x]
        /\ \A x \in Cells : r.parent[x] = IF x = node THEN z ELSE s.parent[x]
    BY DEF Linked, Trees
  <1>3. \A f \in Sides, x \in Cells : r[f][x] = IF x = node THEN Sentinel ELSE s[f][x]
    BY DEF Linked, Trees, Sides
  <1> HIDE DEF r
  <1>4. NewFields(r, s, node, z, c)
    BY <1>1, <1>2, <1>3 DEF NewFields
  <1> QED
    BY <1>4 DEF r

\* A leaf is hung up in three assignments.
LEMMA LeafFields ==
  ASSUME NEW t \in Trees, NEW node \in Nodes, NEW k \in Keys, NEW z \in Cells,
         NEW side \in Sides, NEW u, Keyed(u, t, node, k),
         NEW r, r = Linked(Set(u, side, z, node), node, z, "red")
  PROVE  /\ LeafLinked(r, t, node, z, side)
         /\ \A x \in Nodes : r.key[x] = IF x = node THEN k ELSE t.key[x]
  <1> DEFINE s == Set(u, side, z, node)
  <1>1. node \in Cells /\ side \in Links /\ Sides \subseteq Links
    BY SideFacts DEF Cells
  <1>2. /\ u \in Trees /\ u.root = t.root /\ u.color = t.color /\ u.parent = t.parent
        /\ \A f \in Sides : u[f] = t[f]
        /\ \A x \in Nodes : u.key[x] = IF x = node THEN k ELSE t.key[x]
    BY <1>1 DEF Keyed
  <1>3. LinkSet(s, u, side, z, node)
    BY <1>1, <1>2, SetLinks
  <1> HIDE DEF s
  <1>4. /\ s \in Trees /\ s.root = u.root /\ s.key = u.key /\ s.color = u.color
        /\ \A f \in Sides, x \in Cells :
             s[f][x] = IF f = side /\ x = z THEN node ELSE u[f][x]
        /\ \A x \in Cells : s.parent[x] = u.parent[x]
    <2>1. "parent" \in Links /\ side # "parent"
      BY SideFacts
    <2>2. \A x \in Cells : s["parent"][x] = u["parent"][x]
      BY <1>3, <2>1 DEF LinkSet
    <2> QED
      BY <1>1, <1>3, <2>2 DEF LinkSet
  <1>5. r = Linked(s, node, z, "red")
    BY DEF s
  <1>6. NewFields(r, s, node, z, "red")
    BY <1>1, <1>4, <1>5, LinkedFields
  <1>7. /\ r \in Trees /\ r.root = t.root /\ r.key = u.key
        /\ \A x \in Cells : /\ r.color[x] = IF x = node THEN "red" ELSE t.color[x]
                            /\ r.parent[x] = IF x = node THEN z ELSE t.parent[x]
    BY <1>2, <1>4, <1>6 DEF NewFields
  <1>8. \A f \in Sides, x \in Cells :
          r[f][x] = IF x = node THEN Sentinel ELSE IF x = z /\ f = side THEN node ELSE t[f][x]
    BY <1>2, <1>4, <1>6 DEF NewFields
  <1> QED
    BY <1>2, <1>7, <1>8 DEF LeafLinked

\* The insert functions go down to a place between the keys.
LEMMA InsertValueLeaf ==
  ASSUME NEW n, NEW pos, Ordered(tree, n, pos), Sorted(tree, insert, pos),
         insert \in {"value", "timer"}, tree.root # Sentinel,
         NEW node \in Nodes, node \notin In(tree), NEW k \in Keys,
         insert = "timer" => Narrow({k} \cup {tree.key[x] : x \in In(tree)}),
         NEW u, u = Set(tree, "key", node, k), NEW r, r = InsertValue(u, node)
  PROVE  \E sd, z :
           /\ sd \in [In(tree) -> Sides]
           /\ \A x \in In(tree) : sd[x] = IF Less(insert, k, tree.key[x])
                                          THEN "left" ELSE "right"
           /\ Parted(tree, pos, sd, z)
           /\ LeafLinked(r, tree, node, z, sd[z])
           /\ \A x \in Nodes : r.key[x] = IF x = node THEN k ELSE tree.key[x]
  <1>1. PICK lo, hi : Shape(tree, n, pos, lo, hi)
    BY DEF Ordered
  <1>2. /\ tree \in Trees /\ tree.root \in In(tree) /\ Sentinel \notin In(tree)
        /\ \A f \in Sides, x \in In(tree) : tree[f][x] \in In(tree) \cup {Sentinel}
        /\ In(tree) \subseteq Cells /\ In(tree) \subseteq Nodes
    BY Lines, OrderedFacts DEF In
  <1>3. Keyed(u, tree, node, k)
    BY <1>2, SetKeyed
  <1> DEFINE S == In(tree)
             side(x) == IF Less(insert, u.key[node], u.key[x]) THEN "left" ELSE "right"
             sd == [x \in S |-> side(x)]
             next == [x \in S |-> tree[sd[x]][x]]
             val == [x \in S |-> x]
             last == CHOOSE f : f = [x \in In(u) |-> IF u[side(x)][x] = Sentinel THEN x
                                                     ELSE f[u[side(x)][x]]]
             z == last[u.root]
  <1>4. /\ In(u) = S /\ u.root = tree.root /\ u.key[node] = k
        /\ \A x \in S : u.key[x] = tree.key[x]
        /\ \A f \in Sides : u[f] = tree[f]
    BY <1>2, <1>3 DEF Keyed, In, Sides, Links
  <1>5. \A x \in S : /\ side(x) \in Sides /\ sd[x] = side(x)
                     /\ side(x) = IF Less(insert, k, tree.key[x]) THEN "left" ELSE "right"
    BY <1>4 DEF Sides
  <1>6. sd \in [S -> Sides]
    BY <1>5
  <1>7. \E c : Follows(c, S, Sentinel, next, val)
    <2>1. next \in [S -> S \cup {Sentinel}] /\ Sentinel \notin S
      BY <1>2, <1>5
    <2> HIDE DEF S, next, val
    <2> QED
      BY <2>1, Chain
  <1>8. \E c : c = [x \in In(u) |-> IF u[side(x)][x] = Sentinel THEN x ELSE c[u[side(x)][x]]]
    <2>1. PICK c : c = [x \in S |-> IF next[x] = Sentinel THEN val[x] ELSE c[next[x]]]
      BY <1>7 DEF Follows
    <2>2. ASSUME NEW x \in S
          PROVE  (IF next[x] = Sentinel THEN val[x] ELSE c[next[x]])
                   = IF u[side(x)][x] = Sentinel THEN x ELSE c[u[side(x)][x]]
      <3>1. next[x] = u[side(x)][x] /\ val[x] = x
        BY <1>4, <1>5
      <3> HIDE DEF next, val, side
      <3> QED
        BY <3>1
    <2> HIDE DEF next, val, side
    <2> QED
      BY <1>4, <2>1, <2>2
  <1>9. last = [x \in In(u) |-> IF u[side(x)][x] = Sentinel THEN x ELSE last[u[side(x)][x]]]
    <2> HIDE DEF side
    <2> QED
      BY <1>8
  <1>10. r = Linked(Set(u, side(z), z, node), node, z, "red")
    BY DEF InsertValue
  <1> HIDE DEF last, side
  <1>11. \A x \in S : last[x] = IF tree[sd[x]][x] = Sentinel THEN x ELSE last[tree[sd[x]][x]]
    BY <1>4, <1>5, <1>9
  <1>12. \A x \in S : sd[x] = IF Less(insert, k, tree.key[x]) THEN "left" ELSE "right"
    BY <1>5
  <1> HIDE DEF sd, next
  <1>13. \A x, y \in S : pos[x] < pos[y] /\ sd[y] = "right" => sd[x] = "right"
    <2> HIDE DEF S
    <2> QED
      BY <1>12, RightsFirst DEF S
  <1>14. Parted(tree, pos, sd, z)
    <2>1. Parted(tree, pos, sd, last[tree.root])
      BY <1>1, <1>2, <1>6, <1>11, <1>13, DescentEnds
    <2> QED
      BY <1>4, <2>1
  <1> HIDE DEF z
  <1>15. z \in S /\ z \in Cells /\ side(z) = sd[z] /\ sd[z] \in Sides
    BY <1>2, <1>5, <1>14 DEF Parted
  <1>16. /\ LeafLinked(r, tree, node, z, sd[z])
         /\ \A x \in Nodes : r.key[x] = IF x = node THEN k ELSE tree.key[x]
    <2> DEFINE s == sd[z]
    <2>1. s \in Sides /\ r = Linked(Set(u, s, z, node), node, z, "red")
      BY <1>10, <1>15
    <2> HIDE DEF s
    <2>2. /\ LeafLinked(r, tree, node, z, s)
          /\ \A x \in Nodes : r.key[x] = IF x = node THEN k ELSE tree.key[x]
      BY <1>2, <1>3, <1>15, <2>1, LeafFields
    <2> QED
      BY <2>2 DEF s
  <1> QED
    BY <1>6, <1>12, <1>14, <1>16

\* An empty tree is in order.
LEMMA InitInv == Init => IInv
  <1> SUFFICES ASSUME Init PROVE IInv
    OBVIOUS
  <1>1. /\ tree \in Trees /\ tree.root = Sentinel /\ In(tree) = {}
        /\ \A x \in Cells : tree.color[x] = "black"
    BY DEF Init, Trees, In, Cells
  <1>2. insert \in {"value", "timer"} /\ pc = "idle" /\ cur = Sentinel /\ Sentinel \in Cells
    BY DEF Init, Cells
  <1> DEFINE e == [x \in {} |-> 0]
             b == [x \in {Sentinel} |-> 1]
  <1>3. e \in [{} -> 1 .. 0]
    OBVIOUS
  <1>4. Shape(tree, 0, e, e, e)
    <2> HIDE DEF e
    <2>1. Numbered(tree, 0, e)
      BY <1>1, <1>3 DEF Numbered
    <2>2. Spans(tree, 0, e, e, e)
      BY <1>1, <1>3 DEF Spans, Bounded, RootSpan
    <2> QED
      BY <1>1, <2>1, <2>2 DEF Shape, Parents
  <1>5. Sorted(tree, insert, e)
    BY <1>1 DEF Sorted
  <1>6. Settled(tree, b)
    BY <1>1, <1>2 DEF Settled, Heights, Measured, Reds, Black, Red
  <1>7. Balanced
    BY <1>2, <1>6 DEF Balanced
  <1>8. \E n, pos : Ordered(tree, n, pos) /\ Sorted(tree, insert, pos)
    BY <1>4, <1>5 DEF Ordered
  <1> QED
    BY <1>1, <1>2, <1>7, <1>8 DEF IInv, Black, Red

\* The first node becomes the root.
FirstFields(r, t, node, k) ==
  /\ r \in Trees /\ r.root = node
  /\ \A x \in Nodes : r.key[x] = IF x = node THEN k ELSE t.key[x]
  /\ \A x \in Cells : r.color[x] = IF x = node THEN "black" ELSE t.color[x]
  /\ \A f \in Sides, x \in Cells : r[f][x] = IF x = node THEN Sentinel ELSE t[f][x]

\* The fields after the insertion into an empty tree.
LEMMA FirstSet ==
  ASSUME NEW t \in Trees, NEW node \in Nodes, NEW k \in Keys,
         NEW r, r = [Linked(Set(t, "key", node, k), node, Null, "black") EXCEPT !.root = node]
  PROVE  FirstFields(r, t, node, k)
  <1> DEFINE u == Set(t, "key", node, k)
             s == Linked(u, node, Null, "black")
  <1>1. Keyed(u, t, node, k) /\ node \in Cells
    BY SetKeyed DEF Cells
  <1> HIDE DEF u
  <1>2. /\ u \in Trees /\ u.color = t.color
        /\ \A f \in Sides : u[f] = t[f]
        /\ \A x \in Nodes : u.key[x] = IF x = node THEN k ELSE t.key[x]
    BY <1>1 DEF Keyed, Links, Sides
  <1>3. NewFields(s, u, node, Null, "black")
    BY <1>1, <1>2, LinkedFields
  <1>4. r = [s EXCEPT !.root = node]
    BY DEF u
  <1> HIDE DEF s
  <1>5. s \in Trees
    BY <1>3 DEF NewFields
  <1>6. /\ r \in Trees /\ r.root = node /\ r.key = s.key /\ r.color = s.color
        /\ \A f \in Sides : r[f] = s[f]
    BY <1>1, <1>4, <1>5 DEF Trees, Sides
  <1> QED
    BY <1>2, <1>3, <1>6 DEF FirstFields, NewFields

\* r is t, in which there was no node, with node for its root.
FirstPlaced(r, t, node, k, how) ==
  /\ In(t) = {} /\ In(r) = {node} /\ r.key[node] = k
  /\ \E p2 : p2 = [x \in {node} |-> 1] /\ Ordered(r, 1, p2) /\ Sorted(r, how, p2)
  /\ \E b : Settled(r, b)

\* A tree of one node is in order.
LEMMA FirstTree ==
  ASSUME NEW t, NEW pos, NEW n, Ordered(t, n, pos), t.root = Sentinel,
         Black(t, Sentinel), NEW node \in Nodes, NEW k \in Keys,
         NEW how, NEW r, FirstFields(r, t, node, k)
  PROVE  FirstPlaced(r, t, node, k, how)
  <1> DEFINE p2 == [x \in {node} |-> 1]
             b == [x \in In(r) \cup {Sentinel} |-> IF x = node THEN 2 ELSE 1]
  <1>1. /\ In(t) = {} /\ Sentinel \notin Nodes /\ Null \notin Cells /\ Null # Sentinel
        /\ node \in Cells /\ Sentinel \in Cells /\ node # Sentinel /\ node # Null
    <2>1. t.root \in In(t) \/ In(t) = {}
      BY OrderedFacts
    <2> QED
      BY <2>1, CellsAssumption DEF In, Cells
  <1>2. /\ r \in Trees /\ r.root = node /\ r.key[node] = k
        /\ r.color[node] = "black" /\ r.color[Sentinel] = "black"
        /\ r.left[node] = Sentinel /\ r.right[node] = Sentinel
        /\ \A f \in Sides : r[f][node] = Sentinel
    <2>1. t.color[Sentinel] = "black"
      <3>1. t \in Trees
        BY OrderedFacts
      <3> QED
        BY <1>1, <3>1 DEF Trees, Black, Red
    <2> QED
      BY <1>1, <2>1 DEF FirstFields, Sides
  <1>3. In(r) = {node}
    <2>1. ASSUME NEW x \in Nodes, x # node PROVE r.left[x] = Null
      <3>1. x \in Cells
        BY DEF Cells
      <3>2. r.left[x] = t.left[x]
        BY <2>1, <3>1 DEF FirstFields, Sides
      <3> QED
        BY <1>1, <3>2 DEF In
    <2> QED
      BY <1>1, <1>2, <2>1 DEF In
  <1>4. Shape(r, 1, p2, p2, p2)
    <2>1. /\ p2 \in [{node} -> 1 .. 1] /\ p2[node] = 1
      OBVIOUS
    <2> HIDE DEF p2
    <2>2. Numbered(r, 1, p2)
      BY <1>3, <2>1 DEF Numbered
    <2>3. Spans(r, 1, p2, p2, p2)
      BY <1>1, <1>2, <1>3, <2>1 DEF Spans, Bounded, RootSpan, LeftSpan, RightSpan
    <2> QED
      BY <1>2, <1>3, <2>2, <2>3 DEF Shape, Parents
  <1>5. Sorted(r, how, p2)
    <2>1. p2[node] = 1
      OBVIOUS
    <2> HIDE DEF p2
    <2> QED
      BY <1>2, <1>3, <2>1 DEF Sorted
  <1>6. Settled(r, b)
    <2>1. /\ b \in [In(r) \cup {Sentinel} -> Nat \ {0}] /\ b[Sentinel] = 1 /\ b[node] = 2
      BY <1>1, <1>3
    <2> HIDE DEF b
    <2>2. One(Black(r, node)) = 1 /\ \A f \in Sides : One(node = Null /\ f = Null) = 0
      BY <1>1, <1>2 DEF One, Black, Red
    <2>3. ASSUME NEW f \in Sides
          PROVE  b[node] = One(Black(r, node)) + One(node = Null /\ f = Null) + b[r[f][node]]
      BY <1>2, <2>1, <2>2
    <2>4. Heights(r, b, Null, Null)
      BY <1>3, <2>1, <2>3 DEF Heights, Measured, HeightAt
    <2>5. Reds(r, Null, Null)
      BY <1>2, <1>3 DEF Reds, Red
    <2> QED
      BY <1>2, <2>4, <2>5 DEF Settled, Black, Red
  <1> QED
    BY <1>1, <1>2, <1>3, <1>4, <1>5, <1>6 DEF Ordered, FirstPlaced

\* r is t with node added in place s.
PlacedAt(r, t, n, pos, node, k, s) ==
  /\ In(r) = In(t) \cup {node} /\ Ordered(r, n + 1, MadeRoom(In(t), pos, node, s))
  /\ \A x \in In(r) : r.key[x] = IF x = node THEN k ELSE t.key[x]

\* r is t with node added, just before the nodes whose keys come after k.
Placed(r, t, n, pos, node, k, how) ==
  \E s \in 1 .. n + 1 :
    /\ PlacedAt(r, t, n, pos, node, k, s)
    /\ \A y \in In(t) : Earlier(how, k, t.key[y]) <=> s <= pos[y]

\* The place of the new leaf is before the first key that comes after the new one.
LEMMA LeafPlace ==
  ASSUME NEW t, NEW n, NEW pos, Numbered(t, n, pos), NEW how \in {"value", "timer"},
         Sorted(t, how, pos), NEW k \in Keys,
         how = "timer" => Narrow({k} \cup {t.key[x] : x \in In(t)}),
         NEW sd, \A x \in In(t) : sd[x] = IF Less(how, k, t.key[x]) THEN "left" ELSE "right",
         NEW z, Parted(t, pos, sd, z), NEW s, s = Slot(pos, z, sd[z])
  PROVE  /\ s \in 1 .. n + 1
         /\ \A y \in In(t) : Earlier(how, k, t.key[y]) <=> s <= pos[y]
  <1> DEFINE K == {k} \cup {t.key[x] : x \in In(t)}
  <1>1. /\ n \in Nat /\ \A x \in In(t) : pos[x] \in 1 .. n
    BY DEF Numbered
  <1>2. /\ z \in In(t) /\ s \in 1 .. n + 1
        /\ (\A y \in In(t) : sd[y] = "right" <=> pos[y] < s)
    BY <1>1 DEF Parted, Slot
  <1>3. K \subseteq Keys /\ k \in K /\ \A x \in In(t) : t.key[x] \in K
    BY DEF Sorted
  <1>4. PICK rank \in [K -> Nat] : \A a, c \in K :
            /\ Less(how, a, c) <=> rank[a] < rank[c]
            /\ Earlier(how, a, c) <=> rank[a] < rank[c]
    <2> HIDE DEF K
    <2>1. how = "timer" => Narrow(K)
      BY DEF K
    <2> QED
      BY <1>3, <2>1, Ranked
  <1> HIDE DEF K
  <1>5. ASSUME NEW y \in In(t) PROVE Earlier(how, k, t.key[y]) <=> s <= pos[y]
    <2>1. Earlier(how, k, t.key[y]) <=> Less(how, k, t.key[y])
      BY <1>3, <1>4
    <2>2. Less(how, k, t.key[y]) <=> ~ (sd[y] = "right")
      OBVIOUS
    <2>3. ~ (pos[y] < s) <=> s <= pos[y]
      BY <1>1, <1>2
    <2> QED
      BY <1>2, <2>1, <2>2, <2>3
  <1> QED
    BY <1>2, <1>5

\* What an insertion does to the invariant.
LEMMA InsertKeeps ==
  ASSUME IInv, insert' = insert, NEW n, NEW pos,
         Ordered(tree, n, pos), Sorted(tree, insert, pos),
         NEW node \in Nodes, NEW k \in Keys, Insert(node, k)
  PROVE  IInv' /\ Placed(tree', tree, n, pos, node, k, insert)
  <1>1. Ordered(tree, n, pos) /\ Sorted(tree, insert, pos)
    OBVIOUS
  <1>2. /\ pc = "idle" /\ node \notin In(tree) /\ insert \in {"value", "timer"}
        /\ insert = "timer" => Narrow({k} \cup {tree.key[x] : x \in In(tree)})
        /\ tree \in Trees /\ Black(tree, Sentinel) /\ cur \in Cells /\ node \in Cells
    BY DEF IInv, Insert, InTree, Cells
  <1>3. PICK b : Settled(tree, b)
    BY <1>2 DEF IInv, Balanced
  <1> DEFINE u == Set(tree, "key", node, k)
  <1>4. u.root = tree.root
    <2>1. Keyed(u, tree, node, k)
      BY <1>2, SetKeyed
    <2> QED
      BY <2>1 DEF Keyed
  <1>5. CASE tree.root = Sentinel
    <2>1. /\ tree' = [Linked(u, node, Null, "black") EXCEPT !.root = node]
          /\ pc' = pc /\ cur' = cur
      BY <1>4, <1>5 DEF Insert
    <2>2. FirstFields(tree', tree, node, k)
      BY <1>2, <2>1, FirstSet
    <2>3. /\ In(tree) = {} /\ In(tree') = {node} /\ tree'.key[node] = k
          /\ \E p2 : /\ p2 = [x \in {node} |-> 1]
                     /\ Ordered(tree', 1, p2) /\ Sorted(tree', insert, p2)
          /\ \E c : Settled(tree', c)
      <3>1. FirstPlaced(tree', tree, node, k, insert)
        BY <1>1, <1>2, <1>5, <2>2, FirstTree
      <3> QED
        BY <3>1 DEF FirstPlaced
    <2>4. PICK p2 : /\ p2 = [x \in {node} |-> 1]
                    /\ Ordered(tree', 1, p2) /\ Sorted(tree', insert, p2)
      BY <2>3
    <2>5. Balanced'
      BY <1>2, <2>1, <2>3 DEF Balanced
    <2>6. n = 0
      <3>1. n \in Nat /\ pos \in [In(tree) -> 1 .. n] /\ \A i \in 1 .. n : \E x \in In(tree) : pos[x] = i
        BY <1>1, OrderedFacts DEF Numbered
      <3> QED
        BY <2>3, <3>1
    <2>7. p2 = MadeRoom(In(tree), pos, node, 1)
      BY <2>3, <2>4 DEF MadeRoom
    <2>8. Placed(tree', tree, n, pos, node, k, insert)
      <3>1. n + 1 = 1 /\ 1 \in 1 .. n + 1
        BY <2>6
      <3>2. Ordered(tree', n + 1, MadeRoom(In(tree), pos, node, 1))
        BY <2>4, <2>7, <3>1
      <3> QED
        BY <2>3, <3>1, <3>2 DEF Placed, PlacedAt
    <2> QED
      BY <1>2, <2>1, <2>4, <2>5, <2>8, InvKept
  <1>6. CASE tree.root # Sentinel
    <2>1. tree' = InsertValue(u, node) /\ pc' = "insert" /\ cur' = node
      BY <1>4, <1>6 DEF Insert
    <2> HIDE DEF u
    <2>2. \E sd, z :
           /\ sd \in [In(tree) -> Sides]
           /\ \A x \in In(tree) : sd[x] = IF Less(insert, k, tree.key[x])
                                          THEN "left" ELSE "right"
           /\ Parted(tree, pos, sd, z)
           /\ LeafLinked(tree', tree, node, z, sd[z])
           /\ \A x \in Nodes : tree'.key[x] = IF x = node THEN k ELSE tree.key[x]
      BY <1>1, <1>2, <1>6, <2>1, InsertValueLeaf DEF u
    <2>3. PICK sd, z :
           /\ sd \in [In(tree) -> Sides]
           /\ \A x \in In(tree) : sd[x] = IF Less(insert, k, tree.key[x])
                                          THEN "left" ELSE "right"
           /\ Parted(tree, pos, sd, z)
           /\ LeafLinked(tree', tree, node, z, sd[z])
           /\ \A x \in Nodes : tree'.key[x] = IF x = node THEN k ELSE tree.key[x]
      BY <2>2
    <2> DEFINE side == sd[z]
               s == Slot(pos, z, side)
               p2 == MadeRoom(In(tree), pos, node, s)
    <2>4. z \in In(tree) /\ tree[side][z] = Sentinel /\ side \in Sides
      BY <2>3 DEF Parted
    <2>5. In(tree') = In(tree) \cup {node} /\ Ordered(tree', n + 1, p2)
      <3>1. PICK lo, hi : Shape(tree, n, pos, lo, hi)
        BY <1>1 DEF Ordered
      <3>2. s = Slot(pos, z, side) /\ LeafLinked(tree', tree, node, z, side)
        BY <2>3
      <3> HIDE DEF side, s
      <3> QED
        BY <1>2, <2>4, <3>1, <3>2, LeafShape
    <2>6. \E c : InsertAt(tree', c, node)
      <3>1. LeafLinked(tree', tree, node, z, side)
        BY <2>3
      <3> HIDE DEF side
      <3> QED
        BY <1>1, <1>2, <1>3, <2>4, <2>5, <3>1, LeafColors
    <2>9. Numbered(tree, n, pos) /\ \A x \in In(tree') : tree'.key[x] = IF x = node THEN k ELSE tree.key[x]
      <3>1. Numbered(tree, n, pos)
        BY <1>1, OrderedFacts
      <3>2. In(tree') \subseteq Nodes
        BY DEF In
      <3> QED
        BY <2>3, <3>1, <3>2
    <2>10. Placed(tree', tree, n, pos, node, k, insert)
      <3>1. s = Slot(pos, z, sd[z])
        OBVIOUS
      <3>2. Ordered(tree', n + 1, MadeRoom(In(tree), pos, node, s))
        BY <2>5
      <3> HIDE DEF side, s, p2
      <3>3. /\ s \in 1 .. n + 1
            /\ \A y \in In(tree) : Earlier(insert, k, tree.key[y]) <=> s <= pos[y]
        BY <1>1, <1>2, <2>3, <2>9, <3>1, LeafPlace
      <3> QED
        BY <2>5, <2>9, <3>2, <3>3 DEF Placed, PlacedAt
    <2>7. Sorted(tree', insert, p2)
      <3>1. Numbered(tree, n, pos)
        BY <2>9
      <3>3. \A x \in In(tree') : tree'.key[x] = IF x = node THEN k ELSE tree.key[x]
        BY <2>9
      <3>4. p2 = MadeRoom(In(tree), pos, node, Slot(pos, z, sd[z]))
        OBVIOUS
      <3> HIDE DEF p2
      <3> QED
        BY <1>1, <1>2, <2>3, <2>5, <3>1, <3>3, <3>4, LeafSorted
    <2>8. Balanced'
      BY <2>1, <2>6 DEF Balanced
    <2> HIDE DEF p2
    <2> QED
      BY <1>2, <2>1, <2>5, <2>7, <2>8, <2>10, InvKept
  <1> QED
    BY <1>5, <1>6

\* q is t without m, whose place the child temp has taken; the root is black.
Spliced(q, t, m, temp) ==
  /\ q \in Trees /\ q.root = IF m = t.root THEN temp ELSE t.root
  /\ q.left[m] = Null
  /\ \A f \in Sides, x \in Cells \ {m} :
       q[f][x] = IF m # t.root /\ x = t.parent[m] /\ f = SideOf(t, m) THEN temp ELSE t[f][x]
  /\ \A x \in Cells \ {m} : x # temp => q.parent[x] = t.parent[x]
  /\ m # t.root => q.parent[temp] = t.parent[m]
  /\ \A x \in Cells \ {m} :
       q.color[x] = IF m = t.root /\ x = temp THEN "black" ELSE t.color[x]

\* The positions without k.
ClosedUp(S, pos, k) == [x \in S |-> IF pos[x] > k THEN pos[x] - 1 ELSE pos[x]]

\* r is t without node: the nodes behind it have moved.
Removed(r, t, n, pos, node) ==
  /\ In(r) = In(t) \ {node} /\ Ordered(r, n - 1, ClosedUp(In(r), pos, pos[node]))
  /\ \A x \in In(r) : r.key[x] = t.key[x]

\* The positions without that of m are positions again.
LEMMA ClosedNumbered ==
  ASSUME NEW t, NEW n, NEW pos, Numbered(t, n, pos), NEW m \in In(t),
         NEW q, In(q) = In(t) \ {m}
  PROVE  Numbered(q, n - 1, ClosedUp(In(q), pos, pos[m]))
  <1> DEFINE S == In(t)
             Q == In(q)
             k == pos[m]
             p2 == ClosedUp(Q, pos, k)
  <1>1. /\ n \in Nat /\ (\A x \in S : pos[x] \in 1 .. n)
        /\ (\A x, y \in S : pos[x] = pos[y] => x = y)
        /\ (\A i \in 1 .. n : \E x \in S : pos[x] = i)
    BY DEF Numbered
  <1>2. /\ \A x \in Q : p2[x] = IF pos[x] > k THEN pos[x] - 1 ELSE pos[x]
        /\ p2 = [x \in Q |-> p2[x]]
    BY DEF ClosedUp
  <1>3. k \in 1 .. n /\ n - 1 \in Nat /\ \A x \in Q : x \in S /\ pos[x] # k
    BY <1>1
  <1> HIDE DEF p2, S, Q, k
  <1>4. p2 \in [Q -> 1 .. n - 1]
    <2>1. \A x \in Q : p2[x] \in 1 .. n - 1
      BY <1>1, <1>2, <1>3
    <2> QED
      BY <1>2, <2>1
  <1>5. ASSUME NEW x \in Q, NEW y \in Q, p2[x] = p2[y] PROVE x = y
    <2>1. pos[x] = pos[y]
      BY <1>1, <1>2, <1>3, <1>5
    <2> QED
      BY <1>1, <1>3, <2>1
  <1>6. ASSUME NEW i \in 1 .. n - 1 PROVE \E x \in Q : p2[x] = i
    <2>1. CASE i < k
      <3>1. i \in 1 .. n
        BY <1>1
      <3>2. PICK x \in S : pos[x] = i
        BY <1>1, <3>1
      <3>3. x \in Q
        BY <2>1, <3>2 DEF Q, S, k
      <3>4. p2[x] = i
        BY <1>2, <1>3, <2>1, <3>2, <3>3
      <3> QED
        BY <3>3, <3>4
    <2>2. CASE ~ (i < k)
      <3>1. i + 1 \in 1 .. n /\ i + 1 > k
        BY <1>1, <1>3, <2>2
      <3>2. PICK x \in S : pos[x] = i + 1
        BY <1>1, <3>1
      <3>3. x \in Q
        BY <1>3, <3>1, <3>2 DEF Q, S, k
      <3>4. p2[x] = i
        BY <1>2, <1>3, <3>1, <3>2, <3>3
      <3> QED
        BY <3>3, <3>4
    <2> QED
      BY <2>1, <2>2
  <1> QED
    BY <1>3, <1>4, <1>5, <1>6 DEF Numbered, p2, Q, k

\* The tree without m, which had a leaf for a child, is in order.
LEMMA SpliceShape ==
  ASSUME NEW t, NEW n, NEW pos, NEW lo, NEW hi, Shape(t, n, pos, lo, hi), NEW m \in In(t),
         t.left[m] = Sentinel \/ t.right[m] = Sentinel,
         NEW temp, temp = Child(t, m), NEW q, Spliced(q, t, m, temp)
  PROVE  In(q) = In(t) \ {m} /\ Ordered(q, n - 1, ClosedUp(In(q), pos, pos[m]))
  <1> DEFINE S == In(t)
             Q == In(q)
             k == pos[m]
             p2 == ClosedUp(Q, pos, k)
             l2 == [x \in Q |-> IF lo[x] > k THEN lo[x] - 1 ELSE lo[x]]
             h2 == [x \in Q |-> IF hi[x] >= k THEN hi[x] - 1 ELSE hi[x]]
  <1>1. /\ Bounded(S, n, pos, lo, hi) /\ Numbered(t, n, pos) /\ RootSpan(t, n, lo, hi)
        /\ (\A x \in S : LeftSpan(t, pos, lo, hi, x) /\ RightSpan(t, pos, lo, hi, x))
        /\ Parents(t) /\ t \in Trees /\ Family(t) /\ S \subseteq Nodes
    BY ShapeFamily DEF Shape, Spans, In
  <1>2. n \in Nat /\ \A x \in S : lo[x] \in 1 .. n /\ hi[x] \in 1 .. n /\ pos[x] \in 1 .. n
                                  /\ lo[x] <= pos[x] /\ pos[x] <= hi[x]
    BY <1>1 DEF Bounded, Numbered
  <1>3. /\ Sentinel \notin S /\ Null \notin S /\ Null # Sentinel /\ S \subseteq Cells
        /\ Sentinel \in Cells /\ Null \notin Cells /\ m \in Cells
    BY <1>1, CellsAssumption DEF Cells
  <1>4. /\ q \in Trees /\ q.left[m] = Null /\ (q.root = IF m = t.root THEN temp ELSE t.root)
        /\ \A x \in Cells \ {m} :
             /\ q.left[x] = IF m # t.root /\ x = t.parent[m] /\ "left" = SideOf(t, m)
                            THEN temp ELSE t.left[x]
             /\ q.right[x] = IF m # t.root /\ x = t.parent[m] /\ "right" = SideOf(t, m)
                             THEN temp ELSE t.right[x]
             /\ x # temp => q.parent[x] = t.parent[x]
        /\ m # t.root => q.parent[temp] = t.parent[m]
    BY DEF Spliced, Sides
  <1>5. /\ temp = t.left[m] \/ temp = t.right[m]
        /\ t.left[m] = Sentinel \/ t.right[m] = Sentinel
        /\ temp # Sentinel => t.left[m] \in {temp, Sentinel} /\ t.right[m] \in {temp, Sentinel}
        /\ temp = Sentinel => t.left[m] = Sentinel /\ t.right[m] = Sentinel
    BY DEF Child
  <1>6. temp \in S \cup {Sentinel} /\ temp # m /\ temp # Null
    <2>1. \A f \in Sides : t[f][m] \in S \cup {Sentinel} /\ t[f][m] # m
      BY <1>1, <1>3 DEF Family
    <2>2. "left" \in Sides /\ "right" \in Sides
      BY DEF Sides
    <2> QED
      BY <1>3, <1>5, <2>1, <2>2
  <1>7. Q = S \ {m}
    <2>1. ASSUME NEW x \in Nodes PROVE q.left[x] # Null <=> x \in S \ {m}
      <3>1. x \in Cells /\ (x \in S <=> t.left[x] # Null)
        BY DEF In, Cells
      <3>2. CASE x = m
        BY <1>4, <3>2
      <3>3. CASE x # m
        <4>1. \/ q.left[x] = t.left[x]
              \/ q.left[x] = temp /\ m # t.root /\ x = t.parent[m]
          BY <1>4, <3>1, <3>3
        <4>2. m # t.root => t.parent[m] \in S
          BY <1>1 DEF Parents
        <4> QED
          BY <1>6, <3>1, <3>3, <4>1, <4>2
      <3> QED
        BY <3>2, <3>3
    <2> QED
      BY <1>1, <2>1 DEF In
  <1>8. Numbered(q, n - 1, p2)
    BY <1>1, <1>7, ClosedNumbered
  <1>9. k \in 1 .. n /\ n - 1 \in Nat /\ \A x \in Q : x \in S /\ x # m /\ pos[x] # k
    BY <1>1, <1>2, <1>7 DEF Numbered
  <1>10. /\ \A x \in Q : /\ p2[x] = IF pos[x] > k THEN pos[x] - 1 ELSE pos[x]
                         /\ l2[x] = IF lo[x] > k THEN lo[x] - 1 ELSE lo[x]
                         /\ h2[x] = IF hi[x] >= k THEN hi[x] - 1 ELSE hi[x]
         /\ l2 = [x \in Q |-> l2[x]] /\ h2 = [x \in Q |-> h2[x]]
    BY DEF ClosedUp
  <1>11. /\ lo[m] <= k /\ k <= hi[m] /\ lo[m] \in 1 .. n /\ hi[m] \in 1 .. n
         /\ temp = Sentinel => lo[m] = k /\ hi[m] = k
         /\ temp # Sentinel => /\ temp \in Q /\ l2[temp] = lo[m] /\ h2[temp] = hi[m] - 1
                               /\ t.parent[temp] = m
    <2>1. lo[m] <= k /\ k <= hi[m] /\ lo[m] \in 1 .. n /\ hi[m] \in 1 .. n
      BY <1>2
    <2>2. ASSUME temp = Sentinel PROVE lo[m] = k /\ hi[m] = k
      BY <1>1, <1>5, <2>2 DEF LeftSpan, RightSpan
    <2>3. ASSUME temp # Sentinel
          PROVE  /\ temp \in Q /\ l2[temp] = lo[m] /\ h2[temp] = hi[m] - 1
                 /\ t.parent[temp] = m
      <3>1. CASE t.left[m] = temp
        <4>1. /\ t.parent[temp] = m /\ lo[temp] = lo[m] /\ hi[temp] = k - 1 /\ temp \in S
              /\ hi[m] = k
          BY <1>1, <1>5, <2>3, <3>1 DEF LeftSpan, RightSpan
        <4>2. temp \in Q
          BY <1>6, <1>7, <4>1
        <4> HIDE DEF l2, h2, p2, Q, k
        <4> QED
          BY <1>9, <1>10, <2>1, <4>1, <4>2
      <3>2. CASE t.right[m] = temp
        <4>1. /\ t.parent[temp] = m /\ lo[temp] = k + 1 /\ hi[temp] = hi[m] /\ temp \in S
              /\ lo[m] = k
          BY <1>1, <1>5, <2>3, <3>2 DEF LeftSpan, RightSpan
        <4>2. temp \in Q
          BY <1>6, <1>7, <4>1
        <4> HIDE DEF l2, h2, p2, Q, k
        <4> QED
          BY <1>9, <1>10, <2>1, <4>1, <4>2
      <3> QED
        BY <1>5, <3>1, <3>2
    <2> HIDE DEF l2, h2, p2, Q, k
    <2> QED
      BY <2>1, <2>2, <2>3
  <1> HIDE DEF p2, l2, h2, Q, k
  <1>12. Bounded(Q, n - 1, p2, l2, h2)
    <2>1. ASSUME NEW x \in Q
          PROVE  /\ l2[x] \in 1 .. n - 1 /\ h2[x] \in 1 .. n - 1
                 /\ l2[x] <= p2[x] /\ p2[x] <= h2[x]
      <3>1. /\ lo[x] \in 1 .. n /\ hi[x] \in 1 .. n /\ pos[x] \in 1 .. n
            /\ lo[x] <= pos[x] /\ pos[x] <= hi[x] /\ pos[x] # k
        BY <1>2, <1>9
      <3> QED
        BY <1>2, <1>9, <1>10, <3>1
    <2> QED
      BY <1>10, <2>1 DEF Bounded
  <1>13. ASSUME m # t.root
         PROVE  /\ t.parent[m] \in Q /\ SideOf(t, m) \in Sides
                /\ t[SideOf(t, m)][t.parent[m]] = m /\ t.parent[m] \in Cells \ {m}
    <2>1. /\ t.parent[m] \in S /\ SideOf(t, m) \in Sides /\ t.parent[m] # m
          /\ t[SideOf(t, m)][t.parent[m]] = m
      BY <1>1, <1>13 DEF Family
    <2> QED
      BY <1>3, <1>7, <2>1
  <1>14. ASSUME NEW x \in Q PROVE LeftSpan(q, p2, l2, h2, x)
    <2>1. CASE m # t.root /\ x = t.parent[m] /\ "left" = SideOf(t, m)
      <3>1. q.left[x] = temp /\ q.parent[temp] = x /\ t.left[x] = m
        BY <1>4, <1>13, <2>1
      <3>2. lo[m] = lo[x] /\ hi[m] = pos[x] - 1
        BY <1>1, <1>3, <1>9, <3>1 DEF LeftSpan
      <3>3. l2[x] = lo[m] /\ p2[x] = hi[m]
        <4>1. pos[x] \in 1 .. n
          BY <1>2, <1>9
        <4> QED
          BY <1>9, <1>10, <1>11, <3>2, <4>1
      <3>4. CASE temp = Sentinel
        BY <1>11, <3>1, <3>3, <3>4 DEF LeftSpan
      <3>5. CASE temp # Sentinel
        BY <1>11, <3>1, <3>3, <3>5 DEF LeftSpan, Q
      <3> QED
        BY <3>4, <3>5
    <2>2. CASE ~ (m # t.root /\ x = t.parent[m] /\ "left" = SideOf(t, m))
      <3>1. q.left[x] = t.left[x]
        BY <1>3, <1>4, <1>9, <2>2
      <3>2. t.left[x] # m
        <4>1. ASSUME t.left[x] = m PROVE FALSE
          <5>1. "left" \in Sides /\ t["left"][x] = m
            BY <4>1 DEF Sides
          <5>2. t.parent[m] = x /\ SideOf(t, m) = "left" /\ m # t.root
            BY <1>1, <1>3, <1>9, <5>1, FamilyChild
          <5> QED
            BY <2>2, <5>2
        <4> QED
          BY <4>1
      <3>3. /\ pos[x] \in 1 .. n /\ pos[x] # k /\ lo[x] \in 1 .. n /\ x \in S
            /\ LeftSpan(t, pos, lo, hi, x)
        BY <1>1, <1>2, <1>9
      <3>4. CASE t.left[x] = Sentinel
        <4>1. lo[x] = pos[x]
          BY <3>3, <3>4 DEF LeftSpan
        <4>2. l2[x] = p2[x]
          BY <1>9, <1>10, <3>3, <4>1
        <4> QED
          BY <3>1, <3>4, <4>2 DEF LeftSpan
      <3>5. CASE t.left[x] # Sentinel
        <4> DEFINE c == t.left[x]
        <4>1. c \in S /\ t.parent[c] = x /\ lo[c] = lo[x] /\ hi[c] = pos[x] - 1
          BY <3>3, <3>5 DEF LeftSpan
        <4>2. c # Sentinel /\ q.left[x] = c /\ c \in Q /\ c \in Cells \ {m}
          BY <1>3, <1>7, <3>1, <3>2, <3>5, <4>1
        <4> HIDE DEF c
        <4>3. c # temp
          BY <1>9, <1>11, <4>1, <4>2
        <4>4. q.parent[c] = x
          BY <1>4, <4>1, <4>2, <4>3
        <4>5. l2[c] = l2[x]
          BY <1>10, <4>1, <4>2
        <4>6. h2[c] = p2[x] - 1
          BY <1>9, <1>10, <3>3, <4>1, <4>2
        <4> QED
          BY <4>2, <4>4, <4>5, <4>6 DEF LeftSpan, Q
      <3> QED
        BY <3>4, <3>5
    <2> QED
      BY <2>1, <2>2
  <1>15. ASSUME NEW x \in Q PROVE RightSpan(q, p2, l2, h2, x)
    <2>1. CASE m # t.root /\ x = t.parent[m] /\ "right" = SideOf(t, m)
      <3>1. q.right[x] = temp /\ q.parent[temp] = x /\ t.right[x] = m
        BY <1>4, <1>13, <2>1
      <3>2. lo[m] = pos[x] + 1 /\ hi[m] = hi[x]
        BY <1>1, <1>3, <1>9, <3>1 DEF RightSpan
      <3>3. p2[x] = lo[m] - 1 /\ h2[x] = hi[m] - 1
        <4>1. pos[x] \in 1 .. n
          BY <1>2, <1>9
        <4> QED
          BY <1>9, <1>10, <1>11, <3>2, <4>1
      <3>4. CASE temp = Sentinel
        BY <1>11, <3>1, <3>3, <3>4 DEF RightSpan
      <3>5. CASE temp # Sentinel
        <4>1. p2[x] + 1 = lo[m]
          BY <1>11, <3>3
        <4> QED
          BY <1>11, <3>1, <3>3, <3>5, <4>1 DEF RightSpan, Q
      <3> QED
        BY <3>4, <3>5
    <2>2. CASE ~ (m # t.root /\ x = t.parent[m] /\ "right" = SideOf(t, m))
      <3>1. q.right[x] = t.right[x]
        BY <1>3, <1>4, <1>9, <2>2
      <3>2. t.right[x] # m
        <4>1. ASSUME t.right[x] = m PROVE FALSE
          <5>1. "right" \in Sides /\ t["right"][x] = m
            BY <4>1 DEF Sides
          <5>2. t.parent[m] = x /\ SideOf(t, m) = "right" /\ m # t.root
            BY <1>1, <1>3, <1>9, <5>1, FamilyChild
          <5> QED
            BY <2>2, <5>2
        <4> QED
          BY <4>1
      <3>3. /\ pos[x] \in 1 .. n /\ pos[x] # k /\ hi[x] \in 1 .. n /\ x \in S
            /\ RightSpan(t, pos, lo, hi, x)
        BY <1>1, <1>2, <1>9
      <3>4. CASE t.right[x] = Sentinel
        <4>1. hi[x] = pos[x]
          BY <3>3, <3>4 DEF RightSpan
        <4>2. h2[x] = p2[x]
          BY <1>9, <1>10, <3>3, <4>1
        <4> QED
          BY <3>1, <3>4, <4>2 DEF RightSpan
      <3>5. CASE t.right[x] # Sentinel
        <4> DEFINE c == t.right[x]
        <4>1. c \in S /\ t.parent[c] = x /\ lo[c] = pos[x] + 1 /\ hi[c] = hi[x]
          BY <3>3, <3>5 DEF RightSpan
        <4>2. c # Sentinel /\ q.right[x] = c /\ c \in Q /\ c \in Cells \ {m}
          BY <1>3, <1>7, <3>1, <3>2, <3>5, <4>1
        <4> HIDE DEF c
        <4>3. c # temp
          BY <1>9, <1>11, <4>1, <4>2
        <4>4. q.parent[c] = x
          BY <1>4, <4>1, <4>2, <4>3
        <4>5. h2[c] = h2[x]
          BY <1>10, <4>1, <4>2
        <4>6. l2[c] = p2[x] + 1
          BY <1>9, <1>10, <3>3, <4>1, <4>2
        <4> QED
          BY <4>2, <4>4, <4>5, <4>6 DEF RightSpan, Q
      <3> QED
        BY <3>4, <3>5
    <2> QED
      BY <2>1, <2>2
  <1>16. RootSpan(q, n - 1, l2, h2)
    <2>1. t.root \in S /\ lo[t.root] = 1 /\ hi[t.root] = n
      BY <1>1, <1>2, <1>9 DEF RootSpan
    <2>2. CASE m = t.root
      <3>1. q.root = temp /\ lo[m] = 1 /\ hi[m] = n
        BY <1>4, <2>1, <2>2
      <3>2. CASE temp = Sentinel
        <4>1. n - 1 = 0
          BY <1>11, <3>1, <3>2
        <4> QED
          BY <3>1, <3>2, <4>1 DEF RootSpan
      <3>3. CASE temp # Sentinel
        BY <1>11, <3>1, <3>3 DEF RootSpan, Q
      <3> QED
        BY <3>2, <3>3
    <2>3. CASE m # t.root
      <3>1. q.root = t.root /\ t.root \in Q /\ t.root # Sentinel
        BY <1>3, <1>4, <1>7, <2>1, <2>3
      <3>2. l2[t.root] = 1 /\ h2[t.root] = n - 1
        BY <1>9, <1>10, <2>1, <3>1
      <3> QED
        BY <3>1, <3>2 DEF RootSpan, Q
    <2> QED
      BY <2>2, <2>3
  <1>17. Parents(q)
    <2>1. ASSUME NEW x \in Q, x # q.root
          PROVE  /\ q.parent[x] \in Q
                 /\ x = q.left[q.parent[x]] \/ x = q.right[q.parent[x]]
      <3>1. CASE x = temp
        <4>1. m # t.root /\ q.parent[x] = t.parent[m]
          BY <1>4, <2>1, <3>1
        <4> QED
          BY <1>4, <1>13, <3>1, <4>1 DEF Sides
      <3>2. CASE x # temp
        <4> DEFINE p == t.parent[x]
        <4>1. x # t.root /\ x \in S /\ x # m /\ x \in Cells /\ x # Sentinel
          BY <1>3, <1>4, <1>9, <2>1
        <4>2. /\ p \in S /\ (x = t.left[p] \/ x = t.right[p]) /\ SideOf(t, x) \in Sides
              /\ t[SideOf(t, x)][p] = x
          BY <1>1, <4>1 DEF Parents, Family
        <4>3. q.parent[x] = p
          BY <1>4, <3>2, <4>1
        <4>4. p # m
          BY <1>5, <1>6, <3>2, <4>1, <4>2
        <4>5. p \in Q /\ p \in Cells \ {m}
          BY <1>3, <1>7, <4>2, <4>4
        <4>6. ~ (m # t.root /\ p = t.parent[m] /\ SideOf(t, x) = SideOf(t, m))
          BY <1>13, <4>1, <4>2
        <4>7. SideOf(t, x) = "left" => q.left[p] = x
          BY <1>4, <4>2, <4>5, <4>6
        <4>8. SideOf(t, x) = "right" => q.right[p] = x
          BY <1>4, <4>2, <4>5, <4>6
        <4> QED
          BY <4>2, <4>3, <4>5, <4>7, <4>8 DEF Sides
      <3> QED
        BY <3>1, <3>2
    <2> QED
      BY <2>1 DEF Parents, Q
  <1>18. Shape(q, n - 1, p2, l2, h2)
    BY <1>4, <1>8, <1>12, <1>14, <1>15, <1>16, <1>17 DEF Shape, Spans, Q
  <1> QED
    BY <1>7, <1>18 DEF Ordered, p2, Q, k

\* The links and the colors of a tree without m, told by those of the tree with it.
SpliceKin(q, t, m, temp) ==
  /\ temp \in In(q) \cup {Sentinel} /\ \E f \in Sides : t[f][m] = temp
  /\ \A x \in In(q), f \in Sides :
       /\ (m # t.root /\ x = t.parent[m] /\ f = SideOf(t, m)) => q[f][x] = temp /\ t[f][x] = m
       /\ ~ (m # t.root /\ x = t.parent[m] /\ f = SideOf(t, m)) =>
             /\ q[f][x] = t[f][x] /\ t[f][x] \in In(q) \cup {Sentinel}
             /\ t[f][x] = temp => temp = Sentinel
  /\ \A x \in In(q) \cup {Sentinel} :
       (Red(q, x) <=> Red(t, x)) \/ (m = t.root /\ x = temp /\ Black(q, x))

\* Where the links without m lead.
LEMMA SpliceLinks ==
  ASSUME NEW t, NEW n, NEW pos, Ordered(t, n, pos), NEW m \in In(t),
         t.left[m] = Sentinel \/ t.right[m] = Sentinel,
         NEW temp, temp = Child(t, m), NEW q, Spliced(q, t, m, temp), In(q) = In(t) \ {m}
  PROVE  SpliceKin(q, t, m, temp)
  <1> DEFINE S == In(t)
             Q == In(q)
  <1>1. /\ t \in Trees /\ Family(t) /\ S \subseteq Cells /\ Sentinel \notin S
        /\ Null \notin S /\ Null \notin Cells /\ Sentinel \in Cells
        /\ (\A f \in Sides, x \in S : t[f][x] \in S \cup {Sentinel})
        /\ t["left"] = t.left /\ t["right"] = t.right
    BY Lines
  <1>2. "left" \in Sides /\ "right" \in Sides
    BY DEF Sides
  <1>3. \E f \in Sides : t[f][m] = temp
    BY <1>1, <1>2 DEF Child
  <1>4. PICK g \in Sides : t[g][m] = temp
    BY <1>3
  <1>5. /\ temp \in S \cup {Sentinel} /\ temp # m
        /\ temp # Sentinel => t.parent[temp] = m
    BY <1>1, <1>4 DEF Family
  <1>6. \A x \in Q : x \in S /\ x # m /\ x \in Cells \ {m}
    BY <1>1
  <1>7. temp \in Q \cup {Sentinel}
    BY <1>5
  <1>8. ASSUME NEW x \in Q, NEW f \in Sides, m # t.root, x = t.parent[m], f = SideOf(t, m)
        PROVE  q[f][x] = temp /\ t[f][x] = m
    <2>1. q[f][x] = temp
      BY <1>6, <1>8 DEF Spliced
    <2>2. t[f][x] = m
      BY <1>1, <1>8 DEF Family
    <2> QED
      BY <2>1, <2>2
  <1>9. ASSUME NEW x \in Q, NEW f \in Sides,
               ~ (m # t.root /\ x = t.parent[m] /\ f = SideOf(t, m))
        PROVE  /\ q[f][x] = t[f][x] /\ t[f][x] \in Q \cup {Sentinel}
               /\ t[f][x] = temp => temp = Sentinel
    <2>1. q[f][x] = t[f][x]
      BY <1>6, <1>9 DEF Spliced
    <2>2. t[f][x] # m
      BY <1>1, <1>6, <1>9 DEF Family
    <2>3. t[f][x] = temp => temp = Sentinel
      BY <1>1, <1>5, <1>6 DEF Family
    <2> QED
      BY <1>1, <1>6, <2>1, <2>2, <2>3
  <1>10. ASSUME NEW x \in Q \cup {Sentinel}
         PROVE  (Red(q, x) <=> Red(t, x)) \/ (m = t.root /\ x = temp /\ Black(q, x))
    <2>1. x \in Cells \ {m}
      BY <1>1, <1>6
    <2>2. q.color[x] = IF m = t.root /\ x = temp THEN "black" ELSE t.color[x]
      BY <2>1 DEF Spliced
    <2> QED
      BY <2>2 DEF Red, Black
  <1> QED
    BY <1>3, <1>7, <1>8, <1>9, <1>10 DEF SpliceKin

\* A red node that goes leaves the black heights.
LEMMA SpliceRed ==
  ASSUME NEW t, NEW n, NEW pos, Ordered(t, n, pos), NEW b, Settled(t, b), NEW m \in In(t),
         t.left[m] = Sentinel \/ t.right[m] = Sentinel, Red(t, m),
         NEW temp, temp = Child(t, m), NEW q, Spliced(q, t, m, temp), In(q) = In(t) \ {m}
  PROVE  \E c : Settled(q, c)
  <1> DEFINE S == In(t)
             Q == In(q)
             c == [x \in Q \cup {Sentinel} |-> b[x]]
  <1>1. /\ Family(t) /\ Sentinel \notin S /\ Null \notin S
        /\ \A f \in Sides, x \in S : t[f][x] \in S \cup {Sentinel}
    BY Lines
  <1>2. SpliceKin(q, t, m, temp)
    BY SpliceLinks
  <1>3. /\ (\A x \in S \cup {Sentinel} : b[x] \in Nat \ {0}) /\ b[Sentinel] = 1
        /\ (\A x \in S, f \in Sides :
              b[x] = One(Black(t, x)) + One(x = Null /\ f = Null) + b[t[f][x]])
        /\ Reds(t, Null, Null) /\ Black(t, t.root) /\ Black(t, Sentinel)
    BY DEF Settled, Heights, Measured, HeightAt
  <1>4. m # t.root /\ t.root \in S /\ t.root \in Q
    <2>1. m # t.root
      BY <1>3 DEF Black
    <2>2. t.root \in S
      BY OrderedFacts
    <2> QED
      BY <2>1, <2>2
  <1>5. PICK g \in Sides : t[g][m] = temp
    BY <1>2 DEF SpliceKin
  <1>6. ~ Red(t, temp)
    <2>1. ~ (Red(t, m) /\ Red(t, t[g][m]))
      <3>1. ASSUME Red(t, m), Red(t, t[g][m]) PROVE FALSE
        <4>1. t[g][m] = Null \/ m = Null
          BY <1>3, <3>1 DEF Reds
        <4>2. Null # Sentinel
          BY CellsAssumption DEF Cells
        <4> QED
          BY <1>1, <4>1, <4>2
      <3> QED
        BY <3>1
    <2> QED
      BY <1>5, <2>1
  <1>7. b[m] = b[temp]
    <2>1. b[m] = One(Black(t, m)) + One(m = Null /\ g = Null) + b[temp]
      BY <1>3, <1>5
    <2>2. One(Black(t, m)) = 0 /\ One(m = Null /\ g = Null) = 0
      BY <1>1 DEF One, Black
    <2>3. b[temp] \in Nat
      BY <1>1, <1>3, <1>5
    <2> QED
      BY <2>1, <2>2, <2>3
  <1>8. /\ \A x \in Q \cup {Sentinel} : c[x] = b[x] /\ (Red(q, x) <=> Red(t, x))
        /\ c \in [Q \cup {Sentinel} -> Nat \ {0}]
    BY <1>2, <1>3, <1>4 DEF SpliceKin
  <1> HIDE DEF c
  <1>9. ASSUME NEW x \in Q, NEW f \in Sides
        PROVE  /\ c[x] = One(Black(q, x)) + One(x = Null /\ f = Null) + c[q[f][x]]
               /\ ~ (Red(q, x) /\ Red(q, q[f][x]))
    <2>1. x \in S /\ x # Null
      BY <1>1
    <2>2. b[x] = One(Black(t, x)) + One(x = Null /\ f = Null) + b[t[f][x]]
      BY <1>3, <2>1
    <2>3. One(Black(q, x)) = One(Black(t, x))
      BY <1>8 DEF One, Black
    <2>4. c[x] = b[x]
      BY <1>8
    <2>5. c[q[f][x]] = b[t[f][x]] /\ ~ (Red(q, x) /\ Red(q, q[f][x]))
      <3>1. CASE m # t.root /\ x = t.parent[m] /\ f = SideOf(t, m)
        <4>1. q[f][x] = temp /\ t[f][x] = m /\ temp \in Q \cup {Sentinel}
          BY <1>2, <3>1 DEF SpliceKin
        <4> QED
          BY <1>6, <1>7, <1>8, <4>1
      <3>2. CASE ~ (m # t.root /\ x = t.parent[m] /\ f = SideOf(t, m))
        <4>1. q[f][x] = t[f][x] /\ t[f][x] \in Q \cup {Sentinel}
          BY <1>2, <3>2 DEF SpliceKin
        <4>2. ~ (Red(t, x) /\ Red(t, t[f][x]))
          <5>1. ASSUME Red(t, x), Red(t, t[f][x]) PROVE FALSE
            <6>1. t[f][x] = Null \/ x = Null
              BY <1>3, <2>1, <5>1 DEF Reds
            <6>2. Null # Sentinel
              BY CellsAssumption DEF Cells
            <6> QED
              BY <1>1, <2>1, <6>1, <6>2
          <5> QED
            BY <5>1
        <4> QED
          BY <1>8, <4>1, <4>2
      <3> QED
        BY <3>1, <3>2
    <2> QED
      BY <2>2, <2>3, <2>4, <2>5
  <1>10. Heights(q, c, Null, Null)
    <2>1. c[Sentinel] = 1
      BY <1>3, <1>8
    <2> QED
      BY <1>8, <1>9, <2>1 DEF Heights, Measured, HeightAt
  <1>11. Reds(q, Null, Null)
    BY <1>9 DEF Reds
  <1>12. Black(q, q.root) /\ Black(q, Sentinel)
    <2>1. q.root = t.root
      BY <1>4 DEF Spliced
    <2> QED
      BY <1>3, <1>4, <1>8, <2>1 DEF Black
  <1> QED
    BY <1>10, <1>11, <1>12 DEF Settled

\* A black one leaves the child that takes its place a black short.
LEMMA SpliceBlack ==
  ASSUME NEW t, NEW n, NEW pos, Ordered(t, n, pos), NEW b, Settled(t, b), NEW m \in In(t),
         t.left[m] = Sentinel \/ t.right[m] = Sentinel, Black(t, m), m # t.root,
         NEW temp, temp = Child(t, m), NEW q, Spliced(q, t, m, temp), In(q) = In(t) \ {m}
  PROVE  \E c : DeleteAt(q, c, temp)
  <1> DEFINE S == In(t)
             Q == In(q)
             p == t.parent[m]
             side == SideOf(t, m)
             c == [x \in Q \cup {Sentinel} |-> b[x]]
  <1>1. /\ t \in Trees /\ Family(t) /\ Sentinel \notin S /\ Null \notin S /\ S \subseteq Cells
        /\ (\A f \in Sides, x \in S : t[f][x] \in S \cup {Sentinel})
        /\ t["left"] = t.left /\ t["right"] = t.right
    BY Lines
  <1>2. SpliceKin(q, t, m, temp)
    BY SpliceLinks
  <1>3. /\ (\A x \in S \cup {Sentinel} : b[x] \in Nat \ {0}) /\ b[Sentinel] = 1
        /\ (\A x \in S, f \in Sides :
              b[x] = One(Black(t, x)) + One(x = Null /\ f = Null) + b[t[f][x]])
        /\ Reds(t, Null, Null) /\ Black(t, t.root) /\ Black(t, Sentinel)
    BY DEF Settled, Heights, Measured, HeightAt
  <1>4. /\ t.root \in Q /\ q.root = t.root /\ q.parent[temp] = p /\ q \in Trees
        /\ q["left"] = q.left /\ q["right"] = q.right
    <2>1. t.root \in S
      BY OrderedFacts
    <2>2. q \in Trees /\ q.root = t.root /\ q.parent[temp] = p
      BY DEF Spliced
    <2> QED
      BY <2>1, <2>2, Fields
  <1>5. p \in Q /\ p # m /\ side \in Sides /\ t[side][p] = m
    BY <1>1 DEF Family
  <1>6. PICK g \in Sides : t[g][m] = temp
    BY <1>2 DEF SpliceKin
  <1>7. b[m] = 1 + b[temp] /\ b[temp] \in Nat \ {0} /\ b[m] \in Nat
    <2>1. b[m] = One(Black(t, m)) + One(m = Null /\ g = Null) + b[temp]
      BY <1>3, <1>6
    <2>2. One(Black(t, m)) = 1 /\ One(m = Null /\ g = Null) = 0
      BY <1>1 DEF One
    <2>3. b[temp] \in Nat \ {0}
      BY <1>1, <1>3, <1>6
    <2>4. b[m] = 1 + 0 + b[temp]
      BY <2>1, <2>2, Zenon
    <2> QED
      BY <2>3, <2>4
  <1>8. /\ \A x \in Q \cup {Sentinel} : c[x] = b[x] /\ (Red(q, x) <=> Red(t, x))
        /\ c \in [Q \cup {Sentinel} -> Nat \ {0}]
    BY <1>2, <1>3 DEF SpliceKin
  <1> HIDE DEF c
  <1>9. temp \in Q \cup {Sentinel} /\ q[side][p] = temp
    BY <1>2, <1>5 DEF SpliceKin
  <1>10. \A f \in Sides : f # side => q[f][p] = t[f][p] /\ (t[f][p] = temp => temp = Sentinel)
    BY <1>2, <1>5 DEF SpliceKin
  <1>11. \A f \in Sides : f # side => q[f][p] # temp
    <2> SUFFICES ASSUME NEW f \in Sides, f # side, q[f][p] = temp PROVE FALSE
      OBVIOUS
    <2>1. t[f][p] = Sentinel /\ temp = Sentinel
      BY <1>10
    <2>2. /\ b[p] = One(Black(t, p)) + One(p = Null /\ f = Null) + b[Sentinel]
          /\ b[p] = One(Black(t, p)) + One(p = Null /\ side = Null) + b[m]
      BY <1>3, <1>5, <2>1
    <2>3. One(p = Null /\ f = Null) = 0 /\ One(p = Null /\ side = Null) = 0
      BY <1>1, <1>5 DEF One
    <2>4. One(Black(t, p)) \in {0, 1}
      BY DEF One
    <2>5. b[Sentinel] = 1 /\ b[m] = 2
      BY <1>3, <1>7, <2>1
    <2> HIDE DEF p, side
    <2> QED
      BY <2>2, <2>3, <2>4, <2>5
  <1>12. SideOf(q, temp) = side
    <2>1. CASE side = "left"
      BY <1>4, <1>9, <2>1 DEF SideOf
    <2>2. CASE side = "right"
      <3>1. "left" \in Sides
        BY DEF Sides
      <3>2. q.left[p] # temp
        BY <1>4, <1>11, <2>2, <3>1
      <3> QED
        BY <1>4, <2>2, <3>2 DEF SideOf
    <2> QED
      BY <1>5, <2>1, <2>2 DEF Sides
  <1> HIDE DEF p, side
  <1>13. Place(q, temp)
    BY <1>4, <1>5, <1>9, <1>12 DEF Place
  <1>14. ASSUME NEW x \in Q, NEW f \in Sides
         PROVE  /\ c[x] = One(Black(q, x)) + One(x = p /\ f = side) + c[q[f][x]]
                /\ Red(q, x) /\ Red(q, q[f][x]) => q[f][x] = temp
    <2>1. x \in S /\ x # Null
      BY <1>1
    <2>2. b[x] = One(Black(t, x)) + One(x = Null /\ f = Null) + b[t[f][x]]
      BY <1>3, <2>1
    <2>3. One(Black(q, x)) = One(Black(t, x)) /\ One(x = Null /\ f = Null) = 0
      BY <1>8, <2>1 DEF One, Black
    <2>4. c[x] = b[x] /\ One(Black(t, x)) \in {0, 1}
      BY <1>8 DEF One
    <2>5. CASE x = p /\ f = side
      <3>1. q[f][x] = temp /\ t[f][x] = m
        BY <1>5, <1>9, <2>5
      <3>2. c[q[f][x]] = b[temp]
        BY <1>8, <1>9, <3>1
      <3>3. One(x = p /\ f = side) = 1
        BY <2>5 DEF One
      <3>4. b[t[f][x]] = 1 + b[temp]
        BY <1>7, <3>1
      <3> QED
        BY <1>7, <2>2, <2>3, <2>4, <3>1, <3>2, <3>3, <3>4
    <2>6. CASE ~ (x = p /\ f = side)
      <3>1. q[f][x] = t[f][x] /\ t[f][x] \in Q \cup {Sentinel}
        BY <1>2, <2>6 DEF SpliceKin, p, side
      <3>2. One(x = p /\ f = side) = 0
        BY <2>6 DEF One
      <3>3. c[q[f][x]] = b[t[f][x]] /\ b[t[f][x]] \in Nat
        BY <1>3, <1>8, <3>1
      <3>4. ~ (Red(t, x) /\ Red(t, t[f][x]))
        <4>1. ASSUME Red(t, x), Red(t, t[f][x]) PROVE FALSE
          <5>1. t[f][x] = Null \/ x = Null
            BY <1>3, <2>1, <4>1 DEF Reds
          <5>2. Null # Sentinel
            BY CellsAssumption DEF Cells
          <5> QED
            BY <1>1, <2>1, <5>1, <5>2
        <4> QED
          BY <4>1
      <3> QED
        BY <1>8, <2>2, <2>3, <2>4, <3>1, <3>2, <3>3, <3>4
    <2> QED
      BY <2>5, <2>6
  <1>15. Heights(q, c, q.parent[temp], SideOf(q, temp))
    <2>1. c[Sentinel] = 1
      BY <1>3, <1>8
    <2> QED
      BY <1>4, <1>8, <1>12, <1>14, <2>1 DEF Heights, Measured, HeightAt
  <1>16. Reds(q, temp, temp)
    BY <1>14 DEF Reds
  <1>17. Black(q, q.root) /\ Black(q, Sentinel) /\ q.root \in In(q)
    BY <1>3, <1>4, <1>8 DEF Black
  <1>18. temp # q.root
    <2>1. temp # t.root
      BY <1>1, <1>6, <1>4 DEF Family
    <2> QED
      BY <1>4, <2>1
  <1> QED
    BY <1>9, <1>13, <1>15, <1>16, <1>17, <1>18 DEF DeleteAt

\* When the root goes, its child becomes the root, and black.
LEMMA SpliceRoot ==
  ASSUME NEW t, NEW n, NEW pos, Ordered(t, n, pos), NEW b, Settled(t, b), NEW m \in In(t),
         t.left[m] = Sentinel \/ t.right[m] = Sentinel, m = t.root,
         NEW temp, temp = Child(t, m), NEW q, Spliced(q, t, m, temp), In(q) = In(t) \ {m},
         NEW k, NEW p2, Ordered(q, k, p2)
  PROVE  \E c : Settled(q, c)
  <1> DEFINE S == In(t)
             Q == In(q)
             c == [x \in Q \cup {Sentinel} |-> IF x = temp /\ Red(t, temp) THEN b[x] + 1 ELSE b[x]]
  <1>1. /\ t \in Trees /\ Family(t) /\ Sentinel \notin S /\ Null \notin S
        /\ \A f \in Sides, x \in S : t[f][x] \in S \cup {Sentinel}
    BY Lines
  <1>2. SpliceKin(q, t, m, temp)
    BY SpliceLinks
  <1>3. /\ (\A x \in S \cup {Sentinel} : b[x] \in Nat \ {0}) /\ b[Sentinel] = 1
        /\ (\A x \in S, f \in Sides :
              b[x] = One(Black(t, x)) + One(x = Null /\ f = Null) + b[t[f][x]])
        /\ Reds(t, Null, Null) /\ Black(t, t.root) /\ Black(t, Sentinel)
    BY DEF Settled, Heights, Measured, HeightAt
  <1>4. q.root = temp /\ temp \in Q \cup {Sentinel} /\ Sentinel \in Cells /\ Q \subseteq Cells
    <2>1. q.root = temp
      BY DEF Spliced
    <2> QED
      BY <1>2, <2>1 DEF SpliceKin, Cells, In
  <1>5. temp = Sentinel => Q = {}
    BY <1>1, <1>4, OrderedFacts
  <1>6. Red(t, temp) => temp \in Q
    BY <1>3, <1>4 DEF Black
  <1>7. /\ \A x \in Q \cup {Sentinel} : c[x] = IF x = temp /\ Red(t, temp) THEN b[x] + 1 ELSE b[x]
        /\ c \in [Q \cup {Sentinel} -> Nat \ {0}]
    BY <1>3
  <1> HIDE DEF c
  <1>8. \A x \in Q \cup {Sentinel} : Red(q, x) <=> Red(t, x) /\ x # temp
    <2>1. \A x \in Cells \ {m} : q.color[x] = IF x = temp THEN "black" ELSE t.color[x]
      BY DEF Spliced
    <2>2. \A x \in Q \cup {Sentinel} : x \in Cells \ {m}
      BY <1>1, <1>4
    <2> QED
      BY <2>1, <2>2 DEF Red
  <1>9. ASSUME NEW x \in Q, NEW f \in Sides
        PROVE  /\ c[x] = One(Black(q, x)) + One(x = Null /\ f = Null) + c[q[f][x]]
               /\ ~ (Red(q, x) /\ Red(q, q[f][x]))
    <2>1. x \in S /\ x # Null
      BY <1>1
    <2>2. b[x] = One(Black(t, x)) + One(x = Null /\ f = Null) + b[t[f][x]]
      BY <1>3, <2>1
    <2>3. /\ q[f][x] = t[f][x] /\ t[f][x] \in Q \cup {Sentinel}
          /\ t[f][x] = temp => temp = Sentinel
      BY <1>2 DEF SpliceKin
    <2>4. t[f][x] # temp
      BY <1>5, <2>3
    <2>5. c[q[f][x]] = b[t[f][x]] /\ b[t[f][x]] \in Nat
      BY <1>3, <1>7, <2>3, <2>4
    <2>6. ~ (Red(t, x) /\ Red(t, t[f][x]))
      <3>1. ASSUME Red(t, x), Red(t, t[f][x]) PROVE FALSE
        <4>1. t[f][x] = Null \/ x = Null
          BY <1>3, <2>1, <3>1 DEF Reds
        <4>2. Null # Sentinel
          BY CellsAssumption DEF Cells
        <4> QED
          BY <1>1, <2>1, <4>1, <4>2
      <3> QED
        BY <3>1
    <2>7. c[x] = b[x] + One(Black(q, x)) - One(Black(t, x))
      <3>1. CASE x = temp /\ Red(t, temp)
        <4>1. One(Black(q, x)) = 1 /\ One(Black(t, x)) = 0
          BY <1>8, <3>1 DEF One, Black
        <4>2. c[x] = b[x] + 1 /\ b[x] \in Nat
          BY <1>3, <1>7, <2>1, <3>1
        <4> QED
          BY <4>1, <4>2
      <3>2. CASE ~ (x = temp /\ Red(t, temp))
        <4>1. One(Black(q, x)) = One(Black(t, x)) /\ One(Black(t, x)) \in {0, 1}
          BY <1>8, <3>2 DEF One, Black
        <4>2. c[x] = b[x] /\ b[x] \in Nat
          BY <1>3, <1>7, <2>1, <3>2
        <4> QED
          BY <4>1, <4>2
      <3> QED
        BY <3>1, <3>2
    <2>8. b[x] \in Nat /\ One(Black(q, x)) \in {0, 1} /\ One(Black(t, x)) \in {0, 1}
      BY <1>3, <2>1 DEF One
    <2>9. One(x = Null /\ f = Null) = 0
      BY <2>1 DEF One
    <2>10. ~ (Red(q, x) /\ Red(q, q[f][x]))
      BY <1>8, <2>3, <2>6
    <2> QED
      BY <2>2, <2>5, <2>7, <2>8, <2>9, <2>10
  <1>10. Heights(q, c, Null, Null)
    <2>1. c[Sentinel] = 1
      BY <1>1, <1>3, <1>6, <1>7
    <2> QED
      BY <1>7, <1>9, <2>1 DEF Heights, Measured, HeightAt
  <1>11. Reds(q, Null, Null)
    BY <1>9 DEF Reds
  <1>12. Black(q, q.root) /\ Black(q, Sentinel)
    BY <1>3, <1>4, <1>8 DEF Black
  <1> QED
    BY <1>10, <1>11, <1>12 DEF Settled

\* b in the place of a.
Instead(a, b, x) == IF x = a THEN b ELSE x

\* r is q with subst, which was not in it, in the place of node; temp is a leaf or a node.
Renamed(r, q, node, subst, temp) ==
  /\ r \in Trees /\ r.root = Instead(node, subst, q.root) /\ r.left[node] = Null
  /\ \A f \in Sides, x \in In(q) \ {node} : r[f][x] = Instead(node, subst, q[f][x])
  /\ \A x \in Nodes \ (In(q) \cup {subst}) : r.left[x] = Null
  /\ \A f \in Sides : r[f][subst] = q[f][node]
  /\ \A x \in (In(q) \cup {temp}) \ {node, q.root} :
       r.parent[x] = Instead(node, subst, q.parent[x])
  /\ node # q.root => r.parent[subst] = q.parent[node]
  /\ \A x \in Cells \ {node, subst} : r.color[x] = q.color[x]
  /\ r.color[subst] = q.color[node]

\* What is at y now was at Instead(subst, node, y).
RenameKin(r, q, node, subst) ==
  /\ In(r) = (In(q) \ {node}) \cup {subst}
  /\ \A x \in In(q) \cup {Sentinel} :
       /\ Instead(node, subst, x) \in In(r) \cup {Sentinel}
       /\ Instead(subst, node, Instead(node, subst, x)) = x
       /\ Instead(node, subst, x) = Sentinel <=> x = Sentinel
  /\ \A y \in In(r) \cup {Sentinel} :
       /\ Instead(subst, node, y) \in In(q) \cup {Sentinel}
       /\ Instead(node, subst, Instead(subst, node, y)) = y
       /\ Instead(subst, node, y) = Sentinel <=> y = Sentinel
       /\ Red(r, y) <=> Red(q, Instead(subst, node, y))
  /\ \A y \in In(r) : /\ Instead(subst, node, y) \in In(q)
                      /\ y = r.root <=> Instead(subst, node, y) = q.root
  /\ \A y \in In(r), f \in Sides :
       r[f][y] = Instead(node, subst, q[f][Instead(subst, node, y)])
  /\ \A y \in In(r) : y # r.root =>
       r.parent[y] = Instead(node, subst, q.parent[Instead(subst, node, y)])

\* Renaming is one to one on the nodes, and the links follow it.
LEMMA RenameLinks ==
  ASSUME NEW q, NEW n, NEW pos, Ordered(q, n, pos), NEW node \in In(q),
         NEW subst \in Nodes, subst \notin In(q), NEW temp, NEW r,
         Renamed(r, q, node, subst, temp)
  PROVE  RenameKin(r, q, node, subst)
  <1> DEFINE Q == In(q)
             F(x) == Instead(node, subst, x)
             B(y) == Instead(subst, node, y)
  <1>1. /\ q \in Trees /\ Family(q) /\ Q \subseteq Cells /\ Sentinel \notin Q
        /\ Null \notin Q /\ Null \notin Cells /\ Sentinel \in Cells
        /\ (\A f \in Sides, x \in Q : q[f][x] \in Q \cup {Sentinel})
        /\ q["left"] = q.left /\ q["right"] = q.right
    BY Lines
  <1>2. /\ subst \in Cells /\ subst # Sentinel /\ subst # node /\ subst # Null
        /\ node \in Nodes /\ "left" \in Sides
    BY <1>1, CellsAssumption DEF Cells, In, Sides
  <1>3. r \in Trees /\ r["left"] = r.left
    <2>1. r \in Trees
      BY DEF Renamed
    <2> QED
      BY <2>1, Fields
  <1>4. \A f \in Sides : q[f][node] # node
    BY <1>1 DEF Family
  <1>5. In(r) = (Q \ {node}) \cup {subst}
    <2>1. ASSUME NEW x \in Nodes PROVE r.left[x] # Null <=> x \in (Q \ {node}) \cup {subst}
      <3>1. x \in Cells /\ (x \in Q <=> q.left[x] # Null)
        BY DEF In, Cells
      <3>2. CASE x = node
        BY <1>2, <3>2 DEF Renamed
      <3>3. CASE x = subst
        <4>1. r.left[subst] = q.left[node]
          BY <1>1, <1>2, <1>3 DEF Renamed
        <4>2. q.left[node] # Null
          BY DEF In
        <4> QED
          BY <3>3, <4>1, <4>2
      <3>4. CASE x # node /\ x # subst
        <4>1. CASE x \in Q
          <5>1. r.left[x] = F(q.left[x])
            BY <1>1, <1>2, <1>3, <3>4, <4>1 DEF Renamed
          <5>2. F(q.left[x]) = Null <=> q.left[x] = Null
            BY <1>1, <1>2 DEF Instead
          <5> QED
            BY <3>1, <3>4, <4>1, <5>1, <5>2
        <4>2. CASE x \notin Q
          BY <3>4, <4>2 DEF Renamed
        <4> QED
          BY <4>1, <4>2
      <3> QED
        BY <3>2, <3>3, <3>4
    <2>2. Q \subseteq Nodes
      BY DEF In
    <2> QED
      BY <2>1, <2>2 DEF In
  <1>6. ASSUME NEW x \in Q \cup {Sentinel}
        PROVE  F(x) \in In(r) \cup {Sentinel} /\ B(F(x)) = x /\ (F(x) = Sentinel <=> x = Sentinel)
    BY <1>1, <1>2, <1>5 DEF Instead
  <1>7. ASSUME NEW y \in In(r) \cup {Sentinel}
        PROVE  /\ B(y) \in Q \cup {Sentinel} /\ F(B(y)) = y /\ (B(y) = Sentinel <=> y = Sentinel)
               /\ Red(r, y) <=> Red(q, B(y))
    <2>1. B(y) \in Q \cup {Sentinel} /\ F(B(y)) = y /\ (B(y) = Sentinel <=> y = Sentinel)
      BY <1>1, <1>2, <1>5 DEF Instead
    <2>2. r.color[y] = q.color[B(y)]
      <3>1. CASE y = subst
        BY <3>1 DEF Renamed, Instead
      <3>2. CASE y # subst
        <4>1. y \in Cells \ {node, subst} /\ B(y) = y
          BY <1>1, <1>5, <3>2 DEF Instead
        <4> QED
          BY <4>1 DEF Renamed
      <3> QED
        BY <3>1, <3>2
    <2> QED
      BY <2>1, <2>2 DEF Red
  <1>8. ASSUME NEW y \in In(r) PROVE B(y) \in Q /\ (y = r.root <=> B(y) = q.root)
    <2>1. B(y) \in Q /\ y # node
      BY <1>1, <1>2, <1>5 DEF Instead
    <2>2. r.root = F(q.root) /\ (q.root \in Q \/ q.root = Sentinel)
      BY OrderedFacts DEF Renamed
    <2> QED
      BY <1>2, <2>1, <2>2 DEF Instead
  <1>9. ASSUME NEW y \in In(r), NEW f \in Sides PROVE r[f][y] = F(q[f][B(y)])
    <2>1. CASE y = subst
      <3>1. r[f][y] = q[f][node] /\ B(y) = node
        BY <2>1 DEF Renamed, Instead
      <3> QED
        BY <1>4, <3>1 DEF Instead
    <2>2. CASE y # subst
      <3>1. y \in Q \ {node} /\ B(y) = y
        BY <1>5, <2>2 DEF Instead
      <3> QED
        BY <3>1 DEF Renamed
    <2> QED
      BY <2>1, <2>2
  <1>10. ASSUME NEW y \in In(r), y # r.root PROVE r.parent[y] = F(q.parent[B(y)])
    <2>1. CASE y = subst
      <3>1. B(y) = node /\ node # q.root
        BY <1>8, <1>10, <2>1 DEF Instead
      <3>2. r.parent[y] = q.parent[node] /\ q.parent[node] # node
        BY <1>1, <2>1, <3>1 DEF Renamed, Family
      <3> QED
        BY <3>1, <3>2 DEF Instead
    <2>2. CASE y # subst
      <3>1. y \in Q /\ y # node /\ B(y) = y
        BY <1>5, <2>2 DEF Instead
      <3>2. y # q.root
        BY <1>8, <1>10, <3>1
      <3> QED
        BY <3>1, <3>2 DEF Renamed
    <2> QED
      BY <2>1, <2>2
  <1> QED
    BY <1>5, <1>6, <1>7, <1>8, <1>9, <1>10 DEF RenameKin

\* The positions of the renamed nodes.
Renumbered(S, pos, node, subst) == [y \in S |-> pos[Instead(subst, node, y)]]

\* The renamed tree is in order.
LEMMA RenameShape ==
  ASSUME NEW q, NEW n, NEW pos, Ordered(q, n, pos), NEW node \in In(q),
         NEW subst \in Nodes, subst \notin In(q), NEW temp, NEW r,
         Renamed(r, q, node, subst, temp)
  PROVE  Ordered(r, n, Renumbered(In(r), pos, node, subst))
  <1> DEFINE Q == In(q)
             R == In(r)
             F(x) == Instead(node, subst, x)
             B(y) == Instead(subst, node, y)
             p2 == Renumbered(R, pos, node, subst)
  <1>1. /\ q \in Trees /\ Family(q) /\ Sentinel \notin Q /\ Null \notin Q
        /\ (\A f \in Sides, x \in Q : q[f][x] \in Q \cup {Sentinel})
        /\ q["left"] = q.left /\ q["right"] = q.right
    BY Lines
  <1>2. RenameKin(r, q, node, subst)
    BY RenameLinks
  <1>3. r \in Trees /\ r["left"] = r.left /\ r["right"] = r.right /\ R \subseteq Nodes
    <2>1. r \in Trees
      BY DEF Renamed
    <2> QED
      BY <2>1, Fields
  <1>4. PICK lo, hi : Shape(q, n, pos, lo, hi)
    BY DEF Ordered
  <1>5. /\ Bounded(Q, n, pos, lo, hi) /\ Numbered(q, n, pos) /\ RootSpan(q, n, lo, hi)
        /\ \A x \in Q : LeftSpan(q, pos, lo, hi, x) /\ RightSpan(q, pos, lo, hi, x)
    BY <1>4 DEF Shape, Spans
  <1> DEFINE l2 == [y \in R |-> lo[B(y)]]
             h2 == [y \in R |-> hi[B(y)]]
  <1>6. /\ \A y \in R : p2[y] = pos[B(y)] /\ l2[y] = lo[B(y)] /\ h2[y] = hi[B(y)]
        /\ p2 = [y \in R |-> p2[y]] /\ l2 = [y \in R |-> l2[y]] /\ h2 = [y \in R |-> h2[y]]
    BY DEF Renumbered
  <1>7. /\ \A x \in Q : F(x) \in R /\ B(F(x)) = x
        /\ \A x \in Q \cup {Sentinel} : /\ F(x) \in R \cup {Sentinel}
                                        /\ F(x) = Sentinel <=> x = Sentinel
        /\ \A y \in R : B(y) \in Q /\ F(B(y)) = y
        /\ Sentinel \notin R
    <2>1. Sentinel \notin R
      BY <1>3, CellsAssumption
    <2>2. \A x \in Q : x # Sentinel /\ x \in Q \cup {Sentinel}
      BY <1>1
    <2>3. \A y \in R : y \in R \cup {Sentinel}
      OBVIOUS
    <2> QED
      BY <1>2, <2>1, <2>2, <2>3 DEF RenameKin
  <1>8. \A y \in R, f \in Sides : r[f][y] = F(q[f][B(y)])
    BY <1>2 DEF RenameKin
  <1>9. \A y \in R : y # r.root => B(y) # q.root /\ r.parent[y] = F(q.parent[B(y)])
    BY <1>2 DEF RenameKin
  <1>10. \A y \in R : y = r.root <=> B(y) = q.root
    BY <1>2 DEF RenameKin
  <1> HIDE DEF p2, l2, h2, F, B, Q, R
  <1>11. Numbered(r, n, p2)
    <2>1. n \in Nat /\ (\A x \in Q : pos[x] \in 1 .. n)
          /\ (\A x, y \in Q : pos[x] = pos[y] => x = y)
          /\ (\A i \in 1 .. n : \E x \in Q : pos[x] = i)
      BY <1>5 DEF Numbered, Q
    <2>2. p2 \in [R -> 1 .. n]
      BY <1>6, <1>7, <2>1
    <2>3. \A x, y \in R : p2[x] = p2[y] => x = y
      <3> SUFFICES ASSUME NEW x \in R, NEW y \in R, p2[x] = p2[y] PROVE x = y
        OBVIOUS
      <3>1. B(x) = B(y)
        BY <1>6, <1>7, <2>1
      <3> QED
        BY <1>7, <3>1
    <2>4. ASSUME NEW i \in 1 .. n PROVE \E y \in R : p2[y] = i
      <3>1. PICK x \in Q : pos[x] = i
        BY <2>1
      <3>2. F(x) \in R /\ p2[F(x)] = i
        BY <1>6, <1>7, <3>1
      <3> QED
        BY <3>2
    <2> QED
      BY <2>1, <2>2, <2>3, <2>4 DEF Numbered, R
  <1>12. Bounded(R, n, p2, l2, h2)
    <2>1. ASSUME NEW y \in R
          PROVE  l2[y] \in 1 .. n /\ h2[y] \in 1 .. n /\ l2[y] <= p2[y] /\ p2[y] <= h2[y]
      <3>1. /\ lo[B(y)] \in 1 .. n /\ hi[B(y)] \in 1 .. n
            /\ lo[B(y)] <= pos[B(y)] /\ pos[B(y)] <= hi[B(y)]
        BY <1>5, <1>7 DEF Bounded
      <3> QED
        BY <1>6, <3>1
    <2> QED
      BY <1>6, <2>1 DEF Bounded
  <1>13. ASSUME NEW y \in R, NEW f \in Sides
         PROVE  /\ q[f][B(y)] = Sentinel => r[f][y] = Sentinel
                /\ q[f][B(y)] # Sentinel => /\ r[f][y] \in R /\ r[f][y] # Sentinel
                                            /\ B(r[f][y]) = q[f][B(y)]
                                            /\ r.parent[r[f][y]] = y
    <2>1. r[f][y] = F(q[f][B(y)]) /\ B(y) \in Q
      BY <1>7, <1>8
    <2>2. CASE q[f][B(y)] = Sentinel
      BY <1>7, <2>1, <2>2
    <2>3. CASE q[f][B(y)] # Sentinel
      <3>1. q[f][B(y)] \in Q /\ q.parent[q[f][B(y)]] = B(y) /\ q[f][B(y)] # q.root
        BY <1>1, <2>1, <2>3 DEF Family, Q
      <3>2. r[f][y] \in R /\ B(r[f][y]) = q[f][B(y)]
        BY <1>7, <2>1, <3>1
      <3>3. r[f][y] # r.root
        BY <1>10, <3>1, <3>2
      <3>4. r.parent[r[f][y]] = F(B(y))
        BY <1>9, <3>1, <3>2, <3>3
      <3> QED
        BY <1>7, <2>3, <3>2, <3>4
    <2> QED
      BY <2>2, <2>3
  <1>14. ASSUME NEW y \in R PROVE LeftSpan(r, p2, l2, h2, y)
    <2>1. /\ q.left[B(y)] = Sentinel => r.left[y] = Sentinel
          /\ q.left[B(y)] # Sentinel => /\ r.left[y] \in R /\ r.left[y] # Sentinel
                                        /\ B(r.left[y]) = q.left[B(y)]
                                        /\ r.parent[r.left[y]] = y
      <3>1. "left" \in Sides
        BY DEF Sides
      <3> QED
        BY <1>1, <1>3, <1>13, <3>1
    <2>2. B(y) \in Q /\ LeftSpan(q, pos, lo, hi, B(y))
      BY <1>5, <1>7
    <2>3. CASE q.left[B(y)] = Sentinel
      BY <1>6, <2>1, <2>2, <2>3 DEF LeftSpan
    <2>4. CASE q.left[B(y)] # Sentinel
      BY <1>6, <2>1, <2>2, <2>4 DEF LeftSpan, R
    <2> QED
      BY <2>3, <2>4
  <1>15. ASSUME NEW y \in R PROVE RightSpan(r, p2, l2, h2, y)
    <2>1. /\ q.right[B(y)] = Sentinel => r.right[y] = Sentinel
          /\ q.right[B(y)] # Sentinel => /\ r.right[y] \in R /\ r.right[y] # Sentinel
                                         /\ B(r.right[y]) = q.right[B(y)]
                                         /\ r.parent[r.right[y]] = y
      <3>1. "right" \in Sides
        BY DEF Sides
      <3> QED
        BY <1>1, <1>3, <1>13, <3>1
    <2>2. B(y) \in Q /\ RightSpan(q, pos, lo, hi, B(y))
      BY <1>5, <1>7
    <2>3. CASE q.right[B(y)] = Sentinel
      BY <1>6, <2>1, <2>2, <2>3 DEF RightSpan
    <2>4. CASE q.right[B(y)] # Sentinel
      BY <1>6, <2>1, <2>2, <2>4 DEF RightSpan, R
    <2> QED
      BY <2>3, <2>4
  <1>16. r.root = F(q.root) /\ q.root \in Q
    <2>1. q.root \in Q
      BY OrderedFacts DEF Q
    <2> QED
      BY <2>1 DEF Renamed, F
  <1>17. RootSpan(r, n, l2, h2)
    <2>1. r.root \in R /\ B(r.root) = q.root /\ r.root # Sentinel /\ q.root # Sentinel
      BY <1>1, <1>7, <1>16 DEF Q
    <2>2. lo[q.root] = 1 /\ hi[q.root] = n
      BY <1>5, <2>1 DEF RootSpan
    <2> QED
      BY <1>6, <2>1, <2>2 DEF RootSpan, R
  <1>18. ASSUME NEW y \in R, y # r.root
         PROVE  /\ r.parent[y] \in R
                /\ y = r.left[r.parent[y]] \/ y = r.right[r.parent[y]]
    <2> DEFINE x == B(y)
               p == q.parent[x]
               side == SideOf(q, x)
    <2>1. x \in Q /\ x # q.root /\ r.parent[y] = F(p) /\ F(x) = y
      BY <1>7, <1>9, <1>18
    <2>2. p \in Q /\ side \in Sides /\ q[side][p] = x
      BY <1>1, <2>1 DEF Family, Q
    <2>3. F(p) \in R /\ B(F(p)) = p
      BY <1>7, <2>2
    <2> HIDE DEF x, p, side
    <2>4. r[side][F(p)] = y
      BY <1>8, <2>1, <2>2, <2>3
    <2> QED
      BY <1>3, <2>1, <2>2, <2>3, <2>4 DEF Sides
  <1>19. Shape(r, n, p2, l2, h2)
    BY <1>3, <1>11, <1>12, <1>14, <1>15, <1>17, <1>18 DEF Shape, Spans, Parents, R
  <1> QED
    BY <1>19 DEF Ordered, p2, R

\* The heights of the renamed nodes; a black may be missing under mp, that is m2 now.
LEMMA RenameHeights ==
  ASSUME NEW q, NEW n, NEW pos, Ordered(q, n, pos), NEW node \in In(q),
         NEW subst \in Nodes, subst \notin In(q), NEW temp, NEW r,
         Renamed(r, q, node, subst, temp),
         NEW b, NEW mp, NEW ms, Heights(q, b, mp, ms), NEW m2,
         \A y \in In(r) : y = m2 <=> Instead(subst, node, y) = mp
  PROVE  \E c : Heights(r, c, m2, ms)
  <1> DEFINE Q == In(q)
             R == In(r)
             F(x) == Instead(node, subst, x)
             B(y) == Instead(subst, node, y)
             c == [y \in R \cup {Sentinel} |-> b[B(y)]]
  <1>1. \A f \in Sides, x \in Q : q[f][x] \in Q \cup {Sentinel}
    BY Lines
  <1>2. /\ \A x \in Q \cup {Sentinel} : F(x) \in R \cup {Sentinel} /\ B(F(x)) = x
        /\ \A y \in R \cup {Sentinel} : /\ B(y) \in Q \cup {Sentinel}
                                        /\ B(y) = Sentinel <=> y = Sentinel
                                        /\ Red(r, y) <=> Red(q, B(y))
        /\ \A y \in R : B(y) \in Q
        /\ \A y \in R, f \in Sides : r[f][y] = F(q[f][B(y)])
    BY RenameLinks DEF RenameKin
  <1>3. /\ \A x \in Q \cup {Sentinel} : b[x] \in Nat \ {0}
        /\ b[Sentinel] = 1
        /\ \A x \in Q, f \in Sides :
             b[x] = One(Black(q, x)) + One(x = mp /\ f = ms) + b[q[f][x]]
    BY DEF Heights, Measured, HeightAt
  <1>4. c \in [R \cup {Sentinel} -> Nat \ {0}] /\ \A y \in R \cup {Sentinel} : c[y] = b[B(y)]
    BY <1>2, <1>3
  <1>5. \A y \in R : y = m2 <=> B(y) = mp
    OBVIOUS
  <1> HIDE DEF c, F, B, Q, R
  <1>6. c[Sentinel] = 1
    BY <1>2, <1>3, <1>4
  <1>7. ASSUME NEW y \in R, NEW f \in Sides
        PROVE  c[y] = One(Black(r, y)) + One(y = m2 /\ f = ms) + c[r[f][y]]
    <2>1. B(y) \in Q /\ r[f][y] = F(q[f][B(y)]) /\ c[y] = b[B(y)]
      BY <1>2, <1>4
    <2>2. c[r[f][y]] = b[q[f][B(y)]]
      <3>1. q[f][B(y)] \in Q \cup {Sentinel}
        BY <1>1, <2>1
      <3>2. r[f][y] \in R \cup {Sentinel} /\ B(r[f][y]) = q[f][B(y)]
        BY <1>2, <2>1, <3>1
      <3> QED
        BY <1>4, <3>2
    <2>3. One(Black(r, y)) = One(Black(q, B(y)))
      BY <1>2 DEF One, Black
    <2>4. One(y = m2 /\ f = ms) = One(B(y) = mp /\ f = ms)
      BY <1>5 DEF One
    <2>5. b[B(y)] = One(Black(q, B(y))) + One(B(y) = mp /\ f = ms) + b[q[f][B(y)]]
      BY <1>3, <2>1
    <2> QED
      BY <2>1, <2>2, <2>3, <2>4, <2>5
  <1> QED
    BY <1>4, <1>6, <1>7 DEF Heights, Measured, HeightAt, R

\* Reds stay apart.
LEMMA RenameReds ==
  ASSUME NEW q, NEW n, NEW pos, Ordered(q, n, pos), NEW node \in In(q),
         NEW subst \in Nodes, subst \notin In(q), NEW temp, NEW r,
         Renamed(r, q, node, subst, temp),
         NEW x, x # node, Reds(q, x, x)
  PROVE  Reds(r, x, x)
  <1> DEFINE F(y) == Instead(node, subst, y)
             B(y) == Instead(subst, node, y)
  <1>1. \A f \in Sides, y \in In(q) : q[f][y] \in In(q) \cup {Sentinel}
    BY Lines
  <1>2. /\ \A y \in In(q) \cup {Sentinel} : F(y) \in In(r) \cup {Sentinel} /\ B(F(y)) = y
        /\ \A y \in In(r) \cup {Sentinel} : Red(r, y) <=> Red(q, B(y))
        /\ \A y \in In(r) : B(y) \in In(q)
        /\ \A y \in In(r), f \in Sides : r[f][y] = F(q[f][B(y)])
    BY RenameLinks DEF RenameKin
  <1>3. \A y : B(y) = x => y = x
    BY DEF Instead
  <1>4. ASSUME NEW y \in In(r), NEW f \in Sides, Red(r, y), Red(r, r[f][y])
        PROVE  r[f][y] = x \/ y = x
    <2>1. B(y) \in In(q) /\ r[f][y] = F(q[f][B(y)]) /\ q[f][B(y)] \in In(q) \cup {Sentinel}
      BY <1>1, <1>2
    <2>2. r[f][y] \in In(r) \cup {Sentinel} /\ B(r[f][y]) = q[f][B(y)]
      BY <1>2, <2>1
    <2>3. Red(q, B(y)) /\ Red(q, q[f][B(y)])
      BY <1>2, <1>4, <2>2
    <2>4. q[f][B(y)] = x \/ B(y) = x
      BY <2>1, <2>3 DEF Reds
    <2> QED
      BY <1>3, <2>2, <2>4
  <1> QED
    BY <1>4 DEF Reds

\* Between the calls: the colors stay with the places.
LEMMA RenameSettled ==
  ASSUME NEW q, NEW n, NEW pos, Ordered(q, n, pos), NEW node \in In(q),
         NEW subst \in Nodes, subst \notin In(q), NEW temp, NEW r,
         Renamed(r, q, node, subst, temp), NEW b, Settled(q, b)
  PROVE  \E c : Settled(r, c)
  <1>1. Null \notin Nodes /\ In(q) \subseteq Nodes /\ In(r) \subseteq Nodes /\ Null # node
    BY CellsAssumption DEF Cells, In
  <1>2. \A y \in In(r) : y = Null <=> Instead(subst, node, y) = Null
    BY <1>1 DEF Instead
  <1>3. Heights(q, b, Null, Null)
    BY DEF Settled
  <1>4. \E c : Heights(r, c, Null, Null)
    BY <1>2, <1>3, RenameHeights
  <1>5. Reds(r, Null, Null)
    <2>1. Reds(q, Null, Null)
      BY DEF Settled
    <2> QED
      BY <1>1, <2>1, RenameReds
  <1>6. Black(r, r.root) /\ Black(r, Sentinel)
    <2>1. /\ \A x \in In(q) \cup {Sentinel} :
               /\ Instead(node, subst, x) \in In(r) \cup {Sentinel}
               /\ Instead(subst, node, Instead(node, subst, x)) = x
               /\ Instead(node, subst, x) = Sentinel <=> x = Sentinel
          /\ \A y \in In(r) \cup {Sentinel} : Red(r, y) <=> Red(q, Instead(subst, node, y))
      BY RenameLinks DEF RenameKin
    <2>2. q.root \in In(q) \cup {Sentinel} /\ r.root = Instead(node, subst, q.root)
      BY OrderedFacts DEF Renamed
    <2>3. Black(q, q.root) /\ Black(q, Sentinel)
      BY DEF Settled
    <2> QED
      BY <2>1, <2>2, <2>3 DEF Black
  <1> QED
    BY <1>4, <1>5, <1>6 DEF Settled

\* At the start of the delete loop: temp is missing a black still.
LEMMA RenameDeleteAt ==
  ASSUME NEW q, NEW n, NEW pos, Ordered(q, n, pos), NEW node \in In(q),
         NEW subst \in Nodes, subst \notin In(q), NEW temp, NEW r,
         Renamed(r, q, node, subst, temp), NEW b, DeleteAt(q, b, temp),
         temp # node, temp # q.root
  PROVE  \E c : DeleteAt(r, c, temp)
  <1> DEFINE F(x) == Instead(node, subst, x)
             B(y) == Instead(subst, node, y)
             p == q.parent[temp]
             side == SideOf(q, temp)
  <1>1. /\ q \in Trees /\ Family(q) /\ Sentinel \notin In(q)
        /\ (\A f \in Sides, x \in In(q) : q[f][x] \in In(q) \cup {Sentinel})
        /\ q["left"] = q.left /\ q["right"] = q.right
    BY Lines
  <1>2. r \in Trees /\ r["left"] = r.left /\ r["right"] = r.right
    <2>1. r \in Trees
      BY DEF Renamed
    <2> QED
      BY <2>1, Fields
  <1>3. /\ temp \in In(q) \cup {Sentinel} /\ Reds(q, temp, temp)
        /\ Black(q, q.root) /\ Black(q, Sentinel) /\ q.root \in In(q)
        /\ p \in In(q) /\ side \in Sides /\ q[side][p] = temp /\ Heights(q, b, p, side)
    BY DEF DeleteAt, Place
  <1>4. /\ \A x \in In(q) \cup {Sentinel} : /\ F(x) \in In(r) \cup {Sentinel} /\ B(F(x)) = x
                                            /\ F(x) = Sentinel <=> x = Sentinel
        /\ \A y \in In(r) \cup {Sentinel} : /\ F(B(y)) = y
                                            /\ Red(r, y) <=> Red(q, B(y))
        /\ \A y \in In(r) : B(y) \in In(q)
        /\ \A y \in In(r), f \in Sides : r[f][y] = F(q[f][B(y)])
    BY RenameLinks DEF RenameKin
  <1>5. F(temp) = temp /\ temp \in In(r) \cup {Sentinel}
    BY <1>3, <1>4 DEF Instead
  <1>6. F(p) \in In(r) /\ B(F(p)) = p
    BY <1>1, <1>3, <1>4
  <1>7. r.parent[temp] = F(p)
    BY <1>3 DEF Renamed
  <1>8. r.root = F(q.root) /\ r.root \in In(r) /\ temp # r.root
    <2>1. r.root = F(q.root) /\ r.root \in In(r)
      BY <1>1, <1>3, <1>4 DEF Renamed
    <2>2. temp # r.root
      BY <1>3, <1>4, <1>5, <2>1
    <2> QED
      BY <2>1, <2>2
  <1> HIDE DEF F, B, p
  <1>9. \A f \in Sides : r[f][F(p)] = temp <=> q[f][p] = temp
    <2> SUFFICES ASSUME NEW f \in Sides PROVE r[f][F(p)] = temp <=> q[f][p] = temp
      OBVIOUS
    <2>1. r[f][F(p)] = F(q[f][p]) /\ q[f][p] \in In(q) \cup {Sentinel}
      BY <1>1, <1>3, <1>4, <1>6
    <2>2. B(F(q[f][p])) = q[f][p] /\ B(F(temp)) = temp
      BY <1>3, <1>4, <2>1
    <2> QED
      BY <1>5, <2>1, <2>2
  <1>10. SideOf(r, temp) = side
    <2>1. r.left[F(p)] = temp <=> q.left[p] = temp
      <3>1. "left" \in Sides
        BY DEF Sides
      <3> QED
        BY <1>1, <1>2, <1>9, <3>1
    <2> QED
      BY <1>7, <2>1 DEF SideOf, p
  <1> HIDE DEF side
  <1>11. Place(r, temp)
    BY <1>3, <1>6, <1>7, <1>9, <1>10 DEF Place
  <1>12. \E c : Heights(r, c, F(p), side)
    <2>1. \A y \in In(r) : y = F(p) <=> Instead(subst, node, y) = p
      BY <1>4, <1>6 DEF B
    <2> QED
      BY <1>3, <2>1, RenameHeights
  <1>13. Reds(r, temp, temp)
    BY <1>3, RenameReds
  <1>14. Black(r, r.root) /\ Black(r, Sentinel)
    BY <1>1, <1>3, <1>4, <1>8 DEF Black
  <1> QED
    BY <1>5, <1>7, <1>8, <1>10, <1>11, <1>12, <1>13, <1>14 DEF DeleteAt

\* The keys stay sorted when the nodes that are left keep their order.
LEMMA FewerSorted ==
  ASSUME NEW t, NEW how, NEW pos, Sorted(t, how, pos), NEW r, In(r) \subseteq In(t),
         \A x \in In(r) : r.key[x] = t.key[x],
         NEW p2, \A x, y \in In(r) : p2[x] < p2[y] => pos[x] < pos[y]
  PROVE  Sorted(r, how, p2)
  BY DEF Sorted

\* Closing up keeps the order.
LEMMA SpliceOrder ==
  ASSUME NEW t, NEW n, NEW pos, Numbered(t, n, pos), NEW m \in In(t),
         NEW S, S = In(t) \ {m}
  PROVE  \A x, y \in S : ClosedUp(S, pos, pos[m])[x] < ClosedUp(S, pos, pos[m])[y]
                            => pos[x] < pos[y]
  <1> DEFINE p2 == ClosedUp(S, pos, pos[m])
  <1>1. \A x \in S : p2[x] = IF pos[x] > pos[m] THEN pos[x] - 1 ELSE pos[x]
    BY DEF ClosedUp
  <1>2. n \in Nat /\ (\A x \in In(t) : pos[x] \in 1 .. n)
        /\ (\A x, y \in In(t) : pos[x] = pos[y] => x = y)
    BY DEF Numbered
  <1> HIDE DEF p2
  <1>3. ASSUME NEW x \in S, NEW y \in S, p2[x] < p2[y] PROVE pos[x] < pos[y]
    <2>1. /\ pos[x] \in 1 .. n /\ pos[y] \in 1 .. n /\ pos[m] \in 1 .. n
          /\ pos[x] # pos[m] /\ pos[y] # pos[m]
      BY <1>2
    <2>2. /\ p2[x] = IF pos[x] > pos[m] THEN pos[x] - 1 ELSE pos[x]
          /\ p2[y] = IF pos[y] > pos[m] THEN pos[y] - 1 ELSE pos[y]
      BY <1>1
    <2> QED
      BY <1>2, <1>3, <2>1, <2>2
  <1> QED
    BY <1>3 DEF p2

\* The node after it takes the place of the one that goes: as if that one were cut out.
LEMMA RenameClosed ==
  ASSUME NEW t, NEW n, NEW pos, Numbered(t, n, pos), NEW node \in In(t), NEW m \in In(t),
         pos[m] = pos[node] + 1, NEW S, S = In(t) \ {m}, NEW R, R = In(t) \ {node},
         NEW p1, p1 = ClosedUp(S, pos, pos[m])
  PROVE  Renumbered(R, p1, node, m) = ClosedUp(R, pos, pos[node])
  <1> DEFINE p2 == Renumbered(R, p1, node, m)
             p3 == ClosedUp(R, pos, pos[node])
  <1>1. n \in Nat /\ (\A x \in In(t) : pos[x] \in 1 .. n)
        /\ (\A x, y \in In(t) : pos[x] = pos[y] => x = y)
    BY DEF Numbered
  <1>2. m # node
    BY <1>1
  <1>3. \A x \in S : p1[x] = IF pos[x] > pos[m] THEN pos[x] - 1 ELSE pos[x]
    BY DEF ClosedUp
  <1>4. /\ \A x \in R : x # m => p2[x] = p1[x]
        /\ m \in R => p2[m] = p1[node]
        /\ p2 = [x \in R |-> p2[x]]
    BY DEF Renumbered, Instead
  <1>5. /\ \A x \in R : p3[x] = IF pos[x] > pos[node] THEN pos[x] - 1 ELSE pos[x]
        /\ p3 = [x \in R |-> p3[x]]
    BY DEF ClosedUp
  <1> HIDE DEF p2, p3
  <1>6. ASSUME NEW x \in R PROVE p2[x] = p3[x]
    <2>1. CASE x = m
      <3>1. p1[node] = IF pos[node] > pos[m] THEN pos[node] - 1 ELSE pos[node]
        BY <1>2, <1>3
      <3>2. pos[m] = pos[node] + 1 /\ pos[node] \in Nat
        BY <1>1
      <3>3. ~ (pos[node] > pos[m]) /\ pos[m] > pos[node] /\ pos[m] - 1 = pos[node]
        BY <3>2
      <3>4. p1[node] = pos[node]
        BY <3>1, <3>3, Zenon
      <3>5. p3[m] = IF pos[m] > pos[node] THEN pos[m] - 1 ELSE pos[m]
        BY <1>5, <2>1
      <3>6. p3[m] = pos[node]
        BY <3>3, <3>5, Zenon
      <3>7. p2[m] = p1[node]
        BY <1>4, <2>1
      <3> QED
        BY <2>1, <3>4, <3>6, <3>7, Zenon
    <2>2. CASE x # m
      <3>1. x \in S /\ pos[x] # pos[m] /\ pos[x] # pos[node] /\ pos[x] \in 1 .. n
            /\ pos[node] \in 1 .. n
        BY <1>1, <2>2
      <3>2. p2[x] = IF pos[x] > pos[m] THEN pos[x] - 1 ELSE pos[x]
        BY <1>3, <1>4, <2>2, <3>1
      <3>3. pos[x] > pos[m] <=> pos[x] > pos[node]
        BY <1>1, <3>1
      <3> QED
        BY <1>5, <3>2, <3>3, Zenon
    <2> QED
      BY <2>1, <2>2
  <1> QED
    BY <1>4, <1>5, <1>6 DEF p2, p3

\* The node that leaves its place has a leaf for a child, and follows node.
SubstKnown(t, pos, node, m, temp) ==
  /\ m \in In(t)
  /\ t.left[m] = Sentinel \/ t.right[m] = Sentinel
  /\ temp \in In(t) \cup {Sentinel} /\ temp # m
  /\ m # node => /\ pos[m] = pos[node] + 1 /\ m # t.root /\ temp # node
                 /\ node # t.root => t.parent[node] # m

\* ngx_rbtree_delete: subst is node, or the first node on the right of it.
LEMMA SubstFacts ==
  ASSUME NEW t, NEW n, NEW pos, Ordered(t, n, pos), NEW node \in In(t),
         NEW m, m = Subst(t, node), NEW temp, temp = Child(t, m)
  PROVE  SubstKnown(t, pos, node, m, temp)
  <1> DEFINE S == In(t)
             c == t.right[node]
  <1>1. /\ t \in Trees /\ Family(t) /\ Sentinel \notin S
        /\ (\A f \in Sides, x \in S : t[f][x] \in S \cup {Sentinel})
        /\ t["left"] = t.left /\ t["right"] = t.right
    BY Lines
  <1>2. PICK lo, hi : Shape(t, n, pos, lo, hi)
    BY DEF Ordered
  <1>3. /\ Bounded(S, n, pos, lo, hi) /\ Numbered(t, n, pos) /\ RootSpan(t, n, lo, hi)
        /\ \A x \in S : LeftSpan(t, pos, lo, hi, x) /\ RightSpan(t, pos, lo, hi, x)
    BY <1>2 DEF Shape, Spans
  <1>4. n \in Nat /\ \A x \in S : lo[x] \in 1 .. n /\ hi[x] \in 1 .. n /\ pos[x] \in 1 .. n
                                  /\ lo[x] <= pos[x] /\ pos[x] <= hi[x]
    BY <1>3 DEF Bounded, Numbered
  <1>5. "left" \in Sides /\ "right" \in Sides
    BY DEF Sides
  <1>6. ASSUME m \in S
        PROVE  temp \in S \cup {Sentinel} /\ temp # m /\ (temp # Sentinel => t.parent[temp] = m)
    <2>1. PICK f \in Sides : temp = t[f][m]
      BY <1>1, <1>5 DEF Child
    <2> QED
      BY <1>1, <1>6, <2>1 DEF Family
  <1>7. CASE Sentinel \in {t.left[node], t.right[node]}
    <2>1. m = node
      BY <1>7 DEF Subst
    <2> QED
      BY <1>6, <1>7, <2>1 DEF SubstKnown
  <1>8. CASE Sentinel \notin {t.left[node], t.right[node]}
    <2>1. c \in S /\ c # Sentinel /\ lo[c] = pos[node] + 1 /\ hi[c] = hi[node]
      BY <1>3, <1>8 DEF RightSpan
    <2>2. m = At(t, pos, lo[c])
      BY <1>2, <1>8, <2>1, MinFirst DEF Subst
    <2>3. lo[c] \in 1 .. n /\ lo[c] <= pos[c] /\ pos[c] <= hi[c] /\ pos[c] \in 1 .. n
      BY <1>4, <2>1
    <2>4. m \in S /\ pos[m] = lo[c]
      BY <1>3, <2>2, <2>3, AtPosition
    <2>5. t.left[m] = Sentinel
      BY <1>2, <2>1, <2>2, SpanEnds
    <2>6. pos[m] = pos[node] + 1 /\ lo[m] = pos[m]
      BY <1>3, <2>1, <2>4, <2>5 DEF LeftSpan
    <2>7. /\ pos[node] \in 1 .. n /\ lo[node] <= pos[node] /\ pos[m] <= hi[node]
          /\ hi[c] \in 1 .. n /\ lo[node] \in 1 .. n
      BY <1>4, <2>1, <2>3, <2>4
    <2>8. m # t.root
      <3>1. ASSUME m = t.root PROVE FALSE
        <4>1. lo[m] = 1
          BY <1>1, <1>3, <2>4, <3>1 DEF RootSpan
        <4> QED
          BY <2>6, <2>7, <4>1
      <3> QED
        BY <3>1
    <2>9. node # t.root => t.parent[node] # m
      <3>1. ASSUME node # t.root, t.parent[node] = m PROVE FALSE
        <4>1. node = t.left[m] \/ node = t.right[m]
          BY <1>2, <3>1 DEF Shape, Parents
        <4>2. node = t.right[m]
          BY <1>1, <2>5, <4>1
        <4>3. lo[node] = pos[m] + 1
          BY <1>1, <1>3, <2>4, <4>2 DEF RightSpan
        <4> QED
          BY <2>6, <2>7, <4>3
      <3> QED
        BY <3>1
    <2>10. temp # node
      <3>1. ASSUME temp = node PROVE FALSE
        <4>1. PICK f \in Sides : temp = t[f][m]
          BY <1>1, <1>5 DEF Child
        <4>2. node # t.root /\ t.parent[node] = m
          BY <1>1, <2>4, <3>1, <4>1 DEF Family
        <4> QED
          BY <2>9, <4>2
      <3> QED
        BY <3>1
    <2> QED
      BY <1>6, <2>4, <2>5, <2>6, <2>8, <2>9, <2>10 DEF SubstKnown
  <1> QED
    BY <1>7, <1>8

\* The fields of the node that is deleted are zero again.
ClearedFields(r, s, node) ==
  /\ r \in Trees /\ r.root = s.root /\ r.left[node] = Null
  /\ \A x \in Nodes : r.key[x] = IF x = node THEN 0 ELSE s.key[x]
  /\ \A x \in Cells : r.color[x] = s.color[x]
  /\ \A f \in Links, x \in Cells : r[f][x] = IF x = node THEN Null ELSE s[f][x]

\* What Cleared does.
LEMMA ClearFields ==
  ASSUME NEW s \in Trees, NEW node \in Nodes
  PROVE  ClearedFields(Cleared(s, node), s, node)
  <1>1. node \in Cells
    BY DEF Cells
  <1> QED
    BY <1>1 DEF Cleared, Trees, ClearedFields, Links

\* m is unlinked, and its fields are zero.
Cut(t, m, temp) ==
  Cleared(Set(Set(t, SideOf(t, m), t.parent[m], temp), "parent", temp, t.parent[m]), m)

\* What t is when temp is linked in the place of m, with up for its parent.
Joined(s, t, m, temp, up) ==
  /\ s \in Trees /\ s.root = t.root /\ s.key = t.key /\ s.color = t.color
  /\ \A f \in Sides, x \in Cells :
       s[f][x] = IF x = t.parent[m] /\ f = SideOf(t, m) THEN temp ELSE t[f][x]
  /\ \A x \in Cells : s.parent[x] = IF x = temp THEN up ELSE t.parent[x]

\* The two links that are set.
LEMMA JoinFields ==
  ASSUME NEW t \in Trees, NEW m, NEW temp \in Cells, t.parent[m] \in Cells,
         SideOf(t, m) \in Sides, NEW up \in Cells
  PROVE  Joined(Set(Set(t, SideOf(t, m), t.parent[m], temp), "parent", temp, up),
                t, m, temp, up)
  <1> DEFINE p == t.parent[m]
             side == SideOf(t, m)
             t1 == Set(t, side, p, temp)
             t2 == Set(t1, "parent", temp, up)
  <1>1. side \in Links /\ "parent" \in Links /\ (\A f \in Sides : f \in Links /\ f # "parent")
        /\ side # "parent"
    BY SideFacts DEF Links, Sides
  <1>2. LinkSet(t1, t, side, p, temp)
    BY <1>1, SetLinks
  <1> HIDE DEF t1
  <1>3. t1 \in Trees
    BY <1>2 DEF LinkSet
  <1>4. LinkSet(t2, t1, "parent", temp, up)
    BY <1>1, <1>3, SetLinks
  <1> HIDE DEF t2, p, side
  <1>5. t2 \in Trees /\ t2["parent"] = t2.parent /\ t["parent"] = t.parent
    <2>1. t2 \in Trees
      BY <1>4 DEF LinkSet
    <2> QED
      BY <2>1, Fields
  <1>6. t2.root = t.root /\ t2.key = t.key /\ t2.color = t.color
    BY <1>2, <1>4 DEF LinkSet
  <1>7. ASSUME NEW f \in Sides, NEW x \in Cells
        PROVE  t2[f][x] = IF x = p /\ f = side THEN temp ELSE t[f][x]
    BY <1>1, <1>2, <1>4 DEF LinkSet
  <1>8. ASSUME NEW x \in Cells
        PROVE  t2.parent[x] = IF x = temp THEN up ELSE t.parent[x]
    <2>1. t2["parent"][x] = IF x = temp THEN up ELSE t["parent"][x]
      BY <1>1, <1>2, <1>4 DEF LinkSet
    <2> QED
      BY <1>5, <2>1
  <1> QED
    BY <1>5, <1>6, <1>7, <1>8 DEF Joined, t2, t1, p, side

\* Cutting m out leaves the tree without it.
LEMMA CutSpliced ==
  ASSUME NEW t, NEW n, NEW pos, Ordered(t, n, pos), NEW m \in In(t), m # t.root,
         NEW temp \in In(t) \cup {Sentinel}, temp # m
  PROVE  /\ Spliced(Cut(t, m, temp), t, m, temp)
         /\ \A x \in Nodes : Cut(t, m, temp).key[x] = IF x = m THEN 0 ELSE t.key[x]
  <1> DEFINE p == t.parent[m]
             s == Set(Set(t, SideOf(t, m), t.parent[m], temp), "parent", temp, t.parent[m])
             q == Cut(t, m, temp)
  <1>1. /\ t \in Trees /\ Family(t) /\ In(t) \subseteq Cells /\ Sentinel \in Cells
        /\ In(t) \subseteq Nodes
    BY Lines DEF In
  <1>2. /\ p \in In(t) /\ p \in Cells /\ p # m /\ SideOf(t, m) \in Sides /\ temp \in Cells
        /\ m \in Nodes /\ m \in Cells
    BY <1>1 DEF Family
  <1>3. Joined(s, t, m, temp, p)
    BY <1>1, <1>2, JoinFields
  <1> HIDE DEF s
  <1>4. s \in Trees
    BY <1>3 DEF Joined
  <1>5. ClearedFields(q, s, m)
    BY <1>2, <1>4, ClearFields DEF Cut, s
  <1> HIDE DEF q, p
  <1>6. q \in Trees /\ q["parent"] = q.parent /\ s["parent"] = s.parent
    <2>1. q \in Trees
      BY <1>5 DEF ClearedFields
    <2> QED
      BY <1>4, <2>1, Fields
  <1>7. \A x \in Cells \ {m} : q.parent[x] = IF x = temp THEN p ELSE t.parent[x]
    <2>1. ASSUME NEW x \in Cells \ {m} PROVE q["parent"][x] = s["parent"][x]
      BY <1>5, SideFacts DEF ClearedFields
    <2> QED
      BY <1>3, <1>6, <2>1 DEF Joined
  <1>8. ASSUME NEW f \in Sides, NEW x \in Cells \ {m}
        PROVE  q[f][x] = IF x = p /\ f = SideOf(t, m) THEN temp ELSE t[f][x]
    <2>1. q[f][x] = s[f][x]
      BY <1>5, SideFacts DEF ClearedFields
    <2> QED
      BY <1>3, <2>1 DEF Joined, p
  <1>9. q.root = t.root /\ \A x \in Cells : q.color[x] = t.color[x]
    BY <1>3, <1>5 DEF Joined, ClearedFields
  <1>10. \A x \in Nodes : q.key[x] = IF x = m THEN 0 ELSE t.key[x]
    BY <1>3, <1>5 DEF Joined, ClearedFields
  <1>11. Spliced(q, t, m, temp)
    <2>1. q.left[m] = Null /\ q.parent[temp] = p
      BY <1>2, <1>5, <1>7 DEF ClearedFields
    <2> QED
      BY <1>6, <1>7, <1>8, <1>9, <2>1 DEF Spliced, p
  <1> QED
    BY <1>10, <1>11 DEF q

\* The root that has a leaf for a child is deleted.
LEMMA RootSpliced ==
  ASSUME NEW t, NEW n, NEW pos, Ordered(t, n, pos), NEW m \in In(t), m = t.root,
         NEW temp \in In(t) \cup {Sentinel}, temp # m,
         NEW q, q = Cleared(Paint([t EXCEPT !.root = temp], temp, "black"), m)
  PROVE  /\ Spliced(q, t, m, temp)
         /\ \A x \in Nodes : q.key[x] = IF x = m THEN 0 ELSE t.key[x]
  <1> DEFINE s == [t EXCEPT !.root = temp]
             u == Paint(s, temp, "black")
  <1>1. /\ t \in Trees /\ Family(t) /\ In(t) \subseteq Cells /\ Sentinel \in Cells
        /\ In(t) \subseteq Nodes /\ temp \in Cells
    BY Lines DEF In
  <1>2. /\ s \in Trees /\ s.root = temp /\ s.key = t.key /\ s.color = t.color
        /\ \A f \in Links : s[f] = t[f]
    BY <1>1 DEF Trees, Links
  <1> HIDE DEF s
  <1>3. Painted(u, s, temp, "black")
    BY <1>1, <1>2, PaintPainted
  <1>4. /\ u \in Trees /\ u.root = temp /\ u.key = t.key
        /\ (\A f \in Links : u[f] = t[f])
        /\ \A x \in Cells : u.color[x] = IF x = temp THEN "black" ELSE t.color[x]
    BY <1>2, <1>3 DEF Painted, SameLinks
  <1>5. ClearedFields(q, u, m)
    BY <1>1, <1>4, ClearFields DEF s
  <1> HIDE DEF u
  <1>6. q \in Trees /\ q["parent"] = q.parent /\ t["parent"] = t.parent
    <2>1. q \in Trees
      BY <1>5 DEF ClearedFields
    <2> QED
      BY <1>1, <2>1, Fields
  <1>7. \A f \in Links, x \in Cells \ {m} : q[f][x] = t[f][x]
    BY <1>4, <1>5 DEF ClearedFields
  <1>8. Spliced(q, t, m, temp)
    <2>1. q.root = temp /\ q.left[m] = Null
      BY <1>4, <1>5 DEF ClearedFields
    <2>2. \A x \in Cells : q.color[x] = IF x = temp THEN "black" ELSE t.color[x]
      BY <1>4, <1>5 DEF ClearedFields
    <2>3. \A x \in Cells \ {m} : q.parent[x] = t.parent[x]
      BY <1>6, <1>7, SideFacts
    <2>4. \A f \in Sides, x \in Cells \ {m} : q[f][x] = t[f][x]
      BY <1>7, SideFacts
    <2> QED
      BY <1>6, <2>1, <2>2, <2>3, <2>4 DEF Spliced
  <1> QED
    BY <1>4, <1>5, <1>8 DEF ClearedFields

\* What is told of subst when it takes the place of node.
Taken(r, s, node, m) ==
  /\ r \in Trees /\ r.key = s.key
  /\ r.root = IF node = s.root THEN m ELSE s.root
  /\ \A x \in Cells : r.color[x] = IF x = m THEN s.color[node] ELSE s.color[x]
  /\ \A f \in Sides, x \in Cells :
       r[f][x] = IF node # s.root /\ x = s.parent[node] /\ f = SideOf(s, node) THEN m
                 ELSE IF x = m THEN s[f][node] ELSE s[f][x]
  /\ \A x \in Cells :
       r.parent[x] = IF x \in {s.left[node], s.right[node]} \ {Sentinel} THEN m
                     ELSE IF x = m THEN s.parent[node] ELSE s.parent[x]

\* What TakePlace does.
LEMMA TakeFields ==
  ASSUME NEW s \in Trees, NEW node \in Nodes, NEW m \in Nodes, m # node,
         node # s.root => /\ s.parent[node] \in Cells /\ s.parent[node] # m
                          /\ SideOf(s, node) \in Sides
  PROVE  Taken(TakePlace(s, node, m), s, node, m)
  <1> DEFINE p == s.parent[node]
             side == SideOf(s, node)
             t1 == [s EXCEPT !.left[m] = s.left[node], !.right[m] = s.right[node],
                             !.parent[m] = s.parent[node], !.color[m] = s.color[node]]
             t2 == Relink(t1, node, m)
             child == {t2.left[m], t2.right[m]} \ {Sentinel}
             r == [t2 EXCEPT !.parent = [x \in Cells |-> IF x \in child THEN m ELSE @[x]]]
  <1>1. node \in Cells /\ m \in Cells
    BY DEF Cells
  <1>2. /\ t1 \in Trees /\ t1.root = s.root /\ t1.key = s.key
        /\ \A x \in Cells : /\ t1.color[x] = IF x = m THEN s.color[node] ELSE s.color[x]
                            /\ t1.left[x] = IF x = m THEN s.left[node] ELSE s.left[x]
                            /\ t1.right[x] = IF x = m THEN s.right[node] ELSE s.right[x]
                            /\ t1.parent[x] = IF x = m THEN s.parent[node] ELSE s.parent[x]
    <2>1. t1 \in Trees
      BY <1>1 DEF Trees
    <2>2. t1.root = s.root /\ t1.key = s.key
      BY DEF Trees
    <2>3. \A x \in Cells : t1.color[x] = IF x = m THEN s.color[node] ELSE s.color[x]
      BY <1>1 DEF Trees
    <2>4. \A x \in Cells : t1.left[x] = IF x = m THEN s.left[node] ELSE s.left[x]
      BY <1>1 DEF Trees
    <2>5. \A x \in Cells : t1.right[x] = IF x = m THEN s.right[node] ELSE s.right[x]
      BY <1>1 DEF Trees
    <2>6. \A x \in Cells : t1.parent[x] = IF x = m THEN s.parent[node] ELSE s.parent[x]
      BY <1>1 DEF Trees
    <2> QED
      BY <2>1, <2>2, <2>3, <2>4, <2>5, <2>6
  <1> HIDE DEF t1
  <1>3. /\ s["left"] = s.left /\ s["right"] = s.right /\ s["parent"] = s.parent
        /\ t1["left"] = t1.left /\ t1["right"] = t1.right /\ t1["parent"] = t1.parent
    BY <1>2, Fields
  <1>4. \A f \in Sides, x \in Cells : t1[f][x] = IF x = m THEN s[f][node] ELSE s[f][x]
    BY <1>2, <1>3 DEF Sides
  <1>5. t1.parent[node] = p /\ (node # s.root => SideOf(t1, node) = side)
    BY <1>1, <1>2 DEF SideOf
  <1>6. /\ t2 \in Trees /\ t2.key = s.key
        /\ t2.root = IF node = s.root THEN m ELSE s.root
        /\ t2.color = t1.color /\ t2.parent = t1.parent
        /\ \A f \in Sides, x \in Cells :
             t2[f][x] = IF node # s.root /\ x = p /\ f = side THEN m
                        ELSE IF x = m THEN s[f][node] ELSE s[f][x]
    <2>1. CASE node = s.root
      <3>1. t2 = [t1 EXCEPT !.root = m]
        BY <1>2, <2>1 DEF Relink
      <3>2. /\ t2 \in Trees /\ t2.key = t1.key /\ t2.root = m
            /\ t2.color = t1.color /\ t2.parent = t1.parent
            /\ \A f \in Sides : t2[f] = t1[f]
        BY <1>1, <1>2, <3>1 DEF Trees, Sides
      <3> HIDE DEF t2
      <3> QED
        BY <1>2, <1>4, <2>1, <3>2
    <2>2. CASE node # s.root
      <3>1. t2 = Set(t1, side, p, m)
        BY <1>2, <1>5, <2>2 DEF Relink
      <3>2. side \in Links /\ side # "parent" /\ "parent" \in Links /\ p \in Cells
            /\ side \in Sides
        BY <2>2, SideFacts
      <3>3. LinkSet(t2, t1, side, p, m)
        BY <1>1, <1>2, <3>1, <3>2, SetLinks
      <3> HIDE DEF t2, side, p
      <3>4. t2 \in Trees /\ t2.root = t1.root /\ t2.key = t1.key /\ t2.color = t1.color
        BY <3>3 DEF LinkSet
      <3>5. t2.parent = t1.parent
        <4>1. \A x \in Cells : t2["parent"][x] = t1["parent"][x]
          BY <3>2, <3>3 DEF LinkSet
        <4>2. t2["parent"] \in [Cells -> Cells \cup {Null}] /\ t2["parent"] = t2.parent
              /\ t1["parent"] \in [Cells -> Cells \cup {Null}]
          BY <1>2, <3>2, <3>4, Fields
        <4>3. t2["parent"] = t1["parent"]
          BY <4>1, <4>2
        <4> QED
          BY <1>3, <4>2, <4>3
      <3>6. ASSUME NEW f \in Sides, NEW x \in Cells
            PROVE  t2[f][x] = IF x = p /\ f = side THEN m
                              ELSE IF x = m THEN s[f][node] ELSE s[f][x]
        <4>1. f \in Links
          BY SideFacts
        <4>2. t2[f][x] = IF f = side /\ x = p THEN m ELSE t1[f][x]
          BY <3>3, <4>1 DEF LinkSet
        <4> QED
          BY <1>4, <4>2
      <3> QED
        BY <1>2, <2>2, <3>4, <3>5, <3>6
    <2> QED
      BY <2>1, <2>2
  <1> HIDE DEF t2, side
  <1>7. t2.left[m] = s.left[node] /\ t2.right[m] = s.right[node]
    <2>1. \A f \in Sides : t2[f][m] = s[f][node]
      BY <1>1, <1>6
    <2>2. t2["left"] = t2.left /\ t2["right"] = t2.right
      BY <1>6, Fields
    <2> QED
      BY <1>3, <2>1, <2>2 DEF Sides
  <1>8. child = {s.left[node], s.right[node]} \ {Sentinel}
    BY <1>7
  <1> HIDE DEF child
  <1>9. /\ r \in Trees /\ r.key = t2.key /\ r.root = t2.root /\ r.color = t2.color
        /\ (\A f \in Sides : r[f] = t2[f])
        /\ \A x \in Cells : r.parent[x] = IF x \in child THEN m ELSE t2.parent[x]
    <2>1. r \in Trees
      BY <1>1, <1>6 DEF Trees
    <2>2. r.key = t2.key /\ r.root = t2.root /\ r.color = t2.color
      BY <1>6 DEF Trees
    <2>3. \A f \in Sides : r[f] = t2[f]
      BY <1>6 DEF Trees, Sides
    <2>4. \A x \in Cells : r.parent[x] = IF x \in child THEN m ELSE t2.parent[x]
      BY <1>6 DEF Trees
    <2> QED
      BY <2>1, <2>2, <2>3, <2>4
  <1>10. TakePlace(s, node, m) = r
    BY DEF TakePlace, t1, t2, child
  <1> HIDE DEF r
  <1>11. Taken(r, s, node, m)
    <2>1. \A x \in Cells : r.parent[x] = IF x \in {s.left[node], s.right[node]} \ {Sentinel}
                                         THEN m
                                         ELSE IF x = m THEN s.parent[node] ELSE s.parent[x]
      BY <1>2, <1>6, <1>8, <1>9
    <2>2. \A f \in Sides, x \in Cells :
            r[f][x] = IF node # s.root /\ x = p /\ f = side THEN m
                      ELSE IF x = m THEN s[f][node] ELSE s[f][x]
      BY <1>6, <1>9
    <2>3. \A x \in Cells : r.color[x] = IF x = m THEN s.color[node] ELSE s.color[x]
      BY <1>2, <1>6, <1>9
    <2>4. r \in Trees /\ r.key = s.key /\ r.root = IF node = s.root THEN m ELSE s.root
      BY <1>6, <1>9
    <2> QED
      BY <2>1, <2>2, <2>3, <2>4 DEF Taken, side
  <1> QED
    BY <1>10, <1>11

\* Taking the place of node renames the nodes of the tree that m is cut out of.
LEMMA TakeRenamed ==
  ASSUME NEW t, NEW n, NEW pos, Ordered(t, n, pos), NEW node \in In(t), NEW m, NEW temp,
         SubstKnown(t, pos, node, m, temp), m # node,
         NEW q, Spliced(q, t, m, temp), In(q) = In(t) \ {m},
         NEW k, NEW p2, Ordered(q, k, p2),
         NEW up, up = IF t.parent[m] = node THEN m ELSE t.parent[m],
         NEW s, Joined(s, t, m, temp, up),
         NEW r, r = Cleared(TakePlace(s, node, m), node)
  PROVE  /\ Renamed(r, q, node, m, temp)
         /\ \A x \in Nodes : r.key[x] = IF x = node THEN 0 ELSE t.key[x]
  <1> DEFINE Q == In(q)
             p == q.parent[node]
             side == SideOf(q, node)
             v == TakePlace(s, node, m)
  <1>1. /\ t \in Trees /\ Family(t) /\ Sentinel \in Cells /\ Null \notin Cells
        /\ t["left"] = t.left /\ t["right"] = t.right
    BY Lines
  <1>2. /\ q \in Trees /\ Family(q) /\ Q \subseteq Cells /\ Sentinel \notin Q
        /\ (\A f \in Sides, x \in Q : q[f][x] \in Q \cup {Sentinel})
        /\ q["left"] = q.left /\ q["right"] = q.right
    BY Lines
  <1>3. /\ m \in In(t) /\ m # t.root /\ temp \in In(t) \cup {Sentinel} /\ temp # m
        /\ temp # node /\ (node # t.root => t.parent[node] # m)
    BY DEF SubstKnown
  <1>4. /\ node \in Nodes /\ m \in Nodes /\ node \in Cells /\ m \in Cells /\ node \in Q
        /\ m # Sentinel /\ temp \in Q \cup {Sentinel} /\ m \notin Q
    BY <1>3, CellsAssumption DEF In, Cells
  <1>5. /\ q.root = t.root /\ q.left[m] = Null
        /\ (\A f \in Sides, x \in Cells \ {m} :
              q[f][x] = IF x = t.parent[m] /\ f = SideOf(t, m) THEN temp ELSE t[f][x])
        /\ (\A x \in Cells \ {m} : x # temp => q.parent[x] = t.parent[x])
        /\ q.parent[temp] = t.parent[m]
        /\ \A x \in Cells \ {m} : q.color[x] = t.color[x]
    BY <1>3 DEF Spliced
  <1>6. /\ s \in Trees /\ s.root = t.root /\ s.key = t.key /\ s.color = t.color
        /\ (\A f \in Sides, x \in Cells \ {m} : s[f][x] = q[f][x])
        /\ (\A x \in Cells \ {m} : x # temp => s.parent[x] = q.parent[x])
        /\ (temp \in Cells => s.parent[temp] = up)
    BY <1>5 DEF Joined
  <1>7. s["left"] = s.left /\ s["right"] = s.right /\ "left" \in Sides /\ "right" \in Sides
    BY <1>6, Fields DEF Sides
  <1>8. s.parent[node] = p
    BY <1>3, <1>4, <1>6
  <1>9. ASSUME node # t.root
        PROVE  p \in Q /\ p \in Cells \ {m} /\ side \in Sides /\ q[side][p] = node
    BY <1>2, <1>4, <1>5, <1>9 DEF Family
  <1>10. node # t.root => SideOf(s, node) = side
    <2>1. ASSUME node # t.root PROVE SideOf(s, node) = side
      <3>1. s.left[p] = q.left[p]
        BY <1>2, <1>6, <1>7, <1>9, <2>1
      <3> QED
        BY <1>8, <3>1 DEF SideOf
    <2> QED
      BY <2>1
  <1>11. Taken(v, s, node, m)
    BY <1>4, <1>6, <1>8, <1>9, <1>10, TakeFields
  <1> HIDE DEF v
  <1>12. v \in Trees
    BY <1>11 DEF Taken
  <1>13. ClearedFields(r, v, node)
    BY <1>4, <1>12, ClearFields DEF v
  <1>14. /\ r \in Trees /\ r["left"] = r.left /\ r["parent"] = r.parent /\ v["parent"] = v.parent
    <2>1. r \in Trees
      BY <1>13 DEF ClearedFields
    <2> QED
      BY <1>12, <2>1, Fields
  <1> HIDE DEF p, side, Q
  <1>15. \A f \in Sides, x \in Cells \ {node} :
           r[f][x] = IF node # t.root /\ x = p /\ f = side THEN m
                     ELSE IF x = m THEN q[f][node] ELSE q[f][x]
    <2> SUFFICES ASSUME NEW f \in Sides, NEW x \in Cells \ {node}
                 PROVE  r[f][x] = IF node # t.root /\ x = p /\ f = side THEN m
                                  ELSE IF x = m THEN q[f][node] ELSE q[f][x]
      OBVIOUS
    <2>1. r[f][x] = v[f][x]
      BY <1>13, SideFacts DEF ClearedFields
    <2>2. v[f][x] = IF node # s.root /\ x = s.parent[node] /\ f = SideOf(s, node) THEN m
                    ELSE IF x = m THEN s[f][node] ELSE s[f][x]
      BY <1>11 DEF Taken
    <2>3. s[f][node] = q[f][node] /\ (x # m => s[f][x] = q[f][x])
      BY <1>4, <1>6
    <2> QED
      BY <1>6, <1>8, <1>10, <2>1, <2>2, <2>3
  <1>16. \A x \in Cells \ {node} :
           r.parent[x] = IF x \in {q.left[node], q.right[node]} \ {Sentinel} THEN m
                         ELSE IF x = m THEN p ELSE s.parent[x]
    <2> SUFFICES ASSUME NEW x \in Cells \ {node}
                 PROVE  r.parent[x] = IF x \in {q.left[node], q.right[node]} \ {Sentinel} THEN m
                                      ELSE IF x = m THEN p ELSE s.parent[x]
      OBVIOUS
    <2>1. r.parent[x] = v.parent[x]
      BY <1>13, <1>14, SideFacts DEF ClearedFields
    <2>2. v.parent[x] = IF x \in {s.left[node], s.right[node]} \ {Sentinel} THEN m
                        ELSE IF x = m THEN s.parent[node] ELSE s.parent[x]
      BY <1>11 DEF Taken
    <2>3. s.left[node] = q.left[node] /\ s.right[node] = q.right[node]
      BY <1>2, <1>4, <1>6, <1>7
    <2> QED
      BY <1>8, <2>1, <2>2, <2>3
  <1>17. r.root = Instead(node, m, q.root) /\ r.left[node] = Null
    BY <1>5, <1>6, <1>11, <1>13 DEF Taken, ClearedFields, Instead
  <1>18. ASSUME NEW f \in Sides, NEW x \in Q \ {node}
         PROVE  r[f][x] = Instead(node, m, q[f][x])
    <2>1. q[f][x] = node <=> (node # t.root /\ x = p /\ f = side)
      <3>1. ASSUME q[f][x] = node PROVE node # t.root /\ x = p /\ f = side
        BY <1>2, <1>4, <1>5, <3>1 DEF Family, p, side, Q
      <3>2. ASSUME node # t.root, x = p, f = side PROVE q[f][x] = node
        BY <1>9, <3>2
      <3> QED
        BY <3>1, <3>2
    <2>2. x # m /\ x \in Cells \ {node}
      BY <1>2, <1>4
    <2>3. r[f][x] = IF node # t.root /\ x = p /\ f = side THEN m ELSE q[f][x]
      BY <1>15, <2>2
    <2> QED
      BY <2>1, <2>3 DEF Instead
  <1>19. ASSUME NEW x \in Nodes \ (Q \cup {m}) PROVE r.left[x] = Null
    <2>1. q.left[x] = Null /\ x \in Cells \ {node} /\ x # m
      BY <1>4, <1>19 DEF In, Q, Cells
    <2>2. ~ (node # t.root /\ x = p)
      BY <1>9, <1>19
    <2>3. r["left"][x] = q["left"][x]
      BY <1>7, <1>15, <2>1, <2>2
    <2> QED
      BY <1>2, <1>14, <2>1, <2>3
  <1>20. ASSUME NEW f \in Sides PROVE r[f][m] = q[f][node]
    <2>1. ~ (node # t.root /\ m = p)
      BY <1>4, <1>9
    <2> QED
      BY <1>4, <1>15, <2>1
  <1>21. ASSUME NEW x \in (Q \cup {temp}) \ {node, q.root}
         PROVE  r.parent[x] = Instead(node, m, q.parent[x])
    <2>1. x \in Cells \ {node} /\ x # m
      BY <1>1, <1>2, <1>4
    <2>2. CASE x \in {q.left[node], q.right[node]} \ {Sentinel}
      <3>1. r.parent[x] = m
        BY <1>16, <2>1, <2>2
      <3>2. PICK f \in Sides : x = q[f][node]
        BY <1>2, <1>7, <2>2
      <3>3. q.parent[x] = node
        BY <1>2, <1>4, <2>2, <3>2 DEF Family, Q
      <3> QED
        BY <3>1, <3>3 DEF Instead
    <2>3. CASE x \notin {q.left[node], q.right[node]} \ {Sentinel}
      <3>1. r.parent[x] = s.parent[x]
        BY <1>16, <2>1, <2>3
      <3>2. CASE x = temp
        <4>1. s.parent[x] = up /\ q.parent[x] = t.parent[m]
          BY <1>5, <1>6, <2>1, <3>2
        <4> QED
          BY <3>1, <4>1 DEF Instead
      <3>3. CASE x # temp
        <4>1. s.parent[x] = q.parent[x] /\ x \in Q /\ x # q.root /\ x # Sentinel
          BY <1>2, <1>6, <1>21, <2>1, <3>3
        <4>2. q.parent[x] # node
          <5>1. ASSUME q.parent[x] = node PROVE FALSE
            <6>1. SideOf(q, x) \in Sides /\ q[SideOf(q, x)][node] = x
              BY <1>2, <4>1, <5>1 DEF Family, Q
            <6> QED
              BY <1>2, <2>3, <4>1, <6>1 DEF Sides
          <5> QED
            BY <5>1
        <4> QED
          BY <3>1, <4>1, <4>2 DEF Instead
      <3> QED
        BY <3>2, <3>3
    <2> QED
      BY <2>2, <2>3
  <1>22. r.parent[m] = q.parent[node]
    <2>1. m \notin {q.left[node], q.right[node]} \ {Sentinel}
      BY <1>2, <1>4, <1>7
    <2>2. m \in Cells \ {node}
      BY <1>4
    <2> QED
      BY <1>16, <2>1, <2>2 DEF p
  <1>23. /\ \A x \in Cells \ {node, m} : r.color[x] = q.color[x]
         /\ r.color[m] = q.color[node]
    <2>1. \A x \in Cells : r.color[x] = IF x = m THEN s.color[node] ELSE s.color[x]
      BY <1>11, <1>13 DEF Taken, ClearedFields
    <2>2. \A x \in Cells \ {m} : s.color[x] = q.color[x]
      BY <1>5, <1>6
    <2> QED
      BY <1>4, <2>1, <2>2
  <1>24. Renamed(r, q, node, m, temp)
    BY <1>14, <1>17, <1>18, <1>19, <1>20, <1>21, <1>22, <1>23 DEF Renamed, Q
  <1>25. \A x \in Nodes : r.key[x] = IF x = node THEN 0 ELSE t.key[x]
    BY <1>6, <1>11, <1>13 DEF Taken, ClearedFields
  <1> QED
    BY <1>24, <1>25

\* The tree without m, whichever color it had.
LEMMA SplicedTree ==
  ASSUME NEW t, NEW n, NEW pos, Ordered(t, n, pos), NEW b, Settled(t, b), NEW m \in In(t),
         t.left[m] = Sentinel \/ t.right[m] = Sentinel,
         NEW temp, temp = Child(t, m), NEW q, Spliced(q, t, m, temp)
  PROVE  /\ In(q) = In(t) \ {m} /\ Ordered(q, n - 1, ClosedUp(In(q), pos, pos[m]))
         /\ m = t.root \/ Red(t, m) => \E c : Settled(q, c)
         /\ m # t.root /\ Black(t, m) => \E c : DeleteAt(q, c, temp)
  <1>1. PICK lo, hi : Shape(t, n, pos, lo, hi)
    BY DEF Ordered
  <1>2. In(q) = In(t) \ {m} /\ Ordered(q, n - 1, ClosedUp(In(q), pos, pos[m]))
    BY <1>1, SpliceShape
  <1>3. ASSUME m = t.root PROVE \E c : Settled(q, c)
    BY <1>2, <1>3, SpliceRoot
  <1>4. ASSUME Red(t, m) PROVE \E c : Settled(q, c)
    BY <1>2, <1>4, SpliceRed
  <1>5. ASSUME m # t.root, Black(t, m) PROVE \E c : DeleteAt(q, c, temp)
    BY <1>2, <1>5, SpliceBlack
  <1> QED
    BY <1>2, <1>3, <1>4, <1>5

\* What is left is sorted.
LEMMA RemovedSorted ==
  ASSUME NEW t, NEW n, NEW pos, Ordered(t, n, pos), NEW how, Sorted(t, how, pos),
         NEW node \in In(t), NEW r, Removed(r, t, n, pos, node)
  PROVE  Sorted(r, how, ClosedUp(In(r), pos, pos[node]))
  <1> DEFINE p2 == ClosedUp(In(r), pos, pos[node])
  <1>1. Numbered(t, n, pos)
    BY OrderedFacts
  <1>2. In(r) = In(t) \ {node} /\ \A x \in In(r) : r.key[x] = t.key[x]
    BY DEF Removed
  <1>3. \A x, y \in In(r) : p2[x] < p2[y] => pos[x] < pos[y]
    BY <1>1, <1>2, SpliceOrder
  <1>4. In(r) \subseteq In(t)
    BY <1>2
  <1> HIDE DEF p2
  <1>5. Sorted(r, how, p2)
    BY <1>2, <1>3, <1>4, FewerSorted
  <1> QED
    BY <1>5 DEF p2


\* A node that has a leaf for a child is deleted.
LEMMA DeleteOuterNode ==
  ASSUME IInv, insert' = insert, NEW n, NEW pos,
         Ordered(tree, n, pos), Sorted(tree, insert, pos),
         NEW node \in Nodes, Delete(node), Subst(tree, node) = node
  PROVE  IInv' /\ Removed(tree', tree, n, pos, node)
  <1> DEFINE temp == Child(tree, node)
  <1>1. Ordered(tree, n, pos) /\ Sorted(tree, insert, pos)
    OBVIOUS
  <1>2. /\ pc = "idle" /\ node \in In(tree) /\ insert \in {"value", "timer"} /\ cur \in Cells
        /\ tree \in Trees
    BY DEF IInv, Delete, InTree
  <1>3. PICK b : Settled(tree, b)
    BY <1>2 DEF IInv, Balanced
  <1>4. SubstKnown(tree, pos, node, node, temp)
    BY <1>1, <1>2, SubstFacts
  <1>5. /\ temp \in In(tree) \cup {Sentinel} /\ temp # node /\ temp = Child(tree, node)
        /\ tree.left[node] = Sentinel \/ tree.right[node] = Sentinel
    BY <1>4 DEF SubstKnown
  <1>6. /\ node = tree.root =>
             /\ tree' = Cleared(Paint([tree EXCEPT !.root = temp], temp, "black"), node)
             /\ pc' = pc /\ cur' = cur
        /\ node # tree.root =>
             /\ tree' = Cut(tree, node, temp)
             /\ Red(tree, node) => pc' = pc /\ cur' = cur
             /\ ~ Red(tree, node) => pc' = "delete" /\ cur' = temp
    BY DEF Delete, Unlinked, Cut
  <1> HIDE DEF temp
  <1>7. /\ Spliced(tree', tree, node, temp)
        /\ \A x \in Nodes : tree'.key[x] = IF x = node THEN 0 ELSE tree.key[x]
    BY <1>1, <1>2, <1>5, <1>6, CutSpliced, RootSpliced
  <1>8. /\ In(tree') = In(tree) \ {node}
        /\ Ordered(tree', n - 1, ClosedUp(In(tree'), pos, pos[node]))
        /\ node = tree.root \/ Red(tree, node) => \E c : Settled(tree', c)
        /\ node # tree.root /\ Black(tree, node) => \E c : DeleteAt(tree', c, temp)
    BY <1>1, <1>2, <1>3, <1>5, <1>7, SplicedTree
  <1>9. Removed(tree', tree, n, pos, node)
    <2>1. \A x \in In(tree') : tree'.key[x] = tree.key[x]
      BY <1>7, <1>8 DEF In
    <2> QED
      BY <1>8, <2>1 DEF Removed
  <1>11. Sorted(tree', insert, ClosedUp(In(tree'), pos, pos[node]))
    BY <1>1, <1>2, <1>9, RemovedSorted
  <1>10. Balanced' /\ pc' \in {"idle", "insert", "delete"} /\ cur' \in Cells
    <2>1. temp \in Cells
      BY <1>5 DEF In, Cells
    <2> QED
      BY <1>2, <1>6, <1>8, <2>1 DEF Balanced, Black
  <1> QED
    BY <1>2, <1>8, <1>9, <1>10, <1>11, InvKept

\* A node with two children is deleted: the next one takes its place.
LEMMA DeleteInnerNode ==
  ASSUME IInv, insert' = insert, NEW n, NEW pos,
         Ordered(tree, n, pos), Sorted(tree, insert, pos),
         NEW node \in Nodes, Delete(node), Subst(tree, node) # node
  PROVE  IInv' /\ Removed(tree', tree, n, pos, node)
  <1> DEFINE m == Subst(tree, node)
             temp == Child(tree, m)
             up == IF tree.parent[m] = node THEN m ELSE tree.parent[m]
             s == Set(Set(tree, SideOf(tree, m), tree.parent[m], temp), "parent", temp, up)
             q == Cut(tree, m, temp)
  <1>1. Ordered(tree, n, pos) /\ Sorted(tree, insert, pos)
    OBVIOUS
  <1>2. /\ pc = "idle" /\ node \in In(tree) /\ insert \in {"value", "timer"} /\ cur \in Cells
        /\ tree \in Trees
    BY DEF IInv, Delete, InTree
  <1>3. PICK b : Settled(tree, b)
    BY <1>2 DEF IInv, Balanced
  <1>4. SubstKnown(tree, pos, node, m, temp)
    BY <1>1, <1>2, SubstFacts
  <1>5. /\ m \in In(tree) /\ m # node /\ m # tree.root /\ pos[m] = pos[node] + 1
        /\ temp \in In(tree) \cup {Sentinel} /\ temp # m /\ temp = Child(tree, m)
        /\ tree.left[m] = Sentinel \/ tree.right[m] = Sentinel
        /\ temp # node
    BY <1>4 DEF SubstKnown
  <1>6. /\ tree' = Cleared(TakePlace(s, node, m), node)
        /\ Red(tree, m) => pc' = pc /\ cur' = cur
        /\ ~ Red(tree, m) => pc' = "delete" /\ cur' = temp
    BY <1>5 DEF Delete, Unlinked
  <1>7. /\ up = IF tree.parent[m] = node THEN m ELSE tree.parent[m]
        /\ Joined(s, tree, m, temp, up)
    <2>1. /\ tree.parent[m] \in Cells /\ SideOf(tree, m) \in Sides
          /\ m \in Cells /\ temp \in Cells
      <3>1. Family(tree) /\ In(tree) \subseteq Cells /\ Sentinel \in Cells
        BY <1>1, Lines
      <3> QED
        BY <1>5, <3>1 DEF Family
    <2>2. up \in Cells
      BY <2>1
    <2> HIDE DEF m, temp, up
    <2>3. Joined(s, tree, m, temp, up)
      BY <1>2, <2>1, <2>2, JoinFields
    <2> QED
      BY <2>3 DEF up
  <1> HIDE DEF m, temp, up, s
  <1>8. Spliced(q, tree, m, temp)
    BY <1>1, <1>5, CutSpliced
  <1> HIDE DEF q
  <1>9. /\ In(q) = In(tree) \ {m}
        /\ Ordered(q, n - 1, ClosedUp(In(q), pos, pos[m]))
        /\ Red(tree, m) => \E c : Settled(q, c)
        /\ Black(tree, m) => \E c : DeleteAt(q, c, temp)
    BY <1>1, <1>3, <1>5, <1>8, SplicedTree
  <1> DEFINE p1 == ClosedUp(In(q), pos, pos[m])
             p2 == Renumbered(In(tree'), p1, node, m)
  <1>10. /\ Renamed(tree', q, node, m, temp)
         /\ \A x \in Nodes : tree'.key[x] = IF x = node THEN 0 ELSE tree.key[x]
    BY <1>1, <1>2, <1>4, <1>5, <1>6, <1>7, <1>8, <1>9, TakeRenamed
  <1>11. node \in In(q) /\ m \in Nodes /\ m \notin In(q)
    BY <1>2, <1>5, <1>9 DEF In
  <1>12. Ordered(q, n - 1, p1) /\ p1 = ClosedUp(In(q), pos, pos[m])
    BY <1>9
  <1>13. In(tree') = In(tree) \ {node}
    <2>1. In(tree') = (In(q) \ {node}) \cup {m}
      BY <1>10, <1>11, <1>12, RenameLinks DEF RenameKin
    <2> QED
      BY <1>5, <1>9, <2>1
  <1> HIDE DEF p1
  <1>14. Ordered(tree', n - 1, p2)
    BY <1>10, <1>11, <1>12, RenameShape
  <1>18. p2 = ClosedUp(In(tree'), pos, pos[node])
    <2>1. Numbered(tree, n, pos)
      BY <1>1, OrderedFacts
    <2> QED
      BY <1>2, <1>5, <1>9, <1>12, <1>13, <2>1, RenameClosed
  <1> HIDE DEF p2
  <1>19. Removed(tree', tree, n, pos, node)
    <2>1. \A x \in In(tree') : tree'.key[x] = tree.key[x]
      BY <1>10, <1>13 DEF In
    <2> QED
      BY <1>13, <1>14, <1>18, <2>1 DEF Removed
  <1>15. Sorted(tree', insert, p2)
    BY <1>1, <1>2, <1>18, <1>19, RemovedSorted
  <1>16. CASE Red(tree, m)
    <2>1. \E c : Settled(tree', c)
      BY <1>9, <1>10, <1>11, <1>12, <1>16, RenameSettled
    <2>2. Balanced'
      BY <1>2, <1>6, <1>16, <2>1 DEF Balanced
    <2> QED
      BY <1>2, <1>6, <1>14, <1>15, <1>16, <1>19, <2>2, InvKept
  <1>17. CASE ~ Red(tree, m)
    <2>1. PICK c : DeleteAt(q, c, temp)
      BY <1>9, <1>17 DEF Black
    <2>2. temp # q.root
      <3>1. q.root = tree.root
        BY <1>5, <1>8 DEF Spliced
      <3>2. temp # tree.root
        <4>1. Family(tree) /\ tree["left"] = tree.left /\ tree["right"] = tree.right
              /\ Sentinel \notin In(tree)
          BY <1>1, Lines
        <4>2. \E f \in Sides : temp = tree[f][m]
          BY <1>5, <4>1 DEF Child, Sides
        <4>3. tree.root \in In(tree)
          BY <1>1, <1>2, OrderedFacts
        <4> QED
          BY <1>5, <4>1, <4>2, <4>3 DEF Family
      <3> QED
        BY <3>1, <3>2
    <2>3. \E d : DeleteAt(tree', d, temp)
      BY <1>5, <1>10, <1>11, <1>12, <2>1, <2>2, RenameDeleteAt
    <2>4. Balanced'
      BY <1>6, <1>17, <2>3 DEF Balanced
    <2>5. temp \in Cells
      BY <1>5 DEF In, Cells
    <2> QED
      BY <1>2, <1>6, <1>14, <1>15, <1>17, <1>19, <2>4, <2>5, InvKept
  <1> QED
    BY <1>16, <1>17

\* What a deletion does to the invariant.
LEMMA DeleteKeeps ==
  ASSUME IInv, insert' = insert, NEW n, NEW pos,
         Ordered(tree, n, pos), Sorted(tree, insert, pos),
         NEW node \in Nodes, Delete(node)
  PROVE  IInv' /\ Removed(tree', tree, n, pos, node)
  <1>1. CASE Subst(tree, node) = node
    BY <1>1, DeleteOuterNode
  <1>2. CASE Subst(tree, node) # node
    BY <1>2, DeleteInnerNode
  <1> QED
    BY <1>1, <1>2

\* IInv is inductive.
THEOREM Invariance == Spec => []IInv
  <1>1. Init => IInv
    BY InitInv
  <1>2. IInv /\ [Next]_vars => IInv'
    <2> SUFFICES ASSUME IInv, [Next]_vars PROVE IInv'
      OBVIOUS
    <2>1. CASE UNCHANGED vars
      <3>1. tree' = tree /\ insert' = insert /\ pc' = pc /\ cur' = cur
        BY <2>1 DEF vars
      <3> QED
        BY <3>1 DEF IInv, Balanced
    <2>2. PICK n, pos : Ordered(tree, n, pos) /\ Sorted(tree, insert, pos)
      BY DEF IInv
    <2>3. CASE InsertRecolor /\ UNCHANGED insert
      BY <2>2, <2>3, InsertTurnsKeep
    <2>4. CASE InsertRotate /\ UNCHANGED insert
      BY <2>2, <2>4, InsertTurnsKeep
    <2>5. CASE InsertDone /\ UNCHANGED insert
      BY <2>2, <2>5, InsertTurnsKeep
    <2>6. CASE DeleteRecolor /\ UNCHANGED insert
      BY <2>2, <2>6, DeleteTurnsKeep
    <2>7. CASE DeleteRotate /\ UNCHANGED insert
      BY <2>2, <2>7, DeleteTurnsKeep
    <2>8. CASE DeleteDone /\ UNCHANGED insert
      BY <2>2, <2>8, DeleteTurnsKeep
    <2>9. ASSUME NEW node \in Nodes, Delete(node), UNCHANGED insert PROVE IInv'
      BY <2>2, <2>9, DeleteKeeps
    <2>10. ASSUME NEW node \in Nodes, NEW k \in Keys, Insert(node, k), UNCHANGED insert
           PROVE  IInv'
      BY <2>2, <2>10, InsertKeeps
    <2> QED
      BY <2>1, <2>3, <2>4, <2>5, <2>6, <2>7, <2>8, <2>9, <2>10 DEF Next, Turn
  <1> QED
    BY <1>1, <1>2, PTL DEF Spec

\* RedBlack, for every set of nodes and of keys and every width: between the calls, and
\* between any two turns of the loops, the tree is what ngx_rbtree.c wants it to be.
THEOREM RedBlackHolds == Spec => []RedBlack
  BY Invariance, InvRedBlack, PTL

\* c is a with e at place s.
Inserted(c, a, n, e, s) ==
  \A i \in 1 .. n + 1 : c[i] = IF i < s THEN a[i] ELSE IF i = s THEN e ELSE a[i - 1]

\* A sequence with e at place s.
LEMMA SeqInserted ==
  ASSUME NEW S, NEW n \in Nat, NEW a \in [1 .. n -> S], NEW e \in S, NEW s \in 1 .. n + 1,
         NEW c \in [1 .. n + 1 -> S],
         Inserted(c, a, n, e, s)
  PROVE  c = SubSeq(a, 1, s - 1) \o <<e>> \o SubSeq(a, s, n)
  <1> DEFINE A == SubSeq(a, 1, s - 1)
             B == <<e>>
             C == SubSeq(a, s, n)
  <1>9. \A i \in 1 .. n + 1 : c[i] = IF i < s THEN a[i] ELSE IF i = s THEN e ELSE a[i - 1]
    BY DEF Inserted
  <1>1. A \in Seq(S) /\ Len(A) = s - 1 /\ \A i \in 1 .. s - 1 : A[i] = a[i]
    <2>1. \A i \in 1 .. s - 1 : a[i] \in S
      OBVIOUS
    <2>2. /\ A \in Seq(S)
          /\ Len(A) = IF 1 <= s - 1 THEN s - 1 - 1 + 1 ELSE 0
          /\ \A i \in 1 .. s - 1 - 1 + 1 : A[i] = a[1 + i - 1]
      BY <2>1, SubSeqProperties
    <2> HIDE DEF A
    <2> QED
      BY <2>2
  <1>2. C \in Seq(S) /\ Len(C) = n - s + 1 /\ \A i \in 1 .. n - s + 1 : C[i] = a[s + i - 1]
    <2>1. \A i \in s .. n : a[i] \in S
      OBVIOUS
    <2>2. /\ C \in Seq(S)
          /\ Len(C) = IF s <= n THEN n - s + 1 ELSE 0
          /\ \A i \in 1 .. n - s + 1 : C[i] = a[s + i - 1]
      BY <2>1, SubSeqProperties
    <2> HIDE DEF C
    <2> QED
      BY <2>2
  <1>3. B \in Seq(S) /\ Len(B) = 1 /\ B[1] = e
    OBVIOUS
  <1> HIDE DEF A, B, C
  <1>4. /\ A \o B \in Seq(S) /\ Len(A \o B) = s
        /\ \A i \in 1 .. s : (A \o B)[i] = IF i < s THEN a[i] ELSE e
    <2>1. /\ A \o B \in Seq(S) /\ Len(A \o B) = Len(A) + Len(B)
          /\ \A i \in 1 .. Len(A) + Len(B) :
               (A \o B)[i] = IF i <= Len(A) THEN A[i] ELSE B[i - Len(A)]
      BY <1>1, <1>3, ConcatProperties
    <2>2. ASSUME NEW i \in 1 .. s PROVE (A \o B)[i] = IF i < s THEN a[i] ELSE e
      <3>1. (A \o B)[i] = IF i <= s - 1 THEN A[i] ELSE B[i - (s - 1)]
        BY <1>1, <1>3, <2>1
      <3>2. CASE i < s
        BY <1>1, <3>1, <3>2
      <3>3. CASE ~ (i < s)
        <4>1. i - (s - 1) = 1 /\ ~ (i <= s - 1)
          BY <3>3
        <4> QED
          BY <1>3, <3>1, <3>3, <4>1
      <3> QED
        BY <3>2, <3>3
    <2> QED
      BY <1>1, <1>3, <2>1, <2>2
  <1> DEFINE D == A \o B
  <1>5. D \in Seq(S) /\ Len(D) = s /\ \A i \in 1 .. s : D[i] = IF i < s THEN a[i] ELSE e
    BY <1>4
  <1> HIDE DEF D
  <1>6. /\ D \o C \in Seq(S) /\ Len(D \o C) = n + 1
        /\ \A i \in 1 .. n + 1 : (D \o C)[i] = c[i]
    <2>1. /\ D \o C \in Seq(S) /\ Len(D \o C) = Len(D) + Len(C)
          /\ \A i \in 1 .. Len(D) + Len(C) :
               (D \o C)[i] = IF i <= Len(D) THEN D[i] ELSE C[i - Len(D)]
      BY <1>2, <1>5, ConcatProperties
    <2>2. Len(D) + Len(C) = n + 1
      BY <1>2, <1>5
    <2>3. ASSUME NEW i \in 1 .. n + 1 PROVE (D \o C)[i] = c[i]
      <3>1. (D \o C)[i] = IF i <= s THEN D[i] ELSE C[i - s]
        BY <1>5, <2>1, <2>2
      <3>2. CASE i <= s
        BY <1>5, <1>9, <3>1, <3>2
      <3>3. CASE ~ (i <= s)
        <4>1. i - s \in 1 .. n - s + 1 /\ s + (i - s) - 1 = i - 1 /\ ~ (i < s) /\ i # s
          BY <3>3
        <4>2. C[i - s] = a[i - 1]
          BY <1>2, <4>1
        <4> QED
          BY <1>9, <3>1, <3>3, <4>1, <4>2
      <3> QED
        BY <3>2, <3>3
    <2> QED
      BY <2>1, <2>2, <2>3
  <1>7. c \in Seq(S) /\ Len(c) = n + 1
    OBVIOUS
  <1>8. c = D \o C
    BY <1>6, <1>7, SeqEqual
  <1> QED
    BY <1>8 DEF A, B, C, D

\* A sequence without what was at place s.
LEMMA SeqRemoved ==
  ASSUME NEW S, NEW n \in Nat, NEW a \in [1 .. n -> S], NEW s \in 1 .. n,
         NEW c \in [1 .. n - 1 -> S],
         \A i \in 1 .. n - 1 : c[i] = IF i < s THEN a[i] ELSE a[i + 1]
  PROVE  c = SubSeq(a, 1, s - 1) \o SubSeq(a, s + 1, n)
  <1> DEFINE A == SubSeq(a, 1, s - 1)
             C == SubSeq(a, s + 1, n)
  <1>1. A \in Seq(S) /\ Len(A) = s - 1 /\ \A i \in 1 .. s - 1 : A[i] = a[i]
    <2>1. \A i \in 1 .. s - 1 : a[i] \in S
      OBVIOUS
    <2>2. /\ A \in Seq(S)
          /\ Len(A) = IF 1 <= s - 1 THEN s - 1 - 1 + 1 ELSE 0
          /\ \A i \in 1 .. s - 1 - 1 + 1 : A[i] = a[1 + i - 1]
      BY <2>1, SubSeqProperties
    <2> HIDE DEF A
    <2> QED
      BY <2>2
  <1>2. C \in Seq(S) /\ Len(C) = n - s /\ \A i \in 1 .. n - s : C[i] = a[s + i]
    <2>1. \A i \in s + 1 .. n : a[i] \in S
      OBVIOUS
    <2>2. /\ C \in Seq(S)
          /\ Len(C) = IF s + 1 <= n THEN n - (s + 1) + 1 ELSE 0
          /\ \A i \in 1 .. n - (s + 1) + 1 : C[i] = a[s + 1 + i - 1]
      BY <2>1, SubSeqProperties
    <2> HIDE DEF C
    <2> QED
      BY <2>2
  <1> HIDE DEF A, C
  <1>3. /\ A \o C \in Seq(S) /\ Len(A \o C) = n - 1
        /\ \A i \in 1 .. n - 1 : (A \o C)[i] = c[i]
    <2>1. /\ A \o C \in Seq(S) /\ Len(A \o C) = Len(A) + Len(C)
          /\ \A i \in 1 .. Len(A) + Len(C) :
               (A \o C)[i] = IF i <= Len(A) THEN A[i] ELSE C[i - Len(A)]
      BY <1>1, <1>2, ConcatProperties
    <2>2. Len(A) + Len(C) = n - 1
      BY <1>1, <1>2
    <2>3. ASSUME NEW i \in 1 .. n - 1 PROVE (A \o C)[i] = c[i]
      <3>1. (A \o C)[i] = IF i <= s - 1 THEN A[i] ELSE C[i - (s - 1)]
        BY <1>1, <2>1, <2>2
      <3>2. CASE i < s
        BY <1>1, <3>1, <3>2
      <3>3. CASE ~ (i < s)
        <4>1. i - (s - 1) \in 1 .. n - s /\ s + (i - (s - 1)) = i + 1 /\ ~ (i <= s - 1)
          BY <3>3
        <4>2. C[i - (s - 1)] = a[i + 1]
          BY <1>2, <4>1
        <4> QED
          BY <3>1, <3>3, <4>1, <4>2
      <3> QED
        BY <3>2, <3>3
    <2> QED
      BY <2>1, <2>2, <2>3
  <1>4. c \in Seq(S) /\ Len(c) = n - 1
    OBVIOUS
  <1>5. c = A \o C
    BY <1>3, <1>4, SeqEqual
  <1> QED
    BY <1>5 DEF A, C

\* What the tree stands for as a queue.
ListOf(t) == [i \in 1 .. Len(Walked(t)) |->
                [node |-> Walked(t)[i], key |-> t.key[Walked(t)[i]]]]

\* The same, by positions.
Item(t, x) == [node |-> x, key |-> t.key[x]]
Items(t, n, pos) == [i \in 1 .. n |-> Item(t, At(t, pos, i))]

\* The nodes as a queue.
LEMMA ListItems ==
  ASSUME NEW t, NEW n, NEW pos, Ordered(t, n, pos)
  PROVE  /\ ListOf(t) = Items(t, n, pos) /\ Len(Items(t, n, pos)) = n
         /\ Items(t, n, pos) \in [1 .. n -> {Item(t, x) : x \in In(t)}]
         /\ {Items(t, n, pos)[i].node : i \in 1 .. n} = In(t)
  <1>1. PICK lo, hi : Shape(t, n, pos, lo, hi)
    BY DEF Ordered
  <1>2. Numbered(t, n, pos)
    BY OrderedFacts
  <1>3. Walked(t) = Line(t, n, pos)
    BY <1>1, WalkedLine
  <1>4. /\ n \in Nat /\ Len(Walked(t)) = n
        /\ \A i \in 1 .. n : Walked(t)[i] = At(t, pos, i)
    BY <1>2, <1>3, LineLength
  <1>5. ListOf(t) = Items(t, n, pos)
    BY <1>4 DEF ListOf, Items, Item
  <1>6. /\ \A i \in 1 .. n : At(t, pos, i) \in In(t) /\ pos[At(t, pos, i)] = i
        /\ \A x \in In(t) : At(t, pos, pos[x]) = x /\ pos[x] \in 1 .. n
    BY <1>2, AtPosition
  <1>7. \A i \in 1 .. n : Items(t, n, pos)[i] = Item(t, At(t, pos, i))
    BY DEF Items
  <1>8. Items(t, n, pos) \in [1 .. n -> {Item(t, x) : x \in In(t)}]
    BY <1>6 DEF Items
  <1>9. Len(Items(t, n, pos)) = n
    BY <1>4 DEF Items
  <1>10. {Items(t, n, pos)[i].node : i \in 1 .. n} = In(t)
    <2>1. ASSUME NEW i \in 1 .. n PROVE Items(t, n, pos)[i].node = At(t, pos, i)
      <3>1. ASSUME NEW x PROVE Item(t, x).node = x
        BY DEF Item
      <3> QED
        BY <1>7, <3>1
    <2>2. \A x \in In(t) : \E i \in 1 .. n : Items(t, n, pos)[i].node = x
      BY <1>6, <2>1
    <2> QED
      BY <1>6, <2>1, <2>2
  <1> QED
    BY <1>5, <1>8, <1>9, <1>10

\* Turns of the loops do not show in the queue.
LEMMA ItemsUnmoved ==
  ASSUME NEW t, NEW n, NEW pos, NEW r, Unmoved(r, t, n, pos)
  PROVE  Items(r, n, pos) = Items(t, n, pos)
  BY DEF Unmoved, Items, Item, At

\* c is the queue a, of n items, with node and k in place s.
QueuePut(c, a, n, node, k, s) ==
  c = SubSeq(a, 1, s - 1) \o <<[node |-> node, key |-> k]>> \o SubSeq(a, s, n)

\* An insertion, in the queue.
LEMMA ItemsPlaced ==
  ASSUME NEW t, NEW n, NEW pos, Ordered(t, n, pos), NEW node, node \notin In(t), NEW k, NEW r,
         NEW s \in 1 .. n + 1, PlacedAt(r, t, n, pos, node, k, s)
  PROVE  QueuePut(Items(r, n + 1, MadeRoom(In(t), pos, node, s)), Items(t, n, pos),
                  n, node, k, s)
  <1> DEFINE p2 == MadeRoom(In(t), pos, node, s)
             a == Items(t, n, pos)
             c == Items(r, n + 1, p2)
             e == [node |-> node, key |-> k]
             S == {Item(t, x) : x \in In(t)} \cup {Item(r, x) : x \in In(r)}
  <1>1. p2[node] = s /\ \A x \in In(t) : p2[x] = IF pos[x] >= s THEN pos[x] + 1 ELSE pos[x]
    BY DEF MadeRoom
  <1>2. /\ n \in Nat /\ a \in [1 .. n -> S]
        /\ \A i \in 1 .. n : At(t, pos, i) \in In(t) /\ pos[At(t, pos, i)] = i
        /\ \A i \in 1 .. n : a[i] = Item(t, At(t, pos, i))
    <2>1. Numbered(t, n, pos)
      BY OrderedFacts
    <2>2. n \in Nat
      BY <2>1 DEF Numbered
    <2>3. \A i \in 1 .. n : At(t, pos, i) \in In(t) /\ pos[At(t, pos, i)] = i
      BY <2>1, AtPosition
    <2>4. \A i \in 1 .. n : a[i] = Item(t, At(t, pos, i))
      BY DEF Items
    <2>5. a \in [1 .. n -> S]
      BY <2>3 DEF Items
    <2> QED
      BY <2>2, <2>3, <2>4, <2>5
  <1> HIDE DEF p2
  <1>9. /\ In(r) = In(t) \cup {node} /\ Ordered(r, n + 1, p2)
        /\ \A x \in In(r) : r.key[x] = IF x = node THEN k ELSE t.key[x]
    BY DEF PlacedAt, p2
  <1>3. Numbered(r, n + 1, p2)
    BY <1>9, OrderedFacts
  <1>4. /\ \A i \in 1 .. n + 1 : At(r, p2, i) \in In(r) /\ p2[At(r, p2, i)] = i
        /\ \A x \in In(r) : At(r, p2, p2[x]) = x
    BY <1>3, AtPosition
  <1>5. /\ c \in [1 .. n + 1 -> S]
        /\ \A i \in 1 .. n + 1 : c[i] = Item(r, At(r, p2, i))
    BY <1>4 DEF Items
  <1>6. Item(r, node) = e /\ e \in S /\ \A x \in In(t) : Item(r, x) = Item(t, x)
    BY <1>9 DEF Item
  <1> HIDE DEF a, c, e, S
  <1>7. ASSUME NEW i \in 1 .. n + 1
        PROVE  c[i] = IF i < s THEN a[i] ELSE IF i = s THEN e ELSE a[i - 1]
    <2>1. CASE i < s
      <3> DEFINE x == At(t, pos, i)
      <3>1. i \in 1 .. n
        BY <1>2, <2>1
      <3>2. x \in In(t) /\ pos[x] = i /\ a[i] = Item(t, x)
        BY <1>2, <3>1
      <3> HIDE DEF x
      <3>3. p2[x] = i
        BY <1>1, <2>1, <3>2
      <3>4. At(r, p2, i) = x
        BY <1>4, <1>9, <3>2, <3>3
      <3> QED
        BY <1>5, <1>6, <2>1, <3>2, <3>4
    <2>2. CASE i = s
      <3>1. At(r, p2, i) = node
        BY <1>1, <1>4, <1>9, <2>2
      <3> QED
        BY <1>5, <1>6, <2>2, <3>1
    <2>3. CASE i > s
      <3> DEFINE x == At(t, pos, i - 1)
      <3>1. i - 1 \in 1 .. n /\ i - 1 >= s /\ i - 1 + 1 = i
        BY <1>2, <2>3
      <3>2. x \in In(t) /\ pos[x] = i - 1 /\ a[i - 1] = Item(t, x)
        BY <1>2, <3>1
      <3> HIDE DEF x
      <3>3. p2[x] = i
        BY <1>1, <3>1, <3>2
      <3>4. At(r, p2, i) = x
        BY <1>4, <1>9, <3>2, <3>3
      <3>5. ~ (i < s) /\ i # s
        BY <2>3
      <3> QED
        BY <1>5, <1>6, <3>2, <3>4, <3>5
    <2> QED
      BY <2>1, <2>2, <2>3
  <1>8. c = SubSeq(a, 1, s - 1) \o <<e>> \o SubSeq(a, s, n)
    <2>1. /\ n \in Nat /\ a \in [1 .. n -> S] /\ e \in S /\ s \in 1 .. n + 1
          /\ c \in [1 .. n + 1 -> S]
          /\ Inserted(c, a, n, e, s)
      BY <1>2, <1>5, <1>6, <1>7 DEF Inserted
    <2> QED
      BY ONLY <2>1, SeqInserted
  <1> QED
    BY <1>8 DEF a, c, e, p2, QueuePut

\* A deletion, in the queue.
LEMMA ItemsRemoved ==
  ASSUME NEW t, NEW n, NEW pos, Ordered(t, n, pos), NEW node \in In(t), NEW r,
         Removed(r, t, n, pos, node)
  PROVE  Items(r, n - 1, ClosedUp(In(r), pos, pos[node]))
           = SubSeq(Items(t, n, pos), 1, pos[node] - 1)
                \o SubSeq(Items(t, n, pos), pos[node] + 1, n)
  <1> DEFINE p2 == ClosedUp(In(r), pos, pos[node])
             s == pos[node]
             a == Items(t, n, pos)
             c == Items(r, n - 1, p2)
             S == {Item(t, x) : x \in In(t)} \cup {Item(r, x) : x \in In(r)}
  <1>1. /\ In(r) = In(t) \ {node} /\ \A x \in In(r) : r.key[x] = t.key[x]
        /\ \A x \in In(r) : p2[x] = IF pos[x] > s THEN pos[x] - 1 ELSE pos[x]
    BY DEF Removed, ClosedUp
  <1>2. /\ n \in Nat /\ a \in [1 .. n -> S] /\ s \in 1 .. n
        /\ \A i \in 1 .. n : At(t, pos, i) \in In(t) /\ pos[At(t, pos, i)] = i
        /\ \A i \in 1 .. n : a[i] = Item(t, At(t, pos, i))
    <2>1. Numbered(t, n, pos)
      BY OrderedFacts
    <2>2. n \in Nat /\ s \in 1 .. n
      BY <2>1 DEF Numbered
    <2>3. \A i \in 1 .. n : At(t, pos, i) \in In(t) /\ pos[At(t, pos, i)] = i
      BY <2>1, AtPosition
    <2>4. \A i \in 1 .. n : a[i] = Item(t, At(t, pos, i))
      BY DEF Items
    <2>5. a \in [1 .. n -> S]
      BY <2>3 DEF Items
    <2> QED
      BY <2>2, <2>3, <2>4, <2>5
  <1> HIDE DEF p2
  <1>3. Numbered(r, n - 1, p2)
    BY OrderedFacts DEF Removed, p2
  <1>4. /\ \A i \in 1 .. n - 1 : At(r, p2, i) \in In(r) /\ p2[At(r, p2, i)] = i
        /\ \A x \in In(r) : At(r, p2, p2[x]) = x
    BY <1>3, AtPosition
  <1>5. /\ c \in [1 .. n - 1 -> S]
        /\ \A i \in 1 .. n - 1 : c[i] = Item(r, At(r, p2, i))
    BY <1>4 DEF Items
  <1>6. \A x \in In(r) : Item(r, x) = Item(t, x)
    BY <1>1 DEF Item
  <1> HIDE DEF a, c, S, s
  <1>7. ASSUME NEW i \in 1 .. n - 1 PROVE c[i] = IF i < s THEN a[i] ELSE a[i + 1]
    <2>1. CASE i < s
      <3> DEFINE x == At(t, pos, i)
      <3>1. i \in 1 .. n
        BY <1>2
      <3>2. x \in In(t) /\ pos[x] = i /\ a[i] = Item(t, x)
        BY <1>2, <3>1
      <3> HIDE DEF x
      <3>3. x \in In(r)
        BY <1>1, <1>2, <2>1, <3>2 DEF s
      <3>4. p2[x] = i
        BY <1>1, <1>2, <2>1, <3>2, <3>3
      <3>5. At(r, p2, i) = x
        BY <1>4, <3>3, <3>4
      <3> QED
        BY <1>5, <1>6, <2>1, <3>2, <3>3, <3>5
    <2>2. CASE ~ (i < s)
      <3> DEFINE x == At(t, pos, i + 1)
      <3>1. i + 1 \in 1 .. n /\ i + 1 > s /\ i + 1 - 1 = i
        BY <1>2, <2>2
      <3>2. x \in In(t) /\ pos[x] = i + 1 /\ a[i + 1] = Item(t, x)
        BY <1>2, <3>1
      <3> HIDE DEF x
      <3>3. x \in In(r)
        BY <1>1, <1>2, <3>1, <3>2 DEF s
      <3>4. p2[x] = i
        BY <1>1, <3>1, <3>2, <3>3
      <3>5. At(r, p2, i) = x
        BY <1>4, <3>3, <3>4
      <3> QED
        BY <1>5, <1>6, <2>2, <3>2, <3>3, <3>5
    <2> QED
      BY <2>1, <2>2
  <1>8. c = SubSeq(a, 1, s - 1) \o SubSeq(a, s + 1, n)
    BY <1>2, <1>5, <1>7, SeqRemoved
  <1> QED
    BY <1>8 DEF a, c, s, p2

\* What the tree stands for, as the refinement reads it.
Listed == [i \in 1 .. Len(InOrder) |-> [node |-> InOrder[i], key |-> tree.key[InOrder[i]]]]

\* It is the list of the tree, before and after a step.
LEMMA ListedList == Listed = ListOf(tree) /\ Listed' = ListOf(tree')
  <1>1. InOrder = Walked(tree)
    BY DEF InOrder, InTree, Walked
  <1>2. InOrder' = Walked(tree')
    BY DEF InOrder, InTree, Walked, In
  <1> QED
    BY <1>1, <1>2 DEF Listed, ListOf

\* An insertion into the tree is one into the queue.
LEMMA InsertListed ==
  ASSUME IInv, insert' = insert, NEW n, NEW pos,
         Ordered(tree, n, pos), Sorted(tree, insert, pos),
         NEW node \in Nodes, NEW k \in Keys, Insert(node, k)
  PROVE  Queue!Insert(node, k)
  <1>1. node \notin In(tree)
    BY DEF Insert, InTree
  <1>2. PICK s \in 1 .. n + 1 :
          /\ PlacedAt(tree', tree, n, pos, node, k, s)
          /\ \A y \in In(tree) : Earlier(insert, k, tree.key[y]) <=> s <= pos[y]
    BY InsertKeeps DEF Placed
  <1> DEFINE a == Items(tree, n, pos)
  <1>3. Listed = a /\ Len(a) = n /\ {a[i].node : i \in 1 .. n} = In(tree)
    BY ListedList, ListItems
  <1>4. Listed' = SubSeq(a, 1, s - 1) \o <<[node |-> node, key |-> k]>> \o SubSeq(a, s, n)
    <2>1. Listed' = Items(tree', n + 1, MadeRoom(In(tree), pos, node, s))
      BY <1>2, ListedList, ListItems DEF PlacedAt
    <2>2. QueuePut(Items(tree', n + 1, MadeRoom(In(tree), pos, node, s)), Items(tree, n, pos),
                   n, node, k, s)
      BY <1>1, <1>2, ItemsPlaced
    <2> QED
      BY <2>1, <2>2 DEF QueuePut
  <1>5. /\ n \in Nat
        /\ \A i \in 1 .. n : Earlier(insert, k, a[i].key) <=> s <= i
    <2>1. Numbered(tree, n, pos)
      BY OrderedFacts
    <2>2. \A i \in 1 .. n : At(tree, pos, i) \in In(tree) /\ pos[At(tree, pos, i)] = i
      BY <2>1, AtPosition
    <2>3. ASSUME NEW i \in 1 .. n PROVE a[i].key = tree.key[At(tree, pos, i)]
      <3>1. ASSUME NEW x PROVE Item(tree, x).key = tree.key[x]
        BY DEF Item
      <3>2. a[i] = Item(tree, At(tree, pos, i))
        BY DEF Items
      <3> QED
        BY <3>1, <3>2
    <2>4. n \in Nat
      BY <2>1 DEF Numbered
    <2> HIDE DEF a
    <2> QED
      BY <1>2, <2>2, <2>3, <2>4
  <1> HIDE DEF a
  <1> DEFINE later == {i \in 1 .. n : Earlier(insert, k, a[i].key)}
             at == IF later = {} THEN n + 1 ELSE CHOOSE i \in later : \A j \in later : i <= j
  <1>6. later = s .. n
    BY <1>2, <1>5
  <1>7. at = s
    <2>1. CASE s = n + 1
      <3>1. later = {}
        BY <1>5, <1>6, <2>1
      <3> QED
        BY <2>1, <3>1
    <2>2. CASE s # n + 1
      <3>1. s \in later /\ \A j \in later : s <= j
        BY <1>2, <1>5, <1>6, <2>2
      <3>2. \A i \in later : (\A j \in later : i <= j) => i = s
        BY <1>5, <1>6, <3>1
      <3>3. later # {}
        BY <3>1
      <3> HIDE DEF later
      <3> QED
        BY <3>1, <3>2, <3>3
    <2> QED
      BY <2>1, <2>2
  <1>8. node \notin Queue!Held
    BY <1>1, <1>3 DEF Queue!Held, Listed
  <1> HIDE DEF at, later
  <1>9. Listed' = SubSeq(a, 1, at - 1) \o <<[node |-> node, key |-> k]>> \o SubSeq(a, at, n)
    BY <1>4, <1>7
  <1>10. LET lat == {i \in 1 .. Len(Listed) : Earlier(insert, k, Listed[i].key)}
             t == IF lat = {} THEN Len(Listed) + 1
                  ELSE CHOOSE i \in lat : \A j \in lat : i <= j
         IN Listed' = SubSeq(Listed, 1, t - 1) \o <<[node |-> node, key |-> k]>>
                         \o SubSeq(Listed, t, Len(Listed))
    BY <1>3, <1>9 DEF at, later
  <1> QED
    BY <1>8, <1>10 DEF Queue!Insert, Listed

\* A deletion from the tree is one from the queue.
LEMMA DeleteListed ==
  ASSUME IInv, insert' = insert, NEW n, NEW pos,
         Ordered(tree, n, pos), Sorted(tree, insert, pos),
         NEW node \in Nodes, Delete(node)
  PROVE  Queue!Delete(node)
  <1>1. node \in In(tree)
    BY DEF Delete, InTree
  <1>2. Removed(tree', tree, n, pos, node)
    BY DeleteKeeps
  <1> DEFINE a == Items(tree, n, pos)
  <1>3. Listed = a /\ Len(a) = n
    BY ListedList, ListItems
  <1>4. Listed' = SubSeq(a, 1, pos[node] - 1) \o SubSeq(a, pos[node] + 1, n)
    <2>1. Ordered(tree', n - 1, ClosedUp(In(tree'), pos, pos[node]))
      BY <1>2 DEF Removed
    <2>2. Listed' = Items(tree', n - 1, ClosedUp(In(tree'), pos, pos[node]))
      BY <2>1, ListedList, ListItems
    <2> QED
      BY <1>1, <1>2, <2>2, ItemsRemoved
  <1>5. pos[node] \in 1 .. n /\ a[pos[node]].node = node
    <2>1. Numbered(tree, n, pos)
      BY OrderedFacts
    <2>2. At(tree, pos, pos[node]) = node /\ pos[node] \in 1 .. n
      BY <1>1, <2>1, AtPosition
    <2>3. a[pos[node]] = Item(tree, node)
      BY <2>2 DEF Items
    <2> QED
      BY <2>2, <2>3 DEF Item
  <1> HIDE DEF a
  <1>6. \E i \in 1 .. Len(Listed) :
          /\ Listed[i].node = node
          /\ Listed' = SubSeq(Listed, 1, i - 1) \o SubSeq(Listed, i + 1, Len(Listed))
    BY <1>3, <1>4, <1>5
  <1> QED
    BY <1>6 DEF Queue!Delete, Listed

\* A turn of a loop does not touch the queue.
LEMMA UnmovedListed ==
  ASSUME NEW n, NEW pos, Ordered(tree, n, pos), Unmoved(tree', tree, n, pos)
  PROVE  Listed' = Listed
  <1>1. Ordered(tree', n, pos)
    BY DEF Unmoved
  <1> QED
    BY <1>1, ListedList, ListItems, ItemsUnmoved

\* The empty tree is the empty queue.
LEMMA InitListed == Init => Queue!Init
  <1> SUFFICES ASSUME Init PROVE Queue!Init
    OBVIOUS
  <1>1. IInv
    BY InitInv
  <1>2. PICK n, pos : Ordered(tree, n, pos)
    BY <1>1 DEF IInv
  <1>3. In(tree) = {}
    BY CellsAssumption DEF Init, In, Cells
  <1>4. n = 0
    <2>1. n \in Nat /\ pos \in [In(tree) -> 1 .. n] /\ \A i \in 1 .. n : \E x \in In(tree) : pos[x] = i
      BY <1>2, OrderedFacts DEF Numbered
    <2> QED
      BY <1>3, <2>1
  <1>5. Listed = Items(tree, 0, pos) /\ Len(Items(tree, 0, pos)) = 0
    BY <1>2, <1>4, ListedList, ListItems
  <1>6. Items(tree, 0, pos) = <<>>
    <2>1. Items(tree, 0, pos) \in Seq({Item(tree, x) : x \in In(tree)})
      BY <1>2, <1>4, ListItems
    <2> QED
      BY <1>5, <2>1, EmptySeq
  <1>7. insert \in {"value", "timer"}
    BY DEF Init
  <1> QED
    BY <1>5, <1>6, <1>7 DEF Queue!Init, Listed

\* ngx_rbtree_insert and ngx_rbtree_delete insert into and delete from a queue in which
\* the nodes are in the order of their keys, and no turn of a loop changes it.
THEOREM QueueImplemented == Spec => ImplementsQueue
  <1>1. Init => Queue!Init
    BY InitListed
  <1>2. IInv /\ [Next]_vars => [Queue!Next]_<<insert, Listed>>
    <2> SUFFICES ASSUME IInv, [Next]_vars
                 PROVE  Queue!Next \/ UNCHANGED <<insert, Listed>>
      OBVIOUS
    <2>1. PICK n, pos : Ordered(tree, n, pos) /\ Sorted(tree, insert, pos)
      BY DEF IInv
    <2>2. CASE UNCHANGED vars
      <3>1. tree' = tree /\ insert' = insert
        BY <2>2 DEF vars
      <3> QED
        BY <3>1, ListedList
    <2>3. CASE Turn /\ UNCHANGED insert
      <3>1. Unmoved(tree', tree, n, pos)
        BY <2>1, <2>3, InsertTurnsKeep, DeleteTurnsKeep DEF Turn
      <3> QED
        BY <2>1, <2>3, <3>1, UnmovedListed
    <2>4. ASSUME NEW node \in Nodes, Delete(node), UNCHANGED insert PROVE Queue!Next
      <3>1. Queue!Delete(node)
        BY <2>1, <2>4, DeleteListed
      <3> QED
        BY <2>4, <3>1 DEF Queue!Next
    <2>5. ASSUME NEW node \in Nodes, NEW k \in Keys, Insert(node, k), UNCHANGED insert
          PROVE  Queue!Next
      <3>1. Queue!Insert(node, k)
        BY <2>1, <2>5, InsertListed
      <3> QED
        BY <2>5, <3>1 DEF Queue!Next
    <2> QED
      BY <2>2, <2>3, <2>4, <2>5 DEF Next
  <1> QED
    BY <1>1, <1>2, Invariance, PTL DEF Spec, ImplementsQueue, Queue!Spec, Listed

\* Depths count the links to the root.
DepthKnown(t) ==
  /\ \A x \in In(t) : Depth(t, x) \in Nat
  /\ t.root \in In(t) => Depth(t, t.root) = 0
  /\ \A x \in In(t) \ {t.root} : Depth(t, x) = 1 + Depth(t, t.parent[x])
  /\ t.parent[Sentinel] \in In(t) => Depth(t, Sentinel) = 1 + Depth(t, t.parent[Sentinel])

\* Each node but the root is under its parent.
LEMMA ParentAbove ==
  ASSUME NEW t, NEW n, NEW pos, NEW lo, NEW hi, Shape(t, n, pos, lo, hi),
         NEW m, m = [x \in In(t) |-> n - (hi[x] - lo[x])]
  PROVE  /\ m \in [In(t) -> Nat]
         /\ \A x \in In(t) \ {t.root} : t.parent[x] \in In(t) /\ m[t.parent[x]] < m[x]
  <1>1. /\ Bounded(In(t), n, pos, lo, hi) /\ Numbered(t, n, pos) /\ Sentinel \notin In(t)
        /\ \A x \in In(t) : LeftSpan(t, pos, lo, hi, x) /\ RightSpan(t, pos, lo, hi, x)
    BY CellsAssumption DEF Shape, Spans, In
  <1>2. n \in Nat /\ \A x \in In(t) : lo[x] \in 1 .. n /\ hi[x] \in 1 .. n /\ pos[x] \in 1 .. n
                                      /\ lo[x] <= pos[x] /\ pos[x] <= hi[x]
    BY <1>1 DEF Bounded, Numbered
  <1>3. m \in [In(t) -> Nat]
    <2>1. \A x \in In(t) : n - (hi[x] - lo[x]) \in Nat
      BY <1>2
    <2> QED
      BY <2>1
  <1>4. ASSUME NEW x \in In(t), x # t.root
        PROVE  t.parent[x] \in In(t) /\ m[t.parent[x]] < m[x]
    <2> DEFINE p == t.parent[x]
    <2>1. p \in In(t) /\ \E s \in Sides : t[s][p] = x
      <3>1. Family(t)
        BY ShapeFamily
      <3> QED
        BY <1>4, <3>1 DEF Family
    <2> HIDE DEF p
    <2>2. x # Sentinel
      BY <1>1
    <2>3. \/ lo[x] = lo[p] /\ hi[x] = pos[p] - 1
          \/ lo[x] = pos[p] + 1 /\ hi[x] = hi[p]
      BY <1>1, <2>1, <2>2 DEF LeftSpan, RightSpan, Sides
    <2>4. hi[x] - lo[x] < hi[p] - lo[p]
      BY <1>2, <2>1, <2>3
    <2>5. m[p] = n - (hi[p] - lo[p]) /\ m[x] = n - (hi[x] - lo[x])
      BY <2>1
    <2>6. m[p] < m[x]
      BY <1>2, <2>1, <2>4, <2>5
    <2> QED
      BY <2>1, <2>6 DEF p
  <1> QED
    BY <1>3, <1>4

\* The depth of every node.
LEMMA DepthFacts ==
  ASSUME NEW t, NEW n, NEW pos, Ordered(t, n, pos)
  PROVE  DepthKnown(t)
  <1> DEFINE S == In(t)
             pairs == S \X Nat
             stop == <<Null, 0>>
             next == [v \in pairs |-> IF v[1] = t.root THEN stop
                                      ELSE <<t.parent[v[1]], v[2] + 1>>]
             val == [v \in pairs |-> v[2]]
             depth == CHOOSE f : f = [y \in S |-> IF y = t.root THEN 0
                                                  ELSE 1 + f[t.parent[y]]]
  <1>1. PICK lo, hi : Shape(t, n, pos, lo, hi)
    BY DEF Ordered
  <1> DEFINE m == [x \in S |-> n - (hi[x] - lo[x])]
  <1>2. /\ m \in [S -> Nat]
        /\ \A x \in S \ {t.root} : t.parent[x] \in S /\ m[t.parent[x]] < m[x]
    BY <1>1, ParentAbove
  <1>3. Null \notin S /\ Sentinel \notin S
    BY Lines
  <1>4. stop \notin pairs /\ next \in [pairs -> pairs \cup {stop}]
    <2>1. stop \notin pairs
      BY <1>3
    <2>2. ASSUME NEW v \in pairs
          PROVE  (IF v[1] = t.root THEN stop ELSE <<t.parent[v[1]], v[2] + 1>>)
                    \in pairs \cup {stop}
      <3>1. v[1] \in S /\ v[2] \in Nat
        BY <2>2
      <3>2. CASE v[1] = t.root
        BY <3>2
      <3>3. CASE v[1] # t.root
        <4>1. t.parent[v[1]] \in S /\ v[2] + 1 \in Nat
          <5>1. v[2] + 1 \in Nat
            BY <3>1
          <5>2. v[1] \in S \ {t.root}
            BY <3>1, <3>3
          <5> HIDE DEF S
          <5>3. t.parent[v[1]] \in S
            BY <1>2, <5>2
          <5> QED
            BY <5>1, <5>3
        <4>2. <<t.parent[v[1]], v[2] + 1>> \in pairs
          BY <4>1
        <4> HIDE DEF pairs, stop
        <4> QED
          BY <3>3, <4>2
      <3> QED
        BY <3>2, <3>3
    <2> QED
      BY <2>1, <2>2
  <1>5. PICK c : Follows(c, pairs, stop, next, val)
    <2> HIDE DEF pairs, stop, next, val
    <2> QED
      BY <1>4, Chain
  <1>6. \A x \in S, i \in Nat : c[<<x, i>>] = IF x = t.root THEN i ELSE c[<<t.parent[x], i + 1>>]
    <2>1. ASSUME NEW x \in S, NEW i \in Nat
          PROVE  c[<<x, i>>] = IF x = t.root THEN i ELSE c[<<t.parent[x], i + 1>>]
      <3> DEFINE v == <<x, i>>
      <3>1. v \in pairs /\ v[1] = x /\ v[2] = i
        OBVIOUS
      <3>2. c[v] = IF next[v] = stop THEN val[v] ELSE c[next[v]]
        <4> HIDE DEF v, next, stop, val
        <4> QED
          BY <1>5, <3>1 DEF Follows
      <3>3. val[v] = i
        BY <3>1
      <3>4. CASE x = t.root
        <4>1. next[v] = stop
          BY <3>1, <3>4
        <4> HIDE DEF next, stop, val
        <4> QED
          BY <3>2, <3>3, <3>4, <4>1
      <3>5. CASE x # t.root
        <4>1. next[v] = <<t.parent[x], i + 1>>
          BY <3>1, <3>5
        <4>2. next[v] # stop
          BY <1>2, <1>3, <3>5, <4>1
        <4> HIDE DEF next, stop, val
        <4> QED
          BY <3>2, <3>5, <4>1, <4>2
      <3> QED
        BY <3>4, <3>5
    <2> QED
      BY <2>1
  <1> HIDE DEF pairs, stop, next, val
  <1> DEFINE P == {x \in S : \A i \in Nat : c[<<x, i>>] \in Nat /\ c[<<x, i + 1>>] = 1 + c[<<x, i>>]}
  <1>7. ASSUME NEW x \in S, \A y \in S : m[y] < m[x] => y \in P PROVE x \in P
    <2> SUFFICES ASSUME NEW i \in Nat
                 PROVE  c[<<x, i>>] \in Nat /\ c[<<x, i + 1>>] = 1 + c[<<x, i>>]
      OBVIOUS
    <2>1. CASE x = t.root
      <3>1. c[<<x, i>>] = i
        BY <1>6, <2>1
      <3>2. i + 1 \in Nat
        OBVIOUS
      <3>3. c[<<x, i + 1>>] = i + 1
        BY <1>6, <2>1, <3>2
      <3> QED
        BY <3>1, <3>3
    <2>2. CASE x # t.root
      <3>1. t.parent[x] \in P
        <4> HIDE DEF P, m
        <4> QED
          BY <1>2, <1>7, <2>2
      <3>2. c[<<x, i>>] = c[<<t.parent[x], i + 1>>] /\ c[<<x, i + 1>>] = c[<<t.parent[x], i + 1 + 1>>]
        BY <1>6, <2>2
      <3>3. c[<<t.parent[x], i + 1>>] \in Nat
            /\ c[<<t.parent[x], i + 1 + 1>>] = 1 + c[<<t.parent[x], i + 1>>]
        BY <3>1
      <3> QED
        BY <3>2, <3>3
    <2> QED
      BY <2>1, <2>2
  <1>8. S \subseteq P
    <2> HIDE DEF m, S, P
    <2> QED
      BY <1>2, <1>7, Induct
  <1>9. \E f : f = [y \in S |-> IF y = t.root THEN 0 ELSE 1 + f[t.parent[y]]]
    <2> DEFINE f == [y \in S |-> c[<<y, 0>>]]
    <2>1. ASSUME NEW y \in S PROVE f[y] = IF y = t.root THEN 0 ELSE 1 + f[t.parent[y]]
      <3>1. CASE y = t.root
        BY <1>6, <3>1
      <3>2. CASE y # t.root
        <4>1. t.parent[y] \in S /\ t.parent[y] \in P
          BY <1>2, <1>8, <3>2
        <4>2. c[<<y, 0>>] = c[<<t.parent[y], 0 + 1>>]
          BY <1>6, <3>2
        <4>3. c[<<t.parent[y], 0 + 1>>] = 1 + c[<<t.parent[y], 0>>]
          BY <4>1
        <4> QED
          BY <3>2, <4>1, <4>2, <4>3
      <3> QED
        BY <3>1, <3>2
    <2>2. f = [y \in S |-> f[y]]
      OBVIOUS
    <2> HIDE DEF f
    <2>3. f = [y \in S |-> IF y = t.root THEN 0 ELSE 1 + f[t.parent[y]]]
      BY <2>1, <2>2
    <2> QED
      BY <2>3
  <1>10. depth = [y \in S |-> IF y = t.root THEN 0 ELSE 1 + depth[t.parent[y]]]
    BY <1>9
  <1>11. \A x : Depth(t, x) = IF x \in S THEN depth[x] ELSE 1 + depth[t.parent[x]]
    BY DEF Depth
  <1> HIDE DEF depth, P
  <1>12. \A y \in S : depth[y] = IF y = t.root THEN 0 ELSE 1 + depth[t.parent[y]]
    BY <1>10
  <1> DEFINE Q == {x \in S : depth[x] \in Nat}
  <1>13. ASSUME NEW x \in S, \A y \in S : m[y] < m[x] => y \in Q PROVE x \in Q
    <2>1. CASE x = t.root
      BY <1>12, <2>1
    <2>2. CASE x # t.root
      <3>1. t.parent[x] \in Q
        <4> HIDE DEF Q, m
        <4> QED
          BY <1>2, <1>13, <2>2
      <3> QED
        BY <1>12, <2>2, <3>1
    <2> QED
      BY <2>1, <2>2
  <1>14. S \subseteq Q
    <2> HIDE DEF m, S, Q
    <2> QED
      BY <1>2, <1>13, Induct
  <1> QED
    BY <1>2, <1>3, <1>11, <1>12, <1>14 DEF DepthKnown

\* Colors have no part in the depth.
LEMMA SameDepth ==
  ASSUME NEW r, NEW t, SameLinks(r, t)
  PROVE  \A x : Depth(r, x) = Depth(t, x)
  <1>1. r.root = t.root /\ r.parent = t.parent /\ r.left = t.left
    BY DEF SameLinks
  <1>2. In(r) = In(t)
    BY <1>1 DEF In
  <1> QED
    BY <1>1, <1>2 DEF Depth

\* A turn of the insert loop.
LEMMA InsertClimbs ==
  ASSUME IInv, InsertRecolor \/ InsertRotate
  PROVE  Depth(tree', cur') < Depth(tree, cur) \/ ~ RedParent'
  <1>1. PICK n, pos : Ordered(tree, n, pos)
    BY DEF IInv
  <1>2. pc = "insert" /\ cur # tree.root /\ Red(tree, tree.parent[cur])
    BY DEF InsertRecolor, InsertRotate, RedParent
  <1>3. PICK b : InsertAt(tree, b, cur)
    BY <1>2 DEF IInv, Balanced
  <1> DEFINE p == tree.parent[cur]
             g == tree.parent[p]
             side == SideOf(tree, p)
             o == Opposite(side)
             u == tree[o][g]
  <1>4. Kin(tree, cur, p, g, side, o, u)
    BY DEF Kin
  <1>5. CASE InsertRecolor
    <2>1. Red(tree, u) /\ tree' = Recolored(tree, p, u, g) /\ cur' = g
      BY <1>5 DEF InsertRecolor
    <2>2. KinFacts(tree, cur, p, g, side, o, u)
      BY <1>1, <1>2, <1>3, <1>4, InsertFamily
    <2>3. SameLinks(tree', tree)
      <3> HIDE DEF p, g, side, o, u
      <3> QED
        BY <1>1, <1>2, <1>3, <1>4, <2>1, InsertRecolored DEF p
    <2>4. Depth(tree', g) = Depth(tree, g)
      BY <2>3, SameDepth
    <2>5. /\ cur \in In(tree) /\ p \in In(tree) /\ g \in In(tree) /\ p # tree.root
      BY <1>3, <2>2 DEF InsertAt, KinFacts
    <2>6. /\ Depth(tree, cur) = 1 + Depth(tree, p) /\ Depth(tree, p) = 1 + Depth(tree, g)
          /\ Depth(tree, g) \in Nat
      BY <1>1, <1>2, <2>5, DepthFacts DEF DepthKnown
    <2>7. Depth(tree', cur') = Depth(tree, g)
      BY <2>1, <2>4
    <2> QED
      BY <2>6, <2>7
  <1>6. CASE InsertRotate
    <2> DEFINE y == IF cur = tree[o][p] THEN p ELSE cur
    <2>1. /\ Black(tree, u) /\ cur' = y
          /\ tree' = InsertRotated(IF cur = tree[o][p] THEN Rotate(tree, p, side) ELSE tree,
                                   y, side)
      BY <1>6 DEF InsertRotate
    <2>2. y = IF cur = tree[o][p] THEN p ELSE cur
      OBVIOUS
    <2>3. Red(tree, tree.parent[cur])
      BY <1>2
    <2> HIDE DEF p, g, side, o, u, y
    <2>4. Black(tree', tree'.parent[y])
      BY <1>1, <1>2, <1>3, <1>4, <2>1, <2>2, <2>3, InsertTurn
    <2> QED
      BY <2>1, <2>4 DEF RedParent, Black, Red
  <1> QED
    BY <1>5, <1>6

\* A turn of the delete loop.
LEMMA DeleteClimbsUp ==
  ASSUME IInv, DeleteRecolor \/ DeleteRotate
  PROVE  Depth(tree', cur') < Depth(tree, cur) \/ ~ LacksBlack'
  <1>1. PICK n, pos : Ordered(tree, n, pos)
    BY DEF IInv
  <1>2. pc = "delete" /\ cur # tree.root /\ Black(tree, cur)
    BY DEF DeleteRecolor, DeleteRotate, LacksBlack
  <1>3. PICK b : DeleteAt(tree, b, cur)
    BY <1>2 DEF IInv, Balanced
  <1>4. CASE DeleteRotate
    <2>1. cur' = tree'.root
      BY <1>4 DEF DeleteRotate
    <2> QED
      BY <2>1 DEF LacksBlack
  <1>5. CASE DeleteRecolor
    <2> DEFINE side == SideOf(tree, cur)
               s == BlackSibling(tree, cur, side)
               w == Sibling(s, cur, side)
    <2>1. /\ Black(s, s.left[w]) /\ Black(s, s.right[w])
          /\ tree' = Paint(s, w, "red") /\ cur' = s.parent[cur]
      BY <1>5 DEF DeleteRecolor
    <2>2. side = SideOf(tree, cur) /\ s = BlackSibling(tree, cur, side) /\ w = Sibling(s, cur, side)
      OBVIOUS
    <2> HIDE DEF side, s, w
    <2>3. (s = tree /\ SameLinks(tree', tree)) \/ Red(tree', s.parent[cur])
      BY <1>1, <1>2, <1>3, <2>1, <2>2, DeleteRecolored
    <2>4. CASE Red(tree', s.parent[cur])
      BY <2>1, <2>4 DEF LacksBlack, Black, Red
    <2>5. CASE s = tree /\ SameLinks(tree', tree)
      <3>1. tree.parent[cur] \in In(tree) /\ cur \in In(tree) \cup {Sentinel}
        BY <1>2, <1>3 DEF DeleteAt, Place
      <3>2. /\ Depth(tree, cur) = 1 + Depth(tree, tree.parent[cur])
            /\ Depth(tree, tree.parent[cur]) \in Nat
        BY <1>1, <1>2, <3>1, DepthFacts DEF DepthKnown
      <3>3. Depth(tree', cur') = Depth(tree, tree.parent[cur])
        BY <2>1, <2>5, SameDepth
      <3> QED
        BY <3>2, <3>3
    <2> QED
      BY <2>3, <2>4, <2>5
  <1> QED
    BY <1>4, <1>5

\* The loops of ngx_rbtree_insert and ngx_rbtree_delete end: each turn takes node or temp nearer
\* to the root, or it is the last.
THEOREM LoopsClimbHolds == Spec => LoopsClimb
  <1>1. IInv /\ [Next]_vars =>
          [/\ pc = "insert" /\ pc' = "insert" =>
                 Depth(tree', cur') < Depth(tree, cur) \/ ~ RedParent'
           /\ pc = "delete" /\ pc' = "delete" =>
                 Depth(tree', cur') < Depth(tree, cur) \/ ~ LacksBlack']_vars
    <2> SUFFICES ASSUME IInv, Next
                 PROVE  /\ (pc = "insert" /\ pc' = "insert" =>
                              Depth(tree', cur') < Depth(tree, cur) \/ ~ RedParent')
                        /\ (pc = "delete" /\ pc' = "delete" =>
                              Depth(tree', cur') < Depth(tree, cur) \/ ~ LacksBlack')
      OBVIOUS
    <2>1. ASSUME pc = "insert", pc' = "insert" PROVE InsertRecolor \/ InsertRotate
      BY <2>1 DEF Next, Turn, InsertDone, DeleteRecolor, DeleteRotate, DeleteDone, Insert, Delete
    <2>2. ASSUME pc = "delete", pc' = "delete" PROVE DeleteRecolor \/ DeleteRotate
      BY <2>2 DEF Next, Turn, InsertDone, InsertRecolor, InsertRotate, DeleteDone, Insert, Delete
    <2> QED
      BY <2>1, <2>2, InsertClimbs, DeleteClimbsUp
  <1> QED
    BY <1>1, Invariance, PTL DEF Spec, LoopsClimb

=============================================================================
