----------------------------- MODULE AlgorithmsProofs ---------------------------
(***************************************************************************)
(* The red-black tree of rbtree.c, for any keys, and glob_match1, for any  *)
(* patterns and strings.                                                   *)
(*                                                                         *)
(* A tree of rbtree.c is drawn as one of ngx_rbtree.c: what the functions  *)
(* of the one do to a tree, those of the other do to its drawing.  So the  *)
(* lemmas about ngx_rbtree.c speak of rbtree.c as well.                    *)
(***************************************************************************)
EXTENDS MCAlgorithms, FiniteSetTheorems, SequenceTheorems, WellFoundedInduction, TLAPS

\* Not a node, and not NULL.
Out == CHOOSE v : v \notin Keys \cup {Null}

\* The links of a tree, whatever the nodes.
Sides == {"left", "right"}
Fields == {"left", "right", "parent"}
Trees == [root : Keys \cup {Null}, left : Links, right : Links, parent : Links,
          color : [Keys -> {"red", "black"}]]

\* The tree of the nodes in S as one of ngx_rbtree, where NULL is a node of its own:
\* its parent is p.  The fields of the other nodes have no part in it.
Drawn(t, S, p) ==
  [root |-> t.root, key |-> [x \in Keys |-> 0],
   left |-> [x \in Keys \cup {Null} |-> IF x \in S THEN t.left[x] ELSE Out],
   right |-> [x \in Keys \cup {Null} |-> IF x \in S THEN t.right[x] ELSE Out],
   parent |-> [x \in Keys \cup {Null} |-> IF x \in S THEN t.parent[x]
                                           ELSE IF x = Null THEN p ELSE Out],
   color |-> [x \in Keys \cup {Null} |-> IF x \in S THEN t.color[x] ELSE "black"]]

\* The tree of ngx_rbtree.c, and what is proved of it.
Ngx == INSTANCE NgxRbtreeProofs
         WITH Nodes <- Keys, Sentinel <- Null, Null <- Out, Width <- 1, Keys <- {0},
              tree <- Drawn(tree, InTree, up), insert <- "value"

\* There is such a value.
LEMMA OutFacts == Out \notin Keys /\ Out # Null
  <1>1. \E v : v \notin Keys \cup {Null}
    BY NoSetContainsEverything
  <1> QED
    BY <1>1 DEF Out

\* ngx_rbtree with keys for nodes and one key is what its proofs are about.
LEMMA NgxOk == Ngx!CellsAssumption /\ Ngx!KeysAssumption
  <1>1. Ngx!CellsAssumption
    BY OutFacts, KeysAssumption DEF Ngx!CellsAssumption, Ngx!Cells
  <1>2. 2 ^ 1 = 2
    OBVIOUS
  <1>3. Ngx!KeysAssumption
    BY <1>2 DEF Ngx!KeysAssumption, Ngx!KeyMod
  <1> QED
    BY <1>1, <1>3

\* What the drawing says.
LEMMA DrawnFacts ==
  ASSUME NEW t \in Trees, NEW S \in SUBSET Keys, NEW p \in Keys \cup {Null}
  PROVE  /\ Drawn(t, S, p) \in Ngx!Trees /\ Ngx!In(Drawn(t, S, p)) = S
         /\ Drawn(t, S, p).root = t.root
         /\ \A f \in Fields, x \in S : Drawn(t, S, p)[f][x] = t[f][x]
         /\ \A f \in Sides, x \in (Keys \cup {Null}) \ S : Drawn(t, S, p)[f][x] = Out
         /\ Drawn(t, S, p).parent[Null] = p
         /\ \A x \in S \cup {Null} : Red(t, x) <=> Ngx!Red(Drawn(t, S, p), x)
  <1> DEFINE d == Drawn(t, S, p)
  <1>1. d \in Ngx!Trees
    BY OutFacts DEF Drawn, Ngx!Trees, Ngx!Cells, Trees, Links
  <1>2. Ngx!In(d) = S
    BY OutFacts DEF Drawn, Ngx!In, Trees, Links
  <1>3. Null \notin S
    BY KeysAssumption
  <1> QED
    BY <1>1, <1>2, <1>3 DEF Drawn, Trees, Links, Sides, Fields, Red, Ngx!Red

\* r is t with v in one link of x, and so are their drawings.
FieldSet(r, t, S, p, f, x, v) ==
  /\ r \in Trees /\ Drawn(r, S, p) = Ngx!Set(Drawn(t, S, p), f, x, v) /\ r.root = t.root
  /\ \A g \in Fields, y \in Keys : r[g][y] = IF g = f /\ y = x THEN v ELSE t[g][y]
  /\ r.color = t.color

\* Setting a link of a node sets it in the drawing.
LEMMA SetDrawn ==
  ASSUME NEW t \in Trees, NEW S \in SUBSET Keys, NEW p \in Keys \cup {Null},
         NEW f \in Fields, NEW x \in S, NEW v \in Keys \cup {Null}
  PROVE  FieldSet(Set(t, f, x, v), t, S, p, f, x, v)
  <1> DEFINE d == Drawn(t, S, p)
  <1>0. d \in Ngx!Trees
    BY DrawnFacts
  <1>1. CASE f = "left"
    <2> DEFINE r == Set(t, f, x, v)
               e == Ngx!Set(d, f, x, v)
    <2>1. /\ r \in Trees /\ r.root = t.root /\ r.color = t.color /\ r.right = t.right
          /\ r.parent = t.parent /\ r.left = [t.left EXCEPT ![x] = v]
      BY <1>1 DEF Trees, Links, Set
    <2>2. /\ e \in Ngx!Trees /\ e.root = d.root /\ e.key = d.key /\ e.color = d.color
          /\ e.right = d.right /\ e.parent = d.parent /\ e.left = [d.left EXCEPT ![x] = v]
      BY <1>1, <1>0 DEF Ngx!Trees, Ngx!Cells, Ngx!Set
    <2> DEFINE k == Drawn(r, S, p)
    <2>3. k \in Ngx!Trees /\ k.root = e.root /\ k.key = e.key /\ k.color = e.color
          /\ k.right = e.right /\ k.parent = e.parent
      <3>1. k \in Ngx!Trees
        BY <2>1, DrawnFacts
      <3> HIDE DEF r, e
      <3> QED
        BY <2>1, <2>2, <3>1 DEF Drawn
    <2>4. k.left = e.left
      <3> DEFINE C == Keys \cup {Null}
      <3>1. \A y \in C : k.left[y] = IF y \in S THEN r.left[y] ELSE Out
        BY DEF Drawn
      <3>2. \A y \in C : d.left[y] = IF y \in S THEN t.left[y] ELSE Out
        BY DEF Drawn
      <3>3. d.left \in [C -> C \cup {Out}] /\ k.left \in [C -> C \cup {Out}]
        BY <1>0, <2>3 DEF Ngx!Trees, Ngx!Cells
      <3> HIDE DEF r, e, d, k
      <3>4. \A y \in C : e.left[y] = IF y = x THEN v ELSE d.left[y]
        BY <2>2, <3>3
      <3>5. \A y \in S : r.left[y] = IF y = x THEN v ELSE t.left[y]
        BY <2>1 DEF Trees, Links
      <3>6. \A y \in C : k.left[y] = e.left[y]
        BY <3>1, <3>2, <3>4, <3>5
      <3>7. e.left \in [C -> C \cup {Out}]
        BY <2>2, <3>3
      <3> HIDE DEF C
      <3> QED
        BY <3>3, <3>6, <3>7
    <2>5. k = e
      <3> HIDE DEF k, r, e
      <3> QED
        BY <2>2, <2>3, <2>4 DEF Ngx!Trees
    <2>6. \A g \in Fields, y \in Keys : r[g][y] = IF g = f /\ y = x THEN v ELSE t[g][y]
      <3> HIDE DEF r
      <3> QED
        BY <1>1, <2>1 DEF Fields, Trees, Links
    <2>7. FieldSet(r, t, S, p, f, x, v)
      <3> HIDE DEF r, e
      <3> QED
        BY <2>1, <2>5, <2>6 DEF FieldSet, d, k, e
    <2> QED
      BY <2>7
  <1>2. CASE f = "right"
    <2> DEFINE r == Set(t, f, x, v)
               e == Ngx!Set(d, f, x, v)
    <2>1. /\ r \in Trees /\ r.root = t.root /\ r.color = t.color /\ r.left = t.left
          /\ r.parent = t.parent /\ r.right = [t.right EXCEPT ![x] = v]
      BY <1>2 DEF Trees, Links, Set
    <2>2. /\ e \in Ngx!Trees /\ e.root = d.root /\ e.key = d.key /\ e.color = d.color
          /\ e.left = d.left /\ e.parent = d.parent /\ e.right = [d.right EXCEPT ![x] = v]
      BY <1>2, <1>0 DEF Ngx!Trees, Ngx!Cells, Ngx!Set
    <2> DEFINE k == Drawn(r, S, p)
    <2>3. k \in Ngx!Trees /\ k.root = e.root /\ k.key = e.key /\ k.color = e.color
          /\ k.left = e.left /\ k.parent = e.parent
      <3>1. k \in Ngx!Trees
        BY <2>1, DrawnFacts
      <3> HIDE DEF r, e
      <3> QED
        BY <2>1, <2>2, <3>1 DEF Drawn
    <2>4. k.right = e.right
      <3> DEFINE C == Keys \cup {Null}
      <3>1. \A y \in C : k.right[y] = IF y \in S THEN r.right[y] ELSE Out
        BY DEF Drawn
      <3>2. \A y \in C : d.right[y] = IF y \in S THEN t.right[y] ELSE Out
        BY DEF Drawn
      <3>3. d.right \in [C -> C \cup {Out}] /\ k.right \in [C -> C \cup {Out}]
        BY <1>0, <2>3 DEF Ngx!Trees, Ngx!Cells
      <3> HIDE DEF r, e, d, k
      <3>4. \A y \in C : e.right[y] = IF y = x THEN v ELSE d.right[y]
        BY <2>2, <3>3
      <3>5. \A y \in S : r.right[y] = IF y = x THEN v ELSE t.right[y]
        BY <2>1 DEF Trees, Links
      <3>6. \A y \in C : k.right[y] = e.right[y]
        BY <3>1, <3>2, <3>4, <3>5
      <3>7. e.right \in [C -> C \cup {Out}]
        BY <2>2, <3>3
      <3> HIDE DEF C
      <3> QED
        BY <3>3, <3>6, <3>7
    <2>5. k = e
      <3> HIDE DEF k, r, e
      <3> QED
        BY <2>2, <2>3, <2>4 DEF Ngx!Trees
    <2>6. \A g \in Fields, y \in Keys : r[g][y] = IF g = f /\ y = x THEN v ELSE t[g][y]
      <3> HIDE DEF r
      <3> QED
        BY <1>2, <2>1 DEF Fields, Trees, Links
    <2>7. FieldSet(r, t, S, p, f, x, v)
      <3> HIDE DEF r, e
      <3> QED
        BY <2>1, <2>5, <2>6 DEF FieldSet, d, k, e
    <2> QED
      BY <2>7
  <1>3. CASE f = "parent"
    <2> DEFINE r == Set(t, f, x, v)
               e == Ngx!Set(d, f, x, v)
    <2>1. /\ r \in Trees /\ r.root = t.root /\ r.color = t.color /\ r.left = t.left
          /\ r.right = t.right /\ r.parent = [t.parent EXCEPT ![x] = v]
      BY <1>3 DEF Trees, Links, Set
    <2>2. /\ e \in Ngx!Trees /\ e.root = d.root /\ e.key = d.key /\ e.color = d.color
          /\ e.left = d.left /\ e.right = d.right /\ e.parent = [d.parent EXCEPT ![x] = v]
      BY <1>3, <1>0 DEF Ngx!Trees, Ngx!Cells, Ngx!Set
    <2> DEFINE k == Drawn(r, S, p)
    <2>3. k \in Ngx!Trees /\ k.root = e.root /\ k.key = e.key /\ k.color = e.color
          /\ k.left = e.left /\ k.right = e.right
      <3>1. k \in Ngx!Trees
        BY <2>1, DrawnFacts
      <3> HIDE DEF r, e
      <3> QED
        BY <2>1, <2>2, <3>1 DEF Drawn
    <2>4. k.parent = e.parent
      <3> DEFINE C == Keys \cup {Null}
      <3>1. \A y \in C : k.parent[y] = IF y \in S THEN r.parent[y] ELSE (IF y = Null THEN p ELSE Out)
        BY DEF Drawn
      <3>2. \A y \in C : d.parent[y] = IF y \in S THEN t.parent[y] ELSE (IF y = Null THEN p ELSE Out)
        BY DEF Drawn
      <3>3. d.parent \in [C -> C \cup {Out}] /\ k.parent \in [C -> C \cup {Out}]
        BY <1>0, <2>3 DEF Ngx!Trees, Ngx!Cells
      <3> HIDE DEF r, e, d, k
      <3>4. \A y \in C : e.parent[y] = IF y = x THEN v ELSE d.parent[y]
        BY <2>2, <3>3
      <3>5. \A y \in S : r.parent[y] = IF y = x THEN v ELSE t.parent[y]
        BY <2>1 DEF Trees, Links
      <3>6. \A y \in C : k.parent[y] = e.parent[y]
        BY <3>1, <3>2, <3>4, <3>5
      <3>7. e.parent \in [C -> C \cup {Out}]
        BY <2>2, <3>3
      <3> HIDE DEF C
      <3> QED
        BY <3>3, <3>6, <3>7
    <2>5. k = e
      <3> HIDE DEF k, r, e
      <3> QED
        BY <2>2, <2>3, <2>4 DEF Ngx!Trees
    <2>6. \A g \in Fields, y \in Keys : r[g][y] = IF g = f /\ y = x THEN v ELSE t[g][y]
      <3> HIDE DEF r
      <3> QED
        BY <1>3, <2>1 DEF Fields, Trees, Links
    <2>7. FieldSet(r, t, S, p, f, x, v)
      <3> HIDE DEF r, e
      <3> QED
        BY <2>1, <2>5, <2>6 DEF FieldSet, d, k, e
    <2> QED
      BY <2>7
  <1> QED
    BY <1>1, <1>2, <1>3 DEF Fields

\* r is t with x painted, and so are their drawings.
ColorSet(r, t, S, p, x, c) ==
  /\ r \in Trees /\ Drawn(r, S, p) = Ngx!Paint(Drawn(t, S, p), x, c) /\ r.root = t.root
  /\ \A g \in Fields : r[g] = t[g]
  /\ \A y \in Keys : r.color[y] = IF y = x THEN c ELSE t.color[y]

\* So does painting it.
LEMMA PaintDrawn ==
  ASSUME NEW t \in Trees, NEW S \in SUBSET Keys, NEW p \in Keys \cup {Null},
         NEW x \in S, NEW c \in {"red", "black"}
  PROVE  ColorSet(Paint(t, x, c), t, S, p, x, c)
  <1> DEFINE d == Drawn(t, S, p)
             r == Paint(t, x, c)
             e == Ngx!Paint(d, x, c)
             k == Drawn(r, S, p)
  <1>0. d \in Ngx!Trees
    BY DrawnFacts
  <1>1. /\ r \in Trees /\ r.root = t.root /\ r.left = t.left /\ r.right = t.right
        /\ r.parent = t.parent /\ r.color = [t.color EXCEPT ![x] = c]
    BY DEF Trees, Links, Paint, Set
  <1>2. /\ e \in Ngx!Trees /\ e.root = d.root /\ e.key = d.key /\ e.left = d.left
        /\ e.right = d.right /\ e.parent = d.parent /\ e.color = [d.color EXCEPT ![x] = c]
    BY <1>0 DEF Ngx!Trees, Ngx!Cells, Ngx!Paint, Ngx!Set
  <1>3. k \in Ngx!Trees
    BY <1>1, DrawnFacts
  <1> HIDE DEF r, e
  <1>4. /\ k.root = e.root /\ k.key = e.key /\ k.left = e.left /\ k.right = e.right
        /\ k.parent = e.parent /\ k.color = e.color
    <2>1. /\ k.root = e.root /\ k.key = e.key /\ k.left = e.left /\ k.right = e.right
          /\ k.parent = e.parent
      BY <1>1, <1>2 DEF Drawn
    <2>2. k.color = e.color
      <3> DEFINE C == Keys \cup {Null}
      <3>1. \A y \in C : k.color[y] = IF y \in S THEN r.color[y] ELSE "black"
        BY DEF Drawn
      <3>2. \A y \in C : d.color[y] = IF y \in S THEN t.color[y] ELSE "black"
        BY DEF Drawn
      <3>3. d.color \in [C -> {"red", "black"}] /\ k.color \in [C -> {"red", "black"}]
        BY <1>0, <1>3 DEF Ngx!Trees, Ngx!Cells
      <3> HIDE DEF d, k
      <3>4. \A y \in C : e.color[y] = IF y = x THEN c ELSE d.color[y]
        BY <1>2, <3>3
      <3>5. \A y \in S : r.color[y] = IF y = x THEN c ELSE t.color[y]
        BY <1>1 DEF Trees
      <3>6. \A y \in C : k.color[y] = e.color[y]
        BY <3>1, <3>2, <3>4, <3>5
      <3>7. e.color \in [C -> {"red", "black"}]
        BY <1>2, <3>3
      <3> HIDE DEF C
      <3> QED
        BY <3>3, <3>6, <3>7
    <2> QED
      BY <2>1, <2>2
  <1>5. k = e
    <2> HIDE DEF k
    <2> QED
      BY <1>2, <1>3, <1>4 DEF Ngx!Trees
  <1>6. \A g \in Fields : r[g] = t[g]
    BY <1>1 DEF Fields
  <1>7. \A y \in Keys : r.color[y] = IF y = x THEN c ELSE t.color[y]
    BY <1>1 DEF Trees
  <1>8. ColorSet(r, t, S, p, x, c)
    BY <1>1, <1>5, <1>6, <1>7 DEF e, ColorSet
  <1> QED
    BY <1>8 DEF r

\* r is t with another root, and so are their drawings.
RootSet(r, t, S, p, v) ==
  /\ r \in Trees /\ Drawn(r, S, p) = [Drawn(t, S, p) EXCEPT !.root = v] /\ r.root = v
  /\ (\A g \in Fields : r[g] = t[g]) /\ r.color = t.color

\* So does setting the root.
LEMMA RootDrawn ==
  ASSUME NEW t \in Trees, NEW S \in SUBSET Keys, NEW p \in Keys \cup {Null},
         NEW v \in Keys \cup {Null}
  PROVE  RootSet([t EXCEPT !.root = v], t, S, p, v)
  <1> DEFINE d == Drawn(t, S, p)
             r == [t EXCEPT !.root = v]
             e == [d EXCEPT !.root = v]
             k == Drawn(r, S, p)
  <1>0. d \in Ngx!Trees
    BY DrawnFacts
  <1>1. /\ r \in Trees /\ r.root = v /\ r.left = t.left /\ r.right = t.right
        /\ r.parent = t.parent /\ r.color = t.color
    BY DEF Trees, Links
  <1>2. /\ e \in Ngx!Trees /\ e.root = v /\ e.key = d.key /\ e.left = d.left
        /\ e.right = d.right /\ e.parent = d.parent /\ e.color = d.color
    BY <1>0 DEF Ngx!Trees, Ngx!Cells
  <1>3. k \in Ngx!Trees
    BY <1>1, DrawnFacts
  <1> HIDE DEF r, e
  <1>4. /\ k.root = e.root /\ k.key = e.key /\ k.left = e.left /\ k.right = e.right
        /\ k.parent = e.parent /\ k.color = e.color
    BY <1>1, <1>2 DEF Drawn
  <1>5. k = e
    <2> HIDE DEF k
    <2> QED
      BY <1>2, <1>3, <1>4 DEF Ngx!Trees
  <1>6. \A g \in Fields : r[g] = t[g]
    BY <1>1 DEF Fields
  <1>7. RootSet(r, t, S, p, v)
    BY <1>1, <1>5, <1>6 DEF e, RootSet
  <1> QED
    BY <1>7 DEF r

\* The side that a node is on.
LEMMA SideDrawn ==
  ASSUME NEW t \in Trees, NEW S \in SUBSET Keys, NEW p \in Keys \cup {Null},
         NEW x \in S, t.parent[x] \in S
  PROVE  /\ Ngx!SideOf(Drawn(t, S, p), x) = SideOf(t, x) /\ SideOf(t, x) \in Sides
         /\ t[SideOf(t, x)] \in Links
  <1> DEFINE d == Drawn(t, S, p)
  <1>1. d.parent[x] = t.parent[x] /\ d.left[t.parent[x]] = t.left[t.parent[x]]
    BY DEF Drawn
  <1> HIDE DEF d
  <1> QED
    BY <1>1 DEF Ngx!SideOf, SideOf, Sides, Trees, d

\* r is t with v in the link that led to x, and so are their drawings.
LinkSet(r, t, S, p, x, v) ==
  /\ r \in Trees /\ Drawn(r, S, p) = Ngx!Relink(Drawn(t, S, p), x, v)
  /\ r.root = IF x = t.root THEN v ELSE t.root
  /\ \A g \in Fields, y \in Keys :
        r[g][y] = IF x # t.root /\ g = SideOf(t, x) /\ y = t.parent[x] THEN v ELSE t[g][y]
  /\ r.color = t.color

\* The root, or the parent's link, is set in the drawing.
LEMMA RelinkDrawn ==
  ASSUME NEW t \in Trees, NEW S \in SUBSET Keys, NEW p \in Keys \cup {Null},
         NEW x \in S, t.parent[x] \in S \cup {Null}, t.parent[x] = Null <=> x = t.root,
         NEW v \in Keys \cup {Null}
  PROVE  LinkSet(Relink(t, x, v), t, S, p, x, v)
  <1> DEFINE d == Drawn(t, S, p)
  <1>1. d.root = t.root /\ d.parent[x] = t.parent[x]
    BY DrawnFacts DEF Drawn
  <1>2. CASE x = t.root
    <2>1. Relink(t, x, v) = [t EXCEPT !.root = v]
      BY <1>2 DEF Relink
    <2>2. Ngx!Relink(d, x, v) = [d EXCEPT !.root = v]
      BY <1>1, <1>2 DEF Ngx!Relink
    <2>3. RootSet(Relink(t, x, v), t, S, p, v)
      BY <2>1, RootDrawn
    <2> HIDE DEF d
    <2> QED
      BY <1>2, <2>2, <2>3 DEF d, RootSet, LinkSet
  <1>3. CASE x # t.root
    <2>1. t.parent[x] \in S
      BY <1>3
    <2>2. Relink(t, x, v) = Set(t, SideOf(t, x), t.parent[x], v)
      BY <1>3 DEF Relink
    <2>3. Ngx!SideOf(d, x) = SideOf(t, x) /\ SideOf(t, x) \in Fields
      BY <2>1, SideDrawn DEF Sides, Fields
    <2>4. Ngx!Relink(d, x, v) = Ngx!Set(d, SideOf(t, x), t.parent[x], v)
      <3> HIDE DEF d
      <3> QED
        BY <1>1, <1>3, <2>3 DEF Ngx!Relink
    <2>5. FieldSet(Relink(t, x, v), t, S, p, SideOf(t, x), t.parent[x], v)
      BY <2>1, <2>2, <2>3, SetDrawn
    <2> HIDE DEF d
    <2> QED
      BY <1>3, <2>4, <2>5 DEF d, FieldSet, LinkSet
  <1> QED
    BY <1>2, <1>3

\* The sides are those of ngx_rbtree.
LEMMA SidesSame ==
  /\ Ngx!Sides = Sides /\ Sides \subseteq Fields /\ "parent" \in Fields
  /\ \A s : Ngx!Opposite(s) = Opposite(s)
  /\ \A s \in Sides : Opposite(s) \in Sides /\ Opposite(s) # s /\ Opposite(Opposite(s)) = s
  /\ "parent" \notin Sides
  BY DEF Ngx!Sides, Sides, Fields, Ngx!Opposite, Opposite

\* The parent of the root is NULL.
Top(t) == t.root # Null => t.parent[t.root] = Null

\* What is known of a tree in order.
Kept(t, S, p) ==
  /\ \A x \in S, f \in Sides :
       /\ t[f][x] \in S \cup {Null} /\ t[f][x] # x
       /\ t[f][x] # Null => /\ t.parent[t[f][x]] = x /\ t[f][x] # t.root
                            /\ SideOf(t, t[f][x]) = f /\ \A g \in Sides : t[g][t[f][x]] # x
                            /\ t[Opposite(f)][x] # t[f][x]
  /\ \A x \in S : x # t.root => /\ t.parent[x] \in S /\ t[SideOf(t, x)][t.parent[x]] = x
                                /\ t.parent[x] # x /\ \A s \in Sides : t.parent[x] # t[s][x]
  /\ t.root \in S \/ (t.root = Null /\ S = {})
  /\ \A x \in S : t.parent[x] = Null <=> x = t.root
  /\ Null \notin S

\* Links and parents match.
LEMMA KeptFacts ==
  ASSUME NEW t \in Trees, NEW S \in SUBSET Keys, NEW p \in Keys \cup {Null}, Top(t),
         NEW n, NEW pos, Ngx!Ordered(Drawn(t, S, p), n, pos)
  PROVE  Kept(t, S, p)
  <1> DEFINE d == Drawn(t, S, p)
  <1>1. d \in Ngx!Trees /\ Ngx!Family(d) /\ (d.root \in Ngx!In(d) \/ (d.root = Null /\ Ngx!In(d) = {}))
    BY NgxOk, Ngx!OrderedFacts
  <1>2. Ngx!In(d) = S /\ d.root = t.root /\ \A f \in Fields, x \in S : d[f][x] = t[f][x]
    BY DrawnFacts
  <1>3. Null \notin S
    BY KeysAssumption
  <1>4. \A x \in S : d.parent[x] = t.parent[x]
    BY <1>2 DEF Drawn
  <1>5. ASSUME NEW x \in S, t.parent[x] \in S PROVE Ngx!SideOf(d, x) = SideOf(t, x)
    BY <1>5, SideDrawn
  <1> HIDE DEF d
  <1>6. \A x \in S, f \in Sides :
       /\ t[f][x] \in S \cup {Null} /\ t[f][x] # x
       /\ t[f][x] # Null => /\ t.parent[t[f][x]] = x /\ t[f][x] # t.root
                            /\ SideOf(t, t[f][x]) = f /\ \A g \in Sides : t[g][t[f][x]] # x
                            /\ t[Opposite(f)][x] # t[f][x]
    <2> TAKE x \in S, f \in Sides
    <2>0. f \in Fields /\ Opposite(f) \in Sides /\ Opposite(f) \in Fields
      BY SidesSame
    <2>1. d[f][x] = t[f][x] /\ d[Opposite(f)][x] = t[Opposite(f)][x]
      BY <1>2, <2>0
    <2>2. /\ d[f][x] # x
          /\ d[f][x] # Null =>
              /\ d[f][x] \in Ngx!In(d) /\ d.parent[d[f][x]] = x
              /\ Ngx!SideOf(d, d[f][x]) = f /\ d[f][x] # d.root
              /\ d[Ngx!Opposite(f)][x] # d[f][x]
              /\ \A s2 \in Ngx!Sides : d[s2][d[f][x]] # x
      BY <1>1, <1>2, SidesSame DEF Ngx!Family
    <2>3. Ngx!Opposite(f) = Opposite(f)
      BY SidesSame
    <2>4. ASSUME t[f][x] # Null
          PROVE  /\ t.parent[t[f][x]] = x /\ t[f][x] # t.root /\ t[f][x] \in S
                 /\ SideOf(t, t[f][x]) = f /\ \A g \in Sides : t[g][t[f][x]] # x
                 /\ t[Opposite(f)][x] # t[f][x]
      <3>1. t[f][x] \in S /\ d.parent[t[f][x]] = x /\ t[f][x] # t.root
        BY <2>1, <2>2, <2>4, <1>2
      <3>2. t.parent[t[f][x]] = x
        BY <3>1, <1>4
      <3>3. SideOf(t, t[f][x]) = f
        BY <3>1, <3>2, <1>5, <2>1, <2>2, <2>4
      <3>4. \A g \in Sides : t[g][t[f][x]] # x
        BY <3>1, <2>1, <2>2, <2>4, <1>2, SidesSame
      <3> QED
        BY <3>1, <3>2, <3>3, <3>4, <2>1, <2>2, <2>3, <2>4
    <2> QED
      BY <2>1, <2>2, <2>4
  <1>7. \A x \in S : x # t.root => /\ t.parent[x] \in S /\ t[SideOf(t, x)][t.parent[x]] = x
                                   /\ t.parent[x] # x /\ \A s \in Sides : t.parent[x] # t[s][x]
    <2> SUFFICES ASSUME NEW x \in S, x # t.root
                 PROVE  /\ t.parent[x] \in S /\ t[SideOf(t, x)][t.parent[x]] = x
                        /\ t.parent[x] # x /\ \A s \in Sides : t.parent[x] # t[s][x]
      OBVIOUS
    <2>1. /\ d.parent[x] \in S /\ d.parent[x] # x /\ Ngx!SideOf(d, x) \in Sides
          /\ d[Ngx!SideOf(d, x)][d.parent[x]] = x
          /\ \A s \in Sides : d.parent[x] # d[s][x]
      BY <1>1, <1>2, SidesSame DEF Ngx!Family
    <2>2. t.parent[x] \in S /\ d.parent[x] = t.parent[x]
      BY <1>4, <2>1
    <2>3. Ngx!SideOf(d, x) = SideOf(t, x)
      BY <1>5, <2>2
    <2>4. SideOf(t, x) \in Fields
      BY <2>1, <2>3, SidesSame
    <2>5. d[SideOf(t, x)][t.parent[x]] = t[SideOf(t, x)][t.parent[x]]
      BY <1>2, <2>2, <2>4
    <2>6. \A s \in Sides : t[s][x] = d[s][x]
      BY <1>2, SidesSame
    <2> QED
      BY <2>1, <2>2, <2>3, <2>5, <2>6
  <1>8. \A x \in S : t.parent[x] = Null <=> x = t.root
    BY <1>7, <1>3 DEF Top
  <1>9. t.root \in S \/ (t.root = Null /\ S = {})
    BY <1>1, <1>2
  <1> QED
    BY <1>3, <1>6, <1>7, <1>8, <1>9 DEF Kept

\* The links of the other nodes are what they were.
Apart(r, t, S) == \A x \in Keys \ S, f \in Fields : r[f][x] = t[f][x]

\* r is t after a rotation, and so are their drawings.
Spun(r, t, S, p, node, side) ==
  /\ r \in Trees /\ Drawn(r, S, p) = Ngx!Rotate(Drawn(t, S, p), node, side)
  /\ r.color = t.color /\ Top(r) /\ Apart(r, t, S)

\* rbtree_left_rotate and rbtree_right_rotate do what those of ngx_rbtree do.
LEMMA RotateDrawn ==
  ASSUME NEW t \in Trees, NEW S \in SUBSET Keys, NEW p \in Keys \cup {Null}, Top(t),
         NEW n, NEW pos, Ngx!Ordered(Drawn(t, S, p), n, pos),
         NEW node \in S, NEW side \in Sides, t[Opposite(side)][node] # Null
  PROVE  Spun(Rotate(t, node, side), t, S, p, node, side)
  <1> DEFINE d == Drawn(t, S, p)
             o == Opposite(side)
             y == t[o][node]
             inner == t[side][y]
             q == t.parent[node]
             s1 == Set(t, o, node, inner)
             s2 == SetParent(s1, inner, node)
             s3 == Set(s2, "parent", y, q)
             s4 == Relink(s3, node, y)
             s5 == Set(s4, side, y, node)
             r == Set(s5, "parent", node, y)
  <1>1. Kept(t, S, p)
    BY KeptFacts
  <1>2. /\ side \in Fields /\ o \in Sides /\ o \in Fields /\ o # side /\ Opposite(o) = side
        /\ "parent" \in Fields /\ side # "parent" /\ o # "parent"
        /\ Ngx!Opposite(side) = o
    BY SidesSame
  <1>3. /\ y \in S /\ y # node /\ t.parent[y] = node /\ y # t.root
        /\ inner \in S \cup {Null} /\ inner # y /\ inner # node
        /\ q \in S \cup {Null} /\ (q = Null <=> node = t.root) /\ q # node /\ q # y
    <2>1. y \in S /\ y # node /\ t.parent[y] = node /\ y # t.root /\ t[side][y] # node
      BY <1>1, <1>2 DEF Kept
    <2>2. inner \in S \cup {Null} /\ inner # y
      BY <1>1, <2>1 DEF Kept
    <2>3. q \in S \cup {Null} /\ (q = Null <=> node = t.root) /\ q # node /\ q # y
      BY <1>1, <1>2, <2>1 DEF Kept
    <2> QED
      BY <2>1, <2>2, <2>3
  <1>4. Null \notin S /\ S \subseteq Keys
    BY <1>1 DEF Kept
  <1>5. Rotate(t, node, side) = r
    BY DEF Rotate
  <1>6. d[o][node] = y /\ d[side][y] = inner /\ d.parent[node] = q
    <2>1. \A f \in Fields, x \in S : d[f][x] = t[f][x]
      BY DrawnFacts
    <2>2. d.parent[node] = t.parent[node]
      BY DEF Drawn
    <2> HIDE DEF d
    <2> QED
      BY <1>2, <1>3, <2>1, <2>2
  <1>7. t["parent"] = t.parent
    OBVIOUS
  <1> HIDE DEF d, o, y, inner, q
  <1>8. FieldSet(s1, t, S, p, o, node, inner)
    BY <1>2, <1>3, <1>4, SetDrawn
  <1>9. s1 \in Trees
    BY <1>8 DEF FieldSet
  <1> HIDE DEF s1
  <1>10. /\ s2 \in Trees /\ s2.root = t.root /\ s2.color = t.color
         /\ s2.parent[node] = q /\ Apart(s2, t, S)
         /\ Drawn(s2, S, p) = IF inner # Null
                              THEN Ngx!Set(Ngx!Set(d, o, node, inner), "parent", inner, node)
                              ELSE Ngx!Set(d, o, node, inner)
    <2>1. s1["parent"][node] = t["parent"][node] /\ s1.root = t.root /\ s1.color = t.color
          /\ Drawn(s1, S, p) = Ngx!Set(d, o, node, inner) /\ Apart(s1, t, S)
      BY <1>2, <1>4, <1>8 DEF FieldSet, d, Apart
    <2>2. CASE inner = Null
      BY <1>9, <2>1, <2>2 DEF SetParent, q
    <2>3. CASE inner # Null
      <3>1. s2 = Set(s1, "parent", inner, node)
        BY <2>3 DEF SetParent
      <3>2. FieldSet(s2, s1, S, p, "parent", inner, node)
        BY <1>2, <1>3, <1>4, <1>9, <2>3, <3>1, SetDrawn
      <3> HIDE DEF s2
      <3>3. s2["parent"][node] = s1["parent"][node]
        BY <1>2, <1>3, <1>4, <3>2 DEF FieldSet
      <3>4. Apart(s2, s1, S)
        BY <1>3, <2>3, <3>2 DEF FieldSet, Apart
      <3>5. Apart(s2, t, S)
        BY <2>1, <3>4 DEF Apart
      <3> QED
        BY <2>1, <2>3, <3>2, <3>3, <3>5 DEF FieldSet, q
    <2> QED
      BY <2>2, <2>3
  <1> HIDE DEF s2
  <1>11. FieldSet(s3, s2, S, p, "parent", y, q)
    BY <1>2, <1>3, <1>4, <1>10, SetDrawn
  <1>12. s3 \in Trees /\ s3.root = t.root /\ s3.parent[node] = q /\ s3.color = t.color
    <2>1. s3["parent"][node] = s2["parent"][node]
      BY <1>2, <1>3, <1>4, <1>11 DEF FieldSet
    <2> HIDE DEF s3
    <2> QED
      BY <1>10, <1>11, <2>1 DEF FieldSet
  <1> HIDE DEF s3
  <1>13. LinkSet(s4, s3, S, p, node, y)
    <2>1. s3.parent[node] \in S \cup {Null} /\ (s3.parent[node] = Null <=> node = s3.root)
      BY <1>3, <1>12
    <2> QED
      BY <1>3, <1>4, <1>12, <2>1, RelinkDrawn
  <1>14. s4 \in Trees /\ s4.color = t.color
    BY <1>12, <1>13 DEF LinkSet
  <1> HIDE DEF s4
  <1>15. FieldSet(s5, s4, S, p, side, y, node)
    BY <1>2, <1>3, <1>4, <1>14, SetDrawn
  <1>16. s5 \in Trees /\ s5.color = t.color
    BY <1>14, <1>15 DEF FieldSet
  <1> HIDE DEF s5
  <1>17. FieldSet(r, s5, S, p, "parent", node, y)
    BY <1>2, <1>3, <1>4, <1>16, SetDrawn
  <1>18. r \in Trees /\ r.color = t.color
    BY <1>16, <1>17 DEF FieldSet
  <1> HIDE DEF r
  <1>19. Drawn(r, S, p) = Ngx!Rotate(d, node, side)
    <2>1. Ngx!Rotate(d, node, side) =
            Ngx!Set(Ngx!Set(Ngx!Relink(Ngx!Set(IF inner # Null
                              THEN Ngx!Set(Ngx!Set(d, o, node, inner), "parent", inner, node)
                              ELSE Ngx!Set(d, o, node, inner), "parent", y, q), node, y),
                            side, y, node), "parent", node, y)
      BY <1>2, <1>6 DEF Ngx!Rotate
    <2>2. Drawn(r, S, p) = Ngx!Set(Ngx!Set(Ngx!Relink(Ngx!Set(Drawn(s2, S, p), "parent", y, q),
                                             node, y), side, y, node), "parent", node, y)
      BY <1>11, <1>13, <1>15, <1>17 DEF FieldSet, LinkSet
    <2> QED
      BY <1>10, <2>1, <2>2
  <1>20. Top(r)
    <2> DEFINE e == Ngx!Rotate(d, node, side)
    <2>1. Ngx!Rotated(e, d, node, side)
      <3>1. Ngx!In(d) = S
        BY DrawnFacts DEF d
      <3>2. d[Ngx!Opposite(side)][node] # Null
        BY <1>2, <1>3, <1>4, <1>6
      <3>3. side \in Ngx!Sides /\ Ngx!Ordered(d, n, pos)
        BY SidesSame DEF d
      <3> QED
        BY <3>1, <3>2, <3>3, NgxOk, Ngx!RotateOrdered
    <2>2. e.root = r.root /\ \A x \in S : e.parent[x] = r.parent[x]
      BY <1>18, <1>19, DrawnFacts DEF Drawn
    <2>3. d.root = t.root /\ \A x \in S : d.parent[x] = t.parent[x]
      BY DrawnFacts DEF Drawn, d
    <2> HIDE DEF e
    <2>4. /\ e.root = IF node = d.root THEN y ELSE d.root
          /\ \A x \in S : e.parent[x] = IF x = node THEN y ELSE IF x = y THEN q
                                        ELSE IF x = inner /\ inner # Null THEN node
                                        ELSE d.parent[x]
      BY <1>2, <1>4, <1>6, <2>1 DEF Ngx!Rotated, Ngx!Cells
    <2>5. CASE node = t.root
      BY <1>3, <2>2, <2>3, <2>4, <2>5 DEF Top
    <2>6. CASE node # t.root
      <3>1. r.root = t.root /\ t.root \in S /\ t.root # y
        BY <1>1, <1>3, <2>2, <2>3, <2>4, <2>6 DEF Kept
      <3>2. t.root # inner
        <4>1. inner # Null => t[side][y] # t.root
          BY <1>1, <1>3 DEF Kept, inner
        <4> QED
          BY <1>4, <3>1, <4>1 DEF inner
      <3>3. t.parent[t.root] = Null
        BY <1>1, <3>1 DEF Kept
      <3> QED
        BY <2>2, <2>3, <2>4, <2>6, <3>1, <3>2, <3>3 DEF Top
    <2> QED
      BY <2>5, <2>6
  <1>21. Apart(r, t, S)
    <2>1. Apart(s3, s2, S)
      BY <1>3, <1>11 DEF FieldSet, Apart
    <2>2. Apart(s4, s3, S)
      <3>1. \A x \in Keys \ S : x # s3.parent[node]
        BY <1>3, <1>12, KeysAssumption
      <3>2. node # s3.root => s3.parent[node] \in S
        BY <1>3, <1>12, KeysAssumption
      <3> QED
        BY <1>13, <3>1, <3>2 DEF LinkSet, Apart
    <2>3. Apart(s5, s4, S)
      BY <1>3, <1>15 DEF FieldSet, Apart
    <2>4. Apart(r, s5, S)
      BY <1>3, <1>17 DEF FieldSet, Apart
    <2> QED
      BY <1>10, <2>1, <2>2, <2>3, <2>4 DEF Apart
  <1> QED
    BY <1>5, <1>18, <1>19, <1>20, <1>21 DEF Spun, d

\* A tree in order, of the nodes in S.
Held(t, S, p, n, pos) ==
  /\ t \in Trees /\ S \in SUBSET Keys /\ p \in Keys \cup {Null} /\ Top(t)
  /\ Ngx!Ordered(Drawn(t, S, p), n, pos)

\* d is the drawing of t.
Drawing(d, t, S, p) ==
  /\ d = Drawn(t, S, p) /\ d \in Ngx!Trees /\ Ngx!In(d) = S /\ d.root = t.root
  /\ (\A f \in Fields, x \in S : d[f][x] = t[f][x]) /\ (\A x \in S : d.parent[x] = t.parent[x])
  /\ d.parent[Null] = p
  /\ \A x \in S \cup {Null} : Red(t, x) <=> Ngx!Red(d, x)

\* What a tree in order and its drawing have in common.
LEMMA HeldFacts ==
  ASSUME NEW t, NEW S, NEW p, NEW n, NEW pos, Held(t, S, p, n, pos)
  PROVE  /\ Kept(t, S, p) /\ Drawing(Drawn(t, S, p), t, S, p) /\ t \in Trees
         /\ S \subseteq Keys /\ Null \notin S /\ Null \notin Keys /\ p \in Keys \cup {Null}
         /\ Ngx!Ordered(Drawn(t, S, p), n, pos)
  <1> DEFINE d == Drawn(t, S, p)
  <1>0. t \in Trees /\ S \in SUBSET Keys /\ p \in Keys \cup {Null}
    BY DEF Held
  <1>1. Kept(t, S, p)
    BY <1>0, KeptFacts DEF Held
  <1>2. d \in Ngx!Trees /\ Ngx!In(d) = S /\ d.root = t.root /\ d.parent[Null] = p
    BY <1>0, DrawnFacts
  <1>3. \A f \in Fields, x \in S : d[f][x] = t[f][x]
    BY <1>0, DrawnFacts
  <1>4. \A x \in S : d.parent[x] = t.parent[x]
    BY <1>0 DEF Drawn
  <1>5. \A x \in S \cup {Null} : Red(t, x) <=> Ngx!Red(d, x)
    BY <1>0, DrawnFacts
  <1> QED
    BY <1>0, <1>1, <1>2, <1>3, <1>4, <1>5, KeysAssumption DEF Drawing, Held

\* r is t with other links and colors: a tree of the same nodes in the same order.
Carried(r, t, S, p, n, pos) == Held(r, S, p, n, pos) /\ Apart(r, t, S)

\* r is t with x painted.
Coated(r, t, S, p, n, pos, x, c) ==
  /\ Carried(r, t, S, p, n, pos)
  /\ Drawn(r, S, p) = Ngx!Paint(Drawn(t, S, p), x, c)
  /\ Ngx!Painted(Drawn(r, S, p), Drawn(t, S, p), x, c)
  /\ r.root = t.root
  /\ \A g \in Fields : r[g] = t[g]
  /\ \A y \in Keys : r.color[y] = IF y = x THEN c ELSE t.color[y]

\* Painting leaves the links.
LEMMA PaintCarried ==
  ASSUME NEW t, NEW S, NEW p, NEW n, NEW pos, Held(t, S, p, n, pos),
         NEW x \in S, NEW c \in {"red", "black"}
  PROVE  Coated(Paint(t, x, c), t, S, p, n, pos, x, c)
  <1> DEFINE r == Paint(t, x, c)
             d == Drawn(t, S, p)
             e == Drawn(r, S, p)
  <1>0. t \in Trees /\ S \in SUBSET Keys /\ p \in Keys \cup {Null} /\ x \in Keys
    BY DEF Held
  <1>1. ColorSet(r, t, S, p, x, c)
    BY <1>0, PaintDrawn
  <1>2. d \in Ngx!Trees
    BY <1>0, DrawnFacts
  <1> HIDE DEF r, d
  <1>3. e = Ngx!Paint(d, x, c)
    BY <1>1 DEF ColorSet, d
  <1>4. Ngx!Painted(e, d, x, c)
    <2>1. x \in Ngx!Cells
      BY <1>0 DEF Ngx!Cells
    <2> HIDE DEF e
    <2> QED
      BY <1>2, <1>3, <2>1, NgxOk, Ngx!PaintPainted
  <1>5. Ngx!Ordered(e, n, pos)
    <2>1. Ngx!SameLinks(e, d)
      BY <1>4 DEF Ngx!Painted
    <2>2. Ngx!Ordered(d, n, pos)
      BY DEF d, Held
    <2> HIDE DEF e
    <2> QED
      BY <2>1, <2>2, NgxOk, Ngx!SameLinksOrdered
  <1>6. r.parent = t.parent
    BY <1>1 DEF ColorSet, Fields
  <1>7. Carried(r, t, S, p, n, pos)
    BY <1>0, <1>1, <1>5, <1>6 DEF ColorSet, Carried, Top, Apart, Held
  <1>8. Coated(r, t, S, p, n, pos, x, c)
    BY <1>1, <1>3, <1>4, <1>7 DEF ColorSet, d, Coated
  <1> QED
    BY <1>8 DEF r

\* The order of painting does not matter.
LEMMA PaintSwap ==
  ASSUME NEW d \in Ngx!Trees, NEW x \in Keys, NEW y \in Keys, NEW c \in {"red", "black"}
  PROVE  Ngx!Paint(Ngx!Paint(d, x, c), y, c) = Ngx!Paint(Ngx!Paint(d, y, c), x, c)
  <1> DEFINE a == [[d.color EXCEPT ![x] = c] EXCEPT ![y] = c]
             b == [[d.color EXCEPT ![y] = c] EXCEPT ![x] = c]
  <1>1. a = b
    BY DEF Ngx!Trees, Ngx!Cells
  <1>2. Ngx!Paint(Ngx!Paint(d, x, c), y, c) = [d EXCEPT !.color = a]
    BY DEF Ngx!Paint, Ngx!Set, Ngx!Trees
  <1>3. Ngx!Paint(Ngx!Paint(d, y, c), x, c) = [d EXCEPT !.color = b]
    BY DEF Ngx!Paint, Ngx!Set, Ngx!Trees
  <1> QED
    BY <1>1, <1>2, <1>3

\* Who is around a red node with a red parent.
Around(t, S, p, x, par, gr, side, unc) ==
  /\ x # t.root /\ Ngx!Red(Drawn(t, S, p), Drawn(t, S, p).parent[x])
  /\ Ngx!Kin(Drawn(t, S, p), x, par, gr, side, Opposite(side), unc)
  /\ par \in S /\ gr \in S /\ side \in Sides /\ par # gr /\ x \in S
  /\ unc \in S \cup {Null} /\ unc # par /\ t[side][gr] = par /\ gr # x /\ x # par

\* A red node with a red parent has a grandparent.
LEMMA InsertAround ==
  ASSUME NEW t, NEW S, NEW p, NEW n, NEW pos, Held(t, S, p, n, pos),
         NEW b, NEW x, Ngx!InsertAt(Drawn(t, S, p), b, x), Red(t, t.parent[x]),
         NEW par, par = t.parent[x], NEW gr, gr = t.parent[par],
         NEW side, side = SideOf(t, par), NEW unc, unc = t[Opposite(side)][gr]
  PROVE  Around(t, S, p, x, par, gr, side, unc)
  <1> DEFINE d == Drawn(t, S, p)
             o == Opposite(side)
  <1>1. Kept(t, S, p) /\ Null \notin S /\ S \subseteq Keys /\ Drawing(d, t, S, p)
    BY HeldFacts
  <1>5. Ngx!Ordered(d, n, pos) /\ Ngx!InsertAt(d, b, x)
    BY HeldFacts
  <1>0. t \in Trees /\ S \in SUBSET Keys /\ p \in Keys \cup {Null}
    BY DEF Held
  <1> HIDE DEF d
  <1>2. /\ Ngx!In(d) = S /\ d.root = t.root /\ \A f \in Fields, z \in S : d[f][z] = t[f][z]
    BY <1>1 DEF Drawing
  <1>3. \A z \in S : d.parent[z] = t.parent[z]
    BY <1>1 DEF Drawing
  <1>4. \A z \in S \cup {Null} : Red(t, z) <=> Ngx!Red(d, z)
    BY <1>1 DEF Drawing
  <1>6. x \in S
    BY <1>2, <1>5 DEF Ngx!InsertAt
  <1>7. par # Null
    BY DEF Red
  <1>8. x # t.root /\ par \in S
    BY <1>1, <1>6, <1>7 DEF Kept
  <1>9. Ngx!Red(d, d.parent[x]) /\ d.parent[x] = par
    BY <1>3, <1>4, <1>6, <1>8
  <1> DEFINE g2 == d.parent[par]
             s2 == Ngx!SideOf(d, par)
             o2 == Ngx!Opposite(s2)
             u2 == d[o2][g2]
  <1>10. Ngx!Kin(d, x, par, g2, s2, o2, u2)
    BY <1>9 DEF Ngx!Kin
  <1>11. Ngx!KinFacts(d, x, par, g2, s2, o2, u2)
    <2>1. x # d.root
      BY <1>2, <1>8
    <2> HIDE DEF g2, s2, o2, u2
    <2> QED
      BY <1>5, <1>9, <1>10, <2>1, NgxOk, Ngx!InsertFamily
  <1>12. g2 = gr
    BY <1>3, <1>8
  <1>13. gr \in S /\ par # gr
    BY <1>2, <1>11, <1>12 DEF Ngx!KinFacts
  <1>14. s2 = side /\ side \in Sides
    <2>1. t.parent[par] \in S
      BY <1>13
    <2> QED
      BY <1>0, <1>8, <2>1, SideDrawn DEF d
  <1>15. o2 = o /\ o \in Fields /\ side \in Fields
    BY <1>14, SidesSame
  <1>16. u2 = unc
    BY <1>2, <1>12, <1>13, <1>15
  <1> HIDE DEF g2, s2, o2, u2
  <1>17. /\ unc \in S \cup {Null} /\ unc # par /\ d[side][gr] = par /\ gr # x /\ x # par
    BY <1>2, <1>11, <1>12, <1>14, <1>15, <1>16 DEF Ngx!KinFacts
  <1>18. t[side][gr] = par
    BY <1>2, <1>13, <1>15, <1>17
  <1>19. Ngx!Kin(d, x, par, gr, side, Opposite(side), unc)
    BY <1>10, <1>12, <1>14, <1>15, <1>16
  <1> QED
    BY <1>6, <1>8, <1>9, <1>13, <1>14, <1>17, <1>18, <1>19 DEF Around, d

\* One after the other.
LEMMA CarriedTwice ==
  ASSUME NEW t, NEW s, NEW r, NEW S, NEW p, NEW n, NEW pos,
         Carried(s, t, S, p, n, pos), Carried(r, s, S, p, n, pos)
  PROVE  Carried(r, t, S, p, n, pos)
  BY DEF Carried, Apart

\* r is t after a rotation.
Wheeled(r, t, S, p, n, pos, node, side) ==
  /\ Carried(r, t, S, p, n, pos) /\ r.color = t.color
  /\ Drawn(r, S, p) = Ngx!Rotate(Drawn(t, S, p), node, side)

\* A rotation leaves the order.
LEMMA RotateCarried ==
  ASSUME NEW t, NEW S, NEW p, NEW n, NEW pos, Held(t, S, p, n, pos),
         NEW node \in S, NEW side \in Sides, t[Opposite(side)][node] # Null
  PROVE  Wheeled(Rotate(t, node, side), t, S, p, n, pos, node, side)
  <1> DEFINE d == Drawn(t, S, p)
             r == Rotate(t, node, side)
  <1>1. Spun(r, t, S, p, node, side)
    BY RotateDrawn DEF Held
  <1>2. Ngx!Ordered(Ngx!Rotate(d, node, side), n, pos)
    <2>1. Drawing(d, t, S, p) /\ Ngx!Ordered(d, n, pos)
      BY HeldFacts
    <2> HIDE DEF d
    <2>2. side \in Ngx!Sides /\ Ngx!Opposite(side) \in Fields /\ Ngx!Opposite(side) = Opposite(side)
      BY SidesSame
    <2>3. d[Ngx!Opposite(side)][node] # Null
      BY <2>1, <2>2 DEF Drawing
    <2>4. Ngx!In(d) = S
      BY <2>1 DEF Drawing
    <2> QED
      BY <2>1, <2>2, <2>3, <2>4, NgxOk, Ngx!RotateOrdered
  <1> HIDE DEF r
  <1>3. Wheeled(r, t, S, p, n, pos, node, side)
    BY <1>1, <1>2 DEF Spun, Carried, Held, Wheeled
  <1> QED
    BY <1>3 DEF r

\* A red uncle.
LEMMA RecolorCarried ==
  ASSUME NEW t, NEW S, NEW p, NEW n, NEW pos, Held(t, S, p, n, pos),
         NEW b, NEW x, Ngx!InsertAt(Drawn(t, S, p), b, x),
         NEW par, NEW gr, NEW side, NEW unc, Around(t, S, p, x, par, gr, side, unc),
         Red(t, unc), NEW r, r = Recolored(t, par, unc, gr)
  PROVE  Carried(r, t, S, p, n, pos) /\ \E c : Ngx!InsertAt(Drawn(r, S, p), c, gr)
  <1> DEFINE d == Drawn(t, S, p)
             s1 == Paint(t, unc, "black")
             s2 == Paint(s1, par, "black")
             s3 == Paint(s2, gr, "red")
  <1>1. par \in S /\ gr \in S /\ unc \in S /\ S \subseteq Keys
    BY DEF Around, Red, Held
  <1>2. Coated(s1, t, S, p, n, pos, unc, "black")
    BY <1>1, PaintCarried
  <1>3. Held(s1, S, p, n, pos)
    BY <1>2 DEF Carried, Coated
  <1> HIDE DEF s1
  <1>4. Coated(s2, s1, S, p, n, pos, par, "black")
    BY <1>1, <1>3, PaintCarried
  <1>5. Held(s2, S, p, n, pos)
    BY <1>4 DEF Carried, Coated
  <1> HIDE DEF s2
  <1>6. Coated(s3, s2, S, p, n, pos, gr, "red")
    BY <1>1, <1>5, PaintCarried
  <1>7. Carried(r, t, S, p, n, pos)
    <2>1. r = s3
      BY DEF Recolored, s1, s2
    <2> HIDE DEF s3
    <2> QED
      BY <1>2, <1>4, <1>6, <2>1, CarriedTwice DEF Coated
  <1>8. Drawn(r, S, p) = Ngx!Recolored(d, par, unc, gr)
    <2>1. r = s3
      BY DEF Recolored, s1, s2
    <2>2. d \in Ngx!Trees
      BY HeldFacts DEF Drawing
    <2> HIDE DEF s3
    <2>3. Ngx!Paint(Ngx!Paint(d, unc, "black"), par, "black") =
            Ngx!Paint(Ngx!Paint(d, par, "black"), unc, "black")
      BY <1>1, <2>2, PaintSwap
    <2> QED
      BY <1>2, <1>4, <1>6, <2>1, <2>3 DEF Ngx!Recolored, Coated
  <1>9. \E c : Ngx!InsertAt(Drawn(r, S, p), c, gr)
    <2> DEFINE e == Drawn(r, S, p)
               o == Opposite(side)
    <2>1. /\ Ngx!Ordered(d, n, pos) /\ Ngx!InsertAt(d, b, x) /\ x # d.root
          /\ Ngx!Red(d, d.parent[x]) /\ Ngx!Kin(d, x, par, gr, side, o, unc)
          /\ e = Ngx!Recolored(d, par, unc, gr)
      BY <1>8, HeldFacts DEF Around, Drawing
    <2>2. Ngx!Red(d, unc)
      BY <1>1, HeldFacts DEF Drawing
    <2> HIDE DEF e, d, o
    <2>3. \E c : Ngx!InsertAt(e, c, gr)
      BY <2>1, <2>2, NgxOk, Ngx!InsertRecolored
    <2> QED
      BY <2>3 DEF e
  <1> QED
    BY <1>7, <1>9

\* Two nodes are painted and the upper one is rotated.
LEMMA RaiseCarried ==
  ASSUME NEW t, NEW S, NEW p, NEW n, NEW pos, Held(t, S, p, n, pos),
         NEW a \in S, NEW gr \in S, NEW side \in Sides, t[side][gr] # Null,
         NEW ca \in {"red", "black"}, NEW cg \in {"red", "black"},
         NEW r, r = Rotate(Paint(Paint(t, a, ca), gr, cg), gr, Opposite(side))
  PROVE  /\ Carried(r, t, S, p, n, pos)
         /\ Drawn(r, S, p) =
              Ngx!Rotate(Ngx!Paint(Ngx!Paint(Drawn(t, S, p), a, ca), gr, cg), gr, Opposite(side))
  <1> DEFINE s1 == Paint(t, a, ca)
             s2 == Paint(s1, gr, cg)
             s3 == Rotate(s2, gr, Opposite(side))
  <1>1. Coated(s1, t, S, p, n, pos, a, ca)
    BY PaintCarried
  <1>2. Held(s1, S, p, n, pos)
    BY <1>1 DEF Carried, Coated
  <1> HIDE DEF s1
  <1>3. Coated(s2, s1, S, p, n, pos, gr, cg)
    BY <1>2, PaintCarried
  <1>4. Held(s2, S, p, n, pos)
    BY <1>3 DEF Carried, Coated
  <1> HIDE DEF s2
  <1>5. Opposite(side) \in Sides /\ Opposite(Opposite(side)) = side /\ side \in Fields
    BY SidesSame
  <1>6. s2[Opposite(Opposite(side))][gr] # Null
    BY <1>1, <1>3, <1>5 DEF Coated
  <1>7. r = s3
    BY DEF s1, s2
  <1>8. Wheeled(s3, s2, S, p, n, pos, gr, Opposite(side))
    BY <1>4, <1>5, <1>6, RotateCarried
  <1> HIDE DEF s3
  <1>9. Carried(r, t, S, p, n, pos)
    BY <1>1, <1>3, <1>7, <1>8, CarriedTwice DEF Wheeled, Coated
  <1> QED
    BY <1>1, <1>3, <1>7, <1>8, <1>9 DEF Wheeled, Coated

\* Colors in the tree and in its drawing, at a node and above it.
LEMMA HeldColors ==
  ASSUME NEW t, NEW S, NEW p, NEW n, NEW pos, Held(t, S, p, n, pos), NEW x \in S
  PROVE  /\ Red(t, x) <=> Ngx!Red(Drawn(t, S, p), x)
         /\ Drawn(t, S, p).parent[x] = t.parent[x]
         /\ t.parent[x] \in S \cup {Null}
         /\ Red(t, t.parent[x]) <=> Ngx!Red(Drawn(t, S, p), Drawn(t, S, p).parent[x])
         /\ x # t.root => t.parent[x] \in S /\ Ngx!SideOf(Drawn(t, S, p), x) = SideOf(t, x)
  <1> DEFINE d == Drawn(t, S, p)
  <1>1. Kept(t, S, p) /\ Drawing(d, t, S, p)
    BY HeldFacts
  <1>2. x # t.root => Ngx!SideOf(Drawn(t, S, p), x) = SideOf(t, x) /\ t.parent[x] \in S
    <2>1. x # t.root => t.parent[x] \in S
      BY <1>1 DEF Kept
    <2> QED
      BY <2>1, SideDrawn DEF Held
  <1>3. t.parent[x] \in S \cup {Null}
    BY <1>1 DEF Kept
  <1> HIDE DEF d
  <1> QED
    BY <1>1, <1>2, <1>3 DEF Drawing, d

\* A turn of the insert loop that rotates.
LEMMA InsertCarried ==
  ASSUME NEW t, NEW S, NEW p, NEW n, NEW pos, Held(t, S, p, n, pos),
         NEW b, NEW x, Ngx!InsertAt(Drawn(t, S, p), b, x),
         NEW par, NEW gr, NEW side, NEW unc, Around(t, S, p, x, par, gr, side, unc),
         Black(t, unc), NEW y, y = IF x = t[Opposite(side)][par] THEN par ELSE x,
         NEW r, r = IF x = t[Opposite(side)][par]
                    THEN Raised(Rotate(t, par, side), x, gr, side)
                    ELSE Raised(t, par, gr, side)
  PROVE  /\ Carried(r, t, S, p, n, pos) /\ \E c : Ngx!InsertAt(Drawn(r, S, p), c, y)
         /\ y \in S /\ Black(r, r.parent[y])
  <1> DEFINE d == Drawn(t, S, p)
             o == Opposite(side)
             e == Drawn(r, S, p)
  <1>1. /\ Drawing(d, t, S, p) /\ Ngx!Ordered(d, n, pos) /\ Kept(t, S, p) /\ Null \notin S
        /\ S \subseteq Keys
    BY HeldFacts
  <1>2. /\ x # t.root /\ Ngx!Red(d, d.parent[x]) /\ Ngx!Kin(d, x, par, gr, side, o, unc)
        /\ par \in S /\ gr \in S /\ side \in Sides /\ par # gr /\ x \in S
        /\ unc \in S \cup {Null} /\ unc # par /\ t[side][gr] = par /\ gr # x /\ x # par
    BY DEF Around
  <1>3. o \in Sides /\ o \in Fields /\ side \in Fields /\ Ngx!Opposite(side) = o /\ side \in Ngx!Sides
    BY <1>2, SidesSame
  <1>4. Ngx!InsertAt(d, b, x)
    OBVIOUS
  <1> HIDE DEF d, o
  <1>5. d.parent[x] = par /\ d.parent[par] = gr
    BY <1>2 DEF Ngx!Kin
  <1>6. Ngx!Black(d, unc) /\ x # d.root /\ d[o][par] = t[o][par]
    BY <1>1, <1>2, <1>3 DEF Drawing, Black, Ngx!Black
  <1>7. ASSUME x = t[o][par]
        PROVE  /\ Carried(r, t, S, p, n, pos) /\ y = par
               /\ e = Ngx!InsertRotated(Ngx!Rotate(d, par, side), y, side)
    <2> DEFINE s == Rotate(t, par, side)
               ds == Drawn(s, S, p)
    <2>1. Wheeled(s, t, S, p, n, pos, par, side)
      BY <1>1, <1>2, <1>3, <1>7, RotateCarried DEF o
    <2>2. Held(s, S, p, n, pos) /\ ds = Ngx!Rotate(d, par, side)
      BY <2>1 DEF Wheeled, Carried, d
    <2>3. r = Raised(s, x, gr, side) /\ y = par
      BY <1>7 DEF o
    <2> HIDE DEF s, ds
    <2>4. ds.parent[par] = x /\ ds.parent[x] = gr /\ Ngx!SideOf(ds, x) = side
      <3>1. x = d[o][par]
        BY <1>6, <1>7
      <3> QED
        BY <1>1, <1>2, <1>4, <1>5, <1>6, <2>2, <3>1, NgxOk, Ngx!InsertInner
    <2>5. s.parent[x] = gr /\ SideOf(s, x) = side /\ x # s.root
      <3>1. ds.parent[x] = s.parent[x] /\ (x # s.root => Ngx!SideOf(ds, x) = SideOf(s, x))
        BY <1>2, <2>2, HeldColors DEF ds
      <3>2. s.parent[x] = gr
        BY <2>4, <3>1
      <3>3. x # s.root
        BY <1>1, <1>2, <2>2, <3>2, HeldFacts DEF Kept
      <3> QED
        BY <2>4, <3>1, <3>2, <3>3
    <2>6. s[side][gr] = x
      BY <1>2, <2>2, <2>5, HeldFacts DEF Kept
    <2>7. s[side][gr] # Null
      BY <1>1, <1>2, <2>6
    <2>8. r = Rotate(Paint(Paint(s, x, "black"), gr, "red"), gr, Opposite(side))
      BY <2>3 DEF Raised
    <2>9. /\ Carried(r, s, S, p, n, pos)
          /\ e = Ngx!Rotate(Ngx!Paint(Ngx!Paint(ds, x, "black"), gr, "red"), gr, Opposite(side))
      <3> HIDE DEF e
      <3> QED
        BY <1>2, <2>2, <2>7, <2>8, RaiseCarried DEF e, ds
    <2>10. e = Ngx!InsertRotated(ds, par, side)
      BY <1>3, <2>4, <2>9 DEF Ngx!InsertRotated, o
    <2> QED
      BY <2>1, <2>2, <2>3, <2>9, <2>10, CarriedTwice DEF Wheeled
  <1>8. ASSUME x # t[o][par]
        PROVE  /\ Carried(r, t, S, p, n, pos) /\ y = x
               /\ e = Ngx!InsertRotated(d, y, side)
    <2>1. r = Rotate(Paint(Paint(t, par, "black"), gr, "red"), gr, Opposite(side)) /\ y = x
      BY <1>8 DEF o, Raised
    <2>2. t[side][gr] # Null
      BY <1>1, <1>2
    <2>3. /\ Carried(r, t, S, p, n, pos)
          /\ e = Ngx!Rotate(Ngx!Paint(Ngx!Paint(d, par, "black"), gr, "red"), gr, Opposite(side))
      <3> HIDE DEF e
      <3> QED
        BY <1>2, <2>1, <2>2, RaiseCarried DEF e, d
    <2>4. e = Ngx!InsertRotated(d, x, side)
      BY <1>3, <1>5, <2>3 DEF Ngx!InsertRotated, o
    <2> QED
      BY <2>1, <2>3, <2>4
  <1>9. /\ y = IF x = d[o][par] THEN par ELSE x
        /\ e = Ngx!InsertRotated(IF x = d[o][par] THEN Ngx!Rotate(d, par, side) ELSE d, y, side)
        /\ Carried(r, t, S, p, n, pos) /\ y \in S
    BY <1>2, <1>6, <1>7, <1>8
  <1> HIDE DEF e
  <1>10. (\E c : Ngx!InsertAt(e, c, y)) /\ Ngx!Black(e, e.parent[y])
    BY <1>1, <1>2, <1>4, <1>6, <1>9, NgxOk, Ngx!InsertTurn
  <1>11. Black(r, r.parent[y])
    <2>1. Held(r, S, p, n, pos)
      BY <1>9 DEF Carried
    <2>2. Red(r, r.parent[y]) <=> Ngx!Red(e, e.parent[y])
      BY <1>9, <2>1, HeldColors DEF e
    <2> QED
      BY <1>10, <2>2 DEF Black, Ngx!Black
  <1> QED
    BY <1>9, <1>10, <1>11 DEF e

\* The end of the insert loop.
LEMMA InsertSettles ==
  ASSUME NEW t, NEW S, NEW p, NEW n, NEW pos, Held(t, S, p, n, pos),
         NEW b, NEW x, Ngx!InsertAt(Drawn(t, S, p), b, x), ~ Red(t, t.parent[x]),
         NEW r, r = Paint(t, t.root, "black")
  PROVE  /\ Carried(r, t, S, p, n, pos) /\ \E c : Ngx!Settled(Drawn(r, S, p), c)
  <1> DEFINE d == Drawn(t, S, p)
             e == Drawn(r, S, p)
  <1>1. Drawing(d, t, S, p) /\ Ngx!Ordered(d, n, pos) /\ Kept(t, S, p)
    BY HeldFacts
  <1>2. Ngx!InsertAt(d, b, x)
    OBVIOUS
  <1> HIDE DEF d
  <1>3. x \in S /\ d.root = t.root
    BY <1>1, <1>2 DEF Drawing, Ngx!InsertAt
  <1>4. t.root \in S
    BY <1>1, <1>3 DEF Kept
  <1>5. Coated(r, t, S, p, n, pos, t.root, "black")
    BY <1>4, PaintCarried
  <1>6. e = Ngx!Paint(d, d.root, "black") /\ Carried(r, t, S, p, n, pos)
    BY <1>3, <1>5 DEF Coated, d
  <1>7. ~ (x # d.root /\ Ngx!Red(d, d.parent[x]))
    BY <1>3, HeldColors DEF d
  <1> HIDE DEF e
  <1>8. \E c : Ngx!Settled(e, c)
    BY <1>1, <1>2, <1>6, <1>7, NgxOk, Ngx!InsertEnds
  <1> QED
    BY <1>6, <1>8 DEF e

\* The place that the delete loop is at, below up: a black is missing there.
Short(d, c, x, side) == Ngx!Lacking(d, c, x, up, side)

\* The delete loop knows the parent and the side of the place it is at.
LEMMA PlaceKnown ==
  ASSUME NEW t, NEW S, NEW p, NEW n, NEW pos, Held(t, S, p, n, pos),
         NEW b, NEW x, Ngx!DeleteAt(Drawn(t, S, p), b, x), x # t.root, Black(t, x),
         Drawn(t, S, p).parent[x] = up,
         NEW side, side = IF t.left[up] = x THEN "left" ELSE "right"
  PROVE  /\ up \in S /\ side \in Sides /\ x \in S \cup {Null}
         /\ side = Ngx!SideOf(Drawn(t, S, p), x) /\ Short(Drawn(t, S, p), b, x, side)
         /\ Ngx!Black(Drawn(t, S, p), x)
  <1> DEFINE d == Drawn(t, S, p)
  <1>1. /\ Drawing(d, t, S, p) /\ Ngx!Ordered(d, n, pos) /\ Ngx!DeleteAt(d, b, x)
        /\ d.parent[x] = up
    BY HeldFacts
  <1> HIDE DEF d
  <1>2. d.root = t.root /\ Ngx!In(d) = S /\ x \in S \cup {Null}
    BY <1>1 DEF Drawing, Ngx!DeleteAt
  <1>3. Ngx!Black(d, x)
    BY <1>1, <1>2 DEF Drawing, Black, Ngx!Black
  <1>4. Ngx!Lacking(d, b, x, d.parent[x], Ngx!SideOf(d, x))
    BY <1>1, <1>2, <1>3, NgxOk, Ngx!LackingHere
  <1>5. up \in S
    BY <1>1, <1>2, <1>4 DEF Ngx!Lacking
  <1>6. d.left[up] = t.left[up]
    BY <1>1, <1>5 DEF Drawing, Fields
  <1>7. side = Ngx!SideOf(d, x)
    BY <1>1, <1>6 DEF Ngx!SideOf
  <1> QED
    BY <1>1, <1>2, <1>3, <1>4, <1>5, <1>7 DEF Short, Sides, d

\* The sibling is a node.
LEMMA SiblingNode ==
  ASSUME NEW t, NEW S, NEW p, NEW n, NEW pos, Held(t, S, p, n, pos),
         NEW c, NEW x, NEW side \in Sides, Short(Drawn(t, S, p), c, x, side)
  PROVE  /\ up \in S /\ t[Opposite(side)][up] \in S /\ t[Opposite(side)][up] # up
         /\ Drawn(t, S, p)[Opposite(side)][up] = t[Opposite(side)][up]
         /\ Drawn(t, S, p).parent[x] = up
  <1> DEFINE d == Drawn(t, S, p)
             o == Opposite(side)
             w == d[o][up]
  <1>1. Drawing(d, t, S, p) /\ Ngx!Ordered(d, n, pos)
    BY HeldFacts
  <1>2. Ngx!Lacking(d, c, x, up, side)
    BY DEF Short
  <1> HIDE DEF d
  <1>3. up \in S /\ d.parent[x] = up
    BY <1>1, <1>2 DEF Drawing, Ngx!Lacking
  <1>4. o = Ngx!Opposite(side) /\ o \in Fields
    BY SidesSame
  <1> HIDE DEF o
  <1>5. w = t[o][up]
    BY <1>1, <1>3, <1>4 DEF Drawing
  <1> HIDE DEF w
  <1>6. Ngx!SiblingFacts(d, c, x, up, side, o, w)
    <2>1. w = d[o][up]
      BY DEF w
    <2> QED
      BY <1>1, <1>2, <1>4, <2>1, NgxOk, Ngx!SiblingKnown
  <1>7. w \in S /\ w # up
    BY <1>1, <1>6 DEF Ngx!SiblingFacts, Drawing
  <1> QED
    BY <1>3, <1>5, <1>7 DEF d, o, w

\* The sibling is made black.
LEMMA SiblingCarried ==
  ASSUME NEW t, NEW S, NEW p, NEW n, NEW pos, Held(t, S, p, n, pos),
         NEW b, NEW x, NEW side \in Sides, Short(Drawn(t, S, p), b, x, side),
         NEW s, s = BlackSibling(t, side)
  PROVE  /\ Carried(s, t, S, p, n, pos)
         /\ Drawn(s, S, p) = Ngx!BlackSibling(Drawn(t, S, p), x, side)
         /\ \E c : Short(Drawn(s, S, p), c, x, side)
         /\ Black(s, s[Opposite(side)][up])
  <1> DEFINE d == Drawn(t, S, p)
             e == Drawn(s, S, p)
             o == Opposite(side)
             w == t[o][up]
  <1>1. /\ Drawing(d, t, S, p) /\ Ngx!Ordered(d, n, pos) /\ Kept(t, S, p) /\ Null \notin S
        /\ S \subseteq Keys
    BY HeldFacts
  <1>2. up \in S /\ w \in S /\ w # up /\ d[o][up] = w /\ d.parent[x] = up
    BY SiblingNode
  <1>3. o = Ngx!Opposite(side) /\ o \in Sides /\ Opposite(o) = side
    BY SidesSame
  <1>4. Ngx!Lacking(d, b, x, up, side)
    BY DEF Short
  <1>5. Red(t, w) <=> Ngx!Red(d, w)
    BY <1>1, <1>2 DEF Drawing
  <1>6. CASE Black(t, w)
    <2>1. s = t
      BY <1>6 DEF BlackSibling
    <2>2. Ngx!BlackSibling(d, x, side) = d
      BY <1>2, <1>3, <1>5, <1>6 DEF Ngx!BlackSibling, Ngx!Black, Black
    <2>3. Carried(s, t, S, p, n, pos)
      BY <2>1 DEF Carried, Apart
    <2> QED
      BY <1>6, <2>1, <2>2, <2>3
  <1>7. CASE ~ Black(t, w)
    <2>1. s = Rotate(Paint(Paint(t, w, "black"), up, "red"), up, side)
      BY <1>7 DEF BlackSibling
    <2>2. t[o][up] # Null
      BY <1>1, <1>2
    <2>3. /\ Carried(s, t, S, p, n, pos)
          /\ e = Ngx!Rotate(Ngx!Paint(Ngx!Paint(d, w, "black"), up, "red"), up, side)
      <3>1. s = Rotate(Paint(Paint(t, w, "black"), up, "red"), up, Opposite(o))
        BY <1>3, <2>1
      <3>2. /\ Carried(s, t, S, p, n, pos)
            /\ e = Ngx!Rotate(Ngx!Paint(Ngx!Paint(d, w, "black"), up, "red"), up, Opposite(o))
        <4> HIDE DEF o, w, e, d
        <4> QED
          BY <1>2, <1>3, <2>2, <3>1, RaiseCarried DEF e, d
      <3> QED
        BY <1>3, <3>2
    <2>4. e = Ngx!BlackSibling(d, x, side)
      BY <1>2, <1>3, <1>5, <1>7, <2>3 DEF Ngx!BlackSibling, Ngx!Black, Black
    <2>5. Ngx!Black(e, e[o][up]) /\ \E c : Ngx!Lacking(e, c, x, up, side)
      <3> HIDE DEF d, e, o, w
      <3>1. Ngx!Red(d, w)
        BY <1>5, <1>7 DEF Black
      <3> QED
        BY <1>1, <1>2, <1>3, <1>4, <2>3, <3>1, NgxOk, Ngx!SiblingBlackened
    <2>6. \E c : Short(e, c, x, side)
      BY <2>5 DEF Short
    <2>7. Held(s, S, p, n, pos)
      BY <2>3 DEF Carried
    <2>8. e[o][up] = s[o][up] /\ s[o][up] \in S
      BY <2>6, <2>7, SiblingNode
    <2>9. Black(s, s[o][up])
      <3>1. Drawing(e, s, S, p)
        BY <2>7, HeldFacts
      <3> HIDE DEF e
      <3> QED
        BY <2>5, <2>8, <3>1 DEF Drawing, Black, Ngx!Black
    <2> QED
      BY <2>3, <2>4, <2>6, <2>9
  <1> QED
    BY <1>6, <1>7

\* A turn of the delete loop kept the shape, or the loop stops at a red node.
Still(r, t, x) == (r.parent = t.parent /\ r.root = t.root) \/ Red(r, x)

\* The turn of the delete loop that climbs.
LEMMA DeleteRecolorCarried ==
  ASSUME NEW t, NEW S, NEW p, NEW n, NEW pos, Held(t, S, p, n, pos),
         NEW b, NEW x, Ngx!DeleteAt(Drawn(t, S, p), b, x), x # t.root, Black(t, x),
         Drawn(t, S, p).parent[x] = up,
         NEW side, side = IF t.left[up] = x THEN "left" ELSE "right",
         NEW s, s = BlackSibling(t, side), NEW w, w = s[Opposite(side)][up],
         Black(s, s.left[w]), Black(s, s.right[w]), NEW r, r = Paint(s, w, "red")
  PROVE  /\ Carried(r, t, S, p, n, pos) /\ \E c : Ngx!DeleteAt(Drawn(r, S, p), c, up)
         /\ up \in S /\ r.parent[up] = s.parent[up]
         /\ Still(r, t, up)
  <1> DEFINE d == Drawn(t, S, p)
             e == Drawn(s, S, p)
             f == Drawn(r, S, p)
             o == Opposite(side)
  <1>1. /\ up \in S /\ side \in Sides /\ side = Ngx!SideOf(d, x) /\ Short(d, b, x, side)
        /\ Ngx!Black(d, x)
    BY PlaceKnown
  <1>2. Drawing(d, t, S, p) /\ Ngx!Ordered(d, n, pos)
    BY HeldFacts
  <1>3. /\ Carried(s, t, S, p, n, pos) /\ e = Ngx!BlackSibling(d, x, side)
        /\ \E c : Short(e, c, x, side)
    <2> HIDE DEF e, d
    <2>1. Short(Drawn(t, S, p), b, x, side)
      BY <1>1 DEF d
    <2> QED
      BY <1>1, <2>1, SiblingCarried DEF e, d
  <1>4. Held(s, S, p, n, pos)
    BY <1>3 DEF Carried
  <1>5. w \in S /\ e[o][up] = w /\ e.parent[x] = up
    <2>1. PICK c : Short(Drawn(s, S, p), c, x, side)
      BY <1>3
    <2> QED
      BY <1>1, <1>4, <2>1, SiblingNode
  <1>6. Drawing(e, s, S, p) /\ Kept(s, S, p) /\ s \in Trees
    BY <1>4, HeldFacts
  <1>7. Coated(r, s, S, p, n, pos, w, "red")
    BY <1>4, <1>5, PaintCarried
  <1>8. Carried(r, t, S, p, n, pos) /\ f = Ngx!Paint(e, w, "red")
    BY <1>3, <1>7, CarriedTwice DEF Coated
  <1>9. o = Ngx!Opposite(side) /\ {"left", "right"} \subseteq Fields
    BY SidesSame DEF Fields
  <1>10. w = Ngx!Sibling(e, x, side)
    BY <1>5, <1>9 DEF Ngx!Sibling
  <1>11. Ngx!Black(e, e.left[w]) /\ Ngx!Black(e, e.right[w])
    <2>1. e.left[w] = s.left[w] /\ e.right[w] = s.right[w]
      BY <1>5, <1>6, <1>9 DEF Drawing
    <2>2. s["left"][w] \in S \cup {Null} /\ s["right"][w] \in S \cup {Null}
      BY <1>5, <1>6 DEF Kept, Sides
    <2>3. s.left[w] \in S \cup {Null} /\ s.right[w] \in S \cup {Null}
      BY <2>2
    <2> HIDE DEF e
    <2> QED
      BY <1>6, <2>1, <2>3 DEF Drawing, Black, Ngx!Black
  <1>12. x # d.root
    BY <1>2 DEF Drawing
  <1>13. /\ \E c : Ngx!DeleteAt(f, c, e.parent[x])
         /\ (e = d /\ Ngx!SameLinks(f, d)) \/ Ngx!Red(f, e.parent[x])
    <2> HIDE DEF d, e, f, o
    <2>1. Ngx!DeleteAt(d, b, x)
      BY DEF d
    <2>2. Ngx!Ordered(d, n, pos) /\ x # d.root /\ Ngx!Black(d, x) /\ side = Ngx!SideOf(d, x)
      BY <1>1, <1>2, <1>12
    <2>3. /\ e = Ngx!BlackSibling(d, x, side) /\ w = Ngx!Sibling(e, x, side)
          /\ Ngx!Black(e, e.left[w]) /\ Ngx!Black(e, e.right[w]) /\ f = Ngx!Paint(e, w, "red")
      BY <1>3, <1>8, <1>10, <1>11
    <2>4. Ngx!CellsAssumption /\ Ngx!KeysAssumption
      BY NgxOk
    <2>5. /\ \E c : Ngx!DeleteAt(f, c, e.parent[x])
          /\ (e = d /\ Ngx!SameLinks(f, d)) \/ Ngx!Red(f, e.parent[x])
      BY ONLY <2>1, <2>2, <2>3, <2>4, Ngx!DeleteRecolored
    <2> QED
      BY <2>5
  <1>14. r.parent[up] = s.parent[up]
    BY <1>7 DEF Coated, Fields
  <1>15. (r.parent = t.parent /\ r.root = t.root) \/ Red(r, up)
    <2>1. CASE Ngx!Red(f, e.parent[x])
      <3>1. Drawing(f, r, S, p)
        BY <1>8, HeldFacts DEF Carried
      <3> HIDE DEF f, e
      <3> QED
        BY <1>1, <1>5, <2>1, <3>1 DEF Drawing
    <2>2. CASE ~ Ngx!Red(f, e.parent[x])
      <3>1. CASE Black(t, t[o][up])
        <4>1. s = t
          BY <3>1 DEF BlackSibling
        <4> QED
          BY <1>7, <4>1 DEF Coated, Fields
      <3>2. CASE ~ Black(t, t[o][up])
        <4>1. Black(s, s[o][up])
          <5>1. Short(Drawn(t, S, p), b, x, side)
            BY <1>1
          <5> HIDE DEF d, e, f
          <5> QED
            BY <1>1, <5>1, SiblingCarried
        <4>2. e = d
          BY <1>13, <2>2
        <4>3. t[o][up] \in S /\ d[o][up] = t[o][up]
          BY <1>1, SiblingNode
        <4>4. Ngx!Red(d, t[o][up])
          <5> HIDE DEF d
          <5> QED
            BY <1>2, <3>2, <4>3 DEF Drawing, Black
        <4>5. w = t[o][up]
          BY <1>5, <4>2, <4>3
        <4>6. Red(s, w)
          <5> HIDE DEF d, e
          <5> QED
            BY <1>5, <1>6, <4>2, <4>4, <4>5 DEF Drawing
        <4> QED
          BY <4>1, <4>6 DEF Black
      <3> QED
        BY <3>1, <3>2
    <2> QED
      BY <2>1, <2>2
  <1> QED
    BY <1>1, <1>5, <1>8, <1>13, <1>14, <1>15 DEF Still

\* The rotation that adds the missing black.
LEMMA LowerCarried ==
  ASSUME NEW v, NEW S, NEW p, NEW n, NEW pos, Held(v, S, p, n, pos),
         NEW c, NEW x, NEW side \in Sides, Short(Drawn(v, S, p), c, x, side),
         NEW w, w = v[Opposite(side)][up], Red(v, v[Opposite(side)][w]),
         NEW r, r = Lowered(v, side)
  PROVE  /\ Carried(r, v, S, p, n, pos)
         /\ Drawn(r, S, p) = Ngx!DeleteRotated(Drawn(v, S, p), x, side)
  <1> DEFINE g == Drawn(v, S, p)
             o == Opposite(side)
             a == v[o][w]
             k == v.color[up]
             s1 == Paint(v, w, k)
             s2 == Paint(s1, up, "black")
             s3 == Paint(s2, a, "black")
             s4 == Rotate(s3, up, side)
  <1>1. Drawing(g, v, S, p) /\ Kept(v, S, p) /\ v \in Trees /\ S \subseteq Keys /\ Null \notin S
    BY HeldFacts
  <1>2. up \in S /\ w \in S /\ g[o][up] = w /\ g.parent[x] = up
    BY SiblingNode
  <1>3. o \in Sides /\ o \in Fields /\ o = Ngx!Opposite(side)
    BY SidesSame
  <1>4. a \in S /\ g[o][w] = a
    <2>1. a \in S \cup {Null} /\ a # Null
      BY <1>1, <1>2, <1>3 DEF Kept, Red
    <2> HIDE DEF g
    <2> QED
      BY <1>1, <1>2, <1>3, <2>1 DEF Drawing
  <1>5. k \in {"red", "black"} /\ g.color[up] = k
    BY <1>1, <1>2 DEF Trees, Drawn
  <1>6. Coated(s1, v, S, p, n, pos, w, k)
    BY <1>2, <1>5, PaintCarried
  <1>7. Held(s1, S, p, n, pos)
    BY <1>6 DEF Coated, Carried
  <1> HIDE DEF s1
  <1>8. Coated(s2, s1, S, p, n, pos, up, "black")
    BY <1>2, <1>7, PaintCarried
  <1>9. Held(s2, S, p, n, pos)
    BY <1>8 DEF Coated, Carried
  <1> HIDE DEF s2
  <1>10. Coated(s3, s2, S, p, n, pos, a, "black")
    BY <1>4, <1>9, PaintCarried
  <1>11. Held(s3, S, p, n, pos)
    BY <1>10 DEF Coated, Carried
  <1>12. s2[o][w] = a
    BY <1>3, <1>6, <1>8 DEF Coated
  <1>13. r = s4
    BY <1>12 DEF Lowered, s1, s2
  <1>14. s3[o][up] # Null
    BY <1>1, <1>2, <1>3, <1>6, <1>8, <1>10 DEF Coated
  <1> HIDE DEF s3
  <1>15. Wheeled(s4, s3, S, p, n, pos, up, side)
    BY <1>2, <1>11, <1>14, RotateCarried
  <1> HIDE DEF s4
  <1>16. Carried(r, v, S, p, n, pos)
    BY <1>6, <1>8, <1>10, <1>13, <1>15, CarriedTwice DEF Coated, Wheeled
  <1> DEFINE g1 == Ngx!Paint(Ngx!Paint(g, w, k), up, "black")
  <1>17. Drawn(r, S, p) = Ngx!Rotate(Ngx!Paint(g1, a, "black"), up, side)
    BY <1>6, <1>8, <1>10, <1>13, <1>15 DEF Coated, Wheeled
  <1>18. g1[o][w] = a
    <2>1. g1 = Drawn(s2, S, p)
      BY <1>6, <1>8 DEF Coated
    <2>2. Drawing(Drawn(s2, S, p), s2, S, p)
      BY <1>9, HeldFacts
    <2> HIDE DEF g1
    <2> QED
      BY <1>2, <1>3, <1>12, <2>1, <2>2 DEF Drawing
  <1>19. w = Ngx!Sibling(g, x, side)
    BY <1>2, <1>3 DEF Ngx!Sibling
  <1>20. Ngx!DeleteRotated(g, x, side) = Ngx!Rotate(Ngx!Paint(g1, g1[o][w], "black"), up, side)
    BY <1>2, <1>3, <1>5, <1>19 DEF Ngx!DeleteRotated
  <1> QED
    BY <1>16, <1>17, <1>18, <1>20

\* The outer child of the sibling is made red.
LEMMA OuterCarried ==
  ASSUME NEW s, NEW S, NEW p, NEW n, NEW pos, Held(s, S, p, n, pos),
         NEW c, NEW x, NEW side \in Sides, Short(Drawn(s, S, p), c, x, side),
         NEW w, w = s[Opposite(side)][up], Black(s, w),
         Red(s, s.left[w]) \/ Red(s, s.right[w]),
         NEW v, v = OuterRed(s, w, side)
  PROVE  /\ Carried(v, s, S, p, n, pos)
         /\ Drawn(v, S, p) = Ngx!OuterRed(Drawn(s, S, p), w, side)
         /\ \E b : Short(Drawn(v, S, p), b, x, side)
         /\ Red(v, v[Opposite(side)][v[Opposite(side)][up]])
  <1> DEFINE e == Drawn(s, S, p)
             g == Drawn(v, S, p)
             o == Opposite(side)
             a == s[side][w]
  <1>1. /\ Drawing(e, s, S, p) /\ Ngx!Ordered(e, n, pos) /\ Kept(s, S, p) /\ Null \notin S
        /\ S \subseteq Keys
    BY HeldFacts
  <1>2. up \in S /\ w \in S /\ e[o][up] = w /\ e.parent[x] = up
    BY SiblingNode
  <1>3. /\ o \in Sides /\ o \in Fields /\ side \in Fields /\ o = Ngx!Opposite(side)
        /\ Opposite(o) = side /\ {o, side} = {"left", "right"}
    BY SidesSame DEF Sides, Fields, Opposite
  <1>4. /\ \A f \in Sides : e[f][w] = s[f][w] /\ s[f][w] \in S \cup {Null}
        /\ \A f \in Sides : Red(s, s[f][w]) <=> Ngx!Red(e, e[f][w])
    <2>1. \A f \in Sides : e[f][w] = s[f][w] /\ s[f][w] \in S \cup {Null}
      <3> HIDE DEF e
      <3> QED
        BY <1>1, <1>2, SidesSame DEF Drawing, Kept
    <2> HIDE DEF e
    <2> QED
      BY <1>1, <2>1 DEF Drawing
  <1>5. Ngx!Lacking(e, c, x, up, side)
    BY DEF Short
  <1>6. CASE Red(s, s[o][w])
    <2>1. v = s
      BY <1>6 DEF OuterRed
    <2>2. Ngx!OuterRed(e, w, side) = e
      BY <1>3, <1>4, <1>6 DEF Ngx!OuterRed
    <2>3. Carried(v, s, S, p, n, pos)
      BY <2>1 DEF Carried, Apart
    <2> QED
      BY <1>6, <2>1, <2>2, <2>3
  <1>7. CASE ~ Red(s, s[o][w])
    <2>1. Red(s, a)
      <3>1. s.left = s["left"] /\ s.right = s["right"]
        OBVIOUS
      <3>2. \E f \in {o, side} : Red(s, s[f][w])
        BY <1>3, <3>1
      <3> QED
        BY <1>7, <3>2
    <2>2. a \in S /\ s[side][w] # Null
      BY <1>1, <1>4, <2>1 DEF Red
    <2>3. v = Rotate(Paint(Paint(s, a, "black"), w, "red"), w, o)
      BY <1>7 DEF OuterRed
    <2>4. /\ Carried(v, s, S, p, n, pos)
          /\ g = Ngx!Rotate(Ngx!Paint(Ngx!Paint(e, a, "black"), w, "red"), w, o)
      <3>1. v = Rotate(Paint(Paint(s, a, "black"), w, "red"), w, Opposite(side))
        BY <2>3
      <3> HIDE DEF e, g, a
      <3> QED
        BY <1>2, <2>2, <3>1, RaiseCarried DEF e, g
    <2>5. a = e[side][w]
      BY <1>4
    <2>6. g = Ngx!OuterRed(e, w, side)
      BY <1>3, <1>4, <1>7, <2>4, <2>5 DEF Ngx!OuterRed
    <2>7. Held(v, S, p, n, pos)
      BY <2>4 DEF Carried
    <2>8. Drawing(g, v, S, p)
      BY <2>7, HeldFacts
    <2>9. /\ g[o][up] = a /\ g[o][a] = w /\ Ngx!Red(g, w)
          /\ \E b : Ngx!Lacking(g, b, x, up, side)
      <3> HIDE DEF e, g, a, o
      <3>1. Ngx!Black(e, w)
        BY <1>1, <1>2 DEF Drawing, Black, Ngx!Black
      <3>2. Ngx!Red(e, a) /\ Ngx!Black(e, e[o][w])
        BY <1>3, <1>4, <1>7, <2>1, <2>5 DEF Ngx!Black
      <3>3. Ngx!Ordered(e, n, pos) /\ o = Ngx!Opposite(side) /\ w = e[o][up]
        BY <1>1, <1>2, <1>3
      <3>4. Ngx!CellsAssumption /\ Ngx!KeysAssumption
        BY NgxOk
      <3> QED
        BY ONLY <1>5, <2>4, <2>5, <3>1, <3>2, <3>3, <3>4, Ngx!OuterReddened
    <2>10. v[o][up] = a /\ v[o][a] = w /\ Red(v, w)
      <3> HIDE DEF g, a
      <3> QED
        BY <1>2, <1>3, <2>2, <2>8, <2>9 DEF Drawing
    <2>11. \E b : Short(g, b, x, side)
      BY <2>9 DEF Short
    <2> QED
      BY <2>4, <2>6, <2>10, <2>11
  <1> QED
    BY <1>6, <1>7

\* The turn of the delete loop that rotates.
LEMMA DeleteRotateCarried ==
  ASSUME NEW t, NEW S, NEW p, NEW n, NEW pos, Held(t, S, p, n, pos),
         NEW b, NEW x, Ngx!DeleteAt(Drawn(t, S, p), b, x), x # t.root, Black(t, x),
         Drawn(t, S, p).parent[x] = up,
         NEW side, side = IF t.left[up] = x THEN "left" ELSE "right",
         NEW s, s = BlackSibling(t, side), NEW w, w = s[Opposite(side)][up],
         Red(s, s.left[w]) \/ Red(s, s.right[w]),
         NEW r, r = Lowered(OuterRed(s, w, side), side)
  PROVE  /\ Carried(r, t, S, p, n, pos) /\ \E c : Ngx!DeleteAt(Drawn(r, S, p), c, r.root)
  <1> DEFINE d == Drawn(t, S, p)
             e == Drawn(s, S, p)
             v == OuterRed(s, w, side)
             g == Drawn(v, S, p)
             f == Drawn(r, S, p)
             o == Opposite(side)
  <1>1. /\ up \in S /\ side \in Sides /\ side = Ngx!SideOf(d, x) /\ Short(d, b, x, side)
        /\ Ngx!Black(d, x)
    BY PlaceKnown
  <1>2. Drawing(d, t, S, p) /\ Ngx!Ordered(d, n, pos)
    BY HeldFacts
  <1>3. /\ Carried(s, t, S, p, n, pos) /\ e = Ngx!BlackSibling(d, x, side)
        /\ (\E c : Short(e, c, x, side)) /\ Black(s, w)
    <2> HIDE DEF e, d
    <2>1. Short(Drawn(t, S, p), b, x, side)
      BY <1>1 DEF d
    <2> QED
      BY <1>1, <2>1, SiblingCarried DEF e, d
  <1>4. Held(s, S, p, n, pos)
    BY <1>3 DEF Carried
  <1>5. PICK c : Short(Drawn(s, S, p), c, x, side)
    BY <1>3
  <1>6. w \in S /\ e[o][up] = w /\ e.parent[x] = up
    BY <1>1, <1>4, <1>5, SiblingNode
  <1>7. /\ Carried(v, s, S, p, n, pos) /\ g = Ngx!OuterRed(e, w, side)
        /\ (\E a : Short(g, a, x, side)) /\ Red(v, v[o][v[o][up]])
    <2> HIDE DEF e, g, v
    <2>1. v = OuterRed(s, w, side)
      BY DEF v
    <2>2. side \in Sides /\ Black(s, w) /\ (Red(s, s.left[w]) \/ Red(s, s.right[w]))
      BY <1>1, <1>3
    <2>3. w = s[Opposite(side)][up]
      OBVIOUS
    <2>4. /\ Carried(v, s, S, p, n, pos)
          /\ Drawn(v, S, p) = Ngx!OuterRed(Drawn(s, S, p), w, side)
          /\ \E a : Short(Drawn(v, S, p), a, x, side)
          /\ Red(v, v[Opposite(side)][v[Opposite(side)][up]])
      BY ONLY <1>4, <1>5, <2>1, <2>2, <2>3, OuterCarried
    <2> QED
      BY <2>4 DEF e, g
  <1>8. Held(v, S, p, n, pos)
    BY <1>7 DEF Carried
  <1>9. PICK a : Short(Drawn(v, S, p), a, x, side)
    BY <1>7
  <1>10. Carried(r, v, S, p, n, pos) /\ f = Ngx!DeleteRotated(g, x, side)
    <2> HIDE DEF g, v, f
    <2>1. r = Lowered(v, side)
      BY DEF v
    <2> QED
      BY <1>1, <1>7, <1>8, <1>9, <2>1, LowerCarried DEF g, f
  <1>11. Carried(r, t, S, p, n, pos)
    BY <1>3, <1>7, <1>10, CarriedTwice
  <1>12. Drawing(f, r, S, p)
    BY <1>11, HeldFacts DEF Carried
  <1>13. \E a1 : Ngx!DeleteAt(f, a1, f.root)
    <2>1. Ngx!DeleteAt(d, b, x)
      OBVIOUS
    <2>2. x # d.root
      BY <1>2 DEF Drawing
    <2>3. w = Ngx!Sibling(e, x, side)
      BY <1>6, SidesSame DEF Ngx!Sibling
    <2>4. Ngx!Red(e, e.left[w]) \/ Ngx!Red(e, e.right[w])
      <3>1. Drawing(e, s, S, p) /\ Kept(s, S, p)
        BY <1>4, HeldFacts
      <3>2. s["left"][w] \in S \cup {Null} /\ s["right"][w] \in S \cup {Null}
        BY <1>6, <3>1 DEF Kept, Sides
      <3>3. s.left[w] \in S \cup {Null} /\ s.right[w] \in S \cup {Null}
        BY <3>2
      <3> HIDE DEF e
      <3>4. e.left[w] = s.left[w] /\ e.right[w] = s.right[w]
        BY <1>6, <3>1 DEF Drawing, Fields
      <3> QED
        BY <3>1, <3>3, <3>4 DEF Drawing
    <2>5. f = Ngx!DeleteRotated(Ngx!OuterRed(e, w, side), x, side)
      BY <1>7, <1>10
    <2> HIDE DEF d, e, f, g, v, o
    <2>6. Ngx!CellsAssumption /\ Ngx!KeysAssumption
      BY NgxOk
    <2> QED
      BY ONLY <1>1, <1>2, <1>3, <2>1, <2>2, <2>3, <2>4, <2>5, <2>6, Ngx!DeleteTurn
  <1> QED
    <2> HIDE DEF f
    <2>1. f.root = r.root
      BY <1>12 DEF Drawing
    <2> QED
      BY <1>11, <1>13, <2>1 DEF f

\* Drawing d at node x of the delete loop, whose parent is u: a black is missing there,
\* or x is the root and painting it black is all there is to do.
AtDelete(d, x, u) ==
  IF x = d.root THEN \E b : Ngx!Settled(Ngx!Paint(d, x, "black"), b)
  ELSE d.parent[x] = u /\ \E b : Ngx!DeleteAt(d, b, x)

\* The keys of the nodes go up.
Ascending(S, pos) == \A x, y \in S : pos[x] < pos[y] => x < y

\* The nodes outside the tree have no links, but for the one that is about to be freed.
Outside(t, S, g) ==
  \A x \in Keys \ S, f \in Sides :
    IF x = g THEN t[f][x] \in S \cup {Null} /\ t.parent[x] \in S \cup {Null}
    ELSE t[f][x] = Null /\ t.parent[x] = Null

\* What the loops, or the calls, have made of the colors.
Stage(d, m, x, u, g) ==
  /\ m = "idle" => g = Null /\ \E b : Ngx!Settled(d, b)
  /\ m = "insert" => g = Null /\ \E b : Ngx!InsertAt(d, b, x)
  /\ m = "delete" => g \in Keys /\ AtDelete(d, x, u)

\* What cur, up and gone hold.
Nulls == Keys \cup {Null}

\* All that is known of a state, when S are the nodes in the tree.
Known(t, m, x, u, g, S, p, n, pos) ==
  /\ Held(t, S, p, n, pos) /\ Ascending(S, pos) /\ Outside(t, S, g) /\ g \notin S
  /\ Stage(Drawn(t, S, p), m, x, u, g)
  /\ m \in {"idle", "insert", "delete"} /\ x \in Nulls /\ u \in Nulls /\ g \in Nulls

\* The inductive invariant.
IInv == \E S, p, n, pos : Known(tree, pc, cur, up, gone, S, p, n, pos)

\* A turn that moves links about keeps to the nodes of the tree.
LEMMA OutsideKept ==
  ASSUME NEW r, NEW t, NEW S, NEW g, Apart(r, t, S), Outside(t, S, g)
  PROVE  Outside(r, S, g)
  BY DEF Apart, Outside, Fields, Sides

\* The turns of the insert loop.
LEMMA InsertTurnsKnown ==
  ASSUME NEW S, NEW p, NEW n, NEW pos, Known(tree, pc, cur, up, gone, S, p, n, pos),
         InsertRecolor \/ InsertRotate \/ InsertDone
  PROVE  Known(tree', pc', cur', up', gone', S, p, n, pos)
  <1>1. /\ pc = "insert" /\ UNCHANGED <<up, gone>> /\ cur' \in Nulls
        /\ Held(tree, S, p, n, pos) /\ up \in Nulls /\ gone \in Nulls
        /\ Ascending(S, pos) /\ gone \notin S /\ Outside(tree, S, gone)
        /\ gone = Null /\ pc' \in {"idle", "insert", "delete"}
    <2>1. /\ pc = "insert" /\ UNCHANGED <<up, gone>>
          /\ Held(tree, S, p, n, pos) /\ up \in Nulls /\ gone \in Nulls
          /\ Ascending(S, pos) /\ gone \notin S /\ Outside(tree, S, gone) /\ gone = Null
          /\ pc' \in {"idle", "insert", "delete"}
      BY DEF Known, Stage, InsertRecolor, InsertRotate, InsertDone
    <2>2. cur \in Nulls
      BY DEF Known
    <2>3. tree \in Trees /\ tree.parent \in [Keys -> Nulls]
      BY <2>1 DEF Held, Trees, Links, Nulls
    <2>4. cur' \in Nulls
      <3>1. CASE InsertDone
        BY <3>1 DEF InsertDone, Nulls
      <3>2. CASE ~ InsertDone
        <4>1. RedParent
          BY <3>2 DEF InsertRecolor, InsertRotate
        <4>2. cur' \in {cur, tree.parent[cur], tree.parent[tree.parent[cur]]}
          BY <3>2 DEF InsertRecolor, InsertRotate
        <4>3. PICK b : Ngx!InsertAt(Drawn(tree, S, p), b, cur)
          BY <2>1 DEF Known, Stage
        <4>4. Around(tree, S, p, cur, tree.parent[cur], tree.parent[tree.parent[cur]],
                     SideOf(tree, tree.parent[cur]),
                     tree[Opposite(SideOf(tree, tree.parent[cur]))][tree.parent[tree.parent[cur]]])
          BY <2>1, <4>1, <4>3, InsertAround DEF RedParent
        <4> QED
          BY <2>1, <2>2, <4>2, <4>4 DEF Around, Nulls, Held
      <3> QED
        BY <3>1, <3>2
    <2> QED
      BY <2>1, <2>4
  <1>2. PICK b : Ngx!InsertAt(Drawn(tree, S, p), b, cur)
    BY <1>1 DEF Known, Stage
  <1>3. ASSUME Carried(tree', tree, S, p, n, pos), Stage(Drawn(tree', S, p), pc', cur', up', gone')
        PROVE  Known(tree', pc', cur', up', gone', S, p, n, pos)
    <2>1. Held(tree', S, p, n, pos) /\ Outside(tree', S, gone')
      BY <1>1, <1>3, OutsideKept DEF Carried
    <2> QED
      BY <1>1, <1>3, <2>1 DEF Known
  <1> DEFINE par == tree.parent[cur]
             gr == tree.parent[par]
             side == SideOf(tree, par)
             unc == tree[Opposite(side)][gr]
  <1>4. ASSUME RedParent
        PROVE  Around(tree, S, p, cur, par, gr, side, unc)
    BY <1>1, <1>2, <1>4, InsertAround DEF RedParent
  <1>5. CASE InsertRecolor
    <2>1. /\ RedParent /\ Red(tree, unc) /\ tree' = Recolored(tree, par, unc, gr)
          /\ cur' = gr /\ pc' = "insert"
      BY <1>5 DEF InsertRecolor
    <2>2. Around(tree, S, p, cur, par, gr, side, unc)
      BY <1>4, <2>1
    <2>3. Carried(tree', tree, S, p, n, pos) /\ \E c : Ngx!InsertAt(Drawn(tree', S, p), c, cur')
      <3> HIDE DEF par, gr, side, unc
      <3> QED
        BY <1>1, <1>2, <2>1, <2>2, RecolorCarried
    <2> QED
      BY <1>1, <1>3, <2>1, <2>3 DEF Stage
  <1>6. CASE InsertRotate
    <2>1. /\ RedParent /\ Black(tree, unc) /\ pc' = "insert"
          /\ cur' = IF cur = tree[Opposite(side)][par] THEN par ELSE cur
          /\ tree' = IF cur = tree[Opposite(side)][par]
                     THEN Raised(Rotate(tree, par, side), cur, gr, side)
                     ELSE Raised(tree, par, gr, side)
      BY <1>6 DEF InsertRotate
    <2>2. Around(tree, S, p, cur, par, gr, side, unc)
      BY <1>4, <2>1
    <2>3. Carried(tree', tree, S, p, n, pos) /\ \E c : Ngx!InsertAt(Drawn(tree', S, p), c, cur')
      <3> HIDE DEF par, gr, side, unc
      <3> QED
        BY <1>1, <1>2, <2>1, <2>2, InsertCarried
    <2> QED
      BY <1>1, <1>3, <2>1, <2>3 DEF Stage
  <1>7. CASE InsertDone
    <2>1. ~ Red(tree, tree.parent[cur]) /\ tree' = Paint(tree, tree.root, "black") /\ pc' = "idle"
      BY <1>7 DEF InsertDone, RedParent
    <2>2. Carried(tree', tree, S, p, n, pos) /\ \E c : Ngx!Settled(Drawn(tree', S, p), c)
      BY <1>1, <1>2, <2>1, InsertSettles
    <2> QED
      BY <1>1, <1>3, <2>1, <2>2 DEF Stage
  <1> QED
    BY <1>5, <1>6, <1>7

\* The node that is freed is not in the drawing.
LEMMA FreedHeld ==
  ASSUME NEW t, NEW S, NEW p, NEW n, NEW pos, Held(t, S, p, n, pos),
         NEW g \in Keys, g \notin S, NEW r, r = Freed(t, g)
  PROVE  /\ Held(r, S, p, n, pos) /\ Drawn(r, S, p) = Drawn(t, S, p)
         /\ Outside(t, S, g) => Outside(r, S, Null)
         /\ r.root = t.root /\ \A f \in Fields, x \in S : r[f][x] = t[f][x]
  <1>1. t \in Trees /\ S \subseteq Keys /\ Null \notin Keys /\ Kept(t, S, p)
    BY HeldFacts
  <1>2. /\ r.root = t.root
        /\ r.left = [t.left EXCEPT ![g] = Null] /\ r.right = [t.right EXCEPT ![g] = Null]
        /\ r.parent = [t.parent EXCEPT ![g] = Null] /\ r.color = [t.color EXCEPT ![g] = "black"]
        /\ r = [root |-> r.root, left |-> r.left, right |-> r.right,
                parent |-> r.parent, color |-> r.color]
    BY <1>1 DEF Freed, Trees
  <1>3. r \in Trees
    <2>1. /\ r.left \in Links /\ r.right \in Links /\ r.parent \in Links
          /\ r.color \in [Keys -> {"red", "black"}] /\ r.root \in Keys \cup {Null}
      BY <1>1, <1>2 DEF Trees, Links
    <2> QED
      BY <1>2, <2>1 DEF Trees
  <1>4. \A x \in S : /\ r.left[x] = t.left[x] /\ r.right[x] = t.right[x]
                     /\ r.parent[x] = t.parent[x] /\ r.color[x] = t.color[x]
    BY <1>1, <1>2 DEF Trees, Links
  <1>5. Drawn(r, S, p) = Drawn(t, S, p)
    BY <1>2, <1>4 DEF Drawn
  <1>6. Top(r)
    BY <1>1, <1>2, <1>4 DEF Held, Top, Kept
  <1>7. Held(r, S, p, n, pos)
    BY <1>3, <1>5, <1>6 DEF Held
  <1>8. ASSUME Outside(t, S, g) PROVE Outside(r, S, Null)
    <2>1. ASSUME NEW x \in Keys \ S, NEW f \in Sides
          PROVE  r[f][x] = Null /\ r.parent[x] = Null
      <3>1. CASE x = g
        BY <1>1, <1>2, <3>1 DEF Sides, Trees, Links
      <3>2. CASE x # g
        <4>1. t[f][x] = Null /\ t.parent[x] = Null
          BY <1>8, <3>2 DEF Outside
        <4> QED
          BY <1>1, <1>2, <3>2, <4>1 DEF Sides, Trees, Links
      <3> QED
        BY <3>1, <3>2
    <2> QED
      BY <1>1, <2>1 DEF Outside
  <1>9. \A f \in Fields, x \in S : r[f][x] = t[f][x]
    BY <1>4 DEF Fields
  <1> QED
    BY <1>2, <1>5, <1>7, <1>8, <1>9

\* The end of the delete loop.
LEMMA DeleteSettles ==
  ASSUME NEW t, NEW S, NEW p, NEW n, NEW pos, Held(t, S, p, n, pos),
         NEW x \in Nulls, NEW u, AtDelete(Drawn(t, S, p), x, u), ~ (Black(t, x) /\ x # t.root),
         NEW r, r = IF x = Null THEN t ELSE Paint(t, x, "black")
  PROVE  Carried(r, t, S, p, n, pos) /\ \E c : Ngx!Settled(Drawn(r, S, p), c)
  <1> DEFINE d == Drawn(t, S, p)
  <1>1. Drawing(d, t, S, p) /\ Ngx!Ordered(d, n, pos) /\ Kept(t, S, p) /\ Null \notin S
    BY HeldFacts
  <1>2. CASE x = Null
    <2>1. x = d.root
      BY <1>1, <1>2 DEF Drawing, Red, Black
    <2>2. \E c : Ngx!Settled(Ngx!Paint(d, x, "black"), c)
      BY <2>1 DEF AtDelete
    <2>3. Ngx!Paint(d, x, "black") = d
      <3>1. d \in Ngx!Trees /\ d.color[Null] = "black"
        BY <1>1 DEF Drawing, Drawn
      <3>2. d.color \in [Keys \cup {Null} -> {"red", "black"}]
        BY <3>1 DEF Ngx!Trees, Ngx!Cells
      <3>3. [d.color EXCEPT ![Null] = "black"] = d.color
        BY <3>1, <3>2
      <3> QED
        BY <1>2, <3>1, <3>3 DEF Ngx!Paint, Ngx!Set, Drawn
    <2> QED
      BY <1>2, <2>2, <2>3 DEF Carried, Apart
  <1>3. CASE x # Null
    <2>1. x \in S
      <3>1. CASE x = t.root
        BY <1>1, <1>3, <3>1 DEF Kept
      <3>2. CASE x # t.root
        <4>1. x # d.root
          BY <1>1, <3>2 DEF Drawing
        <4>2. PICK b : Ngx!DeleteAt(d, b, x)
          BY <4>1 DEF AtDelete
        <4> QED
          BY <1>1, <1>3, <4>2 DEF Ngx!DeleteAt, Drawing
      <3> QED
        BY <3>1, <3>2
    <2>2. Coated(r, t, S, p, n, pos, x, "black")
      BY <1>3, <2>1, PaintCarried
    <2>3. Drawn(r, S, p) = Ngx!Paint(d, x, "black") /\ Carried(r, t, S, p, n, pos)
      BY <2>2 DEF Coated
    <2>4. CASE x = d.root
      BY <2>3, <2>4 DEF AtDelete
    <2>5. CASE x # d.root
      <3>1. PICK b : Ngx!DeleteAt(d, b, x)
        BY <2>5 DEF AtDelete
      <3>2. Ngx!Red(d, x)
        <4> HIDE DEF d
        <4> QED
          BY <1>1, <2>1, <2>5 DEF Drawing, Black
      <3>3. \E c : Ngx!Settled(Drawn(r, S, p), c)
        <4> DEFINE e == Drawn(r, S, p)
        <4>1. e = Ngx!Paint(d, x, "black")
          BY <2>3
        <4> HIDE DEF d, e
        <4>2. ~ (x # d.root /\ Ngx!Black(d, x))
          BY <3>2 DEF Ngx!Black
        <4>3. \E c : Ngx!Settled(e, c)
          BY <1>1, <3>1, <4>1, <4>2, NgxOk, Ngx!DeleteEnds
        <4> QED
          BY <4>3 DEF e
      <3> QED
        BY <2>3, <3>3
    <2> QED
      BY <2>4, <2>5
  <1> QED
    BY <1>2, <1>3

\* The delete loop is at x.
LEMMA AtDeleteHere ==
  ASSUME NEW r, NEW S, NEW p, NEW n, NEW pos, Held(r, S, p, n, pos),
         NEW c, NEW x, Ngx!DeleteAt(Drawn(r, S, p), c, x), NEW u,
         x # r.root => Drawn(r, S, p).parent[x] = u
  PROVE  AtDelete(Drawn(r, S, p), x, u)
  <1> DEFINE d == Drawn(r, S, p)
             e == Ngx!Paint(d, x, "black")
  <1>1. Ngx!Ordered(d, n, pos) /\ d.root = r.root
    BY HeldFacts DEF Drawing
  <1>2. CASE x = d.root
    <2>1. \E b : Ngx!Settled(e, b)
      <3>1. e = Ngx!Paint(d, x, "black")
        OBVIOUS
      <3> HIDE DEF d, e
      <3>2. Ngx!DeleteAt(d, c, x)
        BY DEF d
      <3>3. ~ (x # d.root /\ Ngx!Black(d, x))
        BY <1>2
      <3> QED
        BY <1>1, <3>1, <3>2, <3>3, NgxOk, Ngx!DeleteEnds
    <2> QED
      BY <1>2, <2>1 DEF AtDelete
  <1>3. CASE x # d.root
    BY <1>1, <1>3 DEF AtDelete
  <1> QED
    BY <1>2, <1>3

\* The delete loop goes on.
LEMMA DeleteGoesOn ==
  ASSUME NEW S, NEW p, NEW n, NEW pos, Known(tree, pc, cur, up, gone, S, p, n, pos),
         pc = "delete", LacksBlack
  PROVE  /\ Held(tree, S, p, n, pos) /\ Drawn(tree, S, p).parent[cur] = up
         /\ (\E b : Ngx!DeleteAt(Drawn(tree, S, p), b, cur))
         /\ cur # tree.root /\ Black(tree, cur)
  <1>1. Held(tree, S, p, n, pos) /\ AtDelete(Drawn(tree, S, p), cur, up)
    BY DEF Known, Stage
  <1>2. Drawn(tree, S, p).root = tree.root
    BY <1>1, HeldFacts DEF Drawing
  <1> QED
    BY <1>1, <1>2 DEF LacksBlack, AtDelete

\* The turns of the delete loop.
LEMMA DeleteTurnsKnown ==
  ASSUME NEW S, NEW p, NEW n, NEW pos, Known(tree, pc, cur, up, gone, S, p, n, pos),
         DeleteRecolor \/ DeleteRotate \/ DeleteDone
  PROVE  Known(tree', pc', cur', up', gone', S, p, n, pos)
  <1>1. /\ pc = "delete" /\ Held(tree, S, p, n, pos) /\ up \in Nulls /\ gone \in Nulls
        /\ cur \in Nulls /\ Null \in Nulls
        /\ Ascending(S, pos) /\ gone \notin S /\ Outside(tree, S, gone) /\ gone \in Keys
    BY DEF Known, Stage, DeleteRecolor, DeleteRotate, DeleteDone, Nulls
  <1>2. S \subseteq Keys /\ Null \notin S
    BY <1>1, HeldFacts
  <1>3. ASSUME Carried(tree', tree, S, p, n, pos), AtDelete(Drawn(tree', S, p), cur', up'),
               pc' = "delete", gone' = gone, cur' \in Nulls, up' \in Nulls
        PROVE  Known(tree', pc', cur', up', gone', S, p, n, pos)
    <2>1. Held(tree', S, p, n, pos) /\ Outside(tree', S, gone')
      BY <1>1, <1>3, OutsideKept DEF Carried
    <2> QED
      BY <1>1, <1>3, <2>1 DEF Known, Stage
  <1> DEFINE s == BlackSibling(tree, CurSide)
             w == s[Opposite(CurSide)][up]
  <1>4. CASE DeleteRecolor
    <2>1. /\ pc' = "delete" /\ gone' = gone /\ LacksBlack
          /\ Black(s, s.left[w]) /\ Black(s, s.right[w])
          /\ tree' = Paint(s, w, "red") /\ cur' = up /\ up' = s.parent[up]
      BY <1>1, <1>4 DEF DeleteRecolor
    <2>2. PICK b : Ngx!DeleteAt(Drawn(tree, S, p), b, cur)
      BY <1>1, <2>1, DeleteGoesOn
    <2>3. /\ Held(tree, S, p, n, pos) /\ Drawn(tree, S, p).parent[cur] = up
          /\ cur # tree.root /\ Black(tree, cur)
      BY <1>1, <2>1, DeleteGoesOn
    <2>4. CurSide = IF tree.left[up] = cur THEN "left" ELSE "right"
      BY DEF CurSide
    <2>5. s = BlackSibling(tree, CurSide) /\ w = s[Opposite(CurSide)][up]
      OBVIOUS
    <2>6. /\ Carried(tree', tree, S, p, n, pos) /\ \E c : Ngx!DeleteAt(Drawn(tree', S, p), c, up)
          /\ up \in S /\ tree'.parent[up] = s.parent[up]
      <3> HIDE DEF s, w
      <3> QED
        BY ONLY <2>1, <2>2, <2>3, <2>4, <2>5, DeleteRecolorCarried, SMTT(60)
    <2>7. Drawing(Drawn(tree', S, p), tree', S, p) /\ tree' \in Trees /\ Held(tree', S, p, n, pos)
      BY <2>6, HeldFacts DEF Carried
    <2>8. Drawn(tree', S, p).parent[up] = up' /\ up' \in Nulls
      <3>1. up' = tree'.parent[up] /\ up \in Keys
        BY <1>2, <2>1, <2>6
      <3> HIDE DEF s, w
      <3>2. tree'.parent[up] \in Nulls
        BY <2>7, <3>1 DEF Trees, Links, Nulls
      <3> QED
        BY <2>6, <2>7, <3>1, <3>2 DEF Drawing
    <2>9. AtDelete(Drawn(tree', S, p), up, up')
      <3>1. PICK c : Ngx!DeleteAt(Drawn(tree', S, p), c, up)
        BY <2>6
      <3> QED
        BY <2>7, <2>8, <3>1, AtDeleteHere
    <2> QED
      <3> HIDE DEF s, w
      <3> QED
        BY <1>1, <1>3, <2>1, <2>6, <2>8, <2>9
  <1>5. CASE DeleteRotate
    <2>1. /\ pc' = "delete" /\ gone' = gone /\ up' = up /\ LacksBlack
          /\ Red(s, s.left[w]) \/ Red(s, s.right[w])
          /\ tree' = Lowered(OuterRed(s, w, CurSide), CurSide) /\ cur' = tree'.root
      BY <1>1, <1>5 DEF DeleteRotate
    <2>2. PICK b : Ngx!DeleteAt(Drawn(tree, S, p), b, cur)
      BY <1>1, <2>1, DeleteGoesOn
    <2>3. /\ Held(tree, S, p, n, pos) /\ Drawn(tree, S, p).parent[cur] = up
          /\ cur # tree.root /\ Black(tree, cur)
      BY <1>1, <2>1, DeleteGoesOn
    <2>4. CurSide = IF tree.left[up] = cur THEN "left" ELSE "right"
      BY DEF CurSide
    <2>5. s = BlackSibling(tree, CurSide) /\ w = s[Opposite(CurSide)][up]
      OBVIOUS
    <2>6. Carried(tree', tree, S, p, n, pos)
          /\ \E c : Ngx!DeleteAt(Drawn(tree', S, p), c, tree'.root)
      <3> HIDE DEF s, w
      <3> QED
        BY ONLY <2>1, <2>2, <2>3, <2>4, <2>5, DeleteRotateCarried
    <2>7. tree' \in Trees /\ Held(tree', S, p, n, pos)
      BY <2>6, HeldFacts DEF Carried
    <2>8. tree'.root \in Nulls
      BY <2>7 DEF Trees, Nulls
    <2>9. AtDelete(Drawn(tree', S, p), tree'.root, up')
      <3>1. PICK c : Ngx!DeleteAt(Drawn(tree', S, p), c, tree'.root)
        BY <2>6
      <3> HIDE DEF s, w
      <3> QED
        BY <2>7, <3>1, AtDeleteHere
    <2> QED
      <3> HIDE DEF s, w
      <3> QED
        BY <1>1, <1>3, <2>1, <2>6, <2>8, <2>9
  <1>6. CASE DeleteDone
    <2> DEFINE t2 == IF cur = Null THEN tree ELSE Paint(tree, cur, "black")
    <2>1. /\ ~ LacksBlack /\ tree' = Freed(t2, gone) /\ pc' = "idle"
          /\ cur' = Null /\ up' = Null /\ gone' = Null
      BY <1>6 DEF DeleteDone
    <2>2. AtDelete(Drawn(tree, S, p), cur, up)
      BY <1>1 DEF Known, Stage
    <2>3. ~ (Black(tree, cur) /\ cur # tree.root)
      BY <2>1 DEF LacksBlack
    <2>4. t2 = IF cur = Null THEN tree ELSE Paint(tree, cur, "black")
      OBVIOUS
    <2> HIDE DEF t2
    <2>5. Carried(t2, tree, S, p, n, pos) /\ \E c : Ngx!Settled(Drawn(t2, S, p), c)
      BY <1>1, <2>2, <2>3, <2>4, DeleteSettles
    <2>6. Held(t2, S, p, n, pos) /\ Outside(t2, S, gone)
      BY <1>1, <2>5, OutsideKept DEF Carried
    <2>7. /\ Held(tree', S, p, n, pos) /\ Drawn(tree', S, p) = Drawn(t2, S, p)
          /\ Outside(tree', S, Null)
      BY <1>1, <2>1, <2>6, FreedHeld
    <2>8. Stage(Drawn(tree', S, p), pc', cur', up', gone')
      <3>1. \E c : Ngx!Settled(Drawn(tree', S, p), c)
        BY <2>5, <2>7
      <3> QED
        BY <2>1, <3>1 DEF Stage
    <2> QED
      BY <1>1, <1>2, <2>1, <2>7, <2>8 DEF Known
  <1> QED
    BY <1>4, <1>5, <1>6

\* The nodes in S have the positions 1 .. n.
Placing(S, n, pos) ==
  /\ n \in Nat /\ pos \in [S -> 1 .. n] /\ S \subseteq Keys /\ Null \notin S
  /\ \A x, y \in S : pos[x] = pos[y] => x = y
  /\ \A i \in 1 .. n : \E x \in S : pos[x] = i

\* The nodes under x are those from lo[x] to hi[x].
Spanned(t, S, n, pos, lo, hi) ==
  /\ \A x \in S : lo[x] \in 1 .. n /\ hi[x] \in 1 .. n /\ lo[x] <= pos[x] /\ pos[x] <= hi[x]
  /\ \A x \in S : IF t.left[x] = Null THEN lo[x] = pos[x]
                  ELSE /\ t.left[x] \in S /\ lo[t.left[x]] = lo[x]
                       /\ hi[t.left[x]] = pos[x] - 1
  /\ \A x \in S : IF t.right[x] = Null THEN hi[x] = pos[x]
                  ELSE /\ t.right[x] \in S /\ lo[t.right[x]] = pos[x] + 1
                       /\ hi[t.right[x]] = hi[x]
  /\ IF t.root = Null THEN n = 0 ELSE t.root \in S /\ lo[t.root] = 1 /\ hi[t.root] = n

\* A tree in order, without its drawing.
LEMMA SpannedHere ==
  ASSUME NEW t, NEW S, NEW p, NEW n, NEW pos, Held(t, S, p, n, pos)
  PROVE  /\ Placing(S, n, pos)
         /\ \E lo, hi : Spanned(t, S, n, pos, lo, hi) /\ Ngx!Shape(Drawn(t, S, p), n, pos, lo, hi)
  <1> DEFINE d == Drawn(t, S, p)
  <1>1. Drawing(d, t, S, p) /\ S \subseteq Keys /\ Null \notin S /\ Ngx!Ordered(d, n, pos)
    BY HeldFacts
  <1> HIDE DEF d
  <1>2. PICK lo, hi : Ngx!Shape(d, n, pos, lo, hi)
    BY <1>1 DEF Ngx!Ordered
  <1>3. /\ Ngx!Numbered(d, n, pos) /\ Ngx!In(d) = S /\ Ngx!RootSpan(d, n, lo, hi)
        /\ Ngx!Bounded(S, n, pos, lo, hi) /\ d.root = t.root
        /\ \A x \in S : Ngx!LeftSpan(d, pos, lo, hi, x) /\ Ngx!RightSpan(d, pos, lo, hi, x)
        /\ \A x \in S : d.left[x] = t.left[x] /\ d.right[x] = t.right[x]
    BY <1>1, <1>2 DEF Ngx!Shape, Ngx!Spans, Drawing, Fields
  <1>4. Placing(S, n, pos)
    BY <1>1, <1>3 DEF Placing, Ngx!Numbered
  <1>5. \A x \in S : lo[x] \in 1 .. n /\ hi[x] \in 1 .. n /\ lo[x] <= pos[x] /\ pos[x] <= hi[x]
    BY <1>3 DEF Ngx!Bounded
  <1>6. \A x \in S : IF t.left[x] = Null THEN lo[x] = pos[x]
                     ELSE /\ t.left[x] \in S /\ lo[t.left[x]] = lo[x]
                          /\ hi[t.left[x]] = pos[x] - 1
    BY <1>3 DEF Ngx!LeftSpan
  <1>7. \A x \in S : IF t.right[x] = Null THEN hi[x] = pos[x]
                     ELSE /\ t.right[x] \in S /\ lo[t.right[x]] = pos[x] + 1
                          /\ hi[t.right[x]] = hi[x]
    BY <1>3 DEF Ngx!RightSpan
  <1>8. IF t.root = Null THEN n = 0 ELSE t.root \in S /\ lo[t.root] = 1 /\ hi[t.root] = n
    BY <1>3 DEF Ngx!RootSpan
  <1> QED
    BY <1>2, <1>4, <1>5, <1>6, <1>7, <1>8 DEF Spanned, d

\* A descent that turns at each node by a side of its own and stops at stop.
Descends(f, t, sd, stop, end) ==
  f = [x \in Keys |-> IF stop[x] \/ t[sd[x]][x] = Null THEN end[x] ELSE f[t[sd[x]][x]]]

\* It defines a function, whatever the links.
LEMMA Descent ==
  ASSUME NEW t \in Trees, NEW sd \in [Keys -> Sides], NEW stop \in [Keys -> BOOLEAN], NEW end
  PROVE  \E f : Descends(f, t, sd, stop, end)
  <1> DEFINE next == [x \in Keys |-> IF stop[x] THEN Null ELSE t[sd[x]][x]]
             val == [x \in Keys |-> end[x]]
  <1>1. next \in [Keys -> Keys \cup {Null}]
    BY DEF Trees, Links, Sides
  <1>2. Null \notin Keys
    BY KeysAssumption
  <1>3. \E c : Ngx!Follows(c, Keys, Null, next, val)
    <2> HIDE DEF next, val
    <2> QED
      BY <1>1, <1>2, NgxOk, Ngx!Chain
  <1>4. PICK c : c = [x \in Keys |-> IF next[x] = Null THEN val[x] ELSE c[next[x]]]
    BY <1>3 DEF Ngx!Follows
  <1>5. [x \in Keys |-> IF next[x] = Null THEN val[x] ELSE c[next[x]]]
          = [x \in Keys |-> IF stop[x] \/ t[sd[x]][x] = Null THEN end[x] ELSE c[t[sd[x]][x]]]
    OBVIOUS
  <1> HIDE DEF next, val
  <1> QED
    BY <1>4, <1>5 DEF Descends

\* The function that the search recurs on.
Searches(g, t, k) ==
  g = [x \in Keys \cup {Null} |-> IF x = Null \/ x = k THEN x
                                  ELSE IF k < x THEN g[t.left[x]] ELSE g[t.right[x]]]

\* There is one.
LEMMA SearchExists ==
  ASSUME NEW t \in Trees, NEW k \in Keys
  PROVE  \E g : Searches(g, t, k) /\ Search(t, k) = g[t.root]
  <1> DEFINE sd == [x \in Keys |-> IF k < x THEN "left" ELSE "right"]
             stop == [x \in Keys |-> x = k]
             end == [x \in Keys |-> IF x = k THEN x ELSE Null]
  <1>1. sd \in [Keys -> Sides] /\ stop \in [Keys -> BOOLEAN]
    BY DEF Sides
  <1>2. PICK f : Descends(f, t, sd, stop, end)
    <2> HIDE DEF sd, stop, end
    <2> QED
      BY <1>1, Descent
  <1>3. \A x \in Keys : f[x] = IF x = k THEN x ELSE IF t[sd[x]][x] = Null THEN Null
                               ELSE f[t[sd[x]][x]]
    BY <1>2 DEF Descends
  <1> DEFINE g == [x \in Keys \cup {Null} |-> IF x = Null THEN Null ELSE f[x]]
  <1>4. Null \notin Keys
    BY KeysAssumption
  <1>5. \A x \in Keys : t.left[x] \in Keys \cup {Null} /\ t.right[x] \in Keys \cup {Null}
    BY DEF Trees, Links
  <1>6. ASSUME NEW x \in Keys \cup {Null}
        PROVE  g[x] = IF x = Null \/ x = k THEN x
                      ELSE IF k < x THEN g[t.left[x]] ELSE g[t.right[x]]
    <2>1. CASE x = Null \/ x = k
      BY <1>3, <1>4, <2>1
    <2>2. CASE ~ (x = Null \/ x = k)
      <3>1. CASE k < x
        <4>1. f[x] = IF t.left[x] = Null THEN Null ELSE f[t.left[x]]
          BY <1>3, <2>2, <3>1
        <4> QED
          BY <1>5, <2>2, <3>1, <4>1
      <3>2. CASE ~ (k < x)
        <4>1. f[x] = IF t.right[x] = Null THEN Null ELSE f[t.right[x]]
          BY <1>3, <2>2, <3>2
        <4> QED
          BY <1>5, <2>2, <3>2, <4>1
      <3> QED
        BY <3>1, <3>2
    <2> QED
      BY <2>1, <2>2
  <1>7. g = [x \in Keys \cup {Null} |-> IF x = Null \/ x = k THEN x
                                       ELSE IF k < x THEN g[t.left[x]] ELSE g[t.right[x]]]
    <2>1. g = [x \in Keys \cup {Null} |-> g[x]]
      OBVIOUS
    <2> HIDE DEF g
    <2> QED
      BY <1>6, <2>1
  <1>8. Searches(g, t, k)
    <2> HIDE DEF g
    <2> QED
      BY <1>7 DEF Searches
  <1> DEFINE h == CHOOSE a : Searches(a, t, k)
  <1>9. Searches(h, t, k)
    <2> HIDE DEF g
    <2> QED
      BY <1>8
  <1>10. Search(t, k) = h[t.root]
    BY DEF Search, Searches
  <1> QED
    BY <1>9, <1>10

\* A search finds the keys in the tree and no others.
LEMMA SearchFinds ==
  ASSUME NEW t, NEW S, NEW p, NEW n, NEW pos, Held(t, S, p, n, pos), Ascending(S, pos),
         NEW k \in Keys
  PROVE  Search(t, k) = IF k \in S THEN k ELSE Null
  <1>1. Placing(S, n, pos) /\ t \in Trees
    BY HeldFacts, SpannedHere
  <1>2. PICK lo, hi : Spanned(t, S, n, pos, lo, hi)
    BY SpannedHere
  <1>3. PICK g : Searches(g, t, k) /\ Search(t, k) = g[t.root]
    BY <1>1, SearchExists
  <1> DEFINE m == [x \in S |-> hi[x] - lo[x]]
             P == {x \in S : g[x] = IF k \in S /\ lo[x] <= pos[k] /\ pos[k] <= hi[x]
                                    THEN k ELSE Null}
  <1>4. m \in [S -> Nat]
    BY <1>1, <1>2 DEF Spanned, Placing
  <1>5. /\ g[Null] = Null /\ Null \notin Keys /\ Keys \subseteq Nat
        /\ \A x \in S : g[x] = IF x = k THEN x ELSE IF k < x THEN g[t.left[x]] ELSE g[t.right[x]]
    BY <1>1, <1>3, KeysAssumption DEF Searches, Placing
  <1>6. ASSUME NEW x \in S, \A y \in S : m[y] < m[x] => y \in P PROVE x \in P
    <2>1. /\ lo[x] \in Nat /\ hi[x] \in Nat /\ pos[x] \in Nat /\ lo[x] <= pos[x] /\ pos[x] <= hi[x]
          /\ x \in Nat /\ k \in Nat
      BY <1>1, <1>2, <1>5 DEF Spanned, Placing
    <2>2. k \in S => /\ pos[k] \in Nat /\ (k < x <=> pos[k] < pos[x])
                     /\ (k = x <=> pos[k] = pos[x])
      BY <1>1, <1>5, <2>1 DEF Placing, Ascending
    <2>3. CASE x = k
      BY <1>5, <2>1, <2>3
    <2>4. CASE x # k /\ k < x
      <3>1. g[x] = g[t.left[x]]
        BY <1>5, <2>4
      <3>2. CASE t.left[x] = Null
        <4>1. lo[x] = pos[x]
          BY <1>2, <3>2 DEF Spanned
        <4> QED
          BY <1>5, <2>1, <2>2, <2>4, <3>1, <3>2, <4>1
      <3>3. CASE t.left[x] # Null
        <4> DEFINE z == t.left[x]
        <4>1. z \in S /\ lo[z] = lo[x] /\ hi[z] = pos[x] - 1
          BY <1>2, <3>3 DEF Spanned
        <4>2. m[z] < m[x]
          BY <2>1, <4>1
        <4>3. g[z] = IF k \in S /\ lo[z] <= pos[k] /\ pos[k] <= hi[z] THEN k ELSE Null
          BY <1>6, <4>1, <4>2
        <4> HIDE DEF m
        <4> QED
          BY <2>1, <2>2, <2>4, <3>1, <4>1, <4>3
      <3> QED
        BY <3>2, <3>3
    <2>5. CASE x # k /\ ~ (k < x)
      <3>1. g[x] = g[t.right[x]]
        BY <1>5, <2>5
      <3>2. CASE t.right[x] = Null
        <4>1. hi[x] = pos[x]
          BY <1>2, <3>2 DEF Spanned
        <4> QED
          BY <1>5, <2>1, <2>2, <2>5, <3>1, <3>2, <4>1
      <3>3. CASE t.right[x] # Null
        <4> DEFINE z == t.right[x]
        <4>1. z \in S /\ lo[z] = pos[x] + 1 /\ hi[z] = hi[x]
          BY <1>2, <3>3 DEF Spanned
        <4>2. m[z] < m[x]
          BY <2>1, <4>1
        <4>3. g[z] = IF k \in S /\ lo[z] <= pos[k] /\ pos[k] <= hi[z] THEN k ELSE Null
          BY <1>6, <4>1, <4>2
        <4> HIDE DEF m
        <4> QED
          BY <2>1, <2>2, <2>5, <3>1, <4>1, <4>3
      <3> QED
        BY <3>2, <3>3
    <2> QED
      BY <2>3, <2>4, <2>5
  <1> HIDE DEF m, P
  <1>7. S \subseteq P
    BY <1>4, <1>6, NgxOk, Ngx!Induct
  <1>8. CASE t.root = Null
    <2>1. S = {}
      BY <1>1, <1>2, <1>8 DEF Spanned, Placing
    <2> QED
      BY <1>3, <1>5, <1>8, <2>1
  <1>9. CASE t.root # Null
    <2>1. t.root \in S /\ lo[t.root] = 1 /\ hi[t.root] = n
      BY <1>2, <1>9 DEF Spanned
    <2>2. k \in S => 1 <= pos[k] /\ pos[k] <= n
      BY <1>1 DEF Placing
    <2> QED
      BY <1>3, <1>7, <2>1, <2>2 DEF P
  <1> QED
    BY <1>8, <1>9

\* The fields of a tree with a new red leaf below y.
Hung(r, t, k, y, side) ==
  /\ r \in Trees /\ r.root = t.root
  /\ \A x \in Keys : /\ r.color[x] = IF x = k THEN "red" ELSE t.color[x]
                     /\ r.parent[x] = IF x = k THEN y ELSE t.parent[x]
  /\ \A f \in Sides, x \in Keys : r[f][x] = IF x = y /\ f = side THEN k ELSE t[f][x]

\* The three assignments that hang it up.
LEMMA HungHere ==
  ASSUME NEW t \in Trees, NEW k \in Keys, NEW y \in Keys, NEW side \in Sides,
         NEW r, r = Paint(Set(Set(t, "parent", k, y), side, y, k), k, "red")
  PROVE  Hung(r, t, k, y, side)
  <1> DEFINE t1 == [t EXCEPT !.parent = [@ EXCEPT ![k] = y]]
             t2 == [t1 EXCEPT ![side] = [@ EXCEPT ![y] = k]]
  <1>1. t1 \in Trees /\ t1.root = t.root /\ t1.left = t.left /\ t1.right = t.right
        /\ t1.color = t.color /\ \A x \in Keys : t1.parent[x] = IF x = k THEN y ELSE t.parent[x]
    BY DEF Trees, Links
  <1>2. Set(t, "parent", k, y) = t1
    BY DEF Set, Trees
  <1> HIDE DEF t1
  <1>3. /\ t2 \in Trees /\ t2.root = t1.root /\ t2.parent = t1.parent /\ t2.color = t1.color
        /\ \A f \in Sides, x \in Keys : t2[f][x] = IF x = y /\ f = side THEN k ELSE t1[f][x]
    <2>1. CASE side = "left"
      BY <1>1, <2>1 DEF Trees, Links, Sides
    <2>2. CASE side = "right"
      BY <1>1, <2>2 DEF Trees, Links, Sides
    <2> QED
      BY <2>1, <2>2 DEF Sides
  <1>4. Set(t1, side, y, k) = t2
    BY DEF Set, Trees
  <1> HIDE DEF t2
  <1>5. r = [t2 EXCEPT !.color = [@ EXCEPT ![k] = "red"]]
    BY <1>2, <1>3, <1>4 DEF Paint, Set, Trees
  <1>6. /\ r \in Trees /\ r.root = t2.root /\ r.parent = t2.parent
        /\ r.left = t2.left /\ r.right = t2.right
        /\ \A x \in Keys : r.color[x] = IF x = k THEN "red" ELSE t2.color[x]
    BY <1>3, <1>5 DEF Trees
  <1>7. \A f \in Sides, x \in Keys : r[f][x] = IF x = y /\ f = side THEN k ELSE t[f][x]
    BY <1>1, <1>3, <1>6 DEF Sides
  <1> QED
    BY <1>1, <1>3, <1>6, <1>7 DEF Hung

\* The drawing gets a leaf.
LEMMA HungDrawn ==
  ASSUME NEW t, NEW S, NEW p, NEW n, NEW pos, Held(t, S, p, n, pos),
         NEW k \in Keys, k \notin S, t.left[k] = Null, t.right[k] = Null,
         NEW y \in S, NEW side \in Sides, NEW r, Hung(r, t, k, y, side)
  PROVE  Ngx!LeafLinked(Drawn(r, S \cup {k}, p), Drawn(t, S, p), k, y, side)
  <1> DEFINE d == Drawn(t, S, p)
             T == S \cup {k}
             e == Drawn(r, T, p)
  <1>1. t \in Trees /\ S \subseteq Keys /\ Null \notin S /\ Null \notin Keys /\ p \in Nulls
    BY HeldFacts DEF Nulls
  <1>2. r \in Trees /\ r.root = t.root /\ T \subseteq Keys
    BY <1>1 DEF Hung
  <1>3. e \in Ngx!Trees /\ e.root = d.root
    <2>1. e \in Ngx!Trees /\ e.root = r.root
      <3>1. T \in SUBSET Keys /\ p \in Keys \cup {Null}
        BY <1>1, <1>2 DEF Nulls
      <3> HIDE DEF T
      <3> QED
        BY <1>2, <3>1, DrawnFacts
    <2> QED
      BY <1>2, <2>1 DEF Drawn
  <1>4. \A x \in Nulls : /\ e.color[x] = IF x = k THEN "red" ELSE d.color[x]
                         /\ e.parent[x] = IF x = k THEN y ELSE d.parent[x]
    BY <1>1 DEF Hung, Drawn, Nulls
  <1>5. \A x \in Nulls : /\ e.left[x] = IF x = k THEN Null
                                        ELSE IF x = y /\ side = "left" THEN k ELSE d.left[x]
                         /\ e.right[x] = IF x = k THEN Null
                                        ELSE IF x = y /\ side = "right" THEN k ELSE d.right[x]
    <2>1. \A x \in Keys : /\ r.left[x] = IF x = y /\ side = "left" THEN k ELSE t.left[x]
                          /\ r.right[x] = IF x = y /\ side = "right" THEN k ELSE t.right[x]
      <3>1. r["left"] = r.left /\ r["right"] = r.right /\ t["left"] = t.left /\ t["right"] = t.right
        OBVIOUS
      <3> QED
        BY <3>1 DEF Hung, Sides
    <2> QED
      BY <1>1, <2>1 DEF Drawn, Nulls
  <1>6. \A f \in Sides, x \in Nulls :
           e[f][x] = IF x = k THEN Null ELSE IF x = y /\ f = side THEN k ELSE d[f][x]
    <2> HIDE DEF d, e
    <2> QED
      BY <1>5 DEF Sides
  <1> HIDE DEF d, e
  <1>7. Ngx!LeafLinked(e, d, k, y, side)
    BY <1>3, <1>4, <1>6, SidesSame DEF Ngx!LeafLinked, Ngx!Cells, Nulls
  <1> QED
    BY <1>7 DEF d, e

\* The binary insert goes down to a place between the keys.
LEMMA LinkedHung ==
  ASSUME NEW t, NEW S, NEW p, NEW n, NEW pos, Held(t, S, p, n, pos), Ascending(S, pos),
         t.root # Null, NEW k \in Keys, k \notin S, NEW r, r = Linked(t, k)
  PROVE  \E sd, y :
           /\ sd \in [S -> Sides] /\ \A x \in S : sd[x] = IF k < x THEN "left" ELSE "right"
           /\ Ngx!Parted(Drawn(t, S, p), pos, sd, y)
           /\ Hung(r, t, k, y, sd[y])
  <1> DEFINE d == Drawn(t, S, p)
             side(x) == IF k < x THEN "left" ELSE "right"
             sk == [x \in Keys |-> side(x)]
             stop == [x \in Keys |-> FALSE]
             end == [x \in Keys |-> x]
             sd == [x \in S |-> side(x)]
             last == CHOOSE f : f = [x \in Keys |-> IF t[side(x)][x] = Null THEN x
                                                    ELSE f[t[side(x)][x]]]
             y == last[t.root]
  <1>1. Drawing(d, t, S, p) /\ t \in Trees /\ S \subseteq Keys /\ Null \notin S /\ Null \notin Keys
    BY HeldFacts
  <1>2. Placing(S, n, pos)
    BY SpannedHere
  <1>3. PICK lo, hi : Spanned(t, S, n, pos, lo, hi) /\ Ngx!Shape(d, n, pos, lo, hi)
    BY SpannedHere
  <1>4. last = [x \in Keys |-> IF t[side(x)][x] = Null THEN x ELSE last[t[side(x)][x]]]
    <2>1. sk \in [Keys -> Sides] /\ stop \in [Keys -> BOOLEAN]
      BY DEF Sides
    <2>2. PICK f : Descends(f, t, sk, stop, end)
      <3> HIDE DEF sk, stop, end
      <3> QED
        BY <1>1, <2>1, Descent
    <2>3. f = [x \in Keys |-> IF stop[x] \/ t[sk[x]][x] = Null THEN end[x] ELSE f[t[sk[x]][x]]]
      BY <2>2 DEF Descends
    <2>4. [x \in Keys |-> IF stop[x] \/ t[sk[x]][x] = Null THEN end[x] ELSE f[t[sk[x]][x]]]
            = [x \in Keys |-> IF t[side(x)][x] = Null THEN x ELSE f[t[side(x)][x]]]
      OBVIOUS
    <2>5. f = [x \in Keys |-> IF t[side(x)][x] = Null THEN x ELSE f[t[side(x)][x]]]
      <3> HIDE DEF sk, stop, end, side
      <3> QED
        BY <2>3, <2>4
    <2> HIDE DEF side
    <2> QED
      BY <2>5
  <1>5. sd \in [S -> Sides] /\ \A x \in S : sd[x] = side(x) /\ side(x) \in Sides
    BY DEF Sides
  <1>6. r = Paint(Set(Set(t, "parent", k, y), side(y), y, k), k, "red")
    BY DEF Linked
  <1> HIDE DEF last
  <1>7. \A x \in S : d[sd[x]][x] = t[side(x)][x]
    <2> HIDE DEF d
    <2> QED
      BY <1>1, <1>5, SidesSame DEF Drawing
  <1>8. \A x \in S : last[x] = IF d[sd[x]][x] = Null THEN x ELSE last[d[sd[x]][x]]
    <2>1. \A x \in S : last[x] = IF t[side(x)][x] = Null THEN x ELSE last[t[side(x)][x]]
      <3> HIDE DEF side
      <3> QED
        BY <1>1, <1>4
    <2> HIDE DEF side, d, sd
    <2> QED
      BY <1>7, <2>1
  <1>9. ASSUME NEW x \in S, NEW z \in S, pos[x] < pos[z], sd[z] = "right" PROVE sd[x] = "right"
    <2>1. x \in Nat /\ z \in Nat /\ k \in Nat /\ x < z /\ ~ (k < z)
      BY <1>1, <1>9, KeysAssumption DEF Ascending
    <2>2. ~ (k < x)
      BY <2>1
    <2> QED
      BY <2>2
  <1>10. d.root = t.root /\ t.root \in S /\ Ngx!In(d) = S
    BY <1>1, <1>3 DEF Drawing, Spanned
  <1>11. Ngx!Parted(d, pos, sd, y)
    <2>1. sd \in [Ngx!In(d) -> Ngx!Sides] /\ d.root \in Ngx!In(d)
      BY <1>5, <1>10, SidesSame
    <2>2. \A x \in Ngx!In(d) : last[x] = IF d[sd[x]][x] = Null THEN x ELSE last[d[sd[x]][x]]
      BY <1>8, <1>10
    <2>3. \A x, z \in Ngx!In(d) : pos[x] < pos[z] /\ sd[z] = "right" => sd[x] = "right"
      BY <1>9, <1>10
    <2>4. Ngx!Shape(d, n, pos, lo, hi)
      BY <1>3
    <2>5. y = last[d.root]
      BY <1>10
    <2> HIDE DEF d, sd, y
    <2>6. Ngx!CellsAssumption /\ Ngx!KeysAssumption
      BY NgxOk
    <2>7. Ngx!Parted(d, pos, sd, last[d.root])
      BY ONLY <2>1, <2>2, <2>3, <2>4, <2>6, Ngx!DescentEnds
    <2> QED
      BY <2>5, <2>7
  <1>12. y \in S
    <2> HIDE DEF d, y, sd
    <2> QED
      BY <1>10, <1>11 DEF Ngx!Parted
  <1>13. Hung(r, t, k, y, sd[y])
    <2>1. side(y) \in Sides /\ sd[y] = side(y) /\ y \in Keys
      BY <1>1, <1>5, <1>12
    <2> HIDE DEF side, y, sd
    <2> QED
      BY <1>1, <1>6, <2>1, HungHere
  <1> QED
    <2> HIDE DEF y, d, last
    <2>1. \A x \in S : sd[x] = IF k < x THEN "left" ELSE "right"
      OBVIOUS
    <2> HIDE DEF sd, side
    <2> QED
      BY <1>5, <1>11, <1>13, <2>1 DEF d

\* The positions of no nodes.
Nowhere == [x \in {} |-> 1]

\* The empty tree is in order.
LEMMA EmptyKnown ==
  ASSUME NEW x \in Nulls, NEW u \in Nulls
  PROVE  Known(Empty, "idle", x, u, Null, {}, Null, 0, Nowhere)
  <1> DEFINE d == Drawn(Empty, {}, Null)
             b == [y \in {Null} |-> 1]
  <1>1. Empty \in Trees /\ Empty.root = Null /\ Null \notin Keys /\ Null \in Keys \cup {Null}
    BY KeysAssumption DEF Empty, Trees, Links
  <1>2. /\ d \in Ngx!Trees /\ Ngx!In(d) = {} /\ d.root = Null
        /\ d.color = [y \in Keys \cup {Null} |-> "black"]
    <2>1. d \in Ngx!Trees /\ Ngx!In(d) = {} /\ d.root = Null
      <3> DEFINE t == Empty
                 T == {}
                 p == Null
      <3>1. /\ T \in SUBSET Keys /\ t \in Trees /\ t.root = Null /\ d = Drawn(t, T, p)
            /\ p \in Keys \cup {Null}
        BY <1>1
      <3> HIDE DEF d, t, T, p
      <3>2. /\ Drawn(t, T, p) \in Ngx!Trees /\ Ngx!In(Drawn(t, T, p)) = T
            /\ Drawn(t, T, p).root = t.root
        BY ONLY <3>1, DrawnFacts
      <3> QED
        BY <3>1, <3>2 DEF T
    <2> QED
      BY <2>1 DEF Drawn
  <1> HIDE DEF d
  <1>3. Ngx!Shape(d, 0, Nowhere, Nowhere, Nowhere)
    <2>1. Ngx!Numbered(d, 0, Nowhere)
      BY <1>2 DEF Ngx!Numbered, Nowhere
    <2>2. Ngx!Spans(d, 0, Nowhere, Nowhere, Nowhere)
      BY <1>2 DEF Ngx!Spans, Ngx!Bounded, Ngx!RootSpan, Nowhere
    <2> QED
      BY <1>2, <2>1, <2>2 DEF Ngx!Shape, Ngx!Parents
  <1>4. Held(Empty, {}, Null, 0, Nowhere)
    <2>1. Ngx!Ordered(d, 0, Nowhere)
      BY <1>3 DEF Ngx!Ordered
    <2> QED
      BY <1>1, <2>1 DEF Held, Top, d
  <1>5. Ngx!Settled(d, b)
    <2>1. Ngx!Heights(d, b, Out, Out)
      BY <1>2 DEF Ngx!Heights, Ngx!Measured
    <2>2. Ngx!Black(d, d.root) /\ Ngx!Black(d, Null)
      BY <1>2 DEF Ngx!Black, Ngx!Red
    <2> QED
      BY <1>2, <2>1, <2>2 DEF Ngx!Settled, Ngx!Reds
  <1>6. Stage(d, "idle", x, u, Null)
    BY <1>5 DEF Stage
  <1>7. Outside(Empty, {}, Null)
    BY KeysAssumption DEF Outside, Empty, Sides
  <1> QED
    BY <1>4, <1>6, <1>7 DEF Known, Ascending, Nulls, d

\* The first node becomes the root.
LEMMA FirstKnown ==
  ASSUME NEW t, NEW S, NEW p, NEW n, NEW pos, NEW x \in Nulls, NEW u \in Nulls,
         Known(t, "idle", x, u, Null, S, p, n, pos), t.root = Null,
         NEW k \in Keys, NEW r, r = Linked(t, k)
  PROVE  /\ S = {} /\ n = 0
         /\ Known(r, "insert", k, u, Null, {k}, p, 1, [z \in {k} |-> 1])
  <1> DEFINE e == Drawn(r, {k}, p)
             pos1 == [z \in {k} |-> 1]
             b == [z \in {k, Null} |-> 1]
  <1>1. /\ Held(t, S, p, n, pos) /\ Outside(t, S, Null) /\ t \in Trees
        /\ p \in Keys \cup {Null} /\ Null \notin Keys
    BY HeldFacts DEF Known
  <1>2. S = {} /\ n = 0
    <2>1. Placing(S, n, pos)
      BY <1>1, SpannedHere
    <2>2. PICK lo, hi : Spanned(t, S, n, pos, lo, hi)
      BY <1>1, SpannedHere
    <2> QED
      BY <2>1, <2>2 DEF Spanned, Placing
  <1>3. \A z \in Keys : t.left[z] = Null /\ t.right[z] = Null /\ t.parent[z] = Null
    <2>1. \A z \in Keys, f \in Sides : t[f][z] = Null /\ t.parent[z] = Null
      BY <1>1, <1>2 DEF Outside
    <2>2. \A z \in Keys : t["left"][z] = Null /\ t["right"][z] = Null /\ t.parent[z] = Null
      BY <2>1 DEF Sides
    <2> QED
      BY <2>2
  <1>4. /\ r \in Trees /\ r.root = k /\ r.left = t.left /\ r.right = t.right
        /\ r.parent = t.parent /\ r.color = [t.color EXCEPT ![k] = "red"]
    BY <1>1 DEF Linked, Paint, Set, Trees, Links
  <1>5. /\ e \in Ngx!Trees /\ Ngx!In(e) = {k} /\ e.root = k
    <2>1. e \in Ngx!Trees /\ Ngx!In(e) = {k} /\ e.root = r.root
      <3> DEFINE T == {k}
      <3>1. T \in SUBSET Keys /\ r \in Trees /\ e = Drawn(r, T, p)
        BY <1>4
      <3> HIDE DEF e, T
      <3>2. /\ Drawn(r, T, p) \in Ngx!Trees /\ Ngx!In(Drawn(r, T, p)) = T
            /\ Drawn(r, T, p).root = r.root
        <4>1. p \in Keys \cup {Null}
          BY <1>1
        <4> QED
          BY ONLY <3>1, <4>1, DrawnFacts
      <3> QED
        BY <3>1, <3>2 DEF T
    <2> QED
      BY <1>4, <2>1
  <1>6. /\ e.left[k] = Null /\ e.right[k] = Null
        /\ e.color[k] = "red" /\ e.color[Null] = "black"
    BY <1>1, <1>3, <1>4 DEF Drawn, Trees
  <1> HIDE DEF e
  <1>7. Ngx!Shape(e, 1, pos1, pos1, pos1)
    <2>1. Ngx!Numbered(e, 1, pos1)
      BY <1>5 DEF Ngx!Numbered
    <2>2. Ngx!Spans(e, 1, pos1, pos1, pos1)
      BY <1>1, <1>5, <1>6 DEF Ngx!Spans, Ngx!Bounded, Ngx!RootSpan, Ngx!LeftSpan, Ngx!RightSpan
    <2> QED
      BY <1>5, <2>1, <2>2 DEF Ngx!Shape, Ngx!Parents
  <1>8. Held(r, {k}, p, 1, pos1)
    <2>1. Ngx!Ordered(e, 1, pos1)
      BY <1>7 DEF Ngx!Ordered
    <2>2. Top(r)
      BY <1>3, <1>4 DEF Top
    <2> QED
      BY <1>1, <1>4, <2>1, <2>2 DEF Held, e
  <1>9. Ngx!InsertAt(e, b, k)
    <2>1. Ngx!Red(e, k) /\ ~ Ngx!Red(e, Null) /\ k # Null /\ Out # k
      BY <1>1, <1>6, OutFacts DEF Ngx!Red
    <2>2. Ngx!Heights(e, b, Out, Out)
      <3>1. Ngx!Measured(e, b)
        BY <1>5 DEF Ngx!Measured
      <3>2. \A s \in Sides : e[s][k] = Null
        BY <1>6 DEF Sides
      <3>3. Ngx!HeightAt(e, b, Out, Out, k)
        BY <2>1, <3>2, SidesSame DEF Ngx!HeightAt, Ngx!One, Ngx!Black
      <3> QED
        BY <1>5, <3>1, <3>3 DEF Ngx!Heights
    <2>3. Ngx!Reds(e, k, Out)
      <3>1. \A s \in Sides : e[s][k] = Null
        BY <1>6 DEF Sides
      <3> QED
        BY <1>5, <2>1, <3>1, SidesSame DEF Ngx!Reds
    <2> QED
      BY <1>5, <2>1, <2>2, <2>3 DEF Ngx!InsertAt, Ngx!Black
  <1>10. Stage(e, "insert", k, u, Null)
    BY <1>9 DEF Stage
  <1>11. Outside(r, {k}, Null)
    <2>1. ASSUME NEW z \in Keys \ {k}, NEW f \in Sides PROVE r[f][z] = Null /\ r.parent[z] = Null
      BY <1>3, <1>4 DEF Sides
    <2> QED
      BY <1>1, <2>1 DEF Outside
  <1> QED
    BY <1>1, <1>2, <1>8, <1>10, <1>11 DEF Known, Ascending, Nulls, e

\* A new leaf makes a tree that the insert loop can start on.
LEMMA HungKnown ==
  ASSUME NEW t, NEW S, NEW p, NEW n, NEW pos, NEW x \in Nulls, NEW u \in Nulls,
         Known(t, "idle", x, u, Null, S, p, n, pos), t.root # Null,
         NEW k \in Keys, k \notin S, NEW r, r = Linked(t, k)
  PROVE  \E n2, pos2 : Known(r, "insert", k, u, Null, S \cup {k}, p, n2, pos2)
  <1> DEFINE d == Drawn(t, S, p)
             T == S \cup {k}
             e == Drawn(r, T, p)
  <1>1. /\ Held(t, S, p, n, pos) /\ Outside(t, S, Null) /\ Ascending(S, pos)
        /\ Stage(d, "idle", x, u, Null)
    BY DEF Known
  <1>2. /\ Drawing(d, t, S, p) /\ t \in Trees /\ S \subseteq Keys /\ Null \notin S
        /\ Null \notin Keys /\ Kept(t, S, p) /\ p \in Keys \cup {Null} /\ Ngx!Ordered(d, n, pos)
    BY <1>1, HeldFacts
  <1>3. t.left[k] = Null /\ t.right[k] = Null
    <2>1. t["left"][k] = Null /\ t["right"][k] = Null
      BY <1>1, <1>2 DEF Outside, Sides
    <2> QED
      BY <2>1
  <1>4. PICK sd, y : /\ sd \in [S -> Sides]
                     /\ \A z \in S : sd[z] = IF k < z THEN "left" ELSE "right"
                     /\ Ngx!Parted(d, pos, sd, y) /\ Hung(r, t, k, y, sd[y])
    <2> HIDE DEF d
    <2>1. \E sd, y :
           /\ sd \in [S -> Sides] /\ \A z \in S : sd[z] = IF k < z THEN "left" ELSE "right"
           /\ Ngx!Parted(Drawn(t, S, p), pos, sd, y)
           /\ Hung(r, t, k, y, sd[y])
      BY <1>1, LinkedHung
    <2> QED
      BY <2>1 DEF d
  <1> DEFINE side == sd[y]
             m == Ngx!Slot(pos, y, side)
             pos2 == Ngx!MadeRoom(S, pos, k, m)
  <1>5. Ngx!In(d) = S /\ d.root = t.root
    BY <1>2 DEF Drawing
  <1>6. y \in S /\ d[side][y] = Null /\ side \in Sides /\ Ngx!Sides = Sides
    BY <1>4, <1>5, SidesSame DEF Ngx!Parted
  <1>7. Ngx!LeafLinked(e, d, k, y, side)
    <2>1. Hung(r, t, k, y, side)
      BY <1>4
    <2> HIDE DEF side, d, e
    <2> QED
      BY <1>1, <1>3, <1>6, <2>1, HungDrawn DEF d, e
  <1>8. Ngx!In(e) = T /\ Ngx!Ordered(e, n + 1, pos2)
    <2>1. PICK lo, hi : Ngx!Shape(d, n, pos, lo, hi)
      BY <1>2 DEF Ngx!Ordered
    <2>2. k \in Keys /\ k \notin Ngx!In(d) /\ y \in Ngx!In(d) /\ side \in Ngx!Sides
      BY <1>5, <1>6
    <2>3. m = Ngx!Slot(pos, y, side) /\ d[side][y] = Null
      BY <1>6
    <2>4. Ngx!CellsAssumption /\ Ngx!KeysAssumption
      BY NgxOk
    <2> HIDE DEF d, e, side, m
    <2>5. /\ Ngx!In(e) = Ngx!In(d) \cup {k}
          /\ Ngx!Ordered(e, n + 1, Ngx!MadeRoom(Ngx!In(d), pos, k, m))
      BY ONLY <1>7, <2>1, <2>2, <2>3, <2>4, Ngx!LeafShape
    <2> QED
      BY <1>5, <2>5
  <1>9. \E c : Ngx!InsertAt(e, c, k)
    <2>1. PICK b : Ngx!Settled(d, b)
      BY <1>1 DEF Stage
    <2>2. k \in Keys /\ k \notin Ngx!In(d) /\ y \in Ngx!In(d) /\ side \in Ngx!Sides
      BY <1>5, <1>6
    <2>3. d[side][y] = Null /\ Ngx!In(e) = Ngx!In(d) \cup {k}
      BY <1>5, <1>6, <1>8
    <2>4. Ngx!CellsAssumption /\ Ngx!KeysAssumption
      BY NgxOk
    <2> HIDE DEF d, e, side
    <2> QED
      BY ONLY <1>2, <1>7, <2>1, <2>2, <2>3, <2>4, Ngx!LeafColors
  <1>10. Held(r, T, p, n + 1, pos2)
    <2>1. r \in Trees /\ r.root = t.root /\ \A z \in Keys : r.parent[z] = IF z = k THEN y ELSE t.parent[z]
      BY <1>4 DEF Hung
    <2>2. t.root \in S /\ t.parent[t.root] = Null
      BY <1>2 DEF Kept
    <2>3. Top(r)
      BY <1>2, <2>1, <2>2 DEF Top
    <2> QED
      BY <1>2, <1>8, <2>1, <2>3 DEF Held
  <1>11. Ascending(T, pos2)
    <2>1. Placing(S, n, pos)
      BY <1>1, SpannedHere
    <2>2. pos[y] \in Nat /\ m \in Nat /\ \A z \in S : pos[z] \in Nat /\ z \in Nat
      BY <1>2, <1>6, <2>1, KeysAssumption DEF Placing, Ngx!Slot
    <2>3. \A z \in S : k > z <=> pos[z] < m
      <3>1. \A z \in S : sd[z] = "right" <=> pos[z] < m
        BY <1>4, <1>5 DEF Ngx!Parted
      <3>2. \A z \in S : sd[z] = "right" <=> ~ (k < z)
        BY <1>4
      <3>3. k \in Nat /\ \A z \in S : k # z
        BY KeysAssumption
      <3> HIDE DEF m
      <3> QED
        BY <2>2, <3>1, <3>2, <3>3
    <2>4. /\ pos2[k] = m
          /\ \A z \in S : pos2[z] = IF pos[z] >= m THEN pos[z] + 1 ELSE pos[z]
      BY DEF Ngx!MadeRoom
    <2> HIDE DEF pos2, m
    <2>5. ASSUME NEW a \in T, NEW c \in T, pos2[a] < pos2[c] PROVE a < c
      <3>0. k \in Nat /\ \A z \in S : k # z
        BY KeysAssumption
      <3>1. CASE a = k /\ c = k
        BY <2>2, <2>4, <2>5, <3>1
      <3>2. CASE a = k /\ c \in S
        BY <2>2, <2>3, <2>4, <2>5, <3>0, <3>2
      <3>3. CASE a \in S /\ c = k
        BY <2>2, <2>3, <2>4, <2>5, <3>0, <3>3
      <3>4. CASE a \in S /\ c \in S
        <4>1. pos[a] < pos[c]
          BY <2>2, <2>4, <2>5, <3>4
        <4> QED
          BY <1>1, <3>4, <4>1 DEF Ascending
      <3> QED
        BY <3>1, <3>2, <3>3, <3>4
    <2> QED
      BY <2>5 DEF Ascending
  <1>12. Outside(r, T, Null)
    <2>1. ASSUME NEW z \in Keys \ T, NEW f \in Sides PROVE r[f][z] = Null /\ r.parent[z] = Null
      <3>1. r[f][z] = t[f][z] /\ r.parent[z] = t.parent[z]
        BY <1>4, <1>6, <2>1 DEF Hung
      <3>2. t[f][z] = Null /\ t.parent[z] = Null
        BY <1>1, <1>2, <2>1 DEF Outside
      <3> QED
        BY <3>1, <3>2
    <2> QED
      BY <1>2, <2>1 DEF Outside
  <1>13. Stage(e, "insert", k, u, Null)
    BY <1>9 DEF Stage
  <1>14. Known(r, "insert", k, u, Null, T, p, n + 1, pos2)
    <2> HIDE DEF pos2
    <2> QED
      BY <1>2, <1>10, <1>11, <1>12, <1>13 DEF Known, Nulls
  <1> QED
    <2> HIDE DEF pos2
    <2> QED
      BY <1>14

\* The first or the last position under x.
End(lo, hi, x, side) == IF side = "left" THEN lo[x] ELSE hi[x]

\* The minimum and the maximum under x are the first and the last node under it.
LEMMA ExtremeEnds ==
  ASSUME NEW t, NEW S, NEW p, NEW n, NEW pos, Held(t, S, p, n, pos),
         NEW lo, NEW hi, Spanned(t, S, n, pos, lo, hi), NEW x \in S, NEW side \in Sides,
         NEW e, e = Extreme(t, x, side)
  PROVE  e \in S /\ pos[e] = End(lo, hi, x, side) /\ t[side][e] = Null
  <1> DEFINE sd == [y \in Keys |-> side]
             stop == [y \in Keys |-> FALSE]
             end == [y \in Keys |-> y]
             last == CHOOSE f : f = [y \in Keys |-> IF t[side][y] = Null THEN y
                                                    ELSE f[t[side][y]]]
             m == [y \in S |-> hi[y] - lo[y]]
             P == {y \in S : /\ last[y] \in S /\ pos[last[y]] = End(lo, hi, y, side)
                             /\ t[side][last[y]] = Null}
  <1>1. Placing(S, n, pos) /\ t \in Trees /\ Null \notin Keys /\ S \subseteq Keys /\ Null \notin S
    BY HeldFacts, SpannedHere
  <1>2. last = [y \in Keys |-> IF t[side][y] = Null THEN y ELSE last[t[side][y]]]
    <2>1. sd \in [Keys -> Sides] /\ stop \in [Keys -> BOOLEAN]
      OBVIOUS
    <2>2. PICK f : Descends(f, t, sd, stop, end)
      <3> HIDE DEF sd, stop, end
      <3> QED
        BY <1>1, <2>1, Descent
    <2>3. f = [y \in Keys |-> IF stop[y] \/ t[sd[y]][y] = Null THEN end[y] ELSE f[t[sd[y]][y]]]
      BY <2>2 DEF Descends
    <2>4. [y \in Keys |-> IF stop[y] \/ t[sd[y]][y] = Null THEN end[y] ELSE f[t[sd[y]][y]]]
            = [y \in Keys |-> IF t[side][y] = Null THEN y ELSE f[t[side][y]]]
      OBVIOUS
    <2>5. f = [y \in Keys |-> IF t[side][y] = Null THEN y ELSE f[t[side][y]]]
      <3> HIDE DEF sd, stop, end
      <3> QED
        BY <2>3, <2>4
    <2> QED
      BY <2>5
  <1>3. e = last[x]
    BY <1>1 DEF Extreme
  <1> HIDE DEF last
  <1>4. m \in [S -> Nat]
    BY <1>1 DEF Spanned, Placing
  <1>5. \A y \in S : last[y] = IF t[side][y] = Null THEN y ELSE last[t[side][y]]
    BY <1>1, <1>2
  <1>6. t["left"] = t.left /\ t["right"] = t.right
    OBVIOUS
  <1>7. ASSUME NEW y \in S, \A z \in S : m[z] < m[y] => z \in P PROVE y \in P
    <2>1. lo[y] \in Nat /\ hi[y] \in Nat /\ pos[y] \in Nat /\ lo[y] <= pos[y] /\ pos[y] <= hi[y]
      BY <1>1 DEF Spanned, Placing
    <2>2. CASE t[side][y] = Null
      <3>1. last[y] = y
        BY <1>5, <2>2
      <3>2. pos[y] = End(lo, hi, y, side)
        BY <1>6, <2>2 DEF Spanned, End, Sides
      <3> QED
        BY <2>2, <3>1, <3>2
    <2>3. CASE t[side][y] # Null
      <3> DEFINE z == t[side][y]
      <3>1. z \in S /\ End(lo, hi, z, side) = End(lo, hi, y, side) /\ m[z] < m[y]
        <4>1. CASE side = "left"
          <5>1. z \in S /\ lo[z] = lo[y] /\ hi[z] = pos[y] - 1
            BY <1>6, <2>3, <4>1 DEF Spanned
          <5> HIDE DEF z
          <5> QED
            BY <2>1, <4>1, <5>1 DEF End
        <4>2. CASE side = "right"
          <5>1. z \in S /\ lo[z] = pos[y] + 1 /\ hi[z] = hi[y]
            BY <1>6, <2>3, <4>2 DEF Spanned
          <5> HIDE DEF z
          <5> QED
            BY <2>1, <4>2, <5>1 DEF End
        <4> QED
          BY <4>1, <4>2 DEF Sides
      <3>2. z \in P /\ last[y] = last[z]
        BY <1>5, <1>7, <2>3, <3>1
      <3> QED
        BY <3>1, <3>2
    <2> QED
      BY <2>2, <2>3
  <1> HIDE DEF m, P
  <1>8. S \subseteq P
    BY <1>4, <1>7, NgxOk, Ngx!Induct
  <1> QED
    BY <1>3, <1>8 DEF P

\* The successor of a node with two children, and its parent.
Follower(t, S, pos, node, m, par) ==
  /\ m \in S /\ m # node /\ pos[m] = pos[node] + 1 /\ t.left[m] = Null
  /\ m # t.root /\ par = t.parent[m] /\ par \in S /\ par # m
  /\ t.right[m] # node /\ t.left[node] # m
  /\ IF par = node THEN t.right[node] = m ELSE t.left[par] = m /\ t.right[node] # m
  /\ node # t.root => t.parent[node] # m

\* It is the node after it.
LEMMA FollowerHere ==
  ASSUME NEW t, NEW S, NEW p, NEW n, NEW pos, Held(t, S, p, n, pos), NEW node \in S,
         t.left[node] # Null, t.right[node] # Null,
         NEW m, m = Extreme(t, t.right[node], "left")
  PROVE  Follower(t, S, pos, node, m, t.parent[m])
  <1>1. PICK lo, hi : Spanned(t, S, n, pos, lo, hi)
    BY SpannedHere
  <1>2. Placing(S, n, pos) /\ Kept(t, S, p) /\ Null \notin S
    BY HeldFacts, SpannedHere
  <1> DEFINE z == t.right[node]
             par == t.parent[m]
  <1>3. z \in S /\ lo[z] = pos[node] + 1
    BY <1>1 DEF Spanned
  <1>4. m \in S /\ pos[m] = lo[z] /\ t.left[m] = Null
    <2>1. m \in S /\ pos[m] = End(lo, hi, z, "left") /\ t["left"][m] = Null
      <3> HIDE DEF z
      <3>1. m = Extreme(t, z, "left") /\ "left" \in Sides
        BY DEF z, Sides
      <3> QED
        BY <1>1, <1>3, <3>1, ExtremeEnds
    <2> QED
      BY <2>1 DEF End
  <1>5. \A y \in S : pos[y] \in Nat /\ lo[y] \in Nat /\ hi[y] \in Nat
                     /\ lo[y] <= pos[y] /\ pos[y] <= hi[y]
    BY <1>1, <1>2 DEF Spanned, Placing
  <1>6. m # node
    BY <1>3, <1>4, <1>5
  <1>7. m # t.root
    <2>1. m = t.root => lo[m] = 1
      BY <1>1, <1>2, <1>4 DEF Spanned
    <2>2. lo[m] = pos[m]
      BY <1>1, <1>4 DEF Spanned
    <2>3. pos[node] \in 1 .. n
      BY <1>2 DEF Placing
    <2> QED
      BY <1>3, <1>4, <2>1, <2>2, <2>3
  <1>8. par \in S /\ par # m /\ t[SideOf(t, m)][par] = m
    BY <1>2, <1>4, <1>7 DEF Kept
  <1>9. t.left[node] # m
    <2>1. t.left[node] = m => hi[m] = pos[node] - 1
      BY <1>1 DEF Spanned
    <2> QED
      BY <1>3, <1>4, <1>5, <2>1
  <1>10. t.right[m] # node
    <2>1. t.right[m] = node => lo[node] = pos[m] + 1
      BY <1>1, <1>2, <1>4 DEF Spanned
    <2> QED
      BY <1>3, <1>4, <1>5, <2>1
  <1>11. IF par = node THEN t.right[node] = m ELSE t.left[par] = m /\ t.right[node] # m
    <2>1. t.left[par] = m \/ t.right[par] = m
      <3>1. SideOf(t, m) = "left" \/ SideOf(t, m) = "right"
        BY DEF SideOf
      <3> QED
        BY <1>8, <3>1
    <2>2. CASE par = node
      BY <1>9, <2>1, <2>2
    <2>3. CASE par # node
      <3>1. t.right[par] # m
        <4>1. t.right[par] = m => lo[m] = pos[par] + 1
          BY <1>1, <1>2, <1>4, <1>8 DEF Spanned
        <4>2. lo[m] = pos[m]
          BY <1>1, <1>4 DEF Spanned
        <4>3. pos[par] # pos[node]
          BY <1>2, <1>8, <2>3 DEF Placing
        <4> HIDE DEF par, z
        <4> QED
          BY <1>3, <1>4, <1>5, <1>8, <4>1, <4>2, <4>3
      <3>2. t.right[node] # m
        <4>1. t["right"][node] = m => t.parent[m] = node
          BY <1>2, <1>4 DEF Kept, Sides
        <4> QED
          BY <2>3, <4>1
      <3> QED
        BY <2>1, <2>3, <3>1, <3>2
    <2> QED
      BY <2>2, <2>3
  <1>12. node # t.root => t.parent[node] # m
    <2>1. ASSUME node # t.root, t.parent[node] = m PROVE FALSE
      <3>1. t[SideOf(t, node)][m] = node
        BY <1>2, <2>1 DEF Kept
      <3>2. t.left[m] = node \/ t.right[m] = node
        <4>1. SideOf(t, node) = "left" \/ SideOf(t, node) = "right"
          BY DEF SideOf
        <4> QED
          BY <3>1, <4>1
      <3> QED
        BY <1>2, <1>4, <1>10, <3>2
    <2> QED
      BY <2>1
  <1> QED
    BY <1>3, <1>4, <1>6, <1>7, <1>8, <1>9, <1>10, <1>11, <1>12 DEF Follower

\* r is t with temp, whose parent is par, in the place of m.
Bridged(r, t, m, temp, par) ==
  /\ r \in Trees /\ r.color = t.color /\ r.root = IF m = t.root THEN temp ELSE t.root
  /\ \A f \in Sides, x \in Keys :
       r[f][x] = IF m # t.root /\ x = t.parent[m] /\ f = SideOf(t, m) THEN temp ELSE t[f][x]
  /\ \A x \in Keys : r.parent[x] = IF x = temp THEN par ELSE t.parent[x]

\* The two assignments of rbtree_delete.
LEMMA BridgedHere ==
  ASSUME NEW t, NEW S, NEW p, NEW n, NEW pos, Held(t, S, p, n, pos), NEW m \in S,
         NEW temp \in S \cup {Null}, temp # m, temp # t.root \/ temp = Null,
         temp # Null => t.parent[temp] = m, NEW par, par = t.parent[m],
         NEW r, r = Relink(SetParent(t, temp, par), m, temp)
  PROVE  Bridged(r, t, m, temp, par)
  <1>1. /\ t \in Trees /\ S \subseteq Keys /\ Null \notin S /\ Null \notin Keys /\ Kept(t, S, p)
        /\ p \in Keys \cup {Null}
    BY HeldFacts
  <1> DEFINE s == SetParent(t, temp, par)
  <1>2. par \in S \cup {Null} /\ (par = Null <=> m = t.root) /\ par # m
    BY <1>1 DEF Kept
  <1>3. s = IF temp = Null THEN t ELSE [t EXCEPT !.parent = [@ EXCEPT ![temp] = par]]
    BY DEF SetParent, Set
  <1>4. /\ s \in Trees /\ s.root = t.root /\ s.left = t.left /\ s.right = t.right
        /\ s.color = t.color
        /\ \A x \in Keys : s.parent[x] = IF x = temp THEN par ELSE t.parent[x]
    BY <1>1, <1>2, <1>3 DEF Trees, Links
  <1> HIDE DEF s
  <1>5. s.parent[m] = par /\ SideOf(s, m) = SideOf(t, m)
    <2>1. s.parent[m] = par
      BY <1>1, <1>4
    <2> QED
      BY <1>4, <2>1 DEF SideOf
  <1>6. LinkSet(r, s, S, p, m, temp)
    <2>1. r = Relink(s, m, temp)
      BY DEF s
    <2>2. s.parent[m] \in S \cup {Null} /\ (s.parent[m] = Null <=> m = s.root)
      BY <1>2, <1>4, <1>5
    <2>3. temp \in Keys \cup {Null} /\ S \in SUBSET Keys
      BY <1>1
    <2> QED
      BY <1>1, <1>4, <2>1, <2>2, <2>3, RelinkDrawn
  <1>7. /\ r \in Trees /\ r.color = t.color
        /\ r.root = IF m = t.root THEN temp ELSE t.root
    BY <1>4, <1>6 DEF LinkSet
  <1>8. \A g \in Fields, y \in Keys :
        r[g][y] = IF m # t.root /\ g = SideOf(t, m) /\ y = par THEN temp ELSE s[g][y]
    BY <1>4, <1>5, <1>6 DEF LinkSet
  <1>9. \A x \in Keys : r.parent[x] = IF x = temp THEN par ELSE t.parent[x]
    <2>1. \A y \in Keys : r["parent"][y] = s["parent"][y]
      BY <1>8 DEF Fields, SideOf
    <2>2. \A y \in Keys : r.parent[y] = s.parent[y]
      BY <2>1
    <2> QED
      BY <1>4, <2>2
  <1>10. \A f \in Sides, x \in Keys :
           r[f][x] = IF m # t.root /\ x = t.parent[m] /\ f = SideOf(t, m) THEN temp ELSE t[f][x]
    <2>1. \A f \in Sides : s[f] = t[f]
      BY <1>4 DEF Sides
    <2> QED
      BY <1>8, <2>1, SidesSame
  <1> QED
    BY <1>7, <1>9, <1>10 DEF Bridged

\* The drawing without m, before the child of a root is painted.
Trimmed(q, d, e, m, temp) ==
  /\ Ngx!Spliced(q, d, m, temp) /\ Ngx!SameLinks(q, e) /\ Ngx!SameLinks(e, q)
  /\ m = d.root => q = Ngx!Paint(e, temp, "black")
  /\ m # d.root => q = e

\* The drawing loses m.
LEMMA BridgedDrawn ==
  ASSUME NEW t, NEW S, NEW p, NEW n, NEW pos, Held(t, S, p, n, pos), NEW m \in S,
         NEW temp \in S \cup {Null}, temp # m, NEW par, par = t.parent[m],
         NEW r, Bridged(r, t, m, temp, par),
         NEW T, T = S \ {m}, NEW p2, p2 = IF temp = Null THEN par ELSE p
  PROVE  \E q : Trimmed(q, Drawn(t, S, p), Drawn(r, T, p2), m, temp)
  <1> DEFINE d == Drawn(t, S, p)
             e == Drawn(r, T, p2)
             q == IF m = d.root THEN Ngx!Paint(e, temp, "black") ELSE e
  <1>1. /\ t \in Trees /\ S \subseteq Keys /\ Null \notin S /\ Null \notin Keys /\ Kept(t, S, p)
        /\ p \in Keys \cup {Null} /\ Drawing(d, t, S, p) /\ T \subseteq Keys
    BY HeldFacts
  <1>2. /\ p2 \in Keys \cup {Null} /\ par \in S \cup {Null} /\ r \in Trees /\ temp \in Keys \cup {Null}
    BY <1>1 DEF Kept, Bridged
  <1>3. e \in Ngx!Trees /\ e.root = r.root
    <2>1. T \in SUBSET Keys
      BY <1>1
    <2> QED
      BY <1>2, <2>1, DrawnFacts
  <1>4. temp \in Ngx!Cells
    BY <1>2 DEF Ngx!Cells
  <1>5. /\ Ngx!Painted(Ngx!Paint(e, temp, "black"), e, temp, "black")
    <2> HIDE DEF e
    <2> QED
      BY <1>3, <1>4, NgxOk, Ngx!PaintPainted
  <1>6. Ngx!SameLinks(e, e)
    <2> HIDE DEF e
    <2> QED
      BY <1>3 DEF Ngx!SameLinks
  <1>7. Ngx!SameLinks(q, e) /\ q \in Ngx!Trees /\ Ngx!SameLinks(e, q)
    <2>1. Ngx!SameLinks(q, e) /\ q \in Ngx!Trees
      BY <1>3, <1>5, <1>6 DEF Ngx!Painted
    <2> HIDE DEF q, e
    <2> QED
      BY <1>3, <2>1 DEF Ngx!SameLinks
  <1>8. d.root = t.root
    BY <1>1 DEF Drawing
  <1>9. /\ q.root = e.root /\ q.parent = e.parent /\ \A f \in Sides : q[f] = e[f]
        /\ \A x \in Nulls : q.color[x] = IF m = t.root /\ x = temp THEN "black" ELSE e.color[x]
    <2>1. /\ q.root = e.root /\ q.parent = e.parent /\ \A f \in Sides : q[f] = e[f]
      <3> HIDE DEF q, e
      <3> QED
        BY <1>7, SidesSame DEF Ngx!SameLinks, Ngx!Links, Sides
    <2>2. \A x \in Nulls : q.color[x] = IF m = t.root /\ x = temp THEN "black" ELSE e.color[x]
      <3> HIDE DEF d, e
      <3> QED
        BY <1>5, <1>8 DEF Ngx!Painted, Ngx!Cells, Nulls
    <2> QED
      BY <2>1, <2>2
  <1>10. \A x \in Nulls : x # m => e.color[x] = d.color[x]
    BY <1>1 DEF Drawn, Bridged, Nulls
  <1>11. /\ \A x \in Nulls : x # m /\ x # temp => e.parent[x] = d.parent[x]
         /\ e.parent[temp] = par
    <2>1. ASSUME NEW x \in Nulls, x # m, x # temp PROVE e.parent[x] = d.parent[x]
      <3>1. CASE x = Null
        BY <1>1, <2>1, <3>1 DEF Drawn
      <3>2. CASE x \in S
        BY <1>1, <2>1, <3>2 DEF Drawn, Bridged, Nulls
      <3>3. CASE x \in Keys \ S
        BY <1>1, <2>1, <3>3 DEF Drawn, Nulls
      <3> QED
        BY <3>1, <3>2, <3>3 DEF Nulls
    <2>2. e.parent[temp] = par
      BY <1>1 DEF Drawn, Bridged
    <2> QED
      BY <2>1, <2>2
  <1>12. \A f \in Sides, x \in Nulls : x # m =>
            e[f][x] = IF m # t.root /\ x = par /\ f = SideOf(t, m) THEN temp ELSE d[f][x]
    <2>1. \A x \in Nulls : /\ e.left[x] = IF x \in T THEN r.left[x] ELSE Out
                           /\ e.right[x] = IF x \in T THEN r.right[x] ELSE Out
                           /\ d.left[x] = IF x \in S THEN t.left[x] ELSE Out
                           /\ d.right[x] = IF x \in S THEN t.right[x] ELSE Out
      BY DEF Drawn, Nulls
    <2>2. \A f \in Sides, x \in Nulls : /\ e[f][x] = IF x \in T THEN r[f][x] ELSE Out
                                        /\ d[f][x] = IF x \in S THEN t[f][x] ELSE Out
      <3> HIDE DEF d, e
      <3> QED
        BY <2>1 DEF Sides
    <2>3. m # t.root => par \in S /\ par # m
      BY <1>1 DEF Kept
    <2> HIDE DEF d, e
    <2> QED
      BY <1>1, <2>2, <2>3 DEF Bridged, Nulls
  <1>13. e.left[m] = Out /\ e.root = IF m = t.root THEN temp ELSE t.root
    <2>1. e.left[m] = Out
      BY <1>1 DEF Drawn
    <2>2. r.root = IF m = t.root THEN temp ELSE t.root
      BY DEF Bridged
    <2> QED
      BY <1>3, <2>1, <2>2
  <1>14. Ngx!SideOf(d, m) = SideOf(t, m) \/ m = t.root
    <2>1. m # t.root => m # d.root
      BY <1>8
    <2> QED
      BY HeldColors
  <1>15. d.parent[m] = par /\ q.left = e.left
    BY <1>1, <1>9 DEF Drawing, Sides
  <1> HIDE DEF q, d, e
  <1>16. Ngx!Spliced(q, d, m, temp)
    <2>1. q \in Ngx!Trees /\ q.root = IF m = d.root THEN temp ELSE d.root
      BY <1>7, <1>8, <1>9, <1>13
    <2>2. q.left[m] = Out
      BY <1>13, <1>15
    <2>3. \A f \in Ngx!Sides, x \in Ngx!Cells \ {m} :
            q[f][x] = IF m # d.root /\ x = d.parent[m] /\ f = Ngx!SideOf(d, m) THEN temp ELSE d[f][x]
      BY <1>8, <1>9, <1>12, <1>14, <1>15, SidesSame DEF Ngx!Cells, Nulls
    <2>4. \A x \in Ngx!Cells \ {m} : x # temp => q.parent[x] = d.parent[x]
      BY <1>9, <1>11 DEF Ngx!Cells, Nulls
    <2>5. m # d.root => q.parent[temp] = d.parent[m]
      BY <1>9, <1>11, <1>15
    <2>6. \A x \in Ngx!Cells \ {m} :
            q.color[x] = IF m = d.root /\ x = temp THEN "black" ELSE d.color[x]
      BY <1>8, <1>9, <1>10 DEF Ngx!Cells, Nulls
    <2> QED
      BY <2>1, <2>2, <2>3, <2>4, <2>5, <2>6 DEF Ngx!Spliced
  <1>17. Trimmed(q, d, e, m, temp)
    BY <1>7, <1>16 DEF Trimmed, q
  <1> QED
    BY <1>17 DEF d, e

\* What rbtree_delete has made of the tree before the fixup: node is out of it.
Loose(r, T, p, n, pos, node, child, par, color) ==
  /\ Held(r, T, p, n, pos) /\ Ascending(T, pos) /\ Outside(r, T, node)
  /\ node \in Keys \ T /\ child \in Nulls /\ par \in Nulls
  /\ color = "black" => AtDelete(Drawn(r, T, p), child, par)
  /\ color # "black" => \E b : Ngx!Settled(Drawn(r, T, p), b)

\* The fixup begins, or there is nothing to do.
LEMMA FixupKnown ==
  ASSUME pc = "idle", gone = Null, cur \in Nulls, up \in Nulls,
         NEW r, NEW T, NEW p, NEW n, NEW pos, NEW node, NEW child, NEW par, NEW color,
         Loose(r, T, p, n, pos, node, child, par, color),
         FixupOrFree(r, node, child, par, color)
  PROVE  Known(tree', pc', cur', up', gone', T, p, n, pos)
  <1>1. /\ Held(r, T, p, n, pos) /\ Ascending(T, pos) /\ Outside(r, T, node)
        /\ node \in Keys /\ node \notin T /\ child \in Nulls /\ par \in Nulls /\ node \in Nulls
    BY DEF Loose, Nulls
  <1>2. Null \notin T /\ Null \in Nulls
    BY <1>1, HeldFacts DEF Nulls
  <1>3. CASE color = "black"
    <2>1. /\ tree' = r /\ pc' = "delete" /\ cur' = child /\ up' = par /\ gone' = node
      BY <1>3 DEF FixupOrFree
    <2>2. Stage(Drawn(r, T, p), pc', child, par, node)
      BY <1>1, <1>3, <2>1 DEF Loose, Stage
    <2> QED
      BY <1>1, <2>1, <2>2 DEF Known
  <1>4. CASE color # "black"
    <2>1. tree' = Freed(r, node) /\ UNCHANGED <<pc, cur, up, gone>>
      BY <1>4 DEF FixupOrFree
    <2>2. /\ Held(tree', T, p, n, pos) /\ Drawn(tree', T, p) = Drawn(r, T, p)
          /\ Outside(tree', T, Null)
      BY <1>1, <2>1, FreedHeld
    <2>3. Stage(Drawn(r, T, p), "idle", cur, up, Null)
      BY <1>4 DEF Loose, Stage
    <2> QED
      BY <1>1, <1>2, <2>1, <2>2, <2>3 DEF Known
  <1> QED
    BY <1>3, <1>4

\* The nodes that are left are in the order of their keys.
LEMMA ClosedAscending ==
  ASSUME NEW t, NEW S, NEW p, NEW n, NEW pos, Held(t, S, p, n, pos), Ascending(S, pos),
         NEW m \in S, NEW T, T = S \ {m}
  PROVE  Ascending(T, Ngx!ClosedUp(T, pos, pos[m]))
  <1>1. Placing(S, n, pos)
    BY SpannedHere
  <1> DEFINE pos2 == Ngx!ClosedUp(T, pos, pos[m])
  <1>2. \A x \in T : pos2[x] = IF pos[x] > pos[m] THEN pos[x] - 1 ELSE pos[x]
    BY DEF Ngx!ClosedUp
  <1> HIDE DEF pos2
  <1>3. ASSUME NEW x \in T, NEW y \in T, pos2[x] < pos2[y] PROVE x < y
    <2>1. /\ pos[x] \in Nat /\ pos[y] \in Nat /\ pos[m] \in Nat /\ x \in S /\ y \in S
          /\ pos[x] # pos[m] /\ pos[y] # pos[m]
      BY <1>1 DEF Placing
    <2>2. pos[x] < pos[y]
      BY <1>2, <1>3, <2>1
    <2> QED
      BY <2>1, <2>2 DEF Ascending
  <1> QED
    BY <1>3 DEF Ascending, pos2

\* A node with at most one child is deleted.
LEMMA OuterLoose ==
  ASSUME NEW t, NEW S, NEW p, NEW n, NEW pos, NEW x, NEW u,
         Known(t, "idle", x, u, Null, S, p, n, pos),
         NEW node \in S, Null \in {t.left[node], t.right[node]},
         NEW child, child = IF t.left[node] # Null THEN t.left[node] ELSE t.right[node],
         NEW par, par = t.parent[node],
         NEW r, r = Relink(SetParent(t, child, par), node, child),
         NEW T, T = S \ {node}, NEW p2, p2 = IF child = Null THEN par ELSE p,
         NEW pos2, pos2 = Ngx!ClosedUp(T, pos, pos[node])
  PROVE  Loose(r, T, p2, n - 1, pos2, node, child, par, t.color[node])
  <1> DEFINE d == Drawn(t, S, p)
             e == Drawn(r, T, p2)
  <1>1. /\ Held(t, S, p, n, pos) /\ Ascending(S, pos) /\ Outside(t, S, Null)
        /\ Stage(d, "idle", x, u, Null)
    BY DEF Known
  <1>2. /\ t \in Trees /\ S \subseteq Keys /\ Null \notin S /\ Null \notin Keys /\ Kept(t, S, p)
        /\ p \in Keys \cup {Null} /\ Drawing(d, t, S, p) /\ Ngx!Ordered(d, n, pos)
    BY <1>1, HeldFacts
  <1>3. /\ child \in S \cup {Null} /\ child # node
        /\ child # Null => t.parent[child] = node /\ child # t.root
        /\ \A f \in Sides : t[f][node] \in S \cup {Null} /\ t[f][node] # node
    <2>1. \A f \in Sides : /\ t[f][node] \in S \cup {Null} /\ t[f][node] # node
                           /\ t[f][node] # Null => t.parent[t[f][node]] = node /\ t[f][node] # t.root
      BY <1>2 DEF Kept
    <2>2. \E f \in Sides : child = t[f][node]
      <3>1. child = t["left"][node] \/ child = t["right"][node]
        OBVIOUS
      <3> QED
        BY <3>1 DEF Sides
    <2> QED
      BY <2>1, <2>2
  <1>4. par \in S \cup {Null} /\ (par = Null <=> node = t.root) /\ par # node
    BY <1>2 DEF Kept
  <1>5. Bridged(r, t, node, child, par)
    BY <1>1, <1>3, BridgedHere
  <1>6. PICK q : Trimmed(q, d, e, node, child)
    BY <1>1, <1>3, <1>5, BridgedDrawn
  <1>7. /\ d.root = t.root /\ Ngx!In(d) = S /\ d.left[node] = t.left[node]
        /\ d.right[node] = t.right[node]
    <2>1. d["left"][node] = t["left"][node] /\ d["right"][node] = t["right"][node]
      <3> HIDE DEF d
      <3> QED
        BY <1>2 DEF Drawing, Fields
    <2> HIDE DEF d
    <2> QED
      BY <1>2, <2>1 DEF Drawing
  <1>8. PICK b : Ngx!Settled(d, b)
    BY <1>1 DEF Stage
  <1>9. /\ Ngx!In(q) = T /\ Ngx!Ordered(q, n - 1, pos2)
        /\ node = d.root \/ Ngx!Red(d, node) => \E c : Ngx!Settled(q, c)
        /\ node # d.root /\ Ngx!Black(d, node) => \E c : Ngx!DeleteAt(q, c, child)
    <2> HIDE DEF d, e
    <2>1. d.left[node] = Null \/ d.right[node] = Null
      BY <1>7
    <2>2. child = Ngx!Child(d, node)
      BY <1>7 DEF Ngx!Child
    <2>3. node \in Ngx!In(d) /\ Ngx!Spliced(q, d, node, child)
      BY <1>6, <1>7 DEF Trimmed
    <2>4. Ngx!CellsAssumption /\ Ngx!KeysAssumption
      BY NgxOk
    <2>5. /\ Ngx!In(q) = Ngx!In(d) \ {node}
          /\ Ngx!Ordered(q, n - 1, Ngx!ClosedUp(Ngx!In(q), pos, pos[node]))
          /\ node = d.root \/ Ngx!Red(d, node) => \E c : Ngx!Settled(q, c)
          /\ node # d.root /\ Ngx!Black(d, node) => \E c : Ngx!DeleteAt(q, c, child)
      BY ONLY <1>2, <1>8, <2>1, <2>2, <2>3, <2>4, Ngx!SplicedTree
    <2> QED
      BY <1>7, <2>5
  <1>10. Ngx!Ordered(e, n - 1, pos2)
    <2> HIDE DEF d, e
    <2> QED
      BY <1>6, <1>9, NgxOk, Ngx!SameLinksOrdered DEF Trimmed
  <1>11. Top(r)
    <2>1. CASE node = t.root
      BY <1>2, <1>3, <1>4, <1>5, <2>1 DEF Top, Bridged
    <2>2. CASE node # t.root
      BY <1>2, <1>3, <1>5, <2>2 DEF Top, Bridged, Kept
    <2> QED
      BY <2>1, <2>2
  <1>12. Held(r, T, p2, n - 1, pos2)
    <2>1. r \in Trees /\ T \in SUBSET Keys /\ p2 \in Keys \cup {Null}
      BY <1>2, <1>4, <1>5 DEF Bridged
    <2> QED
      BY <1>10, <1>11, <2>1 DEF Held
  <1>13. Ascending(T, pos2)
    BY <1>1, ClosedAscending
  <1>14. Outside(r, T, node)
    <2>1. ASSUME NEW z \in Keys \ T, NEW f \in Sides, z # node
          PROVE  r[f][z] = Null /\ r.parent[z] = Null
      <3>1. z \notin S
        BY <2>1
      <3>2. r[f][z] = t[f][z] /\ r.parent[z] = t.parent[z]
        <4>1. z # child /\ z # par /\ z \in Keys
          BY <1>2, <1>3, <1>4, <2>1, <3>1
        <4> QED
          BY <1>5, <2>1, <4>1 DEF Bridged
      <3>3. t[f][z] = Null /\ t.parent[z] = Null
        BY <1>1, <1>2, <2>1, <3>1 DEF Outside
      <3> QED
        BY <3>2, <3>3
    <2>2. ASSUME NEW f \in Sides PROVE r[f][node] \in T \cup {Null} /\ r.parent[node] \in T \cup {Null}
      <3>1. r[f][node] = t[f][node] /\ r.parent[node] = par
        BY <1>2, <1>3, <1>4, <1>5 DEF Bridged
      <3> QED
        BY <1>3, <1>4, <3>1
    <2> QED
      BY <2>1, <2>2 DEF Outside
  <1>15. Ngx!Red(d, node) <=> t.color[node] = "red"
    <2>1. Red(t, node) <=> Ngx!Red(d, node)
      <3> HIDE DEF d
      <3> QED
        BY <1>2 DEF Drawing
    <2> QED
      BY <1>2, <2>1 DEF Red
  <1>16. t.color[node] \in {"red", "black"}
    BY <1>2 DEF Trees
  <1>17. node = t.root => t.color[node] = "black"
    <2>1. Ngx!Black(d, d.root)
      BY <1>8 DEF Ngx!Settled
    <2> QED
      BY <1>7, <1>15, <1>16, <2>1 DEF Ngx!Black
  <1>18. t.color[node] = "black" => AtDelete(e, child, par)
    <2>1. CASE node = t.root
      <3>1. q = Ngx!Paint(e, child, "black")
        BY <1>6, <1>7, <2>1 DEF Trimmed
      <3>2. e.root = child
        <4>1. e.root = r.root
          BY DEF Drawn
        <4> QED
          BY <1>5, <2>1, <4>1 DEF Bridged
      <3>3. \E c : Ngx!Settled(Ngx!Paint(e, child, "black"), c)
        BY <1>7, <1>9, <2>1, <3>1
      <3> HIDE DEF e
      <3> QED
        BY <3>2, <3>3 DEF AtDelete
    <2>2. CASE node # t.root /\ t.color[node] = "black"
      <3>1. q = e
        BY <1>6, <1>7, <2>2 DEF Trimmed
      <3>2. \E c : Ngx!DeleteAt(e, c, child)
        <4>1. Ngx!Black(d, node)
          BY <1>15, <2>2 DEF Ngx!Black
        <4> QED
          BY <1>7, <1>9, <2>2, <3>1, <4>1
      <3>3. e.parent[child] = par
        BY <1>2, <1>3, <1>5 DEF Drawn, Bridged
      <3>4. PICK c : Ngx!DeleteAt(e, c, child)
        BY <3>2
      <3> QED
        BY <1>12, <3>3, <3>4, AtDeleteHere
    <2> QED
      BY <2>1, <2>2
  <1>19. t.color[node] # "black" => \E c : Ngx!Settled(e, c)
    <2>1. ASSUME t.color[node] # "black" PROVE \E c : Ngx!Settled(e, c)
      <3>1. node # t.root /\ Ngx!Red(d, node)
        BY <1>15, <1>16, <1>17, <2>1
      <3>2. q = e
        BY <1>6, <1>7, <3>1 DEF Trimmed
      <3> QED
        BY <1>9, <3>1, <3>2
    <2> QED
      BY <2>1
  <1>20. child \in Nulls /\ par \in Nulls /\ node \in Keys \ T
    BY <1>2, <1>3, <1>4 DEF Nulls
  <1> QED
    BY <1>12, <1>13, <1>14, <1>18, <1>19, <1>20 DEF Loose

\* r is t with v in one link of x, if x is a node.
Put(r, t, f, x, v) ==
  /\ r \in Trees /\ r.root = t.root /\ r.color = t.color
  /\ \A g \in Fields, y \in Keys : r[g][y] = IF g = f /\ y = x THEN v ELSE t[g][y]

\* Setting a link of any node.
LEMMA PutSet ==
  ASSUME NEW t \in Trees, NEW f \in Fields, NEW x \in Keys, NEW v \in Nulls
  PROVE  Put(Set(t, f, x, v), t, f, x, v)
  <1> DEFINE S == {x}
             r == Set(t, f, x, v)
  <1>1. FieldSet(r, t, S, Null, f, x, v)
    <2>1. S \in SUBSET Keys /\ Null \in Keys \cup {Null} /\ x \in S /\ v \in Keys \cup {Null}
      BY DEF Nulls
    <2> HIDE DEF S
    <2> QED
      BY <2>1, SetDrawn
  <1> HIDE DEF r
  <1>2. Put(r, t, f, x, v)
    BY <1>1 DEF FieldSet, Put
  <1> QED
    BY <1>2 DEF r

\* Setting the parent of a node, or of NULL.
LEMMA PutParent ==
  ASSUME NEW t \in Trees, NEW x \in Nulls, NEW v \in Nulls
  PROVE  Put(SetParent(t, x, v), t, "parent", x, v)
  <1>1. CASE x = Null
    BY <1>1, KeysAssumption DEF SetParent, Put
  <1>2. CASE x # Null
    <2>1. x \in Keys /\ "parent" \in Fields
      BY <1>2 DEF Nulls, Fields
    <2>2. SetParent(t, x, v) = Set(t, "parent", x, v)
      BY <1>2 DEF SetParent
    <2> QED
      BY <2>1, <2>2, PutSet
  <1> QED
    BY <1>1, <1>2

\* The links and the colors after replace, m, has taken the place of node.
TakenOver(r, t, node, m, child, par) ==
  /\ r \in Trees /\ r.root = (IF node = t.root THEN m ELSE t.root)
  /\ \A x \in Keys : r.color[x] = IF x = m THEN t.color[node] ELSE t.color[x]
  /\ \A x \in Keys :
       r.left[x] = IF x = m THEN t.left[node] ELSE IF x = par /\ par # node THEN child
                   ELSE IF node # t.root /\ x = t.parent[node] /\ SideOf(t, node) = "left"
                   THEN m ELSE t.left[x]
  /\ \A x \in Keys :
       r.right[x] = IF x = m THEN (IF par = node THEN child ELSE t.right[node])
                    ELSE IF node # t.root /\ x = t.parent[node] /\ SideOf(t, node) = "right"
                    THEN m ELSE t.right[x]
  /\ \A x \in Keys :
       r.parent[x] = IF x = m THEN t.parent[node]
                     ELSE IF x \in {t.left[node], t.right[node]} THEN m
                     ELSE IF x = child /\ par # node THEN par ELSE t.parent[x]

\* What the assignments of rbtree_delete do.
LEMMA TakenOverHere ==
  ASSUME NEW t, NEW S, NEW p, NEW n, NEW pos, Held(t, S, p, n, pos), NEW node \in S,
         t.left[node] # Null, t.right[node] # Null,
         NEW m, NEW par, Follower(t, S, pos, node, m, par),
         NEW child, child = t.right[m], NEW r, r = Replaced(t, node, m)
  PROVE  TakenOver(r, t, node, m, child, par)
  <1>1. /\ t \in Trees /\ S \in SUBSET Keys /\ Null \notin S /\ Null \notin Keys /\ Kept(t, S, p)
        /\ p \in Keys \cup {Null}
    BY HeldFacts
  <1>2. /\ m \in S /\ par \in S /\ par = t.parent[m] /\ m # node /\ m # t.root
        /\ t.left[node] # m /\ par # m /\ child # node
        /\ IF par = node THEN t.right[node] = m ELSE t.left[par] = m /\ t.right[node] # m
        /\ node # t.root => t.parent[node] # m
    BY DEF Follower
  <1>3. /\ child \in S \cup {Null} /\ t.left[node] \in S /\ t.right[node] \in S
        /\ child # Null => t.parent[child] = m
        /\ child # m /\ t.parent[t.left[node]] = node /\ t.parent[t.right[node]] = node
    <2>1. \A f \in Sides, x \in S :
             /\ t[f][x] \in S \cup {Null} /\ t[f][x] # x
             /\ t[f][x] # Null => t.parent[t[f][x]] = x
      BY <1>1 DEF Kept
    <2>2. "left" \in Sides /\ "right" \in Sides
      BY DEF Sides
    <2>3. \A x \in S : /\ t.left[x] \in S \cup {Null} /\ t.left[x] # x
                       /\ t.left[x] # Null => t.parent[t.left[x]] = x
      BY <2>1, <2>2
    <2>4. \A x \in S : /\ t.right[x] \in S \cup {Null} /\ t.right[x] # x
                       /\ t.right[x] # Null => t.parent[t.right[x]] = x
      BY <2>1, <2>2
    <2> QED
      BY <1>2, <2>3, <2>4
  <1>4. child # t.left[node] /\ (child # t.right[node] \/ child = Null)
    BY <1>1, <1>2, <1>3
  <1>5. t.parent[node] \in S \cup {Null} /\ (t.parent[node] = Null <=> node = t.root)
    BY <1>1 DEF Kept
  <1>6. S \subseteq Nulls /\ Null \in Nulls /\ S \subseteq Keys
    BY <1>1 DEF Nulls
  <1> DEFINE t1 == Relink(t, node, m)
             s1 == SetParent(t1, child, par)
             s2 == Set(s1, "left", par, child)
             s3 == Set(s2, "right", m, t.right[node])
             s4 == SetParent(s3, t.right[node], m)
             t2 == IF par = node THEN t1 ELSE s4
             u1 == Set(t2, "parent", m, t.parent[node])
             u2 == Paint(u1, m, t.color[node])
             u3 == Set(u2, "left", m, t.left[node])
             u4 == SetParent(u3, t.left[node], m)
  <1>7. r = u4
    BY <1>2 DEF Replaced
  <1>8. {"left", "right", "parent"} \subseteq Fields
    BY DEF Fields
  <1>9. /\ t1 \in Trees /\ t1.root = (IF node = t.root THEN m ELSE t.root) /\ t1.color = t.color
        /\ \A g \in Fields, y \in Keys :
              t1[g][y] = IF node # t.root /\ g = SideOf(t, node) /\ y = t.parent[node] THEN m
                         ELSE t[g][y]
    <2>1. m \in Keys \cup {Null}
      BY <1>1, <1>2
    <2>2. LinkSet(t1, t, S, p, node, m)
      BY <1>1, <1>5, <2>1, RelinkDrawn
    <2> HIDE DEF t1
    <2> QED
      BY <2>2 DEF LinkSet
  <1> HIDE DEF t1
  <1>10. /\ t2 \in Trees /\ t2.root = t1.root /\ t2.color = t1.color
         /\ \A y \in Keys : t2.left[y] = IF par # node /\ y = par THEN child ELSE t1.left[y]
         /\ \A y \in Keys : t2.right[y] = IF par # node /\ y = m THEN t.right[node] ELSE t1.right[y]
         /\ \A y \in Keys : t2.parent[y] = IF par # node /\ y = t.right[node] THEN m
                                           ELSE IF par # node /\ y = child THEN par
                                           ELSE t1.parent[y]
    <2>1. CASE par = node
      BY <1>9, <2>1
    <2>2. CASE par # node
      <3>1. Put(s1, t1, "parent", child, par)
        BY <1>2, <1>3, <1>6, <1>9, PutParent
      <3> HIDE DEF s1
      <3>2. Put(s2, s1, "left", par, child)
        <4>1. s1 \in Trees
          BY <3>1 DEF Put
        <4> QED
          BY <1>2, <1>3, <1>6, <1>8, <4>1, PutSet
      <3> HIDE DEF s2
      <3>3. Put(s3, s2, "right", m, t.right[node])
        <4>1. s2 \in Trees
          BY <3>2 DEF Put
        <4> QED
          BY <1>2, <1>3, <1>6, <1>8, <4>1, PutSet
      <3> HIDE DEF s3
      <3>4. Put(s4, s3, "parent", t.right[node], m)
        <4>1. s3 \in Trees
          BY <3>3 DEF Put
        <4> QED
          BY <1>2, <1>3, <1>6, <4>1, PutParent
      <3> HIDE DEF s4
      <3>5. t2 = s4
        BY <2>2
      <3> HIDE DEF t2
      <3>6. \A y \in Keys : t2["left"][y] = IF y = par THEN child ELSE t1["left"][y]
        BY <1>8, <3>1, <3>2, <3>3, <3>4, <3>5 DEF Put
      <3>7. \A y \in Keys : t2["right"][y] = IF y = m THEN t.right[node] ELSE t1["right"][y]
        BY <1>8, <3>1, <3>2, <3>3, <3>4, <3>5 DEF Put
      <3>8. \A y \in Keys : t2["parent"][y] = IF y = t.right[node] THEN m
                                              ELSE IF y = child THEN par ELSE t1["parent"][y]
        BY <1>8, <3>1, <3>2, <3>3, <3>4, <3>5 DEF Put
      <3>9. t2 \in Trees /\ t2.root = t1.root /\ t2.color = t1.color
        BY <3>1, <3>2, <3>3, <3>4, <3>5 DEF Put
      <3> QED
        BY <2>2, <3>6, <3>7, <3>8, <3>9
    <2> QED
      BY <2>1, <2>2
  <1> HIDE DEF t2
  <1>11. Put(u1, t2, "parent", m, t.parent[node])
    BY <1>2, <1>5, <1>6, <1>8, <1>10, PutSet
  <1> HIDE DEF u1
  <1>12. /\ u2 \in Trees /\ u2.root = u1.root /\ \A g \in Fields : u2[g] = u1[g]
         /\ \A y \in Keys : u2.color[y] = IF y = m THEN t.color[node] ELSE u1.color[y]
    <2>1. u1 \in Trees /\ t.color[node] \in {"red", "black"}
      BY <1>1, <1>11 DEF Put, Trees
    <2>2. ColorSet(u2, u1, S, p, m, t.color[node])
      BY <1>1, <1>2, <2>1, PaintDrawn
    <2> HIDE DEF u2
    <2> QED
      BY <2>2 DEF ColorSet
  <1> HIDE DEF u2
  <1>13. Put(u3, u2, "left", m, t.left[node])
    BY <1>2, <1>3, <1>6, <1>8, <1>12, PutSet
  <1> HIDE DEF u3
  <1>14. Put(u4, u3, "parent", t.left[node], m)
    <2>1. u3 \in Trees
      BY <1>13 DEF Put
    <2> QED
      BY <1>2, <1>3, <1>6, <2>1, PutParent
  <1> HIDE DEF u4
  <1>15. r \in Trees /\ r.root = (IF node = t.root THEN m ELSE t.root)
    BY <1>7, <1>9, <1>10, <1>11, <1>12, <1>13, <1>14 DEF Put
  <1>16. \A x \in Keys : r.color[x] = IF x = m THEN t.color[node] ELSE t.color[x]
    BY <1>7, <1>9, <1>10, <1>11, <1>12, <1>13, <1>14 DEF Put
  <1>17. \A y \in Keys : /\ r["left"][y] = IF y = m THEN t.left[node] ELSE t2["left"][y]
                         /\ r["right"][y] = t2["right"][y]
                         /\ r["parent"][y] = IF y = t.left[node] THEN m
                                             ELSE IF y = m THEN t.parent[node] ELSE t2["parent"][y]
    BY <1>7, <1>8, <1>11, <1>12, <1>13, <1>14 DEF Put
  <1>18. \A y \in Keys : /\ r.left[y] = IF y = m THEN t.left[node] ELSE t2.left[y]
                         /\ r.right[y] = t2.right[y]
                         /\ r.parent[y] = IF y = t.left[node] THEN m
                                          ELSE IF y = m THEN t.parent[node] ELSE t2.parent[y]
    BY <1>17
  <1>19. \A y \in Keys :
           /\ t1.left[y] = IF node # t.root /\ "left" = SideOf(t, node) /\ y = t.parent[node] THEN m
                           ELSE t.left[y]
           /\ t1.right[y] = IF node # t.root /\ "right" = SideOf(t, node) /\ y = t.parent[node] THEN m
                           ELSE t.right[y]
           /\ t1.parent[y] = t.parent[y]
    <2>1. \A y \in Keys :
           /\ t1["left"][y] = IF node # t.root /\ "left" = SideOf(t, node) /\ y = t.parent[node] THEN m
                           ELSE t["left"][y]
           /\ t1["right"][y] = IF node # t.root /\ "right" = SideOf(t, node) /\ y = t.parent[node] THEN m
                           ELSE t["right"][y]
      BY <1>8, <1>9
    <2>2. \A y \in Keys : t1["parent"][y] = t["parent"][y]
      BY <1>8, <1>9 DEF SideOf
    <2> QED
      BY <2>1, <2>2
  <1>20. \A x \in Keys :
       r.left[x] = IF x = m THEN t.left[node] ELSE IF x = par /\ par # node THEN child
                   ELSE IF node # t.root /\ x = t.parent[node] /\ SideOf(t, node) = "left"
                   THEN m ELSE t.left[x]
    BY <1>10, <1>18, <1>19
  <1>21. \A x \in Keys :
       r.right[x] = IF x = m THEN (IF par = node THEN child ELSE t.right[node])
                    ELSE IF node # t.root /\ x = t.parent[node] /\ SideOf(t, node) = "right"
                    THEN m ELSE t.right[x]
    BY <1>2, <1>10, <1>18, <1>19
  <1>22. \A x \in Keys :
       r.parent[x] = IF x = m THEN t.parent[node]
                     ELSE IF x \in {t.left[node], t.right[node]} THEN m
                     ELSE IF x = child /\ par # node THEN par ELSE t.parent[x]
    <2>1. CASE par = node
      BY <1>2, <1>10, <1>18, <1>19, <2>1
    <2>2. CASE par # node
      BY <1>2, <1>3, <1>10, <1>18, <1>19, <2>2
    <2> QED
      BY <2>1, <2>2
  <1> QED
    BY <1>15, <1>16, <1>20, <1>21, <1>22 DEF TakenOver

\* The drawing in which m has taken the place of node is that without m, renamed.
LEMMA TakenRenamed ==
  ASSUME NEW t, NEW S, NEW p, NEW n, NEW pos, Held(t, S, p, n, pos), NEW node \in S,
         t.left[node] # Null, t.right[node] # Null,
         NEW m, NEW par, Follower(t, S, pos, node, m, par),
         NEW child, child = t.right[m], NEW r, TakenOver(r, t, node, m, child, par),
         NEW T, T = S \ {node}, NEW place, place = (IF par = node THEN m ELSE par),
         NEW p2, p2 = IF child = Null THEN place ELSE p,
         NEW q, Ngx!Spliced(q, Drawn(t, S, p), m, child), Ngx!In(q) = S \ {m}
  PROVE  Ngx!Renamed(Drawn(r, T, p2), q, node, m, child)
  <1> DEFINE d == Drawn(t, S, p)
             e == Drawn(r, T, p2)
  <1>1. /\ t \in Trees /\ S \subseteq Keys /\ Null \notin S /\ Null \notin Keys /\ Kept(t, S, p)
        /\ p \in Keys \cup {Null} /\ Drawing(d, t, S, p)
    BY HeldFacts
  <1>2. /\ m \in S /\ par \in S /\ par = t.parent[m] /\ m # node /\ m # t.root
        /\ t.left[node] # m /\ par # m /\ child # node
        /\ IF par = node THEN t.right[node] = m ELSE t.left[par] = m /\ t.right[node] # m
    BY DEF Follower
  <1>3. \A x \in S : /\ t.left[x] \in S \cup {Null} /\ t.right[x] \in S \cup {Null}
                     /\ t.left[x] # Null => t.parent[t.left[x]] = x /\ SideOf(t, t.left[x]) = "left"
                                            /\ t.left[x] # t.root
                     /\ t.right[x] # Null => t.parent[t.right[x]] = x /\ SideOf(t, t.right[x]) = "right"
                                            /\ t.right[x] # t.root
    <2>1. \A f \in Sides, x \in S :
            /\ t[f][x] \in S \cup {Null}
            /\ t[f][x] # Null => /\ t.parent[t[f][x]] = x
                                 /\ SideOf(t, t[f][x]) = f
                                 /\ t[f][x] # t.root
      BY <1>1 DEF Kept
    <2>2. "left" \in Sides /\ "right" \in Sides
      BY DEF Sides
    <2> QED
      BY <2>1, <2>2
  <1>4. \A x \in S : x # t.root => /\ t.parent[x] \in S
                                   /\ IF SideOf(t, x) = "left" THEN t.left[t.parent[x]] = x
                                      ELSE t.right[t.parent[x]] = x
    <2>1. \A x \in S : x # t.root => t.parent[x] \in S /\ t[SideOf(t, x)][t.parent[x]] = x
      BY <1>1 DEF Kept
    <2> QED
      BY <2>1 DEF SideOf
  <1>5. SideOf(t, m) = (IF par = node THEN "right" ELSE "left")
    <2> HIDE DEF d, e
    <2>1. CASE par = node
      BY <1>1, <1>2, <1>3, <2>1
    <2>2. CASE par # node
      BY <1>1, <1>2, <1>3, <2>2
    <2> QED
      BY <2>1, <2>2
  <1>6. /\ child \in S \cup {Null} /\ child # m /\ child # t.left[node]
        /\ child # Null => t.parent[child] = m /\ child # t.root /\ child # t.right[node]
    <2> HIDE DEF d, e
    <2>1. child \in S \cup {Null} /\ (child # Null => t.parent[child] = m /\ child # t.root)
      BY <1>2, <1>3
    <2>2. child # m /\ child # t.left[node] /\ (child # Null => child # t.right[node])
      BY <1>1, <1>2, <1>3, <2>1
    <2> QED
      BY <2>1, <2>2
  <1>7. place = Ngx!Instead(node, m, par)
    BY DEF Ngx!Instead
  <1>8. T \subseteq Keys /\ T \in SUBSET Keys /\ p2 \in Keys \cup {Null} /\ r \in Trees /\ m \in T
    BY <1>1, <1>2 DEF TakenOver
  <1>9. e \in Ngx!Trees /\ e.root = r.root
    <2>1. T \in SUBSET Keys /\ p2 \in Keys \cup {Null} /\ r \in Trees
      BY <1>8
    <2> QED
      BY ONLY <2>1, DrawnFacts DEF e
  <1>10. d.root = t.root /\ Ngx!SideOf(d, m) = SideOf(t, m) /\ d.parent[m] = par
         /\ m # d.root
    <2>1. d.root = t.root /\ d.parent[m] = par
      BY <1>1, <1>2 DEF Drawing
    <2>2. Ngx!SideOf(d, m) = SideOf(t, m)
      BY <1>2, HeldColors
    <2> QED
      BY <1>2, <2>1, <2>2
  <1>11. /\ \A x \in Nulls : /\ d.left[x] = IF x \in S THEN t.left[x] ELSE Out
                             /\ d.right[x] = IF x \in S THEN t.right[x] ELSE Out
                             /\ d.color[x] = IF x \in S THEN t.color[x] ELSE "black"
         /\ \A x \in S : d.parent[x] = t.parent[x]
    BY <1>1 DEF Drawn, Nulls
  <1>12. /\ \A x \in Nulls : /\ e.left[x] = IF x \in T THEN r.left[x] ELSE Out
                             /\ e.right[x] = IF x \in T THEN r.right[x] ELSE Out
                             /\ e.color[x] = IF x \in T THEN r.color[x] ELSE "black"
         /\ \A x \in T : e.parent[x] = r.parent[x]
         /\ e.parent[Null] = p2
    BY <1>1, <1>8 DEF Drawn, Nulls
  <1> HIDE DEF d, e
  <1>13. /\ q.root = t.root
         /\ \A x \in Nulls \ {m} :
              /\ q.left[x] = (IF x = par /\ par # node THEN child ELSE d.left[x])
              /\ q.right[x] = (IF x = par /\ par = node THEN child ELSE d.right[x])
              /\ x # child => q.parent[x] = d.parent[x]
              /\ q.color[x] = d.color[x]
         /\ q.parent[child] = par
    <2>1. /\ q.root = (IF m = d.root THEN child ELSE d.root)
          /\ \A f \in Sides, x \in Nulls \ {m} :
               q[f][x] = (IF m # d.root /\ x = d.parent[m] /\ f = Ngx!SideOf(d, m) THEN child
                          ELSE d[f][x])
          /\ \A x \in Nulls \ {m} : x # child => q.parent[x] = d.parent[x]
          /\ m # d.root => q.parent[child] = d.parent[m]
          /\ \A x \in Nulls \ {m} :
               q.color[x] = (IF m = d.root /\ x = child THEN "black" ELSE d.color[x])
      BY SidesSame DEF Ngx!Spliced, Ngx!Cells, Nulls, d
    <2>2. \A x \in Nulls \ {m} :
            q["left"][x] = (IF x = par /\ "left" = SideOf(t, m) THEN child ELSE d["left"][x])
      BY <1>10, <2>1 DEF Sides
    <2>3. \A x \in Nulls \ {m} :
            q["right"][x] = (IF x = par /\ "right" = SideOf(t, m) THEN child ELSE d["right"][x])
      BY <1>10, <2>1 DEF Sides
    <2>4. \A x \in Nulls \ {m} :
            q.left[x] = (IF x = par /\ "left" = SideOf(t, m) THEN child ELSE d.left[x])
      BY <2>2
    <2>5. \A x \in Nulls \ {m} :
            q.right[x] = (IF x = par /\ "right" = SideOf(t, m) THEN child ELSE d.right[x])
      BY <2>3
    <2>6. ("left" = SideOf(t, m) <=> par # node) /\ ("right" = SideOf(t, m) <=> par = node)
      BY <1>5
    <2> QED
      BY <1>10, <2>1, <2>4, <2>5, <2>6
  <1>14. S \subseteq Nulls /\ T \subseteq S /\ T \subseteq Nulls /\ Null \in Nulls
    BY <1>1 DEF Nulls
  <1>15. e.root = Ngx!Instead(node, m, q.root) /\ e.left[node] = Out
    <2>1. r.root = (IF node = t.root THEN m ELSE t.root)
      BY DEF TakenOver
    <2> QED
      BY <1>9, <1>12, <1>13, <1>14, <2>1 DEF Ngx!Instead
  <1>16. \A x \in S \ {m, node} : /\ e.left[x] = Ngx!Instead(node, m, q.left[x])
                                  /\ e.right[x] = Ngx!Instead(node, m, q.right[x])
    <2>1. ASSUME NEW x \in S \ {m, node} PROVE e.left[x] = Ngx!Instead(node, m, q.left[x])
      <3>1. /\ e.left[x] = r.left[x] /\ x \in S /\ x \in Keys
            /\ q.left[x] = (IF x = par /\ par # node THEN child ELSE t.left[x])
        BY <1>1, <1>11, <1>12, <1>13, <1>14
      <3>2. r.left[x] = (IF x = par /\ par # node THEN child
                         ELSE IF node # t.root /\ x = t.parent[node] /\ SideOf(t, node) = "left"
                         THEN m ELSE t.left[x])
        BY <3>1 DEF TakenOver
      <3>3. (node # t.root /\ x = t.parent[node] /\ SideOf(t, node) = "left") <=> t.left[x] = node
        BY <1>1, <1>3, <1>4, <3>1
      <3> QED
        BY <1>2, <3>1, <3>2, <3>3 DEF Ngx!Instead
    <2>2. ASSUME NEW x \in S \ {m, node} PROVE e.right[x] = Ngx!Instead(node, m, q.right[x])
      <3>1. e.right[x] = r.right[x] /\ x \in S /\ x \in Keys /\ q.right[x] = t.right[x]
        BY <1>1, <1>11, <1>12, <1>13, <1>14
      <3>2. r.right[x] = (IF node # t.root /\ x = t.parent[node] /\ SideOf(t, node) = "right"
                          THEN m ELSE t.right[x])
        BY <3>1 DEF TakenOver
      <3>3. SideOf(t, node) \in {"left", "right"}
        BY DEF SideOf
      <3>4. (node # t.root /\ x = t.parent[node] /\ SideOf(t, node) = "right") <=> t.right[x] = node
        BY <1>1, <1>3, <1>4, <3>1, <3>3
      <3> QED
        BY <1>2, <3>1, <3>2, <3>4 DEF Ngx!Instead
    <2> QED
      BY <2>1, <2>2
  <1>17. e.left[m] = q.left[node] /\ e.right[m] = q.right[node]
    <2>1. e.left[m] = r.left[m] /\ e.right[m] = r.right[m] /\ m \in Keys /\ node \in Nulls \ {m}
      BY <1>1, <1>2, <1>8, <1>12, <1>14
    <2>2. r.left[m] = t.left[node] /\ r.right[m] = (IF par = node THEN child ELSE t.right[node])
      BY <2>1 DEF TakenOver
    <2> QED
      BY <1>11, <1>13, <2>1, <2>2
  <1>18. ASSUME NEW x \in ((S \ {m}) \cup {child}) \ {node, t.root}
         PROVE  e.parent[x] = Ngx!Instead(node, m, q.parent[x])
    <2>1. CASE x = child /\ child = Null
      BY <1>7, <1>12, <1>13, <2>1
    <2>2. CASE x = child /\ child # Null
      <3>1. x \in T /\ x \in Keys /\ e.parent[x] = r.parent[x]
        BY <1>1, <1>2, <1>6, <1>12, <2>2
      <3>2. r.parent[x] = (IF par # node THEN par ELSE t.parent[x])
        BY <1>6, <2>2, <3>1 DEF TakenOver
      <3> QED
        BY <1>6, <1>13, <2>2, <3>1, <3>2 DEF Ngx!Instead
    <2>3. CASE x # child
      <3>1. x \in T /\ x \in S /\ x \in Keys /\ x # m /\ x # t.root /\ e.parent[x] = r.parent[x]
        BY <1>1, <1>12, <2>3
      <3>2. r.parent[x] = (IF x \in {t.left[node], t.right[node]} THEN m ELSE t.parent[x])
        BY <2>3, <3>1 DEF TakenOver
      <3>3. q.parent[x] = t.parent[x]
        BY <1>11, <1>13, <1>14, <2>3, <3>1
      <3>4. x \in {t.left[node], t.right[node]} <=> t.parent[x] = node
        BY <1>3, <1>4, <3>1
      <3> QED
        BY <3>1, <3>2, <3>3, <3>4 DEF Ngx!Instead
    <2> QED
      BY <2>1, <2>2, <2>3
  <1>19. e.parent[m] = q.parent[node]
    <2>1. e.parent[m] = r.parent[m] /\ m \in Keys
      BY <1>1, <1>2, <1>8, <1>12
    <2>2. r.parent[m] = t.parent[node]
      BY <2>1 DEF TakenOver
    <2>3. q.parent[node] = t.parent[node]
      BY <1>2, <1>11, <1>13, <1>14
    <2> QED
      BY <2>1, <2>2, <2>3
  <1>20. /\ \A x \in Nulls \ {node, m} : e.color[x] = q.color[x]
         /\ e.color[m] = q.color[node]
    <2>1. \A x \in Keys : r.color[x] = (IF x = m THEN t.color[node] ELSE t.color[x])
      BY DEF TakenOver
    <2>2. \A x \in Nulls \ {node, m} : x \in T <=> x \in S
      OBVIOUS
    <2>3. \A x \in Nulls \ {node, m} : e.color[x] = q.color[x]
      BY <1>1, <1>11, <1>12, <1>13, <2>1, <2>2
    <2>4. e.color[m] = q.color[node]
      BY <1>1, <1>2, <1>8, <1>11, <1>12, <1>13, <1>14, <2>1
    <2> QED
      BY <2>3, <2>4
  <1>21. \A x \in Keys \ S : e.left[x] = Out
    BY <1>12, <1>14 DEF Nulls
  <1>22. Ngx!In(q) \ {node} = S \ {m, node} /\ Ngx!In(q) \cup {m} = S
    BY <1>2
  <1>23. \A f \in Sides : /\ \A x \in S \ {m, node} : e[f][x] = Ngx!Instead(node, m, q[f][x])
                          /\ e[f][m] = q[f][node]
    <2>1. /\ \A x \in S \ {m, node} : e["left"][x] = Ngx!Instead(node, m, q["left"][x])
          /\ \A x \in S \ {m, node} : e["right"][x] = Ngx!Instead(node, m, q["right"][x])
          /\ e["left"][m] = q["left"][node] /\ e["right"][m] = q["right"][node]
      BY <1>16, <1>17
    <2> QED
      BY <2>1 DEF Sides
  <1>24. \A x \in (Ngx!In(q) \cup {child}) \ {node, q.root} :
           e.parent[x] = Ngx!Instead(node, m, q.parent[x])
    BY <1>13, <1>18
  <1>25. Ngx!Cells = Nulls
    BY DEF Ngx!Cells, Nulls
  <1>26. Ngx!Renamed(e, q, node, m, child)
    BY ONLY SidesSame, <1>9, <1>15, <1>19, <1>20, <1>21, <1>22, <1>23, <1>24, <1>25 DEF Ngx!Renamed
  <1> QED
    BY <1>26 DEF e

\* A node with two children is deleted.
LEMMA InnerLoose ==
  ASSUME NEW t, NEW S, NEW p, NEW n, NEW pos, NEW x, NEW u,
         Known(t, "idle", x, u, Null, S, p, n, pos),
         NEW node \in S, t.left[node] # Null, t.right[node] # Null,
         NEW m, m = Extreme(t, t.right[node], "left"),
         NEW child, child = t.right[m],
         NEW r, r = Replaced(t, node, m),
         NEW T, T = S \ {node}, NEW place, place = PlaceOf(t, node, m),
         NEW p2, p2 = IF child = Null THEN place ELSE p,
         NEW pos2, pos2 = Ngx!ClosedUp(T, pos, pos[node])
  PROVE  Loose(r, T, p2, n - 1, pos2, node, child, place, t.color[m])
  <1> DEFINE d == Drawn(t, S, p)
             e == Drawn(r, T, p2)
             q == Ngx!Cut(d, m, child)
             par == t.parent[m]
             pos1 == Ngx!ClosedUp(S \ {m}, pos, pos[m])
  <1>1. /\ Held(t, S, p, n, pos) /\ Ascending(S, pos) /\ Outside(t, S, Null)
        /\ Stage(d, "idle", x, u, Null)
    BY DEF Known
  <1>2. /\ t \in Trees /\ S \subseteq Keys /\ Null \notin S /\ Null \notin Keys /\ Kept(t, S, p)
        /\ p \in Keys \cup {Null} /\ Drawing(d, t, S, p) /\ Ngx!Ordered(d, n, pos)
    BY <1>1, HeldFacts
  <1>3. Follower(t, S, pos, node, m, par)
    BY <1>1, FollowerHere
  <1>4. /\ m \in S /\ par \in S /\ m # node /\ m # t.root /\ pos[m] = pos[node] + 1
        /\ t.left[m] = Null /\ child # node /\ par # m
        /\ node # t.root => t.parent[node] # m
    BY <1>3 DEF Follower
  <1>5. place = (IF par = node THEN m ELSE par) /\ place \in T
    BY <1>4 DEF PlaceOf
  <1>6. TakenOver(r, t, node, m, child, par)
    <2> HIDE DEF par, d, e, q
    <2> QED
      BY <1>1, <1>3, TakenOverHere
  <1>7. child \in S \cup {Null} /\ child # m /\ (child # Null => child # t.root)
    <2>1. \A f \in Sides : /\ t[f][m] \in S \cup {Null} /\ t[f][m] # m
                           /\ t[f][m] # Null => t[f][m] # t.root
      BY <1>2, <1>4 DEF Kept
    <2>2. "right" \in Sides
      BY DEF Sides
    <2> QED
      BY <2>1, <2>2
  <1>8. /\ d.root = t.root /\ Ngx!In(d) = S /\ d.left[m] = Null /\ d.right[m] = child
    <2>1. d["left"][m] = t["left"][m] /\ d["right"][m] = t["right"][m]
      <3> HIDE DEF d
      <3> QED
        BY <1>2, <1>4 DEF Drawing, Fields
    <2> HIDE DEF d
    <2> QED
      BY <1>2, <1>4, <2>1 DEF Drawing
  <1>9. child = Ngx!Child(d, m)
    <2> HIDE DEF d
    <2> QED
      BY <1>8 DEF Ngx!Child
  <1>10. PICK b : Ngx!Settled(d, b)
    BY <1>1 DEF Stage
  <1>11. Ngx!Spliced(q, d, m, child)
    <2> HIDE DEF d
    <2>1. m \in Ngx!In(d) /\ m # d.root /\ child \in Ngx!In(d) \cup {Null} /\ child # m
      BY <1>4, <1>7, <1>8
    <2>2. Ngx!CellsAssumption /\ Ngx!KeysAssumption
      BY NgxOk
    <2>3. Ngx!Spliced(Ngx!Cut(d, m, child), d, m, child)
      BY ONLY <1>2, <2>1, <2>2, Ngx!CutSpliced
    <2> QED
      BY <2>3
  <1> HIDE DEF q
  <1>12. /\ Ngx!In(q) = S \ {m} /\ Ngx!Ordered(q, n - 1, pos1)
         /\ Ngx!Red(d, m) => \E c : Ngx!Settled(q, c)
         /\ Ngx!Black(d, m) => \E c : Ngx!DeleteAt(q, c, child)
    <2> HIDE DEF d, e
    <2>1. d.left[m] = Null \/ d.right[m] = Null
      BY <1>8
    <2>2. m \in Ngx!In(d)
      BY <1>4, <1>8
    <2>3. Ngx!CellsAssumption /\ Ngx!KeysAssumption
      BY NgxOk
    <2>4. /\ Ngx!In(q) = Ngx!In(d) \ {m}
          /\ Ngx!Ordered(q, n - 1, Ngx!ClosedUp(Ngx!In(q), pos, pos[m]))
          /\ m = d.root \/ Ngx!Red(d, m) => \E c : Ngx!Settled(q, c)
          /\ m # d.root /\ Ngx!Black(d, m) => \E c : Ngx!DeleteAt(q, c, child)
      BY ONLY <1>2, <1>9, <1>10, <1>11, <2>1, <2>2, <2>3, Ngx!SplicedTree
    <2> QED
      BY <1>4, <1>8, <2>4
  <1>13. Ngx!Renamed(e, q, node, m, child)
    <2> HIDE DEF par, d, e
    <2>1. Ngx!Renamed(Drawn(r, T, p2), q, node, m, child)
      BY <1>1, <1>3, <1>5, <1>6, <1>11, <1>12, TakenRenamed DEF d
    <2> QED
      BY <2>1 DEF e
  <1>14. r \in Trees /\ T \in SUBSET Keys /\ p2 \in Keys \cup {Null} /\ T \subseteq Keys
    BY <1>2, <1>5, <1>6 DEF TakenOver
  <1>15. Ngx!In(e) = T /\ e.root = r.root
    <2> QED
      BY ONLY <1>14, DrawnFacts DEF e
  <1>16. /\ node \in Ngx!In(q) /\ m \in Keys /\ m \notin Ngx!In(q)
         /\ Ngx!CellsAssumption /\ Ngx!KeysAssumption
    BY <1>2, <1>4, <1>12, NgxOk
  <1> HIDE DEF d, e, par, pos1
  <1>17. Ngx!Ordered(e, n - 1, pos2)
    <2>1. Ngx!Ordered(e, n - 1, Ngx!Renumbered(Ngx!In(e), pos1, node, m))
      BY ONLY <1>12, <1>13, <1>16, Ngx!RenameShape
    <2>2. /\ \A y \in S : pos[y] \in Nat
          /\ \A y, z \in S : pos[y] = pos[z] => y = z
      <3>1. Placing(S, n, pos)
        BY <1>1, SpannedHere
      <3> QED
        BY <3>1 DEF Placing
    <2>3. Ngx!Renumbered(T, pos1, node, m) = Ngx!ClosedUp(T, pos, pos[node])
      <3>1. \A y \in S \ {m} : pos1[y] = IF pos[y] > pos[m] THEN pos[y] - 1 ELSE pos[y]
        BY DEF pos1, Ngx!ClosedUp
      <3>2. ASSUME NEW y \in T
            PROVE  pos1[Ngx!Instead(m, node, y)] = IF pos[y] > pos[node] THEN pos[y] - 1 ELSE pos[y]
        <4>1. CASE y = m
          <5>1. Ngx!Instead(m, node, y) = node /\ node \in S \ {m}
            BY <1>4, <4>1 DEF Ngx!Instead
          <5> QED
            BY <1>4, <2>2, <3>1, <4>1, <5>1
        <4>2. CASE y # m
          <5>1. Ngx!Instead(m, node, y) = y /\ y \in S \ {m} /\ pos[y] # pos[m]
            BY <1>4, <2>2, <4>2 DEF Ngx!Instead
          <5>2. pos[y] \in Nat /\ pos[m] \in Nat /\ pos[node] \in Nat
            BY <1>4, <2>2, <5>1
          <5> QED
            BY <1>4, <3>1, <5>1, <5>2
        <4> QED
          BY <4>1, <4>2
      <3> QED
        BY <3>2 DEF Ngx!Renumbered, Ngx!ClosedUp
    <2> QED
      BY <1>15, <2>1, <2>3
  <1>18. Held(r, T, p2, n - 1, pos2)
    <2>1. Top(r)
      <3>1. r.root = (IF node = t.root THEN m ELSE t.root)
        BY <1>6 DEF TakenOver
      <3>2. \A z \in Keys : r.parent[z] = IF z = m THEN t.parent[node]
                     ELSE IF z \in {t.left[node], t.right[node]} THEN m
                     ELSE IF z = child /\ par # node THEN par ELSE t.parent[z]
        BY <1>6 DEF TakenOver
      <3>3. CASE node = t.root
        BY <1>2, <1>4, <3>1, <3>2, <3>3 DEF Top, Kept
      <3>4. CASE node # t.root
        <4>1. r.root = t.root /\ t.root \in S /\ t.root # m
          BY <1>2, <1>4, <3>1, <3>4 DEF Kept
        <4>2. t.root \notin {t.left[node], t.right[node]}
          <5>1. \A f \in Sides : t[f][node] # Null => t[f][node] # t.root
            BY <1>2 DEF Kept
          <5>2. "left" \in Sides /\ "right" \in Sides
            BY DEF Sides
          <5> QED
            BY <5>1, <5>2
        <4>3. t.root # child
          BY <1>2, <1>7, <4>1
        <4>4. r.parent[t.root] = t.parent[t.root] /\ t.parent[t.root] = Null
          BY <1>2, <3>2, <4>1, <4>2, <4>3 DEF Kept
        <4> QED
          BY <4>1, <4>4 DEF Top
      <3> QED
        BY <3>3, <3>4
    <2> QED
      BY <1>14, <1>17, <2>1 DEF Held, e
  <1>19. Ascending(T, pos2)
    BY <1>1, ClosedAscending
  <1>20. Outside(r, T, node)
    <2>1. /\ \A z \in Keys : r.left[z] = IF z = m THEN t.left[node] ELSE IF z = par /\ par # node THEN child
                   ELSE IF node # t.root /\ z = t.parent[node] /\ SideOf(t, node) = "left"
                   THEN m ELSE t.left[z]
          /\ \A z \in Keys : r.right[z] = IF z = m THEN (IF par = node THEN child ELSE t.right[node])
                    ELSE IF node # t.root /\ z = t.parent[node] /\ SideOf(t, node) = "right"
                    THEN m ELSE t.right[z]
          /\ \A z \in Keys : r.parent[z] = IF z = m THEN t.parent[node]
                     ELSE IF z \in {t.left[node], t.right[node]} THEN m
                     ELSE IF z = child /\ par # node THEN par ELSE t.parent[z]
      BY <1>6 DEF TakenOver
    <2>2. t.left[node] \in S \cup {Null} /\ t.right[node] \in S \cup {Null}
          /\ t.left[node] # node /\ t.right[node] # node
      <3>1. \A f \in Sides : t[f][node] \in S \cup {Null} /\ t[f][node] # node
        BY <1>2 DEF Kept
      <3>2. "left" \in Sides /\ "right" \in Sides
        BY DEF Sides
      <3> QED
        BY <3>1, <3>2
    <2>3. node # t.root => t.parent[node] \in S /\ t.parent[node] # node
      BY <1>2 DEF Kept
    <2>4. ASSUME NEW z \in Keys \ T, z # node
          PROVE  r.left[z] = Null /\ r.right[z] = Null /\ r.parent[z] = Null
      <3>1. z \notin S /\ z # m /\ z # par /\ z # child /\ z \notin {t.left[node], t.right[node]}
        BY <1>2, <1>4, <1>7, <2>2, <2>4
      <3>2. t.left[z] = Null /\ t.right[z] = Null /\ t.parent[z] = Null
        <4>1. \A f \in Sides : t[f][z] = Null /\ t.parent[z] = Null
          BY <1>1, <1>2, <2>4, <3>1 DEF Outside
        <4>2. "left" \in Sides /\ "right" \in Sides
          BY DEF Sides
        <4> QED
          BY <4>1, <4>2
      <3> QED
        BY <2>1, <2>3, <2>4, <3>1, <3>2
    <2>5. /\ r.left[node] \in T \cup {Null} /\ r.right[node] \in T \cup {Null}
          /\ r.parent[node] \in T \cup {Null}
      <3>1. node \in Keys /\ r.left[node] = t.left[node]
        BY <1>2, <1>4, <2>1, <2>3
      <3>2. r.right[node] = t.right[node]
        BY <1>2, <1>4, <2>1, <2>3
      <3>3. r.parent[node] = t.parent[node]
        BY <1>2, <1>4, <2>1, <2>2, <2>3
      <3>4. t.parent[node] \in T \cup {Null}
        BY <1>2, <2>3 DEF Kept
      <3> QED
        BY <2>2, <3>1, <3>2, <3>3, <3>4
    <2>6. t["left"] = t.left /\ r["left"] = r.left /\ r["right"] = r.right
      OBVIOUS
    <2> QED
      BY <2>4, <2>5, <2>6 DEF Outside, Sides
  <1>21. (Ngx!Red(d, m) <=> t.color[m] = "red") /\ t.color[m] \in {"red", "black"}
    <2>1. Red(t, m) <=> Ngx!Red(d, m)
      BY <1>2, <1>4 DEF Drawing
    <2> QED
      BY <1>2, <1>4, <2>1 DEF Red, Trees
  <1>22. ASSUME t.color[m] = "black" PROVE AtDelete(e, child, place)
    <2>1. PICK c1 : Ngx!DeleteAt(q, c1, child)
      BY <1>12, <1>21, <1>22 DEF Ngx!Black
    <2>2. child # node /\ child # q.root
      <3>1. q.root = t.root
        BY <1>4, <1>8, <1>11 DEF Ngx!Spliced
      <3>2. t.root # Null
        BY <1>2 DEF Kept
      <3> QED
        BY <1>4, <1>7, <3>1, <3>2
    <2>3. \E c : Ngx!DeleteAt(e, c, child)
      BY ONLY <1>12, <1>13, <1>16, <2>1, <2>2, Ngx!RenameDeleteAt
    <2>4. PICK c : Ngx!DeleteAt(Drawn(r, T, p2), c, child)
      BY <2>3 DEF e
    <2>5. Drawn(r, T, p2).parent[child] = place
      <3>1. CASE child = Null
        BY <1>2, <3>1 DEF Drawn
      <3>2. CASE child # Null
        <4>1. child \in T /\ child \in Keys
          BY <1>2, <1>4, <1>7, <3>2
        <4>2. r.parent[child] = place
          <5>1. t.parent[child] = m
            BY <1>2, <1>4, <3>2 DEF Kept, Sides
          <5>2. child \notin {t.left[node], t.right[node]}
            <6>1. \A f \in Sides : t[f][node] # Null => t.parent[t[f][node]] = node
              BY <1>2 DEF Kept
            <6>2. "left" \in Sides /\ "right" \in Sides
              BY DEF Sides
            <6>3. t.parent[t.left[node]] = node /\ t.parent[t.right[node]] = node
              BY <6>1, <6>2
            <6> QED
              BY <1>4, <5>1, <6>3
          <5>3. r.parent[child] = IF child = m THEN t.parent[node]
                     ELSE IF child \in {t.left[node], t.right[node]} THEN m
                     ELSE IF child = child /\ par # node THEN par ELSE t.parent[child]
            BY <1>6, <4>1 DEF TakenOver
          <5> QED
            BY <1>5, <1>7, <5>1, <5>2, <5>3
        <4> QED
          BY <4>1, <4>2 DEF Drawn
      <3> QED
        BY <3>1, <3>2
    <2>6. AtDelete(Drawn(r, T, p2), child, place)
      BY <1>18, <2>4, <2>5, AtDeleteHere
    <2> QED
      BY <2>6 DEF e
  <1>23. ASSUME t.color[m] # "black" PROVE \E c : Ngx!Settled(e, c)
    <2>1. PICK c1 : Ngx!Settled(q, c1)
      BY <1>12, <1>21, <1>23
    <2> QED
      BY ONLY <1>12, <1>13, <1>16, <2>1, Ngx!RenameSettled
  <1>24. child \in Nulls /\ place \in Nulls /\ node \in Keys \ T
    BY <1>2, <1>5, <1>7 DEF Nulls
  <1> QED
    BY <1>18, <1>19, <1>20, <1>22, <1>23, <1>24 DEF Loose, e

\* The empty tree.
LEMMA InitInv == Init => IInv
  <1> SUFFICES ASSUME Init PROVE IInv
    OBVIOUS
  <1>1. tree = Empty /\ pc = "idle" /\ cur = Null /\ up = Null /\ gone = Null
    BY DEF Init
  <1>2. Null \in Nulls
    BY DEF Nulls
  <1>3. Known(Empty, "idle", Null, Null, Null, {}, Null, 0, Nowhere)
    BY <1>2, EmptyKnown
  <1> QED
    BY <1>1, <1>3 DEF IInv

\* A key that is not in the tree is inserted.
LEMMA InsertKnown ==
  ASSUME NEW S, NEW p, NEW n, NEW pos, Known(tree, pc, cur, up, gone, S, p, n, pos),
         NEW k \in Keys, Insert(k)
  PROVE  /\ k \notin S
         /\ \E n2, pos2 : Known(tree', pc', cur', up', gone', S \cup {k}, p, n2, pos2)
  <1>1. /\ pc = "idle" /\ Search(tree, k) = Null /\ tree' = Linked(tree, k)
        /\ pc' = "insert" /\ cur' = k /\ up' = up /\ gone' = gone
    BY DEF Insert
  <1>2. /\ Held(tree, S, p, n, pos) /\ Ascending(S, pos) /\ gone = Null
        /\ cur \in Nulls /\ up \in Nulls /\ Known(tree, "idle", cur, up, Null, S, p, n, pos)
    BY <1>1 DEF Known, Stage
  <1>3. k \notin S
    <2>1. Search(tree, k) = IF k \in S THEN k ELSE Null
      BY <1>2, SearchFinds
    <2> QED
      BY <1>1, <2>1, KeysAssumption
  <1>4. \E n2, pos2 : Known(tree', "insert", k, up, Null, S \cup {k}, p, n2, pos2)
    <2>1. CASE tree.root = Null
      <3>1. S = {} /\ Known(tree', "insert", k, up, Null, {k}, p, 1, [z \in {k} |-> 1])
        BY <1>1, <1>2, <2>1, FirstKnown
      <3>2. S \cup {k} = {k}
        BY <3>1
      <3> QED
        BY <3>1, <3>2
    <2>2. CASE tree.root # Null
      BY <1>1, <1>2, <1>3, <2>2, HungKnown
    <2> QED
      BY <2>1, <2>2
  <1> QED
    BY <1>1, <1>2, <1>3, <1>4

\* A key that is in the tree is deleted.
LEMMA DeleteKnown ==
  ASSUME NEW S, NEW p, NEW n, NEW pos, Known(tree, pc, cur, up, gone, S, p, n, pos),
         NEW k \in Keys, DeleteNode(k) \/ DeleteInner(k)
  PROVE  /\ k \in S
         /\ \E p2, n2, pos2 : Known(tree', pc', cur', up', gone', S \ {k}, p2, n2, pos2)
  <1>1. pc = "idle" /\ Search(tree, k) = k
    BY DEF DeleteNode, DeleteInner
  <1>2. /\ Held(tree, S, p, n, pos) /\ Ascending(S, pos) /\ gone = Null
        /\ cur \in Nulls /\ up \in Nulls /\ Known(tree, "idle", cur, up, Null, S, p, n, pos)
    BY <1>1 DEF Known, Stage
  <1>3. k \in S
    <2>1. Search(tree, k) = IF k \in S THEN k ELSE Null
      BY <1>2, SearchFinds
    <2> QED
      BY <1>1, <2>1, KeysAssumption
  <1> DEFINE T == S \ {k}
             pos2 == Ngx!ClosedUp(T, pos, pos[k])
  <1>4. ASSUME DeleteNode(k)
        PROVE  \E p2 : Known(tree', pc', cur', up', gone', T, p2, n - 1, pos2)
    <2> DEFINE child == IF tree.left[k] # Null THEN tree.left[k] ELSE tree.right[k]
               par == tree.parent[k]
               r == Relink(SetParent(tree, child, par), k, child)
               p2 == IF child = Null THEN par ELSE p
    <2>1. FixupOrFree(r, k, child, par, tree.color[k]) /\ Null \in {tree.left[k], tree.right[k]}
      BY <1>4 DEF DeleteNode
    <2>2. Loose(r, T, p2, n - 1, pos2, k, child, par, tree.color[k])
      <3> DEFINE color == tree.color[k]
      <3>1. /\ child = (IF tree.left[k] # Null THEN tree.left[k] ELSE tree.right[k])
            /\ par = tree.parent[k] /\ r = Relink(SetParent(tree, child, par), k, child)
            /\ T = S \ {k} /\ p2 = (IF child = Null THEN par ELSE p)
            /\ pos2 = Ngx!ClosedUp(T, pos, pos[k])
        OBVIOUS
      <3> HIDE DEF child, par, r, p2, T, pos2
      <3> QED
        BY <1>2, <1>3, <2>1, <3>1, OuterLoose
    <2> HIDE DEF child, par, r, p2, T, pos2
    <2>3. Known(tree', pc', cur', up', gone', T, p2, n - 1, pos2)
      BY <1>1, <1>2, <2>1, <2>2, FixupKnown
    <2> QED
      BY <2>3
  <1>5. ASSUME DeleteInner(k)
        PROVE  \E p2 : Known(tree', pc', cur', up', gone', T, p2, n - 1, pos2)
    <2> DEFINE m == Extreme(tree, tree.right[k], "left")
               child == tree.right[m]
               place == PlaceOf(tree, k, m)
               r == Replaced(tree, k, m)
               p2 == IF child = Null THEN place ELSE p
    <2>1. /\ FixupOrFree(r, k, child, place, tree.color[m])
          /\ tree.left[k] # Null /\ tree.right[k] # Null
      BY <1>5 DEF DeleteInner
    <2>2. Loose(r, T, p2, n - 1, pos2, k, child, place, tree.color[m])
      <3>1. /\ m = Extreme(tree, tree.right[k], "left") /\ child = tree.right[m]
            /\ place = PlaceOf(tree, k, m) /\ r = Replaced(tree, k, m)
            /\ T = S \ {k} /\ p2 = (IF child = Null THEN place ELSE p)
            /\ pos2 = Ngx!ClosedUp(T, pos, pos[k])
        OBVIOUS
      <3> HIDE DEF m, child, place, r, p2, T, pos2
      <3> QED
        BY <1>2, <1>3, <2>1, <3>1, InnerLoose
    <2> HIDE DEF m, child, place, r, p2, T, pos2
    <2>3. Known(tree', pc', cur', up', gone', T, p2, n - 1, pos2)
      BY <1>1, <1>2, <2>1, <2>2, FixupKnown
    <2> QED
      BY <2>3
  <1> HIDE DEF pos2
  <1> QED
    BY <1>3, <1>4, <1>5

\* Every step keeps the invariant.
LEMMA StepKnown ==
  ASSUME NEW S, NEW p, NEW n, NEW pos, Known(tree, pc, cur, up, gone, S, p, n, pos),
         [Next]_vars
  PROVE  \E T, p2, n2, pos2 :
           /\ Known(tree', pc', cur', up', gone', T, p2, n2, pos2)
           /\ \/ T = S /\ (Turn \/ UNCHANGED vars)
              \/ T = {} /\ Destroy
              \/ \E k \in Keys \ S : Insert(k) /\ T = S \cup {k}
              \/ \E k \in S : (DeleteNode(k) \/ DeleteInner(k)) /\ T = S \ {k}
  <1>1. CASE Turn
    <2>1. Known(tree', pc', cur', up', gone', S, p, n, pos)
      BY <1>1, InsertTurnsKnown, DeleteTurnsKnown DEF Turn
    <2> QED
      BY <1>1, <2>1
  <1>2. CASE Destroy
    <2>1. /\ pc = "idle" /\ tree' = Empty /\ pc' = pc /\ cur' = cur /\ up' = up /\ gone' = gone
      BY <1>2 DEF Destroy
    <2>2. gone = Null /\ cur \in Nulls /\ up \in Nulls
      BY <2>1 DEF Known, Stage
    <2>3. Known(Empty, "idle", cur, up, Null, {}, Null, 0, Nowhere)
      BY <2>2, EmptyKnown
    <2>4. Known(tree', pc', cur', up', gone', {}, Null, 0, Nowhere)
      BY <2>1, <2>2, <2>3
    <2> QED
      BY <1>2, <2>4
  <1>3. ASSUME NEW k \in Keys, Insert(k)
        PROVE  \E T, p2, n2, pos2 : /\ Known(tree', pc', cur', up', gone', T, p2, n2, pos2)
                                    /\ k \in Keys \ S /\ T = S \cup {k}
    BY <1>3, InsertKnown
  <1>4. ASSUME NEW k \in Keys, DeleteNode(k) \/ DeleteInner(k)
        PROVE  \E T, p2, n2, pos2 : /\ Known(tree', pc', cur', up', gone', T, p2, n2, pos2)
                                    /\ k \in S /\ T = S \ {k}
    BY <1>4, DeleteKnown
  <1>5. CASE UNCHANGED vars
    <2>1. Known(tree', pc', cur', up', gone', S, p, n, pos)
      BY <1>5 DEF vars
    <2> QED
      BY <1>5, <2>1
  <1>6. CASE \E k \in Keys : Insert(k)
    <2>1. PICK k \in Keys : Insert(k)
      BY <1>6
    <2> QED
      BY <1>3, <2>1
  <1>7. CASE \E k \in Keys : DeleteNode(k) \/ DeleteInner(k)
    <2>1. PICK k \in Keys : DeleteNode(k) \/ DeleteInner(k)
      BY <1>7
    <2> QED
      BY <1>4, <2>1
  <1> QED
    BY <1>1, <1>2, <1>5, <1>6, <1>7 DEF Next, Call

\* The invariant is inductive.
LEMMA NextInv == IInv /\ [Next]_vars => IInv'
  <1> SUFFICES ASSUME IInv, [Next]_vars PROVE IInv'
    OBVIOUS
  <1>1. PICK S, p, n, pos : Known(tree, pc, cur, up, gone, S, p, n, pos)
    BY DEF IInv
  <1>2. \E T, p2, n2, pos2 : Known(tree', pc', cur', up', gone', T, p2, n2, pos2)
    BY <1>1, StepKnown
  <1> QED
    BY <1>2 DEF IInv

\* In every state the tree is the drawing of an ordered tree of ngx_rbtree.c, colored as the
\* loop that is running leaves it.
THEOREM Invariance == Spec => []IInv
  BY InitInv, NextInv, PTL DEF Spec

\* The heights and the reds of the drawing; a black is missing on the side ms of mp.
Tinted(b, cc, cp, mp, ms, S, p) ==
  /\ Ngx!Heights(Drawn(tree, S, p), b, mp, ms) /\ Ngx!Reds(Drawn(tree, S, p), cc, cp)
  /\ pc = "idle" => cc = Out /\ cp = Out /\ Ngx!Black(Drawn(tree, S, p), tree.root)
  /\ pc = "insert" => cc = cur /\ cp = Out
  /\ pc = "delete" => cc = cur /\ cp = cur
  /\ IF pc = "delete" /\ cur # tree.root
     THEN mp = up /\ up \in S /\ ms \in Sides /\ tree[ms][up] = cur
     ELSE mp = Out

\* The root may have to be painted black: it is one short itself.
LEMMA RootTinted ==
  ASSUME NEW t, NEW S, NEW p, NEW n, NEW pos, Held(t, S, p, n, pos), NEW d, d = Drawn(t, S, p),
         NEW x, x = t.root, NEW b0, Ngx!Settled(Ngx!Paint(d, x, "black"), b0)
  PROVE  \E b : Ngx!Heights(d, b, Out, Out) /\ Ngx!Reds(d, x, x)
  <1> DEFINE e == Ngx!Paint(d, x, "black")
             own == Ngx!One(Ngx!Black(d, x)) + b0[t.left[x]]
             b == [y \in S \cup {Null} |-> IF y = x /\ x # Null THEN own ELSE b0[y]]
  <1>1. /\ t \in Trees /\ S \subseteq Keys /\ Null \notin S /\ Null \notin Keys /\ Kept(t, S, p)
        /\ Drawing(d, t, S, p) /\ d \in Ngx!Trees /\ Ngx!In(d) = S /\ x \in S \cup {Null}
    BY HeldFacts DEF Drawing, Kept
  <1>2. Ngx!Painted(e, d, x, "black")
    <2>1. x \in Ngx!Cells
      BY <1>1 DEF Ngx!Cells
    <2> QED
      BY <1>1, <2>1, NgxOk, Ngx!PaintPainted
  <1> HIDE DEF e
  <1>3. /\ Ngx!In(e) = S /\ \A f \in Sides : e[f] = d[f]
        /\ \A y \in S \cup {Null} : e.color[y] = IF y = x THEN "black" ELSE d.color[y]
    <2>1. Ngx!SameLinks(e, d)
      BY <1>2 DEF Ngx!Painted
    <2>2. e.left = d.left /\ e.right = d.right
      BY <2>1 DEF Ngx!SameLinks
    <2>3. \A f \in Sides : e[f] = d[f]
      BY <2>1 DEF Ngx!SameLinks, Ngx!Links, Sides
    <2>4. Ngx!In(e) = S
      BY <1>1, <2>2 DEF Ngx!In
    <2>5. \A y \in S \cup {Null} : e.color[y] = IF y = x THEN "black" ELSE d.color[y]
      BY <1>1, <1>2 DEF Ngx!Painted, Ngx!Cells
    <2> QED
      BY <2>3, <2>4, <2>5
  <1>4. \A y \in S, f \in Sides : /\ d[f][y] = t[f][y] /\ t[f][y] \in S \cup {Null}
                                  /\ t[f][y] = x => x = Null
    BY <1>1, SidesSame DEF Drawing, Kept
  <1>5. /\ Ngx!Heights(e, b0, Out, Out) /\ Ngx!Reds(e, Out, Out)
    BY DEF Ngx!Settled, e
  <1>6. /\ b0 \in [S \cup {Null} -> Nat \ {0}] /\ b0[Null] = 1
        /\ \A y \in S, f \in Sides : b0[y] = Ngx!One(Ngx!Black(e, y)) + Ngx!One(y = Out /\ f = Out) + b0[t[f][y]]
    BY <1>3, <1>4, <1>5, SidesSame DEF Ngx!Heights, Ngx!Measured, Ngx!HeightAt
  <1>7. Out \notin S
    BY <1>1, OutFacts
  <1>8. \A y \in S, f \in Sides : b0[y] = Ngx!One(Ngx!Black(e, y)) + b0[t[f][y]]
    <2>1. ASSUME NEW y \in S, NEW f \in Sides PROVE Ngx!One(y = Out /\ f = Out) = 0
      BY <1>7 DEF Ngx!One
    <2>2. \A k \in Nat : k + 0 = k
      OBVIOUS
    <2>3. \A y : Ngx!One(Ngx!Black(e, y)) \in Nat
      BY DEF Ngx!One
    <2> QED
      BY <1>6, <2>1, <2>2, <2>3
  <1>9. \A y \in S \cup {Null} : y # x => (Ngx!Black(e, y) <=> Ngx!Black(d, y))
    BY <1>3 DEF Ngx!Black, Ngx!Red
  <1>10. Ngx!One(Ngx!Black(d, x)) \in {0, 1}
    BY DEF Ngx!One
  <1>11. /\ "left" \in Sides /\ "right" \in Sides
         /\ x # Null => /\ b0[t.left[x]] \in Nat \ {0} /\ b0[t.left[x]] = b0[t.right[x]]
    <2>1. "left" \in Sides /\ "right" \in Sides
      BY DEF Sides
    <2>2. ASSUME x # Null PROVE b0[t.left[x]] \in Nat \ {0} /\ b0[t.left[x]] = b0[t.right[x]]
      <3>1. x \in S /\ t["left"][x] \in S \cup {Null} /\ t["right"][x] \in S \cup {Null}
        BY <1>1, <1>4, <2>1, <2>2
      <3>2. b0[x] = Ngx!One(Ngx!Black(e, x)) + b0[t["left"][x]]
        BY <1>8, <2>1, <3>1
      <3>3. b0[x] = Ngx!One(Ngx!Black(e, x)) + b0[t["right"][x]]
        BY <1>8, <2>1, <3>1
      <3>4. Ngx!One(Ngx!Black(e, x)) \in Nat
        BY DEF Ngx!One
      <3>5. b0[t["left"][x]] \in Nat \ {0} /\ b0[t["right"][x]] \in Nat \ {0}
        BY <1>6, <3>1
      <3> QED
        BY <3>2, <3>3, <3>4, <3>5
    <2> QED
      BY <2>1, <2>2
  <1>12. b \in [S \cup {Null} -> Nat \ {0}] /\ b[Null] = 1
    BY <1>6, <1>10, <1>11
  <1>13. ASSUME NEW y \in S, NEW f \in Sides
         PROVE  b[y] = Ngx!One(Ngx!Black(d, y)) + Ngx!One(y = Out /\ f = Out) + b[d[f][y]]
    <2>1. /\ Ngx!One(y = Out /\ f = Out) = 0 /\ d[f][y] = t[f][y] /\ t[f][y] \in S \cup {Null}
      BY <1>4, <1>7 DEF Ngx!One
    <2>2. b[t[f][y]] = b0[t[f][y]]
      BY <1>4, <2>1
    <2>3. b0[t[f][y]] \in Nat
      BY <1>6, <2>1
    <2>4. Ngx!One(Ngx!Black(d, y)) \in Nat
      BY DEF Ngx!One
    <2>5. CASE y = x
      <3>1. b[y] = Ngx!One(Ngx!Black(d, y)) + b0[t.left[x]]
        BY <1>1, <2>5
      <3>2. b0[t[f][y]] = b0[t.left[x]]
        <4>1. f = "left" \/ f = "right"
          BY DEF Sides
        <4> QED
          BY <1>1, <1>11, <2>5, <4>1
      <3> HIDE DEF b
      <3> QED
        BY <2>1, <2>2, <2>3, <2>4, <3>1, <3>2
    <2>6. CASE y # x
      <3>1. b[y] = b0[y]
        BY <2>6
      <3>2. b0[y] = Ngx!One(Ngx!Black(d, y)) + b0[t[f][y]]
        <4>1. b0[y] = Ngx!One(Ngx!Black(e, y)) + b0[t[f][y]]
          BY <1>8
        <4>2. Ngx!Black(e, y) <=> Ngx!Black(d, y)
          BY <1>9, <2>6
        <4>3. Ngx!One(Ngx!Black(e, y)) = Ngx!One(Ngx!Black(d, y))
          BY <4>2 DEF Ngx!One
        <4> QED
          BY <4>1, <4>3
      <3> HIDE DEF b
      <3> QED
        BY <2>1, <2>2, <2>3, <2>4, <3>1, <3>2
    <2> QED
      BY <2>5, <2>6
  <1>14. Ngx!Heights(d, b, Out, Out)
    <2> HIDE DEF b
    <2> QED
      BY <1>1, <1>12, <1>13, SidesSame DEF Ngx!Heights, Ngx!Measured, Ngx!HeightAt
  <1>15. Ngx!Reds(d, x, x)
    <2>1. ASSUME NEW y \in S, NEW f \in Sides, Ngx!Red(d, y), Ngx!Red(d, d[f][y]), y # x
          PROVE  d[f][y] = x
      <3>1. SUFFICES ASSUME d[f][y] # x PROVE FALSE
        OBVIOUS
      <3>2. d[f][y] \in S \cup {Null} /\ e[f][y] = d[f][y]
        BY <1>3, <1>4
      <3>3. Ngx!Red(e, y) /\ Ngx!Red(e, e[f][y])
        BY <1>3, <2>1, <3>1, <3>2 DEF Ngx!Red
      <3>4. e[f][y] = Out \/ y = Out
        BY <1>3, <1>5, <3>3, SidesSame DEF Ngx!Reds
      <3> QED
        BY <1>1, <1>7, <3>2, <3>4, OutFacts
    <2> QED
      BY <1>1, <2>1, SidesSame DEF Ngx!Reds
  <1> HIDE DEF b
  <1> QED
    BY <1>14, <1>15

\* Every state is colored so.
LEMMA KnownTinted ==
  ASSUME NEW S, NEW p, NEW n, NEW pos, Known(tree, pc, cur, up, gone, S, p, n, pos)
  PROVE  \E b, cc, cp, mp, ms : Tinted(b, cc, cp, mp, ms, S, p)
  <1> DEFINE d == Drawn(tree, S, p)
  <1>1. /\ Held(tree, S, p, n, pos) /\ Stage(d, pc, cur, up, gone)
        /\ pc \in {"idle", "insert", "delete"}
    BY DEF Known
  <1>2. /\ Drawing(d, tree, S, p) /\ d.root = tree.root /\ Ngx!In(d) = S /\ S \subseteq Keys
        /\ Null \notin S
    BY <1>1, HeldFacts DEF Drawing
  <1> HIDE DEF d
  <1>3. CASE pc = "idle"
    <2>1. PICK b : Ngx!Settled(d, b)
      BY <1>1, <1>3 DEF Stage
    <2>2. Tinted(b, Out, Out, Out, Out, S, p)
      BY <1>2, <1>3, <2>1 DEF Tinted, Ngx!Settled, d
    <2> QED
      BY <2>2
  <1>4. CASE pc = "insert"
    <2>1. PICK b : Ngx!InsertAt(d, b, cur)
      BY <1>1, <1>4 DEF Stage
    <2>2. Tinted(b, cur, Out, Out, Out, S, p)
      BY <1>2, <1>4, <2>1 DEF Tinted, Ngx!InsertAt, d
    <2> QED
      BY <2>2
  <1>5. CASE pc = "delete" /\ cur = tree.root
    <2>1. PICK b0 : Ngx!Settled(Ngx!Paint(d, cur, "black"), b0)
      BY <1>1, <1>2, <1>5 DEF Stage, AtDelete
    <2>2. PICK b : Ngx!Heights(d, b, Out, Out) /\ Ngx!Reds(d, cur, cur)
      <3>1. d = Drawn(tree, S, p) /\ cur = tree.root
        BY <1>5 DEF d
      <3> QED
        BY <1>1, <2>1, <3>1, RootTinted
    <2>3. Tinted(b, cur, cur, Out, Out, S, p)
      BY <1>2, <1>5, <2>2 DEF Tinted, d
    <2> QED
      BY <2>3
  <1>6. CASE pc = "delete" /\ cur # tree.root
    <2>1. PICK b : d.parent[cur] = up /\ Ngx!DeleteAt(d, b, cur)
      BY <1>1, <1>2, <1>6 DEF Stage, AtDelete
    <2> DEFINE ms == Ngx!SideOf(d, cur)
    <2>2. /\ Ngx!Heights(d, b, up, ms) /\ Ngx!Reds(d, cur, cur) /\ up \in S
          /\ ms \in Sides /\ d[ms][up] = cur
      BY <1>2, <1>6, <2>1, SidesSame DEF Ngx!DeleteAt, Ngx!Place
    <2> HIDE DEF ms
    <2>3. tree[ms][up] = cur
      BY <1>2, <2>2, SidesSame DEF Drawing
    <2>4. Tinted(b, cur, cur, up, ms, S, p)
      BY <1>6, <2>2, <2>3 DEF Tinted, d
    <2> QED
      BY <2>4
  <1> QED
    BY <1>1, <1>3, <1>4, <1>5, <1>6

\* Every path from a node to its leaves has as many blacks as its height says.
LEMMA BlacksHeight ==
  ASSUME NEW S, NEW p, NEW n, NEW pos, Known(tree, pc, cur, up, gone, S, p, n, pos),
         NEW b, NEW cc, NEW cp, NEW mp, NEW ms, Tinted(b, cc, cp, mp, ms, S, p)
  PROVE  Blacks = {b[tree.root]}
  <1> DEFINE d == Drawn(tree, S, p)
             N == Keys \cup {Null}
             step(f, x) == UNION {{One(Black(tree, x)) + One(MissingAt(x, s)) + k :
                                     k \in f[tree[s][x]]} : s \in {"left", "right"}}
             c0 == [x \in N |-> IF x \in S \cup {Null} THEN {b[x]} ELSE {}]
             c == [x \in N |-> IF x \in S \cup {Null} THEN {b[x]} ELSE step(c0, x)]
             blacks == CHOOSE f : f = [x \in N |->
                                         IF x = Null THEN {1}
                                         ELSE UNION {{One(Black(tree, x)) + One(MissingAt(x, s)) + k :
                                                k \in f[tree[s][x]]} : s \in {"left", "right"}}]
             P == {x \in S : blacks[x] = {b[x]}}
  <1>1. /\ Held(tree, S, p, n, pos) /\ Outside(tree, S, gone)
    BY DEF Known
  <1>2. /\ tree \in Trees /\ S \subseteq Keys /\ Null \notin S /\ Null \notin Keys
        /\ Kept(tree, S, p) /\ Drawing(d, tree, S, p)
    BY <1>1, HeldFacts
  <1>3. Placing(S, n, pos) /\ \E lo, hi : Spanned(tree, S, n, pos, lo, hi)
    BY <1>1, SpannedHere
  <1>4. PICK lo, hi : Spanned(tree, S, n, pos, lo, hi)
    BY <1>3
  <1> DEFINE m == [x \in S |-> hi[x] - lo[x]]
  <1>5. /\ n \in Nat /\ \A x \in S : lo[x] \in 1 .. n /\ hi[x] \in 1 .. n /\ pos[x] \in 1 .. n
                                     /\ lo[x] <= pos[x] /\ pos[x] <= hi[x]
    BY <1>3, <1>4 DEF Placing, Spanned
  <1>6. m \in [S -> Nat]
    BY <1>5
  <1>7. \A x \in S, s \in Sides : tree[s][x] \in S \cup {Null}
    BY <1>2 DEF Kept
  <1>8. \A x \in Keys, s \in Sides : x \notin S => tree[s][x] \in S \cup {Null}
    BY <1>1 DEF Outside
  <1>9. /\ b \in [S \cup {Null} -> Nat \ {0}] /\ b[Null] = 1
        /\ \A x \in S, s \in Sides :
             b[x] = Ngx!One(Ngx!Black(d, x)) + Ngx!One(x = mp /\ s = ms) + b[tree[s][x]]
    <2>1. Ngx!Heights(d, b, mp, ms)
      BY DEF Tinted
    <2>2. Ngx!In(d) = S /\ \A x \in S, s \in Sides : d[s][x] = tree[s][x]
      <3> HIDE DEF d
      <3> QED
        BY <1>2, SidesSame DEF Drawing
    <2> HIDE DEF d
    <2> QED
      BY <2>1, <2>2, SidesSame DEF Ngx!Heights, Ngx!Measured, Ngx!HeightAt
  <1> HIDE DEF d
  <1>10. \A x \in S, s \in Sides : MissingAt(x, s) <=> (x = mp /\ s = ms)
    <2>1. CASE ~ (pc = "delete" /\ cur # tree.root)
      <3>1. mp = Out
        BY <2>1 DEF Tinted
      <3> QED
        BY <1>2, <2>1, <3>1, OutFacts DEF MissingAt
    <2>2. CASE pc = "delete" /\ cur # tree.root
      <3>1. mp = up /\ up \in S /\ ms \in Sides /\ tree[ms][up] = cur
        BY <2>2 DEF Tinted
      <3>2. ASSUME NEW s \in Sides, tree[s][up] = cur PROVE s = ms
        <4>1. SUFFICES ASSUME s # ms PROVE FALSE
          OBVIOUS
        <4>2. b[up] = Ngx!One(Ngx!Black(d, up)) + Ngx!One(up = mp /\ s = ms) + b[cur]
          BY <1>9, <3>1, <3>2
        <4>3. b[up] = Ngx!One(Ngx!Black(d, up)) + Ngx!One(up = mp /\ ms = ms) + b[cur]
          BY <1>9, <3>1
        <4>4. Ngx!One(up = mp /\ s = ms) = 0 /\ Ngx!One(up = mp /\ ms = ms) = 1
          BY <3>1, <4>1 DEF Ngx!One
        <4>5. Ngx!One(Ngx!Black(d, up)) \in Nat
          BY DEF Ngx!One
        <4>6. b[cur] \in Nat
          <5>1. cur \in S \cup {Null}
            BY <1>7, <3>1
          <5> QED
            BY <1>9, <5>1
        <4> QED
          BY <4>2, <4>3, <4>4, <4>5, <4>6
      <3> QED
        BY <2>2, <3>1, <3>2 DEF MissingAt
    <2> QED
      BY <2>1, <2>2
  <1>11. \A x \in S, s \in Sides :
           b[x] = One(Black(tree, x)) + One(MissingAt(x, s)) + b[tree[s][x]]
    <2>1. ASSUME NEW x \in S, NEW s \in Sides
          PROVE  b[x] = One(Black(tree, x)) + One(MissingAt(x, s)) + b[tree[s][x]]
      <3>1. b[x] = Ngx!One(Ngx!Black(d, x)) + Ngx!One(x = mp /\ s = ms) + b[tree[s][x]]
        BY <1>9
      <3>2. One(Black(tree, x)) = Ngx!One(Ngx!Black(d, x))
        <4>1. Black(tree, x) <=> Ngx!Black(d, x)
          BY <1>2 DEF Drawing, Black, Ngx!Black
        <4> QED
          BY <4>1 DEF One, Ngx!One
      <3>3. One(MissingAt(x, s)) = Ngx!One(x = mp /\ s = ms)
        <4>1. MissingAt(x, s) <=> (x = mp /\ s = ms)
          BY <1>10
        <4> QED
          BY <4>1 DEF One, Ngx!One
      <3> QED
        BY <3>1, <3>2, <3>3
    <2> QED
      BY <2>1
  <1>12. "left" \in Sides /\ "right" \in Sides /\ Sides = {"left", "right"}
    BY DEF Sides
  <1>13. ASSUME NEW x \in S, NEW f, \A s \in Sides : f[tree[s][x]] = {b[tree[s][x]]}
         PROVE  step(f, x) = {b[x]}
    <2>1. ASSUME NEW s \in Sides
          PROVE  {One(Black(tree, x)) + One(MissingAt(x, s)) + k : k \in f[tree[s][x]]} = {b[x]}
      BY <1>11, <1>13
    <2> QED
      BY <1>12, <2>1
  <1>14. c = [x \in N |-> IF x = Null THEN {1} ELSE step(c, x)]
    <2>1. \A x \in S \cup {Null} : c[x] = {b[x]} /\ c0[x] = {b[x]}
      BY <1>2
    <2>2. ASSUME NEW x \in Keys, x \notin S PROVE c[x] = step(c, x)
      <3>1. c[x] = step(c0, x)
        BY <1>2, <2>2
      <3>2. \A s \in Sides : c0[tree[s][x]] = c[tree[s][x]]
        <4> HIDE DEF c, c0
        <4> QED
          BY <1>8, <2>1, <2>2
      <3> HIDE DEF c, c0
      <3>3. c0[tree["left"][x]] = c[tree["left"][x]] /\ c0[tree["right"][x]] = c[tree["right"][x]]
        BY <1>12, <3>2
      <3>4. \A f : step(f, x) = {One(Black(tree, x)) + One(MissingAt(x, "left")) + k : k \in f[tree["left"][x]]}
                        \cup {One(Black(tree, x)) + One(MissingAt(x, "right")) + k : k \in f[tree["right"][x]]}
        OBVIOUS
      <3> HIDE DEF step
      <3> QED
        BY <3>1, <3>3, <3>4
    <2>3. ASSUME NEW x \in S PROVE c[x] = step(c, x)
      <3>1. \A s \in Sides : c[tree[s][x]] = {b[tree[s][x]]}
        <4> HIDE DEF c
        <4> QED
          BY <1>7, <2>1
      <3> HIDE DEF c, step
      <3> QED
        BY <1>13, <2>1, <3>1
    <2>4. c[Null] = {1}
      <3> HIDE DEF c
      <3> QED
        BY <1>9, <2>1
    <2>5. c = [x \in N |-> c[x]]
      OBVIOUS
    <2> HIDE DEF c, c0, step
    <2> QED
      BY <2>2, <2>3, <2>4, <2>5
  <1>15. blacks = [x \in N |-> IF x = Null THEN {1} ELSE step(blacks, x)]
    <2> HIDE DEF c, c0
    <2> QED
      BY <1>14
  <1>16. Blacks = blacks[tree.root]
    BY DEF Blacks
  <1> HIDE DEF blacks, c, c0, step
  <1>17. blacks[Null] = {b[Null]}
    BY <1>9, <1>15
  <1>18. ASSUME NEW x \in S, \A y \in S : m[y] < m[x] => y \in P PROVE x \in P
    <2>1. blacks[x] = step(blacks, x)
      BY <1>2, <1>15
    <2>2. ASSUME NEW s \in Sides PROVE blacks[tree[s][x]] = {b[tree[s][x]]}
      <3>1. CASE tree[s][x] = Null
        BY <1>17, <3>1
      <3>2. CASE tree[s][x] # Null
        <4> DEFINE y == tree[s][x]
        <4>1. y \in S
          BY <1>7, <3>2
        <4>2. \/ lo[y] = lo[x] /\ hi[y] = pos[x] - 1
              \/ lo[y] = pos[x] + 1 /\ hi[y] = hi[x]
          BY <1>4, <1>12, <3>2 DEF Spanned
        <4>3. m[y] < m[x]
          <5> HIDE DEF y
          <5> QED
            BY <1>5, <4>1, <4>2
        <4> QED
          BY <1>18, <4>1, <4>3
      <3> QED
        BY <3>1, <3>2
    <2> QED
      BY <1>13, <2>1, <2>2
  <1>19. S \subseteq P
    <2> HIDE DEF m, P
    <2> QED
      BY <1>6, <1>18, NgxOk, Ngx!Induct
  <1>20. tree.root \in S \cup {Null}
    BY <1>2 DEF Kept
  <1> QED
    BY <1>16, <1>17, <1>19, <1>20

\* The keys that a search finds are the nodes.
LEMMA InTreeNodes ==
  ASSUME NEW S, NEW p, NEW n, NEW pos, Known(tree, pc, cur, up, gone, S, p, n, pos)
  PROVE  InTree = S
  <1>1. /\ Held(tree, S, p, n, pos) /\ Ascending(S, pos)
    BY DEF Known
  <1>2. \A k \in Keys : Search(tree, k) = IF k \in S THEN k ELSE Null
    BY <1>1, SearchFinds
  <1>3. S \subseteq Keys /\ Null \notin Keys
    BY <1>1, HeldFacts
  <1> QED
    BY <1>2, <1>3 DEF InTree

\* The invariant says what RedBlack says.
LEMMA InvRedBlack == IInv => RedBlack
  <1> SUFFICES ASSUME IInv PROVE RedBlack
    OBVIOUS
  <1>1. PICK S, p, n, pos : Known(tree, pc, cur, up, gone, S, p, n, pos)
    BY DEF IInv
  <1>2. PICK b, cc, cp, mp, ms : Tinted(b, cc, cp, mp, ms, S, p)
    BY <1>1, KnownTinted
  <1>3. InTree = S
    BY <1>1, InTreeNodes
  <1>4. Blacks = {b[tree.root]}
    BY <1>1, <1>2, BlacksHeight
  <1>5. /\ Held(tree, S, p, n, pos) /\ gone \notin S
        /\ pc \in {"idle", "insert", "delete"} /\ cur \in Nulls /\ up \in Nulls /\ gone \in Nulls
    BY <1>1 DEF Known
  <1> DEFINE d == Drawn(tree, S, p)
  <1>6. /\ tree \in Trees /\ Kept(tree, S, p) /\ Top(tree) /\ Drawing(d, tree, S, p) /\ Null \notin S
    BY <1>5, HeldFacts DEF Held
  <1>7. TypeOK
    BY <1>5, <1>6 DEF TypeOK, Trees, Nulls
  <1>8. ParentsExact
    <2>1. ASSUME NEW x \in S \ {tree.root}
          PROVE  tree.parent[x] \in S /\ x = tree[SideOf(tree, x)][tree.parent[x]]
      BY <1>6 DEF Kept
    <2>2. ASSUME NEW x \in S PROVE {tree.left[x], tree.right[x]} \subseteq S \cup {Null}
      <3>1. \A f \in Sides : tree[f][x] \in S \cup {Null}
        BY <1>6 DEF Kept
      <3>2. "left" \in Sides /\ "right" \in Sides
        BY DEF Sides
      <3> QED
        BY <3>1, <3>2
    <2> QED
      BY <1>3, <1>5, <1>6, <2>1, <2>2 DEF ParentsExact, Top
  <1>9. Cardinality(Blacks) = 1
    BY <1>4, FS_Singleton
  <1>10. RedsApart
    <2>1. ASSUME NEW x \in S, Red(tree, x), Red(tree, tree.parent[x])
          PROVE  \/ pc = "insert" /\ cur = x
                 \/ pc = "delete" /\ cur \in {x, tree.parent[x]}
      <3>1. x # tree.root
        BY <1>6, <2>1 DEF Red, Kept
      <3>2. tree.parent[x] \in S /\ tree[SideOf(tree, x)][tree.parent[x]] = x /\ SideOf(tree, x) \in Sides
        BY <1>6, <3>1 DEF Kept, SideOf, Sides
      <3>3. /\ Ngx!Red(d, tree.parent[x]) /\ Ngx!Red(d, x) /\ d[SideOf(tree, x)][tree.parent[x]] = x
            /\ Ngx!In(d) = S
        <4> HIDE DEF d
        <4> QED
          BY <1>6, <2>1, <3>2, SidesSame DEF Drawing
      <3>4. x = cc \/ tree.parent[x] = cp
        <4>1. Ngx!Reds(d, cc, cp)
          BY <1>2 DEF Tinted
        <4> HIDE DEF d
        <4> QED
          BY <3>2, <3>3, <4>1, SidesSame DEF Ngx!Reds
      <3>5. Out \notin S
        BY <1>5, HeldFacts, OutFacts
      <3> QED
        BY <1>2, <1>5, <3>2, <3>4, <3>5 DEF Tinted
    <2> QED
      BY <1>3, <2>1 DEF RedsApart
  <1>11. pc = "idle" => Black(tree, tree.root)
    <2>1. ASSUME pc = "idle" PROVE Black(tree, tree.root)
      <3>1. Ngx!Black(d, tree.root)
        BY <1>2, <2>1 DEF Tinted
      <3>2. tree.root \in S \cup {Null}
        BY <1>6 DEF Kept
      <3> HIDE DEF d
      <3> QED
        BY <1>6, <3>1, <3>2 DEF Drawing, Black, Ngx!Black
    <2> QED
      BY <2>1
  <1>12. pc = "delete" /\ cur # tree.root => cur = tree[CurSide][up]
    <2>1. ASSUME pc = "delete", cur # tree.root PROVE cur = tree[CurSide][up]
      <3>1. ms \in Sides /\ tree[ms][up] = cur
        BY <1>2, <2>1 DEF Tinted
      <3>2. tree["left"][up] = cur \/ tree["right"][up] = cur
        BY <3>1 DEF Sides
      <3>3. CASE tree.left[up] = cur
        BY <3>3 DEF CurSide
      <3>4. CASE tree.left[up] # cur
        BY <3>2, <3>4 DEF CurSide
      <3> QED
        BY <3>3, <3>4
    <2> QED
      BY <2>1
  <1> QED
    BY <1>7, <1>8, <1>9, <1>10, <1>11, <1>12 DEF RedBlack

\* At every turn of the loops the parents are right and the tree is red-black, but for the one
\* node the loop is at, for any keys.
THEOREM RedBlackHolds == Spec => []RedBlack
  BY Invariance, InvRedBlack, PTL

\* A node is one deeper than its parent, and nothing is as high as NULL.
LEMMA DepthsHere ==
  ASSUME NEW t, NEW S, NEW p, NEW n, NEW pos, Held(t, S, p, n, pos),
         NEW g, Outside(t, S, g)
  PROVE  /\ \A x \in S \cup {Null} : Depth(t, x) \in Nat
         /\ \A x \in S : Depth(t, x) = 1 + Depth(t, t.parent[x])
  <1> DEFINE d == Drawn(t, S, p)
             own == [x \in S |-> 1 + Ngx!Depth(d, x)]
             c == [x \in Keys |-> IF x \in S THEN own[x] ELSE IF t.parent[x] = Null THEN 1
                                  ELSE 1 + own[t.parent[x]]]
             depth == CHOOSE f : f = [y \in Keys |-> IF t.parent[y] = Null THEN 1
                                                     ELSE 1 + f[t.parent[y]]]
             P == {x \in S : depth[x] = own[x]}
  <1>1. /\ t \in Trees /\ S \subseteq Keys /\ Null \notin S /\ Null \notin Keys /\ Kept(t, S, p)
        /\ Drawing(d, t, S, p) /\ Ngx!Ordered(d, n, pos)
    BY HeldFacts
  <1>2. Ngx!DepthKnown(d)
    <2> HIDE DEF d
    <2> QED
      BY <1>1, NgxOk, Ngx!DepthFacts
  <1> HIDE DEF d
  <1>3. /\ d.root = t.root /\ Ngx!In(d) = S /\ \A x \in S : d.parent[x] = t.parent[x]
    BY <1>1 DEF Drawing
  <1>4. /\ \A x \in S : own[x] \in Nat
        /\ \A x \in S : IF t.parent[x] = Null THEN own[x] = 1
                        ELSE t.parent[x] \in S /\ own[x] = 1 + own[t.parent[x]]
    <2>1. /\ \A x \in S : Ngx!Depth(d, x) \in Nat
          /\ t.root \in S => Ngx!Depth(d, t.root) = 0
          /\ \A x \in S \ {t.root} : Ngx!Depth(d, x) = 1 + Ngx!Depth(d, t.parent[x])
      BY <1>2, <1>3 DEF Ngx!DepthKnown
    <2>2. \A x \in S : /\ t.parent[x] = Null <=> x = t.root
                       /\ x # t.root => t.parent[x] \in S
      BY <1>1 DEF Kept
    <2> QED
      BY <2>1, <2>2
  <1> HIDE DEF own
  <1>5. \A x \in Keys \ S : t.parent[x] \in S \cup {Null}
    <2>1. \A x \in Keys \ S, f \in Sides : t.parent[x] \in S \cup {Null}
      BY DEF Outside
    <2>2. "left" \in Sides
      BY DEF Sides
    <2> QED
      BY <2>1, <2>2
  <1>6. c = [y \in Keys |-> IF t.parent[y] = Null THEN 1 ELSE 1 + c[t.parent[y]]]
    <2>1. ASSUME NEW y \in Keys PROVE c[y] = IF t.parent[y] = Null THEN 1 ELSE 1 + c[t.parent[y]]
      <3>1. \A x \in S : c[x] = own[x]
        BY <1>1
      <3>2. y \notin S => c[y] = IF t.parent[y] = Null THEN 1 ELSE 1 + own[t.parent[y]]
        OBVIOUS
      <3> HIDE DEF c
      <3> QED
        BY <1>1, <1>4, <1>5, <3>1, <3>2
    <2>2. c = [y \in Keys |-> c[y]]
      OBVIOUS
    <2> HIDE DEF c
    <2> QED
      BY <2>1, <2>2
  <1>7. depth = [y \in Keys |-> IF t.parent[y] = Null THEN 1 ELSE 1 + depth[t.parent[y]]]
    <2> HIDE DEF c
    <2> QED
      BY <1>6
  <1>8. \A x : Depth(t, x) = IF x = Null THEN 0 ELSE depth[x]
    BY DEF Depth
  <1> HIDE DEF depth, c
  <1>9. \A y \in S : depth[y] = IF t.parent[y] = Null THEN 1 ELSE 1 + depth[t.parent[y]]
    BY <1>1, <1>7
  <1>10. own \in [S -> Nat]
    BY <1>4 DEF own
  <1>11. ASSUME NEW x \in S, \A y \in S : own[y] < own[x] => y \in P PROVE x \in P
    <2>1. CASE t.parent[x] = Null
      BY <1>4, <1>9, <2>1
    <2>2. CASE t.parent[x] # Null
      <3>1. t.parent[x] \in S /\ own[x] = 1 + own[t.parent[x]] /\ own[t.parent[x]] \in Nat
        BY <1>4, <2>2
      <3>2. t.parent[x] \in P
        <4> HIDE DEF P
        <4> QED
          BY <1>11, <3>1
      <3> QED
        BY <1>9, <2>2, <3>1, <3>2
    <2> QED
      BY <2>1, <2>2
  <1>12. S \subseteq P
    <2> HIDE DEF P
    <2> QED
      BY <1>10, <1>11, NgxOk, Ngx!Induct
  <1>13. \A x \in S : Depth(t, x) = own[x]
    BY <1>1, <1>8, <1>12
  <1>14. Depth(t, Null) = 0
    BY <1>8
  <1> QED
    BY <1>4, <1>13, <1>14

\* A turn of the insert loop that goes on.
LEMMA InsertClimbs ==
  ASSUME IInv, InsertRecolor \/ InsertRotate
  PROVE  Depth(tree', cur') < Depth(tree, cur) \/ ~ RedParent'
  <1>1. PICK S, p, n, pos : Known(tree, pc, cur, up, gone, S, p, n, pos)
    BY DEF IInv
  <1>2. /\ pc = "insert" /\ RedParent
    BY DEF InsertRecolor, InsertRotate
  <1>3. /\ Held(tree, S, p, n, pos) /\ Outside(tree, S, gone)
    BY <1>1 DEF Known
  <1>4. PICK b : Ngx!InsertAt(Drawn(tree, S, p), b, cur)
    BY <1>1, <1>2 DEF Known, Stage
  <1> DEFINE par == tree.parent[cur]
             gr == tree.parent[par]
             side == SideOf(tree, par)
             unc == tree[Opposite(side)][gr]
  <1>5. Around(tree, S, p, cur, par, gr, side, unc)
    BY <1>2, <1>3, <1>4, InsertAround DEF RedParent
  <1>6. CASE InsertRecolor
    <2>1. tree' = Recolored(tree, par, unc, gr) /\ cur' = gr
      BY <1>6 DEF InsertRecolor
    <2>2. tree \in Trees
      BY <1>3, HeldFacts
    <2>3. tree'.parent = tree.parent
      <3> HIDE DEF par, gr, side, unc
      <3> QED
        BY <2>1, <2>2 DEF Recolored, Paint, Set, Trees
    <2>4. Depth(tree', gr) = Depth(tree, gr)
      BY <2>3 DEF Depth
    <2>5. cur \in S /\ par \in S /\ gr \in S
      BY <1>5 DEF Around
    <2>6. /\ Depth(tree, cur) = 1 + Depth(tree, par) /\ Depth(tree, par) = 1 + Depth(tree, gr)
          /\ Depth(tree, gr) \in Nat
      BY <1>3, <2>5, DepthsHere
    <2> HIDE DEF par, gr, side, unc
    <2> QED
      BY <2>1, <2>4, <2>6
  <1>7. CASE InsertRotate
    <2>1. /\ Black(tree, unc)
          /\ cur' = IF cur = tree[Opposite(side)][par] THEN par ELSE cur
          /\ tree' = IF cur = tree[Opposite(side)][par]
                     THEN Raised(Rotate(tree, par, side), cur, gr, side)
                     ELSE Raised(tree, par, gr, side)
      BY <1>7 DEF InsertRotate
    <2>2. Black(tree', tree'.parent[cur'])
      <3> HIDE DEF par, gr, side, unc
      <3> QED
        BY <1>3, <1>4, <1>5, <2>1, InsertCarried
    <2> QED
      BY <2>2 DEF RedParent, Black
  <1> QED
    BY <1>6, <1>7

\* A turn of the delete loop that goes on.
LEMMA DeleteClimbs ==
  ASSUME IInv, DeleteRecolor \/ DeleteRotate
  PROVE  Depth(tree', up') < Depth(tree, up) \/ ~ LacksBlack'
  <1>1. PICK S, p, n, pos : Known(tree, pc, cur, up, gone, S, p, n, pos)
    BY DEF IInv
  <1>2. /\ pc = "delete" /\ LacksBlack
    BY DEF DeleteRecolor, DeleteRotate
  <1>3. /\ Held(tree, S, p, n, pos) /\ Drawn(tree, S, p).parent[cur] = up
        /\ cur # tree.root /\ Black(tree, cur)
    BY <1>1, <1>2, DeleteGoesOn
  <1>4. PICK b : Ngx!DeleteAt(Drawn(tree, S, p), b, cur)
    BY <1>1, <1>2, DeleteGoesOn
  <1>5. Outside(tree, S, gone)
    BY <1>1 DEF Known
  <1>6. CASE DeleteRecolor
    <2> DEFINE s == BlackSibling(tree, CurSide)
               w == s[Opposite(CurSide)][up]
    <2>1. /\ Black(s, s.left[w]) /\ Black(s, s.right[w]) /\ tree' = Paint(s, w, "red")
          /\ cur' = up /\ up' = s.parent[up]
      BY <1>6 DEF DeleteRecolor
    <2>2. CurSide = IF tree.left[up] = cur THEN "left" ELSE "right"
      BY DEF CurSide
    <2>3. s = BlackSibling(tree, CurSide) /\ w = s[Opposite(CurSide)][up]
      OBVIOUS
    <2> HIDE DEF s, w
    <2>7. /\ Carried(tree', tree, S, p, n, pos) /\ \E c : Ngx!DeleteAt(Drawn(tree', S, p), c, up)
          /\ up \in S /\ tree'.parent[up] = s.parent[up]
          /\ Still(tree', tree, up)
      <3>1. /\ Held(tree, S, p, n, pos) /\ Drawn(tree, S, p).parent[cur] = up
            /\ cur # tree.root /\ Black(tree, cur)
        BY <1>3
      <3>2. Black(s, s.left[w]) /\ Black(s, s.right[w]) /\ tree' = Paint(s, w, "red")
        BY <2>1
      <3> QED
        BY ONLY <1>4, <2>2, <2>3, <3>1, <3>2, DeleteRecolorCarried, SMTT(60)
    <2>4. /\ up \in S /\ tree'.parent[up] = s.parent[up]
          /\ (tree'.parent = tree.parent /\ tree'.root = tree.root) \/ Red(tree', up)
      BY <2>7 DEF Still
    <2>5. CASE Red(tree', up)
      BY <2>1, <2>5 DEF LacksBlack, Black
    <2>6. CASE tree'.parent = tree.parent
      <3>1. up' = tree.parent[up]
        BY <2>1, <2>4, <2>6
      <3>2. Depth(tree', up') = Depth(tree, up')
        BY <2>6 DEF Depth
      <3>3. up' \in S \cup {Null}
        BY <1>3, <2>4, <3>1, HeldFacts DEF Kept
      <3>4. Depth(tree, up) = 1 + Depth(tree, up') /\ Depth(tree, up') \in Nat
        BY <1>3, <1>5, <2>4, <3>1, <3>3, DepthsHere
      <3> QED
        BY <3>2, <3>4
    <2> QED
      BY <2>4, <2>5, <2>6
  <1>7. CASE DeleteRotate
    <2>1. cur' = tree'.root
      BY <1>7 DEF DeleteRotate
    <2> QED
      BY <2>1 DEF LacksBlack
  <1> QED
    BY <1>6, <1>7

\* The loops end for any keys: every turn but the last one climbs.
THEOREM LoopsClimbHolds == Spec => LoopsClimb
  <1>1. ASSUME IInv, [Next]_vars
        PROVE  [/\ pc = "insert" /\ pc' = "insert" =>
                     Depth(tree', cur') < Depth(tree, cur) \/ ~ RedParent'
                /\ pc = "delete" /\ pc' = "delete" =>
                     Depth(tree', up') < Depth(tree, up) \/ ~ LacksBlack']_vars
    <2>1. CASE UNCHANGED vars
      BY <2>1
    <2>2. CASE Next
      <3>1. ASSUME pc = "insert", pc' = "insert" PROVE InsertRecolor \/ InsertRotate
        BY <2>2, <3>1 DEF Next, Turn, Call, Insert, DeleteNode, DeleteInner, Destroy,
                         InsertDone, DeleteRecolor, DeleteRotate, DeleteDone
      <3>2. ASSUME pc = "delete", pc' = "delete" PROVE DeleteRecolor \/ DeleteRotate
        BY <2>2, <3>2 DEF Next, Turn, Call, Insert, DeleteNode, DeleteInner, Destroy,
                         InsertDone, InsertRecolor, InsertRotate, DeleteDone
      <3>3. pc = "insert" /\ pc' = "insert" =>
                     Depth(tree', cur') < Depth(tree, cur) \/ ~ RedParent'
        BY <1>1, <3>1, InsertClimbs
      <3>4. pc = "delete" /\ pc' = "delete" =>
                     Depth(tree', up') < Depth(tree, up) \/ ~ LacksBlack'
        BY <1>1, <3>2, DeleteClimbs
      <3> QED
        BY <3>3, <3>4
    <2> QED
      BY <1>1, <2>1, <2>2
  <1> QED
    BY <1>1, Invariance, PTL DEF Spec, LoopsClimb

\* The key with the number i.
Nth(S, pos, i) == CHOOSE x \in S : pos[x] = i

\* The keys by number.
Keyline(S, n, pos) == [i \in 1 .. n |-> Nth(S, pos, i)]

\* Numbers and keys go together.
LEMMA NthFacts ==
  ASSUME NEW S, NEW n, NEW pos, Placing(S, n, pos)
  PROVE  /\ \A i \in 1 .. n : Nth(S, pos, i) \in S /\ pos[Nth(S, pos, i)] = i
         /\ \A x \in S : Nth(S, pos, pos[x]) = x
         /\ Keyline(S, n, pos) \in [1 .. n -> S]
         /\ \A x \in S : Keyline(S, n, pos)[pos[x]] = x
  <1>1. n \in Nat /\ \A x \in S : pos[x] \in 1 .. n
    BY DEF Placing
  <1>2. ASSUME NEW i \in 1 .. n PROVE Nth(S, pos, i) \in S /\ pos[Nth(S, pos, i)] = i
    <2>1. \E x \in S : pos[x] = i
      BY DEF Placing
    <2> QED
      BY <2>1 DEF Nth
  <1>3. ASSUME NEW x \in S PROVE Nth(S, pos, pos[x]) = x
    BY <1>1, <1>2 DEF Placing
  <1> QED
    BY <1>1, <1>2, <1>3 DEF Keyline

\* What stands below x in the tree, in order.
Under(at, lo, hi, x) == IF x = Null THEN <<>> ELSE Ngx!Piece(at, lo[x], hi[x])

\* A node's keys are those below its left child, its own, and those below the right.
LEMMA UnderSplit ==
  ASSUME NEW t, NEW S, NEW n, NEW pos, NEW lo, NEW hi, Placing(S, n, pos),
         Spanned(t, S, n, pos, lo, hi), NEW at, at = Keyline(S, n, pos), NEW x \in S
  PROVE  Under(at, lo, hi, t.left[x]) \o <<x>> \o Under(at, lo, hi, t.right[x])
           = Under(at, lo, hi, x)
  <1>1. /\ n \in Nat /\ lo[x] \in 1 .. n /\ hi[x] \in 1 .. n /\ pos[x] \in 1 .. n
        /\ lo[x] <= pos[x] /\ pos[x] <= hi[x] /\ Null \notin S
    BY DEF Spanned, Placing
  <1>2. at \in [1 .. n -> S] /\ at[pos[x]] = x
    BY NthFacts
  <1>3. /\ Ngx!Piece(at, lo[x], pos[x] - 1) \o <<at[pos[x]]>> \o Ngx!Piece(at, pos[x] + 1, hi[x])
               = Ngx!Piece(at, lo[x], hi[x])
        /\ lo[x] = pos[x] => Ngx!Piece(at, lo[x], pos[x] - 1) = <<>>
        /\ hi[x] = pos[x] => Ngx!Piece(at, pos[x] + 1, hi[x]) = <<>>
    <2> DEFINE l == lo[x]
               h == hi[x]
               q == pos[x]
    <2>1. n \in Nat /\ l \in 1 .. n /\ h \in 1 .. n /\ q \in 1 .. n /\ l <= q /\ q <= h
      BY <1>1
    <2>2. at \in [1 .. n -> S] /\ Ngx!CellsAssumption /\ Ngx!KeysAssumption
      BY <1>2, NgxOk
    <2> HIDE DEF l, h, q
    <2>3. Ngx!Abutting(at, l, q, h)
      BY ONLY <2>1, <2>2, Ngx!PiecesAbut
    <2> QED
      BY <2>3 DEF l, h, q, Ngx!Abutting
  <1>4. Under(at, lo, hi, t.left[x]) = Ngx!Piece(at, lo[x], pos[x] - 1)
    <2>1. CASE t.left[x] = Null
      BY <1>3, <2>1 DEF Under, Spanned
    <2>2. CASE t.left[x] # Null
      BY <2>2 DEF Under, Spanned
    <2> QED
      BY <2>1, <2>2
  <1>5. Under(at, lo, hi, t.right[x]) = Ngx!Piece(at, pos[x] + 1, hi[x])
    <2>1. CASE t.right[x] = Null
      BY <1>3, <2>1 DEF Under, Spanned
    <2>2. CASE t.right[x] # Null
      BY <2>2 DEF Under, Spanned
    <2> QED
      BY <2>1, <2>2
  <1>6. Under(at, lo, hi, x) = Ngx!Piece(at, lo[x], hi[x])
    BY <1>1 DEF Under
  <1> QED
    BY <1>2, <1>3, <1>4, <1>5, <1>6, Zenon

\* inorder_tree_walk visits the keys by number.
LEMMA InOrderKeyline ==
  ASSUME NEW t, NEW S, NEW p, NEW n, NEW pos, Held(t, S, p, n, pos),
         NEW g, Outside(t, S, g)
  PROVE  InOrder(t) = Keyline(S, n, pos)
  <1> DEFINE N == Keys \cup {Null}
             at == Keyline(S, n, pos)
             io == CHOOSE f : f = [x \in N |-> IF x = Null THEN <<>>
                                               ELSE f[t.left[x]] \o <<x>> \o f[t.right[x]]]
  <1>1. /\ t \in Trees /\ S \subseteq Keys /\ Null \notin S /\ Null \notin Keys /\ Kept(t, S, p)
    BY HeldFacts
  <1>2. Placing(S, n, pos) /\ \E lo, hi : Spanned(t, S, n, pos, lo, hi)
    BY SpannedHere
  <1>3. PICK lo, hi : Spanned(t, S, n, pos, lo, hi)
    BY <1>2
  <1> DEFINE under(x) == Under(at, lo, hi, x)
             c0 == [x \in N |-> IF x \in S \cup {Null} THEN under(x) ELSE <<>>]
             c == [x \in N |-> IF x \in S \cup {Null} THEN under(x)
                               ELSE c0[t.left[x]] \o <<x>> \o c0[t.right[x]]]
             m == [x \in S |-> hi[x] - lo[x]]
             P == {x \in S : io[x] = under(x)}
  <1>4. /\ n \in Nat /\ \A x \in S : lo[x] \in 1 .. n /\ hi[x] \in 1 .. n /\ pos[x] \in 1 .. n
                                     /\ lo[x] <= pos[x] /\ pos[x] <= hi[x]
    BY <1>2, <1>3 DEF Placing, Spanned
  <1>5. m \in [S -> Nat]
    BY <1>4
  <1>6. \A x \in Keys : t.left[x] \in S \cup {Null} /\ t.right[x] \in S \cup {Null}
    <2>1. \A x \in Keys, f \in Sides : t[f][x] \in S \cup {Null}
      BY <1>1 DEF Kept, Outside
    <2>2. "left" \in Sides /\ "right" \in Sides
      BY DEF Sides
    <2>3. \A x \in Keys : t["left"][x] \in S \cup {Null} /\ t["right"][x] \in S \cup {Null}
      BY <2>1, <2>2
    <2> QED
      BY <2>3
  <1>7. \A x \in S : under(t.left[x]) \o <<x>> \o under(t.right[x]) = under(x)
    BY <1>2, <1>3, UnderSplit
  <1>8. under(Null) = <<>>
    BY DEF Under
  <1> HIDE DEF at
  <1>9. c = [x \in N |-> IF x = Null THEN <<>> ELSE c[t.left[x]] \o <<x>> \o c[t.right[x]]]
    <2> HIDE DEF under
    <2>1. \A x \in S \cup {Null} : c[x] = under(x) /\ c0[x] = under(x)
      BY <1>1
    <2>2. ASSUME NEW x \in Keys
          PROVE  /\ c[t.left[x]] = under(t.left[x]) /\ c[t.right[x]] = under(t.right[x])
                 /\ c0[t.left[x]] = c[t.left[x]] /\ c0[t.right[x]] = c[t.right[x]]
      <3> HIDE DEF c, c0
      <3> QED
        BY <1>6, <2>1
    <2>3. \A x \in Keys \ S : c[x] = c0[t.left[x]] \o <<x>> \o c0[t.right[x]]
      BY <1>1
    <2> HIDE DEF c, c0
    <2>4. ASSUME NEW x \in Keys PROVE c[x] = c[t.left[x]] \o <<x>> \o c[t.right[x]]
      <3>1. CASE x \in S
        BY <1>7, <2>1, <2>2, <3>1
      <3>2. CASE x \notin S
        BY <2>2, <2>3, <3>2
      <3> QED
        BY <3>1, <3>2
    <2>5. c[Null] = <<>>
      BY <1>8, <2>1
    <2>6. \A x \in N : c[x] = IF x = Null THEN <<>> ELSE c[t.left[x]] \o <<x>> \o c[t.right[x]]
      BY <1>1, <2>4, <2>5
    <2>7. c = [x \in N |-> c[x]]
      BY DEF c
    <2> QED
      BY <2>6, <2>7
  <1>10. io = [x \in N |-> IF x = Null THEN <<>> ELSE io[t.left[x]] \o <<x>> \o io[t.right[x]]]
    <2> HIDE DEF c
    <2> QED
      BY <1>9
  <1>11. InOrder(t) = io[t.root]
    BY DEF InOrder
  <1> HIDE DEF io
  <1>12. /\ io[Null] = <<>>
         /\ \A x \in S : io[x] = io[t.left[x]] \o <<x>> \o io[t.right[x]]
    BY <1>1, <1>10
  <1>13. ASSUME NEW x \in S, \A y \in S : m[y] < m[x] => y \in P PROVE x \in P
    <2>1. io[t.left[x]] = under(t.left[x])
      <3>1. CASE t.left[x] = Null
        BY <1>8, <1>12, <3>1
      <3>2. CASE t.left[x] # Null
        <4>1. t.left[x] \in S /\ lo[t.left[x]] = lo[x] /\ hi[t.left[x]] = pos[x] - 1
          BY <1>3, <3>2 DEF Spanned
        <4>2. m[t.left[x]] < m[x]
          BY <1>4, <4>1
        <4> QED
          BY <1>13, <4>1, <4>2
      <3> QED
        BY <3>1, <3>2
    <2>2. io[t.right[x]] = under(t.right[x])
      <3>1. CASE t.right[x] = Null
        BY <1>8, <1>12, <3>1
      <3>2. CASE t.right[x] # Null
        <4>1. t.right[x] \in S /\ lo[t.right[x]] = pos[x] + 1 /\ hi[t.right[x]] = hi[x]
          BY <1>3, <3>2 DEF Spanned
        <4>2. m[t.right[x]] < m[x]
          BY <1>4, <4>1
        <4> QED
          BY <1>13, <4>1, <4>2
      <3> QED
        BY <3>1, <3>2
    <2> HIDE DEF under
    <2> QED
      BY <1>7, <1>12, <2>1, <2>2
  <1> HIDE DEF m, P
  <1>14. S \subseteq P
    BY <1>5, <1>13, NgxOk, Ngx!Induct
  <1>15. at \in [1 .. n -> S]
    BY <1>2, NthFacts DEF at
  <1>16. CASE t.root = Null
    <2>1. n = 0 /\ io[t.root] = <<>>
      BY <1>3, <1>12, <1>16 DEF Spanned
    <2>2. at = <<>>
      BY <1>15, <2>1
    <2> QED
      BY <1>11, <2>1, <2>2 DEF at
  <1>17. CASE t.root # Null
    <2>1. t.root \in S /\ lo[t.root] = 1 /\ hi[t.root] = n
      BY <1>3, <1>17 DEF Spanned
    <2>2. io[t.root] = Ngx!Piece(at, 1, n)
      BY <1>1, <1>14, <2>1 DEF P, Under
    <2>3. Ngx!Piece(at, 1, n) = at
      BY <1>4, <1>15 DEF Ngx!Piece
    <2> QED
      BY <1>11, <2>2, <2>3 DEF at
  <1> QED
    BY <1>16, <1>17

\* The number after the last one below x, or before the first one; 0 and n + 1 are
\* outside.
Beyond(lo, hi, x, side) == IF side = "right" THEN hi[x] + 1 ELSE lo[x] - 1

\* The number next to that of x.
Beside(pos, x, side) == IF side = "right" THEN pos[x] + 1 ELSE pos[x] - 1

\* The key with the number i, or none.
Numbered(S, n, pos, i, e) == IF i \in 1 .. n THEN e \in S /\ pos[e] = i ELSE e = Null

\* From child to parent: what is beyond stays, or is the parent.
LEMMA BeyondUp ==
  ASSUME NEW t, NEW S, NEW p, NEW n, NEW pos, Held(t, S, p, n, pos),
         NEW lo, NEW hi, Spanned(t, S, n, pos, lo, hi), NEW x \in S, NEW side \in Sides
  PROVE  /\ x = t.root => t.parent[x] = Null /\ Beyond(lo, hi, x, side) \notin 1 .. n
         /\ x # t.root => /\ t.parent[x] \in S /\ t.parent[x] # Null
                          /\ hi[x] - lo[x] < hi[t.parent[x]] - lo[t.parent[x]]
                          /\ Beyond(lo, hi, x, side) =
                               IF x = t[side][t.parent[x]]
                               THEN Beyond(lo, hi, t.parent[x], side) ELSE pos[t.parent[x]]
  <1>1. Placing(S, n, pos) /\ Null \notin S /\ Kept(t, S, p)
    BY HeldFacts, SpannedHere
  <1>2. n \in Nat
    BY <1>1 DEF Placing
  <1>3. CASE x = t.root
    <2>1. t.parent[x] = Null
      BY <1>1, <1>3 DEF Kept
    <2>2. lo[x] = 1 /\ hi[x] = n
      BY <1>1, <1>3 DEF Spanned
    <2> QED
      BY <1>2, <1>3, <2>1, <2>2 DEF Beyond
  <1>4. CASE x # t.root
    <2> DEFINE y == t.parent[x]
               f == SideOf(t, x)
    <2>1. /\ y \in S /\ t[f][y] = x
      BY <1>1, <1>4 DEF Kept
    <2>2. f \in Sides
      BY DEF SideOf, Sides
    <2>3. t[Opposite(f)][y] # x
      <3>1. t[f][y] # Null
        BY <1>1, <2>1
      <3> HIDE DEF f, y
      <3> QED
        BY <1>1, <2>1, <2>2, <3>1 DEF Kept
    <2> HIDE DEF f, y
    <2>4. /\ lo[x] \in Nat /\ hi[x] \in Nat /\ lo[y] \in Nat /\ hi[y] \in Nat /\ pos[y] \in Nat
          /\ lo[y] <= pos[y] /\ pos[y] <= hi[y]
      BY <1>1, <2>1 DEF Placing, Spanned
    <2>5. CASE f = "left"
      <3>1. t.left[y] = x /\ t.right[y] # x
        BY <2>1, <2>3, <2>5 DEF Opposite
      <3>2. lo[x] = lo[y] /\ hi[x] = pos[y] - 1
        BY <1>1, <2>1, <3>1 DEF Spanned
      <3>3. x = t[side][y] <=> side = "left"
        BY <3>1 DEF Sides
      <3>4. Beyond(lo, hi, x, side) = IF x = t[side][y] THEN Beyond(lo, hi, y, side) ELSE pos[y]
        BY <2>4, <3>2, <3>3 DEF Beyond, Sides
      <3>5. hi[x] - lo[x] < hi[y] - lo[y]
        BY <2>4, <3>2
      <3> QED
        BY <1>1, <1>4, <2>1, <3>4, <3>5 DEF y
    <2>6. CASE f = "right"
      <3>1. t.right[y] = x /\ t.left[y] # x
        BY <2>1, <2>3, <2>6 DEF Opposite
      <3>2. lo[x] = pos[y] + 1 /\ hi[x] = hi[y]
        BY <1>1, <2>1, <3>1 DEF Spanned
      <3>3. x = t[side][y] <=> side = "right"
        BY <3>1 DEF Sides
      <3>4. Beyond(lo, hi, x, side) = IF x = t[side][y] THEN Beyond(lo, hi, y, side) ELSE pos[y]
        BY <2>4, <3>2, <3>3 DEF Beyond, Sides
      <3>5. hi[x] - lo[x] < hi[y] - lo[y]
        BY <2>4, <3>2
      <3> QED
        BY <1>1, <1>4, <2>1, <3>4, <3>5 DEF y
    <2> QED
      BY <2>2, <2>5, <2>6 DEF Sides
  <1> QED
    BY <1>3, <1>4

\* rbtree_successor and rbtree_predecessor find the key with the number beside.
LEMMA NeighbourBeside ==
  ASSUME NEW t, NEW S, NEW p, NEW n, NEW pos, Held(t, S, p, n, pos),
         NEW x \in S, NEW side \in Sides, NEW e, e = Neighbour(t, x, side)
  PROVE  Numbered(S, n, pos, Beside(pos, x, side), e)
  <1> DEFINE climb == CHOOSE f : f = [y \in Keys |->
                        IF t.parent[y] # Null /\ y = t[side][t.parent[y]]
                        THEN f[t.parent[y]] ELSE t.parent[y]]
             next == [y \in Keys |-> IF t.parent[y] # Null /\ y = t[side][t.parent[y]]
                                     THEN t.parent[y] ELSE Null]
             val == [y \in Keys |-> t.parent[y]]
  <1>1. /\ Placing(S, n, pos) /\ t \in Trees /\ Null \notin Keys /\ S \subseteq Keys /\ Null \notin S
        /\ Kept(t, S, p)
    BY HeldFacts, SpannedHere
  <1>2. PICK lo, hi : Spanned(t, S, n, pos, lo, hi)
    BY SpannedHere
  <1> DEFINE m == [y \in S |-> n - (hi[y] - lo[y])]
             P == {y \in S : Numbered(S, n, pos, Beyond(lo, hi, y, side), climb[y])}
  <1>3. climb = [y \in Keys |-> IF t.parent[y] # Null /\ y = t[side][t.parent[y]]
                                THEN climb[t.parent[y]] ELSE t.parent[y]]
    <2>1. next \in [Keys -> Keys \cup {Null}]
      BY <1>1 DEF Trees, Links
    <2>2. PICK c : Ngx!Follows(c, Keys, Null, next, val)
      <3> HIDE DEF next, val
      <3> QED
        BY <1>1, <2>1, NgxOk, Ngx!Chain
    <2>3. c = [y \in Keys |-> IF next[y] = Null THEN val[y] ELSE c[next[y]]]
      BY <2>2 DEF Ngx!Follows
    <2>4. [y \in Keys |-> IF next[y] = Null THEN val[y] ELSE c[next[y]]]
            = [y \in Keys |-> IF t.parent[y] # Null /\ y = t[side][t.parent[y]]
                              THEN c[t.parent[y]] ELSE t.parent[y]]
      OBVIOUS
    <2>5. c = [y \in Keys |-> IF t.parent[y] # Null /\ y = t[side][t.parent[y]]
                              THEN c[t.parent[y]] ELSE t.parent[y]]
      <3> HIDE DEF next, val
      <3> QED
        BY <2>3, <2>4
    <2> QED
      BY <2>5
  <1>4. e = IF t[side][x] # Null THEN Extreme(t, t[side][x], Opposite(side)) ELSE climb[x]
    BY DEF Neighbour
  <1> HIDE DEF climb
  <1>5. \A y \in S : climb[y] = IF t.parent[y] # Null /\ y = t[side][t.parent[y]]
                                THEN climb[t.parent[y]] ELSE t.parent[y]
    BY <1>1, <1>3
  <1>6. /\ n \in Nat /\ \A y \in S : lo[y] \in 1 .. n /\ hi[y] \in 1 .. n /\ pos[y] \in 1 .. n
                                     /\ lo[y] <= pos[y] /\ pos[y] <= hi[y]
    BY <1>1, <1>2 DEF Placing, Spanned
  <1>7. m \in [S -> Nat]
    BY <1>6
  <1>8. ASSUME NEW y \in S, \A z \in S : m[z] < m[y] => z \in P PROVE y \in P
    <2>1. CASE y = t.root
      <3>1. t.parent[y] = Null /\ Beyond(lo, hi, y, side) \notin 1 .. n
        BY <1>2, <2>1, BeyondUp
      <3>2. climb[y] = Null
        BY <1>5, <3>1
      <3> QED
        BY <3>1, <3>2 DEF Numbered
    <2>2. CASE y # t.root
      <3> DEFINE z == t.parent[y]
      <3>1. /\ z \in S /\ z # Null /\ hi[y] - lo[y] < hi[z] - lo[z]
            /\ Beyond(lo, hi, y, side) = IF y = t[side][z] THEN Beyond(lo, hi, z, side) ELSE pos[z]
        BY <1>2, <2>2, BeyondUp
      <3>2. climb[y] = IF y = t[side][z] THEN climb[z] ELSE z
        BY <1>5, <3>1
      <3> HIDE DEF z
      <3>3. m[z] < m[y]
        <4>1. lo[y] \in Nat /\ hi[y] \in Nat /\ lo[z] \in Nat /\ hi[z] \in Nat
          BY <1>6, <3>1
        <4> QED
          BY <1>6, <3>1, <4>1
      <3>4. z \in P
        <4> HIDE DEF P, m
        <4> QED
          BY <1>8, <3>1, <3>3
      <3>5. CASE y = t[side][z]
        BY <3>1, <3>2, <3>4, <3>5
      <3>6. CASE y # t[side][z]
        BY <1>6, <3>1, <3>2, <3>6 DEF Numbered
      <3> QED
        BY <3>5, <3>6
    <2> QED
      BY <2>1, <2>2
  <1> HIDE DEF m, P
  <1>9. S \subseteq P
    BY <1>7, <1>8, NgxOk, Ngx!Induct
  <1>10. CASE t[side][x] = Null
    <2>1. Numbered(S, n, pos, Beyond(lo, hi, x, side), climb[x])
      BY <1>9 DEF P
    <2>2. Beyond(lo, hi, x, side) = Beside(pos, x, side)
      <3>1. CASE side = "left"
        <4>1. t.left[x] = Null
          BY <1>10, <3>1
        <4> QED
          BY <1>2, <3>1, <4>1 DEF Spanned, Beyond, Beside
      <3>2. CASE side = "right"
        <4>1. t.right[x] = Null
          BY <1>10, <3>2
        <4> QED
          BY <1>2, <3>2, <4>1 DEF Spanned, Beyond, Beside
      <3> QED
        BY <3>1, <3>2 DEF Sides
    <2> QED
      BY <1>4, <1>10, <2>1, <2>2
  <1>11. CASE t[side][x] # Null
    <2> DEFINE z == t[side][x]
    <2>1. z \in S
      BY <1>1, <1>11 DEF Kept
    <2>2. Opposite(side) \in Sides /\ e = Extreme(t, z, Opposite(side))
      BY <1>4, <1>11 DEF Opposite, Sides
    <2>3. e \in S /\ pos[e] = End(lo, hi, z, Opposite(side))
      <3> HIDE DEF z
      <3> QED
        BY <1>2, <2>1, <2>2, ExtremeEnds
    <2>4. End(lo, hi, z, Opposite(side)) = Beside(pos, x, side)
      <3>1. CASE side = "left"
        <4>1. t.left[x] = z /\ z # Null
          BY <1>11, <3>1
        <4>2. hi[z] = pos[x] - 1
          <5> HIDE DEF z
          <5> QED
            BY <1>2, <4>1 DEF Spanned
        <4> HIDE DEF z
        <4> QED
          BY <3>1, <4>2 DEF End, Beside, Opposite
      <3>2. CASE side = "right"
        <4>1. t.right[x] = z /\ z # Null
          BY <1>11, <3>2
        <4>2. lo[z] = pos[x] + 1
          <5> HIDE DEF z
          <5> QED
            BY <1>2, <4>1 DEF Spanned
        <4> HIDE DEF z
        <4> QED
          BY <3>2, <4>2 DEF End, Beside, Opposite
      <3> QED
        BY <3>1, <3>2 DEF Sides
    <2> HIDE DEF z
    <2>5. Beside(pos, x, side) \in 1 .. n
      BY <1>6, <2>3, <2>4
    <2> QED
      BY <2>3, <2>4, <2>5 DEF Numbered
  <1> QED
    BY <1>10, <1>11

\* The key with the number i, or Null outside.
ByNumber(S, n, pos, i) == IF i \in 1 .. n THEN Nth(S, pos, i) ELSE Null

\* A number stands for the key that has it, and no other.
LEMMA NumberedIs ==
  ASSUME NEW S, NEW n, NEW pos, Placing(S, n, pos), NEW i, NEW e, Numbered(S, n, pos, i, e)
  PROVE  e = ByNumber(S, n, pos, i)
  BY NthFacts DEF Numbered, ByNumber

\* Greater keys have greater numbers.
LEMMA KeysAscend ==
  ASSUME NEW S, NEW n, NEW pos, Placing(S, n, pos), Ascending(S, pos)
  PROVE  /\ \A x, y \in S : x < y <=> pos[x] < pos[y]
         /\ \A x, y \in S : x > y <=> pos[x] > pos[y]
         /\ \A x \in S : x \in Nat /\ pos[x] \in 1 .. n
         /\ n \in Nat
  <1>1. /\ n \in Nat /\ \A x \in S : x \in Nat /\ pos[x] \in Nat /\ pos[x] \in 1 .. n
    BY KeysAssumption DEF Placing
  <1>2. ASSUME NEW x \in S, NEW y \in S, x < y PROVE pos[x] < pos[y]
    <2>1. x # y /\ ~ (y < x)
      BY <1>1, <1>2
    <2>2. pos[x] # pos[y]
      BY <2>1 DEF Placing
    <2>3. ~ (pos[y] < pos[x])
      BY <2>1 DEF Ascending
    <2> QED
      BY <1>1, <2>2, <2>3
  <1>3. ASSUME NEW x \in S, NEW y \in S, pos[x] < pos[y] PROVE x < y
    BY <1>3 DEF Ascending
  <1>4. \A x, y \in S : x < y <=> pos[x] < pos[y]
    BY <1>2, <1>3
  <1>5. \A x, y \in S : (x > y <=> y < x) /\ (pos[x] > pos[y] <=> pos[y] < pos[x])
    BY <1>1
  <1> QED
    BY <1>1, <1>4, <1>5

\* What the queries answer, by number.
Answered(t, S, n, pos) ==
  /\ {k \in Keys : Search(t, k) # Null} = S
  /\ {k \in Keys : Search(t, k) = k} = S
  /\ InOrder(t) = Keyline(S, n, pos)
  /\ Extreme(t, t.root, "left") = ByNumber(S, n, pos, 1)
  /\ Extreme(t, t.root, "right") = ByNumber(S, n, pos, n)
  /\ \A x \in S, side \in Sides : Neighbour(t, x, side) = ByNumber(S, n, pos, Beside(pos, x, side))

\* The queries of a numbered search tree give the keys with the first, the last
\* and the neighbouring number.
LEMMA QueriesAnswer ==
  ASSUME NEW t, NEW S, NEW p, NEW n, NEW pos, Held(t, S, p, n, pos), Ascending(S, pos),
         NEW g, Outside(t, S, g)
  PROVE  Answered(t, S, n, pos)
  <1>1. Placing(S, n, pos) /\ S \subseteq Keys /\ Null \notin Keys
    BY HeldFacts, SpannedHere
  <1>2. PICK lo, hi : Spanned(t, S, n, pos, lo, hi)
    BY SpannedHere
  <1>3. \A k \in Keys : Search(t, k) = IF k \in S THEN k ELSE Null
    BY SearchFinds
  <1>4. /\ {k \in Keys : Search(t, k) # Null} = S
        /\ {k \in Keys : Search(t, k) = k} = S
    BY <1>1, <1>3
  <1>5. InOrder(t) = Keyline(S, n, pos)
    BY InOrderKeyline
  <1>6. ASSUME NEW side \in Sides, NEW i, i = IF side = "left" THEN 1 ELSE n
        PROVE  Extreme(t, t.root, side) = ByNumber(S, n, pos, i)
    <2>1. CASE t.root = Null
      <3>1. n = 0
        BY <1>2, <2>1 DEF Spanned
      <3>2. i \notin 1 .. n
        BY <1>6, <3>1
      <3>3. Extreme(t, t.root, side) = Null
        BY <2>1 DEF Extreme
      <3> QED
        BY <3>2, <3>3 DEF ByNumber
    <2>2. CASE t.root # Null
      <3>1. t.root \in S /\ lo[t.root] = 1 /\ hi[t.root] = n
        BY <1>2, <2>2 DEF Spanned
      <3> DEFINE e == Extreme(t, t.root, side)
      <3>2. e \in S /\ pos[e] = End(lo, hi, t.root, side)
        <4>1. e = Extreme(t, t.root, side)
          OBVIOUS
        <4> HIDE DEF e
        <4> QED
          BY <1>2, <3>1, <4>1, ExtremeEnds
      <3> HIDE DEF e
      <3>3. pos[e] = i /\ pos[e] \in 1 .. n
        BY <1>1, <1>6, <3>1, <3>2 DEF End, Placing
      <3>4. e = Nth(S, pos, pos[e])
        BY <1>1, <3>2, NthFacts
      <3> QED
        BY <3>3, <3>4 DEF ByNumber, e
    <2> QED
      BY <2>1, <2>2
  <1>7. ASSUME NEW x \in S, NEW side \in Sides
        PROVE  Neighbour(t, x, side) = ByNumber(S, n, pos, Beside(pos, x, side))
    <2>1. Numbered(S, n, pos, Beside(pos, x, side), Neighbour(t, x, side))
      BY NeighbourBeside
    <2> QED
      BY <1>1, <2>1, NumberedIs
  <1>8. "left" \in Sides /\ "right" \in Sides /\ "left" # "right"
    BY DEF Sides
  <1>9. Extreme(t, t.root, "left") = ByNumber(S, n, pos, 1)
    BY <1>6, <1>8
  <1>10. Extreme(t, t.root, "right") = ByNumber(S, n, pos, n)
    BY <1>6, <1>8
  <1> QED
    BY <1>4, <1>5, <1>7, <1>9, <1>10 DEF Answered

\* The least of some keys, and the greatest.
LEMMA LeastIs ==
  ASSUME NEW T, T \subseteq Nat, NEW e \in T, \A y \in T \ {e} : e < y
  PROVE  Abstract!Best(T, Abstract!Less) = e
  <1>1. T # {}
    OBVIOUS
  <1>2. \A x \in T : (\A y \in T \ {x} : x < y) => x = e
    OBVIOUS
  <1> QED
    BY <1>1, <1>2 DEF Abstract!Best, Abstract!Less

\* The key with the last number is the greatest.
LEMMA GreatestIs ==
  ASSUME NEW T, T \subseteq Nat, NEW e \in T, \A y \in T \ {e} : e > y
  PROVE  Abstract!Best(T, Abstract!More) = e
  <1>1. T # {}
    OBVIOUS
  <1>2. \A x \in T : (\A y \in T \ {x} : x > y) => x = e
    OBVIOUS
  <1> QED
    BY <1>1, <1>2 DEF Abstract!Best, Abstract!More

\* What lies beyond the ends has no key.
LEMMA NoneIs ==
  /\ Abstract!Best({}, Abstract!Less) = Null
  /\ Abstract!Best({}, Abstract!More) = Null
  BY DEF Abstract!Best

\* The least key above a number, and the greatest below one.
LEMMA BestAbove ==
  ASSUME NEW S, NEW n, NEW pos, Placing(S, n, pos), Ascending(S, pos),
         NEW i \in 0 .. n, NEW T, T = {y \in S : pos[y] > i}
  PROVE  Abstract!Best(T, Abstract!Less) = ByNumber(S, n, pos, i + 1)
  <1>1. /\ n \in Nat /\ \A x \in S : x \in Nat /\ pos[x] \in 1 .. n
        /\ \A x, y \in S : x < y <=> pos[x] < pos[y]
    BY KeysAscend
  <1>2. CASE i = n
    <2>1. T = {} /\ i + 1 \notin 1 .. n
      BY <1>1, <1>2
    <2> QED
      BY <2>1, NoneIs DEF ByNumber
  <1>3. CASE i # n
    <2> DEFINE e == Nth(S, pos, i + 1)
    <2>1. i + 1 \in 1 .. n
      BY <1>1, <1>3
    <2>2. e \in S /\ pos[e] = i + 1
      BY <2>1, NthFacts
    <2>3. e = ByNumber(S, n, pos, i + 1)
      BY <2>1 DEF ByNumber
    <2> HIDE DEF e
    <2>4. e \in T /\ T \subseteq Nat
      BY <1>1, <2>2
    <2>5. ASSUME NEW y \in T \ {e} PROVE e < y
      <3>1. y \in S /\ y # e /\ pos[y] > i /\ pos[y] \in Nat
        BY <1>1
      <3>2. pos[y] # pos[e]
        BY <2>2, <3>1 DEF Placing
      <3> QED
        BY <1>1, <2>2, <3>1, <3>2
    <2>6. Abstract!Best(T, Abstract!Less) = e
      BY <2>4, <2>5, LeastIs
    <2> QED
      BY <2>3, <2>6
  <1> QED
    BY <1>2, <1>3

\* The key with the number before is the greatest of those that are less.
LEMMA BestBelow ==
  ASSUME NEW S, NEW n, NEW pos, Placing(S, n, pos), Ascending(S, pos),
         NEW i \in 1 .. n + 1, NEW T, T = {y \in S : pos[y] < i}
  PROVE  Abstract!Best(T, Abstract!More) = ByNumber(S, n, pos, i - 1)
  <1>1. /\ n \in Nat /\ \A x \in S : x \in Nat /\ pos[x] \in 1 .. n
        /\ \A x, y \in S : x > y <=> pos[x] > pos[y]
    BY KeysAscend
  <1>2. CASE i = 1
    <2>1. T = {} /\ i - 1 \notin 1 .. n
      BY <1>1, <1>2
    <2> QED
      BY <2>1, NoneIs DEF ByNumber
  <1>3. CASE i # 1
    <2> DEFINE e == Nth(S, pos, i - 1)
    <2>1. i - 1 \in 1 .. n
      BY <1>1, <1>3
    <2>2. e \in S /\ pos[e] = i - 1
      BY <2>1, NthFacts
    <2>3. e = ByNumber(S, n, pos, i - 1)
      BY <2>1 DEF ByNumber
    <2> HIDE DEF e
    <2>4. e \in T /\ T \subseteq Nat
      BY <1>1, <2>2
    <2>5. ASSUME NEW y \in T \ {e} PROVE e > y
      <3>1. y \in S /\ y # e /\ pos[y] < i /\ pos[y] \in Nat
        BY <1>1
      <3>2. pos[y] # pos[e]
        BY <2>2, <3>1 DEF Placing
      <3> QED
        BY <1>1, <2>2, <3>1, <3>2
    <2>6. Abstract!Best(T, Abstract!More) = e
      BY <2>4, <2>5, GreatestIs
    <2> QED
      BY <2>3, <2>6
  <1> QED
    BY <1>2, <1>3

\* All answers are those of the set.
LEMMA AnswersKnown ==
  ASSUME NEW S, NEW p, NEW n, NEW pos, Known(tree, pc, cur, up, gone, S, p, n, pos)
  PROVE  InTree = S /\ Abstract!Answers
  <1>1. Held(tree, S, p, n, pos) /\ Ascending(S, pos) /\ Outside(tree, S, gone)
    BY DEF Known
  <1>2. Answered(tree, S, n, pos) /\ Placing(S, n, pos)
    BY <1>1, QueriesAnswer, SpannedHere
  <1>3. InTree = S
    BY <1>2 DEF Answered, InTree
  <1>4. /\ n \in Nat /\ \A x \in S : x \in Nat /\ pos[x] \in 1 .. n
        /\ \A x, y \in S : x < y <=> pos[x] < pos[y]
        /\ \A x, y \in S : x > y <=> pos[x] > pos[y]
    BY <1>1, <1>2, KeysAscend
  <1> DEFINE order == Keyline(S, n, pos)
  <1>5. /\ order \in [1 .. n -> S] /\ \A i \in 1 .. n : order[i] \in S /\ pos[order[i]] = i
        /\ \A x \in S : order[pos[x]] = x
    BY <1>2, NthFacts DEF Keyline
  <1> HIDE DEF order
  <1>6. Len(order) = n
    BY <1>4, <1>5
  <1>7. {order[i] : i \in 1 .. Len(order)} = S
    BY <1>4, <1>5, <1>6
  <1>8. \A i \in 1 .. Len(order) - 1 : order[i] < order[i + 1]
    BY <1>4, <1>5, <1>6
  <1>9. Abstract!Best(S, Abstract!Less) = ByNumber(S, n, pos, 1)
    <2>1. S = {y \in S : pos[y] > 0} /\ 0 \in 0 .. n /\ 0 + 1 = 1
      BY <1>4
    <2> QED
      BY <1>1, <1>2, <2>1, BestAbove
  <1>10. Abstract!Best(S, Abstract!More) = ByNumber(S, n, pos, n)
    <2>1. S = {y \in S : pos[y] < n + 1} /\ n + 1 \in 1 .. n + 1 /\ (n + 1) - 1 = n
      BY <1>4
    <2> QED
      BY <1>1, <1>2, <2>1, BestBelow
  <1>11. ASSUME NEW k \in S
         PROVE  Neighbour(tree, k, "right") = Abstract!Best({x \in S : x > k}, Abstract!Less)
    <2>1. {x \in S : x > k} = {x \in S : pos[x] > pos[k]} /\ pos[k] \in 0 .. n
      BY <1>4
    <2>2. Abstract!Best({x \in S : x > k}, Abstract!Less) = ByNumber(S, n, pos, pos[k] + 1)
      BY <1>1, <1>2, <2>1, BestAbove
    <2>3. Neighbour(tree, k, "right") = ByNumber(S, n, pos, Beside(pos, k, "right"))
      BY <1>2 DEF Answered, Sides
    <2> QED
      BY <2>2, <2>3 DEF Beside
  <1>12. ASSUME NEW k \in S
         PROVE  Neighbour(tree, k, "left") = Abstract!Best({x \in S : x < k}, Abstract!More)
    <2>1. {x \in S : x < k} = {x \in S : pos[x] < pos[k]} /\ pos[k] \in 1 .. n + 1
      BY <1>4
    <2>2. Abstract!Best({x \in S : x < k}, Abstract!More) = ByNumber(S, n, pos, pos[k] - 1)
      BY <1>1, <1>2, <2>1, BestBelow
    <2>3. Neighbour(tree, k, "left") = ByNumber(S, n, pos, Beside(pos, k, "left"))
      BY <1>2 DEF Answered, Sides
    <2> QED
      BY <2>2, <2>3 DEF Beside
  <1>13. /\ {k \in Keys : Search(tree, k) = k} = S
         /\ InOrder(tree) = order
         /\ Extreme(tree, tree.root, "left") = Abstract!Best(S, Abstract!Less)
         /\ Extreme(tree, tree.root, "right") = Abstract!Best(S, Abstract!More)
    BY <1>2, <1>9, <1>10 DEF Answered, order
  <1>14. /\ [k \in S |-> Neighbour(tree, k, "right")]
               = [k \in S |-> Abstract!Best({x \in S : x > k}, Abstract!Less)]
         /\ [k \in S |-> Neighbour(tree, k, "left")]
               = [k \in S |-> Abstract!Best({x \in S : x < k}, Abstract!More)]
    BY <1>11, <1>12
  <1>15. Abstract!Answers
    BY <1>3, <1>7, <1>8, <1>13, <1>14 DEF Abstract!Answers
  <1> QED
    BY <1>3, <1>15

\* In every state of the invariant the queries answer as the set of keys does.
LEMMA InvAnswers == IInv => Abstract!Answers
  BY AnswersKnown DEF IInv

\* What the abstract variables are before and after a turn.
LEMMA TurnUnseen ==
  ASSUME NEW S, NEW p, NEW n, NEW pos, Known(tree, pc, cur, up, gone, S, p, n, pos),
         Known(tree', pc', cur', up', gone', S, p, n, pos)
  PROVE  UNCHANGED Abstract!vars
  <1>1. Answered(tree, S, n, pos)
    BY QueriesAnswer DEF Known
  <1>2. Answered(tree', S, n, pos)
    BY QueriesAnswer DEF Known
  <1>3. InTree = S /\ InTree' = S
    BY <1>1, <1>2 DEF Answered, InTree
  <1>4. /\ {k \in Keys : Search(tree', k) = k} = {k \in Keys : Search(tree, k) = k}
        /\ InOrder(tree') = InOrder(tree)
        /\ Extreme(tree', tree'.root, "left") = Extreme(tree, tree.root, "left")
        /\ Extreme(tree', tree'.root, "right") = Extreme(tree, tree.root, "right")
    BY <1>1, <1>2 DEF Answered
  <1>5. \A k \in S, s \in Sides : Neighbour(tree', k, s) = Neighbour(tree, k, s)
    BY <1>1, <1>2 DEF Answered
  <1>6. /\ [k \in S |-> Neighbour(tree', k, "right")] = [k \in S |-> Neighbour(tree, k, "right")]
        /\ [k \in S |-> Neighbour(tree', k, "left")] = [k \in S |-> Neighbour(tree, k, "left")]
    BY <1>5 DEF Sides
  <1> QED
    BY <1>3, <1>4, <1>6 DEF Abstract!vars, Abstract!answers

\* Each step is one of the set, or none.
LEMMA StepAbstract ==
  ASSUME IInv, [Next]_vars, (Abstract!Answers)'
  PROVE  [Abstract!Next]_(Abstract!vars)
  <1>1. PICK S, p, n, pos : Known(tree, pc, cur, up, gone, S, p, n, pos)
    BY DEF IInv
  <1>2. CASE Turn \/ UNCHANGED vars
    <2>1. Known(tree', pc', cur', up', gone', S, p, n, pos)
      <3>1. CASE Turn
        BY <1>1, <3>1, InsertTurnsKnown, DeleteTurnsKnown DEF Turn
      <3>2. CASE UNCHANGED vars
        BY <1>1, <3>2 DEF vars
      <3> QED
        BY <1>2, <3>1, <3>2
    <2> QED
      BY <1>1, <2>1, TurnUnseen
  <1>3. CASE ~ (Turn \/ UNCHANGED vars)
    <2>1. PICK T, p2, n2, pos2 :
            /\ Known(tree', pc', cur', up', gone', T, p2, n2, pos2)
            /\ \/ T = S /\ (Turn \/ UNCHANGED vars)
               \/ T = {} /\ Destroy
               \/ \E k \in Keys \ S : Insert(k) /\ T = S \cup {k}
               \/ \E k \in S : (DeleteNode(k) \/ DeleteInner(k)) /\ T = S \ {k}
      BY <1>1, StepKnown
    <2>2. Answered(tree, S, n, pos) /\ Answered(tree', T, n2, pos2)
      BY <1>1, <2>1, QueriesAnswer DEF Known
    <2>3. InTree = S /\ InTree' = T /\ S \subseteq Keys
      BY <2>2 DEF Answered, InTree
    <2>4. CASE T = {}
      BY <2>3, <2>4 DEF Abstract!Next, Abstract!Destroy
    <2>5. CASE \E k \in Keys \ S : T = S \cup {k}
      <3>1. PICK k \in Keys : k \notin S /\ T = S \cup {k}
        BY <2>5
      <3>2. Abstract!Insert(k)
        BY <2>3, <3>1 DEF Abstract!Insert
      <3> QED
        BY <3>2 DEF Abstract!Next
    <2>6. CASE \E k \in S : T = S \ {k}
      <3>1. PICK k \in Keys : k \in S /\ T = S \ {k}
        BY <2>3, <2>6
      <3>2. Abstract!Delete(k)
        BY <2>3, <3>1 DEF Abstract!Delete
      <3> QED
        BY <3>2 DEF Abstract!Next
    <2> QED
      BY <1>3, <2>1, <2>4, <2>5, <2>6
  <1> QED
    BY <1>2, <1>3

\* At the start the set is empty.
LEMMA InitAbstract == Init => Abstract!Init
  <1> SUFFICES ASSUME Init PROVE Abstract!Init
    OBVIOUS
  <1>1. Known(tree, pc, cur, up, gone, {}, Null, 0, Nowhere)
    BY EmptyKnown DEF Init, Nulls
  <1>2. InTree = {} /\ Abstract!Answers
    BY <1>1, AnswersKnown
  <1> QED
    BY <1>2 DEF Abstract!Init

\* rbtree.c is a set of keys, for any keys: every call does to the set what it is for,
\* and between any two turns the searches, the ends, the neighbours and the traversal
\* answer from it.
THEOREM SetImplemented == Spec => ImplementsKeySet
  <1>1. Init => Abstract!Init
    BY InitAbstract
  <1>2. IInv => Abstract!Answers
    BY InvAnswers
  <1>3. IInv /\ [Next]_vars /\ (Abstract!Answers)' => [Abstract!Next]_(Abstract!vars)
    BY StepAbstract
  <1> QED
    BY <1>1, <1>2, <1>3, Invariance, PTL DEF Spec, ImplementsKeySet, Abstract!Spec

-----------------------------------------------------------------------------
(***************************************************************************)
(* glob_match1.  Induction over a pattern is from its end.                 *)
(***************************************************************************)

\* Induction from the end: what holds at a number when it holds at the greater ones.
LEMMA Downwards ==
  ASSUME NEW n \in Nat, NEW P,
         \A i \in 1 .. n : (\A j \in i + 1 .. n : j \in P) => i \in P
  PROVE  \A i \in 1 .. n : i \in P
  <1> SUFFICES ASSUME NEW i \in 1 .. n, i \notin P PROVE FALSE
    OBVIOUS
  <1> DEFINE R == OpToRel(<, Nat)
             T == {k \in Nat : k < n /\ n - k \notin P}
  <1>1. IsWellFoundedOn(R, Nat)
    BY NatLessThanWellFounded
  <1>2. n - i \in T /\ T \subseteq Nat
    OBVIOUS
  <1>3. PICK m \in T : \A k \in T : ~ (<<k, m>> \in R)
    BY <1>1, <1>2, WFMin
  <1>4. \A k \in T : ~ (k < m)
    BY <1>3 DEF OpToRel
  <1> HIDE DEF R
  <1>5. m \in Nat /\ m < n /\ n - m \notin P /\ n - m \in 1 .. n
    BY <1>3
  <1>6. ASSUME NEW j \in n - m + 1 .. n PROVE j \in P
    <2>1. n - j \in Nat /\ n - j < m /\ n - j < n /\ n - (n - j) = j
      BY <1>5
    <2> QED
      BY <1>4, <2>1
  <1> QED
    BY <1>5, <1>6

\* A step from the values of a function at the numbers after k to its value at k.
Stepping(step, n, V) ==
  /\ V # {} /\ step \in [(1 .. n) \X [1 .. n -> V] -> V]
  /\ \A k \in 1 .. n, f, g \in [1 .. n -> V] :
        (\A j \in k + 1 .. n : f[j] = g[j]) => step[<<k, f>>] = step[<<k, g>>]

\* There is a function that is given by such steps.
Stepped(f, step, n, V) == f \in [1 .. n -> V] /\ \A k \in 1 .. n : f[k] = step[<<k, f>>]

\* Steps from the end on give a function.
LEMMA FromTheEnd ==
  ASSUME NEW n \in Nat, NEW V, NEW step, Stepping(step, n, V)
  PROVE  \E f : Stepped(f, step, n, V)
  <1> DEFINE F == [1 .. n -> V]
             Good(f, i) == \A k \in i .. n : f[k] = step[<<k, f>>]
             P == {i \in 1 .. n : \E f \in F : Good(f, i)}
  <1>0. /\ step \in [(1 .. n) \X F -> V]
        /\ \A k \in 1 .. n, f, g \in F :
              (\A j \in k + 1 .. n : f[j] = g[j]) => step[<<k, f>>] = step[<<k, g>>]
    BY DEF Stepping
  <1>1. PICK v \in V : TRUE
    BY DEF Stepping
  <1>2. ASSUME NEW i \in 1 .. n, NEW f \in F, Good(f, i + 1) PROVE i \in P
    <2> DEFINE g == [f EXCEPT ![i] = step[<<i, f>>]]
    <2>1. step[<<i, f>>] \in V
      BY <1>0
    <2>2. g \in F /\ g[i] = step[<<i, f>>] /\ \A k \in 1 .. n : k # i => g[k] = f[k]
      BY <2>1
    <2> HIDE DEF g
    <2>3. ASSUME NEW k \in i .. n PROVE g[k] = step[<<k, g>>]
      <3>1. k \in 1 .. n /\ \A j \in k + 1 .. n : j \in 1 .. n /\ j # i
        OBVIOUS
      <3>2. \A j \in k + 1 .. n : f[j] = g[j]
        BY <2>2, <3>1
      <3>3. step[<<k, f>>] = step[<<k, g>>]
        BY <1>0, <2>2, <3>1, <3>2
      <3>4. CASE k = i
        BY <2>2, <3>3, <3>4
      <3>5. CASE k # i
        <4>1. k \in i + 1 .. n
          BY <3>5
        <4>2. f[k] = step[<<k, f>>]
          BY <1>2, <4>1
        <4> QED
          BY <2>2, <3>1, <3>3, <3>5, <4>2
      <3> QED
        BY <3>4, <3>5
    <2> QED
      BY <2>2, <2>3
  <1>3. ASSUME NEW i \in 1 .. n, \A j \in i + 1 .. n : j \in P PROVE i \in P
    <2>1. CASE i = n
      <3>1. [k \in 1 .. n |-> v] \in F /\ Good([k \in 1 .. n |-> v], i + 1)
        BY <2>1
      <3> QED
        BY <1>2, <3>1
    <2>2. CASE i # n
      <3>1. i + 1 \in P
        <4>1. i + 1 \in i + 1 .. n
          BY <2>2
        <4> HIDE DEF P
        <4> QED
          BY <1>3, <4>1
      <3>2. PICK f \in F : Good(f, i + 1)
        BY <3>1
      <3> QED
        BY <1>2, <3>2
    <2> QED
      BY <2>1, <2>2
  <1> HIDE DEF P
  <1>4. \A i \in 1 .. n : i \in P
    BY <1>3, Downwards
  <1>5. CASE n = 0
    <2>1. [k \in 1 .. n |-> v] \in F /\ \A k \in 1 .. n : FALSE
      BY <1>5
    <2> QED
      BY <2>1 DEF Stepped
  <1>6. CASE n # 0
    <2>1. 1 \in P
      BY <1>4, <1>6
    <2> QED
      BY <2>1 DEF P, Stepped
  <1> QED
    BY <1>5, <1>6 DEF Stepped

\* A text ends with Nul, and has no other.
Ended(text) == /\ Len(text) \in Nat \ {0}
               /\ \A i \in 1 .. Len(text) : text[i] = Globs!Nul <=> i = Len(text)

\* What Spans gives for the index k, by what it gives for the later ones.
Chars == Texts \union {Globs!Nul}
\* For the character ch, in the first span or a later one.
SpanAt(f, k, first, ch) ==
  LET a == pattern[k]
      ranged == pattern[k + 1] = "-" /\ pattern[k + 2] # "]"
      b == IF ranged THEN pattern[k + 2] ELSE a
      rest == f[IF ranged THEN k + 3 ELSE k + 1][FALSE][ch]
      within == Rank(a) <= Rank(ch) /\ Rank(ch) <= Rank(b)
  IN  IF a = "]" /\ ~first THEN [end |-> k, has |-> FALSE]
      ELSE IF a = Globs!Nul \/ b = Globs!Nul THEN [end |-> 0, has |-> FALSE]
      ELSE [end |-> rest.end, has |-> rest.has \/ within]
\* For any character, in any span.
SpansAt(f, k) == [first \in BOOLEAN |-> [ch \in Chars |-> SpanAt(f, k, first, ch)]]

\* The indices that a span leads to are those after it, and in the pattern.
LEMMA SpansLater ==
  ASSUME Ended(pattern), NEW k \in 1 .. Len(pattern), NEW f, NEW g,
         \A j \in k + 1 .. Len(pattern) : f[j] = g[j]
  PROVE  SpansAt(f, k) = SpansAt(g, k)
  <1> SUFFICES ASSUME NEW first \in BOOLEAN, NEW ch \in Chars
               PROVE  SpanAt(f, k, first, ch) = SpanAt(g, k, first, ch)
    BY DEF SpansAt
  <1> DEFINE n == Len(pattern)
             ranged == pattern[k + 1] = "-" /\ pattern[k + 2] # "]"
             next == IF ranged THEN k + 3 ELSE k + 1
  <1>1. n \in Nat /\ \A i \in 1 .. n : pattern[i] = Globs!Nul <=> i = n
    BY DEF Ended
  <1>2. CASE pattern[k] = Globs!Nul \/ (ranged /\ pattern[k + 2] = Globs!Nul)
    BY <1>2 DEF SpanAt
  <1>3. CASE pattern[k] # Globs!Nul /\ ~ (ranged /\ pattern[k + 2] = Globs!Nul)
    <2>1. k < n
      BY <1>1, <1>3
    <2>2. next \in k + 1 .. n
      <3>1. CASE ranged
        <4>1. k + 1 \in 1 .. n /\ k + 1 # n
          BY <1>1, <2>1, <3>1 DEF Globs!Nul
        <4>2. k + 2 \in 1 .. n /\ k + 2 # n
          BY <1>1, <1>3, <3>1, <4>1
        <4> QED
          BY <1>1, <3>1, <4>2
      <3>2. CASE ~ ranged
        BY <1>1, <2>1, <3>2
      <3> QED
        BY <3>1, <3>2
    <2>3. f[next] = g[next]
      BY <2>2
    <2> QED
      BY <2>3 DEF SpanAt
  <1> QED
    BY <1>2, <1>3

\* What Spans may give, whatever the index.
Span == [end : Nat, has : BOOLEAN]
\* For any character, in any span.
Spanning == [BOOLEAN -> [Chars -> Span]]

\* With later values of that kind, the value is of that kind.
LEMMA SpanTyped ==
  ASSUME NEW h \in [Int -> Spanning], NEW k \in Nat
  PROVE  SpansAt(h, k) \in Spanning
  <1> SUFFICES ASSUME NEW first \in BOOLEAN, NEW ch \in Chars
               PROVE  SpanAt(h, k, first, ch) \in Span
    BY DEF SpansAt, Spanning
  <1>1. ASSUME NEW j \in Int PROVE h[j][FALSE][ch].end \in Nat /\ h[j][FALSE][ch].has \in BOOLEAN
    <2>1. h[j] \in Spanning
      OBVIOUS
    <2>2. h[j][FALSE][ch] \in Span
      BY <2>1 DEF Spanning
    <2> QED
      BY <2>2 DEF Span
  <1>2. k + 1 \in Int /\ k + 3 \in Int
    OBVIOUS
  <1> QED
    BY <1>1, <1>2 DEF SpanAt, Span

\* So it is with the values of indices in the pattern.
LEMMA SpanWithin ==
  ASSUME Ended(pattern), NEW k \in 1 .. Len(pattern), NEW f \in [1 .. Len(pattern) -> Spanning]
  PROVE  SpansAt(f, k) \in Spanning
  <1> DEFINE h == [j \in Int |-> IF j \in 1 .. Len(pattern) THEN f[j] ELSE f[k]]
  <1>1. h \in [Int -> Spanning] /\ \A j \in 1 .. Len(pattern) : f[j] = h[j]
    OBVIOUS
  <1> HIDE DEF h
  <1>2. \A j \in k + 1 .. Len(pattern) : f[j] = h[j]
    BY <1>1
  <1>3. SpansAt(f, k) = SpansAt(h, k)
    BY <1>2, SpansLater
  <1> QED
    BY <1>1, <1>3, SpanTyped

\* Spans is what its definition says: there is such a function.
SpansFor(f) == f = [k \in 1 .. Len(pattern) |-> SpansAt(f, k)]

\* There is a function as Spans is defined, so Spans is one.
LEMMA SpansIs == Ended(pattern) => SpansFor(Globs!Spans)
  <1> SUFFICES ASSUME Ended(pattern) PROVE SpansFor(Globs!Spans)
    OBVIOUS
  <1> DEFINE n == Len(pattern)
             F == [1 .. n -> Spanning]
             step == [x \in (1 .. n) \X F |-> SpansAt(x[2], x[1])]
  <1>1. n \in Nat
    BY DEF Ended
  <1>2. Spanning # {}
    <2>1. [first \in BOOLEAN |-> [ch \in Chars |-> [end |-> 0, has |-> FALSE]]] \in Spanning
      BY DEF Spanning, Span
    <2> QED
      BY <2>1
  <1>3. ASSUME NEW k \in 1 .. n, NEW f \in F PROVE step[<<k, f>>] = SpansAt(f, k) /\ SpansAt(f, k) \in Spanning
    BY SpanWithin
  <1>4. step \in [(1 .. n) \X F -> Spanning]
    BY <1>3
  <1> HIDE DEF step
  <1>5. ASSUME NEW k \in 1 .. n, NEW f \in F, NEW g \in F, \A j \in k + 1 .. n : f[j] = g[j]
        PROVE  step[<<k, f>>] = step[<<k, g>>]
    <2>1. SpansAt(f, k) = SpansAt(g, k)
      BY <1>5, SpansLater
    <2> QED
      BY <1>3, <2>1
  <1>6. \E f \in F : \A k \in 1 .. n : f[k] = step[<<k, f>>]
    <2>1. Stepping(step, n, Spanning)
      BY <1>2, <1>4, <1>5 DEF Stepping
    <2>2. \E f : Stepped(f, step, n, Spanning)
      <3> HIDE DEF n
      <3> QED
        BY <1>1, <2>1, FromTheEnd
    <2> QED
      BY <2>2 DEF Stepped
  <1>7. PICK f \in F : SpansFor(f)
    BY <1>3, <1>6 DEF SpansFor
  <1>8. Globs!Spans = CHOOSE g : SpansFor(g)
    BY DEF Globs!Spans, SpansFor, SpansAt, SpanAt, Chars
  <1> QED
    BY <1>7, <1>8

\* A class ends with a bracket, or does not end, whatever character is looked for.
ClassEnds(k, class) ==
  \A ch \in Chars :
     /\ class[ch].has \in BOOLEAN
     /\ class[ch].end \in Nat
     /\ class[ch].end # 0 => class[ch].end \in k .. Len(pattern) /\ pattern[class[ch].end] = "]"
     /\ \A other \in Chars : class[other].end = class[ch].end
\* That is so of the first span and of later ones.
SpanEnds(k, classes) == \A first \in BOOLEAN : ClassEnds(k, classes[first])

\* A class of which all is the same ends.
LEMMA SameEnds ==
  ASSUME NEW k \in 1 .. Len(pattern), Len(pattern) \in Nat, NEW class,
         \/ pattern[k] = "]" /\ \A ch \in Chars : class[ch] = [end |-> k, has |-> FALSE]
         \/ \A ch \in Chars : class[ch] = [end |-> 0, has |-> FALSE]
  PROVE  ClassEnds(k, class)
  <1>1. CASE pattern[k] = "]" /\ \A ch \in Chars : class[ch] = [end |-> k, has |-> FALSE]
    <2> SUFFICES ASSUME NEW ch \in Chars
                 PROVE  /\ class[ch].has \in BOOLEAN
                        /\ class[ch].end \in Nat
                        /\ class[ch].end # 0 => /\ class[ch].end \in k .. Len(pattern)
                                                /\ pattern[class[ch].end] = "]"
                        /\ \A other \in Chars : class[other].end = class[ch].end
      BY DEF ClassEnds
    <2>0. class[ch].has = FALSE
      BY <1>1
    <2>1. class[ch].has \in BOOLEAN
      BY <2>0, Zenon
    <2>2. \A other \in Chars : class[other].end = k
      BY <1>1
    <2>3. class[ch].end = k
      BY <2>2
    <2> QED
      BY <1>1, <2>1, <2>2, <2>3
  <1>2. CASE \A ch \in Chars : class[ch] = [end |-> 0, has |-> FALSE]
    <2> SUFFICES ASSUME NEW ch \in Chars
                 PROVE  /\ class[ch].has \in BOOLEAN
                        /\ class[ch].end \in Nat
                        /\ class[ch].end # 0 => /\ class[ch].end \in k .. Len(pattern)
                                                /\ pattern[class[ch].end] = "]"
                        /\ \A other \in Chars : class[other].end = class[ch].end
      BY DEF ClassEnds
    <2>0. class[ch].has = FALSE
      BY <1>2
    <2>1. class[ch].has \in BOOLEAN
      BY <2>0, Zenon
    <2>2. \A other \in Chars : class[other].end = 0
      BY <1>2
    <2>3. class[ch].end = 0
      BY <2>2
    <2> QED
      BY <2>1, <2>2, <2>3
  <1> QED
    BY <1>1, <1>2

\* The spans of a class are those after its first and the first.
AsRest(class, rest) == \A ch \in Chars : class[ch].end = rest[ch].end /\ class[ch].has \in BOOLEAN

\* A class ends where the rest of it does.
LEMMA RestEnds ==
  ASSUME NEW k \in 1 .. Len(pattern), NEW next \in k + 1 .. Len(pattern), Len(pattern) \in Nat,
         NEW class, NEW rest, ClassEnds(next, rest), AsRest(class, rest)
  PROVE  ClassEnds(k, class)
  <1>1. \A e \in next .. Len(pattern) : e \in k .. Len(pattern)
    OBVIOUS
  <1> QED
    BY <1>1 DEF ClassEnds, AsRest

\* So does one at an index, if those after it do.
LEMMA SpanEndsHere ==
  ASSUME Ended(pattern), NEW k \in 1 .. Len(pattern), NEW f,
         \A j \in k + 1 .. Len(pattern) : SpanEnds(j, f[j])
  PROVE  SpanEnds(k, SpansAt(f, k))
  <1> DEFINE n == Len(pattern)
             ranged == pattern[k + 1] = "-" /\ pattern[k + 2] # "]"
             next == IF ranged THEN k + 3 ELSE k + 1
             over == pattern[k] = Globs!Nul \/ (ranged /\ pattern[k + 2] = Globs!Nul)
  <1>1. n \in Nat /\ \A i \in 1 .. n : pattern[i] = Globs!Nul <=> i = n
    BY DEF Ended
  <1>2. ASSUME NEW first \in BOOLEAN, NEW ch \in Chars
        PROVE  SpansAt(f, k)[first][ch] = SpanAt(f, k, first, ch)
    BY DEF SpansAt
  <1>3. ASSUME NEW first \in BOOLEAN, NEW ch \in Chars, pattern[k] = "]" /\ ~ first
        PROVE  SpanAt(f, k, first, ch) = [end |-> k, has |-> FALSE]
    BY <1>3 DEF SpanAt
  <1>4. ASSUME NEW first \in BOOLEAN, NEW ch \in Chars, ~ (pattern[k] = "]" /\ ~ first), over
        PROVE  SpanAt(f, k, first, ch) = [end |-> 0, has |-> FALSE]
    BY <1>4 DEF SpanAt
  <1>5. ASSUME ~ over PROVE next \in k + 1 .. n
    <2>1. k < n
      BY <1>1, <1>5
    <2>2. CASE ranged
      <3>1. k + 1 \in 1 .. n /\ k + 1 # n
        BY <1>1, <2>1, <2>2 DEF Globs!Nul
      <3>2. k + 2 \in 1 .. n /\ k + 2 # n
        BY <1>1, <1>5, <2>2, <3>1
      <3> QED
        BY <1>1, <2>2, <3>2
    <2>3. CASE ~ ranged
      BY <1>1, <2>1, <2>3
    <2> QED
      BY <2>2, <2>3
  <1>6. ASSUME NEW first \in BOOLEAN, NEW ch \in Chars, ~ (pattern[k] = "]" /\ ~ first), ~ over
        PROVE  /\ SpanAt(f, k, first, ch).end = f[next][FALSE][ch].end
               /\ SpanAt(f, k, first, ch).has \in BOOLEAN
    BY <1>6 DEF SpanAt
  <1>7. ASSUME ~ over PROVE SpanEnds(next, f[next])
    BY <1>5, <1>7
  <1> HIDE DEF over, next
  <1>8. ASSUME NEW first \in BOOLEAN PROVE ClassEnds(k, SpansAt(f, k)[first])
    <2> DEFINE class == SpansAt(f, k)[first]
    <2>1. \A ch \in Chars : class[ch] = SpanAt(f, k, first, ch)
      BY <1>2
    <2> HIDE DEF class
    <2>2. CASE pattern[k] = "]" /\ ~ first
      <3>1. pattern[k] = "]" /\ \A ch \in Chars : class[ch] = [end |-> k, has |-> FALSE]
        BY <1>3, <2>1, <2>2
      <3> QED
        BY ONLY <1>1, <3>1, SameEnds DEF class
    <2>3. CASE ~ (pattern[k] = "]" /\ ~ first) /\ over
      <3>1. \A ch \in Chars : class[ch] = [end |-> 0, has |-> FALSE]
        BY <1>4, <2>1, <2>3
      <3> QED
        BY ONLY <1>1, <3>1, SameEnds DEF class
    <2>4. CASE ~ (pattern[k] = "]" /\ ~ first) /\ ~ over
      <3>1. AsRest(class, f[next][FALSE])
        BY <1>6, <2>1, <2>4 DEF AsRest
      <3>2. next \in k + 1 .. n /\ ClassEnds(next, f[next][FALSE])
        BY <1>5, <1>7, <2>4 DEF SpanEnds
      <3> QED
        BY <1>1, <3>1, <3>2, RestEnds DEF class
    <2> QED
      BY <2>2, <2>3, <2>4
  <1> QED
    BY <1>8 DEF SpanEnds

\* So do all classes of the pattern.
LEMMA SpansEnd == Ended(pattern) => \A k \in 1 .. Len(pattern) : SpanEnds(k, Globs!Spans[k])
  <1> SUFFICES ASSUME Ended(pattern) PROVE \A k \in 1 .. Len(pattern) : SpanEnds(k, Globs!Spans[k])
    OBVIOUS
  <1> DEFINE n == Len(pattern)
             P == {k \in 1 .. n : SpanEnds(k, Globs!Spans[k])}
  <1>1. n \in Nat
    BY DEF Ended
  <1>2. ASSUME NEW k \in 1 .. n, \A j \in k + 1 .. n : j \in P PROVE k \in P
    <2>1. \A j \in k + 1 .. n : SpanEnds(j, Globs!Spans[j])
      BY <1>2
    <2>2. SpanEnds(k, SpansAt(Globs!Spans, k))
      BY <2>1, SpanEndsHere
    <2>3. Globs!Spans[k] = SpansAt(Globs!Spans, k)
      BY SpansIs DEF SpansFor
    <2> QED
      BY <2>2, <2>3
  <1> HIDE DEF P
  <1>3. \A k \in 1 .. n : k \in P
    BY <1>1, <1>2, Downwards
  <1> QED
    BY <1>3 DEF P

\* A class ends in the pattern, at one place for all characters, and has a
\* character or has not.
LEMMA ClassHere ==
  ASSUME Ended(pattern), NEW p \in 1 .. Len(pattern), pattern[p] = "[", NEW ch \in Chars
  PROVE  /\ Globs!ClassAt(p, ch).end \in Nat /\ Globs!ClassAt(p, ch).matches \in BOOLEAN
         /\ Globs!ClassAt(p, ch).end > 0 => Globs!ClassAt(p, ch).end + 1 \in p + 1 .. Len(pattern)
         /\ \A other \in Chars : Globs!ClassAt(p, other).end = Globs!ClassAt(p, ch).end
  <1> DEFINE n == Len(pattern)
             k == IF pattern[p + 1] = "!" THEN p + 2 ELSE p + 1
             class == Globs!Spans[k][TRUE]
  <1>1. n \in Nat /\ \A i \in 1 .. n : pattern[i] = Globs!Nul <=> i = n
    BY DEF Ended
  <1>2. k \in p + 1 .. n
    <2>1. p + 1 \in 1 .. n
      BY <1>1 DEF Globs!Nul
    <2>2. pattern[p + 1] = "!" => p + 2 \in 1 .. n
      BY <1>1, <2>1 DEF Globs!Nul
    <2> QED
      BY <2>1, <2>2
  <1>3. ASSUME NEW other \in Chars
        PROVE  /\ Globs!ClassAt(p, other).end = class[other].end
               /\ Globs!ClassAt(p, other).matches = (class[other].has # (pattern[p + 1] = "!"))
    BY DEF Globs!ClassAt
  <1> HIDE DEF k, class
  <1>4. ClassEnds(k, class)
    <2>1. SpanEnds(k, Globs!Spans[k])
      BY <1>2, SpansEnd
    <2>2. ClassEnds(k, Globs!Spans[k][TRUE])
      BY <2>1, Zenon DEF SpanEnds
    <2> QED
      BY <2>2 DEF class
  <1>5. /\ class[ch].end \in Nat
        /\ class[ch].end # 0 => class[ch].end \in k .. n /\ pattern[class[ch].end] = "]"
        /\ \A other \in Chars : class[other].end = class[ch].end
    BY <1>4 DEF ClassEnds
  <1>6. Globs!ClassAt(p, ch).matches \in BOOLEAN
    <2>1. (class[ch].has # (pattern[p + 1] = "!")) \in BOOLEAN
      OBVIOUS
    <2> QED
      BY <1>3, <2>1, Zenon
  <1>7. class[ch].end # 0 => class[ch].end # n
    BY <1>1, <1>2, <1>5 DEF Globs!Nul
  <1>8. class[ch].end # 0 => class[ch].end + 1 \in p + 1 .. n
    BY <1>1, <1>2, <1>5, <1>7
  <1> QED
    BY <1>3, <1>5, <1>6, <1>8

\* Whether the string from s on matches the pattern from p on, if m tells of the
\* places after p.
LiteralAt(m, q, s) == IF pattern[q] = Globs!Nul THEN string[s] = Globs!Nul
                      ELSE string[s] = pattern[q] /\ m[q + 1][s + 1]
\* The same for whatever is at the place p.
MeaningAt(m, p, s) ==
  CASE pattern[p] = "?" -> string[s] # Globs!Nul /\ m[p + 1][s + 1]
    [] pattern[p] = "*" -> \E t \in s .. Len(string) : m[p + 1][t]
    [] pattern[p] = "[" /\ Globs!ClassAt(p, string[s]).end > 0 ->
         /\ string[s] # Globs!Nul /\ Globs!ClassAt(p, string[s]).matches
         /\ m[Globs!ClassAt(p, string[s]).end + 1][s + 1]
    [] pattern[p] = "bs" -> LiteralAt(m, p + 1, s)
    [] OTHER -> LiteralAt(m, p, s)
\* For every place of the string.
MeaningsAt(m, p) == [s \in 1 .. Len(string) |-> MeaningAt(m, p, s)]
\* The definition of Matches.
MatchesFor(m) == m = [p \in 1 .. Len(pattern) |-> MeaningsAt(m, p)]

\* The texts that the program gets.
Given == Ended(pattern) /\ Ended(string) /\ \A s \in 1 .. Len(string) : string[s] \in Chars

\* What a place of the pattern stands for.
Literally(p) == pattern[p] \notin {"?", "*", "bs"} /\ \A ch \in Chars : pattern[p] = "[" => Globs!ClassAt(p, ch).end = 0

\* The last place of a pattern has no meaning of its own.
LEMMA NotLast ==
  ASSUME Given, NEW p \in 1 .. Len(pattern), pattern[p] \in {"?", "*", "bs"}
  PROVE  p + 1 \in p + 1 .. Len(pattern)
  <1>1. Len(pattern) \in Nat /\ \A i \in 1 .. Len(pattern) : pattern[i] = Globs!Nul <=> i = Len(pattern)
    BY DEF Given, Ended
  <1> QED
    BY <1>1 DEF Globs!Nul

\* The meaning of a place, by what stands there.
LEMMA Means ==
  ASSUME Given, NEW m, NEW p \in 1 .. Len(pattern), NEW s \in 1 .. Len(string)
  PROVE  /\ pattern[p] = "?" => /\ p + 1 \in 1 .. Len(pattern)
                                /\ MeaningAt(m, p, s) = (s # Len(string) /\ m[p + 1][s + 1])
         /\ pattern[p] = "*" => /\ p + 1 \in 1 .. Len(pattern)
                                /\ MeaningAt(m, p, s) = \E t \in s .. Len(string) : m[p + 1][t]
         /\ pattern[p] = "bs" => /\ p + 1 \in 1 .. Len(pattern)
                                 /\ MeaningAt(m, p, s) = LiteralAt(m, p + 1, s)
         /\ Literally(p) => MeaningAt(m, p, s) = LiteralAt(m, p, s)
         /\ pattern[p] = "[" /\ Globs!ClassAt(p, string[s]).end > 0 =>
              /\ Globs!ClassAt(p, string[s]).end + 1 \in p + 1 .. Len(pattern)
              /\ MeaningAt(m, p, s) = (/\ s # Len(string) /\ Globs!ClassAt(p, string[s]).matches
                                       /\ m[Globs!ClassAt(p, string[s]).end + 1][s + 1])
  <1>1. /\ Len(pattern) \in Nat /\ \A i \in 1 .. Len(pattern) : pattern[i] = Globs!Nul <=> i = Len(pattern)
        /\ string[s] = Globs!Nul <=> s = Len(string)
        /\ string[s] \in Chars
    BY DEF Given, Ended
  <1>2. pattern[p] # Globs!Nul => p + 1 \in 1 .. Len(pattern)
    BY <1>1
  <1>3. CASE pattern[p] = "?"
    BY <1>1, <1>2, <1>3 DEF MeaningAt, Globs!Nul, Literally
  <1>4. CASE pattern[p] = "*"
    BY <1>1, <1>2, <1>4 DEF MeaningAt, Globs!Nul, Literally
  <1>5. CASE pattern[p] = "bs"
    BY <1>1, <1>2, <1>5 DEF MeaningAt, Globs!Nul, Literally
  <1>6. CASE pattern[p] = "[" /\ Globs!ClassAt(p, string[s]).end > 0
    <2>1. Globs!ClassAt(p, string[s]).end + 1 \in p + 1 .. Len(pattern)
      BY <1>1, <1>6, ClassHere DEF Given
    <2>2. ~ Literally(p)
      BY <1>1, <1>6 DEF Literally
    <2> QED
      BY <1>1, <1>6, <2>1, <2>2 DEF MeaningAt
  <1>7. CASE pattern[p] \notin {"?", "*", "bs"} /\ ~ (pattern[p] = "[" /\ Globs!ClassAt(p, string[s]).end > 0)
    BY <1>7 DEF MeaningAt
  <1> QED
    BY <1>3, <1>4, <1>5, <1>6, <1>7

\* A literal looks at the places after it only.
LEMMA LiteralLater ==
  ASSUME Given, NEW p \in 1 .. Len(pattern), NEW q \in p .. Len(pattern), NEW s \in 1 .. Len(string),
         NEW f, NEW g, \A j \in p + 1 .. Len(pattern) : f[j] = g[j]
  PROVE  LiteralAt(f, q, s) = LiteralAt(g, q, s)
  <1>1. /\ Len(pattern) \in Nat /\ \A i \in 1 .. Len(pattern) : pattern[i] = Globs!Nul <=> i = Len(pattern)
    BY DEF Given, Ended
  <1>2. CASE pattern[q] = Globs!Nul
    BY <1>2 DEF LiteralAt
  <1>3. CASE pattern[q] # Globs!Nul
    <2>1. q + 1 \in p + 1 .. Len(pattern)
      BY <1>1, <1>3
    <2>2. f[q + 1] = g[q + 1]
      BY <2>1
    <2> QED
      BY <1>3, <2>2 DEF LiteralAt
  <1> QED
    BY <1>2, <1>3

\* Every place does.
LEMMA MeaningsLater ==
  ASSUME Given, NEW p \in 1 .. Len(pattern), NEW f, NEW g,
         \A j \in p + 1 .. Len(pattern) : f[j] = g[j]
  PROVE  MeaningsAt(f, p) = MeaningsAt(g, p)
  <1> SUFFICES ASSUME NEW s \in 1 .. Len(string) PROVE MeaningAt(f, p, s) = MeaningAt(g, p, s)
    BY DEF MeaningsAt
  <1>1. Len(pattern) \in Nat
    BY DEF Given, Ended
  <1>2. LiteralAt(f, p, s) = LiteralAt(g, p, s)
    <2>1. p \in p .. Len(pattern)
      BY <1>1
    <2> QED
      BY <2>1, LiteralLater
  <1>3. pattern[p] = "bs" => LiteralAt(f, p + 1, s) = LiteralAt(g, p + 1, s)
    <2>1. pattern[p] = "bs" => p + 1 \in p .. Len(pattern)
      BY <1>1, NotLast
    <2> QED
      BY <2>1, LiteralLater
  <1>4. pattern[p] \in {"?", "*"} => f[p + 1] = g[p + 1]
    <2>1. pattern[p] \in {"?", "*"} => p + 1 \in p + 1 .. Len(pattern)
      BY NotLast
    <2> QED
      BY <2>1
  <1>5. ASSUME pattern[p] = "[", Globs!ClassAt(p, string[s]).end > 0
        PROVE  f[Globs!ClassAt(p, string[s]).end + 1] = g[Globs!ClassAt(p, string[s]).end + 1]
    <2>1. Globs!ClassAt(p, string[s]).end + 1 \in p + 1 .. Len(pattern)
      BY <1>5, Means
    <2> QED
      BY <2>1
  <1> QED
    BY <1>2, <1>3, <1>4, <1>5 DEF MeaningAt

\* The meaning is a truth value, if it is at the places after.
LEMMA MeaningsTyped ==
  ASSUME Given, NEW p \in 1 .. Len(pattern), NEW f \in [1 .. Len(pattern) -> [1 .. Len(string) -> BOOLEAN]]
  PROVE  MeaningsAt(f, p) \in [1 .. Len(string) -> BOOLEAN]
  <1> SUFFICES ASSUME NEW s \in 1 .. Len(string) PROVE MeaningAt(f, p, s) \in BOOLEAN
    BY DEF MeaningsAt
  <1>1. /\ Len(pattern) \in Nat /\ \A i \in 1 .. Len(pattern) : pattern[i] = Globs!Nul <=> i = Len(pattern)
        /\ Len(string) \in Nat /\ \A i \in 1 .. Len(string) : string[i] = Globs!Nul <=> i = Len(string)
    BY DEF Given, Ended
  <1>2. ASSUME NEW q \in 1 .. Len(pattern) PROVE LiteralAt(f, q, s) \in BOOLEAN
    <2>1. CASE pattern[q] = Globs!Nul
      BY <2>1 DEF LiteralAt
    <2>2. CASE pattern[q] # Globs!Nul /\ string[s] # pattern[q]
      BY <2>2 DEF LiteralAt
    <2>3. CASE pattern[q] # Globs!Nul /\ string[s] = pattern[q]
      <3>1. q + 1 \in 1 .. Len(pattern) /\ s + 1 \in 1 .. Len(string)
        BY <1>1, <2>3
      <3>2. f[q + 1][s + 1] \in BOOLEAN
        BY <3>1
      <3> QED
        BY <2>3, <3>2 DEF LiteralAt
    <2> QED
      BY <2>1, <2>2, <2>3
  <1>3. ASSUME NEW q \in 1 .. Len(pattern) PROVE (s # Len(string) /\ f[q][s + 1]) \in BOOLEAN
    <2>1. CASE s = Len(string)
      BY <2>1
    <2>2. CASE s # Len(string)
      <3>1. s + 1 \in 1 .. Len(string)
        BY <1>1, <2>2
      <3> QED
        BY <3>1
    <2> QED
      BY <2>1, <2>2
  <1>4. CASE pattern[p] = "?"
    BY <1>3, <1>4, Means
  <1>5. CASE pattern[p] = "*"
    BY <1>5, Means
  <1>6. CASE pattern[p] = "bs"
    BY <1>2, <1>6, Means
  <1>7. CASE pattern[p] = "[" /\ Globs!ClassAt(p, string[s]).end > 0
    <2>1. /\ Globs!ClassAt(p, string[s]).end + 1 \in 1 .. Len(pattern)
          /\ MeaningAt(f, p, s) = (/\ s # Len(string) /\ Globs!ClassAt(p, string[s]).matches
                                   /\ f[Globs!ClassAt(p, string[s]).end + 1][s + 1])
      <3>1. Globs!ClassAt(p, string[s]).end + 1 \in p + 1 .. Len(pattern)
        BY <1>7, Means
      <3>2. Globs!ClassAt(p, string[s]).end + 1 \in 1 .. Len(pattern)
        BY <1>1, <3>1
      <3> QED
        BY <1>7, <3>2, Means, Zenon
    <2> DEFINE e == Globs!ClassAt(p, string[s]).end + 1
               h == Globs!ClassAt(p, string[s]).matches
    <2>2. (s # Len(string) /\ f[e][s + 1]) \in BOOLEAN /\ h \in BOOLEAN
      <3>1. (s # Len(string) /\ f[e][s + 1]) \in BOOLEAN
        BY <1>3, <2>1
      <3>2. string[s] \in Chars
        BY DEF Given
      <3> QED
        BY <1>7, <3>1, <3>2, ClassHere DEF Given
    <2> HIDE DEF e, h
    <2>3. (s # Len(string) /\ h /\ f[e][s + 1]) \in BOOLEAN
      BY <2>2
    <2> QED
      BY <2>1, <2>3 DEF e, h
  <1>8. CASE pattern[p] \notin {"?", "*", "bs"} /\ ~ (pattern[p] = "[" /\ Globs!ClassAt(p, string[s]).end > 0)
    <2>1. MeaningAt(f, p, s) = LiteralAt(f, p, s)
      BY <1>8 DEF MeaningAt
    <2> QED
      BY <1>2, <2>1
  <1> QED
    BY <1>4, <1>5, <1>6, <1>7, <1>8

\* Matches is what its definition says.
LEMMA MatchesIs ==
  ASSUME Given
  PROVE  MatchesFor(Globs!Matches) /\ Globs!Matches \in [1 .. Len(pattern) -> [1 .. Len(string) -> BOOLEAN]]
  <1> DEFINE n == Len(pattern)
             V == [1 .. Len(string) -> BOOLEAN]
             F == [1 .. n -> V]
             step == [x \in (1 .. n) \X F |-> MeaningsAt(x[2], x[1])]
  <1>1. n \in Nat
    BY DEF Given, Ended
  <1>2. V # {}
    <2>1. [s \in 1 .. Len(string) |-> FALSE] \in V
      OBVIOUS
    <2> QED
      BY <2>1
  <1>3. ASSUME NEW k \in 1 .. n, NEW f \in F PROVE step[<<k, f>>] = MeaningsAt(f, k) /\ MeaningsAt(f, k) \in V
    <2>1. MeaningsAt(f, k) \in V
      BY MeaningsTyped
    <2> QED
      BY <2>1
  <1>4. step \in [(1 .. n) \X F -> V]
    <2> HIDE DEF V
    <2> QED
      BY <1>3
  <1> HIDE DEF step
  <1>5. ASSUME NEW k \in 1 .. n, NEW f \in F, NEW g \in F, \A j \in k + 1 .. n : f[j] = g[j]
        PROVE  step[<<k, f>>] = step[<<k, g>>]
    <2>1. MeaningsAt(f, k) = MeaningsAt(g, k)
      BY <1>5, MeaningsLater
    <2> QED
      BY <1>3, <2>1
  <1>6. \E f \in F : \A k \in 1 .. n : f[k] = step[<<k, f>>]
    <2> HIDE DEF V
    <2>1. Stepping(step, n, V)
      BY <1>2, <1>4, <1>5 DEF Stepping
    <2>2. \E f : Stepped(f, step, n, V)
      <3> HIDE DEF n
      <3> QED
        BY <1>1, <2>1, FromTheEnd
    <2> QED
      BY <2>2 DEF Stepped
  <1>7. PICK f \in F : MatchesFor(f)
    <2> HIDE DEF V
    <2> QED
      BY <1>3, <1>6 DEF MatchesFor
  <1>8. Globs!Matches = CHOOSE g : MatchesFor(g)
    BY DEF Globs!Matches, MatchesFor, MeaningsAt, MeaningAt, LiteralAt
  <1>9. MatchesFor(Globs!Matches)
    BY <1>7, <1>8
  <1> DEFINE P == {k \in 1 .. n : Globs!Matches[k] = f[k]}
  <1>10. ASSUME NEW k \in 1 .. n, \A j \in k + 1 .. n : j \in P PROVE k \in P
    <2>1. \A j \in k + 1 .. n : Globs!Matches[j] = f[j]
      BY <1>10
    <2>2. MeaningsAt(Globs!Matches, k) = MeaningsAt(f, k)
      BY <2>1, MeaningsLater
    <2> QED
      BY <1>7, <1>9, <2>2 DEF MatchesFor
  <1> HIDE DEF P
  <1>11. \A k \in 1 .. n : k \in P
    BY <1>1, <1>10, Downwards
  <1>12. Globs!Matches = f
    BY <1>7, <1>9, <1>11 DEF MatchesFor, P
  <1> QED
    BY <1>9, <1>12

\* What matches from which places on.
Table == [1 .. Len(pattern) -> [1 .. Len(string) -> BOOLEAN]]

\* At the place p and the character s, with bp and bs to go back to: what is left
\* to be tried is a match if there is one at all, and what matches from bp on
\* is, so far, what matches from p on as much later as s is after bs.
Accounted(m, p, s, bp, bs) ==
  /\ m[1][1] <=> m[p][s] \/ (bp # 0 /\ \E t \in bs + 1 .. Len(string) : m[bp][t])
  /\ bp # 0 => \A t \in bs .. Len(string) : m[bp][t] => /\ t + (s - bs) \in 1 .. Len(string)
                                                        /\ m[p][t + (s - bs)]

\* The indices.
Indices(p, s, bp, bs) ==
  /\ p \in 1 .. Len(pattern) /\ s \in 1 .. Len(string) /\ bp \in 0 .. Len(pattern)
  /\ bp # 0 => bs \in 1 .. s

\* The character and the place are those of each other, so both are done.
LEMMA AccountedNext ==
  ASSUME Len(pattern) \in Nat \ {0}, Len(string) \in Nat \ {0},
         NEW m \in Table, NEW p, NEW s, NEW bp, NEW bs, Indices(p, s, bp, bs), Accounted(m, p, s, bp, bs),
         NEW q \in 1 .. Len(pattern), s # Len(string), m[p][s] <=> m[q][s + 1],
         \A t \in s .. Len(string) : m[p][t] => t # Len(string) /\ m[q][t + 1]
  PROVE  Indices(q, s + 1, bp, bs) /\ Accounted(m, q, s + 1, bp, bs)
  <1>1. Indices(q, s + 1, bp, bs)
    BY DEF Indices
  <1>2. ASSUME bp # 0, NEW t \in bs .. Len(string), m[bp][t]
        PROVE  t + ((s + 1) - bs) \in 1 .. Len(string) /\ m[q][t + ((s + 1) - bs)]
    <2>1. bs \in 1 .. s /\ s \in 1 .. Len(string)
      BY <1>2 DEF Indices
    <2> DEFINE u == t + (s - bs)
    <2>2. u \in 1 .. Len(string) /\ m[p][u]
      BY <1>2 DEF Accounted
    <2>3. u \in s .. Len(string) /\ t + ((s + 1) - bs) = u + 1
      BY <2>1, <2>2
    <2> HIDE DEF u
    <2>4. u # Len(string) /\ m[q][u + 1]
      BY <2>2, <2>3
    <2>5. u + 1 \in 1 .. Len(string)
      BY <2>2, <2>4
    <2> QED
      BY <2>3, <2>4, <2>5
  <1>3. m[1][1] <=> m[q][s + 1] \/ (bp # 0 /\ \E t \in bs + 1 .. Len(string) : m[bp][t])
    BY DEF Accounted
  <1>4. bp # 0 => \A t \in bs .. Len(string) : m[bp][t] => /\ t + ((s + 1) - bs) \in 1 .. Len(string)
                                                            /\ m[q][t + ((s + 1) - bs)]
    BY <1>2
  <1> QED
    BY ONLY <1>1, <1>3, <1>4, Zenon DEF Accounted

\* There is no match here: it is looked for from the next character on.
LEMMA AccountedBack ==
  ASSUME Len(pattern) \in Nat \ {0}, Len(string) \in Nat \ {0},
         NEW m \in Table, NEW p, NEW s, NEW bp, NEW bs, Indices(p, s, bp, bs), Accounted(m, p, s, bp, bs),
         s # Len(string), ~ m[p][s], bp # 0
  PROVE  Indices(bp, bs + 1, bp, bs + 1) /\ Accounted(m, bp, bs + 1, bp, bs + 1)
  <1>1. bs \in 1 .. s /\ s \in 1 .. Len(string) /\ bp \in 1 .. Len(pattern)
    BY DEF Indices
  <1>2. bs + 1 \in 1 .. Len(string) /\ bs + 1 \in 1 .. bs + 1
    BY <1>1
  <1>3. Indices(bp, bs + 1, bp, bs + 1)
    BY <1>1, <1>2 DEF Indices
  <1>4. m[1][1] <=> \E t \in bs + 1 .. Len(string) : m[bp][t]
    BY DEF Accounted
  <1>5. (\E t \in bs + 1 .. Len(string) : m[bp][t]) <=>
           m[bp][bs + 1] \/ \E t \in bs + 1 + 1 .. Len(string) : m[bp][t]
    <2>1. \A t \in bs + 1 .. Len(string) : t = bs + 1 \/ t \in bs + 1 + 1 .. Len(string)
      BY <1>1
    <2>2. \A t \in bs + 1 + 1 .. Len(string) : t \in bs + 1 .. Len(string)
      BY <1>1
    <2>3. bs + 1 \in bs + 1 .. Len(string)
      BY <1>1, <1>2
    <2> QED
      BY <2>1, <2>2, <2>3
  <1>6. \A t \in bs + 1 .. Len(string) : t + ((bs + 1) - (bs + 1)) = t /\ t \in 1 .. Len(string)
    BY <1>1
  <1>7. m[1][1] <=> m[bp][bs + 1] \/ (bp # 0 /\ \E t \in bs + 1 + 1 .. Len(string) : m[bp][t])
    BY <1>4, <1>5
  <1>8. \A t \in bs + 1 .. Len(string) : m[bp][t] => /\ t + ((bs + 1) - (bs + 1)) \in 1 .. Len(string)
                                                      /\ m[bp][t + ((bs + 1) - (bs + 1))]
    BY <1>6
  <1> QED
    BY ONLY <1>3, <1>7, <1>8, Zenon DEF Accounted

\* There is no match here, and nothing to go back to or nothing left to match.
LEMMA AccountedNone ==
  ASSUME Len(pattern) \in Nat \ {0}, Len(string) \in Nat \ {0},
         NEW m \in Table, NEW p, NEW s, NEW bp, NEW bs, Indices(p, s, bp, bs), Accounted(m, p, s, bp, bs),
         ~ m[p][s], s = Len(string) \/ bp = 0
  PROVE  ~ m[1][1]
  <1> SUFFICES ASSUME bp # 0, NEW t \in bs + 1 .. Len(string), m[bp][t] PROVE FALSE
    BY DEF Accounted
  <1>1. bs \in 1 .. s /\ s = Len(string)
    BY DEF Indices
  <1>2. t \in bs .. Len(string) /\ t > bs
    BY <1>1
  <1>3. t + (s - bs) \in 1 .. Len(string)
    BY <1>2 DEF Accounted
  <1> QED
    BY <1>1, <1>2, <1>3

\* A star may stand for nothing, or for one character more: earlier stars need
\* not be tried again.
LEMMA AccountedStar ==
  ASSUME Len(pattern) \in Nat \ {0}, Len(string) \in Nat \ {0},
         NEW m \in Table, NEW p, NEW s, NEW bp, NEW bs, Indices(p, s, bp, bs), Accounted(m, p, s, bp, bs),
         p + 1 \in 1 .. Len(pattern),
         \A t \in s .. Len(string) : m[p][t] <=> \E u \in t .. Len(string) : m[p + 1][u]
  PROVE  Indices(p + 1, s, p + 1, s) /\ Accounted(m, p + 1, s, p + 1, s)
  <1>1. s \in 1 .. Len(string) /\ p \in 1 .. Len(pattern)
    BY DEF Indices
  <1>2. Indices(p + 1, s, p + 1, s)
    BY <1>1 DEF Indices
  <1>3. ASSUME bp # 0, NEW t \in bs + 1 .. Len(string), m[bp][t] PROVE m[p][s]
    <2>1. bs \in 1 .. s
      BY <1>3 DEF Indices
    <2> DEFINE u == t + (s - bs)
    <2>2. t \in bs .. Len(string)
      BY <2>1
    <2>3. u \in 1 .. Len(string) /\ m[p][u]
      BY <1>3, <2>2 DEF Accounted
    <2>4. u \in s .. Len(string)
      BY <1>1, <2>1, <2>3
    <2> HIDE DEF u
    <2>5. PICK v \in u .. Len(string) : m[p + 1][v]
      BY <2>3, <2>4
    <2>6. v \in s .. Len(string) /\ s \in s .. Len(string)
      BY <1>1, <2>4
    <2> QED
      BY <2>5, <2>6
  <1>4. m[1][1] <=> m[p][s]
    BY <1>3 DEF Accounted
  <1>5. m[p][s] <=> m[p + 1][s] \/ \E u \in s + 1 .. Len(string) : m[p + 1][u]
    <2>1. /\ \A u \in s .. Len(string) : u = s \/ u \in s + 1 .. Len(string)
          /\ \A u \in s + 1 .. Len(string) : u \in s .. Len(string)
          /\ s \in s .. Len(string)
      BY <1>1
    <2> QED
      BY <2>1
  <1>6. \A t \in s .. Len(string) : t + (s - s) = t /\ t \in 1 .. Len(string)
    BY <1>1
  <1>7. p + 1 # 0
    BY <1>1
  <1> QED
    BY <1>2, <1>4, <1>5, <1>6, <1>7 DEF Accounted

\* While the loop runs, what it has tried and has still to try is accounted for;
\* what it returns is whether there is a match.
GlobIInv ==
  /\ Given
  /\ result \in {"none", "true", "false", "past"}
  /\ result = "none" => /\ Indices(pat, str, back_pat, back_str)
                        /\ Accounted(Globs!Matches, pat, str, back_pat, back_str)
  /\ result \in {"true", "false"} => ((result = "true") <=> Globs!Matches[1][1])

\* What holds while the loop runs.
Running ==
  /\ Len(pattern) \in Nat \ {0} /\ Len(string) \in Nat \ {0}
  /\ \A i \in 1 .. Len(pattern) : pattern[i] = Globs!Nul <=> i = Len(pattern)
  /\ \A i \in 1 .. Len(string) : string[i] = Globs!Nul <=> i = Len(string)
  /\ Globs!Matches \in Table
  /\ Indices(pat, str, back_pat, back_str)
  /\ Accounted(Globs!Matches, pat, str, back_pat, back_str)
  /\ pat \in 1 .. Len(pattern) /\ str \in 1 .. Len(string) /\ result = "none"

\* What a turn of the loop makes of it.
Turned ==
  /\ pattern' = pattern /\ string' = string
  /\ result' \in {"none", "true", "false", "past"}
  /\ result' = "none" => /\ Indices(pat', str', back_pat', back_str')
                         /\ Accounted(Globs!Matches, pat', str', back_pat', back_str')
  /\ result' \in {"true", "false"} => ((result' = "true") <=> Globs!Matches[1][1])

\* The loop returns false.
LEMMA ReturnsFalse ==
  ASSUME Running, ~ Globs!Matches[pat][str], str = Len(string) \/ back_pat = 0, Globs!Return("false")
  PROVE  Turned
  <1>1. ~ Globs!Matches[1][1]
    BY AccountedNone DEF Running
  <1> QED
    BY <1>1 DEF Turned, Globs!Return

\* The loop returns true.
LEMMA ReturnsTrue ==
  ASSUME Running, Globs!Matches[pat][str], Globs!Return("true")
  PROVE  Turned
  <1>1. Globs!Matches[1][1]
    BY DEF Running, Accounted
  <1> QED
    BY <1>1 DEF Turned, Globs!Return

\* The loop goes on with the next character.
LEMMA GoesOn ==
  ASSUME Running, str # Len(string), NEW q \in 1 .. Len(pattern), Globs!Goto(q, str + 1),
         \A t \in 1 .. Len(string) : Globs!Matches[pat][t] => t # Len(string) /\ Globs!Matches[q][t + 1],
         Globs!Matches[q][str + 1] => Globs!Matches[pat][str]
  PROVE  Turned
  <1>1. /\ pat' = q /\ str' = str + 1 /\ back_pat' = back_pat /\ back_str' = back_str
        /\ pattern' = pattern /\ string' = string /\ result' \in {"none", "past"}
    BY DEF Globs!Goto
  <1>2. \A t \in str .. Len(string) : Globs!Matches[pat][t] => t # Len(string) /\ Globs!Matches[q][t + 1]
    BY DEF Running
  <1>3. Globs!Matches[pat][str] <=> Globs!Matches[q][str + 1]
    BY DEF Running
  <1>4. Indices(q, str + 1, back_pat, back_str) /\ Accounted(Globs!Matches, q, str + 1, back_pat, back_str)
    BY <1>2, <1>3, AccountedNext DEF Running
  <1> QED
    BY <1>1, <1>4 DEF Turned

\* The loop goes back.
LEMMA GoesBack ==
  ASSUME Running, ~ Globs!Matches[pat][str], Globs!Backtrack
  PROVE  Turned
  <1>1. Globs!c = Globs!Nul <=> str = Len(string)
    BY DEF Running, Globs!c
  <1>2. CASE Globs!c = Globs!Nul \/ back_pat = 0
    <2>1. Globs!Return("false") /\ (str = Len(string) \/ back_pat = 0)
      BY <1>1, <1>2 DEF Globs!Backtrack
    <2> QED
      BY <2>1, ReturnsFalse
  <1>3. CASE ~ (Globs!c = Globs!Nul \/ back_pat = 0)
    <2>1. /\ pat' = back_pat /\ back_str' = back_str + 1 /\ str' = back_str + 1
          /\ pattern' = pattern /\ string' = string /\ back_pat' = back_pat /\ result' = result
      BY <1>3 DEF Globs!Backtrack
    <2>2. /\ Indices(back_pat, back_str + 1, back_pat, back_str + 1)
          /\ Accounted(Globs!Matches, back_pat, back_str + 1, back_pat, back_str + 1)
      BY <1>1, <1>3, AccountedBack DEF Running
    <2>3. result = "none"
      BY DEF Running
    <2> QED
      BY <2>1, <2>2, <2>3 DEF Turned
  <1> QED
    BY <1>2, <1>3

\* A row of the table that is a literal.
LiteralRow(m, p, q) == \A t \in 1 .. Len(string) : m[p][t] <=> LiteralAt(m, q, t)

\* The label literal.
LEMMA Literals ==
  ASSUME Running, NEW q \in 1 .. Len(pattern), LiteralRow(Globs!Matches, pat, q), Globs!Literal(q)
  PROVE  Turned
  <1>1. Globs!Matches[pat][str] <=> LiteralAt(Globs!Matches, q, str)
    BY DEF LiteralRow, Running
  <1>2. CASE string[str] # pattern[q]
    <2>1. ~ LiteralAt(Globs!Matches, q, str)
      BY <1>2 DEF LiteralAt
    <2>2. Globs!Backtrack
      BY <1>2 DEF Globs!Literal, Globs!c
    <2> QED
      BY <1>1, <2>1, <2>2, GoesBack
  <1>3. CASE string[str] = pattern[q] /\ string[str] = Globs!Nul
    <2>1. LiteralAt(Globs!Matches, q, str)
      BY <1>3 DEF LiteralAt
    <2>2. Globs!Return("true")
      BY <1>3 DEF Globs!Literal, Globs!c
    <2> QED
      BY <1>1, <2>1, <2>2, ReturnsTrue
  <1>4. CASE string[str] = pattern[q] /\ string[str] # Globs!Nul
    <2>1. Globs!Goto(q + 1, str + 1)
      BY <1>4 DEF Globs!Literal, Globs!c
    <2>2. str # Len(string) /\ q # Len(pattern) /\ q + 1 \in 1 .. Len(pattern)
      BY <1>4 DEF Running
    <2>3. ASSUME NEW t \in 1 .. Len(string), Globs!Matches[pat][t]
          PROVE  t # Len(string) /\ Globs!Matches[q + 1][t + 1]
      <3>1. LiteralAt(Globs!Matches, q, t)
        BY <2>3 DEF LiteralRow
      <3>2. string[t] = pattern[q] /\ Globs!Matches[q + 1][t + 1]
        BY <1>4, <3>1 DEF LiteralAt
      <3> QED
        BY <1>4, <3>2 DEF Running
    <2>4. Globs!Matches[q + 1][str + 1] => Globs!Matches[pat][str]
      BY <1>1, <1>4 DEF LiteralAt
    <2> QED
      BY <2>1, <2>2, <2>3, <2>4, GoesOn
  <1> QED
    BY <1>2, <1>3, <1>4

\* The rows of the table are what the places of the pattern mean.
LEMMA Rows ==
  ASSUME Given, NEW p \in 1 .. Len(pattern), NEW s \in 1 .. Len(string)
  PROVE  Globs!Matches[p][s] = MeaningAt(Globs!Matches, p, s)
  BY MatchesIs DEF MatchesFor, MeaningsAt

\* Case '?'.
LEMMA Questions ==
  ASSUME Given, Running, Globs!Question
  PROVE  Turned
  <1>1. pattern[pat] = "?" /\ pat \in 1 .. Len(pattern)
    BY DEF Globs!Question, Globs!d, Running
  <1>2. pat + 1 \in 1 .. Len(pattern)
    BY <1>1, Means DEF Running
  <1>3. ASSUME NEW t \in 1 .. Len(string)
        PROVE  Globs!Matches[pat][t] <=> t # Len(string) /\ Globs!Matches[pat + 1][t + 1]
    <2>1. MeaningAt(Globs!Matches, pat, t) = (t # Len(string) /\ Globs!Matches[pat + 1][t + 1])
      BY <1>1, Means
    <2> QED
      BY <1>1, <2>1, Rows
  <1>4. CASE str = Len(string)
    <2>1. Globs!Return("false")
      BY <1>4 DEF Globs!Question, Globs!c, Running
    <2>2. ~ Globs!Matches[pat][str]
      BY <1>3, <1>4 DEF Running
    <2> QED
      BY <1>4, <2>1, <2>2, ReturnsFalse
  <1>5. CASE str # Len(string)
    <2>1. Globs!Goto(pat + 1, str + 1)
      BY <1>5 DEF Globs!Question, Globs!c, Running
    <2>2. Globs!Matches[pat + 1][str + 1] => Globs!Matches[pat][str]
      BY <1>3, <1>5 DEF Running
    <2> QED
      BY <1>2, <1>3, <1>5, <2>1, <2>2, GoesOn
  <1> QED
    BY <1>4, <1>5

\* Case '*'.
LEMMA Stars ==
  ASSUME Given, Running, Globs!Star
  PROVE  Turned
  <1>1. pattern[pat] = "*" /\ pat \in 1 .. Len(pattern) /\ str \in 1 .. Len(string) /\ Len(string) \in Nat
    BY DEF Globs!Star, Globs!d, Running
  <1>2. pat + 1 \in 1 .. Len(pattern)
    BY <1>1, Means DEF Running
  <1>3. ASSUME NEW t \in 1 .. Len(string)
        PROVE  Globs!Matches[pat][t] <=> \E u \in t .. Len(string) : Globs!Matches[pat + 1][u]
    <2>1. MeaningAt(Globs!Matches, pat, t) = \E u \in t .. Len(string) : Globs!Matches[pat + 1][u]
      BY <1>1, Means
    <2> QED
      BY <1>1, <2>1, Rows
  <1>4. CASE pattern[pat + 1] = Globs!Nul
    <2>1. Globs!Return("true")
      BY <1>4 DEF Globs!Star
    <2>2. Len(string) \in str .. Len(string) /\ Len(string) \in 1 .. Len(string)
      BY <1>1
    <2>3. string[Len(string)] = Globs!Nul
      BY <2>2 DEF Running
    <2>4. Literally(pat + 1)
      BY <1>4 DEF Literally, Globs!Nul
    <2>5. MeaningAt(Globs!Matches, pat + 1, Len(string)) = LiteralAt(Globs!Matches, pat + 1, Len(string))
      BY <1>2, <2>2, <2>4, Means
    <2>6. LiteralAt(Globs!Matches, pat + 1, Len(string))
      BY <1>4, <2>3 DEF LiteralAt
    <2>7. Globs!Matches[pat + 1][Len(string)]
      BY <1>2, <2>2, <2>5, <2>6, Rows
    <2>8. Globs!Matches[pat][str]
      BY <1>1, <1>3, <2>2, <2>7
    <2> QED
      BY <2>1, <2>8, ReturnsTrue
  <1>5. CASE pattern[pat + 1] # Globs!Nul
    <2>1. /\ pat' = pat + 1 /\ back_pat' = pat + 1 /\ back_str' = str
          /\ pattern' = pattern /\ string' = string /\ str' = str /\ result' = result
      BY <1>5 DEF Globs!Star
    <2>2. \A t \in str .. Len(string) :
             Globs!Matches[pat][t] <=> \E u \in t .. Len(string) : Globs!Matches[pat + 1][u]
      BY <1>1, <1>3
    <2>3. /\ Indices(pat + 1, str, pat + 1, str)
          /\ Accounted(Globs!Matches, pat + 1, str, pat + 1, str)
      BY <1>2, <2>2, AccountedStar DEF Running
    <2>4. result = "none"
      BY DEF Running
    <2> QED
      BY <2>1, <2>3, <2>4 DEF Turned
  <1> QED
    BY <1>4, <1>5

\* Case '['.
LEMMA Classes ==
  ASSUME Given, Running, Globs!Class
  PROVE  Turned
  <1> DEFINE e == Globs!ClassAt(pat, string[str]).end
             matches == Globs!ClassAt(pat, string[str]).matches
  <1>1. pattern[pat] = "[" /\ pat \in 1 .. Len(pattern) /\ str \in 1 .. Len(string)
    BY DEF Globs!Class, Globs!d, Running
  <1>2. \A t \in 1 .. Len(string) : string[t] \in Chars
    BY DEF Given
  <1>3. Ended(pattern)
    BY DEF Given
  <1>4. /\ e \in Nat /\ matches \in BOOLEAN
        /\ \A ch \in Chars : Globs!ClassAt(pat, ch).end = e
    BY <1>1, <1>2, <1>3, ClassHere
  <1>5. IF e = 0 THEN Globs!Literal(pat)
        ELSE IF matches THEN Globs!Goto(e + 1, str + 1) ELSE Globs!Backtrack
    BY DEF Globs!Class, Globs!c
  <1>6. CASE e = 0
    <2>1. Literally(pat)
      BY <1>1, <1>4, <1>6 DEF Literally
    <2>2. ASSUME NEW t \in 1 .. Len(string) PROVE Globs!Matches[pat][t] <=> LiteralAt(Globs!Matches, pat, t)
      <3>1. MeaningAt(Globs!Matches, pat, t) = LiteralAt(Globs!Matches, pat, t)
        BY <1>1, <2>1, Means
      <3> QED
        BY <1>1, <3>1, Rows
    <2> QED
      BY <1>1, <1>5, <1>6, <2>2, Literals DEF LiteralRow
  <1>7. CASE e # 0
    <2>1. ASSUME NEW t \in 1 .. Len(string)
          PROVE  /\ e + 1 \in 1 .. Len(pattern)
                 /\ Globs!Matches[pat][t] <=> /\ t # Len(string) /\ Globs!ClassAt(pat, string[t]).matches
                                              /\ Globs!Matches[e + 1][t + 1]
      <3>1. Globs!ClassAt(pat, string[t]).end = e /\ e > 0
        BY <1>2, <1>4, <1>7
      <3>2. /\ e + 1 \in pat + 1 .. Len(pattern)
            /\ MeaningAt(Globs!Matches, pat, t) = (/\ t # Len(string) /\ Globs!ClassAt(pat, string[t]).matches
                                                   /\ Globs!Matches[e + 1][t + 1])
        <4>1. pattern[pat] = "[" /\ Globs!ClassAt(pat, string[t]).end > 0
          BY <1>1, <3>1
        <4> HIDE DEF e
        <4> QED
          BY <1>1, <3>1, <4>1, Means
      <3>3. e + 1 \in 1 .. Len(pattern)
        BY <1>1, <3>2 DEF Running
      <3> HIDE DEF e
      <3> QED
        BY <1>1, <3>2, <3>3, Rows
    <2> HIDE DEF e
    <2>2. CASE ~ matches
      <3>1. ~ Globs!Matches[pat][str]
        BY <1>1, <2>1, <2>2
      <3> QED
        BY <1>5, <1>7, <2>2, <3>1, GoesBack
    <2>3. CASE matches /\ str = Len(string)
      <3>1. Globs!Goto(e + 1, str + 1)
        BY <1>5, <1>7, <2>3
      <3>2. result' = "past" /\ pattern' = pattern /\ string' = string
        BY <2>3, <3>1 DEF Globs!Goto, Running
      <3> QED
        BY <3>2 DEF Turned
    <2>4. CASE matches /\ str # Len(string)
      <3>1. Globs!Goto(e + 1, str + 1)
        BY <1>5, <1>7, <2>4
      <3>2. \A t \in 1 .. Len(string) : Globs!Matches[pat][t] => t # Len(string) /\ Globs!Matches[e + 1][t + 1]
        BY <2>1
      <3>3. Globs!Matches[e + 1][str + 1] => Globs!Matches[pat][str]
        BY <1>1, <2>1, <2>4
      <3>4. e + 1 \in 1 .. Len(pattern)
        BY <1>1, <2>1
      <3> QED
        BY <2>4, <3>1, <3>2, <3>3, <3>4, GoesOn
    <2> QED
      BY <2>2, <2>3, <2>4
  <1> QED
    BY <1>6, <1>7

\* Case '\\'.
LEMMA Escapes ==
  ASSUME Given, Running, Globs!Escape
  PROVE  Turned
  <1>1. pattern[pat] = "bs" /\ pat \in 1 .. Len(pattern) /\ Globs!Literal(pat + 1)
    BY DEF Globs!Escape, Globs!d, Running
  <1>2. pat + 1 \in 1 .. Len(pattern)
    BY <1>1, Means DEF Running
  <1>3. ASSUME NEW t \in 1 .. Len(string) PROVE Globs!Matches[pat][t] <=> LiteralAt(Globs!Matches, pat + 1, t)
    <2>1. MeaningAt(Globs!Matches, pat, t) = LiteralAt(Globs!Matches, pat + 1, t)
      BY <1>1, Means
    <2> QED
      BY <1>1, <2>1, Rows
  <1> QED
    BY <1>1, <1>2, <1>3, Literals DEF LiteralRow

\* The other characters.
LEMMA Others ==
  ASSUME Given, Running, Globs!Other
  PROVE  Turned
  <1>1. pattern[pat] \notin {"?", "*", "[", "bs"} /\ pat \in 1 .. Len(pattern) /\ Globs!Literal(pat)
    BY DEF Globs!Other, Globs!d, Running
  <1>2. Literally(pat)
    BY <1>1 DEF Literally
  <1>3. ASSUME NEW t \in 1 .. Len(string) PROVE Globs!Matches[pat][t] <=> LiteralAt(Globs!Matches, pat, t)
    <2>1. MeaningAt(Globs!Matches, pat, t) = LiteralAt(Globs!Matches, pat, t)
      BY <1>1, <1>2, Means
    <2> QED
      BY <1>1, <2>1, Rows
  <1> QED
    BY <1>1, <1>3, Literals DEF LiteralRow

\* A turn of the loop keeps the account.
LEMMA GlobStep ==
  ASSUME GlobIInv, Globs!Next
  PROVE  GlobIInv'
  <1>1. Given /\ result = "none"
    BY DEF GlobIInv, Globs!Next
  <1>2. Globs!Matches \in Table
    BY <1>1, MatchesIs DEF Table
  <1>3. Running
    BY <1>1, <1>2 DEF Running, GlobIInv, Given, Ended, Indices
  <1>4. Turned
    BY <1>1, <1>3, Questions, Stars, Classes, Escapes, Others DEF Globs!Next
  <1>5. pattern' = pattern /\ string' = string
    BY <1>4 DEF Turned
  <1>6. (Globs!Matches)' = Globs!Matches
    BY <1>5 DEF Globs!Matches, Globs!ClassAt, Globs!Spans
  <1>7. Given'
    BY <1>1, <1>5 DEF Given, Ended, Chars
  <1> QED
    BY <1>4, <1>5, <1>6, <1>7 DEF GlobIInv, Turned, Indices, Accounted

\* A text is some characters and Nul.
LEMMA EndsWithNul ==
  ASSUME NEW S, Globs!Nul \notin S, NEW text \in Seq(S)
  PROVE  /\ Ended(text \o <<Globs!Nul>>)
         /\ \A i \in 1 .. Len(text \o <<Globs!Nul>>) : (text \o <<Globs!Nul>>)[i] \in S \union {Globs!Nul}
  <1> DEFINE all == text \o <<Globs!Nul>>
  <1>1. Len(text) \in Nat /\ Len(all) = Len(text) + 1
    OBVIOUS
  <1>2. ASSUME NEW i \in 1 .. Len(all)
        PROVE  /\ i = Len(all) => all[i] = Globs!Nul
               /\ i # Len(all) => all[i] \in S
    BY <1>1
  <1> HIDE DEF all
  <1> QED
    BY <1>1, <1>2 DEF Ended, all

\* A bounded sequence is a sequence.
LEMMA BoundedIsSeq ==
  ASSUME NEW S, NEW n \in Nat, NEW text \in Globs!BoundedSeq(S, n)
  PROVE  text \in Seq(S)
  <1>1. PICK m \in 0 .. n : text \in [1 .. m -> S]
    BY DEF Globs!BoundedSeq, Globs!SeqOf
  <1> QED
    BY <1>1, SeqDef

\* At the start.
LEMMA GlobInit ==
  ASSUME AlgorithmsInit
  PROVE  GlobIInv
  <1>1. pat = 1 /\ str = 1 /\ back_pat = 0 /\ back_str = 0 /\ result = "none"
    BY DEF AlgorithmsInit, Globs!Init
  <1>2. Given
    <2>1. CASE which = "glob"
      <3>1. PICK p \in Globs!BoundedSeq(Letters \union Globs!Special, MaxPattern) : pattern = p \o <<Globs!Nul>>
        BY <2>1 DEF AlgorithmsInit, Globs!Init
      <3>2. PICK s \in Globs!BoundedSeq(Texts, MaxString) : string = s \o <<Globs!Nul>>
        BY <2>1 DEF AlgorithmsInit, Globs!Init
      <3>3. p \in Seq(Letters \union Globs!Special) /\ s \in Seq(Texts)
        BY GlobAssumption, BoundedIsSeq
      <3>4. Ended(pattern)
        <4>1. Globs!Nul \notin Letters \union Globs!Special
          BY GlobAssumption DEF Globs!Nul, Globs!Special
        <4> QED
          BY <3>1, <3>3, <4>1, EndsWithNul
      <3>5. Ended(string) /\ \A i \in 1 .. Len(string) : string[i] \in Chars
        BY <3>2, <3>3, GlobAssumption, EndsWithNul DEF Chars
      <3> QED
        BY <3>4, <3>5 DEF Given
    <2>2. CASE which # "glob"
      <3>1. pattern = <<Globs!Nul>> /\ string = <<Globs!Nul>>
        BY <2>2 DEF AlgorithmsInit
      <3> QED
        BY <3>1 DEF Given, Ended, Chars
    <2> QED
      BY <2>1, <2>2
  <1>3. Indices(pat, str, back_pat, back_str)
    BY <1>1, <1>2 DEF Indices, Given, Ended
  <1>4. Accounted(Globs!Matches, pat, str, back_pat, back_str)
    BY <1>1 DEF Accounted
  <1> QED
    BY <1>1, <1>2, <1>3, <1>4 DEF GlobIInv

\* The inductive invariant of glob_match1.
THEOREM GlobInvariance == AlgorithmsSpec => []GlobIInv
  <1>1. AlgorithmsInit => GlobIInv
    BY GlobInit
  <1>2. GlobIInv /\ [AlgorithmsNext]_<<which, vars, globVars>> => GlobIInv'
    <2> SUFFICES ASSUME GlobIInv, [AlgorithmsNext]_<<which, vars, globVars>> PROVE GlobIInv'
      OBVIOUS
    <2>1. CASE Globs!Next
      BY <2>1, GlobStep
    <2>2. CASE UNCHANGED globVars
      <3>1. /\ pattern' = pattern /\ string' = string /\ pat' = pat /\ str' = str
            /\ back_pat' = back_pat /\ back_str' = back_str /\ result' = result
        BY <2>2 DEF globVars
      <3>2. (Globs!Matches)' = Globs!Matches
        BY <3>1 DEF Globs!Matches, Globs!ClassAt, Globs!Spans
      <3> QED
        BY <3>1, <3>2 DEF GlobIInv, Given, Ended, Chars, Indices, Accounted
    <2> QED
      BY <2>1, <2>2 DEF AlgorithmsNext
  <1> QED
    BY <1>1, <1>2, PTL DEF AlgorithmsSpec

\* What glob_match1 returns, with one level of backtracking, is whether there is
\* a match: the comment in the code that this is easily proved.
THEOREM GlobRightHolds == AlgorithmsSpec => []GlobRight
  <1>1. GlobIInv => GlobRight
    <2> SUFFICES ASSUME GlobIInv, result \in {"true", "false"}
                 PROVE  (result = "true") = Globs!Matches[1][1]
      BY DEF GlobRight, Globs!ResultRight
    <2>1. Given /\ ((result = "true") <=> Globs!Matches[1][1])
      BY DEF GlobIInv
    <2>2. Globs!Matches[1][1] \in BOOLEAN
      <3>1. 1 \in 1 .. Len(pattern) /\ 1 \in 1 .. Len(string)
        BY <2>1 DEF Given, Ended
      <3> QED
        BY <2>1, <3>1, MatchesIs
    <2> QED
      BY <2>1, <2>2
  <1> QED
    BY <1>1, GlobInvariance, PTL

=============================================================================
