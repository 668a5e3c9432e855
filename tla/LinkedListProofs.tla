-------------------------- MODULE LinkedListProofs --------------------------
(***************************************************************************)
(* Proofs about the linked lists, for every set of heads and entries: what *)
(* each function of list.c does to the nodes that are in lists, that next  *)
(* and prev stay each other's inverse on them, that the pointers implement *)
(* the sequences of ListOfEntries, and that the loops visit those.         *)
(***************************************************************************)
EXTENDS LinkedList, SequenceTheorems, FiniteSetTheorems, WellFoundedInduction, TLAPS

Mem == [next : Pointers, prev : Pointers]

USE DEF Pointers, SetNext, SetPrev, RingOn

\* A node between two neighbours is added to the ring they are in.
LEMMA AddBetweenRing ==
  ASSUME NEW m \in Mem, NEW S \in SUBSET Nodes, RingOn(m, S),
         NEW p \in S, NEW new \in Nodes \ S
  PROVE  /\ AddBetween(m, new, p, m.next[p]) \in Mem
         /\ RingOn(AddBetween(m, new, p, m.next[p]), S \cup {new})
  <1> DEFINE n == m.next[p]
             r == AddBetween(m, new, p, n)
  <1>1. n \in S /\ m.prev[n] = p /\ n # new /\ p # new
    OBVIOUS
  <1>2. /\ r.next = [[m.next EXCEPT ![new] = n] EXCEPT ![p] = new]
        /\ r.prev = [[m.prev EXCEPT ![n] = new] EXCEPT ![new] = p]
        /\ r = [next |-> r.next, prev |-> r.prev]
    BY DEF AddBetween
  <1>3. r \in Mem
    BY <1>1, <1>2 DEF Mem
  <1>4. /\ r.next[p] = new /\ r.next[new] = n
        /\ \A x \in S \ {p} : r.next[x] = m.next[x]
        /\ r.prev[n] = new /\ r.prev[new] = p
        /\ \A x \in S \ {n} : r.prev[x] = m.prev[x]
    BY <1>1, <1>2 DEF Mem
  <1>5. RingOn(r, S \cup {new})
    <2> HIDE DEF r
    <2> QED BY <1>1, <1>4
  <1> QED
    BY <1>3, <1>5

\* An entry is taken out of the ring it is in.
LEMMA ListDelRing ==
  ASSUME NEW m \in Mem, NEW S \in SUBSET Nodes, RingOn(m, S), NEW e \in S
  PROVE  /\ ListDel(m, e) \in Mem
         /\ RingOn(ListDel(m, e), S \ {e})
  <1> DEFINE n == m.next[e]
             p == m.prev[e]
             r == ListDel(m, e)
  <1>1. n \in S /\ p \in S /\ m.prev[n] = e /\ m.next[p] = e
    OBVIOUS
  <1>2. /\ r.next = [m.next EXCEPT ![p] = n]
        /\ r.prev = [m.prev EXCEPT ![n] = p]
        /\ r = [next |-> r.next, prev |-> r.prev]
    BY DEF ListDel, DelBetween
  <1>3. r \in Mem
    BY <1>1, <1>2 DEF Mem
  <1>4. /\ r.next[p] = n /\ r.prev[n] = p
        /\ \A x \in S \ {p} : r.next[x] = m.next[x]
        /\ \A x \in S \ {n} : r.prev[x] = m.prev[x]
    BY <1>1, <1>2 DEF Mem
  <1>5. RingOn(r, S \ {e})
    <2> HIDE DEF r
    <2> QED BY <1>1, <1>4
  <1> QED
    BY <1>3, <1>5

\* INIT_LIST_HEAD makes a ring of one node, and leaves the others alone.
LEMMA InitListHeadRing ==
  ASSUME NEW m \in Mem, NEW S \in SUBSET Nodes, RingOn(m, S),
         NEW x \in Nodes \ S
  PROVE  /\ InitListHead(m, x) \in Mem
         /\ RingOn(InitListHead(m, x), S)
         /\ RingOn(InitListHead(m, x), S \cup {x})
  <1> DEFINE r == InitListHead(m, x)
  <1>1. /\ r.next = [m.next EXCEPT ![x] = x]
        /\ r.prev = [m.prev EXCEPT ![x] = x]
        /\ r = [next |-> r.next, prev |-> r.prev]
    BY DEF InitListHead
  <1>2. r \in Mem
    BY <1>1 DEF Mem
  <1>3. /\ r.next[x] = x /\ r.prev[x] = x
        /\ \A y \in S : r.next[y] = m.next[y] /\ r.prev[y] = m.prev[y]
    BY <1>1 DEF Mem
  <1>4. RingOn(r, S) /\ RingOn(r, S \cup {x})
    <2> HIDE DEF r
    <2> QED BY <1>3
  <1> QED
    BY <1>2, <1>4

\* A node takes the place of another one, which may be alone in its ring.
LEMMA ListReplaceRing ==
  ASSUME NEW m \in Mem, NEW S \in SUBSET Nodes, RingOn(m, S),
         NEW old \in S, NEW new \in Nodes \ S
  PROVE  /\ ListReplace(m, old, new) \in Mem
         /\ RingOn(ListReplace(m, old, new), (S \ {old}) \cup {new})
  <1> DEFINE m1 == SetNext(m, new, m.next[old])
             m2 == SetPrev(m1, m1.next[new], new)
             m3 == SetPrev(m2, new, m2.prev[old])
             r  == SetNext(m3, m3.prev[new], new)
             n == m.next[old]
             p == m.prev[old]
  <1>1. n \in S /\ p \in S /\ m.prev[n] = old /\ m.next[p] = old
    OBVIOUS
  <1>2. CASE n = old
    <2>1. p = old
      BY <1>1, <1>2
    <2>2. m1 \in Mem /\ m1.next[new] = old /\ m1.prev = m.prev
          /\ \A x \in S : m1.next[x] = m.next[x]
      BY <1>1, <1>2 DEF Mem
    <2>3. m2 \in Mem /\ m2.next = m1.next /\ m2.prev[old] = new
          /\ \A x \in S \ {old} : m2.prev[x] = m.prev[x]
      BY <2>2 DEF Mem
    <2>4. m3 \in Mem /\ m3.next = m1.next /\ m3.prev[new] = new
          /\ \A x \in S \ {old} : m3.prev[x] = m.prev[x]
      BY <2>3 DEF Mem
    <2>5. r \in Mem /\ r.prev = m3.prev /\ r.next[new] = new
          /\ \A x \in S : r.next[x] = m.next[x]
      BY <2>2, <2>4 DEF Mem
    <2>6. RingOn(r, (S \ {old}) \cup {new})
      <3> HIDE DEF r, m1, m2, m3
      <3> QED BY <1>1, <1>2, <2>1, <2>4, <2>5
    <2> QED
      BY <2>5, <2>6 DEF ListReplace
  <1>3. CASE n # old
    <2>1. p # old
      BY <1>1, <1>3
    <2>2. m1 \in Mem /\ m1.next[new] = n /\ m1.prev = m.prev
          /\ \A x \in S : m1.next[x] = m.next[x]
      BY <1>1 DEF Mem
    <2>3. m2 \in Mem /\ m2.next = m1.next /\ m2.prev[n] = new
          /\ \A x \in S \ {n} : m2.prev[x] = m.prev[x]
      BY <1>1, <2>2 DEF Mem
    <2>4. m3 \in Mem /\ m3.next = m1.next /\ m3.prev[new] = p /\ m3.prev[n] = new
          /\ \A x \in S \ {n} : m3.prev[x] = m.prev[x]
      BY <1>1, <1>3, <2>3 DEF Mem
    <2>5. r \in Mem /\ r.prev = m3.prev /\ r.next[p] = new /\ r.next[new] = n
          /\ \A x \in S \ {p} : r.next[x] = m.next[x]
      BY <1>1, <2>2, <2>4 DEF Mem
    <2>6. RingOn(r, (S \ {old}) \cup {new})
      <3> HIDE DEF r, m1, m2, m3
      <3> QED BY <1>1, <1>3, <2>1, <2>4, <2>5
    <2> QED
      BY <2>5, <2>6 DEF ListReplace
  <1> QED
    BY <1>2, <1>3

\* An entry changes places: it is deleted, then added after p.
LEMMA MoveRing ==
  ASSUME NEW m \in Mem, NEW S \in SUBSET Nodes, RingOn(m, S),
         NEW e \in S, NEW h \in S, e # h
  PROVE  /\ ListMove(m, e, h) \in Mem /\ RingOn(ListMove(m, e, h), S)
         /\ ListMoveTail(m, e, h) \in Mem /\ RingOn(ListMoveTail(m, e, h), S)
  <1> DEFINE d == ListDel(m, e)
             T == S \ {e}
  <1>1. d \in Mem /\ RingOn(d, T)
    BY ListDelRing
  <1>2. T \in SUBSET Nodes /\ h \in T /\ e \in Nodes \ T /\ T \cup {e} = S
    OBVIOUS
  <1>3. d.prev[h] \in T /\ d.next[d.prev[h]] = h
    <2> HIDE DEF d, T
    <2> QED BY <1>1, <1>2
  <1> HIDE DEF d, T
  <1>4. ListAdd(d, e, h) \in Mem /\ RingOn(ListAdd(d, e, h), S)
    <2> HIDE DEF RingOn
    <2> QED BY <1>1, <1>2, AddBetweenRing DEF ListAdd
  <1>5. /\ AddBetween(d, e, d.prev[h], d.next[d.prev[h]]) \in Mem
        /\ RingOn(AddBetween(d, e, d.prev[h], d.next[d.prev[h]]), T \cup {e})
    <2> HIDE DEF RingOn
    <2> QED BY <1>1, <1>2, <1>3, AddBetweenRing
  <1>6. ListAddTail(d, e, h) \in Mem /\ RingOn(ListAddTail(d, e, h), S)
    BY <1>2, <1>3, <1>5 DEF ListAddTail
  <1> QED
    BY <1>4, <1>6 DEF ListMove, ListMoveTail, d

\* Every head starts with an empty ring.
LEMMA InitIInv == Init => IInv
  BY NodesAssumption DEF Init, Empty, IInv, TypeOK, Ring, InRing, Nodes

-----------------------------------------------------------------------------
(* Every step keeps the rings.                                             *)

\* Every operation of the list keeps the invariant.
LEMMA NextIInv == IInv /\ [Next]_vars => IInv'
  <1> SUFFICES ASSUME IInv, [Next]_vars PROVE IInv'
    OBVIOUS
  <1> USE DEF IInv, TypeOK, Ring
  <1>0. /\ mem \in Mem /\ InRing \in SUBSET Nodes /\ RingOn(mem, InRing)
        /\ Heads \cap Entries = {} /\ Heads \subseteq InRing
        /\ linked = InRing \cap Entries /\ linked \subseteq Entries
    BY NodesAssumption DEF Mem, InRing, Nodes
  <1>S. ASSUME mem' \in Mem, linked' \in SUBSET Entries, RingOn(mem', InRing')
        PROVE  IInv'
    <2>1. InRing' \subseteq Nodes /\ Poison \notin Nodes
      BY <1>S, NodesAssumption DEF InRing, Nodes
    <2>2. \A x \in InRing' : mem'.next[x] # Poison /\ mem'.prev[x] # Poison
      BY <1>S, <2>1
    <2> QED
      BY <1>S, <2>2 DEF Mem
  <1>1. ASSUME NEW e \in Entries, NEW h \in Heads, Add(e, h)
        PROVE  IInv'
    <2>1. InRing' = InRing \cup {e} /\ e \in Nodes \ InRing /\ h \in InRing
      BY <1>0, <1>1 DEF Add, InRing, Nodes
    <2>2. mem' \in Mem /\ RingOn(mem', InRing')
      <3> HIDE DEF RingOn
      <3> QED BY <1>0, <1>1, <2>1, AddBetweenRing DEF Add, ListAdd
    <2> QED
      BY <1>0, <1>1, <1>S, <2>2 DEF Add
  <1>2. ASSUME NEW e \in Entries, NEW h \in Heads, AddTail(e, h)
        PROVE  IInv'
    <2> DEFINE p == mem.prev[h]
    <2>1. InRing' = InRing \cup {e} /\ e \in Nodes \ InRing /\ h \in InRing
      BY <1>0, <1>2 DEF AddTail, InRing, Nodes
    <2>2. p \in InRing /\ mem.next[p] = h
      BY <1>0, <2>1
    <2>3. mem' = AddBetween(mem, e, p, mem.next[p])
      BY <1>2, <2>2 DEF AddTail, ListAddTail
    <2>4. mem' \in Mem /\ RingOn(mem', InRing')
      <3> HIDE DEF p, RingOn
      <3> QED BY <1>0, <2>1, <2>2, <2>3, AddBetweenRing
    <2> QED
      BY <1>0, <1>2, <1>S, <2>4 DEF AddTail
  <1>3. ASSUME NEW e \in Entries, mem' = ListDel(mem, e), e \in linked,
               linked' = linked \ {e}
        PROVE  IInv'
    <2>1. InRing' = InRing \ {e} /\ e \in InRing
      BY <1>0, <1>3 DEF InRing
    <2>2. mem' \in Mem /\ RingOn(mem', InRing')
      <3> HIDE DEF RingOn
      <3> QED BY <1>0, <1>3, <2>1, ListDelRing
    <2> QED
      BY <1>0, <1>3, <1>S, <2>2
  <1>4. ASSUME NEW e \in Entries, mem' = ListDelInit(mem, e), e \in linked,
               linked' = linked \ {e}
        PROVE  IInv'
    <2> DEFINE d == ListDel(mem, e)
               T == InRing \ {e}
    <2>1. InRing' = T /\ e \in InRing /\ T \in SUBSET Nodes /\ e \in Nodes \ T
      BY <1>0, <1>4 DEF InRing, Nodes
    <2>2. d \in Mem /\ RingOn(d, T)
      <3> HIDE DEF RingOn
      <3> QED BY <1>0, <2>1, ListDelRing
    <2>3. mem' = InitListHead(d, e)
      BY <1>4 DEF ListDelInit
    <2>4. mem' \in Mem /\ RingOn(mem', InRing')
      <3> HIDE DEF d, T, RingOn
      <3> QED BY <2>1, <2>2, <2>3, InitListHeadRing
    <2> QED
      BY <1>0, <1>4, <1>S, <2>4
  <1>5. ASSUME NEW e \in Entries, NEW h \in Heads, e \in linked,
               \/ mem' = ListMove(mem, e, h)
               \/ mem' = ListMoveTail(mem, e, h),
               linked' = linked
        PROVE  IInv'
    <2>1. InRing' = InRing /\ e \in InRing /\ h \in InRing /\ e # h
      BY <1>0, <1>5 DEF InRing
    <2>2. mem' \in Mem /\ RingOn(mem', InRing')
      <3> HIDE DEF RingOn
      <3> QED BY <1>0, <1>5, <2>1, MoveRing
    <2> QED
      BY <1>0, <1>5, <1>S, <2>2
  <1>6. ASSUME NEW e \in Entries, NEW x \in Entries, Replace(e, x)
        PROVE  IInv'
    <2>1. InRing' = (InRing \ {e}) \cup {x} /\ e \in InRing /\ x \in Nodes \ InRing
      BY <1>0, <1>6 DEF Replace, InRing, Nodes
    <2>2. mem' \in Mem /\ RingOn(mem', InRing')
      <3> HIDE DEF RingOn
      <3> QED BY <1>0, <1>6, <2>1, ListReplaceRing DEF Replace
    <2> QED
      BY <1>0, <1>6, <1>S, <2>2 DEF Replace
  <1>7. ASSUME NEW e \in Entries, NEW x \in Entries, ReplaceInit(e, x)
        PROVE  IInv'
    <2> DEFINE d == ListReplace(mem, e, x)
               T == (InRing \ {e}) \cup {x}
    <2>1. /\ InRing' = T /\ e \in InRing /\ x \in Nodes \ InRing
          /\ T \in SUBSET Nodes /\ e \in Nodes \ T
      BY <1>0, <1>7 DEF ReplaceInit, InRing, Nodes
    <2>2. d \in Mem /\ RingOn(d, T)
      <3> HIDE DEF RingOn
      <3> QED BY <1>0, <2>1, ListReplaceRing
    <2>3. mem' = InitListHead(d, e)
      BY <1>7 DEF ReplaceInit, ListReplaceInit
    <2>4. mem' \in Mem /\ RingOn(mem', InRing')
      <3> HIDE DEF d, T, RingOn
      <3> QED BY <2>1, <2>2, <2>3, InitListHeadRing
    <2> QED
      BY <1>0, <1>7, <1>S, <2>4 DEF ReplaceInit
  <1>8. ASSUME NEW g \in Heads, NEW h \in Heads, ReplaceHead(g, h)
        PROVE  IInv'
    <2> DEFINE R == InRing \ {h}
               d == ListReplace(mem, g, h)
               T == (R \ {g}) \cup {h}
    <2>1. g # h /\ mem.next[h] = h /\ mem' = InitListHead(d, g) /\ InRing' = InRing
      BY <1>8 DEF ReplaceHead, ListEmpty, ListReplaceInit, InRing
    <2>2. mem.prev[h] = h /\ RingOn(mem, R)
      BY <1>0, <2>1
    <2>3. /\ R \in SUBSET Nodes /\ g \in R /\ h \in Nodes \ R
          /\ T \in SUBSET Nodes /\ g \in Nodes \ T /\ T \cup {g} = InRing
      BY <1>0, <2>1
    <2>4. d \in Mem /\ RingOn(d, T)
      <3> HIDE DEF R, RingOn
      <3> QED BY <1>0, <2>2, <2>3, ListReplaceRing
    <2>5. mem' \in Mem /\ RingOn(mem', InRing')
      <3> HIDE DEF d, T, RingOn
      <3> QED BY <2>1, <2>3, <2>4, InitListHeadRing
    <2> QED
      BY <1>0, <1>8, <1>S, <2>5 DEF ReplaceHead
  <1>9. ASSUME UNCHANGED <<mem, linked>>
        PROVE  IInv'
    BY <1>9 DEF InRing
  <1>10. CASE Iterate
    <2>1. PICK e \in Nodes \cup {iter.pos} : e = iter.pos /\ Body(e)
      BY <1>10 DEF Iterate
    <2>2. CASE UNCHANGED <<mem, linked>>
      BY <1>9, <2>2
    <2>3. CASE ~ UNCHANGED <<mem, linked>>
      <3>1. e \in linked /\ e \in Entries
        BY <1>0, <2>1, <2>3 DEF Body
      <3> QED
        BY <1>3, <1>4, <1>5, <2>1, <2>3, <3>1 DEF Body
    <2> QED
      BY <2>2, <2>3
  <1>11. CASE Operation
    <2>1. PICK e \in Entries, h \in Heads :
            \/ Add(e, h) \/ AddTail(e, h) \/ Del(e) \/ DelInit(e)
            \/ Move(e, h) \/ MoveTail(e, h)
            \/ \E x \in Entries : Replace(e, x) \/ ReplaceInit(e, x)
            \/ \E g \in Heads : ReplaceHead(g, h)
      BY <1>11 DEF Operation
    <2>2. Del(e) => IInv'
      BY <1>3 DEF Del
    <2>3. DelInit(e) => IInv'
      BY <1>4 DEF DelInit
    <2>4. Move(e, h) \/ MoveTail(e, h) => IInv'
      BY <1>5 DEF Move, MoveTail
    <2> QED
      BY <1>1, <1>2, <1>6, <1>7, <1>8, <2>1, <2>2, <2>3, <2>4
  <1>12. CASE End \/ \E macro \in Macros, h \in Heads : Begin(macro, h)
    BY <1>9, <1>12 DEF End, Begin
  <1>13. CASE UNCHANGED vars
    BY <1>9, <1>13 DEF vars
  <1> QED
    BY <1>10, <1>11, <1>12, <1>13 DEF Next, Loop

-----------------------------------------------------------------------------
\* The invariant holds in every reachable state.
THEOREM Invariance == Spec => []IInv
  <1>1. Init => IInv
    BY InitIInv
  <1>2. IInv /\ [Next]_vars => IInv'
    BY NextIInv
  <1> QED
    BY <1>1, <1>2, PTL DEF Spec

\* The pointers are pointers and the lists hold entries: list.c never stores
\* anything else, whatever the order of the calls.
THEOREM TypeCorrect == Spec => []TypeOK
  <1>1. IInv => TypeOK
    BY DEF IInv
  <1> QED
    BY <1>1, Invariance, PTL

\* next and prev are each other's inverse on the heads and the listed entries,
\* in every state any sequence of calls and loops of list.c leads to.
THEOREM RingHolds == Spec => []Ring
  <1>1. IInv => Ring
    BY DEF IInv
  <1> QED
    BY <1>1, Invariance, PTL

HIDE DEF Pointers, SetNext, SetPrev, RingOn

-----------------------------------------------------------------------------
(* Sequences of entries *)
\* x after the first k elements; without the k-th element; x instead of it.
Inserted(s, k, x) ==
  [j \in 1 .. Len(s) + 1 |-> IF j <= k THEN s[j] ELSE IF j = k + 1 THEN x ELSE s[j - 1]]
Removed(s, k) == [j \in 1 .. Len(s) - 1 |-> IF j < k THEN s[j] ELSE s[j + 1]]
Replaced(s, k, x) == [j \in 1 .. Len(s) |-> IF j = k THEN x ELSE s[j]]

\* The nodes of a list: its head, the entries, and the head again.
Node(h, s, k) == IF k \in 1 .. Len(s) THEN s[k] ELSE h

\* These are sequences of entries again.
LEMMA InsertedType ==
  ASSUME NEW s \in Seq(Entries), NEW k \in 0 .. Len(s), NEW x \in Entries
  PROVE  Inserted(s, k, x) \in Seq(Entries) /\ Len(Inserted(s, k, x)) = Len(s) + 1
  <1>1. Len(s) \in Nat /\ \A j \in 1 .. Len(s) : s[j] \in Entries
    OBVIOUS
  <1>2. Inserted(s, k, x) \in [1 .. Len(s) + 1 -> Entries]
    BY <1>1 DEF Inserted
  <1> QED
    BY <1>1, <1>2

\* Likewise, of one entry less.
LEMMA RemovedType ==
  ASSUME NEW s \in Seq(Entries), NEW k \in 1 .. Len(s)
  PROVE  Removed(s, k) \in Seq(Entries) /\ Len(Removed(s, k)) = Len(s) - 1
  <1>1. Len(s) \in Nat /\ \A j \in 1 .. Len(s) : s[j] \in Entries
    OBVIOUS
  <1>2. Removed(s, k) \in [1 .. Len(s) - 1 -> Entries]
    BY <1>1 DEF Removed
  <1> QED
    BY <1>1, <1>2

\* Likewise, of as many entries.
LEMMA ReplacedType ==
  ASSUME NEW s \in Seq(Entries), NEW k \in 1 .. Len(s), NEW x \in Entries
  PROVE  Replaced(s, k, x) \in Seq(Entries) /\ Len(Replaced(s, k, x)) = Len(s)
  <1>1. Len(s) \in Nat /\ \A j \in 1 .. Len(s) : s[j] \in Entries
    OBVIOUS
  <1>2. Replaced(s, k, x) \in [1 .. Len(s) -> Entries]
    BY <1>1 DEF Replaced
  <1> QED
    BY <1>1, <1>2

-----------------------------------------------------------------------------
(* The lists that are in a memory                                          *)

\* The pointers of m lead from h through the entries of s and back to h.
Chain(m, h, s) == \A k \in 0 .. Len(s) : m.next[Node(h, s, k)] = Node(h, s, k + 1)

\* No entry is twice in lists.
Disjoint(c) == \A g, h \in Heads : \A i \in 1 .. Len(c[g]), j \in 1 .. Len(c[h]) :
                 c[g][i] = c[h][j] => g = h /\ i = j

\* c are the lists that are in m, and the entries in them are S.
Lists(m, S, c) ==
  /\ c \in [Heads -> Seq(Entries)]
  /\ \A h \in Heads : Chain(m, h, c[h])
  /\ Disjoint(c)
  /\ S = UNION {{c[h][k] : k \in 1 .. Len(c[h])} : h \in Heads}

\* The lists hold the entries in them, and nothing but entries.
LEMMA ListsEntries ==
  ASSUME NEW m, NEW S, NEW c, Lists(m, S, c)
  PROVE  /\ S \subseteq Entries
         /\ \A h \in Heads : c[h] \in Seq(Entries) /\ Len(c[h]) \in Nat
         /\ \A h \in Heads : \A k \in 1 .. Len(c[h]) : c[h][k] \in S
         /\ \A x \in S : \E h \in Heads : \E k \in 1 .. Len(c[h]) : c[h][k] = x
  <1>1. \A h \in Heads : c[h] \in Seq(Entries) /\ Len(c[h]) \in Nat
    BY DEF Lists
  <1>2. \A h \in Heads : \A k \in 1 .. Len(c[h]) : c[h][k] \in Entries
    BY <1>1
  <1>3. S = UNION {{c[h][k] : k \in 1 .. Len(c[h])} : h \in Heads}
    BY DEF Lists
  <1>4. ASSUME NEW h \in Heads, NEW k \in 1 .. Len(c[h]) PROVE c[h][k] \in S
    BY <1>3
  <1>5. \A x \in S : \E h \in Heads : \E k \in 1 .. Len(c[h]) : c[h][k] = x
    BY Zenon, <1>3
  <1> QED
    BY <1>1, <1>2, <1>4, <1>5

\* A node is at one place.
LEMMA NodesDistinct ==
  ASSUME NEW m, NEW S, NEW c, Lists(m, S, c), NEW g \in Heads, NEW h \in Heads,
         NEW i \in 0 .. Len(c[g]), NEW j \in 0 .. Len(c[h]),
         Node(g, c[g], i) = Node(h, c[h], j)
  PROVE  g = h /\ i = j
  <1>1. /\ \A x \in Heads : x \notin Entries
        /\ \A x \in Heads : Len(c[x]) \in Nat
        /\ \A x \in Heads : \A k \in 1 .. Len(c[x]) : c[x][k] \in Entries
    BY ListsEntries, NodesAssumption
  <1>2. Disjoint(c)
    BY DEF Lists
  <1>3. CASE i \in 1 .. Len(c[g]) /\ j \in 1 .. Len(c[h])
    BY <1>2, <1>3 DEF Disjoint, Node
  <1>4. CASE i = 0
    BY <1>1, <1>4 DEF Node
  <1>5. CASE j = 0
    BY <1>1, <1>5 DEF Node
  <1> QED
    BY <1>1, <1>3, <1>4, <1>5

\* The nodes of the lists are the heads and the entries in them.
LEMMA NodesOfLists ==
  ASSUME NEW m, NEW S, NEW c, Lists(m, S, c), NEW h \in Heads
  PROVE  \A k \in 0 .. Len(c[h]) + 1 : Node(h, c[h], k) \in Heads \cup S
  BY ListsEntries DEF Node

\* Lists are the same in a memory in which these nodes are.
LEMMA Unchanged ==
  ASSUME NEW m, NEW S, NEW c, Lists(m, S, c), NEW r,
         \A x \in Heads \cup S : r.next[x] = m.next[x]
  PROVE  Lists(r, S, c)
  <1>1. ASSUME NEW h \in Heads PROVE Chain(r, h, c[h])
    <2>1. Len(c[h]) \in Nat /\ Chain(m, h, c[h])
      BY ListsEntries DEF Lists
    <2>2. \A k \in 0 .. Len(c[h]) : Node(h, c[h], k) \in Heads \cup S
      BY <2>1, NodesOfLists
    <2> QED
      BY <2>1, <2>2 DEF Chain
  <1> QED
    BY <1>1 DEF Lists

-----------------------------------------------------------------------------
(* What the functions of list.c do to the lists                            *)

\* __list_add puts an entry behind the k-th node.
LEMMA AddBetweenLists ==
  ASSUME NEW m \in Mem, NEW S, NEW c, Lists(m, S, c), NEW h \in Heads,
         NEW k \in 0 .. Len(c[h]), NEW x \in Entries, x \notin S,
         NEW p, p = Node(h, c[h], k)
  PROVE  Lists(AddBetween(m, x, p, m.next[p]), S \cup {x},
               [c EXCEPT ![h] = Inserted(c[h], k, x)])
  <1> DEFINE r == AddBetween(m, x, p, m.next[p])
             s == Inserted(c[h], k, x)
             d == [c EXCEPT ![h] = s]
  <1>1. /\ \A g \in Heads : c[g] \in Seq(Entries) /\ Len(c[g]) \in Nat
        /\ \A g \in Heads : \A i \in 1 .. Len(c[g]) : c[g][i] \in S
        /\ \A y \in S : \E g \in Heads : \E i \in 1 .. Len(c[g]) : c[g][i] = y
        /\ c \in [Heads -> Seq(Entries)] /\ S \subseteq Entries
    BY ListsEntries DEF Lists
  <1>2. \A g \in Heads : \A i \in 0 .. Len(c[g]) + 1 : Node(g, c[g], i) \in Heads \cup S
    BY NodesOfLists
  <1>3. p \in Heads \cup S /\ x \notin Heads \cup S /\ x \in Nodes
    BY <1>1, <1>2, NodesAssumption DEF Nodes
  <1>4. m.next \in [Nodes -> Nodes \cup {Poison}] /\ Heads \cup S \subseteq Nodes
    BY <1>1 DEF Mem, Pointers, Nodes
  <1>5. /\ r.next[p] = x /\ r.next[x] = m.next[p]
        /\ \A y \in (Heads \cup S) \ {p} : r.next[y] = m.next[y]
    <2>1. r.next = [[m.next EXCEPT ![x] = m.next[p]] EXCEPT ![p] = x]
      BY DEF AddBetween, SetNext, SetPrev
    <2> HIDE DEF r
    <2> QED BY <1>3, <1>4, <2>1
  <1>6. /\ s \in Seq(Entries) /\ Len(s) = Len(c[h]) + 1
        /\ \A j \in 0 .. Len(c[h]) + 2 :
             Node(h, s, j) = IF j <= k THEN Node(h, c[h], j)
                             ELSE IF j = k + 1 THEN x ELSE Node(h, c[h], j - 1)
        /\ \A j \in 1 .. Len(c[h]) + 1 :
             s[j] = IF j <= k THEN c[h][j] ELSE IF j = k + 1 THEN x ELSE c[h][j - 1]
    <2>1. c[h] \in Seq(Entries)
      BY <1>1
    <2>2. s \in Seq(Entries) /\ Len(s) = Len(c[h]) + 1
      BY <2>1, InsertedType
    <2>3. \A j \in 1 .. Len(c[h]) + 1 :
            s[j] = IF j <= k THEN c[h][j] ELSE IF j = k + 1 THEN x ELSE c[h][j - 1]
      BY DEF Inserted
    <2> HIDE DEF s
    <2>4. \A j \in 0 .. Len(c[h]) + 2 :
            Node(h, s, j) = IF j <= k THEN Node(h, c[h], j)
                            ELSE IF j = k + 1 THEN x ELSE Node(h, c[h], j - 1)
      <3>1. SUFFICES ASSUME NEW j \in 0 .. Len(c[h]) + 2
                     PROVE  /\ j <= k => Node(h, s, j) = Node(h, c[h], j)
                            /\ j = k + 1 => Node(h, s, j) = x
                            /\ j > k + 1 => Node(h, s, j) = Node(h, c[h], j - 1)
        BY <1>1
      <3>2. j <= k => Node(h, s, j) = Node(h, c[h], j)
        BY <1>1, <2>2, <2>3 DEF Node
      <3>3. j = k + 1 => Node(h, s, j) = x
        BY <1>1, <2>2, <2>3 DEF Node
      <3>4. j > k + 1 => Node(h, s, j) = Node(h, c[h], j - 1)
        BY <1>1, <2>2, <2>3 DEF Node
      <3> QED
        BY <3>2, <3>3, <3>4
    <2> QED
      BY <2>2, <2>3, <2>4
  <1> HIDE DEF r, s
  <1>7. /\ d \in [Heads -> Seq(Entries)] /\ d[h] = s
        /\ \A g \in Heads \ {h} : d[g] = c[g]
    BY <1>1, <1>6
  <1> HIDE DEF d
  <1>8. ASSUME NEW g \in Heads PROVE Chain(r, g, d[g])
    <2>1. Chain(m, g, c[g])
      BY DEF Lists
    <2>2. ASSUME NEW i \in 0 .. Len(c[g]), Node(g, c[g], i) = p PROVE g = h /\ i = k
      BY <2>2, NodesDistinct
    <2>3. CASE g # h
      <3>1. \A i \in 0 .. Len(c[g]) : Node(g, c[g], i) \in (Heads \cup S) \ {p}
        BY <1>1, <1>2, <2>2, <2>3
      <3> QED
        BY <1>5, <1>7, <2>1, <2>3, <3>1 DEF Chain
    <2>4. CASE g = h
      <3>1. SUFFICES ASSUME NEW j \in 0 .. Len(c[h]) + 1
                     PROVE  r.next[Node(h, s, j)] = Node(h, s, j + 1)
        BY <1>6, <1>7, <2>4 DEF Chain
      <3>2. CASE j = k + 1
        <4>1. Node(h, s, j) = x /\ Node(h, s, j + 1) = Node(h, c[h], k + 1)
          BY <1>1, <1>6, <3>2
        <4> QED
          BY <1>5, <2>1, <2>4, <4>1 DEF Chain
      <3>3. CASE j = k
        <4>1. Node(h, s, j) = p /\ Node(h, s, j + 1) = x
          BY <1>1, <1>6, <3>3
        <4> QED
          BY <1>5, <4>1
      <3>4. CASE j # k /\ j # k + 1
        <4>1. PICK i \in 0 .. Len(c[h]) : i = IF j < k THEN j ELSE j - 1
          BY <1>1, <3>4
        <4>2. i # k /\ Node(h, s, j) = Node(h, c[h], i) /\ Node(h, s, j + 1) = Node(h, c[h], i + 1)
          BY <1>1, <1>6, <3>4, <4>1
        <4>3. Node(h, c[h], i) \in (Heads \cup S) \ {p}
          BY <1>1, <1>2, <2>2, <2>4, <4>2
        <4> QED
          BY <1>5, <2>1, <2>4, <4>2, <4>3 DEF Chain
      <3> QED
        BY <3>2, <3>3, <3>4
    <2> QED
      BY <2>3, <2>4
  <1>9. ASSUME NEW g \in Heads, NEW i \in 1 .. Len(d[g])
        PROVE  \/ g = h /\ i = k + 1 /\ d[g][i] = x
               \/ \E j \in 1 .. Len(c[g]) : /\ d[g][i] = c[g][j] /\ d[g][i] \in S
                                            /\ i = IF g = h /\ j > k THEN j + 1 ELSE j
    <2>1. CASE g # h
      <3>1. i \in 1 .. Len(c[g]) /\ d[g][i] = c[g][i] /\ c[g][i] \in S
        BY <1>1, <1>7, <2>1
      <3> QED
        BY <1>3, <2>1, <3>1
    <2>2. CASE g = h /\ i <= k
      <3>1. i \in 1 .. Len(c[g]) /\ d[g][i] = c[g][i] /\ c[g][i] \in S
        BY <1>1, <1>6, <1>7, <2>2
      <3> QED
        BY <1>3, <2>2, <3>1
    <2>3. CASE g = h /\ i = k + 1
      BY <1>1, <1>6, <1>7, <2>3
    <2>4. CASE g = h /\ i > k + 1
      <3> DEFINE j == i - 1
      <3>1. j \in 1 .. Len(c[g]) /\ j > k /\ d[g][i] = c[g][j] /\ i = j + 1
        BY <1>1, <1>6, <1>7, <2>4
      <3>2. c[g][j] \in S
        BY <1>1, <3>1
      <3> HIDE DEF j
      <3> QED
        BY <1>3, <2>4, <3>1, <3>2
    <2> QED
      BY <1>1, <1>6, <1>7, <2>1, <2>2, <2>3, <2>4
  <1>10. Disjoint(d)
    <2>1. SUFFICES ASSUME NEW f \in Heads, NEW g \in Heads,
                          NEW i \in 1 .. Len(d[f]), NEW j \in 1 .. Len(d[g]), d[f][i] = d[g][j]
                   PROVE  f = g /\ i = j
      BY DEF Disjoint
    <2>2. Disjoint(c)
      BY DEF Lists
    <2>3. CASE d[f][i] = x
      <3>1. f = h /\ i = k + 1
        BY <1>3, <1>9, <2>3
      <3>2. g = h /\ j = k + 1
        BY <1>3, <1>9, <2>1, <2>3
      <3> QED
        BY <3>1, <3>2
    <2>4. CASE d[f][i] # x
      <3>1. PICK i1 \in 1 .. Len(c[f]) : /\ d[f][i] = c[f][i1]
                                         /\ i = IF f = h /\ i1 > k THEN i1 + 1 ELSE i1
        BY <1>3, <1>9, <2>4
      <3>2. PICK j1 \in 1 .. Len(c[g]) : /\ d[g][j] = c[g][j1]
                                         /\ j = IF g = h /\ j1 > k THEN j1 + 1 ELSE j1
        BY <1>3, <1>9, <2>1, <2>4
      <3>3. c[f][i1] = c[g][j1]
        BY <2>1, <3>1, <3>2
      <3>4. f = g /\ i1 = j1
        BY <2>2, <3>3 DEF Disjoint
      <3> QED
        BY <3>1, <3>2, <3>4
    <2> QED
      BY <2>3, <2>4
  <1>11. S \cup {x} = UNION {{d[g][i] : i \in 1 .. Len(d[g])} : g \in Heads}
    <2>1. ASSUME NEW g \in Heads, NEW i \in 1 .. Len(d[g]) PROVE d[g][i] \in S \cup {x}
      BY <1>9
    <2>2. ASSUME NEW y \in S \cup {x}
          PROVE  \E g \in Heads : \E i \in 1 .. Len(d[g]) : d[g][i] = y
      <3>1. CASE y = x
        <4>1. k + 1 \in 1 .. Len(d[h]) /\ d[h][k + 1] = x
          BY <1>1, <1>6, <1>7
        <4> QED
          BY <3>1, <4>1
      <3>2. CASE y \in S
        <4>1. PICK g \in Heads : \E i \in 1 .. Len(c[g]) : c[g][i] = y
          BY <1>1, <3>2
        <4>2. PICK i \in 1 .. Len(c[g]) : c[g][i] = y
          BY <4>1
        <4>3. PICK j : j = IF g = h /\ i > k THEN i + 1 ELSE i
          OBVIOUS
        <4>4. j \in 1 .. Len(d[g]) /\ d[g][j] = y
          BY <1>1, <1>6, <1>7, <4>2, <4>3
        <4> QED
          BY <4>4
      <3> QED
        BY <3>1, <3>2
    <2> QED
      BY <2>1, <2>2
  <1> QED
    BY <1>7, <1>8, <1>10, <1>11 DEF Lists, r, s, d

\* Where list_replace leads: through the new node instead of the old one.
LEMMA ListReplaceNext ==
  ASSUME NEW m \in Mem, NEW S \in SUBSET Nodes, RingOn(m, S),
         NEW old \in S, NEW new \in Nodes \ S
  PROVE  LET r == ListReplace(m, old, new)
         IN  /\ r.next[new] = IF m.next[old] = old THEN new ELSE m.next[old]
             /\ m.prev[old] # old => r.next[m.prev[old]] = new
             /\ \A y \in S \ {m.prev[old]} : r.next[y] = m.next[y]
  <1> DEFINE m1 == SetNext(m, new, m.next[old])
             m2 == SetPrev(m1, m1.next[new], new)
             m3 == SetPrev(m2, new, m2.prev[old])
             r  == SetNext(m3, m3.prev[new], new)
             n == m.next[old]
             p == m.prev[old]
  <1>1. n \in S /\ p \in S /\ m.prev[n] = old /\ m.next[p] = old /\ (n = old <=> p = old)
    BY DEF RingOn
  <1>2. /\ m.next \in [Nodes -> Nodes \cup {Poison}] /\ m.prev \in [Nodes -> Nodes \cup {Poison}]
    BY DEF Mem, Pointers
  <1>3. /\ m1.next = [m.next EXCEPT ![new] = n] /\ m1.prev = m.prev /\ m1.next[new] = n
    BY <1>2 DEF SetNext
  <1>4. m2.next = m1.next /\ m2.prev = [m.prev EXCEPT ![n] = new]
    BY <1>3 DEF SetPrev
  <1>5. m2.prev[old] = IF n = old THEN new ELSE p
    BY <1>1, <1>2, <1>4
  <1>6. m3.next = m1.next /\ m3.prev[new] = m2.prev[old]
    BY <1>2, <1>4 DEF SetPrev
  <1>7. r.next = [m1.next EXCEPT ![m3.prev[new]] = new]
    BY <1>6 DEF SetNext
  <1>8. ListReplace(m, old, new) = r
    BY DEF ListReplace
  <1> HIDE DEF m1, m2, m3, r, n, p
  <1> QED
    BY <1>1, <1>2, <1>3, <1>5, <1>6, <1>7, <1>8 DEF n, p

\* __list_del takes out the k-th entry.
LEMMA ListDelLists ==
  ASSUME NEW m \in Mem, NEW S, NEW c, Lists(m, S, c), RingOn(m, Heads \cup S),
         NEW h \in Heads, NEW k \in 1 .. Len(c[h]), NEW e, e = c[h][k]
  PROVE  Lists(ListDel(m, e), S \ {e}, [c EXCEPT ![h] = Removed(c[h], k)])
  <1> DEFINE r == ListDel(m, e)
             s == Removed(c[h], k)
             d == [c EXCEPT ![h] = s]
  <1>1. /\ \A g \in Heads : c[g] \in Seq(Entries) /\ Len(c[g]) \in Nat
        /\ \A g \in Heads : \A i \in 1 .. Len(c[g]) : c[g][i] \in S
        /\ \A y \in S : \E g \in Heads : \E i \in 1 .. Len(c[g]) : c[g][i] = y
        /\ c \in [Heads -> Seq(Entries)] /\ S \subseteq Entries
    BY ListsEntries DEF Lists
  <1>2. \A g \in Heads : \A i \in 0 .. Len(c[g]) + 1 : Node(g, c[g], i) \in Heads \cup S
    BY NodesOfLists
  <1>3. /\ m.next \in [Nodes -> Nodes \cup {Poison}] /\ Heads \cup S \subseteq Nodes
        /\ e \in S
    BY <1>1 DEF Mem, Pointers, Nodes
  <1> DEFINE p == Node(h, c[h], k - 1)
             n == Node(h, c[h], k + 1)
  <1>4. m.prev[e] = p /\ m.next[e] = n /\ p \in Heads \cup S
    <2>1. k - 1 \in 0 .. Len(c[h]) /\ k \in 0 .. Len(c[h]) /\ (k - 1) + 1 = k
      BY <1>1
    <2>2. m.next[p] = Node(h, c[h], k) /\ m.next[Node(h, c[h], k)] = n
      BY <2>1 DEF Lists, Chain
    <2>3. Node(h, c[h], k) = e /\ p \in Heads \cup S
      BY <1>1, <1>2, <2>1 DEF Node
    <2> QED
      BY <2>2, <2>3 DEF RingOn
  <1>5. r.next[p] = n /\ \A y \in (Heads \cup S) \ {p} : r.next[y] = m.next[y]
    <2>1. r.next = [m.next EXCEPT ![p] = n]
      BY <1>4 DEF ListDel, DelBetween, SetNext, SetPrev
    <2> HIDE DEF r, p, n
    <2> QED BY <1>3, <1>4, <2>1
  <1>6. /\ s \in Seq(Entries) /\ Len(s) = Len(c[h]) - 1
        /\ \A j \in 0 .. Len(c[h]) : Node(h, s, j) = Node(h, c[h], IF j < k THEN j ELSE j + 1)
        /\ \A j \in 1 .. Len(c[h]) - 1 : s[j] = IF j < k THEN c[h][j] ELSE c[h][j + 1]
    <2>1. c[h] \in Seq(Entries)
      BY <1>1
    <2>2. s \in Seq(Entries) /\ Len(s) = Len(c[h]) - 1
      BY <2>1, RemovedType
    <2>3. \A j \in 1 .. Len(c[h]) - 1 : s[j] = IF j < k THEN c[h][j] ELSE c[h][j + 1]
      BY DEF Removed
    <2> HIDE DEF s
    <2>4. \A j \in 0 .. Len(c[h]) : Node(h, s, j) = Node(h, c[h], IF j < k THEN j ELSE j + 1)
      BY <1>1, <2>2, <2>3 DEF Node
    <2> QED
      BY <2>2, <2>3, <2>4
  <1> HIDE DEF r, s
  <1>7. /\ d \in [Heads -> Seq(Entries)] /\ d[h] = s
        /\ \A g \in Heads \ {h} : d[g] = c[g]
    BY <1>1, <1>6
  <1> HIDE DEF d
  <1>8. ASSUME NEW g \in Heads PROVE Chain(r, g, d[g])
    <2>1. Chain(m, g, c[g])
      BY DEF Lists
    <2>2. ASSUME NEW i \in 0 .. Len(c[g]), Node(g, c[g], i) = p PROVE g = h /\ i = k - 1
      <3>1. k - 1 \in 0 .. Len(c[h])
        BY <1>1
      <3> QED
        BY <2>2, <3>1, NodesDistinct
    <2>3. CASE g # h
      <3>1. \A i \in 0 .. Len(c[g]) : Node(g, c[g], i) \in (Heads \cup S) \ {p}
        BY <1>1, <1>2, <2>2, <2>3
      <3> HIDE DEF p
      <3> QED
        BY <1>5, <1>7, <2>1, <2>3, <3>1 DEF Chain
    <2>4. CASE g = h
      <3>1. SUFFICES ASSUME NEW j \in 0 .. Len(c[h]) - 1
                     PROVE  r.next[Node(h, s, j)] = Node(h, s, j + 1)
        BY <1>6, <1>7, <2>4 DEF Chain
      <3>2. CASE j = k - 1
        <4>1. k - 1 \in 0 .. Len(c[h]) /\ k \in 0 .. Len(c[h]) /\ j + 1 = k
          BY <1>1, <3>2
        <4>2. Node(h, s, k - 1) = p /\ Node(h, s, k) = n
          BY <1>1, <1>6, <4>1
        <4> QED
          BY <1>5, <3>2, <4>1, <4>2
      <3>3. CASE j # k - 1
        <4>1. PICK i \in 0 .. Len(c[h]) : i = IF j < k THEN j ELSE j + 1
          BY <1>1, <3>3
        <4>2. i # k - 1 /\ Node(h, s, j) = Node(h, c[h], i) /\ Node(h, s, j + 1) = Node(h, c[h], i + 1)
          BY <1>1, <1>6, <3>3, <4>1
        <4>3. Node(h, c[h], i) \in (Heads \cup S) \ {p}
          BY <1>1, <1>2, <2>2, <2>4, <4>2
        <4> HIDE DEF p
        <4> QED
          BY <1>5, <2>1, <2>4, <4>2, <4>3 DEF Chain
      <3> QED
        BY <3>2, <3>3
    <2> QED
      BY <2>3, <2>4
  <1>9. ASSUME NEW g \in Heads, NEW i \in 1 .. Len(d[g])
        PROVE  \E j \in 1 .. Len(c[g]) : /\ d[g][i] = c[g][j] /\ (g = h => j # k)
                                         /\ j = IF g = h /\ i >= k THEN i + 1 ELSE i
    BY <1>1, <1>6, <1>7
  <1>10. Disjoint(c)
    BY DEF Lists
  <1>11. Disjoint(d)
    <2>1. SUFFICES ASSUME NEW f \in Heads, NEW g \in Heads,
                          NEW i \in 1 .. Len(d[f]), NEW j \in 1 .. Len(d[g]), d[f][i] = d[g][j]
                   PROVE  f = g /\ i = j
      BY DEF Disjoint
    <2>2. PICK i1 \in 1 .. Len(c[f]) : /\ d[f][i] = c[f][i1]
                                       /\ i1 = IF f = h /\ i >= k THEN i + 1 ELSE i
      BY <1>9
    <2>3. PICK j1 \in 1 .. Len(c[g]) : /\ d[g][j] = c[g][j1]
                                       /\ j1 = IF g = h /\ j >= k THEN j + 1 ELSE j
      BY <1>9
    <2>4. c[f][i1] = c[g][j1]
      BY <2>1, <2>2, <2>3
    <2>5. f = g /\ i1 = j1
      BY <1>10, <2>4 DEF Disjoint
    <2> QED
      BY <2>2, <2>3, <2>5
  <1>12. S \ {e} = UNION {{d[g][i] : i \in 1 .. Len(d[g])} : g \in Heads}
    <2>1. ASSUME NEW g \in Heads, NEW i \in 1 .. Len(d[g]) PROVE d[g][i] \in S \ {e}
      <3>1. PICK j \in 1 .. Len(c[g]) : d[g][i] = c[g][j] /\ (g = h => j # k)
        BY <1>9
      <3>2. c[g][j] # c[h][k]
        BY <1>10, <3>1 DEF Disjoint
      <3> QED
        BY <1>1, <3>1, <3>2
    <2>2. ASSUME NEW y \in S \ {e}
          PROVE  \E g \in Heads : \E i \in 1 .. Len(d[g]) : d[g][i] = y
      <3>1. PICK g \in Heads : \E i \in 1 .. Len(c[g]) : c[g][i] = y
        BY <1>1
      <3>2. PICK i \in 1 .. Len(c[g]) : c[g][i] = y
        BY <3>1
      <3>3. g = h => i # k
        BY <3>2
      <3>4. CASE g = h /\ i > k
        <4>1. i - 1 \in 1 .. Len(d[g]) /\ d[g][i - 1] = y
          BY <1>1, <1>6, <1>7, <3>2, <3>4
        <4> QED
          BY <4>1
      <3>5. CASE g = h /\ i < k
        <4>1. i \in 1 .. Len(c[h]) - 1 /\ s[i] = c[h][i]
          BY <1>1, <1>6, <3>2, <3>5
        <4> QED
          BY <1>6, <1>7, <3>2, <3>5, <4>1
      <3>6. CASE g # h
        BY <1>7, <3>2, <3>6
      <3> QED
        BY <3>3, <3>4, <3>5, <3>6
    <2> QED
      BY <2>1, <2>2
  <1> QED
    BY <1>7, <1>8, <1>11, <1>12 DEF Lists, r, s, d

\* list_replace puts another entry in the place of the k-th one.
LEMMA ListReplaceLists ==
  ASSUME NEW m \in Mem, NEW S, NEW c, Lists(m, S, c), RingOn(m, Heads \cup S),
         NEW h \in Heads, NEW k \in 1 .. Len(c[h]), NEW x \in Entries, x \notin S
  PROVE  Lists(ListReplace(m, c[h][k], x), (S \ {c[h][k]}) \cup {x},
               [c EXCEPT ![h] = Replaced(c[h], k, x)])
  <1> DEFINE e == c[h][k]
             r == ListReplace(m, e, x)
             s == Replaced(c[h], k, x)
             d == [c EXCEPT ![h] = s]
  <1>1. /\ \A g \in Heads : c[g] \in Seq(Entries) /\ Len(c[g]) \in Nat
        /\ \A g \in Heads : \A i \in 1 .. Len(c[g]) : c[g][i] \in S
        /\ \A y \in S : \E g \in Heads : \E i \in 1 .. Len(c[g]) : c[g][i] = y
        /\ c \in [Heads -> Seq(Entries)] /\ S \subseteq Entries
    BY ListsEntries DEF Lists
  <1>2. \A g \in Heads : \A i \in 0 .. Len(c[g]) + 1 : Node(g, c[g], i) \in Heads \cup S
    BY NodesOfLists
  <1>3. /\ Heads \cup S \in SUBSET Nodes
        /\ e \in Heads \cup S /\ x \in Nodes \ (Heads \cup S)
    BY <1>1, NodesAssumption DEF Nodes
  <1> DEFINE p == Node(h, c[h], k - 1)
             n == Node(h, c[h], k + 1)
  <1>4. m.prev[e] = p /\ m.next[e] = n /\ p # e
    <2>1. k - 1 \in 0 .. Len(c[h]) /\ k \in 0 .. Len(c[h]) /\ (k - 1) + 1 = k
      BY <1>1
    <2>2. m.next[p] = Node(h, c[h], k) /\ m.next[Node(h, c[h], k)] = n
      BY <2>1 DEF Lists, Chain
    <2>3. Node(h, c[h], k) = e /\ p \in Heads \cup S
      BY <1>1, <1>2, <2>1 DEF Node
    <2>4. p # Node(h, c[h], k)
      BY <2>1, NodesDistinct
    <2> QED
      BY <2>2, <2>3, <2>4 DEF RingOn
  <1>5. /\ r.next[x] = n /\ r.next[p] = x
        /\ \A y \in (Heads \cup S) \ {p} : r.next[y] = m.next[y]
    <2>1. n # e
      BY <1>3, <1>4 DEF RingOn
    <2> HIDE DEF p, n, r
    <2> QED
      BY <1>3, <1>4, <2>1, ListReplaceNext DEF r
  <1>6. /\ s \in Seq(Entries) /\ Len(s) = Len(c[h])
        /\ \A j \in 0 .. Len(c[h]) + 1 : Node(h, s, j) = IF j = k THEN x ELSE Node(h, c[h], j)
        /\ \A j \in 1 .. Len(c[h]) : s[j] = IF j = k THEN x ELSE c[h][j]
    <2>1. c[h] \in Seq(Entries)
      BY <1>1
    <2>2. s \in Seq(Entries) /\ Len(s) = Len(c[h])
      BY <2>1, ReplacedType
    <2>3. \A j \in 1 .. Len(c[h]) : s[j] = IF j = k THEN x ELSE c[h][j]
      BY DEF Replaced
    <2> HIDE DEF s
    <2>4. \A j \in 0 .. Len(c[h]) + 1 : Node(h, s, j) = IF j = k THEN x ELSE Node(h, c[h], j)
      BY <1>1, <2>2, <2>3 DEF Node
    <2> QED
      BY <2>2, <2>3, <2>4
  <1> HIDE DEF r, s
  <1>7. /\ d \in [Heads -> Seq(Entries)] /\ d[h] = s
        /\ \A g \in Heads \ {h} : d[g] = c[g]
    BY <1>1, <1>6
  <1> HIDE DEF d
  <1>8. ASSUME NEW g \in Heads PROVE Chain(r, g, d[g])
    <2>1. Chain(m, g, c[g])
      BY DEF Lists
    <2>2. ASSUME NEW i \in 0 .. Len(c[g]), Node(g, c[g], i) = p PROVE g = h /\ i = k - 1
      <3>1. k - 1 \in 0 .. Len(c[h])
        BY <1>1
      <3> QED
        BY <2>2, <3>1, NodesDistinct
    <2>3. CASE g # h
      <3>1. \A i \in 0 .. Len(c[g]) : Node(g, c[g], i) \in (Heads \cup S) \ {p}
        BY <1>1, <1>2, <2>2, <2>3
      <3> HIDE DEF p
      <3> QED
        BY <1>5, <1>7, <2>1, <2>3, <3>1 DEF Chain
    <2>4. CASE g = h
      <3>1. SUFFICES ASSUME NEW j \in 0 .. Len(c[h])
                     PROVE  r.next[Node(h, s, j)] = Node(h, s, j + 1)
        BY <1>6, <1>7, <2>4 DEF Chain
      <3>2. CASE j = k - 1
        <4>1. /\ k - 1 \in 0 .. Len(c[h]) + 1 /\ k \in 0 .. Len(c[h]) + 1
              /\ j + 1 = k /\ k - 1 # k
          BY <1>1, <3>2
        <4>2. Node(h, s, k - 1) = p /\ Node(h, s, k) = x
          BY <1>6, <4>1
        <4> QED
          BY <1>5, <3>2, <4>1, <4>2
      <3>3. CASE j = k
        <4>1. k \in 0 .. Len(c[h]) /\ k + 1 \in 0 .. Len(c[h]) + 1 /\ k + 1 # k
          BY <1>1
        <4>2. Node(h, s, k) = x /\ Node(h, s, k + 1) = n
          BY <1>1, <1>6, <4>1
        <4> QED
          BY <1>5, <3>3, <4>2
      <3>4. CASE j # k - 1 /\ j # k
        <4>1. Node(h, s, j) = Node(h, c[h], j) /\ Node(h, s, j + 1) = Node(h, c[h], j + 1)
          BY <1>1, <1>6, <3>4
        <4>2. Node(h, c[h], j) \in (Heads \cup S) \ {p}
          BY <1>1, <1>2, <2>2, <2>4, <3>4
        <4> HIDE DEF p
        <4> QED
          BY <1>5, <2>1, <2>4, <4>1, <4>2 DEF Chain
      <3> QED
        BY <3>2, <3>3, <3>4
    <2> QED
      BY <2>3, <2>4
  <1>9. ASSUME NEW g \in Heads, NEW i \in 1 .. Len(d[g])
        PROVE  /\ i \in 1 .. Len(c[g])
               /\ d[g][i] = IF g = h /\ i = k THEN x ELSE c[g][i]
    BY <1>1, <1>6, <1>7
  <1>10. Disjoint(c)
    BY DEF Lists
  <1>11. Disjoint(d)
    <2>1. SUFFICES ASSUME NEW f \in Heads, NEW g \in Heads,
                          NEW i \in 1 .. Len(d[f]), NEW j \in 1 .. Len(d[g]), d[f][i] = d[g][j]
                   PROVE  f = g /\ i = j
      BY DEF Disjoint
    <2>2. /\ i \in 1 .. Len(c[f]) /\ d[f][i] = IF f = h /\ i = k THEN x ELSE c[f][i]
          /\ j \in 1 .. Len(c[g]) /\ d[g][j] = IF g = h /\ j = k THEN x ELSE c[g][j]
      BY <1>9
    <2>3. c[f][i] # x /\ c[g][j] # x
      BY <1>1, <2>2
    <2>4. c[f][i] = c[g][j] => f = g /\ i = j
      BY <1>10, <2>2 DEF Disjoint
    <2> QED
      BY <2>1, <2>2, <2>3, <2>4
  <1>12. (S \ {e}) \cup {x} = UNION {{d[g][i] : i \in 1 .. Len(d[g])} : g \in Heads}
    <2>1. ASSUME NEW g \in Heads, NEW i \in 1 .. Len(d[g]) PROVE d[g][i] \in (S \ {e}) \cup {x}
      <3>1. i \in 1 .. Len(c[g]) /\ d[g][i] = IF g = h /\ i = k THEN x ELSE c[g][i]
        BY <1>9
      <3>2. c[g][i] = c[h][k] => g = h /\ i = k
        BY <1>10, <3>1 DEF Disjoint
      <3> QED
        BY <1>1, <3>1, <3>2
    <2>2. ASSUME NEW y \in (S \ {e}) \cup {x}
          PROVE  \E g \in Heads : \E i \in 1 .. Len(d[g]) : d[g][i] = y
      <3>1. CASE y = x
        BY <1>6, <1>7, <3>1
      <3>2. CASE y \in S \ {e}
        <4>1. PICK g \in Heads : \E i \in 1 .. Len(c[g]) : c[g][i] = y
          BY <1>1, <3>2
        <4>2. PICK i \in 1 .. Len(c[g]) : c[g][i] = y
          BY <4>1
        <4>3. i \in 1 .. Len(d[g]) /\ d[g][i] = y
          BY <1>1, <1>6, <1>7, <3>2, <4>2
        <4> QED
          BY <4>3
      <3> QED
        BY <3>1, <3>2
    <2> QED
      BY <2>1, <2>2
  <1> QED
    BY <1>7, <1>8, <1>11, <1>12 DEF Lists, r, s, d

\* A list is handed to another head, whose list is empty.
LEMMA ReplaceHeadLists ==
  ASSUME NEW m \in Mem, NEW S, NEW c, Lists(m, S, c), RingOn(m, Heads \cup S),
         NEW g \in Heads, NEW h \in Heads, g # h, m.next[h] = h
  PROVE  /\ c[h] = <<>>
         /\ Lists(ListReplaceInit(m, g, h), S, [c EXCEPT ![h] = c[g], ![g] = <<>>])
  <1> DEFINE r == ListReplace(m, g, h)
             q == InitListHead(r, g)
             d == [c EXCEPT ![h] = c[g], ![g] = <<>>]
             R == (Heads \cup S) \ {h}
             p == Node(g, c[g], Len(c[g]))
             n == Node(g, c[g], 1)
  <1>1. /\ \A f \in Heads : c[f] \in Seq(Entries) /\ Len(c[f]) \in Nat
        /\ \A f \in Heads : \A i \in 1 .. Len(c[f]) : c[f][i] \in S
        /\ c \in [Heads -> Seq(Entries)] /\ S \subseteq Entries
    BY ListsEntries DEF Lists
  <1>2. \A f \in Heads : \A i \in 0 .. Len(c[f]) + 1 : Node(f, c[f], i) \in Heads \cup S
    BY NodesOfLists
  <1>3. /\ R \in SUBSET Nodes /\ g \in R /\ h \in Nodes \ R /\ Heads \cup S \subseteq Nodes
        /\ \A f \in Heads : \A i \in 1 .. Len(c[f]) : c[f][i] # h /\ c[f][i] # g
    BY <1>1, NodesAssumption DEF Nodes
  <1>4. c[h] = <<>>
    <2>1. SUFFICES ASSUME Len(c[h]) # 0 PROVE FALSE
      BY <1>1
    <2>2. 0 \in 0 .. Len(c[h]) /\ 0 + 1 \in 1 .. Len(c[h])
      BY <1>1, <2>1
    <2>3. m.next[Node(h, c[h], 0)] = Node(h, c[h], 0 + 1)
      BY <2>2 DEF Lists, Chain
    <2> QED
      BY <1>3, <2>2, <2>3 DEF Node
  <1>5. RingOn(m, R)
    BY DEF RingOn
  <1>6. m.next[g] = n /\ m.prev[g] = p /\ p \in R
    <2>1. 0 \in 0 .. Len(c[g]) /\ Len(c[g]) \in 0 .. Len(c[g])
      BY <1>1
    <2>2. m.next[Node(g, c[g], 0)] = Node(g, c[g], 0 + 1)
      BY <2>1 DEF Lists, Chain
    <2>3. m.next[p] = Node(g, c[g], Len(c[g]) + 1)
      BY <2>1 DEF Lists, Chain
    <2>4. Node(g, c[g], Len(c[g]) + 1) = g /\ Node(g, c[g], 0) = g
      BY <1>1 DEF Node
    <2>5. p \in R
      BY <1>2, <1>3, <2>1 DEF Node
    <2> QED
      BY <2>2, <2>3, <2>4, <2>5 DEF RingOn
  <1>7. /\ r.next[h] = IF n = g THEN h ELSE n
        /\ p # g => r.next[p] = h
        /\ \A y \in R \ {p} : r.next[y] = m.next[y]
        /\ r \in Mem
    <2> HIDE DEF r, R, p, n
    <2>1. r \in Mem
      BY <1>3, <1>5, ListReplaceRing DEF r
    <2> QED
      BY <1>3, <1>5, <1>6, <2>1, ListReplaceNext DEF r
  <1>8. q.next[g] = g /\ \A y \in Nodes \ {g} : q.next[y] = r.next[y]
    <2>1. q.next = [r.next EXCEPT ![g] = g]
      BY DEF InitListHead, SetNext, SetPrev
    <2>2. r.next \in [Nodes -> Nodes \cup {Poison}]
      BY <1>7 DEF Mem, Pointers
    <2> HIDE DEF q, r
    <2> QED
      BY <1>3, <2>1, <2>2
  <1> HIDE DEF r, q
  <1>9. /\ d \in [Heads -> Seq(Entries)] /\ d[h] = c[g] /\ d[g] = <<>>
        /\ \A f \in Heads \ {g, h} : d[f] = c[f]
    <2>1. <<>> \in Seq(Entries)
      OBVIOUS
    <2> QED
      BY <1>1, <2>1
  <1> HIDE DEF d
  <1>10. ASSUME NEW f \in Heads PROVE Chain(q, f, d[f])
    <2>1. /\ \A i \in 0 .. Len(c[f]) : m.next[Node(f, c[f], i)] = Node(f, c[f], i + 1)
          /\ \A i \in 0 .. Len(c[g]) : m.next[Node(g, c[g], i)] = Node(g, c[g], i + 1)
      BY DEF Lists, Chain
    <2>2. Len(c[g]) \in 0 .. Len(c[g])
      BY <1>1
    <2>3. CASE f = g
      BY <1>8, <1>9, <2>3 DEF Chain, Node
    <2>4. CASE f \notin {g, h}
      <3>1. ASSUME NEW i \in 0 .. Len(c[f])
            PROVE  q.next[Node(f, c[f], i)] = Node(f, c[f], i + 1)
        <4>1. Node(f, c[f], i) # p
          BY <2>2, <2>4, NodesDistinct
        <4>2. Node(f, c[f], i) \in R \ {p, g}
          BY <1>1, <1>2, <1>3, <2>4, <4>1 DEF Node
        <4> QED
          BY <1>3, <1>7, <1>8, <2>1, <4>2
      <3> QED
        BY <1>9, <2>4, <3>1 DEF Chain
    <2>5. CASE f = h
      <3>1. SUFFICES ASSUME NEW i \in 0 .. Len(c[g])
                     PROVE  q.next[Node(h, c[g], i)] = Node(h, c[g], i + 1)
        BY <1>9, <2>5 DEF Chain
      <3>2. CASE i = 0
        <4>1. Node(h, c[g], i) = h /\ Node(h, c[g], i + 1) = IF n = g THEN h ELSE n
          BY <1>1, <1>3, <3>2 DEF Node
        <4> QED
          BY <1>3, <1>7, <1>8, <4>1
      <3>3. CASE i # 0
        <4>1. /\ i \in 1 .. Len(c[g]) /\ Node(h, c[g], i) = c[g][i]
              /\ Node(g, c[g], i) = c[g][i]
          BY <1>1, <3>3 DEF Node
        <4>2. c[g][i] \in R \ {g}
          BY <1>1, <1>3, <4>1
        <4>3. CASE i = Len(c[g])
          <5>1. p = c[g][i] /\ Node(h, c[g], i + 1) = h
            BY <1>1, <4>1, <4>3 DEF Node
          <5> QED
            BY <1>3, <1>7, <1>8, <4>1, <4>2, <5>1
        <4>4. CASE i # Len(c[g])
          <5>1. i + 1 \in 1 .. Len(c[g])
            BY <1>1, <4>1, <4>4
          <5>2. Node(h, c[g], i + 1) = c[g][i + 1] /\ Node(g, c[g], i + 1) = c[g][i + 1]
            BY <5>1 DEF Node
          <5>3. c[g][i] # p
            BY <2>2, <4>1, <4>4, NodesDistinct
          <5> QED
            BY <1>3, <1>7, <1>8, <2>1, <4>1, <4>2, <5>2, <5>3
        <4> QED
          BY <4>3, <4>4
      <3> QED
        BY <3>2, <3>3
    <2> QED
      BY <2>3, <2>4, <2>5
  <1>11. Len(d[g]) = 0 /\ Len(c[h]) = 0
    BY <1>4, <1>9
  <1>12. Disjoint(c) /\ S = UNION {{c[f][k] : k \in 1 .. Len(c[f])} : f \in Heads}
    BY DEF Lists
  <1>13. Disjoint(d)
    <2>1. SUFFICES ASSUME NEW a \in Heads, NEW b \in Heads,
                          NEW i \in 1 .. Len(d[a]), NEW j \in 1 .. Len(d[b]), d[a][i] = d[b][j]
                   PROVE  a = b /\ i = j
      BY DEF Disjoint
    <2>2. a # g /\ b # g
      BY <1>11
    <2>3. PICK a1 \in Heads : a1 = (IF a = h THEN g ELSE a) /\ d[a] = c[a1]
      BY <1>9, <2>2
    <2>4. PICK b1 \in Heads : b1 = (IF b = h THEN g ELSE b) /\ d[b] = c[b1]
      BY <1>9, <2>2
    <2>5. a1 = b1 /\ i = j
      BY <1>12, <2>1, <2>3, <2>4 DEF Disjoint
    <2> QED
      BY <2>2, <2>3, <2>4, <2>5
  <1>14. S = UNION {{d[f][k] : k \in 1 .. Len(d[f])} : f \in Heads}
    <2>1. ASSUME NEW f \in Heads, NEW k \in 1 .. Len(d[f]) PROVE d[f][k] \in S
      <3>1. f # g
        BY <1>11
      <3> QED
        BY <1>1, <1>9, <3>1
    <2>2. ASSUME NEW y \in S PROVE \E f \in Heads : \E k \in 1 .. Len(d[f]) : d[f][k] = y
      <3>1. PICK f \in Heads : \E k \in 1 .. Len(c[f]) : c[f][k] = y
        BY ListsEntries
      <3>2. f # h
        BY <1>11, <3>1
      <3> QED
        BY <1>9, <3>1, <3>2
    <2> QED
      BY <2>1, <2>2
  <1> QED
    BY <1>4, <1>9, <1>10, <1>13, <1>14 DEF Lists, ListReplaceInit, r, q, d

\* list_move and list_move_tail: the entry is taken out, and put behind the head
\* or before it.
LEMMA MoveLists ==
  ASSUME NEW m \in Mem, NEW S, NEW c, Lists(m, S, c), RingOn(m, Heads \cup S),
         NEW h \in Heads, NEW k \in 1 .. Len(c[h]), NEW e, e = c[h][k], NEW f \in Heads,
         NEW d, d = [c EXCEPT ![h] = Removed(c[h], k)]
  PROVE  /\ Lists(ListMove(m, e, f), S, [d EXCEPT ![f] = Inserted(d[f], 0, e)])
         /\ Lists(ListMoveTail(m, e, f), S,
                  [d EXCEPT ![f] = Inserted(d[f], Len(d[f]), e)])
  <1> DEFINE r == ListDel(m, e)
             T == S \ {e}
  <1>1. S \subseteq Entries /\ e \in S
    BY ListsEntries
  <1>2. Lists(r, T, d)
    BY ListDelLists
  <1>3. r \in Mem /\ RingOn(r, Heads \cup T)
    <2>1. /\ Heads \cup S \in SUBSET Nodes /\ e \in Heads \cup S
          /\ (Heads \cup S) \ {e} = Heads \cup T
      BY <1>1, NodesAssumption DEF Nodes
    <2> HIDE DEF r, T
    <2> QED
      BY <2>1, ListDelRing DEF r
  <1>4. e \in Entries /\ e \notin T /\ T \cup {e} = S
    BY <1>1
  <1> HIDE DEF r, T
  <1>5. d[f] \in Seq(Entries) /\ Len(d[f]) \in Nat
    BY <1>2, ListsEntries
  <1>6. 0 \in 0 .. Len(d[f]) /\ Len(d[f]) \in 0 .. Len(d[f])
    BY <1>5
  <1> DEFINE p == Node(f, d[f], Len(d[f]))
  <1>7. Node(f, d[f], 0) = f
    BY DEF Node
  <1>8. p \in Heads \cup T /\ r.next[p] = f /\ r.prev[f] = p
    <2>1. Len(d[f]) \in 0 .. Len(d[f]) + 1
      BY <1>5
    <2>2. p \in Heads \cup T
      BY <1>2, <2>1, NodesOfLists
    <2>3. r.next[p] = Node(f, d[f], Len(d[f]) + 1)
      BY <1>2, <1>6 DEF Lists, Chain
    <2>4. Node(f, d[f], Len(d[f]) + 1) = f
      BY <1>5 DEF Node
    <2> QED
      BY <1>3, <2>2, <2>3, <2>4 DEF RingOn
  <1>9. Lists(AddBetween(r, e, f, r.next[f]), T \cup {e}, [d EXCEPT ![f] = Inserted(d[f], 0, e)])
    BY <1>2, <1>3, <1>4, <1>6, <1>7, AddBetweenLists
  <1>10. Lists(AddBetween(r, e, p, r.next[p]), T \cup {e},
               [d EXCEPT ![f] = Inserted(d[f], Len(d[f]), e)])
    BY <1>2, <1>3, <1>4, <1>6, AddBetweenLists
  <1> QED
    BY <1>4, <1>8, <1>9, <1>10 DEF ListMove, ListMoveTail, ListAdd, ListAddTail, r

-----------------------------------------------------------------------------
(* What a loop over the pointers finds                                     *)

\* There are less entries in a list than nodes.
LEMMA LengthBound ==
  ASSUME NEW m, NEW S, NEW c, Lists(m, S, c), NEW h \in Heads
  PROVE  /\ Cardinality(Nodes) \in Nat /\ Cardinality(Entries) \in Nat
         /\ Len(c[h]) <= Cardinality(Entries) /\ Cardinality(Entries) <= Cardinality(Nodes)
  <1> DEFINE L == Len(c[h])
  <1>1. c[h] \in Seq(Entries) /\ L \in Nat
    BY ListsEntries
  <1>2. /\ IsFiniteSet(Entries) /\ Cardinality(Nodes) \in Nat /\ Cardinality(Entries) \in Nat
        /\ Cardinality(Entries) <= Cardinality(Nodes)
    <2>1. Entries \in SUBSET Nodes
      BY DEF Nodes
    <2>2. IsFiniteSet(Entries) /\ Cardinality(Entries) <= Cardinality(Nodes)
      BY <2>1, FiniteAssumption, FS_Subset
    <2> QED
      BY <2>2, FiniteAssumption, FS_CardinalityType
  <1>3. c[h] \in Injection(1 .. L, Entries)
    <2>1. \A i, j \in 1 .. L : c[h][i] = c[h][j] => i = j
      BY DEF Lists, Disjoint
    <2>2. c[h] \in [1 .. L -> Entries]
      BY <1>1
    <2> QED
      BY <2>1, <2>2 DEF Injection, IsInjective
  <1>4. Cardinality(1 .. L) <= Cardinality(Entries)
    BY <1>2, <1>3, FS_Injection
  <1>5. Cardinality(1 .. L) = L
    <2>1. 1 \in Int /\ L \in Int
      BY <1>1
    <2>2. Cardinality(1 .. L) = IF 1 > L THEN 0 ELSE L - 1 + 1
      BY <2>1, FS_Interval
    <2> QED
      BY <1>1, <2>2
  <1> QED
    BY <1>2, <1>4, <1>5

\* a are the nodes that f leads to from x, step by step.
IsPath(f, x, n, a) == a = [k \in 0 .. n |-> IF k = 0 THEN f[x] ELSE f[a[k - 1]]]

\* There are such nodes for any number of steps.
LEMMA PathDefined ==
  ASSUME NEW f, NEW x, NEW N \in Nat
  PROVE  \E a : IsPath(f, x, N, a)
  <1> DEFINE P(n) == \E a : IsPath(f, x, n, a)
             Bad == {n \in Nat : ~ P(n)}
             R == OpToRel(<, Nat)
  <1>1. SUFFICES ASSUME Bad # {} PROVE FALSE
    OBVIOUS
  <1>2. PICK n \in Bad : \A j \in Bad : ~ (<<j, n>> \in R)
    BY <1>1, NatLessThanWellFounded, WFMin
  <1>3. \A j \in Nat : j < n => P(j)
    BY <1>2 DEF OpToRel
  <1> HIDE DEF R
  <1>4. CASE n = 0
    <2> DEFINE a == [k \in 0 .. 0 |-> f[x]]
    <2>1. a = [k \in 0 .. 0 |-> IF k = 0 THEN f[x] ELSE f[a[k - 1]]]
      OBVIOUS
    <2> HIDE DEF a
    <2> QED
      BY <1>2, <1>4, <2>1 DEF IsPath
  <1>5. CASE n # 0
    <2>1. n - 1 \in Nat /\ n - 1 < n /\ n \in Nat
      BY <1>2, <1>5
    <2>2. PICK b : b = [k \in 0 .. n - 1 |-> IF k = 0 THEN f[x] ELSE f[b[k - 1]]]
      BY <1>3, <2>1 DEF IsPath
    <2> DEFINE a == [k \in 0 .. n |-> IF k = n THEN f[b[n - 1]] ELSE b[k]]
               q == [k \in 0 .. n |-> IF k = 0 THEN f[x] ELSE f[a[k - 1]]]
    <2>3. ASSUME NEW k \in 0 .. n PROVE a[k] = q[k]
      <3>1. CASE k = n
        BY <1>5, <2>1, <3>1
      <3>2. CASE k # n
        BY <1>5, <2>1, <2>2, <3>2
      <3> QED
        BY <3>1, <3>2
    <2>4. a = q
      BY <2>3
    <2> HIDE DEF a
    <2> QED
      BY <1>2, <2>4 DEF IsPath
  <1> QED
    BY <1>4, <1>5

\* Walk reads the list of a head off the pointers.
LEMMA WalkFindsList ==
  ASSUME NEW m, NEW S, NEW c, Lists(m, S, c), NEW h \in Heads
  PROVE  Walk(m, h) = c[h]
  <1> DEFINE N == Cardinality(Nodes)
             L == Len(c[h])
             at == CHOOSE a : a = [k \in 0 .. N |-> IF k = 0 THEN m.next[h] ELSE m.next[a[k - 1]]]
             ends == {k \in 0 .. N : at[k] = h} \cup {N}
             length == CHOOSE k \in ends : \A j \in ends : k <= j
  <1>1. Walk(m, h) = [k \in 1 .. length |-> at[k - 1]]
    BY DEF Walk
  <1>2. N \in Nat /\ L \in Nat /\ L <= N /\ c[h] \in Seq(Entries)
    BY LengthBound, ListsEntries
  <1>3. at = [k \in 0 .. N |-> IF k = 0 THEN m.next[h] ELSE m.next[at[k - 1]]]
    <2>1. \E a : a = [k \in 0 .. N |-> IF k = 0 THEN m.next[h] ELSE m.next[a[k - 1]]]
      <3>1. \E a : IsPath(m.next, h, N, a)
        BY <1>2, PathDefined
      <3> QED
        BY <3>1 DEF IsPath
    <2> QED
      BY <2>1
  <1> HIDE DEF at, N
  <1>4. /\ at[0] = m.next[h] /\ \A k \in 1 .. N : at[k] = m.next[at[k - 1]]
    BY <1>2, <1>3
  <1>5. \A k \in 0 .. L : m.next[Node(h, c[h], k)] = Node(h, c[h], k + 1)
    BY DEF Lists, Chain
  <1>6. \A k \in 0 .. L : at[k] = Node(h, c[h], k + 1)
    <2> DEFINE Bad == {k \in Nat : k <= L /\ at[k] # Node(h, c[h], k + 1)}
               R == OpToRel(<, Nat)
    <2>1. SUFFICES ASSUME Bad # {} PROVE FALSE
      BY <1>2
    <2>2. PICK n \in Bad : \A j \in Bad : ~ (<<j, n>> \in R)
      BY <2>1, NatLessThanWellFounded, WFMin
    <2>3. \A j \in Nat : j < n => j \notin Bad
      BY <2>2 DEF OpToRel
    <2> HIDE DEF R
    <2>4. CASE n = 0
      <3>1. Node(h, c[h], 0) = h /\ 0 \in 0 .. L
        BY <1>2 DEF Node
      <3> QED
        BY <1>4, <1>5, <2>2, <2>4, <3>1
    <2>5. CASE n # 0
      <3>1. n - 1 \in Nat /\ n - 1 < n /\ n - 1 <= L /\ n \in 1 .. N /\ n \in 0 .. L
        BY <1>2, <2>2, <2>5
      <3>2. at[n - 1] = Node(h, c[h], n)
        BY <2>3, <3>1
      <3> QED
        BY <1>4, <1>5, <2>2, <3>1, <3>2
    <2> QED
      BY <2>4, <2>5
  <1>7. at[L] = h
    BY <1>2, <1>6 DEF Node
  <1>8. \A k \in 0 .. L - 1 : at[k] = c[h][k + 1] /\ at[k] # h
    <2>1. \A x \in Heads : x \notin Entries
      BY NodesAssumption
    <2> QED
      BY <1>2, <1>6, <2>1 DEF Node
  <1>9. L \in ends /\ \A j \in ends : j \in Nat /\ L <= j
    BY <1>2, <1>7, <1>8
  <1> HIDE DEF ends
  <1>10. length = L
    <2>1. length \in ends /\ \A j \in ends : length <= j
      BY <1>9
    <2> HIDE DEF length
    <2> QED
      BY <1>2, <1>9, <2>1
  <1> HIDE DEF length
  <1>11. Walk(m, h) = [k \in 1 .. L |-> c[h][k]]
    <2>1. \A k \in 1 .. L : at[k - 1] = c[h][k]
      BY <1>2, <1>8
    <2> QED
      BY <1>1, <1>10, <2>1
  <1> QED
    BY <1>2, <1>11

-----------------------------------------------------------------------------
(* What the sequences of ListOfEntries say of the lists                    *)

\* <<x>> \o s and Append put x in the first and in the last place.
LEMMA InsertedEnds ==
  ASSUME NEW s \in Seq(Entries), NEW x \in Entries
  PROVE  <<x>> \o s = Inserted(s, 0, x) /\ Append(s, x) = Inserted(s, Len(s), x)
  <1>1. Len(s) \in Nat /\ 0 \in 0 .. Len(s) /\ Len(s) \in 0 .. Len(s)
    OBVIOUS
  <1>2. /\ Inserted(s, 0, x) \in Seq(Entries) /\ Len(Inserted(s, 0, x)) = Len(s) + 1
        /\ Inserted(s, Len(s), x) \in Seq(Entries) /\ Len(Inserted(s, Len(s), x)) = Len(s) + 1
    BY <1>1, InsertedType
  <1>3. <<x>> \o s = Inserted(s, 0, x)
    <2>1. <<x>> \in Seq(Entries) /\ Len(<<x>>) = 1 /\ <<x>>[1] = x
      OBVIOUS
    <2>2. <<x>> \o s \in Seq(Entries) /\ Len(<<x>> \o s) = Len(s) + 1
      BY <1>1, <2>1, ConcatProperties
    <2>3. ASSUME NEW j \in 1 .. Len(s) + 1 PROVE (<<x>> \o s)[j] = Inserted(s, 0, x)[j]
      <3>1. (<<x>> \o s)[j] = IF j <= 1 THEN <<x>>[j] ELSE s[j - 1]
        BY <1>1, <2>1, ConcatProperties
      <3> QED
        BY <1>1, <2>1, <3>1 DEF Inserted
    <2> QED
      BY <1>2, <2>2, <2>3, SeqEqual
  <1>4. Append(s, x) = Inserted(s, Len(s), x)
    <2>1. Append(s, x) \in Seq(Entries) /\ Len(Append(s, x)) = Len(s) + 1
      BY AppendProperties
    <2>2. ASSUME NEW j \in 1 .. Len(s) + 1 PROVE Append(s, x)[j] = Inserted(s, Len(s), x)[j]
      BY <1>1 DEF Inserted
    <2> QED
      BY <1>2, <2>1, <2>2, SeqEqual
  <1> QED
    BY <1>3, <1>4

\* Without takes out an entry that occurs once.
LEMMA WithoutRemoves ==
  ASSUME NEW s \in Seq(Entries), NEW e,
         \A i, j \in 1 .. Len(s) : s[i] = s[j] => i = j
  PROVE  /\ \A k \in 1 .. Len(s) : s[k] = e => Abstract!Without(s, e) = Removed(s, k)
         /\ (\A k \in 1 .. Len(s) : s[k] # e) => Abstract!Without(s, e) = s
  <1>1. DOMAIN s = 1 .. Len(s) /\ Len(s) \in Nat
    OBVIOUS
  <1>2. ASSUME NEW k \in 1 .. Len(s), s[k] = e PROVE Abstract!Without(s, e) = Removed(s, k)
    <2> DEFINE at == CHOOSE i \in DOMAIN s : s[i] = e
    <2>1. at = k
      <3>1. at \in DOMAIN s /\ s[at] = e
        BY <1>1, <1>2
      <3> HIDE DEF at
      <3> QED
        BY <1>1, <1>2, <3>1
    <2>2. Abstract!Without(s, e) = [i \in 1 .. Len(s) - 1 |-> s[IF i < at THEN i ELSE i + 1]]
      BY <1>1, <1>2 DEF Abstract!Without
    <2> HIDE DEF at
    <2>3. ASSUME NEW i \in 1 .. Len(s) - 1
          PROVE  s[IF i < k THEN i ELSE i + 1] = IF i < k THEN s[i] ELSE s[i + 1]
      OBVIOUS
    <2> QED
      BY <2>1, <2>2, <2>3 DEF Removed
  <1>3. ASSUME \A k \in 1 .. Len(s) : s[k] # e PROVE Abstract!Without(s, e) = s
    BY <1>1, <1>3 DEF Abstract!Without
  <1> QED
    BY <1>2, <1>3

\* The pointers answer list_empty and list_is_last for the lists that are there.
LEMMA ListsAnswer ==
  ASSUME NEW m, NEW S, NEW c, Lists(m, S, c), NEW h \in Heads
  PROVE  /\ m.next[h] = h <=> c[h] = <<>>
         /\ {e \in S : m.next[e] = h} = IF c[h] = <<>> THEN {} ELSE {c[h][Len(c[h])]}
  <1>1. /\ \A g \in Heads : c[g] \in Seq(Entries) /\ Len(c[g]) \in Nat
        /\ \A g \in Heads : \A k \in 1 .. Len(c[g]) : c[g][k] \in S
        /\ \A y \in S : \E g \in Heads : \E k \in 1 .. Len(c[g]) : c[g][k] = y
        /\ S \subseteq Entries /\ \A x \in Heads : x \notin Entries
    BY ListsEntries, NodesAssumption
  <1>2. \A g \in Heads : \A k \in 0 .. Len(c[g]) : m.next[Node(g, c[g], k)] = Node(g, c[g], k + 1)
    BY DEF Lists, Chain
  <1>3. c[h] = <<>> <=> Len(c[h]) = 0
    BY <1>1
  <1>4. m.next[h] = h <=> c[h] = <<>>
    <2>1. 0 \in 0 .. Len(c[h]) /\ Node(h, c[h], 0) = h
      BY <1>1 DEF Node
    <2>2. m.next[h] = Node(h, c[h], 1)
      BY <1>2, <2>1
    <2> QED
      BY <1>1, <1>3, <2>2 DEF Node
  <1>5. ASSUME NEW g \in Heads, NEW k \in 1 .. Len(c[g])
        PROVE  m.next[c[g][k]] = h <=> g = h /\ k = Len(c[h])
    <2>1. m.next[c[g][k]] = Node(g, c[g], k + 1)
      BY <1>1, <1>2 DEF Node
    <2>2. CASE k = Len(c[g])
      BY <1>1, <2>1, <2>2 DEF Node
    <2>3. CASE k # Len(c[g])
      <3>1. k + 1 \in 1 .. Len(c[g])
        BY <1>1, <2>3
      <3>2. m.next[c[g][k]] \in Entries
        BY <1>1, <2>1, <3>1 DEF Node
      <3> QED
        BY <1>1, <2>3, <3>2
    <2> QED
      BY <2>2, <2>3
  <1>6. CASE c[h] = <<>>
    <2>1. \A e \in S : m.next[e] # h
      BY <1>1, <1>3, <1>5, <1>6
    <2> QED
      BY <1>4, <1>6, <2>1
  <1>7. CASE c[h] # <<>>
    <2>1. Len(c[h]) \in 1 .. Len(c[h])
      BY <1>1, <1>3, <1>7
    <2>2. c[h][Len(c[h])] \in S /\ m.next[c[h][Len(c[h])]] = h
      BY <1>1, <1>5, <2>1
    <2>3. ASSUME NEW e \in S, m.next[e] = h PROVE e = c[h][Len(c[h])]
      BY <1>1, <1>5, <2>3
    <2> QED
      BY <1>4, <1>7, <2>2, <2>3
  <1> QED
    BY <1>6, <1>7

\* The lists less an entry, and with an entry in the place of another.
TakenFrom(c, e) == [g \in Heads |-> Abstract!Without(c[g], e)]
SwappedIn(c, e, x) ==
  [g \in Heads |-> [i \in DOMAIN c[g] |-> IF c[g][i] = e THEN x ELSE c[g][i]]]

\* Taking an entry out of the lists takes it out of the one it is in.
LEMMA TakenRemoves ==
  ASSUME NEW m, NEW S, NEW c, Lists(m, S, c), NEW h \in Heads, NEW k \in 1 .. Len(c[h]),
         NEW e, e = c[h][k]
  PROVE  TakenFrom(c, e) = [c EXCEPT ![h] = Removed(c[h], k)]
  <1>1. \A g \in Heads : c[g] \in Seq(Entries) /\ Len(c[g]) \in Nat
    BY ListsEntries
  <1>2. \A f, g \in Heads : \A i \in 1 .. Len(c[f]), j \in 1 .. Len(c[g]) :
          c[f][i] = c[g][j] => f = g /\ i = j
    BY DEF Lists, Disjoint
  <1>3. ASSUME NEW g \in Heads
        PROVE  Abstract!Without(c[g], e) = IF g = h THEN Removed(c[h], k) ELSE c[g]
    <2>1. c[g] \in Seq(Entries)
      BY <1>1
    <2>2. \A i, j \in 1 .. Len(c[g]) : c[g][i] = c[g][j] => i = j
      BY <1>2
    <2>3. CASE g = h
      BY <2>1, <2>2, <2>3, WithoutRemoves
    <2>4. CASE g # h
      <3>1. \A i \in 1 .. Len(c[g]) : c[g][i] # e
        BY <1>2, <2>4
      <3> QED
        BY <2>1, <2>2, <2>4, <3>1, WithoutRemoves
    <2> QED
      BY <2>3, <2>4
  <1>4. c \in [Heads -> Seq(Entries)]
    BY DEF Lists
  <1> QED
    BY <1>3, <1>4 DEF TakenFrom

\* Putting an entry in the place of another changes the list that one is in.
LEMMA SwappedReplaces ==
  ASSUME NEW m, NEW S, NEW c, Lists(m, S, c), NEW h \in Heads, NEW k \in 1 .. Len(c[h]),
         NEW e, e = c[h][k], NEW x
  PROVE  SwappedIn(c, e, x) = [c EXCEPT ![h] = Replaced(c[h], k, x)]
  <1>1. \A g \in Heads : c[g] \in Seq(Entries) /\ DOMAIN c[g] = 1 .. Len(c[g])
    BY ListsEntries
  <1>2. \A f, g \in Heads : \A i \in 1 .. Len(c[f]), j \in 1 .. Len(c[g]) :
          c[f][i] = c[g][j] => f = g /\ i = j
    BY DEF Lists, Disjoint
  <1>3. ASSUME NEW g \in Heads
        PROVE  [i \in DOMAIN c[g] |-> IF c[g][i] = e THEN x ELSE c[g][i]]
                 = IF g = h THEN Replaced(c[h], k, x) ELSE c[g]
    <2>1. CASE g = h
      <3>1. \A i \in 1 .. Len(c[g]) : c[g][i] = e <=> i = k
        BY <1>2, <2>1
      <3> QED
        BY <1>1, <2>1, <3>1 DEF Replaced
    <2>2. CASE g # h
      <3>1. \A i \in 1 .. Len(c[g]) : c[g][i] # e
        BY <1>2, <2>2
      <3>2. c[g] = [i \in 1 .. Len(c[g]) |-> c[g][i]]
        BY <1>1
      <3> QED
        BY <1>1, <2>2, <3>1, <3>2
    <2> QED
      BY <2>1, <2>2
  <1>4. c \in [Heads -> Seq(Entries)]
    BY DEF Lists
  <1> QED
    BY <1>3, <1>4 DEF SwappedIn

-----------------------------------------------------------------------------
(* The operations on the lists of the program                              *)

\* The lists that are in the memory of the program.
MemLists == [h \in Heads |-> Walk(mem, h)]

\* The inductive invariant behind the promises of ListOfEntries: the memory holds
\* lists, and the entries in them are the linked ones.
Good == IInv /\ Lists(mem, linked, MemLists)

\* The lists of a memory are what Walk finds in it.
LEMMA ListsFound ==
  ASSUME NEW m, NEW S, NEW c, Lists(m, S, c)
  PROVE  [h \in Heads |-> Walk(m, h)] = c
  <1>1. \A h \in Heads : Walk(m, h) = c[h]
    BY WalkFindsList
  <1>2. c \in [Heads -> Seq(Entries)]
    BY DEF Lists
  <1> QED
    BY <1>1, <1>2

\* A step that leaves the lists d behind leads to them.
LEMMA ListsFoundNext ==
  ASSUME NEW d, Lists(mem', linked', d)
  PROVE  MemLists' = d /\ Lists(mem', linked', MemLists')
  <1>1. [h \in Heads |-> Walk(mem', h)] = d
    BY ListsFound
  <1>2. MemLists' = d
    BY <1>1 DEF MemLists
  <1> QED
    BY <1>2

\* What the proofs of the operations start from.
LEMMA GoodFacts ==
  ASSUME Good
  PROVE  /\ mem \in Mem
         /\ RingOn(mem, Heads \cup linked)
         /\ Lists(mem, linked, MemLists)
         /\ linked \subseteq Entries
         /\ Abstract!Listed = linked
         /\ MemLists \in [Heads -> Seq(Entries)]
  <1>1. Lists(mem, linked, MemLists)
    BY DEF Good
  <1>2. Abstract!Listed = linked
    BY <1>1 DEF Abstract!Listed, Abstract!Elements, MemLists, Lists
  <1>3. mem \in Mem /\ linked \subseteq Entries /\ RingOn(mem, Heads \cup linked)
    BY DEF Good, IInv, TypeOK, Ring, InRing, Mem
  <1> QED
    BY <1>1, <1>2, <1>3 DEF Lists

\* list_add puts an entry first.
LEMMA AddPushes ==
  ASSUME Good, NEW e \in Entries, NEW h \in Heads, Add(e, h)
  PROVE  Lists(mem', linked', MemLists') /\ Abstract!Push(e, h)
  <1> DEFINE c == MemLists
             d == [c EXCEPT ![h] = Inserted(c[h], 0, e)]
  <1>1. /\ mem \in Mem /\ RingOn(mem, Heads \cup linked) /\ Lists(mem, linked, c)
        /\ Abstract!Listed = linked /\ c \in [Heads -> Seq(Entries)]
    BY GoodFacts
  <1>2. e \notin linked /\ linked' = linked \cup {e} /\ mem' = ListAdd(mem, e, h)
    BY DEF Add
  <1> HIDE DEF c
  <1>3. c[h] \in Seq(Entries) /\ 0 \in 0 .. Len(c[h]) /\ Node(h, c[h], 0) = h
    BY <1>1 DEF Node
  <1>4. Lists(AddBetween(mem, e, h, mem.next[h]), linked \cup {e}, d)
    BY <1>1, <1>2, <1>3, AddBetweenLists
  <1>5. Lists(mem', linked', d)
    BY <1>2, <1>4 DEF ListAdd
  <1>6. MemLists' = d /\ Lists(mem', linked', MemLists')
    BY <1>5, ListsFoundNext
  <1>7. <<e>> \o c[h] = Inserted(c[h], 0, e)
    BY <1>3, InsertedEnds
  <1> QED
    BY <1>1, <1>2, <1>6, <1>7 DEF Abstract!Push, MemLists, c

\* list_add_tail puts an entry last.
LEMMA AddTailAppends ==
  ASSUME Good, NEW e \in Entries, NEW h \in Heads, AddTail(e, h)
  PROVE  Lists(mem', linked', MemLists') /\ Abstract!Append1(e, h)
  <1> DEFINE c == MemLists
             d == [c EXCEPT ![h] = Inserted(c[h], Len(c[h]), e)]
             p == Node(h, c[h], Len(c[h]))
  <1>1. /\ mem \in Mem /\ RingOn(mem, Heads \cup linked) /\ Lists(mem, linked, c)
        /\ Abstract!Listed = linked /\ c \in [Heads -> Seq(Entries)]
    BY GoodFacts
  <1>2. e \notin linked /\ linked' = linked \cup {e} /\ mem' = ListAddTail(mem, e, h)
    BY DEF AddTail
  <1> HIDE DEF c
  <1>3. c[h] \in Seq(Entries) /\ Len(c[h]) \in 0 .. Len(c[h])
    BY <1>1
  <1>4. mem.next[p] = h /\ mem.prev[h] = p
    <2>1. Len(c[h]) \in 0 .. Len(c[h]) + 1
      BY <1>3
    <2>2. p \in Heads \cup linked
      BY <1>1, <2>1, NodesOfLists
    <2>3. mem.next[p] = Node(h, c[h], Len(c[h]) + 1)
      BY <1>1, <1>3 DEF Lists, Chain
    <2>4. Node(h, c[h], Len(c[h]) + 1) = h
      BY <1>3 DEF Node
    <2> QED
      BY <1>1, <2>2, <2>3, <2>4 DEF RingOn
  <1>5. Lists(AddBetween(mem, e, p, mem.next[p]), linked \cup {e}, d)
    BY <1>1, <1>2, <1>3, AddBetweenLists
  <1>6. Lists(mem', linked', d)
    BY <1>2, <1>4, <1>5 DEF ListAddTail
  <1>7. MemLists' = d /\ Lists(mem', linked', MemLists')
    BY <1>6, ListsFoundNext
  <1>8. Append(c[h], e) = Inserted(c[h], Len(c[h]), e)
    BY <1>3, InsertedEnds
  <1> QED
    BY <1>1, <1>2, <1>7, <1>8 DEF Abstract!Append1, MemLists, c

\* INIT_LIST_HEAD of a node outside the lists leaves them alone.
LEMMA InitListHeadLists ==
  ASSUME NEW m \in Mem, NEW S, NEW c, Lists(m, S, c), NEW x, x \notin Heads \cup S
  PROVE  Lists(InitListHead(m, x), S, c)
  <1>1. Heads \cup S \subseteq Nodes
    BY ListsEntries DEF Nodes
  <1>2. \A y \in Heads \cup S : InitListHead(m, x).next[y] = m.next[y]
    BY <1>1 DEF Mem, Pointers, InitListHead, SetNext, SetPrev
  <1> QED
    BY <1>2, Unchanged

\* list_del and list_del_init take the entry out.
LEMMA DelRemoves ==
  ASSUME Good, NEW e, mem' = ListDel(mem, e) \/ mem' = ListDelInit(mem, e),
         linked' = linked \ {e},
         NEW h \in Heads, NEW k \in 1 .. Len(MemLists[h]), e = MemLists[h][k]
  PROVE  /\ Lists(mem', linked', MemLists')
         /\ MemLists' = [MemLists EXCEPT ![h] = Removed(MemLists[h], k)]
         /\ Abstract!Remove(e)
  <1> DEFINE c == MemLists
             d == [c EXCEPT ![h] = Removed(c[h], k)]
             r == ListDel(mem, e)
  <1>1. /\ mem \in Mem /\ RingOn(mem, Heads \cup linked) /\ Lists(mem, linked, c)
        /\ Abstract!Listed = linked /\ c \in [Heads -> Seq(Entries)]
    BY GoodFacts
  <1>2. k \in 1 .. Len(c[h]) /\ e = c[h][k]
    OBVIOUS
  <1> HIDE DEF c
  <1>3. e \in linked /\ linked \subseteq Entries
    BY <1>1, <1>2, ListsEntries
  <1>4. Lists(r, linked \ {e}, d)
    BY <1>1, <1>2, ListDelLists
  <1>5. Lists(mem', linked', d)
    <2>1. CASE mem' = r
      BY <1>4, <2>1
    <2>2. CASE mem' = InitListHead(r, e)
      <3>1. Heads \cup linked \in SUBSET Nodes /\ e \in Heads \cup linked
        BY <1>3 DEF Nodes
      <3>2. r \in Mem
        BY <1>1, <3>1, ListDelRing
      <3>3. e \notin Heads \cup (linked \ {e})
        BY <1>3, NodesAssumption
      <3> HIDE DEF r, d
      <3> QED
        BY <1>4, <2>2, <3>2, <3>3, InitListHeadLists
    <2> QED
      BY <2>1, <2>2 DEF ListDelInit
  <1>6. MemLists' = d /\ Lists(mem', linked', MemLists')
    BY <1>5, ListsFoundNext
  <1>7. TakenFrom(c, e) = d
    <2>1. Lists(mem, linked, c)
      BY <1>1
    <2>2. k \in 1 .. Len(c[h])
      BY <1>2
    <2>3. e = c[h][k]
      BY <1>2
    <2> QED
      BY <2>1, <2>2, <2>3, TakenRemoves
  <1>8. Abstract!Taken(e) = d
    BY <1>2, <1>7 DEF Abstract!Taken, TakenFrom, MemLists, c
  <1> QED
    BY <1>1, <1>3, <1>6, <1>8 DEF Abstract!Remove, MemLists, c

\* list_move takes an entry to the front of a list, and list_move_tail to its end.
LEMMA MoveMoves ==
  ASSUME Good, NEW e, NEW f \in Heads, linked' = linked,
         NEW h \in Heads, NEW k \in 1 .. Len(MemLists[h]), e = MemLists[h][k]
  PROVE  /\ mem' = ListMove(mem, e, f) =>
              /\ Lists(mem', linked', MemLists')
              /\ f # h => MemLists'[h] = Removed(MemLists[h], k)
              /\ Abstract!MoveFront(e, f)
         /\ mem' = ListMoveTail(mem, e, f) =>
              /\ Lists(mem', linked', MemLists')
              /\ Abstract!MoveBack(e, f)
  <1> DEFINE c == MemLists
  <1>1. /\ mem \in Mem /\ RingOn(mem, Heads \cup linked) /\ Lists(mem, linked, c)
        /\ Abstract!Listed = linked /\ c \in [Heads -> Seq(Entries)]
    BY GoodFacts
  <1>2. k \in 1 .. Len(c[h]) /\ e = c[h][k]
    OBVIOUS
  <1> HIDE DEF c
  <1>3. e \in linked /\ linked \subseteq Entries
    BY <1>1, <1>2, ListsEntries
  <1>4. PICK d : d = [c EXCEPT ![h] = Removed(c[h], k)]
    OBVIOUS
  <1>5. /\ Lists(ListMove(mem, e, f), linked, [d EXCEPT ![f] = Inserted(d[f], 0, e)])
        /\ Lists(ListMoveTail(mem, e, f), linked, [d EXCEPT ![f] = Inserted(d[f], Len(d[f]), e)])
    BY <1>1, <1>2, <1>4, MoveLists
  <1>6. TakenFrom(c, e) = d
    <2>1. Lists(mem, linked, c)
      BY <1>1
    <2>2. k \in 1 .. Len(c[h])
      BY <1>2
    <2>3. e = c[h][k]
      BY <1>2
    <2>4. TakenFrom(c, e) = [c EXCEPT ![h] = Removed(c[h], k)]
      BY <2>1, <2>2, <2>3, TakenRemoves
    <2> QED
      BY <1>4, <2>4
  <1>7. Abstract!Taken(e) = d
    BY <1>2, <1>6 DEF Abstract!Taken, TakenFrom, MemLists, c
  <1>8. d \in [Heads -> Seq(Entries)]
    <2>1. c[h] \in Seq(Entries)
      BY <1>1
    <2>2. Removed(c[h], k) \in Seq(Entries)
      BY <1>2, <2>1, RemovedType
    <2> QED
      BY <1>1, <1>4, <2>2
  <1>9. /\ <<e>> \o d[f] = Inserted(d[f], 0, e)
        /\ Append(d[f], e) = Inserted(d[f], Len(d[f]), e)
    <2>1. d[f] \in Seq(Entries) /\ e \in Entries
      BY <1>3, <1>8
    <2> QED
      BY <2>1, InsertedEnds
  <1>10. ASSUME mem' = ListMove(mem, e, f)
         PROVE  /\ Lists(mem', linked', MemLists')
                /\ f # h => MemLists'[h] = Removed(MemLists[h], k)
                /\ Abstract!MoveFront(e, f)
    <2>1. Lists(mem', linked', [d EXCEPT ![f] = Inserted(d[f], 0, e)])
      BY <1>5, <1>10
    <2>2. /\ MemLists' = [d EXCEPT ![f] = Inserted(d[f], 0, e)]
          /\ Lists(mem', linked', MemLists')
      BY <2>1, ListsFoundNext
    <2>3. f # h => MemLists'[h] = Removed(MemLists[h], k)
      BY <1>1, <1>4, <1>8, <2>2 DEF c
    <2> QED
      BY <1>1, <1>3, <1>7, <1>9, <2>2, <2>3 DEF Abstract!MoveFront, MemLists
  <1>11. ASSUME mem' = ListMoveTail(mem, e, f)
         PROVE  Lists(mem', linked', MemLists') /\ Abstract!MoveBack(e, f)
    <2>1. Lists(mem', linked', [d EXCEPT ![f] = Inserted(d[f], Len(d[f]), e)])
      BY <1>5, <1>11
    <2>2. /\ MemLists' = [d EXCEPT ![f] = Inserted(d[f], Len(d[f]), e)]
          /\ Lists(mem', linked', MemLists')
      BY <2>1, ListsFoundNext
    <2> QED
      BY <1>1, <1>3, <1>7, <1>9, <2>2 DEF Abstract!MoveBack, MemLists
  <1> QED
    BY <1>10, <1>11

\* list_replace and list_replace_init put an entry in the place of another.
LEMMA ReplaceSwaps ==
  ASSUME Good, NEW e \in Entries, NEW x \in Entries, Replace(e, x) \/ ReplaceInit(e, x)
  PROVE  Lists(mem', linked', MemLists') /\ Abstract!Swap(e, x)
  <1> DEFINE c == MemLists
             r == ListReplace(mem, e, x)
             T == (linked \ {e}) \cup {x}
  <1>1. /\ mem \in Mem /\ RingOn(mem, Heads \cup linked) /\ Lists(mem, linked, c)
        /\ Abstract!Listed = linked /\ c \in [Heads -> Seq(Entries)] /\ linked \subseteq Entries
    BY GoodFacts
  <1>2. e \in linked /\ x \notin linked /\ linked' = T
    BY DEF Replace, ReplaceInit
  <1> HIDE DEF c
  <1>3. PICK h \in Heads : \E k \in 1 .. Len(c[h]) : c[h][k] = e
    BY <1>1, <1>2, ListsEntries
  <1>4. PICK k \in 1 .. Len(c[h]) : c[h][k] = e
    BY <1>3
  <1> DEFINE d == [c EXCEPT ![h] = Replaced(c[h], k, x)]
  <1>5. Lists(r, T, d)
    <2>1. /\ Lists(ListReplace(mem, c[h][k], x), (linked \ {c[h][k]}) \cup {x}, d)
      BY <1>1, <1>2, ListReplaceLists
    <2> QED
      BY <1>4, <2>1
  <1>6. Lists(mem', linked', d)
    <2>1. CASE mem' = r
      BY <1>2, <1>5, <2>1
    <2>2. CASE mem' = InitListHead(r, e)
      <3>1. /\ Heads \cup linked \in SUBSET Nodes /\ e \in Heads \cup linked
            /\ x \in Nodes \ (Heads \cup linked)
        BY <1>1, <1>2, NodesAssumption DEF Nodes
      <3>2. r \in Mem
        BY <1>1, <3>1, ListReplaceRing
      <3>3. e \notin Heads \cup T
        BY <1>2, NodesAssumption
      <3> HIDE DEF r, d, T
      <3> QED
        BY <1>2, <1>5, <2>2, <3>2, <3>3, InitListHeadLists
    <2> QED
      BY <2>1, <2>2 DEF Replace, ReplaceInit, ListReplaceInit
  <1>7. MemLists' = d /\ Lists(mem', linked', MemLists')
    BY <1>6, ListsFoundNext
  <1>8. SwappedIn(c, e, x) = d
    BY <1>1, <1>4, SwappedReplaces
  <1> QED
    BY <1>1, <1>2, <1>7, <1>8 DEF Abstract!Swap, SwappedIn, MemLists, c

\* list_replace_init hands a list to an empty head.
LEMMA ReplaceHeadTakesOver ==
  ASSUME Good, NEW g \in Heads, NEW h \in Heads, ReplaceHead(g, h)
  PROVE  Lists(mem', linked', MemLists') /\ Abstract!TakeOver(g, h)
  <1> DEFINE c == MemLists
             d == [c EXCEPT ![h] = c[g], ![g] = <<>>]
  <1>1. /\ mem \in Mem /\ RingOn(mem, Heads \cup linked) /\ Lists(mem, linked, c)
        /\ c \in [Heads -> Seq(Entries)]
    BY GoodFacts
  <1>2. g # h /\ mem.next[h] = h /\ mem' = ListReplaceInit(mem, g, h) /\ linked' = linked
    BY DEF ReplaceHead, ListEmpty
  <1> HIDE DEF c
  <1>3. c[h] = <<>> /\ Lists(ListReplaceInit(mem, g, h), linked, d)
    BY <1>1, <1>2, ReplaceHeadLists
  <1>4. Lists(mem', linked', d)
    BY <1>2, <1>3
  <1>5. MemLists' = d /\ Lists(mem', linked', MemLists')
    BY <1>4, ListsFoundNext
  <1> QED
    BY <1>1, <1>2, <1>3, <1>5 DEF Abstract!TakeOver, MemLists, c

\* An entry that is linked has a place in a list.
LEMMA LinkedAt ==
  ASSUME Good, NEW e \in linked
  PROVE  \E h \in Heads : \E k \in 1 .. Len(MemLists[h]) : MemLists[h][k] = e
  BY GoodFacts, ListsEntries

-----------------------------------------------------------------------------
(* The refinement                                                          *)

\* A step of ListOfEntries, whatever is answered after it.
AbstractStep ==
  \E e \in Entries, h \in Heads :
     \/ Abstract!Push(e, h) \/ Abstract!Append1(e, h) \/ Abstract!Remove(e)
     \/ Abstract!MoveFront(e, h) \/ Abstract!MoveBack(e, h)
     \/ \E new \in Entries : Abstract!Swap(e, new)
     \/ \E g \in Heads : Abstract!TakeOver(g, h)

\* What every call of list.c does to the sequences, and that sequences are what it
\* leaves behind.
LEMMA OperationLists ==
  ASSUME Good, NEW e \in Entries, NEW h \in Heads
  PROVE  /\ Add(e, h) => Lists(mem', linked', MemLists') /\ Abstract!Push(e, h)
         /\ AddTail(e, h) => Lists(mem', linked', MemLists') /\ Abstract!Append1(e, h)
         /\ Del(e) \/ DelInit(e) => Lists(mem', linked', MemLists') /\ Abstract!Remove(e)
         /\ Move(e, h) => Lists(mem', linked', MemLists') /\ Abstract!MoveFront(e, h)
         /\ MoveTail(e, h) => Lists(mem', linked', MemLists') /\ Abstract!MoveBack(e, h)
         /\ \A x \in Entries : Replace(e, x) \/ ReplaceInit(e, x)
              => Lists(mem', linked', MemLists') /\ Abstract!Swap(e, x)
         /\ \A g \in Heads : ReplaceHead(g, h)
              => Lists(mem', linked', MemLists') /\ Abstract!TakeOver(g, h)
  <1>1. Add(e, h) => Lists(mem', linked', MemLists') /\ Abstract!Push(e, h)
    BY AddPushes
  <1>2. AddTail(e, h) => Lists(mem', linked', MemLists') /\ Abstract!Append1(e, h)
    BY AddTailAppends
  <1>3. ASSUME e \in linked
        PROVE  \E f \in Heads : \E k \in 1 .. Len(MemLists[f]) : e = MemLists[f][k]
    BY <1>3, LinkedAt
  <1>4. ASSUME Del(e) \/ DelInit(e)
        PROVE  Lists(mem', linked', MemLists') /\ Abstract!Remove(e)
    <2>1. /\ e \in linked /\ linked' = linked \ {e}
          /\ mem' = ListDel(mem, e) \/ mem' = ListDelInit(mem, e)
      BY <1>4 DEF Del, DelInit
    <2>2. PICK f \in Heads : \E k \in 1 .. Len(MemLists[f]) : e = MemLists[f][k]
      BY <1>3, <2>1
    <2>3. PICK k \in 1 .. Len(MemLists[f]) : e = MemLists[f][k]
      BY <2>2
    <2> QED
      BY <2>1, <2>3, DelRemoves
  <1>5. ASSUME Move(e, h) \/ MoveTail(e, h)
        PROVE  /\ Lists(mem', linked', MemLists')
               /\ Move(e, h) => Abstract!MoveFront(e, h)
               /\ MoveTail(e, h) => Abstract!MoveBack(e, h)
    <2>1. /\ e \in linked /\ linked' = linked
          /\ Move(e, h) => mem' = ListMove(mem, e, h)
          /\ MoveTail(e, h) => mem' = ListMoveTail(mem, e, h)
      BY <1>5 DEF Move, MoveTail
    <2>2. PICK f \in Heads : \E k \in 1 .. Len(MemLists[f]) : e = MemLists[f][k]
      BY <1>3, <2>1
    <2>3. PICK k \in 1 .. Len(MemLists[f]) : e = MemLists[f][k]
      BY <2>2
    <2> QED
      BY <1>5, <2>1, <2>3, MoveMoves
  <1>6. \A x \in Entries : Replace(e, x) \/ ReplaceInit(e, x)
          => Lists(mem', linked', MemLists') /\ Abstract!Swap(e, x)
    BY ReplaceSwaps
  <1>7. \A g \in Heads : ReplaceHead(g, h)
          => Lists(mem', linked', MemLists') /\ Abstract!TakeOver(g, h)
    BY ReplaceHeadTakesOver
  <1> QED
    BY <1>1, <1>2, <1>4, <1>5, <1>6, <1>7

\* What the body of a loop does is a step of ListOfEntries, too.
LEMMA BodyLists ==
  ASSUME Good, NEW e, Body(e), ~ UNCHANGED <<mem, linked>>
  PROVE  Lists(mem', linked', MemLists') /\ AbstractStep
  <1>1. e \in linked /\ e \in Entries
    BY GoodFacts DEF Body
  <1>2. PICK h \in Heads : \E k \in 1 .. Len(MemLists[h]) : MemLists[h][k] = e
    BY <1>1, LinkedAt
  <1>3. PICK k \in 1 .. Len(MemLists[h]) : e = MemLists[h][k]
    BY <1>2
  <1>4. ASSUME mem' = ListDel(mem, e) \/ mem' = ListDelInit(mem, e), linked' = linked \ {e}
        PROVE  Lists(mem', linked', MemLists') /\ AbstractStep
    <2>1. Lists(mem', linked', MemLists') /\ Abstract!Remove(e)
      BY <1>3, <1>4, DelRemoves
    <2> QED
      BY <1>1, <1>2, <2>1 DEF AbstractStep
  <1>5. ASSUME NEW f \in Heads, mem' = ListMove(mem, e, f), linked' = linked
        PROVE  Lists(mem', linked', MemLists') /\ AbstractStep
    <2>1. Lists(mem', linked', MemLists') /\ Abstract!MoveFront(e, f)
      BY <1>3, <1>5, MoveMoves
    <2> QED
      BY <1>1, <2>1 DEF AbstractStep
  <1> QED
    BY <1>4, <1>5 DEF Body

\* Every step of the program is a step of ListOfEntries or leaves the lists alone.
LEMMA NextLists ==
  ASSUME Good, [Next]_vars
  PROVE  /\ Lists(mem', linked', MemLists')
         /\ AbstractStep \/ UNCHANGED <<mem, linked>>
  <1>1. ASSUME UNCHANGED <<mem, linked>>
        PROVE  Lists(mem', linked', MemLists')
    BY <1>1, GoodFacts DEF MemLists
  <1>2. CASE Operation
    <2>1. PICK e \in Entries, h \in Heads :
            \/ Add(e, h) \/ AddTail(e, h) \/ Del(e) \/ DelInit(e)
            \/ Move(e, h) \/ MoveTail(e, h)
            \/ \E x \in Entries : Replace(e, x) \/ ReplaceInit(e, x)
            \/ \E g \in Heads : ReplaceHead(g, h)
      BY <1>2 DEF Operation
    <2> QED
      BY <2>1, OperationLists DEF AbstractStep
  <1>3. CASE Iterate
    BY <1>1, <1>3, BodyLists DEF Iterate
  <1>4. CASE End \/ (\E macro \in Macros, h \in Heads : Begin(macro, h)) \/ UNCHANGED vars
    BY <1>1, <1>4 DEF End, Begin, vars
  <1> QED
    BY <1>2, <1>3, <1>4 DEF Next, Loop

\* The program starts with empty lists.
LEMMA InitGood == Init => Good /\ MemLists = [h \in Heads |-> <<>>]
  <1> SUFFICES ASSUME Init PROVE Good /\ MemLists = [h \in Heads |-> <<>>]
    OBVIOUS
  <1> DEFINE c == [h \in Heads |-> <<>>]
  <1>1. IInv
    BY InitIInv
  <1>2. linked = {} /\ \A h \in Heads : mem.next[h] = h
    BY DEF Init, Empty, Nodes
  <1>3. /\ \A h \in Heads : c[h] = <<>> /\ Len(c[h]) = 0
        /\ c \in [Heads -> Seq(Entries)]
    OBVIOUS
  <1> HIDE DEF c
  <1>4. Disjoint(c)
    BY <1>3 DEF Disjoint
  <1>5. \A h \in Heads : Chain(mem, h, c[h])
    BY <1>2, <1>3 DEF Chain, Node
  <1>6. linked = UNION {{c[h][k] : k \in 1 .. Len(c[h])} : h \in Heads}
    BY <1>2, <1>3
  <1>7. Lists(mem, linked, c)
    BY <1>3, <1>4, <1>5, <1>6 DEF Lists
  <1>8. MemLists = c
    BY <1>7, ListsFound DEF MemLists
  <1> QED
    BY <1>1, <1>7, <1>8 DEF Good, c

\* list_empty and list_is_last tell the truth.
LEMMA GoodAnswers == Good => Abstract!Answers
  <1> SUFFICES ASSUME Good PROVE Abstract!Answers
    OBVIOUS
  <1>1. Lists(mem, linked, MemLists)
    BY GoodFacts
  <1>2. ASSUME NEW h \in Heads
        PROVE  /\ mem.next[h] = h <=> MemLists[h] = <<>>
               /\ {e \in linked : mem.next[e] = h}
                    = IF MemLists[h] = <<>> THEN {} ELSE {MemLists[h][Len(MemLists[h])]}
    BY <1>1, ListsAnswer
  <1> QED
    BY <1>2 DEF Abstract!Answers, ListEmpty, ListIsLast, MemLists

\* The invariant holds in every reachable state.
LEMMA GoodInvariance == Spec => []Good
  <1>1. Init => Good
    BY InitGood
  <1>2. Good /\ [Next]_vars => Good'
    <2>1. Good => IInv
      BY DEF Good
    <2> QED
      BY <2>1, NextIInv, NextLists DEF Good
  <1> QED
    BY <1>1, <1>2, PTL DEF Spec

\* The pointers of list.c implement the sequences of ListOfEntries: every call, and
\* every iteration of a loop, does to them what one of its operations does, and
\* list_empty and list_is_last answer for the sequences.
THEOREM ListsImplemented == Spec => ImplementsLists
  <1>1. Init => Abstract!Init
    BY InitGood, GoodAnswers DEF Abstract!Init, MemLists
  <1>2. Good /\ Good' /\ [Next]_vars
          => [Abstract!Next]_<<MemLists, {h \in Heads : ListEmpty(mem, h)},
                               [h \in Heads |-> {e \in linked : ListIsLast(mem, e, h)}]>>
    <2>1. Good' => Abstract!Answers'
      BY GoodAnswers, PTL
    <2>2. Good /\ [Next]_vars => AbstractStep \/ UNCHANGED <<mem, linked>>
      BY NextLists
    <2>3. AbstractStep /\ Abstract!Answers' => Abstract!Next
      BY DEF AbstractStep, Abstract!Next
    <2>4. UNCHANGED <<mem, linked>>
            => UNCHANGED <<MemLists, {h \in Heads : ListEmpty(mem, h)},
                           [h \in Heads |-> {e \in linked : ListIsLast(mem, e, h)}]>>
      BY DEF MemLists, ListEmpty, ListIsLast
    <2> QED
      BY <2>1, <2>2, <2>3, <2>4
  <1> QED
    BY <1>1, <1>2, GoodInvariance, PTL DEF Spec, ImplementsLists, Abstract!Spec, MemLists

\* list_add puts an entry first and list_add_tail last, the moves likewise, and a
\* replaced entry or head leaves the order of the others alone, in every state.
THEOREM OperationsAgreeHolds == Spec => OperationsAgree
  <1>1. Good /\ [Next]_vars =>
          [\A e \in Entries, h \in Heads :
             /\ Add(e, h) => Abstract!Push(e, h)
             /\ AddTail(e, h) => Abstract!Append1(e, h)
             /\ Del(e) \/ DelInit(e) => Abstract!Remove(e)
             /\ Move(e, h) => Abstract!MoveFront(e, h)
             /\ MoveTail(e, h) => Abstract!MoveBack(e, h)
             /\ \A x \in Entries : Replace(e, x) \/ ReplaceInit(e, x) => Abstract!Swap(e, x)
             /\ \A g \in Heads : ReplaceHead(g, h) => Abstract!TakeOver(g, h)]_vars
    BY OperationLists
  <1> QED
    BY <1>1, GoodInvariance, PTL DEF Spec, OperationsAgree

-----------------------------------------------------------------------------
(* The loops                                                               *)

Forward == {"for_each", "for_each_safe"}

\* The j-th of the last r entries of a list that a loop of this direction meets.
Ahead(L, macro, r, j) == IF macro \in Forward THEN L[Len(L) - r + j] ELSE L[r + 1 - j]

\* The records of loops.
Loops == [macro : Macros, head : Heads, pos : Nodes, n : Nodes \cup {Poison},
          visited : Seq(Entries), plan : Seq(Entries)]

\* A loop of this record, over the list L, has visited the first k entries of its
\* plan, and the rest of the plan are the last r entries it meets in L; it is at
\* the first of them, or back at the head.
FollowsPlan(it, m, L) ==
  /\ it \in Loops
  /\ Len(it.plan) <= Cardinality(Entries)
  /\ Len(it.plan) - Len(it.visited) \in 0 .. Len(L)
  /\ \A j \in 1 .. Len(it.visited) : it.visited[j] = it.plan[j]
  /\ \A j \in 1 .. Len(it.plan) - Len(it.visited) :
       it.plan[Len(it.visited) + j] = Ahead(L, it.macro, Len(it.plan) - Len(it.visited), j)
  /\ it.pos = IF Len(it.visited) = Len(it.plan) THEN it.head ELSE it.plan[Len(it.visited) + 1]
  /\ it.n = Link(m, it.macro)[it.pos]

\* The inductive invariant behind VisitsPlan.
Following == iter # NoIter => FollowsPlan(iter, mem, MemLists[iter.head])

\* In both directions a node of a list leads to its neighbour.
ChainBoth(m, h, s) ==
  /\ \A k \in 0 .. Len(s) : m.next[Node(h, s, k)] = Node(h, s, k + 1)
  /\ \A k \in 1 .. Len(s) + 1 : m.prev[Node(h, s, k)] = Node(h, s, k - 1)

\* A ring of lists can be walked backwards, too.
LEMMA Neighbours ==
  ASSUME NEW m, NEW S, NEW c, Lists(m, S, c), RingOn(m, Heads \cup S), NEW h \in Heads
  PROVE  ChainBoth(m, h, c[h])
  <1>1. \A k \in 0 .. Len(c[h]) : m.next[Node(h, c[h], k)] = Node(h, c[h], k + 1)
    BY DEF Lists, Chain
  <1>2. ASSUME NEW k \in 1 .. Len(c[h]) + 1
        PROVE  m.prev[Node(h, c[h], k)] = Node(h, c[h], k - 1)
    <2>1. Len(c[h]) \in Nat
      BY ListsEntries
    <2>2. k - 1 \in 0 .. Len(c[h]) /\ k - 1 \in 0 .. Len(c[h]) + 1 /\ k = (k - 1) + 1
      BY <2>1
    <2>3. m.next[Node(h, c[h], k - 1)] = Node(h, c[h], k)
      BY <1>1, <2>2
    <2>4. Node(h, c[h], k - 1) \in Heads \cup S
      BY <2>2, NodesOfLists
    <2> QED
      BY <2>3, <2>4 DEF RingOn
  <1> QED
    BY <1>1, <1>2 DEF ChainBoth

\* Where a loop goes from the next entry of its plan: to the one after it, or
\* back to the head.
LEMMA NextInPlan ==
  ASSUME Good, NEW it, FollowsPlan(it, mem, MemLists[it.head]), it.pos # it.head
  PROVE  LET k == Len(it.visited)
             r == Len(it.plan) - k
             L == MemLists[it.head]
             q == IF it.macro \in Forward THEN Len(L) - r + 1 ELSE r
         IN  /\ r \in 1 .. Len(L) /\ q \in 1 .. Len(L)
             /\ k + 1 \in 1 .. Len(it.plan)
             /\ it.pos = it.plan[k + 1] /\ it.pos = L[q]
             /\ Link(mem, it.macro)[it.pos] = IF r = 1 THEN it.head ELSE it.plan[k + 2]
  <1>1. PICK h \in Heads : h = it.head
    BY DEF FollowsPlan, Loops
  <1>2. PICK L : L = MemLists[h]
    OBVIOUS
  <1>3. PICK k \in Nat : k = Len(it.visited)
    BY DEF FollowsPlan, Loops
  <1>4. PICK p \in Seq(Entries) : p = it.plan
    BY DEF FollowsPlan, Loops
  <1>5. L \in Seq(Entries) /\ Len(L) \in Nat
    BY <1>2, GoodFacts
  <1>6. PICK r \in 0 .. Len(L) : r = Len(p) - k
    <2>1. Len(p) - k \in 0 .. Len(L)
      BY <1>1, <1>2, <1>3, <1>4 DEF FollowsPlan
    <2> QED
      BY <2>1
  <1>7. r # 0
    BY <1>3, <1>4, <1>5, <1>6 DEF FollowsPlan
  <1> DEFINE q == IF it.macro \in Forward THEN Len(L) - r + 1 ELSE r
  <1>8. r \in 1 .. Len(L) /\ q \in 1 .. Len(L) /\ k + 1 \in 1 .. Len(p)
    BY <1>3, <1>4, <1>5, <1>6, <1>7
  <1>9. \A j \in 1 .. r : p[k + j] = Ahead(L, it.macro, r, j)
    BY <1>1, <1>2, <1>3, <1>4, <1>6 DEF FollowsPlan
  <1>10. it.pos = p[k + 1] /\ it.pos = L[q]
    <2>1. it.pos = p[k + 1]
      BY <1>3, <1>4, <1>5, <1>6, <1>7 DEF FollowsPlan
    <2>2. p[k + 1] = Ahead(L, it.macro, r, 1)
      BY <1>8, <1>9
    <2> QED
      BY <1>5, <1>8, <2>1, <2>2 DEF Ahead
  <1>11. /\ \A i \in 0 .. Len(L) : mem.next[Node(h, L, i)] = Node(h, L, i + 1)
         /\ \A i \in 1 .. Len(L) + 1 : mem.prev[Node(h, L, i)] = Node(h, L, i - 1)
    <2>1. ChainBoth(mem, h, MemLists[h])
      BY GoodFacts, Neighbours
    <2> QED
      BY <1>2, <2>1 DEF ChainBoth
  <1>12. Node(h, L, q) = it.pos
    BY <1>8, <1>10 DEF Node
  <1>13. Link(mem, it.macro)[it.pos] = IF r = 1 THEN h ELSE p[k + 2]
    <2>1. CASE it.macro \in Forward
      <3>1. Link(mem, it.macro)[it.pos] = Node(h, L, q + 1)
        BY <1>5, <1>8, <1>11, <1>12, <2>1 DEF Link, Forward
      <3>2. CASE r = 1
        BY <1>5, <2>1, <3>1, <3>2 DEF Node
      <3>3. CASE r # 1
        <4>1. 2 \in 1 .. r /\ q + 1 \in 1 .. Len(L) /\ q + 1 = Len(L) - r + 2
          BY <1>5, <1>8, <2>1, <3>3
        <4>2. p[k + 2] = L[Len(L) - r + 2]
          BY <1>9, <2>1, <4>1 DEF Ahead
        <4> QED
          BY <3>1, <3>3, <4>1, <4>2 DEF Node
      <3> QED
        BY <3>2, <3>3
    <2>2. CASE it.macro \notin Forward
      <3>1. Link(mem, it.macro)[it.pos] = Node(h, L, r - 1)
        BY <1>5, <1>8, <1>11, <1>12, <2>2 DEF Link, Forward
      <3>2. CASE r = 1
        BY <1>5, <2>2, <3>1, <3>2 DEF Node
      <3>3. CASE r # 1
        <4>1. 2 \in 1 .. r /\ r - 1 \in 1 .. Len(L) /\ r + 1 - 2 = r - 1
          BY <1>5, <1>8, <3>3
        <4>2. p[k + 2] = L[r - 1]
          BY <1>9, <2>2, <4>1 DEF Ahead
        <4> QED
          BY <3>1, <3>3, <4>1, <4>2 DEF Node
      <3> QED
        BY <3>2, <3>3
    <2> QED
      BY <2>1, <2>2
  <1> QED
    BY <1>1, <1>2, <1>3, <1>4, <1>6, <1>8, <1>10, <1>13

\* What the body may do to the list of the loop: nothing, or take out the entry
\* the loop is at, which changes mem only in the safe macros.
LEMMA BodyRemoves ==
  ASSUME Good, NEW h \in Heads, h = iter.head, NEW q \in 1 .. Len(MemLists[h]),
         Body(MemLists[h][q])
  PROVE  /\ MemLists'[h] = MemLists[h] \/ MemLists'[h] = Removed(MemLists[h], q)
         /\ iter.macro \notin Safe => UNCHANGED mem
  <1> DEFINE e == MemLists[h][q]
  <1>1. MemLists \in [Heads -> Seq(Entries)]
    BY GoodFacts
  <1>2. e = MemLists[h][q]
    OBVIOUS
  <1> HIDE DEF e
  <1>3. CASE UNCHANGED <<mem, linked>>
    BY <1>3 DEF MemLists
  <1>4. ASSUME mem' = ListDel(mem, e) \/ mem' = ListDelInit(mem, e), linked' = linked \ {e}
        PROVE  MemLists'[h] = Removed(MemLists[h], q)
    <2>1. MemLists' = [MemLists EXCEPT ![h] = Removed(MemLists[h], q)]
      BY <1>2, <1>4, DelRemoves
    <2> QED
      BY <1>1, <2>1
  <1>5. ASSUME NEW f \in Heads \ {h}, mem' = ListMove(mem, e, f), linked' = linked
        PROVE  MemLists'[h] = Removed(MemLists[h], q)
    BY <1>2, <1>5, MoveMoves
  <1> QED
    BY <1>2, <1>3, <1>4, <1>5 DEF Body

\* What is ahead in a list is ahead of a loop when the entry it was at is gone.
LEMMA AheadOfRemoved ==
  ASSUME NEW L \in Seq(Entries), NEW macro, NEW r \in 1 .. Len(L),
         NEW q, q = IF macro \in Forward THEN Len(L) - r + 1 ELSE r,
         NEW M, M = L \/ M = Removed(L, q)
  PROVE  /\ r - 1 \in 0 .. Len(M)
         /\ \A j \in 1 .. r - 1 : Ahead(M, macro, r - 1, j) = Ahead(L, macro, r, j + 1)
  <1>1. Len(L) \in Nat /\ q \in 1 .. Len(L)
    OBVIOUS
  <1>2. CASE M = L
    BY <1>1, <1>2 DEF Ahead
  <1>3. CASE M = Removed(L, q)
    <2>1. Len(M) = Len(L) - 1
      BY <1>1, <1>3, RemovedType
    <2>2. ASSUME NEW j \in 1 .. r - 1
          PROVE  Ahead(M, macro, r - 1, j) = Ahead(L, macro, r, j + 1)
      <3>1. CASE macro \in Forward
        <4>1. /\ Len(M) - (r - 1) + j = Len(L) - r + j /\ Len(L) - r + j \in 1 .. Len(L) - 1
              /\ ~ (Len(L) - r + j < q)
          BY <1>1, <2>1, <3>1
        <4>2. M[Len(L) - r + j] = L[Len(L) - r + j + 1]
          BY <1>3, <4>1 DEF Removed
        <4>3. Len(L) - r + j + 1 = Len(L) - r + (j + 1)
          BY <1>1
        <4> QED
          BY <3>1, <4>1, <4>2, <4>3 DEF Ahead
      <3>2. CASE macro \notin Forward
        <4>1. /\ (r - 1) + 1 - j = r - j /\ r - j \in 1 .. Len(L) - 1 /\ r - j < q
              /\ r + 1 - (j + 1) = r - j
          BY <1>1, <3>2
        <4>2. M[r - j] = L[r - j]
          BY <1>3, <4>1 DEF Removed
        <4> QED
          BY <3>2, <4>1, <4>2 DEF Ahead
      <3> QED
        BY <3>1, <3>2
    <2>3. r - 1 \in 0 .. Len(M)
      BY <1>1, <2>1
    <2> QED
      BY <2>2, <2>3
  <1> QED
    BY <1>2, <1>3

\* An iteration takes a loop to the next entry of its plan.
LEMMA IterateFollows ==
  ASSUME Good, Following, Iterate, Good'
  PROVE  Following'
  <1>1. FollowsPlan(iter, mem, MemLists[iter.head]) /\ iter \in Loops
    BY DEF Following, FollowsPlan, Iterate
  <1>2. iter.pos # iter.head /\ Body(iter.pos)
    BY DEF Iterate
  <1>3. PICK h \in Heads : h = iter.head
    BY <1>1 DEF Loops
  <1>4. PICK L \in Seq(Entries) : L = MemLists[h]
    BY GoodFacts
  <1>5. PICK k \in Nat : k = Len(iter.visited)
    BY <1>1 DEF Loops
  <1>6. PICK p \in Seq(Entries) : p = iter.plan
    BY <1>1 DEF Loops
  <1> DEFINE r == Len(p) - k
             q == IF iter.macro \in Forward THEN Len(L) - r + 1 ELSE r
             link == Link(mem', iter.macro)
             pos == IF iter.macro \in Safe THEN iter.n ELSE link[iter.pos]
  <1>7. /\ r \in 1 .. Len(L) /\ q \in 1 .. Len(L) /\ k + 1 \in 1 .. Len(p)
        /\ iter.pos = p[k + 1] /\ iter.pos = L[q]
        /\ Link(mem, iter.macro)[iter.pos] = IF r = 1 THEN h ELSE p[k + 2]
    BY <1>1, <1>2, <1>3, <1>4, <1>5, <1>6, NextInPlan
  <1>8. /\ MemLists'[h] = L \/ MemLists'[h] = Removed(L, q)
        /\ iter.macro \notin Safe => UNCHANGED mem
    BY <1>2, <1>3, <1>4, <1>7, BodyRemoves
  <1>9. pos = IF r = 1 THEN h ELSE p[k + 2]
    <2>1. iter.n = Link(mem, iter.macro)[iter.pos]
      BY <1>1 DEF FollowsPlan
    <2> QED
      BY <1>7, <1>8, <2>1 DEF Link
  <1>10. iter' = [iter EXCEPT !.pos = pos, !.n = link[pos], !.visited = Visit(iter.pos)]
    BY DEF Iterate
  <1>11. Visit(iter.pos) = Append(iter.visited, iter.pos)
    <2>1. k < Len(p) /\ Len(p) <= Cardinality(Entries)
      BY <1>1, <1>5, <1>6, <1>7 DEF FollowsPlan
    <2>2. Cardinality(Entries) \in Nat
      BY GoodFacts, LengthBound
    <2> QED
      BY <1>5, <2>1, <2>2 DEF Visit
  <1>12. /\ Len(p) <= Cardinality(Entries)
         /\ \A j \in 1 .. k : iter.visited[j] = p[j]
         /\ \A j \in 1 .. r : p[k + j] = Ahead(L, iter.macro, r, j)
    BY <1>1, <1>3, <1>4, <1>5, <1>6 DEF FollowsPlan
  <1> HIDE DEF pos, link
  <1>13. pos \in Heads \cup Entries
    BY <1>5, <1>6, <1>7, <1>9
  <1>14. link[pos] \in Nodes \cup {Poison}
    <2>1. mem' \in [next : Pointers, prev : Pointers]
      BY DEF Good, IInv, TypeOK
    <2> QED
      BY <1>13, <2>1 DEF link, Link, Pointers, Nodes
  <1>15. /\ iter'.macro = iter.macro /\ iter'.head = h /\ iter'.plan = p
         /\ iter'.pos = pos /\ iter'.n = link[pos]
         /\ iter'.visited = Append(iter.visited, iter.pos)
         /\ iter.visited \in Seq(Entries) /\ iter.pos \in Entries
         /\ iter' \in Loops
    <2>1. iter.pos \in Entries
      <3>1. k + 1 \in 1 .. Len(p) /\ iter.pos = p[k + 1]
        BY <1>7
      <3> HIDE DEF r, q
      <3> QED
        BY <3>1
    <2>2. iter.visited \in Seq(Entries)
      BY <1>1 DEF Loops
    <2>3. Append(iter.visited, iter.pos) \in Seq(Entries)
      BY <2>1, <2>2
    <2> QED
      BY <1>1, <1>3, <1>6, <1>10, <1>11, <1>13, <1>14, <2>1, <2>2, <2>3 DEF Loops, Nodes
  <1>16. PICK M : M = MemLists'[h]
    OBVIOUS
  <1>17. /\ r - 1 \in 0 .. Len(M)
         /\ \A j \in 1 .. r - 1 : Ahead(M, iter.macro, r - 1, j) = Ahead(L, iter.macro, r, j + 1)
    <2>1. r \in 1 .. Len(L)
      BY <1>7
    <2> HIDE DEF r
    <2>2. q = IF iter.macro \in Forward THEN Len(L) - r + 1 ELSE r
      OBVIOUS
    <2>3. M = L \/ M = Removed(L, q)
      BY <1>8, <1>16
    <2> HIDE DEF q
    <2> QED
      BY <2>1, <2>2, <2>3, AheadOfRemoved
  <1>18. PICK v \in Seq(Entries) : v = iter'.visited
    BY <1>15 DEF Loops
  <1>19. /\ Len(v) = k + 1 /\ v[k + 1] = p[k + 1]
         /\ \A j \in 1 .. k : v[j] = p[j]
    BY <1>5, <1>7, <1>12, <1>15, <1>18
  <1>20. Len(p) - Len(v) = r - 1 /\ Len(p) \in Nat
    BY <1>5, <1>6, <1>19
  <1>21. \A j \in 1 .. Len(v) : v[j] = p[j]
    BY <1>5, <1>19
  <1>22. \A j \in 1 .. Len(p) - Len(v) :
           p[Len(v) + j] = Ahead(M, iter.macro, Len(p) - Len(v), j)
    <2> SUFFICES ASSUME NEW j \in 1 .. r - 1
                 PROVE  p[k + 1 + j] = Ahead(M, iter.macro, r - 1, j)
      BY <1>19, <1>20
    <2>1. j + 1 \in 1 .. r /\ k + (j + 1) = k + 1 + j
      <3>1. r \in 1 .. Len(L)
        BY <1>7
      <3> HIDE DEF r, q
      <3> QED
        BY <3>1
    <2>2. p[k + (j + 1)] = Ahead(L, iter.macro, r, j + 1)
      BY <1>12, <2>1
    <2> QED
      BY <1>17, <2>1, <2>2
  <1>23. pos = IF Len(v) = Len(p) THEN h ELSE p[Len(v) + 1]
    BY <1>5, <1>6, <1>7, <1>9, <1>19
  <1>24. FollowsPlan(iter', mem', M)
    BY <1>12, <1>15, <1>17, <1>18, <1>20, <1>21, <1>22, <1>23 DEF FollowsPlan, link
  <1> QED
    BY <1>15, <1>16, <1>24 DEF Following

\* A loop that begins has its whole plan ahead.
LEMMA BeginFollows ==
  ASSUME Good, NEW macro \in Macros, NEW h \in Heads, Begin(macro, h)
  PROVE  Following'
  <1>1. PICK L \in Seq(Entries) : L = MemLists[h]
    BY GoodFacts
  <1>2. Walk(mem, h) = L
    BY <1>1 DEF MemLists
  <1>3. PICK pos : pos = Link(mem, macro)[h]
    OBVIOUS
  <1> DEFINE plan == IF macro \in Forward THEN L ELSE Reversed(L)
  <1>4. /\ iter' = [macro |-> macro, head |-> h, pos |-> pos, n |-> Link(mem, macro)[pos],
                    visited |-> <<>>, plan |-> plan]
        /\ mem' = mem
    BY <1>2, <1>3 DEF Begin, Forward
  <1>5. Len(L) \in Nat
    OBVIOUS
  <1>6. plan \in Seq(Entries) /\ Len(plan) = Len(L)
    <2>1. Reversed(L) \in [1 .. Len(L) -> Entries]
      BY DEF Reversed
    <2>2. Reversed(L) \in Seq(Entries) /\ Len(Reversed(L)) = Len(L)
      BY <1>5, <2>1
    <2> QED
      BY <2>2
  <1>7. ASSUME NEW j \in 1 .. Len(L) PROVE plan[j] = Ahead(L, macro, Len(L), j)
    <2>1. CASE macro \in Forward
      BY <1>5, <2>1 DEF Ahead
    <2>2. CASE macro \notin Forward
      BY <1>5, <2>2 DEF Ahead, Reversed
    <2> QED
      BY <2>1, <2>2
  <1>8. Len(L) <= Cardinality(Entries)
    BY <1>1, GoodFacts, LengthBound
  <1>9. pos = IF Len(L) = 0 THEN h ELSE plan[1]
    <2>1. ChainBoth(mem, h, L)
      BY <1>1, GoodFacts, Neighbours
    <2>2. CASE macro \in Forward
      <3>1. Node(h, L, 0) = h /\ 0 \in 0 .. Len(L)
        BY <1>5 DEF Node
      <3>2. mem.next[h] = Node(h, L, 1)
        BY <1>5, <2>1, <3>1 DEF ChainBoth
      <3>3. pos = Node(h, L, 1)
        BY <1>3, <2>2, <3>2 DEF Link, Forward
      <3> QED
        BY <1>5, <2>2, <3>3 DEF Node
    <2>3. CASE macro \notin Forward
      <3>1. Node(h, L, Len(L) + 1) = h /\ Len(L) + 1 \in 1 .. Len(L) + 1
        BY <1>5 DEF Node
      <3>2. mem.prev[h] = Node(h, L, Len(L))
        BY <1>5, <2>1, <3>1 DEF ChainBoth
      <3>3. pos = Node(h, L, Len(L))
        BY <1>3, <2>3, <3>2 DEF Link, Forward
      <3> QED
        BY <1>5, <2>3, <3>3 DEF Node, Reversed
    <2> QED
      BY <2>2, <2>3
  <1>10. pos \in Heads \cup Entries
    <2>1. CASE Len(L) = 0
      BY <1>9, <2>1
    <2>2. CASE Len(L) # 0
      <3>1. 1 \in 1 .. Len(plan)
        BY <1>5, <1>6, <2>2
      <3> HIDE DEF plan
      <3> QED
        BY <1>6, <1>9, <2>2, <3>1
    <2> QED
      BY <2>1, <2>2
  <1>11. Link(mem, macro)[pos] \in Nodes \cup {Poison}
    <2>1. mem \in [next : Pointers, prev : Pointers]
      BY DEF Good, IInv, TypeOK
    <2> QED
      BY <1>10, <2>1 DEF Link, Pointers, Nodes
  <1> HIDE DEF plan
  <1>12. /\ iter'.macro = macro /\ iter'.head = h /\ iter'.plan = plan /\ iter'.pos = pos
         /\ iter'.n = Link(mem, macro)[pos] /\ iter'.visited = <<>>
         /\ iter' \in Loops
    BY <1>4, <1>6, <1>10, <1>11 DEF Loops, Nodes
  <1>13. PICK v \in Seq(Entries) : v = iter'.visited /\ Len(v) = 0
    <2>1. <<>> \in Seq(Entries) /\ Len(<<>>) = 0
      OBVIOUS
    <2> QED
      BY <1>12, <2>1
  <1>14. MemLists' = MemLists
    BY <1>4 DEF MemLists
  <1>15. /\ Len(plan) - Len(v) = Len(L) /\ Len(L) \in 0 .. Len(L)
         /\ Len(v) = Len(plan) <=> Len(L) = 0
         /\ Len(v) + 1 = 1 /\ \A j \in 1 .. Len(L) : Len(v) + j = j
    BY <1>5, <1>6, <1>13
  <1>16. \A j \in 1 .. Len(v) : v[j] = plan[j]
    BY <1>13
  <1>17. FollowsPlan(iter', mem', L)
    BY <1>4, <1>6, <1>7, <1>8, <1>9, <1>12, <1>13, <1>15, <1>16 DEF FollowsPlan
  <1> QED
    BY <1>1, <1>12, <1>14, <1>17 DEF Following

\* Every step keeps the loops to their plans.
LEMMA NextFollows == Good /\ Following /\ [Next]_vars /\ Good' => Following'
  <1> SUFFICES ASSUME Good, Following, [Next]_vars, Good' PROVE Following'
    OBVIOUS
  <1>1. ASSUME iter' = NoIter PROVE Following'
    BY <1>1 DEF Following
  <1>2. CASE Operation
    BY <1>1, <1>2 DEF Operation, Idle, Add, AddTail, Del, DelInit, Move, MoveTail, Replace,
                      ReplaceInit, ReplaceHead
  <1>3. CASE Iterate
    BY <1>3, IterateFollows
  <1>4. CASE End
    BY <1>1, <1>4 DEF End
  <1>5. CASE \E macro \in Macros, h \in Heads : Begin(macro, h)
    BY <1>5, BeginFollows
  <1>6. CASE UNCHANGED vars
    BY <1>6 DEF vars, Following, MemLists
  <1> QED
    BY <1>2, <1>3, <1>4, <1>5, <1>6 DEF Next, Loop

\* A loop that follows its plan visits it.
LEMMA FollowingVisits == Good /\ Following => VisitsPlan
  <1> SUFFICES ASSUME Good, Following, iter # NoIter
               PROVE  /\ iter.pos \in InRing
                      /\ iter.n = Link(mem, iter.macro)[iter.pos]
                      /\ Len(iter.visited) <= Len(iter.plan)
                      /\ iter.visited = SubSeq(iter.plan, 1, Len(iter.visited))
                      /\ iter.pos = iter.head => iter.visited = iter.plan
    BY DEF VisitsPlan, CursorLinked
  <1>1. FollowsPlan(iter, mem, MemLists[iter.head]) /\ iter \in Loops
    BY DEF Following, FollowsPlan
  <1>2. PICK h \in Heads : h = iter.head
    BY <1>1 DEF Loops
  <1>3. PICK L \in Seq(Entries) : L = MemLists[h]
    BY GoodFacts
  <1>4. PICK v \in Seq(Entries) : v = iter.visited
    BY <1>1 DEF Loops
  <1>5. PICK p \in Seq(Entries) : p = iter.plan
    BY <1>1 DEF Loops
  <1>6. /\ Len(p) - Len(v) \in 0 .. Len(L)
        /\ \A j \in 1 .. Len(v) : v[j] = p[j]
        /\ iter.pos = IF Len(v) = Len(p) THEN h ELSE p[Len(v) + 1]
        /\ iter.n = Link(mem, iter.macro)[iter.pos]
    BY <1>1, <1>2, <1>3, <1>4, <1>5 DEF FollowsPlan
  <1>7. Len(v) \in Nat /\ Len(p) \in Nat /\ Len(L) \in Nat /\ Len(v) <= Len(p)
    BY <1>6
  <1>8. iter.pos \in InRing /\ (Len(v) # Len(p) => iter.pos # h)
    <2>1. CASE Len(v) = Len(p)
      BY <1>6, <2>1 DEF InRing
    <2>2. CASE Len(v) # Len(p)
      <3>1. iter.pos \in Entries
        BY <1>6, <1>7, <2>2
      <3>2. iter.pos # h
        BY <3>1, NodesAssumption
      <3>3. \E q \in 1 .. Len(L) : iter.pos = L[q]
        BY <1>1, <1>2, <1>3, <3>2, NextInPlan
      <3>4. \A q \in 1 .. Len(L) : L[q] \in linked
        BY <1>3, GoodFacts, ListsEntries
      <3> QED
        BY <3>2, <3>3, <3>4 DEF InRing
    <2> QED
      BY <2>1, <2>2
  <1>9. v = SubSeq(p, 1, Len(v))
    <2>1. /\ SubSeq(p, 1, Len(v)) \in Seq(Entries)
          /\ Len(SubSeq(p, 1, Len(v))) = Len(v)
          /\ \A j \in 1 .. Len(v) : SubSeq(p, 1, Len(v))[j] = p[j]
      BY <1>7
    <2> QED
      BY <1>6, <2>1, SeqEqual
  <1>10. Len(v) = Len(p) => v = p
    BY <1>6, SeqEqual
  <1> QED
    BY <1>2, <1>4, <1>5, <1>6, <1>7, <1>8, <1>9, <1>10

\* A loop over a list visits the entries that were in it when it began, each once,
\* in order, and is never cut off, even if its body removes the entry it is given.
THEOREM VisitsPlanHolds == Spec => []VisitsPlan
  <1>1. Init => Following
    BY DEF Init, Following
  <1>2. Good /\ Following => VisitsPlan
    BY FollowingVisits
  <1> QED
    BY <1>1, <1>2, NextFollows, GoodInvariance, PTL DEF Spec
=============================================================================
