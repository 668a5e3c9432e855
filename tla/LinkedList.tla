----------------------------- MODULE LinkedList -----------------------------
(***************************************************************************)
(* The doubly linked circular lists of c/linux/userland/list.c.            *)
(*                                                                         *)
(* A node has a next and a prev pointer; a list is a head and the entries  *)
(* reached from it.  Every operation below makes the stores of its C       *)
(* function in their order, one after the other on the memory they leave,  *)
(* because the nodes they name may be the same node.                       *)
(*                                                                         *)
(* The caller keeps track of what it put into a list (linked) and uses the *)
(* functions as their comments ask: it adds an entry that is in no list,   *)
(* deletes one that is in one, and inside list_for_each_safe it removes    *)
(* the entry the loop is at and no other.                                  *)
(***************************************************************************)
EXTENDS Naturals, Sequences, FiniteSets

CONSTANTS Heads,        \* the list heads
          Entries,      \* the entries
          Poison        \* an uninitialized pointer

Nodes == Heads \cup Entries

ASSUME NodesAssumption == Heads \cap Entries = {} /\ Poison \notin Nodes
ASSUME FiniteAssumption == IsFiniteSet(Nodes)

VARIABLES mem,          \* the next and prev pointers of every node
          linked,       \* the entries that are in a list
          iter          \* the loop in progress: its macro, head, pos and n

vars == <<mem, linked, iter>>

-----------------------------------------------------------------------------
(* Stores, and the functions made of them                                  *)

SetNext(m, x, y) == [next |-> [m.next EXCEPT ![x] = y], prev |-> m.prev]
SetPrev(m, x, y) == [next |-> m.next, prev |-> [m.prev EXCEPT ![x] = y]]

InitListHead(m, list) == SetPrev(SetNext(m, list, list), list, list)

\* __list_add
AddBetween(m, new, p, n) ==
  SetNext(SetPrev(SetNext(SetPrev(m, n, new), new, n), new, p), p, new)

ListAdd(m, new, head) == AddBetween(m, new, head, m.next[head])

ListAddTail(m, new, head) == AddBetween(m, new, m.prev[head], head)

\* Mutant: one of the two stores is lost.
DelBetweenNext(m, p, n) == SetNext(m, p, n)

\* __list_del
DelBetween(m, p, n) == SetNext(SetPrev(m, n, p), p, n)

ListDel(m, entry) == DelBetween(m, m.prev[entry], m.next[entry])

ListReplace(m, old, new) ==
  LET m1 == SetNext(m, new, m.next[old])
      m2 == SetPrev(m1, m1.next[new], new)
      m3 == SetPrev(m2, new, m2.prev[old])
  IN SetNext(m3, m3.prev[new], new)

ListReplaceInit(m, old, new) == InitListHead(ListReplace(m, old, new), old)
ListDelInit(m, entry)        == InitListHead(ListDel(m, entry), entry)

ListMove(m, list, head)      == ListAdd(ListDel(m, list), list, head)
ListMoveTail(m, list, head)  == ListAddTail(ListDel(m, list), list, head)

\* Mutant: the wrong neighbour is compared.
ListIsLastPrev(m, list, head) == m.prev[list] = head

ListIsLast(m, list, head) == m.next[list] = head
ListEmpty(m, head)        == m.next[head] = head

-----------------------------------------------------------------------------
NoIter == [macro |-> "none"]

Empty == [next |-> [x \in Nodes |-> IF x \in Heads THEN x ELSE Poison],
          prev |-> [x \in Nodes |-> IF x \in Heads THEN x ELSE Poison]]

\* LIST_HEAD for every head; the pointers of an entry are not initialized.
Init == /\ mem = Empty
        /\ linked = {}
        /\ iter = NoIter

Idle == iter = NoIter /\ UNCHANGED iter

Add(e, h)     == /\ Idle /\ e \notin linked
                 /\ mem' = ListAdd(mem, e, h)
                 /\ linked' = linked \cup {e}
AddTail(e, h) == /\ Idle /\ e \notin linked
                 /\ mem' = ListAddTail(mem, e, h)
                 /\ linked' = linked \cup {e}
Del(e)        == /\ Idle /\ e \in linked
                 /\ mem' = ListDel(mem, e)
                 /\ linked' = linked \ {e}
DelInit(e)    == /\ Idle /\ e \in linked
                 /\ mem' = ListDelInit(mem, e)
                 /\ linked' = linked \ {e}
Move(e, h)    == /\ Idle /\ e \in linked
                 /\ mem' = ListMove(mem, e, h)
                 /\ UNCHANGED linked
MoveTail(e, h) == /\ Idle /\ e \in linked
                  /\ mem' = ListMoveTail(mem, e, h)
                  /\ UNCHANGED linked
Replace(e, new) == /\ Idle /\ e \in linked /\ new \in Entries \ linked
                   /\ mem' = ListReplace(mem, e, new)
                   /\ linked' = (linked \ {e}) \cup {new}
ReplaceInit(e, new) == /\ Idle /\ e \in linked /\ new \in Entries \ linked
                       /\ mem' = ListReplaceInit(mem, e, new)
                       /\ linked' = (linked \ {e}) \cup {new}

\* A list, empty or not, is handed to another head.
ReplaceHead(g, h) == /\ Idle /\ g # h /\ ListEmpty(mem, h)
                     /\ mem' = ListReplaceInit(mem, g, h)
                     /\ UNCHANGED linked

-----------------------------------------------------------------------------
(* The loops.  The loop variable pos is followed by n, the node after it   *)
(* (before it, for the prev macros), read before the body runs.            *)

Macros == {"for_each", "for_each_prev", "for_each_safe", "for_each_prev_safe"}
Safe   == {"for_each_safe", "for_each_prev_safe"}

Link(m, macro) == IF macro \in {"for_each", "for_each_safe"} THEN m.next ELSE m.prev

\* The entries of h from first to last, as a loop over the pointers finds them
\* while nothing changes (cut off if they never lead back to h).
Walk(m, h) ==
  LET at[k \in 0 .. Cardinality(Nodes)] == IF k = 0 THEN m.next[h] ELSE m.next[at[k - 1]]
      ends == {k \in 0 .. Cardinality(Nodes) : at[k] = h} \cup {Cardinality(Nodes)}
      length == CHOOSE k \in ends : \A j \in ends : k <= j
  IN [k \in 1 .. length |-> at[k - 1]]

Reversed(s) == [k \in DOMAIN s |-> s[Len(s) + 1 - k]]

\* for (pos = (head)->next, n = pos->next; ...), and what is to be visited.
Begin(macro, h) ==
  LET pos == Link(mem, macro)[h]
  IN /\ iter = NoIter
     /\ iter' = [macro |-> macro, head |-> h, pos |-> pos,
                 n |-> Link(mem, macro)[pos], visited |-> <<>>,
                 plan |-> IF macro \in {"for_each", "for_each_safe"}
                          THEN Walk(mem, h) ELSE Reversed(Walk(mem, h))]
     /\ UNCHANGED <<mem, linked>>

\* What the body may do to the entry it is given, which is in a list.
Body(e) ==
  \/ UNCHANGED <<mem, linked>>
  \/ /\ iter.macro \in Safe /\ e \in linked
     /\ \/ mem' = ListDel(mem, e) /\ linked' = linked \ {e}
        \/ mem' = ListDelInit(mem, e) /\ linked' = linked \ {e}
        \/ /\ \E h \in Heads \ {iter.head} : mem' = ListMove(mem, e, h)
           /\ UNCHANGED linked

\* The visited entries are recorded up to one more than there can be.
Visit(e) == IF Len(iter.visited) > Cardinality(Entries) THEN iter.visited
                                                         ELSE Append(iter.visited, e)

\* Mutant: the safe macros read the pointer of pos after the body, too.
IterateUnsafe ==
  /\ iter # NoIter
  /\ iter.pos # iter.head
  /\ Body(iter.pos)
  /\ LET link == Link(mem', iter.macro)
         pos == link[iter.pos]
     IN iter' = [iter EXCEPT !.pos = pos, !.n = link[pos], !.visited = Visit(iter.pos)]

\* The body and the step of the loop: pos = n, n = pos->next in the safe macros,
\* pos = pos->next in the others.
Iterate ==
  /\ iter # NoIter
  /\ iter.pos # iter.head
  /\ Body(iter.pos)
  /\ LET link == Link(mem', iter.macro)
         pos == IF iter.macro \in Safe THEN iter.n ELSE link[iter.pos]
     IN iter' = [iter EXCEPT !.pos = pos, !.n = link[pos], !.visited = Visit(iter.pos)]

End == /\ iter # NoIter
       /\ iter.pos = iter.head
       /\ iter' = NoIter
       /\ UNCHANGED <<mem, linked>>

-----------------------------------------------------------------------------
Operation ==
  \E e \in Entries, h \in Heads :
     \/ Add(e, h) \/ AddTail(e, h) \/ Del(e) \/ DelInit(e)
     \/ Move(e, h) \/ MoveTail(e, h)
     \/ \E x \in Entries : Replace(e, x) \/ ReplaceInit(e, x)
     \/ \E g \in Heads : ReplaceHead(g, h)

Loop == Iterate \/ End \/ \E macro \in Macros, h \in Heads : Begin(macro, h)

Next == Operation \/ Loop

Spec == Init /\ [][Next]_vars

-----------------------------------------------------------------------------
(* Properties                                                              *)

InRing == Heads \cup linked

Pointers == [Nodes -> Nodes \cup {Poison}]

\* Pointers are pointers, and those of a node in a list are initialized.
TypeOK == /\ mem \in [next : Pointers, prev : Pointers]
          /\ linked \subseteq Entries
          /\ \A x \in InRing : mem.next[x] # Poison /\ mem.prev[x] # Poison

RingOn(m, S) == \A x \in S : /\ m.next[x] \in S
                              /\ m.prev[x] \in S
                              /\ m.prev[m.next[x]] = x
                              /\ m.next[m.prev[x]] = x

\* The two directions agree: following a pointer from a node of a list leads to
\* a node of a list, and the opposite pointer leads back.
Ring == RingOn(mem, InRing)

\* The inductive invariant behind Ring.
IInv == TypeOK /\ Ring

\* A loop is at an entry of its list or back at its head, and n is where the
\* pointers lead from there: nothing the body did has cut the loop off.
CursorLinked ==
  iter # NoIter => /\ iter.pos \in InRing
                   /\ iter.n = Link(mem, iter.macro)[iter.pos]

\* A loop visits the entries that were in the list when it began, each once, in
\* order, even if the body removes them one by one, and is never cut off.
VisitsPlan ==
  /\ CursorLinked
  /\ iter # NoIter =>
       /\ Len(iter.visited) <= Len(iter.plan)
       /\ iter.visited = SubSeq(iter.plan, 1, Len(iter.visited))
       /\ iter.pos = iter.head => iter.visited = iter.plan

\* The pointers implement sequences of entries, and list_empty and list_is_last
\* answer for a head, and for an entry in a list, what the sequences say.
Abstract == INSTANCE ListOfEntries
              WITH lists <- [h \in Heads |-> Walk(mem, h)],
                   empty <- {h \in Heads : ListEmpty(mem, h)},
                   last <- [h \in Heads |-> {e \in linked : ListIsLast(mem, e, h)}]
ImplementsLists == Abstract!Spec

\* Each operation does to the sequences what its comment says: list_add puts the
\* entry first and list_add_tail last, the moves likewise, and a replaced entry or
\* head leaves the order of the others alone.
OperationsAgree ==
  [][\A e \in Entries, h \in Heads :
       /\ Add(e, h) => Abstract!Push(e, h)
       /\ AddTail(e, h) => Abstract!Append1(e, h)
       /\ Del(e) \/ DelInit(e) => Abstract!Remove(e)
       /\ Move(e, h) => Abstract!MoveFront(e, h)
       /\ MoveTail(e, h) => Abstract!MoveBack(e, h)
       /\ \A x \in Entries : Replace(e, x) \/ ReplaceInit(e, x) => Abstract!Swap(e, x)
       /\ \A g \in Heads : ReplaceHead(g, h) => Abstract!TakeOver(g, h)]_vars
=============================================================================
