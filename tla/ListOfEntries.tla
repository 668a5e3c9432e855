--------------------------- MODULE ListOfEntries ---------------------------
(***************************************************************************)
(* What c/linux/userland/list.c promises its callers: every head owns a    *)
(* sequence of entries, an entry is in at most one of them, and the two    *)
(* queries tell the truth about the sequences.                             *)
(***************************************************************************)
EXTENDS Sequences, Naturals

CONSTANTS Heads, Entries

VARIABLES lists,        \* the entries of each head, first to last
          empty,        \* the heads that are said to be empty
          last          \* the entries that are said to be last in h, for each h

Elements(s) == {s[k] : k \in 1 .. Len(s)}
Listed == UNION {Elements(lists[h]) : h \in Heads}

\* A sequence less e, which it holds at most once.
Without(s, e) ==
  IF \E k \in DOMAIN s : s[k] = e
  THEN LET at == CHOOSE k \in DOMAIN s : s[k] = e
       IN [k \in 1 .. Len(s) - 1 |-> s[IF k < at THEN k ELSE k + 1]]
  ELSE s
Taken(e) == [h \in Heads |-> Without(lists[h], e)]

Answers == /\ empty = {h \in Heads : lists[h] = <<>>}
           /\ last = [h \in Heads |-> IF lists[h] = <<>> THEN {}
                                      ELSE {lists[h][Len(lists[h])]}]

Init == lists = [h \in Heads |-> <<>>] /\ Answers

Push(e, h)   == e \notin Listed /\ lists' = [lists EXCEPT ![h] = <<e>> \o @]
Append1(e, h) == e \notin Listed /\ lists' = [lists EXCEPT ![h] = Append(@, e)]
Remove(e)    == e \in Listed /\ lists' = Taken(e)

Swap(old, new) ==
  /\ old \in Listed /\ new \notin Listed
  /\ lists' = [h \in Heads |-> [k \in DOMAIN lists[h] |->
                 IF lists[h][k] = old THEN new ELSE lists[h][k]]]

MoveFront(e, h) == e \in Listed /\ lists' = [Taken(e) EXCEPT ![h] = <<e>> \o @]
MoveBack(e, h)  == e \in Listed /\ lists' = [Taken(e) EXCEPT ![h] = Append(@, e)]

\* A list changes heads: an empty one is taken over by h.
TakeOver(g, h) == /\ g # h /\ lists[h] = <<>>
                  /\ lists' = [lists EXCEPT ![h] = lists[g], ![g] = <<>>]

Next == /\ \E e \in Entries, h \in Heads :
              \/ Push(e, h) \/ Append1(e, h) \/ Remove(e)
              \/ MoveFront(e, h) \/ MoveBack(e, h)
              \/ \E new \in Entries : Swap(e, new)
              \/ \E g \in Heads : TakeOver(g, h)
        /\ Answers'

Spec == Init /\ [][Next]_<<lists, empty, last>>
=============================================================================
