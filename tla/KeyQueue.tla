------------------------------ MODULE KeyQueue ------------------------------
(***************************************************************************)
(* What a search tree promises its callers: its nodes stay in the order of *)
(* their keys, nodes with equal keys in the order in which they came.  The *)
(* order is chosen once and for all.                                       *)
(***************************************************************************)
EXTENDS Naturals, Sequences

CONSTANTS Nodes, Keys,
          Orders,           \* the names of the orders
          Before(_, _, _)   \* whether one key comes before another in an order
VARIABLES order,
          items             \* the nodes with their keys, first to last

Held == {items[i].node : i \in 1 .. Len(items)}

Init == items = <<>> /\ order \in Orders

Insert(n, k) ==
  /\ n \notin Held
  /\ LET later == {i \in 1 .. Len(items) : Before(order, k, items[i].key)}
         at == IF later = {} THEN Len(items) + 1
               ELSE CHOOSE i \in later : \A j \in later : i <= j
     IN items' = SubSeq(items, 1, at - 1) \o <<[node |-> n, key |-> k]>>
                   \o SubSeq(items, at, Len(items))

Delete(n) == \E i \in 1 .. Len(items) :
               /\ items[i].node = n
               /\ items' = SubSeq(items, 1, i - 1) \o SubSeq(items, i + 1, Len(items))

Next == /\ \E n \in Nodes : Delete(n) \/ \E k \in Keys : Insert(n, k)
        /\ UNCHANGED order

Spec == Init /\ [][Next]_<<order, items>>
=============================================================================
