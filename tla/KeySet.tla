------------------------------- MODULE KeySet -------------------------------
(***************************************************************************)
(* What c/linux/common/rbtree promises its callers: a set of keys, and     *)
(* queries that answer from the set.                                       *)
(***************************************************************************)
EXTENDS Naturals, Sequences

CONSTANTS Keys,
          None              \* the answer when there is no such key

VARIABLES keys,
          found,            \* the keys that a search finds
          order,            \* the keys as the traversal visits them
          minimum, maximum,
          successor, predecessor

answers == <<found, order, minimum, maximum, successor, predecessor>>
vars == <<keys, answers>>

Best(S, R(_, _)) == IF S = {} THEN None ELSE CHOOSE x \in S : \A y \in S \ {x} : R(x, y)
Less(a, b) == a < b
More(a, b) == a > b

Answers ==
  /\ found = keys
  /\ {order[i] : i \in 1 .. Len(order)} = keys
  /\ \A i \in 1 .. Len(order) - 1 : order[i] < order[i + 1]
  /\ minimum = Best(keys, Less)
  /\ maximum = Best(keys, More)
  /\ successor = [k \in keys |-> Best({x \in keys : x > k}, Less)]
  /\ predecessor = [k \in keys |-> Best({x \in keys : x < k}, More)]

Init == keys = {} /\ Answers

Insert(k) == k \notin keys /\ keys' = keys \cup {k}

Delete(k) == k \in keys /\ keys' = keys \ {k}

Destroy == keys' = {}

Next == /\ Destroy \/ \E k \in Keys : Insert(k) \/ Delete(k)
        /\ Answers'

Spec == Init /\ [][Next]_vars
=============================================================================
