------------------------------ MODULE ShareMem ------------------------------
(***************************************************************************)
(* The list of c/linux/userland/share_mem.c, every node of which is a      *)
(* System V segment of its own, found by its key.  Segments outlive the    *)
(* program: the next run finds the list of the one before, however that    *)
(* run ended, and builds its own over it.  A step is the stores to one     *)
(* structure that follow each other.                                       *)
(***************************************************************************)
EXTENDS Integers, Sequences

CONSTANTS N,        \* the nodes main adds (10)
          MaxRuns   \* how often the program is run (bound)

VARIABLES head,     \* struct share_mem_head
          node,     \* the node segments; the id of the k-th key is k
          pc,
          data,     \* the variable i of main
          seen,     \* what share_mem_list_node printed in this run
          walk,     \* its node_id
          runs

vars == <<head, node, pc, data, seen, walk, runs>>

Ids == 1 .. N
Zero == [next_id |-> 0, data |-> 0]

\* No segment exists; a new one is zero.
Init == /\ head = [first_id |-> 0, tail_id |-> 0, count |-> 0]
        /\ node = [k \in Ids |-> Zero]
        /\ pc = "ended" /\ data = 0 /\ seen = <<>> /\ walk = 0 /\ runs = 0

Run == /\ pc = "ended" /\ runs < MaxRuns
       /\ runs' = runs + 1
       /\ pc' = "head"
       /\ seen' = <<>>
       /\ UNCHANGED <<head, node, data, walk>>

\* A signal ends the program anywhere.
Killed == /\ pc # "ended"
          /\ pc' = "ended"
          /\ UNCHANGED <<head, node, data, seen, walk, runs>>

\* memset, and the stores after it.
MakeHead == /\ pc = "head"
            /\ head' = [first_id |-> -1, tail_id |-> -1, count |-> 0]
            /\ data' = 0
            /\ pc' = "fill"
            /\ UNCHANGED <<node, seen, walk, runs>>

-----------------------------------------------------------------------------
(* share_mem_add_node                                                      *)

Key == head.count + 1

\* Mutant: a new segment is taken to be the end of the list as it is.
FilledPartly == [node[Key] EXCEPT !.data = data]

Filled == [next_id |-> -1, data |-> data]

Fill == /\ pc = "fill"
        /\ node' = [node EXCEPT ![Key] = Filled]
        /\ pc' = IF head.count = 0 THEN "first" ELSE "link"
        /\ UNCHANGED <<head, data, seen, walk, runs>>

AddFirst == /\ pc = "first"
            /\ head' = [head EXCEPT !.first_id = Key, !.tail_id = Key]
            /\ pc' = "count"
            /\ UNCHANGED <<node, data, seen, walk, runs>>

LinkTail == /\ pc = "link"
            /\ node' = [node EXCEPT ![head.tail_id].next_id = Key]
            /\ pc' = "tail"
            /\ UNCHANGED <<head, data, seen, walk, runs>>

MoveTail == /\ pc = "tail"
            /\ head' = [head EXCEPT !.tail_id = Key]
            /\ pc' = "count"
            /\ UNCHANGED <<node, data, seen, walk, runs>>

\* The end of share_mem_add_node and of the loop of main around it.
Count == /\ pc = "count"
         /\ head' = [head EXCEPT !.count = @ + 1]
         /\ data' = data + 1
         /\ IF data + 1 < N THEN pc' = "fill" /\ UNCHANGED walk
                            ELSE pc' = "list" /\ walk' = head.first_id
         /\ UNCHANGED <<node, seen, runs>>

-----------------------------------------------------------------------------
\* share_mem_list_node; main returns after it.
List == /\ pc = "list"
        /\ IF walk = -1
           THEN pc' = "ended" /\ UNCHANGED <<seen, walk>>
           ELSE /\ seen' = Append(seen, node[walk].data)
                /\ walk' = node[walk].next_id
                /\ UNCHANGED pc
        /\ UNCHANGED <<head, node, data, runs>>

Step == MakeHead \/ Fill \/ AddFirst \/ LinkTail \/ MoveTail \/ Count \/ List
Next == Run \/ Killed \/ Step

Spec == Init /\ [][Next]_vars

-----------------------------------------------------------------------------
\* A run prints the nodes it added, each once and in the order of their adding,
\* whatever the runs before it left in the segments; and while it adds, the
\* list from the head ends at the tail.
ListExact ==
  /\ \A k \in 1 .. Len(seen) : seen[k] = k - 1
  /\ pc = "list" => /\ Len(seen) <= N
                    /\ walk = -1 => Len(seen) = N
  /\ pc \in {"fill", "link"} /\ head.count > 0 =>
       /\ node[head.tail_id].next_id = -1
       /\ \A k \in 1 .. head.count - 1 : node[k].next_id = k + 1
=============================================================================
