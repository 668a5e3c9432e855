----------------------------- MODULE Semaphores -----------------------------
(***************************************************************************)
(* The programs of c/linux/userland/thread that share semaphores:          *)
(* semaphore_test1.c (two threads, one semaphore, once each),              *)
(* semaphore_test2.c (two threads that hand the turn to each other) and    *)
(* semaphore/semaphore_process.c (parent and child, for ever).  Posting    *)
(* wakes a waiter, but whoever comes first takes the semaphore.            *)
(***************************************************************************)
EXTENDS Naturals, FiniteSets

CONSTANTS Rounds    \* how often the loops of semaphore_test2.c run

VARIABLES program,  \* which of the three runs
          sem,      \* the values of the semaphores
          at,       \* of the actors: "wait", "inside", "ended"
          rounds,   \* how often each was inside
          joined    \* how many threads main has joined; 3 is its end

vars == <<program, sem, at, rounds, joined>>

Actors == {1, 2}

\* The semaphore an actor waits for, and the one it posts.
WaitsFor(a) == IF program = "test2" THEN a ELSE 1

\* Mutant: an actor posts the semaphore it waited for.
PostsOwn(a) == WaitsFor(a)

Posts(a) == IF program = "test2" THEN 3 - a ELSE 1

Init == /\ program \in {"test1", "test2", "process"}
        /\ sem = IF program = "test2" THEN <<1, 0>> ELSE <<1>>
        /\ at = [a \in Actors |-> "wait"]
        /\ rounds = [a \in Actors |-> 0]
        /\ joined = 0

Wait(a) ==
  /\ at[a] = "wait" /\ sem[WaitsFor(a)] > 0
  /\ sem' = [sem EXCEPT ![WaitsFor(a)] = @ - 1]
  /\ at' = [at EXCEPT ![a] = "inside"]
  /\ UNCHANGED <<program, rounds, joined>>

\* Has actor a been through its loop?  The rounds of the endless one need not
\* be told apart.
Through(a) == CASE program = "test1" -> TRUE
                [] program = "test2" -> rounds[a] + 1 = Rounds
                [] program = "process" -> FALSE

Post(a) ==
  /\ at[a] = "inside"
  /\ sem' = [sem EXCEPT ![Posts(a)] = @ + 1]
  /\ at' = [at EXCEPT ![a] = IF Through(a) THEN "ended" ELSE "wait"]
  /\ rounds' = IF program = "process" THEN rounds ELSE [rounds EXCEPT ![a] = @ + 1]
  /\ UNCHANGED <<program, joined>>

\* main joins the threads one after the other, and destroys the semaphores.
Join ==
  /\ program # "process"
  /\ joined = 2 \/ (joined < 2 /\ at[joined + 1] = "ended")
  /\ joined' = joined + 1
  /\ UNCHANGED <<program, sem, at, rounds>>

Next == Join \/ \E a \in Actors : Wait(a) \/ Post(a)

Spec == Init /\ [][Next]_vars

-----------------------------------------------------------------------------
\* One actor at a time is inside; and the threads of semaphore_test2.c are
\* inside in turns, the first one first.
Excluded ==
  /\ Cardinality({a \in Actors : at[a] = "inside"}) <= 1
  /\ program = "test2" =>
       /\ rounds[2] <= rounds[1] /\ rounds[1] <= rounds[2] + 1
       /\ at[1] = "inside" => rounds[1] = rounds[2]
       /\ at[2] = "inside" => rounds[1] = rounds[2] + 1

\* The programs with threads end: nobody waits for a turn that is not given.
MainEnds == program # "process" ~> joined = 3
=============================================================================
