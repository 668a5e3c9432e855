------------------------------ MODULE PidLock ------------------------------
(***************************************************************************)
(* What the mutex of c/linux/userland/ngx_shmtx promises to the processes  *)
(* that share it: a single word that names at most one process, taken only *)
(* while it names nobody, given back by the process it names, and taken    *)
(* back from a process only when that process is dead.                     *)
(*                                                                         *)
(* Nothing here says how the word is tested, spun on or compared: NgxShmtx *)
(* implements this specification step by step.                             *)
(***************************************************************************)
CONSTANTS Pids,         \* process identifiers the kernel may hand out
          Free          \* the value of the word when nobody holds the lock,
                        \* which is no pid

VARIABLES holder,       \* the process the lock belongs to, or Free
          alive         \* the processes that are running

vars == <<holder, alive>>

Init == /\ holder = Free
        /\ alive = {}

\* A process starts.  Its identifier is not the one a dead holder left behind:
\* a newborn process never owns a lock it did not take.
Born(p) == /\ p \notin alive
           /\ p # holder
           /\ alive' = alive \cup {p}
           /\ UNCHANGED holder

Acquire(p) == /\ p \in alive
              /\ holder = Free
              /\ holder' = p
              /\ UNCHANGED alive

Release(p) == /\ p \in alive
              /\ holder = p
              /\ holder' = Free
              /\ UNCHANGED alive

Die(p) == /\ p \in alive
          /\ alive' = alive \ {p}
          /\ UNCHANGED holder

\* The lock is taken back, from a dead process only.
Recover == /\ holder # Free
           /\ holder \notin alive
           /\ holder' = Free
           /\ UNCHANGED alive

Next == \/ \E p \in Pids : Born(p) \/ Acquire(p) \/ Release(p) \/ Die(p)
        \/ Recover

Spec == Init /\ [][Next]_vars
=============================================================================
