----------------------------- MODULE MCPrograms -----------------------------
(***************************************************************************)
(* Small instances, for TLC, of the programs that run on their own, in one *)
(* run: ProcessDaemon, KernelThreads, Semaphores, ShareMem and EdgeReader. *)
(* At the start one of them is chosen, and the others stay in an initial   *)
(* state of theirs.                                                        *)
(***************************************************************************)
EXTENDS ProcessDaemon

CONSTANTS
    Rounds,                                     \* of Semaphores
    ListNodes, ListRuns,                        \* N and MaxRuns of ShareMem
    EdgeSend                                    \* MaxSend of EdgeReader

ASSUME ListNodesAssumption == ListNodes \in Nat \ {0}

VARIABLES
    which,                                      \* the program that runs
    module, stop, at, exit, done, count, waiting,           \* of KernelThreads
    program, sem, semat, rounds, joined,                    \* of Semaphores
    head, node, shmpc, data, seen, walk, runs,              \* of ShareMem
    server, edgepc, ready, rx, sent, closed                 \* of EdgeReader

threadVars == <<module, stop, at, exit, done, count, waiting>>
semVars == <<program, sem, semat, rounds, joined>>
shmVars == <<head, node, shmpc, data, seen, walk, runs>>
edgeVars == <<server, edgepc, ready, rx, sent, closed>>
allVars == <<which, vars, threadVars, semVars, shmVars, edgeVars>>

Threads == INSTANCE KernelThreads WITH pc <- at
Sems == INSTANCE Semaphores WITH at <- semat
Shm == INSTANCE ShareMem WITH pc <- shmpc, N <- ListNodes, MaxRuns <- ListRuns
Edge == INSTANCE EdgeReader WITH pc <- edgepc, MaxSend <- EdgeSend

ProgramsInit ==
    /\ which \in {"daemon", "threads", "semaphores", "sharemem", "edge"}
    /\ Init
    /\ Threads!Init /\ (which # "threads" => module = "completion")
    /\ Sems!Init /\ (which # "semaphores" => program = "process")
    /\ Shm!Init
    /\ Edge!Init /\ (which # "edge" => server = "block")

ProgramsNext ==
    /\ UNCHANGED which
    /\ \/ /\ which = "daemon" /\ Next
          /\ UNCHANGED <<threadVars, semVars, shmVars, edgeVars>>
       \/ /\ which = "threads" /\ Threads!Next
          /\ UNCHANGED <<vars, semVars, shmVars, edgeVars>>
       \/ /\ which = "semaphores" /\ Sems!Next
          /\ UNCHANGED <<vars, threadVars, shmVars, edgeVars>>
       \/ /\ which = "sharemem" /\ Shm!Next
          /\ UNCHANGED <<vars, threadVars, semVars, edgeVars>>
       \/ /\ which = "edge" /\ Edge!Next
          /\ UNCHANGED <<vars, threadVars, semVars, shmVars>>

\* Processes and threads run; nobody has to unload a module, send or close.
ProgramsSpec ==
    /\ ProgramsInit
    /\ [][ProgramsNext]_allVars
    /\ WF_vars(which = "daemon" /\ Parent)
    /\ \A p \in Pids : SF_vars(which = "daemon" /\ Wait(p))
    /\ WF_threadVars(which = "threads" /\ Threads!Thread1)
    /\ WF_threadVars(which = "threads" /\ Threads!Thread2)
    /\ WF_threadVars(which = "threads" /\ Threads!Exit)
    /\ WF_semVars(which = "semaphores" /\ Sems!Join)
    /\ \A a \in {1, 2} : WF_semVars(which = "semaphores" /\ (Sems!Wait(a) \/ Sems!Post(a)))
    /\ WF_edgeVars(which = "edge" /\ Edge!Serve)

-----------------------------------------------------------------------------
\* Whoever waits gets on: module_exit returns and the threads of the two
\* kernel modules end, the programs with two threads come to their end, and a
\* reader that empties its socket leaves no input behind.
WaitersGetOn == Threads!ExitReturns /\ Sems!MainEnds /\ Edge!InputIsRead

\* Semaphores let one in at a time: the kernel threads, the threads and
\* processes of the userland demos, and those that take turns in their turn.
SemaphoresExclude == Threads!OneHolder /\ Sems!Excluded

\* The list in shared memory is what this run of share_mem.c put there.
ListExact == Shm!ListExact
=============================================================================
