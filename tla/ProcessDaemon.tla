--------------------------- MODULE ProcessDaemon ---------------------------
(***************************************************************************)
(* c/linux/userland/process_daemon: a parent that keeps ProcessNum child   *)
(* processes running, SignalZeroNum of them with g_signal = 0 and the      *)
(* others with g_signal = 1, and replaces every child that ends.           *)
(*                                                                         *)
(* A child runs libfunc of testlib, which never returns: it ends by        *)
(* failing to load the library or by being killed, at any time.  fork may  *)
(* fail, and the kernel may give a new child the pid of any process that   *)
(* has been waited for, however recently.                                  *)
(***************************************************************************)
EXTENDS Integers, FiniteSets

CONSTANTS ProcessNum,    \* g_process_num (10)
          SignalZeroNum, \* g_signal_0_num (5)
          Pids,          \* pids the kernel may hand out
          NoPid,         \* the _pid of an entry never written (0)
          MaxForkFails   \* how many times fork may fail (bound)

ASSUME NumAssumption == /\ ProcessNum \in Nat \ {0}
                        /\ SignalZeroNum \in 0 .. ProcessNum
                        /\ MaxForkFails \in Nat
ASSUME PidAssumption == NoPid \notin Pids

Index == 0 .. ProcessNum - 1
NotFound == ProcessNum           \* where the search ends without a match

VARIABLES pc,            \* "start", then "wait" and "respawn" in turns
          i,             \* the loop index, kept from the search to the update
          g_process,     \* the table of children: _pid and _signal
          g_signal,      \* what the next child will inherit
          g_signal_0_count,
          proc,          \* the children, as the kernel sees them
          childSignal,   \* g_signal in the memory of each child
          forkFails      \* how many times fork has failed (bound)

parent == <<pc, i, g_process, g_signal, g_signal_0_count>>
vars == <<parent, proc, childSignal, forkFails>>

Init == /\ pc = "start"
        /\ i = 0
        /\ g_process = [j \in Index |-> [_pid |-> NoPid, _signal |-> 0]]
        /\ g_signal = 0
        /\ g_signal_0_count = 0
        /\ proc = [p \in Pids |-> "none"]
        /\ childSignal = [p \in Pids |-> 0]
        /\ forkFails = 0

-----------------------------------------------------------------------------
\* The signal of the next child, and the count that goes with it.
NeedsZero == g_signal_0_count < SignalZeroNum

ChooseSignal ==
  /\ g_signal' = IF NeedsZero THEN 0 ELSE 1
  /\ g_signal_0_count' = g_signal_0_count + (IF NeedsZero THEN 1 ELSE 0)

\* Mutant: the new child is entered under the next index.
ForkIntoNext(k) ==
  \E p \in Pids :
    /\ proc[p] = "none"
    /\ proc' = [proc EXCEPT ![p] = "running"]
    /\ childSignal' = [childSignal EXCEPT ![p] = g_signal']
    /\ g_process' = [g_process EXCEPT ![(k + 1) % ProcessNum] =
                         [_pid |-> p, _signal |-> g_signal']]
    /\ UNCHANGED forkFails

\* fork() > 0: the child copies g_signal, and entry k is written.
ForkInto(k) ==
  \E p \in Pids :
    /\ proc[p] = "none"
    /\ proc' = [proc EXCEPT ![p] = "running"]
    /\ childSignal' = [childSignal EXCEPT ![p] = g_signal']
    /\ g_process' = [g_process EXCEPT ![k] = [_pid |-> p, _signal |-> g_signal']]
    /\ UNCHANGED forkFails

\* fork() < 0: a message, and nothing else.
ForkFails ==
  /\ forkFails < MaxForkFails
  /\ forkFails' = forkFails + 1
  /\ UNCHANGED <<g_process, proc, childSignal>>

\* One iteration of the loop that starts the children.
Start ==
  /\ pc = "start"
  /\ ChooseSignal
  /\ ForkInto(i) \/ ForkFails
  /\ i' = i + 1
  /\ pc' = IF i + 1 = ProcessNum THEN "wait" ELSE "start"

\* The entry of pid p: the first match.
Matches(p) == {j \in Index : g_process[j]._pid = p}
Entry(p) == IF Matches(p) = {} THEN NotFound
            ELSE CHOOSE j \in Matches(p) : \A k \in Matches(p) : j <= k

\* Mutant: the signal of the child that ended is not taken off the count.
WaitKeepsCount(p) ==
  /\ pc = "wait"
  /\ proc[p] = "ended"
  /\ proc' = [proc EXCEPT ![p] = "none"]
  /\ i' = Entry(p)
  /\ pc' = "respawn"
  /\ UNCHANGED <<g_process, g_signal, g_signal_0_count, childSignal, forkFails>>

\* Mutant: only the child in the first entry is waited for, without blocking.
WaitFirst(p) ==
  /\ pc = "wait"
  /\ proc[p] = "ended"
  /\ \/ /\ Entry(p) = 0
        /\ proc' = [proc EXCEPT ![p] = "none"]
        /\ i' = 0
        /\ g_signal_0_count' = g_signal_0_count - (1 - g_process[0]._signal)
        /\ pc' = "respawn"
        /\ UNCHANGED <<g_process, g_signal, childSignal, forkFails>>
     \/ Entry(p) # 0 /\ UNCHANGED vars

\* wait() returns a child that ended; its signal is taken off the count.
Wait(p) ==
  /\ pc = "wait"
  /\ proc[p] = "ended"
  /\ proc' = [proc EXCEPT ![p] = "none"]
  /\ i' = Entry(p)
  /\ g_signal_0_count' =
       IF Entry(p) # NotFound /\ g_process[Entry(p)]._signal = 0
       THEN g_signal_0_count - 1 ELSE g_signal_0_count
  /\ pc' = "respawn"
  /\ UNCHANGED <<g_process, g_signal, childSignal, forkFails>>

\* The rest of the iteration of the daemon loop.
Respawn ==
  /\ pc = "respawn"
  /\ ChooseSignal
  /\ ForkInto(i) \/ ForkFails
  /\ pc' = "wait"
  /\ UNCHANGED i

\* A child ends: killed, or exit(EXIT_FAILURE) because dlopen or dlsym failed.
ChildEnds(p) ==
  /\ proc[p] = "running"
  /\ proc' = [proc EXCEPT ![p] = "ended"]
  /\ UNCHANGED <<parent, childSignal, forkFails>>

\* wait() without children returns -1 at once: the loop turns on the spot.
WaitFails ==
  /\ pc = "wait"
  /\ \A p \in Pids : proc[p] = "none"
  /\ UNCHANGED vars

Parent == Start \/ Respawn \/ WaitFails \/ \E p \in Pids : Wait(p)

Next == Parent \/ \E p \in Pids : ChildEnds(p)

Spec == Init /\ [][Next]_vars

\* The parent keeps running; children need not end.  wait() looks through the
\* children in the order in which they were forked, and a replacement is the
\* last of them: no ended child is passed over for ever.
FairSpec == Spec /\ WF_vars(Parent) /\ \A p \in Pids : SF_vars(Wait(p))

-----------------------------------------------------------------------------
(* Properties                                                              *)

TypeOK == /\ pc \in {"start", "wait", "respawn"}
          /\ i \in 0 .. ProcessNum
          /\ g_process \in [Index -> [_pid : Pids \cup {NoPid}, _signal : {0, 1}]]
          /\ g_signal \in {0, 1}
          /\ g_signal_0_count \in 0 .. SignalZeroNum
          /\ proc \in [Pids -> {"none", "running", "ended"}]
          /\ childSignal \in [Pids -> {0, 1}]
          /\ forkFails \in 0 .. MaxForkFails

Children == {p \in Pids : proc[p] # "none"}
ZeroChildren == {p \in Children : childSignal[p] = 0}

\* Every child not yet waited for has an entry, even when forks failed and
\* pids were handed out again: the search finds the child that wait returned,
\* and the update after the fork stays inside g_process.
ChildrenListed ==
  /\ TypeOK
  /\ \A p \in Children : Matches(p) # {}
  /\ pc = "respawn" => i \in Index

\* The guarantee in the comment on g_signal_0_num, whenever the parent waits:
\* SignalZeroNum of the children have g_signal = 0.
SignalsGuaranteed ==
  pc = "wait" => Cardinality(ZeroChildren) = SignalZeroNum

\* While every fork succeeds, the guarantee is kept over any number of ends and
\* replacements, and the children with g_signal = 1 are the rest of ProcessNum.
GuaranteedWhileForksSucceed ==
  forkFails = 0 =>
    /\ SignalsGuaranteed
    /\ pc = "wait" => Cardinality(Children) = ProcessNum

\* A child that ended is waited for.
Reaped == \A p \in Pids : []<>(proc[p] # "ended")
=============================================================================
