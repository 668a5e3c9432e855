--------------------------- MODULE KernelThreads ---------------------------
(***************************************************************************)
(* The two kernel threads of c/linux/kernel/kernel_completion.c and of     *)
(* kernel_semaphore.c (which starts and stops them the way kernel_thread.c *)
(* does), from module_init, which is taken to succeed, to the end of       *)
(* module_exit.  wait_for_completion does not return before the completion *)
(* is given, and down_interruptible not before it has the semaphore: no    *)
(* signal reaches a kernel thread.                                         *)
(***************************************************************************)
EXTENDS Naturals, Sequences

VARIABLES module,   \* "completion" or "semaphore": which of the two is loaded
          stop,     \* KTHREAD_SHOULD_STOP of the two threads
          pc,       \* of the threads
          exit,     \* of module_exit: "loaded" before, "gone" after
          done,     \* g_my_completion.done
          count,    \* g_sem.count
          waiting   \* g_sem.wait_list

vars == <<module, stop, pc, exit, done, count, waiting>>
sync == <<done, count, waiting>>

Threads == {1, 2}

Init == /\ module \in {"completion", "semaphore"}
        /\ stop = [t \in Threads |-> FALSE]
        /\ pc = [t \in Threads |-> "created"]
        /\ exit = "loaded"
        /\ done = 0
        /\ count = 1
        /\ waiting = <<>>

Goes(t, there) == pc' = [pc EXCEPT ![t] = there]

\* kthread: a thread that is stopped before it ran never calls its function.
Begin(t) ==
  /\ pc[t] = "created"
  /\ Goes(t, IF stop[t] THEN "ended" ELSE "top")
  /\ UNCHANGED <<module, stop, exit, sync>>

\* The top of the loop; what comes first in it.
First(t) == IF module = "semaphore" THEN "down" ELSE IF t = 1 THEN "wait" ELSE "sleep"

Top(t) ==
  /\ pc[t] = "top"
  /\ Goes(t, IF stop[t] THEN "ended" ELSE First(t))
  /\ UNCHANGED <<module, stop, exit, sync>>

-----------------------------------------------------------------------------
(* kernel_completion.c                                                     *)

WaitForCompletion ==
  /\ pc[1] = "wait" /\ done > 0
  /\ done' = done - 1
  /\ Goes(1, "init")
  /\ UNCHANGED <<module, stop, exit, count, waiting>>

\* init_completion also makes the lock and the wait queue new, without the
\* lock.  If thread2 is inside complete, nothing is known of the two any more:
\* the model stops there.
InitCompletion ==
  /\ pc[1] = "init"
  /\ done' = 0
  /\ pc' = IF pc[2] = "complete" THEN [t \in Threads |-> "torn"] ELSE [pc EXCEPT ![1] = "top"]
  /\ UNCHANGED <<module, stop, exit, count, waiting>>

\* thread2 after its msleep: the test, and then the call.
TestDone ==
  /\ pc[2] = "sleep"
  /\ Goes(2, IF done = 0 THEN "complete" ELSE "top")
  /\ UNCHANGED <<module, stop, exit, sync>>

Complete ==
  /\ pc[2] = "complete"
  /\ done' = done + 1
  /\ Goes(2, "top")
  /\ UNCHANGED <<module, stop, exit, count, waiting>>

-----------------------------------------------------------------------------
(* kernel_semaphore.c.  A semaphore is handed to the one that waits longest. *)

Down(t) ==
  /\ pc[t] = "down"
  /\ IF count > 0
     THEN count' = count - 1 /\ Goes(t, "holds") /\ UNCHANGED waiting
     ELSE waiting' = Append(waiting, t) /\ Goes(t, "queued") /\ UNCHANGED count
  /\ UNCHANGED <<module, stop, exit, done>>

\* Mutant: a thread that is asked to stop leaves at once.
UpUnlessStopped(t) ==
  /\ pc[t] = "holds"
  /\ IF stop[t] THEN Goes(t, "ended") /\ UNCHANGED <<count, waiting>>
     ELSE IF waiting = <<>>
     THEN count' = count + 1 /\ Goes(t, "top") /\ UNCHANGED waiting
     ELSE /\ pc' = [pc EXCEPT ![t] = "top", ![Head(waiting)] = "holds"]
          /\ waiting' = Tail(waiting)
          /\ UNCHANGED count
  /\ UNCHANGED <<module, stop, exit, done>>

\* After the sleep.
Up(t) ==
  /\ pc[t] = "holds"
  /\ IF waiting = <<>>
     THEN count' = count + 1 /\ Goes(t, "top") /\ UNCHANGED waiting
     ELSE /\ pc' = [pc EXCEPT ![t] = "top", ![Head(waiting)] = "holds"]
          /\ waiting' = Tail(waiting)
          /\ UNCHANGED count
  /\ UNCHANGED <<module, stop, exit, done>>

-----------------------------------------------------------------------------
(* module_exit                                                             *)

\* Mutant: the thread that completes is stopped first.
StopOrderReversed == <<2, 1>>

StopOrder == <<1, 2>>

\* kthread_stop asks the thread to stop, and waits for its end.
Stopping(n) == <<"stop1", "stop2">>[n]
StopAsks(n) ==
  /\ exit = <<"loaded", "second">>[n]
  /\ stop' = [stop EXCEPT ![StopOrder[n]] = TRUE]
  /\ exit' = Stopping(n)
  /\ UNCHANGED <<module, pc, sync>>

StopReturns(n) ==
  /\ exit = Stopping(n) /\ pc[StopOrder[n]] = "ended"
  /\ exit' = <<IF module = "completion" THEN "test" ELSE "second", "gone">>[n]
  /\ UNCHANGED <<module, stop, pc, sync>>

\* Between the two, kernel_completion_exit completes, too.
ExitTests ==
  /\ exit = "test"
  /\ exit' = IF done = 0 THEN "complete" ELSE "second"
  /\ UNCHANGED <<module, stop, pc, sync>>

ExitCompletes ==
  /\ exit = "complete"
  /\ done' = done + 1
  /\ exit' = "second"
  /\ UNCHANGED <<module, stop, pc, count, waiting>>

Thread(t) == Begin(t) \/ Top(t) \/ Down(t) \/ Up(t)
Thread1 == Thread(1) \/ WaitForCompletion \/ InitCompletion
Thread2 == Thread(2) \/ TestDone \/ Complete
Exit == StopReturns(1) \/ ExitTests \/ ExitCompletes \/ StopAsks(2) \/ StopReturns(2)

Next == Thread1 \/ Thread2 \/ StopAsks(1) \/ Exit

Spec == Init /\ [][Next]_vars

-----------------------------------------------------------------------------
\* The module can be unloaded: module_exit returns, though thread1 may be
\* waiting for a completion, and either thread for the semaphore, when it is
\* stopped; unless the completion was initialized while it was given.
ExitReturns == (exit = "stop1") ~> (exit = "gone" \/ pc[1] = "torn")

\* One thread at a time holds the semaphore.
OneHolder ==
  module = "semaphore" =>
    /\ pc[1] = "holds" => pc[2] # "holds"
    /\ count = IF "holds" \in {pc[1], pc[2]} THEN 0 ELSE 1
=============================================================================
