----------------------------- MODULE EdgeReader -----------------------------
(***************************************************************************)
(* The readers with edge-triggered epoll (EPOLLIN | EPOLLET):              *)
(* c/linux/userland/net/epoll/block_epoll/server.c, which reads once per   *)
(* event, and noblock_epoll/server.c, which reads until read returns no    *)
(* more.  An event is reported when input arrives, and not again for what  *)
(* is left of it.  One client is served.                                   *)
(***************************************************************************)
EXTENDS Naturals

CONSTANTS MaxSend   \* how much, in reads, the client sends at most (bound)

VARIABLES server,   \* "block" or "noblock"
          pc,       \* "wait" in epoll_wait, "read", "exit"
          ready,    \* the edge is on the ready list
          rx,       \* input that is not read
          sent,
          closed    \* by the client

vars == <<server, pc, ready, rx, sent, closed>>

Init == /\ server \in {"block", "noblock"}
        /\ pc = "wait"
        /\ ready = FALSE /\ rx = 0 /\ sent = 0 /\ closed = FALSE

\* One send of the client, of the size of n reads.
Send(n) ==
  /\ ~closed /\ sent + n <= MaxSend
  /\ sent' = sent + n /\ rx' = rx + n /\ ready' = TRUE
  /\ UNCHANGED <<server, pc, closed>>

CloseClient ==
  /\ ~closed
  /\ closed' = TRUE /\ ready' = TRUE
  /\ UNCHANGED <<server, pc, rx, sent>>

Wait ==
  /\ pc = "wait" /\ ready
  /\ ready' = FALSE
  /\ pc' = "read"
  /\ UNCHANGED <<server, rx, sent, closed>>

\* Mutant: the loop ends after a read that is not the last.
AfterOnce == "wait"

\* Where a read that returned input leads.
AfterRead == IF server = "noblock" THEN "read" ELSE "wait"

\* read with input; without any, which is the end of the inner loop or, when
\* the socket blocks, of the program once the client closed: else it waits.
Read ==
  /\ pc = "read"
  /\ \/ rx > 0 /\ rx' = rx - 1 /\ pc' = AfterRead
     \/ rx = 0 /\ server = "noblock" /\ pc' = "wait" /\ UNCHANGED rx
     \/ rx = 0 /\ server = "block" /\ closed /\ pc' = "exit" /\ UNCHANGED rx
  /\ UNCHANGED <<server, ready, sent, closed>>

Serve == Wait \/ Read
Next == Serve \/ CloseClient \/ \E n \in 1 .. MaxSend : Send(n)

-----------------------------------------------------------------------------
\* With the inner loop, whatever the client sends is read: input that arrives
\* while the loop runs, or just after its last read, is not left behind an edge
\* that was taken already.
InputIsRead == (server = "noblock" /\ rx > 0) ~> (rx = 0)
=============================================================================
