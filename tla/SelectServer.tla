---------------------------- MODULE SelectServer ----------------------------
(***************************************************************************)
(* The echo server of c/linux/userland/net/select/select_server_multi_     *)
(* client.c: one thread, blocking sockets, and one pass over the           *)
(* descriptors in the order of their numbers after each select.            *)
(*                                                                         *)
(* Descriptors and clients are those of PollServer, with number 0 for the  *)
(* listening socket, which was opened first: accept returns the lowest     *)
(* free number, one that this pass may have closed.  A client sends less   *)
(* than fills buf at a time.                                               *)
(***************************************************************************)
EXTENDS Naturals, FiniteSets

CONSTANTS Conns,    \* the connections clients may open, each used once
          Unused,   \* what a free descriptor refers to
          NFds,     \* descriptors left for connections (RLIMIT_NOFILE)
          MaxUnread \* reads' worth of input a client may have unread (bound)

Server == 0
Fds == 1 .. NFds

VARIABLES pc,               \* "select", "pass", "send"; "exit", "killed"
          readfds, testfds,
          fd,               \* where the pass is
          fdtab,            \* what each descriptor refers to
          conn,             \* "new", "backlog", "open" or "closed" by the server
          peer,             \* "open", "fin" (closed), "reset" (aborted, or lost),
                            \* "pipe" (and the server was told so)
          rx,               \* input the server has not read
          writable          \* is there room for what the server sends?

clients == <<peer, rx, writable>>
vars == <<pc, readfds, testfds, fd, fdtab, conn, clients>>

Init == /\ pc = "select"
        /\ readfds = {Server} /\ testfds = {} /\ fd = 0
        /\ fdtab = [f \in Fds |-> Unused]
        /\ conn = [c \in Conns |-> "new"]
        /\ peer = [c \in Conns |-> "open"]
        /\ rx = [c \in Conns |-> 0]
        /\ writable = [c \in Conns |-> TRUE]

Backlog == {c \in Conns : conn[c] = "backlog"}
FreeFds == {f \in Fds : fdtab[f] = Unused}
Lowest(S) == CHOOSE x \in S : \A y \in S : x <= y

HasInput(c) == rx[c] > 0 \/ peer[c] # "open"
Readable(f) == IF f = Server THEN Backlog # {} ELSE HasInput(fdtab[f])

\* A set bit whose descriptor is closed makes select fail; so may a lack of memory.
SelectFails ==
  /\ pc' = "exit"
  /\ UNCHANGED <<testfds, fd>>

SelectReturns ==
  /\ \A f \in readfds \ {Server} : fdtab[f] # Unused
  /\ testfds' = {f \in readfds : Readable(f)}
  /\ testfds' # {}
  /\ fd' = 0
  /\ pc' = "pass"

Select == /\ pc = "select"
          /\ SelectFails \/ SelectReturns
          /\ UNCHANGED <<readfds, fdtab, conn, clients>>

\* Bits that are not set are stepped over.
Set == {f \in testfds : f >= fd}
At(f) == pc = "pass" /\ Set # {} /\ f = Lowest(Set)

EndPass == /\ pc = "pass" /\ Set = {}
           /\ pc' = "select"
           /\ UNCHANGED <<readfds, testfds, fd, fdtab, conn, clients>>

\* Mutant: the new client is put into the set of this pass, too.
AcceptedInPass(f) ==
  readfds' = readfds \union {f} /\ testfds' = testfds \union {f}

Accepted(f) == readfds' = readfds \union {f} /\ UNCHANGED testfds

\* There is no descriptor, or the kernel has no memory.
AcceptFails ==
  /\ pc' = "exit"
  /\ UNCHANGED <<readfds, testfds, fd, fdtab, conn>>

AcceptClient ==
  /\ FreeFds # {}
  /\ \E c \in Backlog : /\ fdtab' = [fdtab EXCEPT ![Lowest(FreeFds)] = c]
                        /\ conn' = [conn EXCEPT ![c] = "open"]
  /\ Accepted(Lowest(FreeFds))
  /\ fd' = Server + 1
  /\ UNCHANGED pc

Accept ==
  /\ At(Server)
  /\ AcceptFails \/ AcceptClient
  /\ UNCHANGED clients

\* Mutant: the bit of a closed descriptor stays.
ClearedNot(f) == UNCHANGED readfds

Cleared(f) == readfds' = readfds \ {f}

\* recv returns 0, or fails as the client aborted.
Close(f) ==
  /\ At(f) /\ f # Server /\ rx[fdtab[f]] = 0 /\ peer[fdtab[f]] # "open"
  /\ Cleared(f)
  /\ fdtab' = [fdtab EXCEPT ![f] = Unused]
  /\ conn' = [conn EXCEPT ![fdtab[f]] = "closed"]
  /\ fd' = f + 1
  /\ UNCHANGED <<pc, testfds, clients>>

\* recv: what is received is to be sent back.
Recv(f) ==
  /\ At(f) /\ f # Server /\ rx[fdtab[f]] > 0
  /\ rx' = [rx EXCEPT ![fdtab[f]] = @ - 1]
  /\ fd' = f
  /\ pc' = "send"
  /\ UNCHANGED <<readfds, testfds, fdtab, conn, peer, writable>>

\* send, on a blocking socket, as PollServer's write: it waits for room for as
\* long as the client is there.
Sent(c) ==
  /\ \/ /\ peer[c] = "open" /\ writable[c] /\ peer' = peer
        /\ \E w \in BOOLEAN : writable' = [writable EXCEPT ![c] = w]
     \/ /\ peer[c] \in {"fin", "reset"} /\ writable' = writable
        /\ \E told \in {peer[c], "pipe"} :
             /\ told = peer[c] => peer[c] = "reset" /\ ~writable[c]
             /\ peer' = [peer EXCEPT ![c] = told]
  /\ fd' = fd + 1
  /\ pc' = "pass"

SendKills(c) ==
  /\ peer[c] \in {"fin", "pipe"}
  /\ peer[c] = "fin" => ~writable[c]
  /\ pc' = "killed"
  /\ UNCHANGED <<fd, peer, writable>>

Send == /\ pc = "send"
        /\ Sent(fdtab[fd]) \/ SendKills(fdtab[fd])
        /\ UNCHANGED <<readfds, testfds, fdtab, conn, rx>>

-----------------------------------------------------------------------------
(* Clients                                                                 *)

Connect(c) ==
  /\ conn[c] = "new"
  /\ conn' = [conn EXCEPT ![c] = "backlog"]
  /\ UNCHANGED <<pc, readfds, testfds, fd, fdtab, clients>>

Connected(c) == conn[c] \in {"backlog", "open"} /\ peer[c] = "open"

ClientSend(c) ==
  /\ Connected(c) /\ rx[c] < MaxUnread
  /\ rx' = [rx EXCEPT ![c] = @ + 1]
  /\ UNCHANGED <<pc, readfds, testfds, fd, fdtab, conn, peer, writable>>

\* The client reads what it was sent.
ClientRead(c) ==
  /\ Connected(c) /\ ~writable[c]
  /\ writable' = [writable EXCEPT ![c] = TRUE]
  /\ UNCHANGED <<pc, readfds, testfds, fd, fdtab, conn, peer, rx>>

Leave(c) ==
  /\ Connected(c)
  /\ \E how \in {"fin", "reset"} : peer' = [peer EXCEPT ![c] = how]
  /\ UNCHANGED <<pc, readfds, testfds, fd, fdtab, conn, rx, writable>>

Client(c) == Connect(c) \/ ClientSend(c) \/ ClientRead(c) \/ Leave(c)

Up == pc \in {"select", "pass", "send"}

Serve == Select \/ EndPass \/ Accept \/ Send \/ \E f \in Fds : Close(f) \/ Recv(f)

Next == Serve \/ (Up /\ \E c \in Conns : Client(c))

Spec == Init /\ [][Next]_vars

-----------------------------------------------------------------------------
\* The bits of readfds are those of the open clients: no bit outlives its
\* descriptor, to end the server at the next select or to stand for the next
\* client with that number.  And a descriptor whose turn comes in a pass still is
\* the client that select reported: recv does not block, although descriptors are
\* closed and handed out during the pass.
SelectedExact ==
  Up =>
    /\ readfds = {Server} \union {f \in Fds : fdtab[f] # Unused}
    /\ \A f \in Fds : At(f) => fdtab[f] # Unused /\ HasInput(fdtab[f])
=============================================================================
