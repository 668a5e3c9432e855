----------------------------- MODULE PollServer -----------------------------
(***************************************************************************)
(* The echo server of c/linux/userland/net/poll/poll_server.c: one thread, *)
(* blocking sockets, and an array of pollfd whose entry 0 is the listening *)
(* socket.  Every round polls entries 0 .. maxi, accepts at most one       *)
(* client, and reads from every client that has input.                     *)
(*                                                                         *)
(* The descriptors and the clients are modelled as in EpollLoop: accept    *)
(* returns the lowest free descriptor, so that a number that was closed    *)
(* but is still in the array soon names another client.                    *)
(***************************************************************************)
EXTENDS Naturals, FiniteSets

CONSTANTS Conns,        \* the connections clients may open, each used once
          Unused,       \* not a connection: what a free descriptor refers to
          MaxClients,   \* MAX_CLIENTS, the length of the array
          NFds,         \* descriptors left for connections (RLIMIT_NOFILE)
          MaxUnread     \* reads' worth of input a client may have unread (bound)

ASSUME SizesAssumption == /\ MaxClients \in Nat /\ MaxClients >= 2
                          /\ NFds \in Nat \ {0}
                          /\ MaxUnread \in Nat
ASSUME UnusedAssumption == Unused \notin Conns

Free  == 0                       \* clients[i].fd < 0
Fds   == 1 .. NFds
Slots == 0 .. MaxClients - 1
Last  == MaxClients - 1

VARIABLES pc,           \* "poll", "accept", "clients", "write"; "exit", "killed",
                        \* "corrupt" (clients[MAX_CLIENTS] was written)
          fd,           \* clients[i].fd, i > 0
          revents,      \* clients[i].revents: "none", "in" (POLLIN), "other" or
                        \* "stack": never written, and POLLIN happens to be set
          maxi,
          nready,
          i,            \* where the loop over the clients is
          fdtab,        \* what each descriptor refers to
          conn,         \* "new", "backlog", "open" or "closed" by the server
          peer,         \* "open", "fin" (client closed), "reset" (client aborted,
                        \* or was lost), "pipe" (and the server was told so)
          rx,           \* input the server has not read
          writable      \* is there room for what the server writes?

array   == <<fd, revents, maxi>>
clients == <<peer, rx, writable>>
vars == <<pc, array, nready, i, fdtab, conn, clients>>

Up == pc \in {"poll", "accept", "clients", "write"}

\* main up to the loop.  The array is a local variable: the revents of an entry
\* that was never polled are whatever was on the stack.  Entry 0 always is polled
\* before it is looked at.
Init ==
  /\ pc = "poll"
  /\ fd = [s \in Slots |-> Free]
  /\ revents \in [Slots -> {"none", "stack"}]
  /\ revents[0] = "none"
  /\ maxi = 0
  /\ nready = 0
  /\ i = 1
  /\ fdtab = [f \in Fds |-> Unused]
  /\ conn = [c \in Conns |-> "new"]
  /\ peer = [c \in Conns |-> "open"]
  /\ rx = [c \in Conns |-> 0]
  /\ writable = [c \in Conns |-> TRUE]

-----------------------------------------------------------------------------
Backlog == {c \in Conns : conn[c] = "backlog"}

HasInput(c) == rx[c] > 0 \/ peer[c] # "open"

\* What poll says of an entry: a closed descriptor is POLLNVAL, not POLLIN.
Polled(s) ==
  IF s = 0 THEN IF Backlog # {} THEN "in" ELSE "none"
  ELSE IF fd[s] = Free THEN "none"
  ELSE IF fdtab[fd[s]] = Unused THEN "other"
  ELSE IF HasInput(fdtab[fd[s]]) THEN "in" ELSE "none"

Reported == {s \in 0 .. maxi : Polled(s) # "none"}

\* poll without a timeout.  Its result is not tested; that it fails, which
\* takes a kernel without memory, is left out.
Poll ==
  /\ pc = "poll"
  /\ Reported # {}
  /\ nready' = Cardinality(Reported)
  /\ revents' = [s \in Slots |-> IF s <= maxi THEN Polled(s) ELSE revents[s]]
  /\ i' = 1
  /\ pc' = IF Backlog # {} THEN "accept" ELSE "clients"
  /\ UNCHANGED <<fd, maxi, fdtab, conn, clients>>

FreeFds   == {f \in Fds : fdtab[f] = Unused}
\* Mutant: an entry is taken without looking whether it is free.
FreeSlotsAny == Slots \ {0}

FreeSlots == {s \in Slots \ {0} : fd[s] = Free}
Lowest(S) == CHOOSE x \in S : \A y \in S : x <= y

\* There is no descriptor, or the kernel has no memory.
AcceptFails ==
  /\ pc' = "exit"
  /\ UNCHANGED <<array, nready, fdtab, conn>>

\* The search for a free entry ends at MAX_CLIENTS: clients[MAX_CLIENTS].events
\* is written, outside the array, and the descriptor is not closed.
AcceptOverflows ==
  /\ FreeFds # {} /\ FreeSlots = {}
  /\ \E c \in Backlog : /\ fdtab' = [fdtab EXCEPT ![Lowest(FreeFds)] = c]
                        /\ conn' = [conn EXCEPT ![c] = "open"]
  /\ pc' = "corrupt"
  /\ UNCHANGED <<array, nready>>

\* The test for "too many clients" follows the search, and is true of the last
\* entry: its client is closed, though the entry is kept.
Refuses(s) == s = Last

\* Mutant: the new client is not counted off.
AcceptedUncounted ==
  /\ nready' = nready
  /\ pc' = "clients"

\* The listening socket is counted off what poll reported.
Accepted ==
  /\ nready' = nready - 1
  /\ pc' = IF nready - 1 <= 0 THEN "poll" ELSE "clients"

AcceptClient ==
  /\ FreeFds # {} /\ FreeSlots # {}
  /\ LET f == Lowest(FreeFds)
         s == Lowest(FreeSlots)
     IN /\ fd' = [fd EXCEPT ![s] = f]
        /\ \E c \in Backlog :
             IF Refuses(s)
             THEN conn' = [conn EXCEPT ![c] = "closed"] /\ UNCHANGED fdtab
             ELSE conn' = [conn EXCEPT ![c] = "open"] /\ fdtab' = [fdtab EXCEPT ![f] = c]
        /\ maxi' = IF s > maxi THEN s ELSE maxi
  /\ Accepted
  /\ UNCHANGED revents

Accept ==
  /\ pc = "accept"
  /\ AcceptFails \/ AcceptOverflows \/ AcceptClient
  /\ UNCHANGED <<i, clients>>

-----------------------------------------------------------------------------
(* The loop over the clients                                               *)

\* Entries without a descriptor or without POLLIN are stepped over.
ToRead == {s \in i .. maxi : fd[s] # Free /\ revents[s] \in {"in", "stack"}}

EndRound ==
  /\ pc = "clients"
  /\ ToRead = {}
  /\ pc' = "poll"
  /\ UNCHANGED <<array, nready, i, fdtab, conn, clients>>

\* Mutant: one client a round.
OneClient(s) ==
  /\ nready' = nready - 1
  /\ i' = s + 1
  /\ pc' = "poll"

\* The end of an iteration that read.
NextClient(s) ==
  /\ nready' = nready - 1
  /\ i' = s + 1
  /\ pc' = IF nready - 1 <= 0 THEN "poll" ELSE "clients"

\* read fails, and not with ECONNRESET: the descriptor is closed, or the client
\* was lost (ETIMEDOUT).
ReadFails(s) ==
  /\ fdtab[fd[s]] # Unused => rx[fdtab[fd[s]]] = 0 /\ peer[fdtab[fd[s]]] = "reset"
  /\ pc' = "exit"
  /\ UNCHANGED <<array, nready, i, fdtab, conn, clients>>

\* Mutant: the entry keeps the descriptor that is closed.
ReadEndsKeeps(s, c) ==
  /\ rx[c] = 0 /\ peer[c] # "open"
  /\ fdtab' = [fdtab EXCEPT ![fd[s]] = Unused]
  /\ conn' = [conn EXCEPT ![c] = "closed"]
  /\ NextClient(s)
  /\ UNCHANGED <<array, clients>>

\* End of file, or a reset.
ReadEnds(s, c) ==
  /\ rx[c] = 0 /\ peer[c] # "open"
  /\ fdtab' = [fdtab EXCEPT ![fd[s]] = Unused]
  /\ conn' = [conn EXCEPT ![c] = "closed"]
  /\ fd' = [fd EXCEPT ![s] = Free]
  /\ NextClient(s)
  /\ UNCHANGED <<revents, maxi, clients>>

\* What was read is to be written back.
ReadEchoes(s, c) ==
  /\ rx[c] > 0
  /\ rx' = [rx EXCEPT ![c] = @ - 1]
  /\ i' = s
  /\ pc' = "write"
  /\ UNCHANGED <<array, nready, fdtab, conn, peer, writable>>

\* One iteration that reads.  The socket is blocking: without input the whole
\* server waits here.
ReadClient ==
  /\ pc = "clients"
  /\ ToRead # {}
  /\ LET s == Lowest(ToRead)
         c == fdtab[fd[s]]
     IN \/ ReadFails(s)
        \/ c \in Conns /\ (ReadEnds(s, c) \/ ReadEchoes(s, c))

\* write to a client that is there: it waits for room, for as long as it takes.
Written(c) ==
  /\ peer[c] = "open" /\ writable[c]
  /\ \E w \in BOOLEAN : writable' = [writable EXCEPT ![c] = w]
  /\ UNCHANGED peer

\* A client that is gone never makes it wait.  The first write to one that
\* closed is answered by a reset; to one that aborted it fails, or returns what
\* was taken before; the next one, or the reset while it waits, is SIGPIPE.
WrittenToNobody(c) ==
  /\ peer[c] \in {"fin", "reset"}
  /\ \E told \in {peer[c], "pipe"} :
       /\ told = peer[c] => peer[c] = "reset" /\ ~writable[c]
       /\ peer' = [peer EXCEPT ![c] = told]
  /\ UNCHANGED writable

WriteKills(c) ==
  /\ peer[c] \in {"fin", "pipe"}
  /\ peer[c] = "fin" => ~writable[c]
  /\ pc' = "killed"
  /\ UNCHANGED <<nready, i, peer, writable>>

\* The result of write is not looked at.
Write ==
  /\ pc = "write"
  /\ LET c == fdtab[fd[i]]
     IN \/ (Written(c) \/ WrittenToNobody(c)) /\ NextClient(i)
        \/ WriteKills(c)
  /\ UNCHANGED <<array, fdtab, conn, rx>>

-----------------------------------------------------------------------------
(* Clients                                                                 *)

Connect(c) ==
  /\ conn[c] = "new"
  /\ conn' = [conn EXCEPT ![c] = "backlog"]
  /\ UNCHANGED <<pc, array, nready, i, fdtab, clients>>

Connected(c) == conn[c] \in {"backlog", "open"} /\ peer[c] = "open"

ClientSend(c) ==
  /\ Connected(c)
  /\ rx[c] < MaxUnread
  /\ rx' = [rx EXCEPT ![c] = @ + 1]
  /\ UNCHANGED <<pc, array, nready, i, fdtab, conn, peer, writable>>

\* The client reads what it was sent: there is room to write again.
ClientRead(c) ==
  /\ Connected(c)
  /\ ~writable[c]
  /\ writable' = [writable EXCEPT ![c] = TRUE]
  /\ UNCHANGED <<pc, array, nready, i, fdtab, conn, peer, rx>>

ClientClose(c) ==
  /\ Connected(c)
  /\ \E how \in {"fin", "reset"} : peer' = [peer EXCEPT ![c] = how]
  /\ UNCHANGED <<pc, array, nready, i, fdtab, conn, rx, writable>>

Server == Poll \/ Accept \/ EndRound \/ ReadClient \/ Write
Client(c) == Up /\ (Connect(c) \/ ClientSend(c) \/ ClientRead(c) \/ ClientClose(c))

\* Nothing is of interest once the server has stopped.
Next == Server \/ \E c \in Conns : Client(c)

Spec == Init /\ [][Next]_vars

\* The server runs; clients owe nothing.
FairSpec == Spec /\ WF_vars(Server)

-----------------------------------------------------------------------------
(* Properties                                                              *)

TypeOK == /\ pc \in {"poll", "accept", "clients", "write",
                    "exit", "killed", "corrupt"}
          /\ fd \in [Slots -> Fds \cup {Free}]
          /\ revents \in [Slots -> {"none", "in", "other", "stack"}]
          /\ maxi \in Slots
          /\ nready \in 0 .. MaxClients
          /\ i \in 1 .. MaxClients
          /\ fdtab \in [Fds -> Conns \cup {Unused}]
          /\ conn \in [Conns -> {"new", "backlog", "open", "closed"}]
          /\ peer \in [Conns -> {"open", "fin", "pipe", "reset"}]
          /\ rx \in [Conns -> 0 .. MaxUnread]
          /\ writable \in [Conns -> BOOLEAN]

\* Every connected client is among the entries that poll looks at, however the
\* entries were freed and taken again, while the array is intact.
EveryClientPolled ==
  /\ TypeOK
  /\ Up => \A c \in Conns : conn[c] = "open" =>
              \E s \in 1 .. maxi : fd[s] # Free /\ fdtab[fd[s]] = c

\* read never waits, nor fails for want of a descriptor: the entry whose turn it
\* is has a client, and this client has input or is gone, whatever was accepted,
\* closed or read since poll returned; and an entry poll never looked at is not
\* come to, though POLLIN may happen to be set in it.
ReadsDoNotBlock ==
  pc = "clients" /\ ToRead # {} =>
    LET c == fdtab[fd[Lowest(ToRead)]] IN c \in Conns /\ HasInput(c)

\* An entry before the last one names an open descriptor, and one that no other
\* entry names; the last one, whose client was refused, keeps a closed number
\* that is not handed out again.  So no entry left behind ever stands for
\* another client.
EntriesExact ==
  Up => /\ \A s \in Slots \ {Last} : fd[s] # Free =>
             /\ fdtab[fd[s]] # Unused
             /\ \A t \in Slots : fd[t] = fd[s] => t = s
        /\ fd[Last] # Free => fdtab[fd[Last]] = Unused

\* A client is refused, with the message "too many clients", only when there is
\* no entry left for it.
RefusedOnlyWhenFull ==
  [][\A c \in Conns : conn[c] = "backlog" /\ conn'[c] = "closed"
       => FreeSlots = {}]_vars

\* The server has read from c and writes back.
Echoing(c) == pc = "write" /\ fdtab[fd[i]] = c

\* A client that sent something is accepted and read from, or it is refused or
\* its connection ends, although the others go on sending: nready never hides a
\* client for ever.  This is so as long as no client keeps the server in write by
\* not reading what it is sent.
Served ==
  ([]<>(pc # "write")) =>
    \A c \in Conns :
      conn[c] \in {"backlog", "open"} /\ rx[c] > 0
        ~> Echoing(c) \/ conn[c] = "closed" \/ ~Up
=============================================================================
