----------------------------- MODULE EpollLoop -----------------------------
(***************************************************************************)
(* The echo server of c/linux/userland/net/epoll/epoll_loop: one thread, a *)
(* table g_events of connection slots whose last entry is the listening    *)
(* socket, and the loop  sweep for idle connections; epoll_wait; run the   *)
(* callback of every event returned.                                       *)
(*                                                                         *)
(* The kernel (descriptors, the epoll interest list, TCP as a server sees  *)
(* it) and the clients are modelled as far as the code can tell: epoll is  *)
(* level triggered, accept returns the lowest free descriptor, close drops *)
(* a descriptor from the interest list.  Bytes are counted, not spelled.   *)
(***************************************************************************)
EXTENDS Naturals, FiniteSets

CONSTANTS Conns,        \* the connections clients may open, each used once
          Refused,      \* not a connection: what a free descriptor refers to
          MaxEvents,    \* MAX_EVENTS, the number of connection slots
          NFds,         \* descriptors left for connections (RLIMIT_NOFILE)
          PerRound,     \* slots checked for a timeout in a round (100)
          TimeOut,      \* TIME_OUT
          MaxBuf,       \* MAX_BUFFER_SIZE
          LowByte,      \* 256: the weight of the second byte of buffer_size
          MaxSend,      \* bytes a client sends in all (bound)
          ShortSends    \* may send() take part of the buffer?

ASSUME SizesAssumption ==
  /\ {MaxEvents, NFds, PerRound, MaxBuf, LowByte} \subseteq Nat \ {0}
  /\ {TimeOut, MaxSend} \subseteq Nat
  /\ PerRound <= MaxEvents
  /\ MaxBuf % LowByte = 0
ASSUME ShortSendsAssumption == ShortSends \in BOOLEAN
ASSUME RefusedAssumption == Refused \notin Conns

NoFd     == 0                    \* an unused slot is zero-filled
ListenFd == NFds + 1
Fds      == 1 .. NFds + 1        \* descriptors other than 0, 1, 2 and g_efd
Slots    == 0 .. MaxEvents
Listener == MaxEvents            \* the slot of the listening socket
NotRegistered == [slot |-> Listener, mask |-> "none"]

VARIABLES pc,           \* "sweep", "wait", "dispatch"; "exit" (the kernel failed),
                        \* "refused" (epoll_ctl was called for what cannot be),
                        \* "killed"
          ev,           \* g_events
          checkpos,     \* where the next sweep starts
          batch,        \* events returned by epoll_wait, not yet handled
          fdtab,        \* what each descriptor refers to
          reg,          \* the interest list: data.ptr and mask of each fd
          conn,         \* "new", "backlog", "open" or "closed" by the server
          peer,         \* "open", "fin" (client closed), "pipe" (and answered
                        \* with a reset), "reset" (client aborted)
          rx,           \* bytes the server has not read
          writable,     \* may the server write?
          sent,         \* bytes the client has sent
          owed,         \* bytes read from the client, not written back
          idle          \* ticks since the server last read or wrote

kernel  == <<fdtab, reg, conn>>
clients == <<peer, rx, writable, sent, owed, idle>>
vars == <<pc, ev, checkpos, batch, kernel, clients>>

Up == pc \in {"sweep", "wait", "dispatch"}

-----------------------------------------------------------------------------
(* event_set, event_add and event_del, on a slot e and the interest list r *)

EventSet(e, fd, cb) ==
  [e EXCEPT !.fd = fd, !.events = "none", !.cb = cb, !.status = 0, !.age = 0]

EventAdd(e, mask) == [e EXCEPT !.events = mask, !.status = 1]

\* EPOLL_CTL_MOD for a slot believed registered, EPOLL_CTL_ADD otherwise; the
\* kernel refuses to change what is not registered and to add what is.
EventAddOk(e, r) == (e.status = 1) <=> (r[e.fd] # NotRegistered)

EventDel(e) == [e EXCEPT !.status = 0]

\* Mutant: EPOLL_CTL_DEL is forgotten.
EventDelForgets(e, r) == r

EventDelReg(e, r) ==
  IF e.status # 1 \/ e.fd \notin Fds THEN r ELSE [r EXCEPT ![e.fd] = NotRegistered]

EmptySlot == [fd |-> NoFd, events |-> "none", cb |-> "none", status |-> 0,
              age |-> 0, size |-> 0]

\* main up to the loop, init_listen_socket included.
Init ==
  /\ pc = "sweep"
  /\ ev = [s \in Slots |->
             IF s = Listener
             THEN EventAdd(EventSet(EmptySlot, ListenFd, "accept"), "in")
             ELSE EmptySlot]
  /\ checkpos = 0
  /\ batch = {}
  /\ fdtab = [f \in Fds |-> Refused]
  /\ reg = [f \in Fds |-> IF f = ListenFd THEN [slot |-> Listener, mask |-> "in"]
                          ELSE NotRegistered]
  /\ conn = [c \in Conns |-> "new"]
  /\ peer = [c \in Conns |-> "open"]
  /\ rx = [c \in Conns |-> 0]
  /\ writable = [c \in Conns |-> TRUE]
  /\ sent = [c \in Conns |-> 0]
  /\ owed = [c \in Conns |-> 0]
  /\ idle = [c \in Conns |-> 0]

-----------------------------------------------------------------------------
(* The sweep                                                               *)

\* Mutant: every round starts from slot 0.
VisitedFirst == 0 .. PerRound - 1

\* Mutant: a slot whose last activity is TIME_OUT ago is closed already.
ExpiredEarly(e) == e.status # 0 /\ e.age >= TimeOut

\* The slots a round looks at, and where it stops: checkpos is set back to 0
\* only at the top of an iteration.
Visited == {(checkpos + k) % MaxEvents : k \in 0 .. PerRound - 1}
NextCheckpos == ((checkpos + PerRound - 1) % MaxEvents) + 1

Expired(e) == e.status # 0 /\ e.age > TimeOut

Sweep ==
  LET swept == {s \in Visited : Expired(ev[s])}
      shut  == {ev[s].fd : s \in swept}
  IN
  /\ pc = "sweep"
  /\ fdtab' = [f \in Fds |-> IF f \in shut THEN Refused ELSE fdtab[f]]
  /\ reg' = [f \in Fds |-> IF f \in shut THEN NotRegistered ELSE reg[f]]
  /\ conn' = [c \in Conns |-> IF \E f \in shut : fdtab[f] = c THEN "closed" ELSE conn[c]]
  /\ ev' = [s \in Slots |-> IF s \in swept THEN EventDel(ev[s]) ELSE ev[s]]
  /\ checkpos' = NextCheckpos
  /\ pc' = "wait"
  /\ UNCHANGED <<batch, clients>>

-----------------------------------------------------------------------------
(* epoll_wait                                                              *)

Backlog == {c \in Conns : conn[c] = "backlog"}

Readable(f) == IF f = ListenFd THEN Backlog # {}
               ELSE /\ fdtab[f] # Refused
                    /\ rx[fdtab[f]] > 0 \/ peer[fdtab[f]] # "open"

Writable(f) == /\ fdtab[f] # Refused
               /\ writable[fdtab[f]] \/ peer[fdtab[f]] \in {"pipe", "reset"}

ReadyFd(f) == \/ reg[f].mask = "in" /\ Readable(f)
              \/ reg[f].mask = "out" /\ Writable(f)

Ready == {reg[f] : f \in {g \in Fds : ReadyFd(g)}}

WaitReturns ==
  /\ batch' = Ready
  /\ pc' = IF Ready = {} THEN "sweep" ELSE "dispatch"

\* Interrupted, as when the program is stopped and continued.
WaitFails ==
  /\ pc' = "exit"
  /\ UNCHANGED batch

EpollWait ==
  /\ pc = "wait"
  /\ WaitReturns \/ WaitFails
  /\ UNCHANGED <<ev, checkpos, kernel, clients>>

\* Mutant: an event may be handled twice.
HandledTwice(e) ==
  /\ pc = "dispatch"
  /\ batch' \in {batch, batch \ {e}}
  /\ UNCHANGED checkpos

\* The loop over the events returned: in any order, one at a time.
Handled(e) ==
  /\ pc = "dispatch"
  /\ batch' = batch \ {e}
  /\ UNCHANGED checkpos

AfterEvent(e) == IF batch = {e} THEN "sweep" ELSE "dispatch"

\* epoll_ctl failing ends the program: it is refused, or there is no memory.
AfterAdd(e, ok) == IF ok THEN {AfterEvent(e), "exit"} ELSE {"refused"}

-----------------------------------------------------------------------------
(* The callbacks                                                           *)

FreeSlots == {s \in Slots \ {Listener} : ev[s].fd = NoFd}
FreeFds   == {f \in Fds \ {ListenFd} : fdtab[f] = Refused}
Lowest(S) == CHOOSE x \in S : \A y \in S : x <= y

\* There is no descriptor for the connection (or no memory, or the system has
\* too many files open).
AcceptFails(e) ==
  /\ pc' = "exit"
  /\ UNCHANGED <<ev, kernel, clients>>

TooManyConnections(e) ==
  /\ FreeFds # {} /\ FreeSlots = {}
  /\ \E c \in Backlog : conn' = [conn EXCEPT ![c] = "closed"]
  /\ pc' = AfterEvent(e)
  /\ UNCHANGED <<ev, fdtab, reg, clients>>

NewConnection(e) ==
  /\ FreeFds # {} /\ FreeSlots # {}
  /\ LET f == Lowest(FreeFds)
         s == Lowest(FreeSlots)
         set == EventSet(ev[s], f, "recv")
         ok == EventAddOk(set, reg)
     IN /\ \E c \in Backlog :
             /\ conn' = [conn EXCEPT ![c] = "open"]
             /\ fdtab' = [fdtab EXCEPT ![f] = c]
             /\ idle' = [idle EXCEPT ![c] = 0]
        /\ ev' = [ev EXCEPT ![s] = EventAdd(set, "in")]
        /\ reg' = [reg EXCEPT ![f] = [slot |-> s, mask |-> "in"]]
        /\ pc' \in AfterAdd(e, ok)
        /\ UNCHANGED <<peer, rx, writable, sent, owed>>

\* accept_conn_callback
AcceptConn(e) ==
  /\ Handled(e)
  /\ e.mask = "in" /\ ev[e.slot].events = "in" /\ ev[e.slot].cb = "accept"
  /\ AcceptFails(e) \/ TooManyConnections(e) \/ NewConnection(e)

\* The slot is registered again, for the other direction.
Rearm(e, cb, mask, slot) ==
  LET f == slot.fd
      unregistered == EventDelReg(slot, reg)
      set == EventSet(EventDel(slot), f, cb)
  IN /\ ev' = [ev EXCEPT ![e.slot] = EventAdd(set, mask)]
     /\ reg' = [unregistered EXCEPT ![f] = [slot |-> e.slot, mask |-> mask]]
     /\ pc' \in AfterAdd(e, EventAddOk(set, unregistered))
     /\ idle' = [idle EXCEPT ![fdtab[f]] = 0]
     /\ UNCHANGED <<fdtab, conn>>

\* Mutant: the slot is taken out of epoll, the descriptor is not closed.
CloseConnLeaks(e) ==
  /\ ev' = [ev EXCEPT ![e.slot] = EventDel(@)]
  /\ reg' = [reg EXCEPT ![ev[e.slot].fd] = NotRegistered]
  /\ pc' = AfterEvent(e)
  /\ UNCHANGED <<fdtab, conn>>

\* The slot keeps the number of the descriptor that is closed.
CloseConn(e) ==
  LET f == ev[e.slot].fd
  IN /\ ev' = [ev EXCEPT ![e.slot] = EventDel(@)]
     /\ fdtab' = [fdtab EXCEPT ![f] = Refused]
     /\ reg' = [reg EXCEPT ![f] = NotRegistered]
     /\ conn' = [conn EXCEPT ![fdtab[f]] = "closed"]
     /\ pc' = AfterEvent(e)

\* Mutant: the terminator overwrites the whole of buffer_size.
TerminatedAll(nread) == IF nread = MaxBuf THEN 0 ELSE nread

\* buffer[nread] = '\0': a full buffer is terminated in the low byte of the
\* member that follows it, buffer_size.
Terminated(nread) ==
  IF nread = MaxBuf THEN nread - (nread % LowByte) ELSE nread

NRead(c) == IF rx[c] <= MaxBuf THEN rx[c] ELSE MaxBuf

\* recv_data_callback
RecvData(e) ==
  LET c == fdtab[ev[e.slot].fd]
      nread == NRead(c)
  IN /\ Handled(e)
     /\ e.mask = "in" /\ ev[e.slot].events = "in" /\ ev[e.slot].cb = "recv"
     /\ c \in Conns
     /\ \/ /\ nread > 0
           /\ rx' = [rx EXCEPT ![c] = @ - nread]
           /\ owed' = [owed EXCEPT ![c] = @ + nread]
           /\ Rearm(e, "send", "out", [ev[e.slot] EXCEPT !.size = Terminated(nread)])
           /\ UNCHANGED <<peer, writable, sent>>
        \/ /\ nread = 0
           /\ CloseConn(e)
           /\ UNCHANGED clients

\* How many bytes send() may take: all, or what fits.
Takes(size) == IF ShortSends THEN 1 .. size ELSE {size} \ {0}

SendOk(e, c) ==
  /\ peer[c] \in {"open", "fin"}
  /\ writable[c]
  /\ \E len \in Takes(ev[e.slot].size) :
       /\ owed' = [owed EXCEPT ![c] = @ - len]
       /\ \E w \in IF len < ev[e.slot].size THEN {FALSE} ELSE BOOLEAN :
            writable' = [writable EXCEPT ![c] = w]
  /\ peer' = [peer EXCEPT ![c] = IF @ = "fin" THEN "pipe" ELSE "open"]
  /\ Rearm(e, "recv", "in", [ev[e.slot] EXCEPT !.size = 0])
  /\ UNCHANGED <<rx, sent>>

\* send() returns 0 or -1.
SendFails(e, c) ==
  /\ \/ peer[c] = "reset"
     \/ /\ peer[c] # "pipe"
        /\ ~writable[c] \/ ev[e.slot].size = 0
  /\ CloseConn(e)
  /\ UNCHANGED clients

\* SIGPIPE, neither ignored nor suppressed by MSG_NOSIGNAL.
SendKills(c) ==
  /\ peer[c] = "pipe"
  /\ pc' = "killed"
  /\ UNCHANGED <<ev, kernel, clients>>

\* send_data_callback
SendData(e) ==
  LET c == fdtab[ev[e.slot].fd]
  IN /\ Handled(e)
     /\ e.mask = "out" /\ ev[e.slot].events = "out" /\ ev[e.slot].cb = "send"
     /\ c \in Conns
     /\ SendOk(e, c) \/ SendFails(e, c) \/ SendKills(c)

Dispatch == \E e \in batch : AcceptConn(e) \/ RecvData(e) \/ SendData(e)

-----------------------------------------------------------------------------
(* Clients and the clock                                                   *)

Connect(c) ==
  /\ conn[c] = "new"
  /\ conn' = [conn EXCEPT ![c] = "backlog"]
  /\ UNCHANGED <<pc, ev, checkpos, batch, fdtab, reg, clients>>

Connected(c) == conn[c] \in {"backlog", "open"} /\ peer[c] = "open"

ClientSend(c) ==
  /\ Connected(c)
  /\ \E k \in {1, MaxBuf} :
       /\ sent[c] + k <= MaxSend
       /\ sent' = [sent EXCEPT ![c] = @ + k]
       /\ rx' = [rx EXCEPT ![c] = @ + k]
  /\ UNCHANGED <<pc, ev, checkpos, batch, kernel, peer, writable, owed, idle>>

\* The client reads what it was sent: there is room to write again.
ClientRead(c) ==
  /\ Connected(c)
  /\ ~writable[c]
  /\ writable' = [writable EXCEPT ![c] = TRUE]
  /\ UNCHANGED <<pc, ev, checkpos, batch, kernel, peer, rx, sent, owed, idle>>

ClientClose(c) ==
  /\ Connected(c)
  /\ \E how \in {"fin", "reset"} : peer' = [peer EXCEPT ![c] = how]
  /\ UNCHANGED <<pc, ev, checkpos, batch, kernel, rx, writable, sent, owed, idle>>

\* A second passes.  Ages stop one past TimeOut; the age of a slot that is not
\* registered is never read.
Older(t) == IF t > TimeOut THEN t ELSE t + 1

Tick ==
  /\ Up
  /\ ev' = [s \in Slots |-> IF ev[s].status = 1
                            THEN [ev[s] EXCEPT !.age = Older(@)] ELSE ev[s]]
  /\ idle' = [c \in Conns |-> IF conn[c] = "open" THEN Older(idle[c]) ELSE idle[c]]
  /\ UNCHANGED <<pc, checkpos, batch, kernel, peer, rx, writable, sent, owed>>

-----------------------------------------------------------------------------
Server == Sweep \/ EpollWait \/ Dispatch

Client(c) == Up /\ (Connect(c) \/ ClientSend(c) \/ ClientRead(c) \/ ClientClose(c))

\* Nothing is of interest once the server has stopped.
Next == Server \/ Tick \/ \E c \in Conns : Client(c)

Spec == Init /\ [][Next]_vars

\* The server runs and time passes; clients owe nothing.
FairSpec == Spec /\ WF_vars(Server) /\ WF_vars(Tick)

-----------------------------------------------------------------------------
(* Properties                                                              *)

Slot == [fd : Fds \cup {NoFd}, events : {"none", "in", "out"},
         cb : {"none", "accept", "recv", "send"}, status : {0, 1},
         age : 0 .. TimeOut + 1, size : 0 .. MaxBuf]

TypeOK == /\ pc \in {"sweep", "wait", "dispatch", "exit", "refused", "killed"}
          /\ ev \in [Slots -> Slot]
          /\ checkpos \in 0 .. MaxEvents
          /\ batch \subseteq [slot : Slots, mask : {"in", "out"}]
          /\ fdtab \in [Fds -> Conns \cup {Refused}]
          /\ reg \in [Fds -> [slot : Slots, mask : {"none", "in", "out"}]]
          /\ conn \in [Conns -> {"new", "backlog", "open", "closed"}]
          /\ peer \in [Conns -> {"open", "fin", "pipe", "reset"}]
          /\ rx \in [Conns -> 0 .. MaxSend]
          /\ writable \in [Conns -> BOOLEAN]
          /\ sent \in [Conns -> 0 .. MaxSend]
          /\ owed \in [Conns -> 0 .. MaxSend]
          /\ idle \in [Conns -> 0 .. TimeOut + 1]

\* status says whether the slot is in epoll (the comment on the member), and
\* then its descriptor is open, is in nobody else's slot, and is watched for
\* exactly the events the slot waits for; conversely whatever epoll watches
\* leads back to the slot that watches it.
SlotsWatched ==
  /\ \A s \in Slots : ev[s].status = 1 =>
       reg[ev[s].fd] = [slot |-> s, mask |-> ev[s].events]
  /\ \A f \in Fds : reg[f] # NotRegistered =>
       /\ ev[reg[f].slot].status = 1
       /\ ev[reg[f].slot].fd = f
       /\ f # ListenFd => fdtab[f] # Refused

\* No connection is forgotten: every open one has a slot that waits for it.
NoLeak == \A c \in Conns : conn[c] = "open" =>
            \E s \in Slots : ev[s].status = 1 /\ fdtab[ev[s].fd] = c

\* While the server runs, the slots, epoll and the open connections agree, and
\* the listening socket is watched: nothing is left open that neither an event
\* nor the sweep would ever find.
Registered == /\ TypeOK
              /\ Up => /\ SlotsWatched
                       /\ NoLeak
                       /\ ev[Listener].status = 1 /\ ev[Listener].fd = ListenFd

\* An event returned by epoll_wait is still true of its slot when its turn
\* comes: the callbacks run before it did not close, recycle or redirect the
\* slot, so that "epoll error" is never printed.
BatchFresh ==
  pc = "dispatch" =>
    \A e \in batch : /\ ev[e.slot].status = 1
                     /\ ev[e.slot].events = e.mask
                     /\ reg[ev[e.slot].fd] = e

\* A slot in epoll never counts more bytes in its buffer than were read from its
\* connection and not written back, and exactly as many if send() takes buffers
\* whole.  (A send() that takes a part loses the rest: the slot then owes
\* nothing more, and the count here stays short for ever.)
EchoExact ==
  Up => \A s \in Slots \ {Listener} : ev[s].status = 1 =>
          /\ ev[s].size <= owed[fdtab[ev[s].fd]]
          /\ ~ShortSends => ev[s].size = owed[fdtab[ev[s].fd]]

\* epoll_ctl is never asked to add what is registered, nor to change what is
\* not, whatever was closed, swept, recycled or turned around before: the kernel
\* has no reason of that kind to end the program.
CtlNeverRefused == pc # "refused"

\* A connection whose client is there is closed only when nothing was read from
\* it or written to it for more than TIME_OUT.
OnlyIdleClosed ==
  [][\A c \in Conns :
       conn[c] = "open" /\ conn'[c] = "closed" /\ peer[c] = "open"
         => idle[c] > TimeOut]_vars

\* A connection is refused, with the message "too many connections", only when
\* MAX_EVENTS connections are open.
RefusedOnlyWhenFull ==
  [][\A c \in Conns : conn[c] = "backlog" /\ conn'[c] = "closed" =>
       Cardinality({d \in Conns : conn[d] = "open"}) >= MaxEvents]_vars

\* A client that waits is accepted or refused.  Bytes that arrived are written
\* back (send() taking them whole), or the connection is closed: a client that
\* stops reading is not waited for longer than the timeout.
Served ==
  \A c \in Conns :
    /\ conn[c] = "backlog" ~> conn[c] # "backlog" \/ ~Up
    /\ rx[c] + owed[c] > 0
         ~> rx[c] + owed[c] = 0 \/ conn[c] = "closed" \/ ~Up

\* Every connection is closed in the end: clients say only so much, and the
\* sweep finds the connections that say nothing, wherever their slots are.
IdleClosed == \A c \in Conns : conn[c] = "open" ~> conn[c] = "closed" \/ ~Up
=============================================================================
