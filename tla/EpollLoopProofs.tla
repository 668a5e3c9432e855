---------------------------- MODULE EpollLoopProofs ----------------------------
(***************************************************************************)
(* Proofs about the epoll reactor, for any number of slots, descriptors,   *)
(* connections and bytes, any timeout and any kind of send(); and about    *)
(* the server with select, which MCServers runs beside it, for any number  *)
(* of descriptors, of clients and of reads.                                *)
(***************************************************************************)
EXTENDS MCServers, WellFoundedInduction, TLAPS

-----------------------------------------------------------------------------
(* The inductive invariant                                                 *)

\* A descriptor that is in use is an accepted connection's, and the only one
\* that is; the listening socket is none of them.
Descriptors ==
  \A f \in Fds : fdtab[f] # Refused =>
    /\ f # ListenFd
    /\ conn[fdtab[f]] = "open"
    /\ \A g \in Fds : fdtab[g] = fdtab[f] => g = f

\* The last slot is the listening socket's for good.  Any other slot in epoll
\* has a descriptor and the callback of the events it waits for; a slot that
\* was never used has an empty buffer.
SlotShape ==
  /\ ev[Listener].status = 1 /\ ev[Listener].fd = ListenFd
  /\ ev[Listener].events = "in" /\ ev[Listener].cb = "accept"
  /\ \A s \in Slots : /\ ev[s].status = 1 => ev[s].fd # NoFd
                      /\ ev[s].fd = NoFd => ev[s].size = 0
  /\ \A s \in Slots \ {Listener} : ev[s].status = 1 =>
       \/ ev[s].events = "in" /\ ev[s].cb = "recv"
       \/ ev[s].events = "out" /\ ev[s].cb = "send"

\* What the server owes a client was sent by it and is no longer unread.
Accounts ==
  \A c \in Conns : /\ rx[c] + owed[c] <= sent[c]
                   /\ conn[c] \in {"new", "backlog"} => owed[c] = 0

\* The slot of a connection: what is in its buffer is owed, and all that is
\* owed if send() takes buffers whole; it waits to send exactly when there is
\* something in the buffer; it is as old as its connection is idle.
SlotTrue(s) ==
  LET c == fdtab[ev[s].fd]
  IN /\ ev[s].size <= owed[c]
     /\ ~ShortSends => ev[s].size = owed[c]
     /\ ev[s].events = "in" => ev[s].size = 0
     /\ ev[s].events = "out" => ev[s].size > 0
     /\ ev[s].age = idle[c]

Buffers == \A s \in Slots \ {Listener} : ev[s].status = 1 => SlotTrue(s)

\* An event not yet handled is what epoll would report again: recv finds input
\* or an end, and send finds room or an error.
EventTrue(e) ==
  LET f == ev[e.slot].fd
  IN /\ ev[e.slot].status = 1
     /\ ev[e.slot].events = e.mask
     /\ reg[f] = e
     /\ e.slot # Listener =>
          IF e.mask = "in" THEN Readable(f) ELSE Writable(f)

BatchTrue == \A e \in batch : EventTrue(e)

\* The slots, epoll, the descriptors and the connections agree.
Tables == /\ SlotsWatched /\ NoLeak
          /\ Descriptors /\ SlotShape
          /\ Accounts /\ Buffers

\* The inductive invariant.
IInv == /\ TypeOK
        /\ Up => Tables
        /\ pc = "dispatch" => BatchTrue
        /\ CtlNeverRefused

-----------------------------------------------------------------------------
(* Facts about the operators                                               *)

USE DEF NoFd, ListenFd, Fds, Slots, Listener, Up

\* The assumptions on the constants, one by one.
LEMMA Sizes ==
  /\ MaxEvents \in Nat /\ MaxEvents > 0 /\ NFds \in Nat /\ NFds > 0
  /\ PerRound \in Nat /\ PerRound > 0
  /\ MaxBuf \in Nat /\ MaxBuf > 0 /\ TimeOut \in Nat /\ MaxSend \in Nat
  /\ Listener \in Slots /\ ListenFd \in Fds /\ NoFd \notin Fds
  BY SizesAssumption

\* A round of the sweep looks at slots of connections only, never at the
\* listening socket's, and stops at a slot or one past the last of them.
LEMMA RoundInRange ==
  ASSUME checkpos \in 0 .. MaxEvents
  PROVE  /\ Visited \subseteq Slots \ {Listener}
         /\ NextCheckpos \in 0 .. MaxEvents
  <1>1. \A a \in Nat : a % MaxEvents \in 0 .. MaxEvents - 1
    BY SizesAssumption
  <1>2. \A k \in 0 .. PerRound - 1 : checkpos + k \in Nat
    BY SizesAssumption
  <1>3. Visited \subseteq 0 .. MaxEvents - 1
    BY <1>1, <1>2 DEF Visited
  <1>4. checkpos + PerRound - 1 \in Nat
    BY SizesAssumption
  <1>5. (checkpos + PerRound - 1) % MaxEvents \in 0 .. MaxEvents - 1
    BY <1>1, <1>4
  <1> QED
    BY <1>3, <1>5, SizesAssumption DEF NextCheckpos

\* The terminator of a read that fills the buffer leaves buffer_size alone.
LEMMA TerminatedIsSize ==
  ASSUME NEW n \in 0 .. MaxBuf
  PROVE  Terminated(n) = n
  BY SizesAssumption DEF Terminated

\* A read returns at most the buffer's size and no more than there is.
LEMMA NReadInRange ==
  ASSUME NEW c \in Conns, rx[c] \in Nat
  PROVE  NRead(c) \in 0 .. MaxBuf /\ NRead(c) <= rx[c] /\ (rx[c] > 0 => NRead(c) > 0)
  BY SizesAssumption DEF NRead

\* accept returns a free descriptor and the search a free slot, when there are.
LEMMA LowestIsMember ==
  ASSUME NEW S \in SUBSET Nat, S # {}
  PROVE  Lowest(S) \in S
  <1> DEFINE R == OpToRel(<, Nat)
  <1>1. PICK x \in S : \A y \in S : ~ (<<y, x>> \in R)
    <2>1. IsWellFoundedOn(R, Nat)
      BY NatLessThanWellFounded
    <2> HIDE DEF R
    <2> QED BY <2>1, WFMin
  <1>2. \A y \in S : <<y, x>> \in R <=> y < x
    BY DEF OpToRel
  <1>3. \A y \in S : ~ (y < x)
    BY <1>1, <1>2
  <1>4. \A y \in S : x <= y
    BY <1>3
  <1> QED
    BY <1>4 DEF Lowest

HIDE DEF NoFd, ListenFd, Fds, Slots, Listener

\* event_del changes nothing but the status.
LEMMA DeletedSlot ==
  ASSUME NEW e \in Slot
  PROVE  /\ EventDel(e) \in Slot /\ EventDel(e).status = 0
         /\ EventDel(e).fd = e.fd /\ EventDel(e).size = e.size
         /\ EventDel(e).events = e.events
  BY DEF EventDel, Slot

\* event_add, on any slot.
LEMMA AddedSlot ==
  ASSUME NEW e \in Slot, NEW mask \in {"in", "out"}
  PROVE  /\ EventAdd(e, mask) \in Slot /\ EventAdd(e, mask).events = mask
         /\ EventAdd(e, mask).status = 1 /\ EventAdd(e, mask).fd = e.fd
         /\ EventAdd(e, mask).cb = e.cb /\ EventAdd(e, mask).age = e.age
         /\ EventAdd(e, mask).size = e.size
  BY DEF EventAdd, Slot

\* event_set, on any slot: the buffer stays as it is.
LEMMA SetSlot ==
  ASSUME NEW e \in Slot, NEW f \in Fds, NEW cb \in {"recv", "send"}
  PROVE  /\ EventSet(e, f, cb) \in Slot /\ EventSet(e, f, cb).fd = f
         /\ EventSet(e, f, cb).cb = cb /\ EventSet(e, f, cb).age = 0
         /\ EventSet(e, f, cb).size = e.size /\ EventSet(e, f, cb).status = 0
  <1>1. 0 \in 0 .. TimeOut + 1
    BY Sizes
  <1> QED
    BY <1>1 DEF EventSet, Slot

-----------------------------------------------------------------------------
(* Initial states                                                          *)

\* At the top of the loop only the listening socket is watched.
LEMMA InitIInv == Init => IInv
  <1> SUFFICES ASSUME Init PROVE IInv
    OBVIOUS
  <1> USE DEF Init, EmptySlot, EventAdd, EventSet
  <1>1. /\ \A s \in Slots : s # Listener => ev[s] = EmptySlot
        /\ ev[Listener] = [fd |-> ListenFd, events |-> "in", cb |-> "accept",
                           status |-> 1, age |-> 0, size |-> 0]
    BY Sizes
  <1>2. TypeOK
    <2>0. /\ 0 \in 0 .. MaxEvents /\ 0 \in 0 .. MaxSend
          /\ 0 \in 0 .. TimeOut + 1 /\ 0 \in 0 .. MaxBuf
      BY Sizes
    <2>1. EmptySlot \in Slot
      BY <2>0 DEF Slot
    <2>2. ev[Listener] \in Slot
      BY <1>1, <2>0, Sizes DEF Slot
    <2>3. ev \in [Slots -> Slot]
      BY <1>1, <2>1, <2>2
    <2> QED
      BY <2>0, <2>3, Sizes DEF TypeOK, NotRegistered
  <1>3. SlotsWatched
    BY <1>1, Sizes DEF SlotsWatched, NotRegistered
  <1>4. NoLeak /\ Descriptors /\ Accounts
    BY Sizes DEF NoLeak, Descriptors, Accounts
  <1>5. \A s \in Slots \ {Listener} : ev[s].status = 0 /\ ev[s].size = 0
    BY <1>1
  <1>6. SlotShape /\ Buffers
    <2>1. ev[Listener].fd # NoFd
      BY <1>1, Sizes
    <2> QED
      BY <1>1, <1>5, <2>1 DEF SlotShape, Buffers
  <1> QED
    BY <1>2, <1>3, <1>4, <1>6 DEF IInv, Tables, CtlNeverRefused

-----------------------------------------------------------------------------
(* What the kinds of steps do to the tables                                *)

\* The slots in epoll have descriptors of their own, and each but the
\* listening socket's is an open connection's.
LEMMA SlotFacts ==
  ASSUME TypeOK, Tables, NEW s \in Slots, ev[s].status = 1
  PROVE  /\ ev[s].fd \in Fds
         /\ reg[ev[s].fd] = [slot |-> s, mask |-> ev[s].events]
         /\ reg[ev[s].fd] # NotRegistered
         /\ \A t \in Slots : ev[t].status = 1 /\ ev[t].fd = ev[s].fd => t = s
         /\ s # Listener => /\ ev[s].fd # ListenFd
                            /\ fdtab[ev[s].fd] \in Conns
                            /\ conn[fdtab[ev[s].fd]] = "open"
  <1> USE DEF Tables
  <1>1. ev[s] \in Slot
    BY DEF TypeOK
  <1>2. ev[s].fd \in Fds
    BY <1>1 DEF Slot, SlotShape
  <1>3. reg[ev[s].fd] = [slot |-> s, mask |-> ev[s].events]
    BY DEF SlotsWatched
  <1>4. ev[s].events # "none"
    BY DEF SlotShape
  <1>5. reg[ev[s].fd] # NotRegistered
    BY <1>3, <1>4 DEF NotRegistered
  <1>6. \A t \in Slots : ev[t].status = 1 /\ ev[t].fd = ev[s].fd => t = s
    <2> SUFFICES ASSUME NEW t \in Slots, ev[t].status = 1, ev[t].fd = ev[s].fd
                 PROVE  t = s
      OBVIOUS
    <2>1. reg[ev[t].fd] = [slot |-> t, mask |-> ev[t].events]
      BY DEF SlotsWatched
    <2> QED
      BY <1>3, <2>1
  <1>7. s # Listener => ev[s].fd # ListenFd
    BY <1>6, Sizes DEF SlotShape
  <1>8. s # Listener => fdtab[ev[s].fd] # Refused
    BY <1>2, <1>5, <1>7 DEF SlotsWatched
  <1> QED
    BY <1>2, <1>3, <1>5, <1>6, <1>7, <1>8 DEF Descriptors, TypeOK

\* The connections of a set of slots are closed: the sweep closes those that
\* have expired, a callback that of its own slot.
Close(S) ==
  LET shut == {ev[s].fd : s \in S}
  IN /\ ev' = [s \in Slots |-> IF s \in S THEN EventDel(ev[s]) ELSE ev[s]]
     /\ fdtab' = [f \in Fds |-> IF f \in shut THEN Refused ELSE fdtab[f]]
     /\ reg' = [f \in Fds |-> IF f \in shut THEN NotRegistered ELSE reg[f]]
     /\ conn' = [c \in Conns |->
                   IF \E f \in shut : fdtab[f] = c THEN "closed" ELSE conn[c]]

\* Closing keeps the tables in agreement.
LEMMA CloseKeepsTables ==
  ASSUME TypeOK, Tables,
         NEW S \in SUBSET {s \in Slots \ {Listener} : ev[s].status = 1},
         Close(S), UNCHANGED clients
  PROVE  /\ Tables'
         /\ ev' \in [Slots -> Slot]
         /\ fdtab' \in [Fds -> Conns \cup {Refused}]
         /\ reg' \in [Fds -> [slot : Slots, mask : {"none", "in", "out"}]]
         /\ conn' \in [Conns -> {"new", "backlog", "open", "closed"}]
  <1> DEFINE shut == {ev[s].fd : s \in S}
  <1> USE DEF Close, clients
  <1>1. \A s \in S : ev'[s] = EventDel(ev[s])
    OBVIOUS
  <1>2. \A s \in Slots \ S : ev'[s] = ev[s] /\ (ev[s].status = 1 => ev[s].fd \notin shut)
    BY SlotFacts
  <1>3. \A s \in Slots : /\ ev'[s].status = 1 <=> ev[s].status = 1 /\ s \notin S
                         /\ ev'[s].fd = ev[s].fd /\ ev'[s].size = ev[s].size
                         /\ ev'[s].events = ev[s].events
    <2> SUFFICES ASSUME NEW s \in Slots
                 PROVE  /\ ev'[s].status = 1 <=> ev[s].status = 1 /\ s \notin S
                        /\ ev'[s].fd = ev[s].fd /\ ev'[s].size = ev[s].size
                        /\ ev'[s].events = ev[s].events
      OBVIOUS
    <2>1. ev[s] \in Slot
      BY DEF TypeOK
    <2>2. CASE s \in S
      BY <1>1, <2>1, <2>2, DeletedSlot
    <2>3. CASE s \notin S
      BY <1>2, <2>3
    <2> QED
      BY <2>2, <2>3
  <1>4. /\ \A f \in shut : fdtab'[f] = Refused /\ reg'[f] = NotRegistered
        /\ \A f \in Fds \ shut : fdtab'[f] = fdtab[f] /\ reg'[f] = reg[f]
        /\ shut \subseteq Fds
    BY SlotFacts, ZenonT(40)
  <1>5. \A c \in Conns : \/ conn'[c] = conn[c]
                         \/ conn[c] = "open" /\ conn'[c] = "closed"
    <2>1. \A f \in shut : conn[fdtab[f]] = "open"
      BY SlotFacts, ZenonT(40)
    <2> QED
      BY <2>1
  <1>6. \A f \in Fds \ shut : fdtab[f] # Refused => conn'[fdtab[f]] = conn[fdtab[f]]
    BY <1>4 DEF TypeOK, Tables, Descriptors
  <1>7. /\ ev' \in [Slots -> Slot]
        /\ fdtab' \in [Fds -> Conns \cup {Refused}]
        /\ reg' \in [Fds -> [slot : Slots, mask : {"none", "in", "out"}]]
        /\ conn' \in [Conns -> {"new", "backlog", "open", "closed"}]
    <2>1. \A s \in S : EventDel(ev[s]) \in Slot
      BY DeletedSlot DEF TypeOK
    <2>2. ev' \in [Slots -> Slot]
      BY <2>1 DEF TypeOK
    <2>3. NotRegistered \in [slot : Slots, mask : {"none", "in", "out"}]
      BY Sizes DEF NotRegistered
    <2>4. reg' \in [Fds -> [slot : Slots, mask : {"none", "in", "out"}]]
      BY <2>3 DEF TypeOK
    <2> QED
      BY <2>2, <2>4 DEF TypeOK
  <1>8. SlotsWatched'
    BY <1>2, <1>3, <1>4, SlotFacts DEF Tables, SlotsWatched, TypeOK
  <1>9. NoLeak'
    <2> SUFFICES ASSUME NEW c \in Conns, conn'[c] = "open"
                 PROVE  \E s \in Slots : ev'[s].status = 1 /\ fdtab'[ev'[s].fd] = c
      BY DEF NoLeak
    <2>1. conn[c] = "open" /\ \A f \in shut : fdtab[f] # c
      BY <1>5
    <2>2. PICK s \in Slots : ev[s].status = 1 /\ fdtab[ev[s].fd] = c
      BY <2>1 DEF Tables, NoLeak
    <2>3. s \notin S /\ ev[s].fd \in Fds
      BY <2>1, <2>2, SlotFacts
    <2> QED
      BY <1>2, <1>3, <1>4, <2>2, <2>3
  <1>10. Descriptors'
    BY <1>4, <1>6 DEF Tables, Descriptors
  <1>11. SlotShape'
    BY <1>2, <1>3, Sizes DEF Tables, SlotShape
  <1>12. Accounts'
    BY <1>5 DEF Tables, Accounts
  <1>13. Buffers'
    <2> SUFFICES ASSUME NEW s \in Slots \ {Listener}, ev'[s].status = 1
                 PROVE  SlotTrue(s)'
      BY DEF Buffers
    <2>1. s \notin S /\ ev'[s] = ev[s] /\ fdtab'[ev[s].fd] = fdtab[ev[s].fd]
      BY <1>2, <1>3, <1>4, SlotFacts
    <2> QED
      BY <2>1 DEF Tables, Buffers, SlotTrue
  <1> QED
    BY <1>7, <1>8, <1>9, <1>10, <1>11, <1>12, <1>13 DEF Tables

\* A callback that turned its slot around leaves the tables in agreement, when
\* the buffer it leaves is right for the direction and the accounts still are;
\* epoll takes the slot, and no other slot or descriptor is touched.
LEMMA RearmKeepsTables ==
  ASSUME TypeOK, Tables,
         NEW e, e.slot \in Slots \ {Listener}, ev[e.slot].status = 1,
         NEW slot \in Slot, slot.fd = ev[e.slot].fd, slot.status = 1,
         NEW cb, NEW mask,
         \/ cb = "recv" /\ mask = "in" /\ slot.size = 0
         \/ cb = "send" /\ mask = "out" /\ slot.size > 0,
         Rearm(e, cb, mask, slot),
         sent' = sent,
         \A d \in Conns : d # fdtab[ev[e.slot].fd] =>
           rx'[d] = rx[d] /\ owed'[d] = owed[d],
         LET c == fdtab[ev[e.slot].fd]
         IN /\ rx'[c] + owed'[c] <= sent'[c]
            /\ slot.size <= owed'[c]
            /\ ~ShortSends => slot.size = owed'[c]
  PROVE  /\ Tables'
         /\ ev' \in [Slots -> Slot]
         /\ reg' \in [Fds -> [slot : Slots, mask : {"none", "in", "out"}]]
         /\ idle' \in [Conns -> 0 .. TimeOut + 1]
         /\ \A t \in Slots \ {e.slot} : ev'[t] = ev[t]
         /\ \A g \in Fds \ {slot.fd} : reg'[g] = reg[g]
         /\ pc' \in {AfterEvent(e), "exit"}
  <1> DEFINE s == e.slot
             f == slot.fd
             c == fdtab[f]
             set == EventSet(EventDel(slot), f, cb)
             new == EventAdd(set, mask)
             unregistered == EventDelReg(slot, reg)
  <1>1. /\ s \in Slots /\ s # Listener /\ f \in Fds /\ f # ListenFd
        /\ f # NoFd /\ c \in Conns /\ conn[c] = "open" /\ c # Refused
        /\ \A t \in Slots \ {s} : ev[t].status = 1 => ev[t].fd # f
    <2>1. /\ s \in Slots /\ s # Listener /\ f = ev[s].fd
      OBVIOUS
    <2>2. /\ ev[s].fd \in Fds /\ ev[s].fd # ListenFd
          /\ fdtab[ev[s].fd] \in Conns /\ conn[fdtab[ev[s].fd]] = "open"
      BY SlotFacts
    <2>3. \A t \in Slots : ev[t].status = 1 /\ ev[t].fd = ev[s].fd => t = s
      BY SlotFacts
    <2> QED
      BY <2>1, <2>2, <2>3, Sizes, RefusedAssumption
  <1>2. EventDel(slot) \in Slot /\ EventDel(slot).size = slot.size
    BY DeletedSlot
  <1>3. /\ set \in Slot /\ set.fd = f /\ set.cb = cb /\ set.age = 0
        /\ set.size = slot.size /\ set.status = 0
    BY <1>1, <1>2, SetSlot
  <1>4. /\ new \in Slot /\ new.fd = f /\ new.events = mask /\ new.cb = cb
        /\ new.status = 1 /\ new.age = 0 /\ new.size = slot.size
    <2> HIDE DEF set
    <2> QED BY <1>3, AddedSlot
  <1>5. unregistered = [reg EXCEPT ![f] = NotRegistered]
    BY <1>1 DEF EventDelReg
  <1>6. /\ ev' = [ev EXCEPT ![s] = new]
        /\ reg' = [unregistered EXCEPT ![f] = [slot |-> s, mask |-> mask]]
        /\ idle' = [idle EXCEPT ![c] = 0]
        /\ pc' \in AfterAdd(e, EventAddOk(set, unregistered))
        /\ fdtab' = fdtab /\ conn' = conn
    BY DEF Rearm
  <1> HIDE DEF set, new, unregistered
  <1>7. /\ ev' \in [Slots -> Slot] /\ ev'[s] = new
        /\ \A t \in Slots \ {s} : ev'[t] = ev[t]
    BY <1>1, <1>4, <1>6 DEF TypeOK
  <1>8. /\ reg'[f] = [slot |-> s, mask |-> mask]
        /\ \A g \in Fds \ {f} : reg'[g] = reg[g]
        /\ reg' \in [Fds -> [slot : Slots, mask : {"none", "in", "out"}]]
    <2>1. /\ NotRegistered \in [slot : Slots, mask : {"none", "in", "out"}]
          /\ [slot |-> s, mask |-> mask] \in [slot : Slots, mask : {"none", "in", "out"}]
      BY <1>1, Sizes DEF NotRegistered
    <2> QED
      BY <1>1, <1>5, <1>6, <2>1 DEF TypeOK
  <1>9. /\ idle' \in [Conns -> 0 .. TimeOut + 1] /\ idle'[c] = 0
        /\ \A d \in Conns \ {c} : idle'[d] = idle[d]
    <2>1. 0 \in 0 .. TimeOut + 1
      BY Sizes
    <2> QED
      BY <1>1, <1>6, <2>1 DEF TypeOK
  <1>10. pc' \in {AfterEvent(e), "exit"}
    <2>1. unregistered[set.fd] = NotRegistered
      BY <1>1, <1>3, <1>5 DEF TypeOK
    <2>2. EventAddOk(set, unregistered)
      BY <1>3, <2>1 DEF EventAddOk
    <2> QED
      BY <1>6, <2>2 DEF AfterAdd
  <1>11. SlotsWatched'
    <2>1. ASSUME NEW t \in Slots, ev'[t].status = 1
          PROVE  reg'[ev'[t].fd] = [slot |-> t, mask |-> ev'[t].events]
      <3>1. CASE t = s
        BY <1>4, <1>7, <1>8, <3>1
      <3>2. CASE t # s
        BY <1>7, <1>1, <1>8, <2>1, <3>2, SlotFacts
      <3> QED BY <3>1, <3>2
    <2>2. ASSUME NEW g \in Fds, reg'[g] # NotRegistered
          PROVE  /\ ev'[reg'[g].slot].status = 1
                 /\ ev'[reg'[g].slot].fd = g
                 /\ g # ListenFd => fdtab'[g] # Refused
      <3>1. CASE g = f
        <4>1. reg'[g].slot = s
          BY <1>8, <3>1
        <4> QED
          BY <1>1, <1>4, <1>6, <1>7, <3>1, <4>1
      <3>2. CASE g # f
        <4>1. reg'[g] = reg[g] /\ reg[g].slot \in Slots
          BY <1>8, <3>2 DEF TypeOK
        <4>2. /\ ev[reg[g].slot].status = 1 /\ ev[reg[g].slot].fd = g
              /\ g # ListenFd => fdtab[g] # Refused
          BY <2>2, <4>1 DEF Tables, SlotsWatched
        <4>3. reg[g].slot # s
          BY <3>2, <4>2
        <4> QED
          BY <1>6, <1>7, <4>1, <4>2, <4>3
      <3> QED BY <3>1, <3>2
    <2> QED
      BY <2>1, <2>2 DEF SlotsWatched
  <1>12. NoLeak'
    <2> SUFFICES ASSUME NEW d \in Conns, conn[d] = "open"
                 PROVE  \E t \in Slots : ev'[t].status = 1 /\ fdtab[ev'[t].fd] = d
      BY <1>6 DEF NoLeak
    <2>1. PICK t \in Slots : ev[t].status = 1 /\ fdtab[ev[t].fd] = d
      BY DEF Tables, NoLeak
    <2>2. ev'[t].status = 1 /\ ev'[t].fd = ev[t].fd
      BY <1>4, <1>7, <2>1
    <2> QED
      BY <2>1, <2>2
  <1>13. Descriptors'
    BY <1>6 DEF Tables, Descriptors
  <1>14. SlotShape'
    <2>1. ev'[Listener] = ev[Listener]
      BY <1>1, <1>7, Sizes
    <2> QED
      BY <1>1, <1>4, <1>7, <2>1 DEF Tables, SlotShape
  <1>15. Accounts'
    BY <1>1, <1>6 DEF Tables, Accounts
  <1>16. Buffers'
    <2> SUFFICES ASSUME NEW t \in Slots \ {Listener}, ev'[t].status = 1
                 PROVE  SlotTrue(t)'
      BY DEF Buffers
    <2>1. CASE t = s
      BY <1>4, <1>6, <1>7, <1>9, <2>1 DEF SlotTrue
    <2>2. CASE t # s
      <3>1. ev'[t] = ev[t] /\ ev[t].status = 1 /\ SlotTrue(t)
        BY <1>7, <2>2 DEF Tables, Buffers
      <3>2. fdtab[ev[t].fd] # c /\ fdtab[ev[t].fd] \in Conns
        BY <1>1, <2>2, <3>1, SlotFacts DEF Tables, Descriptors
      <3> QED
        BY <1>6, <1>9, <3>1, <3>2 DEF SlotTrue
    <2> QED BY <2>1, <2>2
  <1> QED
    BY <1>7, <1>8, <1>9, <1>10, <1>11, <1>12, <1>13, <1>14, <1>15, <1>16 DEF Tables

\* An event stays true while its slot and descriptor stay what they are and the
\* client only makes it truer.
LEMMA EventKept ==
  ASSUME TypeOK, Tables, NEW d, d.slot \in Slots, EventTrue(d),
         LET f == ev[d.slot].fd
             c == fdtab[f]
         IN /\ ev'[d.slot].status = 1 /\ ev'[d.slot].events = ev[d.slot].events
            /\ ev'[d.slot].fd = f
            /\ reg'[f] = reg[f]
            /\ d.slot # Listener =>
                 /\ fdtab'[f] = c
                 /\ rx'[c] \in Nat /\ rx[c] <= rx'[c]
                 /\ peer[c] # "open" => peer'[c] # "open"
                 /\ peer[c] \in {"pipe", "reset"} => peer'[c] = peer[c]
                 /\ writable[c] => writable'[c]
  PROVE  EventTrue(d)'
  <1> DEFINE f == ev[d.slot].fd
             c == fdtab[f]
  <1>1. /\ ev[d.slot].status = 1 /\ ev[d.slot].events = d.mask /\ reg[f] = d
    BY DEF EventTrue
  <1>2. SUFFICES ASSUME d.slot # Listener
                 PROVE  IF d.mask = "in" THEN Readable(f)' ELSE Writable(f)'
    BY <1>1 DEF EventTrue
  <1>3. f \in Fds /\ f # ListenFd /\ c \in Conns
    BY <1>1, <1>2, SlotFacts
  <1>4. rx[c] \in Nat
    BY <1>3, Sizes DEF TypeOK
  <1>5. IF d.mask = "in" THEN Readable(f) ELSE Writable(f)
    BY <1>2 DEF EventTrue
  <1>6. CASE d.mask = "in"
    BY <1>2, <1>3, <1>4, <1>5, <1>6 DEF Readable
  <1>7. CASE d.mask # "in"
    BY <1>2, <1>3, <1>5, <1>7 DEF Writable
  <1> QED
    BY <1>6, <1>7

\* Two events of a batch are of different slots, descriptors and connections.
LEMMA EventsApart ==
  ASSUME TypeOK, Tables, BatchTrue, NEW e \in batch, NEW d \in batch \ {e}
  PROVE  /\ d.slot \in Slots /\ e.slot \in Slots /\ d.slot # e.slot
         /\ ev[d.slot].status = 1 /\ ev[e.slot].status = 1
         /\ ev[d.slot].fd \in Fds /\ ev[d.slot].fd # ev[e.slot].fd
         /\ d.slot # Listener => /\ fdtab[ev[d.slot].fd] \in Conns
                                 /\ fdtab[ev[d.slot].fd] # fdtab[ev[e.slot].fd]
  <1>1. d.slot \in Slots /\ e.slot \in Slots
    BY DEF TypeOK
  <1>2. /\ ev[d.slot].status = 1 /\ ev[e.slot].status = 1
        /\ reg[ev[d.slot].fd] = d /\ reg[ev[e.slot].fd] = e
    BY DEF BatchTrue, EventTrue
  <1>3. d.slot # e.slot /\ ev[d.slot].fd # ev[e.slot].fd
    BY <1>2
  <1>4. ev[d.slot].fd \in Fds /\ ev[e.slot].fd \in Fds
    BY <1>1, <1>2, SlotFacts
  <1>5. d.slot # Listener => fdtab[ev[d.slot].fd] \in Conns
    BY <1>1, <1>2, SlotFacts
  <1> QED
    BY <1>1, <1>2, <1>3, <1>4, <1>5, RefusedAssumption DEF Tables, Descriptors

-----------------------------------------------------------------------------
(* The steps                                                               *)

\* The sweep closes slots of connections, and the batch has been handled.
LEMMA SweepStep == IInv /\ Sweep => IInv'
  <1> SUFFICES ASSUME IInv, Sweep PROVE IInv'
    OBVIOUS
  <1> DEFINE S == {s \in Visited : Expired(ev[s])}
  <1> USE DEF IInv
  <1>1. pc = "sweep" /\ pc' = "wait" /\ Tables
    BY DEF Sweep, Up
  <1>2. S \in SUBSET {s \in Slots \ {Listener} : ev[s].status = 1}
    <2>1. \A s \in Slots : ev[s].status \in {0, 1}
      BY DEF TypeOK, Slot
    <2> QED
      BY <2>1, RoundInRange DEF TypeOK, Expired
  <1>3. Close(S) /\ UNCHANGED clients
    BY DEF Sweep, Close
  <1> HIDE DEF S
  <1>4. /\ Tables' /\ ev' \in [Slots -> Slot]
        /\ fdtab' \in [Fds -> Conns \cup {Refused}]
        /\ reg' \in [Fds -> [slot : Slots, mask : {"none", "in", "out"}]]
        /\ conn' \in [Conns -> {"new", "backlog", "open", "closed"}]
    BY <1>1, <1>2, <1>3, CloseKeepsTables
  <1>5. checkpos' \in 0 .. MaxEvents
    BY RoundInRange DEF Sweep, TypeOK
  <1>6. TypeOK'
    BY <1>1, <1>4, <1>5 DEF TypeOK, Sweep, clients
  <1> QED
    BY <1>1, <1>4, <1>6 DEF CtlNeverRefused

\* epoll_wait reports what is true.
LEMMA WaitStep == IInv /\ EpollWait => IInv'
  <1> SUFFICES ASSUME IInv, EpollWait PROVE IInv'
    OBVIOUS
  <1> USE DEF IInv
  <1> SUFFICES ASSUME WaitReturns PROVE IInv'
    <2>1. CASE WaitFails
      <3>1. UNCHANGED <<ev, checkpos, batch, kernel, clients>> /\ pc' = "exit"
        BY <2>1 DEF EpollWait, WaitFails
      <3> QED
        BY <3>1 DEF TypeOK, CtlNeverRefused, Up, kernel, clients
    <2> QED
      BY <2>1 DEF EpollWait
  <1>1. /\ pc = "wait" /\ pc' \in {"sweep", "dispatch"} /\ batch' = Ready
        /\ UNCHANGED <<ev, checkpos, kernel, clients>> /\ Tables
    BY DEF EpollWait, WaitReturns, Up
  <1>2. Tables'
    BY <1>1 DEF Tables, SlotsWatched, NoLeak, Descriptors, SlotShape, Accounts,
                Buffers, SlotTrue, kernel, clients
  <1>3. ASSUME NEW d \in Ready
        PROVE  d \in [slot : Slots, mask : {"in", "out"}] /\ EventTrue(d)
    <2>1. PICK f \in Fds : ReadyFd(f) /\ d = reg[f]
      BY DEF Ready
    <2>2. /\ reg[f] \in [slot : Slots, mask : {"none", "in", "out"}]
          /\ reg[f].mask \in {"in", "out"}
      BY <2>1 DEF ReadyFd, TypeOK
    <2>3. reg[f] # NotRegistered
      BY <2>2 DEF NotRegistered
    <2>4. ev[d.slot].status = 1 /\ ev[d.slot].fd = f /\ d.slot \in Slots
      BY <1>1, <2>1, <2>2, <2>3 DEF Tables, SlotsWatched
    <2>5. d = [slot |-> d.slot, mask |-> ev[d.slot].events]
      BY <1>1, <2>1, <2>4 DEF Tables, SlotsWatched
    <2>6. ev[d.slot].events = d.mask
      BY <2>5
    <2>7. d \in [slot : Slots, mask : {"in", "out"}]
      BY <2>1, <2>2
    <2> QED
      BY <2>1, <2>4, <2>6, <2>7 DEF EventTrue, ReadyFd
  <1>4. TypeOK'
    BY <1>1, <1>3 DEF TypeOK, kernel, clients
  <1>5. \A d \in Ready : EventTrue(d)'
    BY <1>1, <1>3 DEF EventTrue, Readable, Writable, Backlog, kernel, clients
  <1> QED
    BY <1>1, <1>2, <1>4, <1>5 DEF BatchTrue, CtlNeverRefused

\* A new connection gets a descriptor and a slot that nobody has.
LEMMA NewConnectionStep ==
  ASSUME IInv, pc = "dispatch", NEW e \in batch, e.slot = Listener,
         Handled(e), NewConnection(e)
  PROVE  IInv'
  <1> USE DEF IInv
  <1> DEFINE f == Lowest(FreeFds)
             s == Lowest(FreeSlots)
             set == EventSet(ev[s], f, "recv")
             new == EventAdd(set, "in")
  <1>1. PICK c \in Backlog :
          /\ conn' = [conn EXCEPT ![c] = "open"]
          /\ fdtab' = [fdtab EXCEPT ![f] = c]
          /\ idle' = [idle EXCEPT ![c] = 0]
    BY DEF NewConnection
  <1>2. /\ ev' = [ev EXCEPT ![s] = new]
        /\ reg' = [reg EXCEPT ![f] = [slot |-> s, mask |-> "in"]]
        /\ pc' \in AfterAdd(e, EventAddOk(set, reg))
        /\ UNCHANGED <<peer, rx, writable, sent, owed>>
    BY DEF NewConnection
  <1>3. Tables /\ BatchTrue /\ c \in Conns /\ conn[c] = "backlog" /\ c # Refused
    BY RefusedAssumption DEF Up, Backlog
  <1>4. f \in Fds /\ f # ListenFd /\ fdtab[f] = Refused /\ f # NoFd
    <2>1. FreeFds \in SUBSET Nat /\ FreeFds # {}
      BY Sizes DEF NewConnection, FreeFds, Fds
    <2> QED
      BY <2>1, LowestIsMember, Sizes DEF FreeFds
  <1>5. s \in Slots /\ s # Listener /\ ev[s].fd = NoFd
    <2>1. FreeSlots \in SUBSET Nat /\ FreeSlots # {}
      BY Sizes DEF NewConnection, FreeSlots, Slots
    <2> QED
      BY <2>1, LowestIsMember DEF FreeSlots
  <1>6. ev[s] \in Slot /\ ev[s].status # 1 /\ ev[s].size = 0
    BY <1>3, <1>5 DEF TypeOK, Tables, SlotShape
  <1>7. reg[f] = NotRegistered
    BY <1>3, <1>4 DEF Tables, SlotsWatched
  <1> HIDE DEF f, s
  <1>8. /\ set \in Slot /\ set.fd = f /\ set.cb = "recv" /\ set.age = 0
        /\ set.size = 0 /\ set.status = 0
    BY <1>4, <1>6, SetSlot
  <1>9. /\ new \in Slot /\ new.fd = f /\ new.cb = "recv" /\ new.age = 0
        /\ new.size = 0 /\ new.status = 1 /\ new.events = "in"
    <2> HIDE DEF set
    <2> QED BY <1>8, AddedSlot
  <1>10. pc' \in {AfterEvent(e), "exit"}
    BY <1>2, <1>7, <1>8 DEF AfterAdd, EventAddOk
  <1> HIDE DEF set, new
  <1>11. /\ ev' \in [Slots -> Slot] /\ ev'[s] = new
         /\ \A t \in Slots \ {s} : ev'[t] = ev[t]
    BY <1>2, <1>5, <1>9 DEF TypeOK
  <1>12. /\ reg' \in [Fds -> [slot : Slots, mask : {"none", "in", "out"}]]
         /\ reg'[f] = [slot |-> s, mask |-> "in"]
         /\ \A g \in Fds \ {f} : reg'[g] = reg[g]
    <2>1. [slot |-> s, mask |-> "in"] \in [slot : Slots, mask : {"none", "in", "out"}]
      BY <1>5
    <2> QED
      BY <1>2, <1>4, <2>1 DEF TypeOK
  <1>13. /\ fdtab' \in [Fds -> Conns \cup {Refused}] /\ fdtab'[f] = c
         /\ \A g \in Fds \ {f} : fdtab'[g] = fdtab[g]
    BY <1>1, <1>3, <1>4 DEF TypeOK
  <1>14. /\ conn' \in [Conns -> {"new", "backlog", "open", "closed"}]
         /\ conn'[c] = "open"
         /\ \A d \in Conns \ {c} : conn'[d] = conn[d]
    BY <1>1, <1>3 DEF TypeOK
  <1>15. /\ idle' \in [Conns -> 0 .. TimeOut + 1] /\ idle'[c] = 0
         /\ \A d \in Conns \ {c} : idle'[d] = idle[d]
    <2>1. 0 \in 0 .. TimeOut + 1
      BY Sizes
    <2> QED
      BY <1>1, <1>3, <2>1 DEF TypeOK
  <1>16. \A t \in Slots : ev[t].status = 1 =>
           /\ t # s /\ ev[t].fd # f /\ ev[t].fd \in Fds
           /\ t # Listener => /\ fdtab[ev[t].fd] # c
                              /\ fdtab[ev[t].fd] \in Conns
    BY <1>3, <1>6, <1>7, SlotFacts
  <1>17. TypeOK'
    BY <1>2, <1>10, <1>11, <1>12, <1>13, <1>14, <1>15
    DEF TypeOK, Handled, AfterEvent
  <1>18. SlotsWatched'
    <2>1. ASSUME NEW t \in Slots, ev'[t].status = 1
          PROVE  reg'[ev'[t].fd] = [slot |-> t, mask |-> ev'[t].events]
      <3>1. CASE t = s
        BY <1>9, <1>11, <1>12, <3>1
      <3>2. CASE t # s
        BY <1>3, <1>11, <1>12, <1>16, <2>1, <3>2, SlotFacts
      <3> QED BY <3>1, <3>2
    <2>2. ASSUME NEW g \in Fds, reg'[g] # NotRegistered
          PROVE  /\ ev'[reg'[g].slot].status = 1
                 /\ ev'[reg'[g].slot].fd = g
                 /\ g # ListenFd => fdtab'[g] # Refused
      <3>1. CASE g = f
        <4>1. reg'[g].slot = s
          BY <1>12, <3>1
        <4> QED
          BY <1>3, <1>9, <1>11, <1>13, <3>1, <4>1
      <3>2. CASE g # f
        <4>1. reg'[g] = reg[g] /\ reg[g].slot \in Slots
          BY <1>12, <3>2 DEF TypeOK
        <4>2. /\ ev[reg[g].slot].status = 1 /\ ev[reg[g].slot].fd = g
              /\ g # ListenFd => fdtab[g] # Refused
          BY <1>3, <2>2, <4>1 DEF Tables, SlotsWatched
        <4> QED
          BY <1>11, <1>13, <1>16, <3>2, <4>1, <4>2
      <3> QED BY <3>1, <3>2
    <2> QED
      BY <2>1, <2>2 DEF SlotsWatched
  <1>19. NoLeak'
    <2> SUFFICES ASSUME NEW d \in Conns, conn'[d] = "open"
                 PROVE  \E t \in Slots : ev'[t].status = 1 /\ fdtab'[ev'[t].fd] = d
      BY DEF NoLeak
    <2>1. CASE d = c
      BY <1>5, <1>9, <1>11, <1>13, <2>1
    <2>2. CASE d # c
      <3>1. PICK t \in Slots : ev[t].status = 1 /\ fdtab[ev[t].fd] = d
        BY <1>3, <1>14, <2>2 DEF Tables, NoLeak
      <3> QED
        BY <1>11, <1>13, <1>16, <3>1
    <2> QED BY <2>1, <2>2
  <1>20. Descriptors'
    <2>1. \A g \in Fds : fdtab[g] # c
      BY <1>3 DEF Tables, Descriptors
    <2>2. \A g \in Fds \ {f} : fdtab[g] # Refused =>
            fdtab[g] \in Conns /\ conn'[fdtab[g]] = "open"
      BY <1>3, <1>14, <2>1 DEF Tables, Descriptors, TypeOK
    <2> QED
      BY <1>3, <1>4, <1>13, <1>14, <2>1, <2>2 DEF Tables, Descriptors
  <1>21. SlotShape'
    <2>1. ev'[Listener] = ev[Listener]
      BY <1>5, <1>11, Sizes
    <2> QED
      BY <1>3, <1>4, <1>9, <1>11, <2>1 DEF Tables, SlotShape
  <1>22. Accounts'
    BY <1>2, <1>3, <1>14 DEF Tables, Accounts
  <1>23. Buffers'
    <2> SUFFICES ASSUME NEW t \in Slots \ {Listener}, ev'[t].status = 1
                 PROVE  SlotTrue(t)'
      BY DEF Buffers
    <2>1. CASE t = s
      <3>1. owed'[c] = 0
        BY <1>2, <1>3 DEF Tables, Accounts
      <3> QED
        BY <1>9, <1>11, <1>13, <1>15, <2>1, <3>1 DEF SlotTrue
    <2>2. CASE t # s
      <3>1. ev'[t] = ev[t] /\ ev[t].status = 1 /\ SlotTrue(t)
        BY <1>3, <1>11, <2>2 DEF Tables, Buffers
      <3> QED
        BY <1>2, <1>13, <1>15, <1>16, <3>1 DEF SlotTrue
    <2> QED BY <2>1, <2>2
  <1>24. BatchTrue'
    <2> SUFFICES ASSUME NEW d \in batch \ {e} PROVE EventTrue(d)'
      BY DEF Handled, BatchTrue
    <2>1. d.slot \in Slots /\ d.slot # Listener /\ ev[d.slot].status = 1
      BY <1>3, EventsApart
    <2>2. /\ ev'[d.slot] = ev[d.slot] /\ reg'[ev[d.slot].fd] = reg[ev[d.slot].fd]
          /\ fdtab'[ev[d.slot].fd] = fdtab[ev[d.slot].fd]
          /\ fdtab[ev[d.slot].fd] \in Conns
      BY <1>11, <1>12, <1>13, <1>16, <2>1
    <2>3. rx[fdtab[ev[d.slot].fd]] \in Nat
      BY <2>2, Sizes DEF TypeOK
    <2> QED
      BY <1>2, <1>3, <2>1, <2>2, <2>3, EventKept DEF BatchTrue
  <1>25. pc' # "refused"
    BY <1>10 DEF AfterEvent
  <1> QED
    BY <1>17, <1>18, <1>19, <1>20, <1>21, <1>22, <1>23, <1>24, <1>25
    DEF Tables, CtlNeverRefused

\* accept fails, or a client is refused: no table changes.
LEMMA AcceptStep ==
  ASSUME IInv, NEW e \in batch, AcceptConn(e)
  PROVE  IInv'
  <1> USE DEF IInv
  <1>1. /\ pc = "dispatch" /\ Tables /\ BatchTrue /\ Handled(e)
        /\ batch' = batch \ {e} /\ checkpos' = checkpos
    BY DEF AcceptConn, Handled, Up
  <1>2. e.slot = Listener
    <2>1. e.slot \in Slots /\ ev[e.slot].status = 1
      BY <1>1 DEF TypeOK, BatchTrue, EventTrue
    <2> QED
      BY <1>1, <2>1 DEF AcceptConn, Tables, SlotShape
  <1>3. CASE AcceptFails(e)
    <2>1. TypeOK'
      BY <1>1, <1>3 DEF TypeOK, AcceptFails, kernel, clients
    <2> QED
      BY <1>3, <2>1 DEF AcceptFails, CtlNeverRefused, kernel, Up
  <1>4. CASE TooManyConnections(e)
    <2>1. PICK c \in Backlog : conn' = [conn EXCEPT ![c] = "closed"]
      BY <1>4 DEF TooManyConnections
    <2>2. UNCHANGED <<ev, fdtab, reg, clients>> /\ pc' = AfterEvent(e)
      BY <1>4 DEF TooManyConnections
    <2>3. /\ c \in Conns /\ conn[c] = "backlog" /\ conn'[c] = "closed"
          /\ \A d \in Conns \ {c} : conn'[d] = conn[d]
          /\ conn' \in [Conns -> {"new", "backlog", "open", "closed"}]
      BY <2>1 DEF Backlog, TypeOK
    <2>4. TypeOK'
      BY <1>1, <2>2, <2>3 DEF TypeOK, AfterEvent, clients
    <2>5. Descriptors'
      BY <1>1, <2>2, <2>3 DEF Tables, Descriptors, TypeOK
    <2>6. NoLeak' /\ Accounts'
      BY <1>1, <2>2, <2>3 DEF Tables, NoLeak, Accounts, clients
    <2>7. SlotsWatched' /\ SlotShape' /\ Buffers'
      BY <1>1, <2>2 DEF Tables, SlotsWatched, SlotShape, Buffers, SlotTrue, clients
    <2>8. BatchTrue'
      <3> SUFFICES ASSUME NEW d \in batch \ {e} PROVE EventTrue(d)'
        BY <1>1 DEF BatchTrue
      <3>1. d.slot # Listener
        BY <1>1, <1>2, EventsApart
      <3>2. d.slot \in Slots /\ ev[d.slot].status = 1 /\ ev[d.slot].fd # ListenFd
        BY <1>1, <3>1, EventsApart, SlotFacts
      <3> QED
        BY <1>1, <2>2, <3>2
        DEF BatchTrue, EventTrue, Readable, Writable, clients
    <2> QED
      BY <2>2, <2>4, <2>5, <2>6, <2>7, <2>8
      DEF Tables, CtlNeverRefused, AfterEvent
  <1>5. CASE NewConnection(e)
    BY <1>1, <1>2, <1>5, NewConnectionStep
  <1> QED
    BY <1>3, <1>4, <1>5 DEF AcceptConn

\* A callback closes its own connection.
LEMMA CloseStep ==
  ASSUME IInv, pc = "dispatch", NEW e \in batch, e.slot # Listener,
         Handled(e), CloseConn(e), UNCHANGED clients
  PROVE  IInv'
  <1> USE DEF IInv
  <1> DEFINE s == e.slot
             f == ev[s].fd
             c == fdtab[f]
  <1>1. Tables /\ BatchTrue /\ batch' = batch \ {e} /\ checkpos' = checkpos
    BY DEF Handled, Up
  <1>2. s \in Slots /\ ev[s].status = 1
    BY <1>1 DEF TypeOK, BatchTrue, EventTrue
  <1>3. f \in Fds /\ f # ListenFd /\ c \in Conns
    BY <1>1, <1>2, SlotFacts
  <1>4. /\ ev' = [ev EXCEPT ![s] = EventDel(@)]
        /\ fdtab' = [fdtab EXCEPT ![f] = Refused]
        /\ reg' = [reg EXCEPT ![f] = NotRegistered]
        /\ conn' = [conn EXCEPT ![c] = "closed"]
        /\ pc' = AfterEvent(e)
    BY DEF CloseConn
  <1>5. Close({s})
    <2>1. ev' = [t \in Slots |-> IF t \in {s} THEN EventDel(ev[t]) ELSE ev[t]]
      BY <1>2, <1>4 DEF TypeOK
    <2>2. fdtab' = [g \in Fds |-> IF g \in {f} THEN Refused ELSE fdtab[g]]
      BY <1>3, <1>4 DEF TypeOK
    <2>3. reg' = [g \in Fds |-> IF g \in {f} THEN NotRegistered ELSE reg[g]]
      BY <1>3, <1>4 DEF TypeOK
    <2>4. conn' = [d \in Conns |->
                     IF \E g \in {f} : fdtab[g] = d THEN "closed" ELSE conn[d]]
      BY <1>3, <1>4 DEF TypeOK
    <2>5. {ev[t].fd : t \in {s}} = {f}
      OBVIOUS
    <2> QED
      BY <2>1, <2>2, <2>3, <2>4, <2>5 DEF Close
  <1>6. {s} \in SUBSET {t \in Slots \ {Listener} : ev[t].status = 1}
    BY <1>2
  <1>7. /\ Tables' /\ ev' \in [Slots -> Slot]
        /\ fdtab' \in [Fds -> Conns \cup {Refused}]
        /\ reg' \in [Fds -> [slot : Slots, mask : {"none", "in", "out"}]]
        /\ conn' \in [Conns -> {"new", "backlog", "open", "closed"}]
    BY <1>1, <1>5, <1>6, CloseKeepsTables
  <1>8. TypeOK'
    BY <1>1, <1>4, <1>7 DEF TypeOK, AfterEvent, clients
  <1>9. BatchTrue'
    <2> SUFFICES ASSUME NEW d \in batch \ {e} PROVE EventTrue(d)'
      BY <1>1 DEF BatchTrue
    <2>1. /\ d.slot \in Slots /\ d.slot # s /\ ev[d.slot].status = 1
          /\ ev[d.slot].fd \in Fds /\ ev[d.slot].fd # f
          /\ d.slot # Listener => fdtab[ev[d.slot].fd] \in Conns
      BY <1>1, EventsApart
    <2>2. /\ ev'[d.slot] = ev[d.slot] /\ reg'[ev[d.slot].fd] = reg[ev[d.slot].fd]
          /\ fdtab'[ev[d.slot].fd] = fdtab[ev[d.slot].fd]
      BY <1>4, <2>1 DEF TypeOK
    <2>3. d.slot # Listener => rx[fdtab[ev[d.slot].fd]] \in Nat
      BY <2>1, Sizes DEF TypeOK
    <2> QED
      BY <1>1, <2>1, <2>2, <2>3, EventKept DEF BatchTrue, clients
  <1> QED
    BY <1>4, <1>7, <1>8, <1>9 DEF CtlNeverRefused, AfterEvent

\* A callback turns its own slot around.
LEMMA RearmStep ==
  ASSUME IInv, pc = "dispatch", NEW e \in batch, e.slot # Listener, Handled(e),
         NEW slot \in Slot, slot.fd = ev[e.slot].fd, slot.status = 1,
         NEW cb, NEW mask,
         \/ cb = "recv" /\ mask = "in" /\ slot.size = 0
         \/ cb = "send" /\ mask = "out" /\ slot.size > 0,
         Rearm(e, cb, mask, slot),
         sent' = sent,
         rx' \in [Conns -> 0 .. MaxSend], owed' \in [Conns -> 0 .. MaxSend],
         peer' \in [Conns -> {"open", "fin", "pipe", "reset"}],
         writable' \in [Conns -> BOOLEAN],
         \A d \in Conns : d # fdtab[ev[e.slot].fd] =>
           /\ rx'[d] = rx[d] /\ owed'[d] = owed[d]
           /\ peer'[d] = peer[d] /\ writable'[d] = writable[d],
         LET c == fdtab[ev[e.slot].fd]
         IN /\ rx'[c] + owed'[c] <= sent'[c]
            /\ slot.size <= owed'[c]
            /\ ~ShortSends => slot.size = owed'[c]
  PROVE  IInv'
  <1> USE DEF IInv
  <1> DEFINE s == e.slot
             f == ev[s].fd
             c == fdtab[f]
  <1>1. Tables /\ BatchTrue /\ batch' = batch \ {e} /\ checkpos' = checkpos
    BY DEF Handled, Up
  <1>2. s \in Slots \ {Listener} /\ ev[s].status = 1
    BY <1>1 DEF TypeOK, BatchTrue, EventTrue
  <1>3. /\ Tables' /\ ev' \in [Slots -> Slot]
        /\ reg' \in [Fds -> [slot : Slots, mask : {"none", "in", "out"}]]
        /\ idle' \in [Conns -> 0 .. TimeOut + 1]
        /\ \A t \in Slots \ {s} : ev'[t] = ev[t]
        /\ \A g \in Fds \ {slot.fd} : reg'[g] = reg[g]
        /\ pc' \in {AfterEvent(e), "exit"}
    BY <1>1, <1>2, RearmKeepsTables, SMTT(60)
  <1>4. fdtab' = fdtab /\ conn' = conn
    BY DEF Rearm
  <1>5. TypeOK'
    BY <1>1, <1>3, <1>4 DEF TypeOK, AfterEvent
  <1>6. BatchTrue'
    <2> SUFFICES ASSUME NEW d \in batch \ {e} PROVE EventTrue(d)'
      BY <1>1 DEF BatchTrue
    <2>1. /\ d.slot \in Slots /\ d.slot # s /\ ev[d.slot].status = 1
          /\ ev[d.slot].fd \in Fds /\ ev[d.slot].fd # f
          /\ d.slot # Listener => /\ fdtab[ev[d.slot].fd] \in Conns
                                  /\ fdtab[ev[d.slot].fd] # c
      BY <1>1, EventsApart
    <2>2. ev'[d.slot] = ev[d.slot] /\ reg'[ev[d.slot].fd] = reg[ev[d.slot].fd]
      BY <1>3, <2>1
    <2>3. \A b \in Conns \ {c} : /\ rx'[b] \in Nat /\ rx[b] <= rx'[b]
                                 /\ peer'[b] = peer[b] /\ writable'[b] = writable[b]
      BY Sizes DEF TypeOK
    <2>4. EventTrue(d)
      BY <1>1 DEF BatchTrue
    <2> QED
      BY <1>1, <1>4, <2>1, <2>2, <2>3, <2>4, EventKept
  <1> QED
    BY <1>3, <1>5, <1>6 DEF CtlNeverRefused, AfterEvent

\* The slot of an event that is received from or sent to is a connection's.
LEMMA CallbackFacts ==
  ASSUME IInv, NEW e \in batch, RecvData(e) \/ SendData(e)
  PROVE  LET c == fdtab[ev[e.slot].fd]
         IN /\ pc = "dispatch" /\ Tables /\ BatchTrue /\ Handled(e)
            /\ e.slot \in Slots /\ e.slot # Listener /\ ev[e.slot].status = 1
            /\ ev[e.slot].fd \in Fds /\ ev[e.slot].fd # ListenFd
            /\ ev[e.slot] \in Slot /\ c \in Conns /\ conn[c] = "open"
            /\ SlotTrue(e.slot) /\ ev[e.slot].events = e.mask
            /\ IF e.mask = "in" THEN Readable(ev[e.slot].fd)
                                ELSE Writable(ev[e.slot].fd)
            /\ {rx[c], owed[c], sent[c]} \subseteq 0 .. MaxSend
            /\ rx[c] + owed[c] <= sent[c]
  <1> USE DEF IInv
  <1>1. pc = "dispatch" /\ Tables /\ BatchTrue /\ Handled(e)
    BY DEF RecvData, SendData, Handled, Up
  <1>2. e.slot \in Slots /\ ev[e.slot].status = 1 /\ EventTrue(e)
    BY <1>1 DEF TypeOK, BatchTrue, EventTrue
  <1>3. e.slot # Listener
    BY <1>1 DEF RecvData, SendData, Tables, SlotShape
  <1>4. /\ ev[e.slot].fd \in Fds /\ ev[e.slot].fd # ListenFd
        /\ fdtab[ev[e.slot].fd] \in Conns /\ conn[fdtab[ev[e.slot].fd]] = "open"
    BY <1>1, <1>2, <1>3, SlotFacts
  <1>5. SlotTrue(e.slot)
    BY <1>1, <1>2, <1>3 DEF Tables, Buffers
  <1>6. ev[e.slot] \in Slot
    BY <1>2 DEF TypeOK
  <1>7. \A c \in Conns : /\ {rx[c], owed[c], sent[c]} \subseteq 0 .. MaxSend
                         /\ rx[c] + owed[c] <= sent[c]
    BY <1>1 DEF TypeOK, Tables, Accounts
  <1> QED
    BY <1>1, <1>2, <1>3, <1>4, <1>5, <1>6, <1>7 DEF EventTrue

\* recv_data_callback moves what it reads from the connection to the buffer.
LEMMA RecvStep ==
  ASSUME IInv, NEW e \in batch, RecvData(e)
  PROVE  IInv'
  <1> DEFINE s == e.slot
             c == fdtab[ev[s].fd]
             n == NRead(c)
             slot == [ev[s] EXCEPT !.size = Terminated(n)]
  <1>1. /\ pc = "dispatch" /\ Handled(e) /\ s # Listener
        /\ ev[s] \in Slot /\ ev[s].status = 1 /\ c \in Conns
        /\ rx[c] \in 0 .. MaxSend /\ owed[c] \in 0 .. MaxSend
        /\ sent[c] \in 0 .. MaxSend /\ rx[c] + owed[c] <= sent[c]
        /\ ev[s].size = 0 /\ (~ShortSends => owed[c] = 0)
    BY CallbackFacts DEF RecvData, SlotTrue
  <1>2. n \in 0 .. MaxBuf /\ n <= rx[c] /\ Terminated(n) = n
    BY <1>1, NReadInRange, TerminatedIsSize, Sizes
  <1>3. CASE n = 0
    BY <1>1, <1>3, CloseStep DEF RecvData
  <1>4. CASE n > 0
    <2>1. /\ rx' = [rx EXCEPT ![c] = @ - n]
          /\ owed' = [owed EXCEPT ![c] = @ + n]
          /\ Rearm(e, "send", "out", slot)
          /\ UNCHANGED <<peer, writable, sent>>
      BY <1>4 DEF RecvData
    <2>2. slot \in Slot /\ slot.fd = ev[s].fd /\ slot.status = 1 /\ slot.size = n
      BY <1>1, <1>2 DEF Slot
    <2> HIDE DEF slot, n
    <2>3. /\ rx[c] - n \in 0 .. MaxSend /\ owed[c] + n \in 0 .. MaxSend
          /\ (rx[c] - n) + (owed[c] + n) <= sent[c] /\ n <= owed[c] + n
      BY <1>1, <1>2, Sizes
    <2>4. /\ rx' \in [Conns -> 0 .. MaxSend] /\ owed' \in [Conns -> 0 .. MaxSend]
          /\ rx'[c] = rx[c] - n /\ owed'[c] = owed[c] + n
          /\ \A d \in Conns : d # c => rx'[d] = rx[d] /\ owed'[d] = owed[d]
      BY <1>1, <2>1, <2>3 DEF IInv, TypeOK
    <2>5. /\ peer' \in [Conns -> {"open", "fin", "pipe", "reset"}]
          /\ writable' \in [Conns -> BOOLEAN]
          /\ \A d \in Conns : d # c =>
               /\ rx'[d] = rx[d] /\ owed'[d] = owed[d]
               /\ peer'[d] = peer[d] /\ writable'[d] = writable[d]
      BY <2>1, <2>4 DEF IInv, TypeOK
    <2>6. /\ rx'[c] + owed'[c] <= sent'[c] /\ slot.size <= owed'[c]
          /\ ~ShortSends => slot.size = owed'[c]
      <3>1. sent' = sent
        BY <2>1
      <3>2. rx'[c] + owed'[c] <= sent'[c] /\ slot.size <= owed'[c]
        BY <2>2, <2>3, <2>4, <3>1
      <3>3. ASSUME ~ShortSends PROVE slot.size = owed'[c]
        BY <1>1, <1>2, <2>2, <2>4, <3>3
      <3> QED
        BY <3>2, <3>3
    <2> QED
      BY <1>1, <1>4, <2>1, <2>2, <2>4, <2>5, <2>6, RearmStep
  <1> QED
    BY <1>2, <1>3, <1>4

\* send_data_callback gives back what send() took of the buffer, drops the
\* rest, and waits for input again.
LEMMA SendStep ==
  ASSUME IInv, NEW e \in batch, SendData(e)
  PROVE  IInv'
  <1> DEFINE s == e.slot
             c == fdtab[ev[s].fd]
             slot == [ev[s] EXCEPT !.size = 0]
  <1>1. /\ pc = "dispatch" /\ Handled(e) /\ s # Listener
        /\ ev[s] \in Slot /\ ev[s].status = 1 /\ c \in Conns
        /\ rx[c] \in 0 .. MaxSend /\ owed[c] \in 0 .. MaxSend
        /\ sent[c] \in 0 .. MaxSend /\ rx[c] + owed[c] <= sent[c]
        /\ ev[s].size <= owed[c] /\ (~ShortSends => ev[s].size = owed[c])
    BY CallbackFacts DEF SendData, SlotTrue
  <1>2. CASE SendOk(e, c)
    <2>1. PICK len \in Takes(ev[s].size) :
            /\ owed' = [owed EXCEPT ![c] = @ - len]
            /\ \E w \in IF len < ev[s].size THEN {FALSE} ELSE BOOLEAN :
                 writable' = [writable EXCEPT ![c] = w]
      BY <1>2 DEF SendOk
    <2>2. /\ peer' = [peer EXCEPT ![c] = IF @ = "fin" THEN "pipe" ELSE "open"]
          /\ Rearm(e, "recv", "in", slot) /\ UNCHANGED <<rx, sent>>
      BY <1>2 DEF SendOk
    <2>3. slot \in Slot /\ slot.fd = ev[s].fd /\ slot.status = 1 /\ slot.size = 0
      <3>1. 0 \in 0 .. MaxBuf
        BY Sizes
      <3> QED
        BY <1>1, <3>1 DEF Slot
    <2> HIDE DEF slot
    <2>4. len \in Nat /\ len <= ev[s].size /\ (~ShortSends => len = ev[s].size)
      BY <1>1, <2>1 DEF Takes, Slot
    <2>5. /\ owed[c] - len \in 0 .. MaxSend /\ rx[c] + (owed[c] - len) <= sent[c]
          /\ (~ShortSends => owed[c] - len = 0)
      BY <1>1, <2>4, Sizes DEF Slot
    <2>6. /\ owed' \in [Conns -> 0 .. MaxSend] /\ owed'[c] = owed[c] - len
          /\ \A d \in Conns : d # c => owed'[d] = owed[d]
      BY <1>1, <2>1, <2>5 DEF IInv, TypeOK
    <2>7. /\ peer' \in [Conns -> {"open", "fin", "pipe", "reset"}]
          /\ writable' \in [Conns -> BOOLEAN]
          /\ \A d \in Conns : d # c =>
               /\ rx'[d] = rx[d] /\ owed'[d] = owed[d]
               /\ peer'[d] = peer[d] /\ writable'[d] = writable[d]
      BY <1>1, <2>1, <2>2, <2>6, ZenonT(40) DEF IInv, TypeOK
    <2>8. /\ rx'[c] + owed'[c] <= sent'[c] /\ slot.size <= owed'[c]
          /\ ~ShortSends => slot.size = owed'[c]
      BY <1>1, <2>2, <2>3, <2>5, <2>6
    <2>9. rx' \in [Conns -> 0 .. MaxSend]
      BY <2>2 DEF IInv, TypeOK
    <2> QED
      BY <1>1, <2>2, <2>3, <2>6, <2>7, <2>8, <2>9, RearmStep
  <1>3. CASE SendFails(e, c)
    BY <1>1, <1>3, CloseStep DEF SendFails
  <1>4. CASE SendKills(c)
    BY <1>1, <1>4 DEF SendKills, Handled, IInv, TypeOK, CtlNeverRefused, Up,
                      kernel, clients
  <1> QED
    BY <1>2, <1>3, <1>4 DEF SendData

\* What clients do makes events truer and leaves the server's tables alone.
LEMMA ClientStep ==
  ASSUME IInv, NEW c \in Conns, Client(c)
  PROVE  IInv'
  <1> USE DEF IInv
  <1>1. Up /\ Tables /\ UNCHANGED <<pc, ev, checkpos, batch, fdtab, reg, owed, idle>>
    BY DEF Client, Connect, ClientSend, ClientRead, ClientClose, kernel, clients
  <1>2. CASE Connect(c)
    <2>1. /\ conn' = [conn EXCEPT ![c] = "backlog"] /\ conn[c] = "new"
          /\ UNCHANGED clients
      BY <1>2 DEF Connect
    <2>2. TypeOK'
      BY <1>1, <2>1 DEF TypeOK, clients
    <2>3. Descriptors'
      BY <1>1, <2>1 DEF Tables, Descriptors, TypeOK
    <2>4. NoLeak' /\ Accounts'
      BY <1>1, <2>1 DEF Tables, NoLeak, Accounts, TypeOK, clients
    <2>5. SlotsWatched' /\ SlotShape' /\ Buffers'
      BY <1>1, <2>1 DEF Tables, SlotsWatched, SlotShape, Buffers, SlotTrue, clients
    <2>6. pc = "dispatch" => BatchTrue'
      <3> SUFFICES ASSUME pc = "dispatch", NEW d \in batch PROVE EventTrue(d)'
        BY <1>1 DEF BatchTrue
      <3>1. d.slot \in Slots /\ EventTrue(d) /\ ev[d.slot].status = 1
        BY DEF TypeOK, BatchTrue, EventTrue
      <3>2. d.slot # Listener => fdtab[ev[d.slot].fd] \in Conns
        BY <1>1, <3>1, SlotFacts
      <3>3. \A b \in Conns : rx[b] \in Nat
        BY Sizes DEF TypeOK
      <3> QED
        BY <1>1, <2>1, <3>1, <3>2, <3>3, EventKept DEF clients
    <2> QED
      BY <1>1, <2>2, <2>3, <2>4, <2>5, <2>6 DEF Tables, CtlNeverRefused
  <1>3. CASE ClientSend(c) \/ ClientRead(c) \/ ClientClose(c)
    <2>1. /\ conn' = conn
          /\ rx' \in [Conns -> 0 .. MaxSend] /\ sent' \in [Conns -> 0 .. MaxSend]
          /\ peer' \in [Conns -> {"open", "fin", "pipe", "reset"}]
          /\ writable' \in [Conns -> BOOLEAN]
          /\ \A b \in Conns :
               /\ rx[b] \in Nat /\ rx'[b] \in Nat /\ rx[b] <= rx'[b]
               /\ sent'[b] - rx'[b] = sent[b] - rx[b]
               /\ peer[b] # "open" => peer'[b] = peer[b]
               /\ writable[b] => writable'[b]
      <3>1. CASE ClientSend(c)
        <4>1. PICK k \in {1, MaxBuf} : /\ sent[c] + k <= MaxSend
                                       /\ sent' = [sent EXCEPT ![c] = @ + k]
                                       /\ rx' = [rx EXCEPT ![c] = @ + k]
          BY <3>1 DEF ClientSend
        <4>2. UNCHANGED <<conn, peer, writable>>
          BY <3>1 DEF ClientSend, kernel
        <4>3. k \in Nat
          BY Sizes
        <4>4. \A b \in Conns : /\ {rx[b], sent[b], owed[b]} \subseteq 0 .. MaxSend
                               /\ rx[b] + owed[b] <= sent[b]
          BY <1>1 DEF TypeOK, Tables, Accounts
        <4>5. sent[c] + k \in 0 .. MaxSend /\ rx[c] + k \in 0 .. MaxSend
          BY <4>1, <4>3, <4>4, Sizes
        <4> QED
          BY <4>1, <4>2, <4>3, <4>4, <4>5, Sizes DEF TypeOK
      <3>2. CASE ClientRead(c)
        BY <3>2, Sizes DEF ClientRead, kernel, TypeOK
      <3>3. CASE ClientClose(c)
        <4>1. PICK how \in {"fin", "reset"} : peer' = [peer EXCEPT ![c] = how]
          BY <3>3 DEF ClientClose
        <4>2. UNCHANGED <<kernel, rx, writable, sent>> /\ peer[c] = "open"
          BY <3>3 DEF ClientClose, Connected
        <4> QED
          BY <4>1, <4>2, Sizes DEF kernel, TypeOK
      <3> QED
        BY <1>3, <3>1, <3>2, <3>3
    <2>2. TypeOK'
      BY <1>1, <2>1 DEF TypeOK
    <2>3. Descriptors' /\ NoLeak' /\ SlotsWatched' /\ SlotShape' /\ Buffers'
      BY <1>1, <2>1 DEF Tables, Descriptors, NoLeak, SlotsWatched, SlotShape,
                        Buffers, SlotTrue
    <2>4. Accounts'
      <3>1. \A b \in Conns : {rx[b], sent[b], rx'[b], sent'[b], owed[b]} \subseteq Nat
        BY <2>1, Sizes DEF TypeOK
      <3>2. \A b \in Conns : rx'[b] + owed[b] <= sent'[b]
        BY <1>1, <2>1, <3>1 DEF Tables, Accounts
      <3> QED
        BY <1>1, <2>1, <3>2 DEF Tables, Accounts
    <2>5. pc = "dispatch" => BatchTrue'
      <3> SUFFICES ASSUME pc = "dispatch", NEW d \in batch PROVE EventTrue(d)'
        BY <1>1 DEF BatchTrue
      <3>1. d.slot \in Slots /\ EventTrue(d) /\ ev[d.slot].status = 1
        BY DEF TypeOK, BatchTrue, EventTrue
      <3>2. d.slot # Listener => fdtab[ev[d.slot].fd] \in Conns
        BY <1>1, <3>1, SlotFacts
      <3> QED
        BY <1>1, <2>1, <3>1, <3>2, EventKept
    <2> QED
      BY <1>1, <2>1, <2>2, <2>3, <2>4, <2>5 DEF Tables, CtlNeverRefused
  <1> QED
    BY <1>2, <1>3 DEF Client

\* Slots and connections grow older together.
LEMMA TickStep == IInv /\ Tick => IInv'
  <1> SUFFICES ASSUME IInv, Tick PROVE IInv'
    OBVIOUS
  <1> USE DEF IInv
  <1>1. /\ Up /\ Tables
        /\ UNCHANGED <<pc, checkpos, batch, kernel, peer, rx, writable, sent, owed>>
    BY DEF Tick
  <1>2. \A t \in 0 .. TimeOut + 1 : Older(t) \in 0 .. TimeOut + 1
    BY Sizes DEF Older
  <1>3. \A s \in Slots : /\ ev'[s] \in Slot
                         /\ ev'[s].fd = ev[s].fd /\ ev'[s].status = ev[s].status
                         /\ ev'[s].events = ev[s].events /\ ev'[s].cb = ev[s].cb
                         /\ ev'[s].size = ev[s].size
                         /\ ev[s].status = 1 => ev'[s].age = Older(ev[s].age)
    <2> SUFFICES ASSUME NEW s \in Slots
                 PROVE  /\ ev'[s] \in Slot
                        /\ ev'[s].fd = ev[s].fd /\ ev'[s].status = ev[s].status
                        /\ ev'[s].events = ev[s].events /\ ev'[s].cb = ev[s].cb
                        /\ ev'[s].size = ev[s].size
                        /\ ev[s].status = 1 => ev'[s].age = Older(ev[s].age)
      OBVIOUS
    <2>1. ev[s] \in Slot
      BY DEF TypeOK
    <2>2. CASE ev[s].status = 1
      <3>1. ev'[s] = [ev[s] EXCEPT !.age = Older(ev[s].age)]
        BY <2>2 DEF Tick
      <3>2. Older(ev[s].age) \in 0 .. TimeOut + 1
        BY <1>2, <2>1 DEF Slot
      <3> QED
        BY <2>1, <3>1, <3>2 DEF Slot
    <2>3. CASE ev[s].status # 1
      BY <2>1, <2>3 DEF Tick
    <2> QED BY <2>2, <2>3
  <1>4. /\ ev' \in [Slots -> Slot]
        /\ idle' \in [Conns -> 0 .. TimeOut + 1]
        /\ \A c \in Conns : conn[c] = "open" => idle'[c] = Older(idle[c])
    BY <1>2, <1>3 DEF Tick, TypeOK
  <1>5. TypeOK'
    BY <1>1, <1>4 DEF TypeOK, kernel
  <1>6. SlotsWatched' /\ NoLeak' /\ Descriptors' /\ Accounts'
    <2>1. \A f \in Fds : reg[f].slot \in Slots
      BY DEF TypeOK
    <2> QED
      BY <1>1, <1>3, <2>1 DEF Tables, SlotsWatched, NoLeak, Descriptors, Accounts, kernel
  <1>7. SlotShape'
    BY <1>1, <1>3, Sizes DEF Tables, SlotShape
  <1>8. Buffers'
    <2> SUFFICES ASSUME NEW s \in Slots \ {Listener}, ev'[s].status = 1
                 PROVE  SlotTrue(s)'
      BY DEF Buffers
    <2>1. ev[s].status = 1 /\ SlotTrue(s)
      BY <1>1, <1>3 DEF Tables, Buffers
    <2>2. fdtab[ev[s].fd] \in Conns /\ conn[fdtab[ev[s].fd]] = "open"
      BY <1>1, <2>1, SlotFacts
    <2> QED
      BY <1>1, <1>3, <1>4, <2>1, <2>2 DEF SlotTrue, kernel
  <1>9. pc = "dispatch" => BatchTrue'
    <2> SUFFICES ASSUME pc = "dispatch", NEW d \in batch PROVE EventTrue(d)'
      BY <1>1 DEF BatchTrue
    <2>1. d.slot \in Slots /\ EventTrue(d) /\ ev[d.slot].status = 1
      BY DEF TypeOK, BatchTrue, EventTrue
    <2> QED
      BY <1>1, <1>3, <2>1 DEF EventTrue, Readable, Writable, Backlog, kernel
  <1> QED
    BY <1>1, <1>5, <1>6, <1>7, <1>8, <1>9
    DEF Tables, CtlNeverRefused, kernel

-----------------------------------------------------------------------------
(* The theorems                                                            *)

\* The invariant is inductive.
LEMMA NextIInv == IInv /\ [Next]_vars => IInv'
  <1> SUFFICES ASSUME IInv, [Next]_vars PROVE IInv'
    OBVIOUS
  <1>1. CASE Sweep
    BY <1>1, SweepStep
  <1>2. CASE EpollWait
    BY <1>2, WaitStep
  <1>3. CASE Dispatch
    BY <1>3, AcceptStep, RecvStep, SendStep DEF Dispatch
  <1>4. CASE Tick
    BY <1>4, TickStep
  <1>5. CASE \E c \in Conns : Client(c)
    BY <1>5, ClientStep
  <1>6. CASE UNCHANGED vars
    BY <1>6 DEF vars, kernel, clients, IInv, TypeOK, Tables, SlotsWatched, NoLeak,
                Descriptors, SlotShape, Accounts, Buffers, SlotTrue, BatchTrue,
                EventTrue, Readable, Writable, Backlog, CtlNeverRefused
  <1> QED
    BY <1>1, <1>2, <1>3, <1>4, <1>5, <1>6 DEF Next, Server

\* The inductive invariant holds in every reachable state.
THEOREM Invariance == Spec => []IInv
  <1>1. Init => IInv
    BY InitIInv
  <1>2. IInv /\ [Next]_vars => IInv'
    BY NextIInv
  <1> QED
    BY <1>1, <1>2, PTL DEF Spec

\* While the server runs, g_events, epoll's interest list and the descriptors
\* agree, no connection is left open that nobody would find, and the listening
\* socket is watched.
THEOREM RegisteredHolds == Spec => []Registered
  <1>1. IInv => Registered
    BY DEF IInv, Tables, SlotShape, Registered
  <1> QED
    BY <1>1, Invariance, PTL

\* Callbacks never invalidate an event that is still to be handled.
THEOREM BatchFreshHolds == Spec => []BatchFresh
  <1>1. IInv => BatchFresh
    BY DEF IInv, BatchTrue, EventTrue, BatchFresh
  <1> QED
    BY <1>1, Invariance, PTL

\* Whenever a callback adds its slot, or that of a new connection, the descriptor
\* is not in the interest list, so that EPOLL_CTL_ADD is not refused with EEXIST, and
\* EPOLL_CTL_MOD is not used for one that is not there: the status of a slot and
\* the list agree at each call of epoll_ctl.
THEOREM CtlNeverRefusedHolds == Spec => []CtlNeverRefused
  BY Invariance, PTL DEF IInv

\* The bytes counted in the buffer of a slot are never more than were read from
\* its own connection and not written back, and they are as many if every send()
\* takes the whole of its buffer.  Only numbers of bytes are compared.
THEOREM EchoExactHolds == Spec => []EchoExact
  <1>1. IInv => EchoExact
    BY DEF IInv, Tables, Buffers, SlotTrue, EchoExact
  <1> QED
    BY <1>1, Invariance, PTL

\* A connection whose client is there is closed only by the sweep, and only when
\* nothing was read from or written to it for longer than the timeout: neither
\* callback closes it, because recv is called only when there is something to
\* read, and send only with something to send and room for it.
THEOREM OnlyIdleClosedHolds == Spec => OnlyIdleClosed
  <1> DEFINE Step == \A c \in Conns :
                       conn[c] = "open" /\ conn'[c] = "closed" /\ peer[c] = "open"
                         => idle[c] > TimeOut
  <1>1. IInv /\ [Next]_vars => Step
    <2> SUFFICES ASSUME IInv, [Next]_vars, NEW c \in Conns,
                        conn[c] = "open", conn'[c] = "closed", peer[c] = "open"
                 PROVE  idle[c] > TimeOut
      OBVIOUS
    <2>1. CASE Sweep
      <3>1. PICK s \in Visited : Expired(ev[s]) /\ fdtab[ev[s].fd] = c
        BY <2>1 DEF Sweep
      <3>2. s \in Slots \ {Listener}
        BY RoundInRange DEF IInv, TypeOK
      <3>3. ev[s].status = 1 /\ ev[s].age > TimeOut
        BY <3>1, <3>2 DEF Expired, IInv, TypeOK, Slot
      <3>4. SlotTrue(s)
        BY <2>1, <3>2, <3>3 DEF Sweep, Up, IInv, Tables, Buffers
      <3> QED
        BY <3>1, <3>3, <3>4 DEF SlotTrue
    <2>2. ASSUME NEW e \in batch, RecvData(e) PROVE FALSE
      <3> DEFINE d == fdtab[ev[e.slot].fd]
      <3>1. /\ d \in Conns /\ Readable(ev[e.slot].fd) /\ ev[e.slot].fd # ListenFd
            /\ rx[d] \in 0 .. MaxSend
        BY <2>2, CallbackFacts DEF RecvData
      <3>2. NRead(d) = 0 /\ CloseConn(e)
        BY <2>2 DEF RecvData, Rearm
      <3>3. rx[d] = 0
        BY <3>1, <3>2, NReadInRange, Sizes
      <3>4. d = c
        BY <3>1, <3>2 DEF CloseConn, IInv, TypeOK
      <3> QED
        BY <3>1, <3>3, <3>4 DEF Readable
    <2>3. ASSUME NEW e \in batch, SendData(e) PROVE FALSE
      <3> DEFINE d == fdtab[ev[e.slot].fd]
      <3>1. /\ d \in Conns /\ Writable(ev[e.slot].fd) /\ ev[e.slot].size > 0
        BY <2>3, CallbackFacts DEF SendData, SlotTrue
      <3>2. SendFails(e, d)
        BY <2>3 DEF SendData, SendOk, SendKills, Rearm, kernel
      <3>3. peer[d] = "reset"
        BY <3>1, <3>2 DEF SendFails, Writable
      <3>4. d = c
        BY <3>1, <3>2 DEF SendFails, CloseConn, IInv, TypeOK
      <3> QED
        BY <3>3, <3>4
    <2>4. ASSUME NEW e \in batch, AcceptConn(e) PROVE FALSE
      BY <2>4 DEF AcceptConn, AcceptFails, TooManyConnections, NewConnection, Backlog,
                  kernel, IInv, TypeOK
    <2>5. ASSUME NEW d \in Conns, Client(d) PROVE FALSE
      BY <2>5 DEF Client, Connect, ClientSend, ClientRead, ClientClose, kernel,
                  IInv, TypeOK
    <2>6. CASE EpollWait \/ Tick \/ UNCHANGED vars
      BY <2>6 DEF EpollWait, Tick, vars, kernel
    <2> QED
      BY <2>1, <2>2, <2>3, <2>4, <2>5, <2>6 DEF Next, Server, Dispatch
  <1>2. Spec => [][Step]_vars
    BY <1>1, Invariance, PTL DEF Spec
  <1> QED
    BY <1>2 DEF OnlyIdleClosed

-----------------------------------------------------------------------------
(* The server with select: the inductive invariant                         *)

SelTypeOK == /\ selpc \in {"select", "pass", "send", "exit", "killed"}
             /\ readfds \in SUBSET (Sel!Fds \cup {Sel!Server})
             /\ testfds \in SUBSET (Sel!Fds \cup {Sel!Server})
             /\ fd \in 0 .. SelFds + 1
             /\ selfdtab \in [Sel!Fds -> SelConns \cup {SelUnused}]
             /\ selconn \in [SelConns -> {"new", "backlog", "open", "closed"}]
             /\ selpeer \in [SelConns -> {"open", "fin", "pipe", "reset"}]
             /\ selrx \in [SelConns -> Nat]
             /\ selwritable \in [SelConns -> BOOLEAN]

\* A descriptor that is in use is that of one open client, and of no other one.
SelDescriptors ==
  \A f \in Sel!Fds : selfdtab[f] # SelUnused =>
    /\ selconn[selfdtab[f]] = "open"
    /\ \A g \in Sel!Fds : selfdtab[g] = selfdtab[f] => g = f

\* The bits of readfds are those of the descriptors in use.
Bits == readfds = {Sel!Server} \union {f \in Sel!Fds : selfdtab[f] # SelUnused}

\* What select reported of the descriptors that this pass has not come to yet
\* still is true of them; during a send the pass is at a client.
Selected ==
  /\ selpc = "pass" => \A f \in testfds : f >= fd /\ f # Sel!Server =>
                         selfdtab[f] # SelUnused /\ Sel!HasInput(selfdtab[f])
  /\ selpc = "send" =>
       /\ fd \in Sel!Fds /\ selfdtab[fd] \in SelConns
       /\ \A f \in testfds : f > fd =>
            selfdtab[f] # SelUnused /\ Sel!HasInput(selfdtab[f])

\* The inductive invariant.
SelIInv == SelTypeOK /\ (Sel!Up => SelDescriptors /\ Bits /\ Selected)

-----------------------------------------------------------------------------
(* Facts about the operators                                               *)

\* The kernel's search for a descriptor and the pass over the bits end at a
\* member of the set, and it is the least.
LEMMA LowestIsLeast ==
  ASSUME NEW S \in SUBSET Nat, S # {}
  PROVE  Sel!Lowest(S) \in S /\ \A x \in S : Sel!Lowest(S) <= x
  <1> DEFINE R == OpToRel(<, Nat)
  <1>1. PICK x \in S : \A y \in S : ~ (<<y, x>> \in R)
    <2>1. IsWellFoundedOn(R, Nat)
      BY NatLessThanWellFounded
    <2> HIDE DEF R
    <2> QED BY <2>1, WFMin
  <1>2. \A y \in S : <<y, x>> \in R <=> y < x
    BY DEF OpToRel
  <1>3. \A y \in S : ~ (y < x)
    BY <1>1, <1>2
  <1>4. \A y \in S : x <= y
    BY <1>3
  <1> QED
    BY <1>4 DEF Sel!Lowest

\* The bit whose turn it is was reported, and every bit before it was passed.
LEMMA TurnIsSet ==
  ASSUME SelTypeOK, NEW f, Sel!At(f)
  PROVE  selpc = "pass" /\ f \in testfds /\ f >= fd /\ f \in Nat
  <1>1. Sel!Set \in SUBSET Nat /\ Sel!Set # {} /\ f = Sel!Lowest(Sel!Set) /\ selpc = "pass"
    <2>1. testfds \subseteq Nat
      BY SelAssumption DEF SelTypeOK, Sel!Fds, Sel!Server
    <2> QED
      BY <2>1 DEF Sel!At, Sel!Set
  <1>2. f \in Sel!Set
    BY <1>1, LowestIsLeast
  <1> QED
    BY <1>1, <1>2 DEF Sel!Set

\* So the descriptor whose turn it is has a client with something to read.
LEMMA TurnIsTrue ==
  ASSUME SelIInv, NEW f \in Sel!Fds, Sel!At(f)
  PROVE  /\ selfdtab[f] \in SelConns /\ Sel!HasInput(selfdtab[f])
         /\ selconn[selfdtab[f]] = "open"
         /\ \A g \in Sel!Fds : selfdtab[g] = selfdtab[f] => g = f
         /\ selpc = "pass" /\ f >= fd
  <1>1. SelTypeOK /\ f # Sel!Server
    BY SelAssumption DEF SelIInv, Sel!Fds, Sel!Server
  <1>2. selpc = "pass" /\ f \in testfds /\ f >= fd
    BY <1>1, TurnIsSet
  <1>3. selfdtab[f] # SelUnused /\ Sel!HasInput(selfdtab[f])
    BY <1>1, <1>2 DEF SelIInv, Selected, Sel!Up
  <1> QED
    BY <1>1, <1>2, <1>3 DEF SelIInv, SelDescriptors, SelTypeOK, Sel!Up

-----------------------------------------------------------------------------
(* The steps                                                               *)

\* Only the listening socket is watched.
LEMMA SelInitIInv == Sel!Init => SelIInv
  <1> SUFFICES ASSUME Sel!Init PROVE SelIInv
    OBVIOUS
  <1> USE DEF Sel!Init
  <1>1. SelTypeOK
    BY SelAssumption DEF SelTypeOK, Sel!Fds, Sel!Server
  <1>2. SelDescriptors /\ Bits /\ Selected
    BY DEF SelDescriptors, Bits, Selected
  <1> QED
    BY <1>1, <1>2 DEF SelIInv

\* select reports what is true, and its failure ends the program.
LEMMA SelectStep == SelIInv /\ Sel!Select => SelIInv'
  <1> SUFFICES ASSUME SelIInv, Sel!Select PROVE SelIInv'
    OBVIOUS
  <1>1. /\ SelTypeOK /\ SelDescriptors /\ Bits /\ selpc = "select"
        /\ UNCHANGED <<readfds, selfdtab, selconn, selpeer, selrx, selwritable>>
    BY DEF SelIInv, Sel!Select, Sel!Up, Sel!clients
  <1>2. CASE Sel!SelectFails
    BY <1>1, <1>2 DEF Sel!SelectFails, SelIInv, SelTypeOK, Sel!Up
  <1>3. CASE Sel!SelectReturns
    <2>1. /\ testfds' = {f \in readfds : Sel!Readable(f)} /\ fd' = 0 /\ selpc' = "pass"
      BY <1>3 DEF Sel!SelectReturns
    <2>2. SelTypeOK'
      BY <1>1, <2>1, SelAssumption DEF SelTypeOK
    <2>3. SelDescriptors' /\ Bits'
      BY <1>1 DEF SelDescriptors, Bits
    <2>4. \A f \in testfds' : f # Sel!Server => selfdtab[f] # SelUnused /\ Sel!HasInput(selfdtab[f])
      BY <1>1, <2>1 DEF Bits, Sel!Readable
    <2>5. Selected'
      BY <1>1, <2>1, <2>4 DEF Selected, Sel!HasInput
    <2> QED
      BY <2>2, <2>3, <2>5 DEF SelIInv
  <1> QED
    BY <1>2, <1>3 DEF Sel!Select

\* The end of a pass changes nothing.
LEMMA EndPassStep == SelIInv /\ Sel!EndPass => SelIInv'
  BY DEF SelIInv, Sel!EndPass, SelTypeOK, SelDescriptors, Bits, Selected, Sel!Up, Sel!clients

\* The new client gets a descriptor that is not reported in this pass, as those
\* that were reported are in use.
LEMMA SelAcceptStep == SelIInv /\ Sel!Accept => SelIInv'
  <1> SUFFICES ASSUME SelIInv, Sel!Accept PROVE SelIInv'
    OBVIOUS
  <1>1. Sel!At(Sel!Server) /\ SelTypeOK /\ UNCHANGED <<selpeer, selrx, selwritable>>
    BY DEF Sel!Accept, SelIInv, Sel!clients
  <1>2. selpc = "pass" /\ fd = 0 /\ SelDescriptors /\ Bits /\ Selected
    BY <1>1, TurnIsSet, SelAssumption DEF SelIInv, SelTypeOK, Sel!Server, Sel!Up
  <1>3. CASE Sel!AcceptFails
    BY <1>1, <1>3 DEF Sel!AcceptFails, SelIInv, SelTypeOK, Sel!Up
  <1>4. CASE Sel!AcceptClient
    <2> DEFINE f == Sel!Lowest(Sel!FreeFds)
    <2>1. PICK c \in Sel!Backlog : /\ selfdtab' = [selfdtab EXCEPT ![f] = c]
                               /\ selconn' = [selconn EXCEPT ![c] = "open"]
      BY <1>4 DEF Sel!AcceptClient
    <2>2. readfds' = readfds \union {f} /\ testfds' = testfds /\ fd' = 1 /\ selpc' = selpc
      BY <1>4 DEF Sel!AcceptClient, Sel!Accepted, Sel!Server
    <2>3. f \in Sel!Fds /\ selfdtab[f] = SelUnused
      <3>1. Sel!FreeFds \in SUBSET Nat
        BY SelAssumption DEF Sel!FreeFds, Sel!Fds
      <3> QED
        BY <1>4, <3>1, LowestIsLeast DEF Sel!FreeFds, Sel!AcceptClient
    <2> HIDE DEF f
    <2>4. c \in SelConns /\ selconn[c] = "backlog" /\ c # SelUnused
      BY SelAssumption DEF Sel!Backlog
    <2>5. /\ selfdtab'[f] = c /\ \A g \in Sel!Fds \ {f} : selfdtab'[g] = selfdtab[g]
          /\ selconn'[c] = "open" /\ \A d \in SelConns \ {c} : selconn'[d] = selconn[d]
          /\ selfdtab' \in [Sel!Fds -> SelConns \cup {SelUnused}]
          /\ selconn' \in [SelConns -> {"new", "backlog", "open", "closed"}]
      BY <1>1, <2>1, <2>3, <2>4 DEF SelTypeOK
    <2>6. \A g \in Sel!Fds : selfdtab[g] # c
      BY <1>2, <2>4 DEF SelDescriptors
    <2>7. SelTypeOK'
      <3>1. fd' \in 0 .. SelFds + 1
        BY <2>2, SelAssumption
      <3> QED
        BY <1>1, <1>2, <2>2, <2>3, <2>5, <3>1 DEF SelTypeOK
    <2>8. SelDescriptors'
      <3>1. \A g \in Sel!Fds \ {f} : selfdtab[g] # SelUnused => selfdtab[g] \in SelConns \ {c}
        BY <1>1, <2>6 DEF SelTypeOK
      <3> QED
        BY <1>2, <2>3, <2>5, <2>6, <3>1 DEF SelDescriptors
    <2>9. Bits'
      BY <1>2, <2>2, <2>3, <2>4, <2>5 DEF Bits
    <2>10. Selected'
      <3>1. ASSUME NEW g \in testfds, g # Sel!Server
            PROVE  selfdtab'[g] # SelUnused /\ Sel!HasInput(selfdtab[g])'
        <4>1. g \in Sel!Fds /\ g >= fd
          BY <1>1, <1>2, <3>1, SelAssumption DEF SelTypeOK, Sel!Fds
        <4>2. selfdtab[g] # SelUnused /\ Sel!HasInput(selfdtab[g])
          BY <1>2, <3>1, <4>1 DEF Selected
        <4>3. g # f /\ selfdtab'[g] = selfdtab[g]
          BY <2>3, <2>5, <4>1, <4>2
        <4> QED
          BY <1>1, <4>2, <4>3 DEF Sel!HasInput
      <3> QED
        BY <1>2, <2>2, <3>1 DEF Selected
    <2> QED
      BY <2>7, <2>8, <2>9, <2>10 DEF SelIInv
  <1> QED
    BY <1>3, <1>4 DEF Sel!Accept

\* The pass has gone past the descriptor that is closed, and no other one has
\* its client.
LEMMA SelCloseStep == \A f \in Sel!Fds : SelIInv /\ Sel!Close(f) => SelIInv'
  <1> SUFFICES ASSUME NEW f \in Sel!Fds, SelIInv, Sel!Close(f) PROVE SelIInv'
    OBVIOUS
  <1> DEFINE c == selfdtab[f]
  <1>1. /\ Sel!At(f) /\ readfds' = readfds \ {f}
        /\ selfdtab' = [selfdtab EXCEPT ![f] = SelUnused]
        /\ selconn' = [selconn EXCEPT ![c] = "closed"]
        /\ fd' = f + 1
        /\ UNCHANGED <<selpc, testfds, selpeer, selrx, selwritable>>
    BY DEF Sel!Close, Sel!Cleared, Sel!clients
  <1>2. /\ c \in SelConns /\ selpc = "pass" /\ f >= fd /\ selconn[c] = "open"
        /\ \A g \in Sel!Fds : selfdtab[g] = c => g = f
    BY <1>1, TurnIsTrue
  <1>3. SelTypeOK /\ SelDescriptors /\ Bits /\ Selected
    BY <1>2 DEF SelIInv, Sel!Up
  <1>4. /\ selfdtab'[f] = SelUnused /\ \A g \in Sel!Fds \ {f} : selfdtab'[g] = selfdtab[g]
        /\ selconn'[c] = "closed" /\ \A d \in SelConns \ {c} : selconn'[d] = selconn[d]
        /\ selfdtab' \in [Sel!Fds -> SelConns \cup {SelUnused}]
        /\ selconn' \in [SelConns -> {"new", "backlog", "open", "closed"}]
    BY <1>1, <1>2, <1>3 DEF SelTypeOK
  <1>5. SelTypeOK'
    <2>1. fd' \in 0 .. SelFds + 1
      BY <1>1, SelAssumption DEF Sel!Fds
    <2> QED
      BY <1>1, <1>3, <1>4, <2>1 DEF SelTypeOK
  <1>6. \A g \in Sel!Fds \ {f} : selfdtab[g] # c
    BY <1>2
  <1>7. SelDescriptors'
    <2>1. \A g \in Sel!Fds \ {f} : selfdtab[g] # SelUnused => selfdtab[g] \in SelConns \ {c}
      BY <1>3, <1>6 DEF SelTypeOK
    <2> QED
      BY <1>3, <1>4, <2>1 DEF SelDescriptors
  <1>8. Bits'
    <2>1. f # Sel!Server
      BY SelAssumption DEF Sel!Fds, Sel!Server
    <2> QED
      BY <1>1, <1>3, <1>4, <2>1 DEF Bits
  <1>9. Selected'
    <2>1. ASSUME NEW g \in testfds, g >= fd', g # Sel!Server
          PROVE  selfdtab'[g] # SelUnused /\ Sel!HasInput(selfdtab[g])'
      <3>1. g \in Sel!Fds \ {f} /\ g >= fd
        BY <1>1, <1>2, <1>3, <2>1, SelAssumption DEF SelTypeOK, Sel!Fds, Sel!Server
      <3>2. selfdtab[g] # SelUnused /\ Sel!HasInput(selfdtab[g])
        BY <1>2, <1>3, <2>1, <3>1 DEF Selected
      <3>3. selfdtab'[g] = selfdtab[g]
        BY <1>4, <3>1
      <3> QED
        BY <1>1, <3>2, <3>3 DEF Sel!HasInput
    <2> QED
      BY <1>1, <1>2, <2>1 DEF Selected
  <1> QED
    BY <1>5, <1>7, <1>8, <1>9 DEF SelIInv

\* What is read is not what was reported of another descriptor.
LEMMA SelRecvStep == \A f \in Sel!Fds : SelIInv /\ Sel!Recv(f) => SelIInv'
  <1> SUFFICES ASSUME NEW f \in Sel!Fds, SelIInv, Sel!Recv(f) PROVE SelIInv'
    OBVIOUS
  <1> DEFINE c == selfdtab[f]
  <1>1. /\ Sel!At(f) /\ selrx[c] > 0
        /\ selrx' = [selrx EXCEPT ![c] = @ - 1]
        /\ fd' = f /\ selpc' = "send"
        /\ UNCHANGED <<readfds, testfds, selfdtab, selconn, selpeer, selwritable>>
    BY DEF Sel!Recv
  <1>2. /\ c \in SelConns /\ selpc = "pass" /\ f >= fd
        /\ \A g \in Sel!Fds : selfdtab[g] = c => g = f
    BY <1>1, TurnIsTrue
  <1>3. SelTypeOK /\ SelDescriptors /\ Bits /\ Selected
    BY <1>2 DEF SelIInv, Sel!Up
  <1>4. /\ selrx' \in [SelConns -> Nat]
        /\ \A d \in SelConns \ {c} : selrx'[d] = selrx[d]
    <2>1. selrx[c] - 1 \in Nat
      BY <1>1, <1>2, <1>3 DEF SelTypeOK
    <2> QED
      BY <1>1, <1>3, <2>1 DEF SelTypeOK
  <1>5. SelTypeOK'
    <2>1. f \in 0 .. SelFds + 1
      BY SelAssumption DEF Sel!Fds
    <2> QED
      BY <1>1, <1>3, <1>4, <2>1 DEF SelTypeOK
  <1>6. SelDescriptors' /\ Bits'
    BY <1>1, <1>3 DEF SelDescriptors, Bits
  <1>7. Selected'
    <2>1. ASSUME NEW g \in testfds, g > f
          PROVE  selfdtab[g] # SelUnused /\ Sel!HasInput(selfdtab[g])'
      <3>1. g \in Sel!Fds \ {f} /\ g >= fd /\ g # Sel!Server
        BY <1>1, <1>2, <1>3, <2>1, SelAssumption DEF SelTypeOK, Sel!Fds, Sel!Server
      <3>2. selfdtab[g] # SelUnused /\ Sel!HasInput(selfdtab[g])
        BY <1>2, <1>3, <2>1, <3>1 DEF Selected
      <3>3. selfdtab[g] \in SelConns \ {c}
        BY <1>2, <1>3, <3>1, <3>2 DEF SelTypeOK
      <3> QED
        BY <1>1, <1>4, <3>2, <3>3 DEF Sel!HasInput
    <2> QED
      BY <1>1, <1>2, <2>1 DEF Selected
  <1> QED
    BY <1>5, <1>6, <1>7 DEF SelIInv

\* A send that returns leaves what there is to read as it is, and the pass goes on.
LEMMA SelSendStep == SelIInv /\ Sel!Send => SelIInv'
  <1> SUFFICES ASSUME SelIInv, Sel!Send PROVE SelIInv'
    OBVIOUS
  <1> DEFINE c == selfdtab[fd]
  <1>1. /\ selpc = "send" /\ SelTypeOK /\ SelDescriptors /\ Bits /\ Selected
        /\ UNCHANGED <<readfds, testfds, selfdtab, selconn, selrx>>
    BY DEF Sel!Send, SelIInv, Sel!Up
  <1>2. fd \in Sel!Fds /\ c \in SelConns
    BY <1>1 DEF Selected
  <1>3. CASE Sel!Sent(c)
    <2>1. /\ fd' = fd + 1 /\ selpc' = "pass"
          /\ \/ selpeer' = selpeer /\ \E w \in BOOLEAN :
                  selwritable' = [selwritable EXCEPT ![c] = w]
             \/ /\ selpeer[c] \in {"fin", "reset"} /\ selwritable' = selwritable
                /\ \E told \in {selpeer[c], "pipe"} : selpeer' = [selpeer EXCEPT ![c] = told]
      BY <1>3 DEF Sel!Sent
    <2>2. /\ selpeer' \in [SelConns -> {"open", "fin", "pipe", "reset"}]
          /\ selwritable' \in [SelConns -> BOOLEAN]
          /\ \A d \in SelConns : selpeer[d] # "open" => selpeer'[d] # "open"
      BY <1>1, <1>2, <2>1 DEF SelTypeOK
    <2>3. SelTypeOK'
      <3>1. fd + 1 \in 0 .. SelFds + 1
        BY <1>2, SelAssumption DEF Sel!Fds
      <3> QED
        BY <1>1, <2>1, <2>2, <3>1 DEF SelTypeOK
    <2>4. SelDescriptors' /\ Bits'
      BY <1>1 DEF SelDescriptors, Bits
    <2>5. Selected'
      <3>1. ASSUME NEW g \in testfds, g >= fd + 1
            PROVE  selfdtab[g] # SelUnused /\ Sel!HasInput(selfdtab[g])'
        <4>1. g \in Sel!Fds /\ g > fd
          BY <1>1, <1>2, <3>1, SelAssumption DEF SelTypeOK, Sel!Fds, Sel!Server
        <4>2. selfdtab[g] # SelUnused /\ Sel!HasInput(selfdtab[g])
          BY <1>1, <4>1 DEF Selected
        <4>3. selfdtab[g] \in SelConns
          BY <1>1, <4>1, <4>2 DEF SelTypeOK
        <4> QED
          BY <1>1, <2>2, <4>2, <4>3 DEF Sel!HasInput
      <3> QED
        BY <1>1, <2>1, <3>1 DEF Selected
    <2> QED
      BY <2>3, <2>4, <2>5 DEF SelIInv
  <1>4. CASE Sel!SendKills(c)
    <2>1. selpc' = "killed" /\ UNCHANGED <<fd, selpeer, selwritable>>
      BY <1>4 DEF Sel!SendKills
    <2> QED
      BY <1>1, <2>1 DEF SelIInv, SelTypeOK, Sel!Up
  <1> QED
    BY <1>3, <1>4 DEF Sel!Send

\* What a client does only adds to what there is to read.
LEMMA SelClientStep == \A c \in SelConns : SelIInv /\ Sel!Up /\ Sel!Client(c) => SelIInv'
  <1> SUFFICES ASSUME SelIInv, Sel!Up, NEW c \in SelConns, Sel!Client(c) PROVE SelIInv'
    OBVIOUS
  <1>1. /\ SelTypeOK /\ SelDescriptors /\ Bits /\ Selected
        /\ UNCHANGED <<selpc, readfds, testfds, fd, selfdtab>>
    BY DEF SelIInv, Sel!Client, Sel!Connect, Sel!ClientSend, Sel!ClientRead, Sel!Leave
  <1>2. CASE Sel!Connect(c)
    <2>1. /\ selconn[c] = "new" /\ selconn' = [selconn EXCEPT ![c] = "backlog"]
          /\ UNCHANGED <<selpeer, selrx, selwritable>>
      BY <1>2 DEF Sel!Connect, Sel!clients
    <2>2. SelTypeOK'
      BY <1>1, <2>1 DEF SelTypeOK
    <2>3. SelDescriptors'
      <3>1. \A f \in Sel!Fds : selfdtab[f] # SelUnused => selfdtab[f] \in SelConns \ {c}
        BY <1>1, <2>1 DEF SelTypeOK, SelDescriptors
      <3>2. \A d \in SelConns \ {c} : selconn'[d] = selconn[d]
        BY <1>1, <2>1 DEF SelTypeOK
      <3> QED
        BY <1>1, <3>1, <3>2 DEF SelDescriptors
    <2>4. Bits' /\ Selected'
      BY <1>1, <2>1 DEF Bits, Selected, Sel!HasInput
    <2> QED
      BY <2>2, <2>3, <2>4 DEF SelIInv
  <1>3. CASE Sel!ClientSend(c) \/ Sel!ClientRead(c) \/ Sel!Leave(c)
    <2>1. /\ selconn' = selconn
          /\ \/ selrx' = selrx
             \/ selrx' = [selrx EXCEPT ![c] = @ + 1]
          /\ \/ selwritable' = selwritable
             \/ selwritable' = [selwritable EXCEPT ![c] = TRUE]
          /\ \/ selpeer' = selpeer
             \/ \E how \in {"fin", "reset"} : selpeer' = [selpeer EXCEPT ![c] = how]
      BY <1>3 DEF Sel!ClientSend, Sel!ClientRead, Sel!Leave
    <2>2. /\ selrx' \in [SelConns -> Nat] /\ selwritable' \in [SelConns -> BOOLEAN]
          /\ selpeer' \in [SelConns -> {"open", "fin", "pipe", "reset"}]
      <3>1. selrx' \in [SelConns -> Nat]
        BY <1>1, <2>1 DEF SelTypeOK
      <3>2. selwritable' \in [SelConns -> BOOLEAN]
        BY <1>1, <2>1 DEF SelTypeOK
      <3>3. selpeer' \in [SelConns -> {"open", "fin", "pipe", "reset"}]
        BY <1>1, <2>1 DEF SelTypeOK
      <3> QED
        BY <3>1, <3>2, <3>3
    <2>3. SelTypeOK'
      BY <1>1, <2>1, <2>2 DEF SelTypeOK
    <2>4. \A d \in SelConns : Sel!HasInput(d) => Sel!HasInput(d)'
      <3>1. \A d \in SelConns : selrx[d] > 0 => selrx'[d] > 0
        BY <1>1, <2>1 DEF SelTypeOK
      <3>2. \A d \in SelConns : selpeer[d] # "open" => selpeer'[d] # "open"
        BY <1>1, <2>1 DEF SelTypeOK
      <3> QED
        BY <3>1, <3>2 DEF Sel!HasInput
    <2>5. SelDescriptors' /\ Bits'
      BY <1>1, <2>1 DEF SelDescriptors, Bits
    <2>6. Selected'
      <3>1. \A f \in testfds : f # Sel!Server => f \in Sel!Fds
        BY <1>1 DEF SelTypeOK
      <3>2. \A f \in Sel!Fds : selfdtab[f] # SelUnused => selfdtab[f] \in SelConns
        BY <1>1 DEF SelTypeOK
      <3>3. selpc = "send" => \A f \in testfds : f > fd => f # Sel!Server
        BY <1>1, SelAssumption DEF Selected, Sel!Fds, Sel!Server
      <3> QED
        BY <1>1, <2>4, <3>1, <3>2, <3>3 DEF Selected
    <2> QED
      BY <2>3, <2>5, <2>6 DEF SelIInv
  <1> QED
    BY <1>2, <1>3 DEF Sel!Client

-----------------------------------------------------------------------------
(* The theorems                                                            *)

\* Every step of the server and of its clients keeps the invariant.
LEMMA SelNextIInv == SelIInv /\ (Sel!Next \/ UNCHANGED Sel!vars) => SelIInv'
  <1> SUFFICES ASSUME SelIInv, (Sel!Next \/ UNCHANGED Sel!vars) PROVE SelIInv'
    OBVIOUS
  <1>1. CASE Sel!Select
    BY <1>1, SelectStep
  <1>2. CASE Sel!EndPass
    BY <1>2, EndPassStep
  <1>3. CASE Sel!Accept
    BY <1>3, SelAcceptStep
  <1>4. CASE \E f \in Sel!Fds : Sel!Close(f) \/ Sel!Recv(f)
    BY <1>4, SelCloseStep, SelRecvStep
  <1>5. CASE Sel!Send
    BY <1>5, SelSendStep
  <1>6. CASE Sel!Up /\ \E c \in SelConns : Sel!Client(c)
    BY <1>6, SelClientStep
  <1>7. CASE UNCHANGED Sel!vars
    BY <1>7 DEF Sel!vars, Sel!clients, SelIInv, SelTypeOK, SelDescriptors, Bits, Selected,
                Sel!HasInput, Sel!Up
  <1> QED
    BY <1>1, <1>2, <1>3, <1>4, <1>5, <1>6, <1>7 DEF Sel!Next, Sel!Serve

-----------------------------------------------------------------------------
(* The two servers as MCServers runs them                                  *)

\* The bits of readfds, the kernel's table and what is left of a pass belong
\* together in every reachable state.
THEOREM SelectInvariance == ServersSpec => []SelIInv
  <1>1. ServersInit => SelIInv
    BY SelInitIInv DEF ServersInit
  <1>2. SelIInv /\ [ServersNext]_<<which, vars, selVars>> => SelIInv'
    <2> SUFFICES ASSUME SelIInv, [ServersNext]_<<which, vars, selVars>> PROVE SelIInv'
      OBVIOUS
    <2>1. Sel!Next \/ UNCHANGED selVars
      BY DEF ServersNext
    <2>2. UNCHANGED selVars => UNCHANGED Sel!vars
      BY DEF selVars, Sel!vars, Sel!clients
    <2> QED
      BY <2>1, <2>2, SelNextIInv
  <1> QED
    BY <1>1, <1>2, PTL DEF ServersSpec

\* select_server_multi_client.c knows its clients, and recv is only called on
\* one that has something to read: the server waits in select and in send only.
THEOREM ServersSelectedExact == ServersSpec => []SelectedExact
  <1>1. ASSUME SelIInv PROVE SelectedExact
    <2>1. \A f \in Sel!Fds : Sel!At(f) =>
             selfdtab[f] \in SelConns /\ Sel!HasInput(selfdtab[f])
      BY <1>1, TurnIsTrue
    <2>2. SelUnused \notin SelConns
      BY SelAssumption
    <2> QED
      BY <1>1, <2>1, <2>2 DEF SelIInv, Bits, SelectedExact, Sel!SelectedExact
  <1>2. ServersSpec => []SelIInv
    BY SelectInvariance
  <1> QED
    BY <1>1, <1>2, PTL
=============================================================================
