---------------------------- MODULE PollServerProofs ----------------------------
(***************************************************************************)
(* Proofs about the poll server, for any number of entries, descriptors,   *)
(* clients and reads, and whatever is on the stack.                        *)
(***************************************************************************)
EXTENDS PollServer, FiniteSetTheorems, WellFoundedInduction, TLAPS

-----------------------------------------------------------------------------
(* The inductive invariant                                                 *)

\* A descriptor that is in use is that of one open client, and of no other one.
Descriptors ==
  /\ \A f \in Fds : fdtab[f] # Unused =>
       /\ conn[fdtab[f]] = "open"
       /\ \A g \in Fds : fdtab[g] = fdtab[f] => g = f
  /\ \A c \in Conns : conn[c] = "open" => \E f \in Fds : fdtab[f] = c

\* Every entry but the last has an open descriptor of its own or none, and
\* every open descriptor an entry.  Because descriptors are allocated lowest
\* first, these are below MAX_CLIENTS - 1; so the one the last entry keeps
\* after its client was closed is never allocated again.
Entries ==
  /\ fd[0] = Free
  /\ \A s \in 1 .. Last - 1 : fd[s] # Free =>
       /\ fd[s] < Last
       /\ fdtab[fd[s]] # Unused
       /\ \A t \in 1 .. Last - 1 : fd[t] = fd[s] => t = s
  /\ fd[Last] # Free => fd[Last] = Last /\ fdtab[Last] = Unused
  /\ \A f \in Fds : fdtab[f] # Unused => \E s \in 1 .. Last - 1 : fd[s] = f
  /\ \A s \in Slots : fd[s] # Free => s <= maxi

\* The entries after the one the server is at that poll counted and that are
\* still to be counted off.
Ahead ==
  {s \in (IF pc = "write" THEN i + 1 ELSE i) .. maxi : revents[s] \in {"in", "other"}}

\* What poll reported is still true when its turn comes.  An entry that was free
\* when poll looked was not reported; one that poll never looked at is the last
\* of all, and is there only after an accept.
Reports ==
  /\ \A s \in Slots : s > maxi => revents[s] \in {"none", "stack"}
  /\ pc = "accept" => i = 1 /\ \A s \in 1 .. maxi : revents[s] # "stack"
  /\ pc = "write" => i \in Slots /\ fd[i] # Free /\ fdtab[fd[i]] \in Conns
  /\ pc \in {"accept", "clients", "write"} =>
       /\ \A s \in i .. maxi : /\ revents[s] = "other" => s = Last
                               /\ revents[s] = "stack" => s = maxi
       /\ \A s \in Ahead : revents[s] = "in" =>
            fd[s] # Free /\ fdtab[fd[s]] \in Conns /\ HasInput(fdtab[fd[s]])

\* nready is the number of entries ahead, and the one that is being served; when
\* it comes to nothing the loop is left.
Count ==
  /\ pc \in {"accept", "write"} => nready = Cardinality(Ahead) + 1
  /\ pc = "clients" => nready = Cardinality(Ahead) /\ nready > 0

Tables == Descriptors /\ Entries /\ Reports /\ Count

\* The inductive invariant.
IInv == TypeOK /\ (Up => Tables)

-----------------------------------------------------------------------------
(* Facts about the operators                                               *)

USE DEF Free, Up

\* The assumptions on the constants, and what they make of the ranges.
LEMMA Sizes ==
  /\ Last \in Nat /\ Last >= 1 /\ MaxClients = Last + 1 /\ Slots = 0 .. Last
  /\ NFds \in Nat /\ NFds >= 1 /\ Fds = 1 .. NFds /\ MaxUnread \in Nat
  BY SizesAssumption DEF Last, Slots, Fds

\* The search for an entry, the kernel's for a descriptor and the loop's for the
\* next client to read from end at a member of the set, and it is the least.
LEMMA LowestIsLeast ==
  ASSUME NEW S \in SUBSET Nat, S # {}
  PROVE  Lowest(S) \in S /\ \A x \in S : Lowest(S) <= x
  <1> DEFINE R == OpToRel(<, Nat)
  <1>1. PICK x \in S : \A y \in S : ~ (<<y, x>> \in R)
    <2>1. IsWellFoundedOn(R, Nat)
      BY NatLessThanWellFounded
    <2> HIDE DEF R
    <2> QED BY <2>1, WFMin
  <1>2. \A y \in S : <<y, x>> \in R <=> y < x
    BY DEF OpToRel
  <1>3. \A y \in S : ~ (y < x)
    BY <1>1, <1>2
  <1>4. \A y \in S : x <= y
    BY <1>3
  <1> QED
    BY <1>4 DEF Lowest

\* A set of entries is no larger than the part of the array that poll sees.
LEMMA ReportedSize ==
  ASSUME TypeOK, Reported # {}
  PROVE  Cardinality(Reported) \in 1 .. MaxClients
  <1>1. maxi \in Nat /\ maxi <= Last
    BY Sizes DEF TypeOK
  <1>2. IsFiniteSet(0 .. maxi) /\ Cardinality(0 .. maxi) = maxi + 1
    BY <1>1, FS_Interval
  <1>3. Reported \subseteq 0 .. maxi
    BY DEF Reported
  <1>4. /\ IsFiniteSet(Reported)
        /\ Cardinality(Reported) <= Cardinality(0 .. maxi)
    BY <1>2, <1>3, FS_Subset
  <1>5. Cardinality(Reported) \in Nat /\ Cardinality(Reported) # 0
    BY <1>4, FS_CardinalityType, FS_EmptySet
  <1> QED
    BY <1>1, <1>2, <1>4, <1>5, Sizes

\* Two sets of numbers, each the first n but one: no map from the n to it is
\* one to one.
LEMMA OneTooMany ==
  ASSUME NEW n \in Nat, NEW g \in 1 .. n, NEW h \in [1 .. n -> (1 .. n) \ {g}]
  PROVE  \E x, y \in 1 .. n : x # y /\ h[x] = h[y]
  <1>1. IsFiniteSet(1 .. n) /\ Cardinality(1 .. n) = n
    BY FS_Interval
  <1>2. /\ IsFiniteSet((1 .. n) \ {g})
        /\ Cardinality((1 .. n) \ {g}) = n - 1
    BY <1>1, FS_RemoveElement
  <1>3. Cardinality((1 .. n) \ {g}) < Cardinality(1 .. n)
    BY <1>1, <1>2
  <1> QED
    BY <1>1, <1>2, <1>3, FS_PigeonHole

\* accept returns the lowest of the free descriptors.
LEMMA NewDescriptor ==
  ASSUME FreeFds # {}
  PROVE  /\ Lowest(FreeFds) \in Fds /\ Lowest(FreeFds) \in 1 .. NFds
         /\ fdtab[Lowest(FreeFds)] = Unused
         /\ \A g \in FreeFds : Lowest(FreeFds) <= g
  <1>1. FreeFds \in SUBSET Nat /\ FreeFds \subseteq Fds
    BY Sizes DEF FreeFds
  <1>2. Lowest(FreeFds) \in FreeFds
    BY <1>1, LowestIsLeast
  <1>3. \A g \in FreeFds : Lowest(FreeFds) <= g
    BY <1>1, LowestIsLeast
  <1> QED
    BY <1>2, <1>3, Sizes DEF FreeFds

\* While one of the entries before the last is free, so is a descriptor below
\* the last entry's number, and accept returns it.
LEMMA LowDescriptorFree ==
  ASSUME TypeOK, Entries, FreeFds # {}, NEW s \in 1 .. Last - 1, fd[s] = Free
  PROVE  Lowest(FreeFds) < Last
  <1> DEFINE f == Lowest(FreeFds)
             n == Last - 1
  <1> SUFFICES ASSUME f >= Last PROVE FALSE
    <2>1. f \in Nat
      BY NewDescriptor
    <2> QED
      BY <2>1, Sizes
  <1>1. n \in Nat /\ f \in 1 .. NFds /\ \A g \in FreeFds : f <= g
    BY NewDescriptor, Sizes
  <1> HIDE DEF f
  <1>2. \A g \in 1 .. n : g \in Fds /\ fdtab[g] # Unused
    <2> SUFFICES ASSUME NEW g \in 1 .. n PROVE g \in Fds /\ fdtab[g] # Unused
      OBVIOUS
    <2>1. g \in Fds /\ ~ (f <= g)
      BY <1>1, Sizes
    <2> QED
      BY <1>1, <2>1 DEF FreeFds
  <1>3. \A g \in 1 .. n : \E t \in (1 .. n) \ {s} : fd[t] = g
    BY <1>2 DEF Entries
  <1>4. PICK h \in [1 .. n -> (1 .. n) \ {s}] : \A g \in 1 .. n : fd[h[g]] = g
    <2> DEFINE k == [g \in 1 .. n |-> CHOOSE t \in (1 .. n) \ {s} : fd[t] = g]
    <2>1. k \in [1 .. n -> (1 .. n) \ {s}] /\ \A g \in 1 .. n : fd[k[g]] = g
      BY <1>3
    <2> QED
      BY <2>1
  <1>5. n \in Nat /\ s \in 1 .. n /\ h \in [1 .. n -> (1 .. n) \ {s}]
    BY <1>1
  <1> HIDE DEF n
  <1>6. PICK x, y \in 1 .. n : x # y /\ h[x] = h[y]
    BY <1>5, OneTooMany, SMTT(30)
  <1> QED
    BY <1>4, <1>6

\* When all entries before the last are taken, the descriptors below the last
\* entry's number are in use, and accept returns that number.
LEMMA LowDescriptorsTaken ==
  ASSUME TypeOK, Entries, FreeFds # {}, \A s \in 1 .. Last - 1 : fd[s] # Free
  PROVE  Lowest(FreeFds) = Last
  <1> DEFINE f == Lowest(FreeFds)
             n == Last - 1
  <1>1. /\ n \in Nat /\ f \in Fds /\ f \in 1 .. NFds /\ fdtab[f] = Unused
        /\ \A g \in FreeFds : f <= g
    BY NewDescriptor, Sizes
  <1> HIDE DEF f
  <1>2. ASSUME NEW g \in 1 .. n, fdtab[g] = Unused PROVE FALSE
    <2> DEFINE h == [s \in 1 .. n |-> fd[s]]
    <2>1. \A s \in 1 .. n : /\ s \in Slots /\ fd[s] \in (1 .. n) \ {g}
                            /\ \A t \in 1 .. n : fd[t] = fd[s] => t = s
      <3> SUFFICES ASSUME NEW s \in 1 .. n
                   PROVE  /\ s \in Slots /\ fd[s] \in (1 .. n) \ {g}
                          /\ \A t \in 1 .. n : fd[t] = fd[s] => t = s
        OBVIOUS
      <3>1. s \in Slots /\ fd[s] \in 1 .. NFds
        BY Sizes DEF TypeOK
      <3>2. fd[s] < Last /\ fd[s] # g
        BY <1>2 DEF Entries
      <3> QED
        BY <3>1, <3>2, Sizes DEF Entries
    <2>2. h \in [1 .. n -> (1 .. n) \ {g}]
      BY <2>1
    <2>3. PICK x, y \in 1 .. n : x # y /\ h[x] = h[y]
      BY <1>1, <2>2, OneTooMany
    <2> QED
      BY <2>1, <2>3
  <1>3. f >= Last
    BY <1>1, <1>2, Sizes
  <1>4. Last \in FreeFds
    <2>1. Last \in Fds
      BY <1>1, <1>3, Sizes
    <2>2. \A s \in 1 .. Last - 1 : fd[s] # Last
      BY Sizes DEF Entries, TypeOK
    <2> QED
      BY <2>1, <2>2 DEF Entries, FreeFds
  <1> QED
    BY <1>1, <1>3, <1>4, Sizes DEF f

-----------------------------------------------------------------------------
(* The steps                                                               *)

\* Entry 0 is the listening socket's, and no client is known.
LEMMA InitIInv == Init => IInv
  <1> SUFFICES ASSUME Init PROVE IInv
    OBVIOUS
  <1> USE DEF Init
  <1>1. TypeOK
    BY Sizes DEF TypeOK
  <1>2. Descriptors
    BY DEF Descriptors
  <1>3. Entries
    <2>1. 0 \in Slots /\ Last \in Slots /\ \A s \in 1 .. Last - 1 : s \in Slots
      BY Sizes
    <2> QED
      BY <2>1 DEF Entries
  <1>4. Reports /\ Count
    BY DEF Reports, Count
  <1> QED
    BY <1>1, <1>2, <1>3, <1>4 DEF IInv, Tables

\* What is ahead is a finite set of entries.
LEMMA AheadFinite ==
  ASSUME TypeOK
  PROVE  IsFiniteSet(Ahead) /\ Cardinality(Ahead) \in Nat
  <1>1. maxi \in Nat /\ i \in Nat /\ i + 1 \in Nat
    BY Sizes DEF TypeOK
  <1>2. IsFiniteSet(0 .. maxi)
    BY <1>1, FS_Interval
  <1>3. Ahead \subseteq 0 .. maxi
    BY <1>1 DEF Ahead
  <1> QED
    BY <1>2, <1>3, FS_Subset, FS_CardinalityType

\* Counting one entry off.
LEMMA OneLess ==
  ASSUME NEW S, IsFiniteSet(S), NEW x \in S
  PROVE  Cardinality(S) = Cardinality(S \ {x}) + 1 /\ Cardinality(S \ {x}) \in Nat
  <1>1. /\ IsFiniteSet(S \ {x}) /\ Cardinality(S \ {x}) = Cardinality(S) - 1
        /\ Cardinality(S) \in Nat
    BY FS_RemoveElement, FS_CardinalityType
  <1>2. Cardinality(S \ {x}) \in Nat
    BY <1>1, FS_CardinalityType
  <1> QED
    BY <1>1, <1>2

\* What the parts of the invariant say of the entry that is read next.
LEMMA EntryFacts ==
  ASSUME TypeOK, Tables, NEW s \in Slots, fd[s] # Free
  PROVE  /\ s \in 1 .. maxi /\ fd[s] \in Fds
         /\ fdtab[fd[s]] \in Conns =>
              /\ s \in 1 .. Last - 1
              /\ conn[fdtab[fd[s]]] = "open"
              /\ \A t \in Slots : fd[t] # Free /\ fdtab[fd[t]] = fdtab[fd[s]] => t = s
  <1> USE DEF Tables
  <1>1. s # 0 /\ s <= maxi /\ fd[s] \in Fds
    BY DEF Entries, TypeOK
  <1>2. s \in 1 .. maxi
    BY <1>1, Sizes DEF TypeOK
  <1>3. ASSUME NEW t \in Slots, fd[t] # Free, fdtab[fd[t]] \in Conns
        PROVE  t \in 1 .. Last - 1 /\ fd[t] \in Fds
    <2>1. t # 0 /\ fd[t] \in Fds
      BY <1>3 DEF Entries, TypeOK
    <2>2. t # Last
      BY <1>3, UnusedAssumption DEF Entries
    <2> QED
      BY <2>1, <2>2, Sizes
  <1>4. ASSUME fdtab[fd[s]] \in Conns, NEW t \in Slots, fd[t] # Free,
               fdtab[fd[t]] = fdtab[fd[s]]
        PROVE  t = s
    <2>1. /\ t \in 1 .. Last - 1 /\ s \in 1 .. Last - 1
          /\ fd[t] \in Fds /\ fd[s] \in Fds
      BY <1>3, <1>4
    <2>2. fd[t] = fd[s]
      BY <1>4, <2>1, UnusedAssumption DEF Descriptors
    <2> QED
      BY <2>1, <2>2 DEF Entries
  <1>5. fdtab[fd[s]] \in Conns => conn[fdtab[fd[s]]] = "open"
    BY <1>1, UnusedAssumption DEF Descriptors
  <1> QED
    BY <1>1, <1>2, <1>3, <1>4, <1>5

\* poll fills the entries it looks at with what is true.
LEMMA PollStep == IInv /\ Poll => IInv'
  <1> SUFFICES ASSUME IInv, Poll PROVE IInv'
    OBVIOUS
  <1> USE DEF IInv
  <1>1. /\ pc = "poll" /\ Tables /\ Reported # {} /\ i' = 1
        /\ nready' = Cardinality(Reported)
        /\ revents' = [s \in Slots |-> IF s <= maxi THEN Polled(s) ELSE revents[s]]
        /\ pc' = IF Backlog # {} THEN "accept" ELSE "clients"
        /\ UNCHANGED <<fd, maxi, fdtab, conn, clients>>
    BY DEF Poll
  <1>2. nready' \in 1 .. MaxClients
    BY <1>1, ReportedSize
  <1>3. \A s \in Slots : Polled(s) \in {"none", "in", "other"}
    BY DEF Polled
  <1>4. TypeOK'
    <2>1. revents' \in [Slots -> {"none", "in", "other", "stack"}]
      BY <1>1, <1>3 DEF TypeOK
    <2>2. nready' \in 0 .. MaxClients /\ i' \in 1 .. MaxClients
      BY <1>1, <1>2, Sizes
    <2> QED
      BY <1>1, <2>1, <2>2 DEF TypeOK, clients
  <1>5. Descriptors' /\ Entries'
    BY <1>1 DEF Tables, Descriptors, Entries
  <1>6. Reports'
    <2>1. \A s \in Slots : s > maxi => revents'[s] \in {"none", "stack"}
      BY <1>1, Sizes DEF Tables, Reports, TypeOK
    <2>2. ASSUME NEW s \in 1 .. maxi
          PROVE  /\ revents'[s] \in {"none", "in", "other"}
                 /\ revents'[s] = "other" => s = Last
                 /\ revents'[s] = "in" =>
                      fd[s] # Free /\ fdtab[fd[s]] \in Conns /\ HasInput(fdtab[fd[s]])
      <3>1. s \in Slots /\ s # 0 /\ s <= maxi
        BY Sizes DEF TypeOK
      <3>2. revents'[s] = Polled(s)
        BY <1>1, <3>1
      <3>3. fd[s] # Free => fd[s] \in Fds
        BY <3>1 DEF TypeOK
      <3>4. revents'[s] = "in" =>
              fd[s] # Free /\ fdtab[fd[s]] \in Conns /\ HasInput(fdtab[fd[s]])
        BY <3>1, <3>2, <3>3 DEF Polled, TypeOK
      <3>5. revents'[s] = "other" => s = Last
        <4>1. s # Last => s \in 1 .. Last - 1
          BY <3>1, Sizes
        <4> QED
          BY <1>1, <3>1, <3>2, <4>1 DEF Polled, Tables, Entries
      <3> QED
        BY <1>3, <3>1, <3>2, <3>4, <3>5
    <2>3. \A c \in Conns : HasInput(c)' <=> HasInput(c)
      BY <1>1 DEF HasInput, clients
    <2>4. Ahead' \subseteq 1 .. maxi
      BY <1>1 DEF Ahead
    <2>5. \A s \in Ahead' : revents'[s] = "in" =>
            fd[s] # Free /\ fdtab[fd[s]] \in Conns /\ HasInput(fdtab[fd[s]])'
      <3> SUFFICES ASSUME NEW s \in Ahead', revents'[s] = "in"
                   PROVE  /\ fd[s] # Free /\ fdtab[fd[s]] \in Conns
                          /\ HasInput(fdtab[fd[s]])'
        OBVIOUS
      <3>1. fd[s] # Free /\ fdtab[fd[s]] \in Conns /\ HasInput(fdtab[fd[s]])
        BY <2>2, <2>4
      <3>2. fd' = fd /\ fdtab' = fdtab
        BY <1>1
      <3> QED
        BY <2>3, <3>1, <3>2
    <2>6. pc' \in {"accept", "clients"} /\ fd' = fd /\ fdtab' = fdtab /\ maxi' = maxi
      BY <1>1
    <2> QED
      BY <1>1, <2>1, <2>2, <2>5, <2>6 DEF Reports
  <1>7. Count'
    <2>1. pc' \in {"accept", "clients"} /\ i' = 1 /\ maxi' = maxi
      BY <1>1
    <2>2. Ahead' = {s \in 1 .. maxi : Polled(s) # "none"}
      <3>1. \A s \in 1 .. maxi : s \in Slots /\ s <= maxi
        BY Sizes DEF TypeOK
      <3>2. Ahead' = {s \in 1 .. maxi : revents'[s] \in {"in", "other"}}
        BY <2>1 DEF Ahead
      <3> QED
        BY <1>1, <1>3, <3>1, <3>2
    <2>3. 0 \in 0 .. maxi /\ 1 .. maxi = (0 .. maxi) \ {0}
      BY Sizes DEF TypeOK
    <2>4. CASE Backlog # {}
      <3>1. 0 \in Reported /\ Ahead' = Reported \ {0}
        BY <2>2, <2>3, <2>4 DEF Reported, Polled
      <3>2. IsFiniteSet(Reported)
        <4>1. IsFiniteSet(0 .. maxi) /\ Reported \subseteq 0 .. maxi
          BY FS_Interval, Sizes DEF TypeOK, Reported
        <4> QED
          BY <4>1, FS_Subset
      <3> QED
        BY <1>1, <2>4, <3>1, <3>2, OneLess DEF Count
    <2>5. CASE Backlog = {}
      <3>1. Ahead' = Reported
        BY <2>2, <2>3, <2>5 DEF Reported, Polled
      <3> QED
        BY <1>1, <1>2, <2>5, <3>1 DEF Count
    <2> QED
      BY <2>4, <2>5
  <1> QED
    BY <1>4, <1>5, <1>6, <1>7 DEF Tables

\* The new client gets the first free entry and the lowest free descriptor; in
\* the last entry it is refused.
LEMMA AcceptStep == IInv /\ Accept => IInv'
  <1> SUFFICES ASSUME IInv, Accept PROVE IInv'
    OBVIOUS
  <1> USE DEF IInv
  <1>1. pc = "accept" /\ Tables /\ UNCHANGED <<i, clients>>
    BY DEF Accept
  <1>2. CASE AcceptFails
    BY <1>1, <1>2 DEF AcceptFails, array, clients, TypeOK
  <1>3. CASE AcceptOverflows
    <2>1. PICK c \in Backlog : /\ fdtab' = [fdtab EXCEPT ![Lowest(FreeFds)] = c]
                               /\ conn' = [conn EXCEPT ![c] = "open"]
      BY <1>3 DEF AcceptOverflows
    <2>2. FreeFds # {} /\ pc' = "corrupt" /\ UNCHANGED <<array, nready>>
      BY <1>3 DEF AcceptOverflows
    <2>3. c \in Conns
      BY DEF Backlog
    <2> QED
      BY <1>1, <2>1, <2>2, <2>3 DEF array, clients, TypeOK
  <1>4. CASE AcceptClient
    <2> DEFINE f == Lowest(FreeFds)
               s == Lowest(FreeSlots)
    <2>1. PICK c \in Backlog :
            IF Refuses(s)
            THEN conn' = [conn EXCEPT ![c] = "closed"] /\ UNCHANGED fdtab
            ELSE conn' = [conn EXCEPT ![c] = "open"] /\ fdtab' = [fdtab EXCEPT ![f] = c]
      BY <1>4 DEF AcceptClient
    <2>2. /\ fd' = [fd EXCEPT ![s] = f]
          /\ maxi' = IF s > maxi THEN s ELSE maxi
          /\ nready' = nready - 1
          /\ pc' = IF nready - 1 <= 0 THEN "poll" ELSE "clients"
          /\ UNCHANGED revents
      BY <1>4 DEF AcceptClient, Accepted
    <2>3. FreeFds # {} /\ FreeSlots # {}
      BY <1>4 DEF AcceptClient
    <2>4. c \in Conns /\ conn[c] = "backlog" /\ c # Unused
      BY UnusedAssumption DEF Backlog
    <2>5. f \in Fds /\ f \in 1 .. NFds /\ fdtab[f] = Unused
      BY <2>3, NewDescriptor
    <2>6. /\ s \in Slots /\ s # 0 /\ fd[s] = Free
          /\ \A t \in FreeSlots : s <= t
      <3>1. FreeSlots \in SUBSET Nat
        BY Sizes DEF FreeSlots
      <3>2. s \in FreeSlots /\ \A t \in FreeSlots : s <= t
        BY <2>3, <3>1, LowestIsLeast
      <3> QED
        BY <3>2 DEF FreeSlots
    <2>7. IF s = Last THEN f = Last ELSE f < Last
      <3>1. CASE s = Last
        <4>1. \A t \in 1 .. Last - 1 : t \in Slots /\ t # 0 /\ ~ (s <= t)
          BY <3>1, Sizes
        <4>2. \A t \in 1 .. Last - 1 : fd[t] # Free
          BY <2>6, <4>1 DEF FreeSlots
        <4> QED
          BY <1>1, <2>3, <3>1, <4>2, LowDescriptorsTaken DEF Tables
      <3>2. CASE s # Last
        <4>1. s \in 1 .. Last - 1
          BY <2>6, <3>2, Sizes
        <4> QED
          BY <1>1, <2>3, <2>6, <3>2, <4>1, LowDescriptorFree DEF Tables
      <3> QED
        BY <3>1, <3>2
    <2> HIDE DEF f, s
    <2>8. /\ fd'[s] = f /\ \A t \in Slots \ {s} : fd'[t] = fd[t]
          /\ fd' \in [Slots -> Fds \cup {Free}]
      BY <2>2, <2>5, <2>6 DEF TypeOK
    <2>9. maxi' \in Slots /\ maxi <= maxi' /\ s <= maxi' /\ maxi' \in {s, maxi}
      BY <2>2, <2>6, Sizes DEF TypeOK
    <2>10. nready \in 1 .. MaxClients /\ nready = Cardinality(Ahead) + 1
      BY <1>1, AheadFinite, Sizes DEF Tables, Count, TypeOK
    <2>11. TypeOK'
      <3>1. nready' \in 0 .. MaxClients
        BY <2>2, <2>10, Sizes
      <3>2. /\ fdtab' \in [Fds -> Conns \cup {Unused}]
            /\ conn' \in [Conns -> {"new", "backlog", "open", "closed"}]
        BY <2>1, <2>4 DEF TypeOK
      <3> QED
        BY <1>1, <2>2, <2>8, <2>9, <3>1, <3>2 DEF TypeOK, clients
    <2>12. s # Last => /\ conn' = [conn EXCEPT ![c] = "open"]
                       /\ fdtab' = [fdtab EXCEPT ![f] = c]
      BY <2>1 DEF Refuses
    <2>13. s = Last => conn' = [conn EXCEPT ![c] = "closed"] /\ fdtab' = fdtab
      BY <2>1 DEF Refuses
    <2>14. \A g \in Fds : fdtab[g] # c
      BY <1>1, <2>4 DEF Tables, Descriptors
    <2>15. \A t \in Slots \ {s} : fd[t] # Free => fd[t] \in Fds /\ fd[t] # f
      <3> SUFFICES ASSUME NEW t \in Slots \ {s}, fd[t] # Free
                   PROVE  fd[t] \in Fds /\ fd[t] # f
        OBVIOUS
      <3>1. fd[t] \in Fds /\ t # 0
        BY <1>1 DEF Tables, Entries, TypeOK
      <3>2. CASE t = Last
        BY <1>1, <2>5, <2>7, <3>1, <3>2, Sizes DEF Tables, Entries
      <3>3. CASE t # Last
        <4>1. t \in 1 .. Last - 1
          BY <3>1, <3>3, Sizes
        <4> QED
          BY <1>1, <2>5, <3>1, <4>1 DEF Tables, Entries
      <3> QED
        BY <3>2, <3>3
    <2>16. Descriptors'
      <3>1. CASE s = Last
        BY <1>1, <2>4, <2>13, <2>14, <3>1 DEF Tables, Descriptors, TypeOK
      <3>2. CASE s # Last
        <4>1. /\ fdtab'[f] = c /\ \A g \in Fds \ {f} : fdtab'[g] = fdtab[g]
              /\ conn'[c] = "open" /\ \A d \in Conns \ {c} : conn'[d] = conn[d]
          BY <2>4, <2>5, <2>12, <3>2 DEF TypeOK
        <4>2. \A g \in Fds \ {f} : fdtab[g] # Unused =>
                fdtab[g] \in Conns \ {c} /\ conn[fdtab[g]] = "open"
          BY <1>1, <2>14 DEF Tables, Descriptors, TypeOK
        <4>3. \A d \in Conns \ {c} : conn[d] = "open" =>
                \E g \in Fds \ {f} : fdtab[g] = d
          BY <1>1, <2>5, UnusedAssumption DEF Tables, Descriptors
        <4> QED
          BY <1>1, <2>4, <2>5, <2>14, <4>1, <4>2, <4>3 DEF Tables, Descriptors
      <3> QED
        BY <3>1, <3>2
    <2>17. Entries'
      <3>1. fd'[0] = Free
        BY <1>1, <2>6, <2>8, Sizes DEF Tables, Entries
      <3>2. \A t \in Slots : fd'[t] # Free => t <= maxi'
        BY <1>1, <2>6, <2>8, <2>9, Sizes DEF Tables, Entries, TypeOK
      <3>3. CASE s = Last
        <4>1. \A t \in 1 .. Last - 1 : fd'[t] = fd[t]
          BY <2>8, <3>3, Sizes
        <4>2. fd'[Last] = Last /\ fdtab'[Last] = Unused
          BY <2>5, <2>7, <2>8, <2>13, <3>3
        <4> QED
          BY <1>1, <2>13, <3>1, <3>2, <3>3, <4>1, <4>2 DEF Tables, Entries
      <3>4. CASE s # Last
        <4>1. s \in 1 .. Last - 1 /\ Last \in Slots \ {s} /\ f < Last
          BY <2>6, <2>7, <3>4, Sizes
        <4>2. /\ fdtab'[f] = c /\ \A g \in Fds \ {f} : fdtab'[g] = fdtab[g]
          BY <2>5, <2>12, <3>4 DEF TypeOK
        <4>3. \A t \in (1 .. Last - 1) \ {s} :
                /\ fd'[t] = fd[t]
                /\ fd[t] # Free => fd[t] \in Fds /\ fd[t] # f
          BY <2>8, <2>15, Sizes
        <4>4. fd'[Last] = fd[Last] /\ (fd[Last] # Free => fdtab'[Last] = Unused)
          <5>1. fd[Last] # Free => Last \in Fds /\ Last # f
            BY <1>1, <4>1, Sizes DEF Tables, Entries, TypeOK
          <5> QED
            BY <1>1, <2>8, <4>1, <4>2, <5>1 DEF Tables, Entries
        <4>5. \A t \in 1 .. Last - 1 : fd'[t] # Free =>
                /\ fd'[t] < Last /\ fdtab'[fd'[t]] # Unused
                /\ \A u \in 1 .. Last - 1 : fd'[u] = fd'[t] => u = t
          <5> SUFFICES ASSUME NEW t \in 1 .. Last - 1, fd'[t] # Free
                       PROVE  /\ fd'[t] < Last /\ fdtab'[fd'[t]] # Unused
                              /\ \A u \in 1 .. Last - 1 : fd'[u] = fd'[t] => u = t
            OBVIOUS
          <5>1. CASE t = s
            BY <2>4, <2>8, <4>1, <4>2, <4>3, <5>1
          <5>2. CASE t # s
            BY <1>1, <2>8, <4>2, <4>3, <5>2 DEF Tables, Entries
          <5> QED
            BY <5>1, <5>2
        <4>6. ASSUME NEW g \in Fds, fdtab'[g] # Unused
              PROVE  \E t \in 1 .. Last - 1 : fd'[t] = g
          <5>1. CASE g = f
            BY <2>8, <4>1, <5>1
          <5>2. CASE g # f
            <6>1. PICK t \in 1 .. Last - 1 : fd[t] = g
              BY <1>1, <4>2, <4>6, <5>2 DEF Tables, Entries
            <6>2. t # s
              BY <2>6, <6>1, Sizes
            <6> QED
              BY <4>3, <6>1, <6>2
          <5> QED
            BY <5>1, <5>2
        <4> QED
          BY <1>1, <3>1, <3>2, <4>4, <4>5, <4>6 DEF Tables, Entries
      <3> QED
        BY <3>3, <3>4
    <2>18. /\ i' = 1 /\ i = 1 /\ revents' = revents /\ pc' \in {"poll", "clients"}
           /\ \A t \in Slots : t > maxi => revents[t] \in {"none", "stack"}
           /\ \A t \in 1 .. maxi : revents[t] # "stack"
      BY <1>1, <2>2 DEF Tables, Reports
    <2>19. pc' = "clients" => Ahead' = Ahead
      <3> SUFFICES ASSUME pc' = "clients" PROVE Ahead' = Ahead
        OBVIOUS
      <3>1. /\ Ahead' = {t \in 1 .. maxi' : revents[t] \in {"in", "other"}}
            /\ Ahead = {t \in 1 .. maxi : revents[t] \in {"in", "other"}}
        BY <1>1, <2>18 DEF Ahead
      <3>2. \A t \in 1 .. maxi' : t \in Slots /\ (t \in 1 .. maxi \/ t > maxi)
        BY <2>9, Sizes DEF TypeOK
      <3>3. \A t \in 1 .. maxi : t \in 1 .. maxi'
        BY <2>9, Sizes DEF TypeOK
      <3> QED
        BY <2>18, <3>1, <3>2, <3>3
    <2>20. Reports'
      <3>1. \A t \in Slots : t > maxi' => revents[t] \in {"none", "stack"}
        BY <2>9, <2>18, Sizes DEF TypeOK
      <3> SUFFICES ASSUME pc' = "clients"
                   PROVE  /\ \A t \in 1 .. maxi' : /\ revents[t] = "other" => t = Last
                                                   /\ revents[t] = "stack" => t = maxi'
                          /\ \A t \in Ahead : revents[t] = "in" =>
                               /\ fd'[t] # Free /\ fdtab'[fd'[t]] \in Conns
                               /\ HasInput(fdtab[fd[t]])'
        BY <2>18, <2>19, <3>1 DEF Reports
      <3>2. ASSUME NEW t \in 1 .. maxi'
            PROVE  /\ revents[t] = "other" => t = Last
                   /\ revents[t] = "stack" => t = maxi'
        <4>1. t \in Slots /\ t # 0 /\ t <= maxi'
          BY <2>9, Sizes
        <4>2. CASE t <= maxi
          <5>1. t \in 1 .. maxi
            BY <4>1, <4>2, Sizes DEF TypeOK
          <5> QED
            BY <1>1, <2>18, <5>1 DEF Tables, Reports
        <4>3. CASE ~ (t <= maxi)
          <5>1. revents[t] # "other" /\ fd[t] = Free
            <6>1. t > maxi
              BY <4>1, <4>3, Sizes DEF TypeOK
            <6>2. revents[t] \in {"none", "stack"}
              BY <2>18, <4>1, <6>1
            <6>3. fd[t] = Free
              BY <1>1, <4>1, <4>3 DEF Tables, Entries
            <6> QED
              BY <6>2, <6>3
          <5>2. s <= t
            BY <2>6, <4>1, <5>1 DEF FreeSlots
          <5>3. maxi' = s
            BY <2>9, <4>1, <4>3
          <5> QED
            BY <2>6, <4>1, <5>1, <5>2, <5>3, Sizes
        <4> QED
          BY <4>2, <4>3
      <3>3. ASSUME NEW t \in Ahead, revents[t] = "in"
            PROVE  /\ fd'[t] # Free /\ fdtab'[fd'[t]] \in Conns
                   /\ HasInput(fdtab[fd[t]])'
        <4>1. t \in 1 .. maxi /\ t \in Slots
          BY <1>1, <2>18, Sizes DEF Ahead, TypeOK
        <4>2. fd[t] # Free /\ fdtab[fd[t]] \in Conns /\ HasInput(fdtab[fd[t]])
          BY <1>1, <3>3 DEF Tables, Reports
        <4>3. t # s /\ fd'[t] = fd[t] /\ fd[t] \in Fds /\ fd[t] # f
          BY <2>6, <2>8, <2>15, <4>1, <4>2
        <4>4. fdtab'[fd[t]] = fdtab[fd[t]]
          BY <2>12, <2>13, <4>3 DEF TypeOK
        <4> QED
          BY <1>1, <4>2, <4>3, <4>4 DEF HasInput, clients
      <3> QED
        BY <3>2, <3>3
    <2>21. Count'
      <3>1. Cardinality(Ahead) \in Nat
        BY <1>1, AheadFinite
      <3> QED
        BY <2>2, <2>10, <2>18, <2>19, <3>1 DEF Count
    <2> QED
      BY <1>1, <2>11, <2>16, <2>17, <2>20, <2>21 DEF Tables
  <1> QED
    BY <1>2, <1>3, <1>4 DEF Accept

\* The loop that finds no more clients leaves the tables alone.
LEMMA EndRoundStep == IInv /\ EndRound => IInv'
  <1> SUFFICES ASSUME IInv, EndRound PROVE IInv'
    OBVIOUS
  <1> USE DEF IInv, EndRound
  <1>1. Tables /\ pc' = "poll" /\ UNCHANGED <<array, nready, i, fdtab, conn, clients>>
    OBVIOUS
  <1>2. TypeOK'
    BY <1>1 DEF TypeOK, array, clients
  <1>3. Descriptors' /\ Entries'
    BY <1>1 DEF Tables, Descriptors, Entries, array
  <1>4. Reports' /\ Count'
    BY <1>1 DEF Tables, Reports, Count, array, clients
  <1> QED
    BY <1>2, <1>3, <1>4 DEF Tables

\* The next client to read from is at an entry that the loop has not passed.
LEMMA NextToRead ==
  ASSUME TypeOK, ToRead # {}
  PROVE  /\ Lowest(ToRead) \in i .. maxi /\ Lowest(ToRead) \in Slots
         /\ fd[Lowest(ToRead)] # Free
         /\ \A s \in ToRead : Lowest(ToRead) <= s
  <1>1. i .. maxi \subseteq Slots /\ i .. maxi \subseteq Nat
    BY Sizes DEF TypeOK
  <1>2. ToRead \in SUBSET Nat
    BY <1>1 DEF ToRead
  <1>3. Lowest(ToRead) \in ToRead /\ \A s \in ToRead : Lowest(ToRead) <= s
    BY <1>2, LowestIsLeast
  <1> QED
    BY <1>1, <1>3 DEF ToRead

\* The entry that is read is one that poll reported: an entry that was never
\* polled is the last of all, and those that poll counted are all before it, or
\* have been counted off.
LEMMA NextIsReported ==
  ASSUME TypeOK, Tables, pc = "clients", ToRead # {}
  PROVE  LET s == Lowest(ToRead)
         IN /\ revents[s] = "in" /\ s \in Ahead
            /\ fdtab[fd[s]] \in Conns /\ HasInput(fdtab[fd[s]])
            /\ Ahead \ {s} = {t \in s + 1 .. maxi : revents[t] \in {"in", "other"}}
  <1> DEFINE s == Lowest(ToRead)
  <1>1. /\ s \in i .. maxi /\ s \in Slots /\ fd[s] # Free
        /\ revents[s] \in {"in", "stack"} /\ \A t \in ToRead : s <= t
    <2>1. ToRead \in SUBSET Nat
      BY Sizes DEF ToRead, TypeOK
    <2>2. s \in ToRead
      BY <2>1, LowestIsLeast
    <2> QED
      BY <2>2, NextToRead DEF ToRead
  <1> HIDE DEF s
  <1>2. Ahead = {t \in i .. maxi : revents[t] \in {"in", "other"}}
    BY DEF Ahead
  <1>3. \A t \in Ahead : s <= t
    <2> SUFFICES ASSUME NEW t \in Ahead PROVE s <= t
      OBVIOUS
    <2>1. t \in i .. maxi /\ revents[t] \in {"in", "other"}
      BY <1>2
    <2>2. CASE revents[t] = "in"
      <3>1. fd[t] # Free
        BY <2>2 DEF Tables, Reports
      <3>2. t \in ToRead
        BY <2>1, <2>2, <3>1 DEF ToRead
      <3> QED
        BY <1>1, <3>2
    <2>3. CASE revents[t] = "other"
      <3>1. t = Last
        BY <2>1, <2>3 DEF Tables, Reports
      <3> QED
        BY <1>1, <3>1, Sizes
    <2> QED
      BY <2>1, <2>2, <2>3
  <1>4. revents[s] = "in"
    <2> SUFFICES ASSUME revents[s] = "stack" PROVE FALSE
      BY <1>1
    <2>1. s = maxi
      BY <1>1 DEF Tables, Reports
    <2>2. Ahead # {}
      BY FS_EmptySet DEF Tables, Count
    <2>3. PICK t \in Ahead : TRUE
      BY <2>2
    <2>4. t \in i .. maxi /\ s <= t /\ t # s
      BY <1>2, <1>3, <2>3
    <2> QED
      BY <2>1, <2>4, Sizes DEF TypeOK
  <1>5. s \in Ahead
    BY <1>1, <1>2, <1>4
  <1>6. Ahead \ {s} = {t \in s + 1 .. maxi : revents[t] \in {"in", "other"}}
    <2>1. \A t \in i .. maxi : t \in Nat /\ (s <= t /\ t # s => t \in s + 1 .. maxi)
      BY <1>1, Sizes DEF TypeOK
    <2>2. \A t \in s + 1 .. maxi : t \in i .. maxi /\ t # s
      BY <1>1, Sizes DEF TypeOK
    <2> QED
      BY <1>2, <1>3, <2>1, <2>2
  <1> QED
    BY <1>4, <1>5, <1>6 DEF s, Tables, Reports

\* Reading from one client, or closing it, changes nothing of what was reported
\* of the entries that follow: they are other clients' entries.
LEMMA ReadClientStep == IInv /\ ReadClient => IInv'
  <1> SUFFICES ASSUME IInv, ReadClient PROVE IInv'
    OBVIOUS
  <1> DEFINE s == Lowest(ToRead)
             c == fdtab[fd[s]]
  <1>1. /\ TypeOK /\ Tables /\ pc = "clients" /\ ToRead # {}
        /\ \/ ReadFails(s)
           \/ c \in Conns /\ (ReadEnds(s, c) \/ ReadEchoes(s, c))
    BY DEF IInv, ReadClient
  <1>2. /\ s \in i .. maxi /\ s \in Slots /\ fd[s] # Free
        /\ s \in Ahead /\ revents[s] = "in"
        /\ Ahead \ {s} = {t \in s + 1 .. maxi : revents[t] \in {"in", "other"}}
    BY <1>1, NextToRead, NextIsReported
  <1> HIDE DEF s
  <1>3. /\ s \in 1 .. maxi /\ fd[s] \in Fds
        /\ c \in Conns => /\ s \in 1 .. Last - 1
                          /\ conn[c] = "open"
                          /\ \A t \in Slots : fd[t] # Free /\ fdtab[fd[t]] = c => t = s
    BY <1>1, <1>2, EntryFacts
  <1>4. /\ nready \in 1 .. MaxClients /\ nready - 1 \in 0 .. MaxClients
        /\ nready = Cardinality(Ahead \ {s}) + 1 /\ Cardinality(Ahead \ {s}) \in Nat
    <2>1. nready \in 1 .. MaxClients /\ nready = Cardinality(Ahead)
      BY <1>1, Sizes DEF Tables, Count, TypeOK
    <2>2. IsFiniteSet(Ahead)
      BY <1>1, AheadFinite
    <2> QED
      BY <1>2, <2>1, <2>2, OneLess, Sizes
  <1>5. s + 1 \in 1 .. MaxClients /\ \A t \in s + 1 .. maxi : t \in i .. maxi /\ t \in Slots /\ t # s
    BY <1>1, <1>2, <1>3, Sizes DEF TypeOK
  <1>6. CASE ReadFails(s)
    BY <1>1, <1>6 DEF ReadFails, IInv, TypeOK, array, clients
  <1>7. CASE c \in Conns /\ ReadEnds(s, c)
    <2>1. /\ fdtab' = [fdtab EXCEPT ![fd[s]] = Unused]
          /\ conn' = [conn EXCEPT ![c] = "closed"]
          /\ fd' = [fd EXCEPT ![s] = Free]
          /\ UNCHANGED <<revents, maxi, clients>>
      BY <1>7 DEF ReadEnds
    <2>2. /\ nready' = nready - 1 /\ i' = s + 1
          /\ pc' = IF nready - 1 <= 0 THEN "poll" ELSE "clients"
      BY <1>7 DEF ReadEnds, NextClient
    <2>3. /\ fd'[s] = Free /\ \A t \in Slots \ {s} : fd'[t] = fd[t]
          /\ fdtab'[fd[s]] = Unused /\ \A g \in Fds \ {fd[s]} : fdtab'[g] = fdtab[g]
          /\ conn'[c] = "closed" /\ \A d \in Conns \ {c} : conn'[d] = conn[d]
      BY <1>1, <1>2, <1>3, <1>7, <2>1 DEF TypeOK
    <2>4. TypeOK'
      <3>1. /\ fd' \in [Slots -> Fds \cup {Free}]
            /\ fdtab' \in [Fds -> Conns \cup {Unused}]
            /\ conn' \in [Conns -> {"new", "backlog", "open", "closed"}]
        BY <1>1, <2>1 DEF TypeOK
      <3> QED
        BY <1>1, <1>4, <1>5, <2>1, <2>2, <3>1 DEF TypeOK, clients
    <2>5. \A t \in Slots \ {s} : fd[t] # Free => fd[t] \in Fds
      BY <1>1 DEF TypeOK
    <2>6. \A g \in Fds \ {fd[s]} : fdtab[g] # c
      BY <1>1, <1>3, <1>7, UnusedAssumption DEF Tables, Descriptors
    <2>7. Descriptors'
      <3>1. ASSUME NEW g \in Fds, fdtab'[g] # Unused
            PROVE  /\ conn'[fdtab'[g]] = "open"
                   /\ \A h \in Fds : fdtab'[h] = fdtab'[g] => h = g
        <4>1. g # fd[s] /\ fdtab'[g] = fdtab[g]
          BY <2>3, <3>1
        <4>2. /\ fdtab[g] \in Conns \ {c} /\ conn[fdtab[g]] = "open"
              /\ \A h \in Fds : fdtab[h] = fdtab[g] => h = g
          BY <1>1, <2>6, <3>1, <4>1 DEF Tables, Descriptors, TypeOK
        <4> QED
          BY <2>3, <3>1, <4>1, <4>2
      <3>2. ASSUME NEW d \in Conns, conn'[d] = "open"
            PROVE  \E g \in Fds : fdtab'[g] = d
        <4>1. d # c /\ conn[d] = "open"
          BY <2>3, <3>2
        <4>2. PICK g \in Fds : fdtab[g] = d
          BY <1>1, <4>1 DEF Tables, Descriptors
        <4> QED
          BY <2>3, <4>1, <4>2
      <3> QED
        BY <3>1, <3>2 DEF Descriptors
    <2>8. /\ s \in 1 .. Last - 1 /\ Last \in Slots \ {s} /\ 0 \in Slots \ {s}
          /\ \A t \in 1 .. Last - 1 : t \in Slots
      BY <1>3, <1>7, Sizes
    <2>9. \A t \in 1 .. Last - 1 : fd[t] = fd[s] => t = s
      BY <1>1, <1>2, <2>8 DEF Tables, Entries
    <2>10. Entries'
      <3>1. fd'[0] = Free /\ \A t \in Slots : fd'[t] # Free => t <= maxi'
        BY <1>1, <2>1, <2>3, <2>8 DEF Tables, Entries
      <3>2. fd'[Last] = fd[Last] /\ (fd[Last] # Free => fdtab'[Last] = Unused)
        <4>1. fd[Last] # Free => fd[Last] = Last /\ fdtab[Last] = Unused /\ Last \in Fds
          BY <1>1, <2>8 DEF Tables, Entries, TypeOK
        <4> QED
          BY <2>3, <2>8, <4>1
      <3>3. ASSUME NEW t \in 1 .. Last - 1, fd'[t] # Free
            PROVE  /\ fd'[t] < Last /\ fdtab'[fd'[t]] # Unused
                   /\ \A u \in 1 .. Last - 1 : fd'[u] = fd'[t] => u = t
        <4>1. t # s /\ fd'[t] = fd[t] /\ fd[t] \in Fds \ {fd[s]}
          BY <2>3, <2>5, <2>8, <2>9, <3>3
        <4>2. /\ fd[t] < Last /\ fdtab[fd[t]] # Unused
              /\ \A u \in 1 .. Last - 1 : fd[u] = fd[t] => u = t
          BY <1>1, <3>3, <4>1 DEF Tables, Entries
        <4> QED
          BY <2>3, <2>8, <3>3, <4>1, <4>2
      <3>4. ASSUME NEW g \in Fds, fdtab'[g] # Unused
            PROVE  \E t \in 1 .. Last - 1 : fd'[t] = g
        <4>1. g # fd[s] /\ fdtab[g] # Unused
          BY <2>3, <3>4
        <4>2. PICK t \in 1 .. Last - 1 : fd[t] = g
          BY <1>1, <4>1 DEF Tables, Entries
        <4> QED
          BY <2>3, <2>8, <4>1, <4>2
      <3> QED
        BY <1>1, <3>1, <3>2, <3>3, <3>4 DEF Tables, Entries
    <2>11. \A t \in Ahead \ {s} : revents[t] = "in" =>
             /\ fd'[t] # Free /\ fdtab'[fd'[t]] \in Conns /\ HasInput(fdtab[fd[t]])'
      <3> SUFFICES ASSUME NEW t \in Ahead \ {s}, revents[t] = "in"
                   PROVE  /\ fd'[t] # Free /\ fdtab'[fd'[t]] \in Conns
                          /\ HasInput(fdtab[fd[t]])'
        OBVIOUS
      <3>1. t \in Slots \ {s}
        BY <1>2, <1>5
      <3>2. fd[t] # Free /\ fdtab[fd[t]] \in Conns /\ HasInput(fdtab[fd[t]])
        BY <1>1 DEF Tables, Reports
      <3>3. fd'[t] = fd[t] /\ fd[t] \in Fds /\ fdtab[fd[t]] # c
        BY <1>3, <1>7, <2>3, <2>5, <3>1, <3>2
      <3>4. fdtab'[fd[t]] = fdtab[fd[t]]
        BY <2>3, <3>3
      <3> QED
        BY <2>1, <3>2, <3>3, <3>4 DEF HasInput, clients
    <2>12. /\ pc' \in {"poll", "clients"} /\ revents' = revents /\ maxi' = maxi
           /\ (pc' = "clients" => Ahead' = Ahead \ {s})
      BY <1>2, <2>1, <2>2 DEF Ahead
    <2>13. Reports'
      <3>1. \A t \in Slots : t > maxi => revents[t] \in {"none", "stack"}
        BY <1>1 DEF Tables, Reports
      <3>2. \A t \in s + 1 .. maxi : /\ revents[t] = "other" => t = Last
                                     /\ revents[t] = "stack" => t = maxi
        BY <1>1, <1>5 DEF Tables, Reports
      <3>3. pc' # "accept" /\ pc' # "write"
        BY <2>12
      <3>4. \A t \in Slots : t > maxi' => revents'[t] \in {"none", "stack"}
        BY <2>12, <3>1
      <3>5. \A t \in i' .. maxi' : /\ revents'[t] = "other" => t = Last
                                   /\ revents'[t] = "stack" => t = maxi'
        BY <2>2, <2>12, <3>2
      <3>6. pc' = "clients" => \A t \in Ahead' : revents'[t] = "in" =>
              fd'[t] # Free /\ fdtab'[fd'[t]] \in Conns /\ HasInput(fdtab[fd[t]])'
        BY <2>11, <2>12
      <3> QED
        BY <2>12, <3>3, <3>4, <3>5, <3>6 DEF Reports
    <2>14. Count'
      BY <1>4, <2>2, <2>12 DEF Count
    <2> QED
      BY <2>4, <2>7, <2>10, <2>13, <2>14 DEF IInv, Tables
  <1>8. CASE c \in Conns /\ ReadEchoes(s, c)
    <2>1. /\ rx[c] > 0
          /\ rx' = [rx EXCEPT ![c] = @ - 1]
          /\ i' = s /\ pc' = "write"
          /\ UNCHANGED <<array, nready, fdtab, conn, peer, writable>>
      BY <1>8 DEF ReadEchoes
    <2>2. rx' \in [Conns -> 0 .. MaxUnread] /\ \A d \in Conns \ {c} : rx'[d] = rx[d]
      <3>1. rx[c] - 1 \in 0 .. MaxUnread
        BY <1>1, <1>8, <2>1, Sizes DEF TypeOK
      <3> QED
        BY <1>1, <2>1, <3>1 DEF TypeOK
    <2>3. TypeOK'
      <3>1. s \in 1 .. MaxClients
        BY <1>2, <1>3, Sizes DEF TypeOK
      <3> QED
        BY <1>1, <2>1, <2>2, <3>1 DEF TypeOK, array
    <2>4. Descriptors' /\ Entries'
      BY <1>1, <2>1 DEF Tables, Descriptors, Entries, array
    <2>5. Ahead' = Ahead \ {s}
      BY <1>2, <2>1 DEF Ahead, array
    <2>6. Reports'
      <3>1. \A t \in Slots : t > maxi => revents[t] \in {"none", "stack"}
        BY <1>1 DEF Tables, Reports
      <3>2. \A t \in s .. maxi : t \in i .. maxi
        <4>1. s \in Nat /\ i \in Nat /\ maxi \in Nat /\ i <= s
          BY <1>1, <1>2, Sizes DEF TypeOK
        <4> HIDE DEF s
        <4> QED
          BY <4>1
      <3>3. \A t \in s .. maxi : /\ revents[t] = "other" => t = Last
                                 /\ revents[t] = "stack" => t = maxi
        BY <1>1, <3>2 DEF Tables, Reports
      <3>4. ASSUME NEW t \in Ahead \ {s}, revents[t] = "in"
            PROVE  fd[t] # Free /\ fdtab[fd[t]] \in Conns /\ HasInput(fdtab[fd[t]])'
        <4>1. t \in Slots \ {s}
          BY <1>2, <1>5
        <4>2. fd[t] # Free /\ fdtab[fd[t]] \in Conns /\ HasInput(fdtab[fd[t]])
          BY <1>1, <3>4 DEF Tables, Reports
        <4>3. fdtab[fd[t]] \in Conns \ {c} /\ fdtab' = fdtab /\ fd' = fd /\ peer' = peer
          BY <1>3, <1>8, <2>1, <4>1, <4>2 DEF array
        <4> QED
          BY <2>2, <4>2, <4>3 DEF HasInput
      <3>5. pc' = "write" /\ i' = s /\ revents' = revents /\ maxi' = maxi /\ fd' = fd
            /\ fdtab' = fdtab
        BY <2>1 DEF array
      <3>6. i' \in Slots /\ fd'[i'] # Free /\ fdtab'[fd'[i']] \in Conns
        BY <1>2, <1>3, <1>8, <3>5
      <3>7. \A t \in Slots : t > maxi' => revents'[t] \in {"none", "stack"}
        BY <3>1, <3>5
      <3>8. \A t \in i' .. maxi' : /\ revents'[t] = "other" => t = Last
                                   /\ revents'[t] = "stack" => t = maxi'
        BY <3>3, <3>5
      <3>9. \A t \in Ahead' : revents'[t] = "in" =>
              fd'[t] # Free /\ fdtab'[fd'[t]] \in Conns /\ HasInput(fdtab[fd[t]])'
        BY <2>5, <3>4, <3>5
      <3>10. pc' # "accept"
        BY <3>5
      <3> QED
        BY <3>6, <3>7, <3>8, <3>9, <3>10 DEF Reports
    <2>7. Count'
      BY <1>4, <2>1, <2>5 DEF Count
    <2> QED
      BY <2>3, <2>4, <2>6, <2>7 DEF IInv, Tables
  <1> QED
    BY <1>1, <1>6, <1>7, <1>8

\* A write that returns counts its client off, and leaves what there is to read
\* as it is.
LEMMA WriteStep == IInv /\ Write => IInv'
  <1> SUFFICES ASSUME IInv, Write PROVE IInv'
    OBVIOUS
  <1> DEFINE c == fdtab[fd[i]]
  <1>1. /\ TypeOK /\ Tables /\ pc = "write" /\ UNCHANGED <<array, fdtab, conn, rx>>
        /\ \/ (Written(c) \/ WrittenToNobody(c)) /\ NextClient(i)
           \/ WriteKills(c)
    BY DEF IInv, Write
  <1>2. c \in Conns /\ fd[i] # Free
    BY <1>1 DEF Tables, Reports
  <1>3. CASE WriteKills(c)
    <2>1. pc' = "killed" /\ UNCHANGED <<nready, i, peer, writable>>
      BY <1>3 DEF WriteKills
    <2> QED
      BY <1>1, <2>1 DEF IInv, TypeOK, array
  <1>4. CASE (Written(c) \/ WrittenToNobody(c)) /\ NextClient(i)
    <2>1. /\ nready' = nready - 1 /\ i' = i + 1
          /\ pc' = IF nready - 1 <= 0 THEN "poll" ELSE "clients"
      BY <1>4 DEF NextClient
    <2>2. /\ peer' \in [Conns -> {"open", "fin", "pipe", "reset"}]
          /\ writable' \in [Conns -> BOOLEAN]
          /\ \A d \in Conns : peer[d] # "open" => peer'[d] # "open"
      <3>0. /\ peer \in [Conns -> {"open", "fin", "pipe", "reset"}]
            /\ writable \in [Conns -> BOOLEAN]
        BY <1>1 DEF TypeOK
      <3>1. CASE Written(c)
        <4>1. peer' = peer /\ \E w \in BOOLEAN : writable' = [writable EXCEPT ![c] = w]
          BY <3>1 DEF Written
        <4> HIDE DEF c
        <4> QED
          BY <3>0, <4>1
      <3>2. CASE WrittenToNobody(c)
        <4>1. /\ writable' = writable
              /\ \E told \in {"fin", "reset", "pipe"} : peer' = [peer EXCEPT ![c] = told]
          <5>1. PICK told \in {peer[c], "pipe"} : peer' = [peer EXCEPT ![c] = told]
            BY <3>2 DEF WrittenToNobody
          <5>2. told \in {"fin", "reset", "pipe"} /\ writable' = writable
            BY <3>2 DEF WrittenToNobody
          <5> QED
            BY <5>1, <5>2
        <4> HIDE DEF c
        <4> QED
          BY <3>0, <4>1
      <3> QED
        BY <1>4, <3>1, <3>2
    <2>3. \A d \in Conns : HasInput(d) => HasInput(d)'
      BY <1>1, <2>2 DEF HasInput
    <2>4. i \in 1 .. maxi /\ i \in Slots
      <3>1. i \in Slots
        BY <1>1 DEF Tables, Reports
      <3> QED
        BY <1>1, <1>2, <3>1, EntryFacts
    <2>5. nready = Cardinality(Ahead) + 1 /\ Cardinality(Ahead) \in Nat
      BY <1>1, AheadFinite DEF Tables, Count
    <2>6. TypeOK'
      <3>1. nready' \in 0 .. MaxClients /\ i' \in 1 .. MaxClients
        BY <1>1, <2>1, <2>4, <2>5, Sizes DEF TypeOK
      <3> QED
        BY <1>1, <2>1, <2>2, <3>1 DEF TypeOK, array
    <2>7. Descriptors' /\ Entries'
      BY <1>1 DEF Tables, Descriptors, Entries, array
    <2>8. /\ pc' \in {"poll", "clients"} /\ revents' = revents /\ maxi' = maxi
          /\ (pc' = "clients" => Ahead' = Ahead)
      BY <1>1, <2>1 DEF Ahead, array
    <2>9. Reports'
      <3>1. \A t \in Slots : t > maxi => revents[t] \in {"none", "stack"}
        BY <1>1 DEF Tables, Reports
      <3>2. \A t \in i + 1 .. maxi : t \in i .. maxi
        BY <2>4, Sizes DEF TypeOK
      <3>3. \A t \in i + 1 .. maxi : /\ revents[t] = "other" => t = Last
                                     /\ revents[t] = "stack" => t = maxi
        BY <1>1, <3>2 DEF Tables, Reports
      <3>4. ASSUME NEW t \in Ahead, revents[t] = "in"
            PROVE  fd[t] # Free /\ fdtab[fd[t]] \in Conns /\ HasInput(fdtab[fd[t]])'
        <4>1. fd[t] # Free /\ fdtab[fd[t]] \in Conns /\ HasInput(fdtab[fd[t]])
          BY <1>1, <3>4 DEF Tables, Reports
        <4> QED
          BY <1>1, <2>3, <4>1 DEF HasInput, array
      <3>5. pc' # "accept" /\ pc' # "write" /\ i' = i + 1 /\ fd' = fd /\ fdtab' = fdtab
        BY <1>1, <2>1, <2>8 DEF array
      <3>6. \A t \in Slots : t > maxi' => revents'[t] \in {"none", "stack"}
        BY <2>8, <3>1
      <3>7. \A t \in i' .. maxi' : /\ revents'[t] = "other" => t = Last
                                   /\ revents'[t] = "stack" => t = maxi'
        BY <2>8, <3>3, <3>5
      <3>8. pc' = "clients" => \A t \in Ahead' : revents'[t] = "in" =>
              fd'[t] # Free /\ fdtab'[fd'[t]] \in Conns /\ HasInput(fdtab[fd[t]])'
        BY <2>8, <3>4, <3>5
      <3> QED
        BY <2>8, <3>5, <3>6, <3>7, <3>8 DEF Reports
    <2>10. Count'
      BY <2>1, <2>5, <2>8 DEF Count
    <2> QED
      BY <2>6, <2>7, <2>9, <2>10 DEF IInv, Tables
  <1> QED
    BY <1>1, <1>3, <1>4

\* What a client does only adds to what there is to read.
LEMMA ClientStep == \A c \in Conns : IInv /\ Client(c) => IInv'
  <1> SUFFICES ASSUME NEW c \in Conns, IInv, Client(c) PROVE IInv'
    OBVIOUS
  <1>1. /\ TypeOK /\ Tables
        /\ Connect(c) \/ ClientSend(c) \/ ClientRead(c) \/ ClientClose(c)
    BY DEF IInv, Client
  <1>2. CASE Connect(c)
    <2>1. /\ conn[c] = "new" /\ conn' = [conn EXCEPT ![c] = "backlog"]
          /\ UNCHANGED <<pc, array, nready, i, fdtab, clients>>
      BY <1>2 DEF Connect
    <2>2. TypeOK'
      BY <1>1, <2>1 DEF TypeOK, array, clients
    <2>3. Descriptors'
      <3>1. conn'[c] = "backlog" /\ \A d \in Conns \ {c} : conn'[d] = conn[d]
        BY <1>1, <2>1 DEF TypeOK
      <3>2. \A f \in Fds : fdtab[f] # Unused => fdtab[f] \in Conns \ {c}
        BY <1>1, <2>1 DEF Tables, Descriptors, TypeOK
      <3> QED
        BY <1>1, <2>1, <3>1, <3>2 DEF Tables, Descriptors
    <2>4. Entries' /\ Reports' /\ Count'
      BY <1>1, <2>1 DEF Tables, Entries, Reports, Count, Ahead, HasInput, array, clients
    <2> QED
      BY <2>2, <2>3, <2>4 DEF IInv, Tables
  <1>3. CASE ClientSend(c) \/ ClientRead(c) \/ ClientClose(c)
    <2>1. /\ UNCHANGED <<pc, array, nready, i, fdtab, conn>>
          /\ \/ rx' = rx
             \/ rx[c] < MaxUnread /\ rx' = [rx EXCEPT ![c] = @ + 1]
          /\ \/ writable' = writable
             \/ writable' = [writable EXCEPT ![c] = TRUE]
          /\ \/ peer' = peer
             \/ \E how \in {"fin", "reset"} : peer' = [peer EXCEPT ![c] = how]
      BY <1>3 DEF ClientSend, ClientRead, ClientClose
    <2>2. rx' \in [Conns -> 0 .. MaxUnread] /\ \A d \in Conns : rx[d] > 0 => rx'[d] > 0
      <3>1. rx[c] < MaxUnread => rx[c] + 1 \in 0 .. MaxUnread /\ rx[c] + 1 > 0
        BY <1>1, Sizes DEF TypeOK
      <3> QED
        BY <1>1, <2>1, <3>1 DEF TypeOK
    <2>3. writable' \in [Conns -> BOOLEAN]
      BY <1>1, <2>1 DEF TypeOK
    <2>4. /\ peer' \in [Conns -> {"open", "fin", "pipe", "reset"}]
          /\ \A d \in Conns : peer[d] # "open" => peer'[d] # "open"
      BY <1>1, <2>1 DEF TypeOK
    <2>5. TypeOK'
      BY <1>1, <2>1, <2>2, <2>3, <2>4 DEF TypeOK, array
    <2>6. \A d \in Conns : HasInput(d) => HasInput(d)'
      BY <2>2, <2>4 DEF HasInput
    <2>7. Descriptors' /\ Entries' /\ Count'
      BY <1>1, <2>1 DEF Tables, Descriptors, Entries, Count, Ahead, array
    <2>8. Reports'
      <3>1. Ahead' = Ahead
        BY <2>1 DEF Ahead, array
      <3>2. \A s \in Ahead : fdtab[fd[s]] \in Conns /\ HasInput(fdtab[fd[s]])
                             => HasInput(fdtab[fd[s]])'
        BY <2>1, <2>6 DEF HasInput, array
      <3> QED
        BY <1>1, <2>1, <3>1, <3>2 DEF Tables, Reports, array
    <2> QED
      BY <2>5, <2>7, <2>8 DEF IInv, Tables
  <1> QED
    BY <1>1, <1>2, <1>3

-----------------------------------------------------------------------------
(* The theorems                                                            *)

\* Every step of the server and of its clients keeps the invariant.
LEMMA NextIInv == IInv /\ [Next]_vars => IInv'
  <1> SUFFICES ASSUME IInv, [Next]_vars PROVE IInv'
    OBVIOUS
  <1>1. CASE Poll
    BY <1>1, PollStep
  <1>2. CASE Accept
    BY <1>2, AcceptStep
  <1>3. CASE EndRound
    BY <1>3, EndRoundStep
  <1>4. CASE ReadClient
    BY <1>4, ReadClientStep
  <1>5. CASE Write
    BY <1>5, WriteStep
  <1>6. CASE \E c \in Conns : Client(c)
    BY <1>6, ClientStep
  <1>7. CASE UNCHANGED vars
    BY <1>7 DEF vars, array, clients, IInv, TypeOK, Tables, Descriptors, Entries,
                Reports, Count, Ahead, HasInput
  <1> QED
    BY <1>1, <1>2, <1>3, <1>4, <1>5, <1>6, <1>7 DEF Next, Server

\* The tables of poll_server.c: while its array is intact, each entry and each
\* open descriptor belong together, and what poll reported stays true.
THEOREM Invariance == Spec => []IInv
  <1>1. Init => IInv
    BY InitIInv
  <1>2. IInv /\ [Next]_vars => IInv'
    BY NextIInv
  <1> QED
    BY <1>1, <1>2, PTL DEF Spec

\* The server's array and the kernel's table never part: every client that
\* accept returned is at an entry that poll looks at, up to maxi.
THEOREM EveryClientPolledHolds == Spec => []EveryClientPolled
  <1>1. IInv => EveryClientPolled
    <2> SUFFICES ASSUME IInv, Up, NEW c \in Conns, conn[c] = "open"
                 PROVE  \E s \in 1 .. maxi : fd[s] # Free /\ fdtab[fd[s]] = c
      BY DEF IInv, EveryClientPolled
    <2>1. TypeOK /\ Tables
      BY DEF IInv
    <2>2. PICK f \in Fds : fdtab[f] = c
      BY <2>1 DEF Tables, Descriptors
    <2>3. PICK s \in 1 .. Last - 1 : fd[s] = f
      BY <2>1, <2>2, UnusedAssumption DEF Tables, Entries
    <2>4. s \in Slots /\ fd[s] # Free
      BY <2>3, Sizes
    <2>5. s \in 1 .. maxi
      BY <2>1, <2>4, EntryFacts
    <2> QED
      BY <2>2, <2>3, <2>4, <2>5
  <1> QED
    BY <1>1, Invariance, PTL

\* read is only called on a client that poll reported and that still has input or
\* is gone: it does not wait, whatever the stack left in the revents of entries
\* that were never polled.
THEOREM ReadsDoNotBlockHolds == Spec => []ReadsDoNotBlock
  <1>1. IInv => ReadsDoNotBlock
    BY NextIsReported DEF IInv, ReadsDoNotBlock
  <1> QED
    BY <1>1, Invariance, PTL

\* Every entry before the last names an open descriptor that no other entry names,
\* and the number that the last one keeps is never handed out again.
THEOREM EntriesExactHolds == Spec => []EntriesExact
  <1>1. ASSUME IInv, Up, NEW s \in Slots \ {Last}, fd[s] # Free
        PROVE  /\ fdtab[fd[s]] # Unused
               /\ \A t \in Slots : fd[t] = fd[s] => t = s
    <2>1. TypeOK /\ Entries
      BY <1>1 DEF IInv, Tables
    <2>2. \A t \in Slots \ {Last} : fd[t] # Free => t \in 1 .. Last - 1
      BY <2>1, Sizes DEF Entries
    <2>3. s \in 1 .. Last - 1 /\ fd[s] < Last /\ fd[s] # Last
      BY <1>1, <2>1, <2>2, Sizes DEF Entries, TypeOK
    <2> QED
      BY <1>1, <2>1, <2>2, <2>3 DEF Entries
  <1>2. IInv /\ Up /\ fd[Last] # Free => fdtab[fd[Last]] = Unused
    BY DEF IInv, Tables, Entries
  <1>3. IInv => EntriesExact
    BY <1>1, <1>2 DEF EntriesExact
  <1> QED
    BY <1>3, Invariance, PTL
=============================================================================
