----------------------------- MODULE ProgramsProofs -----------------------------
(***************************************************************************)
(* Proofs about the programs that MCPrograms runs: the process daemon, for *)
(* any number of children, of forks that fail and of pids, handed out      *)
(* again as soon as they are free; those that share semaphores             *)
(* (the userland ones, and the kernel module of kernel_semaphore.c), for   *)
(* any number of rounds; and the list in shared memory, for any number of  *)
(* nodes and of runs, each of which may be killed anywhere.                *)
(***************************************************************************)
EXTENDS MCPrograms, Sequences, FiniteSetTheorems, WellFoundedInduction, TLAPS

-----------------------------------------------------------------------------
(* The process daemon                                                      *)

Written(j) == g_process[j]._pid # NoPid

\* The entry whose child was waited for and not yet replaced.
Pending == IF pc = "respawn" THEN {i} ELSE {}

\* The entries that say a child with g_signal = 0.
Zeros == {j \in Index : Written(j) /\ g_process[j]._signal = 0}

\* Entries are written one after the other; the entry being replaced is that of
\* a child that is gone; every other child has an entry.
Table ==
  /\ pc = "start" => i \in Index /\ \A j \in Index : j >= i => ~ Written(j)
  /\ pc = "respawn" => i \in Index /\ Written(i) /\ proc[g_process[i]._pid] = "none"
  /\ \A p \in Children : \E j \in Index : g_process[j]._pid = p

\* The count is never below the number of entries that say 0, so taking one off
\* never makes it negative; a failed fork leaves an entry that was counted.
Counts ==
  /\ Cardinality(Zeros \ Pending) <= g_signal_0_count
  /\ pc = "respawn" /\ i \in Zeros => g_signal_0_count < SignalZeroNum

\* While no fork has failed: the entries are the children, one each, with the
\* signals they have, and the count is that of the entries that say 0.
Exact ==
  /\ \A j \in Index : Written(j) <=> (pc = "start" => j < i)
  /\ \A j \in Index \ Pending : Written(j) =>
       /\ g_process[j]._pid \in Children
       /\ childSignal[g_process[j]._pid] = g_process[j]._signal
       /\ \A k \in Index : g_process[k]._pid = g_process[j]._pid => k = j
  /\ Cardinality(Zeros \ Pending) = g_signal_0_count
  /\ pc = "start" => g_signal_0_count \in {i, SignalZeroNum}
  /\ pc # "start" => Cardinality(Zeros) = SignalZeroNum

\* The inductive invariant.
IInv == TypeOK /\ Table /\ Counts /\ (forkFails = 0 => Exact)

-----------------------------------------------------------------------------
(* Facts about the operators                                               *)

\* The assumptions on the constants, and what they make of the ranges.
LEMMA Sizes ==
  /\ ProcessNum \in Nat /\ ProcessNum >= 1 /\ Index = 0 .. ProcessNum - 1
  /\ SignalZeroNum \in 0 .. ProcessNum /\ SignalZeroNum \in Nat
  /\ MaxForkFails \in Nat /\ NoPid \notin Pids
  /\ IsFiniteSet(Index) /\ Cardinality(Index) = ProcessNum
  <1>1. IsFiniteSet(0 .. ProcessNum - 1) /\ Cardinality(0 .. ProcessNum - 1) = ProcessNum
    BY FS_Interval, NumAssumption
  <1> QED
    BY <1>1, NumAssumption, PidAssumption DEF Index

\* The search for a child that has an entry ends at one of its entries.
LEMMA EntryIsMatch ==
  ASSUME NEW p, Matches(p) # {}
  PROVE  Entry(p) \in Index /\ g_process[Entry(p)]._pid = p
  <1>1. Matches(p) \subseteq Index /\ Matches(p) \subseteq Nat
    BY Sizes DEF Matches
  <1> DEFINE R == OpToRel(<, Nat)
  <1>2. PICK x \in Matches(p) : \A y \in Matches(p) : ~ (<<y, x>> \in R)
    <2>1. IsWellFoundedOn(R, Nat)
      BY NatLessThanWellFounded
    <2> HIDE DEF R
    <2> QED BY <1>1, <2>1, WFMin
  <1>3. \A y \in Matches(p) : <<y, x>> \in R <=> y < x
    BY <1>1 DEF OpToRel
  <1>4. x \in Nat /\ \A y \in Matches(p) : y \in Nat /\ ~ (y < x)
    BY <1>1, <1>2, <1>3
  <1> HIDE DEF R
  <1>5. \A y \in Matches(p) : x <= y
    BY <1>4
  <1>6. Entry(p) \in Matches(p)
    BY <1>5 DEF Entry
  <1> QED
    BY <1>6 DEF Matches

\* The entries that say 0 are counted by a number.
LEMMA ZerosAreFinite ==
  ASSUME NEW S \in SUBSET Index
  PROVE  IsFiniteSet(S) /\ Cardinality(S) \in 0 .. ProcessNum
  <1>1. IsFiniteSet(S) /\ Cardinality(S) <= Cardinality(Index)
    BY Sizes, FS_Subset
  <1>2. Cardinality(S) \in Nat
    BY <1>1, FS_CardinalityType
  <1> QED
    BY <1>1, <1>2, Sizes

\* Taking out an entry takes one off their number.
LEMMA CountOut ==
  ASSUME NEW S \in SUBSET Index, NEW k
  PROVE  Cardinality(S \ {k}) = Cardinality(S) - (IF k \in S THEN 1 ELSE 0)
  <1>1. IsFiniteSet(S) /\ Cardinality(S) \in 0 .. ProcessNum
    BY ZerosAreFinite
  <1>2. Cardinality(S \ {k}) = IF k \in S THEN Cardinality(S) - 1 ELSE Cardinality(S)
    BY <1>1, FS_RemoveElement
  <1> QED
    BY <1>1, <1>2

\* Putting in an entry adds one to their number.
LEMMA CountIn ==
  ASSUME NEW S \in SUBSET Index, NEW k, k \notin S
  PROVE  Cardinality(S \cup {k}) = Cardinality(S) + 1
  <1>1. IsFiniteSet(S)
    BY ZerosAreFinite
  <1> QED
    BY <1>1, FS_AddElement

\* A set of entries and a set of children that match one to one are of a size.
LEMMA SameSize ==
  ASSUME NEW S, NEW T, IsFiniteSet(S), NEW h \in [S -> T],
         \A x, y \in S : h[x] = h[y] => x = y,
         \A t \in T : \E x \in S : h[x] = t
  PROVE  Cardinality(T) = Cardinality(S)
  <1>1. h \in Bijection(S, T)
    BY DEF Bijection, Injection, Surjection, IsInjective
  <1>2. ExistsBijection(S, T)
    BY <1>1 DEF ExistsBijection
  <1> QED
    BY <1>2, FS_Bijection

-----------------------------------------------------------------------------
(* The steps                                                               *)

\* No entry is written and nothing is counted.
LEMMA InitIInv == Init => IInv
  <1> SUFFICES ASSUME Init PROVE IInv
    OBVIOUS
  <1> USE DEF Init
  <1>1. TypeOK
    BY Sizes DEF TypeOK
  <1>2. \A j \in Index : ~ Written(j)
    BY DEF Written
  <1>3. Zeros = {} /\ Pending = {} /\ Children = {}
    BY <1>2 DEF Zeros, Pending, Children
  <1>4. Cardinality(Zeros \ Pending) = 0
    BY <1>3, FS_EmptySet
  <1>5. Table
    BY <1>2, <1>3, Sizes DEF Table
  <1>6. Counts
    BY <1>4 DEF Counts
  <1>7. Exact
    <2>1. \A j \in Index : ~ (j < i)
      BY Sizes
    <2> QED
      BY <1>2, <1>3, <1>4, <2>1 DEF Exact
  <1> QED
    BY <1>1, <1>5, <1>6, <1>7 DEF IInv

\* The signal of the next child is 0 exactly when the count is raised.
LEMMA ChosenSignal ==
  ASSUME TypeOK, ChooseSignal
  PROVE  /\ g_signal' \in {0, 1} /\ g_signal_0_count' \in 0 .. SignalZeroNum
         /\ g_signal' = 0 <=> g_signal_0_count < SignalZeroNum
         /\ g_signal' = 0 => g_signal_0_count' = g_signal_0_count + 1
         /\ g_signal' = 1 => g_signal_0_count' = g_signal_0_count /\ g_signal_0_count = SignalZeroNum
  BY Sizes DEF TypeOK, ChooseSignal, NeedsZero

\* What a fork that succeeds does to the table and the children: the entry that
\* is written is the new child's, whose pid no child has.
LEMMA Forked ==
  ASSUME TypeOK, NEW k \in Index, ForkInto(k), g_signal' \in {0, 1}
  PROVE  \E p \in Pids :
           /\ proc[p] = "none" /\ p # NoPid
           /\ proc' \in [Pids -> {"none", "running", "ended"}]
           /\ childSignal' \in [Pids -> {0, 1}]
           /\ g_process' \in [Index -> [_pid : Pids \cup {NoPid}, _signal : {0, 1}]]
           /\ forkFails' = forkFails
           /\ proc'[p] = "running" /\ childSignal'[p] = g_signal'
           /\ \A q \in Pids \ {p} : proc'[q] = proc[q] /\ childSignal'[q] = childSignal[q]
           /\ g_process'[k]._pid = p /\ g_process'[k]._signal = g_signal'
           /\ \A j \in Index \ {k} : g_process'[j] = g_process[j]
           /\ Zeros' = (Zeros \ {k}) \cup (IF g_signal' = 0 THEN {k} ELSE {})
           /\ Children' = Children \cup {p}
  <1>1. PICK p \in Pids :
          /\ proc[p] = "none"
          /\ proc' = [proc EXCEPT ![p] = "running"]
          /\ childSignal' = [childSignal EXCEPT ![p] = g_signal']
          /\ g_process' = [g_process EXCEPT ![k] = [_pid |-> p, _signal |-> g_signal']]
          /\ UNCHANGED forkFails
    BY DEF ForkInto
  <1>2. p # NoPid
    BY Sizes
  <1>3. /\ proc' \in [Pids -> {"none", "running", "ended"}]
        /\ proc'[p] = "running" /\ \A q \in Pids \ {p} : proc'[q] = proc[q]
    BY <1>1 DEF TypeOK
  <1>4. /\ childSignal' \in [Pids -> {0, 1}]
        /\ childSignal'[p] = g_signal'
        /\ \A q \in Pids \ {p} : childSignal'[q] = childSignal[q]
    BY <1>1 DEF TypeOK
  <1>5. /\ g_process'[k] = [_pid |-> p, _signal |-> g_signal']
        /\ \A j \in Index \ {k} : g_process'[j] = g_process[j]
        /\ g_process' \in [Index -> [_pid : Pids \cup {NoPid}, _signal : {0, 1}]]
    BY <1>1 DEF TypeOK
  <1>6. g_process'[k]._pid = p /\ g_process'[k]._signal = g_signal'
    BY <1>5
  <1>7. Zeros' = (Zeros \ {k}) \cup (IF g_signal' = 0 THEN {k} ELSE {})
    <2>1. Zeros' = {j \in Index : g_process'[j]._pid # NoPid /\ g_process'[j]._signal = 0}
      BY DEF Zeros, Written
    <2>2. Zeros = {j \in Index : g_process[j]._pid # NoPid /\ g_process[j]._signal = 0}
      BY DEF Zeros, Written
    <2> QED
      BY <1>2, <1>5, <1>6, <2>1, <2>2
  <1>8. Children' = Children \cup {p}
    BY <1>3 DEF Children
  <1> QED
    BY <1>1, <1>2, <1>3, <1>4, <1>5, <1>6, <1>7, <1>8

\* The entries still empty are filled in order, each with a child of its own.
LEMMA StartStep == IInv /\ Start => IInv'
  <1> SUFFICES ASSUME IInv, Start PROVE IInv'
    OBVIOUS
  <1>1. /\ TypeOK /\ Table /\ Counts /\ (forkFails = 0 => Exact)
        /\ pc = "start" /\ ChooseSignal /\ i' = i + 1
        /\ pc' = IF i + 1 = ProcessNum THEN "wait" ELSE "start"
        /\ ForkInto(i) \/ ForkFails
    BY DEF IInv, Start
  <1>2. /\ i \in Index /\ i' \in 1 .. ProcessNum /\ pc' \in {"start", "wait"}
        /\ pc' = "start" <=> i' \in Index
        /\ \A j \in Index : j >= i => ~ Written(j)
    BY <1>1, Sizes DEF Table
  <1>3. Pending = {} /\ Pending' = {}
    BY <1>1, <1>2 DEF Pending
  <1>4. i \notin Zeros /\ Zeros \in SUBSET Index /\ Zeros' \in SUBSET Index
    BY <1>2, Sizes DEF Zeros
  <1>5. Cardinality(Zeros) \in Nat /\ Cardinality(Zeros') \in Nat
    BY <1>4, ZerosAreFinite
  <1>6. Zeros \ Pending = Zeros /\ Zeros' \ Pending' = Zeros'
    BY <1>3
  <1>7. /\ g_signal' \in {0, 1} /\ g_signal_0_count' \in 0 .. SignalZeroNum
        /\ g_signal' = 0 <=> g_signal_0_count < SignalZeroNum
        /\ g_signal' = 0 => g_signal_0_count' = g_signal_0_count + 1
        /\ g_signal' = 1 => g_signal_0_count' = g_signal_0_count /\ g_signal_0_count = SignalZeroNum
    BY <1>1, ChosenSignal
  <1>8. Cardinality(Zeros) <= g_signal_0_count /\ g_signal_0_count \in 0 .. SignalZeroNum
    BY <1>1, <1>6 DEF Counts, TypeOK
  <1>9. CASE ForkFails
    <2>1. /\ forkFails < MaxForkFails /\ forkFails' = forkFails + 1
          /\ UNCHANGED <<g_process, proc, childSignal>>
      BY <1>9 DEF ForkFails
    <2>2. TypeOK'
      BY <1>1, <1>2, <1>7, <2>1, Sizes DEF TypeOK
    <2>3. Table'
      <3>1. \A j \in Index : j >= i' => ~ Written(j)'
        BY <1>1, <1>2, <2>1, Sizes DEF Written
      <3> QED
        BY <1>1, <1>2, <2>1, <3>1 DEF Table, Children
    <2>4. Zeros' = Zeros
      BY <2>1 DEF Zeros, Written
    <2>5. Counts'
      <3>1. Cardinality(Zeros') <= g_signal_0_count'
        BY <1>5, <1>7, <1>8, <2>4, Sizes
      <3>2. Cardinality(Zeros' \ Pending') <= g_signal_0_count'
        BY <1>6, <3>1
      <3>3. pc' # "respawn"
        BY <1>2
      <3> QED
        BY <3>2, <3>3 DEF Counts
    <2>6. forkFails' # 0
      BY <1>1, <2>1 DEF TypeOK
    <2> QED
      BY <2>2, <2>3, <2>5, <2>6 DEF IInv
  <1>10. CASE ForkInto(i)
    <2>1. PICK p \in Pids :
           /\ proc[p] = "none" /\ p # NoPid
           /\ proc' \in [Pids -> {"none", "running", "ended"}]
           /\ childSignal' \in [Pids -> {0, 1}]
           /\ g_process' \in [Index -> [_pid : Pids \cup {NoPid}, _signal : {0, 1}]]
           /\ forkFails' = forkFails
           /\ proc'[p] = "running" /\ childSignal'[p] = g_signal'
           /\ \A q \in Pids \ {p} : proc'[q] = proc[q] /\ childSignal'[q] = childSignal[q]
           /\ g_process'[i]._pid = p /\ g_process'[i]._signal = g_signal'
           /\ \A j \in Index \ {i} : g_process'[j] = g_process[j]
           /\ Zeros' = (Zeros \ {i}) \cup (IF g_signal' = 0 THEN {i} ELSE {})
           /\ Children' = Children \cup {p}
      BY <1>1, <1>2, <1>7, <1>10, Forked
    <2>2. TypeOK'
      BY <1>1, <1>2, <1>7, <2>1, Sizes DEF TypeOK
    <2>3. Table'
      <3>1. \A j \in Index : j >= i' => ~ Written(j)'
        BY <1>1, <1>2, <2>1, Sizes DEF Written
      <3>2. ASSUME NEW q \in Children' PROVE \E j \in Index : g_process'[j]._pid = q
        <4>1. CASE q = p
          BY <1>2, <2>1, <4>1
        <4>2. CASE q # p
          <5>1. PICK j \in Index : g_process[j]._pid = q
            BY <1>1, <2>1, <3>2, <4>2 DEF Table
          <5>2. j # i
            BY <1>2, <5>1, <3>2, <2>1, <4>2, Sizes DEF Written, Children
          <5> QED
            BY <2>1, <5>1, <5>2
        <4> QED
          BY <4>1, <4>2
      <3> QED
        BY <1>2, <3>1, <3>2 DEF Table
    <2>4. /\ g_signal' = 0 => Cardinality(Zeros') = Cardinality(Zeros) + 1
          /\ g_signal' = 1 => Cardinality(Zeros') = Cardinality(Zeros)
      <3>1. Cardinality(Zeros \cup {i}) = Cardinality(Zeros) + 1
        BY <1>4, CountIn
      <3>2. g_signal' = 0 => Zeros' = Zeros \cup {i}
        BY <1>4, <2>1
      <3>3. g_signal' = 1 => Zeros' = Zeros
        BY <1>4, <2>1
      <3> QED
        BY <3>1, <3>2, <3>3
    <2>5. Counts'
      <3>1. Cardinality(Zeros') <= g_signal_0_count'
        BY <1>5, <1>7, <1>8, <2>4, Sizes
      <3>2. Cardinality(Zeros' \ Pending') <= g_signal_0_count'
        BY <1>6, <3>1
      <3>3. pc' # "respawn"
        BY <1>2
      <3> QED
        BY <3>2, <3>3 DEF Counts
    <2>6. ASSUME forkFails = 0 PROVE Exact'
      <3>1. Exact
        BY <1>1, <2>6
      <3>2. \A j \in Index : Written(j)' <=> (pc' = "start" => j < i')
        <4>1. \A j \in Index : j < i' <=> (j < i \/ j = i)
          BY <1>1, <1>2, Sizes
        <4>2. pc' # "start" => \A j \in Index : j < i'
          BY <1>1, <1>2, Sizes
        <4>3. \A j \in Index : Written(j) <=> j < i
          BY <1>1, <3>1 DEF Exact
        <4>4. \A j \in Index \ {i} : Written(j)' <=> Written(j)
          BY <2>1 DEF Written
        <4>5. \A j \in Index : j = i => Written(j)'
          BY <2>1 DEF Written
        <4> QED
          BY <1>2, <4>1, <4>2, <4>3, <4>4, <4>5, Sizes
      <3>3. \A j \in Index \ {i} : Written(j) =>
              /\ g_process[j]._pid \in Children
              /\ childSignal[g_process[j]._pid] = g_process[j]._signal
              /\ g_process[j]._pid \in Pids \ {p}
        BY <1>3, <2>1, <3>1 DEF Exact, Children
      <3>4. ASSUME NEW j \in Index, Written(j)'
            PROVE  /\ g_process'[j]._pid \in Children'
                   /\ childSignal'[g_process'[j]._pid] = g_process'[j]._signal
                   /\ \A k \in Index : g_process'[k]._pid = g_process'[j]._pid => k = j
        <4>1. \A k \in Index \ {i} : g_process'[k]._pid # p
          BY <2>1, <3>3 DEF Written
        <4>2. CASE j = i
          BY <2>1, <4>1, <4>2
        <4>3. CASE j # i
          <5>1. Written(j) /\ g_process'[j] = g_process[j]
            BY <2>1, <3>4, <4>3 DEF Written
          <5>2. \A k \in Index : g_process[k]._pid = g_process[j]._pid => k = j
            BY <1>3, <3>1, <5>1 DEF Exact
          <5> QED
            BY <2>1, <3>3, <4>1, <4>3, <5>1, <5>2
        <4> QED
          BY <4>2, <4>3
      <3>5. Cardinality(Zeros') = g_signal_0_count'
        BY <1>6, <1>7, <2>4, <3>1 DEF Exact
      <3>6. g_signal_0_count' \in {i', SignalZeroNum}
        BY <1>1, <1>7, <3>1, Sizes DEF Exact
      <3>7. pc' # "start" => g_signal_0_count' = SignalZeroNum
        BY <1>1, <1>2, <1>7, <3>6, Sizes
      <3> QED
        BY <1>3, <1>6, <3>2, <3>4, <3>5, <3>6, <3>7 DEF Exact
    <2> QED
      BY <2>1, <2>2, <2>3, <2>5, <2>6 DEF IInv
  <1> QED
    BY <1>1, <1>9, <1>10

\* wait finds the entry of the child, which from now on is no child's.
LEMMA WaitStep == \A p \in Pids : IInv /\ Wait(p) => IInv'
  <1> SUFFICES ASSUME NEW p \in Pids, IInv, Wait(p) PROVE IInv'
    OBVIOUS
  <1> DEFINE k == Entry(p)
  <1>1. /\ TypeOK /\ Table /\ Counts /\ (forkFails = 0 => Exact)
        /\ pc = "wait" /\ proc[p] = "ended"
        /\ proc' = [proc EXCEPT ![p] = "none"] /\ i' = k
        /\ g_signal_0_count' = IF k # NotFound /\ g_process[k]._signal = 0
                               THEN g_signal_0_count - 1 ELSE g_signal_0_count
        /\ pc' = "respawn"
        /\ UNCHANGED <<g_process, g_signal, childSignal, forkFails>>
    BY DEF IInv, Wait
  <1>2. k \in Index /\ g_process[k]._pid = p
    <2>1. p \in Children
      BY <1>1 DEF Children
    <2>2. Matches(p) # {}
      BY <1>1, <2>1 DEF Table, Matches
    <2> QED
      BY <2>2, EntryIsMatch
  <1> HIDE DEF k
  <1>3. k # NotFound /\ k \in 0 .. ProcessNum /\ Written(k)
    BY <1>2, Sizes DEF NotFound, Written
  <1>4. /\ proc'[p] = "none" /\ \A q \in Pids \ {p} : proc'[q] = proc[q]
        /\ proc' \in [Pids -> {"none", "running", "ended"}]
    BY <1>1 DEF TypeOK
  <1>5. Children' = Children \ {p}
    BY <1>4 DEF Children
  <1>6. Zeros' = Zeros /\ Pending = {} /\ Pending' = {k} /\ Zeros \in SUBSET Index
    BY <1>1 DEF Zeros, Written, Pending
  <1>7. k \in Zeros <=> g_process[k]._signal = 0
    BY <1>2, <1>3 DEF Zeros
  <1>8. /\ Cardinality(Zeros) \in Nat /\ Zeros \ Pending = Zeros
        /\ Cardinality(Zeros \ {k}) = Cardinality(Zeros) - (IF k \in Zeros THEN 1 ELSE 0)
        /\ Cardinality(Zeros \ {k}) \in Nat
    <2>1. Zeros \ {k} \in SUBSET Index
      BY <1>6
    <2> QED
      BY <1>6, <2>1, ZerosAreFinite, CountOut
  <1>9. /\ g_signal_0_count' = g_signal_0_count - (IF k \in Zeros THEN 1 ELSE 0)
        /\ Cardinality(Zeros \ {k}) <= g_signal_0_count'
        /\ g_signal_0_count' \in 0 .. SignalZeroNum
        /\ k \in Zeros => g_signal_0_count' < SignalZeroNum
    <2>1. Cardinality(Zeros) <= g_signal_0_count /\ g_signal_0_count \in 0 .. SignalZeroNum
      BY <1>1, <1>8 DEF Counts, TypeOK
    <2>2. g_signal_0_count' = g_signal_0_count - (IF k \in Zeros THEN 1 ELSE 0)
      BY <1>1, <1>3, <1>7, <2>1, Sizes
    <2> QED
      BY <1>8, <2>1, <2>2, Sizes
  <1>10. TypeOK'
    BY <1>1, <1>3, <1>4, <1>9 DEF TypeOK
  <1>11. Table'
    <2>1. i' \in Index /\ Written(i)' /\ proc'[g_process'[i']._pid] = "none"
      BY <1>1, <1>2, <1>3, <1>4 DEF Written
    <2>2. \A q \in Children' : \E j \in Index : g_process'[j]._pid = q
      BY <1>1, <1>5 DEF Table
    <2> QED
      BY <1>1, <2>1, <2>2 DEF Table
  <1>12. Counts'
    BY <1>1, <1>6, <1>9 DEF Counts
  <1>13. ASSUME forkFails = 0 PROVE Exact'
    <2>1. Exact
      BY <1>1, <1>13
    <2>2. \A j \in Index : Written(j)'
      BY <1>1, <2>1 DEF Exact, Written
    <2>3. ASSUME NEW j \in Index \ {k}
          PROVE  /\ g_process'[j]._pid \in Children'
                 /\ childSignal'[g_process'[j]._pid] = g_process'[j]._signal
                 /\ \A l \in Index : g_process'[l]._pid = g_process'[j]._pid => l = j
      <3>1. Written(j)
        BY <1>1, <2>2 DEF Written
      <3>2. /\ g_process[j]._pid \in Children
            /\ childSignal[g_process[j]._pid] = g_process[j]._signal
            /\ \A l \in Index : g_process[l]._pid = g_process[j]._pid => l = j
        BY <1>6, <2>1, <3>1 DEF Exact
      <3>3. g_process[j]._pid # p
        BY <1>2, <3>2
      <3> QED
        BY <1>1, <1>5, <3>2, <3>3
    <2>4. Cardinality(Zeros) = g_signal_0_count /\ Cardinality(Zeros) = SignalZeroNum
      BY <1>1, <1>8, <2>1 DEF Exact
    <2>5. Cardinality(Zeros' \ Pending') = g_signal_0_count'
      BY <1>6, <1>8, <1>9, <2>4
    <2> QED
      BY <1>1, <1>6, <2>2, <2>3, <2>4, <2>5 DEF Exact
  <1> QED
    BY <1>1, <1>10, <1>11, <1>12, <1>13 DEF IInv

\* The entry of the child that ended becomes that of its replacement, with the
\* signal that was taken off the count; if fork fails the entry is counted again.
LEMMA RespawnStep == IInv /\ Respawn => IInv'
  <1> SUFFICES ASSUME IInv, Respawn PROVE IInv'
    OBVIOUS
  <1>1. /\ TypeOK /\ Table /\ Counts /\ (forkFails = 0 => Exact)
        /\ pc = "respawn" /\ ChooseSignal /\ i' = i /\ pc' = "wait"
        /\ ForkInto(i) \/ ForkFails
    BY DEF IInv, Respawn
  <1>2. i \in Index /\ Written(i) /\ proc[g_process[i]._pid] = "none"
    BY <1>1 DEF Table
  <1>3. Pending = {i} /\ Pending' = {}
    BY <1>1 DEF Pending
  <1>4. Zeros \in SUBSET Index /\ Zeros' \in SUBSET Index /\ Zeros \ {i} \in SUBSET Index
    BY DEF Zeros
  <1>5. /\ Cardinality(Zeros) \in Nat /\ Cardinality(Zeros') \in Nat
        /\ Cardinality(Zeros \ {i}) \in Nat
        /\ Cardinality(Zeros \ {i}) = Cardinality(Zeros) - (IF i \in Zeros THEN 1 ELSE 0)
    BY <1>4, ZerosAreFinite, CountOut
  <1>6. Zeros' \ Pending' = Zeros'
    BY <1>3
  <1>7. /\ g_signal' \in {0, 1} /\ g_signal_0_count' \in 0 .. SignalZeroNum
        /\ g_signal' = 0 <=> g_signal_0_count < SignalZeroNum
        /\ g_signal' = 0 => g_signal_0_count' = g_signal_0_count + 1
        /\ g_signal' = 1 => g_signal_0_count' = g_signal_0_count /\ g_signal_0_count = SignalZeroNum
    BY <1>1, ChosenSignal
  <1>8. /\ Cardinality(Zeros \ {i}) <= g_signal_0_count /\ g_signal_0_count \in 0 .. SignalZeroNum
        /\ i \in Zeros => g_signal' = 0
    BY <1>1, <1>3, <1>7 DEF Counts, TypeOK
  <1>9. ASSUME Cardinality(Zeros') <= g_signal_0_count' PROVE Counts'
    BY <1>1, <1>6, <1>9 DEF Counts
  <1>10. CASE ForkFails
    <2>1. /\ forkFails < MaxForkFails /\ forkFails' = forkFails + 1
          /\ UNCHANGED <<g_process, proc, childSignal>>
      BY <1>10 DEF ForkFails
    <2>2. TypeOK'
      BY <1>1, <1>7, <2>1, Sizes DEF TypeOK
    <2>3. Table'
      BY <1>1, <2>1 DEF Table, Children
    <2>4. Zeros' = Zeros
      BY <2>1 DEF Zeros, Written
    <2>5. Counts'
      BY <1>5, <1>7, <1>8, <1>9, <2>4, Sizes
    <2>6. forkFails' # 0
      BY <1>1, <2>1 DEF TypeOK
    <2> QED
      BY <2>2, <2>3, <2>5, <2>6 DEF IInv
  <1>11. CASE ForkInto(i)
    <2>1. PICK p \in Pids :
           /\ proc[p] = "none" /\ p # NoPid
           /\ proc' \in [Pids -> {"none", "running", "ended"}]
           /\ childSignal' \in [Pids -> {0, 1}]
           /\ g_process' \in [Index -> [_pid : Pids \cup {NoPid}, _signal : {0, 1}]]
           /\ forkFails' = forkFails
           /\ proc'[p] = "running" /\ childSignal'[p] = g_signal'
           /\ \A q \in Pids \ {p} : proc'[q] = proc[q] /\ childSignal'[q] = childSignal[q]
           /\ g_process'[i]._pid = p /\ g_process'[i]._signal = g_signal'
           /\ \A j \in Index \ {i} : g_process'[j] = g_process[j]
           /\ Zeros' = (Zeros \ {i}) \cup (IF g_signal' = 0 THEN {i} ELSE {})
           /\ Children' = Children \cup {p}
      BY <1>1, <1>2, <1>7, <1>11, Forked
    <2>2. TypeOK'
      BY <1>1, <1>7, <2>1 DEF TypeOK
    <2>3. Table'
      <3>1. ASSUME NEW q \in Children' PROVE \E j \in Index : g_process'[j]._pid = q
        <4>1. CASE q = p
          BY <1>2, <2>1, <4>1
        <4>2. CASE q # p
          <5>1. PICK j \in Index : g_process[j]._pid = q
            BY <1>1, <2>1, <3>1, <4>2 DEF Table
          <5>2. j # i
            BY <1>2, <5>1, <3>1, <2>1, <4>2 DEF Children
          <5> QED
            BY <2>1, <5>1, <5>2
        <4> QED
          BY <4>1, <4>2
      <3> QED
        BY <1>1, <3>1 DEF Table
    <2>4. /\ g_signal' = 0 => Cardinality(Zeros') = Cardinality(Zeros \ {i}) + 1
          /\ g_signal' = 1 => Cardinality(Zeros') = Cardinality(Zeros \ {i})
      <3>1. Cardinality((Zeros \ {i}) \cup {i}) = Cardinality(Zeros \ {i}) + 1
        BY <1>4, CountIn
      <3>2. g_signal' = 0 => Zeros' = (Zeros \ {i}) \cup {i}
        BY <2>1
      <3>3. g_signal' = 1 => Zeros' = Zeros \ {i}
        BY <2>1
      <3> QED
        BY <3>1, <3>2, <3>3
    <2>5. Counts'
      BY <1>5, <1>7, <1>8, <1>9, <2>4, Sizes
    <2>6. ASSUME forkFails = 0 PROVE Exact'
      <3>1. Exact
        BY <1>1, <2>6
      <3>2. \A j \in Index : Written(j)'
        <4>1. \A j \in Index : Written(j)
          BY <1>1, <3>1 DEF Exact
        <4> QED
          BY <2>1, <4>1 DEF Written
      <3>3. \A j \in Index \ {i} :
              /\ g_process[j]._pid \in Children
              /\ childSignal[g_process[j]._pid] = g_process[j]._signal
              /\ g_process[j]._pid \in Pids \ {p}
              /\ \A k \in Index : g_process[k]._pid = g_process[j]._pid => k = j
        BY <1>1, <1>3, <2>1, <3>1 DEF Exact, Children
      <3>4. ASSUME NEW j \in Index
            PROVE  /\ g_process'[j]._pid \in Children'
                   /\ childSignal'[g_process'[j]._pid] = g_process'[j]._signal
                   /\ \A k \in Index : g_process'[k]._pid = g_process'[j]._pid => k = j
        <4>1. \A k \in Index \ {i} : g_process'[k]._pid # p
          BY <2>1, <3>3
        <4>2. CASE j = i
          BY <2>1, <4>1, <4>2
        <4>3. CASE j # i
          BY <2>1, <3>3, <4>1, <4>3
        <4> QED
          BY <4>2, <4>3
      <3>5. Cardinality(Zeros \ {i}) = g_signal_0_count /\ Cardinality(Zeros) = SignalZeroNum
        BY <1>1, <1>3, <3>1 DEF Exact
      <3>6. Cardinality(Zeros') = g_signal_0_count' /\ Cardinality(Zeros') = SignalZeroNum
        BY <1>5, <1>7, <1>8, <2>4, <3>5, Sizes
      <3> QED
        BY <1>1, <1>3, <1>6, <3>2, <3>4, <3>6 DEF Exact
    <2> QED
      BY <2>1, <2>2, <2>3, <2>5, <2>6 DEF IInv
  <1> QED
    BY <1>1, <1>10, <1>11

\* A child that ends is still a child until it is waited for.
LEMMA ChildEndsStep == \A p \in Pids : IInv /\ ChildEnds(p) => IInv'
  <1> SUFFICES ASSUME NEW p \in Pids, IInv, ChildEnds(p) PROVE IInv'
    OBVIOUS
  <1>1. /\ TypeOK /\ Table /\ Counts /\ (forkFails = 0 => Exact)
        /\ proc[p] = "running" /\ proc' = [proc EXCEPT ![p] = "ended"]
        /\ UNCHANGED <<pc, i, g_process, g_signal, g_signal_0_count, childSignal, forkFails>>
    BY DEF IInv, ChildEnds, parent
  <1>2. /\ proc' \in [Pids -> {"none", "running", "ended"}] /\ Children' = Children
        /\ \A q \in Pids : proc'[q] = "none" <=> proc[q] = "none"
    BY <1>1 DEF TypeOK, Children
  <1>3. Zeros' = Zeros /\ Pending' = Pending
    BY <1>1 DEF Zeros, Pending, Written
  <1>4. TypeOK'
    BY <1>1, <1>2 DEF TypeOK
  <1>5. Table'
    <2>1. pc = "respawn" => g_process[i]._pid \in Pids
      BY <1>1 DEF Table, TypeOK, Written
    <2> QED
      BY <1>1, <1>2, <2>1 DEF Table, Written
  <1>6. Counts'
    BY <1>1, <1>3 DEF Counts
  <1>7. Exact => Exact'
    BY <1>1, <1>2, <1>3 DEF Exact, Written
  <1> QED
    BY <1>1, <1>4, <1>5, <1>6, <1>7 DEF IInv

-----------------------------------------------------------------------------
(* The theorems                                                            *)

\* Every step of the parent and of its children keeps the invariant.
LEMMA NextIInv == IInv /\ [Next]_vars => IInv'
  <1> SUFFICES ASSUME IInv, [Next]_vars PROVE IInv'
    OBVIOUS
  <1>1. CASE Start
    BY <1>1, StartStep
  <1>2. CASE Respawn
    BY <1>2, RespawnStep
  <1>3. CASE \E p \in Pids : Wait(p)
    BY <1>3, WaitStep
  <1>4. CASE \E p \in Pids : ChildEnds(p)
    BY <1>4, ChildEndsStep
  <1>5. CASE UNCHANGED vars
    BY <1>5 DEF vars, parent, IInv, TypeOK, Table, Counts, Exact, Zeros, Pending, Written, Children
  <1> QED
    BY <1>1, <1>2, <1>3, <1>4, <1>5 DEF Next, Parent, WaitFails

\* The table of process_daemon, whatever forks fail and children end, and the
\* count that goes with it.
THEOREM Invariance == Spec => []IInv
  <1>1. Init => IInv
    BY InitIInv
  <1>2. IInv /\ [Next]_vars => IInv'
    BY NextIInv
  <1> QED
    BY <1>1, <1>2, PTL DEF Spec

\* Every child has an entry, so that the search after wait finds it and the
\* update after fork stays inside g_process.
THEOREM ChildrenListedHolds == Spec => []ChildrenListed
  <1>1. IInv => ChildrenListed
    BY DEF IInv, Table, ChildrenListed, Matches
  <1> QED
    BY <1>1, Invariance, PTL

\* While forks succeed, the parent that waits has g_process_num children,
\* g_signal_0_num of them with g_signal = 0, over any number of replacements.
THEOREM GuaranteeHolds == Spec => []GuaranteedWhileForksSucceed
  <1>1. ASSUME IInv, forkFails = 0, pc = "wait"
        PROVE  /\ Cardinality(Children) = ProcessNum
               /\ Cardinality(ZeroChildren) = SignalZeroNum
    <2>1. TypeOK /\ Table /\ Exact
      BY <1>1 DEF IInv
    <2>2. /\ \A j \in Index :
               /\ g_process[j]._pid \in Children
               /\ childSignal[g_process[j]._pid] = g_process[j]._signal
               /\ g_process[j]._pid # NoPid
               /\ \A k \in Index : g_process[k]._pid = g_process[j]._pid => k = j
          /\ Cardinality(Zeros) = SignalZeroNum
      BY <1>1, <2>1 DEF Exact, Pending, Written
    <2>3. \A p \in Children : \E j \in Index : g_process[j]._pid = p
      BY <2>1 DEF Table
    <2>4. Cardinality(Children) = Cardinality(Index)
      <3>1. PICK h \in [Index -> Children] : \A j \in Index : h[j] = g_process[j]._pid
        <4> DEFINE g == [j \in Index |-> g_process[j]._pid]
        <4>1. g \in [Index -> Children] /\ \A j \in Index : g[j] = g_process[j]._pid
          BY <2>2
        <4> QED
          BY <4>1
      <3>2. \A x, y \in Index : h[x] = h[y] => x = y
        BY <2>2, <3>1
      <3>3. \A p \in Children : \E x \in Index : h[x] = p
        BY <2>3, <3>1
      <3> QED
        BY <3>2, <3>3, Sizes, SameSize
    <2>5. Cardinality(ZeroChildren) = Cardinality(Zeros)
      <3>1. PICK h \in [Zeros -> ZeroChildren] : \A j \in Zeros : h[j] = g_process[j]._pid
        <4> DEFINE g == [j \in Zeros |-> g_process[j]._pid]
        <4>1. g \in [Zeros -> ZeroChildren] /\ \A j \in Zeros : g[j] = g_process[j]._pid
          BY <2>2 DEF Zeros, ZeroChildren
        <4> QED
          BY <4>1
      <3>2. \A x, y \in Zeros : h[x] = h[y] => x = y
        BY <2>2, <3>1 DEF Zeros
      <3>3. \A p \in ZeroChildren : \E x \in Zeros : h[x] = p
        BY <2>2, <2>3, <3>1 DEF Zeros, ZeroChildren, Written
      <3>4. IsFiniteSet(Zeros)
        BY ZerosAreFinite DEF Zeros
      <3> QED
        BY <3>2, <3>3, <3>4, SameSize
    <2> QED
      BY <2>2, <2>4, <2>5, Sizes
  <1>2. IInv => GuaranteedWhileForksSucceed
    BY <1>1 DEF GuaranteedWhileForksSucceed, SignalsGuaranteed
  <1> QED
    BY <1>2, Invariance, PTL

-----------------------------------------------------------------------------
(* The userland programs                                                   *)

SemsTypeOK == /\ program \in {"test1", "test2", "process"}
          /\ sem \in [1 .. (IF program = "test2" THEN 2 ELSE 1) -> Nat]
          /\ semat \in [Sems!Actors -> {"wait", "inside", "ended"}]
          /\ rounds \in [Sems!Actors -> Nat]

\* One semaphore: it is 0 while somebody is inside, and 1 otherwise.
OneSemaphore ==
  program # "test2" =>
    /\ ~ (semat[1] = "inside" /\ semat[2] = "inside")
    /\ sem[1] = IF semat[1] = "inside" \/ semat[2] = "inside" THEN 0 ELSE 1

\* Two semaphores: one of the two actors has the turn.  Until it takes it, its
\* semaphore is 1; all the others are 0.
Turn(a) == /\ semat[3 - a] # "inside" /\ sem[3 - a] = 0
           /\ sem[a] = IF semat[a] = "inside" THEN 0 ELSE 1

TwoSemaphores ==
  program = "test2" =>
    \/ rounds[1] = rounds[2] /\ Turn(1)
    \/ rounds[1] = rounds[2] + 1 /\ Turn(2)

\* The inductive invariant.
SemsIInv == SemsTypeOK /\ OneSemaphore /\ TwoSemaphores

\* The two actors are 1 and 2.
LEMMA TwoActors == Sems!Actors = {1, 2} /\ 3 - 1 = 2 /\ 3 - 2 = 1
  BY DEF Sems!Actors

\* The first actor has the turn, and nobody is inside.
LEMMA InitSems == Sems!Init => SemsIInv
  <1> SUFFICES ASSUME Sems!Init PROVE SemsIInv
    OBVIOUS
  <1>1. program = "test2" => sem[1] = 1 /\ sem[2] = 0 /\ sem \in [1 .. 2 -> Nat]
    BY DEF Sems!Init
  <1>2. program # "test2" => sem[1] = 1 /\ sem \in [1 .. 1 -> Nat]
    BY DEF Sems!Init
  <1>3. SemsTypeOK
    BY <1>1, <1>2 DEF Sems!Init, SemsTypeOK
  <1>4. OneSemaphore /\ TwoSemaphores
    BY <1>1, <1>2, TwoActors DEF Sems!Init, OneSemaphore, TwoSemaphores, Turn
  <1> QED
    BY <1>3, <1>4 DEF SemsIInv

\* Whoever takes a semaphore leaves it 0, and goes inside.
LEMMA SemsWait == \A a \in Sems!Actors : SemsIInv /\ Sems!Wait(a) => SemsIInv'
  <1> SUFFICES ASSUME NEW a \in Sems!Actors, SemsIInv, Sems!Wait(a) PROVE SemsIInv'
    OBVIOUS
  <1> DEFINE w == Sems!WaitsFor(a)
  <1>1. /\ SemsTypeOK /\ OneSemaphore /\ TwoSemaphores
        /\ semat[a] = "wait" /\ sem[w] > 0
        /\ sem' = [sem EXCEPT ![w] = @ - 1]
        /\ semat' = [semat EXCEPT ![a] = "inside"]
        /\ program' = program /\ rounds' = rounds
    BY DEF SemsIInv, Sems!Wait
  <1>2. /\ semat'[a] = "inside" /\ semat'[3 - a] = semat[3 - a]
        /\ semat' \in [Sems!Actors -> {"wait", "inside", "ended"}]
    BY <1>1, TwoActors DEF SemsTypeOK
  <1>3. CASE program = "test2"
    <2>1. w = a /\ sem \in [1 .. 2 -> Nat]
      BY <1>1, <1>3 DEF Sems!WaitsFor, SemsTypeOK
    <2>2. sem'[a] = sem[a] - 1 /\ sem'[3 - a] = sem[3 - a] /\ sem' \in [1 .. 2 -> Nat]
      BY <1>1, <2>1, TwoActors
    <2>3. SemsTypeOK'
      BY <1>1, <1>2, <1>3, <2>2 DEF SemsTypeOK
    <2>4. TwoSemaphores'
      BY <1>1, <1>2, <1>3, <2>1, <2>2, TwoActors DEF TwoSemaphores, Turn, SemsTypeOK
    <2> QED
      BY <1>1, <1>3, <2>3, <2>4 DEF SemsIInv, OneSemaphore
  <1>4. CASE program # "test2"
    <2>1. w = 1 /\ sem \in [1 .. 1 -> Nat]
      BY <1>1, <1>4 DEF Sems!WaitsFor, SemsTypeOK
    <2>2. sem'[1] = sem[1] - 1 /\ sem' \in [1 .. 1 -> Nat]
      BY <1>1, <2>1
    <2>3. SemsTypeOK'
      BY <1>1, <1>2, <1>4, <2>2 DEF SemsTypeOK
    <2>4. OneSemaphore'
      BY <1>1, <1>2, <1>4, <2>1, <2>2, TwoActors DEF OneSemaphore
    <2> QED
      BY <1>1, <1>4, <2>3, <2>4 DEF SemsIInv, TwoSemaphores
  <1> QED
    BY <1>3, <1>4

\* Whoever is inside leaves before it posts, and gives the turn away.
LEMMA SemsPost == \A a \in Sems!Actors : SemsIInv /\ Sems!Post(a) => SemsIInv'
  <1> SUFFICES ASSUME NEW a \in Sems!Actors, SemsIInv, Sems!Post(a) PROVE SemsIInv'
    OBVIOUS
  <1> DEFINE p == Sems!Posts(a)
  <1>1. /\ SemsTypeOK /\ OneSemaphore /\ TwoSemaphores
        /\ semat[a] = "inside"
        /\ sem' = [sem EXCEPT ![p] = @ + 1]
        /\ semat' = [semat EXCEPT ![a] = IF Sems!Through(a) THEN "ended" ELSE "wait"]
        /\ rounds' = IF program = "process" THEN rounds ELSE [rounds EXCEPT ![a] = @ + 1]
        /\ program' = program
    BY DEF SemsIInv, Sems!Post
  <1>2. /\ semat'[a] # "inside" /\ semat'[3 - a] = semat[3 - a]
        /\ semat' \in [Sems!Actors -> {"wait", "inside", "ended"}]
    <2>1. (IF Sems!Through(a) THEN "ended" ELSE "wait") \in {"wait", "ended"}
      OBVIOUS
    <2> QED
      BY <1>1, <2>1, TwoActors DEF SemsTypeOK
  <1>3. rounds' \in [Sems!Actors -> Nat]
    BY <1>1 DEF SemsTypeOK
  <1>4. CASE program = "test2"
    <2>1. p = 3 - a /\ sem \in [1 .. 2 -> Nat]
      BY <1>1, <1>4 DEF Sems!Posts, SemsTypeOK
    <2>2. sem'[3 - a] = sem[3 - a] + 1 /\ sem'[a] = sem[a] /\ sem' \in [1 .. 2 -> Nat]
      BY <1>1, <2>1, TwoActors
    <2>3. rounds'[a] = rounds[a] + 1 /\ rounds'[3 - a] = rounds[3 - a]
      BY <1>1, <1>4, TwoActors DEF SemsTypeOK
    <2>4. SemsTypeOK'
      BY <1>1, <1>2, <1>3, <1>4, <2>2 DEF SemsTypeOK
    <2>5. TwoSemaphores'
      BY <1>1, <1>2, <1>4, <2>1, <2>2, <2>3, TwoActors DEF TwoSemaphores, Turn, SemsTypeOK
    <2> QED
      BY <1>1, <1>4, <2>4, <2>5 DEF SemsIInv, OneSemaphore
  <1>5. CASE program # "test2"
    <2>1. p = 1 /\ sem \in [1 .. 1 -> Nat]
      BY <1>1, <1>5 DEF Sems!Posts, SemsTypeOK
    <2>2. sem'[1] = sem[1] + 1 /\ sem' \in [1 .. 1 -> Nat]
      BY <1>1, <2>1
    <2>3. SemsTypeOK'
      BY <1>1, <1>2, <1>3, <1>5, <2>2 DEF SemsTypeOK
    <2>4. OneSemaphore'
      BY <1>1, <1>2, <1>5, <2>1, <2>2, TwoActors DEF OneSemaphore
    <2> QED
      BY <1>1, <1>5, <2>3, <2>4 DEF SemsIInv, TwoSemaphores
  <1> QED
    BY <1>4, <1>5

\* Every step keeps the invariant; main only joins.
LEMMA NextSems == SemsIInv /\ [Sems!Next]_Sems!vars => SemsIInv'
  <1> SUFFICES ASSUME SemsIInv, [Sems!Next]_Sems!vars PROVE SemsIInv'
    OBVIOUS
  <1>1. CASE Sems!Join \/ UNCHANGED Sems!vars
    BY <1>1 DEF Sems!Join, Sems!vars, SemsIInv, SemsTypeOK, OneSemaphore, TwoSemaphores, Turn
  <1>2. CASE \E a \in Sems!Actors : Sems!Wait(a) \/ Sems!Post(a)
    BY <1>2, SemsWait, SemsPost
  <1> QED
    BY <1>1, <1>2 DEF Sems!Next

\* A semaphore is 0 while somebody is inside, and one of two actors that hand
\* the turn to each other has it.
THEOREM SemsInvariance == Sems!Spec => []SemsIInv
  <1>1. Sems!Init => SemsIInv
    BY InitSems
  <1>2. SemsIInv /\ [Sems!Next]_Sems!vars => SemsIInv'
    BY NextSems
  <1> QED
    BY <1>1, <1>2, PTL DEF Sems!Spec

\* One thread or process at a time is inside, and the threads of
\* semaphore_test2.c are inside in turns, the first one first.
THEOREM ExcludedHolds == Sems!Spec => []Sems!Excluded
  <1>1. ASSUME SemsIInv PROVE Sems!Excluded
    <2>1. SemsTypeOK /\ OneSemaphore /\ TwoSemaphores
      BY <1>1 DEF SemsIInv
    <2>2. ~ (semat[1] = "inside" /\ semat[2] = "inside")
      BY <2>1, TwoActors DEF SemsTypeOK, OneSemaphore, TwoSemaphores, Turn
    <2>3. {a \in Sems!Actors : semat[a] = "inside"} \in {{}, {1}, {2}}
      <3>1. CASE semat[1] = "inside"
        <4>1. {a \in Sems!Actors : semat[a] = "inside"} = {1}
          BY <2>2, <3>1, TwoActors
        <4> QED BY <4>1
      <3>2. CASE semat[1] # "inside" /\ semat[2] = "inside"
        <4>1. {a \in Sems!Actors : semat[a] = "inside"} = {2}
          BY <3>2, TwoActors
        <4> QED BY <4>1
      <3>3. CASE semat[1] # "inside" /\ semat[2] # "inside"
        <4>1. {a \in Sems!Actors : semat[a] = "inside"} = {}
          BY <3>3, TwoActors
        <4> QED BY <4>1
      <3> QED
        BY <3>1, <3>2, <3>3
    <2>4. Cardinality({a \in Sems!Actors : semat[a] = "inside"}) <= 1
      <3>1. Cardinality({}) = 0 /\ Cardinality({1}) = 1 /\ Cardinality({2}) = 1
        BY FS_EmptySet, FS_Singleton
      <3> DEFINE S == {a \in Sems!Actors : semat[a] = "inside"}
      <3>2. S = {} \/ S = {1} \/ S = {2}
        BY <2>3
      <3> HIDE DEF S
      <3>3. Cardinality(S) <= 1
        BY <3>1, <3>2
      <3> QED
        BY <3>3 DEF S
    <2>5. program = "test2" =>
            /\ rounds[2] <= rounds[1] /\ rounds[1] <= rounds[2] + 1
            /\ semat[1] = "inside" => rounds[1] = rounds[2]
            /\ semat[2] = "inside" => rounds[1] = rounds[2] + 1
      BY <2>1, TwoActors DEF SemsTypeOK, TwoSemaphores, Turn
    <2>6. Sems!Cardinality({a \in Sems!Actors : semat[a] = "inside"}) <= 1
      BY <2>4, Zenon DEF Cardinality, Sems!Cardinality
    <2> QED
      BY <2>5, <2>6 DEF Sems!Excluded
  <1> QED
    BY <1>1, SemsInvariance, PTL

-----------------------------------------------------------------------------
(* kernel_semaphore.c                                                      *)

ThreadsTypeOK ==
  /\ at \in [{1, 2} -> {"created", "top", "down", "queued", "holds", "ended"}]
  /\ count \in {0, 1}

\* The semaphore is taken exactly when a thread holds it, and a thread is queued
\* only while the other one holds it.
Handing ==
  /\ ~ (at[1] = "holds" /\ at[2] = "holds")
  /\ count = IF at[1] = "holds" \/ at[2] = "holds" THEN 0 ELSE 1
  /\ \/ waiting = <<>> /\ at[1] # "queued" /\ at[2] # "queued"
     \/ waiting = <<1>> /\ at[1] = "queued" /\ at[2] = "holds"
     \/ waiting = <<2>> /\ at[2] = "queued" /\ at[1] = "holds"

\* The inductive invariant.
ThreadsIInv == module = "semaphore" => ThreadsTypeOK /\ Handing

\* No thread has run.
LEMMA InitThreads == Threads!Init => ThreadsIInv
  BY DEF Threads!Init, Threads!Threads, ThreadsIInv, ThreadsTypeOK, Handing

\* A semaphore that is given up goes to the thread that waits for it, and only
\* then is it free.
LEMMA NextThreads == ThreadsIInv /\ [Threads!Next]_Threads!vars => ThreadsIInv'
  <1> SUFFICES ASSUME ThreadsIInv, [Threads!Next]_Threads!vars, module' = "semaphore"
               PROVE  (ThreadsTypeOK /\ Handing)'
    BY DEF ThreadsIInv
  <1>1. module = "semaphore"
    BY DEF Threads!Next, Threads!Thread1, Threads!Thread2, Threads!Thread, Threads!Exit,
           Threads!Begin, Threads!Top, Threads!Down, Threads!Up, Threads!WaitForCompletion,
           Threads!InitCompletion, Threads!TestDone, Threads!Complete, Threads!StopAsks,
           Threads!StopReturns, Threads!ExitTests, Threads!ExitCompletes, Threads!vars
  <1>2. ThreadsTypeOK /\ Handing
    BY <1>1 DEF ThreadsIInv
  <1>3. CASE \E t \in {1, 2} : Threads!Begin(t) \/ Threads!Top(t)
    <2>1. PICK t \in {1, 2} : Threads!Begin(t) \/ Threads!Top(t)
      BY <1>3
    <2>2. /\ at[t] \in {"created", "top"} /\ count' = count /\ waiting' = waiting
          /\ \E there \in {"ended", "top", "down"} : at' = [at EXCEPT ![t] = there]
      BY <1>1, <2>1 DEF Threads!Begin, Threads!Top, Threads!First, Threads!Goes, Threads!sync
    <2> QED
      BY <1>2, <2>2 DEF ThreadsTypeOK, Handing
  <1>4. CASE \E t \in {1, 2} : Threads!Down(t)
    <2>1. PICK t \in {1, 2} : Threads!Down(t)
      BY <1>4
    <2>2. CASE count > 0
      <3>1. /\ at[t] = "down" /\ count' = count - 1 /\ waiting' = waiting
            /\ at' = [at EXCEPT ![t] = "holds"]
        BY <2>1, <2>2 DEF Threads!Down, Threads!Goes
      <3> QED
        BY <1>2, <2>2, <3>1 DEF ThreadsTypeOK, Handing
    <2>3. CASE ~ (count > 0)
      <3>1. /\ at[t] = "down" /\ count' = count /\ waiting' = Append(waiting, t)
            /\ at' = [at EXCEPT ![t] = "queued"]
        BY <2>1, <2>3 DEF Threads!Down, Threads!Goes
      <3>2. waiting = <<>> /\ at[3 - t] = "holds"
        BY <1>2, <2>3, <3>1 DEF ThreadsTypeOK, Handing
      <3>3. waiting' = <<t>>
        BY <3>1, <3>2
      <3> QED
        BY <1>2, <3>1, <3>2, <3>3 DEF ThreadsTypeOK, Handing
    <2> QED
      BY <2>2, <2>3
  <1>5. CASE \E t \in {1, 2} : Threads!Up(t)
    <2>1. PICK t \in {1, 2} : Threads!Up(t)
      BY <1>5
    <2>2. CASE waiting = <<>>
      <3>1. /\ at[t] = "holds" /\ count' = count + 1 /\ waiting' = waiting
            /\ at' = [at EXCEPT ![t] = "top"]
        BY <2>1, <2>2 DEF Threads!Up, Threads!Goes
      <3> QED
        BY <1>2, <2>2, <3>1 DEF ThreadsTypeOK, Handing
    <2>3. CASE waiting # <<>>
      <3>1. /\ at[t] = "holds" /\ count' = count /\ waiting' = Tail(waiting)
            /\ at' = [at EXCEPT ![t] = "top", ![Head(waiting)] = "holds"]
        BY <2>1, <2>3 DEF Threads!Up
      <3>2. waiting = <<3 - t>> /\ at[3 - t] = "queued"
        BY <1>2, <2>3, <3>1 DEF Handing
      <3>3. Head(waiting) = 3 - t /\ waiting' = <<>>
        BY <3>1, <3>2
      <3> QED
        BY <1>2, <3>1, <3>2, <3>3 DEF ThreadsTypeOK, Handing
    <2> QED
      BY <2>2, <2>3
  <1>6. CASE \/ Threads!WaitForCompletion \/ Threads!InitCompletion
             \/ Threads!TestDone \/ Threads!Complete
    BY <1>2, <1>6 DEF Threads!WaitForCompletion, Threads!InitCompletion,
                      Threads!TestDone, Threads!Complete, ThreadsTypeOK
  <1>7. CASE Threads!StopAsks(1) \/ Threads!Exit
    <2>1. at' = at /\ count' = count /\ waiting' = waiting
      BY <1>7 DEF Threads!Exit, Threads!StopAsks, Threads!StopReturns, Threads!ExitTests,
                  Threads!ExitCompletes, Threads!sync
    <2> QED
      BY <1>2, <2>1 DEF ThreadsTypeOK, Handing
  <1>8. CASE UNCHANGED Threads!vars
    BY <1>2, <1>8 DEF Threads!vars, ThreadsTypeOK, Handing
  <1> QED
    BY <1>3, <1>4, <1>5, <1>6, <1>7, <1>8
       DEF Threads!Next, Threads!Thread1, Threads!Thread2, Threads!Thread

\* One kernel thread at a time holds the semaphore, and its count says whether.
THEOREM OneHolderHolds == Threads!Spec => []Threads!OneHolder
  <1>1. Threads!Init => ThreadsIInv
    BY InitThreads
  <1>2. ThreadsIInv /\ [Threads!Next]_Threads!vars => ThreadsIInv'
    BY NextThreads
  <1>3. ThreadsIInv => Threads!OneHolder
    BY DEF ThreadsIInv, ThreadsTypeOK, Handing, Threads!OneHolder
  <1> QED
    BY <1>1, <1>2, <1>3, PTL DEF Threads!Spec



-----------------------------------------------------------------------------
(* The list in shared memory                                               *)

ShmTypeOK == /\ head \in [first_id : Int, tail_id : Int, count : Nat]
          /\ node \in [Shm!Ids -> [next_id : Int, data : Int]]
          /\ shmpc \in {"ended", "head", "fill", "first", "link", "tail", "count", "list"}
          /\ data \in Nat
          /\ seen \in Seq(Int)
          /\ walk \in Int

\* The first n nodes carry the numbers main gave them, and each but the last
\* the id of the one after it.
Built(n) == /\ \A k \in 1 .. n : node[k].data = k - 1
            /\ \A k \in 1 .. n - 1 : node[k].next_id = k + 1

\* While a run adds, its nodes so far form the list, and the node it is adding
\* is at the place that comes after them.  What older runs left lies behind.
Adding ==
  shmpc \in {"fill", "first", "link", "tail", "count"} =>
    /\ head.count < ListNodes /\ data = head.count /\ seen = <<>>
    /\ Built(head.count)
    /\ head.count > 0 => head.first_id = 1
    /\ shmpc \in {"fill", "link"} /\ head.count > 0 =>
         head.tail_id = head.count /\ node[head.count].next_id = -1
    /\ shmpc # "fill" => node[Shm!Key].next_id = -1 /\ node[Shm!Key].data = data
    /\ shmpc = "first" => head.count = 0
    /\ shmpc \in {"link", "tail"} => head.count > 0
    /\ shmpc = "count" => head.first_id = 1 /\ head.tail_id = Shm!Key
    /\ shmpc \in {"tail", "count"} /\ head.count > 0 => node[head.count].next_id = Shm!Key

\* While it prints, it follows the list of all the nodes.
Printing ==
  shmpc = "list" =>
    /\ Built(ListNodes) /\ node[ListNodes].next_id = -1
    /\ Len(seen) <= ListNodes
    /\ walk = IF Len(seen) = ListNodes THEN -1 ELSE Len(seen) + 1

\* What was printed was printed in order.
Printed == /\ \A k \in 1 .. Len(seen) : seen[k] = k - 1
           /\ shmpc = "head" => seen = <<>>

\* The inductive invariant.
ShmIInv == ShmTypeOK /\ Adding /\ Printing /\ Printed

\* The place of the node that is added, and those of the ones before it.
LEMMA Places ==
  ASSUME ShmTypeOK, Adding,
         shmpc \in {"fill", "first", "link", "tail", "count"}
  PROVE  /\ head.count \in 0 .. ListNodes - 1 /\ Shm!Key = head.count + 1
         /\ Shm!Key \in Shm!Ids /\ \A k \in 1 .. head.count : k \in Shm!Ids /\ k # Shm!Key
         /\ head.count > 0 => head.count \in Shm!Ids
  <1>1. head.count \in Nat /\ head.count < ListNodes /\ ListNodes \in Nat
    BY ListNodesAssumption DEF ShmTypeOK, Adding
  <1> QED
    BY <1>1 DEF Shm!Key, Shm!Ids

\* The program has not run yet.
LEMMA InitShm == Shm!Init => ShmIInv
  BY ListNodesAssumption DEF Shm!Init, ShmIInv, ShmTypeOK, Adding, Printing, Printed, Shm!Zero, Shm!Ids

\* A new run has printed nothing.
LEMMA RunStep == ShmIInv /\ Shm!Run => ShmIInv'
  BY DEF ShmIInv, Shm!Run, ShmTypeOK, Adding, Printing, Printed

\* A killed run leaves the segments as they are, and they are not looked at
\* before a head is made.
LEMMA KilledStep == ShmIInv /\ Shm!Killed => ShmIInv'
  BY DEF ShmIInv, Shm!Killed, ShmTypeOK, Adding, Printing, Printed

\* The list is empty.
LEMMA MakeHeadStep == ShmIInv /\ Shm!MakeHead => ShmIInv'
  <1> SUFFICES ASSUME ShmIInv, Shm!MakeHead PROVE ShmIInv'
    OBVIOUS
  <1>1. /\ shmpc = "head" /\ data' = 0 /\ shmpc' = "fill"
        /\ UNCHANGED <<node, seen, walk>> /\ ShmTypeOK /\ Printed /\ seen = <<>>
        /\ head' = [first_id |-> -1, tail_id |-> -1, count |-> 0]
    BY DEF ShmIInv, Shm!MakeHead, Printed
  <1>2. head' \in [first_id : Int, tail_id : Int, count : Nat] /\ head'.count = 0
    BY <1>1
  <1>3. ShmTypeOK' /\ Printing' /\ Printed'
    BY <1>1, <1>2 DEF ShmTypeOK, Printing, Printed
  <1>4. Adding'
    BY <1>1, <1>2, ListNodesAssumption DEF Adding, Built
  <1> QED
    BY <1>3, <1>4 DEF ShmIInv

\* The segment of the new node is written whole, whatever an older run left in
\* it; the nodes before it are other segments.
LEMMA FillStep == ShmIInv /\ Shm!Fill => ShmIInv'
  <1> SUFFICES ASSUME ShmIInv, Shm!Fill PROVE ShmIInv'
    OBVIOUS
  <1>1. /\ shmpc = "fill" /\ ShmTypeOK /\ Adding /\ Printed
        /\ node' = [node EXCEPT ![Shm!Key] = Shm!Filled]
        /\ shmpc' = IF head.count = 0 THEN "first" ELSE "link"
        /\ UNCHANGED <<head, data, seen, walk>>
    BY DEF ShmIInv, Shm!Fill
  <1>2. /\ head.count \in 0 .. ListNodes - 1 /\ Shm!Key = head.count + 1
        /\ Shm!Key \in Shm!Ids /\ \A k \in 1 .. head.count : k \in Shm!Ids /\ k # Shm!Key
        /\ head.count > 0 => head.count \in Shm!Ids
    BY <1>1, Places
  <1>3. Shm!Filled \in [next_id : Int, data : Int] /\ Shm!Filled.next_id = -1 /\ Shm!Filled.data = data
    BY <1>1 DEF Shm!Filled, ShmTypeOK
  <1>4. /\ node' \in [Shm!Ids -> [next_id : Int, data : Int]] /\ node'[Shm!Key] = Shm!Filled
        /\ \A k \in 1 .. head.count : node'[k] = node[k]
    BY <1>1, <1>2, <1>3 DEF ShmTypeOK
  <1>5. ShmTypeOK' /\ Printing' /\ Printed' /\ Shm!Key' = Shm!Key
    BY <1>1, <1>4 DEF ShmTypeOK, Printing, Printed, Shm!Key
  <1>6. Built(head.count)'
    BY <1>1, <1>2, <1>4 DEF Adding, Built
  <1>7. head.count > 0 => node'[head.count] = node[head.count]
    BY <1>2, <1>4
  <1>8. Adding'
    BY <1>1, <1>2, <1>3, <1>4, <1>5, <1>6, <1>7 DEF Adding
  <1> QED
    BY <1>5, <1>8 DEF ShmIInv

\* The first node becomes the first and the last one.
LEMMA AddFirstStep == ShmIInv /\ Shm!AddFirst => ShmIInv'
  <1> SUFFICES ASSUME ShmIInv, Shm!AddFirst PROVE ShmIInv'
    OBVIOUS
  <1>1. /\ shmpc = "first" /\ ShmTypeOK /\ Adding /\ Printed /\ shmpc' = "count"
        /\ head' = [head EXCEPT !.first_id = Shm!Key, !.tail_id = Shm!Key]
        /\ UNCHANGED <<node, data, seen, walk>>
    BY DEF ShmIInv, Shm!AddFirst
  <1>2. Shm!Key \in Int /\ head.count = 0 /\ Shm!Key = 1
    BY <1>1, Places DEF Adding
  <1>3. /\ head' \in [first_id : Int, tail_id : Int, count : Nat]
        /\ head'.count = 0 /\ head'.first_id = 1 /\ head'.tail_id = 1
    BY <1>1, <1>2 DEF ShmTypeOK
  <1>4. ShmTypeOK' /\ Printing' /\ Printed' /\ Shm!Key' = 1
    BY <1>1, <1>3 DEF ShmTypeOK, Printing, Printed, Shm!Key
  <1>5. Adding'
    BY <1>1, <1>2, <1>3, <1>4 DEF Adding, Built
  <1> QED
    BY <1>4, <1>5 DEF ShmIInv

\* The last node gets its successor.
LEMMA LinkTailStep == ShmIInv /\ Shm!LinkTail => ShmIInv'
  <1> SUFFICES ASSUME ShmIInv, Shm!LinkTail PROVE ShmIInv'
    OBVIOUS
  <1> DEFINE n == head.count
  <1>1. /\ shmpc = "link" /\ ShmTypeOK /\ Adding /\ Printed /\ shmpc' = "tail"
        /\ node' = [node EXCEPT ![head.tail_id].next_id = Shm!Key]
        /\ UNCHANGED <<head, data, seen, walk>>
        /\ n > 0 /\ head.tail_id = n
    BY DEF ShmIInv, Shm!LinkTail, Adding
  <1>2. /\ n \in 0 .. ListNodes - 1 /\ Shm!Key = n + 1
        /\ Shm!Key \in Shm!Ids /\ \A k \in 1 .. n : k \in Shm!Ids /\ k # Shm!Key
        /\ n \in Shm!Ids
    BY <1>1, Places
  <1>3. node' = [node EXCEPT ![n] = [node[n] EXCEPT !.next_id = Shm!Key]]
    BY <1>1
  <1>4. /\ [node[n] EXCEPT !.next_id = Shm!Key] \in [next_id : Int, data : Int]
        /\ [node[n] EXCEPT !.next_id = Shm!Key].next_id = Shm!Key
        /\ [node[n] EXCEPT !.next_id = Shm!Key].data = node[n].data
    <2>1. node[n] \in [next_id : Int, data : Int] /\ Shm!Key \in Int
      BY <1>1, <1>2 DEF ShmTypeOK
    <2> QED
      BY <2>1
  <1>5. /\ node' \in [Shm!Ids -> [next_id : Int, data : Int]]
        /\ node'[n].next_id = Shm!Key /\ node'[n].data = node[n].data
        /\ \A k \in Shm!Ids \ {n} : node'[k] = node[k]
    BY <1>1, <1>2, <1>3, <1>4 DEF ShmTypeOK
  <1>6. ShmTypeOK' /\ Printing' /\ Printed' /\ Shm!Key' = Shm!Key
    BY <1>1, <1>5 DEF ShmTypeOK, Printing, Printed, Shm!Key
  <1>7. Built(n)'
    <2>1. \A k \in 1 .. n : node'[k].data = k - 1
      BY <1>1, <1>2, <1>5 DEF Adding, Built
    <2>2. \A k \in 1 .. n - 1 : node'[k].next_id = k + 1
      <3>1. \A k \in 1 .. n - 1 : k \in 1 .. n /\ k # n
        BY <1>2
      <3> QED
        BY <1>1, <1>2, <1>5, <3>1 DEF Adding, Built
    <2> QED
      BY <1>1, <2>1, <2>2 DEF Built
  <1>8. Adding'
    BY <1>1, <1>2, <1>5, <1>6, <1>7 DEF Adding
  <1> QED
    BY <1>6, <1>8 DEF ShmIInv

\* The new node becomes the last one.
LEMMA MoveTailStep == ShmIInv /\ Shm!MoveTail => ShmIInv'
  <1> SUFFICES ASSUME ShmIInv, Shm!MoveTail PROVE ShmIInv'
    OBVIOUS
  <1>1. /\ shmpc = "tail" /\ ShmTypeOK /\ Adding /\ Printed /\ shmpc' = "count"
        /\ head' = [head EXCEPT !.tail_id = Shm!Key]
        /\ UNCHANGED <<node, data, seen, walk>>
    BY DEF ShmIInv, Shm!MoveTail
  <1>2. Shm!Key \in Int /\ head.count > 0 /\ Shm!Key = head.count + 1
    BY <1>1, Places DEF Adding, Shm!Ids
  <1>3. /\ head' \in [first_id : Int, tail_id : Int, count : Nat]
        /\ head'.count = head.count /\ head'.first_id = head.first_id /\ head'.tail_id = Shm!Key
    BY <1>1, <1>2 DEF ShmTypeOK
  <1>4. ShmTypeOK' /\ Printing' /\ Printed' /\ Shm!Key' = Shm!Key
    BY <1>1, <1>3 DEF ShmTypeOK, Printing, Printed, Shm!Key
  <1>5. Built(head.count)'
    BY <1>1, <1>3 DEF Adding, Built
  <1>6. Adding'
    BY <1>1, <1>2, <1>3, <1>4, <1>5 DEF Adding
  <1> QED
    BY <1>4, <1>6 DEF ShmIInv

\* The list is one node longer, and printed when it has them all.
LEMMA CountStep == ShmIInv /\ Shm!Count => ShmIInv'
  <1> SUFFICES ASSUME ShmIInv, Shm!Count PROVE ShmIInv'
    OBVIOUS
  <1> DEFINE n == head.count
  <1>1. /\ shmpc = "count" /\ ShmTypeOK /\ Adding /\ Printed
        /\ head' = [head EXCEPT !.count = @ + 1]
        /\ data' = data + 1
        /\ IF data + 1 < ListNodes THEN shmpc' = "fill" /\ UNCHANGED walk
                           ELSE shmpc' = "list" /\ walk' = head.first_id
        /\ UNCHANGED <<node, seen>>
    BY DEF ShmIInv, Shm!Count
  <1>2. n \in 0 .. ListNodes - 1 /\ Shm!Key = n + 1 /\ Shm!Key \in Shm!Ids /\ n \in Nat
    BY <1>1, Places
  <1>3. /\ data = n /\ seen = <<>> /\ Built(n) /\ head.first_id = 1 /\ head.tail_id = Shm!Key
        /\ node[Shm!Key].next_id = -1 /\ node[Shm!Key].data = data
        /\ n > 0 => node[n].next_id = Shm!Key
    BY <1>1 DEF Adding
  <1>4. /\ head' \in [first_id : Int, tail_id : Int, count : Nat]
        /\ head'.count = n + 1 /\ head'.first_id = 1 /\ head'.tail_id = n + 1
    BY <1>1, <1>2, <1>3 DEF ShmTypeOK
  <1>5. /\ \A k \in 1 .. n + 1 : node'[k].data = k - 1
        /\ \A k \in 1 .. n : node'[k].next_id = k + 1
    <2>1. \A k \in 1 .. n + 1 : k \in 1 .. n \/ k = n + 1
      BY <1>2
    <2>2. \A k \in 1 .. n : k \in 1 .. n - 1 \/ k = n
      BY <1>2
    <2>3. \A k \in 1 .. n + 1 : node[k].data = k - 1
      BY <1>2, <1>3, <2>1 DEF Built
    <2>4. \A k \in 1 .. n : node[k].next_id = k + 1
      BY <1>2, <1>3, <2>2 DEF Built
    <2> QED
      BY <1>1, <2>3, <2>4
  <1>6. ShmTypeOK' /\ Printed'
    BY <1>1, <1>3, <1>4 DEF ShmTypeOK, Printed
  <1>7. CASE data + 1 < ListNodes
    <2>1. shmpc' = "fill" /\ n + 1 < ListNodes
      BY <1>1, <1>3, <1>7
    <2>2. Built(head.count)'
      BY <1>2, <1>4, <1>5 DEF Built
    <2>3. Adding'
      BY <1>1, <1>2, <1>3, <1>4, <2>1, <2>2 DEF Adding
    <2> QED
      BY <1>6, <2>1, <2>3 DEF ShmIInv, Printing
  <1>8. CASE ~ (data + 1 < ListNodes)
    <2>1. shmpc' = "list" /\ walk' = 1 /\ n + 1 = ListNodes
      BY <1>1, <1>2, <1>3, <1>8, ListNodesAssumption
    <2>2. Built(ListNodes)'
      BY <1>2, <1>5, <2>1 DEF Built
    <2>3. Len(seen') = 0 /\ node'[ListNodes].next_id = -1
      BY <1>1, <1>2, <1>3, <2>1
    <2>4. Printing'
      BY <2>1, <2>2, <2>3, ListNodesAssumption DEF Printing
    <2> QED
      BY <1>6, <2>1, <2>4 DEF ShmIInv, Adding
  <1> QED
    BY <1>7, <1>8

\* A node is printed, or the end was reached.
LEMMA ListStep == ShmIInv /\ Shm!List => ShmIInv'
  <1> SUFFICES ASSUME ShmIInv, Shm!List PROVE ShmIInv'
    OBVIOUS
  <1>1. shmpc = "list" /\ ShmTypeOK /\ Printing /\ Printed /\ UNCHANGED <<head, node, data>>
    BY DEF ShmIInv, Shm!List
  <1>2. CASE walk = -1
    <2>1. shmpc' = "ended" /\ UNCHANGED <<seen, walk>>
      BY <1>2 DEF Shm!List
    <2> QED
      BY <1>1, <2>1 DEF ShmIInv, ShmTypeOK, Adding, Printing, Printed
  <1>3. CASE walk # -1
    <2> DEFINE m == Len(seen)
    <2>1. seen' = Append(seen, node[walk].data) /\ walk' = node[walk].next_id /\ shmpc' = shmpc
      BY <1>3 DEF Shm!List
    <2>2. m \in Nat /\ m < ListNodes /\ walk = m + 1 /\ walk \in Shm!Ids
      BY <1>1, <1>3, ListNodesAssumption DEF Printing, ShmTypeOK, Shm!Ids
    <2>3. node[walk].data = m /\ node[walk].next_id \in Int
      BY <1>1, <2>2 DEF Printing, Built, Shm!Ids, ShmTypeOK
    <2>4. /\ seen' \in Seq(Int) /\ Len(seen') = m + 1 /\ seen'[m + 1] = m
          /\ \A k \in 1 .. m : seen'[k] = seen[k]
      BY <1>1, <2>1, <2>2, <2>3 DEF ShmTypeOK
    <2>5. ShmTypeOK'
      BY <1>1, <2>1, <2>3, <2>4 DEF ShmTypeOK
    <2>6. Printed'
      <3>1. \A k \in 1 .. m + 1 : k \in 1 .. m \/ k = m + 1
        BY <2>2
      <3>2. \A k \in 1 .. m + 1 : seen'[k] = k - 1
        BY <1>1, <2>2, <2>4, <3>1 DEF Printed
      <3> QED
        BY <1>1, <2>1, <2>4, <3>2 DEF Printed
    <2>7. walk' = IF m + 1 = ListNodes THEN -1 ELSE m + 2
      <3>1. CASE m + 1 = ListNodes
        BY <1>1, <2>1, <2>2, <3>1 DEF Printing
      <3>2. CASE m + 1 # ListNodes
        <4>1. m + 1 \in 1 .. ListNodes - 1
          BY <2>2, <3>2, ListNodesAssumption
        <4> QED
          BY <1>1, <2>1, <2>2, <3>2, <4>1 DEF Printing, Built
      <3> QED
        BY <3>1, <3>2
    <2>8. Printing'
      <3>1. Built(ListNodes)' /\ node'[ListNodes].next_id = -1
        BY <1>1 DEF Printing, Built
      <3>2. Len(seen') <= ListNodes /\ walk' = IF Len(seen') = ListNodes THEN -1 ELSE Len(seen') + 1
        BY <2>2, <2>4, <2>7, ListNodesAssumption
      <3> QED
        BY <3>1, <3>2 DEF Printing
    <2> QED
      BY <1>1, <2>1, <2>5, <2>6, <2>8 DEF ShmIInv, Adding
  <1> QED
    BY <1>2, <1>3

\* Every step of a run, and its end anywhere, keep the invariant.
LEMMA NextShm == ShmIInv /\ [Shm!Next]_Shm!vars => ShmIInv'
  <1> SUFFICES ASSUME ShmIInv, [Shm!Next]_Shm!vars PROVE ShmIInv'
    OBVIOUS
  <1>1. CASE Shm!Run
    BY <1>1, RunStep
  <1>2. CASE Shm!Killed
    BY <1>2, KilledStep
  <1>3. CASE Shm!Step
    BY <1>3, MakeHeadStep, FillStep, AddFirstStep, LinkTailStep, MoveTailStep, CountStep, ListStep
       DEF Shm!Step
  <1>4. CASE UNCHANGED Shm!vars
    BY <1>4 DEF Shm!vars, ShmIInv, ShmTypeOK, Adding, Printing, Printed, Built, Shm!Key
  <1> QED
    BY <1>1, <1>2, <1>3, <1>4 DEF Shm!Next

\* The segments that the current run of share_mem.c has written form its list,
\* however the runs before it ended.
THEOREM ShmInvariance == Shm!Spec => []ShmIInv
  <1>1. Shm!Init => ShmIInv
    BY InitShm
  <1>2. ShmIInv /\ [Shm!Next]_Shm!vars => ShmIInv'
    BY NextShm
  <1> QED
    BY <1>1, <1>2, PTL DEF Shm!Spec

\* A run prints the nodes it added and no others, each once and in order.
THEOREM ListExactHolds == Shm!Spec => []Shm!ListExact
  <1>1. ASSUME ShmIInv PROVE Shm!ListExact
    <2>1. ShmTypeOK /\ Adding /\ Printing /\ Printed
      BY <1>1 DEF ShmIInv
    <2>2. shmpc = "list" => Len(seen) <= ListNodes /\ (walk = -1 => Len(seen) = ListNodes)
      BY <2>1 DEF Printing, ShmTypeOK
    <2>3. shmpc \in {"fill", "link"} /\ head.count > 0 =>
            /\ node[head.tail_id].next_id = -1
            /\ \A k \in 1 .. head.count - 1 : node[k].next_id = k + 1
      BY <2>1 DEF Adding, Built
    <2> QED
      BY <2>1, <2>2, <2>3 DEF Shm!ListExact, Printed
  <1>2. Shm!Spec => []ShmIInv
    BY ShmInvariance
  <1> QED
    BY <1>1, <1>2, PTL

-----------------------------------------------------------------------------
(* The programs as MCPrograms runs them                                    *)

\* A step of MCPrograms is a step of each program, or nothing to it.
LEMMA ProgramsStep ==
  ASSUME [ProgramsNext]_allVars
  PROVE  /\ [Sems!Next]_Sems!vars
         /\ [Threads!Next]_Threads!vars
         /\ [Shm!Next]_Shm!vars
  BY DEF ProgramsNext, allVars, semVars, threadVars, shmVars, Sems!vars, Threads!vars,
         Shm!vars

\* No program lets two in at a time: neither the kernel threads nor the userland
\* programs, whose actors take turns where they are to.
THEOREM ProgramsSemaphoresExclude == ProgramsSpec => []SemaphoresExclude
  <1>1. ProgramsInit => Sems!Init /\ Threads!Init
    BY DEF ProgramsInit
  <1>2. [ProgramsNext]_allVars => [Sems!Next]_Sems!vars /\ [Threads!Next]_Threads!vars
    BY ProgramsStep
  <1> QED
    BY <1>1, <1>2, ExcludedHolds, OneHolderHolds, PTL
       DEF ProgramsSpec, Sems!Spec, Threads!Spec, SemaphoresExclude

\* A run prints what it added, in order, whatever killed runs left.
THEOREM ProgramsListExact == ProgramsSpec => []ListExact
  <1>1. ProgramsInit => Shm!Init
    BY DEF ProgramsInit
  <1>2. [ProgramsNext]_allVars => [Shm!Next]_Shm!vars
    BY ProgramsStep
  <1> QED
    BY <1>1, <1>2, ListExactHolds, PTL DEF ProgramsSpec, Shm!Spec, ListExact
=============================================================================
