--------------------------- MODULE NgxShmtxProofs ---------------------------
(***************************************************************************)
(* Proofs about the shared-memory mutex, for every set of workers and of   *)
(* pids, every spin count and every number of crashes.                     *)
(***************************************************************************)
EXTENDS NgxShmtx, TLAPS

USE DEF Free, NoPid

\* The doubling of n stays in the width of its type.
LEMMA Doubling ==
  ASSUME NEW m \in Nat \ {0}, NEW a \in Nat
  PROVE  a % m \in 0 .. m - 1
  OBVIOUS

\* Initially no process exists and the word is 0.
LEMMA InitIInv == Init => IInv
  <1> SUFFICES ASSUME Init PROVE IInv
    OBVIOUS
  <1> USE DEF Init
  <1>1. CreatedSpin \in 0 .. MinusOne
    BY SpinAssumption DEF CreatedSpin, MinusOne
  <1>2. TypeOK
    BY <1>1, BoundAssumption, SpinAssumption
    DEF TypeOK, MinusOne, Live, Attempt, TryOnce, Critical
  <1>3. PidsDistinct
    BY DEF PidsDistinct
  <1>4. HoldersOwn /\ HolderKnows /\ NoLostUpdate
    BY DEF HoldersOwn, HolderKnows, NoLostUpdate, InCS, Critical
  <1> QED
    BY <1>2, <1>3, <1>4 DEF IInv

\* Only these steps touch neither the word, nor a pid, nor the critical
\* section: a worker moves about outside it.
LEMMA OutsideStep ==
  ASSUME IInv, NEW w \in Workers, NEW l \in Live \ Critical,
         pc[w] \in Live \ Critical, Goto(w, l),
         n' \in [Workers -> 0 .. MinusOne],
         UNCHANGED <<lock, shared, spin, pid, tmp, reaped, crashes>>
  PROVE  IInv'
  <1> USE DEF IInv, Goto
  <1>1. pc' = [pc EXCEPT ![w] = l] /\ l \notin {"none", "zombie", "write"}
    BY DEF Live, Attempt, TryOnce, Critical
  <1>2. TypeOK'
    BY DEF TypeOK
  <1>3. PidsDistinct'
    BY <1>1 DEF PidsDistinct, TypeOK, Live, Attempt, TryOnce, Critical
  <1>4. HoldersOwn'
    BY <1>1 DEF HoldersOwn, InCS, TypeOK
  <1>5. HolderKnows'
    BY <1>1 DEF HolderKnows, InCS, TypeOK, Live, Attempt, TryOnce, Critical
  <1>6. NoLostUpdate'
    BY <1>1 DEF NoLostUpdate, TypeOK
  <1> QED
    BY <1>2, <1>3, <1>4, <1>5, <1>6

\* An attempt that fails leaves the worker outside the critical section, with
\* an n of the width of its type.
LEMMA MissedStep ==
  ASSUME IInv, NEW w \in Workers, Missed(w),
         pc[w] \in Attempt \cup TryOnce
  PROVE  /\ \E l \in Live \ Critical : Goto(w, l)
         /\ n' \in [Workers -> 0 .. MinusOne]
  <1> USE DEF IInv, TypeOK
  <1>1. /\ {"spin_test", "yield", "idle"} \subseteq Live \ Critical
    BY DEF Live, Attempt, TryOnce, Critical
  <1>2. (2 * n[w]) % Word \in 0 .. MinusOne
    <2>1. Word \in Nat \ {0} /\ MinusOne = Word - 1
      BY SpinAssumption DEF MinusOne
    <2>2. 2 * n[w] \in Nat
      BY <2>1
    <2> QED
      BY <2>1, <2>2, Doubling
  <1>3. ASSUME NEW i \in 0 .. MinusOne \cup {1, spin}, SpinFrom(w, i)
        PROVE  /\ \E l \in Live \ Critical : Goto(w, l)
               /\ n' \in [Workers -> 0 .. MinusOne]
    BY <1>1, <1>3, SpinAssumption DEF SpinFrom, MinusOne
  <1> QED
    BY <1>1, <1>2, <1>3 DEF Missed

\* Every step preserves the inductive invariant.
LEMMA NextIInv == IInv /\ [Next]_vars => IInv'
  <1> SUFFICES ASSUME IInv, [Next]_vars PROVE IInv'
    OBVIOUS
  <1> USE DEF IInv
  <1>a. /\ {"lock_test", "try_test", "idle", "lock_cas", "spin_cas", "try_cas"}
             \subseteq Live \ Critical
        /\ "unlock" \notin {"none", "zombie", "write"}
    BY DEF Live, Attempt, TryOnce, Critical
  <1>1. ASSUME NEW w \in Workers, BeginLock(w) PROVE IInv'
    BY <1>1, <1>a, OutsideStep DEF BeginLock, TypeOK
  <1>2. ASSUME NEW w \in Workers, BeginTrylock(w) PROVE IInv'
    BY <1>2, <1>a, OutsideStep DEF BeginTrylock, TypeOK
  <1>3. ASSUME NEW w \in Workers, Test(w) PROVE IInv'
    <2>1. pc[w] \in Live \ Critical /\ pc[w] \in Attempt \cup TryOnce
      BY <1>3 DEF Test, Live, Attempt, TryOnce, Critical
    <2>2. \E l \in Live \ Critical : Goto(w, l)
      BY <1>3, <1>a, <2>1, MissedStep DEF Test, AfterTest
    <2>3. n' \in [Workers -> 0 .. MinusOne]
      BY <1>3, <2>1, MissedStep DEF Test, TypeOK
    <2> QED
      BY <1>3, <2>1, <2>2, <2>3, OutsideStep DEF Test
  <1>4. ASSUME NEW w \in Workers, Cas(w) PROVE IInv'
    <2>1. pc[w] \in Live \ Critical /\ pc[w] \in Attempt \cup TryOnce
      BY <1>4 DEF Cas, Live, Attempt, TryOnce, Critical
    <2>2. CASE Missed(w) /\ UNCHANGED lock
      BY <1>4, <2>1, <2>2, MissedStep, OutsideStep DEF Cas
    <2>3. CASE CmpSet(Free, pid[w]) /\ Goto(w, "read")
                 /\ n' = [n EXCEPT ![w] = 0]
      <3> USE DEF CmpSet, Goto, Cas
      <3>0. pid[w] \in Pids
        BY <2>1, PidsAssumption
        DEF PidsDistinct, TypeOK, Live, Attempt, TryOnce, Critical
      <3>1. TypeOK'
        BY <1>4, <2>3, <3>0, SpinAssumption
        DEF TypeOK, MinusOne, Live, Attempt, TryOnce, Critical
      <3>2. PidsDistinct'
        BY <1>4, <2>1, <2>3
        DEF PidsDistinct, TypeOK, Live, Attempt, TryOnce, Critical
      <3>3. HoldersOwn'
        BY <1>4, <2>3, <3>0, PidsAssumption
        DEF HoldersOwn, InCS, TypeOK, PidsDistinct, Critical
      <3>4. HolderKnows'
        BY <1>4, <2>3 DEF HolderKnows, InCS, TypeOK, Critical
      <3>5. NoLostUpdate'
        BY <1>4, <2>3 DEF NoLostUpdate, TypeOK
      <3> QED
        BY <3>1, <3>2, <3>3, <3>4, <3>5
    <2> QED
      BY <1>4, <2>2, <2>3 DEF Cas
  <1>5. ASSUME NEW w \in Workers, Yield(w) PROVE IInv'
    <2>1. pc[w] \in Live \ Critical
      BY <1>5 DEF Yield, Live, Attempt, TryOnce, Critical
    <2> QED
      BY <1>5, <1>a, <2>1, OutsideStep DEF Yield, TypeOK
  <1>6. ASSUME NEW w \in Workers, ReadShared(w) PROVE IInv'
    <2> USE DEF ReadShared, Goto
    <2>1. TypeOK'
      BY <1>6 DEF TypeOK, Live, Critical
    <2>2. PidsDistinct'
      BY <1>6 DEF PidsDistinct, TypeOK
    <2>3. HoldersOwn' /\ HolderKnows'
      BY <1>6 DEF HoldersOwn, HolderKnows, InCS, TypeOK, Critical
    <2>4. NoLostUpdate'
      BY <1>6 DEF NoLostUpdate, TypeOK
    <2> QED
      BY <2>1, <2>2, <2>3, <2>4
  <1>7. ASSUME NEW w \in Workers, WriteShared(w) PROVE IInv'
    <2> USE DEF WriteShared, Goto
    <2>1. TypeOK'
      <3>1. shared' \in 0 .. CountMod - 1
        <4>1. tmp[w] + 1 \in Nat
          BY BoundAssumption DEF TypeOK
        <4> QED
          BY <1>7, <4>1, Doubling, BoundAssumption
      <3> QED
        BY <1>7, <3>1, BoundAssumption DEF TypeOK, Live, Critical
    <2>2. PidsDistinct'
      BY <1>7 DEF PidsDistinct, TypeOK
    <2>3. HoldersOwn' /\ HolderKnows'
      BY <1>7 DEF HoldersOwn, HolderKnows, InCS, TypeOK, Critical
    <2>4. NoLostUpdate'
      <3> SUFFICES ASSUME NEW v \in Workers, pc'[v] = "write" PROVE FALSE
        BY DEF NoLostUpdate
      <3>1. v # w /\ pc[v] = "write"
        BY <1>7 DEF TypeOK
      <3> QED
        BY <1>7, <3>1, PidsAssumption
        DEF HoldersOwn, InCS, Critical, PidsDistinct, TypeOK
    <2> QED
      BY <2>1, <2>2, <2>3, <2>4
  <1>8. ASSUME NEW w \in Workers, Unlock(w) PROVE IInv'
    <2> USE DEF Unlock, Goto, CmpSet
    <2>0. pid[w] \in Pids /\ pid[w] # 0
      BY <1>8, PidsAssumption DEF PidsDistinct, TypeOK, Critical
    <2>1. TypeOK'
      BY <1>8 DEF TypeOK, Live
    <2>2. PidsDistinct'
      BY <1>8 DEF PidsDistinct, TypeOK
    <2>3. HoldersOwn'
      BY <1>8, <2>0 DEF HoldersOwn, InCS, PidsDistinct, TypeOK, Critical
    <2>4. HolderKnows'
      BY <1>8, <2>0 DEF HolderKnows, InCS, PidsDistinct, TypeOK, Critical
    <2>5. NoLostUpdate'
      BY <1>8 DEF NoLostUpdate, TypeOK
    <2> QED
      BY <2>1, <2>2, <2>3, <2>4, <2>5
  <1>9. ASSUME NEW w \in Workers, Crash(w) PROVE IInv'
    <2> USE DEF Crash, Goto
    <2>1. TypeOK'
      BY <1>9, BoundAssumption DEF TypeOK
    <2>2. PidsDistinct'
      BY <1>9 DEF PidsDistinct, TypeOK, Alive, Live, Attempt, TryOnce, Critical
    <2>3. HoldersOwn' /\ HolderKnows'
      BY <1>9 DEF HoldersOwn, HolderKnows, InCS, TypeOK, Critical
    <2>4. NoLostUpdate'
      BY <1>9 DEF NoLostUpdate, TypeOK
    <2> QED
      BY <2>1, <2>2, <2>3, <2>4
  <1>10. ASSUME NEW w \in Workers, Fork(w) PROVE IInv'
    <2> USE DEF Fork, Goto
    <2>0. PICK p \in Pids \ UsedPids : pid' = [pid EXCEPT ![w] = p]
      BY <1>10
    <2>1. p # 0 /\ \A v \in Workers : pc[v] # "none" => pid[v] # p
      BY PidsAssumption DEF UsedPids
    <2>2. TypeOK'
      BY <1>10, <2>0 DEF TypeOK, Live
    <2>3. PidsDistinct'
      BY <1>10, <2>0, <2>1 DEF PidsDistinct, TypeOK
    <2>4. HoldersOwn'
      BY <1>10, <2>0 DEF HoldersOwn, InCS, TypeOK, Critical
    <2>5. HolderKnows'
      BY <1>10, <2>0 DEF HolderKnows, InCS, TypeOK, PidsDistinct, Critical
    <2>6. NoLostUpdate'
      BY <1>10 DEF NoLostUpdate, TypeOK
    <2> QED
      BY <2>2, <2>3, <2>4, <2>5, <2>6
  <1>11. ASSUME NEW w \in Workers, Wait(w) PROVE IInv'
    <2> USE DEF Wait, Goto
    <2>1. TypeOK'
      BY <1>11, SpinAssumption, BoundAssumption DEF TypeOK, MinusOne
    <2>2. PidsDistinct'
      BY <1>11 DEF PidsDistinct, TypeOK
    <2>3. HoldersOwn'
      BY <1>11 DEF HoldersOwn, InCS, TypeOK, Critical
    <2>4. HolderKnows'
      BY <1>11 DEF HolderKnows, InCS, TypeOK, Critical
    <2>5. NoLostUpdate'
      BY <1>11 DEF NoLostUpdate, TypeOK
    <2> QED
      BY <2>1, <2>2, <2>3, <2>4, <2>5
  <1>12. ASSUME ForceUnlock PROVE IInv'
    <2> USE DEF ForceUnlock, CmpSet
    <2>1. TypeOK'
      BY <1>12 DEF TypeOK
    <2>2. PidsDistinct'
      BY <1>12 DEF PidsDistinct
    <2>3. HoldersOwn'
      BY <1>12 DEF HoldersOwn, InCS, PidsDistinct
    <2>4. HolderKnows'
      BY <1>12 DEF HolderKnows, InCS
    <2>5. NoLostUpdate'
      BY <1>12 DEF NoLostUpdate
    <2> QED
      BY <2>1, <2>2, <2>3, <2>4, <2>5
  <1>13. CASE UNCHANGED vars
    BY <1>13 DEF vars, TypeOK, PidsDistinct, HoldersOwn, HolderKnows,
                 NoLostUpdate, InCS
  <1> QED
    BY <1>1, <1>2, <1>3, <1>4, <1>5, <1>6, <1>7, <1>8, <1>9, <1>10, <1>11,
       <1>12, <1>13 DEF Next, WorkerStep, Supervise

\* The conjunction of the safety invariants holds in every reachable state,
\* for any number of workers, pids, crashes and any spin count.
THEOREM Invariance == Spec => []IInv
  <1>1. Init => IInv
    BY InitIInv
  <1>2. IInv /\ [Next]_vars => IInv'
    BY NextIInv
  <1> QED
    BY <1>1, <1>2, PTL DEF Spec

\* Every variable keeps its type.
THEOREM TypeCorrect == Spec => []TypeOK
  BY Invariance, PTL DEF IInv

\* At most one worker is between ngx_shmtx_lock and ngx_shmtx_unlock.
THEOREM Mutex == Spec => []MutualExclusion
  <1>1. IInv => MutualExclusion
    <2> SUFFICES ASSUME IInv, NEW v \in Workers, NEW w \in Workers,
                        InCS(v), InCS(w)
                 PROVE  v = w
      BY DEF MutualExclusion
    <2>1. pid[v] = pid[w] /\ pid[v] # 0
      BY DEF IInv, HoldersOwn, PidsDistinct, InCS, Critical
    <2> QED
      BY <2>1 DEF IInv, PidsDistinct
  <1> QED
    BY <1>1, Invariance, PTL

\* No increment of the shared counter is lost.
THEOREM LostUpdateFree == Spec => []NoLostUpdate
  BY Invariance, PTL DEF IInv

\* The word always names a process that holds the lock, or died holding it.
THEOREM HolderIsKnown == Spec => []HolderKnows
  BY Invariance, PTL DEF IInv

\* The word goes from a process to another only through 0, and to 0 only by
\* its owner or after the owner was waited for.
THEOREM OwnerReleasesHolds == Spec => OwnerReleases
  <1> DEFINE Step == lock # Free /\ lock' # lock =>
                       /\ lock' = Free
                       /\ \/ lock = reaped
                          \/ \E w \in Workers : /\ pid[w] = lock
                                                /\ pc[w] = "unlock"
                                                /\ pc'[w] = "idle"
  <1>1. IInv /\ [Next]_vars => Step
    <2> SUFFICES ASSUME IInv, [Next]_vars, lock # Free, lock' # lock
                 PROVE  /\ lock' = Free
                        /\ \/ lock = reaped
                           \/ \E w \in Workers : /\ pid[w] = lock
                                                 /\ pc[w] = "unlock"
                                                 /\ pc'[w] = "idle"
      OBVIOUS
    <2>1. CASE ForceUnlock
      BY <2>1 DEF ForceUnlock, CmpSet
    <2>2. ASSUME NEW w \in Workers, Unlock(w)
          PROVE  pid[w] = lock /\ lock' = Free /\ pc[w] = "unlock" /\ pc'[w] = "idle"
      <3>1. pid[w] = lock /\ lock' = Free /\ pc'[w] = "idle"
        BY <2>2 DEF Unlock, CmpSet, Goto, IInv, TypeOK
      <3>2. pc[w] # "idle"
        BY <3>1, PidsAssumption
        DEF IInv, HolderKnows, PidsDistinct, InCS, Critical, TypeOK
      <3> QED
        BY <2>2, <3>1, <3>2 DEF Unlock
    <2>3. ASSUME NEW w \in Workers,
                 \/ BeginLock(w) \/ BeginTrylock(w) \/ Test(w) \/ Cas(w)
                 \/ Yield(w) \/ ReadShared(w) \/ WriteShared(w)
                 \/ Crash(w) \/ Wait(w) \/ Fork(w)
          PROVE  FALSE
      BY <2>3 DEF BeginLock, BeginTrylock, Test, Cas, Yield, ReadShared,
                  WriteShared, Crash, Wait, Fork, CmpSet
    <2>4. CASE UNCHANGED vars
      BY <2>4 DEF vars
    <2> QED
      BY <2>1, <2>2, <2>3, <2>4 DEF Next, WorkerStep, Supervise
  <1>2. Spec => [][Step]_vars
    BY <1>1, Invariance, PTL DEF Spec
  <1> QED
    BY <1>2 DEF OwnerReleases

-----------------------------------------------------------------------------
(* The mutex implements PidLock                                            *)

\* A step that moves a worker between two places where it is alive leaves the
\* set of living pids alone.
LEMMA AliveUnchanged ==
  ASSUME IInv, NEW w \in Workers, NEW l \in Live, Alive(w), Goto(w, l),
         UNCHANGED pid
  PROVE  AlivePids' = AlivePids
  BY DEF AlivePids, Alive, Goto, IInv, TypeOK

\* Initially nobody holds the lock and nobody lives.
LEMMA AbstractInit == Init => Abstract!Init
  BY DEF Init, Abstract!Init, AlivePids, Alive, Live, Attempt, TryOnce, Critical

\* Every step is a step of PidLock or leaves its two variables alone.
LEMMA AbstractStep == IInv /\ [Next]_vars => [Abstract!Next]_(Abstract!vars)
  <1> SUFFICES ASSUME IInv, [Next]_vars PROVE [Abstract!Next]_(Abstract!vars)
    OBVIOUS
  <1> USE DEF Abstract!vars
  <1>l. {"idle", "lock_test", "lock_cas", "spin_test", "spin_cas", "yield",
         "try_test", "try_cas", "read", "write", "unlock"} = Live
    BY DEF Live, Attempt, TryOnce, Critical
  <1>p. \A w \in Workers : Alive(w) => pid[w] \in Pids /\ pid[w] \in AlivePids
    BY <1>l DEF Alive, AlivePids, IInv, PidsDistinct, TypeOK
  <1>1. ASSUME NEW w \in Workers,
               \/ BeginLock(w) \/ BeginTrylock(w) \/ Test(w)
               \/ Yield(w) \/ ReadShared(w) \/ WriteShared(w)
        PROVE  UNCHANGED <<lock, AlivePids>>
    <2>1. Alive(w) /\ UNCHANGED <<lock, pid>>
      BY <1>1, <1>l DEF Alive, BeginLock, BeginTrylock, Test, Yield, ReadShared,
                        WriteShared
    <2>2. \E l \in Live : Goto(w, l)
      BY <1>1, <1>l DEF BeginLock, BeginTrylock, Test, Yield, ReadShared,
                        WriteShared, AfterTest, Missed, SpinFrom
    <2> QED
      BY <2>1, <2>2, AliveUnchanged
  <1>2. ASSUME NEW w \in Workers, Cas(w)
        PROVE  Abstract!Acquire(pid[w]) \/ UNCHANGED <<lock, AlivePids>>
    <2>1. Alive(w) /\ UNCHANGED pid
      BY <1>2, <1>l DEF Alive, Cas
    <2>2. \E l \in Live : Goto(w, l)
      BY <1>2, <1>l DEF Cas, Missed, SpinFrom
    <2> QED
      BY <1>2, <1>p, <2>1, <2>2, AliveUnchanged
      DEF Cas, CmpSet, Abstract!Acquire
  <1>3. ASSUME NEW w \in Workers, Unlock(w)
        PROVE  Abstract!Release(pid[w]) \/ UNCHANGED <<lock, AlivePids>>
    <2>1. Alive(w) /\ UNCHANGED pid /\ Goto(w, "idle")
      BY <1>3, <1>l DEF Alive, Unlock
    <2> QED
      BY <1>3, <1>l, <1>p, <2>1, AliveUnchanged
      DEF Unlock, CmpSet, Abstract!Release
  <1>4. ASSUME NEW w \in Workers, Crash(w)
        PROVE  Abstract!Die(pid[w])
    <2>1. \A v \in Workers : Alive(v)' <=> Alive(v) /\ v # w
      BY <1>4, <1>l DEF Crash, Goto, Alive, IInv, TypeOK
    <2>2. \A v \in Workers : Alive(v) /\ v # w => pid[v] # pid[w]
      BY <1>4, <1>l DEF Crash, Alive, IInv, PidsDistinct
    <2>3. AlivePids' = AlivePids \ {pid[w]}
      BY <1>4, <2>1, <2>2 DEF Crash, AlivePids
    <2> QED
      BY <1>4, <1>p, <2>3 DEF Crash, Abstract!Die
  <1>5. ASSUME NEW w \in Workers, Fork(w)
        PROVE  \E p \in Pids : Abstract!Born(p)
    <2>0. PICK p \in Pids \ UsedPids : pid' = [pid EXCEPT ![w] = p]
      BY <1>5 DEF Fork
    <2>1. \A v \in Workers : Alive(v)' <=> Alive(v) \/ v = w
      BY <1>5, <1>l DEF Fork, Goto, Alive, IInv, TypeOK
    <2>2. ~Alive(w)
      BY <1>5, <1>l DEF Fork, Alive
    <2>3. AlivePids' = AlivePids \cup {p}
      BY <2>0, <2>1, <2>2 DEF AlivePids, IInv, TypeOK
    <2>4. p \notin AlivePids
      BY <1>l DEF AlivePids, UsedPids, Alive
    <2>5. p # lock
      <3>1. p # 0 /\ \A v \in Workers : pc[v] # "none" => pid[v] # p
        BY PidsAssumption DEF UsedPids
      <3> QED
        BY <1>5, <3>1 DEF Fork, IInv, HolderKnows, InCS, Critical
    <2> QED
      BY <1>5, <2>3, <2>4, <2>5 DEF Fork, Abstract!Born
  <1>6. ASSUME NEW w \in Workers, Wait(w)
        PROVE  UNCHANGED <<lock, AlivePids>>
    <2>1. \A v \in Workers : Alive(v)' <=> Alive(v)
      BY <1>6, <1>l DEF Wait, Goto, Alive, IInv, TypeOK
    <2>2. \A v \in Workers : Alive(v) => v # w /\ pid'[v] = pid[v]
      BY <1>6, <1>l DEF Wait, Alive, IInv, TypeOK
    <2> QED
      BY <1>6, <2>1, <2>2 DEF Wait, AlivePids
  <1>7. ASSUME ForceUnlock
        PROVE  Abstract!Recover \/ UNCHANGED <<lock, AlivePids>>
    <2>1. AlivePids' = AlivePids
      BY <1>7 DEF ForceUnlock, AlivePids, Alive
    <2>2. reaped \notin AlivePids
      BY <1>7 DEF ForceUnlock, AlivePids, IInv, PidsDistinct
    <2> QED
      BY <1>7, <2>1, <2>2 DEF ForceUnlock, CmpSet, Abstract!Recover
  <1>8. CASE UNCHANGED vars
    BY <1>8 DEF vars, AlivePids, Alive
  <1> QED
    <2>1. ASSUME NEW w \in Workers PROVE Alive(w) => pid[w] \in Pids
      BY <1>p
    <2>2. ASSUME NEW w \in Workers, Cas(w) \/ Unlock(w) \/ Crash(w)
          PROVE  pid[w] \in Pids
      BY <2>1, <2>2, <1>l DEF Cas, Unlock, Crash, Alive
    <2> QED
      BY <1>1, <1>2, <1>3, <1>4, <1>5, <1>6, <1>7, <1>8, <2>2
      DEF Next, WorkerStep, Supervise, Abstract!Next

\* ngx_shmtx implements the lock with a named owner.
THEOREM Refinement == Spec => ImplementsPidLock
  BY AbstractInit, AbstractStep, Invariance, PTL
  DEF Spec, ImplementsPidLock, Abstract!Spec
=============================================================================
