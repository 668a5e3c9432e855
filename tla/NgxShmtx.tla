------------------------------ MODULE NgxShmtx ------------------------------
(***************************************************************************)
(* The spin mutex of c/linux/userland/ngx_shmtx: one word in memory shared *)
(* by several processes, 0 when free and otherwise the pid of the holder.  *)
(*                                                                         *)
(* The processes are the workers of the file's self-test (they take the    *)
(* lock, increment a shared counter and release it), extended with the two *)
(* entry points the self-test does not call, ngx_shmtx_trylock and         *)
(* ngx_shmtx_force_unlock.  force_unlock exists for the process that reaps *)
(* dead workers; that process is the Supervisor below, which is not part   *)
(* of the repository.                                                      *)
(*                                                                         *)
(* The test of the word and the compare-and-swap that follows it are two   *)
(* steps, as are the read and the write of the shared counter: the         *)
(* processes interleave between any two of them, and any of them can die   *)
(* between any two.                                                        *)
(***************************************************************************)
EXTENDS Naturals, FiniteSets

CONSTANTS Workers,      \* the worker processes
          Pids,         \* the pids the kernel may hand out
          Width,        \* bits of ngx_uint_t (64 in the build, small here)
          SpinArg,      \* mtx->spin as the caller of create left it
          SpinDefault,  \* the value create installs (2048)
          CountMod,     \* the shared counter wraps here (bound)
          MaxCrashes    \* how many workers may die (bound)

Free == 0
NoPid == 0
Word == 2 ^ Width
MinusOne == Word - 1

ASSUME PidsAssumption == Pids \subseteq Nat /\ NoPid \notin Pids
ASSUME SpinAssumption == /\ Width \in Nat
                         /\ Word \in Nat \ {0}
                         /\ {SpinArg, SpinDefault} \subseteq 0 .. MinusOne
ASSUME BoundAssumption == CountMod \in Nat \ {0} /\ MaxCrashes \in Nat

VARIABLES lock,         \* *mtx->lock, in shared memory
          shared,       \* *shared, the counter the lock protects
          spin,         \* mtx->spin, inherited by every worker through fork
          pc,           \* where each worker is
          pid,          \* getpid() of each worker
          n,            \* the local n of ngx_shmtx_lock, 0 outside its loop
          tmp,          \* the register that holds *shared during (*shared)++,
                        \* 0 outside it
          reaped,       \* pid returned by wait whose locks are not yet freed
          crashes       \* how many workers have died (bound)

vars == <<lock, shared, spin, pc, pid, n, tmp, reaped, crashes>>

-----------------------------------------------------------------------------
Attempt  == {"lock_test", "lock_cas", "spin_test", "spin_cas", "yield"}
TryOnce  == {"try_test", "try_cas"}
Critical == {"read", "write", "unlock"}
Live     == {"idle"} \cup Attempt \cup TryOnce \cup Critical

InCS(w)  == pc[w] \in Critical
Alive(w) == pc[w] \in Live
AlivePids == {pid[w] : w \in {x \in Workers : Alive(x)}}

\* Mutant: a pid is free again as soon as the process that had it is dead.
UsedPidsAlive == AlivePids

\* A pid is taken until the dead process that had it has been waited for.
UsedPids == {pid[w] : w \in {x \in Workers : pc[x] # "none"}}

Goto(w, l) == pc' = [pc EXCEPT ![w] = l]

\* ngx_shmtx_create: -1 is kept, everything else becomes the default.
CreatedSpin == IF SpinArg = MinusOne THEN SpinArg ELSE SpinDefault

Init == /\ lock = Free
        /\ shared = 0
        /\ spin = CreatedSpin
        /\ pc = [w \in Workers |-> "none"]
        /\ pid = [w \in Workers |-> NoPid]
        /\ n = [w \in Workers |-> 0]
        /\ tmp = [w \in Workers |-> 0]
        /\ reaped = NoPid
        /\ crashes = 0

-----------------------------------------------------------------------------
(* The steps of a worker                                                   *)

BeginLock(w) ==
  /\ pc[w] = "idle"
  /\ Goto(w, "lock_test")
  /\ UNCHANGED <<lock, shared, spin, pid, n, tmp, reaped, crashes>>

BeginTrylock(w) ==
  /\ pc[w] = "idle"
  /\ Goto(w, "try_test")
  /\ UNCHANGED <<lock, shared, spin, pid, n, tmp, reaped, crashes>>

\* The head of the loop "for (n = 1; n < mtx->spin; n <<= 1)", with n = i.
SpinFrom(w, i) ==
  \/ i < spin /\ n' = [n EXCEPT ![w] = i] /\ Goto(w, "spin_test")
  \/ i >= spin /\ n' = [n EXCEPT ![w] = 0] /\ Goto(w, "yield")

\* Mutant: the spin loop starts from n = 0, which doubling never changes.
MissedFromZero(w) ==
  \/ pc[w] \in {"lock_test", "lock_cas"} /\ SpinFrom(w, 0)
  \/ pc[w] \in {"lock_test", "lock_cas"} /\ SpinFrom(w, spin)
  \/ pc[w] \in {"spin_test", "spin_cas"} /\ SpinFrom(w, (2 * n[w]) % Word)
  \/ pc[w] \in TryOnce /\ Goto(w, "idle") /\ UNCHANGED n

\* Control after an attempt that did not get the lock.  ngx_ncpu is a local
\* that is read before it is written, so the outcome of "ngx_ncpu > 1" is
\* either; n doubles in the width of its type, and so may come back to 0.
Missed(w) ==
  \/ /\ pc[w] \in {"lock_test", "lock_cas"}
     /\ SpinFrom(w, 1)
  \/ /\ pc[w] \in {"lock_test", "lock_cas"}
     /\ SpinFrom(w, spin)
  \/ /\ pc[w] \in {"spin_test", "spin_cas"}
     /\ SpinFrom(w, (2 * n[w]) % Word)
  \/ /\ pc[w] \in TryOnce
     /\ Goto(w, "idle")
     /\ UNCHANGED n

AfterTest(l) == CASE l = "lock_test" -> "lock_cas"
                  [] l = "spin_test" -> "spin_cas"
                  [] OTHER -> "try_cas"

\* The read of the word, the left operand of &&.
Test(w) ==
  /\ pc[w] \in {"lock_test", "spin_test", "try_test"}
  /\ \/ lock = Free /\ Goto(w, AfterTest(pc[w])) /\ UNCHANGED n
     \/ lock # Free /\ Missed(w)
  /\ UNCHANGED <<lock, shared, spin, pid, tmp, reaped, crashes>>

\* Mutant: the word is stored without being compared.
StoreOnly(old, set) == lock' = set

\* ngx_atomic_cmp_set(mtx->lock, old, set) when it succeeds.
CmpSet(old, set) == lock = old /\ lock' = set

\* The compare-and-swap, the right operand of &&.
Cas(w) ==
  /\ pc[w] \in {"lock_cas", "spin_cas", "try_cas"}
  /\ \/ CmpSet(Free, pid[w]) /\ Goto(w, "read") /\ n' = [n EXCEPT ![w] = 0]
     \/ lock # Free /\ Missed(w) /\ UNCHANGED lock
  /\ UNCHANGED <<shared, spin, pid, tmp, reaped, crashes>>

Yield(w) ==
  /\ pc[w] = "yield"
  /\ Goto(w, "lock_test")
  /\ UNCHANGED <<lock, shared, spin, pid, n, tmp, reaped, crashes>>

\* (*shared)++ is a load and a store.
ReadShared(w) ==
  /\ pc[w] = "read"
  /\ tmp' = [tmp EXCEPT ![w] = shared]
  /\ Goto(w, "write")
  /\ UNCHANGED <<lock, shared, spin, pid, n, reaped, crashes>>

WriteShared(w) ==
  /\ pc[w] = "write"
  /\ shared' = (tmp[w] + 1) % CountMod
  /\ tmp' = [tmp EXCEPT ![w] = 0]
  /\ Goto(w, "unlock")
  /\ UNCHANGED <<lock, spin, pid, n, reaped, crashes>>

\* Mutant: the arguments of the compare-and-swap are swapped.
UnlockSwapped(w) ==
  /\ pc[w] \in {"unlock", "idle"}
  /\ CmpSet(Free, pid[w]) \/ (lock # Free /\ UNCHANGED lock)
  /\ Goto(w, "idle")
  /\ UNCHANGED <<shared, spin, pid, n, tmp, reaped, crashes>>

\* ngx_shmtx_unlock frees the word only if it still names the caller; it may
\* also be called by a worker that does not hold the lock, and then does
\* nothing.
Unlock(w) ==
  /\ pc[w] \in {"unlock", "idle"}
  /\ \/ CmpSet(pid[w], Free)
     \/ lock # pid[w] /\ UNCHANGED lock
  /\ Goto(w, "idle")
  /\ UNCHANGED <<shared, spin, pid, n, tmp, reaped, crashes>>

\* A worker dies, wherever it is: the word and the counter stay as they are.
Crash(w) ==
  /\ Alive(w)
  /\ crashes < MaxCrashes
  /\ crashes' = crashes + 1
  /\ Goto(w, "zombie")
  /\ UNCHANGED <<lock, shared, spin, pid, n, tmp, reaped>>

-----------------------------------------------------------------------------
(* The process that forks the workers and waits for them                   *)

\* Mutant: a dead worker is replaced before its lock is freed.
ForkEarly(w) ==
  /\ pc[w] = "none"
  /\ \E p \in Pids \ UsedPids : pid' = [pid EXCEPT ![w] = p]
  /\ Goto(w, "idle")
  /\ UNCHANGED <<lock, shared, spin, n, tmp, reaped, crashes>>

\* fork(): any pid no process has.
Fork(w) ==
  /\ pc[w] = "none"
  /\ reaped = NoPid
  /\ \E p \in Pids \ UsedPids : pid' = [pid EXCEPT ![w] = p]
  /\ Goto(w, "idle")
  /\ UNCHANGED <<lock, shared, spin, n, tmp, reaped, crashes>>

\* wait() returns the pid of a dead worker and makes it available again.
Wait(w) ==
  /\ pc[w] = "zombie"
  /\ reaped = NoPid
  /\ reaped' = pid[w]
  /\ pid' = [pid EXCEPT ![w] = NoPid]
  /\ n' = [n EXCEPT ![w] = 0]
  /\ tmp' = [tmp EXCEPT ![w] = 0]
  /\ Goto(w, "none")
  /\ UNCHANGED <<lock, shared, spin, crashes>>

\* Mutant: the lock of whoever holds it is freed.
ForceUnlockAny ==
  /\ reaped # NoPid
  /\ lock' = Free
  /\ reaped' = NoPid
  /\ UNCHANGED <<shared, spin, pc, pid, n, tmp, crashes>>

\* Mutant: the lock of a dead worker is left as it is.
ForceUnlockNothing ==
  /\ reaped # NoPid
  /\ reaped' = NoPid
  /\ UNCHANGED <<lock, shared, spin, pc, pid, n, tmp, crashes>>

\* ngx_shmtx_force_unlock(mtx, pid) for the pid just waited for, before the
\* worker is replaced.
ForceUnlock ==
  /\ reaped # NoPid
  /\ \/ CmpSet(reaped, Free)
     \/ lock # reaped /\ UNCHANGED lock
  /\ reaped' = NoPid
  /\ UNCHANGED <<shared, spin, pc, pid, n, tmp, crashes>>

-----------------------------------------------------------------------------
WorkerStep(w) == \/ BeginLock(w) \/ BeginTrylock(w) \/ Test(w) \/ Cas(w)
                 \/ Yield(w) \/ ReadShared(w) \/ WriteShared(w) \/ Unlock(w)

Supervise == ForceUnlock \/ \E w \in Workers : Wait(w) \/ Fork(w)

Next == \/ \E w \in Workers : WorkerStep(w) \/ Crash(w)
        \/ Supervise

Spec == Init /\ [][Next]_vars

\* The operating system keeps running every live process.
Fairness == /\ \A w \in Workers : WF_vars(WorkerStep(w))
            /\ WF_vars(Supervise)

FairSpec == Spec /\ Fairness

-----------------------------------------------------------------------------
(* Properties                                                              *)

TypeOK == /\ lock \in Pids \cup {Free}
          /\ shared \in 0 .. CountMod - 1
          /\ spin \in 0 .. MinusOne
          /\ pc \in [Workers -> Live \cup {"none", "zombie"}]
          /\ pid \in [Workers -> Pids \cup {NoPid}]
          /\ n \in [Workers -> 0 .. MinusOne]
          /\ tmp \in [Workers -> 0 .. CountMod - 1]
          /\ reaped \in Pids \cup {NoPid}
          /\ crashes \in 0 .. MaxCrashes

\* No two processes are between a successful ngx_shmtx_lock (or trylock) and
\* the end of ngx_shmtx_unlock at the same time, whoever died holding the lock
\* and whichever pid was handed out again.
MutualExclusion == \A v, w \in Workers : InCS(v) /\ InCS(w) => v = w

\* (*shared)++ never writes back a stale value: between the load and the store
\* of a worker nobody else stores.
NoLostUpdate == \A w \in Workers : pc[w] = "write" => tmp[w] = shared

\* The word names a process that holds the lock or that died holding it and
\* was not yet cleaned up: it never names a process that does not know it owns
\* the lock (such a lock would be held for ever).
HolderKnows ==
  lock # Free =>
    \/ lock = reaped
    \/ \E w \in Workers : pid[w] = lock /\ (InCS(w) \/ pc[w] = "zombie")

\* A pid names one process: the workers, dead ones not yet waited for
\* included, have different pids, and the pid just waited for is nobody's.
PidsDistinct ==
  /\ \A w \in Workers : (pc[w] = "none") <=> (pid[w] = NoPid)
  /\ \A v, w \in Workers : pid[v] = pid[w] /\ pid[v] # NoPid => v = w
  /\ \A w \in Workers : reaped # NoPid => reaped # pid[w]

\* A worker in the critical section holds the lock.
HoldersOwn == \A w \in Workers : InCS(w) => lock = pid[w]

\* The inductive invariant behind the safety properties.
IInv == /\ TypeOK
        /\ PidsDistinct
        /\ HoldersOwn
        /\ HolderKnows
        /\ NoLostUpdate

\* The word goes from one process to another only through 0, and it goes to 0
\* only by the unlock of its owner or after its owner was waited for.
OwnerReleases ==
  [][lock # Free /\ lock' # lock =>
       /\ lock' = Free
       /\ \/ lock = reaped
          \/ \E w \in Workers : /\ pid[w] = lock
                                /\ pc[w] = "unlock"
                                /\ pc'[w] = "idle"]_vars

\* With the default spin count the doubling loop ends: a worker that spins gets
\* the lock, dies, or gives the processor away (n reaches mtx->spin before it
\* wraps around to 0).
SpinEnds ==
  \A w \in Workers :
    pc[w] \in {"spin_test", "spin_cas"} ~> pc[w] \notin {"spin_test", "spin_cas"}

\* While somebody tries ngx_shmtx_lock, somebody enters the critical section or
\* nobody tries any more (those who did died), even if a holder dies; and nobody
\* spins for ever.
LockProgress ==
  /\ (\E w \in Workers : pc[w] \in Attempt)
       ~> \/ \E w \in Workers : InCS(w)
          \/ \A w \in Workers : pc[w] \notin Attempt
  /\ SpinEnds

\* The lock of a dead worker is freed.
DeadHolderFreed ==
  \A p \in Pids : (lock = p /\ p \notin AlivePids) ~> (lock # p)

\* The mutex does what PidLock says a lock with a named owner does.
Abstract == INSTANCE PidLock WITH holder <- lock, alive <- AlivePids
ImplementsPidLock == Abstract!Spec
=============================================================================
