# Models and proofs for awesome-codebase

This directory holds TLA+ models of the programs in this repository that have
state worth reasoning about, TLC configurations that check them on small
instances, and proofs that TLAPS checks for every instance. Paths below are
relative to `src/`.

The repository is a collection of small programs and libraries, most of them in
C for Linux. Few of them talk to each other; each is a system of its own, with
its own processes, sockets, kernel threads or data structures. The project
follows that shape: one module per program or library, an abstract
specification beside it where the program promises something that can be said
without its internals, and an MC module with the configurations.

## 1. Inventory

### 1.1 Modelled

| component | state | operations | what is hard about it |
|---|---|---|---|
| shared spin mutex, `c/linux/userland/ngx_shmtx/` | one word in shared memory (0 or the holder's pid), `mtx->spin`, a counter the lock protects | create, lock, trylock, unlock, force_unlock; the workers of the self-test | processes interleave between the test and the compare-and-swap; a worker may die anywhere; pids are handed out again |
| epoll reactor, `c/linux/userland/net/epoll/epoll_loop/epoll_loop.c` | the table `g_events`, `checkpos`; in the kernel the interest list and the descriptors | accept, receive and send callbacks, `event_set/add/del`, the timeout sweep, the event loop | three tables that must agree; a batch of events that callbacks may invalidate; closed descriptor numbers come back; clients that vanish |
| process daemon, `c/linux/userland/process_daemon/` | the table `g_process`, `g_signal`, `g_signal_0_count`; the children | start the children, wait for one, replace it | children end in any order; forks fail; pids are handed out again |
| poll server, `c/linux/userland/net/poll/poll_server.c` | the array of pollfd, `maxi`, `nready` | poll, accept, read and echo, close | an array on the stack; entries freed and filled while the results of poll are still being used; off-by-one at the last entry |
| linked lists, `c/linux/userland/list.c` | `next` and `prev` of heads and entries | add, delete, replace, move, the two queries, the four loop macros | the order of stores to nodes that may coincide; loops whose body removes the entry they are at |
| nginx red-black tree, `c/linux/common/ngx_rbtree/` | root, fields of the nodes, the sentinel | insert (two comparisons), delete, rotations, min, next | the rebalancing loops; a sentinel that is every leaf; equal keys; timer keys that wrap around |
| select server, `c/linux/userland/net/select/select_server_multi_client.c` | `readfds`, `testfds`, the descriptor the pass is at | select, accept, recv and send, close | a snapshot of the descriptors is walked while they are closed and handed out again |
| edge-triggered readers, `c/linux/userland/net/epoll/{block,noblock}_epoll/server.c` | epoll's ready list, unread input | epoll_wait, read once or until nothing is left | an edge is reported once, and input may come between the last read and the next wait |
| kernel threads, `c/linux/kernel/kernel_completion.c`, `kernel_semaphore.c` | the completion's count; the semaphore's count and queue; whether a thread is to stop | the loops of two threads, module_exit | exit waits for threads that wait for each other; a completion is initialized anew while it is in use |
| userland semaphores, `c/linux/userland/thread/` | the semaphores' values, the rounds | wait and post in two threads, or in parent and child | turns are handed over by two semaphores |
| list in shared memory, `c/linux/userland/share_mem.c` | the head and node segments, which outlive the program | build the list, print it | a run may be killed between any two stores, and the next one finds what it left |
| AES with AES-NI, `c/linux/common/aes_opt/` | the context with both schedules; in a bulk call the registers, counter or tweak | set key, encrypt, decrypt; the bulk functions of seven modes, eight, four or one block at a time | keys folded into blocks, carries between bytes and words, buffers that are the same one, a schedule that is made when first needed |
| SM4 with AES-NI, `c/linux/common/sm4_opt/sm4_core.c` | the round keys; in a call the IV, what `walk_iv` points to, the bytes left | set key; ECB, CBC, CFB and OFB | decrypting in place from the last block to the first; parts of a block; loops that end when no byte is left |
| SM3, `c/linux/kernel/sm3_sm4/sm3/sm3.c` | digest, blocks so far, the buffered bytes | init, update, final, export, import | buffering across pieces of any length; when the padding needs another block |
| glob matching, `c/linux/kernel/kernel_path_regex.c` | where in the pattern and string, and where to go back to | `glob_match1` | only the last star is kept |
| red-black tree, `c/linux/common/rbtree/` | root, fields of the nodes, NULL leaves | create, insert, delete, searches, minimum, maximum, successor, predecessor, traversal, destroy | the delete loop works on a node that may be NULL and carries its parent along |

How they interact: the mutex's processes share the word and the counter, and
the supervisor that waits for them frees their locks. The servers interact with
clients through the kernel: TCP connections, the backlog, and descriptors that
are allocated lowest first. The daemon interacts with its children through
fork, wait and inherited memory. The lists and trees are libraries of
sequential functions; their callers are the environment.

### 1.2 Correctness properties, component by component

* Mutex: exclusion; the protected counter loses no increment; the word names a
  process that knows that it holds the lock; somebody always gets the lock;
  spinning ends; the lock of a dead holder is freed.
* Reactor: slots, epoll and descriptors agree, and epoll never refuses what is asked
  of it; events are still true of their slot when they are handled; as many bytes
  are echoed as were read, if sends are whole; only idle
  connections are swept, and every idle one is; clients are refused only when
  the server is full.
* Daemon: the guarantee on the signals; every child has an entry; every child
  that ends is waited for.
* Poll server: every client is polled; no entry that is left behind stands for
  another client; the server never blocks in read; clients are read
  unless one holds up the server in write; clients are refused only when the array
  is full.
* Select server: the bits are those of the open clients, and recv never waits.
* Edge-triggered readers: with the inner loop, all input is read.
* Kernel threads: the semaphore has one holder, and module_exit returns.
* Userland semaphores: exclusion, strict turns, and an end of the programs.
* List in shared memory: a run prints what it added, in order, whatever earlier
  runs left.
* Ciphers: what comes out is what the mode of operation says, block for block,
  however the message is cut into calls and whichever loop takes a block; no
  byte outside the output is written; the key in use is the last one set; calls
  return.
* SM3: the digest is that of the padded message, however it was cut.
* Glob: the result is what the pattern means.
* Lists: next and prev are inverse; loops visit what they set out to visit; the
  pointers implement sequences.
* Trees: red-black between the calls and off by one node within the loops; the
  parent pointers are right; the loops end; the nginx tree is a queue ordered by
  key and, for equal keys, by arrival; the other tree is a set of keys.

### 1.3 Not modelled

`PROJECT.json` lists every other part with its reason. In short:

* Straight-line calls into something outside the repository, which decides the
  outcome: OpenSSL and libgcrypt, libevent (`evmain.c` registers callbacks with
  a loop that is not here), yyjson, Windows (the retry loop of
  `GetPidByProcessName.c` ends when the system's process list lets it), the VFS
  (`kernel_create_file_or_dir.c`), the device model (`kernel_ioctl_sample.c`:
  `class_create` and `device_create` are not checked, and exit frees the cdev
  before it destroys the device; what follows happens in the kernel), single
  kernel and system calls, and semaphore wrappers without a caller.
* Small sequential code whose inputs a test can run through: the hex
  conversions, shuffle and rotations, `parse_conf.c`. The read loop of
  `get_command_output` in `execute_command.c` ends only when `fread` returns
  -1, which it never does, so that there is no end of it to model.
* Block ciphers as functions of bits: the compression of SM3, the rounds of SM4,
  the S-box of AES are opaque; the table implementation of SM4
  (`sm4_generic.c`) has nothing beside them, and `sm34test.c` compares known
  answers. The AVX string compare is an exercise with vector instructions.
* `select_server.c` (one client, which it prints) and `epoll.c` (the reader of a
  pipe, like the blocking server) beside the servers that are modelled.
* Third-party tools kept in the tree (`perform_utils`, `linux-fincore.c`); Rust
  and Lua exercises without state.

## 2. Plan

Done, in this order, the most concurrent first:

1. `NgxShmtx`, shown to implement `PidLock`; `NgxShmtxProofs`.
2. `EpollLoop`.
3. `ProcessDaemon`.
4. `PollServer`.
5. `LinkedList`, shown to implement `ListOfEntries`; `LinkedListProofs`.
6. `NgxRbtree`, shown to implement `KeyQueue`; `NgxRbtreeProofs`.
7. `Rbtree`, shown to implement `KeySet`; `AlgorithmsProofs`.
8. `CipherMode`, the modes of operation; `AesNi`, the key schedule and the
   rounds; `AesBulk` and `Sm4Modes`, shown to implement `CipherMode`;
   `AesContext`; `Sm3`.
9. `SelectServer`, `EdgeReader`, `KernelThreads`, `Semaphores`, `ShareMem`, `Glob`.

With that, the code that has state of its own is modelled; what is left are
proofs. Small components share an MC module and a run (`MCServers`,
`MCPrograms`, `MCAlgorithms`, `MCCiphers`): at the start, `which` picks one of
them, and the others stay in an initial state. Each keeps its own module, and
each property its own mutant. `MCServers`, `MCPrograms` and `MCCiphers` have
constants for the sizes of components they choose from, with the assumptions
that those modules need (`SelAssumption`, `ListNodesAssumption`,
`HashAssumption`), as `MCAlgorithms` has for the alphabet and the lengths of texts
(`GlobAssumption`) and `MCCiphers` for the blocks and calls of SM4
(`Sm4Assumption`), so that the theorems hold for the systems that are run,
whatever the sizes.

Theorems, in the order in which they were proved: the refinement, exclusion and
shared counter of the mutex; the ring of the lists; the reactor, poll server,
daemon, select server, shared list and semaphores, all of their safety
properties; the refinement of the lists and their loops; the digest of SM3;
`ngx_rbtree`, its queue and its loops; `rbtree`, whose nodes are allocated and
freed, its loops and its set of keys; the backtracking of `glob_match1`; the ciphers: what
the loops write, that they are the modes of operation, and that the AES context
uses the key that was set last. What is left to TLC is liveness (see 5.9).

## 3. Modules

Every definition that stands for code is in `PROJECT.json` under `map` with its
lines. Definitions preceded by a comment `Mutant:` are not part of the models:
each is the definition it is named after with one plausible bug, and the
property it is paired with in `PROJECT.json` does not hold of it. Symmetry
(`Permutations`) is used only in runs that check no liveness property.

### 3.1 NgxShmtx, PidLock

`lock` is the word, `spin` is `mtx->spin`, `shared` the counter of the
self-test; `pc`, `pid`, `n` and `tmp` are the workers' program counters, pids,
loop variables and registers. The test of the word and the compare-and-swap
that follows it are two actions (`Test`, `Cas`), because `&&` evaluates them
one after the other; so are the load and the store of `(*shared)++`.
`ngx_ncpu` is a local variable that `ngx_shmtx_lock` reads before anything is
written to it: `Missed` allows both outcomes of the comparison. The spin
counter doubles modulo `2^Width`.

The self-test only locks and unlocks. `ngx_shmtx_trylock` and
`ngx_shmtx_force_unlock` have no caller in the repository; the model lets the
workers try, and adds the caller that force_unlock is written for: the process
that waits for a dead worker, frees what it held, and forks a replacement
(`Wait`, `ForceUnlock`, `Fork`). Workers die anywhere (`Crash`), and the kernel
may hand out any pid no process has.

`PidLock` is the promise: a word that names at most one process, taken when
free, given back by the process it names, taken back only from the dead.
`alive` in it is the set of the live workers' pids.

`NgxShmtx.cfg`: three workers, three pids, two deaths, the first of which is
answered by a new worker. Three workers are the least with which somebody can
take the lock between another's test and swap while a third one waits; two
deaths are the least with which a pid comes back, is held, and dies again.
With `Width = 3`, `n` runs through 1 and 2, the spin limit of 4 ends the loop, and
a loop that missed the limit would wrap around at 8. About 160,000 distinct states.

Fairness: weak, for every worker and for the supervisor. The operating system
runs every live process; no more is assumed, so that a single worker may starve
and `LockProgress` says that *somebody* gets the lock.

### 3.2 EpollLoop

`ev` is `g_events` with the members that matter: fd, events, the callback,
status, the age of `last_active`, `buffer_size`. `reg` is epoll's interest
list, `fdtab` what each descriptor refers to, `batch` what `epoll_wait`
returned and the loop has not handled. Each callback is one action: the thread
is alone, so that nothing of its own can come between two statements; clients
and time move between any two actions. `Sweep` is one round of the timeout
check. Descriptors are allocated lowest first, `close` drops them from epoll,
epoll is level triggered. Bytes are counted.

The program ends itself (`exit`) when `accept` fails, for want of a descriptor or
of memory; when `epoll_wait` returns -1, as it does when the program is stopped
and continued; and when `epoll_ctl` fails in `event_add`. Memory apart, `epoll_ctl`
fails because it is refused: `EPOLL_CTL_ADD` of a descriptor that is watched, or
`EPOLL_CTL_MOD` of one that is not. That would be the program's own doing, and the
model tells it apart (`refused`); `CtlNeverRefused` says that it does not come to it.

Peers go through the four states that a server can tell apart: there, closed,
closed and already answered with a reset, aborted. A send after that reset is
SIGPIPE, which the program does not ignore: it is killed, and the properties
say what holds until then. A short send loses what was not taken, because the
callback sets `buffer_size` to 0: `EchoExact` says that never more is in a buffer
than the client is owed, and that it is exactly that when sends are whole.

* `Servers.cfg` (`MCServers`, with the select server): two slots, two descriptors, two connections, short
  sends, a timeout of one tick. A slot or descriptor can be recycled while
  another is in use, which is what the tables could get wrong. One slot is
  looked at per round, so that `checkpos` runs around.
* `EpollLoop_live.cfg`: one descriptor, so that the second `accept` can fail,
  whole sends. `EchoExact`, `Served`, `IdleClosed`.
* `EpollLoop_refused.cfg` (violation): the free-slot search looks for
  `fd == 0`, but nothing resets a closed slot's `fd`. After MAX_EVENTS
  connections in all, every client is refused with "too many connections".

`LowByte` is 256 in the build and 2 here: a read that fills the buffer stores
its terminator in the low byte of `buffer_size`, where 1024 has
a zero, so that the size survives; `MaxBuf % LowByte = 0` is the assumption that makes it so.

Deadlock is not checked in these runs: the server stops when it exits or is
killed, and the model ends there.

`Registered` contains the type invariant. `RefusedAssumption`: the mark of a
descriptor that is not in use is no connection.

Fairness: weak, for the server and for time. Clients owe nothing.

### 3.3 ProcessDaemon

`g_process`, `g_signal`, `g_signal_0_count` and `i` are the program's; `proc`
and `childSignal` are the children as the kernel and they themselves see them.
`Start` is one iteration of the first loop, `Wait` and `Respawn` are the halves
of an iteration of the second one, because a child may end between them. The
child's library function never returns, so a child ends by failing to load it
or by a signal, at any time. A failed fork changes nothing but has been counted
already.

`Programs.cfg` (`MCPrograms`): three children, two with signal 0, four pids, up to three
failed forks: enough that every entry may be stale, and that a pid in a stale
entry is given to another child. `ChildrenListed` contains the type invariant.
`ProcessDaemon_guarantee.cfg` (violation):
the fork of a child with signal 0 fails, the parent waits with fewer of them than
the comment on `g_signal_0_num` guarantees, and the count says that there are enough.

Fairness: the parent runs (weak), and no ended child is passed over for ever by
`wait` (strong): the kernel searches the children in the order of their forks,
and replacements go to the end.

### 3.4 PollServer

`fd` and `revents` are the array, `maxi`, `nready` and `i` the program's
variables. `Poll` fills revents for entries up to `maxi`, `Accept` is the whole
branch for the listening socket, `ReadClient` one iteration up to the read, and
`Write` the rest of it if there is something to write back. The array is a local
variable, so the revents of an entry that was filled after poll returned is what
the stack held: `Init` leaves it open.

The sockets are blocking. `write` returns when the client has room (`writable`,
which its reading restores) or is gone; while it stays and does not read, the whole
server waits, for ever if need be. `ReadsDoNotBlock` says that `read` never makes it
wait, whatever is left in revents: an entry that was filled after poll returned is
the last one, and by then `nready` has ended the loop.

Three ends are in the model besides running: `exit` (accept or read failed),
`killed` (SIGPIPE) and `corrupt` (an accept with a full array writes
`clients[MAX_CLIENTS]`). Properties say what holds until then. The last entry keeps
the descriptor of the client that was refused there (see the finding), which is
closed; `EntriesExact` says that it is never handed out again, so that this entry,
too, stands for nobody else, and that every other entry names an open descriptor of
its own. That `poll` itself fails, which takes a kernel without memory, is left out.

* `PollServer.cfg`: three clients that send any number of times, with one read's
  worth unread at most; an array of four: the listening socket, two
  entries that serve, and the faulty last one; three descriptors. Two clients are
  open at once, and a number comes back while the other entry is in use or being
  freed. `EveryClientPolled`, `ReadsDoNotBlock`, `EntriesExact`, and `Served`: a
  client that sent something is read from although another one goes on sending, so
  `nready` hides nobody. Its premise is that the server is not kept in `write` for
  ever.
* `PollServer_refused.cfg` (violation): the client that takes the last free
  entry is refused as if there were none.

`UnusedAssumption`: the mark of a descriptor that is not in use is no client.

Deadlock is not checked: the server may end, and it may wait for its clients for
ever. Fairness: weak, for the server.

### 3.5 LinkedList, ListOfEntries

`mem` holds the pointers, `linked` the entries the caller has put into lists,
`iter` the loop in progress. Each function of `list.c` is an operator on `mem`
that makes the stores in the order of the source, each on the memory that the
earlier ones left, because their nodes may coincide (an empty list, a single
entry, a move to where the entry is). The callers keep to the comments: an
entry that is added is in no list, one that is deleted is in one, the body of a
safe loop removes only the entry it is at. `list_del`
leaves the pointers of the deleted entry as they were; `Poison` stands for memory
never written. There are finitely many nodes (`FiniteAssumption`), which is what
makes `Walk` end.

`ListOfEntries` is the promise: a sequence per head and truthful queries. The
refinement reads the sequences off the pointers (`Walk`). `OperationsAgree`
says which abstract operation each function is, so that `list_add` may not do
what `list_add_tail` does; it is proved and not run.

`LinkedList.cfg`: two heads, four entries. All coincidences of nodes occur with
one or two entries per list; with four, a loop still has entries before and
behind it when its body moves one to the other list.

### 3.6 NgxRbtree, KeyQueue

`tree` is the root and the fields of all nodes, the sentinel included, whose
parent the delete loop writes and reads. The two mirror-image branches of each
loop are one operator of the side. The binary insert and delete are one action;
each turn of a rebalancing loop is another, so that invariants between the
turns can be stated, and so that termination is a property of steps
(`LoopsClimb`). `insert` is the comparison in use, chosen once. With the timer
comparison, callers keep keys within half of the range, as its comment says.

`RedBlack` contains the type invariant and that `ngx_rbtree_next` runs through
the nodes in order (`NextInOrder`).

`NgxRbtree.cfg`: six nodes, three keys that wrap around at 3 bits, equal keys.
Six nodes reach every case of both loops, on both sides; loops that climb twice
need ten and are covered by the next module, whose loops are the same.

### 3.7 Rbtree, KeySet

As above, for the tree with NULL leaves. The delete loop cannot ask a NULL node
for its parent; `up` is the variable that carries it, and `RedBlack` says that
it is right at every turn. `gone` is the node to be freed: nothing may lead to
it. `KeySet` is a set of keys and answers to all queries, which hold even
between the turns of a loop. A key names its node, because keys are unique and
never copied from node to node.

`insert_rbtree` of a present key, or when malloc fails, and `delete_rbtree` of
an absent key return and change nothing.

`Algorithms.cfg` (`MCAlgorithms`, with the globs): ten keys, in any order. Ten is the least with which the delete
loop climbs two levels, so that a wrong `parent` on the second turn shows.

### 3.8 CipherMode, AesNi, AesBulk

Data is symbolic. A block is a set of terms that stands for their exclusive or,
so that adding the same key twice cancels out by itself; MixColumns is linear
and counted, the S-box with the row shift is opaque. So the tricks of
`rijndael-aesni.c` are computed and not assumed: the key of the first round
folded into the block, the next block folded into the last round, the
decryption schedule of the equivalent inverse cipher. `AesNi` has the key
schedules of the three key sizes, word by word, and the rounds of the one, four
and eight block versions, which stop by tests of their own.

`AesBulk` has the bulk functions. `Call` loads what the mode keeps in registers,
each turn of the loops over eight, four and one block is an action, `Return`
stores the chain value. `mem` is one memory for both buffers, with `dst` the
offset between them: 0 is in place. Counters are numbers whose last byte, low 32
bits, low half and high half are scaled down to 16, 16, 32 and 2 values, so
that seventeen blocks carry across each border; the code's short cuts for the
byte, and their absence, depend only on where the carries are. Tweaks are sets of
bit positions at their full width of 128, so that the polynomial is the code's
own.

`CipherMode` is the promise: a message is taken block by block, by the
recurrence of its mode. `Abstract` maps memory, registers and the position to
it; a call that ends and the next one, and the loops, are invisible.
`OutputExact` is the other half: what is outside the output, or after the call's
part of it, is as it was.

`MCCiphers`, `Ciphers.cfg`: messages of seventeen blocks (twice eight and one
more) in calls of 0, 1, 4, 5, 13 and 17 blocks, which reach each loop from each
other; counters around every carry, tweaks with each bit that leaves its half.

### 3.9 AesContext

Keys are set, and a block is encrypted and decrypted in place, in any order, as
the self-tests of `rijndael.c` do in one order. `decryption_prepared` remembers
that the schedule was made. `CurrentKeyUsed` says that each call does what
FIPS 197 says with the key that was set last; a key length that is refused changes nothing. Two keys, four
lengths (one of them, 20 bytes, refused), four calls: `KeyNames`, `KeyLens` and
`MaxCalls` of `Ciphers.cfg`. That is enough for the schedule for decryption to be
made, left over and made again for another key of the same or of another size.

### 3.10 Sm4Modes

The functions of `sm4_core.c` on bytes: a call may end with part of a block, and
then the message is over. Every turn of a loop is an action; `walk_iv` is
modelled by what it points to, which is what the next turn reads. `Backwards`
makes its stores in the order of the loop, since in place each is over the
input of the one before. The routines of `sm4-aesni-avx-asm_64.S` for four and eight
blocks load all blocks before they store the first, and those with an IV take the new
one from the input before it is overwritten (`StoreAll`). The rounds in them are opaque,
except that reversed round keys undo them, which is what `sm4_skcipher_setkey` relies on.

`ImplementsSm4Mode` is `CipherMode` again. `CallsReturn` excludes the ECB and CBC
calls with part of a block: their outer loops wait for a count of bytes that
nothing makes 0. Callers in the source never make such a call. Fairness: a call
that was made runs on.

In `Ciphers.cfg` a block has two bytes and the cipher eight rounds, and calls have 1,
2, 3, 6, 8, 10, 16, 17, 26 and 34 bytes: a part of a block alone and behind whole
ones, each of the loops alone (eight blocks are 16 bytes), and eight blocks before
a rest and before single blocks.

### 3.11 Sm3

`Update` has its three ways through (into the buffer, completing it, whole
blocks), `Final` both paddings. The compression function is opaque: a digest is
the sequence of the blocks that went in, and `DigestRight` says that they are the
padded message. Bytes carry a tag that is used once, so that an old byte in the
buffer is never mistaken for a new one; `exported` states are imported at any
time, also after the end. Blocks of 8 bytes with a length of 2 and pieces
around every border; 64 and 8 are the same code with more bytes in the middle.

### 3.12 SelectServer

`Select` returns a subset of `readfds` or fails, which ends the program; `Accept`,
`Recv` with `Send`, and `Close` are the turns of the pass, in the order of the
numbers. `send` is on a blocking socket and waits like the poll server's `write`.
`accept` returns the lowest free number, which this pass may have closed, but its
bit in `testfds` has had its turn. `SelectedExact` is what keeps recv from waiting,
and a bit in `readfds` from outliving its descriptor. Two descriptors and three
connections: a number comes back while the other is in use. Clients send less than
the buffer at a time.

### 3.13 EdgeReader

Both servers with EPOLLET: `ready` is the edge, set when input or the end
arrives and taken by `Wait`. The server without the inner loop leaves input
behind, and neither its code nor a comment says that it does not; `InputIsRead`
is stated for the one that reads until nothing is left.

### 3.14 KernelThreads

The two modules with two threads, from module_init to the end of module_exit.
`kthread_stop` asks, wakes and waits; a thread that is stopped before it ran
never calls its function. `init_completion` runs without the lock of the
completion: if the other thread is inside `complete` then, nothing can be said of
the outcome, and the model ends as `torn`. `ExitReturns` holds otherwise: thread1
may wait for a completion when it is stopped, but thread2 gives one as long as it
runs, and it is stopped second. Fairness: weak, for each thread and for
module_exit; nobody has to unload the module.

### 3.15 Semaphores

`semaphore_test1.c`, `semaphore_test2.c` and `semaphore_process.c`. A post wakes a
waiter but does not hand the semaphore over, so that another may take it first.
`Excluded` says that one actor is inside, and in `semaphore_test2.c` in strict
turns; `MainEnds` that the joins return. The parent and child of
`semaphore_process.c` never end and share nothing that counts, so that their
rounds are not told apart. Fairness: weak, for each actor and for main.

### 3.16 ShareMem

A step is the stores to one structure that follow each other; `Killed` may come
between any two. `Run` starts the program again, on the segments that are there.
Five nodes show the first, the second and a middle one; the third run meets
what a second run left of a first one's list. Two runs at the same time, which
nothing in the program keeps apart, are not modelled.

### 3.17 Glob

One turn of the loop of `glob_match1` is one action, a class with its spans one
of the turns. `Matches` is the meaning of a pattern, with a star trying
everything, which the loop does not. Patterns of up to four characters over two
letters and all special ones, strings of up to three over a letter and a
bracket: two stars with a class or an escape between or behind them. A negated
class at the end of the string matches the terminator there, and the loop would
read past it; the model ends then (`past`).

## 4. Runs

| run | instance | checks |
|---|---|---|
| `NgxShmtx` | 3 workers, 3 pids, 2 deaths | `MutualExclusion` `NoLostUpdate` `IInv` `LockProgress` `DeadHolderFreed` `ImplementsPidLock` |
| `Servers` | epoll: 2 slots, 2 fds, 2 connections, short sends; select: 2 fds, 3 connections | `Registered` `BatchFresh` `CtlNeverRefused` `OnlyIdleClosed` `SelectedExact` |
| `EpollLoop_live` | 2 slots, 1 fd, 2 connections | `EchoExact` `Served` `IdleClosed` |
| `EpollLoop_refused` | 2 slots, 3 fds, 3 connections | `RefusedOnlyWhenFull` is violated |
| `Programs` | daemon: 3 children, 4 pids, 3 failed forks; threads; semaphores: 5 rounds; shared list: 5 nodes, 3 runs; edges: 4 reads' worth | `ChildrenListed` `GuaranteedWhileForksSucceed` `Reaped` `SemaphoresExclude` `ListExact` `WaitersGetOn` |
| `ProcessDaemon_guarantee` | 1 failed fork | `SignalsGuaranteed` is violated |
| `PollServer` | 3 clients, 4 entries, 3 fds | `EveryClientPolled` `ReadsDoNotBlock` `EntriesExact` `Served` |
| `PollServer_refused` | 2 clients, 3 entries, 2 fds | `RefusedOnlyWhenFull` is violated |
| `LinkedList` | 2 heads, 4 entries | `Ring` `VisitsPlan` `ImplementsLists` |
| `NgxRbtree` | 6 nodes, 3 keys, both comparisons | `RedBlack` `ImplementsQueue` `LoopsClimb` |
| `Algorithms` | tree: 10 keys; globs: patterns up to 4, strings up to 3 | `RedBlack` `ImplementsKeySet` `LoopsClimb` `GlobRight` |
| `Ciphers` | messages of 17 blocks, every mode and key size | `OutputExact` `DigestRight` `ImplementsMode` `CurrentKeyUsed` `ImplementsSm4Mode` `CallsReturn` |

Deadlock is not checked in the runs of the servers, in `Programs`, `Algorithms` and
`Ciphers`: servers exit, are killed or wait for clients there, programs come to
their end, calls have returned and bounds are reached.

`MaxCrashes`, `MaxForkFails`, `MaxSend`, `MaxUnread`, `CountMod`, `MaxRuns`, `MaxBlocks`,
`MaxCalls`, `MaxLength`, `MaxBranches`, `MaxPattern` and `MaxString` are the
bounds on what is unbounded in the programs; each is a guard or a modulus with its name.

### Findings

* `epoll_loop.c:145`: slots are never free again (run `EpollLoop_refused`).
* `process_daemon/main.c:34`: the count of children with signal 0 is raised
  before a fork that may fail, so that there may be fewer of them than the comment
  guarantees (run `ProcessDaemon_guarantee`).
* `poll_server.c:84`: the last free entry is mistaken for a full array (run
  `PollServer_refused`).

## 5. Proofs

`tlapm` checks eight modules: `NgxShmtxProofs`, `EpollLoopProofs`,
`PollServerProofs`, `ProgramsProofs`, `LinkedListProofs`,
`CiphersProofs`, `NgxRbtreeProofs` and `AlgorithmsProofs`. They are laid out
alike: the inductive invariant as a conjunction of named parts, facts about the
operators, one lemma per action, `NextIInv` with a step per action,
`Invariance`, and the properties that the runs check as consequences. Searches
for the lowest descriptor, slot or bit are `CHOOSE` of a least number; that
there is one comes from `NatLessThanWellFounded`.

The proofs about the reactor, the poll server, the daemon, the mutex, the
lists and the tree are from the assumptions of their modules. `SelectServer`, `Semaphores`,
`KernelThreads`, `ShareMem`, `Sm3`, `Sm4Modes`, `AesContext` and `Glob` are only INSTANCEd
by runs, which do not evaluate assumptions of theirs, so the proofs about them are about the
instances in `MCServers`, `MCPrograms`, `MCCiphers` and `MCAlgorithms` and from the assumptions
there (`SelAssumption`, `ListNodesAssumption`, `HashAssumption`, `Sm4Assumption`,
`GlobAssumption`). `MCCiphers` extends `AesBulk`, whose `SizesAssumption` TLC evaluates with it.

### 5.1 NgxShmtxProofs

For any set of workers and pids, any width, spin counts and any number of
deaths, from `PidsAssumption`, `SpinAssumption` and `BoundAssumption`.

Exclusion is not inductive: that two workers are not both in the critical
section after a compare-and-swap follows only if the word is known to be
non-zero while one of them is there. `IInv` adds what is needed:

* `HoldersOwn`: whoever is in the critical section has its pid in the word;
* `PidsDistinct`: a pid names one process, the dead ones not yet waited for
  included, so that `HoldersOwn` of two workers is a contradiction;
* `HolderKnows`: a word that is not 0 names a worker in the critical section, a
  dead one, or the one just waited for; it makes a newborn process with a
  recycled pid harmless, because `Fork` waits until the word was cleaned up;
* `NoLostUpdate` and `TypeOK`.

`OutsideStep` and `MissedStep` deal once with the many steps that leave the
word alone; `Doubling` keeps the spin counter within its type. `NextIInv` has a
step per action. The theorems: `Invariance`, `TypeCorrect`, `Mutex`,
`LostUpdateFree`, `HolderIsKnown`, the action property `OwnerReleasesHolds` (the
word leaves its owner only through 0, by the owner's unlock or after its
death), and `Refinement`: `AbstractInit` and `AbstractStep` map the initial
states and every step to `PidLock`, with `IInv` as the invariant that makes
`Release`, `Recover` and `Born` legal there.

### 5.2 EpollLoopProofs

For any number of slots, descriptors, connections, events and bytes, any
timeout, with sends that are whole or short. `IInv` is `TypeOK`, `Tables` while
the server is up, `BatchTrue` while it handles a batch, and
`CtlNeverRefused`.

* `Tables`: slots, epoll, descriptors and connections agree (`SlotsWatched` and
  `NoLeak` of the model, `Descriptors`, `SlotShape`). `Registered` is not
  inductive without the last two: that closing one slot leaves the others
  watched needs that no two of them have one descriptor.
* `BatchTrue`: an event that is not yet handled is what epoll would report
  again. It is what `BatchFresh` and the two others rest on: `recv` on an
  event that came true finds input or an end, so that an error that closes a
  connection with its client still there, and an `epoll_ctl` that is refused, do not
  happen. It is kept by a callback of one slot because events of
  other slots do not depend on it, and by a client because clients only add
  input and ends.
* `Accounts` and `Buffers`: a buffer holds no more bytes than are owed to the
  client, and as many if sends are whole; a slot waits to send exactly when its
  buffer is not empty. `EchoExact` follows. `OnlyIdleClosed` needs that the age of a slot is how long its
  connection has been idle, which is the last part of `SlotTrue`.

Theorems: `Invariance`, `RegisteredHolds`, `BatchFreshHolds`,
`CtlNeverRefusedHolds`, `EchoExactHolds`, the action property
`OnlyIdleClosedHolds`.

The module also holds the proof about the server with select, which `MCServers`
runs beside the reactor: `SelIInv` is `SelTypeOK` and, while the server runs,
`SelDescriptors`, `Bits` and `Selected`. `Selected` says that what select
reported of the descriptors still to come in a pass is still true of them: each
is in use and has input. So accept, which returns a free descriptor, never
returns one whose bit in `testfds` is still to be looked at. Theorems:
`SelectInvariance` and `ServersSelectedExact`.

### 5.3 PollServerProofs

For any number of entries, descriptors and clients, any bound on what is unread,
and whatever is on the stack. `IInv` is `TypeOK` and, until the server ends,
`Descriptors`, `Entries`, `Reports` and `Count`.

The hard part is the last entry of the array, which keeps a descriptor that was
closed: the invariant says that this is descriptor `Last` and that it is never
allocated again. That is so because descriptors are allocated lowest first and
those in use have entries before the last one, so that by counting there is
always a lower one free when an entry is (`FS_PigeonHole` does the
counting). With it, `EveryClientPolled` and `EntriesExact` follow.

`Reports` says that what poll reported is still true when its turn comes, although
entries are freed and filled in between. `Count` says that `nready` is the number of
entries ahead that poll reported, and one more while an accept or a write is under
way. The one entry whose revents are the stack's is the last of all; when the loop
comes to it, nothing else is ahead, `nready` is 0 and the loop has ended
(`NextIsReported`). `ReadsDoNotBlock` follows. Theorems: `Invariance`,
`EveryClientPolledHolds`, `ReadsDoNotBlockHolds`, `EntriesExactHolds`.

### 5.4 ProgramsProofs

The programs that `MCPrograms` runs.

* Process daemon: for any number of children, of failed forks and of pids that
  come back at once. `IInv` is `TypeOK`, `Table`, `Counts` and, while no fork has
  failed, `Exact`. `ChildrenListed` needs that the entry being replaced is that of
  no child (`Table`). `Counts` says that the count is never below the number of
  entries with signal 0, with failed forks as well, which is why decrementing never
  makes it negative. `Exact` is the guarantee: entries are the children, and the
  count is that of the entries; it is lost with the first failed fork (see the
  findings), and the theorem says so: `GuaranteedWhileForksSucceed`.
* Shared list: `Adding` and `Printing` say what the segments hold at each store;
  the first `count` nodes are this run's, and what an older run left lies behind
  them, where nothing looks before it is overwritten.
* Semaphores: with one semaphore, it is 0 exactly while somebody is inside; with
  two, one of the actors has the turn and the other's semaphore is 0. In the
  kernel module `up` hands the semaphore over to a waiter without making it
  free; the invariant says that a thread is queued only while the other one
  holds it.

### 5.5 LinkedListProofs

For any number of heads and entries, from `NodesAssumption` and
`FiniteAssumption`. Each function of the source has two lemmas about memory,
apart from any specification.

The first: if `next` and `prev` are inverse on a set of nodes before, then
they are on the set that remains or results (`AddBetweenRing`, `ListDelRing`,
`InitListHeadRing`, `ListReplaceRing`, `MoveRing`). `NextIInv` applies them,
loop bodies included. `Invariance` gives `TypeCorrect` and `RingHolds`. `Ring`
needs `TypeOK` beside it because a node outside every list may hold
uninitialized pointers.

The second: `Lists(m, S, c)` says that the sequences `c`, one per head, with the
entries `S`, are in the memory `m`: from each head `next` leads through its
sequence and back, and no entry is at two places. `AddBetweenLists`,
`ListDelLists`, `ListReplaceLists`, `ReplaceHeadLists`, `MoveLists` say which
sequences are in the memory after a call. `Ring` is a hypothesis of them, since
the functions read `prev`; `Ring` alone says nothing about sequences, as a
cycle without a head is a ring, too. `WalkFindsList` says that `Walk`, which is
how the refinement reads the sequences off the pointers, finds `c`: since
entries are distinct there are at most as many as there are nodes. So `Good`,
which is `IInv` and that the memory holds the lists of `Walk`, is inductive
(`GoodInvariance`), and each action is one of `ListOfEntries`: `ListsImplemented`
and `OperationsAgreeHolds`.

`VisitsPlanHolds` needs where in its list a loop is: `Following` says that the
rest of its plan is the last `r` entries of the list as it is now, in the
direction of the loop, and that the loop is at the first of them. A body that
takes out the entry the loop is at leaves the entries ahead where they are,
seen from the end that the loop runs to (`AheadOfRemoved`), and `n`, read
before the body ran, is the next entry of the plan (`NextInPlan`).

### 5.6 CiphersProofs

**SM3**, for any size of a block and of the count, any lengths of the pieces, any
number of imports, from `HashAssumption`: a mark and the count fit into a block.
`HashIInv` says of the context, and of what was exported of one, that it is
`Kept`: the blocks compressed so far, put together, and the first `num` bytes of
the block are the message. So what the block holds behind `num`, of an earlier
piece or message, does not matter, which `DigestRight` alone cannot say in the
middle of a message.

* `UpdateStep`: a piece completes the block or not, and `WholeBlocks` says that
  its whole blocks and its rest are the piece.
* `FinalStep`: in one block or in two, mark, zeros and count come right after
  the message; `PaddedEnd` is the arithmetic, that this is the next end of a
  block that leaves room for a mark and the count.
* What `FlattenSeq` does to a block more (`FlattenAppend`) or to a second
  sequence is an induction over its recursive function, by a least
  counterexample (`NatInSteps`).

Theorems: `HashInvariance` and `DigestRightHolds`.

**What the loops write**, for messages and calls of any length, from `SizesAssumption` and
`Sm4Assumption`. `BulkMem` and `Sm4Mem` say of the buffers: outside what is put out so
far they are as they were at the start, in place or not; so a block that is not done is
still there to be read. A turn that takes `n` blocks and puts out `ys` is `Took` (`Sm4Took`);
the lemmas `EcbEncTook` to `XtsDec8Took` say of every turn of every mode that it is one,
with the blocks that are stored early and read again in XTS, and with
`Backwards` of `sm4_core.c`, which finds the block before each as it was (`BackwardsIs`).
`OutputIInv` is both invariants. Theorems: `OutputInvariance` and `OutputExactHolds`.

**The modes of SM4.** `Sm4RInv` adds the keys (`KeysReversed`: those for decryption are
the others, reversed) and where `walk_iv` points: to the caller's IV, the block put out last
or the key stream, which all hold the chain value of the mode. `Sm4TurnTook` says which
blocks a turn takes, `EcbTurned` to `CfbDecTurned` that what it puts out is what the mode
says, by `Sm4ApplyAllIs`: `ApplyAll` is recursive, and an explicit sequence of chain
values and blocks is shown to be its only solution. Theorem: `Sm4ModeImplemented`.

**The bulk functions of AES.** A block is a sum of terms, and what has to be shown is
that the tricks of the code are equations of sums:

* `IsBlock`: a block is a set of pairs of a term and a number, and so is the block in
  the result of a SubShift. MixColumns is linear on blocks (`MixedXor`), which is why the
  equivalent inverse cipher with its mixed keys is the inverse cipher (`InvIs`).
  `EncIs` and `DecIs` say so of the single block, `Vec8Is` and `InvVec8Is` of eight, with key 0
  added before and a block folded into the last round.
* `CountersAre`, `LaneNext` and `TweaksAre`: the counters of a turn with their carries, and the
  tweaks with the signs that the code makes for eight doublings at once, are those of
  single steps.
* `BulkRInv` adds the keys (`BulkKeys`) and what the registers hold (`BulkRegs`): the chain
  value in `xmm5`, or the first block and the keys that are folded into it in `xmm0`.
  `CallChain` and `ReturnChain` say that a call takes over what the last one left.
* `EcbBulkTurned` to `XtsDecBulkTurned` are the turns.

Theorem: `ModeImplemented`.

**The AES context**, for any names and lengths of keys. `ContextIInv` says that the schedule
is the one of the last key that was taken, that rounds belong to its size, and that the
schedule for decryption, once it is said to be prepared, belongs to the same key: a step
that sets a key leaves the old one behind, unprepared. The longer part is that the three
key schedules are that of FIPS 197, word by word. `CascadeIs` says what three
shifts and four additions of a register make: each word is the sum of the one before it
and one of the old ones. `Rows256` and `Turn192Is` are the loops, the one for six words
with its three rows for twice six words, and `Fits128`, `Fits192` and `Fits256` conclude
that each word is the sum that the standard wants. Loops and rounds are recursive
functions; `StagesAre` shows once that they exist, by induction over the number of steps, and
`ExpansionIs` that the words determine the standard's recursion. Theorem:
`CurrentKeyUsedHolds`.

### 5.7 NgxRbtreeProofs

For any nodes, keys and width of the key, from `CellsAssumption` and
`KeysAssumption`: the keys fit into the type, and the type has an even number of
values. The theorems are `RedBlackHolds`, `QueueImplemented` and `LoopsClimbHolds`.

`RedBlack` is not inductive: it says that the walk has as many nodes as were
inserted, but a deletion needs to know where the node and its successor are. The
invariant `IInv` has four parts.

* The type invariant.
* `Ordered(tree, n, pos)`: the nodes have the numbers 1 to `n`; those under a node
  have the numbers from `lo` to `hi`, its left child those below its own number,
  its right child those above; a child has its parent.
* `Sorted`: the keys follow the numbers, in the comparison that is in use.
* `Balanced`: there are black heights, one number per node, that agree; between
  the calls with no red below a red (`Settled`), in the insert loop except at the
  node (`InsertAt`), in the delete loop with one black missing above the node
  (`DeleteAt`).

With numbers, what an operation does is told node by node, without induction over
the tree: a rotation leaves every number as it is and moves two spans
(`RotateOrdered`), a new leaf makes room for one number (`LeafShape`), a deletion
closes the gap (`SpliceShape`), and a successor that takes the place of the deleted
node takes its number (`RenameShape`). The turns of the loops are about colors and
heights: `InsertTurn`, `InsertEnds`, `DeleteRecolored`, `DeleteTurn`, `DeleteEnds`.
The mirror images are one lemma, as they are one operator of the model.

What the recursive functions compute is an induction along the number of nodes
under a node (`Induct`, and `Chain` for the existence of the function): `InOrder` is
the line of the nodes (`InOrderLine`), `Blacks` has one element (`BlacksHeight`),
`Min` is the first node under one (`MinFirst`), `Successor` the next
(`SuccessorNext`), and the descent of an insertion ends where the key belongs
(`DescentEnds`).

The timer comparison is no order, as it wraps around. `Ranked` says that, while the
keys are `Narrow`, there is a key from which on both comparisons go by distance;
with that both insert functions have one proof (`LeafSorted`).

`QueueImplemented` is the refinement of `KeyQueue`: the queue a tree stands for is
the sequence of the nodes by number (`ListItems`). An insertion puts the node at the
number that its leaf has (`Placed`, kept by `InsertKeeps`), which is before the first
node with a key that is later and after all others (`LeafPlace`); a deletion leaves
out one number (`Removed`, kept by `DeleteKeeps`). `SeqInserted` and `SeqRemoved` say
the same of sequences. A turn of a loop leaves the numbers as they are (`Unmoved`).

`LoopsClimbHolds` is about `Depth`, which counts the links up to the root.
`DepthFacts` shows that there is such a count in a tree in order, as each node has
fewer nodes under it than its parent. A turn that recolors moves up two levels in the
insert loop and one in the delete loop; a turn that rotates leaves the insert loop
under a black parent, and the delete loop at the root or done.

### 5.8 AlgorithmsProofs

The tree: for any set of keys, from `KeysAssumption`. The theorems are `Invariance`,
`RedBlackHolds`, `LoopsClimbHolds` and `SetImplemented`.

`rbtree.c` and `ngx_rbtree.c` are two implementations of the same tree. They differ
in what a leaf is: `NULL`, for which the fixup of a deletion keeps the parent in a
variable of its own (`up`), or the sentinel, whose parent field is written. `Drawn(t, S, p)`
draws the nodes `S` of a tree of `rbtree.c` as a tree of `ngx_rbtree.c` in which `NULL` is
the sentinel and has the parent `p`. What a function of the one does to a tree, a
function of the other does to its drawing: `SetDrawn`, `PaintDrawn`, `RelinkDrawn`,
`RotateDrawn`, and from them one lemma for each turn of the loops (`RecolorCarried`,
`InsertCarried`, `SiblingCarried`, `DeleteRecolorCarried`, `LowerCarried`,
`OuterCarried`). So the lemmas of `NgxRbtreeProofs`, instantiated as `Ngx`, are about
this tree as well, and none of the arguments about heights is made twice.

What the drawing does not take over is proved here: that a rotation gives `NULL` no
parent but leaves the nodes outside the tree alone (`Apart`), that `PlaceOf` is the
parent of the place that a deletion leaves empty (`InnerLoose`), and what the freed
node still points to.

The invariant `IInv` is `Known` for some `S`, `p`, numbers `n` and `pos`:

* `Held`: the drawing is in order, and the root's parent is `NULL`;
* `Ascending`: the keys follow the numbers;
* `Outside`: nodes that are not in the tree have no links, so that `malloc` of a key
  gives a node that leads nowhere; the node to be freed may still lead into the tree;
* `Stage`: the heights and colors that the loop allows, and for the delete loop that
  `up` is the parent of the place of `cur`, `NULL` or not (`AtDelete`).

`RedBlack` speaks of `InTree`, the keys that a search finds: that these are `S` is
`SearchFinds`, an induction like those of 5.7. `Blacks` and `Depth` are recursive over all
keys, so that the nodes outside the tree have a part in whether there is such a
function; `Outside` says what is needed.

That the tree implements `KeySet` is shown by number: the node of an ordered tree
with the number `i` is the key that is greater than `i - 1` others. The traversal gives
the keys in the order of their numbers (`InOrderKeyline`, over the ranges of numbers
that the subtrees have), `Extreme` the first or the last of a range (`ExtremeEnds`), and
`Neighbour` the number before or after (`NeighbourBeside`, whose climb from a node
without a child on that side ends below the node sought, `BeyondUp`); the least of the
keys above a number is the next (`BestAbove`, `BestBelow`). Hence every state of the
invariant answers as the set of its keys does (`InvAnswers`). A turn of a fixup loop
keeps the keys, so it is a stutter of the set (`TurnUnseen`); an insertion and a
deletion are its operations (`StepAbstract`).

The globs: `GlobInvariance` and `GlobRightHolds`, for any letters, any order of the
characters and texts of any length, from `GlobAssumption`. A comment in the code says
that it "can be easily proved that there's never a need to backtrack multiple levels".
The argument is the invariant `Accounted`, for the place `p` and the character `s` the loop
is at and the last star, after which it goes back to `bp` and `bs`:

* there is a match at all exactly if there is one from `p` and `s` on, or from `bp` on at
  some character after `bs`;
* whatever matches from `bp` and a character `t` on also matches from `p` on, as much
  later as `s` is after `bs`: what lies between the star and `p` takes one character each.

So when the characters are used up, there is no later start left (`AccountedNone`); and at
the next star, a match from an earlier start would be one from here too, since the new
star stands for what lies between (`AccountedStar`). `AccountedNext` and `AccountedBack` are
the other two turns. The second part needs that a class ends at the same place whatever
character is looked for in it (`SpansEnd`).

`Spans` and `Matches` are recursive functions, and that there are such functions is
proved: `FromTheEnd` makes a function of steps that look at later indices only, and
`SpansLater` and `MeaningsLater` say that theirs do (no span, escape or class of a
pattern leads past its end).

### 5.9 Only model-checked

Liveness (`LockProgress`, `DeadHolderFreed`, `Served`, `IdleClosed`, `Reaped`,
`WaitersGetOn`, `CallsReturn`) is out of the prover's reach. Every other property that a
passing run checks is stated by a theorem.

The trees, the globs and the ciphers compute recursively: `InOrder` and `Blacks`
over the tree, `Matches` over the pattern, schedules, rounds and blocks of a turn by
recursive functions. What a recursive definition computes needs induction, and the
library's induction theorems take a predicate as a parameter, which the provers cannot
instantiate; the inductions here are over sets of numbers (`NatInSteps`), or by a
least counterexample.

The findings' properties (`RefusedOnlyWhenFull`, `SignalsGuaranteed`) are violated, and the
counterexamples are TLC's.
