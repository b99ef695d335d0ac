# A verification project for HONEI

HONEI is a C++ library for numerical applications on hardware with several kinds of
processors: CPU cores, CUDA and OpenCL devices, Cell SPEs, and clusters under MPI. Its
containers and operators are sequential numerics. The parts that are hard to test lie below
them: the *memory arbiter*, which keeps the copies of a block in different memories consistent,
and the *schedulers*, which spread the tasks of one operation over threads and devices.

This directory holds TLA+ modules that model those parts, configurations under which TLC
checks small instances of them, and theorems about them, for all values of their constants,
with proofs that the TLA+ proof system checks. `PROJECT.json` is the machine-readable index:
which definition stands for which lines, which run checks which property, which change of the
code each property would notice, and which theorem states which property.

All paths below are relative to the repository (`src/` is its root).

## 1. Inventory

### 1.1 Components

| Component | State it keeps | Operations | Modelled |
|---|---|---|---|
| Memory arbiter (`honei/util/memory_arbiter*`) | `_blocks`: per memory id `read_count`, `write_count`, `writer`, `readers`; a mutex, a condition variable | `register_address`, `remove_address`, `lock` (three modes), `unlock`, `copy`, two conversions, `fill` | `MemoryArbiter` |
| Memory backends (`honei/util/memory_backend*`, `backends/opencl/memory_backend.cc`) | device buffers by address | `upload`, `download`, `alloc`, `free`, `copy`, `convert`, `fill`, `knows` | per block, in `MemoryArbiter` |
| CUDA backend (`backends/cuda/memory_backend.cc`, `la/*-cuda.cc`) | a map per device | the same, dispatched to devices through the GPU pool | the dispatch, in `GPUPool` |
| Multicore thread pool (`backends/multicore/thread_pool.cc`, `thread_function.cc`) | task list, worker threads, `terminate` flags, mutex and barrier | construct, `enqueue`, worker loops, destruct | `ThreadPool`, `WorkStealing` |
| Tickets (`util/ticket.*`, `backends/multicore/ticket.*`) | `completed`, a mutex and a condition variable each; `TicketVector` | `mark`, `wait`, `push_back` | `ThreadPool`, `Dispatch` |
| Topology and policies (`backends/multicore/topology.cc`, `dispatch_policy.hh`) | successor maps of processing units, `DispatchPolicy::last` | seven policies, `apply`, `TaskComp` | `Dispatch` |
| Concurrent lists (`concurrent_deque-impl.hh`, `cas_deque-impl.hh`) | nodes, two locks, or flags swung by compare-and-swap | `push_back`, `pop_front`, `pop_back`, `empty`, ... | `CASDeque`, `ConcurrentDeque`, `TaskLists` |
| GPU pool (`backends/cuda/gpu_pool.cc`, `gpu_function.cc`) | a queue and a thread per device, `idle` flags | `enqueue`, `idle`, `flush`, `single_start`, destruct | `GPUPool` |
| Cell PPE side (`backends/cell/ppe`) | rings of instructions, SPE lists, dispatch tables | `dispatch` of instructions and queues, `run`, `load`, `enqueue`, `run_queue`, `wait`, kernel threads, destruct | `SPEKernel`, for one SPE |
| Memory pool (`util/memory_pool.hh`, `shared_array-impl.hh`) | free lists and used addresses | `alloc`, `realloc`, `free`, `release_free` | planned |
| Partitioner, log, barrier, topology enumeration | small | | planned |
| MPI, OpenCL kernels, containers, solvers, grids, visualisation, utilities | numerics, I/O | | no, see 6 |

### 1.2 How they interact

*Operators* (`la`, `math`, `swe`, `lbm`) lock the blocks of their operands in the arbiter, in the
memory of the backend they run on, do their work, and unlock. `mc::Operation::op` cuts an
index range with the partitioner, enqueues one task per part, puts the tickets into a local
`TicketVector`, and waits for it: in the schedulers an operator is a client thread that enqueues
some tasks and waits for all of them. Operators on CUDA ask the *GPU pool* first whether they run in one
of its threads (`idle`); operators on Cell build instructions and give them to the *SPE manager*, which
writes them into the ring of an SPE and may have to load another program first. The *arbiter* calls the backends, under its own mutex.
The *pool* owns the list, the workers and their barrier; *tickets* are shared by a client and
the worker that marks them; the *policies* choose which worker may take a task.

Shared state is protected by mutexes and condition variables, with few exceptions, which are
where most of the findings lie: `DispatchPolicy::last` (no lock), `global_terminate` (read outside of the
mutex of its condition variable), the concurrent lists (own synchronisation).

### 1.3 What is hard about it

The list is kept in `PROJECT.json` under `hazards`, with line numbers. In short:

* *arbiter* — two wait loops in one call with the mutex given away between them; three lock
  modes with different conditions on two counters; one condition variable for all blocks;
  which memory is up to date; what is left behind when an address is reused;
* *pool* — looking for work, sleeping, enqueueing and termination race with each other; lists
  with and without a mutex; one barrier shared by construction, work and termination; functors
  that throw; clients that sleep on a ticket;
* *work stealing* — tasks move between lists while their owners pop; threads are stolen from
  while the pool is under construction or destruction;
* *dispatch* — static history without a lock; requirements that no thread may be able to meet;
  a unit's number used as an index of a thread;
* *concurrent lists* — calls guess the length of the list without a lock and take one or two ends
  accordingly; members of both ends are read while others write them;
* *GPU pool* — `idle` reads flags and queues one after the other, and its answer decides between
  working at once and waiting for a task behind oneself; threads are deleted and restarted;
* *Cell* — four threads and two mailboxes around one ring; an instruction is fetched before its mail
  is handled; programs are exchanged while clients enqueue; two mutexes taken in both orders.

### 1.4 What makes each component correct

| Component | Properties |
|---|---|
| Arbiter, locking | writers exclude all others; the counters tell the truth; no release is missed; no deadlock except by lock order |
| Arbiter, directory | exactly the recorded memories are current; holders see current content; copies read whole sources |
| Pool, stealing | a task is in one place; is run once; then marked; waits return, and only then; shutdown loses nothing and ends |
| Dispatch | each ticket has a worker; units take turns; a requirement is met with every scheduler; one task per ticket |
| Lists | linearizable deques; each element has one owner; calls return |
| GPU pool | `idle` tells operations where they run; `flush` drains; each task is run once; all calls end |
| Cell | load 0 means that the SPE is idle; each instruction is executed once, and told so afterwards; its result arrives; all ends |
| Memory pool (planned) | an address is registered while used, never twice |

## 2. Plan

In order of importance. 1 to 5 are done.

1. **Arbiter**: `AccessLock` (abstract), `MemoryArbiter`, `MemoryArbiterProofs`.
2. **Scheduling on CPU cores**: `Executor` (abstract), `ThreadPool`, `ThreadPoolProofs`,
   `WorkStealing`, `WorkStealingProofs`, `Dispatch`, `DispatchProofs`. Both pools are shown to implement `Executor`;
   `Dispatch` justifies an assumption of `ThreadPool` (`AcceptsAssumption`).
3. **Concurrent lists**: `Deque` (abstract, atomic), `DequeMemory` (what both lists share),
   `CASDeque` and `ConcurrentDeque` at the level of their locks, flags and memory accesses,
   `TaskLists`, which has threads call them and states the refinement, `TaskListsProofs`. This
   justifies the atomic list operations of the modules in 2, and shows where they are not justified.
4. **GPU pool**: `GPUPool`, a second system that implements `Executor`, `GPUPoolProofs`,
   `GPUFlushProofs`.
5. **Cell**: `SPEKernel`, a third one, for one SPE, `SPEKernelProofs`. Left: several SPEs, with the choice among the idle
   ones by their history of opcodes.
6. **Allocation** (left): `AllocationLifecycle`, the composition of `MemoryPool` with the interface of
   the arbiter; `Partitioner` as an algorithm against a reference definition; the barrier, the log.
7. **Devices** (left): `DeviceChunks`, chunks found by address, exhaustion of a device; then
   CUDA's address maps.

Theorems still worth proving: that `CASDeque` implements `Deque` when two threads use it, or when only
its front is popped (for `ConcurrentDeque` it is proved, in any use); `NobodyLeftBehind`'s safety part
(somebody is awake).

## 3. The modules

Conventions. Names are the source's where TLA+ allows. An action is a whole handler up to
the point where it gives up its mutex. `At(place, x)` is a thread's program counter with its one
local variable. A definition that is preceded by `\* Mutant:` or `(* Mutant:` is not part of the model: it is a
plausible bug in the definition after it, and serves to show that a property would notice.

### 3.1 `MemoryArbiter`

| Model | Code |
|---|---|
| `registered`, `blocks` | `_blocks`, a map from memory id to `MemoryBlock` |
| `data[b].chunks` | the backends' maps: the devices that have a buffer for the block |
| `data[b].current`, `.torn` | *the content*: in which memories it is, and whether it was copied from something else than its source's content |
| `held` | a bag: how often each lock was granted (by the return of `lock`) and is not yet released |
| `waiting` | calls inside `_access_finished->wait` |
| `Call`, `Resume` | `lock`, `copy`, `convert_*`, `fill`, from entry or wake-up to the next wait or to the return |
| `ReleaseRead`, `ReleaseWrite` | `unlock` |
| `Write` | what the holder of a write lock does to its buffer |

`copy` has two loops, for the source and then for the destination; the model has the *phase* of a
call for that. An exception thrown before anything was changed (a block that does not exist) is a
step that changes nothing but `waiting` (`NotFound`). A backend may refuse a copy or conversion inside of its memory
(OpenCL converts nothing, CUDA wants both blocks on one device) after the arbiter has made the destination its
own: `CopyLocally` has that outcome too. That a device has no memory left is not modelled.

Numbers, addresses and sizes are not there; what matters of a block's bytes is whether they
are the block's content. Spurious wake-ups are harmless to the loops and left out. Clients keep to what
the code's callers keep to: a thread is in one call at a time, releases only what it holds, copies between
different blocks, and does not destroy the source of a copy that is under way (`Disciplined`, and a
guard of `RemoveAddress`). A thread may lock a block for reading several times, as
`cudaDotProductDVfloat` (`dot_product-cuda.cc:51-52`) does when a solver calls `DotProduct::value(r, r)`
(`conjugate_gradients.hh:69`); `held` counts that. With `SelfWaits` it may also ask for a
lock that its own locks keep it from, and then waits for ever. `MaxLocks` bounds how many locks are
held and asked for at once. The `ASSERT`s of `remove_address` are guards, as in a debug build. The two
conversions are `copy` with a different arithmetic.

`QuietSources` adds one more restriction, which the interface does *not* ask for: nobody takes a
write lock on the source of a copy that waits. Without it, copies are torn (finding 1).

### 3.2 `AccessLock`

The contract of the arbiter: blocks exist or do not, any number of read locks or one write lock
per block, each read lock as often as it was granted. `MemoryArbiter!ImplementsAccessLock` maps `registered` and `held` to themselves; the counters, the
directory and the calls in progress are hidden.

### 3.3 `ThreadPool`

| Model | Code |
|---|---|
| `kind` | the result of `ThreadPool::select_impl`: `AffinityImplementation`, or `StandardImplementation` over `std::deque` or a concurrent list |
| `main` | the thread inside the constructor or destructor, and the index it has come to |
| `worker[w]` | the thread function: `absent`, `born` (before its first signal), `look` (first look), `slow` (concurrent lists: second look, under the mutex), `wait` (on the barrier), `run`, `mark`, `gone` |
| `list`, `terminate`, `pinned` | `_tasks`, `ThreadData::terminate`, CPU affinity |
| `ticket`, `client`, `outstanding` | tickets; the threads that enqueue and wait; their `TicketVector`s |

A section under the pool's mutex is one step, and `_global_barrier->wait` gives the mutex back and sleeps in
the same step, as `pthread_cond_wait` does. With a concurrent list `push_back`,
the first `pop_front`, and the broadcast are three different steps (`Enqueue`, `TryPop`,
`Announce`). `mark()` sets `completed` and signals one waiter; the waiter tests again in its
loop (`WakeUp`). `Spurious` says who may come out of `pthread_cond_wait` without a signal.

A functor in `Faulty` throws; `Thread::thread_function` catches a standard exception, logs it, and ends
the thread; the ticket stays open.

`Drop` is guarded by what the rest of the library guarantees: the pool is a singleton, destroyed at
exit, when operators have returned, and an operator returns only after it has waited for its
`TicketVector`.

### 3.4 `WorkStealing`

The same pool with one list per worker. `gate` is the wait for the end of construction
(`steal_mutex` and the size of `_thread_fn`); `hungry` is the look with `steal_mutex` and
`local_mutex` (`std::deque`); `sleepy` is between the test of the flags and the wait, with
`local_mutex` but not the pool's mutex; `check`, `steal`, `carry` and `slow` are the same for concurrent lists, one step
per list operation. `threads` are the entries of `_thread_fn` that are there and alive; `trashed` records a use
of any other. Clients only enqueue: waiting is as in `ThreadPool`. Functors that throw and
spurious wake-ups are left to that module too, the constructor's wait included.

### 3.5 `Executor`

The contract of both pools: a task that was enqueued is taken once, its functor ends (or throws)
once, then its ticket is marked; a wait returns after that. `ThreadPool!Status` and
`WorkStealing!Status` are the refinement mappings. A client that has come back from waiting for
a ticket is one whose `TicketVector` does not hold it any more.

### 3.6 `Dispatch`

The topology is given by `SocketOf`; `LinearPos` and `AlternatingPos` are the two cyclic orders
that `topology.cc` builds, `LpuOf` the assignment of threads to units, and
`LinearEnqueueSucc`, `AlternatingEnqueueSucc` the maps that `AffinityImplementation` builds for
the policies. `NewTickets` is what the seven policies may return, each with all its arguments,
off-by-one arguments included. `apply()` is three steps: copy `last`, assign it, return it; the
assignment, of the two shared pointers of a ticket, is one step, which is enough for one
client. `Accepts` is `TaskComp`: which threads may take a task from a common list. Which list a stealing pool
pushes a task to is not modelled (6).

### 3.7 `DequeMemory`, `CASDeque`, `ConcurrentDeque`, `TaskLists`, `Deque`

`DequeMemory` has the memory that both lists share: the elements (`node`, and `heap`, those that are
allocated), the two ends (`head`, `tail`), and what guards an end (`lock`: a mutex in `ConcurrentDeque`, the flag
`_blocked` in `CASDeque`). `thread[p]` is the call a thread is in: the operation, the place in
it, how many elements it takes the list to have (`case`), the element it adds or takes (`node`), and
a pointer that it has read and not yet compared or stored (`reg`).

| Model | Code |
|---|---|
| `CallPush`, `CallPop`, `Return` | entry with `new` of the element, return with `delete` |
| `CASDeque!Guess`, `GuessAgain` | the tests of the ends without a flag, one operand a step, from left to right |
| `TakeTail`, `TakeHead`, `Check` | `tailCAS`, `headCAS` and the second look at the ends |
| `PushWrites`, `PopFrontWrites`, `PopBackWrites` | the loads and stores of ends and elements, in the order of the code |
| `Release` | the flags cleared, head first; a call that retreats starts over |
| `ConcurrentDeque!LockFront`, `LockBack`, `GiveBack`, `Write`, `Release` | the two mutexes, and the work of calls that give one of them back early |

Every access to memory that another thread may read or write at the same time is a step of its own. An end is
written by the owner of its flag only, who therefore reads it in the step that uses the value; and with both flags taken
nobody else can get at an element, so that writes to elements go with the next write to an end. Memory is sequentially
consistent (the members are `volatile`, the compare-and-swap is a full barrier on the machines the code is
written for); weaker orders are not modelled. The allocator gives out freed addresses first, the
case in which stale pointers hurt. `empty()` and `size()` have no caller that runs beside others, and are left
out.

`Deque` is the list with atomic operations, which `ThreadPool` and `WorkStealing` use.
`TaskLists!ImplementsDeque` maps `contents` to the tasks in the chain of elements from head to tail (`Contents`;
`Hops[k]` is where one is after k successors, `Chain` all of them), and `call` to what a caller knows of its
call (`CallsSeen`); `Done` says where in the code a call takes effect. `NumTasks`, `NumNodes` and `MaxCalls` are
bounds; `BoundsAssumption` says only that the first list keeps to them. `Uses`
says which thread calls what. For `ConcurrentDeque` anything; for `CASDeque` either two threads in any way, or three
that push and pop at the front, as with the pool's one list: two that push and one that pops, or one that pushes and
two or three that pop (three that only push are not among them). The third use, that of work stealing,
is finding 3.

### 3.8 `GPUPool`

| Model | Code |
|---|---|
| `threads`, `numGpus` | the members of `Implementation<GPUPool>` |
| `queue[q]`, `idle[w]`, `terminate[w]` | `tasks` of a device, the members of `GPUFunction` |
| `worker[w]` | the thread function: `top` of the loop, `wait`, `woken`, `run`, `ran` (before `idle = true`), `mark`, `pick`, `check`, `stuck` (in an operation that waits for a task behind itself), `gone` |
| `ask[x]` | how far `idle()` has come: first each thread's flag, then each queue, each under its own mutex |
| `client[c]`, `outstanding[c]` | the call a client is in, and its `TicketVector` |
| `Operate`, `Answered`, `PutOperation` | the pattern of `upload`, `download`, ... and `la/*-cuda.cc`: ask `idle()`, then work (or throw) at once, or enqueue and wait |
| `Enqueue`, `Wait` | tasks enqueued without a question |
| `Ask`, `RunAnswered` | the pattern inside of a task (`Curious`); one that is also in `Faulty` throws when it is told that it has to do the work here and the data is on another device, or before |
| `Flush`, `FlushDevice`, `Await`, `Awaited` | `flush()` |
| `Restart`, `Destroy`, `Stop`, `Join` | `single_start()`, `~GPUPool()` |

The model starts when the constructor is through: nobody has the pool before. A wait for a ticket is
blocked until the ticket is marked; the loop around the condition variable is the same as in `ThreadPool`
and shown there. Each client in `Flushers` flushes once. `single_start` is for a
client on its own, which does not leave a task open that asks `idle()`: it clears a vector that other
callers index without a mutex (hazard at `gpu_pool.cc:127`). It may throw because the pool is not idle or there is no such
device, before it has changed anything.

What the operations do with device memory is not there, and so neither is how often one asks: `upload` asks twice
(in `alloc` and itself), `download` once per chunk, which are so many `Operate`s in a row; `free` asks once and
enqueues a task per chunk, and `copy` enqueues one without asking, which is an `Operate`, if any, and
`Enqueue` with `Wait` for the others. When a client's operation throws because its data is
elsewhere, the pool sees what it sees when the client does the work itself (`direct`).

### 3.9 `SPEKernel`

One SPE, the program on it, and all threads that deal with it.

| Model | Code |
|---|---|
| `ring`, `posted`, `index`, `free`, `initial` | `instructions`, `spe_instructions`, `spe_instruction_index`, `next_free_index`, `initial_instructions` |
| `ppe` | the kernel thread: `start`, `sync` (`SyncPoint`), `event` (waits for an event), `finish`, `result` (has read a mail), `gone` |
| `loader`, `loaded` | the SPE's thread on the PPE, which loads the kernel and then runs the SPE; `spe` set |
| `spu` | the program: `ready` (reads the signal register), `fetch`, `walk`, `execute`, `result`, `answer`, `mail`, `unknown`, `stopped`; its copy of the ring |
| `signal`, `mail`, `outbox` | signal register, interrupt mailbox, mailbox |
| `client[c]` | `SPEManager::dispatch`: `prepare` (wait for an idle SPE), `kernel` (`spe->kernel()`), `enqueue`, `signal` (inside of `enqueue`, with the kernel's mutex), `halting` (waits for the halt of the old program), `run` (starts the new one) |

The manager's mutex keeps one client in `dispatch` at a time (`Quiet`). A section under
the kernel's mutex is one step, but for `enqueue`'s, which takes the SPE's mutex inside (`signal`), as
`load` takes them the other way round (`sync`). The fetch of the ring by DMA is
atomic; so is the exchange of both threads in `SPE::run`. Any kernel that knows the opcode
may be chosen (`Run`).

Two constants restrict what the model may do. `Prompt`: the result of an instruction is in its mailbox when the
kernel thread handles the mail that announces it; the SPE sends the mail first and the PPE's read does
not block (hazard in the list), so without it a result may be lost. `Straight`: clients give a
batch only to a loaded, idle kernel that knows it, and not around the ring's end. Neither is asked for by the
interface; the second is finding 4. `Prompt` is TRUE in both runs, and `Straight` in `spe_ring`, so that what happens without them (hazards
at `spe_kernel.cc:166`, `stand_alone-kernel.cc.in:92` and `spe_kernel.cc:635`) is not covered by any property; and
`EverythingEnds` excuses the deadlock of the two mutexes (`Embraced`, hazard at `spe_kernel.cc:533`). `BatchesAssumption` says that a batch is not empty and
has each instruction once, as the elements of an `SPEInstructionQueue` are different objects. Mails for debugging and profiling, results of two words, and transfer
lists are left out.

## 4. What is checked

TLC, two workers, a few seconds to a few minutes each. A run that is to pass ends with a
complete state space.

| Run | Instance | Shows |
|---|---|---|
| `arbiter_locks` | 3 threads, 2 blocks, main memory only, up to 4 locks, several of one thread on one block included | `TypeOK`, `CountsMatchLocks`, `Exclusion`, `NoLostWakeup`, refinement of `AccessLock`, `NobodyLeftBehind` |
| `arbiter_coherence` | 2 threads, 2 blocks, 2 devices, up to 3 locks, `QuietSources`, `SelfWaits` | `DirectoryIsCoherent`, `HoldersSeeCurrent`, `NoTornCopies` |
| `arbiter_torn_copy` | 2 threads, 2 blocks, 1 device, up to 4 locks, without `QuietSources` | finding 1 |
| `pool_all_kinds` | 2 workers, 2 clients, 3 tasks (any worker; worker 1; worker 2; the first throws), all three kinds, spurious wake-ups of constructor, workers and clients | one place, no lost wake-up, waiters told, nothing lost at shutdown, refinement of `Executor`; tasks, waits and shutdown end |
| `steal_all_kinds` | 2 workers, 1 client, 4 tasks, both kinds | one place, no lost wake-up, no use of trashed threads (`std::deque`), refinement of `Executor`; tasks end; shutdown ends (concurrent lists) |
| `steal_hang` | 2 workers, 1 task, `std::deque` | finding 2 |
| `lists` | 3 threads, 3 calls, lists of 0 to 4 elements, both lists, in the uses named in 3.7 | `QuietListIsLinked`, `ElementsHaveOneOwner`, refinement of `Deque`, every call returns |
| `lists_stealing` | `CASDeque`; one thread pushes, one pops at the front, one at the back | finding 3 |
| `gpu_pool` | 2 devices, 1 client that may restart or 2 clients, 4 tasks: two ask `idle()`, of which one throws, before or after, two belong to a flush; spurious wake-ups | `IdleTellsWhereOneIs`, `FlushDrains`, refinement of `Executor`, everything ends |
| `spe_ring` | a ring of 4, 3 kernels, 2 clients, 4 instructions of two opcodes, one with a result, batches of 2 and 3 | `IdleMeansIdle`, `FinishedWasExecuted`, refinement of `Executor`, everything ends |
| `spe_batch` | the same without `Straight` | finding 4 |
| `dispatch_policies` | 4 units on 2 sockets, 3 threads, all policies, histories of 4 tickets | each ticket has a thread that takes it, on the unit and socket it names; units take turns |

**Why the bounds are enough to be interesting.** Two blocks: a copy needs two, and so does a
circular wait. Three threads in `arbiter_locks`: two readers and a writer, or a holder, a waiter
and a thread that overtakes the waiter. Four locks there: two of one thread on one block beside those of
the two others, or a circular wait of all three. Two devices in `arbiter_coherence`: a block that is
current on one while another is locked; main memory is the third place. Two workers: one that
sleeps and one that works, with a task only one of them accepts. Three tasks: one that runs, one that is
queued, one that is out of the order of the list for some worker. Four tasks in `steal_all_kinds`: a
list of which half is stolen twice. Lists of 0 to 4 elements: the code tells 0, 1, 2, 3 and more
apart, and 4 becomes 5 and 3; three calls at once are what finding 3 takes. Two devices in
`gpu_pool`: `idle()` reads one flag while the other changes. A ring of 4: four instructions and
the halts between programs go around it. Three kernels: one opcode each, or both. Three
threads on four units: a unit without a thread, so that successors have to skip it. Four
tickets: one full turn and one more. Nothing else is bounded: tasks, addresses and
instructions are finite sets, no counter grows without limit, and there is no state constraint. `MaxLocks` in
`MemoryArbiter`, `MaxTickets` in `Dispatch`, `MaxCalls` in `TaskLists` and `MaxRestarts` in `GPUPool` are the bounds on
unbounded quantities.

`CHECK_DEADLOCK FALSE` everywhere: clients may wait for each other in a circle, or for
themselves (that is what `NobodyLeftBehind` is about), a pool whose workers threw comes to rest with a waiter, two mutexes of the Cell backend
may be taken in opposite orders (`Embraced`), and closed or exhausted systems stop.

**Fairness.** `MemoryArbiter`: a woken thread gets the mutex and goes on, `WF(Resume(t))`. The
mutex is held for bounded time only. Nothing about clients: locks need not be released. Weak fairness does not
say that a waiter beats those who overtake it, and the code does not either (no queue), so
`NobodyLeftBehind` says only that it is not the arbiter that leaves it behind.
`ThreadPool`, `WorkStealing`, `GPUPool`: a thread that can make a step makes one (the constructor and destructor, each
worker, each client inside of a call), which is what the host's
scheduler and its mutexes give, and functors end. Nobody has to enqueue, wait, or
destroy the pool. `TaskLists`: a thread in a call goes on; `EveryCallReturns` then says that
the retries of the compare-and-swap do not starve a call, for the bounded number of others. `SPEKernel`: the loading
thread, the kernel thread, the SPE, and clients in a call go on, and operations end.

**Liveness.** `EverythingEnds` of `ThreadPool` (tasks that have a worker left, waits,
destructor), `WorkStealing` (tasks, and the destructor with concurrent lists), `GPUPool` (tasks, calls,
destructor) and `SPEKernel` (instructions, calls, destructor); `EveryCallReturns`;
`NobodyLeftBehind`. Their excuses are named: `Deserted` and `ThreadLost` are what exceptions
of functors cause, `Embraced` is the deadlock of two mutexes that the Cell backend allows.

### 4.1 Findings

1. *Torn copies* (`arbiter_torn_copy`). `copy` waits for the source, then for the destination, and
   does not look at the source again. A client that locks the source for writing meanwhile
   is overrun; the copy also resets the source's `writer`.
2. *A destructor that hangs* (`steal_hang`). `global_terminate` and `terminate` are tested before
   the mutex of the condition variable is taken.
3. *A list that comes apart* (`lists_stealing`). In `CASDeque`, `pop_back` of more than three elements holds
   the tail only, and relies on members of the head that a `pop_front` is changing; with a
   `push_back` that has not stored `_tail->_prev` yet, a deleted element stays reachable.
4. *A batch executed twice* (`spe_batch`). `load()` and `run_queue()` both signal for a
   batch that was enqueued while the program was being loaded.

Observations without a run of their own, as no text of the repository says otherwise or the text is too
general to be refuted by a run:

* the pool's constructor waits once, without a condition, for each thread: after a spurious wake-up a
  worker may not be pinned;
* `DispatchPolicy::last` is not protected: of two clients in `apply()` both may return the ticket
  assigned last (`OneTaskPerTicket`);
* the linear policy's successor is taken on the same socket, so it never leaves the first socket it meets;
  `same_socket_as` a ticket that names only a socket gives no requirement;
* with work stealing a ticket's unit is used as a thread's number, which it is only if threads were put on units in the
  order of their numbers;
* with a concurrent list a thief may use a thread function that the destructor has deleted (`trashed`);
* a ticket that two clients wait for wakes one of them (`Shared`);
* the SPE's loading thread and a client that enqueues take two mutexes in opposite orders (`Embraced`, reachable in
  `spe_ring`);
* an SPE queue of as many elements as the ring has places never finds room for its last one, as nothing
  is signalled before; and the SPE walks its copy of the ring from place 0 on, so that what was enqueued around the end is
  executed out of order;
* `SPEManager` sorts its SPEs by loads that change under the comparison (`spe_manager.cc:84`);
* `Partitioner<tags::Cell>` rounds the size of a part down to a multiple of 16 and then makes as many as
  fit: 187 elements for 6 SPEs become 12 parts, where `partitioner.hh` says "at most max_count + 1".

## 5. What is proved

For every number of threads, blocks, memories, workers, devices, clients and tasks.

**`MemoryArbiterProofs`.** From `MemoryAssumption` (main memory, "no memory" and the devices
are different) and `MemIdsAssumption`, for every `MaxLocks`, and for clients that wait for themselves as well as for those that
do not:

* `ArbiterTypeOK`, `ArbiterExclusion`, `ArbiterCounts`, `ArbiterNoLostWakeup` from one inductive
  invariant, `LockInv`. The counters alone are not inductive: a release decrements a counter that
  must not be zero, and a grant must find no lock of another mode. As one thread may hold a read lock several times,
  `CountsMatchLocks` compares the counters with the copies in the bag; `CountTaken` and `CountGivenUp` say
  that a grant adds one of them and a release takes one away. `LockInv` adds that these copies are finitely many
  (`FiniteCounts`), and that a thread is in one call only (`OneCallEach`);
* `ArbiterImplementsAccessLock`: under `LockInv` each step is a step of `AccessLock` or leaves its
  variables alone.
* `ArbiterDirectory`, `ArbiterHoldersSeeCurrent`, `ArbiterNoTornCopies`, if
  `QuietSources`, from `CoherenceInv`: a lock's memory is among the readers, a block under a write
  lock has its holder's memory on record as writer, and the sources of waiting copies are quiet
  (`SourcesStayQuiet`, `NoWriterOfSource`). The last two are what finding 1 breaks.

**`ThreadPoolProofs`.** From the assumptions in `ThreadPool` (at least one worker,
`NoTask` is no task):

* `PoolTypeOK`;
* `PoolNoLostWakeup`: inductive with the types, since a step that gives work to a sleeper, or tells it to
  leave, broadcasts, or leaves a client in `pushed`;
* `PoolTaskInOnePlace`: needs `Fresh`, that threads whose turn has not come are absent: else
  starting a thread could wipe out a task;
* `PoolNothingLostAtShutdown`: from the former and `OpenIsOutstanding` (an open ticket is in
  some client's vector), since the destructor runs when all vectors are empty;
* `PoolWorkersArePinned`, unless the constructor wakes up spuriously: `SetUp` says that a thread
  that has not stored its id is the one the constructor waits for;
* `PoolWaitersAreTold`, unless tickets are shared: `OwnTickets` says that no ticket is in two
  vectors and that a client waits for the last ticket of its own. This is why one signal is
  enough;
* `PoolImplementsExecutor`: every step is one step of `Executor` or none, for any kind of list and
  also with shared tickets. `StatusCases` shows from `TaskInOnePlace` that the cases of
  the mapping exclude each other.

**`WorkStealingProofs`.** From the assumptions in `WorkStealing` (at least one worker and so on):

* `StealTypeOK`: not inductive alone, since a thief appends the task in its hand to its list; `HandsFull`
  says that it has one there;
* `StealTaskInOnePlace`: stealing moves half of a list in one step, so the invariant is about lists as a
  whole (`Once`: no task twice in a list; `Within`: what is in a list is nowhere else), with a lemma
  each for taking a half, popping from an end and appending. `Fresh` and `Born` say that a thread is
  started once, with an empty list;
* `StealNoLostWakeup`: `SleepyEmpty` says that a thread that is about to wait has held its
  `local_mutex` since it found nothing to do, so that no task can come in between;
* `StealNoTrashedSteal`: nobody passes the gate before all threads are in the vector (`Gated`), none is
  deleted before `global_terminate` is set (`Listed`), and with `std::deque` no thief looks
  for a victim outside of the mutex under which it has read that flag (`Guarded`);
* `StealImplementsExecutor`: every step is one of `Executor` or none; a task that a thief carries from one list
  to another counts as queued.

**`GPUPoolProofs`.** From the assumptions in `GPUPool` (`flush()` has its own tasks, which neither
ask nor throw):

* `GPUTypeOK`, `GPUTaskInOnePlace` and `GPUIdleTellsWhereOneIs` from `IInv`: which thread lives where while
  the pool is restarted or destroyed (`ThreadsInPlace`), where in it a call is (`CallsInOrder`), that the
  tasks a client is about to enqueue are new to everybody else (`Reserved`), when the flag `idle` is set
  (`FlagsInPlace`), and that only a running task that asks is in a walk of `idle()` (`AskersRun`);
* `GPUImplementsExecutor`: needs `TasksKnowTheirThread`, since a task that was told that it is outside of the
  pool would wait for a task behind itself, and never be done.

**`GPUFlushProofs`.** `GPUFlushDrains`, from `IInv` and `FInv`: no open task is lost
unless its functor threw (`NothingLost`), flush's task of a device is with this device (`SynchAtHome`), what
was enqueued before it stays before it in the queue, and is done or still with the device's one thread
when it is taken (`DueFirst`), and the client has its own tasks' tickets at the end of its vector,
the later ones done (`AwaitsSynch`). Tasks that are in no queue of a device in use would be missed:
`Spare` and `Emptied` say that `single_start` leaves none, since the walk of `idle()` has
found every queue empty and nobody else uses the pool. The proof does not need flush's last loop, over
`idle()`: the synchronising tasks alone do it.

**`DispatchProofs`.** From the assumptions in `Dispatch` (equal sockets, unit 0 on socket 0, at least one
thread):

* a position in one of the two cyclic orders is a number of predecessors, and an order of a finite
  set is thereby in bijection with its numbers (`Numbered`). So every thread has a unit, and unit 0 a
  thread (`LpuOfFacts`, `ThreadedFacts`), and the successor of a unit is a unit with a thread
  (`Successors`, from `Smallest`: a set of numbers has a smallest one);
* `DispatchTypeOK` and `DispatchServes` from `DInv`: tickets name only units and sockets with a
  thread, and relative tickets follow the one they refer to (`Good`);
* `DispatchTakesTurns`, if there is one client (`OneClient`; with two, `last` is a race): the history is the
  ticket assigned last, and so is the client's copy of it (`HistoryIsLast`), and there
  is a number q such that each unit with a thread up to the last one served, in the alternating order, has had
  q + 1 tasks and each behind it q (`InTurn`). A turn ends where the successor goes around the
  order.

**`SPEKernelProofs`.** From the assumptions in `SPEKernel` (a ring of at least two places, batches and
opcodes as said in 3.9). `SPETypeOK` holds in any use: an SPE carries out only what
it has fetched, and only an instruction with a result answers. The others have the two hypotheses
`Straight` and `Prompt`, the uses in which the code works (finding 4, and the hazard about mailboxes):

* `SPEIdleMeansIdle` and `SPEFinishedWasExecuted`, from `IInv`. What a client may rely on with a load of 0
  depends on where the SPE is on a ring that it has copied, on mails under way, and on signals.
  So `IInv` says that the places in use do not go around the end and a halt is alone there
  (`RingInOrder`, `HaltIsAlone`); that the SPE has seen nothing of the ring, or has a copy of
  all of it from `Here` on, `Here` being `index` plus the mails that were not acted upon (`SPEInPlace`); that
  a signal is for something not seen (`SignalsAreForNews`): else the SPE would fetch, and execute, what
  it is working on; where the threads and the result in flight may be meanwhile (`ThreadsInPlace`,
  `ResultsInPlace`); that what is behind the SPE was executed and its result has come, and what is before
  it was not (`ExecutedInOrder`, `AnswersInPlace`); that what is put on the ring is new, and
  one client at a time puts it there (`InstructionsAreNew`, `OneAtATime`, `HaltsAreOurs`, `CallsInOrder`);
* `SPEImplementsExecutor`: `Enqueue` or `EnqueueElement` is `Executor`'s `Enqueue`, the step of the SPE's walk that finds an
  instruction its `Take`, the end of the operation its `Finish`, the mail that the kernel thread handles
  its `Mark`. A stop of the SPE, or a new kernel, marks nothing but halts. Where the mapping could go wrong is
  the exchange of programs, which clears the ring: `IInv` says that nothing is on it then.

**`TaskListsProofs`.** From the assumptions in `DequeMemory`, if all lists have mutexes (`Mutexes`), for any number of
threads, elements and calls, and any use:

* `ListTypeOK`, `ListIsLinked` and `ListOwners`, from `IInv`. Its first half, `Control`, is about the
  mutexes. A pop gives one of them back before it writes, so that "one thread has both" is not an invariant;
  what is one is that one thread at a time looks at elements or changes them (`OneWorks`), as the mutex
  that it has kept is one that all others need before they look. The second half is about the
  sequence of the elements in the list: it is linked both ways (`Linked`), ends at the tail
  unless a push or a pop is half done there (`EndIsLast`), is long enough for a thread that has given back one
  mutex (`LongEnough`), and each allocated element is in it or with one thread (`Owned`, `NewElements`,
  `EmptyHands`). It is the chain from head to tail: there is only one such sequence (`ChainIsLinked`, by the smallest
  number of hops at which two would differ);
* `ListImplementsDeque`: a step of a thread has one of seven outcomes (`StepOutcome`): nothing to be seen from outside, an
  element more at the back, one less at the front or the back, an empty list found, a call, a return. Each
  is a step of `Deque`, or none.

**Only model-checked.** Liveness and fairness (the `...Ends`, `EveryCallReturns`, `NobodyLeftBehind`) are out of the prover's
reach. Left to TLC is also `CASDeque`: where its calls are linearized depends on what others do between two unlocked
looks, in uses (two threads; pushes and pops at the front) that the theorem would have to tell apart.

## 6. What is not modelled, and why

* Planned, see 2: memory pool, device chunks, CUDA's address maps, several SPEs, partitioner, log,
  barrier, enumeration of the topology.
* Most of the repository by lines is numerics or vendored code (SuperLU, file formats, generated
  kernels). Nothing there has a state that several actors share, so the lines that are mapped
  are a small part of the whole: the parts that schedule, lock and hand over.
* *MPI operations*: each is a fixed sequence of calls to a library that is not part of the
  repository, around numerical kernels.
* *OpenCL kernels*: caches filled on demand, by one thread.
* *Containers, operators, solvers, LBM, SWE, FEM, graphs*: floating-point numerics without
  concurrency of their own; their properties are numerical.
* *SIMD kernels and SPE programs*: straight-line data movement.
* *Configuration, profiler, file formats, visualisation, clients, tests*: input and output.
* Of the modelled parts: exceptions from device allocation, the choice of a list in a stealing pool by a ticket's unit
  (`thread_pool.cc:635`), overlapping ranges with one memory
  id, the order of destruction of a pool's members, exceptions inside the pool's constructor. They are
  listed as hazards with a note.

## 7. Running it

`tlc -config MCThreadPool_pool.cfg MCThreadPool.tla`, and likewise for the other pairs in
`PROJECT.json`; `tlapm` on each of `MemoryArbiterProofs.tla`, `ThreadPoolProofs.tla`, `WorkStealingProofs.tla`,
`GPUPoolProofs.tla`, `GPUFlushProofs.tla`, `DispatchProofs.tla`, `SPEKernelProofs.tla` and
`TaskListsProofs.tla` for the proofs (a minute to a quarter of an hour each).
