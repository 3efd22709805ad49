# A verification project for RFIT

RFIT is a function-as-a-service runtime in C++: clients register functions
(native shared objects or wasm modules) over HTTP and invoke them; the runtime
keeps *task threads* that execute the invocations under the cgroup
configuration of the function. These modules model the path of an invocation
from the dispatcher to the response, the registration of functions with its
files and libraries, and what a wasm guest does to its host: descriptor tables,
linear memory, snapshots and dynamic modules. TLC checks them on small
instances; TLAPS proves the main invariants.

Paths below are relative to the repository.

## 1. The system

### Components

| Component | Code | State | Operations | Status |
|---|---|---|---|---|
| Endpoint | `src/endpoint/` | none of its own (Pistache reactor threads) | `onRequest`, `requestToMsg` (two), `handleGetRequest` | `Endpoint.tla`: what a registration becomes; HTTP I/O and the CPU ration left out |
| RFIT | `src/RFIT/RFIT.cpp`, `src/main.cpp` | `FMap`, `RMap`, `funcRegisterQueue`, the object cache and the libraries on disk | register (native, wasm), invoke, shutdown | `Registry.tla`, `Shutdown.tla` |
| TaskPool | `src/RFIT/TaskPool/`, `include/utils/lru.h` | `R_list`, one `F_list` per resource, the pool's mutex | `dispatch`, `getRFT`, `shutdown` | `TaskPool.tla` (dispatch), `Shutdown.tla` |
| F | `src/RFIT/F/function.cpp` | resource, concurrency, `TList` | `getT`, `getIdleT`, `newT`, `pingFunc`, `shutdownAllT` | `FTaskList.tla`, `TaskPool.tla`, `Shutdown.tla`, `Registry.tla` |
| TSortList | `include/RFIT/core.h`, `src/RFIT/T/task.cpp` | the sorted list `l`, its index `map`, the cursor `nextT` | `newOne`, `takeOne`, `takeIdleOne`, `returnOne`, `shutdown`, `flush` | `TSortList.tla`, `FTaskList.tla`, `Shutdown.tla` |
| T | `src/RFIT/T/task.cpp` | `IQueue`, `workFor`, `currentResource`, `ICount`, `invokeDoneMsgQueue`, `invokeEntryMap` | the handlers of its thread, `shutdown` | `TThread.tla`, `Shutdown.tla` |
| WorkerPool, Worker | `src/RFIT/T/workerPool.cpp` | `size`, `idleWorkers`, `busyWorkers`; a queue per worker | `invoke`, `invokeDone`, `resize`, `shutdown` | `TThread.tla`, `Shutdown.tla` |
| I | `src/RFIT/I/instance.cpp` | one invocation with its copy of the wasm module | `invoke` | identity and outcome in `TThread.tla`; its copy of the module in `FileSystem.tla` and `WasmModule.tla` |
| CGroup, Resource | `src/RFIT/R/` | the hashes last written | `changeConfig`, `addCurrentThread`, `destroy` | when it changes, not what is written |
| WAVMWasmModule, WasmModule, WasmEnvironment | `src/wavm/`, `src/wasm/` | linear memory and its break, dynamic modules, table, captured output | bind, clone, execute, grow/shrink, mmap, dlopen, snapshot/restore | `WasmModule.tla`; the linker's symbol tables and the layout of arguments left out |
| System calls | `src/wavm/*.cpp` | per module | io, env, network, timing, threads, ... | `FileSystem.tla`, `WasmModule.tla` where they change state, `SystemCalls.tla` by what they end with |
| Storage | `src/storage/` | descriptor table, rights, directory iterators | open, dup, readdir, stat, ... | `FileDescriptor.tla`, `FileSystem.tla` |
| SnapshotRegistry | `src/snapshot/` | the map of snapshots | take, map | `WasmModule.tla`; deletion and transfer are called by no code |
| MutexManager | `src/threads/` | the map of guest mutexes | lock, trylock, unlock | `SystemCalls.tla` |
| Gids | `src/utils/gids.cpp` | counter, hash | `generateGid` | `Gids.tla`; the lazy initialisation left out |
| Utilities, protobuf, samples, build scripts | `src/utils`, `src/proto`, `Function`, `tasks`, `cmake` | | | `dl.cpp` and the files of code in `Registry.tla`; else not modelled: I/O, formatting, generated code. `utils::SortList` and `utils::Queue` are used by no code |

Pistache (HTTP, `PollableQueue`, `Epoll`, `ResponseWriter`) and WAVM are
external. What is assumed of them is in the head of `TThread.tla`: a queue is
first in first out and ready for the poller while it is not empty.

### How they interact

    client -> Endpoint (reactor thread) -> RFIT::handlerFuncInvoke
           -> TaskPool::dispatch -- pool mutex: F::getT, else steal an idle T, else new T
           -> T::IQueue.push     -- after the mutex
    T thread: poll -> handleIQueue -> adjustResource (checkI, resize, cgroup)
                   -> native: run it, answer, doChangeICount
                   -> wasm:   invokeEntryMap, WorkerPool::invoke -> Worker::IQueue
    Worker:   run it -> WorkerPool::invokeDone -> T::invokeDoneMsgQueue
    T thread: poll -> handleInvokeDoneMsgQueue -> answer -> doChangeICount
    doChangeICount: ICount--, F::TList.returnOne -- list mutex

    client -> Endpoint (reactor thread) -> funcRegisterQueue
    RFIT thread: popSafe -> refuse a key that is taken
                   -> wasm:   function.wasm, parse, md5 = stored? read : compile,
                              md5 file, object file, module (bind, snapshot)
                   -> native: function.so, dlopen
                   -> ping -> FMap.emplace -> answer
    I::I: a copy of the function's module: memory from the snapshot, descriptor
          table, dynamic modules and table from after the ping
    guest -> wasi or env call -> FileSystem / growMemory / dynamicLoadModule

Threads: several reactor threads, one registration thread, one thread per T,
one per worker. Locks: the pool's mutex, one per LRU list, one per `TSortList`,
one per `WorkerPool`. `ICount`, `workFor`, `currentResource` and
`invokeEntryMap` have none: they belong to the T thread.

### What makes it hard

- A T is *stolen* by another function by looking only at its load in a list.
  The list, `ICount`, the queues and the worker pool are updated at different
  moments under different locks; that the T is really unused when it is stolen
  follows from the order of these updates, and nothing in the code checks it
  except assertions and an exception no one catches.
- A dispatcher pushes after it has left the mutex, so a T may be chosen and not
  know it yet.
- The scan for an idle T copies lists and walks the copies while they change.
- `nextT` of the sorted list must be right after each of the nine branches of
  `newT` and `updateT`.
- The size of a worker pool is set when the T changes resource, its workers are
  created on demand, and the load is bounded by the function's concurrency:
  three numbers that the assertions of `workerPool.cpp` take to agree.
- Shutdown takes the locks the running threads need; registration writes maps
  the reactors read; the object cache is written in two steps.
- The files of native libraries are named by the function alone, and a library
  that is loaded is found by its path again.
- An invocation is a copy taken at two moments: its memory is that of before the
  ping, its descriptor table, its dynamic modules and its table those of after.
  Linux descriptors are shared by all copies, and never closed.
- `growMemory` takes back what `munmap` gave up, next to dynamic modules with
  guard regions and files that are mapped, and a snapshot saves only what is
  below the break.
- A directory is read through buffers that end anywhere in an entry.

The list of hazards with their lines is in `PROJECT.json`, with a note where no
property covers one.

### Correct, per component

- *TSortList*: sorted; `nextT` is the T of the next request; no assertion
  fails; an idle T is found whenever there is one.
- *T and WorkerPool*: one function at a time; user code under its own
  resource; each request answered once; every result finds its entry; every
  place comes back; every assertion of the pool holds.
- *TaskPool*: a T is in one list at most; no more Ts than needed; a T is lost
  from the lists to a function of the same name only; it drives the Ts only as
  they allow.
- *Shutdown*: it ends, and joins the RFIT thread and every T and worker it can
  reach.
- *RFIT*: a key has one function until the restart, only that registration is
  answered OK, and invocations are served by it; a function runs its own code,
  or, where a write was lost or a file is shared, no code but that of its own
  earlier versions or of its file's other users.
- *Storage*: a descriptor keeps its file; writing needs a right that every
  descriptor on the way may hand on; a directory is read once, in order.
- *Wasm modules*: memory in use is not given out again and is in the snapshot;
  dynamic modules share no table elements; an invocation sees no other's data, nor the ping's.
- *Gids, Endpoint*: ids differ; a function gets what it asked for, within limits.

## 2. The modules

| Module | What it is |
|---|---|
| `TLoads` | Abstract: what a list of task threads promises. A function from owned Ts to loads. |
| `TSortList` | The list of the code, as operators on a record `[items, nextT]`. |
| `TSortListProofs` | Lemmas: what each operation of the list does, for any list that is good. |
| `FTaskList` | One list driven by all its callers; implements `TLoads`. |
| `FTaskListProofs` | The theorems about `FTaskList`. |
| `TService` | Abstract: what the clients see. A request is placed, answered, gone. |
| `TThread` | The T threads, their pools, workers and queues. The dispatcher is an environment here; implements `TService`. |
| `TThreadProofs` | The theorems about `TThread`. |
| `TaskPool` | The dispatcher with its LRU lists and a `TSortList` per function, composed with the T threads of `TThread`; implements `TThread`. |
| `TaskPoolProofs` | The theorems about `TaskPool`, on top of those about `TThread` and the list. |
| `Shutdown` | The end of the program: extends `TaskPool`, and so the T threads and workers, with the main thread. |
| `ShutdownProofs` | The theorems about `Shutdown`, on top of those about `TaskPool`. |
| `Endpoint` | What a registration request becomes: pure arithmetic and tests. |
| `RegistryPromise` | Abstract: who holds a key, who is answered OK, who serves. |
| `Registry` | The register queue, the RFIT thread, files, libraries, `FMap`; crash and restart. Extends `Endpoint`; implements `RegistryPromise`. |
| `FileDescriptor` | One descriptor: rights, open modes, iterator, as operators on a record. |
| `FileSystem` | The tables of a function's module and of its invocations over one table of Linux descriptors; extends `FileDescriptor`. |
| `SystemCalls` | Every call of a guest that changes nothing in the host: the set of the ways it can end. |
| `WasmModule` | Memory, snapshot and dynamic modules of a function's module and its invocations; extends `SystemCalls`. |
| `Gids` | The ids. |
| `RegistryProofs` | The theorems about `Registry`, `Endpoint` and `Gids`. |
| `FileSystemProofs`, `WasmModuleProofs` | The theorems about `FileSystem`, `WasmModule`. |
| `MCFTaskList`, `MCTThread`, `MCTaskPool`, `MCShutdown`, `MCRegistry`, `MCFileSystem`, `MCWasmModule` | Instances for TLC: symmetry sets and the constant functions. |

So `TaskPool => TThread => TService`, `FTaskList => TLoads` and
`Registry => RegistryPromise`.

Definitions called *mutants* in comments are wrong versions of the definition
after them. They are part of no specification; each shows that a property fails
when the code is changed that way.

### Correspondence

`TSortList`. `l` is the sequence `items` of `[n, t]`. An iterator into a
`std::list` follows its entry, so `nextT` is the T of the entry it designates
and `NoT` is `l.end()`. `map` is the function `PosOf`. Each public operation
holds the list's mutex from start to end and is one step. `updateT` is called
with a reference into the entry it erases; the erased `shared_ptr`'s bytes are
read back unchanged (the allocator overwrites the list links only, and
another owner keeps the T alive), so the model reads the same T.

`TThread`. One action per piece of code between two points where other threads
can act:

| Action | Code |
|---|---|
| `TakeOne`, `TakeIdle`, `NewOne` | the calls of a dispatcher on a list: `getT`, `getIdleT`, `newT` |
| `Push` | `IQueue.push` after the pool's mutex |
| `Poll`, `EndHandler` | `T::run`, `handleFds`: one poll may report both queues, in either order; a handler runs until its queue is empty |
| `PopEntry` | a round of `handleIQueue`: `checkI`, `adjustResource`, `resize`, the cgroup, `ICount++`, then the start of a native function or `WorkerPool::invoke` |
| `FinishNative` | `doExecute` after the function has returned or thrown: the response |
| `WorkerDone` | `Worker::handleIQueue` and `invokeDone` (one lock) |
| `PopDone` | a round of `handleInvokeDoneMsgQueue`, up to the response |
| `DoChangeICount` | `ICount--` and `returnOne` |

`PopEntry` is one step though `resize` and `invoke` each take the pool's lock:
`resize` goes on only when no worker is busy, so no other thread uses the pool
between the two.

A failed assertion, or the exception of `checkI`, sets `aborted` to its name
and nothing happens any more. The build sets no `CMAKE_BUILD_TYPE` and no
`NDEBUG` (`CMakeLists.txt`), so assertions are active; two of them contain
calls (`task.cpp:71`, `task.cpp:322`) without which nothing would work.
`resize`'s third assertion (`newSize <= maxFuncConcurrency`) is left out: the
endpoint clamps the concurrency to that value.

The outcome of a function (success, failure, exception) decides the text of the
response and how the promise is settled; every outcome sends one response and
goes on, so the model has one.

`TaskPool`. One action per step of `dispatch` between two locks; `holder` is
the pool's mutex. `scanF` and `scanR` are the rest of the copies that the scan
iterates over. `home` and `load` of `TThread` are defined from the lists. The
LRU list of functions is keyed by the name alone, as the code has it (`NameOf`).
`Without` is the erase of one list entry, for `access` and for the `continue` that
skips the scanning function or resource itself.

`Shutdown`. The main thread is one more actor over `TaskPool`'s state: it takes
the list of each function, and for each T of it sets `shutdown_` (`TellT`), shuts
the pool down (`ShutdownPool`), and waits for the thread (`JoinT`), all under
the list's mutex (`held`). `WorkerPool::shutdown` holds the pool's lock and only
joins idle workers, which leave their poll at once, so it is one step. `T::run`
looks at `shutdown_` after poll, and `shutdown_` is set before the notification,
so a T thread that was told exits at its next poll, whatever else poll reports
(`Exit`); until then it goes on with the handler it is in. `RFITEndpoint::start`
has destroyed the endpoint, and with it joined the reactor threads, when `main`
calls `shutdown`, so `Begin` waits for the dispatches under way. `RFIT::shutdown`
notifies the RFIT thread and joins it before it touches the pool (`Begin`,
`JoinRfit`): that thread may be in poll, or in a registration that it handles to
its end (`RfitHandles`, `RfitHandled`), as often as poll reports the queue before
the notification, and leaves its loop only when poll reports that
(`RfitExits`, `rfit`). What a registration does is `Registry`'s; here it takes
time, and the fairness of `RfitHandled` says that it ends: that every ping
returns. One that does not keeps `RFIT::shutdown` in that join for ever (see the hazards).
`walked` is a history variable: the functions whose lists the walk has taken.

`Registry`. One action per write or call of the RFIT thread that others, or a
crash, can come between:

| Action | Code |
|---|---|
| `handlerNewFuncRegister`, `handlerFuncInvoke` | the reactor threads: `requestToMsg` and the push; the look-up in `FMap`, which may miss while `insertF` is under way |
| `Take` | `popSafe`, and the refusal of a key that is there |
| `loadBinaryModule` | `function.wasm` and the parse |
| `compileModule`, `readObject` | the comparison of the md5s; without a match the compilation and the md5 file, with one the object file is read, whatever it holds |
| `storeObject` | the object file, written in both cases |
| `linkNative` | `makeDL`, `dlopen`, `dlsym` |
| `pingSucceeds`, `pingFails`, `pingThrows` | `createR`, the constructor of F and `pingFunc` |
| `insertF`, `reply` | `FMap.emplace`; the response |
| `Crash` | the process ends anywhere and starts again: the files stay |

File contents are named by the bytes they come from. `writeBytesToFile` and
`makeDL` do not notice a write that is cut short: `Torn` is what is left.
`interrupted` and the fields `lost` and `shared` of a library are history
variables: they name the causes for which `RunsItsOwnCode` makes an exception.
The property does not forbid what the code does then, it confines it: to code
that was cut short, or of a registration with the same object cache or library
file (`Sharers`). A url is a record of all parts: `requestToMsg` indexes parts
that a url of an unknown type may not have, and what those reads find is any
value, as another url would give it, or the end of the process (`Crash`). Numbers
are cut to uint32, of `U32` values: 2^32 in the theorems, 2^30 for TLC, whose
integers have 32 bits.
The dynamic loader is external: a path that is loaded is not loaded again, and
a file that is mapped changes with the file.

`FileSystem`. A table is a function from numbers to descriptors; the fields
are those of `FileDescriptor`, without the ones no step looks at. `limit` is a
history variable: the rights that every descriptor on the way from the root may
hand on. The name and the number are taken before the file is opened, so a
failed open leaves an entry without a file (`NoFile`), and a failed `::dup` too.
The directory of a reader is external data: `EndOf` says where the entries end
in the bytes `fd_readdir` would write; the guest's `readdir` (the libc,
external) is `reader`. It passes the start cookie while it has seen nothing,
and that is when `fd_readdir` loads the directory. Calls that change nothing
here are sets of errnos: `CallsOnFd` and `CallsOnPath`. A C++ exception
ends the guest; a trap does so in an invocation and the ping, and ends the
process before (`Uncaught`), where only `std::exception` is caught.
`stdoutMemFd` is set by the constructor after the guest's constructors and
zygote have run, and `captureStdout` chooses any of `Garbage` until then.

`WasmModule`. Addresses are pages; the pages hold who wrote them. A growth takes
the pages above the break if it still fits in the memory that is there, else
pages at its end, and the break goes to the new end (`grow`). The new break is
computed in 32 bits (`Space` pages): a request of nearly all of the address space
takes it round, below memory in use, which the next growth then gives out again.
The model does that too, and `wrapped` remembers it for the properties, which
make an exception of memories where it has happened. `munmap` lowers
the break only for the region that ends at it (`shrunk`). `Clone` is `clone`
with `restore`: a new memory of the function's present size, filled from the
snapshot up to the snapshot's break, with no page protected: `mapSnapshot` maps
for writing over the guard regions. It has the handles and the table of after
the ping, so that a module which the ping has loaded has a handle and elements of
the table, but its memory is above the break and is given out again: `Keeps`
leaves such modules out of `RegionsDisjoint`, and `LinkedOnce` has them. The guest is external: an allocator that
returns what it was given, in parts and in any order, and writes what it owns.
`F`'s module is taken to be constructed in place, as GCC does for its
initialiser; a compiler that copied it would only remove the protection of the
function's own guard regions. Constructors, zygote and ping are what `boot` and
`pinging` may do.

`SystemCalls`. One operator for a call, or a family of calls with one behaviour;
`WasmModule!systemCall` takes any of the endings. A mutex that is locked again by
the one thread there is never returns: such a module stays for ever.

## 3. The runs

| Run | Instance | What it shows |
|---|---|---|
| `task_list` | 5 Ts, concurrency 3 | the list is sorted, `nextT` right, no assertion fails, implements `TLoads` |
| `threads_mixed` | 2 Ts, 3 requests, 3 workers; wasm and native of concurrency 2 in one resource, wasm of 1 in another | all safety properties, `invoke` finds a worker, the pool stays within its size, the inductive invariant, `TService` |
| `threads_live` | 2 Ts, 2 requests, a wasm and a native function | requests are answered, places come back |
| `threads_mixed_concurrency` | 2 wasm functions, concurrencies 2 and 1 in one resource | **violated**: `invoke`'s assertion |
| `threads_lazy_workers` | wasm of concurrency 2 with one request, then another resource | **violated**: `resize`'s assertion |
| `dispatch_steal` | 2 requests, 3 functions, one of them native, in 2 resources, two of one name, 3 Ts | one list per T, no more Ts than requests in flight, implements `TThread` |
| `shutdown_quiet` | 2 wasm functions of one resource and one name and a third of another resource, concurrency 1, 2 requests, 2 Ts, signal when none is in flight | `resize` finds all workers idle; every T can be reached until the signal, and is joined with its workers, but those of a function that lost its entry to the one of its name; none is killed; the shutdown ends, with the RFIT thread |
| `shutdown_busy_worker` | the same, signal at any time | **violated**: `Worker::kill` |
| `shutdown_native` | 2 native functions, signal at any time | **violated**: the shutdown deadlocks |
| `registry` | 2 versions of a wasm function `a`/`b-c`; native functions `a-b`/`c` (the same key) and `a`/`c` (the same library file) | a function runs its own code but for the stated causes, and then only code of its own files; implements `RegistryPromise` |
| `filesystem` | a function and 2 invocations, 2 descriptors beside the preopened, directories of 2 entries | descriptors keep their files; rights are inherited; directories are read once |
| `wasm_module` | a function and an invocation, 7 pages, 2 dynamic modules | regions never overlap and are in the snapshot, unless the break went round the 32 bits or the ping loaded the module; one handle and one part of the table per module; guard regions are protected where they were made; no foreign data |

*Bounds.* A request id is reused when its request is finished, so behaviours
are unbounded in length; what is bounded is how many are in flight. Three
requests over two Ts fill a function of concurrency 2, overflow to another T
and leave one request to another function, which is all that a step of the
code distinguishes (empty, room, full; own T, stolen T, new T). Two or three
workers are one more than any pool of the instance may have, so that a pool
that grows too far is seen. In `dispatch_steal` there is one T more than
requests: a third one is created only if the scan is wrong.
In `shutdown_quiet` two Ts are a bound: a
third is not created, which leaves out that a function without its entry and two
others each have one.
In `registry`, `MaxQueue = 2` lets a registration wait behind another of the
same key or library, and `MaxHandles = 2` lets one failed ping leak a handle;
every file can be whole, torn, missing or another's. The url of the second native
function is of an unknown type and one part short. In `filesystem` numbers go
to 6 and Linux numbers to 5: two opens or duplicates per table, one of which
finds no Linux number free. The buffer of 4 bytes holds the first entry and a
part of the second, or exactly the second; the guest opens for reading and
writing through a directory that may hand on reading only. `PingReads` is FALSE:
a ping that begins to read a directory leaves every invocation in the middle of
it (see the hazards), and the theorem has the same condition. In `wasm_module`,
seven pages are an image, two modules of three, or one and three pages of the
guest; `MaxOwned = 1` region at a time is enough to free the middle, the top or
the bottom of one before the next is asked for. `Space` is 16 pages, so that a request of 15 takes
the break round the 32 bits; of a memory where that has happened the VIEW keeps
only the size, the modules and the table. In these three runs a VIEW
leaves out of the comparison of states what no later step reads: the last
invocation that was served, who wrote a page (but for the ping), and the tables
of modules that are only to be destroyed. Symmetry is used
for Ts, requests and workers, in runs without liveness only; functions and
resources are told apart by the instance.

*Deadlock* is checked in `task_list` and `threads_live`. In the other runs of
threads and dispatcher the system stops at a failed assertion, and in the
shutdown runs when the program ends. It is checked in `registry`, `filesystem` and
`wasm_module`, where a process that can do nothing else restarts.

*Fairness* (`TThread!Fairness`): weak fairness of the push of a dispatcher, of
each T thread and of each worker. Each is a thread of its own that the
operating system schedules; a push never blocks; a T thread blocks only in
poll, which returns while a queue is ready, and on list mutexes that are
held for a bounded computation. The one assumption on the user is that a
function returns. Nothing is assumed of clients or of the start of a dispatch.
`Shutdown!Fairness` adds the main thread once the signal has come, and the RFIT
thread: poll reports a notification that stays, and a registration ends, which
assumes that pings return. Nothing makes the signal come.

### What the violations mean

The first two are assertions of `src/RFIT/T/workerPool.cpp` that legal
sequences of requests make fail, ending the process.

1. *Line 65, `threads_mixed_concurrency`.* `adjustResource` skips `resize` when
   the new function has the resource hash of the old one. The concurrency is
   not in the hash. A T that moves from a function of concurrency 1 to one of
   concurrency 2 keeps a pool of one worker and is given two requests.
   `WorkerForEach` proves that equal concurrency in equal resources is enough,
   and `threads_mixed` shows it on an instance.
2. *Line 82, `threads_lazy_workers`.* Workers are created only on demand, so a
   T may have fewer than its size: one of two here, and none after a native
   function, which sets the size and never creates a worker. With wasm
   functions of concurrency 1 only, the assertion holds (`shutdown_quiet`).
3. *`shutdown_busy_worker`.* A worker that is busy when the signal comes is
   killed, and `kill` is `assert(false)`.
4. *`shutdown_native`.* `TSortList::shutdown` joins a T thread under the list's
   mutex; a T thread that has answered a request needs that mutex to return it.

In the same situation, a request in flight at the signal, two more things may
happen that no comment or test speaks of: a request still in a queue is never
answered, and a T that was in `handleIQueue` may start a worker after its pool
was shut down, which then outlives the T it refers to.

With two functions of one name and one resource, the LRU list has one entry for
both: the Ts of the function that lost it are in no list the dispatcher visits
until it is invoked again, cannot be stolen, and are not shut down.
`shutdown_quiet` has such functions. `ServingTsReachable` and `EveryTJoined` name
that as the one way to lose a T (`Displaced`, `SameKey`); the code states no
promise about it, so there is no finding. `TsBounded` does not hold then:
`dispatch_steal` has two functions of one name in different resources only, and
the theorem has `OwnNames` for its hypothesis.

## 4. The proofs

### Task threads

`TThreadProofs` proves for every set of Ts, functions, resources, workers
and every finite set of requests, from `TThreadAssumption` (concurrency at
least 1, as `requestToMsg` clamps it; the null values are not members):

- `Inductive`: `Spec => []IInv`, and from it `TypeCorrect`, `OneFunctionPerT`,
  `SwitchesWhenIdle`, `EveryLookupSucceeds`, `CountersCorrect`,
  `OneInstancePerWorker`, `OwnResource`;
- `StolenUnused`: the action property `StolenTIsUnused`;
- `Implements`: `TThread` implements `TService`;
- `WorkerForEach`: `invoke` always finds a worker if functions of one resource
  have one concurrency;
- `PoolNeverOutgrows`: a pool has no more workers than the size `resize` gave it
  last, which need not be the concurrency of the function it runs;
- `AllWorkersIdle`: if all functions are wasm modules of concurrency 1, `resize`
  finds as many idle workers as its size says (the shutdown builds on it).

*The argument.* The properties speak of `aborted`: they hold because a guard is
never met, and the guards read counters. `IInv` therefore says where
each request is: its stage determines the one queue, hand, worker or entry it
is in (`QueueInv`, `HandInv`, `WorkerInv`, `EntryInv`), its T is in the list
of its function, and once popped works for it (`PlaceInv`); and the two
counters count: `load` the requests placed on the T, `ICount` those popped
(`CountersAgree`). Then a T with load 0 has no request anywhere, which makes
stealing safe; a T whose next instance is of another function has popped
none, so `checkI` accepts and no worker is busy; a running request has its
entry; a returning one has its place. Neither `TypeOK` nor any of the
properties is inductive alone: `ICount >= 0` needs that each request in
hand was counted, which needs that no request is in two places.

The proof has one lemma per action (`TakeOneInv`, ..., `DoChangeICountInv`);
the cardinality facts are in `Counting`, `MoveCounters` and the lemmas on
queues around them. `WorkerForEach` adds `SizeInv`, the pool's size, and an
injection from busy workers to popped requests. `PoolNeverOutgrows` needs only that idle
and busy workers are different, and that a pool is resized while none is busy.
The refinement maps `Accept`
to getting a place, `Answer` to the response, `Leave` to `doChangeICount`, and
every other step to a stutter.

### The list

`TSortListProofs` is about the operators of `TSortList`, whoever calls them.
`Good(L, max)` says that the entries are sorted, one for each T, with loads up to
`max`, and that `nextT` is at the first entry with room (`FirstFree`). This is
more than sortedness: `updateT` and `newT` start their search at `nextT`, so that
they find the right place only because the cursor is right, and the cursor is
right afterwards only because the entry went to the right place. The lemmas at
the end (`NewOneFacts`, `TakeOneFacts`, `TakeIdleFacts`, `ReturnOneFacts`,
`TakeChoice`, `IdleChoice`) say what a caller sees: the list stays good, which Ts
are in it, what their loads are, which T is chosen. No later proof opens the
sequence of entries.

`FTaskListProofs` proves the five invariants of `task_list` and the refinement of
`TLoads` (`KeepsThePromise`), for every number of Ts and every concurrency. The
inductive invariant is `Good`.

### The dispatcher

`TaskPoolProofs` proves, from `TaskPoolAssumption`:

- `DispatcherImplements`: `TaskPool` implements `TThread` with the lists for
  `home` and `load`, so that every theorem of `TThreadProofs` holds of the
  dispatcher and the threads together;
- `PoolTypeCorrect`, `OneListForEachT`;
- `EveryTStaysReachable`: a T is in hand, in the list of a function that the LRU
  lists lead to, or in that of one whose entry a function of the same resource and
  name has taken;
- under `OwnNames`, by which no two functions of a resource share a name,
  `TsStayBounded`.

*The argument.* `TTP` instantiates `TThreadProofs` as `TT` instantiates `TThread`;
the first lemmas show that the two have the same steps, so that `IInv` holds of
the composition. `Own` is the dispatcher's invariant: every list is good, the
lists are disjoint, a T in hand is in none (`ListInv`); the mutex is held by
exactly the one dispatch that scans or has a T in hand, and its request has no
place yet (`DispatchInv`). It needs `IInv` for one thing: that a T thread that
returns a request does not return one that is being dispatched (`FreeStaysFree`).
`HomeFacts` turns list membership into `home` and `load`; then each step of the
dispatcher is a step of `TThread` or a stutter (`NextOwn`).

`ReachInv`: a function whose list is not empty, or whose dispatch has passed
both accesses, is in the LRU list of its resource, or one of the same name is, and
its resource is in `rList`. The access of one function keeps the others listed but
those whose name it has; with `OwnNames` there are none (`OwnEntry`).

`CountInv` is the reason why the scan creates no T too many, although it reads
stale copies one function at a time. A T that a scan has passed had a request
when it was looked at, and may have lost it since; but it cannot leave its
list before the scan ends, because only a holder of the mutex takes a T out. So the
invariant (`Bound`) counts, for the functions the scan has yet to see (`Unseen`),
the requests placed on their Ts, and for the others the Ts: together they are
fewer than the requests, since the one that is dispatched has no place. Passing a
function trades requests for as many Ts (`SeenMore`, by a surjection from the
requests to the Ts, which is where `CountersAgree` of `TThread` is needed); a copy
leaves out only functions without Ts, by `ReachInv`; when nothing is unseen, all
Ts are counted and there is room for one more.

### The shutdown

`ShutdownProofs` proves the four invariants of `shutdown_quiet` for any number of
functions, resources, Ts, workers and requests, and for any names.
`ServingReachesEveryT` has no assumption. The others assume `Quiet`: the signal
finds no request in flight. Without it the code does abort or hang, which the
runs `shutdown_busy_worker` and `shutdown_native` show.

- `NoWorkerIsKilled`, with no other assumption;
- `ShutdownJoinsEveryT`: the walk goes through the LRU lists, so the theorem leaves
  out the Ts of functions that lost their entry to one of the same name;
- `ResizeFindsWorkers`, if functions are wasm modules of concurrency 1. It rests
  on `AllWorkersIdle` of `TThreadProofs`, whose `FullInv` says that such a pool has
  either size 0 and no worker, or size 1 and exactly one. In general `resize`
  fails (§3).

*The argument.* Until the signal the system is `TaskPool`'s (`ServeStep`), so `Own`
and `IInv` hold, and a T that does not exist has no workers (`Unborn`). With no
request in flight `IInv` says that all queues are empty and no worker is busy
(`NothingInFlight`); a T thread can then only end the handler it is in, so that
this lasts (`Calm`, `CalmKept`). `WalkInv` is the invariant of the walk: a T is
either joined and without workers (`Over`) or in the list of a function the main
thread still comes to (`Waits`), which is one of the copy it walks over, or is in
the list of a later resource, from which the copy will be made (`Ahead`). At the
signal that is `ReachInv` (`BeginWalk`); it says nothing of the order of the
lists.

### Registry

`RegistryProofs` proves, for every finite set of requests, every url and every
map of names to keys, `OwnCode` (`RunsItsOwnCode`) and `KeepsPromise` (the
refinement). `RunsItsOwnCode` is about `FMap` only; what makes it inductive is
where the code of a function comes from (`IInv`): a request is in the queue once
or in the RFIT thread's hands (`QueueInv`); the key of the one being handled is
free until it is inserted (`HolderInv`); where no write was lost the md5 is the
object file's, or matches nothing (`CacheInv`), which fails for exactly the
functions in `interrupted`; and a library has a handle for every function and
for the thread, so that it stays loaded (`LibInv`, with the cardinality of its
holders). `ConfinedInv` says of every file, module and library whose bytes it may
hold, wherever a write was lost, and that the file a library maps is there. The refinement maps `pingSucceeds` to `BeginInsert`, `insertF` to
`Insert`, every answer to `Answer`, `Crash` to `Restart`.

### Descriptor tables

`FileSystemProofs` proves, for every number of invocations, descriptors, rights,
flags and buffers, `FilesStay`, `RightsInherited`, `TypeCorrect`, and `ReadOnce`
when pings read no directory. `Inv` says of an entry (`EntryOK`) that its file is
open under its path, writable only if its limit allows, and its iterator within
the directory; `StdInv` keeps the standard descriptors, which captured output may
go to; `FreshInv` keeps the numbers that are not given out free, so that an open
overwrites no entry. The argument for the files is that nothing frees a Linux
descriptor (`Grows`). `ReaderInv` ties what a reader has seen to the iterator of
its descriptor, in every module and in the snapshot, so that a copy, which takes
one from each, gets a pair that fits. `WholeEntries` is a CHOOSE of a maximum;
that there is one is `Least`, by well-founded induction on the naturals.

### Memory of the modules

`WasmModuleProofs` proves the five properties of `wasm_module` for every number
of functions, invocations, pages, paths and elements of the table, and with no
bound on the regions a guest has but `MaxOwned`: `TypeCorrect`,
`NoForeignDataAlways`, `RegionsDisjointAlways`, `LinkedOnceAlways`,
`GuardsProtectedAlways`. No request is excluded: one that takes the break round the
32 bits sets `wrapped`, and two of the properties say nothing of such a memory;
without it a growth ends at the new break, at or above the old one.

The argument is in layers, each an invariant of its own that the next may use.
`Types` and `Fits`: a snapshot's break is within its function's memory, which
never shrinks. `Written`: a function writes only its own data before its
snapshot, and the snapshot is all of its memory that a clone gets. `Linked`: the
handles given out are 2 to n+1, so the next one is free; paths and handles
correspond; elements of the table are below its size. `LaidOut`: the guest's
regions and the modules lie between the image and the break and apart from one
another, in every module *and in every snapshot* whose break has not gone round, where only what was loaded
before the ping counts; without the second half nothing is known of a clone.
Its steps are three lemmas about regions: one more at or above the break, one
more module, and a part of one taken away, which may lower the break only if it
was the last (`LaidWithRegion`, `LaidWithModule`, `LaidWithout`). `Guarded`: what
is protected later is above the break, so that no module becomes unwritable.

### Endpoint and Gids

`RegistryProofs`, at its end: a concurrency is kept, raised to 1 or cut to the
maximum, after it was cut to 32 bits (`ConcurrencyClamped`). Below 4 GB, with any
granularity, a multiple of 16 and of the granularity is kept (`MemoryAsAsked`),
and with the default granularity any size is rounded up to 16 MB
(`MemoryRoundedUp`). A multiple of 4 GB that the granularity divides becomes 0
(`MemoryWraps`). A size below the granularity becomes 0, or the whole granularity
when it is no multiple of 16 and 16 more reach it (`MemoryBelowGranularity`).
`Gids`: two ids of one turn of the counter differ and none is 0, whatever the
draws.

### What is only model-checked

Liveness and `ENABLED`, which are beyond the prover: that requests are answered
and that a shutdown ends. Every invariant of a passing run is stated by a theorem.

## 5. Not modelled, and the plan

Not modelled because it is I/O, formatting, generated or external: see the
table. Not modelled for other reasons:

- the data race on `FMap` beyond a look-up that misses, and the races on the map
  of snapshots and on the hash of `generateGid`: undefined behaviour that has
  no outcomes to enumerate;
- the GOT of the dynamic linker, which needs the modules' symbols as data; its
  effect on the table is `resolved` of `dlopen`;
- what a memory holds after a request took its break round the 32 bits, beyond
  that the memory is given out again;
- a ping that never returns, in `Shutdown`, and a guest that never does, in
  `TThread`: their fairness excludes them;
- the CPU ration, a floating point number, and what is written to the cgroup;
- `tearDown`, deletion of snapshots and `bindToFunctionNoZygote`, which no code
  calls.

What is left of the plan: `CGroupCache`, the cached hashes against what is
written; the composition of `Registry` with `TaskPool`, so that a function can be
invoked while others are registered.
