---------------------------- MODULE SystemCalls ----------------------------
(***************************************************************************)
(* The calls of a wasm guest into its host (src/wavm/env.cpp, process.cpp, *)
(* timing.cpp, threads.cpp, rfit.cpp, syscalls.cpp, util.cpp, dynlink.cpp, *)
(* src/threads) that change nothing but the bytes the guest passes them:   *)
(* each is the set of the ways it can end.                                 *)
(*                                                                         *)
(*   "returns"  to the guest, with a value or an errno                     *)
(*   "throws"   a std::exception                                           *)
(*   "traps"    an exception of the wasm runtime                           *)
(*   "exits0", "exits1"  a WasmExitException with code 0, or another       *)
(*   "hangs"    it never ends                                              *)
(*                                                                         *)
(* Where the arguments decide, they are parameters. A pointer outside the  *)
(* memory makes memoryRef trap, in every call that takes one.              *)
(***************************************************************************)
EXTENDS Integers

Endings == {"returns", "throws", "traps", "exits0", "exits1", "hangs"}

\* What memoryRef and memoryArrayPtr add to a call that follows a pointer.
Pointer(endings) == endings \cup {"traps"}

-----------------------------------------------------------------------------
(* env.cpp, wasm/WasmEnvironment.cpp                                       *)
\* getArgc, getArgvBufferSize: what prepareArgcArgv, or nobody, has set.
args_get == Pointer({"returns"})

\* gettid, geteuid, getegid, getgrgid and the group database.
FakeIds == {"returns"}

\* getpwuid allocates a page (WasmModule) for the one user there is.
getpwuidKnows(uid) == uid = "FAKE_UID"

getppid == {"traps"}

exitWith(code) == IF code = 0 THEN {"exits0"} ELSE {"exits1"}
s__exit == UNION {exitWith(c) : c \in 0..1}

\* The guest that gives up has the code of one that succeeds.
abort == exitWith(0)

sched_getaffinity == Pointer({"returns"})

_sysconf(name) == IF name = "NPROCESSORS_ONLN" THEN {"returns"} ELSE {"traps"}

uname == Pointer({"returns"})

environ_get == Pointer({"returns"})

random_get == Pointer({"returns"})

getcwd == Pointer({"returns"})

UnsupportedEnv == {"traps"}

Environment ==
  UNION {args_get, FakeIds, getppid, s__exit, abort, sched_getaffinity,
         _sysconf("NPROCESSORS_ONLN"), _sysconf("other"), uname, environ_get,
         random_get, getcwd, UnsupportedEnv}

-----------------------------------------------------------------------------
(* process.cpp, timing.cpp                                                 *)
\* fork, chdir, execve, kill, wait, pipe, popen, raise, system and so on.
UnsupportedProcess == {"traps"}

s__clock_gettime == Pointer({"returns"})
s__gettimeofday == Pointer({"returns"})

\* It sleeps in the worker, up to 2^31 seconds, and the worker with it.
s__nanosleep == Pointer({"returns"})

Clocks == {"realtime", "monotonic", "process", "thread", "other"}

\* One subscription after the other is slept for; the first that is not a
\* sleep on one of two clocks ends the guest.
poll_oneoff(type, clock) ==
  IF type = "clock" /\ clock \in {"realtime", "monotonic"}
  THEN Pointer({"returns"}) ELSE {"throws"}

clock_time_get(clock) ==
  IF clock = "other" THEN {"throws"} ELSE Pointer({"returns"})

UnsupportedTiming == {"traps"}

Time ==
  UNION {s__clock_gettime, s__gettimeofday, s__nanosleep, UnsupportedTiming,
         UNION {poll_oneoff(t, c) : t \in {"clock", "fd"}, c \in Clocks},
         UNION {clock_time_get(c) : c \in Clocks}}

-----------------------------------------------------------------------------
(* threads.cpp, threads/MutexManager.cpp. There is one thread in a module: *)
(* pthread_create starts none and says it did.                             *)
pthread_create == {"returns"}

\* A wait changes the word so that the guest does not wait again.
s__futex(op) ==
  IF op \in {"wait", "wake"} THEN Pointer({"returns"}) ELSE Pointer({"throws"})

\* A mutex is made when it is first named. The one thread that could release
\* a locked one is the one that waits.
lockMutex(locked) == IF locked THEN {"hangs"} ELSE {"returns"}
tryLockMutex == {"returns"}
unlockMutex == {"returns"}
destroyMutex == {"returns"}

\* mutexattr, cond_init, cond_signal, self, key_create, getspecific ...
StubbedPthreads == {"returns"}

\* equal, cond_wait, cond_timedwait, attr_init, detach ...
UnsupportedPthreads == {"traps"}

Threads ==
  UNION {pthread_create, UNION {s__futex(o) : o \in {"wait", "wake", "other"}},
         UNION {lockMutex(b) : b \in BOOLEAN}, tryLockMutex, unlockMutex,
         destroyMutex, StubbedPthreads, UnsupportedPthreads}

-----------------------------------------------------------------------------
(* rfit.cpp, util.cpp: the message of the request is that of the thread.   *)
_readInputImpl(empty) == IF empty THEN {"returns"} ELSE Pointer({"returns"})
_writeOutputImpl == Pointer({"returns"})

\* The user, the function and the entry of a Python function; of the three
\* only the user may not be empty.
get_py(what, empty) ==
  IF what = "user" /\ empty THEN {"throws"} ELSE Pointer({"returns"})

conf_flag == Pointer({"returns"})
backtrace == {"returns"}

Rfit ==
  UNION {UNION {_readInputImpl(b) : b \in BOOLEAN}, _writeOutputImpl, conf_flag,
         UNION {get_py(w, b) : w \in {"user", "func", "entry"}, b \in BOOLEAN},
         backtrace}

-----------------------------------------------------------------------------
(* syscalls.cpp, signals.cpp, libcxx.cpp, messages.cpp, scheduling.cpp,    *)
(* memory.cpp, dynlink.cpp                                                 *)
\* Linux numbers that executeSyscall knows; the calls are the ones above, those
\* of FileSystem and those of WasmModule.
Numbers == {1, 2, 10, 33, 38, 39, 78, 85, 90, 102, 125, 162, 174, 175, 186, 192,
            196, 197, 219, 220, 224, 240, 242, 265, 355, 375}

executeSyscall(number) == IF number \in Numbers THEN {} ELSE {"throws"}

\* syscall(number, args) passes gettid on, and nothing else.
syscall(number) == IF number = 224 THEN executeSyscall(number) ELSE {"traps"}

\* No signal is ever delivered, and no C++ exception of the guest thrown.
Signals == {"returns"}
UnwindIgnored == {"returns"}
CxxExceptions == {"traps"}
Messages == {"traps"}
Scheduling == {"traps"}

s__madvise == {"returns"}
s__membarrier(cmd) == IF cmd = "other" THEN {"throws"} ELSE {"returns"}
s__sigaltstack == Pointer({"returns"})
s__mprotect == {"returns"}
shm_open == {"traps"}
dlclose == {"returns"}
ffi_prep_closure_loc == {"returns"}

\* A call by pointer: an empty slot of the table, another number of parameters
\* or a floating point argument end the guest; else the function runs.
ffi_call(slot, params, type) ==
  IF slot = "empty" \/ params = "mismatch" \/ type = "float" THEN {"throws"}
  ELSE Pointer({"returns"})

Syscalls ==
  UNION {UNION {executeSyscall(n) : n \in {0, 1}}, syscall(0), syscall(224),
         Signals, UnwindIgnored, CxxExceptions, Messages, Scheduling, s__madvise,
         UNION {s__membarrier(c) : c \in {"query", "shared", "other"}},
         s__sigaltstack, s__mprotect, shm_open, dlclose, ffi_prep_closure_loc,
         ffi_call("empty", "match", "int"), ffi_call("func", "match", "int")}

SystemCall ==
  UNION {Environment, UnsupportedProcess, Time, Threads, Rfit, Syscalls}
=============================================================================
