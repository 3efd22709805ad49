------------------------------ MODULE Registry ------------------------------
(* The registration of functions: reactor threads queue the requests, the   *)
(* RFIT thread takes them one by one, builds the function's code (a wasm    *)
(* module, through the cache of object files; a native library, through its *)
(* file and dlopen), pings it and inserts it into FMap, which the reactor   *)
(* threads read without a lock to serve invocations. The process may be     *)
(* killed between any two steps and started again: the files stay.          *)
(*                                                                          *)
(* A file's content is named by the bytes it was made from: md5 and object  *)
(* code alike. function.wasm is written and never read: it is left out.     *)
EXTENDS Endpoint, Sequences, FiniteSets

CONSTANTS
  Requests,     \* the registrations clients send
  Url,          \* [Requests -> url]
  FuncStr,      \* F::makeFuncStr: [<<user, funcname>> -> keys of FMap]
  None,
  Torn,         \* the content of a file whose write was cut short
  MaxQueue,     \* bound: requests waiting in the queue
  MaxHandles    \* bound: handles of one library that failed pings leak

Msg(r) == requestToMsg(Url[r])
FunctionOf(r) == <<Msg(r).user, Msg(r).funcname>>
NameOf(r) == Msg(r).funcname
Bytes(r) == Msg(r).dldata
isWasm(r) == Msg(r).type = "wasm"

Functions == {FunctionOf(r) : r \in Requests}
Names == {NameOf(r) : r \in Requests}
KeyOf == [r \in Requests |-> FuncStr[FunctionOf(r)]]
Keys == {KeyOf[r] : r \in Requests}

\* What a file of code, or a module, may be made from.
Code == {Bytes(r) : r \in Requests} \cup {None, Torn}

\* The objects of class F: its registration, the code of its module if it has
\* one, its resource (named by the memory limit) and its concurrency.
F == [req         : Requests,
      code        : Code,
      r           : {Msg(r).memsize : r \in Requests},
      concurrency : {Msg(r).concurrency : r \in Requests}]

ASSUME RegistryAssumption ==
  /\ IsFiniteSet(Requests)
  /\ None \notin Requests \cup {Torn}
  /\ None \notin F
  /\ \A r \in Requests : Bytes(r) \notin {None, Torn}

VARIABLES
  answer,       \* what each request was answered, "pending" while it is not
  queue,        \* funcRegisterQueue
  pc, cur,      \* the RFIT thread: its step, and the request it handles
  module,       \* the bytes the module of cur was compiled from
  FMap,         \* [Keys -> the function, or None]
  RMap,         \* the memory limits for which there is an R
  md5, object,  \* function.wasm.o.md5 and function.wasm.o of each function
  so,           \* function.so of each function name
  lib,          \* the loaded library of each name (external: the dynamic loader)
  interrupted,  \* history: the functions whose cache lost a write
  served        \* the last invocation: its key, and the request it was served by

thread == <<pc, cur, module>>
disk == <<md5, object, so>>
vars == <<answer, queue, thread, FMap, RMap, disk, lib, interrupted, served>>

\* A library that is not loaded; code: what calling into it may run;
\* linked: the file at its path is still the one that is mapped; lost: the file
\* was not what its registration wrote; shared: it was written over, or opened
\* again, while it was loaded.
NotLoaded ==
  [handles |-> 0, code |-> {}, linked |-> FALSE, lost |-> FALSE, shared |-> FALSE]

\* The RFIT constructor makes the R of the default resource.
Init ==
  /\ answer = [r \in Requests |-> "none"]
  /\ queue = <<>>
  /\ pc = "idle" /\ cur = None /\ module = None
  /\ FMap = [k \in Keys |-> None]
  /\ RMap = {DefaultMemory}
  /\ lib = [n \in Names |-> NotLoaded]
  /\ served = None
  /\ md5 = [f \in Functions |-> None]
  /\ object = [f \in Functions |-> None]
  /\ so = [n \in Names |-> None]
  /\ interrupted = {}

(***************************************************************************)
(* The reactor threads.                                                    *)
(***************************************************************************)
handlerNewFuncRegister(r) ==
  /\ ~Rejected(Url[r])
  /\ answer[r] \in {"none", "refused"} /\ Len(queue) < MaxQueue
  /\ answer' = [answer EXCEPT ![r] = "pending"]
  /\ queue' = Append(queue, r)
  /\ UNCHANGED <<thread, FMap, RMap, disk, lib, interrupted, served>>

HolderOf(f) == IF f = None THEN None ELSE f.req

\* Reading an unordered_map while the RFIT thread inserts into it is a race: an
\* entry that is there may be missed while the table is rehashed.
getF(k) ==
  {HolderOf(FMap[k])} \cup (IF pc = "inserting" THEN {None} ELSE {})

handlerFuncInvoke(k) ==
  /\ \E by \in getF(k) : served' = <<k, by>>
  /\ UNCHANGED <<answer, queue, thread, FMap, RMap, disk, lib, interrupted>>

(***************************************************************************)
(* The RFIT thread.                                                        *)
(***************************************************************************)
sendResponse(reply) ==
  /\ answer' = [answer EXCEPT ![cur] = reply]
  /\ pc' = "idle" /\ cur' = None /\ module' = None

existFNever(k) == FALSE

existF(k) == FMap[k] # None

\* popSafe, and the refusal of a key that is taken.
Take ==
  /\ pc = "idle" /\ queue # <<>>
  /\ LET r == Head(queue)
     IN IF existF(KeyOf[r])
        THEN /\ answer' = [answer EXCEPT ![r] = "refused"]
             /\ UNCHANGED thread
        ELSE /\ cur' = r
             /\ pc' = IF isWasm(r) THEN "parsing" ELSE "linking"
             /\ UNCHANGED <<answer, module>>
  /\ queue' = Tail(queue)
  /\ UNCHANGED <<FMap, RMap, disk, lib, interrupted, served>>

\* handleWasmFuncRegister up to the module: function.wasm is written and the
\* bytes are parsed, and either throws. (A body that is empty or no wasm fails
\* an assertion: the process ends, see Crash.)
loadBinaryModule ==
  /\ pc = "parsing"
  /\ \/ sendResponse("refused")
     \/ pc' = "caching" /\ UNCHANGED <<answer, cur, module>>
  /\ UNCHANGED <<queue, FMap, RMap, disk, lib, interrupted, served>>

isCachedObject(r) == object[FunctionOf(r)] # None

isCached(r) == md5[FunctionOf(r)] = Bytes(r)

\* The md5 of the bytes is compared with the stored one; without a match the
\* module is compiled and the md5 written, before the object file is. Opening
\* the md5 file may fail, which throws; a write that is cut short is not noticed.
compileModule ==
  LET f == FunctionOf(cur)
  IN /\ pc = "caching" /\ ~isCached(cur)
     /\ \/ /\ sendResponse("refused")
           /\ UNCHANGED <<md5, interrupted>>
        \/ /\ \E written \in {Bytes(cur), Torn} : md5' = [md5 EXCEPT ![f] = written]
           /\ module' = Bytes(cur) /\ pc' = "storing"
           /\ interrupted' = interrupted \cup {f}
           /\ UNCHANGED <<answer, cur>>
     /\ UNCHANGED <<queue, FMap, RMap, object, so, lib, served>>

\* With a match the module is built of the bytes of the object file, whatever
\* they are; a file that is not there reads as no bytes.
readObject ==
  LET code == object[FunctionOf(cur)]
  IN /\ pc = "caching" /\ isCached(cur)
     /\ module' = IF code = None THEN Torn ELSE code
     /\ pc' = "storing"
     /\ UNCHANGED <<answer, queue, cur, FMap, RMap, disk, lib, interrupted, served>>

\* The object file is written in both cases. interrupted: the cache of f is whole
\* again once the object code of cur's bytes is on disk.
storeObject ==
  LET f == FunctionOf(cur)
  IN /\ pc = "storing"
     /\ \/ /\ sendResponse("refused")
           /\ UNCHANGED <<object, interrupted>>
        \/ /\ \E written \in {module, Torn} :
                /\ object' = [object EXCEPT ![f] = written]
                /\ interrupted' = IF written = Torn THEN interrupted \cup {f}
                                  ELSE IF written = Bytes(cur) THEN interrupted \ {f}
                                  ELSE interrupted
           /\ pc' = "pinging"
           /\ UNCHANGED <<answer, cur, module>>
     /\ UNCHANGED <<queue, FMap, RMap, md5, so, lib, served>>

\* makeDL writes function.so in place, whoever uses the name; when the file is
\* the one a loaded library maps, that library's pages become the new bytes, or
\* some of them do.
Overwritten(l, written) ==
  IF l.linked THEN [l EXCEPT !.code = @ \cup {written}, !.shared = TRUE] ELSE l

\* dlopen finds a library that is loaded by its path and returns it, even if the
\* file was removed and written anew.
Opened(l, content) ==
  IF l.handles = 0
  THEN [handles |-> 1, code |-> {content}, linked |-> TRUE,
        lost |-> content # Bytes(cur), shared |-> FALSE]
  ELSE [l EXCEPT !.handles = @ + 1, !.shared = TRUE]

\* close_remove_DL: the handle is closed, if there is one, and the file removed.
Closed(l) ==
  IF l.handles <= 1 THEN NotLoaded
  ELSE [l EXCEPT !.handles = @ - 1, !.linked = FALSE]

\* makeDL and getFuncEntry: directories that cannot be made throw; a file that
\* cannot be opened, and keeps its content, or is cut short, is not noticed;
\* dlopen fails (without a handle) or the entry is not found (and the handle is
\* closed), and the file is removed.
linkNative ==
  LET n == NameOf(cur)
  IN /\ pc = "linking"
     /\ \/ sendResponse("refused") /\ UNCHANGED <<so, lib>>
        \/ \E written \in {Bytes(cur), Torn, so[n]} :
             LET l == Overwritten(lib[n], written)
             IN \/ /\ lib[n].handles = 0
                   /\ lib' = [lib EXCEPT ![n] = l]
                   /\ so' = [so EXCEPT ![n] = None]
                   /\ sendResponse("refused")
                \/ /\ lib[n].handles > 0 \/ written # None
                   /\ lib' = [lib EXCEPT ![n] = Closed(Opened(l, written))]
                   /\ so' = [so EXCEPT ![n] = None]
                   /\ sendResponse("refused")
                \/ /\ lib[n].handles > 0 \/ written # None
                   /\ lib' = [lib EXCEPT ![n] = Opened(l, written)]
                   /\ so' = [so EXCEPT ![n] = written]
                   /\ pc' = "pinging"
                   /\ UNCHANGED <<answer, cur, module>>
     /\ UNCHANGED <<queue, FMap, RMap, md5, object, interrupted, served>>

\* registerF: the R is found or made before the function is pinged.
createR == RMap' = RMap \cup {Msg(cur).memsize}

pingSucceeds ==
  /\ pc = "pinging"
  /\ createR
  /\ pc' = "inserting"
  /\ UNCHANGED <<answer, queue, cur, module, FMap, disk, lib, interrupted, served>>

\* No PONG: a native library is closed and its file removed.
pingFails ==
  LET n == NameOf(cur)
  IN /\ pc = "pinging"
     /\ createR
     /\ sendResponse("refused")
     /\ IF isWasm(cur) THEN UNCHANGED <<so, lib>>
        ELSE /\ so' = [so EXCEPT ![n] = None]
             /\ lib' = [lib EXCEPT ![n] = Closed(@)]
     /\ UNCHANGED <<queue, FMap, md5, object, interrupted, served>>

\* The ping throws: the handle of a native library is not closed.
pingThrows ==
  /\ pc = "pinging"
  /\ ~isWasm(cur) => lib[NameOf(cur)].handles < MaxHandles
  /\ createR
  /\ sendResponse("refused")
  /\ UNCHANGED <<queue, FMap, disk, lib, interrupted, served>>

\* FMap.emplace: an entry that is there is kept.
insertF ==
  LET f == [req |-> cur, code |-> module, r |-> Msg(cur).memsize,
            concurrency |-> Msg(cur).concurrency]
  IN /\ pc = "inserting"
     /\ FMap' = IF FMap[KeyOf[cur]] = None THEN [FMap EXCEPT ![KeyOf[cur]] = f] ELSE FMap
     /\ pc' = "replying"
     /\ UNCHANGED <<answer, queue, cur, module, RMap, disk, lib, interrupted, served>>

reply ==
  /\ pc = "replying"
  /\ sendResponse("ok")
  /\ UNCHANGED <<queue, FMap, RMap, disk, lib, interrupted, served>>

registering ==
  \/ Take \/ loadBinaryModule \/ compileModule \/ readObject \/ storeObject
  \/ linkNative \/ pingSucceeds \/ pingFails \/ pingThrows \/ insertF \/ reply

\* The process is killed, or ends by an assertion or by an exception of the wasm
\* runtime that nothing catches, and is started again.
Crash ==
  /\ answer' = [r \in Requests |-> "none"]
  /\ queue' = <<>>
  /\ pc' = "idle" /\ cur' = None /\ module' = None
  /\ FMap' = [k \in Keys |-> None]
  /\ RMap' = {DefaultMemory}
  /\ lib' = [n \in Names |-> NotLoaded]
  /\ served' = None
  /\ UNCHANGED <<disk, interrupted>>

Next ==
  \/ \E r \in Requests : handlerNewFuncRegister(r)
  \/ \E k \in Keys : handlerFuncInvoke(k)
  \/ registering
  \/ Crash

Spec == Init /\ [][Next]_vars

(***************************************************************************)
(* Properties.                                                             *)
(***************************************************************************)
\* What invoking f may run.
Runs(f) == IF isWasm(f.req) THEN {f.code} ELSE lib[NameOf(f.req)].code

\* The registrations whose code is kept in the same files as r's: the object cache of
\* its function, or the library of its name.
Sharers(r) ==
  {o \in Requests : /\ isWasm(o) = isWasm(r)
                    /\ IF isWasm(r) THEN FunctionOf(o) = FunctionOf(r)
                       ELSE NameOf(o) = NameOf(r)}

\* A registered function runs the bytes of its own registration, with two
\* exceptions the code has: a write of the object cache of this very function, or
\* of the library, was lost, before or at this registration; or another user's
\* library of the same name was written to, or opened from, the same path. In both
\* the damage is confined: what runs is code cut short, or that of a registration
\* that uses the same files, for wasm another version of the same function.
RunsItsOwnCode ==
  \A k \in Keys : LET f == FMap[k] IN
    f # None =>
      /\ Runs(f) \subseteq {Torn} \cup {Bytes(o) : o \in Sharers(f.req)}
      /\ \/ Runs(f) = {Bytes(f.req)}
         \/ isWasm(f.req) /\ FunctionOf(f.req) \in interrupted
         \/ ~isWasm(f.req) /\ (lib[NameOf(f.req)].lost \/ lib[NameOf(f.req)].shared)

\* The table of functions and the answers keep the promise of RegistryPromise:
\* one holder of a key between restarts, OK for the holder only, and invocations
\* served by the holder, except while an insertion is under way.
Promise == INSTANCE RegistryPromise
  WITH holder <- [k \in Keys |-> HolderOf(FMap[k])], inserting <- pc = "inserting"
PromiseKept == Promise!Spec
=============================================================================
