--------------------------- MODULE RegistryProofs ---------------------------
(* Proofs about Registry, for every set of requests, urls and names:        *)
(* RunsItsOwnCode, and that Registry implements RegistryPromise; and the    *)
(* arithmetic of the entry points: what requestToMsg makes of every value   *)
(* of the url, and the ids that every request is given.                     *)
EXTENDS Registry, Gids, FiniteSetTheorems, TLAPS

Lib == [handles : Nat, code : SUBSET Code, linked : BOOLEAN,
        lost : BOOLEAN, shared : BOOLEAN]

TypeOK ==
  /\ answer \in [Requests -> {"none", "pending", "ok", "refused"}]
  /\ queue \in Seq(Requests)
  /\ pc \in {"idle", "parsing", "caching", "storing", "linking", "pinging",
             "inserting", "replying"}
  /\ cur \in IF pc = "idle" THEN {None} ELSE Requests
  /\ module \in Code
  /\ FMap \in [Keys -> F \cup {None}]
  /\ md5 \in [Functions -> Code]
  /\ object \in [Functions -> Code]
  /\ so \in [Names -> Code]
  /\ lib \in [Names -> Lib]
  /\ interrupted \subseteq Functions

\* Requests wait once, and unanswered; the one being handled waits no more.
QueueInv ==
  /\ \A i \in 1..Len(queue) : answer[queue[i]] = "pending" /\ queue[i] # cur
  /\ \A i, j \in 1..Len(queue) : queue[i] = queue[j] => i = j
  /\ pc # "idle" => answer[cur] = "pending"

\* A function is under its own key; it was answered OK, or is about to be. The
\* key of the request being handled is free until its function is inserted.
HolderInv ==
  /\ \A k \in Keys : FMap[k] # None =>
       /\ KeyOf[FMap[k].req] = k
       /\ answer[FMap[k].req] = "ok" \/ (pc = "replying" /\ cur = FMap[k].req)
  /\ pc \notin {"idle", "replying"} => FMap[KeyOf[cur]] = None
  /\ pc = "replying" => FMap[KeyOf[cur]] # None /\ FMap[KeyOf[cur]].req = cur

\* Where no write was lost, the md5 is that of the object code, or matches none.
CacheInv ==
  /\ pc \in {"parsing", "caching", "storing"} => isWasm(cur)
  /\ pc = "linking" => ~isWasm(cur)
  /\ \A f \in Functions \ interrupted : md5[f] \in {object[f], Torn}
  /\ pc = "storing" => md5[FunctionOf(cur)] \in {Bytes(cur), Torn}
  /\ pc \in {"storing", "pinging", "inserting"} /\ isWasm(cur) =>
       module = Bytes(cur) \/ FunctionOf(cur) \in interrupted
  /\ \A k \in Keys : FMap[k] # None /\ isWasm(FMap[k].req) =>
       \/ FMap[k].code = Bytes(FMap[k].req)
       \/ FunctionOf(FMap[k].req) \in interrupted

IsLibrary(r, n) == ~isWasm(r) /\ NameOf(r) = n

Holders(n) == {k \in Keys : FMap[k] # None /\ IsLibrary(FMap[k].req, n)}

HeldByThread(n) == pc \in {"pinging", "inserting"} /\ IsLibrary(cur, n)

RunsItsBytes(l, r) == l.lost \/ l.shared \/ l.code = {Bytes(r)}

\* A library has a handle for each function that uses it, and one for the
\* request that is being handled.
LibInv ==
  \A n \in Names :
    /\ lib[n].handles = 0 => lib[n] = NotLoaded
    /\ Cardinality(Holders(n)) + (IF HeldByThread(n) THEN 1 ELSE 0) <= lib[n].handles
    /\ \A k \in Holders(n) : RunsItsBytes(lib[n], FMap[k].req)
    /\ HeldByThread(n) => RunsItsBytes(lib[n], cur)

\* The bytes that were ever sent for a wasm function, and for a library's name.
WasmBytes(f) == {Bytes(r) : r \in {o \in Requests : isWasm(o) /\ FunctionOf(o) = f}}

LibBytes(n) == {Bytes(r) : r \in {o \in Requests : IsLibrary(o, n)}}

\* Files, modules and libraries hold the bytes of their own function, or name,
\* only; the file that a library maps is there.
ConfinedInv ==
  /\ \A f \in Functions : object[f] \in {None, Torn} \cup WasmBytes(f)
  /\ pc \in {"storing", "pinging", "inserting"} /\ isWasm(cur) =>
       module \in {Torn} \cup WasmBytes(FunctionOf(cur))
  /\ \A k \in Keys : FMap[k] # None /\ isWasm(FMap[k].req) =>
       FMap[k].code \in {Torn} \cup WasmBytes(FunctionOf(FMap[k].req))
  /\ \A n \in Names :
       /\ so[n] \in {None, Torn} \cup LibBytes(n)
       /\ lib[n].code \subseteq {Torn} \cup LibBytes(n)
       /\ lib[n].linked => so[n] # None

IInv == TypeOK /\ QueueInv /\ HolderInv /\ CacheInv /\ LibInv /\ ConfinedInv

-----------------------------------------------------------------------------
\* Every request has its key, function, name and bytes in the sets of them.
LEMMA Sets ==
  /\ None \in Code /\ Torn \in Code
  /\ \A r \in Requests :
       /\ KeyOf[r] \in Keys /\ FunctionOf(r) \in Functions /\ NameOf(r) \in Names
       /\ KeyOf[r] = FuncStr[FunctionOf(r)]
       /\ Bytes(r) \in Code /\ Bytes(r) \notin {None, Torn}
       /\ r # None
  BY RegistryAssumption DEF KeyOf, Keys, Functions, Names, Code

\* The head of the queue is a request, and the tail has one fewer.
LEMMA Waiting ==
  ASSUME TypeOK, queue # <<>>
  PROVE  /\ Head(queue) \in Requests /\ Head(queue) = queue[1] /\ 1 \in 1..Len(queue)
         /\ Tail(queue) \in Seq(Requests) /\ Len(Tail(queue)) = Len(queue) - 1
         /\ \A i \in 1..Len(Tail(queue)) :
              Tail(queue)[i] = queue[i + 1] /\ i + 1 \in 1..Len(queue)
  BY DEF TypeOK

\* The registry starts in the invariant.
LEMMA InitInv == Init => IInv
<1> SUFFICES ASSUME Init PROVE IInv
  OBVIOUS
<1>1. TypeOK
  BY Sets DEF Init, TypeOK, Code, Lib, NotLoaded
<1>2. QueueInv
  BY DEF Init, QueueInv
<1>3. HolderInv
  BY DEF Init, HolderInv
<1>4. CacheInv
  BY DEF Init, CacheInv
<1>5. LibInv
  <2>1. \A n \in Names : Holders(n) = {}
    BY DEF Init, Holders
  <2>2. \A n \in Names : lib[n] = NotLoaded /\ ~HeldByThread(n)
    BY DEF Init, HeldByThread
  <2> QED
    BY <2>1, <2>2, FS_EmptySet DEF LibInv, NotLoaded
<1>6. ConfinedInv
  BY DEF Init, ConfinedInv, NotLoaded
<1> QED
  BY <1>1, <1>2, <1>3, <1>4, <1>5, <1>6 DEF IInv

\* The dynamic loader's operations keep a library a library.
LEMMA LibTypes ==
  /\ NotLoaded \in Lib
  /\ \A l \in Lib : Closed(l) \in Lib
  /\ \A l \in Lib, w \in Code : Overwritten(l, w) \in Lib
  /\ \A l \in Lib, w \in Code : Opened(l, w) \in Lib
<1>1. NotLoaded \in Lib
  BY DEF NotLoaded, Lib
<1>2. ASSUME NEW l \in Lib PROVE Closed(l) \in Lib
  <2>1. CASE l.handles <= 1
    BY <1>1, <2>1 DEF Closed
  <2>2. CASE ~(l.handles <= 1)
    <3>1. Closed(l) = [handles |-> l.handles - 1, code |-> l.code, linked |-> FALSE,
                       lost |-> l.lost, shared |-> l.shared]
      BY <2>2 DEF Closed, Lib
    <3>2. l.handles - 1 \in Nat
      BY <2>2 DEF Lib
    <3> QED
      BY <3>1, <3>2 DEF Lib
  <2> QED
    BY <2>1, <2>2
<1>3. ASSUME NEW l \in Lib, NEW w \in Code PROVE Overwritten(l, w) \in Lib
  BY DEF Overwritten, Lib
<1>4. ASSUME NEW l \in Lib, NEW w \in Code PROVE Opened(l, w) \in Lib
  <2>1. CASE l.handles = 0
    BY <2>1 DEF Opened, Lib
  <2>2. CASE l.handles # 0
    <3>1. Opened(l, w) = [handles |-> l.handles + 1, code |-> l.code, linked |-> l.linked,
                          lost |-> l.lost, shared |-> TRUE]
      BY <2>2 DEF Opened, Lib
    <3> QED
      BY <3>1 DEF Lib
  <2> QED
    BY <2>1, <2>2
<1> QED
  BY <1>1, <1>2, <1>3, <1>4

New == [req |-> cur, code |-> module, r |-> Msg(cur).memsize,
        concurrency |-> Msg(cur).concurrency]

\* What insertF puts into FMap is a function with the thread's request and
\* module.
LEMMA NewType ==
  ASSUME cur \in Requests, module \in Code
  PROVE  New \in F /\ New # None /\ New.req = cur /\ New.code = module
  BY RegistryAssumption DEF New, F

\* Every step keeps the types.
LEMMA TypeStep ==
  ASSUME TypeOK, [Next]_vars
  PROVE  TypeOK'
<1> USE Sets DEF TypeOK
<1>1. ASSUME NEW r \in Requests, handlerNewFuncRegister(r) PROVE TypeOK'
  BY <1>1 DEF handlerNewFuncRegister, thread, disk
<1>2. ASSUME NEW k \in Keys, handlerFuncInvoke(k) PROVE TypeOK'
  BY <1>2 DEF handlerFuncInvoke, thread, disk
<1>3. CASE Take
  BY <1>3, Waiting DEF Take, existF, thread, disk
<1>4. CASE loadBinaryModule
  BY <1>4 DEF loadBinaryModule, sendResponse, thread, disk
<1>5. CASE compileModule
  BY <1>5 DEF compileModule, sendResponse, isCached, thread, disk
<1>6. CASE readObject
  BY <1>6 DEF readObject, isCached, thread, disk
<1>7. CASE storeObject
  BY <1>7 DEF storeObject, sendResponse, thread, disk
<1>8. CASE linkNative
  <2>1. /\ cur \in Requests /\ NameOf(cur) \in Names
        /\ \A w \in {Bytes(cur), Torn, so[NameOf(cur)]} : w \in Code
    BY <1>8 DEF linkNative
  <2>2. so' \in [Names -> Code] /\ lib' \in [Names -> Lib]
    <3>1. ASSUME NEW w \in {Bytes(cur), Torn, so[NameOf(cur)]}
          PROVE  /\ Overwritten(lib[NameOf(cur)], w) \in Lib
                 /\ Opened(Overwritten(lib[NameOf(cur)], w), w) \in Lib
                 /\ Closed(Opened(Overwritten(lib[NameOf(cur)], w), w)) \in Lib
      BY <2>1, LibTypes
    <3>2. ASSUME NEW l \in Lib, NEW w \in Code,
                 lib' = [lib EXCEPT ![NameOf(cur)] = l], so' = [so EXCEPT ![NameOf(cur)] = w]
          PROVE  so' \in [Names -> Code] /\ lib' \in [Names -> Lib]
      BY <2>1, <3>2
    <3>3. CASE UNCHANGED <<so, lib>>
      BY <3>3
    <3>4. CASE ~UNCHANGED <<so, lib>>
      <4>1. PICK w \in {Bytes(cur), Torn, so[NameOf(cur)]} :
              LET l == Overwritten(lib[NameOf(cur)], w)
              IN /\ so' \in {[so EXCEPT ![NameOf(cur)] = None], [so EXCEPT ![NameOf(cur)] = w]}
                 /\ lib' \in {[lib EXCEPT ![NameOf(cur)] = l],
                              [lib EXCEPT ![NameOf(cur)] = Closed(Opened(l, w))],
                              [lib EXCEPT ![NameOf(cur)] = Opened(l, w)]}
        BY <1>8, <3>4 DEF linkNative
      <4> QED
        BY <2>1, <3>1, <3>2, <4>1
    <3> QED
      BY <3>3, <3>4
  <2> QED
    <3>1. UNCHANGED <<queue, FMap, md5, object, interrupted>>
      BY <1>8 DEF linkNative
    <3>2. sendResponse("refused") \/ (pc' = "pinging" /\ UNCHANGED <<answer, cur, module>>)
      BY <1>8 DEF linkNative
    <3>3. pc # "idle"
      BY <1>8 DEF linkNative
    <3> QED
      BY <2>1, <2>2, <3>1, <3>2, <3>3 DEF sendResponse
<1>9. CASE pingSucceeds
  BY <1>9 DEF pingSucceeds, createR, thread, disk
<1>10. CASE pingFails
  <2>1. cur \in Requests /\ NameOf(cur) \in Names
    BY <1>10 DEF pingFails
  <2>2. Closed(lib[NameOf(cur)]) \in Lib
    BY <2>1, LibTypes
  <2>3. so' \in [Names -> Code] /\ lib' \in [Names -> Lib]
    <3>1. CASE isWasm(cur)
      BY <1>10, <3>1 DEF pingFails
    <3>2. CASE ~isWasm(cur)
      <4>1. /\ lib' = [lib EXCEPT ![NameOf(cur)] = Closed(lib[NameOf(cur)])]
            /\ so' = [so EXCEPT ![NameOf(cur)] = None]
        BY <1>10, <3>2 DEF pingFails
      <4> QED
        BY <2>1, <2>2, <4>1
    <3> QED
      BY <3>1, <3>2
  <2> QED
    BY <1>10, <2>1, <2>3 DEF pingFails, sendResponse
<1>11. CASE pingThrows
  BY <1>11 DEF pingThrows, createR, sendResponse, thread, disk
<1>12. CASE insertF
  <2>1. New \in F
    BY <1>12, NewType DEF insertF
  <2>2. FMap' \in [Keys -> F \cup {None}]
    BY <1>12, <2>1 DEF insertF, New
  <2> QED
    BY <1>12, <2>2 DEF insertF, disk
<1>13. CASE reply
  BY <1>13 DEF reply, sendResponse, thread, disk
<1>14. CASE Crash
  <2>1. lib' \in [Names -> Lib]
    BY <1>14, LibTypes DEF Crash
  <2> QED
    BY <1>14, <2>1 DEF Crash, disk
<1>15. CASE UNCHANGED vars
  BY <1>15 DEF vars, thread, disk
<1> QED
  BY <1>1, <1>2, <1>3, <1>4, <1>5, <1>6, <1>7, <1>8, <1>9, <1>10, <1>11, <1>12, <1>13, <1>14, <1>15 DEF Next, registering

\* Every step keeps a pending request in one place, the queue or the RFIT
\* thread.
LEMMA QueueStep ==
  ASSUME TypeOK, TypeOK', QueueInv, [Next]_vars
  PROVE  QueueInv'
<1> USE Sets DEF TypeOK, QueueInv
<1>1. ASSUME NEW r \in Requests, handlerNewFuncRegister(r) PROVE QueueInv'
  BY <1>1 DEF handlerNewFuncRegister, thread, disk
<1>2. ASSUME NEW k \in Keys, handlerFuncInvoke(k) PROVE QueueInv'
  BY <1>2 DEF handlerFuncInvoke, thread, disk
<1>3. CASE Take
  BY <1>3, Waiting DEF Take, existF, thread, disk
<1>4. CASE loadBinaryModule
  BY <1>4 DEF loadBinaryModule, sendResponse, thread, disk
<1>5. CASE compileModule
  BY <1>5 DEF compileModule, sendResponse, isCached, thread, disk
<1>6. CASE readObject
  BY <1>6 DEF readObject, isCached, thread, disk
<1>7. CASE storeObject
  BY <1>7 DEF storeObject, sendResponse, thread, disk
<1>8. CASE linkNative
  BY <1>8 DEF linkNative, sendResponse, Overwritten, Opened, Closed, NotLoaded, thread, disk
<1>9. CASE pingSucceeds
  BY <1>9 DEF pingSucceeds, createR, thread, disk
<1>10. CASE pingFails
  BY <1>10 DEF pingFails, createR, sendResponse, Closed, NotLoaded, thread, disk
<1>11. CASE pingThrows
  BY <1>11 DEF pingThrows, createR, sendResponse, thread, disk
<1>12. CASE insertF
  BY <1>12 DEF insertF, thread, disk
<1>13. CASE reply
  BY <1>13 DEF reply, sendResponse, thread, disk
<1>14. CASE Crash
  BY <1>14 DEF Crash, thread, disk, NotLoaded
<1>15. CASE UNCHANGED vars
  BY <1>15 DEF vars, thread, disk
<1> QED
  BY <1>1, <1>2, <1>3, <1>4, <1>5, <1>6, <1>7, <1>8, <1>9, <1>10, <1>11, <1>12, <1>13, <1>14, <1>15 DEF Next, registering

\* A function in FMap has a registration.
LEMMA HolderTypes ==
  ASSUME TypeOK, NEW k \in Keys, FMap[k] # None
  PROVE  FMap[k].req \in Requests /\ FMap[k] \in F
  BY DEF TypeOK, F

\* Every step keeps FMap and the answers in agreement.
LEMMA HolderStep ==
  ASSUME TypeOK, TypeOK', QueueInv, HolderInv, [Next]_vars
  PROVE  HolderInv'
<1> USE Sets, HolderTypes DEF TypeOK, QueueInv, HolderInv
<1>1. ASSUME NEW r \in Requests, handlerNewFuncRegister(r) PROVE HolderInv'
  BY <1>1 DEF handlerNewFuncRegister, thread, disk
<1>2. ASSUME NEW k \in Keys, handlerFuncInvoke(k) PROVE HolderInv'
  BY <1>2 DEF handlerFuncInvoke, thread, disk
<1>3. CASE Take
  BY <1>3, Waiting DEF Take, existF, thread, disk
<1>4. CASE loadBinaryModule
  BY <1>4 DEF loadBinaryModule, sendResponse, thread, disk
<1>5. CASE compileModule
  BY <1>5 DEF compileModule, sendResponse, isCached, thread, disk
<1>6. CASE readObject
  BY <1>6 DEF readObject, isCached, thread, disk
<1>7. CASE storeObject
  BY <1>7 DEF storeObject, sendResponse, thread, disk
<1>8. CASE linkNative
  BY <1>8 DEF linkNative, sendResponse, Overwritten, Opened, Closed, NotLoaded, thread, disk
<1>9. CASE pingSucceeds
  BY <1>9 DEF pingSucceeds, createR, thread, disk
<1>10. CASE pingFails
  BY <1>10 DEF pingFails, createR, sendResponse, Closed, NotLoaded, thread, disk
<1>11. CASE pingThrows
  BY <1>11 DEF pingThrows, createR, sendResponse, thread, disk
<1>12. CASE insertF
  <2>1. cur \in Requests /\ New # None /\ New.req = cur /\ FMap[KeyOf[cur]] = None
    BY <1>12, NewType DEF insertF
  <2>2. FMap' = [FMap EXCEPT ![KeyOf[cur]] = New]
    BY <1>12, <2>1 DEF insertF, New
  <2> QED
    BY <1>12, <2>1, <2>2 DEF insertF
<1>13. CASE reply
  BY <1>13 DEF reply, sendResponse, thread, disk
<1>14. CASE Crash
  BY <1>14 DEF Crash, thread, disk, NotLoaded
<1>15. CASE UNCHANGED vars
  BY <1>15 DEF vars, thread, disk
<1> QED
  BY <1>1, <1>2, <1>3, <1>4, <1>5, <1>6, <1>7, <1>8, <1>9, <1>10, <1>11, <1>12, <1>13, <1>14, <1>15 DEF Next, registering

\* Every step keeps an uninterrupted object cache the code of its md5.
LEMMA CacheStep ==
  ASSUME TypeOK, TypeOK', HolderInv, CacheInv, [Next]_vars
  PROVE  CacheInv'
<1> USE Sets, HolderTypes DEF TypeOK, HolderInv, CacheInv
<1>1. ASSUME NEW r \in Requests, handlerNewFuncRegister(r) PROVE CacheInv'
  BY <1>1 DEF handlerNewFuncRegister, thread, disk
<1>2. ASSUME NEW k \in Keys, handlerFuncInvoke(k) PROVE CacheInv'
  BY <1>2 DEF handlerFuncInvoke, thread, disk
<1>3. CASE Take
  BY <1>3, Waiting DEF Take, existF, thread, disk
<1>4. CASE loadBinaryModule
  BY <1>4 DEF loadBinaryModule, sendResponse, thread, disk
<1>5. CASE compileModule
  BY <1>5 DEF compileModule, sendResponse, isCached, thread, disk
<1>6. CASE readObject
  BY <1>6 DEF readObject, isCached, thread, disk
<1>7. CASE storeObject
  <2> DEFINE f == FunctionOf(cur)
  <2>1. /\ cur \in Requests /\ f \in Functions /\ isWasm(cur) /\ FMap[KeyOf[cur]] = None
        /\ md5[f] \in {Bytes(cur), Torn}
        /\ module = Bytes(cur) \/ f \in interrupted
    BY <1>7 DEF storeObject
  <2>2. CASE sendResponse("refused") /\ UNCHANGED <<object, interrupted>>
    BY <1>7, <2>2 DEF storeObject, sendResponse
  <2>3. ASSUME NEW written \in {module, Torn},
               object' = [object EXCEPT ![f] = written],
               interrupted' = IF written = Torn THEN interrupted \cup {f}
                              ELSE IF written = Bytes(cur) THEN interrupted \ {f}
                              ELSE interrupted,
               pc' = "pinging", UNCHANGED <<answer, cur, module>>
        PROVE  CacheInv'
    <3>1. UNCHANGED <<FMap, md5>>
      BY <1>7 DEF storeObject
    <3>2. \A g \in Functions \ interrupted' : md5'[g] \in {object'[g], Torn}
      <4> SUFFICES ASSUME NEW g \in Functions, g \notin interrupted'
                   PROVE  md5'[g] \in {object'[g], Torn}
        OBVIOUS
      <4>1. CASE g # f
        BY <2>3, <3>1, <4>1
      <4>2. CASE g = f
        <5>1. written # Torn
          BY <2>3, <4>2
        <5>2. written = Bytes(cur)
          BY <2>1, <2>3, <4>2, <5>1
        <5> QED
          <6>1. object'[f] = Bytes(cur)
            BY <2>1, <2>3, <5>2
          <6>2. md5'[f] \in {Bytes(cur), Torn}
            BY <2>1, <3>1
          <6> QED
            BY <4>2, <6>1, <6>2
      <4> QED
        BY <4>1, <4>2
    <3>3. module' = Bytes(cur') \/ f \in interrupted'
      BY <2>1, <2>3
    <3>4. ASSUME NEW k \in Keys, FMap[k] # None, isWasm(FMap[k].req)
          PROVE  FMap[k].code = Bytes(FMap[k].req) \/ FunctionOf(FMap[k].req) \in interrupted'
      <4>1. FunctionOf(FMap[k].req) # f
        <5>1. FMap[k].req \in Requests /\ KeyOf[FMap[k].req] = k
          BY <3>4
        <5> QED
          BY <2>1, <3>4, <5>1
      <4> QED
        BY <2>3, <3>4, <4>1
    <3> QED
      BY <2>3, <3>1, <3>2, <3>3, <3>4
  <2> QED
    BY <1>7, <2>2, <2>3 DEF storeObject
<1>8. CASE linkNative
  BY <1>8 DEF linkNative, sendResponse, Overwritten, Opened, Closed, NotLoaded, thread, disk
<1>9. CASE pingSucceeds
  BY <1>9 DEF pingSucceeds, createR, thread, disk
<1>10. CASE pingFails
  BY <1>10 DEF pingFails, createR, sendResponse, Closed, NotLoaded, thread, disk
<1>11. CASE pingThrows
  BY <1>11 DEF pingThrows, createR, sendResponse, thread, disk
<1>12. CASE insertF
  BY <1>12 DEF insertF, thread, disk
<1>13. CASE reply
  BY <1>13 DEF reply, sendResponse, thread, disk
<1>14. CASE Crash
  BY <1>14 DEF Crash, thread, disk, NotLoaded
<1>15. CASE UNCHANGED vars
  BY <1>15 DEF vars, thread, disk
<1> QED
  BY <1>1, <1>2, <1>3, <1>4, <1>5, <1>6, <1>7, <1>8, <1>9, <1>10, <1>11, <1>12, <1>13, <1>14, <1>15 DEF Next, registering

-----------------------------------------------------------------------------
\* A library is held by finitely many functions.
LEMMA HoldersFinite ==
  ASSUME NEW n \in Names
  PROVE  IsFiniteSet(Holders(n)) /\ Cardinality(Holders(n)) \in Nat
<1>1. IsFiniteSet(Keys)
  <2>1. KeyOf \in Surjection(Requests, Keys)
    BY DEF KeyOf, Keys, Surjection
  <2> QED
    BY <2>1, RegistryAssumption, FS_Surjection
<1>2. Holders(n) \subseteq Keys
  BY DEF Holders
<1> QED
  BY <1>1, <1>2, FS_Subset, FS_CardinalityType

\* LibInv of one library, and what a step that keeps FMap does to it.
LibOK(n) ==
  /\ lib[n].handles = 0 => lib[n] = NotLoaded
  /\ Cardinality(Holders(n)) + (IF HeldByThread(n) THEN 1 ELSE 0) <= lib[n].handles
  /\ \A k \in Holders(n) : RunsItsBytes(lib[n], FMap[k].req)
  /\ HeldByThread(n) => RunsItsBytes(lib[n], cur)

\* A step that leaves a library and its holders alone keeps what holds of it.
LEMMA LibSame ==
  ASSUME TypeOK, LibInv, NEW n \in Names, UNCHANGED FMap, lib'[n] = lib[n],
         HeldByThread(n)' => HeldByThread(n), HeldByThread(n)' => cur' = cur
  PROVE  LibOK(n)'
<1>1. Holders(n)' = Holders(n)
  BY DEF Holders
<1> QED
  BY <1>1, HoldersFinite DEF LibInv, LibOK, TypeOK, Lib

\* A library opened for the thread: the first handle loads the file, any other
\* marks it as shared.
LEMMA LibOpened ==
  ASSUME TypeOK, LibInv, NEW n \in Names, NEW w \in Code, UNCHANGED <<FMap, cur>>,
         lib'[n] = Opened(Overwritten(lib[n], w), w), ~HeldByThread(n)
  PROVE  LibOK(n)'
<1>1. Holders(n)' = Holders(n)
  BY DEF Holders
<1>2. lib[n] \in Lib
  BY DEF TypeOK
<1>3. CASE lib[n].handles = 0
  <2>1. lib[n] = NotLoaded /\ Holders(n) = {}
    BY <1>3, HoldersFinite, FS_EmptySet DEF LibInv
  <2>2. lib'[n] = [handles |-> 1, code |-> {w}, linked |-> TRUE,
                   lost |-> w # Bytes(cur), shared |-> FALSE]
    BY <2>1 DEF Opened, Overwritten, NotLoaded
  <2>3. RunsItsBytes(lib'[n], cur')
    <3>1. cur' = cur /\ lib'[n].code = {w} /\ lib'[n].lost = (w # Bytes(cur))
      BY <2>2
    <3>2. CASE w = Bytes(cur)
      BY <3>1, <3>2 DEF RunsItsBytes
    <3>3. CASE w # Bytes(cur)
      BY <3>1, <3>3, Zenon DEF RunsItsBytes
    <3> QED
      BY <3>2, <3>3
  <2>4. lib'[n].handles = 1 /\ Cardinality(Holders(n)') = 0
    BY <1>1, <2>1, <2>2, FS_EmptySet
  <2> QED
    BY <1>1, <2>1, <2>3, <2>4 DEF LibOK
<1>4. CASE lib[n].handles # 0
  <2>1. lib'[n].handles = lib[n].handles + 1 /\ lib'[n].shared
    BY <1>2, <1>4 DEF Opened, Overwritten, Lib
  <2> QED
    BY <1>1, <1>2, <2>1, HoldersFinite DEF LibOK, LibInv, RunsItsBytes, Lib
<1> QED
  BY <1>3, <1>4

\* The thread gives its handle back, or the one it has just opened.
LEMMA LibClosed ==
  ASSUME TypeOK, LibInv, NEW n \in Names, UNCHANGED FMap, pc' = "idle",
         \/ HeldByThread(n) /\ lib'[n] = Closed(lib[n])
         \/ \E w \in Code : lib'[n] = Closed(Opened(Overwritten(lib[n], w), w))
  PROVE  LibOK(n)'
<1>1. Holders(n)' = Holders(n) /\ ~HeldByThread(n)'
  BY DEF Holders, HeldByThread
<1>2. lib[n] \in Lib
  BY DEF TypeOK
<1>3. CASE HeldByThread(n) /\ lib'[n] = Closed(lib[n])
  <2>1. CASE lib[n].handles <= 1
    <3>1. Holders(n) = {}
      BY <1>2, <1>3, <2>1, HoldersFinite, FS_EmptySet DEF LibInv, Lib
    <3> QED
      BY <1>1, <1>3, <2>1, <3>1, FS_EmptySet DEF LibOK, Closed, NotLoaded
  <2>2. CASE ~(lib[n].handles <= 1)
    <3>1. /\ lib'[n].handles = lib[n].handles - 1 /\ lib'[n].handles # 0
          /\ lib'[n].lost = lib[n].lost /\ lib'[n].shared = lib[n].shared
          /\ lib'[n].code = lib[n].code
      BY <1>2, <1>3, <2>2 DEF Closed, Lib
    <3> QED
      BY <1>1, <1>2, <1>3, <3>1, HoldersFinite DEF LibOK, LibInv, RunsItsBytes, Lib
  <2> QED
    BY <2>1, <2>2
<1>4. ASSUME NEW w \in Code, lib'[n] = Closed(Opened(Overwritten(lib[n], w), w))
      PROVE  LibOK(n)'
  <2>1. CASE lib[n].handles = 0
    <3>1. lib[n] = NotLoaded /\ Holders(n) = {}
      BY <2>1, HoldersFinite, FS_EmptySet DEF LibInv
    <3>2. lib'[n] = NotLoaded
      BY <1>4, <3>1 DEF Closed, Opened, Overwritten, NotLoaded
    <3> QED
      BY <1>1, <3>1, <3>2, FS_EmptySet DEF LibOK, NotLoaded
  <2>2. CASE lib[n].handles # 0
    <3>1. lib'[n].handles = lib[n].handles /\ lib'[n].shared
      <4> DEFINE o == Overwritten(lib[n], w)
                 q == Opened(o, w)
      <4>1. o \in Lib /\ o.handles = lib[n].handles
        BY <1>2, LibTypes DEF Overwritten, Lib
      <4>2. q = [o EXCEPT !.handles = @ + 1, !.shared = TRUE]
        BY <2>2, <4>1 DEF Opened
      <4>3. q \in Lib /\ q.handles = lib[n].handles + 1 /\ q.shared
        BY <4>1, <4>2, LibTypes DEF Lib
      <4>a. lib'[n] = Closed(q)
        BY <1>4
      <4> HIDE DEF q
      <4>4. lib'[n] = [q EXCEPT !.handles = @ - 1, !.linked = FALSE]
        <5>1. ~(q.handles <= 1)
          BY <1>2, <2>2, <4>3 DEF Lib
        <5> QED
          BY <4>a, <5>1 DEF Closed
      <4> QED
        BY <1>2, <4>3, <4>4 DEF Lib
    <3> QED
      BY <1>1, <1>2, <2>2, <3>1, HoldersFinite DEF LibOK, LibInv, RunsItsBytes, Lib
  <2> QED
    BY <2>1, <2>2
<1> QED
  BY <1>3, <1>4

\* The thread's handle becomes that of the function it inserts.
LEMMA LibInserted ==
  ASSUME TypeOK, LibInv, HolderInv, insertF, NEW n \in Names
  PROVE  LibOK(n)'
<1>1. /\ cur \in Requests /\ New # None /\ New.req = cur /\ KeyOf[cur] \in Keys
      /\ FMap[KeyOf[cur]] = None
  BY NewType, Sets DEF insertF, TypeOK, HolderInv
<1>2. FMap' = [FMap EXCEPT ![KeyOf[cur]] = New] /\ FMap \in [Keys -> F \cup {None}]
  BY <1>1 DEF insertF, New, TypeOK
<1>3. ~HeldByThread(n)' /\ UNCHANGED lib
  BY DEF insertF, HeldByThread
<1>4. CASE IsLibrary(cur, n)
  <2>1. Holders(n)' = Holders(n) \cup {KeyOf[cur]} /\ KeyOf[cur] \notin Holders(n)
    BY <1>1, <1>2, <1>4 DEF Holders
  <2>2. HeldByThread(n)
    BY <1>4 DEF HeldByThread, insertF
  <2>3. Cardinality(Holders(n)') = Cardinality(Holders(n)) + 1
    BY <2>1, HoldersFinite, FS_AddElement
  <2>4. \A k \in Holders(n)' : RunsItsBytes(lib[n], FMap'[k].req)
    BY <1>1, <1>2, <2>1, <2>2 DEF LibInv, Holders
  <2> QED
    BY <1>3, <2>2, <2>3, <2>4, HoldersFinite DEF LibOK, LibInv, TypeOK, Lib, RunsItsBytes
<1>5. CASE ~IsLibrary(cur, n)
  <2>1. Holders(n)' = Holders(n)
    BY <1>1, <1>2, <1>5 DEF Holders
  <2>2. \A k \in Holders(n) : FMap'[k] = FMap[k]
    BY <1>1, <1>2 DEF Holders
  <2> QED
    <3>1. \A k \in Holders(n)' : RunsItsBytes(lib[n], FMap'[k].req)
      BY <2>1, <2>2 DEF LibInv
    <3>2. Cardinality(Holders(n)) <= lib[n].handles
      <4>1. lib[n] \in Lib
        BY DEF TypeOK
      <4> QED
        BY <4>1, HoldersFinite DEF LibInv, Lib
    <3>3. lib[n].handles = 0 => lib[n] = NotLoaded
      BY DEF LibInv
    <3> QED
      BY <1>3, <2>1, <3>1, <3>2, <3>3, HoldersFinite DEF LibOK
<1> QED
  BY <1>4, <1>5

\* Every step keeps each library loaded while a function needs it.
LEMMA LibStep ==
  ASSUME TypeOK, TypeOK', HolderInv, CacheInv, LibInv, [Next]_vars
  PROVE  LibInv'
<1> SUFFICES ASSUME NEW n \in Names PROVE LibOK(n)'
  BY DEF LibInv, LibOK
<1>1. CASE (\E r \in Requests : handlerNewFuncRegister(r)) \/ (\E k \in Keys : handlerFuncInvoke(k))
           \/ UNCHANGED vars
  BY <1>1, LibSame DEF handlerNewFuncRegister, handlerFuncInvoke, vars, thread, HeldByThread
<1>2. CASE Take \/ loadBinaryModule \/ compileModule \/ readObject
  BY <1>2, LibSame DEF Take, loadBinaryModule, compileModule, readObject, sendResponse,
                       thread, HeldByThread
<1>3. CASE storeObject
  <2>1. isWasm(cur) /\ UNCHANGED <<FMap, lib>> /\ (cur' = cur \/ pc' = "idle")
    BY <1>3 DEF storeObject, sendResponse, CacheInv
  <2> QED
    BY <2>1, LibSame DEF HeldByThread, IsLibrary
<1>4. CASE linkNative
  <2>1. UNCHANGED FMap /\ ~HeldByThread(n) /\ NameOf(cur) \in Names /\ lib \in [Names -> Lib]
    BY <1>4, Sets DEF linkNative, HeldByThread, TypeOK
  <2>2. CASE n # NameOf(cur)
    <3>1. lib'[n] = lib[n] /\ ~HeldByThread(n)'
      BY <1>4, <2>1, <2>2 DEF linkNative, HeldByThread, IsLibrary, sendResponse
    <3> QED
      BY <2>1, <3>1, LibSame
  <2>3. CASE n = NameOf(cur)
    <3>1. CASE UNCHANGED lib /\ pc' = "idle"
      BY <2>1, <3>1, LibSame DEF HeldByThread
    <3>2. CASE ~(UNCHANGED lib /\ pc' = "idle")
      <4>1. PICK w \in {Bytes(cur), Torn, so[n]} :
              LET l == Overwritten(lib[n], w)
              IN \/ lib[n].handles = 0 /\ lib' = [lib EXCEPT ![n] = l] /\ pc' = "idle"
                 \/ lib' = [lib EXCEPT ![n] = Closed(Opened(l, w))] /\ pc' = "idle"
                 \/ lib' = [lib EXCEPT ![n] = Opened(l, w)] /\ cur' = cur
        BY <1>4, <2>3, <3>2 DEF linkNative, sendResponse
      <4>2. w \in Code
        BY <1>4, <2>3, Sets DEF linkNative, TypeOK
      <4>3. CASE lib[n].handles = 0 /\ lib'[n] = Overwritten(lib[n], w) /\ pc' = "idle"
        <5>1. lib'[n] = lib[n]
          BY <4>3 DEF LibInv, Overwritten, NotLoaded
        <5> QED
          BY <2>1, <4>3, <5>1, LibSame DEF HeldByThread
      <4>4. CASE lib'[n] = Closed(Opened(Overwritten(lib[n], w), w)) /\ pc' = "idle"
        BY <2>1, <4>2, <4>4, LibClosed
      <4>5. CASE lib'[n] = Opened(Overwritten(lib[n], w), w) /\ cur' = cur
        BY <2>1, <4>2, <4>5, LibOpened
      <4> QED
        BY <2>1, <4>1, <4>3, <4>4, <4>5
    <3> QED
      BY <3>1, <3>2
  <2> QED
    BY <2>2, <2>3
<1>5. CASE pingSucceeds
  BY <1>5, LibSame DEF pingSucceeds, HeldByThread
<1>6. CASE pingFails
  <2>1. UNCHANGED FMap /\ pc' = "idle" /\ NameOf(cur) \in Names /\ lib \in [Names -> Lib]
    BY <1>6, Sets DEF pingFails, sendResponse, TypeOK
  <2>2. CASE IsLibrary(cur, n)
    <3>1. HeldByThread(n) /\ lib'[n] = Closed(lib[n])
      BY <1>6, <2>1, <2>2 DEF pingFails, HeldByThread, IsLibrary
    <3> QED
      BY <2>1, <3>1, LibClosed
  <2>3. CASE ~IsLibrary(cur, n)
    <3>1. lib'[n] = lib[n]
      BY <1>6, <2>1, <2>3 DEF pingFails, IsLibrary
    <3> QED
      BY <2>1, <3>1, LibSame DEF HeldByThread
  <2> QED
    BY <2>2, <2>3
<1>7. CASE pingThrows \/ reply
  BY <1>7, LibSame DEF pingThrows, reply, sendResponse, disk, HeldByThread
<1>8. CASE insertF
  BY <1>8, LibInserted
<1>9. CASE Crash
  <2>1. Holders(n)' = {} /\ lib'[n] = NotLoaded /\ ~HeldByThread(n)'
    BY <1>9 DEF Crash, Holders, HeldByThread
  <2> QED
    BY <2>1, FS_EmptySet DEF LibOK, NotLoaded
<1> QED
  BY <1>1, <1>2, <1>3, <1>4, <1>5, <1>6, <1>7, <1>8, <1>9 DEF Next, registering

-----------------------------------------------------------------------------
\* The bytes of a request are those of its function, or of its library's name, and
\* no file is written with None for its content.
LEMMA OwnBytes ==
  ASSUME NEW r \in Requests
  PROVE  /\ Bytes(r) # None /\ Torn # None
         /\ isWasm(r) => Bytes(r) \in WasmBytes(FunctionOf(r))
         /\ ~isWasm(r) => Bytes(r) \in LibBytes(NameOf(r))
  BY RegistryAssumption DEF WasmBytes, LibBytes, IsLibrary

\* ConfinedInv of one library and its file.
LibConfined(n) ==
  /\ so[n] \in {None, Torn} \cup LibBytes(n)
  /\ lib[n].code \subseteq {Torn} \cup LibBytes(n)
  /\ lib[n].linked => so[n] # None

\* linkNative writes the bytes of cur, or leaves what was there, and maps that.
LEMMA LinkConfined ==
  ASSUME TypeOK, CacheInv, LibInv, ConfinedInv, linkNative, NEW n \in Names
  PROVE  LibConfined(n)'
<1>1. cur \in Requests /\ ~isWasm(cur) /\ NameOf(cur) \in Names
  BY Sets DEF linkNative, TypeOK, CacheInv
<1>2. LibConfined(n) /\ lib[n] \in Lib /\ lib \in [Names -> Lib] /\ so \in [Names -> Code]
  BY DEF ConfinedInv, LibConfined, TypeOK
<1>3. LibBytes(n)' = LibBytes(n)
  BY DEF LibBytes, IsLibrary
<1>4. CASE n # NameOf(cur) \/ UNCHANGED <<so, lib>>
  <2>1. lib'[n] = lib[n] /\ so'[n] = so[n]
    BY <1>1, <1>2, <1>4 DEF linkNative
  <2> QED
    BY <1>2, <1>3, <2>1 DEF LibConfined
<1>5. CASE n = NameOf(cur) /\ ~UNCHANGED <<so, lib>>
  <2> DEFINE Full(w) == Overwritten(lib[n], w)
  <2>1. PICK w \in {Bytes(cur), Torn, so[n]} :
          \/ lib[n].handles = 0 /\ lib'[n] = Full(w) /\ so'[n] = None
          \/ /\ lib[n].handles > 0 \/ w # None
             /\ lib'[n] = Closed(Opened(Full(w), w)) /\ so'[n] = None
          \/ /\ lib[n].handles > 0 \/ w # None
             /\ lib'[n] = Opened(Full(w), w) /\ so'[n] = w
    BY <1>1, <1>2, <1>5 DEF linkNative
  <2>2. w \in {None, Torn} \cup LibBytes(n) /\ w \in Code
    BY <1>1, <1>2, <1>5, OwnBytes, Sets DEF LibConfined
  <2>3. lib[n].linked => w # None
    BY <1>1, <1>2, OwnBytes, <2>1 DEF LibConfined
  <2>4. /\ Full(w) \in Lib /\ Full(w).code \subseteq {Torn} \cup LibBytes(n)
        /\ Full(w).linked = lib[n].linked /\ Full(w).handles = lib[n].handles
    <3>1. Full(w) \in Lib
      BY <1>2, <2>2, LibTypes
    <3>2. CASE lib[n].linked
      <4>1. Full(w) = [lib[n] EXCEPT !.code = @ \cup {w}, !.shared = TRUE]
        BY <3>2 DEF Overwritten
      <4>2. /\ Full(w).code = lib[n].code \cup {w} /\ Full(w).linked = lib[n].linked
            /\ Full(w).handles = lib[n].handles
        BY <1>2, <4>1 DEF Lib
      <4> QED
        BY <1>2, <2>2, <2>3, <3>1, <3>2, <4>2 DEF LibConfined
    <3>3. CASE ~lib[n].linked
      BY <1>2, <3>1, <3>3 DEF Overwritten, LibConfined
    <3> QED
      BY <3>2, <3>3
  <2>5. ASSUME lib[n].handles > 0 \/ w # None
        PROVE  /\ Opened(Full(w), w) \in Lib
               /\ Opened(Full(w), w).code \subseteq {Torn} \cup LibBytes(n)
               /\ Opened(Full(w), w).linked => w # None
    <3>1. Opened(Full(w), w) \in Lib
      BY <2>2, <2>4, LibTypes
    <3>2. CASE lib[n].handles = 0
      <4>1. w # None
        BY <1>2, <2>5, <3>2
      <4> QED
        BY <2>2, <2>4, <3>1, <3>2, <4>1 DEF Opened
    <3>3. CASE lib[n].handles # 0
      <4>1. Opened(Full(w), w) = [Full(w) EXCEPT !.handles = @ + 1, !.shared = TRUE]
        BY <2>4, <3>3 DEF Opened
      <4>2. /\ Opened(Full(w), w).code = Full(w).code
            /\ Opened(Full(w), w).linked = Full(w).linked
        BY <2>4, <4>1 DEF Lib
      <4> QED
        BY <2>3, <2>4, <3>1, <4>2
    <3> QED
      BY <3>2, <3>3
  <2>6. ASSUME NEW l \in Lib, l.code \subseteq {Torn} \cup LibBytes(n)
        PROVE  Closed(l).code \subseteq {Torn} \cup LibBytes(n) /\ ~Closed(l).linked
    BY <2>6 DEF Closed, NotLoaded, Lib
  <2>7. CASE lib[n].handles = 0 /\ lib'[n] = Full(w) /\ so'[n] = None
    <3>1. ~lib[n].linked
      BY <2>7 DEF LibInv, NotLoaded
    <3> QED
      BY <1>3, <2>4, <2>7, <3>1 DEF LibConfined
  <2>8. CASE /\ lib[n].handles > 0 \/ w # None
             /\ lib'[n] = Closed(Opened(Full(w), w)) /\ so'[n] = None
    BY <1>3, <2>5, <2>6, <2>8 DEF LibConfined
  <2>9. CASE /\ lib[n].handles > 0 \/ w # None
             /\ lib'[n] = Opened(Full(w), w) /\ so'[n] = w
    BY <1>3, <2>2, <2>5, <2>9 DEF LibConfined
  <2> QED
    BY <2>1, <2>7, <2>8, <2>9
<1> QED
  BY <1>4, <1>5

\* Every step keeps what files, modules and libraries hold to their own function or
\* name.
LEMMA ConfinedStep ==
  ASSUME TypeOK, TypeOK', HolderInv, CacheInv, LibInv, ConfinedInv, [Next]_vars
  PROVE  ConfinedInv'
<1> USE Sets, HolderTypes DEF TypeOK, HolderInv, CacheInv, ConfinedInv, WasmBytes, LibBytes, IsLibrary
<1>1. CASE (\E r \in Requests : handlerNewFuncRegister(r)) \/ (\E k \in Keys : handlerFuncInvoke(k))
           \/ UNCHANGED vars
  BY <1>1 DEF handlerNewFuncRegister, handlerFuncInvoke, vars, thread, disk
<1>2. CASE Take \/ loadBinaryModule \/ reply \/ pingThrows \/ pingSucceeds
  BY <1>2, Waiting DEF Take, existF, loadBinaryModule, reply, pingThrows, pingSucceeds, createR,
                       sendResponse, thread, disk
<1>3. CASE compileModule
  BY <1>3 DEF compileModule, sendResponse, isCached, thread, disk
<1>4. CASE readObject
  BY <1>4 DEF readObject, isCached, thread, disk
<1>5. CASE storeObject
  <2>1. /\ cur \in Requests /\ FunctionOf(cur) \in Functions /\ isWasm(cur)
        /\ module \in {Torn} \cup WasmBytes(FunctionOf(cur))
        /\ UNCHANGED <<FMap, so, lib>>
    BY <1>5 DEF storeObject
  <2>2. \A f \in Functions : object'[f] \in {None, Torn} \cup WasmBytes(f)
    <3>1. CASE object' = object
      BY <3>1
    <3>2. ASSUME NEW w \in {module, Torn}, object' = [object EXCEPT ![FunctionOf(cur)] = w]
          PROVE  \A f \in Functions : object'[f] \in {None, Torn} \cup WasmBytes(f)
      BY <2>1, <3>2
    <3> QED
      BY <1>5, <3>1, <3>2 DEF storeObject
  <2>3. pc' = "idle" \/ UNCHANGED <<cur, module>>
    BY <1>5 DEF storeObject, sendResponse
  <2> QED
    BY <2>1, <2>2, <2>3
<1>6. CASE linkNative
  BY <1>6, LinkConfined DEF linkNative, sendResponse, LibConfined
<1>7. CASE pingFails
  <2>1. cur \in Requests /\ NameOf(cur) \in Names /\ pc' = "idle" /\ UNCHANGED <<FMap, object>>
    BY <1>7 DEF pingFails, sendResponse
  <2>2. ASSUME NEW n \in Names PROVE LibConfined(n)'
    <3>1. CASE lib'[n] = lib[n] /\ so'[n] = so[n]
      BY <3>1 DEF LibConfined
    <3>2. CASE lib'[n] = Closed(lib[n]) /\ so'[n] = None
      <4>1. lib[n] \in Lib /\ lib[n].code \subseteq {Torn} \cup LibBytes(n)
        OBVIOUS
      <4>2. Closed(lib[n]).code \subseteq {Torn} \cup LibBytes(n) /\ ~Closed(lib[n]).linked
        BY <4>1 DEF Closed, NotLoaded, Lib
      <4> QED
        BY <3>2, <4>2 DEF LibConfined
    <3> QED
      BY <1>7, <2>1, <3>1, <3>2 DEF pingFails
  <2> QED
    BY <2>1, <2>2 DEF LibConfined
<1>8. CASE insertF
  BY <1>8 DEF insertF, F, thread, disk
<1>9. CASE Crash
  BY <1>9 DEF Crash, NotLoaded, thread, disk
<1> QED
  BY <1>1, <1>2, <1>3, <1>4, <1>5, <1>6, <1>7, <1>8, <1>9 DEF Next, registering

-----------------------------------------------------------------------------
\* The inductive invariant of the registry: types, the queue, the table of
\* functions, the object cache and the libraries, and whose code each file may hold
\* (RFIT.cpp:72-206).
THEOREM RegistryInvariant == Spec => []IInv
<1>1. IInv /\ [Next]_vars => IInv'
  BY TypeStep, QueueStep, HolderStep, CacheStep, LibStep, ConfinedStep DEF IInv
<1> QED
  BY InitInv, <1>1, PTL DEF Spec

\* A registered function runs the bytes of its own registration, unless its cache
\* or its library lost a write or shares its file; then it runs code cut short, or
\* of a registration that has the same files (RFIT.cpp:92-177).
THEOREM OwnCode == Spec => []RunsItsOwnCode
<1>1. IInv => RunsItsOwnCode
  <2> SUFFICES ASSUME IInv, NEW k \in Keys, FMap[k] # None
               PROVE  /\ Runs(FMap[k]) \subseteq {Torn} \cup {Bytes(o) : o \in Sharers(FMap[k].req)}
                      /\ \/ Runs(FMap[k]) = {Bytes(FMap[k].req)}
                         \/ isWasm(FMap[k].req) /\ FunctionOf(FMap[k].req) \in interrupted
                         \/ /\ ~isWasm(FMap[k].req)
                            /\ lib[NameOf(FMap[k].req)].lost \/ lib[NameOf(FMap[k].req)].shared
    BY DEF RunsItsOwnCode
  <2> DEFINE r == FMap[k].req
  <2>1. r \in Requests
    BY HolderTypes DEF IInv
  <2>2. CASE isWasm(r)
    <3>1. WasmBytes(FunctionOf(r)) = {Bytes(o) : o \in Sharers(r)}
      BY <2>2 DEF WasmBytes, Sharers
    <3> QED
      BY <2>2, <3>1 DEF IInv, CacheInv, ConfinedInv, Runs
  <2>3. CASE ~isWasm(r)
    <3>1. NameOf(r) \in Names /\ k \in Holders(NameOf(r))
      BY <2>1, <2>3, Sets DEF Holders, IsLibrary
    <3>2. RunsItsBytes(lib[NameOf(r)], r)
      BY <3>1 DEF IInv, LibInv
    <3>3. LibBytes(NameOf(r)) = {Bytes(o) : o \in Sharers(r)}
      BY <2>3 DEF LibBytes, Sharers, IsLibrary, isWasm
    <3>4. lib[NameOf(r)].code \subseteq {Torn} \cup LibBytes(NameOf(r))
      BY <3>1 DEF IInv, ConfinedInv
    <3> QED
      BY <2>3, <3>2, <3>3, <3>4 DEF RunsItsBytes, Runs
  <2> QED
    BY <2>2, <2>3
<1> QED
  BY RegistryInvariant, <1>1, PTL

-----------------------------------------------------------------------------
\* The registry starts as its promise does.
LEMMA InitPromise == Init => Promise!Init
  BY DEF Init, Promise!Init, HolderOf

Holder == [k \in Keys |-> HolderOf(FMap[k])]

\* cur, refused: its key is held by no one.
LEMMA RefusedAnswer ==
  ASSUME IInv, cur \in Requests, FMap[KeyOf[cur]] = None, pc \notin {"idle", "inserting"},
         sendResponse("refused"), UNCHANGED <<FMap, served>>
  PROVE  Promise!Answer(cur)
<1>1. answer[cur] = "pending" /\ KeyOf[cur] \in Keys /\ cur # None
  BY Sets DEF IInv, QueueInv
<1>2. answer' = [answer EXCEPT ![cur] = "refused"] /\ pc' = "idle"
  BY DEF sendResponse
<1>3. Holder' = Holder /\ Holder[KeyOf[cur]] = None
  BY <1>1 DEF Holder, HolderOf
<1> QED
  BY <1>1, <1>2, <1>3 DEF Promise!Answer, Holder

\* Every step of the registry is one of RegistryPromise, or none.
LEMMA PromiseStep ==
  ASSUME IInv, [Next]_vars
  PROVE  [Promise!Next]_(Promise!vars)
<1> USE DEF IInv
<1> SUFFICES ASSUME Next PROVE Promise!Next \/ UNCHANGED Promise!vars
  BY DEF vars, thread, disk, Promise!vars, HolderOf
<1>1. ASSUME NEW r \in Requests, handlerNewFuncRegister(r) PROVE Promise!Next
  BY <1>1 DEF handlerNewFuncRegister, thread, Promise!Next, Promise!Submit
<1>2. ASSUME NEW k \in Keys, handlerFuncInvoke(k) PROVE Promise!Next
  <2>1. Promise!Serve(k)
    BY <1>2 DEF handlerFuncInvoke, getF, thread, Promise!Serve
  <2> QED
    BY <2>1 DEF Promise!Next
<1>3. ASSUME Take PROVE Promise!Next \/ UNCHANGED Promise!vars
  <2>1. Head(queue) \in Requests /\ answer[Head(queue)] = "pending"
    BY <1>3, Waiting DEF Take, QueueInv
  <2>2. CASE existF(KeyOf[Head(queue)])
    <3>1. KeyOf[Head(queue)] \in Keys /\ FMap[KeyOf[Head(queue)]] # None
      BY <2>1, <2>2, Sets DEF existF
    <3>2. FMap[KeyOf[Head(queue)]].req # Head(queue)
      BY <1>3, <2>1, <3>1 DEF Take, HolderInv
    <3>3. Promise!Answer(Head(queue))
      BY <1>3, <2>1, <2>2, <3>1, <3>2 DEF Take, thread, Promise!Answer, HolderOf
    <3> QED
      BY <2>1, <3>3 DEF Promise!Next
  <2>3. CASE ~existF(KeyOf[Head(queue)])
    <3>1. UNCHANGED <<answer, FMap, served>> /\ pc # "inserting" /\ pc' # "inserting"
      BY <1>3, <2>3 DEF Take
    <3> QED
      BY <3>1 DEF Promise!vars
  <2> QED
    BY <2>2, <2>3
<1>4. ASSUME loadBinaryModule \/ compileModule \/ readObject \/ storeObject \/ linkNative
             \/ pingFails \/ pingThrows
      PROVE  Promise!Next \/ UNCHANGED Promise!vars
  <2>1. /\ pc \in {"parsing", "caching", "storing", "linking", "pinging"}
        /\ UNCHANGED <<FMap, served>>
        /\ sendResponse("refused") \/ (UNCHANGED answer /\ pc' \in {"caching", "storing", "pinging"})
    BY <1>4 DEF loadBinaryModule, compileModule, readObject, storeObject, linkNative,
                pingFails, pingThrows, disk
  <2>2. cur \in Requests /\ FMap[KeyOf[cur]] = None
    BY <2>1 DEF TypeOK, HolderInv
  <2>3. CASE sendResponse("refused")
    BY <2>1, <2>2, <2>3, RefusedAnswer DEF Promise!Next
  <2>4. CASE UNCHANGED answer /\ pc' \in {"caching", "storing", "pinging"}
    BY <2>1, <2>4 DEF Promise!vars
  <2> QED
    BY <2>1, <2>3, <2>4
<1>5. ASSUME pingSucceeds PROVE Promise!Next
  <2>1. cur \in Requests /\ KeyOf[cur] \in Keys /\ FMap[KeyOf[cur]] = None /\ answer[cur] = "pending"
    BY <1>5, Sets DEF pingSucceeds, TypeOK, HolderInv, QueueInv
  <2>2. Promise!BeginInsert(cur)
    BY <1>5, <2>1 DEF pingSucceeds, Promise!BeginInsert, HolderOf
  <2> QED
    BY <2>1, <2>2 DEF Promise!Next
<1>6. ASSUME insertF PROVE Promise!Next
  <2>1. /\ cur \in Requests /\ KeyOf[cur] \in Keys /\ FMap[KeyOf[cur]] = None
        /\ answer[cur] = "pending" /\ New # None /\ New.req = cur
    BY <1>6, Sets, NewType DEF insertF, TypeOK, HolderInv, QueueInv
  <2>2. FMap' = [FMap EXCEPT ![KeyOf[cur]] = New] /\ FMap \in [Keys -> F \cup {None}]
    BY <1>6, <2>1 DEF insertF, New, TypeOK
  <2>3. Holder' = [Holder EXCEPT ![KeyOf[cur]] = cur]
    BY <2>1, <2>2 DEF Holder, HolderOf
  <2>4. Promise!Insert(cur)
    BY <1>6, <2>1, <2>3 DEF insertF, Promise!Insert, Holder, HolderOf
  <2> QED
    BY <2>1, <2>4 DEF Promise!Next
<1>7. ASSUME reply PROVE Promise!Next
  <2>1. /\ cur \in Requests /\ KeyOf[cur] \in Keys /\ FMap[KeyOf[cur]] # None
        /\ FMap[KeyOf[cur]].req = cur /\ answer[cur] = "pending"
    BY <1>7, Sets DEF reply, TypeOK, HolderInv, QueueInv
  <2>2. Promise!Answer(cur)
    BY <1>7, <2>1 DEF reply, sendResponse, Promise!Answer, HolderOf
  <2> QED
    BY <2>1, <2>2 DEF Promise!Next
<1>8. ASSUME Crash PROVE Promise!Next
  <2>1. Promise!Restart
    BY <1>8 DEF Crash, Promise!Restart, HolderOf
  <2> QED
    BY <2>1 DEF Promise!Next
<1> QED
  BY <1>1, <1>2, <1>3, <1>4, <1>5, <1>6, <1>7, <1>8 DEF Next, registering

\* Registry implements RegistryPromise: a key has one holder between restarts,
\* only the holder's registration is answered OK, and invocations are served by it
\* (RFIT.cpp:72-90, 179-244).
THEOREM KeepsPromise == Spec => PromiseKept
  BY InitPromise, PromiseStep, RegistryInvariant, PTL DEF Spec, PromiseKept, Promise!Spec

-----------------------------------------------------------------------------
(* The entry points.                                                        *)

\* A concurrency that a uint32 holds is kept from 1 to the configured maximum, 0
\* becomes 1 and more becomes the maximum; of a larger number the lower 32 bits count
\* (RFITEndpointHandler.cpp:85-89).
THEOREM ConcurrencyClamped ==
  ASSUME NEW asked \in Nat
  PROVE  /\ asked \in 1..MaxFuncConcurrency => concurrency(asked) = asked
         /\ asked = 0 => concurrency(asked) = 1
         /\ asked \in MaxFuncConcurrency..(U32 - 1) => concurrency(asked) = MaxFuncConcurrency
         /\ asked \in U32..(2 * U32 - 1) => concurrency(asked) = concurrency(asked - U32)
         /\ concurrency(asked) \in 1..MaxFuncConcurrency
<1>1. U32 \in Nat \ {0} /\ MaxFuncConcurrency \in 1..(U32 - 1)
  BY ConfigAssumption DEF MB
<1>2. \A n \in 0..(U32 - 1) : n % U32 = n
  BY <1>1
<1>3. asked % U32 \in 0..(U32 - 1)
  BY <1>1
<1>4. asked \in U32..(2 * U32 - 1) => asked % U32 = asked - U32
  BY <1>1
<1>5. asked \in U32..(2 * U32 - 1) => (asked - U32) % U32 = asked - U32
  BY <1>1, <1>2
<1> QED
  BY <1>1, <1>2, <1>3, <1>4, <1>5 DEF concurrency

\* The multiple of the granularity at or below m.
DownTo(m) == (m \div MemAllocGranularity) * MemAllocGranularity

\* Dividing by the granularity and multiplying again rounds down to a multiple of it.
LEMMA RoundsDown ==
  ASSUME NEW m \in Nat, MemAllocGranularity \in Nat \ {0}
  PROVE  /\ m % MemAllocGranularity = 0 => DownTo(m) = m
         /\ m < MemAllocGranularity => DownTo(m) = 0
         /\ MemAllocGranularity <= m /\ m < 2 * MemAllocGranularity =>
              DownTo(m) = MemAllocGranularity
<1> DEFINE g == MemAllocGranularity
           q == m \div g
<1>1. q \in Nat /\ m % g \in 0..(g - 1) /\ m = (g * q) + (m % g)
  OBVIOUS
<1>2. m < g => q = 0
  OBVIOUS
<1>3. g <= m /\ m < 2 * g => q = 1
  OBVIOUS
<1> QED
  BY <1>1, <1>2, <1>3 DEF DownTo

\* 4096 MB are 2^32 bytes.
LEMMA Width ==
  ASSUME U32 = 4096 * MB
  PROVE  MB \in Nat /\ MB > 1000 /\ U32 \in Nat /\ MBytesInU32 = 4096
<1>1. MB \in Nat /\ MB > 1000
  BY SMT DEF MB
<1>2. U32 \in Nat
  BY SMT DEF MB
<1>3. MBytesInU32 = 4096
  BY SMT DEF MB, MBytesInU32
<1> QED
  BY <1>1, <1>2, <1>3

\* A size below the last 16 of a uint32 is not cut.
LEMMA NoCut ==
  ASSUME U32 = 4096 * MB, NEW mem \in Nat \ {0}, mem + 16 < U32
  PROVE  /\ MemAllocGranularity \in Nat \ {0}
         /\ mem % 16 = 0 => memsize(mem) = DownTo(mem) % 4096
         /\ mem % 16 # 0 => memsize(mem) = DownTo(mem + 16) % 4096
<1>1. mem % U32 = mem /\ (mem + 16) % U32 = mem + 16
  BY Width, SMT
<1>2. MemAllocGranularity \in Nat \ {0}
  BY ConfigAssumption, Width, SMT
<1>3. Rounded(mem) = IF mem % 16 = 0 THEN DownTo(mem) ELSE DownTo(mem + 16)
  BY <1>1 DEF Rounded, DownTo
<1> QED
  BY <1>1, <1>2, <1>3, Width DEF memsize

\* A multiple of 16 and of the granularity is given as it was asked for, below 4 GB
\* (RFITEndpointHandler.cpp:96-103).
THEOREM MemoryAsAsked ==
  ASSUME U32 = 4096 * MB, NEW mem \in 1..4095, mem % 16 = 0, mem % MemAllocGranularity = 0
  PROVE  memsize(mem) = mem
<1>1. mem \in Nat \ {0} /\ mem + 16 < U32
  BY Width
<1>2. memsize(mem) = DownTo(mem) % 4096
  BY <1>1, NoCut
<1>3. DownTo(mem) = mem
  BY <1>1, NoCut, RoundsDown
<1> QED
  BY <1>2, <1>3

\* With the default granularity, any size is given rounded up to 16 MB, below 4 GB
\* (RFITEndpointHandler.cpp:96-103).
THEOREM MemoryRoundedUp ==
  ASSUME U32 = 4096 * MB, MemAllocGranularity = 16, NEW mem \in 1..4080
  PROVE  memsize(mem) \in mem..(mem + 15) /\ memsize(mem) % 16 = 0
<1>1. mem \in Nat \ {0} /\ mem + 16 < U32
  BY Width
<1>2. \A m \in Nat : DownTo(m) = (m \div 16) * 16
  BY DEF DownTo
<1>3. CASE mem % 16 = 0
  <2>1. memsize(mem) = DownTo(mem) % 4096
    BY <1>1, <1>3, NoCut
  <2> QED
    BY <1>2, <1>3, <2>1
<1>4. CASE mem % 16 # 0
  <2>1. memsize(mem) = DownTo(mem + 16) % 4096
    BY <1>1, <1>4, NoCut
  <2>2. DownTo(mem + 16) \in mem..(mem + 15) /\ DownTo(mem + 16) % 16 = 0
    BY <1>2, <1>4
  <2>3. mem <= 4079 /\ DownTo(mem + 16) <= 4095
    BY <1>4, <2>2
  <2> QED
    BY <2>1, <2>2, <2>3
<1> QED
  BY <1>3, <1>4

\* Any multiple of 4 GB that the granularity divides wraps to nothing: the function
\* is given a hard limit of no memory (RFITEndpointHandler.cpp:102).
THEOREM MemoryWraps ==
  ASSUME U32 = 4096 * MB, NEW times \in 1..(MB - 1),
         (4096 * times) % MemAllocGranularity = 0
  PROVE  memsize(4096 * times) = 0
<1> DEFINE mem == 4096 * times
<1>1. mem \in Nat \ {0} /\ mem + 16 < U32 /\ mem % 16 = 0 /\ mem % 4096 = 0
  BY Width
<1>2. mem % MemAllocGranularity = 0
  OBVIOUS
<1> HIDE DEF mem
<1>3. memsize(mem) = DownTo(mem) % 4096
  BY <1>1, NoCut
<1>4. DownTo(mem) = mem
  BY <1>1, <1>2, NoCut, RoundsDown
<1>5. memsize(mem) = 0
  BY <1>1, <1>3, <1>4
<1> QED
  BY <1>5 DEF mem

\* A size below the granularity becomes no memory, or all of the granularity when it
\* is no multiple of 16 and the 16 that are then added reach it: with 64, up
\* to 48 gives 0, and 49 to 63 give 64 (RFITEndpointHandler.cpp:98-101).
THEOREM MemoryBelowGranularity ==
  ASSUME U32 = 4096 * MB, MemAllocGranularity \in 16..4095,
         NEW mem \in 1..(MemAllocGranularity - 1)
  PROVE  memsize(mem) =
           IF mem % 16 # 0 /\ mem + 16 >= MemAllocGranularity THEN MemAllocGranularity ELSE 0
<1>1. mem \in Nat \ {0} /\ mem + 16 < U32 /\ MemAllocGranularity \in Nat \ {0}
  BY Width
<1>2. CASE mem % 16 = 0
  <2>1. memsize(mem) = DownTo(mem) % 4096 /\ DownTo(mem) = 0
    BY <1>1, <1>2, NoCut, RoundsDown
  <2> QED
    BY <1>2, <2>1
<1>3. CASE mem % 16 # 0
  <2>1. memsize(mem) = DownTo(mem + 16) % 4096
    BY <1>1, <1>3, NoCut
  <2>2. mem + 16 \in Nat /\ mem + 16 < 2 * MemAllocGranularity
    OBVIOUS
  <2>3. CASE mem + 16 >= MemAllocGranularity
    <3>1. DownTo(mem + 16) = MemAllocGranularity
      BY <1>1, <2>2, <2>3, RoundsDown
    <3>2. MemAllocGranularity % 4096 = MemAllocGranularity
      OBVIOUS
    <3>3. memsize(mem) = MemAllocGranularity
      BY <2>1, <3>1, <3>2
    <3> QED
      BY <1>3, <2>3, <3>3
  <2>4. CASE ~(mem + 16 >= MemAllocGranularity)
    <3>1. DownTo(mem + 16) = 0
      BY <1>1, <2>2, <2>4, RoundsDown
    <3> QED
      BY <1>3, <2>1, <2>4, <3>1
  <2> QED
    BY <2>3, <2>4
<1> QED
  BY <1>2, <1>3

\* Two calls never return the same id while the counter has not gone round, and
\* none returns 0, however the draws of the threads interleave: first1, again1,
\* first2 and again2 are four draws, each after the first of its own call
\* (gids.cpp:16-33).
THEOREM GidsDistinct ==
  ASSUME Word \in Nat, Word > 1, IntHash \in 0..(Word - 1),
         NEW first1 \in 0..(Word - 1), NEW again1 \in 0..(Word - 1),
         NEW first2 \in 0..(Word - 1), NEW again2 \in 0..(Word - 1),
         first1 # again1, first2 # again2, first1 # first2,
         first1 # again2, first2 # again1, again1 # again2
  PROVE  /\ Gid(first1, again1) # Gid(first2, again2)
         /\ Gid(first1, again1) # 0
<1>1. \A m, n \in 0..(Word - 1) : Sum(m) = Sum(n) => m = n
  BY DEF Sum
<1> QED
  BY <1>1 DEF Gid
=============================================================================
