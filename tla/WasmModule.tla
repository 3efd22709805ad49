----------------------------- MODULE WasmModule -----------------------------
(***************************************************************************)
(* The memory, the snapshot and the dynamic modules of the wasm modules    *)
(* (src/wavm/WAVMWasmModule.cpp, src/wasm/WasmModule.cpp, src/snapshot,    *)
(* the guest calls of memory.cpp, dynlink.cpp and env.cpp that allocate).  *)
(*                                                                         *)
(* The module of a function runs its constructors and zygote, its memory   *)
(* is saved as a snapshot, then it runs the ping. Every invocation runs in *)
(* a clone: memory from the snapshot, all else from after the ping.        *)
(*                                                                         *)
(* Sizes and addresses are in wasm pages, of which a 32 bit address space  *)
(* has Space. A page holds the name of who wrote it last. The guest is     *)
(* external: it allocates, writes what it may, and frees what it was given *)
(***************************************************************************)
EXTENDS SystemCalls, FiniteSets, Sequences

CONSTANTS
  Functions, Invocations,
  Paths,        \* of dynamic modules that exist
  Space,        \* pages of a 32 bit address space
  MaxPages,     \* the most pages the memory of the module's type may have
  Image,        \* pages a module starts with
  ModulePages,  \* DYNAMIC_MODULE_MEMORY_SIZE
  GuardPages,   \* GUARD_REGION_SIZE
  TableElems,   \* elements of a dynamic module
  MaxTable,     \* bound: elements of a table
  Requests,     \* bound: pages a guest asks for at once
  MaxOwned,     \* bound: regions a guest has at a time
  NoModule, NoSnapshot

Modules == Functions \cup Invocations
Pages == 0..MaxPages - 1

\* What the memory grows by for a module.
Provision == ModulePages + 2 * GuardPages

\* Who wrote a page; what a loaded module, and a snapshot, are.
Data == ({"host"} \cup Modules) \X {"zero", "image", "file", "boot", "pinging", "run"}
DynamicModules ==
  [path : Paths, bottom : Nat, tableBottom : Nat,
   by : Modules \X {"boot", "pinging", "run"}]
Snapshots == [brk : 0..MaxPages, mem : [Pages -> Data],
              owned : SUBSET (Pages \X (1..MaxPages)), wrapped : BOOLEAN]

ASSUME WasmModuleAssumption ==
  /\ Functions \cap Invocations = {} /\ "host" \notin Modules
  /\ IsFiniteSet(Paths)
  /\ NoModule \notin DynamicModules /\ NoSnapshot \notin Snapshots
  /\ Image \in Nat /\ MaxPages \in Nat /\ Space \in Nat
  /\ Image > 0 /\ Image < Space /\ Image <= MaxPages /\ MaxPages <= Space
  /\ ModulePages \in Nat \ {0} /\ GuardPages \in Nat \ {0}
  /\ TableElems \in Nat /\ MaxTable \in Nat /\ MaxOwned \in Nat
  \* In the code 66 and 10 pages of 65536.
  /\ Provision < Space \div 2
  \* A length close to 4 GB is rounded up to all of the address space.
  /\ Requests \subseteq 1..Space

VARIABLES
  phase,      \* "none", "boot", "pinging", "registered" (of a function),
              \* "running" (an invocation), "ended", "hung"
  func,       \* the function of an invocation
  size, brk,  \* pages of the memory, currentBrk
  mem,        \* page -> who wrote it last
  readOnly,   \* pages the host has protected
  owned,      \* guest: <<lo, hi>>, the pages from lo to hi-1 it was given
              \* and has not given back
  handles,    \* dynamicPathToHandleMap: path -> handle, 0 if there is none
  dynamic,    \* dynamicModuleMap: handle -> record or NoModule
  tableSize,
  snapshot,   \* SnapshotRegistry, under the key of a function
  wrapped     \* history: whether the break of the memory has gone round the
              \* 32 bits

vars == <<phase, func, size, brk, mem, readOnly, owned, handles, dynamic,
          tableSize, snapshot, wrapped>>
memory == <<size, brk, mem, readOnly, owned, wrapped>>
linking == <<handles, dynamic, tableSize>>

Handles == 2..Cardinality(Paths) + 1

\* Data of the host: zeros, the image of the module, a mapped file.
Host(data) == <<"host", data>>

Runs(m) == phase[m] \in {"boot", "pinging", "running"}

Untouched == [p \in Pages |-> Host("zero")]

\* Whose data a module writes: an invocation's own, or its function's, which
\* differ before and after the snapshot.
Writer(m) == IF m \in Invocations THEN <<m, "run">> ELSE <<m, phase[m]>>

Init ==
  /\ phase = [m \in Modules |-> "none"]
  /\ func \in [Invocations -> Functions]
  /\ size = [m \in Modules |-> 0] /\ brk = [m \in Modules |-> 0]
  /\ mem = [m \in Modules |-> Untouched]
  /\ readOnly = [m \in Modules |-> {}]
  /\ owned = [m \in Modules |-> {}]
  /\ handles = [m \in Modules |-> [p \in Paths |-> 0]]
  /\ dynamic = [m \in Modules |-> [h \in Handles |-> NoModule]]
  /\ tableSize = [m \in Modules |-> 0]
  /\ snapshot = [f \in Functions |-> NoSnapshot]
  /\ wrapped = [m \in Modules |-> FALSE]

-----------------------------------------------------------------------------
(* Memory.                                                                 *)
\* growMemory(n): what becomes of the memory, and where the new pages are. A
\* request of nothing asks for the break. The new break is computed in 32 bits:
\* one that goes round is within the memory, and the break goes down.
grow(m, n) ==
  LET newBrk == (brk[m] + n) % Space
      newPages == size[m] + n
  IN CASE n = 0             -> [at |-> brk[m], brk |-> brk[m], size |-> size[m]]
       [] n # 0 /\ newBrk <= size[m] ->
            [at |-> brk[m], brk |-> newBrk, size |-> size[m]]
       [] n # 0 /\ newBrk > size[m] ->
            [at |-> size[m], brk |-> newPages, size |-> newPages]

goesRound(m, n) == brk[m] + n >= Space

\* The guest has the pages from lo to hi-1, unless there are none.
Region(lo, hi) == IF lo < hi THEN {<<lo, hi>>} ELSE {}
PagesOf(r) == r[1]..(r[2] - 1)
Lower(x, y) == IF x < y THEN x ELSE y

\* Mutant: the maximum of the memory's type is not looked at.
GrownUnlimited(m, g) ==
  /\ g.size < Space
  /\ size' = [size EXCEPT ![m] = g.size]
  /\ brk' = [brk EXCEPT ![m] = g.brk]

\* A memory that would be larger than its type allows, or whose new size does not
\* fit into the 32 bits of getNumberOfWasmPagesForBytes: an exception, see End.
Grown(m, g) ==
  /\ g.size <= MaxPages /\ g.size < Space
  /\ size' = [size EXCEPT ![m] = g.size]
  /\ brk' = [brk EXCEPT ![m] = g.brk]

\* growMemory(n) for the guest: it may use what it is given as far as a memory
\* goes.
Given(m, n) ==
  LET g == grow(m, n) IN
  /\ Grown(m, g)
  /\ Cardinality(owned[m]) < MaxOwned
  /\ owned' = [owned EXCEPT ![m] = @ \cup Region(g.at, Lower(g.at + n, MaxPages))]
  /\ wrapped' = [wrapped EXCEPT ![m] = @ \/ goesRound(m, n)]

\* sbrk, and mmap without a file; dlerror and getpwuid ask for a page.
allocate(m, n) ==
  /\ Runs(m)
  /\ Given(m, n)
  /\ UNCHANGED <<phase, func, mem, readOnly, linking, snapshot>>

\* The file is mapped over the new pages, shared and to be read only.
mmapFile(m, n) ==
  /\ Runs(m)
  /\ Given(m, n)
  /\ LET mapped == {p \in Pages : grow(m, n).at <= p /\ p < grow(m, n).at + n} IN
     /\ mem' = [mem EXCEPT ![m] = [p \in Pages |-> IF p \in mapped THEN Host("file") ELSE @[p]]]
     /\ readOnly' = [readOnly EXCEPT ![m] = @ \cup mapped]
  /\ UNCHANGED <<phase, func, linking, snapshot>>

\* Mutant: the break goes down whatever is unmapped.
shrunkAlways(b, offset, top) == b - (top - offset)

\* unmapMemory: the break goes down only if the region is the last one. The
\* memory is never given back, and keeps what it holds.
shrunk(b, offset, top) == IF top = b THEN b - (top - offset) ELSE b

\* munmap of a part of what the guest has; sbrk with a negative increment is
\* the same for the top of it.
munmap(m, r, offset, top) ==
  /\ Runs(m)
  /\ brk' = [brk EXCEPT ![m] = shrunk(@, offset, top)]
  /\ owned' = [owned EXCEPT ![m] =
                 (@ \ {r}) \cup Region(r[1], offset) \cup Region(top, r[2])]
  /\ UNCHANGED <<phase, func, size, mem, readOnly, linking, snapshot, wrapped>>

\* The guest writes one of its regions, or its image; protected pages, and those
\* above the memory, trap.
write(m, r) ==
  /\ Runs(m)
  /\ PagesOf(r) \cap readOnly[m] = {}
  /\ mem' = [mem EXCEPT ![m] = [p \in Pages |->
                IF p \in PagesOf(r) /\ p < size[m] THEN Writer(m) ELSE @[p]]]
  /\ UNCHANGED <<phase, func, size, brk, readOnly, owned, linking, snapshot, wrapped>>

-----------------------------------------------------------------------------
(* Dynamic modules.                                                        *)
Loaded(m) == {h \in Handles : dynamic[m][h] # NoModule}

\* Mutant: the handle is not looked up.
isNeverCached(m, path) == FALSE

isCached(m, path) == handles[m][path] # 0

\* dlopen: nullptr is the main module, a directory or a missing file is 0, and
\* a path that has been loaded has its handle. A path is masked like those of
\* files.
dlopenKnown(m) ==
  /\ Runs(m) /\ \E path \in Paths : isCached(m, path)
  /\ UNCHANGED vars

\* dynamicLoadModule and createModuleInstance. createMemoryGuardRegion takes its
\* address as a signed number: from the half of the address space on it is none
\* of the memory, an exception. The linker (resolve) appends elements to the
\* table for functions that are not in the offset table yet.
dlopen(m, path, resolved) ==
  LET h == 2 + Cardinality(Loaded(m))
      g == grow(m, Provision)
      bottom == g.at + GuardPages
      top == bottom + ModulePages
      guards == (g.at..bottom - 1) \cup (top..top + GuardPages - 1)
  IN /\ Runs(m) /\ ~isCached(m, path) /\ h \in Handles
     /\ tableSize[m] + TableElems + resolved <= MaxTable
     /\ (bottom..top - 1) \cap readOnly[m] = {}
     /\ Grown(m, g) /\ top < Space \div 2
     /\ handles' = [handles EXCEPT ![m][path] = h]
     /\ dynamic' = [dynamic EXCEPT ![m][h] =
                      [path |-> path, bottom |-> bottom,
                       tableBottom |-> tableSize[m], by |-> Writer(m)]]
     /\ tableSize' = [tableSize EXCEPT ![m] = @ + TableElems + resolved]
     /\ readOnly' = [readOnly EXCEPT ![m] = @ \cup guards]
     /\ mem' = [mem EXCEPT ![m] = [p \in Pages |->
                   IF p \in bottom..top - 1 THEN Writer(m) ELSE @[p]]]
     /\ UNCHANGED <<phase, func, owned, snapshot, wrapped>>

\* Every look-up appends the function to the table, the same one too.
dlsym(m) ==
  /\ Runs(m) /\ tableSize[m] < MaxTable
  /\ tableSize' = [tableSize EXCEPT ![m] = @ + 1]
  /\ UNCHANGED <<phase, func, memory, handles, dynamic, snapshot>>

-----------------------------------------------------------------------------
(* The life of a module.                                                   *)
\* doBindToFunction: a new compartment with the image of the module; the break
\* is the end of the memory.
Bind(f) ==
  /\ phase[f] = "none"
  /\ phase' = [phase EXCEPT ![f] = "boot"]
  /\ size' = [size EXCEPT ![f] = Image] /\ brk' = [brk EXCEPT ![f] = Image]
  /\ mem' = [mem EXCEPT ![f] = [p \in Pages |-> IF p < Image THEN Host("image") ELSE Host("zero")]]
  /\ UNCHANGED <<func, readOnly, owned, linking, snapshot, wrapped>>

\* The end of doBindToFunction: takeSnapshot of the memory up to the break, and
\* not of what is above it.
Bound(f) ==
  /\ phase[f] = "boot"
  /\ phase' = [phase EXCEPT ![f] = "pinging"]
  /\ snapshot' = [snapshot EXCEPT ![f] =
                    [brk |-> brk[f], mem |-> mem[f], owned |-> owned[f],
                     wrapped |-> wrapped[f]]]
  /\ UNCHANGED <<func, memory, linking>>

\* execute answers 777 for the ping: the function is in the map.
Registered(f) ==
  /\ phase[f] = "pinging"
  /\ phase' = [phase EXCEPT ![f] = "registered"]
  /\ UNCHANGED <<func, memory, linking, snapshot>>

\* Mutant: the compartment is cloned with its memory.
restoredOverCopy(f, p) ==
  IF p < snapshot[f].brk THEN snapshot[f].mem[p] ELSE mem[f][p]

\* restore into a new compartment: the pages up to the snapshot's break are
\* mapped privately and for writing, the others have never been written.
restored(f, p) == IF p < snapshot[f].brk THEN snapshot[f].mem[p] ELSE Host("zero")

\* clone. restore moves the break to the snapshot's, within the memory. The
\* maps of modules and the table are what the function's are now.
Clone(i, f) ==
  /\ phase[f] = "registered" /\ phase[i] = "none"
  /\ phase' = [phase EXCEPT ![i] = "running"]
  /\ func' = [func EXCEPT ![i] = f]
  /\ size' = [size EXCEPT ![i] = size[f]]
  /\ brk' = [brk EXCEPT ![i] = snapshot[f].brk]
  /\ mem' = [mem EXCEPT ![i] = [p \in Pages |-> restored(f, p)]]
  /\ readOnly' = [readOnly EXCEPT ![i] = {}]
  /\ owned' = [owned EXCEPT ![i] = snapshot[f].owned]
  /\ handles' = [handles EXCEPT ![i] = handles[f]]
  /\ dynamic' = [dynamic EXCEPT ![i] = dynamic[f]]
  /\ tableSize' = [tableSize EXCEPT ![i] = tableSize[f]]
  /\ wrapped' = [wrapped EXCEPT ![i] = snapshot[f].wrapped]
  /\ UNCHANGED snapshot

\* The guest is left: main or the ping has returned, by an exit, or by an
\* exception. The worker answers, or the registration has failed; a growth over
\* the limit or out of memory, an address that is not of a page, a symbol that
\* is not found, a table that is full, a module that is not valid end so too.
End(m) ==
  /\ Runs(m)
  /\ phase' = [phase EXCEPT ![m] = "ended"]
  /\ UNCHANGED <<func, memory, linking, snapshot>>

\* Every other call into the host.
systemCall(m) ==
  /\ Runs(m)
  /\ \E ending \in SystemCall :
       phase' = CASE ending = "returns" -> phase
                  [] ending = "hangs"   -> [phase EXCEPT ![m] = "hung"]
                  [] OTHER              -> [phase EXCEPT ![m] = "ended"]
  /\ UNCHANGED <<func, memory, linking, snapshot>>

\* The process ends and is started again: a trap in the constructors or the
\* zygote is caught by nothing, and the server may be killed.
ProcessEnds ==
  /\ \E m \in Modules : phase[m] # "none"
  /\ phase' = [m \in Modules |-> IF phase[m] = "none" THEN "none" ELSE "ended"]
  /\ UNCHANGED <<func, memory, linking, snapshot>>

\* The module is destroyed. The snapshot of a function stays in the registry,
\* and nothing names it any more.
Destroy(m) ==
  /\ phase[m] = "ended"
  /\ phase' = [phase EXCEPT ![m] = "none"]
  /\ size' = [size EXCEPT ![m] = 0] /\ brk' = [brk EXCEPT ![m] = 0]
  /\ mem' = [mem EXCEPT ![m] = Untouched]
  /\ readOnly' = [readOnly EXCEPT ![m] = {}] /\ owned' = [owned EXCEPT ![m] = {}]
  /\ handles' = [handles EXCEPT ![m] = [p \in Paths |-> 0]]
  /\ dynamic' = [dynamic EXCEPT ![m] = [h \in Handles |-> NoModule]]
  /\ tableSize' = [tableSize EXCEPT ![m] = 0]
  /\ snapshot' = [f \in Functions |-> IF f = m THEN NoSnapshot ELSE snapshot[f]]
  /\ wrapped' = [wrapped EXCEPT ![m] = FALSE]
  /\ UNCHANGED func

-----------------------------------------------------------------------------
Guest(m) ==
  \/ \E n \in Requests \cup {0} : allocate(m, n)
  \/ \E n \in Requests : mmapFile(m, n)
  \/ \E r \in owned[m] : \E offset, top \in r[1]..r[2] :
       offset < top /\ munmap(m, r, offset, top)
  \/ \E r \in owned[m] \cup {<<0, Image>>} : write(m, r)
  \/ \E path \in Paths, resolved \in 0..1 : dlopen(m, path, resolved)
  \/ dlopenKnown(m) \/ dlsym(m)
  \/ systemCall(m) \/ End(m)

Next ==
  \/ \E f \in Functions : Bind(f) \/ Bound(f) \/ Registered(f)
  \/ \E i \in Invocations, f \in Functions : Clone(i, f)
  \/ \E m \in Modules : Guest(m) \/ Destroy(m)
  \/ ProcessEnds

Spec == Init /\ [][Next]_vars

(* Properties                                                              *)
Alive == {m \in Modules : phase[m] # "none"}

TypeOK ==
  /\ phase \in [Modules -> {"none", "boot", "pinging", "registered", "running",
                             "ended", "hung"}]
  /\ func \in [Invocations -> Functions]
  /\ \A m \in Modules :
       /\ size[m] \in 0..MaxPages /\ brk[m] \in 0..size[m]
       /\ readOnly[m] \subseteq Pages
       /\ owned[m] \subseteq Pages \X (1..MaxPages)
       /\ tableSize[m] \in 0..MaxTable
       /\ \A h \in Loaded(m) : dynamic[m][h].path \in Paths
  /\ \A f \in Functions : snapshot[f] # NoSnapshot =>
       snapshot[f].brk \in 0..MaxPages

\* The memory of a module with its guard regions.
Whole(d) == <<d.bottom - GuardPages, d.bottom + ModulePages + GuardPages>>

\* The modules that m has loaded or has from its function's snapshot. An
\* invocation also knows the handles of what the ping has loaded, but the memory
\* of those is not in the snapshot, and may be given out again.
Keeps(m) == {h \in Loaded(m) : m \in Invocations => dynamic[m][h].by[2] # "pinging"}

\* What of the memory is in use, and for what: a module, or 0 for the guest.
Regions(m) == {<<0, r>> : r \in owned[m]} \cup {<<h, Whole(dynamic[m][h])>> : h \in Keeps(m)}

\* Whatever a module allocates, maps, loads, frees in parts and takes from its
\* snapshot, memory that is in use is not given out again, and is below the
\* break, where the snapshot saves it (growMemory, unmapMemory, restore). Two
\* things undo that: a request that takes the break round the 32 bits, before
\* the snapshot or since, and for an invocation a module that its ping has loaded.
RegionsDisjoint ==
  \A m \in Alive : ~wrapped[m] =>
    /\ \A r, s \in Regions(m) : r # s => r[2][2] <= s[2][1] \/ s[2][2] <= r[2][1]
    /\ \A r \in Regions(m) : Image <= r[2][1] /\ r[2][2] <= brk[m]

\* "If we're going to be restoring from a snapshot, we don't need to clone
\* memory" (WAVMWasmModule.cpp:115): an invocation finds in its memory what its
\* function had there when the snapshot was taken, or what it has written; not
\* what the ping, another function or another invocation has.
NoForeignData ==
  \A i \in Invocations : \A p \in Pages :
    mem[i][p] \in {Host("zero"), Host("image"), Host("file"),
                   <<i, "run">>, <<func[i], "boot">>}

\* The tables of dynamic modules: a path that is loaded has one handle and a
\* handle one path, and no two modules have an element of the table in common,
\* whether the module itself, its function before the snapshot or the ping has
\* loaded them.
LinkedOnce ==
  \A m \in Alive :
    /\ \A p \in Paths : handles[m][p] # 0 => handles[m][p] \in Loaded(m)
    /\ \A h \in Loaded(m) :
         LET d == dynamic[m][h] IN
         /\ handles[m][d.path] = h
         /\ d.tableBottom + TableElems <= tableSize[m]
         /\ \A k \in Loaded(m) \ {h} :
              \/ d.tableBottom + TableElems <= dynamic[m][k].tableBottom
              \/ dynamic[m][k].tableBottom + TableElems <= d.tableBottom

\* The guard regions of a module, and nothing else of it, are protected, also
\* after memory beside it was freed and mapped again. This is so where the module
\* was loaded: a copy maps its snapshot for writing, without guard regions. A
\* request that takes the break round the 32 bits may map a file over it.
GuardsProtected ==
  \A m \in Alive : ~wrapped[m] =>
    \A h \in Loaded(m) : LET d == dynamic[m][h] IN
      d.by[1] = m => PagesOf(Whole(d)) \ readOnly[m]
                       = d.bottom..(d.bottom + ModulePages - 1)
=============================================================================
