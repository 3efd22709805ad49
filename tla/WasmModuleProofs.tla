-------------------------- MODULE WasmModuleProofs --------------------------
(* Proofs about WasmModule, for every number of functions, invocations,     *)
(* pages and dynamic modules: TypeOK, RegionsDisjoint, LinkedOnce,          *)
(* GuardsProtected and NoForeignData.                                       *)
EXTENDS WasmModule, FiniteSetTheorems, TLAPS

Types ==
  /\ phase \in [Modules -> {"none", "boot", "pinging", "registered", "running",
                            "ended", "hung"}]
  /\ \A f \in Functions : phase[f] # "running"
  /\ \A i \in Invocations : phase[i] \notin {"boot", "pinging", "registered"}
  /\ func \in [Invocations -> Functions]
  /\ size \in [Modules -> 0..MaxPages]
  /\ brk \in [Modules -> 0..MaxPages]
  /\ \A m \in Modules : brk[m] <= size[m]
  /\ mem \in [Modules -> [Pages -> Data]]
  /\ readOnly \in [Modules -> SUBSET Pages]
  /\ owned \in [Modules -> SUBSET (Pages \X (1..MaxPages))]
  /\ handles \in [Modules -> [Paths -> {0} \cup Handles]]
  /\ dynamic \in [Modules -> [Handles -> DynamicModules \cup {NoModule}]]
  /\ tableSize \in [Modules -> 0..MaxTable]
  /\ snapshot \in [Functions -> Snapshots \cup {NoSnapshot}]
  /\ wrapped \in [Modules -> BOOLEAN]

-----------------------------------------------------------------------------
\* The module of a function is not that of an invocation.
LEMMA Apart ==
  /\ Functions \subseteq Modules /\ Invocations \subseteq Modules
  /\ \A m \in Modules : m \in Functions <=> m \notin Invocations
  BY WasmModuleAssumption DEF Modules

\* There are finitely many handles, from 2 on.
LEMMA HandlesAre == Cardinality(Paths) \in Nat /\ Handles \subseteq Nat \ {0, 1}
  BY WasmModuleAssumption, FS_CardinalityType DEF Handles

\* A remainder is below its modulus, and a sum below it is its own remainder.
LEMMA NoWrap ==
  ASSUME NEW x \in Nat, NEW y \in Nat, 0 < y
  PROVE  x % y \in Nat /\ (x < y => x % y = x)
  OBVIOUS

\* A growth is given memory from the break on, or above it, and leaves the break
\* within the memory: at the end of what is given, unless it goes round.
LEMMA GrowGives ==
  ASSUME Types, NEW m \in Modules, NEW n \in 0..Space, Grown(m, grow(m, n))
  PROVE  LET g == grow(m, n) IN
         /\ g.at \in 0..MaxPages /\ brk[m] <= g.at
         /\ ~goesRound(m, n) => g.brk = g.at + n
         /\ g.brk \in 0..MaxPages /\ g.size \in 0..MaxPages /\ g.brk <= g.size
         /\ size[m] <= g.size
         /\ size' = [size EXCEPT ![m] = g.size]
         /\ brk' = [brk EXCEPT ![m] = g.brk]
<1> DEFINE newBrk == (brk[m] + n) % Space
<1>1. /\ size[m] \in 0..MaxPages /\ brk[m] \in 0..MaxPages /\ brk[m] <= size[m]
      /\ MaxPages \in Nat /\ Space \in Nat /\ 0 < Space
  BY WasmModuleAssumption DEF Types
<1>2. newBrk \in Nat /\ (~goesRound(m, n) => newBrk = brk[m] + n)
  <2>1. brk[m] + n \in Nat /\ (~goesRound(m, n) => brk[m] + n < Space)
    BY <1>1 DEF goesRound
  <2> QED  BY <1>1, <2>1, NoWrap
<1>3. /\ grow(m, n).size <= MaxPages /\ grow(m, n).size < Space
      /\ size' = [size EXCEPT ![m] = grow(m, n).size]
      /\ brk' = [brk EXCEPT ![m] = grow(m, n).brk]
  BY DEF Grown
<1> HIDE DEF newBrk
<1>4. CASE n = 0
  BY <1>1, <1>3, <1>4 DEF grow
<1>5. CASE n # 0 /\ newBrk <= size[m]
  <2>1. grow(m, n) = [at |-> brk[m], brk |-> newBrk, size |-> size[m]]
    BY <1>1, <1>2, <1>5 DEF grow, newBrk
  <2> QED  BY <1>1, <1>2, <1>3, <1>5, <2>1
<1>6. CASE n # 0 /\ newBrk > size[m]
  <2>1. grow(m, n) = [at |-> size[m], brk |-> size[m] + n, size |-> size[m] + n]
    BY <1>1, <1>2, <1>6 DEF grow, newBrk
  <2> QED  BY <1>1, <1>2, <1>3, <1>6, <2>1
<1> QED
  BY <1>1, <1>2, <1>4, <1>5, <1>6

\* Whose data a module writes, while it runs.
LEMMA WriterIs ==
  ASSUME Types, NEW m \in Modules, Runs(m)
  PROVE  /\ Writer(m) \in Modules \X {"boot", "pinging", "run"}
         /\ Writer(m) \in Data
         /\ m \in Invocations => Writer(m) = <<m, "run">>
         /\ m \in Functions => Writer(m) = <<m, phase[m]>> /\ phase[m] \in {"boot", "pinging"}
  BY Apart DEF Types, Runs, Writer, Data

\* The host's data are data.
LEMMA HostIs == \A x \in {"zero", "image", "file"} : Host(x) \in Data
  BY DEF Host, Data

\* The snapshot of a function that has one fits its memory.
Fits ==
  \A f \in Functions : phase[f] \in {"pinging", "registered"} =>
    snapshot[f] \in Snapshots /\ snapshot[f].brk <= size[f]

-----------------------------------------------------------------------------
(* Types: the memory of a module is within its type's limit, and a snapshot *)
(* within the memory it is restored into.                                   *)
\* What the guest is given is memory, and it keeps what it had.
LEMMA GivenIs ==
  ASSUME Types, NEW m \in Modules, NEW n \in 0..Space, Given(m, n)
  PROVE  LET g == grow(m, n) IN
         /\ g.at \in 0..MaxPages /\ brk[m] <= g.at
         /\ ~goesRound(m, n) => g.brk = g.at + n
         /\ g.brk \in 0..MaxPages /\ g.size \in 0..MaxPages /\ g.brk <= g.size
         /\ size[m] <= g.size
         /\ size' = [size EXCEPT ![m] = g.size] /\ brk' = [brk EXCEPT ![m] = g.brk]
         /\ Region(g.at, Lower(g.at + n, MaxPages)) \subseteq Pages \X (1..MaxPages)
         /\ owned' = [owned EXCEPT ![m] =
                         owned[m] \cup Region(g.at, Lower(g.at + n, MaxPages))]
         /\ wrapped' = [wrapped EXCEPT ![m] = wrapped[m] \/ goesRound(m, n)]
         /\ owned' \in [Modules -> SUBSET (Pages \X (1..MaxPages))]
         /\ wrapped' \in [Modules -> BOOLEAN]
<1> DEFINE g == grow(m, n)
<1>1. Space \in Nat /\ MaxPages \in Nat
  BY WasmModuleAssumption
<1>2. /\ g.at \in 0..MaxPages /\ brk[m] <= g.at
      /\ ~goesRound(m, n) => g.brk = g.at + n
      /\ g.brk \in 0..MaxPages /\ g.size \in 0..MaxPages /\ g.brk <= g.size
      /\ size[m] <= g.size
      /\ size' = [size EXCEPT ![m] = g.size] /\ brk' = [brk EXCEPT ![m] = g.brk]
  BY GrowGives DEF Given
<1>3. /\ owned' = [owned EXCEPT ![m] =
                     owned[m] \cup Region(g.at, Lower(g.at + n, MaxPages))]
      /\ wrapped' = [wrapped EXCEPT ![m] = wrapped[m] \/ goesRound(m, n)]
  BY DEF Given, Types
<1> HIDE DEF g
<1>4. Region(g.at, Lower(g.at + n, MaxPages)) \subseteq Pages \X (1..MaxPages)
  BY <1>1, <1>2 DEF Region, Pages, Lower
<1>5. owned' \in [Modules -> SUBSET (Pages \X (1..MaxPages))]
  BY <1>3, <1>4 DEF Types
<1>6. wrapped' \in [Modules -> BOOLEAN]
  <2>1. goesRound(m, n) \in BOOLEAN
    BY DEF goesRound
  <2> QED  BY <1>3, <2>1 DEF Types
<1> QED  BY <1>2, <1>3, <1>4, <1>5, <1>6 DEF g

\* An allocation keeps the types.
LEMMA AllocateTypes ==
  ASSUME Types, Fits, NEW m \in Modules, NEW n \in Requests \cup {0}, allocate(m, n)
  PROVE  Types' /\ Fits'
<1> DEFINE g == grow(m, n)
<1>1. n \in 0..Space /\ Space \in Nat /\ MaxPages \in Nat
  BY WasmModuleAssumption
<1>2. /\ g.brk \in 0..MaxPages /\ g.size \in 0..MaxPages
      /\ g.brk <= g.size /\ size[m] <= g.size
      /\ size' = [size EXCEPT ![m] = g.size] /\ brk' = [brk EXCEPT ![m] = g.brk]
      /\ owned' \in [Modules -> SUBSET (Pages \X (1..MaxPages))]
      /\ wrapped' \in [Modules -> BOOLEAN]
  BY <1>1, GivenIs DEF allocate
<1> HIDE DEF g
<1>5. Types'
  BY <1>1, <1>2 DEF allocate, Types, linking, Loaded, Runs
<1>6. Fits'
  BY <1>1, <1>2, Apart DEF allocate, Fits, Types, Snapshots
<1> QED  BY <1>5, <1>6

\* So does a mapping of a file.
LEMMA MmapFileTypes ==
  ASSUME Types, Fits, NEW m \in Modules, NEW n \in Requests, mmapFile(m, n)
  PROVE  Types' /\ Fits'
<1> DEFINE g == grow(m, n)
<1>1. n \in 0..Space /\ Space \in Nat /\ MaxPages \in Nat
  BY WasmModuleAssumption
<1>2. /\ g.brk \in 0..MaxPages /\ g.size \in 0..MaxPages
      /\ g.brk <= g.size /\ size[m] <= g.size
      /\ size' = [size EXCEPT ![m] = g.size] /\ brk' = [brk EXCEPT ![m] = g.brk]
      /\ owned' \in [Modules -> SUBSET (Pages \X (1..MaxPages))]
      /\ wrapped' \in [Modules -> BOOLEAN]
  BY <1>1, GivenIs DEF mmapFile
<1>5. /\ mem' \in [Modules -> [Pages -> Data]]
      /\ readOnly' \in [Modules -> SUBSET Pages]
  BY HostIs DEF mmapFile, Types
<1> HIDE DEF g
<1>6. Types'
  BY <1>1, <1>2, <1>5 DEF mmapFile, Types, linking
<1>7. Fits'
  BY <1>1, <1>2, Apart DEF mmapFile, Fits, Types, Snapshots
<1> QED  BY <1>6, <1>7

\* What munmap leaves is within what there was.
LEMMA MunmapTypes ==
  ASSUME Types, Fits, NEW m \in Modules, NEW r \in owned[m],
         NEW offset \in r[1]..r[2], NEW top \in r[1]..r[2], offset < top,
         munmap(m, r, offset, top)
  PROVE  Types' /\ Fits'
<1>1. MaxPages \in Nat /\ r \in Pages \X (1..MaxPages) /\ brk[m] \in 0..MaxPages
      /\ size[m] \in 0..MaxPages /\ brk[m] <= size[m]
  BY WasmModuleAssumption DEF Types
<1>2. r[1] \in 0..MaxPages - 1 /\ r[2] \in 1..MaxPages /\ r = <<r[1], r[2]>>
  BY <1>1 DEF Pages
<1>3. /\ Region(r[1], offset) \subseteq Pages \X (1..MaxPages)
      /\ Region(top, r[2]) \subseteq Pages \X (1..MaxPages)
  BY <1>1, <1>2 DEF Region, Pages
<1>4. owned' \in [Modules -> SUBSET (Pages \X (1..MaxPages))]
  BY <1>3 DEF munmap, Types
<1>5. shrunk(brk[m], offset, top) \in 0..brk[m]
  BY <1>1, <1>2 DEF shrunk
<1>6. brk' = [brk EXCEPT ![m] = shrunk(brk[m], offset, top)]
  BY DEF munmap, Types
<1>7. brk' \in [Modules -> 0..MaxPages] /\ \A k \in Modules : brk'[k] <= size[k]
  BY <1>1, <1>5, <1>6 DEF Types
<1>8. Types'
  BY <1>4, <1>7 DEF munmap, Types, linking
<1>9. Fits'
  BY DEF munmap, Fits
<1> QED  BY <1>8, <1>9

\* What dlopen gives a dynamic module: the memory at, from the break on, with
\* its guard regions, the next handle and the next elements of the table.
Opens(m, path, resolved, at, h, new) ==
  /\ h = 2 + Cardinality(Loaded(m)) /\ handles[m][path] = 0
  /\ new.path = path /\ new.by = Writer(m)
  /\ new.bottom = at + GuardPages /\ new.tableBottom = tableSize[m]
  /\ Whole(new) = <<at, at + Provision>>
  /\ brk[m] <= at /\ at + Provision \in 0..MaxPages
  /\ size' \in [Modules -> 0..MaxPages] /\ at + Provision <= size'[m]
  /\ \A k \in Modules : size[k] <= size'[k]
  /\ brk' = [brk EXCEPT ![m] = at + Provision]
  /\ handles' = [handles EXCEPT ![m] = [handles[m] EXCEPT ![path] = h]]
  /\ dynamic' = [dynamic EXCEPT ![m] = [dynamic[m] EXCEPT ![h] = new]]
  /\ tableSize[m] + TableElems + resolved <= MaxTable
  /\ tableSize' = [tableSize EXCEPT ![m] = tableSize[m] + TableElems + resolved]
  /\ (new.bottom..new.bottom + ModulePages - 1) \cap readOnly[m] = {}
  /\ readOnly' = [readOnly EXCEPT ![m] = readOnly[m] \cup (at..new.bottom - 1)
                     \cup (new.bottom + ModulePages..at + Provision - 1)]
  /\ mem' \in [Modules -> [Pages -> Data]]
  /\ UNCHANGED <<phase, func, owned, snapshot, wrapped>> /\ Runs(m)

\* So much of dlopen is what the properties depend on.
LEMMA DlopenGives ==
  ASSUME Types, NEW m \in Modules, NEW path \in Paths, NEW resolved \in 0..1,
         dlopen(m, path, resolved)
  PROVE  \E at \in Nat, h \in Handles, new \in DynamicModules :
           Opens(m, path, resolved, at, h, new)
<1> DEFINE g == grow(m, Provision)
           at == g.at
           h == 2 + Cardinality(Loaded(m))
           bottom == at + GuardPages
           top == bottom + ModulePages
           new == [path |-> path, bottom |-> bottom, tableBottom |-> tableSize[m],
                   by |-> Writer(m)]
<1>1. /\ Provision \in 0..Space /\ Provision < Space \div 2
      /\ Space \in Nat /\ MaxPages \in Nat
      /\ ModulePages \in Nat \ {0} /\ GuardPages \in Nat \ {0}
      /\ TableElems \in Nat /\ MaxTable \in Nat
      /\ Provision = ModulePages + 2 * GuardPages
  BY WasmModuleAssumption DEF Provision
<1>4. /\ h \in Handles /\ handles[m][path] = 0 /\ Runs(m)
      /\ handles' = [handles EXCEPT ![m][path] = h]
      /\ dynamic' = [dynamic EXCEPT ![m][h] = new]
      /\ tableSize' = [tableSize EXCEPT ![m] = @ + TableElems + resolved]
      /\ tableSize[m] + TableElems + resolved <= MaxTable
      /\ (bottom..top - 1) \cap readOnly[m] = {}
      /\ readOnly' = [readOnly EXCEPT ![m] =
                        @ \cup ((at..bottom - 1) \cup (top..top + GuardPages - 1))]
      /\ mem' = [mem EXCEPT ![m] = [p \in Pages |->
                    IF p \in bottom..top - 1 THEN Writer(m) ELSE @[p]]]
      /\ UNCHANGED <<phase, func, owned, snapshot, wrapped>>
      /\ Grown(m, g) /\ top < Space \div 2
  BY DEF dlopen, isCached
<1>2. /\ at \in Nat /\ brk[m] <= at /\ g.brk = at + Provision /\ g.brk \in 0..MaxPages
      /\ g.size \in 0..MaxPages /\ g.brk <= g.size /\ size[m] <= g.size
      /\ size' = [size EXCEPT ![m] = g.size] /\ brk' = [brk EXCEPT ![m] = g.brk]
  <2>1. /\ at \in 0..MaxPages /\ brk[m] <= at
        /\ ~goesRound(m, Provision) => g.brk = at + Provision
        /\ g.brk \in 0..MaxPages /\ g.size \in 0..MaxPages /\ g.brk <= g.size
        /\ size[m] <= g.size
        /\ size' = [size EXCEPT ![m] = g.size] /\ brk' = [brk EXCEPT ![m] = g.brk]
    BY <1>1, <1>4, GrowGives
  <2>2. at + GuardPages + ModulePages < Space \div 2 /\ brk[m] \in Nat
    BY <1>4 DEF Types
  <2> HIDE DEF g, at
  <2>3. ~goesRound(m, Provision)
    <3>1. brk[m] < Space \div 2
      BY <1>1, <2>1, <2>2
    <3> QED  BY <1>1, <2>2, <3>1 DEF goesRound
  <2> QED  BY <1>1, <2>1, <2>3
<1>3. bottom \in Nat /\ top + GuardPages = at + Provision
  BY <1>1, <1>2
<1>5. Writer(m) \in Modules \X {"boot", "pinging", "run"} /\ Writer(m) \in Data
  BY <1>4, WriterIs
<1>6. new \in DynamicModules
  BY <1>3, <1>5 DEF DynamicModules, Types
<1>7. Whole(new) = <<at, at + Provision>>
  BY <1>1, <1>2, <1>3 DEF Whole
<1>8. /\ new.path = path /\ new.by = Writer(m) /\ new.tableBottom = tableSize[m]
      /\ new.bottom = bottom /\ bottom = at + GuardPages
      /\ top = bottom + ModulePages /\ top \in Int
  BY <1>1, <1>3
<1> HIDE DEF g, at, h, bottom, top, new
<1>9. /\ size' \in [Modules -> 0..MaxPages] /\ at + Provision <= size'[m]
      /\ \A k \in Modules : size[k] <= size'[k]
  BY <1>1, <1>2 DEF Types
<1>10. /\ handles' = [handles EXCEPT ![m] = [handles[m] EXCEPT ![path] = h]]
       /\ dynamic' = [dynamic EXCEPT ![m] = [dynamic[m] EXCEPT ![h] = new]]
       /\ tableSize' = [tableSize EXCEPT ![m] = tableSize[m] + TableElems + resolved]
  BY <1>4 DEF Types
<1>11. readOnly' = [readOnly EXCEPT ![m] = readOnly[m] \cup (at..new.bottom - 1)
                       \cup (new.bottom + ModulePages..at + Provision - 1)]
  <2>1. at..bottom - 1 = at..new.bottom - 1
    BY <1>8
  <2>2. top..top + GuardPages - 1 = new.bottom + ModulePages..at + Provision - 1
    <3>1. top = new.bottom + ModulePages
      BY <1>8
    <3>2. top + GuardPages - 1 = at + Provision - 1
      BY <1>1, <1>2, <1>3, <1>8
    <3> QED
      BY <3>1, <3>2
  <2> QED
    BY <2>1, <2>2, <1>4 DEF Types
<1>12. (new.bottom..new.bottom + ModulePages - 1) \cap readOnly[m] = {}
  <2>1. top - 1 = new.bottom + ModulePages - 1
    BY <1>1, <1>3, <1>8
  <2> QED
    BY <2>1, <1>4, <1>8
<1>13. mem' \in [Modules -> [Pages -> Data]]
  BY <1>4, <1>5 DEF Types
<1>14. h = 2 + Cardinality(Loaded(m))
  BY DEF h
<1>15. brk[m] <= at /\ at + Provision \in 0..MaxPages
       /\ brk' = [brk EXCEPT ![m] = at + Provision]
  BY <1>2
<1>16. Opens(m, path, resolved, at, h, new)
  BY <1>4, <1>7, <1>8, <1>9, <1>10, <1>11, <1>12, <1>13, <1>14, <1>15 DEF Opens
<1> QED
  BY <1>2, <1>4, <1>6, <1>16

\* A dynamic module is given memory within the limit, and elements of the table.
LEMMA DlopenTypes ==
  ASSUME Types, Fits, NEW m \in Modules, NEW path \in Paths, NEW resolved \in 0..1,
         dlopen(m, path, resolved)
  PROVE  Types' /\ Fits'
<1>1. PICK at \in Nat, h \in Handles, new \in DynamicModules :
           Opens(m, path, resolved, at, h, new)
  BY DlopenGives
<1>2. /\ Provision = ModulePages + 2 * GuardPages /\ MaxPages \in Nat
      /\ ModulePages \in Nat /\ GuardPages \in Nat /\ TableElems \in Nat /\ MaxTable \in Nat
  BY WasmModuleAssumption DEF Provision
<1>3. (at..new.bottom - 1) \cup (new.bottom + ModulePages..at + Provision - 1) \subseteq Pages
  <2>1. new.bottom = at + GuardPages /\ at + Provision <= MaxPages
    BY <1>1 DEF Opens
  <2> QED  BY <1>2, <2>1 DEF Pages
<1>4. readOnly' \in [Modules -> SUBSET Pages]
  BY <1>1, <1>3 DEF Opens, Types
<1>5. /\ handles' \in [Modules -> [Paths -> {0} \cup Handles]]
      /\ dynamic' \in [Modules -> [Handles -> DynamicModules \cup {NoModule}]]
      /\ tableSize' \in [Modules -> 0..MaxTable]
  BY <1>1, <1>2 DEF Opens, Types
<1>6. /\ brk' \in [Modules -> 0..MaxPages] /\ \A k \in Modules : brk'[k] <= size'[k]
  BY <1>1, <1>2 DEF Opens, Types
<1>7. Types'
  BY <1>1, <1>4, <1>5, <1>6 DEF Opens, Types
<1>8. Fits'
  <2>1. \A f \in Functions : size[f] \in Nat /\ size'[f] \in Nat /\ size[f] <= size'[f]
    BY <1>1, <1>2, Apart DEF Opens, Types
  <2> QED
    BY <1>1, <1>2, <2>1 DEF Opens, Fits, Snapshots
<1> QED  BY <1>7, <1>8

\* A write and a look-up keep the types.
LEMMA WriteTypes ==
  ASSUME Types, Fits, NEW m \in Modules, NEW r \in owned[m] \cup {<<0, Image>>},
         write(m, r) \/ dlsym(m)
  PROVE  Types' /\ Fits'
<1>1. CASE write(m, r)
  <2>1. Writer(m) \in Data
    BY <1>1, WriterIs DEF write
  <2>2. mem' \in [Modules -> [Pages -> Data]]
    BY <1>1, <2>1 DEF write, Types
  <2> QED
    BY <1>1, <2>2 DEF write, Types, Fits, linking
<1>2. CASE dlsym(m)
  BY <1>2, WasmModuleAssumption DEF dlsym, Types, Fits, memory
<1> QED  BY <1>1, <1>2

\* So does the life of a module.
LEMMA LifeTypes ==
  ASSUME Types, Fits,
         \/ \E f \in Functions : Bind(f) \/ Bound(f) \/ Registered(f)
         \/ \E i \in Invocations, f \in Functions : Clone(i, f)
         \/ \E m \in Modules : Destroy(m) \/ systemCall(m) \/ End(m) \/ dlopenKnown(m)
         \/ ProcessEnds
  PROVE  Types' /\ Fits'
<1> USE Apart
<1>a. /\ Image \in 1..MaxPages /\ MaxPages \in Nat /\ MaxTable \in Nat
      /\ NoSnapshot \notin Snapshots
  BY WasmModuleAssumption
<1>1. ASSUME NEW f \in Functions, Bind(f)  PROVE  Types' /\ Fits'
  <2>1. mem' \in [Modules -> [Pages -> Data]]
    <3>1. Host("image") \in Data /\ Host("zero") \in Data
      BY HostIs
    <3> QED  BY <1>1, <3>1 DEF Bind, Types
  <2>2. Types'
    BY <1>1, <1>a, <2>1 DEF Bind, Types, linking
  <2>3. Fits'
    BY <1>1 DEF Bind, Fits, Types
  <2> QED  BY <2>2, <2>3
<1>2. ASSUME NEW f \in Functions, Bound(f)  PROVE  Types' /\ Fits'
  <2>1. [brk |-> brk[f], mem |-> mem[f], owned |-> owned[f],
        wrapped |-> wrapped[f]] \in Snapshots
    BY DEF Types, Snapshots
  <2>2. Types'
    BY <1>2, <2>1 DEF Bound, Types, memory, linking
  <2>3. Fits'
    BY <1>2, <2>1 DEF Bound, Fits, Types, memory
  <2> QED  BY <2>2, <2>3
<1>3. ASSUME NEW f \in Functions, Registered(f)  PROVE  Types' /\ Fits'
  BY <1>3 DEF Registered, Types, Fits, memory, linking
<1>4. ASSUME NEW i \in Invocations, NEW f \in Functions, Clone(i, f)
      PROVE  Types' /\ Fits'
  <2>1. snapshot[f] \in Snapshots /\ snapshot[f].brk <= size[f]
    BY <1>4 DEF Clone, Fits
  <2>2. /\ snapshot[f].brk \in 0..MaxPages /\ snapshot[f].mem \in [Pages -> Data]
        /\ snapshot[f].owned \in SUBSET (Pages \X (1..MaxPages))
        /\ snapshot[f].wrapped \in BOOLEAN
    BY <2>1 DEF Snapshots
  <2>3. mem' \in [Modules -> [Pages -> Data]]
    BY <1>4, <2>2, HostIs DEF Clone, restored, Types
  <2>4. Types'
    BY <1>4, <2>1, <2>2, <2>3 DEF Clone, Types
  <2>5. Fits'
    BY <1>4 DEF Clone, Fits, Types
  <2> QED  BY <2>4, <2>5
<1>5. ASSUME NEW m \in Modules, Destroy(m)  PROVE  Types' /\ Fits'
  <2>1. Untouched \in [Pages -> Data]
    BY HostIs DEF Untouched
  <2>2. mem' \in [Modules -> [Pages -> Data]]
    BY <1>5, <2>1 DEF Destroy, Types
  <2>3. Types'
    BY <1>5, <1>a, <2>2 DEF Destroy, Types
  <2>4. Fits'
    BY <1>5 DEF Destroy, Fits, Types
  <2> QED  BY <2>3, <2>4
<1>6. ASSUME NEW m \in Modules, systemCall(m)  PROVE  Types' /\ Fits'
  BY <1>6 DEF systemCall, Types, Fits, memory, linking
<1>7. ASSUME NEW m \in Modules, End(m)  PROVE  Types' /\ Fits'
  BY <1>7 DEF End, Types, Fits, memory, linking
<1>8. ASSUME NEW m \in Modules, dlopenKnown(m)  PROVE  Types' /\ Fits'
  BY <1>8 DEF dlopenKnown, vars, Types, Fits
<1>9. ASSUME ProcessEnds  PROVE  Types' /\ Fits'
  BY <1>9 DEF ProcessEnds, Types, Fits, memory, linking
<1> QED
  BY <1>1, <1>2, <1>3, <1>4, <1>5, <1>6, <1>7, <1>8, <1>9

\* No memory grows over the limit of its type, and the break never passes the
\* end of the memory: not by a growth, not when the break is moved to a
\* snapshot's (growMemory, shrinkMemory, restore).
THEOREM TypesAlways == Spec => [](Types /\ Fits)
<1>1. Init => Types /\ Fits
  <2> SUFFICES ASSUME Init  PROVE  Types /\ Fits
    OBVIOUS
  <2>1. MaxPages \in Nat /\ MaxTable \in Nat /\ Untouched \in [Pages -> Data]
    BY WasmModuleAssumption, HostIs DEF Untouched
  <2>2. /\ size \in [Modules -> 0..MaxPages] /\ brk \in [Modules -> 0..MaxPages]
        /\ tableSize \in [Modules -> 0..MaxTable]
    BY <2>1 DEF Init
  <2> QED
    BY <2>1, <2>2, Apart DEF Init, Types, Fits
<1>2. Types /\ Fits /\ [Next]_vars => (Types /\ Fits)'
  <2> SUFFICES ASSUME Types, Fits, [Next]_vars  PROVE  Types' /\ Fits'
    OBVIOUS
  <2>1. CASE UNCHANGED vars
    BY <2>1 DEF vars, Types, Fits
  <2>2. ASSUME NEW m \in Modules, Guest(m)  PROVE  Types' /\ Fits'
    BY <2>2, AllocateTypes, MmapFileTypes, MunmapTypes, DlopenTypes, WriteTypes, LifeTypes
       DEF Guest
  <2> QED
    BY <2>1, <2>2, LifeTypes DEF Next
<1> QED
  BY <1>1, <1>2, PTL DEF Spec

\* The types are those of the runs.
THEOREM TypeCorrect == Spec => []TypeOK
<1>1. Types => TypeOK
  <2> SUFFICES ASSUME Types  PROVE  TypeOK
    OBVIOUS
  <2>1. \A m \in Modules : brk[m] \in 0..size[m]
    BY WasmModuleAssumption DEF Types
  <2>2. \A m \in Modules : \A h \in Loaded(m) : dynamic[m][h].path \in Paths
    BY DEF Types, Loaded, DynamicModules
  <2>3. \A f \in Functions : snapshot[f] # NoSnapshot => snapshot[f].brk \in 0..MaxPages
    BY DEF Types, Snapshots
  <2> QED
    BY <2>1, <2>2, <2>3 DEF Types, TypeOK
<1> QED
  BY <1>1, TypesAlways, PTL

-----------------------------------------------------------------------------
(* What is in the memory of an invocation.                                 *)
HostData == {Host("zero"), Host("image"), Host("file")}

\* Until its snapshot is taken, the memory of a function holds what its
\* constructors and zygote have written, and so does the snapshot.
Written ==
  /\ \A f \in Functions : phase[f] = "boot" =>
       \A p \in Pages : mem[f][p] \in HostData \cup {<<f, "boot">>}
  /\ \A f \in Functions : phase[f] \in {"pinging", "registered"} =>
       \A p \in Pages : snapshot[f].mem[p] \in HostData \cup {<<f, "boot">>}
  /\ NoForeignData

\* A step of a guest writes data of the host or its own.
LEMMA GuestWrites ==
  ASSUME Types, NEW m \in Modules, Guest(m)
  PROVE  /\ \A k \in Modules \ {m} : mem'[k] = mem[k]
         /\ \A p \in Pages : mem'[m][p] \in {mem[m][p], Host("file"), Writer(m)}
         /\ \/ phase' = phase
            \/ phase' \in {[phase EXCEPT ![m] = "ended"], [phase EXCEPT ![m] = "hung"]}
         /\ func' = func /\ snapshot' = snapshot /\ Runs(m)
<1>1. CASE \E n \in Requests \cup {0} : allocate(m, n)
  BY <1>1 DEF allocate, Types
<1>2. CASE \E n \in Requests : mmapFile(m, n)
  BY <1>2 DEF mmapFile, Types
<1>3. CASE \E r \in owned[m] : \E offset, top \in r[1]..r[2] :
             offset < top /\ munmap(m, r, offset, top)
  BY <1>3 DEF munmap, Types
<1>4. CASE \E r \in owned[m] \cup {<<0, Image>>} : write(m, r)
  BY <1>4 DEF write, Types
<1>5. CASE \E path \in Paths, resolved \in 0..1 : dlopen(m, path, resolved)
  BY <1>5 DEF dlopen, Types
<1>6. CASE dlopenKnown(m) \/ dlsym(m) \/ systemCall(m) \/ End(m)
  BY <1>6 DEF dlopenKnown, dlsym, systemCall, End, memory, vars, Types
<1> QED
  BY <1>1, <1>2, <1>3, <1>4, <1>5, <1>6 DEF Guest

\* An invocation finds the data of its function's snapshot and its own, never
\* those of the ping, of another function or of another invocation (takeSnapshot,
\* clone, restore).
THEOREM NoForeignDataAlways == Spec => []NoForeignData
<1> USE Apart
<1>1. Init => Written
  BY DEF Init, Written, NoForeignData, Untouched, HostData
<1>2. Types /\ Fits /\ Written /\ [Next]_vars => Written'
  <2> SUFFICES ASSUME Types, Fits, Written, [Next]_vars  PROVE  Written'
    OBVIOUS
  <2>1. CASE UNCHANGED vars
    BY <2>1 DEF vars, Written, NoForeignData
  <2>2. ASSUME NEW m \in Modules, Guest(m)  PROVE  Written'
    <3>1. /\ \A k \in Modules \ {m} : mem'[k] = mem[k]
          /\ \A p \in Pages : mem'[m][p] \in {mem[m][p], Host("file"), Writer(m)}
          /\ \/ phase' = phase
             \/ phase' \in {[phase EXCEPT ![m] = "ended"], [phase EXCEPT ![m] = "hung"]}
          /\ func' = func /\ snapshot' = snapshot /\ Runs(m)
      BY <2>2, GuestWrites
    <3>2. /\ m \in Invocations => Writer(m) = <<m, "run">>
          /\ m \in Functions => Writer(m) = <<m, phase[m]>>
      BY <3>1, WriterIs
    <3>3. \A k \in Modules : phase'[k] \in {"boot", "pinging", "registered"} =>
            phase'[k] = phase[k]
      BY <3>1 DEF Types
    <3>4. ASSUME NEW f \in Functions, phase'[f] = "boot", NEW p \in Pages
          PROVE  mem'[f][p] \in HostData \cup {<<f, "boot">>}
      <4>1. phase[f] = "boot" /\ mem[f][p] \in HostData \cup {<<f, "boot">>}
        BY <3>3, <3>4 DEF Written
      <4> QED
        BY <4>1, <3>1, <3>2 DEF HostData
    <3>5. ASSUME NEW f \in Functions, phase'[f] \in {"pinging", "registered"}, NEW p \in Pages
          PROVE  snapshot'[f].mem[p] \in HostData \cup {<<f, "boot">>}
      BY <3>1, <3>3, <3>5 DEF Written
    <3>6. NoForeignData'
      BY <3>1, <3>2 DEF Written, NoForeignData
    <3> QED
      BY <3>4, <3>5, <3>6 DEF Written
  <2>3. ASSUME NEW f \in Functions, Bind(f)  PROVE  Written'
    BY <2>3 DEF Bind, Written, NoForeignData, Types, HostData
  <2>4. ASSUME NEW f \in Functions, Bound(f)  PROVE  Written'
    BY <2>4 DEF Bound, Written, NoForeignData, Types, memory
  <2>5. ASSUME NEW f \in Functions, Registered(f)  PROVE  Written'
    BY <2>5 DEF Registered, Written, NoForeignData, Types, memory
  <2>6. ASSUME NEW i \in Invocations, NEW f \in Functions, Clone(i, f)  PROVE  Written'
    <3>1. \A p \in Pages : snapshot[f].mem[p] \in HostData \cup {<<f, "boot">>}
      BY <2>6 DEF Clone, Written
    <3>2. \A p \in Pages : mem'[i][p] \in HostData \cup {<<f, "boot">>}
      BY <2>6, <3>1 DEF Clone, restored, HostData, Types
    <3>3. /\ \A k \in Modules \ {i} : mem'[k] = mem[k] /\ phase'[k] = phase[k]
          /\ func' = [func EXCEPT ![i] = f] /\ snapshot' = snapshot
      BY <2>6 DEF Clone, Types
    <3>4. NoForeignData'
      BY <3>2, <3>3 DEF Written, NoForeignData, Types, HostData
    <3> QED
      BY <3>3, <3>4 DEF Written
  <2>7. ASSUME NEW m \in Modules, Destroy(m)  PROVE  Written'
    <3>1. /\ \A k \in Modules \ {m} : mem'[k] = mem[k] /\ phase'[k] = phase[k]
          /\ \A p \in Pages : mem'[m][p] = Host("zero")
          /\ phase'[m] = "none" /\ func' = func
          /\ \A f \in Functions \ {m} : snapshot'[f] = snapshot[f]
      BY <2>7 DEF Destroy, Types, Untouched
    <3> QED
      BY <3>1 DEF Written, NoForeignData
  <2>8. CASE ProcessEnds
    <3>1. mem' = mem /\ snapshot' = snapshot /\ func' = func
          /\ \A k \in Modules : phase'[k] \in {"none", "ended"}
      BY <2>8 DEF ProcessEnds, memory
    <3> QED
      BY <3>1 DEF Written, NoForeignData
  <2> QED
    BY <2>1, <2>2, <2>3, <2>4, <2>5, <2>6, <2>7, <2>8 DEF Next
<1>3. Written => NoForeignData
  BY DEF Written
<1> QED
  BY <1>1, <1>2, <1>3, TypesAlways, PTL DEF Spec

-----------------------------------------------------------------------------
(* Handles, paths and the elements of the table.                           *)
LoadedIn(d) == {h \in Handles : d[h] # NoModule}

\* Handles are given in turn; each has a path and each path one; each has
\* elements of the table of its own.
LinkedAs(d, of, elements) ==
  /\ \E n \in Nat : LoadedIn(d) = 2..n + 1
  /\ \A p \in Paths : of[p] # 0 => of[p] \in LoadedIn(d)
  /\ \A h \in LoadedIn(d) :
       /\ of[d[h].path] = h
       /\ d[h].tableBottom + TableElems <= elements
       /\ \A k \in LoadedIn(d) : h # k =>
            \/ d[h].tableBottom + TableElems <= d[k].tableBottom
            \/ d[k].tableBottom + TableElems <= d[h].tableBottom

\* A function has loaded its modules before or after its snapshot; what an
\* invocation has loaded, it has while it ran.
LoadedBy(m) ==
  \A h \in Loaded(m) :
    /\ m \in Functions => dynamic[m][h].by \in {<<m, "boot">>, <<m, "pinging">>}
    /\ m \in Invocations /\ dynamic[m][h].by[1] = m => dynamic[m][h].by[2] = "run"

\* What is not there has nothing.
Blank(m) == phase[m] = "none" =>
  owned[m] = {} /\ readOnly[m] = {} /\ Loaded(m) = {}

Linked ==
  \A m \in Modules :
    LinkedAs(dynamic[m], handles[m], tableSize[m]) /\ LoadedBy(m) /\ Blank(m)

\* The next handle is free and the first that is.
LEMMA NextHandle ==
  ASSUME NEW d \in [Handles -> DynamicModules \cup {NoModule}], NEW n \in Nat,
         LoadedIn(d) = 2..n + 1
  PROVE  2 + Cardinality(LoadedIn(d)) = n + 2
<1>1. Cardinality(2..n + 1) = n
  BY FS_Interval
<1> QED  BY <1>1

\* Loading a module under the next handle keeps all of that.
LEMMA LinkedWithOneMore ==
  ASSUME NEW d \in [Handles -> DynamicModules \cup {NoModule}],
         NEW of \in [Paths -> {0} \cup Handles], NEW elements \in Nat,
         LinkedAs(d, of, elements),
         NEW path \in Paths, of[path] = 0, NEW more \in Nat,
         NEW h \in Handles, h = 2 + Cardinality(LoadedIn(d)),
         NEW new \in DynamicModules, new.path = path, new.tableBottom = elements
  PROVE  /\ LinkedAs([d EXCEPT ![h] = new], [of EXCEPT ![path] = h],
                     elements + TableElems + more)
         /\ h \notin LoadedIn(d) /\ LoadedIn([d EXCEPT ![h] = new]) = LoadedIn(d) \cup {h}
<1> DEFINE e == [d EXCEPT ![h] = new]
           on == [of EXCEPT ![path] = h]
<1>1. PICK n \in Nat : LoadedIn(d) = 2..n + 1
  BY DEF LinkedAs
<1>2. h = n + 2
  BY <1>1, NextHandle
<1>3. /\ TableElems \in Nat /\ NoModule \notin DynamicModules
      /\ \A k \in Handles : k \in Nat /\ k # 0
      /\ \A k \in LoadedIn(d) : d[k] \in DynamicModules
      /\ \A k \in DynamicModules : k.path \in Paths /\ k.tableBottom \in Nat
  BY WasmModuleAssumption, HandlesAre DEF LoadedIn, DynamicModules
<1>4. e[h] = new /\ \A k \in Handles \ {h} : e[k] = d[k]
  OBVIOUS
<1> HIDE DEF e
<1>5. h \notin LoadedIn(d)
  BY <1>1, <1>2
<1>6. LoadedIn(e) = LoadedIn(d) \cup {h}
  <2>1. new # NoModule /\ h \in Handles
    BY <1>3
  <2>2. \A k \in Handles : e[k] # NoModule <=> k = h \/ d[k] # NoModule
    BY <2>1, <1>4
  <2> QED
    BY <2>1, <2>2 DEF LoadedIn
<1>7. LoadedIn(e) = 2..(n + 1) + 1
  BY <1>1, <1>2, <1>6
<1>8. \A p \in Paths : on[p] # 0 => on[p] \in LoadedIn(e)
  BY <1>6 DEF LinkedAs
<1>9. ASSUME NEW k \in LoadedIn(d)
      PROVE  on[e[k].path] = k /\ e[k].tableBottom + TableElems <= elements
  <2>1. k # 0 /\ of[d[k].path] = k /\ d[k].path # path /\ e[k] = d[k] /\ d[k].path \in Paths
    <3>1. k \in Handles /\ k # h /\ d[k] \in DynamicModules
      BY <1>3, <1>5 DEF LoadedIn
    <3>2. k # 0 /\ e[k] = d[k] /\ d[k].path \in Paths
      BY <1>3, <1>4, <3>1
    <3>3. of[d[k].path] = k
      BY DEF LinkedAs
    <3> QED
      BY <3>2, <3>3
  <2> QED
    BY <2>1 DEF LinkedAs
<1>10. on[e[h].path] = h /\ e[h].tableBottom = elements
  BY <1>4
<1>11. ASSUME NEW j \in LoadedIn(e), NEW k \in LoadedIn(e), j # k
       PROVE  \/ e[j].tableBottom + TableElems <= e[k].tableBottom
              \/ e[k].tableBottom + TableElems <= e[j].tableBottom
  <2>1. CASE j = h \/ k = h
    BY <2>1, <1>6, <1>9, <1>10, <1>11
  <2>2. CASE j # h /\ k # h
    BY <2>2, <1>4, <1>6, <1>11 DEF LinkedAs, LoadedIn
  <2> QED  BY <2>1, <2>2
<1>12. ASSUME NEW k \in LoadedIn(e)
       PROVE  on[e[k].path] = k /\ e[k].tableBottom + TableElems <= elements + TableElems + more
  <2>1. e[k].tableBottom \in Nat
    BY <1>3, <1>4, <1>6 DEF LoadedIn
  <2> QED
    BY <2>1, <1>3, <1>6, <1>9, <1>10
<1>13. LinkedAs(e, on, elements + TableElems + more)
  BY <1>7, <1>8, <1>11, <1>12 DEF LinkedAs
<1> QED
  BY <1>5, <1>6, <1>13 DEF e

\* dlopen keeps the modules linked.
LEMMA DlopenLinked ==
  ASSUME Types, Linked, NEW m \in Modules, NEW path \in Paths,
         NEW resolved \in 0..1, dlopen(m, path, resolved)
  PROVE  Linked'
<1>1. PICK at \in Nat, h \in Handles, new \in DynamicModules :
           Opens(m, path, resolved, at, h, new)
  BY DlopenGives
<1>2. \A k \in Modules : Loaded(k) = LoadedIn(dynamic[k]) /\ Loaded(k)' = LoadedIn(dynamic'[k])
  BY DEF Loaded, LoadedIn
<1>3. /\ dynamic[m] \in [Handles -> DynamicModules \cup {NoModule}]
      /\ handles[m] \in [Paths -> {0} \cup Handles] /\ tableSize[m] \in Nat
  BY WasmModuleAssumption DEF Types
<1>4. /\ dynamic'[m] = [dynamic[m] EXCEPT ![h] = new]
      /\ handles'[m] = [handles[m] EXCEPT ![path] = h]
      /\ tableSize'[m] = tableSize[m] + TableElems + resolved
      /\ \A k \in Modules \ {m} :
           /\ dynamic'[k] = dynamic[k] /\ handles'[k] = handles[k]
           /\ tableSize'[k] = tableSize[k] /\ readOnly'[k] = readOnly[k]
  BY <1>1 DEF Opens, Types
<1>5. /\ LinkedAs(dynamic'[m], handles'[m], tableSize'[m])
      /\ Loaded(m)' = Loaded(m) \cup {h}
  <2>1. /\ h = 2 + Cardinality(LoadedIn(dynamic[m])) /\ handles[m][path] = 0
        /\ new.path = path /\ new.tableBottom = tableSize[m]
        /\ LinkedAs(dynamic[m], handles[m], tableSize[m])
    BY <1>1, <1>2 DEF Opens, Linked
  <2>2. /\ LinkedAs([dynamic[m] EXCEPT ![h] = new], [handles[m] EXCEPT ![path] = h],
                    tableSize[m] + TableElems + resolved)
        /\ LoadedIn([dynamic[m] EXCEPT ![h] = new]) = LoadedIn(dynamic[m]) \cup {h}
    BY <1>3, <2>1, LinkedWithOneMore
  <2> QED
    BY <2>2, <1>2, <1>4
<1>6. LoadedBy(m)'
  <2>1. /\ m \in Invocations => Writer(m) = <<m, "run">>
        /\ m \in Functions => Writer(m) \in {<<m, "boot">>, <<m, "pinging">>}
    BY <1>1, WriterIs DEF Opens
  <2>2. dynamic'[m][h] = new /\ \A k \in Handles \ {h} : dynamic'[m][k] = dynamic[m][k]
    BY <1>3, <1>4
  <2>3. LoadedBy(m) /\ Loaded(m)' \subseteq Handles
    BY DEF Linked, Loaded
  <2> QED
    BY <1>1, <1>5, <2>1, <2>2, <2>3 DEF Opens, LoadedBy
<1>7. Blank(m)'
  BY <1>1 DEF Opens, Blank, Runs
<1>8. ASSUME NEW k \in Modules \ {m}
      PROVE  LinkedAs(dynamic'[k], handles'[k], tableSize'[k]) /\ LoadedBy(k)' /\ Blank(k)'
  BY <1>1, <1>2, <1>4 DEF Opens, Linked, LoadedBy, Blank
<1> QED
  BY <1>5, <1>6, <1>7, <1>8 DEF Linked

\* A step of a guest changes nothing of another module; unless it is dlopen,
\* it changes the dynamic modules of its own only by elements of the table.
LEMMA GuestKeeps ==
  ASSUME Types, NEW m \in Modules, Guest(m)
  PROVE  /\ \A k \in Modules \ {m} :
              /\ dynamic'[k] = dynamic[k] /\ handles'[k] = handles[k]
              /\ tableSize'[k] = tableSize[k] /\ readOnly'[k] = readOnly[k]
              /\ owned'[k] = owned[k] /\ brk'[k] = brk[k] /\ phase'[k] = phase[k]
              /\ wrapped'[k] = wrapped[k]
         /\ phase'[m] \in {phase[m], "ended", "hung"} /\ Runs(m)
         /\ snapshot' = snapshot /\ (wrapped[m] => wrapped'[m])
         /\ \/ \E path \in Paths, resolved \in 0..1 : dlopen(m, path, resolved)
            \/ /\ dynamic' = dynamic /\ handles' = handles
               /\ tableSize[m] <= tableSize'[m]
<1> USE WasmModuleAssumption
<1>1. CASE \E n \in Requests \cup {0} : allocate(m, n)
  BY <1>1 DEF allocate, Grown, Given, linking, Types
<1>2. CASE \E n \in Requests : mmapFile(m, n)
  BY <1>2 DEF mmapFile, Grown, Given, linking, Types
<1>3. CASE \E r \in owned[m] : \E offset, top \in r[1]..r[2] :
             offset < top /\ munmap(m, r, offset, top)
  BY <1>3 DEF munmap, linking, Types
<1>4. CASE \E r \in owned[m] \cup {<<0, Image>>} : write(m, r)
  BY <1>4 DEF write, linking, Types
<1>5. CASE \E path \in Paths, resolved \in 0..1 : dlopen(m, path, resolved)
  <2>1. PICK path \in Paths, resolved \in 0..1 : dlopen(m, path, resolved)
    BY <1>5
  <2>2. PICK at \in Nat, h \in Handles, new \in DynamicModules :
             Opens(m, path, resolved, at, h, new)
    BY <2>1, DlopenGives
  <2> QED
    BY <1>5, <2>2 DEF Opens, Types
<1>6. CASE dlopenKnown(m)
  BY <1>6 DEF dlopenKnown, vars, Types
<1>7. CASE dlsym(m)
  BY <1>7 DEF dlsym, memory, Types
<1>8. CASE systemCall(m) \/ End(m)
  BY <1>8 DEF systemCall, End, memory, linking, Types
<1> QED
  BY <1>1, <1>2, <1>3, <1>4, <1>5, <1>6, <1>7, <1>8 DEF Guest

\* More elements of the table than before are as good.
LEMMA LinkedWithMoreTable ==
  ASSUME NEW d \in [Handles -> DynamicModules \cup {NoModule}],
         NEW of, NEW elements \in Nat, NEW larger \in Nat, elements <= larger,
         LinkedAs(d, of, elements)
  PROVE  LinkedAs(d, of, larger)
<1>1. \A h \in LoadedIn(d) : d[h].tableBottom + TableElems \in Nat
  BY WasmModuleAssumption DEF LoadedIn, DynamicModules
<1> QED
  BY <1>1 DEF LinkedAs

\* Nothing that is loaded is linked.
LEMMA NothingLinked ==
  ASSUME NEW elements
  PROVE  /\ LoadedIn([h \in Handles |-> NoModule]) = {}
         /\ LinkedAs([h \in Handles |-> NoModule], [p \in Paths |-> 0], elements)
<1>1. LoadedIn([h \in Handles |-> NoModule]) = {}
  BY DEF LoadedIn
<1>2. LoadedIn([h \in Handles |-> NoModule]) = 2..0 + 1
  BY <1>1
<1> QED
  BY <1>1, <1>2 DEF LinkedAs

\* Every path has one handle and every handle one path, also in the clone, and
\* no two modules share elements of the table (dlopen, dlsym, clone).
THEOREM LinkedAlways == Spec => []Linked
<1> USE Apart
<1>0. \A k \in Modules : Loaded(k) = LoadedIn(dynamic[k]) /\ Loaded(k)' = LoadedIn(dynamic'[k])
  BY DEF Loaded, LoadedIn
<1>1. Init => Linked
  <2> SUFFICES ASSUME Init  PROVE  Linked
    OBVIOUS
  <2>1. ASSUME NEW m \in Modules
        PROVE  LinkedAs(dynamic[m], handles[m], tableSize[m]) /\ Loaded(m) = {}
    BY <1>0, NothingLinked DEF Init
  <2> QED
    BY <2>1 DEF Init, Linked, LoadedBy, Blank
<1>2. Types /\ Fits /\ Types' /\ Linked /\ [Next]_vars => Linked'
  <2> SUFFICES ASSUME Types, Types', Linked, [Next]_vars  PROVE  Linked'
    OBVIOUS
  <2>1. CASE UNCHANGED vars
    BY <2>1, <1>0 DEF vars, Linked, LoadedBy, Blank
  <2>2. ASSUME NEW m \in Modules, Guest(m)  PROVE  Linked'
    <3>1. /\ \A k \in Modules \ {m} :
               /\ dynamic'[k] = dynamic[k] /\ handles'[k] = handles[k]
               /\ tableSize'[k] = tableSize[k] /\ readOnly'[k] = readOnly[k]
               /\ owned'[k] = owned[k] /\ phase'[k] = phase[k]
          /\ phase'[m] \in {phase[m], "ended", "hung"} /\ Runs(m)
          /\ \/ \E path \in Paths, resolved \in 0..1 : dlopen(m, path, resolved)
             \/ dynamic' = dynamic /\ handles' = handles /\ tableSize[m] <= tableSize'[m]
      BY <2>2, GuestKeeps
    <3>2. CASE \E path \in Paths, resolved \in 0..1 : dlopen(m, path, resolved)
      BY <3>2, DlopenLinked
    <3>3. CASE dynamic' = dynamic /\ handles' = handles /\ tableSize[m] <= tableSize'[m]
      <4>1. \A k \in Modules : tableSize[k] \in Nat /\ tableSize'[k] \in Nat
                               /\ tableSize[k] <= tableSize'[k]
        <5>1. \A k \in Modules : tableSize[k] \in Nat /\ tableSize'[k] \in Nat
          BY WasmModuleAssumption DEF Types
        <5> QED
          BY <5>1, <3>1, <3>3
      <4>2. ASSUME NEW k \in Modules  PROVE  LinkedAs(dynamic'[k], handles'[k], tableSize'[k])
        <5>1. dynamic[k] \in [Handles -> DynamicModules \cup {NoModule}]
          BY DEF Types
        <5> QED
          BY <3>3, <4>1, <5>1, LinkedWithMoreTable DEF Linked
      <4>3. ASSUME NEW k \in Modules  PROVE  LoadedBy(k)' /\ Blank(k)'
        BY <1>0, <3>1, <3>3 DEF Linked, LoadedBy, Blank, Runs
      <4> QED
        BY <4>2, <4>3 DEF Linked
    <3> QED
      BY <3>1, <3>2, <3>3
  <2>3. ASSUME NEW f \in Functions, Bind(f) \/ Bound(f) \/ Registered(f)  PROVE  Linked'
    <3>1. UNCHANGED <<dynamic, handles, tableSize, owned, readOnly>>
      BY <2>3 DEF Bind, Bound, Registered, memory, linking
    <3>2. \A k \in Modules : phase'[k] = "none" => phase[k] = "none"
      BY <2>3 DEF Bind, Bound, Registered, Types
    <3> QED
      BY <1>0, <3>1, <3>2 DEF Linked, LoadedBy, Blank
  <2>4. ASSUME NEW i \in Invocations, NEW f \in Functions, Clone(i, f)  PROVE  Linked'
    <3>1. /\ dynamic'[i] = dynamic[f] /\ handles'[i] = handles[f]
          /\ tableSize'[i] = tableSize[f] /\ phase'[i] = "running"
          /\ \A k \in Modules \ {i} :
               /\ dynamic'[k] = dynamic[k] /\ handles'[k] = handles[k]
               /\ tableSize'[k] = tableSize[k] /\ readOnly'[k] = readOnly[k]
               /\ owned'[k] = owned[k] /\ phase'[k] = phase[k]
      BY <2>4 DEF Clone, Types
    <3>2. LoadedBy(i)'
      BY <1>0, <3>1 DEF Linked, LoadedBy
    <3>3. ASSUME NEW k \in Modules \ {i}  PROVE  LoadedBy(k)' /\ Blank(k)'
      BY <1>0, <3>1 DEF Linked, LoadedBy, Blank
    <3> QED
      BY <3>1, <3>2, <3>3 DEF Linked, Blank
  <2>5. ASSUME NEW m \in Modules, Destroy(m)  PROVE  Linked'
    <3>1. /\ dynamic'[m] = [h \in Handles |-> NoModule]
          /\ handles'[m] = [p \in Paths |-> 0]
          /\ owned'[m] = {} /\ readOnly'[m] = {}
          /\ \A k \in Modules \ {m} :
               /\ dynamic'[k] = dynamic[k] /\ handles'[k] = handles[k]
               /\ tableSize'[k] = tableSize[k] /\ readOnly'[k] = readOnly[k]
               /\ owned'[k] = owned[k] /\ phase'[k] = phase[k]
      BY <2>5 DEF Destroy, Types
    <3>2. LinkedAs(dynamic'[m], handles'[m], tableSize'[m]) /\ Loaded(m)' = {}
      BY <1>0, <3>1, NothingLinked
    <3>3. LoadedBy(m)' /\ Blank(m)'
      BY <3>1, <3>2 DEF LoadedBy, Blank
    <3>4. ASSUME NEW k \in Modules \ {m}  PROVE  LoadedBy(k)' /\ Blank(k)'
      BY <1>0, <3>1 DEF Linked, LoadedBy, Blank
    <3> QED
      BY <3>1, <3>2, <3>3, <3>4 DEF Linked
  <2>6. CASE ProcessEnds
    <3>1. UNCHANGED <<dynamic, handles, tableSize, owned, readOnly>>
          /\ \A k \in Modules : phase'[k] = "none" => phase[k] = "none"
      BY <2>6 DEF ProcessEnds, memory, linking
    <3> QED
      BY <1>0, <3>1 DEF Linked, LoadedBy, Blank
  <2> QED
    BY <2>1, <2>2, <2>3, <2>4, <2>5, <2>6 DEF Next
<1> QED
  BY <1>1, <1>2, TypesAlways, PTL DEF Spec

-----------------------------------------------------------------------------
(* Regions of memory.                                                      *)
Before(r, s) == r[2] <= s[1]
Separate(r, s) == Before(r, s) \/ Before(s, r)
Between(r, b) == Image <= r[1] /\ r[1] < r[2] /\ r[2] <= b

\* What the guest has been given, o, and the modules kept of those in d, lie
\* between the image and the break, and no two share a page.
Laid(o, d, kept, b) ==
  /\ Image <= b
  /\ \A r \in o : Between(r, b)
  /\ \A h \in kept : Between(Whole(d[h]), b)
  /\ \A r, s \in o : r # s => Separate(r, s)
  /\ \A r \in o, h \in kept : Separate(r, Whole(d[h]))
  /\ \A h, k \in kept : h # k => Separate(Whole(d[h]), Whole(d[k]))

\* What has a place in a memory: the parameters of the lemmas.
Placed(o, d, kept, b) ==
  /\ o \subseteq Pages \X (1..MaxPages) /\ b \in Nat
  /\ d \in [Handles -> DynamicModules \cup {NoModule}] /\ kept \subseteq LoadedIn(d)

\* The bounds of what is placed are numbers.
LEMMA PlacedBounds ==
  ASSUME NEW o, NEW d, NEW kept, NEW b, Placed(o, d, kept, b)
  PROVE  /\ \A r \in o : r[1] \in Nat /\ r[2] \in Nat
         /\ \A h \in kept : Whole(d[h])[1] \in Int /\ Whole(d[h])[2] \in Int
<1>1. MaxPages \in Nat /\ GuardPages \in Nat /\ ModulePages \in Nat
  BY WasmModuleAssumption
<1>2. \A h \in kept : d[h].bottom \in Nat
  BY DEF Placed, LoadedIn, DynamicModules
<1>3. \A r \in o : r[1] \in 0..MaxPages - 1 /\ r[2] \in 1..MaxPages
  BY DEF Placed, Pages
<1> QED
  BY <1>1, <1>2, <1>3 DEF Whole

\* A region at or above the break is laid beside the others.
LEMMA LaidWithRegion ==
  ASSUME NEW o, NEW d, NEW kept, NEW b, Placed(o, d, kept, b), Laid(o, d, kept, b),
         NEW lo \in Nat, NEW n \in Nat, b <= lo
  PROVE  Laid(o \cup Region(lo, lo + n), d, kept, lo + n)
<1> DEFINE new == <<lo, lo + n>>
<1>1. /\ \A r \in o : r[1] \in Nat /\ r[2] \in Nat
      /\ \A h \in kept : Whole(d[h])[1] \in Int /\ Whole(d[h])[2] \in Int
      /\ Image \in Nat /\ b \in Nat
  BY PlacedBounds, WasmModuleAssumption DEF Placed
<1>2. /\ \A r \in Region(lo, lo + n) : r = new /\ lo < lo + n
      /\ new[1] = lo /\ new[2] = lo + n
  BY DEF Region
<1>3. \A r \in o : Between(r, lo + n) /\ Before(r, new)
  BY <1>1, <1>2 DEF Laid, Between, Before
<1>4. \A h \in kept : Between(Whole(d[h]), lo + n) /\ Before(Whole(d[h]), new)
  BY <1>1, <1>2 DEF Laid, Between, Before
<1>5. \A r \in Region(lo, lo + n) : Between(r, lo + n)
  BY <1>1, <1>2 DEF Laid, Between
<1>6. Image <= lo + n
  BY <1>1 DEF Laid
<1> QED
  BY <1>2, <1>3, <1>4, <1>5, <1>6 DEF Laid, Separate

\* So is a dynamic module with its guard regions.
LEMMA LaidWithModule ==
  ASSUME NEW o, NEW d, NEW kept, NEW b, Placed(o, d, kept, b), Laid(o, d, kept, b),
         NEW at \in Nat, b <= at, NEW h \in Handles \ kept, NEW new \in DynamicModules,
         Whole(new) = <<at, at + Provision>>
  PROVE  Laid(o, [d EXCEPT ![h] = new], kept \cup {h}, at + Provision)
<1> DEFINE e == [d EXCEPT ![h] = new]
           end == at + Provision
<1>1. /\ \A r \in o : r[1] \in Nat /\ r[2] \in Nat
      /\ \A k \in kept : Whole(d[k])[1] \in Int /\ Whole(d[k])[2] \in Int
      /\ Image \in Nat /\ b \in Nat
  BY PlacedBounds, WasmModuleAssumption DEF Placed
<1>2. Provision \in Nat /\ Provision > 0
  BY WasmModuleAssumption DEF Provision
<1>3. e[h] = new /\ \A k \in kept : e[k] = d[k]
  BY DEF Placed, LoadedIn
<1>4. Whole(new)[1] = at /\ Whole(new)[2] = end
  OBVIOUS
<1>5. end \in Nat /\ b <= end /\ at < end /\ Image <= at
  BY <1>1, <1>2 DEF Laid
<1> HIDE DEF e, end
<1>6. \A r \in o : Between(r, end) /\ Before(r, Whole(new))
  BY <1>1, <1>4, <1>5 DEF Laid, Between, Before
<1>7. \A k \in kept : Between(Whole(d[k]), end) /\ Before(Whole(d[k]), Whole(new))
  BY <1>1, <1>4, <1>5 DEF Laid, Between, Before
<1>8. Between(Whole(new), end)
  BY <1>1, <1>4, <1>5 DEF Between
<1>9. Laid(o, e, kept \cup {h}, end)
  BY <1>1, <1>3, <1>5, <1>6, <1>7, <1>8 DEF Laid, Separate
<1> QED
  BY <1>9 DEF e, end

\* What is left of a region lies where the region did; the break goes down only
\* to the end of what is left of the last one.
LEMMA LaidWithout ==
  ASSUME NEW o, NEW d, NEW kept, NEW b, Placed(o, d, kept, b), Laid(o, d, kept, b),
         NEW r \in o, NEW offset \in r[1]..r[2], NEW top \in r[1]..r[2], offset < top
  PROVE  Laid((o \ {r}) \cup Region(r[1], offset) \cup Region(top, r[2]), d, kept,
              shrunk(b, offset, top))
<1> DEFINE left == Region(r[1], offset) \cup Region(top, r[2])
           nb == shrunk(b, offset, top)
<1>1. /\ \A s \in o : s[1] \in Nat /\ s[2] \in Nat
      /\ \A k \in kept : Whole(d[k])[1] \in Int /\ Whole(d[k])[2] \in Int
      /\ Image \in Nat /\ b \in Nat
  BY PlacedBounds, WasmModuleAssumption DEF Placed
<1>2. /\ r[1] \in Nat /\ r[2] \in Nat /\ offset \in Nat /\ top \in Nat
      /\ r[1] <= offset /\ top <= r[2] /\ Image <= r[1] /\ r[2] <= b
  BY <1>1 DEF Laid, Between
<1>3. nb = IF top = b THEN offset ELSE b
  BY <1>1, <1>2 DEF shrunk
<1>4. ASSUME NEW s \in left
      PROVE  s[1] \in Nat /\ s[2] \in Nat /\ r[1] <= s[1] /\ s[1] < s[2] /\ s[2] <= r[2]
             /\ (s[2] <= offset \/ (top <= s[1] /\ top < r[2]))
  BY <1>2 DEF Region
<1>5. \A s, t \in left : s # t => Separate(s, t)
  BY <1>2 DEF Region, Separate, Before
<1> HIDE DEF left, nb
<1>6. \A s \in left : Between(s, nb)
  BY <1>1, <1>2, <1>3, <1>4 DEF Between
<1>7. ASSUME NEW s \in o \ {r}
      PROVE  Between(s, nb) /\ \A t \in left : Separate(s, t)
  <2>1. Separate(s, r) /\ Between(s, b) /\ Between(r, b) /\ s[1] \in Nat /\ s[2] \in Nat
    BY <1>1 DEF Laid
  <2>2. Between(s, nb)
    BY <2>1, <1>1, <1>2, <1>3 DEF Separate, Before, Between
  <2>3. \A t \in left : Separate(s, t)
    BY <2>1, <1>2, <1>4 DEF Separate, Before
  <2> QED  BY <2>2, <2>3
<1>8. ASSUME NEW k \in kept
      PROVE  Between(Whole(d[k]), nb) /\ \A t \in left : Separate(t, Whole(d[k]))
  <2> DEFINE w == Whole(d[k])
  <2>1. Separate(r, w) /\ Between(w, b) /\ Between(r, b) /\ w[1] \in Int /\ w[2] \in Int
    BY <1>1 DEF Laid
  <2> HIDE DEF w
  <2>2. Between(w, nb)
    BY <2>1, <1>1, <1>2, <1>3 DEF Separate, Before, Between
  <2>3. \A t \in left : Separate(t, w)
    BY <2>1, <1>2, <1>4 DEF Separate, Before
  <2> QED  BY <2>2, <2>3 DEF w
<1>9. Image <= nb
  BY <1>1, <1>2, <1>3 DEF Laid
<1>10. \A s, t \in (o \ {r}) \cup left : s # t => Separate(s, t)
  <2>1. \A s, t \in o \ {r} : s # t => Separate(s, t)
    BY DEF Laid
  <2>2. \A s \in o \ {r}, t \in left : Separate(s, t) /\ Separate(t, s)
    BY <1>7 DEF Separate
  <2> QED  BY <2>1, <2>2, <1>5
<1>11. Laid((o \ {r}) \cup left, d, kept, nb)
  BY <1>6, <1>7, <1>8, <1>9, <1>10 DEF Laid
<1>12. (o \ {r}) \cup left = (o \ {r}) \cup Region(r[1], offset) \cup Region(top, r[2])
  BY DEF left
<1> QED
  BY <1>11, <1>12 DEF nb

\* Those that a function had when its snapshot was taken.
InSnapshot(f) == {h \in Loaded(f) : dynamic[f][h].by[2] = "boot"}

\* The layout of the memory of a module that is there, and of a snapshot, if its
\* break has never gone round.
LaidOut ==
  /\ \A m \in Modules : phase[m] # "none" /\ ~wrapped[m] =>
       Laid(owned[m], dynamic[m], Keeps(m), brk[m])
  /\ \A f \in Functions : phase[f] \in {"pinging", "registered"} /\ ~snapshot[f].wrapped =>
       Laid(snapshot[f].owned, dynamic[f], InSnapshot(f), snapshot[f].brk)

\* What has its types has a place.
LEMMA TypesPlace ==
  ASSUME Types, Fits
  PROVE  /\ \A m \in Modules : Placed(owned[m], dynamic[m], Keeps(m), brk[m])
         /\ \A f \in Functions : phase[f] \in {"pinging", "registered"} =>
              Placed(snapshot[f].owned, dynamic[f], InSnapshot(f), snapshot[f].brk)
<1>1. ASSUME NEW m \in Modules  PROVE  Placed(owned[m], dynamic[m], Keeps(m), brk[m])
  BY WasmModuleAssumption DEF Placed, Types, Keeps, Loaded, LoadedIn
<1>2. ASSUME NEW f \in Functions, phase[f] \in {"pinging", "registered"}
      PROVE  Placed(snapshot[f].owned, dynamic[f], InSnapshot(f), snapshot[f].brk)
  <2>1. snapshot[f] \in Snapshots
    BY <1>2 DEF Fits
  <2> QED
    BY <2>1, WasmModuleAssumption, Apart
       DEF Placed, Types, Snapshots, InSnapshot, Loaded, LoadedIn
<1> QED  BY <1>1, <1>2

\* A step of a guest that is not dlopen leaves its modules, and its memory laid
\* out.
LEMMA GuestLaid ==
  ASSUME Types, Fits, LaidOut, NEW m \in Modules, Guest(m),
         ~ \E path \in Paths, resolved \in 0..1 : dlopen(m, path, resolved),
         ~wrapped'[m]
  PROVE  Laid(owned'[m], dynamic[m], Keeps(m), brk'[m])
<1>1. Placed(owned[m], dynamic[m], Keeps(m), brk[m])
  BY TypesPlace
<1>2. Runs(m) /\ phase[m] # "none" /\ ~wrapped[m]
  BY GuestKeeps DEF Runs
<1>3. Laid(owned[m], dynamic[m], Keeps(m), brk[m])
  BY <1>2 DEF LaidOut
<1>4. ASSUME NEW n \in Requests \cup {0}, Given(m, n)
      PROVE  Laid(owned'[m], dynamic[m], Keeps(m), brk'[m])
  <2> DEFINE g == grow(m, n)
  <2>1. n \in 0..Space /\ Space \in Nat /\ MaxPages \in Nat
    BY WasmModuleAssumption
  <2>2. /\ g.at \in 0..MaxPages /\ brk[m] <= g.at
        /\ ~goesRound(m, n) => g.brk = g.at + n
        /\ g.brk \in 0..MaxPages /\ brk' = [brk EXCEPT ![m] = g.brk]
        /\ owned' = [owned EXCEPT ![m] =
                        owned[m] \cup Region(g.at, Lower(g.at + n, MaxPages))]
        /\ wrapped' = [wrapped EXCEPT ![m] = wrapped[m] \/ goesRound(m, n)]
    BY <1>4, <2>1, GivenIs
  <2> HIDE DEF g
  <2>3. ~goesRound(m, n)
    BY <2>2 DEF Types
  <2>4. Lower(g.at + n, MaxPages) = g.at + n
    BY <2>1, <2>2, <2>3 DEF Lower
  <2>5. brk'[m] = g.at + n /\ owned'[m] = owned[m] \cup Region(g.at, g.at + n)
    BY <2>2, <2>3, <2>4 DEF Types
  <2>6. Laid(owned[m] \cup Region(g.at, g.at + n), dynamic[m], Keeps(m), g.at + n)
    BY <1>1, <1>3, <2>1, <2>2, LaidWithRegion
  <2> QED  BY <2>5, <2>6
<1>5. CASE \E n \in Requests \cup {0} : allocate(m, n)
  BY <1>4, <1>5 DEF allocate
<1>6. CASE \E n \in Requests : mmapFile(m, n)
  BY <1>4, <1>6 DEF mmapFile
<1>7. CASE \E r \in owned[m] : \E offset, top \in r[1]..r[2] :
             offset < top /\ munmap(m, r, offset, top)
  <2>1. PICK r \in owned[m] : \E offset, top \in r[1]..r[2] :
               offset < top /\ munmap(m, r, offset, top)
    BY <1>7
  <2>2. PICK offset \in r[1]..r[2], top \in r[1]..r[2] :
               offset < top /\ munmap(m, r, offset, top)
    BY <2>1
  <2>3. /\ brk'[m] = shrunk(brk[m], offset, top)
        /\ owned'[m] = (owned[m] \ {r}) \cup Region(r[1], offset) \cup Region(top, r[2])
    BY <2>2 DEF munmap, Types
  <2> QED
    BY <1>1, <1>3, <2>2, <2>3, LaidWithout
<1>8. CASE UNCHANGED <<owned, brk>>
  BY <1>3, <1>8
<1>9. CASE \/ \E r \in owned[m] \cup {<<0, Image>>} : write(m, r)
           \/ dlopenKnown(m) \/ dlsym(m) \/ systemCall(m) \/ End(m)
  BY <1>8, <1>9 DEF write, dlopenKnown, dlsym, systemCall, End, memory, vars
<1> QED
  BY <1>5, <1>6, <1>7, <1>9 DEF Guest

\* A module that is loaded, and its guard regions, are above the break.
LEMMA DlopenLaid ==
  ASSUME Types, Fits, Linked, LaidOut, NEW m \in Modules, NEW path \in Paths,
         NEW resolved \in 0..1, dlopen(m, path, resolved)
  PROVE  /\ ~wrapped[m] => Laid(owned'[m], dynamic'[m], Keeps(m)', brk'[m])
         /\ m \in Functions /\ phase[m] = "pinging" /\ ~snapshot[m].wrapped =>
              Laid(snapshot[m].owned, dynamic'[m], InSnapshot(m)', snapshot[m].brk)
<1>1. PICK at \in Nat, h \in Handles, new \in DynamicModules :
           Opens(m, path, resolved, at, h, new)
  BY DlopenGives
<1>2. /\ Placed(owned[m], dynamic[m], Keeps(m), brk[m])
      /\ ~wrapped[m] => Laid(owned[m], dynamic[m], Keeps(m), brk[m])
  BY <1>1, TypesPlace DEF LaidOut, Opens, Runs
<1>3. /\ dynamic[m] \in [Handles -> DynamicModules \cup {NoModule}]
      /\ dynamic'[m] = [dynamic[m] EXCEPT ![h] = new] /\ brk'[m] = at + Provision
      /\ owned'[m] = owned[m] /\ brk[m] <= at /\ Whole(new) = <<at, at + Provision>>
  BY <1>1 DEF Opens, Types
<1>4. dynamic'[m][h] = new /\ \A k \in Handles \ {h} : dynamic'[m][k] = dynamic[m][k]
  BY <1>3
<1>5. h \notin Loaded(m)
  <2>1. PICK n \in Nat : LoadedIn(dynamic[m]) = 2..n + 1
    BY DEF Linked, LinkedAs
  <2>2. Loaded(m) = LoadedIn(dynamic[m])
    BY DEF Loaded, LoadedIn
  <2>3. h = n + 2
    BY <1>1, <1>3, <2>1, <2>2, NextHandle DEF Opens
  <2> QED  BY <2>1, <2>2, <2>3
<1>6. new # NoModule
  BY WasmModuleAssumption
<1>7. Loaded(m)' = Loaded(m) \cup {h}
  <2>1. \A k \in Handles : dynamic'[m][k] # NoModule <=> k = h \/ dynamic[m][k] # NoModule
    BY <1>4, <1>6
  <2> QED  BY <2>1 DEF Loaded
<1>8. m \in Invocations => new.by[2] # "pinging"
  BY <1>1, WriterIs DEF Opens
<1>9. Keeps(m)' = Keeps(m) \cup {h}
  <2>1. \A k \in Loaded(m) : k # h /\ dynamic'[m][k] = dynamic[m][k]
    BY <1>4, <1>5 DEF Loaded
  <2> QED
    BY <1>4, <1>7, <1>8, <2>1 DEF Keeps
<1>10. ASSUME ~wrapped[m]
       PROVE  Laid(owned'[m], dynamic'[m], Keeps(m)', brk'[m])
  <2>1. h \in Handles \ Keeps(m)
    BY <1>5 DEF Keeps
  <2> QED
    BY <1>2, <1>3, <1>9, <1>10, <2>1, LaidWithModule
<1>11. ASSUME m \in Functions, phase[m] = "pinging", ~snapshot[m].wrapped
       PROVE  Laid(snapshot[m].owned, dynamic'[m], InSnapshot(m)', snapshot[m].brk)
  <2>1. new.by[2] # "boot"
    BY <1>1, <1>11, WriterIs DEF Opens
  <2>2. \A k \in Loaded(m) : k # h /\ dynamic'[m][k] = dynamic[m][k]
    BY <1>4, <1>5 DEF Loaded
  <2>3. InSnapshot(m)' = InSnapshot(m)
    BY <1>4, <1>7, <2>1, <2>2 DEF InSnapshot
  <2>4. \A k \in InSnapshot(m) : dynamic'[m][k] = dynamic[m][k]
    BY <2>2 DEF InSnapshot
  <2>5. Laid(snapshot[m].owned, dynamic[m], InSnapshot(m), snapshot[m].brk)
    BY <1>11 DEF LaidOut
  <2> QED
    BY <2>3, <2>4, <2>5 DEF Laid
<1> QED  BY <1>10, <1>11

\* The memory of every module, and of every snapshot, stays laid out, unless a
\* break goes round.
THEOREM LaidOutAlways == Spec => []LaidOut
<1> USE Apart
<1>1. Init => LaidOut
  BY DEF Init, LaidOut
<1>2. Types /\ Fits /\ Types' /\ Linked /\ LaidOut /\ [Next]_vars => LaidOut'
  <2> SUFFICES ASSUME Types, Fits, Types', Linked, LaidOut, [Next]_vars  PROVE  LaidOut'
    OBVIOUS
  <2>0. ASSUME NEW k \in Modules, dynamic'[k] = dynamic[k]
        PROVE  Loaded(k)' = Loaded(k) /\ Keeps(k)' = Keeps(k) /\ InSnapshot(k)' = InSnapshot(k)
    BY <2>0 DEF Loaded, Keeps, InSnapshot
  <2>1. CASE UNCHANGED <<dynamic, owned, brk, snapshot, wrapped>>
             /\ \A k \in Modules : /\ phase'[k] # "none" => phase[k] # "none"
                                   /\ phase'[k] \in {"pinging", "registered"} =>
                                        phase[k] \in {"pinging", "registered"}
    BY <2>0, <2>1 DEF LaidOut
  <2>2. ASSUME NEW m \in Modules, Guest(m)  PROVE  LaidOut'
    <3>1. /\ \A k \in Modules \ {m} :
               /\ dynamic'[k] = dynamic[k] /\ owned'[k] = owned[k] /\ brk'[k] = brk[k]
               /\ phase'[k] = phase[k] /\ wrapped'[k] = wrapped[k]
          /\ phase'[m] \in {phase[m], "ended", "hung"} /\ Runs(m)
          /\ snapshot' = snapshot /\ (wrapped[m] => wrapped'[m])
      BY <2>2, GuestKeeps
    <3>2. ASSUME NEW k \in Modules \ {m}, phase'[k] # "none", ~wrapped'[k]
          PROVE  Laid(owned'[k], dynamic'[k], Keeps(k)', brk'[k])
      BY <2>0, <3>1, <3>2 DEF LaidOut
    <3>3. ASSUME NEW f \in Functions \ {m}, phase'[f] \in {"pinging", "registered"},
                 ~snapshot'[f].wrapped
          PROVE  Laid(snapshot'[f].owned, dynamic'[f], InSnapshot(f)', snapshot'[f].brk)
      BY <2>0, <3>1, <3>3 DEF LaidOut
    <3>4. /\ ~wrapped'[m] => Laid(owned'[m], dynamic'[m], Keeps(m)', brk'[m])
          /\ m \in Functions /\ phase[m] = "pinging" /\ ~snapshot'[m].wrapped =>
               Laid(snapshot'[m].owned, dynamic'[m], InSnapshot(m)', snapshot'[m].brk)
      <4>1. CASE \E path \in Paths, resolved \in 0..1 : dlopen(m, path, resolved)
        BY <3>1, <4>1, DlopenLaid
      <4>2. CASE ~ \E path \in Paths, resolved \in 0..1 : dlopen(m, path, resolved)
        <5>1. dynamic' = dynamic
          BY <2>2, <4>2, GuestKeeps
        <5>2. ~wrapped'[m] => Laid(owned'[m], dynamic[m], Keeps(m), brk'[m])
          BY <2>2, <4>2, GuestLaid
        <5> QED
          BY <2>0, <3>1, <5>1, <5>2 DEF LaidOut
      <4> QED  BY <4>1, <4>2
    <3>5. m \in Functions /\ phase'[m] \in {"pinging", "registered"} => phase[m] = "pinging"
      BY <3>1 DEF Runs
    <3> QED
      BY <3>2, <3>3, <3>4, <3>5 DEF LaidOut
  <2>3. ASSUME NEW f \in Functions, Bind(f)  PROVE  LaidOut'
    <3>1. /\ phase[f] = "none" /\ phase'[f] = "boot" /\ brk'[f] = Image
          /\ UNCHANGED <<dynamic, owned, snapshot, wrapped>>
          /\ \A k \in Modules \ {f} : phase'[k] = phase[k] /\ brk'[k] = brk[k]
      BY <2>3 DEF Bind, linking, Types
    <3>2. owned[f] = {} /\ Keeps(f) = {}
      BY <3>1 DEF Linked, Blank, Keeps
    <3>3. Laid({}, dynamic[f], {}, Image)
      BY WasmModuleAssumption DEF Laid
    <3> QED
      BY <2>0, <3>1, <3>2, <3>3 DEF LaidOut
  <2>4. ASSUME NEW f \in Functions, Bound(f)  PROVE  LaidOut'
    <3>1. /\ phase[f] = "boot" /\ phase' = [phase EXCEPT ![f] = "pinging"]
          /\ UNCHANGED <<dynamic, owned, brk, wrapped>>
          /\ snapshot'[f].owned = owned[f] /\ snapshot'[f].brk = brk[f]
          /\ snapshot'[f].wrapped = wrapped[f]
          /\ \A k \in Functions \ {f} : snapshot'[k] = snapshot[k]
      BY <2>4 DEF Bound, memory, linking, Types
    <3>2. /\ ~wrapped[f] => Laid(owned[f], dynamic[f], Keeps(f), brk[f])
          /\ InSnapshot(f) \subseteq Keeps(f)
      BY <3>1 DEF LaidOut, InSnapshot, Keeps
    <3>3. ~snapshot'[f].wrapped =>
            Laid(snapshot'[f].owned, dynamic[f], InSnapshot(f), snapshot'[f].brk)
      BY <3>1, <3>2 DEF Laid
    <3>4. \A k \in Modules : phase'[k] # "none" => phase[k] # "none"
      BY <3>1 DEF Types
    <3>5. \A k \in Modules \ {f} : phase'[k] = phase[k]
      BY <3>1 DEF Types
    <3> QED
      BY <2>0, <3>1, <3>3, <3>4, <3>5 DEF LaidOut
  <2>5. ASSUME NEW f \in Functions, Registered(f)  PROVE  LaidOut'
    BY <2>1, <2>5 DEF Registered, memory, linking, Types
  <2>6. ASSUME NEW i \in Invocations, NEW f \in Functions, Clone(i, f)  PROVE  LaidOut'
    <3>1. /\ phase[f] = "registered" /\ phase'[i] = "running"
          /\ owned'[i] = snapshot[f].owned /\ dynamic'[i] = dynamic[f]
          /\ brk'[i] = snapshot[f].brk /\ snapshot' = snapshot
          /\ wrapped'[i] = snapshot[f].wrapped
          /\ \A k \in Modules \ {i} :
               /\ dynamic'[k] = dynamic[k] /\ owned'[k] = owned[k] /\ brk'[k] = brk[k]
               /\ phase'[k] = phase[k] /\ wrapped'[k] = wrapped[k]
      BY <2>6 DEF Clone, Types
    <3>2. \A h \in Loaded(f) : dynamic[f][h].by[2] \in {"boot", "pinging"}
      BY DEF Linked, LoadedBy
    <3>3. Keeps(i)' = InSnapshot(f)
      <4>1. Loaded(i)' = Loaded(f)
        BY <3>1 DEF Loaded
      <4> QED
        BY <4>1, <3>1, <3>2 DEF Keeps, InSnapshot
    <3>4. ~wrapped'[i] => Laid(owned'[i], dynamic'[i], Keeps(i)', brk'[i])
      BY <3>1, <3>3 DEF LaidOut
    <3> QED
      BY <2>0, <3>1, <3>4 DEF LaidOut
  <2>7. ASSUME NEW m \in Modules, Destroy(m)  PROVE  LaidOut'
    <3>1. /\ phase'[m] = "none" /\ \A f \in Functions \ {m} : snapshot'[f] = snapshot[f]
          /\ \A k \in Modules \ {m} :
               /\ dynamic'[k] = dynamic[k] /\ owned'[k] = owned[k] /\ brk'[k] = brk[k]
               /\ phase'[k] = phase[k] /\ wrapped'[k] = wrapped[k]
      BY <2>7 DEF Destroy, Types
    <3> QED
      BY <2>0, <3>1 DEF LaidOut
  <2>8. CASE ProcessEnds
    BY <2>1, <2>8 DEF ProcessEnds, memory, linking
  <2>9. CASE UNCHANGED vars
    BY <2>1, <2>9 DEF vars
  <2> QED
    BY <2>2, <2>3, <2>4, <2>5, <2>6, <2>7, <2>8, <2>9 DEF Next
<1> QED
  BY <1>1, <1>2, TypesAlways, LinkedAlways, PTL DEF Spec

\* Memory that is in use is not given out again, whatever a module allocates,
\* maps, loads, frees in parts or takes from its snapshot, and lies below the
\* break, up to which the snapshot saves it: as long as no request takes the break
\* round the 32 bits, and but for the modules that the ping has loaded, of which
\* an invocation has only the handles (growMemory, unmapMemory, clone, restore).
THEOREM RegionsDisjointAlways == Spec => []RegionsDisjoint
<1>1. Types /\ Fits /\ LaidOut => RegionsDisjoint
  <2> SUFFICES ASSUME Types, Fits, LaidOut, NEW m \in Alive, ~wrapped[m]
      PROVE  /\ \A r, s \in Regions(m) : r # s => r[2][2] <= s[2][1] \/ s[2][2] <= r[2][1]
             /\ \A r \in Regions(m) : Image <= r[2][1] /\ r[2][2] <= brk[m]
    BY DEF RegionsDisjoint
  <2>1. Laid(owned[m], dynamic[m], Keeps(m), brk[m])
    BY DEF LaidOut, Alive
  <2>2. \A r \in Regions(m) :
          \/ \E o \in owned[m] : r = <<0, o>>
          \/ \E h \in Keeps(m) : r = <<h, Whole(dynamic[m][h])>>
    BY DEF Regions
  <2>3. \A r \in Regions(m) : Between(r[2], brk[m])
    BY <2>1, <2>2 DEF Laid
  <2>4. ASSUME NEW r \in Regions(m), NEW s \in Regions(m), r # s
        PROVE  Separate(r[2], s[2])
    <3>1. CASE \E o, q \in owned[m] : r = <<0, o>> /\ s = <<0, q>>
      BY <2>1, <2>4, <3>1 DEF Laid
    <3>2. CASE \E o \in owned[m], h \in Keeps(m) :
                 \/ r = <<0, o>> /\ s = <<h, Whole(dynamic[m][h])>>
                 \/ s = <<0, o>> /\ r = <<h, Whole(dynamic[m][h])>>
      BY <2>1, <3>2 DEF Laid, Separate
    <3>3. CASE \E h, k \in Keeps(m) : /\ r = <<h, Whole(dynamic[m][h])>>
                                      /\ s = <<k, Whole(dynamic[m][k])>>
      BY <2>1, <2>4, <3>3 DEF Laid
    <3> QED
      BY <2>2, <3>1, <3>2, <3>3
  <2> QED
    BY <2>3, <2>4 DEF Between, Separate, Before
<1> QED
  BY <1>1, TypesAlways, LaidOutAlways, PTL

-----------------------------------------------------------------------------
(* Guard regions.                                                          *)
Middle(d) == d.bottom..(d.bottom + ModulePages - 1)

\* Where a module was loaded, its guard regions are protected, and nothing else
\* of its memory, unless a break goes round.
Guarded ==
  \A m \in Modules : ~wrapped[m] => \A h \in Loaded(m) :
    dynamic[m][h].by[1] = m =>
      PagesOf(Whole(dynamic[m][h])) \ readOnly[m] = Middle(dynamic[m][h])

\* What a module has loaded itself is below the break.
LEMMA LoadedBelowBreak ==
  ASSUME Types, Fits, Linked, LaidOut, NEW m \in Modules, phase[m] # "none", ~wrapped[m],
         NEW h \in Loaded(m), dynamic[m][h].by[1] = m
  PROVE  \A p \in PagesOf(Whole(dynamic[m][h])) : p \in Int /\ p < brk[m]
<1>1. h \in Keeps(m)
  BY Apart DEF Keeps, Linked, LoadedBy
<1>2. /\ Between(Whole(dynamic[m][h]), brk[m])
      /\ Whole(dynamic[m][h])[1] \in Int /\ Whole(dynamic[m][h])[2] \in Int
  BY <1>1, TypesPlace, PlacedBounds DEF LaidOut, Laid
<1>3. brk[m] \in Nat
  BY WasmModuleAssumption DEF Types
<1> QED
  BY <1>2, <1>3 DEF PagesOf, Between

\* A step of a guest protects pages above the break, and the guard regions of
\* the module that it loads.
LEMMA GuestGuarded ==
  ASSUME Types, Fits, Linked, LaidOut, Guarded, NEW m \in Modules, Guest(m)
  PROVE  Guarded'
<1>1. /\ \A k \in Modules \ {m} :
           /\ dynamic'[k] = dynamic[k] /\ readOnly'[k] = readOnly[k]
           /\ wrapped'[k] = wrapped[k]
      /\ Runs(m) /\ phase[m] # "none" /\ (wrapped[m] => wrapped'[m])
  BY GuestKeeps DEF Runs
<1>2. ASSUME NEW k \in Modules \ {m}, ~wrapped'[k],
             NEW h \in Loaded(k)', dynamic'[k][h].by[1] = k
      PROVE  PagesOf(Whole(dynamic'[k][h])) \ readOnly'[k] = Middle(dynamic'[k][h])
  BY <1>1, <1>2 DEF Guarded, Loaded
<1>3. ASSUME ~wrapped'[m], NEW h \in Loaded(m), dynamic[m][h].by[1] = m, NEW more,
             \A p \in more : p \in Int /\ brk[m] <= p
      PROVE  PagesOf(Whole(dynamic[m][h])) \ (readOnly[m] \cup more) = Middle(dynamic[m][h])
  <2>1. \A p \in PagesOf(Whole(dynamic[m][h])) : p \in Int /\ p < brk[m]
    BY <1>1, <1>3, LoadedBelowBreak
  <2>2. brk[m] \in Int
    BY WasmModuleAssumption DEF Types
  <2>3. PagesOf(Whole(dynamic[m][h])) \cap more = {}
    BY <1>3, <2>1, <2>2
  <2>4. PagesOf(Whole(dynamic[m][h])) \ readOnly[m] = Middle(dynamic[m][h])
    BY <1>1, <1>3 DEF Guarded
  <2> QED
    BY <2>3, <2>4
<1>4. ASSUME dynamic' = dynamic, NEW more, \A p \in more : p \in Int /\ brk[m] <= p,
             readOnly'[m] = readOnly[m] \cup more
      PROVE  Guarded'
  <2>1. ASSUME ~wrapped'[m], NEW h \in Loaded(m)', dynamic'[m][h].by[1] = m
        PROVE  PagesOf(Whole(dynamic'[m][h])) \ readOnly'[m] = Middle(dynamic'[m][h])
    <3>1. h \in Loaded(m) /\ dynamic[m][h].by[1] = m
      BY <1>4, <2>1 DEF Loaded
    <3>2. PagesOf(Whole(dynamic[m][h])) \ (readOnly[m] \cup more) = Middle(dynamic[m][h])
      BY <1>3, <1>4, <2>1, <3>1
    <3> QED
      BY <1>4, <3>2
  <2> QED
    BY <1>2, <2>1 DEF Guarded
<1>5. CASE readOnly' = readOnly /\ dynamic' = dynamic
  BY <1>1, <1>5 DEF Guarded, Loaded
<1>6. CASE \E n \in Requests : mmapFile(m, n)
  <2>1. PICK n \in Requests : mmapFile(m, n)
    BY <1>6
  <2> DEFINE at == grow(m, n).at
             mapped == {p \in Pages : at <= p /\ p < at + n}
  <2>2. n \in 0..Space /\ Space \in Nat /\ MaxPages \in Nat
    BY WasmModuleAssumption
  <2>3. at \in Nat /\ brk[m] <= at /\ brk[m] \in Nat
    <3>1. at \in 0..MaxPages /\ brk[m] <= at
      BY <2>1, <2>2, GivenIs DEF mmapFile
    <3> QED  BY <2>2, <3>1 DEF Types
  <2>4. dynamic' = dynamic /\ readOnly'[m] = readOnly[m] \cup mapped
    BY <2>1 DEF mmapFile, linking, Types
  <2>5. \A p \in mapped : p \in Int /\ brk[m] <= p
    <3>1. \A p \in Pages : p \in Int
      BY <2>2 DEF Pages
    <3> HIDE DEF at
    <3> QED  BY <2>3, <3>1
  <2> HIDE DEF mapped
  <2> QED
    BY <1>4, <2>4, <2>5
<1>7. CASE \E path \in Paths, resolved \in 0..1 : dlopen(m, path, resolved)
  <2>1. PICK path \in Paths, resolved \in 0..1 : dlopen(m, path, resolved)
    BY <1>7
  <2>2. PICK at \in Nat, h \in Handles, new \in DynamicModules :
               Opens(m, path, resolved, at, h, new)
    BY <2>1, DlopenGives
  <2> DEFINE below == at..new.bottom - 1
             above == new.bottom + ModulePages..at + Provision - 1
  <2>3. /\ Provision = ModulePages + 2 * GuardPages
        /\ ModulePages \in Nat /\ GuardPages \in Nat /\ brk[m] \in Nat /\ brk[m] <= at
        /\ new.bottom = at + GuardPages
    BY <2>2, WasmModuleAssumption DEF Opens, Provision, Types
  <2>4. /\ dynamic'[m][h] = new /\ \A k \in Handles \ {h} : dynamic'[m][k] = dynamic[m][k]
        /\ readOnly'[m] = readOnly[m] \cup (below \cup above)
        /\ Middle(new) \cap readOnly[m] = {}
        /\ Whole(new) = <<at, at + Provision>>
    BY <2>2 DEF Opens, Types, Middle
  <2>5. \A p \in below \cup above : p \in Int /\ brk[m] <= p
    BY <2>3
  <2>6. PagesOf(Whole(new)) = below \cup Middle(new) \cup above
        /\ Middle(new) \cap (below \cup above) = {}
    BY <2>3, <2>4 DEF PagesOf, Middle
  <2> HIDE DEF below, above
  <2>7. PagesOf(Whole(new)) \ readOnly'[m] = Middle(new)
    BY <2>4, <2>6
  <2>8. ASSUME ~wrapped'[m], NEW k \in Loaded(m)', dynamic'[m][k].by[1] = m
        PROVE  PagesOf(Whole(dynamic'[m][k])) \ readOnly'[m] = Middle(dynamic'[m][k])
    <3>1. CASE k = h
      BY <2>4, <2>7, <3>1
    <3>2. CASE k # h
      <4>1. dynamic'[m][k] = dynamic[m][k] /\ k \in Loaded(m)
        BY <2>4, <3>2 DEF Loaded
      <4> QED
        BY <1>3, <2>4, <2>5, <2>8, <4>1
    <3> QED  BY <3>1, <3>2
  <2> QED
    BY <1>2, <2>8 DEF Guarded
<1>8. CASE \/ \E n \in Requests \cup {0} : allocate(m, n)
           \/ \E r \in owned[m] : \E offset, top \in r[1]..r[2] :
                offset < top /\ munmap(m, r, offset, top)
           \/ \E r \in owned[m] \cup {<<0, Image>>} : write(m, r)
           \/ dlopenKnown(m) \/ dlsym(m) \/ systemCall(m) \/ End(m)
  BY <1>5, <1>8
     DEF allocate, munmap, write, dlopenKnown, dlsym, systemCall, End, memory, linking, vars
<1> QED
  BY <1>6, <1>7, <1>8 DEF Guest

\* The guard regions of a module are protected where it was loaded, unless the
\* break goes round.
THEOREM GuardedAlways == Spec => []Guarded
<1> USE Apart
<1>1. Init => Guarded
  BY DEF Init, Guarded, Loaded
<1>2. Types /\ Fits /\ Linked /\ LaidOut /\ Guarded /\ [Next]_vars => Guarded'
  <2> SUFFICES ASSUME Types, Fits, Linked, LaidOut, Guarded, [Next]_vars  PROVE  Guarded'
    OBVIOUS
  <2>1. CASE UNCHANGED <<dynamic, readOnly, wrapped>>
    BY <2>1 DEF Guarded, Loaded
  <2>2. ASSUME NEW m \in Modules, Guest(m)  PROVE  Guarded'
    BY <2>2, GuestGuarded
  <2>3. ASSUME NEW i \in Invocations, NEW f \in Functions, Clone(i, f)  PROVE  Guarded'
    <3>1. /\ dynamic'[i] = dynamic[f]
          /\ \A k \in Modules \ {i} :
               /\ dynamic'[k] = dynamic[k] /\ readOnly'[k] = readOnly[k]
               /\ wrapped'[k] = wrapped[k]
      BY <2>3 DEF Clone, Types
    <3>2. \A h \in Loaded(f) : dynamic[f][h].by[1] # i
      BY DEF Linked, LoadedBy
    <3>3. ASSUME NEW h \in Loaded(i)'  PROVE  dynamic'[i][h].by[1] # i
      BY <3>1, <3>2 DEF Loaded
    <3>4. ASSUME NEW k \in Modules \ {i}, ~wrapped'[k],
                 NEW h \in Loaded(k)', dynamic'[k][h].by[1] = k
          PROVE  PagesOf(Whole(dynamic'[k][h])) \ readOnly'[k] = Middle(dynamic'[k][h])
      BY <3>1, <3>4 DEF Guarded, Loaded
    <3> QED
      BY <3>3, <3>4 DEF Guarded
  <2>4. ASSUME NEW m \in Modules, Destroy(m)  PROVE  Guarded'
    <3>1. /\ Loaded(m)' = {}
          /\ \A k \in Modules \ {m} :
               /\ dynamic'[k] = dynamic[k] /\ readOnly'[k] = readOnly[k]
               /\ wrapped'[k] = wrapped[k]
      BY <2>4 DEF Destroy, Types, Loaded
    <3> QED
      BY <3>1 DEF Guarded, Loaded
  <2>5. CASE \E f \in Functions : Bind(f) \/ Bound(f) \/ Registered(f)
    BY <2>1, <2>5 DEF Bind, Bound, Registered, memory, linking
  <2>6. CASE ProcessEnds \/ UNCHANGED vars
    BY <2>1, <2>6 DEF ProcessEnds, memory, linking, vars
  <2> QED
    BY <2>2, <2>3, <2>4, <2>5, <2>6 DEF Next
<1> QED
  BY <1>1, <1>2, TypesAlways, LinkedAlways, LaidOutAlways, PTL DEF Spec

\* One handle for a path, one path for a handle, and no two modules share elements
\* of the table, whether the module, its function before the snapshot or the ping
\* has loaded them (dlopen, dlsym, clone).
THEOREM LinkedOnceAlways == Spec => []LinkedOnce
<1>1. Linked => LinkedOnce
  <2> SUFFICES ASSUME Linked, NEW m \in Alive
      PROVE  /\ \A p \in Paths : handles[m][p] # 0 => handles[m][p] \in Loaded(m)
             /\ \A h \in Loaded(m) :
                  LET d == dynamic[m][h] IN
                  /\ handles[m][d.path] = h
                  /\ d.tableBottom + TableElems <= tableSize[m]
                  /\ \A k \in Loaded(m) \ {h} :
                       \/ d.tableBottom + TableElems <= dynamic[m][k].tableBottom
                       \/ dynamic[m][k].tableBottom + TableElems <= d.tableBottom
    BY DEF LinkedOnce
  <2>1. LinkedAs(dynamic[m], handles[m], tableSize[m]) /\ Loaded(m) = LoadedIn(dynamic[m])
    BY DEF Linked, Alive, Loaded, LoadedIn
  <2> QED
    BY <2>1 DEF LinkedAs
<1> QED
  BY <1>1, LinkedAlways, PTL

\* Where a module was loaded, its guard regions and nothing else of it are
\* protected, unless a request takes the break round the 32 bits
\* (createMemoryGuardRegion, mmapFile, unmapMemory).
THEOREM GuardsProtectedAlways == Spec => []GuardsProtected
<1>1. Guarded => GuardsProtected
  BY DEF Guarded, GuardsProtected, Middle, Alive
<1> QED
  BY <1>1, GuardedAlways, PTL
=============================================================================
