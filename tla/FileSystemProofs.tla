-------------------------- MODULE FileSystemProofs --------------------------
(* Proofs about FileSystem, for any number of modules, descriptors, names   *)
(* and buffers: FileIsItsOwn, WriteIsInherited, TypeOK, and, when the ping  *)
(* reads no directory, DirectoryReadOnce.                                   *)
EXTENDS FileSystem, FiniteSetTheorems, WellFoundedInduction, SequenceTheorems, TLAPS

N == Cardinality(DOMAIN EndOf) - 1

Readers == [seen : Seq(Nat), eof : BOOLEAN]

Types ==
  /\ phase \in [Modules -> {"none", "running", "pinging", "ready", "thrown"}]
  /\ table \in [Modules -> [Fds -> Entries \cup {NoDesc}]]
  /\ nextFd \in [Modules -> 0..(MaxFd + 1)]
  /\ reader \in [Modules -> [Fds -> Readers]]
  /\ snapshot \in [Fds -> Readers]
  /\ stdoutFd \in [Modules -> Int \cup {Unset}]
  /\ kernel \in [LinuxFds -> Objects \cup {Free}]

\* The three descriptors of the process that every table begins with.
StdInv == \A l \in 0..2 : kernel[l] # Free /\ kernel[l].path = <<"dev">>

\* An entry has the file it was opened on, may not hand on what its limit
\* forbids, and its iterator is within the directory.
EntryOK(d, k) ==
  /\ d.inh \subseteq d.limit
  /\ d.lfd # NoFile => /\ k[d.lfd] # Free
                       /\ k[d.lfd].path = d.path
                       /\ k[d.lfd].w => "write" \in d.limit
  /\ IF d.loaded THEN d.len = N /\ d.idx <= N ELSE d.len = 0 /\ d.idx = 0

EntryInv ==
  \A i \in Modules, fd \in Fds : Known(i, fd) => EntryOK(table[i][fd], kernel)

\* Numbers that were not given out have no entry; nor has a module that is none.
FreshInv ==
  /\ \A i \in Modules, fd \in Fds : fd >= nextFd[i] => ~Known(i, fd)
  /\ \A i \in Modules : phase[i] = "none" => nextFd[i] = 0

Inv == Types /\ StdInv /\ EntryInv /\ FreshInv

\* What a reader remembers is where its descriptor's iterator stands.
Consistent(r, d) ==
  /\ r.seen = [k \in 1..Len(r.seen) |-> k]
  /\ d = NoDesc => r = NoReader
  /\ d # NoDesc /\ r.seen # <<>> => d.loaded /\ Len(r.seen) = d.idx
  /\ d # NoDesc /\ r.eof => d.loaded /\ r.seen # <<>> /\ Len(r.seen) = d.len

ReaderInv ==
  /\ \A i \in Modules, fd \in Fds : Consistent(reader[i][fd], table[i][fd])
  /\ phase[Base] \in {"pinging", "ready"} =>
       \A fd \in Fds : Consistent(snapshot[fd], table[Base][fd])

-----------------------------------------------------------------------------
\* A nonempty set of numbers has a least one.
LEMMA Least ==
  ASSUME NEW T, T \subseteq Nat, T # {}
  PROVE  \E x \in T : \A y \in T : x <= y
<1> DEFINE R == {ss \in Nat \X Nat : ss[1] < ss[2]}
<1>1. IsWellFoundedOn(R, Nat)
  BY NatLessThanWellFounded DEF OpToRel
<1> HIDE DEF R
<1>2. PICK x \in T : \A y \in T : ~(<<y, x>> \in R)
  BY <1>1, WFMin
<1>3. ASSUME NEW y \in T PROVE x <= y
  <2>1. <<y, x>> \in Nat \X Nat /\ ~(<<y, x>> \in R)
    BY <1>2
  <2> QED
    BY <2>1 DEF R
<1> QED
  BY <1>2, <1>3

\* The number that Linux gives is free.
LEMMA LowestIsFree ==
  ASSUME FreeFds # {}
  PROVE  Lowest \in FreeFds /\ Lowest \in LinuxFds /\ kernel[Lowest] = Free
<1>1. FreeFds \subseteq Nat
  BY DEF FreeFds, LinuxFds
<1>2. \E l \in FreeFds : \A n \in FreeFds : l <= n
  BY <1>1, Least
<1> QED
  BY <1>2 DEF Lowest, FreeFds

\* The two numbers of the preopened directories are free and differ.
LEMMA TwoFree ==
  ASSUME Cardinality(FreeFds) >= 2
  PROVE  /\ FreeFds # {}
         /\ Second \in FreeFds \ {Lowest} /\ Second \in LinuxFds /\ kernel[Second] = Free
<1>1. IsFiniteSet(FreeFds)
  <2>1. IsFiniteSet(LinuxFds)
    BY FS_Interval, FileSystemAssumption DEF LinuxFds
  <2> QED
    BY <2>1, FS_Subset DEF FreeFds
<1>2. FreeFds # {}
  BY FS_EmptySet
<1>3. FreeFds \ {Lowest} # {}
  <2>1. Lowest \in FreeFds
    BY <1>2, LowestIsFree
  <2>2. Cardinality(FreeFds \ {Lowest}) = Cardinality(FreeFds) - 1
    BY <1>1, <2>1, FS_RemoveElement
  <2>3. Cardinality(FreeFds) \in Nat
    BY <1>1, FS_CardinalityType
  <2>4. ASSUME FreeFds \ {Lowest} = {} PROVE FALSE
    BY <2>2, <2>3, <2>4, FS_EmptySet
  <2> QED
    BY <2>4
<1>4. FreeFds \ {Lowest} \subseteq Nat
  BY DEF FreeFds, LinuxFds
<1>5. \E l \in FreeFds \ {Lowest} : \A n \in FreeFds \ {Lowest} : l <= n
  BY <1>3, <1>4, Least
<1> QED
  BY <1>2, <1>5 DEF Second, FreeFds

\* A directory has a number of entries.
LEMMA NPositive == N \in Nat /\ N >= 2 /\ DOMAIN EndOf = 0..N
<1>1. Cardinality(DOMAIN EndOf) \in Nat
  BY EndOfAssumption, FS_CardinalityType
<1> QED
  BY <1>1, EndOfAssumption DEF N

\* The number of entries that are copied is well defined.
LEMMA Copied ==
  ASSUME NEW d, d.len = N, d.idx \in 0..N, NEW bufLen \in Nat
  PROVE  WholeEntries(d, bufLen) \in 0..(N - d.idx)
<1> DEFINE Left == N - d.idx
           T == {n \in 0..Left : Bytes(d, Left - n) <= bufLen}
<1>1. Left \in Nat
  BY NPositive
<1>2. \A k \in 0..Left : Bytes(d, k) \in Int
  BY EndOfAssumption, NPositive DEF Bytes
<1>3. Bytes(d, 0) = 0
  BY EndOfAssumption, NPositive DEF Bytes
<1>4. Left \in T /\ T \subseteq Nat
  BY <1>1, <1>3
<1>5. PICK n \in T : \A y \in T : n <= y
  BY <1>4, Least
<1>6. Left - n \in 0..Left /\ Bytes(d, Left - n) <= bufLen
  BY <1>1, <1>5
<1>7. ASSUME NEW j \in 0..Left, Bytes(d, j) <= bufLen PROVE j <= Left - n
  <2>1. Left - j \in 0..Left /\ Left - (Left - j) = j
    BY <1>1
  <2>2. Left - j \in T
    BY <1>7, <2>1
  <2> QED
    BY <1>1, <1>5, <2>1, <2>2
<1>8. \E k \in 0..Left : Bytes(d, k) <= bufLen /\ \A j \in 0..Left : Bytes(d, j) <= bufLen => j <= k
  BY <1>6, <1>7
<1> QED
  BY <1>8 DEF WholeEntries

-----------------------------------------------------------------------------
(* The invariant.                                                          *)
\* What is open, and what a table holds, has a type.
LEMMA Typed ==
  /\ Paths # {} /\ <<>> \in Paths /\ <<"dev">> \in Paths /\ <<"socket">> \in Paths
  /\ <<"memfd">> \in Paths
  /\ \A p \in Paths, w \in BOOLEAN : Object(p, w) \in Objects /\ Object(p, w) # Free
                                     /\ Object(p, w).path = p /\ Object(p, w).w = w
  /\ \A p \in Paths, b, h, m \in SUBSET Rights, l \in LinuxFds \cup {NoFile} :
       Desc(p, b, h, l, m) \in Entries /\ Desc(p, b, h, l, m) # NoDesc
<1>1. /\ <<>> \in Paths /\ <<"dev">> \in Paths /\ <<"socket">> \in Paths
      /\ <<"memfd">> \in Paths
  BY DEF Paths
<1>2. \A p \in Paths, w \in BOOLEAN : Object(p, w) \in Objects /\ Object(p, w) # Free
                                     /\ Object(p, w).path = p /\ Object(p, w).w = w
  BY FileSystemAssumption DEF Object, Objects
<1>3. \A p \in Paths, b, h, m \in SUBSET Rights, l \in LinuxFds \cup {NoFile} :
        Desc(p, b, h, l, m) \in Entries /\ Desc(p, b, h, l, m) # NoDesc
  <2> SUFFICES ASSUME NEW p \in Paths, NEW b \in SUBSET Rights, NEW h \in SUBSET Rights,
                      NEW m \in SUBSET Rights, NEW l \in LinuxFds \cup {NoFile}
               PROVE  Desc(p, b, h, l, m) \in Entries
    BY FileSystemAssumption
  <2> QED
    BY DEF Desc, Entries
<1> QED
  BY <1>1, <1>2, <1>3

\* The three standard descriptors are numbers of the process.
LEMMA Std ==
  0 \in LinuxFds /\ 1 \in LinuxFds /\ 2 \in LinuxFds /\ LinuxFds \subseteq Nat /\ NoFile \notin LinuxFds
  BY FileSystemAssumption DEF LinuxFds, NoFile

\* The tables start in the invariant.
LEMMA InitInv == Init => Inv
<1> SUFFICES ASSUME Init PROVE Inv
  OBVIOUS
<1>1. KernelAtStart \in [LinuxFds -> Objects \cup {Free}]
  BY Typed DEF KernelAtStart
<1>2. NothingRead \in [Fds -> Readers]
  BY DEF NothingRead, NoReader, Readers
<1>3. Types
  BY <1>1, <1>2, FileSystemAssumption DEF Init, Types, Empty
<1>4. StdInv
  <2>1. \A l \in 0..2 : l \in LinuxFds /\ l <= 2
    BY FileSystemAssumption DEF LinuxFds
  <2>2. \A l \in 0..2 : KernelAtStart[l] = Object(<<"dev">>, TRUE)
    BY <2>1 DEF KernelAtStart
  <2> QED
    BY <2>2, Typed DEF Init, StdInv
<1>5. EntryInv /\ FreshInv
  BY DEF Init, EntryInv, FreshInv, Known, Empty
<1> QED
  BY <1>3, <1>4, <1>5 DEF Inv

\* The phase of a module may change to anything but "none".
Goes == /\ phase' \in [Modules -> {"none", "running", "pinging", "ready", "thrown"}]
        /\ \A i \in Modules : phase'[i] = "none" => phase[i] = "none"

\* Linux gives a number that is free, and keeps what is open.
Grows == /\ kernel' \in [LinuxFds -> Objects \cup {Free}]
         /\ \A l \in LinuxFds : kernel[l] # Free => kernel'[l] = kernel[l]

\* A step that leaves the tables alone keeps the invariant.
LEMMA KeepsTables ==
  ASSUME Inv, Goes, Grows, UNCHANGED <<table, nextFd>>,
         reader' \in [Modules -> [Fds -> Readers]], snapshot' \in [Fds -> Readers],
         stdoutFd' \in [Modules -> Int \cup {Unset}]
  PROVE  Inv'
<1>1. Types'
  BY DEF Inv, Types, Goes, Grows
<1>2. StdInv'
  BY Std DEF Inv, StdInv, Grows
<1>3. EntryInv'
  <2> SUFFICES ASSUME NEW i \in Modules, NEW fd \in Fds, Known(i, fd)
               PROVE  EntryOK(table[i][fd], kernel')
    BY DEF EntryInv, EntryOK, Known
  <2>1. EntryOK(table[i][fd], kernel)
    BY DEF Inv, EntryInv
  <2>2. table[i][fd].lfd \in LinuxFds \cup {NoFile}
    BY DEF Inv, Types, Known, Entries
  <2> QED
    BY <2>1, <2>2 DEF EntryOK, Grows
<1>4. FreshInv'
  BY DEF Inv, FreshInv, Known, Goes
<1> QED
  BY <1>1, <1>2, <1>3, <1>4 DEF Inv

\* So does one that makes an entry at the next number.
LEMMA Enters ==
  ASSUME Inv, Goes, Grows, NEW i \in Modules, phase[i] # "none", NEW d \in Entries,
         nextFd[i] <= MaxFd, nextFd' = [nextFd EXCEPT ![i] = @ + 1],
         table' = [table EXCEPT ![i][nextFd[i]] = d],
         EntryOK(d, kernel'),
         reader' \in [Modules -> [Fds -> Readers]],
         UNCHANGED <<snapshot, stdoutFd>>
  PROVE  Inv'
<1> DEFINE new == nextFd[i]
<1>1. new \in Fds
  BY DEF Inv, Types, Fds
<1>2. Types'
  <2>1. nextFd' \in [Modules -> 0..(MaxFd + 1)]
    BY FileSystemAssumption DEF Inv, Types
  <2>2. table' \in [Modules -> [Fds -> Entries \cup {NoDesc}]]
    BY <1>1 DEF Inv, Types
  <2> QED
    BY <2>1, <2>2 DEF Inv, Types, Goes, Grows
<1>3. StdInv'
  BY Std DEF Inv, StdInv, Grows
<1>4. \A j \in Modules, fd \in Fds :
        table'[j][fd] = IF j = i /\ fd = new THEN d ELSE table[j][fd]
  BY <1>1 DEF Inv, Types
<1>5. EntryInv'
  <2> SUFFICES ASSUME NEW j \in Modules, NEW fd \in Fds, table'[j][fd] # NoDesc
               PROVE  EntryOK(table'[j][fd], kernel')
    BY DEF EntryInv, EntryOK, Known
  <2>1. CASE j = i /\ fd = new
    BY <1>4, <2>1
  <2>2. CASE ~(j = i /\ fd = new)
    <3>1. table'[j][fd] = table[j][fd] /\ Known(j, fd)
      BY <1>4, <2>2 DEF Known
    <3>2. EntryOK(table[j][fd], kernel)
      BY <3>1 DEF Inv, EntryInv
    <3>3. table[j][fd].lfd \in LinuxFds \cup {NoFile}
      BY <3>1 DEF Inv, Types, Known, Entries
    <3> QED
      BY <3>1, <3>2, <3>3 DEF EntryOK, Grows
  <2> QED
    BY <2>1, <2>2
<1>6. FreshInv'
  <2>1. \A j \in Modules, fd \in Fds : fd >= nextFd'[j] => table'[j][fd] = NoDesc
    BY <1>4, FileSystemAssumption DEF Inv, FreshInv, Known, Types, Fds
  <2>2. \A j \in Modules : phase'[j] = "none" => nextFd'[j] = 0
    BY DEF Inv, FreshInv, Goes, Types
  <2> QED
    BY <2>1, <2>2 DEF FreshInv, Known
<1> QED
  BY <1>2, <1>3, <1>5, <1>6 DEF Inv

-----------------------------------------------------------------------------
(* The steps.                                                              *)
\* What Linux opens takes the lowest free number.
LEMMA Opening ==
  ASSUME Inv, FreeFds # {}, NEW p \in Paths, NEW w \in BOOLEAN, Opened(Lowest, p, w)
  PROVE  Grows /\ kernel'[Lowest] = Object(p, w)
<1>1. Lowest \in LinuxFds /\ kernel[Lowest] = Free
  BY LowestIsFree
<1>2. Object(p, w) \in Objects
  BY Typed
<1> QED
  BY <1>1, <1>2 DEF Opened, Grows, Inv, Types

\* An exception changes the phase as Goes allows.
LEMMA Throws ==
  ASSUME Inv, NEW i \in Modules, Throw(i)
  PROVE  Goes
BY DEF Inv, Types, Throw, Goes

\* What a step leaves alone keeps its type.
LEMMA Same ==
  ASSUME Inv
  PROVE  /\ UNCHANGED phase => Goes
         /\ UNCHANGED kernel => Grows
         /\ UNCHANGED reader => reader' \in [Modules -> [Fds -> Readers]]
         /\ UNCHANGED snapshot => snapshot' \in [Fds -> Readers]
         /\ UNCHANGED stdoutFd => stdoutFd' \in [Modules -> Int \cup {Unset}]
BY DEF Inv, Types, Goes, Grows

\* However a call ends, the module does not go back to "none".
LEMMA AnswerGoes ==
  ASSUME Inv, NEW i \in Modules, NEW answers, AnswerIn(i, answers)
  PROVE  Goes
<1>1. Throw(i) \/ UNCHANGED phase
  BY DEF AnswerIn
<1> QED
  BY <1>1, Throws, Same

\* The entry that is made when a file is opened through another.
LEMMA Through ==
  ASSUME NEW root \in Entries, NEW name \in DirNames \cup FileNames,
         NEW rb \in SUBSET Rights, NEW rh \in SUBSET Rights, NEW l \in LinuxFds \cup {NoFile}
  PROVE  OpenedThrough(root, name, rb, rh, l) \in Entries
<1>1. absPath(root, name) \in Paths
  BY DEF absPath, Paths, Entries
<1>2. /\ rb \cap root.inh \in SUBSET Rights /\ rh \cap root.inh \in SUBSET Rights
      /\ root.limit \cap root.inh \in SUBSET Rights
  BY DEF Entries
<1> QED
  BY <1>1, <1>2, Typed DEF OpenedThrough

\* Only a descriptor with the right is opened for writing.
LEMMA WritesNeedTheRight ==
  ASSUME NEW oflags, NEW rights, OpensForWriting(oflags, rights)
  PROVE  "write" \in rights
<1>1. getRwType(rights) \in {"READ_WRITE", "WRITE_ONLY"}
  BY DEF OpensForWriting
<1> QED
  BY <1>1 DEF getRwType

\* The entry a module has at a number.
LEMMA EntryOf ==
  ASSUME Inv, NEW i \in Modules, NEW fd \in Fds, Known(i, fd)
  PROVE  /\ table[i][fd] \in Entries
         /\ EntryOK(table[i][fd], kernel)
BY DEF Inv, Types, EntryInv, Known

\* Opening a file keeps the invariant, whether it is opened or not.
LEMMA PathOpenInv ==
  ASSUME Inv, NEW i \in Modules, NEW rootFd \in Fds, NEW name \in DirNames \cup FileNames,
         NEW rb \in SUBSET Rights, NEW rh \in SUBSET Rights, NEW oflags, NEW fdFlags,
         path_open(i, rootFd, name, rb, rh, oflags, fdFlags)
  PROVE  Inv'
<1> DEFINE root == table[i][rootFd]
           Made(l) == OpenedThrough(root, name, rb, rh, l)
           w == OpensForWriting(oflags, Made(NoFile).base)
<1>1. Runs(i) /\ Known(i, rootFd) /\ nextFd[i] <= MaxFd
  BY DEF path_open
<1>2. nextFd' = [nextFd EXCEPT ![i] = @ + 1] /\ UNCHANGED <<reader, snapshot, stdoutFd>>
  BY DEF path_open
<1>3. phase[i] # "none"
  BY <1>1 DEF Runs
<1>4. root \in Entries /\ root.inh \subseteq root.limit
  BY <1>1, EntryOf DEF EntryOK
<1>5. reader' \in [Modules -> [Fds -> Readers]]
  BY <1>2, Same
<1>6. ASSUME NEW l \in LinuxFds \cup {NoFile}, Goes, Grows,
             table' = [table EXCEPT ![i][nextFd[i]] = Made(l)],
             l # NoFile => kernel'[l] = Object(Made(l).path, w)
      PROVE  Inv'
  <2>1. Made(l) \in Entries
    BY <1>4, Through
  <2>2. EntryOK(Made(l), kernel')
    <3> DEFINE Facts(d, m) ==
          /\ d.lfd = m /\ d.path \in Paths /\ d.base = rb \cap root.inh
          /\ d.base \subseteq d.limit /\ d.inh \subseteq d.limit
          /\ ~d.loaded /\ d.len = 0 /\ d.idx = 0
    <3>0. \A m \in LinuxFds \cup {NoFile} : Facts(Made(m), m)
      <4> SUFFICES ASSUME NEW m \in LinuxFds \cup {NoFile} PROVE Facts(Made(m), m)
        OBVIOUS
      <4>1. Made(m) \in Entries
        BY <1>4, Through
      <4>2. Made(m).path \in Paths
        BY <4>1 DEF Entries
      <4>3. /\ Made(m).lfd = m /\ Made(m).base = rb \cap root.inh
            /\ Made(m).inh = rh \cap root.inh /\ Made(m).limit = root.limit \cap root.inh
            /\ ~Made(m).loaded /\ Made(m).len = 0 /\ Made(m).idx = 0
        <5> HIDE DEF root
        <5> QED
          BY DEF OpenedThrough, Desc
      <4> HIDE DEF Made, root
      <4> QED
        BY <1>4, <4>2, <4>3
    <3>1. /\ Made(l).lfd = l /\ Made(l).path \in Paths /\ Made(l).base = rb \cap root.inh
          /\ Made(l).inh \subseteq Made(l).limit /\ Made(l).base \subseteq Made(l).limit
          /\ ~Made(l).loaded /\ Made(l).len = 0 /\ Made(l).idx = 0
      <4> HIDE DEF Made
      <4> QED
        BY <3>0
    <3>2. w \in BOOLEAN
      BY DEF OpensForWriting
    <3>3. w => "write" \in Made(l).limit
      <4>1. Made(NoFile).base = rb \cap root.inh
        BY <3>0
      <4> QED
        BY <4>1, <3>1, WritesNeedTheRight
    <3>4. l # NoFile => /\ kernel'[l] # Free
                        /\ kernel'[l].path = Made(l).path
                        /\ kernel'[l].w = w
      BY <1>6, <3>1, <3>2, Typed
    <3> HIDE DEF Made, w
    <3> QED
      BY <3>1, <3>3, <3>4 DEF EntryOK
  <2> HIDE DEF Made
  <2> QED
    BY <2>1, <2>2, <1>1, <1>2, <1>3, <1>5, <1>6, Enters
<1>7. CASE table' = [table EXCEPT ![i][nextFd[i]] = Made(NoFile)] /\ UNCHANGED kernel /\ Goes
  BY <1>6, <1>7, Same
<1>8. CASE FreeFds # {} /\ table' = [table EXCEPT ![i][nextFd[i]] = Made(Lowest)]
           /\ Opened(Lowest, Made(Lowest).path, w) /\ UNCHANGED phase
  <2>1. Lowest \in LinuxFds
    BY <1>8, LowestIsFree
  <2>2. Made(Lowest).path \in Paths
    <3>1. Made(Lowest) \in Entries
      BY <1>4, <2>1, Through
    <3> QED
      BY <3>1 DEF Entries
  <2>3. w \in BOOLEAN
    BY DEF OpensForWriting
  <2>4. Grows /\ kernel'[Lowest] = Object(Made(Lowest).path, w)
    <3> HIDE DEF Made, w
    <3> QED
      BY <1>8, <2>2, <2>3, Opening
  <2> QED
    BY <1>6, <1>8, <2>1, <2>4, Same
<1>9. \/ table' = [table EXCEPT ![i][nextFd[i]] = Made(NoFile)] /\ UNCHANGED kernel /\ Goes
      \/ FreeFds # {} /\ table' = [table EXCEPT ![i][nextFd[i]] = Made(Lowest)]
         /\ Opened(Lowest, Made(Lowest).path, w) /\ UNCHANGED phase
  BY Throws, AnswerGoes DEF path_open
<1> QED
  BY <1>7, <1>8, <1>9

\* So does duplicating a descriptor.
LEMMA DupInv ==
  ASSUME Inv, NEW i \in Modules, NEW fd \in Fds, dup(i, fd)
  PROVE  Inv'
<1> DEFINE new == nextFd[i]
           Made(l) == duplicate(table[i][fd], l)
<1>1. /\ Runs(i) /\ nextFd[i] <= MaxFd
      /\ nextFd' = [nextFd EXCEPT ![i] = @ + 1] /\ UNCHANGED <<snapshot, stdoutFd>>
  BY DEF dup
<1>2. phase[i] # "none"
  BY <1>1 DEF Runs
<1>3. new \in Fds
  BY <1>1 DEF Inv, Types, Fds
<1>4. CASE ~Known(i, fd)
  <2>1. Goes /\ Grows /\ UNCHANGED <<table, reader>>
    BY <1>4, Throws, Same DEF dup
  <2>2. Types' /\ StdInv'
    <3>1. nextFd' \in [Modules -> 0..(MaxFd + 1)]
      BY <1>1, FileSystemAssumption DEF Inv, Types
    <3> QED
      BY <1>1, <2>1, <3>1, Std DEF Inv, Types, StdInv, Goes, Grows
  <2>3. EntryInv'
    BY <1>4, <2>1 DEF dup, Inv, EntryInv, EntryOK, Known
  <2>4. FreshInv'
    <3>1. \A j \in Modules : nextFd[j] \in Nat /\ nextFd'[j] \in Nat /\ nextFd'[j] >= nextFd[j]
      BY <1>1 DEF Inv, Types
    <3>2. \A j \in Modules, f \in Fds : f >= nextFd'[j] => f >= nextFd[j]
      BY <3>1 DEF Fds
    <3> QED
      BY <1>1, <1>2, <2>1, <3>2 DEF Inv, FreshInv, Known, Types, Goes
  <2> QED
    BY <2>2, <2>3, <2>4 DEF Inv
<1>5. CASE Known(i, fd)
  <2>1. table[i][fd] \in Entries /\ EntryOK(table[i][fd], kernel)
    BY <1>5, EntryOf
  <2>2. reader' = [reader EXCEPT ![i][new] = reader[i][fd]] /\ UNCHANGED phase
    BY <1>5 DEF dup
  <2>3. reader' \in [Modules -> [Fds -> Readers]]
    BY <1>3, <2>2 DEF Inv, Types
  <2>4. ASSUME NEW l \in LinuxFds \cup {NoFile}, Grows,
               table' = [table EXCEPT ![i][nextFd[i]] = Made(l)],
               l # NoFile => table[i][fd].lfd # NoFile
                             /\ kernel'[l] = kernel[table[i][fd].lfd]
        PROVE  Inv'
    <3>1. Made(l) \in Entries
      BY <2>1 DEF duplicate, Entries
    <3>2. EntryOK(Made(l), kernel')
      <4> DEFINE d == table[i][fd]
      <4> HIDE DEF d
      <4>1. d \in Entries /\ EntryOK(d, kernel)
        BY <2>1 DEF d
      <4>2. duplicate(d, l) = [d EXCEPT !.lfd = l]
        BY DEF duplicate
      <4>3. l # NoFile => d.lfd # NoFile /\ kernel'[l] = kernel[d.lfd]
        BY <2>4 DEF d
      <4>4. EntryOK(duplicate(d, l), kernel')
        BY <4>1, <4>2, <4>3 DEF EntryOK, Entries
      <4> QED
        BY <4>4 DEF d
    <3> HIDE DEF Made
    <3> QED
      BY <1>1, <1>2, <2>2, <2>3, <2>4, <3>1, <3>2, Same, Enters
  <2>5. CASE table[i][fd].lfd # NoFile /\ FreeFds # {}
    <3>1. /\ table' = [table EXCEPT ![i][new] = Made(Lowest)]
          /\ kernel' = [kernel EXCEPT ![Lowest] = kernel[table[i][fd].lfd]]
      BY <1>5, <2>5 DEF dup
    <3>2. Lowest \in LinuxFds /\ kernel[Lowest] = Free
      BY <2>5, LowestIsFree
    <3>3. table[i][fd].lfd \in LinuxFds
      BY <2>1, <2>5 DEF Entries
    <3>4. Grows /\ kernel'[Lowest] = kernel[table[i][fd].lfd]
      BY <3>1, <3>2, <3>3 DEF Grows, Inv, Types
    <3> QED
      BY <2>4, <2>5, <3>1, <3>2, <3>4
  <2>6. CASE table[i][fd].lfd = NoFile \/ FreeFds = {}
    BY <1>5, <2>4, <2>6, Same DEF dup
  <2> QED
    BY <2>5, <2>6
<1> QED
  BY <1>4, <1>5

\* What copyDirents does to an iterator.
LEMMA Advances ==
  ASSUME NEW d \in Entries, d.len = N, d.idx \in 0..N, NEW bufLen \in Nat
  PROVE  LET read == copyDirents(d, bufLen) IN
         /\ read.copied \in 0..(N - d.idx)
         /\ read.idx = d.idx + read.copied
         /\ read.size < bufLen => read.idx = N
<1>1. WholeEntries(d, bufLen) \in 0..(N - d.idx)
  BY Copied
<1>2. N \in Nat
  BY NPositive
<1>3. d.idx + WholeEntries(d, bufLen) < d.len \/ d.idx + WholeEntries(d, bufLen) = N
  BY <1>1, <1>2
<1> QED
  BY <1>1, <1>2, <1>3 DEF copyDirents

\* The descriptor fd_readdir copies from: with its iterator.
LEMMA Iterator ==
  ASSUME NEW d \in Entries, NEW k, EntryOK(d, k), NEW now,
         now = IF d.loaded THEN d ELSE loadDirContents(d)
  PROVE  /\ now \in Entries /\ now.loaded /\ now.len = N /\ now.idx = d.idx
         /\ now.idx \in 0..N
         /\ now.inh = d.inh /\ now.limit = d.limit /\ now.lfd = d.lfd /\ now.path = d.path
<1>1. N \in Nat
  BY NPositive
<1>2. CASE d.loaded
  BY <1>1, <1>2 DEF EntryOK, Entries
<1>3. CASE ~d.loaded
  <2>1. now = [d EXCEPT !.loaded = TRUE, !.len = N]
    BY <1>3 DEF loadDirContents, N
  <2> HIDE DEF N
  <2>2. now \in Entries
    BY <1>1, <2>1 DEF Entries
  <2>3. /\ now.loaded /\ now.len = N /\ now.idx = d.idx
        /\ now.inh = d.inh /\ now.limit = d.limit /\ now.lfd = d.lfd /\ now.path = d.path
    BY <2>1 DEF Entries
  <2>4. d.idx = 0
    BY <1>3 DEF EntryOK
  <2> QED
    BY <1>1, <2>2, <2>3, <2>4
<1> QED
  BY <1>2, <1>3

\* So does reading a directory.
LEMMA ReaddirInv ==
  ASSUME Inv, NEW i \in Modules, NEW fd \in Fds, NEW bufLen \in Nat,
         fd_readdir(i, fd, bufLen)
  PROVE  Inv'
<1> DEFINE d == table[i][fd]
           now == IF d.loaded THEN d ELSE loadDirContents(d)
           read == copyDirents(now, bufLen)
           then == [now EXCEPT !.idx = read.idx]
<1>1. /\ Known(i, fd)
      /\ table' = [table EXCEPT ![i][fd] = then]
      /\ reader' = [reader EXCEPT ![i][fd] =
                      [seen |-> @.seen \o [k \in 1..read.copied |-> d.idx + k],
                       eof |-> read.size < bufLen]]
      /\ UNCHANGED <<phase, nextFd, snapshot, stdoutFd, kernel>>
  BY DEF fd_readdir
<1>2. d \in Entries /\ EntryOK(d, kernel)
  BY <1>1, EntryOf
<1>3. /\ now \in Entries /\ now.loaded /\ now.len = N /\ now.idx = d.idx
      /\ now.idx \in 0..N
      /\ now.inh = d.inh /\ now.limit = d.limit /\ now.lfd = d.lfd /\ now.path = d.path
  <2> HIDE DEF d
  <2> QED
    BY <1>2, Iterator
<1>4. read.copied \in 0..(N - d.idx) /\ read.idx = d.idx + read.copied
  <2> HIDE DEF now, d
  <2> QED
    BY <1>3, Advances
<1>5. N \in Nat /\ d.idx \in Nat
  BY <1>2, NPositive DEF Entries
<1>6. then \in Entries /\ EntryOK(then, kernel)
  <2>1. then \in Entries
    <3> HIDE DEF now, read, d
    <3> QED
      BY <1>3, <1>4, <1>5 DEF Entries
  <2>2. read.idx \in 0..N
    <3> HIDE DEF read, d, N
    <3> QED
      BY <1>4, <1>5
  <2>3. /\ then.inh = now.inh /\ then.limit = now.limit /\ then.lfd = now.lfd
        /\ then.path = now.path /\ then.loaded /\ then.len = N /\ then.idx = read.idx
    <3> HIDE DEF now, read, d, N
    <3> QED
      BY <1>3 DEF Entries
  <2> HIDE DEF then, now, read, d, N
  <2> QED
    BY <1>2, <1>3, <2>1, <2>2, <2>3 DEF EntryOK
<1>7. Types'
  <2>1. [k \in 1..read.copied |-> d.idx + k] \in Seq(Nat)
    <3>1. read.copied \in Nat
      <4> HIDE DEF read, d, N
      <4> QED
        BY <1>4, <1>5
    <3> HIDE DEF read, d
    <3> QED
      BY <1>5, <3>1
  <2>2. reader[i][fd] \in Readers
    BY DEF Inv, Types
  <2>3. [seen |-> reader[i][fd].seen \o [k \in 1..read.copied |-> d.idx + k],
         eof |-> read.size < bufLen] \in Readers
    <3> DEFINE s == [k \in 1..read.copied |-> d.idx + k]
    <3>1. s \in Seq(Nat)
      BY <2>1
    <3> HIDE DEF s, read
    <3>2. reader[i][fd].seen \o s \in Seq(Nat)
      BY <2>2, <3>1, ConcatProperties DEF Readers
    <3>3. (read.size < bufLen) \in BOOLEAN
      OBVIOUS
    <3>4. [seen |-> reader[i][fd].seen \o s, eof |-> read.size < bufLen] \in Readers
      BY <3>2, <3>3 DEF Readers
    <3> QED
      BY <3>4 DEF s
  <2>4. reader' \in [Modules -> [Fds -> Readers]]
    <3> DEFINE r == [seen |-> reader[i][fd].seen \o [k \in 1..read.copied |-> d.idx + k],
                     eof |-> read.size < bufLen]
    <3>1. r \in Readers /\ reader' = [reader EXCEPT ![i][fd] = r]
      BY <1>1, <2>3
    <3> HIDE DEF r
    <3> QED
      BY <3>1 DEF Inv, Types
  <2>5. table' \in [Modules -> [Fds -> Entries \cup {NoDesc}]]
    <3> HIDE DEF then
    <3> QED
      BY <1>1, <1>6 DEF Inv, Types
  <2> QED
    BY <1>1, <2>4, <2>5 DEF Inv, Types
<1>8. StdInv'
  BY <1>1 DEF Inv, StdInv
<1>9. \A j \in Modules, f \in Fds :
        table'[j][f] = IF j = i /\ f = fd THEN then ELSE table[j][f]
  <2> HIDE DEF then
  <2> QED
    BY <1>1 DEF Inv, Types
<1>10. EntryInv' /\ FreshInv'
  <2> HIDE DEF then
  <2>1. EntryInv'
    BY <1>1, <1>6, <1>9 DEF Inv, EntryInv, EntryOK, Known
  <2>2. FreshInv'
    BY <1>1, <1>9 DEF Inv, FreshInv, Known
  <2> QED
    BY <2>1, <2>2
<1> QED
  BY <1>7, <1>8, <1>10 DEF Inv

\* So does the preparation of a table.
LEMMA PrepareInv ==
  ASSUME Inv, prepareFilesystem
  PROVE  Inv'
<1>1. /\ FreeFds # {} /\ Lowest \in LinuxFds /\ kernel[Lowest] = Free
      /\ Second \in LinuxFds /\ kernel[Second] = Free
  <2>1. Cardinality(FreeFds) >= 2
    BY DEF prepareFilesystem
  <2> QED
    BY <2>1, TwoFree, LowestIsFree
<1>2. Object(<<>>, FALSE) \in Objects /\ Object(<<>>, FALSE) # Free
      /\ Object(<<>>, FALSE).path = <<>> /\ Object(<<>>, FALSE).w = FALSE
  BY Typed
<1>3. /\ Grows
      /\ \A l \in {Lowest, Second} : kernel'[l] = Object(<<>>, FALSE)
  BY <1>1, <1>2 DEF prepareFilesystem, Grows, Inv, Types
<1>4. Base \in Modules /\ phase' = [phase EXCEPT ![Base] = "running"]
  BY DEF prepareFilesystem, Modules
<1>5. \A l \in {Lowest, Second} :
        Preopened(l) \in Entries /\ EntryOK(Preopened(l), kernel')
  <2> SUFFICES ASSUME NEW l \in {Lowest, Second}
               PROVE  Preopened(l) \in Entries /\ EntryOK(Preopened(l), kernel')
    OBVIOUS
  <2>1. Preopened(l) \in Entries
    BY <1>1, Typed DEF Preopened
  <2>2. /\ Preopened(l).lfd = l /\ Preopened(l).path = <<>>
        /\ Preopened(l).inh = Rights /\ Preopened(l).limit = Rights
        /\ ~Preopened(l).loaded /\ Preopened(l).len = 0 /\ Preopened(l).idx = 0
    BY DEF Preopened, Desc
  <2> QED
    BY <1>2, <1>3, <2>1, <2>2 DEF EntryOK
<1>6. \A l \in 0..2 : stdFdFactory(l) \in Entries /\ EntryOK(stdFdFactory(l), kernel')
  <2> SUFFICES ASSUME NEW l \in 0..2
               PROVE  stdFdFactory(l) \in Entries /\ EntryOK(stdFdFactory(l), kernel')
    OBVIOUS
  <2>1. l \in LinuxFds
    BY FileSystemAssumption DEF LinuxFds
  <2>2. stdFdFactory(l) \in Entries
    BY <2>1, Typed DEF stdFdFactory
  <2>3. /\ stdFdFactory(l).lfd = l /\ stdFdFactory(l).path = <<"dev">>
        /\ stdFdFactory(l).inh = Rights /\ stdFdFactory(l).limit = Rights
        /\ ~stdFdFactory(l).loaded /\ stdFdFactory(l).len = 0 /\ stdFdFactory(l).idx = 0
    BY DEF stdFdFactory, Desc
  <2>4. kernel'[l] # Free /\ kernel'[l].path = <<"dev">>
    BY <1>3, <2>1 DEF Grows, Inv, StdInv
  <2>5. "write" \in Rights
    BY DEF Rights
  <2> QED
    BY <2>2, <2>3, <2>4, <2>5 DEF EntryOK
<1> DEFINE New == [fd \in Fds |-> CASE fd <= 2 -> stdFdFactory(fd)
                                   [] fd = 3  -> Preopened(Lowest)
                                   [] fd = 4  -> Preopened(Second)
                                   [] OTHER   -> NoDesc]
<1>7. table' = [table EXCEPT ![Base] = New] /\ nextFd' = [nextFd EXCEPT ![Base] = 5]
      /\ UNCHANGED <<reader, snapshot, stdoutFd>>
  BY DEF prepareFilesystem
<1>8. \A fd \in Fds : /\ New[fd] \in Entries \cup {NoDesc}
                      /\ New[fd] # NoDesc => EntryOK(New[fd], kernel')
                      /\ fd >= 5 => New[fd] = NoDesc
  <2> SUFFICES ASSUME NEW fd \in Fds
               PROVE  /\ New[fd] \in Entries \cup {NoDesc}
                      /\ New[fd] # NoDesc => EntryOK(New[fd], kernel')
                      /\ fd >= 5 => New[fd] = NoDesc
    OBVIOUS
  <2>1. fd \in Nat
    BY DEF Fds
  <2>2. CASE fd <= 2
    BY <2>1, <2>2, <1>6
  <2>3. CASE fd = 3
    BY <2>3, <1>5
  <2>4. CASE fd = 4
    BY <2>4, <1>5
  <2>5. CASE fd >= 5
    BY <2>1, <2>5
  <2> QED
    BY <2>1, <2>2, <2>3, <2>4, <2>5
<1> HIDE DEF New
<1>9. \A i \in Modules, fd \in Fds : table'[i][fd] = IF i = Base THEN New[fd] ELSE table[i][fd]
  BY <1>7 DEF Inv, Types
<1>10. Types'
  <2>1. New \in [Fds -> Entries \cup {NoDesc}]
    BY <1>8 DEF New
  <2>2. nextFd' \in [Modules -> 0..(MaxFd + 1)]
    <3>1. 5 \in 0..(MaxFd + 1)
      BY FileSystemAssumption
    <3> QED
      BY <1>7, <3>1 DEF Inv, Types
  <2> QED
    BY <1>3, <1>4, <1>7, <2>1, <2>2 DEF Inv, Types, Grows
<1>11. StdInv'
  BY <1>3, Std DEF Inv, StdInv, Grows
<1>12. EntryInv'
  <2> SUFFICES ASSUME NEW i \in Modules, NEW fd \in Fds, table'[i][fd] # NoDesc
               PROVE  EntryOK(table'[i][fd], kernel')
    BY DEF EntryInv, EntryOK, Known
  <2>1. CASE i = Base
    BY <2>1, <1>8, <1>9
  <2>2. CASE i # Base
    <3>1. table'[i][fd] = table[i][fd] /\ table[i][fd] \in Entries
          /\ EntryOK(table[i][fd], kernel)
      BY <2>2, <1>9, EntryOf DEF Known
    <3> QED
      BY <3>1, <1>3 DEF EntryOK, Grows, Entries
  <2> QED
    BY <2>1, <2>2
<1>13. FreshInv'
  BY <1>4, <1>7, <1>8, <1>9 DEF Inv, FreshInv, Known, Types
<1> QED
  BY <1>10, <1>11, <1>12, <1>13 DEF Inv

\* So does a preparation that fails.
LEMMA PrepareThrowsInv ==
  ASSUME Inv, prepareFilesystemThrows
  PROVE  Inv'
<1>1. Base \in Modules /\ Throw(Base)
  BY DEF prepareFilesystemThrows, Modules
<1>2. Grows
  <2>1. CASE UNCHANGED kernel
    BY <2>1, Same
  <2>2. CASE FreeFds # {} /\ Opened(Lowest, <<>>, FALSE)
    BY <2>2, Typed, Opening
  <2> QED
    BY <2>1, <2>2 DEF prepareFilesystemThrows
<1> QED
  BY <1>1, <1>2, Throws, Same, KeepsTables DEF prepareFilesystemThrows

\* So does copying a module.
LEMMA CloneInv ==
  ASSUME Inv, NEW i \in Clones, Clone(i)
  PROVE  Inv'
<1>1. i \in Modules /\ Base \in Modules /\ phase[Base] = "ready"
  BY DEF Modules, Clone
<1>2. Types'
  BY <1>1 DEF Clone, Inv, Types
<1>3. StdInv'
  BY DEF Clone, Inv, StdInv
<1>4. \A j \in Modules : /\ table'[j] = IF j = i THEN table[Base] ELSE table[j]
                         /\ nextFd'[j] = IF j = i THEN nextFd[Base] ELSE nextFd[j]
  BY DEF Clone, Inv, Types
<1>5. EntryInv'
  BY <1>1, <1>4 DEF Clone, Inv, EntryInv, EntryOK, Known
<1>6. FreshInv'
  BY <1>1, <1>4 DEF Clone, Inv, FreshInv, Known, Types
<1> QED
  BY <1>2, <1>3, <1>5, <1>6 DEF Inv

\* So does destroying one.
LEMMA DestroyInv ==
  ASSUME Inv, NEW i \in Modules, Destroy(i)
  PROVE  Inv'
<1>1. NothingRead \in [Fds -> Readers]
  BY DEF NothingRead, NoReader, Readers
<1>2. Types'
  <2>1. snapshot' \in [Fds -> Readers]
    BY <1>1 DEF Destroy, Inv, Types
  <2>2. Empty \in [Fds -> Entries \cup {NoDesc}]
    BY DEF Empty
  <2>3. nextFd' \in [Modules -> 0..(MaxFd + 1)]
    BY FileSystemAssumption DEF Destroy, Inv, Types
  <2> QED
    BY <1>1, <2>1, <2>2, <2>3 DEF Destroy, Inv, Types
<1>3. StdInv'
  BY DEF Destroy, Inv, StdInv
<1>4. \A j \in Modules : /\ table'[j] = IF j = i THEN Empty ELSE table[j]
                         /\ nextFd'[j] = IF j = i THEN 0 ELSE nextFd[j]
                         /\ phase'[j] = IF j = i THEN "none" ELSE phase[j]
  BY DEF Destroy, Inv, Types
<1>5. \A fd \in Fds : Empty[fd] = NoDesc
  BY DEF Empty
<1>6. EntryInv'
  BY <1>4, <1>5 DEF Destroy, Inv, EntryInv, EntryOK, Known
<1>7. FreshInv'
  BY <1>4, <1>5 DEF Inv, FreshInv, Known
<1> QED
  BY <1>2, <1>3, <1>6, <1>7 DEF Inv

\* So does the capture of standard output.
LEMMA CaptureInv ==
  ASSUME Inv, NEW i \in Modules, NEW answers, captureStdout(i, answers)
  PROVE  Inv'
<1> DEFINE Values == IF stdoutFd[i] = Unset THEN Garbage ELSE {stdoutFd[i]}
           creates(m) == m = 0 /\ FreeFds # {}
           L(m) == IF creates(m) THEN Lowest ELSE IF m = 0 THEN NoFile ELSE m
<1>1. PICK m \in Values :
        /\ stdoutFd' = [stdoutFd EXCEPT ![i] = L(m)]
        /\ kernel' = IF creates(m) THEN [kernel EXCEPT ![L(m)] = Object(<<"memfd">>, TRUE)]
                     ELSE kernel
        /\ Throw(i) \/ AnswerIn(i, answers)
        /\ UNCHANGED <<table, nextFd, reader, snapshot>>
  BY DEF captureStdout
<1>2. Goes
  BY <1>1, Throws, AnswerGoes
<1>3. Grows
  <2>1. CASE creates(m)
    BY <1>1, <2>1, Typed, Opening DEF Opened
  <2>2. CASE ~creates(m)
    BY <1>1, <2>2, Same
  <2> QED
    BY <2>1, <2>2
<1>4. stdoutFd' \in [Modules -> Int \cup {Unset}]
  <2>1. stdoutFd[i] \in Int \cup {Unset}
    BY DEF Inv, Types
  <2>2. m \in Int
    BY <2>1, FileSystemAssumption
  <2>3. L(m) \in Int
    <3>1. FreeFds # {} => Lowest \in Nat
      BY LowestIsFree, Std
    <3>2. NoFile \in Int
      BY DEF NoFile
    <3> QED
      BY <2>2, <3>1, <3>2
  <2> HIDE DEF L
  <2> QED
    BY <1>1, <2>3 DEF Inv, Types
<1> QED
  BY <1>1, <1>2, <1>3, <1>4, Same, KeepsTables

\* So does the end of the process.
LEMMA UncaughtInv ==
  ASSUME Inv, Uncaught
  PROVE  Inv'
<1>1. /\ phase' = [i \in Modules |-> "none"] /\ table' = [i \in Modules |-> Empty]
      /\ nextFd' = [i \in Modules |-> 0] /\ kernel' = KernelAtStart
      /\ reader' = [i \in Modules |-> NothingRead] /\ snapshot' = NothingRead
      /\ stdoutFd' = [i \in Modules |-> Unset]
  BY DEF Uncaught
<1>2. KernelAtStart \in [LinuxFds -> Objects \cup {Free}]
  BY Typed DEF KernelAtStart
<1>3. NothingRead \in [Fds -> Readers]
  BY DEF NothingRead, NoReader, Readers
<1>4. Types'
  BY <1>1, <1>2, <1>3, FileSystemAssumption DEF Types, Empty
<1>5. StdInv'
  <2>1. \A l \in 0..2 : l \in LinuxFds /\ l <= 2
    BY FileSystemAssumption DEF LinuxFds
  <2>2. \A l \in 0..2 : KernelAtStart[l] = Object(<<"dev">>, TRUE)
    BY <2>1 DEF KernelAtStart
  <2> QED
    BY <1>1, <2>2, Typed DEF StdInv
<1>6. EntryInv' /\ FreshInv'
  BY <1>1 DEF EntryInv, FreshInv, Known, Empty
<1> QED
  BY <1>4, <1>5, <1>6 DEF Inv

\* Every step keeps the invariant.
LEMMA NextInv == Inv /\ [Next]_vars => Inv'
<1> SUFFICES ASSUME Inv, [Next]_vars PROVE Inv'
  OBVIOUS
<1> DEFINE Others == UNCHANGED <<table, nextFd, reader, snapshot, stdoutFd, kernel>>
<1>1. ASSUME Goes, Others PROVE Inv'
  BY <1>1, Same, KeepsTables
<1>2. Base \in Modules /\ Clones \subseteq Modules
  BY DEF Modules
<1>3. CASE prepareFilesystem
  BY <1>3, PrepareInv
<1>4. CASE prepareFilesystemThrows
  BY <1>4, PrepareThrowsInv
<1>5. CASE Bound
  <2>1. Goes
    BY <1>5 DEF Bound, Goes, Inv, Types
  <2>2. snapshot' \in [Fds -> Readers]
    BY <1>2, <1>5 DEF Bound, Inv, Types
  <2>3. stdoutFd' \in [Modules -> Int \cup {Unset}]
    <3>1. stdoutFd \in [Modules -> Int \cup {Unset}]
      BY DEF Inv, Types
    <3>2. stdoutFd' = [stdoutFd EXCEPT ![Base] = 0] /\ 0 \in Int
      BY <1>5 DEF Bound
    <3> QED
      BY <3>1, <3>2
  <2> QED
    BY <1>5, <2>1, <2>2, <2>3, Same, KeepsTables DEF Bound
<1>6. CASE Pinged
  <2>1. Goes
    BY <1>6 DEF Pinged, Goes, Inv, Types
  <2> QED
    BY <1>1, <1>6, <2>1 DEF Pinged
<1>7. CASE Uncaught
  BY <1>7, UncaughtInv
<1>8. ASSUME NEW i \in Clones, Clone(i) PROVE Inv'
  BY <1>8, CloneInv
<1>9. ASSUME NEW i \in Modules, Destroy(i) PROVE Inv'
  BY <1>9, DestroyInv
<1>10. ASSUME NEW i \in Modules, NEW fd \in UsedFds, OnDescriptor(i, fd) PROVE Inv'
  <2>1. fd \in Fds
    BY FileSystemAssumption
  <2>2. CASE getFileDescriptorThrows(i, fd)
    BY <1>1, <2>2, Throws DEF getFileDescriptorThrows
  <2>3. ASSUME NEW name \in DirNames \cup FileNames, NEW a \in Asked, NEW o \in OFlags,
               NEW f \in FdFlags, path_open(i, fd, name, a[1], a[2], o, f)
        PROVE  Inv'
    <3>1. a[1] \in SUBSET Rights /\ a[2] \in SUBSET Rights
      BY FileSystemAssumption
    <3> QED
      BY <2>1, <2>3, <3>1, PathOpenInv
  <2>4. CASE dup(i, fd)
    BY <2>1, <2>4, DupInv
  <2>5. CASE fd_close(i, fd)
    BY <1>1, <2>5, Same DEF fd_close, vars
  <2>6. ASSUME NEW answers, CallOn(i, fd, answers) PROVE Inv'
    BY <1>1, <2>6, AnswerGoes DEF CallOn
  <2>7. CASE fd_readdirRefused(i, fd)
    BY <2>6, <2>7 DEF fd_readdirRefused
  <2>8. ASSUME NEW b \in BufLens, fd_readdir(i, fd, b) PROVE Inv'
    <3>1. b \in Nat
      BY FileSystemAssumption
    <3> QED
      BY <2>1, <2>8, <3>1, ReaddirInv
  <2> QED
    BY <1>10, <2>2, <2>3, <2>4, <2>5, <2>6, <2>7, <2>8 DEF OnDescriptor
<1>11. ASSUME NEW i \in Modules, fd_writeStd(i) \/ puts(i) PROVE Inv'
  BY <1>11, CaptureInv DEF fd_writeStd, puts
<1>12. ASSUME NEW i \in Modules, sc_socket(i) PROVE Inv'
  <2>1. Grows
    BY <1>12, Typed, Opening DEF sc_socket
  <2> QED
    BY <1>12, <2>1, Same, KeepsTables DEF sc_socket
<1>13. ASSUME NEW i \in Modules, NEW answers, Call(i, answers) PROVE Inv'
  BY <1>1, <1>13, AnswerGoes DEF Call
<1>14. CASE UNCHANGED vars
  BY <1>1, <1>14, Same DEF vars
<1> QED
  BY <1>3, <1>4, <1>5, <1>6, <1>7, <1>8, <1>9, <1>10, <1>11, <1>12, <1>13, <1>14 DEF Next

-----------------------------------------------------------------------------
(* What it implies.                                                        *)
\* The invariant holds of every reachable state.
THEOREM TablesInvariant == Spec => []Inv
<1>1. Init => Inv
  BY InitInv
<1>2. Inv /\ [Next]_vars => Inv'
  BY NextInv
<1> QED
  BY <1>1, <1>2, PTL DEF Spec

\* Type correctness: the numbers, rights and iterators of every table.
THEOREM TypeCorrect == Spec => []TypeOK
<1>1. Inv => TypeOK
  <2> SUFFICES ASSUME Inv PROVE TypeOK
    OBVIOUS
  <2>1. \A l \in LinuxFds : kernel[l] = Free \/ kernel[l].w \in BOOLEAN
    BY DEF Inv, Types, Objects
  <2>2. ASSUME NEW i \in Modules, NEW fd \in Descriptors(i)
        PROVE  LET d == table[i][fd] IN
               /\ d.base \subseteq Rights /\ d.inh \subseteq Rights
               /\ d.lfd \in LinuxFds \cup {NoFile}
               /\ d.idx \in 0..d.len
    <3>1. fd \in Fds /\ Known(i, fd)
      BY DEF Descriptors
    <3>2. table[i][fd] \in Entries /\ EntryOK(table[i][fd], kernel)
      BY <3>1, EntryOf
    <3>3. N \in Nat
      BY NPositive
    <3>4. table[i][fd].idx \in 0..table[i][fd].len
      <4> DEFINE d == table[i][fd]
      <4> HIDE DEF N, d
      <4>1. d.idx \in 0..d.len
        BY <3>2, <3>3 DEF EntryOK, Entries, d
      <4> QED
        BY <4>1 DEF d
    <3> QED
      BY <3>2, <3>4 DEF Entries
  <2> QED
    BY <2>1, <2>2 DEF TypeOK, Inv, Types
<1> QED
  BY <1>1, TablesInvariant, PTL

\* Every descriptor of every module, copied or not, refers to the file it was
\* opened on, for any number of invocations that share Linux descriptors.
THEOREM FilesStay == Spec => []FileIsItsOwn
<1>1. Inv => FileIsItsOwn
  BY EntryOf DEF FileIsItsOwn, EntryOK, Descriptors
<1> QED
  BY <1>1, TablesInvariant, PTL

\* A file is open for writing only through descriptors that may hand the right
\* to write on, along any chain of path_open and dup.
THEOREM RightsInherited == Spec => []WriteIsInherited
<1>1. Inv => WriteIsInherited
  BY EntryOf DEF WriteIsInherited, EntryOK, Descriptors
<1> QED
  BY <1>1, TablesInvariant, PTL

-----------------------------------------------------------------------------
(* Reading directories, when the ping reads none.                          *)
\* A step that neither reads nor makes an entry.
LEMMA KeepsReaders ==
  ASSUME ReaderInv, UNCHANGED <<table, reader, snapshot>>,
         phase'[Base] \in {"pinging", "ready"} => phase[Base] \in {"pinging", "ready"}
  PROVE  ReaderInv'
BY DEF ReaderInv, Consistent

\* Nothing has been read through a number that is not given out.
LEMMA NotRead ==
  ASSUME Inv, ReaderInv, NEW i \in Modules, NEW fd \in Fds, fd >= nextFd[i]
  PROVE  /\ table[i][fd] = NoDesc /\ reader[i][fd] = NoReader
         /\ i = Base /\ phase[Base] \in {"pinging", "ready"} => snapshot[fd] = NoReader
<1>1. table[i][fd] = NoDesc
  BY DEF Inv, FreshInv, Known
<1>2. Consistent(reader[i][fd], table[i][fd])
  BY DEF ReaderInv
<1>3. i = Base /\ phase[Base] \in {"pinging", "ready"} => Consistent(snapshot[fd], table[i][fd])
  BY DEF ReaderInv
<1> QED
  BY <1>1, <1>2, <1>3 DEF Consistent

\* A reader that has read nothing is consistent with every descriptor.
LEMMA NothingIsConsistent == \A d : Consistent(NoReader, d)
<1>1. NoReader.seen = <<>> /\ NoReader.eof = FALSE
  BY DEF NoReader
<1>2. <<>> = [k \in 1..Len(<<>>) |-> k]
  OBVIOUS
<1> QED
  BY <1>1, <1>2 DEF Consistent

\* A new entry with a reader that is consistent with it, and all else kept.
LEMMA EntersRead ==
  ASSUME Inv, ReaderInv, NEW i \in Modules, nextFd[i] <= MaxFd, NEW d, NEW r,
         table' = [table EXCEPT ![i][nextFd[i]] = d],
         reader' = [reader EXCEPT ![i][nextFd[i]] = r],
         Consistent(r, d), UNCHANGED snapshot,
         phase'[Base] \in {"pinging", "ready"} => phase[Base] \in {"pinging", "ready"}
  PROVE  ReaderInv'
<1> DEFINE new == nextFd[i]
<1>1. new \in Fds /\ new >= new
  BY DEF Inv, Types, Fds
<1>2. \A j \in Modules, fd \in Fds :
        /\ table'[j][fd] = IF j = i /\ fd = new THEN d ELSE table[j][fd]
        /\ reader'[j][fd] = IF j = i /\ fd = new THEN r ELSE reader[j][fd]
  BY <1>1 DEF Inv, Types
<1>3. \A j \in Modules, fd \in Fds : Consistent(reader'[j][fd], table'[j][fd])
  BY <1>2 DEF ReaderInv
<1>4. ASSUME phase'[Base] \in {"pinging", "ready"}, NEW fd \in Fds
      PROVE  Consistent(snapshot[fd], table'[Base][fd])
  <2>1. Base \in Modules
    BY DEF Modules
  <2>2. Consistent(snapshot[fd], table[Base][fd])
    BY <1>4 DEF ReaderInv
  <2>3. CASE i = Base /\ fd = new
    <3>1. snapshot[fd] = NoReader
      BY <1>1, <1>4, <2>3, NotRead
    <3> QED
      BY <3>1, NothingIsConsistent
  <2>4. CASE ~(i = Base /\ fd = new)
    BY <1>2, <2>1, <2>2, <2>4
  <2> QED
    BY <2>3, <2>4
<1> QED
  BY <1>3, <1>4 DEF ReaderInv, Consistent

\* A read appends what it copied to what was seen.
LEMMA ReadsOn ==
  ASSUME NEW seen \in Seq(Nat), NEW c \in Nat, seen = [k \in 1..Len(seen) |-> k]
  PROVE  LET s == seen \o [k \in 1..c |-> Len(seen) + k] IN
         /\ s = [k \in 1..Len(s) |-> k] /\ Len(s) = Len(seen) + c
<1> DEFINE t == [k \in 1..c |-> Len(seen) + k]
           s == seen \o t
<1>1. Len(seen) \in Nat /\ t \in Seq(Nat) /\ Len(t) = c /\ \A k \in 1..c : t[k] = Len(seen) + k
  OBVIOUS
<1> HIDE DEF t
<1>2. /\ s \in Seq(Nat) /\ Len(s) = Len(seen) + c
      /\ \A k \in 1..(Len(seen) + c) :
           s[k] = IF k <= Len(seen) THEN seen[k] ELSE t[k - Len(seen)]
  <2>1. s \in Seq(Nat) /\ Len(s) = Len(seen) + Len(t)
    BY <1>1, ConcatProperties
  <2>2. \A k \in 1..(Len(seen) + Len(t)) :
          s[k] = IF k <= Len(seen) THEN seen[k] ELSE t[k - Len(seen)]
    BY <1>1, ConcatProperties
  <2> QED
    BY <1>1, <2>1, <2>2
<1>3. \A k \in 1..Len(seen) : seen[k] = k
  OBVIOUS
<1>4. ASSUME NEW k \in 1..Len(s) PROVE s[k] = k
  <2>1. CASE k <= Len(seen)
    <3>1. k \in 1..Len(seen)
      BY <1>1, <1>2, <2>1
    <3> QED
      BY <1>2, <1>3, <2>1, <3>1
  <2>2. CASE ~(k <= Len(seen))
    <3>1. k - Len(seen) \in 1..c /\ Len(seen) + (k - Len(seen)) = k
      BY <1>1, <1>2, <2>2
    <3> QED
      BY <1>1, <1>2, <2>2, <3>1
  <2> QED
    BY <2>1, <2>2
<1>5. s = [k \in 1..Len(s) |-> k]
  <2> HIDE DEF s
  <2>1. s = [k \in 1..Len(s) |-> s[k]]
    BY <1>2
  <2> QED
    BY <1>4, <2>1
<1> QED
  BY <1>2, <1>5 DEF t

\* fd_readdir gives a reader the entries that come next, and only the end after
\* the last.
LEMMA ReaddirReads ==
  ASSUME Inv, ReaderInv, ~PingReads, NEW i \in Modules, NEW fd \in Fds, NEW bufLen \in Nat,
         fd_readdir(i, fd, bufLen)
  PROVE  ReaderInv'
<1> DEFINE d == table[i][fd]
           r == reader[i][fd]
           now == IF d.loaded THEN d ELSE loadDirContents(d)
           read == copyDirents(now, bufLen)
           then == [now EXCEPT !.idx = read.idx]
           said == [seen |-> r.seen \o [k \in 1..read.copied |-> d.idx + k],
                    eof |-> read.size < bufLen]
<1>1. /\ Runs(i) /\ Known(i, fd) /\ ~r.eof
      /\ d.loaded <=> r.seen # <<>>
      /\ phase[i] = "pinging" => PingReads
      /\ table' = [table EXCEPT ![i][fd] = then]
      /\ reader' = [reader EXCEPT ![i][fd] = said]
      /\ UNCHANGED <<phase, snapshot>>
  BY DEF fd_readdir, Seen
<1>2. d \in Entries /\ EntryOK(d, kernel)
  BY <1>1, EntryOf
<1>3. /\ now \in Entries /\ now.loaded /\ now.len = N /\ now.idx = d.idx
      /\ now.idx \in 0..N
  <2> HIDE DEF d
  <2> QED
    BY <1>2, Iterator
<1>4. /\ read.copied \in 0..(N - d.idx) /\ read.idx = d.idx + read.copied
      /\ read.size < bufLen => read.idx = N
  <2> HIDE DEF now, d
  <2> QED
    BY <1>3, Advances
<1>5. N \in Nat /\ N >= 2 /\ d.idx \in Nat
  BY <1>2, NPositive DEF Entries
<1>6. r.seen \in Seq(Nat) /\ Consistent(r, d) /\ d # NoDesc
  BY <1>1 DEF Inv, Types, Readers, ReaderInv, Known
<1>7. Len(r.seen) = d.idx
  <2>1. CASE r.seen = <<>>
    BY <1>1, <1>2, <2>1 DEF EntryOK
  <2>2. CASE r.seen # <<>>
    BY <1>6, <2>2 DEF Consistent
  <2> QED
    BY <2>1, <2>2
<1>8. read.copied \in Nat
  <2> HIDE DEF read, d, N
  <2> QED
    BY <1>4, <1>5
<1>9. said.seen = [k \in 1..Len(said.seen) |-> k] /\ Len(said.seen) = read.idx
  <2>1. r.seen = [k \in 1..Len(r.seen) |-> k]
    BY <1>6 DEF Consistent
  <2> DEFINE c == read.copied
             q == r.seen
  <2>2. c \in Nat /\ q \in Seq(Nat) /\ q = [k \in 1..Len(q) |-> k]
    BY <1>6, <1>8, <2>1
  <2>3. said.seen = q \o [k \in 1..c |-> Len(q) + k]
    BY <1>7
  <2>4. read.idx = Len(q) + c
    BY <1>4, <1>7
  <2> HIDE DEF c, q, said, read
  <2> QED
    BY <2>2, <2>3, <2>4, ReadsOn
<1>10. then # NoDesc /\ then.loaded /\ then.len = N /\ then.idx = read.idx
  <2>1. then \in Entries
    <3> HIDE DEF now, read, d
    <3> QED
      BY <1>3, <1>4, <1>5 DEF Entries
  <2>2. then.loaded /\ then.len = N /\ then.idx = read.idx
    <3> HIDE DEF now, read, d, N
    <3> QED
      BY <1>3 DEF Entries
  <2> QED
    BY <2>1, <2>2, FileSystemAssumption
<1>11. said.eof => read.idx = N
  BY <1>4
<1>12. Consistent(said, then)
  <2>1. said.eof => said.seen # <<>>
    <3> HIDE DEF said, read, N
    <3> QED
      BY <1>5, <1>9, <1>11
  <2> HIDE DEF said, then, read, N
  <2> QED
    BY <1>9, <1>10, <1>11, <2>1 DEF Consistent
<1>13. \A j \in Modules, f \in Fds :
         /\ table'[j][f] = IF j = i /\ f = fd THEN then ELSE table[j][f]
         /\ reader'[j][f] = IF j = i /\ f = fd THEN said ELSE reader[j][f]
  <2> HIDE DEF then, said
  <2> QED
    BY <1>1 DEF Inv, Types
<1>14. \A j \in Modules, f \in Fds : Consistent(reader'[j][f], table'[j][f])
  <2> HIDE DEF then, said
  <2> QED
    BY <1>12, <1>13 DEF ReaderInv
<1>15. ASSUME phase'[Base] \in {"pinging", "ready"}, NEW f \in Fds
       PROVE  Consistent(snapshot[f], table'[Base][f])
  <2>1. i # Base /\ Base \in Modules
    BY <1>1, <1>15 DEF Runs, Modules
  <2> HIDE DEF then, said
  <2> QED
    BY <1>1, <1>13, <1>15, <2>1 DEF ReaderInv
<1> QED
  BY <1>1, <1>14, <1>15 DEF ReaderInv, Consistent

\* Every step keeps the readers consistent with their descriptors, unless pings
\* read.
LEMMA ReaderNext == Inv /\ ReaderInv /\ ~PingReads /\ [Next]_vars => ReaderInv'
<1> SUFFICES ASSUME Inv, ReaderInv, ~PingReads, [Next]_vars PROVE ReaderInv'
  OBVIOUS
<1> DEFINE Others == /\ UNCHANGED <<table, reader, snapshot>>
                     /\ phase'[Base] \in {"pinging", "ready"} =>
                          phase[Base] \in {"pinging", "ready"}
<1>1. ASSUME Others PROVE ReaderInv'
  BY <1>1, KeepsReaders
<1>2. Base \in Modules /\ Clones \subseteq Modules
  BY DEF Modules
<1>3. ASSUME NEW i \in Modules, Throw(i)
      PROVE  phase'[Base] \in {"pinging", "ready"} => phase[Base] \in {"pinging", "ready"}
  BY <1>2, <1>3 DEF Throw, Inv, Types
<1>4. ASSUME NEW i \in Modules, NEW answers, AnswerIn(i, answers)
      PROVE  phase'[Base] \in {"pinging", "ready"} => phase[Base] \in {"pinging", "ready"}
  BY <1>3, <1>4 DEF AnswerIn
<1>5. NothingRead \in [Fds -> Readers] /\ \A fd \in Fds : NothingRead[fd] = NoReader
  BY DEF NothingRead, NoReader, Readers
<1>6. CASE prepareFilesystem
  <2>1. phase[Base] = "none" /\ phase'[Base] = "running"
        /\ UNCHANGED <<reader, snapshot>>
    BY <1>2, <1>6 DEF prepareFilesystem, Inv, Types
  <2>2. \A fd \in Fds : reader[Base][fd] = NoReader
    <3>1. nextFd[Base] = 0
      BY <1>2, <2>1 DEF Inv, FreshInv
    <3>2. \A fd \in Fds : fd >= nextFd[Base]
      BY <3>1 DEF Fds
    <3> QED
      BY <1>2, <3>2, NotRead
  <2>3. \A i \in Modules : i # Base => table'[i] = table[i]
    BY <1>6 DEF prepareFilesystem, Inv, Types
  <2>4. \A i \in Modules, fd \in Fds : Consistent(reader'[i][fd], table'[i][fd])
    BY <2>1, <2>2, <2>3, NothingIsConsistent DEF ReaderInv
  <2> QED
    BY <2>1, <2>4 DEF ReaderInv, Consistent
<1>7. CASE prepareFilesystemThrows
  BY <1>1, <1>2, <1>3, <1>7 DEF prepareFilesystemThrows
<1>8. CASE Bound
  BY <1>2, <1>8 DEF Bound, ReaderInv, Consistent
<1>9. CASE Pinged
  BY <1>1, <1>9 DEF Pinged
<1>10. CASE Uncaught
  <2>1. /\ phase'[Base] = "none"
        /\ \A i \in Modules, fd \in Fds : reader'[i][fd] = NoReader
    BY <1>2, <1>5, <1>10 DEF Uncaught
  <2> QED
    BY <2>1, NothingIsConsistent DEF ReaderInv, Consistent
<1>11. ASSUME NEW i \in Clones, Clone(i) PROVE ReaderInv'
  <2>1. i # Base /\ i \in Modules
    BY <1>2, FileSystemAssumption
  <2>2. /\ phase[Base] = "ready" /\ UNCHANGED snapshot
        /\ \A j \in Modules : /\ table'[j] = IF j = i THEN table[Base] ELSE table[j]
                              /\ reader'[j] = IF j = i THEN snapshot ELSE reader[j]
    BY <1>2, <1>11 DEF Clone, Inv, Types
  <2> QED
    BY <1>2, <2>1, <2>2 DEF ReaderInv, Consistent
<1>12. ASSUME NEW i \in Modules, Destroy(i) PROVE ReaderInv'
  <2>1. /\ \A j \in Modules : /\ table'[j] = IF j = i THEN Empty ELSE table[j]
                              /\ reader'[j] = IF j = i THEN NothingRead ELSE reader[j]
                              /\ phase'[j] = IF j = i THEN "none" ELSE phase[j]
        /\ i # Base => UNCHANGED snapshot
    BY <1>12 DEF Destroy, Inv, Types
  <2>2. \A j \in Modules, fd \in Fds : Consistent(reader'[j][fd], table'[j][fd])
    BY <1>5, <2>1, NothingIsConsistent DEF ReaderInv
  <2>3. phase'[Base] \in {"pinging", "ready"} =>
          \A fd \in Fds : Consistent(snapshot'[fd], table'[Base][fd])
    BY <1>2, <2>1 DEF ReaderInv
  <2> QED
    BY <2>2, <2>3 DEF ReaderInv, Consistent
<1>13. ASSUME NEW i \in Modules, NEW fd \in UsedFds, OnDescriptor(i, fd) PROVE ReaderInv'
  <2>1. fd \in Fds
    BY FileSystemAssumption
  <2>2. CASE getFileDescriptorThrows(i, fd)
    BY <1>1, <1>3, <2>2 DEF getFileDescriptorThrows
  <2>3. ASSUME NEW name \in DirNames \cup FileNames, NEW a \in Asked, NEW o \in OFlags,
               NEW f \in FdFlags, path_open(i, fd, name, a[1], a[2], o, f)
        PROVE  ReaderInv'
    <3>1. /\ nextFd[i] <= MaxFd /\ UNCHANGED <<reader, snapshot>>
          /\ \E d : table' = [table EXCEPT ![i][nextFd[i]] = d]
      BY <2>3 DEF path_open
    <3>2. phase'[Base] \in {"pinging", "ready"} => phase[Base] \in {"pinging", "ready"}
      BY <1>3, <1>4, <2>3 DEF path_open
    <3>3. nextFd[i] \in Fds /\ nextFd[i] >= nextFd[i]
      BY <3>1 DEF Inv, Types, Fds
    <3>4. reader[i][nextFd[i]] = NoReader
      BY <3>3, NotRead
    <3>5. reader' = [reader EXCEPT ![i][nextFd[i]] = NoReader]
      BY <3>1, <3>3, <3>4 DEF Inv, Types
    <3> QED
      BY <3>1, <3>2, <3>5, NothingIsConsistent, EntersRead
  <2>4. CASE dup(i, fd)
    <3>1. CASE ~Known(i, fd)
      BY <1>1, <1>3, <2>4, <3>1 DEF dup
    <3>2. CASE Known(i, fd)
      <4>1. PICK l \in LinuxFds \cup {NoFile} :
              /\ table' = [table EXCEPT ![i][nextFd[i]] = duplicate(table[i][fd], l)]
              /\ reader' = [reader EXCEPT ![i][nextFd[i]] = reader[i][fd]]
              /\ UNCHANGED <<phase, snapshot>> /\ nextFd[i] <= MaxFd
        BY <2>4, <3>2, LowestIsFree DEF dup
      <4> DEFINE d == table[i][fd]
                 e == duplicate(d, l)
      <4>2. d \in Entries /\ Consistent(reader[i][fd], d) /\ d # NoDesc
        BY <2>1, <3>2, EntryOf DEF ReaderInv, Known
      <4>3. e \in Entries /\ e.loaded = d.loaded /\ e.idx = d.idx /\ e.len = d.len
        <5> HIDE DEF d
        <5> QED
          BY <4>2 DEF duplicate, Entries
      <4>4. Consistent(reader[i][fd], e)
        <5> HIDE DEF d, e
        <5> QED
          BY <4>2, <4>3, FileSystemAssumption DEF Consistent
      <4>5. table' = [table EXCEPT ![i][nextFd[i]] = e]
        BY <4>1
      <4> HIDE DEF e
      <4> QED
        BY <4>1, <4>4, <4>5, EntersRead
    <3> QED
      BY <3>1, <3>2
  <2>5. CASE fd_close(i, fd)
    BY <1>1, <2>5 DEF fd_close, vars
  <2>6. ASSUME NEW answers, CallOn(i, fd, answers) PROVE ReaderInv'
    BY <1>1, <1>4, <2>6 DEF CallOn
  <2>7. CASE fd_readdirRefused(i, fd)
    BY <2>6, <2>7 DEF fd_readdirRefused
  <2>8. ASSUME NEW b \in BufLens, fd_readdir(i, fd, b) PROVE ReaderInv'
    <3>1. b \in Nat
      BY FileSystemAssumption
    <3> QED
      BY <2>1, <2>8, <3>1, ReaddirReads
  <2> QED
    BY <1>13, <2>2, <2>3, <2>4, <2>5, <2>6, <2>7, <2>8 DEF OnDescriptor
<1>14. ASSUME NEW i \in Modules, NEW answers, captureStdout(i, answers) PROVE ReaderInv'
  <2>1. UNCHANGED <<table, reader, snapshot>> /\ (Throw(i) \/ AnswerIn(i, answers))
    BY <1>14 DEF captureStdout
  <2> QED
    BY <1>1, <1>3, <1>4, <2>1
<1>15. ASSUME NEW i \in Modules, fd_writeStd(i) \/ puts(i) PROVE ReaderInv'
  BY <1>14, <1>15 DEF fd_writeStd, puts
<1>16. ASSUME NEW i \in Modules, sc_socket(i) PROVE ReaderInv'
  BY <1>1, <1>16 DEF sc_socket
<1>17. ASSUME NEW i \in Modules, NEW answers, Call(i, answers) PROVE ReaderInv'
  BY <1>1, <1>4, <1>17 DEF Call
<1>18. CASE UNCHANGED vars
  BY <1>1, <1>18 DEF vars
<1> QED
  BY <1>6, <1>7, <1>8, <1>9, <1>10, <1>11, <1>12, <1>13, <1>15, <1>16, <1>17, <1>18 DEF Next

\* Any sequence of reads of a directory, by any number of invocations and
\* through duplicates, sees every entry once and in order, if the ping of the
\* function reads no directory.
THEOREM ReadOnce == ~PingReads /\ Spec => []DirectoryReadOnce
<1>1. Init => ReaderInv
  <2> SUFFICES ASSUME Init PROVE ReaderInv
    OBVIOUS
  <2>1. \A i \in Modules, fd \in Fds : reader[i][fd] = NoReader
    BY DEF Init, NothingRead
  <2>2. phase[Base] = "none"
    BY DEF Init, Modules
  <2> QED
    BY <2>1, <2>2, NothingIsConsistent DEF ReaderInv
<1>2. Inv /\ ReaderInv /\ ~PingReads /\ [Next]_vars => ReaderInv'
  BY ReaderNext
<1>3. ReaderInv => DirectoryReadOnce
  BY DEF ReaderInv, Consistent, DirectoryReadOnce, Descriptors, Known, Seen
<1>4. ~PingReads => [](~PingReads)
  <2>1. ~PingReads => (~PingReads)'
    OBVIOUS
  <2> QED
    BY <2>1, PTL
<1> QED
  BY <1>1, <1>2, <1>3, <1>4, TablesInvariant, PTL DEF Spec
=============================================================================
