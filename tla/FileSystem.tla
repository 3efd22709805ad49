----------------------------- MODULE FileSystem -----------------------------
(***************************************************************************)
(* The descriptor tables of the wasm modules (src/storage/FileSystem.cpp), *)
(* the system calls of their guests that touch them (src/wavm/io.cpp,      *)
(* network.cpp), and the one table of Linux descriptors below them all.    *)
(*                                                                         *)
(* Base is the module of a function: when the function is registered it is *)
(* prepared, runs its constructors and zygote, and after the snapshot of   *)
(* its memory the ping. Every invocation is a copy: the memory from the    *)
(* snapshot, the table and the Linux descriptors from after the ping.      *)
(* Each module runs in one thread; modules run concurrently.               *)
(*                                                                         *)
(* The kernel is external: it gives the lowest free number, any call may   *)
(* fail, and a name is that of a directory or of a file for good.          *)
(***************************************************************************)
EXTENDS FileDescriptor

CONSTANTS
  Base,        \* the module of the function
  Clones,      \* modules of invocations
  DirNames,    \* names of directories
  FileNames,   \* names of files
  MaxFd,       \* bound: the last descriptor number of a table
  MaxLinuxFd,  \* the limit of open files of the process
  Asked,       \* bound: pairs of rights a guest asks for
  OFlags,      \* bound: sets of open flags a guest passes
  FdFlags,     \* bound: sets of descriptor flags a guest passes
  BufLens,     \* bound: sizes of the buffers of readers
  UsedFds,     \* bound: the numbers a guest passes to its calls
  ReadFds,     \* bound: the numbers a guest starts to read a directory with
  PingReads,   \* bound: may the ping read directories?
  Garbage,     \* values the uninitialised stdoutMemFd may have
  NoDesc, Free, Unset

Modules == {Base} \cup Clones
Fds == 0..MaxFd
LinuxFds == 0..MaxLinuxFd

\* What a Linux descriptor, and an entry of a table, can be.
Paths == Seq(DirNames \cup FileNames \cup {"dev", "socket", "memfd"})
Objects == [path : Paths, w : BOOLEAN]
Entries == [path : Paths, base : SUBSET Rights, inh : SUBSET Rights,
            lfd : LinuxFds \cup {NoFile}, loaded : BOOLEAN, len : Nat, idx : Nat,
            limit : SUBSET Rights]

ASSUME FileSystemAssumption ==
  /\ MaxFd \in Nat /\ MaxFd >= 4
  /\ MaxLinuxFd \in Nat /\ MaxLinuxFd >= 4
  /\ Base \notin Clones
  /\ ReadFds \subseteq UsedFds /\ UsedFds \subseteq Fds
  /\ Asked \subseteq (SUBSET Rights) \X (SUBSET Rights)
  /\ Garbage \subseteq Int
  /\ PingReads \in BOOLEAN
  /\ BufLens \subseteq Nat
  /\ Free \notin Objects /\ NoDesc \notin Entries

VARIABLES
  phase,     \* of a module: "none", "running", "thrown"; Base's is "pinging"
             \* and "ready" when it is bound
  table,     \* fileDescriptors of a module: number -> descriptor or NoDesc
  nextFd,    \* of a module
  reader,    \* guest memory: what a reader of a directory has seen
  snapshot,  \* reader of Base when the snapshot was taken
  stdoutFd,  \* stdoutMemFd of a module, Unset until it is first read
  kernel     \* Linux descriptor -> what is open there, or Free

vars == <<phase, table, nextFd, reader, snapshot, stdoutFd, kernel>>

NoReader == [seen |-> <<>>, eof |-> FALSE]
Empty == [fd \in Fds |-> NoDesc]
NothingRead == [fd \in Fds |-> NoReader]
Object(path, w) == [path |-> path, w |-> w]
KernelAtStart ==
  [l \in LinuxFds |-> IF l <= 2 THEN Object(<<"dev">>, TRUE) ELSE Free]

IsDir(path) == IF path = <<>> THEN TRUE ELSE path[Len(path)] \in DirNames

\* Can Linux open the path so? A file below a directory, or a directory if
\* neither O_CREAT nor an access for writing says otherwise.
Openable(root, name, oflags, w) ==
  /\ IsDir(root.path)
  /\ IF name \in DirNames THEN getOpenMode(oflags) # "CREATE" /\ ~w
                         ELSE getOpenMode(oflags) # "DIRECTORY"

FreeFds == {l \in LinuxFds : kernel[l] = Free}
Lowest == CHOOSE l \in FreeFds : \A n \in FreeFds : l <= n

Runs(i) == phase[i] \in {"running", "pinging"}
Known(i, fd) == table[i][fd] # NoDesc

Init ==
  /\ phase = [i \in Modules |-> "none"]
  /\ table = [i \in Modules |-> Empty]
  /\ nextFd = [i \in Modules |-> 0]
  /\ reader = [i \in Modules |-> NothingRead]
  /\ snapshot = NothingRead
  /\ stdoutFd = [i \in Modules |-> Unset]
  /\ kernel = KernelAtStart

\* A C++ exception leaves the guest and ends the registration or invocation.
Throw(i) == phase' = [phase EXCEPT ![i] = "thrown"]

\* A trap of the wasm runtime ("traps") does the same where execute catches it:
\* in an invocation and in the ping.
AnswerIn(i, answers) ==
  \E ends \in {a = "throws" \/ (a = "traps" /\ (i # Base \/ phase[i] = "pinging"))
               : a \in answers} :
    IF ends THEN Throw(i) ELSE UNCHANGED phase

\* A call on a descriptor that changes nothing but may throw.
CallOn(i, fd, answers) ==
  /\ Runs(i) /\ Known(i, fd)
  /\ AnswerIn(i, answers)
  /\ UNCHANGED <<table, nextFd, reader, snapshot, stdoutFd, kernel>>

Call(i, answers) ==
  /\ Runs(i)
  /\ AnswerIn(i, answers)
  /\ UNCHANGED <<table, nextFd, reader, snapshot, stdoutFd, kernel>>

Opened(l, path, w) == kernel' = [kernel EXCEPT ![l] = Object(path, w)]

-----------------------------------------------------------------------------
(* The life of a module.                                                   *)
\* The root and the current directory, opened one after the other.
Preopened(l) == Desc(<<>>, Rights, Rights, l, Rights)

Second == CHOOSE l \in FreeFds \ {Lowest} : \A n \in FreeFds \ {Lowest} : l <= n

prepareFilesystem ==
  /\ phase[Base] = "none"
  /\ Cardinality(FreeFds) >= 2
  /\ phase' = [phase EXCEPT ![Base] = "running"]
  /\ table' = [table EXCEPT ![Base] = [fd \in Fds |->
                 CASE fd <= 2 -> stdFdFactory(fd)
                   [] fd = 3  -> Preopened(Lowest)
                   [] fd = 4  -> Preopened(Second)
                   [] OTHER   -> NoDesc]]
  /\ nextFd' = [nextFd EXCEPT ![Base] = 5]
  /\ kernel' = [l \in LinuxFds |->
                  IF l \in {Lowest, Second} THEN Object(<<>>, FALSE) ELSE kernel[l]]
  /\ UNCHANGED <<reader, snapshot, stdoutFd>>

\* One of the two cannot be opened, and the registration fails.
prepareFilesystemThrows ==
  /\ phase[Base] = "none"
  /\ Throw(Base)
  /\ \/ UNCHANGED kernel
     \/ FreeFds # {} /\ Opened(Lowest, <<>>, FALSE)
  /\ UNCHANGED <<table, nextFd, reader, snapshot, stdoutFd>>

\* The end of doBindToFunction, where the snapshot of the memory is taken, and of
\* the constructor of the module, which only now sets stdoutMemFd.
Bound ==
  /\ phase[Base] = "running"
  /\ phase' = [phase EXCEPT ![Base] = "pinging"]
  /\ snapshot' = reader[Base]
  /\ stdoutFd' = [stdoutFd EXCEPT ![Base] = 0]
  /\ UNCHANGED <<table, nextFd, reader, kernel>>

\* The end of the ping: the function is put in the map, or the ping has failed.
Pinged ==
  /\ phase[Base] = "pinging"
  /\ phase' \in {[phase EXCEPT ![Base] = p] : p \in {"ready", "thrown"}}
  /\ UNCHANGED <<table, nextFd, reader, snapshot, stdoutFd, kernel>>

\* I::I: module = f->getModule(). clone sets stdoutMemFd to 0.
Clone(i) ==
  /\ phase[Base] = "ready" /\ phase[i] = "none"
  /\ phase' = [phase EXCEPT ![i] = "running"]
  /\ table' = [table EXCEPT ![i] = table[Base]]
  /\ nextFd' = [nextFd EXCEPT ![i] = nextFd[Base]]
  /\ reader' = [reader EXCEPT ![i] = snapshot]
  /\ stdoutFd' = [stdoutFd EXCEPT ![i] = 0]
  /\ UNCHANGED <<snapshot, kernel>>

\* The invocation is over, or the registration has failed, and the module is
\* destroyed; nothing calls tearDown.
Destroy(i) ==
  /\ phase[i] = "thrown" \/ (i \in Clones /\ Runs(i))
  /\ phase' = [phase EXCEPT ![i] = "none"]
  /\ table' = [table EXCEPT ![i] = Empty]
  /\ nextFd' = [nextFd EXCEPT ![i] = 0]
  /\ reader' = [reader EXCEPT ![i] = NothingRead]
  /\ stdoutFd' = [stdoutFd EXCEPT ![i] = Unset]
  /\ snapshot' = IF i = Base THEN NothingRead ELSE snapshot
  /\ UNCHANGED kernel

-----------------------------------------------------------------------------
(* System calls on descriptors.                                            *)
\* getFileDescriptor, in every call below: an unknown number ends the guest.
getFileDescriptorThrows(i, fd) ==
  /\ Runs(i) /\ ~Known(i, fd)
  /\ Throw(i)
  /\ UNCHANGED <<table, nextFd, reader, snapshot, stdoutFd, kernel>>

\* The number is taken and the entry made before the file is opened, and both
\* stay when it is not: with errno, or an exception of pathOpen or errnoToWasi.
path_open(i, rootFd, name, rightsBase, rightsInh, oflags, fdFlags) ==
  LET fd == nextFd[i]
      root == table[i][rootFd]
      New(l) == OpenedThrough(root, name, rightsBase, rightsInh, l)
      EnterAs(l) == table' = [table EXCEPT ![i][fd] = New(l)]
      w == OpensForWriting(oflags, New(NoFile).base)
      throws == PathOpenThrows(oflags, New(NoFile).base, fdFlags)
  IN /\ Runs(i) /\ Known(i, rootFd) /\ fd <= MaxFd
     /\ nextFd' = [nextFd EXCEPT ![i] = @ + 1]
     /\ \/ /\ throws
           /\ EnterAs(NoFile) /\ Throw(i) /\ UNCHANGED kernel
        \/ /\ ~throws /\ FreeFds # {} /\ Openable(root, name, oflags, w)
           /\ EnterAs(Lowest)
           /\ Opened(Lowest, New(Lowest).path, w)
           /\ UNCHANGED phase
        \/ /\ ~throws
           /\ EnterAs(NoFile) /\ UNCHANGED kernel
           /\ AnswerIn(i, {errnoToWasi(e) : e \in Errnos})
     /\ UNCHANGED <<reader, snapshot, stdoutFd>>

\* The number is taken before the original is looked up. ::dup may fail, and
\* its result is not tested.
dup(i, fd) ==
  LET new == nextFd[i] IN
  /\ Runs(i) /\ new <= MaxFd
  /\ nextFd' = [nextFd EXCEPT ![i] = @ + 1]
  /\ \/ /\ ~Known(i, fd)
        /\ Throw(i) /\ UNCHANGED <<table, reader, kernel>>
     \/ /\ Known(i, fd) /\ table[i][fd].lfd # NoFile /\ FreeFds # {}
        /\ table' = [table EXCEPT ![i][new] = duplicate(table[i][fd], Lowest)]
        /\ kernel' = [kernel EXCEPT ![Lowest] = kernel[table[i][fd].lfd]]
        /\ reader' = [reader EXCEPT ![i][new] = reader[i][fd]]
        /\ UNCHANGED phase
     \/ /\ Known(i, fd) /\ (table[i][fd].lfd = NoFile \/ FreeFds = {})
        /\ table' = [table EXCEPT ![i][new] = duplicate(table[i][fd], NoFile)]
        /\ reader' = [reader EXCEPT ![i][new] = reader[i][fd]]
        /\ UNCHANGED <<phase, kernel>>
  /\ UNCHANGED <<snapshot, stdoutFd>>

\* Mutant: it closes the Linux descriptor.
fd_closeCloses(i, fd) ==
  /\ Runs(i) /\ Known(i, fd) /\ fd > 4 /\ table[i][fd].lfd # NoFile
  /\ kernel' = [kernel EXCEPT ![table[i][fd].lfd] = Free]
  /\ table' = [table EXCEPT ![i][fd] = NoDesc]
  /\ UNCHANGED <<phase, nextFd, reader, snapshot, stdoutFd>>

\* A TODO in the code says why it closes nothing, and looks at no number.
fd_close(i, fd) == Runs(i) /\ UNCHANGED vars

\* What the calls on one descriptor that change nothing here can end with.
path_create_directory == mkdir
path_unlink_file == unlink
path_rename == rename \cup {"throws"}   \* if the second number is unknown
path_readlink == readLink
fd_fdstat_get == UNION {stat(t) : t \in FileTypes}
doFileStat == UNION {stat(t) : t \in FileTypes}
fd_fdstat_set_flags == UNION {updateFlags(f) : f \in FdFlags}
fd_tell == tell
fd_seek == UNION {seek(w) : w \in Whences}
fd_read == {"success"}                  \* whatever readv says
fd_write == Answers

CallsOnFd ==
  UNION {path_create_directory, path_unlink_file, path_rename, path_readlink,
         fd_fdstat_get, doFileStat, fd_fdstat_set_flags, fd_tell, fd_seek,
         fd_read, fd_write}

\* What the calls without a descriptor of the table can end with. Numbers are
\* those of Linux, also the position in the directory of s__getdents64.
\* fd_prestat alone tests the number it gets; fd_advise and ioctl do nothing;
\* fd_renumber, fd_pread, path_link and so on only trap.
fd_prestat == {"success", "EBADF"}
s__mkdir == {"success", "throws"}
s__rename == {"success", "throws"}
s__unlink == {"success", "throws"}
s__readlink == {"success", "-1"}
s__stat64 == {"success", "-errno"}
s__getdents64 == {"success", "-errno", "throws"}
Ignored == {"success"}
UnsupportedIo == {"traps"}

CallsOnPath ==
  UNION {fd_prestat, s__mkdir, s__rename, s__unlink, s__readlink, s__stat64,
         s__getdents64, Ignored, UnsupportedIo}

-----------------------------------------------------------------------------
(* fd_readdir. The reader is the libc of the guest (external): it passes   *)
(* the start cookie until it has an entry, takes the entries that are in   *)
(* the buffer whole, and takes a buffer that is not full for the end.      *)
Seen(i, fd) == reader[i][fd].seen

\* The start cookie after the iterator has started: EINVAL. Another one before,
\* or a path that opendir does not open: an exception.
fd_readdirRefused(i, fd) ==
  CallOn(i, fd, IF table[i][fd].loaded THEN {"EINVAL"} ELSE {"throws"})

fd_readdir(i, fd, bufLen) ==
  LET d == table[i][fd] IN
  /\ Runs(i) /\ Known(i, fd) /\ ~reader[i][fd].eof
  /\ d.loaded <=> Seen(i, fd) # <<>>
  /\ d.loaded \/ (fd \in ReadFds /\ IsDir(d.path))
  /\ phase[i] = "pinging" => PingReads
  /\ LET now == IF d.loaded THEN d ELSE loadDirContents(d)
         read == copyDirents(now, bufLen) IN
     /\ table' = [table EXCEPT ![i][fd] = [now EXCEPT !.idx = read.idx]]
     /\ reader' = [reader EXCEPT ![i][fd] =
                     [seen |-> @.seen \o [k \in 1..read.copied |-> d.idx + k],
                      eof |-> read.size < bufLen]]
  /\ UNCHANGED <<phase, nextFd, snapshot, stdoutFd, kernel>>

-----------------------------------------------------------------------------
(* Linux descriptors beside the tables.                                    *)
\* s__socketcall: the guest gets the Linux number itself, and may pass it, or
\* any other, to the calls of a client.
sc_socket(i) ==
  /\ Runs(i) /\ FreeFds # {}
  /\ Opened(Lowest, <<"socket">>, TRUE)
  /\ UNCHANGED <<phase, table, nextFd, reader, snapshot, stdoutFd>>

sc_client == {"success", "-1"}

\* getpeername, socketpair, shutdown, sendmsg and so on answer 0.
sc_unfinished == {"success"}

sc_server == {"traps"}

UnsupportedNetwork == {"traps"}

SocketCalls == UNION {sc_client, sc_unfinished, sc_server, UnsupportedNetwork}

\* getStdoutFd creates the memfd if stdoutMemFd is 0. Until the module of the
\* function is bound nothing has set it, and the first read finds any value: the
\* captured bytes go to whatever file has the number.
captureStdout(i, answers) ==
  \E memFd \in IF stdoutFd[i] = Unset THEN Garbage ELSE {stdoutFd[i]} :
    LET creates == memFd = 0 /\ FreeFds # {}
        l == IF creates THEN Lowest ELSE IF memFd = 0 THEN NoFile ELSE memFd
        file == IF creates THEN Object(<<"memfd">>, TRUE)
                ELSE IF l \in LinuxFds THEN kernel[l] ELSE Free
    IN /\ Runs(i)
       /\ stdoutFd' = [stdoutFd EXCEPT ![i] = l]
       /\ kernel' = IF creates THEN [kernel EXCEPT ![l] = file] ELSE kernel
       /\ IF file = Free THEN Throw(i) ELSE AnswerIn(i, answers)
       /\ UNCHANGED <<table, nextFd, reader, snapshot>>

\* What goes to a standard descriptor is written and captured too.
fd_writeStd(i) == captureStdout(i, fd_write)

puts(i) == captureStdout(i, {"success"})

\* Nothing catches a trap of the constructors or the zygote: the process ends,
\* and may be started again.
Uncaught ==
  /\ phase[Base] = "running"
  /\ "traps" \in CallsOnPath \cup SocketCalls
  /\ phase' = [i \in Modules |-> "none"]
  /\ table' = [i \in Modules |-> Empty]
  /\ nextFd' = [i \in Modules |-> 0]
  /\ kernel' = KernelAtStart
  /\ reader' = [i \in Modules |-> NothingRead]
  /\ snapshot' = NothingRead
  /\ stdoutFd' = [i \in Modules |-> Unset]

-----------------------------------------------------------------------------
OnDescriptor(i, fd) ==
  \/ getFileDescriptorThrows(i, fd)
  \/ \E name \in DirNames \cup FileNames, a \in Asked, o \in OFlags, f \in FdFlags :
       path_open(i, fd, name, a[1], a[2], o, f)
  \/ dup(i, fd) \/ fd_close(i, fd)
  \/ CallOn(i, fd, CallsOnFd)
  \/ fd_readdirRefused(i, fd)
  \/ \E b \in BufLens : fd_readdir(i, fd, b)

Next ==
  \/ prepareFilesystem \/ prepareFilesystemThrows
  \/ Bound \/ Pinged \/ Uncaught
  \/ \E i \in Clones : Clone(i)
  \/ \E i \in Modules : Destroy(i)
  \/ \E i \in Modules, fd \in UsedFds : OnDescriptor(i, fd)
  \/ \E i \in Modules :
       \/ fd_writeStd(i) \/ puts(i) \/ sc_socket(i)
       \/ Call(i, CallsOnPath \cup SocketCalls)

Spec == Init /\ [][Next]_vars

(* Properties                                                              *)
Descriptors(i) == {fd \in Fds : Known(i, fd)}

TypeOK ==
  /\ phase \in [Modules -> {"none", "running", "pinging", "ready", "thrown"}]
  /\ nextFd \in [Modules -> 0..MaxFd + 1]
  /\ stdoutFd \in [Modules -> Int \cup {Unset}]
  /\ \A l \in LinuxFds : kernel[l] = Free \/ kernel[l].w \in BOOLEAN
  /\ \A i \in Modules : \A fd \in Descriptors(i) :
       LET d == table[i][fd] IN
       /\ d.base \subseteq Rights /\ d.inh \subseteq Rights
       /\ d.lfd \in LinuxFds \cup {NoFile}
       /\ d.idx \in 0..d.len

\* A descriptor of any module refers to the file it was opened on, whatever the
\* modules that share its Linux descriptor have done since. Linux reuses
\* numbers: a module that closed one would leave the copies of its table with
\* the file of another.
FileIsItsOwn ==
  \A i \in Modules : \A fd \in Descriptors(i) :
    LET d == table[i][fd] IN
    d.lfd # NoFile => kernel[d.lfd] # Free /\ kernel[d.lfd].path = d.path

\* "Rights for this file descriptor are only permitted if they can be
\* inherited" (FileSystem.cpp:91): a file is open for writing only through
\* descriptors each of which may hand the right to write on.
WriteIsInherited ==
  \A i \in Modules : \A fd \in Descriptors(i) :
    LET d == table[i][fd] IN
    d.lfd # NoFile /\ kernel[d.lfd].w => "write" \in d.limit

\* A directory read through any sequence of buffers, also one begun before the
\* module was copied or through a duplicate, is read entry by entry in order,
\* and the reader finds the end after the last one.
DirectoryReadOnce ==
  \A i \in Modules : \A fd \in Descriptors(i) :
    LET d == table[i][fd]
        seen == Seen(i, fd)
    IN /\ seen = [k \in 1..Len(seen) |-> k]
       /\ reader[i][fd].eof => Len(seen) = d.len
=============================================================================
