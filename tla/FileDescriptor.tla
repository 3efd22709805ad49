--------------------------- MODULE FileDescriptor ---------------------------
(***************************************************************************)
(* One entry of a descriptor table (src/storage/FileDescriptor.cpp), as    *)
(* operators on a record: the rights it has and may hand on, the access    *)
(* mode its file is opened with, and the directory iterator.               *)
(*                                                                         *)
(* A right is "read" or "write" if it is in the mask WASI_RIGHTS_READ or   *)
(* WASI_RIGHTS_WRITE, "other" if it is in neither. A path is the sequence  *)
(* of its names below the runtime root, which prependRuntimeRoot puts in   *)
(* front of every path.                                                    *)
(***************************************************************************)
EXTENDS Integers, Sequences, FiniteSets

CONSTANTS
  EndOf       \* EndOf[k]: bytes of the first k entries of any directory as
              \* fd_readdir writes them, a header and the name for each

ASSUME EndOfAssumption ==
  /\ IsFiniteSet(DOMAIN EndOf)
  /\ Cardinality(DOMAIN EndOf) >= 3
  /\ DOMAIN EndOf = 0..(Cardinality(DOMAIN EndOf) - 1)
  /\ \A k \in DOMAIN EndOf : EndOf[k] \in Nat
  /\ \A j, k \in DOMAIN EndOf : j < k => EndOf[j] < EndOf[k]

Rights == {"read", "write", "other"}

\* An errno of the list errnoToWasi knows, and one it throws on.
Errnos == {"ENOENT", "ENOTEMPTY"}
errnoToWasi(e) == IF e = "ENOENT" THEN e ELSE "throws"

\* No file behind it: open has failed, or dup of such a one.
NoFile == -1

-----------------------------------------------------------------------------
\* The order of the tests decides: O_CREAT hides the others.
getOpenMode(oflags) ==
  CASE "creat" \in oflags     -> "CREATE"
    [] "directory" \in oflags -> "DIRECTORY"
    [] "trunc" \in oflags     -> "TRUNC"
    [] "excl" \in oflags      -> "EXCL"
    [] oflags = {}            -> "NONE"
    [] OTHER                  -> "THROW"

getRwType(rights) ==
  CASE {"read", "write"} \subseteq rights -> "READ_WRITE"
    [] "read" \in rights                  -> "READ_ONLY"
    [] "write" \in rights                 -> "WRITE_ONLY"
    [] rights = {}                        -> "NO_READ_WRITE"
    [] OTHER                              -> "CUSTOM"

\* wasiFdFlagsToLinux: flags of which it knows none.
FdFlagsKnown(fdFlags) == fdFlags # {} =>
  fdFlags \cap {"rsync", "append", "dsync", "sync", "nonblock"} # {}

\* Is the file opened for writing? (NO_READ_WRITE is 0, which is O_RDONLY.)
OpensForWriting(oflags, rights) ==
  /\ getOpenMode(oflags) # "DIRECTORY"
  /\ getRwType(rights) \in {"READ_WRITE", "WRITE_ONLY"}

\* pathOpen throws before it has opened anything.
PathOpenThrows(oflags, rights, fdFlags) ==
  \/ ~FdFlagsKnown(fdFlags)
  \/ getOpenMode(oflags) = "THROW"
  \/ getOpenMode(oflags) # "DIRECTORY" /\ getRwType(rights) = "CUSTOM"

-----------------------------------------------------------------------------
(* What the operations that leave the descriptor as it is can end with: a  *)
(* wasi errno, or an exception that ends the guest.                        *)
Answers == {"success"} \cup {errnoToWasi(e) : e \in Errnos}

\* With a path of its own, which the path of the descriptor is no part of.
mkdir == Answers

unlink == Answers

\* The errno asked for is that of -1 * res, and res is -1: EPERM for every
\* failure.
rename == {"success", "EPERM"}

FileTypes == {"regular", "block", "dir", "link", "char", "socket", "pipe"}
Whences == {"set", "cur", "end", "other"}

\* Every type of file but a socket and a pipe is recognised.
stat(fileType) ==
  IF fileType \in {"socket", "pipe"} THEN {"throws"} ELSE Answers

\* A failure is a length of -1 to the caller, and no errno.
readLink == {"success"}

tell == {"success"}

seek(whence) ==
  IF whence \in {"set", "cur", "end"} THEN Answers ELSE {"throws"}

updateFlags(fdFlags) == IF FdFlagsKnown(fdFlags) THEN Answers ELSE {"throws"}

-----------------------------------------------------------------------------
(* A descriptor. loaded is dirContentsLoaded, len and idx the length of    *)
(* dirContents and dirContentsIdx. limit is no field of the code: the      *)
(* rights that every descriptor it was opened through may hand on.         *)
Desc(path, base, inh, lfd, limit) ==
  [path |-> path, base |-> base, inh |-> inh, lfd |-> lfd,
   loaded |-> FALSE, len |-> 0, idx |-> 0, limit |-> limit]

stdFdFactory(stdFd) == Desc(<<"dev">>, Rights, Rights, stdFd, Rights)

absPath(d, name) == Append(d.path, name)

\* Mutant: what the caller asks for is what it gets.
OpenedAsAsked(root, name, rightsBase, rightsInh, lfd) ==
  Desc(absPath(root, name), rightsBase, rightsInh, lfd, root.limit \cap root.inh)

\* openFileDescriptor's AND with the rights the root may hand on.
OpenedThrough(root, name, rightsBase, rightsInh, lfd) ==
  Desc(absPath(root, name), rightsBase \cap root.inh, rightsInh \cap root.inh,
       lfd, root.limit \cap root.inh)

\* dup: the same rights, path and iterator, another Linux descriptor.
duplicate(other, lfd) == [other EXCEPT !.lfd = lfd]

loadDirContents(d) ==
  [d EXCEPT !.loaded = TRUE, !.len = Cardinality(DOMAIN EndOf) - 1]

Bytes(d, k) == EndOf[d.idx + k] - EndOf[d.idx]

\* How many entries fit whole, from where the iterator is.
WholeEntries(d, bufLen) ==
  CHOOSE k \in 0..(d.len - d.idx) :
    /\ Bytes(d, k) <= bufLen
    /\ \A j \in 0..(d.len - d.idx) : Bytes(d, j) <= bufLen => j <= k

\* Mutant: no iterBack.
copyDirentsNoBack(d, bufLen) ==
  LET copied == WholeEntries(d, bufLen)
      isBufferFull == d.idx + copied < d.len
  IN [copied |-> copied, idx |-> d.idx + copied + (IF isBufferFull THEN 1 ELSE 0),
      size |-> IF isBufferFull THEN bufLen ELSE Bytes(d, copied)]

\* Mutant: the iterator is moved before iterFinished is tested.
copyDirentsPastEnd(d, bufLen) ==
  LET copied == WholeEntries(d, bufLen)
      isBufferFull == d.idx + copied < d.len
  IN [copied |-> copied, idx |-> d.idx + copied + 1,
      size |-> IF isBufferFull THEN bufLen ELSE Bytes(d, copied)]

(* copyDirentsToWasiBuffer: if an entry is left over, its header and as    *)
(* much of its name as fits are no use to the caller. iterBack goes back   *)
(* to it and the size returned is that of the buffer.                      *)
copyDirents(d, bufLen) ==
  LET copied == WholeEntries(d, bufLen)
      isBufferFull == d.idx + copied < d.len
  IN [copied |-> copied, idx |-> d.idx + copied,
      size |-> IF isBufferFull THEN bufLen ELSE Bytes(d, copied)]
=============================================================================
