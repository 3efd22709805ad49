SPECIFICATION Spec
CONSTANTS
  EndOf <- Ends
  Base = Base
  Clones = {c1, c2}
  DirNames = {d}
  FileNames = {f}
  MaxFd = 6
  MaxLinuxFd = 5
  Asked <- AskedPairs
  OFlags <- OpenFlags
  FdFlags <- FlagSets
  BufLens = {4}
  UsedFds = {4, 5}
  ReadFds = {5}
  PingReads = FALSE
  Garbage = {0, 3}
  NoDesc = NoDesc
  Free = Free
  Unset = Unset
VIEW View
SYMMETRY Symmetry
INVARIANTS
  TypeOK
  FileIsItsOwn
  WriteIsInherited
  DirectoryReadOnce
