---------------------------- MODULE MCFileSystem ----------------------------
(* An instance of FileSystem: a function's module and two invocations, two  *)
(* descriptors beside the preopened ones, directories of two entries and a  *)
(* buffer that holds the first and a part of the second, or exactly the     *)
(* second.                                                                  *)
EXTENDS FileSystem, TLC

\* Sizes 3 and 4.
Ends == [k \in 0..2 |-> <<0, 3, 7>>[k + 1]]

Both == {"read", "write"}
AskedPairs == {<<Both, {"read"}>>}
OpenFlags == {{"creat"}, {"directory"}}
FlagSets == {{"append"}, {"other"}}

\* A module that has thrown is only destroyed: what its table holds is past.
\* Once stdoutMemFd is read, its value decides no more than whether a write
\* throws, which other calls do in every state.
View ==
  LET Alive(f, dead) == [i \in Modules |-> IF phase[i] = "thrown" THEN dead ELSE f[i]]
  IN <<phase, kernel, snapshot, Alive(table, Empty), Alive(nextFd, 0), Alive(reader, NoDesc),
       Alive([i \in Modules |-> stdoutFd[i] \in {Unset, 0}], TRUE)>>

Symmetry == Permutations(Clones)
=============================================================================
