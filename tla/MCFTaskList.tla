---------------------------- MODULE MCFTaskList ----------------------------
(* Five task threads of a function with concurrency 3: every shape of the  *)
(* list (full, partly loaded and idle T together) and every interleaving.  *)
EXTENDS FTaskList, TLC

Symmetry == Permutations(Ts)
=============================================================================
