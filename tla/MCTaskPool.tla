----------------------------- MODULE MCTaskPool -----------------------------
(* Instances of TaskPool: three functions, two of them with the same       *)
(* resource, so that each of the four places a T can come from is used;    *)
(* the third has the name of the first.                                    *)
EXTENDS TaskPool, TLC

CONSTANTS f1, f2, f3, r1, r2

OneEach == [f \in Fs |-> 1]
F3Apart == [f \in Fs |-> IF f = f3 THEN r2 ELSE r1]
F3AsF1  == [f \in Fs |-> IF f = f3 THEN f1 ELSE f]

Symmetry == Permutations(Ts) \cup Permutations(Reqs)
=============================================================================
