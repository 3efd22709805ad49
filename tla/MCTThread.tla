----------------------------- MODULE MCTThread -----------------------------
(* Instances of TThread: the functions' concurrencies and resources are    *)
(* chosen by each configuration.                                           *)
EXTENDS TThread, TLC

CONSTANTS f1, f2, f3, r1, r2

TwoEach    == [f \in Fs |-> 2]
F1Twice    == [f \in Fs |-> IF f = f1 THEN 2 ELSE 1]
F3Once     == [f \in Fs |-> IF f = f3 THEN 1 ELSE 2]

SameR == [f \in Fs |-> r1]
F3Apart  == [f \in Fs |-> IF f = f3 THEN r2 ELSE r1]

Symmetry == Permutations(Ts) \cup Permutations(Reqs) \cup Permutations(Workers)
=============================================================================
