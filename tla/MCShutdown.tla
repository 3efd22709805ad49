----------------------------- MODULE MCShutdown -----------------------------
(* Instances of Shutdown: two functions with one resource each or the same *)
(* one, or a third that shares the resource and the name of the first.     *)
EXTENDS Shutdown, TLC

CONSTANTS f1, f2, f3, r1, r2

OneEach == [f \in Fs |-> 1]
OwnR    == [f \in Fs |-> IF f = f2 THEN r2 ELSE r1]
SameR   == [f \in Fs |-> r1]
OwnName == [f \in Fs |-> f]
F3AsF1  == [f \in Fs |-> IF f = f3 THEN f1 ELSE f]
=============================================================================
