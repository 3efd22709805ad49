---------------------------- MODULE MCWasmModule ----------------------------
(* Instances of WasmModule: one function and an invocation of it, two       *)
(* dynamic modules of one page with guard regions of one page.              *)
EXTENDS WasmModule, TLC

\* What later steps and the properties depend on. Nothing reads mem: of who
\* wrote a page it matters whether it was the ping. A module that has ended is
\* only destroyed, one that is registered only copied, and one that hangs stays.
\* Where the break has gone round, memory is given out again: of these memories
\* one layout is followed for each size and each set of modules.
Frozen(m) == phase[m] \in {"ended", "hung", "registered"}

View ==
  LET Dead(m) == phase[m] \in {"ended", "hung"}
      Layout(m) == IF wrapped[m] THEN "wrapped" ELSE <<brk[m], readOnly[m], owned[m]>>
      ByPing(m) == {p < Image : p \in {q \in Pages : mem[m][q][2] = "pinging"}}
      Saved(s) == CASE s = NoSnapshot -> NoSnapshot
                    [] s # NoSnapshot /\ s.wrapped -> "wrapped"
                    [] OTHER -> <<s.brk, s.owned>>
  IN <<phase, func,
       [m \in Modules |-> IF Frozen(m) THEN NoModule ELSE Layout(m)],
       [m \in Modules |-> IF Dead(m) THEN NoModule
          ELSE <<size[m], handles[m], dynamic[m], tableSize[m], ByPing(m)>>],
       [f \in Functions |-> IF Dead(f) THEN NoModule ELSE Saved(snapshot[f])]>>

Symmetry == Permutations(Paths)
=============================================================================
