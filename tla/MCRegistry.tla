----------------------------- MODULE MCRegistry -----------------------------
(* An instance of Registry: two versions of the wasm function b-c of user a,*)
(* a native function c of user a-b, whose key "a-b-c" is the same, and a    *)
(* function c of user a, whose library has the same file; its type is       *)
(* unknown, which makes it a native one, and its url one part short.        *)
EXTENDS Registry, TLC

RequestUrl(size, type, user, name, body) ==
  [size |-> size, register |-> TRUE, type |-> type, user |-> user, functionName |-> name,
   concurrency |-> 2, mem |-> 32, body |-> body]

MCUrl ==
  "w1" :> RequestUrl(7, "wasm", "a", "b-c", "wasm 1") @@
  "w2" :> RequestUrl(7, "wasm", "a", "b-c", "wasm 2") @@
  "n1" :> RequestUrl(7, "native", "a-b", "c", "native 1") @@
  "n2" :> RequestUrl(6, "unknown", "a", "c", "native 2")

MCFuncStr ==
  <<"a", "b-c">> :> "a-b-c" @@ <<"a-b", "c">> :> "a-b-c" @@ <<"a", "c">> :> "a-c"

\* No step reads the last invocation, or the table of resources. (That there was
\* one is kept while nothing is registered: the invocations then show in the
\* coverage.)
View ==
  LET invoked == served # None /\ pc = "idle" /\ queue = <<>>
  IN <<answer, queue, thread, FMap, disk, lib, interrupted, invoked>>
=============================================================================
