------------------------------ MODULE TService ------------------------------
(***************************************************************************)
(* What the task threads promise the clients, without queues, workers or   *)
(* lists: an invocation is placed on a T, answered once, and then leaves   *)
(* the T; the invocations on one T belong to one function and are never    *)
(* more than its concurrency allows.                                       *)
(***************************************************************************)
EXTENDS Naturals, FiniteSets

CONSTANTS Ts, Fs, Reqs, Conc, NoF, NoT

VARIABLES fn,      \* request |-> its function
          place,   \* request |-> the T it is placed on
          phase    \* request |-> "free", "waiting" or "answered"

vars == <<fn, place, phase>>

On(t) == {i \in Reqs : place[i] = t}

Init == /\ fn = [i \in Reqs |-> NoF]
        /\ place = [i \in Reqs |-> NoT]
        /\ phase = [i \in Reqs |-> "free"]

Accept(i, f, t) ==
  /\ phase[i] = "free"
  /\ \A j \in On(t) : fn[j] = f
  /\ Cardinality(On(t)) < Conc[f]
  /\ fn' = [fn EXCEPT ![i] = f]
  /\ place' = [place EXCEPT ![i] = t]
  /\ phase' = [phase EXCEPT ![i] = "waiting"]

Answer(i) ==
  /\ phase[i] = "waiting"
  /\ phase' = [phase EXCEPT ![i] = "answered"]
  /\ UNCHANGED <<fn, place>>

Leave(i) ==
  /\ phase[i] = "answered"
  /\ fn' = [fn EXCEPT ![i] = NoF]
  /\ place' = [place EXCEPT ![i] = NoT]
  /\ phase' = [phase EXCEPT ![i] = "free"]

Next == \/ \E i \in Reqs, f \in Fs, t \in Ts : Accept(i, f, t)
        \/ \E i \in Reqs : Answer(i) \/ Leave(i)

Spec == Init /\ [][Next]_vars
=============================================================================
