------------------------------- MODULE TLoads -------------------------------
(***************************************************************************)
(* What a function's list of task threads promises its callers, whatever   *)
(* structure keeps it.  A function F owns some task threads T, each with   *)
(* the number of requests it has been given and has not finished.  A       *)
(* request goes to the most loaded T that still has room, a T may only be  *)
(* given away when it has nothing to do, and both operations find a T      *)
(* whenever there is one.                                                  *)
(*                                                                         *)
(* TSortList.tla is the structure the code uses (a list kept sorted by     *)
(* load with a cursor into it); it implements this module.                 *)
(***************************************************************************)
EXTENDS Naturals

CONSTANTS Ts,        \* the task threads that may be owned
          MaxValue,  \* requests one T may hold: the function's concurrency
          NoT        \* "no T was found"

VARIABLES loads,     \* owned T |-> its load, over the T owned now
          taken      \* what the last take returned

vars == <<loads, taken>>

Owned == DOMAIN loads

Free == {t \in Owned : loads[t] < MaxValue}
MostLoaded == {t \in Free : \A u \in Free : loads[u] <= loads[t]}
Idle == {t \in Owned : loads[t] = 0}

Init == /\ loads = << >>
        /\ taken = NoT

\* A T joins the list, holding n requests already.
NewOne(t, n) ==
  /\ t \in Ts \ Owned
  /\ loads' = [u \in Owned \cup {t} |-> IF u = t THEN n ELSE loads[u]]
  /\ taken' = NoT

\* One more request goes to a most loaded T with room, if there is one.
TakeOne ==
  \/ /\ Free = {}
     /\ taken' = NoT
     /\ UNCHANGED loads
  \/ \E t \in MostLoaded :
       /\ taken' = t
       /\ loads' = [loads EXCEPT ![t] = @ + 1]

\* A T without requests leaves the list, if there is one.
TakeIdleOne ==
  \/ /\ Idle = {}
     /\ taken' = NoT
     /\ UNCHANGED loads
  \/ \E t \in Idle :
       /\ taken' = t
       /\ loads' = [u \in Owned \ {t} |-> loads[u]]

\* A T has finished one of its requests.
ReturnOne(t) ==
  /\ t \in Owned /\ loads[t] > 0
  /\ loads' = [loads EXCEPT ![t] = @ - 1]
  /\ taken' = NoT

Next == \/ \E t \in Ts : \E n \in {0, 1} : NewOne(t, n)
        \/ \E t \in Ts : ReturnOne(t)
        \/ TakeOne
        \/ TakeIdleOne

Spec == Init /\ [][Next]_vars
=============================================================================
