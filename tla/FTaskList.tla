----------------------------- MODULE FTaskList -----------------------------
(***************************************************************************)
(* The task threads of one function F: its TSortList driven through the    *)
(* methods of F (src/RFIT/F/function.cpp) by the dispatchers (getT, newT,  *)
(* getIdleT) and by the T threads themselves (returnOne).  All of them are *)
(* serialised by the mutex of the list; any of them may come next.         *)
(*                                                                         *)
(* newT is always called with take = true today; its other value, which    *)
(* the class offers, is driven as well.                                    *)
(***************************************************************************)
EXTENDS TSortList

CONSTANT MaxValue    \* the concurrency of F, at least 1 (requestToMsg)

ASSUME FTaskListAssumption == MaxValue \in Nat \ {0} /\ NoT \notin Ts

VARIABLES list,      \* the TSortList of F
          taken      \* the T the last takeOne or takeIdleOne gave out

vars == <<list, taken>>

Init == list = EmptyList /\ taken = NoT

\* F::newT(t, take).
NewOne(t, take) ==
  /\ t \in Ts \ Members(list)
  /\ list' = AfterNewOne(list, MaxValue, t, take)
  /\ taken' = NoT

\* F::getT.
TakeOne ==
  IF CanTakeOne(list)
  THEN list' = AfterTakeOne(list, MaxValue) /\ taken' = list.nextT
  ELSE list' = list /\ taken' = NoT

\* F::getIdleT.
TakeIdleOne ==
  IF CanTakeIdle(list)
  THEN list' = AfterTakeIdle(list) /\ taken' = IdleOne(list)
  ELSE list' = list /\ taken' = NoT

\* TSortList::returnOne, from T::doChangeICount: t has a request to return.
ReturnOne(t) ==
  /\ t \in Members(list) /\ LoadIn(list, t) > 0
  /\ list' = AfterReturnOne(list, MaxValue, t)
  /\ taken' = NoT

Next == \/ \E t \in Ts, take \in BOOLEAN : NewOne(t, take)
        \/ TakeOne
        \/ TakeIdleOne
        \/ \E t \in Ts : ReturnOne(t)

Spec == Init /\ [][Next]_vars

-----------------------------------------------------------------------------
TypeOK == /\ list.items \in Seq([n : 0..MaxValue, t : Ts])
          /\ list.nextT \in Ts \cup {NoT}
          /\ taken \in Ts \cup {NoT}

\* The entries stay sorted by load, highest first, one entry per T: the
\* insertions of newT and updateT never need a second pass.
Sorted ==
  \A j, k \in DOMAIN list.items :
    j < k => /\ list.items[j].n >= list.items[k].n
             /\ list.items[j].t # list.items[k].t

\* nextT always designates the T that serves the next request (the comment on
\* nextT in core.h): the first entry with room, l.end() only if none has any.
NextTServesNext ==
  LET room == {k \in DOMAIN list.items : list.items[k].n < MaxValue}
  IN  IF room = {} THEN list.nextT = NoT
      ELSE \E k \in room : /\ list.nextT = list.items[k].t
                           /\ \A j \in room : k <= j

\* No assertion of putOrUpdate or updateT can fail: a taken T is the one nextT
\* designates and has room, a returning T is in the list and has load to give.
AssertionsHold ==
  /\ CanTakeOne(list) =>
       UpdateAsserts(list, MaxValue, LoadIn(list, list.nextT) + 1, list.nextT)
  /\ \A t \in Members(list) : LoadIn(list, t) > 0 =>
       UpdateAsserts(list, MaxValue, LoadIn(list, t) - 1, t)

\* takeIdleOne compares the last entry with *nextT without testing nextT: it
\* never dereferences l.end() when it finds an idle T.
TakeIdleDereferencesAnEntry == CanTakeIdle(list) => list.nextT # NoT

\* The sorted list keeps the promise of TLoads: most loaded T first, an idle
\* T whenever one exists, no request lost or added by a reordering.
Loads == INSTANCE TLoads WITH
  loads <- [t \in Members(list) |-> LoadIn(list, t)]
LoadsSpec == Loads!Spec
=============================================================================
