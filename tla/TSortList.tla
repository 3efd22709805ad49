----------------------------- MODULE TSortList -----------------------------
(***************************************************************************)
(* TSortList (include/RFIT/core.h, src/RFIT/T/task.cpp): the list a        *)
(* function keeps of its task threads, sorted by load in descending order, *)
(* with an iterator nextT to the T the next request goes to.  Every public *)
(* operation runs under the list's own mutex, so each is one action.       *)
(*                                                                         *)
(* A list is a record: items is std::list l, an entry being the load n and *)
(* the T; nextT is the T of the entry the iterator designates, or NoT for  *)
(* l.end() (a T has at most one entry, and list iterators follow their     *)
(* entry when others move).  The index map of the code is the function     *)
(* PosOf.  updateT reads its argument t, a reference into an entry, after  *)
(* erasing that entry; the caller still holds the T, so the build reads    *)
(* the same pointer, and so does the model.                                *)
(***************************************************************************)
EXTENDS Naturals, SequencesExt, FiniteSetsExt

CONSTANTS Ts,        \* task threads
          NoT        \* l.end(), and "no T was found"

\* The empty list, as the constructor of F leaves it.
EmptyList == [items |-> << >>, nextT |-> NoT]

Members(L) == {L.items[k].t : k \in DOMAIN L.items}
PosOf(L, t) == CHOOSE k \in DOMAIN L.items : L.items[k].t = t
LoadIn(L, t) == L.items[PosOf(L, t)].n
Entry(n, t) == [n |-> n, t |-> t]

\* The T at position k of a sequence of entries: l.end() beyond the last one.
TAt(s, k) == IF k \in DOMAIN s THEN s[k].t ELSE NoT

\* Mutant: the entry goes to the end.
InsertLast(s, k, e) == Append(s, e)

\* Insert e before the first entry at or after position k that is not more
\* loaded, at the end when there is none: the for loops of newT and updateT.
InsertFrom(s, k, e) ==
  LET at == {j \in DOMAIN s : j >= k /\ e.n >= s[j].n}
  IN  InsertAt(s, IF at = {} THEN Len(s) + 1 ELSE Min(at), e)

-----------------------------------------------------------------------------
\* Mutant: every T joins at the end, and nextT is not set when it is the first.
NewTAtEnd(L, max, n, t) == [L EXCEPT !.items = Append(@, Entry(n, t))]

\* TSortList::newT: t joins with load n, max being the function's concurrency.
NewT(L, max, n, t) ==
  LET e == Entry(n, t)
      p == PosOf(L, L.nextT)
  IN  IF n = 0 \/ (n # max /\ L.nextT = NoT)
      THEN [items |-> Append(L.items, e),
            nextT |-> IF L.nextT = NoT THEN t ELSE L.nextT]
      ELSE IF n = max
      THEN [L EXCEPT !.items = <<e>> \o @]
      ELSE IF n > L.items[p].n
      THEN [items |-> InsertAt(L.items, p, e), nextT |-> t]
      ELSE [L EXCEPT !.items = InsertFrom(@, p + 1, e)]

\* Mutant: nextT stays on an entry that is full now.
UpdateNextStays(L, max, n, t) ==
  LET p == PosOf(L, t)
  IN  IF n >= L.items[p].n
      THEN [items |-> [L.items EXCEPT ![p].n = n], nextT |-> t]
      ELSE LET s == InsertFrom(RemoveAt(L.items, p), p, Entry(n, t))
           IN  [items |-> s, nextT |-> TAt(s, p)]

\* TSortList::updateT when t is the entry nextT designates.
UpdateNext(L, max, n, t) ==
  LET p    == PosOf(L, t)
      rest == RemoveAt(L.items, p)
      Then(s) == [items |-> s, nextT |-> TAt(s, p)]
  IN  IF n = 0 THEN Then(Append(rest, Entry(0, t)))
      ELSE IF n >= L.items[p].n
      THEN [items |-> [L.items EXCEPT ![p].n = n],
            nextT |-> IF n = max THEN TAt(L.items, p + 1) ELSE t]
      ELSE Then(InsertFrom(rest, p, Entry(n, t)))

\* Mutant: nextT stays l.end() when a full T has room again.
UpdateOtherKeepsEnd(L, n, t) ==
  [L EXCEPT !.items = InsertFrom(RemoveAt(@, PosOf(L, t)), PosOf(L, t), Entry(n, t))]

\* TSortList::updateT when t is another entry, whose load went down.
UpdateOther(L, n, t) ==
  LET p    == PosOf(L, t)
      rest == RemoveAt(L.items, p)
      q    == PosOf([L EXCEPT !.items = rest], L.nextT)
  IN  IF L.nextT = NoT
      THEN [items |-> Append(rest, Entry(n, t)), nextT |-> t]
      ELSE IF n < rest[q].n
      THEN [L EXCEPT !.items = InsertFrom(rest, p, Entry(n, t))]
      ELSE [items |-> InsertAt(rest, q, Entry(n, t)), nextT |-> t]

UpdateT(L, max, n, t) ==
  IF n = LoadIn(L, t) THEN L
  ELSE IF t = L.nextT THEN UpdateNext(L, max, n, t) ELSE UpdateOther(L, n, t)

\* What the code asserts before it updates t to load n (putOrUpdate, updateT).
UpdateAsserts(L, max, n, t) ==
  /\ t \in Members(L)
  /\ n \in 0..max
  /\ n > LoadIn(L, t) => t = L.nextT

-----------------------------------------------------------------------------
(* The public operations, as functions from a list to a list.              *)

\* newOne(t, take): t joins with load 1, or 0 if nothing is taken from it.
AfterNewOne(L, max, t, take) == NewT(L, max, IF take THEN 1 ELSE 0, t)

\* takeOne: nextT gets one more request; refused when nextT is l.end().
CanTakeOne(L) == L.nextT # NoT
AfterTakeOne(L, max) == UpdateT(L, max, LoadIn(L, L.nextT) + 1, L.nextT)

\* Mutant: the load of the last entry is not tested.
CanTakeLast(L) == L.items # << >>

\* takeIdleOne: the last entry leaves the list if its load is 0.
CanTakeIdle(L) == L.items # << >> /\ Last(L.items).n = 0
IdleOne(L) == Last(L.items).t

\* Mutant: the entry is not popped.
AfterTakeIdleKeeps(L) ==
  [L EXCEPT !.nextT = IF L.nextT = IdleOne(L) THEN NoT ELSE L.nextT]

AfterTakeIdle(L) ==
  [items |-> Front(L.items),
   nextT |-> IF L.nextT = IdleOne(L) THEN NoT ELSE L.nextT]

\* returnOne(key): the T has finished one request.
AfterReturnOne(L, max, t) == UpdateT(L, max, LoadIn(L, t) - 1, t)
=============================================================================
