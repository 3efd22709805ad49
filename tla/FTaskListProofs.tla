-------------------------- MODULE FTaskListProofs --------------------------
(***************************************************************************)
(* The task threads of one function, for any set of Ts and any             *)
(* concurrency: the invariants of FTaskList, and that the sorted list with *)
(* its cursor keeps the promise of TLoads.                                 *)
(*                                                                         *)
(* The inductive invariant is Good of TSortListProofs: the list is sorted, *)
(* one entry per T, and nextT is on the first entry with room.  Each of    *)
(* the invariants of FTaskList follows from it, none is inductive alone:   *)
(* NextTServesNext needs the order, and the order needs nextT to be where  *)
(* newT and updateT expect it.                                             *)
(***************************************************************************)
EXTENDS FTaskList, TSortListProofs

Inductive == Good(list, MaxValue) /\ taken \in Ts \cup {NoT}

\* Initially there is no T.
LEMMA InitInductive == Init => Inductive
  BY EmptyGood, FTaskListAssumption DEF Init, Inductive

\* Every operation keeps the list good.
LEMMA NextInductive == Inductive /\ [Next]_vars => Inductive'
<1> SUFFICES ASSUME Inductive, [Next]_vars PROVE Inductive'
  OBVIOUS
<1>1. MaxValue \in Nat \ {0} /\ MaxValue \in Nat /\ NoT \notin Ts
  BY FTaskListAssumption
<1>2. Good(list, MaxValue) /\ Members(list) \subseteq Ts /\ taken \in Ts \cup {NoT}
  BY <1>1, GoodSound DEF Inductive
<1>3. ASSUME NEW t \in Ts, NEW take \in BOOLEAN, NewOne(t, take) PROVE Inductive'
  BY <1>1, <1>2, <1>3, NewOneFacts DEF NewOne, Inductive
<1>4. CASE TakeOne
  BY <1>1, <1>2, <1>4, TakeOneFacts, TakeChoice DEF TakeOne, Inductive
<1>5. CASE TakeIdleOne
  BY <1>1, <1>2, <1>5, TakeIdleFacts, IdleChoice DEF TakeIdleOne, Inductive
<1>6. ASSUME NEW t \in Ts, ReturnOne(t) PROVE Inductive'
  BY <1>1, <1>2, <1>6, ReturnOneFacts DEF ReturnOne, Inductive
<1>7. CASE UNCHANGED vars
  BY <1>2, <1>7 DEF vars, Inductive
<1>8. QED BY <1>3, <1>4, <1>5, <1>6, <1>7 DEF Next

\* The inductive invariant holds in every reachable state.
LEMMA SpecInductive == Spec => []Inductive
  BY InitInductive, NextInductive, PTL DEF Spec

-----------------------------------------------------------------------------
(* The invariants.                                                         *)

\* The list holds Ts with loads up to the concurrency, and nextT is a T or
\* l.end() (core.h, TSortList).
THEOREM TypeCorrect == Spec => []TypeOK
<1>1. Inductive => TypeOK
  BY FTaskListAssumption, GoodSound DEF Inductive, TypeOK
<1>2. QED BY <1>1, SpecInductive, PTL

\* The entries are always sorted by load, one entry per T (task.cpp, newT and
\* updateT).
THEOREM AlwaysSorted == Spec => []Sorted
<1>1. Inductive => Sorted
  <2>1. SUFFICES ASSUME Inductive PROVE Sorted
    OBVIOUS
  <2>2. Ordered(list.items) /\ DOMAIN list.items = 1..Len(list.items)
    BY <2>1, LenProperties DEF Inductive, Good
  <2>3. QED BY <2>2 DEF Ordered, Sorted
<1>2. QED BY <1>1, SpecInductive, PTL

\* nextT is always the T that serves the next request: the first entry with
\* room, l.end() only when none has any (core.h, the comment on nextT).
THEOREM NextTAlwaysServesNext == Spec => []NextTServesNext
<1>1. Inductive => NextTServesNext
  <2> DEFINE s == list.items
             room == {k \in DOMAIN s : s[k].n < MaxValue}
  <2>1. SUFFICES ASSUME Inductive PROVE NextTServesNext
    OBVIOUS
  <2>2. DOMAIN s = 1..Len(s) /\ Len(s) \in Nat /\ MaxValue \in Nat
    BY <2>1, LenProperties, FTaskListAssumption DEF Inductive, Good
  <2>3. PICK p \in 1..(Len(s) + 1) : FirstFree(s, MaxValue, p) /\ list.nextT = TAt(s, p)
    BY <2>1 DEF Inductive, Good
  <2> HIDE DEF s
  <2>4. ASSUME NEW j \in room PROVE p <= j
    <3>1. j \in 1..Len(s) /\ s[j].n # MaxValue
      BY <2>2
    <3>2. j \notin 1..(p - 1)
      BY <2>3, <3>1 DEF FirstFree
    <3>3. QED BY <2>2, <3>1, <3>2
  <2>5. CASE p \in 1..Len(s)
    <3>1. p \in room /\ list.nextT = s[p].t
      BY <2>2, <2>3, <2>5 DEF FirstFree, TAt
    <3>2. QED BY <2>4, <3>1 DEF NextTServesNext, s
  <2>6. CASE p = Len(s) + 1
    <3>1. p \notin DOMAIN s
      BY <2>2, <2>6
    <3>2. list.nextT = NoT
      BY <2>3, <3>1 DEF TAt
    <3>3. room = {}
      <4>1. SUFFICES ASSUME NEW j \in room PROVE FALSE
        OBVIOUS
      <4>2. p <= j /\ j \in 1..Len(s)
        BY <2>2, <2>4
      <4>3. QED BY <2>2, <2>6, <4>2
    <3>4. QED BY <3>2, <3>3 DEF NextTServesNext, s
  <2>7. QED BY <2>2, <2>3, <2>5, <2>6
<1>2. QED BY <1>1, SpecInductive, PTL

\* No assertion of putOrUpdate or updateT can fail (task.cpp).
THEOREM AssertionsAlwaysHold == Spec => []AssertionsHold
<1>1. Inductive => AssertionsHold
  <2>1. SUFFICES ASSUME Inductive PROVE AssertionsHold
    OBVIOUS
  <2>2. MaxValue \in Nat /\ NoT \notin Ts /\ Good(list, MaxValue)
    BY <2>1, FTaskListAssumption DEF Inductive
  <2>3. \A t \in Members(list) : LoadIn(list, t) \in 0..MaxValue
    BY <2>2, GoodSound
  <2>4. CanTakeOne(list) =>
          UpdateAsserts(list, MaxValue, LoadIn(list, list.nextT) + 1, list.nextT)
    BY <2>2, TakeChoice DEF UpdateAsserts
  <2>5. ASSUME NEW t \in Members(list), LoadIn(list, t) > 0
        PROVE  UpdateAsserts(list, MaxValue, LoadIn(list, t) - 1, t)
    BY <2>2, <2>3, <2>5 DEF UpdateAsserts
  <2>6. QED BY <2>4, <2>5 DEF AssertionsHold
<1>2. QED BY <1>1, SpecInductive, PTL

\* takeIdleOne, which compares its last entry with *nextT, has a *nextT whenever
\* that entry is idle (task.cpp, takeIdleOne).
THEOREM NextTCanBeRead == Spec => []TakeIdleDereferencesAnEntry
<1>1. Inductive => TakeIdleDereferencesAnEntry
  BY FTaskListAssumption, IdleChoice DEF Inductive, TakeIdleDereferencesAnEntry
<1>2. QED BY <1>1, SpecInductive, PTL

-----------------------------------------------------------------------------
(* The sorted list implements TLoads.                                      *)

loads == [t \in Members(list) |-> LoadIn(list, t)]

\* newOne adds t with its load.
LEMMA NewOneRefines ==
  ASSUME Inductive, NEW t \in Ts, NEW take \in BOOLEAN, NewOne(t, take)
  PROVE  \E n \in {0, 1} : Loads!NewOne(t, n)
<1> DEFINE n == IF take THEN 1 ELSE 0
<1>1. MaxValue \in Nat \ {0} /\ NoT \notin Ts /\ Good(list, MaxValue)
  BY FTaskListAssumption DEF Inductive
<1>2. t \in Ts \ Members(list) /\ taken' = NoT
  BY DEF NewOne
<1>3. /\ Members(list') = Members(list) \cup {t} /\ LoadIn(list', t) = n
      /\ \A u \in Members(list) : LoadIn(list', u) = LoadIn(list, u)
  BY <1>1, <1>2, NewOneFacts DEF NewOne
<1> HIDE DEF n
<1>4. [u \in Members(list') |-> LoadIn(list', u)] =
        [u \in Members(list) \cup {t} |-> IF u = t THEN n ELSE loads[u]]
  BY <1>2, <1>3 DEF loads
<1>5. n \in {0, 1}
  BY DEF n
<1>6. DOMAIN loads = Members(list)
  BY DEF loads
<1>7. Loads!NewOne(t, n)
  BY <1>2, <1>4, <1>6 DEF Loads!NewOne, Loads!Owned, loads
<1>8. QED BY <1>5, <1>7

\* takeOne chooses a most loaded T with room, whenever one has room.
LEMMA TakeOneRefines ==
  ASSUME Inductive, TakeOne
  PROVE  Loads!TakeOne
<1>1. MaxValue \in Nat /\ NoT \notin Ts /\ Good(list, MaxValue)
  BY FTaskListAssumption DEF Inductive
<1>2. DOMAIN loads = Members(list) /\ \A u \in Members(list) : loads[u] = LoadIn(list, u)
  BY DEF loads
<1>3. CASE CanTakeOne(list)
  <2> DEFINE t == list.nextT
  <2>1. /\ t \in Members(list) /\ LoadIn(list, t) + 1 \in 0..MaxValue
        /\ LoadIn(list, t) \in 0..MaxValue
        /\ \A u \in Members(list) : LoadIn(list, u) < MaxValue => LoadIn(list, u) <= LoadIn(list, t)
    BY <1>1, <1>3, TakeChoice, GoodSound
  <2>2. /\ Members(list') = Members(list) /\ LoadIn(list', t) = LoadIn(list, t) + 1
        /\ \A u \in Members(list) : u # t => LoadIn(list', u) = LoadIn(list, u)
        /\ taken' = t
    BY <1>1, <1>3, TakeOneFacts DEF TakeOne
  <2> HIDE DEF t
  <2>3. [u \in Members(list') |-> LoadIn(list', u)] = [loads EXCEPT ![t] = @ + 1]
    BY <1>2, <2>1, <2>2 DEF loads
  <2>4. t \in Loads!MostLoaded
    <3>1. Loads!Free = {u \in Members(list) : LoadIn(list, u) < MaxValue}
      BY <1>2 DEF Loads!Free, Loads!Owned, loads
    <3>2. Loads!MostLoaded = {v \in Loads!Free : \A u \in Loads!Free : loads[u] <= loads[v]}
      BY DEF Loads!MostLoaded, loads
    <3>3. t \in Loads!Free
      BY <1>1, <2>1, <3>1
    <3>4. \A u \in Loads!Free : loads[u] <= loads[t]
      BY <1>2, <2>1, <3>1
    <3>5. QED BY <3>2, <3>3, <3>4
  <2>5. QED BY <2>2, <2>3, <2>4 DEF Loads!TakeOne, loads
<1>4. CASE ~CanTakeOne(list)
  <2>1. \A u \in Members(list) : LoadIn(list, u) = MaxValue
    BY <1>1, <1>4, TakeChoice
  <2>2. Loads!Free = {}
    BY <1>1, <1>2, <2>1 DEF Loads!Free, Loads!Owned, loads
  <2>3. QED BY <1>4, <2>2 DEF TakeOne, Loads!TakeOne
<1>5. QED BY <1>3, <1>4

\* takeIdleOne gives away a T without requests, whenever there is one.
LEMMA TakeIdleOneRefines ==
  ASSUME Inductive, TakeIdleOne
  PROVE  Loads!TakeIdleOne
<1>1. MaxValue \in Nat \ {0} /\ NoT \notin Ts /\ Good(list, MaxValue)
  BY FTaskListAssumption DEF Inductive
<1>2. DOMAIN loads = Members(list) /\ \A u \in Members(list) : loads[u] = LoadIn(list, u)
  BY DEF loads
<1>3. CASE CanTakeIdle(list)
  <2> DEFINE t == IdleOne(list)
  <2>1. t \in Members(list) /\ LoadIn(list, t) = 0
    BY <1>1, <1>3, IdleChoice
  <2>2. /\ Members(list') = Members(list) \ {t} /\ taken' = t
        /\ \A u \in Members(list') : LoadIn(list', u) = LoadIn(list, u)
    BY <1>1, <1>3, TakeIdleFacts DEF TakeIdleOne
  <2> HIDE DEF t
  <2>3. [u \in Members(list') |-> LoadIn(list', u)] = [u \in Members(list) \ {t} |-> loads[u]]
    BY <1>2, <2>2
  <2>4. t \in Loads!Idle
    BY <1>2, <2>1 DEF Loads!Idle, Loads!Owned, loads
  <2>5. QED BY <1>2, <2>2, <2>3, <2>4 DEF Loads!TakeIdleOne, Loads!Owned, loads
<1>4. CASE ~CanTakeIdle(list)
  <2>1. \A u \in Members(list) : LoadIn(list, u) > 0 /\ LoadIn(list, u) \in 0..MaxValue
    BY <1>1, <1>4, IdleChoice, GoodSound
  <2>2. Loads!Idle = {}
    BY <1>1, <1>2, <2>1 DEF Loads!Idle, Loads!Owned, loads
  <2>3. QED BY <1>4, <2>2 DEF TakeIdleOne, Loads!TakeIdleOne
<1>5. QED BY <1>3, <1>4

\* returnOne takes one request from t.
LEMMA ReturnOneRefines ==
  ASSUME Inductive, NEW t \in Ts, ReturnOne(t)
  PROVE  Loads!ReturnOne(t)
<1>1. MaxValue \in Nat /\ NoT \notin Ts /\ Good(list, MaxValue)
  BY FTaskListAssumption DEF Inductive
<1>2. DOMAIN loads = Members(list) /\ \A u \in Members(list) : loads[u] = LoadIn(list, u)
  BY DEF loads
<1>3. t \in Members(list) /\ LoadIn(list, t) > 0 /\ taken' = NoT
  BY DEF ReturnOne
<1>4. /\ Members(list') = Members(list) /\ LoadIn(list', t) = LoadIn(list, t) - 1
      /\ \A u \in Members(list) : u # t => LoadIn(list', u) = LoadIn(list, u)
  BY <1>1, <1>3, ReturnOneFacts DEF ReturnOne
<1>5. [u \in Members(list') |-> LoadIn(list', u)] = [loads EXCEPT ![t] = @ - 1]
  BY <1>2, <1>3, <1>4 DEF loads
<1>6. QED BY <1>2, <1>3, <1>5 DEF Loads!ReturnOne, Loads!Owned, loads

\* The list sorted by load, with its cursor, implements the promise of TLoads:
\* a request goes to a most loaded T with room and only an idle T is given
\* away, both whenever there is one, and no reordering changes a load
\* (task.cpp, TSortList).
THEOREM KeepsThePromise == Spec => LoadsSpec
<1>1. Init => Loads!Init
  <2>1. SUFFICES ASSUME Init PROVE Loads!Init
    OBVIOUS
  <2>2. Members(list) = {} /\ taken = NoT
    BY <2>1, EmptyGood, FTaskListAssumption DEF Init
  <2>3. QED BY <2>2 DEF Loads!Init
<1>2. Inductive /\ [Next]_vars => [Loads!Next]_(Loads!vars)
  <2>1. SUFFICES ASSUME Inductive, [Next]_vars PROVE [Loads!Next]_(Loads!vars)
    OBVIOUS
  <2>2. ASSUME NEW t \in Ts, NEW take \in BOOLEAN, NewOne(t, take) PROVE Loads!Next
    BY <2>1, <2>2, NewOneRefines DEF Loads!Next
  <2>3. ASSUME TakeOne PROVE Loads!Next
    BY <2>1, <2>3, TakeOneRefines DEF Loads!Next
  <2>4. ASSUME TakeIdleOne PROVE Loads!Next
    BY <2>1, <2>4, TakeIdleOneRefines DEF Loads!Next
  <2>5. ASSUME NEW t \in Ts, ReturnOne(t) PROVE Loads!Next
    BY <2>1, <2>5, ReturnOneRefines DEF Loads!Next
  <2>6. ASSUME UNCHANGED vars PROVE UNCHANGED (Loads!vars)
    BY <2>6 DEF vars, Loads!vars
  <2>7. QED BY <2>1, <2>2, <2>3, <2>4, <2>5, <2>6 DEF Next
<1>3. QED BY <1>1, <1>2, SpecInductive, PTL DEF Spec, LoadsSpec, Loads!Spec
=============================================================================
