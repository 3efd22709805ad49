-------------------------- MODULE TaskPoolProofs --------------------------
(***************************************************************************)
(* The dispatcher, for any number of functions, resources, Ts and requests *)
(* in flight: a T is in one list at most, and the dispatcher with its      *)
(* lists, mutexes and scans implements the environment that TThread        *)
(* assumes, so that all that is proved of TThread holds of it.  A T leaves *)
(* the reach of the scans only when its function loses its entry in a list *)
(* to one of the same name.  If no two functions of one resource have the  *)
(* same name, there are never more Ts than requests in flight.             *)
(***************************************************************************)
EXTENDS TaskPool, TSortListProofs, FiniteSetTheorems

-----------------------------------------------------------------------------
(* The proofs about TThread, with the lists for its home and load.  TTP    *)
(* instantiates the proofs as TT does the module itself; tlapm keeps the   *)
(* definitions of two instances apart, so the lemmas of this section say   *)
(* that they are the same.                                                 *)

TTP == INSTANCE TThreadProofs WITH home <- [t \in Ts |-> HomeOf(t)],
                                   load <- [t \in Ts |-> LoadOf(t)]

\* The dispatcher's constants are as TThread assumes.
LEMMA ThreadAssumption == TTP!TThreadAssumption
<1>1. TTP!IsFiniteSet(Reqs)
  BY TaskPoolAssumption DEF TTP!IsFiniteSet, IsFiniteSet
<1>2. QED BY <1>1, TaskPoolAssumption DEF TTP!TThreadAssumption

\* Both instances count alike.
LEMMA SameCardinality ==
  ASSUME NEW S
  PROVE  TT!Cardinality(S) = Cardinality(S) /\ TTP!Cardinality(S) = Cardinality(S)
  BY DEF TT!Cardinality, TTP!Cardinality, Cardinality

\* Both instances choose the same workers.
LEMMA SameWorkers ==
  /\ \A t, f : TT!NewSize(t, f) = TTP!NewSize(t, f)
  /\ \A t, f : TT!Adjusts(t, f) <=> TTP!Adjusts(t, f)
  /\ \A t, f : TT!Kept(t, f) = TTP!Kept(t, f)
  /\ \A t, S, n : TT!Candidates(t, S, n) = TTP!Candidates(t, S, n)
<1>1. \A t, f : /\ TT!NewSize(t, f) = TTP!NewSize(t, f)
                /\ TT!Adjusts(t, f) <=> TTP!Adjusts(t, f)
  BY DEF TT!NewSize, TTP!NewSize, TT!Adjusts, TTP!Adjusts
<1>2. \A a, b : TT!LowerOf(a, b) = TTP!LowerOf(a, b)
  BY DEF TT!LowerOf, TTP!LowerOf
<1>3. \A t, f : TT!Kept(t, f) = TTP!Kept(t, f)
  BY <1>1, <1>2, SameCardinality DEF TT!Kept, TTP!Kept
<1>4. \A t, S, n : TT!Candidates(t, S, n) = TTP!Candidates(t, S, n)
  BY SameCardinality DEF TT!Candidates, TTP!Candidates
<1>5. QED BY <1>1, <1>3, <1>4

\* Both instances have the same variables.
LEMMA SameVars ==
  /\ TT!queues = TTP!queues /\ TT!thread = TTP!thread /\ TT!pool = TTP!pool
  /\ TT!done = TTP!done /\ TT!lists = TTP!lists /\ TT!reqs = TTP!reqs
  /\ TT!queues' = TTP!queues' /\ TT!thread' = TTP!thread' /\ TT!pool' = TTP!pool'
  /\ TT!done' = TTP!done' /\ TT!lists' = TTP!lists' /\ TT!reqs' = TTP!reqs'
  /\ TT!vars = TTP!vars /\ TT!vars' = TTP!vars'
  BY DEF TT!queues, TTP!queues, TT!thread, TTP!thread, TT!pool, TTP!pool, TT!done,
         TTP!done, TT!lists, TTP!lists, TT!reqs, TTP!reqs, TT!vars, TTP!vars

\* A request is handled alike.
LEMMA SamePopEntry ==
  ASSUME NEW t, TT!PopEntry(t)
  PROVE  TTP!PopEntry(t)
<1> DEFINE i == Head(iq[t])
           f == reqF[i]
<1>1. TT!Fault(t, f) = TTP!Fault(t, f)
  BY SameWorkers, SameCardinality DEF TT!Fault, TTP!Fault, TT!Accepts, TTP!Accepts
<1>2. CASE TT!Fault(t, f) # "no" /\ TT!Abort(TT!Fault(t, f))
  BY <1>1, <1>2, SameVars
     DEF TT!PopEntry, TTP!PopEntry, TT!Running, TTP!Running, TT!Abort, TTP!Abort
<1>3. CASE /\ TT!Fault(t, f) = "no"
           /\ TT!Switch(t, f)
           /\ TT!StartNative(t, i) \/ TT!StartWasm(t, i)
           /\ UNCHANGED <<pending, doneQ, TT!lists, reqF, on, sent, aborted>>
  <2>1. TTP!Switch(t, f)
    BY <1>3, SameWorkers DEF TT!Switch, TTP!Switch
  <2>2. TT!StartNative(t, i) => TTP!StartNative(t, i)
    BY SameWorkers DEF TT!StartNative, TTP!StartNative
  <2>3. TT!StartWasm(t, i) => TTP!StartWasm(t, i)
    BY SameWorkers DEF TT!StartWasm, TTP!StartWasm
  <2>4. QED BY <1>1, <1>3, <2>1, <2>2, <2>3, SameVars
            DEF TT!PopEntry, TTP!PopEntry, TT!Running, TTP!Running
<1>4. QED BY <1>2, <1>3 DEF TT!PopEntry

\* Every step of the one instance is a step of the other.
LEMMA SameNext == TT!Next => TTP!Next
<1> SUFFICES ASSUME TT!Next PROVE TTP!Next
  OBVIOUS
<1>1. ASSUME NEW i \in Reqs, NEW f \in Fs, NEW t \in Ts, TT!TakeOne(i, f, t)
      PROVE  TTP!TakeOne(i, f, t)
  BY <1>1, SameVars DEF TT!TakeOne, TTP!TakeOne, TT!Running, TTP!Running,
     TT!HasRoom, TTP!HasRoom, TT!Assign, TTP!Assign
<1>2. ASSUME NEW t \in Ts, TT!TakeIdle(t) PROVE TTP!TakeIdle(t)
  BY <1>2, SameVars DEF TT!TakeIdle, TTP!TakeIdle, TT!Running, TTP!Running,
     TT!Stealable, TTP!Stealable
<1>3. ASSUME NEW i \in Reqs, NEW f \in Fs, NEW t \in Ts, TT!NewOne(i, f, t)
      PROVE  TTP!NewOne(i, f, t)
  BY <1>3, SameVars DEF TT!NewOne, TTP!NewOne, TT!Running, TTP!Running,
     TT!Assign, TTP!Assign
<1>4. ASSUME NEW i \in Reqs, TT!Push(i) PROVE TTP!Push(i)
  BY <1>4, SameVars DEF TT!Push, TTP!Push, TT!Running, TTP!Running
<1>5. ASSUME NEW t \in Ts, TT!TStep(t) PROVE TTP!TStep(t)
  <2>1. TT!Poll(t) => TTP!Poll(t)
    BY SameVars DEF TT!Poll, TTP!Poll, TT!Running, TTP!Running, TT!Ready, TTP!Ready
  <2>2. TT!EndHandler(t) => TTP!EndHandler(t)
    BY SameVars DEF TT!EndHandler, TTP!EndHandler, TT!Running, TTP!Running
  <2>3. TT!FinishNative(t) => TTP!FinishNative(t)
    BY SameVars DEF TT!FinishNative, TTP!FinishNative, TT!Running, TTP!Running,
       TT!Respond, TTP!Respond
  <2>4. TT!PopDone(t) => TTP!PopDone(t)
    BY SameVars DEF TT!PopDone, TTP!PopDone, TT!Running, TTP!Running,
       TT!Respond, TTP!Respond, TT!Abort, TTP!Abort
  <2>5. TT!DoChangeICount(t) => TTP!DoChangeICount(t)
    BY SameVars DEF TT!DoChangeICount, TTP!DoChangeICount, TT!Running, TTP!Running,
       TT!Returns, TTP!Returns, TT!LeaveT, TTP!LeaveT, TT!Abort, TTP!Abort
  <2>6. QED BY <1>5, <2>1, <2>2, <2>3, <2>4, <2>5, SamePopEntry DEF TT!TStep, TTP!TStep
<1>6. ASSUME NEW t \in Ts, NEW w \in Workers, TT!WorkerDone(t, w)
      PROVE  TTP!WorkerDone(t, w)
  BY <1>6, SameVars DEF TT!WorkerDone, TTP!WorkerDone, TT!Running, TTP!Running
<1>7. QED BY <1>1, <1>2, <1>3, <1>4, <1>5, <1>6 DEF TT!Next, TTP!Next

\* The invariant of TThread holds initially and is kept by its steps.
LEMMA ThreadInvariant ==
  /\ TT!Init => TTP!IInv
  /\ TTP!IInv /\ [TT!Next]_(TT!vars) => TTP!IInv'
<1>1. TT!Init => TTP!Init
  BY DEF TT!Init, TTP!Init
<1>2. TTP!Init => TTP!IInv
  BY ThreadAssumption, TTP!InitInv
<1>3. TTP!IInv /\ TTP!Next => TTP!IInv'
  BY ThreadAssumption, TTP!NextInv
<1>4. TTP!IInv /\ UNCHANGED TTP!vars => TTP!IInv'
  BY ThreadAssumption, TTP!StutterInv
<1>5. QED BY <1>1, <1>2, <1>3, <1>4, SameNext, SameVars

-----------------------------------------------------------------------------
(* The LRU lists and their copies.                                         *)

\* Removing an entry of some keys keeps all entries of other keys.
LEMMA WithoutFacts ==
  ASSUME NEW S, NEW l \in Seq(S), NEW keys
  PROVE  /\ Without(l, keys) \in Seq(S)
         /\ Range(Without(l, keys)) \subseteq Range(l)
         /\ Range(l) \ keys \subseteq Range(Without(l, keys))
<1> DEFINE at == {k \in DOMAIN l : l[k] \in keys}
           p == CHOOSE k \in at : TRUE
           r == RemoveAt(l, p)
<1>1. DOMAIN l = 1..Len(l) /\ Len(l) \in Nat
  BY LenProperties
<1>2. CASE at = {}
  BY <1>2 DEF Without
<1>3. CASE at # {}
  <2>1. p \in 1..Len(l) /\ l[p] \in keys
    BY <1>1, <1>3
  <2>2. Without(l, keys) = r
    BY <1>3 DEF Without
  <2> HIDE DEF p, r
  <2>3. /\ r \in Seq(S) /\ Len(r) = Len(l) - 1
        /\ \A k \in 1..(p - 1) : r[k] = l[k]
        /\ \A k \in p..(Len(l) - 1) : r[k] = l[k + 1]
    BY <2>1, RemoveFacts DEF r
  <2>4. DOMAIN r = 1..(Len(l) - 1)
    BY <2>3, LenProperties
  <2>5. \A k \in DOMAIN r : r[k] \in Range(l)
    <3>1. TAKE k \in DOMAIN r
    <3>2. k \in 1..(p - 1) \/ k \in p..(Len(l) - 1)
      BY <1>1, <2>1, <2>4
    <3>3. k \in DOMAIN l /\ k + 1 \in DOMAIN l
      BY <1>1, <2>4
    <3>4. QED BY <2>3, <3>2, <3>3 DEF Range
  <2>6. ASSUME NEW k \in DOMAIN l, l[k] \notin keys PROVE l[k] \in Range(r)
    <3>1. k \in 1..(p - 1) \/ k - 1 \in p..(Len(l) - 1)
      BY <1>1, <2>1, <2>6
    <3>2. CASE k \in 1..(p - 1)
      <4>1. k \in DOMAIN r /\ r[k] = l[k]
        BY <1>1, <2>1, <2>3, <2>4, <3>2
      <4>2. QED BY <4>1 DEF Range
    <3>3. CASE k - 1 \in p..(Len(l) - 1)
      <4>1. k - 1 \in DOMAIN r /\ (k - 1) + 1 = k
        BY <1>1, <2>1, <2>4, <3>3
      <4>2. r[k - 1] = l[k]
        BY <2>3, <3>3, <4>1
      <4>3. QED BY <4>1, <4>2 DEF Range
    <3>4. QED BY <3>1, <3>2, <3>3
  <2>7. QED BY <2>2, <2>3, <2>5, <2>6 DEF Range
<1>4. QED BY <1>2, <1>3

\* LRU::access keeps all other keys, and x is in the list afterwards.
LEMMA AccessFacts ==
  ASSUME NEW S, NEW l \in Seq(S), NEW x \in S, NEW keys
  PROVE  /\ Access(l, x, keys) \in Seq(S)
         /\ x \in Range(Access(l, x, keys))
         /\ Range(Access(l, x, keys)) \subseteq Range(l) \cup {x}
         /\ Range(l) \ keys \subseteq Range(Access(l, x, keys))
<1> DEFINE w == Without(l, keys)
           a == Append(w, x)
<1>1. /\ w \in Seq(S) /\ Range(w) \subseteq Range(l) /\ Range(l) \ keys \subseteq Range(w)
  BY WithoutFacts
<1> HIDE DEF w
<1>2. /\ a \in Seq(S) /\ Len(a) = Len(w) + 1 /\ a[Len(w) + 1] = x
      /\ \A k \in 1..Len(w) : a[k] = w[k]
  BY <1>1, AppendProperties
<1>3. Len(w) \in Nat /\ DOMAIN w = 1..Len(w) /\ DOMAIN a = 1..(Len(w) + 1)
  BY <1>1, <1>2, LenProperties
<1> HIDE DEF a
<1>4. Range(a) \subseteq Range(w) \cup {x} /\ Range(w) \cup {x} \subseteq Range(a)
  <2>1. Len(w) + 1 \in DOMAIN a /\ \A k \in DOMAIN w : k \in DOMAIN a /\ a[k] = w[k]
    BY <1>2, <1>3
  <2>2. \A k \in DOMAIN a : k \in DOMAIN w \/ k = Len(w) + 1
    BY <1>3
  <2>3. QED BY <1>2, <2>1, <2>2 DEF Range
<1>5. QED BY <1>1, <1>2, <1>4 DEF Access, a, w

\* A loop over a copy of a list: the first entry, then the others.
LEMMA HeadTailRange ==
  ASSUME NEW S, NEW l \in Seq(S), l # << >>
  PROVE  /\ Head(l) \in S /\ Tail(l) \in Seq(S)
         /\ Range(l) = {Head(l)} \cup Range(Tail(l))
<1>1. /\ Head(l) \in S /\ Tail(l) \in Seq(S) /\ Len(Tail(l)) = Len(l) - 1
      /\ \A k \in 1..Len(Tail(l)) : Tail(l)[k] = l[k + 1]
  BY HeadTailProperties
<1>2. Len(l) \in Nat \ {0} /\ DOMAIN l = 1..Len(l) /\ DOMAIN Tail(l) = 1..(Len(l) - 1)
  BY <1>1, LenProperties, EmptySeq
<1>3. Head(l) = l[1]
  OBVIOUS
<1>4. \A k \in DOMAIN l : k = 1 \/ (k - 1 \in DOMAIN Tail(l) /\ Tail(l)[k - 1] = l[k])
  <2>1. TAKE k \in DOMAIN l
  <2>2. k # 1 => k - 1 \in 1..Len(Tail(l)) /\ (k - 1) + 1 = k
    BY <1>1, <1>2
  <2>3. QED BY <1>1, <1>2, <2>2
<1>5. \A k \in DOMAIN Tail(l) : k + 1 \in DOMAIN l /\ Tail(l)[k] = l[k + 1]
  BY <1>1, <1>2
<1>6. Range(l) \subseteq {Head(l)} \cup Range(Tail(l))
  BY <1>3, <1>4 DEF Range
<1>7. {Head(l)} \cup Range(Tail(l)) \subseteq Range(l)
  <2>1. 1 \in DOMAIN l
    BY <1>2
  <2>2. QED BY <1>3, <1>5, <2>1 DEF Range
<1>8. QED BY <1>1, <1>6, <1>7

-----------------------------------------------------------------------------
(* The invariant of the dispatcher.                                        *)

\* A dispatch at one of these places holds the pool's mutex.
Held == {"sameR", "probeSame", "probeOther", "newT"}

OwnType ==
  /\ rList \in Seq(Rs) /\ fList \in [Rs -> Seq(Fs)]
  /\ tlist = [f \in Fs |-> tlist[f]]
  /\ holder \in Reqs \cup {NoReq}
  /\ dpc \in [Reqs -> Held \cup {"none", "accessF", "lock", "push"}]
  /\ want \in [Reqs -> Fs \cup {NoF}]
  /\ scanF \in Seq(Fs) /\ scanR \in Seq(Rs)
  /\ hand \in Ts \cup {NoT} /\ created \subseteq Ts

\* The lists are good and disjoint; a T in hand exists and is in none.
ListInv ==
  /\ \A f \in Fs : /\ Good(tlist[f], Conc[f])
                   /\ Members(tlist[f]) \subseteq created \ {hand}
  /\ \A f, g \in Fs : f # g => Members(tlist[f]) \cap Members(tlist[g]) = {}
  /\ hand # NoT => hand \in created

\* One dispatch holds the mutex, it alone may have a T in hand, and it has not
\* placed its request yet.
DispatchInv ==
  /\ \A i \in Reqs : dpc[i] \in Held <=> holder = i
  /\ hand # NoT <=> \E i \in Reqs : dpc[i] = "newT"
  /\ \A i \in Reqs : dpc[i] = "none" <=> want[i] = NoF
  /\ \A i \in Reqs : dpc[i] \notin {"none", "push"} => stage[i] = "free"

Own == OwnType /\ ListInv /\ DispatchInv

\* The concurrency of a function suits the lemmas about its list.
LEMMA ConcFacts ==
  \A f \in Fs : Conc[f] \in Nat \ {0} /\ Conc[f] \in Nat /\ ResOf[f] \in Rs
  BY TaskPoolAssumption

\* Initially every list is empty.
LEMMA InitOwn == Init => Own
<1> SUFFICES ASSUME Init PROVE Own
  OBVIOUS
<1> USE DEF Init
<1>1. \A f \in Fs : Good(tlist[f], Conc[f]) /\ Members(tlist[f]) = {}
  <2>1. TAKE f \in Fs
  <2>2. tlist[f] = EmptyList
    OBVIOUS
  <2>3. QED BY <2>2, ConcFacts, EmptyGood
<1>2. OwnType
  BY EmptySeq DEF OwnType
<1>3. ListInv
  BY <1>1 DEF ListInv
<1>4. DispatchInv
  BY TaskPoolAssumption DEF DispatchInv, Held
<1>5. QED BY <1>2, <1>3, <1>4 DEF Own

\* A step that leaves the lists, the hand and the Ts alone.
LEMMA ListsKept ==
  ASSUME ListInv, UNCHANGED <<tlist, hand, created>>
  PROVE  ListInv'
  BY DEF ListInv

\* A step on one list: the others stay, and so do the lists of other Ts.
LEMMA OneListChanges ==
  ASSUME OwnType, NEW f \in Fs, NEW M, tlist' = [tlist EXCEPT ![f] = M]
  PROVE  /\ tlist' = [g \in Fs |-> tlist'[g]]
         /\ tlist'[f] = M
         /\ \A g \in Fs : g # f => tlist'[g] = tlist[g]
  BY DEF OwnType

\* A list that keeps its Ts, whatever happens to their loads.
LEMMA LoadsChange ==
  ASSUME Own, NEW f \in Fs, NEW M, tlist' = [tlist EXCEPT ![f] = M],
         Good(M, Conc[f]), Members(M) = Members(tlist[f]), UNCHANGED <<hand, created>>
  PROVE  ListInv' /\ tlist' = [g \in Fs |-> tlist'[g]]
<1>1. /\ tlist' = [g \in Fs |-> tlist'[g]] /\ tlist'[f] = M
      /\ \A g \in Fs : g # f => tlist'[g] = tlist[g]
  BY OneListChanges DEF Own
<1>2. \A g \in Fs : Good(tlist'[g], Conc[g]) /\ Members(tlist'[g]) = Members(tlist[g])
  BY <1>1 DEF Own, ListInv
<1>3. QED BY <1>1, <1>2 DEF Own, ListInv

\* A T is in at most one list, which is its home in TThread, with its load.
LEMMA HomeFacts ==
  ListInv => \A t \in Ts :
    /\ \A f \in Fs : t \in Members(tlist[f]) => /\ Owners(t) = {f} /\ HomeOf(t) = f
                                                /\ LoadOf(t) = LoadIn(tlist[f], t)
    /\ (\A f \in Fs : t \notin Members(tlist[f])) =>
         Owners(t) = {} /\ HomeOf(t) = NoF /\ LoadOf(t) = 0
<1> SUFFICES ASSUME ListInv, NEW t \in Ts
             PROVE  /\ \A f \in Fs : t \in Members(tlist[f]) =>
                         /\ Owners(t) = {f} /\ HomeOf(t) = f
                         /\ LoadOf(t) = LoadIn(tlist[f], t)
                    /\ (\A f \in Fs : t \notin Members(tlist[f])) =>
                         Owners(t) = {} /\ HomeOf(t) = NoF /\ LoadOf(t) = 0
  OBVIOUS
<1>1. ASSUME NEW f \in Fs, t \in Members(tlist[f])
      PROVE  Owners(t) = {f} /\ HomeOf(t) = f /\ LoadOf(t) = LoadIn(tlist[f], t)
  <2>1. Owners(t) = {f}
    BY <1>1 DEF Owners, ListInv
  <2>2. HomeOf(t) = f
    BY <2>1 DEF HomeOf
  <2>3. QED BY <2>1, <2>2 DEF LoadOf
<1>2. ASSUME \A f \in Fs : t \notin Members(tlist[f])
      PROVE  Owners(t) = {} /\ HomeOf(t) = NoF /\ LoadOf(t) = 0
  BY <1>2 DEF Owners, HomeOf, LoadOf
<1>3. QED BY <1>1, <1>2

\* The same of the state after a step.
LEMMA HomeFactsNext ==
  ListInv' => \A t \in Ts :
    /\ \A f \in Fs : t \in Members(tlist'[f]) => /\ HomeOf(t)' = f
                                                 /\ LoadOf(t)' = LoadIn(tlist'[f], t)
    /\ (\A f \in Fs : t \notin Members(tlist'[f])) => HomeOf(t)' = NoF /\ LoadOf(t)' = 0
<1>1. (ListInv => \A t \in Ts :
         /\ \A f \in Fs : t \in Members(tlist[f]) => /\ Owners(t) = {f} /\ HomeOf(t) = f
                                                     /\ LoadOf(t) = LoadIn(tlist[f], t)
         /\ (\A f \in Fs : t \notin Members(tlist[f])) =>
              Owners(t) = {} /\ HomeOf(t) = NoF /\ LoadOf(t) = 0)'
  BY HomeFacts, PTL
<1>2. QED BY <1>1

\* A step that leaves the lists and the threads alone is no step of TThread.
LEMMA ThreadStutters ==
  ASSUME UNCHANGED <<tlist, threads, reqs, aborted>>
  PROVE  UNCHANGED TT!vars
  BY DEF threads, reqs, HomeOf, LoadOf, Owners, TT!vars, TT!queues, TT!thread, TT!pool,
         TT!done, TT!lists, TT!reqs

-----------------------------------------------------------------------------
(* The steps of a dispatch that leave the lists of Ts alone.               *)

\* R_list.access.
LEMMA AccessROwn ==
  ASSUME Own, NEW i \in Reqs, NEW f \in Fs, AccessR(i, f)
  PROVE  Own' /\ UNCHANGED TT!vars
<1>1. rList' \in Seq(Rs)
  BY ConcFacts, AccessFacts DEF Own, OwnType, AccessR
<1>2. OwnType'
  BY <1>1 DEF Own, OwnType, AccessR
<1>3. ListInv'
  BY ListsKept DEF Own, AccessR
<1>4. DispatchInv'
  BY TaskPoolAssumption DEF Own, OwnType, DispatchInv, Held, AccessR, reqs
<1>5. UNCHANGED TT!vars
  BY ThreadStutters DEF AccessR
<1>6. QED BY <1>2, <1>3, <1>4, <1>5 DEF Own

\* A dispatch that is under way has a function.
LEMMA WantFacts ==
  ASSUME Own, NEW i \in Reqs, dpc[i] # "none"
  PROVE  want[i] \in Fs /\ ResOf[want[i]] \in Rs
  BY ConcFacts DEF Own, OwnType, DispatchInv

\* r->getFList().access.
LEMMA AccessFOwn ==
  ASSUME Own, NEW i \in Reqs, AccessF(i)
  PROVE  Own' /\ UNCHANGED TT!vars
<1> DEFINE f == want[i]
           K == SameKey(f)
<1>1. f \in Fs /\ ResOf[f] \in Rs
  BY WantFacts DEF AccessF
<1>2. fList[ResOf[f]] \in Seq(Fs) /\ fList \in [Rs -> Seq(Fs)]
  BY <1>1 DEF Own, OwnType
<1>3. fList' = [fList EXCEPT ![ResOf[f]] = Access(@, f, K)]
  BY DEF AccessF
<1> HIDE DEF K
<1>4. fList' \in [Rs -> Seq(Fs)]
  BY <1>1, <1>2, <1>3, AccessFacts
<1>5. OwnType'
  BY <1>4 DEF Own, OwnType, AccessF
<1>6. ListInv'
  BY ListsKept DEF Own, AccessF
<1>7. DispatchInv'
  BY TaskPoolAssumption DEF Own, OwnType, DispatchInv, Held, AccessF, reqs
<1>8. UNCHANGED TT!vars
  BY ThreadStutters DEF AccessF
<1>9. QED BY <1>5, <1>6, <1>7, <1>8 DEF Own

\* The copies the scans work on.
LEMMA SnapshotOwn ==
  ASSUME Own, NEW i \in Reqs, SnapshotSameR(i) \/ SnapshotRs(i) \/ SnapshotOtherR(i)
  PROVE  Own' /\ UNCHANGED TT!vars
<1>1. want[i] \in Fs /\ ResOf[want[i]] \in Rs
  BY WantFacts DEF SnapshotSameR, SnapshotRs, SnapshotOtherR
<1>2. scanF' \in Seq(Fs) /\ scanR' \in Seq(Rs)
  <2>1. CASE SnapshotSameR(i)
    BY <1>1, <2>1, WithoutFacts DEF Own, OwnType, SnapshotSameR
  <2>2. CASE SnapshotRs(i)
    BY <1>1, <2>2, WithoutFacts DEF Own, OwnType, SnapshotRs
  <2>3. CASE SnapshotOtherR(i)
    <3>1. Head(scanR) \in Rs /\ Tail(scanR) \in Seq(Rs)
      BY <2>3, HeadTailRange DEF Own, OwnType, SnapshotOtherR
    <3>2. QED BY <2>3, <3>1 DEF Own, OwnType, SnapshotOtherR
  <2>4. QED BY <2>1, <2>2, <2>3
<1>3. OwnType'
  BY <1>2 DEF Own, OwnType, Held, SnapshotSameR, SnapshotRs, SnapshotOtherR
<1>4. ListInv'
  BY ListsKept DEF Own, SnapshotSameR, SnapshotRs, SnapshotOtherR
<1>5. DispatchInv'
  <2>1. CASE SnapshotSameR(i)
    BY <2>1 DEF Own, OwnType, DispatchInv, Held, SnapshotSameR, reqs
  <2>2. CASE SnapshotRs(i)
    BY <2>2 DEF Own, OwnType, DispatchInv, Held, SnapshotRs, reqs
  <2>3. CASE SnapshotOtherR(i)
    BY <2>3 DEF Own, OwnType, DispatchInv, Held, SnapshotOtherR, reqs
  <2>4. QED BY <2>1, <2>2, <2>3
<1>6. UNCHANGED TT!vars
  BY ThreadStutters DEF SnapshotSameR, SnapshotRs, SnapshotOtherR
<1>7. QED BY <1>3, <1>4, <1>5, <1>6 DEF Own

\* newT: a T that did not exist.
LEMMA CreateTOwn ==
  ASSUME Own, NEW i \in Reqs, CreateT(i)
  PROVE  Own' /\ UNCHANGED TT!vars
<1>1. PICK t \in Ts \ created : hand' = t /\ created' = created \cup {t}
  BY DEF CreateT
<1>2. OwnType'
  BY <1>1 DEF Own, OwnType, Held, CreateT
<1>3. hand = NoT
  BY DEF Own, OwnType, DispatchInv, Held, CreateT
<1>4. ListInv'
  <2>1. UNCHANGED tlist
    BY DEF CreateT
  <2>2. \A f \in Fs : Members(tlist[f]) \subseteq created' \ {hand'}
    BY <1>1 DEF Own, ListInv
  <2>3. QED BY <1>1, <2>1, <2>2 DEF Own, ListInv
<1>5. DispatchInv'
  <2>1. hand' # NoT
    BY <1>1, TaskPoolAssumption
  <2>2. QED BY <2>1 DEF Own, OwnType, DispatchInv, Held, CreateT, reqs
<1>6. UNCHANGED TT!vars
  BY ThreadStutters DEF CreateT
<1>7. QED BY <1>2, <1>4, <1>5, <1>6 DEF Own

-----------------------------------------------------------------------------
(* The steps that take a T from a list, put one in, or change a load.      *)

\* A step that changes the load of t, which stays where it is, is one on the
\* loads of TThread.
LEMMA LoadMoves ==
  ASSUME ListInv, ListInv', NEW f \in Fs, NEW t \in Members(tlist[f]), NEW n,
         Members(tlist'[f]) = Members(tlist[f]), LoadIn(tlist'[f], t) = n,
         \A u \in Members(tlist[f]) : u # t => LoadIn(tlist'[f], u) = LoadIn(tlist[f], u),
         \A g \in Fs : g # f => tlist'[g] = tlist[g]
  PROVE  /\ t \in Ts /\ HomeOf(t) = f /\ LoadOf(t) = LoadIn(tlist[f], t)
         /\ [u \in Ts |-> HomeOf(u)]' = [u \in Ts |-> HomeOf(u)]
         /\ [u \in Ts |-> LoadOf(u)]' = [[u \in Ts |-> LoadOf(u)] EXCEPT ![t] = n]
<1>1. t \in Ts
  BY ConcFacts, GoodSound DEF ListInv
<1>2. \A g \in Fs : Members(tlist'[g]) = Members(tlist[g])
  OBVIOUS
<1>3. HomeOf(t) = f /\ LoadOf(t) = LoadIn(tlist[f], t) /\ LoadOf(t)' = n
  BY <1>1, <1>2, HomeFacts, HomeFactsNext
<1>4. ASSUME NEW u \in Ts
      PROVE  HomeOf(u)' = HomeOf(u) /\ (u # t => LoadOf(u)' = LoadOf(u))
  <2>1. CASE \E g \in Fs : u \in Members(tlist[g])
    <3>1. PICK g \in Fs : u \in Members(tlist[g])
      BY <2>1
    <3>2. /\ HomeOf(u) = g /\ LoadOf(u) = LoadIn(tlist[g], u)
          /\ HomeOf(u)' = g /\ LoadOf(u)' = LoadIn(tlist'[g], u)
      BY <1>2, <3>1, HomeFacts, HomeFactsNext
    <3>3. u # t => LoadIn(tlist'[g], u) = LoadIn(tlist[g], u)
      BY <3>1
    <3>4. QED BY <3>2, <3>3
  <2>2. CASE \A g \in Fs : u \notin Members(tlist[g])
    BY <1>2, <2>2, HomeFacts, HomeFactsNext
  <2>3. QED BY <2>1, <2>2
<1>5. QED BY <1>1, <1>3, <1>4

\* f->getT: TThread's TakeOne, or nothing.
LEMMA GetTOwn ==
  ASSUME Own, NEW i \in Reqs, GetT(i)
  PROVE  /\ Own' /\ [TT!Next]_(TT!vars)
         /\ \A g \in Fs : Members(tlist'[g]) = Members(tlist[g])
<1> DEFINE f == want[i]
           t == tlist[f].nextT
           M == AfterTakeOne(tlist[f], Conc[f])
<1>1. f \in Fs
  BY WantFacts DEF GetT
<1>2. Conc[f] \in Nat /\ NoT \notin Ts /\ Good(tlist[f], Conc[f])
  BY <1>1, ConcFacts, TaskPoolAssumption DEF Own, ListInv
<1>3. CASE CanTakeOne(tlist[f])
  <2>1. /\ TT!Assign(i, f, t) /\ tlist' = [tlist EXCEPT ![f] = M] /\ UNCHANGED holder
        /\ dpc' = [dpc EXCEPT ![i] = "push"]
    BY <1>3 DEF GetT
  <2>2. /\ Good(M, Conc[f]) /\ Members(M) = Members(tlist[f])
        /\ LoadIn(M, t) = LoadIn(tlist[f], t) + 1
        /\ \A u \in Members(tlist[f]) : u # t => LoadIn(M, u) = LoadIn(tlist[f], u)
        /\ t \in Members(tlist[f]) /\ LoadIn(tlist[f], t) + 1 \in 0..Conc[f]
        /\ LoadIn(tlist[f], t) \in 0..Conc[f]
    <3>1. t \in Members(tlist[f]) /\ LoadIn(tlist[f], t) + 1 \in 0..Conc[f]
      BY <1>2, <1>3, TakeChoice
    <3>2. LoadIn(tlist[f], t) \in 0..Conc[f]
      BY <1>2, <3>1, GoodSound
    <3>3. QED BY <1>2, <1>3, <3>1, <3>2, TakeOneFacts
  <2> HIDE DEF M, f, t
  <2>3. ListInv' /\ tlist' = [g \in Fs |-> tlist'[g]]
    BY <1>1, <2>1, <2>2, LoadsChange DEF GetT
  <2>4. OwnType'
    BY <2>1, <2>3 DEF Own, OwnType, GetT
  <2>5. DispatchInv'
    BY <2>1 DEF Own, OwnType, DispatchInv, Held, GetT, TT!Assign
  <2>6. tlist'[f] = M /\ \A g \in Fs : g # f => tlist'[g] = tlist[g]
    BY <1>1, <2>1, OneListChanges DEF Own
  <2>7. /\ t \in Ts /\ HomeOf(t) = f /\ LoadOf(t) = LoadIn(tlist[f], t)
        /\ [u \in Ts |-> HomeOf(u)]' = [u \in Ts |-> HomeOf(u)]
        /\ [u \in Ts |-> LoadOf(u)]' =
             [[u \in Ts |-> LoadOf(u)] EXCEPT ![t] = LoadIn(tlist[f], t) + 1]
    BY <1>1, <2>2, <2>3, <2>6, LoadMoves DEF Own
  <2>8. TT!TakeOne(i, f, t)
    <3>1. TT!HasRoom(f, t)
      BY <1>2, <2>2, <2>7 DEF TT!HasRoom
    <3>2. UNCHANGED <<TT!queues, TT!thread, TT!pool, TT!done, aborted>> /\ TT!Running
      BY DEF GetT, threads, TT!queues, TT!thread, TT!pool, TT!done
    <3>3. QED BY <2>1, <2>7, <3>1, <3>2 DEF TT!TakeOne
  <2>9. QED BY <1>1, <2>2, <2>3, <2>4, <2>5, <2>6, <2>7, <2>8 DEF Own, TT!Next
<1>4. CASE ~CanTakeOne(tlist[f])
  <2>1. /\ UNCHANGED <<tlist, hand, created, want, stage>> /\ holder' = i
        /\ dpc' = [dpc EXCEPT ![i] = "sameR"] /\ dpc[i] = "lock" /\ holder = NoReq
    BY <1>4 DEF GetT, reqs
  <2>2. ListInv'
    BY <2>1, ListsKept DEF Own
  <2>3. OwnType'
    BY <2>1 DEF Own, OwnType, Held, GetT
  <2>4. DispatchInv'
    BY <2>1, TaskPoolAssumption DEF Own, OwnType, DispatchInv, Held
  <2>5. UNCHANGED TT!vars
    BY <1>4, ThreadStutters DEF GetT
  <2>6. QED BY <2>1, <2>2, <2>3, <2>4, <2>5 DEF Own
<1>5. QED BY <1>3, <1>4

\* f->getIdleT: TThread's TakeIdle, or nothing.
LEMMA ProbeOwn ==
  ASSUME Own, NEW i \in Reqs, Probe(i)
  PROVE  /\ Own' /\ [TT!Next]_(TT!vars)
         /\ \/ UNCHANGED <<tlist, hand>>
            \/ /\ dpc'[i] = "newT"
               /\ \A g \in Fs : Members(tlist'[g]) = Members(tlist[g]) \ {hand'}
<1> DEFINE f == Head(scanF)
           M == AfterTakeIdle(tlist[f])
<1>1. /\ f \in Fs /\ Tail(scanF) \in Seq(Fs)
      /\ dpc[i] \in {"probeSame", "probeOther"} /\ holder = i /\ hand = NoT
  BY HeadTailRange DEF Own, OwnType, DispatchInv, Held, Probe
<1>2. Conc[f] \in Nat \ {0} /\ NoT \notin Ts /\ Good(tlist[f], Conc[f])
  BY <1>1, ConcFacts, TaskPoolAssumption DEF Own, ListInv
<1>3. CASE CanTakeIdle(tlist[f])
  <2> PICK t : t = IdleOne(tlist[f])
    OBVIOUS
  <2>1. /\ hand' = t /\ tlist' = [tlist EXCEPT ![f] = M] /\ dpc' = [dpc EXCEPT ![i] = "newT"]
        /\ scanF' = << >> /\ scanR' = << >>
        /\ UNCHANGED <<rList, fList, holder, want, created, threads, reqs, aborted>>
        /\ TT!Running
    BY <1>3 DEF Probe
  <2>2. t \in Members(tlist[f]) /\ LoadIn(tlist[f], t) = 0
    BY <1>2, <1>3, IdleChoice
  <2>3. /\ Good(M, Conc[f]) /\ Members(M) = Members(tlist[f]) \ {t}
        /\ \A u \in Members(M) : LoadIn(M, u) = LoadIn(tlist[f], u)
    BY <1>2, <1>3, TakeIdleFacts
  <2> HIDE DEF M, f
  <2>4. /\ tlist' = [g \in Fs |-> tlist'[g]] /\ tlist'[f] = M
        /\ \A g \in Fs : g # f => tlist'[g] = tlist[g]
    BY <1>1, <2>1, OneListChanges DEF Own
  <2>5. /\ \A g \in Fs : /\ Good(tlist'[g], Conc[g])
                         /\ Members(tlist'[g]) = Members(tlist[g]) \ {t}
        /\ t \in Ts /\ t \in created /\ t # NoT
    <3>1. \A g \in Fs : g # f => t \notin Members(tlist[g])
      BY <1>1, <2>2 DEF Own, ListInv
    <3>2. t \in created
      BY <1>1, <2>2 DEF Own, ListInv
    <3>3. t \in Ts /\ t # NoT
      BY <1>2, <3>2 DEF Own, OwnType
    <3>4. \A g \in Fs : /\ Good(tlist'[g], Conc[g])
                        /\ Members(tlist'[g]) = Members(tlist[g]) \ {t}
      BY <2>3, <2>4, <3>1 DEF Own, ListInv
    <3>5. QED BY <3>2, <3>3, <3>4
  <2>6. ListInv'
    BY <1>1, <2>1, <2>5 DEF Own, ListInv
  <2>7. OwnType'
    BY <2>1, <2>4, <2>5, EmptySeq DEF Own, OwnType, Held
  <2>8. DispatchInv'
    BY <1>1, <2>1, <2>5 DEF Own, OwnType, DispatchInv, Held, reqs
  <2>9. TT!TakeIdle(t)
    <3>1. HomeOf(t) = f /\ LoadOf(t) = 0
      BY <1>1, <2>2, <2>5, HomeFacts DEF Own
    <3>2. HomeOf(t)' = NoF /\ LoadOf(t)' = 0
      <4>1. t \in Ts /\ \A g \in Fs : t \notin Members(tlist'[g])
        BY <2>5
      <4>2. QED BY <2>6, <4>1, HomeFactsNext
    <3>3. ASSUME NEW u \in Ts, u # t PROVE HomeOf(u)' = HomeOf(u) /\ LoadOf(u)' = LoadOf(u)
      <4>1. CASE \E g \in Fs : u \in Members(tlist[g])
        <5>1. PICK g \in Fs : u \in Members(tlist[g]) /\ u \in Members(tlist'[g])
          BY <2>5, <3>3, <4>1
        <5>2. /\ HomeOf(u) = g /\ LoadOf(u) = LoadIn(tlist[g], u)
              /\ HomeOf(u)' = g /\ LoadOf(u)' = LoadIn(tlist'[g], u)
          BY <2>6, <5>1, HomeFacts, HomeFactsNext DEF Own
        <5>3. LoadIn(tlist'[g], u) = LoadIn(tlist[g], u)
          BY <2>3, <2>4, <5>1
        <5>4. QED BY <5>2, <5>3
      <4>2. CASE \A g \in Fs : u \notin Members(tlist[g])
        <5>1. \A g \in Fs : u \notin Members(tlist'[g])
          BY <2>5, <4>2
        <5>2. QED BY <2>6, <4>2, <5>1, HomeFacts, HomeFactsNext DEF Own
      <4>3. QED BY <4>1, <4>2
    <3>4. /\ [u \in Ts |-> HomeOf(u)]' = [[u \in Ts |-> HomeOf(u)] EXCEPT ![t] = NoF]
          /\ [u \in Ts |-> LoadOf(u)]' = [u \in Ts |-> LoadOf(u)]
      BY <2>5, <3>1, <3>2, <3>3
    <3>5. TT!Stealable(t)
      BY <1>1, <2>5, <3>1, TaskPoolAssumption DEF TT!Stealable
    <3>6. UNCHANGED <<TT!queues, TT!thread, TT!pool, TT!done, TT!reqs, aborted>>
      BY <2>1 DEF threads, reqs, TT!queues, TT!thread, TT!pool, TT!done, TT!reqs
    <3>7. QED BY <2>1, <3>4, <3>5, <3>6 DEF TT!TakeIdle
  <2>10. dpc'[i] = "newT"
    BY <2>1 DEF Own, OwnType
  <2>11. QED BY <2>1, <2>5, <2>6, <2>7, <2>8, <2>9, <2>10 DEF Own, TT!Next
<1>4. CASE ~CanTakeIdle(tlist[f])
  <2>1. /\ scanF' = Tail(scanF)
        /\ UNCHANGED <<tlist, dpc, hand, scanR, rList, fList, holder, want, created,
                       threads, reqs, aborted>>
    BY <1>4 DEF Probe
  <2>2. ListInv' /\ OwnType'
    BY <1>1, <2>1, ListsKept DEF Own, OwnType
  <2>3. DispatchInv'
    BY <2>1 DEF Own, DispatchInv, reqs
  <2>4. UNCHANGED TT!vars
    BY <2>1, ThreadStutters
  <2>5. QED BY <2>1, <2>2, <2>3, <2>4 DEF Own
<1>5. QED BY <1>3, <1>4

\* f->newT: TThread's NewOne.
LEMMA NewTForFOwn ==
  ASSUME Own, NEW i \in Reqs, NewTForF(i)
  PROVE  /\ Own' /\ TT!Next
         /\ \A g \in Fs : Members(tlist'[g]) =
              IF g = want[i] THEN Members(tlist[g]) \cup {hand} ELSE Members(tlist[g])
<1> PICK t : t = hand
  OBVIOUS
<1> DEFINE f == want[i]
           M == AfterNewOne(tlist[f], Conc[f], t, TRUE)
<1>1. f \in Fs
  BY WantFacts DEF NewTForF
<1>2. /\ dpc[i] = "newT" /\ holder = i /\ t # NoT /\ t \in Ts /\ t \in created
      /\ TT!Assign(i, f, t) /\ tlist' = [tlist EXCEPT ![f] = M] /\ hand' = NoT
      /\ holder' = NoReq /\ dpc' = [dpc EXCEPT ![i] = "push"] /\ TT!Running
      /\ UNCHANGED <<rList, fList, want, scanF, scanR, created, threads, aborted>>
  BY DEF Own, OwnType, ListInv, DispatchInv, Held, NewTForF
<1>3. Conc[f] \in Nat \ {0} /\ NoT \notin Ts /\ Good(tlist[f], Conc[f])
  BY <1>1, ConcFacts, TaskPoolAssumption DEF Own, ListInv
<1>4. \A g \in Fs : t \notin Members(tlist[g])
  BY DEF Own, ListInv
<1>5. /\ Good(M, Conc[f]) /\ Members(M) = Members(tlist[f]) \cup {t} /\ LoadIn(M, t) = 1
      /\ \A u \in Members(tlist[f]) : LoadIn(M, u) = LoadIn(tlist[f], u)
  <2> DEFINE take == TRUE
             N == AfterNewOne(tlist[f], Conc[f], t, take)
  <2>1. t \in Ts \ Members(tlist[f]) /\ take \in BOOLEAN
    BY <1>1, <1>2, <1>4
  <2>2. take
    OBVIOUS
  <2> HIDE DEF f, take
  <2>3. /\ Good(N, Conc[f]) /\ Members(N) = Members(tlist[f]) \cup {t}
        /\ LoadIn(N, t) = IF take THEN 1 ELSE 0
        /\ \A u \in Members(tlist[f]) : LoadIn(N, u) = LoadIn(tlist[f], u)
    BY <1>3, <2>1, NewOneFacts
  <2>4. M = N
    BY DEF take
  <2>5. QED BY <2>2, <2>3, <2>4
<1> HIDE DEF M, f
<1>6. /\ tlist' = [g \in Fs |-> tlist'[g]] /\ tlist'[f] = M
      /\ \A g \in Fs : g # f => tlist'[g] = tlist[g]
  BY <1>1, <1>2, OneListChanges DEF Own
<1>7. \A g \in Fs : /\ Good(tlist'[g], Conc[g])
                    /\ Members(tlist'[g]) = IF g = f THEN Members(tlist[f]) \cup {t}
                                                     ELSE Members(tlist[g])
  BY <1>5, <1>6 DEF Own, ListInv
<1>8. ListInv'
  <2>1. \A g \in Fs : Members(tlist'[g]) \subseteq created' \ {hand'}
    <3>1. \A g \in Fs : Members(tlist[g]) \subseteq created \ {NoT}
      BY <1>3 DEF Own, OwnType, ListInv
    <3>2. QED BY <1>2, <1>7, <3>1
  <2>2. \A g, h \in Fs : g # h => Members(tlist'[g]) \cap Members(tlist'[h]) = {}
    BY <1>4, <1>7 DEF Own, ListInv
  <2>3. QED BY <1>2, <1>7, <2>1, <2>2 DEF ListInv
<1>9. OwnType'
  BY <1>2, <1>6 DEF Own, OwnType
<1>10. DispatchInv'
  <2>1. \A j \in Reqs : dpc'[j] # "newT" /\ (dpc'[j] \in Held <=> holder' = j)
    BY <1>2, TaskPoolAssumption DEF Own, OwnType, DispatchInv, Held
  <2>2. \A j \in Reqs : j # i => stage'[j] = stage[j] /\ dpc'[j] = dpc[j]
    BY <1>2 DEF TT!Assign, Own, OwnType
  <2>3. dpc'[i] = "push"
    BY <1>2 DEF Own, OwnType
  <2>4. QED BY <1>2, <2>1, <2>2, <2>3 DEF Own, DispatchInv
<1>11. TT!NewOne(i, f, t)
  <2>1. HomeOf(t) = NoF
    BY <1>2, <1>4, HomeFacts DEF Own
  <2>2. HomeOf(t)' = f /\ LoadOf(t)' = 1
    <3>1. t \in Members(tlist'[f]) /\ LoadIn(tlist'[f], t) = 1
      BY <1>5, <1>6
    <3>2. QED BY <1>1, <1>2, <1>8, <3>1, HomeFactsNext
  <2>3. ASSUME NEW u \in Ts, u # t PROVE HomeOf(u)' = HomeOf(u) /\ LoadOf(u)' = LoadOf(u)
    <3>1. CASE \E g \in Fs : u \in Members(tlist[g])
      <4>1. PICK g \in Fs : u \in Members(tlist[g]) /\ u \in Members(tlist'[g])
        BY <1>7, <2>3, <3>1
      <4>2. /\ HomeOf(u) = g /\ LoadOf(u) = LoadIn(tlist[g], u)
            /\ HomeOf(u)' = g /\ LoadOf(u)' = LoadIn(tlist'[g], u)
        BY <1>8, <4>1, HomeFacts, HomeFactsNext DEF Own
      <4>3. LoadIn(tlist'[g], u) = LoadIn(tlist[g], u)
        BY <1>5, <1>6, <4>1
      <4>4. QED BY <4>2, <4>3
    <3>2. CASE \A g \in Fs : u \notin Members(tlist[g])
      <4>1. \A g \in Fs : u \notin Members(tlist'[g])
        BY <1>1, <1>7, <2>3, <3>2
      <4>2. QED BY <1>8, <3>2, <4>1, HomeFacts, HomeFactsNext DEF Own
    <3>3. QED BY <3>1, <3>2
  <2>4. /\ [u \in Ts |-> HomeOf(u)]' = [[u \in Ts |-> HomeOf(u)] EXCEPT ![t] = f]
        /\ [u \in Ts |-> LoadOf(u)]' = [[u \in Ts |-> LoadOf(u)] EXCEPT ![t] = 1]
    BY <1>2, <2>2, <2>3
  <2>5. UNCHANGED <<TT!queues, TT!thread, TT!pool, TT!done, aborted>>
    BY <1>2 DEF threads, TT!queues, TT!thread, TT!pool, TT!done
  <2>6. QED BY <1>2, <2>1, <2>4, <2>5 DEF TT!NewOne
<1>12. \A g \in Fs : Members(tlist'[g]) =
         IF g = want[i] THEN Members(tlist[g]) \cup {hand} ELSE Members(tlist[g])
  BY <1>7 DEF f
<1>13. QED BY <1>1, <1>2, <1>8, <1>9, <1>10, <1>11, <1>12 DEF Own, TT!Next

-----------------------------------------------------------------------------
(* The steps of the threads.                                               *)

\* A request that no T has does not move: what a thread works on is its own.
LEMMA FreeStaysFree ==
  ASSUME TTP!IInv, NEW t \in Ts, NEW i \in Reqs, stage[i] = "free",
         \/ TT!Poll(t) \/ TT!EndHandler(t) \/ TT!PopEntry(t) \/ TT!FinishNative(t)
         \/ TT!PopDone(t) \/ \E w \in Workers : TT!WorkerDone(t, w)
  PROVE  stage'[i] = "free"
<1>1. /\ stage \in [Reqs -> TTP!Stages] /\ iq[t] \in Seq(Reqs) /\ doneQ[t] \in Seq(Reqs)
      /\ \A w \in Workers : wq[t][w] \in Seq(Reqs)
  BY DEF TTP!IInv, TTP!TypeOK
<1>2. iq[t] # << >> => Head(iq[t]) # i
  BY <1>1 DEF TTP!IInv, TTP!QueueInv, TTP!Holds
<1>3. doneQ[t] # << >> => Head(doneQ[t]) # i
  BY <1>1 DEF TTP!IInv, TTP!QueueInv, TTP!Holds
<1>4. pc[t] = "exec" => cur[t] # i
  BY DEF TTP!IInv, TTP!HandInv
<1>5. \A w \in Workers : wq[t][w] # << >> => Head(wq[t][w]) # i
  <2>1. SUFFICES ASSUME NEW w \in Workers, wq[t][w] # << >> PROVE Head(wq[t][w]) # i
    OBVIOUS
  <2>2. w \in busy[t]
    BY <2>1 DEF TTP!IInv, TTP!WorkerInv
  <2>3. stage[wq[t][w][1]] = "running"
    BY <2>2 DEF TTP!IInv, TTP!WorkerInv
  <2>4. Head(wq[t][w]) = wq[t][w][1]
    BY <1>1, <2>1
  <2>5. QED BY <2>3, <2>4
<1>6. CASE TT!Poll(t) \/ TT!EndHandler(t)
  BY <1>6 DEF TT!Poll, TT!EndHandler, TT!reqs
<1>7. CASE TT!PopEntry(t)
  BY <1>1, <1>2, <1>7 DEF TT!PopEntry, TT!Abort, TT!StartNative, TT!StartWasm, TT!reqs
<1>8. CASE TT!FinishNative(t)
  BY <1>1, <1>4, <1>8 DEF TT!FinishNative, TT!Respond
<1>9. CASE TT!PopDone(t)
  BY <1>1, <1>3, <1>9 DEF TT!PopDone, TT!Abort, TT!Respond, TT!reqs
<1>10. ASSUME NEW w \in Workers, TT!WorkerDone(t, w) PROVE stage'[i] = "free"
  BY <1>1, <1>5, <1>10 DEF TT!WorkerDone
<1>11. QED BY <1>6, <1>7, <1>8, <1>9, <1>10

\* A step of the threads that does not touch the lists.
LEMMA ThreadOwn ==
  ASSUME Own, UNCHANGED pool,
         \A i \in Reqs : stage[i] = "free" => stage'[i] = "free"
  PROVE  Own'
<1>1. OwnType' /\ ListInv'
  BY ListsKept DEF Own, OwnType, pool
<1>2. DispatchInv'
  BY DEF Own, DispatchInv, pool
<1>3. QED BY <1>1, <1>2 DEF Own

\* t->IQueue.push.
LEMMA PushOwn ==
  ASSUME Own, NEW i \in Reqs, Push(i)
  PROVE  Own' /\ TT!Next
<1>1. /\ TT!Push(i) /\ dpc' = [dpc EXCEPT ![i] = "none"] /\ want' = [want EXCEPT ![i] = NoF]
      /\ UNCHANGED <<rList, fList, tlist, holder, scanF, scanR, hand, created>>
      /\ dpc[i] = "push"
  BY DEF Push
<1>2. OwnType' /\ ListInv'
  BY <1>1, ListsKept DEF Own, OwnType
<1>3. DispatchInv'
  <2>1. \A j \in Reqs : j # i => stage'[j] = stage[j] /\ dpc'[j] = dpc[j] /\ want'[j] = want[j]
    BY <1>1 DEF TT!Push, Own, OwnType
  <2>2. dpc'[i] = "none" /\ want'[i] = NoF
    BY <1>1 DEF Own, OwnType
  <2>3. QED BY <1>1, <2>1, <2>2 DEF Own, DispatchInv, Held
<1>4. QED BY <1>1, <1>2, <1>3 DEF Own, TT!Next

\* doChangeICount: TThread's, with the list for its load.
LEMMA ReturnOneOwn ==
  ASSUME Own, TTP!IInv, NEW t \in Ts, ReturnOne(t)
  PROVE  /\ Own' /\ TT!DoChangeICount(t)
         /\ \A g \in Fs : Members(tlist'[g]) = Members(tlist[g])
<1> DEFINE f == workFor[t]
           M == AfterReturnOne(tlist[f], Conc[f], t)
<1>1. /\ TT!Running /\ pc[t] \in {"iqret", "dqret"}
      /\ UNCHANGED <<rList, fList, holder, dpc, want, scanF, scanR, hand, created>>
  BY DEF ReturnOne
<1>2. f \in Fs /\ cur[t] \in Reqs /\ stage \in [Reqs -> TTP!Stages]
  <2>1. cur[t] \in Reqs /\ on[cur[t]] = t /\ stage[cur[t]] = "answered"
    BY <1>1 DEF TTP!IInv, TTP!HandInv
  <2>2. workFor[t] = reqF[cur[t]] /\ reqF[cur[t]] \in Fs
    BY <2>1 DEF TTP!IInv, TTP!PlaceInv, TTP!Popped
  <2>3. QED BY <2>1, <2>2 DEF TTP!IInv, TTP!TypeOK
<1>3. Conc[f] \in Nat /\ NoT \notin Ts /\ Good(tlist[f], Conc[f])
  BY <1>2, ConcFacts, TaskPoolAssumption DEF Own, ListInv
<1>4. CASE t \in Members(tlist[f]) /\ LoadIn(tlist[f], t) > 0
  <2>1. tlist' = [tlist EXCEPT ![f] = M] /\ TT!LeaveT(t)
    BY <1>4 DEF ReturnOne
  <2>2. /\ Good(M, Conc[f]) /\ Members(M) = Members(tlist[f])
        /\ LoadIn(M, t) = LoadIn(tlist[f], t) - 1
        /\ \A u \in Members(tlist[f]) : u # t => LoadIn(M, u) = LoadIn(tlist[f], u)
    BY <1>3, <1>4, ReturnOneFacts
  <2> HIDE DEF M
  <2>3. ListInv' /\ tlist' = [g \in Fs |-> tlist'[g]]
    BY <1>1, <1>2, <2>1, <2>2, LoadsChange
  <2>4. OwnType'
    BY <1>1, <2>3 DEF Own, OwnType
  <2>5. DispatchInv'
    <3>1. \A j \in Reqs : stage[j] = "free" => stage'[j] = "free"
      BY <1>2, <2>1 DEF TT!LeaveT
    <3>2. QED BY <1>1, <3>1 DEF Own, DispatchInv
  <2>6. tlist'[f] = M /\ \A g \in Fs : g # f => tlist'[g] = tlist[g]
    BY <1>2, <2>1, OneListChanges DEF Own
  <2>7. /\ HomeOf(t) = f /\ LoadOf(t) = LoadIn(tlist[f], t)
        /\ [u \in Ts |-> HomeOf(u)]' = [u \in Ts |-> HomeOf(u)]
        /\ [u \in Ts |-> LoadOf(u)]' =
             [[u \in Ts |-> LoadOf(u)] EXCEPT ![t] = LoadIn(tlist[f], t) - 1]
    BY <1>2, <1>4, <2>2, <2>3, <2>6, LoadMoves DEF Own
  <2>8. TT!Returns(t)
    BY <1>4, <2>7 DEF TT!Returns
  <2>9. QED BY <1>1, <2>1, <2>2, <2>3, <2>4, <2>5, <2>6, <2>7, <2>8 DEF Own, TT!DoChangeICount
<1>5. CASE ~(t \in Members(tlist[f]) /\ LoadIn(tlist[f], t) > 0)
  <2>1. aborted' = "return" /\ UNCHANGED <<tlist, threads, reqs>>
    BY <1>5 DEF ReturnOne
  <2>2. Own'
    <3>1. UNCHANGED pool /\ UNCHANGED stage
      BY <1>1, <2>1 DEF pool, reqs
    <3>2. QED BY <3>1, ThreadOwn
  <2>3. ~TT!Returns(t)
    <3>1. HomeOf(t) = f => t \in Members(tlist[f]) /\ LoadOf(t) = LoadIn(tlist[f], t)
      <4>1. CASE \E g \in Fs : t \in Members(tlist[g])
        BY <4>1, HomeFacts DEF Own
      <4>2. CASE \A g \in Fs : t \notin Members(tlist[g])
        BY <1>2, <4>2, HomeFacts, TaskPoolAssumption DEF Own
      <4>3. QED BY <4>1, <4>2
    <3>2. QED BY <1>5, <3>1 DEF TT!Returns
  <2>4. TT!Abort("return")
    BY <2>1 DEF TT!Abort, threads, reqs, HomeOf, LoadOf, Owners, TT!queues, TT!thread,
                TT!pool, TT!done, TT!lists, TT!reqs
  <2>5. QED BY <1>1, <2>1, <2>2, <2>3, <2>4 DEF TT!DoChangeICount
<1>6. QED BY <1>4, <1>5

-----------------------------------------------------------------------------
(* The dispatcher implements TThread.                                      *)

\* Every step keeps the invariant and is a step of TThread or none.
LEMMA NextOwn ==
  Own /\ TTP!IInv /\ [Next]_vars => Own' /\ [TT!Next]_(TT!vars)
<1> SUFFICES ASSUME Own, TTP!IInv, [Next]_vars PROVE Own' /\ [TT!Next]_(TT!vars)
  OBVIOUS
<1>1. ASSUME NEW i \in Reqs, NEW f \in Fs, AccessR(i, f) PROVE Own' /\ [TT!Next]_(TT!vars)
  BY <1>1, AccessROwn
<1>2. ASSUME NEW i \in Reqs, AccessF(i) PROVE Own' /\ [TT!Next]_(TT!vars)
  BY <1>2, AccessFOwn
<1>3. ASSUME NEW i \in Reqs, GetT(i) PROVE Own' /\ [TT!Next]_(TT!vars)
  BY <1>3, GetTOwn
<1>4. ASSUME NEW i \in Reqs, Holding(i) PROVE Own' /\ [TT!Next]_(TT!vars)
  <2>1. CASE SnapshotSameR(i) \/ SnapshotRs(i) \/ SnapshotOtherR(i)
    BY <2>1, SnapshotOwn
  <2>2. CASE Probe(i)
    BY <2>2, ProbeOwn
  <2>3. CASE CreateT(i)
    BY <2>3, CreateTOwn
  <2>4. CASE NewTForF(i)
    BY <2>4, NewTForFOwn
  <2>5. QED BY <1>4, <2>1, <2>2, <2>3, <2>4 DEF Holding
<1>5. ASSUME NEW i \in Reqs, Push(i) PROVE Own' /\ [TT!Next]_(TT!vars)
  BY <1>5, PushOwn
<1>6. ASSUME NEW t \in Ts, TStep(t) PROVE Own' /\ [TT!Next]_(TT!vars)
  <2>1. CASE ReturnOne(t)
    BY <2>1, ReturnOneOwn DEF TT!Next, TT!TStep
  <2>2. CASE /\ UNCHANGED pool
             /\ \/ TT!Poll(t) \/ TT!EndHandler(t) \/ TT!PopEntry(t)
                \/ TT!FinishNative(t) \/ TT!PopDone(t)
    <3>1. \A i \in Reqs : stage[i] = "free" => stage'[i] = "free"
      BY <2>2, FreeStaysFree
    <3>2. TT!Next
      BY <2>2 DEF TT!Next, TT!TStep
    <3>3. QED BY <2>2, <3>1, <3>2, ThreadOwn
  <2>3. QED BY <1>6, <2>1, <2>2 DEF TStep
<1>7. ASSUME NEW t \in Ts, NEW w \in Workers, WorkerDone(t, w)
      PROVE  Own' /\ [TT!Next]_(TT!vars)
  <2>1. \A i \in Reqs : stage[i] = "free" => stage'[i] = "free"
    BY <1>7, FreeStaysFree DEF WorkerDone
  <2>2. QED BY <1>7, <2>1, ThreadOwn DEF WorkerDone, TT!Next
<1>8. CASE UNCHANGED vars
  <2>1. UNCHANGED pool /\ UNCHANGED stage
    BY <1>8 DEF vars, reqs
  <2>2. UNCHANGED TT!vars
    BY <1>8, ThreadStutters DEF vars, pool
  <2>3. QED BY <2>1, <2>2, ThreadOwn
<1>9. QED BY <1>1, <1>2, <1>3, <1>4, <1>5, <1>6, <1>7, <1>8 DEF Next

\* Both invariants hold initially.
LEMMA InitBoth == Init => Own /\ TT!Init /\ TTP!IInv
<1> SUFFICES ASSUME Init PROVE Own /\ TT!Init /\ TTP!IInv
  OBVIOUS
<1>1. Own
  BY InitOwn
<1>2. \A f \in Fs : Members(tlist[f]) = {}
  <2>1. TAKE f \in Fs
  <2>2. tlist[f] = EmptyList
    BY DEF Init
  <2>3. QED BY <2>2, ConcFacts, EmptyGood
<1>3. \A t \in Ts : HomeOf(t) = NoF /\ LoadOf(t) = 0
  BY <1>1, <1>2, HomeFacts DEF Own
<1>4. TT!Init
  BY <1>3 DEF Init, TT!Init
<1>5. QED BY <1>1, <1>4, ThreadInvariant

\* In every reachable state the dispatcher's invariant and TThread's hold.
LEMMA Invariants == Spec => [](Own /\ TTP!IInv)
<1>1. Own /\ TTP!IInv /\ [Next]_vars => (Own /\ TTP!IInv)'
  BY NextOwn, ThreadInvariant
<1>2. QED BY <1>1, InitBoth, PTL DEF Spec

\* The dispatcher, with its lists and mutexes, its copies of the LRU lists and
\* its scans step by step, does only what TThread lets its environment do, and
\* the Ts find in their lists what TThread's counters say (TaskPool.cpp,
\* task.cpp).
THEOREM DispatcherImplements == Spec => ThreadSpec
  BY InitBoth, Invariants, NextOwn, PTL DEF Spec, ThreadSpec, TT!Spec

\* The dispatcher keeps its types (TaskPool.h, TaskPool.cpp).
THEOREM PoolTypeCorrect == Spec => []TypeOK
<1>1. Own => TypeOK
  <2>1. SUFFICES ASSUME Own PROVE TypeOK
    OBVIOUS
  <2>2. \A f \in Fs : /\ tlist[f].items \in Seq([n : 0..Conc[f], t : Ts])
                      /\ tlist[f].nextT \in Ts \cup {NoT}
    <3>1. TAKE f \in Fs
    <3> DEFINE L == tlist[f]
               max == Conc[f]
               inList == [n : 0..max, t : Ts]
    <3>2. Good(L, max) /\ max \in Nat
      BY <2>1, ConcFacts DEF Own, ListInv
    <3> HIDE DEF L, max
    <3>3. L \in [items : Seq(inList), nextT : Ts \cup {NoT}]
      BY <3>2, GoodSound
    <3> HIDE DEF inList
    <3>4. L.items \in Seq(inList) /\ L.nextT \in Ts \cup {NoT}
      BY <3>3
    <3>5. QED BY <3>4 DEF L, max, inList
  <2>3. QED BY <2>1, <2>2 DEF Own, OwnType, Held, TypeOK
<1>2. QED BY <1>1, Invariants, PTL

\* A T is in one list at most, and in the hand of a dispatcher only while it is
\* in none: two dispatchers never get the same idle T (TaskPool.cpp, dispatch;
\* task.cpp, takeIdleOne).
THEOREM OneListForEachT == Spec => []OneListPerT
<1>1. Own => OneListPerT
  <2>1. SUFFICES ASSUME Own, NEW t \in Ts
                 PROVE  Cardinality(Owners(t)) <= 1 /\ (t = hand => Owners(t) = {})
    BY DEF OneListPerT
  <2>2. CASE \E f \in Fs : t \in Members(tlist[f])
    <3>1. PICK f \in Fs : t \in Members(tlist[f]) /\ Owners(t) = {f}
      BY <2>1, <2>2, HomeFacts DEF Own
    <3>2. t # hand
      BY <2>1, <3>1 DEF Own, ListInv
    <3>3. Cardinality({f}) = 1
      BY FS_Singleton
    <3>4. QED BY <3>1, <3>2, <3>3
  <2>3. CASE \A f \in Fs : t \notin Members(tlist[f])
    <3>1. Owners(t) = {}
      BY <2>3 DEF Owners
    <3>2. QED BY <3>1, FS_EmptySet
  <2>4. QED BY <2>2, <2>3
<1>2. QED BY <1>1, Invariants, PTL

-----------------------------------------------------------------------------
(* Every T can be reached.                                                 *)

\* f is where stealing, getRFT and shutdown look, or a function that has taken
\* the entry of f is.
Listed(f) == /\ ResOf[f] \in Range(rList)
             /\ Range(fList[ResOf[f]]) \cap SameKey(f) # {}

ReachInv ==
  /\ \A r \in Rs : Range(fList[r]) \subseteq {f \in Fs : ResOf[f] = r}
  /\ \A f \in Fs : Members(tlist[f]) # {} => Listed(f)
  /\ \A i \in Reqs : dpc[i] # "none" => ResOf[want[i]] \in Range(rList)
  /\ \A i \in Reqs : dpc[i] \notin {"none", "accessF"} => Listed(want[i])
  /\ \A t \in created : t = hand \/ \E f \in Fs : t \in Members(tlist[f])

\* A step that leaves the LRU lists and the Ts alone.
LEMMA ReachKept ==
  ASSUME ReachInv, UNCHANGED <<rList, fList, created, hand>>,
         \A f \in Fs : Members(tlist'[f]) = Members(tlist[f]),
         \A i \in Reqs : \/ dpc'[i] = "none"
                         \/ want'[i] = want[i] /\ dpc'[i] = dpc[i]
                         \/ want'[i] = want[i] /\ dpc[i] \notin {"none", "accessF"}
  PROVE  ReachInv'
  BY DEF ReachInv, Listed

\* An access of an LRU list removes nobody else.
LEMMA ReachAccessR ==
  ASSUME Own, ReachInv, NEW i \in Reqs, NEW f \in Fs, AccessR(i, f)
  PROVE  ReachInv'
<1>1. ResOf[f] \in Rs /\ rList \in Seq(Rs)
  BY ConcFacts DEF Own, OwnType
<1>2. /\ rList' = Access(rList, ResOf[f], {ResOf[f]})
      /\ UNCHANGED <<fList, tlist, hand, created>>
      /\ want' = [want EXCEPT ![i] = f] /\ dpc' = [dpc EXCEPT ![i] = "accessF"]
  BY DEF AccessR
<1>3. Range(rList) \subseteq Range(rList') /\ ResOf[f] \in Range(rList')
  <2> DEFINE K == {ResOf[f]}
  <2>1. Range(rList) \ K \subseteq Range(rList') /\ ResOf[f] \in Range(rList')
    BY <1>1, <1>2, AccessFacts
  <2>2. QED BY <2>1
<1>4. /\ \A j \in Reqs : j # i => dpc'[j] = dpc[j] /\ want'[j] = want[j]
      /\ dpc'[i] = "accessF" /\ want'[i] = f
  BY <1>2 DEF Own, OwnType
<1>5. \A g \in Fs : Listed(g) => Listed(g)'
  BY <1>2, <1>3 DEF Listed
<1>6. \A j \in Reqs : dpc[j] # "none" => want[j] \in Fs
  BY WantFacts
<1>7. /\ \A r \in Rs : Range(fList'[r]) \subseteq {g \in Fs : ResOf[g] = r}
      /\ \A g \in Fs : Members(tlist'[g]) # {} => Listed(g)'
      /\ \A t \in created' : t = hand' \/ \E g \in Fs : t \in Members(tlist'[g])
  BY <1>2, <1>5 DEF ReachInv
<1>8. \A j \in Reqs : dpc'[j] # "none" => ResOf[want'[j]] \in Range(rList')
  BY <1>3, <1>4 DEF ReachInv
<1>9. \A j \in Reqs : dpc'[j] \notin {"none", "accessF"} =>
        /\ ResOf[want'[j]] \in Range(rList')
        /\ Range(fList'[ResOf[want'[j]]]) \cap SameKey(want'[j]) # {}
  <2>1. ASSUME NEW j \in Reqs, j # i, dpc[j] \notin {"none", "accessF"} PROVE Listed(want[j])
    BY <2>1 DEF ReachInv
  <2>2. QED BY <1>2, <1>3, <1>4, <2>1 DEF Listed
<1>10. QED BY <1>7, <1>8, <1>9 DEF ReachInv, Listed

\* An access of the list of a resource may remove a function, for one of the
\* same name.
LEMMA ReachAccessF ==
  ASSUME Own, ReachInv, NEW i \in Reqs, AccessF(i)
  PROVE  ReachInv'
<1> DEFINE f == want[i]
           r == ResOf[f]
           K == SameKey(f)
<1>1. f \in Fs /\ r \in Rs /\ dpc[i] = "accessF"
  BY WantFacts DEF AccessF
<1>2. fList[r] \in Seq(Fs) /\ fList \in [Rs -> Seq(Fs)]
  BY <1>1 DEF Own, OwnType
<1>3. /\ fList' = [fList EXCEPT ![r] = Access(@, f, K)]
      /\ UNCHANGED <<rList, tlist, hand, created, want>>
      /\ dpc' = [dpc EXCEPT ![i] = "lock"]
  BY DEF AccessF
<1>4. \A g \in Fs : SameKey(g) \cap K # {} => SameKey(g) = K /\ f \in K
  BY <1>1 DEF SameKey
<1> HIDE DEF K
<1>5. /\ Range(fList[r]) \ K \subseteq Range(fList'[r])
      /\ f \in Range(fList'[r])
      /\ Range(fList'[r]) \subseteq Range(fList[r]) \cup {f}
  BY <1>1, <1>2, <1>3, AccessFacts
<1> HIDE DEF f, r
<1>6. \A q \in Rs : q # r => fList'[q] = fList[q]
  BY <1>2, <1>3
<1>7. \A g \in Fs, q \in Rs : Range(fList[q]) \cap SameKey(g) # {}
                             => Range(fList'[q]) \cap SameKey(g) # {}
  <2>1. SUFFICES ASSUME NEW g \in Fs, NEW h \in Range(fList[r]), h \in SameKey(g)
                 PROVE  Range(fList'[r]) \cap SameKey(g) # {}
    BY <1>6
  <2>2. CASE h \in K
    BY <1>4, <1>5, <2>1, <2>2
  <2>3. CASE h \notin K
    BY <1>5, <2>1, <2>3
  <2>4. QED BY <2>2, <2>3
<1>8. \A q \in Rs : Range(fList'[q]) \subseteq {g \in Fs : ResOf[g] = q}
  BY <1>1, <1>5, <1>6 DEF ReachInv, r
<1>9. \A g \in Fs : Listed(g) => Listed(g)'
  BY <1>3, <1>7, ConcFacts DEF Listed, SameKey
<1>10. \A j \in Reqs : dpc[j] # "none" => want[j] \in Fs
  BY WantFacts
<1>11. /\ \A j \in Reqs : j # i => dpc'[j] = dpc[j]
       /\ dpc'[i] = "lock"
  BY <1>3 DEF Own, OwnType
<1>12. \A j \in Reqs : dpc'[j] \notin {"none", "accessF"} => Listed(want[j])'
  <2>1. SUFFICES ASSUME NEW j \in Reqs, dpc'[j] \notin {"none", "accessF"}
                 PROVE  Listed(want[j])'
    OBVIOUS
  <2>2. CASE j = i
    <3>1. f \in SameKey(f) /\ ResOf[f] \in Range(rList)
      BY <1>1, <2>2 DEF SameKey, ReachInv, f
    <3>2. QED BY <1>3, <1>5, <2>2, <3>1 DEF Listed, f, r
  <2>3. CASE j # i
    <3>1. want[j] \in Fs /\ Listed(want[j])
      BY <1>10, <1>11, <2>1, <2>3 DEF ReachInv
    <3>2. QED BY <1>3, <1>9, <3>1 DEF Listed, SameKey
  <2>4. QED BY <2>2, <2>3
<1>13. \A j \in Reqs : dpc'[j] # "none" => ResOf[want'[j]] \in Range(rList')
  BY <1>1, <1>3, <1>11 DEF ReachInv
<1>14. /\ \A g \in Fs : Members(tlist'[g]) # {} => Listed(g)'
       /\ \A t \in created' : t = hand' \/ \E g \in Fs : t \in Members(tlist'[g])
  BY <1>3, <1>9 DEF ReachInv
<1>15. QED BY <1>8, <1>12, <1>13, <1>14 DEF ReachInv

\* No other step takes a T out of reach.
LEMMA NextReach ==
  Own /\ TTP!IInv /\ ReachInv /\ [Next]_vars => ReachInv'
<1> SUFFICES ASSUME Own, TTP!IInv, ReachInv, [Next]_vars PROVE ReachInv'
  OBVIOUS
<1>0. DOMAIN dpc = Reqs /\ DOMAIN want = Reqs /\ dpc = [i \in Reqs |-> dpc[i]]
  BY DEF Own, OwnType
<1>1. ASSUME NEW i \in Reqs, NEW f \in Fs, AccessR(i, f) PROVE ReachInv'
  BY <1>1, ReachAccessR
<1>2. ASSUME NEW i \in Reqs, AccessF(i) PROVE ReachInv'
  BY <1>2, ReachAccessF
<1>3. ASSUME NEW i \in Reqs, GetT(i) PROVE ReachInv'
  <2>1. \A f \in Fs : Members(tlist'[f]) = Members(tlist[f])
    BY <1>3, GetTOwn
  <2>2. \A j \in Reqs : \/ want'[j] = want[j] /\ dpc'[j] = dpc[j]
                        \/ want'[j] = want[j] /\ dpc[j] \notin {"none", "accessF"}
    BY <1>0, <1>3 DEF GetT
  <2>3. QED BY <1>3, <2>1, <2>2, ReachKept DEF GetT
<1>4. ASSUME NEW i \in Reqs, Holding(i) PROVE ReachInv'
  <2>1. CASE SnapshotSameR(i) \/ SnapshotRs(i) \/ SnapshotOtherR(i)
    <3>1. \A j \in Reqs : \/ want'[j] = want[j] /\ dpc'[j] = dpc[j]
                          \/ want'[j] = want[j] /\ dpc[j] \notin {"none", "accessF"}
      BY <1>0, <2>1 DEF SnapshotSameR, SnapshotRs, SnapshotOtherR
    <3>2. UNCHANGED <<rList, fList, created, hand, tlist>>
      BY <2>1 DEF SnapshotSameR, SnapshotRs, SnapshotOtherR
    <3>3. QED BY <3>1, <3>2, ReachKept
  <2>2. CASE Probe(i)
    <3>1. \A j \in Reqs : \/ want'[j] = want[j] /\ dpc'[j] = dpc[j]
                          \/ want'[j] = want[j] /\ dpc[j] \notin {"none", "accessF"}
      BY <1>0, <2>2 DEF Probe
    <3>2. UNCHANGED <<rList, fList, created>>
      BY <2>2 DEF Probe
    <3>3. CASE UNCHANGED <<tlist, hand>>
      BY <3>1, <3>2, <3>3, ReachKept
    <3>4. CASE \A g \in Fs : Members(tlist'[g]) = Members(tlist[g]) \ {hand'}
      <4>1. \A g \in Fs : Members(tlist'[g]) # {} => Members(tlist[g]) # {}
        BY <3>4
      <4>2. \A t \in created' : t = hand' \/ \E f \in Fs : t \in Members(tlist'[f])
        <5>1. hand = NoT /\ NoT \notin created
          BY <2>2, TaskPoolAssumption DEF Own, OwnType, DispatchInv, Held, Probe
        <5>2. QED BY <3>2, <3>4, <5>1 DEF ReachInv
      <4>3. QED BY <3>1, <3>2, <4>1, <4>2 DEF ReachInv, Listed
    <3>5. QED BY <2>2, <3>3, <3>4, ProbeOwn
  <2>3. CASE CreateT(i)
    <3>1. \A j \in Reqs : \/ want'[j] = want[j] /\ dpc'[j] = dpc[j]
                          \/ want'[j] = want[j] /\ dpc[j] \notin {"none", "accessF"}
      BY <1>0, <2>3 DEF CreateT
    <3>2. UNCHANGED <<rList, fList, tlist>> /\ created' = created \cup {hand'}
      BY <2>3 DEF CreateT
    <3>3. hand = NoT /\ NoT \notin created
      BY <2>3, TaskPoolAssumption DEF Own, OwnType, DispatchInv, Held, CreateT
    <3>4. QED BY <3>1, <3>2, <3>3 DEF ReachInv, Listed
  <2>4. CASE NewTForF(i)
    <3>1. \A j \in Reqs : \/ want'[j] = want[j] /\ dpc'[j] = dpc[j]
                          \/ want'[j] = want[j] /\ dpc[j] \notin {"none", "accessF"}
      BY <1>0, <2>4 DEF NewTForF
    <3>2. UNCHANGED <<rList, fList, created>>
      BY <2>4 DEF NewTForF
    <3>3. \A g \in Fs : Members(tlist'[g]) =
            IF g = want[i] THEN Members(tlist[g]) \cup {hand} ELSE Members(tlist[g])
      BY <2>4, NewTForFOwn
    <3>4. want[i] \in Fs /\ Listed(want[i])
      BY <2>4, WantFacts DEF ReachInv, NewTForF
    <3>5. \A t \in created' : \E f \in Fs : t \in Members(tlist'[f])
      BY <3>2, <3>3, <3>4 DEF ReachInv
    <3>6. \A f \in Fs : Members(tlist'[f]) # {} => Listed(f)
      BY <3>3, <3>4 DEF ReachInv
    <3>7. QED BY <3>1, <3>2, <3>5, <3>6 DEF ReachInv, Listed
  <2>5. QED BY <1>4, <2>1, <2>2, <2>3, <2>4 DEF Holding
<1>5. ASSUME NEW i \in Reqs, Push(i) PROVE ReachInv'
  <2>1. \A j \in Reqs : dpc'[j] = "none" \/ (want'[j] = want[j] /\ dpc'[j] = dpc[j])
    BY <1>0, <1>5 DEF Push
  <2>2. QED BY <1>5, <2>1, ReachKept DEF Push
<1>6. ASSUME NEW t \in Ts, TStep(t) PROVE ReachInv'
  <2>1. CASE ReturnOne(t)
    BY <2>1, ReturnOneOwn, ReachKept DEF ReturnOne
  <2>2. CASE UNCHANGED pool
    BY <2>2, ReachKept DEF pool
  <2>3. QED BY <1>6, <2>1, <2>2 DEF TStep
<1>7. ASSUME NEW t \in Ts, NEW w \in Workers, WorkerDone(t, w) PROVE ReachInv'
  BY <1>7, ReachKept DEF WorkerDone, pool
<1>8. CASE UNCHANGED vars
  BY <1>8, ReachKept DEF vars, pool
<1>9. QED BY <1>1, <1>2, <1>3, <1>4, <1>5, <1>6, <1>7, <1>8 DEF Next

\* Initially there is none.
LEMMA InitReach == Init => ReachInv
<1> SUFFICES ASSUME Init PROVE ReachInv
  OBVIOUS
<1>1. \A f \in Fs : Members(tlist[f]) = {}
  <2>1. TAKE f \in Fs
  <2>2. tlist[f] = EmptyList
    BY DEF Init
  <2>3. QED BY <2>2, ConcFacts, EmptyGood
<1>2. \A r \in Rs : Range(fList[r]) = {}
  BY DEF Init, Range
<1>3. created = {} /\ \A i \in Reqs : dpc[i] = "none"
  BY DEF Init
<1>4. QED BY <1>1, <1>2, <1>3 DEF ReachInv

\* No T is lost: the invariant holds in every reachable state.
LEMMA StaysReachable == Spec => []ReachInv
<1>1. Own /\ TTP!IInv /\ ReachInv /\ [Next]_vars => ReachInv'
  BY NextReach
<1>2. QED BY <1>1, InitReach, Invariants, PTL DEF Spec

\* Every T is in hand or in the list of a function that stealing, getRFT and
\* shutdown reach through R_list and the list of its resource, or whose entry
\* there a function of the same name has taken (lru.h, access; TaskPool.cpp,
\* dispatch).
THEOREM EveryTStaysReachable == Spec => []EveryTReachable
<1>1. ReachInv => EveryTReachable
  BY DEF ReachInv, Listed, EveryTReachable, Owners
<1>2. QED BY <1>1, StaysReachable, PTL

-----------------------------------------------------------------------------
(* The number of Ts.                                                       *)

\* No two users have given a function of one resource the same name.  The lists
\* of functions, one for each resource, are keyed by the name without the user;
\* a list would drop one of two functions of one name, and its idle Ts with it.
OwnNames == \A f, g \in Fs : ResOf[f] = ResOf[g] /\ NameOf[f] = NameOf[g] => f = g

\* The Ts of the lists of some functions, and the requests that are on them.
TsOf(lists, S) == UNION {Members(lists[g]) : g \in S}
PlacedOn(lists, place, S) == {j \in Reqs : place[j] \in TsOf(lists, S)}

\* A T that a scan has passed had a request then, and may have lost it since; it
\* is still counted.  The Ts passed and the requests on the other ones are fewer
\* than the requests: at least the one that is dispatched has no T.
Bound(lists, place, unseen) ==
  Cardinality(TsOf(lists, Fs \ unseen)) + Cardinality(PlacedOn(lists, place, unseen))
    < Cardinality(Reqs)

\* What the scan for request i has yet to probe, or has not copied yet.
SameR(i) == {g \in Fs : ResOf[g] = ResOf[want[i]]}
Unseen(i) ==
  CASE dpc[i] = "sameR"     -> Fs \ {want[i]}
    [] dpc[i] = "probeSame" -> (Range(scanF) \cup (Fs \ SameR(i))) \ {want[i]}
    [] OTHER -> (Range(scanF) \cup {g \in Fs : ResOf[g] \in Range(scanR)}) \ SameR(i)

Scanning == {"sameR", "probeSame", "probeOther"}

CountInv ==
  /\ IsFiniteSet(created) /\ Cardinality(created) <= Cardinality(Reqs)
  /\ \A i \in Reqs : dpc[i] \in Scanning => Bound(tlist, on, Unseen(i))

\* The sets that are counted are finite.
LEMMA CountedFinite ==
  ASSUME Own, IsFiniteSet(created), NEW S \in SUBSET Fs, NEW place
  PROVE  /\ TsOf(tlist, S) \in SUBSET created /\ IsFiniteSet(TsOf(tlist, S))
         /\ Cardinality(TsOf(tlist, S)) \in Nat
         /\ PlacedOn(tlist, place, S) \in SUBSET Reqs
         /\ IsFiniteSet(PlacedOn(tlist, place, S))
         /\ Cardinality(PlacedOn(tlist, place, S)) \in Nat
         /\ Cardinality(Reqs) \in Nat
<1>1. TsOf(tlist, S) \in SUBSET created
  BY DEF TsOf, Own, ListInv
<1>2. IsFiniteSet(TsOf(tlist, S)) /\ Cardinality(TsOf(tlist, S)) \in Nat
  BY <1>1, FS_Subset, FS_CardinalityType
<1>3. PlacedOn(tlist, place, S) \in SUBSET Reqs
  BY DEF PlacedOn
<1>4. IsFiniteSet(PlacedOn(tlist, place, S)) /\ Cardinality(PlacedOn(tlist, place, S)) \in Nat
  BY <1>3, TaskPoolAssumption, FS_Subset, FS_CardinalityType
<1>5. QED BY <1>1, <1>2, <1>3, <1>4, TaskPoolAssumption, FS_CardinalityType

\* A T with a load has a request.
LEMMA LoadedHasRequest ==
  ASSUME Own, TTP!IInv, NEW f \in Fs, NEW t \in Members(tlist[f]), LoadIn(tlist[f], t) > 0
  PROVE  \E j \in Reqs : on[j] = t
<1>1. t \in Ts
  BY DEF Own, OwnType, ListInv
<1>2. LoadOf(t) = LoadIn(tlist[f], t)
  BY <1>1, HomeFacts DEF Own
<1>3. LoadOf(t) = Cardinality(TTP!OnT(t))
  BY <1>1, SameCardinality DEF TTP!IInv, TTP!CountersAgree
<1>4. TTP!OnT(t) # {}
  <2>1. Cardinality({}) = 0
    BY FS_EmptySet
  <2>2. Cardinality(TTP!OnT(t)) > 0
    BY <1>2, <1>3
  <2>3. QED BY <2>1, <2>2
<1>5. QED BY <1>4 DEF TTP!OnT

\* A scan that passes functions whose Ts all have requests keeps the bound: for
\* each T that is now counted, a request is no more.
LEMMA SeenMore ==
  ASSUME Own, IsFiniteSet(created), NEW U \in SUBSET Fs, NEW V \in SUBSET U,
         Bound(tlist, on, U),
         \A f \in U \ V : \A t \in Members(tlist[f]) : \E j \in Reqs : on[j] = t
  PROVE  Bound(tlist, on, V)
<1> DEFINE seen == TsOf(tlist, Fs \ U)
           more == TsOf(tlist, U \ V)
           has  == {j \in Reqs : on[j] \in more}
           left == PlacedOn(tlist, on, V)
           all  == PlacedOn(tlist, on, U)
<1>1. /\ IsFiniteSet(seen) /\ Cardinality(seen) \in Nat
      /\ IsFiniteSet(more) /\ Cardinality(more) \in Nat
      /\ IsFiniteSet(left) /\ Cardinality(left) \in Nat
      /\ IsFiniteSet(all) /\ Cardinality(all) \in Nat
      /\ IsFiniteSet(has) /\ Cardinality(has) \in Nat /\ Cardinality(Reqs) \in Nat
  <2>1. Fs \ U \in SUBSET Fs /\ U \ V \in SUBSET Fs /\ V \in SUBSET Fs
    OBVIOUS
  <2>2. has = PlacedOn(tlist, on, U \ V)
    BY DEF PlacedOn
  <2>3. QED BY <2>1, <2>2, CountedFinite
<1>2. TsOf(tlist, Fs \ V) = seen \cup more
  BY DEF TsOf
<1>3. Cardinality(seen \cup more) <= Cardinality(seen) + Cardinality(more)
  <2>1. Cardinality(seen \cap more) \in Nat
    BY <1>1, FS_Intersection, FS_CardinalityType
  <2>2. Cardinality(seen \cup more) =
          Cardinality(seen) + Cardinality(more) - Cardinality(seen \cap more)
    BY <1>1, FS_Union
  <2>3. QED BY <1>1, <2>1, <2>2
<1>4. Cardinality(more) <= Cardinality(has)
  <2> DEFINE g == [j \in has |-> on[j]]
  <2>1. \A t \in more : \E j \in has : g[j] = t
    BY DEF TsOf
  <2>2. g \in [has -> more]
    OBVIOUS
  <2>3. g \in Surjection(has, more)
    BY <2>1, <2>2 DEF Surjection
  <2>4. QED BY <1>1, <2>3, FS_Surjection
<1>5. Cardinality(has) + Cardinality(left) <= Cardinality(all)
  <2>1. has \cap left = {}
    BY DEF PlacedOn, TsOf, Own, ListInv
  <2>2. Cardinality(has \cup left) = Cardinality(has) + Cardinality(left)
    <3>1. Cardinality(has \cup left) =
            Cardinality(has) + Cardinality(left) - Cardinality(has \cap left)
      BY <1>1, FS_Union
    <3>2. Cardinality(has \cap left) = 0
      BY <2>1, FS_EmptySet
    <3> HIDE DEF has, left
    <3>3. QED BY <1>1, <3>1, <3>2
  <2>3. has \cup left \in SUBSET all
    <3>1. more \subseteq TsOf(tlist, U) /\ TsOf(tlist, V) \subseteq TsOf(tlist, U)
      BY DEF TsOf
    <3> HIDE DEF more
    <3>2. QED BY <3>1 DEF PlacedOn
  <2> HIDE DEF has, left, all
  <2>4. Cardinality(has \cup left) <= Cardinality(all)
    BY <1>1, <2>3, FS_Subset
  <2>5. QED BY <2>2, <2>4
<1>6. Cardinality(TsOf(tlist, Fs \ V)) <= Cardinality(seen) + Cardinality(more)
  BY <1>2, <1>3
<1>7. Cardinality(TsOf(tlist, Fs \ V)) \in Nat
  BY CountedFinite
<1>8. Cardinality(seen) + Cardinality(all) < Cardinality(Reqs)
  BY DEF Bound
<1> HIDE DEF seen, more, has, left, all
<1>9. Cardinality(TsOf(tlist, Fs \ V)) + Cardinality(left) < Cardinality(Reqs)
  BY <1>1, <1>4, <1>5, <1>6, <1>7, <1>8
<1>10. QED BY <1>9 DEF Bound, left

\* So does a step that moves no T and only takes requests away.
LEMMA BoundKept ==
  ASSUME Own, IsFiniteSet(created), NEW U \in SUBSET Fs, Bound(tlist, on, U),
         \A g \in Fs : Members(tlist'[g]) = Members(tlist[g]),
         \A j \in Reqs : on'[j] \in {on[j], NoT}
  PROVE  Bound(tlist', on', U)
<1> DEFINE all == PlacedOn(tlist, on, U)
           left == PlacedOn(tlist', on', U)
<1>1. TsOf(tlist', Fs \ U) = TsOf(tlist, Fs \ U) /\ TsOf(tlist', U) = TsOf(tlist, U)
  BY DEF TsOf
<1>2. NoT \notin TsOf(tlist, U)
  BY CountedFinite, TaskPoolAssumption DEF Own, OwnType
<1>3. left \in SUBSET all
  BY <1>1, <1>2 DEF PlacedOn
<1>4. /\ IsFiniteSet(all) /\ Cardinality(all) \in Nat /\ Cardinality(Reqs) \in Nat
      /\ Cardinality(TsOf(tlist, Fs \ U)) \in Nat
  BY CountedFinite
<1>5. Cardinality(left) <= Cardinality(all) /\ Cardinality(left) \in Nat
  BY <1>3, <1>4, FS_Subset, FS_CardinalityType
<1>6. Cardinality(TsOf(tlist, Fs \ U)) + Cardinality(all) < Cardinality(Reqs)
  BY DEF Bound
<1>7. Cardinality(TsOf(tlist', Fs \ U)) + Cardinality(left) < Cardinality(Reqs)
  BY <1>1, <1>4, <1>5, <1>6
<1>8. QED BY <1>7 DEF Bound

\* What is unseen are functions.
LEMMA UnseenFs ==
  Own => \A i \in Reqs : dpc[i] \in Scanning => Unseen(i) \in SUBSET Fs
<1> SUFFICES ASSUME Own, NEW i \in Reqs, dpc[i] \in Scanning PROVE Unseen(i) \in SUBSET Fs
  OBVIOUS
<1>1. Range(scanF) \in SUBSET Fs
  BY EmptySeq, LenProperties DEF Own, OwnType, Range
<1>2. QED BY <1>1 DEF Unseen, Scanning, SameR

\* A step that moves no T and no scan.
LEMMA CountKept ==
  ASSUME Own, CountInv, UNCHANGED <<created, scanF, scanR>>,
         \A g \in Fs : Members(tlist'[g]) = Members(tlist[g]),
         \A j \in Reqs : on'[j] \in {on[j], NoT},
         \A j \in Reqs : dpc'[j] \in Scanning => dpc'[j] = dpc[j] /\ want'[j] = want[j]
  PROVE  CountInv'
<1>1. ASSUME NEW j \in Reqs, dpc'[j] \in Scanning PROVE Bound(tlist', on', Unseen(j)')
  <2> PICK U : U = Unseen(j)
    OBVIOUS
  <2>1. dpc'[j] = dpc[j] /\ want'[j] = want[j]
    BY <1>1
  <2>2. Unseen(j)' = U
    BY <2>1 DEF Unseen, SameR
  <2>3. U \in SUBSET Fs /\ Bound(tlist, on, U) /\ IsFiniteSet(created)
    BY <1>1, <2>1, UnseenFs DEF CountInv
  <2>4. Bound(tlist', on', U)
    BY <2>3, BoundKept
  <2>5. QED BY <2>2, <2>4
<1>2. QED BY <1>1 DEF CountInv

\* A step after which nobody scans.
LEMMA NobodyScans ==
  ASSUME CountInv, UNCHANGED created, \A j \in Reqs : dpc'[j] \notin Scanning
  PROVE  CountInv'
  BY DEF CountInv

\* A step of the one scan, past functions whose Ts all have requests.
LEMMA ScanStep ==
  ASSUME Own, CountInv, Own', NEW i \in Reqs, dpc'[i] \in Scanning,
         UNCHANGED <<tlist, on, created>>,
         NEW U \in SUBSET Fs, Bound(tlist, on, U), Unseen(i)' \subseteq U,
         \A f \in U \ Unseen(i)' : \A t \in Members(tlist[f]) : \E j \in Reqs : on[j] = t
  PROVE  CountInv'
<1> PICK V : V = Unseen(i)'
  OBVIOUS
<1>1. Bound(tlist, on, V)
  BY SeenMore DEF CountInv
<1>2. \A j \in Reqs : dpc'[j] \in Scanning => j = i
  <2>1. \A j \in Reqs : dpc'[j] \in Held => holder' = j
    BY DEF Own, DispatchInv
  <2>2. QED BY <2>1 DEF Held, Scanning
<1>3. QED BY <1>1, <1>2 DEF CountInv

\* A scan starts: the request that is dispatched has no T, and those of its own
\* function are full.
LEMMA GetTCount ==
  ASSUME Own, TTP!IInv, CountInv, NEW i \in Reqs, GetT(i)
  PROVE  CountInv'
<1> DEFINE f == want[i]
<1>1. /\ f \in Fs /\ dpc[i] = "lock" /\ holder = NoReq /\ UNCHANGED <<created, want>>
      /\ dpc \in [Reqs -> Held \cup {"none", "accessF", "lock", "push"}]
  BY WantFacts DEF GetT, Own, OwnType
<1>2. Own' /\ \A j \in Reqs : dpc[j] \notin Held
  BY <1>1, GetTOwn, TaskPoolAssumption DEF Own, DispatchInv
<1>3. CASE CanTakeOne(tlist[f])
  <2>1. \A j \in Reqs : dpc'[j] \notin Scanning
    BY <1>1, <1>2, <1>3 DEF GetT, Held, Scanning
  <2>2. QED BY <1>1, <2>1, NobodyScans
<1>4. CASE ~CanTakeOne(tlist[f])
  <2>1. UNCHANGED <<tlist, on>> /\ dpc'[i] = "sameR"
    BY <1>1, <1>4 DEF GetT, reqs
  <2>2. Bound(tlist, on, Fs)
    <3> DEFINE all == PlacedOn(tlist, on, Fs)
    <3>1. TsOf(tlist, Fs \ Fs) = {}
      BY DEF TsOf
    <3>2. stage[i] = "free"
      BY <1>1 DEF Own, DispatchInv
    <3>3. on[i] = NoT
      BY <3>2 DEF TTP!IInv, TTP!PlaceInv
    <3>4. /\ NoT \notin TsOf(tlist, Fs) /\ all \in SUBSET Reqs
          /\ IsFiniteSet(all) /\ Cardinality(all) \in Nat /\ Cardinality(Reqs) \in Nat
      <4>1. TsOf(tlist, Fs) \in SUBSET created /\ IsFiniteSet(created)
        BY CountedFinite DEF CountInv
      <4>2. QED BY <4>1, CountedFinite, TaskPoolAssumption DEF Own, OwnType
    <3>5. i \notin all
      BY <3>3, <3>4 DEF PlacedOn
    <3> HIDE DEF all
    <3>6. Cardinality(all) <= Cardinality(Reqs) /\ Cardinality(all) # Cardinality(Reqs)
      BY <3>4, <3>5, TaskPoolAssumption, FS_Subset
    <3>7. Cardinality({}) = 0
      BY FS_EmptySet
    <3>8. Cardinality(TsOf(tlist, Fs \ Fs)) + Cardinality(all) < Cardinality(Reqs)
      BY <3>1, <3>4, <3>6, <3>7
    <3>9. QED BY <3>8 DEF Bound, all
  <2>3. Unseen(i)' = Fs \ {f}
    BY <1>1, <2>1 DEF Unseen
  <2>4. \A t \in Members(tlist[f]) : \E j \in Reqs : on[j] = t
    <3>1. /\ Conc[f] \in Nat \ {0} /\ Conc[f] \in Nat /\ NoT \notin Ts
          /\ Good(tlist[f], Conc[f])
      BY <1>1, ConcFacts, TaskPoolAssumption DEF Own, ListInv
    <3>2. \A t \in Members(tlist[f]) : LoadIn(tlist[f], t) = Conc[f]
      BY <1>4, <3>1, TakeChoice
    <3>3. \A t \in Members(tlist[f]) : LoadIn(tlist[f], t) > 0
      BY <3>1, <3>2
    <3>4. QED BY <1>1, <3>3, LoadedHasRequest
  <2>5. \A g \in Fs \ (Unseen(i)') : g = f
    BY <1>1, <2>3
  <2>6. dpc'[i] \in Scanning /\ Unseen(i)' \subseteq Fs
    BY <2>1, <2>3 DEF Scanning
  <2>7. QED BY <1>1, <1>2, <2>1, <2>2, <2>4, <2>5, <2>6, ScanStep
<1>5. QED BY <1>3, <1>4

\* Then a listed function has an entry of its own.
LEMMA OwnEntry ==
  ASSUME OwnNames, ReachInv, NEW f \in Fs, Listed(f)
  PROVE  f \in Range(fList[ResOf[f]])
<1>1. PICK g \in Range(fList[ResOf[f]]) : g \in SameKey(f)
  BY DEF Listed
<1>2. ResOf[g] = ResOf[f]
  BY <1>1, ConcFacts DEF ReachInv
<1>3. QED BY <1>1, <1>2 DEF OwnNames, SameKey

\* A copy leaves out no function that has a T.
LEMMA SnapshotCount ==
  ASSUME OwnNames, Own, ReachInv, CountInv, NEW i \in Reqs,
         SnapshotSameR(i) \/ SnapshotRs(i) \/ SnapshotOtherR(i)
  PROVE  CountInv'
<1> DEFINE f == want[i]
           r == ResOf[f]
<1>1. f \in Fs /\ r \in Rs
  BY WantFacts DEF SnapshotSameR, SnapshotRs, SnapshotOtherR
<1>2. /\ UNCHANGED <<tlist, on, created, want, rList, fList>>
      /\ dpc[i] \in Scanning /\ dpc'[i] \in Scanning
  BY DEF SnapshotSameR, SnapshotRs, SnapshotOtherR, reqs, Scanning, Own, OwnType
<1>3. Own'
  BY SnapshotOwn
<1>4. Unseen(i) \in SUBSET Fs /\ Bound(tlist, on, Unseen(i))
  BY <1>2, UnseenFs DEF CountInv
<1>5. /\ \A q \in Rs : Range(fList[q]) \subseteq {g \in Fs : ResOf[g] = q}
      /\ \A g \in Fs : Members(tlist[g]) # {} =>
           ResOf[g] \in Rs /\ ResOf[g] \in Range(rList) /\ g \in Range(fList[ResOf[g]])
  BY ConcFacts, OwnEntry DEF ReachInv, Listed
<1>6. /\ Unseen(i)' \subseteq Unseen(i)
      /\ \A g \in Unseen(i) \ (Unseen(i)') : Members(tlist[g]) = {}
  <2>1. CASE SnapshotSameR(i)
    <3> DEFINE l == fList[r]
               K == {f}
    <3>1. l \in Seq(Fs)
      BY <1>1 DEF Own, OwnType
    <3>2. scanF' = Without(l, K) /\ dpc[i] = "sameR" /\ dpc'[i] = "probeSame"
      BY <2>1 DEF SnapshotSameR, Own, OwnType
    <3> HIDE DEF l, K
    <3>3. Range(scanF') \subseteq Range(l) /\ Range(l) \ K \subseteq Range(scanF')
      BY <3>1, <3>2, WithoutFacts
    <3>4. /\ Unseen(i) = Fs \ {f}
          /\ Unseen(i)' = (Range(scanF') \cup {g \in Fs : ResOf[g] # r}) \ {f}
      BY <1>2, <3>2 DEF Unseen, SameR
    <3>5. QED BY <1>1, <1>5, <3>3, <3>4 DEF l, K
  <2>2. CASE SnapshotRs(i)
    <3> DEFINE K == {r}
    <3>1. /\ scanF = << >> /\ scanF' = << >> /\ scanR' = Without(rList, K)
          /\ dpc[i] = "probeSame" /\ dpc'[i] = "probeOther" /\ rList \in Seq(Rs)
      BY <2>2 DEF SnapshotRs, Own, OwnType
    <3> HIDE DEF K
    <3>2. Range(rList) \ K \subseteq Range(scanR')
      BY <3>1, WithoutFacts
    <3>3. Range(scanF) = {} /\ Range(scanF') = {}
      BY <3>1 DEF Range
    <3>4. /\ Unseen(i) = {g \in Fs : ResOf[g] # r} \ {f}
          /\ Unseen(i)' = {g \in Fs : ResOf[g] \in Range(scanR') /\ ResOf[g] # r}
      BY <1>2, <3>1, <3>3 DEF Unseen, SameR
    <3>5. QED BY <1>1, <1>5, <3>2, <3>4 DEF K
  <2>3. CASE SnapshotOtherR(i)
    <3>1. /\ scanF = << >> /\ scanR # << >> /\ scanF' = fList[Head(scanR)]
          /\ scanR' = Tail(scanR) /\ scanR \in Seq(Rs)
          /\ dpc[i] = "probeOther" /\ dpc'[i] = "probeOther"
      BY <2>3 DEF SnapshotOtherR, Own, OwnType
    <3> PICK q : q = Head(scanR)
      OBVIOUS
    <3>2. q \in Rs /\ Range(scanR) = {q} \cup Range(scanR')
      BY <3>1, HeadTailRange
    <3>3. Range(scanF) = {}
      BY <3>1 DEF Range
    <3>4. /\ Unseen(i) = {g \in Fs : ResOf[g] \in Range(scanR) /\ ResOf[g] # r}
          /\ Unseen(i)' = (Range(scanF') \cup {g \in Fs : ResOf[g] \in Range(scanR')})
                            \ {g \in Fs : ResOf[g] = r}
      BY <1>2, <3>1, <3>3 DEF Unseen, SameR
    <3>5. Range(scanF') \subseteq {g \in Fs : ResOf[g] = q}
      BY <1>5, <3>1, <3>2
    <3>6. \A g \in Fs : Members(tlist[g]) # {} /\ ResOf[g] = q => g \in Range(scanF')
      BY <1>5, <3>1
    <3>7. QED BY <3>2, <3>4, <3>5, <3>6
  <2>4. QED BY <2>1, <2>2, <2>3
<1>7. \A g \in Unseen(i) \ (Unseen(i)') : \A t \in Members(tlist[g]) : \E j \in Reqs : on[j] = t
  BY <1>6
<1>8. QED BY <1>2, <1>3, <1>4, <1>6, <1>7, ScanStep

\* A function that is passed has no idle T.
LEMMA ProbeCount ==
  ASSUME Own, TTP!IInv, CountInv, NEW i \in Reqs, Probe(i)
  PROVE  CountInv'
<1> PICK f : f = Head(scanF)
  OBVIOUS
<1>1. /\ f \in Fs /\ Range(scanF) = {f} \cup Range(Tail(scanF))
      /\ dpc[i] \in {"probeSame", "probeOther"} /\ dpc[i] \in Scanning /\ holder = i
  BY HeadTailRange DEF Own, OwnType, DispatchInv, Held, Probe, Scanning
<1>2. Own' /\ UNCHANGED <<on, created, want, holder>>
  BY ProbeOwn DEF Probe, reqs
<1>3. CASE CanTakeIdle(tlist[f])
  <2>1. dpc' = [dpc EXCEPT ![i] = "newT"]
    BY <1>3 DEF Probe
  <2>2. \A j \in Reqs : j # i => dpc'[j] \notin Held
    BY <1>1, <1>2 DEF Own, DispatchInv
  <2>3. \A j \in Reqs : dpc'[j] \notin Scanning
    BY <2>1, <2>2 DEF Own, OwnType, Held, Scanning
  <2>4. QED BY <1>2, <2>3, NobodyScans
<1>4. CASE ~CanTakeIdle(tlist[f])
  <2>1. scanF' = Tail(scanF) /\ UNCHANGED <<tlist, dpc, scanR>>
    BY <1>4 DEF Probe
  <2>2. Unseen(i) \in SUBSET Fs /\ Bound(tlist, on, Unseen(i))
    BY <1>1, UnseenFs DEF CountInv
  <2>3. Unseen(i)' \subseteq Unseen(i) /\ \A g \in Unseen(i) \ (Unseen(i)') : g = f
    BY <1>1, <1>2, <2>1 DEF Unseen, SameR
  <2>4. \A t \in Members(tlist[f]) : \E j \in Reqs : on[j] = t
    <3>1. Conc[f] \in Nat \ {0} /\ NoT \notin Ts /\ Good(tlist[f], Conc[f])
      BY <1>1, ConcFacts, TaskPoolAssumption DEF Own, ListInv
    <3>2. \A t \in Members(tlist[f]) : LoadIn(tlist[f], t) > 0
      BY <1>4, <3>1, IdleChoice
    <3>3. QED BY <1>1, <3>2, LoadedHasRequest
  <2>5. dpc'[i] \in Scanning
    BY <1>1, <2>1
  <2>6. QED BY <1>2, <2>1, <2>2, <2>3, <2>4, <2>5, ScanStep
<1>5. QED BY <1>3, <1>4

\* A T is created only while there are fewer than requests.
LEMMA CreateTCount ==
  ASSUME Own, ReachInv, CountInv, NEW i \in Reqs, CreateT(i)
  PROVE  CountInv'
<1>1. /\ dpc[i] = "probeOther" /\ holder = i /\ hand = NoT
      /\ scanF = << >> /\ scanR = << >>
  BY DEF Own, OwnType, DispatchInv, Held, CreateT
<1>2. PICK t \in Ts \ created : created' = created \cup {t}
  BY DEF CreateT
<1>3. Bound(tlist, on, {})
  <2>1. Range(scanF) = {} /\ Range(scanR) = {}
    BY <1>1 DEF Range
  <2>2. Unseen(i) = {}
    BY <1>1, <2>1 DEF Unseen
  <2>3. QED BY <1>1, <2>2 DEF CountInv, Scanning
<1>4. created = TsOf(tlist, Fs \ {})
  <2>1. NoT \notin created
    BY TaskPoolAssumption DEF Own, OwnType
  <2>2. QED BY <1>1, <2>1 DEF TsOf, Own, ListInv, ReachInv
<1>5. Cardinality(created) < Cardinality(Reqs)
  <2>1. PlacedOn(tlist, on, {}) = {}
    BY DEF PlacedOn, TsOf
  <2>2. Cardinality(created) \in Nat
    BY FS_CardinalityType DEF CountInv
  <2>3. QED BY <1>3, <1>4, <2>1, <2>2, FS_EmptySet DEF Bound
<1>6. IsFiniteSet(created') /\ Cardinality(created') <= Cardinality(Reqs)
  <2>1. IsFiniteSet(created') /\ Cardinality(created') = Cardinality(created) + 1
    BY <1>2, FS_AddElement DEF CountInv
  <2>2. Cardinality(created) \in Nat /\ Cardinality(Reqs) \in Nat
    BY TaskPoolAssumption, FS_CardinalityType DEF CountInv
  <2>3. QED BY <1>5, <2>1, <2>2
<1>7. \A j \in Reqs : dpc'[j] \notin Scanning
  <2>1. \A j \in Reqs : j # i => dpc[j] \notin Held
    BY <1>1 DEF Own, DispatchInv
  <2>2. QED BY <2>1 DEF CreateT, Own, OwnType, Held, Scanning
<1>8. QED BY <1>6, <1>7 DEF CountInv

\* Every step keeps the bound.
LEMMA NextCount ==
  ASSUME OwnNames
  PROVE  Own /\ TTP!IInv /\ ReachInv /\ CountInv /\ [Next]_vars => CountInv'
<1> SUFFICES ASSUME Own, TTP!IInv, ReachInv, CountInv, [Next]_vars PROVE CountInv'
  OBVIOUS
<1>0. DOMAIN dpc = Reqs /\ DOMAIN want = Reqs /\ dpc = [i \in Reqs |-> dpc[i]]
  BY DEF Own, OwnType
<1>1. ASSUME NEW i \in Reqs, NEW f \in Fs, AccessR(i, f) PROVE CountInv'
  <2>1. \A j \in Reqs : dpc'[j] \in Scanning => dpc'[j] = dpc[j] /\ want'[j] = want[j]
    BY <1>0, <1>1 DEF AccessR, Scanning
  <2>2. QED BY <1>1, <2>1, CountKept DEF AccessR, reqs
<1>2. ASSUME NEW i \in Reqs, AccessF(i) PROVE CountInv'
  <2>1. \A j \in Reqs : dpc'[j] \in Scanning => dpc'[j] = dpc[j] /\ want'[j] = want[j]
    BY <1>0, <1>2 DEF AccessF, Scanning
  <2>2. QED BY <1>2, <2>1, CountKept DEF AccessF, reqs
<1>3. ASSUME NEW i \in Reqs, GetT(i) PROVE CountInv'
  BY <1>3, GetTCount
<1>4. ASSUME NEW i \in Reqs, Holding(i) PROVE CountInv'
  <2>1. CASE SnapshotSameR(i) \/ SnapshotRs(i) \/ SnapshotOtherR(i)
    BY <2>1, SnapshotCount
  <2>2. CASE Probe(i)
    BY <2>2, ProbeCount
  <2>3. CASE CreateT(i)
    BY <2>3, CreateTCount
  <2>4. CASE NewTForF(i)
    <3>1. holder = i /\ UNCHANGED created
      BY <2>4 DEF Own, DispatchInv, Held, NewTForF
    <3>2. \A j \in Reqs : j # i => dpc[j] \notin Held
      BY <3>1 DEF Own, DispatchInv
    <3>3. \A j \in Reqs : dpc'[j] \notin Scanning
      BY <1>0, <2>4, <3>2 DEF NewTForF, Held, Scanning
    <3>4. QED BY <3>1, <3>3, NobodyScans
  <2>5. QED BY <1>4, <2>1, <2>2, <2>3, <2>4 DEF Holding
<1>5. ASSUME NEW i \in Reqs, Push(i) PROVE CountInv'
  <2>1. \A j \in Reqs : dpc'[j] \in Scanning => dpc'[j] = dpc[j] /\ want'[j] = want[j]
    BY <1>0, <1>5 DEF Push, Scanning
  <2>2. UNCHANGED <<on, tlist, created, scanF, scanR>>
    BY <1>5 DEF Push, TT!Push
  <2>3. QED BY <2>1, <2>2, CountKept
<1>6. ASSUME NEW t \in Ts, TStep(t) PROVE CountInv'
  <2>1. CASE ReturnOne(t)
    <3>1. \A g \in Fs : Members(tlist'[g]) = Members(tlist[g])
      BY <2>1, ReturnOneOwn
    <3>2. \A j \in Reqs : on'[j] \in {on[j], NoT}
      BY <2>1 DEF ReturnOne, TT!LeaveT, reqs, TTP!IInv, TTP!TypeOK
    <3>3. UNCHANGED <<created, scanF, scanR, dpc, want>>
      BY <2>1 DEF ReturnOne
    <3>4. QED BY <3>1, <3>2, <3>3, CountKept
  <2>2. CASE /\ UNCHANGED pool
             /\ \/ TT!Poll(t) \/ TT!EndHandler(t) \/ TT!PopEntry(t)
                \/ TT!FinishNative(t) \/ TT!PopDone(t)
    <3>1. UNCHANGED on
      BY <2>2 DEF TT!Poll, TT!EndHandler, TT!PopEntry, TT!FinishNative, TT!PopDone,
                  TT!Respond, TT!Abort, TT!reqs
    <3>2. QED BY <2>2, <3>1, CountKept DEF pool
  <2>3. QED BY <1>6, <2>1, <2>2 DEF TStep
<1>7. ASSUME NEW t \in Ts, NEW w \in Workers, WorkerDone(t, w) PROVE CountInv'
  BY <1>7, CountKept DEF WorkerDone, TT!WorkerDone, pool
<1>8. CASE UNCHANGED vars
  BY <1>8, CountKept DEF vars, pool, reqs
<1>9. QED BY <1>1, <1>2, <1>3, <1>4, <1>5, <1>6, <1>7, <1>8 DEF Next

\* There are never more Ts than requests in flight at once, although the scan
\* looks at copies of lists, one function after the other, while requests come
\* back and other dispatches move the LRU lists, as long as no two functions of
\* one resource share a name (TaskPool.cpp, dispatch, getTFromOtherFInSameR,
\* getTFromOtherR).
THEOREM TsStayBounded ==
  ASSUME OwnNames
  PROVE  Spec => []TsBounded
<1>1. Init => CountInv
  <2>1. SUFFICES ASSUME Init PROVE CountInv
    OBVIOUS
  <2>2. created = {} /\ \A i \in Reqs : dpc[i] = "none"
    BY <2>1 DEF Init
  <2>3. Cardinality(Reqs) \in Nat /\ IsFiniteSet({}) /\ Cardinality({}) = 0
    BY TaskPoolAssumption, FS_CardinalityType, FS_EmptySet
  <2>4. Cardinality(created) <= Cardinality(Reqs)
    BY <2>2, <2>3
  <2>5. QED BY <2>2, <2>3, <2>4 DEF CountInv, Scanning
<1>2. Own /\ TTP!IInv /\ ReachInv /\ CountInv /\ [Next]_vars => CountInv'
  BY NextCount
<1>3. Spec => []ReachInv
  BY StaysReachable
<1>4. CountInv => TsBounded
  BY DEF CountInv, TsBounded
<1>5. QED BY <1>1, <1>2, <1>3, <1>4, Invariants, PTL DEF Spec
=============================================================================
