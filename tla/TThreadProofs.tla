--------------------------- MODULE TThreadProofs ---------------------------
(***************************************************************************)
(* Proofs about TThread, for any number of task threads, functions,        *)
(* requests and workers: the invariant IInv is inductive, and the safety   *)
(* properties that do not depend on how functions share resources follow.  *)
(***************************************************************************)
EXTENDS TThread, FiniteSetTheorems, FunctionTheorems, SequenceTheorems, TLAPS

USE DEF queues, thread, pool, done, lists, reqs

-----------------------------------------------------------------------------
(* Queues and counts.                                                      *)

\* Popping the first request of a queue.
LEMMA TailFacts ==
  ASSUME NEW q \in Seq(Reqs), q # << >>
  PROVE  /\ Head(q) \in Reqs /\ Head(q) = q[1]
         /\ Tail(q) \in Seq(Reqs) /\ Len(Tail(q)) = Len(q) - 1
         /\ \A k \in 1..Len(Tail(q)) : Tail(q)[k] = q[k + 1]
         /\ Len(q) \in Nat /\ Len(q) >= 1
BY HeadTailProperties, LenProperties

\* Pushing a request.
LEMMA AppendFacts ==
  ASSUME NEW q \in Seq(Reqs), NEW i \in Reqs
  PROVE  /\ Append(q, i) \in Seq(Reqs) /\ Len(Append(q, i)) = Len(q) + 1
         /\ \A k \in 1..Len(q) : Append(q, i)[k] = q[k]
         /\ Append(q, i)[Len(q) + 1] = i
         /\ Len(q) \in Nat
BY AppendProperties, LenProperties

\* Adding an element to a finite set, and taking one out.
LEMMA Counting ==
  ASSUME NEW S \in SUBSET Reqs
  PROVE  /\ IsFiniteSet(S) /\ Cardinality(S) \in Nat
         /\ Cardinality(S) = 0 <=> S = {}
         /\ \A i \in Reqs \ S : Cardinality(S \cup {i}) = Cardinality(S) + 1
         /\ \A i \in S : Cardinality(S \ {i}) = Cardinality(S) - 1
<1>1. IsFiniteSet(S)
  BY TThreadAssumption, FS_Subset
<1>2. Cardinality(S) \in Nat /\ (Cardinality(S) = 0 <=> S = {})
  BY <1>1, FS_CardinalityType, FS_EmptySet
<1>3. \A i \in Reqs \ S : Cardinality(S \cup {i}) = Cardinality(S) + 1
  BY <1>1, FS_AddElement
<1>4. \A i \in S : Cardinality(S \ {i}) = Cardinality(S) - 1
  BY <1>1, FS_RemoveElement
<1>5. QED BY <1>1, <1>2, <1>3, <1>4

\* The counters of one T.
LEMMA CountersOf ==
  ASSUME CountersAgree, NEW u \in Ts
  PROVE  /\ load[u] = Cardinality(OnT(u))
         /\ icount[u] = Cardinality(PoppedOn(u))
         /\ home[u] # NoF => load[u] <= Conc[home[u]]
BY DEF CountersAgree

\* OnT and PoppedOn are sets of requests.
LEMMA OnSubset == \A t : OnT(t) \in SUBSET Reqs /\ PoppedOn(t) \in SUBSET OnT(t)
BY DEF OnT, PoppedOn, Popped

-----------------------------------------------------------------------------
(* The initial states.                                                     *)

\* T(), TSortList() and WorkerPool() leave a state with no request anywhere.
LEMMA InitInv == Init => IInv
<1> SUFFICES ASSUME Init PROVE IInv
  OBVIOUS
<1>1. TypeOK
  BY TThreadAssumption, EmptySeq DEF Init, TypeOK, PCs, Stages, Aborts
<1>2. CountersAgree
  <2>1. \A t \in Ts : OnT(t) = {} /\ PoppedOn(t) = {}
    BY DEF Init, OnT, PoppedOn, Popped
  <2>2. QED BY <2>1, FS_EmptySet DEF Init, CountersAgree
<1>3. PlaceInv /\ HandInv /\ WorkerInv /\ EntryInv /\ ResourceInv
  BY DEF Init, PlaceInv, HandInv, WorkerInv, EntryInv, ResourceInv, Popped
<1>4. QueueInv
  BY EmptySeq DEF Init, QueueInv, Holds, Distinct
<1>5. AnsweredOnce /\ NoAbort /\ \A t \in Ts : home[t] = NoF => load[t] = 0
  BY DEF Init, AnsweredOnce, NoAbort
<1>6. QED BY <1>1, <1>2, <1>3, <1>4, <1>5 DEF IInv

-----------------------------------------------------------------------------
(* The dispatcher's steps.                                                 *)

\* A free request gets a place on a T of its function.
LEMMA AssignInv ==
  ASSUME IInv, NEW i \in Reqs, NEW f \in Fs, NEW t \in Ts, Assign(i, f, t),
         home' = [home EXCEPT ![t] = f],
         load' = [load EXCEPT ![t] = @ + 1],
         home[t] = f \/ home[t] = NoF,
         load[t] < Conc[f],
         UNCHANGED <<queues, thread, pool, done, aborted>>
  PROVE  IInv'
<1> USE DEF IInv
<1>1. TypeOK'
  BY DEF TypeOK, Assign, Stages
<1>2. /\ stage[i] = "free" /\ stage' = [stage EXCEPT ![i] = "taken"]
      /\ reqF' = [reqF EXCEPT ![i] = f] /\ on' = [on EXCEPT ![i] = t]
      /\ sent' = sent
  BY DEF Assign
<1>3. \A j \in Reqs : stage[j] # "free" /\ on[j] = t => reqF[j] = home[t] /\ home[t] = f
  <2>1. home[t] = NoF => OnT(t) = {}
    BY Counting, OnSubset, CountersOf
  <2>2. QED BY <2>1 DEF OnT, PlaceInv
<1>4. PlaceInv'
  BY <1>2, <1>3, TThreadAssumption DEF PlaceInv, TypeOK, Popped
<1>5. QueueInv'
  <2> SUFFICES ASSUME NEW u \in Ts
               PROVE  Holds(iq[u], u, "queued")' /\ Holds(doneQ[u], u, "done")'
    BY DEF QueueInv
  <2>1. Holds(iq[u], u, "queued") /\ Holds(doneQ[u], u, "done")
    BY DEF QueueInv
  <2>2. /\ \A k \in 1..Len(iq[u]) : iq[u][k] # i
        /\ \A k \in 1..Len(doneQ[u]) : doneQ[u][k] # i
    BY <1>2, <2>1 DEF Holds
  <2>3. iq[u] \in Seq(Reqs) /\ doneQ[u] \in Seq(Reqs)
    BY DEF TypeOK
  <2>4. \A j \in Reqs : j # i => stage'[j] = stage[j] /\ on'[j] = on[j]
    BY <1>2 DEF TypeOK
  <2>5. \A k \in 1..Len(iq[u]) : iq[u][k] \in Reqs
    BY <2>3, ElementOfSeq
  <2>6. \A k \in 1..Len(doneQ[u]) : doneQ[u][k] \in Reqs
    BY <2>3, ElementOfSeq
  <2>7. iq' = iq /\ doneQ' = doneQ
    OBVIOUS
  <2>8. Holds(iq[u], u, "queued")'
    BY <2>1, <2>2, <2>4, <2>5, <2>7 DEF Holds, Distinct
  <2>9. Holds(doneQ[u], u, "done")'
    BY <2>1, <2>2, <2>4, <2>6, <2>7 DEF Holds, Distinct
  <2>10. QED BY <2>8, <2>9
<1>6. HandInv'
  BY <1>2 DEF HandInv, TypeOK
<1>7. WorkerInv'
  BY <1>2 DEF WorkerInv, TypeOK
<1>8. EntryInv' /\ ResourceInv' /\ AnsweredOnce' /\ NoAbort'
  BY <1>2 DEF EntryInv, ResourceInv, AnsweredOnce, NoAbort, TypeOK
<1>9. CountersAgree'
  <2> SUFFICES ASSUME NEW u \in Ts
               PROVE  /\ load'[u] = Cardinality(OnT(u)')
                      /\ icount'[u] = Cardinality(PoppedOn(u)')
                      /\ home'[u] # NoF => load'[u] <= Conc[home'[u]]
    BY DEF CountersAgree
  <2>1. OnT(u)' = IF u = t THEN OnT(u) \cup {i} ELSE OnT(u)
    BY <1>2 DEF OnT, TypeOK, PlaceInv
  <2>2. PoppedOn(u)' = PoppedOn(u)
    BY <1>2 DEF PoppedOn, Popped, TypeOK
  <2>3. i \notin OnT(u)
    BY <1>2 DEF OnT
  <2>4. /\ load[u] = Cardinality(OnT(u)) /\ icount[u] = Cardinality(PoppedOn(u))
        /\ home[u] # NoF => load[u] <= Conc[home[u]]
    BY CountersOf
  <2>5. u = t => Cardinality(OnT(u)') = Cardinality(OnT(u)) + 1
    BY <2>1, <2>3, Counting, OnSubset
  <2>6. load'[u] = Cardinality(OnT(u)')
    BY <2>1, <2>4, <2>5 DEF TypeOK
  <2>7. icount'[u] = Cardinality(PoppedOn(u)')
    BY <2>2, <2>4
  <2>8. load[t] \in Nat /\ Conc[f] \in Nat
    BY TThreadAssumption DEF TypeOK
  <2>9. home'[u] # NoF => load'[u] <= Conc[home'[u]]
    BY <2>4, <2>8, TThreadAssumption DEF TypeOK
  <2>10. QED BY <2>6, <2>7, <2>9
<1>10. \A u \in Ts : home'[u] = NoF => load'[u] = 0
  BY TThreadAssumption DEF TypeOK
<1>11. QED BY <1>1, <1>4, <1>5, <1>6, <1>7, <1>8, <1>9, <1>10

\* f->getT: a T of the function with room gets the request.
LEMMA TakeOneInv ==
  ASSUME IInv, NEW i \in Reqs, NEW f \in Fs, NEW t \in Ts, TakeOne(i, f, t)
  PROVE  IInv'
<1>1. home' = [home EXCEPT ![t] = f]
  BY DEF TakeOne, HasRoom, IInv, TypeOK
<1>2. QED BY <1>1, AssignInv DEF TakeOne, HasRoom

\* f->newT: a T that is in no list joins one with the request.
LEMMA NewOneInv ==
  ASSUME IInv, NEW i \in Reqs, NEW f \in Fs, NEW t \in Ts, NewOne(i, f, t)
  PROVE  IInv'
<1>1. load[t] = 0 /\ Conc[f] \in Nat \ {0}
  BY TThreadAssumption DEF NewOne, IInv
<1>2. load' = [load EXCEPT ![t] = @ + 1]
  BY <1>1 DEF NewOne, IInv, TypeOK
<1>3. load[t] < Conc[f]
  BY <1>1
<1>4. QED BY <1>2, <1>3, AssignInv DEF NewOne

\* A T that leaves its function has no request.
LEMMA TakeIdleInv ==
  ASSUME IInv, NEW t \in Ts, TakeIdle(t)
  PROVE  IInv'
<1> USE DEF IInv
<1>1. home[t] # NoF /\ load[t] = 0 /\ home' = [home EXCEPT ![t] = NoF]
  BY DEF TakeIdle, Stealable
<1>2. UNCHANGED <<load, queues, thread, pool, done, reqs, aborted>>
  BY DEF TakeIdle
<1>3. OnT(t) = {}
  BY <1>1, Counting, OnSubset, CountersOf
<1>4. PlaceInv'
  BY <1>1, <1>2, <1>3 DEF PlaceInv, OnT, TypeOK
<1>5. CountersAgree'
  <2>1. \A u \in Ts : OnT(u)' = OnT(u) /\ PoppedOn(u)' = PoppedOn(u)
    BY <1>2 DEF OnT, PoppedOn
  <2>2. \A u \in Ts : home'[u] # NoF => home'[u] = home[u]
    BY <1>1 DEF TypeOK
  <2>3. QED BY <1>2, <2>1, <2>2, CountersOf DEF CountersAgree
<1>6. TypeOK' /\ \A u \in Ts : home'[u] = NoF => load'[u] = 0
  BY <1>1, <1>2 DEF TypeOK
<1>7. QueueInv' /\ HandInv' /\ WorkerInv' /\ EntryInv' /\ ResourceInv'
  BY <1>2 DEF QueueInv, Holds, HandInv, WorkerInv, EntryInv, ResourceInv
<1>8. AnsweredOnce' /\ NoAbort'
  BY <1>2 DEF AnsweredOnce, NoAbort
<1>9. QED BY <1>4, <1>5, <1>6, <1>7, <1>8

-----------------------------------------------------------------------------
(* Requests that move on along the path of their T.                        *)

\* Moving one placed request of t to another stage keeps what the stages of
\* the others are compared with.
LEMMA MoveOthers ==
  ASSUME TypeOK, NEW i \in Reqs, NEW st \in Stages,
         stage' = [stage EXCEPT ![i] = st]
  PROVE  /\ stage' \in [Reqs -> Stages] /\ stage'[i] = st
         /\ \A j \in Reqs : j # i => stage'[j] = stage[j]
BY DEF TypeOK

\* The counters when a placed request changes stage without leaving its T.
LEMMA MoveCounters ==
  ASSUME TypeOK, CountersAgree, NEW i \in Reqs, NEW st \in Stages \ {"free"},
         stage' = [stage EXCEPT ![i] = st], stage[i] # "free",
         on[i] \in Ts,
         stage[i] \in Popped => st \in Popped,
         icount' = IF stage[i] \notin Popped /\ st \in Popped
                   THEN [icount EXCEPT ![on[i]] = @ + 1] ELSE icount,
         UNCHANGED <<home, load, on>>
  PROVE  CountersAgree'
<1> SUFFICES ASSUME NEW u \in Ts
             PROVE  /\ load'[u] = Cardinality(OnT(u)')
                    /\ icount'[u] = Cardinality(PoppedOn(u)')
                    /\ home'[u] # NoF => load'[u] <= Conc[home'[u]]
  BY DEF CountersAgree
<1>1. /\ load[u] = Cardinality(OnT(u))
      /\ icount[u] = Cardinality(PoppedOn(u))
      /\ home[u] # NoF => load[u] <= Conc[home[u]]
  BY CountersOf
<1>2. OnT(u)' = OnT(u)
  BY DEF OnT, TypeOK
<1>3. icount'[u] = Cardinality(PoppedOn(u)')
  <2>1. CASE u = on[i] /\ stage[i] \notin Popped /\ st \in Popped
    <3>1. PoppedOn(u)' = PoppedOn(u) \cup {i} /\ i \notin PoppedOn(u)
      BY <2>1 DEF PoppedOn, TypeOK
    <3>2. Cardinality(PoppedOn(u)') = Cardinality(PoppedOn(u)) + 1
      BY <3>1, Counting, OnSubset
    <3>3. icount'[u] = icount[u] + 1
      BY <2>1 DEF TypeOK
    <3>4. QED BY <1>1, <3>2, <3>3
  <2>2. CASE ~(u = on[i] /\ stage[i] \notin Popped /\ st \in Popped)
    <3>1. PoppedOn(u)' = PoppedOn(u)
      BY <2>2 DEF PoppedOn, TypeOK
    <3>2. icount'[u] = icount[u]
      BY <2>2 DEF TypeOK
    <3>3. QED BY <1>1, <3>1, <3>2
  <2>3. QED BY <2>1, <2>2
<1>4. QED BY <1>1, <1>2, <1>3

\* A queue that does not hold i still holds what it held when i has moved.
LEMMA HoldsMove ==
  ASSUME TypeOK, NEW i \in Reqs, NEW st \in Stages,
         stage' = [stage EXCEPT ![i] = st], on' = on,
         NEW q \in Seq(Reqs), NEW u \in Ts, NEW s \in Stages, Holds(q, u, s),
         stage[i] # s \/ on[i] # u
  PROVE  /\ \A k \in 1..Len(q) : stage'[q[k]] = s /\ on'[q[k]] = u
         /\ Distinct(q)
<1>1. \A k \in 1..Len(q) : q[k] \in Reqs /\ q[k] # i
  BY ElementOfSeq DEF Holds
<1>2. QED BY <1>1, MoveOthers DEF Holds

\* The queues when a request moves that is in none of them.
LEMMA QueuesMove ==
  ASSUME TypeOK, QueueInv, NEW i \in Reqs, NEW st \in Stages, NEW u \in Ts,
         stage' = [stage EXCEPT ![i] = st], on' = on
  PROVE  /\ iq'[u] = iq[u] /\ (stage[i] # "queued" \/ on[i] # u) =>
              Holds(iq[u], u, "queued")'
         /\ doneQ'[u] = doneQ[u] /\ (stage[i] # "done" \/ on[i] # u) =>
              Holds(doneQ[u], u, "done")'
<1>1. /\ iq[u] \in Seq(Reqs) /\ Holds(iq[u], u, "queued")
      /\ doneQ[u] \in Seq(Reqs) /\ Holds(doneQ[u], u, "done")
      /\ "queued" \in Stages /\ "done" \in Stages
  BY DEF QueueInv, TypeOK, Stages
<1>2. ASSUME stage[i] # "queued" \/ on[i] # u
      PROVE  /\ \A k \in 1..Len(iq[u]) : /\ stage'[iq[u][k]] = "queued"
                                         /\ on'[iq[u][k]] = u
             /\ Distinct(iq[u])
  BY <1>1, <1>2, HoldsMove
<1>3. ASSUME stage[i] # "done" \/ on[i] # u
      PROVE  /\ \A k \in 1..Len(doneQ[u]) : /\ stage'[doneQ[u][k]] = "done"
                                            /\ on'[doneQ[u][k]] = u
             /\ Distinct(doneQ[u])
  BY <1>1, <1>3, HoldsMove
<1>4. QED BY <1>2, <1>3 DEF Holds, Distinct

\* What a queue holds after a push: what it held, and the new request.
LEMMA PushedFacts ==
  ASSUME NEW q \in Seq(Reqs), NEW i \in Reqs, NEW a, a = Append(q, i)
  PROVE  /\ \A k \in 1..Len(a) : a[k] = i \/ \E j \in 1..Len(q) : a[k] = q[j]
         /\ Distinct(q) /\ (\A k \in 1..Len(q) : q[k] # i) => Distinct(a)
<1>1. \A k \in 1..Len(a) : (k \in 1..Len(q) /\ a[k] = q[k])
                           \/ (k = Len(q) + 1 /\ a[k] = i)
  BY AppendFacts
<1>2. \A k \in 1..Len(a) : a[k] = i \/ \E j \in 1..Len(q) : a[k] = q[j]
  BY <1>1
<1>3. ASSUME Distinct(q), \A k \in 1..Len(q) : q[k] # i
      PROVE  Distinct(a)
  BY <1>1, <1>3 DEF Distinct
<1>4. QED BY <1>2, <1>3

\* Popping the head, which has moved to another stage.
LEMMA HoldsPop ==
  ASSUME NEW u \in Ts, NEW s \in Stages,
         NEW q \in Seq(Reqs), q # << >>, Holds(q, u, s),
         NEW i, i = Head(q), on' = on,
         \A j \in Reqs : j # i => stage'[j] = stage[j]
  PROVE  /\ \A k \in 1..Len(Tail(q)) : stage'[Tail(q)[k]] = s /\ on'[Tail(q)[k]] = u
         /\ Distinct(Tail(q))
<1>1. \A k \in 1..Len(Tail(q)) : k + 1 \in 1..Len(q) /\ Tail(q)[k] = q[k + 1]
  BY TailFacts
<1>2. \A k \in 1..Len(Tail(q)) : Tail(q)[k] \in Reqs /\ Tail(q)[k] # Head(q)
  BY <1>1, TailFacts, ElementOfSeq DEF Holds, Distinct
<1>3. \A k \in 1..Len(Tail(q)) : stage[Tail(q)[k]] = s /\ on[Tail(q)[k]] = u
  BY <1>1 DEF Holds
<1>4. Distinct(Tail(q))
  BY <1>1, TailFacts DEF Holds, Distinct
<1>5. QED BY <1>2, <1>3, <1>4

\* t->IQueue.push after the mutex: the request is still on a T of its
\* function.
LEMMA PushInv ==
  ASSUME IInv, NEW i \in Reqs, Push(i)
  PROVE  IInv'
<1> USE DEF IInv
<1> DEFINE t == on[i]
<1>1. /\ stage[i] = "taken" /\ stage' = [stage EXCEPT ![i] = "queued"]
      /\ iq' = [iq EXCEPT ![t] = Append(@, i)]
      /\ UNCHANGED <<pc, pending, cur, thread, pool, done, lists, reqF, on,
                     sent, aborted>>
  BY DEF Push
<1>2. t \in Ts
  BY <1>1 DEF PlaceInv
<1>3. TypeOK'
  BY <1>1, <1>2, AppendFacts DEF TypeOK, Stages
<1>4. PlaceInv'
  BY <1>1 DEF PlaceInv, TypeOK, Popped
<1>5. QueueInv'
  <2> SUFFICES ASSUME NEW u \in Ts
               PROVE  Holds(iq[u], u, "queued")' /\ Holds(doneQ[u], u, "done")'
    BY DEF QueueInv
  <2>1. Holds(iq[u], u, "queued") /\ iq[u] \in Seq(Reqs)
    BY DEF QueueInv, TypeOK
  <2>2. "queued" \in Stages /\ "done" \in Stages
    BY DEF Stages
  <2>3. Holds(doneQ[u], u, "done")'
    BY <1>1, <2>2, QueuesMove
  <2>4. CASE u = t
    <3>1. iq'[u] = Append(iq[u], i)
      BY <1>1, <2>4 DEF TypeOK
    <3>2. \A k \in 1..Len(iq[u]) : iq[u][k] \in Reqs /\ iq[u][k] # i
      BY <1>1, <2>1, ElementOfSeq DEF Holds
    <3>3. \A k \in 1..Len(iq[u]) : stage'[iq[u][k]] = "queued" /\ on[iq[u][k]] = u
      BY <1>1, <2>1, <3>2 DEF Holds, TypeOK
    <3>4. stage'[i] = "queued" /\ on' = on
      BY <1>1 DEF TypeOK
    <3>5. \A k \in 1..Len(iq'[u]) : stage'[iq'[u][k]] = "queued" /\ on'[iq'[u][k]] = u
      BY <2>1, <2>4, <3>1, <3>3, <3>4, PushedFacts
    <3>6. Distinct(iq'[u])
      BY <2>1, <3>1, <3>2, PushedFacts DEF Holds, Distinct
    <3>7. QED BY <2>3, <3>5, <3>6 DEF Holds, Distinct
  <2>5. CASE u # t
    <3>1. iq'[u] = iq[u]
      BY <1>1, <2>5 DEF TypeOK
    <3>2. QED BY <1>1, <2>2, <2>3, <2>5, <3>1, QueuesMove
  <2>6. QED BY <2>4, <2>5
<1>6. HandInv' /\ EntryInv' /\ ResourceInv' /\ AnsweredOnce' /\ NoAbort'
  BY <1>1 DEF HandInv, EntryInv, ResourceInv, AnsweredOnce, NoAbort, TypeOK
<1>7. WorkerInv'
  BY <1>1 DEF WorkerInv, TypeOK
<1>8. CountersAgree'
  BY <1>1, <1>2, MoveCounters DEF Stages, Popped
<1>9. \A u \in Ts : home'[u] = NoF => load'[u] = 0
  BY <1>1
<1>10. QED BY <1>3, <1>4, <1>5, <1>6, <1>7, <1>8, <1>9

\* Steps that only change where the T thread is, between two requests.
LEMMA PollInv ==
  ASSUME IInv, NEW t \in Ts, Poll(t) \/ EndHandler(t)
  PROVE  IInv'
<1> USE DEF IInv
<1>1. UNCHANGED <<iq, cur, thread, pool, done, lists, reqs, aborted>>
  BY DEF Poll, EndHandler
<1>2. \E p \in {"poll", "iq", "dq"} : pc' = [pc EXCEPT ![t] = p]
  BY DEF Poll, EndHandler, Ready, TypeOK
<1>3. \E P \in SUBSET {"iq", "dq"} : pending' = [pending EXCEPT ![t] = P]
  <2>1. CASE Poll(t)
    <3>1. Ready(t) \in SUBSET {"iq", "dq"}
      BY DEF Ready
    <3>2. QED BY <2>1, <3>1 DEF Poll
  <2>2. CASE EndHandler(t)
    <3>1. pending[t] \in SUBSET {"iq", "dq"}
      BY DEF TypeOK
    <3>2. pending = [pending EXCEPT ![t] = pending[t]]
      BY DEF TypeOK
    <3>3. QED BY <2>2, <3>1, <3>2 DEF EndHandler
  <2>3. QED BY <2>1, <2>2
<1>4. TypeOK'
  BY <1>1, <1>2, <1>3 DEF TypeOK, PCs
<1>5. HandInv'
  BY <1>1, <1>2 DEF HandInv, TypeOK
<1>6. CountersAgree'
  BY <1>1 DEF CountersAgree, OnT, PoppedOn
<1>7. PlaceInv' /\ QueueInv' /\ WorkerInv' /\ EntryInv' /\ ResourceInv'
  BY <1>1 DEF PlaceInv, QueueInv, Holds, WorkerInv, EntryInv, ResourceInv
<1>8. AnsweredOnce' /\ NoAbort' /\ \A u \in Ts : home'[u] = NoF => load'[u] = 0
  BY <1>1 DEF AnsweredOnce, NoAbort
<1>9. QED BY <1>4, <1>5, <1>6, <1>7, <1>8

\* A failed assertion changes nothing but aborted.
LEMMA AbortInv ==
  ASSUME IInv, NEW why \in {"resize_idle", "invoke"}, Abort(why)
  PROVE  IInv'
<1> USE DEF IInv
<1>1. /\ aborted' = why
      /\ UNCHANGED <<queues, thread, pool, done, lists, reqs>>
  BY DEF Abort
<1>2. TypeOK' /\ NoAbort'
  BY <1>1 DEF TypeOK, Aborts, NoAbort
<1>3. CountersAgree'
  BY <1>1 DEF CountersAgree, OnT, PoppedOn
<1>4. PlaceInv' /\ QueueInv' /\ WorkerInv' /\ EntryInv' /\ ResourceInv' /\ HandInv'
  BY <1>1 DEF PlaceInv, QueueInv, Holds, WorkerInv, EntryInv, ResourceInv, HandInv
<1>5. AnsweredOnce' /\ \A u \in Ts : home'[u] = NoF => load'[u] = 0
  BY <1>1 DEF AnsweredOnce
<1>6. QED BY <1>2, <1>3, <1>4, <1>5

\* doExecute answers the request the T thread has in hand.
LEMMA FinishNativeInv ==
  ASSUME IInv, NEW t \in Ts, FinishNative(t)
  PROVE  IInv'
<1> USE DEF IInv
<1> DEFINE i == cur[t]
<1>1. /\ pc[t] = "exec" /\ pc' = [pc EXCEPT ![t] = "iqret"]
      /\ stage' = [stage EXCEPT ![i] = "answered"]
      /\ sent' = [sent EXCEPT ![i] = @ + 1]
      /\ UNCHANGED <<iq, pending, cur, thread, pool, done, lists, reqF, on, aborted>>
  BY DEF FinishNative, Respond
<1>2. i \in Reqs /\ on[i] = t /\ stage[i] = "exec"
  BY <1>1 DEF HandInv
<1>3. TypeOK'
  BY <1>1, <1>2 DEF TypeOK, Stages, PCs
<1>4. PlaceInv'
  BY <1>1, <1>2 DEF PlaceInv, TypeOK, Popped
<1>5. QueueInv'
  <2> SUFFICES ASSUME NEW u \in Ts
               PROVE  Holds(iq[u], u, "queued")' /\ Holds(doneQ[u], u, "done")'
    BY DEF QueueInv
  <2>1. "answered" \in Stages
    BY DEF Stages
  <2>2. QED BY <1>1, <1>2, <2>1, QueuesMove
<1>6. HandInv'
  BY <1>1, <1>2 DEF HandInv, TypeOK
<1>7. WorkerInv'
  BY <1>1, <1>2 DEF WorkerInv, TypeOK
<1>8. EntryInv' /\ ResourceInv' /\ AnsweredOnce' /\ NoAbort'
  BY <1>1, <1>2 DEF EntryInv, ResourceInv, AnsweredOnce, NoAbort, TypeOK
<1>9. CountersAgree'
  BY <1>1, <1>2, MoveCounters DEF Stages, Popped
<1>10. \A u \in Ts : home'[u] = NoF => load'[u] = 0
  BY <1>1
<1>11. QED BY <1>3, <1>4, <1>5, <1>6, <1>7, <1>8, <1>9, <1>10

-----------------------------------------------------------------------------
(* Popping a request.                                                      *)

\* What the head of an IQueue is, and what its T may not be doing: checkI
\* accepts it, and a T that changes resource has no busy worker.
LEMMA PopFacts ==
  ASSUME IInv, NEW t \in Ts, iq[t] # << >>, NEW i, i = Head(iq[t])
  PROVE  /\ i \in Reqs /\ stage[i] = "queued" /\ on[i] = t
         /\ reqF[i] \in Fs /\ home[t] = reqF[i]
         /\ Accepts(t, reqF[i])
         /\ Adjusts(t, reqF[i]) => busy[t] = {}
<1> USE DEF IInv
<1>1. iq[t] \in Seq(Reqs) /\ Holds(iq[t], t, "queued")
  BY DEF TypeOK, QueueInv
<1>2. i \in Reqs /\ i = iq[t][1] /\ 1 \in 1..Len(iq[t])
  BY <1>1, TailFacts
<1>3. stage[i] = "queued" /\ on[i] = t
  BY <1>1, <1>2 DEF Holds
<1>4. reqF[i] \in Fs /\ home[t] = reqF[i]
  BY <1>2, <1>3 DEF PlaceInv
<1>5. PoppedOn(t) # {} => workFor[t] = reqF[i]
  BY <1>4 DEF PlaceInv, PoppedOn, Popped
<1>6. icount[t] # 0 => PoppedOn(t) # {}
  BY CountersOf, FS_EmptySet
<1>7. ASSUME Adjusts(t, reqF[i]) PROVE busy[t] = {}
  <2>1. PoppedOn(t) = {}
    BY <1>5, <1>7 DEF Adjusts
  <2>2. \A w \in busy[t] : wq[t][w] \in Seq(Reqs) /\ Len(wq[t][w]) = 1
    BY DEF WorkerInv, TypeOK
  <2>3. \A w \in busy[t] : wq[t][w][1] \in Reqs
    BY <2>2, ElementOfSeq
  <2>4. \A w \in busy[t] : wq[t][w][1] \in PoppedOn(t)
    BY <2>3 DEF WorkerInv, PoppedOn, Popped
  <2>5. QED BY <2>1, <2>4
<1>8. Accepts(t, reqF[i])
  BY <1>5, <1>6 DEF Accepts
<1>9. QED BY <1>2, <1>3, <1>4, <1>7, <1>8

\* The part of a pop that does not depend on who executes the instance.
LEMMA SwitchInv ==
  ASSUME IInv, NEW t \in Ts, iq[t] # << >>, NEW i, i = Head(iq[t]),
         NEW st \in {"exec", "running"}, Switch(t, reqF[i]),
         stage' = [stage EXCEPT ![i] = st],
         UNCHANGED <<doneQ, lists, reqF, on, sent, aborted>>
  PROVE  /\ PlaceInv' /\ QueueInv' /\ ResourceInv' /\ CountersAgree'
         /\ AnsweredOnce' /\ NoAbort'
         /\ \A u \in Ts : home'[u] = NoF => load'[u] = 0
<1> USE DEF IInv
<1>1. /\ i \in Reqs /\ stage[i] = "queued" /\ on[i] = t
      /\ reqF[i] \in Fs /\ home[t] = reqF[i]
  BY PopFacts
<1>2. /\ workFor' = [workFor EXCEPT ![t] = reqF[i]]
      /\ curRes' = [curRes EXCEPT ![t] = IF Adjusts(t, reqF[i])
                                         THEN ResOf[reqF[i]] ELSE @]
      /\ icount' = [icount EXCEPT ![t] = @ + 1]
      /\ iq' = [iq EXCEPT ![t] = Tail(@)]
  BY DEF Switch
<1>3. st \in Popped /\ st \in Stages \ {"free"}
  BY DEF Popped, Stages
<1>4. PlaceInv'
  <2>1. \A j \in Reqs : stage'[j] # "free" => /\ stage[j] # "free"
    BY <1>1 DEF TypeOK
  <2>2. \A j \in Reqs : stage'[j] = "free" => stage[j] = "free"
    BY <1>1, <1>3 DEF TypeOK
  <2>3. ASSUME NEW j \in Reqs, stage'[j] \in Popped
        PROVE  workFor'[on[j]] = reqF[j]
    <3>1. stage[j] # "free" /\ on[j] \in Ts /\ home[on[j]] = reqF[j]
      BY <2>1, <2>3 DEF PlaceInv, Popped
    <3>2. CASE on[j] = t
      BY <1>1, <1>2, <3>1, <3>2 DEF TypeOK
    <3>3. CASE on[j] # t
      <4>1. stage[j] \in Popped
        BY <1>1, <2>3, <3>3 DEF TypeOK
      <4>2. QED BY <1>2, <3>1, <3>3, <4>1 DEF PlaceInv, TypeOK
    <3>4. QED BY <3>2, <3>3
  <2>4. QED BY <2>1, <2>2, <2>3 DEF PlaceInv
<1>5. QueueInv'
  <2> SUFFICES ASSUME NEW u \in Ts
               PROVE  Holds(iq[u], u, "queued")' /\ Holds(doneQ[u], u, "done")'
    BY DEF QueueInv
  <2>1. "queued" \in Stages /\ st \in Stages
    BY DEF Stages
  <2>2. Holds(doneQ[u], u, "done")'
    BY <1>1, <2>1, QueuesMove
  <2>3. CASE u = t
    <3>1. iq'[u] = Tail(iq[u]) /\ iq[u] \in Seq(Reqs) /\ Holds(iq[u], u, "queued")
      BY <1>2, <2>3 DEF TypeOK, QueueInv
    <3>2. stage' = [stage EXCEPT ![Head(iq[u])] = st] /\ on' = on /\ iq[u] # << >>
      BY <2>3
    <3>3. /\ \A k \in 1..Len(Tail(iq[u])) :
               stage'[Tail(iq[u])[k]] = "queued" /\ on'[Tail(iq[u])[k]] = u
          /\ Distinct(Tail(iq[u]))
      <4>1. i = Head(iq[u]) /\ \A j \in Reqs : j # i => stage'[j] = stage[j]
        BY <1>1, <2>3 DEF TypeOK
      <4>2. QED BY <2>1, <3>1, <3>2, <4>1, HoldsPop
    <3>4. QED BY <2>2, <3>1, <3>3 DEF Holds, Distinct
  <2>4. CASE u # t
    <3>1. iq'[u] = iq[u]
      BY <1>2, <2>4 DEF TypeOK
    <3>2. QED BY <1>1, <2>1, <2>2, <2>4, <3>1, QueuesMove
  <2>5. QED BY <2>3, <2>4
<1>6. ResourceInv'
  BY <1>1, <1>2 DEF ResourceInv, Adjusts, TypeOK
<1>7. CountersAgree'
  <2>1. stage[i] \notin Popped
    BY <1>1 DEF Popped
  <2>2. QED BY <1>1, <1>2, <1>3, <2>1, MoveCounters
<1>8. AnsweredOnce' /\ NoAbort'
  BY <1>1 DEF AnsweredOnce, NoAbort, TypeOK
<1>9. \A u \in Ts : home'[u] = NoF => load'[u] = 0
  OBVIOUS
<1>10. QED BY <1>4, <1>5, <1>6, <1>7, <1>8, <1>9

\* The workers that stay, and the one that is chosen.
LEMMA KeptFacts ==
  ASSUME IInv, NEW t \in Ts, NEW f \in Fs, NEW S \in Kept(t, f)
  PROVE  /\ S \subseteq idle[t]
         /\ \A n \in Nat : Candidates(t, S, n) \subseteq Workers \ busy[t]
<1>1. S \subseteq idle[t]
  BY DEF Kept
<1>2. idle[t] \subseteq Workers \ busy[t]
  BY DEF IInv, WorkerInv, TypeOK
<1>3. QED BY <1>1, <1>2 DEF Candidates

\* handleIQueue pops an instance of a native function.
LEMMA NativeInv ==
  ASSUME IInv, NEW t \in Ts, pc[t] = "iq", iq[t] # << >>,
         NEW i, i = Head(iq[t]),
         Switch(t, reqF[i]), StartNative(t, i),
         UNCHANGED <<pending, doneQ, lists, reqF, on, sent, aborted>>
  PROVE  IInv'
<1> USE DEF IInv
<1>1. /\ i \in Reqs /\ stage[i] = "queued" /\ on[i] = t /\ reqF[i] \in Fs
  BY PopFacts
<1>2. PICK S \in Kept(t, reqF[i]) : idle' = [idle EXCEPT ![t] = S]
  BY DEF StartNative
<1>3. /\ pc' = [pc EXCEPT ![t] = "exec"] /\ cur' = [cur EXCEPT ![t] = i]
      /\ stage' = [stage EXCEPT ![i] = "exec"]
      /\ UNCHANGED <<busy, wq, entries>>
  BY DEF StartNative
<1>4. S \subseteq idle[t]
  BY <1>1, KeptFacts
<1>5. /\ PlaceInv' /\ QueueInv' /\ ResourceInv' /\ CountersAgree'
      /\ AnsweredOnce' /\ NoAbort'
      /\ \A u \in Ts : home'[u] = NoF => load'[u] = 0
  BY <1>3, SwitchInv
<1>6. TypeOK'
  <2>1. Tail(iq[t]) \in Seq(Reqs)
    BY TailFacts DEF TypeOK
  <2>2. NewSize(t, reqF[i]) \in Nat /\ ResOf[reqF[i]] \in Rs
    BY <1>1, TThreadAssumption DEF NewSize, TypeOK
  <2>3. /\ iq' \in [Ts -> Seq(Reqs)] /\ workFor' \in [Ts -> Fs \cup {NoF}]
        /\ curRes' \in [Ts -> Rs \cup {NoR}] /\ icount' \in [Ts -> Nat]
        /\ size' \in [Ts -> Nat]
    BY <1>1, <2>1, <2>2 DEF Switch, TypeOK
  <2>4. QED BY <1>1, <1>2, <1>3, <1>4, <2>3 DEF TypeOK, PCs, Stages
<1>7. HandInv'
  BY <1>1, <1>3 DEF HandInv, TypeOK
<1>8. WorkerInv'
  BY <1>1, <1>2, <1>3, <1>4 DEF WorkerInv, TypeOK
<1>9. EntryInv'
  BY <1>1, <1>3 DEF EntryInv, TypeOK
<1>10. QED BY <1>5, <1>6, <1>7, <1>8, <1>9

\* handleIQueue pops an instance of a wasm function, and invoke finds a
\* worker.
LEMMA WasmInv ==
  ASSUME IInv, NEW t \in Ts, pc[t] = "iq", iq[t] # << >>,
         NEW i, i = Head(iq[t]),
         Switch(t, reqF[i]), StartWasm(t, i),
         UNCHANGED <<pending, doneQ, lists, reqF, on, sent, aborted>>
  PROVE  IInv'
<1> USE DEF IInv
<1>1. /\ i \in Reqs /\ stage[i] = "queued" /\ on[i] = t /\ reqF[i] \in Fs
  BY PopFacts
<1>2. NewSize(t, reqF[i]) \in Nat /\ ResOf[reqF[i]] \in Rs
  BY <1>1, TThreadAssumption DEF NewSize, TypeOK
<1>3a. PICK S \in Kept(t, reqF[i]) :
         \E w \in Candidates(t, S, NewSize(t, reqF[i])) :
           /\ idle' = [idle EXCEPT ![t] = S \ {w}]
           /\ busy' = [busy EXCEPT ![t] = @ \cup {w}]
           /\ wq' = [wq EXCEPT ![t][w] = Append(@, i)]
  BY DEF StartWasm
<1>3. PICK w \in Candidates(t, S, NewSize(t, reqF[i])) :
        /\ idle' = [idle EXCEPT ![t] = S \ {w}]
        /\ busy' = [busy EXCEPT ![t] = @ \cup {w}]
        /\ wq' = [wq EXCEPT ![t][w] = Append(@, i)]
  BY <1>3a
<1>4. /\ entries' = [entries EXCEPT ![t] = @ \cup {i}]
      /\ stage' = [stage EXCEPT ![i] = "running"]
      /\ UNCHANGED <<pc, cur>>
  BY DEF StartWasm
<1>5. S \subseteq idle[t] /\ w \in Workers /\ w \notin busy[t]
  BY <1>1, <1>2, KeptFacts
<1>6. /\ PlaceInv' /\ QueueInv' /\ ResourceInv' /\ CountersAgree'
      /\ AnsweredOnce' /\ NoAbort'
      /\ \A u \in Ts : home'[u] = NoF => load'[u] = 0
  BY <1>4, SwitchInv
<1>7. wq[t][w] = << >> /\ Append(wq[t][w], i) = <<i>>
  <2>1. wq[t][w] = << >>
    BY <1>5 DEF WorkerInv
  <2>2. QED BY <2>1
<1>8. TypeOK'
  <2>1. Tail(iq[t]) \in Seq(Reqs)
    BY TailFacts DEF TypeOK
  <2>2. /\ iq' \in [Ts -> Seq(Reqs)] /\ workFor' \in [Ts -> Fs \cup {NoF}]
        /\ curRes' \in [Ts -> Rs \cup {NoR}] /\ icount' \in [Ts -> Nat]
        /\ size' \in [Ts -> Nat]
    BY <1>1, <1>2, <2>1 DEF Switch, TypeOK
  <2>3. Append(wq[t][w], i) \in Seq(Reqs)
    BY <1>1, <1>5, AppendFacts DEF TypeOK
  <2>4. wq' \in [Ts -> [Workers -> Seq(Reqs)]]
    BY <1>3, <1>5, <2>3 DEF TypeOK
  <2>5. idle' \in [Ts -> SUBSET Workers] /\ busy' \in [Ts -> SUBSET Workers]
    BY <1>3, <1>5 DEF TypeOK
  <2>6. stage' \in [Reqs -> Stages] /\ entries' \in [Ts -> SUBSET Reqs]
    BY <1>1, <1>4 DEF TypeOK, Stages
  <2>7. QED BY <1>4, <2>2, <2>4, <2>5, <2>6 DEF TypeOK
<1>9. HandInv'
  BY <1>1, <1>4 DEF HandInv, TypeOK
<1>10. WorkerInv'
  <2> SUFFICES ASSUME NEW u \in Ts
      PROVE  /\ idle'[u] \cap busy'[u] = {}
             /\ \A v \in Workers \ busy'[u] : wq'[u][v] = << >>
             /\ \A v \in busy'[u] : /\ Len(wq'[u][v]) = 1
                                    /\ stage'[wq'[u][v][1]] = "running"
                                    /\ on'[wq'[u][v][1]] = u
             /\ \A v, x \in busy'[u] : v # x => wq'[u][v][1] # wq'[u][x][1]
    BY DEF WorkerInv
  <2>1. \A v \in busy[u] : wq[u][v][1] \in Reqs /\ wq[u][v][1] # i /\ v \in Workers
    <3>1. \A v \in busy[u] : wq[u][v] \in Seq(Reqs) /\ Len(wq[u][v]) = 1 /\ v \in Workers
      BY DEF WorkerInv, TypeOK
    <3>2. QED BY <1>1, <3>1, ElementOfSeq DEF WorkerInv
  <2>2. \A v \in busy[u] : stage'[wq[u][v][1]] = "running" /\ on'[wq[u][v][1]] = u
    BY <1>1, <1>4, <2>1 DEF WorkerInv, TypeOK
  <2>3. CASE u # t
    <3>1. idle'[u] = idle[u] /\ busy'[u] = busy[u] /\ wq'[u] = wq[u]
      BY <1>3, <2>3 DEF TypeOK
    <3>2. QED BY <2>2, <3>1 DEF WorkerInv
  <2>4. CASE u = t
    <3>1. idle'[u] = S \ {w} /\ busy'[u] = busy[u] \cup {w}
      BY <1>3, <2>4 DEF TypeOK
    <3>2. wq'[u][w] = <<i>> /\ \A v \in Workers : v # w => wq'[u][v] = wq[u][v]
      BY <1>3, <1>5, <1>7, <2>4 DEF TypeOK
    <3>3. idle'[u] \cap busy'[u] = {}
      BY <1>5, <2>4, <3>1 DEF WorkerInv
    <3>4. \A v \in Workers \ busy'[u] : wq'[u][v] = << >>
      BY <3>1, <3>2 DEF WorkerInv
    <3>5. Len(<<i>>) = 1 /\ <<i>>[1] = i /\ stage'[i] = "running" /\ on'[i] = u
      BY <1>1, <1>4, <2>4 DEF TypeOK
    <3>6. \A v \in busy'[u] : \/ v = w
                              \/ v \in busy[u] /\ wq'[u][v] = wq[u][v]
      BY <2>1, <3>1, <3>2
    <3>7. ASSUME NEW v \in busy'[u]
          PROVE  /\ Len(wq'[u][v]) = 1
                 /\ stage'[wq'[u][v][1]] = "running"
                 /\ on'[wq'[u][v][1]] = u
      <4>1. \A x \in busy[u] : Len(wq[u][x]) = 1
        BY DEF WorkerInv
      <4>2. CASE v = w
        BY <3>2, <3>5, <4>2
      <4>3. CASE v \in busy[u] /\ wq'[u][v] = wq[u][v]
        BY <2>2, <4>1, <4>3
      <4>4. QED BY <3>6, <4>2, <4>3
    <3>8. \A v, x \in busy'[u] : v # x => wq'[u][v][1] # wq'[u][x][1]
      BY <2>1, <3>2, <3>5, <3>6 DEF WorkerInv
    <3>9. QED BY <3>3, <3>4, <3>7, <3>8
  <2>5. QED BY <2>3, <2>4
<1>11. EntryInv'
  BY <1>1, <1>4 DEF EntryInv, TypeOK, PlaceInv
<1>12. QED BY <1>6, <1>8, <1>9, <1>10, <1>11

\* One round of handleIQueue, whether an assertion fails or not.
LEMMA PopEntryInv ==
  ASSUME IInv, NEW t \in Ts, PopEntry(t)
  PROVE  IInv'
<1> DEFINE i == Head(iq[t])
<1>1. pc[t] = "iq" /\ iq[t] # << >>
  BY DEF PopEntry
<1>2. Accepts(t, reqF[i]) /\ (Adjusts(t, reqF[i]) => busy[t] = {})
  BY <1>1, PopFacts
<1>3. Fault(t, reqF[i]) \in {"resize_idle", "invoke", "no"}
  BY <1>2 DEF Fault
<1>4. CASE Fault(t, reqF[i]) # "no" /\ Abort(Fault(t, reqF[i]))
  BY <1>3, <1>4, AbortInv
<1>5. CASE /\ Switch(t, reqF[i])
           /\ StartNative(t, i) \/ StartWasm(t, i)
           /\ UNCHANGED <<pending, doneQ, lists, reqF, on, sent, aborted>>
  BY <1>1, <1>5, NativeInv, WasmInv
<1>6. QED BY <1>4, <1>5 DEF PopEntry

-----------------------------------------------------------------------------
(* The results of the workers, and the end of a request.                   *)

\* invokeDone: the worker is idle and the result is in doneQueue.
LEMMA WorkerDoneInv ==
  ASSUME IInv, NEW t \in Ts, NEW w \in Workers, WorkerDone(t, w)
  PROVE  IInv'
<1> USE DEF IInv
<1> DEFINE i == Head(wq[t][w])
<1>1. /\ wq[t][w] # << >>
      /\ doneQ' = [doneQ EXCEPT ![t] = Append(@, i)]
      /\ stage' = [stage EXCEPT ![i] = "done"]
      /\ wq' = [wq EXCEPT ![t][w] = Tail(@)]
      /\ busy' = [busy EXCEPT ![t] = @ \ {w}]
      /\ idle' = [idle EXCEPT ![t] = @ \cup {w}]
      /\ UNCHANGED <<queues, thread, size, entries, lists, reqF, on, sent, aborted>>
  BY DEF WorkerDone
<1>2. w \in busy[t] /\ wq[t][w] \in Seq(Reqs) /\ Len(wq[t][w]) = 1
  BY <1>1 DEF WorkerInv, TypeOK
<1>3. i \in Reqs /\ i = wq[t][w][1] /\ stage[i] = "running" /\ on[i] = t
  BY <1>1, <1>2, TailFacts DEF WorkerInv
<1>4. Tail(wq[t][w]) = << >>
  <2>1. Tail(wq[t][w]) \in Seq(Reqs) /\ Len(Tail(wq[t][w])) = 0
    BY <1>1, <1>2, TailFacts
  <2>2. QED BY <2>1, EmptySeq
<1>5. TypeOK'
  <2>1. Append(doneQ[t], i) \in Seq(Reqs)
    BY <1>3, AppendFacts DEF TypeOK
  <2>2. doneQ' \in [Ts -> Seq(Reqs)]
    BY <1>1, <2>1 DEF TypeOK
  <2>3. << >> \in Seq(Reqs)
    BY EmptySeq
  <2>4. wq' \in [Ts -> [Workers -> Seq(Reqs)]]
    BY <1>1, <1>4, <2>3 DEF TypeOK
  <2>5. stage' \in [Reqs -> Stages]
    BY <1>1, <1>3 DEF TypeOK, Stages
  <2>6. busy' \in [Ts -> SUBSET Workers] /\ idle' \in [Ts -> SUBSET Workers]
    BY <1>1 DEF TypeOK
  <2>7. QED BY <1>1, <2>2, <2>4, <2>5, <2>6 DEF TypeOK
<1>6. PlaceInv'
  BY <1>1, <1>3 DEF PlaceInv, TypeOK, Popped
<1>7. QueueInv'
  <2> SUFFICES ASSUME NEW u \in Ts
               PROVE  Holds(iq[u], u, "queued")' /\ Holds(doneQ[u], u, "done")'
    BY DEF QueueInv
  <2>1. Holds(doneQ[u], u, "done") /\ doneQ[u] \in Seq(Reqs)
    BY DEF QueueInv, TypeOK
  <2>2. "queued" \in Stages /\ "done" \in Stages
    BY DEF Stages
  <2>3. Holds(iq[u], u, "queued")'
    BY <1>1, <1>3, <2>2, QueuesMove
  <2>4. CASE u = t
    <3>1. doneQ'[u] = Append(doneQ[u], i)
      BY <1>1, <2>4 DEF TypeOK
    <3>2. \A k \in 1..Len(doneQ[u]) : doneQ[u][k] \in Reqs /\ doneQ[u][k] # i
      BY <1>3, <2>1, ElementOfSeq DEF Holds
    <3>3. \A k \in 1..Len(doneQ[u]) : stage'[doneQ[u][k]] = "done" /\ on[doneQ[u][k]] = u
      BY <1>1, <2>1, <3>2 DEF Holds, TypeOK
    <3>4. stage'[i] = "done" /\ on' = on
      BY <1>1, <1>3 DEF TypeOK
    <3>5. \A k \in 1..Len(doneQ'[u]) : stage'[doneQ'[u][k]] = "done" /\ on'[doneQ'[u][k]] = u
      BY <1>3, <2>1, <2>4, <3>1, <3>3, <3>4, PushedFacts
    <3>6. Distinct(doneQ'[u])
      BY <1>3, <2>1, <3>1, <3>2, PushedFacts DEF Holds, Distinct
    <3>7. QED BY <2>3, <3>5, <3>6 DEF Holds, Distinct
  <2>5. CASE u # t
    <3>1. doneQ'[u] = doneQ[u]
      BY <1>1, <2>5 DEF TypeOK
    <3>2. QED BY <1>1, <1>3, <2>2, <2>3, <2>5, <3>1, QueuesMove
  <2>6. QED BY <2>4, <2>5
<1>8. HandInv'
  BY <1>1, <1>3 DEF HandInv, TypeOK
<1>9. WorkerInv'
  <2> SUFFICES ASSUME NEW u \in Ts
      PROVE  /\ idle'[u] \cap busy'[u] = {}
             /\ \A v \in Workers \ busy'[u] : wq'[u][v] = << >>
             /\ \A v \in busy'[u] : /\ Len(wq'[u][v]) = 1
                                    /\ stage'[wq'[u][v][1]] = "running"
                                    /\ on'[wq'[u][v][1]] = u
             /\ \A v, x \in busy'[u] : v # x => wq'[u][v][1] # wq'[u][x][1]
    BY DEF WorkerInv
  <2>1. \A v \in busy'[u] : v \in busy[u] /\ v \in Workers /\ wq'[u][v] = wq[u][v]
    BY <1>1 DEF TypeOK
  <2>2. \A v \in busy'[u] : wq[u][v][1] \in Reqs
    <3>1. \A v \in busy'[u] : wq[u][v] \in Seq(Reqs) /\ Len(wq[u][v]) = 1
      BY <2>1 DEF WorkerInv, TypeOK
    <3>2. QED BY <3>1, ElementOfSeq
  <2>3. \A v \in busy'[u] : wq[u][v][1] # i
    <3>1. CASE u = t
      BY <1>1, <1>2, <1>3, <2>1, <3>1 DEF WorkerInv, TypeOK
    <3>2. CASE u # t
      BY <1>3, <2>1, <3>2 DEF WorkerInv
    <3>3. QED BY <3>1, <3>2
  <2>4. \A v \in busy'[u] : stage'[wq[u][v][1]] = "running" /\ on'[wq[u][v][1]] = u
    BY <1>1, <2>1, <2>2, <2>3 DEF WorkerInv, TypeOK
  <2>5. \A v \in Workers \ busy'[u] : wq'[u][v] = << >>
    <3>1. CASE u = t
      <4>1. wq'[u][w] = << >> /\ \A v \in Workers : v # w => wq'[u][v] = wq[u][v]
        BY <1>1, <1>4, <3>1 DEF TypeOK
      <4>2. \A v \in Workers \ busy'[u] : v = w \/ v \in Workers \ busy[u]
        BY <1>1, <3>1 DEF TypeOK
      <4>3. QED BY <4>1, <4>2 DEF WorkerInv
    <3>2. CASE u # t
      <4>1. wq'[u] = wq[u] /\ busy'[u] = busy[u]
        BY <1>1, <3>2 DEF TypeOK
      <4>2. QED BY <4>1 DEF WorkerInv
    <3>3. QED BY <3>1, <3>2
  <2>6. idle'[u] \cap busy'[u] = {}
    BY <1>1 DEF WorkerInv, TypeOK
  <2>7. \A v, x \in busy'[u] : v # x => wq'[u][v][1] # wq'[u][x][1]
    BY <2>1 DEF WorkerInv
  <2>8. \A v \in busy'[u] : Len(wq'[u][v]) = 1
    BY <2>1 DEF WorkerInv
  <2>9. QED BY <2>1, <2>4, <2>5, <2>6, <2>7, <2>8
<1>10. EntryInv' /\ ResourceInv' /\ AnsweredOnce' /\ NoAbort'
  BY <1>1, <1>3 DEF EntryInv, ResourceInv, AnsweredOnce, NoAbort, TypeOK
<1>11. CountersAgree'
  BY <1>1, <1>3, MoveCounters DEF Stages, Popped
<1>12. \A u \in Ts : home'[u] = NoF => load'[u] = 0
  BY <1>1
<1>13. QED BY <1>5, <1>6, <1>7, <1>8, <1>9, <1>10, <1>11, <1>12

\* handleInvokeDoneMsgQueue finds the entry of the result, and answers.
LEMMA PopDoneInv ==
  ASSUME IInv, NEW t \in Ts, PopDone(t)
  PROVE  IInv'
<1> USE DEF IInv
<1> DEFINE i == Head(doneQ[t])
<1>1. doneQ[t] # << >> /\ doneQ[t] \in Seq(Reqs) /\ Holds(doneQ[t], t, "done")
  BY DEF PopDone, TypeOK, QueueInv
<1>2. i \in Reqs /\ i = doneQ[t][1] /\ 1 \in 1..Len(doneQ[t])
  BY <1>1, TailFacts
<1>3. stage[i] = "done" /\ on[i] = t
  BY <1>1, <1>2 DEF Holds
<1>4. i \in entries[t]
  BY <1>2, <1>3 DEF EntryInv
<1>5. /\ pc[t] = "dq" /\ pc' = [pc EXCEPT ![t] = "dqret"]
      /\ cur' = [cur EXCEPT ![t] = i]
      /\ entries' = [entries EXCEPT ![t] = @ \ {i}]
      /\ doneQ' = [doneQ EXCEPT ![t] = Tail(@)]
      /\ stage' = [stage EXCEPT ![i] = "answered"]
      /\ sent' = [sent EXCEPT ![i] = @ + 1]
      /\ UNCHANGED <<iq, pending, thread, pool, lists, reqF, on, aborted>>
  BY <1>4 DEF PopDone, Respond
<1>6. TypeOK'
  <2>1. Tail(doneQ[t]) \in Seq(Reqs)
    BY <1>1, TailFacts
  <2>2. doneQ' \in [Ts -> Seq(Reqs)]
    BY <1>5, <2>1 DEF TypeOK
  <2>3. stage' \in [Reqs -> Stages] /\ sent' \in [Reqs -> Nat]
    BY <1>2, <1>5 DEF TypeOK, Stages
  <2>4. QED BY <1>2, <1>5, <2>2, <2>3 DEF TypeOK, PCs
<1>7. PlaceInv'
  BY <1>2, <1>3, <1>5 DEF PlaceInv, TypeOK, Popped
<1>8. QueueInv'
  <2> SUFFICES ASSUME NEW u \in Ts
               PROVE  Holds(iq[u], u, "queued")' /\ Holds(doneQ[u], u, "done")'
    BY DEF QueueInv
  <2>1. "queued" \in Stages /\ "done" \in Stages /\ "answered" \in Stages
    BY DEF Stages
  <2>2. Holds(iq[u], u, "queued")'
    BY <1>2, <1>3, <1>5, <2>1, QueuesMove
  <2>3. CASE u = t
    <3>1. doneQ'[u] = Tail(doneQ[u])
      BY <1>5, <2>3 DEF TypeOK
    <3>2. i = Head(doneQ[u]) /\ \A j \in Reqs : j # i => stage'[j] = stage[j]
      BY <1>2, <1>5, <2>3 DEF TypeOK
    <3>3. /\ \A k \in 1..Len(Tail(doneQ[u])) :
               stage'[Tail(doneQ[u])[k]] = "done" /\ on'[Tail(doneQ[u])[k]] = u
          /\ Distinct(Tail(doneQ[u]))
      <4>1. on' = on /\ doneQ[u] \in Seq(Reqs) /\ doneQ[u] # << >>
            /\ Holds(doneQ[u], u, "done")
        BY <1>1, <1>5, <2>3
      <4>2. QED BY <2>1, <3>2, <4>1, HoldsPop
    <3>4. QED BY <2>2, <3>1, <3>3 DEF Holds, Distinct
  <2>4. CASE u # t
    <3>1. doneQ'[u] = doneQ[u]
      BY <1>5, <2>4 DEF TypeOK
    <3>2. QED BY <1>2, <1>3, <1>5, <2>1, <2>2, <2>4, <3>1, QueuesMove
  <2>5. QED BY <2>3, <2>4
<1>9. HandInv'
  BY <1>2, <1>3, <1>5 DEF HandInv, TypeOK
<1>10. WorkerInv'
  <2>1. \A u \in Ts : \A w \in busy[u] : wq[u][w][1] \in Reqs /\ wq[u][w][1] # i
    <3>1. \A u \in Ts : \A w \in busy[u] : wq[u][w] \in Seq(Reqs) /\ Len(wq[u][w]) = 1
      BY DEF WorkerInv, TypeOK
    <3>2. QED BY <1>3, <3>1, ElementOfSeq DEF WorkerInv
  <2>2. \A j \in Reqs : j # i => stage'[j] = stage[j] /\ on'[j] = on[j]
    BY <1>5 DEF TypeOK
  <2>3. QED BY <1>5, <2>1, <2>2 DEF WorkerInv
<1>11. EntryInv'
  BY <1>2, <1>3, <1>5 DEF EntryInv, TypeOK, PlaceInv
<1>12. ResourceInv' /\ AnsweredOnce' /\ NoAbort'
  BY <1>2, <1>3, <1>5 DEF ResourceInv, AnsweredOnce, NoAbort, TypeOK
<1>13. CountersAgree'
  BY <1>2, <1>3, <1>5, MoveCounters DEF Stages, Popped
<1>14. \A u \in Ts : home'[u] = NoF => load'[u] = 0
  BY <1>5
<1>15. QED BY <1>6, <1>7, <1>8, <1>9, <1>10, <1>11, <1>12, <1>13, <1>14

\* doChangeICount finds its T in the list, and the request leaves it.
LEMMA DoChangeICountInv ==
  ASSUME IInv, NEW t \in Ts, DoChangeICount(t)
  PROVE  IInv'
<1> USE DEF IInv
<1> DEFINE i == cur[t]
<1>1. pc[t] \in {"iqret", "dqret"}
  BY DEF DoChangeICount
<1>2. i \in Reqs /\ on[i] = t /\ stage[i] = "answered"
  BY <1>1 DEF HandInv
<1>3. i \in OnT(t) /\ i \in PoppedOn(t)
  BY <1>2 DEF OnT, PoppedOn, Popped
<1>4. /\ load[t] = Cardinality(OnT(t)) /\ icount[t] = Cardinality(PoppedOn(t))
      /\ load[t] \in Nat /\ icount[t] \in Nat
  BY CountersOf DEF TypeOK
<1>5. load[t] > 0 /\ icount[t] > 0
  <2>1. OnT(t) \in SUBSET Reqs /\ PoppedOn(t) \in SUBSET Reqs
    BY OnSubset
  <2>2. Cardinality(OnT(t)) # 0 /\ Cardinality(PoppedOn(t)) # 0
    BY <1>3, <2>1, Counting
  <2>3. QED BY <1>4, <2>2
<1>6. home[t] = workFor[t] /\ home[t] = reqF[i] /\ home[t] \in Fs
  BY <1>2 DEF PlaceInv, Popped
<1>7. Returns(t)
  BY <1>5, <1>6 DEF Returns
<1>8. /\ icount' = [icount EXCEPT ![t] = @ - 1]
      /\ pc' = [pc EXCEPT ![t] = IF @ = "iqret" THEN "iq" ELSE "dq"]
      /\ stage' = [stage EXCEPT ![i] = "free"]
      /\ reqF' = [reqF EXCEPT ![i] = NoF]
      /\ on' = [on EXCEPT ![i] = NoT]
      /\ sent' = [sent EXCEPT ![i] = 0]
      /\ cur' = [cur EXCEPT ![t] = NoReq]
      /\ UNCHANGED <<iq, pending, workFor, curRes, pool, done, aborted>>
      /\ load' = [load EXCEPT ![t] = @ - 1] /\ home' = home
  BY <1>7 DEF DoChangeICount, LeaveT
<1>9. TypeOK'
  <2>1. load' \in [Ts -> Nat] /\ icount' \in [Ts -> Nat]
    BY <1>4, <1>5, <1>8 DEF TypeOK
  <2>2. QED BY <1>2, <1>8, <2>1 DEF TypeOK, Stages, PCs
<1>10. PlaceInv'
  BY <1>2, <1>8 DEF PlaceInv, TypeOK, Popped
<1>11. \A j \in Reqs : j # i => stage'[j] = stage[j] /\ on'[j] = on[j]
  BY <1>8 DEF TypeOK
<1>12. QueueInv'
  <2> SUFFICES ASSUME NEW u \in Ts
               PROVE  Holds(iq[u], u, "queued")' /\ Holds(doneQ[u], u, "done")'
    BY DEF QueueInv
  <2>1. /\ iq[u] \in Seq(Reqs) /\ Holds(iq[u], u, "queued")
        /\ doneQ[u] \in Seq(Reqs) /\ Holds(doneQ[u], u, "done")
    BY DEF QueueInv, TypeOK
  <2>2. /\ \A k \in 1..Len(iq[u]) : iq[u][k] \in Reqs /\ iq[u][k] # i
        /\ \A k \in 1..Len(doneQ[u]) : doneQ[u][k] \in Reqs /\ doneQ[u][k] # i
    BY <1>2, <2>1, ElementOfSeq DEF Holds
  <2>3. iq' = iq /\ doneQ' = doneQ
    BY <1>8
  <2>4. Holds(iq[u], u, "queued")'
    BY <1>11, <2>1, <2>2, <2>3 DEF Holds, Distinct
  <2>5. Holds(doneQ[u], u, "done")'
    BY <1>11, <2>1, <2>2, <2>3 DEF Holds, Distinct
  <2>6. QED BY <2>4, <2>5
<1>13. HandInv'
  BY <1>1, <1>2, <1>8, <1>11 DEF HandInv, TypeOK
<1>14. WorkerInv'
  <2>1. \A u \in Ts : \A w \in busy[u] : wq[u][w][1] \in Reqs /\ wq[u][w][1] # i
    <3>1. \A u \in Ts : \A w \in busy[u] : wq[u][w] \in Seq(Reqs) /\ Len(wq[u][w]) = 1
      BY DEF WorkerInv, TypeOK
    <3>2. QED BY <1>2, <3>1, ElementOfSeq DEF WorkerInv
  <2>2. QED BY <1>8, <1>11, <2>1 DEF WorkerInv
<1>15. EntryInv'
  BY <1>2, <1>8 DEF EntryInv, TypeOK
<1>16. ResourceInv' /\ AnsweredOnce' /\ NoAbort'
  BY <1>2, <1>8 DEF ResourceInv, AnsweredOnce, NoAbort, TypeOK
<1>17. CountersAgree'
  <2> SUFFICES ASSUME NEW u \in Ts
               PROVE  /\ load'[u] = Cardinality(OnT(u)')
                      /\ icount'[u] = Cardinality(PoppedOn(u)')
                      /\ home'[u] # NoF => load'[u] <= Conc[home'[u]]
    BY DEF CountersAgree
  <2>1. /\ load[u] = Cardinality(OnT(u)) /\ icount[u] = Cardinality(PoppedOn(u))
        /\ home[u] # NoF => load[u] <= Conc[home[u]]
    BY CountersOf
  <2>2. CASE u = t
    <3>1. OnT(u)' = OnT(u) \ {i} /\ PoppedOn(u)' = PoppedOn(u) \ {i}
      BY <1>2, <1>8, <1>11, <2>2, TThreadAssumption DEF OnT, PoppedOn, Popped, TypeOK
    <3>2. /\ Cardinality(OnT(u)') = Cardinality(OnT(u)) - 1
          /\ Cardinality(PoppedOn(u)') = Cardinality(PoppedOn(u)) - 1
      BY <1>3, <2>2, <3>1, Counting, OnSubset
    <3>3. load'[u] = load[u] - 1 /\ icount'[u] = icount[u] - 1 /\ home'[u] = home[u]
      BY <1>8, <2>2 DEF TypeOK
    <3>4. load'[u] = Cardinality(OnT(u)') /\ icount'[u] = Cardinality(PoppedOn(u)')
      BY <2>1, <3>2, <3>3
    <3>5. Conc[home[u]] \in Nat
      BY <1>6, <2>2, TThreadAssumption
    <3>6. home'[u] # NoF => load'[u] <= Conc[home'[u]]
      BY <1>4, <2>1, <2>2, <3>3, <3>5
    <3>7. QED BY <3>4, <3>6
  <2>3. CASE u # t
    <3>1. OnT(u)' = OnT(u) /\ PoppedOn(u)' = PoppedOn(u)
      BY <1>2, <1>8, <1>11, <2>3, TThreadAssumption DEF OnT, PoppedOn, Popped, TypeOK
    <3>2. load'[u] = load[u] /\ icount'[u] = icount[u] /\ home'[u] = home[u]
      BY <1>8, <2>3 DEF TypeOK
    <3>3. QED BY <2>1, <3>1, <3>2
  <2>4. QED BY <2>2, <2>3
<1>18. \A u \in Ts : home'[u] = NoF => load'[u] = 0
  BY <1>6, <1>8, TThreadAssumption DEF TypeOK
<1>19. QED BY <1>9, <1>10, <1>12, <1>13, <1>14, <1>15, <1>16, <1>17, <1>18

-----------------------------------------------------------------------------
(* The theorems.                                                           *)

\* The invariant reads nothing but the variables.
LEMMA StutterInv == IInv /\ UNCHANGED vars => IInv'
<1> SUFFICES ASSUME IInv, UNCHANGED vars PROVE IInv'
  OBVIOUS
<1> USE DEF IInv, vars
<1>1. TypeOK' /\ NoAbort' /\ AnsweredOnce'
  BY DEF TypeOK, NoAbort, AnsweredOnce
<1>2. CountersAgree'
  BY DEF CountersAgree, OnT, PoppedOn
<1>3. PlaceInv' /\ QueueInv' /\ WorkerInv' /\ EntryInv' /\ ResourceInv' /\ HandInv'
  BY DEF PlaceInv, QueueInv, Holds, WorkerInv, EntryInv, ResourceInv, HandInv
<1>4. \A u \in Ts : home'[u] = NoF => load'[u] = 0
  OBVIOUS
<1>5. QED BY <1>1, <1>2, <1>3, <1>4

\* No step of the dispatchers, T threads or workers breaks the invariant.
LEMMA NextInv == IInv /\ Next => IInv'
<1> SUFFICES ASSUME IInv, Next PROVE IInv'
  OBVIOUS
<1>1. ASSUME NEW i \in Reqs, NEW f \in Fs, NEW t \in Ts, TakeOne(i, f, t) PROVE IInv'
  BY <1>1, TakeOneInv
<1>2. ASSUME NEW t \in Ts, TakeIdle(t) PROVE IInv'
  BY <1>2, TakeIdleInv
<1>3. ASSUME NEW i \in Reqs, NEW f \in Fs, NEW t \in Ts, NewOne(i, f, t) PROVE IInv'
  BY <1>3, NewOneInv
<1>4. ASSUME NEW i \in Reqs, Push(i) PROVE IInv'
  BY <1>4, PushInv
<1>5. ASSUME NEW t \in Ts, TStep(t) PROVE IInv'
  <2>1. CASE Poll(t) \/ EndHandler(t)
    BY <2>1, PollInv
  <2>2. CASE PopEntry(t)
    BY <2>2, PopEntryInv
  <2>3. CASE FinishNative(t)
    BY <2>3, FinishNativeInv
  <2>4. CASE PopDone(t)
    BY <2>4, PopDoneInv
  <2>5. CASE DoChangeICount(t)
    BY <2>5, DoChangeICountInv
  <2>6. QED BY <1>5, <2>1, <2>2, <2>3, <2>4, <2>5 DEF TStep
<1>6. ASSUME NEW t \in Ts, NEW w \in Workers, WorkerDone(t, w) PROVE IInv'
  BY <1>6, WorkerDoneInv
<1>7. QED BY <1>1, <1>2, <1>3, <1>4, <1>5, <1>6 DEF Next

\* Where a request's stage says it is, its T's queues, pool and entries have it,
\* whatever the dispatchers, the T threads and the workers interleave.
THEOREM Inductive == Spec => []IInv
<1>1. IInv /\ [Next]_vars => IInv'
  BY NextInv, StutterInv
<1>2. QED BY InitInv, <1>1, PTL DEF Spec

\* Every variable keeps its type.
THEOREM TypeCorrect == Spec => []TypeOK
<1>1. IInv => TypeOK
  BY DEF IInv
<1>2. QED BY <1>1, Inductive, PTL

\* The exception of checkI is never thrown: all a T has popped and not returned
\* is of the one function it works for, for any functions and resources.
THEOREM OneFunctionPerT == Spec => []OneTForOneF
<1>1. IInv => OneTForOneF
  BY DEF IInv, OneTForOneF, NoAbort, PlaceInv, PoppedOn
<1>2. QED BY <1>1, Inductive, PTL

\* adjustResource never meets a busy worker (the first assert of resize),
\* although no code waits for the workers of the function before.
THEOREM SwitchesWhenIdle == Spec => []ResizeFindsNoBusyWorker
<1>1. IInv => ResizeFindsNoBusyWorker
  BY DEF IInv, NoAbort, ResizeFindsNoBusyWorker
<1>2. QED BY <1>1, Inductive, PTL

\* The asserts on invokeEntryMap and on the TList's iterator map hold.
THEOREM EveryLookupSucceeds == Spec => []LookupsSucceed
<1>1. IInv => LookupsSucceed
  BY DEF IInv, NoAbort, LookupsSucceed
<1>2. QED BY <1>1, Inductive, PTL

\* The load in the TList and ICount are the numbers of requests placed on T and
\* popped by T, and no T has more than its function's concurrency.
THEOREM CountersCorrect == Spec => []CountersAgree
<1>1. IInv => CountersAgree
  BY DEF IInv
<1>2. QED BY <1>1, Inductive, PTL

\* A worker has one instance when it is busy and none when it is idle.
THEOREM OneInstancePerWorker == Spec => []WorkerHandlesOneI
<1>1. ASSUME IInv PROVE WorkerHandlesOneI
  <2>1. \A t \in Ts : /\ idle[t] \cap busy[t] = {}
                      /\ \A w \in Workers \ busy[t] : wq[t][w] = << >>
                      /\ \A w \in busy[t] : Len(wq[t][w]) = 1
    BY <1>1 DEF IInv, WorkerInv
  <2>2. Len(<< >>) = 0
    OBVIOUS
  <2>3. QED BY <2>1, <2>2 DEF WorkerHandlesOneI
<1>2. QED BY <1>1, Inductive, PTL

\* User code runs under the configuration of its own function's resource.
THEOREM OwnResource == Spec => []RunsUnderItsResource
<1>1. ASSUME IInv PROVE RunsUnderItsResource
  <2> SUFFICES ASSUME NEW i \in Reqs, stage[i] \in {"exec", "running"}
               PROVE  curRes[on[i]] = ResOf[reqF[i]]
    BY DEF RunsUnderItsResource
  <2>1. on[i] \in Ts /\ reqF[i] \in Fs /\ workFor[on[i]] = reqF[i]
    BY <1>1 DEF IInv, PlaceInv, Popped
  <2>2. QED BY <1>1, <2>1, TThreadAssumption DEF IInv, ResourceInv
<1>2. QED BY <1>1, Inductive, PTL

-----------------------------------------------------------------------------
(* What the steps of T threads and dispatchers do.                         *)

\* Only the dispatcher changes the function of a T, and only when it may.
LEMMA HomeMoves ==
  ASSUME IInv, [Next]_vars, NEW t \in Ts, home'[t] # home[t], home[t] # NoF
  PROVE  load[t] = 0
<1>1. home' # home
  OBVIOUS
<1>2. \/ \E i \in Reqs, f \in Fs, u \in Ts : NewOne(i, f, u)
      \/ \E u \in Ts : TakeIdle(u)
  <2>1. ASSUME NEW u \in Ts, TStep(u) PROVE home' = home
    BY <2>1 DEF TStep, Poll, EndHandler, PopEntry, FinishNative, PopDone,
                DoChangeICount, Abort
  <2>2. ASSUME NEW u \in Ts, NEW w \in Workers, WorkerDone(u, w) PROVE home' = home
    BY <2>2 DEF WorkerDone
  <2>3. ASSUME NEW i \in Reqs, Push(i) PROVE home' = home
    BY <2>3 DEF Push
  <2>4. ASSUME NEW i \in Reqs, NEW f \in Fs, NEW u \in Ts, TakeOne(i, f, u)
        PROVE  home' = home
    BY <2>4 DEF TakeOne
  <2>5. UNCHANGED vars => home' = home
    BY DEF vars
  <2>6. QED BY <1>1, <2>1, <2>2, <2>3, <2>4, <2>5 DEF Next
<1>3. ASSUME NEW i \in Reqs, NEW f \in Fs, NEW u \in Ts, NewOne(i, f, u)
      PROVE  FALSE
  <2>1. home[u] = NoF /\ home' = [home EXCEPT ![u] = f]
    BY <1>3 DEF NewOne
  <2>2. QED BY <2>1 DEF IInv, TypeOK
<1>4. ASSUME NEW u \in Ts, TakeIdle(u)
      PROVE  load[t] = 0
  BY <1>4 DEF TakeIdle, Stealable, IInv, TypeOK
<1>5. QED BY <1>2, <1>3, <1>4

\* A T that leaves its function has no request left, not even one placed on it
\* and not pushed yet.
THEOREM StolenUnused == Spec => StolenTIsUnused
<1>1. IInv /\ [Next]_vars =>
        \A t \in Ts : home[t] # NoF /\ home'[t] # home[t] => OnT(t) = {}
  <2> SUFFICES ASSUME IInv, [Next]_vars, NEW t \in Ts,
                      home[t] # NoF, home'[t] # home[t]
               PROVE  OnT(t) = {}
    OBVIOUS
  <2>1. load[t] = 0
    BY HomeMoves
  <2>2. QED BY <2>1, CountersOf, Counting, OnSubset DEF IInv
<1>2. QED BY <1>1, Inductive, PTL DEF Spec, StolenTIsUnused

-----------------------------------------------------------------------------
(* TThread implements TService.                                            *)

Phase(i) == CASE stage[i] = "free" -> "free"
              [] stage[i] = "answered" -> "answered"
              [] OTHER -> "waiting"

\* A request that changes stage and is waiting before and after: a stutter.
LEMMA WaitingStutter ==
  ASSUME TypeOK, NEW i \in Reqs, NEW st \in Stages \ {"free", "answered"},
         stage[i] \notin {"free", "answered"},
         stage' = [stage EXCEPT ![i] = st], UNCHANGED <<reqF, on>>
  PROVE  UNCHANGED Service!vars
<1>1. \A j \in Reqs : Phase(j)' = Phase(j)
  BY DEF Phase, TypeOK
<1>2. [j \in Reqs |-> Phase(j)]' = [j \in Reqs |-> Phase(j)]
  BY <1>1
<1>3. QED BY <1>2 DEF Service!vars, Phase

\* A step that leaves a request's stage and place alone is a stutter.
LEMMA SameStutter ==
  ASSUME UNCHANGED <<stage, reqF, on>>
  PROVE  UNCHANGED Service!vars
BY DEF Service!vars

\* Getting a place on a T, from its list or as a T that joins it, is Accept.
LEMMA AcceptStep ==
  ASSUME IInv, NEW i \in Reqs, NEW f \in Fs, NEW t \in Ts, Assign(i, f, t),
         home[t] = f \/ home[t] = NoF, load[t] < Conc[f]
  PROVE  Service!Accept(i, f, t)
<1> USE DEF IInv
<1>1. /\ stage[i] = "free" /\ stage' = [stage EXCEPT ![i] = "taken"]
      /\ reqF' = [reqF EXCEPT ![i] = f] /\ on' = [on EXCEPT ![i] = t]
  BY DEF Assign
<1>2. Service!On(t) = OnT(t)
  BY TThreadAssumption DEF Service!On, OnT, PlaceInv
<1>3. Cardinality(Service!On(t)) < Conc[f]
  BY <1>2, CountersOf
<1>4. \A j \in Service!On(t) : reqF[j] = f
  <2>1. home[t] = NoF => OnT(t) = {}
    BY Counting, OnSubset, CountersOf
  <2>2. QED BY <1>2, <2>1 DEF OnT, PlaceInv
<1>5. Phase(i) = "free"
  BY <1>1 DEF Phase
<1>6. [j \in Reqs |-> Phase(j)]' = [[j \in Reqs |-> Phase(j)] EXCEPT ![i] = "waiting"]
  BY <1>1 DEF Phase, TypeOK
<1> HIDE DEF IInv
<1>7. reqF' = [reqF EXCEPT ![i] = f] /\ on' = [on EXCEPT ![i] = t]
  BY <1>1
<1>8. [j \in Reqs |-> Phase(j)][i] = "free"
  BY <1>5
<1>9. Service!Cardinality(Service!On(t)) < Conc[f]
  <2>1. \A S : Service!Cardinality(S) = Cardinality(S)
    BY DEF Service!Cardinality, Cardinality
  <2>2. QED BY <1>3, <2>1
<1>10. QED BY <1>4, <1>6, <1>7, <1>8, <1>9 DEF Service!Accept, Phase

\* A response is Answer, whichever thread sends it.
LEMMA AnswerStep ==
  ASSUME TypeOK, NEW i \in Reqs, stage[i] \notin {"free", "answered"}, Respond(i),
         UNCHANGED <<reqF, on>>
  PROVE  Service!Answer(i)
<1>1. [j \in Reqs |-> Phase(j)]' = [[j \in Reqs |-> Phase(j)] EXCEPT ![i] = "answered"]
  BY DEF Respond, Phase, TypeOK
<1>2. Phase(i) = "waiting"
  BY DEF Phase
<1>3. QED BY <1>1, <1>2 DEF Service!Answer, Phase

\* doChangeICount is Leave.
LEMMA LeaveStep ==
  ASSUME TypeOK, NEW t \in Ts, NEW i \in Reqs, i = cur[t],
         stage[i] = "answered", LeaveT(t)
  PROVE  Service!Leave(i)
<1>1. [j \in Reqs |-> Phase(j)]' = [[j \in Reqs |-> Phase(j)] EXCEPT ![i] = "free"]
  BY DEF LeaveT, Phase, TypeOK
<1>2. Phase(i) = "answered"
  BY DEF Phase
<1>3. QED BY <1>1, <1>2 DEF Service!Leave, LeaveT, Phase

\* The clients do not see that handleIQueue pops their request.
LEMMA PopEntryStutters ==
  ASSUME IInv, NEW t \in Ts, PopEntry(t)
  PROVE  UNCHANGED Service!vars
<1> DEFINE i == Head(iq[t])
<1>1. iq[t] # << >>
  BY DEF PopEntry
<1>2. i \in Reqs /\ stage[i] = "queued" /\ TypeOK
  BY <1>1, PopFacts DEF IInv
<1>3. CASE Abort(Fault(t, reqF[i]))
  BY <1>3, SameStutter DEF Abort
<1>4. CASE /\ StartNative(t, i) \/ StartWasm(t, i)
           /\ UNCHANGED <<pending, doneQ, lists, reqF, on, sent, aborted>>
  <2>1. PICK st \in {"exec", "running"} : stage' = [stage EXCEPT ![i] = st]
    BY <1>4 DEF StartNative, StartWasm
  <2>2. st \in Stages \ {"free", "answered"}
    BY DEF Stages
  <2>3. QED BY <1>2, <1>4, <2>1, <2>2, WaitingStutter
<1>5. QED BY <1>3, <1>4 DEF PopEntry

\* The clients do not see that a worker has finished.
LEMMA WorkerDoneStutters ==
  ASSUME IInv, NEW t \in Ts, NEW w \in Workers, WorkerDone(t, w)
  PROVE  UNCHANGED Service!vars
<1> USE DEF IInv
<1> DEFINE i == Head(wq[t][w])
<1>1. wq[t][w] # << >> /\ stage' = [stage EXCEPT ![i] = "done"]
      /\ UNCHANGED <<reqF, on>>
  BY DEF WorkerDone
<1>2. w \in busy[t] /\ wq[t][w] \in Seq(Reqs)
  BY <1>1 DEF WorkerInv, TypeOK
<1>3. i \in Reqs /\ stage[i] = "running"
  BY <1>1, <1>2, TailFacts DEF WorkerInv
<1>4. "done" \in Stages \ {"free", "answered"}
  BY DEF Stages
<1>5. QED BY <1>1, <1>3, <1>4, WaitingStutter

\* What a T thread does is an answer, a departure or a stutter.
LEMMA TStepStep ==
  ASSUME IInv, NEW t \in Ts, TStep(t)
  PROVE  [Service!Next]_(Service!vars)
<1> USE DEF IInv
<1>1. CASE Poll(t) \/ EndHandler(t)
  BY <1>1, SameStutter DEF Poll, EndHandler
<1>2. CASE PopEntry(t)
  BY <1>2, PopEntryStutters
<1>3. CASE FinishNative(t)
  <2>1. cur[t] \in Reqs /\ stage[cur[t]] = "exec"
    BY <1>3 DEF FinishNative, HandInv
  <2>2. PICK i \in Reqs : i = cur[t]
    BY <2>1
  <2>3. Respond(i) /\ UNCHANGED <<reqF, on>>
    BY <1>3, <2>2 DEF FinishNative, Respond
  <2>4. Service!Answer(i)
    BY <2>1, <2>2, <2>3, AnswerStep
  <2>5. QED BY <2>4 DEF Service!Next
<1>4. CASE PopDone(t)
  <2>1. CASE Abort("done_unknown")
    BY <2>1, SameStutter DEF Abort
  <2>2. CASE /\ Head(doneQ[t]) \in entries[t] /\ doneQ[t] # << >>
             /\ Respond(Head(doneQ[t])) /\ UNCHANGED <<reqF, on>>
    <3>1. doneQ[t] # << >> /\ doneQ[t] \in Seq(Reqs) /\ Holds(doneQ[t], t, "done")
      BY <2>2 DEF TypeOK, QueueInv
    <3>2. PICK i \in Reqs : i = Head(doneQ[t])
      BY <3>1, TailFacts
    <3>3. stage[i] = "done"
      BY <3>1, <3>2, TailFacts DEF Holds
    <3>4. Respond(i)
      BY <2>2, <3>2 DEF Respond
    <3>5. Service!Answer(i)
      BY <2>2, <3>3, <3>4, AnswerStep
    <3>6. QED BY <3>5 DEF Service!Next
  <2>3. QED BY <1>4, <2>1, <2>2 DEF PopDone
<1>5. CASE DoChangeICount(t)
  <2>1. cur[t] \in Reqs /\ stage[cur[t]] = "answered"
    BY <1>5 DEF DoChangeICount, HandInv
  <2>2. CASE Abort("return")
    BY <2>2, SameStutter DEF Abort
  <2>3. CASE LeaveT(t)
    <3>1. PICK i \in Reqs : i = cur[t]
      BY <2>1
    <3>2. Service!Leave(i)
      BY <2>1, <2>3, <3>1, LeaveStep
    <3>3. QED BY <3>2 DEF Service!Next
  <2>4. QED BY <1>5, <2>2, <2>3 DEF DoChangeICount
<1>6. QED BY <1>1, <1>2, <1>3, <1>4, <1>5 DEF TStep

\* Every step is a step of TService or a stutter.
LEMMA ServiceStep ==
  ASSUME IInv, [Next]_vars
  PROVE  [Service!Next]_(Service!vars)
<1>1. ASSUME NEW i \in Reqs, NEW f \in Fs, NEW t \in Ts, TakeOne(i, f, t)
      PROVE  [Service!Next]_(Service!vars)
  <2>1. Service!Accept(i, f, t)
    BY <1>1, AcceptStep DEF TakeOne, HasRoom
  <2>2. QED BY <2>1 DEF Service!Next
<1>2. ASSUME NEW i \in Reqs, NEW f \in Fs, NEW t \in Ts, NewOne(i, f, t)
      PROVE  [Service!Next]_(Service!vars)
  <2>1. load[t] = 0 /\ Conc[f] \in Nat \ {0} /\ home[t] = NoF
    BY <1>2, TThreadAssumption DEF NewOne, IInv
  <2>2. Service!Accept(i, f, t)
    BY <1>2, <2>1, AcceptStep DEF NewOne
  <2>3. QED BY <2>2 DEF Service!Next
<1>3. ASSUME NEW t \in Ts, TakeIdle(t) PROVE UNCHANGED Service!vars
  BY <1>3, SameStutter DEF TakeIdle
<1>4. ASSUME NEW i \in Reqs, Push(i) PROVE UNCHANGED Service!vars
  <2>1. "queued" \in Stages \ {"free", "answered"}
    BY DEF Stages
  <2>2. QED BY <1>4, <2>1, WaitingStutter DEF Push, IInv
<1>5. ASSUME NEW t \in Ts, TStep(t) PROVE [Service!Next]_(Service!vars)
  BY <1>5, TStepStep
<1>6. ASSUME NEW t \in Ts, NEW w \in Workers, WorkerDone(t, w)
      PROVE  UNCHANGED Service!vars
  BY <1>6, WorkerDoneStutters
<1>7. UNCHANGED vars => UNCHANGED Service!vars
  BY SameStutter DEF vars
<1>8. QED BY <1>1, <1>2, <1>3, <1>4, <1>5, <1>6, <1>7 DEF Next

\* What the clients see of the dispatchers, T threads and workers together is
\* TService: a request is placed where its function has room, on a T that has
\* no other function's request, is answered once, and then leaves.
THEOREM Implements == Spec => ServiceSpec
<1>1. Init => Service!Init
  BY DEF Init, Service!Init
<1>2. IInv /\ [Next]_vars => [Service!Next]_(Service!vars)
  BY ServiceStep
<1>3. QED BY <1>1, <1>2, Inductive, PTL DEF Spec, ServiceSpec, Service!Spec

-----------------------------------------------------------------------------
(* The worker that invoke finds.                                           *)

\* A T that works for a function has a pool of the function's size.
SizeInv == \A t \in Ts : IF workFor[t] = NoF THEN curRes[t] = NoR
                         ELSE size[t] = Conc[workFor[t]]

\* A busy worker's request, for each busy worker its own: no more workers are
\* busy than requests are popped.
LEMMA BusyBound ==
  ASSUME IInv, NEW t \in Ts
  PROVE  /\ Cardinality(busy[t]) <= Cardinality(PoppedOn(t))
         /\ Cardinality(busy[t]) \in Nat
<1> USE DEF IInv
<1> DEFINE g == [w \in busy[t] |-> wq[t][w][1]]
<1>1. \A w \in busy[t] : wq[t][w] \in Seq(Reqs) /\ Len(wq[t][w]) = 1
  BY DEF WorkerInv, TypeOK
<1>2. \A w \in busy[t] : wq[t][w][1] \in Reqs
  BY <1>1, ElementOfSeq
<1>3. \A w \in busy[t] : wq[t][w][1] \in PoppedOn(t)
  BY <1>2 DEF WorkerInv, PoppedOn, Popped
<1>4. g \in [busy[t] -> PoppedOn(t)]
  BY <1>3
<1>5. \A v, w \in busy[t] : g[v] = g[w] => v = w
  BY DEF WorkerInv
<1>6. g \in Injection(busy[t], PoppedOn(t))
  BY <1>4, <1>5, Fun_IsInj
<1>7. IsFiniteSet(PoppedOn(t))
  BY Counting, OnSubset
<1>8. IsFiniteSet(busy[t]) /\ Cardinality(busy[t]) <= Cardinality(PoppedOn(t))
  BY <1>6, <1>7, FS_Injection
<1>9. QED BY <1>8, FS_CardinalityType

\* When the head of the queue is popped, fewer workers are busy than the pool
\* may have: the head itself has its place in the list and no worker yet.
LEMMA InvokeHasRoom ==
  ASSUME IInv, SizeInv,
         \A f, g \in Fs : ResOf[f] = ResOf[g] => Conc[f] = Conc[g],
         NEW t \in Ts, iq[t] # << >>, NEW i, i = Head(iq[t])
  PROVE  /\ NewSize(t, reqF[i]) = Conc[reqF[i]]
         /\ Cardinality(busy[t]) < NewSize(t, reqF[i])
<1>1. /\ i \in Reqs /\ stage[i] = "queued" /\ on[i] = t
      /\ reqF[i] \in Fs /\ home[t] = reqF[i]
  BY PopFacts
<1>2. ASSUME ~Adjusts(t, reqF[i]) PROVE size[t] = Conc[reqF[i]]
  <2>1. CASE workFor[t] = reqF[i]
    BY <1>1, <2>1, TThreadAssumption DEF SizeInv
  <2>2. CASE workFor[t] # reqF[i]
    <3>1. curRes[t] = ResOf[reqF[i]] /\ curRes[t] # NoR
      BY <1>1, <1>2, <2>2, TThreadAssumption DEF Adjusts
    <3>2. workFor[t] \in Fs /\ ResOf[workFor[t]] = ResOf[reqF[i]]
      BY <3>1 DEF SizeInv, IInv, TypeOK, ResourceInv
    <3>3. QED BY <1>1, <3>2, TThreadAssumption DEF SizeInv
  <2>3. QED BY <2>1, <2>2
<1>3. NewSize(t, reqF[i]) = Conc[reqF[i]]
  BY <1>2 DEF NewSize
<1>4. load[t] <= Conc[reqF[i]]
  BY <1>1, CountersOf, TThreadAssumption DEF IInv
<1>5. Cardinality(PoppedOn(t)) < Cardinality(OnT(t))
  <2>1. i \in OnT(t) /\ i \notin PoppedOn(t)
    BY <1>1 DEF OnT, PoppedOn, Popped
  <2>2. PoppedOn(t) \cup {i} \in SUBSET OnT(t) /\ IsFiniteSet(OnT(t))
    BY <2>1, OnSubset, Counting
  <2>3. Cardinality(PoppedOn(t) \cup {i}) <= Cardinality(OnT(t))
    BY <2>2, FS_Subset
  <2>4. PoppedOn(t) \in SUBSET Reqs
    BY OnSubset
  <2>5. Cardinality(PoppedOn(t) \cup {i}) = Cardinality(PoppedOn(t)) + 1
    BY <1>1, <2>1, <2>4, Counting
  <2>6. Cardinality(PoppedOn(t)) \in Nat /\ Cardinality(OnT(t)) \in Nat
    BY OnSubset, Counting
  <2>7. QED BY <2>3, <2>5, <2>6
<1>6. Cardinality(busy[t]) <= Cardinality(PoppedOn(t))
  BY BusyBound
<1>7. /\ load[t] = Cardinality(OnT(t)) /\ load[t] \in Nat
      /\ Conc[reqF[i]] \in Nat
  BY <1>1, CountersOf, TThreadAssumption DEF IInv, TypeOK
<1>8. Cardinality(PoppedOn(t)) \in Nat
  BY OnSubset, Counting
<1>9. Cardinality(busy[t]) \in Nat
  BY BusyBound
<1>10. QED BY <1>3, <1>4, <1>5, <1>6, <1>7, <1>8, <1>9

\* If functions that share a resource have the same concurrency, invoke always
\* finds a worker.  The runs show that it does not without the assumption.
THEOREM WorkerForEach ==
  ASSUME \A f, g \in Fs : ResOf[f] = ResOf[g] => Conc[f] = Conc[g]
  PROVE  Spec => []InvokeFindsWorker
<1> DEFINE J == SizeInv /\ InvokeFindsWorker
<1>1. Init => J
  BY DEF Init, SizeInv, InvokeFindsWorker
<1>2. ASSUME IInv, J, [Next]_vars
      PROVE  J'
  <2>1. ASSUME NEW t \in Ts, PopEntry(t) PROVE J'
    <3> DEFINE i == Head(iq[t])
    <3>1. iq[t] # << >>
      BY <2>1 DEF PopEntry
    <3>2. /\ NewSize(t, reqF[i]) = Conc[reqF[i]]
          /\ Cardinality(busy[t]) < NewSize(t, reqF[i])
      BY <1>2, <3>1, InvokeHasRoom
    <3>3. reqF[i] \in Fs
      BY <1>2, <3>1, PopFacts
    <3>4. Fault(t, reqF[i]) # "invoke"
      <4>1. Conc[reqF[i]] \in Nat
        BY <3>3, TThreadAssumption
      <4>2. ~(Cardinality(busy[t]) >= NewSize(t, reqF[i]))
        <5>1. Cardinality(busy[t]) \in Nat
          BY <1>2, BusyBound
        <5>2. QED BY <3>2, <4>1, <5>1
      <4>3. QED BY <4>2 DEF Fault
    <3>5. CASE Abort(Fault(t, reqF[i]))
      BY <1>2, <3>4, <3>5 DEF Abort, SizeInv, InvokeFindsWorker
    <3>6. CASE Switch(t, reqF[i]) /\ UNCHANGED aborted
      <4>1. workFor'[t] = reqF[i] /\ size'[t] = Conc[reqF[i]]
        BY <1>2, <3>2, <3>6 DEF Switch, IInv, TypeOK
      <4>2. \A u \in Ts : u # t => /\ workFor'[u] = workFor[u]
                                   /\ curRes'[u] = curRes[u] /\ size'[u] = size[u]
        BY <1>2, <3>6 DEF Switch, IInv, TypeOK
      <4>3. SizeInv'
        BY <1>2, <3>3, <4>1, <4>2, TThreadAssumption DEF SizeInv
      <4>4. QED BY <1>2, <3>6, <4>3 DEF InvokeFindsWorker
    <3>7. QED BY <2>1, <3>5, <3>6 DEF PopEntry
  <2>2. CASE UNCHANGED <<workFor, curRes, size, aborted>>
    BY <1>2, <2>2 DEF SizeInv, InvokeFindsWorker
  <2>3. CASE \E why \in Aborts \ {"invoke"} : Abort(why)
    BY <1>2, <2>3 DEF Abort, SizeInv, InvokeFindsWorker
  <2>4. ASSUME NEW t \in Ts, TStep(t) PROVE J'
    BY <2>1, <2>2, <2>3, <2>4
       DEF TStep, Poll, EndHandler, FinishNative, PopDone, DoChangeICount,
           LeaveT, Aborts
  <2>5. ASSUME NEW i \in Reqs, NEW f \in Fs, NEW t \in Ts,
               TakeOne(i, f, t) \/ NewOne(i, f, t)
        PROVE  J'
    BY <2>2, <2>5 DEF TakeOne, NewOne
  <2>6. ASSUME NEW t \in Ts, TakeIdle(t) PROVE J'
    BY <2>2, <2>6 DEF TakeIdle
  <2>7. ASSUME NEW i \in Reqs, Push(i) PROVE J'
    BY <2>2, <2>7 DEF Push
  <2>8. ASSUME NEW t \in Ts, NEW w \in Workers, WorkerDone(t, w) PROVE J'
    BY <2>2, <2>8 DEF WorkerDone
  <2>9. CASE UNCHANGED vars
    BY <2>2, <2>9 DEF vars
  <2>10. QED BY <1>2, <2>4, <2>5, <2>6, <2>7, <2>8, <2>9 DEF Next
<1>3. QED BY <1>1, <1>2, Inductive, PTL DEF Spec

-----------------------------------------------------------------------------
(* The size of the pool.                                                   *)

\* Adding a worker to a finite set, and taking one out.
LEMMA WorkerCounting ==
  ASSUME NEW S, IsFiniteSet(S)
  PROVE  /\ Cardinality(S) \in Nat /\ (Cardinality(S) = 0 <=> S = {})
         /\ \A w : IsFiniteSet(S \cup {w}) /\ IsFiniteSet(S \ {w})
         /\ \A w : w \notin S => Cardinality(S \cup {w}) = Cardinality(S) + 1
         /\ \A w : w \in S => Cardinality(S \ {w}) = Cardinality(S) - 1
<1>1. Cardinality(S) \in Nat /\ (Cardinality(S) = 0 <=> S = {})
  BY FS_CardinalityType, FS_EmptySet
<1>2. \A w : /\ IsFiniteSet(S \cup {w})
             /\ w \notin S => Cardinality(S \cup {w}) = Cardinality(S) + 1
  BY FS_AddElement
<1>3. \A w : /\ IsFiniteSet(S \ {w})
             /\ w \in S => Cardinality(S \ {w}) = Cardinality(S) - 1
  BY FS_RemoveElement
<1>4. QED BY <1>1, <1>2, <1>3

\* The pools are finite and within their size.
PoolInv == \A t \in Ts : /\ IsFiniteSet(idle[t]) /\ IsFiniteSet(busy[t])
                         /\ Cardinality(idle[t]) + Cardinality(busy[t]) <= size[t]

\* A resize leaves no more workers than the new size.
LEMMA KeptWithinSize ==
  ASSUME IInv, PoolInv, NEW t \in Ts, iq[t] # << >>, NEW i, i = Head(iq[t]),
         NEW S \in Kept(t, reqF[i])
  PROVE  /\ IsFiniteSet(S) /\ NewSize(t, reqF[i]) \in Nat
         /\ Cardinality(S) + Cardinality(busy[t]) <= NewSize(t, reqF[i])
<1> DEFINE n == NewSize(t, reqF[i])
<1>1. reqF[i] \in Fs /\ (Adjusts(t, reqF[i]) => busy[t] = {})
  BY PopFacts
<1>2. n \in Nat
  BY <1>1, TThreadAssumption DEF NewSize, IInv, TypeOK
<1>3. S \subseteq idle[t]
  BY DEF Kept
<1>4. IsFiniteSet(S) /\ Cardinality(S) \in Nat
  BY <1>3, FS_Subset, FS_CardinalityType DEF PoolInv
<1>5. CASE Adjusts(t, reqF[i])
  <2>1. Cardinality(busy[t]) = 0
    BY <1>1, <1>5, FS_EmptySet
  <2>2. Cardinality(idle[t]) \in Nat
    BY FS_CardinalityType DEF PoolInv
  <2>3. Cardinality(S) <= n
    BY <1>2, <1>5, <2>2 DEF Kept, LowerOf
  <2>4. QED BY <1>2, <1>4, <2>1, <2>3
<1>6. CASE ~Adjusts(t, reqF[i])
  BY <1>2, <1>4, <1>6 DEF Kept, NewSize, PoolInv
<1>7. QED BY <1>2, <1>4, <1>5, <1>6

\* handleIQueue keeps the pool within its size: what invoke takes or creates
\* is what resize has left room for.
LEMMA PopEntryPool ==
  ASSUME IInv, PoolInv, NEW t \in Ts, PopEntry(t)
  PROVE  PoolInv'
<1> DEFINE i == Head(iq[t])
           n == NewSize(t, reqF[i])
<1>1. CASE UNCHANGED <<idle, busy, size>>
  BY <1>1 DEF PoolInv
<1>2. CASE Switch(t, reqF[i]) /\ (StartNative(t, i) \/ StartWasm(t, i))
  <2>1. iq[t] # << >> /\ size' = [size EXCEPT ![t] = n]
    BY <1>2 DEF PopEntry, Switch
  <2>2. \A S \in Kept(t, reqF[i]) :
          /\ IsFiniteSet(S) /\ n \in Nat /\ Cardinality(S) + Cardinality(busy[t]) <= n
    BY <2>1, KeptWithinSize
  <2>3. reqF[i] \in Fs
    BY <2>1, PopFacts
  <2>4. IsFiniteSet(busy[t]) /\ Cardinality(busy[t]) \in Nat
    BY FS_CardinalityType DEF PoolInv
  <2> HIDE DEF n, i
  <2>5. ASSUME NEW I, NEW B, IsFiniteSet(I), IsFiniteSet(B),
               idle' = [idle EXCEPT ![t] = I], busy' = [busy EXCEPT ![t] = B],
               Cardinality(I) + Cardinality(B) <= n
        PROVE  PoolInv'
    BY <2>1, <2>5 DEF PoolInv, IInv, TypeOK
  <2>6. CASE StartNative(t, i)
    <3>1. PICK S \in Kept(t, reqF[i]) : idle' = [idle EXCEPT ![t] = S]
      BY <2>6 DEF StartNative
    <3>2. busy' = [busy EXCEPT ![t] = busy[t]]
      BY <2>6 DEF StartNative, IInv, TypeOK
    <3>3. QED BY <2>2, <2>4, <3>1, <3>2, <2>5
  <2>7. CASE StartWasm(t, i)
    <3>1. PICK S \in Kept(t, reqF[i]) : \E w \in Candidates(t, S, n) :
            /\ idle' = [idle EXCEPT ![t] = S \ {w}]
            /\ busy' = [busy EXCEPT ![t] = @ \cup {w}]
      BY <2>7 DEF StartWasm, n
    <3>2. PICK w \in Candidates(t, S, n) :
            /\ idle' = [idle EXCEPT ![t] = S \ {w}]
            /\ busy' = [busy EXCEPT ![t] = @ \cup {w}]
      BY <3>1
    <3>3. busy' = [busy EXCEPT ![t] = busy[t] \cup {w}]
      BY <3>2
    <3>4. IsFiniteSet(S) /\ n \in Nat /\ Cardinality(S) + Cardinality(busy[t]) <= n
      BY <2>2
    <3>5. w \notin busy[t]
      BY <2>2, <2>3, KeptFacts
    <3>6. Cardinality(busy[t] \cup {w}) = Cardinality(busy[t]) + 1
      BY <2>4, <3>5, WorkerCounting
    <3>7. IsFiniteSet(S \ {w}) /\ IsFiniteSet(busy[t] \cup {w})
          /\ Cardinality(S) \in Nat
      BY <2>4, <3>4, WorkerCounting
    <3>8. Cardinality(S \ {w}) + (Cardinality(busy[t]) + 1) <= n
      <4>1. CASE S # {}
        <5>1. w \in S
          BY <4>1 DEF Candidates
        <5>2. Cardinality(S \ {w}) = Cardinality(S) - 1
          BY <3>4, <5>1, WorkerCounting
        <5>3. QED BY <2>4, <3>4, <3>7, <5>2
      <4>2. CASE S = {}
        <5>1. Cardinality(busy[t]) < n
          BY <4>2 DEF Candidates
        <5>2. Cardinality(S \ {w}) = 0
          BY <4>2, FS_EmptySet
        <5>3. QED BY <2>4, <3>4, <5>1, <5>2
      <4>3. QED BY <4>1, <4>2
    <3>9. QED BY <2>5, <3>2, <3>3, <3>6, <3>7, <3>8
  <2>8. QED BY <1>2, <2>6, <2>7 DEF i
<1>3. QED BY <1>1, <1>2 DEF PopEntry, Abort

\* invokeDone moves the worker from one set to the other.
LEMMA WorkerDonePool ==
  ASSUME IInv, PoolInv, NEW t \in Ts, NEW w \in Workers, WorkerDone(t, w)
  PROVE  PoolInv'
<1>1. w \in busy[t] /\ w \notin idle[t]
  BY DEF WorkerDone, IInv, WorkerInv
<1>2. /\ busy' = [busy EXCEPT ![t] = @ \ {w}]
      /\ idle' = [idle EXCEPT ![t] = @ \cup {w}] /\ size' = size
  BY DEF WorkerDone
<1>3. /\ IsFiniteSet(idle[t]) /\ IsFiniteSet(busy[t])
      /\ Cardinality(idle[t]) + Cardinality(busy[t]) <= size[t] /\ size[t] \in Nat
  BY DEF PoolInv, IInv, TypeOK
<1>4. /\ IsFiniteSet(busy[t] \ {w}) /\ Cardinality(busy[t]) \in Nat
      /\ Cardinality(busy[t] \ {w}) = Cardinality(busy[t]) - 1
  BY <1>1, <1>3, WorkerCounting
<1>5. /\ IsFiniteSet(idle[t] \cup {w}) /\ Cardinality(idle[t]) \in Nat
      /\ Cardinality(idle[t] \cup {w}) = Cardinality(idle[t]) + 1
  BY <1>1, <1>3, WorkerCounting
<1>6. Cardinality(idle[t] \cup {w}) + Cardinality(busy[t] \ {w}) <= size[t]
  BY <1>3, <1>4, <1>5
<1>7. QED BY <1>2, <1>4, <1>5, <1>6 DEF PoolInv, IInv, TypeOK

\* A T never has more workers, idle and busy together, than the concurrency its
\* pool was last resized to, for any functions and resources: the BAD of
\* toString is never printed.
THEOREM PoolNeverOutgrows == Spec => []PoolWithinSize
<1>1. Init => PoolInv
  BY FS_EmptySet DEF Init, PoolInv
<1>2. ASSUME IInv, PoolInv, [Next]_vars
      PROVE  PoolInv'
  <2>1. CASE UNCHANGED <<idle, busy, size>>
    BY <1>2, <2>1 DEF PoolInv
  <2>2. ASSUME NEW t \in Ts, TStep(t) PROVE PoolInv'
    BY <1>2, <2>1, <2>2, PopEntryPool
       DEF TStep, Poll, EndHandler, FinishNative, PopDone, DoChangeICount,
           LeaveT, Abort
  <2>3. ASSUME NEW i \in Reqs, NEW f \in Fs, NEW t \in Ts,
               TakeOne(i, f, t) \/ NewOne(i, f, t)
        PROVE  PoolInv'
    BY <2>1, <2>3 DEF TakeOne, NewOne
  <2>4. ASSUME NEW t \in Ts, TakeIdle(t) PROVE PoolInv'
    BY <2>1, <2>4 DEF TakeIdle
  <2>5. ASSUME NEW i \in Reqs, Push(i) PROVE PoolInv'
    BY <2>1, <2>5 DEF Push
  <2>6. ASSUME NEW t \in Ts, NEW w \in Workers, WorkerDone(t, w) PROVE PoolInv'
    BY <1>2, <2>6, WorkerDonePool
  <2>7. CASE UNCHANGED vars
    BY <2>1, <2>7 DEF vars
  <2>8. QED BY <1>2, <2>2, <2>3, <2>4, <2>5, <2>6, <2>7 DEF Next
<1>3. PoolInv => PoolWithinSize
  BY DEF PoolInv, PoolWithinSize
<1>4. QED BY <1>1, <1>2, <1>3, Inductive, PTL DEF Spec

-----------------------------------------------------------------------------
(* The workers of wasm functions of concurrency 1.                         *)

WasmOfOne == Wasm = Fs /\ \A f \in Fs : Conc[f] = 1

\* With wasm functions of concurrency 1 a pool has all its workers: none before
\* the first request, one from then on.
FullInv == /\ \A t \in Ts : /\ IsFiniteSet(idle[t]) /\ IsFiniteSet(busy[t])
                            /\ Cardinality(idle[t]) + Cardinality(busy[t]) = size[t]
                            /\ size[t] <= 1
           /\ ResizeFindsAllWorkersIdle

\* A worker that is needed is found, or is the first.
LEMMA PopEntryFull ==
  ASSUME WasmOfOne, IInv, FullInv, NEW t \in Ts, PopEntry(t)
  PROVE  FullInv'
<1> DEFINE i == Head(iq[t])
           n == NewSize(t, reqF[i])
<1>1. iq[t] # << >> /\ reqF[i] \in Fs /\ (Adjusts(t, reqF[i]) => busy[t] = {})
  BY PopFacts DEF PopEntry
<1>2. PoolInv
  BY DEF FullInv, PoolInv, IInv, TypeOK
<1>3. n \in Nat /\ n <= 1
  BY <1>1, TThreadAssumption DEF NewSize, WasmOfOne, FullInv, IInv, TypeOK
<1>4. CASE Abort(Fault(t, reqF[i]))
  <2>1. Adjusts(t, reqF[i]) => Cardinality(idle[t]) = size[t]
    <3>1. Adjusts(t, reqF[i]) => Cardinality(busy[t]) = 0
      BY <1>1, FS_EmptySet
    <3>2. Cardinality(idle[t]) \in Nat /\ size[t] \in Nat
      BY FS_CardinalityType DEF FullInv, IInv, TypeOK
    <3>3. QED BY <3>1, <3>2 DEF FullInv
  <2>2. aborted' # "resize_idle"
    BY <1>4, <2>1 DEF Abort, Fault
  <2>3. UNCHANGED <<idle, busy, size>>
    BY <1>4 DEF Abort, pool
  <2>4. QED BY <2>2, <2>3 DEF FullInv, ResizeFindsAllWorkersIdle
<1>5. CASE Switch(t, reqF[i]) /\ (StartNative(t, i) \/ StartWasm(t, i)) /\ UNCHANGED aborted
  <2>1. size' = [size EXCEPT ![t] = n] /\ StartWasm(t, i)
    BY <1>1, <1>5 DEF Switch, StartNative, WasmOfOne
  <2>2. PICK S \in Kept(t, reqF[i]) : \E w \in Candidates(t, S, n) :
          /\ idle' = [idle EXCEPT ![t] = S \ {w}]
          /\ busy' = [busy EXCEPT ![t] = @ \cup {w}]
    BY <2>1 DEF StartWasm
  <2>3. PICK w \in Candidates(t, S, n) :
          /\ idle' = [idle EXCEPT ![t] = S \ {w}]
          /\ busy' = [busy EXCEPT ![t] = @ \cup {w}]
    BY <2>2
  <2>4. IsFiniteSet(S) /\ Cardinality(S) + Cardinality(busy[t]) <= n
    BY <1>1, <1>2, KeptWithinSize
  <2>5. IsFiniteSet(busy[t]) /\ Cardinality(busy[t]) \in Nat /\ Cardinality(S) \in Nat
    BY <2>4, FS_CardinalityType DEF FullInv
  <2> HIDE DEF n, i
  <2>6. n = 1 /\ busy[t] = {} /\ S \subseteq {w}
    <3>1. CASE S = {}
      <4>1. Cardinality(busy[t]) < n
        BY <3>1 DEF Candidates
      <4>2. n = 1 /\ Cardinality(busy[t]) = 0
        BY <1>3, <2>5, <4>1
      <4>3. QED BY <2>5, <3>1, <4>2, FS_EmptySet
    <3>2. CASE S # {}
      <4>1. Cardinality(S) # 0 /\ w \in S
        BY <2>4, <3>2, FS_EmptySet DEF Candidates
      <4>2. n = 1 /\ Cardinality(busy[t]) = 0 /\ Cardinality(S) = 1
        BY <1>3, <2>4, <2>5, <4>1
      <4>3. busy[t] = {} /\ \E x : S = {x}
        BY <2>4, <2>5, <4>2, FS_EmptySet, FS_Singleton
      <4>4. QED BY <4>1, <4>2, <4>3
    <3>3. QED BY <3>1, <3>2
  <2>7. idle'[t] = {} /\ busy'[t] = {w} /\ size'[t] = 1
    BY <2>1, <2>3, <2>6 DEF IInv, TypeOK
  <2>8. \A u \in Ts \ {t} : idle'[u] = idle[u] /\ busy'[u] = busy[u] /\ size'[u] = size[u]
    BY <2>1, <2>3 DEF IInv, TypeOK
  <2>9. /\ IsFiniteSet({}) /\ Cardinality({}) = 0
        /\ IsFiniteSet({w}) /\ Cardinality({w}) = 1
    BY FS_EmptySet, FS_Singleton
  <2>10. ASSUME NEW u \in Ts
         PROVE  /\ IsFiniteSet(idle'[u]) /\ IsFiniteSet(busy'[u])
                /\ Cardinality(idle'[u]) + Cardinality(busy'[u]) = size'[u]
                /\ size'[u] <= 1
    <3>1. CASE u = t
      BY <2>7, <2>9, <3>1
    <3>2. CASE u # t
      BY <2>8, <3>2 DEF FullInv
    <3>3. QED BY <3>1, <3>2
  <2>11. ResizeFindsAllWorkersIdle'
    BY <1>5 DEF FullInv, ResizeFindsAllWorkersIdle
  <2>12. QED BY <2>10, <2>11 DEF FullInv
<1>6. QED BY <1>4, <1>5 DEF PopEntry

\* invokeDone moves the worker.
LEMMA WorkerDoneFull ==
  ASSUME IInv, FullInv, NEW t \in Ts, NEW w \in Workers, WorkerDone(t, w)
  PROVE  FullInv'
<1>1. w \in busy[t] /\ w \notin idle[t]
  BY DEF WorkerDone, IInv, WorkerInv
<1>2. /\ busy' = [busy EXCEPT ![t] = @ \ {w}]
      /\ idle' = [idle EXCEPT ![t] = @ \cup {w}] /\ size' = size /\ aborted' = aborted
  BY DEF WorkerDone
<1>3. /\ IsFiniteSet(idle[t]) /\ IsFiniteSet(busy[t])
      /\ Cardinality(idle[t]) + Cardinality(busy[t]) = size[t] /\ size[t] \in Nat
  BY DEF FullInv, IInv, TypeOK
<1>4. /\ IsFiniteSet(busy[t] \ {w}) /\ Cardinality(busy[t]) \in Nat
      /\ Cardinality(busy[t] \ {w}) = Cardinality(busy[t]) - 1
  BY <1>1, <1>3, WorkerCounting
<1>5. /\ IsFiniteSet(idle[t] \cup {w}) /\ Cardinality(idle[t]) \in Nat
      /\ Cardinality(idle[t] \cup {w}) = Cardinality(idle[t]) + 1
  BY <1>1, <1>3, WorkerCounting
<1>6. Cardinality(idle[t] \cup {w}) + Cardinality(busy[t] \ {w}) = size[t]
  BY <1>3, <1>4, <1>5
<1>7. QED BY <1>2, <1>4, <1>5, <1>6 DEF FullInv, IInv, TypeOK, ResizeFindsAllWorkersIdle

\* The pools are full initially, having no size, and after every step.
LEMMA InitFull == Init => FullInv
  BY FS_EmptySet DEF Init, FullInv, ResizeFindsAllWorkersIdle

LEMMA NextFull ==
  ASSUME WasmOfOne, IInv, FullInv, Next
  PROVE  FullInv'
<1>1. CASE UNCHANGED <<idle, busy, size>> /\ aborted' # "resize_idle"
  BY <1>1 DEF FullInv, ResizeFindsAllWorkersIdle
<1>2. aborted # "resize_idle"
  BY DEF FullInv, ResizeFindsAllWorkersIdle
<1>3. ASSUME NEW t \in Ts, TStep(t) PROVE FullInv'
  <2>1. CASE PopEntry(t)
    BY <2>1, PopEntryFull
  <2>2. CASE ~PopEntry(t)
    BY <1>1, <1>2, <1>3, <2>2
       DEF TStep, Poll, EndHandler, FinishNative, PopDone, DoChangeICount, LeaveT, Abort,
           pool
  <2>3. QED BY <2>1, <2>2
<1>4. ASSUME NEW i \in Reqs, NEW f \in Fs, NEW t \in Ts,
             TakeOne(i, f, t) \/ NewOne(i, f, t)
      PROVE  FullInv'
  BY <1>1, <1>2, <1>4 DEF TakeOne, NewOne, pool
<1>5. ASSUME NEW t \in Ts, TakeIdle(t) PROVE FullInv'
  BY <1>1, <1>2, <1>5 DEF TakeIdle, pool
<1>6. ASSUME NEW i \in Reqs, Push(i) PROVE FullInv'
  BY <1>1, <1>2, <1>6 DEF Push, pool
<1>7. ASSUME NEW t \in Ts, NEW w \in Workers, WorkerDone(t, w) PROVE FullInv'
  BY <1>7, WorkerDoneFull
<1>8. QED BY <1>3, <1>4, <1>5, <1>6, <1>7 DEF Next

\* If all functions are wasm modules of concurrency 1, resize finds every worker
\* of the pool created and idle (workerPool.cpp, resize).
THEOREM AllWorkersIdle ==
  ASSUME WasmOfOne
  PROVE  Spec => []ResizeFindsAllWorkersIdle
<1>1. IInv /\ FullInv /\ [Next]_vars => FullInv'
  <2>1. IInv /\ FullInv /\ Next => FullInv'
    BY NextFull
  <2>2. FullInv /\ UNCHANGED vars => FullInv'
    BY DEF FullInv, ResizeFindsAllWorkersIdle, vars, pool
  <2>3. QED BY <2>1, <2>2
<1>2. FullInv => ResizeFindsAllWorkersIdle
  BY DEF FullInv
<1>3. QED BY <1>1, <1>2, InitFull, Inductive, PTL DEF Spec
=============================================================================
