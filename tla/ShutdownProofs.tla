--------------------------- MODULE ShutdownProofs ---------------------------
(***************************************************************************)
(* A shutdown that finds no request in flight, for any number of functions,*)
(* resources, Ts and workers: no worker is busy when its pool is shut      *)
(* down, and the walk over the lists joins every T but those of functions  *)
(* that have lost their entry to one of the same name.                     *)
(***************************************************************************)
EXTENDS Shutdown, TaskPoolProofs

-----------------------------------------------------------------------------
(* Until the RFIT thread has been joined.                                  *)

\* A T that does not exist yet has no workers.
Unborn == \A t \in Ts \ created : idle[t] = {}

Serving == /\ spc \in {"serve", "rfit"}
           /\ Own /\ TTP!IInv /\ Unborn
           /\ told = {} /\ exited = {} /\ sT = << >> /\ walked = {}

\* The requests once the signal has come, if it finds none in flight.
Waiting == spc = "rfit" => \A i \in Reqs : dpc[i] = "none" /\ stage[i] = "free"

\* Nothing is on a T that does not exist.
LEMMA NothingOnUnborn ==
  ASSUME Own, TTP!IInv, NEW t \in Ts \ created
  PROVE  iq[t] = << >> /\ \A w \in Workers : wq[t][w] = << >>
<1>1. HomeOf(t) = NoF
  BY HomeFacts DEF Own, ListInv
<1>2. \A i \in Reqs : stage[i] # "free" => on[i] # t
  BY <1>1, TaskPoolAssumption DEF TTP!IInv, TTP!PlaceInv
<1>3. iq[t] \in Seq(Reqs) /\ \A w \in Workers : wq[t][w] \in Seq(Reqs)
  BY DEF TTP!IInv, TTP!TypeOK
<1>4. ASSUME iq[t] # << >> PROVE FALSE
  <2>1. 1 \in 1..Len(iq[t]) /\ iq[t][1] \in Reqs
    BY <1>3, <1>4, HeadTailProperties, LenProperties
  <2>2. stage[iq[t][1]] = "queued" /\ on[iq[t][1]] = t
    BY <2>1 DEF TTP!IInv, TTP!QueueInv, TTP!Holds
  <2>3. QED BY <1>2, <2>1, <2>2
<1>5. ASSUME NEW w \in Workers, wq[t][w] # << >> PROVE FALSE
  <2>1. wq[t][w][1] \in Reqs
    BY <1>3, <1>5
  <2>2. stage[wq[t][w][1]] = "running" /\ on[wq[t][w][1]] = t
    BY <1>5 DEF TTP!IInv, TTP!WorkerInv
  <2>3. QED BY <1>2, <2>1, <2>2
<1>6. QED BY <1>4, <1>5

\* No step gives it workers.
LEMMA UnbornStep ==
  ASSUME Own, TTP!IInv, Unborn, Next
  PROVE  Unborn'
<1>1. idle = [t \in Ts |-> idle[t]] /\ created \subseteq Ts
  BY DEF TTP!IInv, TTP!TypeOK, Own, OwnType
<1>2. CASE UNCHANGED idle /\ created \subseteq created'
  BY <1>2 DEF Unborn
<1>3. ASSUME NEW i \in Reqs, NEW f \in Fs, AccessR(i, f) PROVE Unborn'
  BY <1>2, <1>3 DEF AccessR, threads
<1>4. ASSUME NEW i \in Reqs, AccessF(i) \/ GetT(i) \/ Push(i) PROVE Unborn'
  BY <1>2, <1>4 DEF AccessF, GetT, Push, threads, TT!Push, TT!pool
<1>5. ASSUME NEW i \in Reqs, Holding(i) PROVE Unborn'
  BY <1>2, <1>5 DEF Holding, SnapshotSameR, Probe, SnapshotRs, SnapshotOtherR, CreateT,
                    NewTForF, threads
<1>6. ASSUME NEW t \in Ts, TStep(t) PROVE Unborn'
  <2>1. created' = created
    BY <1>6 DEF TStep, ReturnOne, pool
  <2>2. CASE UNCHANGED idle
    BY <1>2, <2>1, <2>2
  <2>3. CASE TT!PopEntry(t)
    <3>1. t \in created
      BY <2>3, NothingOnUnborn DEF TT!PopEntry
    <3>2. \A u \in Ts \ {t} : idle'[u] = idle[u]
      BY <1>1, <2>3 DEF TT!PopEntry, TT!Abort, TT!pool, TT!StartNative, TT!StartWasm
    <3>3. QED BY <1>1, <2>1, <3>1, <3>2 DEF Unborn
  <2>4. QED BY <1>6, <2>2, <2>3
            DEF TStep, TT!Poll, TT!EndHandler, TT!FinishNative, TT!PopDone, ReturnOne,
                TT!LeaveT, TT!Abort, TT!pool, threads
<1>7. ASSUME NEW t \in Ts, NEW w \in Workers, WorkerDone(t, w) PROVE Unborn'
  <2>1. t \in created /\ created' = created
    BY <1>7, NothingOnUnborn DEF WorkerDone, TT!WorkerDone, pool
  <2>2. \A u \in Ts \ {t} : idle'[u] = idle[u]
    BY <1>1, <1>7 DEF WorkerDone, TT!WorkerDone
  <2>3. QED BY <1>1, <2>1, <2>2 DEF Unborn
<1>8. QED BY <1>3, <1>4, <1>5, <1>6, <1>7 DEF Next

\* Until then the system does what TaskPool lets it do.
Serves == /\ [Next]_vars /\ UNCHANGED <<sT, told, exited, walked>>
          /\ spc' \in {"serve", "rfit"} /\ (spc' = spc \/ Begin)

LEMMA ServeStep ==
  ASSUME Serving, [ShutdownNext]_allVars
  PROVE  JoinRfit \/ Serves
<1>1. ASSUME Next, UNCHANGED main PROVE Serves
  BY <1>1 DEF Serves, main, Serving
<1>2. ASSUME NEW i \in Reqs, Dispatch(i) PROVE Next /\ UNCHANGED main
  BY <1>2 DEF Dispatch, Next
<1>3. ASSUME NEW t \in Ts, TRuns(t) PROVE Next /\ UNCHANGED main
  BY <1>3 DEF TRuns, Next
<1>4. ASSUME NEW t \in Ts, Exit(t) PROVE FALSE
  BY <1>4 DEF Exit, Serving
<1>5. ASSUME NEW t \in Ts, NEW w \in Workers, WorkerRuns(t, w) PROVE Next /\ UNCHANGED main
  BY <1>5 DEF WorkerRuns, Next
<1>6. ASSUME RfitHandles \/ RfitHandled \/ RfitExits \/ Begin PROVE Serves
  BY <1>6 DEF RfitHandles, RfitHandled, RfitExits, Begin, Serves, Serving
<1>7. ASSUME MainStep PROVE JoinRfit
  BY <1>7 DEF MainStep, Serving, LockList, TellT, ShutdownPool, JoinT, UnlockList,
              FlushList, NextR
<1>8. CASE UNCHANGED allVars
  BY <1>8 DEF allVars, main, Serves, Serving
<1>9. QED BY <1>1, <1>2, <1>3, <1>4, <1>5, <1>6, <1>7, <1>8 DEF ShutdownNext

\* And it stays as it was.
LEMMA ServeKept ==
  ASSUME Serving, Serves
  PROVE  Serving'
<1>1. Own' /\ TTP!IInv'
  BY NextOwn, ThreadInvariant DEF Serving, Serves
<1>2. Unborn'
  BY UnbornStep DEF Serving, Serves, vars, threads, pool, Unborn
<1>3. QED BY <1>1, <1>2 DEF Serving, Serves

\* Initially nothing exists.
LEMMA InitServing == ShutdownInit => Serving /\ Waiting
<1> SUFFICES ASSUME ShutdownInit PROVE Serving /\ Waiting
  OBVIOUS
<1>1. Own /\ TTP!IInv
  BY InitBoth DEF ShutdownInit
<1>2. Unborn
  BY DEF ShutdownInit, Init, Unborn
<1>3. QED BY <1>1, <1>2 DEF ShutdownInit, Serving, Waiting

-----------------------------------------------------------------------------
(* From the walk on, if the signal finds no request in flight.             *)

\* What the main thread walks over.
WalkType ==
  /\ sR \in Seq(Rs) /\ sF \in Seq(Fs) /\ sT \in Seq(Ts)
  /\ fList \in [Rs -> Seq(Fs)]
  /\ tlist = [f \in Fs |-> tlist[f]]
  /\ \A f \in Fs : /\ tlist[f] = [items |-> tlist[f].items, nextT |-> tlist[f].nextT]
                   /\ tlist[f].items \in Seq([n : 0..Conc[f], t : Ts])
  /\ spc \in {"fs", "ts", "wp", "join", "flush", "done"}
  /\ spc \in {"ts", "wp", "join", "flush"} => sF # << >>
  /\ spc \in {"wp", "join"} => sT # << >>
  /\ created \subseteq Ts
  /\ idle = [t \in Ts |-> idle[t]]

\* No thread has anything to do.
Quiescent ==
  /\ aborted = "no"
  /\ \A t \in Ts : /\ iq[t] = << >> /\ doneQ[t] = << >> /\ busy[t] = {}
                   /\ \A w \in Workers : wq[t][w] = << >>
                   /\ pc[t] \in {"poll", "iq", "dq"}
  /\ pc = [t \in Ts |-> pc[t]] /\ pending \in [Ts -> SUBSET {"iq", "dq"}]

Calm == WalkType /\ Quiescent

\* Where no request is in flight no thread has anything to do.
LEMMA NothingInFlight ==
  ASSUME TTP!IInv, \A i \in Reqs : stage[i] = "free", aborted = "no"
  PROVE  Quiescent
<1>1. ASSUME NEW t \in Ts
      PROVE  /\ iq[t] = << >> /\ doneQ[t] = << >> /\ busy[t] = {}
             /\ \A w \in Workers : wq[t][w] = << >>
             /\ pc[t] \in {"poll", "iq", "dq"}
  <2>1. /\ iq[t] \in Seq(Reqs) /\ doneQ[t] \in Seq(Reqs) /\ busy[t] \subseteq Workers
        /\ \A w \in Workers : wq[t][w] \in Seq(Reqs)
        /\ pc[t] \in TTP!PCs
    BY DEF TTP!IInv, TTP!TypeOK
  <2>2. ASSUME NEW q \in Seq(Reqs), NEW st, st # "free", TTP!Holds(q, t, st)
        PROVE  q = << >>
    <3>1. SUFFICES ASSUME q # << >> PROVE FALSE
      OBVIOUS
    <3>2. 1 \in 1..Len(q) /\ q[1] \in Reqs
      BY <3>1, HeadTailProperties, LenProperties
    <3>3. QED BY <2>2, <3>2 DEF TTP!Holds
  <2>3. iq[t] = << >> /\ doneQ[t] = << >>
    BY <2>1, <2>2 DEF TTP!IInv, TTP!QueueInv
  <2>4. ASSUME NEW w \in busy[t] PROVE FALSE
    <3>1. wq[t][w][1] \in Reqs /\ stage[wq[t][w][1]] = "running"
      BY <2>1 DEF TTP!IInv, TTP!WorkerInv
    <3>2. QED BY <3>1
  <2>5. \A w \in Workers : wq[t][w] = << >>
    BY <2>4 DEF TTP!IInv, TTP!WorkerInv
  <2>6. pc[t] \notin {"exec", "iqret", "dqret"}
    BY DEF TTP!IInv, TTP!HandInv
  <2>7. QED BY <2>1, <2>3, <2>4, <2>5, <2>6 DEF TTP!PCs
<1>2. pc = [t \in Ts |-> pc[t]] /\ pending \in [Ts -> SUBSET {"iq", "dq"}]
  BY DEF TTP!IInv, TTP!TypeOK
<1>3. QED BY <1>1, <1>2 DEF Quiescent

\* A list of the dispatcher, as the walk sees it.
LEMMA ListTyped ==
  ASSUME Own, NEW f \in Fs
  PROVE  /\ tlist[f] = [items |-> tlist[f].items, nextT |-> tlist[f].nextT]
         /\ tlist[f].items \in Seq([n : 0..Conc[f], t : Ts])
<1> DEFINE L == tlist[f]
           max == Conc[f]
           inList == [n : 0..max, t : Ts]
<1>1. Good(L, max) /\ max \in Nat
  BY ConcFacts DEF Own, ListInv
<1> HIDE DEF L, max
<1>2. L \in [items : Seq(inList), nextT : Ts \cup {NoT}]
  BY <1>1, GoodSound
<1> HIDE DEF inList
<1>3. L.items \in Seq(inList) /\ L = [items |-> L.items, nextT |-> L.nextT]
  BY <1>2
<1>4. QED BY <1>3 DEF L, max, inList

\* The functions of the first resource of a list.
LEMMA FsOfFacts ==
  ASSUME fList \in [Rs -> Seq(Fs)], NEW l \in Seq(Rs)
  PROVE  /\ FsOf(l) \in Seq(Fs)
         /\ l = << >> => FsOf(l) = << >>
         /\ l # << >> => Head(l) \in Rs /\ FsOf(l) = fList[Head(l)]
  BY HeadTailRange, EmptySeq DEF FsOf

\* The walk finds the system calm.
LEMMA JoinCalm ==
  ASSUME Serving, Waiting, JoinRfit
  PROVE  Calm'
<1>1. Quiescent
  BY NothingInFlight DEF Serving, Waiting, JoinRfit, Running
<1>2. Quiescent'
  BY <1>1 DEF JoinRfit, vars, threads, Quiescent
<1>3. fList \in [Rs -> Seq(Fs)] /\ rList \in Seq(Rs) /\ created \subseteq Ts
      /\ tlist = [f \in Fs |-> tlist[f]]
  BY DEF Serving, Own, OwnType
<1>4. idle = [t \in Ts |-> idle[t]]
  BY DEF Serving, TTP!IInv, TTP!TypeOK
<1>5. FsOf(rList) \in Seq(Fs)
  BY <1>3, FsOfFacts
<1>6. /\ sR' = rList /\ sF' = FsOf(rList) /\ spc' = "fs" /\ sT' = << >>
      /\ fList' = fList /\ tlist' = tlist /\ created' = created /\ idle' = idle
  BY DEF Serving, JoinRfit, vars, pool, threads
<1>7. << >> \in Seq(Ts)
  BY EmptySeq
<1>8. \A f \in Fs : /\ tlist[f] = [items |-> tlist[f].items, nextT |-> tlist[f].nextT]
                    /\ tlist[f].items \in Seq([n : 0..Conc[f], t : Ts])
  BY ListTyped DEF Serving
<1>9. WalkType'
  BY <1>3, <1>4, <1>5, <1>6, <1>7, <1>8 DEF WalkType
<1>10. QED BY <1>2, <1>9 DEF Calm

\* The threads have nothing to do but to return from the handlers they are in.
LEMMA ThreadsIdle ==
  ASSUME Quiescent, NEW t \in Ts, TRuns(t)
  PROVE  /\ pc'[t] \in {"poll", "iq", "dq"} /\ \A u \in Ts \ {t} : pc'[u] = pc[u]
         /\ pc' = [u \in Ts |-> pc'[u]] /\ pending' \in [Ts -> SUBSET {"iq", "dq"}]
         /\ UNCHANGED <<pool, reqs, aborted, iq, cur, workFor, curRes, icount, size,
                        idle, busy, wq, doneQ, entries, main>>
<1>1. /\ iq[t] = << >> /\ doneQ[t] = << >> /\ pc[t] \in {"poll", "iq", "dq"}
      /\ pc = [u \in Ts |-> pc[u]] /\ pending \in [Ts -> SUBSET {"iq", "dq"}]
  BY DEF Quiescent
<1>2. TT!Ready(t) = {}
  BY <1>1 DEF TT!Ready
<1>3. UNCHANGED pool /\ TT!EndHandler(t)
  BY <1>1, <1>2 DEF TRuns, TStep, TT!Poll, TT!PopEntry, TT!FinishNative, TT!PopDone,
                    ReturnOne
<1>4. UNCHANGED <<reqs, aborted, iq, cur, workFor, curRes, icount, size,
                  idle, busy, wq, doneQ, entries, main>>
  BY <1>3 DEF TRuns, TT!EndHandler, TT!thread, TT!pool, TT!done, TT!reqs, reqs
<1>5. \/ pc' = [pc EXCEPT ![t] = "poll"] /\ pending' = pending
      \/ \E q \in pending[t] : /\ pc' = [pc EXCEPT ![t] = q]
                               /\ pending' = [pending EXCEPT ![t] = @ \ {q}]
  BY <1>3 DEF TT!EndHandler
<1>6. QED BY <1>1, <1>3, <1>4, <1>5

\* So nothing comes up while the RFIT thread is waited for.
LEMMA WaitingKept ==
  ASSUME Quiet, Serving, Waiting, Serves, [ShutdownNext]_allVars
  PROVE  Waiting'
<1>1. CASE spc' = "serve"
  BY <1>1 DEF Waiting
<1>2. CASE Begin
  BY <1>2 DEF Begin, Waiting, vars, pool, reqs
<1>3. CASE spc = "rfit" /\ spc' = "rfit"
  <2>1. \A i \in Reqs : dpc[i] = "none" /\ stage[i] = "free"
    BY <1>3 DEF Waiting
  <2>2. SUFFICES UNCHANGED <<dpc, stage>>
    BY <2>1 DEF Waiting
  <2>3. aborted = "no" => Quiescent
    BY <2>1, NothingInFlight DEF Serving
  <2>4. ASSUME NEW i \in Reqs, Dispatch(i) PROVE FALSE
    BY <1>3, <2>4 DEF Dispatch
  <2>5. ASSUME NEW t \in Ts, TRuns(t) PROVE UNCHANGED <<dpc, stage>>
    <3>1. aborted = "no"
      BY <2>5 DEF TRuns, TStep, TT!Poll, TT!EndHandler, TT!PopEntry, TT!FinishNative,
                  TT!PopDone, ReturnOne, TT!Running
    <3>2. QED BY <2>3, <2>5, <3>1, ThreadsIdle DEF pool, reqs
  <2>6. ASSUME NEW t \in Ts, NEW w \in Workers, WorkerRuns(t, w) PROVE FALSE
    <3>1. aborted = "no" /\ wq[t][w] # << >>
      BY <2>6 DEF WorkerRuns, WorkerDone, TT!WorkerDone, TT!Running
    <3>2. QED BY <2>3, <3>1 DEF Quiescent
  <2>7. CASE UNCHANGED vars
    BY <2>7 DEF vars, pool, reqs
  <2>8. ASSUME NEW t \in Ts, Exit(t) PROVE UNCHANGED vars
    BY <2>8 DEF Exit
  <2>9. ASSUME RfitHandles \/ RfitHandled \/ RfitExits \/ Begin PROVE UNCHANGED vars
    BY <2>9 DEF RfitHandles, RfitHandled, RfitExits, Begin
  <2>10. ASSUME MainStep PROVE FALSE
    BY <1>3, <2>10 DEF MainStep, JoinRfit, LockList, TellT, ShutdownPool, JoinT,
                       UnlockList, FlushList, NextR
  <2>11. CASE UNCHANGED allVars
    BY <2>7, <2>11 DEF allVars
  <2>12. QED BY <2>4, <2>5, <2>6, <2>7, <2>8, <2>9, <2>10, <2>11 DEF ShutdownNext
<1>4. QED BY <1>1, <1>2, <1>3 DEF Serves

\* The Ts of a list.
LEMMA TsOfList ==
  ASSUME NEW max, NEW L, L.items \in Seq([n : 0..max, t : Ts])
  PROVE  /\ [k \in DOMAIN L.items |-> L.items[k].t] \in Seq(Ts)
         /\ Range([k \in DOMAIN L.items |-> L.items[k].t]) = Members(L)
<1> DEFINE s == L.items
           ts == [k \in DOMAIN L.items |-> L.items[k].t]
           inList == [n : 0..max, t : Ts]
<1>1. Len(s) \in Nat /\ DOMAIN s = 1..Len(s) /\ \A k \in 1..Len(s) : s[k].t \in Ts
  <2>1. s \in Seq(inList)
    OBVIOUS
  <2> HIDE DEF s, inList
  <2>2. Len(s) \in Nat /\ DOMAIN s = 1..Len(s) /\ \A k \in 1..Len(s) : s[k] \in inList
    BY <2>1, LenProperties
  <2>3. QED BY <2>2 DEF inList
<1>2. ts \in Seq(Ts)
  BY <1>1, IsASeq
<1>3. Range(ts) = Members(L)
  BY DEF Range, Members
<1>4. QED BY <1>2, <1>3

\* The main thread keeps to the lists and goes through its places.
LEMMA MainTyped ==
  ASSUME Calm, MainStep
  PROVE  WalkType' /\ Quiescent'
<1> DEFINE t0 == Head(sT)
<1>0. /\ spc \in {"wp", "join"} => t0 \in Ts
      /\ sT # << >> => Tail(sT) \in Seq(Ts)
      /\ sF # << >> => Head(sF) \in Fs /\ Tail(sF) \in Seq(Fs)
      /\ sR # << >> => Head(sR) \in Rs /\ Tail(sR) \in Seq(Rs)
  BY HeadTailProperties DEF Calm, WalkType
<1> HIDE DEF t0
<1>1. CASE LockList
  <2>1. Head(sF) \in Fs /\ sT' = [k \in DOMAIN tlist[Head(sF)].items |-> tlist[Head(sF)].items[k].t]
    BY <1>0, <1>1 DEF LockList
  <2>2. tlist[Head(sF)].items \in Seq([n : 0..Conc[Head(sF)], t : Ts])
    BY <2>1 DEF Calm, WalkType
  <2>3. sT' \in Seq(Ts)
    BY <2>1, <2>2, TsOfList
  <2>4. QED BY <1>1, <2>3 DEF LockList, Calm, WalkType, Quiescent, vars, pool, threads
<1>2. CASE TellT \/ JoinT \/ UnlockList
  <2>1. UNCHANGED <<sR, sF, fList, tlist, created, idle>> /\ sT' \in Seq(Ts)
    BY <1>0, <1>2 DEF TellT, JoinT, UnlockList, Calm, WalkType, vars, pool, threads
  <2>2. /\ spc' \in {"ts", "wp", "flush"} /\ spc \in {"ts", "join"}
        /\ spc' = "wp" => sT' # << >>
    BY <1>2 DEF TellT, JoinT, UnlockList
  <2>3. WalkType'
    BY <2>1, <2>2 DEF Calm, WalkType
  <2>4. Quiescent'
    BY <1>2 DEF TellT, JoinT, UnlockList, Calm, Quiescent, vars, threads
  <2>5. QED BY <2>3, <2>4
<1>3. CASE ShutdownPool
  <2>1. busy[t0] = {}
    BY <1>0, <1>3 DEF ShutdownPool, Calm, Quiescent
  <2>2. idle' = [idle EXCEPT ![t0] = {}] /\ spc' = "join" /\ UNCHANGED aborted
    BY <1>3, <2>1 DEF ShutdownPool, t0
  <2>3. Quiescent'
    BY <1>3, <2>2 DEF ShutdownPool, Calm, Quiescent
  <2>4. WalkType'
    BY <1>0, <1>3, <2>2 DEF ShutdownPool, Calm, WalkType, pool
  <2>5. QED BY <2>3, <2>4
<1>4. CASE FlushList
  <2>1. Head(sF) \in Fs /\ Tail(sF) \in Seq(Fs)
    BY <1>0, <1>4 DEF FlushList, Calm, WalkType
  <2>2. tlist' = [tlist EXCEPT ![Head(sF)].items = << >>]
    BY <1>4 DEF FlushList
  <2>3. /\ tlist' = [f \in Fs |-> tlist'[f]]
        /\ \A f \in Fs : /\ tlist'[f] = [items |-> tlist'[f].items, nextT |-> tlist'[f].nextT]
                         /\ tlist'[f].items = << >> \/ tlist'[f] = tlist[f]
    BY <2>1, <2>2 DEF Calm, WalkType
  <2>4. \A f \in Fs : tlist'[f].items \in Seq([n : 0..Conc[f], t : Ts])
    BY <2>3, EmptySeq DEF Calm, WalkType
  <2>5. WalkType'
    BY <1>4, <2>1, <2>3, <2>4 DEF FlushList, Calm, WalkType, threads
  <2>6. QED BY <1>4, <2>5 DEF FlushList, Calm, Quiescent, threads
<1>5. CASE NextR
  <2>1. sR # << >> => FsOf(Tail(sR)) \in Seq(Fs)
    BY <1>0, FsOfFacts DEF Calm, WalkType
  <2>2. << >> \in Seq(Fs)
    BY EmptySeq
  <2>3. fList' \in [Rs -> Seq(Fs)]
    BY <1>5, <2>2 DEF NextR, Calm, WalkType
  <2>4. WalkType'
    BY <1>0, <1>5, <2>1, <2>3 DEF NextR, Calm, WalkType, threads
  <2>5. QED BY <1>5, <2>4 DEF NextR, Calm, Quiescent, threads
<1>6. CASE JoinRfit
  BY <1>6 DEF JoinRfit, Calm, WalkType
<1>7. QED BY <1>1, <1>2, <1>3, <1>4, <1>5, <1>6 DEF MainStep

\* The calm lasts.
LEMMA CalmKept ==
  ASSUME Calm, [ShutdownNext]_allVars
  PROVE  Calm'
<1>1. ASSUME NEW i \in Reqs, Dispatch(i) PROVE FALSE
  BY <1>1 DEF Dispatch, Calm, WalkType
<1>2. ASSUME NEW t \in Ts, TRuns(t) PROVE Calm'
  <2>1. /\ pc'[t] \in {"poll", "iq", "dq"} /\ \A u \in Ts \ {t} : pc'[u] = pc[u]
        /\ pc' = [u \in Ts |-> pc'[u]] /\ pending' \in [Ts -> SUBSET {"iq", "dq"}]
        /\ UNCHANGED <<pool, aborted, iq, idle, busy, wq, doneQ, main>>
    BY <1>2, ThreadsIdle DEF Calm
  <2>2. Quiescent'
    BY <2>1 DEF Calm, Quiescent
  <2>3. WalkType'
    BY <2>1 DEF Calm, WalkType, pool, main
  <2>4. QED BY <2>2, <2>3 DEF Calm
<1>3. ASSUME NEW t \in Ts, Exit(t) PROVE Calm'
  BY <1>3 DEF Exit, vars, pool, threads, Calm, WalkType, Quiescent
<1>4. ASSUME NEW t \in Ts, NEW w \in Workers, WorkerRuns(t, w) PROVE FALSE
  BY <1>4 DEF WorkerRuns, WorkerDone, TT!WorkerDone, Calm, Quiescent
<1>5. CASE RfitHandles \/ RfitHandled \/ RfitExits \/ Begin
  <2>1. UNCHANGED vars /\ UNCHANGED <<spc, sR, sF, sT>>
    BY <1>5 DEF RfitHandles, RfitHandled, RfitExits, Begin, Calm, WalkType
  <2>2. QED BY <2>1 DEF vars, pool, threads, Calm, WalkType, Quiescent
<1>6. CASE MainStep
  BY <1>6, MainTyped DEF Calm
<1>7. CASE UNCHANGED allVars
  BY <1>7 DEF allVars, main, vars, pool, threads, Calm, WalkType, Quiescent
<1>8. QED BY <1>1, <1>2, <1>3, <1>4, <1>5, <1>6, <1>7 DEF ShutdownNext

\* If the signal finds no request in flight, no worker is ever killed
\* (worker.cpp, kill, an assert(false); workerPool.cpp, shutdown).
THEOREM NoWorkerIsKilled ==
  ASSUME Quiet
  PROVE  ShutdownSpec => []KillNotReached
<1> DEFINE SInv == Serving /\ Waiting
<1>1. (SInv \/ Calm) /\ [ShutdownNext]_allVars => (SInv \/ Calm)'
  BY ServeStep, ServeKept, WaitingKept, JoinCalm, CalmKept
<1>2. SInv \/ Calm => KillNotReached
  BY DEF Serving, TTP!IInv, TTP!TypeOK, TTP!Aborts, Calm, Quiescent, KillNotReached
<1>3. QED BY <1>1, <1>2, InitServing, PTL DEF ShutdownSpec

\* Nor does a resize miss a worker, if functions are wasm modules of
\* concurrency 1 (workerPool.cpp, resize).
THEOREM ResizeFindsWorkers ==
  ASSUME Quiet, TTP!WasmOfOne
  PROVE  ShutdownSpec => []ResizeFindsAllWorkersIdle
<1> DEFINE FInv == Serving /\ Waiting /\ TTP!FullInv
<1>1. ShutdownInit => FInv
  <2>1. ShutdownInit => TTP!Init
    BY InitBoth DEF ShutdownInit, TT!Init, TTP!Init
  <2>2. QED BY <2>1, InitServing, ThreadAssumption, TTP!InitFull
<1>2. FInv /\ Serves /\ [ShutdownNext]_allVars => FInv'
  <2>0. SUFFICES ASSUME FInv, Serves, [ShutdownNext]_allVars PROVE FInv'
    OBVIOUS
  <2>1. Waiting'
    BY <2>0, WaitingKept
  <2>2. [TT!Next]_(TT!vars)
    BY <2>0, NextOwn DEF Serving, Serves
  <2>3. CASE TT!Next
    BY <2>0, <2>1, <2>3, SameNext, ServeKept, ThreadAssumption, TTP!NextFull DEF Serving
  <2>4. CASE UNCHANGED TT!vars
    <3>1. UNCHANGED <<idle, busy, size, aborted>>
      BY <2>4 DEF TT!vars, TT!pool
    <3>2. QED BY <2>0, <2>1, <3>1, ServeKept DEF TTP!FullInv, TTP!ResizeFindsAllWorkersIdle
  <2>5. QED BY <2>2, <2>3, <2>4
<1>3. (FInv \/ Calm) /\ [ShutdownNext]_allVars => (FInv \/ Calm)'
  BY <1>2, ServeStep, JoinCalm, CalmKept
<1>4. FInv \/ Calm => ResizeFindsAllWorkersIdle
  BY DEF TTP!FullInv, TTP!ResizeFindsAllWorkersIdle, ResizeFindsAllWorkersIdle,
         Calm, Quiescent
<1>5. QED BY <1>1, <1>3, <1>4, PTL DEF ShutdownSpec

-----------------------------------------------------------------------------
(* The walk over the lists.                                                *)

\* A T that the walk has dealt with.
Over(t) == t \in exited /\ idle[t] = {} /\ busy[t] = {}

\* The walk still comes to f: in this resource, or in a later one, whose list of
\* functions is copied when the walk gets there.
Ahead(f) ==
  \/ f \in Range(sF)
  \/ /\ sR # << >> /\ ResOf[f] \in Range(Tail(sR)) /\ ResOf[f] # Head(sR)
     /\ f \in Range(fList[ResOf[f]])

\* The walk still comes to t, which is in the list of f.
Waits(t, f) ==
  /\ t \in Members(tlist[f]) /\ Ahead(f)
  /\ spc = "flush" => f # Head(sF)
  /\ spc \in {"ts", "wp", "join"} /\ f = Head(sF) => t \in Range(sT)

\* The walk does not come to f, but comes or came to a function that has taken
\* its entry.
PassedOver(f) ==
  /\ f \notin walked /\ f \notin Range(sF) /\ f \notin Range(fList[ResOf[f]])
  /\ \E g \in SameKey(f) : ResOf[g] = ResOf[f] /\ (Ahead(g) \/ g \in walked)

\* What becomes of t.
Accounted(t) == \/ Over(t)
                \/ \E f \in Fs : Waits(t, f)
                \/ \E f \in Fs : t \in Members(tlist[f]) /\ PassedOver(f)

WalkInv ==
  /\ \A t \in created : Accounted(t)
  /\ \A r \in Rs : Range(fList[r]) \subseteq {f \in Fs : ResOf[f] = r}
  /\ \A f \in Fs : Members(tlist[f]) \subseteq created
  /\ exited \subseteq told /\ told \subseteq created /\ Range(sT) \subseteq created
  /\ Unborn
  /\ spc = "join" => idle[Head(sT)] = {}
  /\ spc \in {"ts", "wp", "join", "flush"} => Head(sF) \in walked
  /\ spc = "done" => sF = << >> /\ sR = << >>

\* When the walk starts, it will come to every list, or to the one that has its
\* entry.
LEMMA JoinWalk ==
  ASSUME Serving, Waiting, ReachInv, JoinRfit
  PROVE  WalkInv'
<1>1. /\ sR' = rList /\ sF' = FsOf(rList) /\ spc' = "fs" /\ sT' = << >>
      /\ told' = {} /\ exited' = {} /\ walked' = {}
      /\ UNCHANGED <<fList, tlist, created, idle, busy>>
  BY DEF Serving, JoinRfit, vars, pool, threads
<1>2. fList \in [Rs -> Seq(Fs)] /\ rList \in Seq(Rs) /\ created \subseteq Ts
  BY DEF Serving, Own, OwnType
<1>3. hand = NoT /\ NoT \notin Ts
  BY TaskPoolAssumption DEF Serving, Waiting, JoinRfit, Own, DispatchInv
<1>4. ASSUME NEW g \in Fs, ResOf[g] \in Range(rList), g \in Range(fList[ResOf[g]])
      PROVE  Ahead(g)'
  <2>1. rList # << >>
    BY <1>4 DEF Range
  <2>2. Range(rList) = {Head(rList)} \cup Range(Tail(rList))
    BY <1>2, <2>1, HeadTailRange
  <2>3. sF' = fList[Head(rList)]
    BY <1>1, <2>1 DEF FsOf
  <2>4. QED BY <1>1, <1>4, <2>1, <2>2, <2>3 DEF Ahead
<1>5. ASSUME NEW f \in Fs, f \notin Range(fList[ResOf[f]])
      PROVE  f \notin Range(sF')
  <2>1. CASE rList = << >>
    BY <1>1, <2>1 DEF FsOf, Range
  <2>2. CASE rList # << >>
    <3>1. sF' = fList[Head(rList)] /\ Head(rList) \in Rs
      BY <1>1, <1>2, <2>2, HeadTailRange DEF FsOf
    <3>2. QED BY <1>5, <3>1 DEF ReachInv
  <2>3. QED BY <2>1, <2>2
<1>6. ASSUME NEW t \in created PROVE Accounted(t)'
  <2>1. PICK f \in Fs : t \in Members(tlist[f])
    BY <1>2, <1>3 DEF ReachInv
  <2>2. PICK g \in Range(fList[ResOf[f]]) : g \in SameKey(f)
    BY <2>1 DEF ReachInv, Listed
  <2>3. g \in Fs /\ ResOf[g] = ResOf[f] /\ ResOf[f] \in Range(rList)
    BY <2>1, <2>2, ConcFacts DEF ReachInv, Listed
  <2>4. Ahead(g)'
    BY <1>4, <2>2, <2>3
  <2>5. CASE f \in Range(fList[ResOf[f]])
    <3>1. Waits(t, f)'
      BY <1>1, <1>4, <2>1, <2>3, <2>5 DEF Waits
    <3>2. QED BY <3>1 DEF Accounted
  <2>6. CASE f \notin Range(fList[ResOf[f]])
    <3>1. PassedOver(f)'
      BY <1>1, <1>5, <2>2, <2>3, <2>4, <2>6 DEF PassedOver, SameKey
    <3>2. QED BY <1>1, <2>1, <3>1 DEF Accounted
  <2>7. QED BY <2>5, <2>6
<1>7. Range(sT') = {}
  BY <1>1 DEF Range
<1>8. \A f \in Fs : Members(tlist[f]) \subseteq created
  BY DEF Serving, Own, ListInv
<1>9. QED BY <1>1, <1>6, <1>7, <1>8 DEF WalkInv, Serving, Unborn, ReachInv

\* A step that keeps what is known of each T.
LEMMA AccountedKept ==
  ASSUME UNCHANGED created,
         \A t \in created : Over(t) => Over(t)',
         \A t \in created, f \in Fs : Waits(t, f) => Waits(t, f)' \/ Over(t)',
         \A f \in Fs : PassedOver(f) => PassedOver(f)' /\ tlist'[f] = tlist[f]
  PROVE  (\A t \in created : Accounted(t)) => (\A t \in created : Accounted(t))'
<1> SUFFICES ASSUME NEW t \in created, Accounted(t) PROVE Accounted(t)'
  OBVIOUS
<1>1. ASSUME NEW f \in Fs, t \in Members(tlist[f]), PassedOver(f) PROVE Accounted(t)'
  <2>1. t \in Members(tlist'[f]) /\ PassedOver(f)'
    BY <1>1
  <2>2. QED BY <2>1 DEF Accounted
<1>2. QED BY <1>1 DEF Accounted

\* One that leaves the walk where it is passes over the same functions.
LEMMA PassedOverKept ==
  ASSUME UNCHANGED <<sR, sF, fList, tlist, walked>>
  PROVE  \A f \in Fs : PassedOver(f) => PassedOver(f)' /\ tlist'[f] = tlist[f]
  BY DEF PassedOver, Ahead, SameKey

\* The main thread loses no T.
LEMMA WalkStep ==
  ASSUME Calm, WalkInv, MainStep
  PROVE  WalkInv'
<1> DEFINE t0 == Head(sT)
           f0 == Head(sF)
           r0 == Head(sR)
<1>0. /\ sT # << >> => t0 \in Ts /\ Range(sT) = {t0} \cup Range(Tail(sT))
      /\ sF # << >> => f0 \in Fs /\ Range(sF) = {f0} \cup Range(Tail(sF))
      /\ sR # << >> => r0 \in Rs /\ Tail(sR) \in Seq(Rs)
                       /\ Range(sR) = {r0} \cup Range(Tail(sR))
  BY HeadTailRange DEF Calm, WalkType
<1>1. /\ Range(<< >>) = {}
      /\ created \subseteq Ts
      /\ \A t \in Ts : busy[t] = {}
  BY DEF Range, Calm, WalkType, Quiescent
<1>2. /\ spc \in {"ts", "wp", "join", "flush"} => sF # << >>
      /\ spc \in {"wp", "join"} => sT # << >>
  BY DEF Calm, WalkType
<1> HIDE DEF t0, f0, r0
<1>3. CASE LockList
  <2>1. /\ sT' = [k \in DOMAIN tlist[f0].items |-> tlist[f0].items[k].t]
        /\ spc = "fs" /\ sF # << >> /\ spc' = "ts" /\ walked' = walked \cup {f0}
        /\ UNCHANGED <<sR, sF, told, exited, fList, tlist, created, idle, busy>>
    BY <1>3 DEF LockList, f0, vars, pool, threads
  <2>2. tlist[f0].items \in Seq([n : 0..Conc[f0], t : Ts]) /\ f0 \in Fs
    BY <1>0, <2>1 DEF Calm, WalkType
  <2>3. Range(sT') = Members(tlist[f0])
    BY <2>1, <2>2, TsOfList
  <2>4. \A t \in created, f \in Fs : Waits(t, f) => Waits(t, f)'
    BY <2>1, <2>3 DEF Waits, Ahead, f0
  <2>5. \A t \in created : Over(t) => Over(t)'
    BY <2>1 DEF Over
  <2>6. \A f \in Fs : PassedOver(f) => PassedOver(f)' /\ tlist'[f] = tlist[f]
    <3>1. f0 \in Range(sF) /\ \A f \in Fs : Ahead(f)' = Ahead(f)
      BY <1>0, <2>1 DEF Ahead
    <3>2. QED BY <2>1, <3>1 DEF PassedOver, SameKey
  <2>7. (\A t \in created : Accounted(t))'
    BY <2>1, <2>4, <2>5, <2>6, AccountedKept DEF WalkInv
  <2>8. QED BY <2>1, <2>2, <2>3, <2>7 DEF WalkInv, Unborn, f0
<1>4. CASE TellT
  <2>1. /\ spc = "ts" /\ sT # << >> /\ spc' = "wp" /\ told' = told \cup {t0}
        /\ UNCHANGED <<sR, sF, sT, exited, walked, fList, tlist, created, idle, busy>>
    BY <1>4 DEF TellT, t0, vars, pool, threads
  <2>2. \A t \in created, f \in Fs : Waits(t, f) => Waits(t, f)'
    BY <2>1 DEF Waits, Ahead
  <2>3. \A t \in created : Over(t) => Over(t)'
    BY <2>1 DEF Over
  <2>4. t0 \in created
    BY <1>0, <2>1 DEF WalkInv
  <2>5. (\A t \in created : Accounted(t))'
    BY <2>1, <2>2, <2>3, AccountedKept, PassedOverKept DEF WalkInv
  <2>6. QED BY <2>1, <2>4, <2>5 DEF WalkInv, Unborn
<1>5. CASE ShutdownPool
  <2>1. spc = "wp" /\ busy[t0] = {} /\ t0 \in Ts
    BY <1>0, <1>1, <1>2, <1>5 DEF ShutdownPool
  <2>2. /\ spc' = "join" /\ idle' = [idle EXCEPT ![t0] = {}]
        /\ UNCHANGED <<sR, sF, sT, told, exited, walked, fList, tlist, created, busy>>
    BY <1>5, <2>1 DEF ShutdownPool, t0, pool
  <2>3. idle'[t0] = {} /\ \A t \in Ts : t # t0 => idle'[t] = idle[t]
    BY <2>1, <2>2 DEF Calm, WalkType
  <2>4. \A t \in created, f \in Fs : Waits(t, f) => Waits(t, f)'
    BY <2>1, <2>2 DEF Waits, Ahead
  <2>5. \A t \in created : Over(t) => Over(t)'
    BY <1>1, <2>2, <2>3 DEF Over
  <2>6. Unborn'
    BY <2>2, <2>3 DEF WalkInv, Unborn
  <2>7. idle'[Head(sT')] = {}
    BY <2>2, <2>3 DEF t0
  <2>8. (\A t \in created : Accounted(t))'
    BY <2>2, <2>4, <2>5, AccountedKept, PassedOverKept DEF WalkInv
  <2>9. QED BY <2>1, <2>2, <2>6, <2>7, <2>8 DEF WalkInv
<1>6. CASE JoinT
  <2>1. /\ spc = "join" /\ t0 \in exited /\ sT' = Tail(sT) /\ spc' = "ts"
        /\ UNCHANGED <<sR, sF, told, exited, walked, fList, tlist, created, idle, busy>>
    BY <1>6 DEF JoinT, t0, vars, pool, threads
  <2>2. \A t \in created : t = t0 => Over(t)'
    <3>1. t0 \in Ts /\ busy[t0] = {} /\ idle[t0] = {}
      BY <1>0, <1>1, <1>2, <2>1 DEF WalkInv, t0
    <3>2. QED BY <2>1, <3>1 DEF Over
  <2>3. Range(sT) = {t0} \cup Range(sT')
    BY <1>0, <1>2, <2>1
  <2>4. \A t \in created, f \in Fs : Waits(t, f) => Waits(t, f)' \/ t = t0
    BY <2>1, <2>3 DEF Waits, Ahead
  <2>5. \A t \in created : Over(t) => Over(t)'
    BY <2>1 DEF Over
  <2>6. (\A t \in created : Accounted(t))'
    BY <2>1, <2>2, <2>4, <2>5, AccountedKept, PassedOverKept DEF WalkInv
  <2>7. QED BY <2>1, <2>3, <2>6 DEF WalkInv, Unborn
<1>7. CASE UnlockList
  <2>1. /\ spc = "ts" /\ sT = << >> /\ spc' = "flush"
        /\ UNCHANGED <<sR, sF, sT, told, exited, walked, fList, tlist, created, idle, busy>>
    BY <1>7 DEF UnlockList, vars, pool, threads
  <2>2. \A t \in created, f \in Fs : Waits(t, f) => Waits(t, f)'
    BY <1>1, <2>1 DEF Waits, Ahead
  <2>3. \A t \in created : Over(t) => Over(t)'
    BY <2>1 DEF Over
  <2>4. (\A t \in created : Accounted(t))'
    BY <2>1, <2>2, <2>3, AccountedKept, PassedOverKept DEF WalkInv
  <2>5. QED BY <2>1, <2>4 DEF WalkInv, Unborn
<1>8. CASE FlushList
  <2>1. /\ spc = "flush" /\ tlist' = [tlist EXCEPT ![f0].items = << >>]
        /\ sF' = Tail(sF) /\ spc' = "fs"
        /\ UNCHANGED <<sR, sT, told, exited, walked, fList, created, idle, busy>>
    BY <1>8 DEF FlushList, f0, threads
  <2>2. f0 \in Fs /\ Range(sF) = {f0} \cup Range(sF')
    BY <1>0, <1>2, <2>1
  <2>3. /\ \A f \in Fs : f # f0 => tlist'[f] = tlist[f]
        /\ tlist'[f0].items = << >>
    <3>1. /\ tlist = [f \in Fs |-> tlist[f]]
          /\ tlist[f0] = [items |-> tlist[f0].items, nextT |-> tlist[f0].nextT]
      BY <2>2 DEF Calm, WalkType
    <3>2. /\ tlist'[f0] = [tlist[f0] EXCEPT !.items = << >>]
          /\ \A f \in Fs : f # f0 => tlist'[f] = tlist[f]
      BY <2>1, <2>2, <3>1
    <3>3. QED BY <3>1, <3>2
  <2>4. \A t \in created, f \in Fs : Waits(t, f) => Waits(t, f)'
    BY <2>1, <2>2, <2>3 DEF Waits, Ahead, f0
  <2>5. \A t \in created : Over(t) => Over(t)'
    BY <2>1 DEF Over
  <2>6. Members(tlist'[f0]) = {}
    BY <2>3 DEF Members
  <2>7. \A f \in Fs : Members(tlist'[f]) \subseteq created
    BY <2>3, <2>6 DEF WalkInv
  <2>8. \A f \in Fs : PassedOver(f) => PassedOver(f)' /\ tlist'[f] = tlist[f]
    <3>1. f0 \in walked
      BY <2>1 DEF WalkInv, f0
    <3>2. \A f \in Fs : Ahead(f) => Ahead(f)' \/ f = f0
      BY <2>1, <2>2 DEF Ahead
    <3>3. ASSUME NEW f \in Fs, PassedOver(f) PROVE PassedOver(f)'
      <4>1. PICK g \in SameKey(f) : ResOf[g] = ResOf[f] /\ (Ahead(g) \/ g \in walked)
        BY <3>3 DEF PassedOver
      <4>2. Ahead(g)' \/ g \in walked'
        BY <2>1, <3>1, <3>2, <4>1 DEF SameKey
      <4>3. QED BY <2>1, <2>2, <3>3, <4>1, <4>2 DEF PassedOver, SameKey
    <3>4. QED BY <2>2, <2>3, <3>3 DEF PassedOver
  <2>9. (\A t \in created : Accounted(t))'
    BY <2>1, <2>4, <2>5, <2>8, AccountedKept DEF WalkInv
  <2>10. QED BY <2>1, <2>7, <2>9 DEF WalkInv, Unborn
<1>9. CASE NextR
  <2>1. /\ spc = "fs" /\ sF = << >>
        /\ UNCHANGED <<sT, told, exited, walked, tlist, created, idle, busy>>
    BY <1>9 DEF NextR, threads
  <2>2. \A t \in created : Over(t) => Over(t)'
    BY <2>1 DEF Over
  <2>3. CASE sR # << >>
    <3>1. /\ fList' = [fList EXCEPT ![r0] = << >>] /\ spc' = spc
          /\ sR' = Tail(sR) /\ sF' = IF sR' = << >> THEN << >> ELSE fList[Head(sR')]
      BY <1>9, <2>3 DEF NextR, r0, FsOf
    <3>2. /\ fList'[r0] = << >> /\ \A r \in Rs : r # r0 => fList'[r] = fList[r]
          /\ fList \in [Rs -> Seq(Fs)]
      BY <1>0, <2>3, <3>1 DEF Calm, WalkType
    <3>3. ASSUME NEW f \in Fs, Ahead(f) PROVE Ahead(f)'
      <4>1. /\ ResOf[f] \in Range(sR') /\ ResOf[f] # r0
            /\ f \in Range(fList[ResOf[f]])
        BY <1>1, <2>1, <3>1, <3>3 DEF Ahead, r0
      <4>2. sR' # << >> /\ sR' \in Seq(Rs) /\ ResOf[f] \in Rs
        BY <1>0, <1>1, <2>3, <3>1, <4>1, ConcFacts
      <4>3. Range(sR') = {Head(sR')} \cup Range(Tail(sR'))
        BY <4>2, HeadTailRange
      <4>4. f \in Range(fList'[ResOf[f]])
        BY <3>2, <4>1, <4>2
      <4>5. QED BY <3>1, <4>1, <4>2, <4>3, <4>4 DEF Ahead
    <3>4. \A t \in created, f \in Fs : Waits(t, f) => Waits(t, f)'
      BY <2>1, <3>1, <3>3 DEF Waits
    <3>5. \A r \in Rs : Range(fList'[r]) \subseteq Range(fList[r])
      BY <1>1, <3>2
    <3>6. \A f \in Fs : f \notin Range(fList[ResOf[f]]) => f \notin Range(sF')
      <4>1. CASE sR' = << >>
        BY <1>1, <3>1, <4>1
      <4>2. CASE sR' # << >>
        <5>1. sF' = fList[Head(sR')] /\ Head(sR') \in Rs
          BY <1>0, <2>3, <3>1, <4>2, HeadTailRange
        <5>2. QED BY <5>1 DEF WalkInv
      <4>3. QED BY <4>1, <4>2
    <3>7. ASSUME NEW f \in Fs, PassedOver(f) PROVE PassedOver(f)'
      <4>1. f \notin walked' /\ f \notin Range(sF') /\ f \notin Range(fList'[ResOf[f]])
        BY <2>1, <3>5, <3>6, <3>7, ConcFacts DEF PassedOver
      <4>2. PICK g \in SameKey(f) : ResOf[g] = ResOf[f] /\ (Ahead(g) \/ g \in walked)
        BY <3>7 DEF PassedOver
      <4>3. Ahead(g)' \/ g \in walked'
        BY <2>1, <3>3, <4>2 DEF SameKey
      <4>4. QED BY <4>1, <4>2, <4>3 DEF PassedOver, SameKey
    <3>8. (\A t \in created : Accounted(t))'
      BY <2>1, <2>2, <3>4, <3>7, AccountedKept DEF WalkInv
    <3>9. QED BY <2>1, <3>1, <3>5, <3>8 DEF WalkInv, Unborn
  <2>4. CASE sR = << >>
    <3>1. UNCHANGED <<fList, sR, sF>> /\ spc' = "done"
      BY <1>9, <2>4 DEF NextR
    <3>2. \A t \in created, f \in Fs : Waits(t, f) => Waits(t, f)'
      BY <2>1, <3>1 DEF Waits, Ahead
    <3>3. (\A t \in created : Accounted(t))'
      BY <2>1, <2>2, <3>1, <3>2, AccountedKept, PassedOverKept DEF WalkInv
    <3>4. QED BY <2>1, <2>4, <3>1, <3>3 DEF WalkInv, Unborn
  <2>5. QED BY <2>3, <2>4
<1>10. CASE JoinRfit
  BY <1>10 DEF JoinRfit, Calm, WalkType
<1>11. QED BY <1>3, <1>4, <1>5, <1>6, <1>7, <1>8, <1>9, <1>10 DEF MainStep

\* Nor does any other step.
LEMMA WalkKept ==
  ASSUME Calm, WalkInv, [ShutdownNext]_allVars
  PROVE  WalkInv'
<1>1. CASE UNCHANGED <<fList, tlist, created, idle, busy, spc, sR, sF, sT, told, exited, walked>>
  <2>1. (\A t \in created : Accounted(t))'
    <3>1. \A t \in created : Over(t) => Over(t)'
      BY <1>1 DEF Over
    <3>2. \A t \in created, f \in Fs : Waits(t, f) => Waits(t, f)'
      BY <1>1 DEF Waits, Ahead
    <3>3. QED BY <1>1, <3>1, <3>2, AccountedKept, PassedOverKept DEF WalkInv
  <2>2. QED BY <1>1, <2>1 DEF WalkInv, Unborn
<1>2. ASSUME NEW i \in Reqs, Dispatch(i) PROVE FALSE
  BY <1>2 DEF Dispatch, Calm, WalkType
<1>3. ASSUME NEW t \in Ts, TRuns(t) PROVE WalkInv'
  BY <1>1, <1>3, ThreadsIdle DEF pool, main, Calm
<1>4. ASSUME NEW t \in Ts, Exit(t) PROVE WalkInv'
  <2>1. /\ exited' = exited \cup {t} /\ t \in told
        /\ UNCHANGED <<fList, tlist, created, idle, busy, spc, sR, sF, sT, held, told, walked>>
    BY <1>4 DEF Exit, vars, pool, threads
  <2>2. \A u \in created : Over(u) => Over(u)'
    BY <2>1 DEF Over
  <2>3. \A u \in created, f \in Fs : Waits(u, f) => Waits(u, f)'
    BY <2>1 DEF Waits, Ahead
  <2>4. (\A u \in created : Accounted(u))'
    BY <2>1, <2>2, <2>3, AccountedKept, PassedOverKept DEF WalkInv
  <2>5. QED BY <2>1, <2>4 DEF WalkInv, Unborn
<1>5. ASSUME NEW t \in Ts, NEW w \in Workers, WorkerRuns(t, w) PROVE FALSE
  BY <1>5 DEF WorkerRuns, WorkerDone, TT!WorkerDone, Calm, Quiescent
<1>6. CASE RfitHandles \/ RfitHandled \/ RfitExits \/ Begin
  BY <1>1, <1>6 DEF RfitHandles, RfitHandled, RfitExits, Begin, vars, pool, threads,
                    Calm, WalkType
<1>7. CASE MainStep
  BY <1>7, WalkStep
<1>8. CASE UNCHANGED allVars
  BY <1>1, <1>8 DEF allVars, main, vars, pool, threads
<1>9. QED BY <1>2, <1>3, <1>4, <1>5, <1>6, <1>7, <1>8 DEF ShutdownNext

\* When a shutdown that found no request in flight has ended, every T ever
\* created has been joined and has no worker left, unless it is in the list of a
\* function that is not in the list of its resource, where one of the same name
\* is (TaskPool.cpp, shutdown; task.cpp, shutdown; workerPool.cpp, shutdown).
THEOREM ShutdownJoinsEveryT ==
  ASSUME Quiet
  PROVE  ShutdownSpec => []EveryTJoined
<1> DEFINE SInv == Serving /\ Waiting /\ ReachInv
           CInv == Calm /\ WalkInv
<1>1. ShutdownInit => SInv
  BY InitServing, InitReach DEF ShutdownInit
<1>2. SInv /\ Serves /\ [ShutdownNext]_allVars => SInv'
  BY ServeKept, WaitingKept, NextReach DEF Serving, Serves
<1>3. (SInv \/ CInv) /\ [ShutdownNext]_allVars => (SInv \/ CInv)'
  BY <1>2, ServeStep, JoinCalm, JoinWalk, CalmKept, WalkKept
<1>4. SInv => EveryTJoined
  BY DEF Serving, EveryTJoined
<1>5. CInv => EveryTJoined
  <2>1. SUFFICES ASSUME Calm, WalkInv, spc = "done", NEW t \in created
                 PROVE  \/ t \in exited /\ idle[t] = {} /\ busy[t] = {}
                        \/ \E f \in Owners(t) : Displaced(f)
    BY DEF EveryTJoined
  <2>2. \A f \in Fs : ~Ahead(f)
    BY <2>1 DEF WalkInv, Ahead, Range
  <2>3. \A f \in Fs : PassedOver(f) => Displaced(f)
    BY <2>2 DEF PassedOver, Displaced, SameKey
  <2>4. QED BY <2>1, <2>2, <2>3 DEF WalkInv, Accounted, Waits, Over, Owners
<1>6. QED BY <1>1, <1>3, <1>4, <1>5, PTL DEF ShutdownSpec

\* As long as the system serves, every T is in hand or in the list of a function
\* that stealing, getRFT and shutdown reach, or whose entry a function of the
\* same name has taken, whenever the signal comes (lru.h, access; TaskPool.cpp,
\* dispatch).
THEOREM ServingReachesEveryT == ShutdownSpec => []ServingTsReachable
<1> DEFINE SInv == spc = "serve" => Serving /\ ReachInv
<1>1. ShutdownInit => SInv
  BY InitServing, InitReach DEF ShutdownInit
<1>2. SInv /\ [ShutdownNext]_allVars => SInv'
  <2>1. SUFFICES ASSUME SInv, [ShutdownNext]_allVars, spc' = "serve"
                 PROVE  Serving' /\ ReachInv'
    OBVIOUS
  <2>2. spc = "serve"
    BY <2>1 DEF ShutdownNext, Dispatch, TRuns, Exit, WorkerRuns, RfitHandles, RfitHandled,
                RfitExits, Begin, MainStep, JoinRfit, LockList, TellT, ShutdownPool, JoinT,
                UnlockList, FlushList, NextR, main, allVars
  <2>3. Serves
    BY <2>1, <2>2, ServeStep DEF JoinRfit
  <2>4. QED BY <2>1, <2>2, <2>3, ServeKept, NextReach DEF Serving, Serves
<1>3. SInv => ServingTsReachable
  BY DEF ServingTsReachable, ReachInv, Listed, EveryTReachable, Owners
<1>4. QED BY <1>1, <1>2, <1>3, PTL DEF ShutdownSpec
=============================================================================
