------------------------------ MODULE TaskPool ------------------------------
(***************************************************************************)
(* The dispatcher (src/RFIT/TaskPool/TaskPool.cpp): each request is        *)
(* dispatched by a reactor thread of the endpoint, several at a time.  A   *)
(* dispatch touches the two LRU lists (include/utils/lru.h), takes the     *)
(* pool's mutex and looks for a task thread T: one of its own function's   *)
(* list, an idle one of another function of the same resource R, an idle   *)
(* one of any other R, a new one.  It releases the mutex before it pushes  *)
(* the request on T's IQueue.                                              *)
(*                                                                         *)
(* The pool's mutex serialises the dispatches from getT to newT and        *)
(* nothing else: the LRU lists and each TSortList have mutexes of their    *)
(* own, so a snapshot of a list may be old when it is scanned, and a T     *)
(* thread may return a request between any two steps of the scan.          *)
(*                                                                         *)
(* The T threads and workers are TThread's, with the lists of the          *)
(* functions in place of its home and load; TaskPool implements TThread.   *)
(***************************************************************************)
EXTENDS TSortList, Integers

CONSTANTS Fs, Rs, Reqs, Workers, Conc, ResOf, Wasm, NoF, NoR, NoReq,
          NameOf     \* function |-> funcName, which users may share

ASSUME TaskPoolAssumption ==
  /\ Conc \in [Fs -> Nat \ {0}]
  /\ ResOf \in [Fs -> Rs]
  /\ Wasm \subseteq Fs
  /\ IsFiniteSet(Reqs)
  /\ NoF \notin Fs /\ NoR \notin Rs
  /\ NoT \notin Ts /\ NoReq \notin Reqs

VARIABLES
  rList,     \* TaskPool::R_list, least recently used first
  fList,     \* R |-> its F_list, least recently used first
  tlist,     \* F |-> its TList
  holder,    \* the request whose dispatcher holds the pool's mutex
  dpc,       \* request |-> where its dispatch is
  want,      \* request |-> its function, while it is dispatched
  scanF,     \* the rest of the functions that the holder still probes
  scanR,     \* the rest of the resources that the holder still visits
  hand,      \* the T that the holder has found or created
  created    \* the Ts that exist

VARIABLES iq, pc, pending, cur, workFor, curRes, icount, size, idle, busy, wq,
          doneQ, entries, reqF, on, stage, sent, aborted   \* as in TThread

pool    == <<rList, fList, tlist, holder, dpc, want, scanF, scanR, hand, created>>
threads == <<iq, pc, pending, cur, workFor, curRes, icount, size, idle, busy, wq,
             doneQ, entries>>
reqs    == <<reqF, on, stage, sent>>
vars    == <<pool, threads, reqs, aborted>>

Owners(t) == {f \in Fs : t \in Members(tlist[f])}

\* The key of a function in the list of its resource is its name, without the
\* user: the functions that share the entry of f if they share its resource.
SameKey(f) == {g \in Fs : NameOf[g] = NameOf[f]}

\* The function and load of a T, as TThread has them.
HomeOf(t) == IF Owners(t) = {} THEN NoF ELSE CHOOSE f \in Fs : f \in Owners(t)
LoadOf(t) == IF Owners(t) = {} THEN 0 ELSE LoadIn(tlist[HomeOf(t)], t)

TT == INSTANCE TThread WITH home <- [t \in Ts |-> HomeOf(t)],
                            load <- [t \in Ts |-> LoadOf(t)]

Init ==
  /\ rList = << >>
  /\ fList = [r \in Rs |-> << >>]
  /\ tlist = [f \in Fs |-> EmptyList]
  /\ holder = NoReq
  /\ dpc = [i \in Reqs |-> "none"]
  /\ want = [i \in Reqs |-> NoF]
  /\ scanF = << >>
  /\ scanR = << >>
  /\ hand = NoT
  /\ created = {}
  /\ iq = [t \in Ts |-> << >>]
  /\ pc = [t \in Ts |-> "poll"]
  /\ pending = [t \in Ts |-> {}]
  /\ cur = [t \in Ts |-> NoReq]
  /\ workFor = [t \in Ts |-> NoF]
  /\ curRes = [t \in Ts |-> NoR]
  /\ icount = [t \in Ts |-> 0]
  /\ size = [t \in Ts |-> 0]
  /\ idle = [t \in Ts |-> {}]
  /\ busy = [t \in Ts |-> {}]
  /\ wq = [t \in Ts |-> [w \in Workers |-> << >>]]
  /\ doneQ = [t \in Ts |-> << >>]
  /\ entries = [t \in Ts |-> {}]
  /\ reqF = [i \in Reqs |-> NoF]
  /\ on = [i \in Reqs |-> NoT]
  /\ stage = [i \in Reqs |-> "free"]
  /\ sent = [i \in Reqs |-> 0]
  /\ aborted = "no"

-----------------------------------------------------------------------------
(* The dispatch of request i, of function want[i].                         *)

\* l without its entry of one of keys, if it has one: it never has two.
Without(l, keys) ==
  LET at == {k \in DOMAIN l : l[k] \in keys}
  IN  IF at = {} THEN l ELSE RemoveAt(l, CHOOSE k \in at : TRUE)

\* Mutant: the list keeps the last entry only.
AccessEvicts(l, x, sameKey) == <<x>>

\* LRU::access: the entry of this key, if any, leaves; the item goes last.
Access(l, x, sameKey) == Append(Without(l, sameKey), x)

\* The dispatch starts: R_list.access.
AccessR(i, f) ==
  /\ TT!Running
  /\ dpc[i] = "none" /\ stage[i] = "free"
  /\ want' = [want EXCEPT ![i] = f]
  /\ rList' = Access(rList, ResOf[f], {ResOf[f]})
  /\ dpc' = [dpc EXCEPT ![i] = "accessF"]
  /\ UNCHANGED <<fList, tlist, holder, scanF, scanR, hand, created,
                 threads, reqs, aborted>>

\* r->getFList().access.
AccessF(i) ==
  /\ TT!Running
  /\ dpc[i] = "accessF"
  /\ LET f == want[i]
     IN  fList' = [fList EXCEPT ![ResOf[f]] = Access(@, f, SameKey(f))]
  /\ dpc' = [dpc EXCEPT ![i] = "lock"]
  /\ UNCHANGED <<rList, tlist, holder, want, scanF, scanR, hand, created,
                 threads, reqs, aborted>>

\* The pool's mutex is taken and f->getT tried.  With a T the dispatch leaves
\* the mutex, without one it keeps it and looks elsewhere.
GetT(i) ==
  /\ TT!Running
  /\ dpc[i] = "lock" /\ holder = NoReq
  /\ LET f == want[i]
     IN  \/ /\ CanTakeOne(tlist[f])
            /\ TT!Assign(i, f, tlist[f].nextT)
            /\ tlist' = [tlist EXCEPT ![f] = AfterTakeOne(@, Conc[f])]
            /\ dpc' = [dpc EXCEPT ![i] = "push"]
            /\ UNCHANGED holder
         \/ /\ ~CanTakeOne(tlist[f])
            /\ holder' = i
            /\ dpc' = [dpc EXCEPT ![i] = "sameR"]
            /\ UNCHANGED <<tlist, reqs>>
  /\ UNCHANGED <<rList, fList, want, scanF, scanR, hand, created, threads, aborted>>

\* getTFromOtherFInSameR copies the list of its R.
SnapshotSameR(i) ==
  /\ TT!Running
  /\ dpc[i] = "sameR"
  /\ scanF' = Without(fList[ResOf[want[i]]], {want[i]})
  /\ dpc' = [dpc EXCEPT ![i] = "probeSame"]
  /\ UNCHANGED <<rList, fList, tlist, holder, want, scanR, hand, created,
                 threads, reqs, aborted>>

\* One round of the loops over functions: f->getIdleT.
Probe(i) ==
  /\ TT!Running
  /\ dpc[i] \in {"probeSame", "probeOther"} /\ scanF # << >>
  /\ LET f == Head(scanF)
     IN  \/ /\ CanTakeIdle(tlist[f])
            /\ hand' = IdleOne(tlist[f])
            /\ tlist' = [tlist EXCEPT ![f] = AfterTakeIdle(@)]
            /\ dpc' = [dpc EXCEPT ![i] = "newT"]
            /\ scanF' = << >> /\ scanR' = << >>
         \/ /\ ~CanTakeIdle(tlist[f])
            /\ scanF' = Tail(scanF)
            /\ UNCHANGED <<tlist, dpc, hand, scanR>>
  /\ UNCHANGED <<rList, fList, holder, want, created, threads, reqs, aborted>>

\* Mutant: the other resources are not looked at.
SnapshotNoRs(i) ==
  /\ TT!Running
  /\ dpc[i] = "probeSame" /\ scanF = << >>
  /\ scanR' = << >>
  /\ dpc' = [dpc EXCEPT ![i] = "probeOther"]
  /\ UNCHANGED <<rList, fList, tlist, holder, want, scanF, hand, created,
                 threads, reqs, aborted>>

\* getTFromOtherR copies the list of resources.
SnapshotRs(i) ==
  /\ TT!Running
  /\ dpc[i] = "probeSame" /\ scanF = << >>
  /\ scanR' = Without(rList, {ResOf[want[i]]})
  /\ dpc' = [dpc EXCEPT ![i] = "probeOther"]
  /\ UNCHANGED <<rList, fList, tlist, holder, want, scanF, hand, created,
                 threads, reqs, aborted>>

\* One round of the loop over resources: the list of the next one is copied.
SnapshotOtherR(i) ==
  /\ TT!Running
  /\ dpc[i] = "probeOther" /\ scanF = << >> /\ scanR # << >>
  /\ scanF' = fList[Head(scanR)]
  /\ scanR' = Tail(scanR)
  /\ UNCHANGED <<rList, fList, tlist, holder, dpc, want, hand, created,
                 threads, reqs, aborted>>

\* newT: no idle T was found.
CreateT(i) ==
  /\ TT!Running
  /\ dpc[i] = "probeOther" /\ scanF = << >> /\ scanR = << >>
  /\ \E t \in Ts \ created : hand' = t /\ created' = created \cup {t}
  /\ dpc' = [dpc EXCEPT ![i] = "newT"]
  /\ UNCHANGED <<rList, fList, tlist, holder, want, scanF, scanR,
                 threads, reqs, aborted>>

\* f->newT(t), and the mutex is released.
NewTForF(i) ==
  /\ TT!Running
  /\ dpc[i] = "newT"
  /\ LET f == want[i]
     IN  /\ tlist' = [tlist EXCEPT ![f] = AfterNewOne(@, Conc[f], hand, TRUE)]
         /\ TT!Assign(i, f, hand)
  /\ hand' = NoT
  /\ holder' = NoReq
  /\ dpc' = [dpc EXCEPT ![i] = "push"]
  /\ UNCHANGED <<rList, fList, want, scanF, scanR, created, threads, aborted>>

\* t->IQueue.push.
Push(i) ==
  /\ dpc[i] = "push"
  /\ UNCHANGED <<rList, fList, tlist, holder, scanF, scanR, hand, created>>
  /\ TT!Push(i)
  /\ dpc' = [dpc EXCEPT ![i] = "none"]
  /\ want' = [want EXCEPT ![i] = NoF]

-----------------------------------------------------------------------------
(* The T threads, which touch the lists only to return a request.          *)

\* doChangeICount: ICount--, workFor->TList.returnOne.
ReturnOne(t) ==
  /\ TT!Running
  /\ pc[t] \in {"iqret", "dqret"}
  /\ UNCHANGED <<rList, fList, holder, dpc, want, scanF, scanR, hand, created>>
  /\ LET f == workFor[t]
     IN  \/ /\ t \in Members(tlist[f]) /\ LoadIn(tlist[f], t) > 0
            /\ tlist' = [tlist EXCEPT ![f] = AfterReturnOne(@, Conc[f], t)]
            /\ TT!LeaveT(t)
         \/ /\ ~(t \in Members(tlist[f]) /\ LoadIn(tlist[f], t) > 0)
            /\ aborted' = "return"
            /\ UNCHANGED <<tlist, threads, reqs>>

TStep(t) ==
  \/ UNCHANGED pool /\ TT!Poll(t)
  \/ UNCHANGED pool /\ TT!EndHandler(t)
  \/ UNCHANGED pool /\ TT!PopEntry(t)
  \/ UNCHANGED pool /\ TT!FinishNative(t)
  \/ UNCHANGED pool /\ TT!PopDone(t)
  \/ ReturnOne(t)

WorkerDone(t, w) == UNCHANGED pool /\ TT!WorkerDone(t, w)

\* The steps of a dispatch that holds the pool's mutex.
Holding(i) == SnapshotSameR(i) \/ Probe(i) \/ SnapshotRs(i) \/ SnapshotOtherR(i)
              \/ CreateT(i) \/ NewTForF(i)

Next ==
  \/ \E i \in Reqs, f \in Fs : AccessR(i, f)
  \/ \E i \in Reqs : AccessF(i)
  \/ \E i \in Reqs : GetT(i)
  \/ \E i \in Reqs : Holding(i)
  \/ \E i \in Reqs : Push(i)
  \/ \E t \in Ts : TStep(t)
  \/ \E t \in Ts, w \in Workers : WorkerDone(t, w)

Spec == Init /\ [][Next]_vars

-----------------------------------------------------------------------------
TypeOK ==
  /\ rList \in Seq(Rs) /\ fList \in [Rs -> Seq(Fs)]
  /\ \A f \in Fs : /\ tlist[f].items \in Seq([n : 0..Conc[f], t : Ts])
                   /\ tlist[f].nextT \in Ts \cup {NoT}
  /\ holder \in Reqs \cup {NoReq}
  /\ dpc \in [Reqs -> {"none", "accessF", "lock", "sameR", "probeSame",
                       "probeOther", "newT", "push"}]
  /\ want \in [Reqs -> Fs \cup {NoF}]
  /\ scanF \in Seq(Fs) /\ scanR \in Seq(Rs)
  /\ hand \in Ts \cup {NoT} /\ created \subseteq Ts

\* A T is in one list at most, and in the hand of a dispatcher only while it is
\* in none: two dispatchers never get the same idle T.
OneListPerT ==
  \A t \in Ts : /\ Cardinality(Owners(t)) <= 1
                /\ t = hand => Owners(t) = {}

\* A T is created only when it is needed: although the scan is a sequence of
\* separate steps over copies of lists, there are never more Ts than requests
\* in flight at once, as long as no two functions of a resource share a name.
TsBounded == Cardinality(created) <= Cardinality(Reqs)

\* Stealing, getRFT and shutdown find Ts through R_list and the F_lists.  They
\* lead to every T but those whose function has lost its entry to a function of
\* the same resource and name.
EveryTReachable ==
  \A t \in created :
    \/ t = hand
    \/ \E f \in Owners(t) : /\ ResOf[f] \in Range(rList)
                            /\ Range(fList[ResOf[f]]) \cap SameKey(f) # {}

\* The dispatcher implements the environment that TThread assumes.
ThreadSpec == TT!Spec
=============================================================================
