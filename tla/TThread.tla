------------------------------ MODULE TThread ------------------------------
(***************************************************************************)
(* The task threads T of RFIT and their worker pools (src/RFIT/T/task.cpp, *)
(* src/RFIT/T/workerPool.cpp, include/RFIT/core.h).                        *)
(*                                                                         *)
(* A dispatcher gives a request to a T of the request's function and       *)
(* pushes it on that T's IQueue.  The T thread pops it, switches to the    *)
(* function if it served another one before (adjustResource), and runs it: *)
(* a native function in its own thread, a wasm function on a worker of its *)
(* pool, whose result comes back through doneQ.  A T without requests may  *)
(* be taken from its function and given to another.                        *)
(*                                                                         *)
(* Here the dispatcher is an environment that takes any T a function's     *)
(* list could give it; TaskPool.tla is the dispatcher itself, with the     *)
(* lists, and implements this module.                                      *)
(*                                                                         *)
(* PollableQueue, Epoll and ResponseWriter are Pistache's.  A queue here   *)
(* is a sequence whose file descriptor is ready while it is not empty; a   *)
(* user function is assumed to return.  A failed assertion, or the         *)
(* exception of checkI that nobody catches, ends the process: aborted      *)
(* tells which one.                                                        *)
(***************************************************************************)
EXTENDS Integers, Sequences, FiniteSets

CONSTANTS Ts,        \* task threads
          Fs,        \* registered functions
          Rs,        \* resource configurations, by hash
          Reqs,      \* requests in flight at once; reused when finished
          Workers,   \* worker threads of one T's pool
          Conc,      \* function |-> concurrency
          ResOf,     \* function |-> resource configuration
          Wasm,      \* the functions that are wasm modules
          NoF, NoR, NoT, NoReq

ASSUME TThreadAssumption ==
  /\ Conc \in [Fs -> Nat \ {0}]     \* requestToMsg clamps it to at least 1
  /\ ResOf \in [Fs -> Rs]
  /\ Wasm \subseteq Fs
  /\ IsFiniteSet(Reqs)
  /\ NoF \notin Fs /\ NoR \notin Rs
  /\ NoT \notin Ts /\ NoReq \notin Reqs

VARIABLES
  home,      \* T |-> the function whose TList holds it
  load,      \* T |-> its count in that TList
  iq,        \* T |-> its IQueue
  pc,        \* T |-> where its thread is
  pending,   \* T |-> queues the last poll reported and run has still to handle
  cur,       \* T |-> the request it executes or has just answered
  workFor,   \* T |-> T::workFor
  curRes,    \* T |-> T::currentResource
  icount,    \* T |-> T::ICount
  size,      \* T |-> WorkerPool::size
  idle,      \* T |-> WorkerPool::idleWorkers
  busy,      \* T |-> WorkerPool::busyWorkers
  wq,        \* T |-> worker |-> the worker's IQueue
  doneQ,     \* T |-> invokeDoneMsgQueue, the ids of finished requests
  entries,   \* T |-> the ids in invokeEntryMap
  reqF,      \* request |-> its function
  on,        \* request |-> the T the dispatcher chose
  stage,     \* request |-> how far it got
  sent,      \* request |-> responses sent for it
  aborted    \* why the process ended, or "no"

queues == <<iq, pc, pending, cur>>
thread == <<workFor, curRes, icount>>
pool   == <<size, idle, busy, wq>>
done   == <<doneQ, entries>>
lists  == <<home, load>>
reqs   == <<reqF, on, stage, sent>>
vars   == <<queues, thread, pool, done, lists, reqs, aborted>>

(* "taken": by a dispatcher, with a place on the T; "queued": in its       *)
(* IQueue; "exec": the T thread runs it; "running": a worker has it;       *)
(* "done": its result is in doneQ; "answered": the response is out, ICount *)
(* and the list do not know yet.                                           *)
Stages == {"free", "taken", "queued", "exec", "running", "done", "answered"}
Popped == {"exec", "running", "done", "answered"}
PCs    == {"poll", "iq", "dq", "exec", "iqret", "dqret"}
Aborts == {"no", "checkI", "resize_busy", "resize_idle", "invoke",
           "done_unknown", "return"}

Init ==
  /\ home = [t \in Ts |-> NoF]
  /\ load = [t \in Ts |-> 0]
  /\ iq = [t \in Ts |-> << >>]
  /\ pc = [t \in Ts |-> "poll"]
  /\ pending = [t \in Ts |-> {}]
  /\ cur = [t \in Ts |-> NoReq]
  /\ workFor = [t \in Ts |-> NoF]
  /\ curRes = [t \in Ts |-> NoR]
  /\ icount = [t \in Ts |-> 0]
  /\ size = [t \in Ts |-> 0]
  /\ idle = [t \in Ts |-> {}]
  /\ busy = [t \in Ts |-> {}]
  /\ wq = [t \in Ts |-> [w \in Workers |-> << >>]]
  /\ doneQ = [t \in Ts |-> << >>]
  /\ entries = [t \in Ts |-> {}]
  /\ reqF = [i \in Reqs |-> NoF]
  /\ on = [i \in Reqs |-> NoT]
  /\ stage = [i \in Reqs |-> "free"]
  /\ sent = [i \in Reqs |-> 0]
  /\ aborted = "no"

\* Nothing happens once an assertion has failed.
Running == aborted = "no"

Abort(why) == /\ aborted' = why
              /\ UNCHANGED <<queues, thread, pool, done, lists, reqs>>

-----------------------------------------------------------------------------
(* The dispatcher.                                                         *)

\* Mutant: a full T is offered once more.
HasRoomWhenFull(f, t) == home[t] = f /\ load[t] <= Conc[f]

\* The places a function's list may offer on t (TSortList::takeOne).
HasRoom(f, t) == home[t] = f /\ load[t] < Conc[f]

\* Mutant: the load of the list is not looked at.
StealableBusy(t) == home[t] # NoF

\* Mutant: T is judged by its own queue and counter, not by the list's load.
StealableByICount(t) == home[t] # NoF /\ iq[t] = << >> /\ icount[t] = 0

\* A T may leave its function's list (TSortList::takeIdleOne).
Stealable(t) == home[t] # NoF /\ load[t] = 0

Assign(i, f, t) ==
  /\ stage[i] = "free"
  /\ stage' = [stage EXCEPT ![i] = "taken"]
  /\ reqF' = [reqF EXCEPT ![i] = f]
  /\ on' = [on EXCEPT ![i] = t]
  /\ UNCHANGED sent

\* f->getT: request i of function f gets a place on t.
TakeOne(i, f, t) ==
  /\ Running
  /\ HasRoom(f, t)
  /\ Assign(i, f, t)
  /\ load' = [load EXCEPT ![t] = @ + 1]
  /\ UNCHANGED <<home, queues, thread, pool, done, aborted>>

\* f->getIdleT: t leaves its function; the dispatcher has it in hand.
TakeIdle(t) ==
  /\ Running
  /\ Stealable(t)
  /\ home' = [home EXCEPT ![t] = NoF]
  /\ UNCHANGED <<load, queues, thread, pool, done, reqs, aborted>>

\* f->newT: a T in hand, new or taken from another function, joins f with the
\* request it was looked for.
NewOne(i, f, t) ==
  /\ Running
  /\ home[t] = NoF
  /\ Assign(i, f, t)
  /\ home' = [home EXCEPT ![t] = f]
  /\ load' = [load EXCEPT ![t] = 1]
  /\ UNCHANGED <<queues, thread, pool, done, aborted>>

\* t->IQueue.push, after the dispatcher has left the pool's mutex.
Push(i) ==
  /\ Running
  /\ stage[i] = "taken"
  /\ stage' = [stage EXCEPT ![i] = "queued"]
  /\ iq' = [iq EXCEPT ![on[i]] = Append(@, i)]
  /\ UNCHANGED <<pc, pending, cur, thread, pool, done, lists, reqF, on, sent,
                 aborted>>

-----------------------------------------------------------------------------
(* The T thread: T::run, handleFds.                                        *)

\* Mutant: invokeDoneMsgQueue is not bound to the poller.
ReadyWithoutDone(t) == {q \in {"iq"} : iq[t] # << >>}

Ready(t) == {q \in {"iq", "dq"} : IF q = "iq" THEN iq[t] # << >>
                                            ELSE doneQ[t] # << >>}

\* poll returns every queue that is ready; handleFds takes one of them first.
Poll(t) ==
  /\ Running
  /\ pc[t] = "poll"
  /\ \E q \in Ready(t) : /\ pc' = [pc EXCEPT ![t] = q]
                         /\ pending' = [pending EXCEPT ![t] = Ready(t) \ {q}]
  /\ UNCHANGED <<iq, cur, thread, pool, done, lists, reqs, aborted>>

\* The queue being handled is empty: on to the next event, or back to poll.
EndHandler(t) ==
  /\ Running
  /\ \/ pc[t] = "iq" /\ iq[t] = << >>
     \/ pc[t] = "dq" /\ doneQ[t] = << >>
  /\ \/ /\ pending[t] = {}
        /\ pc' = [pc EXCEPT ![t] = "poll"]
        /\ UNCHANGED pending
     \/ \E q \in pending[t] : /\ pc' = [pc EXCEPT ![t] = q]
                              /\ pending' = [pending EXCEPT ![t] = @ \ {q}]
  /\ UNCHANGED <<iq, cur, thread, pool, done, lists, reqs, aborted>>

-----------------------------------------------------------------------------
(* handleIQueue, adjustResource, checkI, doExecute, doExecuteWasm.         *)

\* checkI: T may take an instance of f.
Accepts(t, f) == workFor[t] = f \/ workFor[t] = NoF \/ icount[t] = 0

\* Mutant: only the first instance of all configures T.
AdjustsOnce(t, f) == workFor[t] # f /\ curRes[t] = NoR

\* adjustResource: the configuration has to be changed for an instance of f.
Adjusts(t, f) == workFor[t] # f /\ curRes[t] # ResOf[f]

NewSize(t, f) == IF Adjusts(t, f) THEN Conc[f] ELSE size[t]
LowerOf(a, b) == IF a <= b THEN a ELSE b

\* resize shuts idle workers down when the pool shrinks.  The workers it may
\* leave: idle workers are alike, so any set of the right size.
Kept(t, f) ==
  IF ~Adjusts(t, f) THEN {idle[t]}
  ELSE {S \in SUBSET idle[t] :
          Cardinality(S) = LowerOf(Cardinality(idle[t]), NewSize(t, f))}

\* Mutant: a new worker for each instance, though others are idle.
CandidatesAlwaysNew(t, S, n) == Workers \ (S \cup busy[t])

\* Mutant: the worker found may be one that has an instance.
CandidatesAny(t, S, n) == Workers

\* WorkerPool::invoke with idle workers S and size n: a worker is created only
\* when none is idle and the size allows one more.
Candidates(t, S, n) ==
  IF S # {} THEN S
  ELSE IF Cardinality(busy[t]) < n THEN Workers \ busy[t] ELSE {}

\* The assertions, and the exception of checkI, that handling f meets.
Fault(t, f) ==
  CASE ~Accepts(t, f) -> "checkI"
    [] Adjusts(t, f) /\ busy[t] # {} -> "resize_busy"
    [] Adjusts(t, f) /\ Cardinality(idle[t]) # size[t] -> "resize_idle"
    [] f \in Wasm /\ {} \in Kept(t, f) /\ Cardinality(busy[t]) >= NewSize(t, f)
         -> "invoke"
    [] OTHER -> "no"

\* Mutant: ICount is not incremented for the instance.
SwitchUncounted(t, f) ==
  /\ workFor' = [workFor EXCEPT ![t] = f]
  /\ curRes' = [curRes EXCEPT ![t] = IF Adjusts(t, f) THEN ResOf[f] ELSE @]
  /\ size' = [size EXCEPT ![t] = NewSize(t, f)]
  /\ icount' = icount
  /\ iq' = [iq EXCEPT ![t] = Tail(@)]

\* What popping an instance of f changes before it is executed.
Switch(t, f) ==
  /\ workFor' = [workFor EXCEPT ![t] = f]
  /\ curRes' = [curRes EXCEPT ![t] = IF Adjusts(t, f) THEN ResOf[f] ELSE @]
  /\ size' = [size EXCEPT ![t] = NewSize(t, f)]
  /\ icount' = [icount EXCEPT ![t] = @ + 1]
  /\ iq' = [iq EXCEPT ![t] = Tail(@)]

\* doExecute begins: the T thread calls the native function itself.
StartNative(t, i) ==
  /\ reqF[i] \notin Wasm
  /\ \E S \in Kept(t, reqF[i]) : idle' = [idle EXCEPT ![t] = S]
  /\ pc' = [pc EXCEPT ![t] = "exec"]
  /\ cur' = [cur EXCEPT ![t] = i]
  /\ stage' = [stage EXCEPT ![i] = "exec"]
  /\ UNCHANGED <<busy, wq, entries>>

\* Mutant: the entry is not put into invokeEntryMap.
StartWasmForgets(t, i) ==
  /\ reqF[i] \in Wasm
  /\ \E S \in Kept(t, reqF[i]) : \E w \in Candidates(t, S, NewSize(t, reqF[i])) :
       /\ idle' = [idle EXCEPT ![t] = S \ {w}]
       /\ busy' = [busy EXCEPT ![t] = @ \cup {w}]
       /\ wq' = [wq EXCEPT ![t][w] = Append(@, i)]
  /\ stage' = [stage EXCEPT ![i] = "running"]
  /\ UNCHANGED <<pc, cur, entries>>

\* doExecuteWasm: the entry is remembered and a worker gets the instance.
StartWasm(t, i) ==
  /\ reqF[i] \in Wasm
  /\ entries' = [entries EXCEPT ![t] = @ \cup {i}]
  /\ \E S \in Kept(t, reqF[i]) : \E w \in Candidates(t, S, NewSize(t, reqF[i])) :
       /\ idle' = [idle EXCEPT ![t] = S \ {w}]
       /\ busy' = [busy EXCEPT ![t] = @ \cup {w}]
       /\ wq' = [wq EXCEPT ![t][w] = Append(@, i)]
  /\ stage' = [stage EXCEPT ![i] = "running"]
  /\ UNCHANGED <<pc, cur>>

\* One round of the loop of handleIQueue.
PopEntry(t) ==
  /\ Running
  /\ pc[t] = "iq" /\ iq[t] # << >>
  /\ LET i == Head(iq[t])
         f == reqF[i]
     IN  \/ Fault(t, f) # "no" /\ Abort(Fault(t, f))
         \/ /\ Fault(t, f) = "no"
            /\ Switch(t, f)
            /\ StartNative(t, i) \/ StartWasm(t, i)
            /\ UNCHANGED <<pending, doneQ, lists, reqF, on, sent, aborted>>

\* Mutant: an outcome without a response.
RespondSilently(i) == /\ stage' = [stage EXCEPT ![i] = "answered"]
                      /\ UNCHANGED sent

\* The response goes out and the promise is settled, whatever the outcome.
Respond(i) == /\ stage' = [stage EXCEPT ![i] = "answered"]
              /\ sent' = [sent EXCEPT ![i] = @ + 1]

\* Mutant: doChangeICount is not called.
FinishNativeKeepsICount(t) ==
  /\ Running
  /\ pc[t] = "exec"
  /\ Respond(cur[t])
  /\ pc' = [pc EXCEPT ![t] = "iq"]
  /\ UNCHANGED <<iq, pending, cur, thread, pool, done, lists, reqF, on, aborted>>

\* doExecute: the native function has returned, or thrown.
FinishNative(t) ==
  /\ Running
  /\ pc[t] = "exec"
  /\ Respond(cur[t])
  /\ pc' = [pc EXCEPT ![t] = "iqret"]
  /\ UNCHANGED <<iq, pending, cur, thread, pool, done, lists, reqF, on, aborted>>

-----------------------------------------------------------------------------
(* The workers and their results.                                          *)

\* Mutant: the worker is not erased from busyWorkers.
WorkerDoneStaysBusy(t, w) ==
  /\ Running
  /\ wq[t][w] # << >>
  /\ LET i == Head(wq[t][w])
     IN  /\ doneQ' = [doneQ EXCEPT ![t] = Append(@, i)]
         /\ stage' = [stage EXCEPT ![i] = "done"]
  /\ wq' = [wq EXCEPT ![t][w] = Tail(@)]
  /\ idle' = [idle EXCEPT ![t] = @ \cup {w}]
  /\ UNCHANGED <<queues, thread, size, busy, entries, lists, reqF, on, sent, aborted>>

\* Mutant: the worker does not come back to idleWorkers.
WorkerDoneLost(t, w) ==
  /\ Running
  /\ wq[t][w] # << >>
  /\ LET i == Head(wq[t][w])
     IN  /\ doneQ' = [doneQ EXCEPT ![t] = Append(@, i)]
         /\ stage' = [stage EXCEPT ![i] = "done"]
  /\ wq' = [wq EXCEPT ![t][w] = Tail(@)]
  /\ busy' = [busy EXCEPT ![t] = @ \ {w}]
  /\ UNCHANGED <<queues, thread, size, idle, entries, lists, reqF, on, sent, aborted>>

\* Worker::handleIQueue and WorkerPool::invokeDone: the instance has run, with
\* success, failure or an exception; the worker is idle again and the result
\* is in doneQ, under one lock.
WorkerDone(t, w) ==
  /\ Running
  /\ wq[t][w] # << >>
  /\ LET i == Head(wq[t][w])
     IN  /\ doneQ' = [doneQ EXCEPT ![t] = Append(@, i)]
         /\ stage' = [stage EXCEPT ![i] = "done"]
  /\ wq' = [wq EXCEPT ![t][w] = Tail(@)]
  /\ busy' = [busy EXCEPT ![t] = @ \ {w}]
  /\ idle' = [idle EXCEPT ![t] = @ \cup {w}]
  /\ UNCHANGED <<queues, thread, size, entries, lists, reqF, on, sent, aborted>>

\* One round of the loop of handleInvokeDoneMsgQueue, up to the response.
PopDone(t) ==
  /\ Running
  /\ pc[t] = "dq" /\ doneQ[t] # << >>
  /\ LET i == Head(doneQ[t])
     IN  \/ i \notin entries[t] /\ Abort("done_unknown")
         \/ /\ i \in entries[t]
            /\ entries' = [entries EXCEPT ![t] = @ \ {i}]
            /\ doneQ' = [doneQ EXCEPT ![t] = Tail(@)]
            /\ Respond(i)
            /\ cur' = [cur EXCEPT ![t] = i]
            /\ pc' = [pc EXCEPT ![t] = "dqret"]
            /\ UNCHANGED <<iq, pending, thread, pool, lists, reqF, on, aborted>>

\* TSortList::returnOne finds t in the list of the function it works for, with
\* a request to return.
Returns(t) == home[t] = workFor[t] /\ load[t] > 0

\* doChangeICount, but for the list: ICount goes down, the request is over.
LeaveT(t) ==
  /\ icount' = [icount EXCEPT ![t] = @ - 1]
  /\ pc' = [pc EXCEPT ![t] = IF @ = "iqret" THEN "iq" ELSE "dq"]
  /\ stage' = [stage EXCEPT ![cur[t]] = "free"]
  /\ reqF' = [reqF EXCEPT ![cur[t]] = NoF]
  /\ on' = [on EXCEPT ![cur[t]] = NoT]
  /\ sent' = [sent EXCEPT ![cur[t]] = 0]
  /\ cur' = [cur EXCEPT ![t] = NoReq]
  /\ UNCHANGED <<iq, pending, workFor, curRes, pool, done, aborted>>

DoChangeICount(t) ==
  /\ Running
  /\ pc[t] \in {"iqret", "dqret"}
  /\ \/ /\ Returns(t)
        /\ LeaveT(t)
        /\ load' = [load EXCEPT ![t] = @ - 1]
        /\ UNCHANGED home
     \/ ~Returns(t) /\ Abort("return")

-----------------------------------------------------------------------------
TStep(t) == \/ Poll(t)
            \/ EndHandler(t)
            \/ PopEntry(t)
            \/ FinishNative(t)
            \/ PopDone(t)
            \/ DoChangeICount(t)

Next ==
  \/ \E i \in Reqs, f \in Fs, t \in Ts : TakeOne(i, f, t)
  \/ \E t \in Ts : TakeIdle(t)
  \/ \E i \in Reqs, f \in Fs, t \in Ts : NewOne(i, f, t)
  \/ \E i \in Reqs : Push(i)
  \/ \E t \in Ts : TStep(t)
  \/ \E t \in Ts, w \in Workers : WorkerDone(t, w)

Spec == Init /\ [][Next]_vars

\* Every thread keeps running: a dispatcher finishes its dispatch, a T thread
\* handles what its poll returns, a user function returns.
Fairness == /\ \A i \in Reqs : WF_vars(Push(i))
            /\ \A t \in Ts : WF_vars(TStep(t))
            /\ \A t \in Ts, w \in Workers : WF_vars(WorkerDone(t, w))

FairSpec == Spec /\ Fairness

-----------------------------------------------------------------------------
(* Properties.                                                             *)

TypeOK ==
  /\ home \in [Ts -> Fs \cup {NoF}]
  /\ load \in [Ts -> Nat]
  /\ iq \in [Ts -> Seq(Reqs)]
  /\ pc \in [Ts -> PCs]
  /\ pending \in [Ts -> SUBSET {"iq", "dq"}]
  /\ cur \in [Ts -> Reqs \cup {NoReq}]
  /\ workFor \in [Ts -> Fs \cup {NoF}]
  /\ curRes \in [Ts -> Rs \cup {NoR}]
  /\ icount \in [Ts -> Nat]      \* a uint64_t in the code: it may not wrap
  /\ size \in [Ts -> Nat]
  /\ idle \in [Ts -> SUBSET Workers]
  /\ busy \in [Ts -> SUBSET Workers]
  /\ wq \in [Ts -> [Workers -> Seq(Reqs)]]
  /\ doneQ \in [Ts -> Seq(Reqs)]
  /\ entries \in [Ts -> SUBSET Reqs]
  /\ reqF \in [Reqs -> Fs \cup {NoF}]
  /\ on \in [Reqs -> Ts \cup {NoT}]
  /\ stage \in [Reqs -> Stages]
  /\ sent \in [Reqs -> Nat]
  /\ aborted \in Aborts

OnT(t)      == {i \in Reqs : stage[i] # "free" /\ on[i] = t}
PoppedOn(t) == {i \in Reqs : stage[i] \in Popped /\ on[i] = t}

\* A T serves one function at a time (the comment in checkI): what it has
\* popped and not returned is all of workFor, and the exception of checkI,
\* which nothing catches, is never thrown.
OneTForOneF ==
  /\ aborted # "checkI"
  /\ \A t \in Ts : \A i \in PoppedOn(t) : reqF[i] = workFor[t]

\* resize's assert(busyWorkers.empty()): when a T changes resource, each of its
\* workers has come back, although nobody waits for them.
ResizeFindsNoBusyWorker == aborted # "resize_busy"

\* resize's assert(idleWorkers.size() == size).
ResizeFindsAllWorkersIdle == aborted # "resize_idle"

\* invoke's assert(!idleWorkers.empty()): there is a worker for each request
\* the list let through.
InvokeFindsWorker == aborted # "invoke"

\* handleInvokeDoneMsgQueue finds the entry of every result, returnOne finds
\* the T with load in the list it works for: the asserts on both lookups.
LookupsSucceed == aborted \notin {"done_unknown", "return"}

\* Each request is answered once: by the time it leaves the T one response has
\* been sent, and none before it was executed.
AnsweredOnce == \A i \in Reqs : sent[i] = IF stage[i] = "answered" THEN 1 ELSE 0

\* "A worker handles one I" (the comment on Worker::IQueue): a busy worker has
\* one instance to run, an idle one none, and none is both.
WorkerHandlesOneI ==
  \A t \in Ts :
    /\ idle[t] \cap busy[t] = {}
    /\ \A w \in Workers : Len(wq[t][w]) = IF w \in busy[t] THEN 1 ELSE 0

\* The two counters a T is judged by tell the truth, although neither is updated
\* with the queues: the load in the list counts all requests placed on T, from
\* the dispatcher's hand to doChangeICount, within the function's concurrency;
\* ICount those T has popped.
CountersAgree ==
  \A t \in Ts :
    /\ load[t] = Cardinality(OnT(t))
    /\ icount[t] = Cardinality(PoppedOn(t))
    /\ home[t] # NoF => load[t] <= Conc[home[t]]

\* User code runs under the cgroup configuration of its own function.
RunsUnderItsResource ==
  \A i \in Reqs : stage[i] \in {"exec", "running"} =>
                  curRes[on[i]] = ResOf[reqF[i]]

\* The pool never outgrows its size (toString reports BAD otherwise).
PoolWithinSize ==
  \A t \in Ts : Cardinality(idle[t]) + Cardinality(busy[t]) <= size[t]

\* A T that leaves its function has no request of it left anywhere, not even
\* one that a dispatcher has placed and not pushed yet.
StolenTIsUnused ==
  [][\A t \in Ts : home[t] # NoF /\ home'[t] # home[t] => OnT(t) = {}]_vars

\* The clients' view: TService, with the stages in between hidden.
Service == INSTANCE TService WITH
  fn <- reqF, place <- on,
  phase <- [i \in Reqs |-> CASE stage[i] = "free" -> "free"
                             [] stage[i] = "answered" -> "answered"
                             [] OTHER -> "waiting"]
ServiceSpec == Service!Spec

-----------------------------------------------------------------------------
(* The inductive invariant behind the safety properties: where a request   *)
(* is according to its stage is where the queues, workers and entries of   *)
(* its T have it, and its T belongs to, and works for, its function.       *)

\* A placed request is on a T of its function, and once popped on a T that
\* works for its function.
PlaceInv ==
  \A i \in Reqs :
    /\ stage[i] = "free" => on[i] = NoT /\ reqF[i] = NoF
    /\ stage[i] # "free" => /\ on[i] \in Ts /\ reqF[i] \in Fs
                            /\ home[on[i]] = reqF[i]
    /\ stage[i] \in Popped => workFor[on[i]] = reqF[i]

Distinct(q) == \A j, k \in 1..Len(q) : j # k => q[j] # q[k]

\* A queue of t holds requests of t, all at one stage, each once.
Holds(q, t, st) == /\ \A k \in 1..Len(q) : stage[q[k]] = st /\ on[q[k]] = t
                   /\ Distinct(q)

QueueInv ==
  \A t \in Ts : Holds(iq[t], t, "queued") /\ Holds(doneQ[t], t, "done")

\* The request a T thread has in hand is at the stage its pc says.
HandInv ==
  \A t \in Ts :
    pc[t] \in {"exec", "iqret", "dqret"} =>
      /\ cur[t] \in Reqs /\ on[cur[t]] = t
      /\ stage[cur[t]] = IF pc[t] = "exec" THEN "exec" ELSE "answered"

\* A busy worker has one request, running on its T; two have different ones.
WorkerInv ==
  \A t \in Ts :
    /\ idle[t] \cap busy[t] = {}
    /\ \A w \in Workers \ busy[t] : wq[t][w] = << >>
    /\ \A w \in busy[t] : /\ Len(wq[t][w]) = 1
                          /\ stage[wq[t][w][1]] = "running"
                          /\ on[wq[t][w][1]] = t
    /\ \A v, w \in busy[t] : v # w => wq[t][v][1] # wq[t][w][1]

EntryInv == \A i \in Reqs : stage[i] \in {"running", "done"} =>
                            i \in entries[on[i]]

\* A T that works for a function runs under the function's resource.
ResourceInv == \A t \in Ts : workFor[t] # NoF => curRes[t] = ResOf[workFor[t]]

NoAbort == aborted \notin {"checkI", "resize_busy", "done_unknown", "return"}

IInv == /\ TypeOK
        /\ PlaceInv
        /\ QueueInv
        /\ HandInv
        /\ WorkerInv
        /\ EntryInv
        /\ ResourceInv
        /\ CountersAgree
        /\ \A t \in Ts : home[t] = NoF => load[t] = 0
        /\ AnsweredOnce
        /\ NoAbort

-----------------------------------------------------------------------------
\* A request that has been placed on a T is answered.
EveryRequestAnswered ==
  \A i \in Reqs : stage[i] = "taken" ~> stage[i] = "answered"

\* A T does not stay occupied by an answered request: its load comes back.
EveryPlaceReturned ==
  \A i \in Reqs : stage[i] = "answered" ~> stage[i] = "free"
=============================================================================
