------------------------------ MODULE Shutdown ------------------------------
(***************************************************************************)
(* The end of RFIT: a signal makes main leave the endpoint and call        *)
(* RFIT::shutdown, which notifies and joins the RFIT thread, and then      *)
(* TaskPool::shutdown, F::shutdownAllT, T::shutdown and                    *)
(* WorkerPool::shutdown, one T after the other (src/main.cpp,              *)
(* src/RFIT/RFIT.cpp, src/RFIT/TaskPool/TaskPool.cpp, src/RFIT/T).  The    *)
(* main thread holds the mutex of a function's list while it joins the T   *)
(* threads of that list, and the T threads go on with what they have.      *)
(*                                                                         *)
(* The endpoint is destroyed, and its reactor threads joined, before       *)
(* RFIT::shutdown: no dispatch runs any more, though the requests of       *)
(* earlier ones may.  The rest of the system is TaskPool's.  The RFIT      *)
(* thread matters here only from the notification on; Begin leaves open    *)
(* whether that finds it in its poll or amid registrations.                *)
(***************************************************************************)
EXTENDS TaskPool

CONSTANT Quiet      \* TRUE: the signal arrives when no request is in flight

ASSUME ShutdownAssumption == Quiet \in BOOLEAN

VARIABLES
  spc,       \* where the main thread is
  sR, sF,    \* the resources, and functions of the first, still to shut down
  sT,        \* the Ts of the first function still to shut down
  held,      \* the function whose list mutex the main thread holds
  told,      \* the Ts with shutdown_ set
  exited,    \* the Ts whose thread has returned
  rfit,      \* where the RFIT thread is when it is to end, and "serves" before
  walked     \* history: the functions whose list has been shut down

main    == <<spc, sR, sF, sT, held, told, exited, rfit, walked>>
allVars == <<vars, main>>

ShutdownInit ==
  /\ Init
  /\ spc = "serve"
  /\ sR = << >> /\ sF = << >> /\ sT = << >>
  /\ held = NoF
  /\ told = {} /\ exited = {}
  /\ rfit = "serves" /\ walked = {}

Running == aborted = "no"

-----------------------------------------------------------------------------
(* The system while it serves and while it is shut down.                   *)

Dispatch(i) ==
  /\ spc = "serve"
  /\ \/ \E f \in Fs : AccessR(i, f)
     \/ AccessF(i)
     \/ GetT(i)
     \/ Holding(i)
     \/ Push(i)
  /\ UNCHANGED main

\* A T thread goes on with the events it has; it needs the mutex of its
\* function's list to return a request.
TRuns(t) ==
  /\ t \notin exited
  /\ pc[t] = "poll" => t \notin told
  /\ pc[t] \in {"iqret", "dqret"} => held # workFor[t]
  /\ TStep(t)
  /\ UNCHANGED main

\* Mutant: shutdownFd is not bound to the poller.
ExitWhenReady(t) ==
  /\ Running
  /\ t \in told \ exited
  /\ pc[t] = "poll" /\ TT!Ready(t) # {}
  /\ exited' = exited \cup {t}
  /\ UNCHANGED <<vars, spc, sR, sF, sT, held, told, rfit, walked>>

\* T::run: poll returns, for shutdownFd if for nothing else, and shutdown_ is
\* set; what else it reported is not handled.
Exit(t) ==
  /\ Running
  /\ t \in told \ exited
  /\ pc[t] = "poll"
  /\ exited' = exited \cup {t}
  /\ UNCHANGED <<vars, spc, sR, sF, sT, held, told, rfit, walked>>

WorkerRuns(t, w) == WorkerDone(t, w) /\ UNCHANGED main

-----------------------------------------------------------------------------
(* The RFIT thread, which registers functions and pings them.              *)

\* poll returns with funcRegisterQueue, and shutdownFd is looked at after it.
RfitHandles ==
  /\ Running
  /\ rfit = "poll"
  /\ rfit' = "last"
  /\ UNCHANGED <<vars, spc, sR, sF, sT, held, told, exited, walked>>

\* The queue is empty: the ping of its last function has returned.
RfitHandled ==
  /\ Running
  /\ \/ rfit = "handling" /\ rfit' = "poll"
     \/ rfit = "last" /\ rfit' = "ended"
  /\ UNCHANGED <<vars, spc, sR, sF, sT, held, told, exited, walked>>

\* poll returns with shutdownFd, alone or first.
RfitExits ==
  /\ Running
  /\ rfit = "poll"
  /\ rfit' = "ended"
  /\ UNCHANGED <<vars, spc, sR, sF, sT, held, told, exited, walked>>

-----------------------------------------------------------------------------
(* The main thread.                                                        *)

FsOf(rs) == IF rs = << >> THEN << >> ELSE fList[Head(rs)]

\* The endpoint is gone; RFIT::shutdown notifies shutdownFd.
Begin ==
  /\ Running
  /\ spc = "serve"
  /\ \A i \in Reqs : dpc[i] = "none"
  /\ Quiet => \A i \in Reqs : stage[i] = "free"
  /\ spc' = "rfit"
  /\ rfit' \in {"poll", "handling"}
  /\ UNCHANGED <<vars, sR, sF, sT, held, told, exited, walked>>

\* rfitThread.join() returns, and TaskPool::shutdown starts with its copies of
\* R_list and of the first F_list.
JoinRfit ==
  /\ Running
  /\ spc = "rfit" /\ rfit = "ended"
  /\ spc' = "fs"
  /\ sR' = rList /\ sF' = FsOf(rList)
  /\ UNCHANGED <<vars, sT, held, told, exited, rfit, walked>>

\* TSortList::shutdown takes the mutex of the next function's list.
LockList ==
  /\ Running
  /\ spc = "fs" /\ sF # << >>
  /\ held' = Head(sF)
  /\ sT' = [k \in DOMAIN tlist[held'].items |-> tlist[held'].items[k].t]
  /\ walked' = walked \cup {held'}
  /\ spc' = "ts"
  /\ UNCHANGED <<vars, sR, sF, told, exited, rfit>>

\* T::shutdown: shutdown_ and then shutdownFd.
TellT ==
  /\ Running
  /\ spc = "ts" /\ sT # << >>
  /\ told' = told \cup {Head(sT)}
  /\ spc' = "wp"
  /\ UNCHANGED <<vars, sR, sF, sT, held, exited, rfit, walked>>

\* WorkerPool::shutdown under the pool's lock: a busy worker is killed, which
\* is an assert(false); an idle one leaves its poll and is joined.
ShutdownPool ==
  /\ Running
  /\ spc = "wp"
  /\ \/ /\ busy[Head(sT)] # {}
        /\ aborted' = "kill"
        /\ UNCHANGED <<idle, spc>>
     \/ /\ busy[Head(sT)] = {}
        /\ idle' = [idle EXCEPT ![Head(sT)] = {}]
        /\ spc' = "join"
        /\ UNCHANGED aborted
  /\ UNCHANGED <<pool, iq, pc, pending, cur, workFor, curRes, icount, size, busy,
                 wq, doneQ, entries, reqs, sR, sF, sT, held, told, exited, rfit, walked>>

\* t.join() returns, and the cgroup is removed.
JoinT ==
  /\ Running
  /\ spc = "join" /\ Head(sT) \in exited
  /\ sT' = Tail(sT)
  /\ spc' = "ts"
  /\ UNCHANGED <<vars, sR, sF, held, told, exited, rfit, walked>>

UnlockList ==
  /\ Running
  /\ spc = "ts" /\ sT = << >>
  /\ held' = NoF
  /\ spc' = "flush"
  /\ UNCHANGED <<vars, sR, sF, sT, told, exited, rfit, walked>>

\* TSortList::flush; nextT stays where it is.
FlushList ==
  /\ Running
  /\ spc = "flush"
  /\ tlist' = [tlist EXCEPT ![Head(sF)].items = << >>]
  /\ sF' = Tail(sF)
  /\ spc' = "fs"
  /\ UNCHANGED <<rList, fList, holder, dpc, want, scanF, scanR, hand, created,
                 threads, reqs, aborted, sR, sT, held, told, exited, rfit, walked>>

\* The functions of a resource are done: its list is flushed, and R_list after
\* the last one.
NextR ==
  /\ Running
  /\ spc = "fs" /\ sF = << >>
  /\ \/ /\ sR # << >>
        /\ fList' = [fList EXCEPT ![Head(sR)] = << >>]
        /\ sR' = Tail(sR) /\ sF' = FsOf(Tail(sR))
        /\ UNCHANGED <<rList, spc>>
     \/ /\ sR = << >>
        /\ rList' = << >>
        /\ spc' = "done"
        /\ UNCHANGED <<fList, sR, sF>>
  /\ UNCHANGED <<tlist, holder, dpc, want, scanF, scanR, hand, created,
                 threads, reqs, aborted, sT, held, told, exited, rfit, walked>>

MainStep == \/ JoinRfit
            \/ LockList
            \/ TellT
            \/ ShutdownPool
            \/ JoinT
            \/ UnlockList
            \/ FlushList
            \/ NextR

ShutdownNext == \/ \E i \in Reqs : Dispatch(i)
                \/ \E t \in Ts : TRuns(t)
                \/ \E t \in Ts : Exit(t)
                \/ \E t \in Ts, w \in Workers : WorkerRuns(t, w)
                \/ RfitHandles
                \/ RfitHandled
                \/ RfitExits
                \/ Begin
                \/ MainStep

\* The main thread runs on once the signal has come; T threads, workers and the
\* RFIT thread keep running, so the function it pings returns.  Nothing makes a
\* client send a request or a registration, or the signal come.
Fairness == /\ WF_allVars(MainStep)
            /\ WF_allVars(RfitHandled) /\ WF_allVars(RfitExits)
            /\ \A t \in Ts : WF_allVars(TRuns(t)) /\ WF_allVars(Exit(t))
            /\ \A t \in Ts, w \in Workers : WF_allVars(WorkerRuns(t, w))

ShutdownSpec     == ShutdownInit /\ [][ShutdownNext]_allVars
ShutdownFairSpec == ShutdownSpec /\ Fairness

-----------------------------------------------------------------------------
\* A shutdown ends, so that main returns: the main thread never waits for a T
\* thread that waits for the list mutex the main thread holds.
ShutdownCompletes == spc # "serve" ~> spc = "done"

\* While the system serves, the lists lead to every T but those whose function
\* has lost its entry to one of the same resource and name.
ServingTsReachable == spc = "serve" => EveryTReachable

\* resize's assert(idleWorkers.size() == size) holds of the Ts as the dispatcher
\* hands them on, if functions are wasm modules of concurrency 1.
ResizeFindsAllWorkersIdle == aborted # "resize_idle"

\* The list of f was not shut down because, of the functions of its resource
\* and name, another one had the entry.
Displaced(f) == /\ f \notin walked
                /\ \E g \in walked \cap SameKey(f) : ResOf[g] = ResOf[f]

\* When the shutdown has ended, every T ever created has been joined with its
\* workers, but for those of functions that have lost their entry.
EveryTJoined ==
  spc = "done" => \A t \in created :
    \/ t \in exited /\ idle[t] = {} /\ busy[t] = {}
    \/ \E f \in Owners(t) : Displaced(f)

\* The assert(false) of Worker::kill: no worker is busy when its pool is shut
\* down.
KillNotReached == aborted # "kill"
=============================================================================
