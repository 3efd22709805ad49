SPECIFICATION ShutdownFairSpec
CONSTANTS
  f1 = f1  f2 = f2  f3 = f3
  r1 = r1  r2 = r2
  NoF = NoF  NoR = NoR  NoT = NoT  NoReq = NoReq
  Ts = {t1, t2}
  Fs = {f1, f2, f3}
  Reqs = {q1, q2}
  Workers = {w1}
  Rs = {r1, r2}
  Conc <- OneEach
  ResOf <- OwnR
  NameOf <- F3AsF1
  Wasm = {f1, f2, f3}
  Quiet = TRUE
\* The program ends.
CHECK_DEADLOCK FALSE
INVARIANTS
  ServingTsReachable
  EveryTJoined
  KillNotReached
  ResizeFindsAllWorkersIdle
PROPERTY ShutdownCompletes
