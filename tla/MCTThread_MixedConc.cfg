SPECIFICATION Spec
CONSTANTS
  f1 = f1  f2 = f2  f3 = f3
  r1 = r1  r2 = r2
  NoF = NoF  NoR = NoR  NoT = NoT  NoReq = NoReq
  Ts = {t1, t2}
  Fs = {f1, f2}
  Reqs = {q1, q2, q3}
  Workers = {w1, w2}
  Rs = {r1, r2}
  Conc <- F1Twice
  ResOf <- SameR
  Wasm = {f1, f2}
SYMMETRY Symmetry
CHECK_DEADLOCK FALSE
INVARIANT InvokeFindsWorker
