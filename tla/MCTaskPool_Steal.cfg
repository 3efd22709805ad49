SPECIFICATION Spec
CONSTANTS
  f1 = f1  f2 = f2  f3 = f3
  r1 = r1  r2 = r2
  NoF = NoF  NoR = NoR  NoT = NoT  NoReq = NoReq
  Ts = {t1, t2, t3}
  Fs = {f1, f2, f3}
  Reqs = {q1, q2}
  Workers = {w1}
  Rs = {r1, r2}
  Conc <- OneEach
  ResOf <- F3Apart
  NameOf <- F3AsF1
  Wasm = {f1, f3}
SYMMETRY Symmetry
\* An assertion that fails ends the process: there is no next step then.
CHECK_DEADLOCK FALSE
INVARIANTS
  TypeOK
  OneListPerT
  TsBounded
PROPERTY ThreadSpec
