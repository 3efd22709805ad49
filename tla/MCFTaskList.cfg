SPECIFICATION Spec
CONSTANTS
  Ts = {t1, t2, t3, t4, t5}
  NoT = NoT
  MaxValue = 3
SYMMETRY Symmetry
INVARIANTS
  TypeOK
  Sorted
  NextTServesNext
  AssertionsHold
  TakeIdleDereferencesAnEntry
PROPERTY LoadsSpec
