SPECIFICATION Spec
CONSTANTS
  Functions = {f}
  Invocations = {c}
  Paths = {a, b}
  Space = 16
  MaxPages = 7
  Image = 1
  ModulePages = 1
  GuardPages = 1
  TableElems = 1
  MaxTable = 2
  Requests = {1, 2, 15}
  MaxOwned = 1
  NoModule = NoModule
  NoSnapshot = NoSnapshot
VIEW View
SYMMETRY Symmetry
INVARIANTS
  TypeOK
  RegionsDisjoint
  NoForeignData
  LinkedOnce
  GuardsProtected
