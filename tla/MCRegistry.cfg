SPECIFICATION Spec
CONSTANTS
  Requests = {"w1", "w2", "n1", "n2"}
  Url <- MCUrl
  FuncStr <- MCFuncStr
  None = None
  Torn = Torn
  MaxQueue = 2
  MaxHandles = 2
  U32 = 1073741824
  MaxFuncConcurrency = 1000
  MemAllocGranularity = 16
  DefaultMemory = 256
VIEW View
INVARIANTS
  RunsItsOwnCode
PROPERTIES
  PromiseKept
