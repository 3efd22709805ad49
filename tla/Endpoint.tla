------------------------------ MODULE Endpoint ------------------------------
(* What RFITEndpointHandler makes of a PUT request: the url                 *)
(* /register/type/user/functionName/concurrency/core/mem, split at the      *)
(* slashes, and the body. A url is a record: how many parts it has, whether *)
(* the first is "register", and the other parts, numbers as strtoul reads   *)
(* them, before they are cut to uint32. The parts are indexed without       *)
(* looking at how many there are: a url of an unknown type, or of one part, *)
(* is read past its end. The parts it does not have are then whatever those *)
(* reads find: any value (a url with other values is another url), or the   *)
(* end of the process (Crash of Registry).                                  *)
EXTENDS Integers

CONSTANTS
  U32,                   \* how many values a uint32 has: 2^32, fewer for TLC
  MaxFuncConcurrency,    \* config.maxFuncConcurrency
  MemAllocGranularity,   \* config.memAllocGranularity, in MB
  DefaultMemory          \* MEM_DEFAULT_HARD_LIMIT, in MB

MB == 1048576

ASSUME ConfigAssumption ==
  /\ U32 \in Nat /\ U32 > MB /\ U32 % MB = 0
  /\ MaxFuncConcurrency \in 1..(U32 - 1)
  /\ MemAllocGranularity \in 1..(U32 - 1)
  /\ DefaultMemory \in Nat \ {0}

\* The memory of a function is counted in MB: mem * 1024 * 1024 in uint32 keeps
\* the MB modulo 4096.
MBytesInU32 == U32 \div MB

\* The condition under which requestToMsg returns -1: the shape is wrong AND
\* the type is a known one. Of an unknown type every shape is taken.
Rejected(url) ==
  /\ ~(url.size \in {4, 5, 7} /\ url.register)
  /\ url.type \in {"native", "wasm"}

concurrency(asked) ==
  LET cut == asked % U32
  IN IF cut > MaxFuncConcurrency THEN MaxFuncConcurrency
     ELSE IF cut = 0 THEN 1 ELSE cut

\* A size that is no multiple of 16 first grows by 16, in uint32, then every size
\* is rounded down to the granularity.
Rounded(mem) ==
  LET raised == IF mem % 16 = 0 THEN mem ELSE (mem + 16) % U32
  IN (raised \div MemAllocGranularity) * MemAllocGranularity

memsize(asked) ==
  LET mem == asked % U32
  IN IF mem = 0 THEN DefaultMemory ELSE Rounded(mem) % MBytesInU32

\* With six parts the memory is read past the end of them.
requestToMsg(url) ==
  [type        |-> url.type,
   user        |-> url.user,
   funcname    |-> IF url.user = "python" THEN "py_func" ELSE url.functionName,
   dldata      |-> url.body,
   concurrency |-> IF url.size > 4 THEN concurrency(url.concurrency) ELSE 1,
   memsize     |-> IF url.size > 5 THEN memsize(url.mem) ELSE DefaultMemory]
=============================================================================
