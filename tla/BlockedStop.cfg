\* A call of the original function may never return.
CONSTANTS
  exe = exe
  ntdll = ntdll
  late = late
  b0 = b0
  b1 = b1
  b2 = b2
  NtX = NtX
  LateY = LateY
  FwdZ = FwdZ
  Threads = {t1, t2}
  Bases = {b0, b1, b2}
  Modules = {exe, ntdll, late}
  Ntdll = ntdll
  Symbols = {NtX, LateY}
  ModuleOf <- MCModuleOf
  Exports <- Forwarding
  HookList <- FirstHook
  Initial <- Launched
  ExeBase = b0
  Trampolines = {m1, m2}
  NoModule = NoModule
  Original = Original
  Null = Null
  MaxDepth = 8
  MaxCalls = 1
  MaxLoads = 2
  MaxBreaks = 1
  OtherEvents = {}
  Faults = {"CallBlocks"}
SPECIFICATION FairDebugSpec
PROPERTY StopDetaches
\* The session ends.
CHECK_DEADLOCK FALSE
