\* A launched target: a direct and a forwarded hook, modules loaded, unloaded and loaded again, a stop at any time.
CONSTANTS
  exe = exe
  ntdll = ntdll
  late = late
  b0 = b0
  b1 = b1
  b2 = b2
  NtX = NtX
  LateY = LateY
  FwdZ = FwdZ
  Threads = {t1, t2}
  Bases = {b0, b1, b2}
  Modules = {exe, ntdll, late}
  Ntdll = ntdll
  Symbols = {NtX, LateY, FwdZ}
  ModuleOf <- MCModuleOf
  Exports <- Forwarding
  HookList <- LateHooks
  Initial <- Launched
  ExeBase = b0
  Trampolines = {m1, m2}
  NoModule = NoModule
  Original = Original
  Null = Null
  MaxDepth = 8
  MaxCalls = 1
  MaxLoads = 4
  MaxBreaks = 1
  OtherEvents = {"breakpoint", "exception", "other"}
  Faults = {"InspectFails", "Unnamed"}
SPECIFICATION DebugSpec
SYMMETRY Symmetry
INVARIANTS DebugTypeOK NoThreadLost HooksMatchTarget HooksInstalledBeforeContinue CleanStopQuiet
\* The session ends.
CHECK_DEADLOCK FALSE
