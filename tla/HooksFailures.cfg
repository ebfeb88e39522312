\* A running target, its modules announced in any order, two hooks that resolve to one address, and the steps of the set-up failing at will, but for a write of the patch that is reported as failed after it was made (PatchFails) and failures to unhook (UnhookFails).
CONSTANTS
  exe = exe
  ntdll = ntdll
  late = late
  b0 = b0
  b1 = b1
  b2 = b2
  NtX = NtX
  LateY = LateY
  FwdZ = FwdZ
  Threads = {t1, t2}
  Bases = {b0, b1, b2}
  Modules = {exe, ntdll, late}
  Ntdll = ntdll
  Symbols = {NtX, LateY, FwdZ}
  ModuleOf <- MCModuleOf
  Exports <- Forwarding
  HookList <- AllHooks
  Initial <- Attached
  ExeBase = b0
  Trampolines = {m1, m2, m3}
  NoModule = NoModule
  Original = Original
  Null = Null
  MaxDepth = 8
  MaxCalls = 1
  MaxLoads = 4
  MaxBreaks = 1
  OtherEvents = {}
  Faults = {"InitFails", "TransportFails", "HookFails", "DebugApiFails", "Unnamed", "StopsInPrologue", "UnloadsDuringCall"}
SPECIFICATION DebugSpec
SYMMETRY Symmetry
INVARIANTS PatchedMeansReady DetachLeavesNothing KilledOnlyUntouched
\* The session ends.
CHECK_DEADLOCK FALSE
