--------------------------- MODULE MCDebugSession ---------------------------
(* A target with an executable, ntdll and one module loaded later. *)
EXTENDS DebugSession, TLC

CONSTANTS exe, ntdll, late, b0, b1, b2, NtX, LateY, FwdZ

MCModuleOf == [s \in Symbols |-> IF s = NtX THEN ntdll ELSE late]

\* NtX and LateY are code, FwdZ is an export of late forwarded to NtX.
Forwarding == [s \in Symbols |-> IF s = FwdZ THEN NtX ELSE "code"]

Launched == (b0 :> exe) @@ (b1 :> NoModule) @@ (b2 :> NoModule)
Attached == (b0 :> exe) @@ (b1 :> ntdll) @@ (b2 :> late)

FirstHook == <<NtX>>
LateHooks == <<LateY, FwdZ>>
AllHooks == <<NtX, LateY, FwdZ>>
Symmetry == Permutations(Threads) \cup Permutations(Trampolines)
=============================================================================
