---------------------------- MODULE DebugSession ----------------------------
(***************************************************************************)
(* The controller's debugger loop (src/apiscope/debug_session.cpp), the    *)
(* installation and removal of hooks in the target's memory                *)
(* (src/apiscope/hook_manager.cpp), and the target's threads running       *)
(* through patched exports, hook handlers and trampolines                  *)
(* (src/include/api_hook.h).                                               *)
(*                                                                         *)
(* While a debug event is outstanding every thread of the target is        *)
(* stopped; the controller's remote reads and writes happen only then.     *)
(* The threads run between ContinueDebugEvent and the next event, and      *)
(* after the detach.                                                       *)
(*                                                                         *)
(* A hook is named by the symbol (module!export) it traces.  The trace     *)
(* session is TraceSession; here it is the view of the ring in the target  *)
(* (with the two transport bypasses, which live and die with it) and the   *)
(* TransportRing pointer of the hook image.                                *)
(***************************************************************************)
EXTENDS Integers, FiniteSets, SequencesExt

CONSTANTS
  Threads,       \* threads of the target
  Bases,         \* addresses modules are mapped at
  Modules,       \* normalized module names
  Ntdll,         \* the name "ntdll.dll"
  Symbols,       \* module!export pairs
  ModuleOf,      \* the module each symbol belongs to
  Exports,       \* what each export is: see ExportKinds
  HookList,      \* options_.hooks: the symbols to trace, in order
  Initial,       \* the modules mapped when the session starts
  ExeBase,       \* where the executable is mapped
  Trampolines,   \* addresses VirtualAllocEx may return for a trampoline
  NoModule, Original, Null,
  MaxDepth,      \* longest forwarder chain followed (8 in the code)
  MaxCalls,      \* bound: exports one thread calls, unless "CallsGoOn"
  MaxLoads,      \* bound: modules registered
  MaxBreaks,     \* bound: DebugBreakProcess calls not yet reported
  OtherEvents,   \* debug events of the target that need no handling
  Faults         \* failures and unfavourable circumstances

FaultKinds ==
  {"InitFails", "TransportFails", "HookFails", "PatchFails", "UnhookFails",
   "InspectFails", "DebugApiFails", "Unnamed", "StopsInPrologue", "UnloadsDuringCall",
   "CallBlocks", "CallsGoOn"}

ExportKinds == {"code", "unpatchable", "absent", "unsupported"}
Hooks == {HookList[i] : i \in 1..Len(HookList)}
Addresses == Bases \X Symbols

ASSUME DebugAssumption ==
  /\ Ntdll \in Modules
  /\ NoModule \notin Modules
  /\ Original \notin Symbols
  /\ Null \notin Trampolines \cup Symbols \cup Addresses \cup Bases
  /\ Null \notin [address : Addresses, bytes : Symbols \cup {Original}]
  /\ Null \notin [name : Modules, generation : Nat]
  /\ ModuleOf \in [Symbols -> Modules]
  /\ \A s \in Symbols : Exports[s] \in Symbols \cup ExportKinds
  /\ HookList \in Seq(Symbols)
  /\ \A i, j \in 1..Len(HookList) : HookList[i] = HookList[j] => i = j
  /\ ExeBase \in Bases
  /\ Initial \in [Bases -> Modules \cup {NoModule}]
  /\ Initial[ExeBase] # NoModule
  /\ Cardinality(Trampolines) >= Len(HookList)
  /\ MaxDepth \in Nat /\ MaxCalls \in Nat /\ MaxLoads \in Nat /\ MaxBreaks \in Nat
  /\ OtherEvents \subseteq {"breakpoint", "exception", "other"}
  /\ Faults \subseteq FaultKinds

VARIABLES
  \* the target process
  loaded,           \* the module mapped at each base
  announced,        \* bases whose mapping the debugger has been told of
  code,             \* the first bytes of each export: Original, or the hook
                    \* whose handler they jump to
  thread,           \* where each thread is
  calls,            \* exports each thread has called
  event,            \* the outstanding debug event, as a sequence
  breaks,           \* break-in threads created and not yet reported
  fate,             \* "debugged", "detached", "exited" or "killed"
  \* the instrumentation in the target's memory
  image,            \* the hook image is mapped
  ring,             \* the view of the ring and the bypasses are mapped
  TransportRing,    \* the hook image's pointer to the ring is not null
  ActiveHookCalls,  \* the hook image's count of calls in progress
  slot,             \* the trampoline variable of each hook
  trampoline,       \* the contents of each trampoline, Null when free
  \* the controller
  modules,          \* modules_: base to name and generation
  moduleGeneration, \* moduleGeneration_
  installedHooks,   \* installedHooks_
  transportConfigured, initialBreakpointSeen, debugActive,
  stopRequested,    \* StopRequested
  stopBreakRequested,
  step,             \* where EventLoop is
  next,             \* the hook TryInstallPendingHooks is at
  eventOk, cleanStop, retryCleanStop

targetVars == <<loaded, announced, thread, calls, fate>>
memoryVars == <<code, slot, trampoline>>
imageVars == <<image, ring, TransportRing, ActiveHookCalls>>
moduleVars == <<modules, moduleGeneration>>
flagVars == <<transportConfigured, initialBreakpointSeen, debugActive>>
stopVars == <<stopRequested, stopBreakRequested, breaks>>
loopVars == <<step, next, eventOk, cleanStop, retryCleanStop>>
debugVars == <<targetVars, event, memoryVars, imageVars, moduleVars,
               installedHooks, flagVars, stopVars, loopVars>>

Outside == [at |-> "outside", address |-> Null, hook |-> Null, via |-> Null]
Crashed == [at |-> "crashed", address |-> Null, hook |-> Null, via |-> Null]

\* How an operation on the target's memory may end: as it should, or in one
\* of the given ways when the fault is injected.
Outcomes(fault, failures) ==
  {"ok"} \cup (IF fault \in Faults THEN failures ELSE {})

DebugInit ==
  /\ loaded = Initial
  /\ announced = {}
  /\ code = [a \in Addresses |-> Original]
  /\ thread = [t \in Threads |-> Outside]
  /\ calls = [t \in Threads |-> 0]
  /\ event = <<>>
  /\ breaks = 0
  /\ fate = "debugged"
  /\ image = FALSE
  /\ ring = FALSE
  /\ TransportRing = FALSE
  /\ ActiveHookCalls = 0
  /\ slot = [h \in Hooks |-> Null]
  /\ trampoline = [n \in Trampolines |-> Null]
  /\ modules = [b \in Bases |-> Null]
  /\ moduleGeneration = 0
  /\ installedHooks = <<>>
  /\ transportConfigured = FALSE
  /\ initialBreakpointSeen = FALSE
  /\ debugActive = FALSE
  /\ stopRequested = FALSE
  /\ stopBreakRequested = FALSE
  /\ step = "waiting"
  /\ next = 1
  /\ eventOk = TRUE
  /\ cleanStop = FALSE
  /\ retryCleanStop = FALSE

-----------------------------------------------------------------------------
(* Modules and symbols *)

Registered == {b \in Bases : modules[b] # Null}

\* The bases FindModule returns: the newest registration of the name, if any.
FindModule(m) ==
  {b \in Registered :
     /\ modules[b].name = m
     /\ \A c \in Registered :
          modules[c].name = m => modules[c].generation <= modules[b].generation}

\* The symbol reached from s after d forwarders, Null past the end.
Forwarded(s) ==
  LET chain[d \in 0..MaxDepth] ==
        IF d = 0 THEN s
        ELSE IF chain[d - 1] \in Symbols /\ Exports[chain[d - 1]] \in Symbols
          THEN Exports[chain[d - 1]]
          ELSE Null
  IN chain

\* What the call of ResolveExportAddress at depth d returns, "Forward" when
\* it recurses.
ResolveAt(chain, d) ==
  IF d >= MaxDepth \/ \E c \in 0..(d - 1) : chain[c] = chain[d] THEN "Error"
  ELSE IF FindModule(ModuleOf[chain[d]]) = {} THEN "Pending"
  ELSE IF Exports[chain[d]] \in {"code", "unpatchable"} THEN "Resolved"
  ELSE IF Exports[chain[d]] \in {"absent", "unsupported"} THEN "Error"
  ELSE "Forward"

\* The result of ResolveHookAddress for a hook, with the address and the two
\* module bases when it is "Resolved".  The forwarders are followed up to the
\* first call that does not recurse.
ResolveHookAddress(h) ==
  LET chain == Forwarded(h)
      sources == FindModule(ModuleOf[h])
      last == {d \in 0..MaxDepth :
                 /\ chain[d] # Null
                 /\ \A c \in 0..(d - 1) : ResolveAt(chain, c) = "Forward"
                 /\ ResolveAt(chain, d) # "Forward"}
      found == {a \in Addresses :
                  \E d \in last : /\ ResolveAt(chain, d) = "Resolved"
                                  /\ chain[d] = a[2]
                                  /\ a[1] \in FindModule(ModuleOf[a[2]])}
      address == CHOOSE a \in found : TRUE
  IN IF sources # {} /\ found # {}
     THEN [result |-> "Resolved", address |-> address,
           source |-> CHOOSE b \in sources : TRUE, target |-> address[1]]
     ELSE [result |-> IF sources # {} /\ \E d \in last : ResolveAt(chain, d) = "Error"
                      THEN "Error" ELSE "Pending",
           address |-> Null, source |-> Null, target |-> Null]

InstalledSet == ToSet(installedHooks)

Installed(h) == \E k \in InstalledSet : k.hook = h

-----------------------------------------------------------------------------
(* The target: its loader, its exit, and the debug events it raises *)

Running == event = <<>> /\ fate \in {"debugged", "detached"}
Debugged == event = <<>> /\ fate = "debugged"

Raise(kind, base) == event' = <<[kind |-> kind, base |-> base]>>

\* Every module mapped before the session is announced before anything else is
\* reported, the executable first.
Introduced == \A b \in Bases : loaded[b] # NoModule => b \in announced

AnnounceModule(b) ==
  /\ Debugged
  /\ loaded[b] # NoModule /\ b \notin announced
  /\ b = ExeBase \/ ExeBase \in announced
  /\ Raise(IF b = ExeBase THEN "create" ELSE "load", b)
  /\ announced' = announced \cup {b}
  /\ UNCHANGED <<loaded, thread, calls, fate, memoryVars, imageVars, moduleVars,
                 installedHooks, flagVars, stopVars, loopVars>>

LoadModule(b, m) ==
  /\ Debugged /\ Introduced
  /\ loaded[b] = NoModule
  /\ moduleGeneration < MaxLoads
  /\ loaded' = [loaded EXCEPT ![b] = m]
  /\ announced' = announced \cup {b}
  /\ Raise("load", b)
  /\ UNCHANGED <<thread, calls, fate, memoryVars, imageVars, moduleVars,
                 installedHooks, flagVars, stopVars, loopVars>>

\* A program does not unload a module whose code one of its threads is
\* running.  It does not know that a call in progress elsewhere came through
\* a hook on an export the module forwards.
UnloadModule(b) ==
  /\ Debugged /\ Introduced
  /\ b # ExeBase /\ loaded[b] \notin {NoModule, Ntdll}
  /\ \A t \in Threads : thread[t].address # Null => thread[t].address[1] # b
  /\ \/ "UnloadsDuringCall" \in Faults
     \/ \A k \in InstalledSet : k.source = b =>
          \A t \in Threads : thread[t].address # k.address
  /\ loaded' = [loaded EXCEPT ![b] = NoModule]
  /\ announced' = announced \ {b}
  /\ code' = [a \in Addresses |-> IF a[1] = b THEN Original ELSE code[a]]
  /\ Raise("unload", b)
  /\ UNCHANGED <<thread, calls, fate, slot, trampoline, imageVars, moduleVars,
                 installedHooks, flagVars, stopVars, loopVars>>

\* The thread DebugBreakProcess created reaches its breakpoint.
BreakIn ==
  /\ Debugged /\ Introduced
  /\ breaks > 0
  /\ breaks' = breaks - 1
  /\ Raise("breakpoint", Null)
  /\ UNCHANGED <<targetVars, memoryVars, imageVars, moduleVars, installedHooks,
                 flagVars, stopRequested, stopBreakRequested, loopVars>>

\* The initial breakpoint, breakpoints and exceptions of the program, thread
\* creation and exit, debug output.
RaiseOther(kind) ==
  /\ Debugged /\ Introduced
  /\ Raise(kind, Null)
  /\ UNCHANGED <<targetVars, memoryVars, imageVars, moduleVars, installedHooks,
                 flagVars, stopVars, loopVars>>

ExitProcess ==
  /\ Debugged /\ Introduced
  /\ Raise("exit", Null)
  /\ UNCHANGED <<targetVars, memoryVars, imageVars, moduleVars, installedHooks,
                 flagVars, stopVars, loopVars>>

-----------------------------------------------------------------------------
(* The target's threads *)

ThreadFrame ==
  UNCHANGED <<loaded, announced, fate, event, memoryVars, image, ring,
              TransportRing, moduleVars, installedHooks, flagVars, stopVars,
              loopVars>>

\* Thread t moves on to `then' if what it executes is there, else it crashes.
Executes(t, possible, then) ==
  thread' = [thread EXCEPT ![t] = IF possible THEN then ELSE Crashed]

Moves(t, from, possible, to) ==
  /\ Running
  /\ thread[t].at = from
  /\ Executes(t, possible, [thread[t] EXCEPT !.at = to])
  /\ UNCHANGED <<calls, ActiveHookCalls>>
  /\ ThreadFrame

\* MaxCalls makes the calls of a thread finitely many. With "CallsGoOn" they are
\* not counted.
CallExport(t, a) ==
  /\ Running
  /\ thread[t] = Outside
  /\ "CallsGoOn" \in Faults \/ calls[t] < MaxCalls
  /\ loaded[a[1]] = ModuleOf[a[2]]
  /\ Exports[a[2]] \in {"code", "unpatchable"}
  /\ thread' = [thread EXCEPT ![t] = [Outside EXCEPT !.at = "entry", !.address = a]]
  /\ calls' = IF "CallsGoOn" \in Faults THEN calls ELSE [calls EXCEPT ![t] = @ + 1]
  /\ UNCHANGED ActiveHookCalls
  /\ ThreadFrame

\* The first instruction decides whether the thread runs the export's own
\* code or the jump to a handler.
EnterOriginal(t) ==
  /\ Running
  /\ thread[t].at = "entry"
  /\ code[thread[t].address] = Original
  /\ thread' = [thread EXCEPT ![t] = IF "StopsInPrologue" \in Faults
                                     THEN [@ EXCEPT !.at = "prologue"]
                                     ELSE Outside]
  /\ UNCHANGED <<calls, ActiveHookCalls>>
  /\ ThreadFrame

LeavePrologue(t) ==
  /\ Running
  /\ thread[t].at = "prologue"
  /\ Executes(t, code[thread[t].address] = Original, Outside)
  /\ UNCHANGED <<calls, ActiveHookCalls>>
  /\ ThreadFrame

EnterPatch(t) ==
  /\ Running
  /\ thread[t].at = "entry"
  /\ code[thread[t].address] # Original
  /\ thread' = [thread EXCEPT ![t].at = "jumping",
                              ![t].hook = code[thread[t].address]]
  /\ UNCHANGED <<calls, ActiveHookCalls>>
  /\ ThreadFrame

JumpToHandler(t) ==
  Moves(t, "jumping", code[thread[t].address] = thread[t].hook, "handler")

\* Seeded fault: the guard counts nothing on the way in.
EnterUncounted(t) ==
  /\ Running
  /\ thread[t].at = "handler"
  /\ Executes(t, image, [thread[t] EXCEPT !.at = "guarded"])
  /\ UNCHANGED <<calls, ActiveHookCalls>>
  /\ ThreadFrame

\* HookCallGuard hookCall
EnterGuard(t) ==
  /\ Running
  /\ thread[t].at = "handler"
  /\ Executes(t, image, [thread[t] EXCEPT !.at = "guarded"])
  /\ ActiveHookCalls' = IF image THEN ActiveHookCalls + 1 ELSE ActiveHookCalls
  /\ UNCHANGED calls
  /\ ThreadFrame

\* CALL_ORIGINAL through the trampoline variable
CallOriginal(t) ==
  /\ Running
  /\ thread[t].at = "guarded"
  /\ Executes(t, image /\ slot[thread[t].hook] # Null,
              [thread[t] EXCEPT !.at = "trampoline", !.via = slot[thread[t].hook]])
  /\ UNCHANGED <<calls, ActiveHookCalls>>
  /\ ThreadFrame

\* The trampoline runs the bytes it was built from: the export's own first
\* instructions, or the jump that had already replaced them.
RunTrampoline(t) ==
  LET content == trampoline[thread[t].via]
  IN /\ Running
     /\ thread[t].at = "trampoline"
     /\ Executes(t, content # Null,
                 IF content.bytes = Original
                 THEN [thread[t] EXCEPT !.at = "original", !.address = content.address]
                 ELSE [thread[t] EXCEPT !.at = "handler", !.hook = content.bytes])
     /\ UNCHANGED <<calls, ActiveHookCalls>>
     /\ ThreadFrame

ReturnToHandler(t) == Moves(t, "original", image, "returned")

\* EmitTraceEvent reads TransportRing and returns at once when it is null.
BeginEmit(t) ==
  Moves(t, "returned", image, IF TransportRing THEN "emitting" ELSE "emitted")

FinishEmit(t) == Moves(t, "emitting", ring /\ image, "emitted")

LeaveGuard(t) ==
  /\ Running
  /\ thread[t].at = "emitted"
  /\ Executes(t, image, [thread[t] EXCEPT !.at = "leaving"])
  /\ ActiveHookCalls' = IF image THEN ActiveHookCalls - 1 ELSE ActiveHookCalls
  /\ UNCHANGED calls
  /\ ThreadFrame

ReturnToCaller(t) ==
  /\ Running
  /\ thread[t].at = "leaving"
  /\ Executes(t, image, Outside)
  /\ UNCHANGED <<calls, ActiveHookCalls>>
  /\ ThreadFrame

HookSteps(t) ==
  \/ EnterOriginal(t) \/ LeavePrologue(t) \/ EnterPatch(t) \/ JumpToHandler(t)
  \/ EnterGuard(t) \/ CallOriginal(t) \/ RunTrampoline(t)
  \/ BeginEmit(t) \/ FinishEmit(t) \/ LeaveGuard(t) \/ ReturnToCaller(t)

ThreadStep(t) ==
  \/ \E a \in Addresses : CallExport(t, a)
  \/ HookSteps(t)
  \/ ReturnToHandler(t)

-----------------------------------------------------------------------------
(* Hooks: hook_manager.cpp *)

\* HookFunction for hook h at the resolved address.  An unpatchable export
\* or a failed read or write is "rejected" with nothing left behind; a failed
\* PatchFunction leaves the export as it is, or patched when the failure
\* follows the write.
HookFunction(h, found, outcome) ==
  \E n \in {m \in Trampolines : trampoline[m] = Null} :
    LET bytes == code[found.address]
        patching == Exports[found.address[2]] = "code" /\ outcome # "rejected"
        hooked == patching /\ outcome = "ok"
    IN /\ slot' = IF patching THEN [slot EXCEPT ![h] = IF hooked THEN n ELSE Null]
                  ELSE slot
       /\ trampoline' = IF hooked
                        THEN [trampoline EXCEPT ![n] = [address |-> found.address,
                                                        bytes |-> bytes]]
                        ELSE trampoline
       /\ code' = IF patching /\ outcome # "unpatched"
                  THEN [code EXCEPT ![found.address] = h] ELSE code
       /\ installedHooks' =
            IF hooked
            THEN Append(installedHooks,
                        [hook |-> h, address |-> found.address, trampoline |-> n,
                         bytes |-> bytes, source |-> found.source,
                         target |-> found.target])
            ELSE installedHooks
       /\ eventOk' = hooked

HookOutcomes == Outcomes("HookFails", {"rejected", "unpatched"})
                  \cup Outcomes("PatchFails", {"patched"})

\* UnhookFunction.  "kept": the export could not be written.  "restored": it
\* was, and a later call failed.  "cleared": only the trampoline was not freed.
UnhookFunction(k, outcome) ==
  /\ code' = IF outcome = "kept" THEN code ELSE [code EXCEPT ![k.address] = k.bytes]
  /\ slot' = IF outcome \in {"ok", "cleared"} THEN [slot EXCEPT ![k.hook] = Null]
             ELSE slot
  /\ trampoline' = IF outcome = "ok" THEN [trampoline EXCEPT ![k.trampoline] = Null]
                   ELSE trampoline

UnhookOutcomes == Outcomes("UnhookFails", {"kept", "restored", "cleared"})

\* ReleaseUnloadedHook: the export is gone; each of the two calls may fail.
ReleaseUnloadedHook(k, outcome) ==
  /\ slot' = IF outcome \in {"ok", "cleared"} THEN [slot EXCEPT ![k.hook] = Null]
             ELSE slot
  /\ trampoline' = IF outcome \in {"ok", "freed"}
                   THEN [trampoline EXCEPT ![k.trampoline] = Null] ELSE trampoline
  /\ UNCHANGED code

ReleaseOutcomes == Outcomes("UnhookFails", {"cleared", "freed", "neither"})

-----------------------------------------------------------------------------
(* The event loop: debug_session.cpp *)

\* ConsoleControlHandler, at any time
RequestStop ==
  /\ ~stopRequested
  /\ step # "finished"
  /\ stopRequested' = TRUE
  /\ UNCHANGED <<targetVars, event, memoryVars, imageVars, moduleVars,
                 installedHooks, flagVars, stopBreakRequested, breaks, loopVars>>

DebugBreakProcess == breaks' = IF breaks < MaxBreaks THEN breaks + 1 ELSE breaks

RequestBreak ==
  /\ step = "waiting"
  /\ stopRequested /\ ~stopBreakRequested
  /\ DebugBreakProcess
  /\ stopBreakRequested' = TRUE
  /\ UNCHANGED <<targetVars, event, memoryVars, imageVars, moduleVars,
                 installedHooks, flagVars, stopRequested, loopVars>>

\* The loop is left by break: the target is detached if it was initialised,
\* and is killed with the controller otherwise.
BreakOff ==
  /\ "DebugApiFails" \in Faults
  /\ step \in {"waiting", "continuing"} \/ (step = "continued" /\ retryCleanStop)
  /\ fate = "debugged"
  /\ fate' = IF step = "continuing" /\ event[1].kind = "exit" THEN "exited"
             ELSE IF debugActive THEN "detached" ELSE "killed"
  /\ event' = <<>>
  /\ step' = "finished"
  /\ UNCHANGED <<loaded, announced, thread, calls, memoryVars, imageVars,
                 moduleVars, installedHooks, flagVars, stopVars, next, eventOk,
                 cleanStop, retryCleanStop>>

\* The loop takes the outstanding event, of the given kind.
Takes(kind) ==
  /\ step = "waiting"
  /\ event # <<>> /\ event[1].kind = kind
  /\ next' = 1

\* Seeded fault: hooks are installed before the transport is configured.
RegisterUnconfigured(b, outcome) ==
  IF outcome = "unnamed"
  THEN /\ step' = "continuing"
       /\ eventOk' = TRUE
       /\ UNCHANGED <<moduleVars, transportConfigured>>
  ELSE /\ modules' = [modules EXCEPT ![b] = [name |-> loaded[b],
                                             generation |-> moduleGeneration + 1]]
       /\ moduleGeneration' = moduleGeneration + 1
       /\ transportConfigured' = (transportConfigured \/ loaded[b] = Ntdll)
       /\ eventOk' = TRUE
       /\ step' = "installing"

\* Seeded fault: hooks are only tried when ntdll arrives.
RegisterOnce(b, outcome) ==
  IF outcome = "unnamed"
  THEN /\ step' = "continuing"
       /\ eventOk' = TRUE
       /\ UNCHANGED <<moduleVars, transportConfigured>>
  ELSE /\ modules' = [modules EXCEPT ![b] = [name |-> loaded[b],
                                             generation |-> moduleGeneration + 1]]
       /\ moduleGeneration' = moduleGeneration + 1
       /\ transportConfigured' = (transportConfigured \/ loaded[b] = Ntdll)
       /\ eventOk' = TRUE
       /\ step' = IF loaded[b] = Ntdll THEN "installing" ELSE "continuing"

\* RegisterModule of what is mapped at base b; "unnamed" when its name cannot
\* be found, "transport" when ConfigureTransport fails.
RegisterModule(b, outcome) ==
  LET m == loaded[b]
      configures == m = Ntdll /\ ~transportConfigured
      fails == configures /\ outcome = "transport"
  IN IF outcome = "unnamed"
     THEN /\ step' = "continuing"
          /\ eventOk' = TRUE
          /\ UNCHANGED <<moduleVars, transportConfigured>>
     ELSE /\ modules' = [modules EXCEPT ![b] = [name |-> m,
                                                generation |-> moduleGeneration + 1]]
          /\ moduleGeneration' = moduleGeneration + 1
          /\ transportConfigured' = (transportConfigured \/ (configures /\ ~fails))
          /\ eventOk' = ~fails
          /\ step' = IF fails THEN "cleaning"
                     ELSE IF transportConfigured' THEN "installing"
                     ELSE "continuing"

\* Neither the path of the file nor the export directory names the module.
NameOutcomes == Outcomes("Unnamed", {"unnamed"})

RegisterOutcomes == NameOutcomes \cup Outcomes("TransportFails", {"transport"})

\* Seeded fault: debugActive_ is not set.
InitializeInactive(outcome) ==
  /\ debugActive' = FALSE
  /\ image' = (outcome \in {"ok", "start"})
  /\ ring' = (outcome = "ok")
  /\ TransportRing' = (outcome = "ok")
  /\ ActiveHookCalls' = 0

\* InitializeDebuggee: DebugSetProcessKillOnExit, the mapping of the hook
\* image and TraceSession::Start, each of which may fail.
InitializeDebuggee(outcome) ==
  /\ debugActive' = (outcome # "killonexit")
  /\ image' = (outcome \in {"ok", "start"})
  /\ ring' = (outcome = "ok")
  /\ TransportRing' = (outcome = "ok")
  /\ ActiveHookCalls' = 0

HandleCreateProcess ==
  /\ Takes("create")
  /\ \E outcome \in Outcomes("InitFails", {"killonexit", "inject", "start"}) :
       /\ InitializeDebuggee(outcome)
       /\ IF outcome = "ok"
          THEN \E registered \in RegisterOutcomes :
                 RegisterModule(event[1].base, registered)
          ELSE /\ eventOk' = FALSE
               /\ step' = "cleaning"
               /\ UNCHANGED <<moduleVars, transportConfigured>>
  /\ cleanStop' = FALSE
  /\ UNCHANGED <<targetVars, event, memoryVars, installedHooks,
                 initialBreakpointSeen, stopVars, retryCleanStop>>

HandleLoadDll ==
  /\ Takes("load")
  /\ \E outcome \in RegisterOutcomes : RegisterModule(event[1].base, outcome)
  /\ cleanStop' = FALSE
  /\ UNCHANGED <<targetVars, event, memoryVars, imageVars, installedHooks,
                 initialBreakpointSeen, debugActive, stopVars, retryCleanStop>>

\* Seeded fault: a failed installation is not rolled back.
InstallWithoutRollback ==
  /\ step = "installing"
  /\ next <= Len(HookList)
  /\ LET h == HookList[next]
         found == ResolveHookAddress(h)
         taken == \E k \in InstalledSet : k.address = found.address
     IN IF Installed(h) \/ found.result = "Pending"
        THEN UNCHANGED <<memoryVars, installedHooks, eventOk>>
        ELSE IF found.result = "Error" \/ taken
        THEN eventOk' = FALSE /\ UNCHANGED <<memoryVars, installedHooks>>
        ELSE \E outcome \in HookOutcomes : HookFunction(h, found, outcome)
  /\ next' = next + 1
  /\ step' = IF eventOk' THEN "installing" ELSE "continuing"
  /\ UNCHANGED <<targetVars, event, imageVars, moduleVars, flagVars, stopVars,
                 cleanStop, retryCleanStop>>

\* One turn of the loop of TryInstallPendingHooks.
TryInstallPendingHook ==
  /\ step = "installing"
  /\ next <= Len(HookList)
  /\ LET h == HookList[next]
         found == ResolveHookAddress(h)
         taken == \E k \in InstalledSet : k.address = found.address
     IN IF Installed(h) \/ found.result = "Pending"
        THEN UNCHANGED <<memoryVars, installedHooks, eventOk>>
        ELSE IF found.result = "Error" \/ taken
        THEN eventOk' = FALSE /\ UNCHANGED <<memoryVars, installedHooks>>
        ELSE \E outcome \in HookOutcomes : HookFunction(h, found, outcome)
  /\ next' = next + 1
  /\ step' = IF eventOk' THEN "installing" ELSE "cleaning"
  /\ UNCHANGED <<targetVars, event, imageVars, moduleVars, flagVars, stopVars,
                 cleanStop, retryCleanStop>>

AllHooksTried ==
  /\ step = "installing"
  /\ next > Len(HookList)
  /\ step' = "continuing"
  /\ UNCHANGED <<targetVars, event, memoryVars, imageVars, moduleVars,
                 installedHooks, flagVars, stopVars, next, eventOk, cleanStop,
                 retryCleanStop>>

HandleUnloadDll ==
  /\ Takes("unload")
  /\ eventOk' = TRUE
  /\ cleanStop' = FALSE
  /\ step' = "unloading"
  /\ UNCHANGED <<targetVars, event, memoryVars, imageVars, moduleVars,
                 installedHooks, flagVars, stopVars, retryCleanStop>>

\* Seeded fault: hooks found through the unloaded module are forgotten.
ConcernsTarget(k, b) == k.target = b

\* HandleUnloadDll drops the hooks into the module and those found through it.
Concerns(k, b) == k.target = b \/ k.source = b

\* One turn of its loop that erases a hook ...
DropHook ==
  /\ step = "unloading"
  /\ \E i \in 1..Len(installedHooks) :
       LET k == installedHooks[i]
           b == event[1].base
       IN /\ Concerns(k, b)
          /\ \A j \in 1..(i - 1) : ~Concerns(installedHooks[j], b)
          /\ \/ /\ k.target = b
                /\ \E outcome \in ReleaseOutcomes : ReleaseUnloadedHook(k, outcome)
             \/ /\ k.target # b
                /\ \E outcome \in UnhookOutcomes : UnhookFunction(k, outcome)
          /\ installedHooks' = RemoveAt(installedHooks, i)
  /\ UNCHANGED <<targetVars, event, imageVars, moduleVars, flagVars, stopVars,
                 loopVars>>

\* ... and modules_.erase behind it.
ForgetModule ==
  /\ step = "unloading"
  /\ \A k \in InstalledSet : ~Concerns(k, event[1].base)
  /\ modules' = [modules EXCEPT ![event[1].base] = Null]
  /\ step' = "continuing"
  /\ UNCHANGED <<targetVars, event, memoryVars, imageVars, moduleGeneration,
                 installedHooks, flagVars, stopVars, next, eventOk, cleanStop,
                 retryCleanStop>>

\* Seeded fault: only the hook image is looked at.
InImageOnly(t) ==
  image /\ thread[t].at \in {"handler", "guarded", "returned", "emitted", "leaving"}

\* A thread's instruction pointer is in the hook image, in the bytes a hook
\* replaces or in its trampoline.  One that is emitting may be in a bypass.
IsInstrumentationAddress(t) ==
  \/ image /\ thread[t].at \in {"handler", "guarded", "returned", "emitted", "leaving"}
  \/ \E k \in InstalledSet :
       \/ thread[t].at \in {"entry", "prologue", "jumping"} /\ thread[t].address = k.address
       \/ thread[t].at = "trampoline" /\ thread[t].via = k.trampoline

\* Seeded fault: the calls in progress are not asked for.
NoThreadInImage == ~image \/ \A t \in Threads : ~IsInstrumentationAddress(t)

IsCleanupQuiescent ==
  \/ ~image
  \/ /\ ActiveHookCalls = 0
     /\ \A t \in Threads : ~IsInstrumentationAddress(t)

\* Any breakpoint is taken for the requested one once a stop is under way.
HandleBreakpoint ==
  /\ Takes("breakpoint")
  /\ \E inspected \in Outcomes("InspectFails", {"failed"}) :
       LET quiescent == IsCleanupQuiescent /\ (inspected = "ok" \/ ~image)
       IN /\ cleanStop' = (stopBreakRequested /\ quiescent)
          /\ retryCleanStop' = (stopBreakRequested /\ ~quiescent)
          /\ step' = IF cleanStop' THEN "cleaning" ELSE "continuing"
  /\ initialBreakpointSeen' = (initialBreakpointSeen \/ ~stopBreakRequested)
  /\ eventOk' = TRUE
  /\ UNCHANGED <<targetVars, event, memoryVars, imageVars, moduleVars,
                 installedHooks, transportConfigured, debugActive, stopVars>>

\* Other exceptions and events are passed on; at the exit event the trace
\* session is drained.
HandleOther ==
  /\ \E kind \in {"exception", "other", "exit"} : Takes(kind)
  /\ eventOk' = TRUE
  /\ cleanStop' = FALSE
  /\ step' = "continuing"
  /\ UNCHANGED <<targetVars, event, memoryVars, imageVars, moduleVars,
                 installedHooks, flagVars, stopVars, retryCleanStop>>

\* CleanupRemote, newest hook first ...
CleanupHook ==
  /\ step = "cleaning"
  /\ installedHooks # <<>>
  /\ LET k == Last(installedHooks)
     IN \E outcome \in UnhookOutcomes : UnhookFunction(k, outcome)
  /\ installedHooks' = Front(installedHooks)
  /\ UNCHANGED <<targetVars, event, imageVars, moduleVars, flagVars, stopVars,
                 loopVars>>

\* ... then the transport, the trace session and the hook image.
CleanupImage ==
  /\ step = "cleaning"
  /\ installedHooks = <<>>
  /\ image' = FALSE
  /\ ring' = FALSE
  /\ TransportRing' = FALSE
  /\ step' = "continuing"
  /\ UNCHANGED <<targetVars, event, memoryVars, ActiveHookCalls, moduleVars,
                 installedHooks, flagVars, stopVars, next, eventOk, cleanStop,
                 retryCleanStop>>

ContinueEvent ==
  /\ step = "continuing"
  /\ event' = <<>>
  /\ IF event[1].kind = "exit"
     THEN step' = "finished" /\ fate' = "exited"
     ELSE step' = "continued" /\ UNCHANGED fate
  /\ UNCHANGED <<loaded, announced, thread, calls, memoryVars, imageVars,
                 moduleVars, installedHooks, flagVars, stopVars, next, eventOk,
                 cleanStop, retryCleanStop>>

\* Seeded fault: the controller waits for the next event without breaking in.
RetryWithoutBreak ==
  /\ step = "continued"
  /\ retryCleanStop
  /\ retryCleanStop' = FALSE
  /\ step' = "waiting"
  /\ UNCHANGED <<targetVars, event, memoryVars, imageVars, moduleVars,
                 installedHooks, flagVars, stopVars, next, eventOk, cleanStop>>

\* After a stop that was not quiescent: break in again.
RetryBreak ==
  /\ step = "continued"
  /\ retryCleanStop
  /\ DebugBreakProcess
  /\ retryCleanStop' = FALSE
  /\ step' = "waiting"
  /\ UNCHANGED <<targetVars, event, memoryVars, imageVars, moduleVars,
                 installedHooks, flagVars, stopRequested, stopBreakRequested, next,
                 eventOk, cleanStop>>

NextEvent ==
  /\ step = "continued"
  /\ ~retryCleanStop /\ eventOk /\ ~cleanStop
  /\ step' = "waiting"
  /\ UNCHANGED <<targetVars, event, memoryVars, imageVars, moduleVars,
                 installedHooks, flagVars, stopVars, next, eventOk, cleanStop,
                 retryCleanStop>>

\* DebugActiveProcessStop; an event raised since is dropped with the session.
Detach ==
  /\ step = "continued"
  /\ ~eventOk \/ cleanStop
  /\ fate' = "detached"
  /\ event' = <<>>
  /\ debugActive' = FALSE
  /\ step' = "finished"
  /\ UNCHANGED <<loaded, announced, thread, calls, memoryVars, imageVars,
                 moduleVars, installedHooks, transportConfigured,
                 initialBreakpointSeen, stopVars, next, eventOk, cleanStop,
                 retryCleanStop>>

HandleEvent ==
  \/ HandleCreateProcess \/ HandleLoadDll \/ HandleUnloadDll
  \/ HandleBreakpoint \/ HandleOther

LoopStep ==
  \/ RequestBreak \/ HandleEvent \/ TryInstallPendingHook \/ AllHooksTried
  \/ DropHook \/ ForgetModule \/ CleanupHook \/ CleanupImage \/ ContinueEvent \/ RetryBreak \/ NextEvent
  \/ Detach

TargetStep ==
  \/ \E b \in Bases : AnnounceModule(b)
  \/ \E b \in Bases, m \in Modules : LoadModule(b, m)
  \/ \E b \in Bases : UnloadModule(b)
  \/ BreakIn
  \/ \E kind \in OtherEvents : RaiseOther(kind)
  \/ ExitProcess

DebugNext ==
  \/ RequestStop \/ BreakOff \/ LoopStep \/ TargetStep
  \/ \E t \in Threads : ThreadStep(t)

DebugSpec == DebugInit /\ [][DebugNext]_debugVars

\* Every process keeps running: the controller, the break-in thread and the
\* loader's announcements, and each thread of the target, a call of an
\* original function included unless it blocks.  The threads run in the 10 ms
\* the controller sleeps before it breaks in again, however often it does.
DebugFairness ==
  /\ WF_debugVars(LoopStep)
  /\ WF_debugVars(BreakIn \/ \E b \in Bases : AnnounceModule(b))
  /\ \A t \in Threads : SF_debugVars(HookSteps(t))
  /\ "CallBlocks" \in Faults \/ \A t \in Threads : SF_debugVars(ReturnToHandler(t))

FairDebugSpec == DebugSpec /\ DebugFairness

-----------------------------------------------------------------------------
(* Properties *)

Places == {"outside", "entry", "prologue", "jumping", "handler", "guarded",
           "trampoline", "original", "returned", "emitting", "emitted",
           "leaving", "crashed"}

\* A call that has taken the jump to a handler and not yet left the handler.
InHook == {"jumping", "handler", "guarded", "trampoline", "original",
           "returned", "emitting", "emitted", "leaving"}

EventKinds == {"create", "load", "unload", "breakpoint", "exception", "other", "exit"}

HookRecord == [hook : Hooks, address : Addresses, trampoline : Trampolines,
               bytes : Hooks \cup {Original}, source : Bases, target : Bases]

\* Every variable keeps its type.
DebugTypeOK ==
  /\ loaded \in [Bases -> Modules \cup {NoModule}]
  /\ announced \subseteq Bases
  /\ code \in [Addresses -> Hooks \cup {Original}]
  /\ thread \in [Threads -> [at : Places, address : Addresses \cup {Null},
                             hook : Hooks \cup {Null}, via : Trampolines \cup {Null}]]
  /\ calls \in [Threads -> 0..MaxCalls]
  /\ event = <<>> \/ event \in {<<e>> : e \in [kind : EventKinds, base : Bases \cup {Null}]}
  /\ breaks \in 0..MaxBreaks
  /\ fate \in {"debugged", "detached", "exited", "killed"}
  /\ {image, ring, TransportRing} \subseteq BOOLEAN
  /\ ActiveHookCalls \in Nat
  /\ slot \in [Hooks -> Trampolines \cup {Null}]
  /\ trampoline \in [Trampolines ->
                      [address : Addresses, bytes : Hooks \cup {Original}] \cup {Null}]
  /\ modules \in [Bases -> [name : Modules, generation : 1..moduleGeneration] \cup {Null}]
  /\ moduleGeneration \in Nat
  /\ installedHooks \in Seq(HookRecord)
  /\ step \in {"waiting", "installing", "unloading", "cleaning", "continuing",
              "continued", "finished"}
  /\ next \in 1..(Len(HookList) + 1)
  /\ {transportConfigured, initialBreakpointSeen, debugActive, stopRequested,
      stopBreakRequested, eventOk, cleanStop, retryCleanStop} \subseteq BOOLEAN

\* No thread of the target ever executes instrumentation that is not there:
\* the quiescence test in front of a clean stop sees every thread that still
\* has hook code to run or to return to, and hooks come and go with modules
\* without pulling a trampoline from under a call.
NoThreadLost == \A t \in Threads : thread[t].at # "crashed"

\* Whenever the target runs, a patched export leads to instrumentation that
\* is complete: image, ring and bypasses mapped, the transport configured, and
\* a trampoline made from the export's own bytes in the handler's variable.
PatchedMeansReady ==
  event = <<>> => \A a \in Addresses : code[a] # Original =>
    /\ image /\ ring /\ TransportRing /\ transportConfigured
    /\ slot[code[a]] # Null
    /\ trampoline[slot[code[a]]] = [address |-> a, bytes |-> Original]

\* Whenever the target runs, installedHooks_ lists exactly the patched
\* exports, with their modules still mapped, and owns every trampoline.
HooksMatchTarget ==
  event = <<>> =>
    /\ {<<k.address, k.hook>> : k \in InstalledSet}
         = {<<a, code[a]>> : a \in {b \in Addresses : code[b] # Original}}
    /\ {k.trampoline : k \in InstalledSet} = {n \in Trampolines : trampoline[n] # Null}
    /\ \A k \in InstalledSet :
         /\ loaded[k.target] = ModuleOf[k.address[2]]
         /\ loaded[k.source] = ModuleOf[k.hook]

\* Before the target continues from the event of a module it could name, every
\* selected hook that can be resolved is installed, whatever the order in
\* which the modules of a forwarder chain arrived.
HooksInstalledBeforeContinue ==
  (/\ step = "continuing" /\ eventOk /\ transportConfigured
   /\ event[1].kind \in {"create", "load"} /\ modules[event[1].base] # Null)
  => \A h \in Hooks : ResolveHookAddress(h).result = "Resolved" => Installed(h)

\* When a clean stop frees the instrumentation no call is inside a hook, so
\* the trace session it stops is one no thread can still publish to.
CleanStopQuiet ==
  (cleanStop /\ step = "cleaning") =>
    /\ ActiveHookCalls = 0
    /\ \A t \in Threads : thread[t].at \notin InHook

\* When the controller lets the target go after a clean stop or a failed
\* event, no export is patched and no instrumentation is left.
DetachLeavesNothing ==
  (step = "continued" /\ (cleanStop \/ ~eventOk)) =>
    /\ \A a \in Addresses : code[a] = Original
    /\ \A n \in Trampolines : trampoline[n] = Null
    /\ ~image /\ ~ring
    /\ installedHooks = <<>>

\* A target that dies with the controller, because the loop of EventLoop was
\* left before debugActive_ was set, had not been touched: no export patched,
\* nothing mapped. Once anything is installed every way out of the loop detaches.
KilledOnlyUntouched ==
  fate = "killed" =>
    /\ \A a \in Addresses : code[a] = Original
    /\ ~image /\ ~ring
    /\ installedHooks = <<>>

\* A stop request ends the session: it is retried until a break-in finds no call in
\* a hook. That one does is because the calls of the target come to an end, which
\* they do only up to MaxCalls; calls that go on need never leave a gap.
StopDetaches == stopRequested ~> (step = "finished")
=============================================================================
