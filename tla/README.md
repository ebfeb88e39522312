# ApiScope: a TLA+ verification project

ApiScope traces selected API calls of a Windows process. A controller
(`src/src/apiscope`) runs the target under the debugger API, patches the first
bytes of selected exports, and maps an import-free hook image
(`src/src/apiscope-hooks`) into it. Hook handlers run in the target's own threads
and send events through a ring in shared memory; the controller renders them.

This directory holds TLA+ modules of the parts in which threads, processes and
debug events interleave, of the way of an event from the hook to the output, and of
the start of the controller up to a mapped hook image; TLC configurations that check
them on small instances; and TLAPS proofs of every safety property these runs check and find
to hold. Paths in `PROJECT.json` are relative to the directory that contains `src/`.

## Inventory

| Component | State it keeps | Operations | Hard part |
|---|---|---|---|
| Trace ring (`trace_ring.h`, `EmitTraceEvent`, `TryReadRing`) | enqueue and dequeue positions, a sequence per slot, sequence and drop counters, `wakePending` | emit (many threads of another process), read (one thread) | lock-free; copies are not atomic; threads die anywhere; counters wrap |
| Trace session (`trace_session.cpp`) | `eventQueue_`, `readerFinished_`, wake and stop events, statistics, the mapped view | Start, ReaderLoop, WriterLoop, FooterLoop, Stop, Drain | four threads of the controller and the target's; lost wakeups; shutdown order; repeated Stop |
| Debug session (`debug_session.cpp`) | `modules_`, `installedHooks_`, transport and stop flags | one handler per debug event, the stop protocol, roll back | events in any order; the target runs between them; failures half way |
| Hook manager (`hook_manager.cpp`) | the bytes of exports, trampolines, trampoline variables (all in the target) | HookFunction, UnhookFunction, ReleaseUnloadedHook | threads may be inside what is patched or freed |
| Hook call protocol (`api_hook.h`, `hooks/*.cpp`) | `ActiveHookCalls` | guard, call of the original, emission | windows in which a thread is inside a hook and not counted |
| Handle path tracker (`trace_correlator.cpp`) | handle to path table | Observe, Annotate, Evict | events about one handle may arrive out of causal order or be dropped; table limit |
| Event encoding (`trace_protocol.h`, `trace_transport.cpp`, validator in `trace_renderer.cpp`) | a 1 KB TLV record, its timestamp | Initialize, Add*, Emit, validate, annotate | bounded builder against validator; a time read while the kernel writes it |
| Command line (`cli_options.cpp`, `main.cpp`) | options | ParseCommandLine twice, BuildWindowsCommandLine | options in any order; quoting |
| Hook registry (`hook_registry.cpp`) | descriptors of the hook DLL | DiscoverHooks, FindSupportedHook | a bad descriptor behind good ones |
| Image mapper (`process_manager.cpp`) | file, buffer, image in two processes | InjectDll, GetRemoteExport | nineteen early returns, each with its own releases; relocation |
| Rendering, statistics, decoder | counters, text | sequential | none over time |

How they interact: the debug session starts the trace session at the
create-process event, configures the transport when ntdll is registered, installs
hooks as modules arrive, and stops or drains the session at the end. Hook threads
touch the controller only through the ring and the wake event. The controller
touches the target's code only while a debug event is outstanding, when every
thread of the target is stopped.

What makes the parts correct:

- ring: events arrive whole, in claim order, none lost without being counted; a
  thread of the target is never held up;
- tracker: a path added to an event is that of the object the call worked on;
- encoding: what the builder emits the validator accepts, flags tell what is missing,
  and a hook of the repository never loses a field;
- start: a session begins only with options it can use, the target gets the
  arguments typed, and a mapping is complete or leaves nothing;
- trace session: order is kept to the output, no wakeup is lost, a stop returns,
  its summary is complete, and nothing is used after it is released;
- debug session: hooks, records and patched bytes agree; hooks are in place before
  the target continues; instrumentation is freed only when no thread needs it;
  a failed event leaves nothing behind; the target survives; a stop ends.

`PROJECT.json` lists the hazards behind these, each at its line.

## Modules

| Module | Models | Used by |
|---|---|---|
| `TraceRing` | `EmitTraceEvent` and `TryReadRing`, one action per atomic operation | `TraceRingProofs`, `MCTraceRing` |
| `TraceChannel` | the abstract bounded queue: reserve, fill, take, refuse | refined by `TraceRing`, extended by `TraceSession` |
| `TraceSession` | the controller's threads on top of `TraceChannel` | `TraceSessionProofs`, `MCTraceSession` |
| `DebugSession` | the debugger loop, hooks in the target's memory, the target's threads | `DebugSessionProofs`, `MCDebugSession` |
| `HandleTracker` | `HandlePathTracker` against the kernel's use of the handle numbers | `HandleTrackerProofs`, `MCHandleTracker` |
| `TraceEventCodec` | a record from `InitializeTraceEvent` to the output | `TraceEventCodecProofs`, `MCTraceEventCodec` |
| `HookRegistry` | `DiscoverHooks` and module names, as operators | `CommandLine` |
| `CommandLine` | `ParseCommandLine`, `BuildWindowsCommandLine` and the C runtime's reading of a command line, as operators | `Startup` |
| `ImageMapper` | `InjectDll`, one action per call that can fail, and `GetRemoteExport` | `Startup` |
| `Startup` | `wmain` from the command line to the resolved handlers; composes the three above | `StartupProofs`, `MCStartup` |
| `TraceRingProofs`, `TraceSessionProofs`, `DebugSessionProofs`, `HandleTrackerProofs`, `TraceEventCodecProofs`, `StartupProofs` | the theorems about these modules | |
| `NumberLemmas` | facts about remainders and least numbers | five of the proof modules, `FoldLemmas` |
| `FoldLemmas` | the states a fold passes through | instantiated by `StartupProofs` |

`MC*` modules only supply values for the constants of a run. Operators whose
comment starts with *Seeded fault* are not part of any specification: each is the
definition after it with one plausible mistake, and `PROJECT.json` names the
property that finds the mistake.

### TraceRing

Variables carry the names of the fields of `TraceRing`. `slotSequence` and
`slotEvent` are the two halves of a slot. `pc[t]` is where a thread is in
`EmitTraceEvent`: it loads the position (`LoadPosition`), compares the slot's
sequence with it (`CheckSlot`), claims (`ClaimSlot`, the compare-exchange), copies
(`CopyInFirst`, `CopyInSecond`), publishes, and asks for a wakeup. The copies are
two steps each way, so a torn event is a state of the model. `claimed` and
`received` are history variables: the events in claim order, and what
`TryReadRing` returned. 64-bit positions are natural numbers; the 32-bit counters
wrap at `LongModulus`. `ThreadDies` terminates a thread anywhere between two
operations. The hook image and the ring's header are checked by `EmitTraceEvent`
before anything is done; a header that does not match is not a state of the
program and is left out.

### TraceSession

One action per critical section of `ReaderLoop`, `WriterLoop`, `FooterLoop` and the calling
thread's `Stop`; a notify after the unlock is its own step, and a condition variable may
wake spuriously. The ring is the `TraceChannel` it implements, so emission is: reserve or
refuse, publish, request and send the wakeup. `target` says how the session ends. *quiesced*
is a clean stop: no thread is inside a hook and no hook is left (theorem `StopQuiet` of
`DebugSessionProofs` is what entitles the model to it); *halted* leaves every thread
wherever it was, as at process exit or a failed event; *abandoned* is the loop broken off
with hooks in place and threads running. `Drain` has the same body as `Stop`. Rendering is
one step that appends to `rendered`; a malformed event cannot occur in the model.

### DebugSession

`loaded`, `code` and `thread` are the target: what is mapped at each base, what the
first bytes of each export lead to, and where each thread is, from the call of an
export through the jump, the handler, the guard, the trampoline, the original and
the emission back to the caller. A thread that executes something that is no
longer there is `crashed`. `image`, `ring`, `slot` and `trampoline` are the
instrumentation; the two transport bypasses live and die with `ring`. `step` is
where `EventLoop` is. Each debug event has its handler action. The loops take
one step per hook: that of `TryInstallPendingHooks`, that of `CleanupRemote`, and that
of `HandleUnloadDll`, which takes the event, drops the hooks of the module one by one
(`DropHook`), and at last forgets the module (`ForgetModule`). The
resolution of an export follows forwarders through the registered modules as
`ResolveExportAddress` does, to at most `MaxDepth`.

The constant `Faults` switches failures and circumstances on:

| Fault | Meaning |
|---|---|
| `InitFails`, `TransportFails` | a step of `InitializeDebuggee`, or `ConfigureTransport`, fails |
| `HookFails` | `HookFunction` fails with the export unpatched |
| `PatchFails` | `PatchFunction` fails after the jump was written |
| `UnhookFails` | `UnhookFunction` or `ReleaseUnloadedHook` fails at any of its calls |
| `InspectFails` | a thread cannot be inspected by the quiescence test |
| `DebugApiFails` | `DebugBreakProcess`, `WaitForDebugEventEx` or `ContinueDebugEvent` fails |
| `Unnamed` | the name of a module cannot be found |
| `StopsInPrologue` | a thread may be stopped between the first instructions of an export |
| `UnloadsDuringCall` | a forwarding module is unloaded while a call that came through its hook is in progress |
| `CallBlocks` | a call of an original function need not return |
| `CallsGoOn` | threads call exports without end; otherwise `MaxCalls` times each |

Abstractions: at most one debug event is outstanding, as the debugger API delivers them;
modules mapped before an attach are announced before anything else is reported; whether an
export can be patched is a property of the export (`Exports`); a hooked call does not make
another hooked call; failures of the final releases, which only print a message, change
nothing; a failing counter read, snapshot or thread context is `InspectFails` (a snapshot
that cannot be enumerated, which the code takes for an empty one, is left out).
`UnloadModule` never unloads a module whose code a thread is running, since no program
survives that. The mapping of the hook image is one step here that succeeds or fails;
`InjectAllOrNothing` and `ImageComplete` of `Startup` say that nothing lies between the two.

### HandleTracker

`kernel` is what each handle number really stands for, `handlePaths` what the writer's table
makes of the events. A hooked call is three steps: the arguments and the path are recorded
(`BeginOpen`, `BeginClose`), the original function gives out or frees the number
(`OpenObject`, `CloseObject`), and the event is emitted (`EmitAndReturn`). Other threads
come in between, and the kernel reuses numbers at once. `WriteEvent` is one turn of
`WriterLoop`: `Observe`, `Annotate`, `Evict`, render. Ring and queue are one sequence, since
both keep the order of emission (`InOrderDelivery`, `PipelineOrder`). The program is
correctly synchronised: it closes a handle only when its open has returned and no call uses
it. A call that has closed a number and has yet to emit its event uses it no more: the
number may already stand for something else, which the program may close (`InUse`). Paths
are sequences of names and separators, because the joining of a relative path with its
directory is about separators; `Components` are the names without the separators. Two
history variables carry the exceptions the properties name: `tainted`, handles whose open or
close was dropped or that were opened relative to such a one, and `excused`, handles with a
reason to have no entry.

### TraceEventCodec

An event is its size, its flags and its fields; a field is its type, its name and
the size of its value, with the two lengths the validator reads of a preview. The
operators of the builder keep the names of `trace_transport.cpp`; each hook is the
sequence of its Add calls, and a *custom* hook makes any sequence of them, including
repeated and ill-formed names. `Inputs` is what the guarded reads of the target's
memory may give. The time is read in three steps (`ReadHigh1Time`, `ReadLowPart`,
`CompareHigh2Time`) against a kernel that writes the three words of
`KUSER_SHARED_DATA.SystemTime` one by one; the low part wraps at `LowParts`.

### Startup, CommandLine, HookRegistry, ImageMapper

An argument of the command line is an option word, a number, a hook name or a text of
characters; all error messages are one error. `wmain` parses twice, without and with the
hooks of the DLL. The DLL is a record whose parts are looked at by `DiscoverHooks` first and
by `InjectDll` later. `ImageMapper` keeps in `held` what has been acquired and not given
back, and the image cell by cell: cell *k* of the file holds *k*+1, a relocated one *k*+1
plus the distance moved, so a cell that was not copied, was moved twice or was not moved
shows. The check of a relocation target and the end of the export directory are sums of two
DWORDs in the code, which wrap, here at `DwordModulus`; addresses are pointers and do not. A
write that goes outside the local image because of this may end the controller (`mapStep` is
`"crashed"`) or hit other memory of it (the mapping goes on); what it does to that memory is
not followed. `SplitCommandLine` is the rule of the Microsoft C runtime, external to the
repository: it reads the first argument as the name of the program, without escapes, and the
others with the rules for backslashes and quotes. The loops of the code are folds over the
sequence they run through, with the body as the operator folded (`ScanArgument`,
`InspectExport`, `QuoteCharacter`).

## Runs

The runs about threads have two threads of the target, the smallest number for which
they can race. None of the systems has to go on forever (emissions and loads are bounded and
sessions end), so deadlock is not an error in them.

| Run | Expected | Shows |
|---|---|---|
| `ring` | pass | in-order delivery, exclusive slots, counted drops only when full, the inductive invariant, refinement of `TraceChannel`, and that emission always finishes |
| `session_safety` | pass | order through the pipeline, complete summary after a clean stop, ring released last, final summary, with every ending, repeated stops, the footer, failing starts, wakeups and waits, and terminated threads |
| `session_live` | pass | no lost wakeup, events are rendered without needing a later one, `Stop` returns |
| `hooks_launch` | pass | no thread lost, records match memory, hooks installed before the target continues, quiet clean stop |
| `hooks_failures` | pass | a patched export is always ready for calls; a failed event leaves nothing; a target that dies with the controller had not been touched; all under failures of every step but a patch reported as failed after it was written (`PatchFails`) and the removal of a hook (`UnhookFails`), for which the first two are false |
| `hooks_stop` | pass | a stop request ends the session when threads make finitely many hooked calls and these return |
| `handles` | pass | a path added to an event is the right one, no entry outlives its handle, and none is forgotten without one of three reasons |
| `encoding` | pass | what is emitted is valid and printed, flags are set exactly when the builder refused a field or cut a string, the repository's hooks lose none, no torn timestamp |
| `startup` | pass | usable options, hooks all or none, a program's arguments survive quoting, mapping all or nothing; complete, and from no table with a target outside, unless a relocation target wraps in its check; handlers where they belong |
| `exit_drain`, `blocked_stop`, `causal_order` | violation | see Findings |

Bounds. A ring of two slots and two emissions per thread fill the ring, drop, and go through
a second lap with stale positions; `LongModulus` is chosen so that the counters wrap (ring)
or stay below the wrap of `reportedDroppedCount_` (session: `CleanStopComplete` says so). A
queue of one makes reader and writer wait for each other. `MaxStops` is two, as after the
second call of `Stop` nothing is left to change; `MaxEvents` bounds the emissions of all
threads to three, one more than the ring holds. Two handles, a table of one entry and four
calls are enough for an open, a close, a reuse and a use, or for a relative open whose
directory was cleared. `encoding` has the real limits of `trace_protocol.h`; `MaxCustom` of
four fields fills a record to the last byte and goes past it in several ways, and the low
part of the time wraps twice within `MaxTicks`. `startup` takes about 27,600 command lines
(up to three option groups in any order, target arguments of up to three characters out of
the four that quoting distinguishes), a sound DLL and 29 that are wrong or at an edge in one
place each, the preferred address and another, and every call failing. Process ids end at 25
instead of 2^32 - 1, with a number one past the end. Three bases, an executable, ntdll and
one module that comes and goes, four registrations and one direct, one late and one
forwarded export reach reuse of a base, a module mapped twice, and forwarder chains
completed in either order. One call per thread (`MaxCalls`) suffices for the safety
properties about the windows of the guard, because a thread outside a hook is in the same
state before its first and its second call; for `StopDetaches` it does not (see Fairness).
`DwordModulus` is 16 cells instead of 2^32 bytes: more than the image of the sound DLL and
than every sum in it, so that only a damaged file reaches the wrap; one of the 29 has a
target whose remainder is a cell of the image, which is what a block address in the last
page below 2^32 and an offset behind it make. `MaxBreaks` merges break-in threads that have
not reported yet.

Symmetry of threads (and trampolines) is used in the safety runs only.

Fairness. `ring`: each hook thread is scheduled (weak fairness of its own steps); nothing is
assumed of the reader, so the result is that producers never wait for it. `EmitTraceEvent`
is lock-free rather than wait-free: that a thread leaves the loop depends on the other
threads making finitely many emissions meanwhile, which `MaxEmits` provides. `session_live`:
every thread is scheduled; the target need not call anything and nobody need stop the
session. `hooks_stop`: the controller, the break-in thread and the loader's announcements
are scheduled; threads of the target get strong fairness, since they are enabled only
between debug events, and the 10 ms for which the controller sleeps before it breaks in
again (`debug_session.cpp:545`) let them run each time. Fairness does not make a stop
succeed: each break-in tests once, and a thread that is scheduled and whose calls return may
be in another call at every test. `StopDetaches` therefore holds only of threads that make
finitely many hooked calls, which `MaxCalls` (two per thread) provides, as `MaxEmits` does
for `EmitFinishes`. The fault `CallsGoOn` lifts the bound and nothing else, and the property
fails (Findings); `blocked_stop` lets a call block.

## Proofs

TLC checks the properties on small instances; the theorems hold for every value of the
constants the assumptions admit. No theorem needs fairness. The strengthened invariants
were checked by TLC on the configurations of the runs before they were proved;
`RingInv` is still part of the run `ring`.

| Theorem | Says | Under |
|---|---|---|
| *TraceRingProofs* | | |
| `RingInvariant`, `TypeCorrect` | the inductive invariant; types | |
| `DeliversInOrder` | the reader gets what was claimed, in claim order and whole | |
| `SlotsExclusive` | no slot is copied twice at once | |
| `DropsOnlyWhenFull` | an event is dropped only when no slot is free | |
| `EventsAccounted` | sequence numbers are accounted for, modulo the counters' width | |
| `RingImplementsChannel` | the ring implements `TraceChannel` | |
| *TraceSessionProofs* | | |
| `SessionTypeCorrect` | types, limits of batch and queue | |
| `PipelineCorrect` | no event is lost, repeated or overtaken on the way to the output | |
| `RingOutlives` | the ring is unmapped when all threads have left | |
| `SummaryAccounts` | the summary accounts for all sequence numbers, modulo the width | |
| `CleanStop` | the summary is complete and the drops are reported | `BelowWrap` |
| `SummaryIsFinal` | nothing is printed or rendered after the summary | |
| `WakeupNotLost` | the reader does not sleep on an unannounced event | `WakeupsWork` |
| `SessionUsesChannel` | the session is a client of `TraceChannel` | events are payloads |
| *DebugSessionProofs* | | |
| `LoopInvariant`, `DebugTypeCorrect` | the control invariant; types | |
| `HooksInTime` | hooks are in place before the target continues | |
| `KilledUntouched` | a target that dies with the controller was not touched | |
| `MemoryInvariant`, `PatchedReady`, `DetachClean` | records and memory agree; a patched export is ready; a target let go is clean | `WritesSucceed` |
| `RecordsMatch` | the records list exactly the patched exports, unless the loop was broken off | `WritesSucceed` |
| `StopQuiet` | no thread is in a hook when a clean stop frees it | `CallsSpared` |
| `ThreadsKept` | no thread is lost while no event has failed | `CallsSpared` |
| *HandleTrackerProofs* | | |
| `TrackerInvariant`, `TrackerTypeCorrect` | the inductive invariant; types and the limit of the table | |
| `AnnotatedRight` | an added path is that of the object the call worked on | |
| `NothingStale` | no entry outlives its handle | |
| `NothingForgotten` | no entry is missing without one of three reasons | |
| *TraceEventCodecProofs* | | |
| `ClockInvariant`, `TimestampWhole` | no timestamp is torn | |
| `RecordInvariant`, `CodecTypeCorrect` | records are well formed and fit their buffer | |
| `EmittedIsPrinted` | what is emitted is valid and printed | |
| `FlagsAreExact` | the flags are set exactly when the builder refused a field or cut a string | |
| `HookRecordsComplete` | a hook of the repository emits its record with every field in it | `RoomForHooks` |
| *StartupProofs* | | |
| `InjectInvariant`, `MappingAllOrNothing` | a mapping is complete or leaves nothing allocated | |
| `WmainInvariant`, `StartupTypes` | what `wmain` knows at each stage; types | |
| `SessionOptions` | a session is begun with options it can use | |
| `DiscoveredHooks` | all hooks the DLL describes are offered, in order and once, or none | |
| `TargetArguments` | the target's arguments survive quoting and the C runtime | the first is a path |
| `ImageInvariant`, `MappedImage` | a mapped image permits what the linker meant; it holds it, and no relocation target outside was accepted | the second part: `TargetsBelowWrap` |
| `ReachableHandlers` | an installed hook jumps to its handler and keeps its trampoline in its variable | |

### Assumptions

Each module names its assumptions on the constants, and TLC evaluates them in its runs.

- `RingAssumption`: the `static_assert` of `trace_ring.h`, which makes the code's mask the
  remainder. `SessionAssumption`: types; the capacities are at least one.
- `DebugAssumption`: types; the markers for "nothing" are not values; a hook is
  selected once; there are at least as many places for trampolines as hooks, as
  `VirtualAllocEx` does not run out of addresses; the target starts with its executable
  mapped.
- `CodecAssumption`: the limits leave room for a header and two names and the longest
  string is a whole number of characters, as in `trace_protocol.h`.
  `NamesAssumption`: the literals the hooks pass as names are identifiers, and a custom
  hook calls only the Add functions there are. What custom hooks pass as names is
  arbitrary.
- `RoomForHooks`, of one theorem only: the names a hook gives its fields are identifiers
  and differ, and the largest values its calls can record add up to no more than a
  record holds. The provers do not know the length of a string literal; TLC evaluates
  the formula as `LimitsSuffice` in `MCTraceEventCodec`, with all nine hooks and the
  limits of `trace_protocol.h`.
- `TrackerAssumption`: handle numbers are finite in number; a recorded path is not empty
  and has single separators between its names, which is the form of the object names
  the kernel accepts. That paths are whole is the abstraction named under *Not modelled*.
- `MapperAssumption`: null is not an address the target gives out; a DWORD tells at least
  one cell.
- `LinkedFiles`: the DLL is one a linker has made, or damaged in a way that shows. Its
  sections do not overlap; a relocation table that can be followed to its end, and does
  not lead out of the image, lists each pointer once; an exported name has the place the
  linker gave it or an ordinal or offset that leads nowhere. Sizes, offsets, ordinals and
  block lengths are otherwise arbitrary; the checks in `InjectDll` and `GetRemoteExport` are
  there for them, and catch all but a relocation target that wraps (`TargetsBelowWrap`
  below). The assumption is needed: `InjectDll` takes a file with two
  entries for one pointer and moves the pointer twice.
- `StartupAssumption`: the arguments are words, numbers, hook names or texts; the
  controller has a process id; where a descriptor names an exported handler and
  trampoline variable, these are in an executable and in a writable section, as
  `DEFINE_API_HOOK` declares them. `CommandLineAssumption`: there are process ids.

Seven hypotheses appear in the theorems themselves:

- `BelowWrap`: all calls of all threads together stay below 2^32. `SummaryAccounts` is
  the statement without it.
- `WakeupsWork`: `SetEvent` succeeds and no thread is terminated inside `EmitTraceEvent`.
  With either, the reader is not told, and its wait has no time limit.
- *the first is a path* (`IsFileName`, a conjunct of `CommandLineRoundTrip` itself): the first
  argument has no quote and does not end in a backslash. Windows has no file of such a
  name, so `CreateProcessW` starts nothing. The C runtime reads the name without escapes,
  so without the conjunct the statement would be false of targets that do not exist.
- `TargetsBelowWrap` (a condition inside `ImageComplete`): no relocation target of the file
  needs more than a DWORD. For a file with one that does, the cells of the image are not
  promised, only the rights of its sections; the findings say why.
- *events are payloads*: `TraceChannel` is instantiated with the events that are sent.
- `WritesSucceed`: `UnhookFails` and `PatchFails` do not occur. Without it the properties
  are false; the findings below say how.
- `CallsSpared`: `WritesSucceed`, no thread is stopped inside the bytes a hook replaces, and
  no forwarding module is unloaded under a call. Each is a finding below, as is the
  failed event that `ThreadsKept` excepts and the broken-off loop that `RecordsMatch`
  excepts. The run `hooks_launch` has the same exceptions through its constants.

### Why the invariants are what they are

**Ring.** None of the properties is inductive: what the reader receives depends on the
slot contents, these on who may write a slot, and this on the slot sequence. `RingInv`
adds the parts that close the circle. `PositionsInv`: the claimed positions are at
most one lap ahead of the delivered ones. `SlotsInv`: the slot of a claimed position
q holds sequence q or q+1, and q+1 means that the whole event is there; the slot of a
free position q holds q. `WritersInv`: a writing thread owns a claimed, unpublished
position nobody else writes. `ReaderInv`: the reader copies a published one.
`CandidatesInv`: a position read earlier may be stale but not ahead, and a slot seen
free for the current position is still free at the compare-exchange, which is why the
check and the claim need not be one atomic operation. The arithmetic lemmas say that
two positions less than a lap apart have different slots. In the refinement the claim
reserves a place, the store of the slot sequence fills it, the release takes the oldest,
and all other steps stutter. `EventsAccounted` counts the threads between the increment
of the sequence counter and the claim, and those that died there; `RemainderOfSum` lets
counters that wrap still add up.

**Session.** `SessionInv` has a part per question. `MainInv`: how far `Start` and `Stop`
are. `ThreadsInv`: what each thread holds, and who has been joined. `DoneInv`: a reader
that ended because of the stop has left nothing in the ring, and reported all drops.
`QueueInv`: each event is in the ring once, and an unpublished one is in the hands of its
thread. `CountInv`: the events delivered, in the ring, dropped and pending add up to the
sequence numbers given out. `WakeInv` is
separate, as it needs `WakeupsWork`: while the reader waits, a set `wakePending` means
that the event is set or about to be, and a readable event means that `wakePending` is
set or about to be. `SessionUsesChannel` and `RingImplementsChannel` meet in
`TraceChannel`: what the session relies on is what the ring provides.

**Debugger loop.** Three invariants build on each other. `DebugInv` holds whatever
fails: where the loop is with which event (`LoopInv`, `EventInv`), what has been set up
by then (`StartInv`, `CleanedInv`), that `ActiveHookCalls` is at least the number of
threads between the guard's two ends (`GuardInv`), that `modules_` names what the target
has mapped but for the event being handled (`RegistryInv`), and that every hook the pending
loop has passed is installed or cannot be (`InstallInv`). `MemoryInv` relates the records
to the memory: no two share an export or a trampoline, every patched export is recorded,
every record is sound as far as its removal has got, and records are of modules still
mapped, but for the unload in hand. `ThreadInv` relates the threads to both: a thread in
a hook finds what it has still to run through. Its core is `QuiescenceSeesCalls`: a
thread in a hook is either counted or its instruction pointer is where the test looks,
so an affirmative test means that no thread is inside, which is what makes it safe to
free the hooks while all threads are stopped.

**Tracker.** What the writer does with an event depends on calls that happened, or
crossed, before it was emitted. `CallInv` says for every handle number whether the
program, exactly one call, or nobody has it, and what a call under way knows of it;
`crossed` is determined there. `TableInv` speaks of the table as it *will be*: there is
a sequence of tables, one before each queued event and one after the last, each the
result of the writer's turn on the one before, such that each event finds the entry it
needs in its table (`QueueRight`, `RootRight`), every entry that is not excepted is right
in the last one (`EntryRight`), a close evicts what it should (`CloserRight`), and an entry
is missing for a reason only (`EntryKept`). An emission extends the sequence at its end, a
turn of the writer shortens it at its front. The lemmas on paths (`ComponentsOfConcat`,
`JoinRight`, `JoinNames`) say that `Join` puts one separator between a directory and a
relative path, whichever of them brings one along.

**Encoding.** `RecordInv` says after any number of Add calls what the validator will
ask: the size is the header plus the fields and within the buffer, names are identifiers,
no name comes twice, each value has the size its type demands. `CursorEndsAtSize` then
says that the validator's cursor, which adds up the same sizes on the other side of the
ring, ends at the size of the record. `ClockInv` follows the three words: the kernel
writes `High2Time`, `LowPart`, `High1Time` in that order, so when the two high words
agree the low part between them belongs to that high part, whatever wraps in between.
`CompleteInv` follows a hook of the repository through its calls: after the first `n` of
them the record has their `n` names, at most `root_directory` besides, and at most the
sum of what `n` calls can take. So the next name is new, its largest value fits
(`SumsGrow`), and `AddedFits` says that the call then adds what it should and no flag
but that of a cut string.

**Folds.** `FoldLemmas` says that a fold over `n` elements passes through `n + 1` states,
the body leading from each to the next (`FoldTurns`), that these states determine its
result (`FoldDetermined`), and that a fold over two parts in a row continues where the
first ended (`FoldOfConcat`). A loop invariant is then carried from turn to turn like that
of a state machine.

**Start.** `WmainInv` says for each stage where the options come from, that the hooks on
offer are those of the DLL whose image is mapped later, and that handlers are resolved
only from a mapped image. It rests on what the operators return.
`InspectAppends` and `InspectKeeps` follow `DiscoverHooks` over the exports: the hooks so
far are those of the descriptors so far, and the first bad descriptor empties the list for
good; `SortHooksSorts` shows that the sort returns a list of the same hooks in order.
`ScanInv` follows the options: until one fails, what has been set is within its type and
belongs to the command, a value goes to the option it follows, and a format other than the
default was asked for. With `AddHooksKeeps` (a hook selected twice stays once) this gives
`SessionOptionsSound`.

**Quoting.** `QuoteWindowsArgument` counts backslashes and writes them when it knows what
comes behind them; the C runtime counts them and decides when it sees what does. `QuoteInv`
relates the two loops: when the writer has gone through the characters `p`, a runtime that
reads what was written is inside quotes and has read `p` but for the backslashes the
writer still counts, and counts none itself. Before a quote the writer gives 2*n* + 1
backslashes and the runtime takes *n* and the quote; before any other character both have
*n*; before the closing quote the writer gives 2*n* and the runtime takes *n* and the quote
for its own (`QuoteCharacterKeeps`, `QuoteCloses`). `PlainInv` is the same for an argument
that is not quoted and `NameInv` for the program's name. `JoinInv` takes one
argument after the other, and `LineIsRead` states the result for a whole line.

**Mapping.** `InjectInv` lists what is held at each step of `InjectDll`; each of the
nineteen early returns gives back exactly that. `ImageInv` follows the cells: while sections
are copied, a cell is that of the section copied last over it or of the headers (`Copied`);
after the relocation every cell holds what the linker meant at the base, in the local buffer
and after the write in the target; and the sections so far have their rights. The relocation
is two nested folds. `WalkTurns` and `WalkEnds` show that when no turn has failed, the
blocks passed are a table in the sense of `IsTable`, so that `LinkedFiles` applies to it.
For a file with `TargetsBelowWrap`, no write strays, `RelocateEntriesMoves` and
`RelocateBlockMoves` that a turn moves the pointers it lists and no other cell;
`RelocationsMove` puts them together, and each pointer has been moved exactly once.
`RelocationsInside` says that the walk is no shorter than any table the file can be read as,
so no target has gone unchecked. `ReachableHandlers` combines the two: the names the hooks
were discovered by are those read back from the image (`ExportAtPlace`), and the section
they are in has been given the right that it asked for (`SectionRights`).

Inductions over a sequence (a record's fields, the names of a path) cannot cite the
library's induction theorems. `LeastNumber` of `NumberLemmas` takes their place: a
statement that fails for some length fails for a least one, and the step from the length
before it is a contradiction. The recursive definitions involved, `Components` and the
validator's cursor, are recursive functions on an interval, and so is `RecordBytes`.
`FoldLemmas` uses it once for all loops, so that most proofs about a loop are an
induction over its turns and need nothing else.

### Only model-checked

- All liveness: `EmitFinishes`, `EventsRendered`, `StopReturns`, `StopDetaches`. Properties
  under fairness need ENABLED, which is outside the prover's reach. The safety they rest
  on is proved: `WakeupNotLost` for `EventsRendered`, `StopQuiet` and `DetachClean` for
  what a stop leaves.
- That `LimitsSuffice` holds of the real limits, which is about the lengths of string
  literals.
- What the three violation runs show.


## Findings

- **`exit_drain`**: at target exit `ReaderLoop` stops at the first slot that is
  claimed and not published. Events published behind it are neither rendered nor
  counted, where the sequence diagram says "Drain queued events".
- **`blocked_stop`**: the stop is retried without limit while a hooked call is in
  progress, so a call that blocks keeps Ctrl+C from ever detaching.
- **`causal_order`**: a hook emits after its original function has returned. When the
  number of a closed handle is given out again before `NtCloseHandler` emits, the
  open's event comes first, the close is annotated with the new object's path and
  evicts it. `trace_correlator.h` says the events are processed in causal order. The
  run `handles` shows that this is the only event annotated wrongly, and what is
  forgotten because of it.

Further behaviours are visible in the model and excluded from the passing runs. Each
can be reproduced by a change of a configuration:

- A thread of an attached target that is stopped inside the bytes a hook replaces
  resumes in the middle of the jump: hooks are installed without a look at the
  instruction pointers (`hook_manager.cpp:80`). `NoThreadLost` with `Initial <- Attached`
  and `StopsInPrologue` in `Faults`.
- When `PatchFunction` fails after its write, the hook is not recorded and the export
  stays patched after the roll back (`hook_manager.cpp:358`). `DetachLeavesNothing` with
  `PatchFails`.
- A module event that fails runs `CleanupRemote` at once, without the quiescence test,
  under threads that are inside hooks installed earlier (`debug_session.cpp:531`).
  `NoThreadLost` with a hooked symbol of the export kind `"absent"`.
- The unload of a forwarding module frees the trampoline of a call in progress in the
  module it forwards to (`debug_session.cpp:197`). `NoThreadLost` with
  `UnloadsDuringCall`.
- A debugger call that fails before `InitializeDebuggee` ends the loop without a
  detach, with kill-on-exit still on, and so ends the target. `KilledOnlyUntouched`
  says that this happens only before anything was changed in it. The diagram at
  `src/README.md:184` has `DebugSetProcessKillOnExit(FALSE)` before the create-process
  event; the code calls it while it handles that event (`debug_session.cpp:104`), so the
  window is there.
- `UnhookFunction` fails and `CleanupRemote` frees the hook image all the same.
  `NoThreadLost` with `UnhookFails`.
- The stop needs a break-in that finds every thread outside the hooks, and nothing keeps
  new calls out while it is pending (`debug_session.cpp:543`). Threads that go on calling
  hooked exports, all of whose calls return, can be inside at each one, and Ctrl+C never
  detaches, where `src/README.md:97` says that it does. `StopDetaches` with `CallsGoOn` in
  the place of the faults of `hooks_stop`.
- `process_manager.cpp:339` adds the block address and the offset of a relocation as two
  DWORDs and checks the sum, which wraps at 2^32; line 345 adds them to a pointer. A damaged
  table with a block address in the last page below 2^32 is therefore not refused as
  "Invalid relocation target", and the write misses the local image: a file of the run
  `startup` (`Wrapping` in `MCStartup`) takes `Relocate` to `"crashed"`.
  `ImageComplete` leaves such files out (`TargetsBelowWrap`);
  `startup` with a `DwordModulus` of 32, where nothing wraps, refuses the file.

One observation outside the models: the text output of `NtSetValueKey` has two lines
`data_size`, the field of that name and the size line of the preview `data`
(`docs/SCHEMA.md` derives the latter's name from the field's).

## Not modelled

- The wording of text and JSON output, colours, tables and the status line
  (`trace_renderer.cpp` outside the validator, `trace_stats.cpp`): formatting without
  state. That an event is counted and printed once or not at all is in
  `TraceEventCodec`, the counters and the moment of the summary in `TraceSession`.
- Instruction decoding (a wrapper of Zydis) and the bytes of jumps and trampolines:
  only what they lead to.
- Values of fields, and therefore paths cut at the limit of a record: `HandleTracker`
  takes the paths the hooks recorded for whole.
- A wrap of the 32-bit drop counter against `reportedDroppedCount_`, which takes 2^32
  drops.
- An image without a relocation directory that is not mapped at its preferred address:
  the code returns it unmoved, and the DLL the build produces has the directory.

## Plan

Every invariant and action property that a run checks and finds to hold is a theorem.
Open are:

1. The liveness properties, which stay with TLC.
2. Paths cut at the limit of a record, which `HandleTracker` takes for whole: a cut path
   is marked by a flag the tracker could follow.
3. The wrap of the drop counter against `reportedDroppedCount_`, which needs a session of
   2^32 drops.
