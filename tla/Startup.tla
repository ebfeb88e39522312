------------------------------- MODULE Startup -------------------------------
(***************************************************************************)
(* wmain (src/apiscope/main.cpp) from the command line to the point where  *)
(* the hooks can be installed: ParseCommandLine before and after           *)
(* DiscoverHooks, DebugSession::Run or Attach, InjectDll, and the look-up  *)
(* of the handlers in the mapped image (HookFunction).                     *)
(*                                                                         *)
(* A file is known as far as it has been read: DiscoverHooks sees its      *)
(* descriptors, InjectDll later the rest. What is not read any more is     *)
(* dropped from the state.                                                 *)
(***************************************************************************)
EXTENDS CommandLine, ImageMapper

CONSTANTS
  CommandLines,   \* arguments apiscope may be started with
  OwnProcessId    \* GetCurrentProcessId()

\* Descriptors are such, and name handlers that are code and trampolines that
\* are variables.
DescribesHooks(f) ==
  /\ f.exports \in Seq(ExportRecord)
  /\ \A d \in Descriptors(f) : {d.handler, d.trampoline} \subseteq f.procedures =>
       IsPlacedIn(f, d.handler, "execute") /\ IsPlacedIn(f, d.trampoline, "write")

\* A process has an id.
ASSUME StartupAssumption ==
  /\ CommandLines \subseteq Seq(Arguments)
  /\ OwnProcessId \in 1..MaxProcessId
  /\ \A f \in DllFiles : DescribesHooks(f)

VARIABLES
  stage,          \* where wmain is
  argv,           \* its arguments
  described,      \* the descriptors of the DLL
  availableHooks,
  options,
  commandLine,    \* what CreateProcessW gets
  resolved        \* the handlers and trampoline variables found so far

mainVars == <<stage, argv, described, availableHooks, options, commandLine,
              resolved>>
startVars == <<mainVars, mapperVars>>

Description(f) ==
  [loads |-> f.loads, headers |-> f.headers, exports |-> f.exports,
   procedures |-> f.procedures]

NoDescription ==
  [loads |-> FALSE, headers |-> FALSE, exports |-> <<>>, procedures |-> {}]

StartupInit ==
  /\ stage = "started" /\ argv \in CommandLines
  /\ described = NoDescription /\ availableHooks = <<>>
  /\ options = DefaultOptions /\ commandLine = <<>> /\ resolved = <<>>
  /\ MapperInit

Exit == stage' = "exited" /\ argv' = <<>>

\* Help and version are answered without the DLL.
ParseWithoutHooks ==
  /\ stage = "started"
  /\ options' = ParseCommandLine(argv, <<>>)
  /\ \/ options'.mode \in {"Help", "Version"} /\ Exit
     \/ /\ options'.mode \notin {"Help", "Version"}
        /\ stage' = "discovering" /\ UNCHANGED argv
  /\ UNCHANGED <<described, availableHooks, commandLine, resolved, mapperVars>>

Discover ==
  /\ stage = "discovering"
  /\ described' \in {Description(f) : f \in DllFiles}
  /\ availableHooks' = DiscoverHooks(described')
  /\ stage' = "parsing"
  /\ UNCHANGED <<argv, options, commandLine, resolved, mapperVars>>

\* --list-hooks, an error and an attach to apiscope itself end here.
ParseWithHooks ==
  /\ stage = "parsing"
  /\ options' = ParseCommandLine(argv, availableHooks)
  /\ \/ /\ \/ options'.mode \in {"ListHooks", "Error"}
           \/ /\ options'.mode = "Attach"
              /\ options'.targetProcessId = OwnProcessId
        /\ Exit
     \/ /\ \/ options'.mode = "Run"
           \/ /\ options'.mode = "Attach"
              /\ options'.targetProcessId # OwnProcessId
        /\ stage' = "session" /\ argv' = <<>>
  /\ UNCHANGED <<described, availableHooks, commandLine, resolved, mapperVars>>

Run ==
  /\ stage = "session" /\ options.mode = "Run"
  /\ commandLine' = BuildWindowsCommandLine(options.targetArguments)
  /\ \/ MayFail("CreateProcessW") /\ stage' = "exited"
     \/ stage' = "created"
  /\ UNCHANGED <<argv, described, availableHooks, options, resolved, mapperVars>>

\* OpenProcess and DebugActiveProcess fail alike.
Attach ==
  /\ stage = "session" /\ options.mode = "Attach"
  /\ \/ MayFail("DebugActiveProcess") /\ stage' = "exited"
     \/ stage' = "created"
  /\ UNCHANGED <<argv, described, availableHooks, options, commandLine, resolved,
                 mapperVars>>

\* InitializeDebuggee calls InjectDll; only the hooks are read from here on.
BeginInject ==
  /\ stage = "created"
  /\ \E f \in DllFiles : Description(f) = described /\ OpenDll(f)
  /\ stage' = "mapping" /\ commandLine' = <<>>
  /\ options' = [DefaultOptions EXCEPT !.mode = options.mode,
                                       !.hooks = options.hooks]
  /\ UNCHANGED <<argv, described, availableHooks, resolved>>

Inject == stage = "mapping" /\ MapperStep /\ UNCHANGED mainVars

\* GetRemoteImageSize reads the headers back.
CheckMapping ==
  /\ stage = "mapping" /\ mapStep = "returned"
  /\ \/ (base = 0 \/ MayFail("ReadProcessMemory")) /\ stage' = "failed"
     \/ base # 0 /\ stage' = "hooking"
  /\ UNCHANGED <<argv, described, availableHooks, options, commandLine, resolved,
                 mapperVars>>

\* HookFunction looks the handler and the trampoline variable up; a hook that
\* lacks one of them is not installed.
ResolveHandlers(unread) ==
  /\ stage = "hooking" /\ Len(resolved) < Len(options.hooks)
  /\ LET hook == options.hooks[Len(resolved) + 1]
     IN  resolved' = Append(resolved,
           [hook |-> hook,
            handler |-> GetRemoteExport(dll, hook.handlerExport, unread),
            trampoline |-> GetRemoteExport(dll, hook.trampolineExport, unread)])
  /\ UNCHANGED <<stage, argv, described, availableHooks, options, commandLine,
                 mapperVars>>

Resolve ==
  \E unread \in IF MayFail("ReadProcessMemory") /\ stage = "hooking"
                THEN SUBSET described.procedures ELSE {{}} :
    ResolveHandlers(unread)

StartupNext ==
  \/ ParseWithoutHooks \/ Discover \/ ParseWithHooks \/ Run \/ Attach
  \/ BeginInject \/ Inject \/ CheckMapping \/ Resolve

StartupSpec == StartupInit /\ [][StartupNext]_startVars

----------------------------------------------------------------------------
(* Properties *)

\* Types; whatever number was typed, the process id is one (ParseProcessId).
StartupTypeOK ==
  /\ stage \in {"started", "discovering", "parsing", "session", "created",
                "mapping", "failed", "hooking", "exited"}
  /\ options.mode \in {"Run", "Attach", "ListHooks", "Help", "Version", "Error"}
  /\ options.targetProcessId \in 0..MaxProcessId
  /\ mapStep \in MapSteps /\ base \in LoadBases \cup {0}
  /\ held \subseteq {"file", "buffer", "remote", "local"}
  /\ Len(resolved) <= Len(options.hooks)

InSession == stage \in {"session", "created"}

\* A session is only begun with options it can use (main.cpp reads
\* targetArguments[0], the debugger must not attach to itself, and each hook is
\* installed once): a run has a program and no process id, an attach a process
\* id of another process and no program, and a file exists for what is only
\* written to a file.
SessionOptionsSound ==
  InSession =>
    /\ options.mode \in {"Run", "Attach"}
    /\ (options.mode = "Run") <=> (options.targetArguments # <<>>)
    /\ (options.mode = "Attach") <=> (options.targetProcessId # 0)
    /\ options.targetProcessId # OwnProcessId
    /\ options.quiet \/ options.format # "text" => options.outputPath # Empty
    /\ options.hooks # <<>>
    /\ \A i, j \in 1..Len(options.hooks) :
         options.hooks[i].canonicalName = options.hooks[j].canonicalName => i = j

\* DiscoverHooks is all or nothing: hooks are offered, in order, only when every
\* descriptor of the DLL is sound, unique and complete, and then all of them.
HooksAllOrNone ==
  availableHooks # <<>> =>
    /\ {h.canonicalName : h \in ToSet(availableHooks)}
         = {CanonicalName(d.module, d.export) : d \in Descriptors(described)}
    /\ Len(availableHooks) = Cardinality(Descriptors(described))
    /\ \A d \in Descriptors(described) :
         d.sound /\ {d.handler, d.trampoline} \subseteq described.procedures
    /\ \A i \in 2..Len(availableHooks) :
         Precedes(availableHooks[i - 1], availableHooks[i])

\* The target gets the arguments the user typed: the C runtime takes the command
\* line that BuildWindowsCommandLine put together apart into them again. What is
\* not the path of a program has no target that could get them.
CommandLineRoundTrip ==
  /\ stage = "created" /\ options.mode = "Run"
  /\ IsFileName(CharsOf(options.targetArguments[1]))
  => SplitCommandLine(commandLine)
       = [i \in 1..Len(options.targetArguments) |->
            CharsOf(options.targetArguments[i])]

\* A hook that is going to be installed jumps to its own handler, in memory that
\* is mapped as it was linked and may be executed, and keeps its trampoline in a
\* variable of its own that may be written.
HandlersReachable ==
  \A r \in ToSet(resolved) :
    {r.handler, r.trampoline} \cap {NoAddress} = {} =>
      /\ r.handler = dll.places[r.hook.handlerExport]
      /\ r.trampoline = dll.places[r.hook.trampolineExport]
      /\ "execute" \in Rights(protection[r.handler])
      /\ "write" \in Rights(protection[r.trampoline])
=============================================================================
