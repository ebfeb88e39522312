---------------------------- MODULE HandleTracker ----------------------------
(***************************************************************************)
(* HandlePathTracker (src/apiscope/trace_correlator.cpp): the writer       *)
(* thread's table from handle numbers to paths, fed with the events of the *)
(* hooks that open, use and close handles.                                 *)
(*                                                                         *)
(* A hook records the path and the handle arguments before it calls the    *)
(* original function and emits its event after the function has returned.  *)
(* What the kernel does with a handle number and the place of the event in *)
(* the trace are therefore two steps, and steps of other threads come      *)
(* between them. kernel is what the handle numbers really stand for; the   *)
(* properties compare it with what the table makes of the events.          *)
(*                                                                         *)
(* The ring and eventQueue_ keep the order in which events were emitted    *)
(* (InOrderDelivery, PipelineOrder), so they are one sequence here.        *)
(***************************************************************************)
EXTENDS Integers, SequencesExt, FiniteSets

CONSTANTS
  Threads,      \* threads of the target
  Handles,      \* handle numbers
  NoHandle,     \* the null handle
  Sep,          \* the separator of paths
  AbsolutePaths,\* texts of absolute paths, sequences of names and Sep
  RelativePaths,\* texts of paths relative to a directory handle
  NoPath,       \* no "path" field, or no entry of the table
  Free,         \* a handle number that stands for nothing
  MaxTracked,   \* MAX_TRACKED_HANDLES
  MaxCalls,     \* bound: hooked calls made by all threads
  Faults        \* what may go wrong

\* The names of a path, without the separators.
Components(text) ==
  LET names[i \in 0 .. Len(text)] ==
        IF i = 0 THEN <<>>
        ELSE IF text[i] = Sep THEN names[i - 1] ELSE Append(names[i - 1], text[i])
  IN  names[Len(text)]

\* The separators of a path: one between two names, never two.
OneSeparator(text) ==
  \A i \in 1 .. (Len(text) - 1) : (text[i] = Sep) # (text[i + 1] = Sep)

Texts == AbsolutePaths \cup RelativePaths
Letters == {Sep} \cup UNION {ToSet(text) : text \in Texts}

FaultKinds == {"OpenFails", "CloseFails", "Unreadable", "Drops"}

ASSUME TrackerAssumption ==
  /\ NoHandle \notin Handles
  /\ IsFiniteSet(Handles)
  /\ \A text \in Texts : /\ text \in Seq(Letters) /\ text # <<>>
                         /\ OneSeparator(text)
  /\ \A text \in AbsolutePaths : Components(text) # <<>>
  /\ NoPath \notin Seq(Letters) /\ Free \notin Seq(Letters)
  /\ MaxTracked \in Nat \ {0}
  /\ MaxCalls \in Nat
  /\ Faults \subseteq FaultKinds

VARIABLES
  kernel,       \* the names on the path of what each handle number stands for
  known,        \* handles the program holds: opened, and not being closed
  pc,           \* where each thread is in a hooked call
  call,         \* the event each thread is building
  calls,        \* hooked calls made so far
  queue,        \* events emitted and not yet taken by WriterLoop
  handlePaths,  \* handlePaths_, NoPath where there is no entry
  last,         \* the event WriterLoop rendered last
  tainted,      \* history: handles the trace cannot be right about
  excused       \* history: handles with a reason to have no entry

programVars == <<kernel, known, pc, call, calls>>
trackerVars == <<handlePaths, last>>
historyVars == <<tainted, excused>>
trackVars == <<programVars, queue, trackerVars, historyVars>>

\* An event as the tracker sees it. "handle" is the handle field, whichever of
\* file_handle, key_handle and handle the hook has. The code never sees names,
\* what the handle stood for in the kernel when the call was made, and crossed,
\* that the number was given out again before the event of its close was emitted.
NoEvent == [kind |-> "none", handle |-> NoHandle, root |-> NoHandle,
            path |-> NoPath, ok |-> FALSE, names |-> <<>>, crossed |-> FALSE]

TrackerInit ==
  /\ kernel = [h \in Handles |-> Free]
  /\ known = {}
  /\ pc = [t \in Threads |-> "idle"]
  /\ call = [t \in Threads |-> NoEvent]
  /\ calls = 0
  /\ queue = <<>>
  /\ handlePaths = [h \in Handles |-> NoPath]
  /\ last = NoEvent
  /\ tainted = {}
  /\ excused = {}

-----------------------------------------------------------------------------
(* The program and its hooks. The program is correctly synchronised: it    *)
(* uses and closes only handles whose open has returned, and closes one    *)
(* only when no call that uses it is in progress.                          *)

\* A call that uses the object behind h. One that has closed it, and only has
\* to emit its event, uses it no more, and the number may stand for another.
InUse(h) ==
  \E t \in Threads : /\ pc[t] # "idle" /\ h \in {call[t].handle, call[t].root}
                      /\ ~(pc[t] = "emit" /\ call[t].kind = "close" /\ call[t].ok)

Begin(t, next, event) ==
  /\ pc[t] = "idle"
  /\ calls < MaxCalls
  /\ calls' = calls + 1
  /\ pc' = [pc EXCEPT ![t] = next]
  /\ call' = [call EXCEPT ![t] = event]

\* NtCreateFile, NtOpenFile, NtOpenKey up to the call of the original:
\* AddTraceObjectPath records root_directory and the path, or an empty path
\* when the memory cannot be read.
BeginOpen(t, root, text) ==
  /\ \E path \in {text} \cup (IF "Unreadable" \in Faults THEN {<<>>} ELSE {}) :
       Begin(t, "opening",
             [NoEvent EXCEPT !.kind = "open", !.root = root, !.path = path,
                             !.names = (IF root = NoHandle THEN <<>> ELSE kernel[root])
                                       \o Components(text)])
  /\ UNCHANGED <<kernel, known, queue, trackerVars, historyVars>>

\* The threads that have closed h and not yet emitted the event of the close.
Closers(h) ==
  {t \in Threads : /\ pc[t] = "emit" /\ call[t].kind = "close"
                   /\ call[t].ok /\ call[t].handle = h}

\* The kernel gives out any free number; the hook records it and the status.
OpenObject(t) ==
  /\ pc[t] = "opening"
  /\ pc' = [pc EXCEPT ![t] = "emit"]
  /\ \/ \E h \in {g \in Handles : kernel[g] = Free} :
          /\ kernel' = [kernel EXCEPT ![h] = call[t].names]
          /\ call' = [u \in Threads |->
                        IF u = t THEN [call[t] EXCEPT !.handle = h, !.ok = TRUE]
                        ELSE [call[u] EXCEPT !.crossed = @ \/ u \in Closers(h)]]
          /\ excused' = IF Closers(h) # {} \/ call[t].path = <<>>
                        THEN excused \cup {h} ELSE excused \ {h}
          /\ tainted' = IF \/ call[t].root \in tainted
                           \/ call[t].path = <<>> /\ Closers(h) # {}
                        THEN tainted \cup {h} ELSE tainted
     \/ /\ "OpenFails" \in Faults
        /\ UNCHANGED <<kernel, call, historyVars>>
  /\ UNCHANGED <<known, calls, queue, trackerVars>>

\* NtReadFile, NtWriteFile, NtQueryValueKey, NtSetValueKey: the handle is an
\* argument and the call changes no handle.
UseHandle(t, h) ==
  /\ h \in known
  /\ Begin(t, "emit", [NoEvent EXCEPT !.kind = "use", !.handle = h, !.ok = TRUE,
                                      !.names = kernel[h]])
  /\ UNCHANGED <<kernel, known, queue, trackerVars, historyVars>>

BeginClose(t, h) ==
  /\ h \in known
  /\ ~InUse(h)
  /\ known' = known \ {h}
  /\ Begin(t, "closing", [NoEvent EXCEPT !.kind = "close", !.handle = h,
                                         !.names = kernel[h]])
  /\ UNCHANGED <<kernel, queue, trackerVars, historyVars>>

CloseObject(t) ==
  /\ pc[t] = "closing"
  /\ pc' = [pc EXCEPT ![t] = "emit"]
  /\ \/ /\ kernel' = [kernel EXCEPT ![call[t].handle] = Free]
        /\ call' = [call EXCEPT ![t].ok = TRUE]
     \/ "CloseFails" \in Faults /\ UNCHANGED <<kernel, call>>
  /\ UNCHANGED <<known, calls, queue, trackerVars, historyVars>>

\* EmitTraceEvent and the return to the program. A full ring drops the event.
EmitAndReturn(t) ==
  LET e == call[t]
      opened == e.kind = "open" /\ e.ok
      stillOpen == e.kind = "close" /\ ~e.ok
  IN /\ pc[t] = "emit"
     /\ pc' = [pc EXCEPT ![t] = "idle"]
     /\ call' = [call EXCEPT ![t] = NoEvent]
     /\ known' = IF opened \/ stillOpen THEN known \cup {e.handle} ELSE known
     /\ \/ queue' = Append(queue, e) /\ UNCHANGED tainted
        \/ /\ "Drops" \in Faults
           /\ tainted' = IF e.kind = "use" \/ ~e.ok THEN tainted
                         ELSE tainted \cup {e.handle}
           /\ UNCHANGED queue
     /\ UNCHANGED <<kernel, calls, trackerVars, excused>>

-----------------------------------------------------------------------------
(* WriterLoop: Observe, Annotate, Evict, RenderEvent for each event.       *)

\* A relative path resolved against its directory with exactly one separator.
Join(base, path) ==
  LET baseSep == base # <<>> /\ Last(base) = Sep
      relSep == path # <<>> /\ Head(path) = Sep
  IN CASE baseSep /\ relSep   -> base \o Tail(path)
       [] ~baseSep /\ ~relSep -> base \o <<Sep>> \o path
       [] OTHER               -> base \o path

Tracked(paths) == {h \in Handles : paths[h] # NoPath}

Observes(event) ==
  /\ event.path \notin {NoPath, <<>>}
  /\ event.handle # NoHandle
  /\ event.ok

ResolvedPath(paths, event) ==
  IF event.root # NoHandle /\ event.root \in Tracked(paths)
  THEN Join(paths[event.root], event.path)
  ELSE event.path

\* The table reached its limit: it is cleared before the entry is made, also
\* when the entry would only replace another.
Clears(paths, event) ==
  Observes(event) /\ Cardinality(Tracked(paths)) >= MaxTracked

\* Seeded fault: the limit is tested too late.
ObserveOneTooMany(paths, event) ==
  IF ~Observes(event) THEN paths
  ELSE LET room == IF Cardinality(Tracked(paths)) > MaxTracked
                   THEN [h \in Handles |-> NoPath] ELSE paths
       IN [room EXCEPT ![event.handle] = ResolvedPath(paths, event)]

\* Seeded fault: emplace, which keeps the entry of a handle that has one.
ObserveEmplace(paths, event) ==
  IF ~Observes(event) \/ event.handle \in Tracked(paths) THEN paths
  ELSE LET room == IF Clears(paths, event) THEN [h \in Handles |-> NoPath]
                                           ELSE paths
       IN [room EXCEPT ![event.handle] = ResolvedPath(paths, event)]

Observe(paths, event) ==
  IF ~Observes(event) THEN paths
  ELSE LET room == IF Clears(paths, event) THEN [h \in Handles |-> NoPath]
                                           ELSE paths
       IN [room EXCEPT ![event.handle] = ResolvedPath(paths, event)]

\* Only an event without a path field gets one.
Annotate(paths, event) ==
  IF event.path = NoPath /\ event.handle # NoHandle
  THEN [event EXCEPT !.path = paths[event.handle]] ELSE event

\* Seeded fault: a close that failed evicts the path.
EvictAlways(paths, event) ==
  IF event.kind = "close" THEN [paths EXCEPT ![event.handle] = NoPath] ELSE paths

\* Seeded fault: nothing is evicted.
EvictNever(paths, event) == paths

\* The field "handle" marks the event of NtClose.
Evict(paths, event) ==
  IF event.kind = "close" /\ event.ok
  THEN [paths EXCEPT ![event.handle] = NoPath] ELSE paths

WriteEvent ==
  /\ queue # <<>>
  /\ LET event == Head(queue)
         observed == Observe(handlePaths, event)
     IN /\ last' = Annotate(observed, event)
        /\ handlePaths' = Evict(observed, event)
        /\ excused' = IF Clears(handlePaths, event)
                        THEN excused \cup (Tracked(handlePaths) \ {event.handle})
                        ELSE excused
  /\ queue' = Tail(queue)
  /\ UNCHANGED <<programVars, tainted>>

-----------------------------------------------------------------------------
ProgramStep(t) ==
  \/ \E text \in AbsolutePaths : BeginOpen(t, NoHandle, text)
  \/ \E root \in known, text \in RelativePaths : BeginOpen(t, root, text)
  \/ OpenObject(t)
  \/ \E h \in known : UseHandle(t, h) \/ BeginClose(t, h)
  \/ CloseObject(t)
  \/ EmitAndReturn(t)

TrackerNext == WriteEvent \/ \E t \in Threads : ProgramStep(t)

TrackerSpec == TrackerInit /\ [][TrackerNext]_trackVars

-----------------------------------------------------------------------------
(* Properties.                                                             *)

\* text is the path of what names stands for, or its last part when the
\* directory a relative path starts from was not known.
Names(text, names) ==
  /\ IsSuffix(Components(text), names)
  /\ OneSeparator(text)

\* Types, and the limit Observe puts on the table.
TrackerTypeOK ==
  /\ \A h \in Handles : kernel[h] = Free \/ Len(kernel[h]) > 0
  /\ known \subseteq {h \in Handles : kernel[h] # Free}
  /\ pc \in [Threads -> {"idle", "opening", "closing", "emit"}]
  /\ calls \in 0 .. MaxCalls
  /\ tainted \subseteq Handles /\ excused \subseteq Handles
  /\ Cardinality(Tracked(handlePaths)) <= MaxTracked

Annotated == last.kind \in {"use", "close"} /\ last.path # NoPath

\* The path WriterLoop adds to an event (Annotate) is the path of the object the
\* call worked on, however calls of other threads crossed with it, the number
\* was reused, or the table was cleared; only the event of a close that was
\* itself crossed is excepted. Lost events spoil no handles but those they were
\* about and those opened relative to them.
AnnotationsCorrect ==
  Annotated /\ ~last.crossed /\ last.handle \notin tainted
    => Names(last.path, last.names)

\* The event of NtClose is annotated with the path that was released.
ClosesNameReleasedPath ==
  Annotated /\ last.kind = "close" => Names(last.path, last.names)

Quiet == queue = <<>> /\ \A t \in Threads : pc[t] = "idle"

\* Once the writer has caught up no entry outlives its handle: Evict has
\* removed the path of every handle that was closed.
NoStaleEntry ==
  Quiet => \A h \in Tracked(handlePaths) \ tainted :
             kernel[h] # Free /\ Names(handlePaths[h], kernel[h])

\* A path is missing for three reasons only: it could not be read, the table
\* was cleared at its limit, or the event of the close that freed the number came
\* after the number had been given out again, so that Evict removed the entry of
\* its new owner. Events in causal order would leave the first two.
ForgottenForAReason ==
  Quiet => \A h \in known \ (tainted \cup excused) : handlePaths[h] # NoPath
=============================================================================
