------------------------- MODULE DebugSessionProofs -------------------------
(***************************************************************************)
(* Theorems about the debugger loop and the hooks in the target, for any   *)
(* number of threads, modules, exports and hooks, with proofs checked by   *)
(* TLAPS.                                                                  *)
(*                                                                         *)
(* Three invariants build on each other.  LoopInvariant holds whatever     *)
(* fails: it says where the loop can be with which event, what has been    *)
(* set up by then, and that ActiveHookCalls counts the calls it should.    *)
(* MemoryInvariant relates the hook records to the target's memory; it     *)
(* needs UnhookFunction and PatchFunction to do what they are asked to.    *)
(* ThreadInvariant relates the threads to both, as long as no module event *)
(* has failed.                                                             *)
(***************************************************************************)
EXTENDS DebugSession, FiniteSetTheorems, SequenceTheorems, TLAPS

-----------------------------------------------------------------------------
(* The parts of the control invariant *)

\* A thread has the operands of the place it is at.
HasAddress == {"entry", "prologue"} \cup InHook

PlacesInv ==
  \A t \in Threads :
    /\ thread[t].at \in HasAddress => thread[t].address \in Addresses
    /\ thread[t].at \in InHook => thread[t].hook \in Hooks
    /\ thread[t].at = "trampoline" => thread[t].via \in Trampolines
    /\ thread[t].at \notin HasAddress => thread[t] \in {Outside, Crashed}

Pending(kinds) == event # <<>> /\ event[1].kind \in kinds
PendingAt(kinds, b) == Pending(kinds) /\ event[1].base = b

\* The create event has been handled, or is being handled.
Created ==
  ExeBase \in announced /\ ~(step = "waiting" /\ Pending({"create"}))

\* The outstanding event speaks of a module as it is mapped now, and the
\* executable is announced before anything is handled.
EventInv ==
  /\ loaded[ExeBase] # NoModule
  /\ \A b \in announced : loaded[b] # NoModule
  /\ Pending({"create"}) => event[1].base = ExeBase
  /\ Pending({"create", "load"}) =>
       /\ event[1].base \in Bases
       /\ loaded[event[1].base] # NoModule
       /\ event[1].base \in announced
  /\ Pending({"unload"}) => event[1].base \in Bases \ announced
  /\ step \in {"waiting", "finished"} \/ ExeBase \in announced
  /\ Pending({"create"}) => step \notin {"continued", "finished"}
  /\ fate = "debugged" <=> step # "finished"
  /\ step = "finished" => event = <<>>
  /\ ExeBase \notin announced => event = <<>>

\* Where the loop may be with which event and which flags.
LoopInv ==
  /\ step \in {"installing", "unloading", "cleaning", "continuing"} => event # <<>>
  /\ step = "installing" =>
       Pending({"create", "load"}) /\ eventOk /\ transportConfigured /\ ~cleanStop
  /\ step = "unloading" => Pending({"unload"}) /\ eventOk /\ ~cleanStop
  /\ step = "cleaning" =>
       (Pending({"breakpoint"}) /\ cleanStop) \/ (Pending({"create", "load"}) /\ ~eventOk)
  /\ step = "waiting" => eventOk /\ ~cleanStop /\ ~retryCleanStop
  /\ retryCleanStop =>
       eventOk /\ ~cleanStop /\ step \in {"continuing", "continued", "finished"}
  /\ cleanStop => eventOk

\* Whoever is about to detach has been through CleanupRemote.
CleanedInv ==
  (step \in {"continuing", "continued"} /\ (cleanStop \/ ~eventOk)) =>
    installedHooks = <<>> /\ ~image /\ ~ring

Untouched ==
  /\ \A a \in Addresses : code[a] = Original
  /\ ~image /\ ~ring
  /\ installedHooks = <<>>

Pristine ==
  /\ Untouched
  /\ ~TransportRing /\ ~debugActive /\ ~transportConfigured
  /\ \A t \in Threads : thread[t].at \notin InHook
  /\ \A n \in Trampolines : trampoline[n] = Null
  /\ \A b \in Bases : modules[b] = Null

\* Nothing is there before InitializeDebuggee, everything after it, and
\* debugActive_ is set as soon as there is anything to undo.
StartInv ==
  /\ fate = "debugged" =>
       /\ ~Created => Pristine
       /\ (Created /\ eventOk) => debugActive
       /\ (Created /\ eventOk /\ ~cleanStop) => image /\ ring /\ TransportRing
  /\ fate = "killed" \/ (fate = "debugged" /\ ~debugActive) => Untouched

\* The calls ActiveHookCalls is meant to count.
GuardedPlaces ==
  {"guarded", "trampoline", "original", "returned", "emitting", "emitted"}

Guarded == {t \in Threads : thread[t].at \in GuardedPlaces}

\* The count is never below the calls in progress.  It may be above: a thread
\* that is lost inside a hook is not counted down.
GuardInv ==
  image => IsFiniteSet(Guarded) /\ ActiveHookCalls >= Cardinality(Guarded)

\* modules_ has no entry for a module whose load is still to be handled, and
\* its names are those of what is mapped until the unload is reported.
RegistryInv ==
  fate = "debugged" => \A b \in Bases : modules[b] # Null =>
    /\ b \in announced \/ PendingAt({"unload"}, b)
    /\ ~(PendingAt({"create", "load"}, b) /\ step \in {"waiting", "continued"})
    /\ loaded[b] = modules[b].name \/ PendingAt({"unload"}, b)
    /\ ~(PendingAt({"unload"}, b) /\ step = "continuing")

\* TryInstallPendingHooks leaves nothing behind that can be resolved.
InstallInv ==
  step = "installing" =>
    \A i \in 1..(next - 1) :
      ResolveHookAddress(HookList[i]).result = "Resolved" => Installed(HookList[i])

\* Hooks are installed under a complete instrumentation only, and go first.
HooksNeedImage ==
  installedHooks # <<>> => image /\ ring /\ TransportRing /\ transportConfigured

-----------------------------------------------------------------------------
(* Lemmas about the operators of DebugSession *)

\* Resolution depends on the registered modules only.
LEMMA ResolveFrame ==
  ASSUME UNCHANGED modules
  PROVE \A h : ResolveHookAddress(h)' = ResolveHookAddress(h)
BY DEF ResolveHookAddress, ResolveAt, Forwarded, FindModule, Registered

\* What a resolved hook refers to: newest modules of the two names, and an
\* address in the second of them.
LEMMA ResolveSound ==
  ASSUME NEW h, NEW found, found = ResolveHookAddress(h), found.result = "Resolved"
  PROVE /\ found.address \in Addresses
        /\ found.source \in FindModule(ModuleOf[h])
        /\ found.target = found.address[1]
        /\ found.target \in FindModule(ModuleOf[found.address[2]])
<1> DEFINE chain == Forwarded(h)
           sources == FindModule(ModuleOf[h])
           last == {d \in 0..MaxDepth :
                      /\ chain[d] # Null
                      /\ \A c \in 0..(d - 1) : ResolveAt(chain, c) = "Forward"
                      /\ ResolveAt(chain, d) # "Forward"}
           places == {a \in Addresses :
                       \E d \in last : /\ ResolveAt(chain, d) = "Resolved"
                                       /\ chain[d] = a[2]
                                       /\ a[1] \in FindModule(ModuleOf[a[2]])}
           address == CHOOSE a \in places : TRUE
           source == CHOOSE b \in sources : TRUE
<1>1. /\ sources # {} /\ places # {}
      /\ found = [result |-> "Resolved", address |-> address,
                  source |-> source, target |-> address[1]]
  <2> DEFINE failed == IF sources # {} /\ \E d \in last : ResolveAt(chain, d) = "Error"
                       THEN "Error" ELSE "Pending"
  <2>1. found = IF sources # {} /\ places # {}
                THEN [result |-> "Resolved", address |-> address,
                      source |-> source, target |-> address[1]]
                ELSE [result |-> failed,
                      address |-> Null, source |-> Null, target |-> Null]
    BY DEF ResolveHookAddress
  <2>2. failed # "Resolved"
    OBVIOUS
  <2>. HIDE DEF failed, address, source, sources, places
  <2>. QED BY <2>1, <2>2
<1>2. address \in places /\ source \in sources
  BY <1>1
<1>3. address \in Addresses /\ address[1] \in FindModule(ModuleOf[address[2]])
  BY <1>2
<1>. HIDE DEF address, source
<1>. QED BY <1>1, <1>2, <1>3

\* A record taken out of a sequence without duplicates is out of its set.
LEMMA RemoveDistinct ==
  ASSUME NEW S, NEW s \in Seq(S), NEW i \in 1..Len(s),
         \A m, n \in 1..Len(s) : s[m] = s[n] => m = n
  PROVE /\ RemoveAt(s, i) \in Seq(S)
        /\ Len(RemoveAt(s, i)) = Len(s) - 1
        /\ \A m \in 1..(Len(s) - 1) :
             RemoveAt(s, i)[m] = IF m < i THEN s[m] ELSE s[m + 1]
        /\ ToSet(RemoveAt(s, i)) = ToSet(s) \ {s[i]}
<1> DEFINE u == SubSeq(s, 1, i - 1)
           v == SubSeq(s, i + 1, Len(s))
<1>1. /\ u \in Seq(S) /\ Len(u) = i - 1
      /\ \A m \in 1..(i - 1) : u[m] = s[m]
  OBVIOUS
<1>2. /\ v \in Seq(S) /\ Len(v) = Len(s) - i
      /\ \A m \in 1..(Len(s) - i) : v[m] = s[i + m]
  OBVIOUS
<1> DEFINE r == u \o v
<1>3. RemoveAt(s, i) = r
  BY DEF RemoveAt
<1>. HIDE DEF u, v
<1>4. /\ r \in Seq(S) /\ Len(r) = Len(u) + Len(v)
      /\ \A m \in 1..(Len(u) + Len(v)) :
           r[m] = IF m <= Len(u) THEN u[m] ELSE v[m - Len(u)]
  <2>1. u \in Seq(S) /\ v \in Seq(S)
    BY <1>1, <1>2
  <2>. QED BY ONLY <2>1
<1>. HIDE DEF r
<1>5. Len(s) \in Nat /\ i \in Nat /\ Len(r) = Len(s) - 1
  BY <1>1, <1>2, <1>4
<1>6. \A m \in 1..(Len(s) - 1) : r[m] = IF m < i THEN s[m] ELSE s[m + 1]
  <2>. TAKE m \in 1..(Len(s) - 1)
  <2>1. CASE m < i
    <3>1. m \in 1..(i - 1) /\ m \in 1..(Len(u) + Len(v)) /\ m <= Len(u)
      BY <2>1, <1>1, <1>2, <1>5
    <3>. QED BY <3>1, <2>1, <1>1, <1>4
  <2>2. CASE m >= i
    <3>1. m - Len(u) \in 1..(Len(s) - i) /\ i + (m - Len(u)) = m + 1
      BY <2>2, <1>1, <1>5
    <3>2. r[m] = v[m - Len(u)]
      <4>1. m \in 1..(Len(u) + Len(v)) /\ ~(m <= Len(u))
        BY <2>2, <1>1, <1>2, <1>5
      <4>. QED BY <4>1, <1>4
    <3>3. v[m - Len(u)] = s[i + (m - Len(u))]
      BY <3>1, <1>2
    <3>. QED BY <2>2, <3>1, <3>2, <3>3
  <2>. QED BY <2>1, <2>2, <1>5
<1>7. DOMAIN r = 1..Len(r) /\ DOMAIN s = 1..Len(s)
  BY <1>4
<1>8. /\ ToSet(r) = {r[m] : m \in 1..Len(r)}
      /\ ToSet(s) = {s[m] : m \in 1..Len(s)}
  BY <1>7 DEF ToSet
<1>9. ToSet(r) = ToSet(s) \ {s[i]}
  <2>1. \A m \in 1..Len(r) : r[m] \in ToSet(s) /\ r[m] # s[i]
    <3>. TAKE m \in 1..Len(r)
    <3>1. CASE m < i
      BY <3>1, <1>5, <1>6, <1>8
    <3>2. CASE m >= i
      BY <3>2, <1>5, <1>6, <1>8
    <3>. QED BY <3>1, <3>2, <1>5
  <2>2. \A n \in 1..Len(s) : n # i => s[n] \in ToSet(r)
    <3>. TAKE n \in 1..Len(s)
    <3>1. CASE n < i
      BY <3>1, <1>5, <1>6, <1>8
    <3>2. CASE n > i
      <4>1. n - 1 \in 1..Len(r) /\ r[n - 1] = s[n]
        BY <3>2, <1>5, <1>6
      <4>. QED BY <4>1, <1>8
    <3>. QED BY <3>1, <3>2, <1>5
  <2>. QED BY <2>1, <2>2, <1>8
<1>. QED BY <1>3, <1>4, <1>5, <1>6, <1>9

\* CleanupHook takes away the last record, which is the same thing.
LEMMA FrontIsRemoveAt ==
  ASSUME NEW S, NEW s \in Seq(S), s # <<>>
  PROVE Len(s) \in 1..Len(s) /\ Front(s) = RemoveAt(s, Len(s)) /\ Last(s) = s[Len(s)]
<1>1. Len(s) \in 1..Len(s)
  OBVIOUS
<1>2. SubSeq(s, Len(s) + 1, Len(s)) = <<>>
  OBVIOUS
<1>3. SubSeq(s, 1, Len(s) - 1) \in Seq(S)
  OBVIOUS
<1>4. SubSeq(s, 1, Len(s) - 1) \o <<>> = SubSeq(s, 1, Len(s) - 1)
  BY ONLY <1>3
<1>. QED BY <1>1, <1>2, <1>4 DEF Front, Last, RemoveAt

\* A record added to a sequence.
LEMMA AppendSet ==
  ASSUME NEW S, NEW s \in Seq(S), NEW e \in S
  PROVE /\ Append(s, e) \in Seq(S)
        /\ Len(Append(s, e)) = Len(s) + 1
        /\ \A m \in 1..Len(s) : Append(s, e)[m] = s[m]
        /\ Append(s, e)[Len(s) + 1] = e
        /\ ToSet(Append(s, e)) = ToSet(s) \cup {e}
<1>1. /\ Append(s, e) \in Seq(S) /\ Len(Append(s, e)) = Len(s) + 1 /\ Len(s) \in Nat
      /\ \A m \in 1..Len(s) : Append(s, e)[m] = s[m]
      /\ Append(s, e)[Len(s) + 1] = e
  OBVIOUS
<1>2. DOMAIN s = 1..Len(s) /\ DOMAIN Append(s, e) = 1..(Len(s) + 1)
  BY <1>1
<1>3. ToSet(Append(s, e)) = {Append(s, e)[m] : m \in 1..(Len(s) + 1)}
      /\ ToSet(s) = {s[m] : m \in 1..Len(s)}
  BY <1>2 DEF ToSet
<1>4. \A m \in 1..(Len(s) + 1) : m \in 1..Len(s) \/ m = Len(s) + 1
  BY <1>1
<1>5. \A m \in 1..Len(s) : m \in 1..(Len(s) + 1)
  BY <1>1
<1>6. Len(s) + 1 \in 1..(Len(s) + 1)
  BY <1>1
<1>. QED BY <1>1, <1>3, <1>4, <1>5, <1>6
-----------------------------------------------------------------------------
(* Types *)

ThreadRecord == [at : Places, address : Addresses \cup {Null},
                 hook : Hooks \cup {Null}, via : Trampolines \cup {Null}]

ThreadType == thread \in [Threads -> ThreadRecord]
CodeType == code \in [Addresses -> Hooks \cup {Original}]
SlotType == slot \in [Hooks -> Trampolines \cup {Null}]
TrampolineType ==
  trampoline \in [Trampolines ->
                    [address : Addresses, bytes : Hooks \cup {Original}] \cup {Null}]
ModulesType ==
  modules \in [Bases -> [name : Modules, generation : 1..moduleGeneration] \cup {Null}]
LoadedType == loaded \in [Bases -> Modules \cup {NoModule}]
CallsType == calls \in [Threads -> 0..MaxCalls]
EventType ==
  event = <<>> \/ event \in {<<e>> : e \in [kind : EventKinds, base : Bases \cup {Null}]}

\* What the resting places of a thread have in common.
RestType(r) ==
  /\ r.at \in HasAddress => r.address \in Addresses
  /\ r.at \in InHook => r.hook \in Hooks
  /\ r.at = "trampoline" => r.via \in Trampolines
  /\ r.at \notin HasAddress => r \in {Outside, Crashed}

LEMMA RestTypes ==
  /\ Outside \in ThreadRecord /\ RestType(Outside)
  /\ Crashed \in ThreadRecord /\ RestType(Crashed)
BY DEF Outside, Crashed, ThreadRecord, RestType, HasAddress, InHook, Places

LEMMA HooksAreSymbols ==
  /\ Hooks \subseteq Symbols
  /\ \A i \in 1..Len(HookList) : HookList[i] \in Hooks
  /\ Null \notin Hooks /\ Original \notin Hooks
BY DebugAssumption DEF Hooks

\* A step of a thread moves that thread only, to a place with the operands it
\* needs.
LEMMA ThreadTypes ==
  ASSUME DebugTypeOK, PlacesInv, NEW t \in Threads, ThreadStep(t)
  PROVE ThreadType' /\ PlacesInv' /\ CallsType'
<1>1. /\ thread \in [Threads -> ThreadRecord]
      /\ \A u \in Threads : RestType(thread[u])
      /\ calls \in [Threads -> 0..MaxCalls]
  BY DEF DebugTypeOK, PlacesInv, RestType, ThreadRecord
<1>2. SUFFICES /\ \E r \in ThreadRecord : RestType(r) /\ thread' = [thread EXCEPT ![t] = r]
               /\ CallsType'
  BY <1>1, RestTypes DEF ThreadType, PlacesInv, RestType
<1>3. ASSUME NEW a \in Addresses, CallExport(t, a)
      PROVE  /\ \E r \in ThreadRecord : RestType(r) /\ thread' = [thread EXCEPT ![t] = r]
             /\ CallsType'
  <2> DEFINE r == [Outside EXCEPT !.at = "entry", !.address = a]
  <2>1. r \in ThreadRecord /\ RestType(r)
    BY DEF Outside, ThreadRecord, RestType, HasAddress, InHook, Places
  <2>2. thread' = [thread EXCEPT ![t] = r]
    BY <1>3 DEF CallExport
  <2>3. CallsType'
    BY <1>1, <1>3, DebugAssumption DEF CallExport, CallsType
  <2>. QED BY <2>1, <2>2, <2>3
<1>4. ASSUME NEW possible, NEW then \in ThreadRecord, RestType(then),
             Executes(t, possible, then)
      PROVE  \E r \in ThreadRecord : RestType(r) /\ thread' = [thread EXCEPT ![t] = r]
  BY <1>4, RestTypes DEF Executes
<1>5. ASSUME NEW from \in InHook, NEW to \in InHook \ {"trampoline"}, NEW possible,
             Moves(t, from, possible, to)
      PROVE  \E r \in ThreadRecord : RestType(r) /\ thread' = [thread EXCEPT ![t] = r]
  <2>1. /\ [thread[t] EXCEPT !.at = to] \in ThreadRecord
        /\ RestType([thread[t] EXCEPT !.at = to])
    BY <1>1, <1>5 DEF Moves, ThreadRecord, RestType, HasAddress, InHook, Places
  <2>. QED BY <1>4, <1>5, <2>1 DEF Moves
<1>6. calls' = calls => CallsType'
  BY <1>1 DEF CallsType
<1>7. CASE EnterOriginal(t)
  <2>1. thread[t].address \in Addresses
    BY <1>1, <1>7 DEF EnterOriginal, RestType, HasAddress
  <2>2. /\ [thread[t] EXCEPT !.at = "prologue"] \in ThreadRecord
        /\ RestType([thread[t] EXCEPT !.at = "prologue"])
    BY <1>1, <2>1 DEF ThreadRecord, RestType, HasAddress, InHook, Places
  <2>. QED BY <1>6, <1>7, <2>2, RestTypes DEF EnterOriginal
<1>8. CASE LeavePrologue(t)
  BY <1>4, <1>6, <1>8, RestTypes DEF LeavePrologue
<1>9. CASE EnterPatch(t)
  <2> DEFINE r == [thread[t] EXCEPT !.at = "jumping", !.hook = code[thread[t].address]]
  <2>1. thread[t].address \in Addresses
    BY <1>1, <1>9 DEF EnterPatch, RestType, HasAddress
  <2>2. code[thread[t].address] \in Hooks
    BY <1>9, <2>1 DEF EnterPatch, DebugTypeOK
  <2>3. r \in ThreadRecord /\ RestType(r)
    BY <1>1, <2>1, <2>2 DEF ThreadRecord, RestType, HasAddress, InHook, Places
  <2>4. thread' = [thread EXCEPT ![t] = r]
    BY <1>1, <1>9 DEF EnterPatch
  <2>. QED BY <1>6, <1>9, <2>3, <2>4 DEF EnterPatch
<1>10. CASE JumpToHandler(t)
  BY <1>5, <1>6, <1>10 DEF JumpToHandler, Moves, InHook
<1>11. CASE EnterGuard(t)
  <2>1. /\ [thread[t] EXCEPT !.at = "guarded"] \in ThreadRecord
        /\ RestType([thread[t] EXCEPT !.at = "guarded"])
    BY <1>1, <1>11 DEF EnterGuard, ThreadRecord, RestType, HasAddress, InHook, Places
  <2>. QED BY <1>4, <1>6, <1>11, <2>1 DEF EnterGuard
<1>12. CASE CallOriginal(t)
  <2> DEFINE r == [thread[t] EXCEPT !.at = "trampoline", !.via = slot[thread[t].hook]]
  <2>1. thread[t].address \in Addresses /\ thread[t].hook \in Hooks
    BY <1>1, <1>12 DEF CallOriginal, RestType, HasAddress, InHook
  <2>2. slot[thread[t].hook] # Null => r \in ThreadRecord /\ RestType(r)
    <3>1. slot[thread[t].hook] # Null => slot[thread[t].hook] \in Trampolines
      BY <2>1 DEF DebugTypeOK
    <3>. QED BY <1>1, <2>1, <3>1 DEF ThreadRecord, RestType, HasAddress, InHook, Places
  <2>3. \/ thread' = [thread EXCEPT ![t] = r] /\ slot[thread[t].hook] # Null
        \/ thread' = [thread EXCEPT ![t] = Crashed]
    BY <1>12 DEF CallOriginal, Executes
  <2>. QED BY <1>6, <1>12, <2>2, <2>3, RestTypes DEF CallOriginal
<1>13. CASE RunTrampoline(t)
  <2> DEFINE content == trampoline[thread[t].via]
             own == [thread[t] EXCEPT !.at = "original", !.address = content.address]
             jump == [thread[t] EXCEPT !.at = "handler", !.hook = content.bytes]
  <2>1. /\ thread[t].address \in Addresses /\ thread[t].hook \in Hooks
        /\ thread[t].via \in Trampolines
    BY <1>1, <1>13 DEF RunTrampoline, RestType, HasAddress, InHook
  <2>2. content # Null => content \in [address : Addresses, bytes : Hooks \cup {Original}]
    BY <2>1 DEF DebugTypeOK
  <2>3. content # Null => own \in ThreadRecord /\ RestType(own)
    BY <1>1, <2>1, <2>2, ZenonT(40) DEF ThreadRecord, RestType, HasAddress, InHook, Places
  <2>4. content # Null /\ content.bytes # Original => jump \in ThreadRecord /\ RestType(jump)
    BY <1>1, <2>1, <2>2, ZenonT(40) DEF ThreadRecord, RestType, HasAddress, InHook, Places
  <2>5. \/ thread' = [thread EXCEPT ![t] = own] /\ content # Null
        \/ thread' = [thread EXCEPT ![t] = jump] /\ content # Null /\ content.bytes # Original
        \/ thread' = [thread EXCEPT ![t] = Crashed]
    BY <1>13 DEF RunTrampoline, Executes
  <2>. QED BY <1>6, <1>13, <2>3, <2>4, <2>5, RestTypes DEF RunTrampoline
<1>14. CASE ReturnToHandler(t)
  BY <1>5, <1>6, <1>14 DEF ReturnToHandler, Moves, InHook
<1>15. CASE BeginEmit(t)
  BY <1>5, <1>6, <1>15 DEF BeginEmit, Moves, InHook
<1>16. CASE FinishEmit(t)
  BY <1>5, <1>6, <1>16 DEF FinishEmit, Moves, InHook
<1>17. CASE LeaveGuard(t)
  <2>1. /\ [thread[t] EXCEPT !.at = "leaving"] \in ThreadRecord
        /\ RestType([thread[t] EXCEPT !.at = "leaving"])
    BY <1>1, <1>17 DEF LeaveGuard, ThreadRecord, RestType, HasAddress, InHook, Places
  <2>. QED BY <1>4, <1>6, <1>17, <2>1 DEF LeaveGuard
<1>18. CASE ReturnToCaller(t)
  BY <1>4, <1>6, <1>18, RestTypes DEF ReturnToCaller
<1>. QED
  BY <1>3, <1>7, <1>8, <1>9, <1>10, <1>11, <1>12, <1>13, <1>14, <1>15, <1>16,
     <1>17, <1>18 DEF ThreadStep, HookSteps
LEMMA HookTypes ==
  ASSUME DebugTypeOK, NEW h \in Hooks, NEW found, found = ResolveHookAddress(h),
         found.result = "Resolved", NEW outcome, HookFunction(h, found, outcome)
  PROVE /\ CodeType' /\ SlotType' /\ TrampolineType'
        /\ installedHooks' \in Seq(HookRecord)
        /\ eventOk' \in BOOLEAN
<1>1. PICK n \in Trampolines :
        LET bytes == code[found.address]
            patching == Exports[found.address[2]] = "code" /\ outcome # "rejected"
            hooked == patching /\ outcome = "ok"
        IN /\ slot' = IF patching THEN [slot EXCEPT ![h] = IF hooked THEN n ELSE Null]
                      ELSE slot
           /\ trampoline' = IF hooked
                            THEN [trampoline EXCEPT ![n] = [address |-> found.address,
                                                            bytes |-> bytes]]
                            ELSE trampoline
           /\ code' = IF patching /\ outcome # "unpatched"
                      THEN [code EXCEPT ![found.address] = h] ELSE code
           /\ installedHooks' =
                IF hooked
                THEN Append(installedHooks,
                            [hook |-> h, address |-> found.address, trampoline |-> n,
                             bytes |-> bytes, source |-> found.source,
                             target |-> found.target])
                ELSE installedHooks
           /\ eventOk' = hooked
  BY DEF HookFunction
<1>2. /\ found.address \in Addresses
      /\ found.source \in Bases /\ found.target \in Bases
      /\ code[found.address] \in Hooks \cup {Original}
  BY ResolveSound DEF FindModule, Registered, DebugTypeOK
<1>3. CodeType'
  BY <1>1, <1>2 DEF DebugTypeOK, CodeType
<1>4. SlotType'
  BY <1>1 DEF DebugTypeOK, SlotType
<1>5. TrampolineType'
  BY <1>1, <1>2 DEF DebugTypeOK, TrampolineType
<1>6. installedHooks' \in Seq(HookRecord)
  <2>1. [hook |-> h, address |-> found.address, trampoline |-> n,
         bytes |-> code[found.address], source |-> found.source,
         target |-> found.target] \in HookRecord
    BY <1>2 DEF HookRecord
  <2>2. installedHooks \in Seq(HookRecord)
    BY DEF DebugTypeOK
  <2>. QED BY <1>1, <2>1, <2>2, AppendSet
<1>7. eventOk' \in BOOLEAN
  BY <1>1
<1>. QED BY <1>3, <1>4, <1>5, <1>6, <1>7

LEMMA UnhookTypes ==
  ASSUME DebugTypeOK, NEW k \in HookRecord, NEW outcome,
         UnhookFunction(k, outcome) \/ ReleaseUnloadedHook(k, outcome)
  PROVE CodeType' /\ SlotType' /\ TrampolineType'
<1>1. CodeType'
  BY DEF DebugTypeOK, HookRecord, UnhookFunction, ReleaseUnloadedHook, CodeType
<1>2. SlotType'
  BY DEF DebugTypeOK, HookRecord, UnhookFunction, ReleaseUnloadedHook, SlotType
<1>3. TrampolineType'
  BY DEF DebugTypeOK, HookRecord, UnhookFunction, ReleaseUnloadedHook, TrampolineType
<1>. QED BY <1>1, <1>2, <1>3

\* Taking hooks out of installedHooks_ keeps its type.
LEMMA RemoveTypes ==
  ASSUME DebugTypeOK, NEW i \in 1..Len(installedHooks)
  PROVE RemoveAt(installedHooks, i) \in Seq(HookRecord)
<1>1. /\ installedHooks \in Seq(HookRecord) /\ i \in Nat /\ Len(installedHooks) \in Nat
  BY DEF DebugTypeOK
<1>2. /\ SubSeq(installedHooks, 1, i - 1) \in Seq(HookRecord)
      /\ SubSeq(installedHooks, i + 1, Len(installedHooks)) \in Seq(HookRecord)
  BY <1>1
<1>. QED BY <1>2 DEF RemoveAt

LEMMA RecordTypes ==
  ASSUME DebugTypeOK
  PROVE /\ \A i \in 1..Len(installedHooks) :
             installedHooks[i] \in HookRecord /\ installedHooks[i] \in InstalledSet
        /\ \A k \in InstalledSet :
             k \in HookRecord /\ \E i \in 1..Len(installedHooks) : k = installedHooks[i]
<1>1. installedHooks \in Seq(HookRecord)
  BY DEF DebugTypeOK
<1>2. DOMAIN installedHooks = 1..Len(installedHooks)
      /\ \A i \in 1..Len(installedHooks) : installedHooks[i] \in HookRecord
  BY <1>1
<1>. QED BY <1>2 DEF InstalledSet, ToSet

\* The debug events keep the types.
LEMMA TargetTypes ==
  ASSUME DebugTypeOK, TargetStep
  PROVE DebugTypeOK' /\ UNCHANGED thread
<1> USE DEF targetVars, memoryVars, imageVars, moduleVars, flagVars, stopVars, loopVars
<1>1. ASSUME NEW kind \in EventKinds, NEW base \in Bases \cup {Null}, Raise(kind, base)
      PROVE  EventType'
  BY <1>1 DEF Raise, EventType
<1>2. ASSUME NEW b \in Bases, AnnounceModule(b)
      PROVE  DebugTypeOK' /\ UNCHANGED thread
  <2>1. EventType'
    BY <1>1, <1>2 DEF AnnounceModule, EventKinds
  <2>. QED BY <1>2, <2>1 DEF AnnounceModule, DebugTypeOK, EventType
<1>3. ASSUME NEW b \in Bases, NEW m \in Modules, LoadModule(b, m)
      PROVE  DebugTypeOK' /\ UNCHANGED thread
  <2>1. EventType'
    BY <1>1, <1>3 DEF LoadModule, EventKinds
  <2>. QED BY <1>3, <2>1 DEF LoadModule, DebugTypeOK, EventType
<1>4. ASSUME NEW b \in Bases, UnloadModule(b)
      PROVE  DebugTypeOK' /\ UNCHANGED thread
  <2>1. EventType'
    BY <1>1, <1>4 DEF UnloadModule, EventKinds
  <2>2. CodeType'
    BY <1>4 DEF UnloadModule, DebugTypeOK, CodeType
  <2>. QED BY <1>4, <2>1, <2>2 DEF UnloadModule, DebugTypeOK, EventType, CodeType
<1>5. CASE BreakIn
  <2>1. EventType'
    BY <1>1, <1>5 DEF BreakIn, EventKinds
  <2>2. breaks' \in 0..MaxBreaks
    BY <1>5, DebugAssumption DEF BreakIn, DebugTypeOK
  <2>. QED BY <1>5, <2>1, <2>2 DEF BreakIn, DebugTypeOK, EventType
<1>6. ASSUME NEW kind \in OtherEvents, RaiseOther(kind)
      PROVE  DebugTypeOK' /\ UNCHANGED thread
  <2>1. EventType'
    BY <1>1, <1>6, DebugAssumption DEF RaiseOther, EventKinds
  <2>. QED BY <1>6, <2>1 DEF RaiseOther, DebugTypeOK, EventType
<1>7. CASE ExitProcess
  <2>1. EventType'
    BY <1>1, <1>7 DEF ExitProcess, EventKinds
  <2>. QED BY <1>7, <2>1 DEF ExitProcess, DebugTypeOK, EventType
<1>. QED BY <1>2, <1>3, <1>4, <1>5, <1>6, <1>7 DEF TargetStep
LEMMA RegisterTypes ==
  ASSUME DebugTypeOK, NEW b \in Bases, loaded[b] # NoModule, NEW outcome,
         RegisterModule(b, outcome)
  PROVE /\ moduleGeneration' \in Nat /\ ModulesType'
        /\ step' \in {"installing", "cleaning", "continuing"}
        /\ eventOk' \in BOOLEAN /\ transportConfigured' \in BOOLEAN
<1>1. loaded[b] \in Modules
  BY DEF DebugTypeOK
<1>2. /\ moduleGeneration \in Nat
      /\ modules \in [Bases -> [name : Modules, generation : 1..moduleGeneration] \cup {Null}]
      /\ transportConfigured \in BOOLEAN
  BY DEF DebugTypeOK
<1>3. CASE outcome = "unnamed"
  BY <1>2, <1>3 DEF RegisterModule, moduleVars, ModulesType
<1>4. CASE outcome # "unnamed"
  <2> DEFINE r == [name |-> loaded[b], generation |-> moduleGeneration + 1]
             fails == (loaded[b] = Ntdll /\ ~transportConfigured) /\ outcome = "transport"
  <2>1. /\ modules' = [modules EXCEPT ![b] = r]
        /\ moduleGeneration' = moduleGeneration + 1
        /\ eventOk' = ~fails
        /\ transportConfigured' =
             (transportConfigured \/ ((loaded[b] = Ntdll /\ ~transportConfigured) /\ ~fails))
        /\ step' = IF fails THEN "cleaning"
                   ELSE IF transportConfigured' THEN "installing" ELSE "continuing"
    BY <1>4 DEF RegisterModule
  <2>2. r \in [name : Modules, generation : 1..(moduleGeneration + 1)]
    BY <1>1, <1>2
  <2>3. [name : Modules, generation : 1..moduleGeneration]
          \subseteq [name : Modules, generation : 1..(moduleGeneration + 1)]
    BY <1>2
  <2>4. ModulesType'
    <3>. HIDE DEF r, fails
    <3>. QED BY <1>2, <2>1, <2>2, <2>3 DEF ModulesType
  <2>5. eventOk' \in BOOLEAN /\ transportConfigured' \in BOOLEAN
    <3>. HIDE DEF r
    <3>. QED BY <2>1
  <2>. QED BY <1>2, <2>1, <2>4, <2>5
<1>. QED BY <1>3, <1>4

\* Where the event the loop works on points to.
EventTargets ==
  /\ Pending({"create", "load"}) => event[1].base \in Bases /\ loaded[event[1].base] # NoModule
  /\ step = "unloading" => Pending({"unload"}) /\ event[1].base \in Bases

\* The steps of the controller, and the stop request, keep the types.
LEMMA LoopTypes ==
  ASSUME DebugTypeOK, EventTargets, RequestStop \/ BreakOff \/ LoopStep
  PROVE DebugTypeOK' /\ UNCHANGED thread
<1> USE DEF targetVars, memoryVars, imageVars, moduleVars, flagVars, stopVars, loopVars
<1>1. CASE RequestStop
  BY <1>1 DEF RequestStop, DebugTypeOK
<1>2. CASE BreakOff
  BY <1>2 DEF BreakOff, DebugTypeOK
<1>3. DebugBreakProcess => breaks' \in 0..MaxBreaks
  BY DebugAssumption DEF DebugTypeOK, DebugBreakProcess
<1>4. CASE RequestBreak
  BY <1>3, <1>4 DEF RequestBreak, DebugTypeOK
<1>5. ASSUME NEW kind, Takes(kind)
      PROVE  next' \in 1..(Len(HookList) + 1) /\ event # <<>> /\ event[1].kind = kind
  <2>1. Len(HookList) \in Nat
    BY DebugAssumption
  <2>. QED BY <1>5, <2>1 DEF Takes
<1>6. CASE HandleCreateProcess
  <2>1. /\ next' \in 1..(Len(HookList) + 1)
        /\ event[1].base \in Bases /\ loaded[event[1].base] # NoModule
    BY <1>5, <1>6 DEF HandleCreateProcess, EventTargets, Pending
  <2>2. PICK outcome : /\ InitializeDebuggee(outcome)
                       /\ IF outcome = "ok"
                          THEN \E registered \in RegisterOutcomes :
                                 RegisterModule(event[1].base, registered)
                          ELSE /\ eventOk' = FALSE
                               /\ step' = "cleaning"
                               /\ UNCHANGED <<moduleVars, transportConfigured>>
    BY <1>6 DEF HandleCreateProcess
  <2>3. /\ debugActive' \in BOOLEAN /\ image' \in BOOLEAN
        /\ ring' \in BOOLEAN /\ TransportRing' \in BOOLEAN /\ ActiveHookCalls' \in Nat
    BY <2>2 DEF InitializeDebuggee
  <2>4. /\ moduleGeneration' \in Nat /\ ModulesType'
        /\ step' \in {"installing", "cleaning", "continuing"}
        /\ eventOk' \in BOOLEAN /\ transportConfigured' \in BOOLEAN
    <3>1. CASE outcome = "ok"
      BY <2>1, <2>2, <3>1, RegisterTypes
    <3>2. CASE outcome # "ok"
      BY <2>2, <3>2 DEF DebugTypeOK, ModulesType
    <3>. QED BY <3>1, <3>2
  <2>5. /\ UNCHANGED <<loaded, announced, code, thread, calls, event, breaks, fate, slot,
                        trampoline, installedHooks, initialBreakpointSeen, stopRequested,
                        stopBreakRequested, retryCleanStop>>
        /\ cleanStop' = FALSE
    BY <1>6 DEF HandleCreateProcess
  <2>. QED BY <2>1, <2>3, <2>4, <2>5, ZenonT(40) DEF DebugTypeOK, ModulesType
<1>7. CASE HandleLoadDll
  <2>1. /\ next' \in 1..(Len(HookList) + 1)
        /\ event[1].base \in Bases /\ loaded[event[1].base] # NoModule
    BY <1>5, <1>7 DEF HandleLoadDll, EventTargets, Pending
  <2>2. /\ moduleGeneration' \in Nat /\ ModulesType'
        /\ step' \in {"installing", "cleaning", "continuing"}
        /\ eventOk' \in BOOLEAN /\ transportConfigured' \in BOOLEAN
    BY <1>7, <2>1, RegisterTypes DEF HandleLoadDll
  <2>. QED BY <1>7, <2>1, <2>2 DEF HandleLoadDll, DebugTypeOK, ModulesType
<1>8. CASE HandleUnloadDll
  <2>1. next' \in 1..(Len(HookList) + 1)
    BY <1>5, <1>8 DEF HandleUnloadDll
  <2>. QED BY <1>8, <2>1 DEF HandleUnloadDll, DebugTypeOK
<1>9. CASE HandleBreakpoint
  <2>1. next' \in 1..(Len(HookList) + 1)
    BY <1>5, <1>9 DEF HandleBreakpoint
  <2>2. cleanStop' \in BOOLEAN /\ retryCleanStop' \in BOOLEAN
        /\ step' \in {"cleaning", "continuing"}
    BY <1>9 DEF HandleBreakpoint
  <2>3. initialBreakpointSeen' \in BOOLEAN
    BY <1>9 DEF HandleBreakpoint
  <2>. QED BY <1>9, <2>1, <2>2, <2>3 DEF HandleBreakpoint, DebugTypeOK
<1>10. CASE HandleOther
  <2>1. next' \in 1..(Len(HookList) + 1)
    BY <1>5, <1>10 DEF HandleOther
  <2>. QED BY <1>10, <2>1 DEF HandleOther, DebugTypeOK
<1>11. CASE TryInstallPendingHook
  <2> DEFINE h == HookList[next]
             found == ResolveHookAddress(h)
  <2>1. next' \in 1..(Len(HookList) + 1) /\ next \in 1..Len(HookList)
    <3>1. Len(HookList) \in Nat
      BY DebugAssumption
    <3>. QED BY <1>11, <3>1 DEF TryInstallPendingHook, DebugTypeOK
  <2>2. /\ CodeType' /\ SlotType' /\ TrampolineType'
        /\ installedHooks' \in Seq(HookRecord) /\ eventOk' \in BOOLEAN
    <3>1. \/ UNCHANGED <<memoryVars, installedHooks, eventOk>>
          \/ eventOk' = FALSE /\ UNCHANGED <<memoryVars, installedHooks>>
          \/ /\ found.result \notin {"Pending", "Error"}
             /\ \E outcome \in HookOutcomes : HookFunction(h, found, outcome)
      BY <1>11 DEF TryInstallPendingHook
    <3>2. found.result \notin {"Pending", "Error"} => found.result = "Resolved"
      BY DEF ResolveHookAddress
    <3>3. h \in Hooks
      BY <2>1, HooksAreSymbols
    <3>4. CASE UNCHANGED memoryVars /\ UNCHANGED installedHooks
      BY <3>1, <3>4 DEF DebugTypeOK, CodeType, SlotType, TrampolineType, HookFunction
    <3>. HIDE DEF h, found
    <3>5. ASSUME found.result = "Resolved", NEW outcome, HookFunction(h, found, outcome)
          PROVE  /\ CodeType' /\ SlotType' /\ TrampolineType'
                 /\ installedHooks' \in Seq(HookRecord) /\ eventOk' \in BOOLEAN
      BY <3>3, <3>5, HookTypes DEF found
    <3>6. UNCHANGED <<memoryVars, installedHooks, eventOk>> => eventOk' \in BOOLEAN
      BY DEF DebugTypeOK
    <3>. QED BY <3>1, <3>2, <3>4, <3>5, <3>6
  <2>3. step' \in {"installing", "cleaning"}
    BY <1>11 DEF TryInstallPendingHook
  <2>. QED
    BY <1>11, <2>1, <2>2, <2>3
    DEF TryInstallPendingHook, DebugTypeOK, CodeType, SlotType, TrampolineType
<1>12. CASE AllHooksTried
  BY <1>12 DEF AllHooksTried, DebugTypeOK
<1>13. CASE DropHook
  <2>1. PICK i \in 1..Len(installedHooks) :
          /\ \/ \E outcome \in ReleaseOutcomes : ReleaseUnloadedHook(installedHooks[i], outcome)
             \/ \E outcome \in UnhookOutcomes : UnhookFunction(installedHooks[i], outcome)
          /\ installedHooks' = RemoveAt(installedHooks, i)
    BY <1>13 DEF DropHook
  <2>2. CodeType' /\ SlotType' /\ TrampolineType'
    BY <2>1, RecordTypes, UnhookTypes
  <2>3. installedHooks' \in Seq(HookRecord)
    BY <2>1, RemoveTypes
  <2>. QED
    BY <1>13, <2>2, <2>3
    DEF DropHook, DebugTypeOK, CodeType, SlotType, TrampolineType
<1>14. CASE ForgetModule
  <2>1. event[1].base \in Bases
    BY <1>14 DEF ForgetModule, EventTargets
  <2>2. ModulesType'
    BY <1>14, <2>1 DEF ForgetModule, DebugTypeOK, ModulesType
  <2>. QED BY <1>14, <2>2 DEF ForgetModule, DebugTypeOK, ModulesType
<1>15. CASE CleanupHook
  <2>1. /\ Len(installedHooks) \in 1..Len(installedHooks)
        /\ Front(installedHooks) = RemoveAt(installedHooks, Len(installedHooks))
        /\ Last(installedHooks) = installedHooks[Len(installedHooks)]
    BY <1>15, FrontIsRemoveAt DEF CleanupHook, DebugTypeOK
  <2>2. CodeType' /\ SlotType' /\ TrampolineType'
    BY <1>15, <2>1, RecordTypes, UnhookTypes DEF CleanupHook
  <2>3. installedHooks' \in Seq(HookRecord)
    BY <1>15, <2>1, RemoveTypes DEF CleanupHook
  <2>. QED
    BY <1>15, <2>2, <2>3
    DEF CleanupHook, DebugTypeOK, CodeType, SlotType, TrampolineType
<1>16. CASE CleanupImage
  BY <1>16 DEF CleanupImage, DebugTypeOK
<1>17. CASE ContinueEvent
  BY <1>17 DEF ContinueEvent, DebugTypeOK
<1>18. CASE RetryBreak
  BY <1>3, <1>18 DEF RetryBreak, DebugTypeOK
<1>19. CASE NextEvent
  BY <1>19 DEF NextEvent, DebugTypeOK
<1>20. CASE Detach
  BY <1>20 DEF Detach, DebugTypeOK
<1>. QED
  BY <1>1, <1>2, <1>4, <1>6, <1>7, <1>8, <1>9, <1>10, <1>11, <1>12, <1>13, <1>14,
     <1>15, <1>16, <1>17, <1>18, <1>19, <1>20 DEF LoopStep, HandleEvent
-----------------------------------------------------------------------------
(* The control invariant under the debug events *)

ControlInv ==
  EventInv /\ LoopInv /\ CleanedInv /\ StartInv /\ RegistryInv /\ HooksNeedImage

TargetFrame ==
  UNCHANGED <<thread, calls, fate, slot, trampoline, imageVars, moduleVars,
              installedHooks, flagVars, loopVars>>

Mapped(b) ==
  /\ event'[1].base = b
  /\ b \in Bases \ announced
  /\ announced' = announced \cup {b}
  /\ loaded' \in [Bases -> Modules \cup {NoModule}]
  /\ loaded'[b] # NoModule
  /\ loaded[b] = NoModule \/ loaded'[b] = loaded[b]
  /\ \A c \in Bases : c # b => loaded'[c] = loaded[c]
  /\ UNCHANGED code

Unmapped(b) ==
  /\ event'[1].base = b
  /\ b \in announced /\ b # ExeBase
  /\ announced' = announced \ {b}
  /\ loaded' = [loaded EXCEPT ![b] = NoModule]
  /\ code' = [a \in Addresses |-> IF a[1] = b THEN Original ELSE code[a]]

\* The four things a debug event can say.
LEMMA TargetEffect ==
  ASSUME DebugTypeOK, EventInv, TargetStep
  PROVE /\ event = <<>> /\ event' # <<>> /\ fate = "debugged" /\ TargetFrame
        /\ \/ event'[1].kind = "create" /\ Mapped(ExeBase) /\ UNCHANGED loaded
           \/ /\ event'[1].kind = "load" /\ ExeBase \in announced
              /\ \E b \in Bases : Mapped(b)
           \/ /\ event'[1].kind = "unload" /\ ExeBase \in announced
              /\ \E b \in Bases : Unmapped(b)
           \/ /\ event'[1].kind \in {"breakpoint", "exception", "other", "exit"}
              /\ ExeBase \in announced
              /\ UNCHANGED <<loaded, announced, code>>
<1> USE DEF targetVars, memoryVars, imageVars, moduleVars, flagVars, stopVars,
            loopVars, TargetFrame
<1>1. ASSUME NEW kind, NEW base, Raise(kind, base)
      PROVE  event' # <<>> /\ event'[1].kind = kind /\ event'[1].base = base
  BY <1>1 DEF Raise
<1>2. Introduced => ExeBase \in announced
  BY DebugAssumption DEF Introduced, EventInv
<1>3. ASSUME NEW b \in Bases, AnnounceModule(b)
      PROVE  /\ event = <<>> /\ event' # <<>> /\ fate = "debugged" /\ TargetFrame
             /\ \/ event'[1].kind = "create" /\ Mapped(ExeBase) /\ UNCHANGED loaded
                \/ event'[1].kind = "load" /\ ExeBase \in announced /\ Mapped(b)
  BY <1>1, <1>3 DEF AnnounceModule, Debugged, Mapped, DebugTypeOK
<1>4. ASSUME NEW b \in Bases, NEW m \in Modules, LoadModule(b, m)
      PROVE  /\ event = <<>> /\ event' # <<>> /\ fate = "debugged" /\ TargetFrame
             /\ event'[1].kind = "load" /\ ExeBase \in announced /\ Mapped(b)
  <2>1. m # NoModule
    BY DebugAssumption
  <2>. QED BY <1>1, <1>2, <1>4, <2>1 DEF LoadModule, Debugged, Mapped, DebugTypeOK, EventInv
<1>5. ASSUME NEW b \in Bases, UnloadModule(b)
      PROVE  /\ event = <<>> /\ event' # <<>> /\ fate = "debugged" /\ TargetFrame
             /\ event'[1].kind = "unload" /\ ExeBase \in announced /\ Unmapped(b)
  <2>1. b \in announced
    BY <1>5 DEF UnloadModule, Introduced
  <2>. QED BY <1>1, <1>2, <1>5, <2>1 DEF UnloadModule, Debugged, Unmapped
<1>6. CASE BreakIn
  BY <1>1, <1>2, <1>6 DEF BreakIn, Debugged
<1>7. ASSUME NEW kind \in OtherEvents, RaiseOther(kind)
      PROVE  /\ event = <<>> /\ event' # <<>> /\ fate = "debugged" /\ TargetFrame
             /\ event'[1].kind \in {"breakpoint", "exception", "other", "exit"}
             /\ ExeBase \in announced
             /\ UNCHANGED <<loaded, announced, code>>
  BY <1>1, <1>2, <1>7, DebugAssumption DEF RaiseOther, Debugged
<1>8. CASE ExitProcess
  BY <1>1, <1>2, <1>8 DEF ExitProcess, Debugged
<1>. QED BY <1>3, <1>4, <1>5, <1>6, <1>7, <1>8 DEF TargetStep

LEMMA TargetControl ==
  ASSUME DebugTypeOK, ControlInv, TargetStep
  PROVE ControlInv'
<1> USE DEF imageVars, moduleVars, flagVars, loopVars
<1>1. /\ event = <<>> /\ event' # <<>> /\ fate = "debugged" /\ TargetFrame
      /\ \/ event'[1].kind = "create" /\ Mapped(ExeBase) /\ UNCHANGED loaded
         \/ /\ event'[1].kind = "load" /\ ExeBase \in announced
            /\ \E b \in Bases : Mapped(b)
         \/ /\ event'[1].kind = "unload" /\ ExeBase \in announced
            /\ \E b \in Bases : Unmapped(b)
         \/ /\ event'[1].kind \in {"breakpoint", "exception", "other", "exit"}
            /\ ExeBase \in announced
            /\ UNCHANGED <<loaded, announced, code>>
  BY TargetEffect DEF ControlInv
<1>2. step \in {"waiting", "continued"} /\ (ExeBase \notin announced => step = "waiting")
  BY <1>1 DEF ControlInv, EventInv, LoopInv, DebugTypeOK
<1>3. EventInv'
  <2>1. /\ loaded'[ExeBase] # NoModule
        /\ \A b \in announced' : loaded'[b] # NoModule
    BY <1>1, DebugAssumption DEF ControlInv, EventInv, Mapped, Unmapped, DebugTypeOK
  <2>2. ExeBase \in announced'
    BY <1>1 DEF Mapped, Unmapped
  <2>3. /\ Pending({"create"})' => event'[1].base = ExeBase /\ step' = "waiting"
        /\ Pending({"create", "load"})' =>
             /\ event'[1].base \in Bases
             /\ loaded'[event'[1].base] # NoModule
             /\ event'[1].base \in announced'
        /\ Pending({"unload"})' => event'[1].base \in Bases \ announced'
    BY <1>1, <1>2, DebugAssumption DEF Pending, Mapped, Unmapped, TargetFrame
  <2>. QED BY <1>1, <1>2, <2>1, <2>2, <2>3 DEF ControlInv, EventInv, TargetFrame
<1>4. LoopInv'
  BY <1>1, <1>2 DEF ControlInv, LoopInv, TargetFrame, Pending
<1>5. CleanedInv'
  BY <1>1 DEF ControlInv, CleanedInv, TargetFrame
<1>6. StartInv'
  <2>1. Created' => Created
    <3>1. CASE ExeBase \in announced
      BY <1>1, <3>1 DEF Created, Pending
    <3>2. CASE ExeBase \notin announced
      BY <1>1, <1>2, <3>2 DEF Created, Pending, TargetFrame
    <3>. QED BY <3>1, <3>2
  <2>2. Created => Created'
    <3>1. CASE ExeBase \in announced
      BY <1>1, <3>1 DEF Created, Pending, Mapped, Unmapped, TargetFrame
    <3>. QED BY <3>1 DEF Created
  <2>3. Untouched => Untouched'
    BY <1>1 DEF Untouched, Mapped, Unmapped, TargetFrame
  <2>4. Pristine => Pristine'
    BY <1>1, <2>3 DEF Pristine, TargetFrame
  <2>. QED BY <1>1, <2>1, <2>2, <2>3, <2>4 DEF ControlInv, StartInv, TargetFrame
<1>7. RegistryInv'
  <2>. SUFFICES ASSUME NEW b \in Bases, modules[b] # Null
                PROVE  /\ b \in announced' \/ PendingAt({"unload"}, b)'
                       /\ ~(PendingAt({"create", "load"}, b)' /\ step' \in {"waiting", "continued"})
                       /\ loaded'[b] = modules[b].name \/ PendingAt({"unload"}, b)'
                       /\ ~(PendingAt({"unload"}, b)' /\ step' = "continuing")
    BY <1>1 DEF RegistryInv, TargetFrame, PendingAt, Pending
  <2>1. b \in announced /\ loaded[b] = modules[b].name
    BY <1>1 DEF ControlInv, RegistryInv, PendingAt, Pending
  <2>. QED
    BY <1>1, <1>2, <2>1, DebugAssumption
    DEF PendingAt, Pending, TargetFrame, Mapped, Unmapped, DebugTypeOK
<1>8. HooksNeedImage'
  BY <1>1 DEF ControlInv, HooksNeedImage, TargetFrame
<1>. QED BY <1>3, <1>4, <1>5, <1>6, <1>7, <1>8 DEF ControlInv
-----------------------------------------------------------------------------
(* The control invariant under the steps of the controller *)

\* What RegisterModule may do.
RegisterEffect(b) ==
  \/ UNCHANGED <<modules, transportConfigured>> /\ eventOk' = TRUE /\ step' = "continuing"
  \/ /\ \E g : modules' = [modules EXCEPT ![b] = [name |-> loaded[b], generation |-> g]]
     /\ transportConfigured => transportConfigured'
     /\ \/ eventOk' = FALSE /\ step' = "cleaning"
        \/ eventOk' = TRUE /\ step' = "installing" /\ transportConfigured'
        \/ eventOk' = TRUE /\ step' = "continuing" /\ ~transportConfigured'

LEMMA RegisterCases ==
  ASSUME DebugTypeOK, NEW b, NEW outcome, RegisterModule(b, outcome)
  PROVE RegisterEffect(b)
<1>1. CASE outcome = "unnamed"
  BY <1>1 DEF RegisterModule, RegisterEffect, moduleVars
<1>2. CASE outcome # "unnamed"
  <2> DEFINE fails == (loaded[b] = Ntdll /\ ~transportConfigured) /\ outcome = "transport"
  <2>1. /\ modules' = [modules EXCEPT ![b] = [name |-> loaded[b],
                                              generation |-> moduleGeneration + 1]]
        /\ eventOk' = ~fails
        /\ transportConfigured' =
             (transportConfigured \/ ((loaded[b] = Ntdll /\ ~transportConfigured) /\ ~fails))
        /\ step' = IF fails THEN "cleaning"
                   ELSE IF transportConfigured' THEN "installing" ELSE "continuing"
    BY <1>2 DEF RegisterModule
  <2>2. transportConfigured => transportConfigured'
    BY <2>1
  <2>3. \/ eventOk' = FALSE /\ step' = "cleaning"
        \/ eventOk' = TRUE /\ step' = "installing" /\ transportConfigured'
        \/ eventOk' = TRUE /\ step' = "continuing" /\ ~transportConfigured'
    <3>. HIDE DEF fails
    <3>. QED BY <2>1
  <2>. QED BY <2>1, <2>2, <2>3 DEF RegisterEffect
<1>. QED BY <1>1, <1>2

\* HookFunction, UnhookFunction and ReleaseUnloadedHook leave the control alone
\* but for eventOk, and record a hook only while there is an image.
LEMMA CreateControl ==
  ASSUME DebugTypeOK, ControlInv, HandleCreateProcess
  PROVE ControlInv'
<1> USE DEF targetVars, memoryVars, stopVars
<1> DEFINE b == event[1].base
<1>1. /\ step = "waiting" /\ event # <<>> /\ event[1].kind = "create" /\ event' = event
      /\ cleanStop' = FALSE /\ UNCHANGED retryCleanStop
      /\ UNCHANGED <<loaded, announced, thread, fate, code, slot, trampoline, installedHooks>>
  BY DEF HandleCreateProcess, Takes
<1>2. PICK outcome : /\ InitializeDebuggee(outcome)
                     /\ IF outcome = "ok"
                        THEN RegisterEffect(b)
                        ELSE /\ eventOk' = FALSE
                             /\ step' = "cleaning"
                             /\ UNCHANGED <<modules, transportConfigured>>
  BY RegisterCases DEF HandleCreateProcess, moduleVars
<1>3. /\ b = ExeBase /\ b \in Bases /\ b \in announced /\ loaded[b] # NoModule
      /\ eventOk /\ ~cleanStop /\ ~retryCleanStop /\ fate = "debugged"
  BY <1>1 DEF ControlInv, EventInv, LoopInv, Pending, DebugTypeOK
<1>4. ~Created /\ Pristine
  BY <1>1, <1>3 DEF ControlInv, StartInv, Created, Pending
<1>5. /\ outcome = "ok" => image' /\ ring' /\ TransportRing' /\ debugActive'
      /\ ~debugActive' => outcome # "ok" /\ ~image' /\ ~ring'
      /\ outcome # "ok" => eventOk' = FALSE
  BY <1>2 DEF InitializeDebuggee
<1>6. step' \in {"installing", "cleaning", "continuing"} /\ eventOk' \in BOOLEAN
  BY <1>2 DEF RegisterEffect
<1>7. EventInv'
  BY <1>1, <1>3, <1>6 DEF ControlInv, EventInv, Pending
<1>8. LoopInv'
  BY <1>1, <1>2, <1>3 DEF LoopInv, Pending, RegisterEffect
<1>9. /\ eventOk' = FALSE => step' = "cleaning"
      /\ CleanedInv'
  BY <1>1, <1>2, <1>6 DEF CleanedInv, RegisterEffect
<1>10. StartInv'
  <2>1. Created'
    BY <1>1, <1>3, <1>6 DEF Created
  <2>2. ~debugActive' => Untouched'
    BY <1>1, <1>4, <1>5 DEF Pristine, Untouched
  <2>. QED BY <1>1, <1>3, <1>5, <2>1, <2>2 DEF StartInv
<1>11. RegistryInv'
  <2>1. \A c \in Bases : modules[c] = Null
    BY <1>4 DEF Pristine
  <2>2. \A c \in Bases : modules'[c] # Null => c = b /\ modules'[c].name = loaded[b]
    BY <1>2, <1>3, <2>1 DEF RegisterEffect, DebugTypeOK
  <2>. QED BY <1>1, <1>3, <1>6, <2>2 DEF RegistryInv, PendingAt, Pending
<1>12. HooksNeedImage'
  BY <1>1, <1>4 DEF HooksNeedImage, Pristine, Untouched
<1>. QED BY <1>7, <1>8, <1>9, <1>10, <1>11, <1>12 DEF ControlInv

LEMMA LoadControl ==
  ASSUME DebugTypeOK, ControlInv, HandleLoadDll
  PROVE ControlInv'
<1> USE DEF targetVars, memoryVars, imageVars, stopVars
<1> DEFINE b == event[1].base
<1>1. /\ step = "waiting" /\ event # <<>> /\ event[1].kind = "load" /\ event' = event
      /\ cleanStop' = FALSE /\ UNCHANGED <<retryCleanStop, debugActive>>
      /\ UNCHANGED <<loaded, announced, thread, fate, code, slot, trampoline, installedHooks,
                     image, ring, TransportRing>>
      /\ RegisterEffect(b)
  BY RegisterCases DEF HandleLoadDll, Takes
<1>2. /\ b \in Bases /\ b \in announced /\ loaded[b] # NoModule /\ ExeBase \in announced
      /\ eventOk /\ ~cleanStop /\ ~retryCleanStop /\ fate = "debugged" /\ modules[b] = Null
  BY <1>1 DEF ControlInv, EventInv, LoopInv, RegistryInv, PendingAt, Pending, DebugTypeOK
<1>3. Created
  BY <1>1, <1>2 DEF Created, Pending
<1>4. step' \in {"installing", "cleaning", "continuing"} /\ eventOk' \in BOOLEAN
  BY <1>1 DEF RegisterEffect
<1>5. EventInv'
  BY <1>1, <1>2, <1>4 DEF ControlInv, EventInv, Pending
<1>6. LoopInv'
  BY <1>1, <1>2 DEF LoopInv, Pending, RegisterEffect
<1>7. CleanedInv'
  BY <1>1 DEF CleanedInv, RegisterEffect
<1>8. StartInv'
  <2>1. Created'
    BY <1>1, <1>2, <1>4 DEF Created
  <2>. QED BY <1>1, <1>2, <1>3, <2>1 DEF ControlInv, StartInv, Untouched
<1>9. RegistryInv'
  <2>1. \A c \in Bases : modules'[c] # Null =>
          \/ c = b /\ modules'[c].name = loaded[b]
          \/ c # b /\ modules'[c] = modules[c]
    <3>1. modules \in [Bases -> [name : Modules, generation : 1..moduleGeneration] \cup {Null}]
      BY DEF DebugTypeOK
    <3>2. \/ modules' = modules
          \/ \E g : modules' = [modules EXCEPT ![b] = [name |-> loaded[b], generation |-> g]]
      BY <1>1 DEF RegisterEffect
    <3>3. CASE modules' = modules
      BY <1>2, <3>3
    <3>4. ASSUME NEW g,
                 modules' = [modules EXCEPT ![b] = [name |-> loaded[b], generation |-> g]]
          PROVE  \A c \in Bases : IF c = b THEN modules'[c].name = loaded[b]
                                ELSE modules'[c] = modules[c]
      <4>. HIDE DEF b
      <4>. QED BY <1>2, <3>1, <3>4
    <3>. QED BY <3>2, <3>3, <3>4
  <2>2. \A c \in Bases : c # b /\ modules[c] # Null => c \in announced /\ loaded[c] = modules[c].name
    BY <1>1, <1>2 DEF ControlInv, RegistryInv, PendingAt, Pending
  <2>. QED BY <1>1, <1>2, <1>4, <2>1, <2>2 DEF RegistryInv, PendingAt, Pending
<1>10. HooksNeedImage'
  <2>1. transportConfigured => transportConfigured'
    BY <1>1 DEF RegisterEffect
  <2>. QED BY <1>1, <2>1 DEF ControlInv, HooksNeedImage
<1>. QED BY <1>5, <1>6, <1>7, <1>8, <1>9, <1>10 DEF ControlInv

\* The handlers of the other events.
LEMMA OtherControl ==
  ASSUME DebugTypeOK, ControlInv, HandleUnloadDll \/ HandleBreakpoint \/ HandleOther
  PROVE ControlInv'
<1> USE DEF targetVars, memoryVars, imageVars, moduleVars, flagVars, stopVars
<1>1. /\ step = "waiting" /\ event # <<>> /\ event' = event /\ eventOk' = TRUE
      /\ event[1].kind \notin {"create", "load"}
      /\ UNCHANGED <<loaded, announced, thread, fate, code, slot, trampoline, installedHooks,
                     image, ring, TransportRing, modules, transportConfigured, debugActive>>
  BY DEF HandleUnloadDll, HandleBreakpoint, HandleOther, Takes
<1>2. \/ /\ event[1].kind = "unload" /\ step' = "unloading" /\ cleanStop' = FALSE
         /\ UNCHANGED retryCleanStop
      \/ /\ event[1].kind = "breakpoint" /\ step' = "cleaning" /\ cleanStop' = TRUE
         /\ retryCleanStop' = FALSE
      \/ /\ event[1].kind = "breakpoint" /\ step' = "continuing" /\ cleanStop' = FALSE
         /\ retryCleanStop' \in BOOLEAN
      \/ /\ event[1].kind \in {"exception", "other", "exit"} /\ step' = "continuing"
         /\ cleanStop' = FALSE /\ UNCHANGED retryCleanStop
  <2>1. CASE HandleBreakpoint
    <3>1. PICK q \in BOOLEAN :
            /\ cleanStop' = (stopBreakRequested /\ q)
            /\ retryCleanStop' = (stopBreakRequested /\ ~q)
            /\ step' = IF cleanStop' THEN "cleaning" ELSE "continuing"
            /\ event[1].kind = "breakpoint"
      BY <2>1 DEF HandleBreakpoint, Takes
    <3>2. cleanStop' \in BOOLEAN /\ retryCleanStop' \in BOOLEAN
          /\ (cleanStop' => ~retryCleanStop')
      BY <3>1 DEF DebugTypeOK
    <3>. QED BY <3>1, <3>2
  <2>2. CASE HandleUnloadDll
    BY <2>2 DEF HandleUnloadDll, Takes
  <2>3. CASE HandleOther
    BY <2>3 DEF HandleOther, Takes
  <2>. QED BY <2>1, <2>2, <2>3
<1>3. /\ eventOk /\ ~cleanStop /\ ~retryCleanStop /\ fate = "debugged" /\ ExeBase \in announced
  BY <1>1 DEF ControlInv, EventInv, LoopInv
<1>4. Created
  BY <1>1, <1>3 DEF Created, Pending
<1>5. EventInv'
  BY <1>1, <1>2, <1>3 DEF ControlInv, EventInv, Pending
<1>6. LoopInv'
  BY <1>1, <1>2, <1>3 DEF LoopInv, Pending
<1>7. CleanedInv'
  BY <1>1, <1>2 DEF CleanedInv
<1>8. StartInv'
  <2>1. Created'
    BY <1>1, <1>2, <1>3 DEF Created
  <2>. QED BY <1>1, <1>2, <1>3, <1>4, <2>1 DEF ControlInv, StartInv, Untouched
<1>9. RegistryInv'
  BY <1>1, <1>2, <1>3 DEF ControlInv, RegistryInv, PendingAt, Pending
<1>10. HooksNeedImage'
  BY <1>1 DEF ControlInv, HooksNeedImage
<1>. QED BY <1>5, <1>6, <1>7, <1>8, <1>9, <1>10 DEF ControlInv
\* One hook installed, dropped or cleaned up.
LEMMA HookControl ==
  ASSUME DebugTypeOK, DebugTypeOK', ControlInv,
         TryInstallPendingHook \/ DropHook \/ CleanupHook
  PROVE ControlInv'
<1> USE DEF targetVars, imageVars, moduleVars, flagVars, stopVars, loopVars
<1>1. /\ UNCHANGED <<loaded, announced, thread, fate, event, image, ring, TransportRing,
                     modules, transportConfigured, debugActive, cleanStop, retryCleanStop>>
      /\ step \in {"installing", "unloading", "cleaning"}
      /\ \/ step = "installing" /\ (step' = IF eventOk' THEN "installing" ELSE "cleaning")
         \/ step # "installing" /\ UNCHANGED <<step, eventOk>>
      /\ eventOk' \in BOOLEAN
  BY DEF TryInstallPendingHook, DropHook, CleanupHook, DebugTypeOK
<1>2. /\ event # <<>> /\ fate = "debugged" /\ ExeBase \in announced /\ Created /\ Created'
  BY <1>1 DEF ControlInv, EventInv, LoopInv, Created
<1>3. step' \in {"installing", "unloading", "cleaning"}
  BY <1>1
<1>4. EventInv'
  BY <1>1, <1>2, <1>3 DEF ControlInv, EventInv, Pending
<1>5. LoopInv'
  <2>1. CASE step = "installing"
    <3>1. Pending({"create", "load"}) /\ transportConfigured /\ ~cleanStop /\ ~retryCleanStop
      BY <1>2, <2>1 DEF ControlInv, LoopInv
    <3>. QED BY <1>1, <1>2, <2>1, <3>1 DEF LoopInv, Pending
  <2>2. CASE step # "installing"
    BY <1>1, <1>2, <2>2 DEF ControlInv, LoopInv, Pending
  <2>. QED BY <2>1, <2>2
<1>6. CleanedInv'
  BY <1>3 DEF CleanedInv
<1>7. image /\ ring /\ TransportRing /\ transportConfigured
  <2>1. CASE step = "installing"
    BY <1>2, <2>1 DEF ControlInv, LoopInv, StartInv
  <2>2. CASE step # "installing"
    <3>1. installedHooks # <<>>
      <4>1. CASE CleanupHook
        BY <4>1 DEF CleanupHook
      <4>2. CASE DropHook
        BY <4>2 DEF DropHook
      <4>. QED BY <2>2, <4>1, <4>2 DEF TryInstallPendingHook
    <3>. QED BY <3>1 DEF ControlInv, HooksNeedImage
  <2>. QED BY <2>1, <2>2
<1>8. StartInv'
  <2>1. debugActive
    BY <1>2, <1>7 DEF ControlInv, StartInv, Untouched
  <2>. QED BY <1>1, <1>2, <1>7, <2>1 DEF StartInv
<1>9. RegistryInv'
  BY <1>1, <1>3 DEF ControlInv, RegistryInv, PendingAt, Pending
<1>10. HooksNeedImage'
  BY <1>1, <1>7 DEF HooksNeedImage
<1>. QED BY <1>4, <1>5, <1>6, <1>8, <1>9, <1>10 DEF ControlInv

\* The end of a handler: the last hook tried, the module forgotten, the image
\* released.
LEMMA HandledControl ==
  ASSUME DebugTypeOK, ControlInv, AllHooksTried \/ ForgetModule \/ CleanupImage
  PROVE ControlInv'
<1> USE DEF targetVars, imageVars, memoryVars, moduleVars, flagVars, stopVars, loopVars
<1>1. /\ UNCHANGED <<loaded, announced, thread, code, slot, trampoline, fate, event,
                     transportConfigured, debugActive, installedHooks, eventOk, cleanStop,
                     retryCleanStop>>
      /\ step' = "continuing"
      /\ \/ step = "installing" /\ UNCHANGED <<modules, image, ring, TransportRing>>
         \/ /\ step = "unloading" /\ modules' = [modules EXCEPT ![event[1].base] = Null]
            /\ UNCHANGED <<image, ring, TransportRing>>
         \/ /\ step = "cleaning" /\ installedHooks = <<>> /\ UNCHANGED modules
            /\ image' = FALSE /\ ring' = FALSE /\ TransportRing' = FALSE
  BY DEF AllHooksTried, ForgetModule, CleanupImage
<1>2. /\ event # <<>> /\ fate = "debugged" /\ ExeBase \in announced /\ Created /\ Created'
  BY <1>1 DEF ControlInv, EventInv, LoopInv, Created
<1>3. EventInv'
  BY <1>1, <1>2 DEF ControlInv, EventInv, Pending
<1>4. LoopInv'
  BY <1>1, <1>2 DEF ControlInv, LoopInv, Pending
<1>5. CleanedInv'
  BY <1>1 DEF ControlInv, LoopInv, CleanedInv
<1>6. StartInv'
  BY <1>1, <1>2 DEF ControlInv, LoopInv, StartInv, Untouched
<1>7. RegistryInv'
  <2>. SUFFICES ASSUME NEW b \in Bases, modules'[b] # Null
                PROVE  /\ b \in announced \/ PendingAt({"unload"}, b)
                       /\ loaded[b] = modules'[b].name \/ PendingAt({"unload"}, b)
                       /\ ~PendingAt({"unload"}, b)
    BY <1>1 DEF RegistryInv, PendingAt, Pending
  <2>1. modules'[b] = modules[b] /\ (step = "unloading" => event[1].base # b)
    BY <1>1 DEF DebugTypeOK
  <2>2. Pending({"unload"}) => step = "unloading"
    BY <1>1 DEF ControlInv, LoopInv, Pending
  <2>. QED BY <1>2, <2>1, <2>2 DEF ControlInv, RegistryInv, PendingAt
<1>8. HooksNeedImage'
  BY <1>1 DEF ControlInv, HooksNeedImage
<1>. QED BY <1>3, <1>4, <1>5, <1>6, <1>7, <1>8 DEF ControlInv

\* Continuing from the event, waiting for the next, and the ways out.
LEMMA TailControl ==
  ASSUME DebugTypeOK, ControlInv,
         \/ RequestStop \/ RequestBreak \/ BreakOff \/ ContinueEvent \/ RetryBreak
         \/ NextEvent \/ Detach
  PROVE ControlInv'
<1> USE DEF targetVars, imageVars, memoryVars, moduleVars, flagVars, stopVars, loopVars
<1>1. /\ UNCHANGED <<loaded, announced, thread, code, slot, trampoline, modules, image, ring,
                     TransportRing, transportConfigured, installedHooks, eventOk, cleanStop>>
      /\ \/ UNCHANGED <<event, fate, debugActive, step, retryCleanStop>>
         \/ /\ fate = "debugged" /\ event' = <<>> /\ step' = "finished"
            /\ UNCHANGED <<debugActive, retryCleanStop>>
            /\ fate' \in {"exited", "detached"} \/ (fate' = "killed" /\ ~debugActive)
         \/ /\ step = "continuing" /\ event' = <<>> /\ step' = "continued"
            /\ UNCHANGED <<fate, debugActive, retryCleanStop>>
         \/ /\ step = "continuing" /\ event' = <<>> /\ step' = "finished" /\ fate' = "exited"
            /\ UNCHANGED <<debugActive, retryCleanStop>>
         \/ /\ step = "continued" /\ step' = "waiting" /\ retryCleanStop' = FALSE
            /\ retryCleanStop \/ (eventOk /\ ~cleanStop)
            /\ UNCHANGED <<fate, debugActive, event>>
         \/ /\ step = "continued" /\ event' = <<>> /\ step' = "finished"
            /\ fate' = "detached" /\ debugActive' = FALSE /\ UNCHANGED retryCleanStop
  <2>1. CASE RequestStop \/ RequestBreak
    BY <2>1 DEF RequestStop, RequestBreak
  <2>2. CASE BreakOff
    BY <2>2 DEF BreakOff
  <2>3. CASE ContinueEvent
    BY <2>3 DEF ContinueEvent
  <2>4. CASE RetryBreak
    BY <2>4 DEF RetryBreak
  <2>5. CASE NextEvent
    BY <2>5 DEF NextEvent, DebugTypeOK
  <2>6. CASE Detach
    BY <2>6 DEF Detach
  <2>. QED BY <2>1, <2>2, <2>3, <2>4, <2>5, <2>6
<1>2. CASE UNCHANGED <<event, fate, debugActive, step, retryCleanStop>>
  BY <1>1, <1>2
  DEF ControlInv, EventInv, LoopInv, CleanedInv, StartInv, RegistryInv, HooksNeedImage,
      Pending, PendingAt, Created, Pristine, Untouched
<1>3. CASE step' = "finished" /\ event' = <<>> /\ fate = "debugged"
  <2>1. /\ fate' # "debugged" /\ (fate' = "killed" => ~debugActive)
        /\ UNCHANGED retryCleanStop
    BY <1>1, <1>3 DEF ControlInv, EventInv
  <2>2. EventInv'
    BY <1>1, <1>3, <2>1 DEF ControlInv, EventInv, Pending
  <2>3. LoopInv'
    BY <1>1, <1>3, <2>1 DEF ControlInv, LoopInv, Pending
  <2>4. CleanedInv' /\ RegistryInv'
    BY <1>3, <2>1 DEF CleanedInv, RegistryInv
  <2>5. StartInv'
    BY <1>1, <1>3, <2>1 DEF ControlInv, StartInv, Untouched
  <2>6. HooksNeedImage'
    BY <1>1 DEF ControlInv, HooksNeedImage
  <2>. QED BY <2>2, <2>3, <2>4, <2>5, <2>6 DEF ControlInv
<1>4. CASE /\ step = "continuing" /\ event' = <<>> /\ step' = "continued"
           /\ UNCHANGED <<fate, debugActive, retryCleanStop>>
  <2>1. fate = "debugged" /\ ExeBase \in announced /\ Created /\ Created'
    BY <1>1, <1>4 DEF ControlInv, EventInv, Created
  <2>2. EventInv'
    BY <1>1, <1>4, <2>1 DEF ControlInv, EventInv, Pending
  <2>3. LoopInv' /\ CleanedInv'
    BY <1>1, <1>4 DEF ControlInv, LoopInv, CleanedInv, Pending
  <2>4. RegistryInv'
    BY <1>1, <1>4, <2>1 DEF ControlInv, RegistryInv, PendingAt, Pending
  <2>5. StartInv'
    BY <1>1, <1>4, <2>1 DEF ControlInv, StartInv, Untouched
  <2>6. HooksNeedImage'
    BY <1>1 DEF ControlInv, HooksNeedImage
  <2>. QED BY <2>2, <2>3, <2>4, <2>5, <2>6 DEF ControlInv
<1>5. CASE /\ step = "continued" /\ step' = "waiting" /\ retryCleanStop' = FALSE
           /\ retryCleanStop \/ (eventOk /\ ~cleanStop)
           /\ UNCHANGED <<fate, debugActive, event>>
  <2>1. /\ fate = "debugged" /\ ExeBase \in announced /\ Created /\ Created'
        /\ ~Pending({"create"}) /\ eventOk /\ ~cleanStop
    BY <1>1, <1>5 DEF ControlInv, EventInv, LoopInv, Created, Pending
  <2>2. EventInv'
    BY <1>1, <1>5, <2>1 DEF ControlInv, EventInv, Pending
  <2>3. LoopInv' /\ CleanedInv'
    BY <1>1, <1>5, <2>1 DEF ControlInv, LoopInv, CleanedInv, Pending
  <2>4. RegistryInv'
    BY <1>1, <1>5, <2>1 DEF ControlInv, RegistryInv, PendingAt, Pending
  <2>5. StartInv'
    BY <1>1, <1>5, <2>1 DEF ControlInv, StartInv, Untouched
  <2>6. HooksNeedImage'
    BY <1>1 DEF ControlInv, HooksNeedImage
  <2>. QED BY <2>2, <2>3, <2>4, <2>5, <2>6 DEF ControlInv
<1>6. step \in {"continuing", "continued"} => fate = "debugged"
  BY DEF ControlInv, EventInv
<1>. QED BY <1>1, <1>2, <1>3, <1>4, <1>5, <1>6
-----------------------------------------------------------------------------
(* The threads: the control invariant, and the calls counted *)

LEMMA ThreadFrames ==
  ASSUME NEW t \in Threads, ThreadStep(t)
  PROVE ThreadFrame /\ Running
BY DEF ThreadStep, HookSteps, CallExport, EnterOriginal, LeavePrologue, EnterPatch,
       JumpToHandler, EnterGuard, CallOriginal, RunTrampoline, ReturnToHandler,
       BeginEmit, FinishEmit, LeaveGuard, ReturnToCaller, Moves

\* Without a patched export no thread gets into a hook.
LEMMA NoPatchNoHook ==
  ASSUME DebugTypeOK, PlacesInv, NEW t \in Threads, ThreadStep(t),
         \A a \in Addresses : code[a] = Original,
         \A u \in Threads : thread[u].at \notin InHook
  PROVE \A u \in Threads : thread'[u].at \notin InHook
<1>1. \/ \E a \in Addresses : CallExport(t, a)
      \/ EnterOriginal(t) \/ LeavePrologue(t)
  <2>1. ~EnterPatch(t)
    BY DEF EnterPatch, PlacesInv, HasAddress
  <2>. QED
    BY <2>1
    DEF ThreadStep, HookSteps, JumpToHandler, EnterGuard, CallOriginal, RunTrampoline,
        ReturnToHandler, BeginEmit, FinishEmit, LeaveGuard, ReturnToCaller, Moves, InHook
<1>2. \E r : thread' = [thread EXCEPT ![t] = r] /\ r.at \in {"entry", "prologue", "outside", "crashed"}
  <2>1. Outside.at = "outside" /\ Crashed.at = "crashed"
    BY DEF Outside, Crashed
  <2>2. ASSUME NEW a \in Addresses, CallExport(t, a)
        PROVE  thread' = [thread EXCEPT ![t] = [Outside EXCEPT !.at = "entry", !.address = a]]
               /\ [Outside EXCEPT !.at = "entry", !.address = a].at = "entry"
    BY <2>2 DEF CallExport, Outside
  <2>3. [thread[t] EXCEPT !.at = "prologue"].at = "prologue"
    BY DEF DebugTypeOK
  <2>4. CASE EnterOriginal(t)
    BY <2>1, <2>3, <2>4 DEF EnterOriginal
  <2>5. CASE LeavePrologue(t)
    BY <2>1, <2>5 DEF LeavePrologue, Executes
  <2>. QED BY <1>1, <2>2, <2>4, <2>5
<1>. QED BY <1>2 DEF InHook, DebugTypeOK

LEMMA ThreadControl ==
  ASSUME DebugTypeOK, PlacesInv, ControlInv, NEW t \in Threads, ThreadStep(t)
  PROVE ControlInv'
<1> USE DEF memoryVars, moduleVars, flagVars, stopVars, loopVars
<1>1. /\ UNCHANGED <<loaded, announced, fate, event, code, slot, trampoline, image, ring,
                     TransportRing, modules, installedHooks, transportConfigured, debugActive,
                     step, eventOk, cleanStop, retryCleanStop>>
  BY ThreadFrames DEF ThreadFrame
<1>2. EventInv' /\ LoopInv' /\ CleanedInv' /\ RegistryInv' /\ HooksNeedImage'
  BY <1>1
  DEF ControlInv, EventInv, LoopInv, CleanedInv, RegistryInv, HooksNeedImage, Pending,
      PendingAt
<1>3. Pristine => Pristine'
  BY <1>1, NoPatchNoHook DEF Pristine, Untouched
<1>4. StartInv'
  BY <1>1, <1>3 DEF ControlInv, StartInv, Created, Pending, Untouched
<1>. QED BY <1>2, <1>4 DEF ControlInv

\* How a step of a thread can change the set of counted calls.
LEMMA GuardedStep ==
  ASSUME DebugTypeOK, NEW t \in Threads, ThreadStep(t), image
  PROVE \/ Guarded' \subseteq Guarded /\ ActiveHookCalls' = ActiveHookCalls
        \/ Guarded' = Guarded \cup {t} /\ ActiveHookCalls' = ActiveHookCalls + 1
        \/ /\ t \in Guarded /\ Guarded' = Guarded \ {t}
           /\ ActiveHookCalls' = ActiveHookCalls - 1
<1> USE DEF GuardedPlaces
<1>1. thread \in [Threads -> ThreadRecord]
  BY DEF DebugTypeOK, ThreadRecord
<1>2. ASSUME NEW r, thread' = [thread EXCEPT ![t] = r],
             r.at \in GuardedPlaces => thread[t].at \in GuardedPlaces
      PROVE  Guarded' \subseteq Guarded
  BY <1>1, <1>2 DEF Guarded
<1>3. ASSUME NEW p, [thread[t] EXCEPT !.at = p].at # p
      PROVE  FALSE
  BY <1>1, <1>3 DEF ThreadRecord
<1>4. Outside.at = "outside" /\ Crashed.at = "crashed"
  BY DEF Outside, Crashed
<1>5. ASSUME NEW from, NEW to, NEW possible, Moves(t, from, possible, to),
             to \in GuardedPlaces => from \in GuardedPlaces
      PROVE  Guarded' \subseteq Guarded /\ ActiveHookCalls' = ActiveHookCalls
  <2>1. \/ thread' = [thread EXCEPT ![t] = [thread[t] EXCEPT !.at = to]]
        \/ thread' = [thread EXCEPT ![t] = Crashed]
    BY <1>5 DEF Moves, Executes
  <2>2. thread[t].at = from /\ ActiveHookCalls' = ActiveHookCalls
    BY <1>5 DEF Moves
  <2>3. [thread[t] EXCEPT !.at = to].at = to
    BY <1>3
  <2>. QED BY <1>2, <1>4, <1>5, <2>1, <2>2, <2>3
<1>6. ASSUME NEW a \in Addresses, CallExport(t, a)
      PROVE  Guarded' \subseteq Guarded /\ ActiveHookCalls' = ActiveHookCalls
  <2>1. [Outside EXCEPT !.at = "entry", !.address = a].at = "entry"
    BY DEF Outside
  <2>. QED BY <1>2, <1>6, <2>1 DEF CallExport
<1>7. CASE EnterOriginal(t)
  BY <1>2, <1>3, <1>4, <1>7 DEF EnterOriginal
<1>8. CASE LeavePrologue(t)
  BY <1>2, <1>4, <1>8 DEF LeavePrologue, Executes
<1>9. CASE EnterPatch(t)
  <2>1. [thread[t] EXCEPT !.at = "jumping", !.hook = code[thread[t].address]].at = "jumping"
    BY <1>1 DEF ThreadRecord
  <2>2. thread' = [thread EXCEPT ![t] =
                     [thread[t] EXCEPT !.at = "jumping", !.hook = code[thread[t].address]]]
    BY <1>1, <1>9 DEF EnterPatch
  <2>. QED BY <1>2, <1>9, <2>1, <2>2 DEF EnterPatch
<1>10. CASE JumpToHandler(t)
  BY <1>5, <1>10 DEF JumpToHandler
<1>11. CASE EnterGuard(t)
  <2>1. /\ thread' = [thread EXCEPT ![t] = [thread[t] EXCEPT !.at = "guarded"]]
        /\ ActiveHookCalls' = ActiveHookCalls + 1
    BY <1>11 DEF EnterGuard, Executes
  <2>2. Guarded' = Guarded \cup {t}
    BY <1>1, <1>3, <2>1 DEF Guarded
  <2>. QED BY <2>1, <2>2
<1>12. CASE CallOriginal(t)
  <2>1. thread[t].at = "guarded"
    BY <1>12 DEF CallOriginal
  <2>2. \E r : thread' = [thread EXCEPT ![t] = r]
    BY <1>12 DEF CallOriginal, Executes
  <2>. QED BY <1>2, <1>12, <2>1, <2>2 DEF CallOriginal
<1>13. CASE RunTrampoline(t)
  <2>1. thread[t].at = "trampoline"
    BY <1>13 DEF RunTrampoline
  <2>2. \E r : thread' = [thread EXCEPT ![t] = r]
    BY <1>13 DEF RunTrampoline, Executes
  <2>. QED BY <1>2, <1>13, <2>1, <2>2 DEF RunTrampoline
<1>14. CASE ReturnToHandler(t)
  BY <1>5, <1>14 DEF ReturnToHandler
<1>15. CASE BeginEmit(t)
  BY <1>5, <1>15 DEF BeginEmit
<1>16. CASE FinishEmit(t)
  BY <1>5, <1>16 DEF FinishEmit
<1>17. CASE LeaveGuard(t)
  <2>1. /\ thread' = [thread EXCEPT ![t] = [thread[t] EXCEPT !.at = "leaving"]]
        /\ ActiveHookCalls' = ActiveHookCalls - 1 /\ thread[t].at = "emitted"
    BY <1>17 DEF LeaveGuard, Executes
  <2>2. t \in Guarded /\ Guarded' = Guarded \ {t}
    BY <1>1, <1>3, <2>1 DEF Guarded
  <2>. QED BY <2>1, <2>2
<1>18. CASE ReturnToCaller(t)
  BY <1>2, <1>4, <1>18 DEF ReturnToCaller, Executes
<1>. QED
  BY <1>6, <1>7, <1>8, <1>9, <1>10, <1>11, <1>12, <1>13, <1>14, <1>15, <1>16,
     <1>17, <1>18 DEF ThreadStep, HookSteps

LEMMA ThreadGuard ==
  ASSUME DebugTypeOK, GuardInv, NEW t \in Threads, ThreadStep(t)
  PROVE GuardInv' /\ ActiveHookCalls' \in Nat
<1>1. image' = image
  BY ThreadFrames DEF ThreadFrame
<1>2. CASE ~image
  <2>1. ActiveHookCalls' = ActiveHookCalls
    BY <1>2
    DEF ThreadStep, HookSteps, CallExport, EnterOriginal, LeavePrologue, EnterPatch,
        JumpToHandler, EnterGuard, CallOriginal, RunTrampoline, ReturnToHandler,
        BeginEmit, FinishEmit, LeaveGuard, ReturnToCaller, Moves
  <2>. QED BY <1>1, <1>2, <2>1 DEF GuardInv, DebugTypeOK
<1>3. CASE image
  <2>1. /\ IsFiniteSet(Guarded) /\ Cardinality(Guarded) \in Nat
        /\ ActiveHookCalls \in Nat /\ ActiveHookCalls >= Cardinality(Guarded)
    BY <1>3, FS_CardinalityType DEF GuardInv, DebugTypeOK
  <2>2. ASSUME Guarded' \subseteq Guarded, ActiveHookCalls' = ActiveHookCalls
        PROVE  GuardInv' /\ ActiveHookCalls' \in Nat
    <3>1. /\ IsFiniteSet(Guarded') /\ Cardinality(Guarded') \in Nat
          /\ Cardinality(Guarded') <= Cardinality(Guarded)
      BY <2>1, <2>2, FS_Subset, FS_CardinalityType
    <3>. QED BY <2>1, <2>2, <3>1 DEF GuardInv
  <2>3. ASSUME Guarded' = Guarded \cup {t}, ActiveHookCalls' = ActiveHookCalls + 1
        PROVE  GuardInv' /\ ActiveHookCalls' \in Nat
    <3>1. /\ IsFiniteSet(Guarded') /\ Cardinality(Guarded') \in Nat
          /\ Cardinality(Guarded') <= Cardinality(Guarded) + 1
      <4>1. /\ IsFiniteSet(Guarded \cup {t})
            /\ \/ Cardinality(Guarded \cup {t}) = Cardinality(Guarded)
               \/ Cardinality(Guarded \cup {t}) = Cardinality(Guarded) + 1
        BY <2>1, FS_AddElement
      <4>. QED BY <2>1, <2>3, <4>1
    <3>. QED BY <2>1, <2>3, <3>1 DEF GuardInv
  <2>4. ASSUME t \in Guarded, Guarded' = Guarded \ {t}, ActiveHookCalls' = ActiveHookCalls - 1
        PROVE  GuardInv' /\ ActiveHookCalls' \in Nat
    <3>1. /\ IsFiniteSet(Guarded') /\ Cardinality(Guarded') \in Nat
          /\ Cardinality(Guarded') = Cardinality(Guarded) - 1
      BY <2>1, <2>4, FS_RemoveElement, FS_CardinalityType
    <3>. QED BY <2>1, <2>4, <3>1 DEF GuardInv
  <2>. QED BY <1>3, <2>2, <2>3, <2>4, GuardedStep
<1>. QED BY <1>2, <1>3
-----------------------------------------------------------------------------
(* Every hook that can be resolved is installed *)

\* Where only modules, hooks and the place in the loop matter.
InstallFrame ==
  UNCHANGED <<event, modules, installedHooks, transportConfigured, step, next, eventOk>>

LEMMA InstallFramed ==
  ASSUME InstallInv, HooksInstalledBeforeContinue, InstallFrame
  PROVE InstallInv' /\ HooksInstalledBeforeContinue'
<1>1. \A h : ResolveHookAddress(h)' = ResolveHookAddress(h)
  BY ResolveFrame DEF InstallFrame
<1>2. \A h : Installed(h)' = Installed(h)
  BY DEF InstallFrame, Installed, InstalledSet
<1>. QED BY <1>1, <1>2 DEF InstallInv, HooksInstalledBeforeContinue, InstallFrame

\* One turn of TryInstallPendingHooks leaves behind a hook that is installed
\* or cannot be resolved.
LEMMA TriedHook ==
  ASSUME DebugTypeOK, InstallInv, TryInstallPendingHook, eventOk'
  PROVE /\ \A i \in 1..next :
             ResolveHookAddress(HookList[i])'.result = "Resolved" => Installed(HookList[i])'
        /\ InstalledSet \subseteq InstalledSet'
<1>0. PICK h : h = HookList[next]
  OBVIOUS
<1> DEFINE found == ResolveHookAddress(h)
<1>1. \A x : ResolveHookAddress(x)' = ResolveHookAddress(x)
  BY ResolveFrame DEF TryInstallPendingHook, moduleVars
<1>2. found.result = "Resolved" /\ ~Installed(h) =>
        \E e \in HookRecord : /\ e.hook = h
                              /\ installedHooks' = Append(installedHooks, e)
  <2>. SUFFICES ASSUME found.result = "Resolved", ~Installed(h)
                PROVE  \E e \in HookRecord : /\ e.hook = h
                                             /\ installedHooks' = Append(installedHooks, e)
    OBVIOUS
  <2>1. PICK outcome : HookFunction(h, found, outcome)
    BY <1>0 DEF TryInstallPendingHook
  <2>2. PICK n \in Trampolines :
          LET bytes == code[found.address]
              patching == Exports[found.address[2]] = "code" /\ outcome # "rejected"
              hooked == patching /\ outcome = "ok"
          IN /\ installedHooks' =
                  IF hooked
                  THEN Append(installedHooks,
                              [hook |-> h, address |-> found.address, trampoline |-> n,
                               bytes |-> bytes, source |-> found.source,
                               target |-> found.target])
                  ELSE installedHooks
             /\ eventOk' = hooked
    BY <2>1 DEF HookFunction
  <2>3. h \in Hooks
    <3>1. next \in 1..Len(HookList)
      BY DebugAssumption DEF TryInstallPendingHook, DebugTypeOK
    <3>. QED BY <1>0, <3>1, HooksAreSymbols
  <2>4. /\ found.address \in Addresses
        /\ found.source \in Bases /\ found.target \in Bases
        /\ code[found.address] \in Hooks \cup {Original}
    BY ResolveSound DEF FindModule, Registered, DebugTypeOK
  <2> DEFINE e == [hook |-> h, address |-> found.address, trampoline |-> n,
                   bytes |-> code[found.address], source |-> found.source,
                   target |-> found.target]
  <2>5. e \in HookRecord /\ e.hook = h
    BY <2>3, <2>4 DEF HookRecord
  <2>6. installedHooks' = Append(installedHooks, e)
    BY <2>2
  <2>. QED BY <2>5, <2>6
<1>3. installedHooks \in Seq(HookRecord)
  BY DEF DebugTypeOK
<1>4. InstalledSet \subseteq InstalledSet'
  <2>1. CASE installedHooks' = installedHooks
    BY <2>1 DEF InstalledSet
  <2>2. ASSUME NEW e \in HookRecord, installedHooks' = Append(installedHooks, e)
        PROVE  InstalledSet \subseteq InstalledSet'
    BY <1>3, <2>2, AppendSet DEF InstalledSet
  <2>3. found.result \in {"Resolved", "Pending", "Error"}
    BY DEF ResolveHookAddress
  <2>4. found.result = "Pending" \/ found.result = "Error" \/ Installed(h)
          => installedHooks' = installedHooks
    BY <1>0 DEF TryInstallPendingHook
  <2>. QED BY <1>2, <2>1, <2>2, <2>3, <2>4
<1>5. found.result = "Resolved" => Installed(h)'
  <2>1. ASSUME NEW e \in HookRecord, e.hook = h, installedHooks' = Append(installedHooks, e)
        PROVE  Installed(h)'
    <3>1. e \in InstalledSet'
      BY <1>3, <2>1, AppendSet DEF InstalledSet
    <3>. QED BY <2>1, <3>1 DEF Installed
  <2>2. Installed(h) => Installed(h)'
    BY <1>4 DEF Installed
  <2>. QED BY <1>2, <2>1, <2>2
<1>6. \A i \in 1..(next - 1) :
        ResolveHookAddress(HookList[i]).result = "Resolved" => Installed(HookList[i])'
  BY <1>4 DEF InstallInv, TryInstallPendingHook, Installed
<1>7. next \in Nat /\ \A i \in 1..next : i = next \/ i \in 1..(next - 1)
  BY DEF DebugTypeOK
<1>. QED BY <1>0, <1>1, <1>4, <1>5, <1>6, <1>7

LEMMA InstallStep ==
  ASSUME DebugTypeOK, ControlInv, InstallInv, HooksInstalledBeforeContinue, DebugNext
  PROVE InstallInv' /\ HooksInstalledBeforeContinue'
<1> USE DEF targetVars, imageVars, memoryVars, moduleVars, flagVars, stopVars, loopVars
<1>1. CASE RequestStop \/ RequestBreak
  BY <1>1, InstallFramed DEF RequestStop, RequestBreak, InstallFrame
<1>2. CASE \E t \in Threads : ThreadStep(t)
  BY <1>2, InstallFramed, ThreadFrames DEF ThreadFrame, InstallFrame
<1>3. step' \notin {"installing", "continuing"} => InstallInv' /\ HooksInstalledBeforeContinue'
  BY DEF InstallInv, HooksInstalledBeforeContinue
<1>4. CASE TargetStep
  <2>1. step' = step /\ event = <<>>
    BY <1>4, TargetEffect DEF ControlInv, TargetFrame
  <2>. QED BY <1>3, <2>1 DEF ControlInv, LoopInv
<1>5. CASE BreakOff \/ ContinueEvent \/ RetryBreak \/ NextEvent \/ Detach
  <2>1. step' \in {"finished", "continued", "waiting"}
    BY <1>5 DEF BreakOff, ContinueEvent, RetryBreak, NextEvent, Detach
  <2>. QED BY <1>3, <2>1
<1>6. step' = "continuing" /\ event' # <<>> /\ event'[1].kind \notin {"create", "load"}
        => InstallInv' /\ HooksInstalledBeforeContinue'
  BY DEF InstallInv, HooksInstalledBeforeContinue
<1>7. CASE HandleUnloadDll \/ HandleBreakpoint \/ HandleOther
  BY <1>3, <1>6, <1>7 DEF HandleUnloadDll, HandleBreakpoint, HandleOther, Takes
<1>8. CASE HandleCreateProcess \/ HandleLoadDll
  <2> DEFINE b == event[1].base
  <2>1. /\ event # <<>> /\ event[1].kind \in {"create", "load"} /\ event' = event
        /\ step = "waiting" /\ next' = 1
    BY <1>8 DEF HandleCreateProcess, HandleLoadDll, Takes
  <2>2. b \in Bases /\ modules[b] = Null
    BY <2>1 DEF ControlInv, EventInv, RegistryInv, PendingAt, Pending
  <2>3. (eventOk' = FALSE /\ step' = "cleaning") \/ RegisterEffect(b)
    BY <1>8, RegisterCases DEF HandleCreateProcess, HandleLoadDll
  <2>4. InstallInv'
    BY <2>1 DEF InstallInv
  <2>5. step' = "continuing" => modules' = modules \/ ~transportConfigured'
    BY <2>3 DEF RegisterEffect
  <2>6. HooksInstalledBeforeContinue'
    BY <2>1, <2>2, <2>5 DEF HooksInstalledBeforeContinue
  <2>. QED BY <2>4, <2>6
<1>9. CASE TryInstallPendingHook
  <2>1. /\ next' = next + 1 /\ next \in Nat
        /\ step' = IF eventOk' THEN "installing" ELSE "cleaning"
    BY <1>9 DEF TryInstallPendingHook, DebugTypeOK
  <2>2. CASE eventOk'
    <3>1. InstallInv'
      BY <1>9, <2>1, <2>2, TriedHook DEF InstallInv
    <3>. QED BY <2>1, <2>2, <3>1 DEF HooksInstalledBeforeContinue
  <2>. QED BY <1>3, <2>1, <2>2
<1>10. CASE AllHooksTried
  <2>1. /\ step = "installing" /\ next > Len(HookList) /\ step' = "continuing"
        /\ UNCHANGED <<modules, installedHooks>>
    BY <1>10 DEF AllHooksTried
  <2>2. \A h \in Hooks : ResolveHookAddress(h).result = "Resolved" => Installed(h)
    <3>1. Len(HookList) \in Nat /\ next \in Nat
      BY DebugAssumption DEF DebugTypeOK
    <3>2. \A i \in 1..Len(HookList) : i \in 1..(next - 1)
      BY <2>1, <3>1
    <3>. QED BY <2>1, <3>2 DEF InstallInv, Hooks
  <2>3. \A h : /\ ResolveHookAddress(h)' = ResolveHookAddress(h)
               /\ Installed(h)' = Installed(h)
    BY <2>1, ResolveFrame DEF Installed, InstalledSet
  <2>. QED BY <2>1, <2>2, <2>3 DEF InstallInv, HooksInstalledBeforeContinue
<1>11. CASE DropHook \/ CleanupHook
  BY <1>3, <1>11 DEF DropHook, CleanupHook
<1>12. CASE ForgetModule
  <2>1. event # <<>> /\ event[1].kind = "unload" /\ event' = event /\ step' = "continuing"
    BY <1>12 DEF ForgetModule, ControlInv, LoopInv, Pending
  <2>. QED BY <1>6, <2>1
<1>13. CASE CleanupImage
  <2>1. /\ event' = event /\ step' = "continuing" /\ eventOk' = eventOk /\ event # <<>>
        /\ event[1].kind = "breakpoint" \/ ~eventOk
    BY <1>13 DEF CleanupImage, ControlInv, LoopInv, Pending
  <2>. QED BY <2>1 DEF InstallInv, HooksInstalledBeforeContinue
<1>. QED
  BY <1>1, <1>2, <1>4, <1>5, <1>7, <1>8, <1>9, <1>10, <1>11, <1>12, <1>13
  DEF DebugNext, LoopStep, HandleEvent

-----------------------------------------------------------------------------
(* The first invariant, whatever fails *)

DebugInv ==
  /\ DebugTypeOK /\ PlacesInv /\ ControlInv /\ GuardInv
  /\ InstallInv /\ HooksInstalledBeforeContinue

LEMMA DebugStart == DebugInit => DebugInv
<1>. SUFFICES ASSUME DebugInit PROVE DebugInv
  OBVIOUS
<1> USE DEF DebugInit
<1>1. DebugTypeOK
  <2>1. /\ loaded \in [Bases -> Modules \cup {NoModule}]
        /\ breaks \in 0..MaxBreaks /\ calls \in [Threads -> 0..MaxCalls]
        /\ next \in 1..(Len(HookList) + 1)
    <3>1. Len(HookList) \in Nat
      BY DebugAssumption
    <3>. QED BY <3>1, DebugAssumption
  <2>2. thread \in [Threads -> ThreadRecord]
    BY RestTypes
  <2>3. installedHooks \in Seq(HookRecord)
    OBVIOUS
  <2>. QED BY <2>1, <2>2, <2>3 DEF DebugTypeOK, ThreadRecord
<1>2. PlacesInv
  BY RestTypes DEF PlacesInv, RestType
<1>3. ControlInv
  <2>1. Outside.at = "outside"
    BY DEF Outside
  <2>2. EventInv
    BY DebugAssumption DEF EventInv, Pending
  <2>3. LoopInv /\ CleanedInv
    BY DEF LoopInv, CleanedInv, Pending
  <2>4. StartInv
    BY <2>1 DEF StartInv, Created, Pristine, Untouched, InHook
  <2>5. RegistryInv /\ HooksNeedImage
    BY DEF RegistryInv, HooksNeedImage
  <2>. QED BY <2>2, <2>3, <2>4, <2>5 DEF ControlInv
<1>4. GuardInv /\ InstallInv /\ HooksInstalledBeforeContinue
  BY DEF GuardInv, InstallInv, HooksInstalledBeforeContinue
<1>. QED BY <1>1, <1>2, <1>3, <1>4 DEF DebugInv

\* The count outside the threads: the image is only ever mapped before any
\* call, and only ever released.
LEMMA GuardKept ==
  ASSUME DebugInv, RequestStop \/ BreakOff \/ LoopStep \/ TargetStep, UNCHANGED thread
  PROVE GuardInv'
<1> USE DEF targetVars, imageVars, memoryVars, moduleVars, flagVars, stopVars, loopVars
<1>1. Guarded' = Guarded
  BY DEF Guarded
<1>2. CASE HandleCreateProcess
  <2>1. /\ step = "waiting" /\ event # <<>> /\ event[1].kind = "create" /\ fate = "debugged"
        /\ ActiveHookCalls' = 0
    BY <1>2
    DEF HandleCreateProcess, Takes, InitializeDebuggee, DebugInv, ControlInv, EventInv
  <2>2. Pristine
    BY <2>1 DEF DebugInv, ControlInv, StartInv, Created, Pending
  <2>3. Guarded = {}
    BY <2>2 DEF Pristine, Guarded, GuardedPlaces, InHook
  <2>. QED BY <1>1, <2>1, <2>3, FS_EmptySet DEF GuardInv
<1>3. CASE ~HandleCreateProcess
  <2>1. ActiveHookCalls' = ActiveHookCalls /\ (image' = image \/ image' = FALSE)
    <3>1. CASE TargetStep
      BY <3>1, TargetEffect DEF TargetFrame, DebugInv, ControlInv
    <3>2. CASE RequestStop \/ BreakOff \/ LoopStep
      BY <1>3, <3>2
      DEF RequestStop, BreakOff, LoopStep, HandleEvent, RequestBreak, HandleLoadDll,
          HandleUnloadDll, HandleBreakpoint, HandleOther, TryInstallPendingHook,
          AllHooksTried, DropHook, ForgetModule, CleanupHook, CleanupImage, ContinueEvent,
          RetryBreak, NextEvent, Detach
    <3>. QED BY <3>1, <3>2
  <2>. QED BY <1>1, <2>1 DEF DebugInv, GuardInv
<1>. QED BY <1>2, <1>3

LEMMA DebugStep == DebugInv /\ [DebugNext]_debugVars => DebugInv'
<1>. SUFFICES ASSUME DebugInv, [DebugNext]_debugVars PROVE DebugInv'
  OBVIOUS
<1>1. CASE RequestStop \/ BreakOff \/ LoopStep
  <2>1. EventTargets
    BY DEF EventTargets, DebugInv, ControlInv, EventInv, LoopInv, Pending
  <2>2. DebugTypeOK' /\ UNCHANGED thread
    BY <1>1, <2>1, LoopTypes DEF DebugInv
  <2>3. PlacesInv'
    BY <2>2 DEF DebugInv, PlacesInv
  <2>4. ControlInv'
    BY <1>1, <2>2, CreateControl, LoadControl, OtherControl, HookControl, HandledControl,
       TailControl
    DEF DebugInv, LoopStep, HandleEvent
  <2>5. GuardInv'
    BY <1>1, <2>2, GuardKept
  <2>6. InstallInv' /\ HooksInstalledBeforeContinue'
    BY <1>1, InstallStep DEF DebugInv, DebugNext
  <2>. QED BY <2>2, <2>3, <2>4, <2>5, <2>6 DEF DebugInv
<1>2. CASE TargetStep
  <2>1. DebugTypeOK' /\ UNCHANGED thread
    BY <1>2, TargetTypes DEF DebugInv
  <2>2. PlacesInv'
    BY <2>1 DEF DebugInv, PlacesInv
  <2>3. ControlInv' /\ GuardInv'
    BY <1>2, <2>1, TargetControl, GuardKept DEF DebugInv
  <2>4. InstallInv' /\ HooksInstalledBeforeContinue'
    BY <1>2, InstallStep DEF DebugInv, DebugNext
  <2>. QED BY <2>1, <2>2, <2>3, <2>4 DEF DebugInv
<1>3. ASSUME NEW t \in Threads, ThreadStep(t)
      PROVE  DebugInv'
  <2>1. ThreadType' /\ PlacesInv' /\ CallsType'
    BY <1>3, ThreadTypes DEF DebugInv
  <2>2. GuardInv' /\ ActiveHookCalls' \in Nat
    BY <1>3, ThreadGuard DEF DebugInv
  <2>3. DebugTypeOK'
    BY <1>3, <2>1, <2>2, ThreadFrames
    DEF DebugInv, DebugTypeOK, ThreadFrame, ThreadType, ThreadRecord, CallsType, memoryVars,
        moduleVars, flagVars, stopVars, loopVars
  <2>4. ControlInv'
    BY <1>3, ThreadControl DEF DebugInv
  <2>5. InstallInv' /\ HooksInstalledBeforeContinue'
    BY <1>3, InstallStep DEF DebugInv, DebugNext
  <2>. QED BY <2>1, <2>2, <2>3, <2>4, <2>5 DEF DebugInv
<1>4. CASE UNCHANGED debugVars
  <2> USE DEF debugVars, targetVars, imageVars, memoryVars, moduleVars, flagVars, stopVars,
              loopVars
  <2>1. DebugTypeOK' /\ PlacesInv'
    BY <1>4 DEF DebugInv, DebugTypeOK, PlacesInv
  <2>2. ControlInv'
    BY <1>4
    DEF DebugInv, ControlInv, EventInv, LoopInv, CleanedInv, StartInv, RegistryInv,
        HooksNeedImage, Pending, PendingAt, Created, Pristine, Untouched
  <2>3. GuardInv'
    BY <1>4 DEF DebugInv, GuardInv, Guarded
  <2>4. InstallInv' /\ HooksInstalledBeforeContinue'
    BY <1>4, InstallFramed DEF DebugInv, InstallFrame
  <2>. QED BY <2>1, <2>2, <2>3, <2>4 DEF DebugInv
<1>. QED BY <1>1, <1>2, <1>3, <1>4 DEF DebugNext

\* The control invariant holds in every reachable state, whatever fails.
THEOREM LoopInvariant == DebugSpec => []DebugInv
BY DebugStart, DebugStep, PTL DEF DebugSpec

\* Every variable keeps its type: the addresses, records and operands the loop
\* and the threads work with are always of their kind.
THEOREM DebugTypeCorrect == DebugSpec => []DebugTypeOK
BY LoopInvariant, PTL DEF DebugInv

\* A target that the controller takes down with it, because the loop ended
\* before debugActive_ was set, is untouched.
THEOREM KilledUntouched == DebugSpec => []KilledOnlyUntouched
<1>1. DebugInv => KilledOnlyUntouched
  BY DEF DebugInv, ControlInv, StartInv, KilledOnlyUntouched, Untouched
<1>. QED BY <1>1, LoopInvariant, PTL

\* TryInstallPendingHooks leaves no hook out that can be resolved.
THEOREM HooksInTime == DebugSpec => []HooksInstalledBeforeContinue
BY LoopInvariant, PTL DEF DebugInv
-----------------------------------------------------------------------------
(* The hook records and the target's memory *)

\* The loop was left by break, perhaps with an unload not handled.
BrokenOff == "DebugApiFails" \in Faults /\ step = "finished"

\* No two records share a symbol, an address or a trampoline.
HooksDistinct ==
  \A i, j \in 1..Len(installedHooks) :
    \/ installedHooks[i].hook = installedHooks[j].hook
    \/ installedHooks[i].address = installedHooks[j].address
    \/ installedHooks[i].trampoline = installedHooks[j].trampoline
    => i = j

\* Whatever is patched or allocated has a record.
PatchesRecorded ==
  /\ \A a \in Addresses : code[a] # Original =>
       \E k \in InstalledSet : k.address = a /\ k.hook = code[a]
  /\ \A n \in Trampolines : trampoline[n] # Null =>
       \E k \in InstalledSet : k.trampoline = n

\* What a record says of its trampoline is so: it runs the export's own bytes.
RecordsSound ==
  \A k \in InstalledSet :
    /\ k.bytes = Original
    /\ trampoline[k.trampoline] = [address |-> k.address, bytes |-> Original]
    /\ slot[k.hook] = k.trampoline
    /\ k.address[1] = k.target

\* What a record says of the export is so, until the module is unloaded.
RecordsCurrent ==
  \A k \in InstalledSet :
    /\ code[k.address] = k.hook \/ PendingAt({"unload"}, k.target) \/ BrokenOff
    /\ loaded[k.target] = ModuleOf[k.address[2]] \/ PendingAt({"unload"}, k.target) \/ BrokenOff
    /\ loaded[k.source] = ModuleOf[k.hook] \/ PendingAt({"unload"}, k.source) \/ BrokenOff

\* An unloaded module takes its patches along, and HandleUnloadDll its records.
UnloadInv ==
  /\ Pending({"unload"}) => \A a \in Addresses : a[1] = event[1].base => code[a] = Original
  /\ (step = "continuing" /\ Pending({"unload"})) =>
       \A k \in InstalledSet : ~Concerns(k, event[1].base)

MemoryInv ==
  HooksDistinct /\ PatchesRecorded /\ RecordsSound /\ RecordsCurrent /\ UnloadInv

\* UnhookFunction restores what it is asked to restore, and PatchFunction
\* leaves no patch behind when it fails.
WritesSucceed == Faults \cap {"UnhookFails", "PatchFails"} = {}

LEMMA OutcomesLimited ==
  ASSUME WritesSucceed
  PROVE /\ UnhookOutcomes = {"ok"} /\ ReleaseOutcomes = {"ok"}
        /\ "patched" \notin HookOutcomes
BY DEF WritesSucceed, UnhookOutcomes, ReleaseOutcomes, HookOutcomes, Outcomes

\* Steps that change neither the memory nor the records.
LEMMA MemoryFramed ==
  ASSUME MemoryInv,
         UNCHANGED <<loaded, code, slot, trampoline, event, installedHooks>>,
         step' = step \/ (step # "finished" /\ (step' = "continuing" => ~Pending({"unload"})))
  PROVE MemoryInv'
<1>1. HooksDistinct' /\ PatchesRecorded' /\ RecordsSound'
  BY DEF MemoryInv, HooksDistinct, PatchesRecorded, RecordsSound, InstalledSet
<1>2. RecordsCurrent'
  BY DEF MemoryInv, RecordsCurrent, InstalledSet, PendingAt, Pending, BrokenOff
<1>3. UnloadInv'
  BY DEF MemoryInv, UnloadInv, InstalledSet, Pending
<1>. QED BY <1>1, <1>2, <1>3 DEF MemoryInv

\* The debug events: a module may appear where none was, or go with its code.
LEMMA MemoryTarget ==
  ASSUME DebugInv, MemoryInv, TargetStep
  PROVE MemoryInv'
<1>1. /\ event = <<>> /\ event' # <<>> /\ fate = "debugged" /\ TargetFrame
      /\ \/ event'[1].kind = "create" /\ Mapped(ExeBase) /\ UNCHANGED loaded
         \/ /\ event'[1].kind = "load" /\ ExeBase \in announced
            /\ \E b \in Bases : Mapped(b)
         \/ /\ event'[1].kind = "unload" /\ ExeBase \in announced
            /\ \E b \in Bases : Unmapped(b)
         \/ /\ event'[1].kind \in {"breakpoint", "exception", "other", "exit"}
            /\ ExeBase \in announced
            /\ UNCHANGED <<loaded, announced, code>>
  BY TargetEffect DEF DebugInv, ControlInv
<1>2. /\ UNCHANGED <<slot, trampoline, installedHooks, step>> /\ InstalledSet' = InstalledSet
  BY <1>1 DEF TargetFrame, loopVars, InstalledSet
<1>3. ~BrokenOff /\ ~Pending({"unload"}) /\ step \in {"waiting", "continued"}
  BY <1>1 DEF DebugInv, DebugTypeOK, ControlInv, EventInv, LoopInv, BrokenOff, Pending
<1>4. \A k \in InstalledSet :
        /\ k \in HookRecord /\ k.address[1] = k.target
        /\ code[k.address] = k.hook
        /\ loaded[k.target] = ModuleOf[k.address[2]] /\ loaded[k.source] = ModuleOf[k.hook]
        /\ loaded[k.target] # NoModule /\ loaded[k.source] # NoModule
  <2>. TAKE k \in InstalledSet
  <2>1. k \in HookRecord
    BY RecordTypes DEF DebugInv
  <2>2. /\ code[k.address] = k.hook
        /\ loaded[k.target] = ModuleOf[k.address[2]] /\ loaded[k.source] = ModuleOf[k.hook]
    BY <1>3 DEF MemoryInv, RecordsCurrent, PendingAt
  <2>3. k.address[2] \in Symbols /\ k.hook \in Symbols
    BY <2>1, HooksAreSymbols DEF HookRecord, Addresses
  <2>4. ModuleOf[k.address[2]] # NoModule /\ ModuleOf[k.hook] # NoModule
    BY <2>3, DebugAssumption
  <2>. QED BY <2>1, <2>2, <2>4 DEF MemoryInv, RecordsSound
<1>5. HooksDistinct' /\ RecordsSound'
  BY <1>2 DEF MemoryInv, HooksDistinct, RecordsSound
<1>6. PatchesRecorded'
  <2>1. \A a \in Addresses : code'[a] # Original => code'[a] = code[a]
    BY <1>1 DEF Mapped, Unmapped
  <2>. QED BY <1>2, <2>1 DEF MemoryInv, PatchesRecorded
<1>7. UnloadInv'
  BY <1>1, <1>2, <1>3 DEF UnloadInv, Pending, Unmapped
<1>8. RecordsCurrent'
  <2>1. CASE UNCHANGED <<loaded, code>>
    BY <1>2, <1>4, <2>1 DEF RecordsCurrent
  <2>2. ASSUME NEW b \in Bases, Mapped(b)
        PROVE  RecordsCurrent'
    <3>1. \A k \in InstalledSet : /\ loaded'[k.target] = loaded[k.target]
                                  /\ loaded'[k.source] = loaded[k.source]
      BY <1>4, <2>2 DEF Mapped, HookRecord
    <3>. QED BY <1>2, <1>4, <2>2, <3>1 DEF RecordsCurrent, Mapped
  <2>3. ASSUME NEW b \in Bases, Unmapped(b), event'[1].kind = "unload"
        PROVE  RecordsCurrent'
    <3>1. PendingAt({"unload"}, b)'
      BY <1>1, <2>3 DEF PendingAt, Pending, Unmapped
    <3>2. \A k \in InstalledSet : /\ k.target # b => /\ loaded'[k.target] = loaded[k.target]
                                                    /\ code'[k.address] = code[k.address]
                                  /\ k.source # b => loaded'[k.source] = loaded[k.source]
      BY <1>4, <2>3 DEF Unmapped, HookRecord, DebugInv, DebugTypeOK
    <3>. QED BY <1>2, <1>4, <3>1, <3>2 DEF RecordsCurrent
  <2>4. ExeBase \in Bases
    BY DebugAssumption
  <2>. QED BY <1>1, <2>1, <2>2, <2>3, <2>4
<1>. QED BY <1>5, <1>6, <1>7, <1>8 DEF MemoryInv
LEMMA RecordsInjective ==
  ASSUME DebugTypeOK, HooksDistinct
  PROVE /\ \A m, n \in 1..Len(installedHooks) :
             installedHooks[m] = installedHooks[n] => m = n
        /\ \A k, l \in InstalledSet :
             k.hook = l.hook \/ k.address = l.address \/ k.trampoline = l.trampoline => k = l
<1>1. \A k \in InstalledSet : \E i \in 1..Len(installedHooks) : k = installedHooks[i]
  BY RecordTypes
<1>. QED BY <1>1 DEF HooksDistinct

\* A hook undone: its record and everything it speaks of go together.
LEMMA MemoryRemove ==
  ASSUME DebugInv, MemoryInv, NEW i \in 1..Len(installedHooks),
         installedHooks' = RemoveAt(installedHooks, i),
         slot' = [slot EXCEPT ![installedHooks[i].hook] = Null],
         trampoline' = [trampoline EXCEPT ![installedHooks[i].trampoline] = Null],
         \/ /\ UNCHANGED code /\ code[installedHooks[i].address] = Original
         \/ code' = [code EXCEPT ![installedHooks[i].address] = Original],
         UNCHANGED <<loaded, event, step>>, step \in {"unloading", "cleaning"}
  PROVE MemoryInv'
<1>1. PICK k : k = installedHooks[i]
  OBVIOUS
<1>2. k \in HookRecord /\ k \in InstalledSet
  BY <1>1, RecordTypes DEF DebugInv
<1>3. /\ installedHooks \in Seq(HookRecord)
      /\ \A m, n \in 1..Len(installedHooks) : installedHooks[m] = installedHooks[n] => m = n
      /\ \A l, m \in InstalledSet :
           l.hook = m.hook \/ l.address = m.address \/ l.trampoline = m.trampoline => l = m
  BY RecordsInjective DEF MemoryInv, DebugInv, DebugTypeOK
<1>4. /\ Len(installedHooks') = Len(installedHooks) - 1
      /\ \A m \in 1..(Len(installedHooks) - 1) :
           installedHooks'[m] = IF m < i THEN installedHooks[m] ELSE installedHooks[m + 1]
      /\ InstalledSet' = InstalledSet \ {k}
  <2>1. /\ Len(RemoveAt(installedHooks, i)) = Len(installedHooks) - 1
        /\ \A m \in 1..(Len(installedHooks) - 1) :
             RemoveAt(installedHooks, i)[m]
               = IF m < i THEN installedHooks[m] ELSE installedHooks[m + 1]
        /\ ToSet(RemoveAt(installedHooks, i)) = ToSet(installedHooks) \ {installedHooks[i]}
    BY <1>3, RemoveDistinct
  <2>. QED BY <1>1, <2>1 DEF InstalledSet
<1>5. /\ slot' = [slot EXCEPT ![k.hook] = Null]
      /\ trampoline' = [trampoline EXCEPT ![k.trampoline] = Null]
      /\ \/ code' = code /\ code[k.address] = Original
         \/ code' = [code EXCEPT ![k.address] = Original]
  BY <1>1
<1>6. /\ k.hook \in Hooks /\ k.address \in Addresses /\ k.trampoline \in Trampolines
      /\ code \in [Addresses -> Hooks \cup {Original}]
      /\ slot \in [Hooks -> Trampolines \cup {Null}]
      /\ DOMAIN trampoline = Trampolines /\ trampoline \in [Trampolines -> Range(trampoline)]
  BY <1>2 DEF HookRecord, DebugInv, DebugTypeOK, Range
<1>7. HooksDistinct'
  <2>. SUFFICES ASSUME NEW m \in 1..Len(installedHooks'), NEW n \in 1..Len(installedHooks'),
                       \/ installedHooks'[m].hook = installedHooks'[n].hook
                       \/ installedHooks'[m].address = installedHooks'[n].address
                       \/ installedHooks'[m].trampoline = installedHooks'[n].trampoline
                PROVE  m = n
    BY DEF HooksDistinct
  <2>1. PICK p \in 1..Len(installedHooks) :
          installedHooks'[m] = installedHooks[p] /\ p = IF m < i THEN m ELSE m + 1
    BY <1>3, <1>4
  <2>2. PICK q \in 1..Len(installedHooks) :
          installedHooks'[n] = installedHooks[q] /\ q = IF n < i THEN n ELSE n + 1
    BY <1>3, <1>4
  <2>3. p = q
    <3>1. \/ installedHooks[p].hook = installedHooks[q].hook
          \/ installedHooks[p].address = installedHooks[q].address
          \/ installedHooks[p].trampoline = installedHooks[q].trampoline
      BY <2>1, <2>2
    <3>. QED BY <3>1 DEF MemoryInv, HooksDistinct
  <2>. QED BY <1>3, <1>4, <2>1, <2>2, <2>3
<1>8. PatchesRecorded'
  <2>1. \A a \in Addresses : code'[a] # Original => a # k.address /\ code'[a] = code[a]
    BY <1>5, <1>6
  <2>2. \A n \in Trampolines : trampoline'[n] # Null =>
          n # k.trampoline /\ trampoline'[n] = trampoline[n]
    BY <1>5, <1>6
  <2>. QED BY <1>4, <2>1, <2>2 DEF MemoryInv, PatchesRecorded
<1>9. \A l \in InstalledSet' :
        /\ l \in InstalledSet /\ l \in HookRecord
        /\ l.hook # k.hook /\ l.address # k.address /\ l.trampoline # k.trampoline
  BY <1>2, <1>3, <1>4, RecordTypes DEF DebugInv
<1>10. \A l \in InstalledSet' :
         /\ code'[l.address] = code[l.address] /\ slot'[l.hook] = slot[l.hook]
         /\ trampoline'[l.trampoline] = trampoline[l.trampoline]
  BY <1>5, <1>6, <1>9 DEF HookRecord
<1>11. RecordsSound'
  BY <1>9, <1>10 DEF MemoryInv, RecordsSound
<1>12. RecordsCurrent'
  BY <1>9, <1>10 DEF MemoryInv, RecordsCurrent, PendingAt, Pending, BrokenOff
<1>13. UnloadInv'
  BY <1>5, <1>6 DEF MemoryInv, UnloadInv, Pending
<1>. QED BY <1>7, <1>8, <1>11, <1>12, <1>13 DEF MemoryInv

\* A hook put in: symbol, address and trampoline are new, and the bytes the
\* trampoline is made of are the export's own.
LEMMA MemoryHook ==
  ASSUME DebugInv, MemoryInv, WritesSucceed, TryInstallPendingHook
  PROVE MemoryInv'
<1> USE DEF targetVars, memoryVars
<1>1. PICK h : h = HookList[next]
  OBVIOUS
<1>2. PICK found : found = ResolveHookAddress(h)
  OBVIOUS
<1>3. /\ step = "installing" /\ h \in Hooks /\ UNCHANGED <<loaded, event>>
      /\ Pending({"create", "load"}) /\ ~Pending({"unload"}) /\ fate = "debugged"
      /\ step' \in {"installing", "cleaning"}
  <2>1. next \in 1..Len(HookList)
    BY DebugAssumption DEF TryInstallPendingHook, DebugInv, DebugTypeOK
  <2>. QED
    BY <1>1, <2>1, HooksAreSymbols
    DEF TryInstallPendingHook, DebugInv, ControlInv, EventInv, LoopInv, Pending
<1>4. CASE UNCHANGED <<memoryVars, installedHooks>>
  BY <1>3, <1>4, MemoryFramed
<1>5. ASSUME ~UNCHANGED <<memoryVars, installedHooks>>
      PROVE  MemoryInv'
  <2>1. /\ ~Installed(h) /\ found.result \notin {"Pending", "Error"}
        /\ ~\E k \in InstalledSet : k.address = found.address
        /\ \E outcome \in HookOutcomes : HookFunction(h, found, outcome)
    BY <1>1, <1>2, <1>5 DEF TryInstallPendingHook
  <2>2. found.result = "Resolved"
    BY <1>2, <2>1 DEF ResolveHookAddress
  <2>3. /\ found.address \in Addresses /\ found.target = found.address[1]
        /\ found.source \in FindModule(ModuleOf[h])
        /\ found.target \in FindModule(ModuleOf[found.address[2]])
    BY <1>2, <2>2, ResolveSound
  <2>4. code[found.address] = Original
    BY <2>1, <2>3 DEF MemoryInv, PatchesRecorded
  <2>5. PICK outcome \in HookOutcomes, n \in Trampolines :
          LET patching == Exports[found.address[2]] = "code" /\ outcome # "rejected"
              hooked == patching /\ outcome = "ok"
          IN /\ trampoline[n] = Null
             /\ slot' = IF patching THEN [slot EXCEPT ![h] = IF hooked THEN n ELSE Null]
                        ELSE slot
             /\ trampoline' = IF hooked
                              THEN [trampoline EXCEPT
                                      ![n] = [address |-> found.address, bytes |-> Original]]
                              ELSE trampoline
             /\ code' = IF patching /\ outcome # "unpatched"
                        THEN [code EXCEPT ![found.address] = h] ELSE code
             /\ installedHooks' =
                  IF hooked
                  THEN Append(installedHooks,
                              [hook |-> h, address |-> found.address, trampoline |-> n,
                               bytes |-> Original, source |-> found.source,
                               target |-> found.target])
                  ELSE installedHooks
    <3>1. PICK outcome \in HookOutcomes : HookFunction(h, found, outcome)
      BY <2>1
    <3>. QED BY <3>1, <2>4 DEF HookFunction
  <2>6. outcome \in {"ok", "rejected", "unpatched"}
    BY DEF HookOutcomes, Outcomes, WritesSucceed
  <2>7. \A k \in InstalledSet :
          /\ k \in HookRecord
          /\ k.hook # h /\ k.address # found.address /\ k.trampoline # n
          /\ k.hook \in Hooks /\ k.address \in Addresses /\ k.trampoline \in Trampolines
    <3>. TAKE k \in InstalledSet
    <3>1. k \in HookRecord /\ k.hook # h /\ k.address # found.address
      BY <2>1, RecordTypes DEF Installed, DebugInv
    <3>2. trampoline[k.trampoline] = [address |-> k.address, bytes |-> Original]
      BY DEF MemoryInv, RecordsSound
    <3>3. [address |-> k.address, bytes |-> Original] # Null
      <4>1. [address |-> k.address, bytes |-> Original]
              \in [address : Addresses, bytes : Symbols \cup {Original}]
        BY <3>1 DEF HookRecord
      <4>. QED BY <4>1, DebugAssumption
    <3>. QED BY <2>5, <3>1, <3>2, <3>3 DEF HookRecord
  <2>8. /\ code \in [Addresses -> Hooks \cup {Original}]
        /\ slot \in [Hooks -> Trampolines \cup {Null}]
        /\ trampoline \in [Trampolines ->
                             [address : Addresses, bytes : Hooks \cup {Original}] \cup {Null}]
        /\ installedHooks \in Seq(HookRecord)
    BY DEF DebugInv, DebugTypeOK
  <2>9. CASE outcome # "ok" \/ Exports[found.address[2]] # "code"
    <3>1. UNCHANGED <<code, trampoline, installedHooks>>
          /\ (slot' = slot \/ slot' = [slot EXCEPT ![h] = Null])
      BY <2>5, <2>6, <2>9
    <3>2. InstalledSet' = InstalledSet
      BY <3>1 DEF InstalledSet
    <3>3. \A k \in InstalledSet : slot'[k.hook] = slot[k.hook]
      BY <2>7, <2>8, <3>1
    <3>4. HooksDistinct' /\ PatchesRecorded' /\ RecordsSound'
      BY <3>1, <3>2, <3>3 DEF MemoryInv, HooksDistinct, PatchesRecorded, RecordsSound
    <3>5. RecordsCurrent' /\ UnloadInv'
      BY <1>3, <3>1, <3>2 DEF MemoryInv, RecordsCurrent, UnloadInv, PendingAt, Pending, BrokenOff
    <3>. QED BY <3>4, <3>5 DEF MemoryInv
  <2>10. CASE outcome = "ok" /\ Exports[found.address[2]] = "code"
    <3>1. PICK e : e = [hook |-> h, address |-> found.address, trampoline |-> n,
                        bytes |-> Original, source |-> found.source,
                        target |-> found.target]
      OBVIOUS
    <3>2. /\ slot' = [slot EXCEPT ![h] = n]
          /\ trampoline' = [trampoline EXCEPT
                              ![n] = [address |-> found.address, bytes |-> Original]]
          /\ code' = [code EXCEPT ![found.address] = h]
          /\ installedHooks' = Append(installedHooks, e)
      BY <2>5, <2>10, <3>1
    <3>3. /\ e \in HookRecord /\ e.hook = h /\ e.address = found.address
          /\ e.trampoline = n /\ e.bytes = Original /\ e.target = found.target
          /\ e.source = found.source
      BY <1>3, <2>3, <3>1 DEF HookRecord, FindModule, Registered
    <3>4. /\ Len(installedHooks') = Len(installedHooks) + 1 /\ Len(installedHooks) \in Nat
          /\ \A m \in 1..Len(installedHooks) : installedHooks'[m] = installedHooks[m]
          /\ installedHooks'[Len(installedHooks) + 1] = e
          /\ InstalledSet' = InstalledSet \cup {e}
      BY <2>8, <3>2, <3>3, AppendSet DEF InstalledSet
    <3>5. HooksDistinct'
      <4>. SUFFICES ASSUME NEW p \in 1..Len(installedHooks'), NEW q \in 1..Len(installedHooks'),
                           \/ installedHooks'[p].hook = installedHooks'[q].hook
                           \/ installedHooks'[p].address = installedHooks'[q].address
                           \/ installedHooks'[p].trampoline = installedHooks'[q].trampoline
                    PROVE  p = q
        BY DEF HooksDistinct
      <4>1. \A m \in 1..Len(installedHooks) :
              /\ installedHooks'[m] = installedHooks[m]
              /\ installedHooks[m].hook # h /\ installedHooks[m].address # found.address
              /\ installedHooks[m].trampoline # n
        BY <2>7, <3>4, RecordTypes DEF DebugInv
      <4>2. CASE p = Len(installedHooks) + 1 \/ q = Len(installedHooks) + 1
        BY <3>3, <3>4, <4>1, <4>2
      <4>3. CASE p \in 1..Len(installedHooks) /\ q \in 1..Len(installedHooks)
        BY <4>1, <4>3 DEF MemoryInv, HooksDistinct
      <4>. QED BY <3>4, <4>2, <4>3
    <3>6. /\ code'[found.address] = h
          /\ \A a \in Addresses : a # found.address => code'[a] = code[a]
          /\ slot'[h] = n /\ \A g \in Hooks : g # h => slot'[g] = slot[g]
          /\ trampoline'[n] = [address |-> found.address, bytes |-> Original]
          /\ \A m \in Trampolines : m # n => trampoline'[m] = trampoline[m]
      BY <1>3, <2>3, <2>8, <3>2
    <3>7. PatchesRecorded'
      BY <3>3, <3>4, <3>6 DEF MemoryInv, PatchesRecorded
    <3>8. \A k \in InstalledSet :
            /\ code'[k.address] = code[k.address] /\ slot'[k.hook] = slot[k.hook]
            /\ trampoline'[k.trampoline] = trampoline[k.trampoline]
      BY <2>7, <3>6
    <3>9. RecordsSound'
      BY <2>3, <3>3, <3>4, <3>6, <3>8 DEF MemoryInv, RecordsSound
    <3>10. RecordsCurrent'
      <4>1. \A b \in Bases : modules[b] # Null => loaded[b] = modules[b].name
        BY <1>3 DEF DebugInv, ControlInv, RegistryInv, PendingAt
      <4>2. loaded[e.target] = ModuleOf[e.address[2]] /\ loaded[e.source] = ModuleOf[e.hook]
        BY <2>3, <3>3, <4>1 DEF FindModule, Registered
      <4>3. code'[e.address] = e.hook
        BY <3>3, <3>6
      <4>4. ~BrokenOff
        BY <1>3 DEF BrokenOff
      <4>5. \A k \in InstalledSet :
              /\ code'[k.address] = k.hook
              /\ loaded[k.target] = ModuleOf[k.address[2]]
              /\ loaded[k.source] = ModuleOf[k.hook]
        BY <1>3, <3>8, <4>4 DEF MemoryInv, RecordsCurrent, PendingAt
      <4>. QED BY <1>3, <3>4, <4>2, <4>3, <4>5 DEF RecordsCurrent
    <3>11. UnloadInv'
      BY <1>3 DEF UnloadInv, Pending
    <3>. QED BY <3>5, <3>7, <3>9, <3>10, <3>11 DEF MemoryInv
  <2>. QED BY <2>9, <2>10
<1>. QED BY <1>4, <1>5

\* The event is over: no record speaks of a module that is gone.
LEMMA MemoryContinue ==
  ASSUME DebugInv, MemoryInv, ContinueEvent \/ Detach \/ BreakOff
  PROVE MemoryInv'
<1> USE DEF targetVars, memoryVars
<1>1. /\ UNCHANGED <<loaded, code, slot, trampoline, installedHooks>> /\ event' = <<>>
      /\ InstalledSet' = InstalledSet
  BY DEF ContinueEvent, Detach, BreakOff, InstalledSet
<1>2. HooksDistinct' /\ PatchesRecorded' /\ RecordsSound' /\ UnloadInv'
  BY <1>1 DEF MemoryInv, HooksDistinct, PatchesRecorded, RecordsSound, UnloadInv, Pending
<1>3. RecordsCurrent'
  <2>1. CASE BreakOff
    BY <2>1 DEF BreakOff, RecordsCurrent, BrokenOff
  <2>2. CASE Detach
    <3>1. installedHooks = <<>>
      BY <2>2 DEF Detach, DebugInv, ControlInv, CleanedInv
    <3>. QED BY <1>1, <3>1 DEF RecordsCurrent, InstalledSet, ToSet
  <2>3. CASE ContinueEvent
    <3>1. step = "continuing"
      BY <2>3 DEF ContinueEvent
    <3>2. \A k \in InstalledSet :
            ~PendingAt({"unload"}, k.target) /\ ~PendingAt({"unload"}, k.source)
      BY <3>1 DEF MemoryInv, UnloadInv, PendingAt, Concerns
    <3>3. ~BrokenOff
      BY <3>1 DEF BrokenOff
    <3>. QED BY <1>1, <3>2, <3>3 DEF MemoryInv, RecordsCurrent
  <2>. QED BY <2>1, <2>2, <2>3
<1>. QED BY <1>2, <1>3 DEF MemoryInv

LEMMA MemoryStep ==
  ASSUME WritesSucceed, DebugInv, MemoryInv, [DebugNext]_debugVars
  PROVE MemoryInv'
<1> USE DEF targetVars, memoryVars, loopVars
<1>1. CASE UNCHANGED debugVars
  BY <1>1, MemoryFramed DEF debugVars
<1>2. CASE TargetStep
  BY <1>2, MemoryTarget
<1>3. CASE \E t \in Threads : ThreadStep(t)
  BY <1>3, ThreadFrames, MemoryFramed DEF ThreadFrame
<1>4. CASE RequestStop \/ RequestBreak
  BY <1>4, MemoryFramed DEF RequestStop, RequestBreak
<1>5. CASE HandleCreateProcess \/ HandleLoadDll \/ HandleBreakpoint \/ HandleOther
  <2>1. /\ UNCHANGED <<loaded, code, slot, trampoline, event, installedHooks>>
        /\ step = "waiting" /\ ~Pending({"unload"})
    BY <1>5
    DEF HandleCreateProcess, HandleLoadDll, HandleBreakpoint, HandleOther, Takes, Pending
  <2>. QED BY <2>1, MemoryFramed
<1>6. CASE HandleUnloadDll
  BY <1>6, MemoryFramed DEF HandleUnloadDll, Takes
<1>7. CASE AllHooksTried \/ CleanupImage
  <2>1. ~Pending({"unload"})
    BY <1>7 DEF AllHooksTried, CleanupImage, DebugInv, ControlInv, LoopInv, Pending
  <2>. QED BY <1>7, <2>1, MemoryFramed DEF AllHooksTried, CleanupImage
<1>8. CASE RetryBreak \/ NextEvent
  BY <1>8, MemoryFramed DEF RetryBreak, NextEvent
<1>9. CASE ContinueEvent \/ Detach \/ BreakOff
  BY <1>9, MemoryContinue
<1>10. CASE TryInstallPendingHook
  BY <1>10, MemoryHook
<1>11. CASE ForgetModule
  <2>1. /\ UNCHANGED <<loaded, code, slot, trampoline, event, installedHooks>>
        /\ InstalledSet' = InstalledSet
        /\ step = "unloading" /\ step' = "continuing"
        /\ \A k \in InstalledSet : ~Concerns(k, event[1].base)
    BY <1>11 DEF ForgetModule, InstalledSet
  <2>2. HooksDistinct' /\ PatchesRecorded' /\ RecordsSound'
    BY <2>1 DEF MemoryInv, HooksDistinct, PatchesRecorded, RecordsSound
  <2>3. RecordsCurrent'
    BY <2>1 DEF MemoryInv, RecordsCurrent, PendingAt, Pending, BrokenOff
  <2>4. UnloadInv'
    BY <2>1 DEF MemoryInv, UnloadInv, Pending
  <2>. QED BY <2>2, <2>3, <2>4 DEF MemoryInv
<1>12. CASE DropHook
  <2>1. PICK i \in 1..Len(installedHooks) :
          /\ Concerns(installedHooks[i], event[1].base)
          /\ \/ /\ installedHooks[i].target = event[1].base
                /\ ReleaseUnloadedHook(installedHooks[i], "ok")
             \/ UnhookFunction(installedHooks[i], "ok")
          /\ installedHooks' = RemoveAt(installedHooks, i)
    BY <1>12, OutcomesLimited DEF DropHook
  <2>2. UNCHANGED <<loaded, event, step>> /\ step = "unloading" /\ Pending({"unload"})
    BY <1>12 DEF DropHook, DebugInv, ControlInv, LoopInv
  <2>3. installedHooks[i] \in HookRecord /\ installedHooks[i] \in InstalledSet
    BY RecordTypes DEF DebugInv
  <2>4. /\ installedHooks[i].bytes = Original
        /\ installedHooks[i].target = event[1].base => code[installedHooks[i].address] = Original
    BY <2>2, <2>3 DEF MemoryInv, RecordsSound, UnloadInv, HookRecord
  <2>5. /\ slot' = [slot EXCEPT ![installedHooks[i].hook] = Null]
        /\ trampoline' = [trampoline EXCEPT ![installedHooks[i].trampoline] = Null]
        /\ \/ UNCHANGED code /\ code[installedHooks[i].address] = Original
           \/ code' = [code EXCEPT ![installedHooks[i].address] = Original]
    BY <2>1, <2>4 DEF ReleaseUnloadedHook, UnhookFunction
  <2>. QED BY <2>1, <2>2, <2>5, MemoryRemove
<1>13. CASE CleanupHook
  <2>1. /\ step = "cleaning" /\ UNCHANGED <<loaded, event, step>>
        /\ UnhookFunction(Last(installedHooks), "ok")
        /\ installedHooks' = Front(installedHooks) /\ installedHooks # <<>>
    BY <1>13, OutcomesLimited DEF CleanupHook
  <2>2. PICK i \in 1..Len(installedHooks) :
          Last(installedHooks) = installedHooks[i]
          /\ Front(installedHooks) = RemoveAt(installedHooks, i)
    BY <2>1, FrontIsRemoveAt DEF DebugInv, DebugTypeOK
  <2>3. installedHooks[i].bytes = Original
    BY RecordTypes DEF DebugInv, MemoryInv, RecordsSound
  <2>4. /\ slot' = [slot EXCEPT ![installedHooks[i].hook] = Null]
        /\ trampoline' = [trampoline EXCEPT ![installedHooks[i].trampoline] = Null]
        /\ code' = [code EXCEPT ![installedHooks[i].address] = Original]
    BY <2>1, <2>2, <2>3 DEF UnhookFunction
  <2>. QED BY <2>1, <2>2, <2>4, MemoryRemove
<1>. QED
  BY <1>1, <1>2, <1>3, <1>4, <1>5, <1>6, <1>7, <1>8, <1>9, <1>10, <1>11, <1>12, <1>13
  DEF DebugNext, LoopStep, HandleEvent

\* The hook records and the target's memory agree in every reachable state, as
\* long as the writes that undo a hook succeed.
THEOREM MemoryInvariant ==
  ASSUME WritesSucceed
  PROVE DebugSpec => [](DebugInv /\ MemoryInv)
<1>1. DebugInit => MemoryInv
  <2>. SUFFICES ASSUME DebugInit PROVE MemoryInv
    OBVIOUS
  <2>1. /\ installedHooks = <<>> /\ event = <<>>
        /\ \A a \in Addresses : code[a] = Original
        /\ \A n \in Trampolines : trampoline[n] = Null
    BY DEF DebugInit
  <2>2. InstalledSet = {}
    BY <2>1 DEF InstalledSet, ToSet
  <2>3. HooksDistinct
    BY <2>1 DEF HooksDistinct
  <2>4. PatchesRecorded /\ RecordsSound /\ RecordsCurrent /\ UnloadInv
    BY <2>1, <2>2 DEF PatchesRecorded, RecordsSound, RecordsCurrent, UnloadInv, Pending
  <2>. QED BY <2>3, <2>4 DEF MemoryInv
<1>2. (DebugInv /\ MemoryInv) /\ [DebugNext]_debugVars => MemoryInv'
  BY MemoryStep
<1>. QED BY <1>1, <1>2, LoopInvariant, PTL DEF DebugSpec

\* Whenever the target runs, a patched export leads to a complete
\* instrumentation: HookFunction is the last thing done for a hook, and its
\* record stays until the patch is gone.
THEOREM PatchedReady ==
  ASSUME WritesSucceed
  PROVE DebugSpec => []PatchedMeansReady
<1>1. DebugInv /\ MemoryInv => PatchedMeansReady
  <2>. SUFFICES ASSUME DebugInv, MemoryInv, NEW a \in Addresses, code[a] # Original
                PROVE  /\ image /\ ring /\ TransportRing /\ transportConfigured
                       /\ slot[code[a]] # Null
                       /\ trampoline[slot[code[a]]] = [address |-> a, bytes |-> Original]
    BY DEF PatchedMeansReady
  <2>1. PICK k \in InstalledSet : k.address = a /\ k.hook = code[a]
    BY DEF MemoryInv, PatchesRecorded
  <2>2. k \in HookRecord /\ installedHooks # <<>>
    BY <2>1, RecordTypes DEF DebugInv
  <2>3. slot[code[a]] = k.trampoline /\ k.trampoline \in Trampolines
        /\ trampoline[k.trampoline] = [address |-> a, bytes |-> Original]
    BY <2>1, <2>2 DEF MemoryInv, RecordsSound, HookRecord
  <2>4. image /\ ring /\ TransportRing /\ transportConfigured
    BY <2>2 DEF DebugInv, ControlInv, HooksNeedImage
  <2>. QED BY <2>3, <2>4, DebugAssumption
<1>. QED BY <1>1, MemoryInvariant, PTL

\* After a clean stop or a failed event the controller lets the target go with
\* nothing of the instrumentation left in it.
THEOREM DetachClean ==
  ASSUME WritesSucceed
  PROVE DebugSpec => []DetachLeavesNothing
<1>1. DebugInv /\ MemoryInv => DetachLeavesNothing
  <2>. SUFFICES ASSUME DebugInv, MemoryInv, step = "continued", cleanStop \/ ~eventOk
                PROVE  /\ \A a \in Addresses : code[a] = Original
                       /\ \A n \in Trampolines : trampoline[n] = Null
                       /\ ~image /\ ~ring
                       /\ installedHooks = <<>>
    BY DEF DetachLeavesNothing
  <2>1. installedHooks = <<>> /\ ~image /\ ~ring
    BY DEF DebugInv, ControlInv, CleanedInv
  <2>2. InstalledSet = {}
    BY <2>1 DEF InstalledSet, ToSet
  <2>. QED BY <2>1, <2>2 DEF MemoryInv, PatchesRecorded
<1>. QED BY <1>1, MemoryInvariant, PTL

\* Whenever the target runs, installedHooks_ lists exactly what is patched and
\* owns every trampoline, unless a failed call of the debug interface ended
\* the loop in front of an unload it never handled.
THEOREM RecordsMatch ==
  ASSUME WritesSucceed
  PROVE DebugSpec => [](~BrokenOff => HooksMatchTarget)
<1>1. DebugInv /\ MemoryInv /\ ~BrokenOff => HooksMatchTarget
  <2>. SUFFICES ASSUME DebugInv, MemoryInv, ~BrokenOff, event = <<>>
                PROVE  /\ {<<k.address, k.hook>> : k \in InstalledSet}
                            = {<<a, code[a]>> : a \in {b \in Addresses : code[b] # Original}}
                       /\ {k.trampoline : k \in InstalledSet}
                            = {n \in Trampolines : trampoline[n] # Null}
                       /\ \A k \in InstalledSet :
                            /\ loaded[k.target] = ModuleOf[k.address[2]]
                            /\ loaded[k.source] = ModuleOf[k.hook]
    BY DEF HooksMatchTarget
  <2>1. \A k \in InstalledSet :
          /\ k.address \in Addresses /\ k.hook # Original /\ code[k.address] = k.hook
          /\ loaded[k.target] = ModuleOf[k.address[2]]
          /\ loaded[k.source] = ModuleOf[k.hook]
    BY RecordTypes, HooksAreSymbols
    DEF DebugInv, HookRecord, MemoryInv, RecordsCurrent, PendingAt, Pending
  <2>2. \A k \in InstalledSet : k.trampoline \in Trampolines /\ trampoline[k.trampoline] # Null
    <3>. TAKE k \in InstalledSet
    <3>1. k \in HookRecord
      BY RecordTypes DEF DebugInv
    <3>2. trampoline[k.trampoline] = [address |-> k.address, bytes |-> Original]
      BY DEF MemoryInv, RecordsSound
    <3>3. [address |-> k.address, bytes |-> Original]
            \in [address : Addresses, bytes : Symbols \cup {Original}]
      BY <3>1 DEF HookRecord
    <3>. QED BY <3>1, <3>2, <3>3, DebugAssumption DEF HookRecord
  <2>3. {<<k.address, k.hook>> : k \in InstalledSet}
          = {<<a, code[a]>> : a \in {b \in Addresses : code[b] # Original}}
    BY <2>1 DEF MemoryInv, PatchesRecorded
  <2>4. {k.trampoline : k \in InstalledSet} = {n \in Trampolines : trampoline[n] # Null}
    BY <2>2 DEF MemoryInv, PatchesRecorded
  <2>. QED BY <2>1, <2>3, <2>4
<1>. QED BY <1>1, MemoryInvariant, PTL

-----------------------------------------------------------------------------
(* The threads inside hooks *)

\* UnloadModule spares the modules a call came through, no thread is stopped
\* in the bytes a patch replaces, and the writes that undo a hook succeed.
CallsSpared ==
  WritesSucceed /\ Faults \cap {"StopsInPrologue", "UnloadsDuringCall"} = {}

\* The places from which the patch, the handler's trampoline variable or the
\* trampoline are still needed.
NeedsHook == {"jumping", "handler", "guarded", "trampoline"}

\* A call in a hook finds everything it has still to run through, and an
\* unload that is not handled yet concerns none of it.
CallSafe(t) ==
  /\ thread[t].at \notin {"prologue", "crashed"}
  /\ thread[t].at \in NeedsHook => code[thread[t].address] = thread[t].hook
  /\ thread[t].at = "trampoline" => thread[t].via = slot[thread[t].hook]
  /\ thread[t].at \in InHook => image /\ ring
  /\ (thread[t].at \in InHook /\ Pending({"unload"})) =>
       /\ thread[t].address[1] # event[1].base
       /\ \A k \in InstalledSet :
            k.source = event[1].base => k.address # thread[t].address

\* A failed event undoes the hooks without asking where the threads are.
ThreadInv ==
  /\ eventOk => \A t \in Threads : CallSafe(t)
  /\ CleanStopQuiet

\* A call that needs a hook finds its record.
LEMMA CallRecorded ==
  ASSUME DebugInv, MemoryInv, NEW t \in Threads, CallSafe(t), thread[t].at \in NeedsHook
  PROVE \E k \in InstalledSet :
          /\ k \in HookRecord /\ k.address = thread[t].address /\ k.hook = thread[t].hook
          /\ slot[k.hook] = k.trampoline /\ k.trampoline \in Trampolines
          /\ trampoline[k.trampoline] = [address |-> k.address, bytes |-> Original]
<1>1. thread[t].address \in Addresses /\ thread[t].hook \in Hooks
  BY DEF DebugInv, PlacesInv, HasAddress, InHook, NeedsHook
<1>2. code[thread[t].address] = thread[t].hook /\ thread[t].hook # Original
  BY <1>1, HooksAreSymbols DEF CallSafe
<1>3. PICK k \in InstalledSet : k.address = thread[t].address /\ k.hook = thread[t].hook
  BY <1>1, <1>2 DEF MemoryInv, PatchesRecorded
<1>4. k \in HookRecord
  BY RecordTypes DEF DebugInv
<1>. QED BY <1>3, <1>4 DEF MemoryInv, RecordsSound, HookRecord

\* What CallSafe asks of a record r that a thread may hold while the target
\* runs.
Resting(r) ==
  /\ r.at \notin {"prologue", "crashed"}
  /\ r.at \in NeedsHook => code[r.address] = r.hook
  /\ r.at = "trampoline" => r.via = slot[r.hook]
  /\ r.at \in InHook => image /\ ring

\* No step of a thread takes it to where it would be lost.
LEMMA CallStep ==
  ASSUME CallsSpared, DebugInv, MemoryInv, eventOk, \A u \in Threads : CallSafe(u),
         NEW t \in Threads, ThreadStep(t)
  PROVE \E r : Resting(r) /\ thread' = [thread EXCEPT ![t] = r]
<1> USE DEF NeedsHook, InHook
<1>1. /\ thread \in [Threads -> ThreadRecord] /\ CallSafe(t)
      /\ thread[t] \in ThreadRecord
  BY DEF DebugInv, DebugTypeOK, ThreadRecord
<1>2. /\ Resting(Outside)
      /\ \A a : Resting([Outside EXCEPT !.at = "entry", !.address = a])
  BY DEF Resting, Outside
<1>3. ASSUME NEW from \in InHook, NEW to \in InHook, Moves(t, from, TRUE, to),
             to \in NeedsHook => from \in NeedsHook, to # "trampoline"
      PROVE  \E r : Resting(r) /\ thread' = [thread EXCEPT ![t] = r]
  <2>1. Resting([thread[t] EXCEPT !.at = to])
    BY <1>1, <1>3 DEF Moves, Resting, CallSafe, ThreadRecord
  <2>. QED BY <1>3, <2>1 DEF Moves, Executes
<1>4. CASE \E a \in Addresses : CallExport(t, a)
  BY <1>2, <1>4 DEF CallExport
<1>5. CASE EnterOriginal(t)
  BY <1>2, <1>5 DEF EnterOriginal, CallsSpared
<1>6. CASE LeavePrologue(t)
  BY <1>1, <1>6 DEF LeavePrologue, CallSafe
<1>7. CASE EnterPatch(t)
  <2>1. PICK r : r = [thread[t] EXCEPT !.at = "jumping", !.hook = code[thread[t].address]]
    OBVIOUS
  <2>2. /\ r.at = "jumping" /\ r.address = thread[t].address
        /\ r.hook = code[thread[t].address] /\ thread' = [thread EXCEPT ![t] = r]
    BY <1>1, <1>7, <2>1 DEF EnterPatch, ThreadRecord
  <2>3. thread[t].address \in Addresses /\ code[thread[t].address] # Original
    BY <1>7 DEF EnterPatch, DebugInv, PlacesInv, HasAddress
  <2>4. installedHooks # <<>>
    <3>1. PICK k \in InstalledSet : TRUE
      BY <2>3 DEF MemoryInv, PatchesRecorded
    <3>. QED BY <3>1, RecordTypes DEF DebugInv
  <2>5. image /\ ring
    BY <2>4 DEF DebugInv, ControlInv, HooksNeedImage
  <2>. QED BY <2>2, <2>5 DEF Resting
<1>8. CASE JumpToHandler(t)
  <2>1. code[thread[t].address] = thread[t].hook
    BY <1>1, <1>8 DEF JumpToHandler, Moves, CallSafe
  <2>. QED BY <1>3, <1>8, <2>1 DEF JumpToHandler
<1>9. CASE EnterGuard(t)
  <2>1. image /\ Resting([thread[t] EXCEPT !.at = "guarded"])
    BY <1>1, <1>9 DEF EnterGuard, Resting, CallSafe, ThreadRecord
  <2>. QED BY <1>9, <2>1 DEF EnterGuard, Executes
<1>10. CASE CallOriginal(t)
  <2>1. PICK r : r = [thread[t] EXCEPT !.at = "trampoline", !.via = slot[thread[t].hook]]
    OBVIOUS
  <2>2. thread[t].at = "guarded" /\ image /\ ring
        /\ code[thread[t].address] = thread[t].hook
    BY <1>1, <1>10 DEF CallOriginal, CallSafe
  <2>3. slot[thread[t].hook] # Null
    <3>1. \E k \in InstalledSet :
            slot[thread[t].hook] = k.trampoline /\ k.trampoline \in Trampolines
      BY <1>1, <2>2, CallRecorded
    <3>. QED BY <3>1, DebugAssumption
  <2>4. thread' = [thread EXCEPT ![t] = r]
    BY <1>10, <2>1, <2>2, <2>3 DEF CallOriginal, Executes
  <2>5. r.at = "trampoline" /\ r.hook = thread[t].hook /\ r.address = thread[t].address
        /\ r.via = slot[thread[t].hook]
    BY <1>1, <2>1 DEF ThreadRecord
  <2>. QED BY <2>2, <2>4, <2>5 DEF Resting
<1>11. CASE RunTrampoline(t)
  <2>1. thread[t].at = "trampoline" /\ image /\ ring
        /\ thread[t].via = slot[thread[t].hook]
    BY <1>1, <1>11 DEF RunTrampoline, CallSafe
  <2>2. PICK k \in HookRecord :
          /\ slot[thread[t].hook] = k.trampoline
          /\ trampoline[k.trampoline] = [address |-> k.address, bytes |-> Original]
    BY <1>1, <2>1, CallRecorded
  <2>3. [address |-> k.address, bytes |-> Original] # Null
    <3>1. [address |-> k.address, bytes |-> Original]
            \in [address : Addresses, bytes : Symbols \cup {Original}]
      BY DEF HookRecord
    <3>. QED BY <3>1, DebugAssumption
  <2>4. PICK r : r = [thread[t] EXCEPT !.at = "original", !.address = k.address]
    OBVIOUS
  <2>5. thread' = [thread EXCEPT ![t] = r]
    BY <1>11, <2>1, <2>2, <2>3, <2>4 DEF RunTrampoline, Executes
  <2>6. r.at = "original"
    BY <1>1, <2>4 DEF ThreadRecord
  <2>. QED BY <2>1, <2>5, <2>6 DEF Resting
<1>12. CASE ReturnToHandler(t)
  <2>1. image
    BY <1>1, <1>12 DEF ReturnToHandler, Moves, CallSafe
  <2>. QED BY <1>3, <1>12, <2>1 DEF ReturnToHandler
<1>13. CASE BeginEmit(t)
  <2>1. image
    BY <1>1, <1>13 DEF BeginEmit, Moves, CallSafe
  <2>. QED BY <1>3, <1>13, <2>1 DEF BeginEmit
<1>14. CASE FinishEmit(t)
  <2>1. image /\ ring
    BY <1>1, <1>14 DEF FinishEmit, Moves, CallSafe
  <2>. QED BY <1>3, <1>14, <2>1 DEF FinishEmit
<1>15. CASE LeaveGuard(t)
  <2>1. image /\ Resting([thread[t] EXCEPT !.at = "leaving"])
    BY <1>1, <1>15 DEF LeaveGuard, Resting, CallSafe, ThreadRecord
  <2>. QED BY <1>15, <2>1 DEF LeaveGuard, Executes
<1>16. CASE ReturnToCaller(t)
  <2>1. image
    BY <1>1, <1>16 DEF ReturnToCaller, CallSafe
  <2>. QED BY <1>2, <1>16, <2>1 DEF ReturnToCaller, Executes
<1>. QED
  BY <1>4, <1>5, <1>6, <1>7, <1>8, <1>9, <1>10, <1>11, <1>12, <1>13, <1>14, <1>15, <1>16
  DEF ThreadStep, HookSteps

LEMMA CallsStep ==
  ASSUME CallsSpared, DebugInv, MemoryInv, ThreadInv, NEW t \in Threads, ThreadStep(t)
  PROVE ThreadInv'
<1>1. /\ UNCHANGED <<event, code, slot, image, ring, installedHooks, eventOk, step,
                     cleanStop>>
      /\ event = <<>>
  BY ThreadFrames DEF ThreadFrame, Running, memoryVars, loopVars
<1>2. CleanStopQuiet'
  BY <1>1 DEF DebugInv, ControlInv, LoopInv, CleanStopQuiet
<1>3. ASSUME eventOk, NEW u \in Threads
      PROVE  CallSafe(u)'
  <2>1. \A v \in Threads : CallSafe(v)
    BY <1>3 DEF ThreadInv
  <2>2. PICK r : Resting(r) /\ thread' = [thread EXCEPT ![t] = r]
    BY <1>3, <2>1, CallStep
  <2>3. thread'[u] = IF u = t THEN r ELSE thread[u]
    BY <2>2 DEF DebugInv, DebugTypeOK
  <2>4. CASE u = t
    BY <1>1, <2>2, <2>3, <2>4 DEF CallSafe, Resting, Pending
  <2>5. CASE u # t
    BY <1>1, <2>1, <2>3, <2>5 DEF CallSafe, Pending
  <2>. QED BY <2>4, <2>5
<1>. QED BY <1>1, <1>2, <1>3 DEF ThreadInv

\* Steps of the others: the threads stay where they are, and every record is
\* kept that a call in a hook may need.
LEMMA CallsKept ==
  ASSUME DebugInv, MemoryInv, MemoryInv', UNCHANGED <<thread, image, ring>>,
         \A t \in Threads : CallSafe(t), step' # "finished",
         \A t \in Threads : thread[t].at \in InHook =>
           /\ \A k \in InstalledSet : k.address = thread[t].address => k \in InstalledSet'
           /\ Pending({"unload"})' =>
                /\ thread[t].address[1] # event'[1].base
                /\ \A k \in InstalledSet' :
                     k.source = event'[1].base => k.address # thread[t].address
  PROVE \A t \in Threads : CallSafe(t)'
<1>. SUFFICES ASSUME NEW t \in Threads PROVE CallSafe(t)'
  OBVIOUS
<1>1. CASE thread[t].at \in NeedsHook
  <2>1. PICK k \in InstalledSet :
          /\ k \in HookRecord /\ k.address = thread[t].address /\ k.hook = thread[t].hook
          /\ slot[k.hook] = k.trampoline
    BY <1>1, CallRecorded
  <2>2. thread[t].at \in InHook
    BY <1>1 DEF NeedsHook, InHook
  <2>3. k \in InstalledSet'
    BY <2>1, <2>2
  <2>4. slot'[k.hook] = k.trampoline /\ k.address[1] = k.target
    BY <2>3 DEF MemoryInv, RecordsSound
  <2>5. ~PendingAt({"unload"}, k.target)' /\ ~BrokenOff'
    BY <2>1, <2>2, <2>4 DEF PendingAt, Pending, BrokenOff
  <2>6. code'[k.address] = k.hook
    BY <2>3, <2>5 DEF MemoryInv, RecordsCurrent
  <2>. QED BY <2>1, <2>2, <2>4, <2>6 DEF CallSafe
<1>2. CASE thread[t].at \notin NeedsHook
  BY <1>2 DEF CallSafe, NeedsHook
<1>. QED BY <1>1, <1>2

\* Steps that leave the memory and the records alone.
LEMMA CallsFramed ==
  ASSUME UNCHANGED <<thread, code, slot, image, ring, installedHooks>>,
         event' = event \/ ~Pending({"unload"})',
         \A t \in Threads : CallSafe(t)
  PROVE \A t \in Threads : CallSafe(t)'
BY DEF CallSafe, InstalledSet, Pending

\* A thread that is in no hook needs nothing.
LEMMA CallsQuiet ==
  ASSUME UNCHANGED thread, \A t \in Threads : CallSafe(t),
         \A t \in Threads : thread[t].at \notin InHook
  PROVE \A t \in Threads : CallSafe(t)'
<1>1. NeedsHook \subseteq InHook
  BY DEF NeedsHook, InHook
<1>. QED BY <1>1 DEF CallSafe, InHook

\* The quiescence test sees every call that is in a hook.
LEMMA QuiescenceSeesCalls ==
  ASSUME DebugInv, MemoryInv, \A t \in Threads : CallSafe(t), image, IsCleanupQuiescent
  PROVE /\ ActiveHookCalls = 0
        /\ \A t \in Threads : thread[t].at \notin InHook
<1>1. ActiveHookCalls = 0 /\ \A t \in Threads : ~IsInstrumentationAddress(t)
  BY DEF IsCleanupQuiescent
<1>2. Guarded = {}
  <2>1. IsFiniteSet(Guarded) /\ Cardinality(Guarded) \in Nat /\ Cardinality(Guarded) <= 0
    BY <1>1, FS_CardinalityType DEF DebugInv, GuardInv
  <2>. QED BY <2>1, FS_EmptySet
<1>3. ASSUME NEW t \in Threads, thread[t].at = "jumping"
      PROVE  FALSE
  <2>1. \E k \in InstalledSet : k.address = thread[t].address
    BY <1>3, CallRecorded DEF NeedsHook
  <2>. QED BY <1>1, <1>3, <2>1 DEF IsInstrumentationAddress
<1>4. ASSUME NEW t \in Threads, thread[t].at \in {"handler", "leaving"}
      PROVE  FALSE
  BY <1>1, <1>4 DEF IsInstrumentationAddress
<1>5. ASSUME NEW t \in Threads, thread[t].at \in GuardedPlaces
      PROVE  FALSE
  BY <1>2, <1>5 DEF Guarded
<1>. QED BY <1>1, <1>3, <1>4, <1>5 DEF InHook, GuardedPlaces

\* The debug events: an unload spares the calls that came through its module.
LEMMA CallsTarget ==
  ASSUME CallsSpared, DebugInv, MemoryInv, MemoryInv', TargetStep,
         \A t \in Threads : CallSafe(t)
  PROVE \A t \in Threads : CallSafe(t)'
<1>1. /\ UNCHANGED <<thread, image, ring, step, slot, installedHooks>>
      /\ InstalledSet' = InstalledSet
      /\ event = <<>> /\ fate = "debugged" /\ event' # <<>>
  BY TargetEffect DEF TargetFrame, DebugInv, ControlInv, imageVars, loopVars, InstalledSet
<1>2. step' # "finished"
  BY <1>1 DEF DebugInv, ControlInv, EventInv
<1>3. CASE \E b \in Bases : UnloadModule(b)
  <2>1. PICK b \in Bases : UnloadModule(b)
    BY <1>3
  <2>2. /\ event'[1].base = b
        /\ \A t \in Threads : thread[t].address # Null => thread[t].address[1] # b
        /\ \A k \in InstalledSet : k.source = b =>
             \A t \in Threads : thread[t].address # k.address
    BY <2>1 DEF UnloadModule, Raise, CallsSpared
  <2>3. \A t \in Threads : thread[t].at \in InHook => thread[t].address # Null
    BY DebugAssumption DEF DebugInv, PlacesInv, HasAddress
  <2>. QED BY <1>1, <1>2, <2>2, <2>3, CallsKept
<1>4. CASE ~\E b \in Bases : UnloadModule(b)
  <2>1. ~Pending({"unload"})' /\ UNCHANGED code
    BY <1>4, DebugAssumption
    DEF TargetStep, AnnounceModule, LoadModule, BreakIn, RaiseOther, ExitProcess, Raise,
        Pending, memoryVars
  <2>. QED BY <1>1, <2>1, CallsFramed
<1>. QED BY <1>3, <1>4

\* A hook dropped with a module was not in use.
LEMMA CallsDrop ==
  ASSUME DebugInv, MemoryInv, MemoryInv', DropHook, \A t \in Threads : CallSafe(t)
  PROVE \A t \in Threads : CallSafe(t)'
<1>1. PICK i \in 1..Len(installedHooks) :
        /\ Concerns(installedHooks[i], event[1].base)
        /\ installedHooks' = RemoveAt(installedHooks, i)
  BY DEF DropHook
<1>2. /\ UNCHANGED <<thread, image, ring, step, event>>
      /\ step' # "finished" /\ Pending({"unload"})
  BY DEF DropHook, DebugInv, ControlInv, LoopInv, targetVars, imageVars, loopVars
<1>3. InstalledSet' = InstalledSet \ {installedHooks[i]}
  <2>1. /\ installedHooks \in Seq(HookRecord)
        /\ \A m, n \in 1..Len(installedHooks) : installedHooks[m] = installedHooks[n] => m = n
    BY RecordsInjective DEF MemoryInv, DebugInv, DebugTypeOK
  <2>2. ToSet(RemoveAt(installedHooks, i)) = ToSet(installedHooks) \ {installedHooks[i]}
    BY <2>1, RemoveDistinct
  <2>. QED BY <1>1, <2>2 DEF InstalledSet
<1>4. installedHooks[i] \in InstalledSet
  BY RecordTypes DEF DebugInv
<1>5. ASSUME NEW t \in Threads, thread[t].at \in InHook
      PROVE  thread[t].address # installedHooks[i].address
  <2>1. /\ thread[t].address[1] # event[1].base
        /\ installedHooks[i].source = event[1].base
             => installedHooks[i].address # thread[t].address
    BY <1>2, <1>4, <1>5 DEF CallSafe
  <2>2. installedHooks[i].address[1] = installedHooks[i].target
    BY <1>4 DEF MemoryInv, RecordsSound
  <2>. QED BY <1>1, <2>1, <2>2 DEF Concerns
<1>6. ASSUME NEW t \in Threads, thread[t].at \in InHook
      PROVE  /\ \A k \in InstalledSet : k.address = thread[t].address => k \in InstalledSet'
             /\ thread[t].address[1] # event'[1].base
             /\ \A k \in InstalledSet' :
                  k.source = event'[1].base => k.address # thread[t].address
  BY <1>2, <1>3, <1>5, <1>6 DEF CallSafe
<1>. QED BY <1>2, <1>6, CallsKept

LEMMA ThreadInvStep ==
  ASSUME CallsSpared, DebugInv, MemoryInv, MemoryInv', ThreadInv, [DebugNext]_debugVars
  PROVE ThreadInv'
<1> USE DEF targetVars, memoryVars, imageVars, moduleVars, flagVars, stopVars, loopVars
<1> DEFINE Calls == \A t \in Threads : CallSafe(t)
<1>1. step = "waiting" => eventOk
  BY DEF DebugInv, ControlInv, LoopInv
<1>2. ASSUME eventOk' => eventOk /\ Calls', CleanStopQuiet'
      PROVE  ThreadInv'
  BY <1>2 DEF ThreadInv
<1>3. CASE \E t \in Threads : ThreadStep(t)
  BY <1>3, CallsStep
<1>4. CASE TargetStep
  <2>1. UNCHANGED <<eventOk, step>> /\ event = <<>>
    BY <1>4, TargetEffect DEF TargetFrame, DebugInv, ControlInv
  <2>2. CleanStopQuiet'
    BY <2>1 DEF DebugInv, ControlInv, LoopInv, CleanStopQuiet
  <2>3. eventOk => Calls'
    BY <1>4, CallsTarget DEF ThreadInv
  <2>. QED BY <1>2, <2>1, <2>2, <2>3
<1>5. CASE UNCHANGED debugVars
  <2>1. eventOk => Calls'
    BY <1>5, CallsFramed DEF debugVars, ThreadInv
  <2>. QED BY <1>5, <2>1 DEF debugVars, ThreadInv, CleanStopQuiet
<1>6. CASE \/ RequestStop \/ RequestBreak \/ BreakOff \/ ContinueEvent \/ RetryBreak
           \/ NextEvent \/ Detach \/ AllHooksTried \/ ForgetModule
  <2>1. /\ UNCHANGED <<thread, code, slot, image, ring, installedHooks, eventOk, cleanStop,
                       ActiveHookCalls>>
        /\ event' = event \/ event' = <<>>
        /\ step' = step \/ step' # "cleaning"
    BY <1>6
    DEF RequestStop, RequestBreak, BreakOff, ContinueEvent, RetryBreak, NextEvent, Detach,
        AllHooksTried, ForgetModule
  <2>2. eventOk => Calls'
    BY <2>1, CallsFramed DEF ThreadInv, Pending
  <2>3. CleanStopQuiet'
    BY <2>1 DEF ThreadInv, CleanStopQuiet
  <2>. QED BY <1>2, <2>1, <2>2, <2>3
<1>7. CASE HandleLoadDll \/ HandleUnloadDll \/ HandleOther
  <2>1. /\ UNCHANGED <<thread, code, slot, image, ring, installedHooks, event>>
        /\ step = "waiting" /\ cleanStop' = FALSE
    BY <1>7 DEF HandleLoadDll, HandleUnloadDll, HandleOther, Takes
  <2>2. Calls'
    BY <1>1, <2>1, CallsFramed DEF ThreadInv
  <2>. QED BY <1>1, <1>2, <2>1, <2>2 DEF CleanStopQuiet
<1>8. CASE HandleCreateProcess
  <2>1. UNCHANGED thread /\ cleanStop' = FALSE /\ step = "waiting" /\ Pending({"create"})
    BY <1>8 DEF HandleCreateProcess, Takes, Pending
  <2>2. Pristine
    BY <2>1 DEF DebugInv, ControlInv, EventInv, StartInv, Created
  <2>3. Calls'
    BY <1>1, <2>1, <2>2, CallsQuiet DEF ThreadInv, Pristine
  <2>. QED BY <1>1, <1>2, <2>1, <2>3 DEF CleanStopQuiet
<1>9. CASE HandleBreakpoint
  <2>1. /\ UNCHANGED <<thread, code, slot, image, ring, installedHooks, event,
                       ActiveHookCalls>>
        /\ step = "waiting" /\ Pending({"breakpoint"})
        /\ cleanStop' => IsCleanupQuiescent
    BY <1>9 DEF HandleBreakpoint, Takes, Pending
  <2>2. Calls
    BY <1>1, <2>1 DEF ThreadInv
  <2>3. Calls'
    BY <2>1, <2>2, CallsFramed
  <2>4. image
    BY <1>1, <2>1
    DEF DebugInv, ControlInv, EventInv, LoopInv, StartInv, Created, Pending
  <2>5. CleanStopQuiet'
    BY <2>1, <2>2, <2>4, QuiescenceSeesCalls DEF CleanStopQuiet
  <2>. QED BY <1>1, <1>2, <2>1, <2>3, <2>5
<1>10. CASE TryInstallPendingHook
  <2>1. /\ UNCHANGED <<thread, image, ring, event, cleanStop>> /\ step = "installing"
        /\ step' # "finished"
    BY <1>10 DEF TryInstallPendingHook
  <2>2. eventOk /\ ~cleanStop /\ ~Pending({"unload"})
    BY <2>1 DEF DebugInv, ControlInv, LoopInv, Pending
  <2>3. eventOk' => InstalledSet \subseteq InstalledSet'
    BY <1>10, TriedHook DEF DebugInv
  <2>4. eventOk' => Calls'
    BY <2>1, <2>2, <2>3, CallsKept DEF ThreadInv, Pending
  <2>. QED BY <1>2, <2>1, <2>2, <2>4 DEF CleanStopQuiet
<1>11. CASE DropHook
  <2>1. step' = step /\ step = "unloading" /\ UNCHANGED eventOk
    BY <1>11 DEF DropHook
  <2>2. eventOk => Calls'
    BY <1>11, CallsDrop DEF ThreadInv
  <2>. QED BY <1>2, <2>1, <2>2 DEF CleanStopQuiet
<1>12. CASE CleanupHook \/ CleanupImage
  <2>1. /\ UNCHANGED <<thread, eventOk, cleanStop, ActiveHookCalls>> /\ step = "cleaning"
    BY <1>12 DEF CleanupHook, CleanupImage
  <2>2. eventOk => cleanStop
    BY <2>1 DEF DebugInv, ControlInv, LoopInv
  <2>3. eventOk => Calls'
    BY <2>1, <2>2, CallsQuiet DEF ThreadInv, CleanStopQuiet
  <2>4. CleanStopQuiet'
    BY <2>1 DEF ThreadInv, CleanStopQuiet
  <2>. QED BY <1>2, <2>1, <2>3, <2>4
<1>. QED
  BY <1>3, <1>4, <1>5, <1>6, <1>7, <1>8, <1>9, <1>10, <1>11, <1>12
  DEF DebugNext, LoopStep, HandleEvent

\* Every call in a hook finds what it needs, until an event has failed.
THEOREM ThreadInvariant ==
  ASSUME CallsSpared
  PROVE DebugSpec => []ThreadInv
<1>1. WritesSucceed
  BY DEF CallsSpared
<1>2. DebugInit => ThreadInv
  BY DEF DebugInit, ThreadInv, CallSafe, CleanStopQuiet, Outside, NeedsHook, InHook
<1>3. DebugInv /\ MemoryInv /\ (DebugInv /\ MemoryInv)' /\ ThreadInv /\ [DebugNext]_debugVars
        => ThreadInv'
  BY ThreadInvStep
<1>4. DebugSpec => [](DebugInv /\ MemoryInv)
  BY <1>1, MemoryInvariant
<1>. QED BY <1>2, <1>3, <1>4, PTL DEF DebugSpec

\* No call is in a hook while a clean stop frees the instrumentation: a thread
\* the count does not cover has its instruction pointer where the test looks.
THEOREM StopQuiet ==
  ASSUME CallsSpared
  PROVE DebugSpec => []CleanStopQuiet
BY ThreadInvariant, PTL DEF ThreadInv

\* No thread of the target is lost, as long as no module event has failed: a
\* failed one undoes the hooks without the quiescence test.
THEOREM ThreadsKept ==
  ASSUME CallsSpared
  PROVE DebugSpec => [](eventOk => NoThreadLost)
<1>1. ThreadInv => (eventOk => NoThreadLost)
  BY DEF ThreadInv, CallSafe, NoThreadLost
<1>. QED BY <1>1, ThreadInvariant, PTL
=============================================================================
