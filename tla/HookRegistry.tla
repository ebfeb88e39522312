---------------------------- MODULE HookRegistry ----------------------------
(***************************************************************************)
(* DiscoverHooks (src/apiscope/hook_registry.cpp): the hooks that the hook *)
(* DLL describes through its ApiHookDescriptor exports.                    *)
(*                                                                         *)
(* A module name is a file name, a directory in front of it or not, in     *)
(* lower case or not; file names and export names are numbers in the order *)
(* of their texts. A descriptor is sound when magic, version and size are  *)
(* right and all four strings are terminated and not empty.                *)
(***************************************************************************)
EXTENDS Naturals, SequencesExt

ModuleNames == [dir : BOOLEAN, upper : BOOLEAN, file : Nat]

\* What the loader finds behind one name of the DLL.
ExportRecord ==
  [prefixed : BOOLEAN, sound : BOOLEAN, module : ModuleNames, export : Nat,
   handler : STRING, trampoline : STRING]

ModuleName(file) == [dir |-> FALSE, upper |-> FALSE, file |-> file]

NormalizeModuleName(m) == [m EXCEPT !.dir = FALSE, !.upper = FALSE]

CanonicalName(m, export) == <<NormalizeModuleName(m), export>>

HookOf(d) ==
  [moduleName |-> NormalizeModuleName(d.module), exportName |-> d.export,
   handlerExport |-> d.handler, trampolineExport |-> d.trampoline,
   canonicalName |-> CanonicalName(d.module, d.export)]

\* The exports of the DLL that carry the descriptor prefix, as a set.
Descriptors(dll) == {d \in ToSet(dll.exports) : d.prefixed}

\* Seeded fault: a bad descriptor is skipped and its predecessors are kept.
InspectAndKeep(dll, found, d) ==
  IF d.prefixed /\ d.sound THEN [found EXCEPT !.hooks = Append(@, HookOf(d))]
  ELSE found

\* One turn of the loop over the names. A bad descriptor ends the loop and
\* takes the hooks found before it with it.
InspectExport(dll, found, d) ==
  LET hook == HookOf(d)
      bad == \/ ~d.sound
             \/ \E h \in ToSet(found.hooks) : h.canonicalName = hook.canonicalName
             \/ ~{d.handler, d.trampoline} \subseteq dll.procedures
  IN  IF found.stopped \/ ~d.prefixed THEN found
      ELSE IF bad THEN [hooks |-> <<>>, stopped |-> TRUE]
      ELSE [found EXCEPT !.hooks = Append(@, hook)]

Precedes(left, right) ==
  \/ left.moduleName.file < right.moduleName.file
  \/ /\ left.moduleName.file = right.moduleName.file
     /\ left.exportName < right.exportName

\* The loop over the names.
InspectExports(dll) ==
  LET Inspect(found, d) == InspectExport(dll, found, d)
  IN  FoldLeft(Inspect, [hooks |-> <<>>, stopped |-> FALSE], dll.exports)

\* std::sort: the same hooks, none behind one that it precedes.
SortHooks(hooks) ==
  CHOOSE sorted \in [1..Len(hooks) -> ToSet(hooks)] :
    /\ ToSet(sorted) = ToSet(hooks)
    /\ \A i, j \in 1..Len(hooks) : i < j => ~Precedes(sorted[j], sorted[i])

DiscoverHooks(dll) ==
  IF ~dll.loads \/ ~dll.headers THEN <<>>
  ELSE SortHooks(InspectExports(dll).hooks)

\* The first hook of that name, none where there is none.
FindSupportedHook(hooks, canonicalName) ==
  LET at == SelectInSeq(hooks, LAMBDA h : h.canonicalName = canonicalName)
  IN  IF at = 0 THEN <<>> ELSE <<hooks[at]>>
=============================================================================
