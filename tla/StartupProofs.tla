--------------------------- MODULE StartupProofs ---------------------------
(***************************************************************************)
(* Theorems about wmain up to the hooks: the options a session is begun    *)
(* with, the hooks it is offered, the command line the target gets, and    *)
(* InjectDll, which leaves a complete image or nothing behind.             *)
(*                                                                         *)
(* The loops of the code are folds. FoldLemmas gives the states a fold     *)
(* passes through between two turns; each loop has an invariant that is    *)
(* carried from turn to turn, and what it returns is the last of them.     *)
(***************************************************************************)
EXTENDS Startup, NumberLemmas, FiniteSetTheorems, FunctionTheorems, SequenceTheorems,
        TLAPS

----------------------------------------------------------------------------
(* DiscoverHooks *)

Inspecting == INSTANCE FoldLemmas WITH Op <- InspectExport

\* The hooks that a DLL describes, each of them with the name it goes by.
HookRecord ==
  [moduleName : ModuleNames, exportName : Nat, handlerExport : STRING,
   trampolineExport : STRING, canonicalName : ModuleNames \X Nat]

Named(h) == /\ h \in HookRecord
            /\ h.moduleName.dir = FALSE /\ h.moduleName.upper = FALSE
            /\ h.canonicalName = <<h.moduleName, h.exportName>>

\* A list of hooks in which no name comes twice.
Distinct(hooks) ==
  \A i, j \in 1 .. Len(hooks) : hooks[i].canonicalName = hooks[j].canonicalName => i = j

HookList(hooks) ==
  /\ hooks \in Seq(HookRecord) /\ \A i \in 1 .. Len(hooks) : Named(hooks[i])

\* A hook goes by the module and export its descriptor names.
LEMMA HookOfIsNamed ==
  ASSUME NEW d \in ExportRecord
  PROVE  Named(HookOf(d))
<1>1. PICK m \in ModuleNames, x \in Nat, a \in STRING, b \in STRING :
        m = d.module /\ x = d.export /\ a = d.handler /\ b = d.trampoline
  BY DEF ExportRecord
<1>2. PICK k \in ModuleNames :
        k = NormalizeModuleName(m) /\ k.dir = FALSE /\ k.upper = FALSE
  <2>1. [m EXCEPT !.dir = FALSE, !.upper = FALSE] \in ModuleNames
    BY DEF ModuleNames
  <2> QED
    BY <2>1 DEF NormalizeModuleName, ModuleNames
<1>3. HookOf(d) = [moduleName |-> k, exportName |-> x, handlerExport |-> a,
                   trampolineExport |-> b, canonicalName |-> <<k, x>>]
  BY <1>1, <1>2 DEF HookOf, CanonicalName
<1> QED
  BY <1>2, <1>3 DEF Named, HookRecord

\* The order of the names is one: irreflexive, transitive and total.
LEMMA PrecedesIsOrder ==
  ASSUME NEW a, NEW b, NEW c, Named(a), Named(b), Named(c)
  PROVE  /\ ~Precedes(a, a)
         /\ Precedes(a, b) /\ Precedes(b, c) => Precedes(a, c)
         /\ Precedes(a, b) => ~Precedes(b, a)
         /\ Precedes(a, b) \/ Precedes(b, a) \/ a.canonicalName = b.canonicalName
<1>1. /\ a.moduleName.file \in Nat /\ b.moduleName.file \in Nat /\ c.moduleName.file \in Nat
      /\ a.exportName \in Nat /\ b.exportName \in Nat /\ c.exportName \in Nat
  BY DEF Named, HookRecord, ModuleNames
<1>2. ASSUME a.moduleName.file = b.moduleName.file, a.exportName = b.exportName
      PROVE  a.canonicalName = b.canonicalName
  <2>1. a.moduleName = b.moduleName
    BY <1>2 DEF Named, HookRecord, ModuleNames
  <2> QED
    BY <1>2, <2>1 DEF Named
<1>3. /\ ~Precedes(a, a)
      /\ Precedes(a, b) /\ Precedes(b, c) => Precedes(a, c)
      /\ Precedes(a, b) => ~Precedes(b, a)
  BY <1>1 DEF Precedes
<1>4. Precedes(a, b) \/ Precedes(b, a) \/ a.canonicalName = b.canonicalName
  BY <1>1, <1>2 DEF Precedes
<1> QED
  BY <1>3, <1>4

\* What DiscoverHooks knows after the first i names: it has stopped with nothing,
\* or every descriptor among them is sound, complete and in the list, and the list
\* has nothing else.
Inspected(d, i, found) ==
  \/ found.stopped /\ found.hooks = <<>>
  \/ /\ ~found.stopped /\ HookList(found.hooks) /\ Distinct(found.hooks)
     /\ \A j \in 1 .. i :
          d.exports[j].prefixed =>
            /\ d.exports[j].sound
            /\ {d.exports[j].handler, d.exports[j].trampoline} \subseteq d.procedures
            /\ \E k \in 1 .. Len(found.hooks) : found.hooks[k] = HookOf(d.exports[j])
     /\ \A k \in 1 .. Len(found.hooks) :
          \E j \in 1 .. i : d.exports[j].prefixed /\ found.hooks[k] = HookOf(d.exports[j])
     /\ \A j, m \in 1 .. i :
          /\ d.exports[j].prefixed /\ d.exports[m].prefixed
          /\ HookOf(d.exports[j]) = HookOf(d.exports[m])
          => j = m


\* A sound descriptor of a new name goes behind the others.
LEMMA InspectAppends ==
  ASSUME NEW d, NEW i \in Nat \ {0}, d.exports \in Seq(ExportRecord), i <= Len(d.exports),
         NEW hooks, NEW found, found = [hooks |-> hooks, stopped |-> FALSE],
         Inspected(d, i - 1, found), d.exports[i].prefixed, d.exports[i].sound,
         {d.exports[i].handler, d.exports[i].trampoline} \subseteq d.procedures,
         \A h \in ToSet(hooks) : h.canonicalName # HookOf(d.exports[i]).canonicalName
  PROVE  Inspected(d, i, [hooks |-> Append(hooks, HookOf(d.exports[i])), stopped |-> FALSE])
<1>1. PICK hook : hook = HookOf(d.exports[i]) /\ Named(hook)
  <2>1. d.exports[i] \in ExportRecord
    BY ElementOfSeq
  <2> QED
    BY <2>1, HookOfIsNamed
<1>a. found.hooks = hooks /\ found.stopped = FALSE
  OBVIOUS
<1>2. HookList(hooks) /\ Distinct(hooks)
  BY <1>a DEF Inspected
<1>3. PICK n \in Nat, more \in Seq(HookRecord) :
        /\ n = Len(hooks) /\ more = Append(hooks, hook) /\ Len(more) = n + 1
        /\ \A k \in 1 .. n : more[k] = hooks[k]
        /\ more[n + 1] = hook
  <2>1. hooks \in Seq(HookRecord) /\ hook \in HookRecord
    BY <1>1, <1>2 DEF HookList, Named
  <2>2. Len(hooks) \in Nat
    BY <2>1, LenProperties
  <2>3. /\ Append(hooks, hook) \in Seq(HookRecord)
        /\ Len(Append(hooks, hook)) = Len(hooks) + 1
        /\ \A k \in 1 .. Len(hooks) : Append(hooks, hook)[k] = hooks[k]
        /\ Append(hooks, hook)[Len(hooks) + 1] = hook
    BY <2>1, AppendProperties
  <2> QED
    BY <2>2, <2>3, Zenon
<1>4. \A k \in 1 .. n : hooks[k].canonicalName # hook.canonicalName
  <2>1. DOMAIN hooks = 1 .. n
    BY <1>2, <1>3, LenProperties DEF HookList
  <2> QED
    BY <1>1, <1>2, <2>1 DEF ToSet
<1>5. HookList(more)
  BY <1>1, <1>2, <1>3 DEF HookList
<1>6. Distinct(more)
  BY <1>1, <1>2, <1>3, <1>4 DEF Distinct
<1>7. PICK next : /\ next = [hooks |-> more, stopped |-> FALSE]
                  /\ next.hooks = more /\ next.stopped = FALSE
  <2> DEFINE r == [hooks |-> more, stopped |-> FALSE]
  <2>1. r.hooks = more /\ r.stopped = FALSE
    BY Zenon
  <2> HIDE DEF r
  <2>2. \E x : x = r /\ x.hooks = more /\ x.stopped = FALSE
    BY <2>1
  <2> QED
    BY <2>2 DEF r
<1>8. /\ \A j \in 1 .. i - 1 :
          d.exports[j].prefixed =>
            /\ d.exports[j].sound
            /\ {d.exports[j].handler, d.exports[j].trampoline} \subseteq d.procedures
            /\ \E k \in 1 .. n : hooks[k] = HookOf(d.exports[j])
      /\ \A k \in 1 .. n :
          \E j \in 1 .. i - 1 : d.exports[j].prefixed /\ hooks[k] = HookOf(d.exports[j])
      /\ \A j, m \in 1 .. i - 1 :
          /\ d.exports[j].prefixed /\ d.exports[m].prefixed
          /\ HookOf(d.exports[j]) = HookOf(d.exports[m])
          => j = m
  BY <1>a, <1>3 DEF Inspected
<1>9. \A j \in 1 .. i : j = i \/ j \in 1 .. i - 1
  OBVIOUS
<1>10. ASSUME NEW j \in 1 .. i, d.exports[j].prefixed
       PROVE  /\ d.exports[j].sound
              /\ {d.exports[j].handler, d.exports[j].trampoline} \subseteq d.procedures
              /\ \E k \in 1 .. n + 1 : more[k] = HookOf(d.exports[j])
  <2>1. CASE j = i
    BY <1>1, <1>3, <2>1
  <2>2. CASE j \in 1 .. i - 1
    <3>1. PICK k \in 1 .. n : hooks[k] = HookOf(d.exports[j])
      BY <1>8, <1>10, <2>2
    <3>2. k \in 1 .. n + 1 /\ more[k] = hooks[k]
      BY <1>3
    <3> QED
      BY <1>8, <1>10, <2>2, <3>1, <3>2
  <2> QED
    BY <1>9, <2>1, <2>2
<1>11. ASSUME NEW k \in 1 .. n + 1
       PROVE  \E j \in 1 .. i : d.exports[j].prefixed /\ more[k] = HookOf(d.exports[j])
  <2>1. CASE k = n + 1
    BY <1>1, <1>3, <2>1
  <2>2. CASE k \in 1 .. n
    <3>1. PICK j \in 1 .. i - 1 : d.exports[j].prefixed /\ hooks[k] = HookOf(d.exports[j])
      BY <1>8, <2>2
    <3>2. j \in 1 .. i
      OBVIOUS
    <3> QED
      BY <1>3, <2>2, <3>1, <3>2
  <2> QED
    BY <2>1, <2>2
<1>12. ASSUME NEW j \in 1 .. i - 1, d.exports[j].prefixed
       PROVE  HookOf(d.exports[j]) # hook
  <2>1. PICK k \in 1 .. n : hooks[k] = HookOf(d.exports[j])
    BY <1>8, <1>12
  <2> QED
    BY <1>4, <2>1
<1>13. ASSUME NEW j \in 1 .. i, NEW m \in 1 .. i,
              d.exports[j].prefixed, d.exports[m].prefixed,
              HookOf(d.exports[j]) = HookOf(d.exports[m])
       PROVE  j = m
  BY <1>1, <1>8, <1>9, <1>12, <1>13
<1> HIDE DEF Inspected
<1>14. /\ HookList(next.hooks) /\ Distinct(next.hooks) /\ ~next.stopped
       /\ Len(next.hooks) = n + 1 /\ next.hooks = more
  BY <1>3, <1>5, <1>6, <1>7
<1>15. Inspected(d, i, next)
  <2>1. ~next.stopped /\ HookList(next.hooks) /\ Distinct(next.hooks)
    BY <1>14
  <2>2. \A j \in 1 .. i :
          d.exports[j].prefixed =>
            /\ d.exports[j].sound
            /\ {d.exports[j].handler, d.exports[j].trampoline} \subseteq d.procedures
            /\ \E k \in 1 .. Len(next.hooks) : next.hooks[k] = HookOf(d.exports[j])
    BY <1>10, <1>14
  <2>3. \A k \in 1 .. Len(next.hooks) :
          \E j \in 1 .. i : d.exports[j].prefixed /\ next.hooks[k] = HookOf(d.exports[j])
    BY <1>11, <1>14
  <2> QED
    BY <1>13, <2>1, <2>2, <2>3 DEF Inspected
<1> QED
  BY <1>1, <1>3, <1>7, <1>15

\* The result of the loop so far is a list and whether it has stopped.
Progress(found) == \E hooks, stopped :
  /\ found = [hooks |-> hooks, stopped |-> stopped] /\ stopped \in BOOLEAN

\* What appending a hook does to the loop.
LEMMA AppendToRecord ==
  ASSUME NEW list, NEW flag, NEW x
  PROVE  [[hooks |-> list, stopped |-> flag] EXCEPT !.hooks = Append(@, x)]
           = [hooks |-> Append(list, x), stopped |-> flag]
OBVIOUS

\* One turn of the loop.
LEMMA InspectKeeps ==
  ASSUME NEW d, NEW i \in Nat \ {0}, d.exports \in Seq(ExportRecord), i <= Len(d.exports),
         NEW found, Progress(found), Inspected(d, i - 1, found)
  PROVE  /\ Progress(InspectExport(d, found, d.exports[i]))
         /\ Inspected(d, i, InspectExport(d, found, d.exports[i]))
<1> DEFINE e == d.exports[i]
           hook == HookOf(e)
<1>1. PICK hooks, stopped : /\ found = [hooks |-> hooks, stopped |-> stopped]
                            /\ stopped \in BOOLEAN
  BY DEF Progress
<1>2. found.hooks = hooks /\ found.stopped = stopped
  BY <1>1
<1>3. e \in ExportRecord /\ e.prefixed \in BOOLEAN /\ e.sound \in BOOLEAN
  <2>1. e \in ExportRecord
    BY ElementOfSeq
  <2> QED
    BY <2>1 DEF ExportRecord
<1> DEFINE bad == \/ ~e.sound
                  \/ \E h \in ToSet(found.hooks) : h.canonicalName = hook.canonicalName
                  \/ ~{e.handler, e.trampoline} \subseteq d.procedures
<1>4. CASE found.stopped
  <2>1. InspectExport(d, found, e) = found
    BY <1>4 DEF InspectExport
  <2>2. Inspected(d, i, found)
    BY <1>4 DEF Inspected
  <2> QED
    BY <2>1, <2>2
<1>5. CASE ~found.stopped /\ ~e.prefixed
  <2>1. InspectExport(d, found, e) = found
    BY <1>5 DEF InspectExport
  <2>2. \A j \in 1 .. i : j = i \/ j \in 1 .. i - 1
    OBVIOUS
  <2>3. \A j \in 1 .. i - 1 : j \in 1 .. i
    OBVIOUS
  <2>4. Inspected(d, i, found)
    BY <1>5, <2>2, <2>3 DEF Inspected
  <2> QED
    BY <2>1, <2>4
<1>6. CASE ~found.stopped /\ e.prefixed /\ bad
  <2>1. InspectExport(d, found, e) = [hooks |-> <<>>, stopped |-> TRUE]
    BY <1>2, <1>6 DEF InspectExport
  <2> DEFINE r == [hooks |-> <<>>, stopped |-> TRUE]
  <2>3. r.hooks = <<>> /\ r.stopped = TRUE
    BY Zenon
  <2> HIDE DEF r
  <2>4. Inspected(d, i, r)
    BY <2>3 DEF Inspected
  <2>5. Progress(r)
    BY DEF Progress, r
  <2> QED
    BY <2>1, <2>4, <2>5 DEF r
<1>7. CASE ~found.stopped /\ e.prefixed /\ ~bad
  <2>1. InspectExport(d, found, e) = [found EXCEPT !.hooks = Append(@, hook)]
    BY <1>2, <1>3, <1>7 DEF InspectExport
  <2>2. found = [hooks |-> hooks, stopped |-> FALSE]
    BY <1>1, <1>2, <1>7
  <2> HIDE DEF hook
  <2>3. [found EXCEPT !.hooks = Append(@, hook)] = [hooks |-> Append(hooks, hook), stopped |-> FALSE]
    BY <2>2, AppendToRecord
  <2>4. Inspected(d, i, [hooks |-> Append(hooks, hook), stopped |-> FALSE])
    BY <1>7, <2>2, InspectAppends DEF hook
  <2>5. Progress([hooks |-> Append(hooks, hook), stopped |-> FALSE])
    BY DEF Progress
  <2> QED
    BY <2>1, <2>3, <2>4, <2>5
<1> QED
  BY <1>4, <1>5, <1>6, <1>7

\* What the loop over all the names returns.
LEMMA InspectExportsFinds ==
  ASSUME NEW d, d.exports \in Seq(ExportRecord)
  PROVE  Inspected(d, Len(d.exports), InspectExports(d))
<1> DEFINE none == [hooks |-> <<>>, stopped |-> FALSE]
           turn == Inspecting!Turns(d, none, d.exports)
           n == Len(d.exports)
           P == {i \in 0 .. n : Progress(turn[i]) /\ Inspected(d, i, turn[i])}
<1>1. n \in Nat /\ DOMAIN d.exports = 1 .. n
  BY LenProperties
<1>2. /\ turn[0] = none
      /\ \A i \in 1 .. n : turn[i] = InspectExport(d, turn[i - 1], d.exports[i])
      /\ turn[n] = Inspecting!Fold(d, none, d.exports)
  <2>1. Inspecting!Passes(d, none, d.exports, turn)
    BY <1>1, Inspecting!FoldTurns
  <2> QED
    BY <2>1 DEF Inspecting!Passes
<1>3. InspectExports(d) = Inspecting!Fold(d, none, d.exports)
  BY DEF InspectExports, Inspecting!Fold, FoldLeft, Inspecting!FoldLeft, MapThenFoldSet,
         Inspecting!MapThenFoldSet, Max, Inspecting!Max
<1>4. Progress(none) /\ Inspected(d, 0, none)
  <2>2. none.hooks = <<>> /\ none.stopped = FALSE
    BY Zenon
  <2>3. <<>> \in Seq(HookRecord) /\ Len(<<>>) = 0
    BY EmptySeq
  <2>4. Progress(none)
    BY DEF Progress
  <2> HIDE DEF none
  <2>5. Inspected(d, 0, none)
    BY <2>2, <2>3 DEF Inspected, HookList, Distinct
  <2> QED
    BY <2>4, <2>5
<1> HIDE DEF none, turn
<1>5. 0 \in P
  BY <1>1, <1>2, <1>4
<1>6. ASSUME NEW i \in 1 .. n, i - 1 \in P PROVE i \in P
  <2>1. Progress(turn[i - 1]) /\ Inspected(d, i - 1, turn[i - 1])
    BY <1>6
  <2>a. i \in Nat \ {0} /\ i <= Len(d.exports) /\ turn[i] = InspectExport(d, turn[i - 1], d.exports[i])
    BY <1>1, <1>2
  <2>2. Progress(turn[i]) /\ Inspected(d, i, turn[i])
    BY <2>a, <2>1, InspectKeeps
  <2> QED
    BY <1>1, <2>2
<1>7. n \in P
  <2>1. P \subseteq 0 .. n
    OBVIOUS
  <2> HIDE DEF P, n
  <2> QED
    BY <1>1, <1>5, <1>6, <2>1, Iteration
<1> QED
  BY <1>2, <1>3, <1>7

\* A list of distinct names can be sorted: each hook goes to the place that the
\* number of hooks up to it gives.
LEMMA SortedExists ==
  ASSUME NEW hooks, HookList(hooks), Distinct(hooks)
  PROVE  \E sorted \in [1..Len(hooks) -> ToSet(hooks)] :
           /\ ToSet(sorted) = ToSet(hooks)
           /\ \A i, j \in 1..Len(hooks) : i < j => ~Precedes(sorted[j], sorted[i])
<1>1. PICK n \in Nat : n = Len(hooks) /\ DOMAIN hooks = 1 .. n
  BY LenProperties DEF HookList
<1> DEFINE UpTo(k) == {j \in 1 .. n : j = k \/ Precedes(hooks[j], hooks[k])}
           place == [k \in 1 .. n |-> Cardinality(UpTo(k))]
<1>2. /\ \A i \in 1 .. n : Named(hooks[i])
      /\ \A i, j \in 1 .. n : hooks[i].canonicalName = hooks[j].canonicalName => i = j
  BY <1>1 DEF HookList, Distinct
<1>3. IsFiniteSet(1 .. n) /\ Cardinality(1 .. n) = n
  <2>1. n \in Int /\ 1 \in Int
    OBVIOUS
  <2>2. IsFiniteSet(1 .. n) /\ Cardinality(1 .. n) = IF 1 > n THEN 0 ELSE n - 1 + 1
    BY <2>1, FS_Interval
  <2> QED
    BY <2>2
<1>4. ASSUME NEW k \in 1 .. n
      PROVE  IsFiniteSet(UpTo(k)) /\ Cardinality(UpTo(k)) \in 1 .. n
  <2>1. UpTo(k) \in SUBSET (1 .. n) /\ k \in UpTo(k)
    OBVIOUS
  <2> HIDE DEF UpTo
  <2>2. IsFiniteSet(UpTo(k)) /\ Cardinality(UpTo(k)) <= n
    BY <1>3, <2>1, FS_Subset
  <2>3. Cardinality(UpTo(k)) \in Nat /\ Cardinality(UpTo(k)) # 0
    BY <2>1, <2>2, FS_CardinalityType, FS_EmptySet
  <2> QED
    BY <2>2, <2>3
<1>5. ASSUME NEW i \in 1 .. n, NEW j \in 1 .. n, Precedes(hooks[i], hooks[j])
      PROVE  place[i] < place[j]
  <2>1. UpTo(i) \in SUBSET UpTo(j)
    <3> SUFFICES ASSUME NEW k \in UpTo(i) PROVE k \in UpTo(j)
      OBVIOUS
    <3>1. k = i \/ Precedes(hooks[k], hooks[i])
      OBVIOUS
    <3>2. Precedes(hooks[k], hooks[j])
      BY <1>2, <1>5, <3>1, PrecedesIsOrder
    <3> QED
      BY <3>2
  <2>2. j \notin UpTo(i) /\ j \in UpTo(j)
    <3>1. i # j /\ ~Precedes(hooks[j], hooks[i])
      BY <1>2, <1>5, PrecedesIsOrder
    <3> QED
      BY <3>1
  <2>3. /\ IsFiniteSet(UpTo(i)) /\ Cardinality(UpTo(i)) \in Nat
        /\ IsFiniteSet(UpTo(j)) /\ Cardinality(UpTo(j)) \in Nat
    BY <1>4
  <2>a. place[i] = Cardinality(UpTo(i)) /\ place[j] = Cardinality(UpTo(j))
    OBVIOUS
  <2> HIDE DEF UpTo, place
  <2>4. /\ Cardinality(UpTo(i)) <= Cardinality(UpTo(j))
        /\ Cardinality(UpTo(j)) = Cardinality(UpTo(i)) => UpTo(j) = UpTo(i)
    BY <2>1, <2>3, FS_Subset
  <2> QED
    BY <2>2, <2>3, <2>4, <2>a
<1>6. place \in [1 .. n -> 1 .. n]
  BY <1>4
<1> HIDE DEF place, UpTo
<1>7. place \in Injection(1 .. n, 1 .. n)
  <2>1. ASSUME NEW i \in 1 .. n, NEW j \in 1 .. n, place[i] = place[j] PROVE i = j
    <3>1. ~Precedes(hooks[i], hooks[j]) /\ ~Precedes(hooks[j], hooks[i])
      BY <1>5, <1>6, <2>1
    <3>2. hooks[i].canonicalName = hooks[j].canonicalName
      BY <1>2, <3>1, PrecedesIsOrder
    <3> QED
      BY <1>2, <3>2
  <2> QED
    BY <1>6, <2>1, Fun_IsInj
<1>8. place \in Surjection(1 .. n, 1 .. n)
  BY <1>3, <1>7, FS_Injection
<1>9. \A m \in 1 .. n : \E k \in 1 .. n : place[k] = m
  BY <1>8, Fun_SurjectionProperties
<1> DEFINE at(m) == CHOOSE k \in 1 .. n : place[k] = m
           sorted == [m \in 1 .. n |-> hooks[at(m)]]
<1>10. \A m \in 1 .. n : at(m) \in 1 .. n /\ place[at(m)] = m
  BY <1>9
<1>11. \A k \in 1 .. n : at(place[k]) = k
  BY <1>6, <1>7, <1>10, Fun_InjectionProperties
<1> HIDE DEF at
<1>12. sorted \in [1 .. n -> ToSet(hooks)]
  BY <1>1, <1>10 DEF ToSet
<1>13. ToSet(sorted) = ToSet(hooks)
  <2>1. ASSUME NEW k \in 1 .. n PROVE sorted[place[k]] = hooks[k] /\ place[k] \in 1 .. n
    BY <1>6, <1>11
  <2>2. DOMAIN sorted = 1 .. n /\ \A m \in 1 .. n : sorted[m] \in ToSet(hooks)
    BY <1>12
  <2> HIDE DEF sorted
  <2> QED
    BY <1>1, <2>1, <2>2 DEF ToSet
<1>14. ASSUME NEW i \in 1 .. n, NEW j \in 1 .. n, i < j
       PROVE  ~Precedes(sorted[j], sorted[i])
  <2>1. sorted[i] = hooks[at(i)] /\ sorted[j] = hooks[at(j)]
    OBVIOUS
  <2>2. /\ at(i) \in 1 .. n /\ place[at(i)] = i
        /\ at(j) \in 1 .. n /\ place[at(j)] = j
    BY <1>10
  <2> QED
    BY <1>5, <1>14, <2>1, <2>2
<1> HIDE DEF sorted
<1> QED
  BY <1>1, <1>12, <1>13, <1>14

\* What std::sort returns for it: the same hooks, each name once, in order.
LEMMA SortHooksSorts ==
  ASSUME NEW hooks, HookList(hooks), Distinct(hooks)
  PROVE  /\ HookList(SortHooks(hooks)) /\ Distinct(SortHooks(hooks))
         /\ Len(SortHooks(hooks)) = Len(hooks)
         /\ ToSet(SortHooks(hooks)) = ToSet(hooks)
         /\ \A i \in 2..Len(hooks) : Precedes(SortHooks(hooks)[i - 1], SortHooks(hooks)[i])
<1>1. PICK n \in Nat : n = Len(hooks) /\ DOMAIN hooks = 1 .. n
  BY LenProperties DEF HookList
<1>2. PICK s \in [1 .. n -> ToSet(hooks)] :
        /\ s = SortHooks(hooks) /\ ToSet(s) = ToSet(hooks)
        /\ \A i, j \in 1 .. n : i < j => ~Precedes(s[j], s[i])
  BY <1>1, SortedExists DEF SortHooks
<1>3. \A h \in ToSet(hooks) : Named(h) /\ h \in HookRecord
  BY <1>1 DEF HookList, ToSet, Named
<1>4. s \in Seq(HookRecord) /\ Len(s) = n /\ DOMAIN s = 1 .. n
  <2>1. s \in [1 .. n -> HookRecord]
    BY <1>3
  <2> QED
    BY <2>1, LenProperties
<1>5. HookList(s)
  BY <1>3, <1>4 DEF HookList
<1>6. \A i, j \in 1 .. n : s[i] = s[j] => i = j
  <2>1. IsFiniteSet(1 .. n) /\ Cardinality(1 .. n) = n
    <3>1. n \in Int /\ 1 \in Int
      OBVIOUS
    <3>2. IsFiniteSet(1 .. n) /\ Cardinality(1 .. n) = IF 1 > n THEN 0 ELSE n - 1 + 1
      BY <3>1, FS_Interval
    <3> QED
      BY <3>2
  <2>2. hooks \in Bijection(1 .. n, ToSet(hooks))
    <3>1. hooks \in [1 .. n -> ToSet(hooks)]
      BY <1>1, LenProperties DEF HookList, ToSet
    <3>2. \A a, b \in 1 .. n : hooks[a] = hooks[b] => a = b
      BY <1>1 DEF Distinct
    <3>3. \A t \in ToSet(hooks) : \E a \in 1 .. n : hooks[a] = t
      BY <1>1 DEF ToSet
    <3> QED
      BY <3>1, <3>2, <3>3, Fun_IsBij
  <2>3. IsFiniteSet(ToSet(hooks)) /\ Cardinality(ToSet(hooks)) = n
    BY <2>1, <2>2, FS_Bijection DEF ExistsBijection
  <2>4. s \in Surjection(1 .. n, ToSet(hooks))
    <3>1. \A t \in ToSet(hooks) : \E a \in 1 .. n : s[a] = t
      BY <1>2, <1>4 DEF ToSet
    <3> QED
      BY <3>1, Fun_IsSurj
  <2>5. s \in Injection(1 .. n, ToSet(hooks))
    BY <2>1, <2>3, <2>4, FS_Surjection
  <2> QED
    BY <2>5, Fun_InjectionProperties
<1>7. ASSUME NEW i \in 1 .. n, NEW j \in 1 .. n, s[i].canonicalName = s[j].canonicalName
      PROVE  i = j
  <2>1. PICK a \in 1 .. n, b \in 1 .. n : s[i] = hooks[a] /\ s[j] = hooks[b]
    BY <1>1 DEF ToSet
  <2>2. a = b
    BY <1>1, <1>7, <2>1 DEF Distinct
  <2> QED
    BY <1>6, <2>1, <2>2
<1>8. ASSUME NEW i \in 2 .. n PROVE Precedes(s[i - 1], s[i])
  <2>1. i \in 1 .. n /\ i - 1 \in 1 .. n /\ i - 1 < i
    OBVIOUS
  <2>2. ~Precedes(s[i], s[i - 1]) /\ s[i - 1].canonicalName # s[i].canonicalName
    BY <1>2, <1>7, <2>1
  <2>3. Named(s[i - 1]) /\ Named(s[i])
    BY <1>3, <2>1
  <2> QED
    BY <2>2, <2>3, PrecedesIsOrder
<1> QED
  BY <1>1, <1>2, <1>4, <1>5, <1>7, <1>8 DEF Distinct

\* What the property says of the hooks of one DLL.
AllHooks(d, hooks) ==
  /\ {h.canonicalName : h \in ToSet(hooks)}
       = {CanonicalName(e.module, e.export) : e \in Descriptors(d)}
  /\ Len(hooks) = Cardinality(Descriptors(d))
  /\ \A e \in Descriptors(d) :
       e.sound /\ {e.handler, e.trampoline} \subseteq d.procedures
  /\ \A i \in 2..Len(hooks) : Precedes(hooks[i - 1], hooks[i])

\* What DiscoverHooks returns is sorted, each hook once, and all of the DLL or
\* nothing.
LEMMA DiscoverHooksFinds ==
  ASSUME NEW d, d.exports \in Seq(ExportRecord)
  PROVE  /\ HookList(DiscoverHooks(d)) /\ Distinct(DiscoverHooks(d))
         /\ DiscoverHooks(d) # <<>> =>
              /\ AllHooks(d, DiscoverHooks(d))
              /\ \A h \in ToSet(DiscoverHooks(d)) :
                   \E e \in Descriptors(d) : h = HookOf(e)
<1>1. PICK n \in Nat : n = Len(d.exports) /\ DOMAIN d.exports = 1 .. n
  BY LenProperties
<1>2. HookList(<<>>) /\ Distinct(<<>>)
  <2>1. <<>> \in Seq(HookRecord) /\ Len(<<>>) = 0
    BY EmptySeq
  <2> QED
    BY <2>1 DEF HookList, Distinct
<1>3. CASE ~d.loads \/ ~d.headers
  BY <1>2, <1>3 DEF DiscoverHooks
<1>4. CASE d.loads /\ d.headers
  <2>1. PICK found : found = InspectExports(d) /\ Inspected(d, n, found)
    BY <1>1, InspectExportsFinds
  <2>2. PICK hooks : hooks = found.hooks /\ HookList(hooks) /\ Distinct(hooks)
    BY <1>2, <2>1 DEF Inspected
  <2>3. PICK m \in Nat : m = Len(hooks) /\ DOMAIN hooks = 1 .. m
    BY <2>2, LenProperties DEF HookList
  <2>4. PICK s : /\ s = DiscoverHooks(d) /\ HookList(s) /\ Distinct(s)
                 /\ Len(s) = m /\ ToSet(s) = ToSet(hooks)
                 /\ \A i \in 2 .. m : Precedes(s[i - 1], s[i])
    <3>1. DiscoverHooks(d) = SortHooks(hooks)
      BY <1>4, <2>1, <2>2 DEF DiscoverHooks
    <3> QED
      BY <2>2, <2>3, <3>1, SortHooksSorts
  <2>5. ASSUME s # <<>>
        PROVE  /\ AllHooks(d, s)
               /\ \A h \in ToSet(s) : \E e \in Descriptors(d) : h = HookOf(e)
    <3>1. hooks # <<>>
      <4>1. s \in Seq(HookRecord) /\ hooks \in Seq(HookRecord)
        BY <2>2, <2>4 DEF HookList
      <4>2. m # 0
        BY <2>4, <2>5, <4>1, EmptySeq
      <4> QED
        BY <2>3, <4>2, EmptySeq
    <3>2. /\ \A j \in 1 .. n :
               d.exports[j].prefixed =>
                 /\ d.exports[j].sound
                 /\ {d.exports[j].handler, d.exports[j].trampoline} \subseteq d.procedures
                 /\ \E k \in 1 .. m : hooks[k] = HookOf(d.exports[j])
          /\ \A k \in 1 .. m :
               \E j \in 1 .. n : d.exports[j].prefixed /\ hooks[k] = HookOf(d.exports[j])
          /\ \A j, l \in 1 .. n :
               /\ d.exports[j].prefixed /\ d.exports[l].prefixed
               /\ HookOf(d.exports[j]) = HookOf(d.exports[l])
               => j = l
      <4>1. Len(found.hooks) = m /\ found.hooks = hooks /\ found.hooks # <<>>
        BY <2>2, <2>3, <3>1
      <4>2. /\ \A j \in 1 .. n :
                 d.exports[j].prefixed =>
                   /\ d.exports[j].sound
                   /\ {d.exports[j].handler, d.exports[j].trampoline} \subseteq d.procedures
                   /\ \E k \in 1 .. Len(found.hooks) : found.hooks[k] = HookOf(d.exports[j])
            /\ \A k \in 1 .. Len(found.hooks) :
                 \E j \in 1 .. n : /\ d.exports[j].prefixed
                                   /\ found.hooks[k] = HookOf(d.exports[j])
            /\ \A j, l \in 1 .. n :
                 /\ d.exports[j].prefixed /\ d.exports[l].prefixed
                 /\ HookOf(d.exports[j]) = HookOf(d.exports[l])
                 => j = l
        BY <2>1, <4>1, Zenon DEF Inspected
      <4> QED
        BY <4>1, <4>2, Zenon
    <3>3. /\ \A e \in Descriptors(d) : \E j \in 1 .. n : e = d.exports[j] /\ e.prefixed
          /\ \A j \in 1 .. n : d.exports[j].prefixed => d.exports[j] \in Descriptors(d)
      BY <1>1 DEF Descriptors, ToSet
    <3>4. /\ \A e \in Descriptors(d) :
               /\ e.sound /\ {e.handler, e.trampoline} \subseteq d.procedures
               /\ \E k \in 1 .. m : hooks[k] = HookOf(e)
          /\ \A k \in 1 .. m : \E e \in Descriptors(d) : hooks[k] = HookOf(e)
          /\ \A e, g \in Descriptors(d) : HookOf(e) = HookOf(g) => e = g
      <4>1. ASSUME NEW e \in Descriptors(d)
            PROVE  /\ e.sound /\ {e.handler, e.trampoline} \subseteq d.procedures
                   /\ \E k \in 1 .. m : hooks[k] = HookOf(e)
        <5>1. PICK j \in 1 .. n : e = d.exports[j] /\ d.exports[j].prefixed
          BY <3>3
        <5> QED
          BY <3>2, <5>1, Zenon
      <4>2. \A k \in 1 .. m : \E e \in Descriptors(d) : hooks[k] = HookOf(e)
        BY <3>2, <3>3, Zenon
      <4>3. ASSUME NEW e \in Descriptors(d), NEW g \in Descriptors(d), HookOf(e) = HookOf(g)
            PROVE  e = g
        <5>1. PICK j \in 1 .. n, l \in 1 .. n :
                /\ e = d.exports[j] /\ d.exports[j].prefixed
                /\ g = d.exports[l] /\ d.exports[l].prefixed
          BY <3>3
        <5>2. j = l
          BY <3>2, <4>3, <5>1, Zenon
        <5> QED
          BY <5>1, <5>2
      <4> QED
        BY <4>1, <4>2, <4>3, Zenon
    <3>5. \A e : HookOf(e).canonicalName = CanonicalName(e.module, e.export)
      BY DEF HookOf
    <3>6. {h.canonicalName : h \in ToSet(s)}
            = {CanonicalName(e.module, e.export) : e \in Descriptors(d)}
      <4>1. \A h \in ToSet(hooks) : \E k \in 1 .. m : h = hooks[k]
        BY <2>3 DEF ToSet
      <4>2. \A k \in 1 .. m : hooks[k] \in ToSet(hooks)
        BY <2>3 DEF ToSet
      <4>3. ASSUME NEW h \in ToSet(s)
            PROVE  \E e \in Descriptors(d) : h.canonicalName = CanonicalName(e.module, e.export)
        <5>1. PICK k \in 1 .. m : h = hooks[k]
          BY <2>4, <4>1
        <5>2. PICK e \in Descriptors(d) : hooks[k] = HookOf(e)
          BY <3>4
        <5> QED
          BY <3>5, <5>1, <5>2
      <4>4. ASSUME NEW e \in Descriptors(d)
            PROVE  \E h \in ToSet(s) : h.canonicalName = CanonicalName(e.module, e.export)
        <5>1. PICK k \in 1 .. m : hooks[k] = HookOf(e)
          BY <3>4
        <5> QED
          BY <2>4, <3>5, <4>2, <5>1
      <4> QED
        BY <4>3, <4>4, Zenon
    <3>7. m = Cardinality(Descriptors(d))
      <4> DEFINE of == [k \in 1 .. m |-> CHOOSE e \in Descriptors(d) : hooks[k] = HookOf(e)]
      <4>1. \A k \in 1 .. m : of[k] \in Descriptors(d) /\ hooks[k] = HookOf(of[k])
        BY <3>4
      <4>2. of \in [1 .. m -> Descriptors(d)]
        BY <4>1
      <4> HIDE DEF of
      <4>3. \A k, l \in 1 .. m : of[k] = of[l] => k = l
        BY <2>2, <2>3, <4>1 DEF Distinct
      <4>4. \A e \in Descriptors(d) : \E k \in 1 .. m : of[k] = e
        BY <3>4, <4>1
      <4>5. of \in Bijection(1 .. m, Descriptors(d))
        BY <4>2, <4>3, <4>4, Fun_IsBij
      <4>6. IsFiniteSet(1 .. m) /\ Cardinality(1 .. m) = m
        <5>1. m \in Int /\ 1 \in Int
          OBVIOUS
        <5>2. IsFiniteSet(1 .. m) /\ Cardinality(1 .. m) = IF 1 > m THEN 0 ELSE m - 1 + 1
          BY <5>1, FS_Interval
        <5> QED
          BY <5>2
      <4> QED
        BY <4>5, <4>6, FS_Bijection DEF ExistsBijection
    <3>8. \A h \in ToSet(s) : \E e \in Descriptors(d) : h = HookOf(e)
      <4> SUFFICES ASSUME NEW h \in ToSet(s) PROVE \E e \in Descriptors(d) : h = HookOf(e)
        OBVIOUS
      <4>1. PICK k \in 1 .. m : h = hooks[k]
        BY <2>3, <2>4 DEF ToSet
      <4> QED
        BY <3>4, <4>1
    <3> QED
      BY <2>4, <3>4, <3>6, <3>7, <3>8 DEF AllHooks
  <2> QED
    BY <2>4, <2>5
<1> QED
  BY <1>3, <1>4

----------------------------------------------------------------------------
(* Numbers and hooks on the command line *)

DigitStep(c, parsed, d) == IF parsed > MaxProcessId THEN parsed ELSE parsed * 10 + d
Reading == INSTANCE FoldLemmas WITH Op <- DigitStep

\* Whatever was typed, what is taken for the process id is one or 0.
LEMMA ParseProcessIdInRange ==
  ASSUME NEW a \in Arguments
  PROVE  ParseProcessId(a) \in 0 .. MaxProcessId
<1>1. MaxProcessId \in Nat
  BY CommandLineAssumption
<1>2. CASE a.kind # "number"
  BY <1>1, <1>2 DEF ParseProcessId, FoldLeft, MapThenFoldSet
<1>3. CASE a.kind = "number"
  <2>1. PICK digits \in Seq(0..9) : a.digits = digits
    BY <1>3 DEF Arguments, Wide
  <2> DEFINE turn == Reading!Turns(0, 0, digits)
             n == Len(digits)
             P == {i \in 0 .. n : turn[i] \in Nat}
  <2>2. n \in Nat /\ DOMAIN digits = 1 .. n
    BY LenProperties
  <2>3. Reading!Passes(0, 0, digits, turn)
    BY <2>2, Reading!FoldTurns
  <2>4. /\ turn[0] = 0
        /\ \A i \in 1 .. n : turn[i] = DigitStep(0, turn[i - 1], digits[i])
        /\ turn[n] = Reading!Fold(0, 0, digits)
    BY <2>3 DEF Reading!Passes
  <2> HIDE DEF turn
  <2>5. 0 \in P
    BY <2>2, <2>4
  <2>6. ASSUME NEW i \in 1 .. n, i - 1 \in P PROVE i \in P
    <3>1. PICK p \in Nat, g \in 0 .. 9 : p = turn[i - 1] /\ g = digits[i]
      <4>1. digits[i] \in 0 .. 9
        BY <2>2, ElementOfSeq
      <4> QED
        BY <2>6, <4>1
    <3>2. p * 10 + g \in Nat
      OBVIOUS
    <3>3. turn[i] = IF p > MaxProcessId THEN p ELSE p * 10 + g
      BY <2>4, <3>1 DEF DigitStep
    <3> QED
      BY <2>2, <3>2, <3>3
  <2>7. n \in P
    <3>1. P \subseteq 0 .. n
      OBVIOUS
    <3> HIDE DEF P, n
    <3> QED
      BY <2>2, <2>5, <2>6, <3>1, Iteration
  <2>8. PICK parsed \in Nat : parsed = Reading!Fold(0, 0, digits)
    BY <2>4, <2>7
  <2>9. ParseProcessId(a) = IF parsed > MaxProcessId THEN 0 ELSE parsed
    BY <1>3, <2>1, <2>8
       DEF ParseProcessId, DigitStep, Reading!Fold, FoldLeft, Reading!FoldLeft, MapThenFoldSet,
           Reading!MapThenFoldSet, Max, Reading!Max
  <2> QED
    BY <1>1, <2>9
<1> QED
  BY <1>2, <1>3

Adding == INSTANCE FoldLemmas WITH Op <- LAMBDA c, hooks, hook : AddHook(hooks, hook)
Selecting == INSTANCE FoldLemmas WITH Op <- AddHooks

\* A hook whose name is in the list already is not put in again.
LEMMA AddHookKeeps ==
  ASSUME NEW hooks, NEW hook, HookList(hooks), Distinct(hooks), Named(hook)
  PROVE  HookList(AddHook(hooks, hook)) /\ Distinct(AddHook(hooks, hook))
<1>1. PICK n \in Nat : n = Len(hooks) /\ DOMAIN hooks = 1 .. n
  BY LenProperties DEF HookList
<1>2. CASE \E h \in ToSet(hooks) : h.canonicalName = hook.canonicalName
  BY <1>2 DEF AddHook
<1>3. CASE ~\E h \in ToSet(hooks) : h.canonicalName = hook.canonicalName
  <2>1. PICK more : /\ more = AddHook(hooks, hook)
                    /\ more \in Seq(HookRecord) /\ Len(more) = n + 1
                    /\ \A k \in 1 .. n : more[k] = hooks[k]
                    /\ more[n + 1] = hook
    <3>1. hooks \in Seq(HookRecord) /\ hook \in HookRecord
      BY DEF HookList, Named
    <3>2. AddHook(hooks, hook) = Append(hooks, hook)
      BY <1>3 DEF AddHook
    <3>3. /\ Append(hooks, hook) \in Seq(HookRecord)
          /\ Len(Append(hooks, hook)) = n + 1
          /\ \A k \in 1 .. n : Append(hooks, hook)[k] = hooks[k]
          /\ Append(hooks, hook)[n + 1] = hook
      BY <1>1, <3>1, AppendProperties
    <3> QED
      BY <3>2, <3>3, Zenon
  <2>2. \A k \in 1 .. n : hooks[k].canonicalName # hook.canonicalName /\ Named(hooks[k])
    BY <1>1, <1>3 DEF ToSet, HookList
  <2>3. HookList(more)
    BY <2>1, <2>2 DEF HookList
  <2>4. Distinct(more)
    BY <1>1, <2>1, <2>2 DEF Distinct
  <2> QED
    BY <2>1, <2>3, <2>4
<1> QED
  BY <1>2, <1>3

\* One --hook value stands for hooks of the list that is offered.
LEMMA ExpandIsHookList ==
  ASSUME NEW available, HookList(available), NEW requested \in Arguments
  PROVE  /\ HookList(Expand(available, requested))
         /\ ToSet(Expand(available, requested)) \subseteq ToSet(available)
<1>1. PICK n \in Nat : n = Len(available) /\ DOMAIN available = 1 .. n
  BY LenProperties DEF HookList
<1>2. HookList(<<>>) /\ ToSet(<<>>) \subseteq ToSet(available)
  <2>1. <<>> \in Seq(HookRecord) /\ Len(<<>>) = 0 /\ DOMAIN <<>> = {}
    BY EmptySeq
  <2> QED
    BY <2>1 DEF HookList, ToSet
<1>3. ASSUME NEW name
      PROVE  /\ HookList(FindSupportedHook(available, name))
             /\ ToSet(FindSupportedHook(available, name)) \subseteq ToSet(available)
  <2> DEFINE I == {i \in 1 .. Len(available) : available[i].canonicalName = name}
  <2>1. CASE I = {}
    <3>1. FindSupportedHook(available, name) = <<>>
      BY <1>1, <2>1 DEF FindSupportedHook, SelectInSeq
    <3> QED
      BY <1>2, <3>1
  <2>2. CASE I # {}
    <3>1. PICK m \in I : \A i \in I : m <= i
      <4>1. I \subseteq Nat
        BY <1>1
      <4> HIDE DEF I
      <4> QED
        BY <2>2, <4>1, LeastNumber
    <3>2. Min(I) \in I
      <4> HIDE DEF I
      <4> QED
        BY <3>1 DEF Min
    <3>3. FindSupportedHook(available, name) = <<available[Min(I)]>>
      <4>1. FindSupportedHook(available, name)
              = IF Min(I) = 0 THEN <<>> ELSE <<available[Min(I)]>>
        BY <2>2 DEF FindSupportedHook, SelectInSeq
      <4>2. Min(I) # 0
        BY <1>1, <3>2
      <4> QED
        BY <4>1, <4>2
    <3>4. PICK h : h = available[Min(I)] /\ Named(h) /\ h \in ToSet(available)
      BY <1>1, <3>2 DEF HookList, ToSet
    <3>5. h \in HookRecord
      BY <3>4 DEF Named
    <3>6. <<h>> \in Seq(HookRecord) /\ Len(<<h>>) = 1 /\ DOMAIN <<h>> = 1 .. 1 /\ <<h>>[1] = h
      BY <3>5
    <3>7. HookList(<<h>>)
      <4>1. PICK list : /\ list = <<h>> /\ list \in Seq(HookRecord)
                        /\ Len(list) = 1 /\ list[1] = h
        BY <3>6
      <4>2. ASSUME NEW i \in 1 .. Len(list) PROVE Named(list[i])
        <5>1. i = 1
          BY <4>1
        <5> QED
          BY <3>4, <4>1, <5>1, Zenon
      <4>3. HookList(list)
        BY <4>1, <4>2, Zenon DEF HookList
      <4> QED
        BY <4>1, <4>3
    <3>8. ToSet(<<h>>) = {h}
      BY <3>6 DEF ToSet
    <3> QED
      BY <3>3, <3>4, <3>7, <3>8
  <2> QED
    BY <2>1, <2>2
<1>4. CASE requested = Word("all")
  BY <1>4 DEF Expand, Word
<1>5. CASE requested # Word("all") /\ requested.kind = "hook"
  <2>1. Expand(available, requested)
          = FindSupportedHook(available, CanonicalName(requested.module, requested.export))
    BY <1>5 DEF Expand
  <2> QED
    BY <1>3, <2>1
<1>6. CASE requested # Word("all") /\ requested.kind # "hook"
  BY <1>2, <1>6 DEF Expand
<1> QED
  BY <1>4, <1>5, <1>6

\* What the selection of hooks is made of: offered hooks, each name once.
Selection(available, hooks) ==
  HookList(hooks) /\ Distinct(hooks) /\ ToSet(hooks) \subseteq ToSet(available)

\* The hooks one --hook value adds are on offer and not there yet.
LEMMA AddHooksKeeps ==
  ASSUME NEW available, HookList(available), NEW requested \in Arguments,
         NEW hooks, Selection(available, hooks)
  PROVE  Selection(available, AddHooks(available, hooks, requested))
<1> DEFINE more == Expand(available, requested)
           turn == Adding!Turns(0, hooks, more)
           n == Len(more)
           P == {i \in 0 .. n : Selection(available, turn[i])}
<1>1. HookList(more) /\ ToSet(more) \subseteq ToSet(available)
  BY ExpandIsHookList
<1> HIDE DEF more
<1>2. n \in Nat /\ DOMAIN more = 1 .. n
  BY <1>1, LenProperties DEF HookList
<1>3. Adding!Passes(0, hooks, more, turn)
  BY <1>2, Adding!FoldTurns
<1>4. /\ turn[0] = hooks
      /\ \A i \in 1 .. n : turn[i] = AddHook(turn[i - 1], more[i])
      /\ turn[n] = Adding!Fold(0, hooks, more)
  BY <1>3 DEF Adding!Passes
<1>5. AddHooks(available, hooks, requested) = Adding!Fold(0, hooks, more)
  BY DEF more, AddHooks, Adding!Fold, FoldLeft, Adding!FoldLeft, MapThenFoldSet,
         Adding!MapThenFoldSet, Max, Adding!Max
<1> HIDE DEF turn
<1>6. 0 \in P
  BY <1>2, <1>4
<1>7. ASSUME NEW i \in 1 .. n, i - 1 \in P PROVE i \in P
  <2>1. PICK old : old = turn[i - 1] /\ Selection(available, old)
    BY <1>7
  <2>2. PICK hook : hook = more[i] /\ Named(hook) /\ hook \in ToSet(available)
    BY <1>1, <1>2 DEF HookList, ToSet
  <2>3. turn[i] = AddHook(old, hook)
    BY <1>4, <2>1, <2>2
  <2>4. HookList(AddHook(old, hook)) /\ Distinct(AddHook(old, hook))
    BY <2>1, <2>2, AddHookKeeps DEF Selection
  <2>5. ToSet(AddHook(old, hook)) \subseteq ToSet(available)
    <3>1. CASE AddHook(old, hook) = old
      BY <2>1, <3>1 DEF Selection
    <3>2. CASE AddHook(old, hook) = Append(old, hook)
      <4>1. PICK m \in Nat : m = Len(old) /\ DOMAIN old = 1 .. m
        BY <2>1, LenProperties DEF HookList, Selection
      <4>2. /\ DOMAIN Append(old, hook) = 1 .. m + 1
            /\ \A k \in 1 .. m : Append(old, hook)[k] = old[k]
            /\ Append(old, hook)[m + 1] = hook
        <5>1. old \in Seq(HookRecord) /\ hook \in HookRecord
          BY <2>1, <2>2 DEF Selection, HookList, Named
        <5> QED
          BY <4>1, <5>1, AppendProperties, LenProperties
      <4>3. \A k \in 1 .. m + 1 : Append(old, hook)[k] \in ToSet(available)
        <5>1. \A k \in 1 .. m : old[k] \in ToSet(available)
          BY <2>1, <4>1 DEF Selection, ToSet
        <5>2. \A k \in 1 .. m + 1 : k \in 1 .. m \/ k = m + 1
          OBVIOUS
        <5> QED
          BY <2>2, <4>2, <5>1, <5>2
      <4> QED
        BY <3>2, <4>2, <4>3 DEF ToSet
    <3> QED
      BY <3>1, <3>2 DEF AddHook
  <2> QED
    BY <1>2, <2>3, <2>4, <2>5 DEF Selection
<1>8. n \in P
  <2>1. P \subseteq 0 .. n
    OBVIOUS
  <2> HIDE DEF P, n
  <2> QED
    BY <1>2, <1>6, <1>7, <2>1, Iteration
<1> QED
  BY <1>4, <1>5, <1>8

\* So are those all of them add up to.
LEMMA ExpandAndValidateHooksSelects ==
  ASSUME NEW available, HookList(available), NEW requested \in Seq(Arguments)
  PROVE  Selection(available, ExpandAndValidateHooks(available, requested))
<1>1. Selection(available, <<>>)
  <2>1. <<>> \in Seq(HookRecord) /\ Len(<<>>) = 0 /\ DOMAIN <<>> = {}
    BY EmptySeq
  <2> QED
    BY <2>1 DEF Selection, HookList, Distinct, ToSet
<1> DEFINE turn == Selecting!Turns(available, <<>>, requested)
           n == Len(requested)
           P == {i \in 0 .. n : Selection(available, turn[i])}
<1>2. n \in Nat /\ DOMAIN requested = 1 .. n
  BY LenProperties
<1>3. Selecting!Passes(available, <<>>, requested, turn)
  BY <1>2, Selecting!FoldTurns
<1>4. /\ turn[0] = <<>>
      /\ \A i \in 1 .. n : turn[i] = AddHooks(available, turn[i - 1], requested[i])
      /\ turn[n] = Selecting!Fold(available, <<>>, requested)
  BY <1>3 DEF Selecting!Passes
<1> HIDE DEF turn
<1>5. 0 \in P
  BY <1>1, <1>2, <1>4
<1>6. ASSUME NEW i \in 1 .. n, i - 1 \in P PROVE i \in P
  <2>1. requested[i] \in Arguments
    BY <1>2, ElementOfSeq
  <2>2. Selection(available, AddHooks(available, turn[i - 1], requested[i]))
    BY <1>6, <2>1, AddHooksKeeps
  <2> QED
    BY <1>2, <1>4, <2>2
<1>7. n \in P
  <2>1. P \subseteq 0 .. n
    OBVIOUS
  <2> HIDE DEF P, n
  <2> QED
    BY <1>2, <1>5, <1>6, <2>1, Iteration
<1>8. \/ ExpandAndValidateHooks(available, requested) = <<>>
      \/ ExpandAndValidateHooks(available, requested)
           = Selecting!Fold(available, <<>>, requested)
  BY DEF ExpandAndValidateHooks, Selecting!Fold, FoldLeft, Selecting!FoldLeft, MapThenFoldSet,
         Selecting!MapThenFoldSet, Max, Selecting!Max
<1> QED
  BY <1>1, <1>4, <1>7, <1>8

----------------------------------------------------------------------------
(* ParseCommandLine *)

Scanning == INSTANCE FoldLemmas WITH Op <- ScanArgument

\* The options and the state of the scan.
OptionRecord ==
  [mode : {"Error"}, hooks : Seq(HookRecord), targetArguments : Seq(Arguments),
   targetProcessId : 0 .. MaxProcessId, format : {"text", "jsonl"}, outputPath : Arguments,
   quiet : BOOLEAN, color : {"auto", "always", "never"}, status : {"auto", "always", "never"}]

ScanRecord ==
  [at : {"option", "value", "target", "failed"}, option : Arguments \cup {NoOption},
   requestedHooks : Seq(Arguments), formatSpecified : BOOLEAN, options : OptionRecord]

\* What the scan knows of the options it has passed.
ScanInv(attach, s) ==
  /\ s \in ScanRecord
  /\ attach => s.at # "target" /\ s.options.targetArguments = <<>>
  /\ ~attach => s.options.targetProcessId = 0
  /\ ~attach /\ s.at = "value" => s.option # Word("--pid")
  /\ s.options.format = "text" \/ s.formatSpecified

\* The options a property of the scan speaks of are the same.
Alike(p, o) == /\ p.targetArguments = o.targetArguments
               /\ p.targetProcessId = o.targetProcessId /\ p.format = o.format

\* What setting one option does to the others.
LEMMA SetOption ==
  ASSUME NEW o \in OptionRecord
  PROVE  /\ [o EXCEPT !.quiet = TRUE] \in OptionRecord
         /\ Alike([o EXCEPT !.quiet = TRUE], o)
         /\ \A v \in 0 .. MaxProcessId :
              /\ [o EXCEPT !.targetProcessId = v] \in OptionRecord
              /\ [o EXCEPT !.targetProcessId = v].targetArguments = o.targetArguments
              /\ [o EXCEPT !.targetProcessId = v].format = o.format
         /\ \A v \in {"text", "jsonl"} :
              /\ [o EXCEPT !.format = v] \in OptionRecord
              /\ [o EXCEPT !.format = v].targetArguments = o.targetArguments
              /\ [o EXCEPT !.format = v].targetProcessId = o.targetProcessId
         /\ \A v \in Arguments :
              /\ [o EXCEPT !.outputPath = v] \in OptionRecord
              /\ Alike([o EXCEPT !.outputPath = v], o)
         /\ \A v \in {"auto", "always", "never"} :
              /\ [o EXCEPT !.color = v] \in OptionRecord
              /\ Alike([o EXCEPT !.color = v], o)
         /\ \A v \in {"auto", "always", "never"} :
              /\ [o EXCEPT !.status = v] \in OptionRecord
              /\ Alike([o EXCEPT !.status = v], o)
         /\ \A v \in Arguments :
              /\ [o EXCEPT !.targetArguments = Append(@, v)] \in OptionRecord
              /\ [o EXCEPT !.targetArguments = Append(@, v)].targetProcessId = o.targetProcessId
              /\ [o EXCEPT !.targetArguments = Append(@, v)].format = o.format
<1>1. [o EXCEPT !.quiet = TRUE] \in OptionRecord /\ Alike([o EXCEPT !.quiet = TRUE], o)
  BY DEF OptionRecord, Alike
<1>2. ASSUME NEW v \in 0 .. MaxProcessId
      PROVE  /\ [o EXCEPT !.targetProcessId = v] \in OptionRecord
             /\ [o EXCEPT !.targetProcessId = v].targetArguments = o.targetArguments
             /\ [o EXCEPT !.targetProcessId = v].format = o.format
  BY DEF OptionRecord
<1>3. ASSUME NEW v \in {"text", "jsonl"}
      PROVE  /\ [o EXCEPT !.format = v] \in OptionRecord
             /\ [o EXCEPT !.format = v].targetArguments = o.targetArguments
             /\ [o EXCEPT !.format = v].targetProcessId = o.targetProcessId
  BY DEF OptionRecord
<1>4. ASSUME NEW v \in Arguments
      PROVE  /\ [o EXCEPT !.outputPath = v] \in OptionRecord
             /\ Alike([o EXCEPT !.outputPath = v], o)
  BY DEF OptionRecord, Alike
<1>5. ASSUME NEW v \in {"auto", "always", "never"}
      PROVE  /\ [o EXCEPT !.color = v] \in OptionRecord
             /\ Alike([o EXCEPT !.color = v], o)
  BY DEF OptionRecord, Alike
<1>6. ASSUME NEW v \in {"auto", "always", "never"}
      PROVE  /\ [o EXCEPT !.status = v] \in OptionRecord
             /\ Alike([o EXCEPT !.status = v], o)
  BY DEF OptionRecord, Alike
<1>7. ASSUME NEW v \in Arguments
      PROVE  /\ [o EXCEPT !.targetArguments = Append(@, v)] \in OptionRecord
             /\ [o EXCEPT !.targetArguments = Append(@, v)].targetProcessId = o.targetProcessId
             /\ [o EXCEPT !.targetArguments = Append(@, v)].format = o.format
  <2>1. o.targetArguments \in Seq(Arguments)
    BY DEF OptionRecord
  <2>2. Append(o.targetArguments, v) \in Seq(Arguments)
    BY <2>1, AppendProperties
  <2> QED
    BY <2>2 DEF OptionRecord
<1> QED
  BY <1>1, <1>2, <1>3, <1>4, <1>5, <1>6, <1>7

\* The scan with other options, and nothing else changed.
LEMMA NewOptions ==
  ASSUME NEW attach \in BOOLEAN, NEW s, ScanInv(attach, s), NEW p \in OptionRecord,
         attach => p.targetArguments = <<>>,
         ~attach => p.targetProcessId = 0,
         p.format = "text" \/ s.formatSpecified,
         NEW t, t = [s EXCEPT !.options = p]
  PROVE  ScanInv(attach, t)
<1>1. s \in ScanRecord
  BY DEF ScanInv
<1>2. /\ t \in ScanRecord /\ t.options = p /\ t.at = s.at /\ t.option = s.option
      /\ t.formatSpecified = s.formatSpecified
  BY <1>1 DEF ScanRecord
<1> QED
  BY <1>2, Zenon DEF ScanInv

\* The same where the scan knows nothing of the option that is set.
LEMMA AlikeOptions ==
  ASSUME NEW attach \in BOOLEAN, NEW s, ScanInv(attach, s), NEW p \in OptionRecord,
         Alike(p, s.options), NEW t, t = [s EXCEPT !.options = p]
  PROVE  ScanInv(attach, t)
<1>1. /\ attach => p.targetArguments = <<>>
      /\ ~attach => p.targetProcessId = 0
      /\ p.format = "text" \/ s.formatSpecified
  BY Zenon DEF ScanInv, Alike
<1> QED
  BY <1>1, NewOptions

\* An option keeps what the scan knows.
LEMMA TakeOptionKeeps ==
  ASSUME NEW attach \in BOOLEAN, NEW s, ScanInv(attach, s), s.at = "option",
         NEW a \in Arguments
  PROVE  ScanInv(attach, TakeOption(attach, s, a))
<1>1. CASE TakeOption(attach, s, a) = [s EXCEPT !.at = "failed"]
  BY <1>1 DEF ScanInv, ScanRecord
<1>2. CASE ~attach /\ TakeOption(attach, s, a) = [s EXCEPT !.at = "target"]
  BY <1>2 DEF ScanInv, ScanRecord
<1>3. CASE /\ attach \/ a # Word("--pid")
           /\ TakeOption(attach, s, a) = [s EXCEPT !.at = "value", !.option = a]
  BY <1>3 DEF ScanInv, ScanRecord
<1>4. CASE TakeOption(attach, s, a) = [s EXCEPT !.options.quiet = TRUE]
  <2>1. s.options \in OptionRecord
    BY DEF ScanInv, ScanRecord
  <2>2. TakeOption(attach, s, a) = [s EXCEPT !.options = [s.options EXCEPT !.quiet = TRUE]]
    BY <1>4
  <2> QED
    BY <2>1, <2>2, SetOption, AlikeOptions, Zenon
<1> QED
  BY <1>1, <1>2, <1>3, <1>4 DEF TakeOption, Fail, WithValue

\* The values an option is given are among those it takes.
LEMMA ModeWords ==
  ASSUME NEW a
  PROVE  /\ a \in {Word("text"), Word("jsonl")} => a.word \in {"text", "jsonl"}
         /\ a \in {Word("auto"), Word("always"), Word("never")}
              => a.word \in {"auto", "always", "never"}
BY DEF Word

\* So does the value of an option.
LEMMA TakeValueKeeps ==
  ASSUME NEW attach \in BOOLEAN, NEW s, ScanInv(attach, s), s.at = "value",
         NEW a \in Arguments
  PROVE  ScanInv(attach, TakeValue(s, a))
<1> DEFINE next == [s EXCEPT !.at = "option", !.option = NoOption]
<1>b. ScanInv(attach, next) /\ next.at = "option" /\ next.options = s.options
  <2>1. s \in ScanRecord
    BY DEF ScanInv
  <2>2. next \in ScanRecord
    BY <2>1 DEF ScanRecord
  <2>3. /\ next.at = "option" /\ next.options = s.options
        /\ next.formatSpecified = s.formatSpecified
    BY <2>1 DEF ScanRecord
  <2> QED
    BY <2>2, <2>3 DEF ScanInv
<1> HIDE DEF next
<1>o. next.options \in OptionRecord /\ next \in ScanRecord
  BY <1>b DEF ScanInv, ScanRecord
<1>1. CASE s.option = Word("--pid") /\ ParseProcessId(a) # 0
  <2>1. attach
    BY <1>1 DEF ScanInv
  <2>2. TakeValue(s, a)
          = [next EXCEPT !.options = [next.options EXCEPT !.targetProcessId = ParseProcessId(a)]]
    BY <1>1 DEF TakeValue, next, Word
  <2>3. PICK p \in OptionRecord :
          /\ p = [next.options EXCEPT !.targetProcessId = ParseProcessId(a)]
          /\ p.targetArguments = next.options.targetArguments /\ p.format = next.options.format
    BY <1>o, SetOption, ParseProcessIdInRange, Zenon
  <2>4. p.targetArguments = <<>> /\ (p.format = "text" \/ next.formatSpecified)
    BY <1>b, <2>1, <2>3, Zenon DEF ScanInv
  <2> QED
    BY <1>b, <2>1, <2>2, <2>3, <2>4, NewOptions, Zenon
<1>2. CASE s.option = Word("--hook") /\ IsNarrow(a)
  <2>1. TakeValue(s, a) = [next EXCEPT !.requestedHooks = Append(@, a)]
    BY <1>2 DEF TakeValue, next, Word
  <2>2. Append(next.requestedHooks, a) \in Seq(Arguments)
    BY <1>o, AppendProperties DEF ScanRecord
  <2>3. PICK t : t = [next EXCEPT !.requestedHooks = Append(@, a)]
    OBVIOUS
  <2>4. /\ t \in ScanRecord /\ t.at = next.at /\ t.options = next.options
        /\ t.option = next.option /\ t.formatSpecified = next.formatSpecified
    BY <1>o, <2>2, <2>3 DEF ScanRecord
  <2>5. ScanInv(attach, t)
    BY <1>b, <2>4 DEF ScanInv
  <2> QED
    BY <2>1, <2>3, <2>5
<1>3. CASE s.option = Word("--format") /\ a \in {Word("text"), Word("jsonl")}
  <2>1. TakeValue(s, a) = [next EXCEPT !.options = [next.options EXCEPT !.format = a.word],
                                       !.formatSpecified = TRUE]
    BY <1>3 DEF TakeValue, next, Word
  <2>2. PICK p \in OptionRecord :
          /\ p = [next.options EXCEPT !.format = a.word]
          /\ p.targetArguments = next.options.targetArguments
          /\ p.targetProcessId = next.options.targetProcessId
    <3>1. a.word \in {"text", "jsonl"}
      BY <1>3, ModeWords
    <3> QED
      BY <1>o, <3>1, SetOption
  <2>3. PICK t : t = [next EXCEPT !.formatSpecified = TRUE]
    OBVIOUS
  <2>4. ScanInv(attach, t) /\ t.formatSpecified /\ t.options = next.options
    BY <1>b, <2>3 DEF ScanInv, ScanRecord
  <2>5. TakeValue(s, a) = [t EXCEPT !.options = p]
    BY <1>o, <2>1, <2>2, <2>3 DEF ScanRecord
  <2>6. /\ attach => p.targetArguments = <<>>
        /\ ~attach => p.targetProcessId = 0
    BY <1>b, <2>2, Zenon DEF ScanInv
  <2> QED
    BY <2>4, <2>5, <2>6, NewOptions, Zenon
<1>4. CASE s.option = Word("--output")
  <2>1. TakeValue(s, a) = [next EXCEPT !.options = [next.options EXCEPT !.outputPath = a]]
    BY <1>4 DEF TakeValue, next, Word
  <2>2. PICK p \in OptionRecord :
          /\ p = [next.options EXCEPT !.outputPath = a] /\ Alike(p, next.options)
    BY <1>o, SetOption
  <2> QED
    BY <1>b, <2>1, <2>2, AlikeOptions
<1>5. CASE s.option = Word("--color") /\ a \in {Word("auto"), Word("always"), Word("never")}
  <2>1. TakeValue(s, a) = [next EXCEPT !.options = [next.options EXCEPT !.color = a.word]]
    BY <1>5 DEF TakeValue, next, Word
  <2>2. a.word \in {"auto", "always", "never"}
    BY <1>5, ModeWords
  <2>3. PICK p \in OptionRecord :
          /\ p = [next.options EXCEPT !.color = a.word] /\ Alike(p, next.options)
    BY <1>o, <2>2, SetOption
  <2> QED
    BY <1>b, <2>1, <2>3, AlikeOptions
<1>6. CASE s.option = Word("--status") /\ a \in {Word("auto"), Word("always"), Word("never")}
  <2>1. TakeValue(s, a) = [next EXCEPT !.options = [next.options EXCEPT !.status = a.word]]
    BY <1>6 DEF TakeValue, next, Word
  <2>2. a.word \in {"auto", "always", "never"}
    BY <1>6, ModeWords
  <2>3. PICK p \in OptionRecord :
          /\ p = [next.options EXCEPT !.status = a.word] /\ Alike(p, next.options)
    BY <1>o, <2>2, SetOption
  <2> QED
    BY <1>b, <2>1, <2>3, AlikeOptions
<1>7. CASE TakeValue(s, a) = Fail(s)
  BY <1>7 DEF ScanInv, ScanRecord, Fail
<1> QED
  BY <1>1, <1>2, <1>3, <1>4, <1>5, <1>6, <1>7 DEF TakeValue

\* One argument keeps what the scan knows.
LEMMA ScanArgumentKeeps ==
  ASSUME NEW attach \in BOOLEAN, NEW s, ScanInv(attach, s), NEW a \in Arguments
  PROVE  ScanInv(attach, ScanArgument(attach, s, a))
<1>1. s \in ScanRecord /\ s.at \in {"option", "value", "target", "failed"}
  BY DEF ScanInv, ScanRecord
<1>2. CASE s.at = "option"
  BY <1>2, TakeOptionKeeps DEF ScanArgument
<1>3. CASE s.at = "value"
  BY <1>3, TakeValueKeeps DEF ScanArgument
<1>4. CASE s.at = "target"
  <2>1. s.options \in OptionRecord /\ ~attach
    BY <1>1, <1>4 DEF ScanInv, ScanRecord
  <2>2. PICK p \in OptionRecord :
          /\ p = [s.options EXCEPT !.targetArguments = Append(@, a)]
          /\ p.targetProcessId = s.options.targetProcessId
          /\ p.format = s.options.format
    BY <2>1, SetOption
  <2>3. ScanArgument(attach, s, a) = [s EXCEPT !.options = p]
    BY <1>4, <2>2 DEF ScanArgument
  <2>4. p.targetProcessId = 0 /\ (p.format = "text" \/ s.formatSpecified)
    BY <2>1, <2>2 DEF ScanInv
  <2> QED
    BY <2>1, <2>3, <2>4, NewOptions
<1>5. CASE s.at = "failed"
  BY <1>5 DEF ScanArgument
<1> QED
  BY <1>1, <1>2, <1>3, <1>4, <1>5

\* So the scan of all the arguments does.
LEMMA ScanArgumentsKeep ==
  ASSUME NEW attach \in BOOLEAN, NEW arguments \in Seq(Arguments)
  PROVE  ScanInv(attach, ScanArguments(attach, arguments))
<1>1. DefaultOptions \in OptionRecord
  <2>1. <<>> \in Seq(HookRecord) /\ <<>> \in Seq(Arguments)
    BY EmptySeq
  <2>2. Empty \in Arguments
    <3>1. <<>> \in Seq(STRING)
      BY EmptySeq
    <3> QED
      BY <3>1 DEF Empty, Text, Arguments
  <2>3. 0 \in 0 .. MaxProcessId
    BY CommandLineAssumption
  <2> QED
    BY <2>1, <2>2, <2>3 DEF DefaultOptions, OptionRecord
<1>2. ScanInv(attach, ScanInit)
  <2>1. ScanInit \in ScanRecord
    <3>1. <<>> \in Seq(Arguments)
      BY EmptySeq
    <3> QED
      BY <1>1, <3>1 DEF ScanInit, ScanRecord
  <2> QED
    BY <2>1 DEF ScanInv, ScanInit, DefaultOptions
<1> DEFINE turn == Scanning!Turns(attach, ScanInit, arguments)
           n == Len(arguments)
           P == {i \in 0 .. n : ScanInv(attach, turn[i])}
<1>3. n \in Nat /\ DOMAIN arguments = 1 .. n
  BY LenProperties
<1>4. Scanning!Passes(attach, ScanInit, arguments, turn)
  BY <1>3, Scanning!FoldTurns
<1>5. /\ turn[0] = ScanInit
      /\ \A i \in 1 .. n : turn[i] = ScanArgument(attach, turn[i - 1], arguments[i])
      /\ turn[n] = Scanning!Fold(attach, ScanInit, arguments)
  BY <1>4 DEF Scanning!Passes
<1> HIDE DEF turn
<1>6. 0 \in P
  BY <1>2, <1>3, <1>5
<1>7. ASSUME NEW i \in 1 .. n, i - 1 \in P PROVE i \in P
  <2>1. arguments[i] \in Arguments
    BY <1>3, ElementOfSeq
  <2>2. ScanInv(attach, ScanArgument(attach, turn[i - 1], arguments[i]))
    BY <1>7, <2>1, ScanArgumentKeeps
  <2> QED
    BY <1>3, <1>5, <2>2
<1>8. n \in P
  <2>1. P \subseteq 0 .. n
    OBVIOUS
  <2> HIDE DEF P, n
  <2> QED
    BY <1>3, <1>6, <1>7, <2>1, Iteration
<1>9. ScanArguments(attach, arguments) = Scanning!Fold(attach, ScanInit, arguments)
  BY DEF ScanArguments, Scanning!Fold, FoldLeft, Scanning!FoldLeft, MapThenFoldSet,
         Scanning!MapThenFoldSet, Max, Scanning!Max
<1> QED
  BY <1>5, <1>8, <1>9

\* Options a session can be begun with.
Usable(available, o) ==
  /\ (o.mode = "Run") <=> (o.targetArguments # <<>>)
  /\ (o.mode = "Attach") <=> (o.targetProcessId # 0)
  /\ o.quiet \/ o.format # "text" => o.outputPath # Empty
  /\ o.hooks # <<>> /\ Selection(available, o.hooks)
  /\ o.targetArguments \in Seq(Arguments)

\* What ParseCommandLine returns.
Parsed(available, o) ==
  /\ o.mode \in {"Run", "Attach", "ListHooks", "Help", "Version", "Error"}
  /\ o.targetProcessId \in 0 .. MaxProcessId
  /\ IF o.mode \in {"Run", "Attach"} THEN Usable(available, o) ELSE o.hooks = <<>>

\* A command that is accepted leaves options that can be used.
LEMMA ParseCommandParses ==
  ASSUME NEW attach \in BOOLEAN, NEW arguments \in Seq(Arguments),
         NEW available, HookList(available)
  PROVE  Parsed(available, ParseCommand(attach, arguments, available))
<1>1. CASE ParseCommand(attach, arguments, available) = DefaultOptions
  <2>1. 0 \in 0 .. MaxProcessId
    BY CommandLineAssumption
  <2> QED
    BY <1>1, <2>1 DEF Parsed, DefaultOptions
<1>2. PICK s : s = ScanArguments(attach, arguments) /\ ScanInv(attach, s)
  BY ScanArgumentsKeep
<1>3. PICK hooks : /\ hooks = ExpandAndValidateHooks(available, s.requestedHooks)
                   /\ Selection(available, hooks)
  <2>1. s.requestedHooks \in Seq(Arguments)
    BY <1>2 DEF ScanInv, ScanRecord
  <2> QED
    BY <2>1, ExpandAndValidateHooksSelects
<1>4. CASE /\ HasTarget(attach, s)
           /\ s.formatSpecified \/ s.options.quiet => s.options.outputPath # Empty
           /\ hooks # <<>>
  <2>1. PICK p \in OptionRecord : p = s.options
    BY <1>2 DEF ScanInv, ScanRecord
  <2>2. /\ p.targetArguments \in Seq(Arguments) /\ p.targetProcessId \in 0 .. MaxProcessId
        /\ hooks \in Seq(HookRecord)
    BY <1>3, <2>1 DEF OptionRecord, Selection, HookList
  <2>3. PICK m : m = IF attach THEN "Attach" ELSE "Run"
    OBVIOUS
  <2>4. PICK o : o = [p EXCEPT !.mode = m, !.hooks = hooks]
    OBVIOUS
  <2>5. /\ o.mode = m /\ o.hooks = hooks /\ o.targetArguments = p.targetArguments
        /\ o.targetProcessId = p.targetProcessId /\ o.format = p.format
        /\ o.outputPath = p.outputPath /\ o.quiet = p.quiet
    BY <2>4 DEF OptionRecord
  <2>6. /\ attach <=> p.targetProcessId # 0
        /\ ~attach <=> p.targetArguments # <<>>
        /\ p.quiet \/ p.format # "text" => p.outputPath # Empty
    BY <1>2, <1>4, <2>1 DEF HasTarget, ScanInv
  <2>7. Usable(available, o)
    <3>1. /\ (o.mode = "Run") <=> ~attach
          /\ (o.mode = "Attach") <=> attach
      BY <2>3, <2>5
    <3>2. o.quiet \/ o.format # "text" => o.outputPath # Empty
      BY <2>5, <2>6, Zenon
    <3> QED
      BY <1>3, <1>4, <2>2, <2>5, <2>6, <3>1, <3>2 DEF Usable
  <2>8. ParseCommand(attach, arguments, available) = o
    BY <1>2, <1>3, <1>4, <2>1, <2>3, <2>4, Zenon DEF ParseCommand
  <2> QED
    BY <2>2, <2>3, <2>5, <2>7, <2>8 DEF Parsed
<1> QED
  BY <1>1, <1>2, <1>3, <1>4 DEF ParseCommand

\* What every command line parses to.
LEMMA ParseCommandLineParses ==
  ASSUME NEW args \in Seq(Arguments), NEW available, HookList(available)
  PROVE  Parsed(available, ParseCommandLine(args, available))
<1>1. 0 \in 0 .. MaxProcessId
  BY CommandLineAssumption
<1>2. ASSUME NEW m \in {"ListHooks", "Help", "Version"}
      PROVE  Parsed(available, [DefaultOptions EXCEPT !.mode = m])
  BY <1>1 DEF Parsed, DefaultOptions
<1>3. Parsed(available, DefaultOptions)
  BY <1>1 DEF Parsed, DefaultOptions
<1>4. CASE args # <<>> /\ Head(args) \in {Word("run"), Word("attach")}
  <2>1. Tail(args) \in Seq(Arguments)
    BY <1>4, HeadTailProperties
  <2>2. PICK attach \in BOOLEAN : attach = (Head(args) = Word("attach"))
    OBVIOUS
  <2>3. Parsed(available, ParseCommand(attach, Tail(args), available))
    BY <2>1, ParseCommandParses
  <2>4. args # <<Word("--list-hooks")>> /\ args # <<Word("--help")>> /\ args # <<Word("--version")>>
    BY <1>4 DEF Word
  <2>5. ParseCommandLine(args, available) = ParseCommand(attach, Tail(args), available)
    BY <1>4, <2>2, <2>4, Zenon DEF ParseCommandLine
  <2> QED
    BY <2>3, <2>5
<1>5. CASE ~(args # <<>> /\ Head(args) \in {Word("run"), Word("attach")})
  BY <1>2, <1>3, <1>5 DEF ParseCommandLine, Word
<1> QED
  BY <1>4, <1>5

----------------------------------------------------------------------------
(* The command line of the target *)

Splitting == INSTANCE FoldLemmas WITH Op <- LAMBDA c, w, letter : SplitCharacter(w, letter)
Quoting == INSTANCE FoldLemmas WITH Op <- LAMBDA c, q, letter : QuoteCharacter(q, letter)
Joining == INSTANCE FoldLemmas WITH Op <- LAMBDA c, line, a : JoinArgument(line, a)

\* What lines consist of; the lines.
Letters == STRING \cup {Blank, Quote, Backslash, "a"}
Line == Seq(Letters)

SplitState ==
  [at : {"name", "between", "argument"}, argv : Seq(Line), quoted : BOOLEAN,
   closed : BOOLEAN, slashes : Nat]

\* The runtime in an argument: those before it, its characters so far, and the
\* backslashes counted behind these.
In(w, before, r, n) ==
  w \in SplitState /\ w.at = "argument" /\ w.argv = Append(before, r) /\ w.slashes = n

\* The runtime from where it is to behind a piece of the line.
Split(w, line) == Splitting!Fold(0, w, line)

\* Backslashes one by one.
LEMMA SlashesGrow ==
  ASSUME NEW n \in Nat
  PROVE  /\ Slashes(n) \in Line /\ Len(Slashes(n)) = n
         /\ Slashes(n + 1) = Slashes(n) \o <<Backslash>>
         /\ Slashes(0) = <<>>
<1>1. ASSUME NEW k \in Nat PROVE Slashes(k) \in Line /\ Len(Slashes(k)) = k
  <2>1. Slashes(k) \in [1 .. k -> Letters]
    BY DEF Slashes, Letters
  <2> QED
    BY <2>1, IsASeq, LenProperties DEF Line
<1>2. <<Backslash>> \in Line /\ Len(<<Backslash>>) = 1 /\ <<Backslash>>[1] = Backslash
  BY DEF Line, Letters
<1>3. Slashes(n + 1) = Slashes(n) \o <<Backslash>>
  <2> DEFINE x == Slashes(n + 1)
             y == Slashes(n)
             z == y \o <<Backslash>>
  <2>1. x \in Line /\ Len(x) = n + 1 /\ y \in Line /\ Len(y) = n
    BY <1>1
  <2>2. z \in Line /\ Len(z) = n + 1
    BY <1>2, <2>1, ConcatProperties DEF Line
  <2>3. ASSUME NEW i \in 1 .. n + 1 PROVE x[i] = z[i]
    <3>1. x[i] = Backslash
      BY DEF Slashes
    <3>2. CASE i <= n
      <4>1. z[i] = y[i]
        BY <1>2, <2>1, <3>2, ConcatProperties DEF Line
      <4>2. y[i] = Backslash
        BY <3>2 DEF Slashes
      <4> QED
        BY <3>1, <4>1, <4>2
    <3>3. CASE i = n + 1
      <4>1. z[i] = <<Backslash>>[i - n]
        BY <1>2, <2>1, <3>3, ConcatProperties DEF Line
      <4>2. i - n = 1
        BY <3>3
      <4> HIDE DEF x, z
      <4> QED
        BY <1>2, <3>1, <4>1, <4>2
    <3> HIDE DEF x, z
    <3> QED
      BY <3>2, <3>3
  <2> HIDE DEF x, z
  <2>4. x = z
    BY <2>1, <2>2, <2>3, SeqEqual DEF Line
  <2> QED
    BY <2>4 DEF x, z
<1>4. Slashes(0) = <<>>
  <2>1. Slashes(0) \in Line /\ Len(Slashes(0)) = 0
    BY <1>1
  <2> QED
    BY <2>1, EmptySeq DEF Line
<1> QED
  BY <1>1, <1>3, <1>4

\* What a put does to the last argument.
PutLast(texts, chars) == [texts EXCEPT ![Len(texts)] = @ \o chars]

LEMMA PutGrows ==
  ASSUME NEW before \in Seq(Line), NEW r \in Line, NEW chars \in Line
  PROVE  /\ r \o chars \in Line /\ Append(before, r \o chars) \in Seq(Line)
         /\ Append(before, r) \in Seq(Line)
         /\ PutLast(Append(before, r), chars) = Append(before, r \o chars)
<1> DEFINE texts == Append(before, r)
           n == Len(before)
           s == r \o chars
           grown == [texts EXCEPT ![Len(texts)] = texts[Len(texts)] \o chars]
           wanted == Append(before, s)
<1>1. s \in Line
  BY ConcatProperties DEF Line
<1>2. /\ n \in Nat /\ texts \in Seq(Line) /\ Len(texts) = n + 1 /\ texts[n + 1] = r
      /\ \A i \in 1 .. n : texts[i] = before[i]
  BY AppendProperties, LenProperties
<1>3. /\ wanted \in Seq(Line) /\ Len(wanted) = n + 1 /\ wanted[n + 1] = s
      /\ \A i \in 1 .. n : wanted[i] = before[i]
  BY <1>1, AppendProperties, LenProperties
<1> HIDE DEF texts, n, wanted
<1>4. DOMAIN texts = 1 .. n + 1
  BY <1>2, LenProperties
<1>5. /\ grown \in [1 .. n + 1 -> Line] /\ grown[n + 1] = s
      /\ \A i \in 1 .. n : grown[i] = texts[i]
  <2>1. texts \in [1 .. n + 1 -> Line]
    BY <1>2, <1>4, LenProperties
  <2>2. n + 1 \in 1 .. n + 1 /\ \A i \in 1 .. n : i \in 1 .. n + 1 /\ i # n + 1
    BY <1>2
  <2>3. grown = [texts EXCEPT ![n + 1] = s]
    BY <1>2
  <2> HIDE DEF s, grown
  <2> QED
    BY <1>1, <2>1, <2>2, <2>3
<1> HIDE DEF grown, s
<1>6. grown \in Seq(Line) /\ Len(grown) = n + 1
  <2>1. n + 1 \in Nat
    BY <1>2
  <2> QED
    BY <1>5, <2>1, IsASeq, LenProperties
<1>7. \A i \in 1 .. n + 1 : grown[i] = wanted[i]
  <2>1. \A i \in 1 .. n + 1 : i \in 1 .. n \/ i = n + 1
    BY <1>2
  <2> QED
    BY <1>2, <1>3, <1>5, <2>1
<1>8. grown = wanted
  BY <1>3, <1>6, <1>7, SeqEqual
<1> QED
  BY <1>1, <1>2, <1>3, <1>8 DEF texts, grown, wanted, s, PutLast

\* What is a line, and what is behind a line.
LEMMA ShortLines ==
  /\ <<>> \in Line /\ <<>> \in Seq(Line)
  /\ \A c \in Letters : <<c>> \in Line
  /\ {Blank, Quote, Backslash} \subseteq Letters
<1>1. \A c \in Letters : <<c>> \in Line
  BY DEF Line
<1> QED
  BY <1>1, EmptySeq DEF Line, Letters

\* Characters that are put to an argument.
LEMMA PutInArgument ==
  ASSUME NEW before \in Seq(Line), NEW r \in Line, NEW n, NEW w, In(w, before, r, n),
         NEW chars \in Line
  PROVE  /\ In(PutChars(w, chars), before, r \o chars, n)
         /\ PutChars(w, chars).quoted = w.quoted
         /\ PutChars(w, chars).closed = w.closed
<1>1. PICK texts : texts = Append(before, r)
  OBVIOUS
<1>2. PICK more \in Seq(Line) : more = Append(before, r \o chars)
  BY PutGrows
<1>3. PutLast(texts, chars) = more
  BY <1>1, <1>2, PutGrows
<1>4. w \in SplitState /\ w.argv = texts
  BY <1>1 DEF In
<1>5. PutChars(w, chars) = [w EXCEPT !.argv = more]
  BY <1>3, <1>4 DEF PutChars, PutLast
<1>6. PICK v : v = [w EXCEPT !.argv = more]
  OBVIOUS
<1>7. /\ v \in SplitState /\ v.argv = more /\ v.at = w.at /\ v.quoted = w.quoted
      /\ v.closed = w.closed /\ v.slashes = w.slashes
  BY <1>2, <1>4, <1>6 DEF SplitState
<1> QED
  BY <1>2, <1>5, <1>6, <1>7 DEF In

\* Counted backslashes that are.
LEMMA SlashesInArgument ==
  ASSUME NEW before \in Seq(Line), NEW r \in Line, NEW n, NEW w, In(w, before, r, n),
         NEW k \in Nat
  PROVE  /\ In(PutSlashes(w, k), before, r \o Slashes(k), 0)
         /\ PutSlashes(w, k).quoted = w.quoted
         /\ ~PutSlashes(w, k).closed
<1>1. PICK put : put = PutChars(w, Slashes(k))
  OBVIOUS
<1>2. In(put, before, r \o Slashes(k), n) /\ put.quoted = w.quoted
  <2>1. PICK chars \in Line : chars = Slashes(k)
    BY SlashesGrow
  <2>2. In(PutChars(w, chars), before, r \o chars, n) /\ PutChars(w, chars).quoted = w.quoted
    BY PutInArgument
  <2> QED
    BY <1>1, <2>1, <2>2
<1>3. PutSlashes(w, k) = [put EXCEPT !.slashes = 0, !.closed = FALSE]
  BY <1>1 DEF PutSlashes
<1>4. PICK v : v = [put EXCEPT !.slashes = 0, !.closed = FALSE]
  OBVIOUS
<1>5. put \in SplitState
  BY <1>2 DEF In
<1>6. /\ v \in SplitState /\ v.argv = put.argv /\ v.at = put.at /\ v.quoted = put.quoted
      /\ ~v.closed /\ v.slashes = 0
  BY <1>4, <1>5 DEF SplitState
<1> QED
  BY <1>2, <1>3, <1>4, <1>6 DEF In

\* Every character has one of these meanings in an argument.
LEMMA SplitSlash ==
  ASSUME NEW before \in Seq(Line), NEW r \in Line, NEW n \in Nat, NEW w,
         In(w, before, r, n)
  PROVE  /\ In(SplitCharacter(w, Backslash), before, r, n + 1)
         /\ SplitCharacter(w, Backslash).quoted = w.quoted
         /\ ~SplitCharacter(w, Backslash).closed
<1>0. PICK no \in BOOLEAN : no = FALSE
  OBVIOUS
<1>1. PICK v : v = [w EXCEPT !.slashes = n + 1, !.closed = no]
  OBVIOUS
<1>2. w \in SplitState /\ w.at = "argument" /\ w.slashes = n
  BY DEF In
<1>3. SplitCharacter(w, Backslash) = v
  BY <1>0, <1>1, <1>2 DEF SplitCharacter, SplitArgument, Backslash, Quote, Blank
<1>4. /\ v \in SplitState /\ v.argv = w.argv /\ v.at = w.at /\ v.quoted = w.quoted
      /\ v.closed = no /\ v.slashes = n + 1
  <2>1. PICK m \in Nat : m = n + 1
    OBVIOUS
  <2>2. PICK u : u = [w EXCEPT !.slashes = m]
    OBVIOUS
  <2>3. /\ u \in SplitState /\ u.argv = w.argv /\ u.at = w.at /\ u.quoted = w.quoted
        /\ u.slashes = m
    BY <1>2, <2>2 DEF SplitState
  <2>4. v = [u EXCEPT !.closed = no]
    BY <1>1, <2>1, <2>2
  <2> QED
    BY <1>0, <2>1, <2>3, <2>4 DEF SplitState
<1> QED
  BY <1>0, <1>3, <1>4 DEF In

LEMMA SplitOrdinary ==
  ASSUME NEW before \in Seq(Line), NEW r \in Line, NEW n \in Nat, NEW w,
         In(w, before, r, n), NEW c \in Letters,
         c \notin {Backslash, Quote}, c = Blank => w.quoted
  PROVE  /\ In(SplitCharacter(w, c), before, (r \o Slashes(n)) \o <<c>>, 0)
         /\ SplitCharacter(w, c).quoted = w.quoted
         /\ ~SplitCharacter(w, c).closed
<1>1. w.at = "argument" /\ w.slashes = n
  BY DEF In
<1>2. PICK put : put = PutSlashes(w, n)
  OBVIOUS
<1>3. In(put, before, r \o Slashes(n), 0) /\ put.quoted = w.quoted /\ ~put.closed
  BY <1>2, SlashesInArgument
<1>4. r \o Slashes(n) \in Line /\ <<c>> \in Line
  BY SlashesGrow, PutGrows, ShortLines
<1>5. SplitCharacter(w, c) = PutChars(put, <<c>>)
  BY <1>1, <1>2 DEF SplitCharacter, SplitArgument
<1> QED
  BY <1>3, <1>4, <1>5, PutInArgument

LEMMA SplitBlank ==
  ASSUME NEW before \in Seq(Line), NEW r \in Line, NEW n \in Nat, NEW w,
         In(w, before, r, n), ~w.quoted
  PROVE  LET v == SplitCharacter(w, Blank)
         IN  /\ v \in SplitState /\ v.at = "between" /\ ~v.quoted /\ ~v.closed
             /\ v.argv = Append(before, r \o Slashes(n)) /\ v.slashes = 0
<1>1. w.at = "argument" /\ w.slashes = n
  BY DEF In
<1>2. PICK put : put = PutSlashes(w, n)
  OBVIOUS
<1>3. In(put, before, r \o Slashes(n), 0) /\ put.quoted = w.quoted /\ ~put.closed
  BY <1>2, SlashesInArgument
<1>4. PICK v : v = [put EXCEPT !.at = "between"]
  OBVIOUS
<1>5. put \in SplitState
  BY <1>3 DEF In
<1>6. /\ v \in SplitState /\ v.argv = put.argv /\ v.at = "between"
      /\ v.quoted = put.quoted /\ v.closed = put.closed /\ v.slashes = put.slashes
  BY <1>4, <1>5 DEF SplitState
<1>7. SplitCharacter(w, Blank) = v
  BY <1>1, <1>2, <1>4 DEF SplitCharacter, SplitArgument, Blank, Quote, Backslash
<1> QED
  BY <1>3, <1>6, <1>7 DEF In

LEMMA OneIsNotZero == 1 # 0
OBVIOUS

\* A quote behind an odd number of backslashes.
LEMMA SplitInnerQuote ==
  ASSUME NEW before \in Seq(Line), NEW r \in Line, NEW k \in Nat, NEW n \in Nat,
         n = 2 * k + 1, NEW w, In(w, before, r, n)
  PROVE  /\ In(SplitCharacter(w, Quote), before, (r \o Slashes(k)) \o <<Quote>>, 0)
         /\ SplitCharacter(w, Quote).quoted = w.quoted
         /\ ~SplitCharacter(w, Quote).closed
<1>1. w.at = "argument" /\ w.slashes = n
  BY DEF In
<1>2. PICK put : put = PutSlashes(w, k)
  OBVIOUS
<1>3. In(put, before, r \o Slashes(k), 0) /\ put.quoted = w.quoted /\ ~put.closed
  BY <1>2, SlashesInArgument
<1>4. r \o Slashes(k) \in Line /\ <<Quote>> \in Line
  BY SlashesGrow, PutGrows, ShortLines
<1>5. n % 2 = 1 /\ n \div 2 = k
  OBVIOUS
<1>6. SplitCharacter(w, Quote) = PutChars(put, <<Quote>>)
  <2>1. SplitCharacter(w, Quote) = SplitArgument(w, Quote)
    BY <1>1 DEF SplitCharacter
  <2>2. Quote # Backslash /\ Quote # Blank
    BY DEF Quote, Backslash, Blank
  <2>3. w.slashes % 2 = 1 /\ put = PutSlashes(w, w.slashes \div 2)
    BY <1>1, <1>2, <1>5
  <2> QED
    BY <2>1, <2>2, <2>3, OneIsNotZero DEF SplitArgument
<1> QED
  BY <1>3, <1>4, <1>6, PutInArgument

\* A quote behind an even number of them, not behind a closing quote.
LEMMA SplitOuterQuote ==
  ASSUME NEW before \in Seq(Line), NEW r \in Line, NEW k \in Nat, NEW n \in Nat,
         n = 2 * k, NEW w, In(w, before, r, n), ~w.closed
  PROVE  /\ In(SplitCharacter(w, Quote), before, r \o Slashes(k), 0)
         /\ SplitCharacter(w, Quote).quoted <=> ~w.quoted
         /\ SplitCharacter(w, Quote).closed <=> w.quoted
<1>1. w \in SplitState /\ w.at = "argument" /\ w.slashes = n
  BY DEF In
<1>2. PICK put : put = PutSlashes(w, k)
  OBVIOUS
<1>3. In(put, before, r \o Slashes(k), 0) /\ put.quoted = w.quoted /\ ~put.closed
  BY <1>2, SlashesInArgument
<1>4. n % 2 = 0 /\ n \div 2 = k
  OBVIOUS
<1>5. PICK v : v = [put EXCEPT !.quoted = ~@, !.closed = w.quoted]
  OBVIOUS
<1>6. put \in SplitState
  BY <1>3 DEF In
<1>7. /\ v \in SplitState /\ v.argv = put.argv /\ v.at = put.at
      /\ (v.quoted <=> ~put.quoted) /\ (v.closed <=> w.quoted) /\ v.slashes = put.slashes
  BY <1>1, <1>5, <1>6 DEF SplitState
<1>8. SplitCharacter(w, Quote) = v
  <2>1. SplitCharacter(w, Quote) = SplitArgument(w, Quote)
    BY <1>1 DEF SplitCharacter
  <2>2. Quote # Backslash /\ Quote # Blank
    BY DEF Quote, Backslash, Blank
  <2>3. w.slashes % 2 = 0 /\ put = PutSlashes(w, w.slashes \div 2)
    BY <1>1, <1>2, <1>4
  <2> QED
    BY <1>5, <2>1, <2>2, <2>3, OneIsNotZero DEF SplitArgument
<1> QED
  BY <1>3, <1>7, <1>8 DEF In

\* A piece of the line and the next, a piece of one character.
LEMMA SplitPieces ==
  ASSUME NEW w, NEW a \in Line, NEW b \in Line
  PROVE  /\ a \o b \in Line /\ Split(w, a \o b) = Split(Split(w, a), b)
         /\ Split(w, <<>>) = w
<1>1. a \o b \in Line
  BY ConcatProperties DEF Line
<1>2. Split(w, a \o b) = Split(Split(w, a), b)
  BY Splitting!FoldOfConcat DEF Split, Line
<1>3. Split(w, <<>>) = w
  BY Splitting!FoldOfNone DEF Split
<1> QED
  BY <1>1, <1>2, <1>3

\* A piece, and a character behind it.
LEMMA SplitNext ==
  ASSUME NEW w, NEW a \in Line, NEW c \in Letters
  PROVE  a \o <<c>> \in Line /\ Split(w, a \o <<c>>) = SplitCharacter(Split(w, a), c)
<1>1. PICK v : v = Split(w, a)
  OBVIOUS
<1>2. PICK b \in Line : b = <<c>>
  BY ShortLines
<1>3. a \o b \in Line /\ Split(w, a \o b) = Split(v, b)
  BY <1>1, SplitPieces
<1>4. Split(v, b) = SplitCharacter(v, c)
  BY <1>2, Splitting!FoldOfOne DEF Split
<1> QED
  BY <1>1, <1>2, <1>3, <1>4

\* A run of backslashes.
LEMMA SplitSlashes ==
  ASSUME NEW before \in Seq(Line), NEW r \in Line, NEW w, In(w, before, r, 0), ~w.closed,
         NEW k \in Nat
  PROVE  /\ In(Split(w, Slashes(k)), before, r, k)
         /\ Split(w, Slashes(k)).quoted = w.quoted
         /\ ~Split(w, Slashes(k)).closed
<1> DEFINE Holds(i) == /\ In(Split(w, Slashes(i)), before, r, i)
                       /\ Split(w, Slashes(i)).quoted = w.quoted
                       /\ ~Split(w, Slashes(i)).closed
           P == {i \in 0 .. k : Holds(i)}
<1>1. Holds(0)
  <2>1. Split(w, Slashes(0)) = w
    BY SlashesGrow, SplitPieces, ShortLines
  <2> QED
    BY <2>1
<1>2. ASSUME NEW i \in Nat, Holds(i) PROVE Holds(i + 1)
  <2>1. PICK v : v = Split(w, Slashes(i))
    OBVIOUS
  <2>2. In(v, before, r, i) /\ v.quoted = w.quoted
    BY <1>2, <2>1
  <2>3. Split(w, Slashes(i + 1)) = SplitCharacter(v, Backslash)
    <3>1. PICK chars \in Line : chars = Slashes(i) /\ Slashes(i + 1) = chars \o <<Backslash>>
      BY SlashesGrow
    <3>2. Split(w, chars \o <<Backslash>>) = SplitCharacter(Split(w, chars), Backslash)
      BY SplitNext, ShortLines
    <3> QED
      BY <2>1, <3>1, <3>2
  <2> QED
    BY <2>2, <2>3, SplitSlash
<1> HIDE DEF Holds
<1>3. ASSUME NEW i \in 1 .. k, i - 1 \in P PROVE i \in P
  <2>1. i - 1 \in Nat /\ i = (i - 1) + 1 /\ i \in 0 .. k
    OBVIOUS
  <2>2. Holds(i)
    BY <1>2, <1>3, <2>1
  <2> QED
    BY <2>1, <2>2
<1>4. P \subseteq 0 .. k /\ 0 \in P
  BY <1>1
<1>5. k \in P
  <2> HIDE DEF P
  <2> QED
    BY <1>3, <1>4, Iteration
<1> QED
  BY <1>5 DEF Holds

\* The beginnings of a sequence, one by one.
LEMMA BeginningsGrow ==
  ASSUME NEW S, NEW s \in Seq(S)
  PROVE  /\ SubSeq(s, 1, 0) = <<>> /\ SubSeq(s, 1, Len(s)) = s
         /\ \A i \in 1 .. Len(s) :
              /\ SubSeq(s, 1, i - 1) \in Seq(S) /\ s[i] \in S
              /\ SubSeq(s, 1, i) = SubSeq(s, 1, i - 1) \o <<s[i]>>
              /\ Len(SubSeq(s, 1, i - 1)) = i - 1
<1>1. SubSeq(s, 1, 0) = <<>> /\ SubSeq(s, 1, Len(s)) = s
  BY SubSeqEmpty, SubSeqFull
<1>2. ASSUME NEW i \in 1 .. Len(s)
      PROVE  /\ SubSeq(s, 1, i - 1) \in Seq(S) /\ s[i] \in S
             /\ SubSeq(s, 1, i) = SubSeq(s, 1, i - 1) \o <<s[i]>>
             /\ Len(SubSeq(s, 1, i - 1)) = i - 1
  <2>1. Len(s) \in Nat /\ DOMAIN s = 1 .. Len(s) /\ \A j \in 1 .. Len(s) : s[j] \in S
    BY LenProperties
  <2>2. SubSeq(s, 1, i - 1) \in Seq(S) /\ Len(SubSeq(s, 1, i - 1)) = i - 1
    BY <2>1, SubSeqProperties
  <2>3. SubSeq(s, 1, i) = SubSeq(s, 1, i - 1) \o <<s[i]>>
    BY <2>1, SubSeqRecursiveSecond
  <2> QED
    BY <2>1, <2>2, <2>3
<1> QED
  BY <1>1, <1>2

LEMMA LineConcat ==
  ASSUME NEW a \in Line, NEW b \in Line, NEW c \in Line
  PROVE  /\ a \o b \in Line /\ a \o (b \o c) = (a \o b) \o c
         /\ a \o <<>> = a /\ <<>> \o a = a
BY ConcatProperties, ConcatAssociative, ConcatEmptySeq DEF Line

\* One backslash more.
LEMMA SlashBehind ==
  ASSUME NEW r \in Line, NEW n \in Nat
  PROVE  r \o Slashes(n + 1) = (r \o Slashes(n)) \o <<Backslash>>
<1>1. PICK s \in Line : s = Slashes(n) /\ Slashes(n + 1) = s \o <<Backslash>>
  BY SlashesGrow
<1>2. PICK one \in Line : one = <<Backslash>>
  BY ShortLines
<1>3. r \o (s \o one) = (r \o s) \o one
  BY ConcatAssociative DEF Line
<1> QED
  BY <1>1, <1>2, <1>3

\* Inside quotes, behind the characters p: the runtime has read them but for the
\* backslashes that QuoteWindowsArgument has not written yet.
QuoteInv(w, before, q, p) ==
  /\ q \in [out : Line, slashes : Nat]
  /\ Split(w, q.out).quoted /\ ~Split(w, q.out).closed
  /\ \E r \in Line : /\ In(Split(w, q.out), before, r, 0)
                     /\ r \o Slashes(q.slashes) = p

\* Either backslashes or a run of them and a character.
LEMMA QuoteFields ==
  ASSUME NEW q \in [out : Line, slashes : Nat], NEW c \in Letters
  PROVE  LET next == QuoteCharacter(q, c)
             n == IF c = Quote THEN q.slashes * 2 + 1 ELSE q.slashes
         IN  /\ next \in [out : Line, slashes : Nat]
             /\ c = Backslash => next.out = q.out /\ next.slashes = q.slashes + 1
             /\ c # Backslash => /\ next.out = (q.out \o Slashes(n)) \o <<c>>
                                /\ next.slashes = 0
<1> DEFINE next == QuoteCharacter(q, c)
<1>1. CASE c = Backslash
  <2>1. next = [q EXCEPT !.slashes = q.slashes + 1]
    BY <1>1 DEF QuoteCharacter
  <2> HIDE DEF next
  <2>2. next \in [out : Line, slashes : Nat] /\ next.out = q.out /\ next.slashes = q.slashes + 1
    BY <2>1
  <2> QED
    BY <1>1, <2>2 DEF next
<1>2. CASE c # Backslash
  <2>1. PICK n \in Nat : n = IF c = Quote THEN q.slashes * 2 + 1 ELSE q.slashes
    OBVIOUS
  <2>2. PICK out \in Line : out = (q.out \o Slashes(n)) \o <<c>>
    <3>1. Slashes(n) \in Line /\ <<c>> \in Line /\ q.out \in Line
      BY SlashesGrow, ShortLines
    <3> QED
      BY <3>1, LineConcat
  <2>3. next = [out |-> out, slashes |-> 0]
    BY <1>2, <2>1, <2>2 DEF QuoteCharacter
  <2> HIDE DEF next
  <2>4. next \in [out : Line, slashes : Nat] /\ next.out = out /\ next.slashes = 0
    BY <2>3
  <2> QED
    BY <1>2, <2>1, <2>2, <2>4 DEF next
<1> QED
  BY <1>1, <1>2

LEMMA QuoteCharacterKeeps ==
  ASSUME NEW w, NEW before \in Seq(Line), NEW q, NEW p \in Line,
         QuoteInv(w, before, q, p), NEW c \in Letters
  PROVE  QuoteInv(w, before, QuoteCharacter(q, c), p \o <<c>>)
<1>1. q \in [out : Line, slashes : Nat] /\ q.out \in Line /\ q.slashes \in Nat
  BY DEF QuoteInv
<1>2. PICK v : v = Split(w, q.out)
  OBVIOUS
<1>3. PICK r \in Line : In(v, before, r, 0) /\ r \o Slashes(q.slashes) = p
  BY <1>2 DEF QuoteInv
<1>4. v.quoted /\ ~v.closed
  BY <1>2 DEF QuoteInv
<1>5. PICK next : next = QuoteCharacter(q, c)
  OBVIOUS
<1>6. next \in [out : Line, slashes : Nat]
  BY <1>1, <1>5, QuoteFields
<1>7. CASE c = Backslash
  <2>1. next.out = q.out /\ next.slashes = q.slashes + 1
    BY <1>1, <1>5, <1>7, QuoteFields
  <2>2. r \o Slashes(next.slashes) = p \o <<c>>
    BY <1>1, <1>3, <1>7, <2>1, SlashBehind
  <2> QED
    BY <1>2, <1>3, <1>4, <1>5, <1>6, <2>1, <2>2 DEF QuoteInv
<1>8. CASE c # Backslash
  <2>1. PICK n \in Nat : n = IF c = Quote THEN q.slashes * 2 + 1 ELSE q.slashes
    BY <1>1
  <2>2. next.out = (q.out \o Slashes(n)) \o <<c>> /\ next.slashes = 0
    BY <1>1, <1>5, <1>8, <2>1, QuoteFields
  <2>3. PICK u : u = Split(v, Slashes(n))
    OBVIOUS
  <2>4. In(u, before, r, n) /\ u.quoted /\ ~u.closed
    <3>1. /\ In(Split(v, Slashes(n)), before, r, n)
          /\ Split(v, Slashes(n)).quoted = v.quoted
          /\ ~Split(v, Slashes(n)).closed
      BY <1>3, <1>4, SplitSlashes
    <3> QED
      BY <1>4, <2>3, <3>1
  <2>5. Split(w, next.out) = SplitCharacter(u, c)
    <3>1. PICK s \in Line : s = Slashes(n)
      BY SlashesGrow
    <3>2. q.out \o s \in Line /\ Split(w, q.out \o s) = Split(v, s)
      BY <1>1, <1>2, SplitPieces
    <3>3. Split(w, (q.out \o s) \o <<c>>) = SplitCharacter(Split(w, q.out \o s), c)
      BY <3>2, SplitNext
    <3> QED
      BY <2>2, <2>3, <3>1, <3>2, <3>3
  <2>6. PICK z : z = SplitCharacter(u, c)
    OBVIOUS
  <2>7. In(z, before, p \o <<c>>, 0) /\ z.quoted /\ ~z.closed
    <3>1. CASE c = Quote
      <4>1. n = 2 * q.slashes + 1
        BY <1>1, <2>1, <3>1
      <4>2. /\ In(SplitCharacter(u, Quote), before, (r \o Slashes(q.slashes)) \o <<Quote>>, 0)
            /\ SplitCharacter(u, Quote).quoted = u.quoted
            /\ ~SplitCharacter(u, Quote).closed
        BY <1>1, <2>4, <4>1, SplitInnerQuote
      <4> QED
        BY <1>3, <2>4, <2>6, <3>1, <4>2
    <3>2. CASE c # Quote
      <4>1. n = q.slashes
        BY <2>1, <3>2
      <4>2. /\ In(SplitCharacter(u, c), before, (r \o Slashes(n)) \o <<c>>, 0)
            /\ SplitCharacter(u, c).quoted = u.quoted
            /\ ~SplitCharacter(u, c).closed
        BY <1>8, <2>4, <3>2, SplitOrdinary
      <4> QED
        BY <1>3, <2>4, <2>6, <4>1, <4>2
    <3> QED
      BY <3>1, <3>2
  <2>8. /\ p \o <<c>> \in Line /\ (p \o <<c>>) \o Slashes(0) = p \o <<c>>
    BY ShortLines, SlashesGrow, LineConcat
  <2> QED
    BY <1>5, <1>6, <2>2, <2>5, <2>6, <2>7, <2>8 DEF QuoteInv
<1> QED
  BY <1>7, <1>8

\* What lies between two arguments of the line.
Between(w) == w \in SplitState /\ w.at = "between" /\ ~w.quoted /\ ~w.closed /\ w.slashes = 0

\* The characters of an argument have been read: no more can change but by what
\* follows.
Ready(w, before, chars) ==
  /\ ~w.quoted
  /\ \E r \in Line, n \in Nat : In(w, before, r, n) /\ r \o Slashes(n) = chars

Opened(w) == [w EXCEPT !.at = "argument", !.argv = Append(@, <<>>)]

\* The first character of an argument opens it.
LEMMA OpensArgument ==
  ASSUME NEW w, Between(w)
  PROVE  /\ In(Opened(w), w.argv, <<>>, 0) /\ ~Opened(w).quoted /\ ~Opened(w).closed
         /\ \A c \in Letters \ {Blank} : SplitCharacter(w, c) = SplitCharacter(Opened(w), c)
<1>1. PICK texts \in Seq(Line) : texts = Append(w.argv, <<>>)
  BY ShortLines, PutGrows DEF Between, SplitState
<1>2. PICK v : v = [w EXCEPT !.at = "argument", !.argv = texts]
  OBVIOUS
<1>3. Opened(w) = v
  BY <1>1, <1>2 DEF Opened
<1>4. w \in SplitState /\ w.at = "between"
  BY DEF Between
<1>5. /\ v \in SplitState /\ v.at = "argument" /\ v.argv = texts /\ v.quoted = w.quoted
      /\ v.closed = w.closed /\ v.slashes = w.slashes
  BY <1>2, <1>4 DEF SplitState
<1>6. In(v, w.argv, <<>>, 0) /\ ~v.quoted /\ ~v.closed
  BY <1>1, <1>5 DEF In, Between
<1>7. ASSUME NEW c \in Letters \ {Blank}
      PROVE  SplitCharacter(w, c) = SplitCharacter(v, c)
  <2>1. SplitCharacter(v, c) = SplitArgument(v, c)
    BY <1>5 DEF SplitCharacter
  <2>2. SplitCharacter(w, c) = SplitArgument(Opened(w), c)
    BY <1>4, <1>7 DEF SplitCharacter, Opened
  <2> QED
    BY <1>3, <2>1, <2>2
<1> QED
  BY <1>3, <1>6, <1>7

\* A line that begins with a character opens the argument first.
LEMMA OpensWithLine ==
  ASSUME NEW w, Between(w), NEW c \in Letters \ {Blank}, NEW rest \in Line
  PROVE  Split(w, <<c>> \o rest) = Split(Opened(w), <<c>> \o rest)
<1>1. PICK one \in Line : one = <<c>>
  BY ShortLines
<1>2. ASSUME NEW v PROVE Split(v, one) = SplitCharacter(v, c)
  BY <1>1, Splitting!FoldOfOne DEF Split
<1>3. SplitCharacter(w, c) = SplitCharacter(Opened(w), c)
  BY OpensArgument
<1>4. Split(w, one) = Split(Opened(w), one)
  BY <1>2, <1>3
<1>5. /\ Split(w, one \o rest) = Split(Split(w, one), rest)
      /\ Split(Opened(w), one \o rest) = Split(Split(Opened(w), one), rest)
  BY SplitPieces
<1> QED
  BY <1>1, <1>4, <1>5

\* Behind the quote that opens.
LEMMA QuoteOpens ==
  ASSUME NEW w, Between(w)
  PROVE  QuoteInv(w, w.argv, QuoteInit, <<>>)
<1>1. PICK v : v = Opened(w)
  OBVIOUS
<1>2. In(v, w.argv, <<>>, 0) /\ ~v.quoted /\ ~v.closed
  BY <1>1, OpensArgument
<1>3. Quote \in Letters \ {Blank}
  BY DEF Letters, Quote, Blank
<1>4. Split(w, <<Quote>>) = SplitCharacter(v, Quote)
  <2>1. Split(w, <<Quote>>) = SplitCharacter(w, Quote)
    BY Splitting!FoldOfOne DEF Split
  <2> QED
    BY <1>1, <1>3, <2>1, OpensArgument
<1>5. w.argv \in Seq(Line)
  BY DEF Between, SplitState
<1>6. PICK u : u = SplitCharacter(v, Quote)
  OBVIOUS
<1>7. In(u, w.argv, <<>> \o Slashes(0), 0) /\ u.quoted /\ ~u.closed
  <2>1. <<>> \in Line /\ 0 = 2 * 0
    BY ShortLines
  <2> QED
    BY <1>2, <1>5, <1>6, <2>1, SplitOuterQuote
<1>8. <<>> \o Slashes(0) = <<>> /\ <<>> \in Line
  BY SlashesGrow, ShortLines, LineConcat
<1>9. PICK q : q = QuoteInit
  OBVIOUS
<1>10. q \in [out : Line, slashes : Nat] /\ q.out = <<Quote>> /\ q.slashes = 0
  BY <1>9, ShortLines DEF QuoteInit
<1> QED
  BY <1>4, <1>6, <1>7, <1>8, <1>9, <1>10 DEF QuoteInv

\* Characters, and one behind them.
LEMMA QuoteNext ==
  ASSUME NEW p \in Line, NEW c \in Letters
  PROVE  Quoting!Fold(0, QuoteInit, p \o <<c>>)
           = QuoteCharacter(Quoting!Fold(0, QuoteInit, p), c)
<1>1. PICK one \in Line : one = <<c>>
  BY ShortLines
<1>2. PICK q : q = Quoting!Fold(0, QuoteInit, p)
  OBVIOUS
<1>3. Quoting!Fold(0, QuoteInit, p \o one) = Quoting!Fold(0, q, one)
  BY <1>2, Quoting!FoldOfConcat DEF Line
<1>4. Quoting!Fold(0, q, one) = QuoteCharacter(q, c)
  BY <1>1, Quoting!FoldOfOne
<1> QED
  BY <1>1, <1>2, <1>3, <1>4

\* All characters of an argument, quoted.
LEMMA QuotesAll ==
  ASSUME NEW w, Between(w), NEW chars \in Line
  PROVE  QuoteInv(w, w.argv, Quoting!Fold(0, QuoteInit, chars), chars)
<1> DEFINE Holds(i) == QuoteInv(w, w.argv, Quoting!Fold(0, QuoteInit, SubSeq(chars, 1, i)),
                                SubSeq(chars, 1, i))
           n == Len(chars)
           P == {i \in 0 .. n : Holds(i)}
<1>1. n \in Nat /\ w.argv \in Seq(Line)
  BY LenProperties DEF Line, Between, SplitState
<1>2. Holds(0)
  BY QuoteOpens, BeginningsGrow, Quoting!FoldOfNone DEF Line
<1>3. ASSUME NEW i \in 1 .. n, Holds(i - 1) PROVE Holds(i)
  <2>1. PICK p \in Line : p = SubSeq(chars, 1, i - 1)
    BY BeginningsGrow DEF Line
  <2>2. PICK c \in Letters : c = chars[i]
    BY BeginningsGrow DEF Line
  <2>3. SubSeq(chars, 1, i) = p \o <<c>>
    BY <2>1, <2>2, BeginningsGrow DEF Line
  <2>4. PICK q : q = Quoting!Fold(0, QuoteInit, p) /\ QuoteInv(w, w.argv, q, p)
    BY <1>3, <2>1
  <2>5. Quoting!Fold(0, QuoteInit, p \o <<c>>) = QuoteCharacter(q, c)
    BY <2>4, QuoteNext
  <2>6. QuoteInv(w, w.argv, QuoteCharacter(q, c), p \o <<c>>)
    BY <1>1, <2>4, QuoteCharacterKeeps
  <2> QED
    BY <2>3, <2>5, <2>6
<1> HIDE DEF Holds
<1>4. P \subseteq 0 .. n /\ 0 \in P
  BY <1>1, <1>2
<1>5. ASSUME NEW i \in 1 .. n, i - 1 \in P PROVE i \in P
  BY <1>1, <1>3, <1>5
<1>6. n \in P
  <2> HIDE DEF P
  <2> QED
    BY <1>1, <1>4, <1>5, Iteration
<1>7. Holds(n)
  BY <1>6
<1> QED
  BY <1>7, BeginningsGrow DEF Line, Holds

\* What is not quoted is read as it is.
PlainInv(w, before, p) == ~Split(w, p).closed /\ Ready(Split(w, p), before, p)

LEMMA PlainCharacterKeeps ==
  ASSUME NEW w, NEW before \in Seq(Line), NEW p \in Line, PlainInv(w, before, p),
         NEW c \in Letters \ {Blank, Quote}
  PROVE  PlainInv(w, before, p \o <<c>>)
<1>1. PICK v : v = Split(w, p)
  OBVIOUS
<1>2. PICK r \in Line, n \in Nat : In(v, before, r, n) /\ r \o Slashes(n) = p
  BY <1>1 DEF PlainInv, Ready
<1>3. ~v.quoted /\ ~v.closed
  BY <1>1 DEF PlainInv, Ready
<1>4. PICK u : u = SplitCharacter(v, c)
  OBVIOUS
<1>5. Split(w, p \o <<c>>) = u
  BY <1>1, <1>4, SplitNext
<1>6. CASE c = Backslash
  <2>1. In(u, before, r, n + 1) /\ ~u.quoted /\ ~u.closed
    BY <1>2, <1>3, <1>4, <1>6, SplitSlash
  <2>2. r \o Slashes(n + 1) = p \o <<c>>
    BY <1>2, <1>6, SlashBehind
  <2>3. n + 1 \in Nat
    OBVIOUS
  <2> QED
    BY <1>5, <2>1, <2>2, <2>3 DEF PlainInv, Ready
<1>7. CASE c # Backslash
  <2>1. In(u, before, (r \o Slashes(n)) \o <<c>>, 0) /\ ~u.quoted /\ ~u.closed
    <3>1. /\ In(SplitCharacter(v, c), before, (r \o Slashes(n)) \o <<c>>, 0)
          /\ SplitCharacter(v, c).quoted = v.quoted
          /\ ~SplitCharacter(v, c).closed
      BY <1>2, <1>7, SplitOrdinary
    <3> QED
      BY <1>3, <1>4, <3>1
  <2>2. p \o <<c>> \in Line /\ (p \o <<c>>) \o Slashes(0) = p \o <<c>>
    BY ShortLines, SlashesGrow, LineConcat
  <2> QED
    BY <1>2, <1>5, <2>1, <2>2 DEF PlainInv, Ready
<1> QED
  BY <1>6, <1>7

LEMMA PlainAll ==
  ASSUME NEW w, NEW before \in Seq(Line), In(w, before, <<>>, 0), ~w.quoted, ~w.closed,
         NEW chars \in Line, ToSet(chars) \cap {Blank, Quote} = {}
  PROVE  Ready(Split(w, chars), before, chars)
<1> DEFINE Holds(i) == PlainInv(w, before, SubSeq(chars, 1, i))
           n == Len(chars)
           P == {i \in 0 .. n : Holds(i)}
<1>1. n \in Nat /\ DOMAIN chars = 1 .. n
  BY LenProperties DEF Line
<1>2. Holds(0)
  <2>1. SubSeq(chars, 1, 0) = <<>> /\ <<>> \in Line /\ Split(w, <<>>) = w
    BY BeginningsGrow, ShortLines, SplitPieces DEF Line
  <2>2. <<>> \o Slashes(0) = <<>>
    BY ShortLines, SlashesGrow, LineConcat
  <2> QED
    BY <2>1, <2>2 DEF PlainInv, Ready
<1>3. ASSUME NEW i \in 1 .. n, Holds(i - 1) PROVE Holds(i)
  <2>1. PICK p \in Line : p = SubSeq(chars, 1, i - 1)
    BY BeginningsGrow DEF Line
  <2>2. PICK c \in Letters : c = chars[i]
    BY BeginningsGrow DEF Line
  <2>3. SubSeq(chars, 1, i) = p \o <<c>>
    BY <2>1, <2>2, BeginningsGrow DEF Line
  <2>4. c \notin {Blank, Quote}
    BY <1>1, <2>2 DEF ToSet
  <2> QED
    BY <1>3, <2>1, <2>3, <2>4, PlainCharacterKeeps
<1> HIDE DEF Holds
<1>4. P \subseteq 0 .. n /\ 0 \in P
  BY <1>1, <1>2
<1>5. ASSUME NEW i \in 1 .. n, i - 1 \in P PROVE i \in P
  BY <1>1, <1>3, <1>5
<1>6. n \in P
  <2> HIDE DEF P
  <2> QED
    BY <1>1, <1>4, <1>5, Iteration
<1>7. Holds(n)
  BY <1>6
<1>8. SubSeq(chars, 1, n) = chars
  BY BeginningsGrow DEF Line
<1> QED
  BY <1>7, <1>8 DEF Holds, PlainInv

\* A sequence and its first element.
LEMMA FirstAndRest ==
  ASSUME NEW S, NEW s \in Seq(S), s # <<>>
  PROVE  \E rest \in Seq(S) : s = <<s[1]>> \o rest /\ s[1] \in S /\ 1 \in DOMAIN s
<1>1. Len(s) \in Nat \ {0} /\ DOMAIN s = 1 .. Len(s) /\ \A j \in 1 .. Len(s) : s[j] \in S
  BY LenProperties, EmptySeq
<1>2. SubSeq(s, 2, Len(s)) \in Seq(S)
  BY <1>1, SubSeqProperties
<1>3. 1 \in 1 .. Len(s) /\ Len(s) \in 1 .. Len(s) /\ 1 + 1 = 2
  BY <1>1
<1>4. SubSeq(s, 1, Len(s)) = <<s[1]>> \o SubSeq(s, 2, Len(s))
  BY <1>3, SubSeqRecursiveFirst
<1> QED
  BY <1>1, <1>2, <1>3, <1>4, SubSeqFull

\* Which arguments are quoted, and what comes of those that are.
IsPlain(chars) == chars # <<>> /\ ToSet(chars) \cap {Blank, Quote} = {}

Closed(q) == (q.out \o Slashes(q.slashes * 2)) \o <<Quote>>

LEMMA QuoteForm ==
  ASSUME NEW chars
  PROVE  QuoteWindowsArgument(chars)
           = IF IsPlain(chars) THEN chars ELSE Closed(Quoting!Fold(0, QuoteInit, chars))
<1>1. FoldLeft(QuoteCharacter, QuoteInit, chars) = Quoting!Fold(0, QuoteInit, chars)
  BY DEF Quoting!Fold, FoldLeft, Quoting!FoldLeft, MapThenFoldSet,
         Quoting!MapThenFoldSet, Max, Quoting!Max
<1> QED
  BY <1>1 DEF QuoteWindowsArgument, IsPlain, Closed

\* The closing quote, and what it leaves.
LEMMA QuoteCloses ==
  ASSUME NEW w, NEW before \in Seq(Line), NEW q, NEW p \in Line, QuoteInv(w, before, q, p)
  PROVE  Closed(q) \in Line /\ Closed(q) # <<>> /\ Ready(Split(w, Closed(q)), before, p)
<1>1. q.out \in Line /\ q.slashes \in Nat
  BY DEF QuoteInv
<1>2. PICK v : v = Split(w, q.out)
  OBVIOUS
<1>3. PICK r \in Line : In(v, before, r, 0) /\ r \o Slashes(q.slashes) = p
  BY <1>2 DEF QuoteInv
<1>4. v.quoted /\ ~v.closed
  BY <1>2 DEF QuoteInv
<1>5. PICK n \in Nat : n = q.slashes * 2
  BY <1>1
<1>6. PICK s \in Line : s = Slashes(n)
  BY SlashesGrow
<1>7. PICK u : u = Split(v, s)
  OBVIOUS
<1>8. In(u, before, r, n) /\ u.quoted /\ ~u.closed
  <2>1. /\ In(Split(v, Slashes(n)), before, r, n)
        /\ Split(v, Slashes(n)).quoted = v.quoted
        /\ ~Split(v, Slashes(n)).closed
    BY <1>3, <1>4, SplitSlashes
  <2> QED
    BY <1>4, <1>6, <1>7, <2>1
<1>9. /\ Closed(q) \in Line /\ Split(w, Closed(q)) = SplitCharacter(u, Quote)
      /\ Closed(q) # <<>>
  <2>1. q.out \o s \in Line /\ Split(w, q.out \o s) = u
    BY <1>1, <1>2, <1>6, <1>7, SplitPieces
  <2>2. /\ (q.out \o s) \o <<Quote>> \in Line
        /\ Split(w, (q.out \o s) \o <<Quote>>) = SplitCharacter(u, Quote)
    BY <2>1, SplitNext, ShortLines
  <2>3. (q.out \o s) \o <<Quote>> # <<>>
    BY <2>1, ShortLines, ConcatEqualIffEmpty DEF Line
  <2> QED
    BY <1>5, <1>6, <2>2, <2>3 DEF Closed
<1>10. PICK z : z = SplitCharacter(u, Quote)
  OBVIOUS
<1>11. In(z, before, r \o Slashes(q.slashes), 0) /\ ~z.quoted
  <2>1. n = 2 * q.slashes
    BY <1>1, <1>5
  <2> QED
    BY <1>1, <1>8, <1>10, <2>1, SplitOuterQuote
<1>12. p \o Slashes(0) = p
  BY SlashesGrow, LineConcat
<1> QED
  BY <1>3, <1>9, <1>10, <1>11, <1>12 DEF Ready

\* An argument of the line is read as it was typed.
LEMMA ArgumentIsRead ==
  ASSUME NEW w, Between(w), NEW chars \in Line
  PROVE  /\ QuoteWindowsArgument(chars) \in Line /\ QuoteWindowsArgument(chars) # <<>>
         /\ Ready(Split(w, QuoteWindowsArgument(chars)), w.argv, chars)
<1>1. w.argv \in Seq(Line)
  BY DEF Between, SplitState
<1>2. CASE IsPlain(chars)
  <2>1. chars # <<>> /\ ToSet(chars) \cap {Blank, Quote} = {}
    BY <1>2 DEF IsPlain
  <2>2. PICK c \in Letters : /\ c \in ToSet(chars)
                             /\ \E rest \in Line : chars = <<c>> \o rest
    <3>1. PICK rest \in Line : /\ chars = <<chars[1]>> \o rest /\ chars[1] \in Letters
                               /\ 1 \in DOMAIN chars
      BY <2>1, FirstAndRest DEF Line
    <3>2. chars[1] \in ToSet(chars)
      BY <3>1 DEF ToSet
    <3> QED
      BY <3>1, <3>2
  <2>3. c \in Letters \ {Blank}
    BY <2>1, <2>2
  <2>4. Split(w, chars) = Split(Opened(w), chars)
    BY <2>2, <2>3, OpensWithLine
  <2>5. Ready(Split(Opened(w), chars), w.argv, chars)
    BY <1>1, <2>1, OpensArgument, PlainAll
  <2> QED
    BY <1>2, <2>1, <2>4, <2>5, QuoteForm
<1>3. CASE ~IsPlain(chars)
  <2>1. PICK q : q = Quoting!Fold(0, QuoteInit, chars) /\ QuoteInv(w, w.argv, q, chars)
    BY QuotesAll
  <2>2. Closed(q) \in Line /\ Closed(q) # <<>> /\ Ready(Split(w, Closed(q)), w.argv, chars)
    BY <1>1, <2>1, QuoteCloses
  <2> QED
    BY <1>3, <2>1, <2>2, QuoteForm
<1> QED
  BY <1>2, <1>3

----------------------------------------------------------------------------
(* The name of the program *)

LEMMA OneElement ==
  ASSUME NEW S, NEW x \in S
  PROVE  <<x>> \in Seq(S)
OBVIOUS

\* The runtime in the name of the program.
Naming(w, r) ==
  w \in SplitState /\ w.at = "name" /\ w.argv = <<r>> /\ ~w.closed /\ w.slashes = 0

\* Every character has one of these meanings in the name.
LEMMA NameOrdinary ==
  ASSUME NEW r \in Line, NEW w, Naming(w, r), NEW c \in Letters,
         c # Quote, c = Blank => w.quoted
  PROVE  Naming(SplitCharacter(w, c), r \o <<c>>) /\ SplitCharacter(w, c).quoted = w.quoted
<1>1. w \in SplitState /\ w.at = "name" /\ w.argv = <<r>>
  BY DEF Naming
<1>2. PICK more \in Line : more = r \o <<c>> /\ more = Append(r, c)
  <2>1. Append(r, c) = r \o <<c>> /\ Append(r, c) \in Seq(Letters)
    BY AppendIsConcat, AppendProperties DEF Line
  <2> QED
    BY <2>1 DEF Line
<1>3. PICK texts \in Seq(Line) : texts = <<more>>
  BY OneElement
<1>4. PICK v : v = [w EXCEPT !.argv = texts]
  OBVIOUS
<1>5. /\ v \in SplitState /\ v.argv = texts /\ v.at = w.at /\ v.quoted = w.quoted
      /\ v.closed = w.closed /\ v.slashes = w.slashes
  BY <1>1, <1>4 DEF SplitState
<1>6. SplitCharacter(w, c) = v
  <2>1. SplitCharacter(w, c) = SplitName(w, c)
    BY <1>1 DEF SplitCharacter
  <2>2. SplitName(w, c) = [w EXCEPT !.argv = <<Append(w.argv[1], c)>>]
    BY DEF SplitName
  <2>3. w.argv[1] = r
    BY <1>1
  <2> QED
    BY <1>2, <1>3, <1>4, <2>1, <2>2, <2>3
<1> QED
  BY <1>2, <1>3, <1>5, <1>6 DEF Naming

LEMMA NameQuote ==
  ASSUME NEW r \in Line, NEW w, Naming(w, r)
  PROVE  /\ Naming(SplitCharacter(w, Quote), r)
         /\ SplitCharacter(w, Quote).quoted <=> ~w.quoted
<1>1. w \in SplitState /\ w.at = "name"
  BY DEF Naming
<1>2. PICK v : v = [w EXCEPT !.quoted = ~@]
  OBVIOUS
<1>3. /\ v \in SplitState /\ v.argv = w.argv /\ v.at = w.at /\ (v.quoted <=> ~w.quoted)
      /\ v.closed = w.closed /\ v.slashes = w.slashes
  BY <1>1, <1>2 DEF SplitState
<1>4. SplitCharacter(w, Quote) = v
  BY <1>1, <1>2 DEF SplitCharacter, SplitName, Quote, Blank
<1> QED
  BY <1>3, <1>4 DEF Naming

LEMMA NameEnds ==
  ASSUME NEW r \in Line, NEW w, Naming(w, r), ~w.quoted
  PROVE  Between(SplitCharacter(w, Blank)) /\ SplitCharacter(w, Blank).argv = <<r>>
<1>1. w \in SplitState /\ w.at = "name"
  BY DEF Naming
<1>0. PICK no \in BOOLEAN : no = FALSE
  OBVIOUS
<1>2. PICK v : v = [w EXCEPT !.at = "between", !.quoted = no]
  OBVIOUS
<1>3. /\ v \in SplitState /\ v.argv = w.argv /\ v.at = "between" /\ v.quoted = no
      /\ v.closed = w.closed /\ v.slashes = w.slashes
  BY <1>1, <1>2 DEF SplitState
<1>4. SplitCharacter(w, Blank) = v
  BY <1>0, <1>1, <1>2 DEF SplitCharacter, SplitName, Quote, Blank
<1> QED
  BY <1>0, <1>3, <1>4 DEF Naming, Between

\* A run of backslashes in the name.
LEMMA NameSlashes ==
  ASSUME NEW r \in Line, NEW w, Naming(w, r), NEW k \in Nat
  PROVE  /\ Naming(Split(w, Slashes(k)), r \o Slashes(k))
         /\ Split(w, Slashes(k)).quoted = w.quoted
<1> DEFINE Holds(i) == /\ Naming(Split(w, Slashes(i)), r \o Slashes(i))
                       /\ Split(w, Slashes(i)).quoted = w.quoted
           P == {i \in 0 .. k : Holds(i)}
<1>1. Holds(0)
  <2>1. Split(w, Slashes(0)) = w
    BY SlashesGrow, SplitPieces, ShortLines
  <2>2. r \o Slashes(0) = r
    BY SlashesGrow, LineConcat
  <2> QED
    BY <2>1, <2>2
<1>2. ASSUME NEW i \in Nat, Holds(i) PROVE Holds(i + 1)
  <2>1. PICK v : v = Split(w, Slashes(i))
    OBVIOUS
  <2>2. PICK more \in Line : more = r \o Slashes(i)
    BY SlashesGrow, LineConcat
  <2>3. Naming(v, more) /\ v.quoted = w.quoted
    BY <1>2, <2>1, <2>2
  <2>4. Split(w, Slashes(i + 1)) = SplitCharacter(v, Backslash)
    <3>1. PICK chars \in Line : chars = Slashes(i) /\ Slashes(i + 1) = chars \o <<Backslash>>
      BY SlashesGrow
    <3>2. Split(w, chars \o <<Backslash>>) = SplitCharacter(Split(w, chars), Backslash)
      BY SplitNext, ShortLines
    <3> QED
      BY <2>1, <3>1, <3>2
  <2>5. Backslash \in Letters /\ Backslash # Quote /\ Backslash # Blank
    BY DEF Letters, Backslash, Quote, Blank
  <2>6. /\ Naming(SplitCharacter(v, Backslash), more \o <<Backslash>>)
        /\ SplitCharacter(v, Backslash).quoted = v.quoted
    BY <2>3, <2>5, NameOrdinary
  <2>7. r \o Slashes(i + 1) = more \o <<Backslash>>
    BY <2>2, SlashBehind
  <2> QED
    BY <2>3, <2>4, <2>6, <2>7
<1> HIDE DEF Holds
<1>3. ASSUME NEW i \in 1 .. k, i - 1 \in P PROVE i \in P
  <2>1. i - 1 \in Nat /\ i = (i - 1) + 1 /\ i \in 0 .. k
    OBVIOUS
  <2>2. Holds(i)
    BY <1>2, <1>3, <2>1
  <2> QED
    BY <2>1, <2>2
<1>4. P \subseteq 0 .. k /\ 0 \in P
  BY <1>1
<1>5. k \in P
  <2> HIDE DEF P
  <2> QED
    BY <1>3, <1>4, Iteration
<1> QED
  BY <1>5 DEF Holds

\* The runtime begins with the name.
LEMMA NameBegins == Naming(SplitInit, <<>>) /\ ~SplitInit.quoted
<1>1. PICK texts \in Seq(Line) : texts = <<(<<>>)>>
  BY ShortLines, OneElement
<1>2. PICK no \in BOOLEAN : no = FALSE
  OBVIOUS
<1>3. PICK v : v = [at |-> "name", argv |-> texts, quoted |-> no, closed |-> no, slashes |-> 0]
  OBVIOUS
<1>4. /\ v \in SplitState /\ v.at = "name" /\ v.argv = texts /\ v.quoted = no /\ v.closed = no
      /\ v.slashes = 0
  BY <1>3 DEF SplitState
<1>5. SplitInit = v
  BY <1>1, <1>2, <1>3 DEF SplitInit
<1> QED
  BY <1>1, <1>2, <1>4, <1>5 DEF Naming

\* Inside the quotes of the name, behind the characters p.
NameInv(q, p) ==
  /\ q \in [out : Line, slashes : Nat]
  /\ Split(SplitInit, q.out).quoted
  /\ \E r \in Line : Naming(Split(SplitInit, q.out), r) /\ r \o Slashes(q.slashes) = p

LEMMA NameCharacterKeeps ==
  ASSUME NEW q, NEW p \in Line, NameInv(q, p), NEW c \in Letters, c # Quote
  PROVE  NameInv(QuoteCharacter(q, c), p \o <<c>>)
<1>1. q \in [out : Line, slashes : Nat] /\ q.out \in Line /\ q.slashes \in Nat
  BY DEF NameInv
<1>2. PICK v : v = Split(SplitInit, q.out)
  OBVIOUS
<1>3. PICK r \in Line : Naming(v, r) /\ r \o Slashes(q.slashes) = p
  BY <1>2 DEF NameInv
<1>4. v.quoted
  BY <1>2 DEF NameInv
<1>5. PICK next : next = QuoteCharacter(q, c)
  OBVIOUS
<1>6. next \in [out : Line, slashes : Nat]
  BY <1>1, <1>5, QuoteFields
<1>7. CASE c = Backslash
  <2>1. next.out = q.out /\ next.slashes = q.slashes + 1
    BY <1>1, <1>5, <1>7, QuoteFields
  <2>2. r \o Slashes(next.slashes) = p \o <<c>>
    BY <1>1, <1>3, <1>7, <2>1, SlashBehind
  <2> QED
    BY <1>2, <1>3, <1>4, <1>5, <1>6, <2>1, <2>2 DEF NameInv
<1>8. CASE c # Backslash
  <2>1. PICK s \in Line : s = Slashes(q.slashes)
    BY <1>1, SlashesGrow
  <2>2. next.out = (q.out \o s) \o <<c>> /\ next.slashes = 0
    BY <1>1, <1>5, <1>8, <2>1, QuoteFields
  <2>3. PICK u : u = Split(v, s)
    OBVIOUS
  <2>4. Naming(u, p) /\ u.quoted
    <3>1. /\ Naming(Split(v, Slashes(q.slashes)), r \o Slashes(q.slashes))
          /\ Split(v, Slashes(q.slashes)).quoted = v.quoted
      BY <1>1, <1>3, NameSlashes
    <3> QED
      BY <1>3, <1>4, <2>1, <2>3, <3>1
  <2>5. Split(SplitInit, next.out) = SplitCharacter(u, c)
    <3>1. q.out \o s \in Line /\ Split(SplitInit, q.out \o s) = u
      BY <1>1, <1>2, <2>1, <2>3, SplitPieces
    <3>2. Split(SplitInit, (q.out \o s) \o <<c>>) = SplitCharacter(u, c)
      BY <3>1, SplitNext
    <3> QED
      BY <2>2, <3>2
  <2>6. PICK z : z = SplitCharacter(u, c)
    OBVIOUS
  <2>7. Naming(z, p \o <<c>>) /\ z.quoted
    <3>1. /\ Naming(SplitCharacter(u, c), p \o <<c>>)
          /\ SplitCharacter(u, c).quoted = u.quoted
      BY <2>4, NameOrdinary
    <3> QED
      BY <2>4, <2>6, <3>1
  <2>8. /\ p \o <<c>> \in Line /\ (p \o <<c>>) \o Slashes(0) = p \o <<c>>
    BY ShortLines, SlashesGrow, LineConcat
  <2> QED
    BY <1>5, <1>6, <2>2, <2>5, <2>6, <2>7, <2>8 DEF NameInv
<1> QED
  BY <1>7, <1>8

LEMMA NameOpens == NameInv(QuoteInit, <<>>)
<1>1. PICK v : v = SplitCharacter(SplitInit, Quote)
  OBVIOUS
<1>2. Naming(v, <<>>) /\ v.quoted
  BY <1>1, NameBegins, NameQuote, ShortLines
<1>3. Split(SplitInit, <<Quote>>) = v
  BY <1>1, Splitting!FoldOfOne DEF Split
<1>4. PICK q : q = QuoteInit
  OBVIOUS
<1>5. q \in [out : Line, slashes : Nat] /\ q.out = <<Quote>> /\ q.slashes = 0
  BY <1>4, ShortLines DEF QuoteInit
<1>6. <<>> \o Slashes(0) = <<>> /\ <<>> \in Line
  BY SlashesGrow, ShortLines, LineConcat
<1> QED
  BY <1>2, <1>3, <1>4, <1>5, <1>6 DEF NameInv

LEMMA NameQuotesAll ==
  ASSUME NEW chars \in Line, Quote \notin ToSet(chars)
  PROVE  NameInv(Quoting!Fold(0, QuoteInit, chars), chars)
<1> DEFINE Holds(i) == NameInv(Quoting!Fold(0, QuoteInit, SubSeq(chars, 1, i)),
                               SubSeq(chars, 1, i))
           n == Len(chars)
           P == {i \in 0 .. n : Holds(i)}
<1>1. n \in Nat /\ DOMAIN chars = 1 .. n
  BY LenProperties DEF Line
<1>2. Holds(0)
  BY NameOpens, BeginningsGrow, Quoting!FoldOfNone DEF Line
<1>3. ASSUME NEW i \in 1 .. n, Holds(i - 1) PROVE Holds(i)
  <2>1. PICK p \in Line : p = SubSeq(chars, 1, i - 1)
    BY BeginningsGrow DEF Line
  <2>2. PICK c \in Letters : c = chars[i]
    BY BeginningsGrow DEF Line
  <2>3. SubSeq(chars, 1, i) = p \o <<c>>
    BY <2>1, <2>2, BeginningsGrow DEF Line
  <2>4. PICK q : q = Quoting!Fold(0, QuoteInit, p) /\ NameInv(q, p)
    BY <1>3, <2>1
  <2>5. Quoting!Fold(0, QuoteInit, p \o <<c>>) = QuoteCharacter(q, c)
    BY <2>4, QuoteNext
  <2>6. c # Quote
    BY <1>1, <2>2 DEF ToSet
  <2>7. NameInv(QuoteCharacter(q, c), p \o <<c>>)
    BY <2>4, <2>6, NameCharacterKeeps
  <2> QED
    BY <2>3, <2>5, <2>7
<1> HIDE DEF Holds
<1>4. P \subseteq 0 .. n /\ 0 \in P
  BY <1>1, <1>2
<1>5. ASSUME NEW i \in 1 .. n, i - 1 \in P PROVE i \in P
  BY <1>1, <1>3, <1>5
<1>6. n \in P
  <2> HIDE DEF P
  <2> QED
    BY <1>1, <1>4, <1>5, Iteration
<1>7. Holds(n)
  BY <1>6
<1> QED
  BY <1>7, BeginningsGrow DEF Line, Holds

\* No backslash waits behind a name that ends in another character.
LEMMA NoSlashWaits ==
  ASSUME NEW p \in Line, p # <<>> => p[Len(p)] # Backslash, NEW r \in Line, NEW n \in Nat,
         r \o Slashes(n) = p
  PROVE  n = 0
<1>1. SUFFICES ASSUME n # 0 PROVE FALSE
  OBVIOUS
<1>2. PICK s \in Line : s = Slashes(n) /\ Len(s) = n
  BY SlashesGrow
<1>3. s[n] = Backslash
  BY <1>1, <1>2 DEF Slashes
<1>4. Len(r) \in Nat /\ Len(r \o s) = Len(r) + n /\ (r \o s)[Len(r) + n] = s[n]
  <2>1. Len(r) \in Nat /\ Len(r \o s) = Len(r) + n
    <3>1. Len(r) \in Nat
      BY LenProperties DEF Line
    <3>2. Len(r \o s) = Len(r) + Len(s)
      BY ConcatProperties DEF Line
    <3> QED
      BY <1>2, <3>1, <3>2
  <2>2. (r \o s)[Len(r) + n] = s[(Len(r) + n) - Len(r)]
    BY <1>1, <1>2, <2>1, ConcatProperties DEF Line
  <2>3. (Len(r) + n) - Len(r) = n
    BY <2>1
  <2> QED
    BY <2>1, <2>2, <2>3
<1>5. p = r \o s
  BY <1>2
<1>6. p # <<>>
  <2>1. Len(p) # 0
    BY <1>1, <1>4, <1>5
  <2> QED
    BY <2>1, EmptySeq
<1> QED
  BY <1>3, <1>4, <1>5, <1>6

\* A name that is not quoted.
LEMMA NamePlainAll ==
  ASSUME NEW chars \in Line, ToSet(chars) \cap {Blank, Quote} = {}
  PROVE  Naming(Split(SplitInit, chars), chars) /\ ~Split(SplitInit, chars).quoted
<1> DEFINE Holds(i) == /\ Naming(Split(SplitInit, SubSeq(chars, 1, i)), SubSeq(chars, 1, i))
                       /\ ~Split(SplitInit, SubSeq(chars, 1, i)).quoted
           n == Len(chars)
           P == {i \in 0 .. n : Holds(i)}
<1>1. n \in Nat /\ DOMAIN chars = 1 .. n
  BY LenProperties DEF Line
<1>2. Holds(0)
  <2>1. SubSeq(chars, 1, 0) = <<>> /\ Split(SplitInit, <<>>) = SplitInit
    BY BeginningsGrow, ShortLines, SplitPieces DEF Line
  <2> QED
    BY <2>1, NameBegins
<1>3. ASSUME NEW i \in 1 .. n, Holds(i - 1) PROVE Holds(i)
  <2>1. PICK p \in Line : p = SubSeq(chars, 1, i - 1)
    BY BeginningsGrow DEF Line
  <2>2. PICK c \in Letters : c = chars[i]
    BY BeginningsGrow DEF Line
  <2>3. SubSeq(chars, 1, i) = p \o <<c>>
    BY <2>1, <2>2, BeginningsGrow DEF Line
  <2>4. c \notin {Blank, Quote}
    BY <1>1, <2>2 DEF ToSet
  <2>5. PICK v : v = Split(SplitInit, p) /\ Naming(v, p) /\ ~v.quoted
    BY <1>3, <2>1
  <2>6. Naming(SplitCharacter(v, c), p \o <<c>>) /\ SplitCharacter(v, c).quoted = v.quoted
    BY <2>4, <2>5, NameOrdinary
  <2>7. Split(SplitInit, p \o <<c>>) = SplitCharacter(v, c)
    BY <2>5, SplitNext
  <2> QED
    BY <2>3, <2>5, <2>6, <2>7
<1> HIDE DEF Holds
<1>4. P \subseteq 0 .. n /\ 0 \in P
  BY <1>1, <1>2
<1>5. ASSUME NEW i \in 1 .. n, i - 1 \in P PROVE i \in P
  BY <1>1, <1>3, <1>5
<1>6. n \in P
  <2> HIDE DEF P
  <2> QED
    BY <1>1, <1>4, <1>5, Iteration
<1>7. Holds(n)
  BY <1>6
<1>8. SubSeq(chars, 1, n) = chars
  BY BeginningsGrow DEF Line
<1> QED
  BY <1>7, <1>8 DEF Holds

\* The path of a program is read as it was typed.
LEMMA NameIsRead ==
  ASSUME NEW chars \in Line, IsFileName(chars)
  PROVE  /\ QuoteWindowsArgument(chars) \in Line /\ QuoteWindowsArgument(chars) # <<>>
         /\ Naming(Split(SplitInit, QuoteWindowsArgument(chars)), chars)
         /\ ~Split(SplitInit, QuoteWindowsArgument(chars)).quoted
<1>1. CASE IsPlain(chars)
  <2>1. chars # <<>> /\ ToSet(chars) \cap {Blank, Quote} = {}
    BY <1>1 DEF IsPlain
  <2>2. QuoteWindowsArgument(chars) = chars
    BY <1>1, QuoteForm
  <2> QED
    BY <2>1, <2>2, NamePlainAll
<1>2. CASE ~IsPlain(chars)
  <2>1. PICK q : q = Quoting!Fold(0, QuoteInit, chars) /\ NameInv(q, chars)
    BY NameQuotesAll DEF IsFileName
  <2>2. q.out \in Line /\ q.slashes \in Nat
    BY <2>1 DEF NameInv
  <2>3. PICK v : v = Split(SplitInit, q.out)
    OBVIOUS
  <2>4. PICK r \in Line : Naming(v, r) /\ r \o Slashes(q.slashes) = chars
    BY <2>1, <2>3 DEF NameInv
  <2>5. v.quoted
    BY <2>1, <2>3 DEF NameInv
  <2>6. q.slashes = 0
    BY <2>2, <2>4, NoSlashWaits DEF IsFileName
  <2>7. r = chars
    BY <2>4, <2>6, SlashesGrow, LineConcat
  <2>8. Closed(q) = q.out \o <<Quote>>
    <3>1. Slashes(0) = <<>>
      BY SlashesGrow
    <3>2. q.out \o <<>> = q.out
      BY <2>2, LineConcat
    <3>3. q.slashes * 2 = 0
      BY <2>6
    <3> QED
      BY <3>1, <3>2, <3>3 DEF Closed
  <2>9. /\ q.out \o <<Quote>> \in Line
        /\ Split(SplitInit, q.out \o <<Quote>>) = SplitCharacter(v, Quote)
    BY <2>2, <2>3, SplitNext, ShortLines
  <2>10. q.out \o <<Quote>> # <<>>
    BY <2>2, ShortLines, ConcatEqualIffEmpty DEF Line
  <2>11. Naming(SplitCharacter(v, Quote), chars) /\ ~SplitCharacter(v, Quote).quoted
    BY <2>4, <2>5, <2>7, NameQuote
  <2>12. QuoteWindowsArgument(chars) = q.out \o <<Quote>>
    BY <1>2, <2>1, <2>8, QuoteForm
  <2> QED
    BY <2>9, <2>10, <2>11, <2>12
<1> QED
  BY <1>1, <1>2

----------------------------------------------------------------------------
(* The whole line *)

\* What the runtime takes the line read so far for.
Reads(w, texts) ==
  /\ ~w.quoted
  /\ \/ \E chars \in Line : Naming(w, chars) /\ texts = <<chars>>
     \/ \E before \in Seq(Line), chars \in Line :
          Ready(w, before, chars) /\ texts = Append(before, chars)

\* A blank ends what has been read.
LEMMA BlankEnds ==
  ASSUME NEW w, NEW texts, Reads(w, texts)
  PROVE  Between(SplitCharacter(w, Blank)) /\ SplitCharacter(w, Blank).argv = texts
<1>1. CASE \E chars \in Line : Naming(w, chars) /\ texts = <<chars>>
  BY <1>1, NameEnds DEF Reads
<1>2. CASE \E before \in Seq(Line), chars \in Line :
             Ready(w, before, chars) /\ texts = Append(before, chars)
  <2>1. PICK before \in Seq(Line), chars \in Line :
               Ready(w, before, chars) /\ texts = Append(before, chars)
    BY <1>2
  <2>2. PICK r \in Line, n \in Nat : In(w, before, r, n) /\ r \o Slashes(n) = chars
    BY <2>1 DEF Ready
  <2>3. ~w.quoted
    BY DEF Reads
  <2>4. PICK v : v = SplitCharacter(w, Blank)
    OBVIOUS
  <2>5. /\ v \in SplitState /\ v.at = "between" /\ ~v.quoted /\ ~v.closed
        /\ v.argv = Append(before, r \o Slashes(n)) /\ v.slashes = 0
    BY <2>2, <2>3, <2>4, SplitBlank
  <2> QED
    BY <2>1, <2>2, <2>4, <2>5 DEF Between
<1> QED
  BY <1>1, <1>2 DEF Reads

\* So does the end of the line.
LEMMA LineEnds ==
  ASSUME NEW line \in Line, NEW texts, Reads(Split(SplitInit, line), texts)
  PROVE  SplitCommandLine(line) = texts
<1>1. PICK w : w = Split(SplitInit, line)
  OBVIOUS
<1>2. SplitCommandLine(line)
        = IF w.slashes = 0 THEN w.argv ELSE PutChars(w, Slashes(w.slashes)).argv
  <2>1. FoldLeft(SplitCharacter, SplitInit, line) = Splitting!Fold(0, SplitInit, line)
    BY DEF Splitting!Fold, FoldLeft, Splitting!FoldLeft, MapThenFoldSet,
           Splitting!MapThenFoldSet, Max, Splitting!Max
  <2> QED
    BY <1>1, <2>1 DEF SplitCommandLine, Split
<1>3. CASE \E chars \in Line : Naming(w, chars) /\ texts = <<chars>>
  BY <1>2, <1>3 DEF Naming
<1>4. CASE \E before \in Seq(Line), chars \in Line :
             Ready(w, before, chars) /\ texts = Append(before, chars)
  <2>1. PICK before \in Seq(Line), chars \in Line :
               Ready(w, before, chars) /\ texts = Append(before, chars)
    BY <1>4
  <2>2. PICK r \in Line, n \in Nat : In(w, before, r, n) /\ r \o Slashes(n) = chars
    BY <2>1 DEF Ready
  <2>3. w.slashes = n /\ w.argv = Append(before, r)
    BY <2>2 DEF In
  <2>4. CASE n = 0
    <3>1. r \o Slashes(0) = r
      BY SlashesGrow, LineConcat
    <3> QED
      BY <1>2, <2>1, <2>2, <2>3, <2>4, <3>1
  <2>5. CASE n # 0
    <3>1. Slashes(n) \in Line
      BY SlashesGrow
    <3>2. In(PutChars(w, Slashes(n)), before, r \o Slashes(n), n)
      BY <2>2, <3>1, PutInArgument
    <3>3. PutChars(w, Slashes(n)).argv = texts
      BY <2>1, <2>2, <3>2 DEF In
    <3> QED
      BY <1>2, <2>3, <2>5, <3>3
  <2> QED
    BY <2>4, <2>5
<1> QED
  BY <1>1, <1>3, <1>4 DEF Reads

\* What the user typed.
Typed(arguments) == [i \in 1 .. Len(arguments) |-> CharsOf(arguments[i])]

LEMMA CharsAreLetters ==
  ASSUME NEW a \in Arguments
  PROVE  CharsOf(a) \in Line
<1>1. CASE a.kind # "text"
  BY <1>1, ShortLines DEF CharsOf, Letters
<1>2. CASE a.kind = "text"
  <2>1. PICK chars \in Seq(STRING) : a = [kind |-> "text", chars |-> chars]
    BY <1>2 DEF Arguments, Wide
  <2>2. CharsOf(a) = chars
    BY <2>1 DEF CharsOf
  <2>3. chars \in Seq(Letters)
    BY <2>1 DEF Letters
  <2> QED
    BY <2>2, <2>3 DEF Line
<1> QED
  BY <1>1, <1>2

LEMMA TypedGrows ==
  ASSUME NEW arguments \in Seq(Arguments), NEW a \in Arguments
  PROVE  /\ Typed(arguments) \in Seq(Line)
         /\ Typed(arguments \o <<a>>) = Append(Typed(arguments), CharsOf(a))
         /\ Typed(<<a>>) = <<CharsOf(a)>>
<1> DEFINE n == Len(arguments)
           more == arguments \o <<a>>
           x == Typed(more)
           y == Append(Typed(arguments), CharsOf(a))
<1>1. /\ n \in Nat /\ DOMAIN arguments = 1 .. n
      /\ \A i \in 1 .. n : arguments[i] \in Arguments
  BY LenProperties
<1>2. Typed(arguments) \in Seq(Line) /\ Len(Typed(arguments)) = n
  <2>1. Typed(arguments) \in [1 .. n -> Line]
    BY <1>1, CharsAreLetters DEF Typed
  <2> QED
    BY <1>1, <2>1, IsASeq, LenProperties
<1>3. /\ more \in Seq(Arguments) /\ Len(more) = n + 1 /\ more[n + 1] = a
      /\ \A i \in 1 .. n : more[i] = arguments[i]
  <2>1. more = Append(arguments, a)
    BY AppendIsConcat
  <2> QED
    BY <2>1, AppendProperties
<1> HIDE DEF more
<1>4. x \in Seq(Line) /\ Len(x) = n + 1
  <2>1. \A i \in 1 .. n + 1 : more[i] \in Arguments
    BY <1>1, <1>3, LenProperties
  <2>2. x \in [1 .. n + 1 -> Line]
    BY <1>3, <2>1, CharsAreLetters DEF Typed
  <2>3. n + 1 \in Nat
    BY <1>1
  <2> QED
    BY <2>2, <2>3, IsASeq, LenProperties
<1>5. /\ y \in Seq(Line) /\ Len(y) = n + 1 /\ y[n + 1] = CharsOf(a)
      /\ \A i \in 1 .. n : y[i] = Typed(arguments)[i]
  BY <1>2, CharsAreLetters, AppendProperties
<1>6. \A i \in 1 .. n + 1 : x[i] = y[i]
  <2>1. \A i \in 1 .. n + 1 : x[i] = CharsOf(more[i])
    BY <1>3 DEF Typed
  <2>2. \A i \in 1 .. n : Typed(arguments)[i] = CharsOf(arguments[i])
    BY DEF Typed
  <2>3. \A i \in 1 .. n + 1 : i \in 1 .. n \/ i = n + 1
    BY <1>1
  <2> HIDE DEF x, y
  <2> QED
    BY <1>3, <1>5, <2>1, <2>2, <2>3
<1> HIDE DEF x, y
<1>7. x = y
  BY <1>4, <1>5, <1>6, SeqEqual
<1>8. Typed(<<a>>) = <<CharsOf(a)>>
  BY DEF Typed
<1> QED
  BY <1>2, <1>7, <1>8 DEF x, y, more

\* The line of the arguments so far.
JoinInv(line, arguments) ==
  line \in Line /\ line # <<>> /\ Reads(Split(SplitInit, line), Typed(arguments))

LEMMA JoinFirst ==
  ASSUME NEW a \in Arguments, IsFileName(CharsOf(a))
  PROVE  JoinInv(JoinArgument(<<>>, a), <<a>>)
<1>1. PICK chars \in Line : chars = CharsOf(a)
  BY CharsAreLetters
<1>2. PICK line : line = QuoteWindowsArgument(chars)
  OBVIOUS
<1>3. /\ line \in Line /\ line # <<>> /\ Naming(Split(SplitInit, line), chars)
      /\ ~Split(SplitInit, line).quoted
  BY <1>1, <1>2, NameIsRead
<1>4. JoinArgument(<<>>, a) = line
  <2>1. <<>> \o line = line
    BY <1>3, LineConcat
  <2> QED
    BY <1>1, <1>2, <2>1 DEF JoinArgument
<1>5. Typed(<<a>>) = <<chars>>
  <2>1. <<>> \in Seq(Arguments)
    BY EmptySeq
  <2> QED
    BY <1>1, <2>1, TypedGrows
<1> QED
  BY <1>3, <1>4, <1>5 DEF JoinInv, Reads

LEMMA JoinNext ==
  ASSUME NEW line, NEW arguments \in Seq(Arguments), JoinInv(line, arguments),
         NEW a \in Arguments
  PROVE  JoinInv(JoinArgument(line, a), arguments \o <<a>>)
<1>1. PICK chars \in Line : chars = CharsOf(a)
  BY CharsAreLetters
<1>2. line \in Line /\ line # <<>>
  BY DEF JoinInv
<1>3. PICK texts \in Seq(Line) : texts = Typed(arguments)
  BY TypedGrows
<1>4. PICK w : w = Split(SplitInit, line) /\ Reads(w, texts)
  BY <1>3 DEF JoinInv
<1>5. PICK v : v = SplitCharacter(w, Blank) /\ Between(v) /\ v.argv = texts
  BY <1>4, BlankEnds
<1>6. PICK blank \in Line : blank = line \o <<Blank>> /\ Split(SplitInit, blank) = v
  BY <1>2, <1>4, <1>5, SplitNext, ShortLines
<1>7. PICK more \in Line : /\ more = QuoteWindowsArgument(chars) /\ more # <<>>
                          /\ Ready(Split(v, more), texts, chars)
  BY <1>5, ArgumentIsRead
<1>8. /\ blank \o more \in Line /\ Split(SplitInit, blank \o more) = Split(v, more)
      /\ blank \o more # <<>>
  <2>1. blank \o more \in Line /\ Split(SplitInit, blank \o more) = Split(v, more)
    BY <1>6, SplitPieces
  <2>2. blank \o more # <<>>
    BY <1>7, ConcatEqualIffEmpty DEF Line
  <2> QED
    BY <2>1, <2>2
<1>9. JoinArgument(line, a) = blank \o more
  BY <1>1, <1>2, <1>6, <1>7 DEF JoinArgument
<1>10. Typed(arguments \o <<a>>) = Append(texts, chars)
  BY <1>1, <1>3, TypedGrows
<1>11. Reads(Split(v, more), Append(texts, chars))
  BY <1>7 DEF Reads, Ready
<1> QED
  BY <1>8, <1>9, <1>10, <1>11 DEF JoinInv

\* The runtime reads from the command line what the user typed.
LEMMA LineIsRead ==
  ASSUME NEW arguments \in Seq(Arguments), arguments # <<>>,
         IsFileName(CharsOf(arguments[1]))
  PROVE  SplitCommandLine(BuildWindowsCommandLine(arguments)) = Typed(arguments)
<1> DEFINE Holds(i) == i # 0 => JoinInv(Joining!Fold(0, <<>>, SubSeq(arguments, 1, i)),
                                        SubSeq(arguments, 1, i))
           n == Len(arguments)
           P == {i \in 0 .. n : Holds(i)}
<1>1. n \in Nat \ {0}
  BY LenProperties, EmptySeq
<1>2. Holds(0)
  OBVIOUS
<1>3. ASSUME NEW i \in 1 .. n, Holds(i - 1) PROVE Holds(i)
  <2>1. PICK before \in Seq(Arguments) : before = SubSeq(arguments, 1, i - 1)
    BY BeginningsGrow
  <2>2. PICK a \in Arguments : a = arguments[i]
    BY BeginningsGrow
  <2>3. SubSeq(arguments, 1, i) = before \o <<a>>
    BY <2>1, <2>2, BeginningsGrow
  <2>4. PICK line : line = Joining!Fold(0, <<>>, before)
    OBVIOUS
  <2>5. Joining!Fold(0, <<>>, before \o <<a>>) = JoinArgument(line, a)
    <3>1. PICK one \in Seq(Arguments) : one = <<a>>
      BY OneElement
    <3>2. Joining!Fold(0, <<>>, before \o one) = Joining!Fold(0, line, one)
      BY <2>4, Joining!FoldOfConcat
    <3>3. Joining!Fold(0, line, one) = JoinArgument(line, a)
      BY <3>1, Joining!FoldOfOne
    <3> QED
      BY <3>1, <3>2, <3>3
  <2>6. JoinInv(JoinArgument(line, a), before \o <<a>>)
    <3>1. CASE i = 1
      <4>1. before = <<>>
        BY <2>1, <3>1, BeginningsGrow
      <4>2. line = <<>>
        BY <2>4, <4>1, Joining!FoldOfNone
      <4>3. before \o <<a>> = <<a>>
        BY <4>1, OneElement, ConcatEmptySeq
      <4> QED
        BY <2>2, <3>1, <4>2, <4>3, JoinFirst
    <3>2. CASE i # 1
      <4>1. i - 1 # 0
        BY <3>2
      <4>2. JoinInv(line, before)
        BY <1>3, <2>1, <2>4, <4>1
      <4> QED
        BY <4>2, JoinNext
    <3> QED
      BY <3>1, <3>2
  <2> QED
    BY <2>3, <2>5, <2>6
<1> HIDE DEF Holds
<1>4. P \subseteq 0 .. n /\ 0 \in P
  BY <1>1, <1>2
<1>5. ASSUME NEW i \in 1 .. n, i - 1 \in P PROVE i \in P
  BY <1>1, <1>3, <1>5
<1>6. n \in P
  <2> HIDE DEF P
  <2> QED
    BY <1>1, <1>4, <1>5, Iteration
<1>7. Holds(n)
  BY <1>6
<1>8. JoinInv(Joining!Fold(0, <<>>, arguments), arguments)
  BY <1>1, <1>7, BeginningsGrow DEF Holds
<1>9. BuildWindowsCommandLine(arguments) = Joining!Fold(0, <<>>, arguments)
  BY DEF BuildWindowsCommandLine, Joining!Fold, FoldLeft, Joining!FoldLeft, MapThenFoldSet,
         Joining!MapThenFoldSet, Max, Joining!Max
<1> QED
  BY <1>8, <1>9, LineEnds DEF JoinInv

----------------------------------------------------------------------------
(* InjectDll: what is held *)

\* What InjectDll has acquired and not given back when it is at a step.
HeldAt(s) ==
  CASE s \in {"opened", "sized"} -> {"file"}
    [] s = "allocated" -> {"file", "buffer"}
    [] s = "read" -> {"buffer"}
    [] s = "reserved" -> {"buffer", "remote"}
    [] s \in {"copying", "relocated", "protecting", "crashed"}
         -> {"buffer", "remote", "local"}
    [] s = "returned" -> IF base = 0 THEN {} ELSE {"remote"}
    [] s = "idle" -> {}

\* The steps at which the target has memory of the image.
Reserved == {"reserved", "copying", "relocated", "protecting", "crashed"}

\* The resources held are those of the step, and base is the address of the
\* target's memory exactly while it is held.
InjectInv ==
  /\ mapStep \in MapSteps
  /\ held = HeldAt(mapStep)
  /\ base \in LoadBases \cup {0}
  /\ mapStep \in Reserved => base # 0
  /\ mapStep # "returned" /\ mapStep \notin Reserved => base = 0

LEMMA InjectInit == StartupInit => InjectInv
BY DEF StartupInit, MapperInit, InjectInv, HeldAt, MapSteps, Reserved

\* An early return that frees what the step holds leaves nothing.
LEMMA ReturnNullClean ==
  ASSUME NEW freed, held \subseteq freed, ReturnNull(freed)
  PROVE  InjectInv'
BY DEF ReturnNull, InjectInv, HeldAt, MapSteps, Reserved

\* Every step of InjectDll after the first keeps the invariant.
LEMMA MapperKeeps ==
  ASSUME InjectInv, MapperStep
  PROVE  InjectInv'
<1>a. 0 \notin LoadBases
  BY MapperAssumption
<1> USE DEF InjectInv, HeldAt, MapSteps, Reserved
<1>1. CASE CheckFileSize
  <2>1. CASE ReturnNull({"file"})
    BY <1>1, <2>1, ReturnNullClean DEF CheckFileSize
  <2>2. CASE Proceed("sized") /\ UNCHANGED held
    BY <1>1, <2>2 DEF CheckFileSize, Proceed
  <2> QED
    BY <1>1, <2>1, <2>2 DEF CheckFileSize
<1>2. CASE AllocateBuffer
  <2>1. CASE ReturnNull({"file"})
    BY <1>2, <2>1, ReturnNullClean DEF AllocateBuffer
  <2>2. CASE Proceed("allocated") /\ held' = held \cup {"buffer"}
    BY <1>2, <2>2 DEF AllocateBuffer, Proceed
  <2> QED
    BY <1>2, <2>1, <2>2 DEF AllocateBuffer
<1>3. CASE ReadDll
  <2>1. CASE ReturnNull({"buffer", "file"})
    BY <1>3, <2>1, ReturnNullClean DEF ReadDll
  <2>2. CASE Proceed("read") /\ held' = held \ {"file"}
    BY <1>3, <2>2 DEF ReadDll, Proceed
  <2> QED
    BY <1>3, <2>1, <2>2 DEF ReadDll
<1>4. CASE AllocateRemote
  <2>1. CASE ReturnNull({"buffer"})
    BY <1>4, <2>1, ReturnNullClean DEF AllocateRemote
  <2>2. CASE /\ base' \in LoadBases
             /\ held' = held \cup {"remote"} /\ mapStep' = "reserved"
    BY <1>a, <1>4, <2>2 DEF AllocateRemote
  <2> QED
    BY <1>4, <2>1, <2>2 DEF AllocateRemote
<1>5. CASE AllocateLocal
  <2>1. CASE ReturnNull({"remote", "buffer"})
    BY <1>5, <2>1, ReturnNullClean DEF AllocateLocal
  <2>2. CASE held' = held \cup {"local"} /\ mapStep' = "copying" /\ base' = base
    BY <1>5, <2>2 DEF AllocateLocal
  <2> QED
    BY <1>5, <2>1, <2>2 DEF AllocateLocal
<1>6. ASSUME Abandon, mapStep \in {"copying", "relocated", "protecting"}
      PROVE  InjectInv'
  BY <1>6, ReturnNullClean DEF Abandon
<1>7. CASE CopySection
  <2>1. CASE Abandon
    BY <1>6, <1>7, <2>1 DEF CopySection
  <2>2. CASE UNCHANGED <<mapStep, held, base>>
    BY <2>2
  <2> QED
    BY <1>7, <2>1, <2>2 DEF CopySection
<1>8. CASE Relocate
  <2>1. CASE Abandon
    BY <1>6, <1>8, <2>1 DEF Relocate
  <2>2. CASE mapStep' \in {"relocated", "crashed"} /\ UNCHANGED <<held, base>>
    BY <1>8, <2>2 DEF Relocate
  <2> QED
    BY <1>8, <2>1, <2>2 DEF Relocate
<1>9. CASE WriteImage
  <2>1. CASE Abandon
    BY <1>6, <1>9, <2>1 DEF WriteImage
  <2>2. CASE mapStep' = "protecting" /\ UNCHANGED <<held, base>>
    BY <1>9, <2>2 DEF WriteImage
  <2> QED
    BY <1>9, <2>1, <2>2 DEF WriteImage
<1>10. CASE ProtectSection
  <2>1. CASE Abandon
    BY <1>6, <1>10, <2>1 DEF ProtectSection
  <2>2. CASE UNCHANGED <<mapStep, held, base>>
    BY <2>2
  <2> QED
    BY <1>10, <2>1, <2>2 DEF ProtectSection
<1>11. CASE FlushAndReturn
  <2>1. CASE Abandon
    BY <1>6, <1>11, <2>1 DEF FlushAndReturn
  <2>2. CASE held' = held \ {"local", "buffer"} /\ Proceed("returned")
    BY <1>11, <2>2 DEF FlushAndReturn, Proceed
  <2> QED
    BY <1>11, <2>1, <2>2 DEF FlushAndReturn
<1> QED
  BY <1>1, <1>2, <1>3, <1>4, <1>5, <1>7, <1>8, <1>9, <1>10, <1>11 DEF MapperStep

\* The steps of wmain around InjectDll only begin it.
LEMMA InjectStep ==
  ASSUME InjectInv, [StartupNext]_startVars
  PROVE  InjectInv'
<1>1. ASSUME UNCHANGED mapperVars PROVE InjectInv'
  BY <1>1 DEF mapperVars, InjectInv, HeldAt
<1>2. CASE BeginInject
  <2>1. PICK f \in DllFiles : OpenDll(f)
    BY <1>2 DEF BeginInject
  <2> QED
    BY <2>1 DEF OpenDll, InjectInv, HeldAt, MapSteps, Reserved
<1>3. CASE Inject
  BY <1>3, MapperKeeps DEF Inject
<1>4. CASE Resolve
  BY <1>1, <1>4 DEF Resolve, ResolveHandlers
<1> QED
  BY <1>1, <1>2, <1>3, <1>4 DEF StartupNext, startVars, ParseWithoutHooks,
     Discover, ParseWithHooks, Run, Attach, CheckMapping

\* At every step of InjectDll exactly what it has acquired by then is held, and
\* the address of the target's memory is known exactly while it is held.
THEOREM InjectInvariant == StartupSpec => []InjectInv
<1>1. StartupInit => InjectInv
  BY InjectInit
<1>2. InjectInv /\ [StartupNext]_startVars => InjectInv'
  BY InjectStep
<1> QED
  BY <1>1, <1>2, PTL DEF StartupSpec

\* Whichever call of InjectDll fails, whatever the file holds and wherever the
\* target has room: what it returns with is the target's memory whose address it
\* returns, and otherwise nothing (process_manager.cpp, every early return).
THEOREM MappingAllOrNothing == StartupSpec => []InjectAllOrNothing
<1>1. InjectInv => InjectAllOrNothing
  BY DEF InjectInv, HeldAt, InjectAllOrNothing
<1> QED
  BY <1>1, InjectInvariant, PTL

----------------------------------------------------------------------------
(* wmain *)

Stages == {"started", "discovering", "parsing", "session", "created",
           "mapping", "failed", "hooking", "exited"}

\* What can be found of a hook in the mapped image, names unreadable or not.
Resolution(f, h, u) ==
  [hook |-> h, handler |-> GetRemoteExport(f, h.handlerExport, u),
   trampoline |-> GetRemoteExport(f, h.trampolineExport, u)]

Resolutions ==
  {Resolution(dll, h, u) :
     h \in ToSet(options.hooks), u \in SUBSET described.procedures}

\* The options are those ParseCommandLine returned as far as they are kept.
OptionsInv ==
  /\ options.mode \in {"Run", "Attach", "ListHooks", "Help", "Version", "Error"}
  /\ options.targetProcessId \in 0 .. MaxProcessId
  /\ options.hooks \in Seq(HookRecord)
  /\ InSession =>
       /\ options.mode \in {"Run", "Attach"} /\ Usable(availableHooks, options)
       /\ options.targetProcessId # OwnProcessId
  /\ stage \in {"session", "created", "mapping", "failed", "hooking"}
       => ToSet(options.hooks) \subseteq ToSet(availableHooks)

\* The hooks on offer are those of the DLL that was found.
HooksInv ==
  /\ HookList(availableHooks)
  /\ availableHooks # <<>> =>
       /\ AllHooks(described, availableHooks)
       /\ \A h \in ToSet(availableHooks) :
            \E e \in Descriptors(described) : h = HookOf(e)

\* InjectDll runs at one stage, on the file whose descriptors were read.
StageInv ==
  /\ stage \in Stages /\ argv \in Seq(Arguments)
  /\ stage \notin {"mapping", "failed", "hooking"} => mapStep = "idle"
  /\ stage \in {"mapping", "failed", "hooking"} =>
       dll \in DllFiles /\ described = Description(dll)
  /\ stage = "hooking" => mapStep = "returned" /\ base # 0

ResolvedInv ==
  /\ stage # "hooking" => resolved = <<>>
  /\ resolved \in Seq(Resolutions) /\ Len(resolved) <= Len(options.hooks)

WmainInv == StageInv /\ HooksInv /\ OptionsInv /\ ResolvedInv

\* wmain begins as described.
LEMMA WmainInit == StartupInit => WmainInv
<1> SUFFICES ASSUME StartupInit PROVE WmainInv
  OBVIOUS
<1>1. /\ <<>> \in Seq(HookRecord) /\ <<>> \in Seq(Resolutions) /\ Len(<<>>) = 0
  BY EmptySeq
<1>2. 0 \in 0 .. MaxProcessId
  BY CommandLineAssumption
<1>3. StageInv
  BY StartupAssumption DEF StartupInit, MapperInit, StageInv, Stages
<1>4. HooksInv
  BY <1>1 DEF StartupInit, HooksInv, HookList
<1>5. OptionsInv
  BY <1>1, <1>2 DEF StartupInit, OptionsInv, DefaultOptions, InSession
<1>6. ResolvedInv
  BY <1>1 DEF StartupInit, ResolvedInv, DefaultOptions
<1> QED
  BY <1>3, <1>4, <1>5, <1>6 DEF WmainInv

\* What the options of a stage without a session have to be.
LEMMA ParsedOptions ==
  ASSUME NEW available, NEW o, Parsed(available, o)
  PROVE  /\ o.mode \in {"Run", "Attach", "ListHooks", "Help", "Version", "Error"}
         /\ o.targetProcessId \in 0 .. MaxProcessId
         /\ o.hooks \in Seq(HookRecord) /\ 0 <= Len(o.hooks)
         /\ o.mode \in {"Run", "Attach"} =>
              Usable(available, o) /\ ToSet(o.hooks) \subseteq ToSet(available)
<1>1. o.hooks \in Seq(HookRecord)
  <2>1. <<>> \in Seq(HookRecord)
    BY EmptySeq
  <2> QED
    BY <2>1 DEF Parsed, Usable, Selection, HookList
<1>2. 0 <= Len(o.hooks)
  BY <1>1, LenProperties
<1> QED
  BY <1>1, <1>2 DEF Parsed, Usable, Selection

\* Nothing has been resolved before the handlers are looked up.
LEMMA NothingResolved ==
  ASSUME resolved' = <<>>, options.hooks' \in Seq(HookRecord), stage' # "hooking"
  PROVE  ResolvedInv'
<1>1. <<>> \in Seq(Resolutions') /\ Len(<<>>) = 0
  BY EmptySeq
<1>2. 0 <= Len(options.hooks')
  BY LenProperties
<1> QED
  BY <1>1, <1>2 DEF ResolvedInv

\* Every step of wmain goes on as described.
LEMMA WmainStep ==
  ASSUME WmainInv, InjectInv, [StartupNext]_startVars
  PROVE  WmainInv'
<1>0. StageInv /\ HooksInv /\ OptionsInv /\ ResolvedInv
  BY DEF WmainInv
<1>u. CASE UNCHANGED startVars
  <2>1. StageInv' /\ HooksInv'
    BY <1>0, <1>u DEF startVars, mainVars, mapperVars, StageInv, HooksInv
  <2>2. OptionsInv'
    BY <1>0, <1>u DEF startVars, mainVars, mapperVars, OptionsInv, InSession
  <2>3. ResolvedInv'
    BY <1>0, <1>u DEF startVars, mainVars, mapperVars, ResolvedInv, Resolutions
  <2> QED
    BY <2>1, <2>2, <2>3 DEF WmainInv
<1>1. CASE ParseWithoutHooks
  <2>1. HookList(<<>>) /\ <<>> \in Seq(Arguments)
    <3>1. <<>> \in Seq(HookRecord) /\ Len(<<>>) = 0 /\ <<>> \in Seq(Arguments)
      BY EmptySeq
    <3> QED
      BY <3>1 DEF HookList
  <2>2. Parsed(<<>>, options')
    BY <1>0, <1>1, <2>1, ParseCommandLineParses DEF ParseWithoutHooks, StageInv
  <2>3. stage' \in {"exited", "discovering"} /\ argv' \in Seq(Arguments)
    BY <1>0, <1>1, <2>1 DEF ParseWithoutHooks, Exit, StageInv
  <2>4. UNCHANGED <<described, availableHooks, commandLine, resolved, mapperVars>>
    BY <1>1 DEF ParseWithoutHooks
  <2>5. stage = "started"
    BY <1>1 DEF ParseWithoutHooks
  <2>6. StageInv'
    BY <1>0, <2>3, <2>4, <2>5 DEF StageInv, Stages, mapperVars
  <2>7. HooksInv'
    BY <1>0, <2>4 DEF HooksInv
  <2>8. OptionsInv'
    BY <2>2, <2>3, ParsedOptions DEF OptionsInv, InSession
  <2>9. ResolvedInv'
    BY <1>0, <2>3, <2>4, <2>5, <2>8, NothingResolved DEF ResolvedInv, OptionsInv
  <2> QED
    BY <2>6, <2>7, <2>8, <2>9 DEF WmainInv
<1>2. CASE Discover
  <2>1. PICK f \in DllFiles : described' = Description(f)
    BY <1>2 DEF Discover
  <2>2. described'.exports \in Seq(ExportRecord)
    BY <2>1, StartupAssumption DEF Description, DescribesHooks
  <2>3. /\ UNCHANGED <<argv, options, commandLine, resolved, mapperVars>>
        /\ stage = "discovering" /\ stage' = "parsing"
        /\ availableHooks' = DiscoverHooks(described')
    BY <1>2 DEF Discover
  <2>4. HooksInv'
    BY <2>2, <2>3, DiscoverHooksFinds DEF HooksInv
  <2>5. StageInv'
    BY <1>0, <2>3 DEF StageInv, Stages, mapperVars
  <2>6. OptionsInv'
    BY <1>0, <2>3 DEF OptionsInv, InSession
  <2>7. ResolvedInv'
    BY <1>0, <2>3, <2>6, NothingResolved DEF ResolvedInv, OptionsInv
  <2> QED
    BY <2>4, <2>5, <2>6, <2>7 DEF WmainInv
<1>3. CASE ParseWithHooks
  <2>1. Parsed(availableHooks, options')
    BY <1>0, <1>3, ParseCommandLineParses DEF ParseWithHooks, StageInv, HooksInv
  <2>2. /\ stage = "parsing" /\ argv' = <<>>
        /\ \/ stage' = "exited"
           \/ /\ stage' = "session" /\ options'.mode \in {"Run", "Attach"}
              /\ options'.mode = "Attach" => options'.targetProcessId # OwnProcessId
    BY <1>3 DEF ParseWithHooks, Exit
  <2>3. UNCHANGED <<described, availableHooks, commandLine, resolved, mapperVars>>
    BY <1>3 DEF ParseWithHooks
  <2>4. StageInv'
    <3>1. <<>> \in Seq(Arguments)
      BY EmptySeq
    <3> QED
      BY <1>0, <2>2, <2>3, <3>1 DEF StageInv, Stages, mapperVars
  <2>5. HooksInv'
    BY <1>0, <2>3 DEF HooksInv
  <2>6. OptionsInv'
    <3>1. ASSUME stage' = "session" PROVE options'.targetProcessId # OwnProcessId
      <4>1. CASE options'.mode = "Attach"
        BY <2>2, <3>1, <4>1
      <4>2. CASE options'.mode = "Run"
        <5>1. options'.targetProcessId = 0
          BY <2>1, <4>2, ParsedOptions DEF Usable
        <5> QED
          BY <5>1, StartupAssumption, CommandLineAssumption
      <4> QED
        BY <2>2, <3>1, <4>1, <4>2
    <3> QED
      BY <2>1, <2>2, <2>3, <3>1, ParsedOptions DEF OptionsInv, InSession
  <2>7. ResolvedInv'
    BY <1>0, <2>2, <2>3, <2>6, NothingResolved DEF ResolvedInv, OptionsInv
  <2> QED
    BY <2>4, <2>5, <2>6, <2>7 DEF WmainInv
<1>4. CASE Run \/ Attach
  <2>1. /\ stage = "session" /\ stage' \in {"exited", "created"}
        /\ UNCHANGED <<argv, described, availableHooks, options, resolved, mapperVars>>
    BY <1>4 DEF Run, Attach
  <2>2. StageInv'
    BY <1>0, <2>1 DEF StageInv, Stages, mapperVars
  <2>3. HooksInv'
    BY <1>0, <2>1 DEF HooksInv
  <2>4. OptionsInv'
    BY <1>0, <2>1 DEF OptionsInv, InSession
  <2>5. ResolvedInv'
    BY <1>0, <2>1, <2>4, NothingResolved DEF ResolvedInv, OptionsInv
  <2> QED
    BY <2>2, <2>3, <2>4, <2>5 DEF WmainInv
<1>5. CASE BeginInject
  <2>1. PICK f \in DllFiles : Description(f) = described /\ OpenDll(f)
    BY <1>5 DEF BeginInject
  <2>2. /\ stage = "created" /\ stage' = "mapping"
        /\ options' = [DefaultOptions EXCEPT !.mode = options.mode, !.hooks = options.hooks]
        /\ UNCHANGED <<argv, described, availableHooks, resolved>>
    BY <1>5 DEF BeginInject
  <2>3. dll' = f
    BY <2>1 DEF OpenDll
  <2>4. StageInv'
    BY <1>0, <2>1, <2>2, <2>3 DEF StageInv, Stages
  <2>5. HooksInv'
    BY <1>0, <2>2 DEF HooksInv
  <2>6. OptionsInv'
    <3>1. /\ options'.mode = options.mode /\ options'.hooks = options.hooks
          /\ options'.targetProcessId = 0
      BY <2>2 DEF DefaultOptions
    <3>2. 0 \in 0 .. MaxProcessId
      BY CommandLineAssumption
    <3> QED
      BY <1>0, <2>2, <3>1, <3>2 DEF OptionsInv, InSession
  <2>7. ResolvedInv'
    BY <1>0, <2>2, <2>6, NothingResolved DEF ResolvedInv, OptionsInv
  <2> QED
    BY <2>4, <2>5, <2>6, <2>7 DEF WmainInv
<1>6. CASE Inject
  <2>1. stage = "mapping" /\ MapperStep /\ UNCHANGED mainVars
    BY <1>6 DEF Inject
  <2>2. dll' = dll
    BY <2>1 DEF MapperStep, CheckFileSize, AllocateBuffer, ReadDll, AllocateRemote,
       AllocateLocal, CopySection, Relocate, WriteImage, ProtectSection, FlushAndReturn,
       ReturnNull, Proceed, Abandon
  <2>3. StageInv'
    BY <1>0, <2>1, <2>2 DEF StageInv, mainVars
  <2>4. HooksInv'
    BY <1>0, <2>1 DEF HooksInv, mainVars
  <2>5. OptionsInv'
    BY <1>0, <2>1 DEF OptionsInv, InSession, mainVars
  <2>6. ResolvedInv'
    BY <1>0, <2>1, <2>5, NothingResolved DEF ResolvedInv, OptionsInv, mainVars
  <2> QED
    BY <2>3, <2>4, <2>5, <2>6 DEF WmainInv
<1>7. CASE CheckMapping
  <2>1. /\ stage = "mapping" /\ mapStep = "returned"
        /\ stage' = "failed" \/ (stage' = "hooking" /\ base # 0)
        /\ UNCHANGED <<argv, described, availableHooks, options, commandLine, resolved,
                       mapperVars>>
    BY <1>7 DEF CheckMapping
  <2>2. StageInv'
    BY <1>0, <2>1 DEF StageInv, Stages, mapperVars
  <2>3. HooksInv'
    BY <1>0, <2>1 DEF HooksInv
  <2>4. OptionsInv'
    BY <1>0, <2>1 DEF OptionsInv, InSession
  <2>5. ResolvedInv'
    <3>1. <<>> \in Seq(Resolutions') /\ Len(<<>>) = 0
      BY EmptySeq
    <3>2. 0 <= Len(options.hooks)
      BY <1>0, LenProperties DEF OptionsInv
    <3> QED
      BY <1>0, <2>1, <3>1, <3>2 DEF ResolvedInv
  <2> QED
    BY <2>2, <2>3, <2>4, <2>5 DEF WmainInv
<1>8. CASE Resolve
  <2>1. PICK unread \in SUBSET described.procedures : ResolveHandlers(unread)
    BY <1>8 DEF Resolve
  <2>2. /\ stage = "hooking" /\ Len(resolved) < Len(options.hooks)
        /\ UNCHANGED <<stage, argv, described, availableHooks, options, commandLine,
                       mapperVars>>
    BY <2>1 DEF ResolveHandlers
  <2>3. StageInv' /\ HooksInv'
    BY <1>0, <2>2 DEF StageInv, HooksInv, mapperVars
  <2>4. OptionsInv'
    BY <1>0, <2>2 DEF OptionsInv, InSession
  <2>5. PICK n \in Nat : n = Len(resolved)
    BY <1>0, LenProperties DEF ResolvedInv
  <2>6. PICK m \in Nat : m = Len(options.hooks) /\ DOMAIN options.hooks = 1 .. m
    BY <1>0, LenProperties DEF OptionsInv
  <2>7. PICK hook : hook = options.hooks[n + 1] /\ hook \in ToSet(options.hooks)
    <3>1. n + 1 \in 1 .. m
      BY <2>2, <2>5, <2>6
    <3> QED
      BY <2>6, <3>1 DEF ToSet
  <2>8. PICK r : r = Resolution(dll, hook, unread) /\ resolved' = Append(resolved, r)
    BY <2>1, <2>5, <2>7, Zenon DEF ResolveHandlers, Resolution
  <2>9. r \in Resolutions
    BY <2>1, <2>7, <2>8 DEF Resolutions
  <2>10. resolved \in Seq(Resolutions)
    BY <1>0 DEF ResolvedInv
  <2> HIDE DEF Resolutions
  <2>11. Append(resolved, r) \in Seq(Resolutions) /\ Len(Append(resolved, r)) = n + 1
    BY <2>5, <2>9, <2>10, AppendProperties
  <2>12. Resolutions' = Resolutions
    BY <2>2 DEF Resolutions, mapperVars
  <2>13. ResolvedInv'
    BY <2>2, <2>5, <2>6, <2>8, <2>11, <2>12 DEF ResolvedInv
  <2> QED
    BY <2>3, <2>4, <2>13 DEF WmainInv
<1> QED
  BY <1>u, <1>1, <1>2, <1>3, <1>4, <1>5, <1>6, <1>7, <1>8 DEF StartupNext

\* Every state wmain reaches is as described.
THEOREM WmainInvariant == StartupSpec => [](WmainInv /\ InjectInv)
<1>1. StartupInit => WmainInv /\ InjectInv
  BY WmainInit, InjectInit
<1>2. WmainInv /\ InjectInv /\ [StartupNext]_startVars => (WmainInv /\ InjectInv)'
  BY WmainStep, InjectStep
<1> QED
  BY <1>1, <1>2, PTL DEF StartupSpec

\* The stages, the mode and the numbers of wmain stay what they are; whatever
\* number was typed, the process id is one (ParseProcessId).
THEOREM StartupTypes == StartupSpec => []StartupTypeOK
<1>1. WmainInv /\ InjectInv => StartupTypeOK
  <2> SUFFICES ASSUME WmainInv, InjectInv PROVE StartupTypeOK
    OBVIOUS
  <2>1. held \subseteq {"file", "buffer", "remote", "local"}
    BY DEF InjectInv, HeldAt, MapSteps
  <2> QED
    BY <2>1 DEF WmainInv, StageInv, Stages, OptionsInv, ResolvedInv, InjectInv, StartupTypeOK
<1> QED
  BY <1>1, WmainInvariant, PTL

\* Whatever the command line and the hooks of the DLL: a session is only begun
\* with options it can use (ParseCommandLine, main.cpp).
THEOREM SessionOptions == StartupSpec => []SessionOptionsSound
<1>1. WmainInv => SessionOptionsSound
  BY DEF WmainInv, OptionsInv, Usable, Selection, Distinct, SessionOptionsSound
<1> QED
  BY <1>1, WmainInvariant, PTL

\* Whatever the DLL exports: the hooks offered are all that it describes, sorted,
\* each once and each complete, or none (DiscoverHooks).
THEOREM DiscoveredHooks == StartupSpec => []HooksAllOrNone
<1>1. WmainInv => HooksAllOrNone
  BY DEF WmainInv, HooksInv, AllHooks, HooksAllOrNone
<1> QED
  BY <1>1, WmainInvariant, PTL

----------------------------------------------------------------------------
(* The relocation table *)

\* One turn of the loop over the entries of a block; move is the file, the
\* distance and the page.
MoveEntry(move, r, entry) == RelocateEntry(move[1], move[2], move[3], r, entry)
Moving == INSTANCE FoldLemmas WITH Op <- MoveEntry

EntryRecord == [type : STRING, offset : Nat]

\* What the relocation keeps between two turns.
RelocationRecord(f) ==
  [cells : [ImageCells(f) -> Int], at : Nat, ended : BOOLEAN, failed : BOOLEAN,
   strayed : BOOLEAN]

\* Entry i asks for cell c of the image.
Asks(page, entries, i, c) ==
  entries[i].type = "DIR64" /\ c = page + entries[i].offset

\* No two entries ask for the same cell.
AsksOnce(f, page, entries) ==
  \A i, j \in 1 .. Len(entries), c \in ImageCells(f) :
    Asks(page, entries, i, c) /\ Asks(page, entries, j, c) => i = j

\* One entry moves its cell, or fails.
EntryDone(f, delta, page, r, entry, q) ==
  /\ q \in RelocationRecord(f) /\ q.at = r.at /\ q.ended = r.ended
  /\ r.failed => q.failed
  /\ ~q.failed =>
       /\ entry.type = "DIR64" => page + entry.offset < f.sizeOfImage
       /\ \A c \in ImageCells(f) :
            q.cells[c] = r.cells[c]
              + IF entry.type = "DIR64" /\ c = page + entry.offset THEN delta ELSE 0

\* RelocateEntry does that, unless its target wraps.
LEMMA RelocateEntryMoves ==
  ASSUME NEW f, f.sizeOfImage \in Nat, NEW delta \in Int, NEW page \in Nat,
         NEW r \in RelocationRecord(f), NEW entry \in EntryRecord,
         entry.type = "DIR64" => page + entry.offset < DwordModulus
  PROVE  EntryDone(f, delta, page, r, entry, RelocateEntry(f, delta, page, r, entry))
<1>q. PICK q : q = RelocateEntry(f, delta, page, r, entry)
  OBVIOUS
<1>1. PICK cells \in [ImageCells(f) -> Int], at \in Nat, ended \in BOOLEAN, failed \in BOOLEAN,
          strayed \in BOOLEAN :
        r = [cells |-> cells, at |-> at, ended |-> ended, failed |-> failed, strayed |-> strayed]
  BY DEF RelocationRecord
<1>2. PICK target \in Nat : target = page + entry.offset
  BY DEF EntryRecord
<1>w. entry.type = "DIR64" => target % DwordModulus = target
  BY <1>2, MapperAssumption
<1>3. CASE r.failed \/ entry.type # "DIR64"
  <2>1. q = r
    BY <1>q, <1>3 DEF RelocateEntry
  <2>2. \A c \in ImageCells(f) : r.cells[c] \in Int
    BY DEF RelocationRecord
  <2> QED
    BY <1>q, <1>2, <1>3, <2>1, <2>2 DEF EntryDone
<1>4. CASE ~r.failed /\ entry.type = "DIR64" /\ ~IsRangeWithin(target, 1, f.sizeOfImage)
  <2>1. q = [r EXCEPT !.failed = TRUE]
    BY <1>q, <1>2, <1>w, <1>4 DEF RelocateEntry
  <2> QED
    BY <1>q, <2>1 DEF RelocationRecord, EntryDone
<1>5. CASE ~r.failed /\ entry.type = "DIR64" /\ IsRangeWithin(target, 1, f.sizeOfImage)
  <2>1. target < f.sizeOfImage /\ target \in ImageCells(f)
    BY <1>5 DEF IsRangeWithin, ImageCells, Cells
  <2>2. q = [r EXCEPT !.cells[target] = @ + delta]
    BY <1>q, <1>2, <1>w, <1>5, <2>1 DEF RelocateEntry
  <2>3. PICK moved : moved = [cells EXCEPT ![target] = @ + delta]
    OBVIOUS
  <2>4. /\ moved \in [ImageCells(f) -> Int]
        /\ \A c \in ImageCells(f) : moved[c] = cells[c] + IF c = target THEN delta ELSE 0
    <3>1. \A c \in ImageCells(f) : cells[c] \in Int
      OBVIOUS
    <3> QED
      BY <2>1, <2>3, <3>1
  <2>5. /\ q \in RelocationRecord(f) /\ q.cells = moved /\ q.at = r.at
        /\ q.ended = r.ended /\ q.failed = r.failed
    BY <1>1, <2>2, <2>3, <2>4 DEF RelocationRecord
  <2> QED
    BY <1>q, <1>1, <1>2, <1>5, <2>1, <2>4, <2>5 DEF EntryDone
<1> QED
  BY <1>2, <1>3, <1>4, <1>5

\* What the entries of a block have done after a number of turns.
EntriesDone(f, delta, page, entries, r, i, q) ==
  /\ q \in RelocationRecord(f) /\ q.at = r.at /\ q.ended = r.ended
  /\ r.failed => q.failed
  /\ ~q.failed =>
       \A k \in 1 .. i : entries[k].type = "DIR64" => page + entries[k].offset < f.sizeOfImage
  /\ ~q.failed /\ AsksOnce(f, page, entries) =>
       \A c \in ImageCells(f) :
         q.cells[c] = r.cells[c]
           + IF \E k \in 1 .. i : Asks(page, entries, k, c) THEN delta ELSE 0

\* A block either fails or moves each cell that one of its entries asks for.
LEMMA RelocateEntriesMoves ==
  ASSUME NEW f, f.sizeOfImage \in Nat, NEW delta \in Int, NEW page \in Nat,
         NEW r \in RelocationRecord(f), NEW entries \in Seq(EntryRecord),
         \A i \in 1 .. Len(entries) :
           entries[i].type = "DIR64" => page + entries[i].offset < DwordModulus
  PROVE  EntriesDone(f, delta, page, entries, r, Len(entries),
                     RelocateEntries(f, delta, page, r, entries))
<1> DEFINE move == <<f, delta, page>>
           turn == Moving!Turns(move, r, entries)
           n == Len(entries)
           Done(i) == EntriesDone(f, delta, page, entries, r, i, turn[i])
           P == {i \in 0 .. n : Done(i)}
<1>1. n \in Nat /\ DOMAIN entries = 1 .. n
  BY LenProperties
<1>2. Moving!Passes(move, r, entries, turn)
  BY <1>1, Moving!FoldTurns
<1>3. /\ turn[0] = r
      /\ \A i \in 1 .. n : turn[i] = MoveEntry(move, turn[i - 1], entries[i])
      /\ turn[n] = Moving!Fold(move, r, entries)
  BY <1>2 DEF Moving!Passes
<1>4. RelocateEntries(f, delta, page, r, entries) = Moving!Fold(move, r, entries)
  <2>1. ASSUME NEW m
        PROVE  RelocateEntries(m[1], m[2], m[3], r, entries) = Moving!Fold(m, r, entries)
    BY DEF RelocateEntries, MoveEntry, Moving!Fold, FoldLeft, Moving!FoldLeft, MapThenFoldSet,
           Moving!MapThenFoldSet, Max, Moving!Max
  <2>2. /\ RelocateEntries(move[1], move[2], move[3], r, entries) = Moving!Fold(move, r, entries)
        /\ move[1] = f /\ move[2] = delta /\ move[3] = page
    BY <2>1
  <2> HIDE DEF move
  <2> QED
    BY <2>2
<1>5. \A i \in 1 .. n : turn[i] = RelocateEntry(f, delta, page, turn[i - 1], entries[i])
  BY <1>3 DEF MoveEntry
<1> HIDE DEF turn
<1>6. 0 \in P
  <2>1. \A c \in ImageCells(f) : r.cells[c] \in Int
    BY DEF RelocationRecord
  <2>2. Done(0)
    BY <1>3, <2>1 DEF EntriesDone
  <2> QED
    BY <1>1, <2>2
<1>7. ASSUME NEW i \in 1 .. n, i - 1 \in P PROVE i \in P
  <2>1. PICK p : p = turn[i - 1] /\ EntriesDone(f, delta, page, entries, r, i - 1, p)
    BY <1>7
  <2>2. PICK entry \in EntryRecord : entry = entries[i]
    BY <1>1, ElementOfSeq
  <2>3. PICK q : q = RelocateEntry(f, delta, page, p, entry) /\ q = turn[i]
    BY <1>5, <2>1, <2>2
  <2>4. p \in RelocationRecord(f) /\ p.at = r.at /\ p.ended = r.ended /\ (r.failed => p.failed)
    BY <2>1 DEF EntriesDone
  <2>a. EntryDone(f, delta, page, p, entry, q)
    BY <1>1, <2>2, <2>3, <2>4, RelocateEntryMoves
  <2>5. /\ q \in RelocationRecord(f) /\ q.at = p.at /\ q.ended = p.ended
        /\ p.failed => q.failed
        /\ ~q.failed =>
              /\ entry.type = "DIR64" => page + entry.offset < f.sizeOfImage
              /\ \A c \in ImageCells(f) :
                   q.cells[c] = p.cells[c]
                     + IF entry.type = "DIR64" /\ c = page + entry.offset THEN delta ELSE 0
    BY <2>a, Zenon DEF EntryDone
  <2>6. \A k \in 1 .. i : k \in 1 .. i - 1 \/ k = i
    BY <1>1
  <2>7. ASSUME ~q.failed, NEW k \in 1 .. i, entries[k].type = "DIR64"
        PROVE  page + entries[k].offset < f.sizeOfImage
    BY <2>1, <2>2, <2>5, <2>6, <2>7 DEF EntriesDone
  <2>8. ASSUME ~q.failed, AsksOnce(f, page, entries), NEW c \in ImageCells(f)
        PROVE  q.cells[c] = r.cells[c]
                 + IF \E k \in 1 .. i : Asks(page, entries, k, c) THEN delta ELSE 0
    <3>1. PICK a \in Int, b \in Int, d \in Int : a = r.cells[c] /\ b = p.cells[c] /\ d = q.cells[c]
      BY <2>4, <2>5 DEF RelocationRecord
    <3>2. b = a + IF \E k \in 1 .. i - 1 : Asks(page, entries, k, c) THEN delta ELSE 0
      BY <2>1, <2>5, <2>8, <3>1 DEF EntriesDone
    <3>3. d = b + IF Asks(page, entries, i, c) THEN delta ELSE 0
      BY <2>2, <2>5, <2>8, <3>1 DEF Asks
    <3>4. (\E k \in 1 .. i : Asks(page, entries, k, c))
            <=> (\E k \in 1 .. i - 1 : Asks(page, entries, k, c)) \/ Asks(page, entries, i, c)
      BY <1>1, <2>6
    <3>5. ~((\E k \in 1 .. i - 1 : Asks(page, entries, k, c)) /\ Asks(page, entries, i, c))
      <4>1. ASSUME NEW k \in 1 .. i - 1, Asks(page, entries, k, c), Asks(page, entries, i, c)
            PROVE  FALSE
        <5>1. k \in 1 .. n /\ i \in 1 .. n /\ k # i
          BY <1>1
        <5> QED
          BY <2>8, <4>1, <5>1 DEF AsksOnce
      <4> QED
        BY <4>1
    <3>6. CASE Asks(page, entries, i, c)
      <4>1. b = a /\ d = b + delta
        BY <3>1, <3>2, <3>3, <3>5, <3>6
      <4> QED
        BY <3>1, <3>4, <3>6, <4>1
    <3>7. CASE ~Asks(page, entries, i, c)
      <4>1. d = b
        BY <3>1, <3>3, <3>7
      <4> QED
        BY <3>1, <3>2, <3>4, <3>7, <4>1
    <3> QED
      BY <3>6, <3>7
  <2>9. Done(i)
    BY <2>3, <2>4, <2>5, <2>7, <2>8 DEF EntriesDone
  <2> QED
    BY <1>1, <2>9
<1>8. n \in P
  <2>1. P \subseteq 0 .. n
    OBVIOUS
  <2> HIDE DEF P, n
  <2> QED
    BY <1>1, <1>6, <1>7, <2>1, Iteration
<1> QED
  BY <1>3, <1>4, <1>8

\* No two entries of a block ask for the same cell.
BlockAsksOnce(f, block) ==
  \A i, j \in 1 .. block.size - 1, c \in ImageCells(f) :
    Asks(block.page, block.entries, i, c) /\ Asks(block.page, block.entries, j, c) => i = j

\* A block that belongs to the table has been applied.
BlockWalked(f, delta, r, block, q) ==
  /\ block.page # 0 /\ block.size >= 1
  /\ q.at = r.at + block.size /\ q.at <= f.relocation.size
  /\ \A i \in 1 .. block.size - 1 :
       block.entries[i].type = "DIR64" => block.page + block.entries[i].offset < f.sizeOfImage
  /\ BlockAsksOnce(f, block) => \A c \in ImageCells(f) :
       q.cells[c] = r.cells[c]
         + IF \E i \in 1 .. block.size - 1 : Asks(block.page, block.entries, i, c)
           THEN delta ELSE 0

\* A turn that does not fail applies a block, or is at or behind the end of the
\* table.
BlockDone(f, delta, r, block, q) ==
  /\ q \in RelocationRecord(f) /\ (r.failed => q.failed)
  /\ ~q.failed => \/ r.ended /\ q = r
                  \/ /\ ~r.ended /\ q.ended /\ q.cells = r.cells
                     /\ r.at + 1 > f.relocation.size \/ block.page = 0
                  \/ ~r.ended /\ ~q.ended /\ BlockWalked(f, delta, r, block, q)

\* RelocateBlock does that.
LEMMA RelocateBlockMoves ==
  ASSUME NEW f, f.sizeOfImage \in Nat, f.relocation.size \in Nat, NEW delta \in Int,
         NEW r \in RelocationRecord(f), NEW block \in BlockRecord,
         block.size - 1 <= Len(block.entries),
         \A i \in 1 .. block.size - 1 :
           block.entries[i].type = "DIR64" => block.page + block.entries[i].offset < DwordModulus
  PROVE  BlockDone(f, delta, r, block, RelocateBlock(f, delta, r, block))
<1>q. PICK q : q = RelocateBlock(f, delta, r, block)
  OBVIOUS
<1>1. /\ r.at \in Nat /\ r.ended \in BOOLEAN /\ r.failed \in BOOLEAN
      /\ block.size \in Nat /\ block.page \in Nat /\ block.entries \in Seq(EntryRecord)
  BY DEF RelocationRecord, BlockRecord, EntryRecord
<1>2. CASE r.failed \/ r.ended
  <2>1. q = r
    BY <1>q, <1>2 DEF RelocateBlock
  <2> QED
    BY <1>q, <1>2, <2>1 DEF BlockDone
<1>3. CASE ~(r.failed \/ r.ended) /\ (r.at + 1 > f.relocation.size \/ block.page = 0)
  <2>1. q = [r EXCEPT !.ended = TRUE]
    BY <1>q, <1>3 DEF RelocateBlock
  <2>2. q \in RelocationRecord(f) /\ q.ended /\ q.failed = r.failed /\ q.cells = r.cells
    BY <2>1 DEF RelocationRecord
  <2> QED
    BY <1>q, <1>3, <2>2 DEF BlockDone
<1>4. CASE /\ ~(r.failed \/ r.ended) /\ ~(r.at + 1 > f.relocation.size \/ block.page = 0)
           /\ block.size < 1 \/ r.at + block.size > f.relocation.size
  <2>1. q = [r EXCEPT !.failed = TRUE]
    BY <1>q, <1>4 DEF RelocateBlock
  <2>2. q \in RelocationRecord(f) /\ q.failed
    BY <2>1 DEF RelocationRecord
  <2> QED
    BY <1>q, <1>4, <2>2 DEF BlockDone
<1>5. CASE /\ ~(r.failed \/ r.ended) /\ ~(r.at + 1 > f.relocation.size \/ block.page = 0)
           /\ ~(block.size < 1 \/ r.at + block.size > f.relocation.size)
  <2>1. PICK entries : entries = SubSeq(block.entries, 1, block.size - 1)
    OBVIOUS
  <2>2. PICK n \in Nat : n = block.size - 1
    BY <1>1, <1>5
  <2>3. /\ entries \in Seq(EntryRecord) /\ Len(entries) = n
        /\ \A i \in 1 .. n : entries[i] = block.entries[i]
    <3>1. \A i \in 1 .. n : block.entries[i] \in EntryRecord
      <4>1. PICK k \in Nat : k = Len(block.entries)
        BY <1>1, LenProperties
      <4> QED
        BY <1>1, <2>2, <4>1, ElementOfSeq
    <3>2. /\ SubSeq(block.entries, 1, n) \in Seq(EntryRecord)
          /\ Len(SubSeq(block.entries, 1, n)) = IF 1 <= n THEN n - 1 + 1 ELSE 0
          /\ \A i \in 1 .. n - 1 + 1 : SubSeq(block.entries, 1, n)[i] = block.entries[1 + i - 1]
      BY <3>1, SubSeqProperties
    <3>3. n - 1 + 1 = n /\ (IF 1 <= n THEN n - 1 + 1 ELSE 0) = n /\ \A i \in 1 .. n : 1 + i - 1 = i
      OBVIOUS
    <3> QED
      BY <2>1, <2>2, <3>2, <3>3
  <2>4. PICK moved : moved = RelocateEntries(f, delta, block.page, r, entries)
    OBVIOUS
  <2>5. EntriesDone(f, delta, block.page, entries, r, n, moved)
    BY <1>1, <2>2, <2>3, <2>4, RelocateEntriesMoves
  <2>6. moved \in RelocationRecord(f) /\ moved.at = r.at /\ moved.ended = r.ended
    BY <2>5 DEF EntriesDone
  <2>7. q = [moved EXCEPT !.at = @ + block.size]
    BY <1>q, <1>5, <2>1, <2>4 DEF RelocateBlock
  <2>8. /\ q \in RelocationRecord(f) /\ q.at = r.at + block.size /\ q.ended = r.ended
        /\ q.failed = moved.failed /\ q.cells = moved.cells
    <3>1. moved.at + block.size \in Nat
      BY <1>1, <2>6
    <3> QED
      BY <2>6, <2>7, <3>1 DEF RelocationRecord
  <2>9. ASSUME ~q.failed, NEW i \in 1 .. n, block.entries[i].type = "DIR64"
        PROVE  block.page + block.entries[i].offset < f.sizeOfImage
    BY <2>3, <2>5, <2>8, <2>9 DEF EntriesDone
  <2>10. ASSUME ~q.failed, BlockAsksOnce(f, block), NEW c \in ImageCells(f)
         PROVE  q.cells[c] = r.cells[c]
                  + IF \E i \in 1 .. n : Asks(block.page, block.entries, i, c)
                    THEN delta ELSE 0
    <3>1. \A d : \A i \in 1 .. n : Asks(block.page, entries, i, d)
                                 <=> Asks(block.page, block.entries, i, d)
      BY <2>3 DEF Asks
    <3>2. AsksOnce(f, block.page, entries)
      BY <2>2, <2>3, <2>10, <3>1 DEF AsksOnce, BlockAsksOnce
    <3>3. q.cells[c] = r.cells[c]
            + IF \E i \in 1 .. n : Asks(block.page, entries, i, c) THEN delta ELSE 0
      BY <2>5, <2>8, <2>10, <3>2 DEF EntriesDone
    <3>4. (\E i \in 1 .. n : Asks(block.page, entries, i, c))
            <=> (\E i \in 1 .. n : Asks(block.page, block.entries, i, c))
      BY <3>1
    <3> QED
      BY <3>3, <3>4
  <2>11. ~q.failed => BlockWalked(f, delta, r, block, q)
    <3>1. block.page # 0 /\ block.size >= 1 /\ q.at <= f.relocation.size
      BY <1>1, <1>5, <2>8
    <3> QED
      BY <2>2, <2>8, <2>9, <2>10, <3>1 DEF BlockWalked
  <2> QED
    BY <1>q, <1>1, <1>5, <2>8, <2>11 DEF BlockDone
<1> QED
  BY <1>2, <1>3, <1>4, <1>5

\* One turn of the loop over the blocks; move is the file and the distance.
MoveBlock(move, r, block) == RelocateBlock(move[1], move[2], r, block)
Walking == INSTANCE FoldLemmas WITH Op <- MoveBlock

RelocationStart(cells) ==
  [cells |-> cells, at |-> 0, ended |-> FALSE, failed |-> FALSE, strayed |-> FALSE]

\* The turns of a walk over the blocks of a table.
IsWalk(f, delta, cells, turn) ==
  /\ turn[0] = RelocationStart(cells)
  /\ \A k \in 1 .. Len(f.relocation.blocks) :
       turn[k] = RelocateBlock(f, delta, turn[k - 1], f.relocation.blocks[k])
  /\ turn[Len(f.relocation.blocks)] = Relocations(f, delta, cells)

\* The fold goes through such a walk.
LEMMA WalkExists ==
  ASSUME NEW f, LinkedFile(f), NEW delta \in Int, NEW cells
  PROVE  \E turn : IsWalk(f, delta, cells, turn)
<1> DEFINE move == <<f, delta>>
           blocks == f.relocation.blocks
           start == RelocationStart(cells)
           turn == Walking!Turns(move, start, blocks)
<1>1. PICK n \in Nat : n = Len(blocks) /\ DOMAIN blocks = 1 .. n
  BY LenProperties DEF LinkedFile
<1>2. Walking!Passes(move, start, blocks, turn)
  BY <1>1, Walking!FoldTurns
<1>3. /\ turn[0] = start
      /\ \A i \in 1 .. n : turn[i] = MoveBlock(move, turn[i - 1], blocks[i])
      /\ turn[n] = Walking!Fold(move, start, blocks)
  BY <1>1, <1>2 DEF Walking!Passes
<1>4. Relocations(f, delta, cells) = Walking!Fold(move, start, blocks)
  <2>1. ASSUME NEW m
        PROVE  Relocations(m[1], m[2], cells)
                 = Walking!Fold(m, RelocationStart(cells), m[1].relocation.blocks)
    BY DEF Relocations, RelocationStart, MoveBlock, Walking!Fold, FoldLeft, Walking!FoldLeft,
           MapThenFoldSet, Walking!MapThenFoldSet, Max, Walking!Max
  <2>2. /\ Relocations(move[1], move[2], cells)
             = Walking!Fold(move, RelocationStart(cells), move[1].relocation.blocks)
        /\ move[1] = f /\ move[2] = delta
    BY <2>1
  <2> HIDE DEF move
  <2> QED
    BY <2>2
<1>5. \A i \in 1 .. n : turn[i] = RelocateBlock(f, delta, turn[i - 1], blocks[i])
  BY <1>3 DEF MoveBlock
<1> HIDE DEF turn
<1> QED
  BY <1>1, <1>3, <1>4, <1>5 DEF IsWalk

\* As long as the walk has not failed, every turn of it is a sound one.
LEMMA WalkTurns ==
  ASSUME NEW f, LinkedFile(f), TargetsBelowWrap(f), NEW delta \in Int,
         NEW cells \in [ImageCells(f) -> Int], NEW turn, IsWalk(f, delta, cells, turn), NEW n \in Nat,
         n = Len(f.relocation.blocks), ~turn[n].failed
  PROVE  /\ \A k \in 0 .. n : turn[k] \in RelocationRecord(f) /\ ~turn[k].failed
         /\ \A k \in 1 .. n :
              BlockDone(f, delta, turn[k - 1], f.relocation.blocks[k], turn[k])
<1> DEFINE blocks == f.relocation.blocks
           P == {k \in 0 .. n : turn[k] \in RelocationRecord(f)}
           Q == {k \in 0 .. n : ~turn[n - k].failed}
<1>1. /\ f.sizeOfImage \in Nat /\ f.relocation.size \in Nat
      /\ \A k \in 1 .. n : blocks[k] \in BlockRecord /\ blocks[k].size - 1 <= Len(blocks[k].entries)
  <2>1. \A k \in 1 .. n : blocks[k] \in BlockRecord
    BY ElementOfSeq DEF LinkedFile
  <2> QED
    BY <2>1 DEF LinkedFile
<1>b. ASSUME NEW k \in 1 .. n, NEW i \in 1 .. blocks[k].size - 1, blocks[k].entries[i].type = "DIR64"
      PROVE  blocks[k].page + blocks[k].entries[i].offset < DwordModulus
  <2>1. PICK l \in Nat : l = Len(blocks[k].entries)
    BY <1>1, LenProperties DEF BlockRecord
  <2>2. i \in 1 .. l
    BY <1>1, <2>1 DEF BlockRecord
  <2> QED
    BY <1>b, <2>1, <2>2 DEF TargetsBelowWrap, Lists
<1>2. /\ turn[0] = RelocationStart(cells)
      /\ \A k \in 1 .. n : turn[k] = RelocateBlock(f, delta, turn[k - 1], blocks[k])
  BY DEF IsWalk
<1>3. 0 \in P
  <2>1. PICK no \in BOOLEAN : no = FALSE
    OBVIOUS
  <2>2. turn[0] = [cells |-> cells, at |-> 0, ended |-> no, failed |-> no, strayed |-> no]
    BY <1>2, <2>1, Zenon DEF RelocationStart
  <2> QED
    BY <2>2 DEF RelocationRecord
<1>4. ASSUME NEW k \in 1 .. n, turn[k - 1] \in RelocationRecord(f)
      PROVE  BlockDone(f, delta, turn[k - 1], blocks[k], turn[k])
  BY <1>1, <1>b, <1>2, <1>4, RelocateBlockMoves
<1>5. ASSUME NEW k \in 1 .. n, k - 1 \in P PROVE k \in P
  <2>1. turn[k] \in RelocationRecord(f)
    BY <1>4, <1>5 DEF BlockDone
  <2> QED
    BY <2>1
<1>6. P = 0 .. n
  <2>1. P \subseteq 0 .. n
    OBVIOUS
  <2> HIDE DEF P
  <2> QED
    BY <1>3, <1>5, <2>1, Iteration
<1>7. \A k \in 1 .. n : turn[k - 1] \in RelocationRecord(f)
  <2>1. \A k \in 1 .. n : k - 1 \in P
    BY <1>6
  <2> QED
    BY <2>1
<1>8. 0 \in Q
  BY n - 0 = n
<1>9. ASSUME NEW k \in 1 .. n, k - 1 \in Q PROVE k \in Q
  <2>1. PICK i : i = n - (k - 1) /\ i \in 1 .. n /\ i - 1 = n - k /\ ~turn[i].failed
    BY <1>9
  <2>2. BlockDone(f, delta, turn[i - 1], blocks[i], turn[i])
    BY <1>4, <1>7, <2>1
  <2>3. ~turn[i - 1].failed
    BY <2>1, <2>2 DEF BlockDone
  <2> QED
    BY <2>1, <2>3
<1>10. Q = 0 .. n
  <2>1. Q \subseteq 0 .. n
    OBVIOUS
  <2> HIDE DEF Q
  <2> QED
    BY <1>8, <1>9, <2>1, Iteration
<1>11. ASSUME NEW k \in 0 .. n PROVE ~turn[k].failed
  <2>1. n - k \in Q
    <3>1. n - k \in 0 .. n
      OBVIOUS
    <3> HIDE DEF Q
    <3> QED
      BY <1>10, <3>1
  <2>2. n - (n - k) = k
    OBVIOUS
  <2> QED
    BY <2>1, <2>2
<1> QED
  BY <1>4, <1>6, <1>7, <1>11

\* The walk applies the blocks of the table, up to its end, and no other.
LEMMA WalkEnds ==
  ASSUME NEW f, LinkedFile(f), TargetsBelowWrap(f), NEW delta \in Int,
         NEW cells \in [ImageCells(f) -> Int], NEW turn, IsWalk(f, delta, cells, turn), NEW n \in Nat,
         n = Len(f.relocation.blocks), ~turn[n].failed
  PROVE  \E m \in 0 .. n :
           /\ \A k \in 1 .. m :
                BlockWalked(f, delta, turn[k - 1], f.relocation.blocks[k], turn[k])
           /\ turn[n].cells = turn[m].cells
           /\ \/ m = n \/ turn[m].at + 1 > f.relocation.size
              \/ f.relocation.blocks[m + 1].page = 0
<1> DEFINE blocks == f.relocation.blocks
           Open == {k \in 0 .. n : ~turn[k].ended}
<1>1. /\ \A k \in 0 .. n : turn[k] \in RelocationRecord(f) /\ ~turn[k].failed
      /\ \A k \in 1 .. n : BlockDone(f, delta, turn[k - 1], blocks[k], turn[k])
  BY WalkTurns
<1>2. ASSUME NEW k \in 1 .. n
      PROVE  \/ turn[k - 1].ended /\ turn[k] = turn[k - 1]
             \/ /\ ~turn[k - 1].ended /\ turn[k].ended /\ turn[k].cells = turn[k - 1].cells
                /\ turn[k - 1].at + 1 > f.relocation.size \/ blocks[k].page = 0
             \/ /\ ~turn[k - 1].ended /\ ~turn[k].ended
                /\ BlockWalked(f, delta, turn[k - 1], blocks[k], turn[k])
  <2>1. ~turn[k].failed
    BY <1>1
  <2>2. BlockDone(f, delta, turn[k - 1], blocks[k], turn[k])
    BY <1>1
  <2> QED
    BY <2>1, <2>2, Zenon DEF BlockDone
<1>3. 0 \in Open
  BY DEF IsWalk, RelocationStart
<1>4. PICK m \in 0 .. n : m \in Open /\ (m = n \/ m + 1 \notin Open)
  <2>1. CASE \E k \in 1 .. n : k - 1 \in Open /\ k \notin Open
    <3>1. PICK k \in 1 .. n : k - 1 \in Open /\ k \notin Open
      BY <2>1
    <3>2. k - 1 \in 0 .. n /\ k - 1 + 1 = k
      OBVIOUS
    <3> QED
      BY <3>1, <3>2
  <2>2. CASE \A k \in 1 .. n : k - 1 \in Open => k \in Open
    <3>1. Open \subseteq 0 .. n
      OBVIOUS
    <3> HIDE DEF Open
    <3>2. n \in Open
      BY <1>3, <2>2, <3>1, Iteration
    <3> QED
      BY <3>2
  <2> QED
    BY <2>1, <2>2
<1>5. \A k \in 0 .. m : ~turn[k].ended
  <2> DEFINE P == {k \in 0 .. m : ~turn[m - k].ended}
  <2>1. 0 \in P
    BY <1>4, m - 0 = m
  <2>2. ASSUME NEW k \in 1 .. m, k - 1 \in P PROVE k \in P
    <3>1. PICK i : i = m - (k - 1) /\ i \in 1 .. n /\ i - 1 = m - k /\ ~turn[i].ended
      BY <2>2
    <3>2. ~turn[i - 1].ended
      BY <1>2, <3>1
    <3> QED
      BY <3>1, <3>2
  <2>3. P = 0 .. m
    <3>1. P \subseteq 0 .. m
      OBVIOUS
    <3>2. m \in Nat
      OBVIOUS
    <3> HIDE DEF P
    <3> QED
      BY <2>1, <2>2, <3>1, <3>2, Iteration
  <2> TAKE k \in 0 .. m
  <2>4. m - k \in P
    <3>1. m - k \in 0 .. m
      OBVIOUS
    <3> HIDE DEF P
    <3> QED
      BY <2>3, <3>1
  <2>5. m - (m - k) = k
    OBVIOUS
  <2> QED
    BY <2>4, <2>5
<1>6. ASSUME NEW k \in 1 .. m
      PROVE  BlockWalked(f, delta, turn[k - 1], blocks[k], turn[k])
  <2>1. k \in 1 .. n /\ k - 1 \in 0 .. m /\ k \in 0 .. m
    OBVIOUS
  <2> QED
    BY <1>2, <1>5, <2>1
<1>7. /\ turn[n].cells = turn[m].cells
      /\ m = n \/ turn[m].at + 1 > f.relocation.size \/ blocks[m + 1].page = 0
  <2>1. CASE m = n
    BY <2>1
  <2>2. CASE m # n
    <3>1. m + 1 \in 1 .. n /\ m + 1 - 1 = m /\ turn[m + 1].ended /\ ~turn[m].ended
      BY <1>4, <2>2
    <3>2. /\ turn[m + 1].cells = turn[m].cells
          /\ turn[m].at + 1 > f.relocation.size \/ blocks[m + 1].page = 0
      BY <1>2, <3>1
    <3> DEFINE l == n - (m + 1)
               P == {k \in 0 .. l : turn[m + 1 + k] = turn[m + 1]}
    <3>3. l \in Nat /\ m + 1 + l = n
      <4>1. m + 1 <= n
        BY <3>1
      <4>2. \A a, b \in Int : a + 1 <= b => b - (a + 1) \in Nat /\ a + 1 + (b - (a + 1)) = b
        OBVIOUS
      <4>3. m \in Int /\ n \in Int
        OBVIOUS
      <4> QED
        BY <4>1, <4>2, <4>3
    <3>4. 0 \in P
      BY <3>3, m + 1 + 0 = m + 1
    <3>5. ASSUME NEW k \in 1 .. l, k - 1 \in P PROVE k \in P
      <4>1. PICK i : i = m + 1 + k /\ i \in 1 .. n /\ i - 1 = m + 1 + (k - 1)
        BY <3>3
      <4>2. turn[i - 1] = turn[m + 1]
        BY <3>5, <4>1
      <4>3. turn[i] = turn[i - 1]
        BY <1>2, <3>1, <4>1, <4>2
      <4> QED
        BY <4>1, <4>2, <4>3
    <3>6. l \in P
      <4>1. P \subseteq 0 .. l
        OBVIOUS
      <4> HIDE DEF P, l
      <4> QED
        BY <3>3, <3>4, <3>5, <4>1, Iteration
    <3> QED
      BY <3>2, <3>3, <3>6
  <2> QED
    BY <2>1, <2>2
<1> QED
  BY <1>6, <1>7

\* One of the first n blocks asks for cell c.
AskedFor(f, n, c) ==
  \E k \in 1 .. n : \E i \in 1 .. f.relocation.blocks[k].size - 1 :
    Asks(f.relocation.blocks[k].page, f.relocation.blocks[k].entries, i, c)

\* A relocation that does not fail moves every pointer once and nothing else,
\* unless a target wraps.
LEMMA RelocationsMove ==
  ASSUME NEW f, LinkedFile(f), TargetsBelowWrap(f), NEW delta \in Int,
         NEW cells \in [ImageCells(f) -> Int], ~Relocations(f, delta, cells).failed
  PROVE  /\ Relocations(f, delta, cells).cells \in [ImageCells(f) -> Int]
         /\ \A c \in ImageCells(f) :
              Relocations(f, delta, cells).cells[c]
                = cells[c] + IF c \in f.pointers THEN delta ELSE 0
<1> DEFINE blocks == f.relocation.blocks
<1>1. PICK turn : IsWalk(f, delta, cells, turn)
  BY WalkExists
<1>2. PICK n \in Nat : n = Len(blocks) /\ turn[n] = Relocations(f, delta, cells)
  BY <1>1, LenProperties DEF LinkedFile, IsWalk
<1>3. /\ \A k \in 0 .. n : turn[k] \in RelocationRecord(f)
      /\ turn[0] = RelocationStart(cells)
  BY <1>1, <1>2, WalkTurns DEF IsWalk
<1>4. PICK m \in 0 .. n :
        /\ \A k \in 1 .. m : BlockWalked(f, delta, turn[k - 1], blocks[k], turn[k])
        /\ turn[n].cells = turn[m].cells
        /\ m = n \/ turn[m].at + 1 > f.relocation.size \/ blocks[m + 1].page = 0
  BY <1>1, <1>2, WalkEnds
<1>5. \A k \in 1 .. n : /\ blocks[k] \in BlockRecord /\ blocks[k].size \in Nat
                        /\ blocks[k].size - 1 <= Len(blocks[k].entries)
  <2>1. \A k \in 1 .. n : blocks[k] \in BlockRecord
    BY <1>2, ElementOfSeq DEF LinkedFile
  <2> QED
    BY <1>2, <2>1 DEF LinkedFile, BlockRecord
<1>6. f.relocation.size \in Nat /\ f.sizeOfImage \in Nat
  BY DEF LinkedFile
<1> DEFINE at == [k \in 0 .. m |-> turn[k].at]
<1>7. at \in [0 .. m -> 0 .. f.relocation.size]
  <2> SUFFICES ASSUME NEW k \in 0 .. m PROVE turn[k].at \in 0 .. f.relocation.size
    OBVIOUS
  <2>1. turn[k].at \in Nat
    BY <1>3 DEF RelocationRecord
  <2>2. CASE k = 0
    BY <1>3, <1>6, <2>2 DEF RelocationStart
  <2>3. CASE k # 0
    <3>1. k \in 1 .. m
      BY <2>3
    <3>2. turn[k].at <= f.relocation.size
      BY <1>4, <3>1 DEF BlockWalked
    <3> QED
      BY <1>6, <2>1, <3>2
  <2> QED
    BY <2>2, <2>3
<1>8. IsTable(f, m, at)
  <2>1. at[0] = 0
    BY <1>3 DEF RelocationStart
  <2>2. ASSUME NEW k \in 1 .. m
        PROVE  /\ blocks[k].size >= 1 /\ blocks[k].page # 0
               /\ at[k] = at[k - 1] + blocks[k].size
    <3>1. k \in 0 .. m /\ k - 1 \in 0 .. m
      OBVIOUS
    <3>2. /\ blocks[k].size >= 1 /\ blocks[k].page # 0
          /\ turn[k].at = turn[k - 1].at + blocks[k].size
      BY <1>4 DEF BlockWalked
    <3> QED
      BY <3>1, <3>2
  <2>3. at[m] = turn[m].at
    OBVIOUS
  <2> HIDE DEF at
  <2> QED
    BY <1>2, <1>4, <2>1, <2>2, <2>3 DEF IsTable
<1>9. ListsInside(f, m)
  <2> SUFFICES ASSUME NEW k \in 1 .. m, NEW i \in 1 .. Len(blocks[k].entries), NEW p,
                      p = blocks[k].page + blocks[k].entries[i].offset, Lists(f, k, i, p)
               PROVE  p < f.sizeOfImage
    BY DEF ListsInside
  <2>1. BlockWalked(f, delta, turn[k - 1], blocks[k], turn[k])
    BY <1>4
  <2>2. i \in 1 .. blocks[k].size - 1 /\ blocks[k].entries[i].type = "DIR64"
    BY DEF Lists
  <2> QED
    BY <2>1, <2>2 DEF BlockWalked
<1>10. ListsPointersOnce(f, m)
  <2> HIDE DEF at
  <2> QED
    BY <1>2, <1>7, <1>8, <1>9 DEF LinkedFile
<1> HIDE DEF at
<1>11. ASSUME NEW k \in 1 .. m, NEW i \in 1 .. blocks[k].size - 1, NEW c
       PROVE  /\ k \in 1 .. n /\ i \in 1 .. Len(blocks[k].entries)
              /\ Asks(blocks[k].page, blocks[k].entries, i, c) <=> Lists(f, k, i, c)
  <2>1. k \in 1 .. n
    OBVIOUS
  <2>2. PICK l \in Nat : l = Len(blocks[k].entries)
    BY <1>5, <2>1, LenProperties DEF BlockRecord
  <2>3. i \in 1 .. l
    BY <1>5, <2>1, <2>2
  <2> QED
    BY <2>1, <2>2, <2>3 DEF Asks, Lists
<1>12. ASSUME NEW k \in 1 .. m, NEW i \in 1 .. blocks[k].size - 1,
              NEW j \in 1 .. m, NEW l \in 1 .. blocks[j].size - 1, NEW c \in ImageCells(f),
              Asks(blocks[k].page, blocks[k].entries, i, c),
              Asks(blocks[j].page, blocks[j].entries, l, c)
       PROVE  j = k /\ l = i
  <2>1. /\ i \in 1 .. Len(blocks[k].entries) /\ Lists(f, k, i, c)
        /\ l \in 1 .. Len(blocks[j].entries) /\ Lists(f, j, l, c)
    BY <1>11, <1>12
  <2> QED
    BY <1>10, <2>1 DEF ListsPointersOnce
<1> DEFINE P == {k \in 0 .. m : \A c \in ImageCells(f) :
                   turn[k].cells[c] = cells[c] + IF AskedFor(f, k, c) THEN delta ELSE 0}
<1>13. 0 \in P
  <2>1. \A c : ~AskedFor(f, 0, c)
    BY DEF AskedFor
  <2>2. turn[0].cells = cells
    BY <1>3 DEF RelocationStart
  <2>3. \A c \in ImageCells(f) : cells[c] \in Int
    OBVIOUS
  <2>4. \A c \in ImageCells(f) : turn[0].cells[c] = cells[c] + IF AskedFor(f, 0, c) THEN delta ELSE 0
    BY <2>1, <2>2, <2>3
  <2> QED
    BY <2>4
<1>14. ASSUME NEW k \in 1 .. m, k - 1 \in P PROVE k \in P
  <2>1. BlockWalked(f, delta, turn[k - 1], blocks[k], turn[k])
    BY <1>4
  <2>2. BlockAsksOnce(f, blocks[k])
    BY <1>12 DEF BlockAsksOnce
  <2>3. ASSUME NEW c \in ImageCells(f)
        PROVE  turn[k].cells[c] = cells[c] + IF AskedFor(f, k, c) THEN delta ELSE 0
    <3>1. PICK a \in Int, b \in Int, d \in Int :
            a = cells[c] /\ b = turn[k - 1].cells[c] /\ d = turn[k].cells[c]
      <4>1. turn[k - 1] \in RelocationRecord(f) /\ turn[k] \in RelocationRecord(f)
        BY <1>3
      <4> QED
        BY <4>1 DEF RelocationRecord
    <3>2. b = a + IF AskedFor(f, k - 1, c) THEN delta ELSE 0
      BY <1>14, <3>1
    <3> DEFINE Here == \E i \in 1 .. blocks[k].size - 1 :
                         Asks(blocks[k].page, blocks[k].entries, i, c)
    <3>3. d = b + IF Here THEN delta ELSE 0
      BY <2>1, <2>2, <3>1 DEF BlockWalked
    <3>4. AskedFor(f, k, c) <=> AskedFor(f, k - 1, c) \/ Here
      <4>1. \A j : j \in 1 .. k <=> j \in 1 .. k - 1 \/ j = k
        OBVIOUS
      <4> QED
        BY <4>1 DEF AskedFor
    <3>5. ~(AskedFor(f, k - 1, c) /\ Here)
      <4> SUFFICES ASSUME NEW j \in 1 .. k - 1, NEW l \in 1 .. blocks[j].size - 1,
                          NEW i \in 1 .. blocks[k].size - 1,
                          Asks(blocks[j].page, blocks[j].entries, l, c),
                          Asks(blocks[k].page, blocks[k].entries, i, c)
                   PROVE  FALSE
        BY DEF AskedFor
      <4>1. j \in 1 .. m /\ j # k
        OBVIOUS
      <4> QED
        BY <1>12, <4>1
    <3> HIDE DEF Here
    <3>6. CASE Here
      <4>1. b = a /\ d = b + delta
        BY <3>1, <3>2, <3>3, <3>5, <3>6
      <4> QED
        BY <3>1, <3>4, <3>6, <4>1
    <3>7. CASE ~Here
      <4>1. d = b
        BY <3>1, <3>3, <3>7
      <4> QED
        BY <3>1, <3>2, <3>4, <3>7, <4>1
    <3> QED
      BY <3>6, <3>7
  <2> QED
    BY <2>3
<1>15. m \in P
  <2>1. P \subseteq 0 .. m /\ m \in Nat
    OBVIOUS
  <2> HIDE DEF P
  <2> QED
    BY <1>13, <1>14, <2>1, Iteration
<1>16. ASSUME NEW c \in ImageCells(f) PROVE AskedFor(f, m, c) <=> c \in f.pointers
  <2>1. ASSUME AskedFor(f, m, c) PROVE c \in f.pointers
    <3>1. PICK k \in 1 .. m : \E i \in 1 .. blocks[k].size - 1 :
            Asks(blocks[k].page, blocks[k].entries, i, c)
      BY <2>1 DEF AskedFor
    <3>2. PICK i \in 1 .. blocks[k].size - 1 : Asks(blocks[k].page, blocks[k].entries, i, c)
      BY <3>1
    <3> QED
      BY <1>10, <1>11, <3>2 DEF ListsPointersOnce
  <2>2. ASSUME c \in f.pointers PROVE AskedFor(f, m, c)
    <3>1. PICK k \in 1 .. m : \E i \in 1 .. Len(blocks[k].entries) : Lists(f, k, i, c)
      BY <1>10, <2>2 DEF ListsPointersOnce
    <3>2. PICK i : Lists(f, k, i, c)
      BY <3>1
    <3>3. i \in 1 .. blocks[k].size - 1 /\ Asks(blocks[k].page, blocks[k].entries, i, c)
      BY <3>2 DEF Lists, Asks
    <3> QED
      BY <3>3 DEF AskedFor
  <2> QED
    BY <2>1, <2>2
<1>17. /\ turn[n].cells \in [ImageCells(f) -> Int]
       /\ \A c \in ImageCells(f) :
            turn[n].cells[c] = cells[c] + IF c \in f.pointers THEN delta ELSE 0
  <2>1. turn[m].cells \in [ImageCells(f) -> Int]
    BY <1>3 DEF RelocationRecord
  <2>2. \A c \in ImageCells(f) :
          turn[m].cells[c] = cells[c] + IF AskedFor(f, m, c) THEN delta ELSE 0
    BY <1>15
  <2> QED
    BY <1>4, <1>16, <2>1, <2>2
<1> QED
  BY <1>2, <1>17

\* Two readings of a table add up the same sizes: one that goes on has room for
\* another block where the other ends.
LEMMA ReadingsAgree ==
  ASSUME NEW m \in Nat, NEW top \in Nat, m < top, NEW size \in Nat, NEW at, NEW walk, NEW step,
         walk[0] = at[0],
         \A k \in 0 .. top : at[k] \in 0 .. size,
         \A k \in 1 .. top : step[k] \in Nat /\ step[k] >= 1 /\ at[k] = at[k - 1] + step[k],
         \A k \in 1 .. m : walk[k] = walk[k - 1] + step[k]
  PROVE  walk[m] \in Nat /\ walk[m] + 1 <= size
<1> DEFINE P == {k \in 0 .. m : walk[k] = at[k]}
<1>1. 0 \in P
  OBVIOUS
<1>2. ASSUME NEW k \in 1 .. m, k - 1 \in P PROVE k \in P
  <2>1. k \in 1 .. top
    OBVIOUS
  <2> QED
    BY <1>2, <2>1
<1>3. m \in P
  <2>1. P \subseteq 0 .. m
    OBVIOUS
  <2> HIDE DEF P
  <2> QED
    BY <1>1, <1>2, <2>1, Iteration
<1>4. m + 1 \in 1 .. top /\ m + 1 - 1 = m /\ m \in 0 .. top /\ m + 1 \in 0 .. top
  OBVIOUS
<1>5. PICK a \in Nat, b \in Nat, c \in Nat :
        a = at[m] /\ b = at[m + 1] /\ c = step[m + 1] /\ c >= 1 /\ b = a + c /\ b <= size
  BY <1>4
<1>6. a + 1 <= size
  BY <1>5
<1> QED
  BY <1>3, <1>5, <1>6

\* The blocks a relocation that does not fail has gone through.
LEMMA WalkOfRelocations ==
  ASSUME NEW f, LinkedFile(f), TargetsBelowWrap(f), NEW delta \in Int,
         NEW cells \in [ImageCells(f) -> Int], ~Relocations(f, delta, cells).failed,
         NEW n \in Nat, n = Len(f.relocation.blocks)
  PROVE  \E turn : \E m \in 0 .. n :
           /\ turn[0] = RelocationStart(cells)
           /\ \A k \in 1 .. m :
                BlockWalked(f, delta, turn[k - 1], f.relocation.blocks[k], turn[k])
           /\ \/ m = n \/ turn[m].at + 1 > f.relocation.size
              \/ f.relocation.blocks[m + 1].page = 0
<1>1. PICK turn : IsWalk(f, delta, cells, turn)
  BY WalkExists
<1>2. ~turn[n].failed /\ turn[0] = RelocationStart(cells)
  BY <1>1 DEF IsWalk
<1>3. \E m \in 0 .. n :
        /\ \A k \in 1 .. m :
             BlockWalked(f, delta, turn[k - 1], f.relocation.blocks[k], turn[k])
        /\ turn[n].cells = turn[m].cells
        /\ \/ m = n \/ turn[m].at + 1 > f.relocation.size
           \/ f.relocation.blocks[m + 1].page = 0
  BY <1>1, <1>2, WalkEnds, Zenon
<1> QED
  BY <1>2, <1>3, Zenon

\* The walk goes through every table there is, so that a relocation that does not
\* fail has checked each of its targets.
LEMMA RelocationsInside ==
  ASSUME NEW f, LinkedFile(f), TargetsBelowWrap(f), NEW delta \in Int,
         NEW cells \in [ImageCells(f) -> Int], ~Relocations(f, delta, cells).failed,
         NEW top \in 0 .. Len(f.relocation.blocks), NEW at, IsTable(f, top, at),
         \A k \in 0 .. top : at[k] \in 0 .. f.relocation.size
  PROVE  ListsInside(f, top)
<1> DEFINE blocks == f.relocation.blocks
<1>1. PICK n \in Nat : n = Len(blocks)
  BY LenProperties DEF LinkedFile
<1>2. PICK turn : \E m \in 0 .. n :
        /\ turn[0] = RelocationStart(cells)
        /\ \A k \in 1 .. m : BlockWalked(f, delta, turn[k - 1], blocks[k], turn[k])
        /\ m = n \/ turn[m].at + 1 > f.relocation.size \/ blocks[m + 1].page = 0
  BY <1>1, WalkOfRelocations, Zenon
<1>3. PICK m \in 0 .. n :
        /\ turn[0] = RelocationStart(cells)
        /\ \A k \in 1 .. m : BlockWalked(f, delta, turn[k - 1], blocks[k], turn[k])
        /\ m = n \/ turn[m].at + 1 > f.relocation.size \/ blocks[m + 1].page = 0
  BY <1>2
<1>4. top \in Nat /\ top <= n /\ m \in Nat /\ m <= n
  BY <1>1
<1>5. \A k \in 1 .. n : blocks[k].size \in Nat
  <2>1. \A k \in 1 .. n : blocks[k] \in BlockRecord
    BY <1>1, ElementOfSeq DEF LinkedFile
  <2> QED
    BY <2>1 DEF BlockRecord
<1>6. \A k \in 1 .. top : /\ blocks[k].size >= 1 /\ blocks[k].page # 0
                          /\ at[k] = at[k - 1] + blocks[k].size
  BY DEF IsTable
<1>7. ASSUME m < top PROVE FALSE
  <2>0. PICK size \in Nat : size = f.relocation.size
    BY DEF LinkedFile
  <2> DEFINE walk == [k \in 0 .. m |-> turn[k].at]
             step == [k \in 1 .. top |-> blocks[k].size]
  <2>1. walk[0] = at[0]
    BY <1>3, <1>4 DEF IsTable, RelocationStart
  <2>2. ASSUME NEW k \in 1 .. top
        PROVE  step[k] \in Nat /\ step[k] >= 1 /\ at[k] = at[k - 1] + step[k]
    <3>1. k \in 1 .. n
      BY <1>4
    <3> QED
      BY <1>5, <1>6, <3>1
  <2>3. ASSUME NEW k \in 1 .. m PROVE walk[k] = walk[k - 1] + step[k]
    <3>1. k \in 0 .. m /\ k - 1 \in 0 .. m /\ k \in 1 .. top
      BY <1>4, <1>7
    <3>2. turn[k].at = turn[k - 1].at + blocks[k].size
      BY <1>3 DEF BlockWalked
    <3> QED
      BY <3>1, <3>2
  <2>4. walk[m] = turn[m].at
    BY <1>4
  <2>5. walk[m] \in Nat /\ walk[m] + 1 <= size
    <3> HIDE DEF walk, step
    <3>1. \A k \in 0 .. top : at[k] \in 0 .. size
      BY <2>0
    <3>2. \A k \in 1 .. top :
            step[k] \in Nat /\ step[k] >= 1 /\ at[k] = at[k - 1] + step[k]
      BY <2>2, Zenon
    <3>3. \A k \in 1 .. m : walk[k] = walk[k - 1] + step[k]
      BY <2>3, Zenon
    <3>4. m \in Nat /\ top \in Nat
      BY <1>4
    <3> QED
      BY <1>7, <2>1, <3>1, <3>2, <3>3, <3>4, ReadingsAgree, Zenon
  <2>6. m # n /\ m + 1 \in 1 .. top
    BY <1>4, <1>7
  <2>7. blocks[m + 1].page # 0
    BY <1>6, <2>6
  <2> HIDE DEF walk, step
  <2>8. ~(turn[m].at + 1 > f.relocation.size)
    BY <2>0, <2>4, <2>5
  <2> QED
    BY <1>3, <2>6, <2>7, <2>8
<1> SUFFICES ASSUME NEW k \in 1 .. top, NEW i \in 1 .. Len(blocks[k].entries), NEW p,
                    p = blocks[k].page + blocks[k].entries[i].offset, Lists(f, k, i, p)
             PROVE  p < f.sizeOfImage
  BY DEF ListsInside
<1>8. k \in 1 .. m
  BY <1>4, <1>7
<1>9. BlockWalked(f, delta, turn[k - 1], blocks[k], turn[k])
  BY <1>3, <1>8
<1>10. i \in 1 .. blocks[k].size - 1 /\ blocks[k].entries[i].type = "DIR64"
  BY DEF Lists
<1> QED
  BY <1>9, <1>10 DEF BlockWalked

----------------------------------------------------------------------------
(* The image *)

\* What cell c holds when the headers and the first k sections are copied.
Copied(f, k, c, v) ==
  /\ \A i \in 1 .. k :
       c \in Cells(f.sections[i].address, f.sections[i].rawSize)
         => v = f.sections[i].raw + (c - f.sections[i].address) + 1
  /\ (\A i \in 1 .. k : c \notin Cells(f.sections[i].address, f.sections[i].rawSize))
       => v = IF c < f.sizeOfHeaders THEN c + 1 ELSE 0

\* The first k sections lie in the image and have got the protection their
\* headers ask for.
Protected(f, k, p) ==
  \A i \in 1 .. k :
    \A c \in Cells(f.sections[i].address, f.sections[i].virtualSize) :
      /\ c \in ImageCells(f)
      /\ p[c] = GetMemoryProtection(f.sections[i].characteristics)

\* Every cell of the image holds what it was meant to hold at the base, and no
\* target outside was applied, unless a relocation target wraps.
HoldsImage(cells) ==
  TargetsBelowWrap(dll) =>
    /\ \A c \in ImageCells(dll) : cells[c] = Meant(dll, c, base)
    /\ base = dll.imageBase \/ TargetsInside(dll)

\* How far the image has come at each step.
ImageInv ==
  /\ mapStep # "idle" => dll \in DllFiles
  /\ mapStep \in {"idle", "opened", "sized", "allocated", "read", "reserved"} => index = 1
  /\ mapStep \in {"copying", "protecting"} => index \in 1 .. Len(dll.sections) + 1
  /\ mapStep = "copying" =>
       /\ local \in [ImageCells(dll) -> Int]
       /\ \A c \in ImageCells(dll) : Copied(dll, index - 1, c, local[c])
  /\ mapStep = "relocated" => HoldsImage(local)
  /\ mapStep = "protecting" => HoldsImage(remote) /\ Protected(dll, index - 1, protection)
  /\ mapStep = "returned" /\ base # 0 =>
       HoldsImage(remote) /\ Protected(dll, Len(dll.sections), protection)

\* Nothing has been mapped at the start.
LEMMA ImageInit == StartupInit => ImageInv
BY DEF StartupInit, MapperInit, ImageInv

\* A section that is copied leaves the others as they are.
LEMMA CopyKeeps ==
  ASSUME NEW f, LinkedFile(f), NEW i \in 1 .. Len(f.sections), NEW c \in ImageCells(f),
         NEW v \in Int, Copied(f, i - 1, c, v), NEW w,
         w = IF c \in Cells(f.sections[i].address, f.sections[i].rawSize)
             THEN f.sections[i].raw + (c - f.sections[i].address) + 1 ELSE v
  PROVE  w \in Int /\ Copied(f, i, c, w)
<1>1. PICK n \in Nat : n = Len(f.sections)
  BY LenProperties DEF LinkedFile
<1>2. f.sections[i] \in SectionRecord
  BY ElementOfSeq DEF LinkedFile
<1>3. c \in Int
  BY DEF LinkedFile, ImageCells, Cells
<1>4. w \in Int
  BY <1>2, <1>3 DEF SectionRecord
<1>5. \A j : j \in 1 .. i <=> j \in 1 .. i - 1 \/ j = i
  BY <1>1
<1>6. CASE c \in Cells(f.sections[i].address, f.sections[i].rawSize)
  <2>1. ASSUME NEW j \in 1 .. i - 1, c \in Cells(f.sections[j].address, f.sections[j].rawSize)
        PROVE  FALSE
    <3>1. j \in 1 .. Len(f.sections) /\ j # i
      BY <1>1
    <3>2. Cells(f.sections[j].address, f.sections[j].rawSize)
            \cap Cells(f.sections[i].address, f.sections[i].rawSize) = {}
      BY <3>1 DEF LinkedFile, SectionsApart
    <3> QED
      BY <1>6, <2>1, <3>2
  <2>2. i \in 1 .. i
    BY <1>1
  <2> QED
    BY <1>4, <1>5, <1>6, <2>1, <2>2 DEF Copied
<1>7. CASE c \notin Cells(f.sections[i].address, f.sections[i].rawSize)
  <2>1. w = v
    BY <1>7
  <2>2. \A j \in 1 .. i : c \in Cells(f.sections[j].address, f.sections[j].rawSize) => j \in 1 .. i - 1
    BY <1>5, <1>7
  <2>3. (\A j \in 1 .. i : c \notin Cells(f.sections[j].address, f.sections[j].rawSize))
          <=> (\A j \in 1 .. i - 1 : c \notin Cells(f.sections[j].address, f.sections[j].rawSize))
    BY <1>5, <1>7
  <2> QED
    BY <1>4, <2>1, <2>2, <2>3 DEF Copied
<1> QED
  BY <1>6, <1>7

\* What is copied, and moved where it is a pointer, is what the linker meant.
LEMMA CopiedIsMeant ==
  ASSUME NEW f, LinkedFile(f), NEW c \in ImageCells(f), NEW b \in Int, NEW v \in Int,
         Copied(f, Len(f.sections), c, v)
  PROVE  Meant(f, c, b) = v + IF c \in f.pointers THEN b - f.imageBase ELSE 0
<1> DEFINE owner == {s \in ToSet(f.sections) : c \in Cells(s.address, s.rawSize)}
           content == IF owner # {}
                      THEN LET s == CHOOSE s \in owner : TRUE
                           IN  s.raw + (c - s.address) + 1
                      ELSE IF c < f.sizeOfHeaders THEN c + 1 ELSE 0
<1>1. PICK n \in Nat : n = Len(f.sections) /\ DOMAIN f.sections = 1 .. n
  BY LenProperties DEF LinkedFile
<1>2. content = v
  <2>1. CASE owner # {}
    <3>1. PICK s : s = (CHOOSE o \in owner : TRUE) /\ s \in owner
      BY <2>1
    <3>2. PICK i \in 1 .. n : s = f.sections[i]
      BY <1>1, <3>1 DEF ToSet
    <3>3. v = s.raw + (c - s.address) + 1
      BY <1>1, <3>1, <3>2 DEF Copied
    <3>4. content = s.raw + (c - s.address) + 1
      BY <2>1, <3>1
    <3> QED
      BY <3>3, <3>4
  <2>2. CASE owner = {}
    <3>1. \A i \in 1 .. n : c \notin Cells(f.sections[i].address, f.sections[i].rawSize)
      BY <1>1, <2>2 DEF ToSet
    <3> QED
      BY <1>1, <2>2, <3>1 DEF Copied
  <2> QED
    BY <2>1, <2>2
<1>3. Meant(f, c, b) = content + IF c \in f.pointers THEN b - f.imageBase ELSE 0
  BY Zenon DEF Meant
<1> HIDE DEF content
<1> QED
  BY <1>2, <1>3

\* A DLL without relocations has no pointers to move.
LEMMA NoTable ==
  ASSUME NEW f, LinkedFile(f), f.relocation.size = 0
  PROVE  f.pointers = {}
<1> DEFINE at == [k \in 0 .. 0 |-> 0]
<1>1. at \in [0 .. 0 -> 0 .. f.relocation.size] /\ at[0] = 0
  OBVIOUS
<1>2. PICK n \in Nat : n = Len(f.relocation.blocks)
  BY LenProperties DEF LinkedFile
<1> HIDE DEF at
<1>3. IsTable(f, 0, at) /\ ListsInside(f, 0)
  BY <1>1 DEF IsTable, ListsInside
<1>4. 0 \in 0 .. Len(f.relocation.blocks)
  BY <1>2
<1>5. ListsPointersOnce(f, 0)
  BY <1>1, <1>3, <1>4 DEF LinkedFile
<1> QED
  BY <1>5 DEF ListsPointersOnce

\* An early return leaves nothing that could be incomplete.
LEMMA ReturnNullImage ==
  ASSUME ImageInv, mapStep # "idle", NEW freed, ReturnNull(freed)
  PROVE  ImageInv'
BY DEF ReturnNull, ImageInv, memoryVars

\* Nor does giving up later.
LEMMA AbandonImage ==
  ASSUME ImageInv, mapStep # "idle", Abandon
  PROVE  ImageInv'
BY ReturnNullImage DEF Abandon

\* CopySection adds one section.
LEMMA CopySectionImage ==
  ASSUME ImageInv, CopySection
  PROVE  ImageInv'
<1>1. mapStep = "copying" /\ dll \in DllFiles /\ index <= Len(dll.sections)
  BY DEF CopySection, ImageInv
<1>2. LinkedFile(dll)
  BY <1>1, LinkedFiles
<1>3. PICK n \in Nat : n = Len(dll.sections)
  BY <1>2, LenProperties DEF LinkedFile
<1>4. /\ index \in 1 .. n /\ local \in [ImageCells(dll) -> Int]
      /\ \A c \in ImageCells(dll) : Copied(dll, index - 1, c, local[c])
  BY <1>1, <1>3 DEF ImageInv
<1>5. CASE Abandon
  BY <1>1, <1>5, AbandonImage
<1>6. CASE ~Abandon
  <2>1. PICK s : s = dll.sections[index]
    OBVIOUS
  <2>2. /\ local' = [p \in ImageCells(dll) |->
                       IF p \in Cells(s.address, s.rawSize)
                       THEN s.raw + (p - s.address) + 1 ELSE local[p]]
        /\ index' = index + 1 /\ UNCHANGED <<mapStep, held, dll, base, remote, protection>>
    BY <1>6, <2>1 DEF CopySection
  <2>3. ASSUME NEW c \in ImageCells(dll)
        PROVE  local'[c] \in Int /\ Copied(dll, index, c, local'[c])
    <3>1. PICK v \in Int : v = local[c] /\ Copied(dll, index - 1, c, v)
      BY <1>4
    <3>2. PICK w : w = local'[c]
      OBVIOUS
    <3>3. w = IF c \in Cells(dll.sections[index].address, dll.sections[index].rawSize)
              THEN dll.sections[index].raw + (c - dll.sections[index].address) + 1 ELSE v
      BY <2>1, <2>2, <3>1, <3>2
    <3>4. index \in 1 .. Len(dll.sections)
      BY <1>3, <1>4
    <3> QED
      BY <1>2, <3>1, <3>2, <3>3, <3>4, CopyKeeps
  <2>4. local' \in [ImageCells(dll) -> Int]
    <3>1. DOMAIN local' = ImageCells(dll) /\ local' = [c \in DOMAIN local' |-> local'[c]]
      BY <2>2
    <3> QED
      BY <2>3, <3>1
  <2>5. index' - 1 = index /\ index' \in 1 .. n + 1
    BY <1>4, <2>2
  <2> QED
    BY <1>1, <1>3, <2>2, <2>3, <2>4, <2>5 DEF ImageInv
<1> QED
  BY <1>5, <1>6

\* What Relocate has applied lists no target outside the image.
LEMMA RelocateRefuses ==
  ASSUME ImageInv, InjectInv, Relocate
  PROVE  mapStep' = "relocated" /\ TargetsBelowWrap(dll)
           => base = dll.imageBase \/ TargetsInside(dll)
<1>1. mapStep = "copying" /\ dll \in DllFiles /\ local \in [ImageCells(dll) -> Int]
  BY DEF Relocate, ImageInv
<1>2. LinkedFile(dll)
  BY <1>1, LinkedFiles
<1>3. base \in Int /\ dll.imageBase \in Nat /\ dll.relocation.size \in Nat
  <2>1. LoadBases \subseteq Int
    BY MapperAssumption
  <2>2. base \in Int
    BY <2>1 DEF InjectInv
  <2>3. {dll.sizeOfImage, dll.imageBase} \subseteq Nat /\ dll.relocation.size \in Nat
    BY <1>2, Zenon DEF LinkedFile
  <2> QED
    BY <2>2, <2>3
<1> SUFFICES ASSUME mapStep' = "relocated", base # dll.imageBase, TargetsBelowWrap(dll),
                    NEW n \in 0 .. Len(dll.relocation.blocks),
                    NEW at \in [0 .. n -> 0 .. dll.relocation.size], IsTable(dll, n, at)
             PROVE  ListsInside(dll, n)
  BY DEF TargetsInside
<1>4. \/ base - dll.imageBase = 0 \/ ~(dll.relocation.size > 0)
      \/ ~Relocations(dll, base - dll.imageBase, local).failed
  BY DEF Relocate, Abandon, ReturnNull
<1>5. base - dll.imageBase \in Int /\ base - dll.imageBase # 0
  BY <1>3, <1>4
<1>6. CASE dll.relocation.size > 0
  BY <1>1, <1>2, <1>4, <1>5, <1>6, RelocationsInside
<1>7. CASE dll.relocation.size = 0
  <2>1. ASSUME n # 0 PROVE FALSE
    <3>1. PICK last \in Nat : last = Len(dll.relocation.blocks)
      BY <1>2, LenProperties DEF LinkedFile
    <3>2. 0 \in 0 .. n /\ 1 \in 0 .. n /\ 1 \in 1 .. n /\ 1 - 1 = 0 /\ 1 \in 1 .. last
      BY <1>4, <2>1, <3>1
    <3>3. at[0] = 0 /\ at[1] = 0
      BY <1>4, <1>7, <3>2
    <3>4. dll.relocation.blocks[1].size >= 1 /\ at[1] = at[0] + dll.relocation.blocks[1].size
      BY <1>4, <3>2 DEF IsTable
    <3>5. dll.relocation.blocks[1] \in BlockRecord
      BY <1>2, <3>1, <3>2, ElementOfSeq DEF LinkedFile
    <3>6. dll.relocation.blocks[1].size \in Nat
      BY <3>5 DEF BlockRecord
    <3> QED
      BY <3>3, <3>4, <3>6
  <2> QED
    BY <2>1 DEF ListsInside
<1> QED
  BY <1>3, <1>6, <1>7

\* Relocate turns what was copied into what was meant.
LEMMA RelocateImage ==
  ASSUME ImageInv, InjectInv, Relocate
  PROVE  ImageInv'
<1>1. mapStep = "copying" /\ dll \in DllFiles /\ index > Len(dll.sections)
  BY DEF Relocate, ImageInv
<1>2. LinkedFile(dll)
  BY <1>1, LinkedFiles
<1>3. PICK n \in Nat : n = Len(dll.sections)
  BY <1>2, LenProperties DEF LinkedFile
<1>4. /\ index - 1 = n /\ local \in [ImageCells(dll) -> Int]
      /\ \A c \in ImageCells(dll) : Copied(dll, n, c, local[c])
  <2>1. index \in 1 .. n + 1
    BY <1>1, <1>3 DEF ImageInv
  <2>2. index - 1 = n
    BY <1>1, <1>3, <2>1
  <2> QED
    BY <1>1, <2>2 DEF ImageInv
<1>5. base \in Int /\ dll.imageBase \in Nat /\ dll.relocation.size \in Nat
  <2>1. LoadBases \subseteq Int
    BY MapperAssumption
  <2>2. base \in Int
    BY <2>1 DEF InjectInv
  <2>3. {dll.sizeOfImage, dll.imageBase} \subseteq Nat /\ dll.relocation.size \in Nat
    BY <1>2, Zenon DEF LinkedFile
  <2> QED
    BY <2>2, <2>3
<1>6. CASE Abandon
  BY <1>1, <1>6, AbandonImage
<1>c. CASE mapStep' = "crashed" /\ UNCHANGED <<dll, index>>
  BY <1>1, <1>c DEF ImageInv
<1>7. CASE ~Abandon /\ mapStep' # "crashed"
  <2>1. PICK delta \in Int : delta = base - dll.imageBase
    BY <1>5
  <2>2. PICK r : r = Relocations(dll, delta, local)
    OBVIOUS
  <2> DEFINE needed == delta # 0 /\ dll.relocation.size > 0
  <2>4. /\ ~needed \/ ~r.failed
        /\ local' = IF needed THEN r.cells ELSE local
        /\ mapStep' = "relocated" /\ UNCHANGED <<held, dll, base, index, remote, protection>>
    BY <1>7, <2>1, <2>2 DEF Relocate
  <2>5. ASSUME TargetsBelowWrap(dll), NEW c \in ImageCells(dll)
        PROVE  local'[c] = local[c] + IF c \in dll.pointers THEN delta ELSE 0
    <3>0. local[c] \in Int
      BY <1>4
    <3>1. CASE needed
      <4>1. ~Relocations(dll, delta, local).failed
        BY <2>2, <2>4, <3>1
      <4>2. r.cells[c] = local[c] + IF c \in dll.pointers THEN delta ELSE 0
        BY <1>2, <1>4, <2>2, <2>5, <4>1, RelocationsMove
      <4> QED
        BY <2>4, <3>1, <4>2
    <3>2. CASE delta = 0
      BY <2>4, <3>0, <3>2
    <3>3. CASE dll.relocation.size = 0
      <4>1. c \notin dll.pointers
        BY <1>2, <3>3, NoTable
      <4> QED
        BY <2>4, <3>0, <3>3, <4>1
    <3> QED
      BY <1>5, <3>1, <3>2, <3>3
  <2>6. ASSUME TargetsBelowWrap(dll), NEW c \in ImageCells(dll)
        PROVE  local'[c] = Meant(dll, c, base)
    <3>1. PICK v \in Int : v = local[c] /\ Copied(dll, Len(dll.sections), c, v)
      BY <1>3, <1>4
    <3>2. Meant(dll, c, base) = v + IF c \in dll.pointers THEN base - dll.imageBase ELSE 0
      BY <1>2, <1>5, <3>1, CopiedIsMeant
    <3> QED
      BY <2>1, <2>5, <2>6, <3>1, <3>2
  <2>7. TargetsBelowWrap(dll) => base = dll.imageBase \/ TargetsInside(dll)
    BY <2>4, RelocateRefuses
  <2> QED
    BY <1>1, <2>4, <2>6, <2>7 DEF ImageInv, HoldsImage
<1> QED
  BY <1>6, <1>c, <1>7 DEF Relocate

\* WriteImage takes it to the target.
LEMMA WriteImageImage ==
  ASSUME ImageInv, WriteImage
  PROVE  ImageInv'
<1>1. mapStep = "relocated" /\ dll \in DllFiles
  BY DEF WriteImage, ImageInv
<1>2. CASE Abandon
  BY <1>1, <1>2, AbandonImage
<1>3. CASE /\ remote' = local /\ mapStep' = "protecting" /\ index' = 1
           /\ UNCHANGED <<held, dll, base, local, protection>>
  <2>1. PICK n \in Nat : n = Len(dll.sections)
    BY <1>1, LinkedFiles, LenProperties DEF LinkedFile
  <2>2. Protected(dll, index' - 1, protection) /\ index' \in 1 .. n + 1
    BY <1>3 DEF Protected
  <2> QED
    BY <1>1, <1>3, <2>1, <2>2 DEF ImageInv, HoldsImage
<1> QED
  BY <1>2, <1>3 DEF WriteImage

\* ProtectSection protects one more section.
LEMMA ProtectSectionImage ==
  ASSUME ImageInv, ProtectSection
  PROVE  ImageInv'
<1>1. /\ mapStep = "protecting" /\ dll \in DllFiles /\ index <= Len(dll.sections)
      /\ HoldsImage(remote) /\ Protected(dll, index - 1, protection)
  BY DEF ProtectSection, ImageInv
<1>2. LinkedFile(dll)
  BY <1>1, LinkedFiles
<1>3. PICK n \in Nat : n = Len(dll.sections)
  BY <1>2, LenProperties DEF LinkedFile
<1>4. index \in 1 .. n
  BY <1>1, <1>3 DEF ImageInv
<1>5. CASE Abandon
  BY <1>1, <1>5, AbandonImage
<1>6. CASE ~Abandon
  <2>1. PICK s : s = dll.sections[index]
    OBVIOUS
  <2>2. /\ protection' = [p \in ImageCells(dll) |->
                            IF p \in Cells(s.address, s.virtualSize)
                            THEN GetMemoryProtection(s.characteristics) ELSE protection[p]]
        /\ index' = index + 1 /\ UNCHANGED <<mapStep, held, dll, base, local, remote>>
    BY <1>6, <2>1 DEF ProtectSection
  <2>a. dll.sections[index] \in SectionRecord /\ dll.sizeOfImage \in Nat
    BY <1>2, <1>3, <1>4, ElementOfSeq DEF LinkedFile
  <2>b. s.virtualSize > 0 => IsRangeWithin(s.address, s.virtualSize, dll.sizeOfImage)
    BY <1>6, <2>1 DEF ProtectSection
  <2>c. Cells(s.address, s.virtualSize) \subseteq ImageCells(dll)
    BY <2>1, <2>a, <2>b DEF Cells, ImageCells, IsRangeWithin, SectionRecord
  <2>3. ASSUME NEW i \in 1 .. index,
               NEW c \in Cells(dll.sections[i].address, dll.sections[i].virtualSize)
        PROVE  /\ c \in ImageCells(dll)
               /\ protection'[c] = GetMemoryProtection(dll.sections[i].characteristics)
    <3>1. CASE i = index
      BY <2>1, <2>2, <2>c, <3>1
    <3>2. CASE i # index
      <4>1. i \in 1 .. index - 1 /\ i \in 1 .. Len(dll.sections) /\ index \in 1 .. Len(dll.sections)
        BY <1>3, <1>4, <3>2
      <4>2. c \notin Cells(s.address, s.virtualSize)
        BY <1>2, <2>1, <3>2, <4>1 DEF LinkedFile, SectionsApart
      <4>3. c \in ImageCells(dll) /\ protection[c] = GetMemoryProtection(dll.sections[i].characteristics)
        BY <1>1, <4>1 DEF Protected
      <4> QED
        BY <2>2, <4>2, <4>3
    <3> QED
      BY <3>1, <3>2
  <2>4. index' - 1 = index /\ index' \in 1 .. n + 1
    BY <1>4, <2>2
  <2>5. Protected(dll, index' - 1, protection')
    BY <2>3, <2>4 DEF Protected
  <2> QED
    BY <1>1, <1>3, <2>2, <2>4, <2>5 DEF ImageInv, HoldsImage
<1> QED
  BY <1>5, <1>6

\* The return is reached behind the last section.
LEMMA FlushImage ==
  ASSUME ImageInv, FlushAndReturn
  PROVE  ImageInv'
<1>1. /\ mapStep = "protecting" /\ dll \in DllFiles /\ index > Len(dll.sections)
      /\ HoldsImage(remote) /\ Protected(dll, index - 1, protection)
  BY DEF FlushAndReturn, ImageInv
<1>2. CASE Abandon
  BY <1>1, <1>2, AbandonImage
<1>3. CASE Proceed("returned")
  <2>1. PICK n \in Nat : n = Len(dll.sections)
    BY <1>1, LinkedFiles, LenProperties DEF LinkedFile
  <2>2. index - 1 = Len(dll.sections)
    BY <1>1, <2>1 DEF ImageInv
  <2>3. Protected(dll, Len(dll.sections), protection)
    BY <1>1, <2>2
  <2> QED
    BY <1>1, <1>3, <2>3 DEF ImageInv, Proceed, memoryVars, HoldsImage
<1> QED
  BY <1>2, <1>3 DEF FlushAndReturn

\* The steps before anything is copied.
LEMMA AllocateImage ==
  ASSUME ImageInv, CheckFileSize \/ AllocateBuffer \/ ReadDll \/ AllocateRemote
  PROVE  ImageInv'
<1>1. mapStep \in {"opened", "sized", "allocated", "read"} /\ dll \in DllFiles /\ index = 1
  BY DEF ImageInv, CheckFileSize, AllocateBuffer, ReadDll, AllocateRemote
<1>2. CASE \E freed : ReturnNull(freed)
  BY <1>1, <1>2, ReturnNullImage
<1>3. CASE \/ Proceed("sized") \/ Proceed("allocated") \/ Proceed("read")
           \/ mapStep' = "reserved" /\ UNCHANGED <<dll, index>>
  BY <1>1, <1>3 DEF ImageInv, Proceed
<1> QED
  BY <1>2, <1>3 DEF CheckFileSize, AllocateBuffer, ReadDll, AllocateRemote

\* AllocateLocal copies the headers.
LEMMA AllocateLocalImage ==
  ASSUME ImageInv, AllocateLocal
  PROVE  ImageInv'
<1>1. mapStep = "reserved" /\ dll \in DllFiles /\ index = 1
  BY DEF ImageInv, AllocateLocal
<1>2. CASE ReturnNull({"remote", "buffer"})
  BY <1>1, <1>2, ReturnNullImage
<1>3. CASE /\ mapStep' = "copying"
           /\ local' = [p \in ImageCells(dll) |->
                          IF p < dll.sizeOfHeaders THEN p + 1 ELSE 0]
           /\ UNCHANGED <<dll, base, index, remote, protection>>
  <2>1. LinkedFile(dll)
    BY <1>1, LinkedFiles
  <2>2. \A c \in ImageCells(dll) : c \in Int
    BY <2>1 DEF LinkedFile, ImageCells, Cells
  <2>3. local' \in [ImageCells(dll) -> Int]
    BY <1>3, <2>2
  <2>4. \A c \in ImageCells(dll) : Copied(dll, 0, c, local'[c])
    BY <1>3 DEF Copied
  <2>5. PICK n \in Nat : n = Len(dll.sections)
    BY <2>1, LenProperties DEF LinkedFile
  <2>6. index' - 1 = 0 /\ index' \in 1 .. n + 1
    BY <1>1, <1>3
  <2> QED
    BY <1>1, <1>3, <2>3, <2>4, <2>5, <2>6 DEF ImageInv
<1> QED
  BY <1>2, <1>3 DEF AllocateLocal

\* Every step of wmain carries the image on.
LEMMA ImageStep ==
  ASSUME ImageInv, InjectInv, [StartupNext]_startVars
  PROVE  ImageInv'
<1>1. CASE UNCHANGED mapperVars
  BY <1>1 DEF mapperVars, ImageInv, HoldsImage
<1>2. CASE BeginInject
  <2>1. PICK f \in DllFiles : OpenDll(f)
    BY <1>2 DEF BeginInject
  <2> QED
    BY <2>1 DEF OpenDll, ImageInv, InjectInv, Reserved
<1>3. CASE Inject
  BY <1>3, AllocateImage, AllocateLocalImage, CopySectionImage, RelocateImage,
     WriteImageImage, ProtectSectionImage, FlushImage DEF Inject, MapperStep
<1> QED
  BY <1>1, <1>2, <1>3 DEF StartupNext, startVars, ParseWithoutHooks, Discover,
     ParseWithHooks, Run, Attach, CheckMapping, Resolve, ResolveHandlers

\* The rights that a protection gives are those the header asked for, and the
\* right to read what may be written.
LEMMA RightsAsAsked ==
  ASSUME NEW c \in SUBSET {"execute", "read", "write"}
  PROVE  Rights(GetMemoryProtection(c)) = c \cup IF "write" \in c THEN {"read"} ELSE {}
<1>1. CASE "execute" \in c /\ "write" \in c
  BY <1>1 DEF Rights, GetMemoryProtection
<1>2. CASE "execute" \in c /\ "write" \notin c
  BY <1>2 DEF Rights, GetMemoryProtection
<1>3. CASE "execute" \notin c /\ "write" \in c
  BY <1>3 DEF Rights, GetMemoryProtection
<1>4. CASE "execute" \notin c /\ "write" \notin c
  BY <1>4 DEF Rights, GetMemoryProtection
<1> QED
  BY <1>1, <1>2, <1>3, <1>4

\* What a returned image grants.
LEMMA SectionRights ==
  ASSUME ImageInv, mapStep = "returned", base # 0, NEW i \in 1 .. Len(dll.sections),
         NEW c \in Cells(dll.sections[i].address, dll.sections[i].virtualSize)
  PROVE  Rights(protection[c])
           = dll.sections[i].characteristics
               \cup IF "write" \in dll.sections[i].characteristics THEN {"read"} ELSE {}
<1>1. /\ LinkedFile(dll)
      /\ protection[c] = GetMemoryProtection(dll.sections[i].characteristics)
  BY LinkedFiles DEF ImageInv, Protected
<1>2. dll.sections[i] \in SectionRecord
  BY <1>1, ElementOfSeq DEF LinkedFile
<1>3. dll.sections[i].characteristics \in SUBSET {"execute", "read", "write"}
  BY <1>2 DEF SectionRecord
<1> QED
  BY <1>1, <1>3, RightsAsAsked

\* Whatever the file, the base and the calls that fail, at every step of InjectDll:
\* the sections copied so far are in the local image, from the relocation on every
\* pointer has been moved once unless a target wraps modulo a DWORD, and the
\* sections protected so far have what their headers ask for.
THEOREM ImageInvariant == StartupSpec => [](WmainInv /\ InjectInv /\ ImageInv)
<1>1. StartupInit => ImageInv
  BY ImageInit
<1>2. ImageInv /\ InjectInv /\ [StartupNext]_startVars => ImageInv'
  BY ImageStep
<1> QED
  BY <1>1, <1>2, WmainInvariant, PTL DEF StartupSpec

\* Whatever the file, the base and the calls that fail: an image whose address is
\* returned has each section protected as its header asks; and is complete, each
\* pointer moved once and no target outside the image accepted, if no relocation
\* target wraps in the 32-bit sum of the check (ReflectiveDLLInject).
THEOREM MappedImage == StartupSpec => []ImageComplete
<1>1. ImageInv => ImageComplete
  <2> SUFFICES ASSUME ImageInv, mapStep = "returned", base # 0
               PROVE  /\ TargetsBelowWrap(dll) =>
                           /\ \A c \in ImageCells(dll) : remote[c] = Meant(dll, c, base)
                           /\ base = dll.imageBase \/ TargetsInside(dll)
                      /\ \A s \in ToSet(dll.sections), c \in ImageCells(dll) :
                           c \in Cells(s.address, s.virtualSize) =>
                             Rights(protection[c])
                               = s.characteristics \cup IF "write" \in s.characteristics
                                                        THEN {"read"} ELSE {}
    BY DEF ImageComplete
  <2>1. TargetsBelowWrap(dll) =>
          /\ \A c \in ImageCells(dll) : remote[c] = Meant(dll, c, base)
          /\ base = dll.imageBase \/ TargetsInside(dll)
    BY DEF ImageInv, HoldsImage
  <2>2. ASSUME NEW s \in ToSet(dll.sections), NEW c \in ImageCells(dll),
               c \in Cells(s.address, s.virtualSize)
        PROVE  Rights(protection[c])
                 = s.characteristics \cup IF "write" \in s.characteristics
                                          THEN {"read"} ELSE {}
    <3>1. dll.sections \in Seq(SectionRecord)
      BY LinkedFiles DEF ImageInv, LinkedFile
    <3>2. PICK i \in 1 .. Len(dll.sections) : s = dll.sections[i]
      BY <3>1, LenProperties DEF ToSet
    <3> QED
      BY <2>2, <3>2, SectionRights
  <2> QED
    BY <2>1, <2>2
<1> QED
  BY <1>1, ImageInvariant, PTL

\* An export that is found is at the place of its name.
LEMMA ExportAtPlace ==
  ASSUME NEW f, LinkedFile(f), NEW name, NEW unread,
         GetRemoteExport(f, name, unread) # NoAddress
  PROVE  GetRemoteExport(f, name, unread) = f.places[name]
<1> DEFINE I == {i \in 1 .. Len(f.names) : f.names[i] = name /\ f.names[i] \notin unread}
<1>1. Len(f.names) \in Nat
  BY LenProperties DEF LinkedFile
<1>2. CASE I = {}
  <2>1. GetRemoteExport(f, name, unread) = NoAddress
    BY <1>2 DEF GetRemoteExport, SelectInSeq
  <2> QED
    BY <2>1
<1>3. CASE I # {}
  <2>1. PICK m \in I : \A i \in I : m <= i
    <3>1. I \subseteq Nat
      BY <1>1
    <3> HIDE DEF I
    <3> QED
      BY <1>3, <3>1, LeastNumber
  <2>2. Min(I) \in I
    <3> HIDE DEF I
    <3> QED
      BY <2>1 DEF Min
  <2>3. PICK k \in 1 .. Len(f.names) : k = Min(I) /\ f.names[k] = name /\ k # 0
    <3>1. PICK k : k = Min(I) /\ k \in I
      BY <2>2
    <3>2. k \in 1 .. Len(f.names) /\ f.names[k] = name
      BY <3>1
    <3>3. k # 0
      BY <1>1, <3>2
    <3> HIDE DEF I
    <3> QED
      BY <3>1, <3>2, <3>3
  <2>4. GetRemoteExport(f, name, unread)
          = IF \/ k = 0 \/ f.ordinals[k] > Len(f.functions)
               \/ IsForwarder(f, f.functions[f.ordinals[k]])
            THEN NoAddress ELSE f.functions[f.ordinals[k]]
    BY <1>3, <2>3 DEF GetRemoteExport, SelectInSeq
  <2> QED
    BY <2>3, <2>4 DEF LinkedFile, NamesLead
<1> QED
  BY <1>2, <1>3

\* Whatever cannot be read back: a hook that is going to be installed jumps to its
\* own handler, in memory that may be executed, and keeps its trampoline in its
\* own variable (HookFunction, GetRemoteExport).
THEOREM ReachableHandlers == StartupSpec => []HandlersReachable
<1>1. WmainInv /\ InjectInv /\ ImageInv => HandlersReachable
  <2> SUFFICES ASSUME WmainInv, ImageInv, NEW r \in ToSet(resolved),
                      {r.handler, r.trampoline} \cap {NoAddress} = {}
               PROVE  /\ r.handler = dll.places[r.hook.handlerExport]
                      /\ r.trampoline = dll.places[r.hook.trampolineExport]
                      /\ "execute" \in Rights(protection[r.handler])
                      /\ "write" \in Rights(protection[r.trampoline])
    BY DEF HandlersReachable
  <2>1. resolved \in Seq(Resolutions) /\ DOMAIN resolved = 1 .. Len(resolved)
    BY LenProperties DEF WmainInv, ResolvedInv
  <2>2. PICK i \in 1 .. Len(resolved) : r = resolved[i]
    BY <2>1 DEF ToSet
  <2>3. r \in Resolutions
    <3> HIDE DEF Resolutions
    <3> QED
      BY <2>1, <2>2, ElementOfSeq
  <2>4. PICK h \in ToSet(options.hooks), u \in SUBSET described.procedures :
          r = Resolution(dll, h, u)
    BY <2>3 DEF Resolutions
  <2>5. /\ r.hook = h /\ r.handler = GetRemoteExport(dll, h.handlerExport, u)
        /\ r.trampoline = GetRemoteExport(dll, h.trampolineExport, u)
    BY <2>4 DEF Resolution
  <2>6. /\ stage = "hooking" /\ mapStep = "returned" /\ base # 0
        /\ dll \in DllFiles /\ described = Description(dll)
    <3>1. resolved # <<>>
      BY <2>1, <2>2, EmptySeq
    <3> QED
      BY <3>1 DEF WmainInv, StageInv, ResolvedInv
  <2>7. LinkedFile(dll) /\ DescribesHooks(dll)
    BY <2>6, LinkedFiles, StartupAssumption
  <2>8. /\ r.handler = dll.places[h.handlerExport]
        /\ r.trampoline = dll.places[h.trampolineExport]
    BY <2>5, <2>7, ExportAtPlace
  <2>9. PICK e \in Descriptors(described) : h = HookOf(e)
    <3>1. h \in ToSet(availableHooks)
      BY <2>6 DEF WmainInv, OptionsInv
    <3>2. availableHooks # <<>>
      BY <3>1 DEF ToSet
    <3> QED
      BY <3>1, <3>2 DEF WmainInv, HooksInv
  <2>10. /\ e \in Descriptors(dll) /\ {e.handler, e.trampoline} \subseteq dll.procedures
         /\ h.handlerExport = e.handler /\ h.trampolineExport = e.trampoline
    <3>1. availableHooks # <<>>
      <4>1. h \in ToSet(availableHooks)
        BY <2>6 DEF WmainInv, OptionsInv
      <4> QED
        BY <4>1 DEF ToSet
    <3>2. {e.handler, e.trampoline} \subseteq described.procedures
      BY <2>9, <3>1 DEF WmainInv, HooksInv, AllHooks
    <3>3. described.exports = dll.exports /\ described.procedures = dll.procedures
      BY <2>6 DEF Description
    <3> QED
      BY <2>9, <3>2, <3>3 DEF HookOf, Descriptors
  <2>11. IsPlacedIn(dll, e.handler, "execute") /\ IsPlacedIn(dll, e.trampoline, "write")
    BY <2>7, <2>10 DEF DescribesHooks
  <2>12. ASSUME NEW name, NEW right, IsPlacedIn(dll, name, right)
         PROVE  right \in Rights(protection[dll.places[name]])
    <3>1. PICK k \in 1 .. Len(dll.sections) :
            /\ right \in dll.sections[k].characteristics
            /\ dll.places[name] \in Cells(dll.sections[k].address, dll.sections[k].virtualSize)
      BY <2>12 DEF IsPlacedIn
    <3> QED
      BY <2>6, <3>1, SectionRights
  <2> QED
    BY <2>5, <2>8, <2>10, <2>11, <2>12
<1> QED
  BY <1>1, ImageInvariant, PTL

----------------------------------------------------------------------------
(* What the target is started with *)

\* The command line is that of the arguments.
LineInv ==
  stage = "created" /\ options.mode = "Run" =>
    commandLine = BuildWindowsCommandLine(options.targetArguments)

LEMMA LineStep ==
  ASSUME LineInv, [StartupNext]_startVars
  PROVE  LineInv'
<1>1. CASE Run
  BY <1>1 DEF Run, LineInv
<1>2. CASE Attach
  BY <1>2 DEF Attach, LineInv
<1>3. CASE ParseWithoutHooks \/ Discover \/ ParseWithHooks
  <2>1. stage' # "created"
    BY <1>3 DEF ParseWithoutHooks, Discover, ParseWithHooks, Exit
  <2> QED
    BY <2>1 DEF LineInv
<1>4. CASE BeginInject \/ CheckMapping
  <2>1. stage' # "created"
    BY <1>4 DEF BeginInject, CheckMapping
  <2> QED
    BY <2>1 DEF LineInv
<1>5. CASE Inject \/ UNCHANGED startVars
  <2>1. UNCHANGED mainVars
    BY <1>5 DEF Inject, startVars
  <2> QED
    BY <2>1 DEF LineInv, mainVars
<1>6. CASE Resolve
  <2>1. stage' = "hooking"
    BY <1>6 DEF Resolve, ResolveHandlers
  <2> QED
    BY <2>1 DEF LineInv
<1> QED
  BY <1>1, <1>2, <1>3, <1>4, <1>5, <1>6 DEF StartupNext

\* Whatever the user typed: the arguments survive BuildWindowsCommandLine and the
\* C runtime of the target, with any number of blanks, quotes and backslashes.
THEOREM TargetArguments == StartupSpec => []CommandLineRoundTrip
<1>1. StartupInit => LineInv
  BY DEF StartupInit, LineInv
<1>2. LineInv /\ [StartupNext]_startVars => LineInv'
  BY LineStep
<1>3. WmainInv /\ LineInv => CommandLineRoundTrip
  <2> SUFFICES ASSUME WmainInv, LineInv, stage = "created", options.mode = "Run",
                      IsFileName(CharsOf(options.targetArguments[1]))
               PROVE  SplitCommandLine(commandLine)
                        = [i \in 1 .. Len(options.targetArguments) |->
                             CharsOf(options.targetArguments[i])]
    BY DEF CommandLineRoundTrip
  <2>1. options.targetArguments \in Seq(Arguments) /\ options.targetArguments # <<>>
    BY DEF WmainInv, OptionsInv, InSession, Usable
  <2>2. commandLine = BuildWindowsCommandLine(options.targetArguments)
    BY DEF LineInv
  <2> QED
    BY <2>1, <2>2, LineIsRead DEF Typed
<1> QED
  BY <1>1, <1>2, <1>3, WmainInvariant, PTL DEF StartupSpec
=============================================================================
