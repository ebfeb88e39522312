------------------------ MODULE HandleTrackerProofs -------------------------
(***************************************************************************)
(* Theorems about the handle tracker, for any number of threads, handles,  *)
(* paths and calls.                                                        *)
(*                                                                         *)
(* CallInv says what the hooked calls in progress know of the handle they  *)
(* work on. TableInv says the same of the table, not as it is but as it    *)
(* will be before each event that is still queued and after the last of    *)
(* them: a call that emits its event now acts on the table the writer will *)
(* have reached by then.                                                   *)
(***************************************************************************)
EXTENDS HandleTracker, NumberLemmas, FiniteSetTheorems, SequenceTheorems, TLAPS

-----------------------------------------------------------------------------
(* Types.                                                                  *)

Path == Seq(Letters)
Table == [Handles -> Path \cup {NoPath}]

Kinds == {"none", "open", "use", "close"}
EventRecord == [kind : Kinds, handle : Handles \cup {NoHandle},
                root : Handles \cup {NoHandle}, path : Path \cup {NoPath},
                ok : BOOLEAN, names : Path, crossed : BOOLEAN]

\* The fields an event has by its kind.
FieldsOf(e) ==
  /\ e.kind \in {"use", "close"} => e.path = NoPath /\ e.handle \in Handles
  /\ e.kind = "open" /\ e.ok => e.path # NoPath /\ e.handle \in Handles
  /\ e.kind = "none" => ~e.ok
Event == {e \in EventRecord : FieldsOf(e)}

Places == {"idle", "opening", "closing", "emit"}

TypeInv ==
  /\ kernel \in [Handles -> Path \cup {Free}]
  /\ known \subseteq Handles
  /\ pc \in [Threads -> Places]
  /\ call \in [Threads -> Event]
  /\ calls \in 0 .. MaxCalls
  /\ queue \in Seq(Event)
  /\ handlePaths \in Table
  /\ Cardinality(Tracked(handlePaths)) <= MaxTracked
  /\ tainted \subseteq Handles /\ excused \subseteq Handles

-----------------------------------------------------------------------------
(* The calls in progress and the kernel.                                   *)

\* The thread that has opened h and not yet returned it to the program.
Opened(e, h) == e.kind = "open" /\ e.ok /\ e.handle = h
Opener(t, h) == pc[t] = "emit" /\ Opened(call[t], h)

\* The thread that was given h to close and has not closed it.
Holder(t, h) ==
  /\ pc[t] \in {"closing", "emit"}
  /\ call[t].kind = "close" /\ ~call[t].ok /\ call[t].handle = h

Owner(t, h) == Opener(t, h) \/ Holder(t, h)

\* The path an open recorded is that of the object it asked for.
PathRight(e) ==
  /\ e.root \in known \cup {NoHandle}
  /\ e.path # <<>> =>
       /\ e.path \in Texts
       /\ e.root = NoHandle => e.names = Components(e.path)
       /\ e.root # NoHandle => e.names = kernel[e.root] \o Components(e.path)

CallRight(t) ==
  LET e == call[t]
  IN /\ pc[t] = "idle" => e.kind = "none"
     /\ pc[t] = "opening" => e.kind = "open" /\ ~e.ok
     /\ pc[t] = "closing" => e.kind = "close" /\ ~e.ok
     /\ e.kind = "open" => e.path # NoPath /\ e.names # <<>> /\ PathRight(e)
     /\ e.kind = "use" => e.handle \in known /\ e.names = kernel[e.handle]

\* A handle number belongs to the program, to one call, or to nobody, and all
\* but the last have an object behind it.
HandleRight(h) ==
  /\ kernel[h] # <<>>
  /\ h \in known => kernel[h] # Free
  /\ \A t \in Threads : Owner(t, h) => h \notin known /\ kernel[h] = call[t].names
  /\ \A t, u \in Threads : Owner(t, h) /\ Owner(u, h) => t = u
  /\ \A t \in Closers(h) : ~call[t].crossed => kernel[h] = Free

CallInv == /\ \A h \in Handles : HandleRight(h)
           /\ \A t \in Threads : CallRight(t)

-----------------------------------------------------------------------------
(* The table before each queued event and after the last.                  *)

Step(paths, e) == Evict(Observe(paths, e), e)

Foresees(tab) ==
  /\ tab \in [0 .. Len(queue) -> Table]
  /\ tab[0] = handlePaths
  /\ \A i \in 1 .. Len(queue) : tab[i] = Step(tab[i - 1], queue[i])

Agrees(paths, h, names) == paths[h] = NoPath \/ Names(paths[h], names)

\* A queued event will be annotated with the path of what it worked on.
QueueRight(tab) ==
  \A i \in 1 .. Len(queue) :
    LET e == queue[i]
    IN e.kind \in {"use", "close"} /\ ~e.crossed /\ e.handle \notin tainted
         => Agrees(tab[i - 1], e.handle, e.names)

Clean(t, h) == Opener(t, h) /\ call[t].path # <<>>

\* The table in the end: what it has for a handle is the path of what the
\* number stands for, or a call that is about to emit its event will put it right.
EntryRight(paths, h) ==
  paths[h] # NoPath =>
    \/ kernel[h] = Free /\ Closers(h) # {}
    \/ \E t \in Threads : Clean(t, h)
    \/ /\ kernel[h] # Free /\ \A t \in Threads : ~Opener(t, h)
       /\ Names(paths[h], kernel[h])

CloserRight(paths, h) ==
  \A t \in Closers(h) : ~call[t].crossed => Agrees(paths, h, call[t].names)

RootRight(paths, h) ==
  \A t \in Threads : Opener(t, h) /\ call[t].root # NoHandle
    => Agrees(paths, call[t].root, kernel[call[t].root])

\* Why a handle may lose its entry: a queued event will clear the table.
Cleared(tab, h) ==
  \E i \in 1 .. Len(queue) : /\ Clears(tab[i - 1], queue[i])
                              /\ h \in Tracked(tab[i - 1]) \ {queue[i].handle}

EntryKept(tab, h) ==
  kernel[h] # Free =>
    /\ Closers(h) = {}
    /\ \/ \E t \in Threads : Clean(t, h)
       \/ tab[Len(queue)][h] # NoPath
       \/ Cleared(tab, h)

EntryInv(tab, h) ==
  /\ EntryRight(tab[Len(queue)], h)
  /\ CloserRight(tab[Len(queue)], h)
  /\ RootRight(tab[Len(queue)], h)
  /\ h \notin excused => EntryKept(tab, h)

TableRight(tab) == QueueRight(tab) /\ \A h \in Handles \ tainted : EntryInv(tab, h)

TableInv == \E tab : Foresees(tab) /\ TableRight(tab)

TrackerInv ==
  /\ TypeInv
  /\ CallInv
  /\ TableInv
  /\ AnnotationsCorrect

-----------------------------------------------------------------------------
(* Paths and their names.                                                  *)

\* What Components has collected of a text up to each of its places.
Collects(f, text) ==
  /\ f \in [0 .. Len(text) -> Path]
  /\ f[0] = <<>>
  /\ \A i \in 1 .. Len(text) :
       f[i] = IF text[i] = Sep THEN f[i - 1] ELSE Append(f[i - 1], text[i])

LEMMA SepIsLetter == Sep \in Letters /\ <<>> \in Path /\ <<Sep>> \in Path
<1>1. Sep \in Letters
  BY DEF Letters
<1>2. <<>> \in Path
  BY EmptySeq DEF Path
<1>3. <<Sep>> = Append(<<>>, Sep) /\ Append(<<>>, Sep) \in Path
  BY <1>1, <1>2, AppendProperties DEF Path
<1> QED
  BY <1>1, <1>2, <1>3

\* Components is defined for every text.
LEMMA CollectsExists ==
  ASSUME NEW text \in Path
  PROVE  \E f : Collects(f, text)
<1> DEFINE n == Len(text)
           Upto(f, k) ==
             /\ f \in [0 .. k -> Path] /\ f[0] = <<>>
             /\ \A i \in 1 .. k :
                  f[i] = IF text[i] = Sep THEN f[i - 1] ELSE Append(f[i - 1], text[i])
           Wrong == {k \in 0 .. n : ~ \E f : Upto(f, k)}
<1>1. n \in Nat /\ \A i \in 1 .. n : text[i] \in Letters
  BY LenProperties, ElementOfSeq DEF Path
<1>2. ASSUME Wrong # {} PROVE FALSE
  <2>1. Wrong \subseteq Nat
    BY <1>1
  <2>2. PICK m \in Wrong : \A i \in Wrong : m <= i
    BY <1>2, <2>1, LeastNumber
  <2>3. Upto([i \in 0 .. 0 |-> <<>>], 0)
    BY SepIsLetter
  <2>4. m # 0
    BY <2>2, <2>3
  <2>5. m \in 1 .. n /\ m - 1 \in 0 .. n /\ m - 1 \notin Wrong
    <3>1. m \in 0 .. n
      BY <2>2
    <3>2. m \in 1 .. n /\ m - 1 \in 0 .. n /\ ~(m <= m - 1)
      BY <1>1, <2>4, <3>1
    <3> HIDE DEF Wrong
    <3> QED
      BY <2>2, <3>2
  <2>6. PICK f : Upto(f, m - 1)
    BY <2>5
  <2> DEFINE next == IF text[m] = Sep THEN f[m - 1] ELSE Append(f[m - 1], text[m])
             g == [i \in 0 .. m |-> IF i < m THEN f[i] ELSE next]
  <2>7. next \in Path
    <3>1. f[m - 1] \in Path /\ text[m] \in Letters
      BY <1>1, <2>5, <2>6
    <3> QED
      BY <3>1, AppendProperties DEF Path
  <2>8. g \in [0 .. m -> Path] /\ g[0] = <<>>
    BY <2>5, <2>6, <2>7
  <2>9. ASSUME NEW i \in 1 .. m
        PROVE  g[i] = IF text[i] = Sep THEN g[i - 1] ELSE Append(g[i - 1], text[i])
    <3>1. i - 1 \in 0 .. m /\ i - 1 < m /\ g[i - 1] = f[i - 1]
      BY <2>5
    <3>2. CASE i = m
      BY <2>5, <3>1, <3>2
    <3>3. CASE i # m
      <4>1. i \in 1 .. (m - 1) /\ g[i] = f[i]
        BY <2>5, <3>3
      <4> QED
        BY <3>1, <4>1, <2>6
    <3> QED
      BY <3>2, <3>3
  <2>10. Upto(g, m)
    BY <2>8, <2>9
  <2> QED
    BY <2>2, <2>10
<1>3. n \in 0 .. n
  BY <1>1
<1>4. PICK f : Upto(f, n)
  BY <1>2, <1>3
<1> QED
  BY <1>4 DEF Collects

\* The function in Components, by itself.
NamesOf(text) ==
  CHOOSE names : names = [i \in 0 .. Len(text) |->
    IF i = 0 THEN <<>>
    ELSE IF text[i] = Sep THEN names[i - 1] ELSE Append(names[i - 1], text[i])]

LEMMA ComponentsAre ==
  ASSUME NEW text \in Path, NEW f, Collects(f, text)
  PROVE  Components(text) = f[Len(text)] /\ Components(text) \in Path
<1> DEFINE n == Len(text)
           Solves(c) == c = [i \in 0 .. n |->
             IF i = 0 THEN <<>>
             ELSE IF text[i] = Sep THEN c[i - 1] ELSE Append(c[i - 1], text[i])]
           names == NamesOf(text)
           Wrong == {i \in 0 .. n : names[i] # f[i]}
<1>1. n \in Nat
  BY LenProperties DEF Path
<1>2. Solves(f)
  <2>1. \A i \in 0 .. n : i = 0 \/ i \in 1 .. n
    BY <1>1
  <2>2. \A i \in 0 .. n :
          f[i] = IF i = 0 THEN <<>>
                 ELSE IF text[i] = Sep THEN f[i - 1] ELSE Append(f[i - 1], text[i])
    BY <2>1 DEF Collects
  <2>3. f = [i \in 0 .. n |-> f[i]]
    BY DEF Collects
  <2> QED
    BY <2>2, <2>3
<1>3. Solves(names)
  BY <1>2 DEF NamesOf
<1>4. ASSUME NEW i \in 0 .. n
      PROVE  names[i] = IF i = 0 THEN <<>>
               ELSE IF text[i] = Sep THEN names[i - 1] ELSE Append(names[i - 1], text[i])
  <2> HIDE DEF names
  <2> QED
    BY <1>3
<1> HIDE DEF names, Solves, n
<1>5. ASSUME Wrong # {} PROVE FALSE
  <2>1. Wrong \subseteq Nat
    BY <1>1
  <2>2. PICK m \in Wrong : \A i \in Wrong : m <= i
    BY <1>5, <2>1, LeastNumber
  <2>3. m # 0
    BY <1>1, <1>4, <2>2 DEF Collects
  <2>4. m \in 1 .. n /\ m - 1 \in 0 .. n /\ m - 1 \notin Wrong
    BY <1>1, <2>2, <2>3
  <2>5. names[m - 1] = f[m - 1]
    BY <2>4
  <2>6. f[m] = IF text[m] = Sep THEN f[m - 1] ELSE Append(f[m - 1], text[m])
    BY <2>4 DEF Collects, n
  <2> QED
    BY <1>4, <2>2, <2>3, <2>4, <2>5, <2>6
<1>6. n \in 0 .. n
  BY <1>1
<1>7. names[n] = f[n] /\ f[n] \in Path
  BY <1>5, <1>6 DEF n, Collects
<1> QED
  BY <1>7 DEF n, names, NamesOf, Components

LEMMA AppendAfter ==
  ASSUME NEW s \in Path, NEW t \in Path, NEW x \in Letters
  PROVE  s \o Append(t, x) = Append(s \o t, x)
<1>1. s \in Seq(Letters) /\ t \in Seq(Letters) /\ s \o t \in Seq(Letters)
  BY ConcatProperties DEF Path
<1>2. <<x>> \in Seq(Letters)
  BY SepIsLetter, AppendProperties DEF Path
<1>3. Append(t, x) = t \o <<x>> /\ Append(s \o t, x) = (s \o t) \o <<x>>
  BY <1>1, AppendIsConcat
<1>4. (s \o t) \o <<x>> = s \o (t \o <<x>>)
  BY <1>1, <1>2, ConcatAssociative
<1> QED
  BY <1>3, <1>4

\* The names of two texts written one after the other.
LEMMA ComponentsOfConcat ==
  ASSUME NEW s \in Path, NEW t \in Path
  PROVE  Components(s \o t) = Components(s) \o Components(t)
<1>1. PICK f : Collects(f, s)
  BY CollectsExists
<1>2. PICK g : Collects(g, t)
  BY CollectsExists
<1> DEFINE m == Len(s)
           n == Len(t)
           h == [i \in 0 .. (m + n) |-> IF i <= m THEN f[i] ELSE f[m] \o g[i - m]]
<1>3. /\ m \in Nat /\ n \in Nat /\ s \o t \in Path /\ Len(s \o t) = m + n
      /\ \A i \in 1 .. (m + n) : (s \o t)[i] = IF i <= m THEN s[i] ELSE t[i - m]
      /\ \A i \in 1 .. n : t[i] \in Letters
  BY LenProperties, ConcatProperties, ElementOfSeq DEF Path
<1>4. f[m] \in Path /\ \A i \in 0 .. m : f[i] \in Path
  BY <1>1, <1>3 DEF Collects
<1>5. \A i \in 0 .. n : g[i] \in Path
  BY <1>2 DEF Collects
<1>6. \A i \in 0 .. n : f[m] \o g[i] \in Path
  BY <1>4, <1>5, ConcatProperties DEF Path
<1> HIDE DEF m, n
<1>h. \A i \in 0 .. (m + n) : h[i] = IF i <= m THEN f[i] ELSE f[m] \o g[i - m]
  OBVIOUS
<1>7. f[m] \o g[0] = f[m]
  <2>1. g[0] = <<>>
    BY <1>2 DEF Collects
  <2> QED
    BY <2>1, <1>4, ConcatEmptySeq DEF Path
<1>8. h \in [0 .. (m + n) -> Path] /\ h[0] = <<>>
  <2>1. ASSUME NEW i \in 0 .. (m + n) PROVE h[i] \in Path
    <3>1. CASE i <= m
      BY <1>3, <1>4, <3>1
    <3>2. CASE ~(i <= m)
      <4>1. i - m \in 0 .. n
        BY <1>3, <3>2
      <4> QED
        BY <1>6, <3>2, <4>1
    <3> QED
      BY <3>1, <3>2
  <2> QED
    BY <2>1, <1>1, <1>3 DEF Collects
<1> HIDE DEF h
<1>9. ASSUME NEW i \in 1 .. (m + n)
      PROVE  h[i] = IF (s \o t)[i] = Sep THEN h[i - 1] ELSE Append(h[i - 1], (s \o t)[i])
  <2>i. i \in 0 .. (m + n) /\ i - 1 \in 0 .. (m + n) /\ m \in Nat /\ n \in Nat
    BY <1>3
  <2>1. CASE i <= m
    <3>1. i \in 1 .. m /\ i - 1 \in 0 .. m /\ h[i] = f[i] /\ h[i - 1] = f[i - 1]
      BY <1>h, <2>i, <2>1
    <3> QED
      BY <1>1, <1>3, <2>1, <3>1 DEF Collects, m
  <2>2. CASE ~(i <= m)
    <3>1. i - m \in 1 .. n /\ (i - m) - 1 \in 0 .. n /\ (i - 1) - m = (i - m) - 1
      BY <1>3, <2>2
    <3>2. h[i] = f[m] \o g[i - m]
      BY <1>h, <2>i, <2>2
    <3>3. h[i - 1] = f[m] \o g[(i - m) - 1]
      <4>1. CASE i - 1 <= m
        <5>1. (i - m) - 1 = 0 /\ i - 1 = m
          BY <1>3, <2>2, <4>1
        <5>2. h[i - 1] = f[i - 1]
          BY <1>h, <2>i, <4>1
        <5> QED
          BY <1>7, <5>1, <5>2
      <4>2. CASE ~(i - 1 <= m)
        BY <1>h, <2>i, <4>2, <3>1
      <4> QED
        BY <4>1, <4>2
    <3>4. g[i - m] = IF t[i - m] = Sep THEN g[(i - m) - 1]
                     ELSE Append(g[(i - m) - 1], t[i - m])
      BY <1>2, <3>1 DEF Collects, n
    <3> DEFINE u == g[(i - m) - 1]
               x == t[i - m]
    <3>5. u \in Path /\ x \in Letters
      BY <1>3, <1>5, <3>1
    <3> HIDE DEF u, x
    <3>6. f[m] \o Append(u, x) = Append(f[m] \o u, x)
      BY <3>5, <1>4, AppendAfter
    <3>7. (s \o t)[i] = x
      BY <1>3, <2>2 DEF x
    <3> QED
      BY <3>2, <3>3, <3>4, <3>6, <3>7 DEF u, x
  <2> QED
    BY <2>1, <2>2
<1>10. Collects(h, s \o t)
  BY <1>3, <1>8, <1>9 DEF Collects, m, n
<1>11. Components(s \o t) = h[m + n]
  BY <1>3, <1>10, ComponentsAre DEF m, n
<1>12. h[m + n] = f[m] \o g[n]
  <2>1. m + n \in 0 .. (m + n) /\ (m + n) - m = n /\ m \in Nat /\ n \in Nat
    BY <1>3
  <2>2. CASE n = 0
    <3>1. m + n = m /\ m \in 0 .. (m + n)
      BY <2>1, <2>2
    <3>2. h[m] = f[m]
      BY <1>h, <2>1, <3>1
    <3> QED
      BY <1>7, <2>2, <3>1, <3>2
  <2>3. CASE n # 0
    <3>1. ~(m + n <= m)
      BY <2>1, <2>3
    <3> QED
      BY <1>h, <2>1, <3>1
  <2> QED
    BY <2>2, <2>3
<1>13. f[m] = Components(s) /\ g[n] = Components(t)
  BY <1>1, <1>2, ComponentsAre DEF m, n
<1> QED
  BY <1>11, <1>12, <1>13

LEMMA ComponentsType ==
  ASSUME NEW text \in Path
  PROVE  Components(text) \in Path
<1>1. PICK f : Collects(f, text)
  BY CollectsExists
<1> QED
  BY <1>1, ComponentsAre

LEMMA ComponentsOfSep ==
  /\ Components(<<Sep>>) = <<>>
  /\ \A t \in Path : /\ <<Sep>> \o t \in Path
                     /\ Components(<<Sep>> \o t) = Components(t)
<1>1. PICK f : Collects(f, <<Sep>>)
  BY SepIsLetter, CollectsExists
<1>2. Components(<<Sep>>) = f[1] /\ f[1] = f[0] /\ f[0] = <<>>
  <2>1. Len(<<Sep>>) = 1 /\ <<Sep>>[1] = Sep
    OBVIOUS
  <2>2. Components(<<Sep>>) = f[1]
    BY <1>1, <2>1, SepIsLetter, ComponentsAre
  <2>3. f[1] = f[0] /\ f[0] = <<>>
    BY <1>1, <2>1 DEF Collects
  <2> QED
    BY <2>2, <2>3
<1>3. ASSUME NEW t \in Path
      PROVE  <<Sep>> \o t \in Path /\ Components(<<Sep>> \o t) = Components(t)
  <2>1. <<Sep>> \o t \in Path
    BY SepIsLetter, ConcatProperties DEF Path
  <2>2. Components(<<Sep>> \o t) = Components(<<Sep>>) \o Components(t)
    BY SepIsLetter, ComponentsOfConcat
  <2>3. <<>> \o Components(t) = Components(t)
    BY ComponentsType, ConcatEmptySeq DEF Path
  <2> QED
    BY <1>2, <2>1, <2>2, <2>3
<1> QED
  BY <1>2, <1>3

\* The end of a sequence, place by place.
LEMMA SuffixPlaces ==
  ASSUME NEW s \in Path, NEW t \in Path
  PROVE  IsSuffix(s, t) <=>
           /\ Len(s) <= Len(t)
           /\ \A i \in 1 .. Len(s) : s[i] = t[(Len(t) - Len(s)) + i]
<1> DEFINE m == Len(s)
           n == Len(t)
           rs == Reverse(s)
           rt == Reverse(t)
<1>1. m \in Nat /\ n \in Nat
  BY LenProperties DEF Path
<1>2. /\ rs \in [1 .. m -> Letters] /\ rt \in [1 .. n -> Letters]
      /\ \A i \in 1 .. m : rs[i] = s[(m - i) + 1]
      /\ \A i \in 1 .. n : rt[i] = t[(n - i) + 1]
  <2>1. \A i \in 1 .. m : (m - i) + 1 \in 1 .. m
    BY <1>1
  <2>2. \A i \in 1 .. n : (n - i) + 1 \in 1 .. n
    BY <1>1
  <2>3. (\A i \in 1 .. m : s[i] \in Letters) /\ \A i \in 1 .. n : t[i] \in Letters
    BY ElementOfSeq DEF Path
  <2> QED
    BY <2>1, <2>2, <2>3 DEF Reverse
<1> HIDE DEF rs, rt, m, n
<1>3. rs \in Seq(Letters) /\ rt \in Seq(Letters) /\ Len(rs) = m /\ Len(rt) = n
  BY <1>1, <1>2
<1>4. ASSUME m <= n
      PROVE  /\ SubSeq(rs, 1, m) = rs
             /\ SubSeq(rt, 1, m) \in Seq(Letters) /\ Len(SubSeq(rt, 1, m)) = m
             /\ \A i \in 1 .. m : SubSeq(rt, 1, m)[i] = rt[i]
  <2>1. \A i \in 1 .. m : rt[i] \in Letters
    BY <1>1, <1>2, <1>4
  <2>2. /\ SubSeq(rt, 1, m) \in Seq(Letters)
        /\ Len(SubSeq(rt, 1, m)) = IF 1 <= m THEN m - 1 + 1 ELSE 0
        /\ \A i \in 1 .. m - 1 + 1 : SubSeq(rt, 1, m)[i] = rt[1 + i - 1]
    BY <1>1, <2>1, SubSeqProperties
  <2>3. m - 1 + 1 = m /\ (~(1 <= m) => m = 0) /\ \A i \in 1 .. m : 1 + i - 1 = i
    BY <1>1
  <2>4. Len(SubSeq(rt, 1, m)) = m
    BY <2>2, <2>3
  <2>5. \A i \in 1 .. m : SubSeq(rt, 1, m)[i] = rt[i]
    BY <2>2, <2>3
  <2> QED
    BY <1>3, <2>2, <2>4, <2>5, SubSeqFull
<1>5. IsSuffix(s, t) <=> m <= n /\ rs = SubSeq(rt, 1, m)
  <2>1. IsSuffix(s, t) <=> m <= n /\ SubSeq(rs, 1, m) = SubSeq(rt, 1, m)
    BY <1>3 DEF IsSuffix, IsPrefix, rs, rt
  <2> QED
    BY <1>4, <2>1
<1>6. ASSUME m <= n
      PROVE  rs = SubSeq(rt, 1, m) <=> \A i \in 1 .. m : rs[i] = rt[i]
  <2> DEFINE sub == SubSeq(rt, 1, m)
  <2>1. sub \in Seq(Letters) /\ Len(sub) = m /\ \A i \in 1 .. m : sub[i] = rt[i]
    BY <1>4, <1>6
  <2> HIDE DEF sub
  <2>2. (\A i \in 1 .. m : rs[i] = rt[i]) => rs = sub
    BY <1>3, <2>1, SeqEqual
  <2>3. rs = sub => \A i \in 1 .. m : rs[i] = rt[i]
    BY <2>1
  <2> QED
    BY <2>2, <2>3 DEF sub
<1>7. ASSUME m <= n
      PROVE  (\A i \in 1 .. m : rs[i] = rt[i])
               <=> \A i \in 1 .. m : s[i] = t[(n - m) + i]
  <2>1. ASSUME \A i \in 1 .. m : rs[i] = rt[i], NEW i \in 1 .. m
        PROVE  s[i] = t[(n - m) + i]
    <3> DEFINE j == (m - i) + 1
    <3>1. j \in 1 .. m /\ j \in 1 .. n /\ (m - j) + 1 = i /\ (n - j) + 1 = (n - m) + i
      BY <1>1, <1>7
    <3> HIDE DEF j
    <3>2. rs[j] = s[i] /\ rt[j] = t[(n - m) + i]
      BY <1>2, <3>1
    <3> QED
      BY <2>1, <3>1, <3>2
  <2>2. ASSUME \A i \in 1 .. m : s[i] = t[(n - m) + i], NEW i \in 1 .. m
        PROVE  rs[i] = rt[i]
    <3> DEFINE j == (m - i) + 1
    <3>1. j \in 1 .. m /\ i \in 1 .. n /\ (n - i) + 1 = (n - m) + j
      BY <1>1, <1>7
    <3>2. rs[i] = s[j] /\ rt[i] = t[(n - m) + j]
      BY <1>2, <3>1
    <3> HIDE DEF j
    <3> QED
      BY <2>2, <3>1, <3>2
  <2> QED
    BY <2>1, <2>2
<1> QED
  BY <1>5, <1>6, <1>7 DEF m, n

LEMMA SuffixOfConcat ==
  ASSUME NEW s \in Path, NEW t \in Path
  PROVE  IsSuffix(t, s \o t)
<1>1. s \o t \in Path /\ Len(s \o t) = Len(s) + Len(t)
  BY ConcatProperties DEF Path
<1>2. Len(s) \in Nat /\ Len(t) \in Nat
  BY LenProperties DEF Path
<1>3. ASSUME NEW i \in 1 .. Len(t)
      PROVE  t[i] = (s \o t)[(Len(s \o t) - Len(t)) + i]
  <2> DEFINE j == Len(s) + i
  <2>1. /\ (Len(s \o t) - Len(t)) + i = j /\ j - Len(s) = i
        /\ j \in 1 .. Len(s) + Len(t) /\ ~(j <= Len(s))
    BY <1>1, <1>2
  <2> HIDE DEF j
  <2>2. (s \o t)[j] = IF j <= Len(s) THEN s[j] ELSE t[j - Len(s)]
    BY <2>1, ConcatProperties DEF Path
  <2> QED
    BY <2>1, <2>2
<1>4. Len(t) <= Len(s \o t)
  BY <1>1, <1>2
<1> QED
  BY <1>1, <1>3, <1>4, SuffixPlaces

LEMMA SuffixExtended ==
  ASSUME NEW s \in Path, NEW t \in Path, NEW u \in Path, IsSuffix(s, t)
  PROVE  IsSuffix(s \o u, t \o u)
<1> DEFINE m == Len(s)
           n == Len(t)
           k == Len(u)
<1>1. /\ s \o u \in Path /\ Len(s \o u) = m + k
      /\ t \o u \in Path /\ Len(t \o u) = n + k
      /\ \A i \in 1 .. m + k : (s \o u)[i] = IF i <= m THEN s[i] ELSE u[i - m]
      /\ \A i \in 1 .. n + k : (t \o u)[i] = IF i <= n THEN t[i] ELSE u[i - n]
  BY ConcatProperties DEF Path
<1>2. m \in Nat /\ n \in Nat /\ k \in Nat
  BY LenProperties DEF Path
<1>3. m <= n /\ \A i \in 1 .. m : s[i] = t[(n - m) + i]
  BY SuffixPlaces
<1> HIDE DEF m, n, k
<1>4. ASSUME NEW i \in 1 .. (m + k)
      PROVE  (s \o u)[i] = (t \o u)[((n + k) - (m + k)) + i]
  <2> DEFINE j == (n - m) + i
  <2>1. /\ j \in 1 .. (n + k) /\ ((n + k) - (m + k)) + i = j /\ j - n = i - m
        /\ (j <= n <=> i <= m) /\ (i <= m => i \in 1 .. m)
    BY <1>2, <1>3
  <2>2. i <= m => s[i] = t[j]
    BY <1>3, <2>1
  <2> HIDE DEF j
  <2>3. (t \o u)[j] = IF j <= n THEN t[j] ELSE u[j - n]
    BY <1>1, <2>1
  <2>4. (s \o u)[i] = IF i <= m THEN s[i] ELSE u[i - m]
    BY <1>1
  <2> QED
    BY <2>1, <2>2, <2>3, <2>4
<1>5. m + k <= n + k
  BY <1>2, <1>3
<1> QED
  BY <1>1, <1>4, <1>5, SuffixPlaces

LEMMA SuffixOfSelf ==
  ASSUME NEW s \in Path
  PROVE  IsSuffix(s, s)
<1>1. <<>> \in Path /\ <<>> \o s = s
  BY SepIsLetter, ConcatEmptySeq DEF Path
<1> QED
  BY <1>1, SuffixOfConcat

LEMMA OneSeparatorOfConcat ==
  ASSUME NEW s \in Path, NEW t \in Path, OneSeparator(s), OneSeparator(t),
         s # <<>> /\ t # <<>> => (s[Len(s)] = Sep) # (t[1] = Sep)
  PROVE  OneSeparator(s \o t)
<1> DEFINE m == Len(s)
           n == Len(t)
           r == s \o t
<1>1. m \in Nat /\ n \in Nat /\ (m # 0 <=> s # <<>>) /\ (n # 0 <=> t # <<>>)
  BY LenProperties, EmptySeq DEF Path
<1>2. Len(r) = m + n /\ \A i \in 1 .. m + n : r[i] = IF i <= m THEN s[i] ELSE t[i - m]
  BY ConcatProperties DEF Path
<1>3. /\ \A i \in 1 .. (m - 1) : (s[i] = Sep) # (s[i + 1] = Sep)
      /\ \A i \in 1 .. (n - 1) : (t[i] = Sep) # (t[i + 1] = Sep)
      /\ m # 0 /\ n # 0 => (s[m] = Sep) # (t[1] = Sep)
  BY <1>1 DEF OneSeparator
<1> HIDE DEF m, n, r
<1>4. ASSUME NEW i \in 1 .. ((m + n) - 1)
      PROVE  (r[i] = Sep) # (r[i + 1] = Sep)
  <2>1. i \in 1 .. m + n /\ i + 1 \in 1 .. m + n
    BY <1>1
  <2>2. r[i] = (IF i <= m THEN s[i] ELSE t[i - m])
    BY <1>2, <2>1
  <2>3. r[i + 1] = (IF i + 1 <= m THEN s[i + 1] ELSE t[(i + 1) - m])
    BY <1>2, <2>1
  <2>4. CASE i + 1 <= m
    <3>1. i \in 1 .. (m - 1) /\ i <= m
      BY <1>1, <2>4
    <3> QED
      BY <1>3, <2>2, <2>3, <2>4, <3>1
  <2>5. CASE i = m
    <3>1. m # 0 /\ n # 0 /\ i <= m /\ ~(i + 1 <= m) /\ (i + 1) - m = 1
      BY <1>1, <2>5
    <3> QED
      BY <1>3, <2>2, <2>3, <2>5, <3>1
  <2>6. CASE i > m
    <3>1. /\ i - m \in 1 .. (n - 1) /\ (i + 1) - m = (i - m) + 1
          /\ ~(i <= m) /\ ~(i + 1 <= m)
      BY <1>1, <2>6
    <3> QED
      BY <1>3, <2>2, <2>3, <3>1
  <2> QED
    BY <1>1, <2>4, <2>5, <2>6
<1> QED
  BY <1>2, <1>4 DEF OneSeparator, r

LEMMA TailAfterSep ==
  ASSUME NEW path \in Path, path # <<>>, Head(path) = Sep, OneSeparator(path)
  PROVE  /\ Tail(path) \in Path
         /\ Components(Tail(path)) = Components(path)
         /\ OneSeparator(Tail(path))
         /\ Tail(path) # <<>> => Tail(path)[1] # Sep
<1> DEFINE t == Tail(path)
           n == Len(path)
<1>1. /\ n \in Nat \ {0} /\ t \in Path /\ Len(t) = n - 1
      /\ \A i \in 1 .. Len(t) : t[i] = path[i + 1]
  BY LenProperties, EmptySeq, HeadTailProperties DEF Path
<1>2. path[1] = Sep
  BY DEF Path
<1>3. \A i \in 1 .. (n - 1) : (path[i] = Sep) # (path[i + 1] = Sep)
  BY DEF OneSeparator
<1>4. t # <<>> => Len(t) # 0
  BY <1>1, EmptySeq DEF Path
<1> HIDE DEF t, n
<1>5. OneSeparator(t)
  <2>1. ASSUME NEW i \in 1 .. (Len(t) - 1)
        PROVE  (t[i] = Sep) # (t[i + 1] = Sep)
    <3>1. /\ i \in 1 .. Len(t) /\ i + 1 \in 1 .. Len(t) /\ i + 1 \in 1 .. (n - 1)
      BY <1>1
    <3>2. t[i] = path[i + 1] /\ t[i + 1] = path[(i + 1) + 1]
      BY <1>1, <3>1
    <3> QED
      BY <1>3, <3>1, <3>2
  <2> QED
    BY <2>1 DEF OneSeparator
<1>6. t # <<>> => t[1] # Sep
  <2> SUFFICES ASSUME t # <<>> PROVE t[1] # Sep
    OBVIOUS
  <2>1. 1 \in 1 .. Len(t) /\ 1 \in 1 .. (n - 1)
    BY <1>1, <1>4
  <2>2. t[1] = path[1 + 1]
    BY <1>1, <2>1
  <2> QED
    BY <1>2, <1>3, <2>1, <2>2
<1>7. path = <<Sep>> \o t
  <2>1. <<Sep>> \o t \in Path
    BY <1>1, ComponentsOfSep
  <2>2. Len(<<Sep>>) = 1 /\ <<Sep>>[1] = Sep
    OBVIOUS
  <2>3. /\ Len(<<Sep>> \o t) = 1 + Len(t)
        /\ \A i \in 1 .. 1 + Len(t) : (<<Sep>> \o t)[i] =
             IF i <= 1 THEN <<Sep>>[i] ELSE t[i - 1]
    BY <1>1, <2>2, SepIsLetter, ConcatProperties DEF Path
  <2>4. ASSUME NEW i \in 1 .. n PROVE path[i] = (<<Sep>> \o t)[i]
    <3>1. i \in 1 .. 1 + Len(t)
      BY <1>1
    <3>2. (<<Sep>> \o t)[i] = IF i <= 1 THEN <<Sep>>[i] ELSE t[i - 1]
      BY <2>3, <3>1
    <3>3. CASE i = 1
      BY <1>2, <2>2, <3>2, <3>3
    <3>4. CASE i # 1
      <4>1. i - 1 \in 1 .. Len(t) /\ (i - 1) + 1 = i /\ ~(i <= 1)
        BY <1>1, <3>4
      <4> QED
        BY <1>1, <3>2, <4>1
    <3> QED
      BY <3>3, <3>4
  <2>5. Len(path) = Len(<<Sep>> \o t)
    BY <1>1, <2>3 DEF n
  <2> QED
    BY <2>1, <2>4, <2>5, SeqEqual DEF Path, n
<1>8. Components(<<Sep>> \o t) = Components(t)
  BY <1>1, ComponentsOfSep
<1> QED
  BY <1>1, <1>5, <1>6, <1>7, <1>8 DEF t

\* A path joined to that of its directory has the names of both, and one
\* separator wherever there was one on either side or none.
LEMMA JoinRight ==
  ASSUME NEW base \in Path, NEW path \in Path, path # <<>>,
         OneSeparator(base), OneSeparator(path)
  PROVE  /\ Join(base, path) \in Path
         /\ Components(Join(base, path)) = Components(base) \o Components(path)
         /\ OneSeparator(Join(base, path))
<1> DEFINE baseSep == base # <<>> /\ Last(base) = Sep
           relSep == path # <<>> /\ Head(path) = Sep
<1>1. /\ path[1] = Head(path) /\ Last(base) = base[Len(base)]
  BY DEF Path, Last
<1>2. ASSUME baseSep, relSep
      PROVE  /\ Join(base, path) = base \o Tail(path)
             /\ Join(base, path) \in Path
             /\ Components(Join(base, path)) = Components(base) \o Components(path)
             /\ OneSeparator(Join(base, path))
  <2> DEFINE t == Tail(path)
  <2>1. /\ t \in Path /\ Components(t) = Components(path) /\ OneSeparator(t)
        /\ t # <<>> => t[1] # Sep
    BY <1>2, TailAfterSep
  <2>2. Join(base, path) = base \o t
    BY <1>2 DEF Join
  <2> HIDE DEF t
  <2>3. base \o t \in Path /\ Components(base \o t) = Components(base) \o Components(t)
    BY <2>1, ComponentsOfConcat, ConcatProperties DEF Path
  <2>4. OneSeparator(base \o t)
    BY <1>1, <1>2, <2>1, OneSeparatorOfConcat
  <2> QED
    BY <2>1, <2>2, <2>3, <2>4 DEF t
<1>3. ASSUME ~baseSep, ~relSep
      PROVE  /\ Join(base, path) \in Path
             /\ Components(Join(base, path)) = Components(base) \o Components(path)
             /\ OneSeparator(Join(base, path))
  <2> DEFINE b == base \o <<Sep>>
  <2>1. Join(base, path) = b \o path
    BY <1>3 DEF Join
  <2>2. Len(<<Sep>>) = 1 /\ <<Sep>>[1] = Sep /\ <<Sep>> # <<>>
    OBVIOUS
  <2>3. b \in Path /\ Len(b) = Len(base) + 1 /\ b[Len(b)] = Sep
    <3>1. /\ b \in Path /\ Len(b) = Len(base) + 1
          /\ \A i \in 1 .. Len(base) + 1 :
               b[i] = IF i <= Len(base) THEN base[i] ELSE <<Sep>>[i - Len(base)]
      BY <2>2, SepIsLetter, ConcatProperties DEF Path
    <3>2. /\ Len(base) + 1 \in 1 .. Len(base) + 1 /\ ~(Len(base) + 1 <= Len(base))
          /\ (Len(base) + 1) - Len(base) = 1
      BY LenProperties DEF Path
    <3>3. b[Len(base) + 1] = <<Sep>>[1]
      BY <3>1, <3>2
    <3> QED
      BY <2>2, <3>1, <3>3
  <2>4. Components(b) = Components(base)
    <3>1. Components(b) = Components(base) \o Components(<<Sep>>)
      BY SepIsLetter, ComponentsOfConcat
    <3>2. Components(base) \o <<>> = Components(base)
      BY ComponentsType, ConcatEmptySeq DEF Path
    <3> QED
      BY <3>1, <3>2, ComponentsOfSep
  <2>5. OneSeparator(b)
    <3>1. OneSeparator(<<Sep>>)
      BY <2>2 DEF OneSeparator
    <3>2. base # <<>> => (base[Len(base)] = Sep) # (<<Sep>>[1] = Sep)
      BY <1>1, <1>3, <2>2
    <3> QED
      BY <3>1, <3>2, SepIsLetter, OneSeparatorOfConcat
  <2> HIDE DEF b
  <2>6. b \o path \in Path /\ Components(b \o path) = Components(b) \o Components(path)
    BY <2>3, ComponentsOfConcat, ConcatProperties DEF Path
  <2>7. OneSeparator(b \o path)
    BY <1>1, <1>3, <2>3, <2>5, OneSeparatorOfConcat
  <2> QED
    BY <2>1, <2>4, <2>6, <2>7
<1>4. ASSUME baseSep # relSep
      PROVE  /\ Join(base, path) \in Path
             /\ Components(Join(base, path)) = Components(base) \o Components(path)
             /\ OneSeparator(Join(base, path))
  <2>1. Join(base, path) = base \o path
    BY <1>4 DEF Join
  <2>2. base \o path \in Path
    BY ConcatProperties DEF Path
  <2>3. OneSeparator(base \o path)
    BY <1>1, <1>4, OneSeparatorOfConcat
  <2> QED
    BY <2>1, <2>2, <2>3, ComponentsOfConcat
<1> QED
  BY <1>2, <1>3, <1>4

\* What Observe makes of a relative path names what the directory's object
\* and the path name.
LEMMA JoinNames ==
  ASSUME NEW base \in Path, NEW path \in Path, NEW names \in Path,
         path # <<>>, OneSeparator(path), Names(base, names)
  PROVE  Names(Join(base, path), names \o Components(path))
<1>1. Components(base) \in Path /\ Components(path) \in Path
  BY ComponentsType
<1>2. IsSuffix(Components(base), names) /\ OneSeparator(base)
  BY DEF Names
<1>3. IsSuffix(Components(base) \o Components(path), names \o Components(path))
  BY <1>1, <1>2, SuffixExtended
<1> QED
  BY <1>2, <1>3, JoinRight DEF Names

LEMMA TextNames ==
  ASSUME NEW path \in Path, OneSeparator(path)
  PROVE  /\ Names(path, Components(path))
         /\ \A names \in Path : Names(path, names \o Components(path))
<1>1. Components(path) \in Path
  BY ComponentsType
<1> QED
  BY <1>1, SuffixOfSelf, SuffixOfConcat DEF Names

-----------------------------------------------------------------------------
(* What the table becomes with an event.                                   *)

LEMMA Distinct ==
  /\ NoPath \notin Path /\ Free \notin Path
  /\ NoHandle \notin Handles
  /\ MaxTracked \in Nat /\ MaxTracked >= 1 /\ IsFiniteSet(Handles)
BY TrackerAssumption DEF Path

LEMMA ResolvedType ==
  ASSUME NEW paths \in Table, NEW e \in Event, Observes(e)
  PROVE  /\ ResolvedPath(paths, e) \in Path
         /\ e.path \in Path /\ e.path # <<>> /\ e.handle \in Handles
<1>1. e.path \in Path /\ e.path # <<>> /\ e.handle \in Handles
  BY DEF Observes, Event, EventRecord
<1>2. \A r \in Handles : paths[r] # NoPath => paths[r] \in Path
  BY DEF Table
<1>3. ASSUME NEW b \in Path PROVE Join(b, e.path) \in Path
  <2> DEFINE p == e.path
  <2>1. p \in Path /\ p # <<>>
    BY <1>1
  <2> HIDE DEF p
  <2>2. Tail(p) \in Path
    BY <2>1, HeadTailProperties DEF Path
  <2>3. b \o <<Sep>> \in Path
    BY SepIsLetter, ConcatProperties DEF Path
  <2>4. b \o Tail(p) \in Path /\ (b \o <<Sep>>) \o p \in Path /\ b \o p \in Path
    BY <2>1, <2>2, <2>3, ConcatProperties DEF Path
  <2>5. Join(b, p) \in Path
    BY <2>4 DEF Join
  <2> QED
    BY <2>5 DEF p
<1>4. CASE e.root # NoHandle /\ e.root \in Tracked(paths)
  BY <1>1, <1>2, <1>3, <1>4 DEF ResolvedPath, Tracked
<1>5. CASE ~(e.root # NoHandle /\ e.root \in Tracked(paths))
  BY <1>1, <1>5 DEF ResolvedPath
<1> QED
  BY <1>1, <1>4, <1>5

\* Where each entry of the next table comes from.
LEMMA ObserveEffect ==
  ASSUME NEW paths \in Table, NEW e \in Event
  PROVE  /\ Observe(paths, e) \in Table
         /\ ~Observes(e) => Observe(paths, e) = paths
         /\ Observes(e) =>
              \A h \in Handles :
                Observe(paths, e)[h] = IF h = e.handle THEN ResolvedPath(paths, e)
                                       ELSE IF Clears(paths, e) THEN NoPath
                                       ELSE paths[h]
<1>1. CASE ~Observes(e)
  BY <1>1 DEF Observe
<1>2. CASE Observes(e)
  <2> DEFINE room == IF Clears(paths, e) THEN [h \in Handles |-> NoPath] ELSE paths
             p == ResolvedPath(paths, e)
  <2>1. p \in Path /\ e.handle \in Handles
    BY <1>2, ResolvedType
  <2>2. room \in Table /\ \A h \in Handles : room[h] = IF Clears(paths, e) THEN NoPath
                                                      ELSE paths[h]
    BY DEF Table
  <2>3. Observe(paths, e) = [room EXCEPT ![e.handle] = p]
    BY <1>2 DEF Observe
  <2> HIDE DEF room, p
  <2>4. Observe(paths, e) \in Table
    BY <2>1, <2>2, <2>3 DEF Table
  <2>5. \A h \in Handles : Observe(paths, e)[h] = IF h = e.handle THEN p ELSE room[h]
    BY <2>1, <2>2, <2>3 DEF Table
  <2> QED
    BY <1>2, <2>2, <2>4, <2>5 DEF p
<1> QED
  BY <1>1, <1>2

LEMMA EvictEffect ==
  ASSUME NEW paths \in Table, NEW e \in Event
  PROVE  /\ Evict(paths, e) \in Table
         /\ \A h \in Handles :
              Evict(paths, e)[h] = IF e.kind = "close" /\ e.ok /\ h = e.handle
                                   THEN NoPath ELSE paths[h]
BY DEF Evict, Table

LEMMA StepEffect ==
  ASSUME NEW paths \in Table, NEW e \in Event
  PROVE  /\ Step(paths, e) \in Table
         /\ e.kind # "open" => ~Observes(e) /\ ~Clears(paths, e)
         /\ \A h \in Handles :
              Step(paths, e)[h] =
                IF Observes(e)
                THEN IF h = e.handle THEN ResolvedPath(paths, e)
                     ELSE IF Clears(paths, e) THEN NoPath ELSE paths[h]
                ELSE IF e.kind = "close" /\ e.ok /\ h = e.handle THEN NoPath
                ELSE paths[h]
<1> DEFINE seen == Observe(paths, e)
<1>1. seen \in Table
  BY ObserveEffect
<1>2. e.kind # "open" => ~Observes(e) /\ ~Clears(paths, e)
  BY DEF Observes, Clears, Event, EventRecord, FieldsOf, Kinds
<1> HIDE DEF seen
<1>3. /\ Evict(seen, e) \in Table
      /\ \A h \in Handles : Evict(seen, e)[h] =
           IF e.kind = "close" /\ e.ok /\ h = e.handle THEN NoPath ELSE seen[h]
  BY <1>1, EvictEffect
<1>4. Observes(e) => e.kind # "close"
  BY <1>2
<1> QED
  BY <1>2, <1>3, <1>4, ObserveEffect DEF seen, Step

\* The limit of the table holds after Observe, and Evict only removes.
LEMMA StepLimit ==
  ASSUME NEW paths \in Table, NEW e \in Event,
         Cardinality(Tracked(paths)) <= MaxTracked
  PROVE  Cardinality(Tracked(Step(paths, e))) <= MaxTracked
<1> DEFINE before == Tracked(paths)
           after == Tracked(Step(paths, e))
<1>1. /\ IsFiniteSet(before) /\ Cardinality(before) \in Nat
      /\ IsFiniteSet(after) /\ Cardinality(after) \in Nat
  <2>1. before \in SUBSET Handles /\ after \in SUBSET Handles
    BY DEF Tracked
  <2> QED
    BY <2>1, Distinct, FS_Subset, FS_CardinalityType
<1>2. CASE ~Observes(e)
  <2>1. after \in SUBSET before
    BY <1>2, StepEffect DEF Tracked
  <2> QED
    BY <1>1, <2>1, FS_Subset, Distinct
<1>3. CASE Observes(e) /\ ~Clears(paths, e)
  <2>1. after \in SUBSET (before \cup {e.handle})
    BY <1>3, StepEffect DEF Tracked
  <2>2. Cardinality(before) < MaxTracked
    BY <1>1, <1>3, Distinct DEF Clears
  <2>3. /\ IsFiniteSet(before \cup {e.handle})
        /\ Cardinality(before \cup {e.handle}) \in {Cardinality(before), Cardinality(before) + 1}
    BY <1>1, FS_AddElement
  <2>4. Cardinality(after) <= Cardinality(before \cup {e.handle})
    BY <2>1, <2>3, FS_Subset
  <2> QED
    BY <1>1, <2>2, <2>3, <2>4, Distinct
<1>4. CASE Clears(paths, e)
  <2>1. after \in SUBSET {e.handle}
    BY <1>4, StepEffect DEF Tracked, Clears
  <2>2. IsFiniteSet({e.handle}) /\ Cardinality({e.handle}) = 1
    BY FS_Singleton
  <2>3. Cardinality(after) <= 1
    BY <2>1, <2>2, FS_Subset
  <2> QED
    BY <1>1, <2>3, Distinct
<1> QED
  BY <1>2, <1>3, <1>4

-----------------------------------------------------------------------------
(* What each action does to the calls in progress.                         *)

\* The same event, but for what later calls did to its handle number.
SameCall(e, f) ==
  /\ e.kind = f.kind /\ e.handle = f.handle /\ e.root = f.root
  /\ e.path = f.path /\ e.ok = f.ok /\ e.names = f.names

\* Thread t moves on with event e; the calls of the others stay what they are.
Moves(t, next, e) ==
  /\ pc' \in [Threads -> Places] /\ pc'[t] = next
  /\ call' \in [Threads -> Event] /\ call'[t] = e
  /\ \A u \in Threads \ {t} : pc'[u] = pc[u] /\ SameCall(call'[u], call[u])

\* So do they when no number is given out.
OthersStay(t) == \A u \in Threads \ {t} : call'[u] = call[u]

LEMMA MoveEffect ==
  ASSUME NEW t \in Threads, NEW next \in Places, NEW e \in Event, TypeInv,
         pc' = [pc EXCEPT ![t] = next], call' = [call EXCEPT ![t] = e]
  PROVE  Moves(t, next, e) /\ OthersStay(t)
<1>1. \A u \in Threads : pc'[u] = IF u = t THEN next ELSE pc[u]
  BY DEF TypeInv
<1>2. \A u \in Threads : call'[u] = IF u = t THEN e ELSE call[u]
  BY DEF TypeInv
<1>3. pc' \in [Threads -> Places] /\ call' \in [Threads -> Event]
  BY DEF TypeInv
<1> QED
  BY <1>1, <1>2, <1>3, Zenon DEF Moves, OthersStay, SameCall

\* Who opens, holds and has closed a handle after a move.
LEMMA OthersKeep ==
  ASSUME NEW t \in Threads, NEW next \in Places, NEW e \in Event, Moves(t, next, e),
         NEW h \in Handles
  PROVE  /\ \A u \in Threads \ {t} : /\ Opener(u, h)' <=> Opener(u, h)
                                     /\ Holder(u, h)' <=> Holder(u, h)
                                     /\ Clean(u, h)' <=> Clean(u, h)
                                     /\ u \in Closers(h)' <=> u \in Closers(h)
         /\ Opener(t, h)' <=> next = "emit" /\ Opened(e, h)
         /\ Holder(t, h)' <=> /\ next \in {"closing", "emit"}
                              /\ e.kind = "close" /\ ~e.ok /\ e.handle = h
         /\ Clean(t, h)' <=> Opener(t, h)' /\ e.path # <<>>
         /\ t \in Closers(h)' <=> /\ next = "emit" /\ e.kind = "close"
                                  /\ e.ok /\ e.handle = h
<1>1. ASSUME NEW u \in Threads \ {t}
      PROVE  /\ Opener(u, h)' <=> Opener(u, h)
             /\ Holder(u, h)' <=> Holder(u, h)
             /\ Clean(u, h)' <=> Clean(u, h)
             /\ u \in Closers(h)' <=> u \in Closers(h)
  BY Zenon DEF Moves, SameCall, Opener, Opened, Holder, Clean, Closers
<1>2. pc'[t] = next /\ call'[t] = e
  BY DEF Moves
<1> QED
  BY <1>1, <1>2, Zenon DEF Opener, Opened, Holder, Clean, Closers

LEMMA NoEventFields ==
  /\ NoEvent \in EventRecord
  /\ NoEvent.kind = "none" /\ NoEvent.handle = NoHandle /\ NoEvent.root = NoHandle
  /\ NoEvent.path = NoPath /\ NoEvent.ok = FALSE /\ NoEvent.names = <<>>
<1>1. FALSE \in BOOLEAN
  OBVIOUS
<1> QED
  BY <1>1, SepIsLetter DEF NoEvent, EventRecord, Kinds

LEMMA OpenBegins ==
  ASSUME TypeInv, CallInv, NEW t \in Threads, NEW root, NEW text \in Texts,
         (root = NoHandle /\ text \in AbsolutePaths) \/ root \in known,
         BeginOpen(t, root, text)
  PROVE  \E e \in Event :
           /\ Moves(t, "opening", e) /\ OthersStay(t)
           /\ pc[t] = "idle" /\ calls' \in 0 .. MaxCalls
           /\ e.kind = "open" /\ ~e.ok /\ e.path # NoPath /\ e.names # <<>>
           /\ PathRight(e)
           /\ UNCHANGED <<kernel, known, queue, handlePaths, last, tainted, excused>>
<1>1. PICK path \in {text, <<>>} :
        Begin(t, "opening",
              [NoEvent EXCEPT !.kind = "open", !.root = root, !.path = path,
                              !.names = (IF root = NoHandle THEN <<>> ELSE kernel[root])
                                        \o Components(text)])
  BY DEF BeginOpen
<1>2. /\ text \in Path /\ text # <<>> /\ path \in Path /\ Components(text) \in Path
      /\ text \in AbsolutePaths => Components(text) # <<>>
  <2>1. text \in Path /\ text # <<>>
    BY TrackerAssumption DEF Path
  <2>2. text \in AbsolutePaths => Components(text) # <<>>
    BY TrackerAssumption
  <2> QED
    BY <2>1, <2>2, SepIsLetter, ComponentsType
<1> DEFINE names == (IF root = NoHandle THEN <<>> ELSE kernel[root]) \o Components(text)
           e == [NoEvent EXCEPT !.kind = "open", !.root = root, !.path = path, !.names = names]
<1>3. /\ names \in Path /\ names # <<>>
      /\ root = NoHandle => names = Components(text)
      /\ root # NoHandle => names = kernel[root] \o Components(text)
      /\ root \in known \cup {NoHandle} /\ root \in Handles \cup {NoHandle}
  <2>1. CASE root = NoHandle
    <3>1. text \in AbsolutePaths
      BY <2>1, Distinct DEF TypeInv
    <3>2. names = <<>> \o Components(text)
      BY <2>1
    <3>3. <<>> \o Components(text) = Components(text)
      BY <1>2, ConcatEmptySeq DEF Path
    <3> QED
      BY <1>2, <2>1, <3>1, <3>2, <3>3
  <2>2. CASE root # NoHandle
    <3>1. root \in known /\ root \in Handles
      BY <2>2 DEF TypeInv
    <3>2. kernel[root] \in Path /\ kernel[root] # <<>>
      BY <3>1 DEF TypeInv, CallInv, HandleRight
    <3>3. names = kernel[root] \o Components(text)
      BY <2>2
    <3> HIDE DEF names
    <3>4. names \in Path /\ names # <<>>
      BY <1>2, <3>2, <3>3, ConcatProperties, ConcatEqualIffEmpty DEF Path
    <3> QED
      BY <2>2, <3>1, <3>3, <3>4
  <2> QED
    BY <2>1, <2>2
<1> HIDE DEF names
<1>4. /\ e.kind = "open" /\ e.root = root /\ e.path = path /\ e.names = names
      /\ e.handle = NoHandle /\ e.ok = FALSE
  BY NoEventFields DEF NoEvent
<1>5. e \in EventRecord
  BY <1>2, <1>3, NoEventFields DEF EventRecord, Kinds
<1>6. pc[t] = "idle" /\ calls < MaxCalls /\ calls' = calls + 1
      /\ pc' = [pc EXCEPT ![t] = "opening"] /\ call' = [call EXCEPT ![t] = e]
  BY <1>1 DEF Begin, names
<1> HIDE DEF e
<1>7. e \in Event
  BY <1>4, <1>5 DEF Event, FieldsOf
<1>8. Moves(t, "opening", e) /\ OthersStay(t)
  <2>1. "opening" \in Places
    BY DEF Places
  <2> QED
    BY <1>6, <1>7, <2>1, MoveEffect
<1>9. calls' \in 0 .. MaxCalls
  BY <1>6, TrackerAssumption DEF TypeInv
<1>10. PathRight(e) /\ e.path # NoPath
  BY <1>1, <1>2, <1>3, <1>4, Distinct DEF PathRight
<1> QED
  BY <1>3, <1>4, <1>6, <1>7, <1>8, <1>9, <1>10 DEF BeginOpen, trackerVars, historyVars

LEMMA OpenSucceeds ==
  ASSUME TypeInv, CallInv, NEW t \in Threads, pc[t] = "opening",
         pc' = [pc EXCEPT ![t] = "emit"], NEW h \in Handles, kernel[h] = Free,
         call' = [u \in Threads |->
                   IF u = t THEN [call[t] EXCEPT !.handle = h, !.ok = TRUE]
                   ELSE [call[u] EXCEPT !.crossed = @ \/ u \in Closers(h)]]
  PROVE  \E e \in Event :
           /\ Moves(t, "emit", e)
           /\ e.kind = "open" /\ e.ok /\ e.handle = h
           /\ e.root = call[t].root /\ e.path = call[t].path /\ e.names = call[t].names
           /\ \A u \in Closers(h) : call'[u].crossed
           /\ \A u \in Threads \ {t} :
                call'[u].crossed <=> call[u].crossed \/ u \in Closers(h)
<1> DEFINE e == [call[t] EXCEPT !.handle = h, !.ok = TRUE]
           cross(u) == [call[u] EXCEPT !.crossed = call[u].crossed \/ u \in Closers(h)]
<1>1. call[t] \in Event /\ call[t].kind = "open" /\ call[t].path # NoPath
  BY DEF TypeInv, CallInv, CallRight
<1>2. TRUE \in BOOLEAN
  OBVIOUS
<1>3. /\ e \in EventRecord /\ e.kind = "open" /\ e.ok = TRUE /\ e.handle = h
      /\ e.root = call[t].root /\ e.path = call[t].path /\ e.names = call[t].names
  BY <1>1, <1>2 DEF Event, EventRecord
<1>4. e \in Event
  <2> HIDE DEF e
  <2> QED
    BY <1>1, <1>3 DEF Event, FieldsOf
<1>5. ASSUME NEW u \in Threads
      PROVE  /\ cross(u) \in Event /\ SameCall(cross(u), call[u])
             /\ cross(u).crossed <=> call[u].crossed \/ u \in Closers(h)
  <2> DEFINE x == call[u].crossed \/ u \in Closers(h)
             c == [call[u] EXCEPT !.crossed = x]
  <2>1. x \in BOOLEAN /\ call[u] \in EventRecord /\ FieldsOf(call[u])
    BY DEF TypeInv, Event
  <2> HIDE DEF x
  <2>2. c \in EventRecord /\ c.crossed = x /\ SameCall(c, call[u])
    BY <2>1 DEF EventRecord, SameCall
  <2> HIDE DEF c
  <2>3. FieldsOf(c)
    BY <2>1, <2>2 DEF FieldsOf, SameCall
  <2> QED
    BY <2>2, <2>3 DEF Event, c, x
<1>6. \A u \in Threads : call'[u] = IF u = t THEN e ELSE cross(u)
  OBVIOUS
<1>7. call' \in [Threads -> Event]
  <2>1. call' = [u \in Threads |-> IF u = t THEN e ELSE cross(u)]
    OBVIOUS
  <2> HIDE DEF e, cross
  <2> QED
    BY <1>4, <1>5, <2>1
<1>8. t \notin Closers(h)
  BY DEF Closers
<1>9. pc' \in [Threads -> Places] /\ \A u \in Threads : pc'[u] = IF u = t THEN "emit" ELSE pc[u]
  BY DEF TypeInv, Places
<1> HIDE DEF e, cross
<1>10. Moves(t, "emit", e)
  BY <1>5, <1>6, <1>7, <1>9 DEF Moves
<1>11. \A u \in Threads \ {t} : call'[u].crossed <=> call[u].crossed \/ u \in Closers(h)
  BY <1>5, <1>6
<1>12. \A u \in Closers(h) : call'[u].crossed
  BY <1>8, <1>11 DEF Closers
<1> QED
  BY <1>3, <1>4, <1>10, <1>11, <1>12, Zenon

LEMMA UseBegins ==
  ASSUME TypeInv, CallInv, NEW t \in Threads, NEW h \in known, UseHandle(t, h)
  PROVE  \E e \in Event :
           /\ Moves(t, "emit", e) /\ OthersStay(t)
           /\ pc[t] = "idle" /\ calls' \in 0 .. MaxCalls
           /\ e.kind = "use" /\ e.handle = h /\ e.names = kernel[h]
           /\ UNCHANGED <<kernel, known, queue, handlePaths, last, tainted, excused>>
<1> DEFINE e == [NoEvent EXCEPT !.kind = "use", !.handle = h, !.ok = TRUE,
                                !.names = kernel[h]]
<1>1. h \in Handles /\ kernel[h] \in Path
  BY DEF TypeInv, CallInv, HandleRight
<1>2. TRUE \in BOOLEAN
  OBVIOUS
<1>3. /\ e \in EventRecord /\ e.kind = "use" /\ e.handle = h /\ e.names = kernel[h]
      /\ e.path = NoPath
  BY <1>1, <1>2, NoEventFields DEF EventRecord, Kinds
<1>4. pc[t] = "idle" /\ calls < MaxCalls /\ calls' = calls + 1
      /\ pc' = [pc EXCEPT ![t] = "emit"] /\ call' = [call EXCEPT ![t] = e]
  BY DEF UseHandle, Begin
<1> HIDE DEF e
<1>5. e \in Event
  BY <1>1, <1>3 DEF Event, FieldsOf
<1>6. Moves(t, "emit", e) /\ OthersStay(t)
  <2>1. "emit" \in Places
    BY DEF Places
  <2> QED
    BY <1>4, <1>5, <2>1, MoveEffect
<1>7. calls' \in 0 .. MaxCalls
  BY <1>4, TrackerAssumption DEF TypeInv
<1> QED
  BY <1>3, <1>4, <1>5, <1>6, <1>7 DEF UseHandle, trackerVars, historyVars

LEMMA CloseBegins ==
  ASSUME TypeInv, CallInv, NEW t \in Threads, NEW h \in known, BeginClose(t, h)
  PROVE  \E e \in Event :
           /\ Moves(t, "closing", e) /\ OthersStay(t)
           /\ pc[t] = "idle" /\ calls' \in 0 .. MaxCalls
           /\ e.kind = "close" /\ ~e.ok /\ e.handle = h /\ e.names = kernel[h]
           /\ ~InUse(h) /\ known' = known \ {h}
           /\ UNCHANGED <<kernel, queue, handlePaths, last, tainted, excused>>
<1> DEFINE e == [NoEvent EXCEPT !.kind = "close", !.handle = h, !.names = kernel[h]]
<1>1. h \in Handles /\ kernel[h] \in Path
  BY DEF TypeInv, CallInv, HandleRight
<1>2. /\ e \in EventRecord /\ e.kind = "close" /\ e.handle = h /\ e.names = kernel[h]
      /\ e.path = NoPath /\ e.ok = FALSE
  BY <1>1, NoEventFields DEF EventRecord, Kinds
<1>3. pc[t] = "idle" /\ calls < MaxCalls /\ calls' = calls + 1
      /\ pc' = [pc EXCEPT ![t] = "closing"] /\ call' = [call EXCEPT ![t] = e]
  BY DEF BeginClose, Begin
<1> HIDE DEF e
<1>4. e \in Event
  BY <1>1, <1>2 DEF Event, FieldsOf
<1>5. Moves(t, "closing", e) /\ OthersStay(t)
  <2>1. "closing" \in Places
    BY DEF Places
  <2> QED
    BY <1>3, <1>4, <2>1, MoveEffect
<1>6. calls' \in 0 .. MaxCalls
  BY <1>3, TrackerAssumption DEF TypeInv
<1> QED
  BY <1>2, <1>3, <1>4, <1>5, <1>6 DEF BeginClose, trackerVars, historyVars

LEMMA CloseSucceeds ==
  ASSUME TypeInv, CallInv, NEW t \in Threads, pc[t] = "closing",
         pc' = [pc EXCEPT ![t] = "emit"], call' = [call EXCEPT ![t].ok = TRUE]
  PROVE  \E e \in Event :
           /\ Moves(t, "emit", e) /\ OthersStay(t)
           /\ e.kind = "close" /\ e.ok
           /\ e.handle = call[t].handle /\ e.names = call[t].names
<1> DEFINE e == [call[t] EXCEPT !.ok = TRUE]
<1>1. call[t] \in Event /\ call[t].kind = "close"
  BY DEF TypeInv, CallInv, CallRight
<1>2. TRUE \in BOOLEAN
  OBVIOUS
<1>3. /\ e \in EventRecord /\ e.kind = "close" /\ e.ok = TRUE /\ e.handle = call[t].handle
      /\ e.names = call[t].names /\ e.path = call[t].path
  BY <1>1, <1>2 DEF Event, EventRecord
<1>4. call' = [call EXCEPT ![t] = e]
  OBVIOUS
<1> HIDE DEF e
<1>5. e \in Event
  BY <1>1, <1>3 DEF Event, FieldsOf
<1>6. "emit" \in Places
  BY DEF Places
<1> QED
  BY <1>3, <1>4, <1>5, <1>6, MoveEffect

LEMMA CallFails ==
  ASSUME TypeInv, NEW t \in Threads, pc' = [pc EXCEPT ![t] = "emit"], call' = call
  PROVE  Moves(t, "emit", call[t]) /\ OthersStay(t)
<1>1. call' = [call EXCEPT ![t] = call[t]] /\ call[t] \in Event /\ "emit" \in Places
  BY DEF TypeInv, Places
<1> QED
  BY <1>1, MoveEffect

LEMMA CallReturns ==
  ASSUME TypeInv, NEW t \in Threads, EmitAndReturn(t)
  PROVE  /\ NoEvent \in Event /\ Moves(t, "idle", NoEvent) /\ OthersStay(t)
         /\ pc[t] = "emit" /\ call[t] \in Event
<1>1. NoEvent \in Event
  BY NoEventFields DEF Event, FieldsOf
<1>2. "idle" \in Places
  BY DEF Places
<1> QED
  BY <1>1, <1>2, MoveEffect DEF EmitAndReturn, TypeInv

-----------------------------------------------------------------------------
(* CallInv is inductive.                                                   *)

\* A call in progress stays right when the handles it works with stay known and
\* stand for what they stood for.
LEMMA OtherCallRight ==
  ASSUME NEW t \in Threads, NEW next, NEW e, Moves(t, next, e),
         NEW u \in Threads \ {t}, CallRight(u),
         \A h \in known : kernel'[h] = kernel[h],
         \A h \in known :
           pc[u] # "idle" /\ call[u].kind # "close" /\ h \in {call[u].handle, call[u].root}
             => h \in known'
  PROVE  CallRight(u)'
<1>1. pc'[u] = pc[u] /\ SameCall(call'[u], call[u])
  BY DEF Moves
<1>2. ASSUME call[u].kind = "open"
      PROVE  PathRight(call[u])'
  <2>1. PathRight(call[u]) /\ pc[u] # "idle"
    BY <1>2 DEF CallRight
  <2>2. call[u].root # NoHandle => /\ call[u].root \in known /\ call[u].root \in known'
                                   /\ kernel'[call[u].root] = kernel[call[u].root]
    BY <1>2, <2>1 DEF PathRight
  <2> QED
    BY <1>1, <2>1, <2>2 DEF PathRight, SameCall
<1>3. ASSUME call[u].kind = "use"
      PROVE  call'[u].handle \in known' /\ call'[u].names = kernel'[call'[u].handle]
  <2>1. /\ call[u].handle \in known /\ call[u].names = kernel[call[u].handle]
        /\ pc[u] # "idle"
    BY <1>3 DEF CallRight
  <2> QED
    BY <1>1, <1>3, <2>1 DEF SameCall
<1> QED
  BY <1>1, <1>2, <1>3 DEF CallRight, SameCall

\* What a handle number stands for stays right while it keeps its owner.
LEMMA HandleKept ==
  ASSUME NEW t \in Threads, NEW next \in Places, NEW e \in Event, Moves(t, next, e),
         NEW h \in Handles, HandleRight(h), kernel'[h] = kernel[h],
         h \in known' => h \in known,
         Owner(t, h)' => Owner(t, h) /\ e.names = call[t].names,
         t \notin Closers(h)',
         \A u \in Threads \ {t} : call[u].crossed => call'[u].crossed
  PROVE  HandleRight(h)'
<1>1. \A u \in Threads \ {t} : /\ Owner(u, h)' <=> Owner(u, h)
                               /\ u \in Closers(h)' <=> u \in Closers(h)
                               /\ call'[u].names = call[u].names
  BY OthersKeep DEF Owner, Moves, SameCall
<1>2. call'[t] = e
  BY DEF Moves
<1>3. \A u \in Threads : Owner(u, h)' => Owner(u, h) /\ call'[u].names = call[u].names
  BY <1>1, <1>2
<1>4. \A u \in Closers(h)' : u \in Closers(h) /\ (~call'[u].crossed => ~call[u].crossed)
  <2> SUFFICES ASSUME NEW u \in Threads, u \in Closers(h)'
               PROVE  u \in Closers(h) /\ (~call'[u].crossed => ~call[u].crossed)
    BY DEF Closers
  <2> QED
    BY <1>1
<1> HIDE DEF Owner, Closers
<1> QED
  BY <1>3, <1>4, Zenon DEF HandleRight

LEMMA CrossedStays ==
  ASSUME NEW t \in Threads, OthersStay(t)
  PROVE  \A u \in Threads \ {t} : call[u].crossed => call'[u].crossed
BY DEF OthersStay

LEMMA OthersRight ==
  ASSUME CallInv, NEW t \in Threads, NEW next, NEW e, Moves(t, next, e),
         \A h \in known : kernel'[h] = kernel[h],
         known \subseteq known'
  PROVE  \A u \in Threads \ {t} : CallRight(u)'
<1>1. ASSUME NEW u \in Threads \ {t} PROVE CallRight(u)'
  <2>1. CallRight(u)
    BY DEF CallInv
  <2> QED
    BY <2>1, OtherCallRight
<1> QED
  BY <1>1

LEMMA CallInvOpenBegins ==
  ASSUME TypeInv, CallInv, NEW t \in Threads, NEW e \in Event,
         Moves(t, "opening", e), OthersStay(t), e.kind = "open", ~e.ok,
         e.path # NoPath, e.names # <<>>, PathRight(e), UNCHANGED <<kernel, known>>
  PROVE  CallInv'
<1>1. pc'[t] = "opening" /\ call'[t] = e /\ "opening" \in Places
  BY DEF Moves, Places
<1>2. PathRight(e)'
  BY DEF PathRight
<1>3. CallRight(t)'
  BY <1>1, <1>2 DEF CallRight
<1>4. \A u \in Threads \ {t} : CallRight(u)'
  BY OthersRight
<1>5. ASSUME NEW h \in Handles PROVE HandleRight(h)'
  <2>1. ~Owner(t, h)' /\ t \notin Closers(h)'
    BY <1>1, OthersKeep DEF Owner
  <2>2. HandleRight(h)
    BY DEF CallInv
  <2> QED
    BY <1>1, <2>1, <2>2, HandleKept, CrossedStays
<1> QED
  BY <1>3, <1>4, <1>5 DEF CallInv

LEMMA CallInvUseBegins ==
  ASSUME TypeInv, CallInv, NEW t \in Threads, NEW h \in known, NEW e \in Event,
         Moves(t, "emit", e), OthersStay(t), e.kind = "use", e.handle = h,
         e.names = kernel[h], UNCHANGED <<kernel, known>>
  PROVE  CallInv'
<1>1. pc'[t] = "emit" /\ call'[t] = e /\ "emit" \in Places
  BY DEF Moves, Places
<1>2. CallRight(t)'
  BY <1>1 DEF CallRight
<1>3. \A u \in Threads \ {t} : CallRight(u)'
  BY OthersRight
<1>4. ASSUME NEW g \in Handles PROVE HandleRight(g)'
  <2>1. ~Owner(t, g)' /\ t \notin Closers(g)'
    BY <1>1, OthersKeep DEF Owner, Opened
  <2>2. HandleRight(g)
    BY DEF CallInv
  <2> QED
    BY <1>1, <2>1, <2>2, HandleKept, CrossedStays
<1> QED
  BY <1>2, <1>3, <1>4 DEF CallInv

LEMMA CallInvCloseBegins ==
  ASSUME TypeInv, CallInv, NEW t \in Threads, NEW h \in known, NEW e \in Event,
         Moves(t, "closing", e), OthersStay(t), e.kind = "close", ~e.ok, e.handle = h,
         e.names = kernel[h], ~InUse(h), known' = known \ {h}, UNCHANGED kernel
  PROVE  CallInv'
<1>1. pc'[t] = "closing" /\ call'[t] = e /\ "closing" \in Places
  BY DEF Moves, Places
<1>2. CallRight(t)'
  BY <1>1 DEF CallRight
<1>3. ASSUME NEW u \in Threads \ {t} PROVE CallRight(u)'
  <2>1. pc[u] # "idle" /\ call[u].kind # "close" => h \notin {call[u].handle, call[u].root}
    BY DEF InUse
  <2>2. CallRight(u)
    BY DEF CallInv
  <2> QED
    BY <2>1, <2>2, OtherCallRight
<1>4. ASSUME NEW g \in Handles PROVE HandleRight(g)'
  <2>1. HandleRight(g)
    BY DEF CallInv
  <2>2. t \notin Closers(g)' /\ (Owner(t, g)' => g = h)
    BY <1>1, OthersKeep DEF Owner, Opened
  <2>3. CASE g # h
    BY <1>1, <2>1, <2>2, <2>3, HandleKept, CrossedStays
  <2>4. CASE g = h
    <3>1. \A u \in Threads \ {t} : ~Owner(u, h)'
      BY <1>1, <2>1, <2>4, OthersKeep DEF Owner, HandleRight
    <3>2. \A u \in Threads : Owner(u, h)' => u = t
      BY <3>1
    <3>3. \A u \in Closers(h)' : u \in Closers(h) /\ (~call'[u].crossed => ~call[u].crossed)
      <4> SUFFICES ASSUME NEW u \in Threads, u \in Closers(h)'
                   PROVE  u \in Closers(h) /\ (~call'[u].crossed => ~call[u].crossed)
        BY DEF Closers
      <4>1. u # t
        BY <2>2, <2>4
      <4> QED
        BY <1>1, <4>1, <2>4, OthersKeep DEF OthersStay
    <3>4. h \notin known' /\ kernel'[h] = call'[t].names
      BY <1>1
    <3> HIDE DEF Owner, Closers
    <3> QED
      BY <2>1, <2>4, <3>2, <3>3, <3>4 DEF HandleRight
  <2> QED
    BY <2>3, <2>4
<1> QED
  BY <1>2, <1>3, <1>4 DEF CallInv

\* An object has a path, so its handle is not free.
LEMMA OwnerHasObject ==
  ASSUME TypeInv, NEW h \in Handles, HandleRight(h)
  PROVE  \A t \in Threads : Owner(t, h) => kernel[h] # Free /\ h \notin known
<1>1. ASSUME NEW t \in Threads, Owner(t, h) PROVE kernel[h] # Free /\ h \notin known
  <2>1. h \notin known /\ kernel[h] = call[t].names
    BY <1>1 DEF HandleRight
  <2>2. call[t].names \in Path
    BY DEF TypeInv, Event, EventRecord
  <2> QED
    BY <2>1, <2>2, Distinct
<1> QED
  BY <1>1

LEMMA CallInvOpenSucceeds ==
  ASSUME TypeInv, CallInv, NEW t \in Threads, pc[t] = "opening",
         NEW h \in Handles, kernel[h] = Free, NEW e \in Event, Moves(t, "emit", e),
         e.kind = "open", e.ok, e.handle = h, e.root = call[t].root,
         e.path = call[t].path, e.names = call[t].names,
         \A u \in Closers(h) : call'[u].crossed,
         \A u \in Threads \ {t} : call'[u].crossed <=> call[u].crossed \/ u \in Closers(h),
         kernel' = [kernel EXCEPT ![h] = call[t].names], UNCHANGED known
  PROVE  CallInv'
<1>1. pc'[t] = "emit" /\ call'[t] = e /\ "emit" \in Places
  BY DEF Moves, Places
<1>2. /\ \A g \in Handles : kernel'[g] = IF g = h THEN e.names ELSE kernel[g]
      /\ e.names \in Path /\ e.names # <<>>
  <2>1. CallRight(t) /\ e.names \in Path
    BY DEF CallInv, Event, EventRecord
  <2> QED
    BY <2>1 DEF TypeInv, CallRight
<1>3. h \notin known /\ \A u \in Threads : ~Owner(u, h)
  <2>1. HandleRight(h)
    BY DEF CallInv
  <2>2. h \notin known
    BY <2>1 DEF HandleRight
  <2> QED
    BY <2>1, <2>2, OwnerHasObject
<1>4. \A g \in known : kernel'[g] = kernel[g]
  BY <1>2, <1>3 DEF TypeInv
<1>5. CallRight(t)'
  <2>1. PathRight(call[t]) /\ e.path # NoPath
    BY DEF CallInv, CallRight
  <2>2. PathRight(e)'
    BY <1>4, <2>1 DEF PathRight
  <2> QED
    BY <1>1, <1>2, <2>1, <2>2 DEF CallRight
<1>6. \A u \in Threads \ {t} : CallRight(u)'
  BY <1>4, OthersRight
<1>7. ASSUME NEW g \in Handles PROVE HandleRight(g)'
  <2>1. HandleRight(g)
    BY DEF CallInv
  <2>2. t \notin Closers(g)' /\ (Owner(t, g)' => g = h)
    BY <1>1, OthersKeep DEF Owner, Opened
  <2>3. CASE g # h
    BY <1>1, <1>2, <2>1, <2>2, <2>3, HandleKept
  <2>4. CASE g = h
    <3>1. \A u \in Threads \ {t} : ~Owner(u, h)'
      BY <1>1, <1>3, OthersKeep DEF Owner
    <3>2. \A u \in Threads : Owner(u, h)' => u = t
      BY <3>1
    <3>3. \A u \in Closers(h)' : call'[u].crossed
      <4> SUFFICES ASSUME NEW u \in Threads, u \in Closers(h)'
                   PROVE  call'[u].crossed
        BY DEF Closers
      <4>1. u # t
        BY <2>2, <2>4
      <4> QED
        BY <1>1, <4>1, <2>4, OthersKeep
    <3>4. h \notin known' /\ kernel'[h] = call'[t].names /\ kernel'[h] # <<>>
      BY <1>1, <1>2, <1>3
    <3> HIDE DEF Owner, Closers
    <3> QED
      BY <2>4, <3>2, <3>3, <3>4 DEF HandleRight
  <2> QED
    BY <2>3, <2>4
<1> QED
  BY <1>5, <1>6, <1>7 DEF CallInv

LEMMA CallInvFails ==
  ASSUME TypeInv, CallInv, NEW t \in Threads, pc[t] \in {"opening", "closing"},
         Moves(t, "emit", call[t]), OthersStay(t), UNCHANGED <<kernel, known>>
  PROVE  CallInv'
<1>1. pc'[t] = "emit" /\ call'[t] = call[t] /\ "emit" \in Places /\ call[t] \in Event
  BY DEF Moves, Places, TypeInv
<1>2. CallRight(t) /\ ~call[t].ok /\ call[t].kind \in {"open", "close"}
      /\ (pc[t] = "opening" => call[t].kind = "open")
  BY DEF CallInv, CallRight
<1>3. CallRight(t)'
  <2>1. PathRight(call[t]) => PathRight(call[t])'
    BY <1>1 DEF PathRight
  <2> QED
    BY <1>1, <1>2, <2>1 DEF CallRight
<1>4. \A u \in Threads \ {t} : CallRight(u)'
  BY OthersRight
<1>5. ASSUME NEW h \in Handles PROVE HandleRight(h)'
  <2>1. t \notin Closers(h)' /\ (Owner(t, h)' => Owner(t, h))
    BY <1>1, <1>2, OthersKeep DEF Owner, Opened, Holder
  <2>2. HandleRight(h)
    BY DEF CallInv
  <2> QED
    BY <1>1, <2>1, <2>2, HandleKept, CrossedStays
<1> QED
  BY <1>3, <1>4, <1>5 DEF CallInv

LEMMA CallInvCloseSucceeds ==
  ASSUME TypeInv, CallInv, NEW t \in Threads, pc[t] = "closing",
         NEW e \in Event, Moves(t, "emit", e), OthersStay(t),
         e.kind = "close", e.ok, e.handle = call[t].handle, e.names = call[t].names,
         kernel' = [kernel EXCEPT ![call[t].handle] = Free], UNCHANGED known
  PROVE  CallInv'
<1>h. PICK h : h = call[t].handle
  OBVIOUS
<1>1. pc'[t] = "emit" /\ call'[t] = e /\ "emit" \in Places
  BY DEF Moves, Places
<1>2. h \in Handles /\ Holder(t, h) /\ HandleRight(h)
  <2>1. h \in Handles
    BY <1>h DEF Event, FieldsOf
  <2> QED
    BY <1>h, <2>1 DEF CallInv, CallRight, Holder
<1>3. \A g \in Handles : kernel'[g] = IF g = h THEN Free ELSE kernel[g]
  BY <1>h DEF TypeInv
<1>4. h \notin known /\ \A u \in Threads \ {t} : ~Owner(u, h)
  BY <1>2 DEF HandleRight, Owner
<1>5. CallRight(t)'
  BY <1>1 DEF CallRight
<1>6. \A u \in Threads \ {t} : CallRight(u)'
  <2>1. \A g \in known : kernel'[g] = kernel[g]
    BY <1>3, <1>4 DEF TypeInv
  <2> QED
    BY <2>1, OthersRight
<1>7. ASSUME NEW g \in Handles PROVE HandleRight(g)'
  <2>1. HandleRight(g)
    BY DEF CallInv
  <2>2. ~Owner(t, g)' /\ (t \in Closers(g)' => g = h)
    BY <1>1, <1>h, OthersKeep DEF Owner, Opened
  <2>3. CASE g # h
    BY <1>1, <1>3, <2>1, <2>2, <2>3, HandleKept, CrossedStays
  <2>4. CASE g = h
    <3>1. \A u \in Threads \ {t} : ~Owner(u, h)'
      BY <1>1, <1>2, <1>4, OthersKeep DEF Owner
    <3>2. \A u \in Threads : ~Owner(u, h)'
      BY <2>2, <2>4, <3>1
    <3>3. h \notin known' /\ kernel'[h] = Free /\ kernel'[h] # <<>>
      BY <1>2, <1>3, <1>4, Distinct, SepIsLetter
    <3> HIDE DEF Owner, Closers
    <3> QED
      BY <2>4, <3>2, <3>3 DEF HandleRight
  <2> QED
    BY <2>3, <2>4
<1> QED
  BY <1>5, <1>6, <1>7 DEF CallInv

LEMMA CallInvReturns ==
  ASSUME TypeInv, CallInv, NEW t \in Threads, EmitAndReturn(t)
  PROVE  CallInv' /\ known' \subseteq Handles
<1> DEFINE e == call[t]
           returned == \/ e.kind = "open" /\ e.ok
                       \/ e.kind = "close" /\ ~e.ok
<1>1. /\ NoEvent \in Event /\ Moves(t, "idle", NoEvent) /\ OthersStay(t)
      /\ pc[t] = "emit" /\ e \in Event /\ "idle" \in Places
  BY CallReturns DEF Places
<1>2. pc'[t] = "idle" /\ call'[t] = NoEvent
  BY <1>1 DEF Moves
<1>3. known' = (IF returned THEN known \cup {e.handle} ELSE known)
      /\ kernel' = kernel
  <2>1. known' = IF \/ call[t].kind = "open" /\ call[t].ok
                    \/ call[t].kind = "close" /\ ~call[t].ok
                 THEN known \cup {call[t].handle} ELSE known
    BY DEF EmitAndReturn
  <2>2. kernel' = kernel
    BY DEF EmitAndReturn
  <2> QED
    BY <2>1, <2>2
<1>4. returned => e.handle \in Handles /\ Owner(t, e.handle)
  BY <1>1 DEF Event, FieldsOf, Owner, Opener, Opened, Holder
<1>5. known \subseteq known' /\ known' \subseteq Handles
  BY <1>3, <1>4 DEF TypeInv
<1>6. CallRight(t)'
  BY <1>2, NoEventFields DEF CallRight
<1>7. \A u \in Threads \ {t} : CallRight(u)'
  BY <1>1, <1>3, <1>5, OthersRight
<1>8. ASSUME NEW h \in Handles PROVE HandleRight(h)'
  <2>1. HandleRight(h)
    BY DEF CallInv
  <2>2. ~Owner(t, h)' /\ t \notin Closers(h)'
    BY <1>1, OthersKeep DEF Owner
  <2>3. CASE ~(returned /\ h = e.handle)
    <3>1. h \in known' => h \in known
      BY <1>3, <2>3
    <3> QED
      BY <1>1, <1>3, <2>1, <2>2, <3>1, HandleKept, CrossedStays
  <2>4. CASE returned /\ h = e.handle
    <3>1. kernel[h] # Free /\ \A u \in Threads \ {t} : ~Owner(u, h)
      BY <1>4, <2>1, <2>4, OwnerHasObject DEF HandleRight
    <3>2. \A u \in Threads \ {t} : ~Owner(u, h)'
      BY <1>1, <3>1, OthersKeep DEF Owner
    <3>3. \A u \in Threads : ~Owner(u, h)'
      BY <2>2, <3>2
    <3>4. \A u \in Closers(h)' : u \in Closers(h) /\ (~call'[u].crossed => ~call[u].crossed)
      <4> SUFFICES ASSUME NEW u \in Threads, u \in Closers(h)'
                   PROVE  u \in Closers(h) /\ (~call'[u].crossed => ~call[u].crossed)
        BY DEF Closers
      <4>1. u # t
        BY <2>2
      <4> QED
        BY <1>1, <4>1, OthersKeep DEF OthersStay
    <3> HIDE DEF Owner, Closers
    <3> QED
      BY <1>3, <2>1, <3>1, <3>3, <3>4 DEF HandleRight
  <2> QED
    BY <2>3, <2>4
<1> QED
  BY <1>5, <1>6, <1>7, <1>8 DEF CallInv

-----------------------------------------------------------------------------
(* TableInv is inductive: steps that queue no event.                       *)

\* The entry of a known handle that the trace can be right about is right.
LEMMA KnownEntryRight ==
  ASSUME TypeInv, NEW paths \in Table, NEW h \in Handles, HandleRight(h),
         EntryRight(paths, h), kernel[h] # Free, \A u \in Threads : ~Opener(u, h)
  PROVE  Agrees(paths, h, kernel[h])
BY DEF EntryRight, Agrees, Clean

\* A handle the step is not about.
LEMMA EntryStays ==
  ASSUME NEW tab, NEW h \in Handles, NEW t \in Threads, NEW next \in Places,
         NEW e \in Event, Moves(t, next, e), UNCHANGED queue,
         CallInv, EntryInv(tab, h), kernel'[h] = kernel[h],
         \A g \in known : kernel'[g] = kernel[g],
         \A u \in Threads \ {t} : call[u].crossed => call'[u].crossed,
         ~Opener(t, h), ~Opener(t, h)', t \notin Closers(h), t \notin Closers(h)',
         h \notin excused' => h \notin excused
  PROVE  EntryInv(tab, h)'
<1> DEFINE F == tab[Len(queue)]
<1>1. /\ \A u \in Threads : Opener(u, h)' <=> Opener(u, h)
      /\ \A u \in Threads : Clean(u, h)' <=> Clean(u, h)
      /\ \A u \in Threads : u \in Closers(h)' <=> u \in Closers(h)
  <2>1. ~Clean(t, h) /\ ~Clean(t, h)'
    BY DEF Clean
  <2> QED
    BY <2>1, OthersKeep
<1>2. Closers(h)' = Closers(h)
  BY <1>1 DEF Closers
<1>3. \A u \in Threads \ {t} : SameCall(call'[u], call[u])
  BY DEF Moves
<1>f. PICK G : G = F
  OBVIOUS
<1>4. EntryRight(G, h)'
  <2>1. EntryRight(G, h)
    BY <1>f DEF EntryInv
  <2> HIDE DEF Opener, Clean, Closers
  <2> QED
    BY <1>1, <1>2, <2>1 DEF EntryRight
<1>5. CloserRight(G, h)'
  <2>1. CloserRight(G, h)
    BY <1>f DEF EntryInv
  <2>2. \A u \in Closers(h) : u \in Threads \ {t}
    BY DEF Closers
  <2> HIDE DEF Opener, Clean, Closers
  <2> QED
    BY <1>2, <1>3, <2>1, <2>2 DEF CloserRight, SameCall, Agrees
<1>6. RootRight(G, h)'
  <2>1. RootRight(G, h)
    BY <1>f DEF EntryInv
  <2>2. ASSUME NEW u \in Threads, Opener(u, h), call[u].root # NoHandle
        PROVE  kernel'[call[u].root] = kernel[call[u].root]
    BY <2>2 DEF CallInv, CallRight, PathRight, Opener, Opened
  <2> HIDE DEF Opener, Clean, Closers
  <2> QED
    BY <1>1, <1>3, <2>1, <2>2 DEF RootRight, SameCall, Agrees
<1>7. h \notin excused' => EntryKept(tab, h)'
  <2>1. h \notin excused' => EntryKept(tab, h)
    BY DEF EntryInv
  <2>2. Cleared(tab, h)' <=> Cleared(tab, h)
    BY DEF Cleared
  <2> HIDE DEF Opener, Clean, Closers, Cleared
  <2> QED
    BY <1>1, <1>2, <2>1, <2>2 DEF EntryKept
<1>8. tab[Len(queue')] = G
  BY <1>f
<1> QED
  BY <1>4, <1>5, <1>6, <1>7, <1>8 DEF EntryInv

LEMMA ForeseesStays ==
  ASSUME NEW tab, Foresees(tab), UNCHANGED <<queue, handlePaths>>,
         QueueRight(tab), tainted \subseteq tainted'
  PROVE  Foresees(tab)' /\ QueueRight(tab)'
BY DEF Foresees, QueueRight

\* Steps that neither open nor close anything.
LEMMA TableStays ==
  ASSUME TypeInv, CallInv, TableInv, NEW t \in Threads, NEW next \in Places,
         NEW e \in Event, Moves(t, next, e), OthersStay(t),
         UNCHANGED <<kernel, queue, handlePaths, tainted, excused>>,
         \A h \in Handles : /\ ~Opener(t, h) /\ ~Opener(t, h)'
                            /\ t \notin Closers(h) /\ t \notin Closers(h)'
  PROVE  TableInv'
<1>1. PICK tab : Foresees(tab) /\ TableRight(tab)
  BY DEF TableInv
<1>2. Foresees(tab)' /\ QueueRight(tab)'
  BY <1>1, ForeseesStays DEF TableRight
<1>3. ASSUME NEW h \in Handles \ tainted PROVE EntryInv(tab, h)'
  <2>1. EntryInv(tab, h)
    BY <1>1 DEF TableRight
  <2> QED
    BY <2>1, EntryStays, CrossedStays
<1> QED
  BY <1>2, <1>3 DEF TableInv, TableRight

LEMMA TableOpenSucceeds ==
  ASSUME TypeInv, CallInv, TableInv, NEW t \in Threads, pc[t] = "opening",
         NEW h \in Handles, kernel[h] = Free, NEW e \in Event, Moves(t, "emit", e),
         e.kind = "open", e.ok, e.handle = h, e.root = call[t].root,
         e.path = call[t].path, e.names = call[t].names,
         \A u \in Closers(h) : call'[u].crossed,
         \A u \in Threads \ {t} : call'[u].crossed <=> call[u].crossed \/ u \in Closers(h),
         kernel' = [kernel EXCEPT ![h] = call[t].names],
         excused' = IF Closers(h) # {} \/ call[t].path = <<>>
                    THEN excused \cup {h} ELSE excused \ {h},
         tainted' = IF \/ call[t].root \in tainted
                       \/ call[t].path = <<>> /\ Closers(h) # {}
                    THEN tainted \cup {h} ELSE tainted,
         UNCHANGED <<known, queue, handlePaths>>
  PROVE  TableInv'
<1>1. PICK tab : Foresees(tab) /\ TableRight(tab)
  BY DEF TableInv
<1>f. PICK F : F = tab[Len(queue)]
  OBVIOUS
<1>2. tainted \subseteq tainted' /\ "emit" \in Places
  BY DEF Places
<1>3. Foresees(tab)' /\ QueueRight(tab)'
  BY <1>1, <1>2, ForeseesStays DEF TableRight
<1>4. \A g \in Handles : kernel'[g] = IF g = h THEN e.names ELSE kernel[g]
  BY DEF TypeInv
<1>5. h \notin known /\ (\A u \in Threads : ~Owner(u, h)) /\ t \notin Closers(h)
  <2>1. HandleRight(h)
    BY DEF CallInv
  <2>2. h \notin known /\ t \notin Closers(h)
    BY <2>1 DEF HandleRight, Closers
  <2> QED
    BY <2>1, <2>2, OwnerHasObject
<1>6. \A g \in known : kernel'[g] = kernel[g]
  BY <1>4, <1>5 DEF TypeInv
<1>7. \A g \in Handles : /\ ~Opener(t, g) /\ t \notin Closers(g) /\ t \notin Closers(g)'
                         /\ Opener(t, g)' <=> g = h
  BY <1>2, OthersKeep DEF Opener, Opened, Closers
<1>8. ASSUME NEW g \in Handles \ tainted', g # h PROVE EntryInv(tab, g)'
  <2>1. EntryInv(tab, g) /\ g \in Handles
    BY <1>1, <1>2 DEF TableRight
  <2>2. kernel'[g] = kernel[g] /\ (g \notin excused' => g \notin excused)
    BY <1>4, <1>8
  <2> QED
    BY <1>2, <1>6, <1>7, <1>8, <2>1, <2>2, EntryStays
<1>9. ASSUME h \notin tainted' PROVE EntryInv(tab, h)'
  <2>1. /\ EntryInv(tab, h) /\ call[t].root \notin tainted
        /\ call[t].path = <<>> => Closers(h) = {}
    BY <1>1, <1>9 DEF TableRight
  <2>2. /\ Opener(t, h)' /\ (Clean(t, h)' <=> e.path # <<>>)
        /\ \A u \in Threads : Opener(u, h)' => u = t
    BY <1>2, <1>5, <1>7, OthersKeep DEF Owner
  <2>3. Closers(h)' = Closers(h)
    <3>1. \A u \in Threads : u \in Closers(h)' <=> u \in Closers(h)
      BY <1>2, <1>7, OthersKeep
    <3> QED
      BY <3>1 DEF Closers
  <2>4. EntryRight(F, h)'
    <3>1. EntryRight(F, h)
      BY <1>f, <2>1 DEF EntryInv
    <3>2. F[h] # NoPath => Closers(h) # {}
      BY <1>5, <3>1 DEF EntryRight, Owner, Clean
    <3> HIDE DEF Closers, Clean, Opener
    <3> QED
      BY <2>1, <2>2, <3>2 DEF EntryRight
  <2>5. CloserRight(F, h)'
    BY <2>3 DEF CloserRight
  <2>6. RootRight(F, h)'
    <3> SUFFICES ASSUME e.root # NoHandle
                 PROVE  Agrees(F, e.root, kernel'[e.root])
      <4>1. call'[t] = e
        BY DEF Moves
      <4> HIDE DEF Opener
      <4> QED
        BY <2>2, <4>1 DEF RootRight
    <3>r. PICK r : r = e.root
      OBVIOUS
    <3>1. r \in known /\ r \in Handles \ tainted
      BY <2>1, <3>r DEF CallInv, CallRight, PathRight, TypeInv
    <3>2. HandleRight(r) /\ EntryRight(F, r) /\ F \in Table
      <4>1. Len(queue) \in Nat
        BY LenProperties DEF TypeInv
      <4>2. F \in Table
        BY <1>1, <1>f, <4>1 DEF Foresees
      <4> QED
        BY <1>1, <1>f, <3>1, <4>2 DEF CallInv, TableRight, EntryInv
    <3>3. kernel[r] # Free /\ \A u \in Threads : ~Opener(u, r)
      BY <3>1, <3>2 DEF HandleRight, Owner
    <3>4. Agrees(F, r, kernel[r])
      BY <3>1, <3>2, <3>3, KnownEntryRight
    <3> QED
      BY <1>6, <3>1, <3>4, <3>r
  <2>7. h \notin excused' => EntryKept(tab, h)'
    <3> HIDE DEF Closers, Clean, Opener
    <3> QED
      BY <2>2, <2>3 DEF EntryKept
  <2> QED
    BY <1>f, <2>4, <2>5, <2>6, <2>7 DEF EntryInv
<1> QED
  BY <1>3, <1>8, <1>9 DEF TableInv, TableRight

LEMMA FinalTable ==
  ASSUME TypeInv, NEW tab, Foresees(tab)
  PROVE  tab[Len(queue)] \in Table /\ Len(queue) \in Nat
<1>1. Len(queue) \in Nat
  BY LenProperties DEF TypeInv
<1> QED
  BY <1>1 DEF Foresees

LEMMA TableCloseSucceeds ==
  ASSUME TypeInv, CallInv, TableInv, NEW t \in Threads, pc[t] = "closing",
         NEW e \in Event, Moves(t, "emit", e), OthersStay(t),
         e.kind = "close", e.ok, e.handle = call[t].handle, e.names = call[t].names,
         kernel' = [kernel EXCEPT ![call[t].handle] = Free],
         UNCHANGED <<queue, handlePaths, tainted, excused>>
  PROVE  TableInv'
<1>1. PICK tab : Foresees(tab) /\ TableRight(tab)
  BY DEF TableInv
<1>f. PICK F : F = tab[Len(queue)]
  OBVIOUS
<1>h. PICK h : h = call[t].handle
  OBVIOUS
<1>2. Foresees(tab)' /\ QueueRight(tab)' /\ "emit" \in Places
  BY <1>1, ForeseesStays DEF TableRight, Places
<1>3. h \in Handles /\ Holder(t, h) /\ HandleRight(h)
  <2>1. h \in Handles
    BY <1>h DEF Event, FieldsOf
  <2> QED
    BY <1>h, <2>1 DEF CallInv, CallRight, Holder
<1>4. \A g \in Handles : kernel'[g] = IF g = h THEN Free ELSE kernel[g]
  BY <1>h DEF TypeInv
<1>5. /\ h \notin known /\ kernel[h] = e.names /\ kernel[h] # Free
      /\ \A u \in Threads : ~Opener(u, h)
  <2>1. Owner(t, h)
    BY <1>3 DEF Owner
  <2>2. h \notin known /\ kernel[h] = call[t].names /\ kernel[h] # Free
    BY <1>3, <2>1, OwnerHasObject DEF HandleRight
  <2>3. ~Opener(t, h)
    BY DEF Opener
  <2>4. \A u \in Threads \ {t} : ~Owner(u, h)
    BY <1>3, <2>1 DEF HandleRight
  <2> QED
    BY <2>2, <2>3, <2>4 DEF Owner
<1>6. \A g \in known : kernel'[g] = kernel[g]
  BY <1>4, <1>5 DEF TypeInv
<1>7. \A g \in Handles : /\ ~Opener(t, g) /\ ~Opener(t, g)' /\ t \notin Closers(g)
                         /\ t \in Closers(g)' <=> g = h
  BY <1>2, <1>h, OthersKeep DEF Opener, Opened, Closers
<1>8. ASSUME NEW g \in Handles \ tainted, g # h PROVE EntryInv(tab, g)'
  <2>1. EntryInv(tab, g) /\ g \in Handles /\ kernel'[g] = kernel[g]
    BY <1>1, <1>4, <1>8 DEF TableRight
  <2> QED
    BY <1>2, <1>6, <1>7, <1>8, <2>1, EntryStays, CrossedStays
<1>9. ASSUME h \notin tainted PROVE EntryInv(tab, h)'
  <2>1. EntryRight(F, h) /\ F \in Table
    BY <1>1, <1>3, <1>9, <1>f, FinalTable DEF TableRight, EntryInv
  <2>2. Agrees(F, h, kernel[h])
    BY <1>3, <1>5, <2>1, KnownEntryRight
  <2>3. kernel'[h] = Free /\ t \in Closers(h)'
    BY <1>3, <1>4, <1>7
  <2>4. \A u \in Threads : ~Opener(u, h)'
    <3>1. \A u \in Threads \ {t} : ~Opener(u, h)'
      BY <1>2, <1>3, <1>5, OthersKeep
    <3> QED
      BY <1>3, <1>7, <3>1
  <2>5. EntryRight(F, h)'
    <3>1. Closers(h)' # {}
      BY <2>3
    <3> QED
      BY <2>3, <3>1 DEF EntryRight
  <2>6. CloserRight(F, h)'
    <3> SUFFICES ASSUME NEW u \in Threads, u \in Closers(h)', ~call'[u].crossed
                 PROVE  Agrees(F, h, call'[u].names)
      BY DEF CloserRight, Closers
    <3>1. CASE u = t
      BY <1>5, <2>2, <3>1 DEF Moves
    <3>2. CASE u # t
      <4>1. u \in Closers(h) /\ ~call[u].crossed
        BY <1>2, <1>3, <3>2, OthersKeep DEF OthersStay
      <4> QED
        BY <1>3, <1>5, <4>1 DEF HandleRight
    <3> QED
      BY <3>1, <3>2
  <2>7. RootRight(F, h)'
    <3> HIDE DEF Opener
    <3> QED
      BY <2>4 DEF RootRight
  <2>8. EntryKept(tab, h)'
    BY <2>3 DEF EntryKept
  <2> QED
    BY <1>f, <2>5, <2>6, <2>7, <2>8 DEF EntryInv
<1> QED
  BY <1>2, <1>3, <1>8, <1>9 DEF TableInv, TableRight

\* An event that is dropped: nobody tells the table what became of its handle.
LEMMA TableDropped ==
  ASSUME TypeInv, CallInv, TableInv, NEW t \in Threads, EmitAndReturn(t),
         UNCHANGED queue,
         tainted' = IF call[t].kind = "use" \/ ~call[t].ok THEN tainted
                    ELSE tainted \cup {call[t].handle}
  PROVE  TableInv'
<1>1. PICK tab : Foresees(tab) /\ TableRight(tab)
  BY DEF TableInv
<1>e. PICK e : e = call[t]
  OBVIOUS
<1>2. /\ NoEvent \in Event /\ Moves(t, "idle", NoEvent) /\ OthersStay(t)
      /\ pc[t] = "emit" /\ e \in Event /\ "idle" \in Places
  BY <1>e, CallReturns DEF Places
<1>3. UNCHANGED <<kernel, handlePaths, excused>>
  BY DEF EmitAndReturn, trackerVars
<1>4. tainted \subseteq tainted'
  OBVIOUS
<1>5. Foresees(tab)' /\ QueueRight(tab)'
  BY <1>1, <1>3, <1>4, ForeseesStays DEF TableRight
<1>6. ASSUME NEW h \in Handles \ tainted' PROVE EntryInv(tab, h)'
  <2>1. EntryInv(tab, h) /\ h \in Handles
    BY <1>1, <1>4 DEF TableRight
  <2>2. ~Opener(t, h) /\ t \notin Closers(h)
    BY <1>6 DEF Opener, Opened, Closers
  <2>3. ~Opener(t, h)' /\ t \notin Closers(h)'
    BY <1>2, OthersKeep
  <2> QED
    BY <1>2, <1>3, <2>1, <2>2, <2>3, EntryStays, CrossedStays
<1> QED
  BY <1>5, <1>6 DEF TableInv, TableRight

-----------------------------------------------------------------------------
(* TableInv is inductive: an event is queued.                              *)

\* The table in the end with one event more.
Extended(tab, e) ==
  [i \in 0 .. (Len(queue) + 1) |->
     IF i <= Len(queue) THEN tab[i] ELSE Step(tab[Len(queue)], e)]

LEMMA ExtendedForesees ==
  ASSUME TypeInv, NEW tab, Foresees(tab), NEW e \in Event, UNCHANGED handlePaths,
         queue' = Append(queue, e), NEW next, next = Extended(tab, e)
  PROVE  /\ Foresees(next)'
         /\ Len(queue') = Len(queue) + 1 /\ queue'[Len(queue) + 1] = e
         /\ \A i \in 1 .. Len(queue) : /\ queue'[i] = queue[i]
                                       /\ next[i - 1] = tab[i - 1]
         /\ next[Len(queue)] = tab[Len(queue)]
         /\ next[Len(queue')] = Step(tab[Len(queue)], e)
<1> DEFINE n == Len(queue)
<1>1. tab[n] \in Table /\ n \in Nat
  BY FinalTable
<1>2. /\ queue' \in Seq(Event) /\ Len(queue') = n + 1 /\ queue'[n + 1] = e
      /\ \A i \in 1 .. n : queue'[i] = queue[i]
  BY AppendProperties DEF TypeInv
<1>3. Step(tab[n], e) \in Table
  BY <1>1, StepEffect
<1>4. /\ tab \in [0 .. n -> Table] /\ tab[0] = handlePaths
      /\ \A i \in 1 .. n : tab[i] = Step(tab[i - 1], queue[i])
  BY DEF Foresees
<1>5. \A i \in 0 .. (n + 1) : next[i] = IF i <= n THEN tab[i] ELSE Step(tab[n], e)
  BY DEF Extended
<1>6. next \in [0 .. (n + 1) -> Table]
  <2>1. next = [i \in 0 .. (n + 1) |-> next[i]]
    BY DEF Extended
  <2>2. \A i \in 0 .. (n + 1) : next[i] \in Table
    BY <1>1, <1>3, <1>4, <1>5
  <2> QED
    BY <2>1, <2>2
<1> HIDE DEF n
<1>7. \A i \in 0 .. n : next[i] = tab[i]
  BY <1>1, <1>5
<1>8. next[n + 1] = Step(tab[n], e)
  <2>1. n + 1 \in 0 .. (n + 1) /\ ~(n + 1 <= n)
    BY <1>1
  <2> QED
    BY <1>5, <2>1
<1>9. \A i \in 1 .. n : i - 1 \in 0 .. n /\ i \in 0 .. n
  BY <1>1
<1>10. ASSUME NEW i \in 1 .. (n + 1) PROVE next[i] = Step(next[i - 1], queue'[i])
  <2>1. CASE i \in 1 .. n
    BY <1>2, <1>4, <1>7, <1>9, <2>1
  <2>2. CASE i = n + 1
    <3>1. i - 1 = n /\ n \in 0 .. n
      BY <1>1, <2>2
    <3> QED
      BY <1>2, <1>7, <1>8, <2>2, <3>1
  <2>3. i \in 1 .. n \/ i = n + 1
    BY <1>1
  <2> QED
    BY <2>1, <2>2, <2>3, Zenon
<1>11. next[0] = handlePaths' /\ next[n] = tab[n]
  BY <1>1, <1>4, <1>7
<1>12. Foresees(next)'
  BY <1>2, <1>6, <1>10, <1>11 DEF Foresees
<1> QED
  BY <1>2, <1>7, <1>8, <1>9, <1>11, <1>12 DEF n

\* What an event does to the entries that are not its own.
LEMMA OtherEntries ==
  ASSUME NEW paths \in Table, NEW e \in Event, NEW h \in Handles,
         ~(Observes(e) /\ h = e.handle), NEW names, Agrees(paths, h, names)
  PROVE  Agrees(Step(paths, e), h, names)
BY StepEffect DEF Agrees

\* The directory of an open in progress stays known, so no event is about to
\* tell the table of another object behind it.
LEMMA RootsStayRight ==
  ASSUME TypeInv, CallInv, NEW paths \in Table, NEW t \in Threads, pc[t] = "emit",
         NEW h \in Handles, RootRight(paths, h)
  PROVE  RootRight(Step(paths, call[t]), h)
<1>1. call[t] \in Event
  BY DEF TypeInv
<1>e. PICK e : e = call[t]
  OBVIOUS
<1>2. Observes(e) => Opener(t, e.handle) /\ e.handle \in Handles
  <2>1. Observes(e) => e.kind = "open" /\ e.ok /\ e.handle \in Handles
    BY <1>1, <1>e, StepEffect, ResolvedType DEF Observes, Event, EventRecord
  <2> QED
    BY <1>e, <2>1 DEF Opener, Opened
<1>3. ASSUME NEW u \in Threads, Opener(u, h), call[u].root # NoHandle
      PROVE  Agrees(Step(paths, e), call[u].root, kernel[call[u].root])
  <2>r. PICK r : r = call[u].root
    OBVIOUS
  <2>1. r \in known /\ r \in Handles
    BY <1>3, <2>r DEF CallInv, CallRight, PathRight, Opener, Opened, TypeInv
  <2>2. \A v \in Threads : ~Opener(v, r)
    BY <2>1 DEF CallInv, HandleRight, Owner
  <2>3. ~(Observes(e) /\ r = e.handle)
    BY <1>2, <2>2
  <2>4. Agrees(paths, r, kernel[r])
    BY <1>3, <2>r DEF RootRight
  <2> QED
    BY <1>1, <1>e, <2>1, <2>3, <2>4, <2>r, OtherEntries
<1> QED
  BY <1>3, <1>e DEF RootRight

\* The entry made for a handle that was just opened.
LEMMA ResolvedNames ==
  ASSUME TypeInv, CallInv, NEW paths \in Table, NEW t \in Threads,
         NEW h \in Handles, Clean(t, h), RootRight(paths, h)
  PROVE  /\ Observes(call[t]) /\ call[t].handle = h
         /\ ResolvedPath(paths, call[t]) \in Path
         /\ Names(ResolvedPath(paths, call[t]), kernel[h])
<1>e. PICK e : e = call[t]
  OBVIOUS
<1>1. /\ pc[t] = "emit" /\ e \in Event /\ e.kind = "open" /\ e.ok /\ e.handle = h
      /\ e.path # <<>> /\ e.path # NoPath /\ PathRight(e)
  BY <1>e DEF Clean, Opener, Opened, CallInv, CallRight, TypeInv
<1>2. Observes(e)
  BY <1>1, Distinct DEF Observes
<1>3. kernel[h] = e.names
  <2>1. Owner(t, h)
    BY DEF Clean, Owner
  <2> QED
    BY <1>e, <2>1 DEF CallInv, HandleRight
<1>4. e.path \in Texts /\ e.path \in Path /\ OneSeparator(e.path)
  BY <1>1, TrackerAssumption DEF PathRight, Path
<1>5. ResolvedPath(paths, e) \in Path
  BY <1>1, <1>2, ResolvedType
<1>6. Names(ResolvedPath(paths, e), e.names)
  <2>1. CASE e.root = NoHandle
    <3>1. ResolvedPath(paths, e) = e.path /\ e.names = Components(e.path)
      BY <1>1, <2>1 DEF ResolvedPath, PathRight
    <3> QED
      BY <1>4, <3>1, TextNames
  <2>2. CASE e.root # NoHandle
    <3>r. PICK r : r = e.root
      OBVIOUS
    <3>1. r \in known /\ r \in Handles /\ e.names = kernel[r] \o Components(e.path)
      BY <1>1, <2>2, <3>r DEF PathRight, TypeInv
    <3>2. kernel[r] \in Path
      BY <3>1 DEF CallInv, HandleRight, TypeInv
    <3>3. Agrees(paths, r, kernel[r])
      BY <1>e, <2>2, <3>r DEF RootRight, Clean
    <3>4. CASE paths[r] # NoPath
      <4>1. ResolvedPath(paths, e) = Join(paths[r], e.path)
        BY <2>2, <3>1, <3>4, <3>r DEF ResolvedPath, Tracked
      <4>2. paths[r] \in Path /\ Names(paths[r], kernel[r])
        BY <3>1, <3>3, <3>4 DEF Table, Agrees
      <4> QED
        BY <1>1, <1>4, <3>1, <3>2, <4>1, <4>2, JoinNames
    <3>5. CASE paths[r] = NoPath
      <4>1. ResolvedPath(paths, e) = e.path
        BY <3>5, <3>r DEF ResolvedPath, Tracked
      <4> QED
        BY <1>4, <3>1, <3>2, <4>1, TextNames
    <3> QED
      BY <3>4, <3>5
  <2> QED
    BY <2>1, <2>2
<1> QED
  BY <1>1, <1>2, <1>3, <1>5, <1>6, <1>e

\* The event of a use or a close is annotated with the path of its handle.
LEMMA QueuedRight ==
  ASSUME TypeInv, CallInv, NEW paths \in Table, NEW t \in Threads, pc[t] = "emit",
         call[t].kind \in {"use", "close"}, ~call[t].crossed,
         EntryRight(paths, call[t].handle), CloserRight(paths, call[t].handle)
  PROVE  Agrees(paths, call[t].handle, call[t].names)
<1>h. PICK h : h = call[t].handle
  OBVIOUS
<1>1. h \in Handles /\ HandleRight(h) /\ CallRight(t)
  <2>1. call[t] \in Event
    BY DEF TypeInv
  <2>2. h \in Handles
    BY <1>h, <2>1 DEF Event, FieldsOf
  <2> QED
    BY <2>2 DEF CallInv
<1>2. CASE call[t].kind = "use"
  <2>1. h \in known /\ call[t].names = kernel[h]
    BY <1>1, <1>2, <1>h DEF CallRight
  <2>2. kernel[h] # Free /\ \A u \in Threads : ~Opener(u, h)
    BY <1>1, <2>1 DEF HandleRight, Owner
  <2> QED
    BY <1>1, <1>h, <2>1, <2>2, KnownEntryRight
<1>3. CASE call[t].kind = "close" /\ call[t].ok
  BY <1>3, <1>h DEF CloserRight, Closers
<1>4. CASE call[t].kind = "close" /\ ~call[t].ok
  <2>1. Owner(t, h) /\ ~Opener(t, h)
    BY <1>4, <1>h DEF Owner, Holder, Opener, Opened
  <2>2. kernel[h] = call[t].names /\ kernel[h] # Free
    BY <1>1, <2>1, OwnerHasObject DEF HandleRight
  <2>3. \A u \in Threads : ~Opener(u, h)
    BY <1>1, <2>1 DEF HandleRight, Owner
  <2> QED
    BY <1>1, <1>h, <2>2, <2>3, KnownEntryRight
<1> QED
  BY <1>2, <1>3, <1>4

LEMMA TableQueued ==
  ASSUME TypeInv, CallInv, TableInv, NEW t \in Threads, EmitAndReturn(t),
         queue' = Append(queue, call[t]), UNCHANGED tainted
  PROVE  TableInv'
<1>1. PICK tab : Foresees(tab) /\ TableRight(tab)
  BY DEF TableInv
<1>e. PICK e : e = call[t]
  OBVIOUS
<1>n. PICK n : n = Len(queue)
  OBVIOUS
<1>f. PICK F : F = tab[n]
  OBVIOUS
<1>t. PICK next : next = Extended(tab, e)
  OBVIOUS
<1>2. /\ NoEvent \in Event /\ Moves(t, "idle", NoEvent) /\ OthersStay(t)
      /\ pc[t] = "emit" /\ e \in Event /\ "idle" \in Places
  BY <1>e, CallReturns DEF Places
<1>3. UNCHANGED <<kernel, handlePaths, excused>>
  BY DEF EmitAndReturn, trackerVars
<1>4. /\ Foresees(next)'
      /\ Len(queue') = n + 1 /\ queue'[n + 1] = e
      /\ \A i \in 1 .. n : queue'[i] = queue[i] /\ next[i - 1] = tab[i - 1]
      /\ next[n] = F
      /\ next[Len(queue')] = Step(F, e)
  BY <1>1, <1>2, <1>3, <1>e, <1>f, <1>n, <1>t, ExtendedForesees
<1>5. F \in Table /\ n \in Nat
  BY <1>1, <1>f, <1>n, FinalTable
<1>6. \A h \in Handles \ tainted : EntryInv(tab, h)
  BY <1>1 DEF TableRight
<1>7. QueueRight(next)'
  <2> SUFFICES ASSUME NEW i \in 1 .. (n + 1), queue'[i].kind \in {"use", "close"},
                      ~queue'[i].crossed, queue'[i].handle \notin tainted
               PROVE  Agrees(next[i - 1], queue'[i].handle, queue'[i].names)
    BY <1>4 DEF QueueRight
  <2>1. CASE i \in 1 .. n
    <3>1. Agrees(tab[i - 1], queue[i].handle, queue[i].names)
      BY <1>1, <1>4, <1>n, <2>1 DEF TableRight, QueueRight
    <3> QED
      BY <1>4, <2>1, <3>1
  <2>2. CASE i = n + 1
    <3>1. e.handle \in Handles \ tainted
      BY <1>2, <1>4, <2>2 DEF Event, FieldsOf
    <3>2. EntryRight(F, e.handle) /\ CloserRight(F, e.handle)
      BY <1>6, <1>f, <1>n, <3>1 DEF EntryInv
    <3>3. Agrees(F, e.handle, e.names)
      BY <1>2, <1>4, <1>5, <1>e, <2>2, <3>2, QueuedRight
    <3>4. i - 1 = n
      BY <1>5, <2>2
    <3> QED
      BY <1>4, <2>2, <3>3, <3>4
  <2>3. i \in 1 .. n \/ i = n + 1
    BY <1>5
  <2> QED
    BY <2>1, <2>2, <2>3, Zenon
<1>8. ASSUME NEW h \in Handles \ tainted PROVE EntryInv(next, h)'
  <2>p. PICK P : P = Step(F, e)
    OBVIOUS
  <2>0. EntryInv(tab, h) /\ HandleRight(h) /\ h \in Handles
    BY <1>6 DEF CallInv
  <2>1. /\ EntryRight(F, h) /\ CloserRight(F, h) /\ RootRight(F, h)
        /\ h \notin excused => EntryKept(tab, h)
    BY <1>f, <1>n, <2>0 DEF EntryInv
  <2>2. /\ \A u \in Threads \ {t} : /\ Opener(u, h)' <=> Opener(u, h)
                                    /\ Clean(u, h)' <=> Clean(u, h)
                                    /\ u \in Closers(h)' <=> u \in Closers(h)
        /\ ~Opener(t, h)' /\ ~Clean(t, h)' /\ t \notin Closers(h)'
    BY <1>2, <2>0, OthersKeep DEF Clean
  <2>3. \A u \in Threads \ {t} : call'[u] = call[u]
    BY <1>2 DEF OthersStay
  <2>4. RootRight(P, h)'
    <3>1. RootRight(P, h)
      BY <1>2, <1>5, <1>e, <2>0, <2>1, <2>p, RootsStayRight
    <3> HIDE DEF Opener
    <3> QED
      BY <1>3, <2>2, <2>3, <3>1 DEF RootRight, Agrees
  <2>5. Cleared(tab, h) => Cleared(next, h)'
    <3> SUFFICES ASSUME NEW i \in 1 .. n, Clears(tab[i - 1], queue[i]),
                        h \in Tracked(tab[i - 1]) \ {queue[i].handle}
                 PROVE  Cleared(next, h)'
      BY <1>n DEF Cleared
    <3>1. i \in 1 .. (n + 1)
      BY <1>5
    <3>2. Clears(next[i - 1], queue'[i]) /\ h \in Tracked(next[i - 1]) \ {queue'[i].handle}
      BY <1>4
    <3> HIDE DEF Clears, Tracked
    <3> QED
      BY <1>4, <3>1, <3>2 DEF Cleared
  <2>6. Clears(F, e) /\ h \in Tracked(F) \ {e.handle} => Cleared(next, h)'
    <3>1. n + 1 \in 1 .. (n + 1) /\ (n + 1) - 1 = n
      BY <1>5
    <3> HIDE DEF Clears, Tracked
    <3> QED
      BY <1>4, <3>1 DEF Cleared
  <2>7. P[h] = IF Observes(e)
               THEN IF h = e.handle THEN ResolvedPath(F, e)
                    ELSE IF Clears(F, e) THEN NoPath ELSE F[h]
               ELSE IF e.kind = "close" /\ e.ok /\ h = e.handle THEN NoPath
               ELSE F[h]
    BY <1>2, <1>5, <2>0, <2>p, StepEffect
  <2>8. Closers(h)' = Closers(h) \ {t}
    BY <2>2 DEF Closers
  <2>9. /\ EntryRight(P, h)' /\ CloserRight(P, h)'
        /\ h \notin excused =>
             (kernel[h] # Free =>
               /\ Closers(h)' = {}
               /\ (\E u \in Threads : Clean(u, h)') \/ P[h] # NoPath \/ Cleared(next, h)')
    <3>1. CASE Clean(t, h)
      <4>1. /\ Observes(e) /\ e.handle = h
            /\ P[h] \in Path /\ Names(P[h], kernel[h])
        BY <1>5, <1>e, <2>0, <2>1, <2>7, <3>1, ResolvedNames
      <4>2. kernel[h] # Free /\ \A u \in Threads \ {t} : ~Opener(u, h)
        BY <2>0, <3>1, OwnerHasObject DEF HandleRight, Owner, Clean
      <4>3. \A u \in Threads : ~Opener(u, h)'
        BY <2>2, <4>2
      <4>4. \A u \in Closers(h)' : call'[u].crossed
        <5> SUFFICES ASSUME NEW u \in Closers(h) \ {t} PROVE call'[u].crossed
          BY <2>8
        <5>1. u \in Threads \ {t} /\ call[u].crossed
          BY <2>0, <4>2 DEF HandleRight, Closers
        <5> QED
          BY <2>3, <5>1
      <4>5. h \notin excused => Closers(h)' = {}
        BY <2>1, <2>8, <4>2 DEF EntryKept
      <4>6. P[h] # NoPath
        BY <4>1, Distinct
      <4>7. EntryRight(P, h)'
        <5> HIDE DEF Opener, Closers, Clean
        <5> QED
          BY <1>3, <4>1, <4>2, <4>3 DEF EntryRight
      <4>8. CloserRight(P, h)'
        <5> HIDE DEF Closers
        <5> QED
          BY <4>4 DEF CloserRight
      <4> QED
        BY <4>5, <4>6, <4>7, <4>8
    <3>2. CASE Opener(t, h) /\ ~Clean(t, h)
      <4>1. e.kind = "open" /\ e.path = <<>> /\ ~Observes(e)
        BY <1>e, <3>2 DEF Opener, Opened, Clean, Observes
      <4>2. kernel[h] # Free /\ \A u \in Threads : ~Clean(u, h)
        BY <2>0, <3>2, OwnerHasObject DEF HandleRight, Owner, Clean
      <4>3. P[h] = NoPath /\ F[h] = NoPath
        <5>1. F[h] = NoPath
          BY <2>1, <3>2, <4>2 DEF EntryRight
        <5> QED
          BY <2>7, <4>1, <5>1
      <4>4. EntryRight(P, h)' /\ CloserRight(P, h)'
        BY <4>3 DEF EntryRight, CloserRight, Agrees
      <4>5. h \notin excused => Closers(h)' = {} /\ Cleared(next, h)'
        <5> SUFFICES ASSUME h \notin excused PROVE Closers(h)' = {} /\ Cleared(next, h)'
          OBVIOUS
        <5>1. Closers(h) = {} /\ Cleared(tab, h)
          BY <1>f, <1>n, <2>1, <4>2, <4>3 DEF EntryKept
        <5> QED
          BY <2>5, <2>8, <5>1
      <4> QED
        BY <4>4, <4>5
    <3>3. CASE t \in Closers(h)
      <4>1. P[h] = NoPath
        <5>1. e.kind = "close" /\ e.ok /\ h = e.handle
          BY <1>e, <3>3 DEF Closers
        <5>2. ~Observes(e)
          BY <1>2, <1>5, <5>1, StepEffect
        <5> QED
          BY <2>7, <5>1, <5>2
      <4>2. EntryRight(P, h)' /\ CloserRight(P, h)'
        BY <4>1 DEF EntryRight, CloserRight, Agrees
      <4>3. h \notin excused => kernel[h] = Free
        BY <2>1, <3>3 DEF EntryKept
      <4> QED
        BY <4>2, <4>3
    <3>4. CASE ~Opener(t, h) /\ t \notin Closers(h)
      <4>1. ~Clean(t, h)
        BY <3>4 DEF Clean
      <4>2. /\ \A u \in Threads : Opener(u, h)' <=> Opener(u, h)
            /\ \A u \in Threads : Clean(u, h)' <=> Clean(u, h)
            /\ Closers(h)' = Closers(h)
        BY <2>2, <2>8, <3>4, <4>1
      <4>3. /\ ~(e.kind = "close" /\ e.ok /\ h = e.handle)
            /\ ~(Observes(e) /\ h = e.handle)
        <5>1. Observes(e) => e.kind = "open" /\ e.ok
          BY <1>2, <1>5, StepEffect DEF Observes
        <5> QED
          BY <1>2, <1>e, <3>4, <5>1 DEF Opener, Opened, Closers
      <4>4. P[h] = IF Clears(F, e) THEN NoPath ELSE F[h]
        <5>1. Clears(F, e) => Observes(e)
          BY DEF Clears
        <5> QED
          BY <2>7, <4>3, <5>1
      <4>5. EntryRight(P, h)'
        <5> HIDE DEF Opener, Closers, Clean, Clears
        <5> QED
          BY <1>3, <2>1, <4>2, <4>4 DEF EntryRight
      <4>6. CloserRight(P, h)'
        <5>1. \A u \in Closers(h) : u \in Threads \ {t}
          BY <3>4 DEF Closers
        <5> HIDE DEF Opener, Closers, Clean, Clears
        <5> QED
          BY <2>1, <2>3, <4>2, <4>4, <5>1 DEF CloserRight, Agrees
      <4>7. ASSUME h \notin excused, kernel[h] # Free
            PROVE  /\ Closers(h)' = {}
                   /\ (\E u \in Threads : Clean(u, h)') \/ P[h] # NoPath
                        \/ Cleared(next, h)'
        <5>1. /\ Closers(h) = {}
              /\ (\E u \in Threads : Clean(u, h)) \/ F[h] # NoPath \/ Cleared(tab, h)
          BY <1>f, <1>n, <2>1, <4>7 DEF EntryKept
        <5>2. CASE F[h] # NoPath /\ Clears(F, e)
          <6>1. h \in Tracked(F) \ {e.handle}
            BY <2>0, <4>3, <5>2 DEF Tracked, Clears
          <6> QED
            BY <2>6, <4>2, <5>1, <5>2, <6>1
        <5>3. CASE ~(F[h] # NoPath /\ Clears(F, e))
          <6> HIDE DEF Opener, Closers, Clean, Clears, Cleared
          <6> QED
            BY <2>5, <4>2, <4>4, <5>1, <5>3
        <5> QED
          BY <5>2, <5>3
      <4> QED
        BY <4>5, <4>6, <4>7
    <3> QED
      BY <3>1, <3>2, <3>3, <3>4
  <2>10. next[Len(queue')] = P
    BY <1>4, <2>p
  <2>11. h \notin excused' => EntryKept(next, h)'
    <3> HIDE DEF Closers, Clean, Cleared
    <3> QED
      BY <1>3, <2>9, <2>10 DEF EntryKept
  <2> QED
    BY <2>4, <2>9, <2>10, <2>11 DEF EntryInv
<1> QED
  BY <1>4, <1>7, <1>8 DEF TableInv, TableRight

-----------------------------------------------------------------------------
(* TableInv is inductive: the writer takes an event.                       *)

LEMMA HeadOfQueue ==
  ASSUME TypeInv, queue # <<>>
  PROVE  /\ Len(queue) \in Nat \ {0} /\ queue[1] \in Event /\ Head(queue) = queue[1]
         /\ Tail(queue) \in Seq(Event) /\ Len(Tail(queue)) = Len(queue) - 1
         /\ \A i \in 1 .. Len(Tail(queue)) : Tail(queue)[i] = queue[i + 1]
<1>1. queue \in Seq(Event)
  BY DEF TypeInv
<1>2. Len(queue) \in Nat \ {0}
  BY <1>1, EmptySeq
<1>3. queue[1] \in Event /\ Head(queue) = queue[1]
  BY <1>1, <1>2
<1> QED
  BY <1>1, <1>2, <1>3, HeadTailProperties

LEMMA TableWritten ==
  ASSUME TypeInv, CallInv, TableInv, WriteEvent
  PROVE  TableInv'
<1>1. PICK tab : Foresees(tab) /\ TableRight(tab)
  BY DEF TableInv
<1>n. PICK n : n = Len(queue)
  OBVIOUS
<1>t. PICK next : next = [i \in 0 .. (n - 1) |-> tab[i + 1]]
  OBVIOUS
<1>2. /\ n \in Nat \ {0} /\ queue[1] \in Event /\ Head(queue) = queue[1]
      /\ Len(queue') = n - 1 /\ \A i \in 1 .. (n - 1) : queue'[i] = queue[i + 1]
  <2>1. queue # <<>> /\ queue' = Tail(queue)
    BY DEF WriteEvent
  <2> QED
    BY <1>n, <2>1, HeadOfQueue
<1>3. /\ tab \in [0 .. n -> Table] /\ tab[0] = handlePaths
      /\ \A i \in 1 .. n : tab[i] = Step(tab[i - 1], queue[i])
  BY <1>1, <1>n DEF Foresees
<1>4. handlePaths' = Step(handlePaths, queue[1])
  BY <1>2 DEF WriteEvent, Step
<1>5. \A i \in 0 .. (n - 1) : next[i] = tab[i + 1]
  BY <1>t
<1>6. \A i \in 1 .. (n - 1) : /\ i - 1 \in 0 .. (n - 1) /\ (i - 1) + 1 = i
                              /\ i + 1 \in 1 .. n /\ i \in 0 .. (n - 1) /\ (i + 1) - 1 = i
  BY <1>2
<1>7. next[n - 1] = tab[n]
  <2>1. n - 1 \in 0 .. (n - 1) /\ (n - 1) + 1 = n
    BY <1>2
  <2> QED
    BY <1>5, <2>1
<1>8. Foresees(next)'
  <2>1. next \in [0 .. (n - 1) -> Table]
    <3>1. \A i \in 0 .. (n - 1) : i + 1 \in 0 .. n
      BY <1>2
    <3> QED
      BY <1>3, <1>t, <3>1
  <2>2. next[0] = handlePaths'
    <3>1. 0 \in 0 .. (n - 1) /\ 1 \in 1 .. n /\ 0 + 1 = 1 /\ 1 - 1 = 0
      BY <1>2
    <3>2. next[0] = tab[1] /\ tab[1] = Step(tab[0], queue[1])
      BY <1>3, <1>5, <3>1
    <3> QED
      BY <1>3, <1>4, <3>2
  <2>3. ASSUME NEW i \in 1 .. (n - 1) PROVE next[i] = Step(next[i - 1], queue'[i])
    <3>1. tab[i + 1] = Step(tab[(i + 1) - 1], queue[i + 1])
      BY <1>3, <1>6
    <3> QED
      BY <1>2, <1>5, <1>6, <3>1
  <2> QED
    BY <1>2, <2>1, <2>2, <2>3 DEF Foresees
<1>9. QueueRight(next)'
  <2> SUFFICES ASSUME NEW i \in 1 .. (n - 1), queue'[i].kind \in {"use", "close"},
                      ~queue'[i].crossed, queue'[i].handle \notin tainted
               PROVE  Agrees(next[i - 1], queue'[i].handle, queue'[i].names)
    BY <1>2 DEF QueueRight, WriteEvent
  <2>1. queue'[i] = queue[i + 1] /\ next[i - 1] = tab[(i + 1) - 1] /\ i + 1 \in 1 .. n
    BY <1>2, <1>5, <1>6
  <2> QED
    BY <1>1, <1>n, <2>1 DEF TableRight, QueueRight
<1>10. UNCHANGED <<kernel, known, pc, call, tainted>>
  BY DEF WriteEvent, programVars
<1>11. /\ excused \subseteq excused'
       /\ Clears(handlePaths, queue[1]) =>
            Tracked(handlePaths) \ {queue[1].handle} \subseteq excused'
  BY <1>2 DEF WriteEvent
<1>12. ASSUME NEW h \in Handles \ tainted PROVE EntryInv(next, h)'
  <2>f. PICK F : F = tab[n]
    OBVIOUS
  <2>1. EntryInv(tab, h)
    BY <1>1 DEF TableRight
  <2>2. EntryRight(F, h) /\ CloserRight(F, h) /\ RootRight(F, h)
    BY <1>n, <2>1, <2>f DEF EntryInv
  <2>3. /\ \A u \in Threads : Opener(u, h)' <=> Opener(u, h)
        /\ \A u \in Threads : Clean(u, h)' <=> Clean(u, h)
        /\ Closers(h)' = Closers(h)
    BY <1>10 DEF Clean, Opener, Closers
  <2>4. EntryRight(F, h)' /\ CloserRight(F, h)' /\ RootRight(F, h)'
    <3> HIDE DEF Opener, Clean, Closers
    <3> QED
      BY <1>10, <2>2, <2>3 DEF EntryRight, CloserRight, RootRight, Agrees
  <2>5. h \notin excused' => EntryKept(next, h)'
    <3> SUFFICES ASSUME h \notin excused' PROVE EntryKept(next, h)'
      OBVIOUS
    <3>1. EntryKept(tab, h)
      BY <1>11, <2>1 DEF EntryInv
    <3>2. Cleared(tab, h) => Cleared(next, h)'
      <4> SUFFICES ASSUME NEW i \in 1 .. n, Clears(tab[i - 1], queue[i]),
                          h \in Tracked(tab[i - 1]) \ {queue[i].handle}
                   PROVE  Cleared(next, h)'
        BY <1>n DEF Cleared
      <4>1. i # 1
        BY <1>3, <1>11
      <4>2. i - 1 \in 1 .. (n - 1) /\ (i - 1) + 1 = i
        BY <1>2, <4>1
      <4>3. queue'[i - 1] = queue[i] /\ next[(i - 1) - 1] = tab[i - 1]
        BY <1>2, <1>5, <1>6, <4>2
      <4>4. /\ Clears(next[(i - 1) - 1], queue'[i - 1])
            /\ h \in Tracked(next[(i - 1) - 1]) \ {queue'[i - 1].handle}
        BY <4>3
      <4> HIDE DEF Clears, Tracked
      <4> QED
        BY <1>2, <4>2, <4>4 DEF Cleared
    <3> HIDE DEF Clean, Closers, Cleared
    <3> QED
      BY <1>2, <1>7, <1>10, <1>n, <2>3, <3>1, <3>2 DEF EntryKept
  <2> QED
    BY <1>2, <1>7, <2>4, <2>5, <2>f DEF EntryInv
<1> QED
  BY <1>8, <1>9, <1>10, <1>12 DEF TableInv, TableRight

\* The event is annotated with what the table has before it.
LEMMA WrittenRight ==
  ASSUME TypeInv, TableInv, WriteEvent
  PROVE  AnnotationsCorrect'
<1>1. PICK tab : Foresees(tab) /\ TableRight(tab)
  BY DEF TableInv
<1>e. PICK e : e = Head(queue)
  OBVIOUS
<1>2. e \in Event /\ e = queue[1] /\ 1 \in 1 .. Len(queue) /\ 1 - 1 = 0
  BY <1>e, HeadOfQueue DEF WriteEvent
<1>3. tab[0] = handlePaths /\ handlePaths \in Table
  BY <1>1 DEF Foresees, TypeInv
<1>4. last' = Annotate(Observe(handlePaths, e), e) /\ tainted' = tainted
  BY <1>e DEF WriteEvent
<1>5. ASSUME Annotated', ~last'.crossed, last'.handle \notin tainted
      PROVE  Names(last'.path, last'.names)
  <2>1. /\ last'.kind = e.kind /\ last'.handle = e.handle
        /\ last'.names = e.names /\ last'.crossed = e.crossed
    BY <1>2, <1>4 DEF Annotate, Event, EventRecord
  <2>2. e.kind \in {"use", "close"} /\ e.path = NoPath /\ e.handle \in Handles
    BY <1>2, <1>5, <2>1 DEF Annotated, Event, FieldsOf
  <2>3. ~Observes(e)
    BY <1>2, <1>3, <2>2, StepEffect
  <2>4. last'.path = handlePaths[e.handle]
    <3>1. Observe(handlePaths, e) = handlePaths
      BY <2>3 DEF Observe
    <3>2. e.handle # NoHandle
      BY <2>2, Distinct
    <3> QED
      BY <1>2, <1>4, <2>2, <3>1, <3>2 DEF Annotate, Event, EventRecord
  <2>5. Agrees(tab[1 - 1], e.handle, e.names)
    <3>1. ~e.crossed /\ e.handle \notin tainted
      BY <1>5, <2>1
    <3> QED
      BY <1>1, <1>2, <2>2, <3>1 DEF TableRight, QueueRight
  <2> QED
    BY <1>2, <1>3, <1>5, <2>1, <2>4, <2>5 DEF Annotated, Agrees
<1> QED
  BY <1>4, <1>5 DEF AnnotationsCorrect

-----------------------------------------------------------------------------
(* The invariant, action by action.                                        *)

LEMMA AnnotationsStay ==
  ASSUME AnnotationsCorrect, UNCHANGED last, tainted \subseteq tainted'
  PROVE  AnnotationsCorrect'
BY DEF AnnotationsCorrect, Annotated

LEMMA CallInvStays ==
  ASSUME CallInv, UNCHANGED <<kernel, known, pc, call>>
  PROVE  CallInv'
<1>1. ASSUME NEW t \in Threads PROVE CallRight(t)'
  <2>1. CallRight(t)
    BY DEF CallInv
  <2> QED
    BY <2>1 DEF CallRight, PathRight
<1>2. ASSUME NEW h \in Handles PROVE HandleRight(h)'
  <2>1. \A t \in Threads : Owner(t, h)' <=> Owner(t, h)
    BY DEF Owner, Opener, Holder
  <2>2. Closers(h)' = Closers(h) /\ HandleRight(h)
    BY DEF Closers, CallInv
  <2> HIDE DEF Owner, Closers
  <2> QED
    BY <2>1, <2>2 DEF HandleRight
<1> QED
  BY <1>1, <1>2 DEF CallInv

LEMMA Initial ==
  ASSUME TrackerInit
  PROVE  TrackerInv
<1>1. NoEvent \in Event
  BY NoEventFields DEF Event, FieldsOf
<1>2. TypeInv
  <2>1. Tracked(handlePaths) = {}
    BY DEF TrackerInit, Tracked
  <2>2. Cardinality(Tracked(handlePaths)) <= MaxTracked
    BY <2>1, FS_EmptySet, Distinct
  <2>3. calls \in 0 .. MaxCalls
    BY TrackerAssumption DEF TrackerInit
  <2>4. queue \in Seq(Event)
    BY EmptySeq DEF TrackerInit
  <2>5. handlePaths \in Table /\ kernel \in [Handles -> Path \cup {Free}]
    BY DEF TrackerInit, Table
  <2>6. /\ call \in [Threads -> Event] /\ pc \in [Threads -> Places] /\ known \subseteq Handles
        /\ tainted \subseteq Handles /\ excused \subseteq Handles
    BY <1>1 DEF TrackerInit, Places
  <2> QED
    BY <2>2, <2>3, <2>4, <2>5, <2>6 DEF TypeInv
<1>3. \A t \in Threads : pc[t] = "idle" /\ call[t] = NoEvent
  BY DEF TrackerInit
<1>4. \A h \in Handles : /\ kernel[h] = Free /\ handlePaths[h] = NoPath
                         /\ Closers(h) = {} /\ \A t \in Threads : ~Owner(t, h)
  BY <1>3 DEF TrackerInit, Closers, Owner, Opener, Holder
<1>5. CallInv
  <2>1. \A t \in Threads : CallRight(t)
    BY <1>3, NoEventFields DEF CallRight
  <2>2. ASSUME NEW h \in Handles PROVE HandleRight(h)
    <3>1. kernel[h] # <<>> /\ h \notin known
      BY <1>4, Distinct, SepIsLetter DEF TrackerInit
    <3> QED
      BY <1>4, <3>1 DEF HandleRight
  <2> QED
    BY <2>1, <2>2 DEF CallInv
<1>6. TableInv
  <2>t. PICK tab : tab = [i \in 0 .. 0 |-> handlePaths]
    OBVIOUS
  <2>1. queue = <<>> /\ Len(queue) = 0 /\ 1 .. 0 = {}
    BY DEF TrackerInit
  <2>2. tab[0] = handlePaths /\ tab \in [0 .. 0 -> Table]
    BY <1>2, <2>t DEF TypeInv
  <2>3. Foresees(tab) /\ QueueRight(tab)
    BY <2>1, <2>2 DEF Foresees, QueueRight
  <2>4. ASSUME NEW h \in Handles PROVE EntryInv(tab, h)
    <3>1. tab[Len(queue)][h] = NoPath
      BY <1>4, <2>1, <2>2
    <3>2. \A t \in Threads : ~Opener(t, h)
      BY <1>4 DEF Owner
    <3> QED
      BY <1>4, <3>1, <3>2
      DEF EntryInv, EntryRight, CloserRight, RootRight, EntryKept, Agrees
  <2> QED
    BY <2>3, <2>4 DEF TableInv, TableRight
<1>7. AnnotationsCorrect
  BY NoEventFields DEF TrackerInit, AnnotationsCorrect, Annotated
<1> QED
  BY <1>2, <1>5, <1>6, <1>7 DEF TrackerInv

LEMMA OpenBeginsKeeps ==
  ASSUME TrackerInv, NEW t \in Threads, NEW root, NEW text \in Texts,
         (root = NoHandle /\ text \in AbsolutePaths) \/ root \in known,
         BeginOpen(t, root, text)
  PROVE  TrackerInv'
<1>1. TypeInv /\ CallInv /\ TableInv /\ AnnotationsCorrect
  BY DEF TrackerInv
<1>2. PICK e \in Event :
        /\ Moves(t, "opening", e) /\ OthersStay(t)
        /\ pc[t] = "idle" /\ calls' \in 0 .. MaxCalls
        /\ e.kind = "open" /\ ~e.ok /\ e.path # NoPath /\ e.names # <<>>
        /\ PathRight(e)
        /\ UNCHANGED <<kernel, known, queue, handlePaths, last, tainted, excused>>
  BY <1>1, OpenBegins
<1>3. "opening" \in Places
  BY DEF Places
<1>4. TypeInv'
  BY <1>1, <1>2 DEF TypeInv, Moves
<1>5. CallInv'
  BY <1>1, <1>2, CallInvOpenBegins
<1>6. \A h \in Handles : /\ ~Opener(t, h) /\ ~Opener(t, h)'
                         /\ t \notin Closers(h) /\ t \notin Closers(h)'
  BY <1>2, <1>3, OthersKeep DEF Opener, Closers
<1>7. TableInv'
  BY <1>1, <1>2, <1>3, <1>6, TableStays
<1>8. AnnotationsCorrect'
  BY <1>1, <1>2, AnnotationsStay
<1> QED
  BY <1>4, <1>5, <1>7, <1>8 DEF TrackerInv

LEMMA UseBeginsKeeps ==
  ASSUME TrackerInv, NEW t \in Threads, NEW h \in known, UseHandle(t, h)
  PROVE  TrackerInv'
<1>1. TypeInv /\ CallInv /\ TableInv /\ AnnotationsCorrect
  BY DEF TrackerInv
<1>2. PICK e \in Event :
        /\ Moves(t, "emit", e) /\ OthersStay(t)
        /\ pc[t] = "idle" /\ calls' \in 0 .. MaxCalls
        /\ e.kind = "use" /\ e.handle = h /\ e.names = kernel[h]
        /\ UNCHANGED <<kernel, known, queue, handlePaths, last, tainted, excused>>
  BY <1>1, UseBegins
<1>3. "emit" \in Places
  BY DEF Places
<1>4. TypeInv'
  BY <1>1, <1>2 DEF TypeInv, Moves
<1>5. CallInv'
  BY <1>1, <1>2, CallInvUseBegins
<1>6. \A g \in Handles : /\ ~Opener(t, g) /\ ~Opener(t, g)'
                         /\ t \notin Closers(g) /\ t \notin Closers(g)'
  BY <1>2, <1>3, OthersKeep DEF Opener, Opened, Closers
<1>7. TableInv'
  BY <1>1, <1>2, <1>3, <1>6, TableStays
<1>8. AnnotationsCorrect'
  BY <1>1, <1>2, AnnotationsStay
<1> QED
  BY <1>4, <1>5, <1>7, <1>8 DEF TrackerInv

LEMMA CloseBeginsKeeps ==
  ASSUME TrackerInv, NEW t \in Threads, NEW h \in known, BeginClose(t, h)
  PROVE  TrackerInv'
<1>1. TypeInv /\ CallInv /\ TableInv /\ AnnotationsCorrect
  BY DEF TrackerInv
<1>2. PICK e \in Event :
        /\ Moves(t, "closing", e) /\ OthersStay(t)
        /\ pc[t] = "idle" /\ calls' \in 0 .. MaxCalls
        /\ e.kind = "close" /\ ~e.ok /\ e.handle = h /\ e.names = kernel[h]
        /\ ~InUse(h) /\ known' = known \ {h}
        /\ UNCHANGED <<kernel, queue, handlePaths, last, tainted, excused>>
  BY <1>1, CloseBegins
<1>3. "closing" \in Places
  BY DEF Places
<1>4. TypeInv'
  BY <1>1, <1>2 DEF TypeInv, Moves
<1>5. CallInv'
  BY <1>1, <1>2, CallInvCloseBegins
<1>6. \A g \in Handles : /\ ~Opener(t, g) /\ ~Opener(t, g)'
                         /\ t \notin Closers(g) /\ t \notin Closers(g)'
  BY <1>2, <1>3, OthersKeep DEF Opener, Closers
<1>7. TableInv'
  BY <1>1, <1>2, <1>3, <1>6, TableStays
<1>8. AnnotationsCorrect'
  BY <1>1, <1>2, AnnotationsStay
<1> QED
  BY <1>4, <1>5, <1>7, <1>8 DEF TrackerInv

\* An open or a close that failed has changed nothing.
LEMMA FailureKeeps ==
  ASSUME TrackerInv, NEW t \in Threads, pc[t] \in {"opening", "closing"},
         pc' = [pc EXCEPT ![t] = "emit"],
         UNCHANGED <<kernel, known, call, calls, queue, handlePaths, last, tainted, excused>>
  PROVE  TrackerInv'
<1>1. TypeInv /\ CallInv /\ TableInv /\ AnnotationsCorrect
  BY DEF TrackerInv
<1>2. Moves(t, "emit", call[t]) /\ OthersStay(t) /\ "emit" \in Places
  BY <1>1, CallFails DEF Places
<1>e. PICK e : e = call[t]
  OBVIOUS
<1>3. e \in Event /\ ~e.ok
  BY <1>1, <1>e DEF TypeInv, CallInv, CallRight
<1>4. TypeInv'
  BY <1>1, <1>2 DEF TypeInv, Moves
<1>5. CallInv'
  BY <1>1, <1>2, CallInvFails
<1>6. \A g \in Handles : /\ ~Opener(t, g) /\ ~Opener(t, g)'
                         /\ t \notin Closers(g) /\ t \notin Closers(g)'
  BY <1>2, <1>3, <1>e, OthersKeep DEF Opener, Opened, Closers
<1>7. TableInv'
  BY <1>1, <1>2, <1>3, <1>6, <1>e, TableStays
<1>8. AnnotationsCorrect'
  BY <1>1, AnnotationsStay
<1> QED
  BY <1>4, <1>5, <1>7, <1>8 DEF TrackerInv

LEMMA OpenKeeps ==
  ASSUME TrackerInv, NEW t \in Threads, OpenObject(t)
  PROVE  TrackerInv'
<1>1. TypeInv /\ CallInv /\ TableInv /\ AnnotationsCorrect
  BY DEF TrackerInv
<1>2. /\ pc[t] = "opening" /\ pc' = [pc EXCEPT ![t] = "emit"]
      /\ UNCHANGED <<known, calls, queue, handlePaths, last>>
  BY DEF OpenObject, trackerVars
<1>3. CASE UNCHANGED <<kernel, call, historyVars>>
  BY <1>2, <1>3, FailureKeeps DEF historyVars
<1>4. ASSUME NEW h \in {g \in Handles : kernel[g] = Free},
             kernel' = [kernel EXCEPT ![h] = call[t].names],
             call' = [u \in Threads |->
                        IF u = t THEN [call[t] EXCEPT !.handle = h, !.ok = TRUE]
                        ELSE [call[u] EXCEPT !.crossed = @ \/ u \in Closers(h)]],
             excused' = IF Closers(h) # {} \/ call[t].path = <<>>
                        THEN excused \cup {h} ELSE excused \ {h},
             tainted' = IF \/ call[t].root \in tainted
                           \/ call[t].path = <<>> /\ Closers(h) # {}
                        THEN tainted \cup {h} ELSE tainted
      PROVE  TrackerInv'
  <2>1. h \in Handles /\ kernel[h] = Free
    BY <1>4
  <2>2. PICK e \in Event :
          /\ Moves(t, "emit", e)
          /\ e.kind = "open" /\ e.ok /\ e.handle = h
          /\ e.root = call[t].root /\ e.path = call[t].path /\ e.names = call[t].names
          /\ \A u \in Closers(h) : call'[u].crossed
          /\ \A u \in Threads \ {t} :
               call'[u].crossed <=> call[u].crossed \/ u \in Closers(h)
    BY <1>1, <1>2, <1>4, <2>1, OpenSucceeds
  <2>3. TypeInv'
    <3>1. kernel' \in [Handles -> Path \cup {Free}]
      <4>1. call[t].names \in Path
        BY <1>1 DEF TypeInv, Event, EventRecord
      <4> QED
        BY <1>1, <1>4, <4>1 DEF TypeInv
    <3>2. tainted' \subseteq Handles /\ excused' \subseteq Handles
      BY <1>1, <1>4, <2>1 DEF TypeInv
    <3> QED
      BY <1>1, <1>2, <2>2, <3>1, <3>2 DEF TypeInv, Moves
  <2>4. CallInv'
    BY <1>1, <1>2, <1>4, <2>1, <2>2, CallInvOpenSucceeds
  <2>5. TableInv'
    BY <1>1, <1>2, <1>4, <2>1, <2>2, TableOpenSucceeds
  <2>6. AnnotationsCorrect'
    BY <1>1, <1>2, <1>4, AnnotationsStay
  <2> QED
    BY <2>3, <2>4, <2>5, <2>6 DEF TrackerInv
<1> QED
  BY <1>3, <1>4, Zenon DEF OpenObject

LEMMA CloseKeeps ==
  ASSUME TrackerInv, NEW t \in Threads, CloseObject(t)
  PROVE  TrackerInv'
<1>1. TypeInv /\ CallInv /\ TableInv /\ AnnotationsCorrect
  BY DEF TrackerInv
<1>2. /\ pc[t] = "closing" /\ pc' = [pc EXCEPT ![t] = "emit"]
      /\ UNCHANGED <<known, calls, queue, handlePaths, last, tainted, excused>>
  BY DEF CloseObject, trackerVars, historyVars
<1>3. CASE UNCHANGED <<kernel, call>>
  BY <1>2, <1>3, FailureKeeps
<1>4. ASSUME kernel' = [kernel EXCEPT ![call[t].handle] = Free],
             call' = [call EXCEPT ![t].ok = TRUE]
      PROVE  TrackerInv'
  <2>1. PICK e \in Event :
          /\ Moves(t, "emit", e) /\ OthersStay(t)
          /\ e.kind = "close" /\ e.ok
          /\ e.handle = call[t].handle /\ e.names = call[t].names
    BY <1>1, <1>2, <1>4, CloseSucceeds
  <2>2. TypeInv'
    <3>1. kernel' \in [Handles -> Path \cup {Free}]
      BY <1>1, <1>4 DEF TypeInv
    <3> QED
      BY <1>1, <1>2, <2>1, <3>1 DEF TypeInv, Moves
  <2>3. CallInv'
    BY <1>1, <1>2, <1>4, <2>1, CallInvCloseSucceeds
  <2>4. TableInv'
    BY <1>1, <1>2, <1>4, <2>1, TableCloseSucceeds
  <2>5. AnnotationsCorrect'
    BY <1>1, <1>2, AnnotationsStay
  <2> QED
    BY <2>2, <2>3, <2>4, <2>5 DEF TrackerInv
<1> QED
  BY <1>3, <1>4, Zenon DEF CloseObject

LEMMA ReturnKeeps ==
  ASSUME TrackerInv, NEW t \in Threads, EmitAndReturn(t)
  PROVE  TrackerInv'
<1>1. TypeInv /\ CallInv /\ TableInv /\ AnnotationsCorrect
  BY DEF TrackerInv
<1>2. Moves(t, "idle", NoEvent) /\ call[t] \in Event /\ pc[t] = "emit"
  BY <1>1, CallReturns
<1>3. UNCHANGED <<kernel, calls, handlePaths, last, excused>>
  BY DEF EmitAndReturn, trackerVars
<1>4. CallInv' /\ known' \subseteq Handles
  BY <1>1, CallInvReturns
<1>5. \/ queue' = Append(queue, call[t]) /\ UNCHANGED tainted
      \/ /\ UNCHANGED queue
         /\ tainted' = IF call[t].kind = "use" \/ ~call[t].ok THEN tainted
                       ELSE tainted \cup {call[t].handle}
  BY Zenon DEF EmitAndReturn
<1>6. queue' \in Seq(Event) /\ tainted' \subseteq Handles /\ tainted \subseteq tainted'
  <2>1. queue \in Seq(Event) /\ tainted \subseteq Handles
    BY <1>1 DEF TypeInv
  <2>2. Append(queue, call[t]) \in Seq(Event)
    BY <1>2, <2>1, AppendProperties
  <2>3. ~(call[t].kind = "use" \/ ~call[t].ok) => call[t].handle \in Handles
    BY <1>2 DEF Event, EventRecord, FieldsOf, Kinds
  <2> QED
    BY <1>5, <2>1, <2>2, <2>3
<1>7. TypeInv'
  BY <1>1, <1>2, <1>3, <1>4, <1>6 DEF TypeInv, Moves
<1>8. TableInv'
  BY <1>1, <1>5, TableQueued, TableDropped
<1>9. AnnotationsCorrect'
  BY <1>1, <1>3, <1>6, AnnotationsStay
<1> QED
  BY <1>4, <1>7, <1>8, <1>9 DEF TrackerInv

LEMMA WriteKeeps ==
  ASSUME TrackerInv, WriteEvent
  PROVE  TrackerInv'
<1>1. TypeInv /\ CallInv /\ TableInv /\ AnnotationsCorrect
  BY DEF TrackerInv
<1>2. UNCHANGED <<kernel, known, pc, call, calls, tainted>> /\ queue' = Tail(queue)
  BY DEF WriteEvent, programVars
<1>3. queue # <<>> /\ handlePaths' = Step(handlePaths, Head(queue))
  BY DEF WriteEvent, Step
<1>4. Head(queue) \in Event /\ queue' \in Seq(Event)
  BY <1>1, <1>2, <1>3, HeadOfQueue
<1>5. excused' \subseteq Handles
  BY <1>1 DEF WriteEvent, TypeInv, Tracked
<1>6. TypeInv'
  <2>1. handlePaths' \in Table /\ Cardinality(Tracked(handlePaths')) <= MaxTracked
    BY <1>1, <1>3, <1>4, StepEffect, StepLimit DEF TypeInv
  <2>2. Tracked(handlePaths)' = Tracked(handlePaths')
    BY DEF Tracked
  <2> QED
    BY <1>1, <1>2, <1>4, <1>5, <2>1, <2>2 DEF TypeInv
<1>7. CallInv'
  BY <1>1, <1>2, CallInvStays
<1> QED
  BY <1>1, <1>6, <1>7, TableWritten, WrittenRight DEF TrackerInv

LEMMA NextKeeps ==
  ASSUME TrackerInv, [TrackerNext]_trackVars
  PROVE  TrackerInv'
<1>1. CASE WriteEvent
  BY <1>1, WriteKeeps
<1>2. ASSUME NEW t \in Threads, ProgramStep(t) PROVE TrackerInv'
  <2>1. ASSUME NEW text \in AbsolutePaths, BeginOpen(t, NoHandle, text) PROVE TrackerInv'
    BY <2>1, OpenBeginsKeeps DEF Texts
  <2>2. ASSUME NEW root \in known, NEW text \in RelativePaths, BeginOpen(t, root, text)
        PROVE  TrackerInv'
    BY <2>2, OpenBeginsKeeps DEF Texts
  <2>3. CASE OpenObject(t)
    BY <2>3, OpenKeeps
  <2>4. ASSUME NEW h \in known, UseHandle(t, h) \/ BeginClose(t, h) PROVE TrackerInv'
    BY <2>4, UseBeginsKeeps, CloseBeginsKeeps
  <2>5. CASE CloseObject(t)
    BY <2>5, CloseKeeps
  <2>6. CASE EmitAndReturn(t)
    BY <2>6, ReturnKeeps
  <2> QED
    BY <1>2, <2>1, <2>2, <2>3, <2>4, <2>5, <2>6 DEF ProgramStep
<1>3. CASE UNCHANGED trackVars
  <2>1. /\ UNCHANGED <<kernel, known, pc, call, calls, queue, handlePaths, last>>
        /\ UNCHANGED <<tainted, excused>>
    BY <1>3 DEF trackVars, programVars, trackerVars, historyVars
  <2>2. TypeInv'
    BY <2>1 DEF TrackerInv, TypeInv, Tracked
  <2>3. CallInv'
    BY <2>1, CallInvStays DEF TrackerInv
  <2>4. TableInv'
    <3>1. PICK tab : Foresees(tab) /\ TableRight(tab)
      BY DEF TrackerInv, TableInv
    <3>2. Foresees(tab)' /\ TableRight(tab)'
      BY <2>1, <3>1 DEF Foresees, TableRight, QueueRight, EntryInv, EntryRight, CloserRight,
           RootRight, EntryKept, Clean, Opener, Closers, Cleared
    <3> QED
      BY <3>2 DEF TableInv
  <2>5. AnnotationsCorrect'
    BY <2>1, AnnotationsStay DEF TrackerInv
  <2> QED
    BY <2>2, <2>3, <2>4, <2>5 DEF TrackerInv
<1> QED
  BY <1>1, <1>2, <1>3 DEF TrackerNext

-----------------------------------------------------------------------------
(* The theorems.                                                           *)

\* The invariant all the others follow from.
THEOREM TrackerInvariant == TrackerSpec => []TrackerInv
<1>1. TrackerInit => TrackerInv
  BY Initial
<1>2. TrackerInv /\ [TrackerNext]_trackVars => TrackerInv'
  BY NextKeeps
<1> QED
  BY <1>1, <1>2, PTL DEF TrackerSpec

\* The state is well typed, every handle the program holds has an object behind
\* it, and Observe keeps handlePaths_ within MAX_TRACKED_HANDLES.
THEOREM TrackerTypeCorrect == TrackerSpec => []TrackerTypeOK
<1>1. TrackerInv => TrackerTypeOK
  <2> SUFFICES ASSUME TrackerInv PROVE TrackerTypeOK
    OBVIOUS
  <2>1. TypeInv /\ \A h \in Handles : HandleRight(h)
    BY DEF TrackerInv, CallInv
  <2>2. \A h \in Handles : kernel[h] = Free \/ Len(kernel[h]) > 0
    <3> SUFFICES ASSUME NEW h \in Handles, kernel[h] # Free PROVE Len(kernel[h]) > 0
      OBVIOUS
    <3>1. kernel[h] \in Path /\ kernel[h] # <<>>
      BY <2>1 DEF TypeInv, HandleRight
    <3>2. Len(kernel[h]) \in Nat \ {0}
      BY <3>1, EmptySeq DEF Path
    <3> QED
      BY <3>2
  <2>3. known \subseteq {h \in Handles : kernel[h] # Free}
    BY <2>1 DEF TypeInv, HandleRight
  <2> QED
    BY <2>1, <2>2, <2>3 DEF TrackerTypeOK, TypeInv, Places
<1> QED
  BY <1>1, TrackerInvariant, PTL

\* Whatever calls of other threads cross with it, however often its number is
\* given out again and the table cleared, an event of a use or a close that
\* WriterLoop annotates gets the path of the object it worked on.
THEOREM AnnotatedRight == TrackerSpec => []AnnotationsCorrect
<1>1. TrackerInv => AnnotationsCorrect
  BY DEF TrackerInv
<1> QED
  BY <1>1, TrackerInvariant, PTL

\* Once no event is on its way the table before the next event is the table
\* there is.
LEMMA QuietTable ==
  ASSUME TrackerInv, Quiet, NEW h \in Handles \ tainted
  PROVE  /\ handlePaths[h] # NoPath =>
              kernel[h] # Free /\ Names(handlePaths[h], kernel[h])
         /\ kernel[h] # Free /\ h \notin excused => handlePaths[h] # NoPath
<1>1. PICK tab : Foresees(tab) /\ TableRight(tab)
  BY DEF TrackerInv, TableInv
<1>2. Len(queue) = 0 /\ 1 .. Len(queue) = {}
  BY DEF Quiet
<1>3. tab[Len(queue)] = handlePaths /\ EntryInv(tab, h)
  BY <1>1, <1>2 DEF Foresees, TableRight
<1>4. Closers(h) = {} /\ \A t \in Threads : ~Opener(t, h) /\ ~Clean(t, h)
  BY DEF Quiet, Closers, Opener, Clean
<1>5. ~Cleared(tab, h)
  BY <1>2 DEF Cleared
<1> QED
  BY <1>3, <1>4, <1>5 DEF EntryInv, EntryRight, EntryKept

\* When the writer has caught up, no entry stands for a handle that was closed
\* or that stands for something else by now.
THEOREM NothingStale == TrackerSpec => []NoStaleEntry
<1>1. TrackerInv => NoStaleEntry
  BY QuietTable DEF NoStaleEntry, Tracked
<1> QED
  BY <1>1, TrackerInvariant, PTL

\* And no handle the program holds is without a path but for the reasons the
\* history variables record.
THEOREM NothingForgotten == TrackerSpec => []ForgottenForAReason
<1>1. TrackerInv => ForgottenForAReason
  <2> SUFFICES ASSUME TrackerInv, Quiet, NEW h \in known \ (tainted \cup excused)
               PROVE  handlePaths[h] # NoPath
    BY DEF ForgottenForAReason
  <2>1. h \in Handles /\ kernel[h] # Free
    BY DEF TrackerInv, TypeInv, CallInv, HandleRight
  <2> QED
    BY <2>1, QuietTable
<1> QED
  BY <1>1, TrackerInvariant, PTL

=============================================================================
