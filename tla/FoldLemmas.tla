----------------------------- MODULE FoldLemmas -----------------------------
(***************************************************************************)
(* What a fold over a sequence passes through. The loops of the command    *)
(* line, of DiscoverHooks and of the relocation are folds (FoldLeft); a    *)
(* proof about one of them instantiates this module with the body of the   *)
(* loop for Op and argues over the states the loop has between two turns.  *)
(***************************************************************************)
EXTENDS SequencesExt, NumberLemmas, SequenceTheorems

CONSTANT Op(_, _, _)   \* what the body reads, the state so far, the element

\* The loop, and the states it passes through.
Fold(c, start, elements) == FoldLeft(LAMBDA s, e : Op(c, s, e), start, elements)

Passes(c, start, elements, turn) ==
  /\ turn[0] = start
  /\ \A i \in 1 .. Len(elements) : turn[i] = Op(c, turn[i - 1], elements[i])
  /\ turn[Len(elements)] = Fold(c, start, elements)

Runs(c, start, elements, turn) ==
  /\ turn[0] = start
  /\ \A i \in 1 .. Len(elements) : turn[i] = Op(c, turn[i - 1], elements[i])

Turns(c, start, elements) == CHOOSE turn : Passes(c, start, elements, turn)

\* The greatest of the first numbers is the last.
LEMMA GreatestOfPrefix ==
  ASSUME NEW k \in Nat \ {0}, NEW s \in SUBSET (1 .. k), k \in s
  PROVE  Max(s) = k
<1>1. \A y \in s : k >= y
  OBVIOUS
<1>2. ASSUME NEW x \in s, \A y \in s : x >= y PROVE x = k
  BY <1>2
<1> QED
  BY <1>1, <1>2 DEF Max

\* What the fold returns is the last of the states between two turns.
LEMMA FoldIsLastTurn ==
  ASSUME NEW c, NEW start, NEW n \in Nat, NEW elements, DOMAIN elements = 1 .. n
  PROVE  \E turn : /\ turn[0] = start
                   /\ \A i \in 1 .. n : turn[i] = Op(c, turn[i - 1], elements[i])
                   /\ turn[n] = Fold(c, start, elements)
<1> DEFINE Next(iter, s) == IF s = {} THEN start
                            ELSE Op(c, iter[s \ {Max(s)}], elements[Max(s)])
           Solves(iter, k) == iter = [s \in SUBSET (1 .. k) |-> Next(iter, s)]
           result == CHOOSE iter : Solves(iter, n)
           P == {k \in 0 .. n : \E iter : Solves(iter, k)}
           turn == [i \in 0 .. n |-> result[1 .. i]]
<1>1. 0 \in P
  <2> DEFINE iter == [s \in SUBSET (1 .. 0) |-> start]
  <2>1. \A s \in SUBSET (1 .. 0) : Next(iter, s) = start
    BY SMT
  <2>2. Solves(iter, 0)
    BY <2>1
  <2> QED
    BY <2>2
<1>2. ASSUME NEW k \in 1 .. n, k - 1 \in P PROVE k \in P
  <2>1. PICK f : Solves(f, k - 1)
    BY <1>2
  <2> DEFINE h == [s \in SUBSET (1 .. k) |->
                     IF k \in s THEN Op(c, f[s \ {k}], elements[k]) ELSE f[s]]
  <2>2. ASSUME NEW s \in SUBSET (1 .. k) PROVE h[s] = Next(h, s)
    <3>1. CASE k \in s
      <4>1. s \ {k} \in SUBSET (1 .. k) /\ k \notin s \ {k} /\ Max(s) = k /\ s # {}
        BY <3>1, GreatestOfPrefix
      <4>2. h[s \ {k}] = f[s \ {k}]
        BY <4>1
      <4>3. h[s] = Op(c, f[s \ {k}], elements[k])
        BY <3>1
      <4> HIDE DEF h
      <4> QED
        BY <4>1, <4>2, <4>3
    <3>2. CASE k \notin s
      <4>1. s \in SUBSET (1 .. k - 1)
        BY <3>2
      <4>2. h[s] = f[s] /\ f[s] = Next(f, s)
        BY <2>1, <3>2, <4>1
      <4>3. s \ {Max(s)} \in SUBSET (1 .. k) /\ k \notin s \ {Max(s)}
        BY <3>2
      <4>4. h[s \ {Max(s)}] = f[s \ {Max(s)}]
        BY <4>3
      <4> HIDE DEF h
      <4> QED
        BY <4>2, <4>4
    <3> QED
      BY <3>1, <3>2
  <2>3. h = [s \in SUBSET (1 .. k) |-> h[s]]
    OBVIOUS
  <2> HIDE DEF h, Next
  <2>4. Solves(h, k)
    BY <2>2, <2>3
  <2> QED
    BY <2>4
<1>3. Solves(result, n)
  <2>1. n \in P
    <3> HIDE DEF P
    <3>1. P \subseteq 0 .. n
      BY DEF P
    <3> QED
      BY <1>1, <1>2, <3>1, Iteration
  <2> QED
    BY <2>1
<1> HIDE DEF Solves
<1>4. turn[n] = Fold(c, start, elements)
  BY DEF Fold, FoldLeft, MapThenFoldSet, Solves
<1> HIDE DEF result
<1>5. turn[0] = start
  <2>1. 1 .. 0 = {} /\ {} \in SUBSET (1 .. n) /\ 0 \in 0 .. n
    OBVIOUS
  <2> QED
    BY <1>3, <2>1 DEF Solves
<1>6. ASSUME NEW i \in 1 .. n PROVE turn[i] = Op(c, turn[i - 1], elements[i])
  <2>1. /\ 1 .. i \in SUBSET (1 .. n) /\ i \in 1 .. i /\ i \in Nat \ {0}
        /\ (1 .. i) \ {i} = 1 .. i - 1
        /\ i \in 0 .. n /\ i - 1 \in 0 .. n
    OBVIOUS
  <2>2. Max(1 .. i) = i
    BY <2>1, GreatestOfPrefix
  <2> QED
    BY <1>3, <2>1, <2>2 DEF Solves
<1> HIDE DEF turn
<1> QED
  BY <1>4, <1>5, <1>6

\* The turns of a loop over a sequence.
LEMMA FoldTurns ==
  ASSUME NEW c, NEW start, NEW elements,
         Len(elements) \in Nat, DOMAIN elements = 1 .. Len(elements)
  PROVE  Passes(c, start, elements, Turns(c, start, elements))
BY FoldIsLastTurn DEF Turns, Passes

\* Whatever passes through the states of the loop ends with what it returns.
LEMMA FoldDetermined ==
  ASSUME NEW c, NEW start, NEW n \in Nat, NEW elements, DOMAIN elements = 1 .. n,
         Len(elements) = n, NEW turn, Runs(c, start, elements, turn)
  PROVE  turn[n] = Fold(c, start, elements)
<1> DEFINE other == Turns(c, start, elements)
           P == {i \in 0 .. n : turn[i] = other[i]}
<1>1. /\ other[0] = start
      /\ \A i \in 1 .. n : other[i] = Op(c, other[i - 1], elements[i])
      /\ other[n] = Fold(c, start, elements)
  BY FoldTurns DEF Passes
<1> HIDE DEF other
<1>2. P \subseteq 0 .. n /\ 0 \in P
  BY <1>1 DEF Runs
<1>3. ASSUME NEW i \in 1 .. n, i - 1 \in P PROVE i \in P
  <2>1. turn[i - 1] = other[i - 1]
    BY <1>3
  <2>2. turn[i] = other[i]
    BY <1>1, <2>1 DEF Runs
  <2> QED
    BY <2>2
<1>4. n \in P
  <2> HIDE DEF P
  <2> QED
    BY <1>2, <1>3, Iteration
<1> QED
  BY <1>1, <1>4

\* A loop over two sequences in turn.
LEMMA FoldOfConcat ==
  ASSUME NEW c, NEW start, NEW S, NEW a \in Seq(S), NEW b \in Seq(S)
  PROVE  Fold(c, start, a \o b) = Fold(c, Fold(c, start, a), b)
<1> DEFINE n == Len(a)
           m == Len(b)
           first == Turns(c, start, a)
           middle == Fold(c, start, a)
           second == Turns(c, middle, b)
           turn == [i \in 0 .. n + m |-> IF i <= n THEN first[i] ELSE second[i - n]]
<1>1. /\ n \in Nat /\ DOMAIN a = 1 .. n /\ m \in Nat /\ DOMAIN b = 1 .. m
      /\ a \o b \in Seq(S) /\ Len(a \o b) = n + m /\ DOMAIN (a \o b) = 1 .. n + m
      /\ \A i \in 1 .. n : (a \o b)[i] = a[i]
      /\ \A i \in n + 1 .. n + m : (a \o b)[i] = b[i - n]
  BY ConcatProperties, LenProperties
<1>2. /\ first[0] = start
      /\ \A i \in 1 .. n : first[i] = Op(c, first[i - 1], a[i])
      /\ first[n] = middle
  BY <1>1, FoldTurns DEF Passes
<1>3. /\ second[0] = middle
      /\ \A i \in 1 .. m : second[i] = Op(c, second[i - 1], b[i])
      /\ second[m] = Fold(c, middle, b)
  BY <1>1, FoldTurns DEF Passes
<1>4. turn[0] = start
  <2> HIDE DEF first, second, middle, n, m
  <2> QED
    BY <1>1, <1>2
<1>5. turn[n + m] = Fold(c, middle, b)
  <2> HIDE DEF first, second, middle, n, m
  <2>1. CASE m = 0
    BY <1>1, <1>2, <1>3, <2>1
  <2>2. CASE m # 0
    BY <1>1, <1>3, <2>2
  <2> QED
    BY <2>1, <2>2
<1>6. ASSUME NEW i \in 1 .. n + m PROVE turn[i] = Op(c, turn[i - 1], (a \o b)[i])
  <2> HIDE DEF first, second, middle, n, m
  <2>1. CASE i <= n
    <3>1. turn[i] = first[i] /\ turn[i - 1] = first[i - 1]
      BY <1>1, <2>1
    <3>2. i \in 1 .. n
      BY <1>1, <2>1
    <3> QED
      BY <1>1, <1>2, <3>1, <3>2
  <2>2. CASE i > n
    <3>1. i - n \in 1 .. m /\ i \in n + 1 .. n + m
      BY <1>1, <2>2
    <3>2. turn[i] = second[i - n]
      BY <1>1, <2>2
    <3>3. turn[i - 1] = second[(i - n) - 1]
      <4>1. CASE i = n + 1
        BY <1>1, <1>2, <1>3, <4>1
      <4>2. CASE i # n + 1
        <5>1. turn[i - 1] = second[(i - 1) - n]
          BY <1>1, <2>2, <4>2
        <5>2. (i - 1) - n = (i - n) - 1
          BY <1>1
        <5> QED
          BY <5>1, <5>2
      <4> QED
        BY <4>1, <4>2
    <3>4. (a \o b)[i] = b[i - n]
      BY <1>1, <3>1
    <3>5. second[i - n] = Op(c, second[(i - n) - 1], b[i - n])
      BY <1>3, <3>1
    <3> QED
      BY <3>2, <3>3, <3>4, <3>5
  <2> QED
    BY <1>1, <2>1, <2>2
<1> HIDE DEF turn, n, m, middle
<1>7. turn[n + m] = Fold(c, start, a \o b)
  <2> DEFINE k == n + m
             both == a \o b
  <2>1. k \in Nat /\ DOMAIN both = 1 .. k /\ Len(both) = k
    BY <1>1
  <2>2. \A i \in 1 .. k : turn[i] = Op(c, turn[i - 1], both[i])
    BY <1>6
  <2> HIDE DEF k, both
  <2>3. Runs(c, start, both, turn)
    BY <1>4, <2>1, <2>2 DEF Runs
  <2>4. turn[k] = Fold(c, start, both)
    BY <2>1, <2>3, FoldDetermined
  <2> QED
    BY <2>4 DEF k, both
<1> QED
  BY <1>5, <1>7 DEF middle

\* A loop of no turn, and of one.
LEMMA FoldOfNone ==
  ASSUME NEW c, NEW start
  PROVE  Fold(c, start, <<>>) = start
BY FoldTurns DEF Passes

LEMMA FoldOfOne ==
  ASSUME NEW c, NEW start, NEW e
  PROVE  Fold(c, start, <<e>>) = Op(c, start, e)
<1>1. Len(<<e>>) = 1 /\ DOMAIN <<e>> = 1 .. 1 /\ <<e>>[1] = e
  OBVIOUS
<1>2. Passes(c, start, <<e>>, Turns(c, start, <<e>>))
  BY <1>1, FoldTurns
<1> QED
  BY <1>1, <1>2 DEF Passes
=============================================================================
