--------------------------- MODULE TraceRingProofs ---------------------------
(***************************************************************************)
(* Proofs about the trace ring, for any number of threads, any capacity    *)
(* and any fault set.                                                      *)
(***************************************************************************)
EXTENDS TraceRing, NumberLemmas, FiniteSetTheorems, TLAPS

-----------------------------------------------------------------------------
(* Arithmetic of `position & (TRACE_RING_CAPACITY - 1)`.                   *)

\* The ring has at least two slots.
LEMMA CapacityFacts == Capacity \in Nat /\ Capacity >= 2
  BY RingAssumption

\* A position is a number of whole laps plus a slot index.
LEMMA DivMod ==
  ASSUME NEW p \in Nat
  PROVE  /\ p = Capacity * (p \div Capacity) + SlotOf(p)
         /\ SlotOf(p) \in Slots
         /\ p \div Capacity \in Nat
  BY CapacityFacts, SMT DEF SlotOf, Slots

\* One lap or more is at least Capacity positions.
LEMMA LapLength ==
  ASSUME NEW d \in Nat \ {0}
  PROVE  Capacity * d >= Capacity
  BY CapacityFacts, SMT

\* Two positions less than one lap apart have different slots.
LEMMA SlotsDiffer ==
  ASSUME NEW p \in Nat, NEW q \in Nat, p < q, q < p + Capacity
  PROVE  SlotOf(p) # SlotOf(q)
<1> SUFFICES ASSUME SlotOf(p) = SlotOf(q) PROVE FALSE
  OBVIOUS
<1> DEFINE a == p \div Capacity
           b == q \div Capacity
<1>1. /\ p = Capacity * a + SlotOf(p) /\ a \in Nat
      /\ q = Capacity * b + SlotOf(p) /\ b \in Nat
      /\ SlotOf(p) \in Int
  BY DivMod, CapacityFacts DEF Slots
<1> HIDE DEF a, b
<1>2. q - p = Capacity * (b - a)
  BY <1>1, CapacityFacts, SMT
<1>3. CASE b - a >= 1
  <2>1. b - a \in Nat \ {0}
    BY <1>1, <1>3
  <2>2. QED  BY <2>1, <1>2, LapLength, CapacityFacts
<1>4. CASE b - a <= 0
  <2>1. Capacity * (b - a) <= 0
    BY <1>1, <1>4, CapacityFacts, SMT
  <2>2. QED  BY <2>1, <1>2
<1>5. QED  BY <1>1, <1>3, <1>4

\* The slot of lap a, index i is i.
LEMMA SlotOfLap ==
  ASSUME NEW a \in Nat, NEW i \in Slots
  PROVE  Capacity * a + i \in Nat /\ SlotOf(Capacity * a + i) = i
<1> DEFINE p == Capacity * a + i
           b == p \div Capacity
           j == SlotOf(p)
<1>1. p \in Nat /\ i \in Nat /\ i < Capacity
  BY CapacityFacts, SMT DEF Slots
<1> HIDE DEF p
<1>2. p = Capacity * b + j /\ b \in Nat /\ j \in Slots
  BY <1>1, DivMod
<1> HIDE DEF b, j
<1>3. /\ Capacity * (a - b) = j - i
      /\ Capacity * (b - a) = i - j
  BY <1>1, <1>2, CapacityFacts, SMT DEF Slots, p
<1>4. CASE a - b >= 1
  <2>1. a - b \in Nat \ {0}
    BY <1>2, <1>4
  <2>2. QED  BY <2>1, <1>1, <1>2, <1>3, LapLength, CapacityFacts DEF Slots
<1>5. CASE b - a >= 1
  <2>1. b - a \in Nat \ {0}
    BY <1>2, <1>5
  <2>2. QED  BY <2>1, <1>1, <1>2, <1>3, LapLength, CapacityFacts DEF Slots
<1>6. CASE a = b
  <2>1. i = j
    BY <1>1, <1>2, <1>3, <1>6, CapacityFacts, SMT DEF Slots
  <2>2. QED  BY <2>1, <1>1 DEF j, p
<1>7. QED  BY <1>2, <1>4, <1>5, <1>6

\* The same slot comes round after one lap.
LEMMA NextLap ==
  ASSUME NEW p \in Nat
  PROVE  SlotOf(p + Capacity) = SlotOf(p)
<1> DEFINE a == p \div Capacity
<1>1. p = Capacity * a + SlotOf(p) /\ a \in Nat /\ SlotOf(p) \in Slots
  BY DivMod
<1> HIDE DEF a
<1>2. p + Capacity = Capacity * (a + 1) + SlotOf(p)
  BY <1>1, CapacityFacts, SMT DEF Slots
<1>3. QED  BY <1>1, <1>2, SlotOfLap, a + 1 \in Nat

\* Every slot belongs to one of any Capacity consecutive positions.
LEMMA WindowCovers ==
  ASSUME NEW p \in Nat, NEW d \in Nat
  PROVE  \E q \in d .. (d + Capacity - 1) : SlotOf(q) = SlotOf(p)
<1> DEFINE a == d \div Capacity
           i == SlotOf(p)
           q == Capacity * a + i
<1>1. d = Capacity * a + SlotOf(d) /\ a \in Nat /\ SlotOf(d) \in Slots
  BY DivMod
<1>2. i \in Slots
  BY DivMod
<1>3. q \in Nat /\ SlotOf(q) = i /\ SlotOf(q + Capacity) = i
  BY <1>1, <1>2, SlotOfLap, NextLap
<1>4. q = d + (i - SlotOf(d))
  BY <1>1, <1>2, CapacityFacts, SMT DEF Slots
<1> HIDE DEF a, i, q
<1>5. CASE i >= SlotOf(d)
  <2>1. q \in d .. (d + Capacity - 1)
    BY <1>1, <1>2, <1>3, <1>4, <1>5, CapacityFacts DEF Slots
  <2>2. QED  BY <2>1, <1>3 DEF i
<1>6. CASE i < SlotOf(d)
  <2>1. q + Capacity \in d .. (d + Capacity - 1)
    BY <1>1, <1>2, <1>3, <1>4, <1>6, CapacityFacts DEF Slots
  <2>2. QED  BY <2>1, <1>3 DEF i
<1>7. QED  BY <1>1, <1>2, <1>5, <1>6, CapacityFacts DEF Slots

\* Positions in one window of Capacity positions have different slots.
LEMMA SlotsDistinct ==
  ASSUME NEW p \in Nat, NEW q \in Nat,
         p # q, p < q + Capacity, q < p + Capacity
  PROVE  SlotOf(p) # SlotOf(q)
  BY SlotsDiffer, CapacityFacts

-----------------------------------------------------------------------------
(* Type correctness.                                                       *)

\* The initial state is well typed.
LEMMA InitType == RingInit => TypeOK
<1> SUFFICES ASSUME RingInit PROVE TypeOK
  OBVIOUS
<1>1. Slots \subseteq Nat
  BY CapacityFacts DEF Slots
<1>2. NoEvent \in SlotContents
  BY DEF SlotContents
<1>3. 0 \in 0 .. (LongModulus - 1) /\ 0 \in 0 .. MaxEmits
  BY RingAssumption
<1>4. /\ slotSequence \in [Slots -> Nat]
      /\ slotEvent \in [Slots -> SlotContents \X SlotContents]
      /\ readEvent \in SlotContents \X SlotContents
  BY <1>1, <1>2 DEF RingInit
<1>5. /\ pc \in [Threads -> EmitPcs] /\ readPc \in ReadPcs
      /\ event \in [Threads -> SlotContents]
      /\ position \in [Threads -> Nat]
      /\ emits \in [Threads -> 0 .. MaxEmits]
  BY <1>2, <1>3 DEF RingInit, EmitPcs, ReadPcs
<1>6. claimed \in Seq(SlotContents) /\ received \in Seq(SlotContents \X SlotContents)
  BY DEF RingInit
<1>7. QED
  BY <1>3, <1>4, <1>5, <1>6 DEF RingInit, TypeOK

\* Writing one slot's sequence number keeps the type of the array.
LEMMA SequenceUpdate ==
  ASSUME NEW f \in [Slots -> Nat], NEW s, NEW v \in Nat
  PROVE  [f EXCEPT ![s] = v] \in [Slots -> Nat]
  OBVIOUS

\* Writing one half of one slot's event keeps the type of the array.
LEMMA HalfUpdate ==
  ASSUME NEW f \in [Slots -> SlotContents \X SlotContents],
         NEW s \in Slots, NEW h \in {1, 2}, NEW e \in SlotContents
  PROVE  [f EXCEPT ![s][h] = e] \in [Slots -> SlotContents \X SlotContents]
<1>1. f[s] \in SlotContents \X SlotContents
  OBVIOUS
<1>2. [f[s] EXCEPT ![h] = e] \in SlotContents \X SlotContents
  BY <1>1
<1>3. QED  BY <1>2

\* Appending keeps the type of a sequence.
LEMMA AppendType ==
  ASSUME NEW S, NEW q \in Seq(S), NEW e \in S
  PROVE  Append(q, e) \in Seq(S)
  OBVIOUS

\* Every step of a hook thread keeps the types.
LEMMA EmitType ==
  ASSUME TypeOK, NEW t \in Threads, Emit(t) \/ EmitStep(t) \/ ThreadDies(t)
  PROVE  TypeOK'
<1> USE DEF Goto, memVars, wakeVars, readVars
<1>a. pc' \in [Threads -> EmitPcs]
  BY DEF TypeOK, EmitPcs, EmitStep, Emit, LoadPosition, CheckSlot, CountDrop,
         ClaimSlot, CopyInFirst, CopyInSecond, CopyIn, Publish, RequestWake,
         SignalWake, WithdrawWake, ThreadDies
<1>b. position[t] \in Nat /\ position[t] + 1 \in Nat /\ event[t] \in SlotContents
  BY DEF TypeOK
<1>c. SlotOf(position[t]) \in Slots
  BY <1>b, DivMod
<1>1. CASE Emit(t)
  <2>1. eventSequence' \in 0 .. (LongModulus - 1)
    BY <1>1, RingAssumption, SMT DEF Emit, TypeOK
  <2>2. emits[t] + 1 \in 1 .. MaxEmits /\ emits[t] + 1 \in 0 .. MaxEmits
    BY <1>1, RingAssumption DEF Emit, TypeOK
  <2>3. [thread |-> t, call |-> emits[t] + 1, sequence |-> eventSequence']
          \in SlotContents
    BY <2>1, <2>2 DEF SlotContents, Events
  <2>4. event' \in [Threads -> SlotContents]
    BY <2>3, <1>1 DEF Emit, TypeOK
  <2>5. QED  BY <1>a, <2>1, <2>2, <2>4, <1>1 DEF Emit, TypeOK
<1>2. CASE LoadPosition(t)
  BY <1>a, <1>2 DEF LoadPosition, TypeOK
<1>3. CASE CheckSlot(t)
  BY <1>a, <1>3 DEF CheckSlot, TypeOK
<1>4. CASE CountDrop(t)
  <2>1. droppedEvents' \in 0 .. (LongModulus - 1)
    BY <1>4, RingAssumption, SMT DEF CountDrop, TypeOK
  <2>2. QED  BY <1>a, <2>1, <1>4 DEF CountDrop, TypeOK
<1>5. CASE ClaimSlot(t)
  <2>0. claimed \in Seq(SlotContents)
    BY DEF TypeOK
  <2>1. Append(claimed, event[t]) \in Seq(SlotContents)
    BY <1>b, <2>0, AppendType
  <2>2. enqueuePosition' \in Nat /\ claimed' \in Seq(SlotContents)
    BY <1>b, <1>5, <2>1 DEF ClaimSlot, TypeOK
  <2>3. QED  BY <1>a, <2>2, <1>5 DEF ClaimSlot, TypeOK
<1>6. CASE CopyInFirst(t) \/ CopyInSecond(t)
  <2> DEFINE first == [slotEvent EXCEPT ![SlotOf(position[t])][1] = event[t]]
             second == [slotEvent EXCEPT ![SlotOf(position[t])][2] = event[t]]
  <2>1. slotEvent \in [Slots -> SlotContents \X SlotContents]
    BY DEF TypeOK
  <2>2. /\ first \in [Slots -> SlotContents \X SlotContents]
        /\ second \in [Slots -> SlotContents \X SlotContents]
    BY <1>b, <1>c, <2>1, HalfUpdate
  <2>3. slotEvent' = first \/ slotEvent' = second
    BY <1>6 DEF CopyInFirst, CopyInSecond, CopyIn
  <2> HIDE DEF first, second
  <2>4. slotEvent' \in [Slots -> SlotContents \X SlotContents]
    BY <2>2, <2>3
  <2>5. QED
    BY <1>a, <2>4, <1>6 DEF CopyInFirst, CopyInSecond, CopyIn, TypeOK
<1>7. CASE Publish(t)
  <2>0. slotSequence \in [Slots -> Nat]
    BY DEF TypeOK
  <2>1. [slotSequence EXCEPT ![SlotOf(position[t])] = position[t] + 1]
          \in [Slots -> Nat]
    BY <1>b, <2>0, SequenceUpdate
  <2>2. QED  BY <1>a, <2>1, <1>7 DEF Publish, TypeOK
<1>8. CASE RequestWake(t) \/ SignalWake(t) \/ WithdrawWake(t)
  BY <1>a, <1>8 DEF RequestWake, SignalWake, WithdrawWake, TypeOK
<1>9. CASE ThreadDies(t)
  BY <1>a, <1>9 DEF ThreadDies, TypeOK
<1>10. QED
  BY <1>1, <1>2, <1>3, <1>4, <1>5, <1>6, <1>7, <1>8, <1>9 DEF EmitStep

\* Every step of the reader keeps the types.
LEMMA ReadType ==
  ASSUME TypeOK, ReadStep \/ ClearWakePending \/ ConsumeWake
  PROVE  TypeOK'
<1> USE DEF ReadGoto, memVars, wakeVars, threadVars
<1>1. CASE BeginRead
  BY <1>1 DEF BeginRead, TypeOK, ReadPcs
<1>2. CASE AdvanceDequeue
  BY <1>2 DEF AdvanceDequeue, TypeOK, ReadPcs
<1>3. CASE ClearWakePending
  BY <1>3 DEF ClearWakePending, TypeOK, readVars
<1>4. CASE ConsumeWake
  BY <1>4 DEF ConsumeWake, TypeOK, readVars
<1>5. CASE CopyOutFirst \/ CopyOutSecond
  <2>1. SlotOf(dequeuePosition) \in Slots
    BY DivMod DEF TypeOK
  <2>2. QED
    BY <2>1, <1>5 DEF CopyOutFirst, CopyOutSecond, CopyOut, TypeOK, ReadPcs
<1>6. CASE ReleaseSlot
  <2>0. slotSequence \in [Slots -> Nat] /\ dequeuePosition + Capacity \in Nat
    BY CapacityFacts DEF TypeOK
  <2>1. [slotSequence EXCEPT
           ![SlotOf(dequeuePosition)] = dequeuePosition + Capacity]
          \in [Slots -> Nat]
    BY <2>0, SequenceUpdate
  <2>2. Append(received, readEvent) \in Seq(SlotContents \X SlotContents)
    BY AppendType DEF TypeOK
  <2>3. QED  BY <2>1, <2>2, <1>6 DEF ReleaseSlot, TypeOK, ReadPcs
<1>7. QED
  BY <1>1, <1>2, <1>3, <1>4, <1>5, <1>6 DEF ReadStep

-----------------------------------------------------------------------------
(* The inductive invariant.                                                *)

\* Facts about the numbers and sequences that the steps below start from.
LEMMA Sizes ==
  ASSUME TypeOK
  PROVE  /\ enqueuePosition \in Nat /\ dequeuePosition \in Nat
         /\ Delivered \in Nat
         /\ claimed \in Seq(SlotContents) /\ Len(claimed) \in Nat
         /\ position \in [Threads -> Nat]
         /\ slotSequence \in [Slots -> Nat]
  BY DEF TypeOK, Delivered

\* The ring starts empty with every slot free.
LEMMA InitInv == RingInit => RingInv
<1> SUFFICES ASSUME RingInit PROVE RingInv
  OBVIOUS
<1>1. TypeOK
  BY InitType
<1>2. Delivered = 0 /\ Len(claimed) = 0
  BY DEF RingInit, Delivered
<1>3. PositionsInv
  BY <1>2, CapacityFacts DEF PositionsInv, RingInit
<1>4. SlotsInv
  <2>1. \A q \in 0 .. (Capacity - 1) : q \in Slots /\ SlotOf(q) = q
    BY CapacityFacts, SMT DEF SlotOf, Slots
  <2>2. QED
    BY <1>2, <2>1, CapacityFacts DEF SlotsInv, RingInit
<1>5. WritersInv
  BY DEF WritersInv, Writing, RingInit
<1>6. ReaderInv /\ CandidatesInv
  BY DEF ReaderInv, Reading, CandidatesInv, RingInit
<1>7. InOrderDelivery
  BY <1>2 DEF InOrderDelivery, Delivered
<1>8. QED
  BY <1>1, <1>3, <1>4, <1>5, <1>6, <1>7 DEF RingInv

\* A slot seen free for the next position means the ring is not full.
LEMMA FreeMeansRoom ==
  ASSUME RingInv, slotSequence[SlotOf(enqueuePosition)] = enqueuePosition
  PROVE  enqueuePosition < Delivered + Capacity
<1> USE Sizes, CapacityFacts DEF RingInv
<1>1. CASE enqueuePosition = Delivered + Capacity
  <2>1. SlotOf(enqueuePosition) = SlotOf(Delivered)
    BY <1>1, NextLap
  <2>2. Delivered \in Delivered .. (enqueuePosition - 1)
    BY <1>1
  <2>3. slotSequence[SlotOf(Delivered)] \in {Delivered, Delivered + 1}
    BY <2>2 DEF SlotsInv
  <2>4. QED  BY <1>1, <2>1, <2>3
<1>2. QED  BY <1>1, SMTT(30) DEF PositionsInv

\* The steps of a thread that writes neither the slots nor the positions.
LEMMA QuietStep ==
  ASSUME RingInv, NEW t \in Threads,
         \/ Emit(t) \/ LoadPosition(t) \/ CheckSlot(t) \/ CountDrop(t)
         \/ RequestWake(t) \/ SignalWake(t) \/ WithdrawWake(t)
         \/ ThreadDies(t)
  PROVE  RingInv'
<1> USE DEF RingInv
<1>1. TypeOK'
  BY EmitType DEF EmitStep
<1>2. /\ UNCHANGED <<enqueuePosition, slotSequence, slotEvent, claimed,
                     dequeuePosition, readPc, readEvent, received>>
      /\ ~Writing(t)'
      /\ \A u \in Threads \ {t} :
           /\ pc'[u] = pc[u] /\ position'[u] = position[u]
           /\ event'[u] = event[u]
  BY DEF TypeOK, Writing, Goto, memVars, readVars, Emit, LoadPosition,
         CheckSlot, CountDrop, RequestWake, SignalWake, WithdrawWake,
         ThreadDies
<1>3. PositionsInv' /\ SlotsInv' /\ ReaderInv' /\ InOrderDelivery'
  BY <1>2 DEF PositionsInv, SlotsInv, ReaderInv, InOrderDelivery, Delivered,
              Reading, Published
<1>4. WritersInv'
  BY <1>2 DEF WritersInv, Writing, Delivered
<1>a. pc'[t] \in {"load", "check", "claim"} => event'[t] \in Events
  <2>1. CASE Emit(t)
    <3>1. eventSequence' \in 0 .. (LongModulus - 1)
      BY <1>1 DEF TypeOK
    <3>2. emits[t] + 1 \in 1 .. MaxEmits
      BY <2>1, RingAssumption DEF Emit, TypeOK
    <3>3. event'[t] = [thread |-> t, call |-> emits[t] + 1,
                       sequence |-> eventSequence']
      BY <2>1 DEF Emit, TypeOK
    <3>4. QED  BY <3>1, <3>2, <3>3 DEF Events
  <2>2. CASE ~Emit(t)
    <3>1. /\ event'[t] = event[t]
          /\ pc'[t] \in {"load", "check", "claim"}
               => pc[t] \in {"load", "check", "claim"}
      BY <2>2 DEF TypeOK, Goto, LoadPosition, CheckSlot, CountDrop,
                  RequestWake, SignalWake, WithdrawWake, ThreadDies
    <3>2. QED  BY <3>1 DEF CandidatesInv
  <2>3. QED  BY <2>1, <2>2
<1>5. CandidatesInv'
  <2>1. CASE LoadPosition(t)
    <3>1. pc'[t] = "check" /\ position'[t] = enqueuePosition
      BY <2>1 DEF LoadPosition, Goto, TypeOK
    <3>2. QED  BY <1>2, <1>a, <3>1, Sizes DEF CandidatesInv, Delivered
  <2>2. CASE CheckSlot(t)
    <3>0. position[t] \in Nat /\ slotSequence[SlotOf(position[t])] \in Nat
      BY DivMod, Sizes
    <3>1. /\ pc[t] = "check"
          /\ position'[t] = position[t]
          /\ pc'[t] = "claim" => slotSequence[SlotOf(position[t])] = position[t]
      BY <2>2, <3>0 DEF CheckSlot, Goto, TypeOK
    <3>2. pc'[t] = "claim" /\ position'[t] = enqueuePosition
            => enqueuePosition < Delivered + Capacity
      BY <3>1, FreeMeansRoom
    <3>3. QED  BY <1>2, <1>a, <3>1, <3>2 DEF CandidatesInv, Delivered
  <2>3. CASE ~LoadPosition(t) /\ ~CheckSlot(t)
    <3>1. pc'[t] \notin {"check", "claim"}
      BY <2>3 DEF TypeOK, Goto, Emit, CountDrop, RequestWake, SignalWake,
                  WithdrawWake, ThreadDies
    <3>2. QED  BY <1>2, <1>a, <3>1 DEF CandidatesInv, Delivered
  <2>4. QED  BY <2>1, <2>2, <2>3
<1>6. QED  BY <1>1, <1>3, <1>4, <1>5

\* A thread that wins the compare-exchange owns a free slot.
LEMMA ClaimStep ==
  ASSUME RingInv, NEW t \in Threads, ClaimSlot(t)
  PROVE  RingInv'
<1> USE DEF RingInv
<1>1. TypeOK'
  BY EmitType DEF EmitStep
<1>2. CASE enqueuePosition # position[t]
  <2>1. /\ UNCHANGED <<enqueuePosition, slotSequence, slotEvent, claimed,
                       dequeuePosition, readPc, readEvent, received,
                       position, event>>
        /\ pc'[t] = "load" /\ \A u \in Threads \ {t} : pc'[u] = pc[u]
    BY <1>2 DEF TypeOK, Goto, readVars, ClaimSlot
  <2>2. PositionsInv' /\ SlotsInv' /\ ReaderInv' /\ InOrderDelivery'
    BY <2>1 DEF PositionsInv, SlotsInv, ReaderInv, InOrderDelivery,
                Delivered, Reading, Published
  <2>3. WritersInv'
    BY <2>1 DEF WritersInv, Writing, Delivered
  <2>a. pc[t] = "claim"
    BY DEF ClaimSlot, Goto
  <2>b. CandidatesInv'
    BY <2>1, <2>a DEF CandidatesInv, Delivered
  <2>4. QED  BY <1>1, <2>2, <2>3, <2>b
<1>3. CASE enqueuePosition = position[t]
  <2>1. /\ UNCHANGED <<slotSequence, slotEvent, dequeuePosition, readPc,
                       readEvent, received, position, event>>
        /\ pc[t] = "claim" /\ pc'[t] = "copyFirst"
        /\ \A u \in Threads \ {t} : pc'[u] = pc[u]
        /\ enqueuePosition' = enqueuePosition + 1
        /\ claimed' = Append(claimed, event[t])
    BY <1>3 DEF TypeOK, Goto, readVars, ClaimSlot
  <2>2. enqueuePosition < Delivered + Capacity
    BY <1>3, <2>1 DEF CandidatesInv
  <2>3. slotSequence[SlotOf(enqueuePosition)] = enqueuePosition
    BY <2>2, Sizes, CapacityFacts DEF SlotsInv
  <2>4. /\ Delivered' = Delivered
        /\ Len(claimed') = enqueuePosition + 1
        /\ claimed'[enqueuePosition + 1] = event[t]
        /\ \A i \in 1 .. enqueuePosition : claimed'[i] = claimed[i]
    BY <2>1, Sizes DEF Delivered, PositionsInv
  <2>5. PositionsInv'
    BY <2>1, <2>2, <2>4, Sizes, CapacityFacts DEF PositionsInv
  <2>6. SlotsInv'
    <3>1. ASSUME NEW q \in Delivered .. enqueuePosition
          PROVE  /\ slotSequence[SlotOf(q)] \in {q, q + 1}
                 /\ slotSequence[SlotOf(q)] = q + 1
                      => slotEvent[SlotOf(q)] = Whole(claimed'[q + 1])
      <4>1. CASE q = enqueuePosition
        BY <4>1, <2>3, Sizes
      <4>2. CASE q # enqueuePosition
        <5>1. q \in Delivered .. (enqueuePosition - 1)
              /\ q + 1 \in 1 .. enqueuePosition
          BY <4>2, Sizes
        <5>2. QED  BY <5>1, <2>4 DEF SlotsInv
      <4>3. QED  BY <4>1, <4>2
    <3>2. \A q \in (enqueuePosition + 1) .. (Delivered + Capacity - 1) :
            slotSequence[SlotOf(q)] = q
      BY Sizes, CapacityFacts DEF SlotsInv
    <3>3. QED  BY <2>1, <2>4, <3>1, <3>2, Sizes DEF SlotsInv
  <2>7. WritersInv'
    <3>1. ASSUME NEW u \in Threads, Writing(u)'
          PROVE  /\ position[u] \in Delivered .. enqueuePosition
                 /\ slotSequence[SlotOf(position[u])] = position[u]
                 /\ claimed'[position[u] + 1] = event[u]
                 /\ pc'[u] # "copyFirst"
                      => slotEvent[SlotOf(position[u])][1] = event[u]
                 /\ pc'[u] = "publish"
                      => slotEvent[SlotOf(position[u])][2] = event[u]
                 /\ u # t => position[u] < enqueuePosition
      <4>1. CASE u = t
        BY <4>1, <1>3, <2>1, <2>3, <2>4, Sizes DEF PositionsInv
      <4>2. CASE u # t
        <5>1. Writing(u) /\ pc'[u] = pc[u]
          BY <4>2, <3>1, <2>1 DEF Writing
        <5>2. position[u] \in Delivered .. (enqueuePosition - 1)
          BY <5>1 DEF WritersInv
        <5>3. position[u] + 1 \in 1 .. enqueuePosition
          BY <5>2, Sizes
        <5>4. QED  BY <5>1, <5>2, <5>3, <2>4, Sizes DEF WritersInv
      <4>3. QED  BY <4>1, <4>2
    <3>2. ASSUME NEW u \in Threads, NEW v \in Threads, u # v,
                 Writing(u)', Writing(v)'
          PROVE  position[u] # position[v]
      <4>1. CASE u = t \/ v = t
        BY <4>1, <3>1, <3>2, <1>3, Sizes
      <4>2. CASE u # t /\ v # t
        BY <4>2, <3>2, <2>1 DEF WritersInv, Writing
      <4>3. QED  BY <4>1, <4>2
    <3>3. QED
      BY <2>1, <2>4, <3>1, <3>2, Sizes DEF WritersInv
  <2>8. ReaderInv'
    <3>1. Reading' <=> Reading
      BY <2>1 DEF Reading
    <3>2. Reading => Delivered + 1 \in 1 .. enqueuePosition
      BY Sizes DEF ReaderInv
    <3>3. QED  BY <2>1, <2>4, <3>1, <3>2, Sizes DEF ReaderInv
  <2>9. CandidatesInv'
    BY <2>1, <2>4, Sizes DEF CandidatesInv
  <2>10. InOrderDelivery'
    <3>1. Len(received) \in Nat /\ Len(received) <= enqueuePosition
      BY Sizes DEF PositionsInv, Delivered
    <3>2. QED  BY <2>1, <2>4, <3>1, Sizes DEF InOrderDelivery, PositionsInv
  <2>11. QED  BY <1>1, <2>5, <2>6, <2>7, <2>8, <2>9, <2>10
<1>4. QED  BY <1>2, <1>3

\* Copying into an owned slot disturbs no published slot and no other writer.
LEMMA CopyInStep ==
  ASSUME RingInv, NEW t \in Threads, CopyInFirst(t) \/ CopyInSecond(t)
  PROVE  RingInv'
<1> USE DEF RingInv
<1> DEFINE p == position[t]
<1>1. TypeOK'
  BY EmitType DEF EmitStep
<1>2. PICK half \in {1, 2} :
        slotEvent' = [slotEvent EXCEPT ![SlotOf(p)][half] = event[t]]
  BY DEF CopyInFirst, CopyInSecond, CopyIn
<1>3. /\ UNCHANGED <<enqueuePosition, slotSequence, claimed, dequeuePosition,
                     readPc, readEvent, received, position, event>>
      /\ Writing(t)
      /\ \/ pc[t] = "copyFirst" /\ pc'[t] = "copySecond"
         \/ pc[t] = "copySecond" /\ pc'[t] = "publish"
      /\ \A u \in Threads \ {t} : pc'[u] = pc[u]
  BY DEF CopyInFirst, CopyInSecond, CopyIn, TypeOK, Goto, readVars, Writing
<1>4. /\ p \in Delivered .. (enqueuePosition - 1)
      /\ slotSequence[SlotOf(p)] = p
      /\ claimed[p + 1] = event[t]
      /\ p \in Nat
  BY <1>3, Sizes DEF WritersInv
<1>5. SlotOf(p) \in Slots
  BY <1>4, DivMod
<1>6. \A s \in Slots \ {SlotOf(p)} : slotEvent'[s] = slotEvent[s]
  BY <1>2 DEF TypeOK
<1>7. /\ pc'[t] = "copySecond" => slotEvent'[SlotOf(p)][1] = event[t]
      /\ pc'[t] = "publish" => /\ slotEvent'[SlotOf(p)][1] = event[t]
                               /\ slotEvent'[SlotOf(p)][2] = event[t]
  <2>0. slotEvent \in [Slots -> SlotContents \X SlotContents]
    BY DEF TypeOK
  <2>a. slotEvent[SlotOf(p)] \in SlotContents \X SlotContents
    BY <1>5, <2>0
  <2>1. CASE pc[t] = "copyFirst"
    <3>1. slotEvent' = [slotEvent EXCEPT ![SlotOf(p)][1] = event[t]]
      BY <2>1 DEF CopyInFirst, CopyInSecond, CopyIn, Goto
    <3>2. slotEvent'[SlotOf(p)] = [slotEvent[SlotOf(p)] EXCEPT ![1] = event[t]]
      BY <1>5, <2>0, <3>1
    <3>3. QED  BY <1>3, <2>1, <3>2, <2>a
  <2>2. CASE pc[t] = "copySecond"
    <3>1. slotEvent' = [slotEvent EXCEPT ![SlotOf(p)][2] = event[t]]
      BY <2>2 DEF CopyInFirst, CopyInSecond, CopyIn, Goto
    <3>2. slotEvent'[SlotOf(p)] = [slotEvent[SlotOf(p)] EXCEPT ![2] = event[t]]
      BY <1>5, <2>0, <3>1
    <3>3. slotEvent[SlotOf(p)][1] = event[t]
      BY <1>3, <2>2 DEF WritersInv
    <3>4. QED  BY <1>3, <2>2, <3>2, <3>3, <2>a
  <2>3. QED  BY <1>3, <2>1, <2>2
<1>8. \A q \in Delivered .. (enqueuePosition - 1) :
        q # p => /\ SlotOf(q) \in Slots
                 /\ SlotOf(q) # SlotOf(p)
                 /\ slotEvent'[SlotOf(q)] = slotEvent[SlotOf(q)]
  <2>1. SUFFICES ASSUME NEW q \in Delivered .. (enqueuePosition - 1), q # p
                 PROVE  SlotOf(q) \in Slots /\ SlotOf(q) # SlotOf(p)
    BY <1>6
  <2>2. q \in Nat /\ q < p + Capacity /\ p < q + Capacity
    BY <1>4, Sizes, CapacityFacts DEF PositionsInv
  <2>3. QED  BY <1>4, <2>1, <2>2, DivMod, SlotsDistinct
<1>9. PositionsInv' /\ ReaderInv' /\ CandidatesInv' /\ InOrderDelivery'
  BY <1>3 DEF PositionsInv, ReaderInv, CandidatesInv, InOrderDelivery,
              Delivered, Reading, Published
<1>10. SlotsInv'
  <2>1. \A q \in Delivered .. (enqueuePosition - 1) :
          slotSequence[SlotOf(q)] = q + 1
            => slotEvent'[SlotOf(q)] = Whole(claimed[q + 1])
    BY <1>4, <1>8, Sizes, SMTT(30) DEF SlotsInv
  <2>2. QED  BY <1>3, <2>1 DEF SlotsInv, Delivered
<1>11. WritersInv'
  <2>1. ASSUME NEW u \in Threads, Writing(u)', u # t
        PROVE  /\ Writing(u) /\ pc'[u] = pc[u]
               /\ position[u] \in Delivered .. (enqueuePosition - 1)
               /\ slotEvent'[SlotOf(position[u])] = slotEvent[SlotOf(position[u])]
    <3>1. Writing(u) /\ pc'[u] = pc[u]
      BY <1>3, <2>1 DEF Writing
    <3>2. /\ position[u] \in Delivered .. (enqueuePosition - 1)
          /\ position[u] # p
      BY <1>3, <2>1, <3>1 DEF WritersInv
    <3>3. QED  BY <3>1, <3>2, <1>8
  <2>2. ASSUME NEW u \in Threads, Writing(u)'
        PROVE  /\ position[u] \in Delivered .. (enqueuePosition - 1)
               /\ slotSequence[SlotOf(position[u])] = position[u]
               /\ claimed[position[u] + 1] = event[u]
               /\ pc'[u] # "copyFirst"
                    => slotEvent'[SlotOf(position[u])][1] = event[u]
               /\ pc'[u] = "publish"
                    => slotEvent'[SlotOf(position[u])][2] = event[u]
    <3>1. CASE u = t
      BY <3>1, <1>3, <1>4, <1>7
    <3>2. CASE u # t
      BY <3>2, <2>1, <2>2 DEF WritersInv
    <3>3. QED  BY <3>1, <3>2
  <2>3. \A u, v \in Threads :
          u # v /\ Writing(u)' /\ Writing(v)' => position[u] # position[v]
    BY <1>3, <2>1 DEF WritersInv
  <2>4. QED  BY <1>3, <2>2, <2>3 DEF WritersInv, Delivered
<1>12. QED  BY <1>1, <1>9, <1>10, <1>11

\* Publishing turns the owner's claimed slot into a published one.
LEMMA PublishStep ==
  ASSUME RingInv, NEW t \in Threads, Publish(t)
  PROVE  RingInv'
<1> USE DEF RingInv
<1> DEFINE p == position[t]
<1>1. TypeOK'
  BY EmitType DEF EmitStep
<1>2. /\ UNCHANGED <<enqueuePosition, slotEvent, claimed, dequeuePosition,
                     readPc, readEvent, received, position, event>>
      /\ pc[t] = "publish" /\ Writing(t) /\ ~Writing(t)'
      /\ pc'[t] \notin {"load", "check", "claim"}
      /\ slotSequence' = [slotSequence EXCEPT ![SlotOf(p)] = p + 1]
      /\ \A u \in Threads \ {t} : pc'[u] = pc[u]
  BY DEF Publish, TypeOK, Goto, readVars, Writing
<1>3. /\ p \in Delivered .. (enqueuePosition - 1)
      /\ slotSequence[SlotOf(p)] = p
      /\ claimed[p + 1] = event[t]
      /\ slotEvent[SlotOf(p)][1] = event[t]
      /\ slotEvent[SlotOf(p)][2] = event[t]
      /\ p \in Nat
  BY <1>2, Sizes DEF WritersInv
<1>4. SlotOf(p) \in Slots
  BY <1>3, DivMod
<1>5. slotSequence'[SlotOf(p)] = p + 1
  BY <1>2, <1>4, Sizes
<1>6. slotEvent[SlotOf(p)] = Whole(claimed[p + 1])
  <2>1. slotEvent[SlotOf(p)] \in SlotContents \X SlotContents
    BY <1>4 DEF TypeOK
  <2>2. QED  BY <2>1, <1>3 DEF Whole
<1>7. \A q \in Delivered .. (Delivered + Capacity - 1) :
        q # p => slotSequence'[SlotOf(q)] = slotSequence[SlotOf(q)]
  <2>1. SUFFICES ASSUME NEW q \in Delivered .. (Delivered + Capacity - 1), q # p
                 PROVE  SlotOf(q) \in Slots /\ SlotOf(q) # SlotOf(p)
    BY <1>2, Sizes
  <2>2. q \in Nat /\ q < p + Capacity /\ p < q + Capacity
    BY <1>3, Sizes, CapacityFacts, SMTT(30) DEF PositionsInv
  <2>3. QED  BY <1>3, <2>1, <2>2, DivMod, SlotsDistinct
<1>8. PositionsInv' /\ CandidatesInv' /\ InOrderDelivery'
  BY <1>2 DEF PositionsInv, CandidatesInv, InOrderDelivery, Delivered
<1>9. SlotsInv'
  <2>1. ASSUME NEW q \in Delivered .. (enqueuePosition - 1)
        PROVE  /\ slotSequence'[SlotOf(q)] \in {q, q + 1}
               /\ slotSequence'[SlotOf(q)] = q + 1
                    => slotEvent[SlotOf(q)] = Whole(claimed[q + 1])
    <3>1. CASE q = p
      BY <3>1, <1>5, <1>6
    <3>2. CASE q # p
      <4>1. q \in Delivered .. (Delivered + Capacity - 1)
        BY Sizes, CapacityFacts DEF PositionsInv
      <4>2. QED  BY <3>2, <4>1, <1>7 DEF SlotsInv
    <3>3. QED  BY <3>1, <3>2
  <2>2. ASSUME NEW q \in enqueuePosition .. (Delivered + Capacity - 1)
        PROVE  slotSequence'[SlotOf(q)] = q
    <3>1. q \in Delivered .. (Delivered + Capacity - 1) /\ q # p
      BY <1>3, Sizes, CapacityFacts, SMTT(30) DEF PositionsInv
    <3>2. QED  BY <3>1, <1>7 DEF SlotsInv
  <2>3. QED  BY <1>2, <2>1, <2>2 DEF SlotsInv, Delivered
<1>10. WritersInv'
  <2>1. ASSUME NEW u \in Threads, Writing(u)'
        PROVE  /\ Writing(u) /\ pc'[u] = pc[u]
               /\ slotSequence'[SlotOf(position[u])] = position[u]
    <3>1. u # t /\ Writing(u) /\ pc'[u] = pc[u]
      BY <1>2, <2>1 DEF Writing
    <3>2. /\ position[u] \in Delivered .. (enqueuePosition - 1)
          /\ position[u] # p
          /\ slotSequence[SlotOf(position[u])] = position[u]
      BY <1>2, <3>1 DEF WritersInv
    <3>3. position[u] \in Delivered .. (Delivered + Capacity - 1)
      BY <3>2, Sizes, CapacityFacts DEF PositionsInv
    <3>4. QED  BY <3>1, <3>2, <3>3, <1>7
  <2>2. QED  BY <1>2, <2>1 DEF WritersInv, Delivered
<1>11. ReaderInv'
  <2>1. Reading => Delivered # p
    BY <1>3, Sizes DEF ReaderInv
  <2>2. Reading => slotSequence'[SlotOf(Delivered)] = Delivered + 1
    BY <2>1, <1>7, Sizes, CapacityFacts, SMTT(30) DEF ReaderInv
  <2>3. QED  BY <1>2, <2>2 DEF ReaderInv, Reading, Delivered
<1>12. QED  BY <1>1, <1>8, <1>9, <1>10, <1>11

\* The reader starts to copy only from a published slot.
LEMMA BeginReadStep ==
  ASSUME RingInv, BeginRead
  PROVE  RingInv'
<1> USE DEF RingInv
<1>1. TypeOK'
  BY ReadType DEF ReadStep
<1>2. /\ UNCHANGED <<enqueuePosition, slotSequence, slotEvent, claimed,
                     dequeuePosition, readEvent, received, pc, position, event>>
      /\ readPc = "idle" /\ readPc' = "copyFirst"
      /\ slotSequence[SlotOf(dequeuePosition)] = dequeuePosition + 1
  BY DEF BeginRead, ReadGoto, Published, memVars, threadVars
<1>3. dequeuePosition = Delivered
  BY <1>2 DEF PositionsInv
<1>4. Delivered < enqueuePosition
  BY <1>2, <1>3, Sizes, CapacityFacts DEF PositionsInv, SlotsInv
<1>5. PositionsInv' /\ SlotsInv' /\ WritersInv' /\ CandidatesInv'
      /\ InOrderDelivery'
  BY <1>2 DEF PositionsInv, SlotsInv, WritersInv, CandidatesInv,
              InOrderDelivery, Delivered, Writing
<1>6. ReaderInv'
  BY <1>2, <1>3, <1>4 DEF ReaderInv, Delivered
<1>7. QED  BY <1>1, <1>5, <1>6

\* What the reader copies is the event claimed at that position.
LEMMA CopyOutStep ==
  ASSUME RingInv, CopyOutFirst \/ CopyOutSecond
  PROVE  RingInv'
<1> USE DEF RingInv
<1>1. TypeOK'
  BY ReadType DEF ReadStep
<1>2. /\ UNCHANGED <<enqueuePosition, slotSequence, slotEvent, claimed,
                     dequeuePosition, received, pc, position, event>>
      /\ Reading /\ Reading' /\ readPc # "advance" /\ readPc' # "advance"
  BY DEF CopyOutFirst, CopyOutSecond, CopyOut, ReadGoto, memVars, threadVars,
         Reading
<1>3. dequeuePosition = Delivered
  BY <1>2 DEF PositionsInv
<1>4. slotEvent[SlotOf(Delivered)] = Whole(claimed[Delivered + 1])
  BY <1>2, Sizes, SMTT(30) DEF ReaderInv, SlotsInv
<1>5. /\ readPc' # "copyFirst" => readEvent'[1] = claimed[Delivered + 1]
      /\ readPc' = "release" => readEvent'[2] = claimed[Delivered + 1]
  <2>0. readEvent \in SlotContents \X SlotContents
    BY DEF TypeOK
  <2>1. CASE CopyOutFirst
    <3>1. /\ readPc' = "copySecond"
          /\ readEvent' = [readEvent EXCEPT
                             ![1] = slotEvent[SlotOf(Delivered)][1]]
      BY <2>1, <1>3 DEF CopyOutFirst, CopyOut, ReadGoto
    <3>2. QED  BY <2>0, <3>1, <1>4 DEF Whole
  <2>2. CASE CopyOutSecond
    <3>1. /\ readPc = "copySecond" /\ readPc' = "release"
          /\ readEvent' = [readEvent EXCEPT
                             ![2] = slotEvent[SlotOf(Delivered)][2]]
      BY <2>2, <1>3 DEF CopyOutSecond, CopyOut, ReadGoto
    <3>2. readEvent[1] = claimed[Delivered + 1]
      BY <1>2, <3>1 DEF ReaderInv
    <3>3. QED  BY <2>0, <3>1, <3>2, <1>4 DEF Whole
  <2>3. QED  BY <2>1, <2>2
<1>6. PositionsInv' /\ SlotsInv' /\ WritersInv' /\ CandidatesInv'
      /\ InOrderDelivery'
  BY <1>2 DEF PositionsInv, SlotsInv, WritersInv, CandidatesInv,
              InOrderDelivery, Delivered, Writing
<1>7. ReaderInv'
  BY <1>2, <1>5 DEF ReaderInv, Delivered
<1>8. QED  BY <1>1, <1>6, <1>7

\* Releasing a slot delivers its event and frees the slot one lap ahead.
LEMMA ReleaseStep ==
  ASSUME RingInv, ReleaseSlot
  PROVE  RingInv'
<1> USE DEF RingInv
<1>1. TypeOK'
  BY ReadType DEF ReadStep
<1>2. /\ UNCHANGED <<enqueuePosition, slotEvent, claimed, dequeuePosition,
                     readEvent, pc, position, event>>
      /\ readPc = "release" /\ readPc' = "advance" /\ Reading
      /\ received' = Append(received, readEvent)
  BY DEF ReleaseSlot, ReadGoto, threadVars, Reading
<1>3. /\ dequeuePosition = Delivered
      /\ Delivered < enqueuePosition
      /\ slotSequence[SlotOf(Delivered)] = Delivered + 1
  BY <1>2 DEF PositionsInv, ReaderInv
<1>4. /\ Delivered' = Delivered + 1
      /\ received'[Delivered + 1] = readEvent
      /\ \A i \in 1 .. Delivered : received'[i] = received[i]
  BY <1>2 DEF Delivered, TypeOK
<1>5. readEvent = Whole(claimed[Delivered + 1])
  <2>1. /\ readEvent[1] = claimed[Delivered + 1]
        /\ readEvent[2] = claimed[Delivered + 1]
    BY <1>2 DEF ReaderInv
  <2>2. readEvent \in SlotContents \X SlotContents
    BY DEF TypeOK
  <2>3. QED  BY <2>1, <2>2 DEF Whole
<1>6. slotSequence' = [slotSequence EXCEPT
                         ![SlotOf(Delivered)] = Delivered + Capacity]
  BY <1>3 DEF ReleaseSlot
<1>7. \A q \in (Delivered + 1) .. (Delivered + Capacity - 1) :
        slotSequence'[SlotOf(q)] = slotSequence[SlotOf(q)]
  <2>1. SUFFICES ASSUME NEW q \in (Delivered + 1) .. (Delivered + Capacity - 1)
                 PROVE  SlotOf(q) \in Slots /\ SlotOf(q) # SlotOf(Delivered)
    BY <1>6, Sizes
  <2>2. q \in Nat /\ q # Delivered
        /\ q < Delivered + Capacity /\ Delivered < q + Capacity
    BY Sizes, CapacityFacts
  <2>3. QED  BY <2>2, Sizes, DivMod, SlotsDistinct
<1>8. slotSequence'[SlotOf(Delivered + Capacity)] = Delivered + Capacity
  BY <1>6, NextLap, DivMod, Sizes
<1>9. PositionsInv'
  BY <1>2, <1>3, <1>4, Sizes, CapacityFacts DEF PositionsInv
<1>10. SlotsInv'
  <2>1. ASSUME NEW q \in (Delivered + 1) .. (enqueuePosition - 1)
        PROVE  /\ slotSequence'[SlotOf(q)] \in {q, q + 1}
               /\ slotSequence'[SlotOf(q)] = q + 1
                    => slotEvent[SlotOf(q)] = Whole(claimed[q + 1])
    <3>1. /\ q \in (Delivered + 1) .. (Delivered + Capacity - 1)
          /\ q \in Delivered .. (enqueuePosition - 1)
      BY Sizes, CapacityFacts DEF PositionsInv
    <3>2. QED  BY <3>1, <1>7 DEF SlotsInv
  <2>2. ASSUME NEW q \in enqueuePosition .. (Delivered + Capacity)
        PROVE  slotSequence'[SlotOf(q)] = q
    <3>1. CASE q = Delivered + Capacity
      BY <3>1, <1>8
    <3>2. CASE q # Delivered + Capacity
      <4>1. /\ q \in (Delivered + 1) .. (Delivered + Capacity - 1)
            /\ q \in enqueuePosition .. (Delivered + Capacity - 1)
        <5>1. /\ enqueuePosition \in Nat /\ Delivered \in Nat
              /\ Delivered < enqueuePosition
          BY <1>3, Sizes
        <5>2. QED  BY <5>1, <3>2, CapacityFacts
      <4>2. QED  BY <4>1, <1>7 DEF SlotsInv
    <3>3. QED  BY <3>1, <3>2
  <2>3. QED  BY <1>2, <1>4, <2>1, <2>2, Sizes, CapacityFacts DEF SlotsInv
<1>11. WritersInv'
  <2>1. ASSUME NEW u \in Threads, Writing(u)
        PROVE  /\ position[u] \in (Delivered + 1) .. (enqueuePosition - 1)
               /\ slotSequence'[SlotOf(position[u])] = position[u]
    <3>1. /\ position[u] \in Delivered .. (enqueuePosition - 1)
          /\ slotSequence[SlotOf(position[u])] = position[u]
      BY <2>1 DEF WritersInv
    <3>2. position[u] # Delivered
      BY <3>1, <1>3, Sizes
    <3>3. position[u] \in (Delivered + 1) .. (enqueuePosition - 1)
          /\ position[u] \in (Delivered + 1) .. (Delivered + Capacity - 1)
      BY <3>1, <3>2, Sizes, CapacityFacts DEF PositionsInv
    <3>4. QED  BY <3>1, <3>3, <1>7
  <2>2. \A u \in Threads : Writing(u)' <=> Writing(u)
    BY <1>2 DEF Writing
  <2>3. QED  BY <1>2, <1>4, <2>1, <2>2 DEF WritersInv
<1>12. ReaderInv'
  BY <1>2, <1>4, Sizes DEF ReaderInv, Reading
<1>13. CandidatesInv'
  BY <1>2, <1>4, Sizes, CapacityFacts DEF CandidatesInv
<1>14. InOrderDelivery'
  <2>1. \A i \in 1 .. (Delivered + 1) : received'[i] = Whole(claimed[i])
    BY <1>4, <1>5, Sizes DEF InOrderDelivery, Delivered
  <2>2. Delivered + 1 <= Len(claimed)
    BY <1>3, Sizes DEF PositionsInv
  <2>3. Len(received') = Delivered + 1
    BY <1>4 DEF Delivered
  <2>4. QED  BY <1>2, <2>1, <2>2, <2>3 DEF InOrderDelivery
<1>15. QED  BY <1>1, <1>9, <1>10, <1>11, <1>12, <1>13, <1>14

\* The remaining reader steps leave slots and threads alone.
LEMMA ReaderQuietStep ==
  ASSUME RingInv, AdvanceDequeue \/ ClearWakePending \/ ConsumeWake
  PROVE  RingInv'
<1> USE DEF RingInv
<1>1. TypeOK'
  BY ReadType DEF ReadStep
<1>2. UNCHANGED <<enqueuePosition, slotSequence, slotEvent, claimed,
                  readEvent, received, pc, position, event>>
  BY DEF AdvanceDequeue, ClearWakePending, ConsumeWake, memVars, threadVars,
         readVars
<1>3. \/ readPc = "advance" /\ readPc' = "idle"
         /\ dequeuePosition' = dequeuePosition + 1
      \/ UNCHANGED <<readPc, dequeuePosition>>
  BY DEF AdvanceDequeue, ClearWakePending, ConsumeWake, ReadGoto, readVars
<1>4. PositionsInv'
  BY <1>2, <1>3, Sizes DEF PositionsInv, Delivered
<1>5. ReaderInv'
  BY <1>2, <1>3 DEF ReaderInv, Reading, Delivered
<1>6. SlotsInv' /\ WritersInv' /\ CandidatesInv' /\ InOrderDelivery'
  BY <1>2 DEF SlotsInv, WritersInv, CandidatesInv, InOrderDelivery, Delivered,
              Writing
<1>7. QED  BY <1>1, <1>4, <1>5, <1>6

\* Every step keeps the invariant.
LEMMA StepInv == RingInv /\ [RingNext]_ringVars => RingInv'
<1> SUFFICES ASSUME RingInv, [RingNext]_ringVars PROVE RingInv'
  OBVIOUS
<1>1. ASSUME NEW t \in Threads, Emit(t) \/ EmitStep(t) \/ ThreadDies(t)
      PROVE  RingInv'
  BY <1>1, QuietStep, ClaimStep, CopyInStep, PublishStep DEF EmitStep
<1>2. CASE ReadStep \/ ClearWakePending \/ ConsumeWake
  BY <1>2, BeginReadStep, CopyOutStep, ReleaseStep, ReaderQuietStep
     DEF ReadStep
<1>3. CASE UNCHANGED ringVars
  BY <1>3 DEF ringVars, memVars, wakeVars, threadVars, readVars, RingInv,
              TypeOK, PositionsInv, SlotsInv, WritersInv, ReaderInv,
              CandidatesInv, InOrderDelivery, Delivered, Writing, Reading
<1>4. QED  BY <1>1, <1>2, <1>3 DEF RingNext

\* Every state EmitTraceEvent and TryReadRing can reach satisfies the
\* invariant, for any capacity of at least two, any threads and any faults.
THEOREM RingInvariant == RingSpec => []RingInv
<1>1. QED  BY InitInv, StepInv, PTL DEF RingSpec

-----------------------------------------------------------------------------
(* What the invariant gives.                                               *)

\* The variables of EmitTraceEvent, TryReadRing and the ring keep their types.
THEOREM TypeCorrect == RingSpec => []TypeOK
<1>1. RingInv => TypeOK
  BY DEF RingInv
<1>2. QED  BY <1>1, RingInvariant, PTL

\* TryReadRing returns the events in claim order, whole and without loss.
THEOREM DeliversInOrder == RingSpec => []InOrderDelivery
<1>1. RingInv => InOrderDelivery
  BY DEF RingInv
<1>2. QED  BY <1>1, RingInvariant, PTL

\* No copy into a slot of EmitTraceEvent overlaps another copy of that slot.
THEOREM SlotsExclusive == RingSpec => []SlotExclusion
<1>1. RingInv => SlotExclusion
  <2> SUFFICES ASSUME RingInv PROVE SlotExclusion
    OBVIOUS
  <2> USE DEF RingInv
  <2>1. ASSUME NEW t \in Threads, NEW u \in Threads,
               t # u, Writing(t), Writing(u)
        PROVE  SlotOf(position[t]) # SlotOf(position[u])
    <3>1. /\ position[t] \in Delivered .. (enqueuePosition - 1)
          /\ position[u] \in Delivered .. (enqueuePosition - 1)
          /\ position[t] # position[u]
      BY <2>1 DEF WritersInv
    <3>2. /\ position[t] \in Nat /\ position[u] \in Nat
          /\ position[t] < position[u] + Capacity
          /\ position[u] < position[t] + Capacity
      BY <3>1, Sizes, CapacityFacts DEF PositionsInv
    <3>3. QED  BY <3>1, <3>2, SlotsDistinct
  <2>2. ASSUME NEW t \in Threads, Writing(t), Reading
        PROVE  SlotOf(position[t]) # SlotOf(dequeuePosition)
    <3>1. /\ position[t] \in Delivered .. (enqueuePosition - 1)
          /\ slotSequence[SlotOf(position[t])] = position[t]
      BY <2>2 DEF WritersInv
    <3>2. /\ dequeuePosition = Delivered
          /\ slotSequence[SlotOf(Delivered)] = Delivered + 1
      BY <2>2 DEF ReaderInv, PositionsInv, Reading
    <3>3. /\ position[t] \in Nat /\ position[t] # Delivered
          /\ position[t] < Delivered + Capacity
          /\ Delivered < position[t] + Capacity
      <4>1. CASE position[t] = Delivered
        BY <4>1, <3>1, <3>2, Sizes
      <4>2. CASE position[t] # Delivered
        BY <4>2, <3>1, Sizes, CapacityFacts DEF PositionsInv
      <4>3. QED  BY <4>1, <4>2
    <3>4. QED  BY <3>2, <3>3, Sizes, SlotsDistinct
  <2>3. QED  BY <2>1, <2>2 DEF SlotExclusion
<1>2. QED  BY <1>1, RingInvariant, PTL

\* A slot sequence behind the position a thread read, fresh or stale, means
\* that the ring is full.
LEMMA BehindMeansFull ==
  ASSUME RingInv, NEW p \in Nat, p <= enqueuePosition,
         slotSequence[SlotOf(p)] < p
  PROVE  enqueuePosition = Delivered + Capacity
<1> USE Sizes, CapacityFacts DEF RingInv
<1> SUFFICES ASSUME enqueuePosition < Delivered + Capacity PROVE FALSE
  BY DEF PositionsInv
<1>1. PICK q \in Delivered .. (Delivered + Capacity - 1) : SlotOf(q) = SlotOf(p)
  BY WindowCovers
<1>2. q \in Nat
  BY <1>1
<1>3. slotSequence[SlotOf(q)] \in {q, q + 1}
  <2>1. q \in Delivered .. (enqueuePosition - 1)
        \/ q \in enqueuePosition .. (Delivered + Capacity - 1)
    BY <1>1
  <2>2. QED  BY <2>1 DEF SlotsInv
<1>4. q < p
  BY <1>1, <1>2, <1>3
<1>5. p < q + Capacity
  BY <1>1, <1>2
<1>6. QED  BY <1>1, <1>2, <1>4, <1>5, SlotsDiffer

\* The step that drops an event, seen from the invariant.
LEMMA DropStep ==
  ASSUME RingInv, [RingNext]_ringVars, NEW t \in Threads,
         pc[t] = "check", pc'[t] = "drop"
  PROVE  enqueuePosition = Delivered + Capacity
<1>1. CheckSlot(t)
  <2>1. TypeOK
    BY DEF RingInv
  <2>2. ~UNCHANGED ringVars
    BY DEF ringVars, threadVars
  <2>3. ~(ReadStep \/ ClearWakePending \/ ConsumeWake)
    BY DEF ReadStep, BeginRead, CopyOutFirst, CopyOutSecond, CopyOut,
           ReleaseSlot, AdvanceDequeue, ClearWakePending, ConsumeWake,
           threadVars
  <2>4. PICK u \in Threads : Emit(u) \/ EmitStep(u) \/ ThreadDies(u)
    BY <2>2, <2>3 DEF RingNext
  <2>5. u = t
    BY <2>1, <2>4 DEF TypeOK, Goto, EmitStep, Emit, LoadPosition, CheckSlot,
         CountDrop, ClaimSlot, CopyInFirst, CopyInSecond, CopyIn, Publish,
         RequestWake, SignalWake, WithdrawWake, ThreadDies
  <2>6. QED
    BY <2>1, <2>4, <2>5 DEF TypeOK, Goto, EmitStep, Emit, LoadPosition,
         CountDrop, ClaimSlot, CopyInFirst, CopyInSecond, CopyIn, Publish,
         RequestWake, SignalWake, WithdrawWake, ThreadDies
<1>2. position[t] \in Nat /\ slotSequence[SlotOf(position[t])] \in Nat
  BY Sizes, DivMod DEF RingInv
<1>3. slotSequence[SlotOf(position[t])] < position[t]
  BY <1>1, <1>2 DEF CheckSlot, Goto, RingInv, TypeOK
<1>4. position[t] <= enqueuePosition
  BY DEF RingInv, CandidatesInv
<1>5. QED  BY <1>2, <1>3, <1>4, BehindMeansFull

\* EmitTraceEvent drops an event only while the ring is full.
THEOREM DropsOnlyWhenFull == RingSpec => DropOnlyWhenFull
<1>1. RingInv /\ [RingNext]_ringVars
        => [\A t \in Threads :
              pc[t] = "check" /\ pc'[t] = "drop"
                => enqueuePosition - Len(received) >= Capacity]_ringVars
  BY DropStep, Sizes, CapacityFacts DEF Delivered, RingInv
<1>2. QED  BY <1>1, RingInvariant, PTL DEF RingSpec, DropOnlyWhenFull

-----------------------------------------------------------------------------
(* Every sequence number is accounted for.                                 *)

\* The threads terminated inside EmitTraceEvent.
Dead == {t \in Threads : pc[t] = "dead"}

\* The balance of EveryEventAccounted, over finitely many threads at work
\* although there may be infinitely many that have not called yet.
AccountInv ==
  /\ IsFiniteSet(InFlight)
  /\ IsFiniteSet(Dead)
  /\ EveryEventAccounted

\* What a step of a hook thread does to the threads at work and to the dead.
LEMMA InFlightStep ==
  ASSUME TypeOK, NEW t \in Threads
  PROVE  /\ Emit(t) => Dead' = Dead /\ InFlight' = InFlight \cup {t}
         /\ CountDrop(t) => Dead' = Dead /\ InFlight' = InFlight \ {t}
         /\ ThreadDies(t) => Dead' = Dead \cup {t} /\ InFlight' = InFlight \ {t}
         /\ ClaimSlot(t) => /\ Dead' = Dead
                            /\ InFlight' = IF enqueuePosition = position[t]
                                             THEN InFlight \ {t} ELSE InFlight
         /\ \/ LoadPosition(t) \/ CheckSlot(t) \/ CopyInFirst(t)
            \/ CopyInSecond(t) \/ Publish(t) \/ RequestWake(t) \/ SignalWake(t)
            \/ WithdrawWake(t)
            => Dead' = Dead /\ InFlight' = InFlight
<1> USE DEF Dead, InFlight, Goto, TypeOK
<1>1. Emit(t) => Dead' = Dead /\ InFlight' = InFlight \cup {t}
  BY DEF Emit
<1>2. CountDrop(t) => Dead' = Dead /\ InFlight' = InFlight \ {t}
  BY DEF CountDrop
<1>3. ThreadDies(t) => Dead' = Dead \cup {t} /\ InFlight' = InFlight \ {t}
  BY DEF ThreadDies
<1>4. ASSUME ClaimSlot(t)
      PROVE  /\ Dead' = Dead
             /\ InFlight' = IF enqueuePosition = position[t]
                              THEN InFlight \ {t} ELSE InFlight
  <2>1. CASE enqueuePosition = position[t]
    BY <1>4, <2>1 DEF ClaimSlot
  <2>2. CASE enqueuePosition # position[t]
    BY <1>4, <2>2 DEF ClaimSlot
  <2> QED
    BY <2>1, <2>2
<1>5. LoadPosition(t) => Dead' = Dead /\ InFlight' = InFlight
  BY DEF LoadPosition
<1>6. CheckSlot(t) => Dead' = Dead /\ InFlight' = InFlight
  BY DEF CheckSlot
<1>7. CopyInFirst(t) \/ CopyInSecond(t) \/ Publish(t) =>
        Dead' = Dead /\ InFlight' = InFlight
  BY DEF CopyInFirst, CopyInSecond, CopyIn, Publish
<1>8. RequestWake(t) \/ SignalWake(t) \/ WithdrawWake(t) =>
        Dead' = Dead /\ InFlight' = InFlight
  BY DEF RequestWake, SignalWake, WithdrawWake
<1> QED
  BY <1>1, <1>2, <1>3, <1>4, <1>5, <1>6, <1>7, <1>8

\* Each step moves a sequence number from one account to another.
LEMMA AccountStep ==
  ASSUME TypeOK, AccountInv, [RingNext]_ringVars
  PROVE  AccountInv'
<1> DEFINE M == LongModulus
           c == Cardinality(InFlight)
           sum(k) == enqueuePosition + droppedEvents + c + k
<1>1. /\ M \in Nat \ {0}
      /\ enqueuePosition \in Nat /\ droppedEvents \in Nat
      /\ IsFiniteSet(InFlight) /\ c \in Nat
      /\ IsFiniteSet(Dead) /\ Cardinality(Dead) \in Nat
  BY FS_CardinalityType, RingAssumption DEF TypeOK, AccountInv
<1>2. PICK lost \in 0 .. Cardinality(Dead) : eventSequence = sum(lost) % M
  BY DEF AccountInv, EveryEventAccounted, Dead
<1>3. lost \in Nat /\ sum(lost) \in Nat
  BY <1>1, <1>2
<1>4. ASSUME IsFiniteSet(InFlight'), IsFiniteSet(Dead'),
             NEW k \in 0 .. Cardinality(Dead'), eventSequence' = sum(k)' % M
      PROVE  AccountInv'
  BY <1>4 DEF AccountInv, EveryEventAccounted, Dead
<1>5. CASE UNCHANGED <<eventSequence, enqueuePosition, droppedEvents, InFlight,
                       Dead>>
  BY <1>1, <1>2, <1>4, <1>5
<1>6. ASSUME NEW t \in Threads, Emit(t)
      PROVE  AccountInv'
  <2>1. /\ Dead' = Dead /\ InFlight' = InFlight \cup {t} /\ t \notin InFlight
        /\ UNCHANGED <<enqueuePosition, droppedEvents>>
        /\ eventSequence' = (eventSequence + 1) % M
    BY <1>6, InFlightStep DEF Emit, Goto, InFlight
  <2>2. IsFiniteSet(InFlight') /\ c' = c + 1
    BY <1>1, <2>1, FS_AddElement
  <2>3. sum(lost)' = sum(lost) + 1
    BY <1>1, <1>3, <2>1, <2>2
  <2>4. eventSequence' = (sum(lost) + 1) % M
    BY <1>1, <1>2, <1>3, <2>1, RemainderOfSum
  <2> QED
    BY <1>1, <1>4, <2>1, <2>2, <2>3, <2>4
<1>7. ASSUME NEW t \in Threads, CountDrop(t)
      PROVE  AccountInv'
  <2>1. /\ Dead' = Dead /\ InFlight' = InFlight \ {t} /\ t \in InFlight
        /\ UNCHANGED <<enqueuePosition, eventSequence>>
        /\ droppedEvents' = (droppedEvents + 1) % M
    BY <1>7, InFlightStep DEF CountDrop, Goto, InFlight
  <2>2. IsFiniteSet(InFlight') /\ c' = c - 1
    BY <1>1, <2>1, FS_RemoveElement
  <2>3. c' \in Nat
    BY <2>2, FS_CardinalityType
  <2> DEFINE b == enqueuePosition + c' + lost
  <2>4. b \in Nat /\ droppedEvents + 1 \in Nat
    BY <1>1, <1>3, <2>3
  <2>5. sum(lost) = (droppedEvents + 1) + b
    <3>1. c = c' + 1
      BY <1>1, <2>2, <2>3
    <3> QED
      BY <1>1, <1>3, <2>3, <3>1, SMT
  <2>6. sum(lost)' = droppedEvents' + b
    BY <1>1, <1>3, <2>1, <2>3, SMT
  <2> HIDE DEF b, sum
  <2>7. (((droppedEvents + 1) % M) + b) % M = ((droppedEvents + 1) + b) % M
    BY <1>1, <2>4, RemainderOfSum
  <2>8. sum(lost)' % M = sum(lost) % M
    BY <2>1, <2>5, <2>6, <2>7
  <2> QED
    BY <1>1, <1>2, <1>4, <2>1, <2>2, <2>8 DEF sum
<1>8. ASSUME NEW t \in Threads, ClaimSlot(t)
      PROVE  AccountInv'
  <2>1. CASE enqueuePosition = position[t]
    <3>1. /\ Dead' = Dead /\ InFlight' = InFlight \ {t} /\ t \in InFlight
          /\ UNCHANGED <<eventSequence, droppedEvents>>
          /\ enqueuePosition' = enqueuePosition + 1
      BY <1>8, <2>1, InFlightStep DEF ClaimSlot, Goto, InFlight
    <3>2. IsFiniteSet(InFlight') /\ c' = c - 1
      BY <1>1, <3>1, FS_RemoveElement
    <3>3. sum(lost)' = sum(lost)
      BY <1>1, <1>3, <3>1, <3>2
    <3> QED
      BY <1>1, <1>2, <1>4, <3>1, <3>2, <3>3
  <2>2. CASE enqueuePosition # position[t]
    BY <1>5, <1>8, <2>2, InFlightStep DEF ClaimSlot
  <2> QED
    BY <2>1, <2>2
<1>9. ASSUME NEW t \in Threads, ThreadDies(t)
      PROVE  AccountInv'
  <2>1. /\ Dead' = Dead \cup {t} /\ InFlight' = InFlight \ {t} /\ t \notin Dead
        /\ UNCHANGED <<eventSequence, droppedEvents, enqueuePosition>>
    BY <1>9, InFlightStep DEF ThreadDies, Dead, memVars
  <2>2. IsFiniteSet(Dead') /\ Cardinality(Dead') = Cardinality(Dead) + 1
    BY <1>1, <2>1, FS_AddElement
  <2>3. /\ IsFiniteSet(InFlight')
        /\ c' = IF t \in InFlight THEN c - 1 ELSE c
    BY <1>1, <2>1, FS_RemoveElement
  <2>4. CASE t \in InFlight
    <3>1. sum(lost + 1)' = sum(lost)
      BY <1>1, <1>3, <2>1, <2>3, <2>4
    <3>2. lost + 1 \in 0 .. Cardinality(Dead')
      BY <1>1, <1>2, <2>2
    <3> QED
      BY <1>2, <1>4, <2>1, <2>2, <2>3, <3>1, <3>2
  <2>5. CASE t \notin InFlight
    <3>1. sum(lost)' = sum(lost)
      BY <1>1, <1>3, <2>1, <2>3, <2>5
    <3>2. lost \in 0 .. Cardinality(Dead')
      BY <1>1, <1>2, <2>2
    <3> QED
      BY <1>2, <1>4, <2>1, <2>2, <2>3, <3>1, <3>2
  <2> QED
    BY <2>4, <2>5
<1>10. ASSUME NEW t \in Threads, EmitStep(t)
       PROVE  AccountInv'
  BY <1>5, <1>7, <1>8, <1>10, InFlightStep
  DEF EmitStep, LoadPosition, CheckSlot, CopyInFirst, CopyInSecond, CopyIn,
      Publish, RequestWake, SignalWake, WithdrawWake, memVars
<1>11. CASE ReadStep \/ ClearWakePending \/ ConsumeWake \/ UNCHANGED ringVars
  <2>1. UNCHANGED <<eventSequence, enqueuePosition, droppedEvents, pc>>
    BY <1>11 DEF ReadStep, BeginRead, CopyOutFirst, CopyOutSecond, CopyOut,
       ReleaseSlot, AdvanceDequeue, ClearWakePending, ConsumeWake, ringVars,
       memVars, threadVars
  <2> QED
    BY <1>5, <2>1 DEF InFlight, Dead
<1> QED
  BY <1>6, <1>9, <1>10, <1>11 DEF RingNext

\* Every sequence number given out is in the ring, counted as dropped, still
\* being placed or lost with a terminated thread, modulo 2^32, whatever the
\* threads, the reader and the failures do.
THEOREM EventsAccounted == RingSpec => []EveryEventAccounted
<1>1. RingInit => AccountInv
  <2> SUFFICES ASSUME RingInit PROVE AccountInv
    OBVIOUS
  <2>1. InFlight = {} /\ Dead = {}
    BY DEF RingInit, InFlight, Dead
  <2>2. /\ IsFiniteSet(InFlight) /\ Cardinality(InFlight) = 0
        /\ IsFiniteSet(Dead) /\ Cardinality(Dead) = 0
    BY <2>1, FS_EmptySet
  <2>3. 0 % LongModulus = 0
    BY RingAssumption, SMT
  <2>4. eventSequence =
          (enqueuePosition + droppedEvents + Cardinality(InFlight) + 0)
            % LongModulus
    BY <2>2, <2>3 DEF RingInit
  <2>5. 0 \in 0 .. Cardinality(Dead)
    BY <2>2
  <2>6. EveryEventAccounted
    BY <2>4, <2>5 DEF EveryEventAccounted, Dead
  <2> QED
    BY <2>2, <2>6 DEF AccountInv
<1>2. RingInv /\ AccountInv /\ [RingNext]_ringVars => AccountInv'
  BY AccountStep DEF RingInv
<1>3. AccountInv => EveryEventAccounted
  BY DEF AccountInv
<1> QED
  BY <1>1, <1>2, <1>3, RingInvariant, PTL DEF RingSpec

-----------------------------------------------------------------------------
(* The ring implements the abstract channel.                               *)

\* The abstract queue and the abstract set of refused threads.
Place(i) == [payload |-> Whole(claimed[Delivered + i]),
             filled |-> Published(Delivered + i - 1)]
Places == [i \in 1 .. (enqueuePosition - Delivered) |-> Place(i)]
Refused == {t \in Threads : pc[t] = "drop"}

\* The abstract queue is a sequence with one place per undelivered position.
LEMMA PlacesType ==
  ASSUME RingInv
  PROVE  /\ enqueuePosition - Delivered \in Nat
         /\ Places \in Seq({Place(i) : i \in 1 .. (enqueuePosition - Delivered)})
         /\ Len(Places) = enqueuePosition - Delivered
         /\ \A i \in 1 .. (enqueuePosition - Delivered) : Places[i] = Place(i)
<1>1. enqueuePosition - Delivered \in Nat
  BY Sizes DEF RingInv, PositionsInv
<1>2. QED  BY <1>1 DEF Places

\* Steps that leave the slot sequences, the claims and the received events
\* alone and do not enter or leave the drop path are invisible.
LEMMA InvisibleStep ==
  ASSUME UNCHANGED <<enqueuePosition, slotSequence, claimed, received>>,
         Refused' = Refused
  PROVE  UNCHANGED Channel!channelVars
  BY DEF Channel!channelVars, Places, Place, Refused, Delivered, Published

\* The claim of a slot reserves a place.
LEMMA ClaimReserves ==
  ASSUME RingInv, NEW t \in Threads, ClaimSlot(t), enqueuePosition = position[t]
  PROVE  Channel!ChannelNext
<1>1. /\ UNCHANGED <<slotSequence, received>>
      /\ pc[t] = "claim" /\ Refused' = Refused
      /\ enqueuePosition' = enqueuePosition + 1
      /\ claimed' = Append(claimed, event[t])
  BY DEF RingInv, TypeOK, ClaimSlot, Goto, Refused, readVars
<1>2. event[t] \in Events
  BY <1>1 DEF RingInv, CandidatesInv
<1>3. enqueuePosition < Delivered + Capacity
  BY <1>1 DEF RingInv, CandidatesInv
<1>4. slotSequence[SlotOf(enqueuePosition)] = enqueuePosition
  BY <1>3, Sizes, CapacityFacts DEF RingInv, SlotsInv
<1>5. /\ Delivered' = Delivered
      /\ Len(claimed) = enqueuePosition
      /\ claimed'[enqueuePosition + 1] = event[t]
      /\ \A i \in 1 .. enqueuePosition : claimed'[i] = claimed[i]
  BY <1>1, Sizes DEF Delivered, RingInv, PositionsInv
<1> DEFINE place == [payload |-> Whole(event[t]), filled |-> FALSE]
<1>a. PICK n \in Nat, d \in Nat : n = enqueuePosition - Delivered /\ d = Delivered
  BY PlacesType, Sizes DEF RingInv
<1>6. n < Capacity /\ Len(Places) = n /\ enqueuePosition = d + n
  BY <1>a, <1>3, Sizes, CapacityFacts, PlacesType DEF RingInv
<1>7. Places' = [i \in 1 .. (n + 1) |-> Place(i)']
  BY <1>a, <1>1, <1>5, Sizes DEF Places, RingInv
<1>8. Place(n + 1)' = place
  <2>1. d + (n + 1) = enqueuePosition + 1 /\ d + (n + 1) - 1 = d + n
    BY <1>6
  <2>2. ~Published(d + n)'
    BY <1>1, <1>4, <1>6 DEF Published
  <2>3. Place(n + 1)' = [payload |-> Whole(claimed'[d + (n + 1)]),
                         filled |-> Published(d + (n + 1) - 1)']
    BY <1>a, <1>5 DEF Place, Whole
  <2>4. Published(d + (n + 1) - 1)' = FALSE
    BY <2>1, <2>2 DEF Published
  <2>5. claimed'[d + (n + 1)] = event[t]
    BY <1>5, <2>1
  <2>6. QED  BY <2>3, <2>4, <2>5
<1>9. \A i \in 1 .. n : Place(i)' = Place(i)
  <2>1. SUFFICES ASSUME NEW i \in 1 .. n PROVE Place(i)' = Place(i)
    OBVIOUS
  <2>2. Delivered + i \in 1 .. enqueuePosition
    BY <1>a, Sizes DEF RingInv
  <2>3. QED  BY <1>1, <1>5, <2>2 DEF Place, Published
<1>10. Places' = Append(Places, place)
  <2>1. Append(Places, place) =
          [i \in 1 .. (n + 1) |-> IF i <= n THEN Places[i] ELSE place]
    BY <1>a, <1>6, PlacesType
  <2>2. \A i \in 1 .. (n + 1) :
          Place(i)' = (IF i <= n THEN Places[i] ELSE place)
    BY <1>a, <1>6, <1>8, <1>9, PlacesType
  <2>3. QED  BY <1>7, <2>1, <2>2
<1>11. Channel!Reserve(Whole(event[t]))
  BY <1>1, <1>6, <1>10 DEF Channel!Reserve, Places, Place, Refused
<1>12. QED  BY <1>2, <1>11 DEF Channel!ChannelNext

\* Updating one field of a place leaves the other alone.
LEMMA UpdatePlace ==
  ASSUME NEW x, NEW y, NEW z
  PROVE  [[payload |-> x, filled |-> y] EXCEPT !.filled = z]
           = [payload |-> x, filled |-> z]
  OBVIOUS

\* Filling an unfilled place.
LEMMA FillPlace ==
  ASSUME NEW x, NEW r, r = [payload |-> x, filled |-> FALSE]
  PROVE  /\ ~r.filled
         /\ [r EXCEPT !.filled = TRUE] = [payload |-> x, filled |-> TRUE]
<1>1. ~r.filled
  OBVIOUS
<1>2. [r EXCEPT !.filled = TRUE] = [payload |-> x, filled |-> TRUE]
  BY UpdatePlace, Zenon
<1>3. QED  BY <1>1, <1>2

\* The tail of a sequence, element by element.
LEMMA TailElements ==
  ASSUME NEW S, NEW q \in Seq(S), NEW n \in Nat, Len(q) = n, n >= 1
  PROVE  Tail(q) = [i \in 1 .. (n - 1) |-> q[i + 1]]
<1> DEFINE u == Tail(q)
<1>1. q # <<>>
  OBVIOUS
<1>2. /\ u \in Seq(S) /\ Len(u) = n - 1
      /\ \A i \in 1 .. (n - 1) : u[i] = q[i + 1]
  BY <1>1
<1> HIDE DEF u
<1>3. u = [i \in 1 .. (n - 1) |-> u[i]]
  BY <1>2
<1>4. u = [i \in 1 .. (n - 1) |-> q[i + 1]]
  BY <1>2, <1>3, Zenon
<1>5. QED  BY <1>4 DEF u

\* Publishing a slot fills the thread's place.
LEMMA PublishFills ==
  ASSUME RingInv, NEW t \in Threads, Publish(t)
  PROVE  Channel!ChannelNext
<1>1. PICK p \in Nat, d \in Nat : p = position[t] /\ d = Delivered
  BY Sizes DEF RingInv
<1>2. /\ UNCHANGED <<enqueuePosition, claimed, received>>
      /\ Writing(t) /\ Refused' = Refused
      /\ slotSequence' = [slotSequence EXCEPT ![SlotOf(p)] = p + 1]
  BY <1>1 DEF RingInv, TypeOK, Publish, Goto, Refused, readVars, Writing
<1>3. /\ p \in d .. (enqueuePosition - 1)
      /\ slotSequence[SlotOf(p)] = p
      /\ enqueuePosition <= d + Capacity
  BY <1>1, <1>2 DEF RingInv, WritersInv, PositionsInv
<1>4. /\ slotSequence'[SlotOf(p)] = p + 1
      /\ \A q \in d .. (enqueuePosition - 1) :
           q # p => slotSequence'[SlotOf(q)] = slotSequence[SlotOf(q)]
  <2>0. SlotOf(p) \in Slots
    BY DivMod
  <2>1. slotSequence'[SlotOf(p)] = p + 1
    BY <1>2, <2>0, Sizes DEF RingInv
  <2>2. ASSUME NEW q \in d .. (enqueuePosition - 1), q # p
        PROVE  slotSequence'[SlotOf(q)] = slotSequence[SlotOf(q)]
    <3>1. q \in Nat /\ q < p + Capacity /\ p < q + Capacity
      BY <1>1, <1>3, Sizes, CapacityFacts DEF RingInv
    <3>2. SlotOf(q) \in Slots /\ SlotOf(q) # SlotOf(p)
      BY <2>2, <3>1, DivMod, SlotsDistinct
    <3>3. QED  BY <1>2, <3>2, Sizes DEF RingInv
  <2>3. QED  BY <2>1, <2>2
<1>5. PICK n \in Nat, k \in Nat : /\ n = enqueuePosition - d
                                  /\ k = p - d + 1
                                  /\ k \in 1 .. n
  BY <1>1, <1>3, Sizes DEF RingInv
<1>6. Delivered' = d
  BY <1>1, <1>2 DEF Delivered
<1>7. Places[k] = [payload |-> Whole(claimed[p + 1]), filled |-> FALSE]
  <2>1. d + k - 1 = p /\ d + k = p + 1
    BY <1>5
  <2>2. Published(d + k - 1) = FALSE
    BY <1>3, <2>1 DEF Published
  <2>3. Places[k] = [payload |-> Whole(claimed[d + k]),
                     filled |-> Published(d + k - 1)]
    BY <1>1, <1>5, PlacesType DEF Place
  <2>4. QED  BY <2>1, <2>2, <2>3, Zenon
<1>8. \A i \in 1 .. n :
        Place(i)' = (IF i = k THEN [payload |-> Whole(claimed[p + 1]),
                                    filled |-> TRUE]
                              ELSE Places[i])
  <2>1. SUFFICES ASSUME NEW i \in 1 .. n
                 PROVE  Place(i)' =
                          (IF i = k THEN [payload |-> Whole(claimed[p + 1]),
                                          filled |-> TRUE]
                                    ELSE Places[i])
    OBVIOUS
  <2>2. Place(i)' = [payload |-> Whole(claimed[d + i]),
                     filled |-> Published(d + i - 1)']
    BY <1>2, <1>6 DEF Place, Whole
  <2>3. Places[i] = [payload |-> Whole(claimed[d + i]),
                     filled |-> Published(d + i - 1)]
    BY <1>1, <1>5, PlacesType DEF Place
  <2>4. CASE i = k
    <3>1. d + i - 1 = p /\ d + i = p + 1
      BY <1>5, <2>4
    <3>2. Published(d + i - 1)' = TRUE
      BY <1>4, <3>1 DEF Published
    <3>3. QED  BY <2>2, <2>4, <3>1, <3>2
  <2>5. CASE i # k
    <3>1. d + i - 1 \in d .. (enqueuePosition - 1) /\ d + i - 1 # p
      BY <1>1, <1>5, <2>5, Sizes, SMTT(30) DEF RingInv
    <3>2. Published(d + i - 1)' = Published(d + i - 1)
      BY <1>4, <3>1 DEF Published
    <3>3. QED  BY <2>2, <2>3, <2>5, <3>2
  <2>6. QED  BY <2>4, <2>5
<1>9. Places' = [Places EXCEPT ![k].filled = TRUE]
  <2>1. Places' = [i \in 1 .. n |-> Place(i)']
    BY <1>2, <1>5, <1>6 DEF Places
  <2>2. Places = [i \in 1 .. n |-> Places[i]]
    BY <1>1, <1>5 DEF Places
  <2>3. [Places[k] EXCEPT !.filled = TRUE] =
          [payload |-> Whole(claimed[p + 1]), filled |-> TRUE]
    BY <1>7, FillPlace
  <2>4. [Places EXCEPT ![k].filled = TRUE] =
          [i \in 1 .. n |-> IF i = k THEN [Places[k] EXCEPT !.filled = TRUE]
                                     ELSE Places[i]]
    BY <1>5, <2>2
  <2>5. QED  BY <1>8, <2>1, <2>3, <2>4
<1>10. Channel!Fill(k)
  <2>1. ~Places[k].filled
    BY <1>7, FillPlace
  <2>2. QED  BY <1>2, <1>9, <2>1 DEF Channel!Fill, Places, Place, Refused
<1>11. k \in 1 .. Len(Places)
  BY <1>1, <1>5, PlacesType
<1>12. QED  BY <1>10, <1>11 DEF Channel!ChannelNext, Places, Place

\* Releasing a slot takes the oldest place.
LEMMA ReleaseTakes ==
  ASSUME RingInv, ReleaseSlot
  PROVE  Channel!ChannelNext
<1>1. PICK d \in Nat : d = Delivered
  BY Sizes DEF RingInv
<1>2. /\ UNCHANGED <<enqueuePosition, claimed>>
      /\ readPc = "release" /\ Reading /\ Refused' = Refused
      /\ dequeuePosition = d
      /\ received' = Append(received, readEvent)
      /\ slotSequence' = [slotSequence EXCEPT ![SlotOf(d)] = d + Capacity]
  BY <1>1 DEF ReleaseSlot, ReadGoto, threadVars, Reading, Refused, RingInv,
              PositionsInv
<1>3. /\ d < enqueuePosition /\ enqueuePosition <= d + Capacity
      /\ slotSequence[SlotOf(d)] = d + 1
  BY <1>1, <1>2 DEF RingInv, PositionsInv, ReaderInv
<1>4. readEvent = Whole(claimed[d + 1])
  <2>1. readEvent[1] = claimed[d + 1] /\ readEvent[2] = claimed[d + 1]
    BY <1>1, <1>2 DEF RingInv, ReaderInv
  <2>2. readEvent \in SlotContents \X SlotContents
    BY DEF RingInv, TypeOK
  <2>3. QED  BY <2>1, <2>2 DEF Whole
<1>5. Delivered' = d + 1
  BY <1>1, <1>2 DEF Delivered, RingInv, TypeOK
<1>6. PICK n \in Nat : n = enqueuePosition - d /\ n >= 1
  BY <1>1, <1>3, Sizes DEF RingInv
<1>7. Places[1] = [payload |-> Whole(claimed[d + 1]), filled |-> TRUE]
  <2>1. Places[1] = [payload |-> Whole(claimed[d + 1]),
                     filled |-> Published(d + 1 - 1)]
    BY <1>1, <1>6, PlacesType DEF Place
  <2>2. Published(d + 1 - 1) = TRUE
    BY <1>3 DEF Published
  <2>3. QED  BY <2>1, <2>2
<1>8. \A i \in 1 .. (n - 1) : Place(i)' = Places[i + 1]
  <2>1. SUFFICES ASSUME NEW i \in 1 .. (n - 1) PROVE Place(i)' = Places[i + 1]
    OBVIOUS
  <2>2. Place(i)' = [payload |-> Whole(claimed[d + 1 + i]),
                     filled |-> Published(d + 1 + i - 1)']
    BY <1>2, <1>5 DEF Place, Whole
  <2>3. Places[i + 1] = [payload |-> Whole(claimed[d + (i + 1)]),
                         filled |-> Published(d + (i + 1) - 1)]
    <3>1. i + 1 \in 1 .. (enqueuePosition - Delivered)
      BY <1>1, <1>6, Sizes DEF RingInv
    <3>2. Places[i + 1] = Place(i + 1)
      BY <3>1, PlacesType
    <3>3. QED  BY <1>1, <3>2 DEF Place
  <2>4. d + 1 + i = d + (i + 1) /\ d + 1 + i - 1 = d + i
        /\ d + (i + 1) - 1 = d + i
    OBVIOUS
  <2>5. d + i \in Nat /\ d + i # d /\ d + i < d + Capacity
        /\ d < d + i + Capacity
    BY <1>1, <1>3, <1>6, Sizes, CapacityFacts DEF RingInv
  <2>6. SlotOf(d + i) \in Slots /\ SlotOf(d + i) # SlotOf(d)
    BY <2>5, DivMod, SlotsDistinct
  <2>7. slotSequence'[SlotOf(d + i)] = slotSequence[SlotOf(d + i)]
    BY <1>2, <2>6, Sizes DEF RingInv
  <2>8. Published(d + i)' = Published(d + i)
    BY <2>7 DEF Published
  <2>9. QED  BY <2>2, <2>3, <2>4, <2>8
<1>9. Places' = Tail(Places)
  <2>1. Places' = [i \in 1 .. (n - 1) |-> Place(i)']
    <3>1. enqueuePosition' - Delivered' = n - 1
      BY <1>1, <1>2, <1>5, <1>6, Sizes DEF RingInv
    <3>2. QED  BY <3>1 DEF Places
  <2>2. Tail(Places) = [i \in 1 .. (n - 1) |-> Places[i + 1]]
    <3>1. PICK S : Places \in Seq(S) /\ Len(Places) = n
      BY <1>1, <1>6, PlacesType
    <3>2. QED  BY <1>6, <3>1, TailElements
  <2>3. QED  BY <1>8, <2>1, <2>2
<1>10. Places # <<>> /\ Head(Places) = Places[1]
  BY <1>1, <1>6, PlacesType
<1>11. Channel!Take
  <2>1. Head(Places).filled /\ Head(Places).payload = readEvent
    BY <1>4, <1>7, <1>10
  <2>2. QED
    BY <1>2, <1>9, <1>10, <2>1 DEF Channel!Take, Places, Place, Refused
<1>12. QED  BY <1>11 DEF Channel!ChannelNext

\* Every step of the ring is a step of the channel or invisible.
LEMMA ChannelStep ==
  ASSUME RingInv, [RingNext]_ringVars
  PROVE  [Channel!ChannelNext]_(Channel!channelVars)
<1> USE DEF RingInv
<1>1. ASSUME NEW t \in Threads,
             \/ Emit(t) \/ LoadPosition(t) \/ CheckSlot(t) \/ CountDrop(t)
             \/ RequestWake(t) \/ SignalWake(t) \/ WithdrawWake(t)
             \/ ThreadDies(t) \/ CopyInFirst(t) \/ CopyInSecond(t)
             \/ (ClaimSlot(t) /\ enqueuePosition # position[t])
      PROVE  [Channel!ChannelNext]_(Channel!channelVars)
  <2>1. /\ UNCHANGED <<enqueuePosition, slotSequence, claimed, received>>
        /\ \A u \in Threads \ {t} : pc'[u] = pc[u]
    BY <1>1 DEF TypeOK, Goto, memVars, readVars, Emit, LoadPosition, CheckSlot,
         CountDrop, RequestWake, SignalWake, WithdrawWake, ThreadDies,
         CopyInFirst, CopyInSecond, CopyIn, ClaimSlot
  <2>2. Places' = Places
    BY <2>1 DEF Places, Place, Delivered, Published
  <2>3. CASE pc[t] # "drop" /\ pc'[t] # "drop"
    <3>1. Refused' = Refused
      BY <2>1, <2>3 DEF Refused
    <3>2. QED  BY <2>1, <3>1, InvisibleStep
  <2>4. CASE pc[t] = "drop" /\ pc'[t] = "drop"
    <3>1. Refused' = Refused
      BY <2>1, <2>4 DEF Refused
    <3>2. QED  BY <2>1, <3>1, InvisibleStep
  <2>5. CASE pc[t] = "drop" /\ pc'[t] # "drop"
    <3>1. t \in Refused /\ Refused' = Refused \ {t}
      BY <2>1, <2>5 DEF Refused
    <3>2. Channel!GiveUp(t)
      BY <2>1, <2>2, <3>1 DEF Channel!GiveUp, Refused, Places, Place
    <3>3. QED  BY <3>2 DEF Channel!ChannelNext
  <2>6. CASE pc[t] # "drop" /\ pc'[t] = "drop"
    <3>1. pc[t] = "check"
      BY <1>1, <2>6 DEF TypeOK, Goto, Emit, LoadPosition, CheckSlot,
         CountDrop, RequestWake, SignalWake, WithdrawWake, ThreadDies,
         CopyInFirst, CopyInSecond, CopyIn, ClaimSlot
    <3>2. Len(Places) = Capacity
      BY <2>6, <3>1, DropStep, PlacesType, Sizes, CapacityFacts
    <3>3. t \notin Refused /\ Refused' = Refused \cup {t}
      BY <2>1, <2>6 DEF Refused
    <3>4. Channel!Refuse(t)
      BY <2>1, <2>2, <3>2, <3>3 DEF Channel!Refuse, Refused, Places, Place
    <3>5. QED  BY <3>4 DEF Channel!ChannelNext
  <2>7. QED  BY <2>3, <2>4, <2>5, <2>6
<1>2. ASSUME NEW t \in Threads, Emit(t) \/ EmitStep(t) \/ ThreadDies(t)
      PROVE  [Channel!ChannelNext]_(Channel!channelVars)
  BY <1>1, <1>2, ClaimReserves, PublishFills DEF EmitStep
<1>3. CASE BeginRead \/ CopyOutFirst \/ CopyOutSecond \/ AdvanceDequeue
           \/ ClearWakePending \/ ConsumeWake \/ UNCHANGED ringVars
  <2>1. UNCHANGED <<enqueuePosition, slotSequence, claimed, received, pc>>
    BY <1>3 DEF BeginRead, CopyOutFirst, CopyOutSecond, CopyOut,
         AdvanceDequeue, ClearWakePending, ConsumeWake, ringVars, memVars,
         threadVars, readVars
  <2>2. QED  BY <2>1, InvisibleStep DEF Refused
<1>4. QED
  BY <1>2, <1>3, ReleaseTakes DEF RingNext, ReadStep

\* EmitTraceEvent and TryReadRing together implement the bounded queue of
\* TraceChannel, for any capacity of at least two.
THEOREM RingImplementsChannel == RingSpec => ImplementsChannel
<1>1. RingInit => Channel!ChannelInit
  <2> SUFFICES ASSUME RingInit PROVE Channel!ChannelInit
    OBVIOUS
  <2>1. RingInv
    BY InitInv
  <2>2. enqueuePosition = 0 /\ Delivered = 0 /\ received = <<>>
    BY DEF RingInit, Delivered
  <2>3. Places = <<>> /\ Refused = {}
    BY <2>1, <2>2, PlacesType DEF RingInit, Refused
  <2>4. QED  BY <2>2, <2>3 DEF Channel!ChannelInit, Places, Place, Refused
<1>2. QED
  BY <1>1, ChannelStep, RingInvariant, PTL
     DEF RingSpec, ImplementsChannel, Channel!ChannelSpec
=============================================================================
