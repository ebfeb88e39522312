------------------------- MODULE TraceSessionProofs -------------------------
(***************************************************************************)
(* Proofs about the controller's trace pipeline, for any set of hook       *)
(* threads, any capacities and bounds, every way to end the session and,   *)
(* unless a theorem says otherwise, every fault.                           *)
(***************************************************************************)
EXTENDS TraceSession, NumberLemmas, FiniteSetTheorems, SequenceTheorems, TLAPS

-----------------------------------------------------------------------------
(* The inductive invariant, in parts.                                      *)

\* The main thread: what has happened before each point of Start and Stop.
MainInv ==
  /\ mainPc = "start" =>
       /\ stops = 0 /\ ~ringMapped /\ target = "unhooked"
       /\ readerPc = "done" /\ writerPc = "done" /\ footerPc = "done"
       /\ summary = <<>> /\ ~readerFinished
  /\ mainPc = "tracing" =>
       /\ stops = 0 /\ started /\ ringMapped /\ target = "running"
       /\ summary = <<>>
  /\ target \in EndingKinds /\ summary = <<>> =>
       started /\ ringMapped /\ mainPc \notin {"release", "stopped"}
  /\ mainPc = "start" \/ mainPc = "tracing" => ~stopEvent
  /\ stopping => stopEvent
  /\ target = "quiesced" => \A t \in Producers : pc[t] = "idle"

\* What the threads hold, and which of them have been joined.
ThreadsInv ==
  /\ readerEvent # <<>> <=> readerPc \in {"queue", "waitNotFull"}
  /\ writerEvent # <<>> <=> writerPc \in {"notify", "render"}
  /\ readerFinished => readerPc \in {"notifyAll", "done"}
  /\ writerPc = "done" => eventQueue = <<>> /\ readerPc \in {"notifyAll", "done"}
  /\ mainPc \in {"joinWriter", "joinFooter", "summary", "release", "stopped"} =>
       readerPc = "done"
  /\ mainPc \in {"joinFooter", "summary", "release", "stopped"} => writerPc = "done"
  /\ mainPc \in {"summary", "release", "stopped"} => footerPc = "done"
  /\ ~ringMapped \/ summary # <<>> =>
       readerPc = "done" /\ writerPc = "done" /\ footerPc = "done"

\* A hook thread that is inside EmitTraceEvent has a sequence number.
EmitsInv == \A t \in Producers : pc[t] # "idle" => emits[t] # 0

\* The events in the ring: each once, the latest of its thread only after its
\* reservation, and an unpublished one still in the hands of its thread.
QueueInv ==
  /\ \A i \in 1 .. Len(queue) :
       LET e == queue[i].payload IN
       /\ e[2] <= emits[e[1]]
       /\ e[2] = emits[e[1]] => pc[e[1]] # "reserve"
       /\ ~queue[i].filled => e[2] = emits[e[1]] /\ pc[e[1]] \in {"publish", "dead"}
  /\ \A i, j \in 1 .. Len(queue) : queue[i].payload = queue[j].payload => i = j

\* The last rounds of ReaderLoop after a clean removal of the hooks.
DoneInv ==
  /\ stopping => readerPc # "wait"
  /\ target = "quiesced" /\ stopping =>
       /\ readerPc \in {"finish", "notifyAll", "done"} => queue = <<>>
       /\ readerPc \in {"clear", "race", "finish", "notifyAll", "done"} =>
            reportedDropped >= droppedEvents
  /\ target = "quiesced" /\ summary # <<>> =>
       summary[1] = [events |-> Len(rendered), dropped |-> droppedEvents]

\* The threads that have a sequence number and no place in the ring yet.
Pending == {t \in Producers : pc[t] \in {"reserve", "drop"}}
NoneDead == \A t \in Producers : pc[t] # "dead"

\* While no thread has died, every sequence number given out is delivered,
\* in the ring, counted as dropped, or about to be one of these.
CountInv ==
  /\ IsFiniteSet(Pending)
  /\ NoneDead =>
       eventSequence = (Len(delivered) + Len(queue) + droppedEvents
                          + Cardinality(Pending)) % LongModulus

\* The events begun; below the wrap of the 32-bit counters they bound the
\* drops, and what ReaderLoop reported never exceeds them.
Begun == {e \in EventsSent : e[2] <= emits[e[1]]}
DropsInv ==
  /\ droppedEvents + Cardinality(Pending) <= Cardinality(Begun)
  /\ reportedDropped <= droppedEvents

\* While SetEvent succeeds and no thread dies: a raised wakePending means that
\* the wake event is set or about to be, and a readable event found by nobody
\* means that its thread is about to raise it.
WakeInv ==
  /\ \A t \in Producers : pc[t] \notin {"withdraw", "dead"}
  /\ wakePending = 1 /\ readerPc \in {"race", "wait"} =>
       wakeEvent \/ \E t \in Producers : pc[t] = "signal"
  /\ readerPc = "wait" /\ HeadReady =>
       wakePending = 1 \/ \E t \in Producers : pc[t] = "wake"

SessionInv ==
  /\ SessionTypeOK /\ EmitsInv /\ MainInv /\ ThreadsInv
  /\ PipelineOrder /\ QueueInv /\ DoneInv /\ CountInv

-----------------------------------------------------------------------------
(* Lemmas on the operators of the model.                                   *)

\* A held event, and an empty hand, are sequences of at most one.
LEMMA HeldIsSeq ==
  ASSUME NEW S, NEW s \in AtMostOne(S)
  PROVE  s \in Seq(S) /\ Len(s) <= 1
<1>1. CASE s = <<>>
  BY <1>1
<1>2. ASSUME NEW e \in S, s = <<e>>
      PROVE  s \in Seq(S) /\ Len(s) <= 1
  BY <1>2
<1> QED
  BY <1>1, <1>2 DEF AtMostOne

\* The places of the ring.
Place == [payload : EventsSent, filled : BOOLEAN]

\* Publishing an event keeps the places, their number and their payloads.
LEMMA FillPlace ==
  ASSUME NEW q \in Seq(Place), NEW i \in 1 .. Len(q)
  PROVE  LET r == [q EXCEPT ![i].filled = TRUE] IN
         /\ r \in Seq(Place) /\ Len(r) = Len(q)
         /\ \A j \in 1 .. Len(q) : /\ r[j].payload = q[j].payload
                                   /\ j # i => r[j] = q[j]
                                   /\ j = i => r[j].filled
<1> DEFINE p == [q[i] EXCEPT !.filled = TRUE]
           r == [q EXCEPT ![i] = p]
<1>0. q[i] \in Place
  BY ElementOfSeq
<1>1. p \in Place
  BY <1>0 DEF Place
<1>2. r \in Seq(Place) /\ Len(r) = Len(q)
  BY <1>1, ExceptSeq
<1>3. p.filled /\ p.payload = q[i].payload
  BY <1>0 DEF Place
<1>4. \A j \in 1 .. Len(q) : r[j] = IF j = i THEN p ELSE q[j]
  BY <1>1, ExceptSeq
<1> QED
  BY <1>2, <1>3, <1>4

\* The counters stay 32-bit numbers.
LEMMA CountedType ==
  ASSUME NEW n \in Longs
  PROVE  Counted(n) \in Longs
  BY SessionAssumption, SMT DEF Counted, Longs

\* An event a thread sends is one of the events sent.
LEMMA EventOfType ==
  ASSUME SessionTypeOK, EmitsInv, NEW t \in Producers, pc[t] # "idle"
  PROVE  EventOf(t) \in EventsSent
<1>1. emits[t] \in 1 .. MaxEmits
  BY SessionAssumption DEF SessionTypeOK, EmitsInv
<1> QED
  BY <1>1 DEF EventOf, EventsSent

-----------------------------------------------------------------------------
(* Type correctness.                                                       *)

\* The initial state has the right types.
LEMMA InitType == SessionInit => SessionTypeOK
<1> SUFFICES ASSUME SessionInit PROVE SessionTypeOK
  OBVIOUS
<1> USE SessionAssumption DEF SessionInit, ChannelInit
<1>1. 0 \in Longs
  BY DEF Longs
<1>2. <<>> \in AtMostOne(EventsSent)
  BY DEF AtMostOne
<1>3. \A S : <<>> \in Seq(S)
  OBVIOUS
<1>4. Len(summary) <= 1
  OBVIOUS
<1>5. /\ wakeEvent \in BOOLEAN /\ stopEvent \in BOOLEAN /\ stopping \in BOOLEAN
      /\ readerFinished \in BOOLEAN /\ footerBuilt \in BOOLEAN
      /\ started \in BOOLEAN /\ ringMapped \in BOOLEAN
  OBVIOUS
<1> QED
  BY <1>1, <1>2, <1>3, <1>4, <1>5 DEF SessionTypeOK

\* The steps of a hook thread keep the types.
LEMMA TypeHook ==
  ASSUME SessionTypeOK, EmitsInv, NEW t \in Producers,
         EmitStart(t) \/ EmitContinue(t) \/ ThreadDies(t)
  PROVE  SessionTypeOK'
<1> USE SessionAssumption DEF SessionTypeOK, HookFrame, mainVars, queueVars,
        writerVars, footerVars, channelVars, wakeVars, Goto
<1>1. CASE EmitStart(t)
  BY <1>1, CountedType DEF EmitStart, Emit
<1>2. CASE EmitContinue(t)
  <2>1. CASE ReserveSlot(t)
    <3>1. EventOf(t) \in EventsSent
      BY <2>1, EventOfType DEF ReserveSlot
    <3> QED
      BY <2>1, <1>2, <3>1 DEF EmitContinue, ReserveSlot, Reserve
  <2>2. CASE RefuseSlot(t)
    BY <2>2, <1>2 DEF EmitContinue, RefuseSlot, Refuse
  <2>3. CASE CountDrop(t)
    BY <2>3, <1>2, CountedType DEF EmitContinue, CountDrop, GiveUp
  <2>4. CASE Publish(t)
    <3> PICK i \in 1 .. Len(queue) : Fill(i)
      BY <2>4 DEF Publish
    <3>1. queue' \in Seq([payload : EventsSent, filled : BOOLEAN])
      BY FillPlace DEF Fill, Place
    <3> QED
      BY <2>4, <1>2, <3>1, SMTT(30) DEF EmitContinue, Publish, Fill
  <2>5. CASE RequestWake(t)
    <3>1. pc' = [pc EXCEPT ![t] = "signal"] \/ pc' = [pc EXCEPT ![t] = "idle"]
      BY <2>5 DEF RequestWake
    <3> QED
      BY <2>5, <1>2, <3>1, SMTT(60) DEF EmitContinue, RequestWake
  <2>6. CASE SignalWake(t)
    <3>1. pc' = [pc EXCEPT ![t] = "idle"] \/ pc' = [pc EXCEPT ![t] = "withdraw"]
      BY <2>6 DEF SignalWake
    <3>2. wakeEvent' \in BOOLEAN
      BY <2>6 DEF SignalWake
    <3> QED
      BY <2>6, <1>2, <3>1, <3>2 DEF EmitContinue, SignalWake
  <2>7. CASE WithdrawWake(t)
    BY <2>7, <1>2 DEF EmitContinue, WithdrawWake
  <2> QED
    BY <1>2, <2>1, <2>2, <2>3, <2>4, <2>5, <2>6, <2>7 DEF EmitContinue, EmitStep
<1>3. CASE ThreadDies(t)
  BY <1>3 DEF ThreadDies
<1> QED
  BY <1>1, <1>2, <1>3

\* The steps of ReaderLoop keep the types.
LEMMA TypeReader ==
  ASSUME SessionTypeOK, ReaderStep
  PROVE  SessionTypeOK'
<1> USE SessionAssumption DEF SessionTypeOK, ReaderFrame, mainVars, queueVars,
        writerVars, footerVars, channelVars, wakeVars, ReaderGoto, WokenWriter
<1>0. ASSUME Take
      PROVE  /\ queue' \in Seq([payload : EventsSent, filled : BOOLEAN])
             /\ delivered' \in Seq(EventsSent)
             /\ refused' = refused
             /\ <<Head(queue).payload>> \in AtMostOne(EventsSent)
  <2>1. Head(queue) \in [payload : EventsSent, filled : BOOLEAN]
    BY <1>0, HeadTailProperties DEF Take
  <2>2. Tail(queue) \in Seq([payload : EventsSent, filled : BOOLEAN])
    BY <1>0, HeadTailProperties DEF Take
  <2>3. Append(delivered, Head(queue).payload) \in Seq(EventsSent)
    BY <2>1, AppendProperties
  <2> QED
    BY <1>0, <2>1, <2>2, <2>3 DEF Take, AtMostOne
<1>1. CASE ReadEvent
  BY <1>0, <1>1 DEF ReadEvent
<1>2. CASE EndBatch
  BY <1>2 DEF EndBatch
<1>3. CASE ReportDroppedEvents
  BY <1>3 DEF ReportDroppedEvents
<1>4. CASE ClearWakePending
  BY <1>4 DEF ClearWakePending
<1>5. CASE ReadRacedEvent
  BY <1>0, <1>5 DEF ReadRacedEvent
<1>6. CASE FindRingEmpty
  BY <1>6 DEF FindRingEmpty
<1>7. CASE WakeReader
  <2>1. /\ readerPc' \in {"read", "finish"}
        /\ wakeEvent' \in BOOLEAN /\ stopping' \in BOOLEAN
    BY <1>7 DEF WakeReader
  <2> QED
    BY <1>7, <2>1 DEF WakeReader
<1>8. CASE QueueEvent
  <2>1. eventQueue \o readerEvent \in Seq(EventsSent)
    BY HeldIsSeq, ConcatProperties
  <2>2. <<>> \in AtMostOne(EventsSent)
    BY DEF AtMostOne
  <2>3. QED
    <3>1. /\ readerPc' \in {"notify", "waitNotFull"}
          /\ eventQueue' \in Seq(EventsSent)
          /\ readerEvent' \in AtMostOne(EventsSent)
      BY <1>8, <2>1, <2>2 DEF QueueEvent
    <3> QED
      BY <1>8, <3>1 DEF QueueEvent
<1>9. CASE NotifyNotEmpty
  BY <1>9 DEF NotifyNotEmpty
<1>10. CASE FinishReading
  BY <1>10 DEF FinishReading
<1>11. CASE NotifyFinished
  BY <1>11 DEF NotifyFinished
<1> QED
  BY <1>1, <1>2, <1>3, <1>4, <1>5, <1>6, <1>7, <1>8, <1>9, <1>10, <1>11
  DEF ReaderStep

\* The steps of WriterLoop, FooterLoop and the condition variables keep the
\* types.
LEMMA TypeWriter ==
  ASSUME SessionTypeOK, WriterStep \/ SpuriousWakeup \/ FooterStep
  PROVE  SessionTypeOK'
<1> USE SessionAssumption DEF SessionTypeOK, WriterFrame, hookVars, mainVars,
        queueVars, writerVars, footerVars, wakeVars, readerVars, WriterGoto,
        ReaderGoto, FooterGoto
<1>0. <<>> \in AtMostOne(EventsSent)
  BY DEF AtMostOne
<1>1. CASE TakeEvent
  <2>1. eventQueue # <<>> => /\ <<Head(eventQueue)>> \in AtMostOne(EventsSent)
                             /\ Tail(eventQueue) \in Seq(EventsSent)
    BY DEF AtMostOne
  <2> QED
    <3>1. /\ writerPc' \in {"notify", "waitNotEmpty", "done"}
          /\ eventQueue' \in Seq(EventsSent)
          /\ writerEvent' \in AtMostOne(EventsSent)
      BY <1>1, <2>1 DEF TakeEvent
    <3> QED
      BY <1>1, <3>1 DEF TakeEvent
<1>2. CASE NotifyNotFull
  BY <1>2 DEF NotifyNotFull
<1>3. CASE RenderEvent
  <2>1. rendered \o writerEvent \in Seq(EventsSent)
    BY HeldIsSeq, ConcatProperties
  <2> QED
    BY <1>0, <1>3, <2>1 DEF RenderEvent
<1>4. CASE SpuriousWakeup
  BY <1>4 DEF SpuriousWakeup
<1>5. CASE FooterStep
  <2>1. /\ footerPc' \in {"wait", "draw", "done"}
        /\ footerBuilt' \in BOOLEAN /\ statsDropped' \in Longs
    BY <1>5 DEF FooterStep
  <2> QED
    BY <1>5, <2>1 DEF FooterStep
<1> QED
  BY <1>1, <1>2, <1>3, <1>4, <1>5 DEF WriterStep

MainStep == Start \/ FailStart \/ BeginStop \/ StopAgain \/ StopStep

\* The steps of the controlling thread keep the types.
LEMMA TypeMain ==
  ASSUME SessionTypeOK, MainInv, MainStep
  PROVE  SessionTypeOK'
<1> USE SessionAssumption DEF SessionTypeOK, MainFrame, channelVars, wakeVars,
        queueVars, MainGoto
<1>1. CASE Start
  BY <1>1 DEF Start
<1>2. CASE FailStart
  BY <1>2 DEF FailStart, MainInv
<1>3. CASE BeginStop
  BY <1>3 DEF BeginStop, MainInv
<1>4. CASE StopAgain
  BY <1>4 DEF StopAgain
<1>5. CASE SignalStop
  BY <1>5 DEF SignalStop
<1>6. CASE Join
  BY <1>6 DEF Join
<1>7. CASE PrintSummary
  <2>1. statsDropped' \in Longs
    BY <1>7 DEF PrintSummary
  <2>2. summary' \in Seq([events : Nat, dropped : Longs]) /\ Len(summary') <= 1
    <3>1. Len(rendered) \in Nat
      OBVIOUS
    <3>2. CASE summary' = summary
      BY <3>2
    <3>3. CASE summary' = <<[events |-> Len(rendered), dropped |-> statsDropped']>>
      BY <2>1, <3>1, <3>3
    <3> QED
      BY <1>7, <3>2, <3>3 DEF PrintSummary
  <2> QED
    BY <1>7, <2>1, <2>2 DEF PrintSummary
<1>8. CASE ReleaseLocalRing
  <2>1. ringMapped' \in BOOLEAN
    BY <1>8 DEF ReleaseLocalRing
  <2> QED
    BY <1>8, <2>1 DEF ReleaseLocalRing
<1> QED
  BY <1>1, <1>2, <1>3, <1>4, <1>5, <1>6, <1>7, <1>8 DEF MainStep, StopStep

-----------------------------------------------------------------------------
(* The frames: what the steps of one thread leave alone for the others.    *)

HookStep == \E t \in Producers : EmitStart(t) \/ EmitContinue(t) \/ ThreadDies(t)
LoopStep == ReaderStep \/ WriterStep \/ SpuriousWakeup \/ FooterStep

\* A step of the session is one of a hook thread, of a loop or of the
\* controlling thread.
LEMMA NextCases ==
  [SessionNext]_sessionVars =>
    HookStep \/ LoopStep \/ MainStep \/ UNCHANGED sessionVars
  BY DEF SessionNext, HookStep, LoopStep, MainStep

\* Hook threads touch only the ring and the wakeup, and only while the target
\* runs.
LEMMA HookOnly ==
  ASSUME HookStep
  PROVE  /\ TargetRuns
         /\ UNCHANGED <<delivered, target, readerPc, eventsRead, stopping,
                        readerEvent, reportedDropped, eventQueue,
                        readerFinished, writerPc, writerEvent, rendered,
                        footerPc, footerBuilt, statsDropped, stopEvent, mainPc,
                        started, ringMapped, summary, stops>>
<1> PICK t \in Producers : EmitStart(t) \/ EmitContinue(t) \/ ThreadDies(t)
  BY DEF HookStep
<1>1. TargetRuns /\ HookFrame
  BY DEF EmitStart, EmitContinue, ThreadDies
<1>2. UNCHANGED delivered
  BY DEF EmitStart, Emit, EmitContinue, EmitStep, ThreadDies, ReserveSlot,
     RefuseSlot, CountDrop, Publish, RequestWake, SignalWake, WithdrawWake,
     Reserve, Refuse, GiveUp, Fill, channelVars
<1> QED
  BY <1>1, <1>2 DEF HookFrame, queueVars, writerVars, footerVars, mainVars

\* The loops touch neither the hook threads' state nor the controlling
\* thread's.
LEMMA LoopFrame ==
  ASSUME LoopStep
  PROVE  UNCHANGED <<refused, target, pc, emits, eventSequence, droppedEvents,
                     stopEvent, mainPc, started, ringMapped, summary, stops>>
<1> USE DEF mainVars, hookVars, channelVars
<1>1. CASE ReaderStep
  BY <1>1 DEF ReaderStep, ReadEvent, EndBatch, ReportDroppedEvents,
     ClearWakePending, ReadRacedEvent, FindRingEmpty, WakeReader, QueueEvent,
     NotifyNotEmpty, FinishReading, NotifyFinished, ReaderFrame, Take
<1>2. CASE WriterStep \/ SpuriousWakeup
  BY <1>2 DEF WriterStep, TakeEvent, NotifyNotFull, RenderEvent,
     SpuriousWakeup, WriterFrame
<1>3. CASE FooterStep
  BY <1>3 DEF FooterStep
<1> QED
  BY <1>1, <1>2, <1>3 DEF LoopStep

\* The controlling thread touches neither the ring nor what the loops hold.
LEMMA MainOnly ==
  ASSUME MainStep
  PROVE  UNCHANGED <<queue, refused, delivered, pc, emits, eventSequence,
                     droppedEvents, wakePending, wakeEvent, eventsRead,
                     stopping, readerEvent, reportedDropped, eventQueue,
                     readerFinished, writerEvent, rendered, footerBuilt>>
  BY DEF MainStep, StopStep, Start, FailStart, BeginStop, StopAgain, SignalStop,
     Join, PrintSummary, ReleaseLocalRing, MainFrame, channelVars, wakeVars,
     queueVars

-----------------------------------------------------------------------------
(* The parts of the invariant that say where each thread is.               *)

\* A thread inside EmitTraceEvent keeps its sequence number.
LEMMA EmitsStep ==
  ASSUME SessionTypeOK, EmitsInv, [SessionNext]_sessionVars
  PROVE  EmitsInv'
<1>1. CASE UNCHANGED <<pc, emits>>
  BY <1>1 DEF EmitsInv
<1>2. ASSUME NEW t \in Producers,
             EmitStart(t) \/ EmitContinue(t) \/ ThreadDies(t)
      PROVE  EmitsInv'
  <2>1. CASE EmitStart(t)
    BY <2>1, SessionAssumption DEF EmitStart, Emit, Goto, SessionTypeOK, EmitsInv
  <2>2. CASE EmitContinue(t) \/ ThreadDies(t)
    <3>1. UNCHANGED emits /\ pc[t] # "idle"
      BY <2>2 DEF EmitContinue, EmitStep, ThreadDies, ReserveSlot, RefuseSlot,
         CountDrop, Publish, RequestWake, SignalWake, WithdrawWake, Goto
    <3>2. \A u \in Producers : u # t => pc'[u] = pc[u]
      BY <2>2 DEF EmitContinue, EmitStep, ThreadDies, ReserveSlot, RefuseSlot,
         CountDrop, Publish, RequestWake, SignalWake, WithdrawWake, Goto,
         SessionTypeOK
    <3> QED
      BY <3>1, <3>2 DEF EmitsInv
  <2> QED
    BY <1>2, <2>1, <2>2
<1> QED
  BY <1>1, <1>2, NextCases, LoopFrame, MainOnly DEF HookStep, sessionVars, hookVars

\* Start and Stop go through their points in order.
LEMMA MainInvStep ==
  ASSUME SessionTypeOK, MainInv, ThreadsInv, [SessionNext]_sessionVars
  PROVE  MainInv'
<1> USE DEF SessionTypeOK, MainInv, EndingKinds
<1>1. CASE HookStep
  BY <1>1, HookOnly DEF TargetRuns
<1>2. CASE LoopStep
  <2>1. UNCHANGED <<target, pc, stopEvent, mainPc, started, ringMapped, summary,
                    stops>>
    BY <1>2, LoopFrame
  <2>2. CASE ReaderStep
    <3>1. stopping' => stopping \/ stopEvent
      BY <2>2 DEF ReaderStep, ReadEvent, EndBatch, ReportDroppedEvents,
         ClearWakePending, ReadRacedEvent, FindRingEmpty, WakeReader,
         QueueEvent, NotifyNotEmpty, FinishReading, NotifyFinished
    <3>2. mainPc # "start"
      BY <2>2 DEF ReaderStep, ReadEvent, EndBatch, ReportDroppedEvents,
         ClearWakePending, ReadRacedEvent, FindRingEmpty, WakeReader,
         QueueEvent, NotifyNotEmpty, FinishReading, NotifyFinished, ReaderGoto
    <3> QED
      BY <2>1, <3>1, <3>2
  <2>3. CASE WriterStep \/ SpuriousWakeup \/ FooterStep
    <3>1. UNCHANGED stopping
      BY <2>3 DEF WriterStep, TakeEvent, NotifyNotFull, RenderEvent,
         SpuriousWakeup, FooterStep, WriterFrame, readerVars
    <3>2. mainPc # "start"
      BY <2>3 DEF WriterStep, TakeEvent, NotifyNotFull, RenderEvent,
         SpuriousWakeup, FooterStep, ReaderGoto, WriterGoto, FooterGoto
    <3> QED
      BY <2>1, <3>1, <3>2
  <2> QED
    BY <1>2, <2>2, <2>3 DEF LoopStep
<1>3. CASE MainStep
  <2>1. UNCHANGED <<pc, stopping, readerFinished>>
    BY <1>3, MainOnly
  <2>2. CASE Start
    BY <2>1, <2>2 DEF Start, MainGoto
  <2>3. CASE FailStart
    BY <2>1, <2>3 DEF FailStart, MainGoto
  <2>4. CASE BeginStop
    BY <2>1, <2>4 DEF BeginStop, MainGoto
  <2>5. CASE StopAgain
    BY <2>1, <2>5 DEF StopAgain, MainGoto
  <2>6. CASE SignalStop
    BY <2>1, <2>6 DEF SignalStop, MainGoto
  <2>7. CASE Join
    BY <2>1, <2>7 DEF Join, MainGoto
  <2>8. CASE PrintSummary
    <3>1. mainPc' = "release" /\ UNCHANGED <<target, stopEvent>>
      BY <2>8 DEF PrintSummary, MainGoto
    <3>2. ASSUME target \in EndingKinds
          PROVE  summary' # <<>>
      <4>1. CASE summary # <<>>
        BY <2>8, <4>1 DEF PrintSummary
      <4>2. CASE summary = <<>>
        <5>1. started
          BY <3>2, <4>2
        <5>2. summary' = <<[events |-> Len(rendered), dropped |-> statsDropped']>>
          BY <2>8, <4>2, <5>1 DEF PrintSummary
        <5> QED
          BY <5>2
      <4> QED
        BY <4>1, <4>2
    <3> QED
      BY <2>1, <3>1, <3>2
  <2>9. CASE ReleaseLocalRing
    BY <2>1, <2>9 DEF ReleaseLocalRing, MainGoto
  <2> QED
    BY <1>3, <2>2, <2>3, <2>4, <2>5, <2>6, <2>7, <2>8, <2>9 DEF MainStep, StopStep
<1>4. CASE UNCHANGED sessionVars
  BY <1>4 DEF sessionVars, hookVars, mainVars, readerVars, writerVars,
     footerVars, queueVars
<1> QED
  BY <1>1, <1>2, <1>3, <1>4, NextCases

\* The loops hold what their points say, and a joined thread stays done.
LEMMA ThreadsStep ==
  ASSUME SessionTypeOK, MainInv, ThreadsInv, [SessionNext]_sessionVars
  PROVE  ThreadsInv'
<1> USE DEF ThreadsInv
<1>1. CASE HookStep
  BY <1>1, HookOnly
<1>2. CASE LoopStep
  <2>1. UNCHANGED <<mainPc, ringMapped, summary>>
    BY <1>2, LoopFrame
  <2> USE DEF ReaderGoto, WriterGoto, FooterGoto, queueVars, writerVars,
          footerVars, readerVars, WokenWriter
  <2>2. CASE ReadEvent \/ ReadRacedEvent
    BY <2>1, <2>2 DEF ReadEvent, ReadRacedEvent, ReaderFrame
  <2>3. CASE EndBatch
    BY <2>1, <2>3 DEF EndBatch, ReaderFrame
  <2>4. CASE ReportDroppedEvents
    BY <2>1, <2>4 DEF ReportDroppedEvents, ReaderFrame
  <2>5. CASE ClearWakePending
    BY <2>1, <2>5 DEF ClearWakePending, ReaderFrame
  <2>6. CASE FindRingEmpty
    BY <2>1, <2>6 DEF FindRingEmpty, ReaderFrame
  <2>7. CASE WakeReader
    BY <2>1, <2>7 DEF WakeReader, ReaderFrame
  <2>8. CASE QueueEvent
    BY <2>1, <2>8 DEF QueueEvent, ReaderFrame
  <2>9. CASE NotifyNotEmpty
    BY <2>1, <2>9 DEF NotifyNotEmpty, ReaderFrame
  <2>10. CASE FinishReading
    BY <2>1, <2>10 DEF FinishReading, ReaderFrame
  <2>11. CASE NotifyFinished
    BY <2>1, <2>11 DEF NotifyFinished, ReaderFrame
  <2>12. CASE TakeEvent
    BY <2>1, <2>12 DEF TakeEvent, WriterFrame
  <2>13. CASE NotifyNotFull
    BY <2>1, <2>13 DEF NotifyNotFull, WriterFrame
  <2>14. CASE RenderEvent
    BY <2>1, <2>14 DEF RenderEvent, WriterFrame
  <2>15. CASE SpuriousWakeup
    BY <2>1, <2>15 DEF SpuriousWakeup, WriterFrame
  <2>16. CASE FooterStep
    BY <2>1, <2>16 DEF FooterStep
  <2> QED
    BY <1>2, <2>2, <2>3, <2>4, <2>5, <2>6, <2>7, <2>8, <2>9, <2>10, <2>11,
       <2>12, <2>13, <2>14, <2>15, <2>16 DEF LoopStep, ReaderStep, WriterStep
<1>3. CASE MainStep
  <2>1. UNCHANGED <<readerEvent, writerEvent, readerFinished, eventQueue>>
    BY <1>3, MainOnly
  <2>2. CASE Start
    BY <2>1, <2>2 DEF Start, MainGoto, MainInv
  <2>3. CASE FailStart \/ BeginStop \/ StopAgain \/ SignalStop \/ Join
    BY <2>1, <2>3 DEF FailStart, BeginStop, StopAgain, SignalStop, Join, MainGoto
  <2>4. CASE PrintSummary \/ ReleaseLocalRing
    BY <2>1, <2>4 DEF PrintSummary, ReleaseLocalRing, MainGoto
  <2> QED
    BY <1>3, <2>2, <2>3, <2>4 DEF MainStep, StopStep
<1>4. CASE UNCHANGED sessionVars
  BY <1>4 DEF sessionVars, hookVars, mainVars, readerVars, writerVars,
     footerVars, queueVars
<1> QED
  BY <1>1, <1>2, <1>3, <1>4, NextCases

-----------------------------------------------------------------------------
(* The pipeline.                                                           *)

\* Nothing is lost, repeated or overtaken between the ring and the output.
LEMMA PipelineStep ==
  ASSUME SessionTypeOK, ThreadsInv, PipelineOrder, [SessionNext]_sessionVars
  PROVE  PipelineOrder'
<1> DEFINE E == EventsSent
<1>t. /\ rendered \in Seq(E) /\ writerEvent \in Seq(E)
      /\ eventQueue \in Seq(E) /\ readerEvent \in Seq(E)
      /\ delivered \in Seq(E)
  BY HeldIsSeq DEF SessionTypeOK
<1>0. /\ rendered \in Seq(E) /\ writerEvent \in Seq(E)
      /\ eventQueue \in Seq(E) /\ readerEvent \in Seq(E)
      /\ delivered \in Seq(E)
      /\ rendered \o writerEvent \o eventQueue \o readerEvent = delivered
      /\ Len(eventQueue) <= QueueCapacity
  BY <1>t DEF PipelineOrder
<1> USE SessionAssumption DEF PipelineOrder
<1> HIDE DEF E
<1>1. CASE UNCHANGED <<rendered, writerEvent, eventQueue, readerEvent, delivered>>
  BY <1>0, <1>1
<1>2. CASE ReadEvent \/ ReadRacedEvent
  <2>1. readerEvent = <<>>
    BY <1>2 DEF ReadEvent, ReadRacedEvent, ReaderGoto, ThreadsInv
  <2>2. /\ readerEvent' = <<Head(queue).payload>>
        /\ delivered' = Append(delivered, Head(queue).payload)
        /\ UNCHANGED <<rendered, writerEvent, eventQueue>>
    BY <1>2 DEF ReadEvent, ReadRacedEvent, Take, queueVars, writerVars
  <2>3. Head(queue).payload \in E
    <3>1. queue \in Seq(Place) /\ queue # <<>>
      BY <1>2 DEF ReadEvent, ReadRacedEvent, Take, SessionTypeOK, Place
    <3>2. Head(queue) \in Place
      BY <3>1, HeadTailProperties
    <3> QED
      BY <3>2 DEF Place, E
  <2>4. /\ rendered \o writerEvent \o eventQueue \in Seq(E)
        /\ delivered = rendered \o writerEvent \o eventQueue
    BY <1>0, <2>1, ConcatProperties, ConcatEmptySeq
  <2> QED
    BY <1>0, <2>2, <2>3, <2>4, AppendIsConcat
<1>3. CASE QueueEvent
  <2>1. CASE UNCHANGED <<eventQueue, readerEvent>>
    BY <1>0, <1>3, <2>1 DEF QueueEvent, channelVars, writerVars
  <2>2. CASE /\ Len(eventQueue) < QueueCapacity
             /\ eventQueue' = eventQueue \o readerEvent
             /\ readerEvent' = <<>>
    <3>1. UNCHANGED <<rendered, writerEvent, delivered>>
      BY <1>3 DEF QueueEvent, channelVars, writerVars
    <3>2. rendered \o writerEvent \in Seq(E) /\ eventQueue' \in Seq(E)
      BY <1>0, <2>2, ConcatProperties
    <3>3. (rendered \o writerEvent) \o eventQueue'
            = rendered \o writerEvent \o eventQueue \o readerEvent
      <4>1. (rendered \o writerEvent) \o (eventQueue \o readerEvent)
              = ((rendered \o writerEvent) \o eventQueue) \o readerEvent
        BY ONLY <1>t, SMTT(30)
      <4> QED
        BY <2>2, <4>1
    <3>4. rendered \o writerEvent \o eventQueue' \o readerEvent' = delivered
      BY <1>0, <2>2, <3>2, <3>3, ConcatProperties, ConcatEmptySeq
    <3>5. Len(eventQueue') = Len(eventQueue) + Len(readerEvent)
      BY <1>0, <2>2, ConcatProperties
    <3>6. Len(readerEvent) <= 1
      BY HeldIsSeq DEF SessionTypeOK
    <3> QED
      BY <1>0, <2>2, <3>1, <3>4, <3>5, <3>6, SMTT(30)
  <2> QED
    BY <1>3, <2>1, <2>2 DEF QueueEvent
<1>4. CASE TakeEvent
  <2>1. CASE UNCHANGED <<writerEvent, eventQueue>>
    BY <1>0, <1>4, <2>1 DEF TakeEvent, WriterFrame
  <2>2. CASE /\ eventQueue # <<>>
             /\ writerEvent' = <<Head(eventQueue)>>
             /\ eventQueue' = Tail(eventQueue)
    <3>1. UNCHANGED <<rendered, readerEvent, delivered>>
      BY <1>4 DEF TakeEvent, WriterFrame
    <3>2. writerEvent = <<>>
      BY <1>4 DEF TakeEvent, WriterGoto, ThreadsInv
    <3>3. writerEvent' \in Seq(E) /\ eventQueue' \in Seq(E)
      BY <1>0, <2>2, HeadTailProperties
    <3>4. writerEvent' \o eventQueue' = eventQueue
      BY <1>0, <2>2
    <3>5. rendered \o writerEvent' \o eventQueue' = rendered \o eventQueue
      <4>1. (rendered \o writerEvent') \o eventQueue'
              = rendered \o (writerEvent' \o eventQueue')
        BY ONLY <1>t, <3>3, SMTT(30)
      <4> QED
        BY <3>4, <4>1
    <3>6. rendered \o writerEvent = rendered
      BY <1>0, <3>2, ConcatEmptySeq
    <3>7. Len(eventQueue') = Len(eventQueue) - 1
      BY <1>0, <2>2
    <3>8. rendered' \o writerEvent' \o eventQueue' \o readerEvent' = delivered'
      BY <1>0, <3>1, <3>5, <3>6
    <3>9. Len(eventQueue') <= QueueCapacity
      BY <1>0, <3>7
    <3> QED
      BY <3>8, <3>9
  <2> QED
    BY <1>4, <2>1, <2>2 DEF TakeEvent
<1>5. CASE RenderEvent
  <2>1. /\ UNCHANGED <<eventQueue, readerEvent, delivered>>
        /\ rendered' = rendered \o writerEvent
        /\ writerEvent' = <<>>
    BY <1>5 DEF RenderEvent, WriterFrame
  <2>2. rendered' \in Seq(E) /\ rendered' \o writerEvent' = rendered \o writerEvent
    BY <1>0, <2>1, ConcatProperties, ConcatEmptySeq
  <2> QED
    BY <1>0, <2>1, <2>2
<1>6. CASE HookStep
  BY <1>1, <1>6, HookOnly
<1>7. CASE MainStep
  BY <1>1, <1>7, MainOnly
<1>8. CASE LoopStep
  <2>1. \/ UNCHANGED <<rendered, writerEvent, eventQueue, readerEvent, delivered>>
        \/ ReadEvent \/ ReadRacedEvent \/ QueueEvent \/ TakeEvent \/ RenderEvent
    BY <1>8 DEF LoopStep, ReaderStep, EndBatch, ReportDroppedEvents,
       ClearWakePending, FindRingEmpty, WakeReader, NotifyNotEmpty,
       FinishReading, NotifyFinished, WriterStep, NotifyNotFull, SpuriousWakeup,
       FooterStep, WriterFrame, channelVars, queueVars, writerVars, readerVars
  <2> QED
    BY <2>1, <1>1, <1>2, <1>3, <1>4, <1>5
<1>9. CASE UNCHANGED sessionVars
  BY <1>1, <1>9 DEF sessionVars, readerVars, queueVars, writerVars
<1> QED
  BY <1>6, <1>7, <1>8, <1>9, NextCases

-----------------------------------------------------------------------------
(* The ring's contents.                                                    *)

\* Each event is in the ring once, and an unpublished one belongs to a thread
\* that is about to publish it.
LEMMA QueueStep ==
  ASSUME SessionTypeOK, EmitsInv, QueueInv, [SessionNext]_sessionVars
  PROVE  QueueInv'
<1>0. /\ queue \in Seq(Place)
      /\ pc \in [Producers -> {"idle", "reserve", "drop", "publish", "wake",
                               "signal", "withdraw", "dead"}]
      /\ emits \in [Producers -> Nat]
  BY SessionAssumption DEF SessionTypeOK, Place
<1>p. ASSUME NEW i \in 1 .. Len(queue)
      PROVE  /\ queue[i] \in Place
             /\ queue[i].payload \in EventsSent
             /\ queue[i].payload[1] \in Producers
             /\ queue[i].payload[2] \in Nat
  <2>1. queue[i] \in Place
    BY <1>0, ElementOfSeq
  <2> QED
    BY <2>1, SessionAssumption DEF Place, EventsSent
<1>1. CASE UNCHANGED <<queue, pc, emits>>
  BY <1>1 DEF QueueInv
<1>2. CASE Take /\ UNCHANGED <<pc, emits>>
  <2>1. /\ queue # <<>> /\ queue' = Tail(queue)
    BY <1>2 DEF Take
  <2>2. /\ Len(queue') = Len(queue) - 1
        /\ \A i \in 1 .. Len(queue') : /\ i + 1 \in 1 .. Len(queue)
                                       /\ queue'[i] = queue[i + 1]
    BY <1>0, <2>1
  <2>3. ASSUME NEW i \in 1 .. Len(queue')
        PROVE  LET e == queue'[i].payload IN
               /\ e[2] <= emits'[e[1]]
               /\ e[2] = emits'[e[1]] => pc'[e[1]] # "reserve"
               /\ ~queue'[i].filled => e[2] = emits'[e[1]]
                                       /\ pc'[e[1]] \in {"publish", "dead"}
    <3>1. i + 1 \in 1 .. Len(queue) /\ queue'[i] = queue[i + 1]
      BY <2>2
    <3> QED
      BY <1>2, <3>1 DEF QueueInv
  <2>4. ASSUME NEW i \in 1 .. Len(queue'), NEW j \in 1 .. Len(queue'),
               queue'[i].payload = queue'[j].payload
        PROVE  i = j
    <3>1. i + 1 = j + 1
      BY <2>2, <2>4 DEF QueueInv
    <3> QED
      BY <1>0, <2>2, <3>1
  <2> QED
    BY <2>3, <2>4 DEF QueueInv
<1>3. ASSUME NEW t \in Producers, ReserveSlot(t)
      PROVE  QueueInv'
  <2> DEFINE p == [payload |-> EventOf(t), filled |-> FALSE]
  <2>1. /\ pc[t] = "reserve" /\ pc' = [pc EXCEPT ![t] = "publish"]
        /\ queue' = Append(queue, p)
        /\ UNCHANGED emits
    BY <1>3 DEF ReserveSlot, Reserve, Goto
  <2>2. EventOf(t) \in EventsSent
    BY <2>1, EventOfType
  <2>3. p \in Place
    BY <2>2 DEF Place
  <2>4. /\ Len(queue') = Len(queue) + 1
        /\ \A i \in 1 .. Len(queue) : queue'[i] = queue[i]
        /\ queue'[Len(queue) + 1] = p
    BY <1>0, <2>1, <2>3, AppendProperties
  <2>5. p.payload = EventOf(t) /\ ~p.filled
    OBVIOUS
  <2>6. EventOf(t)[1] = t /\ EventOf(t)[2] = emits[t]
    BY DEF EventOf
  <2> HIDE DEF p
  <2>7. ASSUME NEW i \in 1 .. Len(queue)
        PROVE  queue[i].payload # EventOf(t)
    BY <2>1, <2>6 DEF QueueInv
  <2>8. ASSUME NEW i \in 1 .. Len(queue')
        PROVE  i = Len(queue) + 1 \/ i \in 1 .. Len(queue)
    BY <1>0, <2>4
  <2>9. ASSUME NEW i \in 1 .. Len(queue')
        PROVE  LET e == queue'[i].payload IN
               /\ e[2] <= emits'[e[1]]
               /\ e[2] = emits'[e[1]] => pc'[e[1]] # "reserve"
               /\ ~queue'[i].filled => e[2] = emits'[e[1]]
                                       /\ pc'[e[1]] \in {"publish", "dead"}
    <3>1. CASE i = Len(queue) + 1
      BY <1>0, <2>1, <2>4, <2>5, <2>6, <3>1
    <3>2. CASE i \in 1 .. Len(queue)
      BY <1>0, <1>p, <2>1, <2>4, <3>2 DEF QueueInv
    <3> QED
      BY <2>8, <3>1, <3>2
  <2>10. ASSUME NEW i \in 1 .. Len(queue'), NEW j \in 1 .. Len(queue'),
                queue'[i].payload = queue'[j].payload
         PROVE  i = j
    BY <2>4, <2>5, <2>7, <2>8, <2>10 DEF QueueInv
  <2> QED
    BY <2>9, <2>10 DEF QueueInv
<1>4. ASSUME NEW t \in Producers, Publish(t)
      PROVE  QueueInv'
  <2>1. /\ pc[t] = "publish" /\ pc' = [pc EXCEPT ![t] = "wake"]
        /\ UNCHANGED emits
    BY <1>4 DEF Publish, Goto
  <2>2. PICK k \in 1 .. Len(queue) : queue[k].payload = EventOf(t) /\ Fill(k)
    BY <1>4 DEF Publish
  <2>3. /\ Len(queue') = Len(queue)
        /\ \A j \in 1 .. Len(queue) : /\ queue'[j].payload = queue[j].payload
                                      /\ j # k => queue'[j] = queue[j]
                                      /\ j = k => queue'[j].filled
    BY <1>0, <2>2, FillPlace DEF Fill
  <2>4. ASSUME NEW i \in 1 .. Len(queue), i # k, ~queue[i].filled
        PROVE  queue[i].payload[1] # t
    <3>1. SUFFICES ASSUME queue[i].payload[1] = t PROVE FALSE
      OBVIOUS
    <3>2. queue[i].payload[2] = emits[t]
      BY <2>4, <3>1 DEF QueueInv
    <3>3. queue[i].payload = EventOf(t)
      BY <1>p, <3>1, <3>2 DEF EventsSent, EventOf
    <3> QED
      BY <2>2, <2>4, <3>3 DEF QueueInv
  <2> QED
    BY <1>0, <1>p, <2>1, <2>3, <2>4 DEF QueueInv
<1>5. ASSUME NEW t \in Producers, Emit(t)
      PROVE  QueueInv'
  <2>1. /\ pc[t] = "idle" /\ pc' = [pc EXCEPT ![t] = "reserve"]
        /\ emits' = [emits EXCEPT ![t] = @ + 1]
        /\ UNCHANGED queue
    BY <1>5 DEF Emit, Goto, channelVars
  <2>2. ASSUME NEW i \in 1 .. Len(queue)
        PROVE  LET e == queue[i].payload IN
               /\ e[2] <= emits'[e[1]]
               /\ e[2] = emits'[e[1]] => pc'[e[1]] # "reserve"
               /\ ~queue[i].filled => e[2] = emits'[e[1]]
                                      /\ pc'[e[1]] \in {"publish", "dead"}
    BY <1>0, <1>p, <2>1, SMTT(30) DEF QueueInv
  <2> QED
    BY <2>1, <2>2 DEF QueueInv
<1>6. ASSUME NEW t \in Producers,
             \/ RefuseSlot(t) \/ CountDrop(t) \/ RequestWake(t) \/ SignalWake(t)
             \/ WithdrawWake(t) \/ ThreadDies(t)
      PROVE  QueueInv'
  <2>1. /\ UNCHANGED <<queue, emits>>
        /\ pc'[t] \notin {"reserve", "publish"}
        /\ pc[t] = "publish" => pc'[t] = "dead"
        /\ \A u \in Producers : u # t => pc'[u] = pc[u]
    BY <1>0, <1>6 DEF RefuseSlot, CountDrop, RequestWake, SignalWake,
       WithdrawWake, ThreadDies, Refuse, GiveUp, channelVars, Goto
  <2>2. pc[t] = "dead" => pc'[t] = "dead"
    BY <1>0, <1>6 DEF RefuseSlot, CountDrop, RequestWake, SignalWake,
       WithdrawWake, ThreadDies, Goto
  <2> QED
    BY <1>0, <1>p, <2>1, <2>2 DEF QueueInv
<1>7. CASE HookStep
  BY <1>7, <1>3, <1>4, <1>5, <1>6
  DEF HookStep, EmitStart, EmitContinue, EmitStep
<1>8. CASE LoopStep
  <2>1. UNCHANGED <<pc, emits>>
    BY <1>8, LoopFrame
  <2>2. Take \/ UNCHANGED queue
    BY <1>8 DEF LoopStep, ReaderStep, ReadEvent, EndBatch, ReportDroppedEvents,
       ClearWakePending, ReadRacedEvent, FindRingEmpty, WakeReader, QueueEvent,
       NotifyNotEmpty, FinishReading, NotifyFinished, WriterStep, TakeEvent,
       NotifyNotFull, RenderEvent, SpuriousWakeup, FooterStep, WriterFrame,
       channelVars, hookVars
  <2> QED
    BY <1>1, <1>2, <2>1, <2>2
<1>9. CASE MainStep
  BY <1>1, <1>9, MainOnly
<1>10. CASE UNCHANGED sessionVars
  BY <1>1, <1>10 DEF sessionVars, hookVars
<1> QED
  BY <1>7, <1>8, <1>9, <1>10, NextCases

-----------------------------------------------------------------------------
(* The end of ReaderLoop.                                                  *)

\* After a clean removal of the hooks the last rounds of ReaderLoop leave the
\* ring empty and every drop reported, and the summary says how many events
\* were rendered and dropped.
LEMMA DoneStep ==
  ASSUME SessionTypeOK, MainInv, ThreadsInv, QueueInv, DoneInv,
         [SessionNext]_sessionVars
  PROVE  DoneInv'
<1>0. /\ reportedDropped \in Int /\ droppedEvents \in Int
      /\ queue \in Seq(Place)
  BY DEF SessionTypeOK, Place, Longs
<1>e. ASSUME target = "quiesced", ~HeadReady
      PROVE  queue = <<>>
  <2> SUFFICES ASSUME queue # <<>> PROVE FALSE
    OBVIOUS
  <2>1. 1 \in 1 .. Len(queue) /\ Head(queue) = queue[1]
    BY <1>0
  <2>2. ~queue[1].filled
    BY <1>e, <2>1 DEF HeadReady
  <2>3. queue[1].payload[1] \in Producers
    <3>1. queue[1] \in Place
      BY <1>0, <2>1, ElementOfSeq
    <3> QED
      BY <3>1 DEF Place, EventsSent
  <2> QED
    BY <1>e, <2>1, <2>2, <2>3 DEF QueueInv, MainInv
<1>1. CASE HookStep
  <2>1. target # "quiesced"
    BY <1>1, HookOnly DEF TargetRuns
  <2> QED
    BY <1>1, <2>1, HookOnly DEF DoneInv
<1>2. CASE LoopStep
  <2>1. UNCHANGED <<target, droppedEvents, summary>>
    BY <1>2, LoopFrame
  <2>2. summary # <<>> => UNCHANGED rendered
    BY <1>2 DEF LoopStep, ReaderStep, ReadEvent, EndBatch, ReportDroppedEvents,
       ClearWakePending, ReadRacedEvent, FindRingEmpty, WakeReader, QueueEvent,
       NotifyNotEmpty, FinishReading, NotifyFinished, WriterStep, TakeEvent,
       NotifyNotFull, RenderEvent, SpuriousWakeup, FooterStep, writerVars,
       ThreadsInv, WriterGoto
  <2> USE <1>0 DEF DoneInv, ReaderGoto, channelVars
  <2>3. CASE ReadEvent
    BY <2>1, <2>2, <2>3 DEF ReadEvent
  <2>4. CASE EndBatch
    BY <2>1, <2>2, <2>4 DEF EndBatch
  <2>5. CASE ReportDroppedEvents
    BY <2>1, <2>2, <2>5 DEF ReportDroppedEvents
  <2>6. CASE ClearWakePending
    BY <2>1, <2>2, <2>6 DEF ClearWakePending
  <2>7. CASE ReadRacedEvent
    BY <2>1, <2>2, <2>7 DEF ReadRacedEvent
  <2>8. CASE FindRingEmpty
    BY <1>e, <2>1, <2>2, <2>8 DEF FindRingEmpty
  <2>9. CASE WakeReader
    BY <2>1, <2>2, <2>9 DEF WakeReader
  <2>10. CASE QueueEvent
    BY <2>1, <2>2, <2>10 DEF QueueEvent
  <2>11. CASE NotifyNotEmpty
    BY <2>1, <2>2, <2>11 DEF NotifyNotEmpty
  <2>12. CASE FinishReading
    BY <2>1, <2>2, <2>12 DEF FinishReading
  <2>13. CASE NotifyFinished
    BY <2>1, <2>2, <2>13 DEF NotifyFinished
  <2>14. CASE TakeEvent \/ NotifyNotFull \/ RenderEvent \/ SpuriousWakeup
    BY <2>1, <2>2, <2>14 DEF TakeEvent, NotifyNotFull, RenderEvent,
       SpuriousWakeup, WriterFrame, hookVars
  <2>15. CASE FooterStep
    BY <2>1, <2>2, <2>15 DEF FooterStep, hookVars, readerVars
  <2> QED
    BY <1>2, <2>3, <2>4, <2>5, <2>6, <2>7, <2>8, <2>9, <2>10, <2>11, <2>12,
       <2>13, <2>14, <2>15 DEF LoopStep, ReaderStep, WriterStep
<1>3. CASE MainStep
  <2>1. UNCHANGED <<queue, droppedEvents, stopping, reportedDropped, rendered>>
    BY <1>3, MainOnly
  <2>2. CASE Start
    BY <2>1, <2>2 DEF Start, MainGoto, MainInv, DoneInv
  <2>3. CASE BeginStop
    BY <2>1, <2>3 DEF BeginStop, MainGoto, MainInv, DoneInv
  <2>4. CASE FailStart \/ StopAgain \/ SignalStop \/ Join \/ ReleaseLocalRing
    BY <2>1, <2>4 DEF FailStart, StopAgain, SignalStop, Join, ReleaseLocalRing,
       MainGoto, DoneInv
  <2>5. CASE PrintSummary
    <3>1. UNCHANGED <<target, readerPc>>
      BY <2>5 DEF PrintSummary
    <3>2. CASE UNCHANGED summary
      BY <2>1, <3>1, <3>2 DEF DoneInv
    <3>3. CASE ~UNCHANGED summary
      <4>1. summary = <<>> /\ mainPc = "summary"
        BY <2>5, <3>3 DEF PrintSummary, MainGoto
      <4>2. target = "quiesced" => ringMapped
        BY <4>1 DEF MainInv, EndingKinds
      <4>3. target = "quiesced" =>
              summary' = <<[events |-> Len(rendered), dropped |-> droppedEvents]>>
        BY <2>5, <3>3, <4>2 DEF PrintSummary
      <4> QED
        BY <2>1, <3>1, <4>3 DEF DoneInv
    <3> QED
      BY <3>2, <3>3
  <2> QED
    BY <1>3, <2>2, <2>3, <2>4, <2>5 DEF MainStep, StopStep
<1>4. CASE UNCHANGED sessionVars
  BY <1>4 DEF sessionVars, hookVars, readerVars, writerVars, mainVars, DoneInv
<1> QED
  BY <1>1, <1>2, <1>3, <1>4, NextCases

-----------------------------------------------------------------------------
(* Counting: sequence numbers, events and drops.                           *)

\* A thread joins the pending ones.
LEMMA PendingAdd ==
  ASSUME IsFiniteSet(Pending), NEW t \in Producers,
         pc[t] \notin {"reserve", "drop"},
         Pending' = Pending \cup {t}
  PROVE  /\ IsFiniteSet(Pending')
         /\ Cardinality(Pending') = Cardinality(Pending) + 1
  BY FS_AddElement DEF Pending

\* A thread leaves the pending ones.
LEMMA PendingRemove ==
  ASSUME IsFiniteSet(Pending), NEW t \in Producers,
         Pending' = Pending \ {t}
  PROVE  /\ IsFiniteSet(Pending')
         /\ Cardinality(Pending') =
              IF pc[t] \in {"reserve", "drop"} THEN Cardinality(Pending) - 1
                                               ELSE Cardinality(Pending)
  BY FS_RemoveElement DEF Pending

\* What a step of EmitTraceEvent does to the pending threads.
LEMMA PendingStep ==
  ASSUME SessionTypeOK, NEW t \in Producers
  PROVE  /\ Emit(t) => Pending' = Pending \cup {t}
         /\ ReserveSlot(t) \/ CountDrop(t) \/ ThreadDies(t) =>
              Pending' = Pending \ {t}
         /\ \/ RefuseSlot(t) \/ Publish(t) \/ RequestWake(t) \/ SignalWake(t)
            \/ WithdrawWake(t)
            => Pending' = Pending
<1> USE DEF Pending, SessionTypeOK, Goto
<1>1. Emit(t) => Pending' = Pending \cup {t}
  BY DEF Emit
<1>2. ReserveSlot(t) \/ CountDrop(t) \/ ThreadDies(t) => Pending' = Pending \ {t}
  BY DEF ReserveSlot, CountDrop, ThreadDies
<1>3. RefuseSlot(t) => Pending' = Pending
  BY DEF RefuseSlot
<1>4. Publish(t) \/ RequestWake(t) \/ SignalWake(t) \/ WithdrawWake(t) =>
        Pending' = Pending
  BY DEF Publish, RequestWake, SignalWake, WithdrawWake
<1> QED
  BY <1>1, <1>2, <1>3, <1>4

\* The sequence numbers given out are accounted for, modulo 2^32.
LEMMA CountStep ==
  ASSUME SessionTypeOK, CountInv, [SessionNext]_sessionVars
  PROVE  CountInv'
<1> DEFINE n == Len(delivered) + Len(queue) + droppedEvents + Cardinality(Pending)
           M == LongModulus
<1>0. /\ M \in Nat \ {0}
      /\ IsFiniteSet(Pending) /\ Cardinality(Pending) \in Nat
      /\ queue \in Seq(Place) /\ delivered \in Seq(EventsSent)
      /\ Len(delivered) \in Nat /\ Len(queue) \in Nat /\ droppedEvents \in Nat
      /\ n \in Nat
  <2>1. IsFiniteSet(Pending) /\ Cardinality(Pending) \in Nat
    BY FS_CardinalityType DEF CountInv
  <2> QED
    BY <2>1, SessionAssumption DEF SessionTypeOK, Place, Longs
<1>1. CASE UNCHANGED <<queue, delivered, pc, eventSequence, droppedEvents>>
  BY <1>1 DEF CountInv, Pending, NoneDead
<1>2. ASSUME NEW t \in Producers, Emit(t)
      PROVE  CountInv'
  <2>1. /\ IsFiniteSet(Pending')
        /\ Cardinality(Pending') = Cardinality(Pending) + 1
    BY <1>0, <1>2, PendingStep, PendingAdd DEF Emit, Goto
  <2>2. /\ UNCHANGED <<queue, delivered, droppedEvents>>
        /\ eventSequence' = (eventSequence + 1) % M
    BY <1>2 DEF Emit, channelVars, Counted
  <2>3. NoneDead' => NoneDead
    BY <1>2 DEF Emit, Goto, NoneDead, SessionTypeOK
  <2>4. ((n % M) + 1) % M = (n + 1) % M
    BY <1>0, RemainderOfSum
  <2>5. n' = n + 1
    BY <1>0, <2>1, <2>2
  <2>6. NoneDead' => eventSequence' = n' % M
    BY <2>2, <2>3, <2>4, <2>5 DEF CountInv
  <2> QED
    BY <2>1, <2>6 DEF CountInv
<1>3. ASSUME NEW t \in Producers, ReserveSlot(t)
      PROVE  CountInv'
  <2>1. /\ IsFiniteSet(Pending')
        /\ Cardinality(Pending') = Cardinality(Pending) - 1
    BY <1>0, <1>3, PendingStep, PendingRemove DEF ReserveSlot, Goto
  <2>2. UNCHANGED <<delivered, droppedEvents, eventSequence>>
    BY <1>3 DEF ReserveSlot, Reserve
  <2>3. Len(queue') = Len(queue) + 1
    BY <1>0, <1>3 DEF ReserveSlot, Reserve
  <2>4. NoneDead' => NoneDead
    BY <1>3 DEF ReserveSlot, Goto, NoneDead, SessionTypeOK
  <2>5. n' = n
    BY <1>0, <2>1, <2>2, <2>3
  <2>6. NoneDead' => eventSequence' = n' % M
    BY <2>2, <2>4, <2>5 DEF CountInv
  <2> QED
    BY <2>1, <2>6 DEF CountInv
<1>4. ASSUME NEW t \in Producers, CountDrop(t)
      PROVE  CountInv'
  <2>1. /\ IsFiniteSet(Pending')
        /\ Cardinality(Pending') = Cardinality(Pending) - 1
    BY <1>0, <1>4, PendingStep, PendingRemove DEF CountDrop, Goto
  <2>2. /\ UNCHANGED <<queue, delivered, eventSequence>>
        /\ droppedEvents' = (droppedEvents + 1) % M
    BY <1>4 DEF CountDrop, GiveUp, Counted
  <2>3. NoneDead' => NoneDead
    BY <1>4 DEF CountDrop, Goto, NoneDead, SessionTypeOK
  <2> DEFINE b == Len(delivered) + Len(queue) + Cardinality(Pending')
  <2>4. Cardinality(Pending') \in Nat
    BY <2>1, FS_CardinalityType
  <2>5. b \in Nat /\ droppedEvents + 1 \in Nat
    BY <1>0, <2>4
  <2>6. n = (droppedEvents + 1) + b
    <3>1. Cardinality(Pending) = Cardinality(Pending') + 1
      BY <1>0, <2>1, <2>4
    <3> QED
      BY <1>0, <2>4, <3>1, SMT
  <2>7. n' = droppedEvents' + b
    BY <1>0, <2>2, <2>4, <2>5, SMT
  <2> HIDE DEF b, n
  <2>8. n' % M = n % M
    BY <1>0, <2>2, <2>5, <2>6, <2>7, RemainderOfSum
  <2>9. NoneDead' => eventSequence' = n' % M
    BY <2>2, <2>3, <2>8 DEF CountInv, n
  <2> QED
    BY <2>1, <2>9 DEF CountInv, n
<1>5. ASSUME NEW t \in Producers,
             \/ RefuseSlot(t) \/ Publish(t) \/ RequestWake(t) \/ SignalWake(t)
             \/ WithdrawWake(t)
      PROVE  CountInv'
  <2>1. Pending' = Pending
    BY <1>5, PendingStep
  <2>2. UNCHANGED <<delivered, droppedEvents, eventSequence>>
    BY <1>5 DEF RefuseSlot, Publish, RequestWake, SignalWake, WithdrawWake,
       Refuse, Fill, channelVars
  <2>3. Len(queue') = Len(queue)
    <3>1. CASE Publish(t)
      BY <1>0, <3>1, FillPlace DEF Publish, Fill
    <3>2. CASE UNCHANGED queue
      BY <3>2
    <3> QED
      BY <1>5, <3>1, <3>2 DEF RefuseSlot, Refuse, RequestWake, SignalWake,
         WithdrawWake, channelVars
  <2>4. NoneDead' => NoneDead
    BY <1>5 DEF RefuseSlot, Publish, RequestWake, SignalWake, WithdrawWake,
       Goto, NoneDead, SessionTypeOK
  <2> QED
    BY <2>1, <2>2, <2>3, <2>4 DEF CountInv
<1>6. ASSUME NEW t \in Producers, ThreadDies(t)
      PROVE  CountInv'
  <2>1. IsFiniteSet(Pending')
    BY <1>0, <1>6, PendingStep, PendingRemove
  <2>2. ~NoneDead'
    BY <1>6 DEF ThreadDies, NoneDead, SessionTypeOK
  <2> QED
    BY <2>1, <2>2 DEF CountInv
<1>7. CASE HookStep
  BY <1>7, <1>2, <1>3, <1>4, <1>5, <1>6
  DEF HookStep, EmitStart, EmitContinue, EmitStep
<1>8. CASE LoopStep
  <2>1. UNCHANGED <<pc, eventSequence, droppedEvents>>
    BY <1>8, LoopFrame
  <2>2. Take \/ UNCHANGED <<queue, delivered>>
    BY <1>8 DEF LoopStep, ReaderStep, ReadEvent, EndBatch, ReportDroppedEvents,
       ClearWakePending, ReadRacedEvent, FindRingEmpty, WakeReader, QueueEvent,
       NotifyNotEmpty, FinishReading, NotifyFinished, WriterStep, TakeEvent,
       NotifyNotFull, RenderEvent, SpuriousWakeup, FooterStep, WriterFrame,
       channelVars, hookVars, readerVars
  <2>3. CASE Take
    <3>1. /\ Len(queue') = Len(queue) - 1
          /\ Len(delivered') = Len(delivered) + 1
      <4>1. queue # <<>> /\ Head(queue) \in Place
        BY <1>0, <2>3, HeadTailProperties DEF Take
      <4>2. Head(queue).payload \in EventsSent
        BY <4>1 DEF Place
      <4> QED
        BY <1>0, <2>3, <4>1, <4>2, HeadTailProperties, AppendProperties DEF Take
    <3>2. Pending' = Pending /\ NoneDead' = NoneDead
      BY <2>1 DEF Pending, NoneDead
    <3>3. n' = n
      BY <1>0, <2>1, <3>1, <3>2
    <3>4. NoneDead' => eventSequence' = n' % M
      BY <2>1, <3>2, <3>3 DEF CountInv
    <3> QED
      BY <1>0, <3>2, <3>4 DEF CountInv
  <2> QED
    BY <1>1, <2>1, <2>2, <2>3
<1>9. CASE MainStep
  BY <1>1, <1>9, MainOnly
<1>10. CASE UNCHANGED sessionVars
  BY <1>1, <1>10 DEF sessionVars, hookVars, readerVars
<1> QED
  BY <1>7, <1>8, <1>9, <1>10, NextCases

\* The 32-bit counters do not wrap: there are fewer calls of EmitTraceEvent
\* than 2^32.
BelowWrap ==
  IsFiniteSet(Producers) /\ Cardinality(Producers) * MaxEmits < LongModulus

\* There are at most as many events as threads times calls.
LEMMA BegunBound ==
  ASSUME BelowWrap
  PROVE  /\ IsFiniteSet(Begun) /\ Cardinality(Begun) \in Nat
         /\ Cardinality(Begun) < LongModulus
<1>1. IsFiniteSet(1 .. MaxEmits) /\ Cardinality(1 .. MaxEmits) = MaxEmits
  BY FS_Interval, SessionAssumption
<1>2. /\ IsFiniteSet(EventsSent)
      /\ Cardinality(EventsSent) = Cardinality(Producers) * MaxEmits
  BY <1>1, FS_Product DEF EventsSent, BelowWrap
<1>3. Begun \in SUBSET EventsSent
  BY DEF Begun
<1>4. /\ IsFiniteSet(Begun) /\ Cardinality(Begun) <= Cardinality(EventsSent)
  BY <1>2, <1>3, FS_Subset
<1>5. Cardinality(Begun) \in Nat /\ Cardinality(EventsSent) \in Nat
  BY <1>2, <1>4, FS_CardinalityType
<1> QED
  BY <1>2, <1>4, <1>5, SessionAssumption DEF BelowWrap

\* Below the wrap, the drops are at most the events begun and the reported
\* drops at most the drops.
LEMMA DropsStep ==
  ASSUME BelowWrap, SessionTypeOK, CountInv, DropsInv, [SessionNext]_sessionVars
  PROVE  DropsInv'
<1>0. /\ LongModulus \in Nat \ {0}
      /\ IsFiniteSet(Pending) /\ Cardinality(Pending) \in Nat
      /\ IsFiniteSet(Begun) /\ Cardinality(Begun) \in Nat
      /\ Cardinality(Begun) < LongModulus
      /\ droppedEvents \in Nat /\ reportedDropped \in Nat
      /\ emits \in [Producers -> 0 .. MaxEmits]
      /\ droppedEvents + Cardinality(Pending) <= Cardinality(Begun)
      /\ reportedDropped <= droppedEvents
  <2>1. IsFiniteSet(Pending) /\ Cardinality(Pending) \in Nat
    BY FS_CardinalityType DEF CountInv
  <2> QED
    BY <2>1, BegunBound, SessionAssumption DEF SessionTypeOK, Longs, DropsInv
<1>1. CASE UNCHANGED <<pc, emits, droppedEvents, reportedDropped>>
  BY <1>1 DEF DropsInv, Pending, Begun
<1>2. ASSUME NEW t \in Producers, Emit(t), UNCHANGED reportedDropped
      PROVE  DropsInv'
  <2>1. Cardinality(Pending') = Cardinality(Pending) + 1
    BY <1>0, <1>2, PendingStep, PendingAdd DEF Emit, Goto
  <2>2. /\ emits' = [emits EXCEPT ![t] = @ + 1] /\ emits[t] < MaxEmits
        /\ UNCHANGED droppedEvents
    BY <1>2 DEF Emit
  <2> DEFINE e == <<t, emits[t] + 1>>
  <2>3. e \in EventsSent /\ e \notin Begun
    BY <1>0, <2>2, SessionAssumption DEF EventsSent, Begun
  <2>4. Begun' = Begun \cup {e}
    <3>1. ASSUME NEW d \in EventsSent
          PROVE  d[2] <= emits'[d[1]] <=> d[2] <= emits[d[1]] \/ d = e
      BY <1>0, <2>2, SessionAssumption DEF EventsSent
    <3> QED
      BY <2>3, <3>1 DEF Begun
  <2>5. Cardinality(Begun') = Cardinality(Begun) + 1
    BY <1>0, <2>3, <2>4, FS_AddElement
  <2> QED
    BY <1>0, <1>2, <2>1, <2>2, <2>5 DEF DropsInv
<1>3. ASSUME NEW t \in Producers, ReserveSlot(t) \/ ThreadDies(t),
             UNCHANGED reportedDropped
      PROVE  DropsInv'
  <2>1. /\ Cardinality(Pending') \in {Cardinality(Pending) - 1, Cardinality(Pending)}
    BY <1>0, <1>3, PendingStep, PendingRemove
  <2>2. UNCHANGED <<emits, droppedEvents>>
    BY <1>3 DEF ReserveSlot, ThreadDies
  <2>3. Begun' = Begun
    BY <2>2 DEF Begun
  <2> QED
    BY <1>0, <1>3, <2>1, <2>2, <2>3 DEF DropsInv
<1>4. ASSUME NEW t \in Producers, CountDrop(t), UNCHANGED reportedDropped
      PROVE  DropsInv'
  <2>1. /\ IsFiniteSet(Pending')
        /\ Cardinality(Pending') = Cardinality(Pending) - 1
    BY <1>0, <1>4, PendingStep, PendingRemove DEF CountDrop, Goto
  <2>2. Cardinality(Pending') \in Nat
    BY <2>1, FS_CardinalityType
  <2>3. droppedEvents + 1 < LongModulus
    BY <1>0, <2>1, <2>2
  <2>4. droppedEvents' = droppedEvents + 1 /\ UNCHANGED emits
    <3>1. (droppedEvents + 1) % LongModulus = droppedEvents + 1
      BY <1>0, <2>3, SMT
    <3> QED
      BY <1>4, <3>1 DEF CountDrop, Counted
  <2>5. Begun' = Begun
    BY <2>4 DEF Begun
  <2> QED
    BY <1>0, <1>4, <2>1, <2>4, <2>5 DEF DropsInv
<1>5. ASSUME NEW t \in Producers, UNCHANGED reportedDropped,
             \/ RefuseSlot(t) \/ Publish(t) \/ RequestWake(t) \/ SignalWake(t)
             \/ WithdrawWake(t)
      PROVE  DropsInv'
  <2>1. Pending' = Pending
    BY <1>5, PendingStep
  <2>2. UNCHANGED <<emits, droppedEvents>>
    BY <1>5 DEF RefuseSlot, Publish, RequestWake, SignalWake, WithdrawWake
  <2> QED
    BY <1>5, <2>1, <2>2 DEF DropsInv, Begun
<1>6. CASE HookStep
  BY <1>6, <1>2, <1>3, <1>4, <1>5, HookOnly
  DEF HookStep, EmitStart, EmitContinue, EmitStep
<1>7. CASE LoopStep
  <2>1. UNCHANGED <<pc, emits, droppedEvents>>
    BY <1>7, LoopFrame
  <2>2. reportedDropped' \in {reportedDropped, droppedEvents}
    BY <1>7 DEF LoopStep, ReaderStep, ReadEvent, EndBatch, ReportDroppedEvents,
       ClearWakePending, ReadRacedEvent, FindRingEmpty, WakeReader, QueueEvent,
       NotifyNotEmpty, FinishReading, NotifyFinished, WriterStep, TakeEvent,
       NotifyNotFull, RenderEvent, SpuriousWakeup, FooterStep, WriterFrame,
       readerVars
  <2>3. Pending' = Pending /\ Begun' = Begun
    BY <2>1 DEF Pending, Begun
  <2> QED
    BY <1>0, <2>1, <2>2, <2>3 DEF DropsInv
<1>8. CASE MainStep
  BY <1>1, <1>8, MainOnly
<1>9. CASE UNCHANGED sessionVars
  BY <1>1, <1>9 DEF sessionVars, hookVars, readerVars
<1> QED
  BY <1>6, <1>7, <1>8, <1>9, NextCases

-----------------------------------------------------------------------------
(* The wakeup of ReaderLoop.                                               *)

\* SetEvent succeeds and no thread dies inside EmitTraceEvent.
WakeupsWork == Faults \cap {"SetEventFails", "ThreadDies"} = {}

\* The reader that waits is not forgotten.
LEMMA WakeStep ==
  ASSUME WakeupsWork, SessionTypeOK, WakeInv, [SessionNext]_sessionVars
  PROVE  WakeInv'
<1>0. /\ pc \in [Producers -> {"idle", "reserve", "drop", "publish", "wake",
                               "signal", "withdraw", "dead"}]
      /\ queue \in Seq(Place)
      /\ wakePending \in {0, 1}
  BY DEF SessionTypeOK, Place
<1>1. ASSUME NEW t \in Producers, UNCHANGED readerPc,
             Emit(t) \/ RefuseSlot(t) \/ CountDrop(t)
      PROVE  WakeInv'
  <2>1. /\ UNCHANGED <<queue, wakePending, wakeEvent>>
        /\ pc[t] \notin {"signal", "wake"} /\ pc'[t] \in {"reserve", "drop", "idle"}
        /\ \A u \in Producers : u # t => pc'[u] = pc[u]
    BY <1>0, <1>1 DEF Emit, RefuseSlot, CountDrop, Goto, Refuse, GiveUp,
       channelVars, wakeVars
  <2> QED
    BY <1>1, <2>1 DEF WakeInv, HeadReady
<1>2. ASSUME NEW t \in Producers, UNCHANGED readerPc, ReserveSlot(t)
      PROVE  WakeInv'
  <2>1. /\ UNCHANGED <<wakePending, wakeEvent>>
        /\ pc[t] = "reserve" /\ pc'[t] = "publish"
        /\ \A u \in Producers : u # t => pc'[u] = pc[u]
    BY <1>0, <1>2 DEF ReserveSlot, Goto, wakeVars
  <2>2. HeadReady' => HeadReady
    <3> DEFINE p == [payload |-> EventOf(t), filled |-> FALSE]
    <3>1. queue' = Append(queue, p)
      BY <1>2 DEF ReserveSlot, Reserve
    <3>2. CASE queue = <<>>
      <4>1. Head(queue') = p
        BY <3>1, <3>2
      <4> QED
        BY <4>1 DEF HeadReady
    <3>3. CASE queue # <<>>
      <4>1. Head(queue') = Head(queue)
        BY <1>0, <3>1, <3>3
      <4> QED
        BY <3>3, <4>1 DEF HeadReady
    <3> QED
      BY <3>2, <3>3
  <2> QED
    BY <1>2, <2>1, <2>2 DEF WakeInv
<1>3. ASSUME NEW t \in Producers, UNCHANGED readerPc, Publish(t)
      PROVE  WakeInv'
  <2>1. /\ UNCHANGED <<wakePending, wakeEvent>>
        /\ pc[t] = "publish" /\ pc'[t] = "wake"
        /\ \A u \in Producers : u # t => pc'[u] = pc[u]
    BY <1>0, <1>3 DEF Publish, Goto, wakeVars
  <2> QED
    BY <1>3, <2>1 DEF WakeInv
<1>4. ASSUME NEW t \in Producers, UNCHANGED readerPc, RequestWake(t)
      PROVE  WakeInv'
  <2>1. /\ UNCHANGED <<queue, wakeEvent>>
        /\ pc[t] = "wake" /\ wakePending' = 1
        /\ pc'[t] = IF wakePending = 0 THEN "signal" ELSE "idle"
        /\ \A u \in Producers : u # t => pc'[u] = pc[u]
    BY <1>0, <1>4 DEF RequestWake, Goto, channelVars
  <2> QED
    BY <1>0, <1>4, <2>1 DEF WakeInv
<1>5. ASSUME NEW t \in Producers, UNCHANGED readerPc, SignalWake(t)
      PROVE  WakeInv'
  <2>1. /\ UNCHANGED <<queue, wakePending>>
        /\ wakeEvent' = TRUE
        /\ pc[t] = "signal" /\ pc'[t] = "idle"
        /\ \A u \in Producers : u # t => pc'[u] = pc[u]
    BY <1>0, <1>5 DEF SignalWake, Goto, channelVars, WakeupsWork
  <2> QED
    BY <1>5, <2>1 DEF WakeInv, HeadReady
<1>6. CASE HookStep
  <2>1. \A t \in Producers : ~WithdrawWake(t) /\ ~ThreadDies(t)
    BY DEF WithdrawWake, ThreadDies, Goto, WakeInv, WakeupsWork
  <2> QED
    BY <1>6, <2>1, <1>1, <1>2, <1>3, <1>4, <1>5, HookOnly
    DEF HookStep, EmitStart, EmitContinue, EmitStep
<1>7. CASE LoopStep
  <2>1. UNCHANGED pc
    BY <1>7, LoopFrame
  <2> USE DEF ReaderGoto, channelVars, wakeVars
  <2>2. CASE ReaderStep
    <3>1. CASE ClearWakePending
      BY <2>1, <3>1 DEF ClearWakePending, WakeInv
    <3>2. CASE FindRingEmpty
      BY <2>1, <3>2 DEF FindRingEmpty, WakeInv, HeadReady
    <3>3. CASE readerPc' \notin {"race", "wait"}
      BY <2>1, <3>3 DEF WakeInv
    <3> QED
      BY <2>2, <3>1, <3>2, <3>3 DEF ReaderStep, ReadEvent, EndBatch,
         ReportDroppedEvents, ReadRacedEvent, WakeReader, QueueEvent,
         NotifyNotEmpty, FinishReading, NotifyFinished
  <2>3. CASE WriterStep \/ SpuriousWakeup \/ FooterStep
    <3>1. /\ UNCHANGED <<queue, wakePending, wakeEvent>>
          /\ readerPc' \in {"race", "wait"} => readerPc' = readerPc
      BY <2>3 DEF WriterStep, TakeEvent, NotifyNotFull, RenderEvent,
         SpuriousWakeup, FooterStep, WriterFrame, hookVars, readerVars
    <3> QED
      BY <2>1, <3>1 DEF WakeInv, HeadReady
  <2> QED
    BY <1>7, <2>2, <2>3 DEF LoopStep
<1>8. CASE MainStep
  <2>1. UNCHANGED <<queue, pc, wakePending, wakeEvent>>
    BY <1>8, MainOnly
  <2>2. readerPc' \in {"race", "wait"} => readerPc' = readerPc
    BY <1>8 DEF MainStep, StopStep, Start, FailStart, BeginStop, StopAgain,
       SignalStop, Join, PrintSummary, ReleaseLocalRing
  <2> QED
    BY <2>1, <2>2 DEF WakeInv, HeadReady
<1>9. CASE UNCHANGED sessionVars
  BY <1>9 DEF sessionVars, hookVars, wakeVars, readerVars, WakeInv, HeadReady
<1> QED
  BY <1>6, <1>7, <1>8, <1>9, NextCases

-----------------------------------------------------------------------------
(* The theorems.                                                           *)

\* The invariant holds initially.
LEMMA InitInv == SessionInit => SessionInv
<1> SUFFICES ASSUME SessionInit PROVE SessionInv
  OBVIOUS
<1>1. SessionTypeOK
  BY InitType
<1> USE SessionAssumption DEF SessionInit, ChannelInit
<1>2. EmitsInv /\ MainInv /\ ThreadsInv /\ DoneInv
  BY DEF EmitsInv, MainInv, ThreadsInv, DoneInv, EndingKinds
<1>3. PipelineOrder
  BY DEF PipelineOrder
<1>4. QueueInv
  BY DEF QueueInv
<1>5. CountInv
  <2>1. Pending = {}
    BY DEF Pending
  <2>2. IsFiniteSet(Pending) /\ Cardinality(Pending) = 0
    BY <2>1, FS_EmptySet
  <2>3. 0 % LongModulus = 0
    BY SMT
  <2> QED
    BY <2>2, <2>3 DEF CountInv
<1> QED
  BY <1>1, <1>2, <1>3, <1>4, <1>5 DEF SessionInv

\* Every step keeps the invariant.
LEMMA StepInv == SessionInv /\ [SessionNext]_sessionVars => SessionInv'
<1> SUFFICES ASSUME SessionInv, [SessionNext]_sessionVars PROVE SessionInv'
  OBVIOUS
<1> USE DEF SessionInv
<1>1. SessionTypeOK'
  <2>1. CASE HookStep
    BY <2>1, TypeHook DEF HookStep
  <2>2. CASE LoopStep
    BY <2>2, TypeReader, TypeWriter DEF LoopStep
  <2>3. CASE MainStep
    BY <2>3, TypeMain
  <2>4. CASE UNCHANGED sessionVars
    BY <2>4 DEF SessionTypeOK, sessionVars, hookVars, wakeVars, readerVars,
       queueVars, writerVars, footerVars, mainVars
  <2> QED
    BY <2>1, <2>2, <2>3, <2>4, NextCases
<1> QED
  BY <1>1, EmitsStep, MainInvStep, ThreadsStep, PipelineStep, QueueStep,
     DoneStep, CountStep

\* The invariant holds throughout every session.
THEOREM SessionInvariant == SessionSpec => []SessionInv
  BY InitInv, StepInv, PTL DEF SessionSpec

\* Every variable of the session keeps its type and no batch of ReaderLoop
\* exceeds TRACE_RING_READ_BATCH, however hook threads, reader, writer, footer
\* and Stop interleave.
THEOREM SessionTypeCorrect == SessionSpec => []SessionTypeOK
<1>1. SessionInv => SessionTypeOK
  BY DEF SessionInv
<1> QED
  BY <1>1, SessionInvariant, PTL

\* Between TryReadRing and RenderEvent no event is lost, repeated or
\* overtaken, and eventQueue_ stays within its capacity.
THEOREM PipelineCorrect == SessionSpec => []PipelineOrder
<1>1. SessionInv => PipelineOrder
  BY DEF SessionInv
<1> QED
  BY <1>1, SessionInvariant, PTL

\* The ring is unmapped only after the reader, the writer and the footer
\* thread have left their loops, however Stop and Drain are repeated and
\* wherever Start failed.
THEOREM RingOutlives == SessionSpec => []RingOutlivesThreads
<1>1. SessionInv => RingOutlivesThreads
  BY DEF SessionInv, ThreadsInv, RingOutlivesThreads
<1> QED
  BY <1>1, SessionInvariant, PTL

\* After a clean removal of the hooks and a ReaderLoop that ended because of
\* the stop, the summary accounts for every sequence number given out, modulo
\* 2^32, whatever SetEvent did and however many calls there were.
THEOREM SummaryAccounts ==
  SessionSpec => [](CleanlyStopped => SummaryComplete /\ reportedDropped >= droppedEvents)
<1>1. ASSUME SessionInv, CleanlyStopped
      PROVE  SummaryComplete /\ reportedDropped >= droppedEvents
  <2> USE DEF SessionInv, CleanlyStopped
  <2>1. readerPc = "done" /\ writerPc = "done" /\ eventQueue = <<>>
    BY <1>1 DEF ThreadsInv
  <2>2. queue = <<>> /\ reportedDropped >= droppedEvents
    BY <1>1, <2>1 DEF DoneInv
  <2>3. readerEvent = <<>> /\ writerEvent = <<>>
    BY <1>1, <2>1 DEF ThreadsInv
  <2>4. rendered \in Seq(EventsSent) /\ delivered \in Seq(EventsSent)
    BY <1>1 DEF SessionTypeOK
  <2>5. rendered = delivered
    BY <1>1, <2>1, <2>3, <2>4, ConcatEmptySeq DEF PipelineOrder
  <2>6. \A t \in Producers : pc[t] = "idle"
    BY <1>1 DEF MainInv
  <2>7. Cardinality(Pending) = 0
    <3>1. Pending = {}
      BY <2>6 DEF Pending
    <3> QED
      BY <3>1, FS_EmptySet
  <2>8. eventSequence = (Len(delivered) + Len(queue) + droppedEvents
                           + Cardinality(Pending)) % LongModulus
    BY <1>1, <2>6 DEF CountInv, NoneDead
  <2>9. Len(queue) = 0 /\ Len(delivered) \in Nat /\ droppedEvents \in Nat
    BY <1>1, <2>2, <2>4 DEF SessionTypeOK, Longs
  <2>10. eventSequence = (Len(rendered) + droppedEvents) % LongModulus
    BY <2>5, <2>7, <2>8, <2>9
  <2>11. summary[1] = [events |-> Len(rendered), dropped |-> droppedEvents]
    BY <1>1 DEF DoneInv
  <2>12. summary[1].events = Len(rendered) /\ summary[1].dropped = droppedEvents
    BY <2>11
  <2> QED
    BY <2>2, <2>5, <2>10, <2>12 DEF SummaryComplete
<1>2. SessionInv =>
        (CleanlyStopped => SummaryComplete /\ reportedDropped >= droppedEvents)
  BY <1>1
<1> QED
  BY <1>2, SessionInvariant, PTL

\* Below the wrap of the 32-bit counters the summary is complete and ReaderLoop
\* has reported exactly the drops.
THEOREM CleanStop ==
  ASSUME BelowWrap
  PROVE  SessionSpec => []CleanStopComplete
<1>1. SessionInit => DropsInv
  <2> SUFFICES ASSUME SessionInit PROVE DropsInv
    OBVIOUS
  <2>1. Pending = {} /\ droppedEvents = 0 /\ reportedDropped = 0
    BY DEF SessionInit, Pending
  <2>2. Cardinality(Pending) = 0
    BY <2>1, FS_EmptySet
  <2> QED
    BY <2>1, <2>2, BegunBound DEF DropsInv
<1>2. SessionInv /\ DropsInv /\ [SessionNext]_sessionVars => DropsInv'
  BY DropsStep DEF SessionInv
<1>3. /\ SessionInv /\ DropsInv
      /\ CleanlyStopped => SummaryComplete /\ reportedDropped >= droppedEvents
      => CleanStopComplete
  <2>1. SessionInv => reportedDropped \in Int /\ droppedEvents \in Int
    BY DEF SessionInv, SessionTypeOK, Longs
  <2> QED
    BY <2>1 DEF DropsInv, CleanStopComplete
<1> QED
  BY <1>1, <1>2, <1>3, SessionInvariant, SummaryAccounts, PTL DEF SessionSpec

\* The summary is printed once and for all, and nothing is rendered after it.
THEOREM SummaryIsFinal == SessionSpec => SummaryFinal
<1>1. ASSUME SessionInv, [SessionNext]_sessionVars, summary # <<>>
      PROVE  UNCHANGED <<summary, rendered>>
  <2> USE DEF SessionInv
  <2>1. writerPc = "done"
    BY <1>1 DEF ThreadsInv
  <2>2. CASE HookStep
    BY <2>2, HookOnly
  <2>3. CASE LoopStep
    BY <2>1, <2>3, LoopFrame DEF LoopStep, ReaderStep, ReadEvent, EndBatch,
       ReportDroppedEvents, ClearWakePending, ReadRacedEvent, FindRingEmpty,
       WakeReader, QueueEvent, NotifyNotEmpty, FinishReading, NotifyFinished,
       WriterStep, TakeEvent, NotifyNotFull, RenderEvent, SpuriousWakeup,
       FooterStep, writerVars, WriterGoto
  <2>4. CASE MainStep
    BY <1>1, <2>4, MainOnly DEF MainStep, StopStep, Start, FailStart, BeginStop,
       StopAgain, SignalStop, Join, PrintSummary, ReleaseLocalRing
  <2>5. CASE UNCHANGED sessionVars
    BY <2>5 DEF sessionVars, writerVars, mainVars
  <2> QED
    BY <1>1, <2>2, <2>3, <2>4, <2>5, NextCases
<1>2. SessionInv /\ [SessionNext]_sessionVars =>
        [summary # <<>> => UNCHANGED <<summary, rendered>>]_sessionVars
  BY <1>1
<1> QED
  BY <1>2, SessionInvariant, PTL DEF SessionSpec, SummaryFinal

\* While SetEvent succeeds and no thread dies inside EmitTraceEvent, the reader
\* never sleeps on a readable event that nobody will announce.
THEOREM WakeupNotLost ==
  ASSUME WakeupsWork
  PROVE  SessionSpec => []NoLostWakeup
<1>1. SessionInit => WakeInv
  BY DEF SessionInit, ChannelInit, WakeInv
<1>2. SessionInv /\ WakeInv /\ [SessionNext]_sessionVars => WakeInv'
  BY WakeStep DEF SessionInv
<1>3. SessionInv /\ WakeInv => NoLostWakeup
  <2>1. SessionInv => wakePending \in {0, 1}
    BY DEF SessionInv, SessionTypeOK
  <2> QED
    BY <2>1 DEF WakeInv, NoLostWakeup
<1> QED
  BY <1>1, <1>2, <1>3, SessionInvariant, PTL DEF SessionSpec

\* The session uses the ring only as the queue of places that the ring
\* implements (RingImplementsChannel of TraceRingProofs).
THEOREM SessionUsesChannel ==
  ASSUME EventsSent \subseteq Payloads
  PROVE  SessionSpec => ChannelSpec
<1>1. SessionInit => ChannelInit
  BY DEF SessionInit
<1>2. ASSUME SessionInv, [SessionNext]_sessionVars
      PROVE  [ChannelNext]_channelVars
  <2>1. ASSUME NEW t \in Producers,
               EmitStart(t) \/ EmitContinue(t) \/ ThreadDies(t)
        PROVE  [ChannelNext]_channelVars
    <3>1. CASE ReserveSlot(t)
      <4>1. EventOf(t) \in Payloads
        BY <1>2, <3>1, EventOfType DEF SessionInv, ReserveSlot, Goto
      <4> QED
        BY <3>1, <4>1 DEF ReserveSlot, ChannelNext
    <3>2. CASE RefuseSlot(t) \/ CountDrop(t) \/ Publish(t)
      BY <3>2 DEF RefuseSlot, CountDrop, Publish, ChannelNext
    <3>3. CASE UNCHANGED channelVars
      BY <3>3
    <3> QED
      BY <2>1, <3>1, <3>2, <3>3 DEF EmitStart, Emit, EmitContinue, EmitStep,
         ThreadDies, RequestWake, SignalWake, WithdrawWake
  <2>2. ASSUME LoopStep
        PROVE  Take \/ UNCHANGED channelVars
    BY <2>2 DEF LoopStep, ReaderStep, ReadEvent, EndBatch, ReportDroppedEvents,
       ClearWakePending, ReadRacedEvent, FindRingEmpty, WakeReader, QueueEvent,
       NotifyNotEmpty, FinishReading, NotifyFinished, WriterStep, TakeEvent,
       NotifyNotFull, RenderEvent, SpuriousWakeup, FooterStep, WriterFrame,
       channelVars, hookVars, readerVars
  <2>3. ASSUME MainStep \/ UNCHANGED sessionVars
        PROVE  UNCHANGED channelVars
    BY <2>3, MainOnly DEF channelVars, sessionVars, hookVars, readerVars
  <2> QED
    BY <1>2, <2>1, <2>2, <2>3, NextCases DEF HookStep, ChannelNext
<1>3. SessionInv /\ [SessionNext]_sessionVars => [ChannelNext]_channelVars
  BY <1>2
<1> QED
  BY <1>1, <1>3, SessionInvariant, PTL DEF SessionSpec, ChannelSpec
=============================================================================
