---------------------------- MODULE TraceSession ----------------------------
(***************************************************************************)
(* The controller's trace pipeline (src/apiscope/trace_session.cpp) on top *)
(* of the bounded queue the trace ring implements (TraceChannel; the       *)
(* theorem RingImplementsChannel of TraceRingProofs):                      *)
(*                                                                         *)
(*   hook threads -> ring -> ReaderLoop -> eventQueue_ -> WriterLoop       *)
(*                                                                         *)
(* with the wakeup of the reader, the two condition variables of           *)
(* eventQueue_, the status footer thread, and the thread that starts the   *)
(* session and ends it with Stop or Drain (the two have the same body).    *)
(* A critical section under queueMutex_ or consoleMutex_ is one step; a    *)
(* notify after the unlock is a step of its own.                           *)
(***************************************************************************)
EXTENDS TraceChannel, Integers, FiniteSets, Functions

CONSTANTS
  LongModulus,     \* the LONG counters wrap at this value (2^32 in the code)
  QueueCapacity,   \* TRACE_EVENT_QUEUE_CAPACITY
  ReadBatch,       \* TRACE_RING_READ_BATCH
  FooterEnabled,   \* footerEnabled_ (and not quiet_)
  MaxEmits,        \* bound: EmitTraceEvent calls made by one thread
  MaxEvents,       \* bound: EmitTraceEvent calls made by all threads
  MaxStops,        \* bound: calls of Stop or Drain
  Endings,         \* how the target may leave the session, see BeginStop
  Faults           \* failures the environment may inject

FaultKinds == {"SetEventFails", "WaitFails", "ThreadDies", "StartFails"}
EndingKinds == {"quiesced", "halted", "abandoned"}

ASSUME SessionAssumption ==
  /\ LongModulus \in Nat \ {0}
  /\ QueueCapacity \in Nat \ {0}
  /\ ReadBatch \in Nat \ {0}
  /\ FooterEnabled \in BOOLEAN
  /\ MaxEmits \in Nat
  /\ MaxEvents \in Nat
  /\ MaxStops \in Nat \ {0}
  /\ Endings \subseteq EndingKinds
  /\ Faults \subseteq FaultKinds

VARIABLES
  target,          \* "unhooked", "running" or the way it left the session
  pc,              \* where each hook thread is inside EmitTraceEvent
  emits,           \* EmitTraceEvent calls each thread has made
  eventSequence,   \* TraceRing::eventSequence
  droppedEvents,   \* TraceRing::droppedEvents
  wakePending,     \* TraceRing::wakePending
  wakeEvent,       \* wakeEvent_, auto-reset
  stopEvent,       \* stopEvent_, manual-reset
  readerPc,        \* where readerThread_ is in ReaderLoop
  eventsRead,      \* ReaderLoop's eventsRead
  stopping,        \* ReaderLoop's stopping
  readerEvent,     \* the event the reader holds, as a sequence
  reportedDropped, \* reportedDroppedCount_
  eventQueue,      \* eventQueue_
  readerFinished,  \* readerFinished_
  writerPc,        \* where writerThread_ is in WriterLoop
  writerEvent,     \* the event the writer holds, as a sequence
  rendered,        \* the events RenderEvent has counted and written, in order
  footerPc,        \* where footerThread_ is in FooterLoop
  footerBuilt,     \* footerLine_ is not empty
  statsDropped,    \* stats_.dropped
  mainPc,          \* where the controlling thread is
  started,         \* started_
  ringMapped,      \* localRing_ is not null
  summary,         \* the summary printed, as a sequence
  stops            \* calls of Stop or Drain so far

hookVars == <<queue, refused, target, pc, emits, eventSequence, droppedEvents>>
wakeVars == <<wakePending, wakeEvent>>
readerVars == <<delivered, readerPc, eventsRead, stopping, readerEvent,
                reportedDropped>>
queueVars == <<eventQueue, readerFinished>>
writerVars == <<writerPc, writerEvent, rendered>>
footerVars == <<footerPc, footerBuilt, statsDropped>>
mainVars == <<stopEvent, mainPc, started, ringMapped, summary, stops>>
sessionVars == <<hookVars, wakeVars, readerVars, queueVars, writerVars,
                 footerVars, mainVars>>

\* Nothing runs yet: the constructor's state, the target not hooked.
SessionInit ==
  /\ ChannelInit
  /\ target = "unhooked"
  /\ pc = [t \in Producers |-> "idle"]
  /\ emits = [t \in Producers |-> 0]
  /\ eventSequence = 0 /\ droppedEvents = 0
  /\ wakePending = 0 /\ wakeEvent = FALSE /\ stopEvent = FALSE
  /\ readerPc = "done" /\ writerPc = "done" /\ footerPc = "done"
  /\ eventsRead = 0 /\ stopping = FALSE /\ reportedDropped = 0
  /\ readerEvent = <<>> /\ writerEvent = <<>>
  /\ eventQueue = <<>> /\ readerFinished = FALSE /\ rendered = <<>>
  /\ footerBuilt = FALSE /\ statsDropped = 0
  /\ mainPc = "start" /\ started = FALSE /\ ringMapped = FALSE
  /\ summary = <<>> /\ stops = 0

-----------------------------------------------------------------------------
(* EmitTraceEvent, at the granularity of the channel.                      *)

Goto(t, from, to) == pc[t] = from /\ pc' = [pc EXCEPT ![t] = to]
TargetRuns == target \in {"running", "abandoned"}
Counted(counter) == (counter + 1) % LongModulus
EventOf(t) == <<t, emits[t]>>

\* The calls of EmitTraceEvent so far, for the bound MaxEvents.
EventsBegun == FoldFunction(LAMBDA a, b : a + b, 0, emits)

Emit(t) ==
  /\ emits[t] < MaxEmits
  /\ EventsBegun < MaxEvents
  /\ Goto(t, "idle", "reserve")
  /\ emits' = [emits EXCEPT ![t] = @ + 1]
  /\ eventSequence' = Counted(eventSequence)
  /\ UNCHANGED <<channelVars, droppedEvents, wakeVars>>

ReserveSlot(t) ==
  /\ Goto(t, "reserve", "publish")
  /\ Reserve(EventOf(t))
  /\ UNCHANGED <<emits, eventSequence, droppedEvents, wakeVars>>

RefuseSlot(t) ==
  /\ Goto(t, "reserve", "drop")
  /\ Refuse(t)
  /\ UNCHANGED <<emits, eventSequence, droppedEvents, wakeVars>>

CountDrop(t) ==
  /\ Goto(t, "drop", "idle")
  /\ GiveUp(t)
  /\ droppedEvents' = Counted(droppedEvents)
  /\ UNCHANGED <<emits, eventSequence, wakeVars>>

Publish(t) ==
  /\ Goto(t, "publish", "wake")
  /\ \E i \in 1 .. Len(queue) : queue[i].payload = EventOf(t) /\ Fill(i)
  /\ UNCHANGED <<emits, eventSequence, droppedEvents, wakeVars>>

\* Only the thread that raises wakePending signals: one wakeup per batch.
RequestWake(t) ==
  /\ IF wakePending = 0 THEN Goto(t, "wake", "signal")
                        ELSE Goto(t, "wake", "idle")
  /\ wakePending' = 1
  /\ UNCHANGED <<channelVars, emits, eventSequence, droppedEvents, wakeEvent>>

SignalWake(t) ==
  /\ \/ Goto(t, "signal", "idle") /\ wakeEvent' = TRUE
     \/ /\ "SetEventFails" \in Faults
        /\ Goto(t, "signal", "withdraw")
        /\ UNCHANGED wakeEvent
  /\ UNCHANGED <<channelVars, emits, eventSequence, droppedEvents, wakePending>>

WithdrawWake(t) ==
  /\ Goto(t, "withdraw", "idle")
  /\ wakePending' = 0
  /\ UNCHANGED <<channelVars, emits, eventSequence, droppedEvents, wakeEvent>>

EmitStep(t) ==
  \/ ReserveSlot(t) \/ RefuseSlot(t) \/ CountDrop(t) \/ Publish(t)
  \/ RequestWake(t) \/ SignalWake(t) \/ WithdrawWake(t)

HookFrame == UNCHANGED <<target, readerPc, eventsRead, stopping, readerEvent,
                         reportedDropped, queueVars, writerVars, footerVars,
                         mainVars>>

EmitStart(t) == TargetRuns /\ Emit(t) /\ HookFrame
EmitContinue(t) == TargetRuns /\ EmitStep(t) /\ HookFrame

\* External: the target terminates one of its threads inside EmitTraceEvent.
ThreadDies(t) ==
  /\ "ThreadDies" \in Faults
  /\ TargetRuns
  /\ pc[t] \notin {"idle", "dead"}
  /\ pc' = [pc EXCEPT ![t] = "dead"]
  /\ UNCHANGED <<channelVars, emits, eventSequence, droppedEvents, wakeVars>>
  /\ HookFrame

-----------------------------------------------------------------------------
(* ReaderLoop.                                                             *)

HeadReady == queue # <<>> /\ Head(queue).filled

ReaderGoto(from, to) == readerPc = from /\ readerPc' = to
ReaderFrame == UNCHANGED <<target, pc, emits, eventSequence, droppedEvents,
                           footerVars, mainVars>>

\* Seeded fault: the batch bound is tested with <=.
ReadOneTooMany ==
  /\ ReaderGoto("read", "queue")
  /\ eventsRead <= ReadBatch
  /\ Take
  /\ readerEvent' = <<Head(queue).payload>>
  /\ eventsRead' = eventsRead + 1
  /\ UNCHANGED <<stopping, reportedDropped, wakeVars, queueVars, writerVars>>
  /\ ReaderFrame

\* One TryReadRing of the batch that returns an event.
ReadEvent ==
  /\ ReaderGoto("read", "queue")
  /\ eventsRead < ReadBatch
  /\ Take
  /\ readerEvent' = <<Head(queue).payload>>
  /\ eventsRead' = eventsRead + 1
  /\ UNCHANGED <<stopping, reportedDropped, wakeVars, queueVars, writerVars>>
  /\ ReaderFrame

EndBatch ==
  /\ ReaderGoto("read", "report")
  /\ eventsRead = ReadBatch \/ ~HeadReady
  /\ UNCHANGED <<channelVars, eventsRead, stopping, readerEvent,
                 reportedDropped, wakeVars, queueVars, writerVars>>
  /\ ReaderFrame

\* reportDroppedEvents, then the next batch unless this one was empty.
ReportDroppedEvents ==
  /\ readerPc = "report"
  /\ reportedDropped' = IF droppedEvents > reportedDropped
                          THEN droppedEvents ELSE reportedDropped
  /\ readerPc' = IF eventsRead # 0 THEN "read" ELSE "clear"
  /\ eventsRead' = 0
  /\ UNCHANGED <<channelVars, stopping, readerEvent, wakeVars, queueVars,
                 writerVars>>
  /\ ReaderFrame

\* Seeded fault: no second look at the ring after wakePending is cleared.
ClearAndWait ==
  /\ ReaderGoto("clear", IF stopping THEN "finish" ELSE "wait")
  /\ wakePending' = 0
  /\ UNCHANGED <<channelVars, eventsRead, stopping, readerEvent,
                 reportedDropped, wakeEvent, queueVars, writerVars>>
  /\ ReaderFrame

ClearWakePending ==
  /\ ReaderGoto("clear", "race")
  /\ wakePending' = 0
  /\ UNCHANGED <<channelVars, eventsRead, stopping, readerEvent,
                 reportedDropped, wakeEvent, queueVars, writerVars>>
  /\ ReaderFrame

\* An event published between the empty batch and the clear is not missed.
ReadRacedEvent ==
  /\ ReaderGoto("race", "queue")
  /\ Take
  /\ readerEvent' = <<Head(queue).payload>>
  /\ UNCHANGED <<eventsRead, stopping, reportedDropped, wakeVars, queueVars,
                 writerVars>>
  /\ ReaderFrame

FindRingEmpty ==
  /\ readerPc = "race"
  /\ ~HeadReady
  /\ readerPc' = IF stopping THEN "finish" ELSE "wait"
  /\ UNCHANGED <<channelVars, eventsRead, stopping, readerEvent,
                 reportedDropped, wakeVars, queueVars, writerVars>>
  /\ ReaderFrame

\* WaitForMultipleObjects reports the lowest signalled index: wakeEvent_
\* before stopEvent_.
WakeReader ==
  /\ \/ /\ ReaderGoto("wait", "read")
        /\ wakeEvent
        /\ wakeEvent' = FALSE
        /\ UNCHANGED stopping
     \/ /\ ReaderGoto("wait", "read")
        /\ ~wakeEvent /\ stopEvent
        /\ stopping' = TRUE
        /\ UNCHANGED wakeEvent
     \/ /\ "WaitFails" \in Faults
        /\ ReaderGoto("wait", "finish")
        /\ UNCHANGED <<wakeEvent, stopping>>
  /\ UNCHANGED <<channelVars, eventsRead, readerEvent, reportedDropped,
                 wakePending, queueVars, writerVars>>
  /\ ReaderFrame

\* Seeded fault: the queue is taken for full only above its capacity.
QueueOneTooMany ==
  /\ \/ /\ ReaderGoto("queue", "notify")
        /\ Len(eventQueue) <= QueueCapacity
        /\ eventQueue' = eventQueue \o readerEvent
        /\ readerEvent' = <<>>
     \/ /\ ReaderGoto("queue", "waitNotFull")
        /\ Len(eventQueue) > QueueCapacity
        /\ UNCHANGED <<eventQueue, readerEvent>>
  /\ UNCHANGED <<channelVars, eventsRead, stopping, reportedDropped, wakeVars,
                 readerFinished, writerVars>>
  /\ ReaderFrame

\* queueEvent: push, or block on queueNotFull_.
QueueEvent ==
  /\ \/ /\ ReaderGoto("queue", "notify")
        /\ Len(eventQueue) < QueueCapacity
        /\ eventQueue' = eventQueue \o readerEvent
        /\ readerEvent' = <<>>
     \/ /\ ReaderGoto("queue", "waitNotFull")
        /\ Len(eventQueue) >= QueueCapacity
        /\ UNCHANGED <<eventQueue, readerEvent>>
  /\ UNCHANGED <<channelVars, eventsRead, stopping, reportedDropped, wakeVars,
                 readerFinished, writerVars>>
  /\ ReaderFrame

WokenWriter == IF writerPc = "waitNotEmpty" THEN "take" ELSE writerPc

NotifyNotEmpty ==
  /\ ReaderGoto("notify", "read")
  /\ writerPc' = WokenWriter
  /\ UNCHANGED <<channelVars, eventsRead, stopping, readerEvent,
                 reportedDropped, wakeVars, queueVars, writerEvent, rendered>>
  /\ ReaderFrame

FinishReading ==
  /\ ReaderGoto("finish", "notifyAll")
  /\ readerFinished' = TRUE
  /\ UNCHANGED <<channelVars, eventsRead, stopping, readerEvent,
                 reportedDropped, wakeVars, eventQueue, writerVars>>
  /\ ReaderFrame

\* Seeded fault: the writer is not notified that the reader has finished.
FinishUnnotified ==
  /\ ReaderGoto("notifyAll", "done")
  /\ UNCHANGED <<channelVars, eventsRead, stopping, readerEvent,
                 reportedDropped, wakeVars, queueVars, writerVars>>
  /\ ReaderFrame

NotifyFinished ==
  /\ ReaderGoto("notifyAll", "done")
  /\ writerPc' = WokenWriter
  /\ UNCHANGED <<channelVars, eventsRead, stopping, readerEvent,
                 reportedDropped, wakeVars, queueVars, writerEvent, rendered>>
  /\ ReaderFrame

ReaderStep ==
  \/ ReadEvent \/ EndBatch \/ ReportDroppedEvents \/ ClearWakePending
  \/ ReadRacedEvent \/ FindRingEmpty \/ WakeReader \/ QueueEvent
  \/ NotifyNotEmpty \/ FinishReading \/ NotifyFinished

-----------------------------------------------------------------------------
(* WriterLoop.                                                             *)

WriterGoto(from, to) == writerPc = from /\ writerPc' = to
WriterFrame == UNCHANGED <<hookVars, wakeVars, delivered, eventsRead, stopping,
                           readerEvent, reportedDropped, readerFinished,
                           footerPc, mainVars>>

\* Seeded fault: the writer leaves once the reader has finished, whatever is
\* still queued.
TakeUntilFinished ==
  /\ \/ /\ WriterGoto("take", "notify")
        /\ eventQueue # <<>> /\ ~readerFinished
        /\ writerEvent' = <<Head(eventQueue)>>
        /\ eventQueue' = Tail(eventQueue)
     \/ /\ WriterGoto("take", "waitNotEmpty")
        /\ eventQueue = <<>> /\ ~readerFinished
        /\ UNCHANGED <<writerEvent, eventQueue>>
     \/ /\ WriterGoto("take", "done")
        /\ readerFinished
        /\ UNCHANGED <<writerEvent, eventQueue>>
  /\ UNCHANGED <<readerPc, rendered, footerBuilt, statsDropped>>
  /\ WriterFrame

\* Pop the oldest event, block on queueNotEmpty_, or leave the loop.
TakeEvent ==
  /\ \/ /\ WriterGoto("take", "notify")
        /\ eventQueue # <<>>
        /\ writerEvent' = <<Head(eventQueue)>>
        /\ eventQueue' = Tail(eventQueue)
     \/ /\ WriterGoto("take", "waitNotEmpty")
        /\ eventQueue = <<>> /\ ~readerFinished
        /\ UNCHANGED <<writerEvent, eventQueue>>
     \/ /\ WriterGoto("take", "done")
        /\ eventQueue = <<>> /\ readerFinished
        /\ UNCHANGED <<writerEvent, eventQueue>>
  /\ UNCHANGED <<readerPc, rendered, footerBuilt, statsDropped>>
  /\ WriterFrame

\* Seeded fault: the reader waiting for room is not notified.
TakeUnnotified ==
  /\ WriterGoto("notify", "render")
  /\ UNCHANGED <<readerPc, eventQueue, writerEvent, rendered, footerBuilt,
                 statsDropped>>
  /\ WriterFrame

NotifyNotFull ==
  /\ WriterGoto("notify", "render")
  /\ readerPc' = IF readerPc = "waitNotFull" THEN "queue" ELSE readerPc
  /\ UNCHANGED <<eventQueue, writerEvent, rendered, footerBuilt, statsDropped>>
  /\ WriterFrame

\* The handle tracker's calls and RenderEvent; the first footer drawn builds
\* the status line, which reads the ring's drop counter.
RenderEvent ==
  /\ WriterGoto("render", "take")
  /\ rendered' = rendered \o writerEvent
  /\ writerEvent' = <<>>
  /\ footerBuilt' = (footerBuilt \/ FooterEnabled)
  /\ statsDropped' = IF FooterEnabled /\ ~footerBuilt
                       THEN droppedEvents ELSE statsDropped
  /\ UNCHANGED <<readerPc, eventQueue>>
  /\ WriterFrame

WriterStep == TakeEvent \/ NotifyNotFull \/ RenderEvent

\* External: a condition variable may return from its wait unnotified.
SpuriousWakeup ==
  /\ \/ ReaderGoto("waitNotFull", "queue") /\ UNCHANGED writerPc
     \/ WriterGoto("waitNotEmpty", "take") /\ UNCHANGED readerPc
  /\ UNCHANGED <<eventQueue, writerEvent, rendered, footerBuilt, statsDropped>>
  /\ WriterFrame

-----------------------------------------------------------------------------
(* FooterLoop: every 250 ms until stopEvent_ is set.                       *)

FooterGoto(from, to) == footerPc = from /\ footerPc' = to

FooterStep ==
  /\ \/ /\ FooterGoto("wait", "draw")
        /\ ~stopEvent
        /\ UNCHANGED <<footerBuilt, statsDropped>>
     \/ /\ FooterGoto("draw", "wait")
        /\ footerBuilt' = TRUE
        /\ statsDropped' = droppedEvents
     \/ /\ FooterGoto("wait", "done")
        /\ stopEvent
        /\ UNCHANGED <<footerBuilt, statsDropped>>
  /\ UNCHANGED <<hookVars, wakeVars, readerVars, queueVars, writerVars,
                 mainVars>>

-----------------------------------------------------------------------------
(* The controlling thread: Start, then Stop or Drain, possibly repeated.   *)

MainGoto(from, to) == mainPc = from /\ mainPc' = to
MainFrame == UNCHANGED <<channelVars, pc, emits, eventSequence, droppedEvents,
                         wakeVars, eventsRead, stopping, readerEvent,
                         reportedDropped, queueVars, writerEvent, rendered,
                         footerBuilt>>

\* Start maps the ring and starts the threads; only then are hooks installed.
Start ==
  /\ MainGoto("start", "tracing")
  /\ started' = TRUE
  /\ ringMapped' = TRUE
  /\ target' = "running"
  /\ readerPc' = "read" /\ writerPc' = "take"
  /\ footerPc' = IF FooterEnabled THEN "wait" ELSE "done"
  /\ UNCHANGED <<stopEvent, summary, stops, statsDropped>>
  /\ MainFrame

\* Start fails before started_ is set (no stop event, no output file) or after
\* it (no ring); the caller cleans up and calls Stop.
FailStart ==
  /\ "StartFails" \in Faults
  /\ MainGoto("start", "signal")
  /\ started' \in BOOLEAN
  /\ stops' = stops + 1
  /\ UNCHANGED <<target, readerPc, writerPc, footerPc, stopEvent, ringMapped,
                 summary, statsDropped>>
  /\ MainFrame

\* Stop or Drain is called.  The debug loop calls it when
\*   quiesced   no thread is inside a hook and the hooks have been removed,
\*   halted     the target exited or a failed event left it frozen, every
\*              thread wherever it was,
\*   abandoned  the debug loop broke off; the hooks stay and the threads run.
BeginStop ==
  /\ MainGoto("tracing", "signal")
  /\ target' \in Endings
  /\ target' = "quiesced" => \A t \in Producers : pc[t] = "idle"
  /\ stops' = stops + 1
  /\ UNCHANGED <<readerPc, writerPc, footerPc, stopEvent, started, ringMapped,
                 summary, statsDropped>>
  /\ MainFrame

\* EventLoop and the destructor call Stop again.
StopAgain ==
  /\ stops < MaxStops
  /\ MainGoto("stopped", "signal")
  /\ stops' = stops + 1
  /\ UNCHANGED <<target, readerPc, writerPc, footerPc, stopEvent, started,
                 ringMapped, summary, statsDropped>>
  /\ MainFrame

\* Seeded fault: the ring is released before the threads are joined.
SignalStopAndRelease ==
  /\ MainGoto("signal", "joinReader")
  /\ stopEvent' = TRUE
  /\ ringMapped' = FALSE
  /\ UNCHANGED <<target, readerPc, writerPc, footerPc, started,
                 summary, stops, statsDropped>>
  /\ MainFrame

SignalStop ==
  /\ MainGoto("signal", "joinReader")
  /\ stopEvent' = TRUE
  /\ UNCHANGED <<target, readerPc, writerPc, footerPc, started, ringMapped,
                 summary, stops, statsDropped>>
  /\ MainFrame

\* Seeded fault: only the reader is joined.
JoinReaderOnly ==
  /\ \/ MainGoto("joinReader", "joinWriter") /\ readerPc = "done"
     \/ MainGoto("joinWriter", "joinFooter")
     \/ MainGoto("joinFooter", "summary")
  /\ UNCHANGED <<target, readerPc, writerPc, footerPc, stopEvent, started,
                 ringMapped, summary, stops, statsDropped>>
  /\ MainFrame

Join ==
  /\ \/ MainGoto("joinReader", "joinWriter") /\ readerPc = "done"
     \/ MainGoto("joinWriter", "joinFooter") /\ writerPc = "done"
     \/ MainGoto("joinFooter", "summary") /\ footerPc = "done"
  /\ UNCHANGED <<target, readerPc, writerPc, footerPc, stopEvent, started,
                 ringMapped, summary, stops, statsDropped>>
  /\ MainFrame

PrintSummary ==
  /\ MainGoto("summary", "release")
  /\ IF ~started \/ summary # <<>>
       THEN UNCHANGED <<summary, statsDropped>>
       ELSE /\ statsDropped' = IF ringMapped THEN droppedEvents
                                             ELSE statsDropped
            /\ summary' = <<[events |-> Len(rendered),
                             dropped |-> statsDropped']>>
  /\ UNCHANGED <<target, readerPc, writerPc, footerPc, stopEvent, started,
                 ringMapped, stops>>
  /\ MainFrame

ReleaseLocalRing ==
  /\ MainGoto("release", "stopped")
  /\ ringMapped' = FALSE
  /\ UNCHANGED <<target, readerPc, writerPc, footerPc, stopEvent, started,
                 summary, stops, statsDropped>>
  /\ MainFrame

StopStep == SignalStop \/ Join \/ PrintSummary \/ ReleaseLocalRing

-----------------------------------------------------------------------------
SessionNext ==
  \/ \E t \in Producers : EmitStart(t) \/ EmitContinue(t) \/ ThreadDies(t)
  \/ ReaderStep \/ WriterStep \/ SpuriousWakeup \/ FooterStep
  \/ Start \/ FailStart \/ BeginStop \/ StopAgain \/ StopStep

SessionSpec == SessionInit /\ [][SessionNext]_sessionVars

\* The operating system schedules every thread: hook threads while the target
\* runs, the reader, the writer, the footer thread and a Stop in progress.
\* The target need not call a hooked function, and need not end.
SessionFairness ==
  /\ \A t \in Producers : WF_sessionVars(EmitContinue(t))
  /\ WF_sessionVars(ReaderStep)
  /\ WF_sessionVars(WriterStep)
  /\ WF_sessionVars(FooterStep)
  /\ WF_sessionVars(StopStep)

FairSessionSpec == SessionSpec /\ SessionFairness

-----------------------------------------------------------------------------
(* Properties.                                                             *)

EventsSent == Producers \X (1 .. MaxEmits)
AtMostOne(S) == {<<>>} \cup {<<e>> : e \in S}
Longs == 0 .. (LongModulus - 1)

\* Every variable keeps its type; no batch of ReaderLoop exceeds
\* TRACE_RING_READ_BATCH.
SessionTypeOK ==
  /\ target \in {"unhooked", "running"} \cup EndingKinds
  /\ pc \in [Producers -> {"idle", "reserve", "drop", "publish", "wake",
                           "signal", "withdraw", "dead"}]
  /\ emits \in [Producers -> 0 .. MaxEmits]
  /\ queue \in Seq([payload : EventsSent, filled : BOOLEAN])
  /\ refused \subseteq Producers
  /\ delivered \in Seq(EventsSent) /\ rendered \in Seq(EventsSent)
  /\ eventSequence \in Longs /\ droppedEvents \in Longs
  /\ reportedDropped \in Longs /\ statsDropped \in Longs
  /\ wakePending \in {0, 1}
  /\ wakeEvent \in BOOLEAN /\ stopEvent \in BOOLEAN /\ stopping \in BOOLEAN
  /\ readerFinished \in BOOLEAN /\ footerBuilt \in BOOLEAN
  /\ started \in BOOLEAN /\ ringMapped \in BOOLEAN
  /\ readerPc \in {"read", "report", "clear", "race", "wait", "queue",
                   "waitNotFull", "notify", "finish", "notifyAll", "done"}
  /\ eventsRead \in 0 .. ReadBatch
  /\ readerEvent \in AtMostOne(EventsSent) /\ writerEvent \in AtMostOne(EventsSent)
  /\ eventQueue \in Seq(EventsSent)
  /\ writerPc \in {"take", "waitNotEmpty", "notify", "render", "done"}
  /\ footerPc \in {"wait", "draw", "done"}
  /\ mainPc \in {"start", "tracing", "signal", "joinReader", "joinWriter",
                 "joinFooter", "summary", "release", "stopped"}
  /\ summary \in Seq([events : Nat, dropped : Longs]) /\ Len(summary) <= 1
  /\ stops \in 0 .. MaxStops

\* Between the ring and the output no event is lost, repeated or overtaken:
\* what has been rendered, what the writer holds, eventQueue_ and what the
\* reader holds together are exactly the events TryReadRing returned, and
\* eventQueue_ never exceeds its capacity.
PipelineOrder ==
  /\ rendered \o writerEvent \o eventQueue \o readerEvent = delivered
  /\ Len(eventQueue) <= QueueCapacity

\* The reader never sleeps on a readable event: while it is in
\* WaitForMultipleObjects and the oldest slot is published, the wake event is
\* set or a hook thread is committed to setting it.  Holds while SetEvent
\* succeeds and no thread dies inside EmitTraceEvent.
NoLostWakeup ==
  readerPc = "wait" /\ HeadReady /\ TargetRuns =>
    \/ wakeEvent
    \/ \E t \in Producers : \/ pc[t] = "signal"
                            \/ pc[t] = "wake" /\ wakePending = 0

CleanlyStopped == target = "quiesced" /\ stopping /\ summary # <<>>

SummaryComplete ==
  /\ queue = <<>>
  /\ rendered = delivered
  /\ eventSequence = (summary[1].events + summary[1].dropped) % LongModulus

\* When Stop follows a clean removal of the hooks, the summary it prints is
\* complete: every sequence number given out by EmitTraceEvent was rendered
\* or is counted as dropped, and ReaderLoop has reported all drops (below the
\* wrap of its 32-bit counters), unless a failed wait ended ReaderLoop before
\* the stop.  SetEvent may have failed, and Stop may be called again.
CleanStopComplete ==
  CleanlyStopped => SummaryComplete /\ reportedDropped = droppedEvents

\* ReleaseLocalRing unmaps the ring and closes the wake event only when no
\* thread of the session can touch them any more, however Stop and Drain are
\* repeated.
RingOutlivesThreads ==
  ~ringMapped => readerPc = "done" /\ writerPc = "done" /\ footerPc = "done"

\* Stop is called up to three times for one session (CleanupRemote, the end
\* of EventLoop, the destructor); once printed, the summary is final and
\* nothing is rendered after it.
SummaryFinal ==
  [][summary # <<>> => UNCHANGED <<summary, rendered>>]_sessionVars

\* While the target keeps running, the output keeps catching up with the ring:
\* every event a hook thread has put into it is eventually rendered, without
\* needing a later event to wake the reader, and reader and writer never wait
\* for each other.  (Emissions are bounded, so catching up again and again
\* means that each event is rendered.)
EventsRendered ==
  target = "running"
    ~> (target # "running" \/ (rendered = delivered /\ queue = <<>>))

\* Stop and Drain return: all three threads leave their loops, whatever they
\* were waiting for when stopEvent_ was set.
StopReturns == mainPc = "signal" ~> mainPc = "stopped"

\* README.md, sequence diagram, branch "Target exits": "Drain queued events".
\* After Drain has returned, no published event is left behind in the ring.
ExitDrainsRing ==
  target = "halted" /\ mainPc = "stopped" =>
    \A i \in 1 .. Len(queue) : ~queue[i].filled
=============================================================================
