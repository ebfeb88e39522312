------------------------------ MODULE TraceRing ------------------------------
(***************************************************************************)
(* The shared-memory trace ring: a bounded multi-producer, single-consumer *)
(* queue with one sequence number per slot.  Hook threads of the target    *)
(* run EmitTraceEvent (src/apiscope-hooks/trace_transport.cpp), the        *)
(* controller's reader thread runs TryReadRing                             *)
(* (src/apiscope/trace_session.cpp).                                       *)
(*                                                                         *)
(* Every interlocked operation is one step.  The plain memory copies of an *)
(* event take two steps each, one per half, so that a copy overlapping     *)
(* another copy of the same slot leaves a torn event behind.               *)
(***************************************************************************)
EXTENDS Integers, Sequences, FiniteSets

CONSTANTS
  Threads,        \* hook threads of the target
  Capacity,       \* TRACE_RING_CAPACITY
  LongModulus,    \* the LONG counters wrap at this value (2^32 in the code)
  MaxEmits,       \* bound: EmitTraceEvent calls made by one thread
  Faults,         \* failures the environment may inject
  NoEvent         \* contents of a slot nobody has written yet

FaultKinds == {"SetEventFails", "WaitFails", "ThreadDies"}

\* `position & (TRACE_RING_CAPACITY - 1)` is `position % Capacity` because the
\* capacity is a power of two (static_assert in trace_ring.h).  Capacity 1 is
\* excluded: "published by position p" and "free for position p + 1" would be
\* the same sequence number.
ASSUME RingAssumption ==
  /\ Capacity \in Nat \ {0, 1}
  /\ \E k \in 1..Capacity : Capacity = 2^k
  /\ LongModulus \in Nat \ {0}
  /\ MaxEmits \in Nat
  /\ Faults \subseteq FaultKinds

VARIABLES
  enqueuePosition,  \* TraceRing::enqueuePosition
  dequeuePosition,  \* TraceRing::dequeuePosition, written by the reader only
  slotSequence,     \* TraceRing::slots[i].sequence
  slotEvent,        \* TraceRing::slots[i].event, as <<first half, second half>>
  eventSequence,    \* TraceRing::eventSequence
  droppedEvents,    \* TraceRing::droppedEvents
  wakePending,      \* TraceRing::wakePending
  wakeEvent,        \* the auto-reset event behind TransportWakeEvent
  pc,               \* where each hook thread is inside EmitTraceEvent
  event,            \* its argument `event`
  position,         \* its local `position`
  emits,            \* EmitTraceEvent calls it has made
  readPc,           \* where the reader is inside TryReadRing
  readEvent,        \* TryReadRing's output buffer
  claimed,          \* history: the event claimed at each position, in order
  received          \* history: the events TryReadRing has returned, in order

memVars == <<enqueuePosition, slotSequence, slotEvent, eventSequence,
             droppedEvents, claimed>>
wakeVars == <<wakePending, wakeEvent>>
threadVars == <<pc, event, position, emits>>
readVars == <<dequeuePosition, readPc, readEvent, received>>
ringVars == <<memVars, wakeVars, threadVars, readVars>>

Slots == 0 .. (Capacity - 1)
SlotOf(pos) == pos % Capacity

Events == [thread : Threads, call : 1 .. MaxEmits,
           sequence : 0 .. (LongModulus - 1)]
SlotContents == Events \cup {NoEvent}

EmitPcs == {"idle", "load", "check", "drop", "claim", "copyFirst",
            "copySecond", "publish", "wake", "signal", "withdraw", "dead"}
ReadPcs == {"idle", "copyFirst", "copySecond", "release", "advance"}

\* CreateSharedRing: the section is zeroed, slot i starts with sequence i.
RingInit ==
  /\ enqueuePosition = 0
  /\ dequeuePosition = 0
  /\ slotSequence = [i \in Slots |-> i]
  /\ slotEvent = [i \in Slots |-> <<NoEvent, NoEvent>>]
  /\ eventSequence = 0
  /\ droppedEvents = 0
  /\ wakePending = 0
  /\ wakeEvent = FALSE
  /\ pc = [t \in Threads |-> "idle"]
  /\ event = [t \in Threads |-> NoEvent]
  /\ position = [t \in Threads |-> 0]
  /\ emits = [t \in Threads |-> 0]
  /\ readPc = "idle"
  /\ readEvent = <<NoEvent, NoEvent>>
  /\ claimed = <<>>
  /\ received = <<>>

-----------------------------------------------------------------------------
(* EmitTraceEvent, run by hook thread t.                                   *)

Goto(t, from, to) == pc[t] = from /\ pc' = [pc EXCEPT ![t] = to]

\* The event passed the header checks and gets the next sequence number.
Emit(t) ==
  /\ emits[t] < MaxEmits
  /\ Goto(t, "idle", "load")
  /\ emits' = [emits EXCEPT ![t] = @ + 1]
  /\ eventSequence' = (eventSequence + 1) % LongModulus
  /\ event' = [event EXCEPT ![t] = [thread |-> t, call |-> emits[t] + 1,
                                    sequence |-> eventSequence']]
  /\ UNCHANGED <<enqueuePosition, slotSequence, slotEvent, droppedEvents,
                 claimed, position, wakeVars, readVars>>

LoadPosition(t) ==
  /\ Goto(t, "load", "check")
  /\ position' = [position EXCEPT ![t] = enqueuePosition]
  /\ UNCHANGED <<memVars, wakeVars, event, emits, readVars>>

\* Seeded fault: a stale position is taken for a full ring.
StaleMeansFull(t) ==
  LET difference == slotSequence[SlotOf(position[t])] - position[t]
  IN  /\ \/ difference # 0 /\ Goto(t, "check", "drop")
         \/ difference = 0 /\ Goto(t, "check", "claim")
      /\ UNCHANGED <<memVars, wakeVars, event, position, emits, readVars>>

\* Seeded fault: a full ring is retried instead of dropping the event.
FullMeansRetry(t) ==
  LET difference == slotSequence[SlotOf(position[t])] - position[t]
  IN  /\ \/ difference # 0 /\ Goto(t, "check", "load")
         \/ difference = 0 /\ Goto(t, "check", "claim")
      /\ UNCHANGED <<memVars, wakeVars, event, position, emits, readVars>>

\* difference < 0: full, drop; = 0: try to claim; > 0: stale position, retry.
CheckSlot(t) ==
  LET difference == slotSequence[SlotOf(position[t])] - position[t]
  IN  /\ \/ difference < 0 /\ Goto(t, "check", "drop")
         \/ difference = 0 /\ Goto(t, "check", "claim")
         \/ difference > 0 /\ Goto(t, "check", "load")
      /\ UNCHANGED <<memVars, wakeVars, event, position, emits, readVars>>

\* Seeded fault: the drop is not counted.
DropUncounted(t) ==
  /\ Goto(t, "drop", "idle")
  /\ UNCHANGED <<memVars, event, position, emits, wakeVars, readVars>>

CountDrop(t) ==
  /\ Goto(t, "drop", "idle")
  /\ droppedEvents' = (droppedEvents + 1) % LongModulus
  /\ UNCHANGED <<enqueuePosition, slotSequence, slotEvent, eventSequence,
                 claimed, event, position, emits, wakeVars, readVars>>

\* Seeded fault: enqueuePosition is stored without the compare.
ClaimUncompared(t) ==
  /\ Goto(t, "claim", "copyFirst")
  /\ enqueuePosition' = position[t] + 1
  /\ claimed' = Append(claimed, event[t])
  /\ UNCHANGED <<slotSequence, slotEvent, eventSequence, droppedEvents,
                 event, position, emits, wakeVars, readVars>>

\* The compare-exchange on enqueuePosition.
ClaimSlot(t) ==
  /\ \/ /\ enqueuePosition = position[t]
        /\ Goto(t, "claim", "copyFirst")
        /\ enqueuePosition' = position[t] + 1
        /\ claimed' = Append(claimed, event[t])
     \/ /\ enqueuePosition # position[t]
        /\ Goto(t, "claim", "load")
        /\ UNCHANGED <<enqueuePosition, claimed>>
  /\ UNCHANGED <<slotSequence, slotEvent, eventSequence, droppedEvents,
                 event, position, emits, wakeVars, readVars>>

CopyIn(t, half, from, to) ==
  /\ Goto(t, from, to)
  /\ slotEvent' = [slotEvent EXCEPT ![SlotOf(position[t])][half] = event[t]]
  /\ UNCHANGED <<enqueuePosition, slotSequence, eventSequence, droppedEvents,
                 claimed, event, position, emits, wakeVars, readVars>>

\* Seeded fault: the slot is published before the event is copied in.
PublishBeforeCopy(t) ==
  /\ Goto(t, "copyFirst", "copySecond")
  /\ slotEvent' = [slotEvent EXCEPT ![SlotOf(position[t])][1] = event[t]]
  /\ slotSequence' = [slotSequence EXCEPT
                        ![SlotOf(position[t])] = position[t] + 1]
  /\ UNCHANGED <<enqueuePosition, eventSequence, droppedEvents,
                 claimed, event, position, emits, wakeVars, readVars>>

CopyInFirst(t) == CopyIn(t, 1, "copyFirst", "copySecond")
CopyInSecond(t) == CopyIn(t, 2, "copySecond", "publish")

Publish(t) ==
  /\ Goto(t, "publish", "wake")
  /\ slotSequence' = [slotSequence EXCEPT
                        ![SlotOf(position[t])] = position[t] + 1]
  /\ UNCHANGED <<enqueuePosition, slotEvent, eventSequence, droppedEvents,
                 claimed, event, position, emits, wakeVars, readVars>>

\* Only the thread that raises wakePending signals: one wakeup per batch.
RequestWake(t) ==
  /\ IF wakePending = 0 THEN Goto(t, "wake", "signal")
                        ELSE Goto(t, "wake", "idle")
  /\ wakePending' = 1
  /\ UNCHANGED <<wakeEvent, memVars, event, position, emits, readVars>>

\* NtSetEvent through the unpatched bypass; a failure is withdrawn.
SignalWake(t) ==
  /\ \/ Goto(t, "signal", "idle") /\ wakeEvent' = TRUE
     \/ /\ "SetEventFails" \in Faults
        /\ Goto(t, "signal", "withdraw")
        /\ UNCHANGED wakeEvent
  /\ UNCHANGED <<wakePending, memVars, event, position, emits, readVars>>

WithdrawWake(t) ==
  /\ Goto(t, "withdraw", "idle")
  /\ wakePending' = 0
  /\ UNCHANGED <<wakeEvent, memVars, event, position, emits, readVars>>

EmitStep(t) ==
  \/ LoadPosition(t) \/ CheckSlot(t) \/ CountDrop(t) \/ ClaimSlot(t)
  \/ CopyInFirst(t) \/ CopyInSecond(t) \/ Publish(t)
  \/ RequestWake(t) \/ SignalWake(t) \/ WithdrawWake(t)

\* External: the target terminates one of its own threads inside
\* EmitTraceEvent.
ThreadDies(t) ==
  /\ "ThreadDies" \in Faults
  /\ pc[t] \notin {"idle", "dead"}
  /\ pc' = [pc EXCEPT ![t] = "dead"]
  /\ UNCHANGED <<memVars, wakeVars, event, position, emits, readVars>>

-----------------------------------------------------------------------------
(* TryReadRing, run by the single reader.                                  *)

Published(pos) == slotSequence[SlotOf(pos)] = pos + 1

ReadGoto(from, to) == readPc = from /\ readPc' = to

\* Seeded fault: the reader goes by enqueuePosition, not by the slot sequence.
ReadClaimed ==
  /\ dequeuePosition < enqueuePosition
  /\ ReadGoto("idle", "copyFirst")
  /\ UNCHANGED <<memVars, wakeVars, threadVars, dequeuePosition, readEvent,
                 received>>

\* TryReadRing returns false, without a state change, unless Published holds.
BeginRead ==
  /\ Published(dequeuePosition)
  /\ ReadGoto("idle", "copyFirst")
  /\ UNCHANGED <<memVars, wakeVars, threadVars, dequeuePosition, readEvent,
                 received>>

CopyOut(half, from, to) ==
  /\ ReadGoto(from, to)
  /\ readEvent' = [readEvent EXCEPT
                     ![half] = slotEvent[SlotOf(dequeuePosition)][half]]
  /\ UNCHANGED <<memVars, wakeVars, threadVars, dequeuePosition, received>>
CopyOutFirst == CopyOut(1, "copyFirst", "copySecond")
CopyOutSecond == CopyOut(2, "copySecond", "release")

\* Seeded fault: the released slot's sequence is one too high.
ReleaseOffByOne ==
  /\ ReadGoto("release", "advance")
  /\ slotSequence' = [slotSequence EXCEPT
                        ![SlotOf(dequeuePosition)] = dequeuePosition + Capacity + 1]
  /\ received' = Append(received, readEvent)
  /\ UNCHANGED <<enqueuePosition, slotEvent, eventSequence, droppedEvents,
                 claimed, wakeVars, threadVars, dequeuePosition, readEvent>>

\* Hands the slot to the producer of the next lap.
ReleaseSlot ==
  /\ ReadGoto("release", "advance")
  /\ slotSequence' = [slotSequence EXCEPT
                        ![SlotOf(dequeuePosition)] = dequeuePosition + Capacity]
  /\ received' = Append(received, readEvent)
  /\ UNCHANGED <<enqueuePosition, slotEvent, eventSequence, droppedEvents,
                 claimed, wakeVars, threadVars, dequeuePosition, readEvent>>

AdvanceDequeue ==
  /\ ReadGoto("advance", "idle")
  /\ dequeuePosition' = dequeuePosition + 1
  /\ UNCHANGED <<memVars, wakeVars, threadVars, readEvent, received>>

\* The reader's side of the wakeup: it clears wakePending when the ring looks
\* empty, and waiting on the auto-reset event consumes the signal.
ClearWakePending ==
  /\ wakePending' = 0
  /\ UNCHANGED <<wakeEvent, memVars, threadVars, readVars>>

ConsumeWake ==
  /\ wakeEvent
  /\ wakeEvent' = FALSE
  /\ UNCHANGED <<wakePending, memVars, threadVars, readVars>>

ReadStep ==
  \/ BeginRead \/ CopyOutFirst \/ CopyOutSecond
  \/ ReleaseSlot \/ AdvanceDequeue

-----------------------------------------------------------------------------
RingNext ==
  \/ \E t \in Threads : Emit(t) \/ EmitStep(t) \/ ThreadDies(t)
  \/ ReadStep \/ ClearWakePending \/ ConsumeWake

RingSpec == RingInit /\ [][RingNext]_ringVars

\* A thread inside EmitTraceEvent finishes its steps without waiting for
\* anybody: only the threads are scheduled fairly here, the reader is not.
EmitFairness == \A t \in Threads : WF_ringVars(EmitStep(t))
FairRingSpec == RingSpec /\ EmitFairness
-----------------------------------------------------------------------------
(* Properties.                                                             *)

\* The shared memory, the threads and the reader keep their types; the LONG
\* counters stay within their width and wakePending stays a flag although
\* threads and reader store to it without order.
TypeOK ==
  /\ enqueuePosition \in Nat
  /\ dequeuePosition \in Nat
  /\ slotSequence \in [Slots -> Nat]
  /\ slotEvent \in [Slots -> SlotContents \X SlotContents]
  /\ eventSequence \in 0 .. (LongModulus - 1)
  /\ droppedEvents \in 0 .. (LongModulus - 1)
  /\ wakePending \in {0, 1}
  /\ wakeEvent \in BOOLEAN
  /\ pc \in [Threads -> EmitPcs]
  /\ event \in [Threads -> SlotContents]
  /\ position \in [Threads -> Nat]
  /\ emits \in [Threads -> 0 .. MaxEmits]
  /\ readPc \in ReadPcs
  /\ readEvent \in SlotContents \X SlotContents
  /\ claimed \in Seq(SlotContents)
  /\ received \in Seq(SlotContents \X SlotContents)

Whole(e) == <<e, e>>

\* What TryReadRing returns is exactly what the hook threads put into the
\* slots they claimed: in claim order, no event lost, repeated or mixed from
\* two events, however the copies into and out of the slots interleave.
InOrderDelivery ==
  /\ Len(received) <= Len(claimed)
  /\ \A i \in 1 .. Len(received) : received[i] = Whole(claimed[i])

Writing(t) == pc[t] \in {"copyFirst", "copySecond", "publish"}
Reading == readPc \in {"copyFirst", "copySecond", "release"}

\* No two threads copy into the same slot at once, and the reader never copies
\* out of a slot that a thread is copying into (the slot sequence is the only
\* lock EmitTraceEvent and TryReadRing have).
SlotExclusion ==
  /\ \A t, u \in Threads :
       t # u /\ Writing(t) /\ Writing(u)
         => SlotOf(position[t]) # SlotOf(position[u])
  /\ \A t \in Threads :
       Writing(t) /\ Reading
         => SlotOf(position[t]) # SlotOf(dequeuePosition)

\* EmitTraceEvent decides to drop an event only while every slot holds an
\* event the reader has not released, even when the position it compares
\* with the slot sequence is out of date.
DropOnlyWhenFull ==
  [][\A t \in Threads :
        pc[t] = "check" /\ pc'[t] = "drop"
          => enqueuePosition - Len(received) >= Capacity]_ringVars

\* Threads between taking a sequence number and claiming or dropping.
InFlight == {t \in Threads : pc[t] \in {"load", "check", "claim", "drop"}}

\* Every sequence number ever given out belongs to an event that was put in
\* the ring, counted in droppedEvents, still being placed, or was lost with a
\* thread terminated on the way: while no thread is, a gap in the sequence
\* numbers of the output is always a counted drop.  The counters wrap, so the
\* balance is taken modulo their width.
EveryEventAccounted ==
  \E lost \in 0 .. Cardinality({t \in Threads : pc[t] = "dead"}) :
    eventSequence =
      (enqueuePosition + droppedEvents + Cardinality(InFlight) + lost)
        % LongModulus

-----------------------------------------------------------------------------
(* The inductive invariant behind the safety properties.                   *)

Delivered == Len(received)

\* The positions delivered, then the ones claimed, at most one lap ahead.
PositionsInv ==
  /\ Len(claimed) = enqueuePosition
  /\ dequeuePosition = (IF readPc = "advance" THEN Delivered - 1
                                             ELSE Delivered)
  /\ Delivered <= enqueuePosition
  /\ enqueuePosition <= Delivered + Capacity

\* The slot sequence tells in which state the slot of a position is: claimed,
\* published (and then it holds the whole event) or free.
SlotsInv ==
  /\ \A q \in Delivered .. (enqueuePosition - 1) :
       /\ slotSequence[SlotOf(q)] \in {q, q + 1}
       /\ slotSequence[SlotOf(q)] = q + 1
            => slotEvent[SlotOf(q)] = Whole(claimed[q + 1])
  /\ \A q \in enqueuePosition .. (Delivered + Capacity - 1) :
       slotSequence[SlotOf(q)] = q

\* A thread that writes owns a claimed position nobody else writes, and what
\* it has copied so far is still in the slot.
WritersInv ==
  /\ \A t \in Threads : Writing(t) =>
       /\ position[t] \in Delivered .. (enqueuePosition - 1)
       /\ slotSequence[SlotOf(position[t])] = position[t]
       /\ claimed[position[t] + 1] = event[t]
       /\ pc[t] # "copyFirst" => slotEvent[SlotOf(position[t])][1] = event[t]
       /\ pc[t] = "publish" => slotEvent[SlotOf(position[t])][2] = event[t]
  /\ \A t, u \in Threads :
       t # u /\ Writing(t) /\ Writing(u) => position[t] # position[u]

ReaderInv ==
  /\ Reading =>
       /\ Delivered < enqueuePosition
       /\ slotSequence[SlotOf(Delivered)] = Delivered + 1
       /\ readPc # "copyFirst" => readEvent[1] = claimed[Delivered + 1]
       /\ readPc = "release" => readEvent[2] = claimed[Delivered + 1]
  /\ readPc = "advance" => Delivered > 0

\* A thread on its way to a slot holds an event; the position it read may be
\* stale but never lies ahead, and the slot seen free for it stays free until
\* the compare-exchange.
CandidatesInv ==
  \A t \in Threads :
    /\ pc[t] \in {"load", "check", "claim"} => event[t] \in Events
    /\ pc[t] \in {"check", "claim"} => position[t] <= enqueuePosition
    /\ pc[t] = "claim" /\ position[t] = enqueuePosition
         => enqueuePosition < Delivered + Capacity

\* The parts together: what EmitTraceEvent and TryReadRing may rely on between
\* any two of their atomic operations.
RingInv ==
  /\ TypeOK /\ PositionsInv /\ SlotsInv
  /\ WritersInv /\ ReaderInv /\ CandidatesInv
  /\ InOrderDelivery

-----------------------------------------------------------------------------
(* The ring implements the abstract channel.                               *)

\* The undelivered claimed positions are the reserved places; a place is
\* filled when its slot has been published.
Channel == INSTANCE TraceChannel WITH
  Producers <- Threads,
  Payloads <- {Whole(e) : e \in Events},
  Places <- Capacity,
  queue <- [i \in 1 .. (enqueuePosition - Delivered) |->
              [payload |-> Whole(claimed[Delivered + i]),
               filled |-> Published(Delivered + i - 1)]],
  refused <- {t \in Threads : pc[t] = "drop"},
  delivered <- received

\* Seen from outside, EmitTraceEvent and TryReadRing are a bounded queue: the
\* claim reserves a place, the store of the slot sequence fills it, the
\* reader's release takes the oldest filled place, and an event is dropped
\* only by a thread that found all places taken.
ImplementsChannel == Channel!ChannelSpec

-----------------------------------------------------------------------------
(* Liveness.                                                               *)

\* A hook thread that entered EmitTraceEvent leaves it again, unless it is
\* terminated, although nothing is assumed about the reader or about threads
\* terminated in the middle: producers never wait for the reader.
EmitFinishes ==
  \A t \in Threads : pc[t] # "idle" ~> pc[t] \in {"idle", "dead"}
=============================================================================
