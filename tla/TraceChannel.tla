---------------------------- MODULE TraceChannel ----------------------------
(***************************************************************************)
(* What the trace ring promises to its users, without slots, sequence      *)
(* numbers or copies: a bounded queue of places.  A producer reserves a    *)
(* place, fills it later, and the consumer takes the oldest place once it  *)
(* is filled.  A producer is turned away only while all places are taken.  *)
(***************************************************************************)
EXTENDS Naturals, Sequences

CONSTANTS
  Producers,   \* hook threads
  Payloads,    \* events that may be sent
  Places       \* capacity

VARIABLES
  queue,       \* the reserved places, oldest first
  refused,     \* producers turned away that have not given up yet
  delivered    \* the payloads the consumer got, in order

channelVars == <<queue, refused, delivered>>

ChannelInit ==
  /\ queue = <<>>
  /\ refused = {}
  /\ delivered = <<>>

Reserve(e) ==
  /\ Len(queue) < Places
  /\ queue' = Append(queue, [payload |-> e, filled |-> FALSE])
  /\ UNCHANGED <<refused, delivered>>

Fill(i) ==
  /\ ~queue[i].filled
  /\ queue' = [queue EXCEPT ![i].filled = TRUE]
  /\ UNCHANGED <<refused, delivered>>

Take ==
  /\ queue # <<>>
  /\ Head(queue).filled
  /\ queue' = Tail(queue)
  /\ delivered' = Append(delivered, Head(queue).payload)
  /\ UNCHANGED refused

Refuse(p) ==
  /\ Len(queue) = Places
  /\ p \notin refused
  /\ refused' = refused \cup {p}
  /\ UNCHANGED <<queue, delivered>>

GiveUp(p) ==
  /\ p \in refused
  /\ refused' = refused \ {p}
  /\ UNCHANGED <<queue, delivered>>

ChannelNext ==
  \/ \E e \in Payloads : Reserve(e)
  \/ \E i \in 1 .. Len(queue) : Fill(i)
  \/ Take
  \/ \E p \in Producers : Refuse(p) \/ GiveUp(p)

ChannelSpec == ChannelInit /\ [][ChannelNext]_channelVars
=============================================================================
