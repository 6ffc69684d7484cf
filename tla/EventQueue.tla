----------------------------- MODULE EventQueue -----------------------------
(***************************************************************************)
(* The queue between SSEEventSink.emit and one subscriber's stream         *)
(* (core/events.py), as operators.  A durable event has a sequence number; *)
(* an ephemeral one, and the gap marker, has none (0 here).                *)
(***************************************************************************)
EXTENDS SequencesExt

CONSTANT MaxQueueSize

ASSUME QueueAssumption == MaxQueueSize \in Nat \ {0}

Gap   == [kind |-> "_gap", seq |-> 0, turn |-> 0]
Chunk == [kind |-> "agent_chunk", seq |-> 0, turn |-> 0]

\* _is_durable_event
Durable(e) == e.seq # 0

Ephemerals(q) == {i \in DOMAIN q : ~Durable(q[i])}

First(S) == CHOOSE i \in S : \A j \in S : i <= j

\* put_nowait until QueueFull
Fitting(q) == SubSeq(q, 1, IF Len(q) < MaxQueueSize THEN Len(q) ELSE MaxQueueSize)

\* Bug: the overflow branch forgets to make room.
BugEnqueue(q, e) ==
  IF Len(q) < MaxQueueSize \/ Durable(e) THEN Append(q, e) ELSE q

\* _enqueue_with_durable_preference: in a full queue the first ephemeral event
\* gives way; if there is none, an ephemeral newcomer is dropped and a durable
\* one replaces the two oldest, behind a gap marker.
Enqueue(q, e) ==
  IF Len(q) < MaxQueueSize THEN Append(q, e)
  ELSE IF Ephemerals(q) # {} THEN Append(RemoveAt(q, First(Ephemerals(q))), e)
  ELSE IF Durable(e) THEN Fitting(SubSeq(q, 3, Len(q)) \o <<Gap, e>>)
  ELSE q

=============================================================================
