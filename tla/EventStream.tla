----------------------------- MODULE EventStream -----------------------------
(***************************************************************************)
(* From a turn's durable events to the clients that follow them:           *)
(* publish_durable_event (core/events.py) saves an event and then emits it *)
(* to the subscribers' queues; stream_events (host/router.py) subscribes,  *)
(* replays what the store has after the client's Last-Event-ID, and then   *)
(* follows its queue; a client reconnects with the last id it received.    *)
(*                                                                         *)
(* The save is the window: an event is stored (Land) before the turn is    *)
(* resumed and emits it (Emit), and subscribing, the two reads of the      *)
(* replay and every event sent are steps of their own.                     *)
(***************************************************************************)
EXTENDS EventQueue

CONSTANTS Clients,    \* the clients that follow the conversation
          CancelAt,   \* where a turn may be cancelled: "idle", "saving", "stored"
          MaxEvents,  \* bound: durable events of the conversation
          MaxTurns,   \* bound: turns
          MaxChunks,  \* bound: ephemeral events
          MaxDrops,   \* bound: connections lost or timed out
          MaxFaults,  \* bound: saves that raise
          MaxCrashes  \* bound: restarts of the process

\* A second failed save is TurnLifecycle's matter.
ASSUME FaultsAssumption == MaxFaults \in {0, 1}
ASSUME EventsAssumption == MaxEvents \in Nat

VARIABLES stored,   \* the document's _durable_events
          mem,      \* the running turn's _durable_events, <<>> without a turn
          publish,  \* where the turn is: "none", or in publish_durable_event
          turn,     \* the number of turns started
          queue,    \* queue[c]: the connection's subscription
          conn,     \* conn[c]: the connection's variables
          got,      \* got[c]: the durable events c received, over all connections
          silent,   \* the numbers of events whose turn did not get to emit them
          lost,     \* lost[c]: the numbers of events that c's full queue gave up
          chunks, drops, faults, crashes

log    == <<stored, mem, publish, turn>>
bounds == <<chunks, drops, faults, crashes>>
holes  == <<silent, lost>>
vars   == <<log, queue, conn, got, holes, bounds>>

Kinds  == {"message", "completed", "error"}
Events == [kind: Kinds, seq: 1 .. MaxEvents, turn: Nat]

\* A snapshot stands for the events up to its number.
Snapshot(n, done) == [kind |-> IF done THEN "resting" ELSE "state", seq |-> n, turn |-> 0]
Snapshots == {Snapshot(n, d) : n \in 1 .. MaxEvents, d \in BOOLEAN}

Stages == {"off", "loading", "listing", "replaying", "live"}
Off == [stage |-> "off", last |-> 0, replay |-> <<>>, terminal |-> FALSE, loaded |-> 0]

TypeOK ==
  /\ stored \in Seq(Events) /\ mem \in Seq(Events)
  /\ publish \in {"none", "idle", "saving", "stored", "failed"}
  /\ turn \in Nat
  /\ \A c \in Clients :
       /\ queue[c] \in Seq(Events \cup {Gap, Chunk})
       /\ Len(queue[c]) <= MaxQueueSize
       /\ conn[c] \in [stage: Stages, last: 0 .. MaxEvents,
                       replay: Seq(Events \cup Snapshots),
                       terminal: BOOLEAN, loaded: 0 .. MaxEvents]
       /\ got[c] \in Seq(Events \cup Snapshots)
       /\ lost[c] \subseteq 1 .. MaxEvents
  /\ silent \subseteq 1 .. MaxEvents

Init ==
  /\ stored = <<>> /\ mem = <<>> /\ publish = "none" /\ turn = 0
  /\ queue = [c \in Clients |-> <<>>]
  /\ conn = [c \in Clients |-> Off]
  /\ got = [c \in Clients |-> <<>>]
  /\ silent = {} /\ lost = [c \in Clients |-> {}]
  /\ chunks = 0 /\ drops = 0 /\ faults = 0 /\ crashes = 0

-----------------------------------------------------------------------------
(* The turn *)

Subscribed(c) == conn[c].stage # "off"

Numbers(q) == {q[i].seq : i \in DOMAIN q} \ {0}

\* SSEEventSink.emit
Emit(e) ==
  /\ queue' = [c \in Clients |-> IF Subscribed(c) THEN Enqueue(queue[c], e)
                                 ELSE queue[c]]
  /\ lost' = [c \in Clients |->
       IF Subscribed(c) THEN lost[c] \cup (Numbers(Append(queue[c], e)) \ Numbers(queue'[c]))
       ELSE lost[c]]

StartTurn ==
  /\ publish = "none" /\ Len(stored) < MaxEvents /\ turn < MaxTurns
  /\ mem' = stored /\ publish' = "idle" /\ turn' = turn + 1
  /\ UNCHANGED <<stored, queue, conn, got, holes, bounds>>

\* The event is numbered and appended in memory; then the save.
Publish ==
  /\ \/ publish = "idle" /\ Len(mem) < MaxEvents
     \/ publish = "failed"
  /\ \E k \in IF publish = "failed" THEN {"error"} ELSE Kinds :
       mem' = Append(mem, [kind |-> k, seq |-> Len(mem) + 1, turn |-> turn])
  /\ publish' = "saving"
  /\ UNCHANGED <<stored, turn, queue, conn, got, holes, bounds>>

Land ==
  /\ publish = "saving"
  /\ stored' = mem /\ publish' = "stored"
  /\ UNCHANGED <<mem, turn, queue, conn, got, holes, bounds>>

\* The save raises: the event stays in memory and turn_error follows.
SaveFails ==
  /\ publish = "saving" /\ faults < MaxFaults /\ Len(mem) < MaxEvents
  /\ faults' = faults + 1 /\ publish' = "failed"
  /\ silent' = silent \cup {Len(mem)}
  /\ UNCHANGED <<stored, mem, turn, queue, conn, got, lost, chunks, drops, crashes>>

Emitted ==
  /\ publish = "stored"
  /\ Emit(Last(mem))
  /\ IF Last(mem).kind = "message"
     THEN publish' = "idle" /\ UNCHANGED mem
     ELSE publish' = "none" /\ mem' = <<>>
  /\ UNCHANGED <<stored, turn, conn, got, silent, bounds>>

EmitChunk ==
  /\ publish = "idle" /\ chunks < MaxChunks
  /\ chunks' = chunks + 1
  /\ Emit(Chunk)
  /\ UNCHANGED <<log, conn, got, silent, drops, faults, crashes>>

\* A cancelled turn emits nothing more.
CancelTurn ==
  /\ publish \in CancelAt
  /\ publish' = "none" /\ mem' = <<>>
  /\ silent' = IF publish = "stored" THEN silent \cup {Len(mem)} ELSE silent
  /\ UNCHANGED <<stored, turn, queue, conn, got, lost, bounds>>

-----------------------------------------------------------------------------
(* A client's connection *)

\* Last-Event-ID, or after_sequence.
Id(c) == IF got[c] = <<>> THEN 0 ELSE Last(got[c]).seq

\* The generator's finally clause unsubscribes.
Close(c) ==
  /\ conn' = [conn EXCEPT ![c] = Off]
  /\ queue' = [queue EXCEPT ![c] = <<>>]

\* Subscribe first, then read; without an id there is nothing to replay.
Connect(c) ==
  /\ conn[c].stage = "off"
  /\ conn' = [conn EXCEPT ![c] =
       [Off EXCEPT !.stage = IF Id(c) = 0 THEN "live" ELSE "loading", !.last = Id(c)]]
  /\ UNCHANGED <<log, queue, got, holes, bounds>>

\* The turn's terminal event, and the status with it, is stored.
StoredEnd == publish = "stored" /\ Last(mem).kind # "message"

\* store.load: its number and status would go into a snapshot.
Load(c) ==
  /\ conn[c].stage = "loading"
  /\ conn' = [conn EXCEPT ![c].stage = "listing", ![c].loaded = Len(stored),
                          ![c].terminal = publish = "none" \/ StoredEnd]
  /\ UNCHANGED <<log, queue, got, holes, bounds>>

Terminal(e) == e.kind \in {"completed", "error", "resting"}

\* list_durable_events: the stored events after number n, which are in its order.
After(n) ==
  LET later == {i \in DOMAIN stored : stored[i].seq > n}
  IN IF later = {} THEN <<>> ELSE SubSeq(stored, First(later), Len(stored))

\* What is replayed after number n: the events, or a snapshot if some are missing.
Replay(n, loaded, done) ==
  LET events == After(n) IN
  IF events # <<>> /\ Head(events).seq = n + 1 THEN events
  ELSE IF events # <<>> \/ loaded > n THEN <<Snapshot(loaded, done)>>
  ELSE <<>>

\* Bug: a client that was connected before is not replayed to.
BugList(c) ==
  /\ conn[c].stage = "listing"
  /\ conn' = [conn EXCEPT ![c].stage = "live", ![c].terminal = FALSE]
  /\ UNCHANGED <<log, queue, got, holes, bounds>>

List(c) ==
  /\ conn[c].stage = "listing"
  /\ LET replay == Replay(conn[c].last, conn[c].loaded, conn[c].terminal) IN
     conn' = [conn EXCEPT
       ![c].stage = "replaying", ![c].replay = replay,
       ![c].last = IF replay = <<>> THEN @ ELSE Last(replay).seq,
       ![c].terminal = \E i \in DOMAIN replay : Terminal(replay[i])]
  /\ UNCHANGED <<log, queue, got, holes, bounds>>

SendReplay(c) ==
  /\ conn[c].stage = "replaying" /\ conn[c].replay # <<>>
  /\ got' = [got EXCEPT ![c] = Append(@, Head(conn[c].replay))]
  /\ conn' = [conn EXCEPT ![c].replay = Tail(@)]
  /\ UNCHANGED <<log, queue, holes, bounds>>

\* Bug: the queue is subscribed to after the replay.
BugReplayed(c) ==
  /\ conn[c].stage = "replaying" /\ conn[c].replay = <<>>
  /\ conn' = [conn EXCEPT ![c] = IF @.terminal THEN Off ELSE [@ EXCEPT !.stage = "live"]]
  /\ queue' = [queue EXCEPT ![c] = <<>>]
  /\ UNCHANGED <<log, got, holes, bounds>>

\* A turn ended in what was replayed: the stream ends too.
Replayed(c) ==
  /\ conn[c].stage = "replaying" /\ conn[c].replay = <<>>
  /\ IF conn[c].terminal
     THEN Close(c)
     ELSE conn' = [conn EXCEPT ![c].stage = "live"] /\ UNCHANGED queue
  /\ UNCHANGED <<log, got, holes, bounds>>

\* One event of the queue: skipped when its number was sent before, the end of
\* the stream when it is a gap or a terminal event.
Poll(c) ==
  /\ conn[c].stage = "live" /\ queue[c] # <<>>
  /\ LET e == Head(queue[c])
         fresh == Durable(e) /\ e.seq > conn[c].last IN
     /\ got' = IF fresh THEN [got EXCEPT ![c] = Append(@, e)] ELSE got
     /\ IF (fresh /\ Terminal(e)) \/ e = Gap
        THEN Close(c)
        ELSE /\ conn' = IF fresh THEN [conn EXCEPT ![c].last = e.seq] ELSE conn
             /\ queue' = [queue EXCEPT ![c] = Tail(@)]
  /\ UNCHANGED <<log, holes, bounds>>

\* The client goes away, or nothing happened for the idle timeout.
Drop(c) ==
  /\ conn[c].stage # "off" /\ drops < MaxDrops
  /\ drops' = drops + 1
  /\ Close(c)
  /\ UNCHANGED <<log, got, holes, chunks, faults, crashes>>

-----------------------------------------------------------------------------

Crash ==
  /\ crashes < MaxCrashes /\ crashes' = crashes + 1
  /\ mem' = <<>> /\ publish' = "none"
  /\ queue' = [c \in Clients |-> <<>>]
  /\ conn' = [c \in Clients |-> Off]
  /\ UNCHANGED <<stored, turn, got, holes, chunks, drops, faults>>

Turn == StartTurn \/ Publish \/ Land \/ SaveFails \/ Emitted \/ EmitChunk \/ CancelTurn

Saving == Land \/ Emitted

Connection(c) ==
  Connect(c) \/ Load(c) \/ List(c) \/ SendReplay(c) \/ Replayed(c) \/ Poll(c)

Next ==
  \/ Turn
  \/ \E c \in Clients : Connection(c) \/ Drop(c)
  \/ Crash

Spec == Init /\ [][Next]_vars

\* The event loop goes on with a save and with each connection; a client that
\* lost its connection opens it again, as an EventSource does.
FairSpec == Spec /\ WF_vars(Saving) /\ \A c \in Clients : WF_vars(Connection(c))

-----------------------------------------------------------------------------
(* Properties *)

Receives(c, e) == got'[c] = Append(got[c], e)

\* A client is sent only what is stored already, in the order of the log and
\* never twice, over any number of reconnects, restarts and failed saves:
\* save before emit (events.py:3, 213-217), and the sequence check that drops
\* what the replay already sent (router.py:549-553).
\* From the first event on nothing is left out, but for events that were stored
\* and never emitted (a save that raised, a cancel between save and emit) and those
\* that its own full queue gave up: subscribing before the replay
\* (router.py:475-517) leaves nothing between the two, and ephemeral events give
\* way to durable ones (events.py:101-169).
GaplessFeed ==
  [][\A c \in Clients : got'[c] # got[c] =>
       \E i \in DOMAIN stored :
         /\ Receives(c, stored[i]) /\ i > Id(c)
         /\ got[c] # <<>> => (Id(c) + 1) .. (i - 1) \subseteq silent \cup lost[c]]_vars

\* A client that received an event once is sent every event that is stored
\* after it or one that follows it, in the end, even if the turn ended while it
\* was away; only an event that was never emitted may stay untold.
CaughtUp ==
  \A c \in Clients : \A n \in 1 .. MaxEvents :
    got[c] # <<>> /\ Len(stored) >= n ~> Id(c) >= n \/ n \in silent

=============================================================================
