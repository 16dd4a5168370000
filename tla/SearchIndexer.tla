--------------------------- MODULE SearchIndexer ---------------------------
(***************************************************************************)
(* The search index of one session (search/indexer.ts, index-store.ts,      *)
(* segments.ts) beside the timeline it is derived from: the catch-up at the  *)
(* start of the daemon, the events of the session manager with the           *)
(* accumulator and the queue of writes, the stop and the crash.  An event    *)
(* is a piece of an answer or of a thought, a message of the user (a tool    *)
(* call is treated alike), or the end of a turn; a segment is the range of    *)
(* the events whose text it joins.                                          *)
(*                                                                         *)
(* Races: "live" (events arrive during the catch-up), "fail" (a write of     *)
(* the index fails), "ahead" (the index is written before the timeline and   *)
(* the daemon dies between), "opener" (the daemon ends when the last event    *)
(* of the file has closed an indexed segment and opened another).            *)
(***************************************************************************)
EXTENDS Naturals, Sequences, Bags, SequencesExt, Services

CONSTANTS
  MaxEvents,  \* bound: events of the session
  MaxStarts   \* bound: starts of the daemon

ASSUME SearchAssumption == MaxEvents \in Nat /\ MaxStarts \in Nat

Pieces     == {"answer", "thought"}
EventKinds == Pieces \cup {"user", "end"}

VARIABLES
  timeline,   \* the events the session manager has emitted
  written,    \* how many of them are in timeline.jsonl
  known,      \* the session exists
  rows,       \* table segments: a bag of segments
  indexed,    \* session_meta.indexed_seq, 0 without a row
  indexer,    \* "down", "reading", "comparing", "ready", "stopping"
  snapshot,   \* catchUp: the events read
  pending,    \* SegmentAccumulator.pending: <<first, last>> or <<>>
  writeQueue, \* the tasks of the queue
  spoken,     \* the user has spoken since the start
  starts

searchVars == <<timeline, written, known, rows, indexed, indexer, snapshot, pending, writeQueue,
                spoken, starts>>

-----------------------------------------------------------------------------
(* SegmentAccumulator.push: the event closes what it does not continue. *)
Flushed(buffer) == IF buffer = <<>> THEN <<>> ELSE <<buffer>>
Continues(events, buffer, seq) ==
  buffer # <<>> /\ events[seq] \in Pieces /\ events[buffer[1]] = events[seq]

PushOver(events, buffer, seq) ==
  [segments |-> IF Continues(events, buffer, seq) THEN <<>> ELSE Flushed(buffer),
   pending  |-> IF events[seq] \notin Pieces THEN <<>>
                ELSE IF Continues(events, buffer, seq) THEN <<buffer[1], seq>> ELSE <<seq, seq>>]

(* Mutant: a message of the user leaves the answer before it open and unindexed. *)
PushForgets(events, buffer, seq) ==
  LET pushed == PushOver(events, buffer, seq) IN
  [pushed EXCEPT !.segments = IF events[seq] = "user" THEN <<<<seq, seq>>>> ELSE @]

Push(events, buffer, seq) ==
  LET pushed == PushOver(events, buffer, seq) IN
  [pushed EXCEPT !.segments = IF events[seq] = "user" THEN Append(@, <<seq, seq>>) ELSE @]

(* segmentTimeline: the whole file through one accumulator, which is flushed at the end. *)
SegmentTimeline(events) ==
  LET acc[n \in 0..Len(events)] ==
        IF n = 0 THEN [segments |-> <<>>, pending |-> <<>>]
        ELSE LET pushed == Push(events, acc[n - 1].pending, n) IN
             [segments |-> acc[n - 1].segments \o pushed.segments, pending |-> pushed.pending]
      all == acc[Len(events)]
  IN all.segments \o Flushed(all.pending)

(* What inserting the rows one by one leaves. *)
AsBag(segments) ==
  [s \in ToSet(segments) |-> Cardinality({i \in DOMAIN segments : segments[i] = s})]

-----------------------------------------------------------------------------
SearchInit ==
  /\ timeline = <<>> /\ written = 0 /\ known = TRUE
  /\ rows = EmptyBag /\ indexed = 0
  /\ indexer = "reading" /\ snapshot = <<>> /\ pending = <<>> /\ writeQueue = <<>>
  /\ spoken = FALSE /\ starts = 1

Up == indexer # "down"

(* catchUp reads the timeline of the session... *)
CatchUpRead ==
  /\ indexer = "reading" /\ known
  /\ snapshot' = SubSeq(timeline, 1, written)
  /\ indexer' = "comparing"
  /\ UNCHANGED <<timeline, written, known, rows, indexed, pending, writeQueue, spoken, starts>>

(* ... and indexes it anew when the file is further than the index (replaceSession). *)
CatchUpCompare ==
  /\ indexer = "comparing"
  /\ IF Len(snapshot) > indexed
     THEN rows' = AsBag(SegmentTimeline(snapshot)) /\ indexed' = Len(snapshot)
     ELSE UNCHANGED <<rows, indexed>>
  /\ indexer' = "ready" /\ snapshot' = <<>>
  /\ UNCHANGED <<timeline, written, known, pending, writeQueue, spoken, starts>>

(* removeSession: the rows of a session that is no more. *)
CatchUpRemove ==
  /\ indexer = "reading" /\ ~known
  /\ rows' = EmptyBag /\ indexed' = 0
  /\ indexer' = "ready"
  /\ UNCHANGED <<timeline, written, known, snapshot, pending, writeQueue, spoken, starts>>

(* handleEvent: a message of the user opens what follows it.  The index hears nothing once it
   is being stopped. *)
Emit ==
  /\ Up /\ known /\ Len(timeline) < MaxEvents
  /\ Allows("live") \/ indexer \notin {"reading", "comparing"}
  /\ \E kind \in EventKinds :
       /\ spoken \/ kind = "user"
       /\ timeline' = Append(timeline, kind)
  /\ spoken' = TRUE
  /\ IF indexer = "stopping" THEN UNCHANGED <<pending, writeQueue>>
     ELSE LET seq == Len(timeline')
              pushed == Push(timeline', pending, seq)
          IN /\ pending' = pushed.pending
             /\ writeQueue' = IF pushed.segments = <<>> THEN writeQueue
                              ELSE Append(writeQueue, [segments |-> pushed.segments, seq |-> seq])
  /\ UNCHANGED <<written, known, rows, indexed, indexer, snapshot, starts>>

(* The store appends the next line to timeline.jsonl. *)
TimelineWrite ==
  /\ Up /\ written < Len(timeline)
  /\ written' = written + 1
  /\ UNCHANGED <<timeline, known, rows, indexed, indexer, snapshot, pending, writeQueue, spoken, starts>>

(* appendSegments, in its turn; a session without meta has no row to note its seq in, the
   segments are inserted all the same. *)
IndexWrite ==
  /\ Up /\ writeQueue # <<>>
  /\ LET task == Head(writeQueue) IN
     /\ Allows("ahead") \/ task.seq <= written
     /\ rows' = rows (+) AsBag(task.segments)
     /\ indexed' = IF indexed < task.seq /\ (known \/ indexed > 0) THEN task.seq ELSE indexed
  /\ writeQueue' = Tail(writeQueue)
  /\ UNCHANGED <<timeline, written, known, indexer, snapshot, pending, spoken, starts>>

(* The transaction is rolled back and the queue goes on. *)
IndexWriteFails ==
  /\ Up /\ writeQueue # <<>>
  /\ Allows("fail") \/ (Len(writeQueue) = 1 /\ ~known)
  /\ writeQueue' = Tail(writeQueue)
  /\ UNCHANGED <<timeline, written, known, rows, indexed, indexer, snapshot, pending, spoken, starts>>

(* deleteSession: the index is not told. *)
DeleteSession ==
  /\ Up /\ known
  /\ written = Len(timeline)
  /\ known' = FALSE
  /\ UNCHANGED <<timeline, written, rows, indexed, indexer, snapshot, pending, writeQueue, spoken, starts>>

OpenerLast ==
  /\ indexed = written /\ written > 0 /\ timeline[written] \in Pieces
  /\ \A segment \in DOMAIN rows : segment[2] < written

(* stop: no further event is heard, what is queued is written, then the accumulators go. *)
BeginStop ==
  /\ indexer = "ready"
  /\ indexer' = "stopping"
  /\ UNCHANGED <<timeline, written, known, rows, indexed, snapshot, pending, writeQueue, spoken, starts>>

EndStop ==
  /\ indexer = "stopping" /\ writeQueue = <<>> /\ written = Len(timeline)
  /\ Allows("opener") \/ ~OpenerLast
  /\ indexer' = "down" /\ pending' = <<>> /\ spoken' = FALSE
  /\ UNCHANGED <<timeline, written, known, rows, indexed, snapshot, writeQueue, starts>>

(* The daemon dies: the file and the tables are what is left.  The next catch-up skips a session
   whose last event is the one the index stands at, even when that event opened a segment. *)
Die ==
  /\ Up
  /\ Allows("opener") \/ ~OpenerLast
  /\ timeline' = SubSeq(timeline, 1, written)
  /\ indexer' = "down" /\ snapshot' = <<>> /\ pending' = <<>> /\ writeQueue' = <<>> /\ spoken' = FALSE
  /\ UNCHANGED <<written, known, rows, indexed, starts>>

StartIndexer ==
  /\ indexer = "down" /\ starts < MaxStarts
  /\ indexer' = "reading" /\ starts' = starts + 1
  /\ UNCHANGED <<timeline, written, known, rows, indexed, snapshot, pending, writeQueue, spoken>>

SearchNext ==
  \/ CatchUpRead \/ CatchUpCompare \/ CatchUpRemove
  \/ Emit \/ TimelineWrite \/ IndexWrite \/ IndexWriteFails
  \/ DeleteSession \/ BeginStop \/ EndStop \/ Die \/ StartIndexer

-----------------------------------------------------------------------------
(* What there is to find in a timeline: every message of the user, and every longest run of
   pieces of one kind. *)
IsRun(events, i, j) ==
  /\ \A k \in i..j : events[k] \in Pieces /\ events[k] = events[i]
  /\ i = 1 \/ events[i - 1] # events[i]
  /\ j = Len(events) \/ events[j + 1] # events[j]

Searchable(events) ==
  {<<i, i>> : i \in {k \in DOMAIN events : events[k] = "user"}}
    \cup {r \in (1..Len(events)) \X (1..Len(events)) : r[1] <= r[2] /\ IsRun(events, r[1], r[2])}

(* indexer.ts, segments.ts: when the catch-up is over and nothing waits, every segment of the
   timeline is in the index exactly once, but for the one the accumulator still holds, across
   crashes and stops in the middle of an answer. *)
IndexFollowsTimeline ==
  indexer = "ready" /\ writeQueue = <<>> /\ known =>
    rows (+) AsBag(Flushed(pending)) = SetToBag(Searchable(timeline))
=============================================================================
