------------------------------ MODULE Timeline ------------------------------
(***************************************************************************)
(* The timeline of one session: the events the session manager emits, the  *)
(* file they are appended to (store.ts), their broadcast to a connected    *)
(* client (server.ts), and the copy the client keeps of them: the view of  *)
(* the renderer (app-store.ts, timeline.ts), which survives disconnections *)
(* and resynchronises, or the output of the command line's watch           *)
(* (session-commands.ts), which lasts as long as its connection.           *)
(*                                                                         *)
(* races says what the environment of this behaviour may do; every strong  *)
(* property names the races it does not survive.                           *)
(*   resync   events are emitted while a renderer resynchronises           *)
(*   load     events are emitted while a whole timeline is loaded          *)
(*   lostload a load fails: activated while disconnected, or disconnected  *)
(*            before its answer came                                       *)
(*   torn     an interrupted append leaves a part of its line              *)
(*   fail     an append fails and the daemon goes on                       *)
(***************************************************************************)
EXTENDS Naturals, SequencesExt, FiniteSets

CONSTANTS
  Environments,  \* the pairs of a set of races and a kind of client to choose from
  MaxEvents,     \* bound: events emitted in a behaviour
  MaxRequests,   \* bound: loads and backfills are begun only below it
  MaxRestarts,   \* bound: restarts of the daemon
  MaxLinks       \* bound: connections of the client

AllRaces == {"resync", "load", "lostload", "torn", "fail"}

ASSUME EnvironmentAssumption ==
  Environments \subseteq (SUBSET AllRaces) \X {"renderer", "stream"}
ASSUME TimelineBounds ==
  /\ MaxEvents \in Nat /\ MaxRequests \in Nat
  /\ MaxRestarts \in Nat /\ MaxLinks \in Nat

VARIABLES
  races, client,  \* chosen at the beginning, never changed
  (* the daemon *)
  up,         \* it is running
  nextSeq,    \* LiveSession.nextSeq
  chain,      \* LiveSession.chain: the events still to be appended and broadcast
  written,    \* the append of the first of them is done, its broadcast is not
  file,       \* timeline.jsonl: the events readTimeline can read
  tail,       \* its last line: "clean" ends with a newline, "torn" is a part of an
              \* event, "unended" is a whole event without its newline
  requests,   \* session.timeline requests the server is working on
  (* the connection: messages to the client, in order *)
  link,       \* "down", "hello" (helloDone at the server) or "on" (answer received)
  wire,
  (* the client *)
  view,       \* the events applied, in order
  open,       \* renderer: the session's pane is visible; stream: it is listening
  resyncing,  \* renderer: resync is reading its lists, syncTimelineGap comes next
  buffering,  \* stream: backfill is under way
  buffered,   \* stream: events that arrived meanwhile
  since,      \* stream: the number it was told to fill in from, if it was told one
  (* history, for bounds *)
  emitted, asked, restarts, links

daemon  == <<up, nextSeq, chain, written, file, tail>>
conn    == <<link, wire, requests>>
stream  == <<buffering, buffered, since>>
copy    == <<view, open, resyncing, stream>>
counts  == <<emitted, asked, restarts, links>>
vars    == <<races, client, daemon, conn, copy, counts>>

Event == [seq : Nat, id : 1..MaxEvents]

Request == [id : Nat, load : BOOLEAN, from : Nat, upto : Nat,
            read : BOOLEAN, events : Seq(Event)]

Message == [kind : {"hello"}] \cup [kind : {"event"}, event : Event]
             \cup [kind : {"reply"}, load : BOOLEAN, events : Seq(Event)]

Allows(race) == race \in races

Renderer == client = "renderer"

-----------------------------------------------------------------------------
(* The file *)

(* Mutant: numbering goes on from the number of lines. *)
CountOf(events) == Len(events)

(* lastSeq: of the last readable line, -1 if there is none; here one more than it. *)
NextOf(events) == IF events = <<>> THEN 0 ELSE Last(events).seq + 1

(* Mutant: the first event is given again. *)
FromExclusive(events, from) == SelectSeq(events, LAMBDA event : event.seq > from + 1)

(* readTimeline: fromSeq is included. *)
From(events, from) ==
  LET kept[n \in 0..Len(events)] ==
        IF n = 0 THEN <<>>
        ELSE IF events[n].seq >= from THEN Append(kept[n - 1], events[n])
        ELSE kept[n - 1]
  IN  kept[Len(events)]

(* An unended line that something is appended to cannot be read any more. *)
Joined == IF tail = "unended" THEN Front(file) ELSE file

(* appendEvent: after a line that lacks its newline the event continues that line. *)
Appended(event) ==
  /\ file' = IF tail = "clean" THEN Append(file, event) ELSE Joined
  /\ tail' = "clean"

(* What an append leaves that was interrupted after it had begun. *)
Interrupted(event) ==
  \/ file' = Joined /\ tail' = "torn"
  \/ tail = "clean" /\ file' = Append(file, event) /\ tail' = "unended"

-----------------------------------------------------------------------------
(* The daemon *)

(* What a client still waits for. *)
Outstanding(load) ==
  \/ \E request \in requests : request.load = load
  \/ \E i \in DOMAIN wire : wire[i].kind = "reply" /\ wire[i].load = load

Resyncing == Renderer /\ ((link = "hello" /\ links > 1) \/ resyncing \/ Outstanding(FALSE))

(* emit: the event gets its number at once and is appended and sent in order. *)
Emit ==
  /\ up /\ emitted < MaxEvents
  /\ Allows("resync") \/ ~Resyncing
  /\ Allows("load") \/ ~(Renderer /\ Outstanding(TRUE))
  /\ emitted' = emitted + 1
  /\ chain' = Append(chain, [seq |-> nextSeq, id |-> emitted + 1])
  /\ nextSeq' = nextSeq + 1
  /\ UNCHANGED <<races, client, up, written, file, tail, conn, copy, asked, restarts, links>>

(* The file system does the append of the oldest event. *)
AppendDone ==
  /\ chain # <<>> /\ ~written
  /\ Appended(Head(chain))
  /\ written' = TRUE
  /\ UNCHANGED <<races, client, up, nextSeq, chain, conn, copy, counts>>

(* The chain goes on: the connections with a hello get the event. *)
Broadcast ==
  /\ written
  /\ chain' = Tail(chain)
  /\ written' = FALSE
  /\ wire' = IF link = "down" THEN wire
             ELSE Append(wire, [kind |-> "event", event |-> Head(chain)])
  /\ UNCHANGED <<races, client, up, nextSeq, file, tail, link, requests, copy, counts>>

(* Mutant: the event is sent whether its append succeeds or not. *)
AppendFailsSent ==
  /\ chain # <<>> /\ ~written /\ Allows("fail")
  /\ chain' = Tail(chain)
  /\ wire' = IF link = "down" THEN wire
             ELSE Append(wire, [kind |-> "event", event |-> Head(chain)])
  /\ UNCHANGED <<races, client, up, nextSeq, written, file, tail, link, requests, copy, counts>>

(* The append fails: logged and skipped, its number is used up. *)
AppendFails ==
  /\ chain # <<>> /\ ~written /\ Allows("fail")
  /\ \/ UNCHANGED <<file, tail>>
     \/ Allows("torn") /\ Interrupted(Head(chain))
  /\ chain' = Tail(chain)
  /\ UNCHANGED <<races, client, up, nextSeq, written, conn, copy, counts>>

(* Mutant: the file is read without waiting for what has been emitted. *)
ReadAtOnce(request) ==
  /\ request \in requests /\ ~request.read
  /\ requests' = (requests \ {request}) \cup
       {[request EXCEPT !.read = TRUE, !.events = From(file, request.from)]}
  /\ UNCHANGED <<races, client, daemon, link, wire, copy, counts>>

(* timeline: what was emitted before the request is in the file before it is read. *)
ReadTimeline(request) ==
  /\ request \in requests /\ ~request.read
  /\ \A i \in DOMAIN chain : chain[i].seq >= request.upto
  /\ requests' = (requests \ {request}) \cup
       {[request EXCEPT !.read = TRUE, !.events = From(file, request.from)]}
  /\ UNCHANGED <<races, client, daemon, link, wire, copy, counts>>

(* The answer goes out later than the file was read: events may overtake it. *)
Reply(request) ==
  /\ request \in requests /\ request.read
  /\ requests' = requests \ {request}
  /\ wire' = Append(wire, [kind |-> "reply", load |-> request.load, events |-> request.events])
  /\ UNCHANGED <<races, client, daemon, link, copy, counts>>

(* The client's end of a lost connection; requests in flight are rejected. *)
LoseLink ==
  /\ Allows("lostload") \/ ~(Renderer /\ Outstanding(TRUE))
  /\ link' = "down" /\ wire' = <<>> /\ requests' = {}
  /\ resyncing' = FALSE
  /\ open' = (Renderer /\ open)
  /\ view' = IF Renderer THEN view ELSE <<>>
  /\ buffering' = FALSE /\ buffered' = <<>> /\ since' = {}

(* The daemon ends: an append that was under way may be done, lost or interrupted. *)
DaemonCrash ==
  /\ up /\ restarts < MaxRestarts
  /\ up' = FALSE
  /\ chain' = <<>> /\ written' = FALSE
  /\ \/ UNCHANGED <<file, tail>>
     \/ chain # <<>> /\ ~written /\ Appended(Head(chain))
     \/ chain # <<>> /\ ~written /\ Allows("torn") /\ Interrupted(Head(chain))
  /\ nextSeq' = 0
  /\ LoseLink
  /\ UNCHANGED <<races, client, counts>>

(* init: numbering goes on after the last event that can be read. *)
Restart ==
  /\ ~up
  /\ up' = TRUE
  /\ nextSeq' = NextOf(file)
  /\ restarts' = restarts + 1
  /\ UNCHANGED <<races, client, chain, written, file, tail, conn, copy, emitted, asked, links>>

-----------------------------------------------------------------------------
(* The client *)

(* applyEvent, emit of the stream: what is not newer than the last is dropped. *)
Apply(events, event) ==
  IF event.seq < NextOf(events) THEN events ELSE Append(events, event)

ApplyAll(events, more) ==
  LET applied[n \in 0..Len(more)] ==
        IF n = 0 THEN events ELSE Apply(applied[n - 1], more[n])
  IN  applied[Len(more)]

(* A session.timeline request, at the server at once. *)
Ask(load, from) ==
  /\ asked' = asked + 1
  /\ requests' = requests \cup
       {[id |-> asked + 1, load |-> load, from |-> from, upto |-> nextSeq,
         read |-> FALSE, events |-> <<>>]}

(***************************************************************************)
(* The client connects and sends hello.  From here on it gets what is      *)
(* appended; the first message is the answer to hello.                     *)
(***************************************************************************)
Connect ==
  /\ up /\ link = "down" /\ links < MaxLinks
  /\ Allows("resync") \/ ~Renderer \/ links = 0 \/ chain = <<>>
  /\ link' = "hello"
  /\ wire' = <<[kind |-> "hello"]>>
  /\ links' = links + 1
  /\ UNCHANGED <<races, client, daemon, requests, copy, emitted, asked, restarts>>

Disconnect ==
  /\ link # "down"
  /\ LoseLink
  /\ UNCHANGED <<races, client, daemon, counts>>

(* The next message has come. *)
Arrives(kind) ==
  /\ wire # <<>> /\ Head(wire).kind = kind
  /\ wire' = Tail(wire)

(* A renderer that was connected before resynchronises: first its lists. *)
ReceiveHello ==
  /\ Arrives("hello")
  /\ link' = "on"
  /\ resyncing' = (Renderer /\ links > 1)
  /\ UNCHANGED <<races, client, daemon, requests, view, open, stream, counts>>

(* Mutant: resync asks for the timelines of no pane. *)
SyncTimelineGapSkipped ==
  /\ resyncing
  /\ resyncing' = FALSE
  /\ UNCHANGED <<races, client, daemon, conn, view, open, stream, counts>>

(* Mutant: the last event the view has is asked for, not the one after it. *)
SyncTimelineGapFromLast ==
  /\ resyncing
  /\ resyncing' = FALSE
  /\ \/ open /\ Ask(FALSE, NextOf(view) - 1)
     \/ ~open /\ UNCHANGED <<requests, asked>>
  /\ UNCHANGED <<races, client, daemon, link, wire, view, open, stream,
                 emitted, restarts, links>>

(* The lists are there: the visible pane asks for what is newer than its last event. *)
SyncTimelineGap ==
  /\ resyncing
  /\ resyncing' = FALSE
  /\ \/ open /\ Ask(FALSE, NextOf(view))
     \/ ~open /\ UNCHANGED <<requests, asked>>
  /\ UNCHANGED <<races, client, daemon, link, wire, view, open, stream,
                 emitted, restarts, links>>

(* The user brings the pane to the front: loadTimeline, which fails without a connection. *)
LoadTimeline ==
  /\ Renderer /\ asked < MaxRequests
  /\ \/ link = "on" /\ Ask(TRUE, 0)
     \/ link # "on" /\ ~open /\ Allows("lostload") /\ UNCHANGED <<requests, asked>>
  /\ open' = TRUE
  /\ UNCHANGED <<races, client, daemon, link, wire, view, resyncing, stream,
                 emitted, restarts, links>>

HidePane ==
  /\ Renderer /\ open
  /\ open' = FALSE
  /\ UNCHANGED <<races, client, daemon, conn, view, resyncing, stream, counts>>

(* watch: listen, then fill in from some event on, or take only what comes. *)
Watch ==
  /\ ~Renderer /\ link = "on" /\ ~open /\ asked < MaxRequests
  /\ open' = TRUE
  /\ \/ /\ \E from \in 0..nextSeq : Ask(FALSE, from) /\ since' = {from}
        /\ buffering' = TRUE
     \/ UNCHANGED <<requests, asked, buffering, since>>
  /\ UNCHANGED <<races, client, daemon, link, wire, view, resyncing, buffered,
                 emitted, restarts, links>>

(* handleEvent: a renderer applies a live event at once. *)
RendererEvent ==
  /\ Renderer /\ Arrives("event")
  /\ view' = Apply(view, Head(wire).event)
  /\ UNCHANGED <<races, client, daemon, link, requests, open, resyncing, stream, counts>>

(* Mutant: backfill does not hold live events back. *)
StreamEventUnbuffered ==
  /\ ~Renderer /\ Arrives("event")
  /\ view' = IF open THEN Apply(view, Head(wire).event) ELSE view
  /\ UNCHANGED <<races, client, daemon, link, requests, open, resyncing, stream, counts>>

(* A stream shows a live event, but holds it back while it backfills. *)
StreamEvent ==
  /\ ~Renderer /\ Arrives("event")
  /\ view' = IF open /\ ~buffering THEN Apply(view, Head(wire).event) ELSE view
  /\ buffered' = IF buffering THEN Append(buffered, Head(wire).event) ELSE buffered
  /\ UNCHANGED <<races, client, daemon, link, requests, open, resyncing, buffering, since,
                 counts>>

(* The rest of syncTimelineGap: what was missed is applied to the view. *)
GapReply ==
  /\ Renderer /\ Arrives("reply") /\ ~Head(wire).load
  /\ view' = ApplyAll(view, Head(wire).events)
  /\ UNCHANGED <<races, client, daemon, link, requests, open, resyncing, stream, counts>>

(* The rest of loadTimeline: the view is built anew. *)
LoadReply ==
  /\ Renderer /\ Arrives("reply") /\ Head(wire).load
  /\ view' = ApplyAll(<<>>, Head(wire).events)
  /\ UNCHANGED <<races, client, daemon, link, requests, open, resyncing, stream, counts>>

(* The rest of backfill: the events asked for, then those that were held back. *)
BackfillReply ==
  /\ ~Renderer /\ Arrives("reply")
  /\ view' = ApplyAll(ApplyAll(view, Head(wire).events), buffered)
  /\ buffering' = FALSE
  /\ buffered' = <<>>
  /\ UNCHANGED <<races, client, daemon, link, requests, open, resyncing, since, counts>>

-----------------------------------------------------------------------------
Init ==
  /\ \E chosen \in Environments : races = chosen[1] /\ client = chosen[2]
  /\ up = TRUE /\ nextSeq = 0 /\ chain = <<>> /\ written = FALSE
  /\ file = <<>> /\ tail = "clean"
  /\ link = "down" /\ wire = <<>> /\ requests = {}
  /\ view = <<>> /\ open = FALSE /\ resyncing = FALSE
  /\ buffering = FALSE /\ buffered = <<>> /\ since = {}
  /\ emitted = 0 /\ asked = 0 /\ restarts = 0 /\ links = 0

ServeTimeline == \E request \in requests : ReadTimeline(request) \/ Reply(request)

Receive ==
  \/ ReceiveHello
  \/ RendererEvent \/ GapReply \/ LoadReply
  \/ StreamEvent \/ BackfillReply

Next ==
  \/ Emit \/ AppendDone \/ Broadcast \/ AppendFails
  \/ ServeTimeline
  \/ DaemonCrash \/ Restart
  \/ Connect \/ Disconnect
  \/ Receive
  \/ SyncTimelineGap \/ LoadTimeline \/ HidePane \/ Watch

(* The daemon finishes its appends and its answers; what is on the wire arrives. *)
Fairness ==
  /\ WF_vars(AppendDone)
  /\ WF_vars(Broadcast)
  /\ WF_vars(ServeTimeline)
  /\ WF_vars(Receive)
  /\ WF_vars(SyncTimelineGap)

Spec == Init /\ [][Next]_vars /\ Fairness

-----------------------------------------------------------------------------
(* Every variable keeps its type. *)
DaemonOK ==
  /\ up \in BOOLEAN /\ nextSeq \in Nat /\ emitted \in 0..MaxEvents
  /\ chain \in Seq(Event) /\ written \in BOOLEAN /\ (written => chain # <<>>)
  /\ file \in Seq(Event) /\ tail \in {"clean", "torn", "unended"}

ConnOK ==
  /\ link \in {"down", "hello", "on"} /\ links \in 0..MaxLinks
  /\ requests \in SUBSET Request /\ asked \in Nat
  /\ wire \in Seq(Message)

CopyOK ==
  /\ view \in Seq(Event) /\ buffered \in Seq(Event) /\ since \in SUBSET Nat
  /\ open \in BOOLEAN /\ resyncing \in BOOLEAN /\ buffering \in BOOLEAN

TypeOK == <<races, client>> \in Environments /\ DaemonOK /\ ConnOK /\ CopyOK

(* The environment does none of these. *)
Spared(some) == races \cap some = {}

(***************************************************************************)
(* What can be read from the file is in the order of its numbers, each     *)
(* used once, whatever interrupted appends, failures and restarts did.     *)
(* readTimeline, lastSeq and the clients' dropping of repeated events rely *)
(* on it ("seq grows monotonically", events.ts).                           *)
(***************************************************************************)
Increasing(events) == \A i, j \in DOMAIN events : i < j => events[i].seq < events[j].seq

FileOrdered == Increasing(file)

(***************************************************************************)
(* What a client has shown is in the file, across crashes and restarts: an *)
(* event is sent only once it can be read again.                           *)
(***************************************************************************)
SeenIsKept == ToSet(view) \subseteq ToSet(file)

(* SeenIsKept as long as no append is interrupted half-way. *)
SeenIsKeptIntact == Spared({"torn"}) => SeenIsKept

(***************************************************************************)
(* A visible pane with nothing on its way shows the whole timeline, after  *)
(* any disconnections, restarts and failed appends: resync, loadTimeline   *)
(* and the live events leave neither a hole nor a repetition.              *)
(***************************************************************************)
Settled ==
  /\ Renderer /\ open /\ link = "on" /\ ~resyncing
  /\ requests = {} /\ wire = <<>> /\ chain = <<>>

Complete == Settled => view = file

CaughtUp == Spared({"resync", "load", "lostload", "torn"}) => Complete

(***************************************************************************)
(* The output of watch has no hole, whatever is emitted meanwhile: it is a *)
(* section of the timeline, and one that was told where to begin leaves    *)
(* out nothing from there on.  This is what backfill buffers for.          *)
(***************************************************************************)
Section(events) ==
  \E start \in 0..Len(file) - Len(events) : events = SubSeq(file, start + 1, start + Len(events))

StreamComplete ==
  ~Renderer /\ Spared({"torn"}) =>
    /\ Section(view)
    /\ \A from \in since : IsPrefix(From(view, from), From(file, from))

(* A view never loses an event that it showed. *)
ViewKeeps ==
  [][Renderer /\ Spared({"load", "torn"}) => ToSet(view) \subseteq ToSet(view')]_vars

(* A visible pane that stays connected catches up with the timeline. *)
Converges ==
  (Renderer /\ Spared({"resync", "load", "lostload", "torn"}) /\ open /\ link = "on")
    ~> (view = file \/ link = "down" \/ ~open)
=============================================================================
