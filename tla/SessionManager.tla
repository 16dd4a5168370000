--------------------------- MODULE SessionManager ---------------------------
(***************************************************************************)
(* One agent session as the daemon keeps it (session-manager.ts), the      *)
(* harness process behind it, the clients that drive it and the meta.json  *)
(* it is restored from.                                                    *)
(*                                                                         *)
(* The daemon is a single JavaScript thread: code between two awaits is    *)
(* one step, and everything else interleaves at the awaits.  Three awaits  *)
(* matter and are what the actions are cut at:                             *)
(*   - runtime.startTurn(), between startPrompt's guard and activeTurnId   *)
(*     being set (variable starts);                                        *)
(*   - persistMeta(), whose writes complete in call order along metaChain  *)
(*     and whose callers go on only then (metaQ, each entry with what its  *)
(*     caller does next);                                                  *)
(*   - adapter.create/resumeSession() and runtime.close(), which start and *)
(*     end a process (opening, closing).                                   *)
(*                                                                         *)
(* Races names what the environment may do inside those windows.  With     *)
(* Races = AllRaces it may do anything; with Races = {} it leaves the      *)
(* windows alone and the strong properties hold.  Each name is one way in  *)
(* which the code depends on its clients and on its harness.               *)
(***************************************************************************)
EXTENDS Attention, Naturals, Sequences, FiniteSets

CONSTANTS
  Perms,         \* identifiers of the approvals the harness may ask for
  Waiters,       \* callers of waitForTurn
  QueueLimit,    \* cap of queuedPrompts (20 in the code)
  MaxPrompts,    \* bound: prompts submitted in a behaviour
  MaxOpens,      \* bound: create and resume calls
  MaxRestarts,   \* bound: times the daemon comes up again
  MaxWrites,     \* bound: clients and harness act only while fewer meta.json writes wait
  Races          \* the windows the environment may act in

AllRaces == {"overlap", "stop", "close", "shutdown", "crash", "reject"}

ASSUME LimitAssumption == QueueLimit \in Nat \ {0}
ASSUME BoundAssumption ==
  /\ MaxPrompts \in Nat /\ MaxOpens \in Nat
  /\ MaxRestarts \in Nat /\ MaxWrites \in Nat
ASSUME RaceAssumption  == Races \subseteq AllRaces

VARIABLES
  (* the daemon and the life of the session in it *)
  mode,        \* "up", "stopping" (shutdown in progress) or "down"
  runtime,     \* LiveSession.runtime: "none", "live", or "dead" (its process exited)
  opening,     \* createSession / resumeSession: "none", "requested", "spawning"
  closing,     \* closeSession / shutdown: "none", "interrupting", "terminating", "persisting"
  (* meta.json *)
  meta,        \* LiveSession.meta: status, attention, and whether a handle is known
  disk,        \* the file's contents; NoMeta when there is no file
  metaQ,       \* metaChain: the writes still to be made, with their continuations
  (* turns *)
  queue,       \* queuedPrompts
  draining,    \* drainingQueue
  starts,      \* startPrompt calls awaiting startTurn
  activeTurn,  \* activeTurnId; 0 is undefined.  A turn is named by its prompt
  holding,     \* eventHold # undefined
  held,        \* the events in eventHold
  flush,       \* the events of a released hold that are still to be applied
  (* what is derived from events *)
  pending, outcome, ack, waiters,
  (* the harness process *)
  live,        \* prompts it was sent and has neither refused nor finished
  aborted,     \* turns it was told to abort
  asked,       \* approvals it is waiting for
  (* history, read by bounds and properties only *)
  submitted, stopMark, lastOpened, lastEnded, opens, restarts

life    == <<mode, runtime, opening, closing>>
store   == <<meta, disk, metaQ>>
turns   == <<queue, draining, starts, activeTurn>>
hold    == <<holding, held, flush>>
view    == <<pending, outcome, ack, waiters>>
harness == <<live, aborted, asked>>
history == <<submitted, stopMark, lastOpened, lastEnded, opens, restarts>>
vars    == <<life, store, turns, hold, view, harness, history>>

Turn   == 1..MaxPrompts
NoMeta == [status |-> "none", attn |-> "none", handle |-> FALSE]
Meta   == [status : Statuses, attn : Reasons \cup {"none"}, handle : BOOLEAN]
Thens  == {"nothing", "spawn", "refresh", "running", "drained", "idle", "closed"}
Event  == [kind : {"end"}, turn : Turn, outcome : Outcomes]
            \cup [kind : {"error"}]
            \cup [kind : {"ask", "answer"}, req : Perms]
Start  == [turn : Turn, drain : BOOLEAN]

Allows(race) == race \in Races

(* Mutant: sessions are shut down before the server stops taking requests. *)
ServingWhileStopping == mode # "down"

(* stop() ends the server, and with it every request, before it shuts the sessions down. *)
Serving == mode = "up"

(* The listener installed by attachRuntime; closeSession removes it first. *)
Subscribed == runtime # "none" /\ closing # "terminating"

-----------------------------------------------------------------------------
(* meta.json: persistMeta, transition, refreshAttention *)

(* Mutant: only the status is written. *)
WriteStatusOnly(m, then) == [meta |-> [status |-> m.status], then |-> then]

(* persistMeta: a snapshot on the chain, and what its caller does after it. *)
Write(m, then) == [meta |-> m, then |-> then]

(* Mutant: the attention of a closed session is computed again. *)
RefreshedAlways(m, asks, out, acknowledged) ==
  [m EXCEPT !.attn = ResolveReason(m.status, asks, out, acknowledged)]

(***************************************************************************)
(* refreshAttention on meta m.  Without a runtime the attention is frozen: *)
(* the approvals are gone by then and the policy would lower it.           *)
(***************************************************************************)
Refreshed(m, asks, out, acknowledged) ==
  IF runtime = "none" THEN m
  ELSE [m EXCEPT !.attn = ResolveReason(m.status, asks, out, acknowledged)]

(* Mutant: a change of the attention stays in memory. *)
PersistedNever(writes, m, refreshed) == writes

(* The writes waiting after a refresh of m: it persists only if something changed. *)
Persisted(writes, m, refreshed) ==
  IF refreshed.attn = m.attn THEN writes ELSE Append(writes, Write(refreshed, "nothing"))

(* refreshAttention alone, with the session's other fields as given. *)
Refresh(asks, out, acknowledged) ==
  LET refreshed == Refreshed(meta, asks, out, acknowledged)
  IN  /\ meta' = refreshed
      /\ metaQ' = Persisted(metaQ, meta, refreshed)

(* transition: the status changes at once, the caller goes on after the write. *)
Transition(status, then) ==
  /\ meta' = [meta EXCEPT !.status = status]
  /\ metaQ' = Append(metaQ, Write([meta EXCEPT !.status = status], then))

-----------------------------------------------------------------------------
(* applyEvent *)

(* Mutant: the end of a turn other than the active one leaves the active one set. *)
HandleEndOfActive(event) ==
  /\ lastEnded' = event.turn
  /\ activeTurn' = IF event.turn = activeTurn THEN 0 ELSE activeTurn
  /\ outcome' = event.outcome
  /\ waiters' = {}
  /\ ack' = FALSE
  /\ Transition("idle", "idle")
  /\ UNCHANGED <<queue, pending>>

(* turn_completed, turn_failed, turn_canceled.  The turn id is not compared. *)
HandleEnd(event) ==
  /\ lastEnded' = event.turn
  /\ activeTurn' = 0
  /\ outcome' = event.outcome
  /\ waiters' = {}
  /\ ack' = FALSE
  /\ Transition("idle", "idle")
  /\ UNCHANGED <<queue, pending>>

(* session_status_changed with status error: the harness process is gone. *)
HandleError ==
  LET failed    == [meta EXCEPT !.status = "error"]
      refreshed == Refreshed(failed, pending, outcome, FALSE)
  IN  /\ activeTurn' = 0
      /\ queue' = <<>>
      /\ waiters' = {}
      /\ ack' = FALSE
      /\ meta' = refreshed
      /\ metaQ' = Persisted(Append(metaQ, Write(failed, "nothing")), failed, refreshed)
      /\ UNCHANGED <<pending, outcome, lastEnded>>

(* Mutant: an approval that comes or goes does not refresh the attention. *)
HandlePermissionQuietly(asks) ==
  /\ pending' = asks
  /\ UNCHANGED <<meta, metaQ, activeTurn, queue, waiters, ack, outcome, lastEnded>>

(* permission_requested, permission_resolved *)
HandlePermission(asks) ==
  /\ pending' = asks
  /\ Refresh(asks, outcome, ack)
  /\ UNCHANGED <<activeTurn, queue, waiters, ack, outcome, lastEnded>>

HandleEvent(event) ==
  \/ event.kind = "end"    /\ HandleEnd(event)
  \/ event.kind = "error"  /\ HandleError
  \/ event.kind = "ask"    /\ HandlePermission(pending \cup {event.req})
  \/ event.kind = "answer" /\ HandlePermission(pending \ {event.req})

(* What HandleEvent leaves alone besides its UNCHANGED conjuncts. *)
EventFrame == UNCHANGED <<opening, closing, mode, disk, draining, submitted, stopMark,
                          lastOpened, opens, restarts>>

(* applyEvent: while a prompt is being opened, events are put aside. *)
ApplyEvent(event) ==
  IF holding
  THEN /\ held' = Append(held, event)
       /\ UNCHANGED <<meta, metaQ, activeTurn, queue, view, lastEnded>>
  ELSE /\ HandleEvent(event)
       /\ UNCHANGED held

(***************************************************************************)
(* The end of startPrompt applies the held events in one synchronous loop. *)
(* Next lets nothing else happen until flush is empty again.               *)
(***************************************************************************)
FlushOne ==
  /\ flush # <<>>
  /\ flush' = Tail(flush)
  /\ HandleEvent(Head(flush))
  /\ EventFrame
  /\ UNCHANGED <<runtime, starts, holding, held, harness>>

-----------------------------------------------------------------------------
(* createSession, resumeSession *)

CreateSession ==
  /\ Serving /\ meta.status = "none" /\ opens < MaxOpens
  /\ opening' = "requested"
  /\ opens' = opens + 1
  /\ Transition("initializing", "spawn")
  /\ UNCHANGED <<mode, runtime, closing, disk, turns, hold, view, harness,
                 submitted, stopMark, lastOpened, lastEnded, restarts>>

(* A call that finds a runtime returns at once; two calls at a time are not modelled. *)
ResumeSession ==
  /\ Serving /\ runtime = "none" /\ opening = "none" /\ meta.handle /\ opens < MaxOpens
  /\ Allows("close") \/ closing = "none"
  /\ opening' = "requested"
  /\ opens' = opens + 1
  /\ Transition("initializing", "spawn")
  /\ UNCHANGED <<mode, runtime, closing, disk, turns, hold, view, harness,
                 submitted, stopMark, lastOpened, lastEnded, restarts>>

(***************************************************************************)
(* The adapter has a process that answers.  attachRuntime subscribes and   *)
(* records the handle; a resumed session takes over the approvals the      *)
(* harness still waits for.                                                *)
(***************************************************************************)
SpawnOk ==
  /\ mode # "down" /\ opening = "spawning"
  /\ opening' = "none"
  /\ runtime' = "live"
  /\ \E asks \in IF meta.handle THEN SUBSET Perms ELSE {{}} :
       /\ asked' = asks
       /\ pending' = IF meta.handle THEN asks ELSE pending
  /\ LET ready == [meta EXCEPT !.status = "idle", !.handle = TRUE]
     IN  /\ meta' = ready
         /\ metaQ' = Append(metaQ, Write(ready, "refresh"))
  /\ UNCHANGED <<mode, closing, disk, turns, hold, outcome, ack, waiters, live, aborted,
                 history>>

SpawnFail ==
  /\ mode # "down" /\ opening = "spawning"
  /\ opening' = "none"
  /\ Transition("error", "refresh")
  /\ UNCHANGED <<mode, runtime, closing, disk, turns, hold, view, harness, history>>

-----------------------------------------------------------------------------
(* prompt, startPrompt, drainQueuedPrompts *)

(* Mutant: events are not held while the prompt is being opened. *)
SendUnheld(turn, drain) ==
  /\ starts' = starts \cup {[turn |-> turn, drain |-> drain]}
  /\ live' = IF runtime = "live" THEN live \cup {turn} ELSE live
  /\ UNCHANGED <<holding, held>>

(* The part of startPrompt before its await: hold the events, send the prompt. *)
Send(turn, drain) ==
  /\ starts' = starts \cup {[turn |-> turn, drain |-> drain]}
  /\ holding' = TRUE
  /\ held' = <<>>
  /\ live' = IF runtime = "live" THEN live \cup {turn} ELSE live

(* Mutant: the newest prompt is queued first. *)
PromptQueuedFirst ==
  /\ Serving /\ runtime # "none" /\ submitted < MaxPrompts
  /\ activeTurn # 0
  /\ Len(queue) < QueueLimit
  /\ submitted' = submitted + 1
  /\ queue' = <<submitted + 1>> \o queue
  /\ UNCHANGED <<life, store, draining, starts, activeTurn, hold, view, harness,
                 stopMark, lastOpened, lastEnded, opens, restarts>>

(* prompt with a turn in progress: the text is queued. *)
PromptQueued ==
  /\ Serving /\ runtime # "none" /\ submitted < MaxPrompts
  /\ Allows("close") \/ closing = "none"
  /\ activeTurn # 0
  /\ Len(queue) < QueueLimit
  /\ submitted' = submitted + 1
  /\ queue' = Append(queue, submitted + 1)
  /\ UNCHANGED <<life, store, draining, starts, activeTurn, hold, view, harness,
                 stopMark, lastOpened, lastEnded, opens, restarts>>

(***************************************************************************)
(* prompt with no turn in progress: startPrompt at once.  Nothing in the   *)
(* code notices that another startPrompt is under way, or that prompts are *)
(* queued and about to be drained; "overlap" is a client that prompts then.*)
(* Once close() has begun, startTurn throws.                               *)
(***************************************************************************)
PromptStarted ==
  /\ Serving /\ runtime # "none" /\ submitted < MaxPrompts
  /\ Allows("close") \/ closing = "none"
  /\ Allows("overlap") \/ (starts = {} /\ queue = <<>>)
  /\ activeTurn = 0
  /\ meta.status = "idle"
  /\ submitted' = submitted + 1
  /\ IF closing = "terminating"
     THEN holding' = FALSE /\ held' = <<>> /\ UNCHANGED <<starts, live>>
     ELSE Send(submitted + 1, FALSE)
  /\ UNCHANGED <<life, store, queue, draining, activeTurn, flush, view, aborted, asked,
                 stopMark, lastOpened, lastEnded, opens, restarts>>

(***************************************************************************)
(* startTurn resolves: user_message and turn_started are emitted and the   *)
(* transition to running is under way; the events stay on hold until its   *)
(* write is done.                                                          *)
(***************************************************************************)
StartTurnOk(start) ==
  /\ start \in starts /\ runtime = "live"
  /\ starts' = starts \ {start}
  /\ activeTurn' = start.turn
  /\ lastOpened' = start.turn
  /\ ack' = TRUE
  /\ outcome' = "none"
  /\ Transition("running", IF start.drain THEN "drained" ELSE "running")
  /\ UNCHANGED <<life, disk, queue, draining, hold, pending, waiters, harness,
                 submitted, stopMark, lastEnded, opens, restarts>>

(* The catch clauses of startPrompt and, for a drained prompt, of drainQueuedPrompts. *)
AbandonStarts(failed) ==
  /\ starts' = starts \ failed
  /\ holding' = IF failed = {} THEN holding ELSE FALSE
  /\ held' = IF failed = {} THEN held ELSE <<>>
  /\ draining' = (draining /\ \A start \in failed : ~start.drain)

DrainFailed(failed) == \E start \in failed : start.drain

(***************************************************************************)
(* startTurn rejects: the harness refuses the prompt, or no answer came in *)
(* 30 seconds and the harness may be working on the prompt all the same.   *)
(* "reject" is such a failure after events of the turn have arrived.       *)
(***************************************************************************)
StartTurnFail(start) ==
  /\ start \in starts
  /\ Allows("reject") \/ (held = <<>> /\ (start.turn \in live \/ runtime = "dead"))
  /\ AbandonStarts({start})
  /\ queue' = IF start.drain THEN <<>> ELSE queue
  /\ \/ live' = live \ {start.turn}
     \/ Allows("reject") /\ live' = live
  /\ UNCHANGED <<life, store, activeTurn, flush, view, aborted, asked, history>>

-----------------------------------------------------------------------------
(* A meta.json write completes, and the caller that waited for it goes on. *)

MetaWritten(then) ==
  /\ metaQ # <<>> /\ Head(metaQ).then = then
  /\ disk' = Head(metaQ).meta

(* The refreshAttention at the end of transition. *)
TransitionDone(then) ==
  LET refreshed == Refreshed(meta, pending, outcome, ack)
  IN  /\ MetaWritten(then)
      /\ meta' = refreshed
      /\ metaQ' = Persisted(Tail(metaQ), meta, refreshed)

WrittenOnly ==
  /\ MetaWritten("nothing")
  /\ metaQ' = Tail(metaQ)
  /\ UNCHANGED <<life, meta, turns, hold, view, harness, history>>

(* After the transition to initializing: the adapter is asked for a process. *)
WrittenSpawn ==
  /\ TransitionDone("spawn")
  /\ opening = "requested"
  /\ opening' = "spawning"
  /\ UNCHANGED <<mode, runtime, closing, turns, hold, view, harness, history>>

(* After the transition that ends createSession or resumeSession. *)
WrittenRefresh ==
  /\ TransitionDone("refresh")
  /\ UNCHANGED <<life, turns, hold, view, harness, history>>

(* Mutant: what was held is dropped with the hold. *)
WrittenRunningDropsHeld ==
  /\ \/ TransitionDone("running") /\ UNCHANGED draining
     \/ TransitionDone("drained") /\ draining' = FALSE
  /\ held' = <<>>
  /\ holding' = FALSE
  /\ UNCHANGED <<life, queue, flush, starts, activeTurn, view, harness, history>>

(* After the transition to running: startPrompt releases the hold. *)
WrittenRunning ==
  /\ \/ TransitionDone("running") /\ UNCHANGED draining
     \/ TransitionDone("drained") /\ draining' = FALSE
  /\ flush' = held
  /\ held' = <<>>
  /\ holding' = FALSE
  /\ UNCHANGED <<life, queue, starts, activeTurn, view, harness, history>>

(* Mutant: a prompt that started since the turn ended is overlooked. *)
CanDrainAlways == runtime # "none" /\ queue # <<>>

(* drainQueuedPrompts' guard *)
CanDrain ==
  /\ ~draining /\ runtime # "none" /\ activeTurn = 0 /\ meta.status = "idle"
  /\ queue # <<>>

(* Mutant: the end of a turn does not look at the queue. *)
WrittenIdleOnly ==
  /\ TransitionDone("idle")
  /\ UNCHANGED <<life, turns, hold, view, harness, history>>

(* After the transition to idle at a turn's end: one queued prompt is promoted. *)
WrittenIdle ==
  /\ TransitionDone("idle")
  /\ \/ /\ ~CanDrain
        /\ UNCHANGED <<queue, draining, starts, holding, held, live>>
     \/ /\ CanDrain /\ closing # "terminating"
        /\ Send(Head(queue), TRUE)
        /\ queue' = Tail(queue)
        /\ draining' = TRUE
     \/ /\ CanDrain /\ closing = "terminating"
        /\ queue' = <<>>
        /\ holding' = FALSE
        /\ held' = <<>>
        /\ UNCHANGED <<draining, starts, live>>
  /\ UNCHANGED <<life, activeTurn, flush, view, aborted, asked, history>>

(* After the transition to closed: a user's close also lowers the attention. *)
WrittenClosed ==
  /\ MetaWritten("closed")
  /\ LET tidied == IF mode = "up" THEN [meta EXCEPT !.attn = "none"] ELSE meta
     IN  /\ meta' = tidied
         /\ metaQ' = Persisted(Tail(metaQ), meta, tidied)
  /\ closing' = "none"
  /\ UNCHANGED <<mode, runtime, opening, turns, hold, view, harness, history>>

WriteCompletes ==
  \/ WrittenOnly \/ WrittenSpawn \/ WrittenRefresh
  \/ WrittenRunning \/ WrittenIdle \/ WrittenClosed

-----------------------------------------------------------------------------
(* The harness *)

HarnessEvent(event) ==
  /\ Subscribed
  /\ ApplyEvent(event)
  /\ EventFrame
  /\ UNCHANGED <<runtime, starts, holding, flush>>

TurnEnd(turn, result) ==
  /\ turn \in live
  /\ result \in IF turn \in aborted THEN {"canceled"} ELSE {"completed", "failed"}
  /\ live' = live \ {turn}
  /\ aborted' = aborted \ {turn}
  /\ HarnessEvent([kind |-> "end", turn |-> turn, outcome |-> result])
  /\ UNCHANGED asked

(* An approval identifier is used again only when nothing speaks of its last use. *)
Fresh(req) ==
  /\ req \notin asked \cup pending
  /\ \A i \in DOMAIN held : held[i].kind \in {"ask", "answer"} => held[i].req # req

Ask(req) ==
  /\ live # {} /\ Fresh(req)
  /\ asked' = asked \cup {req}
  /\ HarnessEvent([kind |-> "ask", req |-> req])
  /\ UNCHANGED <<live, aborted>>

(***************************************************************************)
(* The process exits by itself.  Its exited promise first rejects every    *)
(* request in flight and then emits the error status; the catch clause of  *)
(* startPrompt runs after both, so an error put on hold is dropped with    *)
(* the hold.  "crash" is an exit while a startTurn is in flight.           *)
(***************************************************************************)
HarnessCrash ==
  /\ runtime = "live" /\ Subscribed
  /\ Allows("crash") \/ starts = {}
  /\ runtime' = "dead"
  /\ live' = {}
  /\ aborted' = {}
  /\ \/ /\ starts = {}
        /\ ApplyEvent([kind |-> "error"])
        /\ UNCHANGED <<starts, holding, draining>>
     \/ /\ starts # {} /\ holding
        /\ AbandonStarts(starts)
        /\ queue' = IF DrainFailed(starts) THEN <<>> ELSE queue
        /\ UNCHANGED <<meta, metaQ, activeTurn, view, lastEnded>>
     \/ /\ starts # {} /\ ~holding
        /\ HandleError
        /\ AbandonStarts(starts)
  /\ UNCHANGED <<opening, closing, mode, disk, flush, asked, submitted, stopMark,
                 lastOpened, opens, restarts>>

-----------------------------------------------------------------------------
(* The other requests of clients *)

(* The adapter forgets the request, tells the harness, and emits permission_resolved. *)
RespondPermission(req) ==
  /\ Serving /\ req \in pending /\ req \in asked
  /\ asked' = asked \ {req}
  /\ HarnessEvent([kind |-> "answer", req |-> req])
  /\ UNCHANGED <<live, aborted>>

(* Mutant: the turn in progress is aborted and the queued prompts are kept. *)
InterruptTurnOnly ==
  /\ Serving
  /\ activeTurn # 0 \/ queue # <<>>
  /\ aborted' = IF runtime # "none" /\ activeTurn # 0 THEN live ELSE aborted
  /\ stopMark' = submitted
  /\ UNCHANGED <<life, store, turns, hold, view, live, asked,
                 submitted, lastOpened, lastEnded, opens, restarts>>

(***************************************************************************)
(* interrupt: drop the queued prompts, then abort the turn in progress, if *)
(* activeTurnId is set.  "stop" is an interrupt while a startTurn is in    *)
(* flight.                                                                 *)
(***************************************************************************)
Interrupt ==
  /\ Serving
  /\ Allows("stop") \/ starts = {}
  /\ activeTurn # 0 \/ queue # <<>> \/ starts # {}
  /\ queue' = <<>>
  /\ aborted' = IF runtime # "none" /\ activeTurn # 0 THEN live ELSE aborted
  /\ stopMark' = submitted
  /\ UNCHANGED <<life, store, draining, starts, activeTurn, hold, view, live, asked,
                 submitted, lastOpened, lastEnded, opens, restarts>>

(* Mutant: a caller waits although no turn is in progress. *)
WaitForTurnAlways(caller) ==
  /\ Serving /\ caller \notin waiters
  /\ waiters' = waiters \cup {caller}
  /\ UNCHANGED <<life, store, turns, hold, pending, outcome, ack, harness, history>>

(* waitForTurn returns at once unless a turn is in progress. *)
WaitForTurn(caller) ==
  /\ Serving /\ activeTurn # 0 /\ caller \notin waiters
  /\ waiters' = waiters \cup {caller}
  /\ UNCHANGED <<life, store, turns, hold, pending, outcome, ack, harness, history>>

WaitTimeout(caller) ==
  /\ caller \in waiters
  /\ waiters' = waiters \ {caller}
  /\ UNCHANGED <<life, store, turns, hold, pending, outcome, ack, harness, history>>

AcknowledgeAttention ==
  /\ Serving /\ meta.status # "none"
  /\ ack' = TRUE
  /\ outcome' = "none"
  /\ Refresh(pending, "none", TRUE)
  /\ UNCHANGED <<life, disk, turns, hold, pending, waiters, harness, history>>

-----------------------------------------------------------------------------
(* closeSession, shutdown, and the daemon going down and coming up again *)

(* "close" is a close while a prompt is being opened or a process is being started. *)
MayClose == Allows("close") \/ (~holding /\ opening = "none")

(* Mutant: a close ends the process and leaves the queued prompts. *)
CloseBeginsQueueKept ==
  /\ \/ /\ runtime # "none"
        /\ closing' = "terminating"
        /\ AbandonStarts(starts)
        /\ UNCHANGED <<meta, metaQ>>
     \/ /\ runtime = "none"
        /\ closing' = "persisting"
        /\ Transition("closed", "closed")
        /\ UNCHANGED <<draining, starts, holding, held>>
  /\ UNCHANGED <<mode, runtime, opening, disk, queue, activeTurn, flush, view, harness, history>>

(***************************************************************************)
(* closeSession up to its first await.  close() rejects the requests in    *)
(* flight.                                                                 *)
(***************************************************************************)
CloseBegins ==
  /\ queue' = <<>>
  /\ \/ /\ runtime # "none"
        /\ closing' = "terminating"
        /\ AbandonStarts(starts)
        /\ UNCHANGED <<meta, metaQ>>
     \/ /\ runtime = "none"
        /\ closing' = "persisting"
        /\ Transition("closed", "closed")
        /\ UNCHANGED <<draining, starts, holding, held>>
  /\ UNCHANGED <<mode, runtime, opening, disk, activeTurn, flush, view, harness, history>>

CloseSession ==
  /\ Serving /\ closing = "none" /\ meta.status # "none"
  /\ MayClose
  /\ CloseBegins

(* runtime.close() resolves: the process is gone. *)
Terminated ==
  /\ closing = "terminating"
  /\ closing' = "persisting"
  /\ runtime' = "none"
  /\ activeTurn' = 0
  /\ pending' = {}
  /\ waiters' = {}
  /\ Transition("closed", "closed")
  /\ live' = {} /\ aborted' = {} /\ asked' = {}
  /\ UNCHANGED <<mode, opening, disk, queue, draining, starts, hold, outcome, ack, history>>

(***************************************************************************)
(* shutdown: interrupt a turn in progress, then close.  Requests have      *)
(* stopped by then.  The queue is left to closeSession: "shutdown" is a    *)
(* shutdown while prompts are queued.                                      *)
(***************************************************************************)
Shutdown ==
  /\ mode = "up" /\ closing = "none"
  /\ MayClose
  /\ Allows("shutdown") \/ queue = <<>>
  /\ mode' = "stopping"
  /\ closing' = IF runtime = "none" THEN "none" ELSE "interrupting"
  /\ aborted' = IF runtime # "none" /\ activeTurn # 0 THEN live ELSE aborted
  /\ UNCHANGED <<runtime, opening, store, turns, hold, view, live, asked, history>>

(* Mutant: the shutdown waits for the turn it interrupted to end. *)
ShutdownCloseWhenIdle ==
  /\ mode = "stopping" /\ closing = "interrupting" /\ activeTurn = 0
  /\ CloseBegins

(* The interrupt was sent or failed, or 30 seconds have passed: close in any case. *)
ShutdownClose ==
  /\ mode = "stopping" /\ closing = "interrupting"
  /\ CloseBegins

(* Only what is on disk survives. *)
GoDown ==
  /\ mode' = "down"
  /\ runtime' = "none" /\ opening' = "none" /\ closing' = "none"
  /\ meta' = disk /\ metaQ' = <<>>
  /\ queue' = <<>> /\ draining' = FALSE /\ starts' = {} /\ activeTurn' = 0
  /\ holding' = FALSE /\ held' = <<>> /\ flush' = <<>>
  /\ pending' = {} /\ outcome' = "none" /\ ack' = TRUE /\ waiters' = {}
  /\ live' = {} /\ aborted' = {} /\ asked' = {}
  /\ UNCHANGED <<disk, history>>

(* shutdown's last await: every chain is empty. *)
ShutdownDone ==
  /\ mode = "stopping" /\ closing = "none" /\ metaQ = <<>>
  /\ GoDown

DaemonCrash ==
  /\ mode = "up" /\ restarts < MaxRestarts
  /\ GoDown

(* Mutant: a status that was active when the daemon crashed is believed. *)
RestartUncorrected ==
  /\ mode = "down" /\ restarts < MaxRestarts
  /\ mode' = "up"
  /\ restarts' = restarts + 1
  /\ ack' = (meta.attn = "none")
  /\ UNCHANGED <<runtime, opening, closing, store, turns, hold, pending, outcome, waiters,
                 harness, submitted, stopMark, lastOpened, lastEnded, opens>>

(***************************************************************************)
(* init: an active status left on disk is corrected to closed, and written *)
(* back; the attention comes back as it was persisted.                     *)
(***************************************************************************)
Restart ==
  /\ mode = "down" /\ restarts < MaxRestarts
  /\ mode' = "up"
  /\ restarts' = restarts + 1
  /\ meta' = IF meta.status \in {"initializing", "idle", "running"}
             THEN [meta EXCEPT !.status = "closed"] ELSE meta
  /\ disk' = meta'
  /\ ack' = (meta.attn = "none")
  /\ UNCHANGED <<runtime, opening, closing, metaQ, turns, hold, pending, outcome, waiters,
                 harness, submitted, stopMark, lastOpened, lastEnded, opens>>

-----------------------------------------------------------------------------
Init ==
  /\ mode = "up" /\ runtime = "none" /\ opening = "none" /\ closing = "none"
  /\ meta = NoMeta /\ disk = NoMeta /\ metaQ = <<>>
  /\ queue = <<>> /\ draining = FALSE /\ starts = {} /\ activeTurn = 0
  /\ holding = FALSE /\ held = <<>> /\ flush = <<>>
  /\ pending = {} /\ outcome = "none" /\ ack = TRUE /\ waiters = {}
  /\ live = {} /\ aborted = {} /\ asked = {}
  /\ submitted = 0 /\ stopMark = 0 /\ lastOpened = 0 /\ lastEnded = 0 /\ opens = 0 /\ restarts = 0

StartTurnResolves == \E start \in starts : StartTurnOk(start) \/ StartTurnFail(start)

SpawnResolves == SpawnOk \/ SpawnFail

ClientStep ==
  \/ CreateSession \/ ResumeSession
  \/ PromptQueued \/ PromptStarted \/ Interrupt
  \/ \E req \in Perms : RespondPermission(req)
  \/ \E caller \in Waiters : WaitForTurn(caller)
  \/ AcknowledgeAttention
  \/ CloseSession

HarnessStep ==
  \/ \E turn \in live, result \in Outcomes : TurnEnd(turn, result)
  \/ \E req \in Perms : Ask(req)
  \/ HarnessCrash

DaemonStep ==
  \/ StartTurnResolves \/ SpawnResolves
  \/ WriteCompletes
  \/ \E caller \in Waiters : WaitTimeout(caller)
  \/ Terminated
  \/ Shutdown \/ ShutdownClose \/ ShutdownDone
  \/ DaemonCrash \/ Restart

Next ==
  \/ FlushOne
  \/ flush = <<>> /\ Len(metaQ) < MaxWrites /\ (ClientStep \/ HarnessStep)
  \/ flush = <<>> /\ DaemonStep

(***************************************************************************)
(* What the runtime owes: the event loop runs what is ready, file writes   *)
(* complete, a request to the harness is answered or times out after 30    *)
(* seconds, and close() kills a process that does not leave by itself.     *)
(* Nothing is assumed of clients, nor that a harness ever ends a turn.     *)
(***************************************************************************)
Fairness ==
  /\ WF_vars(FlushOne)
  /\ WF_vars(flush = <<>> /\ WriteCompletes)
  /\ WF_vars(flush = <<>> /\ StartTurnResolves)
  /\ WF_vars(flush = <<>> /\ SpawnResolves)
  /\ WF_vars(flush = <<>> /\ Terminated)
  /\ WF_vars(flush = <<>> /\ ShutdownClose)

Spec == Init /\ [][Next]_vars /\ Fairness

-----------------------------------------------------------------------------
(* Properties that hold whatever the environment does *)

(* Every variable keeps its type: the one type invariant of the module, group by group. *)
LifeOK ==
  /\ mode \in {"up", "stopping", "down"}
  /\ runtime \in {"none", "live", "dead"}
  /\ opening \in {"none", "requested", "spawning"}
  /\ closing \in {"none", "interrupting", "terminating", "persisting"}

StoreOK == meta \in Meta /\ disk \in Meta /\ metaQ \in Seq([meta : Meta, then : Thens])

TurnsOK ==
  /\ queue \in Seq(Turn) /\ draining \in BOOLEAN
  /\ starts \in SUBSET Start /\ activeTurn \in {0} \cup Turn

HoldOK == holding \in BOOLEAN /\ held \in Seq(Event) /\ flush \in Seq(Event)

ViewOK ==
  /\ pending \in SUBSET Perms /\ outcome \in Outcomes
  /\ ack \in BOOLEAN /\ waiters \in SUBSET Waiters

HarnessOK == live \in SUBSET Turn /\ aborted \in SUBSET Turn /\ asked \in SUBSET Perms

HistoryOK ==
  /\ submitted \in 0..MaxPrompts /\ stopMark \in 0..MaxPrompts
  /\ lastOpened \in 0..MaxPrompts /\ lastEnded \in 0..MaxPrompts
  /\ opens \in 0..MaxOpens /\ restarts \in 0..MaxRestarts

TypeOK == LifeOK /\ StoreOK /\ TurnsOK /\ HoldOK /\ ViewOK /\ HarnessOK /\ HistoryOK

(***************************************************************************)
(* Nobody waits for a turn that is over: every path on which the active    *)
(* turn disappears (end, error, close) releases the callers of             *)
(* waitForTurn.  The comment on turnWaiters asks for exactly this.         *)
(***************************************************************************)
WaitersReleased == waiters # {} => activeTurn # 0

(***************************************************************************)
(* The status clients see and the field the manager decides by agree: a    *)
(* session is running exactly while it has an active turn, however starts, *)
(* ends, crashes and closes interleave.                                    *)
(***************************************************************************)
RunningIffActive == mode # "down" => (meta.status = "running" <=> activeTurn # 0)

(***************************************************************************)
(* No change to the meta is left unpersisted: once the queued writes are   *)
(* done, meta.json says what memory says, so a restart at any later moment *)
(* reads it.  A write overtaken by another, or a change made without       *)
(* persistMeta, would break this.                                          *)
(***************************************************************************)
Settled(file, writes) == IF writes = <<>> THEN file ELSE writes[Len(writes)].meta

DiskCurrent == meta = Settled(disk, metaQ)

(***************************************************************************)
(* When nothing is on its way, the attention shown is the policy's verdict *)
(* on the session as it is: every path that changes an input of the policy *)
(* (approvals, status, outcome, acknowledgement) ends in a refresh.        *)
(***************************************************************************)
Quiet == metaQ = <<>> /\ flush = <<>>

Verdict == ResolveReason(meta.status, pending, outcome, ack)

AttentionCurrent == Quiet /\ runtime # "none" => meta.attn = Verdict

-----------------------------------------------------------------------------
(* Properties that hold if the environment leaves the windows alone *)

(***************************************************************************)
(* A session is never busy for good: the active turn is still running in   *)
(* the harness, or the event that will clear it has already arrived.  This *)
(* is the defect that eventHold was introduced for.                        *)
(***************************************************************************)
Arrived(events, kinds) == \E i \in DOMAIN events : events[i].kind \in kinds

NeverStuckBusy ==
  activeTurn # 0 /\ closing # "terminating" =>
    activeTurn \in live \/ Arrived(held \o flush, {"end", "error"})

(* The timeline never shows the end of a turn before its start. *)
EndAfterStart == lastEnded <= lastOpened

(* What eventHold keeps back comes after the start of the turn, and its end is not lost. *)
HoldKeepsOrder == NeverStuckBusy /\ EndAfterStart

(***************************************************************************)
(* The harness never works on two prompts of a session at the same time:   *)
(* one active turn per session (daemon-design 4), and startPrompt is only  *)
(* called without one.                                                     *)
(***************************************************************************)
OneTurnAtATime == Cardinality(live) <= 1

(***************************************************************************)
(* Prompts become turns in the order in which they were accepted           *)
(* (queuedPrompts is a FIFO), and none opens behind an older one that the  *)
(* harness still works on.                                                 *)
(***************************************************************************)
AcceptedInOrder ==
  [][lastOpened' # lastOpened =>
       lastOpened' > lastOpened /\ \A turn \in live : turn >= lastOpened']_vars

(***************************************************************************)
(* After interrupt, nothing submitted before it goes on: each such turn    *)
(* the harness still has was told to abort, and none reaches it later.     *)
(***************************************************************************)
StopReachesHarness == \A turn \in live : turn <= stopMark => turn \in aborted

(* An unexpected exit of the harness shows as the session's error status. *)
CrashSurfaces ==
  runtime = "dead" => meta.status = "error" \/ Arrived(held \o flush, {"error"})

(***************************************************************************)
(* A session that looks usable has a runtime, and one that looks as if it  *)
(* is starting has a start under way: no late write or event revives the   *)
(* status of a session that was closed.                                    *)
(***************************************************************************)
StatusHasRuntime ==
  mode # "down" =>
    /\ meta.status \in {"idle", "running"} => runtime # "none"
    /\ meta.status = "initializing" => opening # "none"

(***************************************************************************)
(* Queued prompts die with the runtime they were queued for: no prompt of  *)
(* before a close runs after a resume.                                     *)
(***************************************************************************)
NoStaleQueue == runtime = "none" => queue = <<>>

(***************************************************************************)
(* A queued prompt is never stranded: if no turn is active, one becomes    *)
(* active, or the queue is given up with an error, or the session ends.    *)
(***************************************************************************)
QueueDrains ==
  (queue # <<>> /\ activeTurn = 0) ~> (activeTurn # 0 \/ queue = <<>>)

(***************************************************************************)
(* A shutdown never takes a session's need for attention away, although it *)
(* closes the session and forgets its approvals: attention that is still   *)
(* due stays in memory and in what the next start reads (closeSession's    *)
(* comment on its reason).                                                 *)
(***************************************************************************)
AttentionSurvivesShutdown ==
  [][mode = "stopping" /\ meta.attn # "none" /\ (runtime = "none" \/ Verdict # "none")
       => meta'.attn # "none"]_vars

(***************************************************************************)
(* A daemon that shuts down sends no further prompt to the harness.        *)
(***************************************************************************)
ShutdownStartsNothing == [][mode = "stopping" => starts' \subseteq starts]_vars

(* A close in progress completes, whatever the harness does meanwhile. *)
CloseCompletes == closing # "none" ~> closing = "none"

=============================================================================
