----------------------------- MODULE AcpSession -----------------------------
(***************************************************************************)
(* A session of grok: GrokSession over AcpClient (adapters/acp).           *)
(* startTurn returns at once; the answer to session/prompt, which has no   *)
(* timer, is the end of the turn.  interrupt is a notification.            *)
(***************************************************************************)
EXTENDS AdapterSession

Acp == harness = "grok"

AcpOpens ==
  /\ Acp /\ phase = "spawned"
  /\ phase' = "initialize" /\ Send(pending, "initialize", 0)
  /\ UNCHANGED <<harness, resumed, suppressReplay, turnCounter, activeTurnId, permissions, call,
                 mcpToolsLoaded, chunks, closed, settled, proc, wire, inside, seen>>

-----------------------------------------------------------------------------
(* open() and startTurn after an answer, a time-out or a rejection (ok = FALSE) *)

AfterInitialize(request, ok, rest) ==
  /\ request.cmd = "initialize" /\ ok
  /\ phase' = IF resumed THEN "load" ELSE "new"
  /\ suppressReplay' = resumed
  /\ Send(rest, phase', 0)
  /\ UNCHANGED <<activeTurnId, closed, turn, ends>>

(* The session exists: it is open, or its model is set first. *)
AfterSession(request, ok, rest) ==
  /\ request.cmd \in {"new", "load"} /\ ok
  /\ suppressReplay' = FALSE
  /\ \/ phase' = "open" /\ SendNothing(rest)
     \/ phase' = "set_model" /\ Send(rest, "set_model", 0)
  /\ UNCHANGED <<activeTurnId, closed, turn, ends>>

AfterModel(request, ok, rest) ==
  /\ request.cmd = "set_model" /\ phase = "set_model" => ok
  /\ request.cmd = "set_model"
  /\ phase' = IF phase = "set_model" THEN "open" ELSE phase
  /\ SendNothing(rest)
  /\ UNCHANGED <<suppressReplay, activeTurnId, closed, turn, ends>>

(* open() throws: spawnSession closes the session. *)
AfterFailure(request, ok, rest) ==
  /\ request.cmd = phase /\ ~ok
  /\ phase' = "failed" /\ closed' = TRUE
  /\ suppressReplay' = FALSE
  /\ SendNothing({})
  /\ UNCHANGED <<activeTurnId, turn, ends>>

(* Mutant: the failure of a prompt is not turned into the end of its turn. *)
AfterTurnSilent(request, ok, rest) ==
  /\ request.cmd = "prompt"
  /\ activeTurnId' = 0
  /\ turn' = IF Subscribed /\ ok THEN [turn EXCEPT ![request.turn] = "ended"] ELSE turn
  /\ UNCHANGED ends
  /\ SendNothing(rest)
  /\ UNCHANGED <<phase, suppressReplay, closed>>

(* The end of the turn: completed, cancelled, refused, or failed with the request. *)
AfterTurn(request, ok, rest) ==
  /\ request.cmd = "prompt"
  /\ activeTurnId' = 0
  /\ turn' = IF Subscribed THEN [turn EXCEPT ![request.turn] = "ended"] ELSE turn
  /\ ends' = IF Subscribed THEN ends \cup {[of |-> request.turn, as |-> request.turn]} ELSE ends
  /\ SendNothing(rest)
  /\ UNCHANGED <<phase, suppressReplay, closed>>

AcpAfter(request, ok, rest) ==
  /\ \/ AfterInitialize(request, ok, rest) \/ AfterSession(request, ok, rest)
     \/ AfterModel(request, ok, rest)      \/ AfterFailure(request, ok, rest)
     \/ AfterTurn(request, ok, rest)
  /\ UNCHANGED <<harness, resumed, turnCounter, permissions, call, mcpToolsLoaded, chunks, replayed>>

AcpContinues ==
  /\ Acp /\ ~Quiet
  /\ settled' = Tail(settled)
  /\ AcpAfter(Head(settled).request, Head(settled).ok, pending)
  /\ UNCHANGED <<proc, wire, inside, reported>>

(* Every request has a timer but the prompt. *)
AcpTimesOut ==
  /\ Acp /\ Quiet
  /\ \E request \in pending :
       /\ request.cmd # "prompt"
       /\ AcpAfter(request, FALSE, pending \ {request})
  /\ UNCHANGED <<settled, proc, wire, inside, reported>>

(* The process dies: failAllPending, and the error signal unless it was terminated. *)
AcpExits ==
  /\ Acp /\ Quiet /\ Alive
  /\ proc' = "exited"
  /\ \/ \E request \in pending :
          /\ request.cmd \in {"prompt", phase}
          /\ AcpAfter(request, FALSE, {})
     \/ /\ \A request \in pending : request.cmd \notin {"prompt", phase}
        /\ SendNothing({})
        /\ UNCHANGED <<object, closed, turn, ends, replayed>>
  /\ reported' = (reported \/ (Subscribed /\ ~closed))
  /\ UNCHANGED <<settled, wire, inside>>

-----------------------------------------------------------------------------
(* Calls *)

AcpStartsTurn ==
  /\ Acp /\ MayStart /\ activeTurnId = 0
  /\ LET t == turnCounter + 1
     IN  /\ turnCounter' = t /\ activeTurnId' = t
         /\ turn' = [turn EXCEPT ![t] = "begun"]
         /\ Send(pending, "prompt", t)
  /\ UNCHANGED <<harness, resumed, phase, suppressReplay, permissions, call, mcpToolsLoaded,
                 chunks, closed, settled, proc, wire, inside, reported, ends, replayed>>

(* interrupt: session/cancel. *)
AcpInterrupts ==
  /\ Acp /\ MayInterrupt
  /\ \A i \in DOMAIN sent : sent[i].cmd # "cancel"
  /\ sent' = Written([cmd |-> "cancel"])
  /\ UNCHANGED <<object, transport, proc, wire, inside, seen>>

AcpSetsModel == Acp /\ SetModel

AcpResponds ==
  /\ Acp /\ Quiet /\ phase = "open"
  /\ \E p \in permissions :
       /\ permissions' = permissions \ {p}
       /\ sent' = Written(Answer(p))
  /\ UNCHANGED <<harness, resumed, phase, suppressReplay, turnCounter, activeTurnId, call,
                 mcpToolsLoaded, chunks, transport, proc, wire, inside, seen>>

(* close, after the session manager has unsubscribed. *)
AcpCloses ==
  /\ Acp /\ Quiet /\ phase = "open" /\ ~closed
  /\ closed' = TRUE /\ phase' = "closed"
  /\ pending' = {} /\ activeTurnId' = 0
  /\ UNCHANGED <<harness, resumed, suppressReplay, turnCounter, permissions, call, mcpToolsLoaded,
                 chunks, nextId, settled, process, inside, seen>>

-----------------------------------------------------------------------------
(* Frames: onNotification, onServerRequest, answers *)

(* Mutant: a request of the harness is shown but not kept. *)
KeptNowhere(p) == permissions

(* onServerRequest: the approval is kept until it is answered. *)
Kept(p) == permissions \cup {p}

AcpRoutes ==
  /\ Acp /\ wire # <<>> /\ wire' = Tail(wire)
  /\ LET frame == Head(wire)
     IN  \/ /\ frame.type = "response" /\ RouteResponse(frame) /\ UNCHANGED permissions
         \/ /\ frame.type = "ask" /\ permissions' = Kept(frame.perm)
            /\ UNCHANGED <<transport, proc, sent, inside, seen>>
         \/ /\ frame.type = "replay" /\ EmitReplay
            /\ UNCHANGED <<permissions, transport, proc, sent, inside>>
  /\ UNCHANGED <<harness, resumed, phase, suppressReplay, turnCounter, activeTurnId, call,
                 mcpToolsLoaded, chunks>>

-----------------------------------------------------------------------------
(* The harness *)

AcpHarnessEnds ==
  /\ Acp /\ Works /\ asked = {}
  /\ \E ok \in BOOLEAN : Writes(<<Response(running.id, ok)>>)
  /\ running' = Idle /\ UNCHANGED asked

AcpHarnessTakes ==
  /\ Acp /\ Taking
  /\ LET request == Head(sent)
     IN  \/ /\ request.cmd = "prompt" /\ running = Idle
            /\ running' = [id |-> request.id, turn |-> request.turn]
            /\ UNCHANGED <<wire, asked>>
         \/ /\ request.cmd = "prompt"
            /\ Writes(<<Response(request.id, FALSE)>>) /\ UNCHANGED inside
         \/ /\ request.cmd = "cancel" /\ running # Idle
            /\ Writes(<<Response(running.id, TRUE)>>)
            /\ running' = Idle /\ asked' = {}
         \/ /\ request.cmd = "cancel" /\ running = Idle
            /\ UNCHANGED <<wire, inside>>

AcpNext ==
  \/ AcpOpens \/ AcpContinues \/ AcpTimesOut \/ AcpExits
  \/ AcpStartsTurn \/ AcpInterrupts \/ AcpSetsModel \/ AcpResponds \/ AcpCloses
  \/ AcpRoutes \/ AcpHarnessEnds \/ AcpHarnessTakes
=============================================================================
