---------------------------- MODULE JsonlSession ----------------------------
(***************************************************************************)
(* A session of pi or omp: JsonlRpcSessionCore over JsonlRpcTransport      *)
(* (adapters/jsonl-rpc).  startTurn resolves when the harness accepts the  *)
(* prompt; the turn ends later, with the agent_end frame.  Every request   *)
(* has a timer.                                                            *)
(***************************************************************************)
EXTENDS AdapterSession

Jsonl == harness \in {"pi", "omp"}

(***************************************************************************)
(* spawnSession after the spawn: pi asks for the state; omp waits for      *)
(* `ready`, or for its timer, and negotiates first.                        *)
(***************************************************************************)
JsonlOpens ==
  /\ Jsonl /\ phase = "spawned"
  /\ phase' = IF harness = "pi" THEN "get_state" ELSE "negotiate"
  /\ suppressReplay' = (harness = "omp" /\ resumed)
  /\ Send(pending, phase', 0)
  /\ UNCHANGED <<harness, resumed, turnCounter, activeTurnId, permissions, call, mcpToolsLoaded,
                 chunks, closed, settled, proc, wire, inside, seen>>

-----------------------------------------------------------------------------
(* What follows an answer, a time-out (ok = FALSE) or a rejection of a request *)

(* negotiate: a refusal leaves version 1, loadState comes next either way. *)
AfterNegotiate(request, ok, rest) ==
  /\ request.cmd = "negotiate"
  /\ phase' = "get_state" /\ Send(rest, "get_state", 0)
  /\ UNCHANGED <<activeTurnId, call, mcpToolsLoaded, closed, turn>>

(* loadState: the session is open, or is closed and thrown away. *)
AfterState(request, ok, rest) ==
  /\ request.cmd = "get_state" /\ phase = "get_state"
  /\ phase' = IF ok THEN "open" ELSE "failed"
  /\ closed' = ~ok
  /\ SendNothing(rest)
  /\ UNCHANGED <<activeTurnId, call, mcpToolsLoaded, turn>>

(* hasMcpTools, asked by the gate of startTurn. *)
AfterPoll(request, ok, rest) ==
  /\ request.cmd = "get_state" /\ phase # "get_state"
  /\ mcpToolsLoaded' = (mcpToolsLoaded \/ ok)
  /\ SendNothing(rest)
  /\ UNCHANGED <<phase, activeTurnId, call, closed, turn>>

(* startTurn: it returns the turn, or forgets it and throws. *)
AfterPrompt(request, ok, rest) ==
  /\ request.cmd = "prompt"
  /\ call' = "none"
  /\ activeTurnId' = IF ok THEN activeTurnId ELSE 0
  /\ turn' = IF ok THEN turn ELSE [turn EXCEPT ![request.turn] = "refused"]
  /\ SendNothing(rest)
  /\ UNCHANGED <<phase, mcpToolsLoaded, closed>>

AfterOther(request, ok, rest) ==
  /\ request.cmd \in {"abort", "set_model"}
  /\ SendNothing(rest)
  /\ UNCHANGED <<phase, activeTurnId, call, mcpToolsLoaded, closed, turn>>

After(request, ok, rest) ==
  /\ \/ AfterNegotiate(request, ok, rest) \/ AfterState(request, ok, rest)
     \/ AfterPoll(request, ok, rest)      \/ AfterPrompt(request, ok, rest)
     \/ AfterOther(request, ok, rest)
  /\ UNCHANGED <<harness, resumed, suppressReplay, turnCounter, permissions, chunks, ends, replayed>>

JsonlContinues ==
  /\ Jsonl /\ ~Quiet
  /\ settled' = Tail(settled)
  /\ After(Head(settled).request, Head(settled).ok, pending)
  /\ UNCHANGED <<proc, wire, inside, reported>>

(* The timer of a request; the harness may still act on it ("late" for a prompt). *)
JsonlTimesOut ==
  /\ Jsonl /\ Quiet
  /\ \E request \in pending :
       /\ request.cmd = "prompt" => ~Alive \/ Allows("late")
       /\ After(request, FALSE, pending \ {request})
  /\ UNCHANGED <<settled, proc, wire, inside, reported>>

(* failAllPending: at most one of the entries has a continuation that does anything. *)
FailAllPending ==
  \/ \E request \in pending :
       /\ request.cmd \in {"negotiate", "prompt"} \/ request.cmd = phase
       /\ After(request, FALSE, {})
  \/ /\ \A request \in pending : request.cmd \notin {"negotiate", "prompt", phase}
     /\ SendNothing({})
     /\ UNCHANGED <<object, closed, turn, ends, replayed>>

(***************************************************************************)
(* The process dies.  Unless it was terminated, the listeners are told.    *)
(* Its last output may be read only after that ("unread").                 *)
(***************************************************************************)
JsonlExits ==
  /\ Jsonl /\ Quiet /\ Alive
  /\ wire = <<>> \/ Allows("unread")
  /\ proc' = "exited"
  /\ FailAllPending
  /\ reported' = (reported \/ (Subscribed /\ ~closed))
  /\ UNCHANGED <<settled, wire, inside>>

-----------------------------------------------------------------------------
(* Calls *)

(* JsonlRpcSessionCore.startTurn.  A transport that is closed rejects it at once. *)
Prompt ==
  LET t == turnCounter + 1
  IN  /\ suppressReplay' = FALSE
      /\ turnCounter' = t
      /\ \/ /\ ~closed
            /\ activeTurnId' = t /\ call' = "sent"
            /\ turn' = [turn EXCEPT ![t] = "begun"]
            /\ Send(pending, "prompt", t)
         \/ /\ closed
            /\ activeTurnId' = 0 /\ call' = "none"
            /\ UNCHANGED <<turn, pending, nextId, sent>>
      /\ UNCHANGED <<harness, resumed, phase, permissions, mcpToolsLoaded, chunks, closed, settled,
                     proc, wire, inside, reported, ends, replayed>>

(* From its second turn on, omp first waits for the tools of its MCP servers. *)
MustGate == harness = "omp" /\ turnCounter > 0 /\ ~mcpToolsLoaded

JsonlStartsTurn == Jsonl /\ MayStart /\ ~MustGate /\ Prompt

OmpGates ==
  /\ Jsonl /\ MayStart /\ MustGate
  /\ call' = "gate"
  /\ UNCHANGED <<harness, resumed, phase, suppressReplay, turnCounter, activeTurnId, permissions,
                 mcpToolsLoaded, chunks, transport, process, inside, seen>>

Polling == \E request \in pending : request.cmd = "get_state"

OmpPolls ==
  /\ Jsonl /\ Quiet /\ call = "gate" /\ ~mcpToolsLoaded /\ ~Polling /\ ~closed
  /\ nextId < MaxRequests
  /\ Send(pending, "get_state", 0)
  /\ UNCHANGED <<object, closed, settled, proc, wire, inside, seen>>

(* The tools are there, or the deadline has passed. *)
OmpPassesGate == Jsonl /\ Quiet /\ call = "gate" /\ ~Polling /\ Prompt

JsonlInterrupts ==
  /\ Jsonl /\ MayInterrupt
  /\ Send(pending, "abort", 0)
  /\ UNCHANGED <<object, closed, settled, proc, wire, inside, seen>>

JsonlSetsModel == Jsonl /\ SetModel

(* respondToPermission (pi); omp has none to answer. *)
PiResponds ==
  /\ Jsonl /\ Quiet /\ phase = "open"
  /\ \E p \in permissions :
       /\ permissions' = permissions \ {p}
       /\ sent' = Written(Answer(p))
  /\ UNCHANGED <<harness, resumed, phase, suppressReplay, turnCounter, activeTurnId, call,
                 mcpToolsLoaded, chunks, transport, proc, wire, inside, seen>>

(* close, after the session manager has unsubscribed: dispose rejects what waits. *)
JsonlCloses ==
  /\ Jsonl /\ Quiet /\ phase = "open" /\ ~closed
  /\ closed' = TRUE /\ phase' = "closed"
  /\ pending' = {}
  /\ activeTurnId' = IF call = "sent" THEN 0 ELSE activeTurnId
  /\ turn' = IF call = "sent" THEN [turn EXCEPT ![turnCounter] = "refused"] ELSE turn
  /\ call' = IF call = "sent" THEN "none" ELSE call
  /\ UNCHANGED <<harness, resumed, suppressReplay, turnCounter, permissions, mcpToolsLoaded,
                 chunks, nextId, settled, process, inside, reported, ends, replayed>>

-----------------------------------------------------------------------------
(* Frames *)

(* onAgentEnd: it ends the active turn, or the last one when none is active. *)
OnAgentEnd(of) ==
  /\ EmitEnd(IF activeTurnId = 0 THEN turnCounter ELSE activeTurnId, of)
  /\ activeTurnId' = 0

(* handleUiRequest: pi keeps what it can show; what asks for text it cancels at once, as omp
   does with everything. *)
OnUiRequest(p) ==
  \/ harness = "pi" /\ permissions' = permissions \cup {p} /\ UNCHANGED sent
  \/ sent' = Written(Answer(p)) /\ UNCHANGED permissions

(* dispatchFrame.  While suppressReplay holds, frames of the conversation are dropped. *)
Dispatch(frame) ==
  /\ \/ /\ frame.type = "response" /\ RouteResponse(frame) /\ UNCHANGED <<activeTurnId, permissions>>
     \/ /\ frame.type = "ask" /\ OnUiRequest(frame.perm)
        /\ UNCHANGED <<activeTurnId, transport, seen>>
     \/ /\ frame.type = "replay" /\ EmitReplay
        /\ UNCHANGED <<activeTurnId, permissions, transport, sent>>
     \/ /\ frame.type = "agent_end" /\ ~suppressReplay /\ OnAgentEnd(frame.of)
        /\ UNCHANGED <<permissions, transport, sent>>
     \/ /\ frame.type = "agent_end" /\ suppressReplay
        /\ UNCHANGED <<activeTurnId, permissions, transport, sent, seen>>
  /\ UNCHANGED <<harness, resumed, phase, suppressReplay, turnCounter, call, mcpToolsLoaded,
                 proc, inside>>

(***************************************************************************)
(* RpcChunkReassembler.push: parts follow each other from 0, without       *)
(* anything in between; a part that does not fit drops the sequence.       *)
(***************************************************************************)
Push(chunk) == IF chunk.index = 0 /\ chunks = NoChunks THEN [index |-> 1, whole |-> chunk.whole]
               ELSE NoChunks

Completes(chunk) == chunks = [index |-> 1, whole |-> chunk.whole] /\ chunk.index = 1

JsonlRoutes ==
  /\ Jsonl /\ wire # <<>> /\ wire' = Tail(wire)
  /\ LET frame == Head(wire)
     IN  \/ /\ frame.type # "chunk" /\ chunks' = NoChunks
            /\ Dispatch(frame)
         \/ /\ frame.type = "chunk" /\ chunks' = Push(frame)
            /\ Completes(frame) /\ Dispatch(frame.whole)
         \/ /\ frame.type = "chunk" /\ chunks' = Push(frame)
            /\ ~Completes(frame)
            /\ UNCHANGED <<harness, resumed, phase, suppressReplay, turnCounter, activeTurnId,
                           permissions, call, mcpToolsLoaded, transport, proc, sent, inside, seen>>

-----------------------------------------------------------------------------
(* The harness *)

(* omp splits a frame that is too long for a line. *)
EndFrames(t) ==
  {<<AgentEnd(t)>>} \cup IF harness = "omp" THEN {<<Chunk(AgentEnd(t), 0), Chunk(AgentEnd(t), 1)>>} ELSE {}

JsonlHarnessEnds ==
  /\ Jsonl /\ Works /\ asked = {}
  /\ \E frames \in EndFrames(running.turn) : Writes(frames)
  /\ running' = Idle /\ UNCHANGED asked

JsonlHarnessTakes ==
  /\ Jsonl /\ Taking
  /\ LET request == Head(sent)
     IN  \/ /\ request.cmd = "prompt" /\ running = Idle
            /\ Writes(<<Response(request.id, TRUE)>>)
            /\ running' = [id |-> request.id, turn |-> request.turn] /\ UNCHANGED asked
         \/ /\ request.cmd = "prompt"
            /\ Writes(<<Response(request.id, FALSE)>>) /\ UNCHANGED inside
         \/ /\ request.cmd = "abort" /\ running # Idle
            /\ Writes(<<AgentEnd(running.turn), Response(request.id, TRUE)>>)
            /\ running' = Idle /\ asked' = {}
         \/ /\ request.cmd = "abort" /\ running = Idle
            /\ Writes(<<Response(request.id, TRUE)>>) /\ UNCHANGED inside

JsonlNext ==
  \/ JsonlOpens \/ JsonlContinues \/ JsonlTimesOut \/ JsonlExits
  \/ JsonlStartsTurn \/ OmpGates \/ OmpPolls \/ OmpPassesGate
  \/ JsonlInterrupts \/ JsonlSetsModel \/ PiResponds \/ JsonlCloses
  \/ JsonlRoutes \/ JsonlHarnessEnds \/ JsonlHarnessTakes
=============================================================================
