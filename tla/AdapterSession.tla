--------------------------- MODULE AdapterSession ---------------------------
(***************************************************************************)
(* What the two adapter families share: an AgentSession over one harness   *)
(* process.  Requests go down a FIFO (stdin), frames come up a FIFO        *)
(* (stdout), answers are correlated by id (JsonlRpcTransport, AcpClient).  *)
(*                                                                         *)
(* A frame is routed synchronously, but the continuation of a request it   *)
(* answers is a microtask, which runs after the rest of the same chunk of  *)
(* output.  So an answer first lands in `settled`, more frames may be      *)
(* routed, then the continuation runs; timers, callers and exits come only *)
(* when no continuation is waiting (Quiet).                                *)
(*                                                                         *)
(* Races names what the environment may do and the code does not guard     *)
(* against: "late" (a prompt times out although the harness will run it),  *)
(* "unread" (the exit of the process is seen before its last output) and   *)
(* "replay" (the first prompt comes while history is still being replayed). *)
(***************************************************************************)
EXTENDS Naturals, Sequences, FiniteSets

CONSTANTS
  Harnesses,    \* the adapters a behaviour may be about
  Perms,        \* approvals the harness may ask for
  MaxTurns,     \* bound: turns of a session
  MaxRequests,  \* bound: callers act only while fewer requests were made
  MaxWire,      \* bound: the harness writes only while fewer frames wait
  Races

AllHarnesses == {"pi", "omp", "grok", "mock"}
ASSUME HarnessAssumption == Harnesses \subseteq AllHarnesses
ASSUME AdapterBounds == MaxTurns \in Nat /\ MaxRequests \in Nat /\ MaxWire \in Nat
ASSUME AdapterRaces == Races \subseteq {"late", "unread", "replay"}

Turns == 1..MaxTurns

VARIABLES
  (* the session object *)
  harness,         \* AgentAdapter.id, chosen once
  resumed,         \* created by resumeSession
  phase,           \* step of spawnSession: the request it waits for; "open"; "failed"
  suppressReplay,
  turnCounter,
  activeTurnId,    \* 0 is undefined
  permissions,     \* pendingUi, pendingPermissions, MockSession.pending
  call,            \* startTurn: "none", "gate" (waits for the tools of omp), "sent"
  mcpToolsLoaded, \* omp only
  chunks,          \* the reassembler: the sequence it has the first part of
  (* the transport *)
  closed, pending, nextId, settled,
  (* the process and its pipes *)
  proc, sent, wire,
  (* the harness in it *)
  running,         \* the prompt it works on, with the id of the request
  asked,           \* approvals it waits for
  (* what the listeners have seen *)
  turn, reported, ends, replayed

object    == <<harness, resumed, phase, suppressReplay, turnCounter, activeTurnId, permissions,
               call, mcpToolsLoaded, chunks>>
transport == <<closed, pending, nextId, settled>>
process   == <<proc, sent, wire>>
inside    == <<running, asked>>
seen      == <<turn, reported, ends, replayed>>
adapterVars == <<object, transport, process, inside, seen>>

Allows(race) == race \in Races

Commands == {"initialize", "new", "load", "get_state", "negotiate", "prompt", "abort", "set_model"}
Opening  == {"initialize", "new", "load", "get_state", "negotiate", "set_model"}
Request  == [id : Nat, cmd : Commands, turn : 0..MaxTurns]

Idle     == [id |-> 0, turn |-> 0]

(* Frames; `of` is the turn the harness was running.  Deltas touch nothing and are left out. *)
Response(id, ok) == [type |-> "response", id |-> id, ok |-> ok]
Replay           == [type |-> "replay"]
AgentEnd(of)     == [type |-> "agent_end", of |-> of]
UiRequest(p)     == [type |-> "ask", perm |-> p]
Chunk(whole, i)  == [type |-> "chunk", index |-> i, whole |-> whole]
NoChunks         == [index |-> 0]
Answer(p)        == [cmd |-> "answer", perm |-> p]

(* No microtask is waiting: timers, callers and child events may run. *)
Quiet == settled = <<>>

Alive == proc = "running"

(* The session manager subscribes in the microtasks that end createSession / resumeSession. *)
Subscribed == phase = "open"

-----------------------------------------------------------------------------
(* Sending *)

(* A write to the stdin of a process that is gone reaches nobody. *)
Written(message) == IF Alive THEN Append(sent, message) ELSE sent

(* request, when `rest` are the entries that wait: the new one waits for its answer. *)
Send(rest, cmd, t) ==
  LET request == [id |-> nextId, cmd |-> cmd, turn |-> t]
  IN  /\ pending' = rest \cup {request}
      /\ nextId' = nextId + 1
      /\ sent' = Written(request)

(* A continuation that makes no request. *)
SendNothing(rest) == pending' = rest /\ UNCHANGED <<nextId, sent>>

(* Mutant: the answer is taken to be for the oldest request. *)
AnsweredInOrder(id) == {r \in pending : \A other \in pending : r.id <= other.id}

(* The entry a response is for; none when it was timed out or rejected since. *)
Answered(id) == {r \in pending : r.id = id}

(* route, for an answer: its request is settled, the continuation is a microtask. *)
RouteResponse(frame) ==
  /\ \/ Answered(frame.id) = {} /\ UNCHANGED <<pending, settled>>
     \/ \E r \in Answered(frame.id) :
          /\ pending' = pending \ {r}
          /\ settled' = Append(settled, [request |-> r, ok |-> frame.ok])
  /\ UNCHANGED <<nextId, sent, closed, proc, inside, seen>>

-----------------------------------------------------------------------------
(* Emitting *)

(* A terminal event that names turn t, for the turn the harness ran. *)
EmitEnd(t, of) ==
  /\ turn' = IF Subscribed THEN [turn EXCEPT ![t] = "ended"] ELSE turn
  /\ ends' = IF Subscribed THEN ends \cup {[of |-> of, as |-> t]} ELSE ends
  /\ UNCHANGED <<reported, replayed>>

(* Mutant: a replay is shown like anything else. *)
EmitAlways == replayed' = Subscribed /\ UNCHANGED <<turn, reported, ends>>

(* A message of a past life: dropped while suppressReplay holds. *)
EmitReplay ==
  /\ replayed' = (replayed \/ (Subscribed /\ ~suppressReplay))
  /\ UNCHANGED <<turn, reported, ends>>

-----------------------------------------------------------------------------
(* Calls of the session manager *)

(***************************************************************************)
(* When the session manager calls startTurn: the session is open and idle, *)
(* and the error of a dead process blocks prompts until it is closed.      *)
(***************************************************************************)
MayStart ==
  /\ Quiet /\ phase = "open" /\ ~closed /\ ~reported
  /\ call = "none" /\ turnCounter < MaxTurns /\ nextId < MaxRequests
  /\ \A t \in Turns : turn[t] # "begun"
  /\ Allows("replay") \/ \A i \in DOMAIN wire : wire[i] # Replay

(* Bound: one of these calls at a time. *)
MayCall ==
  /\ Quiet /\ phase = "open" /\ ~closed /\ nextId < MaxRequests
  /\ \A request \in pending : request.cmd \notin {"abort", "set_model"}

(* setModel: a request whose answer changes nothing in the session. *)
SetModel ==
  /\ MayCall
  /\ Send(pending, "set_model", 0)
  /\ UNCHANGED <<object, closed, settled, proc, wire, inside, seen>>

(* interrupt is called for a turn that startTurn has returned. *)
MayInterrupt == MayCall /\ call = "none" /\ \E t \in Turns : turn[t] = "begun"

-----------------------------------------------------------------------------
(* The harness: an environment that takes what it is sent in order *)

Room    == harness # "mock" /\ Alive /\ Len(wire) < MaxWire
Works   == Room /\ running # Idle /\ UNCHANGED <<object, transport, proc, sent, seen>>
Taking  == Room /\ sent # <<>> /\ sent' = Tail(sent) /\ UNCHANGED <<object, transport, proc, seen>>
Writes(frames) == wire' = wire \o frames

(* An identifier is not used again while something still speaks of its last use. *)
HarnessAsks ==
  /\ Works
  /\ \E p \in Perms \ (asked \cup permissions) :
       /\ \A i \in DOMAIN sent : sent[i] # Answer(p)
       /\ \A i \in DOMAIN wire : wire[i] # UiRequest(p)
       /\ asked' = asked \cup {p} /\ Writes(<<UiRequest(p)>>)
  /\ UNCHANGED running

(***************************************************************************)
(* History is replayed: by grok before it answers session/load, by omp, if *)
(* a version of it does, at any time before its first prompt.              *)
(***************************************************************************)
HarnessReplays ==
  /\ Room /\ resumed /\ harness # "pi" /\ turnCounter = 0
  /\ harness = "omp" \/ Allows("replay") \/ \E i \in DOMAIN sent : sent[i].cmd = "load"
  /\ Writes(<<Replay>>)
  /\ UNCHANGED <<object, transport, proc, sent, inside, seen>>

(* An answer to an approval: the harness goes on. *)
HarnessTakesAnswer ==
  /\ Taking /\ Head(sent).cmd = "answer"
  /\ asked' = asked \ {Head(sent).perm}
  /\ UNCHANGED <<wire, running>>

(* A request that it can answer at once, and may refuse. *)
HarnessTakesRequest ==
  /\ Taking /\ Head(sent).cmd \in Opening
  /\ \E ok \in BOOLEAN : Writes(<<Response(Head(sent).id, ok)>>)
  /\ UNCHANGED inside

-----------------------------------------------------------------------------
(* The initial state: the process was spawned, nothing was asked of it yet *)

SessionInit ==
  /\ harness \in Harnesses /\ resumed \in BOOLEAN
  /\ phase = "spawned" /\ suppressReplay = FALSE
  /\ turnCounter = 0 /\ activeTurnId = 0 /\ call = "none"
  /\ permissions \in IF harness = "mock" /\ resumed THEN SUBSET Perms ELSE {{}}
  /\ mcpToolsLoaded = FALSE /\ chunks = NoChunks
  /\ closed = FALSE /\ pending = {} /\ nextId = 0 /\ settled = <<>>
  /\ proc = "running" /\ sent = <<>> /\ wire = <<>>
  /\ running = Idle /\ asked = {}
  /\ turn = [t \in Turns |-> "none"] /\ reported = FALSE /\ ends = {} /\ replayed = FALSE
=============================================================================
