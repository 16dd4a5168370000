-------------------------------- MODULE Cli --------------------------------
(***************************************************************************)
(* A command of the command line (cli/commands.ts, session-commands.ts,      *)
(* workspace-commands.ts) over its one connection (connection.ts): the       *)
(* requests it sends one after the other, the events it streams, the exit     *)
(* code it ends with.  Beside it one session of the daemon goes on, used by   *)
(* other clients.  (Timeline has the stream event by event; here the ends of  *)
(* turns are its only events.)                                              *)
(*                                                                         *)
(* Races: "between" (the session changes between what a command has checked   *)
(* and what it does), "slow" (an answer that takes longer than the command    *)
(* waits), "lost" (the connection breaks while a request with an effect is    *)
(* under way).                                                             *)
(***************************************************************************)
EXTENDS Naturals, Sequences, FiniteSets, SequencesExt, Services

CONSTANTS
  MaxTurns,  \* bound: turns of the session
  MaxAsks    \* bound: permissions asked for

ASSUME CliAssumption == MaxTurns \in Nat /\ MaxAsks \in Nat

Commands == {"prompt", "watch", "watch_from", "interrupt", "approve", "new", "archive", "stop"}
TurnEnds == {"completed", "failed", "canceled"}
Reads    == {"session.list", "session.timeline"}
NoRpc    == "none"

VARIABLES
  host,    \* the daemon: up, the session and its turns (owed: started, and not answered yet), its
           \* workspace
  ends,    \* the ends of turns, in the order of the timeline
  command,     \* the command: what it is, where it is, its exit code and why
  stream,  \* startStream: lastSeq, the ends it has seen (their places), what it holds back
  cliRequest, \* its request that the daemon has not served
  inbox,   \* frames under way to it
  did      \* history: what its requests have done, and in which state

cliVars == <<host, ends, command, stream, cliRequest, inbox, did>>

NoCommand == [op |-> "none", at |-> "idle", rpc |-> NoRpc, turn |-> 0, exit |-> 0, why |-> "none"]
NoStream  == [on |-> FALSE, last |-> 0, seen |-> {}, holding |-> FALSE, held |-> <<>>]
Nothing   == [effect |-> "none", busy |-> FALSE, asks |-> {}]

CliInit ==
  /\ host = [up |-> TRUE, open |-> TRUE, turn |-> 0, turns |-> 0, owed |-> 0, asks |-> {},
             asked |-> 0, archived |-> FALSE, extra |-> 0]
  /\ ends = <<>>
  /\ command = NoCommand /\ stream = NoStream /\ cliRequest = NoRpc /\ inbox = <<>>
  /\ did = Nothing

(* What daemon stop and workspace archive look at. *)
InTheWay(op) == IF op = "stop" THEN host.turn # 0 \/ host.asks # {} ELSE host.open

-----------------------------------------------------------------------------
(* The command *)

FirstRpc(op) == CASE op = "prompt"     -> "session.prompt"
                  [] op = "watch"      -> NoRpc
                  [] op = "watch_from" -> "session.timeline"
                  [] op = "interrupt"  -> "session.interrupt"
                  [] op = "new"        -> "session.create"
                  [] OTHER             -> "session.list"

Invoke(op) ==
  /\ command.at = "idle" /\ host.up
  /\ command' = [NoCommand EXCEPT !.op = op, !.rpc = FirstRpc(op),
               !.at = IF FirstRpc(op) = NoRpc THEN "streaming" ELSE "asking"]
  /\ cliRequest' = FirstRpc(op)
  /\ stream' = [NoStream EXCEPT !.on = op \in {"prompt", "watch", "watch_from"},
                                !.holding = op = "watch_from"]
  /\ inbox' = <<>> /\ did' = Nothing
  /\ UNCHANGED <<host, ends>>

(* connection.close: no frame is read after it. *)
ExitsAfter(turn, code, why) ==
  /\ command' = [command EXCEPT !.at = "done", !.rpc = NoRpc, !.turn = turn, !.exit = code, !.why = why]
  /\ stream' = NoStream /\ inbox' = <<>>

Exits(code, why) == ExitsAfter(command.turn, code, why)

Calls(rpc) ==
  /\ command' = [command EXCEPT !.rpc = rpc] /\ cliRequest' = rpc

(* settledOutcome: of the awaited turn, or of the first that ended. *)
SettledOutcome(seen, turn) ==
  IF turn # 0 THEN {ends[i][2] : i \in {i \in seen : ends[i][1] = turn}}
  ELSE IF seen = {} THEN {} ELSE {ends[Min(seen)][2]}

Leaves(turn, outcome) ==
  IF outcome = "failed" THEN ExitsAfter(turn, 1, "turn failed") ELSE ExitsAfter(turn, 0, "turn ended")

(* emit, one event after the other: what is not newer than the last one is dropped. *)
Emitted(s, places) ==
  {places[k] : k \in {k \in DOMAIN places :
     places[k] > s.last /\ \A j \in 1..(k - 1) : places[j] < places[k]}}

Seen(s, places) ==
  LET new == Emitted(s, places) IN
  [s EXCEPT !.seen = @ \cup new, !.last = IF new = {} THEN @ ELSE Max(new)]

(* An event: held back during the backfill. *)
TakeEvent(i) ==
  IF stream.holding
  THEN stream' = [stream EXCEPT !.held = Append(@, i)] /\ inbox' = Tail(inbox) /\ UNCHANGED command
  ELSE LET next == Seen(stream, <<i>>) IN
       IF command.at = "streaming" /\ SettledOutcome(next.seen, command.turn) # {}
       THEN Leaves(command.turn, CHOOSE o \in SettledOutcome(next.seen, command.turn) : TRUE)
       ELSE stream' = next /\ inbox' = Tail(inbox) /\ UNCHANGED command

(* untilTurnEnds: the turn may have ended before its number was known. *)
UntilTurnEnds(s, turn) ==
  IF SettledOutcome(s.seen, turn) # {}
  THEN Leaves(turn, CHOOSE o \in SettledOutcome(s.seen, turn) : TRUE)
  ELSE /\ command' = [command EXCEPT !.at = "streaming", !.rpc = NoRpc, !.turn = turn]
       /\ stream' = s /\ inbox' = Tail(inbox)

(* approve: the one request that waits. *)
ReadList(frame) ==
  \/ /\ command.op = "approve" /\ Cardinality(frame.asks) # 1
     /\ Exits(1, "not one") /\ UNCHANGED <<cliRequest, host, did>>
  \/ /\ command.op = "approve" /\ Cardinality(frame.asks) = 1
     /\ Calls("session.permission.respond")
     /\ did' = [did EXCEPT !.asks = frame.asks]
     /\ inbox' = Tail(inbox) /\ UNCHANGED <<stream, host>>
  \/ /\ command.op # "approve" /\ frame.busy
     /\ Exits(1, "busy") /\ UNCHANGED <<cliRequest, host, did>>
  \/ /\ command.op = "archive" /\ ~frame.busy
     /\ Calls("workspace.archive")
     /\ inbox' = Tail(inbox) /\ UNCHANGED <<stream, host, did>>
  \/ /\ command.op = "stop" /\ ~frame.busy  \* SIGTERM, the connection closed
     /\ command' = [command EXCEPT !.at = "stopping", !.rpc = NoRpc]
     /\ stream' = NoStream /\ inbox' = <<>>
     /\ did' = [did EXCEPT !.effect = "stop", !.busy = InTheWay("stop")]
     /\ UNCHANGED <<cliRequest, host>>

ReadFrame ==
  /\ inbox # <<>> /\ command.at \in {"asking", "streaming"}
  /\ LET frame == Head(inbox) IN
     CASE frame.kind = "event" -> TakeEvent(frame.at) /\ UNCHANGED <<host, cliRequest, did>>
       [] frame.kind = "error" -> Exits(1, "refused") /\ UNCHANGED <<host, cliRequest, did>>
       [] frame.kind = "list"  -> ReadList(frame)
       [] frame.kind = "turn"  -> /\ UntilTurnEnds(stream, frame.turn)
                                  /\ UNCHANGED <<host, cliRequest, did>>
       [] frame.kind = "events" ->
            /\ LET filled == Seen([stream EXCEPT !.holding = FALSE, !.held = <<>>],
                                  frame.events \o stream.held)
               IN UntilTurnEnds(filled, 0)
            /\ UNCHANGED <<host, cliRequest, did>>
       [] frame.kind = "queued" -> Exits(2, "queued") /\ UNCHANGED <<host, cliRequest, did>>
       [] OTHER -> Exits(0, "done") /\ UNCHANGED <<host, cliRequest, did>>
  /\ UNCHANGED ends

(* The answer does not come in time.  The request stays where it is. *)
RpcTimesOut ==
  /\ command.at = "asking"
  /\ Allows("slow") \/ command.rpc \in Reads
  /\ Exits(1, "timeout")
  /\ UNCHANGED <<host, ends, cliRequest, did>>

WatchTimesOut ==
  /\ command.at = "streaming"
  /\ Exits(1, "timeout")
  /\ UNCHANGED <<host, ends, cliRequest, did>>

(* The connection breaks; the daemon goes on. *)
CommandCutOff ==
  /\ command.at \in {"asking", "streaming"}
  /\ Allows("lost") \/ command.at = "streaming" \/ command.rpc \in Reads
  /\ Exits(1, "closed")
  /\ cliRequest' \in {cliRequest, NoRpc}
  /\ UNCHANGED <<host, ends, did>>

(* stopDaemon, which asks every 100 ms whether the process lives: it is gone, or is given up on. *)
AwaitsExit ==
  /\ command.at = "stopping"
  /\ \/ ~host.up /\ Exits(0, "stopped")
     \/ host.up /\ Exits(1, "still up")
  /\ UNCHANGED <<host, ends, cliRequest, did>>

-----------------------------------------------------------------------------
(* The daemon *)

Frame(kind) == [kind |-> kind]
Answer(frame) == IF command.at \in {"asking", "streaming"} THEN inbox' = Append(inbox, frame)
                 ELSE UNCHANGED inbox
Effect(name)  == did' = [did EXCEPT !.effect = name, !.busy = InTheWay(command.op)]

Handle ==
  /\ cliRequest # NoRpc /\ host.up
  /\ cliRequest' = NoRpc
  /\ CASE cliRequest = "session.list" ->
            /\ Answer([kind |-> "list", busy |-> InTheWay(command.op), asks |-> host.asks])
            /\ UNCHANGED <<host, did>>
       [] cliRequest = "session.timeline" ->
            /\ Answer([kind |-> "events", events |-> [i \in DOMAIN ends |-> i]])
            /\ UNCHANGED <<host, did>>
       [] cliRequest = "session.prompt" ->
            \/ /\ ~host.open \/ (host.turn = 0 /\ host.turns = MaxTurns)
               /\ Answer(Frame("error")) /\ UNCHANGED <<host, did>>
            \/ /\ host.open /\ host.turn # 0
               /\ Answer(Frame("queued")) /\ UNCHANGED <<host, did>>
            \/ /\ host.open /\ host.turn = 0 /\ host.turns < MaxTurns
               /\ host' = [host EXCEPT !.turn = host.turns + 1, !.turns = @ + 1, !.owed = host.turns + 1]
               /\ did' = [did EXCEPT !.effect = "prompt"] /\ UNCHANGED inbox
       [] cliRequest = "session.interrupt" -> Answer(Frame("ok")) /\ UNCHANGED <<host, did>>
       [] cliRequest = "session.create" ->
            /\ host' = [host EXCEPT !.extra = @ + 1] /\ Effect("new") /\ Answer(Frame("ok"))
       [] cliRequest = "workspace.archive" ->
            /\ host' = [host EXCEPT !.archived = TRUE] /\ Effect("archive") /\ Answer(Frame("ok"))
       [] OTHER ->  \* session.permission.respond
            IF did.asks \subseteq host.asks
            THEN /\ host' = [host EXCEPT !.asks = @ \ did.asks] /\ Effect("approve")
                 /\ Answer(Frame("ok"))
            ELSE Answer(Frame("error")) /\ UNCHANGED <<host, did>>
  /\ UNCHANGED <<ends, command, stream>>

(* startTurn: what came while the turn was being started, its end too, goes out before the answer. *)
AnswersPrompt ==
  /\ host.owed # 0 /\ host.up
  /\ Answer([kind |-> "turn", turn |-> host.owed]) /\ host' = [host EXCEPT !.owed = 0]
  /\ UNCHANGED <<ends, command, stream, cliRequest, did>>

(* The daemon has seen to the signal and ends. *)
DaemonGone ==
  /\ did.effect = "stop" /\ host.up
  /\ host' = [host EXCEPT !.up = FALSE]
  /\ UNCHANGED <<ends, command, stream, cliRequest, inbox, did>>

(* The session goes on. *)
Checked == command.at = "asking" /\ command.op \in {"archive", "stop"}
MayChange == Allows("between") \/ ~Checked

OthersPrompt ==
  /\ host.up /\ host.open /\ host.turn = 0 /\ host.turns < MaxTurns /\ MayChange
  /\ host' = [host EXCEPT !.turn = host.turns + 1, !.turns = @ + 1]
  /\ UNCHANGED <<ends, command, stream, cliRequest, inbox, did>>

EndOfTurn ==
  /\ host.up /\ host.turn # 0
  /\ \E outcome \in TurnEnds : ends' = Append(ends, <<host.turn, outcome>>)
  /\ host' = [host EXCEPT !.turn = 0, !.asks = {}]
  /\ IF stream.on THEN Answer([kind |-> "event", at |-> Len(ends')]) ELSE UNCHANGED inbox
  /\ UNCHANGED <<command, stream, cliRequest, did>>

AsksOrAnswers ==
  /\ host.up /\ host.turn # 0
  /\ \/ /\ host.asked < MaxAsks /\ MayChange
        /\ host' = [host EXCEPT !.asks = @ \cup {host.asked + 1}, !.asked = @ + 1]
     \/ \E ask \in host.asks : host' = [host EXCEPT !.asks = @ \ {ask}]
  /\ UNCHANGED <<ends, command, stream, cliRequest, inbox, did>>

OpensOrCloses ==
  /\ host.up /\ host.turn = 0
  /\ host.open \/ MayChange
  /\ host' = [host EXCEPT !.open = ~@]
  /\ UNCHANGED <<ends, command, stream, cliRequest, inbox, did>>

CliNext ==
  \/ \E op \in Commands : Invoke(op)
  \/ ReadFrame \/ RpcTimesOut \/ WatchTimesOut \/ CommandCutOff \/ AwaitsExit
  \/ Handle \/ AnswersPrompt \/ DaemonGone \/ OthersPrompt \/ EndOfTurn \/ AsksOrAnswers \/ OpensOrCloses

-----------------------------------------------------------------------------
EndedAs(turn, outcomes) == \E i \in DOMAIN ends : ends[i][1] = turn /\ ends[i][2] \in outcomes

(* session-commands.ts: the exit code tells what became of the turn the command started, or of a
   turn it watched; a command that waits has not yet had what it waits for. *)
ExitTells ==
  /\ command.op = "prompt" /\ command.why = "turn ended"  => EndedAs(command.turn, {"completed", "canceled"})
  /\ command.op = "prompt" /\ command.why = "turn failed" => EndedAs(command.turn, {"failed"})
  /\ command.op \in {"watch", "watch_from"} =>
       /\ command.why = "turn ended"  => \E i \in DOMAIN ends : ends[i][2] # "failed"
       /\ command.why = "turn failed" => \E i \in DOMAIN ends : ends[i][2] = "failed"
  /\ command.at = "streaming" =>
       LET coming == {i \in DOMAIN inbox : inbox[i].kind = "event"} IN
       \A i \in DOMAIN ends : ends[i][1] = command.turn => \E k \in coming : ends[inbox[k].at][1] = command.turn

(* commands.ts, workspace-commands.ts: without --force nothing busy is stopped or archived; one
   answers only the request it found alone; a command that exits with 1 has done nothing that a
   repetition would do again, save a stop whose daemon is still ending, and one that says the daemon
   has stopped leaves none behind. *)
EffectsAreMeant ==
  /\ did.effect \in {"stop", "archive"} => ~did.busy
  /\ did.effect = "approve" => Cardinality(did.asks) = 1
  /\ command.at = "done" /\ command.exit = 1 /\ command.why \notin {"turn failed"} =>
       \/ did.effect = "none"
       \/ (command.op = "prompt" /\ command.turn # 0)
       \/ (command.why = "still up" /\ did.effect = "stop")
  /\ command.why = "stopped" => ~host.up
  /\ command.at = "done" /\ command.exit = 0 /\ command.op \in {"approve", "new", "archive", "stop"} =>
       did.effect = command.op

CommandsTell == ExitTells /\ EffectsAreMeant
=============================================================================
