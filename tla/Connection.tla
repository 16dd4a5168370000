------------------------------ MODULE Connection ------------------------------
(***************************************************************************)
(* One client's connection to the daemon: the renderer's DaemonClient        *)
(* (renderer/src/ws/client.ts), the wire, and DaemonServer (daemon/src/        *)
(* server.ts) with the handlers it dispatches to.  What a handler does is in  *)
(* the modules of its service; here it answers.                              *)
(*                                                                         *)
(* The client checks a call against the schema before it sends it, so the     *)
(* daemon meets a frame it cannot parse when it is older than the client:     *)
(* it does not know the methods Newer.                                       *)
(*                                                                         *)
(* Races: "version" (the two speak another protocol version), "mismatch" (an   *)
(* answer does not fit its schema).                                          *)
(***************************************************************************)
EXTENDS Naturals, Sequences, FiniteSets, Services

CONSTANTS
  Methods,     \* the methods that are called
  Newer,       \* those an older daemon does not know
  CallIds,     \* calls of the client (`r-n' counts on over reconnections)
  MaxConnects, MaxPings, MaxPublished

VARIABLES
  link,        \* the socket: "none", "opening", "open", "byClient", "byServer" (closed by whom)
  clientState, \* DaemonClient.state
  everConnected,
  framesOut, framesIn, \* frames under way
  greeted,     \* helloDone has the connection
  rpcs,        \* a call: its method, what the caller is told
  handling,    \* calls whose handler is at work
  carried,     \* history: how often the handler of a call has been started
  unknown,     \* methods the daemon does not know
  pongDue,     \* pongTimer runs
  daemonIs,    \* the daemon: "down", "up", "barred" (it does not know the client's token)
  spent        \* connections, pings and events used up

wireVars    == <<link, framesOut, framesIn, greeted>>
clientVars  == <<clientState, everConnected, pongDue>>
handlerVars == <<handling, carried>>

connectionVars == <<wireVars, clientVars, handlerVars, unknown, rpcs, daemonIs, spent>>

ASSUME ConnectionAssumption ==
  /\ Newer \subseteq Methods
  /\ {MaxConnects, MaxPings, MaxPublished} \subseteq Nat

-----------------------------------------------------------------------------
NotSent == [method |-> "none", told |-> "nothing"]

ConnectionInit ==
  /\ link = "none" /\ clientState = "closed" /\ everConnected = FALSE
  /\ framesOut = <<>> /\ framesIn = <<>> /\ greeted = FALSE
  /\ rpcs = [c \in CallIds |-> NotSent] /\ handling = {} /\ carried = [c \in CallIds |-> 0]
  /\ unknown \in Starts("connection", {{}, Newer})
  /\ pongDue = FALSE
  /\ daemonIs = "up"
  /\ spent = [connects |-> 0, pings |-> 0, published |-> 0]

Unanswered == {c \in CallIds : rpcs[c].told = "waiting"}
Told(c, answer) == rpcs' = [rpcs EXCEPT ![c].told = answer]

ToServer(f) == framesOut' = IF link = "open" THEN Append(framesOut, f) ELSE framesOut
(* ws.send on a connection that is closing drops the message. *)
ToClient(f) == framesIn' = IF link = "open" THEN Append(framesIn, f) ELSE framesIn

-----------------------------------------------------------------------------
(* DaemonClient *)

Connect ==
  /\ link = "none" /\ spent.connects < MaxConnects
  /\ link' = "opening" /\ spent' = [spent EXCEPT !.connects = @ + 1]
  /\ clientState' = IF everConnected THEN "reconnecting" ELSE "connecting"
  /\ UNCHANGED <<handlerVars, unknown, everConnected, framesOut, framesIn, greeted, rpcs,
                 pongDue, daemonIs>>

(* The frame is checked here already. *)
Rpc(c, m, fits) ==
  /\ rpcs[c] = NotSent /\ clientState = "connected"
  /\ rpcs' = [rpcs EXCEPT ![c] = [method |-> m, told |-> IF fits THEN "waiting" ELSE "bad_request"]]
  /\ IF fits THEN ToServer(<<"call", c>>) ELSE UNCHANGED framesOut
  /\ UNCHANGED <<clientVars, handlerVars, unknown, link, framesIn, greeted, daemonIs, spent>>

Ping ==
  /\ clientState = "connected" /\ spent.pings < MaxPings
  /\ spent' = [spent EXCEPT !.pings = @ + 1]
  /\ ToServer(<<"ping">>) /\ pongDue' = TRUE
  /\ UNCHANGED <<handlerVars, unknown, link, clientState, everConnected, framesIn, greeted,
                 rpcs, daemonIs>>

(* The time for a pong is over, or the window is closed. *)
ClientCloses ==
  /\ link = "open" /\ link' = "byClient"
  /\ UNCHANGED <<clientVars, handlerVars, unknown, framesOut, framesIn, greeted, rpcs,
                 daemonIs, spent>>

(* onMessage *)
ClientReads ==
  /\ framesIn # <<>> /\ link \in {"open", "byServer"}
  /\ framesIn' = Tail(framesIn)
  /\ LET f == Head(framesIn) IN
     \/ /\ f[1] = "hello.response"
        /\ clientState' = "connected" /\ everConnected' = TRUE
        /\ UNCHANGED <<rpcs, pongDue>>
     \/ /\ f[1] = "pong" /\ pongDue' = FALSE
        /\ UNCHANGED <<rpcs, clientState, everConnected>>
     \/ /\ f[1] = "answer"
        /\ \/ f[2] \in Unanswered /\ Told(f[2], f[3])
           \/ f[2] \notin Unanswered /\ UNCHANGED rpcs
           \/ f[3] = "ok" /\ Allows("mismatch") /\ UNCHANGED rpcs
        /\ UNCHANGED clientVars
     \/ /\ f[1] = "event"
        /\ UNCHANGED <<clientVars, rpcs>>
  /\ UNCHANGED <<handlerVars, unknown, link, framesOut, greeted, daemonIs, spent>>

(* Mutant: what was waiting is left for the next connection to answer. *)
OnCloseKept ==
  /\ clientState' = "reconnecting" /\ pongDue' = FALSE
  /\ UNCHANGED rpcs

(* onClose: what waits fails at once; a timer connects again. *)
OnClose ==
  /\ clientState' = "reconnecting" /\ pongDue' = FALSE
  /\ rpcs' = [c \in CallIds |->
                IF c \in Unanswered THEN [rpcs[c] EXCEPT !.told = "disconnected"] ELSE rpcs[c]]

(* The socket is closed: after all that was sent, or with what was under way. *)
SocketCloses ==
  /\ \/ link = "byServer" /\ framesIn = <<>>
     \/ link \in {"byClient", "open"}
     \/ link = "opening" /\ daemonIs = "down"
  /\ link' = "none" /\ framesOut' = <<>> /\ framesIn' = <<>> /\ greeted' = FALSE
  /\ OnClose
  /\ UNCHANGED <<handlerVars, unknown, everConnected, daemonIs, spent>>

-----------------------------------------------------------------------------
(* DaemonServer *)

(* A connection with another token is closed; the client's first frame is its hello. *)
Accepts ==
  /\ link = "opening" /\ daemonIs # "down"
  /\ \/ daemonIs = "up" /\ link' = "open" /\ framesOut' = <<<<"hello">>>>
     \/ daemonIs = "barred" /\ link' = "byServer" /\ UNCHANGED framesOut
  /\ UNCHANGED <<clientVars, handlerVars, unknown, framesIn, greeted, rpcs, daemonIs, spent>>

(* onFrame.  A hello of another version is no known frame and is dropped. *)
OnHello ==
  IF Allows("version") THEN UNCHANGED <<framesIn, greeted, link>>
  ELSE IF greeted THEN link' = "byServer" /\ UNCHANGED <<framesIn, greeted>>
  ELSE greeted' = TRUE /\ ToClient(<<"hello.response">>) /\ UNCHANGED link

(* A frame that cannot be parsed is answered (bad_request) before anything else is asked of it. *)
OnCall(c) ==
  IF rpcs[c].method \in unknown
    THEN ToClient(<<"answer", c, "bad_request">>) /\ UNCHANGED <<handlerVars, link>>
  ELSE IF ~greeted THEN link' = "byServer" /\ UNCHANGED <<handlerVars, framesIn>>
  ELSE /\ handling' = handling \cup {c} /\ carried' = [carried EXCEPT ![c] = @ + 1]
       /\ UNCHANGED <<framesIn, link>>

ServerReads ==
  /\ framesOut # <<>> /\ link \in {"open", "byClient"}
  /\ framesOut' = Tail(framesOut)
  /\ LET f == Head(framesOut) IN
     \/ f[1] = "hello" /\ OnHello /\ UNCHANGED handlerVars
     \/ /\ f[1] = "ping"
        /\ IF greeted THEN ToClient(<<"pong">>) /\ UNCHANGED link
           ELSE link' = "byServer" /\ UNCHANGED framesIn
        /\ UNCHANGED <<handlerVars, greeted>>
     \/ f[1] = "call" /\ OnCall(f[2]) /\ UNCHANGED greeted
  /\ UNCHANGED <<clientVars, unknown, rpcs, daemonIs, spent>>

(* dispatchRpc: handlers work at the same time, and each answers once.  A call whose connection
   is gone is answered to nobody. *)
Answers(c) ==
  /\ c \in handling /\ rpcs[c].method # "system.shutdown"
  /\ handling' = handling \ {c}
  /\ \E answer \in {"ok", "failed"} :
       IF c \in Unanswered THEN ToClient(<<"answer", c, answer>>) ELSE UNCHANGED framesIn
  /\ UNCHANGED <<clientVars, unknown, link, framesOut, greeted, rpcs, carried, daemonIs, spent>>

(* broadcast: to the greeted, while the connection is open. *)
Publishes ==
  /\ daemonIs # "down" /\ spent.published < MaxPublished
  /\ spent' = [spent EXCEPT !.published = @ + 1]
  /\ IF greeted THEN ToClient(<<"event">>) ELSE UNCHANGED framesIn
  /\ UNCHANGED <<clientVars, handlerVars, unknown, link, framesOut, greeted, rpcs, daemonIs>>

(* stop, by a signal or by system.shutdown: connections are closed first, in the microtask before
   the call's own answer, which the closing connection drops. *)
ServerStops ==
  /\ daemonIs # "down" /\ daemonIs' = "down" /\ handling' = {}
  /\ link' = IF link = "open" THEN "byServer" ELSE IF link = "opening" THEN "none" ELSE link
  /\ IF link = "opening" THEN OnClose ELSE UNCHANGED <<clientState, pongDue, rpcs>>
  /\ UNCHANGED <<unknown, everConnected, framesOut, framesIn, greeted, carried, spent>>

(* A daemon started anew may have another token. *)
ServerStarts ==
  /\ daemonIs = "down" /\ daemonIs' \in {"up", "barred"} /\ link \in {"none", "opening"}
  /\ spent.connects < MaxConnects
  /\ UNCHANGED <<wireVars, clientVars, handlerVars, unknown, rpcs, spent>>

ConnectionNext ==
  \/ Connect \/ Ping \/ ClientCloses \/ ClientReads \/ SocketCloses
  \/ \E c \in CallIds, m \in Methods, fits \in BOOLEAN : Rpc(c, m, fits)
  \/ Accepts \/ ServerReads \/ \E c \in CallIds : Answers(c)
  \/ Publishes \/ ServerStops \/ ServerStarts

-----------------------------------------------------------------------------
Under(q, f) == \E k \in DOMAIN q : q[k] = f
GoingDown   == link \in {"byClient", "byServer"}

(* client.ts 138-153, 248-254: a call that waits will be told something: its frame, its handler or
   its answer is under way, or the connection is being closed. *)
CallsSettle ==
  \A c \in Unanswered :
    \/ GoingDown \/ c \in handling \/ Under(framesOut, <<"call", c>>)
    \/ \E k \in DOMAIN framesIn : framesIn[k][1] = "answer" /\ framesIn[k][2] = c

(* client.ts 155-212, server.ts 319-339: a connection that is open is greeted, or a hello or its
   response is under way; what a pong is due for, too. *)
GreetingComes ==
  /\ link = "open" /\ clientState # "connected" =>
       Under(framesOut, <<"hello">>) \/ Under(framesIn, <<"hello.response">>)
  /\ pongDue => GoingDown \/ Under(framesOut, <<"ping">>) \/ Under(framesIn, <<"pong">>)
  /\ clientState = "connected" => link \in {"open", "byClient", "byServer"} /\ everConnected

(* No call is carried out twice, nor one that was told not to fit. *)
CarriedOnce ==
  \A c \in CallIds :
    carried[c] <= (IF rpcs[c].told = "bad_request" \/ rpcs[c] = NotSent THEN 0 ELSE 1)

ConnectionSound == CallsSettle /\ GreetingComes /\ CarriedOnce
=============================================================================
