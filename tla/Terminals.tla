----------------------------- MODULE Terminals -----------------------------
(***************************************************************************)
(* The terminals of the daemon (terminals.ts), the slots a connection sees  *)
(* them through (server.ts) and the views of one renderer                   *)
(* (TerminalView.tsx, ws/client.ts).  A connection is a queue each way.      *)
(* Every change of the renderer's store renders App anew, with a transport   *)
(* made for the occasion, so each view is unmounted and mounted again: it    *)
(* detaches and attaches.  The answer to an attach of a view that was        *)
(* unmounted since is answered with one more detach, which names the         *)
(* terminal and not the view.                                               *)
(*                                                                         *)
(* Races: "remount" (the store changes while a view waits for its slot).    *)
(***************************************************************************)
EXTENDS Naturals, Sequences, FiniteSets, SequencesExt, Services

CONSTANTS
  Terms,       \* terminals the user has made
  Slots,       \* slots of a connection (256 in the code)
  Scrollback,  \* size of the ring, in chunks of output
  MaxOutput,   \* bound: chunks of output of a terminal
  MaxRenders   \* bound: how often a view is mounted

ASSUME TerminalsAssumption ==
  /\ IsFiniteSet(Terms) /\ IsFiniteSet(Slots) /\ Slots \subseteq Nat
  /\ Scrollback \in Nat /\ MaxOutput \in Nat /\ MaxRenders \in Nat

NoSlot == -1

VARIABLES
  terminals,  \* TerminalManager.terminals
  produced,   \* chunks of output so far, by terminal
  slotOf,     \* the table of the connection: a terminal has a slot iff it has a listener
  connected,
  toServer, toClient,  \* frames under way
  tabs,       \* terminals with a tab, each with a view mounted
  view,       \* the mounted view: which mount it is, its slot, the chunks it shows
  crossed     \* history: input or output reached another terminal than its own

terminalsVars == <<terminals, produced, slotOf, connected, toServer, toClient, tabs, view, crossed>>

Unattached(n) == [mount |-> n, slot |-> NoSlot, from |-> 0, to |-> 0]
Attach(t, n)  == [type |-> "attach", term |-> t, mount |-> n]
Detach(t)     == [type |-> "detach", term |-> t]
Input(t, s)   == [type |-> "input", term |-> t, slot |-> s]
Output(t, s, n) == [type |-> "output", term |-> t, slot |-> s, chunk |-> n]
Failed(t, n)  == [type |-> "failed", term |-> t, mount |-> n]

TerminalsInit ==
  /\ terminals = Terms /\ produced = [t \in Terms |-> 0]
  /\ slotOf = [t \in Terms |-> NoSlot]
  /\ connected = TRUE /\ toServer = <<>> /\ toClient = <<>>
  /\ tabs = {} /\ view = [t \in Terms |-> Unattached(0)]
  /\ crossed = FALSE

-----------------------------------------------------------------------------
(* The daemon *)

(* Mutant: the slot of the next free terminal is not looked for. *)
FirstSlot == CHOOSE s \in Slots : \A other \in Slots : s <= other

FreeSlots == Slots \ {slotOf[t] : t \in Terms}
NextSlot  == CHOOSE s \in FreeSlots : \A other \in FreeSlots : s <= other

Oldest(t) == IF produced[t] > Scrollback THEN produced[t] - Scrollback + 1 ELSE 1

(* attachTerminal: the slot the terminal has or a free one; the snapshot and the subscription
   are taken together. *)
Attached(t, n, s) ==
  [type |-> "attached", term |-> t, mount |-> n, slot |-> s, from |-> Oldest(t), to |-> produced[t]]

ServeAttach(t, n) ==
  IF t \notin terminals \/ (slotOf[t] = NoSlot /\ FreeSlots = {})
  THEN toClient' = Append(toClient, Failed(t, n)) /\ UNCHANGED slotOf
  ELSE LET s == IF slotOf[t] # NoSlot THEN slotOf[t] ELSE NextSlot IN
       /\ slotOf' = [slotOf EXCEPT ![t] = s]
       /\ toClient' = Append(toClient, Attached(t, n, s))

(* onBinaryFrame: input goes to whoever has the slot, and is dropped if nobody has. *)
Misses(input) == \E t \in Terms \ {input.term} : slotOf[t] = input.slot

Serve ==
  /\ toServer # <<>>
  /\ toServer' = Tail(toServer)
  /\ LET frame == Head(toServer) IN
     \/ frame.type = "attach" /\ ServeAttach(frame.term, frame.mount) /\ UNCHANGED crossed
     \/ /\ frame.type = "detach"
        /\ slotOf' = [slotOf EXCEPT ![frame.term] = NoSlot]
        /\ UNCHANGED <<toClient, crossed>>
     \/ /\ frame.type = "input"
        /\ crossed' = (crossed \/ Misses(frame))
        /\ UNCHANGED <<slotOf, toClient>>
  /\ UNCHANGED <<terminals, produced, connected, tabs, view>>

(* onData: into the ring and to the listener. *)
Outputs(t) ==
  /\ t \in terminals /\ produced[t] < MaxOutput
  /\ produced' = [produced EXCEPT ![t] = @ + 1]
  /\ toClient' = IF slotOf[t] = NoSlot THEN toClient
                 ELSE Append(toClient, Output(t, slotOf[t], produced[t] + 1))
  /\ UNCHANGED <<terminals, slotOf, connected, toServer, tabs, view, crossed>>

-----------------------------------------------------------------------------
(* The renderer *)

Mounted(newTabs) ==
  [t \in Terms |-> IF t \in newTabs THEN Unattached(view[t].mount + 1) ELSE Unattached(view[t].mount)]

Detaches(ts) == LET order == SetToSeq(ts) IN [i \in DOMAIN order |-> Detach(order[i])]
Attaches(ts) == LET order == SetToSeq(ts) IN [i \in DOMAIN order |-> Attach(order[i], view[order[i]].mount + 1)]

(* A store that changed is rendered: all the cleanups, then all the effects. *)
Rendered(newTabs) ==
  /\ \A t \in newTabs : view[t].mount < MaxRenders
  /\ tabs' = newTabs
  /\ view' = Mounted(newTabs)

Waiting == {t \in tabs : view[t].slot = NoSlot}

Render ==
  /\ connected
  /\ Allows("remount") \/ Waiting = {}
  /\ \E newTabs \in SUBSET terminals :
       /\ Rendered(newTabs)
       /\ toServer' = toServer \o Detaches(tabs) \o Attaches(newTabs)
  /\ UNCHANGED <<terminals, produced, slotOf, connected, toClient, crossed>>

Type(t) ==
  /\ t \in tabs /\ view[t].slot # NoSlot
  /\ \A i \in DOMAIN toServer : toServer[i].type # "input"   \* bound: one key at a time
  /\ toServer' = Append(toServer, Input(t, view[t].slot))
  /\ UNCHANGED <<terminals, produced, slotOf, connected, toClient, tabs, view, crossed>>

(* The answer to an attach: the snapshot is drawn and the slot switched on. *)
TakeAnswer(answer) ==
  LET t == answer.term IN
  /\ IF t \in tabs /\ view[t].mount = answer.mount
     THEN /\ view' = [view EXCEPT ![t].slot = answer.slot, ![t].from = answer.from, ![t].to = answer.to]
          /\ UNCHANGED toServer
     ELSE /\ toServer' = Append(toServer, Detach(t))
          /\ UNCHANGED view
  /\ UNCHANGED <<tabs, crossed>>

(* Output is the view's whose slot it names. *)
TakeOutput(frame) ==
  LET readers == {t \in tabs : view[t].slot = frame.slot} IN
  /\ view' = [t \in Terms |-> IF t \in readers THEN [view[t] EXCEPT !.to = frame.chunk] ELSE view[t]]
  /\ crossed' = (crossed \/ \E t \in readers : t # frame.term \/ frame.chunk # view[t].to + 1)
  /\ UNCHANGED <<toServer, tabs>>

(* onError puts the error into the store, and so mounts all the views again. *)
TakeFailure ==
  \/ Rendered(tabs) /\ toServer' = toServer \o Detaches(tabs) \o Attaches(tabs) /\ UNCHANGED crossed
  \/ (\E t \in tabs : view[t].mount = MaxRenders) /\ UNCHANGED <<toServer, tabs, view, crossed>>

Take ==
  /\ toClient # <<>>
  /\ toClient' = Tail(toClient)
  /\ LET frame == Head(toClient) IN
     \/ frame.type = "attached" /\ TakeAnswer(frame)
     \/ frame.type = "output" /\ TakeOutput(frame)
     \/ frame.type = "failed" /\ TakeFailure
  /\ UNCHANGED <<terminals, produced, slotOf, connected>>

(* The connection closes: the slots are released, waiting requests fail, the state of the
   connection is in the store.  With the daemon go the terminals. *)
Disconnect ==
  /\ connected
  /\ connected' = FALSE
  /\ terminals' \in {terminals, {}}
  /\ slotOf' = [t \in Terms |-> NoSlot]
  /\ toServer' = <<>> /\ toClient' = <<>>
  /\ view' = [t \in Terms |-> Unattached(view[t].mount)]
  /\ UNCHANGED <<produced, tabs, crossed>>

(* Connected again: one more change of the store, so the views attach to the new connection. *)
Reconnect ==
  /\ ~connected
  /\ connected' = TRUE
  /\ Rendered(tabs)
  /\ toServer' = Attaches(tabs)
  /\ UNCHANGED <<terminals, produced, slotOf, toClient, crossed>>

TerminalsNext ==
  \/ Serve \/ (\E t \in Terms : Outputs(t) \/ Type(t))
  \/ Render \/ Take \/ Disconnect \/ Reconnect

-----------------------------------------------------------------------------
UnderWay(t) == {i \in DOMAIN toClient : toClient[i].type = "output" /\ toClient[i].term = t}

(* server.ts attachTerminal, TerminalView.tsx (workbench-tabs.md 2.5): a view that has its slot is
   being fed by its terminal, shows all of its output since the snapshot without gap or
   repetition but for what is under way, and neither its keys nor its output cross to
   another terminal. *)
TerminalsFed ==
  /\ ~crossed
  /\ \A t \in tabs : view[t].slot # NoSlot =>
       /\ slotOf[t] = view[t].slot
       /\ view[t].to + Cardinality(UnderWay(t)) = produced[t]
=============================================================================
