---------------------------- MODULE SessionView ----------------------------
(***************************************************************************)
(* The conversation of one session on the screen: the reducer that folds    *)
(* events into the items of the timeline (renderer/src/timeline.ts) and the  *)
(* scrolling of the pane that shows them (views/Conversation.tsx), which      *)
(* follows the end until the user leaves it and goes to the place of a        *)
(* search hit.  Events arrive in order and sometimes again (Timeline says     *)
(* when); a text is the sequence of the numbers of its deltas.               *)
(*                                                                         *)
(* Races: "late" (a delta after the end of its turn), "cutoff" (a turn ends   *)
(* while a tool runs or a request waits), "refocus" (a new item after the     *)
(* user has left the search hit again), "swallowed" (a scroll of the user     *)
(* makes one event only, and the pane takes it for one of its own).           *)
(***************************************************************************)
EXTENDS Naturals, Sequences, FiniteSets, SequencesExt, Services

CONSTANTS
  MaxShown,  \* bound: events of the session
  Sought,    \* bound: the events a search may hit
  Endings    \* bound: how turns end

Outcomes == {"completed", "failed", "canceled"}

ASSUME SessionViewAssumption == MaxShown \in Nat /\ Sought \subseteq Nat /\ Endings \subseteq Outcomes

VARIABLES
  told,    \* the events of the session so far; the number of an event is its place
  course,  \* the turn under way, and its tools and requests that have not ended
  onScreen,   \* SessionView: lastSeq, items, activeTurnId, totalTokens
  scroll,  \* where the pane is, Conversation's tracking, programmaticScroll, whether unseen > 0,
           \* focusSeq, and whether a scroll event of its own is to come
  wants    \* history: where the user went last

sessionViewVars == <<told, course, onScreen, scroll, wants>>

NoTurn   == 0
EmptySessionView == [last |-> 0, items |-> <<>>, turn |-> NoTurn, tokens |-> 0]
Item(kind, seq, of, text, status) ==
  [kind |-> kind, seq |-> seq, of |-> of, text |-> text, status |-> status]
Event(kind, of, outcome) == [kind |-> kind, of |-> of, outcome |-> outcome]

SessionViewInit ==
  /\ told = <<>>
  /\ course = [turn |-> 0, at |-> "idle", runs |-> {}, asks |-> {}]
  /\ onScreen = EmptySessionView
  /\ scroll = [at |-> "bottom", tracking |-> TRUE, unseen |-> FALSE, focus |-> 0,
                own |-> TRUE, echo |-> FALSE]
  /\ wants = "bottom"

-----------------------------------------------------------------------------
(* timeline.ts *)

AddItem(sheet, item) == [sheet EXCEPT !.items = Append(@, item)]

(* The last item takes the delta if it is of the same turn and runs; else a new one is begun. *)
AppendToAssistant(sheet, turn, seq) ==
  LET of   == IF turn # NoTurn THEN turn ELSE sheet.turn
      last == Len(sheet.items)
  IN IF last > 0 /\ sheet.items[last].kind = "assistant" /\ sheet.items[last].of = of
          /\ sheet.items[last].status = "running"
     THEN [sheet EXCEPT !.items[last].text = Append(@, seq)]
     ELSE [AddItem(sheet, Item("assistant", seq, of, <<seq>>, "running")) EXCEPT !.turn = of]

PartsOf(sheet, turn) ==
  {i \in DOMAIN sheet.items : sheet.items[i].kind = "assistant" /\ sheet.items[i].of = turn}

(* Every item of the turn is closed; the last of them gets the outcome. *)
CloseTurn(sheet, turn, outcome) ==
  LET parts == PartsOf(sheet, turn)
      Closed(i, item) == IF i \notin parts THEN item
                         ELSE IF \A j \in parts : j <= i THEN [item EXCEPT !.status = outcome]
                         ELSE IF item.status = "running" THEN [item EXCEPT !.status = "completed"]
                         ELSE item
  IN [sheet EXCEPT !.turn = NoTurn, !.tokens = IF outcome = "completed" THEN @ + 1 ELSE @,
        !.items = [i \in DOMAIN @ |-> Closed(i, @[i])]]

Settle(sheet, kind, id) ==
  [sheet EXCEPT !.items = [i \in DOMAIN @ |-> IF @[i].kind = kind /\ @[i].of = id
                                             THEN [@[i] EXCEPT !.status = "done"] ELSE @[i]]]

Reduce(sheet, seq, event) ==
  CASE event.kind = "user_message" -> AddItem(sheet, Item("user", seq, event.of, <<seq>>, "done"))
    [] event.kind = "turn_started" ->
         [AddItem(sheet, Item("assistant", seq, event.of, <<>>, "running")) EXCEPT !.turn = event.of]
    [] event.kind = "delta" -> AppendToAssistant(sheet, event.of, seq)
    [] event.kind = "turn_ended" -> CloseTurn(sheet, event.of, event.outcome)
    [] event.kind = "tool_started" -> AddItem(sheet, Item("tool", seq, seq, <<seq>>, "running"))
    [] event.kind = "tool_completed" -> Settle(sheet, "tool", event.of)
    [] event.kind = "permission_requested" ->
         AddItem(sheet, Item("permission", seq, seq, <<>>, "running"))
    [] event.kind = "permission_resolved" -> Settle(sheet, "permission", event.of)

(* Mutant: the event that came last is taken again. *)
ApplyAgain(sheet, seq) ==
  IF seq < sheet.last THEN sheet ELSE Reduce([sheet EXCEPT !.last = seq], seq, told[seq])

(* applyEvent: what is not newer is dropped. *)
ApplyToView(sheet, seq) ==
  IF seq <= sheet.last THEN sheet ELSE Reduce([sheet EXCEPT !.last = seq], seq, told[seq])

FoldOver(n) == FoldLeft(ApplyToView, EmptySessionView, [i \in 1..n |-> i])

-----------------------------------------------------------------------------
(* Conversation.tsx.  Empty parts of an answer are not drawn. *)
Drawn(sheet) ==
  {i \in DOMAIN sheet.items :
     LET item == sheet.items[i] IN
     item.kind = "assistant" /\ item.text = <<>> =>
       item.status \in Outcomes \/ i = Len(sheet.items)}

(* Where a search hit may lead: the view goes to the last of these. *)
Before(sheet, focus) == {i \in Drawn(sheet) : sheet.items[i].seq <= focus}

(* The pane scrolls, and marks the scroll as its own; if it was there, there is no event to come. *)
ScrollsTo(pane, to) ==
  {[pane EXCEPT !.at = to, !.own = TRUE, !.echo = moves] :
     moves \in IF pane.at = to THEN {pane.echo, TRUE} ELSE {TRUE}}

(* The effect that follows the end, or counts what is not seen. *)
FollowsEnd(pane, tracking) ==
  IF pane.focus # 0 /\ ~tracking THEN {pane}
  ELSE IF tracking THEN {[pulled EXCEPT !.unseen = FALSE] : pulled \in ScrollsTo(pane, "bottom")}
  ELSE {[pane EXCEPT !.unseen = TRUE]}

(* The two effects after the view has changed: to the search hit if there are other items, then
   to the end if the pane followed it before the first effect. *)
Jumps(sheet, pane) ==
  /\ pane.focus # 0 /\ Len(sheet.items) # Len(onScreen.items)
  /\ Before(sheet, pane.focus) # {}
AtHit(pane) == {[pulled EXCEPT !.tracking = FALSE] : pulled \in ScrollsTo(pane, "found")}

Effects(sheet, pane) ==
  UNION {IF sheet.last = onScreen.last THEN {first} ELSE FollowsEnd(first, pane.tracking) :
           first \in IF Jumps(sheet, pane) THEN AtHit(pane) ELSE {pane}}

MayDraw(sheet) ==
  Allows("refocus") \/ scroll.focus = 0 \/ wants = "found" \/ Len(sheet.items) = Len(onScreen.items)

(* An event arrives, for the first time or again. *)
Arrives(seq) ==
  /\ seq <= Len(told) /\ seq <= onScreen.last + 1
  /\ LET sheet == ApplyToView(onScreen, seq) IN
     MayDraw(sheet) /\ onScreen' = sheet /\ scroll' \in Effects(sheet, scroll)
  /\ UNCHANGED <<told, course, wants>>

(* loadTimeline: a view of its own, without the place of a search hit. *)
LoadTimeline ==
  /\ onScreen' = FoldOver(Len(told))
  /\ scroll' \in Effects(onScreen', [scroll EXCEPT !.focus = 0])
  /\ UNCHANGED <<told, course, wants>>

(* open-timeline: the session has been loaded, and the place is set. *)
FocusHit(seq) ==
  /\ seq <= onScreen.last /\ scroll.focus = 0
  /\ Before(onScreen, seq) # {}
  /\ scroll' \in AtHit([scroll EXCEPT !.focus = seq])
  /\ wants' = "found"
  /\ UNCHANGED <<told, course, onScreen>>

(* onScroll: an event that the pane does not take for its own tells where it is, and when the
   tracking changes the second effect runs. *)
OnScroll(pane) ==
  IF pane.own THEN {[pane EXCEPT !.own = FALSE]}
  ELSE LET atBottom == pane.at = "bottom"
           seen     == [pane EXCEPT !.tracking = atBottom, !.unseen = @ /\ ~atBottom]
       IN IF atBottom = pane.tracking THEN {seen} ELSE FollowsEnd(seen, atBottom)

(* The event of a scroll of the pane itself. *)
ScrollEvent ==
  /\ scroll.echo /\ scroll' \in OnScroll([scroll EXCEPT !.echo = FALSE])
  /\ UNCHANGED <<told, course, onScreen, wants>>

(* The user scrolls, which makes events; the first may be taken for one of the pane's own. *)
UserScrolls(to) ==
  /\ to # scroll.at
  /\ LET there == [scroll EXCEPT !.at = to] IN
     \/ (scroll.own => Allows("swallowed")) /\ scroll' \in OnScroll(there)
     \/ scroll.own /\ scroll' \in OnScroll([there EXCEPT !.own = FALSE])
  /\ wants' = to
  /\ UNCHANGED <<told, course, onScreen>>

(* The badge with the number of new messages; the second effect runs. *)
ClickBadge ==
  /\ ~scroll.tracking /\ scroll.unseen
  /\ LET clicked == [scroll EXCEPT !.at = "bottom", !.tracking = TRUE, !.echo = TRUE] IN
     scroll' \in FollowsEnd(clicked, TRUE)
  /\ wants' = "bottom"
  /\ UNCHANGED <<told, course, onScreen>>

-----------------------------------------------------------------------------
(* What the daemon emits. *)
Says(event) == Len(told) < MaxShown /\ told' = Append(told, event)

Speak ==
  /\ course.at = "idle"
  /\ Says(Event("user_message", course.turn + 1, "none"))
  /\ course' = [course EXCEPT !.turn = @ + 1, !.at = "asked"]
  /\ UNCHANGED <<onScreen, scroll, wants>>

StartTurn ==
  /\ course.at = "asked"
  /\ Says(Event("turn_started", course.turn, "none"))
  /\ course' = [course EXCEPT !.at = "running"]
  /\ UNCHANGED <<onScreen, scroll, wants>>

(* Not every harness names the turn of a delta. *)
Delta ==
  /\ course.at = "running" \/ (Allows("late") /\ course.turn > 0)
  /\ \E turn \in {NoTurn, course.turn} : Says(Event("delta", turn, "none"))
  /\ UNCHANGED <<course, onScreen, scroll, wants>>

ToolOrRequest ==
  /\ course.at = "running"
  /\ \/ /\ Says(Event("tool_started", NoTurn, "none"))
        /\ course' = [course EXCEPT !.runs = @ \cup {Len(told) + 1}]
     \/ /\ Says(Event("permission_requested", NoTurn, "none"))
        /\ course' = [course EXCEPT !.asks = @ \cup {Len(told) + 1}]
     \/ \E id \in course.runs : /\ Says(Event("tool_completed", id, "none"))
                                /\ course' = [course EXCEPT !.runs = @ \ {id}]
     \/ \E id \in course.asks : /\ Says(Event("permission_resolved", id, "none"))
                                /\ course' = [course EXCEPT !.asks = @ \ {id}]
  /\ UNCHANGED <<onScreen, scroll, wants>>

EndTurn ==
  /\ course.at = "running"
  /\ Allows("cutoff") \/ (course.runs = {} /\ course.asks = {})
  /\ \E outcome \in Endings : Says(Event("turn_ended", course.turn, outcome))
  /\ course' = [course EXCEPT !.at = "idle"]
  /\ UNCHANGED <<onScreen, scroll, wants>>

SessionViewNext ==
  \/ Speak \/ StartTurn \/ Delta \/ ToolOrRequest \/ EndTurn
  \/ \E seq \in 1..MaxShown : Arrives(seq)
  \/ \E seq \in Sought : FocusHit(seq)
  \/ \E to \in {"bottom", "elsewhere"} : UserScrolls(to)
  \/ LoadTimeline \/ ClickBadge \/ ScrollEvent

-----------------------------------------------------------------------------
Texts(sheet) == FlattenSeq([i \in DOMAIN sheet.items |->
                  IF sheet.items[i].kind = "assistant" THEN sheet.items[i].text ELSE <<>>])
DeltasUpTo(n) == SelectSeq([i \in 1..n |-> i], LAMBDA i : told[i].kind = "delta")
EndsUpTo(n) == {i \in 1..n : told[i].kind = "turn_ended"}

(* timeline.ts: the items are those of the events in their order, however often an event came;
   every piece of an answer is in one item, in its order; and what is over does not run: an
   answer whose turn has ended, and, between turns, any tool or request. *)
ViewTells ==
  /\ onScreen = FoldOver(onScreen.last)
  /\ Texts(onScreen) = DeltasUpTo(onScreen.last)
  /\ \A i, j \in DOMAIN onScreen.items : i < j => onScreen.items[i].seq < onScreen.items[j].seq
  /\ onScreen.tokens = Cardinality({i \in EndsUpTo(onScreen.last) : told[i].outcome = "completed"})
  /\ onScreen.last = Len(told) =>
       /\ onScreen.turn = (IF course.at = "running" THEN course.turn ELSE NoTurn)
       /\ \A i \in DOMAIN onScreen.items :
            LET item == onScreen.items[i] IN
            item.status = "running" => IF item.kind = "assistant" THEN item.of = onScreen.turn
                                       ELSE item.of \in course.runs \cup course.asks
       /\ course.at = "idle" => \A i \in DOMAIN onScreen.items : onScreen.items[i].status # "running"
  (* the outcome of a turn is on its last item *)
  /\ \A e \in EndsUpTo(onScreen.last) :
       LET parts == PartsOf(onScreen, told[e].of) IN
       \E i \in parts : (\A j \in parts : j <= i) /\ onScreen.items[i].status = told[e].outcome

(* Conversation.tsx 39-42: the pane is where the user has put it; the scrolls that it makes itself
   do not undo his. *)
StaysPut == scroll.at = wants

(* Conversation.tsx 39-42, 55-57, 93-103: besides, it follows the end exactly while the user is
   there. *)
PaneStays ==
  /\ StaysPut
  /\ scroll.tracking <=> wants = "bottom"
  /\ scroll.tracking => ~scroll.unseen
=============================================================================
