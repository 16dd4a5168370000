----------------------------- MODULE Approvals -----------------------------
(***************************************************************************)
(* The approvals of one session at a window: requests become cards          *)
(* (timeline.ts, components/PermissionCard.tsx), which the user answers or,   *)
(* once he has opted in, the store does (store/app-store.ts); a user who is    *)
(* not looking is notified when the session begins to need him.  Another      *)
(* client may answer as well, the end of a turn withdraws what its harness    *)
(* has asked, and what a reverse tool asks expires (session-manager.ts).     *)
(*                                                                         *)
(* Races: "missed" (the connection is lost with a request or an answer on its  *)
(* way, or something is asked meanwhile), "stuck" (the user answers while there *)
(* is no connection), "optin" (the user opts in while a request waits),         *)
(* "second" (a request comes while the user has left another one waiting).    *)
(***************************************************************************)
EXTENDS Naturals, Sequences, FiniteSets, Services

CONSTANTS
  Requests,   \* requests for an approval
  MaxDrops,   \* bound: lost connections
  MaxGlances  \* bound: moves of the user

ASSUME ApprovalsAssumption == IsFiniteSet(Requests) /\ {MaxDrops, MaxGlances} \subseteq Nat

(* permission.request: who asks, and whether one of the options is allow_once, as it always is
   for a reverse tool. *)
Asked == [origin : {"harness", "reverse_tool"}, once : BOOLEAN]
Askable == {ask \in Asked : ask.origin = "reverse_tool" => ask.once}
OnceOfHarness == [origin |-> "harness", once |-> TRUE]

VARIABLES
  requested,  \* the requests of the session: what was asked, and "none", "waiting" or who decided
  alarm,      \* meta.requiresAttention, for the reason `permission'
  feed,       \* events on their way to the window
  answersOut, \* session.permission.respond on its way to the daemon
  cards,      \* the items of the view: "none", "pending", "resolved"
  responding, \* PermissionCard.responding, of a card that is drawn
  optedIn,    \* AppState.autoApprove of the session
  paneIs,     \* the pane of the session: "focused", "blurred" (another window), "hidden"
  online,     \* the window has a connection
  aware,      \* history: the requests the user has been told of
  alerted,    \* history: a notification he has not followed yet
  glances     \* connections lost and moves of the user

daemonVars   == <<requested, alarm>>
screenVars   == <<cards, responding, optedIn, paneIs>>
userVars     == <<aware, alerted, glances>>
approvalVars == <<daemonVars, feed, answersOut, screenVars, online, userVars>>

ApprovalsInit ==
  /\ requested = [r \in Requests |-> [ask |-> OnceOfHarness, state |-> "none"]] /\ alarm = FALSE
  /\ feed = <<>> /\ answersOut = {}
  /\ cards = [r \in Requests |-> "none"] /\ responding = {} /\ optedIn = FALSE
  /\ paneIs = "focused" /\ online = TRUE
  /\ aware = {} /\ alerted = FALSE /\ glances = [drops |-> 0, moves |-> 0]

Unresolved == {r \in Requests : requested[r].state = "waiting"}
Cards(state) == {r \in Requests : cards[r] = state}

-----------------------------------------------------------------------------
(* session-manager.ts: the attention follows the event, if it is another than before. *)
Raise(event, waiting) ==
  LET raised == waiting # {} IN
  /\ alarm' = raised
  /\ feed' = IF ~online THEN feed
             ELSE feed \o <<event>> \o (IF alarm = raised THEN <<>> ELSE <<<<"attention", raised>>>>)

Ask(r) ==
  /\ requested[r].state = "none"
  /\ Allows("missed") \/ online
  /\ Allows("second") \/ Unresolved = {} \/ paneIs = "focused" \/ alerted
  /\ \E ask \in Askable : requested' = [requested EXCEPT ![r] = [ask |-> ask, state |-> "waiting"]]
  /\ Raise(<<"asked", r>>, Unresolved \cup {r})
  /\ UNCHANGED <<answersOut, screenVars, online, userVars>>

Decide(r, by) ==
  /\ requested' = [requested EXCEPT ![r].state = by]
  /\ Raise(<<"resolved", r>>, Unresolved \ {r})

(* respondPermission: what does not wait any more is not found. *)
RespondPermission(answer) ==
  /\ answersOut' = answersOut \ {answer}
  /\ IF answer.of \in Unresolved THEN Decide(answer.of, answer.by)
     ELSE UNCHANGED <<daemonVars, feed>>
  /\ UNCHANGED <<screenVars, online, userVars>>

(* Another client answers, the turn of a harness ends, or 120 seconds are over. *)
DecidedElsewhere(r) ==
  /\ r \in Unresolved
  /\ Allows("missed") \/ online
  /\ \/ Decide(r, "other")
     \/ requested[r].ask.origin = "reverse_tool" /\ Decide(r, "expired")
  /\ UNCHANGED <<answersOut, screenVars, online, userVars>>

-----------------------------------------------------------------------------

(* onPermissionRequested: the store answers by the option allow_once; it leaves to the user what
   does not offer it, and what a reverse tool asks. *)
AutoApproves(r) == optedIn /\ requested[r].ask.origin # "reverse_tool" /\ requested[r].ask.once

(* onEvent; maybeNotify tells a user who does not look. *)
OnEvent ==
  /\ feed # <<>> /\ feed' = Tail(feed)
  /\ LET kind == Head(feed)[1] IN
     \/ /\ kind = "asked"
        /\ LET r == Head(feed)[2] IN
           /\ cards' = [cards EXCEPT ![r] = IF @ = "none" THEN "pending" ELSE @]
           /\ answersOut' = IF AutoApproves(r) THEN answersOut \cup {[of |-> r, by |-> "auto"]}
                            ELSE answersOut
           /\ aware' = IF paneIs = "focused" \/ alerted THEN aware \cup {r} ELSE aware
        /\ UNCHANGED alerted
     \/ /\ kind = "resolved"
        /\ cards' = [cards EXCEPT ![Head(feed)[2]] = "resolved"]
        /\ UNCHANGED <<answersOut, aware, alerted>>
     \/ /\ kind = "attention"
        /\ IF Head(feed)[2] /\ paneIs # "focused"
             THEN aware' = aware \cup Cards("pending") /\ alerted' = TRUE
             ELSE UNCHANGED <<aware, alerted>>
        /\ UNCHANGED <<answersOut, cards>>
  /\ UNCHANGED <<daemonVars, responding, optedIn, paneIs, online, glances>>

(* PermissionCard.respond: the buttons are off from now on; what becomes of the call is not asked. *)
Respond(r) ==
  /\ cards[r] = "pending" /\ r \notin responding /\ paneIs = "focused"
  /\ Allows("stuck") \/ online
  /\ responding' = responding \cup {r}
  /\ answersOut' = IF online THEN answersOut \cup {[of |-> r, by |-> "card"]} ELSE answersOut
  /\ UNCHANGED <<daemonVars, feed, cards, optedIn, paneIs, online, userVars>>

SetAutoApprove ==
  /\ paneIs = "focused"
  /\ Allows("optin") \/ optedIn \/ (Unresolved = {} /\ feed = <<>>)
  /\ optedIn' = ~optedIn
  /\ UNCHANGED <<daemonVars, feed, answersOut, cards, responding, paneIs, online, userVars>>

(* The items of a session as the daemon has them, in a pane that is loaded or catches up. *)
Loaded == [r \in Requests |-> CASE requested[r].state = "none" -> "none"
                                [] requested[r].state = "waiting" -> "pending"
                                [] OTHER -> "resolved"]

(* The user goes to another window, to another tab, or to the session; a card of a hidden pane is
   not drawn, and is drawn anew. *)
Glance(to) ==
  /\ to # paneIs /\ glances.moves < MaxGlances
  /\ Allows("second") \/ to = "focused" \/ feed = <<>>
  /\ paneIs' = to /\ glances' = [glances EXCEPT !.moves = @ + 1]
  /\ responding' = IF to = "hidden" THEN {} ELSE responding
  /\ cards' = IF paneIs = "hidden" /\ online THEN Loaded ELSE cards
  /\ IF to = "focused" THEN aware' = aware \cup {r \in Requests : cards'[r] = "pending"}
                            /\ alerted' = FALSE
     ELSE UNCHANGED <<aware, alerted>>
  /\ UNCHANGED <<daemonVars, feed, answersOut, optedIn, online>>

-----------------------------------------------------------------------------
(* An answer on its way may have arrived or not. *)
LoseConnection ==
  /\ online /\ glances.drops < MaxDrops
  /\ Allows("missed") \/ (feed = <<>> /\ answersOut = {})
  /\ online' = FALSE /\ glances' = [glances EXCEPT !.drops = @ + 1]
  /\ feed' = <<>> /\ answersOut' \in SUBSET answersOut
  /\ UNCHANGED <<daemonVars, screenVars, aware, alerted>>

(* resync: the timelines of the panes are brought up to date, by applyEvents. *)
Resync ==
  /\ ~online /\ online' = TRUE
  /\ cards' = IF paneIs = "hidden" THEN cards ELSE Loaded
  /\ aware' = IF paneIs = "focused" THEN aware \cup {r \in Requests : cards'[r] = "pending"}
              ELSE aware
  /\ UNCHANGED <<daemonVars, feed, answersOut, responding, optedIn, paneIs, alerted, glances>>

(* The store of a new window has opted in to nothing; it opens the tabs it had. *)
ReloadWindow ==
  /\ online /\ glances.moves < MaxGlances
  /\ Allows("missed") \/ (feed = <<>> /\ answersOut = {})
  /\ glances' = [glances EXCEPT !.moves = @ + 1]
  /\ feed' = <<>> /\ responding' = {} /\ optedIn' = FALSE /\ paneIs' = "focused"
  /\ cards' = Loaded
  /\ aware' = aware \cup Unresolved /\ alerted' = FALSE
  /\ UNCHANGED <<daemonVars, answersOut, online>>

ApprovalsNext ==
  \/ \E r \in Requests : Ask(r) \/ DecidedElsewhere(r) \/ Respond(r)
  \/ \E answer \in answersOut : RespondPermission(answer)
  \/ OnEvent \/ SetAutoApprove \/ LoseConnection \/ Resync \/ ReloadWindow
  \/ \E to \in {"focused", "blurred", "hidden"} : Glance(to)

-----------------------------------------------------------------------------
Arrived == online /\ feed = <<>>
OnItsWay(r) == \E answer \in answersOut : answer.of = r

(* PermissionCard.tsx, app-store.ts 1057-1079: what waits for an approval can be answered at the
   screen: it has a card whose buttons are on, or an answer is on its way. *)
CardsAnswerable ==
  Arrived /\ paneIs = "focused" =>
    /\ Cards("pending") = Unresolved
    /\ \A r \in Unresolved : OnItsWay(r) \/ r \notin responding

(* A session that approves on its own leaves no request of its harness waiting that can be allowed
   once, and approves nothing else: nothing that a reverse tool has asked (roadmap
   m7-orchestration), nor for longer than this once. *)
ApprovesOnItsOwn ==
  /\ \A r \in Requests : requested[r].state = "auto" => requested[r].ask = OnceOfHarness
  /\ optedIn /\ Arrived => \A r \in Unresolved : requested[r].ask = OnceOfHarness => OnItsWay(r)

(* app-store.ts 1081-1090, 1105-1128: a user has been told of what waits for him: he has seen it,
   or a notification has been given since he looked. *)
UserIsTold == Arrived => Unresolved \subseteq aware

ApprovalsSound == CardsAnswerable /\ ApprovesOnItsOwn /\ UserIsTold
=============================================================================
