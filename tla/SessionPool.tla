---------------------------- MODULE SessionPool ----------------------------
(***************************************************************************)
(* The sessions of one daemon side by side (session-manager.ts, store.ts): *)
(* the map and its limit, creation, resumption, closing and deletion, and   *)
(* the approvals the daemon asks for itself.  Turns are left to            *)
(* SessionManager: here a prompt matters only for the hold it puts on the   *)
(* events of its session while startTurn is awaited, and for the title that *)
(* its first run asks for and that arrives later.                           *)
(*                                                                         *)
(* Races names the interleavings the code does not guard against:           *)
(* "overlap" (an opening starts while another is in flight), "resume" (a    *)
(* resumption beyond the limits), "midspawn" (a close or a delete while the *)
(* process of the session is being started), "title" (a delete before the   *)
(* title arrives), "closing" (a close while an approval waits), "refused"   *)
(* (startTurn rejects while approvals are held), "reset" (another prompt    *)
(* starts while approvals are held), "restored" (a resumption ends while an *)
(* approval waits that was asked for while the session was closed).         *)
(***************************************************************************)
EXTENDS Naturals, FiniteSets

CONSTANTS
  MaxEver,      \* bound: sessions created in a behaviour
  MaxSessions,  \* settings: sessions with a runtime at a time
  Calls,        \* calls of reverse tools; an approval is named by its call
  Races

ASSUME PoolAssumption == MaxEver \in Nat /\ MaxSessions \in Nat

Sessions == 1..MaxEver
Nobody   == 0
Statuses == {"unused", "initializing", "idle", "closed", "error"}

VARIABLES
  listed,    \* SessionManager.sessions: ids in the map
  status, parent, depth,  \* meta: status, labels ch.parentSessionId and ch.toolDepth
  handle,    \* sessions with a persisted handle
  opening,   \* adapter.createSession / resumeSession calls in flight
  runtime,   \* LiveSession.runtime: "none", "alive", "dead" (its process exited)
  orphans,   \* processes no runtime names any more
  held,      \* startTurn calls in flight, and eventHold: off, or the approval events it keeps
  pending,   \* LiveSession.pending: what respondPermission accepts
  cards,     \* approvals the clients show, from the events they received
  titling, titled,
  onDisk,    \* sessions with a meta.json
  deleted    \* history: deleteSession completed

poolVars == <<listed, status, parent, depth, handle, opening, runtime, orphans,
              held, pending, cards, titling, titled, onDisk, deleted>>

Allows(race) == race \in Races

(* eventHold is one per session, however many prompts are being started. *)
Off(starts) == [starts |-> starts, on |-> FALSE, asked |-> {}, resolved |-> {}]
On(starts)  == [Off(starts) EXCEPT !.on = TRUE]

HoldsNothing(s) == held[s].asked = {} /\ held[s].resolved = {}

Active   == {s \in Sessions : runtime[s] # "none"}
Quiescent == \A s \in Sessions : opening[s] = 0

(* usageTree: the children of s that are not closed. *)
Children(s) == {c \in listed : parent[c] = s /\ status[c] # "closed"}

PoolTypeOK ==
  /\ listed \subseteq Sessions /\ onDisk \subseteq Sessions /\ deleted \subseteq Sessions
  /\ status \in [Sessions -> Statuses]
  /\ parent \in [Sessions -> Sessions \cup {Nobody}]
  /\ depth \in [Sessions -> Nat]
  /\ handle \subseteq Sessions /\ titling \subseteq Sessions /\ titled \subseteq Sessions
  /\ opening \in [Sessions -> Nat] /\ orphans \in [Sessions -> Nat]
  /\ runtime \in [Sessions -> {"none", "alive", "dead"}]
  /\ held \in [Sessions -> [starts : Nat, on : BOOLEAN, asked : SUBSET Calls, resolved : SUBSET Calls]]
  /\ pending \in [Sessions -> SUBSET Calls] /\ cards \in [Sessions -> SUBSET Calls]

PoolInit ==
  /\ listed = {} /\ onDisk = {} /\ deleted = {}
  /\ status = [s \in Sessions |-> "unused"]
  /\ parent = [s \in Sessions |-> Nobody]
  /\ depth = [s \in Sessions |-> 0]
  /\ handle = {} /\ titling = {} /\ titled = {}
  /\ opening = [s \in Sessions |-> 0] /\ orphans = [s \in Sessions |-> 0]
  /\ runtime = [s \in Sessions |-> "none"]
  /\ held = [s \in Sessions |-> Off(0)]
  /\ pending = [s \in Sessions |-> {}] /\ cards = [s \in Sessions |-> {}]

-----------------------------------------------------------------------------
(* Opening *)

(* randomUUID: an id never used; in the order of creation. *)
Fresh(s) == status[s] = "unused" /\ \A older \in 1..(s - 1) : status[older] # "unused"

MayOpen == Allows("overlap") \/ Quiescent

(* The limit counts runtimes: a session that is being opened has none yet. *)
HasRoom == Cardinality(Active) < MaxSessions

(* createSession up to the spawn: the session is in the map and on disk, `initializing`. *)
CreateAs(s, by, level) ==
  /\ HasRoom /\ Fresh(s)
  /\ listed' = listed \cup {s} /\ onDisk' = onDisk \cup {s}
  /\ status' = [status EXCEPT ![s] = "initializing"]
  /\ parent' = [parent EXCEPT ![s] = by]
  /\ depth' = [depth EXCEPT ![s] = level]
  /\ opening' = [opening EXCEPT ![s] = 1]
  /\ UNCHANGED <<handle, runtime, orphans, held, pending, cards, titling, titled, deleted>>

(* The adapter has a session: attachRuntime, then idle.  An older runtime is forgotten alive.  A
   resumption restores what the harness has pending: what the daemon asked for itself is lost. *)
Opened(s) ==
  /\ opening[s] > 0
  /\ Allows("restored") \/ s \notin handle \/ pending[s] = {}
  /\ opening' = [opening EXCEPT ![s] = @ - 1]
  /\ runtime' = [runtime EXCEPT ![s] = "alive"]
  /\ orphans' = IF runtime[s] = "alive" THEN [orphans EXCEPT ![s] = @ + 1] ELSE orphans
  /\ handle' = handle \cup {s}
  /\ status' = [status EXCEPT ![s] = "idle"]
  /\ pending' = IF s \in handle THEN [pending EXCEPT ![s] = {}] ELSE pending
  /\ onDisk' = onDisk \cup {s}
  /\ UNCHANGED <<listed, parent, depth, held, cards, titling, titled, deleted>>

(* The adapter rejects, or buildEnv does. *)
OpenFails(s) ==
  /\ opening[s] > 0
  /\ opening' = [opening EXCEPT ![s] = @ - 1]
  /\ status' = [status EXCEPT ![s] = "error"]
  /\ onDisk' = onDisk \cup {s}
  /\ UNCHANGED <<listed, parent, depth, handle, runtime, orphans, held, pending, cards,
                 titling, titled, deleted>>

(* resumeSession: idempotent for a session with a runtime; the limit is not looked at. *)
Resume(s) ==
  /\ s \in listed /\ runtime[s] = "none" /\ s \in handle
  /\ status' = [status EXCEPT ![s] = "initializing"]
  /\ opening' = [opening EXCEPT ![s] = @ + 1]
  /\ onDisk' = onDisk \cup {s}
  /\ UNCHANGED <<listed, parent, depth, handle, runtime, orphans, held, pending, cards,
                 titling, titled, deleted>>

-----------------------------------------------------------------------------
(* Prompts, as far as the daemon's own events are concerned *)

(* startPrompt: events of the session are held from here on, in a new hold, even while another
   prompt is being started. *)
Prompt(s) ==
  /\ s \in listed /\ runtime[s] # "none" /\ status[s] = "idle"
  /\ Allows("reset") \/ HoldsNothing(s)
  /\ held' = [held EXCEPT ![s] = On(@.starts + 1)]
  /\ UNCHANGED <<listed, status, parent, depth, handle, opening, runtime, orphans, pending,
                 cards, titling, titled, onDisk, deleted>>

(* A startTurn resolves: what is held is applied, and the first prompt asks for a title. *)
PromptStarts(s) ==
  /\ held[s].starts > 0 /\ runtime[s] = "alive"
  /\ pending' = [pending EXCEPT ![s] = (@ \cup held[s].asked) \ held[s].resolved]
  /\ cards' = [cards EXCEPT ![s] = (@ \cup held[s].asked) \ held[s].resolved]
  /\ held' = [held EXCEPT ![s] = Off(@.starts - 1)]
  /\ titling' = IF s \in titled THEN titling ELSE titling \cup {s}
  /\ UNCHANGED <<listed, status, parent, depth, handle, opening, runtime, orphans, titled,
                 onDisk, deleted>>

(* A startTurn rejects: what is held is dropped. *)
PromptRefused(s) ==
  /\ held[s].starts > 0
  /\ Allows("refused") \/ HoldsNothing(s)
  /\ held' = [held EXCEPT ![s] = Off(@.starts - 1)]
  /\ UNCHANGED <<listed, status, parent, depth, handle, opening, runtime, orphans, pending,
                 cards, titling, titled, onDisk, deleted>>

(* ensureTitle goes on: the title is set and the meta written, whatever became of the session. *)
TitleArrives(s) ==
  /\ s \in titling
  /\ titling' = titling \ {s} /\ titled' = titled \cup {s}
  /\ onDisk' = onDisk \cup {s}
  /\ UNCHANGED <<listed, status, parent, depth, handle, opening, runtime, orphans, held,
                 pending, cards, deleted>>

-----------------------------------------------------------------------------
(* Ends *)

(* The process exits on its own: the runtime stays, and counts, until the session is closed. *)
Crash(s) ==
  /\ runtime[s] = "alive" /\ (Allows("refused") \/ HoldsNothing(s))
  /\ runtime' = [runtime EXCEPT ![s] = "dead"]
  /\ status' = [status EXCEPT ![s] = "error"]
  /\ UNCHANGED <<listed, parent, depth, handle, opening, orphans, held, pending, cards,
                 titling, titled, onDisk, deleted>>

(* closeSession, with the runtime the session has: what it has pending is forgotten. *)
Closing(s) ==
  /\ s \in listed
  /\ runtime' = [runtime EXCEPT ![s] = "none"]
  /\ pending' = IF runtime[s] = "none" THEN pending ELSE [pending EXCEPT ![s] = {}]
  /\ status' = [status EXCEPT ![s] = "closed"]
  /\ UNCHANGED <<parent, depth, opening, orphans, held, titling, titled, handle>>

Close(s) == Closing(s) /\ onDisk' = onDisk \cup {s} /\ UNCHANGED <<listed, cards, deleted>>

(* Mutant: the directory goes before the close writes the meta once more. *)
DeleteFirst(s) ==
  /\ Closing(s)
  /\ Allows("title") \/ s \notin titling
  /\ listed' = listed \ {s} /\ onDisk' = onDisk \cup {s}
  /\ cards' = [cards EXCEPT ![s] = {}]
  /\ deleted' = deleted \cup {s}

(* deleteSession: close, then the map and the directory. *)
Delete(s) ==
  /\ Closing(s)
  /\ Allows("title") \/ s \notin titling
  /\ listed' = listed \ {s} /\ onDisk' = onDisk \ {s}
  /\ cards' = [cards EXCEPT ![s] = {}]
  /\ deleted' = deleted \cup {s}

(* The daemon stops or dies, and a new one loads what is on disk. *)
PoolRestart ==
  /\ listed' = onDisk
  /\ status' = [s \in Sessions |->
                  IF s \in onDisk /\ status[s] \in {"initializing", "idle"} THEN "closed" ELSE status[s]]
  /\ opening' = [s \in Sessions |-> 0] /\ orphans' = [s \in Sessions |-> 0]
  /\ runtime' = [s \in Sessions |-> "none"]
  /\ held' = [s \in Sessions |-> Off(0)]
  /\ pending' = [s \in Sessions |-> {}] /\ cards' = [s \in Sessions |-> {}]
  /\ titling' = {}
  /\ UNCHANGED <<parent, depth, handle, titled, onDisk, deleted>>

-----------------------------------------------------------------------------
(* Approvals of the daemon (requestReverseToolApproval, respondPermission) *)

Asked(c)    == [asked |-> {c}, resolved |-> {}]
Resolved(c) == [asked |-> {}, resolved |-> {c}]

(* applyEvent, when `now` is the pending table: held, or applied and shown. *)
ApplyEvent(now, s, e) ==
  IF held[s].on
  THEN /\ held' = [held EXCEPT ![s].asked = @ \cup e.asked, ![s].resolved = @ \cup e.resolved]
       /\ pending' = now /\ UNCHANGED cards
  ELSE /\ pending' = [now EXCEPT ![s] = (@ \cup e.asked) \ e.resolved]
       /\ cards' = [cards EXCEPT ![s] = (@ \cup e.asked) \ e.resolved]
       /\ UNCHANGED held

(* Mutant: the event bypasses the table. *)
ShowOnly(s, c) ==
  /\ cards' = [cards EXCEPT ![s] = @ \cup {c}]
  /\ UNCHANGED <<pending, held>>

(* A request of the daemon joins what the user can answer. *)
AskUser(s, c) == ApplyEvent(pending, s, Asked(c))

(* settle and permission_resolved: the request is over. *)
ForgetRequest(s, c) == ApplyEvent([pending EXCEPT ![s] = @ \ {c}], s, Resolved(c))

(* What an approval leaves alone. *)
poolRest == <<listed, status, parent, depth, handle, opening, runtime, orphans, titling,
              titled, onDisk, deleted>>
=============================================================================
