--------------------------- MODULE MCReverseGate ---------------------------
(***************************************************************************)
(* The gate over the pool: users, harnesses and the daemon interleaved.    *)
(***************************************************************************)
EXTENDS ReverseGate

CONSTANTS
  MaxMoves,  \* bound: prompts, resumptions, closes, deletes, crashes and restarts
  Touched    \* bound: the sessions these happen to
VARIABLE moves

mcVars == <<vars, moves>>

Move == moves < MaxMoves /\ moves' = moves + 1

Init == PoolInit /\ CallInit /\ moves = 0

(* The user turns the tools off: calls on their way are not affected. *)
TurnOff == exposed /\ exposed' = FALSE /\ UNCHANGED <<poolVars, callVars, moves>>

Waits(s) == \E c \in waiting : from[c] = s

(* Between the count of children and the creation, for a call of s. *)
Spawning(s) == \E c \in Calls : tool[c] = "new" /\ from[c] = s /\ step[c] \in {"asking", "granted"}

(* Bound: the user creates sessions before the first call, as many as there may be at a time. *)
UserCreates == MayOpen /\ (\A c \in Calls : step[c] = "unused") /\ \E s \in Sessions : CreateAs(s, Nobody, 0)

UserResumes ==
  \E s \in Touched :
    /\ Resume(s)
    /\ MayOpen
    /\ \/ Allows("resume")
       \/ /\ HasRoom
          /\ parent[s] # Nobody =>
               ~Spawning(parent[s]) /\ Cardinality(Children(parent[s]) \cup {s}) <= MaxFanout

UserCloses ==
  \E s \in Touched :
    /\ Close(s) \/ Delete(s)
    /\ Allows("midspawn") \/ opening[s] = 0
    /\ Allows("closing") \/ ~Waits(s)

Disturb ==
  /\ Move
  /\ UserResumes \/ UserCloses \/ \E s \in Touched : Prompt(s) \/ Crash(s)
  /\ UNCHANGED <<exposed, callVars>>

PoolStep ==
  /\ UserCreates \/ \E s \in Sessions : PromptStarts(s) \/ PromptRefused(s) \/ TitleArrives(s)
  /\ UNCHANGED <<exposed, callVars, moves>>

CallStep(c) ==
  \/ \E s \in Sessions, what \in Tools : Submit(c, s, what)
  \/ Invoke(c) \/ LineLost(c)
  \/ \E known, valid, budget \in BOOLEAN : Judge(c, known, valid, budget)
  \/ \E how \in {"allow", "deny"} : UserAnswers(c, how)
  \/ Expire(c) \/ GivesUp(c)

OpenStep(s) == OpenedFor(s) \/ OpenFailsFor(s)

Restart == Move /\ PoolRestart /\ CallsCut /\ UNCHANGED exposed

(* A call that was granted goes on in the same turn of the event loop; one that is over is
   written to the log, which nothing else touches. *)
Quiet == \A c \in Calls : step[c] \notin {"granted", "reporting"}

RunStep(c) == Run(c) \/ RunNew(c) \/ RunNewFails(c) \/ Report(c)

Next ==
  \/ Quiet /\ (TurnOff \/ Disturb \/ PoolStep \/ Restart)
  \/ Quiet /\ (\E s \in Sessions : OpenStep(s)) /\ UNCHANGED moves
  \/ Quiet /\ (\E c \in Calls : CallStep(c)) /\ UNCHANGED moves
  \/ (\E c \in Calls : RunStep(c)) /\ UNCHANGED moves

(* What the daemon and the server of the harness do for a call without the user. *)
GoesOn(c) ==
  \/ Invoke(c) \/ LineLost(c) \/ Expire(c) \/ RunStep(c)
  \/ \E known, valid, budget \in BOOLEAN : Judge(c, known, valid, budget)

Daemon(action) == action /\ UNCHANGED moves

(* The daemon keeps running what it has: its own continuations, timers and spawns. *)
Fairness ==
  /\ \A s \in Sessions : WF_mcVars(Daemon(OpenStep(s)))
  /\ \A c \in Calls : WF_mcVars(Daemon(GoesOn(c)))

Spec == Init /\ [][Next]_mcVars /\ Fairness

-----------------------------------------------------------------------------
GateTypeOK == PoolTypeOK /\ CallTypeOK

(* gate.ts, requestReverseToolApproval, audit.ts: a tool that writes ran only with the consent
   of the user, and a call that went through the gate left one entry, which tells how the
   request for approval ended and never calls a success what did not run. *)
RunsAsApproved ==
  \A c \in Calls :
    /\ c \in ran /\ tool[c] # "read" => consent[c] = "allow"
    /\ approval[c] = "granted" => consent[c] = "allow"
    /\ step[c] = "done" =>
         /\ Len(audit[c]) = 1
         /\ audit[c][1].approval = "granted" <=> consent[c] = "allow"
         /\ audit[c][1].outcome = "ok" => c \in ran

(* gate.ts, session-manager.ts: the tree of sessions keeps its height and width, the daemon its
   number of runtimes, and a session has one process, which the map can reach. *)
LimitsHold ==
  /\ Cardinality(Active) <= MaxSessions
  /\ \A s \in Sessions :
       /\ depth[s] <= MaxDepth
       /\ Cardinality(Children(s)) <= MaxFanout
       /\ orphans[s] = 0
       /\ runtime[s] = "alive" => s \in listed

(* session-manager.ts:679: a call that waits for the user can be answered, now or as soon as
   the prompt that is starting has released the events. *)
WaitingIsAnswerable ==
  \A c \in waiting :
    /\ from[c] \in listed
    /\ c \in pending[from[c]] \cup held[from[c]].asked

(* session-manager.ts deleteSession: a session that was deleted never comes back, not even when
   the daemon loads the disk again. *)
DeletedStaysDeleted == deleted \cap (listed \cup onDisk) = {}

(* gate.ts: every call that a harness makes is answered, whatever users and sessions do. *)
CallsAreAnswered == \A c \in Calls : step[c] = "line" ~> told[c] # "none"

(* wiki/decisions/tool-execution-in-daemon.md:45: whoever waits for a call waits longer than the
   user may take, so a tool is never run for a model that was already told of a failure. *)
LostNeverRuns == [][\A c \in ran' \ ran : tool[c] # "read" => told[c] = "none"]_mcVars
=============================================================================
