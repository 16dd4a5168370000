---------------------------- MODULE ReverseGate ----------------------------
(***************************************************************************)
(* Calls of reverse tools, from the harness to the daemon and back: the MCP *)
(* server the harness spawned handles its lines one at a time (mcp/main.ts, *)
(* server.ts, client.ts; the pi extension is one more hop above it), the    *)
(* daemon puts each call through the gate (mcp/gate.ts, tools.ts), asks the *)
(* user (session-manager.ts) and runs it as an RPC of its own.              *)
(*                                                                         *)
(* Two more Races: "deleted" (the caller is deleted while its call is on    *)
(* its way), "slow" (a call outlasts the 180 s of the MCP client while it   *)
(* runs) and "patience" (the user takes longer than the 30 s of the pi      *)
(* extension).                                                              *)
(***************************************************************************)
EXTENDS SessionPool, Sequences

CONSTANTS
  MaxDepth,   \* settings: tools.maxSessionDepth
  MaxFanout,  \* settings: tools.maxFanout
  Extension   \* the harness is pi: its extension waits at most 30 s for a call

Tools == {"read", "write", "new"}  \* session_new is the tool that spawns a session
Steps == {"unused", "line", "invoked", "asking", "granted", "running", "reporting",
          "done", "cut"}
Approvals == {"none", "granted", "denied"}
Over  == {"done", "cut"}  \* "cut": the harness or the daemon went away under the call
Outcomes == {"ok", "error"}  \* isError of the result: a refusal is an error the model reads

ASSUME GateAssumption == MaxDepth \in Nat /\ MaxFanout \in Nat /\ Extension \in BOOLEAN
ASSUME CallsAssumption == Calls \subseteq Nat
ASSUME RacesAssumption ==
  Races \subseteq {"overlap", "resume", "midspawn", "title", "closing", "refused", "reset", "restored",
                   "deleted", "slow", "patience"}

VARIABLES
  exposed,   \* settings: tools.reverseExposure
  tool, from,    \* of a call: what it asks for, the session whose harness made it
  step,
  made,      \* of session_new: the session it created
  approval,  \* what requestApproval resolved to: "none" (not asked, or not yet), "granted", "denied"
  consent,   \* history: what the user said, "none", "allow" or "deny"
  outcome,   \* the result of the call, before it is reported
  ran,       \* calls whose tool was run
  waiting,   \* daemonPending: calls whose approval has a resolver
  audit,     \* entries of the audit log, per call
  told       \* the model: "none" (it waits), "told" the result, "lost" (told of a timeout)

callVars == <<tool, from, step, made, approval, consent, outcome, ran, waiting, audit, told>>
vars == <<poolVars, exposed, callVars>>

CallTypeOK ==
  /\ exposed \in BOOLEAN
  /\ tool \in [Calls -> Tools] /\ from \in [Calls -> Sessions \cup {Nobody}]
  /\ step \in [Calls -> Steps]
  /\ \A c \in Calls : step[c] \notin Over \cup {"unused"} => from[c] \in Sessions
  /\ made \in [Calls -> Sessions \cup {Nobody}]
  /\ approval \in [Calls -> Approvals] /\ consent \in [Calls -> {"none", "allow", "deny"}]
  /\ outcome \in [Calls -> Outcomes]
  /\ ran \subseteq Calls /\ waiting \subseteq {c \in Calls : step[c] = "asking"}
  /\ audit \in [Calls -> Seq([outcome : Outcomes, approval : Approvals])]
  /\ told \in [Calls -> {"none", "told", "lost"}]

CallInit ==
  /\ exposed \in BOOLEAN
  /\ tool = [c \in Calls |-> "read"] /\ from = [c \in Calls |-> Nobody]
  /\ step = [c \in Calls |-> "unused"]
  /\ made = [c \in Calls |-> Nobody]
  /\ approval = [c \in Calls |-> "none"] /\ consent = [c \in Calls |-> "none"]
  /\ outcome = [c \in Calls |-> "error"]
  /\ ran = {} /\ waiting = {}
  /\ audit = [c \in Calls |-> <<>>]
  /\ told = [c \in Calls |-> "none"]

-----------------------------------------------------------------------------
(* The way to the daemon *)

(* tools/call of a live harness; calls are numbered in the order they are made. *)
Submit(c, s, what) ==
  /\ step[c] = "unused" /\ \A older \in Calls : older < c => step[older] # "unused"
  /\ runtime[s] = "alive"
  /\ tool' = [tool EXCEPT ![c] = what] /\ from' = [from EXCEPT ![c] = s]
  /\ step' = [step EXCEPT ![c] = "line"]
  /\ UNCHANGED <<made, approval, consent, outcome, ran, waiting, audit, told, exposed, poolVars>>

(* Mutant: lines are not queued, a call is forwarded as it comes. *)
NoQueue(c) == TRUE

(* The queue of mcp/main.ts: a line waits until the RPC of the one before it is settled. *)
AtHead(c) ==
  \A older \in Calls : older < c /\ from[older] = from[c] =>
    step[older] \in Over \/ (told[older] = "lost" /\ ~Extension)

(* A call that is over is nobody's any more. *)
Forgotten(c) ==
  /\ tool' = [tool EXCEPT ![c] = "read"] /\ from' = [from EXCEPT ![c] = Nobody]
  /\ made' = [made EXCEPT ![c] = Nobody] /\ outcome' = [outcome EXCEPT ![c] = "error"]

Finish(c, result) ==
  /\ outcome' = [outcome EXCEPT ![c] = result]
  /\ step' = [step EXCEPT ![c] = "reporting"]

(* tool.invoke reaches the daemon: the setting is read now. *)
Invoke(c) ==
  /\ step[c] = "line" /\ AtHead(c) /\ runtime[from[c]] = "alive"
  /\ IF exposed THEN step' = [step EXCEPT ![c] = "invoked"] /\ UNCHANGED outcome
                ELSE Finish(c, "error")
  /\ UNCHANGED <<tool, from, made, approval, consent, ran, waiting, audit, told, exposed, poolVars>>

(* The harness is gone, and with it the server that had the line. *)
LineLost(c) ==
  /\ step[c] = "line" /\ runtime[from[c]] # "alive"
  /\ step' = [step EXCEPT ![c] = "cut"] /\ told' = [told EXCEPT ![c] = IF @ = "none" THEN "told" ELSE @]
  /\ Forgotten(c)
  /\ UNCHANGED <<approval, consent, ran, waiting, audit, exposed, poolVars>>

-----------------------------------------------------------------------------
(* The gate *)

(* Depth from the caller's label, fan-out from its children: for session_new. *)
WithinTree(c) ==
  /\ depth[from[c]] + 1 <= MaxDepth
  /\ Cardinality(Children(from[c])) < MaxFanout

(* What the gate decides of a call that is valid, when the caller is known or not. *)
Blocked(c, known, budget) ==
  \/ tool[c] # "read" /\ ~known
  \/ tool[c] = "new" /\ ~WithinTree(c)
  \/ tool[c] # "read" /\ ~budget

(* resolveCaller knows the session, but it is not in the map any more: usageTree, or the
   request for approval, throws out of the gate, past the audit. *)
Thrown(c, known) == known /\ tool[c] # "read" /\ from[c] \notin listed

Ask(c) ==
  /\ step' = [step EXCEPT ![c] = "asking"]
  /\ waiting' = waiting \cup {c}
  /\ AskUser(from[c], c)
  /\ UNCHANGED <<outcome, told, poolRest>>

Grant(c) == step' = [step EXCEPT ![c] = "granted"] /\ UNCHANGED <<outcome, waiting, told, poolVars>>

Refuse(c) == Finish(c, "error") /\ UNCHANGED <<waiting, told, poolVars>>

(* resolveCaller has read the ledger; what follows to the request for approval is synchronous.
   known: the pid is in the ledger; valid: the arguments parse; budget: tokens are left. *)
Judge(c, known, valid, budget) ==
  /\ step[c] = "invoked"
  /\ known => from[c] \in listed \/ Allows("deleted")
  /\ \/ (~valid \/ (~Thrown(c, known) /\ Blocked(c, known, budget))) /\ Refuse(c)
     \/ /\ valid /\ Thrown(c, known)
        /\ step' = [step EXCEPT ![c] = "done"]
        /\ told' = [told EXCEPT ![c] = IF @ = "none" THEN "told" ELSE @]
        /\ UNCHANGED <<outcome, waiting, poolVars>>
     \/ valid /\ tool[c] = "read" /\ Grant(c)
     \/ valid /\ tool[c] # "read" /\ ~Thrown(c, known) /\ ~Blocked(c, known, budget) /\ Ask(c)
  /\ UNCHANGED <<tool, from, made, approval, consent, ran, audit, exposed>>

(* The approval is over: the resolver goes, the waiting call continues. *)
Settle(c, granted) ==
  /\ waiting' = waiting \ {c}
  /\ approval' = [approval EXCEPT ![c] = IF granted THEN "granted" ELSE "denied"]
  /\ IF granted THEN step' = [step EXCEPT ![c] = "granted"] /\ UNCHANGED outcome
                ELSE Finish(c, "error")
  /\ ForgetRequest(from[c], c)
  /\ UNCHANGED <<tool, from, made, ran, audit, told, exposed, poolRest>>

(* respondPermission: the session is in the map, the request in its table and in daemonPending. *)
UserAnswers(c, how) ==
  /\ how = "allow" /\ tool[c] = "new" => MayOpen
  /\ from[c] \in listed /\ c \in pending[from[c]] /\ c \in waiting
  /\ consent' = [consent EXCEPT ![c] = how]
  /\ Settle(c, how = "allow")

(* Mutant: silence is consent. *)
ExpireGranting(c) == c \in waiting /\ Settle(c, TRUE) /\ UNCHANGED consent

(* Mutant: the timer is gone. *)
NeverExpires(c) == FALSE /\ Settle(c, FALSE) /\ UNCHANGED consent

(* 120 s without an answer: a denial. *)
Expire(c) == c \in waiting /\ Settle(c, FALSE) /\ UNCHANGED consent

-----------------------------------------------------------------------------
(* The call itself *)

(* A tool that is one RPC of the daemon. *)
Run(c) ==
  /\ step[c] = "granted" /\ tool[c] # "new"
  /\ ran' = ran \cup {c}
  /\ \E result \in {"ok", "error"} : Finish(c, result)
  /\ UNCHANGED <<tool, from, made, approval, consent, waiting, audit, told, exposed, poolVars>>

(* session_new: the labels are those of the caller as it was judged. *)
RunNew(c) ==
  /\ step[c] = "granted" /\ tool[c] = "new"
  /\ \E s \in Sessions :
       /\ CreateAs(s, from[c], depth[from[c]] + 1)
       /\ made' = [made EXCEPT ![c] = s]
  /\ ran' = ran \cup {c}
  /\ step' = [step EXCEPT ![c] = "running"]
  /\ UNCHANGED <<tool, from, approval, consent, outcome, waiting, audit, told, exposed>>

(* session_limit, or a directory that is not there.  (No id left to the model counts as one.) *)
RunNewFails(c) ==
  /\ step[c] = "granted" /\ tool[c] = "new"
  /\ ran' = ran \cup {c} /\ Finish(c, "error")
  /\ UNCHANGED <<tool, from, made, approval, consent, waiting, audit, told, exposed, poolVars>>

(* createSession returns or throws: the call that made s goes on. *)
NewSettles(s, result) ==
  LET maker == {c \in Calls : step[c] = "running" /\ made[c] = s}
  IN  /\ step' = [c \in Calls |-> IF c \in maker THEN "reporting" ELSE step[c]]
      /\ outcome' = [c \in Calls |-> IF c \in maker THEN result ELSE outcome[c]]
      /\ UNCHANGED <<tool, from, made, approval, consent, ran, waiting, audit, told, exposed>>

OpenedFor(s)    == Opened(s) /\ NewSettles(s, "ok")
OpenFailsFor(s) == OpenFails(s) /\ NewSettles(s, "error")

Entry(c) == [outcome |-> outcome[c], approval |-> approval[c]]

(* The audit entry is written, then the reply goes out: to nobody, when its client gave up. *)
Report(c) ==
  /\ step[c] = "reporting"
  /\ audit' = [audit EXCEPT ![c] = Append(@, Entry(c))]
  /\ told' = [told EXCEPT ![c] = IF @ = "none" THEN "told" ELSE @]
  /\ step' = [step EXCEPT ![c] = "done"] /\ Forgotten(c)
  /\ UNCHANGED <<approval, consent, ran, waiting, exposed, poolVars>>

(***************************************************************************)
(* A client stops waiting and answers for the daemon.  The pi extension     *)
(* counts 30 s from the request, which a session_wait (60 s) outlasts; the  *)
(* MCP client counts 180 s from the forwarding, which the 120 s of an        *)
(* approval cannot use up.                                                  *)
(***************************************************************************)
MayGiveUp(c) ==
  IF Extension THEN tool[c] = "read" \/ Allows("patience")
               ELSE step[c] = "running" /\ Allows("slow")

GivesUp(c) ==
  /\ step[c] \notin Over \cup {"unused"} /\ told[c] = "none" /\ MayGiveUp(c)
  /\ told' = [told EXCEPT ![c] = "lost"]
  /\ UNCHANGED <<tool, from, step, made, approval, consent, outcome, ran, waiting, audit, exposed, poolVars>>

(* The daemon goes: connections break, every call that is on its way ends in an error. *)
CallsCut ==
  LET cut == {c \in Calls : step[c] \notin Over \cup {"unused"}}
  IN  /\ step' = [c \in Calls |-> IF c \in cut THEN "cut" ELSE step[c]]
      /\ told' = [c \in Calls |-> IF c \in cut /\ told[c] = "none" THEN "told" ELSE told[c]]
      /\ waiting' = {}
      /\ tool' = [c \in Calls |-> "read"] /\ from' = [c \in Calls |-> Nobody]
      /\ made' = [c \in Calls |-> Nobody] /\ outcome' = [c \in Calls |-> "error"]
      /\ UNCHANGED <<approval, consent, ran, audit>>
=============================================================================
