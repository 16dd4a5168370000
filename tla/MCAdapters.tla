----------------------------- MODULE MCAdapters -----------------------------
(***************************************************************************)
(* A session of any of the adapters, its harness and its callers; what it  *)
(* promises is HarnessContract, which every adapter implements.            *)
(***************************************************************************)
EXTENDS JsonlSession, AcpSession, MockSession

HarnessSteps ==
  HarnessAsks \/ HarnessReplays \/ HarnessTakesAnswer \/ HarnessTakesRequest

Next == JsonlNext \/ AcpNext \/ MockNext \/ HarnessSteps

(***************************************************************************)
(* Timers fire, output is read, microtasks run.  Of the harness it is      *)
(* assumed that it takes its input and ends its turns, of the user that    *)
(* approvals are answered.                                                 *)
(***************************************************************************)
Fairness ==
  /\ WF_adapterVars(JsonlRoutes \/ AcpRoutes)
  /\ WF_adapterVars(JsonlContinues \/ AcpContinues)
  /\ WF_adapterVars(JsonlTimesOut) /\ WF_adapterVars(AcpTimesOut)
  /\ WF_adapterVars(PiResponds) /\ WF_adapterVars(AcpResponds)
  /\ SF_adapterVars(JsonlHarnessTakes \/ AcpHarnessTakes \/ HarnessTakesAnswer \/ HarnessTakesRequest)
  /\ SF_adapterVars(JsonlHarnessEnds) /\ SF_adapterVars(AcpHarnessEnds)

Spec == SessionInit /\ [][Next]_adapterVars /\ Fairness

Contract == INSTANCE HarnessContract WITH Approvals <- Perms, asking <- permissions

(***************************************************************************)
(* Every adapter keeps the contract: turns one at a time, at most one      *)
(* terminal event for each and none after a startTurn that threw, and one  *)
(* report of a dead process.  For grok this needs nothing of the harness;  *)
(* for pi and omp it needs a harness that answers a prompt in time.        *)
(***************************************************************************)
KeepsContract == Contract!Spec

(***************************************************************************)
(* What the adapter passes on is what happens now.  A terminal event names *)
(* the turn that the harness ended: pi and omp do not name the turn in     *)
(* agent_end, and the adapter takes the active one, or the last one.  And  *)
(* what was replayed when a session was resumed is never shown: it is in   *)
(* the timeline already.                                                   *)
(***************************************************************************)
EndsNameTheirTurn == \A e \in ends : e.of = e.as
ReplayIsDropped == ~replayed
ShowsWhatHappens == EndsNameTheirTurn /\ ReplayIsDropped

(***************************************************************************)
(* An approval that a live harness waits for can be answered: the session  *)
(* keeps it, or it is on its way up, or its answer or the end of the turn  *)
(* is on its way down.  Otherwise the turn hangs until it is interrupted.  *)
(***************************************************************************)
ApprovalsReachable ==
  Alive /\ phase = "open" =>
    \A p \in asked :
      \/ p \in permissions
      \/ \E i \in DOMAIN wire : wire[i] = UiRequest(p)
      \/ \E i \in DOMAIN sent : sent[i] = Answer(p) \/ sent[i].cmd \in {"abort", "cancel"}

(***************************************************************************)
(* A turn that has begun comes to an end, or the death of its process is   *)
(* reported, or the session is closed: whatever was lost on the way, a     *)
(* timer or the end of the process settles it.                             *)
(***************************************************************************)
TurnsSettle ==
  \A t \in Turns :
    turn[t] = "begun" /\ harness # "mock" ~> turn[t] # "begun" \/ reported \/ phase = "closed"
=============================================================================
