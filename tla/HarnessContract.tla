-------------------------- MODULE HarnessContract --------------------------
(***************************************************************************)
(* What the session manager relies on in an AgentSession (contract.ts):    *)
(* turns begin one after the other, and each ends at most once, by a       *)
(* terminal event or by startTurn rejecting; an approval is answered once, *)
(* and only if it was asked; and a process that dies is reported once.     *)
(* Nothing is said of processes, requests or frames: those belong to the   *)
(* adapters, whose modules implement this one.                             *)
(***************************************************************************)
EXTENDS Naturals

CONSTANTS
  Turns,     \* 1..n: the turns of a behaviour, in the order in which they begin
  Approvals  \* identifiers of approvals

VARIABLES
  turn,      \* "none", "begun", "ended" (terminal event) or "refused" (startTurn rejected)
  asking,    \* approvals reported and not yet answered
  reported   \* the death of the process has been reported

contractVars == <<turn, asking, reported>>

TurnStates == {"none", "begun", "ended", "refused"}
Settled    == {"ended", "refused"}

Init ==
  /\ turn = [t \in Turns |-> "none"]
  /\ asking \in SUBSET Approvals
  /\ reported = FALSE

(* startTurn: the turns before it are over. *)
Begin ==
  /\ \E t \in Turns :
       /\ turn[t] = "none"
       /\ \A s \in Turns : s < t => turn[s] \in Settled
       /\ turn' = [turn EXCEPT ![t] = "begun"]
  /\ UNCHANGED <<asking, reported>>

SettleOne ==
  \E t \in Turns, state \in Settled :
    turn[t] = "begun" /\ turn' = [turn EXCEPT ![t] = state]

(* turn_completed, turn_failed, turn_canceled, or a startTurn that rejects. *)
Settle == SettleOne /\ UNCHANGED <<asking, reported>>

Ask == \E p \in Approvals \ asking : asking' = asking \cup {p} /\ UNCHANGED <<turn, reported>>

(* permission_resolved; an adapter without a process may end the turn in the same call. *)
Answer ==
  /\ \E p \in asking : asking' = asking \ {p}
  /\ SettleOne \/ UNCHANGED turn
  /\ UNCHANGED reported

(* The process dies; a startTurn that was waiting for it rejects at once. *)
Report ==
  /\ ~reported /\ reported' = TRUE
  /\ SettleOne \/ UNCHANGED turn
  /\ UNCHANGED asking

Next == Begin \/ Settle \/ Ask \/ Answer \/ Report

Spec == Init /\ [][Next]_contractVars

(* A turn begins only when those before it are over: never two open turns. *)
OneOpenTurn == \A s, t \in Turns : turn[s] = "begun" /\ turn[t] = "begun" => s = t

(* A turn that is over stays as it ended: no second terminal event for it. *)
SettledForGood == [][\A t \in Turns : turn[t] \in Settled => turn'[t] = turn[t]]_contractVars
=============================================================================
