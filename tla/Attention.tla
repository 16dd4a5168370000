----------------------------- MODULE Attention ------------------------------
(***************************************************************************)
(* The attention policy of the daemon (attention.ts): given what is known  *)
(* of a session, does its user have to look at it, and why.  The module is *)
(* pure; SessionManager decides when the policy is evaluated.              *)
(***************************************************************************)

Statuses == {"none", "initializing", "idle", "running", "closed", "error"}
Outcomes == {"none", "completed", "failed", "canceled"}
Reasons  == {"permission", "error", "finished"}

(***************************************************************************)
(* resolveReason.  A pending approval outranks everything and cannot be    *)
(* acknowledged away; an error or a finished turn is shown until the user  *)
(* has acknowledged it.  "none" stands for the absent reason, which is     *)
(* also requiresAttention = false.                                         *)
(***************************************************************************)
ResolveReason(status, asks, outcome, acknowledged) ==
  CASE asks # {} -> "permission"
    [] asks = {} /\ acknowledged -> "none"
    [] asks = {} /\ ~acknowledged /\ status = "error" -> "error"
    [] asks = {} /\ ~acknowledged /\ status \notin {"error", "running", "initializing"}
         /\ outcome \in {"completed", "failed"} -> "finished"
    [] OTHER -> "none"
=============================================================================
