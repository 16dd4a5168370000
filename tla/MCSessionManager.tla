-------------------------- MODULE MCSessionManager --------------------------
(* SessionManager for TLC: the configurations give every constant its value. *)
EXTENDS SessionManager
=============================================================================
