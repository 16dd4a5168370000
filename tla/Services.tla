------------------------------ MODULE Services ------------------------------
(***************************************************************************)
(* What the models of the smaller parts have in common: one of them moves  *)
(* in a behaviour (they share no state), and each leaves out the           *)
(* interleavings that the code does not guard against unless Races names   *)
(* them.  The modules say which names they use.                            *)
(***************************************************************************)
CONSTANTS
  Parts,  \* the parts to model-check
  Races   \* the unguarded interleavings that are let in

VARIABLE part

Allows(race) == race \in Races

(* None of these is let in. *)
Barred(names) == names \cap Races = {}

(* What a part may start with.  One that does not move in a behaviour starts in one way. *)
Starts(moving, S) == IF part = moving THEN S ELSE {CHOOSE x \in S : TRUE}
=============================================================================
