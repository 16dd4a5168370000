---------------------------- MODULE MockSession ----------------------------
(***************************************************************************)
(* The session without a process (adapters/mock.ts): the reference the     *)
(* contract tests hold the real adapters to.  A scenario runs to its end,  *)
(* to its approval or, for a prompt that waits, until it is interrupted.   *)
(* The scenario of a turn is a microtask (running): it runs before anyone  *)
(* else does.  What follows an answer is part of respondToPermission.      *)
(***************************************************************************)
EXTENDS AdapterSession

Mock == harness = "mock"

MockFrame == UNCHANGED <<harness, resumed, suppressReplay, call, mcpToolsLoaded, chunks, closed,
                         pending, nextId, settled, process, reported, replayed>>

MockOpens ==
  /\ Mock /\ phase = "spawned" /\ phase' = "open"
  /\ UNCHANGED <<turnCounter, activeTurnId, permissions, running, asked, turn, ends>>
  /\ MockFrame

MockStartsTurn ==
  /\ Mock /\ MayStart /\ running = Idle /\ activeTurnId = 0
  /\ LET t == turnCounter + 1
     IN  /\ turnCounter' = t /\ activeTurnId' = t
         /\ running' = [id |-> 0, turn |-> t]
         /\ turn' = [turn EXCEPT ![t] = "begun"]
  /\ UNCHANGED <<phase, permissions, asked, ends>> /\ MockFrame

(* A terminal event for the active turn. *)
MockEnds(t) ==
  /\ activeTurnId' = 0
  /\ turn' = [turn EXCEPT ![t] = "ended"] /\ ends' = ends \cup {[of |-> t, as |-> t]}

(* runScenario: to its end, to its approval, or to where it waits to be interrupted. *)
MockScenario ==
  /\ Mock /\ running # Idle /\ running' = Idle
  /\ LET t == running.turn
     IN  /\ \/ MockEnds(t) /\ UNCHANGED <<permissions, asked>>
            \/ /\ t \in Perms    \* the approval is named after the turn
               /\ permissions' = permissions \cup {t} /\ asked' = asked \cup {t}
               /\ UNCHANGED <<activeTurnId, turn, ends>>
            \/ UNCHANGED <<activeTurnId, turn, ends, permissions, asked>>
  /\ UNCHANGED <<phase, turnCounter>> /\ MockFrame

MockInterrupts ==
  /\ Mock /\ phase = "open" /\ running = Idle /\ activeTurnId # 0
  /\ MockEnds(activeTurnId)
  /\ UNCHANGED <<phase, turnCounter, permissions, running, asked>> /\ MockFrame

(* The answer wakes the scenario, which goes on only while its turn is active. *)
MockResponds ==
  /\ Mock /\ phase = "open" /\ running = Idle
  /\ \E p \in permissions :
       /\ permissions' = permissions \ {p} /\ asked' = asked \ {p}
       /\ \/ p \in asked /\ activeTurnId = p /\ MockEnds(p)
          \/ (p \notin asked \/ activeTurnId # p) /\ UNCHANGED <<activeTurnId, turn, ends>>
  /\ UNCHANGED <<phase, turnCounter, running>> /\ MockFrame

MockCloses ==
  /\ Mock /\ phase = "open" /\ running = Idle /\ phase' = "closed" /\ activeTurnId' = 0
  /\ UNCHANGED <<turnCounter, permissions, running, asked, turn, ends>> /\ MockFrame

MockNext ==
  \/ MockOpens \/ MockStartsTurn \/ MockScenario \/ MockInterrupts \/ MockResponds \/ MockCloses
=============================================================================
