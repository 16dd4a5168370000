------------------------- MODULE ReverseGate_proofs -------------------------
(***************************************************************************)
(* Proofs about the gate over the pool, for every number of sessions and    *)
(* calls, every limit and, where it is not said otherwise, every set of     *)
(* Races: the type invariant; that a tool runs as the user approved and the *)
(* audit log says so; that a deleted session does not come back; that the   *)
(* limits hold; that calls given up are not run; that approvals can be      *)
(* answered.                                                                *)
(***************************************************************************)
EXTENDS MCReverseGate, TLAPS, FiniteSetTheorems

-----------------------------------------------------------------------------
(* What a step does to the pool and to the calls *)

(* What a hold may be. *)
Holds == [starts : Nat, on : BOOLEAN, asked : SUBSET Calls, resolved : SUBSET Calls]

(* An approval is asked for or over: the pool changes in these three only. *)
ApprovalStep ==
  /\ held' \in [Sessions -> Holds]
  /\ pending' \in [Sessions -> SUBSET Calls] /\ cards' \in [Sessions -> SUBSET Calls]
  /\ UNCHANGED poolRest

Deletes(s) == Delete(s) /\ (Allows("midspawn") \/ opening[s] = 0)

PoolChange ==
  \/ UNCHANGED poolVars
  \/ ApprovalStep
  \/ PoolRestart
  \/ \E s \in Sessions :
       \/ \E by \in Sessions \cup {Nobody}, level \in Nat : CreateAs(s, by, level)
       \/ Resume(s) \/ Opened(s) \/ OpenFails(s)
       \/ Prompt(s) \/ PromptStarts(s) \/ PromptRefused(s) \/ TitleArrives(s)
       \/ Crash(s) \/ Close(s) \/ Deletes(s)

CallChange ==
  \/ UNCHANGED callVars
  \/ CallsCut
  \/ \E s \in Sessions, result \in Outcomes : NewSettles(s, result)
  \/ \E c \in Calls : CallStep(c) \/ RunStep(c)

(* Bound: only sessions of the model are disturbed. *)
TouchedAssumption == Touched \subseteq Sessions

(* Sessions are numbers. *)
LEMMA SessionsAreNumbers == Sessions \subseteq Nat /\ Nobody \notin Sessions
BY PoolAssumption DEF Sessions, Nobody

(* Holding or showing an event keeps the tables of approvals well typed. *)
LEMMA ApplyType ==
  ASSUME PoolTypeOK, NEW s, NEW e, e.asked \in SUBSET Calls, e.resolved \in SUBSET Calls,
         NEW now \in [Sessions -> SUBSET Calls], ApplyEvent(now, s, e), UNCHANGED poolRest
  PROVE  ApprovalStep
<1>1. CASE held[s].on
  <2>1. held' = [held EXCEPT ![s] = [held[s] EXCEPT !.asked = @ \cup e.asked,
                                                    !.resolved = @ \cup e.resolved]]
    BY <1>1 DEF ApplyEvent, PoolTypeOK
  <2>2. ASSUME NEW h \in Holds
        PROVE  [h EXCEPT !.asked = @ \cup e.asked, !.resolved = @ \cup e.resolved] \in Holds
    BY DEF Holds
  <2>3. held \in [Sessions -> Holds] /\ cards \in [Sessions -> SUBSET Calls]
    BY DEF PoolTypeOK, Holds
  <2> QED
    BY <1>1, <2>1, <2>2, <2>3 DEF ApprovalStep, ApplyEvent
<1>2. CASE ~held[s].on
  BY <1>2 DEF ApprovalStep, Holds, ApplyEvent, PoolTypeOK
<1> QED
  BY <1>1, <1>2

(* Asking is such an event. *)
LEMMA AskType ==
  ASSUME PoolTypeOK, NEW s, NEW c \in Calls, AskUser(s, c), UNCHANGED poolRest
  PROVE  ApprovalStep
<1> DEFINE e == Asked(c)
<1>1. e.asked \in SUBSET Calls /\ e.resolved \in SUBSET Calls
  BY DEF Asked
<1>2. ApplyEvent(pending, s, e) /\ pending \in [Sessions -> SUBSET Calls]
  BY DEF AskUser, PoolTypeOK
<1> QED
  BY <1>1, <1>2, ApplyType

(* So is the end of a request. *)
LEMMA ForgetType ==
  ASSUME PoolTypeOK, NEW s, NEW c \in Calls, ForgetRequest(s, c), UNCHANGED poolRest
  PROVE  ApprovalStep
<1> DEFINE now == [pending EXCEPT ![s] = @ \ {c}]
           e   == Resolved(c)
<1>1. e.asked \in SUBSET Calls /\ e.resolved \in SUBSET Calls
  BY DEF Resolved
<1>2. ApplyEvent(now, s, e) /\ now \in [Sessions -> SUBSET Calls]
  BY DEF ForgetRequest, PoolTypeOK
<1> QED
  BY <1>1, <1>2, ApplyType

(* A step of a call changes what is asked of the user, or it creates a session. *)
LEMMA CallOnPool ==
  ASSUME PoolTypeOK, CallTypeOK, NEW c \in Calls, CallStep(c) \/ RunStep(c)
  PROVE  UNCHANGED poolVars \/ ApprovalStep \/ RunNew(c)
<1>1. CASE \E s \in Sessions, what \in Tools : Submit(c, s, what)
  BY <1>1 DEF Submit
<1>2. CASE Invoke(c) \/ LineLost(c) \/ GivesUp(c)
  BY <1>2 DEF Invoke, LineLost, GivesUp
<1>3. ASSUME NEW known \in BOOLEAN, NEW valid \in BOOLEAN, NEW budget \in BOOLEAN,
             Judge(c, known, valid, budget)
      PROVE  UNCHANGED poolVars \/ ApprovalStep
  <2>1. UNCHANGED poolVars \/ Ask(c)
    BY <1>3 DEF Judge, Refuse, Grant
  <2> QED
    BY <2>1, AskType DEF Ask
<1>4. ASSUME NEW granted \in BOOLEAN, Settle(c, granted)
      PROVE  ApprovalStep
  BY <1>4, ForgetType DEF Settle
<1>5. CASE \E how \in {"allow", "deny"} : UserAnswers(c, how)
  BY <1>4, <1>5 DEF UserAnswers
<1>6. CASE Expire(c)
  BY <1>4, <1>6 DEF Expire
<1>7. CASE Run(c) \/ RunNewFails(c) \/ Report(c)
  BY <1>7 DEF Run, RunNewFails, Report
<1> QED
  BY <1>1, <1>2, <1>3, <1>5, <1>6, <1>7 DEF CallStep, RunStep

(* Every step of a call changes the pool as PoolChange says. *)
LEMMA CallStepOnPool ==
  ASSUME PoolTypeOK, CallTypeOK, NEW c \in Calls, CallStep(c) \/ RunStep(c)
  PROVE  PoolChange
<1>1. CASE RunNew(c)
  <2>1. from[c] \in Sessions
    BY <1>1 DEF RunNew, CallTypeOK, Over
  <2>2. depth[from[c]] + 1 \in Nat
    BY <2>1 DEF PoolTypeOK
  <2> QED
    BY <1>1, <2>1, <2>2 DEF RunNew, PoolChange
<1> QED
  BY <1>1, CallOnPool DEF PoolChange

(* A step of the pool that leaves the calls alone. *)
LEMMA StepOnPool ==
  ASSUME TouchedAssumption, Disturb \/ PoolStep
  PROVE  PoolChange /\ UNCHANGED callVars
<1>1. CASE Disturb
  BY <1>1, Zenon
     DEF TouchedAssumption, Disturb, UserResumes, UserCloses, PoolChange, Deletes
<1>2. CASE PoolStep
  <2>1. ASSUME NEW s \in Sessions, CreateAs(s, Nobody, 0)
        PROVE  PoolChange
    BY <2>1 DEF PoolChange
  <2> QED
    BY <1>2, <2>1 DEF PoolStep, UserCreates, PoolChange
<1> QED
  BY <1>1, <1>2

(* Every step is a change of the pool and a change of the calls. *)
LEMMA Parts ==
  ASSUME TouchedAssumption, GateTypeOK, Next
  PROVE  PoolChange /\ CallChange
<1>1. CASE TurnOff
  BY <1>1 DEF TurnOff, PoolChange, CallChange
<1>2. CASE Disturb \/ PoolStep
  BY <1>2, StepOnPool DEF CallChange
<1>3. CASE Restart
  BY <1>3 DEF Restart, PoolChange, CallChange
<1>4. CASE \E s \in Sessions : OpenStep(s)
  BY <1>4 DEF OpenStep, OpenedFor, OpenFailsFor, PoolChange, CallChange, Outcomes
<1>5. CASE \E c \in Calls : CallStep(c) \/ RunStep(c)
  BY <1>5, CallStepOnPool DEF GateTypeOK, CallChange
<1> QED
  BY <1>1, <1>2, <1>3, <1>4, <1>5 DEF Next

-----------------------------------------------------------------------------
(* The type invariant *)

(* What PoolChange may do leaves the pool well typed. *)
LEMMA PoolTypeStep ==
  ASSUME PoolTypeOK, PoolChange
  PROVE  PoolTypeOK'
<1> USE SessionsAreNumbers
<1>1. CASE UNCHANGED poolVars
  BY <1>1 DEF PoolTypeOK, poolVars
<1>2. CASE ApprovalStep
  BY <1>2 DEF PoolTypeOK, ApprovalStep, Holds, poolRest
<1>3. CASE PoolRestart
  BY <1>3 DEF PoolTypeOK, PoolRestart, Off, Statuses
<1>4. ASSUME NEW s \in Sessions, NEW by \in Sessions \cup {Nobody}, NEW level \in Nat,
             CreateAs(s, by, level)
      PROVE  PoolTypeOK'
  BY <1>4 DEF PoolTypeOK, CreateAs, Statuses
<1>5. ASSUME NEW s \in Sessions, Resume(s)
      PROVE  PoolTypeOK'
  BY <1>5 DEF PoolTypeOK, Resume, Statuses
<1>6. ASSUME NEW s \in Sessions, Opened(s)
      PROVE  PoolTypeOK'
  <2>1. opening' \in [Sessions -> Nat] /\ orphans' \in [Sessions -> Nat]
        /\ pending' \in [Sessions -> SUBSET Calls]
    BY <1>6 DEF PoolTypeOK, Opened
  <2> QED
    BY <1>6, <2>1 DEF PoolTypeOK, Opened, Statuses
<1>7. ASSUME NEW s \in Sessions, OpenFails(s)
      PROVE  PoolTypeOK'
  BY <1>7 DEF PoolTypeOK, OpenFails, Statuses
<1>8. ASSUME NEW s \in Sessions, Prompt(s) \/ PromptRefused(s)
      PROVE  PoolTypeOK'
  <2>1. PICK n \in Nat : held' = [held EXCEPT ![s] = On(n)] \/ held' = [held EXCEPT ![s] = Off(n)]
    <3>1. held[s].starts + 1 \in Nat /\ (held[s].starts > 0 => held[s].starts - 1 \in Nat)
      BY DEF PoolTypeOK
    <3> QED
      BY <1>8, <3>1 DEF Prompt, PromptRefused
  <2>2. held' \in [Sessions -> Holds]
    <3>1. On(n) \in Holds /\ Off(n) \in Holds
      BY DEF Holds, On, Off
    <3>2. held \in [Sessions -> Holds]
      BY DEF PoolTypeOK, Holds
    <3> QED
      BY <2>1, <3>1, <3>2
  <2> QED
    BY <1>8, <2>2 DEF PoolTypeOK, Holds, Prompt, PromptRefused
<1>9. ASSUME NEW s \in Sessions, PromptStarts(s)
      PROVE  PoolTypeOK'
  <2>1. PICK n \in Nat : held' = [held EXCEPT ![s] = Off(n)]
    <3>1. held[s].starts > 0 => held[s].starts - 1 \in Nat
      BY DEF PoolTypeOK
    <3> QED
      BY <1>9, <3>1 DEF PromptStarts
  <2>2. held' \in [Sessions -> Holds]
    BY <2>1 DEF PoolTypeOK, Holds, Off
  <2>3. pending' \in [Sessions -> SUBSET Calls] /\ cards' \in [Sessions -> SUBSET Calls]
    BY <1>9 DEF PoolTypeOK, PromptStarts
  <2> QED
    BY <1>9, <2>2, <2>3 DEF PoolTypeOK, Holds, PromptStarts
<1>10. ASSUME NEW s \in Sessions, TitleArrives(s) \/ Crash(s)
       PROVE  PoolTypeOK'
  BY <1>10 DEF PoolTypeOK, TitleArrives, Crash, Statuses
<1>11. ASSUME NEW s \in Sessions, Close(s) \/ Deletes(s)
       PROVE  PoolTypeOK'
  <2>1. Closing(s)
    BY <1>11 DEF Close, Deletes, Delete
  <2>2. listed' \subseteq Sessions /\ onDisk' \subseteq Sessions /\ deleted' \subseteq Sessions
    BY <1>11 DEF PoolTypeOK, Close, Deletes, Delete
  <2>3. pending' \in [Sessions -> SUBSET Calls]
    BY <2>1 DEF PoolTypeOK, Closing
  <2>4. cards' \in [Sessions -> SUBSET Calls]
    BY <1>11 DEF PoolTypeOK, Close, Deletes, Delete
  <2> QED
    BY <2>1, <2>2, <2>3, <2>4 DEF PoolTypeOK, Closing, Statuses
<1> QED
  BY <1>1, <1>2, <1>3, <1>4, <1>5, <1>6, <1>7, <1>8, <1>9, <1>10, <1>11 DEF PoolChange

(* CallTypeOK without the settings and the ties between variables. *)
CallShape ==
  /\ tool \in [Calls -> Tools] /\ from \in [Calls -> Sessions \cup {Nobody}]
  /\ step \in [Calls -> Steps]
  /\ made \in [Calls -> Sessions \cup {Nobody}]
  /\ approval \in [Calls -> Approvals] /\ consent \in [Calls -> {"none", "allow", "deny"}]
  /\ outcome \in [Calls -> Outcomes]
  /\ ran \subseteq Calls
  /\ audit \in [Calls -> Seq([outcome : Outcomes, approval : Approvals])]
  /\ told \in [Calls -> {"none", "told", "lost"}]

(* A call on its way has a caller, and one that waits is being asked about. *)
CallTies ==
  \A c \in Calls :
    /\ step[c] \in {"line", "invoked", "asking", "granted", "running", "reporting"} =>
         from[c] \in Sessions
    /\ c \in waiting => step[c] = "asking"

(* The type invariant in these parts. *)
LEMMA CallParts ==
  CallTypeOK <=> exposed \in BOOLEAN /\ waiting \subseteq Calls /\ CallShape /\ CallTies
<1>1. ASSUME step \in [Calls -> Steps], NEW c \in Calls
      PROVE  step[c] \notin Over \cup {"unused"} <=>
               step[c] \in {"line", "invoked", "asking", "granted", "running", "reporting"}
  BY <1>1 DEF Steps, Over
<1>2. waiting \subseteq {c \in Calls : step[c] = "asking"} <=>
        waiting \subseteq Calls /\ \A c \in Calls : c \in waiting => step[c] = "asking"
  OBVIOUS
<1> QED
  BY <1>1, <1>2 DEF CallTypeOK, CallShape, CallTies

(* The end of an approval keeps the calls well typed. *)
LEMMA SettleType ==
  ASSUME waiting \subseteq Calls, CallShape, CallTies, NEW c \in waiting, NEW granted \in BOOLEAN,
         Settle(c, granted), consent' \in [Calls -> {"none", "allow", "deny"}]
  PROVE  waiting' \subseteq Calls /\ CallShape' /\ CallTies'
<1>1. \/ /\ step' = [step EXCEPT ![c] = "granted"] /\ outcome' = outcome
         /\ approval' = [approval EXCEPT ![c] = "granted"]
      \/ /\ step' = [step EXCEPT ![c] = "reporting"]
         /\ outcome' = [outcome EXCEPT ![c] = "error"]
         /\ approval' = [approval EXCEPT ![c] = "denied"]
  <2>1. CASE granted
    BY <2>1, Zenon DEF Settle
  <2>2. CASE ~granted
    BY <2>2, Zenon DEF Settle, Finish
  <2> QED
    BY <2>1, <2>2, Zenon
<1>2. waiting' = waiting \ {c} /\ UNCHANGED <<tool, from, made, ran, audit, told>>
  BY DEF Settle
<1>3. step' \in [Calls -> Steps] /\ outcome' \in [Calls -> Outcomes]
      /\ approval' \in [Calls -> Approvals]
  <2>1. step' \in [Calls -> Steps]
    BY <1>1 DEF CallShape, Steps
  <2>2. outcome' \in [Calls -> Outcomes]
    BY <1>1 DEF CallShape, Outcomes
  <2>3. approval' \in [Calls -> Approvals]
    BY <1>1 DEF CallShape, Approvals
  <2> QED
    BY <2>1, <2>2, <2>3
<1>4. step'[c] \in {"granted", "reporting"} /\ \A d \in Calls \ {c} : step'[d] = step[d]
  BY <1>1 DEF CallShape
<1>5. CallTies'
  BY <1>2, <1>4 DEF CallTies
<1>6. CallShape'
  BY <1>2, <1>3 DEF CallShape
<1> QED
  BY <1>2, <1>5, <1>6

(* A verdict keeps the calls well typed. *)
LEMMA JudgeType ==
  ASSUME waiting \subseteq Calls, CallShape, CallTies, NEW c \in Calls,
         NEW known, NEW valid, NEW budget, Judge(c, known, valid, budget)
  PROVE  waiting' \subseteq Calls /\ CallShape' /\ CallTies'
<1>1. step[c] = "invoked" /\ from[c] \in Sessions
  BY DEF Judge, CallTies
<1>2. CASE Refuse(c)
  BY <1>1, <1>2 DEF Judge, Refuse, Finish, CallShape, CallTies, Steps, Outcomes
<1>3. CASE step' = [step EXCEPT ![c] = "done"] /\ UNCHANGED <<outcome, waiting, poolVars>>
           /\ told' = [told EXCEPT ![c] = IF @ = "none" THEN "told" ELSE @]
  BY <1>1, <1>3 DEF Judge, CallShape, CallTies, Steps
<1>4. CASE Grant(c)
  BY <1>1, <1>4 DEF Judge, Grant, CallShape, CallTies, Steps
<1>5. CASE Ask(c)
  BY <1>1, <1>5 DEF Judge, Ask, CallShape, CallTies, Steps
<1> QED
  BY <1>2, <1>3, <1>4, <1>5 DEF Judge

(* What CallChange may do leaves the calls well typed. *)
LEMMA CallTypeStep ==
  ASSUME CallTypeOK, exposed' \in BOOLEAN, CallChange
  PROVE  CallTypeOK'
<1> SUFFICES waiting' \subseteq Calls /\ CallShape' /\ CallTies'
  <2>1. (CallTypeOK <=> exposed \in BOOLEAN /\ waiting \subseteq Calls /\ CallShape /\ CallTies)'
    BY CallParts, PTL
  <2> QED
    BY <2>1
<1>a. waiting \subseteq Calls /\ CallShape /\ CallTies
  BY CallParts
<1>1. CASE UNCHANGED callVars
  BY <1>a, <1>1 DEF callVars, CallShape, CallTies
<1>2. CASE CallsCut
  <2>1. CallShape'
    BY <1>a, <1>2 DEF CallsCut, CallShape, Over, Steps, Tools, Outcomes
  <2>2. waiting' \subseteq Calls /\ CallTies'
    BY <1>a, <1>2 DEF CallsCut, CallShape, CallTies, Over
  <2> QED
    BY <2>1, <2>2
<1>3. ASSUME NEW s \in Sessions, NEW result \in Outcomes, NewSettles(s, result)
      PROVE  waiting' \subseteq Calls /\ CallShape' /\ CallTies'
  BY <1>a, <1>3 DEF NewSettles, CallShape, CallTies, Steps
<1>4. ASSUME NEW c \in Calls, NEW s \in Sessions, NEW what \in Tools, Submit(c, s, what)
      PROVE  waiting' \subseteq Calls /\ CallShape' /\ CallTies'
  BY <1>a, <1>4 DEF Submit, CallShape, CallTies, Steps
<1>5. ASSUME NEW c \in Calls, Invoke(c)
      PROVE  waiting' \subseteq Calls /\ CallShape' /\ CallTies'
  <2>1. CASE exposed
    <3>1. /\ step[c] = "line" /\ step' = [step EXCEPT ![c] = "invoked"]
          /\ UNCHANGED <<tool, from, made, approval, consent, outcome, ran, waiting, audit, told>>
      BY <1>5, <2>1 DEF Invoke
    <3> QED
      BY <1>a, <3>1 DEF CallShape, CallTies, Steps
  <2>2. CASE ~exposed
    <3>1. /\ step[c] = "line" /\ step' = [step EXCEPT ![c] = "reporting"]
          /\ outcome' = [outcome EXCEPT ![c] = "error"]
          /\ UNCHANGED <<tool, from, made, approval, consent, ran, waiting, audit, told>>
      BY <1>5, <2>2 DEF Invoke, Finish
    <3> QED
      BY <1>a, <3>1 DEF CallShape, CallTies, Steps, Outcomes
  <2> QED
    BY <2>1, <2>2
<1>6. ASSUME NEW c \in Calls, LineLost(c)
      PROVE  waiting' \subseteq Calls /\ CallShape' /\ CallTies'
  BY <1>a, <1>6 DEF LineLost, Forgotten, CallShape, CallTies, Steps, Tools, Outcomes
<1>7. ASSUME NEW c \in Calls, GivesUp(c)
      PROVE  waiting' \subseteq Calls /\ CallShape' /\ CallTies'
  BY <1>a, <1>7 DEF GivesUp, CallShape, CallTies
<1>8. ASSUME NEW c \in Calls, NEW how \in {"allow", "deny"}, UserAnswers(c, how)
      PROVE  waiting' \subseteq Calls /\ CallShape' /\ CallTies'
  BY <1>a, <1>8, SettleType DEF UserAnswers, CallShape
<1>9. ASSUME NEW c \in Calls, Expire(c)
      PROVE  waiting' \subseteq Calls /\ CallShape' /\ CallTies'
  BY <1>a, <1>9, SettleType DEF Expire, CallShape
<1>10. ASSUME NEW c \in Calls, Run(c) \/ RunNewFails(c)
       PROVE  waiting' \subseteq Calls /\ CallShape' /\ CallTies'
  <2>1. PICK result \in {"ok", "error"} :
          /\ step[c] = "granted" /\ step' = [step EXCEPT ![c] = "reporting"]
          /\ outcome' = [outcome EXCEPT ![c] = result] /\ ran' = ran \cup {c}
          /\ UNCHANGED <<tool, from, made, approval, consent, waiting, audit, told>>
    BY <1>10 DEF Run, RunNewFails, Finish
  <2> QED
    BY <1>a, <2>1 DEF CallShape, CallTies, Steps, Outcomes
<1>11. ASSUME NEW c \in Calls, RunNew(c)
       PROVE  waiting' \subseteq Calls /\ CallShape' /\ CallTies'
  BY <1>a, <1>11 DEF RunNew, CallShape, CallTies, Steps
<1>12. ASSUME NEW c \in Calls, Report(c)
       PROVE  waiting' \subseteq Calls /\ CallShape' /\ CallTies'
  <2>1. Entry(c) \in [outcome : Outcomes, approval : Approvals]
    BY <1>a DEF Entry, CallShape
  <2>2. audit' \in [Calls -> Seq([outcome : Outcomes, approval : Approvals])]
    <3> DEFINE Entries == [outcome : Outcomes, approval : Approvals]
    <3>1. audit \in [Calls -> Seq(Entries)] /\ Entry(c) \in Entries
      BY <1>a, <2>1 DEF CallShape
    <3>2. audit' = [audit EXCEPT ![c] = Append(audit[c], Entry(c))]
      BY <1>12 DEF Report
    <3> HIDE DEF Entries
    <3>3. Append(audit[c], Entry(c)) \in Seq(Entries)
      BY <3>1
    <3>4. audit' \in [Calls -> Seq(Entries)]
      BY <3>1, <3>2, <3>3
    <3> QED
      BY <3>4 DEF Entries
  <2> QED
    BY <1>a, <1>12, <2>2 DEF Report, Forgotten, CallShape, CallTies, Steps, Tools, Outcomes
<1> QED
  BY <1>1, <1>2, <1>3, <1>4, <1>5, <1>6, <1>7, <1>8, <1>9, <1>10, <1>11, <1>12, JudgeType, <1>a
     DEF CallChange, CallStep, RunStep

(* The setting is a Boolean after every step. *)
LEMMA ExposedStep ==
  ASSUME exposed \in BOOLEAN, Next
  PROVE  exposed' \in BOOLEAN
<1>1. ASSUME NEW c \in Calls, CallStep(c) \/ RunStep(c)
      PROVE  UNCHANGED exposed
  BY <1>1 DEF CallStep, Submit, Invoke, LineLost, Judge, UserAnswers, Expire, Settle, GivesUp,
              RunStep, Run, RunNew, RunNewFails, Report
<1>2. ASSUME NEW s \in Sessions, OpenStep(s)
      PROVE  UNCHANGED exposed
  BY <1>2 DEF OpenStep, OpenedFor, OpenFailsFor, NewSettles
<1> QED
  BY <1>1, <1>2 DEF Next, TurnOff, Disturb, PoolStep, Restart

(* Sessions, calls, approvals and the audit log keep their types, and a call that is on its way
   has a caller, for all limits and Races. *)
THEOREM GateTypeCorrect ==
  ASSUME TouchedAssumption
  PROVE  Spec => []GateTypeOK
<1>1. Init => GateTypeOK
  BY SessionsAreNumbers
     DEF Init, PoolInit, CallInit, GateTypeOK, PoolTypeOK, CallTypeOK, Off, Statuses,
         Tools, Steps, Outcomes, Approvals, Over
<1>2. GateTypeOK /\ [Next]_mcVars => GateTypeOK'
  <2> SUFFICES ASSUME GateTypeOK, [Next]_mcVars
               PROVE  GateTypeOK'
    OBVIOUS
  <2>1. CASE Next
    <3>1. PoolChange /\ CallChange
      BY <2>1, Parts
    <3>2. exposed' \in BOOLEAN
      BY <2>1, ExposedStep DEF GateTypeOK, CallTypeOK
    <3> QED
      BY <3>1, <3>2, PoolTypeStep, CallTypeStep DEF GateTypeOK
  <2>2. CASE UNCHANGED mcVars
    BY <2>2 DEF mcVars, vars, poolVars, callVars, GateTypeOK, PoolTypeOK, CallTypeOK
  <2> QED
    BY <2>1, <2>2
<1> QED
  BY <1>1, <1>2, PTL DEF Spec

-----------------------------------------------------------------------------
(* Consent and the audit log *)

Before == {"unused", "line", "invoked", "asking"}

(* How a call stands between the user, the tool and the log. *)
Accounted(c) ==
  /\ step[c] \in Before => approval[c] = "none" /\ consent[c] = "none" /\ c \notin ran
  /\ approval[c] = "granted" <=> consent[c] = "allow"
  /\ tool[c] # "read" /\ (step[c] = "granted" \/ c \in ran) => consent[c] = "allow"
  /\ step[c] = "running" \/ (step[c] = "reporting" /\ outcome[c] = "ok") => c \in ran
  /\ step[c] \notin {"done", "cut"} => audit[c] = <<>>
  /\ step[c] = "done" =>
       /\ Len(audit[c]) = 1
       /\ audit[c][1].approval = "granted" <=> consent[c] = "allow"
       /\ audit[c][1].outcome = "ok" => c \in ran

AccountedInv == CallShape /\ CallTies /\ \A c \in Calls : Accounted(c)

(* What Accounted reads of a call. *)
Same(d) ==
  /\ step'[d] = step[d] /\ approval'[d] = approval[d] /\ consent'[d] = consent[d]
  /\ (d \in ran') = (d \in ran) /\ tool'[d] = tool[d] /\ outcome'[d] = outcome[d]
  /\ audit'[d] = audit[d]

(* A call that nothing happens to stays as it stands. *)
LEMMA SameAccounted ==
  ASSUME NEW d \in Calls, Accounted(d), Same(d)
  PROVE  Accounted(d)'
BY DEF Accounted, Same

(* The end of an approval: granted with the consent of the user, or a refusal. *)
LEMMA SettleAccounted ==
  ASSUME AccountedInv, NEW c \in waiting, c \in Calls, NEW granted \in BOOLEAN, Settle(c, granted),
         NEW word \in {"none", "allow", "deny"}, consent' = [consent EXCEPT ![c] = word],
         granted <=> word = "allow"
  PROVE  \A d \in Calls : Accounted(d)'
<1> SUFFICES ASSUME NEW d \in Calls
             PROVE  Accounted(d)'
  OBVIOUS
<1>1. step[c] = "asking" /\ Accounted(c) /\ Accounted(d)
  BY DEF AccountedInv, CallTies
<1>2. CASE d # c
  BY <1>1, <1>2, SameAccounted DEF AccountedInv, CallShape, Settle, Finish, Same
<1>3. CASE d = c /\ granted
  BY <1>1, <1>3 DEF AccountedInv, CallShape, Settle, Accounted, Before
<1>4. CASE d = c /\ ~granted
  <2>1. step'[c] = "reporting" /\ outcome'[c] = "error" /\ approval'[c] = "denied"
        /\ UNCHANGED <<tool, ran, audit>> /\ consent'[c] = word
    BY <1>4 DEF AccountedInv, CallShape, Settle, Finish
  <2> QED
    BY <1>1, <1>4, <2>1 DEF Accounted, Before
<1> QED
  BY <1>2, <1>3, <1>4

(* A verdict: without the race "deleted" the gate is never left by an exception. *)
LEMMA JudgeAccounted ==
  ASSUME AccountedInv, "deleted" \notin Races, NEW c \in Calls,
         NEW known \in BOOLEAN, NEW valid, NEW budget, Judge(c, known, valid, budget)
  PROVE  \A d \in Calls : Accounted(d)'
<1> SUFFICES ASSUME NEW d \in Calls
             PROVE  Accounted(d)'
  OBVIOUS
<1>1. /\ step[c] = "invoked" /\ Accounted(c) /\ Accounted(d)
      /\ UNCHANGED <<tool, approval, consent, ran, audit>>
  BY DEF AccountedInv, Judge
<1>2. ~Thrown(c, known)
  BY DEF Judge, Thrown, Allows
<1>3. CASE Refuse(c)
  BY <1>1, <1>3 DEF AccountedInv, CallShape, Refuse, Finish, Accounted, Before
<1>4. CASE tool[c] = "read" /\ Grant(c)
  BY <1>1, <1>4 DEF AccountedInv, CallShape, Grant, Accounted, Before
<1>5. CASE Ask(c)
  BY <1>1, <1>5 DEF AccountedInv, CallShape, Ask, Accounted, Before
<1> QED
  BY <1>2, <1>3, <1>4, <1>5 DEF Judge

(* The tool runs, or cannot: what was granted is in `ran` from then on. *)
LEMMA RunAccounted ==
  ASSUME AccountedInv, NEW c \in Calls, Run(c) \/ RunNew(c) \/ RunNewFails(c)
  PROVE  \A d \in Calls : Accounted(d)'
<1> SUFFICES ASSUME NEW d \in Calls
             PROVE  Accounted(d)'
  OBVIOUS
<1>1. /\ step[c] = "granted" /\ Accounted(c) /\ Accounted(d)
      /\ ran' = ran \cup {c} /\ UNCHANGED <<tool, approval, consent, audit>>
  BY DEF AccountedInv, Run, RunNew, RunNewFails
<1>2. \/ step' = [step EXCEPT ![c] = "running"] /\ UNCHANGED outcome
      \/ /\ step' = [step EXCEPT ![c] = "reporting"]
         /\ \E result : outcome' = [outcome EXCEPT ![c] = result]
  BY DEF Run, RunNew, RunNewFails, Finish
<1>3. step \in [Calls -> Steps] /\ outcome \in [Calls -> Outcomes]
  BY DEF AccountedInv, CallShape
<1>4. CASE d = c
  BY <1>1, <1>2, <1>3, <1>4 DEF Accounted, Before
<1>5. CASE d # c
  BY <1>1, <1>2, <1>3, <1>5, SameAccounted DEF Same
<1> QED
  BY <1>4, <1>5

(* The one entry of a call tells how it was approved and whether it ran. *)
LEMMA ReportAccounted ==
  ASSUME AccountedInv, NEW c \in Calls, Report(c)
  PROVE  \A d \in Calls : Accounted(d)'
<1> SUFFICES ASSUME NEW d \in Calls
             PROVE  Accounted(d)'
  OBVIOUS
<1>1. /\ step[c] = "reporting" /\ Accounted(c) /\ Accounted(d)
      /\ UNCHANGED <<approval, consent, ran>>
  BY DEF AccountedInv, Report
<1>2. CASE d # c
  BY <1>1, <1>2, SameAccounted DEF AccountedInv, CallShape, Report, Forgotten, Same
<1>3. CASE d = c
  <2>1. step'[c] = "done" /\ tool'[c] = "read" /\ audit'[c] = Append(audit[c], Entry(c))
    BY DEF AccountedInv, CallShape, Report, Forgotten
  <2>2. audit'[c] = <<Entry(c)>>
    <3>1. audit[c] = <<>>
      BY <1>1 DEF Accounted
    <3> QED
      BY <2>1, <3>1
  <2>3. Len(audit'[c]) = 1 /\ audit'[c][1] = Entry(c)
    BY <2>2
  <2> QED
    BY <1>1, <1>3, <2>1, <2>3 DEF Accounted, Entry, Before
<1> QED
  BY <1>2, <1>3

(* The daemon goes: what was on its way is cut, and nothing more is said of it. *)
LEMMA CutAccounted ==
  ASSUME AccountedInv, CallsCut
  PROVE  \A d \in Calls : Accounted(d)'
<1> SUFFICES ASSUME NEW d \in Calls
             PROVE  Accounted(d)'
  OBVIOUS
<1>1. /\ Accounted(d) /\ tool'[d] = "read" /\ outcome'[d] = "error"
      /\ UNCHANGED <<approval, consent, ran, audit>>
      /\ step'[d] = "cut" \/ (step'[d] = step[d] /\ step[d] \in Over \cup {"unused"})
  BY DEF AccountedInv, CallsCut
<1> QED
  BY <1>1 DEF Accounted, Before, Over

(* createSession returns to the call that made the session. *)
LEMMA NewAccounted ==
  ASSUME AccountedInv, NEW s \in Sessions, NEW result \in Outcomes, NewSettles(s, result)
  PROVE  \A d \in Calls : Accounted(d)'
<1> SUFFICES ASSUME NEW d \in Calls
             PROVE  Accounted(d)'
  OBVIOUS
<1>1. /\ Accounted(d) /\ UNCHANGED <<tool, approval, consent, ran, audit>>
      /\ \/ step[d] = "running" /\ step'[d] = "reporting"
         \/ step'[d] = step[d] /\ outcome'[d] = outcome[d]
  BY DEF AccountedInv, NewSettles
<1> QED
  BY <1>1 DEF Accounted, Before

(* No step of any part leaves a call unaccounted for. *)
LEMMA AccountedStep ==
  ASSUME "deleted" \notin Races, AccountedInv, CallChange
  PROVE  \A d \in Calls : Accounted(d)'
<1>1. CASE UNCHANGED callVars
  BY <1>1 DEF callVars, AccountedInv, Accounted, Entry
<1>2. CASE CallsCut
  BY <1>2, CutAccounted
<1>3. CASE \E s \in Sessions, result \in Outcomes : NewSettles(s, result)
  BY <1>3, NewAccounted
<1>4. ASSUME NEW c \in Calls, NEW s \in Sessions, NEW what \in Tools, Submit(c, s, what)
      PROVE  \A d \in Calls : Accounted(d)'
  BY <1>4 DEF Submit, AccountedInv, CallShape, Accounted, Before
<1>5. ASSUME NEW c \in Calls, Invoke(c)
      PROVE  \A d \in Calls : Accounted(d)'
  <2>1. /\ step[c] = "line" /\ UNCHANGED <<tool, approval, consent, ran, audit>>
        /\ \/ step' = [step EXCEPT ![c] = "invoked"] /\ UNCHANGED outcome
           \/ /\ step' = [step EXCEPT ![c] = "reporting"]
              /\ outcome' = [outcome EXCEPT ![c] = "error"]
    BY <1>5 DEF Invoke, Finish
  <2> QED
    BY <2>1 DEF AccountedInv, CallShape, Accounted, Before
<1>6. ASSUME NEW c \in Calls, LineLost(c)
      PROVE  \A d \in Calls : Accounted(d)'
  BY <1>6 DEF LineLost, Forgotten, AccountedInv, CallShape, Accounted, Before
<1>7. ASSUME NEW c \in Calls, GivesUp(c)
      PROVE  \A d \in Calls : Accounted(d)'
  BY <1>7 DEF GivesUp, AccountedInv, Accounted
<1>8. ASSUME NEW c \in Calls, NEW how \in {"allow", "deny"}, UserAnswers(c, how)
      PROVE  \A d \in Calls : Accounted(d)'
  BY <1>8, SettleAccounted DEF UserAnswers
<1>9. ASSUME NEW c \in Calls, Expire(c)
      PROVE  \A d \in Calls : Accounted(d)'
  <2>1. c \in waiting /\ consent[c] = "none"
    BY <1>9 DEF Expire, AccountedInv, CallTies, Accounted, Before
  <2>2. consent' = [consent EXCEPT ![c] = "none"]
    BY <1>9, <2>1 DEF Expire, AccountedInv, CallShape
  <2> QED
    BY <1>9, <2>1, <2>2, SettleAccounted DEF Expire
<1>10. ASSUME NEW c \in Calls, CallStep(c) \/ RunStep(c)
       PROVE  \A d \in Calls : Accounted(d)'
  BY <1>4, <1>5, <1>6, <1>7, <1>8, <1>9, <1>10, JudgeAccounted, RunAccounted, ReportAccounted
     DEF CallStep, RunStep
<1> QED
  BY <1>1, <1>2, <1>3, <1>10 DEF CallChange

(* gate.ts, requestReverseToolApproval, audit.ts: whatever sessions do and however calls cross, a
   tool that is not read-only runs only with the consent of the user, and a call that went through
   the gate leaves one entry, which tells how the request ended.  Only a caller that is deleted
   while its call is on its way escapes the log. *)
THEOREM ConsentAndAudit ==
  ASSUME TouchedAssumption, "deleted" \notin Races
  PROVE  Spec => []RunsAsApproved
<1> DEFINE Inv == GateTypeOK /\ \A c \in Calls : Accounted(c)
<1>1. Init => \A c \in Calls : Accounted(c)
  BY DEF Init, CallInit, Accounted, Before
<1>2. GateTypeOK /\ (\A c \in Calls : Accounted(c)) /\ [Next]_mcVars
        => (\A c \in Calls : Accounted(c))'
  <2> SUFFICES ASSUME GateTypeOK, \A c \in Calls : Accounted(c), [Next]_mcVars
               PROVE  \A c \in Calls : Accounted(c)'
    OBVIOUS
  <2>1. AccountedInv
    BY CallParts DEF GateTypeOK, AccountedInv
  <2>2. CASE Next
    BY <2>1, <2>2, Parts, AccountedStep
  <2>3. CASE UNCHANGED mcVars
    BY <2>3 DEF mcVars, vars, callVars, Accounted
  <2> QED
    BY <2>2, <2>3
<1>3. (\A c \in Calls : Accounted(c)) /\ GateTypeOK => RunsAsApproved
  <2> SUFFICES ASSUME NEW c \in Calls, Accounted(c)
               PROVE  /\ c \in ran /\ tool[c] # "read" => consent[c] = "allow"
                      /\ approval[c] = "granted" => consent[c] = "allow"
                      /\ step[c] = "done" =>
                           /\ Len(audit[c]) = 1
                           /\ audit[c][1].approval = "granted" <=> consent[c] = "allow"
                           /\ audit[c][1].outcome = "ok" => c \in ran
    BY DEF RunsAsApproved
  <2> QED
    BY DEF Accounted
<1> QED
  BY <1>1, <1>2, <1>3, GateTypeCorrect, PTL DEF Spec

-----------------------------------------------------------------------------
(* Deletion *)

(* Nothing is left of a deleted session that could write its meta or start its process again. *)
Gone(s) ==
  /\ s \notin listed \cup onDisk \cup titling
  /\ status[s] # "unused" /\ opening[s] = 0 /\ runtime[s] = "none"

(* A step of another session, or of none, leaves what is gone as it is. *)
LEMMA GoneStays ==
  ASSUME PoolTypeOK, NEW d \in deleted, Gone(d), PoolChange, d \in Sessions
  PROVE  Gone(d)'
<1>1. CASE UNCHANGED poolVars
  BY <1>1 DEF Gone, poolVars
<1>2. CASE ApprovalStep
  BY <1>2 DEF Gone, ApprovalStep, poolRest
<1>3. CASE PoolRestart
  BY <1>3 DEF Gone, PoolRestart
<1>4. ASSUME NEW s \in Sessions, NEW by, NEW level, CreateAs(s, by, level)
      PROVE  Gone(d)'
  BY <1>4 DEF Gone, CreateAs, Fresh, PoolTypeOK
<1>5. ASSUME NEW s \in Sessions, Resume(s)
      PROVE  Gone(d)'
  BY <1>5 DEF Gone, Resume, PoolTypeOK
<1>6. ASSUME NEW s \in Sessions, Opened(s) \/ OpenFails(s)
      PROVE  Gone(d)'
  <2>1. s # d
    BY <1>6 DEF Gone, Opened, OpenFails
  <2>2. UNCHANGED <<listed, titling>> /\ onDisk' = onDisk \cup {s}
    BY <1>6 DEF Opened, OpenFails
  <2>3. status'[d] = status[d] /\ opening'[d] = opening[d] /\ runtime'[d] = runtime[d]
    BY <1>6, <2>1 DEF Opened, OpenFails, PoolTypeOK
  <2> QED
    BY <2>1, <2>2, <2>3 DEF Gone
<1>7. ASSUME NEW s \in Sessions, Prompt(s) \/ PromptRefused(s)
      PROVE  Gone(d)'
  BY <1>7 DEF Gone, Prompt, PromptRefused
<1>8. ASSUME NEW s \in Sessions, PromptStarts(s)
      PROVE  Gone(d)'
  BY <1>8 DEF Gone, PromptStarts
<1>9. ASSUME NEW s \in Sessions, TitleArrives(s)
      PROVE  Gone(d)'
  BY <1>9 DEF Gone, TitleArrives
<1>10. ASSUME NEW s \in Sessions, Crash(s)
       PROVE  Gone(d)'
  BY <1>10 DEF Gone, Crash, PoolTypeOK
<1>11. ASSUME NEW s \in Sessions, Close(s) \/ Deletes(s)
       PROVE  Gone(d)'
  <2>1. s # d /\ Closing(s)
    BY <1>11 DEF Gone, Close, Deletes, Delete, Closing
  <2>2. d \notin listed' \cup onDisk'
    BY <1>11, <2>1 DEF Gone, Close, Deletes, Delete
  <2> QED
    BY <2>1, <2>2 DEF Gone, Closing, PoolTypeOK
<1> QED
  BY <1>1, <1>2, <1>3, <1>4, <1>5, <1>6, <1>7, <1>8, <1>9, <1>10, <1>11 DEF PoolChange

(* Only a deletion deletes. *)
LEMMA OnlyDeletion ==
  ASSUME PoolChange, deleted' # deleted
  PROVE  \E s \in Sessions : Deletes(s) /\ deleted' = deleted \cup {s}
<1>1. UNCHANGED poolVars => UNCHANGED deleted
  BY DEF poolVars
<1>2. ApprovalStep \/ PoolRestart => UNCHANGED deleted
  BY DEF ApprovalStep, poolRest, PoolRestart
<1>3. ASSUME NEW s \in Sessions
      PROVE  /\ Resume(s) \/ Opened(s) \/ OpenFails(s) \/ Prompt(s) \/ PromptStarts(s)
                  \/ PromptRefused(s) \/ TitleArrives(s) \/ Crash(s) \/ Close(s)
                => UNCHANGED deleted
             /\ \A by, level : CreateAs(s, by, level) => UNCHANGED deleted
             /\ Deletes(s) => deleted' = deleted \cup {s}
  BY DEF Resume, Opened, OpenFails, Prompt, PromptStarts, PromptRefused, TitleArrives, Crash,
         Close, CreateAs, Deletes, Delete
<1> QED
  BY <1>1, <1>2, <1>3 DEF PoolChange

(* session-manager.ts, store.ts: as long as no session is deleted while its title or its process
   is awaited, a deleted session never comes back, through a restart of the daemon either. *)
THEOREM DeletionIsFinal ==
  ASSUME TouchedAssumption, "title" \notin Races, "midspawn" \notin Races
  PROVE  Spec => []DeletedStaysDeleted
<1>1. Init => \A d \in deleted : Gone(d)
  BY DEF Init, PoolInit
<1>2. GateTypeOK /\ (\A d \in deleted : Gone(d)) /\ [Next]_mcVars => (\A d \in deleted : Gone(d))'
  <2> SUFFICES ASSUME GateTypeOK, \A d \in deleted : Gone(d), [Next]_mcVars, NEW d \in deleted'
               PROVE  Gone(d)'
    OBVIOUS
  <2>1. CASE UNCHANGED mcVars
    BY <2>1 DEF mcVars, vars, poolVars, Gone
  <2>2. CASE Next
    <3>1. PoolChange
      BY <2>2, Parts
    <3>2. CASE d \in deleted
      BY <3>1, <3>2, GoneStays DEF GateTypeOK, PoolTypeOK
    <3>3. CASE d \notin deleted
      <4>1. d \in Sessions /\ Deletes(d)
        BY <3>1, <3>3, OnlyDeletion
      <4>2. d \notin titling /\ opening[d] = 0
        BY <4>1 DEF Deletes, Delete, Allows
      <4> QED
        BY <4>1, <4>2 DEF Deletes, Delete, Closing, Gone, GateTypeOK, PoolTypeOK
    <3> QED
      BY <3>2, <3>3
  <2> QED
    BY <2>1, <2>2
<1>3. (\A d \in deleted : Gone(d)) => DeletedStaysDeleted
  BY DEF Gone, DeletedStaysDeleted
<1> QED
  BY <1>1, <1>2, <1>3, GateTypeCorrect, PTL DEF Spec

-----------------------------------------------------------------------------
(* Limits: the sessions *)

(* A session that is opened or has a runtime is in the map and is no closed one; it has one
   process, or one on the way. *)
Orderly(s) ==
  /\ opening[s] <= 1 /\ orphans[s] = 0 /\ (opening[s] > 0 => runtime[s] = "none")
  /\ runtime[s] # "none" \/ opening[s] > 0 => s \in listed /\ status[s] # "closed"
  /\ s \in listed => status[s] # "unused"
  /\ s \in (onDisk \cup titling) \ listed => status[s] = "closed"
  /\ depth[s] <= MaxDepth

(* What the limit of sessions has to count. *)
Busy == {s \in Sessions : runtime[s] # "none" \/ opening[s] > 0}

PoolLimits ==
  /\ \A s \in Sessions : Orderly(s) /\ Cardinality(Children(s)) <= MaxFanout
  /\ Cardinality(Busy) <= MaxSessions

(* There is room below p for one more session. *)
TreeRoom(p) == depth[p] + 1 <= MaxDepth /\ Cardinality(Children(p)) < MaxFanout

(* A session is created, or resumed, while no other is being opened and within the limits. *)
Creates(s, by, level) ==
  /\ CreateAs(s, by, level) /\ Quiescent /\ level <= MaxDepth
  /\ by \in Sessions => Cardinality(Children(by)) < MaxFanout

Resumes(s) ==
  /\ Resume(s) /\ Quiescent /\ HasRoom
  /\ parent[s] # Nobody => Cardinality(Children(parent[s]) \cup {s}) <= MaxFanout

Ends(s) == (Close(s) \/ Delete(s)) /\ opening[s] = 0

(* Steps of the pool that need no room. *)
NoRoomNeeded ==
  \/ UNCHANGED poolVars
  \/ ApprovalStep
  \/ PoolRestart
  \/ \E s \in Sessions :
       \/ Opened(s) \/ OpenFails(s)
       \/ Prompt(s) \/ PromptStarts(s) \/ PromptRefused(s) \/ TitleArrives(s)
       \/ Crash(s) \/ Ends(s)

WithinLimits ==
  \/ NoRoomNeeded
  \/ \E s \in Sessions :
       \/ \E by \in Sessions \cup {Nobody}, level \in Nat : Creates(s, by, level)
       \/ Resumes(s)

(* A set of sessions that grows by nothing keeps its bound, one that grows by a session reaches it
   at most. *)
LEMMA Fits ==
  ASSUME NEW S, NEW T \in SUBSET Sessions, S \subseteq T, NEW n \in Nat, Cardinality(T) <= n
  PROVE  Cardinality(S) <= n
<1>1. IsFiniteSet(Sessions)
  BY PoolAssumption, FS_Interval DEF Sessions
<1>2. IsFiniteSet(T)
  BY <1>1, FS_Subset
<1>3. Cardinality(S) <= Cardinality(T) /\ IsFiniteSet(S)
  BY <1>2, FS_Subset
<1>4. Cardinality(S) \in Nat /\ Cardinality(T) \in Nat
  BY <1>2, <1>3, FS_CardinalityType
<1> QED
  BY <1>3, <1>4

LEMMA FitsOneMore ==
  ASSUME NEW S, NEW T \in SUBSET Sessions, NEW x, S \subseteq T \cup {x}, NEW n \in Nat,
         Cardinality(T) < n
  PROVE  Cardinality(S) <= n
<1>1. IsFiniteSet(Sessions)
  BY PoolAssumption, FS_Interval DEF Sessions
<1>2. IsFiniteSet(T) /\ Cardinality(T) \in Nat
  BY <1>1, FS_Subset, FS_CardinalityType
<1>3. IsFiniteSet(T \cup {x}) /\ Cardinality(T \cup {x}) <= Cardinality(T) + 1
        /\ Cardinality(T \cup {x}) \in Nat
  <2>1. /\ IsFiniteSet(T \cup {x})
        /\ Cardinality(T \cup {x}) = IF x \in T THEN Cardinality(T) ELSE Cardinality(T) + 1
    BY <1>2, FS_AddElement
  <2> QED
    BY <1>2, <2>1
<1>4. IsFiniteSet(S) /\ Cardinality(S) <= Cardinality(T \cup {x})
  BY <1>3, FS_Subset
<1>5. Cardinality(S) \in Nat
  BY <1>4, FS_CardinalityType
<1> QED
  BY <1>2, <1>3, <1>4, <1>5

(* Every step within the limits leaves every session in order. *)
LEMMA OrderlyStep ==
  ASSUME PoolTypeOK, \A s \in Sessions : Orderly(s), WithinLimits
  PROVE  \A s \in Sessions : Orderly(s)'
<1> SUFFICES ASSUME NEW t \in Sessions
             PROVE  Orderly(t)'
  OBVIOUS
<1>a. Orderly(t) /\ opening[t] \in Nat
  BY DEF PoolTypeOK
<1>1. CASE UNCHANGED poolVars
  BY <1>a, <1>1 DEF Orderly, poolVars
<1>2. CASE ApprovalStep
  BY <1>a, <1>2 DEF Orderly, ApprovalStep, poolRest
<1>3. CASE PoolRestart
  BY <1>a, <1>3 DEF Orderly, PoolRestart
<1>4. ASSUME NEW s \in Sessions, NEW by \in Sessions \cup {Nobody}, NEW level \in Nat,
             Creates(s, by, level)
      PROVE  Orderly(t)'
  <2>1. CASE t = s
    <3>1. Orderly(s) /\ opening[s] = 0 /\ status[s] = "unused"
      BY <1>4 DEF Creates, CreateAs, Quiescent, Fresh
    <3>2. runtime[s] = "none"
      BY <3>1 DEF Orderly
    <3> QED
      BY <1>a, <1>4, <2>1, <3>1, <3>2 DEF Orderly, Creates, CreateAs, PoolTypeOK
  <2>2. CASE t # s
    BY <1>a, <1>4, <2>2 DEF Orderly, Creates, CreateAs, PoolTypeOK
  <2> QED
    BY <2>1, <2>2
<1>5. ASSUME NEW s \in Sessions, Resumes(s)
      PROVE  Orderly(t)'
  <2>1. opening[s] = 0
    BY <1>5 DEF Resumes, Quiescent
  <2> QED
    BY <1>a, <1>5, <2>1 DEF Orderly, Resumes, Resume, PoolTypeOK
<1>6. ASSUME NEW s \in Sessions, Opened(s) \/ OpenFails(s)
      PROVE  Orderly(t)'
  <2>1. opening[s] = 1 /\ runtime[s] = "none" /\ s \in listed /\ orphans' = orphans
    <3>1. Orderly(s) /\ opening[s] > 0 /\ opening[s] \in Nat
      BY <1>6 DEF Opened, OpenFails, PoolTypeOK
    <3> QED
      BY <1>6, <3>1 DEF Orderly, Opened, OpenFails
  <2>2. opening' = [opening EXCEPT ![s] = 0]
    BY <1>6, <2>1 DEF Opened, OpenFails
  <2>3. CASE t = s
    BY <1>a, <1>6, <2>1, <2>2, <2>3 DEF Orderly, Opened, OpenFails, PoolTypeOK
  <2>4. CASE t # s
    BY <1>a, <1>6, <2>1, <2>2, <2>4 DEF Orderly, Opened, OpenFails, PoolTypeOK
  <2> QED
    BY <2>3, <2>4
<1>7. ASSUME NEW s \in Sessions, Prompt(s) \/ PromptStarts(s) \/ PromptRefused(s)
      PROVE  Orderly(t)'
  BY <1>a, <1>7 DEF Orderly, Prompt, PromptStarts, PromptRefused
<1>8. ASSUME NEW s \in Sessions, TitleArrives(s)
      PROVE  Orderly(t)'
  BY <1>a, <1>8 DEF Orderly, TitleArrives
<1>9. ASSUME NEW s \in Sessions, Crash(s)
      PROVE  Orderly(t)'
  BY <1>a, <1>9 DEF Orderly, Crash, PoolTypeOK
<1>10. ASSUME NEW s \in Sessions, Ends(s)
       PROVE  Orderly(t)'
  BY <1>a, <1>10 DEF Orderly, Ends, Close, Delete, Closing, PoolTypeOK
<1> QED
  BY <1>1, <1>2, <1>3, <1>4, <1>5, <1>6, <1>7, <1>8, <1>9, <1>10 DEF WithinLimits, NoRoomNeeded

(* A step that needs no room adds no child to any session. *)
LEMMA NoNewChild ==
  ASSUME PoolTypeOK, \A s \in Sessions : Orderly(s), NoRoomNeeded, NEW p \in Sessions
  PROVE  Children(p)' \subseteq Children(p) /\ depth'[p] = depth[p]
<1>1. CASE UNCHANGED poolVars
  BY <1>1 DEF poolVars, Children
<1>2. CASE ApprovalStep
  BY <1>2 DEF ApprovalStep, poolRest, Children
<1>3. CASE PoolRestart
  <2>1. \A c \in onDisk : c \notin listed => status[c] = "closed"
    BY DEF Orderly, PoolTypeOK
  <2> QED
    BY <1>3, <2>1 DEF PoolRestart, Children, PoolTypeOK
<1>4. ASSUME NEW s \in Sessions, Opened(s) \/ OpenFails(s) \/ Crash(s)
      PROVE  Children(p)' \subseteq Children(p) /\ depth'[p] = depth[p]
  <2>1. status[s] # "closed" /\ s \in listed
    BY <1>4 DEF Opened, OpenFails, Crash, Orderly
  <2>2. UNCHANGED <<listed, parent, depth>> /\ \A c \in Sessions \ {s} : status'[c] = status[c]
    BY <1>4 DEF Opened, OpenFails, Crash, PoolTypeOK
  <2> QED
    BY <2>1, <2>2 DEF Children, PoolTypeOK
<1>5. ASSUME NEW s \in Sessions,
             Prompt(s) \/ PromptStarts(s) \/ PromptRefused(s) \/ TitleArrives(s)
      PROVE  Children(p)' \subseteq Children(p) /\ depth'[p] = depth[p]
  BY <1>5 DEF Prompt, PromptStarts, PromptRefused, TitleArrives, Children
<1>6. ASSUME NEW s \in Sessions, Ends(s)
      PROVE  Children(p)' \subseteq Children(p) /\ depth'[p] = depth[p]
  <2>1. /\ listed' \subseteq listed /\ UNCHANGED <<parent, depth>>
        /\ status' = [status EXCEPT ![s] = "closed"]
    BY <1>6 DEF Ends, Close, Delete, Closing
  <2> QED
    BY <2>1 DEF Children, PoolTypeOK
<1> QED
  BY <1>1, <1>2, <1>3, <1>4, <1>5, <1>6 DEF NoRoomNeeded

(* A creation adds a child to the session that asked for it, and to no other. *)
LEMMA OneNewChild ==
  ASSUME PoolTypeOK, NEW s \in Sessions, NEW by, NEW level, CreateAs(s, by, level),
         NEW p \in Sessions
  PROVE  /\ Children(p)' \subseteq Children(p) \cup {s}
         /\ p # by => Children(p)' \subseteq Children(p)
         /\ status[p] # "unused" => depth'[p] = depth[p]
<1>1. /\ listed' = listed \cup {s} /\ parent' = [parent EXCEPT ![s] = by]
      /\ depth' = [depth EXCEPT ![s] = level]
      /\ status' = [status EXCEPT ![s] = "initializing"] /\ status[s] = "unused"
  BY DEF CreateAs, Fresh
<1> QED
  BY <1>1 DEF Children, PoolTypeOK

(* So does a resumption, to the parent of the session. *)
LEMMA OneChildAgain ==
  ASSUME PoolTypeOK, NEW s \in Sessions, Resume(s), NEW p \in Sessions
  PROVE  /\ Children(p)' \subseteq Children(p) \cup {s}
         /\ p # parent[s] => Children(p)' \subseteq Children(p)
         /\ depth'[p] = depth[p]
<1>1. /\ UNCHANGED <<listed, parent, depth>>
      /\ status' = [status EXCEPT ![s] = "initializing"]
  BY DEF Resume
<1> QED
  BY <1>1 DEF Children, PoolTypeOK

(* No session gets more children than the limit allows. *)
LEMMA FanoutStep ==
  ASSUME PoolTypeOK, PoolLimits, WithinLimits, NEW p \in Sessions
  PROVE  Cardinality(Children(p)') <= MaxFanout
<1> USE GateAssumption
<1>1. Children(p) \in SUBSET Sessions /\ Cardinality(Children(p)) <= MaxFanout
  BY DEF PoolLimits, Children, PoolTypeOK
<1>2. Children(p)' \subseteq Children(p) => Cardinality(Children(p)') <= MaxFanout
  BY <1>1, Fits
<1>3. CASE NoRoomNeeded
  BY <1>2, <1>3, NoNewChild DEF PoolLimits
<1>4. ASSUME NEW s \in Sessions, NEW by \in Sessions \cup {Nobody}, NEW level \in Nat,
             Creates(s, by, level)
      PROVE  Cardinality(Children(p)') <= MaxFanout
  <2>1. CASE p # by
    BY <1>2, <1>4, <2>1, OneNewChild DEF Creates
  <2>2. CASE p = by
    <3>1. Cardinality(Children(p)) < MaxFanout
      BY <1>4, <2>2 DEF Creates
    <3>2. Children(p)' \subseteq Children(p) \cup {s}
      BY <1>4, OneNewChild DEF Creates
    <3> QED
      BY <1>1, <3>1, <3>2, FitsOneMore
  <2> QED
    BY <2>1, <2>2
<1>5. ASSUME NEW s \in Sessions, Resumes(s)
      PROVE  Cardinality(Children(p)') <= MaxFanout
  <2>1. CASE p # parent[s]
    BY <1>2, <1>5, <2>1, OneChildAgain DEF Resumes
  <2>2. CASE p = parent[s]
    <3>1. Cardinality(Children(p) \cup {s}) <= MaxFanout
      BY <1>5, <2>2, SessionsAreNumbers DEF Resumes
    <3>2. Children(p)' \subseteq Children(p) \cup {s}
      BY <1>5, OneChildAgain DEF Resumes
    <3>3. Children(p) \cup {s} \in SUBSET Sessions
      BY <1>1
    <3> QED
      BY <3>1, <3>2, <3>3, Fits
  <2> QED
    BY <2>1, <2>2
<1> QED
  BY <1>3, <1>4, <1>5 DEF WithinLimits

(* Nor does the daemon get more processes, those on the way included. *)
LEMMA BusyStep ==
  ASSUME PoolTypeOK, PoolLimits, WithinLimits
  PROVE  Cardinality(Busy') <= MaxSessions
<1> USE PoolAssumption
<1>1. Busy \in SUBSET Sessions /\ Active \in SUBSET Sessions /\ Cardinality(Busy) <= MaxSessions
  BY DEF PoolLimits, Busy, Active
<1>2. Busy' \subseteq Busy => Cardinality(Busy') <= MaxSessions
  BY <1>1, Fits
<1>3. CASE NoRoomNeeded
  <2>1. CASE UNCHANGED poolVars \/ ApprovalStep
    BY <1>2, <2>1 DEF poolVars, ApprovalStep, poolRest, Busy
  <2>2. CASE PoolRestart
    BY <1>2, <2>2 DEF PoolRestart, Busy
  <2>3. ASSUME NEW s \in Sessions, Opened(s) \/ OpenFails(s)
        PROVE  Cardinality(Busy') <= MaxSessions
    <3>1. opening[s] > 0 /\ opening' = [opening EXCEPT ![s] = opening[s] - 1]
          /\ \A t \in Sessions \ {s} : runtime'[t] = runtime[t]
      BY <2>3 DEF Opened, OpenFails, PoolTypeOK
    <3>2. \A t \in Sessions \ {s} : opening'[t] = opening[t]
      BY <3>1 DEF PoolTypeOK
    <3> QED
      BY <1>2, <3>1, <3>2 DEF Busy
  <2>4. ASSUME NEW s \in Sessions,
               Prompt(s) \/ PromptStarts(s) \/ PromptRefused(s) \/ TitleArrives(s)
        PROVE  Cardinality(Busy') <= MaxSessions
    BY <1>2, <2>4 DEF Prompt, PromptStarts, PromptRefused, TitleArrives, Busy
  <2>5. ASSUME NEW s \in Sessions, Crash(s) \/ Ends(s)
        PROVE  Cardinality(Busy') <= MaxSessions
    <3>1. UNCHANGED opening /\ \A t \in Sessions : runtime'[t] # "none" => runtime[t] # "none"
      BY <2>5 DEF Crash, Ends, Close, Delete, Closing, PoolTypeOK
    <3> QED
      BY <1>2, <3>1 DEF Busy
  <2> QED
    BY <1>3, <2>1, <2>2, <2>3, <2>4, <2>5 DEF NoRoomNeeded
<1>4. ASSUME NEW s \in Sessions, Quiescent, HasRoom, UNCHANGED runtime,
             \A t \in Sessions \ {s} : opening'[t] = opening[t]
      PROVE  Cardinality(Busy') <= MaxSessions
  <2>1. Busy' \subseteq Active \cup {s}
    BY <1>4 DEF Busy, Active, Quiescent
  <2> QED
    BY <1>1, <1>4, <2>1, FitsOneMore DEF HasRoom
<1>5. ASSUME NEW s \in Sessions, NEW by, NEW level, Creates(s, by, level)
      PROVE  Cardinality(Busy') <= MaxSessions
  BY <1>4, <1>5 DEF Creates, CreateAs, PoolTypeOK
<1>6. ASSUME NEW s \in Sessions, Resumes(s)
      PROVE  Cardinality(Busy') <= MaxSessions
  BY <1>4, <1>6 DEF Resumes, Resume, PoolTypeOK
<1> QED
  BY <1>3, <1>5, <1>6 DEF WithinLimits

(* Together: the limits of the pool are kept. *)
LEMMA PoolLimitsStep ==
  ASSUME PoolTypeOK, PoolLimits, WithinLimits
  PROVE  PoolLimits'
<1>1. \A s \in Sessions : Orderly(s)'
  BY OrderlyStep DEF PoolLimits
<1> QED
  BY <1>1, FanoutStep, BusyStep DEF PoolLimits

(* Steps that need no room leave what room there is below a session. *)
LEMMA RoomStays ==
  ASSUME PoolTypeOK, PoolLimits, NEW p \in Sessions, TreeRoom(p),
         Children(p)' \subseteq Children(p), depth'[p] = depth[p]
  PROVE  TreeRoom(p)'
<1>1. Children(p) \in SUBSET Sessions /\ MaxFanout \in Nat
  BY GateAssumption DEF Children, PoolTypeOK
<1>2. Cardinality(Children(p)) < MaxFanout
  BY DEF TreeRoom
<1>3. IsFiniteSet(Sessions)
  BY PoolAssumption, FS_Interval DEF Sessions
<1>4. IsFiniteSet(Children(p)) /\ Cardinality(Children(p)) \in Nat
  BY <1>1, <1>3, FS_Subset, FS_CardinalityType
<1>5. Cardinality(Children(p)') <= Cardinality(Children(p)) /\ Cardinality(Children(p)') \in Nat
  BY <1>4, FS_Subset, FS_CardinalityType
<1> QED
  BY <1>1, <1>2, <1>4, <1>5 DEF TreeRoom
-----------------------------------------------------------------------------
(* Limits: the calls *)

InGate == {"invoked", "asking", "granted"}
Early  == {"unused", "line", "invoked", "asking", "granted"}  \* its tool has not been run

(* Calls are made in the order of their numbers. *)
Numbered == \A c, d \in Calls : c < d /\ step[c] = "unused" => step[d] = "unused"

(* A session has one call at the gate: the next line is forwarded when the one before it is over,
   or runs and is waited for no more. *)
OneAtTheGate ==
  \A c, d \in Calls : c < d /\ from[c] = from[d] /\ step[d] \in InGate => step[c] \notin Early

(* Nobody has given up on a call that has not run, unless the pi extension has. *)
Awaited(c) ==
  step[c] \in Early /\ told[c] # "none" =>
    Extension /\ step[c] # "unused" /\ (tool[c] = "read" \/ Allows("patience"))

OneGranted == \A c, d \in Calls : step[c] = "granted" /\ step[d] = "granted" => c = d

QueueInv == Numbered /\ OneAtTheGate /\ OneGranted /\ \A c \in Calls : Awaited(c)

(* What a step may do to a call: it goes forward, it keeps its caller and its tool until it is
   over, it comes to the gate from the head of the queue, passes it as it was judged, and a client
   gives up as MayGiveUp says. *)
Forward(d) ==
  /\ step'[d] = "unused" => step[d] = "unused"
  /\ step[d] = "unused" /\ step'[d] # "unused" =>
       /\ step'[d] = "line" /\ runtime[from'[d]] = "alive"
       /\ \A older \in Calls : older < d => step[older] # "unused"
  /\ step'[d] \in Early => step[d] \in Early
  /\ step'[d] \in Before => step[d] \in Before
  /\ step[d] \in Over => step'[d] \in Over
  /\ step'[d] = "invoked" => step[d] = "invoked" \/ (step[d] = "line" /\ AtHead(d))
  /\ step'[d] \in {"asking", "granted"} =>
       step[d] \in InGate /\ (step[d] = "invoked" /\ tool[d] = "new" => WithinTree(d))
  /\ step'[d] \notin Over => step[d] = "unused" \/ (from'[d] = from[d] /\ tool'[d] = tool[d])
  /\ step'[d] \in Early =>
       told'[d] = told[d] \/ (MayGiveUp(d) /\ step[d] # "unused" /\ step'[d] = step[d])

(* A call that nothing happens to. *)
Rests(d) ==
  /\ step'[d] = step[d] /\ from'[d] = from[d] /\ tool'[d] = tool[d] /\ told'[d] = told[d]

LEMMA RestsForward ==
  ASSUME NEW d \in Calls, Rests(d)
  PROVE  Forward(d)
BY DEF Rests, Forward, InGate

(* A step of a call moves that call forward, and no other. *)
LEMMA CallForward ==
  ASSUME CallShape, CallTies, NEW c \in Calls, CallStep(c) \/ RunStep(c)
  PROVE  Forward(c) /\ \A d \in Calls \ {c} : Rests(d)
<1> USE DEF CallShape
<1>1. ASSUME NEW s \in Sessions, NEW what \in Tools, Submit(c, s, what)
      PROVE  Forward(c) /\ \A d \in Calls \ {c} : Rests(d)
  BY <1>1 DEF Submit, Forward, Rests, Early, Before, InGate, Over
<1>2. CASE Invoke(c)
  <2>1. /\ step[c] = "line" /\ AtHead(c) /\ UNCHANGED <<from, tool, told>>
        /\ step' = [step EXCEPT ![c] = "invoked"] \/ step' = [step EXCEPT ![c] = "reporting"]
    BY <1>2 DEF Invoke, Finish
  <2> QED
    BY <2>1 DEF Forward, Rests, Early, Before, InGate, Over
<1>3. CASE LineLost(c)
  BY <1>3 DEF LineLost, Forgotten, Forward, Rests, Early, Before, InGate, Over
<1>4. ASSUME NEW known, NEW valid, NEW budget, Judge(c, known, valid, budget)
      PROVE  Forward(c) /\ \A d \in Calls \ {c} : Rests(d)
  <2>1. /\ step[c] = "invoked" /\ UNCHANGED <<from, tool>>
        /\ \/ /\ UNCHANGED told
              /\ \/ step' = [step EXCEPT ![c] = "reporting"]
                 \/ /\ step' = [step EXCEPT ![c] = "asking"]
                    /\ tool[c] = "new" => WithinTree(c)
                 \/ step' = [step EXCEPT ![c] = "granted"] /\ tool[c] = "read"
           \/ /\ step' = [step EXCEPT ![c] = "done"]
              /\ told' = [told EXCEPT ![c] = IF @ = "none" THEN "told" ELSE @]
    BY <1>4 DEF Judge, Blocked, Refuse, Finish, Grant, Ask
  <2> QED
    BY <2>1 DEF Forward, Rests, Early, Before, InGate, Over
<1>5. ASSUME NEW granted \in BOOLEAN, Settle(c, granted), c \in waiting
      PROVE  Forward(c) /\ \A d \in Calls \ {c} : Rests(d)
  <2>1. /\ step[c] = "asking" /\ UNCHANGED <<from, tool, told>>
        /\ step' = [step EXCEPT ![c] = "granted"] \/ step' = [step EXCEPT ![c] = "reporting"]
    BY <1>5 DEF Settle, Finish, CallTies
  <2> QED
    BY <2>1 DEF Forward, Rests, Early, Before, InGate, Over
<1>6. CASE \E how \in {"allow", "deny"} : UserAnswers(c, how)
  BY <1>5, <1>6 DEF UserAnswers
<1>7. CASE Expire(c)
  BY <1>5, <1>7 DEF Expire
<1>8. CASE GivesUp(c)
  BY <1>8 DEF GivesUp, Forward, Rests, Early, Before, InGate, Over
<1>9. CASE RunStep(c)
  <2>1. CASE Run(c) \/ RunNew(c) \/ RunNewFails(c)
    <3>1. /\ step[c] = "granted" /\ UNCHANGED <<from, tool, told>>
          /\ step' = [step EXCEPT ![c] = "running"] \/ step' = [step EXCEPT ![c] = "reporting"]
      BY <2>1 DEF Run, RunNew, RunNewFails, Finish
    <3> QED
      BY <3>1 DEF Forward, Rests, Early, Before, InGate, Over
  <2>2. CASE Report(c)
    BY <2>2 DEF Report, Forgotten, Forward, Rests, Early, Before, InGate, Over
  <2> QED
    BY <1>9, <2>1, <2>2 DEF RunStep
<1> QED
  BY <1>1, <1>2, <1>3, <1>4, <1>6, <1>7, <1>8, <1>9 DEF CallStep

(* Every step moves every call forward. *)
LEMMA AllForward ==
  ASSUME CallShape, CallTies, CallChange, NEW d \in Calls
  PROVE  Forward(d)
<1>1. CASE UNCHANGED callVars
  BY <1>1, RestsForward DEF callVars, Rests
<1>2. CASE CallsCut
  BY <1>2 DEF CallsCut, CallShape, Forward, Over, Early, Before, InGate
<1>3. ASSUME NEW s \in Sessions, NEW result \in Outcomes, NewSettles(s, result)
      PROVE  Forward(d)
  <2>1. UNCHANGED <<from, tool, told>>
        /\ (step'[d] = step[d] \/ (step[d] = "running" /\ step'[d] = "reporting"))
    BY <1>3 DEF NewSettles
  <2> QED
    BY <2>1 DEF Forward, Early, Before, InGate, Over
<1>4. CASE \E c \in Calls : CallStep(c) \/ RunStep(c)
  BY <1>4, CallForward, RestsForward
<1> QED
  BY <1>1, <1>2, <1>3, <1>4 DEF CallChange

(* A call is granted by a step of its own while no other is, and then it goes on before anything
   else but the log. *)
LEMMA Grants ==
  ASSUME TouchedAssumption, GateTypeOK, OneGranted, Next, NEW c \in Calls, step'[c] = "granted"
  PROVE  (Quiet /\ CallStep(c)) \/ (step[c] = "granted" /\ UNCHANGED poolVars)
<1>a. CallShape /\ CallTies
  BY CallParts DEF GateTypeOK
<1>1. CASE Quiet /\ \E d \in Calls : CallStep(d)
  BY <1>a, <1>1, CallForward DEF Rests, Quiet
<1>2. ASSUME NEW d \in Calls, RunStep(d)
      PROVE  step[c] = "granted" /\ UNCHANGED poolVars
  <2>1. step'[d] # "granted"
    BY <1>a, <1>2 DEF RunStep, Run, RunNew, RunNewFails, Report, Finish, CallShape
  <2>2. step[c] = "granted" /\ c # d
    BY <1>a, <1>2, <2>1, CallForward DEF Rests
  <2>3. step[d] # "granted"
    BY <2>2 DEF OneGranted
  <2>4. Report(d)
    BY <1>2, <2>3 DEF RunStep, Run, RunNew, RunNewFails
  <2> QED
    BY <2>2, <2>4 DEF Report
<1>3. CASE Quiet /\ UNCHANGED callVars
  BY <1>3 DEF callVars, Quiet
<1>4. CASE Quiet /\ CallsCut
  BY <1>4 DEF CallsCut, Quiet
<1>5. ASSUME NEW s \in Sessions, Quiet, OpenStep(s)
      PROVE  FALSE
  <2>1. step'[c] = step[c] \/ step'[c] = "reporting"
    BY <1>5 DEF OpenStep, OpenedFor, OpenFailsFor, NewSettles
  <2> QED
    BY <1>5, <2>1 DEF Quiet
<1>6. CASE Quiet /\ TurnOff
  BY <1>3, <1>6 DEF TurnOff
<1>7. CASE Quiet /\ (Disturb \/ PoolStep)
  BY <1>3, <1>7, StepOnPool
<1> QED
  BY <1>1, <1>2, <1>4, <1>5, <1>6, <1>7 DEF Next, Restart

LEMMA OneGrantedStep ==
  ASSUME TouchedAssumption, GateTypeOK, OneGranted, Next
  PROVE  OneGranted'
<1> SUFFICES ASSUME NEW c \in Calls, NEW d \in Calls, step'[c] = "granted", step'[d] = "granted",
                    c # d
             PROVE  FALSE
  BY DEF OneGranted
<1>1. (Quiet /\ CallStep(c)) \/ step[c] = "granted"
  BY Grants
<1>2. (Quiet /\ CallStep(d)) \/ step[d] = "granted"
  BY Grants
<1>3. CASE Quiet /\ CallStep(c)
  <2>1. step[d] = "granted"
    BY <1>3, CallForward, CallParts DEF Rests, GateTypeOK
  <2> QED
    BY <1>3, <2>1 DEF Quiet
<1>4. CASE Quiet /\ CallStep(d)
  <2>1. step[c] = "granted"
    BY <1>4, CallForward, CallParts DEF Rests, GateTypeOK
  <2> QED
    BY <1>4, <2>1 DEF Quiet
<1> QED
  BY <1>1, <1>2, <1>3, <1>4 DEF OneGranted

(* The queues keep their order. *)
LEMMA QueueStep ==
  ASSUME TouchedAssumption, GateTypeOK, QueueInv, Next
  PROVE  QueueInv'
<1>a. CallShape /\ CallTies /\ Calls \subseteq Nat
  BY CallParts, CallsAssumption DEF GateTypeOK
<1>b. \A d \in Calls : Forward(d)
  BY <1>a, Parts, AllForward
<1>1. Numbered'
  <2> SUFFICES ASSUME NEW c \in Calls, NEW d \in Calls, c < d, step'[c] = "unused"
               PROVE  step'[d] = "unused"
    BY DEF Numbered
  <2>1. step[c] = "unused" /\ Forward(d)
    BY <1>b DEF Forward
  <2>2. step[d] = "unused"
    BY <2>1 DEF QueueInv, Numbered
  <2> QED
    BY <2>1, <2>2 DEF Forward
<1>2. OneAtTheGate'
  <2> SUFFICES ASSUME NEW c \in Calls, NEW d \in Calls, c < d, from'[c] = from'[d],
                      step'[d] \in InGate, step'[c] \in Early
               PROVE  FALSE
    BY DEF OneAtTheGate
  <2>1. Forward(c) /\ Forward(d) /\ step[c] \in Early
    BY <1>b DEF Forward
  <2>2. step[d] \in InGate \/ (step[d] = "line" /\ AtHead(d))
    BY <2>1 DEF Forward, InGate
  <2>3. step[d] # "unused" /\ step[c] # "unused"
    BY <2>2 DEF InGate, QueueInv, Numbered
  <2>4. step'[d] \notin Over /\ step'[c] \notin Over
    BY DEF InGate, Early, Over
  <2>5. from[c] = from[d]
    BY <2>1, <2>3, <2>4 DEF Forward
  <2>6. CASE step[d] \in InGate
    BY <2>1, <2>5, <2>6 DEF QueueInv, OneAtTheGate
  <2>7. CASE AtHead(d)
    <3>1. step[c] \in Over \/ (told[c] = "lost" /\ ~Extension)
      BY <2>5, <2>7 DEF AtHead
    <3>2. Awaited(c)
      BY DEF QueueInv
    <3> QED
      BY <2>1, <3>1, <3>2 DEF Awaited, Early, Over
  <2> QED
    BY <2>2, <2>6, <2>7
<1>3. ASSUME NEW c \in Calls
      PROVE  Awaited(c)'
  <2>1. Forward(c) /\ Awaited(c)
    BY <1>b DEF QueueInv
  <2>2. SUFFICES ASSUME step'[c] \in Early, told'[c] # "none"
                 PROVE  Extension /\ step'[c] # "unused" /\ (tool'[c] = "read" \/ Allows("patience"))
    BY DEF Awaited
  <2>3. step[c] \in Early
    BY <2>1, <2>2 DEF Forward
  <2>4. CASE told'[c] = told[c]
    <3>1. Extension /\ step[c] # "unused" /\ (tool[c] = "read" \/ Allows("patience"))
      BY <2>1, <2>2, <2>3, <2>4 DEF Awaited
    <3> QED
      BY <2>1, <2>2, <3>1 DEF Forward, Early, Over
  <2>5. CASE MayGiveUp(c) /\ step[c] # "unused" /\ step'[c] = step[c]
    <3>1. Extension /\ (tool[c] = "read" \/ Allows("patience"))
      BY <2>3, <2>5 DEF MayGiveUp, Early
    <3> QED
      BY <2>1, <2>2, <2>5, <3>1 DEF Forward, Early, Over
  <2> QED
    BY <2>1, <2>2, <2>4, <2>5 DEF Forward
<1> QED
  BY <1>1, <1>2, <1>3, OneGrantedStep DEF QueueInv

(* How a call stands to the tree: its caller has been created; what may become a session of it was
   judged, and there still is room for it; and when the user has agreed, nothing is being opened. *)
Judged(c, p) ==
  from[c] = p =>
    /\ step[c] \notin Over \cup {"unused"} => status[p] # "unused"
    /\ tool[c] = "new" /\ step[c] \in {"asking", "granted"} => TreeRoom(p)
    /\ tool[c] = "new" /\ step[c] = "granted" => Quiescent

JudgedInv == \A c \in Calls, p \in Sessions : Judged(c, p)

LimitsInv == PoolLimits /\ QueueInv /\ JudgedInv

(* What a granted call may count on when it creates its session. *)
LEMMA NewIsWithin ==
  ASSUME GateTypeOK, LimitsInv, NEW c \in Calls, RunNew(c)
  PROVE  /\ from[c] \in Sessions /\ Quiescent /\ TreeRoom(from[c])
         /\ \E s \in Sessions : CreateAs(s, from[c], depth[from[c]] + 1)
<1>1. step[c] = "granted" /\ tool[c] = "new"
      /\ \E s \in Sessions : CreateAs(s, from[c], depth[from[c]] + 1)
  BY DEF RunNew
<1>2. from[c] \in Sessions
  BY <1>1 DEF GateTypeOK, CallTypeOK, Over
<1>3. Judged(c, from[c])
  BY <1>2 DEF LimitsInv, JudgedInv
<1> QED
  BY <1>1, <1>2, <1>3 DEF Judged

(* Where room is taken: by the user, before any call or beside those that wait for a child, or by
   a call that was granted. *)
LEMMA RoomTakers ==
  ASSUME TouchedAssumption, "overlap" \notin Races, "resume" \notin Races,
         "midspawn" \notin Races, GateTypeOK, Next
  PROVE  \/ NoRoomNeeded
         \/ \E s \in Sessions : CreateAs(s, Nobody, 0) /\ Quiescent /\ UNCHANGED callVars
         \/ /\ UNCHANGED callVars
            /\ \E s \in Sessions : Resumes(s) /\ (parent[s] # Nobody => ~Spawning(parent[s]))
         \/ \E c \in Calls : RunNew(c)
<1>a. PoolTypeOK /\ CallTypeOK
  BY DEF GateTypeOK
<1>b. MayOpen => Quiescent
  BY DEF MayOpen, Allows
<1>1. CASE TurnOff
  BY <1>1 DEF TurnOff, NoRoomNeeded
<1>2. CASE Disturb
  <2>0. UNCHANGED callVars
    BY <1>2 DEF Disturb
  <2>1. CASE UserResumes
    <3>1. PICK s \in Touched :
            /\ Resume(s) /\ MayOpen /\ HasRoom
            /\ parent[s] # Nobody =>
                 ~Spawning(parent[s]) /\ Cardinality(Children(parent[s]) \cup {s}) <= MaxFanout
      BY <2>1 DEF UserResumes, Allows
    <3>2. s \in Sessions /\ Resumes(s)
      BY <1>b, <3>1 DEF TouchedAssumption, Resumes
    <3> QED
      BY <2>0, <3>1, <3>2
  <2>2. CASE UserCloses
    <3>1. PICK s \in Touched : (Close(s) \/ Delete(s)) /\ opening[s] = 0
      BY <2>2 DEF UserCloses, Allows
    <3>2. s \in Sessions /\ Ends(s)
      BY <3>1 DEF TouchedAssumption, Ends
    <3> QED
      BY <3>2 DEF NoRoomNeeded
  <2>3. CASE \E s \in Touched : Prompt(s) \/ Crash(s)
    BY <2>3 DEF NoRoomNeeded, TouchedAssumption
  <2> QED
    BY <1>2, <2>1, <2>2, <2>3 DEF Disturb
<1>3. CASE PoolStep
  <2>0. UNCHANGED callVars
    BY <1>3 DEF PoolStep
  <2>1. CASE UserCreates
    BY <1>b, <2>0, <2>1 DEF UserCreates
  <2>2. CASE ~UserCreates
    BY <1>3, <2>2 DEF PoolStep, NoRoomNeeded
  <2> QED
    BY <2>1, <2>2
<1>4. CASE Restart
  BY <1>4 DEF Restart, NoRoomNeeded
<1>5. CASE \E s \in Sessions : OpenStep(s)
  BY <1>5 DEF OpenStep, OpenedFor, OpenFailsFor, NoRoomNeeded
<1>6. CASE \E c \in Calls : CallStep(c) \/ RunStep(c)
  BY <1>a, <1>6, CallOnPool DEF NoRoomNeeded
<1> QED
  BY <1>1, <1>2, <1>3, <1>4, <1>5, <1>6 DEF Next

(* Every step stays within the limits. *)
LEMMA LimitedStep ==
  ASSUME TouchedAssumption, "overlap" \notin Races, "resume" \notin Races,
         "midspawn" \notin Races, GateTypeOK, LimitsInv, Next
  PROVE  WithinLimits
<1>1. ASSUME NEW s \in Sessions, CreateAs(s, Nobody, 0), Quiescent
      PROVE  WithinLimits
  <2>1. Creates(s, Nobody, 0)
    BY <1>1, SessionsAreNumbers, GateAssumption DEF Creates
  <2> QED
    BY <2>1 DEF WithinLimits
<1>2. ASSUME NEW c \in Calls, RunNew(c)
      PROVE  WithinLimits
  <2>1. PICK s \in Sessions : CreateAs(s, from[c], depth[from[c]] + 1)
    BY <1>2, NewIsWithin
  <2>2. from[c] \in Sessions /\ Quiescent /\ TreeRoom(from[c])
    BY <1>2, NewIsWithin
  <2>3. depth[from[c]] + 1 \in Nat
    BY <2>2 DEF GateTypeOK, PoolTypeOK
  <2>4. Creates(s, from[c], depth[from[c]] + 1)
    BY <2>1, <2>2 DEF Creates, TreeRoom
  <2> QED
    BY <2>2, <2>3, <2>4 DEF WithinLimits
<1> QED
  BY <1>1, <1>2, RoomTakers DEF WithinLimits

(* The room a call was judged by is there until the call takes it. *)
LEMMA RoomIsKept ==
  ASSUME TouchedAssumption, "overlap" \notin Races, "resume" \notin Races,
         "midspawn" \notin Races, GateTypeOK, LimitsInv, Next,
         NEW c \in Calls, NEW p \in Sessions, from[c] = p, tool[c] = "new", step[c] \in InGate,
         step'[c] \in {"asking", "granted"}, status[p] # "unused", TreeRoom(p)
  PROVE  TreeRoom(p)'
<1>a. PoolTypeOK /\ PoolLimits /\ \A s \in Sessions : Orderly(s)
  BY DEF GateTypeOK, LimitsInv, PoolLimits
<1>1. SUFFICES Children(p)' \subseteq Children(p) /\ depth'[p] = depth[p]
  BY <1>a, RoomStays
<1>2. CASE NoRoomNeeded
  BY <1>a, <1>2, NoNewChild
<1>3. ASSUME NEW s \in Sessions, CreateAs(s, Nobody, 0)
      PROVE  Children(p)' \subseteq Children(p) /\ depth'[p] = depth[p]
  BY <1>a, <1>3, OneNewChild, SessionsAreNumbers
<1>4. ASSUME UNCHANGED callVars, NEW s \in Sessions, Resumes(s),
             parent[s] # Nobody => ~Spawning(parent[s])
      PROVE  Children(p)' \subseteq Children(p) /\ depth'[p] = depth[p]
  <2>1. Spawning(p)
    BY <1>4 DEF Spawning, callVars
  <2>2. p # parent[s]
    BY <1>4, <2>1, SessionsAreNumbers
  <2> QED
    BY <1>a, <1>4, <2>2, OneChildAgain DEF Resumes
<1>5. ASSUME NEW d \in Calls, RunNew(d)
      PROVE  Children(p)' \subseteq Children(p) /\ depth'[p] = depth[p]
  <2>1. step[d] = "granted" /\ step' = [step EXCEPT ![d] = "running"]
    BY <1>5 DEF RunNew
  <2>2. c # d
    BY <2>1 DEF GateTypeOK, CallTypeOK
  <2>3. step[c] \in InGate \cap Early /\ step[d] \in InGate \cap Early
    BY <2>1 DEF InGate, Early
  <2>4. c < d \/ d < c
    BY <2>2, CallsAssumption
  <2>5. from[d] # p
    BY <2>3, <2>4 DEF LimitsInv, QueueInv, OneAtTheGate
  <2>6. PICK s \in Sessions : CreateAs(s, from[d], depth[from[d]] + 1)
    BY <1>5 DEF RunNew
  <2> QED
    BY <1>a, <2>5, <2>6, OneNewChild
<1> QED
  BY <1>2, <1>3, <1>4, <1>5, RoomTakers

(* A session that has been created stays created. *)
LEMMA StaysCreated ==
  ASSUME PoolTypeOK, PoolChange, NEW p \in Sessions, status[p] # "unused"
  PROVE  status'[p] # "unused"
<1>1. CASE UNCHANGED poolVars \/ ApprovalStep \/ PoolRestart
  BY <1>1 DEF poolVars, ApprovalStep, poolRest, PoolRestart
<1>2. ASSUME NEW s \in Sessions, NEW by, NEW level, CreateAs(s, by, level)
      PROVE  status'[p] # "unused"
  BY <1>2 DEF CreateAs, PoolTypeOK
<1>3. ASSUME NEW s \in Sessions,
             \/ Resume(s) \/ Opened(s) \/ OpenFails(s) \/ Prompt(s) \/ PromptStarts(s)
             \/ PromptRefused(s) \/ TitleArrives(s) \/ Crash(s)
      PROVE  status'[p] # "unused"
  BY <1>3 DEF Resume, Opened, OpenFails, Prompt, PromptStarts, PromptRefused, TitleArrives, Crash,
              PoolTypeOK
<1>4. ASSUME NEW s \in Sessions, Close(s) \/ Deletes(s)
      PROVE  status'[p] # "unused"
  BY <1>4 DEF Close, Deletes, Delete, Closing, PoolTypeOK
<1> QED
  BY <1>1, <1>2, <1>3, <1>4 DEF PoolChange

(* The user agrees to a new session when none is being opened. *)
LEMMA AgreedQuiescent ==
  ASSUME "overlap" \notin Races, CallShape, CallTies, NEW c \in Calls, CallStep(c), Quiet,
         step'[c] = "granted", tool[c] = "new"
  PROVE  Quiescent'
<1>0. step[c] # "granted" /\ step \in [Calls -> Steps]
  BY DEF Quiet, CallShape
<1>1. ASSUME NEW how \in {"allow", "deny"}, UserAnswers(c, how)
      PROVE  Quiescent'
  <2>1. how = "allow"
    BY <1>0, <1>1 DEF UserAnswers, Settle, Finish
  <2>2. Quiescent /\ UNCHANGED opening
    BY <1>1, <2>1 DEF UserAnswers, MayOpen, Allows, Settle, poolRest
  <2> QED
    BY <2>2 DEF Quiescent
<1>2. ASSUME NEW known, NEW valid, NEW budget, Judge(c, known, valid, budget)
      PROVE  FALSE
  BY <1>0, <1>2 DEF Judge, Refuse, Finish, Grant, Ask
<1>3. ASSUME Expire(c)
      PROVE  FALSE
  BY <1>0, <1>3 DEF Expire, Settle, Finish
<1>4. ASSUME Invoke(c) \/ LineLost(c) \/ GivesUp(c)
      PROVE  FALSE
  BY <1>0, <1>4 DEF Invoke, Finish, LineLost, GivesUp
<1>5. ASSUME NEW s, NEW what, Submit(c, s, what)
      PROVE  FALSE
  BY <1>0, <1>5 DEF Submit
<1> QED
  BY <1>1, <1>2, <1>3, <1>4, <1>5 DEF CallStep

(* What was judged of a call stays true until it has run. *)
LEMMA JudgedStep ==
  ASSUME TouchedAssumption, "overlap" \notin Races, "resume" \notin Races,
         "midspawn" \notin Races, GateTypeOK, LimitsInv, Next
  PROVE  JudgedInv'
<1> SUFFICES ASSUME NEW c \in Calls, NEW p \in Sessions, from'[c] = p
             PROVE  /\ step'[c] \notin Over \cup {"unused"} => status'[p] # "unused"
                    /\ tool'[c] = "new" /\ step'[c] \in {"asking", "granted"} => TreeRoom(p)'
                    /\ tool'[c] = "new" /\ step'[c] = "granted" => Quiescent'
  BY DEF JudgedInv, Judged
<1>a. /\ CallShape /\ CallTies /\ PoolTypeOK /\ OneGranted /\ PoolChange
      /\ \A s \in Sessions : Orderly(s)
  BY CallParts, Parts DEF GateTypeOK, LimitsInv, QueueInv, PoolLimits
<1>b. Forward(c)
  BY <1>a, Parts, AllForward
<1>c. \A q \in Sessions : Judged(c, q)
  BY DEF LimitsInv, JudgedInv
<1>1. ASSUME step'[c] \notin Over \cup {"unused"}
      PROVE  status[p] # "unused" /\ (step[c] # "unused" => from[c] = p /\ tool'[c] = tool[c])
  <2>1. CASE step[c] = "unused"
    <3>1. runtime[p] = "alive"
      BY <1>b, <1>1, <2>1 DEF Forward
    <3> QED
      BY <1>a, <2>1, <3>1 DEF Orderly
  <2>2. CASE step[c] # "unused"
    <3>1. from[c] = p /\ tool'[c] = tool[c] /\ step[c] \notin Over
      BY <1>b, <1>1, <2>2 DEF Forward
    <3> QED
      BY <1>c, <2>2, <3>1 DEF Judged
  <2> QED
    BY <2>1, <2>2
<1>2. step'[c] \notin Over \cup {"unused"} => status'[p] # "unused"
  BY <1>a, <1>1, StaysCreated
<1>3. ASSUME tool'[c] = "new", step'[c] \in {"asking", "granted"}
      PROVE  TreeRoom(p)'
  <2>1. /\ step[c] \in InGate /\ status[p] # "unused"
        /\ step[c] = "invoked" /\ tool[c] = "new" => WithinTree(c)
    BY <1>b, <1>1, <1>3 DEF Forward, Over
  <2>2. from[c] = p /\ tool[c] = "new"
    BY <1>1, <1>3, <2>1 DEF InGate, Over
  <2>3. TreeRoom(p)
    <3>1. CASE step[c] = "invoked"
      BY <2>1, <2>2, <3>1 DEF WithinTree, TreeRoom
    <3>2. CASE step[c] # "invoked"
      BY <1>c, <2>1, <2>2, <3>2 DEF Judged, InGate
    <3> QED
      BY <3>1, <3>2
  <2> QED
    BY <1>3, <2>1, <2>2, <2>3, RoomIsKept
<1>4. ASSUME tool'[c] = "new", step'[c] = "granted"
      PROVE  Quiescent'
  <2>1. from[c] = p /\ tool[c] = "new"
    BY <1>b, <1>1, <1>4 DEF Forward, Over, InGate
  <2>2. CASE Quiet /\ CallStep(c)
    BY <1>a, <1>4, <2>1, <2>2, AgreedQuiescent
  <2>3. CASE step[c] = "granted" /\ UNCHANGED poolVars
    <3>1. Quiescent
      BY <1>c, <2>1, <2>3 DEF Judged
    <3> QED
      BY <2>3, <3>1 DEF Quiescent, poolVars
  <2> QED
    BY <1>a, <1>4, <2>2, <2>3, Grants
<1> QED
  BY <1>2, <1>3, <1>4

(* A step that changes nothing. *)
LEMMA LimitsStutter ==
  ASSUME LimitsInv, UNCHANGED mcVars
  PROVE  LimitsInv'
<1>1. UNCHANGED poolVars /\ UNCHANGED callVars
  BY DEF mcVars, vars
<1>2. PoolLimits'
  BY <1>1 DEF LimitsInv, PoolLimits, Orderly, Busy, Children, poolVars
<1>3. QueueInv'
  BY <1>1 DEF LimitsInv, QueueInv, Numbered, OneAtTheGate, OneGranted, Awaited, callVars
<1>4. JudgedInv'
  BY <1>1 DEF LimitsInv, JudgedInv, Judged, TreeRoom, Children, Quiescent, poolVars, callVars
<1> QED
  BY <1>2, <1>3, <1>4 DEF LimitsInv

(* The inductive invariant of the limits, with the pool and the queues of the calls: every race
   but the three in which sessions are opened or ended past the limits. *)
THEOREM LimitsInvariant ==
  ASSUME TouchedAssumption, "overlap" \notin Races, "resume" \notin Races,
         "midspawn" \notin Races
  PROVE  Spec => []LimitsInv
<1>1. Init => LimitsInv
  <2> SUFFICES ASSUME Init
               PROVE  LimitsInv
    OBVIOUS
  <2> USE PoolAssumption, GateAssumption
  <2>1. \A s \in Sessions : Children(s) = {} /\ Orderly(s)
    BY DEF Init, PoolInit, Children, Orderly
  <2>2. Busy = {}
    BY DEF Init, PoolInit, Busy
  <2>3. PoolLimits
    BY <2>1, <2>2, FS_EmptySet DEF PoolLimits
  <2>4. QueueInv
    BY DEF Init, CallInit, QueueInv, Numbered, OneAtTheGate, OneGranted, Awaited, InGate
  <2>5. JudgedInv
    BY DEF Init, CallInit, JudgedInv, Judged
  <2> QED
    BY <2>3, <2>4, <2>5 DEF LimitsInv
<1>2. GateTypeOK /\ LimitsInv /\ [Next]_mcVars => LimitsInv'
  <2> SUFFICES ASSUME GateTypeOK, LimitsInv, [Next]_mcVars
               PROVE  LimitsInv'
    OBVIOUS
  <2>1. CASE Next
    <3>1. PoolLimits'
      BY <2>1, LimitedStep, PoolLimitsStep DEF GateTypeOK, LimitsInv
    <3> QED
      BY <2>1, <3>1, QueueStep, JudgedStep DEF LimitsInv
  <2> QED
    BY <2>1, LimitsStutter
<1> QED
  BY <1>1, <1>2, GateTypeCorrect, PTL DEF Spec

(* gate.ts, session-manager.ts: for any numbers of sessions and calls and any limits, the tree of
   sessions keeps its height and width, the daemon its number of processes, and each session has
   one, which the map can reach - although the gate looks at the tree before the user is asked and
   the session is created after. *)
THEOREM LimitsAlwaysHold ==
  ASSUME TouchedAssumption, "overlap" \notin Races, "resume" \notin Races,
         "midspawn" \notin Races
  PROVE  Spec => []LimitsHold
<1>1. LimitsInv => LimitsHold
  <2> SUFFICES ASSUME LimitsInv
               PROVE  LimitsHold
    OBVIOUS
  <2>1. Active \subseteq Busy /\ Busy \in SUBSET Sessions
    BY DEF Active, Busy
  <2>2. Cardinality(Active) <= MaxSessions
    BY <2>1, Fits, PoolAssumption DEF LimitsInv, PoolLimits
  <2> QED
    BY <2>2 DEF LimitsHold, LimitsInv, PoolLimits, Orderly
<1> QED
  BY <1>1, LimitsInvariant, PTL

(* The queues keep their order whatever happens. *)
LEMMA QueueInvariant ==
  ASSUME TouchedAssumption
  PROVE  Spec => []QueueInv
<1>1. Init => QueueInv
  BY DEF Init, CallInit, QueueInv, Numbered, OneAtTheGate, OneGranted, Awaited, InGate
<1>2. GateTypeOK /\ QueueInv /\ [Next]_mcVars => QueueInv'
  <2>1. QueueInv /\ UNCHANGED mcVars => QueueInv'
    BY DEF mcVars, vars, callVars, QueueInv, Numbered, OneAtTheGate, OneGranted, Awaited
  <2> QED
    BY <2>1, QueueStep
<1> QED
  BY <1>1, <1>2, GateTypeCorrect, PTL DEF Spec

(* mcp/main.ts, gate.ts: a tool that is not read-only is never run for a model that was told of a
   failure - unless the pi extension gives up on a call that waits for the user, the one client
   that waits for a shorter time than the user may take. *)
THEOREM LostCallsNeverRun ==
  ASSUME TouchedAssumption, ~Extension \/ "patience" \notin Races
  PROVE  Spec => LostNeverRuns
<1>1. GateTypeOK /\ QueueInv /\ Next
        => \A c \in ran' \ ran : tool[c] # "read" => told[c] = "none"
  <2> SUFFICES ASSUME GateTypeOK, QueueInv, Next, NEW c \in ran' \ ran, tool[c] # "read"
               PROVE  told[c] = "none"
    OBVIOUS
  <2>1. PICK d \in Calls : CallStep(d) \/ RunStep(d)
    <3>1. CallChange
      BY Parts
    <3> QED
      BY <3>1 DEF CallChange, callVars, CallsCut, NewSettles
  <2>2. step[d] = "granted" /\ c = d
    BY <2>1 DEF CallStep, Submit, Invoke, LineLost, Judge, UserAnswers, Expire, Settle, GivesUp,
                RunStep, Run, RunNew, RunNewFails, Report
  <2>3. Awaited(c)
    BY <2>2 DEF QueueInv
  <2> QED
    BY <2>2, <2>3 DEF Awaited, Early, Allows
<1>2. GateTypeOK /\ QueueInv /\ [Next]_mcVars
        => [\A c \in ran' \ ran : tool[c] # "read" => told[c] = "none"]_mcVars
  BY <1>1
<1> QED
  BY <1>2, GateTypeCorrect, QueueInvariant, PTL DEF Spec, LostNeverRuns

-----------------------------------------------------------------------------
(* Approvals can be answered *)

(* What is on hold of a session: only while a prompt is opened; and a request that is resolved
   there is that of a call that has gone on. *)
HoldKeeps(s) ==
  /\ ~held[s].on => HoldsNothing(s)
  /\ \A c \in Calls : c \in held[s].resolved => step[c] \notin Before

(* A call of p that waits is, or will be, in the table of what the user can answer. *)
Reaches(c, p) == c \in waiting /\ from[c] = p => p \in listed /\ c \in pending[p] \cup held[p].asked

AnswerInv == \A p \in Sessions : HoldKeeps(p) /\ \A c \in Calls : Reaches(c, p)

(* Nothing that AnswerInv reads of p is lost. *)
Stays(p) ==
  /\ p \in listed => p \in listed'
  /\ held'[p] = held[p] /\ pending[p] \subseteq pending'[p]

(* A step that leaves what p has pending leaves its approvals answerable. *)
LEMMA StaysAnswerable ==
  ASSUME CallShape, CallTies, CallChange, AnswerInv, NEW p \in Sessions, Stays(p),
         \A c \in waiting' : c \in waiting /\ from'[c] = from[c]
  PROVE  HoldKeeps(p)' /\ \A c \in Calls : Reaches(c, p)'
<1>1. \A c \in Calls : step'[c] \in Before => step[c] \in Before
  BY AllForward DEF Forward
<1>2. HoldKeeps(p)'
  BY <1>1 DEF AnswerInv, HoldKeeps, HoldsNothing, Stays
<1>3. ASSUME NEW c \in Calls, c \in waiting', from'[c] = p
      PROVE  p \in listed' /\ c \in pending'[p] \cup held'[p].asked
  BY <1>3 DEF AnswerInv, Reaches, Stays
<1> QED
  BY <1>2, <1>3 DEF Reaches

(* Sessions that are opened, prompted or ended. *)
LEMMA AnswerPool ==
  ASSUME TouchedAssumption, "closing" \notin Races, "refused" \notin Races, "reset" \notin Races,
         GateTypeOK, AnswerInv, Disturb \/ PoolStep
  PROVE  AnswerInv'
<1> SUFFICES ASSUME NEW p \in Sessions
             PROVE  HoldKeeps(p)' /\ \A c \in Calls : Reaches(c, p)'
  BY DEF AnswerInv
<1>a. /\ UNCHANGED callVars /\ CallChange /\ CallShape /\ CallTies /\ PoolTypeOK
      /\ HoldKeeps(p) /\ \A c \in Calls : Reaches(c, p)
  BY StepOnPool, CallParts DEF CallChange, GateTypeOK, AnswerInv
<1>b. Stays(p) => HoldKeeps(p)' /\ \A c \in Calls : Reaches(c, p)'
  BY <1>a, StaysAnswerable DEF callVars
<1>c. \A c \in waiting : step[c] = "asking" /\ c \in Calls
  BY <1>a DEF CallTies, GateTypeOK, CallTypeOK
<1>1. ASSUME NEW s \in Sessions, Resume(s) \/ Crash(s) \/ TitleArrives(s)
      PROVE  Stays(p)
  BY <1>1 DEF Resume, Crash, TitleArrives, Stays
<1>2. ASSUME NEW s \in Sessions, CreateAs(s, Nobody, 0)
      PROVE  Stays(p)
  BY <1>2 DEF CreateAs, Stays
<1>3. ASSUME NEW s \in Sessions, Close(s) \/ Delete(s), ~Waits(s)
      PROVE  HoldKeeps(p)' /\ \A c \in Calls : Reaches(c, p)'
  <2>1. CASE p # s
    <3>1. Stays(p)
      BY <1>a, <1>3, <2>1 DEF Close, Delete, Closing, Stays, PoolTypeOK
    <3> QED
      BY <1>b, <3>1
  <2>2. CASE p = s
    <3>1. held' = held
      BY <1>3 DEF Close, Delete, Closing
    <3> QED
      BY <1>a, <1>3, <2>2, <3>1 DEF Waits, HoldKeeps, HoldsNothing, Reaches, callVars
  <2> QED
    BY <2>1, <2>2
<1>4. ASSUME NEW s \in Sessions, Prompt(s)
      PROVE  HoldKeeps(p)' /\ \A c \in Calls : Reaches(c, p)'
  <2>1. CASE p # s
    BY <1>a, <1>b, <1>4, <2>1 DEF Prompt, Stays, PoolTypeOK
  <2>2. CASE p = s
    <3>1. HoldsNothing(p) /\ held'[p] = On(held[p].starts + 1) /\ UNCHANGED <<pending, listed>>
      BY <1>a, <1>4, <2>2 DEF Prompt, Allows, PoolTypeOK
    <3> QED
      BY <1>a, <3>1 DEF HoldKeeps, HoldsNothing, Reaches, callVars, On, Off
  <2> QED
    BY <2>1, <2>2
<1>5. ASSUME NEW s \in Sessions, PromptStarts(s)
      PROVE  HoldKeeps(p)' /\ \A c \in Calls : Reaches(c, p)'
  <2>1. CASE p # s
    BY <1>a, <1>b, <1>5, <2>1 DEF PromptStarts, Stays, PoolTypeOK
  <2>2. CASE p = s
    <3>1. held'[p] = Off(held[p].starts - 1)
          /\ pending'[p] = (pending[p] \cup held[p].asked) \ held[p].resolved
          /\ UNCHANGED listed
      BY <1>a, <1>5, <2>2 DEF PromptStarts, PoolTypeOK
    <3>2. \A c \in waiting : c \notin held[p].resolved
      BY <1>a, <1>c DEF HoldKeeps, Before
    <3> QED
      BY <1>a, <3>1, <3>2 DEF HoldKeeps, HoldsNothing, Reaches, callVars, Off
  <2> QED
    BY <2>1, <2>2
<1>6. ASSUME NEW s \in Sessions, PromptRefused(s)
      PROVE  HoldKeeps(p)' /\ \A c \in Calls : Reaches(c, p)'
  <2>1. CASE p # s
    BY <1>a, <1>b, <1>6, <2>1 DEF PromptRefused, Stays, PoolTypeOK
  <2>2. CASE p = s
    <3>1. HoldsNothing(p) /\ held'[p] = Off(held[p].starts - 1) /\ UNCHANGED <<pending, listed>>
      BY <1>a, <1>6, <2>2 DEF PromptRefused, Allows, PoolTypeOK
    <3> QED
      BY <1>a, <3>1 DEF HoldKeeps, HoldsNothing, Reaches, callVars, Off
  <2> QED
    BY <2>1, <2>2
<1>7. CASE Disturb
  BY <1>b, <1>1, <1>3, <1>4, <1>7
     DEF Disturb, UserResumes, UserCloses, Allows, TouchedAssumption
<1>8. CASE PoolStep
  BY <1>b, <1>1, <1>2, <1>5, <1>6, <1>8 DEF PoolStep, UserCreates
<1> QED
  BY <1>7, <1>8

(* A request is held with the session's events, or joins the table. *)
LEMMA AnswerAsk ==
  ASSUME CallShape, CallTies, PoolTypeOK, CallChange, AnswerInv, NEW c \in Calls, Ask(c),
         UNCHANGED from, from[c] \in listed
  PROVE  AnswerInv'
<1> SUFFICES ASSUME NEW p \in Sessions
             PROVE  HoldKeeps(p)' /\ \A d \in Calls : Reaches(d, p)'
  BY DEF AnswerInv
<1>1. /\ waiting' = waiting \cup {c} /\ listed' = listed
      /\ AskUser(from[c], c)
  BY DEF Ask, poolRest
<1>2. PICK s \in Sessions : s = from[c]
  BY DEF PoolTypeOK
<1>3. /\ held'[p].on = held[p].on /\ held'[p].resolved = held[p].resolved
      /\ held[p].asked \subseteq held'[p].asked /\ pending[p] \subseteq pending'[p]
      /\ ~held[p].on => held'[p] = held[p]
      /\ p = s => c \in pending'[p] \cup held'[p].asked
  <2>1. CASE held[s].on
    BY <1>1, <1>2, <2>1 DEF AskUser, ApplyEvent, Asked, PoolTypeOK
  <2>2. CASE ~held[s].on
    BY <1>1, <1>2, <2>2 DEF AskUser, ApplyEvent, Asked, PoolTypeOK
  <2> QED
    BY <2>1, <2>2
<1>4. \A d \in Calls : step'[d] \in Before => step[d] \in Before
  BY AllForward DEF Forward
<1>5. HoldKeeps(p)'
  BY <1>3, <1>4 DEF AnswerInv, HoldKeeps, HoldsNothing
<1>6. ASSUME NEW d \in Calls, d \in waiting', from'[d] = p
      PROVE  p \in listed' /\ d \in pending'[p] \cup held'[p].asked
  BY <1>1, <1>2, <1>3, <1>6 DEF AnswerInv, Reaches
<1> QED
  BY <1>5, <1>6 DEF Reaches

(* The end of a request takes that request away, and no other. *)
LEMMA AnswerSettle ==
  ASSUME CallShape, CallTies, PoolTypeOK, CallChange, AnswerInv, NEW c \in Calls, c \in waiting,
         NEW granted \in BOOLEAN, Settle(c, granted)
  PROVE  AnswerInv'
<1> SUFFICES ASSUME NEW p \in Sessions
             PROVE  HoldKeeps(p)' /\ \A d \in Calls : Reaches(d, p)'
  BY DEF AnswerInv
<1>1. /\ waiting' = waiting \ {c} /\ listed' = listed /\ from' = from
      /\ ForgetRequest(from[c], c)
  BY DEF Settle, poolRest
<1>2. step[c] = "asking" /\ from[c] \in Sessions
  BY DEF CallTies
<1>3. PICK s \in Sessions : s = from[c]
  BY <1>2
<1>4. step'[c] \notin Before
  BY DEF Settle, Finish, CallShape, Before
<1>5. /\ held'[p].on = held[p].on /\ held'[p].resolved \subseteq held[p].resolved \cup {c}
      /\ held[p].asked \subseteq held'[p].asked
      /\ \A d \in pending[p] : d # c => d \in pending'[p]
      /\ ~held[p].on => held'[p] = held[p]
  <2> DEFINE now == [pending EXCEPT ![s] = @ \ {c}]
  <2>1. now \in [Sessions -> SUBSET Calls] /\ \A d \in pending[p] : d # c => d \in now[p]
    BY DEF PoolTypeOK
  <2>2. ApplyEvent(now, s, Resolved(c))
    BY <1>1, <1>3 DEF ForgetRequest
  <2> HIDE DEF now
  <2>3. CASE held[s].on
    BY <2>1, <2>2, <2>3 DEF ApplyEvent, Resolved, PoolTypeOK
  <2>4. CASE ~held[s].on
    BY <2>1, <2>2, <2>4 DEF ApplyEvent, Resolved, PoolTypeOK
  <2> QED
    BY <2>3, <2>4
<1>6. \A d \in Calls : step'[d] \in Before => step[d] \in Before
  BY AllForward DEF Forward
<1>7. HoldKeeps(p)'
  BY <1>4, <1>5, <1>6 DEF AnswerInv, HoldKeeps, HoldsNothing
<1>8. ASSUME NEW d \in Calls, d \in waiting', from'[d] = p
      PROVE  p \in listed' /\ d \in pending'[p] \cup held'[p].asked
  BY <1>1, <1>5, <1>8 DEF AnswerInv, Reaches
<1> QED
  BY <1>7, <1>8 DEF Reaches

(* Every step of a call. *)
LEMMA AnswerCall ==
  ASSUME GateTypeOK, AnswerInv, NEW c \in Calls, CallStep(c) \/ RunStep(c)
  PROVE  AnswerInv'
<1>a. CallShape /\ CallTies /\ PoolTypeOK /\ CallChange /\ waiting \subseteq Calls
  BY CallParts DEF GateTypeOK, CallChange
<1>b. ASSUME \A p \in Sessions : Stays(p), waiting' = waiting, step[c] # "asking"
      PROVE  AnswerInv'
  <2>1. \A d \in waiting' : d \in waiting /\ from'[d] = from[d]
    <3>1. ASSUME NEW d \in waiting
          PROVE  from'[d] = from[d]
      <4>1. d \in Calls \ {c}
        BY <1>a, <1>b, <3>1 DEF CallTies
      <4> QED
        BY <1>a, <4>1, CallForward DEF Rests
    <3> QED
      BY <1>b, <3>1
  <2> QED
    BY <1>a, <1>b, <2>1, StaysAnswerable DEF AnswerInv
<1>c. UNCHANGED poolVars => \A p \in Sessions : Stays(p)
  BY DEF poolVars, Stays
<1>1. CASE \E s \in Sessions, what \in Tools : Submit(c, s, what)
  BY <1>b, <1>c, <1>1 DEF Submit
<1>2. CASE Invoke(c) \/ LineLost(c)
  BY <1>b, <1>c, <1>2 DEF Invoke, LineLost
<1>3. CASE GivesUp(c)
  <2>1. \A p \in Sessions : Stays(p)
    BY <1>c, <1>3 DEF GivesUp
  <2> QED
    BY <1>a, <1>3, <2>1, StaysAnswerable DEF GivesUp, AnswerInv
<1>4. ASSUME NEW known \in BOOLEAN, NEW valid \in BOOLEAN, NEW budget \in BOOLEAN,
             Judge(c, known, valid, budget)
      PROVE  AnswerInv'
  <2>1. step[c] = "invoked" /\ UNCHANGED from
    BY <1>4 DEF Judge
  <2>2. \/ UNCHANGED waiting /\ UNCHANGED poolVars
        \/ Ask(c) /\ tool[c] # "read" /\ ~Thrown(c, known) /\ ~Blocked(c, known, budget)
    BY <1>4 DEF Judge, Refuse, Grant
  <2>3. CASE UNCHANGED waiting /\ UNCHANGED poolVars
    BY <1>b, <1>c, <2>1, <2>3
  <2>4. CASE Ask(c) /\ tool[c] # "read" /\ ~Thrown(c, known) /\ ~Blocked(c, known, budget)
    <3>1. from[c] \in listed
      BY <2>4 DEF Thrown, Blocked
    <3> QED
      BY <1>a, <2>1, <2>4, <3>1, AnswerAsk
  <2> QED
    BY <2>2, <2>3, <2>4
<1>5. CASE \E how \in {"allow", "deny"} : UserAnswers(c, how)
  <2>1. PICK granted \in BOOLEAN : c \in waiting /\ Settle(c, granted)
    BY <1>5 DEF UserAnswers
  <2> QED
    BY <1>a, <2>1, AnswerSettle
<1>6. CASE Expire(c)
  BY <1>a, <1>6, AnswerSettle DEF Expire
<1>7. CASE Run(c) \/ RunNewFails(c) \/ Report(c)
  BY <1>b, <1>c, <1>7 DEF Run, RunNewFails, Report
<1>8. CASE RunNew(c)
  <2>1. \A p \in Sessions : Stays(p)
    BY <1>8 DEF RunNew, CreateAs, Stays
  <2> QED
    BY <1>b, <1>8, <2>1 DEF RunNew
<1> QED
  BY <1>1, <1>2, <1>3, <1>4, <1>5, <1>6, <1>7, <1>8 DEF CallStep, RunStep

(* session-manager.ts requestReverseToolApproval, respondPermission: a call that waits for the user
   can be answered - its session is in the map, and the request in its table or among the events
   that the prompt being opened is about to release - as long as, while a request of it waits, no
   session is closed or restored, and, while one is held, no prompt is refused and no other prompt
   starts. *)
THEOREM ApprovalsCanBeAnswered ==
  ASSUME TouchedAssumption,
         "closing" \notin Races, "refused" \notin Races, "reset" \notin Races, "restored" \notin Races
  PROVE  Spec => []WaitingIsAnswerable
<1>1. Init => AnswerInv
  BY DEF Init, PoolInit, CallInit, AnswerInv, HoldKeeps, HoldsNothing, Reaches, Off
<1>2. GateTypeOK /\ AnswerInv /\ [Next]_mcVars => AnswerInv'
  <2> SUFFICES ASSUME GateTypeOK, AnswerInv, [Next]_mcVars
               PROVE  AnswerInv'
    OBVIOUS
  <2>a. CallShape /\ CallTies
    BY CallParts DEF GateTypeOK
  <2>1. CASE UNCHANGED mcVars
    BY <2>1 DEF mcVars, vars, poolVars, callVars, AnswerInv, HoldKeeps, HoldsNothing, Reaches
  <2>2. CASE TurnOff
    BY <2>2 DEF TurnOff, poolVars, callVars, AnswerInv, HoldKeeps, HoldsNothing, Reaches
  <2>3. CASE Disturb \/ PoolStep
    BY <2>3, AnswerPool
  <2>4. CASE Restart
    BY <2>4 DEF Restart, PoolRestart, CallsCut, AnswerInv, HoldKeeps, HoldsNothing, Reaches, Off
  <2>5. ASSUME NEW s \in Sessions, OpenStep(s)
        PROVE  AnswerInv'
    <3>1. CallChange /\ UNCHANGED <<waiting, from>>
      BY <2>5 DEF OpenStep, OpenedFor, OpenFailsFor, NewSettles, CallChange, Outcomes
    <3>2. ASSUME Opened(s)
          PROVE  \A p \in Sessions : Stays(p)
      BY <3>2 DEF Opened, Allows, GateTypeOK, PoolTypeOK, Stays
    <3>3. ASSUME OpenFails(s)
          PROVE  \A p \in Sessions : Stays(p)
      BY <3>3 DEF OpenFails, Stays
    <3>4. \A p \in Sessions : Stays(p)
      BY <2>5, <3>2, <3>3 DEF OpenStep, OpenedFor, OpenFailsFor
    <3> QED
      BY <2>a, <3>1, <3>4, StaysAnswerable DEF AnswerInv
  <2> QED
    BY <2>1, <2>2, <2>3, <2>4, <2>5, AnswerCall DEF Next
<1>3. GateTypeOK /\ AnswerInv => WaitingIsAnswerable
  <2> SUFFICES ASSUME GateTypeOK, AnswerInv, NEW c \in waiting
               PROVE  from[c] \in listed /\ c \in pending[from[c]] \cup held[from[c]].asked
    BY DEF WaitingIsAnswerable
  <2>1. c \in Calls /\ from[c] \in Sessions
    BY CallParts DEF GateTypeOK, CallTies
  <2> QED
    BY <2>1 DEF AnswerInv, Reaches
<1> QED
  BY <1>1, <1>2, <1>3, GateTypeCorrect, PTL DEF Spec
=============================================================================
