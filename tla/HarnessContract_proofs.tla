---------------------- MODULE HarnessContract_proofs -----------------------
(***************************************************************************)
(* What every adapter that keeps the contract gives the session manager,    *)
(* for any number of turns and approvals.  MCAdapters checks that the       *)
(* adapters keep it.                                                        *)
(***************************************************************************)
EXTENDS HarnessContract, TLAPS

(* Turns are numbers, in the order in which they begin. *)
TurnsAreOrdered == Turns \subseteq Nat

ContractTypeOK ==
  /\ turn \in [Turns -> TurnStates]
  /\ asking \subseteq Approvals
  /\ reported \in BOOLEAN

(* A turn that has begun leaves only turns that are over behind it. *)
OverBefore == \A s, t \in Turns : s < t /\ turn[t] # "none" => turn[s] \in Settled

ContractInv == ContractTypeOK /\ OverBefore

-----------------------------------------------------------------------------
(* The first state has no turn. *)
LEMMA ContractStart ==
  ASSUME Init
  PROVE  ContractInv
BY DEF Init, ContractInv, ContractTypeOK, OverBefore, TurnStates

(* The end of a turn concerns a turn that has begun, and that turn alone. *)
LEMMA SettleOneKeeps ==
  ASSUME ContractInv, SettleOne
  PROVE  turn' \in [Turns -> TurnStates] /\ OverBefore'
<1>1. PICK t \in Turns, state \in Settled :
        turn[t] = "begun" /\ turn' = [turn EXCEPT ![t] = state]
  BY DEF SettleOne
<1>2. turn' \in [Turns -> TurnStates]
  BY <1>1 DEF ContractInv, ContractTypeOK, TurnStates, Settled
<1>3. \A u \in Turns : u # t => turn'[u] = turn[u]
  BY <1>1 DEF ContractInv, ContractTypeOK
<1>4. turn'[t] \in Settled
  BY <1>1 DEF ContractInv, ContractTypeOK
<1>5. ASSUME NEW r \in Turns, NEW u \in Turns, r < u, turn'[u] # "none"
      PROVE  turn'[r] \in Settled
  BY <1>1, <1>3, <1>4, <1>5 DEF ContractInv, OverBefore
<1> QED
  BY <1>2, <1>5 DEF OverBefore

(* startTurn needs the turns before it to be over, so those after it have not begun. *)
LEMMA BeginKeeps ==
  ASSUME TurnsAreOrdered, ContractInv, Begin
  PROVE  ContractInv'
<1>1. PICK t \in Turns :
        /\ turn[t] = "none"
        /\ \A s \in Turns : s < t => turn[s] \in Settled
        /\ turn' = [turn EXCEPT ![t] = "begun"]
  BY DEF Begin
<1>2. ContractTypeOK'
  BY <1>1 DEF Begin, ContractInv, ContractTypeOK, TurnStates
<1>3. ASSUME NEW r \in Turns, NEW u \in Turns, r < u, turn'[u] # "none"
      PROVE  turn'[r] \in Settled
  <2>1. CASE u = t
    BY <1>1, <1>3, <2>1 DEF TurnsAreOrdered, ContractInv, ContractTypeOK
  <2>2. CASE u # t
    <3>1. turn[u] # "none"
      BY <1>1, <1>3, <2>2 DEF ContractInv, ContractTypeOK
    <3>2. turn[r] \in Settled /\ r # t
      BY <1>1, <1>3, <3>1 DEF ContractInv, OverBefore, Settled
    <3> QED
      BY <1>1, <3>2 DEF ContractInv, ContractTypeOK
  <2> QED
    BY <2>1, <2>2
<1> QED
  BY <1>2, <1>3 DEF ContractInv, OverBefore

(* Every step keeps the order of turns. *)
LEMMA ContractStep ==
  ASSUME TurnsAreOrdered, ContractInv, [Next]_contractVars
  PROVE  ContractInv'
<1>1. CASE Begin
  BY <1>1, BeginKeeps
<1>2. CASE Settle
  BY <1>2, SettleOneKeeps DEF Settle, ContractInv, ContractTypeOK
<1>3. CASE Ask
  BY <1>3 DEF Ask, ContractInv, ContractTypeOK, OverBefore
<1>4. CASE Answer
  BY <1>4, SettleOneKeeps DEF Answer, ContractInv, ContractTypeOK, OverBefore
<1>5. CASE Report
  BY <1>5, SettleOneKeeps DEF Report, ContractInv, ContractTypeOK, OverBefore
<1>6. CASE UNCHANGED contractVars
  BY <1>6 DEF contractVars, ContractInv, ContractTypeOK, OverBefore
<1> QED
  BY <1>1, <1>2, <1>3, <1>4, <1>5, <1>6 DEF Next

(* contract.ts: the inductive invariant of the contract. *)
THEOREM ContractHolds ==
  ASSUME TurnsAreOrdered
  PROVE  Spec => []ContractInv
<1>1. Init => ContractInv
  BY ContractStart
<1>2. ContractInv /\ [Next]_contractVars => ContractInv'
  BY ContractStep
<1> QED
  BY <1>1, <1>2, PTL DEF Spec

(* contract.ts: the manager never sees two turns of one session open at a time. *)
THEOREM NeverTwoOpenTurns ==
  ASSUME TurnsAreOrdered
  PROVE  Spec => []OneOpenTurn
<1>1. ContractInv => OneOpenTurn
  BY DEF TurnsAreOrdered, ContractInv, OverBefore, OneOpenTurn, Settled
<1> QED
  BY <1>1, ContractHolds, PTL

(* contract.ts: each turn has one end; nothing reopens it or ends it a second time. *)
THEOREM OneEndPerTurn ==
  ASSUME TurnsAreOrdered
  PROVE  Spec => SettledForGood
<1>1. ContractInv /\ [Next]_contractVars
        => [\A t \in Turns : turn[t] \in Settled => turn'[t] = turn[t]]_contractVars
  <2>1. ASSUME ContractInv, SettleOne, NEW t \in Turns, turn[t] \in Settled
        PROVE  turn'[t] = turn[t]
    BY <2>1 DEF SettleOne, Settled, ContractInv, ContractTypeOK
  <2>2. ASSUME ContractInv, Begin, NEW t \in Turns, turn[t] \in Settled
        PROVE  turn'[t] = turn[t]
    BY <2>2 DEF Begin, Settled, ContractInv, ContractTypeOK
  <2> QED
    BY <2>1, <2>2 DEF Next, Settle, Ask, Answer, Report
<1> QED
  BY <1>1, ContractHolds, PTL DEF Spec, SettledForGood
=============================================================================
