------------------------- MODULE MCAdapters_proofs -------------------------
(***************************************************************************)
(* The adapters implement HarnessContract, for any number of turns, any    *)
(* approvals and any bounds: grok and the mock whatever the harness, the   *)
(* callers and the timers do, pi and omp when a prompt that times out is   *)
(* not run later and output is read before the end of its process is seen. *)
(* What they show is what happens, and no approval is out of reach.        *)
(***************************************************************************)
EXTENDS MCAdapters, TLAPS

Messages   == Request \cup [cmd : {"answer"}, perm : Perms] \cup [cmd : {"cancel"}]
Frames     == [type : {"response"}, id : Nat, ok : BOOLEAN] \cup [type : {"ask"}, perm : Perms]
                \cup [type : {"replay"}]
Settlement == [request : Request, ok : BOOLEAN]

PipesTypeOK ==
  /\ nextId \in Nat /\ pending \subseteq Request /\ settled \in Seq(Settlement)
  /\ sent \in Seq(Messages) /\ wire \in Seq(Frames)
  /\ running \in [id : Nat, turn : 0..MaxTurns]

(* Turns have begun in their order, and those after the counter have not. *)
TurnsCounted ==
  /\ harness \in {"grok", "mock"} /\ turnCounter \in 0..MaxTurns
  /\ permissions \subseteq Perms /\ reported \in BOOLEAN
  /\ turn \in [Turns -> {"none", "begun", "ended"}]
  /\ \A t \in Turns : turn[t] = "none" <=> t > turnCounter

(* A prompt that waits for its answer, or for what follows the answer, is for the open turn; and
   there is no other. *)
Prompts(requests) == {r \in requests : r.cmd = "prompt"}
IsPrompt(i)       == settled[i].request.cmd = "prompt"
OpenTurn(t)       == t \in Turns /\ turn[t] = "begun"

PromptIsOpen ==
  /\ \A r \in Prompts(pending) : OpenTurn(r.turn)
  /\ \A i \in 1..Len(settled) : IsPrompt(i) => OpenTurn(settled[i].request.turn)

OnePrompt ==
  /\ \A r, q \in Prompts(pending) : r = q
  /\ \A i, j \in 1..Len(settled) : IsPrompt(i) /\ IsPrompt(j) => i = j
  /\ \A i \in 1..Len(settled) : IsPrompt(i) => Prompts(pending) = {}

(* The mock has no transport, and its scenario is that of the active turn, which is open. *)
MockActive ==
  harness = "mock" =>
    /\ pending = {} /\ settled = <<>>
    /\ activeTurnId # 0 => OpenTurn(activeTurnId)
    /\ running # Idle => activeTurnId # 0 /\ running.turn = activeTurnId

AdapterInv == PipesTypeOK /\ TurnsCounted /\ PromptIsOpen /\ OnePrompt /\ MockActive

Others == harness \in {"grok", "mock"}

(* Nothing of pi and omp happens. *)
LEMMA JsonlIdle ==
  ASSUME Others
  PROVE  ~JsonlNext
  BY DEF Others, JsonlNext, Jsonl, JsonlOpens, JsonlContinues, JsonlTimesOut, JsonlExits,
         JsonlStartsTurn, OmpGates, OmpPolls, OmpPassesGate, JsonlInterrupts, JsonlSetsModel,
         PiResponds, JsonlCloses, JsonlRoutes, JsonlHarnessEnds, JsonlHarnessTakes

LEMMA AdaptersStart ==
  ASSUME Others, SessionInit
  PROVE  AdapterInv /\ Contract!Init
<1>1. MaxTurns \in Nat
  BY AdapterBounds
<1>2. PipesTypeOK
  BY <1>1 DEF SessionInit, PipesTypeOK, Idle
<1>3. TurnsCounted
  <2>1. permissions \subseteq Perms
    BY DEF SessionInit
  <2>2. turnCounter = 0 /\ turn = [t \in Turns |-> "none"] /\ harness \in {"grok", "mock"}
    BY DEF SessionInit, Others
  <2>3. reported \in BOOLEAN
    BY DEF SessionInit
  <2>4. turnCounter \in 0..MaxTurns /\ \A t \in Turns : turn[t] = "none" <=> t > turnCounter
    BY <1>1, <2>2 DEF Turns
  <2>5. turn \in [Turns -> {"none", "begun", "ended"}]
    BY <2>2
  <2> QED
    BY <2>1, <2>2, <2>3, <2>4, <2>5 DEF TurnsCounted
<1>4. PromptIsOpen /\ OnePrompt /\ MockActive
  BY DEF SessionInit, PromptIsOpen, OnePrompt, MockActive, Prompts, Idle
<1>5. Contract!Init
  BY DEF SessionInit, Contract!Init
<1> QED
  BY <1>2, <1>3, <1>4, <1>5 DEF AdapterInv

-----------------------------------------------------------------------------
(* What is written to the harness, and what a request adds. *)

LEMMA WrittenType ==
  ASSUME PipesTypeOK, NEW m \in Messages
  PROVE  Written(m) \in Seq(Messages)
  BY DEF PipesTypeOK, Written

LEMMA SendType ==
  ASSUME PipesTypeOK, NEW rest \in SUBSET pending, NEW cmd \in Commands, NEW t \in 0..MaxTurns,
         Send(rest, cmd, t)
  PROVE  /\ pending' \subseteq Request /\ nextId' \in Nat /\ sent' \in Seq(Messages)
         /\ cmd # "prompt" => Prompts(pending') \subseteq Prompts(rest)
<1> DEFINE request == [id |-> nextId, cmd |-> cmd, turn |-> t]
<1>1. request \in Request /\ request \in Messages
  BY DEF PipesTypeOK, Request, Messages
<1>2. pending' = rest \cup {request} /\ nextId' = nextId + 1 /\ sent' = Written(request)
  BY DEF Send
<1>3. sent' \in Seq(Messages)
  BY <1>1, <1>2, WrittenType
<1>4. cmd # "prompt" => Prompts(pending') \subseteq Prompts(rest)
  BY <1>2 DEF Prompts
<1>5. pending' \subseteq Request /\ nextId' \in Nat
  <2> HIDE DEF request
  <2> QED
    BY <1>1, <1>2 DEF PipesTypeOK
<1> QED
  BY <1>3, <1>4, <1>5

(* What follows an answer: the waiting prompts become no more, and the turn changes only for the
   answer to its prompt. *)
LEMMA AfterEffect ==
  ASSUME PipesTypeOK, NEW request \in Request, NEW ok \in BOOLEAN, NEW rest \in SUBSET pending,
         AcpAfter(request, ok, rest)
  PROVE  /\ pending' \subseteq Request /\ nextId' \in Nat /\ sent' \in Seq(Messages)
         /\ Prompts(pending') \subseteq Prompts(rest)
         /\ UNCHANGED <<harness, turnCounter, permissions>>
         /\ \/ turn' = turn
            \/ /\ request.cmd = "prompt" /\ turn' = [turn EXCEPT ![request.turn] = "ended"]
<1>0. 0 \in 0..MaxTurns
  BY AdapterBounds
<1>1. UNCHANGED <<harness, turnCounter, permissions>>
  BY DEF AcpAfter
<1>2. ASSUME SendNothing(rest) \/ SendNothing({})
      PROVE  /\ pending' \subseteq Request /\ nextId' \in Nat /\ sent' \in Seq(Messages)
             /\ Prompts(pending') \subseteq Prompts(rest)
  BY <1>2 DEF SendNothing, PipesTypeOK, Prompts
<1>3. CASE AfterInitialize(request, ok, rest)
  <2>1. PICK cmd \in {"load", "new"} : Send(rest, cmd, 0)
    BY <1>3 DEF AfterInitialize
  <2>2. cmd \in Commands /\ cmd # "prompt"
    BY DEF Commands
  <2>3. turn' = turn
    BY <1>3 DEF AfterInitialize
  <2> QED
    BY <1>0, <1>1, <2>1, <2>2, <2>3, SendType
<1>4. CASE AfterSession(request, ok, rest)
  <2>1. SendNothing(rest) \/ Send(rest, "set_model", 0)
    BY <1>4 DEF AfterSession
  <2>2. "set_model" \in Commands
    BY DEF Commands
  <2>3. turn' = turn
    BY <1>4 DEF AfterSession
  <2> QED
    BY <1>0, <1>1, <1>2, <2>1, <2>2, <2>3, SendType
<1>5. CASE AfterModel(request, ok, rest) \/ AfterFailure(request, ok, rest)
  BY <1>1, <1>2, <1>5 DEF AfterModel, AfterFailure
<1>6. CASE AfterTurn(request, ok, rest)
  BY <1>1, <1>2, <1>6 DEF AfterTurn
<1> QED
  BY <1>3, <1>4, <1>5, <1>6 DEF AcpAfter

-----------------------------------------------------------------------------
(* The two invariants of prompts, over the changes there are. *)

LEMMA FewerPrompts ==
  ASSUME PromptIsOpen, OnePrompt, turn' = turn, settled' = settled,
         Prompts(pending') \subseteq Prompts(pending)
  PROVE  PromptIsOpen' /\ OnePrompt'
<1>1. Prompts(pending)' = Prompts(pending')
  BY DEF Prompts
<1>2. \A i : IsPrompt(i)' <=> IsPrompt(i)
  BY DEF IsPrompt
<1>3. \A t : OpenTurn(t)' <=> OpenTurn(t)
  BY DEF OpenTurn
<1> QED
  BY <1>1, <1>2, <1>3 DEF PromptIsOpen, OnePrompt

(* The continuation runs: what is left is open, or there is nothing left. *)
LEMMA PromptContinues ==
  ASSUME PipesTypeOK, PromptIsOpen, OnePrompt, settled # <<>>, settled' = Tail(settled),
         Prompts(pending') \subseteq Prompts(pending), turn' = turn \/ IsPrompt(1)
  PROVE  PromptIsOpen' /\ OnePrompt'
<1>1. /\ Len(settled) \in Nat \ {0} /\ Len(settled') = Len(settled) - 1
      /\ \A i \in 1..Len(settled') : settled'[i] = settled[i + 1]
  BY DEF PipesTypeOK
<1>2. Prompts(pending)' = Prompts(pending')
  BY DEF Prompts
<1>3. \A i \in 1..Len(settled') : i + 1 \in 1..Len(settled) /\ (IsPrompt(i)' <=> IsPrompt(i + 1))
  BY <1>1 DEF IsPrompt
<1>4. CASE turn' = turn
  <2>1. \A t : OpenTurn(t)' <=> OpenTurn(t)
    BY <1>4 DEF OpenTurn
  <2>2. PromptIsOpen'
    BY <1>1, <1>2, <1>3, <2>1 DEF PromptIsOpen
  <2>3. OnePrompt'
    BY <1>1, <1>2, <1>3 DEF OnePrompt
  <2> QED
    BY <2>2, <2>3
<1>5. CASE IsPrompt(1)
  <2>1. 1 \in 1..Len(settled)
    BY <1>1
  <2>2. Prompts(pending') = {}
    BY <1>5, <2>1 DEF OnePrompt
  <2>3. \A i \in 1..Len(settled') : ~IsPrompt(i + 1)
    BY <1>1, <1>3, <1>5, <2>1 DEF OnePrompt
  <2>4. \A i \in 1..Len(settled') : ~IsPrompt(i)'
    BY <1>3, <2>3
  <2> QED
    BY <1>2, <2>2, <2>4 DEF PromptIsOpen, OnePrompt
<1> QED
  BY <1>4, <1>5

(* An answer arrives. *)
LEMMA PromptAnswered ==
  ASSUME PipesTypeOK, PromptIsOpen, OnePrompt, turn' = turn, NEW r \in pending, NEW ok \in BOOLEAN,
         pending' = pending \ {r}, settled' = Append(settled, [request |-> r, ok |-> ok])
  PROVE  PromptIsOpen' /\ OnePrompt'
<1>0. PICK n \in Nat : n = Len(settled)
  BY DEF PipesTypeOK
<1>1. /\ Len(settled') = n + 1 /\ settled'[n + 1].request = r
      /\ \A i \in 1..n : settled'[i] = settled[i]
  BY <1>0 DEF PipesTypeOK, Settlement
<1>2. \A i \in 1..n : IsPrompt(i)' <=> IsPrompt(i)
  BY <1>1 DEF IsPrompt
<1>3. IsPrompt(n + 1)' <=> r \in Prompts(pending)
  BY <1>1 DEF IsPrompt, Prompts
<1>4. Prompts(pending)' = Prompts(pending) \ {r}
  BY DEF Prompts
<1>5. \A t : OpenTurn(t)' <=> OpenTurn(t)
  BY DEF OpenTurn
<1>6. \A i \in 1..Len(settled') : i \in 1..n \/ i = n + 1
  BY <1>1
<1>7. PromptIsOpen'
  <2>1. \A i \in 1..n : IsPrompt(i)' => OpenTurn(settled[i].request.turn)'
    BY <1>0, <1>1, <1>2, <1>5 DEF PromptIsOpen
  <2>2. IsPrompt(n + 1)' => OpenTurn(settled[n + 1].request.turn)'
    BY <1>1, <1>3, <1>5 DEF PromptIsOpen
  <2> QED
    BY <1>4, <1>5, <1>6, <2>1, <2>2 DEF PromptIsOpen
<1>8. OnePrompt'
  <2>1. r \in Prompts(pending) => Prompts(pending)' = {} /\ \A i \in 1..n : ~IsPrompt(i)'
    BY <1>0, <1>2, <1>4 DEF OnePrompt
  <2>2. \A i, j \in 1..n : IsPrompt(i)' /\ IsPrompt(j)' => i = j
    BY <1>0, <1>2 DEF OnePrompt
  <2>3. \A i \in 1..n : IsPrompt(i)' => Prompts(pending)' = {}
    BY <1>0, <1>2, <1>4 DEF OnePrompt
  <2>4. \A a, b \in Prompts(pending)' : a = b
    BY <1>4 DEF OnePrompt
  <2> QED
    BY <1>3, <1>6, <2>1, <2>2, <2>3, <2>4 DEF OnePrompt
<1> QED
  BY <1>7, <1>8

-----------------------------------------------------------------------------
(* What the session manager and the session see of a step of the harness: nothing.  *)

Unseen == UNCHANGED <<harness, turnCounter, activeTurnId, permissions, reported, turn, pending, settled>>

LEMMA ResponseType ==
  ASSUME NEW id \in Nat, NEW ok \in BOOLEAN
  PROVE  Response(id, ok) \in Frames
  BY DEF Response, Frames

LEMMA WritesType ==
  ASSUME PipesTypeOK, NEW frame \in Frames, Writes(<<frame>>)
  PROVE  wire' \in Seq(Frames)
  BY DEF PipesTypeOK, Writes

LEMMA TakingType ==
  ASSUME PipesTypeOK, Taking
  PROVE  /\ sent' \in Seq(Messages) /\ Head(sent) \in Messages /\ harness # "mock"
         /\ Head(sent).cmd \in Commands =>
              Head(sent).id \in Nat /\ Head(sent).turn \in 0..MaxTurns
         /\ UNCHANGED <<harness, turnCounter, activeTurnId, permissions, reported, turn, pending,
                       settled, nextId>>
<1>1. sent \in Seq(Messages) /\ sent # <<>> /\ sent' = Tail(sent)
  BY DEF PipesTypeOK, Taking
<1>2. sent' \in Seq(Messages) /\ Head(sent) \in Messages
  BY <1>1
<1>3. ASSUME Head(sent).cmd \in Commands
      PROVE  Head(sent).id \in Nat /\ Head(sent).turn \in 0..MaxTurns
  BY <1>2, <1>3 DEF Messages, Request, Commands
<1>4. harness # "mock" /\ UNCHANGED <<harness, turnCounter, activeTurnId, permissions, reported, turn,
                                     pending, settled, nextId>>
  BY DEF Taking, Room, object, transport, seen
<1> QED
  BY <1>2, <1>3, <1>4

LEMMA HarnessUnseen ==
  ASSUME PipesTypeOK, HarnessSteps \/ AcpHarnessEnds \/ AcpHarnessTakes
  PROVE  PipesTypeOK' /\ Unseen /\ harness # "mock"
<1> USE DEF Unseen
<1>1. CASE HarnessAsks
  <2>1. PICK p \in Perms : Writes(<<UiRequest(p)>>)
    BY <1>1 DEF HarnessAsks
  <2>2. wire' \in Seq(Frames)
    BY <2>1, WritesType DEF UiRequest, Frames
  <2>3. Unseen /\ harness # "mock" /\ UNCHANGED <<nextId, sent, running>>
    BY <1>1 DEF HarnessAsks, Works, Room, object, transport, seen
  <2> QED
    BY <2>2, <2>3 DEF PipesTypeOK
<1>2. CASE HarnessReplays
  <2>1. wire' \in Seq(Frames)
    BY <1>2, WritesType DEF HarnessReplays, Replay, Frames
  <2>2. Unseen /\ harness # "mock" /\ UNCHANGED <<nextId, sent, running>>
    BY <1>2 DEF HarnessReplays, Room, object, transport, inside, seen
  <2> QED
    BY <2>1, <2>2 DEF PipesTypeOK
<1>3. CASE HarnessTakesAnswer
  <2>1. Taking /\ UNCHANGED <<wire, running>>
    BY <1>3 DEF HarnessTakesAnswer
  <2> QED
    BY <2>1, TakingType DEF PipesTypeOK
<1>4. CASE HarnessTakesRequest
  <2>1. Taking /\ UNCHANGED running
    BY <1>4 DEF HarnessTakesRequest, inside
  <2>2. PICK ok \in BOOLEAN : Writes(<<Response(Head(sent).id, ok)>>)
    BY <1>4 DEF HarnessTakesRequest
  <2>3. Head(sent).cmd \in Commands
    BY <1>4 DEF HarnessTakesRequest, Opening, Commands
  <2>4. wire' \in Seq(Frames)
    BY <2>1, <2>2, <2>3, TakingType, ResponseType, WritesType
  <2> QED
    BY <2>1, <2>4, TakingType DEF PipesTypeOK
<1>5. CASE AcpHarnessEnds
  <2>1. PICK ok \in BOOLEAN : Writes(<<Response(running.id, ok)>>)
    BY <1>5 DEF AcpHarnessEnds
  <2>2. running.id \in Nat
    BY DEF PipesTypeOK
  <2>3. wire' \in Seq(Frames)
    BY <2>1, <2>2, ResponseType, WritesType
  <2>4. Unseen /\ harness # "mock" /\ UNCHANGED <<nextId, sent>> /\ running' = Idle
    BY <1>5 DEF AcpHarnessEnds, Works, Room, object, transport, seen
  <2>5. Idle \in [id : Nat, turn : 0..MaxTurns]
    BY AdapterBounds DEF Idle
  <2> QED
    BY <2>3, <2>4, <2>5 DEF PipesTypeOK
<1>6. CASE AcpHarnessTakes
  <2>1. Taking
    BY <1>6 DEF AcpHarnessTakes
  <2>2. Idle \in [id : Nat, turn : 0..MaxTurns]
    BY AdapterBounds DEF Idle
  <2>3. "prompt" \in Commands
    BY DEF Commands
  <2>4. wire' \in Seq(Frames) /\ running' \in [id : Nat, turn : 0..MaxTurns]
    <3>1. CASE Head(sent).cmd = "prompt" /\ UNCHANGED wire
               /\ running' = [id |-> Head(sent).id, turn |-> Head(sent).turn]
      BY <2>1, <2>3, <3>1, TakingType DEF PipesTypeOK
    <3>2. CASE Head(sent).cmd = "prompt" /\ Writes(<<Response(Head(sent).id, FALSE)>>)
               /\ UNCHANGED running
      BY <2>1, <2>3, <3>2, TakingType, ResponseType, WritesType DEF PipesTypeOK
    <3>3. CASE Writes(<<Response(running.id, TRUE)>>) /\ running' = Idle
      <4>1. running.id \in Nat
        BY DEF PipesTypeOK
      <4> QED
        BY <2>2, <3>3, <4>1, ResponseType, WritesType
    <3>4. CASE UNCHANGED <<wire, running>>
      BY <3>4 DEF PipesTypeOK
    <3> QED
      BY <1>6, <3>1, <3>2, <3>3, <3>4 DEF AcpHarnessTakes, inside
  <2> QED
    BY <2>1, <2>4, TakingType DEF PipesTypeOK
<1> QED
  BY <1>1, <1>2, <1>3, <1>4, <1>5, <1>6 DEF HarnessSteps

-----------------------------------------------------------------------------
(* The steps of the session for grok.  Each keeps the invariant and maps to a step of the contract
   or to none. *)

Implemented == AdapterInv' /\ [Contract!Next]_(Contract!contractVars)

LEMMA UnseenKeeps ==
  ASSUME AdapterInv, PipesTypeOK', Unseen, harness # "mock"
  PROVE  Implemented
<1>1. TurnsCounted' /\ MockActive'
  BY DEF Unseen, AdapterInv, TurnsCounted, MockActive
<1>2. PromptIsOpen' /\ OnePrompt'
  BY FewerPrompts DEF Unseen, AdapterInv, Prompts
<1>3. UNCHANGED Contract!contractVars
  BY DEF Unseen, Contract!contractVars
<1> QED
  BY <1>1, <1>2, <1>3 DEF Implemented, AdapterInv

(* A turn that was open has ended. *)
LEMMA TurnEnds ==
  ASSUME TurnsCounted, NEW t, OpenTurn(t), turn' = [turn EXCEPT ![t] = "ended"],
         UNCHANGED <<harness, turnCounter, permissions>>, reported' \in BOOLEAN
  PROVE  TurnsCounted' /\ Contract!SettleOne
<1>1. t \in Turns /\ turn[t] = "begun"
  BY DEF OpenTurn
<1>2. TurnsCounted'
  BY <1>1 DEF TurnsCounted
<1>3. Contract!SettleOne
  BY <1>1 DEF Contract!SettleOne, Contract!Settled
<1> QED
  BY <1>2, <1>3

(* A turn begins: all before it are over, and no prompt waits. *)
LEMMA TurnBegins ==
  ASSUME TurnsCounted, PromptIsOpen, MayStart, NEW t, t = turnCounter + 1,
         turnCounter' = t, turn' = [turn EXCEPT ![t] = "begun"],
         UNCHANGED <<harness, permissions, reported>>
  PROVE  /\ t \in Turns /\ TurnsCounted' /\ Contract!Begin /\ OpenTurn(t)'
         /\ Prompts(pending) = {} /\ settled = <<>>
<1>1. t \in Turns /\ turnCounter \in Nat /\ MaxTurns \in Nat
  BY AdapterBounds DEF MayStart, TurnsCounted, Turns
<1>2. turn[t] = "none" /\ \A s \in Turns : s < t => turn[s] = "ended"
  BY <1>1 DEF MayStart, TurnsCounted, Turns
<1>3. OpenTurn(t)'
  BY <1>1 DEF OpenTurn, TurnsCounted
<1>4. TurnsCounted'
  <2>1. turn' \in [Turns -> {"none", "begun", "ended"}]
    BY <1>1 DEF TurnsCounted
  <2>2. turnCounter' \in 0..MaxTurns
    BY <1>1 DEF Turns
  <2>3. \A s \in Turns : turn'[s] = "none" <=> s > turnCounter'
    BY <1>1 DEF TurnsCounted, Turns
  <2> QED
    BY <2>1, <2>2, <2>3 DEF TurnsCounted
<1>5. Contract!Begin
  BY <1>1, <1>2 DEF Contract!Begin, Contract!Settled
<1>6. Prompts(pending) = {}
  BY DEF MayStart, PromptIsOpen, OpenTurn
<1>7. settled = <<>>
  BY DEF MayStart, Quiet
<1> QED
  BY <1>1, <1>3, <1>4, <1>5, <1>6, <1>7

LEMMA GrokTraffic ==
  ASSUME AdapterInv, AcpOpens \/ AcpInterrupts \/ AcpSetsModel \/ AcpCloses
  PROVE  Implemented
<1>0. 0 \in 0..MaxTurns /\ pending \in SUBSET pending
  BY AdapterBounds
<1>1. /\ pending' \subseteq Request /\ nextId' \in Nat /\ sent' \in Seq(Messages)
      /\ Prompts(pending') \subseteq Prompts(pending)
  <2>1. CASE AcpOpens
    <3>1. Send(pending, "initialize", 0) /\ "initialize" \in Commands
      BY <2>1 DEF AcpOpens, Commands
    <3> QED
      BY <1>0, <3>1, SendType DEF AdapterInv
  <2>2. CASE AcpInterrupts
    <3>1. [cmd |-> "cancel"] \in Messages
      BY DEF Messages
    <3>2. sent' = Written([cmd |-> "cancel"]) /\ UNCHANGED <<pending, nextId>>
      BY <2>2 DEF AcpInterrupts, transport
    <3> QED
      BY <3>1, <3>2, WrittenType DEF AdapterInv, PipesTypeOK, Prompts
  <2>3. CASE AcpSetsModel
    <3>1. Send(pending, "set_model", 0) /\ "set_model" \in Commands
      BY <2>3 DEF AcpSetsModel, SetModel, Commands
    <3> QED
      BY <1>0, <3>1, SendType DEF AdapterInv
  <2>4. CASE AcpCloses
    BY <2>4 DEF AcpCloses, process, AdapterInv, PipesTypeOK, Prompts
  <2> QED
    BY <2>1, <2>2, <2>3, <2>4
<1>2. UNCHANGED <<harness, turnCounter, permissions, reported, turn, settled, wire, running>>
  BY DEF AcpOpens, AcpInterrupts, AcpSetsModel, SetModel, AcpCloses, object, transport, process,
         inside, seen
<1>3. harness = "grok"
  BY DEF AcpOpens, AcpInterrupts, AcpSetsModel, AcpCloses, Acp
<1>4. PipesTypeOK'
  BY <1>1, <1>2 DEF AdapterInv, PipesTypeOK
<1>5. TurnsCounted'
  BY <1>2 DEF AdapterInv, TurnsCounted
<1>6. PromptIsOpen' /\ OnePrompt'
  BY <1>1, <1>2, FewerPrompts DEF AdapterInv
<1>7. MockActive'
  BY <1>2, <1>3 DEF MockActive
<1>8. UNCHANGED Contract!contractVars
  BY <1>2 DEF Contract!contractVars
<1> QED
  BY <1>4, <1>5, <1>6, <1>7, <1>8 DEF Implemented, AdapterInv

LEMMA ReportedOnce ==
  ASSUME TurnsCounted, reported' \in BOOLEAN, reported => reported', reported' # reported
  PROVE  ~reported /\ reported' = TRUE
<1>1. reported \in BOOLEAN
  BY DEF TurnsCounted
<1>2. (reported = TRUE \/ reported = FALSE) /\ (reported' = TRUE \/ reported' = FALSE)
  BY <1>1
<1>3. CASE reported = TRUE
  BY <1>2, <1>3
<1>4. CASE reported = FALSE
  BY <1>2, <1>4
<1> QED
  BY <1>2, <1>3, <1>4

(* A continuation, a timer or the end of the process: what follows an answer. *)
LEMMA GrokAfter ==
  ASSUME AdapterInv, harness = "grok", NEW request \in Request, NEW ok \in BOOLEAN,
         NEW rest \in SUBSET pending, AcpAfter(request, ok, rest), UNCHANGED <<wire, running>>,
         settled' \in Seq(Settlement), PromptIsOpen' /\ OnePrompt',
         request.cmd = "prompt" => OpenTurn(request.turn),
         reported' \in BOOLEAN, reported => reported'
  PROVE  Implemented
<1>0. PipesTypeOK /\ TurnsCounted
  BY DEF AdapterInv
<1>1. /\ pending' \subseteq Request /\ nextId' \in Nat /\ sent' \in Seq(Messages)
      /\ UNCHANGED <<harness, turnCounter, permissions>>
  BY <1>0, AfterEffect
<1>2. turn' = turn \/ (request.cmd = "prompt" /\ turn' = [turn EXCEPT ![request.turn] = "ended"])
  BY <1>0, AfterEffect
<1>3. PipesTypeOK'
  BY <1>0, <1>1 DEF PipesTypeOK
<1>4. MockActive'
  BY <1>1 DEF MockActive
<1>5. TurnsCounted' /\ (turn' = turn \/ Contract!SettleOne)
  <2>1. CASE turn' = turn
    BY <1>0, <1>1, <2>1 DEF TurnsCounted
  <2>2. CASE request.cmd = "prompt" /\ turn' = [turn EXCEPT ![request.turn] = "ended"]
    BY <1>0, <1>1, <2>2, TurnEnds
  <2> QED
    BY <1>2, <2>1, <2>2
<1>6. [Contract!Next]_(Contract!contractVars)
  <2>1. CASE reported' = reported
    BY <1>1, <1>5, <2>1 DEF Contract!Next, Contract!Settle, Contract!contractVars
  <2>2. CASE reported' # reported
    <3>1. ~reported /\ reported' = TRUE
      BY <1>0, <2>2, ReportedOnce
    <3> QED
      BY <1>1, <1>5, <3>1 DEF Contract!Next, Contract!Report
  <2> QED
    BY <2>1, <2>2
<1> QED
  BY <1>3, <1>4, <1>5, <1>6 DEF Implemented, AdapterInv

LEMMA GrokContinues ==
  ASSUME AdapterInv, AcpContinues
  PROVE  Implemented
<1> DEFINE request == Head(settled).request
           ok      == Head(settled).ok
<1>1. /\ settled \in Seq(Settlement) /\ settled # <<>> /\ settled' = Tail(settled)
      /\ Head(settled) = settled[1] /\ 1 \in 1..Len(settled)
  BY DEF AdapterInv, PipesTypeOK, AcpContinues, Quiet
<1>2. request \in Request /\ ok \in BOOLEAN /\ settled' \in Seq(Settlement)
  <2>1. Head(settled) \in Settlement /\ Tail(settled) \in Seq(Settlement)
    BY <1>1
  <2> QED
    BY <1>1, <2>1 DEF Settlement
<1>3. AcpAfter(request, ok, pending) /\ UNCHANGED <<wire, running, reported>> /\ harness = "grok"
  BY DEF AcpContinues, inside, Acp
<1>4. request.cmd = "prompt" => IsPrompt(1) /\ OpenTurn(request.turn)
  BY <1>1 DEF AdapterInv, PromptIsOpen, IsPrompt
<1> HIDE DEF request, ok
<1>5. Prompts(pending') \subseteq Prompts(pending) /\ (turn' = turn \/ IsPrompt(1))
  BY <1>2, <1>3, <1>4, AfterEffect DEF AdapterInv
<1>6. PromptIsOpen' /\ OnePrompt'
  BY <1>1, <1>5, PromptContinues DEF AdapterInv
<1>7. reported' \in BOOLEAN /\ (reported => reported')
  BY <1>3 DEF AdapterInv, TurnsCounted
<1> QED
  BY <1>2, <1>3, <1>4, <1>6, <1>7, GrokAfter

LEMMA GrokTimesOut ==
  ASSUME AdapterInv, AcpTimesOut
  PROVE  Implemented
<1>1. PICK request \in pending :
        request.cmd # "prompt" /\ AcpAfter(request, FALSE, pending \ {request})
  BY DEF AcpTimesOut
<1>2. request \in Request /\ pending \ {request} \in SUBSET pending /\ FALSE \in BOOLEAN
  BY DEF AdapterInv, PipesTypeOK
<1>3. UNCHANGED <<settled, wire, running, reported>> /\ harness = "grok"
  BY DEF AcpTimesOut, inside, Acp
<1>4. Prompts(pending') \subseteq Prompts(pending \ {request}) /\ turn' = turn
  BY <1>1, <1>2, AfterEffect DEF AdapterInv
<1>5. PromptIsOpen' /\ OnePrompt'
  BY <1>3, <1>4, FewerPrompts DEF AdapterInv, Prompts
<1>6. settled' \in Seq(Settlement) /\ reported' \in BOOLEAN /\ (reported => reported')
  BY <1>3 DEF AdapterInv, PipesTypeOK, TurnsCounted
<1> QED
  BY <1>1, <1>2, <1>3, <1>5, <1>6, GrokAfter

(* All that waited is rejected; of the continuations one at most does anything. *)
LEMMA GrokExits ==
  ASSUME AdapterInv, AcpExits
  PROVE  Implemented
<1>1. UNCHANGED <<settled, wire, running>> /\ harness = "grok" /\ settled = <<>>
  BY DEF AcpExits, inside, Acp, Quiet
<1>2. reported' \in BOOLEAN /\ (reported => reported')
  <2>1. reported' = (reported \/ (Subscribed /\ ~closed))
    BY DEF AcpExits
  <2> QED
    BY <2>1, Zenon
<1>3. PipesTypeOK /\ TurnsCounted /\ settled' \in Seq(Settlement)
  BY <1>1 DEF AdapterInv, PipesTypeOK
<1>4. ASSUME Prompts(pending') = {}
      PROVE  PromptIsOpen' /\ OnePrompt'
  <2>1. Prompts(pending)' = {} /\ settled' = <<>>
    BY <1>1, <1>4 DEF Prompts
  <2>2. 1..Len(settled') = {}
    BY <2>1
  <2> QED
    BY <2>1, <2>2 DEF PromptIsOpen, OnePrompt
<1>5. ASSUME NEW request \in pending, AcpAfter(request, FALSE, {})
      PROVE  Implemented
  <2>1. request \in Request /\ {} \in SUBSET pending /\ FALSE \in BOOLEAN
    BY <1>3 DEF PipesTypeOK
  <2>2. Prompts(pending') \subseteq Prompts({})
    BY <1>3, <1>5, <2>1, AfterEffect
  <2>3. PromptIsOpen' /\ OnePrompt'
    BY <1>4, <2>2 DEF Prompts
  <2>4. request.cmd = "prompt" => OpenTurn(request.turn)
    BY DEF AdapterInv, PromptIsOpen, Prompts
  <2> QED
    BY <1>1, <1>2, <1>3, <1>5, <2>1, <2>3, <2>4, GrokAfter
<1>6. ASSUME SendNothing({}), UNCHANGED <<object, closed, turn, ends, replayed>>
      PROVE  Implemented
  <2>1. pending' = {} /\ UNCHANGED <<nextId, sent, harness, turnCounter, permissions, turn>>
    BY <1>6 DEF SendNothing, object
  <2>2. PromptIsOpen' /\ OnePrompt'
    BY <1>4, <2>1 DEF Prompts
  <2>3. PipesTypeOK' /\ MockActive'
    BY <1>1, <1>3, <2>1 DEF PipesTypeOK, MockActive
  <2>4. TurnsCounted'
    BY <1>2, <1>3, <2>1 DEF TurnsCounted
  <2>5. [Contract!Next]_(Contract!contractVars)
    <3>1. CASE reported' = reported
      BY <2>1, <3>1 DEF Contract!contractVars
    <3>2. CASE reported' # reported
      <4>1. ~reported /\ reported' = TRUE
        BY <1>2, <1>3, <3>2, ReportedOnce
      <4> QED
        BY <2>1, <4>1 DEF Contract!Next, Contract!Report
    <3> QED
      BY <3>1, <3>2
  <2> QED
    BY <2>2, <2>3, <2>4, <2>5 DEF Implemented, AdapterInv
<1> QED
  BY <1>5, <1>6 DEF AcpExits

LEMMA GrokStartsTurn ==
  ASSUME AdapterInv, AcpStartsTurn
  PROVE  Implemented
<1> DEFINE t == turnCounter + 1
<1>1. /\ MayStart /\ turnCounter' = t /\ turn' = [turn EXCEPT ![t] = "begun"]
      /\ Send(pending, "prompt", t) /\ harness = "grok"
      /\ UNCHANGED <<harness, permissions, reported, settled, wire, running>>
  BY DEF AcpStartsTurn, inside, Acp
<1>2. /\ t \in Turns /\ TurnsCounted' /\ Contract!Begin /\ OpenTurn(turnCounter)'
      /\ Prompts(pending) = {} /\ settled = <<>>
  BY <1>1, TurnBegins DEF AdapterInv, OpenTurn
<1>3. t \in 0..MaxTurns /\ "prompt" \in Commands /\ pending \in SUBSET pending
  BY <1>2, AdapterBounds DEF Turns, Commands
<1>4. pending' \subseteq Request /\ nextId' \in Nat /\ sent' \in Seq(Messages)
  BY <1>1, <1>3, SendType DEF AdapterInv
<1>5. PipesTypeOK'
  BY <1>1, <1>4 DEF AdapterInv, PipesTypeOK
<1>6. Prompts(pending)' = {[id |-> nextId, cmd |-> "prompt", turn |-> t]}
  BY <1>1, <1>2 DEF Prompts, Send
<1>7. settled' = <<>> /\ 1..Len(settled') = {}
  BY <1>1, <1>2
<1>8. PromptIsOpen' /\ OnePrompt'
  BY <1>1, <1>2, <1>6, <1>7 DEF PromptIsOpen, OnePrompt, OpenTurn
<1>9. MockActive' /\ Contract!Next
  BY <1>1, <1>2 DEF MockActive, Contract!Next
<1> QED
  BY <1>2, <1>5, <1>8, <1>9 DEF Implemented, AdapterInv

LEMMA GrokResponds ==
  ASSUME AdapterInv, AcpResponds
  PROVE  Implemented
<1>1. PICK p \in permissions : permissions' = permissions \ {p} /\ sent' = Written(Answer(p))
  BY DEF AcpResponds
<1>2. /\ UNCHANGED <<harness, turnCounter, pending, nextId, settled, wire, running, turn, reported>>
      /\ harness = "grok"
  BY DEF AcpResponds, transport, inside, seen, Acp
<1>3. Answer(p) \in Messages
  BY <1>1 DEF Answer, Messages, AdapterInv, TurnsCounted
<1>4. PipesTypeOK'
  BY <1>1, <1>2, <1>3, WrittenType DEF AdapterInv, PipesTypeOK
<1>5. TurnsCounted' /\ MockActive'
  BY <1>1, <1>2 DEF AdapterInv, TurnsCounted, MockActive
<1>6. PromptIsOpen' /\ OnePrompt'
  BY <1>2, FewerPrompts DEF AdapterInv, Prompts
<1>7. Contract!Next
  BY <1>1, <1>2 DEF Contract!Next, Contract!Answer
<1> QED
  BY <1>4, <1>5, <1>6, <1>7 DEF Implemented, AdapterInv

LEMMA GrokRoutes ==
  ASSUME AdapterInv, AcpRoutes
  PROVE  Implemented
<1> DEFINE frame == Head(wire)
<1>1. frame \in Frames /\ wire' \in Seq(Frames)
  BY DEF AdapterInv, PipesTypeOK, AcpRoutes
<1>2. /\ UNCHANGED <<harness, turnCounter, nextId, sent, running, turn, reported>>
      /\ harness = "grok"
  BY DEF AcpRoutes, RouteResponse, EmitReplay, transport, inside, seen, Acp
<1>3. MockActive'
  BY <1>2 DEF MockActive
<1>4. CASE UNCHANGED <<pending, settled, permissions>>
  <2>1. PipesTypeOK' /\ TurnsCounted'
    BY <1>1, <1>2, <1>4 DEF AdapterInv, PipesTypeOK, TurnsCounted
  <2>2. PromptIsOpen' /\ OnePrompt'
    BY <1>2, <1>4, FewerPrompts DEF AdapterInv, Prompts
  <2>3. UNCHANGED Contract!contractVars
    BY <1>2, <1>4 DEF Contract!contractVars
  <2> QED
    BY <1>3, <2>1, <2>2, <2>3 DEF Implemented, AdapterInv
<1>5. ASSUME frame.type = "response", NEW r \in pending, pending' = pending \ {r},
             settled' = Append(settled, [request |-> r, ok |-> frame.ok]), UNCHANGED permissions
      PROVE  Implemented
  <2>1. PICK ok \in BOOLEAN : ok = frame.ok
    BY <1>1, <1>5 DEF Frames
  <2>2. [request |-> r, ok |-> ok] \in Settlement
    BY DEF AdapterInv, PipesTypeOK, Settlement
  <2>3. PipesTypeOK'
    BY <1>1, <1>2, <1>5, <2>1, <2>2 DEF AdapterInv, PipesTypeOK
  <2>4. PromptIsOpen' /\ OnePrompt'
    BY <1>2, <1>5, <2>1, PromptAnswered DEF AdapterInv
  <2>5. TurnsCounted'
    BY <1>2, <1>5 DEF AdapterInv, TurnsCounted
  <2>6. UNCHANGED Contract!contractVars
    BY <1>2, <1>5 DEF Contract!contractVars
  <2> QED
    BY <1>3, <2>3, <2>4, <2>5, <2>6 DEF Implemented, AdapterInv
<1>6. ASSUME frame.type = "ask", permissions' = Kept(frame.perm), UNCHANGED <<pending, settled>>
      PROVE  Implemented
  <2>1. PICK p \in Perms : permissions' = permissions \cup {p}
    BY <1>1, <1>6 DEF Frames, Kept
  <2>2. PipesTypeOK' /\ TurnsCounted'
    BY <1>1, <1>2, <1>6, <2>1 DEF AdapterInv, PipesTypeOK, TurnsCounted
  <2>3. PromptIsOpen' /\ OnePrompt'
    BY <1>2, <1>6, FewerPrompts DEF AdapterInv, Prompts
  <2>4. [Contract!Next]_(Contract!contractVars)
    <3>1. CASE p \in permissions
      BY <1>2, <2>1, <3>1 DEF Contract!contractVars
    <3>2. CASE p \notin permissions
      BY <1>2, <2>1, <3>2 DEF Contract!Next, Contract!Ask
    <3> QED
      BY <3>1, <3>2
  <2> QED
    BY <1>3, <2>2, <2>3, <2>4 DEF Implemented, AdapterInv
<1> QED
  BY <1>4, <1>5, <1>6 DEF AcpRoutes, RouteResponse, EmitReplay, Answered, transport

-----------------------------------------------------------------------------
(* The steps of the mock, which has no transport. *)

LEMMA MockKeeps ==
  ASSUME AdapterInv, harness = "mock", MockFrame,
         running' \in [id : Nat, turn : 0..MaxTurns], TurnsCounted',
         activeTurnId' # 0 => OpenTurn(activeTurnId)',
         running' # Idle => activeTurnId' # 0 /\ running'.turn = activeTurnId',
         [Contract!Next]_(Contract!contractVars)
  PROVE  Implemented
<1>1. UNCHANGED <<harness, pending, nextId, settled, sent, wire>> /\ pending = {} /\ settled = <<>>
  BY DEF MockFrame, process, AdapterInv, MockActive
<1>2. PipesTypeOK'
  BY <1>1 DEF AdapterInv, PipesTypeOK
<1>3. MockActive'
  BY <1>1 DEF MockActive, OpenTurn, Idle
<1>4. Prompts(pending)' = {} /\ settled' = <<>>
  BY <1>1 DEF Prompts
<1>5. 1..Len(settled') = {}
  BY <1>4
<1>6. PromptIsOpen' /\ OnePrompt'
  BY <1>4, <1>5 DEF PromptIsOpen, OnePrompt
<1> QED
  BY <1>2, <1>3, <1>6 DEF Implemented, AdapterInv

LEMMA MockSteps ==
  ASSUME AdapterInv, MockNext
  PROVE  Implemented
<1>0. /\ TurnsCounted /\ running \in [id : Nat, turn : 0..MaxTurns]
      /\ Idle \in [id : Nat, turn : 0..MaxTurns]
  BY AdapterBounds DEF AdapterInv, PipesTypeOK, Idle
<1>1. harness = "mock" /\ MockFrame
  BY DEF MockNext, MockOpens, MockStartsTurn, MockScenario, MockInterrupts, MockResponds,
         MockCloses, Mock
<1>2. /\ activeTurnId # 0 => OpenTurn(activeTurnId)
      /\ running # Idle => activeTurnId # 0 /\ running.turn = activeTurnId
  BY <1>1 DEF AdapterInv, MockActive
<1>3. UNCHANGED <<harness, reported>>
  BY <1>1 DEF MockFrame
<1>4. CASE MockOpens
  <2>1. UNCHANGED <<turnCounter, activeTurnId, permissions, running, turn>>
    BY <1>4 DEF MockOpens
  <2>2. TurnsCounted'
    BY <1>0, <1>3, <2>1 DEF TurnsCounted
  <2>3. UNCHANGED Contract!contractVars
    BY <1>3, <2>1 DEF Contract!contractVars
  <2> QED
    BY <1>0, <1>1, <1>2, <2>1, <2>2, <2>3, MockKeeps DEF OpenTurn
<1>5. CASE MockStartsTurn
  <2> DEFINE t == turnCounter + 1
  <2>1. /\ MayStart /\ turnCounter' = t /\ activeTurnId' = t /\ UNCHANGED permissions
        /\ running' = [id |-> 0, turn |-> t] /\ turn' = [turn EXCEPT ![t] = "begun"]
    BY <1>5 DEF MockStartsTurn
  <2>2. t \in Turns /\ TurnsCounted' /\ Contract!Begin /\ OpenTurn(turnCounter)'
    BY <1>0, <1>3, <2>1, TurnBegins DEF AdapterInv, OpenTurn
  <2>3. running' \in [id : Nat, turn : 0..MaxTurns]
    BY <2>1, <2>2, AdapterBounds DEF Turns
  <2>4. OpenTurn(activeTurnId)'
    BY <2>1, <2>2 DEF OpenTurn
  <2>5. running' # Idle => activeTurnId' # 0 /\ running'.turn = activeTurnId'
    BY <2>1, <2>2, AdapterBounds DEF Turns
  <2> QED
    BY <1>1, <2>2, <2>3, <2>4, <2>5, MockKeeps DEF Contract!Next
<1>6. ASSUME NEW t, OpenTurn(t), MockEnds(t), UNCHANGED turnCounter, running' = Idle,
             permissions' \subseteq permissions,
             permissions' # permissions => \E p \in permissions : permissions' = permissions \ {p}
      PROVE  Implemented
  <2>1. turn' = [turn EXCEPT ![t] = "ended"] /\ activeTurnId' = 0
    BY <1>6 DEF MockEnds
  <2>2. TurnsCounted' /\ Contract!SettleOne
    <3>1. t \in Turns /\ turn[t] = "begun"
      BY <1>6 DEF OpenTurn
    <3>2. TurnsCounted'
      BY <1>0, <1>3, <1>6, <2>1, <3>1 DEF TurnsCounted
    <3>3. Contract!SettleOne
      BY <2>1, <3>1 DEF Contract!SettleOne, Contract!Settled
    <3> QED
      BY <3>2, <3>3
  <2>3. Contract!Next
    BY <1>3, <1>6, <2>2 DEF Contract!Next, Contract!Settle, Contract!Answer
  <2> QED
    BY <1>0, <1>1, <1>6, <2>1, <2>2, <2>3, MockKeeps
<1>7. ASSUME UNCHANGED <<turnCounter, turn, activeTurnId>>, running' = Idle,
             permissions' = permissions
               \/ (\E p \in permissions : permissions' = permissions \ {p})
               \/ (\E p \in Perms : permissions' = permissions \cup {p})
      PROVE  Implemented
  <2>1. TurnsCounted'
    BY <1>0, <1>3, <1>7 DEF TurnsCounted
  <2>2. OpenTurn(activeTurnId)' <=> OpenTurn(activeTurnId)
    BY <1>7 DEF OpenTurn
  <2>3. [Contract!Next]_(Contract!contractVars)
    BY <1>3, <1>7 DEF Contract!Next, Contract!Answer, Contract!Ask, Contract!contractVars
  <2> QED
    BY <1>0, <1>1, <1>2, <1>7, <2>1, <2>2, <2>3, MockKeeps
<1>8. CASE MockScenario
  BY <1>2, <1>6, <1>7, <1>8 DEF MockScenario
<1>9. CASE MockInterrupts
  BY <1>2, <1>6, <1>9 DEF MockInterrupts
<1>10. CASE MockResponds
  <2>1. running = Idle /\ running' = Idle /\ UNCHANGED turnCounter
    BY <1>10 DEF MockResponds
  <2>2. PICK p \in permissions :
          /\ permissions' = permissions \ {p}
          /\ (activeTurnId = p /\ MockEnds(p)) \/ UNCHANGED <<activeTurnId, turn>>
    BY <1>10 DEF MockResponds
  <2>3. CASE activeTurnId = p /\ MockEnds(p) /\ OpenTurn(p)
    BY <1>6, <2>1, <2>2, <2>3
  <2>4. CASE UNCHANGED <<activeTurnId, turn>>
    BY <1>7, <2>1, <2>2, <2>4
  <2>5. CASE activeTurnId = p /\ MockEnds(p) /\ ~OpenTurn(p)
    <3>1. p = 0 /\ 0 \notin Turns
      BY <1>2, <2>5 DEF Turns
    <3>2. turn' = [turn EXCEPT ![0] = "ended"] /\ activeTurnId' = activeTurnId
      BY <2>5, <3>1 DEF MockEnds
    <3>3. turn' = turn
      BY <1>0, <3>1, <3>2 DEF TurnsCounted
    <3> QED
      BY <2>4, <3>2, <3>3
  <2> QED
    BY <2>2, <2>3, <2>4, <2>5
<1>11. CASE MockCloses
  <2>1. /\ UNCHANGED <<turnCounter, permissions, turn>> /\ activeTurnId' = 0
        /\ running' = running /\ running = Idle
    BY <1>11 DEF MockCloses
  <2>2. TurnsCounted'
    BY <1>0, <1>3, <2>1 DEF TurnsCounted
  <2>3. UNCHANGED Contract!contractVars
    BY <1>3, <2>1 DEF Contract!contractVars
  <2> QED
    BY <1>0, <1>1, <2>1, <2>2, <2>3, MockKeeps
<1> QED
  BY <1>4, <1>5, <1>8, <1>9, <1>10, <1>11 DEF MockNext

-----------------------------------------------------------------------------
LEMMA AdaptersStep ==
  ASSUME AdapterInv, [Next]_adapterVars
  PROVE  Implemented
<1>1. Others
  BY DEF AdapterInv, TurnsCounted, Others
<1>2. CASE AcpNext
  <2>1. CASE AcpHarnessEnds \/ AcpHarnessTakes
    <3>1. PipesTypeOK' /\ Unseen /\ harness # "mock"
      BY <2>1, HarnessUnseen DEF AdapterInv
    <3> QED
      BY <3>1, UnseenKeeps
  <2> QED
    BY <1>2, <2>1, GrokTraffic, GrokContinues, GrokTimesOut, GrokExits, GrokStartsTurn,
       GrokResponds, GrokRoutes DEF AcpNext
<1>3. CASE HarnessSteps
  <2>1. PipesTypeOK' /\ Unseen /\ harness # "mock"
    BY <1>3, HarnessUnseen DEF AdapterInv
  <2> QED
    BY <2>1, UnseenKeeps
<1>4. CASE UNCHANGED adapterVars
  <2>1. /\ UNCHANGED <<harness, turnCounter, activeTurnId, permissions, turn, reported, pending>>
        /\ UNCHANGED <<settled, nextId, sent, wire, running>>
    BY <1>4 DEF adapterVars, object, transport, process, inside, seen
  <2>2. PipesTypeOK' /\ TurnsCounted' /\ MockActive'
    BY <2>1 DEF AdapterInv, PipesTypeOK, TurnsCounted, MockActive, OpenTurn
  <2>3. PromptIsOpen' /\ OnePrompt'
    BY <2>1, FewerPrompts DEF AdapterInv, Prompts
  <2>4. UNCHANGED Contract!contractVars
    BY <2>1 DEF Contract!contractVars
  <2> QED
    BY <2>2, <2>3, <2>4 DEF Implemented, AdapterInv
<1> QED
  BY <1>1, <1>2, <1>3, <1>4, JsonlIdle, MockSteps DEF Next

(* contract.ts, grok.ts, mock.ts: the sessions of grok and of the mock keep the contract of an
   AgentSession, whatever the harness, the callers and the timers do. *)
THEOREM GrokAndMockKeepContract ==
  ASSUME Harnesses \subseteq {"grok", "mock"}
  PROVE  Spec => KeepsContract
<1>1. SessionInit => AdapterInv /\ Contract!Init
  BY AdaptersStart DEF SessionInit, Others
<1>2. AdapterInv /\ [Next]_adapterVars => AdapterInv' /\ [Contract!Next]_(Contract!contractVars)
  BY AdaptersStep DEF Implemented
<1> QED
  BY <1>1, <1>2, PTL DEF Spec, KeepsContract, Contract!Spec

-----------------------------------------------------------------------------
(* pi and omp.  The turn is over with the agent_end frame, which does not name it; what keeps it
   with its turn is that requests and frames stay in order and prompts do not time out. *)

Barred(races) == races \cap Races = {}

JsonlPhases   == {"spawned", "negotiate", "get_state", "open", "failed", "closed"}
OpeningPhases == {"spawned", "negotiate", "get_state"}
EndFrame      == [type : {"agent_end"}, of : 0..MaxTurns]
JsonlFrames   == Frames \cup EndFrame \cup [type : {"chunk"}, index : {0, 1}, whole : EndFrame]

JsonlTypes ==
  /\ harness \in {"pi", "omp"} /\ phase \in JsonlPhases /\ call \in {"none", "gate", "sent"}
  /\ turnCounter \in 0..MaxTurns /\ activeTurnId \in {0, turnCounter}
  /\ permissions \subseteq Perms /\ reported \in BOOLEAN
  /\ nextId \in Nat /\ pending \subseteq Request /\ settled \in Seq(Settlement)
  /\ sent \in Seq(Messages) /\ wire \in Seq(JsonlFrames)
  /\ running \in [id : Nat, turn : 0..MaxTurns]
  /\ turn \in [Turns -> {"none", "begun", "ended", "refused"}]

(* All turns but the last are over, and it has begun unless the session was closed at the gate. *)
TurnsInOrder ==
  /\ \A t \in Turns : t > turnCounter => turn[t] = "none"
  /\ \A t \in Turns : t < turnCounter => turn[t] \in {"ended", "refused"}
  /\ turnCounter \in Turns /\ phase \in {"open"} => turn[turnCounter] # "none"
  /\ call = "gate" => /\ turnCounter \in Turns /\ turnCounter < MaxTurns
                       /\ turn[turnCounter] \in {"ended", "refused"}

(* A session that is being opened makes one request at a time, that of its phase. *)
OpensInOrder ==
  /\ closed <=> phase \in {"closed", "failed"}
  /\ phase \in OpeningPhases =>
       /\ turnCounter = 0 /\ call = "none"
       /\ \A r \in pending : r.cmd = phase
       /\ \A r, q \in pending : r = q
       /\ \A i \in 1..Len(settled) : settled[i].request.cmd = phase /\ i = 1 /\ pending = {}
  /\ phase \notin OpeningPhases =>
       /\ \A r \in pending : r.cmd # "negotiate"
       /\ \A i \in 1..Len(settled) : settled[i].request.cmd # "negotiate"

(* startTurn waits for the one prompt there is, and its turn is the last one. *)
TheTurn == turnCounter \in Turns /\ turn[turnCounter] = "begun"

PromptAwaited(r) == phase = "open" /\ call = "sent" /\ r.turn = turnCounter /\ TheTurn

PromptSettled(i) ==
  /\ phase = "open" /\ call = "sent" /\ settled[i].request.turn = turnCounter
  /\ TheTurn \/ (settled[i].ok /\ turnCounter \in Turns /\ turn[turnCounter] = "ended")

CallWaits ==
  /\ OnePrompt
  /\ \A r \in Prompts(pending) : PromptAwaited(r)
  /\ \A i \in 1..Len(settled) : IsPrompt(i) => PromptSettled(i)
  /\ call = "sent" => Prompts(pending) # {} \/ \E i \in 1..Len(settled) : IsPrompt(i)

(* A response names one request. *)
IdsAreOnce ==
  /\ \A r \in pending : r.id < nextId
  /\ \A r, q \in pending : r.id = q.id => r = q
  /\ \A i \in 1..Len(sent) : sent[i].cmd \in Commands => sent[i].id < nextId
  /\ \A i \in 1..Len(wire) : wire[i].type = "response" => wire[i].id < nextId

(* The frames that end a turn: of a long one, its last part. *)
IsEnd(frame) == frame.type = "agent_end" \/ (frame.type = "chunk" /\ frame.index = 1)
EndOf(frame) == IF frame.type = "agent_end" THEN frame.of ELSE frame.whole.of
EndsAt       == {i \in 1..Len(wire) : IsEnd(wire[i])}
Answers(i, r) == wire[i].type = "response" /\ wire[i].id = r.id
Resting      == running = Idle /\ EndsAt = {}

(* A prompt the harness has not taken: it rests, and has not answered. *)
UntakenPrompt(i) ==
  /\ sent[i] \in pending /\ Resting
  /\ \A j \in 1..Len(wire) : ~Answers(j, sent[i])
  /\ \A j \in 1..Len(sent) : sent[j].cmd = "prompt" => i = j

PromptsUntaken == \A i \in 1..Len(sent) : sent[i].cmd = "prompt" => UntakenPrompt(i)
OthersElse ==
  \A i \in 1..Len(sent) : sent[i].cmd \in Commands \ {"prompt"} =>
    \A r \in Prompts(pending) : sent[i].id # r.id

(* What it runs, or has ended, is the last turn, which is open. *)
RunsTheTurn  == running # Idle => running.turn = turnCounter /\ TheTurn /\ EndsAt = {}
EndsTheTurn  ==
  \A i \in EndsAt : EndOf(wire[i]) = turnCounter /\ TheTurn /\ \A j \in EndsAt : i = j

(* It accepts a prompt before it ends the turn, and one that it refuses it does not run. *)
AnswersFirst ==
  \A r \in Prompts(pending), i \in 1..Len(wire) : Answers(i, r) =>
    /\ wire[i].ok => \A j \in EndsAt : i < j
    /\ ~wire[i].ok => Resting
    /\ \A j \in 1..Len(wire) : Answers(j, r) => i = j
RestsBefore ==
  \A r \in Prompts(pending) : Resting \/ \E i \in 1..Len(wire) : Answers(i, r)
RestsRefused ==
  \A i \in 1..Len(settled) : IsPrompt(i) /\ ~settled[i].ok => Resting /\ TheTurn

Flow ==
  /\ PromptsUntaken /\ OthersElse /\ RunsTheTurn /\ EndsTheTurn
  /\ AnswersFirst /\ RestsBefore /\ RestsRefused

(* Its last output is read before its end is seen. *)
FlowKept == (Alive /\ ~closed => Flow) /\ (~Alive => wire = <<>>)

JsonlInv ==
  JsonlTypes /\ TurnsInOrder /\ OpensInOrder /\ CallWaits /\ IdsAreOnce /\ FlowKept

(* Sequences: one more, one fewer. *)
LEMMA AppendAt ==
  ASSUME NEW S, NEW s \in Seq(S), NEW x \in S
  PROVE  /\ Len(s) \in Nat /\ Len(Append(s, x)) = Len(s) + 1 /\ Append(s, x) \in Seq(S)
         /\ Append(s, x)[Len(s) + 1] = x
         /\ \A i \in 1..Len(s) : Append(s, x)[i] = s[i]
  OBVIOUS

LEMMA TailAt ==
  ASSUME NEW S, NEW s \in Seq(S), s # <<>>
  PROVE  /\ Len(s) \in Nat \ {0} /\ Len(Tail(s)) = Len(s) - 1 /\ Tail(s) \in Seq(S)
         /\ Head(s) = s[1] /\ Head(s) \in S /\ 1 \in 1..Len(s)
         /\ \A i \in 1..Len(Tail(s)) : Tail(s)[i] = s[i + 1] /\ i + 1 \in 1..Len(s)
  OBVIOUS

(* A request is written, and waits. *)
NewRequest(cmd, t) == [id |-> nextId, cmd |-> cmd, turn |-> t]

LEMMA Sends ==
  ASSUME JsonlTypes, IdsAreOnce, NEW rest \in SUBSET pending, NEW cmd \in Commands,
         NEW t \in 0..MaxTurns, Send(rest, cmd, t), wire' = wire
  PROVE  /\ pending' = rest \cup {NewRequest(cmd, t)} /\ nextId' = nextId + 1
         /\ NewRequest(cmd, t) \in Messages /\ sent' = Written(NewRequest(cmd, t))
         /\ pending' \subseteq Request /\ nextId' \in Nat /\ sent' \in Seq(Messages)
         /\ IdsAreOnce'
<1> DEFINE q == NewRequest(cmd, t)
<1>1. q \in Request /\ q \in Messages /\ q.id = nextId /\ q.cmd = cmd
  BY DEF NewRequest, JsonlTypes, Request, Messages
<1>2. pending' = rest \cup {q} /\ nextId' = nextId + 1 /\ sent' = Written(q)
  BY DEF Send, NewRequest
<1> HIDE DEF q
<1>3. pending' \subseteq Request /\ nextId' \in Nat
  BY <1>1, <1>2 DEF JsonlTypes
<1>4. sent' \in Seq(Messages)
  BY <1>1, <1>2 DEF Written, JsonlTypes
<1>5. \A r \in pending' : r.id < nextId'
  BY <1>1, <1>2 DEF IdsAreOnce, JsonlTypes, Request
<1>6. \A r, s \in pending' : r.id = s.id => r = s
  BY <1>1, <1>2 DEF IdsAreOnce, JsonlTypes, Request
<1>7. \A i \in 1..Len(wire') : wire'[i].type = "response" => wire'[i].id < nextId'
  <2>1. ASSUME NEW i \in 1..Len(wire), wire[i].type = "response"
        PROVE  wire[i].id < nextId + 1
    <3>1. wire[i] \in JsonlFrames
      BY DEF JsonlTypes
    <3>3. wire[i].id < nextId
      BY <2>1 DEF IdsAreOnce
    <3>2. wire[i].id \in Nat
      BY <2>1, <3>1 DEF JsonlFrames, Frames, EndFrame
    <3> QED
      BY <3>2, <3>3 DEF JsonlTypes
  <2> QED
    BY <1>2, <2>1
<1>8. \A i \in 1..Len(sent') : sent'[i].cmd \in Commands => sent'[i].id < nextId'
  <2>1. \A i \in 1..Len(sent) : sent[i].cmd \in Commands => sent[i].id < nextId + 1
    <3>1. ASSUME NEW i \in 1..Len(sent), sent[i].cmd \in Commands
          PROVE  sent[i].id < nextId + 1
      <4>1. sent[i] \in Messages
        BY DEF JsonlTypes
      <4>3. sent[i].id < nextId
        BY <3>1 DEF IdsAreOnce
      <4>2. sent[i].id \in Nat
        BY <3>1, <4>1 DEF Messages, Request, Commands
      <4> QED
        BY <4>2, <4>3 DEF JsonlTypes
    <3> QED
      BY <3>1
  <2>2. CASE ~Alive
    BY <1>2, <2>1, <2>2 DEF Written
  <2>3. CASE Alive
    BY <1>1, <1>2, <2>1, <2>3, AppendAt DEF Written, JsonlTypes
  <2> QED
    BY <2>2, <2>3
<1>9. IdsAreOnce'
  BY <1>5, <1>6, <1>7, <1>8 DEF IdsAreOnce
<1> QED
  BY <1>1, <1>2, <1>3, <1>4, <1>9 DEF q

-----------------------------------------------------------------------------
(* How the flow is kept.  What is on its way down is the same, or the first of it is taken; what
   is on its way up ends no turn and answers no prompt but as before. *)

SentPart == PromptsUntaken /\ OthersElse
TurnPart == RunsTheTurn /\ EndsTheTurn /\ AnswersFirst /\ RestsBefore /\ RestsRefused

SentMoves(d) == \A i \in 1..Len(sent') : i + d \in 1..Len(sent) /\ sent'[i] = sent[i + d]

LEMMA SentPartKept ==
  ASSUME SentPart, NEW d \in {0, 1}, SentMoves(d), Prompts(pending') = Prompts(pending),
         Resting => Resting',
         \A r \in Prompts(pending) : \A j \in 1..Len(wire') :
           Answers(j, r)' => \E k \in 1..Len(wire) : Answers(k, r)
  PROVE  SentPart'
<1>1. ASSUME NEW i \in 1..Len(sent'), sent'[i].cmd = "prompt"
      PROVE  UntakenPrompt(i)'
  <2>1. i + d \in 1..Len(sent) /\ sent'[i] = sent[i + d] /\ UntakenPrompt(i + d)
    BY <1>1 DEF SentMoves, SentPart, PromptsUntaken
  <2>2. PICK r \in Prompts(pending) : r = sent[i + d]
    BY <1>1, <2>1 DEF UntakenPrompt, Prompts
  <2>3. sent'[i] \in pending' /\ Resting'
    BY <2>1, <2>2 DEF UntakenPrompt, Prompts
  <2>4. \A j \in 1..Len(wire') : ~Answers(j, r)'
    BY <2>1, <2>2 DEF UntakenPrompt
  <2>5. \A j \in 1..Len(wire') : ~Answers(j, sent[i])'
    BY <2>1, <2>2, <2>4 DEF Answers
  <2>6. \A j \in 1..Len(sent') : sent'[j].cmd = "prompt" => i = j
    BY <2>1 DEF SentMoves, UntakenPrompt
  <2> QED
    BY <2>3, <2>5, <2>6 DEF UntakenPrompt
<1>2. OthersElse'
  <2>1. Prompts(pending)' = Prompts(pending)
    BY DEF Prompts
  <2> QED
    BY <2>1 DEF SentPart, OthersElse, SentMoves
<1> QED
  BY <1>1, <1>2 DEF SentPart, PromptsUntaken

(* One more message, which is no prompt. *)
LEMMA SentPartGrows ==
  ASSUME SentPart, sent \in Seq(Messages), NEW m \in Messages, sent' = Append(sent, m),
         m.cmd # "prompt", \A r \in Prompts(pending) : m.cmd \in Commands => m.id # r.id,
         Prompts(pending') = Prompts(pending), Resting => Resting',
         \A r \in Prompts(pending) : \A j \in 1..Len(wire') :
           Answers(j, r)' => \E k \in 1..Len(wire) : Answers(k, r)
  PROVE  SentPart'
<1>1. PICK n \in Nat : n = Len(sent) /\ Len(sent') = n + 1 /\ sent'[n + 1] = m
                        /\ \A i \in 1..n : sent'[i] = sent[i]
  BY AppendAt
<1>2. Prompts(pending)' = Prompts(pending)
  BY DEF Prompts
<1>3. ASSUME NEW i \in 1..Len(sent'), sent'[i].cmd = "prompt"
      PROVE  UntakenPrompt(i)'
  <2>1. i \in 1..n /\ sent'[i] = sent[i] /\ UntakenPrompt(i)
    BY <1>1, <1>3 DEF SentPart, PromptsUntaken
  <2>2. sent'[i] \in pending' /\ Resting'
    BY <1>2, <1>3, <2>1 DEF UntakenPrompt, Prompts
  <2>5. PICK r \in Prompts(pending) : r = sent[i]
    BY <1>3, <2>1 DEF UntakenPrompt, Prompts
  <2>6. \A j \in 1..Len(wire') : ~Answers(j, r)'
    BY <2>1, <2>5 DEF UntakenPrompt
  <2>3. \A j \in 1..Len(wire') : ~Answers(j, sent[i])'
    BY <2>1, <2>5, <2>6 DEF Answers
  <2>4. \A j \in 1..Len(sent') : sent'[j].cmd = "prompt" => i = j
    BY <1>1, <2>1 DEF UntakenPrompt
  <2> QED
    BY <2>1, <2>2, <2>3, <2>4 DEF UntakenPrompt
<1>4. OthersElse'
  BY <1>1, <1>2 DEF SentPart, OthersElse
<1> QED
  BY <1>3, <1>4 DEF SentPart, PromptsUntaken

LEMMA TurnPartSame ==
  ASSUME TurnPart, Prompts(pending') = Prompts(pending),
         UNCHANGED <<wire, running, turn, turnCounter>>,
         \A i \in 1..Len(settled') : \E k \in 1..Len(settled) : settled'[i] = settled[k]
  PROVE  TurnPart'
<1>1. Prompts(pending)' = Prompts(pending) /\ EndsAt' = EndsAt
  BY DEF Prompts, EndsAt
<1>2. (Resting' <=> Resting) /\ (TheTurn' <=> TheTurn)
  BY <1>1 DEF Resting, TheTurn
<1>3. \A i, r : Answers(i, r)' <=> Answers(i, r)
  BY DEF Answers
<1>4. RunsTheTurn' /\ EndsTheTurn'
  BY <1>1, <1>2 DEF TurnPart, RunsTheTurn, EndsTheTurn
<1>5. AnswersFirst' /\ RestsBefore'
  BY <1>1, <1>2, <1>3 DEF TurnPart, AnswersFirst, RestsBefore
<1>6. RestsRefused'
  BY <1>2 DEF TurnPart, RestsRefused, IsPrompt
<1> QED
  BY <1>4, <1>5, <1>6 DEF TurnPart

(* One more frame, which ends nothing and answers no prompt. *)
LEMMA WireGrows ==
  ASSUME TurnPart, wire \in Seq(JsonlFrames), NEW f \in JsonlFrames, wire' = Append(wire, f), ~IsEnd(f),
         \A r \in Prompts(pending) : f.type = "response" => f.id # r.id,
         UNCHANGED <<pending, running, settled, turn, turnCounter>>
  PROVE  /\ TurnPart' /\ (Resting => Resting')
         /\ \A r \in Prompts(pending) : \A j \in 1..Len(wire') :
              Answers(j, r)' => \E k \in 1..Len(wire) : Answers(k, r)
<1>1. PICK n \in Nat : n = Len(wire) /\ Len(wire') = n + 1 /\ wire'[n + 1] = f
                        /\ \A i \in 1..n : wire'[i] = wire[i]
  BY AppendAt
<1>2. Prompts(pending)' = Prompts(pending)
  BY DEF Prompts
<1>3. EndsAt' = EndsAt
  BY <1>1 DEF EndsAt
<1>4. (Resting' <=> Resting) /\ (TheTurn' <=> TheTurn)
  BY <1>3 DEF Resting, TheTurn
<1>5. \A r \in Prompts(pending), i \in 1..(n + 1) : Answers(i, r)' <=> i \in 1..n /\ Answers(i, r)
  BY <1>1 DEF Answers
<1>6. RunsTheTurn'
  BY <1>3, <1>4 DEF TurnPart, RunsTheTurn
<1>7. EndsTheTurn'
  <2>1. \A i \in EndsAt : i \in 1..n /\ wire'[i] = wire[i]
    BY <1>1 DEF EndsAt
  <2> QED
    BY <1>3, <1>4, <2>1 DEF TurnPart, EndsTheTurn
<1>8. AnswersFirst'
  BY <1>1, <1>2, <1>3, <1>4, <1>5 DEF TurnPart, AnswersFirst
<1>9. RestsBefore'
  BY <1>1, <1>2, <1>4, <1>5 DEF TurnPart, RestsBefore
<1>10. RestsRefused'
  BY <1>4 DEF TurnPart, RestsRefused, IsPrompt
<1> QED
  BY <1>1, <1>4, <1>5, <1>6, <1>7, <1>8, <1>9, <1>10 DEF TurnPart

-----------------------------------------------------------------------------
(* The harness moves, and the session sees nothing of it. *)

LEMMA OneMore ==
  ASSUME NEW S, NEW s \in Seq(S), NEW x \in S
  PROVE  s \o <<x>> = Append(s, x)
  OBVIOUS

LEMMA TwoMore ==
  ASSUME NEW S, NEW s \in Seq(S), NEW x \in S, NEW y \in S
  PROVE  s \o <<x, y>> = Append(Append(s, x), y)
  OBVIOUS

HarnessMoves == Alive /\ UNCHANGED <<object, transport, proc, seen>>

LEMMA HarnessMovesUnseen ==
  ASSUME JsonlInv, HarnessMoves, sent' \in Seq(Messages), wire' \in Seq(JsonlFrames),
         running' \in [id : Nat, turn : 0..MaxTurns], IdsAreOnce', ~closed => Flow'
  PROVE  JsonlInv' /\ UNCHANGED Contract!contractVars
<1>1. /\ UNCHANGED <<harness, phase, call, turnCounter, activeTurnId, permissions, closed, nextId>>
      /\ UNCHANGED <<pending, settled, turn, reported, proc>> /\ Alive
  BY DEF HarnessMoves, object, transport, seen
<1>2. JsonlTypes'
  BY <1>1 DEF JsonlInv, JsonlTypes
<1>3. TurnsInOrder' /\ OpensInOrder'
  BY <1>1 DEF JsonlInv, TurnsInOrder, OpensInOrder
<1>4. CallWaits'
  BY <1>1 DEF JsonlInv, CallWaits, OnePrompt, PromptAwaited, PromptSettled, TheTurn, Prompts, IsPrompt
<1>5. FlowKept'
  BY <1>1 DEF FlowKept, Alive
<1>6. UNCHANGED Contract!contractVars
  BY <1>1 DEF Contract!contractVars
<1> QED
  BY <1>2, <1>3, <1>4, <1>5, <1>6 DEF JsonlInv

LEMMA IdsOnTheWay ==
  ASSUME IdsAreOnce, UNCHANGED <<pending, nextId>>, NEW d \in {0, 1}, SentMoves(d),
         \A j \in 1..Len(wire') : wire'[j].type = "response" =>
           \/ \E k \in 1..Len(wire) : wire'[j] = wire[k]
           \/ 1 \in 1..Len(sent) /\ sent[1].cmd \in Commands /\ wire'[j].id = sent[1].id
  PROVE  IdsAreOnce'
<1>1. ASSUME NEW i \in 1..Len(sent'), sent'[i].cmd \in Commands
      PROVE  sent'[i].id < nextId
  BY <1>1 DEF SentMoves, IdsAreOnce
<1>2. ASSUME NEW j \in 1..Len(wire'), wire'[j].type = "response"
      PROVE  wire'[j].id < nextId
  BY <1>2 DEF IdsAreOnce
<1> QED
  BY <1>1, <1>2 DEF IdsAreOnce

LEMMA SentStays ==
  ASSUME sent \in Seq(Messages)
  PROVE  /\ sent' = sent => SentMoves(0)
         /\ sent # <<>> /\ sent' = Tail(sent) => SentMoves(1) /\ sent' \in Seq(Messages)
<1>1. ASSUME sent' = sent
      PROVE  SentMoves(0)
  <2>1. Len(sent) \in Nat
    OBVIOUS
  <2> QED
    BY <1>1, <2>1 DEF SentMoves
<1>2. ASSUME sent # <<>>, sent' = Tail(sent)
      PROVE  SentMoves(1) /\ sent' \in Seq(Messages)
  BY <1>2, TailAt DEF SentMoves
<1> QED
  BY <1>1, <1>2

(* It writes something that ends no turn, and answers at most what it has just taken. *)
LEMMA HarnessWrites ==
  ASSUME JsonlInv, HarnessMoves, NEW f \in JsonlFrames, wire' = Append(wire, f), ~IsEnd(f),
         running' = running,
         \/ sent' = sent /\ f.type # "response"
         \/ /\ sent # <<>> /\ sent' = Tail(sent)
            /\ f.type = "response" =>
                 Head(sent).cmd \in Commands \ {"prompt"} /\ f.id = Head(sent).id
  PROVE  JsonlInv' /\ UNCHANGED Contract!contractVars
<1>1. /\ sent \in Seq(Messages) /\ wire \in Seq(JsonlFrames) /\ IdsAreOnce
      /\ running' \in [id : Nat, turn : 0..MaxTurns]
  BY DEF JsonlInv, JsonlTypes
<1>2. PICK d \in {0, 1} : SentMoves(d)
  BY <1>1, SentStays
<1>3. sent' \in Seq(Messages) /\ wire' \in Seq(JsonlFrames)
  BY <1>1, SentStays, AppendAt
<1>4. UNCHANGED <<pending, nextId, settled, turn, turnCounter>>
  BY DEF HarnessMoves, transport, object, seen
<1>5. f.type = "response" => /\ 1 \in 1..Len(sent) /\ sent[1].cmd \in Commands \ {"prompt"}
                             /\ f.id = sent[1].id
  BY <1>1, TailAt
<1>6. IdsAreOnce'
  <2>1. \A j \in 1..Len(wire') : (j \in 1..Len(wire) /\ wire'[j] = wire[j]) \/ wire'[j] = f
    BY <1>1, AppendAt
  <2> QED
    BY <1>1, <1>2, <1>4, <1>5, <2>1, IdsOnTheWay
<1>7. ASSUME ~closed
      PROVE  Flow'
  <2>1. SentPart /\ TurnPart
    BY <1>7 DEF JsonlInv, FlowKept, Flow, SentPart, TurnPart, HarnessMoves
  <2>2. \A r \in Prompts(pending) : f.type = "response" => f.id # r.id
    BY <1>5, <2>1 DEF SentPart, OthersElse
  <2>3. /\ TurnPart' /\ (Resting => Resting')
        /\ \A r \in Prompts(pending) : \A j \in 1..Len(wire') :
             Answers(j, r)' => \E k \in 1..Len(wire) : Answers(k, r)
    BY <1>1, <1>4, <2>1, <2>2, WireGrows
  <2>4. SentPart'
    BY <1>2, <1>4, <2>1, <2>3, SentPartKept
  <2> QED
    BY <2>3, <2>4 DEF Flow, SentPart, TurnPart
<1> QED
  BY <1>1, <1>3, <1>6, <1>7, HarnessMovesUnseen

(* It takes a message and writes nothing. *)
LEMMA HarnessTakes ==
  ASSUME JsonlInv, HarnessMoves, sent # <<>>, sent' = Tail(sent), UNCHANGED <<wire, running>>
  PROVE  JsonlInv' /\ UNCHANGED Contract!contractVars
<1>1. /\ sent \in Seq(Messages) /\ wire \in Seq(JsonlFrames) /\ IdsAreOnce
      /\ running' \in [id : Nat, turn : 0..MaxTurns]
  BY DEF JsonlInv, JsonlTypes
<1>2. SentMoves(1) /\ sent' \in Seq(Messages)
  BY <1>1, SentStays
<1>3. UNCHANGED <<pending, nextId, settled, turn, turnCounter>>
  BY DEF HarnessMoves, transport, object, seen
<1>4. IdsAreOnce'
  BY <1>1, <1>2, <1>3, IdsOnTheWay
<1>5. ASSUME ~closed
      PROVE  Flow'
  <2>1. SentPart /\ TurnPart
    BY <1>5 DEF JsonlInv, FlowKept, Flow, SentPart, TurnPart, HarnessMoves
  <2>2. Resting => Resting'
    BY DEF Resting, EndsAt
  <2>3. \A r \in Prompts(pending) : \A j \in 1..Len(wire') :
          Answers(j, r)' => \E k \in 1..Len(wire) : Answers(k, r)
    BY DEF Answers
  <2>4. SentPart' /\ TurnPart'
    BY <1>2, <1>3, <2>1, <2>2, <2>3, SentPartKept, TurnPartSame
  <2> QED
    BY <2>4 DEF Flow, SentPart, TurnPart
<1> QED
  BY <1>1, <1>2, <1>4, <1>5, HarnessMovesUnseen

(* It takes the prompt, and accepts or refuses it. *)
LEMMA PromptTaken ==
  ASSUME JsonlInv, HarnessMoves, sent # <<>>, sent' = Tail(sent), Head(sent).cmd = "prompt",
         NEW ok \in BOOLEAN, wire' = Append(wire, Response(Head(sent).id, ok)),
         ~ok => running' = running,
         ok => running' = [id |-> Head(sent).id, turn |-> Head(sent).turn]
  PROVE  JsonlInv' /\ UNCHANGED Contract!contractVars
<1>1. /\ sent \in Seq(Messages) /\ wire \in Seq(JsonlFrames) /\ IdsAreOnce
      /\ running \in [id : Nat, turn : 0..MaxTurns]
  BY DEF JsonlInv, JsonlTypes
<1>2. /\ Head(sent) = sent[1] /\ 1 \in 1..Len(sent) /\ sent[1] \in Messages
      /\ SentMoves(1) /\ sent' \in Seq(Messages)
  BY <1>1, TailAt, SentStays
<1>3. sent[1].cmd = "prompt" /\ sent[1].cmd \in Commands
  BY <1>2 DEF Commands
<1>4. PICK r \in Messages : r = sent[1] /\ r.cmd = "prompt" /\ r.id \in Nat /\ r.turn \in 0..MaxTurns
  BY <1>2, <1>3 DEF Messages, Request, Commands
<1>5. PICK f \in JsonlFrames : f = Response(r.id, ok)
  BY <1>4 DEF Response, JsonlFrames, Frames
<1>6. f.type = "response" /\ f.id = r.id /\ f.ok = ok /\ ~IsEnd(f)
  BY <1>5 DEF Response, IsEnd
<1>7. wire' = Append(wire, f) /\ UNCHANGED <<pending, nextId, settled, turn, turnCounter, closed>>
  BY <1>2, <1>4, <1>5 DEF HarnessMoves, transport, object, seen
<1>8. PICK n \in Nat : n = Len(wire) /\ Len(wire') = n + 1 /\ wire'[n + 1] = f
                        /\ \A i \in 1..n : wire'[i] = wire[i]
  BY <1>1, <1>7, AppendAt
<1>9. wire' \in Seq(JsonlFrames) /\ running' \in [id : Nat, turn : 0..MaxTurns]
  BY <1>1, <1>2, <1>4, <1>7, AppendAt
<1>10. IdsAreOnce'
  <2>1. \A j \in 1..Len(wire') : (j \in 1..Len(wire) /\ wire'[j] = wire[j]) \/ wire'[j] = f
    BY <1>8
  <2> QED
    BY <1>1, <1>2, <1>3, <1>4, <1>6, <1>7, <2>1, IdsOnTheWay
<1>11. ASSUME ~closed
       PROVE  Flow'
  <2>1. SentPart /\ TurnPart
    BY <1>11 DEF JsonlInv, FlowKept, Flow, SentPart, TurnPart, HarnessMoves
  <2>2. UntakenPrompt(1)
    BY <1>2, <1>3, <2>1 DEF SentPart, PromptsUntaken
  <2>3. /\ r \in Prompts(pending) /\ Resting /\ \A j \in 1..n : ~Answers(j, r)
        /\ \A j \in 1..Len(sent) : sent[j].cmd = "prompt" => j = 1
    BY <1>4, <1>8, <2>2 DEF UntakenPrompt, Prompts
  <2>4. /\ TheTurn /\ r.turn = turnCounter /\ \A q \in Prompts(pending) : q = r
        /\ \A i \in 1..Len(settled) : ~IsPrompt(i)
    BY <2>3 DEF JsonlInv, CallWaits, PromptAwaited, OnePrompt
  <2>5. Prompts(pending)' = Prompts(pending) /\ (TheTurn' <=> TheTurn)
    BY <1>7 DEF Prompts, TheTurn
  <2>6. EndsAt' = {}
    <3>1. \A i \in 1..(n + 1) : ~IsEnd(wire'[i])
      BY <1>6, <1>8, <2>3 DEF Resting, EndsAt
    <3> QED
      BY <1>8, <3>1 DEF EndsAt
  <2>7. \A i \in 1..(n + 1) : Answers(i, r)' <=> i = n + 1
    <3>1. \A i \in 1..n : ~Answers(i, r)'
      BY <1>8, <2>3 DEF Answers
    <3>2. Answers(n + 1, r)'
      BY <1>6, <1>8 DEF Answers
    <3> QED
      BY <3>1, <3>2
  <2>8. ~ok => Resting'
    BY <2>3, <2>6 DEF Resting
  <2>9. PromptsUntaken'
    <3>1. \A i \in 1..Len(sent') : sent'[i].cmd # "prompt"
      <4>1. \A i \in 1..Len(sent') : i + 1 # 1 /\ i + 1 \in 1..Len(sent) /\ sent'[i] = sent[i + 1]
        BY <1>2 DEF SentMoves
      <4> QED
        BY <2>3, <4>1
    <3> QED
      BY <3>1 DEF PromptsUntaken
  <2>10. OthersElse'
    BY <1>2, <2>1, <2>5 DEF SentPart, OthersElse, SentMoves
  <2>11. RunsTheTurn'
    <3>1. ok => running'.turn = turnCounter'
      BY <1>2, <1>4, <1>7, <2>4
    <3> QED
      BY <2>3, <2>4, <2>5, <2>6, <3>1 DEF RunsTheTurn, Resting
  <2>12. EndsTheTurn'
    BY <2>6 DEF EndsTheTurn
  <2>13. AnswersFirst'
    BY <1>6, <1>8, <2>4, <2>5, <2>6, <2>7, <2>8 DEF AnswersFirst
  <2>14. RestsBefore'
    <3>1. n + 1 \in 1..Len(wire')
      BY <1>8
    <3> QED
      BY <1>8, <2>4, <2>5, <2>7, <3>1 DEF RestsBefore
  <2>15. RestsRefused'
    BY <1>7, <2>4 DEF RestsRefused, IsPrompt
  <2> QED
    BY <2>9, <2>10, <2>11, <2>12, <2>13, <2>14, <2>15 DEF Flow
<1> QED
  BY <1>1, <1>2, <1>9, <1>10, <1>11, HarnessMovesUnseen

(* It ends the turn that it runs: one of the frames it writes says so. *)
LEMMA EndWritten ==
  ASSUME JsonlInv, HarnessMoves, running # Idle, running' = Idle, wire' \in Seq(JsonlFrames),
         sent' \in Seq(Messages), NEW d \in {0, 1}, SentMoves(d),
         \A i \in 1..Len(wire) : i \in 1..Len(wire') /\ wire'[i] = wire[i],
         NEW e \in 1..Len(wire'), e > Len(wire), IsEnd(wire'[e]), EndOf(wire'[e]) = running.turn,
         \A i \in 1..Len(wire') : i > Len(wire) =>
           /\ IsEnd(wire'[i]) => i = e
           /\ wire'[i].type = "response" =>
                /\ 1 \in 1..Len(sent) /\ sent[1].cmd \in Commands \ {"prompt"}
                /\ wire'[i].id = sent[1].id
  PROVE  JsonlInv' /\ UNCHANGED Contract!contractVars
<1>1. IdsAreOnce /\ wire \in Seq(JsonlFrames) /\ MaxTurns \in Nat
  BY AdapterBounds DEF JsonlInv, JsonlTypes
<1>2. running' \in [id : Nat, turn : 0..MaxTurns]
  BY <1>1 DEF Idle
<1>3. UNCHANGED <<pending, nextId, settled, turn, turnCounter, closed>>
  BY DEF HarnessMoves, transport, object, seen
<1>4. PICK n \in Nat : n = Len(wire)
  BY <1>1
<1>5. PICK m \in Nat : m = Len(wire') /\ e \in 1..m /\ e > n
  BY <1>4
<1>6. \A j \in 1..m : j \in 1..n \/ j > n
  BY <1>4
<1>7. IdsAreOnce'
  <2>1. \A j \in 1..Len(wire') : wire'[j].type = "response" =>
           \/ \E k \in 1..Len(wire) : wire'[j] = wire[k]
           \/ 1 \in 1..Len(sent) /\ sent[1].cmd \in Commands /\ wire'[j].id = sent[1].id
    BY <1>4, <1>5, <1>6
  <2> QED
    BY <1>1, <1>3, <2>1, IdsOnTheWay
<1>8. ASSUME ~closed
      PROVE  Flow'
  <2>1. SentPart /\ TurnPart
    BY <1>8 DEF JsonlInv, FlowKept, Flow, SentPart, TurnPart, HarnessMoves
  <2>2. ~Resting /\ EndsAt = {} /\ running.turn = turnCounter /\ TheTurn
    BY <2>1 DEF Resting, TurnPart, RunsTheTurn
  <2>3. Prompts(pending)' = Prompts(pending) /\ (TheTurn' <=> TheTurn)
    BY <1>3 DEF Prompts, TheTurn
  <2>4. EndsAt' = {e}
    <3>1. \A i \in 1..n : ~IsEnd(wire'[i])
      BY <1>4, <2>2 DEF EndsAt
    <3>2. \A i \in 1..m : IsEnd(wire'[i]) <=> i = e
      BY <1>4, <1>5, <1>6, <3>1
    <3> QED
      BY <1>5, <3>2 DEF EndsAt
  <2>5. \A r \in Prompts(pending), i \in 1..m : Answers(i, r)' => i \in 1..n /\ Answers(i, r)
    <3>1. ASSUME NEW r \in Prompts(pending), NEW i \in 1..m, i > n, Answers(i, r)'
          PROVE  FALSE
      <4>1. wire'[i].id = r.id /\ wire'[i].type = "response"
        BY <3>1 DEF Answers
      <4>2. 1 \in 1..Len(sent) /\ sent[1].cmd \in Commands \ {"prompt"} /\ sent[1].id = r.id
        BY <1>4, <1>5, <3>1, <4>1
      <4> QED
        BY <2>1, <3>1, <4>2 DEF SentPart, OthersElse
    <3>2. \A r \in Prompts(pending) : \A i \in 1..n : Answers(i, r)' <=> Answers(i, r)
      BY <1>4 DEF Answers
    <3> QED
      BY <1>6, <3>1, <3>2
  <2>6. PromptsUntaken'
    <3>1. \A i \in 1..Len(sent) : sent[i].cmd # "prompt"
      BY <2>1, <2>2 DEF SentPart, PromptsUntaken, UntakenPrompt
    <3> QED
      BY <3>1 DEF PromptsUntaken, SentMoves
  <2>7. OthersElse'
    <3>1. \A i \in 1..Len(sent') : \E k \in 1..Len(sent) : sent'[i] = sent[k]
      BY DEF SentMoves
    <3> QED
      BY <2>1, <2>3, <3>1 DEF SentPart, OthersElse
  <2>8. RunsTheTurn'
    BY DEF RunsTheTurn, Idle
  <2>9. EndsTheTurn'
    BY <1>3, <2>2, <2>3, <2>4 DEF EndsTheTurn
  <2>10. AnswersFirst'
    <3>1. ASSUME NEW r \in Prompts(pending), NEW i \in 1..m, Answers(i, r)'
          PROVE  /\ wire'[i].ok => \A j \in EndsAt' : i < j
                 /\ ~wire'[i].ok => Resting'
                 /\ \A j \in 1..m : Answers(j, r)' => i = j
      <4>1. i \in 1..n /\ Answers(i, r) /\ wire'[i] = wire[i]
        BY <1>4, <2>5, <3>1
      <4>2. wire[i].ok /\ \A j \in 1..n : Answers(j, r) => i = j
        BY <1>4, <2>1, <2>2, <4>1 DEF TurnPart, AnswersFirst
      <4>3. i < e
        BY <1>5, <4>1
      <4> QED
        BY <2>4, <2>5, <4>1, <4>2, <4>3
    <3> QED
      BY <1>5, <2>3, <3>1 DEF AnswersFirst
  <2>11. RestsBefore'
    <3>1. ASSUME NEW r \in Prompts(pending)
          PROVE  \E i \in 1..m : Answers(i, r)'
      <4>1. PICK i \in 1..n : Answers(i, r)
        BY <1>4, <2>1, <2>2 DEF TurnPart, RestsBefore
      <4>2. i \in 1..m /\ Answers(i, r)'
        BY <1>4, <1>5, <4>1 DEF Answers
      <4> QED
        BY <4>2
    <3> QED
      BY <1>5, <2>3, <3>1 DEF RestsBefore
  <2>12. RestsRefused'
    <3>1. \A i \in 1..Len(settled) : IsPrompt(i) => settled[i].ok
      BY <2>1, <2>2 DEF TurnPart, RestsRefused
    <3> QED
      BY <1>3, <3>1 DEF RestsRefused, IsPrompt
  <2> QED
    BY <2>6, <2>7, <2>8, <2>9, <2>10, <2>11, <2>12 DEF Flow
<1> QED
  BY <1>1, <1>2, <1>7, <1>8, HarnessMovesUnseen

-----------------------------------------------------------------------------
LEMMA OneWritten ==
  ASSUME JsonlInv, NEW f \in JsonlFrames, Writes(<<f>>)
  PROVE  wire' = Append(wire, f)
  BY OneMore DEF JsonlInv, JsonlTypes, Writes

LEMMA ResponseFrame ==
  ASSUME NEW id \in Nat, NEW ok \in BOOLEAN
  PROVE  /\ Response(id, ok) \in JsonlFrames /\ ~IsEnd(Response(id, ok))
         /\ Response(id, ok).type = "response" /\ Response(id, ok).id = id
  BY DEF Response, JsonlFrames, Frames, IsEnd

LEMMA EndFrameOf ==
  ASSUME NEW t \in 0..MaxTurns
  PROVE  /\ AgentEnd(t) \in JsonlFrames /\ IsEnd(AgentEnd(t)) /\ EndOf(AgentEnd(t)) = t
         /\ AgentEnd(t).type # "response"
         /\ \A i \in {0, 1} : Chunk(AgentEnd(t), i) \in JsonlFrames
         /\ ~IsEnd(Chunk(AgentEnd(t), 0)) /\ IsEnd(Chunk(AgentEnd(t), 1))
         /\ EndOf(Chunk(AgentEnd(t), 1)) = t
         /\ \A i \in {0, 1} : Chunk(AgentEnd(t), i).type # "response"
<1>1. AgentEnd(t) \in EndFrame
  BY DEF AgentEnd, EndFrame
<1>2. \A i \in {0, 1} : Chunk(AgentEnd(t), i) \in JsonlFrames
  BY <1>1 DEF Chunk, JsonlFrames
<1>3. AgentEnd(t).type = "agent_end" /\ AgentEnd(t).of = t
  BY DEF AgentEnd
<1>4. \A i \in {0, 1} : /\ Chunk(AgentEnd(t), i).type = "chunk" /\ Chunk(AgentEnd(t), i).index = i
                        /\ Chunk(AgentEnd(t), i).whole = AgentEnd(t)
  BY DEF Chunk
<1> QED
  BY <1>1, <1>2, <1>3, <1>4 DEF JsonlFrames, IsEnd, EndOf

LEMMA HeadTaken ==
  ASSUME JsonlInv, Taking
  PROVE  /\ HarnessMoves /\ sent # <<>> /\ sent' = Tail(sent) /\ 1 \in 1..Len(sent)
         /\ Head(sent) = sent[1] /\ SentMoves(1) /\ sent' \in Seq(Messages)
         /\ Head(sent).cmd \in Commands => Head(sent).id \in Nat
<1>1. sent \in Seq(Messages) /\ sent # <<>> /\ sent' = Tail(sent)
  BY DEF JsonlInv, JsonlTypes, Taking
<1>2. /\ 1 \in 1..Len(sent) /\ Head(sent) = sent[1] /\ Head(sent) \in Messages
      /\ SentMoves(1) /\ sent' \in Seq(Messages)
  BY <1>1, TailAt, SentStays
<1>3. ASSUME Head(sent).cmd \in Commands
      PROVE  Head(sent).id \in Nat
  BY <1>2, <1>3 DEF Messages, Request, Commands
<1>4. HarnessMoves
  BY DEF Taking, Room, HarnessMoves
<1> QED
  BY <1>1, <1>2, <1>3, <1>4

Unheard == JsonlInv' /\ UNCHANGED Contract!contractVars

LEMMA JsonlHarnessEndsUnheard ==
  ASSUME JsonlInv, JsonlHarnessEnds
  PROVE  Unheard
<1>1. /\ HarnessMoves /\ running # Idle /\ running' = Idle /\ sent' = sent
      /\ \E frames \in EndFrames(running.turn) : wire' = wire \o frames
  BY DEF JsonlHarnessEnds, Works, Room, HarnessMoves, Writes
<1>2. PICK t \in 0..MaxTurns : t = running.turn
  BY DEF JsonlInv, JsonlTypes
<1>3. sent \in Seq(Messages) /\ wire \in Seq(JsonlFrames) /\ sent' \in Seq(Messages) /\ SentMoves(0)
  BY <1>1, SentStays DEF JsonlInv, JsonlTypes
<1>4. CASE wire' = wire \o <<AgentEnd(t)>>
  <2>1. PICK f \in JsonlFrames : f = AgentEnd(t) /\ IsEnd(f) /\ EndOf(f) = t /\ f.type # "response"
    BY EndFrameOf
  <2>2. wire' = Append(wire, f)
    BY <1>3, <1>4, <2>1, OneMore
  <2>3. PICK n \in Nat : n = Len(wire) /\ Len(wire') = n + 1 /\ wire'[n + 1] = f
                          /\ wire' \in Seq(JsonlFrames) /\ \A i \in 1..n : wire'[i] = wire[i]
    BY <1>3, <2>2, AppendAt
  <2>4. n + 1 \in 1..Len(wire') /\ \A i \in 1..Len(wire') : i > Len(wire) => i = n + 1
    BY <2>3
  <2>5. \A i \in 1..Len(wire) : i \in 1..Len(wire') /\ wire'[i] = wire[i]
    BY <2>3
  <2>6. /\ n + 1 > Len(wire) /\ IsEnd(wire'[n + 1]) /\ EndOf(wire'[n + 1]) = running.turn
        /\ \A i \in 1..Len(wire') : i > Len(wire) =>
             (IsEnd(wire'[i]) => i = n + 1) /\ wire'[i].type # "response"
    BY <1>2, <2>1, <2>3, <2>4
  <2>7. 0 \in {0, 1}
    OBVIOUS
  <2> QED
    BY <1>1, <1>3, <2>3, <2>4, <2>5, <2>6, <2>7, EndWritten DEF Unheard
<1>5. CASE wire' = wire \o <<Chunk(AgentEnd(t), 0), Chunk(AgentEnd(t), 1)>>
  <2>1. PICK f \in JsonlFrames : f = Chunk(AgentEnd(t), 0) /\ ~IsEnd(f) /\ f.type # "response"
    BY EndFrameOf
  <2>2. PICK g \in JsonlFrames :
          g = Chunk(AgentEnd(t), 1) /\ IsEnd(g) /\ EndOf(g) = t /\ g.type # "response"
    BY EndFrameOf
  <2>3. PICK w \in Seq(JsonlFrames) : w = Append(wire, f) /\ wire' = Append(w, g)
    <3>1. wire \o <<f, g>> = Append(Append(wire, f), g) /\ Append(wire, f) \in Seq(JsonlFrames)
      BY <1>3, TwoMore, AppendAt
    <3>2. wire' = wire \o <<f, g>>
      BY <1>5, <2>1, <2>2
    <3> QED
      BY <3>1, <3>2
  <2>4. PICK n \in Nat : n = Len(wire) /\ Len(w) = n + 1 /\ w[n + 1] = f
                          /\ \A i \in 1..n : w[i] = wire[i]
    BY <1>3, <2>3, AppendAt
  <2>5. /\ Len(wire') = n + 2 /\ wire' \in Seq(JsonlFrames) /\ wire'[n + 2] = g
        /\ \A i \in 1..(n + 1) : wire'[i] = w[i]
    <3>1. Len(wire') = (n + 1) + 1 /\ wire'[(n + 1) + 1] = g /\ wire' \in Seq(JsonlFrames)
          /\ \A i \in 1..(n + 1) : wire'[i] = w[i]
      BY <2>3, <2>4, AppendAt
    <3>2. (n + 1) + 1 = n + 2
      OBVIOUS
    <3> QED
      BY <3>1, <3>2
  <2>6. \A i \in 1..n : i \in 1..Len(wire') /\ wire'[i] = wire[i]
    BY <2>4, <2>5
  <2>7. /\ n + 2 \in 1..Len(wire') /\ n + 2 > n /\ n + 1 \in 1..(n + 1)
        /\ \A i \in 1..Len(wire') : i > n => i = n + 1 \/ i = n + 2
    BY <2>5
  <2>8. wire'[n + 1] = f
    BY <2>4, <2>5, <2>7
  <2>9. \A i \in 1..Len(wire) : i \in 1..Len(wire') /\ wire'[i] = wire[i]
    BY <2>4, <2>6
  <2>10. /\ n + 2 > Len(wire) /\ IsEnd(wire'[n + 2]) /\ EndOf(wire'[n + 2]) = running.turn
         /\ \A i \in 1..Len(wire') : i > Len(wire) =>
              (IsEnd(wire'[i]) => i = n + 2) /\ wire'[i].type # "response"
    BY <1>2, <2>1, <2>2, <2>4, <2>5, <2>7, <2>8
  <2>11. 0 \in {0, 1}
    OBVIOUS
  <2> QED
    BY <1>1, <1>3, <2>5, <2>7, <2>9, <2>10, <2>11, EndWritten DEF Unheard
<1> QED
  BY <1>1, <1>2, <1>4, <1>5 DEF EndFrames

LEMMA JsonlHarnessTakesUnheard ==
  ASSUME JsonlInv, JsonlHarnessTakes
  PROVE  Unheard
<1>1. /\ HarnessMoves /\ sent # <<>> /\ sent' = Tail(sent) /\ 1 \in 1..Len(sent)
      /\ Head(sent) = sent[1] /\ SentMoves(1) /\ sent' \in Seq(Messages)
      /\ Head(sent).cmd \in Commands => Head(sent).id \in Nat
  BY HeadTaken DEF JsonlHarnessTakes
<1>2. {"prompt", "abort"} \subseteq Commands /\ wire \in Seq(JsonlFrames)
  BY DEF Commands, JsonlInv, JsonlTypes
<1>3. ASSUME Head(sent).cmd = "prompt", NEW ok \in BOOLEAN, Writes(<<Response(Head(sent).id, ok)>>),
             ~ok => running' = running,
             ok => running' = [id |-> Head(sent).id, turn |-> Head(sent).turn]
      PROVE  Unheard
  <2>1. wire' = Append(wire, Response(Head(sent).id, ok))
    BY <1>1, <1>2, <1>3, OneWritten, ResponseFrame
  <2> QED
    BY <1>1, <1>3, <2>1, PromptTaken DEF Unheard
<1>4. CASE /\ Head(sent).cmd = "abort" /\ running # Idle /\ running' = Idle
           /\ Writes(<<AgentEnd(running.turn), Response(Head(sent).id, TRUE)>>)
  <2>1. PICK t \in 0..MaxTurns : t = running.turn
    BY DEF JsonlInv, JsonlTypes
  <2>2. PICK f \in JsonlFrames : f = AgentEnd(t) /\ IsEnd(f) /\ EndOf(f) = t /\ f.type # "response"
    BY EndFrameOf
  <2>3. PICK g \in JsonlFrames : /\ g = Response(Head(sent).id, TRUE) /\ ~IsEnd(g)
                                 /\ g.type = "response" /\ g.id = Head(sent).id
    BY <1>1, <1>2, <1>4, ResponseFrame
  <2>4. PICK w \in Seq(JsonlFrames) : w = Append(wire, f) /\ wire' = Append(w, g)
    <3>1. wire \o <<f, g>> = Append(Append(wire, f), g) /\ Append(wire, f) \in Seq(JsonlFrames)
      BY <1>2, TwoMore, AppendAt
    <3>2. wire' = wire \o <<f, g>>
      BY <1>4, <2>1, <2>2, <2>3 DEF Writes
    <3> QED
      BY <3>1, <3>2
  <2>5. PICK n \in Nat : n = Len(wire) /\ Len(w) = n + 1 /\ w[n + 1] = f
                          /\ \A i \in 1..n : w[i] = wire[i]
    BY <1>2, <2>4, AppendAt
  <2>6. /\ Len(wire') = n + 2 /\ wire' \in Seq(JsonlFrames) /\ wire'[n + 2] = g
        /\ \A i \in 1..(n + 1) : wire'[i] = w[i]
    <3>1. Len(wire') = (n + 1) + 1 /\ wire'[(n + 1) + 1] = g /\ wire' \in Seq(JsonlFrames)
          /\ \A i \in 1..(n + 1) : wire'[i] = w[i]
      BY <2>4, <2>5, AppendAt
    <3>2. (n + 1) + 1 = n + 2
      OBVIOUS
    <3> QED
      BY <3>1, <3>2
  <2>7. \A i \in 1..n : i \in 1..Len(wire') /\ wire'[i] = wire[i]
    BY <2>5, <2>6
  <2>8. /\ n + 1 \in 1..Len(wire') /\ n + 1 > n /\ n + 1 \in 1..(n + 1)
        /\ \A i \in 1..Len(wire') : i > n => i = n + 1 \/ i = n + 2
    BY <2>6
  <2>9. wire'[n + 1] = f
    BY <2>5, <2>6, <2>8
  <2>10. sent[1].cmd \in Commands \ {"prompt"}
    BY <1>1, <1>2, <1>4
  <2>11. \A i \in 1..Len(wire) : i \in 1..Len(wire') /\ wire'[i] = wire[i]
    BY <2>5, <2>7
  <2>12. /\ n + 1 > Len(wire) /\ IsEnd(wire'[n + 1]) /\ EndOf(wire'[n + 1]) = running.turn
         /\ \A i \in 1..Len(wire') : i > Len(wire) => (IsEnd(wire'[i]) => i = n + 1)
    BY <2>1, <2>2, <2>3, <2>5, <2>6, <2>8, <2>9
  <2>13. \A i \in 1..Len(wire') : i > Len(wire) /\ wire'[i].type = "response" =>
           /\ 1 \in 1..Len(sent) /\ sent[1].cmd \in Commands \ {"prompt"}
           /\ wire'[i].id = sent[1].id
    BY <1>1, <2>2, <2>3, <2>5, <2>6, <2>8, <2>9, <2>10
  <2>14. 1 \in {0, 1}
    OBVIOUS
  <2> QED
    BY <1>1, <1>4, <2>6, <2>8, <2>11, <2>12, <2>13, <2>14, EndWritten DEF Unheard
<1>5. CASE Head(sent).cmd = "abort" /\ Writes(<<Response(Head(sent).id, TRUE)>>) /\ running' = running
  <2>1. PICK g \in JsonlFrames : /\ g = Response(Head(sent).id, TRUE) /\ ~IsEnd(g)
                                 /\ g.type = "response" /\ g.id = Head(sent).id
    BY <1>1, <1>2, <1>5, ResponseFrame
  <2>2. wire' = Append(wire, g)
    BY <1>5, <2>1, OneWritten
  <2> QED
    BY <1>1, <1>2, <1>5, <2>1, <2>2, HarnessWrites DEF Unheard
<1> QED
  BY <1>3, <1>4, <1>5 DEF JsonlHarnessTakes, inside

LEMMA HarnessStepsUnheard ==
  ASSUME JsonlInv, HarnessSteps
  PROVE  Unheard
<1>1. CASE HarnessAsks
  <2>1. PICK p \in Perms : Writes(<<UiRequest(p)>>)
    BY <1>1 DEF HarnessAsks
  <2>2. UiRequest(p) \in JsonlFrames /\ ~IsEnd(UiRequest(p)) /\ UiRequest(p).type # "response"
    BY DEF UiRequest, JsonlFrames, Frames, IsEnd
  <2>3. HarnessMoves /\ sent' = sent /\ running' = running
    BY <1>1 DEF HarnessAsks, Works, Room, HarnessMoves
  <2> QED
    BY <2>1, <2>2, <2>3, OneWritten, HarnessWrites DEF Unheard
<1>2. CASE HarnessReplays
  <2>1. Replay \in JsonlFrames /\ ~IsEnd(Replay) /\ Replay.type # "response"
    BY DEF Replay, JsonlFrames, Frames, IsEnd
  <2>2. HarnessMoves /\ sent' = sent /\ running' = running /\ Writes(<<Replay>>)
    BY <1>2 DEF HarnessReplays, Room, HarnessMoves, inside
  <2> QED
    BY <2>1, <2>2, OneWritten, HarnessWrites DEF Unheard
<1>3. CASE HarnessTakesAnswer
  <2>1. Taking /\ UNCHANGED <<wire, running>>
    BY <1>3 DEF HarnessTakesAnswer
  <2> QED
    BY <2>1, HeadTaken, HarnessTakes DEF Unheard
<1>4. CASE HarnessTakesRequest
  <2>1. Taking /\ running' = running /\ Head(sent).cmd \in Commands \ {"prompt"}
    BY <1>4 DEF HarnessTakesRequest, inside, Opening, Commands
  <2>2. PICK ok \in BOOLEAN : Writes(<<Response(Head(sent).id, ok)>>)
    BY <1>4 DEF HarnessTakesRequest
  <2>3. PICK g \in JsonlFrames : /\ g = Response(Head(sent).id, ok) /\ ~IsEnd(g)
                                 /\ g.type = "response" /\ g.id = Head(sent).id
    BY <2>1, HeadTaken, ResponseFrame
  <2>4. wire' = Append(wire, g)
    BY <2>2, <2>3, OneWritten
  <2> QED
    BY <2>1, <2>3, <2>4, HeadTaken, HarnessWrites DEF Unheard
<1> QED
  BY <1>1, <1>2, <1>3, <1>4 DEF HarnessSteps

-----------------------------------------------------------------------------
(* What the session does.  Core is the invariant without the flow of prompts, their answers and
   their ends, which matters only while the session is open to a live harness. *)

Core == JsonlTypes /\ TurnsInOrder /\ OpensInOrder /\ CallWaits /\ IdsAreOnce

Keeps == JsonlInv' /\ [Contract!Next]_(Contract!contractVars)

LEMMA TurnStep ==
  ASSUME turn' = turn \/ Contract!SettleOne, permissions' = permissions,
         reported \in BOOLEAN, reported' \in BOOLEAN, reported => reported'
  PROVE  [Contract!Next]_(Contract!contractVars)
<1>1. (reported = TRUE \/ reported = FALSE) /\ (reported' = TRUE \/ reported' = FALSE)
  OBVIOUS
<1>2. CASE reported' = reported
  BY <1>2 DEF Contract!Next, Contract!Settle, Contract!contractVars
<1>3. CASE reported = FALSE /\ reported' = TRUE
  BY <1>3 DEF Contract!Next, Contract!Report
<1> QED
  BY <1>1, <1>2, <1>3

LEMMA Refused ==
  ASSUME TheTurn, NEW state \in {"ended", "refused"}, turn' = [turn EXCEPT ![turnCounter] = state]
  PROVE  Contract!SettleOne
  BY DEF TheTurn, Contract!SettleOne, Contract!Settled

(* The first d answers have been dealt with. *)
SettledMoves(d) ==
  /\ Len(settled') = Len(settled) - d
  /\ \A i \in 1..Len(settled') : i + d \in 1..Len(settled) /\ settled'[i] = settled[i + d]

(* Requests and answers are gone, and nothing else: what is left waits as before. *)
LEMMA FewerWait ==
  ASSUME Core, phase \notin OpeningPhases, NEW rest \in SUBSET pending, SendNothing(rest),
         UNCHANGED <<harness, phase, call, turnCounter, permissions, closed, turn, wire, running>>,
         activeTurnId' \in {0, activeTurnId}, settled' \in Seq(Settlement), reported' \in BOOLEAN,
         NEW d \in {0, 1}, SettledMoves(d), Prompts(rest) = Prompts(pending),
         d = 1 => 1 \in 1..Len(settled) /\ ~IsPrompt(1)
  PROVE  Core'
<1>1. /\ pending' = rest /\ UNCHANGED <<nextId, sent>> /\ Prompts(pending)' = Prompts(pending)
  BY DEF SendNothing, Prompts
<1>2. JsonlTypes'
  BY <1>1 DEF Core, JsonlTypes
<1>3. TurnsInOrder'
  BY DEF Core, TurnsInOrder
<1>4. OpensInOrder'
  BY <1>1 DEF Core, OpensInOrder, SettledMoves
<1>5. IdsAreOnce'
  BY <1>1 DEF Core, IdsAreOnce
<1>6. (TheTurn' <=> TheTurn) /\ Len(settled) \in Nat /\ Len(settled') \in Nat
  BY DEF TheTurn, Core, JsonlTypes
<1>7. \A i \in 1..Len(settled') : /\ i + d \in 1..Len(settled) /\ (IsPrompt(i)' <=> IsPrompt(i + d))
                                  /\ settled'[i] = settled[i + d]
  BY DEF IsPrompt, SettledMoves
<1>8. OnePrompt'
  <2>1. \A i, j \in 1..Len(settled') : IsPrompt(i)' /\ IsPrompt(j)' => i = j
    <3>1. ASSUME NEW i \in 1..Len(settled'), NEW j \in 1..Len(settled'), IsPrompt(i)', IsPrompt(j)'
          PROVE  i = j
      <4>1. i + d = j + d
        BY <1>7, <3>1 DEF Core, CallWaits, OnePrompt
      <4> QED
        BY <1>6, <4>1
    <3> QED
      BY <3>1
  <2>2. \A r, q \in Prompts(pending)' : r = q
    BY <1>1 DEF Core, CallWaits, OnePrompt
  <2>3. \A i \in 1..Len(settled') : IsPrompt(i)' => Prompts(pending)' = {}
    BY <1>1, <1>7 DEF Core, CallWaits, OnePrompt
  <2> QED
    BY <2>1, <2>2, <2>3 DEF OnePrompt
<1>9. CallWaits'
  <2>1. \A r \in Prompts(pending)' : PromptAwaited(r)'
    BY <1>1, <1>6 DEF Core, CallWaits, PromptAwaited
  <2>2. \A i \in 1..Len(settled') : IsPrompt(i)' => PromptSettled(i)'
    <3>1. ASSUME NEW i \in 1..Len(settled'), IsPrompt(i)'
          PROVE  PromptSettled(i)'
      <4>1. PromptSettled(i + d) /\ settled'[i] = settled[i + d]
        BY <1>7, <3>1 DEF Core, CallWaits
      <4> QED
        BY <1>6, <4>1 DEF PromptSettled
    <3> QED
      BY <3>1
  <2>3. ASSUME call' = "sent"
        PROVE  Prompts(pending)' # {} \/ \E i \in 1..Len(settled') : IsPrompt(i)'
    <3>1. Prompts(pending) # {} \/ \E i \in 1..Len(settled) : IsPrompt(i)
      BY <2>3 DEF Core, CallWaits
    <3>2. ASSUME NEW i \in 1..Len(settled), IsPrompt(i)
          PROVE  \E k \in 1..Len(settled') : IsPrompt(k)'
      <4>1. i \in Nat /\ (d = 1 => i > 1) /\ Len(settled') = Len(settled) - d
        BY <1>6, <3>2 DEF SettledMoves
      <4>2. PICK k \in 1..Len(settled') : k + d = i
        BY <1>6, <4>1
      <4> QED
        BY <1>7, <3>2, <4>2
    <3> QED
      BY <1>1, <3>1, <3>2
  <2> QED
    BY <1>8, <2>1, <2>2, <2>3 DEF CallWaits
<1> QED
  BY <1>2, <1>3, <1>4, <1>5, <1>9 DEF Core

(* A request of a session that is being opened is the only one. *)
LEMMA OpeningGoesOn ==
  ASSUME Core, phase \in OpeningPhases, settled' = <<>>, reported' \in BOOLEAN,
         UNCHANGED <<harness, call, turnCounter, activeTurnId, permissions, turn, wire, running>>,
         \/ /\ phase' \in {"negotiate", "get_state"} /\ Send({}, phase', 0) /\ closed' = closed
         \/ /\ phase' \in {"open", "failed"} /\ SendNothing({}) /\ (closed' <=> phase' = "failed")
  PROVE  Core'
<1>1. turnCounter = 0 /\ call = "none" /\ 0 \in 0..MaxTurns /\ 0 \notin Turns /\ ~closed
  BY AdapterBounds DEF Core, OpensInOrder, Turns, OpeningPhases
<1>2. /\ pending' \subseteq Request /\ nextId' \in Nat /\ sent' \in Seq(Messages) /\ IdsAreOnce'
      /\ \A r \in pending' : r.cmd = phase' /\ phase' \in {"negotiate", "get_state"}
      /\ \A r, q \in pending' : r = q
  <2>1. CASE phase' \in {"negotiate", "get_state"} /\ Send({}, phase', 0)
    <3>1. PICK cmd \in Commands : cmd = phase' /\ Send({}, cmd, 0)
      BY <2>1 DEF Commands
    <3>2. /\ pending' = {NewRequest(cmd, 0)} /\ nextId' = nextId + 1 /\ IdsAreOnce'
          /\ pending' \subseteq Request /\ nextId' \in Nat /\ sent' \in Seq(Messages)
      <4>1. JsonlTypes /\ IdsAreOnce /\ {} \in SUBSET pending /\ wire' = wire
        BY DEF Core
      <4> QED
        BY <1>1, <3>1, <4>1, Sends
    <3>3. NewRequest(cmd, 0).cmd = cmd
      BY DEF NewRequest
    <3> QED
      BY <2>1, <3>1, <3>2, <3>3
  <2>2. CASE SendNothing({})
    BY <2>2 DEF SendNothing, Core, JsonlTypes, IdsAreOnce
  <2> QED
    BY <2>1, <2>2
<1>3. 1..Len(settled') = {} /\ settled' \in Seq(Settlement)
  OBVIOUS
<1>4. JsonlTypes'
  BY <1>2, <1>3 DEF Core, JsonlTypes, JsonlPhases
<1>5. TurnsInOrder'
  BY <1>1 DEF Core, TurnsInOrder
<1>6. OpensInOrder'
  BY <1>1, <1>2, <1>3 DEF OpensInOrder, OpeningPhases
<1>7. Prompts(pending)' = {}
  BY <1>2 DEF Prompts
<1>8. CallWaits'
  BY <1>1, <1>3, <1>7 DEF CallWaits, OnePrompt
<1> QED
  BY <1>2, <1>4, <1>5, <1>6, <1>8 DEF Core

(* A prompt is answered, or given up: startTurn returns. *)
LEMMA PromptReturns ==
  ASSUME Core, phase = "open", NEW rest \in SUBSET pending, SendNothing(rest), call' = "none",
         UNCHANGED <<harness, phase, turnCounter, permissions, closed, wire, running>>,
         activeTurnId' \in {0, activeTurnId}, settled' \in Seq(Settlement), reported' \in BOOLEAN,
         \A i \in 1..Len(settled') : \E k \in 1..Len(settled) : settled'[i] = settled[k],
         \A i \in 1..Len(settled') : ~IsPrompt(i)', Prompts(rest) = {},
         turn' = turn \/ (TheTurn /\ turn' = [turn EXCEPT ![turnCounter] = "refused"])
  PROVE  Core'
<1>1. pending' = rest /\ UNCHANGED <<nextId, sent>> /\ Prompts(pending)' = {}
  BY DEF SendNothing, Prompts
<1>2. turn' \in [Turns -> {"none", "begun", "ended", "refused"}] /\ turnCounter \in Nat
      /\ turn \in [Turns -> {"none", "begun", "ended", "refused"}]
  BY AdapterBounds DEF Core, JsonlTypes
<1>3. JsonlTypes'
  BY <1>1, <1>2 DEF Core, JsonlTypes
<1>4. TurnsInOrder'
  BY <1>2 DEF Core, TurnsInOrder, TheTurn, Turns
<1>5. OpensInOrder'
  BY <1>1 DEF Core, OpensInOrder, OpeningPhases
<1>6. IdsAreOnce'
  BY <1>1 DEF Core, IdsAreOnce
<1>7. CallWaits'
  BY <1>1 DEF CallWaits, OnePrompt
<1> QED
  BY <1>3, <1>4, <1>5, <1>6, <1>7 DEF Core

(* Requests that are no prompts, answers to them and answers to approvals leave the flow alone. *)
LEMMA FlowTraffic ==
  ASSUME Core, Flow, Prompts(pending') = Prompts(pending),
         UNCHANGED <<wire, running, turn, turnCounter>>,
         \A i \in 1..Len(settled') : \E k \in 1..Len(settled) : settled'[i] = settled[k],
         \/ sent' = sent
         \/ \E m \in Messages : /\ sent' = Append(sent, m) /\ m.cmd # "prompt"
                                /\ m.cmd \in Commands => m.id = nextId
  PROVE  Flow'
<1>1. SentPart /\ TurnPart /\ sent \in Seq(Messages)
  BY DEF Flow, SentPart, TurnPart, Core, JsonlTypes
<1>2. TurnPart'
  BY <1>1, TurnPartSame
<1>3. /\ Resting => Resting'
      /\ \A r \in Prompts(pending) : \A j \in 1..Len(wire') :
           Answers(j, r)' => \E k \in 1..Len(wire) : Answers(k, r)
  BY DEF Resting, EndsAt, Answers
<1>4. SentPart'
  <2>1. CASE sent' = sent
    <3>1. SentMoves(0)
      BY <1>1, <2>1, SentStays
    <3> QED
      BY <1>1, <1>3, <3>1, SentPartKept
  <2>2. ASSUME NEW m \in Messages, sent' = Append(sent, m), m.cmd # "prompt",
               m.cmd \in Commands => m.id = nextId
        PROVE  SentPart'
    <3>1. \A r \in Prompts(pending) : r.id # nextId
      BY DEF Core, IdsAreOnce, JsonlTypes, Prompts, Request
    <3> QED
      BY <1>1, <1>3, <2>2, <3>1, SentPartGrows
  <2> QED
    BY <2>1, <2>2
<1> QED
  BY <1>2, <1>4 DEF Flow, SentPart, TurnPart

LEMMA SentRequest ==
  ASSUME Core, NEW rest \in SUBSET pending, NEW cmd \in Commands, Send(rest, cmd, 0), wire' = wire,
         cmd # "prompt"
  PROVE  /\ pending' = rest \cup {NewRequest(cmd, 0)} /\ NewRequest(cmd, 0).cmd = cmd
         /\ Prompts(pending') = Prompts(rest) /\ pending' \subseteq Request /\ nextId' \in Nat
         /\ sent' \in Seq(Messages) /\ IdsAreOnce'
         /\ \/ sent' = sent
            \/ \E m \in Messages : /\ sent' = Append(sent, m) /\ m.cmd # "prompt"
                                   /\ m.cmd \in Commands => m.id = nextId
<1>1. 0 \in 0..MaxTurns /\ JsonlTypes /\ IdsAreOnce
  BY AdapterBounds DEF Core
<1>2. /\ pending' = rest \cup {NewRequest(cmd, 0)} /\ IdsAreOnce'
      /\ NewRequest(cmd, 0) \in Messages /\ sent' = Written(NewRequest(cmd, 0))
      /\ pending' \subseteq Request /\ nextId' \in Nat /\ sent' \in Seq(Messages)
  BY <1>1, Sends
<1>3. NewRequest(cmd, 0).cmd = cmd /\ NewRequest(cmd, 0).id = nextId
  BY DEF NewRequest
<1>4. Prompts(pending') = Prompts(rest)
  BY <1>2, <1>3 DEF Prompts
<1>5. sent' = sent \/ sent' = Append(sent, NewRequest(cmd, 0))
  BY <1>2 DEF Written
<1> QED
  BY <1>2, <1>3, <1>4, <1>5

(* What follows an answer, a time-out or a rejection. *)
LEMMA AfterCore ==
  ASSUME Core, NEW request \in Request, NEW ok \in BOOLEAN, NEW rest \in SUBSET pending,
         After(request, ok, rest), UNCHANGED <<wire, running>>,
         reported' \in BOOLEAN, reported => reported', settled' \in Seq(Settlement),
         NEW d \in {0, 1}, SettledMoves(d),
         d = 1 => 1 \in 1..Len(settled) /\ settled[1].request = request,
         phase \in OpeningPhases => request.cmd = phase /\ rest = {} /\ settled' = <<>>,
         phase \notin OpeningPhases => request.cmd # "negotiate",
         request.cmd = "prompt" =>
           /\ phase = "open" /\ Prompts(rest) = {} /\ request.turn = turnCounter
           /\ \A i \in 1..Len(settled') : ~IsPrompt(i)'
           /\ ~ok => TheTurn,
         request.cmd # "prompt" => Prompts(rest) = Prompts(pending)
  PROVE  Core' /\ [Contract!Next]_(Contract!contractVars)
<1>1. UNCHANGED <<harness, turnCounter, permissions>>
  BY DEF After
<1>2. reported \in BOOLEAN
  BY DEF Core, JsonlTypes
<1>3. turn' = turn \/ (request.cmd = "prompt" /\ TheTurn
                       /\ turn' = [turn EXCEPT ![turnCounter] = "refused"])
  BY DEF After, AfterNegotiate, AfterState, AfterPoll, AfterPrompt, AfterOther
<1>4. [Contract!Next]_(Contract!contractVars)
  BY <1>1, <1>2, <1>3, Refused, TurnStep
<1>5. ASSUME phase \notin OpeningPhases, SendNothing(rest), request.cmd # "prompt",
             UNCHANGED <<phase, activeTurnId, call, closed, turn>>
      PROVE  Core'
  <2>1. d = 1 => ~IsPrompt(1)
    BY <1>5 DEF IsPrompt
  <2>2. activeTurnId' \in {0, activeTurnId}
    BY <1>5
  <2> QED
    BY <1>1, <1>5, <2>1, <2>2, FewerWait
<1>6. CASE AfterNegotiate(request, ok, rest)
  <2>1. phase \in OpeningPhases /\ rest = {} /\ settled' = <<>> /\ phase' = "get_state"
        /\ Send({}, phase', 0) /\ UNCHANGED <<activeTurnId, call, closed, turn>>
    BY <1>6 DEF AfterNegotiate
  <2> QED
    BY <1>1, <1>4, <2>1, OpeningGoesOn
<1>7. CASE AfterState(request, ok, rest)
  <2>1. phase \in OpeningPhases /\ rest = {} /\ settled' = <<>>
        /\ SendNothing({}) /\ UNCHANGED <<activeTurnId, call, turn>>
    BY <1>7 DEF AfterState, OpeningPhases
  <2>2. phase' \in {"open", "failed"} /\ (closed' <=> phase' = "failed")
    BY <1>7 DEF AfterState
  <2> QED
    BY <1>1, <1>4, <2>1, <2>2, OpeningGoesOn
<1>8. CASE AfterPoll(request, ok, rest)
  <2>1. phase \notin OpeningPhases
    BY <1>8 DEF AfterPoll
  <2>2. request.cmd # "prompt" /\ SendNothing(rest) /\ UNCHANGED <<phase, activeTurnId, call, closed, turn>>
    BY <1>8 DEF AfterPoll
  <2> QED
    BY <1>4, <1>5, <2>1, <2>2
<1>9. CASE AfterOther(request, ok, rest)
  <2>1. phase \notin OpeningPhases
    BY <1>9 DEF AfterOther, OpeningPhases
  <2> QED
    BY <1>4, <1>5, <1>9, <2>1 DEF AfterOther
<1>10. CASE AfterPrompt(request, ok, rest)
  <2>1. /\ SendNothing(rest) /\ call' = "none" /\ activeTurnId' \in {0, activeTurnId}
        /\ UNCHANGED <<phase, closed>> /\ request.cmd = "prompt"
    BY <1>10 DEF AfterPrompt
  <2>2. \A i \in 1..Len(settled') : \E k \in 1..Len(settled) : settled'[i] = settled[k]
    BY DEF SettledMoves
  <2> QED
    BY <1>1, <1>3, <1>4, <2>1, <2>2, PromptReturns
<1> QED
  BY <1>6, <1>7, <1>8, <1>9, <1>10 DEF After

LEMMA AfterFlow ==
  ASSUME Core, Flow, NEW request \in Request, NEW ok \in BOOLEAN, NEW rest \in SUBSET pending,
         After(request, ok, rest), UNCHANGED <<wire, running>>,
         \A i \in 1..Len(settled') : \E k \in 1..Len(settled) : settled'[i] = settled[k],
         Prompts(rest) = Prompts(pending),
         request.cmd = "prompt" =>
           /\ Prompts(pending) = {} /\ request.turn = turnCounter
           /\ \A i \in 1..Len(settled') : ~IsPrompt(i)'
           /\ ~ok => Resting
  PROVE  Flow'
<1>1. UNCHANGED turnCounter
  BY DEF After
<1>2. ASSUME turn' = turn, SendNothing(rest) \/ Send(rest, "get_state", 0)
      PROVE  Flow'
  <2>1. CASE SendNothing(rest)
    <3>1. Prompts(pending') = Prompts(pending) /\ sent' = sent
      BY <2>1 DEF SendNothing
    <3> QED
      BY <1>1, <1>2, <3>1, FlowTraffic
  <2>2. CASE Send(rest, "get_state", 0)
    <3>1. "get_state" \in Commands
      BY DEF Commands
    <3> QED
      BY <1>1, <1>2, <2>2, <3>1, SentRequest, FlowTraffic
  <2> QED
    BY <1>2, <2>1, <2>2
<1>3. ASSUME request.cmd = "prompt", ~ok, SendNothing(rest)
      PROVE  Flow'
  <2>1. running' = Idle /\ EndsAt' = {} /\ Resting'
    BY <1>3 DEF Resting, EndsAt
  <2>2. Prompts(pending)' = {} /\ sent' = sent
    BY <1>3 DEF SendNothing, Prompts
  <2>3. \A i \in 1..Len(sent') : sent'[i].cmd # "prompt"
    BY <1>3, <2>2 DEF Flow, PromptsUntaken, UntakenPrompt, Prompts
  <2>4. PromptsUntaken' /\ OthersElse'
    BY <2>2, <2>3 DEF PromptsUntaken, OthersElse
  <2>5. RunsTheTurn' /\ EndsTheTurn'
    BY <2>1 DEF RunsTheTurn, EndsTheTurn
  <2>6. AnswersFirst' /\ RestsBefore'
    BY <2>2 DEF AnswersFirst, RestsBefore
  <2>7. RestsRefused'
    BY <1>3 DEF RestsRefused
  <2> QED
    BY <2>4, <2>5, <2>6, <2>7 DEF Flow
<1>4. CASE AfterPrompt(request, ok, rest)
  BY <1>2, <1>3, <1>4 DEF AfterPrompt
<1>5. CASE AfterNegotiate(request, ok, rest)
  BY <1>2, <1>5 DEF AfterNegotiate
<1>6. CASE AfterState(request, ok, rest) \/ AfterPoll(request, ok, rest)
           \/ AfterOther(request, ok, rest)
  BY <1>2, <1>6 DEF AfterState, AfterPoll, AfterOther
<1> QED
  BY <1>4, <1>5, <1>6 DEF After

LEMMA FlowStays ==
  ASSUME Core', [Contract!Next]_(Contract!contractVars), (Alive /\ ~closed)' => Flow',
         ~Alive' => wire' = <<>>
  PROVE  Keeps
  BY DEF Keeps, JsonlInv, Core, FlowKept

LEMMA CoreNow ==
  ASSUME JsonlInv
  PROVE  /\ Core /\ (Alive /\ ~closed => Flow) /\ (~Alive => wire = <<>>)
         /\ settled \in Seq(Settlement) /\ Len(settled) \in Nat
         /\ wire \in Seq(JsonlFrames) /\ sent \in Seq(Messages)
         /\ reported \in BOOLEAN
  BY DEF Core, JsonlInv, FlowKept, JsonlTypes

(* The continuation of a request, a microtask. *)
LEMMA JsonlContinuesKeeps ==
  ASSUME JsonlInv, JsonlContinues
  PROVE  Keeps
<1>1. /\ settled \in Seq(Settlement) /\ settled # <<>> /\ settled' = Tail(settled)
      /\ After(Head(settled).request, Head(settled).ok, pending)
      /\ UNCHANGED <<proc, wire, running, reported>>
  BY CoreNow DEF JsonlContinues, Quiet, inside
<1>2. /\ Len(settled) \in Nat \ {0} /\ Len(settled') = Len(settled) - 1 /\ settled' \in Seq(Settlement)
      /\ Head(settled) = settled[1] /\ settled[1] \in Settlement /\ 1 \in 1..Len(settled)
      /\ \A i \in 1..Len(settled') : settled'[i] = settled[i + 1] /\ i + 1 \in 1..Len(settled)
  BY <1>1, TailAt
<1>3. PICK request \in Request, ok \in BOOLEAN :
        request = settled[1].request /\ ok = settled[1].ok /\ After(request, ok, pending)
  BY <1>1, <1>2 DEF Settlement
<1>4. SettledMoves(1)
  BY <1>2 DEF SettledMoves
<1>5. ASSUME phase \in OpeningPhases
      PROVE  request.cmd = phase /\ pending = {} /\ settled' = <<>>
  <2>1. \A i \in 1..Len(settled) : settled[i].request.cmd = phase /\ i = 1 /\ pending = {}
    BY <1>5 DEF JsonlInv, OpensInOrder
  <2>2. Len(settled) \in 1..Len(settled)
    BY <1>2
  <2>3. Len(settled') = 0
    BY <1>2, <2>1, <2>2
  <2> QED
    BY <1>2, <1>3, <2>1, <2>3
<1>6. phase \notin OpeningPhases => request.cmd # "negotiate"
  BY <1>2, <1>3 DEF JsonlInv, OpensInOrder
<1>7. ASSUME request.cmd = "prompt"
      PROVE  /\ phase = "open" /\ Prompts(pending) = {} /\ request.turn = turnCounter
             /\ \A i \in 1..Len(settled') : ~IsPrompt(i)'
             /\ ~ok => TheTurn
             /\ Flow /\ ~ok => Resting
  <2>1. IsPrompt(1)
    BY <1>3, <1>7 DEF IsPrompt
  <2>2. PromptSettled(1) /\ Prompts(pending) = {}
    BY <1>2, <2>1 DEF JsonlInv, CallWaits, OnePrompt
  <2>3. \A i \in 1..Len(settled') : ~IsPrompt(i)'
    <3>1. \A i \in 1..Len(settled') : i + 1 \in 1..Len(settled) /\ i + 1 # 1
                                      /\ (IsPrompt(i)' <=> IsPrompt(i + 1))
      BY <1>2 DEF IsPrompt
    <3> QED
      BY <1>2, <2>1, <3>1 DEF JsonlInv, CallWaits, OnePrompt
  <2>4. Flow /\ ~ok => Resting
    BY <1>2, <1>3, <2>1 DEF Flow, RestsRefused
  <2> QED
    BY <1>3, <2>2, <2>3, <2>4 DEF PromptSettled
<1>8. Core' /\ [Contract!Next]_(Contract!contractVars)
  <2>1. reported' \in BOOLEAN /\ (reported => reported') /\ pending \in SUBSET pending /\ 1 \in {0, 1}
    BY <1>1, CoreNow
  <2> QED
    BY <1>1, <1>2, <1>3, <1>4, <1>5, <1>6, <1>7, <2>1, CoreNow, AfterCore
<1>9. ASSUME (Alive /\ ~closed)'
      PROVE  Flow'
  <2>1. Alive
    BY <1>1, <1>9 DEF Alive
  <2>2. ~closed
    BY <1>3, <1>9 DEF After, AfterNegotiate, AfterState, AfterPoll, AfterPrompt, AfterOther,
                      JsonlInv, OpensInOrder
  <2>3. Flow /\ pending \in SUBSET pending
    BY <2>1, <2>2, CoreNow
  <2>4. \A i \in 1..Len(settled') : \E k \in 1..Len(settled) : settled'[i] = settled[k]
    BY <1>2
  <2> QED
    BY <1>1, <1>3, <1>7, <2>3, <2>4, CoreNow, AfterFlow
<1>10. ~Alive' => wire' = <<>>
  BY <1>1, CoreNow DEF Alive
<1> QED
  BY <1>8, <1>9, <1>10, FlowStays

LEMMA NothingSettled ==
  ASSUME settled = <<>>, settled' = settled
  PROVE  /\ SettledMoves(0) /\ settled' \in Seq(Settlement) /\ Len(settled) = 0
         /\ \A i \in 1..Len(settled') : ~IsPrompt(i)'
         /\ \A i \in 1..Len(settled') : \E k \in 1..Len(settled) : settled'[i] = settled[k]
<1>1. Len(settled) = 0 /\ Len(settled') = 0
  OBVIOUS
<1> QED
  BY <1>1 DEF SettledMoves

(* A timer, or the end of the process: the request is given up. *)
LEMMA GivenUp ==
  ASSUME JsonlInv, NEW request \in pending, NEW rest \in SUBSET pending, After(request, FALSE, rest),
         settled = <<>>, UNCHANGED <<settled, wire, running>>,
         reported' \in BOOLEAN, reported => reported',
         request \notin rest,
         rest = pending \ {request} \/ (rest = {} /\ request.cmd \in {"negotiate", "prompt", phase})
  PROVE  Core' /\ [Contract!Next]_(Contract!contractVars)
<1>1. request \in Request /\ FALSE \in BOOLEAN /\ 0 \in {0, 1}
  BY DEF JsonlInv, JsonlTypes
<1>2. phase \in OpeningPhases => request.cmd = phase /\ rest = {} /\ settled' = <<>>
  BY DEF JsonlInv, OpensInOrder
<1>3. phase \notin OpeningPhases => request.cmd # "negotiate"
  BY DEF JsonlInv, OpensInOrder
<1>4. request.cmd = "prompt" => /\ phase = "open" /\ Prompts(rest) = {} /\ request.turn = turnCounter
                                /\ TheTurn
  <2>1. request.cmd = "prompt" => request \in Prompts(pending)
    BY DEF Prompts
  <2>2. Prompts(rest) \subseteq Prompts(pending) \ {request}
    BY DEF Prompts
  <2> QED
    BY <2>1, <2>2 DEF JsonlInv, CallWaits, OnePrompt, PromptAwaited
<1>5. request.cmd # "prompt" => Prompts(rest) = Prompts(pending)
  <2>1. CASE rest = pending \ {request}
    BY <2>1 DEF Prompts
  <2>2. CASE request.cmd \in {"negotiate", phase} /\ rest = {} /\ request.cmd # "prompt"
    <3>1. request.cmd \in Commands
      BY <1>1 DEF Request
    <3>2. phase \in JsonlPhases
      BY DEF JsonlInv, JsonlTypes
    <3>3. phase \in OpeningPhases
      BY <1>3, <2>2, <3>1, <3>2 DEF Commands, JsonlPhases, OpeningPhases
    <3>4. \A r \in pending : r.cmd # "prompt"
      BY <3>3 DEF JsonlInv, OpensInOrder, OpeningPhases
    <3> QED
      BY <2>2, <3>4 DEF Prompts
  <2> QED
    BY <2>1, <2>2
<1>6. SettledMoves(0) /\ settled' \in Seq(Settlement) /\ \A i \in 1..Len(settled') : ~IsPrompt(i)'
  BY NothingSettled
<1>7. UNCHANGED <<wire, running>> /\ Core
  BY CoreNow
<1>8. 0 = 1 => 1 \in 1..Len(settled) /\ settled[1].request = request
  OBVIOUS
<1>9. request.cmd = "prompt" =>
        /\ phase = "open" /\ Prompts(rest) = {} /\ request.turn = turnCounter
        /\ \A i \in 1..Len(settled') : ~IsPrompt(i)'
        /\ ~FALSE => TheTurn
  BY <1>4, <1>6
<1> QED
  BY <1>1, <1>2, <1>3, <1>5, <1>6, <1>7, <1>8, <1>9, AfterCore

LEMMA JsonlTimesOutKeeps ==
  ASSUME JsonlInv, ~Allows("late"), JsonlTimesOut
  PROVE  Keeps
<1>1. PICK request \in pending : /\ request.cmd = "prompt" => ~Alive
                                 /\ After(request, FALSE, pending \ {request})
  BY DEF JsonlTimesOut
<1>2. settled = <<>> /\ UNCHANGED <<settled, proc, wire, running, reported>>
  BY DEF JsonlTimesOut, Quiet, inside
<1>3. Core' /\ [Contract!Next]_(Contract!contractVars)
  <2>1. reported' \in BOOLEAN /\ (reported => reported')
    BY <1>2, CoreNow
  <2> QED
    BY <1>1, <1>2, <2>1, GivenUp
<1>4. ASSUME (Alive /\ ~closed)'
      PROVE  Flow'
  <2>1. Alive /\ request.cmd # "prompt"
    BY <1>1, <1>2, <1>4 DEF Alive
  <2>2. ~closed
    BY <1>1, <1>4 DEF After, AfterNegotiate, AfterState, AfterPoll, AfterPrompt, AfterOther,
                      JsonlInv, OpensInOrder
  <2>3. Flow /\ request \in Request /\ FALSE \in BOOLEAN
    BY <2>1, <2>2, CoreNow DEF JsonlInv, JsonlTypes
  <2>4. Prompts(pending \ {request}) = Prompts(pending)
    BY <2>1 DEF Prompts
  <2> QED
    BY <1>1, <1>2, <2>1, <2>3, <2>4, CoreNow, NothingSettled, AfterFlow
<1>5. ~Alive' => wire' = <<>>
  BY <1>2, CoreNow DEF Alive
<1> QED
  BY <1>3, <1>4, <1>5, FlowStays

(* All that waited is rejected; one continuation at most does anything. *)
LEMMA JsonlExitsKeeps ==
  ASSUME JsonlInv, ~Allows("unread"), JsonlExits
  PROVE  Keeps
<1>1. settled = <<>> /\ UNCHANGED <<settled, wire, running>> /\ wire = <<>> /\ ~Alive'
  BY DEF JsonlExits, Quiet, inside, Alive
<1>2. reported' \in BOOLEAN /\ (reported => reported')
  <2>1. reported' = (reported \/ (Subscribed /\ ~closed))
    BY DEF JsonlExits
  <2> QED
    BY <2>1, Zenon
<1>3. ASSUME NEW request \in pending, request.cmd \in {"negotiate", "prompt"} \/ request.cmd = phase,
             After(request, FALSE, {})
      PROVE  Core' /\ [Contract!Next]_(Contract!contractVars)
  <2>1. request.cmd \in {"negotiate", "prompt", phase} /\ {} \in SUBSET pending /\ request \notin {}
    BY <1>3
  <2> QED
    BY <1>1, <1>2, <1>3, <2>1, GivenUp
<1>4. ASSUME \A request \in pending : request.cmd \notin {"negotiate", "prompt", phase},
             SendNothing({}), UNCHANGED <<object, closed, turn>>
      PROVE  Core' /\ [Contract!Next]_(Contract!contractVars)
  <2>1. UNCHANGED <<harness, phase, call, turnCounter, activeTurnId, permissions, closed, turn>>
    BY <1>4 DEF object
  <2>2. Prompts(pending) = {} /\ Prompts({}) = {}
    BY <1>4 DEF Prompts
  <2>3. [Contract!Next]_(Contract!contractVars)
    BY <1>2, <2>1, CoreNow, TurnStep
  <2>4. pending' = {} /\ UNCHANGED <<nextId, sent>> /\ 1..Len(settled') = {}
        /\ settled' \in Seq(Settlement)
    BY <1>1, <1>4 DEF SendNothing
  <2>5. JsonlTypes'
    BY <1>1, <1>2, <2>1, <2>4 DEF JsonlInv, JsonlTypes
  <2>6. TurnsInOrder'
    BY <2>1 DEF JsonlInv, TurnsInOrder
  <2>7. OpensInOrder'
    BY <2>1, <2>4 DEF JsonlInv, OpensInOrder
  <2>8. IdsAreOnce'
    BY <1>1, <2>4 DEF JsonlInv, IdsAreOnce
  <2>9. CallWaits'
    <3>1. call # "sent"
      <4>1. 1..Len(settled) = {}
        BY <1>1
      <4> QED
        BY <2>2, <4>1 DEF JsonlInv, CallWaits
    <3>2. Prompts(pending)' = {}
      BY <2>4 DEF Prompts
    <3> QED
      BY <2>1, <2>4, <3>1, <3>2 DEF CallWaits, OnePrompt
  <2> QED
    BY <2>3, <2>5, <2>6, <2>7, <2>8, <2>9 DEF Core
<1>5. Core' /\ [Contract!Next]_(Contract!contractVars)
  BY <1>3, <1>4 DEF JsonlExits, FailAllPending
<1> QED
  BY <1>1, <1>5, FlowStays

-----------------------------------------------------------------------------
(* Calls that send something which is no prompt. *)

LEMMA JsonlOpensKeeps ==
  ASSUME JsonlInv, JsonlOpens
  PROVE  Keeps
<1>1. /\ phase = "spawned" /\ phase' \in {"negotiate", "get_state"} /\ Send(pending, phase', 0)
      /\ UNCHANGED <<harness, call, turnCounter, activeTurnId, permissions, turn, wire, running>>
      /\ UNCHANGED <<closed, settled, proc, reported>>
  BY DEF JsonlOpens, inside, seen
<1>2. pending = {}
  <2>1. \A r \in pending : r.cmd = "spawned" /\ r.cmd \in Commands
    BY <1>1 DEF JsonlInv, OpensInOrder, OpeningPhases, JsonlTypes, Request
  <2> QED
    BY <2>1 DEF Commands
<1>3. settled = <<>>
  <2>1. \A i \in 1..Len(settled) : settled[i] \in Settlement
    BY CoreNow
  <2>2. \A i \in 1..Len(settled) : settled[i].request.cmd \in Commands
    BY <2>1 DEF Settlement, Request
  <2>3. \A i \in 1..Len(settled) : settled[i].request.cmd = "spawned"
    BY <1>1 DEF JsonlInv, OpensInOrder, OpeningPhases
  <2>4. \A i \in 1..Len(settled) : FALSE
    BY <2>2, <2>3 DEF Commands
  <2>5. Len(settled) = 0
    BY <2>4, CoreNow
  <2> QED
    BY <2>5, CoreNow
<1>4. Core'
  <2>1. phase \in OpeningPhases /\ reported' \in BOOLEAN /\ settled' = <<>>
    BY <1>1, <1>3, CoreNow DEF OpeningPhases
  <2> QED
    BY <1>1, <1>2, <2>1, CoreNow, OpeningGoesOn
<1>5. [Contract!Next]_(Contract!contractVars)
  BY <1>1 DEF Contract!contractVars
<1>6. ASSUME (Alive /\ ~closed)'
      PROVE  Flow'
  <2>1. Flow
    BY <1>1, <1>6, CoreNow DEF Alive
  <2>2. PICK cmd \in Commands : cmd = phase' /\ cmd # "prompt"
    BY <1>1 DEF Commands
  <2>3. pending \in SUBSET pending /\ Send(pending, cmd, 0) /\ Core
    BY <1>1, <2>2, CoreNow
  <2>4. \A i \in 1..Len(settled') : \E k \in 1..Len(settled) : settled'[i] = settled[k]
    BY <1>1
  <2> QED
    BY <1>1, <2>1, <2>2, <2>3, <2>4, SentRequest, FlowTraffic
<1>7. ~Alive' => wire' = <<>>
  BY <1>1, CoreNow DEF Alive
<1> QED
  BY <1>4, <1>5, <1>6, <1>7, FlowStays

LEMMA JsonlSends ==
  ASSUME JsonlInv, phase \notin OpeningPhases, NEW cmd \in {"get_state", "abort", "set_model"},
         Send(pending, cmd, 0), UNCHANGED <<object, closed, settled, proc, wire, inside, seen>>
  PROVE  Keeps
<1>1. /\ UNCHANGED <<harness, phase, call, turnCounter, activeTurnId, permissions, turn, wire, running>>
      /\ UNCHANGED <<closed, settled, proc, reported>>
  BY DEF object, inside, seen
<1>2. cmd \in Commands /\ cmd \notin {"prompt", "negotiate"} /\ pending \in SUBSET pending /\ Core
  BY CoreNow DEF Commands
<1>3. /\ pending' = pending \cup {NewRequest(cmd, 0)} /\ NewRequest(cmd, 0).cmd = cmd
      /\ Prompts(pending') = Prompts(pending) /\ pending' \subseteq Request /\ nextId' \in Nat
      /\ sent' \in Seq(Messages) /\ IdsAreOnce'
      /\ \/ sent' = sent
         \/ \E m \in Messages : /\ sent' = Append(sent, m) /\ m.cmd # "prompt"
                                /\ m.cmd \in Commands => m.id = nextId
  BY <1>1, <1>2, SentRequest
<1>4. JsonlTypes'
  BY <1>1, <1>3 DEF JsonlInv, JsonlTypes
<1>5. TurnsInOrder'
  BY <1>1 DEF JsonlInv, TurnsInOrder
<1>6. OpensInOrder'
  BY <1>1, <1>2, <1>3 DEF JsonlInv, OpensInOrder
<1>7. CallWaits'
  <2>1. Prompts(pending)' = Prompts(pending) /\ (TheTurn' <=> TheTurn)
    BY <1>1, <1>3 DEF Prompts, TheTurn
  <2>2. \A i : IsPrompt(i)' <=> IsPrompt(i)
    BY <1>1 DEF IsPrompt
  <2> QED
    BY <1>1, <2>1, <2>2 DEF JsonlInv, CallWaits, OnePrompt, PromptAwaited, PromptSettled
<1>8. [Contract!Next]_(Contract!contractVars)
  BY <1>1 DEF Contract!contractVars
<1>9. ASSUME (Alive /\ ~closed)'
      PROVE  Flow'
  <2>1. Flow
    BY <1>1, <1>9, CoreNow DEF Alive
  <2>2. \A i \in 1..Len(settled') : \E k \in 1..Len(settled) : settled'[i] = settled[k]
    BY <1>1
  <2> QED
    BY <1>1, <1>2, <1>3, <2>1, <2>2, FlowTraffic
<1>10. ~Alive' => wire' = <<>>
  BY <1>1, CoreNow DEF Alive
<1>11. Core'
  BY <1>3, <1>4, <1>5, <1>6, <1>7 DEF Core
<1> QED
  BY <1>8, <1>9, <1>10, <1>11, FlowStays

(* An approval is answered, or not. *)
LEMMA AnswerWritten ==
  ASSUME JsonlInv, sent' = sent \/ \E p \in Perms : sent' = Written(Answer(p))
  PROVE  /\ sent' \in Seq(Messages)
         /\ \A i \in 1..Len(sent') : sent'[i].cmd \in Commands => sent'[i].id < nextId
         /\ \/ sent' = sent
            \/ \E m \in Messages : /\ sent' = Append(sent, m) /\ m.cmd # "prompt"
                                   /\ m.cmd \notin Commands
<1>1. \/ sent' = sent
      \/ \E m \in Messages : sent' = Append(sent, m) /\ m.cmd = "answer"
  <2>1. ASSUME NEW p \in Perms, sent' = Written(Answer(p))
        PROVE  \/ sent' = sent
               \/ \E m \in Messages : sent' = Append(sent, m) /\ m.cmd = "answer"
    <3>1. Answer(p) \in Messages /\ Answer(p).cmd = "answer"
      BY DEF Answer, Messages
    <3> QED
      BY <2>1, <3>1 DEF Written
  <2> QED
    BY <2>1
<1>2. "answer" \notin Commands /\ "answer" # "prompt"
  BY DEF Commands
<1>3. CASE sent' = sent
  BY <1>3 DEF JsonlInv, JsonlTypes, IdsAreOnce
<1>4. ASSUME NEW m \in Messages, sent' = Append(sent, m), m.cmd = "answer"
      PROVE  /\ sent' \in Seq(Messages)
             /\ \A i \in 1..Len(sent') : sent'[i].cmd \in Commands => sent'[i].id < nextId
  <2>1. PICK n \in Nat : n = Len(sent) /\ Len(sent') = n + 1 /\ sent'[n + 1] = m
                          /\ sent' \in Seq(Messages) /\ \A i \in 1..n : sent'[i] = sent[i]
    BY <1>4, CoreNow, AppendAt
  <2> QED
    BY <1>2, <1>4, <2>1 DEF JsonlInv, IdsAreOnce
<1> QED
  BY <1>1, <1>2, <1>3, <1>4

LEMMA PiRespondsKeeps ==
  ASSUME JsonlInv, PiResponds
  PROVE  Keeps
<1>1. PICK p \in permissions : permissions' = permissions \ {p} /\ sent' = Written(Answer(p))
  BY DEF PiResponds
<1>2. /\ UNCHANGED <<harness, phase, call, turnCounter, activeTurnId, turn, wire, running>>
      /\ UNCHANGED <<closed, pending, nextId, settled, proc, reported>>
  BY DEF PiResponds, transport, inside, seen
<1>3. p \in Perms /\ permissions' \subseteq Perms
  BY <1>1 DEF JsonlInv, JsonlTypes
<1>4. /\ sent' \in Seq(Messages)
      /\ \A i \in 1..Len(sent') : sent'[i].cmd \in Commands => sent'[i].id < nextId
      /\ \/ sent' = sent
         \/ \E m \in Messages : /\ sent' = Append(sent, m) /\ m.cmd # "prompt"
                                /\ m.cmd \notin Commands
  BY <1>1, <1>3, AnswerWritten
<1>5. JsonlTypes'
  BY <1>2, <1>3, <1>4 DEF JsonlInv, JsonlTypes
<1>6. TurnsInOrder' /\ OpensInOrder'
  BY <1>2 DEF JsonlInv, TurnsInOrder, OpensInOrder
<1>7. CallWaits'
  <2>1. Prompts(pending)' = Prompts(pending) /\ (TheTurn' <=> TheTurn)
    BY <1>2 DEF Prompts, TheTurn
  <2>2. \A i : IsPrompt(i)' <=> IsPrompt(i)
    BY <1>2 DEF IsPrompt
  <2> QED
    BY <1>2, <2>1, <2>2 DEF JsonlInv, CallWaits, OnePrompt, PromptAwaited, PromptSettled
<1>8. IdsAreOnce'
  BY <1>2, <1>4 DEF JsonlInv, IdsAreOnce
<1>9. ASSUME (Alive /\ ~closed)'
      PROVE  Flow'
  <2>1. Flow
    BY <1>2, <1>9, CoreNow DEF Alive
  <2>2. \A i \in 1..Len(settled') : \E k \in 1..Len(settled) : settled'[i] = settled[k]
    BY <1>2
  <2>3. Prompts(pending') = Prompts(pending)
    BY <1>2
  <2> QED
    BY <1>2, <1>4, <2>1, <2>2, <2>3, CoreNow, FlowTraffic
<1>10. ~Alive' => wire' = <<>>
  BY <1>2, CoreNow DEF Alive
<1>11. Core' /\ [Contract!Next]_(Contract!contractVars)
  BY <1>1, <1>2, <1>5, <1>6, <1>7, <1>8 DEF Core, Contract!Next, Contract!Answer
<1> QED
  BY <1>9, <1>10, <1>11, FlowStays

-----------------------------------------------------------------------------
(* startTurn and close. *)

LEMMA NoPromptWaits ==
  ASSUME Core, settled = <<>>, call # "sent"
  PROVE  Prompts(pending) = {} /\ Len(settled) = 0
<1>1. Prompts(pending) = {}
  BY DEF Core, CallWaits, PromptAwaited
<1> QED
  BY <1>1

LEMMA CallMoves ==
  ASSUME Core, settled = <<>>, call # "sent", call' \in {"none", "gate"},
         UNCHANGED <<harness, phase, permissions, closed, pending, nextId, settled, sent, wire>>,
         UNCHANGED <<running, turn, reported>>,
         turnCounter' \in 0..MaxTurns, activeTurnId' \in {0, turnCounter'}, TurnsInOrder',
         phase \in OpeningPhases => turnCounter' = turnCounter /\ call' = call
  PROVE  Core'
<1>1. Prompts(pending)' = {} /\ 1..Len(settled') = {}
  BY NoPromptWaits DEF Prompts
<1>2. JsonlTypes'
  BY DEF Core, JsonlTypes
<1>3. OpensInOrder'
  BY DEF Core, OpensInOrder
<1>4. CallWaits'
  BY <1>1 DEF CallWaits, OnePrompt
<1>5. IdsAreOnce'
  BY DEF Core, IdsAreOnce
<1> QED
  BY <1>2, <1>3, <1>4, <1>5 DEF Core

(* omp waits for its tools: the turn before is over. *)
LEMMA OmpGatesKeeps ==
  ASSUME JsonlInv, OmpGates
  PROVE  Keeps
<1>1. /\ call' = "gate" /\ call = "none" /\ settled = <<>> /\ phase = "open"
      /\ turnCounter > 0 /\ turnCounter < MaxTurns /\ \A t \in Turns : turn[t] # "begun"
      /\ UNCHANGED <<harness, phase, permissions, closed, pending, nextId, settled, sent, wire>>
      /\ UNCHANGED <<running, turn, reported, turnCounter, activeTurnId, proc>>
  BY DEF OmpGates, MayStart, MustGate, Quiet, transport, process, inside, seen
<1>2. turnCounter \in 0..MaxTurns /\ MaxTurns \in Nat /\ activeTurnId \in {0, turnCounter}
      /\ turn \in [Turns -> {"none", "begun", "ended", "refused"}]
  BY AdapterBounds DEF JsonlInv, JsonlTypes
<1>3. turnCounter \in Turns /\ turn[turnCounter] \in {"ended", "refused"}
  <2>1. turnCounter \in Turns
    BY <1>1, <1>2 DEF Turns
  <2>2. turn[turnCounter] # "none"
    BY <1>1, <2>1 DEF JsonlInv, TurnsInOrder
  <2> QED
    BY <1>1, <1>2, <2>1, <2>2
<1>4. TurnsInOrder'
  BY <1>1, <1>3 DEF JsonlInv, TurnsInOrder
<1>5. Core'
  <2>1. phase \notin OpeningPhases
    BY <1>1 DEF OpeningPhases
  <2> QED
    BY <1>1, <1>2, <1>4, <2>1, CoreNow, CallMoves
<1>6. [Contract!Next]_(Contract!contractVars)
  BY <1>1 DEF Contract!contractVars
<1>7. ASSUME (Alive /\ ~closed)'
      PROVE  Flow'
  <2>1. Flow
    BY <1>1, <1>7, CoreNow DEF Alive
  <2>2. \A i \in 1..Len(settled') : \E k \in 1..Len(settled) : settled'[i] = settled[k]
    BY <1>1
  <2>3. Prompts(pending') = Prompts(pending)
    BY <1>1
  <2> QED
    BY <1>1, <2>1, <2>2, <2>3, CoreNow, FlowTraffic
<1>8. ~Alive' => wire' = <<>>
  BY <1>1, CoreNow DEF Alive
<1> QED
  BY <1>5, <1>6, <1>7, <1>8, FlowStays

(* The prompt of a turn is sent: the harness rests, and nothing answers it yet. *)
LEMMA PromptSentFlow ==
  ASSUME Core, Flow, settled = <<>>, settled' = settled, call # "sent", ~TheTurn, Alive,
         NEW t \in 0..MaxTurns, Send(pending, "prompt", t), UNCHANGED <<wire, running>>
  PROVE  Flow'
<1>1. Prompts(pending) = {} /\ Len(settled) = 0
  BY NoPromptWaits
<1>2. PICK q \in Messages : /\ pending' = pending \cup {q} /\ sent' = Append(sent, q)
                            /\ q.cmd = "prompt" /\ q.id = nextId
  <2>1. "prompt" \in Commands /\ pending \in SUBSET pending
    BY DEF Commands
  <2> QED
    BY <2>1, Sends DEF Core, Written, NewRequest
<1>3. Prompts(pending)' = {q}
  BY <1>1, <1>2 DEF Prompts
<1>4. Resting /\ Resting' /\ EndsAt' = {} /\ running' = Idle
  BY DEF Flow, RunsTheTurn, EndsTheTurn, Resting, EndsAt
<1>5. \A i \in 1..Len(sent) : sent[i].cmd # "prompt"
  BY <1>1 DEF Flow, PromptsUntaken, UntakenPrompt, Prompts
<1>6. PICK n \in Nat : n = Len(sent) /\ Len(sent') = n + 1 /\ sent'[n + 1] = q
                        /\ \A i \in 1..n : sent'[i] = sent[i]
  <2>1. sent \in Seq(Messages)
    BY DEF Core, JsonlTypes
  <2> QED
    BY <1>2, <2>1, AppendAt
<1>7. \A j \in 1..Len(wire') : ~Answers(j, q)'
  <2>1. ASSUME NEW j \in 1..Len(wire), wire[j].type = "response", wire[j].id = nextId
        PROVE  FALSE
    <3>1. wire[j].id < nextId
      BY <2>1 DEF Core, IdsAreOnce
    <3>2. nextId \in Nat
      BY DEF Core, JsonlTypes
    <3> QED
      BY <2>1, <3>1, <3>2
  <2> QED
    BY <1>2, <2>1 DEF Answers
<1>8. PromptsUntaken'
  <2>1. ASSUME NEW i \in 1..Len(sent'), sent'[i].cmd = "prompt"
        PROVE  i = n + 1
    BY <1>5, <1>6, <2>1
  <2>2. \A i \in 1..Len(sent') : sent'[i].cmd = "prompt" => sent'[i] = q
    BY <1>6, <2>1
  <2>3. ASSUME NEW i \in 1..Len(sent'), sent'[i].cmd = "prompt"
        PROVE  UntakenPrompt(i)'
    <3>1. sent'[i] = q /\ q \in pending'
      BY <1>2, <2>2, <2>3
    <3>2. \A j \in 1..Len(wire') : ~Answers(j, sent[i])'
      BY <1>7, <3>1 DEF Answers
    <3>3. \A j \in 1..Len(sent') : sent'[j].cmd = "prompt" => i = j
      BY <2>1, <2>3
    <3> QED
      BY <1>4, <3>1, <3>2, <3>3 DEF UntakenPrompt
  <2> QED
    BY <2>3 DEF PromptsUntaken
<1>9. OthersElse'
  <2>1. ASSUME NEW i \in 1..Len(sent'), sent'[i].cmd \in Commands \ {"prompt"}
        PROVE  sent'[i].id # q.id
    <3>1. i \in 1..n /\ sent'[i] = sent[i]
      BY <1>2, <1>6, <2>1
    <3>2. sent[i].id < nextId
      BY <1>6, <2>1, <3>1 DEF Core, IdsAreOnce
    <3>3. nextId \in Nat
      BY DEF Core, JsonlTypes
    <3> QED
      BY <1>2, <3>1, <3>2, <3>3
  <2> QED
    BY <1>3, <2>1 DEF OthersElse
<1>10. RunsTheTurn' /\ EndsTheTurn'
  BY <1>4 DEF RunsTheTurn, EndsTheTurn
<1>11. AnswersFirst' /\ RestsBefore'
  BY <1>3, <1>4, <1>7 DEF AnswersFirst, RestsBefore
<1>12. RestsRefused'
  BY <1>1 DEF RestsRefused
<1> QED
  BY <1>8, <1>9, <1>10, <1>11, <1>12 DEF Flow

LEMMA TurnOpens ==
  ASSUME JsonlInv, settled = <<>>, call # "sent", phase = "open", turnCounter < MaxTurns,
         turnCounter \in Turns => turn[turnCounter] \in {"ended", "refused"},
         Prompt, ~closed
  PROVE  Keeps
<1> DEFINE t == turnCounter + 1
<1>1. /\ turnCounter' = t /\ activeTurnId' = t /\ call' = "sent"
      /\ turn' = [turn EXCEPT ![t] = "begun"] /\ Send(pending, "prompt", t)
      /\ UNCHANGED <<harness, phase, permissions, closed, settled, proc, wire, running, reported>>
  BY DEF Prompt, inside
<1>2. /\ turnCounter \in 0..MaxTurns /\ MaxTurns \in Nat /\ turnCounter \in Nat
      /\ turn \in [Turns -> {"none", "begun", "ended", "refused"}] /\ TurnsInOrder
  BY AdapterBounds DEF JsonlInv, JsonlTypes
<1>3. t \in Turns /\ t \in 0..MaxTurns /\ t > turnCounter
  BY <1>2 DEF Turns
<1>4. /\ \A s \in Turns : s > t => turn[s] = "none"
      /\ \A s \in Turns : s < t => turn[s] \in {"ended", "refused"}
      /\ turn[t] = "none"
  BY <1>2, <1>3 DEF TurnsInOrder, Turns
<1>5. PICK q \in Messages : q = NewRequest("prompt", t) /\ q.cmd = "prompt" /\ q.turn = t
  <2>1. NewRequest("prompt", t) \in Messages
    BY <1>3 DEF NewRequest, Messages, Request, Commands, JsonlInv, JsonlTypes
  <2> QED
    BY <2>1 DEF NewRequest
<1>6. /\ pending' = pending \cup {q} /\ pending' \subseteq Request /\ nextId' \in Nat
      /\ sent' \in Seq(Messages) /\ IdsAreOnce'
  <2>1. "prompt" \in Commands /\ pending \in SUBSET pending /\ JsonlTypes /\ IdsAreOnce
    BY DEF Commands, JsonlInv
  <2> QED
    BY <1>1, <1>3, <1>5, <2>1, Sends
<1>7. Contract!Begin
  BY <1>1, <1>3, <1>4 DEF Contract!Begin, Contract!Settled
<1>8. turn'[t] = "begun" /\ TheTurn' /\ ~TheTurn
  BY <1>1, <1>2, <1>3 DEF TheTurn
<1> HIDE DEF t
<1>9. JsonlTypes'
  BY <1>1, <1>2, <1>3, <1>6 DEF JsonlInv, JsonlTypes
<1>10. TurnsInOrder'
  BY <1>1, <1>2, <1>3, <1>4, <1>8 DEF TurnsInOrder, Turns
<1>11. OpensInOrder'
  BY <1>1, <1>5, <1>6 DEF JsonlInv, OpensInOrder, OpeningPhases
<1>12. Prompts(pending)' = {q} /\ Len(settled') = 0
  BY <1>1, <1>5, <1>6, CoreNow, NoPromptWaits DEF Prompts
<1>13. CallWaits'
  BY <1>1, <1>5, <1>8, <1>12 DEF CallWaits, OnePrompt, PromptAwaited
<1>14. ASSUME (Alive /\ ~closed)'
       PROVE  Flow'
  <2>1. Flow /\ Alive
    BY <1>1, <1>14, CoreNow DEF Alive
  <2> QED
    BY <1>1, <1>3, <1>8, <2>1, CoreNow, PromptSentFlow
<1>15. ~Alive' => wire' = <<>>
  BY <1>1, CoreNow DEF Alive
<1>16. Core' /\ [Contract!Next]_(Contract!contractVars)
  BY <1>6, <1>7, <1>9, <1>10, <1>11, <1>13 DEF Core, Contract!Next
<1> QED
  BY <1>14, <1>15, <1>16, FlowStays

(* The gate opens on a session that was closed meanwhile. *)
LEMMA TurnRejected ==
  ASSUME JsonlInv, settled = <<>>, call = "gate", Prompt, closed
  PROVE  Keeps
<1>1. /\ turnCounter' = turnCounter + 1 /\ activeTurnId' = 0 /\ call' = "none"
      /\ UNCHANGED <<turn, pending, nextId, sent, running>>
      /\ UNCHANGED <<harness, phase, permissions, closed, settled, proc, wire, reported>>
  BY DEF Prompt, inside
<1>2. /\ turnCounter \in 1..MaxTurns /\ MaxTurns \in Nat /\ turnCounter < MaxTurns
      /\ turn[turnCounter] \in {"ended", "refused"} /\ phase \in {"closed", "failed"}
  BY AdapterBounds DEF JsonlInv, JsonlTypes, TurnsInOrder, OpensInOrder, Turns
<1>3. TurnsInOrder'
  BY <1>1, <1>2 DEF JsonlInv, TurnsInOrder, Turns
<1>4. Core'
  <2>1. phase \notin OpeningPhases /\ turnCounter' \in 0..MaxTurns
    BY <1>1, <1>2 DEF OpeningPhases
  <2> QED
    BY <1>1, <1>3, <2>1, CoreNow, CallMoves
<1>5. [Contract!Next]_(Contract!contractVars)
  BY <1>1 DEF Contract!contractVars
<1>6. ~Alive' => wire' = <<>>
  BY <1>1, CoreNow DEF Alive
<1> QED
  BY <1>1, <1>4, <1>5, <1>6, FlowStays

LEMMA PromptKeeps ==
  ASSUME JsonlInv, JsonlStartsTurn \/ OmpPassesGate
  PROVE  Keeps
<1>1. CASE JsonlStartsTurn
  <2>1. /\ settled = <<>> /\ call = "none" /\ phase = "open" /\ ~closed /\ turnCounter < MaxTurns
        /\ \A t \in Turns : turn[t] # "begun" /\ Prompt
    BY <1>1 DEF JsonlStartsTurn, MayStart, Quiet
  <2>2. ASSUME turnCounter \in Turns
        PROVE  turn[turnCounter] \in {"ended", "refused"}
    <3>1. turn[turnCounter] \in {"none", "begun", "ended", "refused"}
      BY <2>2 DEF JsonlInv, JsonlTypes
    <3>2. turn[turnCounter] # "none"
      BY <2>1, <2>2 DEF JsonlInv, TurnsInOrder
    <3> QED
      BY <2>1, <2>2, <3>1, <3>2
  <2>3. Prompt
    BY <1>1 DEF JsonlStartsTurn
  <2> QED
    BY <2>1, <2>2, <2>3, TurnOpens
<1>2. CASE OmpPassesGate
  <2>1. settled = <<>> /\ call = "gate" /\ Prompt
    BY <1>2 DEF OmpPassesGate, Quiet
  <2>2. CASE closed
    BY <2>1, <2>2, TurnRejected
  <2>3. CASE ~closed
    <3>1. phase = "open"
      BY <2>1, <2>3 DEF JsonlInv, JsonlTypes, JsonlPhases, OpensInOrder, OpeningPhases
    <3>2. turnCounter < MaxTurns /\ turn[turnCounter] \in {"ended", "refused"}
      BY <2>1 DEF JsonlInv, TurnsInOrder
    <3> QED
      BY <2>1, <2>3, <3>1, <3>2, TurnOpens
  <2> QED
    BY <2>2, <2>3
<1> QED
  BY <1>1, <1>2

LEMMA JsonlClosesKeeps ==
  ASSUME JsonlInv, JsonlCloses
  PROVE  Keeps
<1>1. /\ settled = <<>> /\ phase = "open" /\ ~closed /\ closed' = TRUE /\ phase' = "closed"
      /\ pending' = {} /\ activeTurnId' \in {0, activeTurnId} /\ call' \in {"none", "gate"}
      /\ call # "sent" => turn' = turn /\ call' = call
      /\ call = "sent" => turn' = [turn EXCEPT ![turnCounter] = "refused"] /\ call' = "none"
      /\ UNCHANGED <<harness, turnCounter, permissions, nextId, settled, proc, sent, wire, running>>
      /\ UNCHANGED reported
  BY DEF JsonlInv, JsonlTypes, JsonlCloses, Quiet, process, inside
<1>2. Len(settled) = 0
  BY <1>1
<1>3. call = "sent" => TheTurn
  BY <1>2 DEF JsonlInv, CallWaits, PromptAwaited
<1>4. [Contract!Next]_(Contract!contractVars)
  <2>1. turn' = turn \/ Contract!SettleOne
    BY <1>1, <1>3, Refused
  <2> QED
    BY <1>1, <2>1, CoreNow, TurnStep
<1>5. turn \in [Turns -> {"none", "begun", "ended", "refused"}] /\ turnCounter \in Nat
      /\ turn' \in [Turns -> {"none", "begun", "ended", "refused"}]
  BY <1>1, AdapterBounds DEF JsonlInv, JsonlTypes
<1>6. JsonlTypes'
  <2>1. pending' \subseteq Request /\ phase' \in JsonlPhases
    BY <1>1 DEF JsonlPhases
  <2>2. activeTurnId' \in {0, turnCounter'}
    BY <1>1 DEF JsonlInv, JsonlTypes
  <2> QED
    BY <1>1, <1>5, <2>1, <2>2 DEF JsonlInv, JsonlTypes
<1>7. TurnsInOrder'
  <2>1. \A t \in Turns : t # turnCounter => turn'[t] = turn[t]
    BY <1>1, <1>5
  <2>2. call' = "gate" => turn' = turn /\ call = "gate"
    BY <1>1
  <2>3. (\A t \in Turns : t > turnCounter => turn'[t] = "none")
        /\ (\A t \in Turns : t < turnCounter => turn'[t] \in {"ended", "refused"})
    BY <1>5, <2>1 DEF JsonlInv, TurnsInOrder, Turns
  <2> QED
    BY <1>1, <2>2, <2>3 DEF JsonlInv, TurnsInOrder
<1>8. OpensInOrder'
  BY <1>1, <1>2 DEF OpensInOrder, OpeningPhases
<1>9. CallWaits'
  <2>1. Prompts(pending)' = {} /\ 1..Len(settled') = {} /\ call' # "sent"
    BY <1>1, <1>2 DEF Prompts
  <2> QED
    BY <2>1 DEF CallWaits, OnePrompt
<1>10. IdsAreOnce'
  BY <1>1 DEF JsonlInv, IdsAreOnce
<1>11. ~Alive' => wire' = <<>>
  BY <1>1, CoreNow DEF Alive
<1>12. Core'
  BY <1>6, <1>7, <1>8, <1>9, <1>10 DEF Core
<1> QED
  BY <1>1, <1>4, <1>11, <1>12, FlowStays

-----------------------------------------------------------------------------
(* A frame is read. *)

LEMMA WireRead ==
  ASSUME JsonlInv, wire # <<>>, wire' = Tail(wire)
  PROVE  /\ Alive /\ wire' \in Seq(JsonlFrames) /\ Head(wire) = wire[1] /\ wire[1] \in JsonlFrames
         /\ Len(wire) \in Nat \ {0} /\ Len(wire') = Len(wire) - 1 /\ 1 \in 1..Len(wire)
         /\ \A i \in 1..Len(wire') : wire'[i] = wire[i + 1] /\ i + 1 \in 1..Len(wire)
         /\ UNCHANGED nextId => \A i \in 1..Len(wire') : wire'[i].type = "response" => wire'[i].id < nextId'
<1>1. Alive /\ wire \in Seq(JsonlFrames)
  BY CoreNow
<1>2. /\ wire' \in Seq(JsonlFrames) /\ Head(wire) = wire[1] /\ wire[1] \in JsonlFrames
      /\ Len(wire) \in Nat \ {0} /\ Len(wire') = Len(wire) - 1 /\ 1 \in 1..Len(wire)
      /\ \A i \in 1..Len(wire') : wire'[i] = wire[i + 1] /\ i + 1 \in 1..Len(wire)
  BY <1>1, TailAt
<1> QED
  BY <1>1, <1>2 DEF JsonlInv, IdsAreOnce

(* What is read moves the others forward. *)
LEMMA EndsMove ==
  ASSUME JsonlInv, wire # <<>>, wire' = Tail(wire)
  PROVE  /\ \A i \in 1..Len(wire') : i \in EndsAt' <=> i + 1 \in EndsAt
         /\ \A i \in EndsAt : i = 1 \/ \E j \in EndsAt' : j + 1 = i
         /\ EndsAt' \subseteq 1..Len(wire') /\ EndsAt \subseteq 1..Len(wire)
         /\ \A r : \A i \in 1..Len(wire') : wire'[i].type = "response" /\ wire'[i].id = r <=>
                                              wire[i + 1].type = "response" /\ wire[i + 1].id = r
<1>1. /\ Len(wire) \in Nat \ {0} /\ Len(wire') = Len(wire) - 1
      /\ \A i \in 1..Len(wire') : wire'[i] = wire[i + 1] /\ i + 1 \in 1..Len(wire)
  BY WireRead
<1>2. \A i \in 1..Len(wire') : i \in EndsAt' <=> i + 1 \in EndsAt
  BY <1>1 DEF EndsAt
<1>3. ASSUME NEW i \in EndsAt, i # 1
      PROVE  \E j \in EndsAt' : j + 1 = i
  <2>1. i \in 1..Len(wire)
    BY DEF EndsAt
  <2>2. PICK j \in 1..Len(wire') : j + 1 = i
    BY <1>1, <1>3, <2>1
  <2> QED
    BY <1>2, <2>2
<1> QED
  BY <1>1, <1>2, <1>3 DEF EndsAt

LEMMA WireShrinks ==
  ASSUME JsonlInv, Flow, wire # <<>>, wire' = Tail(wire), ~IsEnd(wire[1]),
         \A r \in Prompts(pending) : ~Answers(1, r), Prompts(pending') = Prompts(pending),
         UNCHANGED <<running, turn, turnCounter>>,
         \A i \in 1..Len(settled') : IsPrompt(i)' => \E k \in 1..Len(settled) : settled'[i] = settled[k],
         \/ sent' = sent
         \/ \E m \in Messages : sent' = Append(sent, m) /\ m.cmd # "prompt" /\ m.cmd \notin Commands
  PROVE  Flow'
<1>1. PICK n \in Nat : n = Len(wire') /\ n + 1 = Len(wire)
                        /\ \A i \in 1..n : wire'[i] = wire[i + 1] /\ i + 1 \in 1..(n + 1)
  <2>1. Len(wire') \in Nat /\ Len(wire') + 1 = Len(wire)
    BY WireRead
  <2> QED
    BY <2>1, WireRead
<1>2. Prompts(pending)' = Prompts(pending) /\ (TheTurn' <=> TheTurn)
  BY DEF Prompts, TheTurn
<1>3. 1 \notin EndsAt
  BY DEF EndsAt
<1>4. /\ \A i \in 1..n : i \in EndsAt' <=> i + 1 \in EndsAt
      /\ EndsAt' \subseteq 1..n /\ \A i \in EndsAt : \E j \in EndsAt' : j + 1 = i
  BY <1>1, <1>3, EndsMove
<1>5. EndsAt' = {} <=> EndsAt = {}
  BY <1>4
<1>6. Resting' <=> Resting
  BY <1>5 DEF Resting
<1>7. \A r \in Prompts(pending), i \in 1..n : Answers(i, r)' <=> Answers(i + 1, r)
  BY <1>1 DEF Answers
<1>8. \A r \in Prompts(pending) : \A j \in 1..Len(wire') :
        Answers(j, r)' => \E k \in 1..Len(wire) : Answers(k, r)
  BY <1>1, <1>7
<1>9. SentPart'
  <2>1. SentPart /\ sent \in Seq(Messages)
    BY CoreNow DEF Flow, SentPart
  <2>2. CASE sent' = sent
    <3>1. SentMoves(0)
      BY <2>1, <2>2, SentStays
    <3> QED
      BY <1>6, <1>8, <2>1, <3>1, SentPartKept
  <2>3. ASSUME NEW m \in Messages, sent' = Append(sent, m), m.cmd # "prompt", m.cmd \notin Commands
        PROVE  SentPart'
    BY <1>6, <1>8, <2>1, <2>3, SentPartGrows
  <2> QED
    BY <2>2, <2>3
<1>10. RunsTheTurn'
  BY <1>2, <1>5 DEF Flow, RunsTheTurn
<1>11. EndsTheTurn'
  <2>1. ASSUME NEW i \in EndsAt'
        PROVE  EndOf(wire'[i]) = turnCounter /\ TheTurn /\ \A j \in EndsAt' : i = j
    <3>1. i \in 1..n /\ i + 1 \in EndsAt /\ wire'[i] = wire[i + 1]
      BY <1>1, <1>4
    <3>2. \A j \in EndsAt' : j \in 1..n /\ j + 1 = i + 1
      BY <1>4, <3>1 DEF Flow, EndsTheTurn
    <3>3. EndOf(wire[i + 1]) = turnCounter /\ TheTurn
      BY <3>1 DEF Flow, EndsTheTurn
    <3>4. \A j \in EndsAt' : i = j
      BY <3>1, <3>2
    <3> QED
      BY <3>1, <3>3, <3>4
  <2> QED
    BY <1>2, <2>1 DEF EndsTheTurn
<1>12. AnswersFirst'
  <2>1. ASSUME NEW r \in Prompts(pending), NEW i \in 1..n, Answers(i, r)'
        PROVE  /\ wire'[i].ok => \A j \in EndsAt' : i < j
               /\ ~wire'[i].ok => Resting'
               /\ \A j \in 1..n : Answers(j, r)' => i = j
    <3>1. Answers(i + 1, r) /\ wire'[i] = wire[i + 1] /\ i + 1 \in 1..Len(wire)
      BY <1>1, <1>7, <2>1
    <3>2. /\ wire[i + 1].ok => \A j \in EndsAt : i + 1 < j
          /\ ~wire[i + 1].ok => Resting
          /\ \A j \in 1..Len(wire) : Answers(j, r) => i + 1 = j
      BY <3>1 DEF Flow, AnswersFirst
    <3>3. ASSUME wire'[i].ok, NEW j \in EndsAt'
          PROVE  i < j
      <4>1. j \in 1..n /\ i + 1 < j + 1
        BY <1>4, <3>1, <3>2, <3>3
      <4> QED
        BY <4>1
    <3>4. ASSUME NEW j \in 1..n, Answers(j, r)'
          PROVE  i = j
      <4>1. i + 1 = j + 1
        BY <1>1, <1>7, <3>2, <3>4
      <4> QED
        BY <4>1
    <3> QED
      BY <1>6, <3>1, <3>2, <3>3, <3>4
  <2> QED
    BY <1>1, <1>2, <2>1 DEF AnswersFirst
<1>13. RestsBefore'
  <2>1. ASSUME NEW r \in Prompts(pending), ~Resting
        PROVE  \E i \in 1..n : Answers(i, r)'
    <3>1. PICK k \in 1..(n + 1) : Answers(k, r)
      BY <1>1, <2>1 DEF Flow, RestsBefore
    <3>2. PICK i \in 1..n : i + 1 = k
      BY <3>1
    <3> QED
      BY <1>7, <3>1, <3>2
  <2> QED
    BY <1>1, <1>2, <1>6, <2>1 DEF RestsBefore
<1>14. RestsRefused'
  <2>1. ASSUME NEW i \in 1..Len(settled'), IsPrompt(i)', ~settled'[i].ok
        PROVE  Resting /\ TheTurn
    <3>1. PICK k \in 1..Len(settled) : settled'[i] = settled[k]
      BY <2>1
    <3>2. IsPrompt(k) /\ ~settled[k].ok
      BY <2>1, <3>1 DEF IsPrompt
    <3> QED
      BY <3>2 DEF Flow, RestsRefused
  <2> QED
    BY <1>2, <1>6, <2>1 DEF RestsRefused
<1> QED
  BY <1>9, <1>10, <1>11, <1>12, <1>13, <1>14 DEF Flow, SentPart

(* Nothing that concerns a request: an approval, something of the past, a part of a frame. *)
LEMMA OtherRead ==
  ASSUME JsonlInv, wire # <<>>, wire' = Tail(wire), ~IsEnd(wire[1]),
         \A r \in Prompts(pending) : ~Answers(1, r),
         UNCHANGED <<harness, phase, call, turnCounter, activeTurnId, closed, pending, nextId>>,
         UNCHANGED <<settled, proc, running, turn, reported>>,
         permissions' = permissions \/ \E p \in Perms : permissions' = permissions \cup {p},
         sent' = sent \/ \E p \in Perms : sent' = Written(Answer(p))
  PROVE  Keeps
<1>1. /\ sent' \in Seq(Messages)
      /\ \A i \in 1..Len(sent') : sent'[i].cmd \in Commands => sent'[i].id < nextId
      /\ \/ sent' = sent
         \/ \E m \in Messages : /\ sent' = Append(sent, m) /\ m.cmd # "prompt"
                                /\ m.cmd \notin Commands
  BY AnswerWritten
<1>2. /\ Alive /\ wire' \in Seq(JsonlFrames)
      /\ \A i \in 1..Len(wire') : wire'[i].type = "response" => wire'[i].id < nextId'
  BY WireRead
<1>3. permissions' \subseteq Perms
  BY DEF JsonlInv, JsonlTypes
<1>4. JsonlTypes'
  BY <1>1, <1>2, <1>3 DEF JsonlInv, JsonlTypes
<1>5. TurnsInOrder' /\ OpensInOrder'
  BY DEF JsonlInv, TurnsInOrder, OpensInOrder
<1>6. CallWaits'
  <2>1. Prompts(pending)' = Prompts(pending) /\ (TheTurn' <=> TheTurn)
    BY DEF Prompts, TheTurn
  <2>2. \A i : IsPrompt(i)' <=> IsPrompt(i)
    BY DEF IsPrompt
  <2> QED
    BY <2>1, <2>2 DEF JsonlInv, CallWaits, OnePrompt, PromptAwaited, PromptSettled
<1>7. IdsAreOnce'
  BY <1>1, <1>2 DEF JsonlInv, IdsAreOnce
<1>8. ASSUME (Alive /\ ~closed)'
      PROVE  Flow'
  <2>1. Flow
    BY <1>2, <1>8, CoreNow
  <2>2. \A i \in 1..Len(settled') : IsPrompt(i)' => \E k \in 1..Len(settled) : settled'[i] = settled[k]
    OBVIOUS
  <2>3. Prompts(pending') = Prompts(pending)
    OBVIOUS
  <2> QED
    BY <1>1, <2>1, <2>2, <2>3, WireShrinks
<1>9. Alive'
  BY <1>2 DEF Alive
<1>10. [Contract!Next]_(Contract!contractVars)
  BY DEF Contract!Next, Contract!Ask, Contract!contractVars
<1>11. Core'
  BY <1>4, <1>5, <1>6, <1>7 DEF Core
<1> QED
  BY <1>8, <1>9, <1>10, <1>11, FlowStays

(* An answer, to a request that still waits for it. *)
LEMMA AnswerRead ==
  ASSUME JsonlInv, wire # <<>>, wire' = Tail(wire), wire[1].type = "response",
         NEW r \in pending, r.id = wire[1].id, pending' = pending \ {r},
         settled' = Append(settled, [request |-> r, ok |-> wire[1].ok]),
         UNCHANGED <<harness, phase, call, turnCounter, activeTurnId, closed, nextId, permissions>>,
         UNCHANGED <<sent, proc, running, turn, reported>>
  PROVE  Keeps
<1>1. /\ Alive /\ wire' \in Seq(JsonlFrames) /\ wire[1] \in JsonlFrames /\ 1 \in 1..Len(wire)
      /\ \A i \in 1..Len(wire') : wire'[i].type = "response" => wire'[i].id < nextId'
      /\ ~IsEnd(wire[1])
  <2>1. ~IsEnd(wire[1])
    BY DEF IsEnd
  <2> QED
    BY <2>1, WireRead
<1>2. PICK x \in Settlement : x = [request |-> r, ok |-> wire[1].ok]
  <2>1. r \in Request
    BY DEF JsonlInv, JsonlTypes
  <2>2. wire[1].ok \in BOOLEAN
    BY <1>1 DEF JsonlFrames, Frames, EndFrame
  <2> QED
    BY <2>1, <2>2 DEF Settlement
<1>3. PICK n \in Nat : n = Len(settled) /\ Len(settled') = n + 1 /\ settled'[n + 1] = x
                        /\ settled' \in Seq(Settlement) /\ \A i \in 1..n : settled'[i] = settled[i]
  BY <1>2, CoreNow, AppendAt
<1>4. x.request = r /\ x.ok = wire[1].ok /\ Answers(1, r)
  BY <1>2 DEF Answers
<1>5. /\ \A i \in 1..n : IsPrompt(i)' <=> IsPrompt(i)
      /\ IsPrompt(n + 1)' <=> r \in Prompts(pending)
      /\ Prompts(pending)' = Prompts(pending) \ {r}
      /\ \A i \in 1..Len(settled') : i \in 1..n \/ i = n + 1
      /\ TheTurn' <=> TheTurn
  BY <1>3, <1>4 DEF IsPrompt, Prompts, TheTurn
<1>6. JsonlTypes'
  BY <1>1, <1>3 DEF JsonlInv, JsonlTypes
<1>7. TurnsInOrder'
  BY DEF JsonlInv, TurnsInOrder
<1>8. OpensInOrder'
  <2>1. ASSUME phase \in OpeningPhases
        PROVE  pending' = {} /\ n = 0 /\ r.cmd = phase
    <3>1. pending = {r} /\ r.cmd = phase
      BY <2>1 DEF JsonlInv, OpensInOrder
    <3>2. \A i \in 1..n : FALSE
      BY <1>3, <2>1 DEF JsonlInv, OpensInOrder
    <3> QED
      BY <3>1, <3>2
  <2>2. phase \notin OpeningPhases =>
          \A i \in 1..Len(settled') : settled'[i].request.cmd # "negotiate"
    BY <1>3, <1>4, <1>5 DEF JsonlInv, OpensInOrder
  <2>3. phase \in OpeningPhases =>
          \A i \in 1..Len(settled') : settled'[i].request.cmd = phase /\ i = 1 /\ pending' = {}
    BY <1>3, <1>4, <1>5, <2>1
  <2> QED
    BY <2>2, <2>3 DEF JsonlInv, OpensInOrder
<1>9. OnePrompt'
  <2>1. r \in Prompts(pending) => Prompts(pending)' = {} /\ \A i \in 1..n : ~IsPrompt(i)'
    BY <1>3, <1>5 DEF JsonlInv, CallWaits, OnePrompt
  <2>2. \A i, j \in 1..n : IsPrompt(i)' /\ IsPrompt(j)' => i = j
    BY <1>3, <1>5 DEF JsonlInv, CallWaits, OnePrompt
  <2>3. \A i \in 1..n : IsPrompt(i)' => Prompts(pending)' = {}
    BY <1>3, <1>5 DEF JsonlInv, CallWaits, OnePrompt
  <2>4. \A a, b \in Prompts(pending)' : a = b
    BY <1>5 DEF JsonlInv, CallWaits, OnePrompt
  <2> QED
    BY <1>5, <2>1, <2>2, <2>3, <2>4 DEF OnePrompt
<1>10. CallWaits'
  <2>1. \A q \in Prompts(pending)' : PromptAwaited(q)'
    BY <1>5 DEF JsonlInv, CallWaits, PromptAwaited
  <2>2. \A i \in 1..n : IsPrompt(i)' => PromptSettled(i)'
    BY <1>3, <1>5 DEF JsonlInv, CallWaits, PromptSettled
  <2>3. IsPrompt(n + 1)' => PromptSettled(n + 1)'
    BY <1>3, <1>4, <1>5 DEF JsonlInv, CallWaits, PromptAwaited, PromptSettled
  <2>4. ASSUME call' = "sent"
        PROVE  Prompts(pending)' # {} \/ \E i \in 1..Len(settled') : IsPrompt(i)'
    <3>1. CASE r \in Prompts(pending)
      <4>1. n + 1 \in 1..Len(settled')
        BY <1>3
      <4> QED
        BY <1>5, <3>1, <4>1
    <3>2. CASE r \notin Prompts(pending)
      <4>1. Prompts(pending) # {} \/ \E i \in 1..n : IsPrompt(i)
        BY <1>3, <2>4 DEF JsonlInv, CallWaits
      <4>2. \A i \in 1..n : i \in 1..Len(settled')
        BY <1>3
      <4> QED
        BY <1>5, <3>2, <4>1, <4>2
    <3> QED
      BY <3>1, <3>2
  <2> QED
    BY <1>5, <1>9, <2>1, <2>2, <2>3, <2>4 DEF CallWaits
<1>11. IdsAreOnce'
  BY <1>1 DEF JsonlInv, IdsAreOnce
<1>12. ASSUME (Alive /\ ~closed)'
       PROVE  Flow'
  <2>1. Flow
    BY <1>1, <1>12, CoreNow
  <2>2. CASE r \notin Prompts(pending)
    <3>1. Prompts(pending') = Prompts(pending)
      BY <2>2 DEF Prompts
    <3>2. \A q \in Prompts(pending) : ~Answers(1, q)
      BY <2>2 DEF Answers, Prompts, JsonlInv, IdsAreOnce
    <3>3. \A i \in 1..Len(settled') : IsPrompt(i)' => \E k \in 1..Len(settled) : settled'[i] = settled[k]
      BY <1>3, <1>5, <2>2
    <3> QED
      BY <1>1, <2>1, <3>1, <3>2, <3>3, WireShrinks
  <2>3. CASE r \in Prompts(pending)
    <3>1. Prompts(pending)' = {} /\ \A i \in 1..n : ~IsPrompt(i)'
      BY <1>3, <1>5, <2>3 DEF JsonlInv, CallWaits, OnePrompt
    <3>2. TheTurn
      BY <2>3 DEF JsonlInv, CallWaits, PromptAwaited
    <3>3. \A i \in 1..Len(sent') : sent'[i].cmd # "prompt"
      <4>1. ASSUME NEW i \in 1..Len(sent), sent[i].cmd = "prompt"
            PROVE  FALSE
        <5>1. sent[i] \in Prompts(pending) /\ ~Answers(1, sent[i])
          BY <1>1, <2>1, <4>1 DEF Flow, PromptsUntaken, UntakenPrompt, Prompts
        <5>2. sent[i] = r
          BY <2>3, <5>1 DEF JsonlInv, CallWaits, OnePrompt
        <5> QED
          BY <1>4, <5>1, <5>2
      <4> QED
        BY <4>1
    <3>4. PromptsUntaken' /\ OthersElse'
      BY <3>1, <3>3 DEF PromptsUntaken, OthersElse
    <3>5. 1 \notin EndsAt
      BY <1>1 DEF EndsAt
    <3>6. EndsAt = {} => EndsAt' = {}
      BY EndsMove
    <3>7. RunsTheTurn'
      BY <1>5, <2>1, <3>6 DEF Flow, RunsTheTurn
    <3>8. EndsTheTurn'
      <4>1. ASSUME NEW i \in EndsAt'
            PROVE  EndOf(wire'[i]) = turnCounter /\ TheTurn /\ \A j \in EndsAt' : i = j
        <5>1. i \in 1..Len(wire') /\ i + 1 \in EndsAt /\ wire'[i] = wire[i + 1]
          BY EndsMove, WireRead
        <5>2. EndOf(wire[i + 1]) = turnCounter /\ TheTurn
          BY <2>1, <5>1 DEF Flow, EndsTheTurn
        <5>3. \A j \in EndsAt' : j \in 1..Len(wire') /\ j + 1 \in EndsAt
          BY EndsMove
        <5>4. \A j \in EndsAt' : j \in 1..Len(wire') /\ j + 1 = i + 1
          BY <2>1, <5>1, <5>3 DEF Flow, EndsTheTurn
        <5> QED
          BY <5>1, <5>2, <5>4
      <4> QED
        BY <1>5, <4>1 DEF EndsTheTurn
    <3>9. AnswersFirst' /\ RestsBefore'
      BY <3>1 DEF AnswersFirst, RestsBefore
    <3>10. RestsRefused'
      <4>1. ~wire[1].ok => Resting
        BY <1>1, <1>4, <2>1, <2>3 DEF Flow, AnswersFirst
      <4>2. Resting => Resting'
        BY <3>6 DEF Resting
      <4> QED
        BY <1>3, <1>4, <1>5, <3>1, <3>2, <4>1, <4>2 DEF RestsRefused
    <3> QED
      BY <3>4, <3>7, <3>8, <3>9, <3>10 DEF Flow
  <2> QED
    BY <2>2, <2>3
<1>13. Alive'
  BY <1>1 DEF Alive
<1>14. [Contract!Next]_(Contract!contractVars)
  BY DEF Contract!contractVars
<1>15. Core'
  BY <1>6, <1>7, <1>8, <1>10, <1>11 DEF Core
<1> QED
  BY <1>12, <1>13, <1>14, <1>15, FlowStays

(* The end of a turn: it is shown for the last one, or dropped. *)
LEMMA EndRead ==
  ASSUME JsonlInv, wire # <<>>, wire' = Tail(wire), IsEnd(wire[1]),
         activeTurnId' \in {0, activeTurnId},
         turn' = turn \/ (phase = "open" /\ turn' = [turn EXCEPT ![turnCounter] = "ended"]),
         UNCHANGED <<harness, phase, call, turnCounter, closed, pending, nextId, permissions>>,
         UNCHANGED <<settled, sent, proc, running, reported>>
  PROVE  Keeps
<1>1. /\ Alive /\ wire' \in Seq(JsonlFrames) /\ 1 \in EndsAt
      /\ \A i \in 1..Len(wire') : wire'[i].type = "response" => wire'[i].id < nextId'
  BY WireRead DEF EndsAt
<1>2. ASSUME ~closed
      PROVE  /\ Flow /\ TheTurn /\ EndOf(wire[1]) = turnCounter /\ EndsAt' = {} /\ running = Idle
             /\ Prompts(pending) = {} /\ \A i \in 1..Len(settled) : IsPrompt(i) => settled[i].ok
             /\ \A i \in 1..Len(sent) : sent[i].cmd # "prompt"
  <2>1. Flow
    BY <1>1, <1>2, CoreNow
  <2>2. TheTurn /\ EndOf(wire[1]) = turnCounter /\ ~Resting /\ running = Idle
        /\ \A i \in EndsAt : i = 1
    BY <1>1, <2>1 DEF Flow, EndsTheTurn, RunsTheTurn, Resting
  <2>3. EndsAt' = {}
    <3>1. \A i \in EndsAt' : i \in 1..Len(wire') /\ i + 1 = 1
      BY <2>2, EndsMove
    <3> QED
      BY <3>1
  <2>4. Prompts(pending) = {}
    <3>1. ASSUME NEW r \in Prompts(pending)
          PROVE  FALSE
      <4>1. PICK i \in 1..Len(wire) : Answers(i, r)
        BY <2>1, <2>2 DEF Flow, RestsBefore
      <4>2. wire[i].ok => i < 1
        BY <1>1, <2>1, <4>1 DEF Flow, AnswersFirst
      <4>3. ~wire[i].ok => Resting
        BY <2>1, <4>1 DEF Flow, AnswersFirst
      <4> QED
        BY <2>2, <4>1, <4>2, <4>3
    <3> QED
      BY <3>1
  <2>5. \A i \in 1..Len(settled) : IsPrompt(i) => settled[i].ok
    BY <2>1, <2>2 DEF Flow, RestsRefused
  <2>6. \A i \in 1..Len(sent) : sent[i].cmd # "prompt"
    BY <2>1, <2>2 DEF Flow, PromptsUntaken, UntakenPrompt
  <2> QED
    BY <2>1, <2>2, <2>3, <2>4, <2>5, <2>6
<1>3. ASSUME turn' # turn
      PROVE  ~closed /\ TheTurn /\ turn' = [turn EXCEPT ![turnCounter] = "ended"]
  <2>1. ~closed
    BY <1>3 DEF JsonlInv, OpensInOrder
  <2> QED
    BY <1>2, <1>3, <2>1
<1>4. /\ turn \in [Turns -> {"none", "begun", "ended", "refused"}] /\ turnCounter \in Nat
      /\ turn' \in [Turns -> {"none", "begun", "ended", "refused"}]
      /\ turn' # turn => turn'[turnCounter] = "ended" /\ turnCounter \in Turns
      /\ \A t \in Turns : t # turnCounter => turn'[t] = turn[t]
  BY <1>3, AdapterBounds DEF JsonlInv, JsonlTypes, TheTurn
<1>5. JsonlTypes'
  BY <1>1, <1>4 DEF JsonlInv, JsonlTypes
<1>6. TurnsInOrder'
  <2>1. (\A t \in Turns : t > turnCounter => turn'[t] = "none")
        /\ (\A t \in Turns : t < turnCounter => turn'[t] \in {"ended", "refused"})
    BY <1>4 DEF JsonlInv, TurnsInOrder, Turns
  <2>2. turnCounter \in Turns /\ phase = "open" => turn'[turnCounter] # "none"
    <3>1. CASE turn' = turn
      BY <3>1 DEF JsonlInv, TurnsInOrder
    <3>2. CASE turn' # turn
      BY <1>4, <3>2
    <3> QED
      BY <3>1, <3>2
  <2>3. call = "gate" => /\ turnCounter \in Turns /\ turnCounter < MaxTurns
                         /\ turn'[turnCounter] \in {"ended", "refused"}
    <3>1. CASE turn' = turn
      BY <3>1 DEF JsonlInv, TurnsInOrder
    <3>2. CASE turn' # turn
      BY <1>4, <3>2 DEF JsonlInv, TurnsInOrder
    <3> QED
      BY <3>1, <3>2
  <2> QED
    BY <2>1, <2>2, <2>3 DEF TurnsInOrder
<1>7. OpensInOrder'
  BY DEF JsonlInv, OpensInOrder
<1>8. IdsAreOnce'
  BY <1>1 DEF JsonlInv, IdsAreOnce
<1>9. Prompts(pending)' = Prompts(pending) /\ \A i : IsPrompt(i)' <=> IsPrompt(i)
  BY DEF Prompts, IsPrompt
<1>10. CallWaits'
  <2>1. OnePrompt'
    BY <1>9 DEF JsonlInv, CallWaits, OnePrompt
  <2>2. call' = "sent" => Prompts(pending)' # {} \/ \E i \in 1..Len(settled') : IsPrompt(i)'
    BY <1>9 DEF JsonlInv, CallWaits
  <2>3. \A r \in Prompts(pending)' : PromptAwaited(r)'
    <3>1. ASSUME NEW r \in Prompts(pending)
          PROVE  PromptAwaited(r)'
      <4>1. PromptAwaited(r)
        BY DEF JsonlInv, CallWaits
      <4>2. turn' = turn
        BY <1>2, <1>3, <3>1
      <4> QED
        BY <4>1, <4>2 DEF PromptAwaited, TheTurn
    <3> QED
      BY <1>9, <3>1
  <2>4. \A i \in 1..Len(settled') : IsPrompt(i)' => PromptSettled(i)'
    <3>1. ASSUME NEW i \in 1..Len(settled), IsPrompt(i)
          PROVE  PromptSettled(i)'
      <4>1. PromptSettled(i)
        BY <3>1 DEF JsonlInv, CallWaits
      <4>2. CASE turn' = turn
        BY <4>1, <4>2 DEF PromptSettled, TheTurn
      <4>3. CASE turn' # turn
        <5>1. settled[i].ok
          BY <1>2, <1>3, <3>1, <4>3
        <5> QED
          BY <1>4, <4>1, <4>3, <5>1 DEF PromptSettled
      <4> QED
        BY <4>2, <4>3
    <3> QED
      BY <1>9, <3>1
  <2> QED
    BY <2>1, <2>2, <2>3, <2>4 DEF CallWaits
<1>11. ASSUME (Alive /\ ~closed)'
       PROVE  Flow'
  <2>1. ~closed
    BY <1>11
  <2>2. Resting' /\ EndsAt' = {} /\ running' = Idle
    BY <1>2, <2>1 DEF Resting
  <2>3. PromptsUntaken'
    BY <1>2, <2>1 DEF PromptsUntaken
  <2>4. Prompts(pending)' = {}
    BY <1>2, <1>9, <2>1
  <2>5. OthersElse' /\ AnswersFirst' /\ RestsBefore'
    BY <2>4 DEF OthersElse, AnswersFirst, RestsBefore
  <2>6. RunsTheTurn' /\ EndsTheTurn'
    BY <2>2 DEF RunsTheTurn, EndsTheTurn
  <2>7. RestsRefused'
    <3>1. \A i \in 1..Len(settled') : IsPrompt(i)' => settled'[i].ok
      BY <1>2, <1>9, <2>1
    <3> QED
      BY <3>1 DEF RestsRefused
  <2> QED
    BY <2>3, <2>5, <2>6, <2>7 DEF Flow
<1>12. Alive'
  BY <1>1 DEF Alive
<1>13. [Contract!Next]_(Contract!contractVars)
  <2>1. turn' = turn \/ Contract!SettleOne
    BY <1>3, Refused
  <2> QED
    BY <2>1, CoreNow, TurnStep
<1>14. Core'
  BY <1>5, <1>6, <1>7, <1>8, <1>10 DEF Core
<1> QED
  BY <1>11, <1>12, <1>13, <1>14, FlowStays

LEMMA JsonlRoutesKeeps ==
  ASSUME JsonlInv, JsonlRoutes
  PROVE  Keeps
<1>1. wire # <<>> /\ wire' = Tail(wire) /\ Head(wire) = wire[1] /\ wire[1] \in JsonlFrames
  BY WireRead DEF JsonlRoutes
<1>2. PICK f \in JsonlFrames : f = Head(wire) /\ f = wire[1]
  BY <1>1
<1>3. ASSUME Dispatch(f), f.type # "chunk"
      PROVE  Keeps
  <2>1. UNCHANGED <<harness, phase, call, turnCounter, proc, running>>
    BY <1>3 DEF Dispatch, inside
  <2>2. CASE f.type = "response" /\ RouteResponse(f) /\ UNCHANGED <<activeTurnId, permissions>>
    <3>1. UNCHANGED <<nextId, sent, closed, turn, reported>>
      BY <2>2 DEF RouteResponse, seen
    <3>2. CASE Answered(f.id) = {} /\ UNCHANGED <<pending, settled>>
      <4>1. \A r \in Prompts(pending) : ~Answers(1, r)
        BY <1>2, <3>2 DEF Answers, Answered, Prompts
      <4>2. ~IsEnd(wire[1])
        BY <1>2, <2>2 DEF IsEnd
      <4> QED
        BY <1>1, <2>1, <2>2, <3>1, <3>2, <4>1, <4>2, OtherRead
    <3>3. ASSUME NEW r \in Answered(f.id), pending' = pending \ {r},
                 settled' = Append(settled, [request |-> r, ok |-> f.ok])
          PROVE  Keeps
      <4>1. r \in pending /\ r.id = wire[1].id
        BY <1>2 DEF Answered
      <4> QED
        BY <1>1, <1>2, <2>1, <2>2, <3>1, <3>3, <4>1, AnswerRead
    <3> QED
      BY <2>2, <3>2, <3>3 DEF RouteResponse
  <2>3. ASSUME f.type = "ask" \/ f.type = "replay", UNCHANGED activeTurnId, UNCHANGED <<closed, pending, nextId, settled>>,
               UNCHANGED <<turn, reported>>,
               permissions' = permissions \/ \E p \in Perms : permissions' = permissions \cup {p},
               sent' = sent \/ \E p \in Perms : sent' = Written(Answer(p))
        PROVE  Keeps
    <3>1. ~IsEnd(wire[1]) /\ \A r \in Prompts(pending) : ~Answers(1, r)
      BY <1>2, <2>3 DEF IsEnd, Answers
    <3> QED
      BY <1>1, <2>1, <2>3, <3>1, OtherRead
  <2>4. CASE f.type = "ask" /\ OnUiRequest(f.perm) /\ UNCHANGED <<activeTurnId, transport, seen>>
    <3>1. PICK p \in Perms : p = f.perm
      BY <1>2, <2>4 DEF JsonlFrames, Frames, EndFrame
    <3>2. /\ permissions' = permissions \/ permissions' = permissions \cup {p}
          /\ sent' = sent \/ sent' = Written(Answer(p))
      BY <2>4, <3>1 DEF OnUiRequest
    <3>3. UNCHANGED <<closed, pending, nextId, settled>> /\ UNCHANGED <<turn, reported>>
      BY <2>4 DEF transport, seen
    <3> QED
      BY <2>3, <2>4, <3>2, <3>3
  <2>5. CASE f.type = "replay" /\ EmitReplay /\ UNCHANGED <<activeTurnId, permissions, transport, sent>>
    <3>1. UNCHANGED <<closed, pending, nextId, settled>> /\ UNCHANGED <<turn, reported>>
      BY <2>5 DEF transport, EmitReplay
    <3> QED
      BY <2>3, <2>5, <3>1
  <2>6. CASE f.type = "agent_end" /\ OnAgentEnd(f.of) /\ UNCHANGED <<permissions, transport, sent>>
    <3>1. /\ UNCHANGED <<closed, pending, nextId, settled, permissions, sent, reported>>
          /\ activeTurnId' \in {0, activeTurnId}
      BY <2>6 DEF transport, OnAgentEnd, EmitEnd
    <3>2. turn' = turn \/ (phase = "open" /\ turn' = [turn EXCEPT ![turnCounter] = "ended"])
      BY <2>6 DEF OnAgentEnd, EmitEnd, Subscribed, JsonlInv, JsonlTypes
    <3>3. IsEnd(wire[1])
      BY <1>2, <2>6 DEF IsEnd
    <3> QED
      BY <1>1, <2>1, <3>1, <3>2, <3>3, EndRead
  <2>7. CASE f.type = "agent_end" /\ UNCHANGED <<activeTurnId, permissions, transport, sent, seen>>
    <3>1. UNCHANGED <<closed, pending, nextId, settled, permissions, sent, turn, reported>>
      BY <2>7 DEF transport, seen
    <3>2. IsEnd(wire[1]) /\ activeTurnId' \in {0, activeTurnId}
      BY <1>2, <2>7 DEF IsEnd
    <3> QED
      BY <1>1, <2>1, <3>1, <3>2, EndRead
  <2> QED
    BY <1>3, <2>2, <2>4, <2>5, <2>6, <2>7 DEF Dispatch
<1>4. CASE f.type = "chunk" /\ Completes(f) /\ Dispatch(f.whole)
  <2>1. f.whole.type = "agent_end" /\ IsEnd(wire[1])
    BY <1>2, <1>4 DEF JsonlFrames, Frames, EndFrame, Completes, IsEnd
  <2>2. UNCHANGED <<harness, phase, call, turnCounter, proc, running>>
    BY <1>4 DEF Dispatch, inside
  <2>3. \/ OnAgentEnd(f.whole.of) /\ UNCHANGED <<permissions, transport, sent>>
        \/ UNCHANGED <<activeTurnId, permissions, transport, sent, seen>>
    BY <1>4, <2>1 DEF Dispatch
  <2>4. /\ UNCHANGED <<closed, pending, nextId, settled, permissions, sent, reported>>
        /\ activeTurnId' \in {0, activeTurnId}
    BY <2>3 DEF transport, seen, OnAgentEnd, EmitEnd
  <2>5. turn' = turn \/ (phase = "open" /\ turn' = [turn EXCEPT ![turnCounter] = "ended"])
    BY <2>3 DEF seen, OnAgentEnd, EmitEnd, Subscribed, JsonlInv, JsonlTypes
  <2> QED
    BY <1>1, <2>1, <2>2, <2>4, <2>5, EndRead
<1>5. CASE /\ f.type = "chunk"
           /\ UNCHANGED <<harness, resumed, phase, suppressReplay, turnCounter, activeTurnId,
                          permissions, call, mcpToolsLoaded, transport, proc, sent, inside, seen>>
  <2>1. /\ UNCHANGED <<harness, phase, call, turnCounter, activeTurnId, closed, pending, nextId>>
        /\ UNCHANGED <<settled, proc, running, turn, reported, permissions, sent>>
    BY <1>5 DEF transport, inside, seen
  <2>2. CASE IsEnd(wire[1])
    BY <1>1, <2>1, <2>2, EndRead
  <2>3. CASE ~IsEnd(wire[1])
    <3>1. \A r \in Prompts(pending) : ~Answers(1, r)
      BY <1>2, <1>5 DEF Answers
    <3> QED
      BY <1>1, <2>1, <2>3, <3>1, OtherRead
  <2> QED
    BY <2>2, <2>3
<1> QED
  BY <1>2, <1>3, <1>4, <1>5 DEF JsonlRoutes

-----------------------------------------------------------------------------
LEMMA JsonlStart ==
  ASSUME Jsonl, SessionInit
  PROVE  JsonlInv /\ Contract!Init
<1>1. MaxTurns \in Nat /\ 0 \notin Turns
  BY AdapterBounds DEF Turns
<1>2. /\ phase = "spawned" /\ turnCounter = 0 /\ activeTurnId = 0 /\ call = "none" /\ closed = FALSE
      /\ pending = {} /\ nextId = 0 /\ settled = <<>> /\ sent = <<>> /\ wire = <<>>
      /\ running = Idle /\ turn = [t \in Turns |-> "none"] /\ reported = FALSE /\ Alive
      /\ permissions = {} /\ harness \in {"pi", "omp"}
  BY DEF SessionInit, Jsonl, Alive
<1>3. 1..Len(settled) = {} /\ 1..Len(sent) = {} /\ 1..Len(wire) = {} /\ Prompts(pending) = {}
  BY <1>2 DEF Prompts
<1>4. JsonlTypes
  <2>1. /\ settled \in Seq(Settlement) /\ sent \in Seq(Messages) /\ wire \in Seq(JsonlFrames)
        /\ pending \subseteq Request /\ permissions \subseteq Perms
    BY <1>2
  <2>2. turnCounter \in 0..MaxTurns /\ running \in [id : Nat, turn : 0..MaxTurns] /\ nextId \in Nat
    BY <1>1, <1>2 DEF Idle
  <2>3. turn \in [Turns -> {"none", "begun", "ended", "refused"}]
    BY <1>2
  <2> QED
    BY <1>2, <2>1, <2>2, <2>3 DEF JsonlTypes, JsonlPhases
<1>5. TurnsInOrder /\ OpensInOrder /\ IdsAreOnce
  BY <1>1, <1>2, <1>3 DEF TurnsInOrder, OpensInOrder, IdsAreOnce, OpeningPhases
<1>6. CallWaits
  BY <1>2, <1>3 DEF CallWaits, OnePrompt
<1>7. EndsAt = {}
  BY <1>3 DEF EndsAt
<1>8. Flow
  BY <1>2, <1>3, <1>7 DEF Flow, PromptsUntaken, OthersElse, RunsTheTurn, EndsTheTurn, AnswersFirst,
                          RestsBefore, RestsRefused
<1>9. Contract!Init
  BY <1>2 DEF Contract!Init
<1> QED
  BY <1>2, <1>4, <1>5, <1>6, <1>8, <1>9 DEF JsonlInv, FlowKept

(* Nothing of grok and of the mock happens. *)
LEMMA OthersIdle ==
  ASSUME Jsonl
  PROVE  ~AcpNext /\ ~MockNext
<1>1. ~AcpNext
  BY DEF Jsonl, AcpNext, Acp, AcpOpens, AcpContinues, AcpTimesOut, AcpExits, AcpStartsTurn,
         AcpInterrupts, AcpSetsModel, AcpResponds, AcpCloses, AcpRoutes, AcpHarnessEnds, AcpHarnessTakes
<1>2. ~MockNext
  BY DEF Jsonl, MockNext, Mock, MockOpens, MockStartsTurn, MockScenario, MockInterrupts,
         MockResponds, MockCloses
<1> QED
  BY <1>1, <1>2

LEMMA JsonlUnchanged ==
  ASSUME JsonlInv, UNCHANGED adapterVars
  PROVE  Keeps
<1>1. /\ UNCHANGED <<harness, phase, call, turnCounter, activeTurnId, closed, pending, nextId>>
      /\ UNCHANGED <<settled, proc, running, turn, reported, permissions, sent, wire>>
  BY DEF adapterVars, object, transport, process, inside, seen
<1>2. Prompts(pending)' = Prompts(pending) /\ (TheTurn' <=> TheTurn)
  BY <1>1 DEF Prompts, TheTurn
<1>3. \A i : IsPrompt(i)' <=> IsPrompt(i)
  BY <1>1 DEF IsPrompt
<1>4. CallWaits'
  BY <1>1, <1>2, <1>3 DEF JsonlInv, CallWaits, OnePrompt, PromptAwaited, PromptSettled
<1>5. JsonlTypes' /\ TurnsInOrder' /\ OpensInOrder' /\ IdsAreOnce'
  BY <1>1 DEF JsonlInv, JsonlTypes, TurnsInOrder, OpensInOrder, IdsAreOnce
<1>6. ASSUME (Alive /\ ~closed)'
      PROVE  Flow'
  <2>1. Flow
    BY <1>1, <1>6, CoreNow DEF Alive
  <2>2. /\ \A i \in 1..Len(settled') : \E k \in 1..Len(settled) : settled'[i] = settled[k]
        /\ Prompts(pending') = Prompts(pending)
    BY <1>1
  <2> QED
    BY <1>1, <2>1, <2>2, CoreNow, FlowTraffic
<1>7. ~Alive' => wire' = <<>>
  BY <1>1, CoreNow DEF Alive
<1>8. [Contract!Next]_(Contract!contractVars)
  BY <1>1 DEF Contract!contractVars
<1>9. Core'
  BY <1>4, <1>5 DEF Core
<1> QED
  BY <1>6, <1>7, <1>8, <1>9, FlowStays

LEMMA JsonlStep ==
  ASSUME JsonlInv, Barred({"late", "unread"}), [Next]_adapterVars
  PROVE  Keeps
<1>1. Jsonl
  BY DEF JsonlInv, JsonlTypes, Jsonl
<1>2. ~Allows("late") /\ ~Allows("unread")
  BY DEF Barred, Allows
<1>3. ASSUME Unheard
      PROVE  Keeps
  BY <1>3 DEF Unheard, Keeps
<1>4. CASE JsonlInterrupts \/ JsonlSetsModel \/ OmpPolls
  <2>1. PICK cmd \in {"get_state", "abort", "set_model"} :
          Send(pending, cmd, 0) /\ UNCHANGED <<object, closed, settled, proc, wire, inside, seen>>
    BY <1>4 DEF JsonlInterrupts, JsonlSetsModel, SetModel, OmpPolls
  <2>2. phase \notin OpeningPhases
    BY <1>4 DEF JsonlInterrupts, MayInterrupt, JsonlSetsModel, SetModel, MayCall, OmpPolls,
                JsonlInv, OpensInOrder, OpeningPhases
  <2> QED
    BY <2>1, <2>2, JsonlSends
<1>5. CASE JsonlNext
  BY <1>2, <1>3, <1>4, <1>5, JsonlOpensKeeps, JsonlContinuesKeeps, JsonlTimesOutKeeps, JsonlExitsKeeps,
     PromptKeeps, OmpGatesKeeps, PiRespondsKeeps, JsonlClosesKeeps, JsonlRoutesKeeps,
     JsonlHarnessEndsUnheard, JsonlHarnessTakesUnheard DEF JsonlNext
<1>6. CASE HarnessSteps
  BY <1>3, <1>6, HarnessStepsUnheard
<1>7. CASE UNCHANGED adapterVars
  BY <1>7, JsonlUnchanged
<1> QED
  BY <1>1, <1>5, <1>6, <1>7, OthersIdle DEF Next

ContractInv == AdapterInv \/ JsonlInv

LEMMA EveryAdapterStarts ==
  ASSUME SessionInit
  PROVE  ContractInv /\ Contract!Init
<1>1. Others \/ Jsonl
  BY HarnessAssumption DEF SessionInit, Others, Jsonl, AllHarnesses
<1> QED
  BY <1>1, AdaptersStart, JsonlStart DEF ContractInv

LEMMA EveryAdapterSteps ==
  ASSUME ContractInv, Barred({"late", "unread"}), [Next]_adapterVars
  PROVE  ContractInv' /\ [Contract!Next]_(Contract!contractVars)
  BY AdaptersStep, JsonlStep DEF ContractInv, Implemented, Keeps

(* contract.ts, core.ts, transport.ts, grok.ts, mock.ts: the sessions of every adapter keep the
   contract of an AgentSession, when prompts that time out are not run later and the output of a
   process is read before its end is seen. *)
THEOREM EveryAdapterKeepsContract ==
  ASSUME Barred({"late", "unread"})
  PROVE  Spec => KeepsContract
<1>1. SessionInit => ContractInv /\ Contract!Init
  BY EveryAdapterStarts
<1>2. ContractInv /\ [Next]_adapterVars => ContractInv' /\ [Contract!Next]_(Contract!contractVars)
  BY EveryAdapterSteps
<1> QED
  BY <1>1, <1>2, PTL DEF Spec, KeepsContract, Contract!Spec

-----------------------------------------------------------------------------
(* What is shown is what happens.  An end names the turn that it ends: of the frames of pi and omp
   because it is on its way up only while that turn is the last one, and open. *)

LEMMA JsonlShows ==
  ASSUME JsonlNext, ~JsonlRoutes
  PROVE  UNCHANGED <<ends, replayed, harness, resumed>>
  BY DEF JsonlNext, JsonlOpens, JsonlContinues, JsonlTimesOut, JsonlExits, FailAllPending, After,
         JsonlStartsTurn, OmpPassesGate, Prompt, OmpGates, OmpPolls, JsonlInterrupts, JsonlSetsModel,
         SetModel, PiResponds, JsonlCloses, JsonlHarnessEnds, JsonlHarnessTakes, Works, Taking,
         object, seen

LEMMA AcpShows ==
  ASSUME AcpNext
  PROVE  /\ ends' = ends \/ \E t : ends' = ends \cup {[of |-> t, as |-> t]}
         /\ UNCHANGED <<harness, resumed>>
         /\ ~AcpRoutes => replayed' = replayed
<1>1. ASSUME NEW request, NEW ok, NEW rest, AcpAfter(request, ok, rest)
      PROVE  /\ ends' = ends \/ \E t : ends' = ends \cup {[of |-> t, as |-> t]}
             /\ UNCHANGED <<harness, resumed, replayed>>
  BY <1>1 DEF AcpAfter, AfterInitialize, AfterSession, AfterModel, AfterFailure, AfterTurn
<1>2. CASE AcpContinues \/ AcpTimesOut \/ AcpExits
  BY <1>1, <1>2 DEF AcpContinues, AcpTimesOut, AcpExits, object
<1>3. CASE AcpRoutes
  BY <1>3 DEF AcpRoutes, RouteResponse, EmitReplay, seen
<1> QED
  BY <1>2, <1>3 DEF AcpNext, AcpOpens, AcpStartsTurn, AcpInterrupts, AcpSetsModel, SetModel,
     AcpResponds, AcpCloses, AcpHarnessEnds, AcpHarnessTakes, Works, Taking, object, seen

LEMMA MockShows ==
  ASSUME MockNext
  PROVE  /\ ends' = ends \/ \E t : ends' = ends \cup {[of |-> t, as |-> t]}
         /\ UNCHANGED <<harness, resumed, replayed>>
  BY DEF MockNext, MockOpens, MockStartsTurn, MockScenario, MockInterrupts, MockResponds, MockCloses,
         MockEnds, MockFrame

LEMMA HarnessShows ==
  ASSUME HarnessSteps \/ UNCHANGED adapterVars
  PROVE  UNCHANGED <<ends, harness, resumed, replayed>>
  BY DEF HarnessSteps, HarnessAsks, HarnessReplays, HarnessTakesAnswer, HarnessTakesRequest, Works,
         Taking, Room, adapterVars, object, seen

(* The end that the session shows is that of the last turn, by the flow. *)
LEMMA EndNamesItsTurn ==
  ASSUME JsonlInv, EndsNameTheirTurn, JsonlRoutes
  PROVE  EndsNameTheirTurn'
<1>1. wire # <<>> /\ wire' = Tail(wire) /\ Head(wire) = wire[1] /\ wire[1] \in JsonlFrames /\ Alive
      /\ 1 \in 1..Len(wire)
  BY WireRead DEF JsonlRoutes
<1>2. PICK f \in JsonlFrames : f = Head(wire) /\ f = wire[1]
  BY <1>1
<1>3. ASSUME NEW of, OnAgentEnd(of), IsEnd(f), EndOf(f) = of
      PROVE  EndsNameTheirTurn'
  <2>1. CASE phase = "open"
    <3>1. ~closed /\ activeTurnId \in {0, turnCounter}
      BY <2>1 DEF JsonlInv, OpensInOrder, JsonlTypes
    <3>2. EndOf(f) = turnCounter
      <4>1. Flow /\ 1 \in EndsAt
        BY <1>1, <1>2, <1>3, <3>1, CoreNow DEF EndsAt
      <4> QED
        BY <1>2, <4>1 DEF Flow, EndsTheTurn
    <3>3. ends' = ends \cup {[of |-> turnCounter, as |-> turnCounter]}
      BY <1>3, <2>1, <3>1, <3>2 DEF OnAgentEnd, EmitEnd, Subscribed
    <3> QED
      BY <3>3 DEF EndsNameTheirTurn
  <2>2. CASE phase # "open"
    BY <1>3, <2>2 DEF OnAgentEnd, EmitEnd, Subscribed, EndsNameTheirTurn
  <2> QED
    BY <2>1, <2>2
<1>4. ASSUME ends' = ends
      PROVE  EndsNameTheirTurn'
  BY <1>4 DEF EndsNameTheirTurn
<1>5. CASE f.type # "chunk" /\ Dispatch(f)
  <2>1. \/ ends' = ends
        \/ f.type = "agent_end" /\ OnAgentEnd(f.of)
    BY <1>5 DEF Dispatch, RouteResponse, EmitReplay, seen
  <2>2. f.type = "agent_end" => IsEnd(f) /\ EndOf(f) = f.of
    BY DEF IsEnd, EndOf
  <2> QED
    BY <1>3, <1>4, <2>1, <2>2
<1>6. CASE f.type = "chunk" /\ Completes(f) /\ Dispatch(f.whole)
  <2>1. f.whole.type = "agent_end" /\ IsEnd(f) /\ EndOf(f) = f.whole.of
    BY <1>6 DEF JsonlFrames, Frames, EndFrame, Completes, IsEnd, EndOf
  <2>2. ends' = ends \/ OnAgentEnd(f.whole.of)
    BY <1>6, <2>1 DEF Dispatch, seen
  <2> QED
    BY <1>3, <1>4, <2>1, <2>2
<1>7. CASE f.type = "chunk" /\ UNCHANGED seen
  BY <1>4, <1>7 DEF seen
<1> QED
  BY <1>2, <1>5, <1>6, <1>7 DEF JsonlRoutes

LEMMA EndsStep ==
  ASSUME ContractInv, EndsNameTheirTurn, [Next]_adapterVars
  PROVE  EndsNameTheirTurn'
<1>1. ends' = ends \/ (\E t : ends' = ends \cup {[of |-> t, as |-> t]}) \/ JsonlRoutes
  BY JsonlShows, AcpShows, MockShows, HarnessShows DEF Next
<1>2. ASSUME ends' = ends \/ (\E t : ends' = ends \cup {[of |-> t, as |-> t]})
      PROVE  EndsNameTheirTurn'
  BY <1>2 DEF EndsNameTheirTurn
<1>3. CASE JsonlRoutes
  <2>1. JsonlInv
    BY <1>3 DEF JsonlRoutes, Jsonl, ContractInv, AdapterInv, TurnsCounted
  <2> QED
    BY <1>3, <2>1, EndNamesItsTurn
<1> QED
  BY <1>1, <1>2, <1>3

-----------------------------------------------------------------------------
(* What was replayed is dropped: by omp until its first prompt, which comes when nothing is being
   replayed any more. *)

OmpReplay ==
  /\ ~replayed
  /\ \A i \in 1..Len(wire) : wire[i].type = "replay" => harness = "omp" /\ resumed /\ turnCounter = 0
  /\ harness = "omp" /\ resumed /\ turnCounter = 0 => suppressReplay \/ phase = "spawned"

LEMMA NothingIsAskedYet ==
  ASSUME JsonlInv, phase = "spawned"
  PROVE  pending = {} /\ settled = <<>>
<1>1. pending = {}
  <2>1. \A r \in pending : r.cmd = "spawned" /\ r.cmd \in Commands
    BY DEF JsonlInv, OpensInOrder, OpeningPhases, JsonlTypes, Request
  <2> QED
    BY <2>1 DEF Commands
<1>2. settled = <<>>
  <2>1. \A i \in 1..Len(settled) : settled[i] \in Settlement
    BY CoreNow
  <2>2. \A i \in 1..Len(settled) : settled[i].request.cmd \in Commands
    BY <2>1 DEF Settlement, Request
  <2>3. \A i \in 1..Len(settled) : settled[i].request.cmd = "spawned"
    BY DEF JsonlInv, OpensInOrder, OpeningPhases
  <2>4. \A i \in 1..Len(settled) : FALSE
    BY <2>2, <2>3 DEF Commands
  <2>5. Len(settled) = 0
    BY <2>4, CoreNow
  <2> QED
    BY <2>5, CoreNow
<1> QED
  BY <1>1, <1>2

(* Of what a harness writes only a replay is one. *)
LEMMA WritesNoReplay ==
  ASSUME wire \in Seq(JsonlFrames), NEW frames \in Seq(JsonlFrames), Writes(frames),
         \A i \in 1..Len(frames) : frames[i].type # "replay"
  PROVE  \A i \in 1..Len(wire') : wire'[i].type = "replay" => i \in 1..Len(wire) /\ wire'[i] = wire[i]
<1>1. /\ Len(wire') = Len(wire) + Len(frames) /\ Len(wire) \in Nat /\ Len(frames) \in Nat
      /\ \A i \in 1..Len(wire') : \/ i \in 1..Len(wire) /\ wire'[i] = wire[i]
                                  \/ i - Len(wire) \in 1..Len(frames) /\ wire'[i] = frames[i - Len(wire)]
  BY DEF Writes
<1> QED
  BY <1>1

LEMMA HarnessReplaysNothing ==
  ASSUME JsonlInv, \/ JsonlHarnessEnds \/ JsonlHarnessTakes \/ HarnessAsks
                   \/ HarnessTakesAnswer \/ HarnessTakesRequest
  PROVE  \A i \in 1..Len(wire') : wire'[i].type = "replay" => i \in 1..Len(wire) /\ wire'[i] = wire[i]
<1>1. wire \in Seq(JsonlFrames) /\ sent \in Seq(Messages)
  BY CoreNow
<1>2. PICK t \in 0..MaxTurns : t = running.turn
  BY DEF JsonlInv, JsonlTypes
<1>3. ASSUME NEW f \in JsonlFrames, f.type # "replay", Writes(<<f>>)
      PROVE  \A i \in 1..Len(wire') : wire'[i].type = "replay" => i \in 1..Len(wire) /\ wire'[i] = wire[i]
  <2>1. <<f>> \in Seq(JsonlFrames) /\ \A i \in 1..Len(<<f>>) : <<f>>[i].type # "replay"
    BY <1>3
  <2> QED
    BY <1>1, <1>3, <2>1, WritesNoReplay
<1>4. ASSUME NEW f \in JsonlFrames, NEW g \in JsonlFrames, f.type # "replay", g.type # "replay",
             Writes(<<f, g>>)
      PROVE  \A i \in 1..Len(wire') : wire'[i].type = "replay" => i \in 1..Len(wire) /\ wire'[i] = wire[i]
  <2>1. <<f, g>> \in Seq(JsonlFrames) /\ \A i \in 1..Len(<<f, g>>) : <<f, g>>[i].type # "replay"
    BY <1>4
  <2> QED
    BY <1>1, <1>4, <2>1, WritesNoReplay
<1>5. ASSUME NEW i \in {0, 1}
      PROVE  /\ AgentEnd(t) \in JsonlFrames /\ AgentEnd(t).type # "replay"
             /\ Chunk(AgentEnd(t), i) \in JsonlFrames /\ Chunk(AgentEnd(t), i).type # "replay"
  <2>1. AgentEnd(t).type # "replay" /\ Chunk(AgentEnd(t), i).type # "replay"
    BY DEF AgentEnd, Chunk
  <2> QED
    BY <2>1, EndFrameOf
<1>6. ASSUME NEW id \in Nat, NEW ok \in BOOLEAN
      PROVE  Response(id, ok) \in JsonlFrames /\ Response(id, ok).type # "replay"
  BY ResponseFrame
<1>7. CASE JsonlHarnessEnds
  BY <1>2, <1>3, <1>4, <1>5, <1>7 DEF JsonlHarnessEnds, EndFrames
<1>8. ASSUME Taking
      PROVE  Head(sent).cmd \in Commands => Head(sent).id \in Nat
  BY <1>8, HeadTaken
<1>9. CASE JsonlHarnessTakes
  <2>1. Head(sent).id \in Nat \/ UNCHANGED wire
    <3>1. "prompt" \in Commands /\ "abort" \in Commands
      BY DEF Commands
    <3> QED
      BY <1>8, <1>9, <3>1 DEF JsonlHarnessTakes
  <2> QED
    BY <1>2, <1>3, <1>4, <1>5, <1>6, <1>9, <2>1 DEF JsonlHarnessTakes
<1>10. CASE HarnessAsks
  <2>1. \A p \in Perms : UiRequest(p) \in JsonlFrames /\ UiRequest(p).type # "replay"
    BY DEF UiRequest, JsonlFrames, Frames
  <2> QED
    BY <1>3, <1>10, <2>1 DEF HarnessAsks
<1>11. CASE HarnessTakesRequest
  <2>1. Head(sent).id \in Nat
    BY <1>8, <1>11 DEF HarnessTakesRequest, Opening, Commands
  <2> QED
    BY <1>3, <1>6, <1>11, <2>1 DEF HarnessTakesRequest
<1>12. CASE HarnessTakesAnswer
  BY <1>12 DEF HarnessTakesAnswer
<1> QED
  BY <1>7, <1>9, <1>10, <1>11, <1>12

(* Nothing more is replayed, and what drops a replay is still there. *)
LEMMA ReplayStaysDropped ==
  ASSUME OmpReplay, replayed' = replayed \/ ~replayed', UNCHANGED <<harness, resumed, turnCounter>>,
         \A i \in 1..Len(wire') : wire'[i].type = "replay" => \E k \in 1..Len(wire) : wire[k].type = "replay",
         suppressReplay' = suppressReplay, phase = "spawned" => phase' = "spawned"
  PROVE  OmpReplay'
  BY DEF OmpReplay

LEMMA PromptDropsReplays ==
  ASSUME JsonlInv, OmpReplay, ~Allows("replay"), JsonlStartsTurn \/ OmpPassesGate
  PROVE  OmpReplay'
<1>1. Prompt /\ wire \in Seq(JsonlFrames) /\ turnCounter \in Nat
  BY AdapterBounds DEF JsonlStartsTurn, OmpPassesGate, JsonlInv, JsonlTypes
<1>2. UNCHANGED <<replayed, harness, resumed, wire>> /\ turnCounter' = turnCounter + 1
  BY <1>1 DEF Prompt
<1>3. ASSUME NEW i \in 1..Len(wire), wire[i].type = "replay"
      PROVE  FALSE
  <2>1. wire[i] \in JsonlFrames
    BY <1>1
  <2>2. wire[i] = Replay
    BY <1>3, <2>1 DEF JsonlFrames, Frames, EndFrame, Replay
  <2>3. CASE JsonlStartsTurn
    <3>1. i \in DOMAIN wire
      BY <1>1
    <3> QED
      BY <2>2, <2>3, <3>1 DEF JsonlStartsTurn, MayStart
  <2>4. CASE OmpPassesGate
    <3>1. turnCounter \in Turns
      BY <2>4 DEF OmpPassesGate, JsonlInv, TurnsInOrder
    <3>2. turnCounter # 0
      BY <3>1, AdapterBounds DEF Turns
    <3> QED
      BY <1>3, <3>2 DEF OmpReplay
  <2> QED
    BY <2>3, <2>4
<1> QED
  BY <1>1, <1>2, <1>3 DEF OmpReplay

(* What is replayed is dropped as it is read. *)
LEMMA ReadsDropReplays ==
  ASSUME JsonlInv, OmpReplay, JsonlRoutes
  PROVE  OmpReplay'
<1> DEFINE frame == Head(wire)
<1>1. /\ wire # <<>> /\ wire' = Tail(wire)
      /\ UNCHANGED <<harness, resumed, turnCounter, suppressReplay, phase>>
  BY DEF JsonlRoutes, Dispatch
<1>2. /\ frame = wire[1] /\ wire[1] \in JsonlFrames /\ 1 \in 1..Len(wire)
      /\ \A i \in 1..Len(wire') : wire'[i] = wire[i + 1] /\ i + 1 \in 1..Len(wire)
  BY <1>1, WireRead
<1>3. ASSUME NEW f, Dispatch(f), f.type = "replay" => f = frame
      PROVE  replayed' = replayed \/ ~replayed'
  <2>1. CASE f.type = "replay" /\ EmitReplay
    <3>1. harness = "omp" /\ resumed /\ turnCounter = 0 /\ ~replayed
      BY <1>2, <1>3, <2>1 DEF OmpReplay
    <3>2. ~(Subscribed /\ ~suppressReplay)
      BY <3>1 DEF OmpReplay, Subscribed
    <3>3. replayed' = (replayed \/ (Subscribed /\ ~suppressReplay))
      BY <2>1 DEF EmitReplay
    <3> QED
      BY <3>1, <3>2, <3>3
  <2>2. CASE ~(f.type = "replay" /\ EmitReplay)
    BY <1>3, <2>2 DEF Dispatch, RouteResponse, OnAgentEnd, EmitEnd, seen
  <2> QED
    BY <2>1, <2>2
<1>4. frame.type = "chunk" => frame.whole.type = "agent_end"
  BY <1>2 DEF JsonlFrames, Frames, EndFrame
<1>5. replayed' = replayed \/ ~replayed'
  BY <1>3, <1>4 DEF JsonlRoutes, seen
<1> QED
  BY <1>1, <1>2, <1>5, ReplayStaysDropped

LEMMA OmpReplayStep ==
  ASSUME JsonlInv, OmpReplay, ~Allows("replay"), [Next]_adapterVars
  PROVE  OmpReplay'
<1>0. Jsonl /\ wire \in Seq(JsonlFrames)
  BY CoreNow DEF JsonlInv, JsonlTypes, Jsonl
<1>1. CASE JsonlContinues \/ JsonlTimesOut \/ JsonlExits
  <2>1. wire' = wire /\ UNCHANGED <<replayed, harness, resumed>>
    BY <1>1 DEF JsonlContinues, JsonlTimesOut, JsonlExits, FailAllPending, After, object
  <2>2. ASSUME phase = "spawned"
        PROVE  phase' = "spawned"
    BY <1>1, <2>2, NothingIsAskedYet
       DEF JsonlContinues, JsonlTimesOut, JsonlExits, FailAllPending, Quiet, object
  <2>3. turnCounter' = turnCounter /\ suppressReplay' = suppressReplay
    BY <1>1 DEF JsonlContinues, JsonlTimesOut, JsonlExits, FailAllPending, After, object
  <2> QED
    BY <2>1, <2>2, <2>3, ReplayStaysDropped
<1>2. CASE JsonlOpens
  <2>1. /\ UNCHANGED <<replayed, harness, resumed, turnCounter, wire>>
        /\ suppressReplay' = (harness = "omp" /\ resumed)
    BY <1>2 DEF JsonlOpens, seen
  <2> QED
    BY <2>1 DEF OmpReplay
<1>3. CASE JsonlStartsTurn \/ OmpPassesGate
  BY <1>3, PromptDropsReplays
<1>4. CASE JsonlRoutes
  BY <1>4, ReadsDropReplays
<1>5. ASSUME UNCHANGED <<replayed, harness, resumed, turnCounter, wire, suppressReplay>>,
             phase = "spawned" => phase' = "spawned"
      PROVE  OmpReplay'
  BY <1>5, ReplayStaysDropped
<1>6. CASE OmpGates \/ OmpPolls \/ JsonlInterrupts \/ JsonlSetsModel \/ PiResponds \/ JsonlCloses
  <2>1. UNCHANGED <<replayed, harness, resumed, turnCounter, wire, suppressReplay>>
    BY <1>6 DEF OmpGates, OmpPolls, JsonlInterrupts, JsonlSetsModel, SetModel, PiResponds, JsonlCloses,
                object, seen, process
  <2>2. phase = "spawned" => phase' = "spawned"
    BY <1>6 DEF OmpGates, OmpPolls, JsonlInterrupts, JsonlSetsModel, SetModel, PiResponds, JsonlCloses,
                object
  <2> QED
    BY <1>5, <2>1, <2>2
<1>7. CASE JsonlHarnessEnds \/ JsonlHarnessTakes \/ HarnessAsks \/ HarnessTakesAnswer \/ HarnessTakesRequest
  <2>1. UNCHANGED <<replayed, harness, resumed, turnCounter, suppressReplay, phase>>
    BY <1>7 DEF JsonlHarnessEnds, JsonlHarnessTakes, HarnessAsks, HarnessTakesAnswer,
                HarnessTakesRequest, Works, Taking, object, seen
  <2>2. \A i \in 1..Len(wire') : wire'[i].type = "replay" => i \in 1..Len(wire) /\ wire'[i] = wire[i]
    BY <1>7, HarnessReplaysNothing
  <2> QED
    BY <2>1, <2>2, ReplayStaysDropped
<1>8. CASE HarnessReplays
  <2>1. /\ UNCHANGED <<replayed, harness, resumed, turnCounter, suppressReplay, phase>>
        /\ harness = "omp" /\ resumed /\ turnCounter = 0
    BY <1>0, <1>8 DEF HarnessReplays, object, seen, Jsonl
  <2> QED
    BY <2>1 DEF OmpReplay
<1>9. CASE UNCHANGED adapterVars
  BY <1>5, <1>9 DEF adapterVars, object, seen, process
<1> QED
  BY <1>0, <1>1, <1>2, <1>3, <1>4, <1>6, <1>7, <1>8, <1>9, OthersIdle
     DEF Next, JsonlNext, HarnessSteps

-----------------------------------------------------------------------------
(* grok replays before it answers session/load, and the session is opened by that answer: what was
   replayed has been read by then.  A load that is given up fails the session, which shows nothing. *)

GrokOpening == {"spawned", "initialize", "new", "load"}
Sessions    == {"initialize", "new", "load"}

(* A session that is being opened makes one request at a time. *)
GrokOpens ==
  /\ phase \in GrokOpening =>
       /\ \A r \in pending : r.cmd = phase
       /\ \A r, q \in pending : r = q
       /\ \A i \in 1..Len(settled) : settled[i].request.cmd = phase /\ i = 1 /\ pending = {}
  /\ phase \notin GrokOpening =>
       /\ \A r \in pending : r.cmd \notin Sessions
       /\ \A i \in 1..Len(settled) : settled[i].request.cmd \notin Sessions

IdsGiven ==
  /\ \A i \in 1..Len(sent) : sent[i].cmd \in Commands => sent[i].id < nextId
  /\ \A i \in 1..Len(wire) : wire[i].type = "response" => wire[i].id < nextId
  /\ running # Idle => running.id < nextId

NoReplay == \A i \in 1..Len(wire) : wire[i].type # "replay"
NoLoad   == \A i \in 1..Len(sent) : sent[i].cmd # "load"

(* The load is the last request; once it is answered nothing is replayed. *)
LoadAwaited(r) ==
  /\ \A i \in 1..Len(sent) : sent[i].cmd \in Commands => sent[i].cmd = "load" \/ sent[i].id < r.id
  /\ running # Idle => running.id < r.id
  /\ \A j \in 1..Len(wire) : Answers(j, r) =>
       NoLoad /\ \A i \in 1..Len(wire) : wire[i].type = "replay" => i < j

LoadInOrder ==
  /\ phase \notin {"load", "failed"} => NoReplay /\ NoLoad
  /\ phase = "load" =>
       /\ settled # <<>> => NoReplay /\ NoLoad
       /\ \A i, j \in 1..Len(sent) : sent[i].cmd = "load" /\ sent[j].cmd = "load" => i = j
       /\ \A r \in pending : LoadAwaited(r)

GrokInv == GrokOpens /\ IdsGiven /\ LoadInOrder

(* A request is written in a session of grok. *)
LEMMA GrokSends ==
  ASSUME PipesTypeOK, IdsGiven, NEW rest \in SUBSET pending, NEW cmd \in Commands, NEW t \in 0..MaxTurns,
         Send(rest, cmd, t), UNCHANGED <<wire, running>>
  PROVE  /\ pending' = rest \cup {NewRequest(cmd, t)} /\ IdsGiven'
         /\ \/ sent' = sent
            \/ sent' = Append(sent, NewRequest(cmd, t))
         /\ NewRequest(cmd, t) \in Messages /\ NewRequest(cmd, t).cmd = cmd
         /\ NewRequest(cmd, t).id = nextId
<1>1. /\ nextId' = nextId + 1 /\ nextId \in Nat /\ sent \in Seq(Messages) /\ wire \in Seq(Frames)
      /\ running \in [id : Nat, turn : 0..MaxTurns]
      /\ pending' = rest \cup {NewRequest(cmd, t)} /\ sent' = Written(NewRequest(cmd, t))
  BY DEF Send, PipesTypeOK, NewRequest
<1>2. NewRequest(cmd, t) \in Messages /\ NewRequest(cmd, t).cmd = cmd /\ NewRequest(cmd, t).id = nextId
  BY <1>1 DEF NewRequest, Messages, Request
<1>3. sent' = sent \/ sent' = Append(sent, NewRequest(cmd, t))
  BY <1>1 DEF Written
<1>4. \A i \in 1..Len(sent') :
        \/ i \in 1..Len(sent) /\ sent'[i] = sent[i]
        \/ sent'[i] = NewRequest(cmd, t)
  <2>1. CASE sent' = sent
    BY <2>1
  <2>2. CASE sent' = Append(sent, NewRequest(cmd, t))
    BY <1>1, <1>2, <2>2, AppendAt
  <2> QED
    BY <1>3, <2>1, <2>2
<1>5. \A i \in 1..Len(sent) : sent[i].cmd \in Commands => sent[i].id \in Nat
  <2>1. \A i \in 1..Len(sent) : sent[i] \in Messages
    BY <1>1
  <2> QED
    BY <2>1 DEF Messages, Request, Commands
<1>6. \A i \in 1..Len(wire) : wire[i].type = "response" => wire[i].id \in Nat
  <2>1. \A i \in 1..Len(wire) : wire[i] \in Frames
    BY <1>1
  <2> QED
    BY <2>1 DEF Frames
<1>7. /\ \A i \in 1..Len(sent') : sent'[i].cmd \in Commands => sent'[i].id < nextId'
      /\ \A i \in 1..Len(wire') : wire'[i].type = "response" => wire'[i].id < nextId'
      /\ running' # Idle => running'.id < nextId'
  <2>1. \A i \in 1..Len(sent') : sent'[i].cmd \in Commands => sent'[i].id < nextId'
    <3>1. ASSUME NEW i \in 1..Len(sent'), sent'[i].cmd \in Commands
          PROVE  sent'[i].id < nextId + 1
      <4>1. CASE i \in 1..Len(sent) /\ sent'[i] = sent[i]
        BY <1>1, <1>5, <3>1, <4>1 DEF IdsGiven
      <4>2. CASE sent'[i] = NewRequest(cmd, t)
        BY <1>1, <1>2, <4>2
      <4> QED
        BY <1>4, <4>1, <4>2
    <3> QED
      BY <1>1, <3>1
  <2>2. \A i \in 1..Len(wire') : wire'[i].type = "response" => wire'[i].id < nextId'
    BY <1>1, <1>6 DEF IdsGiven
  <2>3. running' # Idle => running'.id < nextId'
    BY <1>1 DEF IdsGiven
  <2> QED
    BY <2>1, <2>2, <2>3
<1> QED
  BY <1>1, <1>2, <1>3, <1>7 DEF IdsGiven

(* No load is written, and nothing of it is left if there was one. *)
LEMMA NoLoadStays ==
  ASSUME PipesTypeOK, NoLoad, sent' = sent \/ \E m \in Messages : sent' = Append(sent, m) /\ m.cmd # "load"
  PROVE  NoLoad'
<1>1. CASE sent' = sent
  BY <1>1 DEF NoLoad
<1>2. ASSUME NEW m \in Messages, sent' = Append(sent, m), m.cmd # "load"
      PROVE  NoLoad'
  BY <1>2, AppendAt DEF NoLoad, PipesTypeOK
<1> QED
  BY <1>1, <1>2

(* A prompt, or the model. *)
LEMMA GrokSendsCall ==
  ASSUME PipesTypeOK, IdsGiven, NEW cmd \in {"prompt", "set_model"}, NEW t \in 0..MaxTurns,
         Send(pending, cmd, t), UNCHANGED <<wire, running>>
  PROVE  /\ IdsGiven'
         /\ sent' = sent \/ \E m \in Messages : sent' = Append(sent, m) /\ m.cmd # "load"
         /\ \A r \in pending' : r \in pending \/ r.cmd \notin Sessions
<1>1. cmd \in Commands /\ pending \in SUBSET pending /\ cmd \notin Sessions /\ cmd # "load"
  BY DEF Commands, Sessions
<1>2. /\ pending' = pending \cup {NewRequest(cmd, t)} /\ IdsGiven'
      /\ sent' = sent \/ sent' = Append(sent, NewRequest(cmd, t))
      /\ NewRequest(cmd, t) \in Messages /\ NewRequest(cmd, t).cmd = cmd
  BY <1>1, GrokSends
<1> QED
  BY <1>1, <1>2

(* A request of the session itself. *)
LEMMA GrokSendsFirst ==
  ASSUME PipesTypeOK, IdsGiven, NEW rest \in SUBSET pending,
         NEW cmd \in {"initialize", "load", "new", "set_model"},
         Send(rest, cmd, 0), UNCHANGED <<wire, running>>
  PROVE  /\ pending' = rest \cup {NewRequest(cmd, 0)} /\ IdsGiven'
         /\ \/ sent' = sent
            \/ sent' = Append(sent, NewRequest(cmd, 0))
         /\ NewRequest(cmd, 0) \in Messages /\ NewRequest(cmd, 0).cmd = cmd
         /\ NewRequest(cmd, 0).id = nextId
<1>1. cmd \in Commands /\ 0 \in 0..MaxTurns
  BY AdapterBounds DEF Commands
<1> QED
  BY <1>1, GrokSends

(* Calls of an open session. *)
LEMMA GrokCalled ==
  ASSUME PipesTypeOK, GrokInv, phase = "open", UNCHANGED <<phase, settled, wire, running>>,
         \/ \E cmd \in {"prompt", "set_model"}, t \in 0..MaxTurns : Send(pending, cmd, t)
         \/ /\ UNCHANGED <<pending, nextId>>
            /\ \E m \in Messages : sent' = Written(m) /\ m.cmd \in {"answer", "cancel"}
  PROVE  GrokInv'
<1>1. /\ IdsGiven'
      /\ sent' = sent \/ \E m \in Messages : sent' = Append(sent, m) /\ m.cmd # "load"
      /\ \A r \in pending' : r \in pending \/ r.cmd \notin Sessions
  <2>1. ASSUME NEW cmd \in {"prompt", "set_model"}, NEW t \in 0..MaxTurns, Send(pending, cmd, t)
        PROVE  /\ IdsGiven'
               /\ sent' = sent \/ \E m \in Messages : sent' = Append(sent, m) /\ m.cmd # "load"
               /\ \A r \in pending' : r \in pending \/ r.cmd \notin Sessions
    <3>1. IdsGiven /\ UNCHANGED <<wire, running>>
      BY DEF GrokInv
    <3> QED
      BY <2>1, <3>1, GrokSendsCall
  <2>2. ASSUME UNCHANGED <<pending, nextId>>, NEW m \in Messages, sent' = Written(m),
               m.cmd \in {"answer", "cancel"}
        PROVE  /\ IdsGiven'
               /\ sent' = sent \/ \E n \in Messages : sent' = Append(sent, n) /\ n.cmd # "load"
               /\ \A r \in pending' : r \in pending \/ r.cmd \notin Sessions
    <3>1. m.cmd \notin Commands /\ m.cmd # "load"
      BY <2>2 DEF Commands
    <3>2. sent' = sent \/ sent' = Append(sent, m)
      BY <2>2 DEF Written
    <3>3. \A i \in 1..Len(sent') : (i \in 1..Len(sent) /\ sent'[i] = sent[i]) \/ sent'[i] = m
      BY <3>2, AppendAt DEF PipesTypeOK
    <3>4. IdsGiven'
      BY <2>2, <3>1, <3>3 DEF IdsGiven, GrokInv
    <3> QED
      BY <2>2, <3>1, <3>2, <3>4
  <2> QED
    BY <2>1, <2>2
<1>2. NoReplay' /\ NoLoad'
  BY <1>1, NoLoadStays DEF GrokInv, LoadInOrder, NoReplay
<1>3. GrokOpens'
  BY <1>1 DEF GrokInv, GrokOpens, GrokOpening
<1> QED
  BY <1>1, <1>2, <1>3 DEF GrokInv, LoadInOrder

(* Requests go, and nothing else, or the session is closed. *)
LEMMA GrokForgets ==
  ASSUME GrokInv, phase' = phase \/ (phase = "open" /\ phase' = "closed"), pending' \subseteq pending,
         UNCHANGED <<settled, nextId, sent, wire, running>>
  PROVE  GrokInv'
<1>1. IdsGiven'
  BY DEF GrokInv, IdsGiven
<1>2. GrokOpens'
  BY DEF GrokInv, GrokOpens, GrokOpening
<1>3. (NoReplay <=> NoReplay') /\ (NoLoad <=> NoLoad')
  BY DEF NoReplay, NoLoad
<1>4. \A r : LoadAwaited(r) <=> LoadAwaited(r)'
  BY <1>3 DEF LoadAwaited, Answers
<1>5. LoadInOrder'
  BY <1>3, <1>4 DEF GrokInv, LoadInOrder
<1> QED
  BY <1>1, <1>2, <1>5 DEF GrokInv

(* What follows an answer, a time-out or a rejection in a session of grok. *)
LEMMA GrokAfterLoad ==
  ASSUME PipesTypeOK, GrokInv, NEW request \in Request, NEW ok \in BOOLEAN, NEW rest \in SUBSET pending,
         AcpAfter(request, ok, rest), UNCHANGED <<wire, running>>,
         phase \in GrokOpening => request.cmd = phase /\ rest = {} /\ settled' = <<>>,
         phase \notin GrokOpening =>
           /\ request.cmd \notin Sessions
           /\ \A i \in 1..Len(settled') : settled'[i].request.cmd \notin Sessions,
         phase = "load" /\ ok => NoReplay /\ NoLoad
  PROVE  GrokInv'
<1>0. nextId \in Nat
  BY DEF PipesTypeOK
<1>1. IdsGiven
  BY DEF GrokInv
<1>2. settled' = <<>> => 1..Len(settled') = {}
  OBVIOUS
<1>3. ASSUME SendNothing(rest) \/ SendNothing({})
      PROVE  IdsGiven' /\ pending' \subseteq pending /\ sent' = sent /\ (NoLoad => NoLoad')
             /\ (NoReplay => NoReplay') /\ (pending' = rest \/ pending' = {})
  BY <1>1, <1>3 DEF SendNothing, IdsGiven, NoLoad, NoReplay
<1>4. CASE AfterInitialize(request, ok, rest)
  <2>1. phase = "initialize" /\ rest = {} /\ settled' = <<>>
    BY <1>4 DEF AfterInitialize, GrokOpening, Sessions
  <2>2. PICK cmd \in {"load", "new"} : phase' = cmd /\ Send(rest, cmd, 0)
    BY <1>4 DEF AfterInitialize
  <2>10. PICK request1 : request1 = NewRequest(cmd, 0)
    OBVIOUS
  <2>4. /\ pending' = {request1} /\ IdsGiven' /\ request1.cmd = cmd /\ request1.id = nextId
        /\ sent' = sent \/ sent' = Append(sent, request1)
        /\ request1 \in Messages
    <3>1. /\ pending' = rest \cup {NewRequest(cmd, 0)} /\ IdsGiven'
          /\ sent' = sent \/ sent' = Append(sent, NewRequest(cmd, 0))
          /\ NewRequest(cmd, 0) \in Messages /\ NewRequest(cmd, 0).cmd = cmd
          /\ NewRequest(cmd, 0).id = nextId
      BY <1>1, <2>2, GrokSendsFirst
    <3> QED
      BY <2>1, <2>10, <3>1
  <2>5. GrokOpens'
    <3>1. phase' \in GrokOpening
      BY <2>2 DEF GrokOpening
    <3> QED
      BY <1>2, <2>1, <2>2, <2>4, <3>1 DEF GrokOpens
  <2>6. NoReplay /\ NoLoad /\ NoReplay'
    BY <2>1 DEF GrokInv, LoadInOrder, NoReplay
  <2>7. \A i \in 1..Len(sent') : \/ i \in 1..Len(sent) /\ sent'[i] = sent[i]
                                 \/ i = Len(sent) + 1 /\ sent'[i] = request1
    <3>1. CASE sent' = sent
      BY <3>1
    <3>2. CASE sent' = Append(sent, request1)
      BY <2>4, <3>2, AppendAt DEF PipesTypeOK
    <3> QED
      BY <2>4, <3>1, <3>2
  <2>8. CASE cmd = "new"
    <3>1. NoLoad'
      BY <2>4, <2>6, <2>7, <2>8 DEF NoLoad
    <3> QED
      BY <2>2, <2>4, <2>5, <2>6, <2>8, <3>1 DEF GrokInv, LoadInOrder
  <2>9. CASE cmd = "load"
    <3>1. \A i, j \in 1..Len(sent') : sent'[i].cmd = "load" /\ sent'[j].cmd = "load" => i = j
      BY <2>6, <2>7 DEF NoLoad
    <3>2. \A i \in 1..Len(sent') :
            sent'[i].cmd \in Commands => sent'[i].cmd = "load" \/ sent'[i].id < request1.id
      BY <1>1, <2>4, <2>7, <2>9 DEF IdsGiven
    <3>3. running' # Idle => running'.id < request1.id
      BY <1>1, <2>4 DEF IdsGiven
    <3>4. \A j \in 1..Len(wire') : ~Answers(j, request1)'
      <4>1. ASSUME NEW j \in 1..Len(wire), wire[j].type = "response", wire[j].id = request1.id
            PROVE  FALSE
        BY <1>0, <1>1, <2>4, <4>1 DEF IdsGiven
      <4> QED
        BY <4>1 DEF Answers
    <3>5. LoadAwaited(request1)'
      BY <3>2, <3>3, <3>4 DEF LoadAwaited
    <3> QED
      BY <1>2, <2>1, <2>2, <2>4, <2>5, <2>9, <3>1, <3>5 DEF GrokInv, LoadInOrder
  <2> QED
    BY <2>8, <2>9
<1>5. CASE AfterSession(request, ok, rest)
  <2>1. phase \in {"new", "load"} /\ rest = {} /\ settled' = <<>> /\ ok
    BY <1>5 DEF AfterSession, GrokOpening, Sessions
  <2>2. NoReplay /\ NoLoad /\ NoReplay'
    BY <2>1 DEF GrokInv, LoadInOrder, NoReplay
  <2>3. CASE phase' = "open" /\ SendNothing(rest)
    BY <1>2, <1>3, <2>1, <2>2, <2>3 DEF GrokInv, GrokOpens, GrokOpening, LoadInOrder, SendNothing
  <2>4. CASE phase' = "set_model" /\ Send(rest, "set_model", 0)
    <3>1. "set_model" \notin Sessions
      BY DEF Sessions
    <3>2. /\ pending' = rest \cup {NewRequest("set_model", 0)} /\ IdsGiven'
          /\ sent' = sent \/ sent' = Append(sent, NewRequest("set_model", 0))
          /\ NewRequest("set_model", 0) \in Messages /\ NewRequest("set_model", 0).cmd = "set_model"
      BY <1>1, <2>4, GrokSendsFirst
    <3>3. NoLoad'
      BY <2>2, <3>2, NoLoadStays
    <3>4. GrokOpens'
      BY <1>2, <2>1, <2>4, <3>1, <3>2 DEF GrokOpens, GrokOpening
    <3> QED
      BY <2>2, <2>4, <3>2, <3>3, <3>4 DEF GrokInv, LoadInOrder
  <2> QED
    BY <1>5, <2>3, <2>4 DEF AfterSession
<1>6. CASE AfterModel(request, ok, rest)
  <2>1. phase \notin GrokOpening /\ phase # "load" /\ SendNothing(rest)
        /\ (phase' = phase \/ (phase = "set_model" /\ phase' = "open"))
    BY <1>6 DEF AfterModel, GrokOpening
  <2>2. GrokOpens'
    BY <1>3, <2>1 DEF GrokInv, GrokOpens, GrokOpening
  <2>3. LoadInOrder'
    BY <1>3, <2>1 DEF GrokInv, LoadInOrder
  <2> QED
    BY <1>3, <2>1, <2>2, <2>3 DEF GrokInv
<1>7. CASE AfterFailure(request, ok, rest)
  <2>1. phase' = "failed" /\ SendNothing({}) /\ pending' = {}
    BY <1>7 DEF AfterFailure, SendNothing
  <2>2. GrokOpens'
    BY <1>2, <2>1 DEF GrokOpens, GrokOpening
  <2> QED
    BY <1>3, <2>1, <2>2 DEF GrokInv, LoadInOrder
<1>8. CASE AfterTurn(request, ok, rest)
  <2>1. phase \notin GrokOpening /\ phase # "load" /\ SendNothing(rest) /\ phase' = phase
    BY <1>8 DEF AfterTurn, GrokOpening
  <2>2. GrokOpens'
    BY <1>3, <2>1 DEF GrokInv, GrokOpens, GrokOpening
  <2>3. LoadInOrder'
    BY <1>3, <2>1 DEF GrokInv, LoadInOrder
  <2> QED
    BY <1>3, <2>1, <2>2, <2>3 DEF GrokInv
<1> QED
  BY <1>4, <1>5, <1>6, <1>7, <1>8 DEF AcpAfter

(* A continuation, a timer, the end of the process. *)
LEMMA GrokGoesOn ==
  ASSUME AdapterInv, GrokInv, AcpContinues \/ AcpTimesOut \/ AcpExits
  PROVE  GrokInv'
<1>0. PipesTypeOK /\ settled \in Seq(Settlement) /\ pending \subseteq Request
  BY DEF AdapterInv, PipesTypeOK
<1>1. CASE AcpContinues
  <2> DEFINE request == Head(settled).request
             ok      == Head(settled).ok
  <2>1. /\ settled # <<>> /\ settled' = Tail(settled) /\ AcpAfter(request, ok, pending)
        /\ UNCHANGED <<wire, running>>
    BY <1>1 DEF AcpContinues, Quiet, inside
  <2>2. /\ Len(settled') = Len(settled) - 1 /\ Head(settled) = settled[1] /\ settled[1] \in Settlement
        /\ 1 \in 1..Len(settled) /\ settled' \in Seq(Settlement) /\ Len(settled) \in Nat
        /\ \A i \in 1..Len(settled') : settled'[i] = settled[i + 1] /\ i + 1 \in 1..Len(settled)
    BY <1>0, <2>1, TailAt
  <2>3. request \in Request /\ ok \in BOOLEAN
    BY <2>2 DEF Settlement
  <2>4. ASSUME phase \in GrokOpening
        PROVE  request.cmd = phase /\ pending = {} /\ settled' = <<>>
    <3>1. \A i \in 1..Len(settled) : settled[i].request.cmd = phase /\ i = 1 /\ pending = {}
      BY <2>4 DEF GrokInv, GrokOpens
    <3>2. Len(settled') = 0
      BY <2>2, <3>1
    <3> QED
      BY <2>2, <3>1, <3>2
  <2>5. phase \notin GrokOpening =>
          /\ request.cmd \notin Sessions
          /\ \A i \in 1..Len(settled') : settled'[i].request.cmd \notin Sessions
    BY <2>2 DEF GrokInv, GrokOpens
  <2>6. phase = "load" => NoReplay /\ NoLoad
    BY <2>1 DEF GrokInv, LoadInOrder
  <2>7. pending \in SUBSET pending
    OBVIOUS
  <2> HIDE DEF request, ok
  <2> QED
    BY <1>0, <2>1, <2>3, <2>4, <2>5, <2>6, <2>7, GrokAfterLoad
<1>2. ASSUME NEW request \in pending, NEW rest \in SUBSET pending, AcpAfter(request, FALSE, rest),
             settled = <<>>, UNCHANGED <<settled, wire, running>>, request \notin rest
      PROVE  GrokInv'
  <2>1. phase \in GrokOpening => request.cmd = phase /\ rest = {} /\ settled' = <<>>
    BY <1>2 DEF GrokInv, GrokOpens
  <2>2. phase \notin GrokOpening =>
          /\ request.cmd \notin Sessions
          /\ \A i \in 1..Len(settled') : settled'[i].request.cmd \notin Sessions
    BY <1>2 DEF GrokInv, GrokOpens
  <2>3. request \in Request /\ FALSE \in BOOLEAN
    BY <1>0
  <2>4. phase = "load" /\ FALSE => NoReplay /\ NoLoad
    OBVIOUS
  <2> QED
    BY <1>0, <1>2, <2>1, <2>2, <2>3, <2>4, GrokAfterLoad
<1>3. CASE AcpTimesOut
  BY <1>2, <1>3 DEF AcpTimesOut, Quiet, inside
<1>4. CASE AcpExits
  <2>1. settled = <<>> /\ UNCHANGED <<settled, wire, running>>
    BY <1>4 DEF AcpExits, Quiet, inside
  <2>2. ASSUME NEW request \in pending, AcpAfter(request, FALSE, {})
        PROVE  GrokInv'
    BY <1>2, <2>1, <2>2
  <2>3. ASSUME SendNothing({}), UNCHANGED object
        PROVE  GrokInv'
    <3>1. pending' \subseteq pending /\ UNCHANGED <<settled, nextId, sent, wire, running>> /\ phase' = phase
      BY <2>1, <2>3 DEF SendNothing, object
    <3> QED
      BY <3>1, GrokForgets
  <2> QED
    BY <1>4, <2>2, <2>3 DEF AcpExits
<1> QED
  BY <1>1, <1>3, <1>4

(* The session of grok reads. *)
LEMMA GrokReads ==
  ASSUME AdapterInv, GrokInv, AcpRoutes
  PROVE  GrokInv'
<1> DEFINE frame == Head(wire)
<1>1. /\ wire # <<>> /\ wire' = Tail(wire) /\ UNCHANGED <<phase, sent, nextId, running>>
      /\ wire \in Seq(Frames) /\ sent \in Seq(Messages) /\ settled \in Seq(Settlement)
      /\ pending \subseteq Request
  BY DEF AcpRoutes, RouteResponse, transport, inside, AdapterInv, PipesTypeOK
<1>2. /\ Len(wire) \in Nat \ {0} /\ Len(wire') = Len(wire) - 1 /\ frame = wire[1] /\ 1 \in 1..Len(wire)
      /\ frame \in Frames
      /\ \A i \in 1..Len(wire') : wire'[i] = wire[i + 1] /\ i + 1 \in 1..Len(wire)
  BY <1>1, TailAt
<1>3. IdsGiven'
  BY <1>1, <1>2 DEF GrokInv, IdsGiven
<1>4. (NoReplay => NoReplay') /\ (NoLoad <=> NoLoad')
  BY <1>1, <1>2 DEF NoReplay, NoLoad
<1>5. ASSUME NEW r, LoadAwaited(r)
      PROVE  LoadAwaited(r)'
  <2>1. ASSUME NEW j \in 1..Len(wire'), wire'[j].type = "response", wire'[j].id = r.id
        PROVE  NoLoad /\ \A i \in 1..Len(wire') : wire'[i].type = "replay" => i < j
    <3>1. Answers(j + 1, r) /\ j + 1 \in 1..Len(wire)
      BY <1>2, <2>1 DEF Answers
    <3>2. NoLoad /\ \A i \in 1..Len(wire) : wire[i].type = "replay" => i < j + 1
      BY <1>5, <3>1 DEF LoadAwaited
    <3> QED
      BY <1>2, <3>2
  <2> QED
    BY <1>1, <1>4, <1>5, <2>1 DEF LoadAwaited, Answers
<1>6. CASE UNCHANGED <<pending, settled>>
  <2>1. GrokOpens'
    BY <1>1, <1>6 DEF GrokInv, GrokOpens
  <2>2. LoadInOrder'
    BY <1>1, <1>4, <1>5, <1>6 DEF GrokInv, LoadInOrder
  <2> QED
    BY <1>3, <2>1, <2>2 DEF GrokInv
<1>7. ASSUME frame.type = "response", NEW r \in pending, r.id = frame.id, pending' = pending \ {r},
             settled' = Append(settled, [request |-> r, ok |-> frame.ok])
      PROVE  GrokInv'
  <2>1. frame.ok \in BOOLEAN
    BY <1>2, <1>7 DEF Frames
  <2>2. PICK s \in Settlement : s = [request |-> r, ok |-> frame.ok] /\ s.request = r
    <3>1. PICK ok \in BOOLEAN : ok = frame.ok
      BY <2>1
    <3>2. [request |-> r, ok |-> ok] \in Settlement /\ [request |-> r, ok |-> ok].request = r
      BY <1>1 DEF Settlement
    <3> QED
      BY <3>1, <3>2
  <2>3. /\ settled' = Append(settled, s) /\ Len(settled) \in Nat /\ Len(settled') = Len(settled) + 1
        /\ settled'[Len(settled) + 1] = s
        /\ \A i \in 1..Len(settled) : settled'[i] = settled[i]
    BY <1>1, <1>7, <2>2, AppendAt
  <2>4. ASSUME phase \in GrokOpening
        PROVE  pending' = {} /\ Len(settled) = 0
    <3>1. \A i \in 1..Len(settled) : pending = {}
      BY <2>4 DEF GrokInv, GrokOpens
    <3>2. Len(settled) = 0
      BY <2>3, <3>1
    <3>3. \A q \in pending : q = r
      BY <2>4 DEF GrokInv, GrokOpens
    <3> QED
      BY <1>7, <3>2, <3>3
  <2>5. GrokOpens'
    <3>1. CASE phase \in GrokOpening
      <4>1. r.cmd = phase
        BY <3>1 DEF GrokInv, GrokOpens
      <4> QED
        BY <1>1, <2>2, <2>3, <2>4, <3>1, <4>1 DEF GrokOpens
    <3>2. CASE phase \notin GrokOpening
      <4>1. r.cmd \notin Sessions
        BY <3>2 DEF GrokInv, GrokOpens
      <4>2. \A i \in 1..Len(settled') : settled'[i].request.cmd \notin Sessions
        BY <2>2, <2>3, <3>2, <4>1 DEF GrokInv, GrokOpens
      <4> QED
        BY <1>1, <1>7, <3>2, <4>2 DEF GrokInv, GrokOpens
    <3> QED
      BY <3>1, <3>2
  <2>6. ASSUME phase = "load"
        PROVE  NoReplay' /\ NoLoad'
    <3>1. Answers(1, r) /\ LoadAwaited(r)
      BY <1>2, <1>7, <2>6 DEF Answers, GrokInv, LoadInOrder
    <3>2. NoLoad /\ \A i \in 1..Len(wire) : wire[i].type = "replay" => i < 1
      BY <1>2, <3>1 DEF LoadAwaited
    <3> QED
      BY <1>2, <1>4, <3>2 DEF NoReplay
  <2>7. LoadInOrder'
    BY <1>1, <1>4, <1>5, <1>7, <2>6 DEF GrokInv, LoadInOrder
  <2> QED
    BY <1>3, <2>5, <2>7 DEF GrokInv
<1> QED
  BY <1>6, <1>7 DEF AcpRoutes, RouteResponse, Answered, transport

(* An id that the harness still knows of, and that is not that of a load. *)
Known(id) ==
  \/ \E i \in 1..Len(sent) : sent[i].cmd \in Commands \ {"load"} /\ sent[i].id = id
  \/ running # Idle /\ running.id = id

(* The answer to the load, which it takes. *)
AnswersLoad(f, d) == d = 1 /\ 1 \in 1..Len(sent) /\ sent[1].cmd = "load" /\ f.id = sent[1].id

LEMMA GrokHarnessMoves ==
  ASSUME PipesTypeOK, GrokInv, UNCHANGED <<phase, pending, settled, nextId>>,
         NEW d \in {0, 1}, SentMoves(d),
         running' = running \/ running' = Idle \/ Known(running'.id),
         \/ wire' = wire
         \/ \E f \in Frames :
              /\ wire' = Append(wire, f)
              /\ f.type = "response" => Known(f.id) \/ AnswersLoad(f, d)
              /\ f.type = "replay" => ~NoLoad
  PROVE  GrokInv'
<1>0. /\ wire \in Seq(Frames) /\ Len(wire) \in Nat /\ nextId \in Nat
      /\ \A i \in 1..Len(sent') : i + d \in 1..Len(sent) /\ sent'[i] = sent[i + d]
  BY DEF PipesTypeOK, SentMoves
<1>1. ASSUME NEW id, Known(id)
      PROVE  /\ id < nextId
             /\ \A r \in pending : phase = "load" => id < r.id
  BY <1>1 DEF Known, GrokInv, IdsGiven, LoadInOrder, LoadAwaited
<1>2. running' # Idle => /\ running'.id < nextId
                         /\ \A r \in pending : phase = "load" => running'.id < r.id
  BY <1>1 DEF GrokInv, IdsGiven, LoadInOrder, LoadAwaited
<1>3. GrokOpens'
  BY DEF GrokInv, GrokOpens
<1>4. NoLoad => NoLoad'
  BY <1>0 DEF NoLoad
<1>5. /\ \A i \in 1..Len(sent') : sent'[i].cmd \in Commands => sent'[i].id < nextId
      /\ \A r \in pending : phase = "load" =>
           \A i \in 1..Len(sent') : sent'[i].cmd \in Commands => sent'[i].cmd = "load" \/ sent'[i].id < r.id
  BY <1>0 DEF GrokInv, IdsGiven, LoadInOrder, LoadAwaited
<1>6. phase = "load" =>
        \A i, j \in 1..Len(sent') : sent'[i].cmd = "load" /\ sent'[j].cmd = "load" => i = j
  <2>1. ASSUME phase = "load", NEW i \in 1..Len(sent'), NEW j \in 1..Len(sent'),
               sent'[i].cmd = "load", sent'[j].cmd = "load"
        PROVE  i = j
    <3>1. i + d = j + d
      BY <1>0, <2>1 DEF GrokInv, LoadInOrder
    <3> QED
      BY <3>1
  <2> QED
    BY <2>1
<1>7. CASE wire' = wire
  <2>1. IdsGiven'
    BY <1>2, <1>5, <1>7 DEF GrokInv, IdsGiven
  <2>2. NoReplay => NoReplay'
    BY <1>7 DEF NoReplay
  <2>3. \A r \in pending : phase = "load" => LoadAwaited(r)'
    BY <1>2, <1>4, <1>5, <1>7 DEF GrokInv, LoadInOrder, LoadAwaited, Answers
  <2>4. LoadInOrder'
    BY <1>4, <1>6, <2>2, <2>3 DEF GrokInv, LoadInOrder
  <2> QED
    BY <1>3, <2>1, <2>4 DEF GrokInv
<1>8. ASSUME NEW f \in Frames, wire' = Append(wire, f),
             f.type = "response" => Known(f.id) \/ AnswersLoad(f, d),
             f.type = "replay" => ~NoLoad
      PROVE  GrokInv'
  <2> PICK n \in Nat : n = Len(wire)
    BY <1>0
  <2>1. /\ Len(wire') = n + 1 /\ wire'[n + 1] = f
        /\ \A i \in 1..n : wire'[i] = wire[i]
    BY <1>0, <1>8, AppendAt
  <2>2. \A i \in 1..Len(wire') : i \in 1..n \/ i = n + 1
    BY <2>1
  <2>3. f.type = "response" => f.id < nextId
    BY <1>1, <1>8 DEF AnswersLoad, GrokInv, IdsGiven, Commands
  <2>4. IdsGiven'
    BY <1>2, <1>5, <2>1, <2>2, <2>3 DEF GrokInv, IdsGiven
  <2>5. NoLoad => (NoReplay => NoReplay')
    BY <1>8, <2>1, <2>2 DEF NoReplay
  <2>6. ASSUME NEW r \in pending, phase = "load"
        PROVE  LoadAwaited(r)'
    <3>1. LoadAwaited(r)
      BY <2>6 DEF GrokInv, LoadInOrder
    <3>2. ASSUME NEW j \in 1..n, Answers(j, r)
          PROVE  NoLoad' /\ \A i \in 1..Len(wire') : wire'[i].type = "replay" => i < j
      <4>1. NoLoad /\ \A i \in 1..n : wire[i].type = "replay" => i < j
        BY <3>1, <3>2 DEF LoadAwaited
      <4> QED
        BY <1>4, <1>8, <2>1, <2>2, <4>1
    <3>3. ASSUME f.type = "response", f.id = r.id
          PROVE  NoLoad' /\ \A i \in 1..Len(wire') : wire'[i].type = "replay" => i < n + 1
      <4>1. AnswersLoad(f, d)
        <5>1. ~Known(f.id)
          <6>1. r.id \in Nat
            BY DEF PipesTypeOK, Request
          <6> QED
            BY <1>1, <2>6, <3>3, <6>1
        <5> QED
          BY <1>8, <3>3, <5>1
      <4>2. NoLoad'
        <5>1. ASSUME NEW i \in 1..Len(sent'), sent'[i].cmd = "load"
              PROVE  FALSE
          <6>1. i + 1 \in 1..Len(sent) /\ sent[i + 1].cmd = "load" /\ 1 \in 1..Len(sent) /\ sent[1].cmd = "load"
            BY <1>0, <4>1, <5>1 DEF AnswersLoad
          <6>2. i + 1 = 1
            BY <2>6, <6>1 DEF GrokInv, LoadInOrder
          <6> QED
            BY <6>2
        <5> QED
          BY <5>1 DEF NoLoad
      <4> QED
        BY <2>1, <2>2, <3>3, <4>2
    <3>4. ASSUME NEW j \in 1..Len(wire'), wire'[j].type = "response", wire'[j].id = r.id
          PROVE  NoLoad' /\ \A i \in 1..Len(wire') : wire'[i].type = "replay" => i < j
      BY <2>1, <2>2, <3>2, <3>3, <3>4 DEF Answers
    <3> QED
      BY <1>2, <1>5, <2>6, <3>4 DEF LoadAwaited, Answers
  <2>7. LoadInOrder'
    BY <1>4, <1>6, <2>5, <2>6 DEF GrokInv, LoadInOrder
  <2> QED
    BY <1>3, <2>4, <2>7 DEF GrokInv
<1> QED
  BY <1>7, <1>8

LEMMA GrokHarness ==
  ASSUME AdapterInv, harness = "grok", GrokInv, ~Allows("replay"),
         AcpHarnessEnds \/ AcpHarnessTakes \/ HarnessSteps
  PROVE  GrokInv'
<1>0. PipesTypeOK /\ sent \in Seq(Messages)
  BY DEF AdapterInv, PipesTypeOK
<1>1. UNCHANGED <<phase, pending, settled, nextId>>
  BY DEF AcpHarnessEnds, AcpHarnessTakes, HarnessSteps, HarnessAsks, HarnessReplays,
         HarnessTakesAnswer, HarnessTakesRequest, Works, Taking, object, transport
<1>2. ASSUME NEW f \in Frames, Writes(<<f>>)
      PROVE  wire' = Append(wire, f)
  <2>1. wire \in Seq(Frames)
    BY <1>0 DEF PipesTypeOK
  <2> QED
    BY <1>2, <2>1, OneMore DEF Writes
<1>3. ASSUME sent' = sent, NEW f \in Frames, Writes(<<f>>), f.type = "response" => Known(f.id),
             f.type = "replay" => ~NoLoad, running' = running \/ running' = Idle
      PROVE  GrokInv'
  <2>1. SentMoves(0) /\ wire' = Append(wire, f) /\ 0 \in {0, 1}
    BY <1>0, <1>2, <1>3, SentStays
  <2> QED
    BY <1>0, <1>1, <1>3, <2>1, GrokHarnessMoves
<1>4. ASSUME Taking
      PROVE  /\ SentMoves(1) /\ 1 \in {0, 1} /\ 1 \in 1..Len(sent) /\ Head(sent) = sent[1]
             /\ Head(sent).cmd \in Commands => Head(sent).id \in Nat /\ Head(sent).turn \in 0..MaxTurns
  <2>1. sent # <<>> /\ sent' = Tail(sent)
    BY <1>4 DEF Taking
  <2>2. SentMoves(1)
    BY <1>0, <2>1, SentStays
  <2> QED
    BY <1>0, <1>4, <2>1, <2>2, TailAt, TakingType
<1>5. ASSUME Taking, NEW f \in Frames, Writes(<<f>>), f.type # "replay",
             f.type = "response" => Known(f.id) \/ AnswersLoad(f, 1),
             running' = running \/ running' = Idle
      PROVE  GrokInv'
  <2>1. wire' = Append(wire, f)
    BY <1>2, <1>5
  <2> QED
    BY <1>0, <1>1, <1>4, <1>5, <2>1, GrokHarnessMoves
<1>6. ASSUME Taking, UNCHANGED wire, running' = running \/ Known(running'.id)
      PROVE  GrokInv'
  BY <1>0, <1>1, <1>4, <1>6, GrokHarnessMoves
<1>7. ASSUME NEW id \in Nat, NEW ok \in BOOLEAN
      PROVE  Response(id, ok) \in Frames /\ Response(id, ok).id = id /\ Response(id, ok).type = "response"
  BY DEF Response, Frames
<1>8. running.id \in Nat /\ (running # Idle => Known(running.id))
  BY <1>0 DEF PipesTypeOK, Known
<1>9. CASE AcpHarnessEnds
  <2>1. sent' = sent /\ running # Idle /\ running' = Idle
        /\ \E ok \in BOOLEAN : Writes(<<Response(running.id, ok)>>)
    BY <1>9 DEF AcpHarnessEnds, Works
  <2> QED
    BY <1>3, <1>7, <1>8, <2>1
<1>10. CASE AcpHarnessTakes
  <2>1. Taking
    BY <1>10 DEF AcpHarnessTakes
  <2>2. Head(sent).cmd = "prompt" => Known(Head(sent).id) /\ Head(sent).id \in Nat
    <3>1. "prompt" \in Commands \ {"load"}
      BY DEF Commands
    <3> QED
      BY <1>4, <2>1, <3>1 DEF Known
  <2>3. CASE /\ Head(sent).cmd = "prompt" /\ UNCHANGED wire
             /\ running' = [id |-> Head(sent).id, turn |-> Head(sent).turn]
    BY <1>6, <2>1, <2>2, <2>3
  <2>4. CASE /\ Head(sent).cmd = "prompt" /\ UNCHANGED running
             /\ Writes(<<Response(Head(sent).id, FALSE)>>)
    BY <1>5, <1>7, <2>1, <2>2, <2>4
  <2>5. CASE running # Idle /\ running' = Idle /\ Writes(<<Response(running.id, TRUE)>>)
    BY <1>5, <1>7, <1>8, <2>1, <2>5
  <2>6. CASE UNCHANGED <<wire, running>>
    BY <1>6, <2>1, <2>6
  <2> QED
    BY <1>10, <2>3, <2>4, <2>5, <2>6 DEF AcpHarnessTakes, inside
<1>11. CASE HarnessAsks
  <2>1. PICK p \in Perms : Writes(<<UiRequest(p)>>)
    BY <1>11 DEF HarnessAsks
  <2>2. UiRequest(p) \in Frames /\ UiRequest(p).type = "ask"
    BY DEF UiRequest, Frames
  <2>3. sent' = sent /\ running' = running
    BY <1>11 DEF HarnessAsks, Works
  <2> QED
    BY <1>3, <2>1, <2>2, <2>3
<1>12. CASE HarnessReplays
  <2>1. Writes(<<Replay>>) /\ sent' = sent /\ running' = running
        /\ \E i \in DOMAIN sent : sent[i].cmd = "load"
    BY <1>12 DEF HarnessReplays, inside
  <2>2. Replay \in Frames /\ Replay.type = "replay"
    BY DEF Replay, Frames
  <2>3. ~NoLoad
    BY <1>0, <2>1 DEF NoLoad
  <2> QED
    BY <1>3, <2>1, <2>2, <2>3
<1>13. CASE HarnessTakesAnswer
  BY <1>6, <1>13 DEF HarnessTakesAnswer
<1>14. CASE HarnessTakesRequest
  <2>1. Taking /\ UNCHANGED running /\ Head(sent).cmd \in Commands
    BY <1>14 DEF HarnessTakesRequest, inside, Opening, Commands
  <2>2. PICK ok \in BOOLEAN : Writes(<<Response(Head(sent).id, ok)>>)
    BY <1>14 DEF HarnessTakesRequest
  <2> PICK f \in Frames : f = Response(Head(sent).id, ok) /\ f.id = Head(sent).id /\ f.type = "response"
    BY <1>4, <1>7, <2>1
  <2>3. Known(f.id) \/ AnswersLoad(f, 1)
    BY <1>4, <2>1 DEF Known, AnswersLoad
  <2> QED
    BY <1>5, <2>1, <2>2, <2>3
<1> QED
  BY <1>9, <1>10, <1>11, <1>12, <1>13, <1>14 DEF HarnessSteps

(* Nothing is asked of a process that was just spawned. *)
LEMMA NothingSpawned ==
  ASSUME PipesTypeOK, GrokInv, phase = "spawned"
  PROVE  pending = {} /\ settled = <<>>
<1>1. pending = {}
  <2>1. \A r \in pending : r.cmd = "spawned" /\ r.cmd \in Commands
    BY DEF PipesTypeOK, GrokInv, GrokOpens, GrokOpening, Request
  <2> QED
    BY <2>1 DEF Commands
<1>2. settled \in Seq(Settlement) /\ Len(settled) \in Nat
  BY DEF PipesTypeOK
<1>3. \A i \in 1..Len(settled) : FALSE
  <2>1. \A i \in 1..Len(settled) : settled[i] \in Settlement
    BY <1>2
  <2>2. \A i \in 1..Len(settled) : settled[i].request.cmd \in Commands
    BY <2>1 DEF Settlement, Request
  <2>3. \A i \in 1..Len(settled) : settled[i].request.cmd = "spawned"
    BY DEF GrokInv, GrokOpens, GrokOpening
  <2> QED
    BY <2>2, <2>3 DEF Commands
<1>4. Len(settled) = 0
  BY <1>2, <1>3
<1> QED
  BY <1>1, <1>2, <1>4

LEMMA GrokStep ==
  ASSUME AdapterInv, harness = "grok", GrokInv, ~Allows("replay"), [Next]_adapterVars
  PROVE  GrokInv'
<1>0. PipesTypeOK /\ ~JsonlNext /\ ~MockNext
  BY JsonlIdle DEF AdapterInv, Others, MockNext, Mock, MockOpens, MockStartsTurn, MockScenario,
     MockInterrupts, MockResponds, MockCloses
<1>1. CASE AcpContinues \/ AcpTimesOut \/ AcpExits
  BY <1>1, GrokGoesOn
<1>2. CASE AcpRoutes
  BY <1>2, GrokReads
<1>3. CASE AcpHarnessEnds \/ AcpHarnessTakes \/ HarnessSteps
  BY <1>3, GrokHarness
<1>4. CASE AcpCloses \/ UNCHANGED adapterVars
  <2>1. /\ phase' = phase \/ (phase = "open" /\ phase' = "closed")
        /\ pending' \subseteq pending /\ UNCHANGED <<settled, nextId, sent, wire, running>>
    BY <1>4 DEF AcpCloses, adapterVars, object, transport, process, inside
  <2> QED
    BY <2>1, GrokForgets
<1>5. CASE AcpOpens
  <2>1. phase = "spawned" /\ phase' = "initialize" /\ Send(pending, "initialize", 0)
        /\ UNCHANGED <<settled, wire, running>> /\ pending \in SUBSET pending
    BY <1>5 DEF AcpOpens, inside
  <2>2. /\ pending' = pending \cup {NewRequest("initialize", 0)} /\ IdsGiven'
        /\ sent' = sent \/ sent' = Append(sent, NewRequest("initialize", 0))
        /\ NewRequest("initialize", 0) \in Messages /\ NewRequest("initialize", 0).cmd = "initialize"
    BY <1>0, <2>1, GrokSendsFirst DEF GrokInv
  <2>3. pending = {} /\ settled = <<>>
    BY <1>0, <2>1, NothingSpawned
  <2>4. NoReplay' /\ NoLoad'
    BY <1>0, <2>1, <2>2, NoLoadStays DEF GrokInv, LoadInOrder, NoReplay
  <2>5. GrokOpens'
    BY <2>1, <2>2, <2>3 DEF GrokOpens, GrokOpening
  <2> QED
    BY <2>1, <2>2, <2>4, <2>5 DEF GrokInv, LoadInOrder
<1>6. CASE AcpStartsTurn \/ AcpSetsModel \/ AcpInterrupts \/ AcpResponds
  <2>1. phase = "open" /\ UNCHANGED <<phase, settled, wire, running>>
    BY <1>6 DEF AcpStartsTurn, AcpSetsModel, AcpInterrupts, AcpResponds, MayStart, SetModel, MayCall,
                MayInterrupt, inside, object, transport
  <2>2. \/ \E cmd \in {"prompt", "set_model"}, t \in 0..MaxTurns : Send(pending, cmd, t)
        \/ /\ UNCHANGED <<pending, nextId>>
           /\ \E m \in Messages : sent' = Written(m) /\ m.cmd \in {"answer", "cancel"}
    <3>1. CASE AcpStartsTurn
      <4>1. turnCounter + 1 \in 0..MaxTurns
        BY <3>1, AdapterBounds DEF AcpStartsTurn, MayStart, AdapterInv, TurnsCounted
      <4> QED
        BY <3>1, <4>1 DEF AcpStartsTurn
    <3>2. CASE AcpSetsModel
      BY <3>2, AdapterBounds DEF AcpSetsModel, SetModel
    <3>3. CASE AcpInterrupts
      <4>1. [cmd |-> "cancel"] \in Messages
        BY DEF Messages
      <4> QED
        BY <3>3, <4>1 DEF AcpInterrupts, transport
    <3>4. CASE AcpResponds
      <4>1. PICK p \in permissions : sent' = Written(Answer(p))
        BY <3>4 DEF AcpResponds
      <4>2. Answer(p) \in Messages /\ Answer(p).cmd = "answer"
        BY DEF Answer, Messages, AdapterInv, TurnsCounted
      <4> QED
        BY <3>4, <4>1, <4>2 DEF AcpResponds, transport
    <3> QED
      BY <1>6, <3>1, <3>2, <3>3, <3>4
  <2> QED
    BY <1>0, <2>1, <2>2, GrokCalled
<1> QED
  BY <1>0, <1>1, <1>2, <1>3, <1>4, <1>5, <1>6 DEF Next, AcpNext

(* What was replayed is not shown, in a session of any adapter. *)
ReplayInv ==
  /\ ~replayed
  /\ JsonlInv => OmpReplay
  /\ harness = "grok" => GrokInv

(* Types tell the sessions apart. *)
LEMMA WhichSession ==
  ASSUME ContractInv
  PROVE  \/ JsonlInv /\ harness \in {"pi", "omp"}
         \/ AdapterInv /\ harness \in {"grok", "mock"}
  BY DEF ContractInv, JsonlInv, JsonlTypes, AdapterInv, TurnsCounted

LEMMA ReplayStep ==
  ASSUME ContractInv, ReplayInv, ~Allows("replay"), [Next]_adapterVars
  PROVE  ReplayInv'
<1>1. harness' = harness
  <2>1. harness' = harness \/ JsonlRoutes
    BY JsonlShows, AcpShows, MockShows, HarnessShows DEF Next
  <2>2. JsonlRoutes => harness' = harness
    BY DEF JsonlRoutes, Dispatch
  <2> QED
    BY <2>1, <2>2
<1>2. CASE JsonlInv /\ harness \in {"pi", "omp"}
  <2>1. OmpReplay'
    BY <1>2, OmpReplayStep DEF ReplayInv
  <2> QED
    BY <1>1, <1>2, <2>1 DEF ReplayInv, OmpReplay
<1>3. CASE AdapterInv /\ harness = "grok"
  <2>1. GrokInv'
    BY <1>3, GrokStep DEF ReplayInv
  <2>2. ~JsonlInv'
    BY <1>1, <1>3 DEF JsonlInv, JsonlTypes
  <2>3. CASE AcpRoutes /\ replayed' # replayed
    <3>1. wire # <<>> /\ Head(wire).type = "replay" /\ wire \in Seq(Frames)
      BY <1>3, <2>3 DEF AcpRoutes, RouteResponse, seen, AdapterInv, PipesTypeOK
    <3>2. wire[1].type = "replay" /\ 1 \in 1..Len(wire)
      BY <3>1, TailAt
    <3>3. phase # "open"
      BY <1>3, <3>2 DEF ReplayInv, GrokInv, LoadInOrder, NoReplay
    <3>4. ~replayed'
      BY <2>3, <3>3 DEF AcpRoutes, RouteResponse, EmitReplay, seen, Subscribed, ReplayInv
    <3> QED
      BY <1>1, <1>3, <2>1, <2>2, <3>4 DEF ReplayInv
  <2>4. CASE replayed' = replayed
    BY <1>1, <1>3, <2>1, <2>2, <2>4 DEF ReplayInv
  <2>5. replayed' = replayed \/ AcpRoutes
    <3>1. ~JsonlNext
      BY <1>3, JsonlIdle DEF Others
    <3> QED
      BY <3>1, AcpShows, MockShows, HarnessShows DEF Next
  <2> QED
    BY <2>3, <2>4, <2>5
<1>4. CASE harness = "mock"
  <2>1. ~JsonlNext /\ ~AcpRoutes
    BY <1>4, JsonlIdle DEF Others, AcpRoutes, Acp
  <2>2. replayed' = replayed
    BY <2>1, AcpShows, MockShows, HarnessShows DEF Next
  <2>3. ~JsonlInv'
    BY <1>1, <1>4 DEF JsonlInv, JsonlTypes
  <2> QED
    BY <1>1, <1>4, <2>2, <2>3 DEF ReplayInv
<1> QED
  BY <1>2, <1>3, <1>4, WhichSession

LEMMA NothingIsShownYet ==
  ASSUME SessionInit
  PROVE  EndsNameTheirTurn /\ ReplayInv
<1>1. /\ ends = {} /\ replayed = FALSE /\ phase = "spawned" /\ sent = <<>> /\ wire = <<>>
      /\ pending = {} /\ settled = <<>> /\ running = Idle
  BY DEF SessionInit
<1>2. 1..Len(sent) = {} /\ 1..Len(wire) = {} /\ 1..Len(settled) = {}
  BY <1>1
<1>3. EndsNameTheirTurn
  BY <1>1 DEF EndsNameTheirTurn
<1>4. OmpReplay
  BY <1>1, <1>2 DEF OmpReplay
<1>5. GrokInv
  BY <1>1, <1>2 DEF GrokInv, GrokOpens, GrokOpening, IdsGiven, LoadInOrder, NoReplay, NoLoad
<1> QED
  BY <1>1, <1>3, <1>4, <1>5 DEF ReplayInv

(* core.ts, grok.ts: what the session of an adapter shows is what happens.  An end names the turn that
   the harness has ended, and what was replayed when the session was resumed is never shown; when
   prompts that time out are not run later, output is read before the end of its process is seen, and
   the first prompt does not overtake the replay. *)
THEOREM SessionsShowWhatHappens ==
  ASSUME Barred({"late", "unread", "replay"})
  PROVE  Spec => []ShowsWhatHappens
<1>1. Barred({"late", "unread"}) /\ ~Allows("replay")
  BY DEF Barred, Allows
<1> DEFINE Inv == ContractInv /\ EndsNameTheirTurn /\ ReplayInv
<1>2. SessionInit => Inv
  BY EveryAdapterStarts, NothingIsShownYet
<1>3. Inv /\ [Next]_adapterVars => Inv'
  BY <1>1, EveryAdapterSteps, EndsStep, ReplayStep
<1>4. Inv => ShowsWhatHappens
  BY DEF ReplayInv, ShowsWhatHappens, ReplayIsDropped
<1> QED
  BY <1>2, <1>3, <1>4, PTL DEF Spec

-----------------------------------------------------------------------------
(* An approval stays within reach.  This needs nothing of the harness and none of the races barred:
   only that what is in a pipe stays there until it is taken. *)

Pipe(s) == \E S : s \in Seq(S)

InWire(p) == \E i \in 1..Len(wire) : wire[i] = UiRequest(p)
InSent(p) == \E i \in 1..Len(sent) : sent[i] = Answer(p) \/ sent[i].cmd \in {"abort", "cancel"}
Reachable(p) == p \in permissions \/ InWire(p) \/ InSent(p)

(* A harness that runs no prompt waits for no approval. *)
AsksInItsTurn == harness # "mock" /\ running = Idle => asked = {}

AskedInv ==
  /\ Pipe(sent) /\ Pipe(wire)
  /\ Alive => AsksInItsTurn /\ \A p \in asked : Reachable(p)

LEMMA PipeGrows ==
  ASSUME NEW s, Pipe(s), NEW x
  PROVE  /\ Pipe(Append(s, x)) /\ s \o <<x>> = Append(s, x) /\ Len(s) \in Nat
         /\ Len(Append(s, x)) = Len(s) + 1 /\ Append(s, x)[Len(s) + 1] = x
         /\ \A i \in 1..Len(s) : i \in 1..Len(Append(s, x)) /\ Append(s, x)[i] = s[i]
<1>1. PICK S : s \in Seq(S)
  BY DEF Pipe
<1>2. s \in Seq(S \cup {x})
  BY <1>1
<1>3. PICK T : s \in Seq(T) /\ x \in T
  BY <1>2
<1>4. Append(s, x) \in Seq(T)
  BY <1>3
<1> QED
  BY <1>3, <1>4 DEF Pipe

LEMMA PipeShrinks ==
  ASSUME NEW s, Pipe(s), s # <<>>
  PROVE  /\ Pipe(Tail(s)) /\ Head(s) = s[1] /\ 1 \in 1..Len(s)
         /\ \A i \in 1..Len(s) : i = 1 \/ (i - 1 \in 1..Len(Tail(s)) /\ Tail(s)[i - 1] = s[i])
<1>1. PICK S : s \in Seq(S)
  BY DEF Pipe
<1>2. Pipe(Tail(s))
  <2>1. Tail(s) \in Seq(S)
    BY <1>1
  <2> QED
    BY <2>1 DEF Pipe
<1> QED
  BY <1>1, <1>2

(* Both parts of a long frame. *)
LEMMA PipeGrowsTwice ==
  ASSUME NEW s, Pipe(s), NEW x, NEW y
  PROVE  Pipe(s \o <<x, y>>)
<1>1. PICK S : s \in Seq(S)
  BY DEF Pipe
<1>2. s \in Seq(S \cup {x, y}) /\ <<x, y>> \in Seq(S \cup {x, y})
  BY <1>1
<1>3. s \o <<x, y>> \in Seq(S \cup {x, y})
  BY <1>2
<1> QED
  BY <1>3 DEF Pipe

(* What a step may do to the pipes and the approvals that are kept, for an approval to stay within
   reach. *)
SentMore  == sent' = sent \/ \E m : sent' = Append(sent, m)
WireMore  == wire' = wire \/ \E f : wire' = Append(wire, f)

LEMMA SentReaches ==
  ASSUME Pipe(sent), SentMore, NEW p, InSent(p)
  PROVE  InSent(p)'
<1>1. PICK i \in 1..Len(sent) : sent[i] = Answer(p) \/ sent[i].cmd \in {"abort", "cancel"}
  BY DEF InSent
<1>2. i \in 1..Len(sent') /\ sent'[i] = sent[i]
  BY PipeGrows DEF SentMore
<1> QED
  BY <1>1, <1>2 DEF InSent, Answer

LEMMA WireReaches ==
  ASSUME Pipe(wire), WireMore, NEW p, InWire(p)
  PROVE  InWire(p)'
<1>1. PICK i \in 1..Len(wire) : wire[i] = UiRequest(p)
  BY DEF InWire
<1>2. i \in 1..Len(wire') /\ wire'[i] = wire[i]
  BY PipeGrows DEF WireMore
<1> QED
  BY <1>1, <1>2 DEF InWire, UiRequest

LEMMA PipesStay ==
  ASSUME Pipe(sent), Pipe(wire), SentMore, WireMore
  PROVE  Pipe(sent') /\ Pipe(wire')
<1>1. \A s : Pipe(s) => \A x : Pipe(Append(s, x))
  BY PipeGrows
<1> QED
  BY <1>1 DEF SentMore, WireMore

(* The session sends, keeps more, or loses its process. *)
LEMMA MoreIsReached ==
  ASSUME AskedInv, SentMore, WireMore, permissions \subseteq permissions',
         Alive' => Alive, UNCHANGED <<harness, running, asked>>
  PROVE  AskedInv'
<1>1. Pipe(sent') /\ Pipe(wire')
  BY PipesStay DEF AskedInv
<1>2. ASSUME Alive'
      PROVE  AsksInItsTurn' /\ \A p \in asked' : Reachable(p)'
  <2>1. AsksInItsTurn /\ \A p \in asked : Reachable(p)
    BY <1>2 DEF AskedInv
  <2>2. \A p : Reachable(p) => Reachable(p)'
    BY SentReaches, WireReaches DEF AskedInv, Reachable
  <2> QED
    BY <2>1, <2>2 DEF AsksInItsTurn
<1> QED
  BY <1>1, <1>2 DEF AskedInv

LEMMA SendMore ==
  ASSUME NEW m, sent' = Written(m)
  PROVE  SentMore
  BY DEF Written, SentMore

LEMMA RequestMore ==
  ASSUME NEW rest, (\E cmd, t : Send(rest, cmd, t)) \/ SendNothing(rest)
  PROVE  SentMore
  BY SendMore DEF Send, SendNothing, SentMore

(* An answer or the output of the harness is read; an approval is kept, or answered at once. *)
LEMMA ReadIsReached ==
  ASSUME AskedInv, wire # <<>>, wire' = Tail(wire), SentMore, permissions \subseteq permissions',
         UNCHANGED <<harness, running, asked, proc>>,
         \A p : wire[1] = UiRequest(p) =>
           p \in permissions' \/ (Alive => sent' = Append(sent, Answer(p)))
  PROVE  AskedInv'
<1>1. Pipe(sent') /\ Pipe(wire')
  <2>1. \A s : Pipe(s) => \A x : Pipe(Append(s, x))
    BY PipeGrows
  <2> QED
    BY <2>1, PipeShrinks DEF AskedInv, SentMore
<1>2. ASSUME Alive'
      PROVE  AsksInItsTurn' /\ \A p \in asked' : Reachable(p)'
  <2>1. Alive /\ AsksInItsTurn /\ \A p \in asked : Reachable(p)
    BY <1>2 DEF AskedInv, Alive
  <2>2. ASSUME NEW p, InWire(p)
        PROVE  Reachable(p)'
    <3>1. PICK i \in 1..Len(wire) : wire[i] = UiRequest(p)
      BY <2>2 DEF InWire
    <3>2. CASE i = 1
      <4>1. CASE sent' = Append(sent, Answer(p))
        <5>1. sent'[Len(sent) + 1] = Answer(p) /\ Len(sent) + 1 \in 1..Len(sent')
          BY <4>1, PipeGrows DEF AskedInv
        <5> QED
          BY <5>1 DEF Reachable, InSent, Answer
      <4> QED
        BY <2>1, <3>1, <3>2, <4>1 DEF Reachable
    <3>3. CASE i # 1
      <4>1. i - 1 \in 1..Len(wire') /\ wire'[i - 1] = UiRequest(p)
        BY <3>1, <3>3, PipeShrinks DEF AskedInv
      <4> QED
        BY <4>1 DEF Reachable, InWire, UiRequest
    <3> QED
      BY <3>2, <3>3
  <2>3. \A p : Reachable(p) => Reachable(p)'
    BY <2>2, SentReaches DEF AskedInv, Reachable
  <2> QED
    BY <2>1, <2>3 DEF AsksInItsTurn
<1> QED
  BY <1>1, <1>2 DEF AskedInv

(* The harness takes what is neither the answer to an approval nor the end of a turn. *)
LEMMA TakenIsReached ==
  ASSUME AskedInv, Alive, sent # <<>>, sent' = Tail(sent), WireMore, AsksInItsTurn',
         UNCHANGED <<permissions, proc>>, asked' \subseteq asked,
         \A p \in asked' : sent[1] # Answer(p) /\ sent[1].cmd \notin {"abort", "cancel"}
  PROVE  AskedInv'
<1>1. Pipe(sent') /\ Pipe(wire')
  <2>1. \A s : Pipe(s) => \A x : Pipe(Append(s, x))
    BY PipeGrows
  <2>2. Pipe(Tail(sent)) /\ Pipe(wire)
    BY PipeShrinks DEF AskedInv
  <2> QED
    BY <2>1, <2>2 DEF WireMore
<1>2. ASSUME NEW p \in asked', InSent(p)
      PROVE  InSent(p)'
  <2>1. PICK i \in 1..Len(sent) : sent[i] = Answer(p) \/ sent[i].cmd \in {"abort", "cancel"}
    BY <1>2 DEF InSent
  <2>2. i # 1
    BY <2>1
  <2>3. i - 1 \in 1..Len(sent') /\ sent'[i - 1] = sent[i]
    BY <2>2, PipeShrinks DEF AskedInv
  <2> QED
    BY <2>1, <2>3 DEF InSent, Answer
<1>3. \A p \in asked' : Reachable(p)'
  <2>1. \A p \in asked' : Reachable(p)
    BY DEF AskedInv
  <2>2. ASSUME NEW p \in asked', Reachable(p)
        PROVE  Reachable(p)'
    <3>1. CASE InSent(p)
      BY <1>2, <3>1 DEF Reachable
    <3>2. CASE InWire(p)
      <4>1. InWire(p)'
        BY <3>2, WireReaches DEF AskedInv
      <4> QED
        BY <4>1 DEF Reachable
    <3>3. CASE p \in permissions
      BY <3>3 DEF Reachable
    <3> QED
      BY <2>2, <3>1, <3>2, <3>3 DEF Reachable
  <2> QED
    BY <2>1, <2>2
<1> QED
  BY <1>1, <1>3 DEF AskedInv

(* All approvals of a turn go with it. *)
LEMMA NothingAsked ==
  ASSUME Pipe(sent'), Pipe(wire'), asked' = {}
  PROVE  AskedInv'
  BY DEF AskedInv, AsksInItsTurn

LEMMA HarnessReaches ==
  ASSUME AskedInv, HarnessSteps
  PROVE  AskedInv'
<1>0. \A s : Pipe(s) => \A x : s \o <<x>> = Append(s, x) /\ Pipe(Append(s, x))
  BY PipeGrows
<1>1. CASE HarnessAsks
  <2>1. PICK p \in Perms : asked' = asked \cup {p} /\ Writes(<<UiRequest(p)>>)
    BY <1>1 DEF HarnessAsks
  <2>2. /\ UNCHANGED <<harness, permissions, proc, sent, running>> /\ running # Idle /\ Alive
        /\ wire' = Append(wire, UiRequest(p)) /\ Pipe(sent) /\ Pipe(wire)
    BY <1>0, <1>1, <2>1 DEF HarnessAsks, Works, Room, object, Writes, AskedInv
  <2>3. InWire(p)'
    <3>1. wire'[Len(wire) + 1] = UiRequest(p) /\ Len(wire) + 1 \in 1..Len(wire')
      BY <2>2, PipeGrows
    <3> QED
      BY <3>1 DEF InWire, UiRequest
  <2>4. \A q : Reachable(q) => Reachable(q)'
    BY <2>2, SentReaches, WireReaches DEF AskedInv, Reachable, SentMore, WireMore
  <2>5. \A q \in asked' : Reachable(q)'
    BY <2>1, <2>2, <2>3, <2>4 DEF AskedInv, Reachable
  <2>6. AsksInItsTurn' /\ Pipe(sent') /\ Pipe(wire')
    BY <1>0, <2>2 DEF AsksInItsTurn
  <2> QED
    BY <2>5, <2>6 DEF AskedInv
<1>2. CASE HarnessReplays
  <2>1. /\ UNCHANGED <<harness, permissions, proc, sent, running, asked>>
        /\ wire' = Append(wire, Replay)
    BY <1>0, <1>2 DEF HarnessReplays, object, inside, Writes, AskedInv
  <2> QED
    BY <2>1, MoreIsReached DEF SentMore, WireMore, Alive
<1>3. CASE HarnessTakesAnswer
  <2>1. /\ Alive /\ sent # <<>> /\ sent' = Tail(sent) /\ sent[1].cmd = "answer" /\ Head(sent) = sent[1]
        /\ asked' = asked \ {sent[1].perm}
        /\ UNCHANGED <<harness, permissions, proc, wire, running>>
    BY <1>3, PipeShrinks DEF HarnessTakesAnswer, Taking, Room, object, AskedInv
  <2>2. \A p \in asked' : sent[1] # Answer(p)
    BY <2>1 DEF Answer
  <2>3. AsksInItsTurn'
    BY <2>1 DEF AskedInv, AsksInItsTurn
  <2> QED
    BY <2>1, <2>2, <2>3, TakenIsReached DEF WireMore
<1>4. CASE HarnessTakesRequest
  <2>1. /\ Alive /\ sent # <<>> /\ sent' = Tail(sent) /\ sent[1].cmd \in Opening
        /\ UNCHANGED <<harness, permissions, proc, running, asked>>
        /\ \E f : wire' = Append(wire, f)
    BY <1>0, <1>4, PipeShrinks
       DEF HarnessTakesRequest, Taking, Room, object, inside, Writes, AskedInv
  <2>2. \A p \in asked' : sent[1] # Answer(p)
    BY <2>1 DEF Answer, Opening
  <2>3. AsksInItsTurn'
    BY <2>1 DEF AskedInv, AsksInItsTurn
  <2> QED
    BY <2>1, <2>2, <2>3, TakenIsReached DEF WireMore, Opening
<1> QED
  BY <1>1, <1>2, <1>3, <1>4 DEF HarnessSteps

(* A harness that takes or ends a prompt. *)
LEMMA TurnReaches ==
  ASSUME AskedInv, JsonlHarnessEnds \/ JsonlHarnessTakes \/ AcpHarnessEnds \/ AcpHarnessTakes
  PROVE  AskedInv'
<1>0. \A s : Pipe(s) => \A x, y : /\ s \o <<x>> = Append(s, x) /\ Pipe(Append(s, x))
                                  /\ Pipe(s \o <<x, y>>)
  BY PipeGrows, PipeGrowsTwice
<1>1. CASE JsonlHarnessEnds
  <2>1. asked' = {} /\ sent' = sent /\ \E frames \in EndFrames(running.turn) : wire' = wire \o frames
    BY <1>1 DEF JsonlHarnessEnds, Works, Writes
  <2>2. Pipe(wire')
    BY <1>0, <2>1 DEF EndFrames, AskedInv
  <2> QED
    BY <2>1, <2>2, NothingAsked DEF AskedInv
<1>2. CASE AcpHarnessEnds
  <2>1. asked' = {} /\ sent' = sent /\ \E x : wire' = wire \o <<x>>
    BY <1>2 DEF AcpHarnessEnds, Works, Writes
  <2>2. Pipe(wire')
    BY <1>0, <2>1 DEF AskedInv
  <2> QED
    BY <2>1, <2>2, NothingAsked DEF AskedInv
<1>3. CASE JsonlHarnessTakes \/ AcpHarnessTakes
  <2>1. /\ Alive /\ harness # "mock" /\ sent # <<>> /\ sent' = Tail(sent) /\ Head(sent) = sent[1]
        /\ UNCHANGED <<harness, permissions, proc>> /\ Pipe(sent')
    BY <1>3, PipeShrinks DEF JsonlHarnessTakes, AcpHarnessTakes, Taking, Room, object, AskedInv
  <2>2. running = Idle => asked = {}
    BY <2>1 DEF AskedInv, AsksInItsTurn
  <2>3. CASE asked' = {} /\ (UNCHANGED wire \/ (\E x : Writes(<<x>>)) \/ (\E x, y : Writes(<<x, y>>)))
    <3>1. Pipe(wire')
      BY <1>0, <2>3 DEF Writes, AskedInv
    <3> QED
      BY <2>1, <2>3, <3>1, NothingAsked
  <2>4. CASE sent[1].cmd = "prompt" /\ UNCHANGED inside /\ \E x : Writes(<<x>>)
    <3>1. WireMore
      BY <1>0, <2>4 DEF Writes, WireMore, AskedInv
    <3>2. \A p : sent[1] # Answer(p)
      BY <2>4 DEF Answer
    <3>3. AsksInItsTurn' /\ asked' = asked
      BY <2>1, <2>2, <2>4 DEF AsksInItsTurn, inside
    <3> QED
      BY <2>1, <2>4, <3>1, <3>2, <3>3, TakenIsReached
  <2>5. \/ asked' = {} /\ (UNCHANGED wire \/ (\E x : Writes(<<x>>)) \/ (\E x, y : Writes(<<x, y>>)))
        \/ sent[1].cmd = "prompt" /\ UNCHANGED inside /\ \E x : Writes(<<x>>)
    BY <1>3, <2>1, <2>2 DEF JsonlHarnessTakes, AcpHarnessTakes, inside
  <2> QED
    BY <2>3, <2>4, <2>5
<1> QED
  BY <1>1, <1>2, <1>3

(* An approval is answered. *)
LEMMA AnswerReaches ==
  ASSUME AskedInv, NEW p, permissions' = permissions \ {p}, sent' = Written(Answer(p)),
         UNCHANGED <<harness, wire, running, asked, proc>>
  PROVE  AskedInv'
<1>1. SentMore /\ WireMore
  BY SendMore DEF WireMore
<1>2. Pipe(sent') /\ Pipe(wire')
  BY <1>1, PipesStay DEF AskedInv
<1>3. ASSUME Alive
      PROVE  AsksInItsTurn' /\ \A q \in asked' : Reachable(q)'
  <2>1. sent' = Append(sent, Answer(p))
    BY <1>3 DEF Written
  <2>2. sent'[Len(sent) + 1] = Answer(p) /\ Len(sent) + 1 \in 1..Len(sent')
    BY <2>1, PipeGrows DEF AskedInv
  <2>3. InSent(p)'
    BY <2>2 DEF InSent, Answer
  <2>4. \A q : Reachable(q) => Reachable(q)'
    BY <1>1, <2>3, SentReaches, WireReaches DEF AskedInv, Reachable
  <2> QED
    BY <1>3, <2>4 DEF AskedInv, AsksInItsTurn
<1> QED
  BY <1>2, <1>3 DEF AskedInv, Alive

(* The session of pi or omp. *)
LEMMA JsonlReaches ==
  ASSUME AskedInv, JsonlNext
  PROVE  AskedInv'
<1>1. CASE JsonlHarnessEnds \/ JsonlHarnessTakes
  BY <1>1, TurnReaches
<1>2. CASE JsonlRoutes
  <2> DEFINE frame == Head(wire)
  <2>1. /\ wire # <<>> /\ wire' = Tail(wire) /\ frame = wire[1]
        /\ UNCHANGED <<harness, running, asked, proc>>
    BY <1>2, PipeShrinks DEF JsonlRoutes, Dispatch, inside, AskedInv
  <2>2. ASSUME NEW f, Dispatch(f)
        PROVE  /\ SentMore /\ permissions \subseteq permissions'
               /\ f.type = "ask" => f.perm \in permissions' \/ sent' = Written(Answer(f.perm))
    <3>1. CASE f.type = "ask" /\ OnUiRequest(f.perm)
      BY <3>1, SendMore DEF OnUiRequest, SentMore
    <3>2. CASE f.type # "ask"
      BY <2>2, <3>2 DEF Dispatch, RouteResponse, SentMore
    <3> QED
      BY <2>2, <3>1, <3>2 DEF Dispatch
  <2>3. SentMore /\ permissions \subseteq permissions'
    BY <1>2, <2>2 DEF JsonlRoutes, SentMore
  <2>4. ASSUME NEW p, wire[1] = UiRequest(p)
        PROVE  p \in permissions' \/ (Alive => sent' = Append(sent, Answer(p)))
    <3>1. frame.type = "ask" /\ frame.perm = p
      BY <2>1, <2>4 DEF UiRequest
    <3>2. Dispatch(frame)
      BY <1>2, <3>1 DEF JsonlRoutes
    <3> QED
      BY <2>2, <3>1, <3>2 DEF Written
  <2> QED
    BY <2>1, <2>3, <2>4, ReadIsReached
<1>3. ASSUME SentMore, permissions \subseteq permissions', Alive' => Alive,
             UNCHANGED <<harness, wire, running, asked>>
      PROVE  AskedInv'
  BY <1>3, MoreIsReached DEF WireMore
<1>4. ASSUME NEW request, NEW ok, NEW rest, After(request, ok, rest)
      PROVE  SentMore /\ UNCHANGED <<harness, permissions>>
  BY <1>4, RequestMore
     DEF After, AfterNegotiate, AfterState, AfterPoll, AfterPrompt, AfterOther
<1>5. CASE JsonlContinues \/ JsonlTimesOut
  <2>1. UNCHANGED <<proc, wire, running, asked>>
    BY <1>5 DEF JsonlContinues, JsonlTimesOut, inside
  <2> QED
    BY <1>3, <1>4, <1>5, <2>1 DEF JsonlContinues, JsonlTimesOut, Alive
<1>6. CASE JsonlExits
  <2>1. UNCHANGED <<wire, running, asked>> /\ ~Alive'
    BY <1>6 DEF JsonlExits, inside, Alive
  <2>2. SentMore /\ UNCHANGED <<harness, permissions>>
    BY <1>4, <1>6, RequestMore DEF JsonlExits, FailAllPending, object
  <2> QED
    BY <1>3, <2>1, <2>2
<1>7. CASE PiResponds
  <2>1. PICK p \in permissions : permissions' = permissions \ {p} /\ sent' = Written(Answer(p))
    BY <1>7 DEF PiResponds
  <2>2. UNCHANGED <<harness, wire, running, asked, proc>>
    BY <1>7 DEF PiResponds, inside
  <2> QED
    BY <2>1, <2>2, AnswerReaches
<1>8. CASE JsonlStartsTurn \/ OmpPassesGate
  <2>1. UNCHANGED <<harness, permissions, proc, wire, running, asked>>
    BY <1>8 DEF JsonlStartsTurn, OmpPassesGate, Prompt, inside
  <2>2. SentMore
    BY <1>8, RequestMore DEF JsonlStartsTurn, OmpPassesGate, Prompt, SentMore
  <2> QED
    BY <1>3, <2>1, <2>2 DEF Alive
<1>9. CASE JsonlOpens \/ OmpGates \/ OmpPolls \/ JsonlInterrupts \/ JsonlSetsModel \/ JsonlCloses
  <2>1. UNCHANGED <<harness, permissions, proc, wire, running, asked>>
    BY <1>9 DEF JsonlOpens, OmpGates, OmpPolls, JsonlInterrupts, JsonlSetsModel, SetModel, JsonlCloses,
                inside, process, object
  <2>2. SentMore
    BY <1>9, RequestMore DEF JsonlOpens, OmpGates, OmpPolls, JsonlInterrupts, JsonlSetsModel, SetModel,
                             JsonlCloses, SentMore, process
  <2> QED
    BY <1>3, <2>1, <2>2 DEF Alive
<1> QED
  BY <1>1, <1>2, <1>5, <1>6, <1>7, <1>8, <1>9 DEF JsonlNext

(* The session of grok. *)
LEMMA AcpReaches ==
  ASSUME AskedInv, AcpNext
  PROVE  AskedInv'
<1>1. CASE AcpHarnessEnds \/ AcpHarnessTakes
  BY <1>1, TurnReaches
<1>2. CASE AcpRoutes
  <2>1. /\ wire # <<>> /\ wire' = Tail(wire) /\ Head(wire) = wire[1]
        /\ UNCHANGED <<harness, running, asked, proc, sent>>
    BY <1>2, PipeShrinks DEF AcpRoutes, RouteResponse, inside, AskedInv
  <2>2. /\ permissions \subseteq permissions'
        /\ wire[1].type = "ask" => permissions' = Kept(wire[1].perm)
    BY <1>2, <2>1 DEF AcpRoutes, Kept
  <2>3. \A p : wire[1] = UiRequest(p) => p \in permissions'
    BY <2>2 DEF UiRequest, Kept
  <2> QED
    BY <2>1, <2>2, <2>3, ReadIsReached DEF SentMore
<1>3. ASSUME SentMore, permissions \subseteq permissions', Alive' => Alive,
             UNCHANGED <<harness, wire, running, asked>>
      PROVE  AskedInv'
  BY <1>3, MoreIsReached DEF WireMore
<1>4. ASSUME NEW request, NEW ok, NEW rest, AcpAfter(request, ok, rest)
      PROVE  SentMore /\ UNCHANGED <<harness, permissions>>
  BY <1>4, RequestMore
     DEF AcpAfter, AfterInitialize, AfterSession, AfterModel, AfterFailure, AfterTurn
<1>5. CASE AcpContinues \/ AcpTimesOut
  <2>1. UNCHANGED <<proc, wire, running, asked>>
    BY <1>5 DEF AcpContinues, AcpTimesOut, inside
  <2> QED
    BY <1>3, <1>4, <1>5, <2>1 DEF AcpContinues, AcpTimesOut, Alive
<1>6. CASE AcpExits
  <2>1. UNCHANGED <<wire, running, asked>> /\ ~Alive'
    BY <1>6 DEF AcpExits, inside, Alive
  <2>2. SentMore /\ UNCHANGED <<harness, permissions>>
    BY <1>4, <1>6, RequestMore DEF AcpExits, object
  <2> QED
    BY <1>3, <2>1, <2>2
<1>7. CASE AcpResponds
  <2>1. PICK p \in permissions : permissions' = permissions \ {p} /\ sent' = Written(Answer(p))
    BY <1>7 DEF AcpResponds
  <2>2. UNCHANGED <<harness, wire, running, asked, proc>>
    BY <1>7 DEF AcpResponds, inside
  <2> QED
    BY <2>1, <2>2, AnswerReaches
<1>8. CASE AcpOpens \/ AcpStartsTurn \/ AcpInterrupts \/ AcpSetsModel \/ AcpCloses
  <2>1. UNCHANGED <<harness, permissions, proc, wire, running, asked>>
    BY <1>8 DEF AcpOpens, AcpStartsTurn, AcpInterrupts, AcpSetsModel, SetModel, AcpCloses, inside,
                process, object
  <2>2. SentMore
    BY <1>8, SendMore, RequestMore DEF AcpOpens, AcpStartsTurn, AcpInterrupts, AcpSetsModel, SetModel,
                                       AcpCloses, SentMore, process
  <2> QED
    BY <1>3, <2>1, <2>2 DEF Alive
<1> QED
  BY <1>1, <1>2, <1>5, <1>6, <1>7, <1>8 DEF AcpNext

(* The mock keeps the approval itself. *)
LEMMA MockReaches ==
  ASSUME AskedInv, MockNext
  PROVE  AskedInv'
<1>1. /\ harness = "mock" /\ UNCHANGED <<harness, proc, sent, wire>>
  BY DEF MockNext, MockOpens, MockStartsTurn, MockScenario, MockInterrupts, MockResponds, MockCloses,
         MockFrame, process, Mock
<1>2. \A p \in asked' : (p \in asked /\ (p \in permissions => p \in permissions')) \/ p \in permissions'
  BY DEF MockNext, MockOpens, MockStartsTurn, MockScenario, MockInterrupts, MockResponds, MockCloses
<1>3. \A p : (InWire(p) => InWire(p)') /\ (InSent(p) => InSent(p)')
  BY <1>1, SentReaches, WireReaches DEF AskedInv, SentMore, WireMore
<1>4. Alive' => \A p \in asked' : Reachable(p)'
  BY <1>1, <1>2, <1>3 DEF AskedInv, Alive, Reachable
<1>5. AsksInItsTurn' /\ Pipe(sent') /\ Pipe(wire')
  BY <1>1 DEF AskedInv, AsksInItsTurn
<1> QED
  BY <1>4, <1>5 DEF AskedInv

(* core.ts, grok.ts, mock.ts: an approval that a live harness waits for is kept by the session, or on
   its way to it, or its answer or the end of its turn is on the way down; whatever is lost, times out
   or is read late. *)
THEOREM ApprovalsStayReachable ==
  Spec => []ApprovalsReachable
<1>1. SessionInit => AskedInv
  <2>1. SessionInit => asked = {} /\ sent \in Seq({}) /\ wire \in Seq({})
    BY DEF SessionInit
  <2> QED
    BY <2>1 DEF AskedInv, AsksInItsTurn, Pipe
<1>2. AskedInv /\ [Next]_adapterVars => AskedInv'
  <2>1. ASSUME AskedInv, UNCHANGED adapterVars
        PROVE  AskedInv'
    <3>1. UNCHANGED <<harness, permissions, proc, sent, wire, running, asked>>
      BY <2>1 DEF adapterVars, object, process, inside
    <3> QED
      BY <2>1, <3>1, MoreIsReached DEF SentMore, WireMore, Alive
  <2> QED
    BY <2>1, JsonlReaches, AcpReaches, MockReaches, HarnessReaches DEF Next
<1>3. AskedInv => ApprovalsReachable
  <2>1. ASSUME AskedInv
        PROVE  DOMAIN sent = 1..Len(sent) /\ DOMAIN wire = 1..Len(wire)
    BY <2>1 DEF AskedInv, Pipe
  <2> QED
    BY <2>1 DEF AskedInv, Reachable, InWire, InSent, ApprovalsReachable
<1> QED
  BY <1>1, <1>2, <1>3, PTL DEF Spec
=============================================================================
