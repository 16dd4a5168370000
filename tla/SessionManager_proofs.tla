----------------------- MODULE SessionManager_proofs ------------------------
(***************************************************************************)
(* Proofs about SessionManager, for every value of its constants.  The     *)
(* first hold for every set of Races: the type invariant, that no caller   *)
(* waits for a turn that is over, that a session is running exactly while  *)
(* it has an active turn, and that meta.json ends up saying what memory    *)
(* says.  The others need to know what the windows hold: events put aside  *)
(* while a prompt is opened, writes of meta.json that wait.  Each of them  *)
(* names the windows the environment has to leave alone (Races); every     *)
(* other one stays open to it.                                             *)
(***************************************************************************)
EXTENDS SessionManager, SequenceTheorems, FiniteSetTheorems, TLAPS

Queued == [meta : Meta, then : Thens]

-----------------------------------------------------------------------------
(* The operators the actions are built from *)

(* The attention policy answers with a reason or with none. *)
LEMMA ReasonType ==
  ASSUME NEW status, NEW asks, NEW out, NEW seen
  PROVE  ResolveReason(status, asks, out, seen) \in Reasons \cup {"none"}
BY DEF ResolveReason, Reasons

(* refreshAttention yields a meta. *)
LEMMA RefreshedType ==
  ASSUME NEW m \in Meta, NEW asks, NEW out, NEW seen
  PROVE  Refreshed(m, asks, out, seen) \in Meta
BY ReasonType DEF Refreshed, Meta

(* A refresh touches the attention only. *)
LEMMA RefreshedStatus ==
  ASSUME NEW m \in Meta, NEW asks, NEW out, NEW seen
  PROVE  Refreshed(m, asks, out, seen).status = m.status
BY ReasonType DEF Refreshed, Meta

(* Without a runtime refreshAttention changes nothing. *)
LEMMA RefreshedSame ==
  ASSUME NEW m \in Meta, NEW asks, NEW out, NEW seen,
         Refreshed(m, asks, out, seen).attn = m.attn
  PROVE  Refreshed(m, asks, out, seen) = m
BY ReasonType DEF Refreshed, Meta

(* A change of status yields a meta and keeps its attention and its handle. *)
LEMMA MetaUpdate ==
  ASSUME NEW m \in Meta, NEW status \in Statuses
  PROVE  /\ [m EXCEPT !.status = status] \in Meta
         /\ [m EXCEPT !.status = status].status = status
         /\ [m EXCEPT !.status = status].attn = m.attn
         /\ [m EXCEPT !.status = status].handle = m.handle
BY DEF Meta

(* An entry of the write chain has a meta and a continuation. *)
LEMMA WriteType ==
  ASSUME NEW m \in Meta, NEW then \in Thens
  PROVE  Write(m, then) \in Queued
BY DEF Write, Queued

(* A refresh leaves a well-typed write chain. *)
LEMMA PersistedType ==
  ASSUME NEW writes \in Seq(Queued), NEW m \in Meta, NEW refreshed \in Meta
  PROVE  Persisted(writes, m, refreshed) \in Seq(Queued)
BY WriteType DEF Persisted, Thens

(* A write appended to the chain is what the file ends up holding. *)
LEMMA SettledAppend ==
  ASSUME NEW writes \in Seq(Queued), NEW file, NEW m \in Meta, NEW then \in Thens
  PROVE  Settled(file, Append(writes, Write(m, then))) = m
<1>1. Write(m, then) \in Queued
  BY WriteType
<1>2. /\ Len(Append(writes, Write(m, then))) = Len(writes) + 1
      /\ Append(writes, Write(m, then))[Len(writes) + 1] = Write(m, then)
  BY <1>1
<1>3. Append(writes, Write(m, then)) # <<>>
  BY <1>2, EmptySeq, LenProperties
<1>4. QED
  BY <1>2, <1>3 DEF Settled, Write

(* Completing the oldest write does not change what the file ends up holding. *)
LEMMA SettledTail ==
  ASSUME NEW writes \in Seq(Queued), writes # <<>>, NEW file
  PROVE  Settled(Head(writes).meta, Tail(writes)) = Settled(file, writes)
<1>1. /\ Len(writes) \in Nat \ {0}
      /\ Head(writes) = writes[1]
      /\ Tail(writes) \in Seq(Queued)
      /\ Len(Tail(writes)) = Len(writes) - 1
      /\ \A i \in 1..Len(Tail(writes)) : Tail(writes)[i] = writes[i + 1]
  BY EmptySeq, HeadTailProperties
<1>2. CASE Tail(writes) = <<>>
  <2>1. Len(<<>>) = 0
    OBVIOUS
  <2>2. Len(Tail(writes)) = 0
    BY <1>2, <2>1, Zenon
  <2>3. Len(writes) \in Nat /\ Len(Tail(writes)) = Len(writes) - 1
    BY <1>1
  <2>4. Len(writes) = 1
    BY <2>2, <2>3
  <2>5. Head(writes) = writes[Len(writes)]
    BY <1>1, <2>4
  <2>6. QED
    BY <1>2, <2>5 DEF Settled
<1>3. CASE Tail(writes) # <<>>
  <2>1. Len(Tail(writes)) \in Nat \ {0}
    BY <1>1, <1>3, EmptySeq
  <2>2. Tail(writes)[Len(Tail(writes))] = writes[Len(writes)]
    BY <1>1, <2>1
  <2>3. QED
    BY <1>3, <2>2 DEF Settled
<1>4. QED
  BY <1>2, <1>3

(* A refresh keeps the file up to date, whether it had to write or not. *)
LEMMA SettledPersisted ==
  ASSUME NEW writes \in Seq(Queued), NEW file, NEW m \in Meta, NEW refreshed \in Meta,
         refreshed.attn = m.attn => refreshed = m,
         Settled(file, writes) = m
  PROVE  Settled(file, Persisted(writes, m, refreshed)) = refreshed
BY SettledAppend DEF Persisted, Thens

-----------------------------------------------------------------------------
(* The type invariant, piece by piece *)

(* What each kind of event carries. *)
LEMMA EventType ==
  ASSUME NEW event \in Event
  PROVE  /\ event.kind \in {"end", "error", "ask", "answer"}
         /\ event.kind = "end" => event.turn \in Turn /\ event.outcome \in Outcomes
         /\ event.kind \in {"ask", "answer"} => event.req \in Perms
BY DEF Event

(* transition keeps the store well typed. *)
LEMMA TransitionType ==
  ASSUME StoreOK, NEW status \in Statuses, NEW then \in Thens, Transition(status, then)
  PROVE  /\ meta' \in Meta
         /\ metaQ' \in Seq(Queued)
         /\ meta'.status = status /\ meta'.attn = meta.attn /\ meta'.handle = meta.handle
<1> DEFINE moved == [meta EXCEPT !.status = status]
<1>1. moved \in Meta /\ moved.status = status /\ moved.attn = meta.attn /\ moved.handle = meta.handle
  BY MetaUpdate DEF StoreOK
<1>2. Write(moved, then) \in Queued
  BY <1>1, WriteType
<1>3. meta' = moved /\ metaQ' = Append(metaQ, Write(moved, then)) /\ metaQ \in Seq(Queued)
  BY DEF Transition, StoreOK, Queued
<1> HIDE DEF moved
<1>4. QED
  BY <1>1, <1>2, <1>3

(* refreshAttention keeps the store well typed. *)
LEMMA RefreshType ==
  ASSUME StoreOK, NEW asks, NEW out, NEW seen, Refresh(asks, out, seen)
  PROVE  meta' \in Meta /\ metaQ' \in Seq(Queued) /\ meta'.status = meta.status
<1> DEFINE refreshed == Refreshed(meta, asks, out, seen)
<1>0. meta \in Meta
  BY DEF StoreOK
<1>1. refreshed \in Meta
  BY <1>0, RefreshedType
<1>2. refreshed.status = meta.status
  BY <1>0, RefreshedStatus
<1>3. meta' = refreshed /\ metaQ' = Persisted(metaQ, meta, refreshed)
  BY DEF Refresh
<1> HIDE DEF refreshed
<1>4. QED
  BY <1>1, <1>2, <1>3, PersistedType DEF StoreOK, Queued

(* What handling an event writes keeps its type. *)
HandledOK ==
  /\ meta' \in Meta /\ metaQ' \in Seq(Queued)
  /\ activeTurn' \in {0} \cup Turn /\ queue' \in Seq(Turn)
  /\ lastEnded' \in 0..MaxPrompts
  /\ ViewOK'

(* The end of a turn keeps the types. *)
LEMMA HandleEndType ==
  ASSUME TypeOK, NEW event \in Event, event.kind = "end", HandleEnd(event)
  PROVE  HandledOK
<1>1. event.turn \in Turn /\ event.outcome \in Outcomes
  BY EventType
<1>2. meta' \in Meta /\ metaQ' \in Seq(Queued)
  BY TransitionType DEF HandleEnd, TypeOK, Statuses, Thens
<1>3. /\ lastEnded' = event.turn /\ activeTurn' = 0 /\ outcome' = event.outcome
      /\ waiters' = {} /\ ack' = FALSE /\ UNCHANGED <<queue, pending>>
  BY DEF HandleEnd
<1>4. lastEnded' \in 0..MaxPrompts
  BY <1>1, <1>3, BoundAssumption DEF Turn
<1>5. activeTurn' \in {0} \cup Turn /\ queue' \in Seq(Turn)
  BY <1>3 DEF TypeOK, TurnsOK
<1>6. pending' \in SUBSET Perms /\ outcome' \in Outcomes /\ waiters' \in SUBSET Waiters
  BY <1>1, <1>3 DEF TypeOK, ViewOK
<1>7. ack' \in BOOLEAN
  BY <1>3
<1>8. QED
  BY <1>2, <1>4, <1>5, <1>6, <1>7 DEF HandledOK, ViewOK

(* The exit of the harness keeps the types. *)
LEMMA HandleErrorType ==
  ASSUME TypeOK, HandleError
  PROVE  HandledOK /\ meta'.status = "error"
<1> DEFINE failed    == [meta EXCEPT !.status = "error"]
           refreshed == Refreshed(failed, pending, outcome, FALSE)
<1>1. failed \in Meta /\ failed.status = "error"
  BY MetaUpdate DEF TypeOK, StoreOK, Statuses
<1>2. refreshed \in Meta /\ refreshed.status = "error"
  <2> HIDE DEF failed
  <2>1. refreshed \in Meta
    BY <1>1, RefreshedType
  <2>2. refreshed.status = failed.status
    BY <1>1, RefreshedStatus
  <2> HIDE DEF refreshed
  <2>3. QED
    BY <1>1, <2>1, <2>2
<1>3. Append(metaQ, Write(failed, "nothing")) \in Seq(Queued)
  <2>1. Write(failed, "nothing") \in Queued
    BY <1>1, WriteType DEF Thens
  <2>2. metaQ \in Seq(Queued)
    BY DEF TypeOK, StoreOK, Queued
  <2> HIDE DEF failed
  <2>3. QED
    BY <2>1, <2>2
<1>4. meta' = refreshed /\ metaQ' = Persisted(Append(metaQ, Write(failed, "nothing")), failed, refreshed)
  BY DEF HandleError
<1>5. meta' \in Meta /\ metaQ' \in Seq(Queued) /\ meta'.status = "error"
  <2> HIDE DEF failed, refreshed
  <2>1. QED
    BY <1>1, <1>2, <1>3, <1>4, PersistedType
<1>6. /\ activeTurn' = 0 /\ queue' = <<>> /\ waiters' = {} /\ ack' = FALSE
      /\ UNCHANGED <<pending, outcome, lastEnded>>
  BY DEF HandleError
<1>7. activeTurn' \in {0} \cup Turn /\ queue' \in Seq(Turn) /\ lastEnded' \in 0..MaxPrompts
  BY <1>6 DEF TypeOK, HistoryOK
<1>8. pending' \in SUBSET Perms /\ outcome' \in Outcomes /\ waiters' \in SUBSET Waiters
  BY <1>6 DEF TypeOK, ViewOK
<1>9. ack' \in BOOLEAN
  BY <1>6
<1>10. QED
  BY <1>5, <1>7, <1>8, <1>9 DEF HandledOK, ViewOK

(* An approval that comes or goes keeps the types. *)
LEMMA HandlePermissionType ==
  ASSUME TypeOK, NEW asks \in SUBSET Perms, HandlePermission(asks)
  PROVE  HandledOK
<1>1. meta' \in Meta /\ metaQ' \in Seq(Queued)
  BY RefreshType DEF HandlePermission, TypeOK
<1>2. pending' = asks /\ UNCHANGED <<activeTurn, queue, waiters, ack, outcome, lastEnded>>
  BY DEF HandlePermission
<1>3. activeTurn' \in {0} \cup Turn /\ queue' \in Seq(Turn) /\ lastEnded' \in 0..MaxPrompts
  BY <1>2 DEF TypeOK, TurnsOK, HistoryOK
<1>4. ViewOK'
  BY <1>2 DEF TypeOK, ViewOK
<1>5. QED
  BY <1>1, <1>3, <1>4 DEF HandledOK

(* Handling any event keeps the types. *)
LEMMA HandleEventType ==
  ASSUME TypeOK, NEW event \in Event, HandleEvent(event)
  PROVE  HandledOK
<1>1. CASE event.kind = "end" /\ HandleEnd(event)
  BY <1>1, HandleEndType
<1>2. CASE event.kind = "error" /\ HandleError
  BY <1>2, HandleErrorType
<1>3. CASE event.kind = "ask" /\ HandlePermission(pending \cup {event.req})
  <2>1. pending \cup {event.req} \in SUBSET Perms
    BY <1>3, EventType DEF TypeOK, ViewOK
  <2>2. QED
    BY <1>3, <2>1, HandlePermissionType
<1>4. CASE event.kind = "answer" /\ HandlePermission(pending \ {event.req})
  <2>1. pending \ {event.req} \in SUBSET Perms
    BY DEF TypeOK, ViewOK
  <2>2. QED
    BY <1>4, <2>1, HandlePermissionType
<1>5. QED
  BY <1>1, <1>2, <1>3, <1>4 DEF HandleEvent

(* applyEvent keeps the types, whether the event is handled or held. *)
LEMMA ApplyEventType ==
  ASSUME TypeOK, NEW event \in Event, ApplyEvent(event)
  PROVE  HandledOK /\ held' \in Seq(Event)
<1>1. CASE holding
  <2>1. /\ held' = Append(held, event)
        /\ UNCHANGED <<meta, metaQ, activeTurn, queue, view, lastEnded>>
    BY <1>1 DEF ApplyEvent
  <2>2. held' \in Seq(Event)
    BY <2>1 DEF TypeOK, HoldOK
  <2>3. ViewOK'
    BY <2>1 DEF TypeOK, ViewOK, view
  <2>4. meta' \in Meta /\ metaQ' \in Seq(Queued)
    BY <2>1 DEF TypeOK, StoreOK, Queued
  <2>5. activeTurn' \in {0} \cup Turn /\ queue' \in Seq(Turn) /\ lastEnded' \in 0..MaxPrompts
    BY <2>1 DEF TypeOK, TurnsOK, HistoryOK
  <2>6. QED
    BY <2>2, <2>3, <2>4, <2>5 DEF HandledOK
<1>2. CASE ~holding
  <2>1. HandleEvent(event) /\ held' = held
    BY <1>2 DEF ApplyEvent
  <2>2. held' \in Seq(Event)
    BY <2>1 DEF TypeOK, HoldOK
  <2>3. QED
    BY <2>1, <2>2, HandleEventType
<1>3. QED
  BY <1>1, <1>2

-----------------------------------------------------------------------------
(* Every action keeps the types *)

(* What does not change keeps its type. *)
LEMMA Unchanged ==
  /\ LifeOK    /\ UNCHANGED life    => LifeOK'
  /\ StoreOK   /\ UNCHANGED store   => StoreOK'
  /\ TurnsOK   /\ UNCHANGED turns   => TurnsOK'
  /\ HoldOK    /\ UNCHANGED hold    => HoldOK'
  /\ ViewOK    /\ UNCHANGED view    => ViewOK'
  /\ HarnessOK /\ UNCHANGED harness => HarnessOK'
  /\ HistoryOK /\ UNCHANGED history => HistoryOK'
<1>1. LifeOK /\ UNCHANGED life => LifeOK'
  BY DEF LifeOK, life
<1>2. StoreOK /\ UNCHANGED store => StoreOK'
  BY DEF StoreOK, store
<1>3. TurnsOK /\ UNCHANGED turns => TurnsOK'
  BY DEF TurnsOK, turns
<1>4. HoldOK /\ UNCHANGED hold => HoldOK'
  BY DEF HoldOK, hold
<1>5. ViewOK /\ UNCHANGED view => ViewOK'
  BY DEF ViewOK, view
<1>6. HarnessOK /\ UNCHANGED harness => HarnessOK'
  BY DEF HarnessOK, harness
<1>7. HistoryOK /\ UNCHANGED history => HistoryOK'
  BY DEF HistoryOK, history
<1>8. QED
  BY <1>1, <1>2, <1>3, <1>4, <1>5, <1>6, <1>7

(* An event that was handled or held, given what the step did to the rest. *)
LEMMA EventStepType ==
  ASSUME TypeOK, HandledOK, UNCHANGED disk,
         UNCHANGED <<submitted, stopMark, lastOpened, opens, restarts>>,
         draining' \in BOOLEAN, starts' \in SUBSET Start
  PROVE  StoreOK' /\ TurnsOK' /\ ViewOK' /\ HistoryOK'
<1>1. StoreOK'
  BY DEF TypeOK, StoreOK, HandledOK, Queued
<1>2. TurnsOK'
  BY DEF HandledOK, TurnsOK
<1>3. ViewOK'
  BY DEF HandledOK
<1>4. HistoryOK'
  BY DEF TypeOK, HistoryOK, HandledOK
<1>5. QED
  BY <1>1, <1>2, <1>3, <1>4

(* Applying a held event keeps the types. *)
LEMMA FlushType ==
  ASSUME TypeOK, FlushOne
  PROVE  TypeOK'
<1>1. Head(flush) \in Event /\ Tail(flush) \in Seq(Event)
  BY HeadTailProperties DEF TypeOK, HoldOK, FlushOne
<1>2. HandledOK
  BY <1>1, HandleEventType DEF FlushOne
<1>3. /\ flush' = Tail(flush)
      /\ UNCHANGED <<opening, closing, mode, disk, draining, submitted, stopMark,
                     lastOpened, opens, restarts>>
      /\ UNCHANGED <<runtime, starts, holding, held, harness>>
  BY DEF FlushOne, EventFrame
<1>4. LifeOK' /\ HarnessOK'
  BY <1>3, Unchanged DEF TypeOK, life
<1>5. HoldOK'
  BY <1>1, <1>3 DEF TypeOK, HoldOK
<1>6. draining' \in BOOLEAN /\ starts' \in SUBSET Start
  BY <1>3 DEF TypeOK, TurnsOK
<1>7. StoreOK' /\ TurnsOK' /\ ViewOK' /\ HistoryOK'
  BY <1>2, <1>3, <1>6, EventStepType
<1>8. QED
  BY <1>4, <1>5, <1>7 DEF TypeOK

(* An event of the harness keeps the types. *)
LEMMA HarnessEventType ==
  ASSUME TypeOK, NEW event \in Event, HarnessEvent(event), HarnessOK'
  PROVE  TypeOK'
<1>1. HandledOK /\ held' \in Seq(Event)
  BY ApplyEventType DEF HarnessEvent
<1>2. /\ UNCHANGED <<opening, closing, mode, disk, draining, submitted, stopMark,
                     lastOpened, opens, restarts>>
      /\ UNCHANGED <<runtime, starts, holding, flush>>
  BY DEF HarnessEvent, EventFrame
<1>3. LifeOK'
  BY <1>2, Unchanged DEF TypeOK, life
<1>4. HoldOK'
  BY <1>1, <1>2 DEF TypeOK, HoldOK
<1>5. draining' \in BOOLEAN /\ starts' \in SUBSET Start
  BY <1>2 DEF TypeOK, TurnsOK
<1>6. StoreOK' /\ TurnsOK' /\ ViewOK' /\ HistoryOK'
  BY <1>1, <1>2, <1>5, EventStepType
<1>7. QED
  BY <1>3, <1>4, <1>6 DEF TypeOK

(* Failed startTurn calls keep the types. *)
LEMMA AbandonStartsType ==
  ASSUME TypeOK, NEW failed, AbandonStarts(failed)
  PROVE  /\ starts' \in SUBSET Start /\ draining' \in BOOLEAN
         /\ holding' \in BOOLEAN /\ held' \in Seq(Event)
<1>1. starts' \in SUBSET Start
  BY DEF AbandonStarts, TypeOK, TurnsOK
<1>2. draining' \in BOOLEAN
  BY DEF AbandonStarts
<1>3. holding' \in BOOLEAN
  <2>1. CASE failed = {}
    BY <2>1 DEF AbandonStarts, TypeOK, HoldOK
  <2>2. CASE failed # {}
    BY <2>2 DEF AbandonStarts
  <2>3. QED
    BY <2>1, <2>2
<1>4. held' \in Seq(Event)
  BY DEF AbandonStarts, TypeOK, HoldOK
<1>5. QED
  BY <1>1, <1>2, <1>3, <1>4

(* Every step of the harness keeps the types. *)
LEMMA HarnessStepType ==
  ASSUME TypeOK, HarnessStep
  PROVE  TypeOK'
<1>1. ASSUME NEW turn \in live, NEW result \in Outcomes, TurnEnd(turn, result)
      PROVE  TypeOK'
  <2>1. [kind |-> "end", turn |-> turn, outcome |-> result] \in Event
    BY DEF TypeOK, HarnessOK, Event
  <2>2. HarnessOK'
    BY <1>1 DEF TurnEnd, TypeOK, HarnessOK
  <2>3. QED
    BY <1>1, <2>1, <2>2, HarnessEventType DEF TurnEnd
<1>2. ASSUME NEW req \in Perms, Ask(req)
      PROVE  TypeOK'
  <2>1. [kind |-> "ask", req |-> req] \in Event
    BY DEF Event
  <2>2. HarnessOK'
    BY <1>2 DEF Ask, TypeOK, HarnessOK
  <2>3. QED
    BY <1>2, <2>1, <2>2, HarnessEventType DEF Ask
<1>3. ASSUME HarnessCrash
      PROVE  TypeOK'
  <2>1. /\ runtime' = "dead" /\ live' = {} /\ aborted' = {}
        /\ UNCHANGED <<opening, closing, mode, disk, flush, asked, submitted, stopMark,
                       lastOpened, opens, restarts>>
    BY <1>3 DEF HarnessCrash
  <2>2. LifeOK' /\ HarnessOK'
    BY <2>1 DEF TypeOK, LifeOK, HarnessOK
  <2>3. /\ HandledOK /\ starts' \in SUBSET Start /\ draining' \in BOOLEAN
        /\ holding' \in BOOLEAN /\ held' \in Seq(Event)
    <3>1. CASE /\ ApplyEvent([kind |-> "error"])
               /\ UNCHANGED <<starts, holding, draining>>
      <4>1. [kind |-> "error"] \in Event
        BY DEF Event
      <4>2. starts' \in SUBSET Start /\ draining' \in BOOLEAN /\ holding' \in BOOLEAN
        BY <3>1 DEF TypeOK, TurnsOK, HoldOK
      <4>3. QED
        BY <3>1, <4>1, <4>2, ApplyEventType
    <3>2. CASE /\ AbandonStarts(starts)
               /\ queue' = IF DrainFailed(starts) THEN <<>> ELSE queue
               /\ UNCHANGED <<meta, metaQ, activeTurn, view, lastEnded>>
      <4>1. queue' \in Seq(Turn)
        BY <3>2 DEF TypeOK, TurnsOK
      <4>2. ViewOK'
        BY <3>2, Unchanged DEF TypeOK
      <4>3. meta' \in Meta /\ metaQ' \in Seq(Queued)
        BY <3>2 DEF TypeOK, StoreOK, Queued
      <4>4. activeTurn' \in {0} \cup Turn /\ lastEnded' \in 0..MaxPrompts
        BY <3>2 DEF TypeOK, TurnsOK, HistoryOK
      <4>5. QED
        BY <3>2, <4>1, <4>2, <4>3, <4>4, AbandonStartsType DEF HandledOK
    <3>3. CASE HandleError /\ AbandonStarts(starts)
      BY <3>3, HandleErrorType, AbandonStartsType
    <3>4. QED
      BY <1>3, <3>1, <3>2, <3>3 DEF HarnessCrash
  <2>4. StoreOK' /\ TurnsOK' /\ ViewOK' /\ HistoryOK'
    BY <2>1, <2>3, EventStepType
  <2>5. HoldOK'
    BY <2>1, <2>3 DEF TypeOK, HoldOK
  <2>6. QED
    BY <2>2, <2>4, <2>5 DEF TypeOK
<1>4. QED
  BY <1>1, <1>2, <1>3 DEF HarnessStep

(* createSession and resumeSession keep the types. *)
LEMMA OpenType ==
  ASSUME TypeOK, CreateSession \/ ResumeSession
  PROVE  TypeOK'
<1>1. /\ opening' = "requested" /\ opens < MaxOpens /\ opens' = opens + 1
      /\ UNCHANGED <<mode, runtime, closing, disk>>
      /\ UNCHANGED <<turns, hold, view, harness>>
      /\ UNCHANGED <<submitted, stopMark, lastOpened, lastEnded, restarts>>
  BY DEF CreateSession, ResumeSession
<1>2. meta' \in Meta /\ metaQ' \in Seq(Queued)
  BY TransitionType DEF TypeOK, CreateSession, ResumeSession, Statuses, Thens
<1>3. LifeOK'
  BY <1>1 DEF TypeOK, LifeOK
<1>4. StoreOK'
  BY <1>1, <1>2 DEF TypeOK, StoreOK, Queued
<1>5. TurnsOK' /\ HoldOK' /\ ViewOK' /\ HarnessOK'
  BY <1>1, Unchanged DEF TypeOK
<1>6. HistoryOK'
  BY <1>1, BoundAssumption DEF TypeOK, HistoryOK
<1>7. QED
  BY <1>3, <1>4, <1>5, <1>6 DEF TypeOK

(* Sending a prompt keeps the types. *)
LEMMA SendType ==
  ASSUME TypeOK, NEW turn \in Turn, NEW drain \in BOOLEAN, Send(turn, drain)
  PROVE  /\ starts' \in SUBSET Start /\ live' \in SUBSET Turn
         /\ holding' \in BOOLEAN /\ held' \in Seq(Event)
<1>1. [turn |-> turn, drain |-> drain] \in Start
  BY DEF Start
<1>2. starts' \in SUBSET Start
  BY <1>1 DEF Send, TypeOK, TurnsOK
<1>3. live' \in {live, live \cup {turn}}
  BY DEF Send
<1>4. live' \in SUBSET Turn
  BY <1>3 DEF TypeOK, HarnessOK
<1>5. holding' \in BOOLEAN /\ held' \in Seq(Event)
  BY DEF Send
<1>6. QED
  BY <1>2, <1>4, <1>5

(* prompt keeps the types, whether it queues or starts. *)
LEMMA PromptType ==
  ASSUME TypeOK, PromptQueued \/ PromptStarted
  PROVE  TypeOK'
<1>1. /\ UNCHANGED <<life, store>> /\ UNCHANGED view
      /\ submitted < MaxPrompts /\ submitted' = submitted + 1
      /\ UNCHANGED <<stopMark, lastOpened, lastEnded, opens, restarts>>
      /\ UNCHANGED <<aborted, asked>>
      /\ UNCHANGED <<draining, activeTurn, flush>>
  BY DEF PromptQueued, PromptStarted, hold, harness
<1>2. submitted + 1 \in Turn
  BY <1>1, BoundAssumption DEF TypeOK, HistoryOK, Turn
<1>3. LifeOK' /\ StoreOK' /\ ViewOK'
  BY <1>1, Unchanged DEF TypeOK
<1>4. HistoryOK'
  BY <1>1, BoundAssumption DEF TypeOK, HistoryOK
<1>5. CASE PromptQueued
  <2>1. TurnsOK'
    BY <1>2, <1>5 DEF PromptQueued, TypeOK, TurnsOK
  <2>2. HoldOK' /\ HarnessOK'
    BY <1>5, Unchanged DEF PromptQueued, TypeOK
  <2>3. QED
    BY <1>3, <1>4, <2>1, <2>2 DEF TypeOK
<1>6. CASE PromptStarted /\ closing = "terminating"
  <2>1. holding' = FALSE /\ held' = <<>> /\ UNCHANGED <<starts, live, queue>>
    BY <1>6 DEF PromptStarted
  <2>2. TurnsOK'
    BY <1>1, <2>1 DEF TypeOK, TurnsOK
  <2>3. HarnessOK'
    BY <1>1, <2>1 DEF TypeOK, HarnessOK
  <2>4. holding' \in BOOLEAN
    BY <2>1, Zenon
  <2>5. held' \in Seq(Event)
    BY <2>1
  <2>6. HoldOK'
    BY <1>1, <2>4, <2>5 DEF TypeOK, HoldOK
  <2>7. QED
    BY <1>3, <1>4, <2>2, <2>3, <2>6 DEF TypeOK
<1>7. CASE PromptStarted /\ closing # "terminating"
  <2>1. Send(submitted + 1, FALSE) /\ UNCHANGED queue
    BY <1>7 DEF PromptStarted
  <2>2. starts' \in SUBSET Start /\ live' \in SUBSET Turn
    BY <1>2, <2>1, SendType
  <2>3. holding' \in BOOLEAN /\ held' \in Seq(Event)
    BY <1>2, <2>1, SendType
  <2>4. TurnsOK'
    BY <1>1, <2>1, <2>2 DEF TypeOK, TurnsOK
  <2>5. HarnessOK'
    BY <1>1, <2>2 DEF TypeOK, HarnessOK
  <2>6. HoldOK'
    BY <1>1, <2>3 DEF TypeOK, HoldOK
  <2>7. QED
    BY <1>3, <1>4, <2>4, <2>5, <2>6 DEF TypeOK
<1>8. QED
  BY <1>5, <1>6, <1>7

(* The first part of closeSession keeps the types. *)
LEMMA CloseBeginsType ==
  ASSUME TypeOK, CloseBegins
  PROVE  TypeOK'
<1>1. /\ queue' = <<>> /\ closing' \in {"terminating", "persisting"}
      /\ UNCHANGED <<mode, runtime, opening, disk, activeTurn, flush>>
      /\ UNCHANGED view /\ UNCHANGED harness /\ UNCHANGED history
  BY DEF CloseBegins
<1>2. LifeOK' /\ ViewOK' /\ HarnessOK' /\ HistoryOK'
  <2>1. LifeOK'
    BY <1>1 DEF TypeOK, LifeOK
  <2>2. QED
    BY <1>1, <2>1, Unchanged DEF TypeOK
<1>3. CASE AbandonStarts(starts) /\ UNCHANGED <<meta, metaQ>>
  <2>1. /\ starts' \in SUBSET Start /\ draining' \in BOOLEAN
        /\ holding' \in BOOLEAN /\ held' \in Seq(Event)
    BY <1>3, AbandonStartsType
  <2>2. StoreOK'
    BY <1>1, <1>3 DEF TypeOK, StoreOK
  <2>3. TurnsOK'
    BY <1>1, <2>1 DEF TypeOK, TurnsOK
  <2>4. HoldOK'
    BY <1>1, <2>1 DEF TypeOK, HoldOK
  <2>5. QED
    BY <1>2, <2>2, <2>3, <2>4 DEF TypeOK
<1>4. CASE Transition("closed", "closed") /\ UNCHANGED <<draining, starts, holding, held>>
  <2>1. StoreOK'
    BY <1>1, <1>4, TransitionType DEF TypeOK, StoreOK, Queued, Statuses, Thens
  <2>2. TurnsOK'
    BY <1>1, <1>4 DEF TypeOK, TurnsOK
  <2>3. HoldOK'
    BY <1>1, <1>4 DEF TypeOK, HoldOK
  <2>4. QED
    BY <1>2, <2>1, <2>2, <2>3 DEF TypeOK
<1>5. QED
  BY <1>3, <1>4 DEF CloseBegins

(* Every request of a client keeps the types. *)
LEMMA ClientStepType ==
  ASSUME TypeOK, ClientStep
  PROVE  TypeOK'
<1>1. CASE CreateSession \/ ResumeSession
  BY <1>1, OpenType
<1>2. CASE PromptQueued \/ PromptStarted
  BY <1>2, PromptType
<1>3. CASE Interrupt
  <2>1. /\ UNCHANGED <<life, store>> /\ UNCHANGED <<hold, view>>
        /\ queue' = <<>> /\ UNCHANGED <<draining, starts, activeTurn>>
        /\ aborted' \in {live, aborted} /\ UNCHANGED <<live, asked>>
        /\ stopMark' = submitted
        /\ UNCHANGED <<submitted, lastOpened, lastEnded, opens, restarts>>
    BY <1>3 DEF Interrupt
  <2>2. LifeOK' /\ StoreOK' /\ HoldOK' /\ ViewOK'
    BY <2>1, Unchanged DEF TypeOK
  <2>3. TurnsOK'
    BY <2>1 DEF TypeOK, TurnsOK
  <2>4. HarnessOK' /\ HistoryOK'
    BY <2>1 DEF TypeOK, HarnessOK, HistoryOK
  <2>5. QED
    BY <2>2, <2>3, <2>4 DEF TypeOK
<1>4. ASSUME NEW req \in Perms, RespondPermission(req)
      PROVE  TypeOK'
  <2>1. [kind |-> "answer", req |-> req] \in Event
    BY DEF Event
  <2>2. HarnessOK'
    BY <1>4 DEF RespondPermission, TypeOK, HarnessOK
  <2>3. QED
    BY <1>4, <2>1, <2>2, HarnessEventType DEF RespondPermission
<1>5. ASSUME NEW caller \in Waiters, WaitForTurn(caller)
      PROVE  TypeOK'
  <2>1. /\ UNCHANGED <<life, store, turns, hold>> /\ UNCHANGED <<harness, history>>
        /\ UNCHANGED <<pending, outcome, ack>> /\ waiters' = waiters \cup {caller}
    BY <1>5 DEF WaitForTurn
  <2>2. ViewOK'
    BY <2>1 DEF TypeOK, ViewOK
  <2>3. QED
    BY <2>1, <2>2, Unchanged DEF TypeOK
<1>6. CASE AcknowledgeAttention
  <2>1. /\ UNCHANGED <<life, turns, hold>> /\ UNCHANGED <<harness, history>>
        /\ UNCHANGED <<disk, pending, waiters>> /\ ack' = TRUE /\ outcome' = "none"
    BY <1>6 DEF AcknowledgeAttention
  <2>2. StoreOK'
    BY <1>6, <2>1, RefreshType DEF AcknowledgeAttention, TypeOK, StoreOK, Queued
  <2>3. ViewOK'
    BY <2>1 DEF TypeOK, ViewOK, Outcomes
  <2>4. QED
    BY <2>1, <2>2, <2>3, Unchanged DEF TypeOK
<1>7. CASE CloseSession
  <2>1. CloseBegins
    BY <1>7 DEF CloseSession
  <2>2. QED
    BY <2>1, CloseBeginsType
<1>8. QED
  BY <1>1, <1>2, <1>3, <1>4, <1>5, <1>6, <1>7 DEF ClientStep

(* A daemon that goes down keeps the types. *)
LEMMA GoDownType ==
  ASSUME TypeOK, GoDown
  PROVE  TypeOK'
<1>1. LifeOK'
  BY DEF GoDown, LifeOK
<1>2. StoreOK'
  BY DEF GoDown, TypeOK, StoreOK
<1>3. TurnsOK'
  <2>1. draining' \in BOOLEAN
    BY Zenon DEF GoDown
  <2>2. queue' = <<>> /\ starts' = {} /\ activeTurn' = 0
    BY DEF GoDown
  <2>3. QED
    BY <2>1, <2>2 DEF TurnsOK
<1>4. HoldOK'
  <2>1. holding' \in BOOLEAN
    BY Zenon DEF GoDown
  <2>2. held' \in Seq(Event) /\ flush' \in Seq(Event)
    BY DEF GoDown
  <2>3. QED
    BY <2>1, <2>2 DEF HoldOK
<1>5. ViewOK'
  <2>1. ack' \in BOOLEAN
    BY Zenon DEF GoDown
  <2>2. pending' = {} /\ outcome' = "none" /\ waiters' = {}
    BY DEF GoDown
  <2>3. QED
    BY <2>1, <2>2 DEF ViewOK, Outcomes
<1>6. HarnessOK'
  BY DEF GoDown, HarnessOK
<1>7. HistoryOK'
  BY Unchanged DEF GoDown, TypeOK
<1>8. QED
  BY <1>1, <1>2, <1>3, <1>4, <1>5, <1>6, <1>7 DEF TypeOK

(* init keeps the types. *)
LEMMA RestartType ==
  ASSUME TypeOK, Restart
  PROVE  TypeOK'
<1>1. /\ mode' = "up" /\ restarts < MaxRestarts /\ restarts' = restarts + 1
      /\ disk' = meta' /\ UNCHANGED <<runtime, opening, closing, metaQ>>
      /\ UNCHANGED <<turns, hold, harness>> /\ UNCHANGED <<pending, outcome, waiters>>
      /\ UNCHANGED <<submitted, stopMark, lastOpened, lastEnded, opens>>
  BY DEF Restart
<1>2. meta' \in {meta, [meta EXCEPT !.status = "closed"]}
  BY DEF Restart
<1>3. [meta EXCEPT !.status = "closed"] \in Meta
  BY MetaUpdate DEF TypeOK, StoreOK, Statuses
<1>4. meta' \in Meta
  BY <1>2, <1>3 DEF TypeOK, StoreOK
<1>5. StoreOK'
  BY <1>1, <1>4 DEF TypeOK, StoreOK
<1>6. LifeOK'
  BY <1>1 DEF TypeOK, LifeOK
<1>7. TurnsOK' /\ HoldOK' /\ HarnessOK'
  BY <1>1, Unchanged DEF TypeOK
<1>8. ack' \in BOOLEAN
  BY DEF Restart
<1>9. ViewOK'
  BY <1>1, <1>8 DEF TypeOK, ViewOK
<1>10. HistoryOK'
  BY <1>1, BoundAssumption DEF TypeOK, HistoryOK
<1>11. QED
  BY <1>5, <1>6, <1>7, <1>9, <1>10 DEF TypeOK

(* An answer or a failure of startTurn keeps the types. *)
LEMMA StartTurnType ==
  ASSUME TypeOK, StartTurnResolves
  PROVE  TypeOK'
<1>1. ASSUME NEW start \in starts, StartTurnOk(start)
      PROVE  TypeOK'
  <2>1. start \in Start
    BY DEF TypeOK, TurnsOK
  <2>2. start.turn \in Turn
    BY <2>1 DEF Start
  <2>3. /\ starts' = starts \ {start} /\ activeTurn' = start.turn
        /\ lastOpened' = start.turn /\ ack' = TRUE /\ outcome' = "none"
        /\ UNCHANGED <<life, disk, queue, draining>> /\ UNCHANGED hold
        /\ UNCHANGED <<pending, waiters>> /\ UNCHANGED harness
        /\ UNCHANGED <<submitted, stopMark, lastEnded, opens, restarts>>
    BY <1>1 DEF StartTurnOk
  <2>4. meta' \in Meta /\ metaQ' \in Seq(Queued)
    <3> DEFINE then == IF start.drain THEN "drained" ELSE "running"
    <3>1. then \in Thens
      BY DEF Thens
    <3>2. Transition("running", then)
      BY <1>1 DEF StartTurnOk
    <3> HIDE DEF then
    <3>3. QED
      BY <3>1, <3>2, TransitionType DEF TypeOK, Statuses
  <2>5. StoreOK'
    BY <2>3, <2>4 DEF TypeOK, StoreOK, Queued
  <2>6. TurnsOK'
    BY <2>2, <2>3 DEF TypeOK, TurnsOK
  <2>7. ack' \in BOOLEAN
    BY <2>3, Zenon
  <2>8. ViewOK'
    BY <2>3, <2>7 DEF TypeOK, ViewOK, Outcomes
  <2>9. HistoryOK'
    BY <2>2, <2>3, BoundAssumption DEF TypeOK, HistoryOK, Turn
  <2>10. LifeOK' /\ HoldOK' /\ HarnessOK'
    BY <2>3, Unchanged DEF TypeOK
  <2>11. QED
    BY <2>5, <2>6, <2>8, <2>9, <2>10 DEF TypeOK
<1>2. ASSUME NEW start \in starts, StartTurnFail(start)
      PROVE  TypeOK'
  <2>1. /\ AbandonStarts({start}) /\ queue' \in {<<>>, queue}
        /\ live' \in {live, live \ {start.turn}}
        /\ UNCHANGED <<life, store>> /\ UNCHANGED <<activeTurn, flush>>
        /\ UNCHANGED view /\ UNCHANGED <<aborted, asked>> /\ UNCHANGED history
    BY <1>2 DEF StartTurnFail
  <2>2. /\ starts' \in SUBSET Start /\ draining' \in BOOLEAN
        /\ holding' \in BOOLEAN /\ held' \in Seq(Event)
    <3>1. AbandonStarts({start})
      BY <2>1
    <3>2. QED
      BY <3>1, AbandonStartsType
  <2>3. queue' \in Seq(Turn)
    <3>1. queue' = <<>> \/ queue' = queue
      BY <1>2 DEF StartTurnFail
    <3>2. CASE queue' = <<>>
      BY <3>2
    <3>3. CASE queue' = queue
      BY <3>3 DEF TypeOK, TurnsOK
    <3>4. QED
      BY <3>1, <3>2, <3>3
  <2>4. TurnsOK'
    BY <2>1, <2>2, <2>3 DEF TypeOK, TurnsOK
  <2>5. HoldOK'
    BY <2>1, <2>2 DEF TypeOK, HoldOK
  <2>6. HarnessOK'
    BY <2>1 DEF TypeOK, HarnessOK
  <2>7. QED
    BY <2>1, <2>4, <2>5, <2>6, Unchanged DEF TypeOK
<1>3. QED
  BY <1>1, <1>2 DEF StartTurnResolves

(* A process that came up, or did not, keeps the types. *)
LEMMA SpawnType ==
  ASSUME TypeOK, SpawnResolves
  PROVE  TypeOK'
<1>1. CASE SpawnOk
  <2>1. /\ opening' = "none" /\ runtime' = "live" /\ UNCHANGED <<mode, closing, disk>>
        /\ UNCHANGED <<turns, hold>> /\ UNCHANGED <<outcome, ack, waiters>>
        /\ UNCHANGED <<live, aborted>> /\ UNCHANGED history
    BY <1>1 DEF SpawnOk
  <2>2. asked' \in SUBSET Perms /\ pending' \in SUBSET Perms
    BY <1>1 DEF SpawnOk, TypeOK, ViewOK
  <2>3. meta' \in Meta /\ metaQ' \in Seq(Queued)
    <3> DEFINE ready == [meta EXCEPT !.status = "idle", !.handle = TRUE]
    <3>1. ready \in Meta
      BY DEF TypeOK, StoreOK, Meta, Statuses
    <3>2. Write(ready, "refresh") \in Queued
      BY <3>1, WriteType DEF Thens
    <3>3. meta' = ready /\ metaQ' = Append(metaQ, Write(ready, "refresh"))
      BY <1>1 DEF SpawnOk
    <3>4. metaQ \in Seq(Queued)
      BY DEF TypeOK, StoreOK, Queued
    <3> HIDE DEF ready
    <3>5. QED
      BY <3>1, <3>2, <3>3, <3>4
  <2>4. LifeOK'
    BY <2>1 DEF TypeOK, LifeOK
  <2>5. StoreOK'
    BY <2>1, <2>3 DEF TypeOK, StoreOK, Queued
  <2>6. ViewOK'
    BY <2>1, <2>2 DEF TypeOK, ViewOK
  <2>7. HarnessOK'
    BY <2>1, <2>2 DEF TypeOK, HarnessOK
  <2>8. QED
    BY <2>1, <2>4, <2>5, <2>6, <2>7, Unchanged DEF TypeOK
<1>2. CASE SpawnFail
  <2>1. /\ opening' = "none" /\ UNCHANGED <<mode, runtime, closing, disk>>
        /\ UNCHANGED <<turns, hold, view, harness, history>>
    BY <1>2 DEF SpawnFail
  <2>2. StoreOK'
    BY <1>2, <2>1, TransitionType DEF SpawnFail, TypeOK, StoreOK, Queued, Statuses, Thens
  <2>3. LifeOK'
    BY <2>1 DEF TypeOK, LifeOK
  <2>4. QED
    BY <2>1, <2>2, <2>3, Unchanged DEF TypeOK
<1>3. QED
  BY <1>1, <1>2 DEF SpawnResolves

(* A completed write leaves a meta in the file. *)
LEMMA MetaWrittenType ==
  ASSUME StoreOK, NEW then, MetaWritten(then)
  PROVE  /\ disk' \in Meta /\ Tail(metaQ) \in Seq(Queued)
         /\ metaQ # <<>> /\ disk' = Head(metaQ).meta
<1>1. Head(metaQ) \in Queued /\ Tail(metaQ) \in Seq(Queued)
  BY HeadTailProperties DEF MetaWritten, StoreOK, Queued
<1>2. QED
  BY <1>1 DEF MetaWritten, Queued

(* The end of transition keeps the store well typed. *)
LEMMA TransitionDoneType ==
  ASSUME StoreOK, NEW then, TransitionDone(then)
  PROVE  StoreOK' /\ meta'.status = meta.status
<1> DEFINE refreshed == Refreshed(meta, pending, outcome, ack)
<1>1. meta \in Meta
  BY DEF StoreOK
<1>2. refreshed \in Meta
  BY <1>1, RefreshedType
<1>3. refreshed.status = meta.status
  BY <1>1, RefreshedStatus
<1>4. meta' = refreshed /\ metaQ' = Persisted(Tail(metaQ), meta, refreshed)
  BY DEF TransitionDone
<1>5. disk' \in Meta /\ Tail(metaQ) \in Seq(Queued)
  BY MetaWrittenType DEF TransitionDone
<1> HIDE DEF refreshed
<1>6. metaQ' \in Seq(Queued)
  BY <1>1, <1>2, <1>4, <1>5, PersistedType
<1>7. QED
  BY <1>2, <1>3, <1>4, <1>5, <1>6 DEF StoreOK, Queued

(* The last write of closeSession, with the attention a user's close lowers. *)
LEMMA TidiedType ==
  ASSUME NEW m \in Meta
  PROVE  /\ [m EXCEPT !.attn = "none"] \in Meta
         /\ [m EXCEPT !.attn = "none"].status = m.status
         /\ [m EXCEPT !.attn = "none"].attn = m.attn => [m EXCEPT !.attn = "none"] = m
BY DEF Meta

(* Every continuation of a write keeps the types. *)
LEMMA WriteCompletesType ==
  ASSUME TypeOK, WriteCompletes
  PROVE  TypeOK'
<1>0. StoreOK
  BY DEF TypeOK
<1>1. CASE WrittenOnly
  <2>1. /\ MetaWritten("nothing") /\ metaQ' = Tail(metaQ) /\ meta' = meta
        /\ UNCHANGED <<life, turns, hold, view, harness, history>>
    BY <1>1 DEF WrittenOnly
  <2>2. disk' \in Meta /\ Tail(metaQ) \in Seq(Queued)
    BY <1>0, <2>1, MetaWrittenType
  <2>3. StoreOK'
    BY <1>0, <2>1, <2>2 DEF StoreOK, Queued
  <2>4. QED
    BY <2>1, <2>3, Unchanged DEF TypeOK
<1>2. CASE WrittenSpawn
  <2>1. /\ TransitionDone("spawn") /\ opening' = "spawning" /\ UNCHANGED <<mode, runtime, closing>>
        /\ UNCHANGED <<turns, hold, view, harness, history>>
    BY <1>2 DEF WrittenSpawn
  <2>2. StoreOK'
    BY <1>0, <2>1, TransitionDoneType
  <2>3. LifeOK'
    BY <2>1 DEF TypeOK, LifeOK
  <2>4. QED
    BY <2>1, <2>2, <2>3, Unchanged DEF TypeOK
<1>3. CASE WrittenRefresh
  <2>1. /\ TransitionDone("refresh")
        /\ UNCHANGED <<life, turns, hold, view, harness, history>>
    BY <1>3 DEF WrittenRefresh
  <2>2. StoreOK'
    BY <1>0, <2>1, TransitionDoneType
  <2>3. QED
    BY <2>1, <2>2, Unchanged DEF TypeOK
<1>4. CASE WrittenRunning
  <2>1. /\ TransitionDone("running") \/ TransitionDone("drained")
        /\ flush' = held /\ held' = <<>> /\ UNCHANGED <<life, queue, starts, activeTurn>>
        /\ UNCHANGED <<view, harness, history>>
    BY <1>4 DEF WrittenRunning
  <2>2. StoreOK'
    BY <1>0, <2>1, TransitionDoneType
  <2>3. draining' \in BOOLEAN
    <3>1. draining' = draining \/ draining' = FALSE
      BY <1>4 DEF WrittenRunning
    <3>2. QED
      BY <3>1 DEF TypeOK, TurnsOK
  <2>4. holding' \in BOOLEAN
    BY <1>4, Zenon DEF WrittenRunning
  <2>5. TurnsOK'
    BY <2>1, <2>3 DEF TypeOK, TurnsOK
  <2>6. HoldOK'
    BY <2>1, <2>4 DEF TypeOK, HoldOK
  <2>7. QED
    BY <2>1, <2>2, <2>5, <2>6, Unchanged DEF TypeOK
<1>5. CASE WrittenIdle
  <2>1. /\ TransitionDone("idle") /\ UNCHANGED life /\ UNCHANGED <<activeTurn, flush>>
        /\ UNCHANGED <<view, history>> /\ UNCHANGED <<aborted, asked>>
    BY <1>5 DEF WrittenIdle
  <2>2. StoreOK'
    BY <1>0, <2>1, TransitionDoneType
  <2>3. /\ queue' \in Seq(Turn) /\ draining' \in BOOLEAN /\ starts' \in SUBSET Start
        /\ holding' \in BOOLEAN /\ held' \in Seq(Event) /\ live' \in SUBSET Turn
    <3>1. CASE UNCHANGED <<queue, draining, starts, holding, held, live>>
      BY <3>1 DEF TypeOK, TurnsOK, HoldOK, HarnessOK
    <3>2. CASE CanDrain /\ Send(Head(queue), TRUE) /\ queue' = Tail(queue) /\ draining' = TRUE
      <4>1. Head(queue) \in Turn /\ Tail(queue) \in Seq(Turn)
        BY <3>2, HeadTailProperties DEF CanDrain, TypeOK, TurnsOK
      <4>2. Send(Head(queue), TRUE)
        BY <3>2
      <4>3. /\ starts' \in SUBSET Start /\ live' \in SUBSET Turn
            /\ holding' \in BOOLEAN /\ held' \in Seq(Event)
        BY <4>1, <4>2, SendType
      <4>4. draining' \in BOOLEAN
        BY <3>2, Zenon
      <4>5. queue' \in Seq(Turn)
        BY <3>2, <4>1
      <4>6. QED
        BY <4>3, <4>4, <4>5
    <3>3. CASE /\ queue' = <<>> /\ holding' = FALSE /\ held' = <<>>
               /\ UNCHANGED <<draining, starts, live>>
      <4>1. holding' \in BOOLEAN
        BY <3>3, Zenon
      <4>2. queue' \in Seq(Turn) /\ held' \in Seq(Event)
        BY <3>3
      <4>3. draining' \in BOOLEAN /\ starts' \in SUBSET Start /\ live' \in SUBSET Turn
        BY <3>3 DEF TypeOK, TurnsOK, HarnessOK
      <4>4. QED
        BY <4>1, <4>2, <4>3
    <3>4. QED
      BY <1>5, <3>1, <3>2, <3>3 DEF WrittenIdle
  <2>4. TurnsOK'
    BY <2>1, <2>3 DEF TypeOK, TurnsOK
  <2>5. HoldOK'
    BY <2>1, <2>3 DEF TypeOK, HoldOK
  <2>6. HarnessOK'
    BY <2>1, <2>3 DEF TypeOK, HarnessOK
  <2>7. QED
    BY <2>1, <2>2, <2>4, <2>5, <2>6, Unchanged DEF TypeOK
<1>6. CASE WrittenClosed
  <2> DEFINE tidied == IF mode = "up" THEN [meta EXCEPT !.attn = "none"] ELSE meta
  <2>1. /\ MetaWritten("closed") /\ closing' = "none" /\ UNCHANGED <<mode, runtime, opening>>
        /\ UNCHANGED <<turns, hold, view, harness, history>>
    BY <1>6 DEF WrittenClosed
  <2>2. disk' \in Meta /\ Tail(metaQ) \in Seq(Queued)
    BY <1>0, <2>1, MetaWrittenType
  <2>3. meta \in Meta
    BY <1>0 DEF StoreOK
  <2>4. tidied \in Meta
    BY <2>3, TidiedType
  <2>5. meta' = tidied /\ metaQ' = Persisted(Tail(metaQ), meta, tidied)
    BY <1>6 DEF WrittenClosed
  <2> HIDE DEF tidied
  <2>6. metaQ' \in Seq(Queued)
    BY <2>2, <2>3, <2>4, <2>5, PersistedType
  <2>7. StoreOK'
    BY <2>2, <2>4, <2>5, <2>6 DEF StoreOK, Queued
  <2>8. LifeOK'
    BY <2>1 DEF TypeOK, LifeOK
  <2>9. QED
    BY <2>1, <2>7, <2>8, Unchanged DEF TypeOK
<1>7. QED
  BY <1>1, <1>2, <1>3, <1>4, <1>5, <1>6 DEF WriteCompletes

(* Every step of the daemon keeps the types. *)
LEMMA DaemonStepType ==
  ASSUME TypeOK, DaemonStep
  PROVE  TypeOK'
<1>1. ASSUME NEW caller \in Waiters, WaitTimeout(caller)
      PROVE  TypeOK'
  <2>1. /\ UNCHANGED <<life, store, turns, hold>> /\ UNCHANGED <<harness, history>>
        /\ UNCHANGED <<pending, outcome, ack>> /\ waiters' = waiters \ {caller}
    BY <1>1 DEF WaitTimeout
  <2>2. ViewOK'
    BY <2>1 DEF TypeOK, ViewOK
  <2>3. QED
    BY <2>1, <2>2, Unchanged DEF TypeOK
<1>2. CASE Terminated
  <2>1. /\ closing' = "persisting" /\ runtime' = "none" /\ activeTurn' = 0
        /\ pending' = {} /\ waiters' = {} /\ live' = {} /\ aborted' = {} /\ asked' = {}
        /\ UNCHANGED <<mode, opening, disk>> /\ UNCHANGED <<queue, draining, starts>>
        /\ UNCHANGED hold /\ UNCHANGED <<outcome, ack>> /\ UNCHANGED history
    BY <1>2 DEF Terminated
  <2>2. StoreOK'
    BY <1>2, <2>1, TransitionType DEF Terminated, TypeOK, StoreOK, Queued, Statuses, Thens
  <2>3. LifeOK'
    BY <2>1 DEF TypeOK, LifeOK
  <2>4. TurnsOK'
    BY <2>1 DEF TypeOK, TurnsOK
  <2>5. ViewOK'
    BY <2>1 DEF TypeOK, ViewOK
  <2>6. HarnessOK'
    BY <2>1 DEF HarnessOK
  <2>7. QED
    BY <2>1, <2>2, <2>3, <2>4, <2>5, <2>6, Unchanged DEF TypeOK
<1>3. CASE Shutdown
  <2>1. /\ mode' = "stopping" /\ closing' \in {"none", "interrupting"}
        /\ aborted' \in {live, aborted} /\ UNCHANGED <<runtime, opening>>
        /\ UNCHANGED <<store, turns, hold, view>> /\ UNCHANGED <<live, asked>>
        /\ UNCHANGED history
    BY <1>3 DEF Shutdown
  <2>2. LifeOK'
    BY <2>1 DEF TypeOK, LifeOK
  <2>3. HarnessOK'
    BY <2>1 DEF TypeOK, HarnessOK
  <2>4. QED
    BY <2>1, <2>2, <2>3, Unchanged DEF TypeOK
<1>4. CASE ShutdownClose
  <2>1. CloseBegins
    BY <1>4 DEF ShutdownClose
  <2>2. QED
    BY <2>1, CloseBeginsType
<1>5. CASE ShutdownDone \/ DaemonCrash
  <2>1. GoDown
    BY <1>5 DEF ShutdownDone, DaemonCrash
  <2>2. QED
    BY <2>1, GoDownType
<1>6. QED
  BY <1>1, <1>2, <1>3, <1>4, <1>5, StartTurnType, SpawnType, WriteCompletesType, RestartType
     DEF DaemonStep

(* The types hold initially. *)
LEMMA InitType == Init => TypeOK
<1> SUFFICES ASSUME Init PROVE TypeOK
  OBVIOUS
<1>1. LifeOK
  BY DEF Init, LifeOK
<1>2. StoreOK
  BY DEF Init, StoreOK, NoMeta, Meta, Statuses
<1>3. TurnsOK
  <2>1. draining \in BOOLEAN
    BY Zenon DEF Init
  <2>2. queue = <<>> /\ starts = {} /\ activeTurn = 0
    BY DEF Init
  <2>3. QED
    BY <2>1, <2>2 DEF TurnsOK
<1>4. HoldOK
  <2>1. holding \in BOOLEAN
    BY Zenon DEF Init
  <2>2. held = <<>> /\ flush = <<>>
    BY DEF Init
  <2>3. QED
    BY <2>1, <2>2 DEF HoldOK
<1>5. ViewOK
  <2>1. ack \in BOOLEAN
    BY Zenon DEF Init
  <2>2. pending = {} /\ outcome = "none" /\ waiters = {}
    BY DEF Init
  <2>3. QED
    BY <2>1, <2>2 DEF ViewOK, Outcomes
<1>6. HarnessOK
  BY DEF Init, HarnessOK
<1>7. HistoryOK
  BY BoundAssumption DEF Init, HistoryOK
<1>8. QED
  BY <1>1, <1>2, <1>3, <1>4, <1>5, <1>6, <1>7 DEF TypeOK

(* Every step keeps the types. *)
LEMMA NextType ==
  ASSUME TypeOK, [Next]_vars
  PROVE  TypeOK'
<1>1. CASE UNCHANGED vars
  BY <1>1, Unchanged DEF vars, TypeOK
<1>2. CASE FlushOne
  BY <1>2, FlushType
<1>3. CASE ClientStep
  BY <1>3, ClientStepType
<1>4. CASE HarnessStep
  BY <1>4, HarnessStepType
<1>5. CASE DaemonStep
  BY <1>5, DaemonStepType
<1>6. QED
  BY <1>1, <1>2, <1>3, <1>4, <1>5 DEF Next

(* Every reachable state of the session is well typed. *)
THEOREM TypeCorrect == Spec => []TypeOK
<1>1. TypeOK /\ [Next]_vars => TypeOK'
  BY NextType
<1>2. QED
  BY InitType, <1>1, PTL DEF Spec

-----------------------------------------------------------------------------
(* The status, the active turn and its waiters *)

(***************************************************************************)
(* RunningIffActive and WaitersReleased are not inductive as they stand:   *)
(* createSession and resumeSession set a status without looking at the     *)
(* active turn.  What makes that right is that there is no active turn     *)
(* without a runtime, and no runtime while one is being started; and a     *)
(* daemon that is down has nothing left to do.                             *)
(***************************************************************************)
Down == /\ runtime = "none" /\ opening = "none" /\ closing = "none"
        /\ metaQ = <<>> /\ flush = <<>> /\ starts = {} /\ activeTurn = 0 /\ waiters = {}

Shape ==
  /\ runtime = "none" => activeTurn = 0
  /\ opening # "none" => runtime = "none"
  /\ meta.status = "none" => runtime = "none"
  /\ mode = "down" => Down

RunInv == Shape /\ WaitersReleased /\ RunningIffActive

(* What most steps do to these fields: end the turn, or leave it. *)
Effect ==
  \/ activeTurn' = 0 /\ waiters' = {} /\ meta'.status \in {"idle", "error"}
  \/ activeTurn' = activeTurn /\ waiters' = waiters /\ meta'.status = meta.status

(* An event that leaves the run invariant's relation to status and turn intact preserves it. *)
LEMMA EffectRun ==
  ASSUME RunInv, Effect, mode # "down", mode' # "down",
         runtime' = runtime \/ (runtime = "live" /\ runtime' = "dead"),
         opening' = "none" \/ opening # "none"
  PROVE  RunInv'
<1>1. Shape'
  BY DEF RunInv, Shape, Effect
<1>2. WaitersReleased' /\ RunningIffActive'
  BY DEF RunInv, WaitersReleased, RunningIffActive, Effect
<1>3. QED
  BY <1>1, <1>2 DEF RunInv

(* What an event may do to status, active turn, waiters and writes. *)
LEMMA HandleEventEffect ==
  ASSUME TypeOK, NEW event \in Event, HandleEvent(event)
  PROVE  Effect
<1>1. CASE HandleEnd(event)
  <2>1. meta'.status = "idle"
    BY <1>1, TransitionType DEF HandleEnd, TypeOK, Statuses, Thens
  <2>2. QED
    BY <1>1, <2>1 DEF HandleEnd, Effect
<1>2. CASE HandleError
  <2>1. meta'.status = "error"
    BY <1>2, HandleErrorType
  <2>2. QED
    BY <1>2, <2>1 DEF HandleError, Effect
<1>3. ASSUME NEW asks, HandlePermission(asks)
      PROVE  Effect
  <2>1. meta'.status = meta.status
    BY <1>3, RefreshType DEF HandlePermission, TypeOK
  <2>2. QED
    BY <1>3, <2>1 DEF HandlePermission, Effect
<1>4. QED
  BY <1>1, <1>2, <1>3 DEF HandleEvent

(* The same of an event that may be held. *)
LEMMA ApplyEventEffect ==
  ASSUME TypeOK, NEW event \in Event, ApplyEvent(event)
  PROVE  Effect
<1>1. CASE holding
  BY <1>1 DEF ApplyEvent, Effect, view
<1>2. CASE ~holding
  BY <1>2, HandleEventEffect DEF ApplyEvent
<1>3. QED
  BY <1>1, <1>2

(* An event of the harness preserves the run invariant. *)
LEMMA HarnessEventRun ==
  ASSUME TypeOK, RunInv, NEW event \in Event, HarnessEvent(event)
  PROVE  RunInv'
<1>1. Effect
  BY ApplyEventEffect DEF HarnessEvent
<1>2. UNCHANGED <<mode, opening, runtime>> /\ runtime # "none"
  BY DEF HarnessEvent, EventFrame, Subscribed
<1>3. mode # "down"
  BY <1>2 DEF RunInv, Shape, Down
<1>4. QED
  BY <1>1, <1>2, <1>3, EffectRun

(* A released event preserves the run invariant. *)
LEMMA FlushRun ==
  ASSUME TypeOK, RunInv, FlushOne
  PROVE  RunInv'
<1>1. Head(flush) \in Event
  BY HeadTailProperties DEF TypeOK, HoldOK, FlushOne
<1>2. Effect
  BY <1>1, HandleEventEffect DEF FlushOne
<1>3. UNCHANGED <<mode, opening, runtime>> /\ flush # <<>>
  BY DEF FlushOne, EventFrame
<1>4. mode # "down"
  BY <1>3 DEF RunInv, Shape, Down
<1>5. QED
  BY <1>2, <1>3, <1>4, EffectRun

(* Every step of the harness preserves the run invariant. *)
LEMMA HarnessStepRun ==
  ASSUME TypeOK, RunInv, HarnessStep
  PROVE  RunInv'
<1>1. ASSUME NEW turn \in live, NEW result \in Outcomes, TurnEnd(turn, result)
      PROVE  RunInv'
  <2>1. [kind |-> "end", turn |-> turn, outcome |-> result] \in Event
    BY DEF TypeOK, HarnessOK, Event
  <2>2. QED
    BY <1>1, <2>1, HarnessEventRun DEF TurnEnd
<1>2. ASSUME NEW req \in Perms, Ask(req)
      PROVE  RunInv'
  <2>1. [kind |-> "ask", req |-> req] \in Event
    BY DEF Event
  <2>2. QED
    BY <1>2, <2>1, HarnessEventRun DEF Ask
<1>3. CASE HarnessCrash
  <2>1. runtime = "live" /\ runtime' = "dead" /\ UNCHANGED <<mode, opening>>
    BY <1>3 DEF HarnessCrash
  <2>2. mode # "down"
    BY <2>1 DEF RunInv, Shape, Down
  <2>3. Effect
    <3>1. CASE ApplyEvent([kind |-> "error"])
      <4>1. [kind |-> "error"] \in Event
        BY DEF Event
      <4>2. QED
        BY <3>1, <4>1, ApplyEventEffect
    <3>2. CASE UNCHANGED <<meta, metaQ, activeTurn, view, lastEnded>>
      BY <3>2 DEF Effect, view
    <3>3. CASE HandleError
      <4>1. meta'.status = "error"
        BY <3>3, HandleErrorType
      <4>2. QED
        BY <3>3, <4>1 DEF HandleError, Effect
    <3>4. QED
      BY <1>3, <3>1, <3>2, <3>3 DEF HarnessCrash
  <2>4. QED
    BY <2>1, <2>2, <2>3, EffectRun
<1>4. QED
  BY <1>1, <1>2, <1>3 DEF HarnessStep

(* The first part of closeSession preserves the run invariant. *)
LEMMA CloseBeginsRun ==
  ASSUME TypeOK, RunInv, CloseBegins, mode # "down"
  PROVE  RunInv'
<1>1. UNCHANGED <<mode, runtime, opening, activeTurn>> /\ waiters' = waiters
  BY DEF CloseBegins, view
<1>2. CASE UNCHANGED <<meta, metaQ>>
  <2>1. Effect
    BY <1>1, <1>2 DEF Effect
  <2>2. QED
    BY <1>1, <2>1, EffectRun
<1>3. CASE runtime = "none" /\ Transition("closed", "closed")
  <2>1. meta'.status = "closed"
    BY <1>3, TransitionType DEF TypeOK, Statuses, Thens
  <2>2. activeTurn' = 0 /\ runtime' = "none"
    BY <1>1, <1>3 DEF RunInv, Shape
  <2>3. Shape'
    BY <1>1, <2>2 DEF RunInv, Shape
  <2>4. WaitersReleased' /\ RunningIffActive'
    BY <1>1, <2>1, <2>2 DEF RunInv, WaitersReleased, RunningIffActive
  <2>5. QED
    BY <2>3, <2>4 DEF RunInv
<1>4. QED
  BY <1>2, <1>3 DEF CloseBegins

(* Every request of a client preserves the run invariant. *)
LEMMA ClientStepRun ==
  ASSUME TypeOK, RunInv, ClientStep
  PROVE  RunInv'
<1>1. CASE CreateSession \/ ResumeSession
  <2>1. /\ mode = "up" /\ UNCHANGED <<mode, runtime>>
        /\ activeTurn' = activeTurn /\ waiters' = waiters
    BY <1>1 DEF CreateSession, ResumeSession, Serving, turns, view
  <2>2. runtime = "none"
    BY <1>1 DEF CreateSession, ResumeSession, RunInv, Shape
  <2>3. activeTurn = 0
    BY <2>2 DEF RunInv, Shape
  <2>4. meta'.status = "initializing"
    BY <1>1, TransitionType DEF TypeOK, CreateSession, ResumeSession, Statuses, Thens
  <2>5. Shape'
    BY <2>1, <2>2, <2>3, <2>4 DEF Shape
  <2>6. WaitersReleased' /\ RunningIffActive'
    BY <2>1, <2>3, <2>4 DEF RunInv, WaitersReleased, RunningIffActive
  <2>7. QED
    BY <2>5, <2>6 DEF RunInv
<1>2. CASE PromptQueued \/ PromptStarted
  <2>1. /\ mode = "up" /\ UNCHANGED <<mode, runtime, opening>>
        /\ activeTurn' = activeTurn /\ waiters' = waiters /\ meta' = meta
    BY <1>2 DEF PromptQueued, PromptStarted, Serving, life, store, view
  <2>2. QED
    BY <2>1, EffectRun DEF Effect
<1>3. CASE Interrupt
  <2>1. /\ mode = "up" /\ UNCHANGED <<mode, runtime, opening>>
        /\ activeTurn' = activeTurn /\ waiters' = waiters /\ meta' = meta
    BY <1>3 DEF Interrupt, Serving, life, store, view
  <2>2. QED
    BY <2>1, EffectRun DEF Effect
<1>4. ASSUME NEW req \in Perms, RespondPermission(req)
      PROVE  RunInv'
  <2>1. [kind |-> "answer", req |-> req] \in Event
    BY DEF Event
  <2>2. QED
    BY <1>4, <2>1, HarnessEventRun DEF RespondPermission
<1>5. ASSUME NEW caller \in Waiters, WaitForTurn(caller)
      PROVE  RunInv'
  <2>1. /\ mode = "up" /\ activeTurn # 0 /\ UNCHANGED <<mode, runtime, opening>>
        /\ activeTurn' = activeTurn /\ meta' = meta
    BY <1>5 DEF WaitForTurn, Serving, life, store, turns
  <2>2. QED
    BY <2>1 DEF RunInv, Shape, WaitersReleased, RunningIffActive
<1>6. CASE AcknowledgeAttention
  <2>1. /\ mode = "up" /\ UNCHANGED <<mode, runtime, opening>>
        /\ activeTurn' = activeTurn /\ waiters' = waiters
    BY <1>6 DEF AcknowledgeAttention, Serving, life, turns
  <2>2. meta'.status = meta.status
    BY <1>6, RefreshType DEF AcknowledgeAttention, TypeOK
  <2>3. QED
    BY <2>1, <2>2, EffectRun DEF Effect
<1>7. CASE CloseSession
  <2>1. CloseBegins /\ mode = "up"
    BY <1>7 DEF CloseSession, Serving
  <2>2. QED
    BY <2>1, CloseBeginsRun
<1>8. QED
  BY <1>1, <1>2, <1>3, <1>4, <1>5, <1>6, <1>7 DEF ClientStep

(* An answer or a failure of startTurn preserves the run invariant. *)
LEMMA StartTurnRun ==
  ASSUME TypeOK, RunInv, StartTurnResolves
  PROVE  RunInv'
<1>1. ASSUME NEW start \in starts, StartTurnOk(start)
      PROVE  RunInv'
  <2>1. activeTurn' = start.turn /\ activeTurn' # 0
    <3>1. start.turn \in Turn
      BY DEF TypeOK, TurnsOK, Start
    <3>2. QED
      BY <1>1, <3>1, BoundAssumption DEF StartTurnOk, Turn
  <2>2. /\ runtime = "live" /\ UNCHANGED <<mode, runtime, opening>> /\ waiters' = waiters
    BY <1>1 DEF StartTurnOk, life
  <2>3. meta'.status = "running"
    <3> DEFINE then == IF start.drain THEN "drained" ELSE "running"
    <3>1. then \in Thens
      BY DEF Thens
    <3>2. Transition("running", then)
      BY <1>1 DEF StartTurnOk
    <3> HIDE DEF then
    <3>3. QED
      BY <3>1, <3>2, TransitionType DEF TypeOK, Statuses
  <2>4. QED
    BY <2>1, <2>2, <2>3 DEF RunInv, Shape, Down, WaitersReleased, RunningIffActive
<1>2. ASSUME NEW start \in starts, StartTurnFail(start)
      PROVE  RunInv'
  <2>1. /\ UNCHANGED <<mode, runtime, opening>> /\ activeTurn' = activeTurn
        /\ waiters' = waiters /\ meta' = meta
    BY <1>2 DEF StartTurnFail, life, store, view
  <2>2. mode # "down"
    BY <1>2 DEF RunInv, Shape, Down
  <2>3. QED
    BY <2>1, <2>2, EffectRun DEF Effect
<1>3. QED
  BY <1>1, <1>2 DEF StartTurnResolves

(* A process that came up, or did not, preserves the run invariant. *)
LEMMA SpawnRun ==
  ASSUME TypeOK, RunInv, SpawnResolves
  PROVE  RunInv'
<1>1. /\ mode # "down" /\ opening # "none" /\ opening' = "none" /\ UNCHANGED <<mode>>
      /\ activeTurn' = activeTurn /\ waiters' = waiters /\ runtime' \in {runtime, "live"}
  BY DEF SpawnResolves, SpawnOk, SpawnFail, turns, view
<1>2. activeTurn = 0
  BY <1>1 DEF RunInv, Shape
<1>3. meta'.status \in {"idle", "error"}
  <2>1. CASE SpawnOk
    BY <2>1 DEF SpawnOk, TypeOK, StoreOK, Meta
  <2>2. CASE SpawnFail
    BY <2>2, TransitionType DEF SpawnFail, TypeOK, Statuses, Thens
  <2>3. QED
    BY <2>1, <2>2 DEF SpawnResolves
<1>4. QED
  BY <1>1, <1>2, <1>3 DEF RunInv, Shape, WaitersReleased, RunningIffActive

(* Every continuation of a write preserves the run invariant. *)
LEMMA WriteCompletesRun ==
  ASSUME TypeOK, RunInv, WriteCompletes
  PROVE  RunInv'
<1>1. /\ metaQ # <<>> /\ UNCHANGED <<mode, runtime>>
      /\ opening' = "none" \/ opening # "none"
      /\ activeTurn' = activeTurn /\ waiters' = waiters
  <2>1. CASE WrittenOnly \/ WrittenRefresh \/ WrittenRunning \/ WrittenIdle
    BY <2>1 DEF WrittenOnly, WrittenRefresh, WrittenRunning, WrittenIdle,
                TransitionDone, MetaWritten, life, turns, view
  <2>2. CASE WrittenSpawn \/ WrittenClosed
    BY <2>2 DEF WrittenSpawn, WrittenClosed, TransitionDone, MetaWritten, turns, view
  <2>3. QED
    BY <2>1, <2>2 DEF WriteCompletes
<1>2. mode # "down"
  BY <1>1 DEF RunInv, Shape, Down
<1>3. meta'.status = meta.status
  <2>1. CASE WrittenOnly
    BY <2>1 DEF WrittenOnly
  <2>2. ASSUME NEW then, TransitionDone(then)
        PROVE  meta'.status = meta.status
    BY <2>2, TransitionDoneType DEF TypeOK
  <2>3. CASE WrittenClosed
    BY <2>3, TidiedType DEF WrittenClosed, TypeOK, StoreOK
  <2>4. QED
    BY <2>1, <2>2, <2>3 DEF WriteCompletes, WrittenSpawn, WrittenRefresh, WrittenRunning, WrittenIdle
<1>4. Effect
  BY <1>1, <1>3 DEF Effect
<1>5. QED
  BY <1>1, <1>2, <1>4, EffectRun

(* A daemon that goes down preserves the run invariant. *)
LEMMA GoDownRun ==
  ASSUME GoDown
  PROVE  RunInv'
<1>1. Down' /\ mode' = "down"
  BY DEF GoDown, Down
<1>2. QED
  BY <1>1 DEF RunInv, Shape, Down, WaitersReleased, RunningIffActive

(* Every step of the daemon preserves the run invariant. *)
LEMMA DaemonStepRun ==
  ASSUME TypeOK, RunInv, DaemonStep
  PROVE  RunInv'
<1>1. ASSUME NEW caller \in Waiters, WaitTimeout(caller)
      PROVE  RunInv'
  <2>1. /\ UNCHANGED <<life, store, turns, hold>> /\ caller \in waiters
        /\ waiters' = waiters \ {caller}
    BY <1>1 DEF WaitTimeout
  <2>2. mode # "down"
    BY <2>1 DEF RunInv, Shape, Down
  <2>3. QED
    BY <2>1, <2>2 DEF RunInv, Shape, WaitersReleased, RunningIffActive, life, store, turns
<1>2. CASE Terminated
  <2>1. /\ closing = "terminating" /\ runtime' = "none" /\ activeTurn' = 0 /\ waiters' = {}
        /\ UNCHANGED <<mode, opening>>
    BY <1>2 DEF Terminated
  <2>2. mode # "down"
    BY <2>1 DEF RunInv, Shape, Down
  <2>3. meta'.status = "closed"
    BY <1>2, TransitionType DEF Terminated, TypeOK, Statuses, Thens
  <2>4. QED
    BY <2>1, <2>2, <2>3 DEF RunInv, Shape, WaitersReleased, RunningIffActive
<1>3. CASE Shutdown
  <2>1. /\ mode = "up" /\ mode' = "stopping" /\ UNCHANGED <<runtime, opening>>
        /\ activeTurn' = activeTurn /\ waiters' = waiters /\ meta' = meta
    BY <1>3 DEF Shutdown, store, turns, view
  <2>2. QED
    BY <2>1, EffectRun DEF Effect
<1>4. CASE ShutdownClose
  <2>1. CloseBegins /\ mode # "down"
    BY <1>4 DEF ShutdownClose
  <2>2. QED
    BY <2>1, CloseBeginsRun
<1>5. CASE ShutdownDone \/ DaemonCrash
  <2>1. GoDown
    BY <1>5 DEF ShutdownDone, DaemonCrash
  <2>2. QED
    BY <2>1, GoDownRun
<1>6. CASE Restart
  <2>1. /\ mode = "down" /\ mode' = "up" /\ UNCHANGED <<runtime, opening>>
        /\ activeTurn' = activeTurn /\ waiters' = waiters
    BY <1>6 DEF Restart, turns
  <2>2. Down
    BY <2>1 DEF RunInv, Shape
  <2>3. meta'.status # "running"
    BY <1>6 DEF Restart, TypeOK, StoreOK, Meta
  <2>4. QED
    BY <2>1, <2>2, <2>3 DEF Down, RunInv, Shape, WaitersReleased, RunningIffActive
<1>7. QED
  BY <1>1, <1>2, <1>3, <1>4, <1>5, <1>6, StartTurnRun, SpawnRun, WriteCompletesRun DEF DaemonStep

(* The run invariant holds initially. *)
LEMMA InitRun == Init => RunInv
BY DEF Init, NoMeta, RunInv, Shape, WaitersReleased, RunningIffActive

(* Every step preserves the run invariant. *)
LEMMA NextRun ==
  ASSUME TypeOK, RunInv, [Next]_vars
  PROVE  RunInv'
<1>1. CASE UNCHANGED vars
  <2>1. UNCHANGED <<mode, runtime, opening, closing, meta, metaQ, starts, activeTurn, flush, waiters>>
    BY <1>1 DEF vars, life, store, turns, hold, view
  <2>2. Shape'
    BY <2>1 DEF RunInv, Shape, Down
  <2>3. WaitersReleased' /\ RunningIffActive'
    BY <2>1 DEF RunInv, WaitersReleased, RunningIffActive
  <2>4. QED
    BY <2>2, <2>3 DEF RunInv
<1>2. CASE FlushOne
  BY <1>2, FlushRun
<1>3. CASE ClientStep
  BY <1>3, ClientStepRun
<1>4. CASE HarnessStep
  BY <1>4, HarnessStepRun
<1>5. CASE DaemonStep
  BY <1>5, DaemonStepRun
<1>6. QED
  BY <1>1, <1>2, <1>3, <1>4, <1>5 DEF Next

(***************************************************************************)
(* The inductive invariant of a session's life: no active turn without a   *)
(* runtime and no runtime while one is being started (Shape), waiters only *)
(* with a turn to wait for, and running exactly with an active turn.       *)
(***************************************************************************)
THEOREM RunInvariant == Spec => []RunInv
<1>1. TypeOK /\ RunInv /\ [Next]_vars => RunInv'
  BY NextRun
<1>2. QED
  BY InitRun, TypeCorrect, <1>1, PTL DEF Spec

(* Whatever the environment does, no caller of waitForTurn outlives its turn. *)
THEOREM WaitersAlwaysReleased == Spec => []WaitersReleased
<1>1. RunInv => WaitersReleased
  BY DEF RunInv
<1>2. QED
  BY RunInvariant, <1>1, PTL

(* Whatever the environment does, the status says running exactly while a turn is active. *)
THEOREM StatusAgreesWithTurn == Spec => []RunningIffActive
<1>1. RunInv => RunningIffActive
  BY DEF RunInv
<1>2. QED
  BY RunInvariant, <1>1, PTL

-----------------------------------------------------------------------------
(* What meta.json ends up saying *)

(* transition appends what it leaves in memory. *)
LEMMA TransitionDisk ==
  ASSUME StoreOK, NEW status \in Statuses, NEW then \in Thens, Transition(status, then)
  PROVE  meta' = Settled(disk', metaQ')
<1> DEFINE moved == [meta EXCEPT !.status = status]
<1>1. moved \in Meta /\ metaQ \in Seq(Queued)
  BY MetaUpdate DEF StoreOK, Queued
<1>2. meta' = moved /\ metaQ' = Append(metaQ, Write(moved, then))
  BY DEF Transition
<1> HIDE DEF moved
<1>3. QED
  BY <1>1, <1>2, SettledAppend

(* A refresh appends what it leaves in memory, or leaves memory alone. *)
LEMMA RefreshDisk ==
  ASSUME StoreOK, DiskCurrent, UNCHANGED disk,
         NEW asks, NEW out, NEW seen, Refresh(asks, out, seen)
  PROVE  DiskCurrent'
<1> DEFINE refreshed == Refreshed(meta, asks, out, seen)
<1>1. meta \in Meta /\ metaQ \in Seq(Queued)
  BY DEF StoreOK, Queued
<1>2. refreshed \in Meta
  BY <1>1, RefreshedType
<1>3. refreshed.attn = meta.attn => refreshed = meta
  BY <1>1, RefreshedSame
<1>4. meta' = refreshed /\ metaQ' = Persisted(metaQ, meta, refreshed)
  BY DEF Refresh
<1>5. Settled(disk, metaQ) = meta
  BY DEF DiskCurrent
<1> HIDE DEF refreshed
<1>6. Settled(disk, Persisted(metaQ, meta, refreshed)) = refreshed
  BY <1>1, <1>2, <1>3, <1>5, SettledPersisted
<1>7. QED
  BY <1>4, <1>6 DEF DiskCurrent

(* The exit of the harness appends what it leaves in memory. *)
LEMMA ErrorDisk ==
  ASSUME StoreOK, UNCHANGED disk, HandleError
  PROVE  DiskCurrent'
<1> DEFINE failed    == [meta EXCEPT !.status = "error"]
           refreshed == Refreshed(failed, pending, outcome, FALSE)
           writes    == Append(metaQ, Write(failed, "nothing"))
<1>1. failed \in Meta
  BY MetaUpdate DEF StoreOK, Statuses
<1>2. meta' = refreshed /\ metaQ' = Persisted(writes, failed, refreshed)
  BY DEF HandleError
<1>3. writes \in Seq(Queued) /\ Settled(disk, writes) = failed
  <2>1. metaQ \in Seq(Queued)
    BY DEF StoreOK, Queued
  <2> HIDE DEF failed
  <2>2. Write(failed, "nothing") \in Queued
    BY <1>1, WriteType DEF Thens
  <2>3. writes \in Seq(Queued)
    BY <2>1, <2>2
  <2>4. Settled(disk, writes) = failed
    BY <1>1, <2>1, SettledAppend DEF Thens
  <2>5. QED
    BY <2>3, <2>4
<1>4. refreshed \in Meta /\ (refreshed.attn = failed.attn => refreshed = failed)
  <2> HIDE DEF failed
  <2>1. refreshed \in Meta
    BY <1>1, RefreshedType
  <2>2. refreshed.attn = failed.attn => refreshed = failed
    BY <1>1, RefreshedSame
  <2>3. QED
    BY <2>1, <2>2
<1> HIDE DEF failed, refreshed, writes
<1>5. Settled(disk, Persisted(writes, failed, refreshed)) = refreshed
  BY <1>1, <1>3, <1>4, SettledPersisted
<1>6. QED
  BY <1>2, <1>5 DEF DiskCurrent

(* Every event keeps the file bound to catch up with memory. *)
LEMMA HandleEventDisk ==
  ASSUME TypeOK, DiskCurrent, UNCHANGED disk, NEW event \in Event, HandleEvent(event)
  PROVE  DiskCurrent'
<1>0. StoreOK
  BY DEF TypeOK
<1>1. CASE HandleEnd(event)
  BY <1>0, <1>1, TransitionDisk DEF HandleEnd, Statuses, Thens, DiskCurrent
<1>2. CASE HandleError
  BY <1>0, <1>2, ErrorDisk
<1>3. ASSUME NEW asks, HandlePermission(asks)
      PROVE  DiskCurrent'
  BY <1>0, <1>3, RefreshDisk DEF HandlePermission
<1>4. QED
  BY <1>1, <1>2, <1>3 DEF HandleEvent

(* The same of an event that may be held. *)
LEMMA ApplyEventDisk ==
  ASSUME TypeOK, DiskCurrent, UNCHANGED disk, NEW event \in Event, ApplyEvent(event)
  PROVE  DiskCurrent'
<1>1. CASE holding
  BY <1>1 DEF ApplyEvent, DiskCurrent
<1>2. CASE ~holding
  BY <1>2, HandleEventDisk DEF ApplyEvent
<1>3. QED
  BY <1>1, <1>2

(* Every step of the harness keeps the file bound to catch up with memory. *)
LEMMA HarnessStepDisk ==
  ASSUME TypeOK, DiskCurrent, HarnessStep
  PROVE  DiskCurrent'
<1>1. ASSUME NEW turn \in live, NEW result \in Outcomes, TurnEnd(turn, result)
      PROVE  DiskCurrent'
  <2>1. [kind |-> "end", turn |-> turn, outcome |-> result] \in Event
    BY DEF TypeOK, HarnessOK, Event
  <2>2. QED
    BY <1>1, <2>1, ApplyEventDisk DEF TurnEnd, HarnessEvent, EventFrame
<1>2. ASSUME NEW req \in Perms, Ask(req)
      PROVE  DiskCurrent'
  <2>1. [kind |-> "ask", req |-> req] \in Event
    BY DEF Event
  <2>2. QED
    BY <1>2, <2>1, ApplyEventDisk DEF Ask, HarnessEvent, EventFrame
<1>3. CASE HarnessCrash
  <2>1. UNCHANGED disk
    BY <1>3 DEF HarnessCrash
  <2>2. CASE ApplyEvent([kind |-> "error"])
    <3>1. [kind |-> "error"] \in Event
      BY DEF Event
    <3>2. QED
      BY <2>1, <2>2, <3>1, ApplyEventDisk
  <2>3. CASE UNCHANGED <<meta, metaQ, activeTurn, view, lastEnded>>
    BY <2>1, <2>3 DEF DiskCurrent
  <2>4. CASE HandleError
    BY <2>1, <2>4, ErrorDisk DEF TypeOK
  <2>5. QED
    BY <1>3, <2>2, <2>3, <2>4 DEF HarnessCrash
<1>4. QED
  BY <1>1, <1>2, <1>3 DEF HarnessStep

(* The first part of closeSession keeps the file bound to catch up. *)
LEMMA CloseBeginsDisk ==
  ASSUME TypeOK, DiskCurrent, CloseBegins
  PROVE  DiskCurrent'
<1>1. CASE UNCHANGED <<meta, metaQ>>
  BY <1>1 DEF CloseBegins, DiskCurrent
<1>2. CASE Transition("closed", "closed")
  BY <1>2, TransitionDisk DEF TypeOK, Statuses, Thens, DiskCurrent
<1>3. QED
  BY <1>1, <1>2 DEF CloseBegins

(* Every request of a client keeps the file bound to catch up. *)
LEMMA ClientStepDisk ==
  ASSUME TypeOK, DiskCurrent, ClientStep
  PROVE  DiskCurrent'
<1>1. CASE CreateSession \/ ResumeSession
  BY <1>1, TransitionDisk
     DEF CreateSession, ResumeSession, TypeOK, Statuses, Thens, DiskCurrent
<1>2. CASE PromptQueued \/ PromptStarted \/ Interrupt
  BY <1>2 DEF PromptQueued, PromptStarted, Interrupt, store, DiskCurrent
<1>3. ASSUME NEW req \in Perms, RespondPermission(req)
      PROVE  DiskCurrent'
  <2>1. [kind |-> "answer", req |-> req] \in Event
    BY DEF Event
  <2>2. QED
    BY <1>3, <2>1, ApplyEventDisk DEF RespondPermission, HarnessEvent, EventFrame
<1>4. ASSUME NEW caller \in Waiters, WaitForTurn(caller)
      PROVE  DiskCurrent'
  BY <1>4 DEF WaitForTurn, store, DiskCurrent
<1>5. CASE AcknowledgeAttention
  BY <1>5, RefreshDisk DEF AcknowledgeAttention, TypeOK
<1>6. CASE CloseSession
  BY <1>6, CloseBeginsDisk DEF CloseSession
<1>7. QED
  BY <1>1, <1>2, <1>3, <1>4, <1>5, <1>6 DEF ClientStep

(* A completed write: the rest of the chain still ends in the latest meta. *)
LEMMA MetaWrittenDisk ==
  ASSUME StoreOK, DiskCurrent, NEW then, MetaWritten(then)
  PROVE  Settled(disk', Tail(metaQ)) = meta
<1>1. metaQ # <<>> /\ disk' = Head(metaQ).meta /\ metaQ \in Seq(Queued)
  BY DEF MetaWritten, StoreOK, Queued
<1>2. QED
  BY <1>1, SettledTail DEF DiskCurrent

(* The end of transition keeps the file bound to catch up. *)
LEMMA TransitionDoneDisk ==
  ASSUME StoreOK, DiskCurrent, NEW then, TransitionDone(then)
  PROVE  DiskCurrent'
<1> DEFINE refreshed == Refreshed(meta, pending, outcome, ack)
<1>1. meta \in Meta
  BY DEF StoreOK
<1>2. refreshed \in Meta
  BY <1>1, RefreshedType
<1>3. refreshed.attn = meta.attn => refreshed = meta
  BY <1>1, RefreshedSame
<1>4. meta' = refreshed /\ metaQ' = Persisted(Tail(metaQ), meta, refreshed)
  BY DEF TransitionDone
<1>5. Tail(metaQ) \in Seq(Queued)
  BY MetaWrittenType DEF TransitionDone
<1>6. Settled(disk', Tail(metaQ)) = meta
  BY MetaWrittenDisk DEF TransitionDone
<1> HIDE DEF refreshed
<1>7. Settled(disk', Persisted(Tail(metaQ), meta, refreshed)) = refreshed
  BY <1>1, <1>2, <1>3, <1>5, <1>6, SettledPersisted
<1>8. QED
  BY <1>4, <1>7 DEF DiskCurrent

(* Every continuation of a write keeps the file bound to catch up. *)
LEMMA WriteCompletesDisk ==
  ASSUME TypeOK, DiskCurrent, WriteCompletes
  PROVE  DiskCurrent'
<1>0. StoreOK
  BY DEF TypeOK
<1>1. CASE WrittenOnly
  <2>1. MetaWritten("nothing") /\ metaQ' = Tail(metaQ) /\ meta' = meta
    BY <1>1 DEF WrittenOnly
  <2>2. Settled(disk', Tail(metaQ)) = meta
    BY <1>0, <2>1, MetaWrittenDisk
  <2>3. QED
    BY <2>1, <2>2 DEF DiskCurrent
<1>2. ASSUME NEW then, TransitionDone(then)
      PROVE  DiskCurrent'
  BY <1>0, <1>2, TransitionDoneDisk
<1>3. CASE WrittenClosed
  <2> DEFINE tidied == IF mode = "up" THEN [meta EXCEPT !.attn = "none"] ELSE meta
  <2>1. MetaWritten("closed")
    BY <1>3 DEF WrittenClosed
  <2>2. meta' = tidied /\ metaQ' = Persisted(Tail(metaQ), meta, tidied)
    BY <1>3 DEF WrittenClosed
  <2>3. Tail(metaQ) \in Seq(Queued)
    BY <1>0, <2>1, MetaWrittenType
  <2>4. Settled(disk', Tail(metaQ)) = meta
    BY <1>0, <2>1, MetaWrittenDisk
  <2>5. meta \in Meta
    BY <1>0 DEF StoreOK
  <2>6. tidied \in Meta
    BY <2>5, TidiedType
  <2>7. tidied.attn = meta.attn => tidied = meta
    BY <2>5, TidiedType
  <2> HIDE DEF tidied
  <2>8. Settled(disk', Persisted(Tail(metaQ), meta, tidied)) = tidied
    BY <2>3, <2>4, <2>5, <2>6, <2>7, SettledPersisted
  <2>9. QED
    BY <2>2, <2>8 DEF DiskCurrent
<1>4. QED
  BY <1>1, <1>2, <1>3
     DEF WriteCompletes, WrittenSpawn, WrittenRefresh, WrittenRunning, WrittenIdle

(* Every step of the daemon keeps the file bound to catch up. *)
LEMMA DaemonStepDisk ==
  ASSUME TypeOK, RunInv, DiskCurrent, DaemonStep
  PROVE  DiskCurrent'
<1>1. ASSUME NEW start \in starts, StartTurnOk(start)
      PROVE  DiskCurrent'
  <2> DEFINE then == IF start.drain THEN "drained" ELSE "running"
  <2>1. then \in Thens
    BY DEF Thens
  <2>2. Transition("running", then)
    BY <1>1 DEF StartTurnOk
  <2> HIDE DEF then
  <2>3. QED
    BY <2>1, <2>2, TransitionDisk DEF TypeOK, Statuses, DiskCurrent
<1>2. ASSUME NEW start \in starts, StartTurnFail(start)
      PROVE  DiskCurrent'
  BY <1>2 DEF StartTurnFail, store, DiskCurrent
<1>3. CASE SpawnOk
  <2> DEFINE ready == [meta EXCEPT !.status = "idle", !.handle = TRUE]
  <2>1. ready \in Meta /\ metaQ \in Seq(Queued)
    BY DEF TypeOK, StoreOK, Meta, Statuses, Queued
  <2>2. meta' = ready /\ metaQ' = Append(metaQ, Write(ready, "refresh")) /\ disk' = disk
    BY <1>3 DEF SpawnOk
  <2> HIDE DEF ready
  <2>3. QED
    BY <2>1, <2>2, SettledAppend DEF DiskCurrent, Thens
<1>4. CASE SpawnFail
  BY <1>4, TransitionDisk DEF SpawnFail, TypeOK, Statuses, Thens, DiskCurrent
<1>5. ASSUME NEW caller \in Waiters, WaitTimeout(caller)
      PROVE  DiskCurrent'
  BY <1>5 DEF WaitTimeout, store, DiskCurrent
<1>6. CASE Terminated
  BY <1>6, TransitionDisk DEF Terminated, TypeOK, Statuses, Thens, DiskCurrent
<1>7. CASE Shutdown
  BY <1>7 DEF Shutdown, store, DiskCurrent
<1>8. CASE ShutdownClose
  BY <1>8, CloseBeginsDisk DEF ShutdownClose
<1>9. CASE ShutdownDone \/ DaemonCrash
  <2>1. meta' = disk' /\ metaQ' = <<>>
    BY <1>9 DEF ShutdownDone, DaemonCrash, GoDown
  <2>2. QED
    BY <2>1 DEF DiskCurrent, Settled
<1>10. CASE Restart
  <2>1. mode = "down" /\ disk' = meta' /\ metaQ' = metaQ
    BY <1>10 DEF Restart
  <2>2. metaQ = <<>>
    BY <2>1 DEF RunInv, Shape, Down
  <2>3. QED
    BY <2>1, <2>2 DEF DiskCurrent, Settled
<1>11. QED
  BY <1>1, <1>2, <1>3, <1>4, <1>5, <1>6, <1>7, <1>8, <1>9, <1>10, WriteCompletesDisk
     DEF DaemonStep, StartTurnResolves, SpawnResolves

(* Every step keeps the file bound to catch up with memory. *)
LEMMA NextDisk ==
  ASSUME TypeOK, RunInv, DiskCurrent, [Next]_vars
  PROVE  DiskCurrent'
<1>1. CASE UNCHANGED vars
  BY <1>1 DEF vars, store, DiskCurrent
<1>2. CASE FlushOne
  <2>1. Head(flush) \in Event
    BY <1>2, HeadTailProperties DEF TypeOK, HoldOK, FlushOne
  <2>2. QED
    BY <1>2, <2>1, HandleEventDisk DEF FlushOne, EventFrame
<1>3. CASE ClientStep
  BY <1>3, ClientStepDisk
<1>4. CASE HarnessStep
  BY <1>4, HarnessStepDisk
<1>5. CASE DaemonStep
  BY <1>5, DaemonStepDisk
<1>6. QED
  BY <1>1, <1>2, <1>3, <1>4, <1>5 DEF Next

(***************************************************************************)
(* Whatever the environment does, the writes waiting on metaChain leave    *)
(* meta.json saying what memory says: no change of status or attention is  *)
(* lost to the order of writes, and what a restart reads after an orderly  *)
(* shutdown is what the session was.                                       *)
(***************************************************************************)
THEOREM MetaReachesDisk == Spec => []DiskCurrent
<1>1. Init => DiskCurrent
  BY DEF Init, DiskCurrent, Settled
<1>2. TypeOK /\ RunInv /\ DiskCurrent /\ [Next]_vars => DiskCurrent'
  BY NextDisk
<1>3. QED
  BY <1>1, <1>2, TypeCorrect, RunInvariant, PTL DEF Spec

-----------------------------------------------------------------------------
(* The parts of the inductive invariants *)

(* A write with one of these continuations waits. *)
Awaits(writes, thens) == \E i \in DOMAIN writes : writes[i].then \in thens

(* Nothing of later waits behind a write of first. *)
NoneAfter(writes, first, later) ==
  \A i, j \in DOMAIN writes :
    writes[i].then \in first /\ writes[j].then \in later => j <= i

(* Behind every write of first waits one of later. *)
Followed(writes, first, later) ==
  \A i \in DOMAIN writes : writes[i].then \in first =>
    \E j \in DOMAIN writes : j > i /\ writes[j].then \in later

Opened     == {"running", "drained"}
Refreshers == {"spawn", "refresh", "idle"} \cup Opened

OpeningDue == Awaits(metaQ, Opened)
SpawnDue   == Awaits(metaQ, {"spawn"})
RefreshDue == Awaits(metaQ, Refreshers)
SpawnLast  == NoneAfter(metaQ, {"spawn"}, {"spawn"} \cup Opened)
OneOpening == NoneAfter(metaQ, Opened, Opened)
ClosedDue  == Awaits(metaQ, {"closed"})
OneClosed  == NoneAfter(metaQ, {"closed"}, {"closed"})
ClosedThen == Followed(metaQ, {"closed"}, Refreshers)

(***************************************************************************)
(* The hold: it is there while a prompt is sent or its write waits, and it  *)
(* ends with an active turn; nothing is being sent to a session that        *)
(* closes.                                                                  *)
(***************************************************************************)
HoldInv ==
  /\ closing = "terminating" \/ runtime = "none" => starts = {}
  /\ ~holding => held = <<>>
  /\ holding => flush = <<>>
  /\ holding => starts # {} \/ OpeningDue
  /\ holding /\ starts = {} /\ runtime # "none" => activeTurn # 0

(* A process is asked for by one write, behind every write of an earlier runtime. *)
SpawnInv ==
  /\ meta.status = "none" => opening = "none"
  /\ SpawnDue => opening = "requested"
  /\ opening = "spawning" => ~OpeningDue
  /\ SpawnLast

(* A close waits for one write of its own, and only in its last phase. *)
CloseInv == (ClosedDue => closing = "persisting") /\ OneClosed

WindowInv == HoldInv /\ SpawnInv /\ CloseInv

(* The attention is current or a refresh is due, behind any write that closes. *)
AttentionInv ==
  runtime # "none" =>
    /\ meta.attn = Verdict \/ RefreshDue
    /\ ClosedThen

(* An error that no end of a turn comes after. *)
Fatal(events) ==
  \E i \in DOMAIN events :
    /\ events[i].kind = "error"
    /\ \A j \in DOMAIN events : j > i => events[j].kind # "end"

CrashInv ==
  runtime = "dead" =>
    /\ live = {} /\ starts = {}
    /\ \/ meta.status = "error" /\ ~Arrived(held, {"end"}) /\ ~Arrived(flush, {"end"})
       \/ Fatal(held) \/ Fatal(flush)

(* A session that is closing, closed or stopped has no prompts queued. *)
QueueInv == closing \in {"terminating", "persisting"} \/ runtime = "none" => queue = <<>>

(* Once a session winds down, nothing is on hold, and nothing follows of it. *)
WindDownInv ==
  /\ closing # "none" \/ mode = "stopping" \/ runtime = "none" =>
       queue = <<>> /\ ~holding
  /\ runtime = "none" => flush = <<>>
  /\ opening # "none" \/ meta.status = "none" => closing = "none"
  /\ StatusHasRuntime

(* One prompt is being sent, or one turn is being opened, or neither. *)
OneStart ==
  /\ \A start, other \in starts : start = other
  /\ starts # {} => holding /\ activeTurn = 0 /\ ~OpeningDue /\ (queue = <<>> \/ draining)
  /\ OpeningDue => holding /\ (activeTurn # 0 \/ runtime = "none")
  /\ OneOpening

(* The turn the manager knows of, or is about to. *)
Working == {start.turn : start \in starts} \cup ({activeTurn} \ {0})

Vital == {"end", "error"}

(* The harness works on that turn and on no other, or what it did has arrived. *)
HarnessInv ==
  /\ \/ live \subseteq Working
     \/ /\ closing = "terminating" /\ activeTurn = 0 /\ queue = <<>>
        /\ \A turn, other \in live : turn = other
  /\ runtime # "live" => live = {}
  /\ Arrived(held, Vital) \/ Arrived(flush, Vital) => live = {}
  /\ runtime = "live" => \A start \in starts : start.turn \in live \/ Arrived(held, Vital)
  /\ activeTurn # 0 /\ closing # "terminating" =>
       activeTurn \in live \/ Arrived(held, Vital) \/ Arrived(flush, Vital)

(* Prompts are numbered as they come; turns open and end in that order. *)
OrderInv ==
  /\ lastEnded <= lastOpened /\ lastOpened <= submitted
  /\ activeTurn # 0 => activeTurn = lastOpened
  /\ \A start \in starts : lastOpened < start.turn /\ start.turn <= submitted
  /\ \A i \in DOMAIN queue :
       /\ lastOpened < queue[i] /\ queue[i] <= submitted
       /\ \A start \in starts : start.turn < queue[i]
       /\ \A j \in DOMAIN queue : i < j => queue[i] < queue[j]
  /\ \A i \in DOMAIN held : held[i].kind = "end" =>
       held[i].turn <= lastOpened \/ \E start \in starts : held[i].turn = start.turn
  /\ \A i \in DOMAIN flush : flush[i].kind = "end" => flush[i].turn <= lastOpened

(* What was submitted before a stop is aborted or over. *)
StopInv ==
  /\ StopReachesHarness /\ stopMark <= submitted
  /\ \A i \in DOMAIN queue : stopMark < queue[i]

(* An answer of the user is never put aside over a shutdown. *)
AnswersInv ==
  mode = "stopping" => ~Arrived(held, {"answer"}) /\ ~Arrived(flush, {"answer"})

-----------------------------------------------------------------------------
(* Sequences, index by index *)

(* A sequence with one element more. *)
LEMMA AppendAt ==
  ASSUME NEW S, NEW seq \in Seq(S), NEW element \in S
  PROVE  LET longer == Append(seq, element)
         IN  /\ longer \in Seq(S) /\ longer # <<>>
             /\ Len(seq) \in Nat /\ DOMAIN seq = 1..Len(seq)
             /\ DOMAIN longer = 1..(Len(seq) + 1)
             /\ longer[Len(seq) + 1] = element
             /\ \A i \in DOMAIN seq : longer[i] = seq[i]
BY AppendProperties

(* A sequence with its first element less. *)
LEMMA TailAt ==
  ASSUME NEW S, NEW seq \in Seq(S), seq # <<>>
  PROVE  LET rest == Tail(seq)
         IN  /\ rest \in Seq(S) /\ Head(seq) \in S /\ Head(seq) = seq[1]
             /\ Len(seq) \in Nat \ {0} /\ DOMAIN seq = 1..Len(seq)
             /\ DOMAIN rest = 1..(Len(seq) - 1)
             /\ \A i \in DOMAIN rest : rest[i] = seq[i + 1]
             /\ \A i \in DOMAIN seq : i # 1 => i - 1 \in DOMAIN rest /\ seq[i] = rest[i - 1]
BY HeadTailProperties, EmptySeq

(* Two sequences, one after the other. *)
LEMMA ConcatAt ==
  ASSUME NEW S, NEW seq \in Seq(S), NEW more \in Seq(S)
  PROVE  LET both == seq \o more
         IN  /\ both \in Seq(S) /\ Len(seq) \in Nat /\ Len(more) \in Nat
             /\ DOMAIN seq = 1..Len(seq) /\ DOMAIN more = 1..Len(more)
             /\ DOMAIN both = 1..(Len(seq) + Len(more))
             /\ \A i \in DOMAIN seq : both[i] = seq[i]
             /\ \A i \in DOMAIN more : both[Len(seq) + i] = more[i]
             /\ \A i \in DOMAIN both : i \notin DOMAIN seq =>
                  i - Len(seq) \in DOMAIN more /\ both[i] = more[i - Len(seq)]
BY ConcatProperties

-----------------------------------------------------------------------------
(* Writes that wait *)

(* A write appended is one more that waits. *)
LEMMA AwaitsAppend ==
  ASSUME NEW writes \in Seq(Queued), NEW entry \in Queued, NEW thens
  PROVE  Awaits(Append(writes, entry), thens) <=> Awaits(writes, thens) \/ entry.then \in thens
BY AppendAt, TailAt DEF Awaits

(* A write completed is one fewer. *)
LEMMA AwaitsTail ==
  ASSUME NEW writes \in Seq(Queued), writes # <<>>, NEW thens
  PROVE  Awaits(writes, thens) <=> Head(writes).then \in thens \/ Awaits(Tail(writes), thens)
<1> DEFINE rest == Tail(writes)
<1>1. /\ 1 \in DOMAIN writes /\ Head(writes) = writes[1]
      /\ \A i \in DOMAIN rest : i + 1 \in DOMAIN writes /\ rest[i] = writes[i + 1]
      /\ \A i \in DOMAIN writes : i # 1 => i - 1 \in DOMAIN rest /\ writes[i] = rest[i - 1]
  BY TailAt
<1> HIDE DEF rest
<1>2. Awaits(writes, thens) <=> Head(writes).then \in thens \/ Awaits(rest, thens)
  BY <1>1 DEF Awaits
<1>3. QED
  BY <1>2 DEF rest

(* What a refresh writes continues nothing. *)
LEMMA AwaitsPersisted ==
  ASSUME NEW writes \in Seq(Queued), NEW m, NEW refreshed \in Meta, NEW thens, "nothing" \notin thens
  PROVE  Awaits(Persisted(writes, m, refreshed), thens) <=> Awaits(writes, thens)
BY AwaitsAppend, WriteType DEF Persisted, Write, Thens

(* A write of the first kind may be appended; one of the later kind if none of the first waits. *)
LEMMA NoneAfterAppend ==
  ASSUME NEW writes \in Seq(Queued), NEW entry \in Queued, NEW first, NEW later,
         NoneAfter(writes, first, later),
         entry.then \in later => ~Awaits(writes, first)
  PROVE  NoneAfter(Append(writes, entry), first, later)
BY DEF NoneAfter, Awaits

LEMMA NoneAfterTail ==
  ASSUME NEW writes \in Seq(Queued), writes # <<>>, NEW first, NEW later,
         NoneAfter(writes, first, later)
  PROVE  /\ NoneAfter(Tail(writes), first, later)
         /\ Head(writes).then \in first => ~Awaits(Tail(writes), later)
BY DEF NoneAfter, Awaits

LEMMA NoneAfterPersisted ==
  ASSUME NEW writes \in Seq(Queued), NEW m, NEW refreshed \in Meta, NEW first, NEW later,
         "nothing" \notin later, NoneAfter(writes, first, later)
  PROVE  NoneAfter(Persisted(writes, m, refreshed), first, later)
BY NoneAfterAppend, WriteType DEF Persisted, Write, Thens

(* A write that is not of the first kind may be appended; one of later may follow anything. *)
LEMMA FollowedAppend ==
  ASSUME NEW writes \in Seq(Queued), NEW entry \in Queued, NEW first, NEW later,
         entry.then \notin first, Followed(writes, first, later) \/ entry.then \in later
  PROVE  Followed(Append(writes, entry), first, later)
<1> DEFINE longer == Append(writes, entry)
<1>1. /\ Len(writes) \in Nat /\ DOMAIN writes = 1..Len(writes)
      /\ DOMAIN longer = 1..(Len(writes) + 1) /\ longer[Len(writes) + 1] = entry
      /\ \A i \in DOMAIN writes : longer[i] = writes[i]
  BY AppendAt
<1> HIDE DEF longer
<1>2. SUFFICES ASSUME NEW i \in DOMAIN longer, longer[i].then \in first
               PROVE  \E j \in DOMAIN longer : j > i /\ longer[j].then \in later
  BY DEF Followed, longer
<1>3. i \in DOMAIN writes /\ writes[i].then \in first
  BY <1>1, <1>2
<1>4. CASE entry.then \in later
  <2>1. Len(writes) + 1 \in DOMAIN longer /\ Len(writes) + 1 > i
    BY <1>1, <1>3
  <2>2. QED
    BY <1>1, <1>4, <2>1
<1>5. CASE Followed(writes, first, later)
  <2>1. PICK j \in DOMAIN writes : j > i /\ writes[j].then \in later
    BY <1>3, <1>5 DEF Followed
  <2>2. j \in DOMAIN longer /\ longer[j] = writes[j]
    BY <1>1
  <2>3. QED
    BY <2>1, <2>2
<1>6. QED
  BY <1>4, <1>5

LEMMA FollowedTail ==
  ASSUME NEW writes \in Seq(Queued), writes # <<>>, NEW first, NEW later,
         Followed(writes, first, later)
  PROVE  /\ Followed(Tail(writes), first, later)
         /\ Head(writes).then \in first => Awaits(Tail(writes), later)
<1> DEFINE rest == Tail(writes)
<1>1. /\ Head(writes) = writes[1] /\ Len(writes) \in Nat \ {0} /\ DOMAIN writes = 1..Len(writes)
      /\ DOMAIN rest = 1..(Len(writes) - 1)
      /\ \A i \in DOMAIN rest : rest[i] = writes[i + 1]
      /\ \A i \in DOMAIN writes : i # 1 => i - 1 \in DOMAIN rest /\ writes[i] = rest[i - 1]
  BY TailAt
<1> HIDE DEF rest
<1>2. ASSUME NEW i \in DOMAIN writes, writes[i].then \in first
      PROVE  \E j \in DOMAIN rest : j > i - 1 /\ rest[j].then \in later
  <2>1. PICK j \in DOMAIN writes : j > i /\ writes[j].then \in later
    BY <1>2 DEF Followed
  <2>2. j - 1 \in DOMAIN rest /\ rest[j - 1] = writes[j] /\ j - 1 > i - 1
    BY <1>1, <2>1
  <2>3. QED
    BY <2>1, <2>2
<1>3. Followed(rest, first, later)
  <2>1. SUFFICES ASSUME NEW i \in DOMAIN rest, rest[i].then \in first
                 PROVE  \E j \in DOMAIN rest : j > i /\ rest[j].then \in later
    BY DEF Followed
  <2>2. i + 1 \in DOMAIN writes /\ writes[i + 1].then \in first /\ (i + 1) - 1 = i
    BY <1>1, <2>1
  <2>3. QED
    BY <1>2, <2>2
<1>4. Head(writes).then \in first => Awaits(rest, later)
  BY <1>1, <1>2 DEF Awaits
<1>5. QED
  BY <1>3, <1>4 DEF rest

LEMMA FollowedPersisted ==
  ASSUME NEW writes \in Seq(Queued), NEW m, NEW refreshed \in Meta, NEW first, NEW later,
         "nothing" \notin first, Followed(writes, first, later)
  PROVE  Followed(Persisted(writes, m, refreshed), first, later)
BY FollowedAppend, WriteType DEF Persisted, Write, Thens

-----------------------------------------------------------------------------
(* Events that are put aside *)

(* An event arrives at the end. *)
LEMMA ArrivedAppend ==
  ASSUME NEW events \in Seq(Event), NEW event \in Event, NEW kinds
  PROVE  Arrived(Append(events, event), kinds) <=> Arrived(events, kinds) \/ event.kind \in kinds
BY AppendAt, TailAt, ConcatAt DEF Arrived

LEMMA ArrivedTail ==
  ASSUME NEW events \in Seq(Event), events # <<>>, NEW kinds
  PROVE  Arrived(events, kinds) <=> Head(events).kind \in kinds \/ Arrived(Tail(events), kinds)
<1> DEFINE rest == Tail(events)
<1>1. /\ 1 \in DOMAIN events /\ Head(events) = events[1]
      /\ \A i \in DOMAIN rest : i + 1 \in DOMAIN events /\ rest[i] = events[i + 1]
      /\ \A i \in DOMAIN events : i # 1 => i - 1 \in DOMAIN rest /\ events[i] = rest[i - 1]
  BY TailAt
<1> HIDE DEF rest
<1>2. Arrived(events, kinds) <=> Head(events).kind \in kinds \/ Arrived(rest, kinds)
  BY <1>1 DEF Arrived
<1>3. QED
  BY <1>2 DEF rest

LEMMA ArrivedConcat ==
  ASSUME NEW events \in Seq(Event), NEW more \in Seq(Event), NEW kinds
  PROVE  Arrived(events \o more, kinds) <=> Arrived(events, kinds) \/ Arrived(more, kinds)
<1> DEFINE both == events \o more
<1>1. /\ Len(events) \in Nat /\ Len(more) \in Nat
      /\ DOMAIN events = 1..Len(events) /\ DOMAIN more = 1..Len(more)
      /\ DOMAIN both = 1..(Len(events) + Len(more))
      /\ \A i \in DOMAIN events : both[i] = events[i]
      /\ \A i \in DOMAIN more : both[Len(events) + i] = more[i]
      /\ \A i \in DOMAIN both : i \notin DOMAIN events =>
           i - Len(events) \in DOMAIN more /\ both[i] = more[i - Len(events)]
  BY ConcatAt
<1> HIDE DEF both
<1>2. Arrived(both, kinds) => Arrived(events, kinds) \/ Arrived(more, kinds)
  BY <1>1 DEF Arrived
<1>3. Arrived(events, kinds) => Arrived(both, kinds)
  BY <1>1 DEF Arrived
<1>4. Arrived(more, kinds) => Arrived(both, kinds)
  <2>1. SUFFICES ASSUME NEW i \in DOMAIN more, more[i].kind \in kinds
                 PROVE  Arrived(both, kinds)
    BY DEF Arrived
  <2>2. Len(events) + i \in DOMAIN both /\ both[Len(events) + i] = more[i]
    BY <1>1
  <2>3. QED
    BY <2>1, <2>2 DEF Arrived
<1>5. QED
  BY <1>2, <1>3, <1>4 DEF both

LEMMA ArrivedEmpty ==
  ASSUME NEW kinds
  PROVE  ~Arrived(<<>>, kinds)
BY AppendAt, TailAt, ConcatAt DEF Arrived

(* An event that is no end may come after an error, and an error ends all. *)
LEMMA FatalAppend ==
  ASSUME NEW events \in Seq(Event), NEW event \in Event, event.kind # "end",
         Fatal(events) \/ event.kind = "error"
  PROVE  Fatal(Append(events, event))
<1> DEFINE longer == Append(events, event)
<1>1. /\ Len(events) \in Nat /\ DOMAIN events = 1..Len(events)
      /\ DOMAIN longer = 1..(Len(events) + 1) /\ longer[Len(events) + 1] = event
      /\ \A i \in 1..Len(events) : longer[i] = events[i]
  OBVIOUS
<1> HIDE DEF longer
<1>2. CASE event.kind = "error"
  <2>1. Len(events) + 1 \in DOMAIN longer /\ \A j \in DOMAIN longer : ~(j > Len(events) + 1)
    BY <1>1
  <2>2. QED
    BY <1>1, <1>2, <2>1 DEF Fatal, longer
<1>3. CASE Fatal(events)
  <2>1. PICK i \in DOMAIN events :
          events[i].kind = "error" /\ \A j \in DOMAIN events : j > i => events[j].kind # "end"
    BY <1>3 DEF Fatal
  <2>2. i \in DOMAIN longer /\ longer[i].kind = "error"
    BY <1>1, <2>1
  <2>3. ASSUME NEW j \in DOMAIN longer, j > i
        PROVE  longer[j].kind # "end"
    BY <1>1, <2>1, <2>3
  <2>4. QED
    BY <2>2, <2>3 DEF Fatal, longer
<1>4. QED
  BY <1>2, <1>3

LEMMA FatalTail ==
  ASSUME NEW events \in Seq(Event), events # <<>>, Fatal(events)
  PROVE  Fatal(Tail(events)) \/ (Head(events).kind = "error" /\ ~Arrived(Tail(events), {"end"}))
<1> DEFINE rest == Tail(events)
<1>1. /\ Head(events) = events[1] /\ Len(events) \in Nat \ {0} /\ DOMAIN events = 1..Len(events)
      /\ DOMAIN rest = 1..(Len(events) - 1)
      /\ \A i \in DOMAIN rest : rest[i] = events[i + 1]
      /\ \A i \in DOMAIN events : i # 1 => i - 1 \in DOMAIN rest /\ events[i] = rest[i - 1]
  BY TailAt
<1> HIDE DEF rest
<1>2. PICK i \in DOMAIN events : /\ events[i].kind = "error"
                                 /\ \A j \in DOMAIN events : j > i => events[j].kind # "end"
  BY DEF Fatal
<1>3. ASSUME NEW j \in DOMAIN rest, j > i - 1
      PROVE  rest[j].kind # "end"
  BY <1>1, <1>2, <1>3
<1>4. CASE i = 1
  BY <1>1, <1>2, <1>3, <1>4 DEF Arrived, rest
<1>5. CASE i # 1
  <2>1. i - 1 \in DOMAIN rest /\ rest[i - 1].kind = "error"
    BY <1>1, <1>2, <1>5
  <2>2. Fatal(rest)
    BY <1>3, <2>1 DEF Fatal
  <2>3. QED
    BY <2>2 DEF rest
<1>6. QED
  BY <1>4, <1>5

LEMMA FatalEmpty == ~Fatal(<<>>)
BY DEF Fatal

-----------------------------------------------------------------------------
(* What a step does to the writes that wait *)

(* A write with the continuation then is added, or only writes without one. *)
Adds(then) ==
  /\ OpeningDue' <=> OpeningDue \/ then \in Opened
  /\ SpawnDue' <=> SpawnDue \/ then = "spawn"
  /\ ClosedDue' <=> ClosedDue \/ then = "closed"
  /\ RefreshDue' <=> RefreshDue \/ then \in Refreshers
  /\ SpawnLast /\ (then \in {"spawn"} \cup Opened => ~SpawnDue) => SpawnLast'
  /\ OneOpening /\ (then \in Opened => ~OpeningDue) => OneOpening'
  /\ OneClosed /\ (then = "closed" => ~ClosedDue) => OneClosed'
  /\ then \in Refreshers \/ (ClosedThen /\ then # "closed") => ClosedThen'

(* The oldest write, with the continuation then, is gone. *)
Removes(then) ==
  /\ OpeningDue <=> then \in Opened \/ OpeningDue'
  /\ SpawnDue <=> then = "spawn" \/ SpawnDue'
  /\ ClosedDue <=> then = "closed" \/ ClosedDue'
  /\ RefreshDue <=> then \in Refreshers \/ RefreshDue'
  /\ SpawnLast => SpawnLast' /\ (then = "spawn" => ~SpawnDue' /\ ~OpeningDue')
  /\ OneOpening => OneOpening' /\ (then \in Opened => ~OpeningDue')
  /\ OneClosed => OneClosed' /\ (then = "closed" => ~ClosedDue')
  /\ ClosedThen => ClosedThen' /\ (then = "closed" => RefreshDue')

(* The writes do not change. *)
LEMMA SameAdds ==
  ASSUME metaQ' = metaQ
  PROVE  Adds("nothing")
BY DEF Adds, OpeningDue, SpawnDue, RefreshDue, SpawnLast, OneOpening, ClosedDue, OneClosed, ClosedThen, Refreshers, Opened

(* One write is appended. *)
LEMMA AppendAdds ==
  ASSUME metaQ \in Seq(Queued), NEW m \in Meta, NEW then \in Thens,
         metaQ' = Append(metaQ, Write(m, then))
  PROVE  Adds(then)
<1> DEFINE entry == Write(m, then)
<1>1. entry \in Queued /\ entry.then = then /\ metaQ' = Append(metaQ, entry)
  BY WriteType DEF Write
<1> HIDE DEF entry
<1>2. \A thens : Awaits(metaQ', thens) <=> Awaits(metaQ, thens) \/ then \in thens
  BY <1>1, AwaitsAppend
<1>3. \A first, later : NoneAfter(metaQ, first, later) /\ (then \in later => ~Awaits(metaQ, first))
                          => NoneAfter(metaQ', first, later)
  BY <1>1, NoneAfterAppend
<1>4. \A first, later : then \notin first /\ (Followed(metaQ, first, later) \/ then \in later)
                          => Followed(metaQ', first, later)
  BY <1>1, FollowedAppend
<1>5. then \in Refreshers => then \notin {"closed"}
  BY DEF Refreshers, Opened
<1>6. QED
  BY <1>2, <1>3, <1>4, <1>5
     DEF Adds, OpeningDue, SpawnDue, RefreshDue, SpawnLast, OneOpening, ClosedDue, OneClosed, ClosedThen

(* A refresh is persisted, or there is nothing to persist. *)
LEMMA PersistedAdds ==
  ASSUME metaQ \in Seq(Queued), NEW m, NEW refreshed \in Meta,
         metaQ' = Persisted(metaQ, m, refreshed)
  PROVE  Adds("nothing")
<1>1. CASE metaQ' = metaQ
  BY <1>1, SameAdds
<1>2. CASE metaQ' = Append(metaQ, Write(refreshed, "nothing"))
  BY <1>2, AppendAdds DEF Thens
<1>3. QED
  BY <1>1, <1>2 DEF Persisted

(* transition appends its write. *)
LEMMA TransitionAdds ==
  ASSUME StoreOK, NEW status \in Statuses, NEW then \in Thens, Transition(status, then)
  PROVE  Adds(then)
<1> DEFINE moved == [meta EXCEPT !.status = status]
<1>1. moved \in Meta /\ metaQ \in Seq(Queued) /\ metaQ' = Append(metaQ, Write(moved, then))
  BY MetaUpdate DEF StoreOK, Queued, Transition
<1> HIDE DEF moved
<1>2. QED
  BY <1>1, AppendAdds

(* refreshAttention continues nothing. *)
LEMMA RefreshAdds ==
  ASSUME StoreOK, NEW asks, NEW out, NEW seen, Refresh(asks, out, seen)
  PROVE  Adds("nothing")
<1>1. Refreshed(meta, asks, out, seen) \in Meta /\ metaQ \in Seq(Queued)
  BY RefreshedType DEF StoreOK, Queued
<1>2. QED
  BY <1>1, PersistedAdds DEF Refresh

(* Neither does the exit of the harness. *)
LEMMA ErrorAdds ==
  ASSUME StoreOK, HandleError
  PROVE  Adds("nothing")
<1> DEFINE failed    == [meta EXCEPT !.status = "error"]
           refreshed == Refreshed(failed, pending, outcome, FALSE)
           writes    == Append(metaQ, Write(failed, "nothing"))
<1>1. failed \in Meta
  BY MetaUpdate DEF StoreOK, Statuses
<1>2. refreshed \in Meta
  <2> HIDE DEF failed
  <2>1. QED
    BY <1>1, RefreshedType
<1>3. metaQ \in Seq(Queued) /\ Write(failed, "nothing") \in Queued
  <2> HIDE DEF failed
  <2>1. QED
    BY <1>1, WriteType DEF StoreOK, Queued, Thens
<1>4. metaQ' = writes \/ metaQ' = Append(writes, Write(refreshed, "nothing"))
  BY DEF HandleError, Persisted
<1>5. Write(failed, "nothing").then = "nothing" /\ Write(refreshed, "nothing").then = "nothing"
  BY DEF Write
<1>6. writes \in Seq(Queued) /\ Write(refreshed, "nothing") \in Queued
  <2> HIDE DEF failed, refreshed
  <2>1. QED
    BY <1>2, <1>3, WriteType DEF Thens
<1>7. \A thens : "nothing" \notin thens => (Awaits(writes, thens) <=> Awaits(metaQ, thens))
  <2> HIDE DEF failed
  <2>1. QED
    BY <1>3, <1>5, AwaitsAppend
<1>8. \A first, later : "nothing" \notin later /\ NoneAfter(metaQ, first, later)
                          => NoneAfter(writes, first, later)
  <2> HIDE DEF failed
  <2>1. QED
    BY <1>3, <1>5, NoneAfterAppend
<1>9. \A first, later : "nothing" \notin first /\ Followed(metaQ, first, later)
                          => Followed(writes, first, later)
  <2> HIDE DEF failed
  <2>1. QED
    BY <1>3, <1>5, FollowedAppend
<1> HIDE DEF failed, refreshed, writes
<1>10. \A thens : "nothing" \notin thens => (Awaits(metaQ', thens) <=> Awaits(writes, thens))
  <2>1. CASE metaQ' = writes
    BY <2>1
  <2>2. CASE metaQ' = Append(writes, Write(refreshed, "nothing"))
    <3>1. \A thens : Awaits(metaQ', thens) <=> Awaits(writes, thens) \/ "nothing" \in thens
      BY <1>5, <1>6, <2>2, AwaitsAppend
    <3>2. QED
      BY <3>1
  <2>3. QED
    BY <1>4, <2>1, <2>2
<1>11. \A first, later : "nothing" \notin later /\ NoneAfter(writes, first, later)
                           => NoneAfter(metaQ', first, later)
  BY <1>4, <1>5, <1>6, NoneAfterAppend
<1>12. \A first, later : "nothing" \notin first /\ Followed(writes, first, later)
                           => Followed(metaQ', first, later)
  BY <1>4, <1>5, <1>6, FollowedAppend
<1>13. "nothing" \notin Refreshers /\ "nothing" \notin Opened
  BY DEF Refreshers, Opened
<1>14. QED
  BY <1>7, <1>8, <1>9, <1>10, <1>11, <1>12, <1>13
     DEF Adds, OpeningDue, SpawnDue, RefreshDue, SpawnLast, OneOpening, ClosedDue, OneClosed, ClosedThen

(* The end of a turn is written with what drains the queue; other events with nothing. *)
LEMMA EventAdds ==
  ASSUME TypeOK, NEW event \in Event, HandleEvent(event)
  PROVE  /\ event.kind = "end" => Adds("idle")
         /\ event.kind # "end" => Adds("nothing")
<1>1. CASE HandleEnd(event) /\ event.kind = "end"
  BY <1>1, TransitionAdds DEF HandleEnd, TypeOK, Statuses, Thens
<1>2. CASE HandleError /\ event.kind = "error"
  BY <1>2, ErrorAdds DEF TypeOK
<1>3. ASSUME NEW asks, HandlePermission(asks), event.kind # "end"
      PROVE  Adds("nothing")
  BY <1>3, RefreshAdds DEF HandlePermission, TypeOK
<1>4. QED
  BY <1>1, <1>2, <1>3 DEF HandleEvent

(* The first write completes. *)
LEMMA TailRemoves ==
  ASSUME StoreOK, NEW then, MetaWritten(then), metaQ' = Tail(metaQ)
  PROVE  Removes(then)
<1>1. metaQ \in Seq(Queued) /\ metaQ # <<>> /\ Head(metaQ).then = then
  BY DEF StoreOK, Queued, MetaWritten
<1>2. \A thens : Awaits(metaQ, thens) <=> then \in thens \/ Awaits(metaQ', thens)
  BY <1>1, AwaitsTail
<1>3. \A first, later : NoneAfter(metaQ, first, later)
                          => NoneAfter(metaQ', first, later) /\ (then \in first => ~Awaits(metaQ', later))
  BY <1>1, NoneAfterTail
<1>4. \A first, later : Followed(metaQ, first, later)
                          => Followed(metaQ', first, later) /\ (then \in first => Awaits(metaQ', later))
  BY <1>1, FollowedTail
<1>5. Awaits(metaQ', {"spawn"}) => Awaits(metaQ', {"spawn"} \cup Opened)
  BY DEF Awaits
<1>6. Awaits(metaQ', Opened) => Awaits(metaQ', {"spawn"} \cup Opened)
  BY DEF Awaits
<1>7. QED
  BY <1>2, <1>3, <1>4, <1>5, <1>6
     DEF Removes, OpeningDue, SpawnDue, RefreshDue, SpawnLast, OneOpening, ClosedDue, OneClosed, ClosedThen

(* The first write completes, and a refresh follows. *)
LEMMA RefreshRemoves ==
  ASSUME StoreOK, NEW then, MetaWritten(then), NEW m, NEW refreshed \in Meta,
         metaQ' = Persisted(Tail(metaQ), m, refreshed)
  PROVE  Removes(then)
<1>1. metaQ \in Seq(Queued) /\ metaQ # <<>> /\ Head(metaQ).then = then /\ Tail(metaQ) \in Seq(Queued)
  BY MetaWrittenType DEF StoreOK, Queued, MetaWritten
<1> DEFINE rest == Tail(metaQ)
<1>2. \A thens : Awaits(metaQ, thens) <=> then \in thens \/ Awaits(rest, thens)
  BY <1>1, AwaitsTail
<1>3. \A first, later : NoneAfter(metaQ, first, later)
                          => NoneAfter(rest, first, later) /\ (then \in first => ~Awaits(rest, later))
  BY <1>1, NoneAfterTail
<1>4. \A first, later : Followed(metaQ, first, later)
                          => Followed(rest, first, later) /\ (then \in first => Awaits(rest, later))
  BY <1>1, FollowedTail
<1>5. rest \in Seq(Queued) /\ metaQ' = Persisted(rest, m, refreshed)
  BY <1>1
<1> HIDE DEF rest
<1>6. \A thens : "nothing" \notin thens => (Awaits(metaQ', thens) <=> Awaits(rest, thens))
  BY <1>5, AwaitsPersisted
<1>7. \A first, later : "nothing" \notin later /\ NoneAfter(rest, first, later)
                          => NoneAfter(metaQ', first, later)
  BY <1>5, NoneAfterPersisted
<1>8. \A first, later : "nothing" \notin first /\ Followed(rest, first, later)
                          => Followed(metaQ', first, later)
  BY <1>5, FollowedPersisted
<1>9. "nothing" \notin Refreshers /\ "nothing" \notin Opened
  BY DEF Refreshers, Opened
<1>10. Awaits(rest, {"spawn"}) \/ Awaits(rest, Opened) => Awaits(rest, {"spawn"} \cup Opened)
  BY DEF Awaits
<1>11. QED
  BY <1>2, <1>3, <1>4, <1>6, <1>7, <1>8, <1>9, <1>10
     DEF Removes, OpeningDue, SpawnDue, RefreshDue, SpawnLast, OneOpening, ClosedDue, OneClosed, ClosedThen

(* The end of transition. *)
LEMMA TransitionDoneRemoves ==
  ASSUME StoreOK, NEW then, TransitionDone(then)
  PROVE  Removes(then)
<1>1. Refreshed(meta, pending, outcome, ack) \in Meta
  BY RefreshedType DEF StoreOK
<1>2. QED
  BY <1>1, RefreshRemoves DEF TransitionDone

-----------------------------------------------------------------------------
(* What an event does to the turn, the status and the queue *)

LEMMA EventEffect ==
  ASSUME TypeOK, NEW event \in Event, HandleEvent(event)
  PROVE  /\ event.kind = "end" =>
              /\ activeTurn' = 0 /\ meta'.status = "idle"
              /\ lastEnded' = event.turn /\ queue' = queue
         /\ event.kind = "error" =>
              /\ activeTurn' = 0 /\ meta'.status = "error"
              /\ lastEnded' = lastEnded /\ queue' = <<>>
         /\ event.kind \notin Vital =>
              /\ activeTurn' = activeTurn /\ meta'.status = meta.status
              /\ lastEnded' = lastEnded /\ queue' = queue
<1>1. CASE HandleEnd(event) /\ event.kind = "end"
  <2>1. meta'.status = "idle"
    BY <1>1, TransitionType DEF HandleEnd, TypeOK, Statuses, Thens
  <2>2. QED
    BY <1>1, <2>1 DEF HandleEnd, Vital
<1>2. CASE HandleError /\ event.kind = "error"
  <2>1. meta'.status = "error"
    BY <1>2, HandleErrorType
  <2>2. QED
    BY <1>2, <2>1 DEF HandleError, Vital
<1>3. ASSUME NEW asks, HandlePermission(asks), event.kind \in {"ask", "answer"}
      PROVE  /\ activeTurn' = activeTurn /\ meta'.status = meta.status
             /\ lastEnded' = lastEnded /\ queue' = queue
  <2>1. meta'.status = meta.status
    BY <1>3, RefreshType DEF HandlePermission, TypeOK
  <2>2. QED
    BY <1>3, <2>1 DEF HandlePermission
<1>4. QED
  BY <1>1, <1>2, <1>3 DEF HandleEvent, Vital

(* What a step of applyEvent does to an event: put it aside, or handle it. *)
LEMMA AppliedEffect ==
  ASSUME TypeOK, NEW event \in Event, ApplyEvent(event)
  PROVE  \/ /\ holding /\ held' = Append(held, event)
            /\ UNCHANGED <<meta, metaQ, activeTurn, queue, lastEnded, pending, outcome, ack>>
         \/ ~holding /\ held' = held /\ HandleEvent(event)
BY DEF ApplyEvent, view

(* The next event of a released hold. *)
LEMMA FlushEffect ==
  ASSUME TypeOK, FlushOne
  PROVE  /\ Head(flush) \in Event /\ HandleEvent(Head(flush))
         /\ flush # <<>> /\ flush' = Tail(flush)
         /\ UNCHANGED <<opening, closing, mode, disk, draining, submitted, stopMark, lastOpened>>
         /\ UNCHANGED <<runtime, starts, holding, held, live, aborted, asked>>
<1>1. Head(flush) \in Event
  BY HeadTailProperties DEF TypeOK, HoldOK, FlushOne
<1>2. QED
  BY <1>1 DEF FlushOne, EventFrame, harness

-----------------------------------------------------------------------------
(* The windows: what is on hold, and for what *)

(* An event keeps the windows: it ends a turn only if nothing is on hold. *)
LEMMA HandledWindow ==
  ASSUME TypeOK, WindowInv, NEW event \in Event, HandleEvent(event), ~holding,
         UNCHANGED <<opening, closing, runtime, starts, holding, held>>,
         flush' = flush \/ ~holding
  PROVE  WindowInv'
<1>1. Adds("idle") \/ Adds("nothing")
  BY EventAdds
<1>2. meta'.status = "none" => meta.status = "none"
  BY EventEffect, EventType DEF Vital
<1>3. HoldInv'
  BY <1>1 DEF WindowInv, HoldInv, Adds, Opened
<1>4. SpawnInv' /\ CloseInv'
  BY <1>1, <1>2 DEF WindowInv, SpawnInv, CloseInv, Adds, Opened
<1>5. QED
  BY <1>3, <1>4 DEF WindowInv

(* An event of the harness keeps the windows. *)
LEMMA HarnessEventWindow ==
  ASSUME TypeOK, WindowInv, NEW event \in Event, HarnessEvent(event)
  PROVE  WindowInv'
<1>1. UNCHANGED <<opening, closing, runtime, starts, holding, flush>> /\ ApplyEvent(event)
  BY DEF HarnessEvent, EventFrame
<1>2. CASE ~holding
  BY <1>1, <1>2, HandledWindow DEF ApplyEvent
<1>3. CASE holding
  <2>1. held' = Append(held, event) /\ UNCHANGED <<meta, metaQ, activeTurn>>
    BY <1>1, <1>3 DEF ApplyEvent
  <2>2. Adds("nothing")
    BY <2>1, SameAdds
  <2>3. QED
    BY <1>1, <1>3, <2>1, <2>2 DEF WindowInv, HoldInv, SpawnInv, CloseInv, Adds, Opened
<1>4. QED
  BY <1>2, <1>3

(* A step that touches none of it keeps the windows. *)
LEMMA QuietWindow ==
  ASSUME WindowInv, UNCHANGED <<opening, runtime, starts, holding, held, flush, activeTurn>>,
         Adds("nothing"), meta'.status = meta.status,
         closing' = closing \/ (closing = "none" /\ closing' # "terminating")
  PROVE  WindowInv'
BY DEF WindowInv, HoldInv, SpawnInv, CloseInv, Adds, Opened

(* Every step of the harness keeps the windows. *)
LEMMA HarnessStepWindow ==
  ASSUME TypeOK, RunInv, WindowInv, HarnessStep
  PROVE  WindowInv'
<1>1. ASSUME NEW turn \in live, NEW result \in Outcomes, TurnEnd(turn, result)
      PROVE  WindowInv'
  <2>1. [kind |-> "end", turn |-> turn, outcome |-> result] \in Event
    BY DEF TypeOK, HarnessOK, Event
  <2>2. QED
    BY <1>1, <2>1, HarnessEventWindow DEF TurnEnd
<1>2. ASSUME NEW req \in Perms, Ask(req)
      PROVE  WindowInv'
  <2>1. [kind |-> "ask", req |-> req] \in Event
    BY DEF Event
  <2>2. QED
    BY <1>2, <2>1, HarnessEventWindow DEF Ask
<1>3. CASE HarnessCrash
  <2>1. /\ runtime = "live" /\ runtime' = "dead" /\ UNCHANGED <<opening, closing, flush>>
        /\ opening = "none" /\ meta.status # "none"
    BY <1>3 DEF HarnessCrash, RunInv, Shape
  <2>2. CASE starts = {} /\ ApplyEvent([kind |-> "error"]) /\ UNCHANGED <<starts, holding, draining>>
    <3>1. [kind |-> "error"] \in Event
      BY DEF Event
    <3>2. CASE holding
      <4>1. held' = Append(held, [kind |-> "error"]) /\ UNCHANGED <<meta, metaQ, activeTurn>>
        BY <2>2, <3>2 DEF ApplyEvent
      <4>2. Adds("nothing")
        BY <4>1, SameAdds
      <4>3. QED
        BY <2>1, <2>2, <3>2, <4>1, <4>2 DEF WindowInv, HoldInv, SpawnInv, CloseInv, Adds, Opened
    <3>3. CASE ~holding
      <4>1. HandleEvent([kind |-> "error"]) /\ held' = held
        BY <2>2, <3>3 DEF ApplyEvent
      <4>2. Adds("nothing")
        BY <3>1, <4>1, EventAdds
      <4>3. QED
        BY <2>1, <2>2, <3>3, <4>1, <4>2 DEF WindowInv, HoldInv, SpawnInv, CloseInv, Adds, Opened
    <3>4. QED
      BY <3>2, <3>3
  <2>3. CASE starts # {} /\ AbandonStarts(starts) /\ Adds("nothing")
    <3>1. starts' = {} /\ holding' = FALSE /\ held' = <<>>
      BY <2>3 DEF AbandonStarts
    <3>2. QED
      BY <2>1, <2>3, <3>1 DEF WindowInv, HoldInv, SpawnInv, CloseInv, Adds, Opened
  <2>4. CASE UNCHANGED <<meta, metaQ, activeTurn, view, lastEnded>>
    BY <1>3, <2>2, <2>3, <2>4, SameAdds DEF HarnessCrash
  <2>5. CASE HandleError
    BY <1>3, <2>2, <2>3, <2>5, ErrorAdds DEF HarnessCrash, TypeOK
  <2>6. QED
    BY <1>3, <2>2, <2>4, <2>5 DEF HarnessCrash
<1>4. QED
  BY <1>1, <1>2, <1>3 DEF HarnessStep

(* The first part of closeSession keeps the windows: nothing is being sent any more. *)
LEMMA CloseBeginsWindow ==
  ASSUME TypeOK, WindowInv, CloseBegins, closing # "persisting"
  PROVE  WindowInv'
<1>1. UNCHANGED <<runtime, opening, activeTurn, flush>>
  BY DEF CloseBegins
<1>2. CASE runtime # "none" /\ AbandonStarts(starts) /\ UNCHANGED <<meta, metaQ>>
  <2>1. starts' = {} /\ (starts = {} => UNCHANGED <<holding, held>>)
          /\ (starts # {} => holding' = FALSE /\ held' = <<>>)
    BY <1>2 DEF AbandonStarts
  <2>2. Adds("nothing")
    BY <1>2, SameAdds
  <2>3. QED
    BY <1>1, <1>2, <2>1, <2>2 DEF WindowInv, HoldInv, SpawnInv, CloseInv, Adds, Opened
<1>3. CASE /\ runtime = "none" /\ Transition("closed", "closed") /\ closing' = "persisting"
           /\ UNCHANGED <<draining, starts, holding, held>>
  <2>1. meta'.status = "closed" /\ Adds("closed")
    BY <1>3, TransitionType, TransitionAdds DEF TypeOK, Statuses, Thens
  <2>2. QED
    BY <1>1, <1>3, <2>1 DEF WindowInv, HoldInv, SpawnInv, CloseInv, Adds, Opened
<1>4. QED
  BY <1>2, <1>3 DEF CloseBegins

(* Every request of a client keeps the windows. *)
LEMMA ClientStepWindow ==
  ASSUME TypeOK, RunInv, WindowInv, flush = <<>>, ClientStep
  PROVE  WindowInv'
<1>1. CASE CreateSession \/ ResumeSession
  <2>1. /\ opening = "none" /\ opening' = "requested" /\ runtime = "none"
        /\ UNCHANGED <<runtime, closing, starts, activeTurn, holding, held, flush>>
    BY <1>1 DEF CreateSession, ResumeSession, RunInv, Shape, WindowInv, SpawnInv, turns, hold
  <2>2. meta'.status = "initializing" /\ Adds("spawn")
    BY <1>1, TransitionType, TransitionAdds
       DEF TypeOK, CreateSession, ResumeSession, Statuses, Thens
  <2>3. QED
    BY <2>1, <2>2 DEF WindowInv, HoldInv, SpawnInv, CloseInv, Adds, Opened
<1>2. CASE PromptQueued \/ Interrupt
  <2>1. UNCHANGED <<opening, closing, runtime, starts, holding, held, flush, activeTurn, meta, metaQ>>
    BY <1>2 DEF PromptQueued, Interrupt, life, store, hold
  <2>2. Adds("nothing")
    BY <2>1, SameAdds
  <2>3. QED
    BY <2>1, <2>2, QuietWindow
<1>3. CASE PromptStarted
  <2>1. /\ UNCHANGED <<opening, closing, runtime, flush, activeTurn, meta, metaQ>>
        /\ runtime # "none"
        /\ IF closing = "terminating"
           THEN holding' = FALSE /\ held' = <<>> /\ UNCHANGED starts
           ELSE Send(submitted + 1, FALSE)
    BY <1>3 DEF PromptStarted, life, store
  <2>2. Adds("nothing")
    BY <2>1, SameAdds
  <2>3. CASE closing = "terminating"
    BY <2>1, <2>2, <2>3 DEF WindowInv, HoldInv, SpawnInv, CloseInv, Adds, Opened
  <2>4. CASE closing # "terminating"
    <3>1. starts' # {} /\ holding' = TRUE /\ held' = <<>>
      BY <2>1, <2>4 DEF Send
    <3>2. QED
      BY <2>1, <2>2, <2>4, <3>1 DEF WindowInv, HoldInv, SpawnInv, CloseInv, Adds, Opened
  <2>5. QED
    BY <2>3, <2>4
<1>4. ASSUME NEW req \in Perms, RespondPermission(req)
      PROVE  WindowInv'
  <2>1. [kind |-> "answer", req |-> req] \in Event
    BY DEF Event
  <2>2. QED
    BY <1>4, <2>1, HarnessEventWindow DEF RespondPermission
<1>5. ASSUME NEW caller \in Waiters, WaitForTurn(caller)
      PROVE  WindowInv'
  <2>1. UNCHANGED <<opening, closing, runtime, starts, holding, held, flush, activeTurn, meta, metaQ>>
    BY <1>5 DEF WaitForTurn, life, store, turns, hold
  <2>2. Adds("nothing")
    BY <2>1, SameAdds
  <2>3. QED
    BY <2>1, <2>2, QuietWindow
<1>6. CASE AcknowledgeAttention
  <2>1. UNCHANGED <<opening, closing, runtime, starts, holding, held, flush, activeTurn>>
    BY <1>6 DEF AcknowledgeAttention, life, turns, hold
  <2>2. Adds("nothing") /\ meta'.status = meta.status
    BY <1>6, RefreshAdds, RefreshType DEF AcknowledgeAttention, TypeOK
  <2>3. QED
    BY <2>1, <2>2, QuietWindow
<1>7. CASE CloseSession
  BY <1>7, CloseBeginsWindow DEF CloseSession
<1>8. QED
  BY <1>1, <1>2, <1>3, <1>4, <1>5, <1>6, <1>7 DEF ClientStep

(* An answer or a failure of startTurn keeps the windows. *)
LEMMA StartTurnWindow ==
  ASSUME TypeOK, RunInv, WindowInv, flush = <<>>, StartTurnResolves
  PROVE  WindowInv'
<1>1. ASSUME NEW start \in starts, StartTurnOk(start)
      PROVE  WindowInv'
  <2> DEFINE then == IF start.drain THEN "drained" ELSE "running"
  <2>1. /\ runtime = "live" /\ opening = "none" /\ starts' = starts \ {start}
        /\ activeTurn' = start.turn /\ activeTurn' # 0
        /\ UNCHANGED <<opening, closing, runtime, holding, held, flush>>
    <3>1. start.turn \in Turn
      BY DEF TypeOK, TurnsOK, Start
    <3>2. QED
      BY <1>1, <3>1 DEF StartTurnOk, RunInv, Shape, life, hold, Turn
  <2>2. then \in Opened /\ then \in Thens /\ Transition("running", then)
    BY <1>1 DEF StartTurnOk, Opened, Thens
  <2> HIDE DEF then
  <2>3. meta'.status = "running" /\ Adds(then)
    BY <2>2, TransitionType, TransitionAdds DEF TypeOK, Statuses
  <2>4. QED
    BY <2>1, <2>2, <2>3 DEF WindowInv, HoldInv, SpawnInv, CloseInv, Adds, Opened
<1>2. ASSUME NEW start \in starts, StartTurnFail(start)
      PROVE  WindowInv'
  <2>1. /\ AbandonStarts({start})
        /\ UNCHANGED <<opening, closing, runtime, flush, activeTurn, meta, metaQ>>
    BY <1>2 DEF StartTurnFail, life, store
  <2>2. starts' \subseteq starts /\ holding' = FALSE /\ held' = <<>>
    BY <2>1 DEF AbandonStarts
  <2>3. Adds("nothing")
    BY <2>1, SameAdds
  <2>4. QED
    BY <2>1, <2>2, <2>3 DEF WindowInv, HoldInv, SpawnInv, CloseInv, Adds, Opened
<1>3. QED
  BY <1>1, <1>2 DEF StartTurnResolves

(* The new process is recorded with a refresh behind it. *)
LEMMA SpawnOkAdds ==
  ASSUME TypeOK, SpawnOk
  PROVE  meta'.status = "idle" /\ meta'.attn = meta.attn /\ Adds("refresh")
<1> DEFINE ready == [meta EXCEPT !.status = "idle", !.handle = TRUE]
<1>1. ready \in Meta /\ ready.status = "idle" /\ ready.attn = meta.attn /\ metaQ \in Seq(Queued)
  BY DEF TypeOK, StoreOK, Meta, Statuses, Queued
<1>2. meta' = ready /\ metaQ' = Append(metaQ, Write(ready, "refresh"))
  BY DEF SpawnOk
<1> HIDE DEF ready
<1>3. QED
  BY <1>1, <1>2, AppendAdds DEF Thens

(* A process that came up, or did not, finds nothing on hold. *)
LEMMA SpawnWindow ==
  ASSUME TypeOK, RunInv, WindowInv, flush = <<>>, SpawnResolves
  PROVE  WindowInv'
<1>1. /\ opening = "spawning" /\ opening' = "none" /\ runtime = "none"
      /\ UNCHANGED <<closing, starts, holding, held, flush, activeTurn>>
  BY DEF SpawnResolves, SpawnOk, SpawnFail, RunInv, Shape, turns, hold
<1>2. starts = {} /\ ~OpeningDue /\ ~SpawnDue /\ ~holding
  BY <1>1 DEF WindowInv, HoldInv, SpawnInv, CloseInv
<1>3. meta'.status # "none" /\ Adds("refresh")
  BY SpawnOkAdds, TransitionType, TransitionAdds
     DEF SpawnResolves, SpawnFail, TypeOK, Statuses, Thens
<1>4. QED
  BY <1>1, <1>2, <1>3 DEF WindowInv, HoldInv, SpawnInv, CloseInv, Adds, Opened

(* Every continuation of a write keeps the windows; that of an opened turn ends the hold. *)
LEMMA WriteCompletesWindow ==
  ASSUME TypeOK, WindowInv, flush = <<>>, WriteCompletes
  PROVE  WindowInv'
<1>0. StoreOK
  BY DEF TypeOK
<1>1. CASE WrittenOnly
  <2>1. UNCHANGED <<opening, closing, runtime, starts, holding, held, flush, activeTurn, meta>>
    BY <1>1 DEF WrittenOnly, life, turns, hold
  <2>2. Removes("nothing")
    BY <1>0, <1>1, TailRemoves DEF WrittenOnly
  <2>3. QED
    BY <2>1, <2>2 DEF WindowInv, HoldInv, SpawnInv, CloseInv, Removes, Opened
<1>2. CASE WrittenSpawn
  <2>1. /\ UNCHANGED <<closing, runtime, starts, holding, held, flush, activeTurn>>
        /\ opening = "requested" /\ opening' = "spawning" /\ meta'.status = meta.status
    BY <1>0, <1>2, TransitionDoneType DEF WrittenSpawn, turns, hold
  <2>2. Removes("spawn")
    BY <1>0, <1>2, TransitionDoneRemoves DEF WrittenSpawn
  <2>3. QED
    BY <2>1, <2>2 DEF WindowInv, HoldInv, SpawnInv, CloseInv, Removes, Opened
<1>3. CASE WrittenRefresh
  <2>1. /\ UNCHANGED <<opening, closing, runtime, starts, holding, held, flush, activeTurn>>
        /\ meta'.status = meta.status
    BY <1>0, <1>3, TransitionDoneType DEF WrittenRefresh, life, turns, hold
  <2>2. Removes("refresh")
    BY <1>0, <1>3, TransitionDoneRemoves DEF WrittenRefresh
  <2>3. QED
    BY <2>1, <2>2 DEF WindowInv, HoldInv, SpawnInv, CloseInv, Removes, Opened
<1>4. CASE WrittenRunning
  <2>1. /\ UNCHANGED <<opening, closing, runtime, starts, activeTurn>>
        /\ holding' = FALSE /\ held' = <<>> /\ flush' = held
    BY <1>4 DEF WrittenRunning, life
  <2>2. meta'.status = meta.status /\ (Removes("running") \/ Removes("drained"))
    BY <1>0, <1>4, TransitionDoneType, TransitionDoneRemoves DEF WrittenRunning
  <2>3. QED
    BY <2>1, <2>2 DEF WindowInv, HoldInv, SpawnInv, CloseInv, Removes, Opened
<1>5. CASE WrittenIdle
  <2>1. /\ UNCHANGED <<opening, closing, runtime, flush, activeTurn>>
        /\ \/ UNCHANGED <<starts, holding, held>>
           \/ CanDrain /\ closing # "terminating" /\ Send(Head(queue), TRUE)
           \/ CanDrain /\ closing = "terminating" /\ holding' = FALSE /\ held' = <<>> /\ UNCHANGED starts
    BY <1>5 DEF WrittenIdle, life
  <2>2. meta'.status = meta.status /\ Removes("idle")
    BY <1>0, <1>5, TransitionDoneType, TransitionDoneRemoves DEF WrittenIdle
  <2>3. CASE UNCHANGED <<starts, holding, held>>
    BY <2>1, <2>2, <2>3 DEF WindowInv, HoldInv, SpawnInv, CloseInv, Removes, Opened
  <2>4. CASE CanDrain /\ closing # "terminating" /\ Send(Head(queue), TRUE)
    <3>1. starts' # {} /\ holding' = TRUE /\ held' = <<>> /\ runtime # "none"
      BY <2>4 DEF Send, CanDrain
    <3>2. QED
      BY <2>1, <2>2, <2>4, <3>1 DEF WindowInv, HoldInv, SpawnInv, CloseInv, Removes, Opened
  <2>5. CASE closing = "terminating" /\ holding' = FALSE /\ held' = <<>> /\ UNCHANGED starts
    BY <2>1, <2>2, <2>5 DEF WindowInv, HoldInv, SpawnInv, CloseInv, Removes, Opened
  <2>6. QED
    BY <2>1, <2>3, <2>4, <2>5
<1>6. CASE WrittenClosed
  <2> DEFINE tidied == IF mode = "up" THEN [meta EXCEPT !.attn = "none"] ELSE meta
  <2>1. /\ UNCHANGED <<opening, runtime, starts, holding, held, flush, activeTurn>>
        /\ closing' = "none" /\ MetaWritten("closed")
        /\ meta' = tidied /\ metaQ' = Persisted(Tail(metaQ), meta, tidied)
    BY <1>6 DEF WrittenClosed, turns, hold
  <2>2. tidied \in Meta /\ tidied.status = meta.status
    BY <1>0, TidiedType DEF StoreOK
  <2> HIDE DEF tidied
  <2>3. Removes("closed")
    BY <1>0, <2>1, <2>2, RefreshRemoves
  <2>4. QED
    BY <2>1, <2>2, <2>3 DEF WindowInv, HoldInv, SpawnInv, CloseInv, Removes, Opened
<1>7. QED
  BY <1>1, <1>2, <1>3, <1>4, <1>5, <1>6 DEF WriteCompletes

(* A daemon that is gone has nothing on hold. *)
LEMMA GoDownWindow ==
  ASSUME GoDown
  PROVE  WindowInv'
<1>1. /\ starts' = {} /\ holding' = FALSE /\ held' = <<>> /\ flush' = <<>>
      /\ opening' = "none" /\ metaQ' = <<>>
  BY DEF GoDown
<1>2. DOMAIN metaQ' = {}
  BY <1>1
<1>3. ~SpawnDue' /\ ~OpeningDue' /\ ~ClosedDue' /\ SpawnLast' /\ OneClosed'
  BY <1>2 DEF SpawnDue, OpeningDue, ClosedDue, SpawnLast, OneClosed, Awaits, NoneAfter
<1>4. QED
  BY <1>1, <1>3 DEF WindowInv, HoldInv, SpawnInv, CloseInv

(* Every step of the daemon keeps the windows. *)
LEMMA DaemonStepWindow ==
  ASSUME TypeOK, RunInv, WindowInv, flush = <<>>, DaemonStep
  PROVE  WindowInv'
<1>1. ASSUME NEW caller \in Waiters, WaitTimeout(caller)
      PROVE  WindowInv'
  <2>1. UNCHANGED <<opening, closing, runtime, starts, holding, held, flush, activeTurn, meta, metaQ>>
    BY <1>1 DEF WaitTimeout, life, store, turns, hold
  <2>2. Adds("nothing")
    BY <2>1, SameAdds
  <2>3. QED
    BY <2>1, <2>2, QuietWindow
<1>2. CASE Terminated
  <2>1. /\ closing = "terminating" /\ closing' = "persisting" /\ runtime' = "none" /\ activeTurn' = 0
        /\ UNCHANGED <<opening, starts, holding, held, flush>>
    BY <1>2 DEF Terminated, hold
  <2>2. meta'.status = "closed" /\ Adds("closed")
    BY <1>2, TransitionType, TransitionAdds DEF Terminated, TypeOK, Statuses, Thens
  <2>3. QED
    BY <2>1, <2>2 DEF WindowInv, HoldInv, SpawnInv, CloseInv, Adds, Opened
<1>3. CASE Shutdown
  <2>1. /\ UNCHANGED <<opening, runtime, starts, holding, held, flush, activeTurn, meta, metaQ>>
        /\ closing = "none" /\ closing' # "terminating"
    BY <1>3 DEF Shutdown, store, turns, hold
  <2>2. Adds("nothing")
    BY <2>1, SameAdds
  <2>3. QED
    BY <2>1, <2>2, QuietWindow
<1>4. CASE ShutdownClose
  BY <1>4, CloseBeginsWindow DEF ShutdownClose
<1>5. CASE ShutdownDone \/ DaemonCrash
  BY <1>5, GoDownWindow DEF ShutdownDone, DaemonCrash
<1>6. CASE Restart
  <2>1. UNCHANGED <<opening, closing, runtime, starts, holding, held, flush, activeTurn, metaQ>>
    BY <1>6 DEF Restart, turns, hold
  <2>2. Adds("nothing")
    BY <2>1, SameAdds
  <2>3. opening = "none"
    BY <1>6 DEF Restart, RunInv, Shape, Down
  <2>4. QED
    BY <2>1, <2>2, <2>3 DEF WindowInv, HoldInv, SpawnInv, CloseInv, Adds, Opened
<1>7. QED
  BY <1>1, <1>2, <1>3, <1>4, <1>5, <1>6, StartTurnWindow, SpawnWindow, WriteCompletesWindow
     DEF DaemonStep

(* Every step keeps the windows. *)
LEMMA NextWindow ==
  ASSUME TypeOK, RunInv, WindowInv, [Next]_vars
  PROVE  WindowInv'
<1>1. CASE UNCHANGED vars
  <2>1. UNCHANGED <<opening, closing, runtime, starts, holding, held, flush, activeTurn, meta, metaQ>>
    BY <1>1 DEF vars, life, store, turns, hold
  <2>2. QED
    BY <2>1, SameAdds, QuietWindow
<1>2. CASE FlushOne
  <2>1. ~holding
    BY <1>2, FlushEffect DEF WindowInv, HoldInv
  <2>2. QED
    BY <1>2, <2>1, FlushEffect, HandledWindow
<1>3. CASE flush = <<>> /\ ClientStep
  BY <1>3, ClientStepWindow
<1>4. CASE HarnessStep
  BY <1>4, HarnessStepWindow
<1>5. CASE flush = <<>> /\ DaemonStep
  BY <1>5, DaemonStepWindow
<1>6. QED
  BY <1>1, <1>2, <1>3, <1>4, <1>5 DEF Next

LEMMA InitWindow == Init => WindowInv
<1> SUFFICES ASSUME Init PROVE WindowInv
  OBVIOUS
<1>1. metaQ = <<>> /\ starts = {} /\ holding = FALSE /\ held = <<>> /\ flush = <<>> /\ opening = "none"
  BY DEF Init
<1>2. DOMAIN metaQ = {}
  BY <1>1
<1>3. ~SpawnDue /\ ~OpeningDue /\ ~ClosedDue /\ SpawnLast /\ OneClosed
  BY <1>2 DEF SpawnDue, OpeningDue, ClosedDue, SpawnLast, OneClosed, Awaits, NoneAfter
<1>4. QED
  BY <1>1, <1>3 DEF WindowInv, HoldInv, SpawnInv, CloseInv

(***************************************************************************)
(* Whatever the environment does: what is on hold belongs to a prompt that *)
(* is being sent or a turn whose write waits, the events of a hold are     *)
(* applied before the next one begins, and a process that comes up finds   *)
(* nothing left of the runtime before it.                                  *)
(***************************************************************************)
THEOREM WindowInvariant == Spec => []WindowInv
<1>1. TypeOK /\ RunInv /\ WindowInv /\ [Next]_vars => WindowInv'
  BY NextWindow
<1>2. QED
  BY InitWindow, <1>1, TypeCorrect, RunInvariant, PTL DEF Spec

-----------------------------------------------------------------------------
(* The attention shown *)

(* With a runtime, a refresh brings the attention to the policy's verdict. *)
LEMMA RefreshVerdict ==
  ASSUME StoreOK, runtime # "none", NEW asks, NEW out, NEW seen, Refresh(asks, out, seen)
  PROVE  meta'.attn = ResolveReason(meta'.status, asks, out, seen)
<1> DEFINE refreshed == Refreshed(meta, asks, out, seen)
<1>1. meta \in Meta
  BY DEF StoreOK
<1>2. refreshed.attn = ResolveReason(meta.status, asks, out, seen) /\ refreshed.status = meta.status
  BY <1>1 DEF Refreshed, Meta
<1>3. meta' = refreshed
  BY DEF Refresh
<1> HIDE DEF refreshed
<1>4. QED
  BY <1>2, <1>3

(* So does the exit of the harness. *)
LEMMA ErrorVerdict ==
  ASSUME StoreOK, runtime # "none", HandleError
  PROVE  meta'.attn = Verdict'
<1> DEFINE failed    == [meta EXCEPT !.status = "error"]
           refreshed == Refreshed(failed, pending, outcome, FALSE)
<1>1. failed \in Meta /\ failed.status = "error"
  BY MetaUpdate DEF StoreOK, Statuses
<1>2. refreshed.attn = ResolveReason("error", pending, outcome, FALSE) /\ refreshed.status = "error"
  <2> HIDE DEF failed
  <2>1. QED
    BY <1>1 DEF Refreshed, Meta
<1>3. meta' = refreshed /\ ack' = FALSE /\ pending' = pending /\ outcome' = outcome
  BY DEF HandleError
<1> HIDE DEF refreshed
<1>4. QED
  BY <1>2, <1>3 DEF Verdict

(* The end of transition brings the attention to the verdict as well. *)
LEMMA TransitionDoneVerdict ==
  ASSUME StoreOK, runtime # "none", NEW then, TransitionDone(then), UNCHANGED view
  PROVE  meta'.attn = Verdict'
<1> DEFINE refreshed == Refreshed(meta, pending, outcome, ack)
<1>1. meta \in Meta
  BY DEF StoreOK
<1>2. /\ refreshed.attn = ResolveReason(meta.status, pending, outcome, ack)
      /\ refreshed.status = meta.status
  BY <1>1 DEF Refreshed, Meta
<1>3. meta' = refreshed /\ pending' = pending /\ outcome' = outcome /\ ack' = ack
  BY DEF TransitionDone, view
<1> HIDE DEF refreshed
<1>4. QED
  BY <1>2, <1>3 DEF Verdict

(* A step keeps the attention if it reaches the verdict, appends a refresh, or touches neither. *)
LEMMA AddsAttention ==
  ASSUME AttentionInv, runtime # "none", NEW then, Adds(then), then # "closed",
         \/ then \in Refreshers
         \/ meta'.attn = Verdict'
         \/ UNCHANGED <<meta, pending, outcome, ack>>
  PROVE  AttentionInv'
BY DEF AttentionInv, Adds, Verdict

LEMMA SameAttention ==
  ASSUME AttentionInv, UNCHANGED <<meta, metaQ, pending, outcome, ack>>,
         runtime' # "none" => runtime # "none"
  PROVE  AttentionInv'
<1>1. Adds("nothing")
  BY SameAdds
<1>2. CASE runtime # "none"
  BY <1>1, <1>2, AddsAttention
<1>3. CASE runtime = "none"
  BY <1>3 DEF AttentionInv
<1>4. QED
  BY <1>2, <1>3

(* Every event brings the attention to the verdict or leaves a refresh to do it. *)
LEMMA HandleEventAttention ==
  ASSUME TypeOK, AttentionInv, runtime # "none", NEW event \in Event, HandleEvent(event)
  PROVE  AttentionInv'
<1>0. StoreOK
  BY DEF TypeOK
<1>1. CASE event.kind = "end"
  BY <1>1, EventAdds, AddsAttention DEF Refreshers
<1>2. CASE HandleError /\ event.kind = "error"
  BY <1>0, <1>2, EventAdds, ErrorVerdict, AddsAttention
<1>3. ASSUME NEW asks, HandlePermission(asks), event.kind \in {"ask", "answer"}
      PROVE  AttentionInv'
  <2>1. meta'.attn = Verdict'
    BY <1>0, <1>3, RefreshVerdict DEF HandlePermission, Verdict
  <2>2. QED
    BY <1>3, <2>1, EventAdds, AddsAttention
<1>4. QED
  BY <1>1, <1>2, <1>3 DEF HandleEvent

LEMMA ApplyEventAttention ==
  ASSUME TypeOK, AttentionInv, runtime # "none", NEW event \in Event, ApplyEvent(event)
  PROVE  AttentionInv'
BY AppliedEffect, HandleEventAttention, SameAttention

(* Every step of the harness keeps the attention. *)
LEMMA HarnessStepAttention ==
  ASSUME TypeOK, AttentionInv, HarnessStep
  PROVE  AttentionInv'
<1>1. ASSUME NEW turn \in live, NEW result \in Outcomes, TurnEnd(turn, result)
      PROVE  AttentionInv'
  <2>1. [kind |-> "end", turn |-> turn, outcome |-> result] \in Event
    BY DEF TypeOK, HarnessOK, Event
  <2>2. QED
    BY <1>1, <2>1, ApplyEventAttention DEF TurnEnd, HarnessEvent, Subscribed
<1>2. ASSUME NEW req \in Perms, Ask(req)
      PROVE  AttentionInv'
  <2>1. [kind |-> "ask", req |-> req] \in Event
    BY DEF Event
  <2>2. QED
    BY <1>2, <2>1, ApplyEventAttention DEF Ask, HarnessEvent, Subscribed
<1>3. CASE HarnessCrash
  <2>1. runtime # "none" /\ StoreOK
    BY <1>3 DEF HarnessCrash, TypeOK
  <2>2. CASE ApplyEvent([kind |-> "error"])
    <3>1. [kind |-> "error"] \in Event
      BY DEF Event
    <3>2. QED
      BY <2>1, <2>2, <3>1, ApplyEventAttention
  <2>3. CASE UNCHANGED <<meta, metaQ, activeTurn, view, lastEnded>>
    BY <2>1, <2>3, SameAttention DEF view
  <2>4. CASE HandleError
    BY <2>1, <2>4, ErrorAdds, ErrorVerdict, AddsAttention
  <2>5. QED
    BY <1>3, <2>2, <2>3, <2>4 DEF HarnessCrash
<1>4. QED
  BY <1>1, <1>2, <1>3 DEF HarnessStep

(* The first part of closeSession leaves a runtime's attention alone. *)
LEMMA CloseBeginsAttention ==
  ASSUME AttentionInv, CloseBegins
  PROVE  AttentionInv'
BY SameAttention DEF CloseBegins, view, AttentionInv

(* Every request of a client keeps the attention. *)
LEMMA ClientStepAttention ==
  ASSUME TypeOK, RunInv, AttentionInv, ClientStep
  PROVE  AttentionInv'
<1>1. CASE CreateSession \/ ResumeSession
  BY <1>1 DEF CreateSession, ResumeSession, AttentionInv, RunInv, Shape
<1>2. CASE PromptQueued \/ PromptStarted \/ Interrupt
  BY <1>2, SameAttention DEF PromptQueued, PromptStarted, Interrupt, life, store, view
<1>3. ASSUME NEW req \in Perms, RespondPermission(req)
      PROVE  AttentionInv'
  <2>1. [kind |-> "answer", req |-> req] \in Event
    BY DEF Event
  <2>2. QED
    BY <1>3, <2>1, ApplyEventAttention DEF RespondPermission, HarnessEvent, Subscribed
<1>4. ASSUME NEW caller \in Waiters, WaitForTurn(caller)
      PROVE  AttentionInv'
  BY <1>4, SameAttention DEF WaitForTurn, life, store
<1>5. CASE AcknowledgeAttention
  <2>1. /\ Refresh(pending, "none", TRUE) /\ runtime' = runtime /\ StoreOK
        /\ pending' = pending /\ outcome' = "none" /\ ack' = TRUE
    BY <1>5 DEF AcknowledgeAttention, life, TypeOK
  <2>2. CASE runtime = "none"
    BY <2>1, <2>2 DEF AttentionInv
  <2>3. CASE runtime # "none"
    <3>1. meta'.attn = Verdict'
      BY <2>1, <2>3, RefreshVerdict DEF Verdict
    <3>2. QED
      BY <2>1, <2>3, <3>1, RefreshAdds, AddsAttention
  <2>4. QED
    BY <2>2, <2>3
<1>6. CASE CloseSession
  BY <1>6, CloseBeginsAttention DEF CloseSession
<1>7. QED
  BY <1>1, <1>2, <1>3, <1>4, <1>5, <1>6 DEF ClientStep

(* A completed write continues with a refresh, or leaves what was due. *)
LEMMA WriteCompletesAttention ==
  ASSUME TypeOK, AttentionInv, WriteCompletes
  PROVE  AttentionInv'
<1>0. StoreOK /\ runtime' = runtime /\ UNCHANGED view
  BY DEF TypeOK, WriteCompletes, WrittenOnly, WrittenSpawn, WrittenRefresh, WrittenRunning,
         WrittenIdle, WrittenClosed, life
<1>1. CASE runtime = "none"
  BY <1>0, <1>1 DEF AttentionInv
<1>2. CASE WrittenOnly /\ runtime # "none"
  <2>1. Removes("nothing") /\ meta' = meta
    BY <1>0, <1>2, TailRemoves DEF WrittenOnly
  <2>2. QED
    BY <1>0, <1>2, <2>1 DEF AttentionInv, Removes, Verdict, view, Refreshers, Opened
<1>3. ASSUME NEW then, TransitionDone(then), runtime # "none"
      PROVE  AttentionInv'
  <2>1. meta'.attn = Verdict' /\ Removes(then)
    BY <1>0, <1>3, TransitionDoneVerdict, TransitionDoneRemoves
  <2>2. QED
    BY <1>0, <1>3, <2>1 DEF AttentionInv, Removes
<1>4. CASE WrittenClosed /\ runtime # "none"
  <2> DEFINE tidied == IF mode = "up" THEN [meta EXCEPT !.attn = "none"] ELSE meta
  <2>1. MetaWritten("closed") /\ metaQ' = Persisted(Tail(metaQ), meta, tidied)
    BY <1>4 DEF WrittenClosed
  <2>2. tidied \in Meta
    BY <1>0, TidiedType DEF StoreOK
  <2> HIDE DEF tidied
  <2>3. Removes("closed")
    BY <1>0, <2>1, <2>2, RefreshRemoves
  <2>4. QED
    BY <1>4, <2>3 DEF AttentionInv, Removes
<1>5. QED
  BY <1>1, <1>2, <1>3, <1>4
     DEF WriteCompletes, WrittenSpawn, WrittenRefresh, WrittenRunning, WrittenIdle

(* Every step of the daemon keeps the attention. *)
LEMMA DaemonStepAttention ==
  ASSUME TypeOK, RunInv, AttentionInv, DaemonStep
  PROVE  AttentionInv'
<1>1. ASSUME NEW start \in starts, StartTurnOk(start)
      PROVE  AttentionInv'
  <2> DEFINE then == IF start.drain THEN "drained" ELSE "running"
  <2>1. then \in Opened /\ then \in Thens /\ Transition("running", then) /\ runtime # "none"
    BY <1>1 DEF StartTurnOk, Opened, Thens
  <2> HIDE DEF then
  <2>2. Adds(then)
    BY <2>1, TransitionAdds DEF TypeOK, Statuses
  <2>3. QED
    BY <2>1, <2>2, AddsAttention DEF Refreshers, Opened
<1>2. ASSUME NEW start \in starts, StartTurnFail(start)
      PROVE  AttentionInv'
  BY <1>2, SameAttention DEF StartTurnFail, life, store, view
<1>3. CASE SpawnOk
  BY <1>3, SpawnOkAdds DEF AttentionInv, Adds, Refreshers
<1>4. CASE SpawnFail
  BY <1>4 DEF SpawnFail, AttentionInv, RunInv, Shape
<1>5. ASSUME NEW caller \in Waiters, WaitTimeout(caller)
      PROVE  AttentionInv'
  BY <1>5, SameAttention DEF WaitTimeout, life, store
<1>6. CASE Terminated
  BY <1>6 DEF Terminated, AttentionInv
<1>7. CASE Shutdown
  BY <1>7, SameAttention DEF Shutdown, store, view
<1>8. CASE ShutdownClose
  BY <1>8, CloseBeginsAttention DEF ShutdownClose
<1>9. CASE ShutdownDone \/ DaemonCrash
  BY <1>9 DEF ShutdownDone, DaemonCrash, GoDown, AttentionInv
<1>10. CASE Restart
  BY <1>10 DEF Restart, AttentionInv, RunInv, Shape, Down
<1>11. QED
  BY <1>1, <1>2, <1>3, <1>4, <1>5, <1>6, <1>7, <1>8, <1>9, <1>10, WriteCompletesAttention
     DEF DaemonStep, StartTurnResolves, SpawnResolves

(* Every step keeps the attention current, or a refresh due. *)
LEMMA NextAttention ==
  ASSUME TypeOK, RunInv, AttentionInv, [Next]_vars
  PROVE  AttentionInv'
<1>1. CASE UNCHANGED vars
  BY <1>1, SameAttention DEF vars, life, store, view
<1>2. CASE FlushOne
  <2>1. runtime' = runtime /\ Head(flush) \in Event /\ HandleEvent(Head(flush))
    BY <1>2, FlushEffect
  <2>2. CASE runtime = "none"
    BY <2>1, <2>2 DEF AttentionInv
  <2>3. CASE runtime # "none"
    BY <2>1, <2>3, HandleEventAttention
  <2>4. QED
    BY <2>2, <2>3
<1>3. CASE ClientStep
  BY <1>3, ClientStepAttention
<1>4. CASE HarnessStep
  BY <1>4, HarnessStepAttention
<1>5. CASE DaemonStep
  BY <1>5, DaemonStepAttention
<1>6. QED
  BY <1>1, <1>2, <1>3, <1>4, <1>5 DEF Next

(***************************************************************************)
(* Whatever the environment does: when nothing is on its way, the          *)
(* attention a session with a runtime shows is the policy's verdict on it. *)
(* A turn's end and a start leave the refresh to the continuation of their *)
(* write; a close that lowers the attention is followed by such a write if *)
(* the session was resumed meanwhile.                                      *)
(***************************************************************************)
THEOREM AttentionAlwaysCurrent == Spec => []AttentionCurrent
<1>1. Init => AttentionInv
  BY DEF Init, AttentionInv
<1>2. TypeOK /\ RunInv /\ AttentionInv /\ [Next]_vars => AttentionInv'
  BY NextAttention
<1>3. AttentionInv => AttentionCurrent
  <2>1. metaQ = <<>> => ~RefreshDue
    BY DEF RefreshDue, Awaits
  <2>2. QED
    BY <2>1 DEF AttentionInv, AttentionCurrent, Quiet
<1>4. QED
  BY <1>1, <1>2, <1>3, TypeCorrect, RunInvariant, PTL DEF Spec

-----------------------------------------------------------------------------
(* An exit of the harness *)

LEMMA FatalArrived ==
  ASSUME NEW events, Fatal(events)
  PROVE  Arrived(events, {"error"})
BY DEF Fatal, Arrived

(* What a step does to the evidence of an exit, if it does nothing of its own. *)
LEMMA SameCrash ==
  ASSUME CrashInv, UNCHANGED <<live, starts, held, flush>>, meta'.status = meta.status,
         runtime' = "dead" => runtime = "dead"
  PROVE  CrashInv'
BY DEF CrashInv

(* A prompt is never sent to a dead runtime: its status is error, or a turn is active. *)
LEMMA DeadNotIdle ==
  ASSUME WindowInv, CrashInv, flush = <<>>, runtime = "dead", meta.status = "idle"
  PROVE  activeTurn # 0
<1>1. starts = {} /\ Fatal(held)
  BY FatalEmpty DEF CrashInv
<1>2. holding
  BY <1>1, FatalEmpty DEF WindowInv, HoldInv
<1>3. QED
  BY <1>1, <1>2 DEF WindowInv, HoldInv

(* The next event of a released hold. *)
LEMMA FlushCrash ==
  ASSUME TypeOK, WindowInv, CrashInv, FlushOne
  PROVE  CrashInv'
<1>1. /\ Head(flush) \in Event /\ HandleEvent(Head(flush)) /\ flush # <<>> /\ flush' = Tail(flush)
      /\ UNCHANGED <<runtime, starts, held, live>> /\ flush \in Seq(Event)
  BY FlushEffect DEF TypeOK, HoldOK
<1>2. SUFFICES ASSUME runtime = "dead"
               PROVE  CrashInv'
  BY <1>1 DEF CrashInv
<1>3. held = <<>> /\ ~Fatal(held) /\ ~Arrived(held, {"end"})
  BY <1>1, FatalEmpty, ArrivedEmpty DEF WindowInv, HoldInv
<1>4. /\ Fatal(flush) => \/ Fatal(flush')
                         \/ Head(flush).kind = "error" /\ ~Arrived(flush', {"end"})
      /\ ~Arrived(flush, {"end"}) => Head(flush).kind # "end" /\ ~Arrived(flush', {"end"})
  BY <1>1, FatalTail, ArrivedTail
<1>5. /\ Head(flush).kind = "error" => meta'.status = "error"
      /\ Head(flush).kind \notin {"end", "error"} => meta'.status = meta.status
  BY <1>1, EventEffect DEF Vital
<1>6. QED
  BY <1>1, <1>2, <1>3, <1>4, <1>5 DEF CrashInv

(* Every step of the harness, and an answer passed on to it. *)
LEMMA HarnessEventCrash ==
  ASSUME TypeOK, WindowInv, CrashInv, NEW event \in Event, event.kind \in {"ask", "answer"},
         HarnessEvent(event), UNCHANGED live
  PROVE  CrashInv'
<1>1. /\ UNCHANGED <<runtime, starts, flush, live>> /\ ApplyEvent(event)
      /\ held \in Seq(Event)
  BY DEF HarnessEvent, TypeOK, HoldOK
<1>2. CASE held' = held /\ HandleEvent(event)
  <2>1. meta'.status = meta.status
    BY <1>2, EventEffect DEF Vital
  <2>2. QED
    BY <1>1, <1>2, <2>1, SameCrash
<1>3. CASE held' = Append(held, event) /\ meta' = meta
  <2>1. Fatal(held) => Fatal(held')
    BY <1>1, <1>3, FatalAppend
  <2>2. ~Arrived(held, {"end"}) => ~Arrived(held', {"end"})
    BY <1>1, <1>3, ArrivedAppend
  <2>3. QED
    BY <1>1, <1>3, <2>1, <2>2 DEF CrashInv
<1>4. QED
  BY <1>1, <1>2, <1>3, AppliedEffect

LEMMA HarnessStepCrash ==
  ASSUME "crash" \notin Races, TypeOK, WindowInv, CrashInv, flush = <<>>, HarnessStep
  PROVE  CrashInv'
<1>1. ASSUME NEW turn \in live, NEW result \in Outcomes, TurnEnd(turn, result)
      PROVE  CrashInv'
  BY <1>1 DEF TurnEnd, HarnessEvent, CrashInv
<1>2. ASSUME NEW req \in Perms, Ask(req)
      PROVE  CrashInv'
  <2>1. [kind |-> "ask", req |-> req] \in Event
    BY DEF Event
  <2>2. QED
    BY <1>2, <2>1, HarnessEventCrash DEF Ask
<1>3. CASE HarnessCrash
  <2> DEFINE event == [kind |-> "error"]
  <2>1. starts = {} /\ starts' = {} /\ live' = {} /\ flush' = <<>> /\ ApplyEvent(event)
    BY <1>3 DEF HarnessCrash, Allows
  <2>2. event \in Event /\ event.kind = "error" /\ held \in Seq(Event)
    BY DEF Event, TypeOK, HoldOK
  <2> HIDE DEF event
  <2>3. CASE holding /\ held' = Append(held, event)
    BY <2>1, <2>2, <2>3, FatalAppend DEF CrashInv
  <2>4. CASE ~holding /\ held' = held /\ HandleEvent(event)
    <3>1. meta'.status = "error" /\ held' = <<>>
      BY <2>2, <2>4, EventEffect DEF WindowInv, HoldInv
    <3>2. QED
      BY <2>1, <3>1, ArrivedEmpty DEF CrashInv
  <2>5. QED
    BY <2>1, <2>2, <2>3, <2>4, AppliedEffect
<1>4. QED
  BY <1>1, <1>2, <1>3 DEF HarnessStep

LEMMA CloseBeginsCrash ==
  ASSUME CrashInv, CloseBegins
  PROVE  CrashInv'
<1>1. CASE runtime # "dead"
  BY <1>1 DEF CloseBegins, CrashInv
<1>2. CASE runtime = "dead"
  <2>1. UNCHANGED <<runtime, flush, meta, live>> /\ AbandonStarts(starts) /\ starts = {}
    BY <1>2 DEF CloseBegins, harness, CrashInv
  <2>2. UNCHANGED <<starts, held>>
    BY <2>1 DEF AbandonStarts
  <2>3. QED
    BY <2>1, <2>2, SameCrash
<1>3. QED
  BY <1>1, <1>2

(* Every request of a client. *)
LEMMA ClientStepCrash ==
  ASSUME TypeOK, RunInv, WindowInv, CrashInv, flush = <<>>, ClientStep
  PROVE  CrashInv'
<1>1. CASE CreateSession \/ ResumeSession
  <2>1. runtime = "none" /\ runtime' = runtime
    BY <1>1 DEF CreateSession, ResumeSession, RunInv, Shape
  <2>2. QED
    BY <2>1 DEF CrashInv
<1>2. CASE PromptQueued \/ Interrupt
  BY <1>2, SameCrash DEF PromptQueued, Interrupt, life, store, hold, harness
<1>3. CASE PromptStarted
  BY <1>3, DeadNotIdle DEF PromptStarted, life, CrashInv
<1>4. ASSUME NEW req \in Perms, RespondPermission(req)
      PROVE  CrashInv'
  <2>1. [kind |-> "answer", req |-> req] \in Event
    BY DEF Event
  <2>2. QED
    BY <1>4, <2>1, HarnessEventCrash DEF RespondPermission
<1>5. ASSUME NEW caller \in Waiters, WaitForTurn(caller)
      PROVE  CrashInv'
  BY <1>5, SameCrash DEF WaitForTurn, life, store, turns, hold, harness
<1>6. CASE AcknowledgeAttention
  <2>1. meta'.status = meta.status
    BY <1>6, RefreshType DEF AcknowledgeAttention, TypeOK
  <2>2. QED
    BY <1>6, <2>1, SameCrash DEF AcknowledgeAttention, life, turns, hold, harness
<1>7. CASE CloseSession
  BY <1>7, CloseBeginsCrash DEF CloseSession
<1>8. QED
  BY <1>1, <1>2, <1>3, <1>4, <1>5, <1>6, <1>7 DEF ClientStep

(* A completed write keeps the status; a released hold hands its events on. *)
LEMMA WriteCompletesCrash ==
  ASSUME TypeOK, WindowInv, CrashInv, flush = <<>>, WriteCompletes
  PROVE  CrashInv'
<1>0. StoreOK
  BY DEF TypeOK
<1>1. CASE WrittenOnly
  BY <1>1, SameCrash DEF WrittenOnly, life, turns, hold, harness
<1>2. CASE WrittenSpawn \/ WrittenRefresh
  <2>1. meta'.status = meta.status
    BY <1>0, <1>2, TransitionDoneType DEF WrittenSpawn, WrittenRefresh
  <2>2. QED
    BY <1>2, <2>1, SameCrash DEF WrittenSpawn, WrittenRefresh, life, turns, hold, harness
<1>3. CASE WrittenRunning
  <2>1. /\ meta'.status = meta.status /\ flush' = held /\ held' = <<>>
        /\ UNCHANGED <<runtime, starts, live>>
    BY <1>0, <1>3, TransitionDoneType DEF WrittenRunning, life, harness
  <2>2. QED
    BY <2>1, ArrivedEmpty, FatalEmpty DEF CrashInv
<1>4. CASE WrittenIdle
  <2>1. meta'.status = meta.status /\ UNCHANGED <<runtime, flush>>
    BY <1>0, <1>4, TransitionDoneType DEF WrittenIdle, life
  <2>2. CASE CanDrain
    BY <2>1, <2>2, DeadNotIdle DEF CanDrain, CrashInv
  <2>3. CASE ~CanDrain
    BY <1>4, <2>1, <2>3, SameCrash DEF WrittenIdle
  <2>4. QED
    BY <2>2, <2>3
<1>5. CASE WrittenClosed
  <2>1. meta'.status = meta.status
    BY <1>0, <1>5, TidiedType DEF WrittenClosed, StoreOK
  <2>2. QED
    BY <1>5, <2>1, SameCrash DEF WrittenClosed, turns, hold, harness
<1>6. QED
  BY <1>1, <1>2, <1>3, <1>4, <1>5 DEF WriteCompletes

(* Every step of the daemon. *)
LEMMA DaemonStepCrash ==
  ASSUME TypeOK, RunInv, WindowInv, CrashInv, flush = <<>>, DaemonStep
  PROVE  CrashInv'
<1>1. CASE StartTurnResolves
  BY <1>1 DEF StartTurnResolves, StartTurnOk, StartTurnFail, life, CrashInv
<1>2. CASE SpawnResolves
  BY <1>2 DEF SpawnResolves, SpawnOk, SpawnFail, RunInv, Shape, CrashInv
<1>3. ASSUME NEW caller \in Waiters, WaitTimeout(caller)
      PROVE  CrashInv'
  BY <1>3, SameCrash DEF WaitTimeout, life, store, turns, hold, harness
<1>4. CASE Terminated
  BY <1>4 DEF Terminated, CrashInv
<1>5. CASE Shutdown
  BY <1>5, SameCrash DEF Shutdown, store, turns, hold
<1>6. CASE ShutdownClose
  BY <1>6, CloseBeginsCrash DEF ShutdownClose
<1>7. CASE ShutdownDone \/ DaemonCrash
  BY <1>7 DEF ShutdownDone, DaemonCrash, GoDown, CrashInv
<1>8. CASE Restart
  BY <1>8 DEF Restart, RunInv, Shape, Down, CrashInv
<1>9. QED
  BY <1>1, <1>2, <1>3, <1>4, <1>5, <1>6, <1>7, <1>8, WriteCompletesCrash DEF DaemonStep

(* Every step keeps the evidence of an exit. *)
LEMMA NextCrash ==
  ASSUME "crash" \notin Races, TypeOK, RunInv, WindowInv, CrashInv, [Next]_vars
  PROVE  CrashInv'
<1>1. CASE UNCHANGED vars
  BY <1>1, SameCrash DEF vars, life, store, turns, hold, harness
<1>2. CASE FlushOne
  BY <1>2, FlushCrash
<1>3. CASE flush = <<>> /\ ClientStep
  BY <1>3, ClientStepCrash
<1>4. CASE flush = <<>> /\ HarnessStep
  BY <1>4, HarnessStepCrash
<1>5. CASE flush = <<>> /\ DaemonStep
  BY <1>5, DaemonStepCrash
<1>6. QED
  BY <1>1, <1>2, <1>3, <1>4, <1>5 DEF Next

(***************************************************************************)
(* Unless the harness exits while a prompt is being sent to it, its exit   *)
(* shows: the status is error, or the event that makes it so has arrived   *)
(* and no end of a turn comes after it, which is what the invariant adds.   *)
(***************************************************************************)
THEOREM ExitSurfaces ==
  ASSUME "crash" \notin Races
  PROVE  Spec => []CrashSurfaces
<1>1. Init => CrashInv
  BY DEF Init, CrashInv
<1>2. TypeOK /\ RunInv /\ WindowInv /\ CrashInv /\ [Next]_vars => CrashInv'
  BY NextCrash
<1>3. TypeOK /\ CrashInv => CrashSurfaces
  <2>1. SUFFICES ASSUME TypeOK, CrashInv, runtime = "dead", meta.status # "error"
                 PROVE  Arrived(held \o flush, {"error"})
    BY DEF CrashSurfaces
  <2>2. Arrived(held, {"error"}) \/ Arrived(flush, {"error"})
    BY <2>1, FatalArrived DEF CrashInv
  <2>3. QED
    BY <2>1, <2>2, ArrivedConcat DEF TypeOK, HoldOK
<1>4. QED
  BY <1>1, <1>2, <1>3, TypeCorrect, RunInvariant, WindowInvariant, PTL DEF Spec

-----------------------------------------------------------------------------
(* Queued prompts and the end of a runtime *)

(* The queue of an event: kept, or given up. *)
LEMMA EventQueue ==
  ASSUME NEW event, HandleEvent(event) \/ ApplyEvent(event)
  PROVE  queue' = queue \/ queue' = <<>>
BY DEF ApplyEvent, HandleEvent, HandleEnd, HandleError, HandlePermission

(* A step that neither queues a prompt nor ends a runtime. *)
LEMMA SameQueue ==
  ASSUME QueueInv, queue' = queue \/ queue' = <<>>, UNCHANGED closing,
         runtime' = "none" => runtime = "none"
  PROVE  QueueInv'
BY DEF QueueInv

LEMMA HarnessStepQueue ==
  ASSUME QueueInv, HarnessStep
  PROVE  QueueInv'
<1>1. ASSUME NEW event, HarnessEvent(event)
      PROVE  QueueInv'
  BY <1>1, EventQueue, SameQueue DEF HarnessEvent, EventFrame
<1>2. CASE HarnessCrash
  <2>1. queue' = queue \/ queue' = <<>>
    <3>1. CASE ApplyEvent([kind |-> "error"])
      BY <3>1, EventQueue
    <3>2. CASE HandleError
      BY <3>2 DEF HandleError
    <3>3. CASE queue' = IF DrainFailed(starts) THEN <<>> ELSE queue
      BY <3>3
    <3>4. QED
      BY <1>2, <3>1, <3>2, <3>3 DEF HarnessCrash
  <2>2. QED
    BY <1>2, <2>1, SameQueue DEF HarnessCrash
<1>3. QED
  BY <1>1, <1>2 DEF HarnessStep, TurnEnd, Ask

LEMMA ClientStepQueue ==
  ASSUME "close" \notin Races, QueueInv, ClientStep
  PROVE  QueueInv'
<1>1. CASE CreateSession \/ ResumeSession
  BY <1>1, SameQueue DEF CreateSession, ResumeSession, turns
<1>2. CASE PromptQueued
  BY <1>2 DEF PromptQueued, Allows, QueueInv, life
<1>3. CASE PromptStarted
  BY <1>3, SameQueue DEF PromptStarted, life
<1>4. CASE Interrupt
  BY <1>4, SameQueue DEF Interrupt, life
<1>5. ASSUME NEW req \in Perms, RespondPermission(req)
      PROVE  QueueInv'
  BY <1>5, EventQueue, SameQueue DEF RespondPermission, HarnessEvent, EventFrame
<1>6. ASSUME NEW caller \in Waiters, WaitForTurn(caller)
      PROVE  QueueInv'
  BY <1>6, SameQueue DEF WaitForTurn, life, turns
<1>7. CASE AcknowledgeAttention
  BY <1>7, SameQueue DEF AcknowledgeAttention, life, turns
<1>8. CASE CloseSession
  BY <1>8 DEF CloseSession, CloseBegins, QueueInv
<1>9. QED
  BY <1>1, <1>2, <1>3, <1>4, <1>5, <1>6, <1>7, <1>8 DEF ClientStep

LEMMA DaemonStepQueue ==
  ASSUME QueueInv, DaemonStep
  PROVE  QueueInv'
<1>1. ASSUME NEW start \in starts, StartTurnOk(start) \/ StartTurnFail(start)
      PROVE  QueueInv'
  BY <1>1, SameQueue DEF StartTurnOk, StartTurnFail, life
<1>2. CASE SpawnResolves
  BY <1>2, SameQueue DEF SpawnResolves, SpawnOk, SpawnFail, turns
<1>3. CASE WrittenOnly \/ WrittenSpawn \/ WrittenRefresh \/ WrittenRunning
  BY <1>3, SameQueue DEF WrittenOnly, WrittenSpawn, WrittenRefresh, WrittenRunning, life, turns
<1>4. CASE WrittenIdle
  BY <1>4 DEF WrittenIdle, CanDrain, QueueInv, life
<1>5. CASE WrittenClosed
  BY <1>5 DEF WrittenClosed, QueueInv, turns
<1>6. ASSUME NEW caller \in Waiters, WaitTimeout(caller)
      PROVE  QueueInv'
  BY <1>6, SameQueue DEF WaitTimeout, life, turns
<1>7. CASE Terminated
  BY <1>7 DEF Terminated, QueueInv
<1>8. CASE Shutdown
  BY <1>8 DEF Shutdown, turns, QueueInv
<1>9. CASE ShutdownClose
  BY <1>9 DEF ShutdownClose, CloseBegins, QueueInv
<1>10. CASE ShutdownDone \/ DaemonCrash
  BY <1>10 DEF ShutdownDone, DaemonCrash, GoDown, QueueInv
<1>11. CASE Restart
  BY <1>11, SameQueue DEF Restart, turns
<1>12. QED
  BY <1>1, <1>2, <1>3, <1>4, <1>5, <1>6, <1>7, <1>8, <1>9, <1>10, <1>11
     DEF DaemonStep, StartTurnResolves, WriteCompletes

(* Every step keeps the queue of a closed session empty. *)
LEMMA NextQueue ==
  ASSUME "close" \notin Races, QueueInv, [Next]_vars
  PROVE  QueueInv'
<1>1. CASE UNCHANGED vars
  BY <1>1, SameQueue DEF vars, life, turns
<1>2. CASE FlushOne
  BY <1>2, EventQueue, SameQueue DEF FlushOne, EventFrame
<1>3. QED
  BY <1>1, <1>2, ClientStepQueue, HarnessStepQueue, DaemonStepQueue DEF Next

(***************************************************************************)
(* Unless a session is closed while a prompt is being opened or a process  *)
(* started, or prompted while it is being closed, no prompt queued for a   *)
(* runtime outlives it: closing empties the queue, and nothing refills it  *)
(* before the runtime is gone.                                             *)
(***************************************************************************)
THEOREM QueueDiesWithRuntime ==
  ASSUME "close" \notin Races
  PROVE  Spec => []NoStaleQueue
<1>1. Init => QueueInv
  BY DEF Init, QueueInv
<1>2. QueueInv /\ [Next]_vars => QueueInv'
  BY NextQueue
<1>3. QueueInv => NoStaleQueue
  BY DEF QueueInv, NoStaleQueue
<1>4. QED
  BY <1>1, <1>2, <1>3, PTL DEF Spec

-----------------------------------------------------------------------------
(* Winding down *)

(* A step that starts nothing, closes nothing and leaves the status to what it was. *)
LEMMA SameWindDown ==
  ASSUME WindDownInv, queue' = queue \/ queue' = <<>>, holding' => holding,
         UNCHANGED <<mode, opening, closing>>,
         runtime' = runtime \/ (runtime = "live" /\ runtime' = "dead"),
         runtime' = "none" => flush' = <<>>,
         meta'.status = meta.status \/ (meta'.status = "error") \/
           (runtime # "none" /\ meta'.status \in {"idle", "running"})
  PROVE  WindDownInv'
BY DEF WindDownInv, StatusHasRuntime

(* An event changes the status to idle or error, and only with a runtime. *)
LEMMA EventStatus ==
  ASSUME TypeOK, NEW event \in Event, HandleEvent(event)
  PROVE  meta'.status \in {meta.status, "idle", "error"}
BY EventEffect, EventType DEF Vital

LEMMA HarnessEventWindDown ==
  ASSUME TypeOK, WindDownInv, NEW event \in Event, HarnessEvent(event)
  PROVE  WindDownInv'
<1>1. /\ UNCHANGED <<mode, opening, closing, runtime, holding, flush>> /\ runtime # "none"
      /\ ApplyEvent(event)
  BY DEF HarnessEvent, EventFrame, Subscribed
<1>2. queue' = queue \/ queue' = <<>>
  BY <1>1, EventQueue
<1>3. meta'.status \in {meta.status, "idle", "error"}
  BY <1>1, EventStatus DEF ApplyEvent
<1>4. QED
  BY <1>1, <1>2, <1>3, SameWindDown

LEMMA HarnessStepWindDown ==
  ASSUME TypeOK, WindDownInv, HarnessStep
  PROVE  WindDownInv'
<1>1. ASSUME NEW turn \in live, NEW result \in Outcomes, TurnEnd(turn, result)
      PROVE  WindDownInv'
  <2>1. [kind |-> "end", turn |-> turn, outcome |-> result] \in Event
    BY DEF TypeOK, HarnessOK, Event
  <2>2. QED
    BY <1>1, <2>1, HarnessEventWindDown DEF TurnEnd
<1>2. ASSUME NEW req \in Perms, Ask(req)
      PROVE  WindDownInv'
  <2>1. [kind |-> "ask", req |-> req] \in Event
    BY DEF Event
  <2>2. QED
    BY <1>2, <2>1, HarnessEventWindDown DEF Ask
<1>3. CASE HarnessCrash
  <2>1. /\ UNCHANGED <<mode, opening, closing, flush>> /\ runtime = "live" /\ runtime' = "dead"
        /\ [kind |-> "error"] \in Event
    BY <1>3 DEF HarnessCrash, Event
  <2>2. holding' => holding
    BY <1>3 DEF HarnessCrash, AbandonStarts
  <2>3. CASE ApplyEvent([kind |-> "error"])
    <3>1. queue' = queue \/ queue' = <<>>
      BY <2>3, EventQueue
    <3>2. meta'.status \in {meta.status, "idle", "error"}
      BY <2>1, <2>3, EventStatus DEF ApplyEvent
    <3>3. QED
      BY <2>1, <2>2, <3>1, <3>2, SameWindDown
  <2>4. CASE UNCHANGED <<meta, metaQ, activeTurn, view, lastEnded>>
             /\ queue' = IF DrainFailed(starts) THEN <<>> ELSE queue
    BY <2>1, <2>2, <2>4, SameWindDown
  <2>5. CASE HandleError
    <3>1. meta'.status = "error" /\ queue' = <<>>
      BY <2>5, HandleErrorType DEF HandleError
    <3>2. QED
      BY <2>1, <2>2, <3>1, SameWindDown
  <2>6. QED
    BY <1>3, <2>3, <2>4, <2>5 DEF HarnessCrash
<1>4. QED
  BY <1>1, <1>2, <1>3 DEF HarnessStep

(* A close finds nothing on hold and nothing being started, and leaves it so. *)
LEMMA CloseBeginsWindDown ==
  ASSUME TypeOK, WindDownInv, CloseBegins, flush = <<>>, ~holding, opening = "none",
         meta.status # "none"
  PROVE  WindDownInv'
<1>1. /\ queue' = <<>> /\ UNCHANGED <<mode, runtime, opening, flush>>
      /\ \/ runtime # "none" /\ meta' = meta /\ AbandonStarts(starts)
         \/ Transition("closed", "closed") /\ holding' = holding
  BY DEF CloseBegins
<1>2. ~holding'
  BY <1>1 DEF AbandonStarts
<1>3. meta' = meta \/ meta'.status = "closed"
  BY <1>1, TransitionType DEF TypeOK, Statuses, Thens
<1>4. QED
  BY <1>1, <1>2, <1>3 DEF WindDownInv, StatusHasRuntime

LEMMA ClientStepWindDown ==
  ASSUME "close" \notin Races, TypeOK, RunInv, WindDownInv, flush = <<>>, ClientStep
  PROVE  WindDownInv'
<1>1. CASE CreateSession \/ ResumeSession
  <2>1. /\ UNCHANGED <<mode, closing, runtime, queue, holding, flush>> /\ mode = "up"
        /\ opening' = "requested" /\ closing = "none" /\ runtime = "none"
    BY <1>1 DEF CreateSession, ResumeSession, Serving, Allows, turns, hold, WindDownInv, RunInv, Shape
  <2>2. meta'.status = "initializing"
    BY <1>1, TransitionType DEF CreateSession, ResumeSession, TypeOK, Statuses, Thens
  <2>3. QED
    BY <2>1, <2>2 DEF WindDownInv, StatusHasRuntime
<1>2. CASE PromptQueued \/ PromptStarted
  <2>1. /\ UNCHANGED <<mode, closing, runtime, opening, meta, flush>> /\ runtime # "none"
        /\ closing = "none" /\ mode = "up"
    BY <1>2 DEF PromptQueued, PromptStarted, Serving, Allows, life, store, hold
  <2>2. QED
    BY <2>1 DEF WindDownInv, StatusHasRuntime
<1>3. CASE Interrupt
  BY <1>3, SameWindDown DEF Interrupt, life, store, hold
<1>4. ASSUME NEW req \in Perms, RespondPermission(req)
      PROVE  WindDownInv'
  <2>1. [kind |-> "answer", req |-> req] \in Event
    BY DEF Event
  <2>2. QED
    BY <1>4, <2>1, HarnessEventWindDown DEF RespondPermission
<1>5. ASSUME NEW caller \in Waiters, WaitForTurn(caller)
      PROVE  WindDownInv'
  BY <1>5, SameWindDown DEF WaitForTurn, life, store, turns, hold
<1>6. CASE AcknowledgeAttention
  <2>1. meta'.status = meta.status
    BY <1>6, RefreshType DEF AcknowledgeAttention, TypeOK
  <2>2. QED
    BY <1>6, <2>1, SameWindDown DEF AcknowledgeAttention, life, turns, hold
<1>7. CASE CloseSession
  BY <1>7, CloseBeginsWindDown DEF CloseSession, MayClose, Allows
<1>8. QED
  BY <1>1, <1>2, <1>3, <1>4, <1>5, <1>6, <1>7 DEF ClientStep

LEMMA WriteCompletesWindDown ==
  ASSUME TypeOK, WindowInv, WindDownInv, flush = <<>>, WriteCompletes
  PROVE  WindDownInv'
<1>0. StoreOK
  BY DEF TypeOK
<1>1. CASE WrittenOnly
  BY <1>1, SameWindDown DEF WrittenOnly, life, turns, hold
<1>2. CASE WrittenSpawn
  <2>1. meta'.status = meta.status
    BY <1>0, <1>2, TransitionDoneType DEF WrittenSpawn
  <2>2. QED
    BY <1>2, <2>1 DEF WrittenSpawn, turns, hold, WindDownInv, StatusHasRuntime
<1>3. CASE WrittenRefresh
  <2>1. meta'.status = meta.status
    BY <1>0, <1>3, TransitionDoneType DEF WrittenRefresh
  <2>2. QED
    BY <1>3, <2>1, SameWindDown DEF WrittenRefresh, life, turns, hold
<1>4. CASE WrittenRunning
  <2>1. meta'.status = meta.status
    BY <1>0, <1>4, TransitionDoneType DEF WrittenRunning
  <2>2. /\ UNCHANGED <<mode, runtime, opening, closing, queue>> /\ flush' = held /\ ~holding'
    BY <1>4 DEF WrittenRunning, life
  <2>3. runtime = "none" => held = <<>>
    BY DEF WindDownInv, WindowInv, HoldInv
  <2>4. QED
    BY <2>1, <2>2, <2>3, SameWindDown
<1>5. CASE WrittenIdle
  <2>1. meta'.status = meta.status /\ UNCHANGED <<mode, runtime, opening, closing, flush>>
    BY <1>0, <1>5, TransitionDoneType DEF WrittenIdle, life
  <2>2. CASE CanDrain
    <3>1. runtime # "none" /\ closing = "none" /\ mode # "stopping"
      BY <2>2 DEF CanDrain, WindDownInv
    <3>2. QED
      BY <2>1, <3>1 DEF WindDownInv, StatusHasRuntime
  <2>3. CASE ~CanDrain
    <3>1. UNCHANGED <<queue, holding>>
      BY <1>5, <2>3 DEF WrittenIdle
    <3>2. QED
      BY <2>1, <3>1, SameWindDown
  <2>4. QED
    BY <2>2, <2>3
<1>6. CASE WrittenClosed
  <2>1. meta'.status = meta.status
    BY <1>0, <1>6, TidiedType DEF WrittenClosed, StoreOK
  <2>2. QED
    BY <1>6, <2>1 DEF WrittenClosed, turns, hold, WindDownInv, StatusHasRuntime
<1>7. QED
  BY <1>1, <1>2, <1>3, <1>4, <1>5, <1>6 DEF WriteCompletes

LEMMA DaemonStepWindDown ==
  ASSUME "close" \notin Races, "shutdown" \notin Races,
         TypeOK, RunInv, WindowInv, WindDownInv, flush = <<>>, DaemonStep
  PROVE  WindDownInv'
<1>1. ASSUME NEW start \in starts, StartTurnOk(start)
      PROVE  WindDownInv'
  <2> DEFINE then == IF start.drain THEN "drained" ELSE "running"
  <2>1. then \in Thens /\ Transition("running", then)
    BY <1>1 DEF StartTurnOk, Thens
  <2> HIDE DEF then
  <2>2. meta'.status = "running"
    BY <2>1, TransitionType DEF TypeOK, Statuses
  <2>3. QED
    BY <1>1, <2>2, SameWindDown DEF StartTurnOk, life, hold
<1>2. ASSUME NEW start \in starts, StartTurnFail(start)
      PROVE  WindDownInv'
  BY <1>2, SameWindDown DEF StartTurnFail, AbandonStarts, life, store
<1>3. CASE SpawnOk
  <2>1. meta'.status = "idle"
    BY <1>3, SpawnOkAdds
  <2>2. QED
    BY <1>3, <2>1 DEF SpawnOk, turns, hold, WindDownInv, StatusHasRuntime, RunInv, Shape
<1>4. CASE SpawnFail
  <2>1. meta'.status = "error"
    BY <1>4, TransitionType DEF SpawnFail, TypeOK, Statuses, Thens
  <2>2. QED
    BY <1>4, <2>1 DEF SpawnFail, turns, hold, WindDownInv, StatusHasRuntime
<1>5. ASSUME NEW caller \in Waiters, WaitTimeout(caller)
      PROVE  WindDownInv'
  BY <1>5, SameWindDown DEF WaitTimeout, life, store, turns, hold
<1>6. CASE Terminated
  <2>1. meta'.status = "closed"
    BY <1>6, TransitionType DEF Terminated, TypeOK, Statuses, Thens
  <2>2. QED
    BY <1>6, <2>1 DEF Terminated, hold, WindDownInv, StatusHasRuntime
<1>7. CASE Shutdown
  BY <1>7 DEF Shutdown, MayClose, Allows, store, turns, hold, WindDownInv, StatusHasRuntime,
              RunInv, Shape
<1>8. CASE ShutdownClose
  <2>1. closing # "none" /\ CloseBegins
    BY <1>8 DEF ShutdownClose
  <2>2. QED
    BY <2>1, CloseBeginsWindDown DEF WindDownInv
<1>9. CASE ShutdownDone \/ DaemonCrash
  BY <1>9 DEF ShutdownDone, DaemonCrash, GoDown, WindDownInv, StatusHasRuntime
<1>10. CASE Restart
  <2>1. /\ UNCHANGED <<runtime, opening, closing, queue, holding, flush>> /\ mode' = "up"
        /\ runtime = "none" /\ closing = "none" /\ flush = <<>>
    BY <1>10 DEF Restart, turns, hold, RunInv, Shape, Down
  <2>2. meta'.status \notin {"initializing", "idle", "running"}
    BY <1>10 DEF Restart, TypeOK, StoreOK, Meta
  <2>3. QED
    BY <2>1, <2>2 DEF WindDownInv, StatusHasRuntime
<1>11. QED
  BY <1>1, <1>2, <1>3, <1>4, <1>5, <1>6, <1>7, <1>8, <1>9, <1>10, WriteCompletesWindDown
     DEF DaemonStep, StartTurnResolves, SpawnResolves

LEMMA NextWindDown ==
  ASSUME "close" \notin Races, "shutdown" \notin Races,
         TypeOK, RunInv, WindowInv, WindDownInv, [Next]_vars
  PROVE  WindDownInv'
<1>1. CASE UNCHANGED vars
  BY <1>1, SameWindDown DEF vars, life, store, turns, hold, WindDownInv
<1>2. CASE FlushOne
  <2>1. /\ UNCHANGED <<mode, opening, closing, runtime, holding>> /\ flush # <<>>
        /\ Head(flush) \in Event /\ HandleEvent(Head(flush))
    BY <1>2, FlushEffect
  <2>2. runtime # "none"
    BY <2>1 DEF WindDownInv
  <2>3. QED
    BY <2>1, <2>2, EventQueue, EventStatus, SameWindDown
<1>3. CASE flush = <<>> /\ ClientStep
  BY <1>3, ClientStepWindDown
<1>4. CASE HarnessStep
  BY <1>4, HarnessStepWindDown
<1>5. CASE flush = <<>> /\ DaemonStep
  BY <1>5, DaemonStepWindDown
<1>6. QED
  BY <1>1, <1>2, <1>3, <1>4, <1>5 DEF Next

(***************************************************************************)
(* Unless a session is closed in one of its windows or shut down with      *)
(* prompts queued, its status never claims a runtime it has not got: once  *)
(* the close has begun nothing is on hold that could end a turn later, and *)
(* nothing is queued that could open one.                                  *)
(***************************************************************************)
THEOREM StatusNeverClaimsMore ==
  ASSUME "close" \notin Races, "shutdown" \notin Races
  PROVE  Spec => []StatusHasRuntime
<1>1. Init => WindDownInv
  BY DEF Init, NoMeta, WindDownInv, StatusHasRuntime
<1>2. TypeOK /\ RunInv /\ WindowInv /\ WindDownInv /\ [Next]_vars => WindDownInv'
  BY NextWindDown
<1>3. WindDownInv => StatusHasRuntime
  BY DEF WindDownInv
<1>4. QED
  BY <1>1, <1>2, <1>3, TypeCorrect, RunInvariant, WindowInvariant, PTL DEF Spec

-----------------------------------------------------------------------------
(* One prompt at a time *)

(* Nothing is being sent and no turn is being opened. *)
LEMMA NoStart ==
  ASSUME starts' = {}, ~OpeningDue', OneOpening'
  PROVE  OneStart'
BY DEF OneStart

(* A step that leaves the prompt that is being sent, or the turn that is being opened. *)
LEMMA SameStart ==
  ASSUME OneStart, NEW then, then \notin Opened, Adds(then),
         UNCHANGED <<starts, holding, activeTurn, draining>>,
         queue' = queue \/ queue' = <<>>, runtime = "none" => runtime' = "none"
  PROVE  OneStart'
BY DEF OneStart, Adds

(* What is not on hold is neither sent nor opened. *)
LEMMA Released ==
  ASSUME OneStart, ~holding
  PROVE  starts = {} /\ ~OpeningDue /\ OneOpening
BY DEF OneStart

(* The prompt that is being sent fails. *)
LEMMA Abandoned ==
  ASSUME OneStart, starts # {}, starts' = {}, metaQ' = metaQ
  PROVE  OneStart'
<1>1. Adds("nothing")
  BY SameAdds
<1>2. ~OpeningDue' /\ OneOpening'
  BY <1>1 DEF OneStart, Adds, Opened
<1>3. QED
  BY <1>2, NoStart

(* A prompt is sent: nothing else was. *)
LEMMA SentOne ==
  ASSUME starts = {}, ~OpeningDue', OneOpening', activeTurn' = 0,
         NEW turn, NEW drain, Send(turn, drain), queue' = <<>> \/ draining'
  PROVE  OneStart'
BY DEF OneStart, Send

(* An event that is handled ends no turn that is being opened. *)
LEMMA HandledStart ==
  ASSUME TypeOK, OneStart, ~holding, NEW event \in Event, HandleEvent(event), UNCHANGED starts
  PROVE  OneStart'
<1>1. Adds("idle") \/ Adds("nothing")
  BY EventAdds
<1>2. starts' = {} /\ ~OpeningDue' /\ OneOpening'
  BY <1>1, Released DEF Adds, Opened
<1>3. QED
  BY <1>2, NoStart

LEMMA HarnessEventStart ==
  ASSUME TypeOK, OneStart, NEW event \in Event, HarnessEvent(event)
  PROVE  OneStart'
<1>1. UNCHANGED <<starts, holding, draining, runtime>> /\ ApplyEvent(event)
  BY DEF HarnessEvent, EventFrame
<1>2. CASE holding /\ UNCHANGED <<metaQ, activeTurn, queue>>
  <2>1. Adds("nothing")
    BY <1>2, SameAdds
  <2>2. QED
    BY <1>1, <1>2, <2>1, SameStart DEF Opened
<1>3. CASE ~holding /\ HandleEvent(event)
  BY <1>1, <1>3, HandledStart
<1>4. QED
  BY <1>1, <1>2, <1>3, AppliedEffect

LEMMA HarnessStepStart ==
  ASSUME TypeOK, OneStart, HarnessStep
  PROVE  OneStart'
<1>1. ASSUME NEW turn \in live, NEW result \in Outcomes, TurnEnd(turn, result)
      PROVE  OneStart'
  <2>1. [kind |-> "end", turn |-> turn, outcome |-> result] \in Event
    BY DEF TypeOK, HarnessOK, Event
  <2>2. QED
    BY <1>1, <2>1, HarnessEventStart DEF TurnEnd
<1>2. ASSUME NEW req \in Perms, Ask(req)
      PROVE  OneStart'
  <2>1. [kind |-> "ask", req |-> req] \in Event
    BY DEF Event
  <2>2. QED
    BY <1>2, <2>1, HarnessEventStart DEF Ask
<1>3. CASE HarnessCrash
  <2> DEFINE event == [kind |-> "error"]
  <2>1. runtime = "live" /\ runtime' = "dead" /\ event \in Event
    BY <1>3 DEF HarnessCrash, Event
  <2> HIDE DEF event
  <2>2. CASE ApplyEvent(event) /\ UNCHANGED <<starts, holding, draining>>
    <3>1. CASE holding /\ UNCHANGED <<metaQ, activeTurn, queue>>
      <4>1. Adds("nothing")
        BY <3>1, SameAdds
      <4>2. QED
        BY <2>1, <2>2, <3>1, <4>1, SameStart DEF Opened
    <3>2. CASE ~holding /\ HandleEvent(event)
      BY <2>1, <2>2, <3>2, HandledStart
    <3>3. QED
      BY <2>1, <2>2, <3>1, <3>2, AppliedEffect
  <2>3. CASE starts # {} /\ holding /\ AbandonStarts(starts) /\ metaQ' = metaQ
    BY <2>3, Abandoned DEF AbandonStarts
  <2>4. CASE starts # {} /\ ~holding
    BY <2>4, Released
  <2>5. QED
    BY <1>3, <2>2, <2>3, <2>4 DEF HarnessCrash, event
<1>4. QED
  BY <1>1, <1>2, <1>3 DEF HarnessStep

LEMMA CloseBeginsStart ==
  ASSUME TypeOK, WindowInv, OneStart, CloseBegins
  PROVE  OneStart'
<1>1. CASE runtime # "none" /\ AbandonStarts(starts) /\ metaQ' = metaQ
  <2>1. CASE starts = {}
    <3>1. UNCHANGED <<starts, holding, activeTurn, runtime>> /\ draining' = draining /\ queue' = <<>>
      BY <1>1, <2>1 DEF AbandonStarts, CloseBegins, TypeOK, TurnsOK
    <3>2. Adds("nothing")
      BY <1>1, SameAdds
    <3>3. QED
      BY <3>1, <3>2, SameStart DEF Opened
  <2>2. CASE starts # {}
    BY <1>1, <2>2, Abandoned DEF AbandonStarts
  <2>3. QED
    BY <2>1, <2>2
<1>2. CASE runtime = "none" /\ Transition("closed", "closed") /\ UNCHANGED <<draining, starts, holding>>
  <2>1. Adds("closed")
    BY <1>2, TransitionAdds DEF TypeOK, Statuses, Thens
  <2>2. QED
    BY <1>2, <2>1, SameStart DEF CloseBegins, Opened
<1>3. QED
  BY <1>1, <1>2 DEF CloseBegins

LEMMA ClientStepStart ==
  ASSUME "overlap" \notin Races, TypeOK, WindowInv, OneStart, ClientStep
  PROVE  OneStart'
<1>1. CASE CreateSession \/ ResumeSession
  <2>1. Adds("spawn")
    BY <1>1, TransitionAdds DEF CreateSession, ResumeSession, TypeOK, Statuses, Thens
  <2>2. QED
    BY <1>1, <2>1, SameStart DEF CreateSession, ResumeSession, turns, hold, Opened
<1>2. CASE PromptQueued
  <2>1. Adds("nothing") /\ activeTurn # 0
    BY <1>2, SameAdds DEF PromptQueued, store
  <2>2. QED
    BY <1>2, <2>1 DEF PromptQueued, life, hold, OneStart, Adds, Opened
<1>3. CASE PromptStarted
  <2>1. /\ Adds("nothing") /\ runtime # "none" /\ activeTurn = 0 /\ activeTurn' = 0
        /\ starts = {} /\ queue' = <<>>
    BY <1>3, SameAdds DEF PromptStarted, store, Allows
  <2>2. ~OpeningDue' /\ OneOpening'
    BY <2>1 DEF OneStart, Adds, Opened
  <2>3. CASE Send(submitted + 1, FALSE)
    BY <2>1, <2>2, <2>3, SentOne
  <2>4. CASE starts' = starts
    BY <2>1, <2>2, <2>4, NoStart
  <2>5. QED
    BY <1>3, <2>3, <2>4 DEF PromptStarted
<1>4. CASE Interrupt
  <2>1. Adds("nothing")
    BY <1>4, SameAdds DEF Interrupt, store
  <2>2. QED
    BY <1>4, <2>1, SameStart DEF Interrupt, life, hold, Opened
<1>5. ASSUME NEW req \in Perms, RespondPermission(req)
      PROVE  OneStart'
  <2>1. [kind |-> "answer", req |-> req] \in Event
    BY DEF Event
  <2>2. QED
    BY <1>5, <2>1, HarnessEventStart DEF RespondPermission
<1>6. ASSUME NEW caller \in Waiters, WaitForTurn(caller)
      PROVE  OneStart'
  <2>1. Adds("nothing")
    BY <1>6, SameAdds DEF WaitForTurn, store
  <2>2. QED
    BY <1>6, <2>1, SameStart DEF WaitForTurn, life, turns, hold, Opened
<1>7. CASE AcknowledgeAttention
  <2>1. Adds("nothing")
    BY <1>7, RefreshAdds DEF AcknowledgeAttention, TypeOK
  <2>2. QED
    BY <1>7, <2>1, SameStart DEF AcknowledgeAttention, life, turns, hold, Opened
<1>8. CASE CloseSession
  BY <1>8, CloseBeginsStart DEF CloseSession
<1>9. QED
  BY <1>1, <1>2, <1>3, <1>4, <1>5, <1>6, <1>7, <1>8 DEF ClientStep

(* A completed write that opens no turn. *)
LEMMA RemovedStart ==
  ASSUME OneStart, NEW then, then \notin Opened, Removes(then),
         UNCHANGED <<starts, holding, activeTurn, draining, runtime, queue>>
  PROVE  OneStart'
BY DEF OneStart, Removes

LEMMA WriteCompletesStart ==
  ASSUME TypeOK, OneStart, WriteCompletes
  PROVE  OneStart'
<1>0. StoreOK
  BY DEF TypeOK
<1>1. CASE WrittenOnly
  <2>1. Removes("nothing")
    BY <1>0, <1>1, TailRemoves DEF WrittenOnly
  <2>2. QED
    BY <1>1, <2>1, RemovedStart DEF WrittenOnly, life, turns, hold, Opened
<1>2. CASE WrittenSpawn
  <2>1. Removes("spawn")
    BY <1>0, <1>2, TransitionDoneRemoves DEF WrittenSpawn
  <2>2. QED
    BY <1>2, <2>1, RemovedStart DEF WrittenSpawn, turns, hold, Opened
<1>3. CASE WrittenRefresh
  <2>1. Removes("refresh")
    BY <1>0, <1>3, TransitionDoneRemoves DEF WrittenRefresh
  <2>2. QED
    BY <1>3, <2>1, RemovedStart DEF WrittenRefresh, life, turns, hold, Opened
<1>4. CASE WrittenRunning
  <2>1. (Removes("running") \/ Removes("drained")) /\ starts' = starts
    BY <1>0, <1>4, TransitionDoneRemoves DEF WrittenRunning
  <2>2. starts = {} /\ ~OpeningDue' /\ OneOpening'
    BY <2>1 DEF OneStart, Removes, Opened
  <2>3. QED
    BY <2>1, <2>2, NoStart
<1>5. CASE WrittenIdle
  <2>1. Removes("idle") /\ activeTurn' = activeTurn /\ runtime' = runtime
    BY <1>0, <1>5, TransitionDoneRemoves DEF WrittenIdle, life
  <2>2. CASE ~CanDrain
    <3>1. UNCHANGED <<queue, draining, starts, holding>>
      BY <1>5, <2>2 DEF WrittenIdle
    <3>2. QED
      BY <2>1, <3>1, RemovedStart DEF Opened
  <2>3. CASE CanDrain
    <3>1. starts = {} /\ ~OpeningDue' /\ OneOpening' /\ activeTurn' = 0
      BY <2>1, <2>3 DEF CanDrain, OneStart, Removes, Opened
    <3>2. starts' = starts \/ (Send(Head(queue), TRUE) /\ draining')
      BY <1>5, <2>3 DEF WrittenIdle
    <3>3. QED
      BY <3>1, <3>2, NoStart, SentOne
  <2>4. QED
    BY <2>2, <2>3
<1>6. CASE WrittenClosed
  <2> DEFINE tidied == IF mode = "up" THEN [meta EXCEPT !.attn = "none"] ELSE meta
  <2>1. MetaWritten("closed") /\ metaQ' = Persisted(Tail(metaQ), meta, tidied)
    BY <1>6 DEF WrittenClosed
  <2>2. tidied \in Meta
    BY <1>0, TidiedType DEF StoreOK
  <2> HIDE DEF tidied
  <2>3. Removes("closed")
    BY <1>0, <2>1, <2>2, RefreshRemoves
  <2>4. QED
    BY <1>6, <2>3, RemovedStart DEF WrittenClosed, turns, hold, Opened
<1>7. QED
  BY <1>1, <1>2, <1>3, <1>4, <1>5, <1>6 DEF WriteCompletes

(* The answer to startTurn ends the start and opens its turn, or gives both up. *)
LEMMA StartTurnStart ==
  ASSUME TypeOK, OneStart, StartTurnResolves
  PROVE  OneStart'
<1>1. ASSUME NEW start \in starts
      PROVE  starts \ {start} = {}
  BY <1>1 DEF OneStart
<1>2. ASSUME NEW start \in starts, StartTurnOk(start)
      PROVE  OneStart'
  <2> DEFINE then == IF start.drain THEN "drained" ELSE "running"
  <2>1. then \in Opened /\ then \in Thens /\ Transition("running", then)
    BY <1>2 DEF StartTurnOk, Opened, Thens
  <2> HIDE DEF then
  <2>2. Adds(then)
    BY <2>1, TransitionAdds DEF TypeOK, Statuses
  <2>3. OneOpening' /\ holding
    BY <2>1, <2>2 DEF OneStart, Adds
  <2>4. starts' = {} /\ holding' = holding /\ activeTurn' # 0
    <3>1. start.turn \in Turn
      BY DEF TypeOK, TurnsOK, Start
    <3>2. QED
      BY <1>1, <1>2, <3>1 DEF StartTurnOk, hold, Turn
  <2>5. QED
    BY <2>3, <2>4 DEF OneStart
<1>3. ASSUME NEW start \in starts, StartTurnFail(start)
      PROVE  OneStart'
  BY <1>1, <1>3, Abandoned DEF StartTurnFail, AbandonStarts, store
<1>4. QED
  BY <1>2, <1>3 DEF StartTurnResolves

LEMMA DaemonStepStart ==
  ASSUME TypeOK, RunInv, WindowInv, OneStart, DaemonStep
  PROVE  OneStart'
<1>1. CASE SpawnResolves
  <2>1. opening = "spawning" /\ runtime = "none" /\ starts' = starts
    BY <1>1 DEF SpawnResolves, SpawnOk, SpawnFail, RunInv, Shape, turns
  <2>2. Adds("refresh")
    BY <1>1, SpawnOkAdds, TransitionAdds
       DEF SpawnResolves, SpawnFail, TypeOK, Statuses, Thens
  <2>3. starts' = {} /\ ~OpeningDue' /\ OneOpening'
    BY <2>1, <2>2 DEF WindowInv, HoldInv, SpawnInv, OneStart, Adds, Opened
  <2>4. QED
    BY <2>3, NoStart
<1>2. ASSUME NEW caller \in Waiters, WaitTimeout(caller)
      PROVE  OneStart'
  <2>1. Adds("nothing")
    BY <1>2, SameAdds DEF WaitTimeout, store
  <2>2. QED
    BY <1>2, <2>1, SameStart DEF WaitTimeout, life, turns, hold, Opened
<1>3. CASE Terminated
  <2>1. Adds("closed") /\ starts = {}
    BY <1>3, TransitionAdds
       DEF Terminated, TypeOK, Statuses, Thens, WindowInv, HoldInv
  <2>2. QED
    BY <1>3, <2>1 DEF Terminated, hold, OneStart, Adds, Opened
<1>4. CASE Shutdown
  <2>1. Adds("nothing")
    BY <1>4, SameAdds DEF Shutdown, store
  <2>2. QED
    BY <1>4, <2>1, SameStart DEF Shutdown, turns, hold, Opened
<1>5. CASE ShutdownClose
  BY <1>5, CloseBeginsStart DEF ShutdownClose
<1>6. CASE ShutdownDone \/ DaemonCrash
  <2>1. starts' = {} /\ metaQ' = <<>>
    BY <1>6 DEF ShutdownDone, DaemonCrash, GoDown
  <2>2. QED
    BY <2>1 DEF OneStart, OpeningDue, OneOpening, Awaits, NoneAfter
<1>7. CASE Restart
  <2>1. Adds("nothing")
    BY <1>7, SameAdds DEF Restart
  <2>2. QED
    BY <1>7, <2>1, SameStart DEF Restart, turns, hold, Opened
<1>8. QED
  BY <1>1, <1>2, <1>3, <1>4, <1>5, <1>6, <1>7, StartTurnStart, WriteCompletesStart DEF DaemonStep

(* Every step keeps to one prompt at a time. *)
LEMMA NextStart ==
  ASSUME "overlap" \notin Races, TypeOK, RunInv, WindowInv, OneStart, [Next]_vars
  PROVE  OneStart'
<1>1. CASE UNCHANGED vars
  <2>1. Adds("nothing")
    BY <1>1, SameAdds DEF vars, store
  <2>2. QED
    BY <1>1, <2>1, SameStart DEF vars, life, turns, hold, Opened
<1>2. CASE FlushOne
  <2>1. ~holding
    BY <1>2, FlushEffect DEF WindowInv, HoldInv
  <2>2. QED
    BY <1>2, <2>1, FlushEffect, HandledStart
<1>3. CASE ClientStep
  BY <1>3, ClientStepStart
<1>4. CASE HarnessStep
  BY <1>4, HarnessStepStart
<1>5. CASE DaemonStep
  BY <1>5, DaemonStepStart
<1>6. QED
  BY <1>1, <1>2, <1>3, <1>4, <1>5 DEF Next

(* The start and the opening of a turn do not meet those of another. *)
LEMMA StartInvariant ==
  ASSUME "overlap" \notin Races
  PROVE  Spec => []OneStart
<1>1. Init => OneStart
  BY DEF Init, OneStart, OpeningDue, OneOpening, Awaits, NoneAfter
<1>2. TypeOK /\ RunInv /\ WindowInv /\ OneStart /\ [Next]_vars => OneStart'
  BY NextStart
<1>3. QED
  BY <1>1, <1>2, TypeCorrect, RunInvariant, WindowInvariant, PTL DEF Spec

-----------------------------------------------------------------------------
(* One turn at a time *)

(* There is one prompt being sent, or one active turn. *)
LEMMA WorkingOne ==
  ASSUME OneStart
  PROVE  \A turn, other \in Working : turn = other
BY DEF OneStart, Working

LEMMA LiveOne ==
  ASSUME OneStart, HarnessInv
  PROVE  \A turn, other \in live : turn = other
BY WorkingOne DEF HarnessInv

(* A step that leaves the turn, the harness and its events alone. *)
LEMMA SameHarness ==
  ASSUME HarnessInv, UNCHANGED <<starts, activeTurn, live, held, flush, runtime>>,
         queue' = queue \/ queue' = <<>>,
         closing' = "terminating" <=> closing = "terminating"
  PROVE  HarnessInv'
BY DEF HarnessInv, Working

(* A step after which the harness has nothing to do. *)
LEMMA NothingLive ==
  ASSUME live' = {}, starts' = {}, activeTurn' = 0
  PROVE  HarnessInv'
BY DEF HarnessInv

(* A prompt is sent to a harness that has nothing to do. *)
LEMMA SentHarness ==
  ASSUME starts = {}, live = {}, activeTurn' = 0, flush' = <<>>, runtime' = runtime,
         NEW turn, NEW drain, Send(turn, drain)
  PROVE  HarnessInv'
<1>1. starts' = {[turn |-> turn, drain |-> drain]} /\ held' = <<>>
  BY DEF Send
<1>2. live' = IF runtime = "live" THEN {turn} ELSE {}
  BY DEF Send
<1>3. Working' = {turn}
  BY <1>1 DEF Working
<1>4. ~Arrived(held', Vital) /\ ~Arrived(flush', Vital)
  BY <1>1, ArrivedEmpty
<1>5. QED
  BY <1>1, <1>2, <1>3, <1>4 DEF HarnessInv

(* An event that is handled: the end of a turn finds the harness done. *)
LEMMA HandledHarness ==
  ASSUME TypeOK, OneStart, HarnessInv, ~holding, NEW event \in Event, HandleEvent(event),
         UNCHANGED <<starts, held, runtime, closing>>,
         event.kind \in Vital => live' = {},
         event.kind \notin Vital =>
           live' = live /\ (Arrived(flush', Vital) <=> Arrived(flush, Vital))
  PROVE  HarnessInv'
<1>1. starts = {} /\ starts' = {}
  BY Released
<1>2. CASE event.kind \in Vital
  <2>1. activeTurn' = 0
    BY <1>2, EventEffect DEF Vital
  <2>2. QED
    BY <1>1, <1>2, <2>1, NothingLive
<1>3. CASE event.kind \notin Vital
  <2>1. activeTurn' = activeTurn /\ queue' = queue
    BY <1>3, EventEffect
  <2>2. QED
    BY <1>1, <1>3, <2>1 DEF HarnessInv, Working
<1>4. QED
  BY <1>2, <1>3

(* An event that is put aside. *)
LEMMA HeldHarness ==
  ASSUME TypeOK, HarnessInv, NEW event \in Event, held' = Append(held, event),
         UNCHANGED <<starts, flush, closing, activeTurn, queue>>,
         runtime' = runtime \/ (runtime' = "dead" /\ live' = {}),
         live' = live \/ live' = {},
         event.kind \in Vital => live' = {},
         live' # live => event.kind \in Vital
  PROVE  HarnessInv'
<1>1. held \in Seq(Event)
  BY DEF TypeOK, HoldOK
<1>2. Arrived(held', Vital) <=> Arrived(held, Vital) \/ event.kind \in Vital
  BY <1>1, ArrivedAppend
<1>3. QED
  BY <1>2 DEF HarnessInv, Working

(* The end of a turn: the harness has no other. *)
LEMMA TurnEndHarness ==
  ASSUME TypeOK, OneStart, HarnessInv, flush = <<>>,
         NEW turn \in live, NEW result \in Outcomes, TurnEnd(turn, result)
  PROVE  HarnessInv'
<1> DEFINE event == [kind |-> "end", turn |-> turn, outcome |-> result]
<1>1. event \in Event /\ event.kind \in Vital
  BY DEF TypeOK, HarnessOK, Event, Vital
<1>2. /\ UNCHANGED <<starts, holding, runtime, closing, flush>> /\ ApplyEvent(event)
      /\ live' = live \ {turn}
  BY DEF TurnEnd, HarnessEvent, EventFrame
<1> HIDE DEF event
<1>3. live' = {}
  BY <1>2, LiveOne
<1>4. CASE holding /\ held' = Append(held, event) /\ UNCHANGED <<activeTurn, queue>>
  BY <1>1, <1>2, <1>3, <1>4, HeldHarness
<1>5. CASE ~holding /\ held' = held /\ HandleEvent(event)
  BY <1>1, <1>2, <1>3, <1>5, HandledHarness
<1>6. QED
  BY <1>1, <1>2, <1>4, <1>5, AppliedEffect

(* A request for an approval, and its answer. *)
LEMMA RequestHarness ==
  ASSUME TypeOK, OneStart, HarnessInv, flush = <<>>,
         NEW event \in Event, event.kind \in {"ask", "answer"}, HarnessEvent(event), UNCHANGED live
  PROVE  HarnessInv'
<1>1. event.kind \notin Vital
  BY DEF Vital
<1>2. UNCHANGED <<starts, holding, runtime, closing, flush>> /\ ApplyEvent(event)
  BY DEF HarnessEvent, EventFrame
<1>3. CASE holding /\ held' = Append(held, event) /\ UNCHANGED <<activeTurn, queue>>
  BY <1>1, <1>2, <1>3, HeldHarness
<1>4. CASE ~holding /\ held' = held /\ HandleEvent(event)
  BY <1>1, <1>2, <1>4, HandledHarness, ArrivedEmpty
<1>5. QED
  BY <1>2, <1>3, <1>4, AppliedEffect

LEMMA HarnessStepHarness ==
  ASSUME TypeOK, OneStart, HarnessInv, flush = <<>>, HarnessStep
  PROVE  HarnessInv'
<1>1. ASSUME NEW req \in Perms, Ask(req)
      PROVE  HarnessInv'
  <2>1. [kind |-> "ask", req |-> req] \in Event
    BY DEF Event
  <2>2. QED
    BY <1>1, <2>1, RequestHarness DEF Ask
<1>2. CASE HarnessCrash
  <2> DEFINE event == [kind |-> "error"]
  <2>1. /\ runtime' = "dead" /\ live' = {} /\ UNCHANGED <<closing, flush>>
        /\ event \in Event /\ event.kind = "error"
    BY <1>2 DEF HarnessCrash, Event
  <2> HIDE DEF event
  <2>2. CASE starts = {} /\ starts' = starts /\ ApplyEvent(event)
    <3>1. CASE holding /\ held' = Append(held, event) /\ UNCHANGED <<activeTurn, queue>>
      BY <2>1, <2>2, <3>1, HeldHarness DEF Vital
    <3>2. CASE HandleEvent(event)
      <4>1. activeTurn' = 0
        BY <2>1, <3>2, EventEffect
      <4>2. QED
        BY <2>1, <2>2, <4>1, NothingLive
    <3>3. QED
      BY <2>1, <2>2, <3>1, <3>2, AppliedEffect
  <2>3. CASE starts # {} /\ AbandonStarts(starts) /\ activeTurn' \in {activeTurn, 0}
    <3>1. starts' = {} /\ activeTurn' = 0
      BY <2>3 DEF AbandonStarts, OneStart
    <3>2. QED
      BY <2>1, <3>1, NothingLive
  <2>4. QED
    BY <1>2, <2>2, <2>3 DEF HarnessCrash, HandleError, event
<1>3. QED
  BY <1>1, <1>2, TurnEndHarness DEF HarnessStep

(* A close abandons the prompt that is being sent; the harness may still work on it. *)
LEMMA CloseBeginsHarness ==
  ASSUME TypeOK, WindowInv, OneStart, HarnessInv, closing # "terminating", CloseBegins
  PROVE  HarnessInv'
<1>1. UNCHANGED <<runtime, activeTurn, flush, live>> /\ queue' = <<>>
  BY DEF CloseBegins, harness
<1>2. CASE runtime # "none" /\ closing' = "terminating" /\ AbandonStarts(starts)
  <2>1. starts' = {} /\ (held' = held \/ held' = <<>>)
    BY <1>2 DEF AbandonStarts
  <2>2. Arrived(held', Vital) => Arrived(held, Vital)
    BY <2>1, ArrivedEmpty
  <2>3. starts = {} => Working' = Working
    BY <1>1, <2>1 DEF Working
  <2>4. starts # {} => activeTurn = 0
    BY DEF OneStart
  <2>5. QED
    BY <1>1, <1>2, <2>1, <2>2, <2>3, <2>4, LiveOne DEF HarnessInv
<1>3. CASE runtime = "none" /\ closing' = "persisting" /\ UNCHANGED <<starts, held>>
  BY <1>1, <1>3, SameHarness
<1>4. QED
  BY <1>2, <1>3 DEF CloseBegins

LEMMA ClientStepHarness ==
  ASSUME "overlap" \notin Races, TypeOK, WindowInv, OneStart, HarnessInv, flush = <<>>, ClientStep
  PROVE  HarnessInv'
<1>1. CASE CreateSession \/ ResumeSession
  BY <1>1, SameHarness DEF CreateSession, ResumeSession, turns, hold, harness
<1>2. CASE PromptQueued
  <2>1. activeTurn # 0 /\ UNCHANGED <<starts, activeTurn, live, held, flush, runtime, closing>>
    BY <1>2 DEF PromptQueued, life, hold, harness
  <2>2. QED
    BY <2>1 DEF HarnessInv, Working
<1>3. CASE PromptStarted
  <2>1. /\ UNCHANGED <<closing, runtime, flush, activeTurn, queue>>
        /\ activeTurn = 0 /\ starts = {} /\ queue = <<>>
        /\ IF closing = "terminating"
           THEN held' = <<>> /\ UNCHANGED <<starts, live>>
           ELSE Send(submitted + 1, FALSE)
    BY <1>3 DEF PromptStarted, life, Allows
  <2>2. CASE closing = "terminating"
    <3>1. ~Arrived(held', Vital) /\ ~Arrived(flush', Vital)
      BY <2>1, <2>2, ArrivedEmpty
    <3>2. QED
      BY <2>1, <2>2, <3>1 DEF HarnessInv, Working
  <2>3. CASE closing # "terminating"
    <3>1. live = {}
      BY <2>1, <2>3 DEF HarnessInv, Working
    <3>2. QED
      BY <2>1, <2>3, <3>1, SentHarness
  <2>4. QED
    BY <2>2, <2>3
<1>4. CASE Interrupt
  BY <1>4, SameHarness DEF Interrupt, life, hold
<1>5. ASSUME NEW req \in Perms, RespondPermission(req)
      PROVE  HarnessInv'
  <2>1. [kind |-> "answer", req |-> req] \in Event
    BY DEF Event
  <2>2. QED
    BY <1>5, <2>1, RequestHarness DEF RespondPermission
<1>6. ASSUME NEW caller \in Waiters, WaitForTurn(caller)
      PROVE  HarnessInv'
  BY <1>6, SameHarness DEF WaitForTurn, life, turns, hold, harness
<1>7. CASE AcknowledgeAttention
  BY <1>7, SameHarness DEF AcknowledgeAttention, life, turns, hold, harness
<1>8. CASE CloseSession
  BY <1>8, CloseBeginsHarness DEF CloseSession
<1>9. QED
  BY <1>1, <1>2, <1>3, <1>4, <1>5, <1>6, <1>7, <1>8 DEF ClientStep

LEMMA WriteCompletesHarness ==
  ASSUME TypeOK, WindowInv, OneStart, HarnessInv, flush = <<>>, WriteCompletes
  PROVE  HarnessInv'
<1>1. CASE WrittenOnly \/ WrittenSpawn \/ WrittenRefresh
  BY <1>1, SameHarness DEF WrittenOnly, WrittenSpawn, WrittenRefresh, life, turns, hold, harness
<1>2. CASE WrittenRunning
  <2>1. flush' = held /\ held' = <<>> /\ UNCHANGED <<runtime, closing, queue, starts, activeTurn, live>>
    BY <1>2 DEF WrittenRunning, life, harness
  <2>2. starts = {} /\ ~Arrived(held', Vital) /\ ~Arrived(flush, Vital)
    <3>1. OpeningDue
      BY <1>2 DEF WrittenRunning, TransitionDone, MetaWritten, TypeOK, StoreOK, Queued,
                  OpeningDue, Opened, Awaits
    <3>2. QED
      BY <2>1, <3>1, ArrivedEmpty DEF OneStart
  <2>3. QED
    BY <2>1, <2>2 DEF HarnessInv, Working
<1>3. CASE WrittenIdle
  <2>1. UNCHANGED <<runtime, closing, flush, activeTurn>>
    BY <1>3 DEF WrittenIdle, life
  <2>2. CASE ~CanDrain
    <3>1. UNCHANGED <<queue, starts, held, live>>
      BY <1>3, <2>2 DEF WrittenIdle
    <3>2. QED
      BY <2>1, <3>1, SameHarness
  <2>3. CASE CanDrain
    <3>1. starts = {} /\ activeTurn' = 0 /\ live = {}
      BY <2>1, <2>3 DEF CanDrain, OneStart, HarnessInv, Working
    <3>2. Send(Head(queue), TRUE) \/ UNCHANGED <<starts, live>>
      BY <1>3, <2>3 DEF WrittenIdle
    <3>3. QED
      BY <2>1, <3>1, <3>2, SentHarness, NothingLive
  <2>4. QED
    BY <2>2, <2>3
<1>4. CASE WrittenClosed
  <2>1. ClosedDue
    BY <1>4 DEF WrittenClosed, MetaWritten, TypeOK, StoreOK, Queued, ClosedDue, Awaits
  <2>2. closing = "persisting" /\ closing' = "none"
    BY <1>4, <2>1 DEF WindowInv, CloseInv, WrittenClosed
  <2>3. QED
    BY <1>4, <2>2, SameHarness DEF WrittenClosed, turns, hold, harness
<1>5. QED
  BY <1>1, <1>2, <1>3, <1>4 DEF WriteCompletes

LEMMA DaemonStepHarness ==
  ASSUME "reject" \notin Races, TypeOK, RunInv, WindowInv, OneStart, HarnessInv, flush = <<>>,
         DaemonStep
  PROVE  HarnessInv'
<1>1. ASSUME NEW start \in starts
      PROVE  /\ starts = {start} /\ activeTurn = 0 /\ start.turn \in Turn
             /\ Working = {start.turn} /\ live \subseteq {start.turn}
             /\ closing # "terminating"
  <2>1. starts = {start} /\ activeTurn = 0 /\ start.turn \in Turn
    BY <1>1 DEF OneStart, TypeOK, TurnsOK, Start
  <2>2. Working = {start.turn}
    BY <2>1 DEF Working
  <2>3. closing # "terminating"
    BY <1>1 DEF WindowInv, HoldInv
  <2>4. QED
    BY <2>1, <2>2, <2>3 DEF HarnessInv
<1>2. ASSUME NEW start \in starts, StartTurnOk(start)
      PROVE  HarnessInv'
  <2>1. /\ starts' = {} /\ activeTurn' = start.turn /\ runtime = "live"
        /\ UNCHANGED <<closing, runtime, live, held, flush>>
    BY <1>1, <1>2 DEF StartTurnOk, life, hold, harness
  <2>2. Working' = {start.turn}
    BY <1>1, <2>1 DEF Working, Turn
  <2>3. QED
    BY <1>1, <2>1, <2>2 DEF HarnessInv
<1>3. ASSUME NEW start \in starts, StartTurnFail(start)
      PROVE  HarnessInv'
  <2>1. starts' = {} /\ activeTurn' = 0 /\ live' = live \ {start.turn}
    BY <1>1, <1>3 DEF StartTurnFail, AbandonStarts, Allows
  <2>2. QED
    BY <1>1, <2>1, NothingLive
<1>4. CASE SpawnResolves
  <2>1. /\ UNCHANGED <<starts, activeTurn, live>>
        /\ opening = "spawning" /\ runtime = "none"
    BY <1>4 DEF SpawnResolves, SpawnOk, SpawnFail, RunInv, Shape, turns, harness
  <2>2. starts' = {} /\ live' = {} /\ activeTurn' = 0
    BY <2>1 DEF WindowInv, HoldInv, HarnessInv, RunInv, Shape
  <2>3. QED
    BY <2>2, NothingLive
<1>5. ASSUME NEW caller \in Waiters, WaitTimeout(caller)
      PROVE  HarnessInv'
  BY <1>5, SameHarness DEF WaitTimeout, life, turns, hold, harness
<1>6. CASE Terminated
  BY <1>6, NothingLive DEF Terminated, WindowInv, HoldInv
<1>7. CASE Shutdown
  BY <1>7, SameHarness DEF Shutdown, turns, hold
<1>8. CASE ShutdownClose
  BY <1>8, CloseBeginsHarness DEF ShutdownClose
<1>9. CASE ShutdownDone \/ DaemonCrash
  BY <1>9, NothingLive DEF ShutdownDone, DaemonCrash, GoDown
<1>10. CASE Restart
  BY <1>10, SameHarness DEF Restart, turns, hold, harness
<1>11. QED
  BY <1>2, <1>3, <1>4, <1>5, <1>6, <1>7, <1>8, <1>9, <1>10, WriteCompletesHarness
     DEF DaemonStep, StartTurnResolves

(* Every step leaves the harness with the manager's turn, or with none. *)
LEMMA NextHarness ==
  ASSUME "overlap" \notin Races, "reject" \notin Races,
         TypeOK, RunInv, WindowInv, OneStart, HarnessInv, [Next]_vars
  PROVE  HarnessInv'
<1>1. CASE UNCHANGED vars
  BY <1>1, SameHarness DEF vars, life, turns, hold, harness
<1>2. CASE FlushOne
  <2>1. /\ Head(flush) \in Event /\ HandleEvent(Head(flush)) /\ flush # <<>> /\ flush' = Tail(flush)
        /\ UNCHANGED <<starts, held, runtime, closing, live>> /\ flush \in Seq(Event)
    BY <1>2, FlushEffect DEF TypeOK, HoldOK
  <2>2. ~holding
    BY <2>1 DEF WindowInv, HoldInv
  <2>3. Arrived(flush, Vital) <=> Head(flush).kind \in Vital \/ Arrived(flush', Vital)
    BY <2>1, ArrivedTail
  <2>4. Head(flush).kind \in Vital => live' = {}
    BY <2>1, <2>3 DEF HarnessInv
  <2>5. QED
    BY <2>1, <2>2, <2>3, <2>4, HandledHarness
<1>3. CASE flush = <<>> /\ ClientStep
  BY <1>3, ClientStepHarness
<1>4. CASE flush = <<>> /\ HarnessStep
  BY <1>4, HarnessStepHarness
<1>5. CASE flush = <<>> /\ DaemonStep
  BY <1>5, DaemonStepHarness
<1>6. QED
  BY <1>1, <1>2, <1>3, <1>4, <1>5 DEF Next

(***************************************************************************)
(* What the harness works on is the turn the manager knows of, and an end  *)
(* of that turn is never lost: if the harness does not work on it, its end *)
(* is among the events that are still to be applied.                       *)
(***************************************************************************)
THEOREM HarnessInvariant ==
  ASSUME "overlap" \notin Races, "reject" \notin Races
  PROVE  Spec => [](OneStart /\ HarnessInv)
<1>1. Init => HarnessInv
  BY DEF Init, HarnessInv
<1>2. TypeOK /\ RunInv /\ WindowInv /\ OneStart /\ HarnessInv /\ [Next]_vars => HarnessInv'
  BY NextHarness
<1>3. QED
  BY <1>1, <1>2, TypeCorrect, RunInvariant, WindowInvariant, StartInvariant, PTL DEF Spec

(* The harness never has two prompts of a session at the same time. *)
THEOREM NeverTwoTurns ==
  ASSUME "overlap" \notin Races, "reject" \notin Races
  PROVE  Spec => []OneTurnAtATime
<1>1. ASSUME OneStart, HarnessInv
      PROVE  OneTurnAtATime
  <2>1. CASE live = {}
    BY <2>1, FS_EmptySet DEF OneTurnAtATime
  <2>2. CASE live # {}
    <3>1. PICK turn \in live : live = {turn}
      BY <1>1, <2>2, LiveOne
    <3>2. QED
      BY <3>1, FS_Singleton DEF OneTurnAtATime
  <2>3. QED
    BY <2>1, <2>2
<1>2. OneStart /\ HarnessInv => OneTurnAtATime
  BY <1>1
<1>3. QED
  BY <1>2, HarnessInvariant, PTL

-----------------------------------------------------------------------------
(* The order of turns *)

(* Turns are numbers, and so is everything they are compared with. *)
LEMMA TurnNumbers ==
  ASSUME TypeOK
  PROVE  /\ lastOpened \in Nat /\ lastEnded \in Nat /\ submitted \in Nat /\ stopMark \in Nat
         /\ \A start \in starts : start.turn \in Nat
         /\ queue \in Seq(Turn) /\ \A i \in DOMAIN queue : queue[i] \in Nat
         /\ held \in Seq(Event) /\ flush \in Seq(Event)
         /\ \A turn \in live : turn \in Nat
<1>1. MaxPrompts \in Nat /\ \A turn \in Turn : turn \in Nat
  BY BoundAssumption DEF Turn
<1>2. queue \in Seq(Turn) /\ held \in Seq(Event) /\ flush \in Seq(Event)
  BY DEF TypeOK, TurnsOK, HoldOK
<1>3. \A i \in DOMAIN queue : queue[i] \in Turn
  BY <1>2
<1>4. \A start \in starts : start.turn \in Turn
  BY DEF TypeOK, TurnsOK, Start
<1>5. QED
  BY <1>1, <1>2, <1>3, <1>4 DEF TypeOK, HistoryOK, HarnessOK

(* A step that opens, queues and ends no turn; it may give some up. *)
LEMMA SameOrder ==
  ASSUME OrderInv, UNCHANGED <<lastEnded, lastOpened, submitted>>,
         activeTurn' = activeTurn \/ activeTurn' = 0,
         queue' = queue \/ queue' = <<>>,
         \/ starts' = starts /\ held' = held
         \/ starts' \subseteq starts /\ held' = <<>>,
         flush' = flush \/ flush' = <<>>
  PROVE  OrderInv'
BY DEF OrderInv

(* An event that is handled; if it ends a turn, one that was opened. *)
LEMMA HandledOrder ==
  ASSUME TypeOK, OrderInv, NEW event \in Event, HandleEvent(event),
         event.kind = "end" => event.turn <= lastOpened,
         UNCHANGED <<starts, held, lastOpened, submitted>>,
         flush' = flush \/ (flush # <<>> /\ flush' = Tail(flush))
  PROVE  OrderInv'
<1>1. /\ activeTurn' = 0 \/ activeTurn' = activeTurn
      /\ queue' = queue \/ queue' = <<>>
      /\ lastEnded' = lastEnded \/ (event.kind = "end" /\ lastEnded' = event.turn)
  BY EventEffect, EventType DEF Vital
<1>2. \A i \in DOMAIN flush' : flush'[i].kind = "end" => flush'[i].turn <= lastOpened
  <2>1. CASE flush' = flush
    BY <2>1 DEF OrderInv
  <2>2. CASE flush # <<>> /\ flush' = Tail(flush)
    <3>1. \A i \in DOMAIN flush' : i + 1 \in DOMAIN flush /\ flush'[i] = flush[i + 1]
      BY <2>2, TurnNumbers, TailAt
    <3>2. QED
      BY <3>1 DEF OrderInv
  <2>3. QED
    BY <2>1, <2>2
<1>3. QED
  BY <1>1, <1>2 DEF OrderInv

(* An event that is put aside; if it ends a turn, the one that is open or being sent. *)
LEMMA HeldOrder ==
  ASSUME TypeOK, OrderInv, NEW event \in Event, held' = Append(held, event),
         event.kind = "end" =>
           event.turn <= lastOpened \/ \E start \in starts : event.turn = start.turn,
         UNCHANGED <<starts, flush, lastEnded, lastOpened, submitted, activeTurn, queue>>
  PROVE  OrderInv'
<1>1. \A i \in DOMAIN held' : (i \in DOMAIN held /\ held'[i] = held[i]) \/ held'[i] = event
  BY TurnNumbers, AppendAt
<1>2. \A i \in DOMAIN held' : held'[i].kind = "end" =>
        held'[i].turn <= lastOpened \/ \E start \in starts : held'[i].turn = start.turn
  BY <1>1 DEF OrderInv
<1>3. QED
  BY <1>2 DEF OrderInv

LEMMA HarnessEventOrder ==
  ASSUME TypeOK, OneStart, OrderInv, NEW event \in Event, HarnessEvent(event),
         event.kind = "end" => event.turn \in Working
  PROVE  OrderInv'
<1>1. UNCHANGED <<starts, holding, flush, lastOpened, submitted>> /\ ApplyEvent(event)
  BY DEF HarnessEvent, EventFrame
<1>2. event.kind = "end" =>
        event.turn <= lastOpened \/ (starts # {} /\ \E start \in starts : event.turn = start.turn)
  BY TurnNumbers DEF Working, OrderInv
<1>3. CASE holding /\ held' = Append(held, event) /\ UNCHANGED <<activeTurn, queue, lastEnded>>
  BY <1>1, <1>2, <1>3, HeldOrder
<1>4. CASE ~holding /\ held' = held /\ HandleEvent(event)
  BY <1>1, <1>2, <1>4, Released, HandledOrder
<1>5. QED
  BY <1>1, <1>3, <1>4, AppliedEffect

LEMMA HarnessStepOrder ==
  ASSUME TypeOK, OneStart, HarnessInv, OrderInv, HarnessStep
  PROVE  OrderInv'
<1>1. ASSUME NEW turn \in live, NEW result \in Outcomes, TurnEnd(turn, result)
      PROVE  OrderInv'
  <2> DEFINE event == [kind |-> "end", turn |-> turn, outcome |-> result]
  <2>1. event \in Event
    BY DEF TypeOK, HarnessOK, Event
  <2>2. HarnessEvent(event) /\ closing # "terminating" /\ event.turn = turn
    BY <1>1 DEF TurnEnd, HarnessEvent, Subscribed
  <2>3. turn \in Working
    BY <2>2 DEF HarnessInv
  <2> HIDE DEF event
  <2>4. QED
    BY <2>1, <2>2, <2>3, HarnessEventOrder
<1>2. ASSUME NEW req \in Perms, Ask(req)
      PROVE  OrderInv'
  <2> DEFINE event == [kind |-> "ask", req |-> req]
  <2>1. event \in Event /\ HarnessEvent(event) /\ event.kind # "end"
    BY <1>2 DEF Event, Ask
  <2> HIDE DEF event
  <2>2. QED
    BY <2>1, HarnessEventOrder
<1>3. CASE HarnessCrash
  <2> DEFINE event == [kind |-> "error"]
  <2>1. UNCHANGED <<flush, lastOpened, submitted>> /\ event \in Event /\ event.kind # "end"
    BY <1>3 DEF HarnessCrash, Event
  <2> HIDE DEF event
  <2>2. CASE starts' = starts /\ ApplyEvent(event)
    <3>1. CASE held' = Append(held, event) /\ UNCHANGED <<activeTurn, queue, lastEnded>>
      BY <2>1, <2>2, <3>1, HeldOrder
    <3>2. CASE held' = held /\ HandleEvent(event)
      BY <2>1, <2>2, <3>2, HandledOrder
    <3>3. QED
      BY <2>1, <2>2, <3>1, <3>2, AppliedEffect
  <2>3. CASE starts # {} /\ AbandonStarts(starts) /\ activeTurn' \in {activeTurn, 0}
             /\ queue' \in {queue, <<>>} /\ lastEnded' = lastEnded
    <3>1. starts' = {} /\ held' = <<>>
      BY <2>3 DEF AbandonStarts
    <3>2. QED
      BY <2>1, <2>3, <3>1, SameOrder
  <2>4. QED
    BY <1>3, <2>2, <2>3 DEF HarnessCrash, HandleError, event
<1>4. QED
  BY <1>1, <1>2, <1>3 DEF HarnessStep

LEMMA CloseBeginsOrder ==
  ASSUME OrderInv, CloseBegins
  PROVE  OrderInv'
<1>1. UNCHANGED <<activeTurn, flush, lastEnded, lastOpened, submitted>> /\ queue' = <<>>
  BY DEF CloseBegins, history
<1>2. \/ starts' = starts /\ held' = held
      \/ starts' = {} /\ held' = <<>>
  BY DEF CloseBegins, AbandonStarts
<1>3. QED
  BY <1>1, <1>2, SameOrder

LEMMA ClientStepOrder ==
  ASSUME "overlap" \notin Races, TypeOK, OneStart, OrderInv, flush = <<>>, ClientStep
  PROVE  OrderInv'
<1>1. CASE CreateSession \/ ResumeSession
  BY <1>1, SameOrder DEF CreateSession, ResumeSession, turns, hold
<1>2. CASE PromptQueued
  <2>1. /\ queue' = Append(queue, submitted + 1) /\ submitted' = submitted + 1
        /\ UNCHANGED <<starts, activeTurn, held, flush, lastEnded, lastOpened>>
        /\ activeTurn # 0 /\ submitted < MaxPrompts
    BY <1>2 DEF PromptQueued, hold
  <2>2. submitted + 1 \in Turn
    BY <2>1, TurnNumbers, BoundAssumption DEF Turn
  <2>3. starts = {}
    BY <2>1 DEF OneStart
  <2>4. /\ \A i \in DOMAIN queue' : \/ i \in DOMAIN queue /\ queue'[i] = queue[i]
                                    \/ i = Len(queue) + 1 /\ queue'[i] = submitted + 1
        /\ \A i, j \in DOMAIN queue' : i < j => i \in DOMAIN queue /\ i # Len(queue) + 1
    <3>1. /\ Len(queue) \in Nat /\ DOMAIN queue = 1..Len(queue)
          /\ DOMAIN queue' = 1..(Len(queue) + 1) /\ queue'[Len(queue) + 1] = submitted + 1
          /\ \A i \in DOMAIN queue : queue'[i] = queue[i]
      BY <2>1, <2>2, TurnNumbers, AppendAt
    <3>2. QED
      BY <3>1
  <2>5. \A i \in DOMAIN queue' :
          /\ lastOpened < queue'[i] /\ queue'[i] <= submitted + 1
          /\ \A j \in DOMAIN queue' : i < j => queue'[i] < queue'[j]
    <3>1. SUFFICES ASSUME NEW i \in DOMAIN queue'
                   PROVE  /\ lastOpened < queue'[i] /\ queue'[i] <= submitted + 1
                          /\ \A j \in DOMAIN queue' : i < j => queue'[i] < queue'[j]
      OBVIOUS
    <3>2. CASE i \in DOMAIN queue /\ queue'[i] = queue[i]
      <4>1. lastOpened < queue[i] /\ queue[i] <= submitted /\ queue[i] \in Nat
        BY <3>2, TurnNumbers DEF OrderInv
      <4>2. ASSUME NEW j \in DOMAIN queue', i < j
            PROVE  queue'[i] < queue'[j]
        <5>1. CASE j \in DOMAIN queue /\ queue'[j] = queue[j]
          BY <3>2, <4>2, <5>1 DEF OrderInv
        <5>2. CASE queue'[j] = submitted + 1
          BY <3>2, <4>1, <5>2, TurnNumbers
        <5>3. QED
          BY <2>4, <5>1, <5>2
      <4>3. QED
        BY <3>2, <4>1, <4>2, TurnNumbers
    <3>3. CASE i = Len(queue) + 1 /\ queue'[i] = submitted + 1
      BY <2>4, <3>3, TurnNumbers DEF OrderInv
    <3>4. QED
      BY <2>4, <3>2, <3>3
  <2>6. QED
    BY <2>1, <2>3, <2>5, TurnNumbers DEF OrderInv
<1>3. CASE PromptStarted
  <2>1. /\ submitted' = submitted + 1 /\ queue = <<>> /\ queue' = <<>> /\ starts = {}
        /\ UNCHANGED <<activeTurn, flush, lastEnded, lastOpened>> /\ held' = <<>>
        /\ starts' = {} \/ starts' = {[turn |-> submitted + 1, drain |-> FALSE]}
    BY <1>3 DEF PromptStarted, Allows, Send
  <2>2. \A start \in starts' : start.turn = submitted + 1
    BY <2>1
  <2>3. QED
    BY <2>1, <2>2, TurnNumbers DEF OrderInv
<1>4. CASE Interrupt
  BY <1>4, SameOrder DEF Interrupt, hold
<1>5. ASSUME NEW req \in Perms, RespondPermission(req)
      PROVE  OrderInv'
  <2> DEFINE event == [kind |-> "answer", req |-> req]
  <2>1. event \in Event /\ HarnessEvent(event) /\ event.kind # "end"
    BY <1>5 DEF Event, RespondPermission
  <2> HIDE DEF event
  <2>2. QED
    BY <2>1, HarnessEventOrder
<1>6. ASSUME NEW caller \in Waiters, WaitForTurn(caller)
      PROVE  OrderInv'
  BY <1>6, SameOrder DEF WaitForTurn, turns, hold, history
<1>7. CASE AcknowledgeAttention
  BY <1>7, SameOrder DEF AcknowledgeAttention, turns, hold, history
<1>8. CASE CloseSession
  BY <1>8, CloseBeginsOrder DEF CloseSession
<1>9. QED
  BY <1>1, <1>2, <1>3, <1>4, <1>5, <1>6, <1>7, <1>8 DEF ClientStep

LEMMA WriteCompletesOrder ==
  ASSUME TypeOK, OneStart, OrderInv, flush = <<>>, WriteCompletes
  PROVE  OrderInv'
<1>1. CASE WrittenOnly \/ WrittenSpawn \/ WrittenRefresh
  BY <1>1, SameOrder DEF WrittenOnly, WrittenSpawn, WrittenRefresh, turns, hold, history
<1>2. CASE WrittenRunning
  <2>1. flush' = held /\ held' = <<>>
        /\ UNCHANGED <<queue, starts, activeTurn, lastEnded, lastOpened, submitted>>
    BY <1>2 DEF WrittenRunning, history
  <2>2. starts = {}
    <3>1. OpeningDue
      BY <1>2 DEF WrittenRunning, TransitionDone, MetaWritten, TypeOK, StoreOK, Queued,
                  OpeningDue, Opened, Awaits
    <3>2. QED
      BY <3>1 DEF OneStart
  <2>3. QED
    BY <2>1, <2>2 DEF OrderInv
<1>3. CASE WrittenIdle
  <2>1. UNCHANGED <<flush, activeTurn, lastEnded, lastOpened, submitted>>
    BY <1>3 DEF WrittenIdle, history
  <2>2. CASE ~CanDrain
    <3>1. UNCHANGED <<queue, starts, held>>
      BY <1>3, <2>2 DEF WrittenIdle
    <3>2. QED
      BY <2>1, <3>1, SameOrder
  <2>3. CASE CanDrain
    <3>1. starts = {} /\ queue # <<>> /\ activeTurn = 0
      BY <2>3 DEF CanDrain, OneStart
    <3>2. CASE queue' = <<>> /\ held' = <<>> /\ starts' = starts
      BY <2>1, <3>2, SameOrder
    <3>3. CASE Send(Head(queue), TRUE) /\ queue' = Tail(queue)
      <4>1. /\ 1 \in DOMAIN queue /\ Head(queue) = queue[1]
            /\ \A i \in DOMAIN queue' : i + 1 \in DOMAIN queue /\ queue'[i] = queue[i + 1] /\ 1 < i + 1
            /\ \A i, j \in DOMAIN queue' : i < j => i + 1 < j + 1
        BY <3>1, <3>3, TurnNumbers, TailAt
      <4>2. starts' = {[turn |-> queue[1], drain |-> TRUE]} /\ held' = <<>>
        BY <3>1, <3>3, <4>1 DEF Send
      <4>3. \A start \in starts' : start.turn = queue[1]
        BY <4>2
      <4>4. lastOpened < queue[1] /\ queue[1] <= submitted
        BY <4>1 DEF OrderInv
      <4>5. \A i \in DOMAIN queue' :
              /\ lastOpened < queue'[i] /\ queue'[i] <= submitted
              /\ queue[1] < queue'[i]
              /\ \A j \in DOMAIN queue' : i < j => queue'[i] < queue'[j]
        BY <4>1 DEF OrderInv
      <4>6. QED
        BY <2>1, <3>1, <4>2, <4>3, <4>4, <4>5 DEF OrderInv
    <3>4. QED
      BY <1>3, <2>3, <3>2, <3>3 DEF WrittenIdle
  <2>4. QED
    BY <2>2, <2>3
<1>4. CASE WrittenClosed
  BY <1>4, SameOrder DEF WrittenClosed, turns, hold, history
<1>5. QED
  BY <1>1, <1>2, <1>3, <1>4 DEF WriteCompletes

(* A turn opens behind all that opened before it and before all that are queued. *)
LEMMA StartTurnOrder ==
  ASSUME TypeOK, WindowInv, OneStart, OrderInv, StartTurnResolves
  PROVE  OrderInv'
<1>1. ASSUME NEW start \in starts, StartTurnOk(start)
      PROVE  OrderInv'
  <2>1. /\ starts = {start} /\ starts' = {} /\ activeTurn' = start.turn /\ lastOpened' = start.turn
        /\ UNCHANGED <<queue, held, flush, lastEnded, submitted>>
    BY <1>1 DEF StartTurnOk, OneStart, hold
  <2>2. /\ lastOpened < start.turn /\ start.turn <= submitted /\ start.turn \in Nat
        /\ \A i \in DOMAIN queue : start.turn < queue[i]
    BY <2>1, TurnNumbers DEF OrderInv
  <2>3. flush = <<>>
    BY <2>1 DEF OneStart, WindowInv, HoldInv
  <2>4. \A i \in DOMAIN held' : held'[i].kind = "end" => held'[i].turn <= start.turn
    <3>1. SUFFICES ASSUME NEW i \in DOMAIN held, held[i].kind = "end"
                   PROVE  held[i].turn <= start.turn
      BY <2>1
    <3>2. held[i].turn <= lastOpened \/ held[i].turn = start.turn
      BY <2>1, <3>1 DEF OrderInv
    <3>3. held[i].turn \in Nat
      <4>1. held[i] \in Event
        BY TurnNumbers
      <4>2. held[i].turn \in Turn
        BY <3>1, <4>1, EventType
      <4>3. QED
        BY <4>2, BoundAssumption DEF Turn
    <3>4. QED
      BY <2>2, <3>2, <3>3, TurnNumbers
  <2>5. QED
    BY <2>1, <2>2, <2>3, <2>4, TurnNumbers DEF OrderInv
<1>2. ASSUME NEW start \in starts, StartTurnFail(start)
      PROVE  OrderInv'
  BY <1>2, SameOrder DEF StartTurnFail, AbandonStarts, history
<1>3. QED
  BY <1>1, <1>2 DEF StartTurnResolves

LEMMA DaemonStepOrder ==
  ASSUME TypeOK, WindowInv, OneStart, OrderInv, flush = <<>>, DaemonStep
  PROVE  OrderInv'
<1>1. CASE SpawnResolves
  BY <1>1, SameOrder DEF SpawnResolves, SpawnOk, SpawnFail, turns, hold, history
<1>2. ASSUME NEW caller \in Waiters, WaitTimeout(caller)
      PROVE  OrderInv'
  BY <1>2, SameOrder DEF WaitTimeout, turns, hold, history
<1>3. CASE Terminated
  BY <1>3, SameOrder DEF Terminated, hold, history
<1>4. CASE Shutdown
  BY <1>4, SameOrder DEF Shutdown, turns, hold, history
<1>5. CASE ShutdownClose
  BY <1>5, CloseBeginsOrder DEF ShutdownClose
<1>6. CASE ShutdownDone \/ DaemonCrash
  BY <1>6, SameOrder DEF ShutdownDone, DaemonCrash, GoDown, history
<1>7. CASE Restart
  BY <1>7, SameOrder DEF Restart, turns, hold
<1>8. QED
  BY <1>1, <1>2, <1>3, <1>4, <1>5, <1>6, <1>7, StartTurnOrder, WriteCompletesOrder DEF DaemonStep

(* Every step keeps the order of turns. *)
LEMMA NextOrder ==
  ASSUME "overlap" \notin Races, TypeOK, WindowInv, OneStart, HarnessInv, OrderInv, [Next]_vars
  PROVE  OrderInv'
<1>1. CASE UNCHANGED vars
  BY <1>1, SameOrder DEF vars, turns, hold, history
<1>2. CASE FlushOne
  <2>1. /\ Head(flush) \in Event /\ HandleEvent(Head(flush)) /\ flush # <<>> /\ flush' = Tail(flush)
        /\ UNCHANGED <<starts, held, lastOpened, submitted>>
    BY <1>2, FlushEffect DEF FlushOne, EventFrame
  <2>2. 1 \in DOMAIN flush /\ Head(flush) = flush[1]
    BY <2>1, TurnNumbers, TailAt
  <2>3. Head(flush).kind = "end" => Head(flush).turn <= lastOpened
    BY <2>2 DEF OrderInv
  <2>4. QED
    BY <2>1, <2>3, HandledOrder
<1>3. CASE flush = <<>> /\ ClientStep
  BY <1>3, ClientStepOrder
<1>4. CASE HarnessStep
  BY <1>4, HarnessStepOrder
<1>5. CASE flush = <<>> /\ DaemonStep
  BY <1>5, DaemonStepOrder
<1>6. QED
  BY <1>1, <1>2, <1>3, <1>4, <1>5 DEF Next

(* Prompts are numbered as they come; their turns open, are queued and end in that order. *)
LEMMA OrderInvariant ==
  ASSUME "overlap" \notin Races, "reject" \notin Races
  PROVE  Spec => [](OneStart /\ HarnessInv /\ OrderInv)
<1>1. Init => OrderInv
  BY DEF Init, OrderInv
<1>2. TypeOK /\ WindowInv /\ OneStart /\ HarnessInv /\ OrderInv /\ [Next]_vars => OrderInv'
  BY NextOrder
<1>3. QED
  BY <1>1, <1>2, TypeCorrect, WindowInvariant, HarnessInvariant, PTL DEF Spec

(***************************************************************************)
(* What eventHold is for: as long as prompts do not overlap and startTurn  *)
(* does not fail behind a turn that runs, a session is never busy for good *)
(* and the end of a turn never precedes its start.                         *)
(***************************************************************************)
THEOREM HoldIsInOrder ==
  ASSUME "overlap" \notin Races, "reject" \notin Races
  PROVE  Spec => []HoldKeepsOrder
<1>1. ASSUME TypeOK, HarnessInv, OrderInv
      PROVE  HoldKeepsOrder
  <2>1. Arrived(held \o flush, Vital) <=> Arrived(held, Vital) \/ Arrived(flush, Vital)
    BY <1>1, ArrivedConcat DEF TypeOK, HoldOK
  <2>2. NeverStuckBusy
    BY <1>1, <2>1 DEF HarnessInv, NeverStuckBusy, Vital
  <2>3. EndAfterStart
    BY <1>1 DEF OrderInv, EndAfterStart
  <2>4. QED
    BY <2>2, <2>3 DEF HoldKeepsOrder
<1>2. TypeOK /\ OneStart /\ HarnessInv /\ OrderInv => HoldKeepsOrder
  BY <1>1
<1>3. QED
  BY <1>2, TypeCorrect, OrderInvariant, PTL

(* Only the answer to startTurn opens a turn. *)
LEMMA OpenedByAnswer ==
  ASSUME [Next]_vars, lastOpened' # lastOpened
  PROVE  \E start \in starts : StartTurnOk(start)
<1>1. CASE UNCHANGED vars \/ FlushOne
  BY <1>1 DEF vars, history, FlushOne, EventFrame
<1>2. CASE ClientStep
  BY <1>2 DEF ClientStep, CreateSession, ResumeSession, PromptQueued, PromptStarted, Interrupt,
     RespondPermission, HarnessEvent, EventFrame, WaitForTurn, AcknowledgeAttention, CloseSession,
     CloseBegins, history
<1>3. CASE HarnessStep
  BY <1>3 DEF HarnessStep, TurnEnd, Ask, HarnessCrash, HarnessEvent, EventFrame
<1>4. CASE DaemonStep
  <2>1. CASE WriteCompletes
    BY <2>1 DEF WriteCompletes, WrittenOnly, WrittenSpawn, WrittenRefresh, WrittenRunning,
       WrittenIdle, WrittenClosed, history
  <2>2. QED
    BY <1>4, <2>1 DEF DaemonStep, StartTurnResolves, StartTurnFail, SpawnResolves, SpawnOk, SpawnFail,
       WaitTimeout, Terminated, Shutdown, ShutdownClose, CloseBegins, ShutdownDone, DaemonCrash,
       GoDown, Restart, history
<1>5. QED
  BY <1>1, <1>2, <1>3, <1>4 DEF Next

(***************************************************************************)
(* Prompts become turns in the order in which they were accepted, and none *)
(* opens behind an older one that the harness still works on.              *)
(***************************************************************************)
THEOREM OpensAsAccepted ==
  ASSUME "overlap" \notin Races, "reject" \notin Races
  PROVE  Spec => AcceptedInOrder
<1> DEFINE InOrder == lastOpened' > lastOpened /\ \A turn \in live : turn >= lastOpened'
<1>1. ASSUME TypeOK, WindowInv, OneStart, HarnessInv, OrderInv, [Next]_vars, lastOpened' # lastOpened
      PROVE  InOrder
  <2>1. PICK start \in starts : StartTurnOk(start)
    BY <1>1, OpenedByAnswer
  <2>2. lastOpened' = start.turn /\ start.turn \in Nat /\ lastOpened \in Nat
    BY <1>1, <2>1, TurnNumbers DEF StartTurnOk
  <2>3. lastOpened < start.turn
    BY <1>1 DEF OrderInv
  <2>4. live \subseteq {start.turn}
    <3>1. starts = {start} /\ activeTurn = 0
      BY <1>1 DEF OneStart
    <3>2. closing # "terminating"
      BY <1>1, <3>1 DEF WindowInv, HoldInv
    <3>3. Working = {start.turn}
      BY <3>1 DEF Working
    <3>4. QED
      BY <1>1, <3>2, <3>3 DEF HarnessInv
  <2>5. QED
    BY <2>2, <2>3, <2>4
<1>2. TypeOK /\ WindowInv /\ OneStart /\ HarnessInv /\ OrderInv /\ [Next]_vars
        => [lastOpened' # lastOpened => InOrder]_vars
  BY <1>1
<1>3. Spec => [][lastOpened' # lastOpened => InOrder]_vars
  BY <1>2, TypeCorrect, WindowInvariant, OrderInvariant, PTL DEF Spec
<1>4. QED
  BY <1>3 DEF AcceptedInOrder

-----------------------------------------------------------------------------
(* Interrupt *)

(* A step that neither sends a prompt nor forgets an order to stop. *)
LEMMA SameStop ==
  ASSUME StopInv, UNCHANGED <<stopMark, submitted>>,
         queue' = queue \/ queue' = <<>>,
         \/ live' \subseteq live /\ (aborted' = aborted \/ aborted' = live)
         \/ live' = {}
  PROVE  StopInv'
BY DEF StopInv, StopReachesHarness

LEMMA HarnessStepStop ==
  ASSUME TypeOK, StopInv, HarnessStep
  PROVE  StopInv'
<1>1. ASSUME NEW turn \in live, NEW result \in Outcomes, TurnEnd(turn, result)
      PROVE  StopInv'
  <2>1. /\ live' = live \ {turn} /\ aborted' = aborted \ {turn}
        /\ UNCHANGED <<stopMark, submitted>>
        /\ queue' = queue \/ queue' = <<>>
    BY <1>1, EventQueue DEF TurnEnd, HarnessEvent, EventFrame
  <2>2. QED
    BY <2>1 DEF StopInv, StopReachesHarness
<1>2. ASSUME NEW req \in Perms, Ask(req)
      PROVE  StopInv'
  BY <1>2, EventQueue, SameStop DEF Ask, HarnessEvent, EventFrame
<1>3. CASE HarnessCrash
  <2>1. queue' = queue \/ queue' = <<>>
    <3>1. CASE ApplyEvent([kind |-> "error"])
      BY <3>1, EventQueue
    <3>2. CASE HandleError
      BY <3>2 DEF HandleError
    <3>3. CASE queue' = IF DrainFailed(starts) THEN <<>> ELSE queue
      BY <3>3
    <3>4. QED
      BY <1>3, <3>1, <3>2, <3>3 DEF HarnessCrash
  <2>2. live' = {} /\ UNCHANGED <<stopMark, submitted>>
    BY <1>3 DEF HarnessCrash
  <2>3. QED
    BY <2>1, <2>2, SameStop
<1>4. QED
  BY <1>1, <1>2, <1>3 DEF HarnessStep

LEMMA ClientStepStop ==
  ASSUME "overlap" \notin Races, "stop" \notin Races, TypeOK, OneStart, HarnessInv, StopInv,
         ClientStep
  PROVE  StopInv'
<1>1. CASE CreateSession \/ ResumeSession
  BY <1>1, SameStop DEF CreateSession, ResumeSession, turns, harness
<1>2. CASE PromptQueued
  <2>1. /\ queue' = Append(queue, submitted + 1) /\ submitted' = submitted + 1
        /\ UNCHANGED <<live, aborted, stopMark>> /\ submitted < MaxPrompts
    BY <1>2 DEF PromptQueued, harness
  <2>2. submitted + 1 \in Turn
    BY <2>1, TurnNumbers, BoundAssumption DEF Turn
  <2>3. \A i \in DOMAIN queue' : (i \in DOMAIN queue /\ queue'[i] = queue[i]) \/ queue'[i] = submitted + 1
    BY <2>1, <2>2, TurnNumbers, AppendAt
  <2>4. \A i \in DOMAIN queue' : stopMark < queue'[i]
    BY <2>3, TurnNumbers DEF StopInv
  <2>5. QED
    BY <2>1, <2>4, TurnNumbers DEF StopInv, StopReachesHarness
<1>3. CASE PromptStarted
  <2>1. /\ submitted' = submitted + 1 /\ UNCHANGED <<queue, aborted, stopMark>>
        /\ live' \subseteq live \cup {submitted + 1}
    BY <1>3 DEF PromptStarted, Send
  <2>2. stopMark < submitted + 1
    BY TurnNumbers DEF StopInv
  <2>3. \A turn \in live' : turn <= stopMark => turn \in live
    BY <2>1, <2>2, TurnNumbers
  <2>4. QED
    BY <2>1, <2>2, <2>3, TurnNumbers DEF StopInv, StopReachesHarness
<1>4. CASE Interrupt
  <2>1. /\ starts = {} /\ (activeTurn # 0 \/ queue # <<>>) /\ queue' = <<>>
        /\ aborted' = IF runtime # "none" /\ activeTurn # 0 THEN live ELSE aborted
        /\ stopMark' = submitted /\ UNCHANGED <<live, submitted>>
    BY <1>4 DEF Interrupt, Allows
  <2>2. activeTurn = 0 \/ runtime = "none" => live = {}
    BY <2>1 DEF HarnessInv, Working
  <2>3. \A turn \in live' : turn \in aborted'
    BY <2>1, <2>2
  <2>4. QED
    BY <2>1, <2>3, TurnNumbers DEF StopInv, StopReachesHarness
<1>5. ASSUME NEW req \in Perms, RespondPermission(req)
      PROVE  StopInv'
  BY <1>5, EventQueue, SameStop DEF RespondPermission, HarnessEvent, EventFrame
<1>6. ASSUME NEW caller \in Waiters, WaitForTurn(caller)
      PROVE  StopInv'
  BY <1>6, SameStop DEF WaitForTurn, turns, harness, history
<1>7. CASE AcknowledgeAttention
  BY <1>7, SameStop DEF AcknowledgeAttention, turns, harness, history
<1>8. CASE CloseSession
  BY <1>8, SameStop DEF CloseSession, CloseBegins, harness, history
<1>9. QED
  BY <1>1, <1>2, <1>3, <1>4, <1>5, <1>6, <1>7, <1>8 DEF ClientStep

LEMMA DaemonStepStop ==
  ASSUME TypeOK, StopInv, DaemonStep
  PROVE  StopInv'
<1>1. ASSUME NEW start \in starts, StartTurnOk(start) \/ StartTurnFail(start)
      PROVE  StopInv'
  BY <1>1, SameStop DEF StartTurnOk, StartTurnFail, harness, history
<1>2. CASE SpawnResolves
  BY <1>2, SameStop DEF SpawnResolves, SpawnOk, SpawnFail, turns, harness, history
<1>3. CASE WrittenOnly \/ WrittenSpawn \/ WrittenRefresh \/ WrittenRunning \/ WrittenClosed
  BY <1>3, SameStop DEF WrittenOnly, WrittenSpawn, WrittenRefresh, WrittenRunning, WrittenClosed,
     turns, harness, history
<1>4. CASE WrittenIdle
  <2>1. UNCHANGED <<aborted, stopMark, submitted>>
    BY <1>4 DEF WrittenIdle, history
  <2>2. CASE UNCHANGED <<queue, live>> \/ (queue' = <<>> /\ live' = live)
    BY <2>1, <2>2, SameStop
  <2>3. CASE CanDrain /\ Send(Head(queue), TRUE) /\ queue' = Tail(queue)
    <3>1. /\ 1 \in DOMAIN queue /\ Head(queue) = queue[1]
          /\ \A i \in DOMAIN queue' : i + 1 \in DOMAIN queue /\ queue'[i] = queue[i + 1]
      BY <2>3, TurnNumbers, TailAt DEF CanDrain
    <3>2. live' \subseteq live \cup {queue[1]} /\ stopMark < queue[1] /\ queue[1] \in Nat
      BY <2>3, <3>1, TurnNumbers DEF Send, StopInv
    <3>3. \A turn \in live' : turn <= stopMark => turn \in live
      BY <3>2, TurnNumbers
    <3>4. QED
      BY <2>1, <3>1, <3>3 DEF StopInv, StopReachesHarness
  <2>4. QED
    BY <1>4, <2>2, <2>3 DEF WrittenIdle
<1>5. ASSUME NEW caller \in Waiters, WaitTimeout(caller)
      PROVE  StopInv'
  BY <1>5, SameStop DEF WaitTimeout, turns, harness, history
<1>6. CASE Terminated
  BY <1>6, SameStop DEF Terminated, history
<1>7. CASE Shutdown
  BY <1>7, SameStop DEF Shutdown, turns, history
<1>8. CASE ShutdownClose
  BY <1>8, SameStop DEF ShutdownClose, CloseBegins, harness, history
<1>9. CASE ShutdownDone \/ DaemonCrash
  BY <1>9, SameStop DEF ShutdownDone, DaemonCrash, GoDown, history
<1>10. CASE Restart
  BY <1>10, SameStop DEF Restart, turns, harness
<1>11. QED
  BY <1>1, <1>2, <1>3, <1>4, <1>5, <1>6, <1>7, <1>8, <1>9, <1>10
     DEF DaemonStep, StartTurnResolves, WriteCompletes

(* Every step keeps to what was stopped. *)
LEMMA NextStop ==
  ASSUME "overlap" \notin Races, "stop" \notin Races,
         TypeOK, OneStart, HarnessInv, StopInv, [Next]_vars
  PROVE  StopInv'
<1>1. CASE UNCHANGED vars
  BY <1>1, SameStop DEF vars, turns, harness, history
<1>2. CASE FlushOne
  BY <1>2, EventQueue, SameStop DEF FlushOne, EventFrame, harness
<1>3. QED
  BY <1>1, <1>2, ClientStepStop, HarnessStepStop, DaemonStepStop DEF Next

(***************************************************************************)
(* An interrupt that does not meet a startTurn in flight reaches all that  *)
(* was submitted before it: what the harness works on was told to abort,   *)
(* and nothing that was queued is sent later.                              *)
(***************************************************************************)
THEOREM StopIsFinal ==
  ASSUME "overlap" \notin Races, "reject" \notin Races, "stop" \notin Races
  PROVE  Spec => []StopReachesHarness
<1>1. Init => StopInv
  BY DEF Init, StopInv, StopReachesHarness
<1>2. TypeOK /\ OneStart /\ HarnessInv /\ StopInv /\ [Next]_vars => StopInv'
  BY NextStop
<1>3. StopInv => StopReachesHarness
  BY DEF StopInv
<1>4. QED
  BY <1>1, <1>2, <1>3, TypeCorrect, HarnessInvariant, PTL DEF Spec

-----------------------------------------------------------------------------
(* Shutdown *)

(* A shutdown that began without queued prompts gets none. *)
StoppedQueue == mode = "stopping" => queue = <<>>

(* No request is served any more. *)
LEMMA NotServed ==
  ASSUME mode = "stopping"
  PROVE  ~ClientStep
BY DEF ClientStep, CreateSession, ResumeSession, PromptQueued, PromptStarted, Interrupt,
   RespondPermission, WaitForTurn, AcknowledgeAttention, CloseSession, Serving

(* The mode changes in four places. *)
LEMMA ModeKept ==
  ASSUME [Next]_vars, mode' # mode
  PROVE  Shutdown \/ ShutdownDone \/ DaemonCrash \/ Restart
<1>1. CASE UNCHANGED vars \/ FlushOne
  BY <1>1 DEF vars, life, FlushOne, EventFrame
<1>2. CASE ClientStep
  BY <1>2 DEF ClientStep, CreateSession, ResumeSession, PromptQueued, PromptStarted, Interrupt,
     RespondPermission, HarnessEvent, EventFrame, WaitForTurn, AcknowledgeAttention, CloseSession,
     CloseBegins, life
<1>3. CASE HarnessStep
  BY <1>3 DEF HarnessStep, TurnEnd, Ask, HarnessCrash, HarnessEvent, EventFrame
<1>4. CASE DaemonStep
  <2>1. CASE WriteCompletes
    BY <2>1 DEF WriteCompletes, WrittenOnly, WrittenSpawn, WrittenRefresh, WrittenRunning,
       WrittenIdle, WrittenClosed, life
  <2>2. QED
    BY <1>4, <2>1 DEF DaemonStep, StartTurnResolves, StartTurnOk, StartTurnFail, SpawnResolves,
       SpawnOk, SpawnFail, WaitTimeout, Terminated, ShutdownClose, CloseBegins, life
<1>5. QED
  BY <1>1, <1>2, <1>3, <1>4 DEF Next

(* While the daemon stops, prompts are sent and queued by nobody: the queue shrinks, or is kept. *)
LEMMA StoppingStep ==
  ASSUME StoppedQueue, mode = "stopping", [Next]_vars
  PROVE  starts' \subseteq starts /\ queue' = <<>>
<1>0. queue = <<>>
  BY DEF StoppedQueue
<1>1. CASE UNCHANGED vars
  BY <1>0, <1>1 DEF vars, turns
<1>2. CASE FlushOne
  BY <1>0, <1>2, EventQueue DEF FlushOne
<1>3. CASE HarnessStep
  <2>1. ASSUME NEW event, HarnessEvent(event)
        PROVE  starts' \subseteq starts /\ queue' = <<>>
    BY <1>0, <2>1, EventQueue DEF HarnessEvent
  <2>2. CASE HarnessCrash
    <3>1. CASE ApplyEvent([kind |-> "error"]) /\ starts' = starts
      BY <1>0, <3>1, EventQueue
    <3>2. CASE AbandonStarts(starts) /\ (queue' = IF DrainFailed(starts) THEN <<>> ELSE queue)
      BY <1>0, <3>2 DEF AbandonStarts
    <3>3. CASE AbandonStarts(starts) /\ HandleError
      BY <3>3 DEF AbandonStarts, HandleError
    <3>4. QED
      BY <2>2, <3>1, <3>2, <3>3 DEF HarnessCrash
  <2>3. QED
    BY <1>3, <2>1, <2>2 DEF HarnessStep, TurnEnd, Ask
<1>4. CASE DaemonStep
  <2>1. CASE WriteCompletes
    BY <1>0, <2>1 DEF WriteCompletes, WrittenOnly, WrittenSpawn, WrittenRefresh, WrittenRunning,
       WrittenIdle, WrittenClosed, CanDrain, turns
  <2>2. CASE ShutdownClose
    BY <2>2 DEF ShutdownClose, CloseBegins, AbandonStarts
  <2>3. QED
    BY <1>0, <1>4, <2>1, <2>2 DEF DaemonStep, StartTurnResolves, StartTurnOk, StartTurnFail,
       AbandonStarts, SpawnResolves, SpawnOk, SpawnFail, WaitTimeout, Terminated, Shutdown,
       ShutdownDone, DaemonCrash, GoDown, Restart, turns
<1>5. QED
  BY <1>1, <1>2, <1>3, <1>4, NotServed DEF Next

(* A daemon that is shut down without queued prompts sends nothing to the harness any more. *)
THEOREM ShutdownIsQuiet ==
  ASSUME "shutdown" \notin Races
  PROVE  Spec => ShutdownStartsNothing
<1>1. Init => StoppedQueue
  BY DEF Init, StoppedQueue
<1>2. ASSUME StoppedQueue, [Next]_vars
      PROVE  StoppedQueue'
  <2>1. CASE mode = "stopping"
    BY <1>2, <2>1, StoppingStep DEF StoppedQueue
  <2>2. CASE mode # "stopping"
    <3>1. SUFFICES ASSUME mode' = "stopping"
                   PROVE  queue' = <<>>
      BY DEF StoppedQueue
    <3>2. Shutdown
      BY <1>2, <2>2, <3>1, ModeKept DEF ShutdownDone, DaemonCrash, GoDown, Restart
    <3>3. QED
      BY <3>2 DEF Shutdown, Allows, turns
  <2>3. QED
    BY <2>1, <2>2
<1>3. StoppedQueue /\ [Next]_vars => StoppedQueue'
  BY <1>2
<1>4. StoppedQueue /\ [Next]_vars => [mode = "stopping" => starts' \subseteq starts]_vars
  BY StoppingStep
<1>5. Spec => [][mode = "stopping" => starts' \subseteq starts]_vars
  BY <1>1, <1>3, <1>4, PTL DEF Spec
<1>6. QED
  BY <1>5 DEF ShutdownStartsNothing

(* What is on hold or to be applied during a shutdown has come from the harness. *)
LEMMA NextAnswers ==
  ASSUME "close" \notin Races, TypeOK, WindowInv, AnswersInv, [Next]_vars
  PROVE  AnswersInv'
<1>0. held \in Seq(Event) /\ flush \in Seq(Event)
  BY DEF TypeOK, HoldOK
<1>1. CASE Shutdown /\ flush = <<>>
  <2>1. held' = held /\ flush' = <<>> /\ held = <<>>
    BY <1>1 DEF Shutdown, MayClose, Allows, hold, WindowInv, HoldInv
  <2>2. QED
    BY <2>1, ArrivedEmpty DEF AnswersInv
<1>2. CASE mode' # "stopping"
  BY <1>2 DEF AnswersInv
<1>3. CASE mode = "stopping" /\ mode' = "stopping"
  <2>1. ~Arrived(held, {"answer"}) /\ ~Arrived(flush, {"answer"})
    BY <1>3 DEF AnswersInv
  <2>2. SUFFICES ASSUME (held' # held /\ held' # <<>>) \/ (flush' # flush /\ flush' # <<>>)
                 PROVE  ~Arrived(held', {"answer"}) /\ ~Arrived(flush', {"answer"})
    BY <2>1, ArrivedEmpty DEF AnswersInv
  <2>3. CASE FlushOne
    <3>1. flush # <<>> /\ flush' = Tail(flush) /\ held' = held
      BY <2>3 DEF FlushOne
    <3>2. QED
      BY <1>0, <2>1, <3>1, ArrivedTail
  <2>4. CASE HarnessStep
    <3>1. ASSUME NEW event \in Event, ApplyEvent(event), event.kind # "answer", flush' = flush
          PROVE  ~Arrived(held', {"answer"}) /\ ~Arrived(flush', {"answer"})
      <4>1. held' = held \/ held' = Append(held, event)
        BY <3>1 DEF ApplyEvent
      <4>2. ~Arrived(Append(held, event), {"answer"})
        BY <1>0, <2>1, <3>1, ArrivedAppend
      <4>3. QED
        BY <2>1, <3>1, <4>1, <4>2
    <3>2. ASSUME NEW turn \in live, NEW result \in Outcomes, TurnEnd(turn, result)
          PROVE  ~Arrived(held', {"answer"}) /\ ~Arrived(flush', {"answer"})
      <4> DEFINE event == [kind |-> "end", turn |-> turn, outcome |-> result]
      <4>1. event \in Event /\ event.kind # "answer" /\ ApplyEvent(event) /\ flush' = flush
        BY <3>2 DEF TypeOK, HarnessOK, Event, TurnEnd, HarnessEvent
      <4> HIDE DEF event
      <4>2. QED
        BY <3>1, <4>1
    <3>3. ASSUME NEW req \in Perms, Ask(req)
          PROVE  ~Arrived(held', {"answer"}) /\ ~Arrived(flush', {"answer"})
      <4> DEFINE event == [kind |-> "ask", req |-> req]
      <4>1. event \in Event /\ event.kind # "answer" /\ ApplyEvent(event) /\ flush' = flush
        BY <3>3 DEF Event, Ask, HarnessEvent
      <4> HIDE DEF event
      <4>2. QED
        BY <3>1, <4>1
    <3>4. CASE HarnessCrash
      <4> DEFINE event == [kind |-> "error"]
      <4>1. event \in Event /\ event.kind # "answer" /\ flush' = flush
        BY <3>4 DEF Event, HarnessCrash
      <4> HIDE DEF event
      <4>2. ApplyEvent(event) \/ AbandonStarts(starts)
        BY <3>4 DEF HarnessCrash, event
      <4>3. CASE AbandonStarts(starts)
        BY <2>2, <4>1, <4>3 DEF AbandonStarts
      <4>4. QED
        BY <3>1, <4>1, <4>2, <4>3
    <3>5. QED
      BY <2>4, <3>2, <3>3, <3>4 DEF HarnessStep
  <2>5. CASE WrittenRunning
    BY <2>1, <2>5, ArrivedEmpty DEF WrittenRunning
  <2>6. CASE DaemonStep /\ ~WrittenRunning
    <3>1. CASE WriteCompletes
      BY <2>2, <2>6, <3>1 DEF WriteCompletes, WrittenOnly, WrittenSpawn, WrittenRefresh,
         WrittenIdle, WrittenClosed, Send, hold
    <3>2. CASE ShutdownClose
      BY <2>2, <3>2 DEF ShutdownClose, CloseBegins, AbandonStarts
    <3>3. QED
      BY <2>2, <2>6, <3>1, <3>2 DEF DaemonStep, StartTurnResolves, StartTurnOk, StartTurnFail,
         AbandonStarts, SpawnResolves, SpawnOk, SpawnFail, WaitTimeout, Terminated, Shutdown,
         ShutdownDone, DaemonCrash, GoDown, Restart, hold
  <2>7. CASE UNCHANGED vars
    BY <2>2, <2>7 DEF vars, hold
  <2>8. QED
    BY <1>3, <2>3, <2>4, <2>5, <2>6, <2>7, NotServed DEF Next
<1>4. CASE mode # "stopping" /\ mode' = "stopping"
  <2>1. Shutdown
    BY <1>4, ModeKept DEF ShutdownDone, DaemonCrash, GoDown, Restart
  <2>2. flush = <<>>
    <3>1. mode' # mode
      BY <1>4
    <3>2. ~UNCHANGED vars /\ ~FlushOne
      BY <3>1 DEF vars, life, FlushOne, EventFrame
    <3>3. QED
      BY <3>2 DEF Next
  <2>3. QED
    BY <1>1, <2>1, <2>2
<1>5. QED
  BY <1>2, <1>3, <1>4

(* The attention an event leaves, if it is no answer. *)
LEMMA EventKeepsAttention ==
  ASSUME TypeOK, NEW event \in Event, HandleEvent(event), event.kind # "answer", meta.attn # "none"
  PROVE  meta'.attn # "none"
<1>0. StoreOK /\ meta \in Meta
  BY DEF TypeOK, StoreOK
<1>1. CASE HandleEnd(event)
  BY <1>0, <1>1, TransitionType DEF HandleEnd, Statuses, Thens
<1>2. CASE HandleError
  <2>1. CASE runtime # "none"
    <3>1. meta'.attn = Verdict' /\ meta'.status = "error" /\ ack' = FALSE
      BY <1>0, <1>2, <2>1, ErrorVerdict, HandleErrorType DEF HandleError
    <3>2. QED
      BY <3>1 DEF Verdict, ResolveReason
  <2>2. CASE runtime = "none"
    <3>1. meta' = [meta EXCEPT !.status = "error"]
      BY <1>2, <2>2 DEF HandleError, Refreshed
    <3>2. QED
      BY <1>0, <3>1, MetaUpdate DEF Statuses
  <2>3. QED
    BY <2>1, <2>2
<1>3. CASE HandlePermission(pending \cup {event.req})
  <2>1. Refresh(pending \cup {event.req}, outcome, ack)
    BY <1>3 DEF HandlePermission
  <2>2. CASE runtime # "none"
    BY <1>0, <2>1, <2>2, RefreshVerdict DEF ResolveReason
  <2>3. CASE runtime = "none"
    BY <2>1, <2>3 DEF Refresh, Refreshed
  <2>4. QED
    BY <2>2, <2>3
<1>4. QED
  BY <1>1, <1>2, <1>3 DEF HandleEvent

(* No step of a shutdown takes attention away that is still due. *)
LEMMA AttentionKept ==
  ASSUME TypeOK, DiskCurrent, AnswersInv, [Next]_vars,
         mode = "stopping", meta.attn # "none", runtime = "none" \/ Verdict # "none"
  PROVE  meta'.attn # "none"
<1>0. StoreOK /\ meta \in Meta
  BY DEF TypeOK, StoreOK
<1>1. ASSUME NEW event \in Event, ApplyEvent(event), event.kind # "answer"
      PROVE  meta'.attn # "none"
  BY <1>1, AppliedEffect, EventKeepsAttention
<1>2. CASE FlushOne
  <2>1. /\ Head(flush) \in Event /\ HandleEvent(Head(flush)) /\ flush # <<>>
        /\ flush \in Seq(Event) /\ ~Arrived(flush, {"answer"})
    BY <1>2, FlushEffect DEF AnswersInv, TypeOK, HoldOK
  <2>2. Head(flush).kind # "answer"
    BY <2>1, ArrivedTail
  <2>3. QED
    BY <2>1, <2>2, EventKeepsAttention
<1>3. CASE HarnessStep
  <2>1. ASSUME NEW turn \in live, NEW result \in Outcomes, TurnEnd(turn, result)
        PROVE  meta'.attn # "none"
    <3> DEFINE event == [kind |-> "end", turn |-> turn, outcome |-> result]
    <3>1. event \in Event /\ event.kind # "answer" /\ ApplyEvent(event)
      BY <2>1 DEF TypeOK, HarnessOK, Event, TurnEnd, HarnessEvent
    <3> HIDE DEF event
    <3>2. QED
      BY <1>1, <3>1
  <2>2. ASSUME NEW req \in Perms, Ask(req)
        PROVE  meta'.attn # "none"
    <3> DEFINE event == [kind |-> "ask", req |-> req]
    <3>1. event \in Event /\ event.kind # "answer" /\ ApplyEvent(event)
      BY <2>2 DEF Event, Ask, HarnessEvent
    <3> HIDE DEF event
    <3>2. QED
      BY <1>1, <3>1
  <2>3. CASE HarnessCrash
    <3> DEFINE event == [kind |-> "error"]
    <3>1. event \in Event /\ event.kind # "answer" /\ event.kind = "error"
      BY DEF Event
    <3> HIDE DEF event
    <3>2. CASE ApplyEvent(event)
      BY <1>1, <3>1, <3>2
    <3>3. CASE meta' = meta
      BY <3>3
    <3>4. CASE HandleError
      BY <3>1, <3>4, EventKeepsAttention DEF HandleEvent
    <3>5. QED
      BY <2>3, <3>2, <3>3, <3>4 DEF HarnessCrash, event
  <2>4. QED
    BY <1>3, <2>1, <2>2, <2>3 DEF HarnessStep
<1>4. ASSUME NEW status \in Statuses, NEW then \in Thens, Transition(status, then)
      PROVE  meta'.attn # "none"
  BY <1>0, <1>4, TransitionType
<1>5. CASE StartTurnResolves
  <2>1. ASSUME NEW start \in starts, StartTurnOk(start)
        PROVE  meta'.attn # "none"
    <3> DEFINE then == IF start.drain THEN "drained" ELSE "running"
    <3>1. then \in Thens /\ Transition("running", then)
      BY <2>1 DEF StartTurnOk, Thens
    <3> HIDE DEF then
    <3>2. QED
      BY <1>4, <3>1 DEF Statuses
  <2>2. QED
    BY <1>5, <2>1 DEF StartTurnResolves, StartTurnFail, store
<1>6. CASE SpawnResolves
  BY <1>4, <1>6, SpawnOkAdds DEF SpawnResolves, SpawnFail, Statuses, Thens
<1>7. CASE WriteCompletes
  <2>1. ASSUME NEW then, TransitionDone(then), UNCHANGED view
        PROVE  meta'.attn # "none"
    <3>1. CASE runtime = "none"
      BY <2>1, <3>1 DEF TransitionDone, Refreshed
    <3>2. CASE runtime # "none"
      <4>1. meta'.status = meta.status /\ meta'.attn = Verdict'
        BY <1>0, <2>1, <3>2, TransitionDoneType, TransitionDoneVerdict
      <4>2. Verdict' = Verdict
        BY <2>1, <4>1 DEF Verdict, view
      <4>3. QED
        BY <3>2, <4>1, <4>2
    <3>3. QED
      BY <3>1, <3>2
  <2>2. CASE WrittenOnly \/ WrittenClosed
    BY <2>2 DEF WrittenOnly, WrittenClosed
  <2>3. QED
    BY <1>7, <2>1, <2>2
       DEF WriteCompletes, WrittenSpawn, WrittenRefresh, WrittenRunning, WrittenIdle
<1>8. CASE Terminated \/ ShutdownClose
  BY <1>4, <1>8 DEF Terminated, ShutdownClose, CloseBegins, Statuses, Thens
<1>9. CASE ShutdownDone
  BY <1>9 DEF ShutdownDone, GoDown, DiskCurrent, Settled
<1>10. CASE \/ \E caller \in Waiters : WaitTimeout(caller)
            \/ Shutdown \/ DaemonCrash \/ Restart
  BY <1>10 DEF WaitTimeout, Shutdown, DaemonCrash, Restart, store
<1>11. CASE UNCHANGED vars
  BY <1>11 DEF vars, store
<1>12. QED
  BY <1>2, <1>3, <1>5, <1>6, <1>7, <1>8, <1>9, <1>10, <1>11, NotServed DEF Next, DaemonStep

(***************************************************************************)
(* A shutdown that begins with nothing on hold never takes a session's     *)
(* need for attention away, and the next start of the daemon finds it in   *)
(* meta.json: the refresh is frozen without a runtime, and no answer to an *)
(* approval is applied any more.                                           *)
(***************************************************************************)
THEOREM ShutdownKeepsAttention ==
  ASSUME "close" \notin Races
  PROVE  Spec => AttentionSurvivesShutdown
<1> DEFINE Due == mode = "stopping" /\ meta.attn # "none" /\ (runtime = "none" \/ Verdict # "none")
<1>1. Init => AnswersInv
  BY DEF Init, AnswersInv
<1>2. TypeOK /\ WindowInv /\ AnswersInv /\ [Next]_vars => AnswersInv'
  BY NextAnswers
<1>3. TypeOK /\ DiskCurrent /\ AnswersInv /\ [Next]_vars => [Due => meta'.attn # "none"]_vars
  BY AttentionKept
<1>4. Spec => [][Due => meta'.attn # "none"]_vars
  BY <1>1, <1>2, <1>3, TypeCorrect, WindowInvariant, MetaReachesDisk, PTL DEF Spec
<1>5. QED
  BY <1>4 DEF AttentionSurvivesShutdown

=============================================================================
