-------------------------- MODULE Timeline_proofs ---------------------------
(***************************************************************************)
(* Theorems about Timeline.  The file stays in the order of its numbers for *)
(* every environment, whatever is interrupted, fails or restarts.  Of what  *)
(* clients keep of it, nothing is shown that is not in the file, a view     *)
(* never loses an event, a visible pane with nothing on its way shows the   *)
(* whole file, and the output of watch has no hole; each of these theorems  *)
(* names the races it excludes.                                             *)
(***************************************************************************)
EXTENDS Timeline, TLAPS, WellFoundedInduction

(***************************************************************************)
(* FileOrdered is not inductive: an event that is still to be appended has *)
(* its number already, and a restart takes the next one from the file.     *)
(* LogInv adds that the chain continues the file, but for an event that is *)
(* written already, and that the next number is above both while the       *)
(* daemon runs.                                                            *)
(***************************************************************************)
Above(number, events) == \A i \in DOMAIN events : events[i].seq < number

Continues ==
  \A i \in DOMAIN file : \A j \in DOMAIN chain : (written /\ j = 1) \/ file[i].seq < chain[j].seq

LogInv ==
  /\ FileOrdered /\ Increasing(chain) /\ Continues
  /\ up => Above(nextSeq, file) /\ Above(nextSeq, chain)
  /\ up \/ chain = <<>>
  /\ tail = "unended" => file # <<>>

DaemonInv == DaemonOK /\ LogInv

-----------------------------------------------------------------------------
(* Sequences *)

(* Events have natural numbers. *)
LEMMA Numbered ==
  ASSUME NEW events \in Seq(Event)
  PROVE  \A i \in DOMAIN events : events[i].seq \in Nat
<1>1. \A i \in DOMAIN events : events[i] \in Event
  OBVIOUS
<1>2. QED
  BY <1>1 DEF Event

(* Without its last element an increasing sequence is one, of some of its elements. *)
LEMMA FrontIncreasing ==
  ASSUME NEW events \in Seq(Event), events # <<>>, Increasing(events)
  PROVE  /\ Front(events) \in Seq(Event) /\ Increasing(Front(events))
         /\ \A i \in DOMAIN Front(events) : i \in DOMAIN events /\ Front(events)[i] = events[i]
BY DEF Front, Increasing

(* An increasing sequence followed by a greater element is increasing. *)
LEMMA AppendIncreasing ==
  ASSUME NEW events \in Seq(Event), NEW event \in Event,
         Increasing(events), Above(event.seq, events)
  PROVE  /\ Append(events, event) \in Seq(Event) /\ Increasing(Append(events, event))
         /\ \A i \in DOMAIN Append(events, event) :
              \/ i \in DOMAIN events /\ Append(events, event)[i] = events[i]
              \/ Append(events, event)[i] = event
<1> DEFINE longer == Append(events, event)
<1>1. longer \in Seq(Event) /\ DOMAIN longer = 1..Len(events) + 1 /\ Len(events) \in Nat
  OBVIOUS
<1>2. \A i \in 1..Len(events) : i \in DOMAIN events /\ longer[i] = events[i]
  OBVIOUS
<1>3. longer[Len(events) + 1] = event
  OBVIOUS
<1>4. \A i \in DOMAIN longer : (i \in DOMAIN events /\ longer[i] = events[i]) \/ longer[i] = event
  BY <1>1, <1>2, <1>3
<1>5. ASSUME NEW i \in DOMAIN longer, NEW j \in DOMAIN longer, i < j
      PROVE  longer[i].seq < longer[j].seq
  <2>1. i \in 1..Len(events)
    BY <1>1, <1>5
  <2>2. CASE j \in 1..Len(events)
    BY <1>2, <1>5, <2>1, <2>2 DEF Increasing
  <2>3. CASE j = Len(events) + 1
    BY <1>2, <1>3, <2>1, <2>3 DEF Above
  <2>4. QED
    BY <1>1, <2>2, <2>3
<1>6. Increasing(longer)
  BY <1>5 DEF Increasing
<1>7. QED
  BY <1>1, <1>4, <1>6

(* The tail of an increasing sequence is one, and its head is below all of it. *)
LEMMA TailIncreasing ==
  ASSUME NEW events \in Seq(Event), events # <<>>, Increasing(events)
  PROVE  /\ Head(events) \in Event /\ Tail(events) \in Seq(Event)
         /\ Increasing(Tail(events))
         /\ \A i \in DOMAIN Tail(events) :
              i + 1 \in DOMAIN events /\ Tail(events)[i] = events[i + 1]
                /\ Head(events).seq < Tail(events)[i].seq
<1> DEFINE rest == Tail(events)
<1>1. /\ Len(events) \in Nat \ {0} /\ DOMAIN events = 1..Len(events)
      /\ Head(events) = events[1] /\ Head(events) \in Event
  OBVIOUS
<1>2. rest \in Seq(Event) /\ DOMAIN rest = 1..Len(events) - 1
  OBVIOUS
<1>3. \A i \in DOMAIN rest : i + 1 \in DOMAIN events /\ rest[i] = events[i + 1]
  BY <1>1, <1>2
<1>4. \A i \in DOMAIN rest : Head(events).seq < rest[i].seq
  <2>1. \A i \in DOMAIN rest : 1 \in DOMAIN events /\ 1 < i + 1
    BY <1>1, <1>2
  <2>2. QED
    BY <1>1, <1>3, <2>1 DEF Increasing
<1>5. Increasing(rest)
  <2>1. \A i, j \in DOMAIN rest : i < j => i + 1 < j + 1
    BY <1>1, <1>2
  <2>2. QED
    BY <1>3, <2>1 DEF Increasing
<1>6. QED
  BY <1>1, <1>2, <1>3, <1>4, <1>5

-----------------------------------------------------------------------------
(* The file *)

(* A step that changes the file at most by the given event keeps it in order. *)
FileStep(event) ==
  /\ file' \in Seq(Event) /\ FileOrdered'
  /\ tail' \in {"clean", "torn", "unended"} /\ (tail' = "unended" => file' # <<>>)
  /\ \A i \in DOMAIN file' : (\E j \in DOMAIN file : file'[i] = file[j]) \/ file'[i] = event

(* Losing an unended line keeps the file in order. *)
LEMMA JoinedOrdered ==
  ASSUME DaemonInv
  PROVE  /\ Joined \in Seq(Event) /\ Increasing(Joined)
         /\ \A i \in DOMAIN Joined : i \in DOMAIN file /\ Joined[i] = file[i]
<1>1. file \in Seq(Event) /\ Increasing(file) /\ (tail = "unended" => file # <<>>)
  BY DEF DaemonInv, DaemonOK, LogInv, FileOrdered
<1>2. CASE tail = "unended"
  BY <1>1, <1>2, FrontIncreasing DEF Joined
<1>3. CASE tail # "unended"
  BY <1>1, <1>3 DEF Joined
<1>4. QED
  BY <1>2, <1>3

(* The head of the chain is above everything in the file. *)
LEMMA HeadAbove ==
  ASSUME DaemonInv, chain # <<>>, ~written
  PROVE  Head(chain) \in Event /\ Above(Head(chain).seq, file)
<1>1. chain \in Seq(Event)
  BY DEF DaemonInv, DaemonOK
<1>2. 1 \in DOMAIN chain /\ Head(chain) = chain[1] /\ Head(chain) \in Event
  BY <1>1
<1>3. QED
  BY <1>2 DEF DaemonInv, LogInv, Continues, Above

(* An append that is done keeps the file in order, whatever line it came after. *)
LEMMA AppendedKeepsOrder ==
  ASSUME DaemonInv, chain # <<>>, ~written, Appended(Head(chain))
  PROVE  FileStep(Head(chain))
<1>1. file \in Seq(Event) /\ Increasing(file)
  BY DEF DaemonInv, DaemonOK, LogInv, FileOrdered
<1>2. tail' = "clean" /\ file' = IF tail = "clean" THEN Append(file, Head(chain)) ELSE Joined
  BY DEF Appended
<1>3. CASE tail = "clean"
  <2>1. Head(chain) \in Event /\ Above(Head(chain).seq, file)
    BY HeadAbove
  <2>2. QED
    BY <1>1, <1>2, <1>3, <2>1, AppendIncreasing DEF FileStep, FileOrdered
<1>4. CASE tail # "clean"
  BY <1>2, <1>4, JoinedOrdered DEF FileStep, FileOrdered
<1>5. QED
  BY <1>3, <1>4

(* So does one that is interrupted. *)
LEMMA InterruptedKeepsOrder ==
  ASSUME DaemonInv, chain # <<>>, ~written, Interrupted(Head(chain))
  PROVE  FileStep(Head(chain))
<1>1. file \in Seq(Event) /\ Increasing(file)
  BY DEF DaemonInv, DaemonOK, LogInv, FileOrdered
<1>2. CASE file' = Joined /\ tail' = "torn"
  BY <1>2, JoinedOrdered DEF FileStep, FileOrdered
<1>3. CASE tail = "clean" /\ file' = Append(file, Head(chain)) /\ tail' = "unended"
  <2>1. Head(chain) \in Event /\ Above(Head(chain).seq, file)
    BY HeadAbove
  <2>2. file' # <<>>
    BY <1>1, <1>3, <2>1
  <2>3. QED
    BY <1>1, <1>3, <2>1, <2>2, AppendIncreasing DEF FileStep, FileOrdered
<1>4. QED
  BY <1>2, <1>3 DEF Interrupted

(* And one that leaves no trace. *)
LEMMA NothingKeepsOrder ==
  ASSUME DaemonInv, UNCHANGED <<file, tail>>, NEW event
  PROVE  FileStep(event)
BY DEF DaemonInv, DaemonOK, LogInv, FileOrdered, FileStep, Increasing

-----------------------------------------------------------------------------
(* The invariant *)

(* A new daemon with an empty file. *)
LEMMA InitInv == Init => DaemonInv
<1>1. SUFFICES ASSUME Init PROVE DaemonInv
  OBVIOUS
<1>2. /\ up = TRUE /\ nextSeq = 0 /\ emitted = 0
      /\ chain = <<>> /\ written = FALSE /\ file = <<>> /\ tail = "clean"
  BY <1>1 DEF Init
<1>3. DaemonOK
  <2>1. up \in BOOLEAN /\ nextSeq \in Nat /\ emitted \in 0..MaxEvents
    BY <1>2, TimelineBounds
  <2>2. chain \in Seq(Event) /\ file \in Seq(Event) /\ tail \in {"clean", "torn", "unended"}
    BY <1>2
  <2>3. written \in BOOLEAN /\ (written => chain # <<>>)
    BY <1>2
  <2>4. QED
    BY <2>1, <2>2, <2>3 DEF DaemonOK
<1>4. LogInv
  BY <1>2 DEF LogInv, FileOrdered, Increasing, Continues, Above
<1>5. QED
  BY <1>3, <1>4 DEF DaemonInv

(* emit: the next number is above the file and the chain, and stays above both. *)
LEMMA EmitInv == DaemonInv /\ Emit => DaemonInv'
<1>1. SUFFICES ASSUME DaemonInv, Emit PROVE DaemonInv'
  OBVIOUS
<1> DEFINE event == [seq |-> nextSeq, id |-> emitted + 1]
<1>2. /\ up /\ up' = up /\ file' = file /\ tail' = tail /\ emitted' = emitted + 1
      /\ written' = written
      /\ emitted < MaxEvents /\ nextSeq' = nextSeq + 1 /\ chain' = Append(chain, event)
  BY <1>1 DEF Emit
<1>3. /\ up \in BOOLEAN /\ nextSeq \in Nat /\ emitted \in 0..MaxEvents
      /\ chain \in Seq(Event) /\ file \in Seq(Event) /\ tail \in {"clean", "torn", "unended"}
      /\ written \in BOOLEAN /\ (written => chain # <<>>)
  BY <1>1 DEF DaemonInv, DaemonOK
<1>4. /\ FileOrdered /\ Increasing(chain) /\ Continues
      /\ Above(nextSeq, file) /\ Above(nextSeq, chain) /\ (tail = "unended" => file # <<>>)
  BY <1>1, <1>2 DEF DaemonInv, LogInv
<1>5. event \in Event /\ event.seq = nextSeq
  BY <1>2, <1>3, TimelineBounds DEF Event
<1> HIDE DEF event
<1>6. /\ chain' \in Seq(Event) /\ Increasing(chain')
      /\ \A i \in DOMAIN chain' : (i \in DOMAIN chain /\ chain'[i] = chain[i]) \/ chain'[i] = event
  BY <1>2, <1>3, <1>4, <1>5, AppendIncreasing
<1>7. DaemonOK'
  BY <1>2, <1>3, <1>6, TimelineBounds DEF DaemonOK
<1>8. FileOrdered'
  BY <1>2, <1>4 DEF FileOrdered, Increasing
<1>9. Continues'
  BY <1>2, <1>4, <1>5, <1>6 DEF Continues, Above
<1>10. Above(nextSeq', file')
  <2>1. \A i \in DOMAIN file : file[i].seq \in Nat
    BY <1>3, Numbered
  <2>2. QED
    BY <1>2, <1>3, <1>4, <2>1 DEF Above
<1>11. Above(nextSeq', chain')
  <2>1. \A i \in DOMAIN chain : chain[i].seq \in Nat
    BY <1>3, Numbered
  <2>2. QED
    BY <1>2, <1>3, <1>4, <1>5, <1>6, <2>1 DEF Above
<1>12. LogInv'
  BY <1>2, <1>4, <1>6, <1>8, <1>9, <1>10, <1>11 DEF LogInv
<1>13. QED
  BY <1>7, <1>12 DEF DaemonInv

(* The oldest event is in the file now: all others of the chain are above it. *)
LEMMA AppendDoneInv == DaemonInv /\ AppendDone => DaemonInv'
<1>1. SUFFICES ASSUME DaemonInv, AppendDone PROVE DaemonInv'
  OBVIOUS
<1>2. /\ chain # <<>> /\ ~written /\ Appended(Head(chain)) /\ written' = TRUE
      /\ UNCHANGED <<up, nextSeq, chain, emitted>>
  BY <1>1 DEF AppendDone, counts
<1>3. /\ up \in BOOLEAN /\ nextSeq \in Nat /\ emitted \in 0..MaxEvents
      /\ chain \in Seq(Event) /\ file \in Seq(Event)
  BY <1>1 DEF DaemonInv, DaemonOK
<1>4. /\ Increasing(chain) /\ Continues /\ up
      /\ Above(nextSeq, file) /\ Above(nextSeq, chain)
  BY <1>1, <1>2 DEF DaemonInv, LogInv
<1>5. FileStep(Head(chain))
  BY <1>1, <1>2, AppendedKeepsOrder
<1>6. /\ file' \in Seq(Event) /\ FileOrdered'
      /\ tail' \in {"clean", "torn", "unended"} /\ (tail' = "unended" => file' # <<>>)
      /\ \A i \in DOMAIN file' : (\E j \in DOMAIN file : file'[i] = file[j]) \/ file'[i] = Head(chain)
  BY <1>5 DEF FileStep
<1>7. 1 \in DOMAIN chain /\ Head(chain) = chain[1]
  BY <1>2, <1>3
<1>8. DaemonOK'
  BY <1>2, <1>3, <1>6 DEF DaemonOK
<1>9. Continues'
  <2>1. ASSUME NEW i \in DOMAIN file', NEW j \in DOMAIN chain, j # 1
        PROVE  file'[i].seq < chain[j].seq
    <3>1. CASE \E k \in DOMAIN file : file'[i] = file[k]
      BY <1>2, <1>4, <2>1, <3>1 DEF Continues
    <3>2. CASE file'[i] = Head(chain)
      <4>1. 1 < j
        BY <1>3, <2>1
      <4>2. QED
        BY <1>4, <1>7, <2>1, <3>2, <4>1 DEF Increasing
    <3>3. QED
      BY <1>6, <3>1, <3>2
  <2>2. QED
    BY <1>2, <2>1 DEF Continues
<1>10. Above(nextSeq', file')
  <2>1. ASSUME NEW i \in DOMAIN file' PROVE file'[i].seq < nextSeq
    <3>1. CASE \E k \in DOMAIN file : file'[i] = file[k]
      BY <1>4, <3>1 DEF Above
    <3>2. CASE file'[i] = Head(chain)
      BY <1>4, <1>7, <3>2 DEF Above
    <3>3. QED
      BY <1>6, <3>1, <3>2
  <2>2. QED
    BY <1>2, <2>1 DEF Above
<1>11. Increasing(chain') /\ Above(nextSeq', chain')
  BY <1>2, <1>4
<1>12. LogInv'
  BY <1>2, <1>4, <1>6, <1>9, <1>10, <1>11 DEF LogInv
<1>13. QED
  BY <1>8, <1>12 DEF DaemonInv

(* The oldest event leaves the chain: for the file, or for nothing. *)
LEMMA TakeHead ==
  ASSUME DaemonInv, chain # <<>>, FileStep(Head(chain)), chain' = Tail(chain),
         written' = FALSE, UNCHANGED <<up, nextSeq, emitted>>
  PROVE  DaemonInv'
<1>1. /\ up \in BOOLEAN /\ nextSeq \in Nat /\ emitted \in 0..MaxEvents
      /\ chain \in Seq(Event) /\ file \in Seq(Event)
  BY DEF DaemonInv, DaemonOK
<1>2. /\ Increasing(chain) /\ Continues /\ (up \/ chain = <<>>)
      /\ (up => Above(nextSeq, file) /\ Above(nextSeq, chain))
  BY DEF DaemonInv, LogInv
<1>3. /\ file' \in Seq(Event) /\ FileOrdered'
      /\ tail' \in {"clean", "torn", "unended"} /\ (tail' = "unended" => file' # <<>>)
      /\ \A i \in DOMAIN file' : (\E j \in DOMAIN file : file'[i] = file[j]) \/ file'[i] = Head(chain)
  BY DEF FileStep
<1>4. /\ Tail(chain) \in Seq(Event) /\ Increasing(Tail(chain))
      /\ \A i \in DOMAIN Tail(chain) :
           /\ i + 1 \in DOMAIN chain /\ Tail(chain)[i] = chain[i + 1]
           /\ Head(chain).seq < Tail(chain)[i].seq
  BY <1>1, <1>2, TailIncreasing
<1>5. up
  BY <1>2
<1>6. Above(nextSeq, file) /\ Above(nextSeq, chain)
  BY <1>2, <1>5
<1>7. 1 \in DOMAIN chain /\ Head(chain) = chain[1]
  BY <1>1
<1>8. DaemonOK'
  BY <1>1, <1>3, <1>4 DEF DaemonOK
<1>9. Continues'
  <2>1. ASSUME NEW i \in DOMAIN file', NEW j \in DOMAIN chain'
        PROVE  file'[i].seq < chain'[j].seq
    <3>1. /\ chain'[j] = chain[j + 1] /\ j + 1 \in DOMAIN chain /\ j + 1 # 1
          /\ Head(chain).seq < chain'[j].seq
      BY <1>4, <2>1
    <3>2. CASE \E k \in DOMAIN file : file'[i] = file[k]
      BY <1>2, <3>1, <3>2 DEF Continues
    <3>3. CASE file'[i] = Head(chain)
      BY <3>1, <3>3
    <3>4. QED
      BY <1>3, <3>2, <3>3
  <2>2. QED
    BY <2>1 DEF Continues
<1>10. Above(nextSeq', file')
  <2>1. ASSUME NEW i \in DOMAIN file' PROVE file'[i].seq < nextSeq
    <3>1. CASE \E k \in DOMAIN file : file'[i] = file[k]
      BY <1>6, <3>1 DEF Above
    <3>2. CASE file'[i] = Head(chain)
      BY <1>6, <1>7, <3>2 DEF Above
    <3>3. QED
      BY <1>3, <3>1, <3>2
  <2>2. QED
    BY <2>1 DEF Above
<1>11. Above(nextSeq', chain')
  BY <1>4, <1>6 DEF Above
<1>12. Increasing(chain')
  BY <1>4
<1>13. LogInv'
  BY <1>3, <1>5, <1>9, <1>10, <1>11, <1>12 DEF LogInv
<1>14. QED
  BY <1>8, <1>13 DEF DaemonInv

(* The file after a crash is in order, whatever became of the append under way. *)
LEMMA DaemonCrashInv == DaemonInv /\ DaemonCrash => DaemonInv'
<1>1. SUFFICES ASSUME DaemonInv, DaemonCrash PROVE DaemonInv'
  OBVIOUS
<1>2. /\ up' = FALSE /\ chain' = <<>> /\ written' = FALSE /\ nextSeq' = 0 /\ emitted' = emitted
      /\ \/ UNCHANGED <<file, tail>>
         \/ chain # <<>> /\ ~written /\ Appended(Head(chain))
         \/ chain # <<>> /\ ~written /\ Interrupted(Head(chain))
  BY <1>1 DEF DaemonCrash, counts
<1>3. FileStep(Head(chain))
  BY <1>1, <1>2, AppendedKeepsOrder, InterruptedKeepsOrder, NothingKeepsOrder
<1>4. /\ file' \in Seq(Event) /\ FileOrdered'
      /\ tail' \in {"clean", "torn", "unended"} /\ (tail' = "unended" => file' # <<>>)
  BY <1>3 DEF FileStep
<1>5. emitted \in 0..MaxEvents
  BY <1>1 DEF DaemonInv, DaemonOK
<1>6. DaemonOK'
  <2>1. up' = FALSE /\ chain' = <<>> /\ written' = FALSE /\ nextSeq' = 0 /\ emitted' = emitted
    BY <1>2
  <2>2. up' \in BOOLEAN /\ nextSeq' \in Nat /\ emitted' \in 0..MaxEvents
    BY <1>5, <2>1
  <2>3. chain' \in Seq(Event)
    BY <2>1
  <2>4. written' \in BOOLEAN /\ (written' => chain' # <<>>)
    BY <2>1
  <2>5. QED
    BY <1>4, <2>2, <2>3, <2>4 DEF DaemonOK
<1>7. Increasing(chain') /\ Continues'
  BY <1>2 DEF Increasing, Continues
<1>8. LogInv'
  BY <1>2, <1>4, <1>7 DEF LogInv
<1>9. QED
  BY <1>6, <1>8 DEF DaemonInv

(* lastSeq: the number after the last readable event is above all of them. *)
LEMMA RestartInv == DaemonInv /\ Restart => DaemonInv'
<1>1. SUFFICES ASSUME DaemonInv, Restart PROVE DaemonInv'
  OBVIOUS
<1>2. /\ up' = TRUE /\ nextSeq' = NextOf(file) /\ ~up
      /\ UNCHANGED <<chain, written, file, tail, emitted>>
  BY <1>1 DEF Restart
<1>3. /\ emitted \in 0..MaxEvents /\ chain \in Seq(Event) /\ file \in Seq(Event)
      /\ tail \in {"clean", "torn", "unended"} /\ written \in BOOLEAN /\ (written => chain # <<>>)
  BY <1>1 DEF DaemonInv, DaemonOK
<1>4. /\ Increasing(file) /\ FileOrdered /\ chain = <<>> /\ (tail = "unended" => file # <<>>)
  BY <1>1, <1>2 DEF DaemonInv, LogInv, FileOrdered
<1>5. NextOf(file) \in Nat /\ Above(NextOf(file), file)
  <2>1. CASE file = <<>>
    BY <2>1 DEF NextOf, Above
  <2>2. CASE file # <<>>
    <3>1. Len(file) \in DOMAIN file /\ Last(file) = file[Len(file)]
      BY <1>3, <2>2 DEF Last
    <3>2. NextOf(file) = file[Len(file)].seq + 1
      BY <2>2, <3>1 DEF NextOf
    <3>3. \A i \in DOMAIN file : file[i].seq \in Nat
      BY <1>3, Numbered
    <3>4. ASSUME NEW i \in DOMAIN file PROVE file[i].seq < NextOf(file)
      <4>1. i = Len(file) \/ i < Len(file)
        BY <1>3
      <4>2. file[i].seq <= file[Len(file)].seq
        BY <1>4, <3>1, <3>3, <4>1 DEF Increasing
      <4>3. QED
        BY <3>1, <3>2, <3>3, <4>2
    <3>5. NextOf(file) \in Nat
      BY <3>1, <3>2, <3>3
    <3>6. QED
      BY <3>4, <3>5 DEF Above
  <2>3. QED
    BY <2>1, <2>2
<1>6. DaemonOK'
  BY <1>2, <1>3, <1>5 DEF DaemonOK
<1>7. Increasing(chain') /\ Continues' /\ Above(nextSeq', chain')
  BY <1>2, <1>4 DEF Increasing, Continues, Above
<1>8. Above(nextSeq', file') /\ FileOrdered'
  BY <1>2, <1>4, <1>5 DEF FileOrdered
<1>9. LogInv'
  BY <1>2, <1>4, <1>7, <1>8 DEF LogInv
<1>10. QED
  BY <1>6, <1>9 DEF DaemonInv

(* The connection and the client do not touch what the daemon keeps. *)
LEMMA OthersInv == DaemonInv /\ UNCHANGED <<daemon, emitted>> => DaemonInv'
BY DEF DaemonInv, DaemonOK, LogInv, FileOrdered, Increasing, Continues, Above, daemon

(* Every step keeps the invariant. *)
LEMMA NextInv == DaemonInv /\ [Next]_vars => DaemonInv'
<1>1. SUFFICES ASSUME DaemonInv, [Next]_vars PROVE DaemonInv'
  OBVIOUS
<1>2. CASE Emit
  BY <1>1, <1>2, EmitInv
<1>3. CASE AppendDone
  BY <1>1, <1>3, AppendDoneInv
<1>4. CASE Broadcast
  <2>1. chain # <<>>
    BY <1>1, <1>4 DEF Broadcast, DaemonInv, DaemonOK
  <2>2. /\ chain' = Tail(chain) /\ written' = FALSE
        /\ UNCHANGED <<up, nextSeq, file, tail, emitted>>
    BY <1>4 DEF Broadcast, counts
  <2>3. FileStep(Head(chain))
    BY <1>1, <2>2, NothingKeepsOrder
  <2>4. QED
    BY <1>1, <2>1, <2>2, <2>3, TakeHead
<1>5. CASE AppendFails
  <2>1. /\ chain # <<>> /\ chain' = Tail(chain) /\ ~written /\ written' = written
        /\ UNCHANGED <<up, nextSeq, emitted>>
    BY <1>5 DEF AppendFails, counts
  <2>2. FileStep(Head(chain))
    BY <1>1, <1>5, InterruptedKeepsOrder, NothingKeepsOrder DEF AppendFails
  <2>3. written' = FALSE
    BY <1>1, <2>1 DEF DaemonInv, DaemonOK
  <2>4. QED
    BY <1>1, <2>1, <2>2, <2>3, TakeHead
<1>6. CASE DaemonCrash
  BY <1>1, <1>6, DaemonCrashInv
<1>7. CASE Restart
  BY <1>1, <1>7, RestartInv
<1>8. CASE ServeTimeline
  <2>1. UNCHANGED <<daemon, emitted>>
    BY <1>8 DEF ServeTimeline, ReadTimeline, Reply, counts
  <2>2. QED
    BY <1>1, <2>1, OthersInv
<1>9. CASE Connect \/ Disconnect \/ Receive
  <2>1. UNCHANGED <<daemon, emitted>>
    BY <1>9 DEF Connect, Disconnect, Receive, ReceiveHello, RendererEvent, GapReply, LoadReply,
                StreamEvent, BackfillReply, counts
  <2>2. QED
    BY <1>1, <2>1, OthersInv
<1>10. CASE SyncTimelineGap \/ LoadTimeline \/ HidePane \/ Watch
  <2>1. UNCHANGED <<daemon, emitted>>
    BY <1>10 DEF SyncTimelineGap, LoadTimeline, HidePane, Watch, counts
  <2>2. QED
    BY <1>1, <2>1, OthersInv
<1>11. CASE UNCHANGED vars
  BY <1>1, <1>11, OthersInv DEF vars, counts
<1>12. QED
  BY <1>1, <1>2, <1>3, <1>4, <1>5, <1>6, <1>7, <1>8, <1>9, <1>10, <1>11 DEF Next

(***************************************************************************)
(* The log of the daemon keeps its invariant whatever the environment does:*)
(* the file and the chain are in order and the next number is above both.  *)
(***************************************************************************)
THEOREM LogInvariant == Spec => []DaemonInv
BY InitInv, NextInv, PTL DEF Spec

(***************************************************************************)
(* The timeline that can be read is in the order of its numbers, each used *)
(* once, after any interrupted or failed appends, crashes and restarts.    *)
(***************************************************************************)
THEOREM FileAlwaysOrdered == Spec => []FileOrdered
<1>1. DaemonInv => FileOrdered
  BY DEF DaemonInv, LogInv
<1>2. QED
  BY LogInvariant, <1>1, PTL

-----------------------------------------------------------------------------
(* The copies of clients: the parts of the inductive invariants *)

(* What the chain has sent, or would have to a client that was there. *)
Sent == IF written THEN Len(file) - 1 ELSE Len(file)

(* piece holds the events of whole from behind the first on, up to the last. *)
Piece(piece, whole, first, last) ==
  /\ Len(piece) = last - first
  /\ \A i \in 1..Len(piece) : piece[i] = whole[first + i]

InFile(events) == ToSet(events) \subseteq ToSet(file)

IsEvent(message) == message.kind = "event"

(* The link is there from the greeting on, which is the first message; without it nothing is
   on its way. *)
LinkInv ==
  /\ ~up => link = "down"
  /\ link = "down" =>
       /\ wire = <<>> /\ requests = {} /\ ~resyncing
       /\ ~Renderer => view = <<>> /\ ~open
  /\ link = "hello" <=> \E i \in DOMAIN wire : wire[i].kind = "hello"
  /\ \A i \in DOMAIN wire : wire[i].kind = "hello" => i = 1
  /\ link = "hello" => links > 0 /\ ~resyncing
  /\ Renderer => ~buffering /\ since = {}
  /\ ~Renderer => ~resyncing
  /\ ~buffering => buffered = <<>>
  /\ ~Renderer /\ ~open =>
       /\ ~buffering /\ view = <<>> /\ since = {} /\ requests = {}
       /\ \A i \in DOMAIN wire : wire[i].kind # "reply"

(* Nothing is on its way to a client, or shown, that could not be read again. *)
KeptInv ==
  /\ tail = "clean"
  /\ written => file # <<>> /\ file[Len(file)] = chain[1]
  /\ InFile(view) /\ InFile(buffered)
  /\ \A request \in requests : InFile(request.events)
  /\ \A i \in DOMAIN wire :
       /\ IsEvent(wire[i]) => wire[i].event \in ToSet(file)
       /\ wire[i].kind = "reply" => InFile(wire[i].events)

(* The answer to a load is the whole file: nothing is emitted until it has come. *)
LoadInv ==
  /\ \A request \in requests : request.load =>
       /\ request.from = 0 /\ Above(request.upto, chain)
       /\ request.read => chain = <<>> /\ request.events = file
  /\ \A i \in DOMAIN wire : wire[i].kind = "reply" /\ wire[i].load =>
       /\ chain = <<>> /\ wire[i].events = file
       /\ \A j \in DOMAIN wire : j > i => wire[j].kind = "reply"

(* The view is not about to be built anew. *)
Lasting == open /\ ~Outstanding(TRUE)

(* The events are the rest of the file, and a view that lasts has all that comes before. *)
Fills(events) ==
  \E first \in 0..Len(file) :
    Piece(events, file, first, Len(file)) /\ (Lasting => first <= Len(view))

(* No pane is visible before the first connection is there. *)
Unloaded ==
  /\ links = 0 => link = "down"
  /\ links = 0 \/ (links = 1 /\ link = "hello") => ~open

(* Nothing is emitted, or sent, while the renderer resynchronises. *)
Still == Resyncing => chain = <<>> /\ \A i \in DOMAIN wire : ~IsEvent(wire[i])

(* What is asked for, and answered, to fill the gap. *)
GapsAsked ==
  \A request \in requests : ~request.load =>
    /\ request.from <= NextOf(file)
    /\ Lasting => request.from <= NextOf(view)
    /\ request.read => Fills(request.events)

GapsAnswered ==
  \A i \in DOMAIN wire : wire[i].kind = "reply" /\ ~wire[i].load => Fills(wire[i].events)

(* A visible pane shows the beginning of the file. The rest is on its way as live events, or
   is asked for. *)
Shown ==
  Lasting =>
    /\ Len(view) <= Len(file) /\ Piece(view, file, 0, Len(view))
    /\ link # "down" /\ ~Resyncing =>
         /\ Len(view) + Len(wire) = Sent
         /\ \A i \in DOMAIN wire : IsEvent(wire[i]) /\ wire[i].event = file[Len(view) + i]

PaneInv == Unloaded /\ Still /\ GapsAsked /\ GapsAnswered /\ Shown

(* Of the messages on the wire one at most is not an event, the one at gap; the others are the
   events of the file behind the first, up to what was sent. *)
Streams(first, gap) ==
  /\ gap \in 0..Len(wire) /\ first \in 0..Len(file)
  /\ first + Len(wire) = IF gap = 0 THEN Sent ELSE Sent + 1
  /\ gap # 0 => ~IsEvent(wire[gap])
  /\ \A i \in DOMAIN wire : i # gap =>
       IsEvent(wire[i]) /\ wire[i].event = file[IF gap = 0 \/ i < gap THEN first + i ELSE first + i - 1]

(* Nothing that was asked for is before the first. *)
Unasked(first) == \A from \in since : \A i \in 1..first : file[i].seq < from

(* The events answer the request to fill in: what they leave out was not asked for, or is
   behind what has been held back since. *)
Answers(events, held) ==
  \E first, last \in 0..Len(file) :
    /\ first <= last /\ held <= last
    /\ Piece(events, file, first, last)
    /\ Unasked(first)

(* A stream asks once, and holds events back until the answer has come. *)
AsksOnce ==
  /\ requests # {} => buffering
  /\ \A request, other \in requests : request = other
  /\ \A i \in DOMAIN wire : wire[i].kind = "reply" => buffering /\ requests = {}
  /\ link = "hello" => ~open

(* What a listening stream has shown is a section of the file that reaches what is next. *)
Shows(next) ==
  open /\ ~buffering =>
    \E first, last \in 0..Len(file) :
      /\ first <= last /\ next <= last /\ (first = last => next = last)
      /\ Piece(view, file, first, last) /\ Unasked(first)

(* What a stream holds back while it backfills reaches what is next, and the answer reaches
   what is held back. *)
Holds(next) ==
  buffering =>
    /\ view = <<>>
    /\ \E held \in 0..next :
         /\ Piece(buffered, file, held, next)
         /\ \A request \in requests :
              /\ since = {request.from} /\ ~request.load
              /\ request.read => Answers(request.events, held)
         /\ \A i \in DOMAIN wire : wire[i].kind = "reply" =>
              ~wire[i].load /\ Answers(wire[i].events, held)

Flows(next, gap) == Streams(next, gap) /\ Shows(next) /\ Holds(next)

StreamInv ==
  /\ AsksOnce
  /\ link # "down" => \E next \in 0..Len(file), gap \in 0..Len(wire) : Flows(next, gap)

KeptEnv == Spared({"torn"})
LoadEnv == Renderer /\ Spared({"load", "torn"})
PaneEnv == Renderer /\ Spared({"resync", "load", "lostload", "torn"})
StreamEnv == ~Renderer /\ Spared({"torn"})

ViewsInv ==
  /\ LinkInv
  /\ KeptEnv => KeptInv
  /\ LoadEnv => LoadInv
  /\ PaneEnv => PaneInv
  /\ StreamEnv => StreamInv

-----------------------------------------------------------------------------
(* Induction over numbers *)

(* Induction: a set with zero and the successor of each of its members has every number. *)
LEMMA Induction ==
  ASSUME NEW S, 0 \in S, \A n \in Nat : n \in S => n + 1 \in S
  PROVE  Nat \subseteq S
<1> SUFFICES ASSUME Nat \ S # {} PROVE FALSE
  OBVIOUS
<1> DEFINE R == OpToRel(<, Nat)
<1>1. IsWellFoundedOn(R, Nat)
  BY NatLessThanWellFounded
<1>2. \A x, y \in Nat : x < y => <<x, y>> \in R
  BY DEF OpToRel
<1> HIDE DEF R
<1>3. PICK x \in Nat \ S : \A y \in Nat \ S : <<y, x>> \notin R
  BY <1>1, WFMin, Zenon
<1>4. x # 0 /\ x - 1 \in Nat /\ x - 1 < x
  BY <1>3
<1>5. x - 1 \in S
  BY <1>2, <1>3, <1>4
<1> QED
  BY <1>3, <1>4, <1>5

(* The steps lead from the base through members of S. *)
Leads(S, size, base, step) ==
  \E f \in [0..size -> S] :
    f[0] = base /\ \A n \in 1..size : f[n] = step[n][f[n - 1]]

(* A recursion over 1..size has a result. *)
LEMMA Recursion ==
  ASSUME NEW S, NEW size \in Nat, NEW base \in S, NEW step \in [1..size -> [S -> S]]
  PROVE  Leads(S, size, base, step)
<1> DEFINE Done(k, f) == f[0] = base /\ \A n \in 1..k : f[n] = step[n][f[n - 1]]
           T == {k \in Nat : k <= size => \E f \in [0..k -> S] : Done(k, f)}
<1>1. 0 \in T
  <2>1. Done(0, [n \in 0..0 |-> base]) /\ [n \in 0..0 |-> base] \in [0..0 -> S]
    OBVIOUS
  <2> QED
    BY <2>1, Zenon
<1>2. ASSUME NEW k \in Nat, k \in T
      PROVE  k + 1 \in T
  <2> SUFFICES ASSUME k + 1 <= size
               PROVE  \E f \in [0..k + 1 -> S] : Done(k + 1, f)
    OBVIOUS
  <2>1. PICK f \in [0..k -> S] : Done(k, f)
    BY <1>2
  <2> DEFINE g == [n \in 0..k + 1 |-> IF n = k + 1 THEN step[k + 1][f[k]] ELSE f[n]]
  <2>2. step[k + 1][f[k]] \in S
    OBVIOUS
  <2>3. g \in [0..k + 1 -> S]
    BY <2>2
  <2>4. g[0] = base
    BY <2>1
  <2>5. ASSUME NEW n \in 1..k + 1
        PROVE  g[n] = step[n][g[n - 1]]
    <3>1. CASE n = k + 1
      BY <3>1
    <3>2. CASE n # k + 1
      BY <2>1, <3>2
    <3> QED
      BY <3>1, <3>2
  <2> QED
    BY <2>3, <2>4, <2>5
<1>3. Nat \subseteq T
  <2> HIDE DEF T
  <2> QED
    BY <1>1, <1>2, Induction
<1> QED
  BY <1>3 DEF Leads

-----------------------------------------------------------------------------
(* Reading and applying events *)

(* NextOf is a number, behind all of an increasing sequence. *)
LEMMA NextBehind ==
  ASSUME NEW events \in Seq(Event)
  PROVE  /\ NextOf(events) \in Nat
         /\ Increasing(events) => Above(NextOf(events), events)
         /\ events # <<>> => NextOf(events) = events[Len(events)].seq + 1
BY Numbered DEF NextOf, Last, Above, Increasing

(* Apply keeps the type. *)
LEMMA ApplyType ==
  ASSUME NEW events \in Seq(Event), NEW event \in Event
  PROVE  Apply(events, event) \in Seq(Event)
BY DEF Apply

(* An appended event is added. *)
LEMMA AppendSet ==
  ASSUME NEW events \in Seq(Event), NEW event \in Event
  PROVE  ToSet(Append(events, event)) = ToSet(events) \cup {event}
<1> DEFINE longer == Append(events, event)
<1>1. /\ longer \in Seq(Event) /\ Len(longer) = Len(events) + 1 /\ Len(events) \in Nat
      /\ \A i \in 1..Len(events) : longer[i] = events[i]
      /\ longer[Len(events) + 1] = event
  OBVIOUS
<1>2. DOMAIN longer = 1..Len(events) + 1 /\ DOMAIN events = 1..Len(events)
  BY <1>1
<1> HIDE DEF longer
<1>3. ToSet(longer) = ToSet(events) \cup {event}
  BY <1>1, <1>2 DEF ToSet
<1> QED
  BY <1>3 DEF longer

(* The results of ApplyAll one after another. *)
LEMMA ApplyAllUnfolds ==
  ASSUME NEW events \in Seq(Event), NEW more \in Seq(Event)
  PROVE  \E f \in [0..Len(more) -> Seq(Event)] :
           /\ f[0] = events
           /\ \A n \in 1..Len(more) : f[n] = Apply(f[n - 1], more[n])
           /\ ApplyAll(events, more) = f[Len(more)]
<1> DEFINE step == [n \in 1..Len(more) |-> [v \in Seq(Event) |-> Apply(v, more[n])]]
           Def(f) == [n \in 0..Len(more) |-> IF n = 0 THEN events ELSE Apply(f[n - 1], more[n])]
           applied == CHOOSE f : f = Def(f)
<1>1. Len(more) \in Nat /\ \A n \in 1..Len(more) : more[n] \in Event
  OBVIOUS
<1>2. step \in [1..Len(more) -> [Seq(Event) -> Seq(Event)]]
  BY <1>1, ApplyType
<1>3. PICK f \in [0..Len(more) -> Seq(Event)] :
        f[0] = events /\ \A n \in 1..Len(more) : f[n] = step[n][f[n - 1]]
  <2> HIDE DEF step
  <2>1. Leads(Seq(Event), Len(more), events, step)
    BY <1>1, <1>2, Recursion
  <2> QED
    BY <2>1 DEF Leads
<1>4. ASSUME NEW n \in 1..Len(more)
      PROVE  f[n] = Apply(f[n - 1], more[n])
  <2>1. n - 1 \in 0..Len(more)
    BY <1>1
  <2>2. f[n - 1] \in Seq(Event) /\ f[n] = step[n][f[n - 1]]
    BY <1>3, <2>1
  <2> QED
    BY <2>2
<1>5. f = Def(f)
  BY <1>1, <1>3, <1>4
<1>6. applied = Def(applied)
  <2> HIDE DEF Def
  <2> QED
    BY <1>5
<1>7. ASSUME NEW n \in Nat, n <= Len(more) => applied[n] = f[n], n + 1 <= Len(more)
      PROVE  applied[n + 1] = f[n + 1]
  <2>1. n + 1 \in 1..Len(more) /\ n + 1 \in 0..Len(more) /\ n + 1 # 0 /\ (n + 1) - 1 = n
    BY <1>1, <1>7
  <2>2. applied[n + 1] = Apply(applied[(n + 1) - 1], more[n + 1])
    <3> HIDE DEF applied
    <3> QED
      BY <1>6, <2>1
  <2> HIDE DEF applied
  <2> QED
    BY <1>1, <1>4, <1>7, <2>1, <2>2
<1>8. applied[0] = events
  <2> HIDE DEF applied
  <2> QED
    BY <1>1, <1>6
<1> DEFINE T == {n \in Nat : n <= Len(more) => applied[n] = f[n]}
<1>9. Nat \subseteq T
  <2>1. 0 \in T /\ \A n \in Nat : n \in T => n + 1 \in T
    <3> HIDE DEF applied
    <3> QED
      BY <1>3, <1>7, <1>8
  <2> HIDE DEF T
  <2> QED
    BY <2>1, Induction
<1>10. applied[Len(more)] = f[Len(more)]
  <2> HIDE DEF applied
  <2> QED
    BY <1>1, <1>9
<1> QED
  BY <1>3, <1>4, <1>10 DEF ApplyAll

(* The results of From one after another. *)
LEMMA FromUnfolds ==
  ASSUME NEW events \in Seq(Event), NEW from \in Nat
  PROVE  \E f \in [0..Len(events) -> Seq(Event)] :
           /\ f[0] = <<>>
           /\ \A n \in 1..Len(events) :
                f[n] = IF events[n].seq >= from THEN Append(f[n - 1], events[n]) ELSE f[n - 1]
           /\ From(events, from) = f[Len(events)]
<1> DEFINE Next1(v, n) == IF events[n].seq >= from THEN Append(v, events[n]) ELSE v
           step == [n \in 1..Len(events) |-> [v \in Seq(Event) |-> Next1(v, n)]]
           Def(f) == [n \in 0..Len(events) |->
                        IF n = 0 THEN <<>>
                        ELSE IF events[n].seq >= from THEN Append(f[n - 1], events[n])
                        ELSE f[n - 1]]
           kept == CHOOSE f : f = Def(f)
<1>1. Len(events) \in Nat /\ \A n \in 1..Len(events) : events[n] \in Event
  OBVIOUS
<1>2. step \in [1..Len(events) -> [Seq(Event) -> Seq(Event)]]
  BY <1>1
<1>3. PICK f \in [0..Len(events) -> Seq(Event)] :
        f[0] = <<>> /\ \A n \in 1..Len(events) : f[n] = step[n][f[n - 1]]
  <2> HIDE DEF step
  <2>1. <<>> \in Seq(Event)
    OBVIOUS
  <2>2. Leads(Seq(Event), Len(events), <<>>, step)
    BY <1>1, <1>2, <2>1, Recursion
  <2> QED
    BY <2>2 DEF Leads
<1>4. ASSUME NEW n \in 1..Len(events)
      PROVE  f[n] = Next1(f[n - 1], n)
  <2>1. n - 1 \in 0..Len(events)
    BY <1>1
  <2>2. f[n - 1] \in Seq(Event) /\ f[n] = step[n][f[n - 1]]
    BY <1>3, <2>1
  <2> QED
    BY <2>2
<1>5. f = Def(f)
  <2>1. \A n \in 0..Len(events) : n # 0 => n \in 1..Len(events)
    BY <1>1
  <2>2. \A n \in 0..Len(events) : f[n] = Def(f)[n]
    BY <1>3, <1>4, <2>1, Zenon
  <2> QED
    BY <1>3, <2>2
<1>6. kept = Def(kept)
  <2> HIDE DEF Def
  <2> QED
    BY <1>5
<1>7. ASSUME NEW n \in Nat, n <= Len(events) => kept[n] = f[n], n + 1 <= Len(events)
      PROVE  kept[n + 1] = f[n + 1]
  <2>1. n + 1 \in 1..Len(events) /\ n + 1 \in 0..Len(events) /\ n + 1 # 0 /\ (n + 1) - 1 = n
    BY <1>1, <1>7
  <2>2. kept[n + 1] = Next1(kept[(n + 1) - 1], n + 1)
    <3> HIDE DEF kept
    <3> QED
      BY <1>6, <2>1
  <2> HIDE DEF kept
  <2> QED
    BY <1>1, <1>4, <1>7, <2>1, <2>2
<1>8. kept[0] = <<>>
  <2> HIDE DEF kept
  <2> QED
    BY <1>1, <1>6
<1> DEFINE T == {n \in Nat : n <= Len(events) => kept[n] = f[n]}
<1>9. Nat \subseteq T
  <2>1. 0 \in T /\ \A n \in Nat : n \in T => n + 1 \in T
    <3> HIDE DEF kept
    <3> QED
      BY <1>3, <1>7, <1>8
  <2> HIDE DEF T
  <2> QED
    BY <2>1, Induction
<1>10. kept[Len(events)] = f[Len(events)]
  <2> HIDE DEF kept
  <2> QED
    BY <1>1, <1>9
<1> QED
  BY <1>3, <1>4, <1>10 DEF From

(* ApplyAll keeps the type and what was there, and adds nothing but what it is given. *)
LEMMA ApplyAllContents ==
  ASSUME NEW events \in Seq(Event), NEW more \in Seq(Event)
  PROVE  /\ ApplyAll(events, more) \in Seq(Event)
         /\ ToSet(events) \subseteq ToSet(ApplyAll(events, more))
         /\ ToSet(ApplyAll(events, more)) \subseteq ToSet(events) \cup ToSet(more)
<1>1. PICK f \in [0..Len(more) -> Seq(Event)] :
        /\ f[0] = events
        /\ \A n \in 1..Len(more) : f[n] = Apply(f[n - 1], more[n])
        /\ ApplyAll(events, more) = f[Len(more)]
  BY ApplyAllUnfolds
<1> DEFINE Fine(v) == ToSet(events) \subseteq ToSet(v) /\ ToSet(v) \subseteq ToSet(events) \cup ToSet(more)
           T == {n \in Nat : n <= Len(more) => Fine(f[n])}
<1>2. 0 \in T
  BY <1>1
<1>3. ASSUME NEW n \in Nat, n \in T
      PROVE  n + 1 \in T
  <2> SUFFICES ASSUME n + 1 <= Len(more) PROVE Fine(f[n + 1])
    OBVIOUS
  <2> DEFINE v == f[n]
  <2>1. n \in 0..Len(more) /\ n + 1 \in 1..Len(more) /\ v \in Seq(Event) /\ Fine(v)
    BY <1>3
  <2>2. f[n + 1] = Apply(v, more[n + 1])
    BY <1>1, <2>1
  <2>3. more[n + 1] \in Event /\ more[n + 1] \in ToSet(more)
    BY <2>1 DEF ToSet
  <2>4. ToSet(Append(v, more[n + 1])) = ToSet(v) \cup {more[n + 1]}
    BY <2>1, <2>3, AppendSet
  <2> HIDE DEF v
  <2> QED
    BY <2>1, <2>2, <2>3, <2>4 DEF Apply
<1>4. Nat \subseteq T
  <2> HIDE DEF T
  <2> QED
    BY <1>2, <1>3, Induction
<1>5. Fine(f[Len(more)])
  BY <1>4
<1> QED
  BY <1>1, <1>5

(* A piece is continued by the next event of the whole. *)
LEMMA PieceAppend ==
  ASSUME NEW whole \in Seq(Event), NEW piece \in Seq(Event),
         NEW first \in Nat, NEW last \in Nat, first <= last, last < Len(whole),
         Piece(piece, whole, first, last)
  PROVE  Piece(Append(piece, whole[last + 1]), whole, first, last + 1)
<1> DEFINE longer == Append(piece, whole[last + 1])
<1>1. whole[last + 1] \in Event
  OBVIOUS
<1>2. /\ Len(longer) = Len(piece) + 1 /\ Len(piece) = last - first
      /\ \A i \in 1..Len(piece) : longer[i] = piece[i]
      /\ longer[Len(piece) + 1] = whole[last + 1]
  BY <1>1 DEF Piece
<1> HIDE DEF longer
<1>3. ASSUME NEW i \in 1..Len(longer)
      PROVE  longer[i] = whole[first + i]
  <2>1. CASE i = Len(piece) + 1
    BY <1>2, <2>1
  <2>2. CASE i # Len(piece) + 1
    <3>1. i \in 1..Len(piece)
      BY <1>2, <2>2
    <3> QED
      BY <1>2, <3>1 DEF Piece
  <2> QED
    BY <2>1, <2>2
<1>4. Piece(longer, whole, first, last + 1)
  BY <1>2, <1>3 DEF Piece
<1> QED
  BY <1>4 DEF longer

(* Of an increasing sequence From returns the rest, from the first that is asked for. *)
LEMMA FromSplits ==
  ASSUME NEW events \in Seq(Event), NEW from \in Nat, Increasing(events)
  PROVE  /\ From(events, from) \in Seq(Event)
         /\ \E first \in 0..Len(events) :
              /\ Piece(From(events, from), events, first, Len(events))
              /\ \A i \in 1..first : events[i].seq < from
              /\ \A i \in first + 1..Len(events) : events[i].seq >= from
<1>1. PICK f \in [0..Len(events) -> Seq(Event)] :
        /\ f[0] = <<>>
        /\ \A n \in 1..Len(events) :
             f[n] = IF events[n].seq >= from THEN Append(f[n - 1], events[n]) ELSE f[n - 1]
        /\ From(events, from) = f[Len(events)]
  BY FromUnfolds
<1> DEFINE Cut(n, first) ==
             /\ Piece(f[n], events, first, n)
             /\ \A i \in 1..first : events[i].seq < from
             /\ \A i \in first + 1..n : events[i].seq >= from
           T == {n \in Nat : n <= Len(events) => \E first \in 0..n : Cut(n, first)}
<1>2. Len(events) \in Nat /\ \A i \in 1..Len(events) : events[i].seq \in Nat
  BY Numbered
<1>3. 0 \in T
  <2>1. Cut(0, 0)
    BY <1>1 DEF Piece
  <2> QED
    BY <2>1
<1>4. ASSUME NEW n \in Nat, n \in T
      PROVE  n + 1 \in T
  <2> SUFFICES ASSUME n + 1 <= Len(events)
               PROVE  \E first \in 0..n + 1 : Cut(n + 1, first)
    OBVIOUS
  <2>1. PICK first \in 0..n : Cut(n, first)
    <3> HIDE DEF Cut
    <3> QED
      BY <1>4
  <2>2. n + 1 \in 1..Len(events) /\ n \in 0..Len(events) /\ (n + 1) - 1 = n /\ f[n] \in Seq(Event)
    BY <1>1, <1>2
  <2>3. CASE events[n + 1].seq >= from
    <3>1. f[n + 1] = Append(f[n], events[n + 1])
      BY <1>1, <2>2, <2>3
    <3>2. Piece(f[n + 1], events, first, n + 1)
      <4>1. /\ Piece(f[n], events, first, n) /\ first \in Nat /\ first <= n /\ n < Len(events)
            /\ f[n] \in Seq(Event)
        BY <1>2, <2>1, <2>2
      <4> QED
        BY <3>1, <4>1, PieceAppend
    <3>3. Cut(n + 1, first)
      BY <1>2, <2>1, <2>3, <3>2
    <3> QED
      BY <3>3
  <2>4. CASE ~(events[n + 1].seq >= from)
    <3>1. f[n + 1] = f[n]
      BY <1>1, <2>2, <2>4
    <3>2. \A i \in 1..n : events[i].seq < events[n + 1].seq
      BY <1>2, <2>2 DEF Increasing
    <3>3. \A i \in 1..n + 1 : events[i].seq < from
      BY <1>2, <2>2, <2>4, <3>2
    <3>4. first = n
      <4> SUFFICES ASSUME first < n PROVE FALSE
        OBVIOUS
      <4>1. first + 1 \in 1..n /\ first + 1 \in first + 1..n
        OBVIOUS
      <4> QED
        BY <1>2, <2>1, <2>2, <3>3, <4>1
    <3>5. Piece(f[n + 1], events, n + 1, n + 1)
      BY <2>1, <2>2, <3>1, <3>4 DEF Piece
    <3>6. Cut(n + 1, n + 1)
      BY <3>3, <3>5
    <3> HIDE DEF Cut
    <3> QED
      BY <3>6
  <2> QED
    BY <2>3, <2>4
<1>5. Nat \subseteq T
  <2> HIDE DEF T
  <2> QED
    BY <1>3, <1>4, Induction
<1>6. \E first \in 0..Len(events) : Cut(Len(events), first)
  <2> HIDE DEF Cut
  <2> QED
    BY <1>2, <1>5
<1>7. f[Len(events)] \in Seq(Event)
  BY <1>1, <1>2
<1> QED
  BY <1>1, <1>6, <1>7

(* An event of the whole that is not behind a gap continues the piece, or is in it. *)
LEMMA ApplyJoins ==
  ASSUME NEW whole \in Seq(Event), Increasing(whole), NEW piece \in Seq(Event),
         NEW first \in Nat, NEW last \in Nat, first <= last, last <= Len(whole),
         Piece(piece, whole, first, last),
         NEW next \in Nat, next < Len(whole), next <= last, first = last => next = last
  PROVE  Piece(Apply(piece, whole[next + 1]), whole, first, IF next = last THEN last + 1 ELSE last)
<1>1. /\ Len(whole) \in Nat /\ DOMAIN whole = 1..Len(whole) /\ Len(piece) = last - first
      /\ \A i \in 1..Len(whole) : whole[i].seq \in Nat
      /\ piece = <<>> <=> first = last
  BY Numbered DEF Piece
<1>2. first # last => NextOf(piece) = whole[last].seq + 1
  <2> SUFFICES ASSUME first # last PROVE NextOf(piece) = whole[last].seq + 1
    OBVIOUS
  <2>1. Len(piece) \in 1..Len(piece) /\ first + Len(piece) = last
    BY <1>1
  <2> QED
    BY <1>1, <2>1, NextBehind DEF Piece
<1>3. CASE next = last
  <2>1. ~(whole[next + 1].seq < NextOf(piece))
    <3>1. CASE first = last
      BY <1>1, <3>1 DEF NextOf
    <3>2. CASE first # last
      <4>1. last \in DOMAIN whole /\ last + 1 \in DOMAIN whole
        BY <1>1, <1>3, <3>2
      <4>2. whole[last].seq < whole[last + 1].seq
        BY <4>1 DEF Increasing
      <4> QED
        BY <1>1, <1>2, <1>3, <3>2, <4>1, <4>2
    <3> QED
      BY <3>1, <3>2
  <2>2. Apply(piece, whole[next + 1]) = Append(piece, whole[last + 1])
    BY <1>3, <2>1 DEF Apply
  <2> QED
    BY <1>3, <2>2, PieceAppend
<1>4. CASE next # last
  <2>1. first # last /\ next + 1 \in 1..last /\ last \in 1..Len(whole)
    BY <1>1, <1>4
  <2>2. whole[next + 1].seq <= whole[last].seq
    <3>1. CASE next + 1 = last
      BY <1>1, <2>1, <3>1
    <3>2. CASE next + 1 # last
      <4>1. next + 1 < last /\ next + 1 \in DOMAIN whole /\ last \in DOMAIN whole
        BY <1>1, <2>1, <3>2
      <4>2. whole[next + 1].seq < whole[last].seq
        BY <4>1 DEF Increasing
      <4> QED
        BY <1>1, <4>1, <4>2
    <3> QED
      BY <3>1, <3>2
  <2>3. Apply(piece, whole[next + 1]) = piece
    BY <1>1, <1>2, <2>1, <2>2 DEF Apply
  <2> QED
    BY <1>4, <2>3
<1> QED
  BY <1>3, <1>4

(* How far a piece up to the last reaches when one from next on is applied to it. *)
Reaching(next, last, n) == IF next + n <= last THEN last ELSE next + n

Reaches(first, next, last, n, size) ==
  /\ Reaching(next, last, n) \in Nat
  /\ first <= Reaching(next, last, n) /\ Reaching(next, last, n) <= size
  /\ next + n \in Nat /\ next + n <= Reaching(next, last, n)
  /\ first = Reaching(next, last, n) => next + n = Reaching(next, last, n)
  /\ Reaching(next, last, n + 1) =
       IF next + n = Reaching(next, last, n) THEN Reaching(next, last, n) + 1
       ELSE Reaching(next, last, n)

LEMMA ReachesOn ==
  ASSUME NEW first \in Nat, NEW last \in Nat, NEW next \in Nat, NEW n \in Nat, NEW size \in Nat,
         first <= last, last <= size, next <= last, first = last => next = last, next + n < size
  PROVE  Reaches(first, next, last, n, size)
<1>1. CASE next + n <= last
  BY <1>1 DEF Reaches, Reaching
<1>2. CASE ~(next + n <= last)
  BY <1>2 DEF Reaches, Reaching
<1> QED
  BY <1>1, <1>2

(* So does a piece of the whole. *)
LEMMA ApplyAllJoins ==
  ASSUME NEW whole \in Seq(Event), Increasing(whole),
         NEW piece \in Seq(Event), NEW more \in Seq(Event),
         NEW first \in Nat, NEW last \in Nat, first <= last, last <= Len(whole),
         Piece(piece, whole, first, last),
         NEW next \in Nat, NEW end \in Nat, next <= end, end <= Len(whole),
         Piece(more, whole, next, end),
         next <= last, first = last => next = last
  PROVE  Piece(ApplyAll(piece, more), whole, first, IF end <= last THEN last ELSE end)
<1>1. PICK f \in [0..Len(more) -> Seq(Event)] :
        /\ f[0] = piece
        /\ \A n \in 1..Len(more) : f[n] = Apply(f[n - 1], more[n])
        /\ ApplyAll(piece, more) = f[Len(more)]
  BY ApplyAllUnfolds
<1> DEFINE Reached(n) == Reaching(next, last, n)
           T == {n \in Nat : n <= Len(more) => Piece(f[n], whole, first, Reached(n))}
<1>2. Len(more) = end - next /\ Len(more) \in Nat /\ Len(whole) \in Nat
  BY DEF Piece
<1>3. 0 \in T
  BY <1>1 DEF Reaching
<1>4. ASSUME NEW n \in Nat, n \in T
      PROVE  n + 1 \in T
  <2> SUFFICES ASSUME n + 1 <= Len(more)
               PROVE  Piece(f[n + 1], whole, first, Reached(n + 1))
    OBVIOUS
  <2>1. n \in 0..Len(more) /\ n + 1 \in 1..Len(more) /\ (n + 1) - 1 = n /\ f[n] \in Seq(Event)
    BY <1>1, <1>2
  <2>2. f[n + 1] = Apply(f[n], whole[next + n + 1])
    <3>1. f[n + 1] = Apply(f[n], more[n + 1])
      BY <1>1, <2>1
    <3>2. more[n + 1] = whole[next + (n + 1)] /\ next + (n + 1) = next + n + 1
      BY <2>1 DEF Piece
    <3> QED
      BY <3>1, <3>2
  <2>3. /\ Reached(n) \in Nat /\ first <= Reached(n) /\ Reached(n) <= Len(whole)
        /\ next + n \in Nat /\ next + n < Len(whole) /\ next + n <= Reached(n)
        /\ first = Reached(n) => next + n = Reached(n)
        /\ Reached(n + 1) = IF next + n = Reached(n) THEN Reached(n) + 1 ELSE Reached(n)
    <3>1. Len(whole) \in Nat /\ next + n < Len(whole)
      BY <1>2
    <3>2. Reaches(first, next, last, n, Len(whole))
      BY <3>1, ReachesOn
    <3> QED
      BY <3>1, <3>2 DEF Reaches
  <2>4. Piece(f[n], whole, first, Reached(n))
    BY <1>4, <2>1
  <2>5. \A at, reached \in Nat :
          /\ first <= reached /\ reached <= Len(whole) /\ Piece(f[n], whole, first, reached)
          /\ at < Len(whole) /\ at <= reached /\ (first = reached => at = reached)
          => Piece(Apply(f[n], whole[at + 1]), whole, first,
                   IF at = reached THEN reached + 1 ELSE reached)
    BY <2>1, ApplyJoins
  <2> HIDE DEF Reached
  <2>6. Piece(Apply(f[n], whole[next + n + 1]), whole, first,
              IF next + n = Reached(n) THEN Reached(n) + 1 ELSE Reached(n))
    BY <2>3, <2>4, <2>5
  <2> QED
    BY <2>2, <2>3, <2>6
<1>5. Nat \subseteq T
  <2> HIDE DEF T
  <2> QED
    BY <1>3, <1>4, Induction
<1>6. Piece(f[Len(more)], whole, first, Reached(Len(more)))
  <2> HIDE DEF Reached
  <2> QED
    BY <1>2, <1>5
<1>7. Reached(Len(more)) = IF end <= last THEN last ELSE end
  BY <1>2 DEF Reaching
<1> QED
  BY <1>1, <1>6, <1>7

-----------------------------------------------------------------------------
(* The type invariant *)

(* Messages of each kind are messages. *)
LEMMA MessageTypes ==
  /\ [kind |-> "hello"] \in Message
  /\ \A event \in Event : [kind |-> "event", event |-> event] \in Message
  /\ \A load \in BOOLEAN, events \in Seq(Event) :
       [kind |-> "reply", load |-> load, events |-> events] \in Message
  /\ \A message \in Message :
       /\ message.kind \in {"hello", "event", "reply"}
       /\ message.kind = "event" => message.event \in Event
       /\ message.kind = "reply" => message.load \in BOOLEAN /\ message.events \in Seq(Event)
BY DEF Message

(* A request that is read stays a request. *)
LEMMA ReadType ==
  ASSUME NEW request \in Request, NEW events \in Seq(Event)
  PROVE  [request EXCEPT !.read = TRUE, !.events = events] \in Request
BY DEF Request

(* So is what is asked. *)
LEMMA AskType ==
  ASSUME DaemonOK, ConnOK, NEW load \in BOOLEAN, NEW from \in Nat, Ask(load, from)
  PROVE  requests' \in SUBSET Request /\ asked' \in Nat
<1>1. <<>> \in Seq(Event)
  OBVIOUS
<1>2. [id |-> asked + 1, load |-> load, from |-> from, upto |-> nextSeq,
       read |-> FALSE, events |-> <<>>] \in Request
  BY <1>1 DEF ConnOK, DaemonOK, Request
<1>3. requests \in SUBSET Request /\ asked + 1 \in Nat
  BY DEF ConnOK
<1> QED
  BY <1>2, <1>3, Zenon DEF Ask

(* A lost link loses nothing of its types. *)
LEMMA LoseLinkType ==
  ASSUME ConnOK, CopyOK, LoseLink, UNCHANGED counts
  PROVE  ConnOK' /\ CopyOK'
<1>1. requests' \in SUBSET Request /\ wire' \in Seq(Message)
  BY DEF LoseLink
<1>2. view' \in Seq(Event) /\ buffered' \in Seq(Event)
  BY DEF LoseLink, CopyOK
<1> QED
  BY <1>1, <1>2 DEF LoseLink, ConnOK, CopyOK, counts

(* The first message leaves the wire. *)
LEMMA ArrivesType ==
  ASSUME ConnOK, NEW kind, Arrives(kind)
  PROVE  /\ wire' \in Seq(Message) /\ Head(wire) \in Message /\ Head(wire) = wire[1]
         /\ Head(wire).kind = kind /\ wire # <<>>
BY DEF ConnOK, Arrives

LEMMA TypeStep ==
  ASSUME TypeOK, DaemonOK', FileOrdered, [Next]_vars
  PROVE  TypeOK'
<1> USE DEF TypeOK
<1>1. CASE UNCHANGED vars
  BY <1>1 DEF vars, conn, copy, stream, counts, daemon, ConnOK, CopyOK
<1>2. CASE Emit \/ AppendDone \/ AppendFails
  BY <1>2 DEF Emit, AppendDone, AppendFails, conn, copy, stream, counts, ConnOK, CopyOK
<1>3. CASE Broadcast
  <2>1. Head(chain) \in Event
    BY <1>3 DEF Broadcast, DaemonOK
  <2>2. wire' \in Seq(Message)
    BY <1>3, <2>1, MessageTypes DEF Broadcast, ConnOK
  <2> QED
    BY <1>3, <2>2 DEF Broadcast, copy, stream, counts, ConnOK, CopyOK
<1>4. ASSUME NEW request \in requests, ReadTimeline(request)
      PROVE  TypeOK'
  <2>1. request \in Request /\ request.from \in Nat
    BY DEF ConnOK, Request
  <2>2. From(file, request.from) \in Seq(Event)
    BY <2>1, FromSplits DEF DaemonOK, FileOrdered
  <2>3. requests' \in SUBSET Request
    BY <1>4, <2>1, <2>2, ReadType DEF ReadTimeline, ConnOK
  <2> QED
    BY <1>4, <2>3 DEF ReadTimeline, daemon, copy, stream, counts, ConnOK, CopyOK
<1>5. ASSUME NEW request \in requests, Reply(request)
      PROVE  TypeOK'
  <2>1. request.load \in BOOLEAN /\ request.events \in Seq(Event)
    BY DEF ConnOK, Request
  <2>2. wire' \in Seq(Message)
    BY <1>5, <2>1, MessageTypes DEF Reply, ConnOK
  <2> QED
    BY <1>5, <2>2 DEF Reply, daemon, copy, stream, counts, ConnOK, CopyOK
<1>6. CASE DaemonCrash \/ Disconnect
  BY <1>6, LoseLinkType DEF DaemonCrash, Disconnect
<1>7. CASE Restart
  BY <1>7 DEF Restart, conn, copy, stream, ConnOK, CopyOK
<1>8. CASE Connect
  <2>1. wire' \in Seq(Message)
    BY <1>8, MessageTypes DEF Connect
  <2> QED
    BY <1>8, <2>1, TimelineBounds DEF Connect, daemon, copy, stream, counts, ConnOK, CopyOK
<1>9. CASE ReceiveHello
  BY <1>9, ArrivesType DEF ReceiveHello, daemon, stream, counts, ConnOK, CopyOK
<1>10. CASE RendererEvent \/ StreamEvent
  <2>1. wire' \in Seq(Message) /\ Head(wire).event \in Event
    BY <1>10, ArrivesType, MessageTypes DEF RendererEvent, StreamEvent
  <2>2. Apply(view, Head(wire).event) \in Seq(Event)
        /\ Append(buffered, Head(wire).event) \in Seq(Event)
    BY <2>1, ApplyType DEF CopyOK
  <2> QED
    BY <1>10, <2>1, <2>2 DEF RendererEvent, StreamEvent, daemon, stream, counts, ConnOK, CopyOK
<1>11. CASE GapReply \/ LoadReply \/ BackfillReply
  <2>1. wire' \in Seq(Message) /\ Head(wire).events \in Seq(Event)
    BY <1>11, ArrivesType, MessageTypes DEF GapReply, LoadReply, BackfillReply
  <2>2. ApplyAll(view, Head(wire).events) \in Seq(Event)
        /\ ApplyAll(<<>>, Head(wire).events) \in Seq(Event)
    <3>1. <<>> \in Seq(Event) /\ view \in Seq(Event)
      BY DEF CopyOK
    <3> QED
      BY <2>1, <3>1, ApplyAllContents
  <2>3. ApplyAll(ApplyAll(view, Head(wire).events), buffered) \in Seq(Event)
    BY <2>2, ApplyAllContents DEF CopyOK
  <2>4. view' \in Seq(Event) /\ buffered' \in Seq(Event)
    <3>1. <<>> \in Seq(Event)
      OBVIOUS
    <3>2. CASE GapReply
      BY <2>2, <3>2 DEF GapReply, stream, CopyOK
    <3>3. CASE LoadReply
      BY <2>2, <3>3 DEF LoadReply, stream, CopyOK
    <3>4. CASE BackfillReply
      BY <2>3, <3>1, <3>4 DEF BackfillReply
    <3> QED
      BY <1>11, <3>2, <3>3, <3>4
  <2> QED
    BY <1>11, <2>1, <2>4
       DEF GapReply, LoadReply, BackfillReply, daemon, stream, counts, ConnOK, CopyOK
<1>12. CASE SyncTimelineGap \/ LoadTimeline
  <2>1. NextOf(view) \in Nat
    BY NextBehind DEF CopyOK
  <2>2. requests' \in SUBSET Request /\ asked' \in Nat
    BY <1>12, <2>1, AskType DEF SyncTimelineGap, LoadTimeline, ConnOK
  <2> QED
    BY <1>12, <2>2 DEF SyncTimelineGap, LoadTimeline, daemon, stream, counts, ConnOK, CopyOK
<1>13. CASE HidePane
  BY <1>13 DEF HidePane, daemon, conn, stream, counts, ConnOK, CopyOK
<1>14. CASE Watch
  <2>1. \A from \in 0..nextSeq : from \in Nat
    BY DEF DaemonOK
  <2>2. requests' \in SUBSET Request /\ asked' \in Nat /\ since' \in SUBSET Nat
    BY <1>14, <2>1, AskType DEF Watch, ConnOK, CopyOK
  <2> QED
    BY <1>14, <2>2 DEF Watch, daemon, counts, ConnOK, CopyOK
<1> QED
  BY <1>1, <1>2, <1>3, <1>4, <1>5, <1>6, <1>7, <1>8, <1>9, <1>10, <1>11, <1>12, <1>13, <1>14
     DEF Next, ServeTimeline, Receive

LEMMA InitType == Init => TypeOK
<1> SUFFICES ASSUME Init PROVE TypeOK
  OBVIOUS
<1>1. DaemonOK
  BY InitInv DEF DaemonInv
<1>2. ConnOK /\ CopyOK
  <2>1. wire \in Seq(Message) /\ view \in Seq(Event) /\ buffered \in Seq(Event)
    BY DEF Init
  <2>2. links \in 0..MaxLinks /\ asked \in Nat
    BY TimelineBounds DEF Init
  <2> QED
    BY <2>1, <2>2 DEF Init, ConnOK, CopyOK
<1>3. <<races, client>> \in Environments
  BY EnvironmentAssumption DEF Init
<1> QED
  BY <1>1, <1>2, <1>3 DEF TypeOK

(***************************************************************************)
(* Every variable keeps its type, for all bounds and environments: what is  *)
(* on the wire, asked, held back and shown is made of whole events.         *)
(***************************************************************************)
THEOREM TimelineTypes == Spec => []TypeOK
<1>1. Init => TypeOK
  BY InitType
<1>2. DaemonInv /\ DaemonInv' /\ TypeOK /\ [Next]_vars => TypeOK'
  BY TypeStep DEF DaemonInv, LogInv
<1> QED
  BY <1>1, <1>2, LogInvariant, PTL DEF Spec

-----------------------------------------------------------------------------
(* The link *)

(* A message is put at the end of the wire. *)
LEMMA WireGrows ==
  ASSUME wire \in Seq(Message), NEW message \in Message, wire' = Append(wire, message)
  PROVE  /\ wire' \in Seq(Message) /\ Len(wire) \in Nat /\ Len(wire') = Len(wire) + 1
         /\ DOMAIN wire = 1..Len(wire) /\ DOMAIN wire' = 1..Len(wire) + 1
         /\ wire'[Len(wire) + 1] = message
         /\ \A i \in 1..Len(wire) : wire'[i] = wire[i]
OBVIOUS

(* The first message leaves it. *)
LEMMA WireShrinks ==
  ASSUME wire \in Seq(Message), NEW kind, Arrives(kind)
  PROVE  /\ wire' \in Seq(Message) /\ Len(wire) \in Nat \ {0} /\ Len(wire') = Len(wire) - 1
         /\ DOMAIN wire = 1..Len(wire) /\ DOMAIN wire' = 1..Len(wire) - 1
         /\ \A i \in 1..Len(wire) - 1 : wire'[i] = wire[i + 1]
         /\ Head(wire) = wire[1] /\ 1 \in DOMAIN wire /\ wire[1] \in Message
         /\ wire[1].kind = kind
BY DEF Arrives

(* The greeting is the first message, or there is none. *)
Greeting ==
  /\ link = "hello" <=> \E i \in DOMAIN wire : wire[i].kind = "hello"
  /\ \A i \in DOMAIN wire : wire[i].kind = "hello" => i = 1

(* The greeting stays first when something else is sent. *)
LEMMA SendGreeting ==
  ASSUME wire \in Seq(Message), Greeting, NEW message \in Message, message.kind # "hello",
         wire' = Append(wire, message), UNCHANGED link
  PROVE  Greeting'
BY WireGrows DEF Greeting

(* Something else arrives only when the greeting has. *)
LEMMA ArriveGreeting ==
  ASSUME wire \in Seq(Message), Greeting, NEW kind, kind # "hello", Arrives(kind), UNCHANGED link
  PROVE  Greeting' /\ link # "hello"
<1>1. /\ DOMAIN wire = 1..Len(wire) /\ DOMAIN wire' = 1..Len(wire) - 1 /\ Len(wire) \in Nat \ {0}
      /\ \A i \in 1..Len(wire) - 1 : wire'[i] = wire[i + 1]
      /\ 1 \in DOMAIN wire /\ wire[1].kind = kind
  BY WireShrinks
<1>2. \A i \in DOMAIN wire : wire[i].kind # "hello"
  BY <1>1 DEF Greeting
<1>3. \A i \in DOMAIN wire' : wire'[i].kind # "hello"
  BY <1>1, <1>2
<1> QED
  BY <1>2, <1>3 DEF Greeting

LEMMA LoseLinkLink ==
  ASSUME LinkInv, LoseLink, UNCHANGED <<counts, client>>
  PROVE  LinkInv' /\ link' = "down"
<1>1. DOMAIN wire' = {}
  BY DEF LoseLink
<1> QED
  BY <1>1 DEF LinkInv, LoseLink, Renderer

LEMMA LinkStep ==
  ASSUME TypeOK, LinkInv, [Next]_vars
  PROVE  LinkInv'
<1> USE DEF TypeOK
<1>0. Greeting /\ wire \in Seq(Message)
  BY DEF LinkInv, Greeting, ConnOK
<1>1. CASE UNCHANGED vars
  BY <1>1 DEF vars, conn, copy, stream, counts, daemon, LinkInv, Renderer
<1>2. CASE Emit \/ AppendDone \/ AppendFails
  <2>1. UNCHANGED <<client, up, links, conn, copy>>
    BY <1>2 DEF Emit, AppendDone, AppendFails, counts
  <2> QED
    BY <2>1 DEF conn, copy, stream, LinkInv, Renderer
<1>3. CASE Broadcast
  <2>1. CASE link = "down"
    BY <1>3, <2>1 DEF Broadcast, copy, stream, counts, LinkInv, Renderer
  <2>2. CASE link # "down"
    <3>1. Head(chain) \in Event
      BY <1>3 DEF Broadcast, DaemonOK
    <3>2. Greeting'
      BY <1>0, <1>3, <2>2, <3>1, MessageTypes, SendGreeting DEF Broadcast
    <3> QED
      BY <1>3, <2>2, <3>2 DEF Broadcast, copy, stream, counts, LinkInv, Renderer, Greeting
  <2> QED
    BY <2>1, <2>2
<1>4. ASSUME NEW request \in requests, ReadTimeline(request)
      PROVE  LinkInv'
  BY <1>4 DEF ReadTimeline, daemon, copy, stream, counts, LinkInv, Renderer
<1>5. ASSUME NEW request \in requests, Reply(request)
      PROVE  LinkInv'
  <2>1. request.load \in BOOLEAN /\ request.events \in Seq(Event)
    BY DEF ConnOK, Request
  <2>2. Greeting'
    BY <1>0, <1>5, <2>1, MessageTypes, SendGreeting DEF Reply
  <2> QED
    BY <1>5, <2>2 DEF Reply, daemon, copy, stream, counts, LinkInv, Renderer, Greeting
<1>6. CASE DaemonCrash \/ Disconnect
  <2>1. LinkInv' /\ link' = "down"
    BY <1>6, LoseLinkLink DEF DaemonCrash, Disconnect
  <2> QED
    BY <2>1
<1>7. CASE Restart
  BY <1>7 DEF Restart, conn, copy, stream, LinkInv, Renderer
<1>8. CASE Connect
  <2>1. wire' = <<[kind |-> "hello"]>> /\ link' = "hello" /\ link = "down" /\ links' > 0
    BY <1>8 DEF Connect, ConnOK
  <2>2. DOMAIN wire' = {1} /\ wire'[1].kind = "hello"
    BY <2>1
  <2>3. Greeting'
    BY <2>1, <2>2 DEF Greeting
  <2> QED
    BY <1>8, <2>1, <2>3 DEF Connect, daemon, copy, stream, LinkInv, Renderer, Greeting
<1>9. CASE ReceiveHello
  <2>1. Greeting' /\ link' = "on"
    <3>1. /\ DOMAIN wire = 1..Len(wire) /\ DOMAIN wire' = 1..Len(wire) - 1
          /\ Len(wire) \in Nat \ {0}
          /\ \A i \in 1..Len(wire) - 1 : wire'[i] = wire[i + 1]
      BY <1>0, <1>9, WireShrinks DEF ReceiveHello
    <3>2. \A i \in DOMAIN wire' : wire'[i].kind # "hello"
      BY <1>0, <3>1 DEF Greeting
    <3> QED
      BY <1>9, <3>2 DEF ReceiveHello, Greeting
  <2>2. link = "hello"
    BY <1>0, <1>9, WireShrinks DEF ReceiveHello, Greeting
  <2>3. \A i \in DOMAIN wire' : i + 1 \in DOMAIN wire /\ wire'[i] = wire[i + 1]
    BY <1>0, <1>9, WireShrinks DEF ReceiveHello
  <2> QED
    BY <1>9, <2>1, <2>2, <2>3 DEF ReceiveHello, daemon, stream, counts, LinkInv, Renderer, Greeting
<1>10. CASE RendererEvent \/ StreamEvent
  <2>1. Greeting'
    BY <1>0, <1>10, ArriveGreeting DEF RendererEvent, StreamEvent
  <2>2. link # "down"
    BY <1>10 DEF RendererEvent, StreamEvent, Arrives, LinkInv
  <2>3. \A i \in DOMAIN wire' : i + 1 \in DOMAIN wire /\ wire'[i] = wire[i + 1]
    <3>1. Arrives("event")
      BY <1>10 DEF RendererEvent, StreamEvent
    <3> QED
      BY <1>0, <3>1, WireShrinks
  <2> QED
    BY <1>10, <2>1, <2>2, <2>3
       DEF RendererEvent, StreamEvent, daemon, stream, counts, LinkInv, Renderer, Greeting
<1>11. CASE GapReply \/ LoadReply \/ BackfillReply
  <2>1. Greeting'
    BY <1>0, <1>11, ArriveGreeting DEF GapReply, LoadReply, BackfillReply
  <2>2. link # "down"
    BY <1>11 DEF GapReply, LoadReply, BackfillReply, Arrives, LinkInv
  <2>3. CASE GapReply \/ LoadReply
    BY <2>1, <2>2, <2>3
       DEF GapReply, LoadReply, daemon, stream, counts, LinkInv, Renderer, Greeting
  <2>4. CASE BackfillReply
    <3>1. Arrives("reply") /\ ~Renderer
      BY <2>4 DEF BackfillReply
    <3>2. 1 \in DOMAIN wire /\ wire[1].kind = "reply"
      <4>1. wire \in Seq(Message)
        BY <1>0
      <4> QED
        BY <3>1, <4>1, WireShrinks
    <3>3. open
      BY <3>1, <3>2 DEF LinkInv
    <3> QED
      BY <2>1, <2>2, <2>4, <3>3 DEF BackfillReply, daemon, counts, LinkInv, Renderer, Greeting
  <2> QED
    BY <1>11, <2>3, <2>4
<1>12. CASE SyncTimelineGap
  BY <1>12 DEF SyncTimelineGap, daemon, stream, counts, LinkInv, Renderer
<1>13. CASE LoadTimeline
  BY <1>13 DEF LoadTimeline, daemon, stream, counts, LinkInv, Renderer
<1>14. CASE HidePane
  BY <1>14 DEF HidePane, daemon, conn, stream, counts, LinkInv, Renderer
<1>15. CASE Watch
  BY <1>15 DEF Watch, daemon, counts, LinkInv, Renderer
<1> QED
  BY <1>1, <1>2, <1>3, <1>4, <1>5, <1>6, <1>7, <1>8, <1>9, <1>10, <1>11, <1>12, <1>13, <1>14, <1>15
     DEF Next, ServeTimeline, Receive

-----------------------------------------------------------------------------
(* What is shown is in the file *)

(* An append that is done whole: the file ends with its event. *)
LEMMA CleanAppend ==
  ASSUME file \in Seq(Event), tail = "clean", NEW event \in Event, Appended(event)
  PROVE  /\ file' \in Seq(Event) /\ tail' = "clean"
         /\ Len(file) \in Nat /\ Len(file') = Len(file) + 1 /\ file' # <<>>
         /\ file'[Len(file')] = event /\ event \in ToSet(file')
         /\ \A i \in 1..Len(file) : file'[i] = file[i]
         /\ ToSet(file) \subseteq ToSet(file')
<1>1. file' = Append(file, event) /\ tail' = "clean"
  BY DEF Appended
<1>2. ToSet(file') = ToSet(file) \cup {event}
  BY <1>1, AppendSet
<1> QED
  BY <1>1, <1>2

(* Without torn lines a step leaves the file alone or appends the head of the chain. *)
WholeAppend ==
  \/ UNCHANGED <<file, tail>> /\ (written' => written /\ chain'[1] = chain[1])
  \/ /\ chain # <<>> /\ ~written /\ Appended(Head(chain))
     /\ written' => chain'[1] = chain[1]

LEMMA WholeAppends ==
  ASSUME TypeOK, Spared({"torn"}), [Next]_vars
  PROVE  WholeAppend
<1> USE DEF TypeOK
<1>1. ~Allows("torn")
  BY DEF Spared, Allows
<1>2. CASE UNCHANGED vars
  BY <1>2 DEF vars, daemon, WholeAppend
<1>3. CASE Emit
  <2>1. written => chain # <<>> /\ chain \in Seq(Event)
    BY DEF DaemonOK
  <2>2. written => chain'[1] = chain[1]
    BY <1>3, <2>1 DEF Emit
  <2> QED
    BY <1>3, <2>2 DEF Emit, daemon, WholeAppend
<1>4. CASE AppendDone
  BY <1>4 DEF AppendDone, WholeAppend
<1>5. CASE Broadcast \/ AppendFails \/ DaemonCrash \/ Restart
  BY <1>1, <1>5 DEF Broadcast, AppendFails, DaemonCrash, Restart, WholeAppend
<1>6. CASE ServeTimeline
  BY <1>6 DEF ServeTimeline, ReadTimeline, Reply, daemon, WholeAppend
<1>7. CASE Connect \/ Disconnect \/ SyncTimelineGap \/ LoadTimeline \/ HidePane \/ Watch
  BY <1>7 DEF Connect, Disconnect, SyncTimelineGap, LoadTimeline, HidePane, Watch, daemon, WholeAppend
<1>8. CASE Receive
  BY <1>8 DEF Receive, ReceiveHello, RendererEvent, GapReply, LoadReply, StreamEvent, BackfillReply,
              daemon, WholeAppend
<1> QED
  BY <1>2, <1>3, <1>4, <1>5, <1>6, <1>7, <1>8 DEF Next

(* The file keeps what it has, and what is written is its last event. *)
LEMMA FileKeeps ==
  ASSUME TypeOK, KeptInv, WholeAppend
  PROVE  /\ tail' = "clean" /\ ToSet(file) \subseteq ToSet(file')
         /\ written' => file' # <<>> /\ file'[Len(file')] = chain'[1]
<1>1. CASE UNCHANGED <<file, tail>> /\ (written' => written /\ chain'[1] = chain[1])
  BY <1>1 DEF KeptInv
<1>2. CASE chain # <<>> /\ ~written /\ Appended(Head(chain)) /\ (written' => chain'[1] = chain[1])
  <2>1. Head(chain) \in Event /\ Head(chain) = chain[1] /\ file \in Seq(Event)
    BY <1>2 DEF TypeOK, DaemonOK
  <2> QED
    BY <1>2, <2>1, CleanAppend DEF KeptInv
<1> QED
  BY <1>1, <1>2 DEF WholeAppend

(* What a lost link leaves is still in the file. *)
LEMMA LoseLinkKept ==
  ASSUME KeptInv, LoseLink, ToSet(file) \subseteq ToSet(file'), tail' = "clean",
         written' => file' # <<>> /\ file'[Len(file')] = chain'[1]
  PROVE  KeptInv'
<1>1. InFile(view)' /\ InFile(buffered)'
  BY DEF LoseLink, KeptInv, InFile, ToSet
<1>2. requests' = {} /\ DOMAIN wire' = {}
  BY DEF LoseLink
<1> QED
  BY <1>1, <1>2 DEF KeptInv

(* What arrives is in the file; the rest stays on the wire. *)
LEMMA ArrivesKept ==
  ASSUME wire \in Seq(Message), KeptInv, NEW kind, Arrives(kind), UNCHANGED file
  PROVE  /\ kind = "event" => Head(wire).event \in ToSet(file)
         /\ kind = "reply" => InFile(Head(wire).events)
         /\ \A i \in DOMAIN wire' :
              /\ IsEvent(wire'[i]) => wire'[i].event \in ToSet(file')
              /\ wire'[i].kind = "reply" => ToSet(wire'[i].events) \subseteq ToSet(file')
<1>1. /\ DOMAIN wire = 1..Len(wire) /\ DOMAIN wire' = 1..Len(wire) - 1 /\ Len(wire) \in Nat \ {0}
      /\ \A i \in 1..Len(wire) - 1 : wire'[i] = wire[i + 1]
      /\ Head(wire) = wire[1] /\ 1 \in DOMAIN wire /\ wire[1].kind = kind
  BY WireShrinks
<1>2. \A i \in DOMAIN wire' : i + 1 \in DOMAIN wire /\ wire'[i] = wire[i + 1]
  BY <1>1
<1> QED
  BY <1>1, <1>2 DEF KeptInv, IsEvent, InFile

(* What is sent was in the file. *)
LEMMA SendKept ==
  ASSUME wire \in Seq(Message), KeptInv, ToSet(file) \subseteq ToSet(file'),
         NEW message \in Message, wire' = Append(wire, message),
         IsEvent(message) => message.event \in ToSet(file),
         message.kind = "reply" => InFile(message.events)
  PROVE  \A i \in DOMAIN wire' :
           /\ IsEvent(wire'[i]) => wire'[i].event \in ToSet(file')
           /\ wire'[i].kind = "reply" => ToSet(wire'[i].events) \subseteq ToSet(file')
<1>1. /\ DOMAIN wire = 1..Len(wire) /\ DOMAIN wire' = 1..Len(wire) + 1 /\ Len(wire) \in Nat
      /\ wire'[Len(wire) + 1] = message /\ \A i \in 1..Len(wire) : wire'[i] = wire[i]
  BY WireGrows
<1>2. \A i \in DOMAIN wire' : (i \in DOMAIN wire /\ wire'[i] = wire[i]) \/ wire'[i] = message
  BY <1>1
<1> QED
  BY <1>2 DEF KeptInv, IsEvent, InFile

LEMMA KeptStep ==
  ASSUME TypeOK, FileOrdered, KeptInv, Spared({"torn"}), [Next]_vars
  PROVE  KeptInv'
<1> USE DEF TypeOK
<1>0. /\ WholeAppend
      /\ tail' = "clean" /\ ToSet(file) \subseteq ToSet(file')
      /\ written' => file' # <<>> /\ file'[Len(file')] = chain'[1]
      /\ wire \in Seq(Message) /\ view \in Seq(Event) /\ buffered \in Seq(Event)
  BY WholeAppends, FileKeeps DEF ConnOK, CopyOK
<1>1. CASE UNCHANGED <<conn, copy>>
  BY <1>0, <1>1 DEF conn, copy, stream, KeptInv, InFile
<1>2. CASE Broadcast
  <2>1. Head(chain) \in Event /\ Head(chain) = chain[1]
    BY <1>2 DEF Broadcast, DaemonOK
  <2>2. chain[1] \in ToSet(file)
    <3>1. Len(file) \in DOMAIN file /\ file[Len(file)] = chain[1]
      BY <1>2 DEF Broadcast, KeptInv, DaemonOK
    <3> QED
      BY <3>1 DEF ToSet
  <2>3. CASE link = "down"
    BY <1>0, <1>2, <2>3 DEF Broadcast, copy, stream, KeptInv, InFile
  <2>4. CASE link # "down"
    <3> DEFINE message == [kind |-> "event", event |-> Head(chain)]
    <3>1. message \in Message /\ message.kind # "reply" /\ message.event = chain[1]
          /\ wire' = Append(wire, message)
      BY <1>2, <2>1, <2>4, MessageTypes DEF Broadcast
    <3> HIDE DEF message
    <3> QED
      BY <1>0, <1>2, <2>2, <3>1, SendKept DEF Broadcast, copy, stream, KeptInv, InFile
  <2> QED
    BY <2>3, <2>4
<1>3. ASSUME NEW request \in requests, ReadTimeline(request)
      PROVE  KeptInv'
  <2>1. request \in Request /\ request.from \in Nat /\ file \in Seq(Event)
    BY DEF ConnOK, DaemonOK, Request
  <2>2. From(file, request.from) \in Seq(Event) /\ InFile(From(file, request.from))
    <3>1. PICK first \in 0..Len(file) : Piece(From(file, request.from), file, first, Len(file))
      BY <2>1, FromSplits DEF FileOrdered
    <3>2. From(file, request.from) \in Seq(Event)
      BY <2>1, FromSplits DEF FileOrdered
    <3>3. \A i \in DOMAIN From(file, request.from) :
            first + i \in DOMAIN file /\ From(file, request.from)[i] = file[first + i]
      BY <2>1, <3>1, <3>2 DEF Piece
    <3> QED
      BY <3>2, <3>3 DEF InFile, ToSet
  <2>3. \A other \in requests' : other \in requests \/ other.events = From(file, request.from)
    BY <1>3, <2>1 DEF ReadTimeline, Request
  <2> QED
    BY <1>0, <1>3, <2>2, <2>3 DEF ReadTimeline, daemon, copy, stream, KeptInv, InFile
<1>4. ASSUME NEW request \in requests, Reply(request)
      PROVE  KeptInv'
  <2> DEFINE message == [kind |-> "reply", load |-> request.load, events |-> request.events]
  <2>1. /\ message \in Message /\ message.kind = "reply" /\ message.events = request.events
        /\ wire' = Append(wire, message)
    <3>1. request.load \in BOOLEAN /\ request.events \in Seq(Event)
      BY DEF ConnOK, Request
    <3> QED
      BY <1>4, <3>1, MessageTypes DEF Reply
  <2>2. InFile(message.events)
    BY <2>1 DEF KeptInv
  <2> HIDE DEF message
  <2>3. \A i \in DOMAIN wire' :
           /\ IsEvent(wire'[i]) => wire'[i].event \in ToSet(file')
           /\ wire'[i].kind = "reply" => ToSet(wire'[i].events) \subseteq ToSet(file')
    BY <1>0, <2>1, <2>2, SendKept DEF IsEvent
  <2> QED
    BY <1>0, <1>4, <2>3 DEF Reply, daemon, copy, stream, KeptInv, InFile
<1>5. CASE DaemonCrash \/ Disconnect
  BY <1>0, <1>5, LoseLinkKept DEF DaemonCrash, Disconnect
<1>6. CASE Connect
  <2>1. \A i \in DOMAIN wire' : wire'[i].kind = "hello"
    BY <1>6 DEF Connect
  <2> QED
    BY <1>0, <1>6, <2>1 DEF Connect, copy, stream, KeptInv, InFile, IsEvent
<1>7. CASE Receive
  <2>1. UNCHANGED <<file, requests>>
    BY <1>7 DEF Receive, ReceiveHello, RendererEvent, GapReply, LoadReply, StreamEvent,
                BackfillReply, daemon
  <2>2. ASSUME NEW kind, Arrives(kind), InFile(view'), InFile(buffered')
        PROVE  KeptInv'
    BY <1>0, <2>1, <2>2, ArrivesKept DEF KeptInv, InFile
  <2>3. CASE ReceiveHello
    BY <2>2, <2>3 DEF ReceiveHello, stream, KeptInv
  <2>4. CASE RendererEvent \/ StreamEvent
    <3>1. Arrives("event") /\ Head(wire) \in Message
      BY <1>0, <2>4, WireShrinks DEF RendererEvent, StreamEvent
    <3>2. Head(wire).event \in ToSet(file) /\ Head(wire).event \in Event
      BY <1>0, <2>1, <3>1, ArrivesKept, MessageTypes DEF Arrives
    <3>3. InFile(Apply(view, Head(wire).event)) /\ InFile(Append(buffered, Head(wire).event))
      BY <1>0, <3>2, AppendSet DEF Apply, InFile, KeptInv
    <3>4. InFile(view') /\ InFile(buffered')
      BY <2>4, <3>3 DEF RendererEvent, StreamEvent, stream, KeptInv
    <3> QED
      BY <2>2, <3>1, <3>4
  <2>5. CASE GapReply \/ LoadReply \/ BackfillReply
    <3>1. Arrives("reply") /\ Head(wire) \in Message
      BY <1>0, <2>5, WireShrinks DEF GapReply, LoadReply, BackfillReply
    <3> DEFINE events == Head(wire).events
    <3>2. InFile(events) /\ events \in Seq(Event)
      BY <1>0, <2>1, <3>1, ArrivesKept, MessageTypes DEF Arrives
    <3>3. <<>> \in Seq(Event) /\ InFile(<<>>)
      BY DEF InFile, ToSet
    <3> HIDE DEF events
    <3>4. \A some, more \in Seq(Event) :
            InFile(some) /\ InFile(more) =>
              InFile(ApplyAll(some, more)) /\ ApplyAll(some, more) \in Seq(Event)
      BY ApplyAllContents DEF InFile
    <3>5. InFile(view) /\ InFile(buffered)
      BY DEF KeptInv
    <3>6. InFile(view') /\ InFile(buffered')
      <4>1. CASE GapReply
        BY <1>0, <3>2, <3>4, <3>5, <4>1 DEF GapReply, stream, events
      <4>2. CASE LoadReply
        BY <1>0, <3>2, <3>3, <3>4, <3>5, <4>2 DEF LoadReply, stream, events
      <4>3. CASE BackfillReply
        BY <1>0, <3>2, <3>3, <3>4, <3>5, <4>3 DEF BackfillReply, events
      <4> QED
        BY <2>5, <4>1, <4>2, <4>3
    <3> QED
      BY <2>2, <3>1, <3>6
  <2> QED
    BY <1>7, <2>3, <2>4, <2>5 DEF Receive
<1>8. CASE SyncTimelineGap \/ LoadTimeline \/ Watch
  <2>1. \A request \in requests' : request \in requests \/ request.events = <<>>
    BY <1>8 DEF SyncTimelineGap, LoadTimeline, Watch, Ask
  <2>2. UNCHANGED <<file, wire, view, buffered>>
    BY <1>8 DEF SyncTimelineGap, LoadTimeline, Watch, daemon, stream
  <2>3. InFile(<<>>)
    BY DEF InFile, ToSet
  <2> QED
    BY <1>0, <2>1, <2>2, <2>3 DEF KeptInv, InFile
<1>9. CASE HidePane
  BY <1>0, <1>9 DEF HidePane, daemon, conn, stream, KeptInv, InFile
<1> QED
  BY <1>1, <1>2, <1>3, <1>4, <1>5, <1>6, <1>7, <1>8, <1>9
     DEF Next, ServeTimeline, vars, Emit, AppendDone, AppendFails, Restart

-----------------------------------------------------------------------------
(* Loads: a view that is built anew *)

(* A piece from the beginning to the end is the whole. *)
LEMMA WholePiece ==
  ASSUME NEW piece \in Seq(Event), NEW whole \in Seq(Event), Piece(piece, whole, 0, Len(whole))
  PROVE  piece = whole
<1>1. Len(piece) = Len(whole) /\ \A i \in 1..Len(piece) : piece[i] = whole[i]
  BY DEF Piece
<1> QED
  BY <1>1

LEMMA WholeIsPiece ==
  ASSUME NEW whole \in Seq(Event)
  PROVE  Piece(whole, whole, 0, Len(whole)) /\ Piece(<<>>, whole, 0, 0)
BY DEF Piece

(* From the number zero on the whole file is read, and applied to nothing it is the view. *)
LEMMA Rebuilt ==
  ASSUME file \in Seq(Event), FileOrdered
  PROVE  From(file, 0) = file /\ ApplyAll(<<>>, file) = file
<1>1. From(file, 0) = file
  <2>1. PICK first \in 0..Len(file) :
          /\ Piece(From(file, 0), file, first, Len(file))
          /\ \A i \in 1..first : file[i].seq < 0
    BY FromSplits DEF FileOrdered
  <2>2. first = 0
    <3> SUFFICES ASSUME first > 0 PROVE FALSE
      OBVIOUS
    <3>1. 1 \in 1..first /\ 1 \in DOMAIN file
      OBVIOUS
    <3> QED
      BY <2>1, <3>1, Numbered
  <2> QED
    BY <2>1, <2>2, FromSplits, WholePiece DEF FileOrdered
<1>2. ApplyAll(<<>>, file) = file
  <2>1. <<>> \in Seq(Event) /\ Len(file) \in Nat
    OBVIOUS
  <2>2. Piece(ApplyAll(<<>>, file), file, 0, IF Len(file) <= 0 THEN 0 ELSE Len(file))
    <3>1. Piece(<<>>, file, 0, 0) /\ Piece(file, file, 0, Len(file)) /\ Increasing(file)
      BY WholeIsPiece DEF FileOrdered
    <3>2. \A piece, more \in Seq(Event), zero, end \in Nat :
            zero <= end /\ end <= Len(file) /\ Piece(piece, file, zero, zero)
              /\ Piece(more, file, zero, end)
            => Piece(ApplyAll(piece, more), file, zero, IF end <= zero THEN zero ELSE end)
      BY <3>1, ApplyAllJoins
    <3>3. 0 \in Nat /\ 0 <= Len(file) /\ Len(file) <= Len(file)
      BY <2>1
    <3> QED
      BY <2>1, <3>1, <3>2, <3>3, Zenon
  <2>3. (IF Len(file) <= 0 THEN 0 ELSE Len(file)) = Len(file)
    BY <2>1
  <2> QED
    <3>1. ApplyAll(<<>>, file) \in Seq(Event)
      BY <2>1, ApplyAllContents
    <3>2. Piece(ApplyAll(<<>>, file), file, 0, Len(file))
      BY <2>2, <2>3
    <3> QED
      BY <3>1, <3>2, WholePiece
<1> QED
  BY <1>1, <1>2

(* The parts of LoadInv. *)
LoadAsked(request) ==
  request.load =>
    /\ request.from = 0 /\ Above(request.upto, chain)
    /\ request.read => chain = <<>> /\ request.events = file

LoadAnswer(i) ==
  wire[i].kind = "reply" /\ wire[i].load =>
    /\ chain = <<>> /\ wire[i].events = file
    /\ \A j \in DOMAIN wire : j > i => wire[j].kind = "reply"

(* While the chain is not empty, loads are not read yet. *)
LEMMA LoadWaits ==
  ASSUME LoadInv, chain # <<>>
  PROVE  /\ \A request \in requests : request.load => ~request.read
         /\ \A i \in DOMAIN wire : ~(wire[i].kind = "reply" /\ wire[i].load)
BY DEF LoadInv

LEMMA LoadStep ==
  ASSUME TypeOK, DaemonInv, LinkInv, LoadInv, Renderer, Spared({"load", "torn"}), [Next]_vars
  PROVE  LoadInv'
<1> USE DEF TypeOK
<1>0. /\ ~Allows("load") /\ wire \in Seq(Message) /\ chain \in Seq(Event) /\ file \in Seq(Event)
      /\ FileOrdered
  BY DEF Spared, Allows, ConnOK, DaemonOK, DaemonInv, LogInv
<1>1. CASE UNCHANGED <<chain, file, requests, wire>>
  BY <1>1 DEF LoadInv, Above
<1>2. CASE Emit
  <2>1. ~Outstanding(TRUE) /\ UNCHANGED <<requests, wire>>
    BY <1>0, <1>2 DEF Emit, conn
  <2>2. (\A request \in requests : ~request.load)
        /\ \A i \in DOMAIN wire : ~(wire[i].kind = "reply" /\ wire[i].load)
    BY <1>0, <2>1, MessageTypes DEF Outstanding, ConnOK, Request
  <2> QED
    BY <2>1, <2>2 DEF LoadInv
<1>3. CASE AppendDone
  <2>1. chain # <<>> /\ UNCHANGED <<chain, requests, wire>>
    BY <1>3 DEF AppendDone, conn
  <2> QED
    BY <2>1, LoadWaits DEF LoadInv, Above
<1>4. CASE Broadcast \/ AppendFails
  <2>1. chain # <<>> /\ chain' = Tail(chain) /\ UNCHANGED requests
    BY <1>4 DEF Broadcast, AppendFails, DaemonOK, conn
  <2>2. \A number \in Nat : Above(number, chain) => Above(number, chain')
    BY <1>0, <2>1 DEF Above
  <2>3. \A request \in requests : LoadAsked(request)'
    BY <2>1, <2>2, LoadWaits DEF LoadInv, LoadAsked, Request, ConnOK
  <2>4. \A i \in DOMAIN wire' : ~(wire'[i].kind = "reply" /\ wire'[i].load)
    <3>1. CASE UNCHANGED wire
      BY <2>1, <3>1, LoadWaits
    <3>2. CASE wire' = Append(wire, [kind |-> "event", event |-> Head(chain)])
      <4>1. [kind |-> "event", event |-> Head(chain)] \in Message
        BY <1>0, <2>1, MessageTypes
      <4>2. \A i \in DOMAIN wire' : (i \in DOMAIN wire /\ wire'[i] = wire[i]) \/ wire'[i].kind = "event"
        BY <1>0, <3>2, <4>1, WireGrows
      <4> QED
        BY <2>1, <4>2, LoadWaits
    <3> QED
      BY <1>4, <3>1, <3>2 DEF Broadcast, AppendFails, conn
  <2>5. \A i \in DOMAIN wire' : LoadAnswer(i)'
    BY <2>4 DEF LoadAnswer
  <2>6. requests' = requests
    BY <2>1
  <2> QED
    BY <2>3, <2>5, <2>6 DEF LoadInv, LoadAsked, LoadAnswer
<1>5. ASSUME NEW request \in requests, ReadTimeline(request)
      PROVE  LoadInv'
  <2>1. request \in Request /\ \A i \in DOMAIN chain : chain[i].seq >= request.upto
    BY <1>5 DEF ReadTimeline, ConnOK
  <2>2. UNCHANGED <<chain, file, wire>>
    BY <1>5 DEF ReadTimeline, daemon
  <2> DEFINE read == [request EXCEPT !.read = TRUE, !.events = From(file, request.from)]
  <2>3. requests' = (requests \ {request}) \cup {read}
    BY <1>5 DEF ReadTimeline
  <2>4. LoadAsked(read)
    <3>1. /\ read.load = request.load /\ read.from = request.from /\ read.upto = request.upto
          /\ read.events = From(file, request.from)
      BY <2>1 DEF Request
    <3>2. ASSUME request.load PROVE chain = <<>> /\ request.from = 0 /\ Above(request.upto, chain)
      <4>1. request.from = 0 /\ Above(request.upto, chain)
        BY <3>2 DEF LoadInv
      <4>2. DOMAIN chain = {}
        <5>1. request.upto \in Nat /\ \A i \in DOMAIN chain : chain[i].seq \in Nat
          BY <1>0, <2>1, Numbered DEF Request
        <5> SUFFICES ASSUME NEW i \in DOMAIN chain PROVE FALSE
          OBVIOUS
        <5>2. chain[i].seq >= request.upto /\ chain[i].seq < request.upto
          BY <2>1, <4>1 DEF Above
        <5> QED
          BY <5>1, <5>2
      <4> QED
        BY <1>0, <4>1, <4>2
    <3> HIDE DEF read
    <3> QED
      BY <1>0, <3>1, <3>2, Rebuilt DEF LoadAsked
  <2> HIDE DEF read
  <2>5. \A other \in requests' : LoadAsked(other)
    BY <2>3, <2>4 DEF LoadInv, LoadAsked
  <2> QED
    BY <2>2, <2>5 DEF LoadInv, LoadAsked, Above
<1>6. ASSUME NEW request \in requests, Reply(request)
      PROVE  LoadInv'
  <2> DEFINE message == [kind |-> "reply", load |-> request.load, events |-> request.events]
  <2>1. /\ message \in Message /\ message.kind = "reply" /\ message.load = request.load
        /\ message.events = request.events /\ wire' = Append(wire, message)
    <3>1. request.load \in BOOLEAN /\ request.events \in Seq(Event)
      BY DEF ConnOK, Request
    <3> QED
      BY <1>6, <3>1, MessageTypes DEF Reply
  <2>2. UNCHANGED <<chain, file>> /\ requests' \subseteq requests /\ request.read
    BY <1>6 DEF Reply, daemon
  <2> HIDE DEF message
  <2>3. /\ DOMAIN wire = 1..Len(wire) /\ DOMAIN wire' = 1..Len(wire) + 1 /\ Len(wire) \in Nat
        /\ wire'[Len(wire) + 1] = message /\ \A i \in 1..Len(wire) : wire'[i] = wire[i]
    BY <1>0, <2>1, WireGrows
  <2>4. \A i \in DOMAIN wire' : i \in DOMAIN wire \/ (i = Len(wire) + 1 /\ wire'[i] = message)
    BY <2>3
  <2>5. ASSUME NEW i \in DOMAIN wire', wire'[i].kind = "reply", wire'[i].load
        PROVE  /\ chain = <<>> /\ wire'[i].events = file
               /\ \A j \in DOMAIN wire' : j > i => wire'[j].kind = "reply"
    <3>1. CASE i \in DOMAIN wire
      BY <2>1, <2>3, <2>4, <2>5, <3>1 DEF LoadInv
    <3>2. CASE i = Len(wire) + 1 /\ wire'[i] = message
      <4>1. request.load /\ chain = <<>> /\ request.events = file
        BY <2>1, <2>2, <2>5, <3>2 DEF LoadInv
      <4> QED
        BY <2>1, <2>3, <3>2, <4>1
    <3> QED
      BY <2>4, <3>1, <3>2
  <2> QED
    BY <2>2, <2>5 DEF LoadInv, Above
<1>7. CASE DaemonCrash \/ Disconnect
  <2>1. requests' = {} /\ DOMAIN wire' = {}
    <3>1. LoseLink
      BY <1>7 DEF DaemonCrash, Disconnect
    <3> QED
      BY <3>1 DEF LoseLink
  <2> QED
    BY <2>1 DEF LoadInv
<1>8. CASE Connect
  <2>1. requests' = {} /\ DOMAIN wire' = {1} /\ wire'[1].kind = "hello"
    BY <1>8 DEF Connect, LinkInv
  <2> QED
    BY <2>1 DEF LoadInv
<1>9. CASE Receive
  <2>1. UNCHANGED <<chain, file, requests>> /\ \E kind \in {"hello", "event", "reply"} : Arrives(kind)
    BY <1>9 DEF Receive, ReceiveHello, RendererEvent, GapReply, LoadReply, StreamEvent,
                BackfillReply, daemon
  <2>2. /\ DOMAIN wire = 1..Len(wire) /\ DOMAIN wire' = 1..Len(wire) - 1 /\ Len(wire) \in Nat
        /\ \A i \in 1..Len(wire) - 1 : wire'[i] = wire[i + 1]
    BY <1>0, <2>1, WireShrinks
  <2>3. \A i \in DOMAIN wire' : i + 1 \in DOMAIN wire /\ wire'[i] = wire[i + 1]
    BY <2>2
  <2>4. \A i \in DOMAIN wire' : LoadAnswer(i + 1)
    BY <2>3 DEF LoadInv, LoadAnswer
  <2>5. ASSUME NEW i \in DOMAIN wire', wire'[i].kind = "reply", wire'[i].load
        PROVE  /\ chain = <<>> /\ wire'[i].events = file
               /\ \A j \in DOMAIN wire' : j > i => wire'[j].kind = "reply"
    BY <2>2, <2>3, <2>4, <2>5 DEF LoadAnswer
  <2> QED
    BY <2>1, <2>5 DEF LoadInv, Above
<1>10. CASE SyncTimelineGap \/ LoadTimeline
  <2>1. UNCHANGED <<chain, file, wire>>
    BY <1>10 DEF SyncTimelineGap, LoadTimeline, daemon
  <2>2. ASSUME NEW request \in requests'
        PROVE  LoadAsked(request)
    <3>1. CASE request \in requests
      BY <3>1 DEF LoadInv, LoadAsked
    <3>2. CASE ~request.load
      BY <3>2 DEF LoadAsked
    <3>3. CASE request \notin requests /\ request.load
      <4>1. LoadTimeline /\ Ask(TRUE, 0) /\ link = "on"
        BY <1>10, <3>3 DEF SyncTimelineGap, LoadTimeline, Ask
      <4>2. request.upto = nextSeq /\ request.from = 0 /\ ~request.read
        BY <3>3, <4>1 DEF Ask
      <4>3. Above(nextSeq, chain)
        BY <4>1 DEF LinkInv, DaemonInv, LogInv
      <4> QED
        BY <4>2, <4>3 DEF LoadAsked
    <3> QED
      BY <3>1, <3>2, <3>3
  <2> QED
    BY <2>1, <2>2 DEF LoadInv, LoadAsked, Above
<1>11. CASE Restart \/ HidePane \/ Watch
  BY <1>1, <1>11 DEF Restart, HidePane, Watch, conn, daemon
<1> QED
  BY <1>1, <1>2, <1>3, <1>4, <1>5, <1>6, <1>7, <1>8, <1>9, <1>10, <1>11
     DEF Next, ServeTimeline, vars, conn, daemon

-----------------------------------------------------------------------------
(* A visible pane *)

PaneContext == TypeOK /\ DaemonInv /\ LinkInv /\ KeptInv /\ LoadInv /\ PaneInv /\ PaneEnv

LEMMA PaneFacts ==
  ASSUME PaneContext
  PROVE  /\ Renderer /\ ~Allows("load") /\ ~Allows("lostload") /\ ~Allows("resync") /\ ~Allows("torn")
         /\ file \in Seq(Event) /\ Len(file) \in Nat /\ Increasing(file) /\ FileOrdered
         /\ view \in Seq(Event) /\ Len(view) \in Nat /\ NextOf(view) \in Nat
         /\ wire \in Seq(Message) /\ Len(wire) \in Nat /\ DOMAIN wire = 1..Len(wire)
         /\ \A request \in requests : request \in Request /\ request.load \in BOOLEAN
         /\ \A i \in DOMAIN wire : wire[i] \in Message
         /\ written => chain # <<>> /\ file # <<>> /\ file[Len(file)] = chain[1]
         /\ Sent \in Nat /\ Sent <= Len(file) /\ (chain = <<>> => Sent = Len(file))
         /\ view = <<>> <=> Len(view) = 0
         /\ NextOf(view) <= NextOf(file)
<1> USE DEF PaneContext, PaneEnv, TypeOK
<1>1. /\ Renderer /\ ~Allows("load") /\ ~Allows("lostload") /\ ~Allows("resync") /\ ~Allows("torn")
  BY DEF Spared, Allows
<1>2. /\ file \in Seq(Event) /\ Len(file) \in Nat /\ Increasing(file) /\ FileOrdered
  BY DEF DaemonInv, DaemonOK, LogInv, FileOrdered
<1>3. view \in Seq(Event) /\ Len(view) \in Nat /\ NextOf(view) \in Nat
      /\ (view = <<>> <=> Len(view) = 0)
  BY NextBehind DEF CopyOK
<1>4. /\ wire \in Seq(Message) /\ Len(wire) \in Nat /\ DOMAIN wire = 1..Len(wire)
      /\ \A i \in DOMAIN wire : wire[i] \in Message
      /\ \A request \in requests : request \in Request /\ request.load \in BOOLEAN
  BY DEF ConnOK, Request
<1>5. written => chain # <<>> /\ file # <<>> /\ file[Len(file)] = chain[1]
  BY DEF KeptInv, DaemonOK
<1>6. Sent \in Nat /\ Sent <= Len(file) /\ (chain = <<>> => Sent = Len(file))
  BY <1>2, <1>5 DEF Sent
<1>7. NextOf(view) <= NextOf(file)
  <2>1. CASE view = <<>>
    BY <1>2, <2>1, NextBehind DEF NextOf
  <2>2. CASE view # <<>>
    <3>1. NextOf(view) = view[Len(view)].seq + 1 /\ view[Len(view)] \in ToSet(view)
      BY <1>3, <2>2, NextBehind DEF ToSet
    <3>2. PICK i \in DOMAIN file : view[Len(view)] = file[i]
      BY <3>1 DEF KeptInv, InFile, ToSet
    <3>3. file[i].seq < NextOf(file) /\ file[i].seq \in Nat /\ NextOf(file) \in Nat
      BY <1>2, NextBehind, Numbered DEF Above
    <3> QED
      BY <3>1, <3>2, <3>3
  <2> QED
    BY <2>1, <2>2
<1> QED
  BY <1>1, <1>2, <1>3, <1>4, <1>5, <1>6, <1>7

(* Without a resynchronisation nothing fills a gap; without a load nothing is built anew. *)
LEMMA NothingDue ==
  ASSUME PaneContext
  PROVE  /\ ~Resyncing =>
              /\ \A request \in requests : request.load
              /\ \A i \in DOMAIN wire : wire[i].kind = "reply" => wire[i].load
         /\ ~Outstanding(TRUE) =>
              /\ \A request \in requests : ~request.load
              /\ \A i \in DOMAIN wire : wire[i].kind = "reply" => ~wire[i].load
BY PaneFacts, MessageTypes DEF Resyncing, Outstanding

(* The same is outstanding after a live event or the greeting was sent or has come. *)
LEMMA SameDue ==
  ASSUME UNCHANGED requests,
         \A i \in DOMAIN wire : wire[i].kind = "reply" =>
           \E j \in DOMAIN wire' : wire'[j] = wire[i],
         \A j \in DOMAIN wire' : wire'[j].kind = "reply" =>
           \E i \in DOMAIN wire : wire'[j] = wire[i]
  PROVE  \A load \in BOOLEAN : Outstanding(load)' <=> Outstanding(load)
BY DEF Outstanding

LEMMA PaneSame ==
  ASSUME PaneInv, UNCHANGED <<client, links, link, open, resyncing, requests, wire, file, view, written>>,
         chain' = chain \/ ~Resyncing
  PROVE  PaneInv'
<1>1. (Lasting' <=> Lasting) /\ (Resyncing' <=> Resyncing) /\ Sent' = Sent
  BY DEF Lasting, Resyncing, Renderer, Outstanding, Sent
<1>2. GapsAsked' /\ GapsAnswered'
  BY <1>1 DEF PaneInv, GapsAsked, GapsAnswered, Fills, Piece, NextOf
<1>3. Unloaded' /\ Still' /\ Shown'
  BY <1>1 DEF PaneInv, Unloaded, Still, Shown, Piece, IsEvent
<1> QED
  BY <1>2, <1>3 DEF PaneInv

LEMMA AppendPane ==
  ASSUME PaneContext, AppendDone
  PROVE  PaneInv'
<1>1. chain # <<>> /\ ~written /\ written' /\ Appended(Head(chain)) /\ Head(chain) \in Event
  BY DEF AppendDone, PaneContext, DaemonInv, DaemonOK
<1>2. UNCHANGED <<client, links, link, open, resyncing, requests, wire, view, chain>>
  BY DEF AppendDone, conn, copy, counts
<1>3. ~Resyncing
  BY <1>1 DEF PaneContext, PaneInv, Still
<1>4. /\ Len(file') = Len(file) + 1 /\ file' \in Seq(Event)
      /\ \A i \in 1..Len(file) : file'[i] = file[i]
  BY <1>1, PaneFacts, CleanAppend DEF PaneContext, KeptInv
<1>5. Sent' = Sent /\ Sent = Len(file)
  BY <1>1, <1>4, PaneFacts DEF Sent
<1>6. (Lasting' <=> Lasting) /\ (Resyncing' <=> Resyncing)
  BY <1>2 DEF Lasting, Outstanding, Resyncing, Renderer
<1>7. Shown'
  <2> SUFFICES ASSUME Lasting
               PROVE  /\ Len(view) <= Len(file') /\ Piece(view, file', 0, Len(view))
                      /\ link # "down" =>
                           /\ Len(view) + Len(wire) = Sent
                           /\ \A i \in DOMAIN wire :
                                IsEvent(wire[i]) /\ wire[i].event = file'[Len(view) + i]
    BY <1>2, <1>5, <1>6 DEF Shown, IsEvent, Piece
  <2>1. /\ Len(view) <= Len(file) /\ Piece(view, file, 0, Len(view))
        /\ link # "down" =>
             /\ Len(view) + Len(wire) = Sent
             /\ \A i \in DOMAIN wire : IsEvent(wire[i]) /\ wire[i].event = file[Len(view) + i]
    BY <1>3 DEF PaneContext, PaneInv, Shown
  <2>2. Piece(view, file', 0, Len(view)) /\ Len(view) <= Len(file')
    BY <1>4, <2>1, PaneFacts DEF Piece
  <2>3. ASSUME link # "down", NEW i \in DOMAIN wire
        PROVE  file'[Len(view) + i] = file[Len(view) + i]
    BY <1>4, <1>5, <2>1, <2>3, PaneFacts
  <2> QED
    BY <2>1, <2>2, <2>3
<1>8. GapsAsked' /\ GapsAnswered'
  <2>1. (\A request \in requests : request.load)
        /\ \A i \in DOMAIN wire : wire[i].kind = "reply" => wire[i].load
    BY <1>3, NothingDue
  <2> QED
    BY <1>2, <2>1 DEF GapsAsked, GapsAnswered
<1>9. Unloaded' /\ Still'
  BY <1>2, <1>3, <1>6 DEF PaneContext, PaneInv, Unloaded, Still
<1> QED
  BY <1>7, <1>8, <1>9 DEF PaneInv

LEMMA BroadcastPane ==
  ASSUME PaneContext, Broadcast
  PROVE  PaneInv'
<1>1. chain # <<>> /\ written /\ ~written' /\ Head(chain) = chain[1] /\ Head(chain) \in Event
  BY DEF Broadcast, PaneContext, DaemonInv, DaemonOK
<1>2. UNCHANGED <<client, links, link, open, resyncing, requests, view, file>>
  BY DEF Broadcast, copy, counts
<1>3. ~Resyncing
  BY <1>1 DEF PaneContext, PaneInv, Still
<1>4. Sent' = Len(file) /\ Sent = Len(file) - 1 /\ Head(chain) = file[Len(file)]
  BY <1>1, <1>2, PaneFacts DEF Sent
<1>5. CASE link = "down"
  <2>1. UNCHANGED wire
    BY <1>5 DEF Broadcast
  <2>2. (Lasting' <=> Lasting) /\ (Resyncing' <=> Resyncing)
    BY <1>2, <2>1 DEF Lasting, Outstanding, Resyncing, Renderer
  <2>3. Shown'
    BY <1>2, <1>5, <2>2 DEF PaneContext, PaneInv, Shown, Piece
  <2>4. GapsAsked' /\ GapsAnswered'
    BY <1>2, <2>1, <2>2 DEF PaneContext, PaneInv, GapsAsked, GapsAnswered, Fills, Piece
  <2> QED
    BY <1>2, <1>3, <2>2, <2>3, <2>4 DEF PaneContext, PaneInv, Unloaded, Still
<1>6. CASE link # "down"
  <2> DEFINE message == [kind |-> "event", event |-> Head(chain)]
  <2>1. /\ message \in Message /\ message.kind = "event" /\ message.event = Head(chain)
        /\ wire' = Append(wire, message)
    BY <1>1, <1>6, MessageTypes DEF Broadcast
  <2> HIDE DEF message
  <2>2. /\ DOMAIN wire' = 1..Len(wire) + 1 /\ Len(wire') = Len(wire) + 1
        /\ wire'[Len(wire) + 1] = message /\ \A i \in 1..Len(wire) : wire'[i] = wire[i]
        /\ DOMAIN wire = 1..Len(wire) /\ Len(wire) \in Nat
    BY <2>1, PaneFacts, WireGrows
  <2>3. \A i \in DOMAIN wire' : (i \in DOMAIN wire /\ wire'[i] = wire[i]) \/ wire'[i] = message
    BY <2>2
  <2>4. \A load \in BOOLEAN : Outstanding(load)' <=> Outstanding(load)
    <3>1. \A i \in DOMAIN wire : i \in DOMAIN wire' /\ wire'[i] = wire[i]
      BY <2>2
    <3> QED
      BY <1>2, <2>1, <2>3, <3>1, SameDue
  <2>5. (Lasting' <=> Lasting) /\ (Resyncing' <=> Resyncing)
    BY <1>2, <2>4 DEF Lasting, Resyncing, Renderer
  <2>6. Shown'
    <3> SUFFICES ASSUME Lasting
                 PROVE  /\ Len(view) <= Len(file) /\ Piece(view, file, 0, Len(view))
                        /\ Len(view) + Len(wire') = Sent'
                        /\ \A i \in DOMAIN wire' :
                             IsEvent(wire'[i]) /\ wire'[i].event = file[Len(view) + i]
      BY <1>2, <2>5 DEF Shown, IsEvent, Piece
    <3>1. /\ Len(view) <= Len(file) /\ Piece(view, file, 0, Len(view))
          /\ Len(view) + Len(wire) = Sent
          /\ \A i \in DOMAIN wire : IsEvent(wire[i]) /\ wire[i].event = file[Len(view) + i]
      BY <1>3, <1>6 DEF PaneContext, PaneInv, Shown
    <3>2. Len(view) + Len(wire') = Sent'
      BY <1>4, <2>2, <3>1, PaneFacts
    <3>3. ASSUME NEW i \in DOMAIN wire'
          PROVE  IsEvent(wire'[i]) /\ wire'[i].event = file[Len(view) + i]
      <4>1. CASE i \in 1..Len(wire)
        BY <2>2, <3>1, <4>1
      <4>2. CASE i = Len(wire) + 1
        <5>1. Len(view) + i = Len(file)
          BY <1>4, <3>1, <4>2, PaneFacts
        <5> QED
          BY <1>4, <2>1, <2>2, <4>2, <5>1 DEF IsEvent
      <4> QED
        BY <2>2, <4>1, <4>2
    <3> QED
      BY <3>1, <3>2, <3>3
  <2>7. GapsAsked' /\ GapsAnswered'
    <3>1. (\A request \in requests : request.load)
          /\ \A i \in DOMAIN wire : wire[i].kind = "reply" => wire[i].load
      BY <1>3, NothingDue
    <3> QED
      BY <1>2, <2>1, <2>3, <3>1 DEF GapsAsked, GapsAnswered
  <2> QED
    BY <1>2, <1>3, <2>5, <2>6, <2>7 DEF PaneContext, PaneInv, Unloaded, Still
<1> QED
  BY <1>5, <1>6

(* What From returns fills the gap, if it is asked for from the view on. *)
LEMMA FromFills ==
  ASSUME PaneContext, NEW from \in Nat, from <= NextOf(file), Lasting => from <= NextOf(view)
  PROVE  Fills(From(file, from))
<1>1. PICK first \in 0..Len(file) :
        /\ Piece(From(file, from), file, first, Len(file))
        /\ \A i \in 1..first : file[i].seq < from
  BY PaneFacts, FromSplits
<1>2. ASSUME Lasting
      PROVE  first <= Len(view)
  <2> DEFINE size == Len(view)
  <2>1. size \in Nat /\ size <= Len(file) /\ Piece(view, file, 0, size) /\ from <= NextOf(view)
    BY <1>2, PaneFacts DEF PaneContext, PaneInv, Shown
  <2> SUFFICES ASSUME size < first
               PROVE  FALSE
    BY <2>1
  <2>2. \A i \in 1..Len(file) : file[i].seq \in Nat
    BY PaneFacts, Numbered
  <2>3. first \in 1..Len(file) /\ file[first].seq < from /\ file[first].seq \in Nat
    BY <1>1, <2>1, <2>2
  <2>4. CASE size = 0
    <3>1. NextOf(view) = 0
      BY <2>4, PaneFacts DEF NextOf
    <3> QED
      BY <2>1, <2>3, <3>1
  <2>5. CASE size # 0
    <3>1. view # <<>> /\ size \in 1..Len(view)
      BY <2>1, <2>5, PaneFacts
    <3>2. NextOf(view) = view[size].seq + 1
      BY <3>1, PaneFacts, NextBehind
    <3>3. view[size] = file[size]
      BY <2>1, <3>1 DEF Piece
    <3>4. size \in DOMAIN file /\ first \in DOMAIN file
      BY <2>1, <2>3, <2>5, PaneFacts
    <3>5. file[size].seq < file[first].seq
      BY <3>4, PaneFacts DEF Increasing
    <3> QED
      BY <2>1, <2>2, <2>3, <3>2, <3>3, <3>4, <3>5
  <2> QED
    BY <2>4, <2>5
<1> QED
  BY <1>1, <1>2 DEF Fills

LEMMA ReadPane ==
  ASSUME PaneContext, NEW request \in requests, ReadTimeline(request)
  PROVE  PaneInv'
<1> DEFINE read == [request EXCEPT !.read = TRUE, !.events = From(file, request.from)]
<1>1. UNCHANGED <<client, links, link, open, resyncing, wire, view, file, chain, written>>
  BY DEF ReadTimeline, daemon, copy, counts
<1>2. /\ requests' = (requests \ {request}) \cup {read}
      /\ read.load = request.load /\ read.from = request.from /\ read.read
      /\ read.events = From(file, request.from) /\ request.from \in Nat
  BY PaneFacts DEF ReadTimeline, Request
<1> HIDE DEF read
<1>3. \A load \in BOOLEAN : Outstanding(load)' <=> Outstanding(load)
  BY <1>1, <1>2 DEF Outstanding
<1>4. (Lasting' <=> Lasting) /\ (Resyncing' <=> Resyncing)
  BY <1>1, <1>3 DEF Lasting, Resyncing, Renderer
<1>5. ~request.load =>
        /\ request.from <= NextOf(file)
        /\ Lasting => request.from <= NextOf(view)
        /\ Fills(From(file, request.from))
  BY <1>2, FromFills DEF PaneContext, PaneInv, GapsAsked
<1>6. \A events : Fills(events)' <=> Fills(events)
  BY <1>1, <1>4 DEF Fills, Piece
<1>7. ASSUME NEW other \in requests', ~other.load
      PROVE  /\ other.from <= NextOf(file)
             /\ Lasting => other.from <= NextOf(view)
             /\ other.read => Fills(other.events)
  BY <1>2, <1>5, <1>7 DEF PaneContext, PaneInv, GapsAsked
<1>8. GapsAsked' /\ GapsAnswered'
  BY <1>1, <1>4, <1>6, <1>7 DEF PaneContext, PaneInv, GapsAsked, GapsAnswered, NextOf, Fills, Piece
<1>9. Shown'
  BY <1>1, <1>4 DEF PaneContext, PaneInv, Shown, Sent, IsEvent, Piece
<1> QED
  BY <1>1, <1>4, <1>8, <1>9 DEF PaneContext, PaneInv, Unloaded, Still, IsEvent

LEMMA ReplyPane ==
  ASSUME PaneContext, NEW request \in requests, Reply(request)
  PROVE  PaneInv'
<1> DEFINE message == [kind |-> "reply", load |-> request.load, events |-> request.events]
<1>1. UNCHANGED <<client, links, link, open, resyncing, view, file, chain, written>>
  BY DEF Reply, daemon, copy, counts
<1>2. /\ message \in Message /\ message.kind = "reply" /\ message.load = request.load
      /\ message.events = request.events /\ wire' = Append(wire, message)
      /\ requests' = requests \ {request} /\ request.read
  <2>1. request.load \in BOOLEAN /\ request.events \in Seq(Event)
    BY PaneFacts DEF Request
  <2> QED
    BY <2>1, MessageTypes DEF Reply
<1> HIDE DEF message
<1>3. /\ DOMAIN wire' = 1..Len(wire) + 1
      /\ wire'[Len(wire) + 1] = message /\ \A i \in 1..Len(wire) : wire'[i] = wire[i]
      /\ DOMAIN wire = 1..Len(wire) /\ Len(wire) \in Nat
  BY <1>2, PaneFacts, WireGrows
<1>4. /\ \A i \in DOMAIN wire' : (i \in DOMAIN wire /\ wire'[i] = wire[i]) \/ wire'[i] = message
      /\ \A i \in DOMAIN wire : i \in DOMAIN wire' /\ wire'[i] = wire[i]
      /\ \E i \in DOMAIN wire' : wire'[i] = message
  BY <1>3
<1>5. \A load \in BOOLEAN : Outstanding(load)' <=> Outstanding(load)
  BY <1>2, <1>4 DEF Outstanding
<1>6. (Lasting' <=> Lasting) /\ (Resyncing' <=> Resyncing)
  BY <1>1, <1>5 DEF Lasting, Resyncing, Renderer
<1>7. Still'
  BY <1>1, <1>2, <1>4, <1>6 DEF PaneContext, PaneInv, Still, IsEvent
<1>8. GapsAsked' /\ GapsAnswered'
  <2>1. \A events : Fills(events)' <=> Fills(events)
    BY <1>1, <1>6 DEF Fills, Piece
  <2>2. ~request.load => Fills(message.events)
    BY <1>2 DEF PaneContext, PaneInv, GapsAsked
  <2>3. ASSUME NEW i \in DOMAIN wire', wire'[i].kind = "reply", ~wire'[i].load
        PROVE  Fills(wire'[i].events)
    BY <1>2, <1>4, <2>2, <2>3 DEF PaneContext, PaneInv, GapsAnswered
  <2> QED
    <3>1. GapsAsked'
      BY <1>1, <1>2, <1>6 DEF PaneContext, PaneInv, GapsAsked, NextOf, Fills, Piece
    <3>2. GapsAnswered'
      BY <1>1, <1>6, <2>3 DEF GapsAnswered, Fills, Piece
    <3> QED
      BY <3>1, <3>2
<1>9. Shown'
  <2>1. Lasting => Resyncing
    BY PaneFacts DEF Lasting, Resyncing, Outstanding
  <2> QED
    BY <1>1, <1>6, <2>1 DEF PaneContext, PaneInv, Shown, Piece
<1> QED
  BY <1>1, <1>7, <1>8, <1>9 DEF PaneContext, PaneInv, Unloaded

LEMMA LoseLinkPane ==
  ASSUME PaneContext, LoseLink, UNCHANGED <<client, counts>>,
         Len(file) <= Len(file'), \A i \in 1..Len(file) : file'[i] = file[i], Len(file') \in Nat
  PROVE  PaneInv'
<1>1. /\ link' = "down" /\ wire' = <<>> /\ requests' = {} /\ ~resyncing' /\ open' = open /\ view' = view
      /\ links' = links /\ DOMAIN wire' = {}
  BY PaneFacts DEF LoseLink, counts, PaneContext, TypeOK, CopyOK
<1>2. ~Outstanding(TRUE)
  BY PaneFacts DEF LoseLink
<1>3. ~Resyncing'
  BY <1>1 DEF Resyncing, Outstanding
<1>4. Shown'
  <2>1. Lasting' => Lasting
    BY <1>1, <1>2 DEF Lasting
  <2> QED
    BY <1>1, <2>1, PaneFacts DEF PaneContext, PaneInv, Shown, Piece
<1> QED
  BY <1>1, <1>3, <1>4 DEF PaneContext, PaneInv, Unloaded, Still, GapsAsked, GapsAnswered

LEMMA LostPane ==
  ASSUME PaneContext, DaemonCrash \/ Disconnect
  PROVE  PaneInv'
<1>1. LoseLink /\ UNCHANGED <<client, counts>>
  BY DEF DaemonCrash, Disconnect
<1>2. CASE UNCHANGED file
  BY <1>1, <1>2, PaneFacts, LoseLinkPane
<1>3. CASE chain # <<>> /\ ~written /\ Appended(Head(chain))
  <2>1. Head(chain) \in Event
    BY <1>3 DEF PaneContext, DaemonInv, DaemonOK
  <2> QED
    BY <1>1, <1>3, <2>1, PaneFacts, CleanAppend, LoseLinkPane DEF PaneContext, KeptInv
<1> QED
  BY <1>2, <1>3, PaneFacts DEF DaemonCrash, Disconnect, daemon

LEMMA ConnectPane ==
  ASSUME PaneContext, Connect
  PROVE  PaneInv'
<1>1. /\ UNCHANGED <<client, open, resyncing, view, file, chain, written, requests>>
      /\ link = "down" /\ link' = "hello" /\ links' = links + 1 /\ links \in Nat
      /\ requests = {} /\ wire = <<>> /\ ~resyncing
      /\ links = 0 \/ chain = <<>>
  BY PaneFacts DEF Connect, daemon, copy, stream, LinkInv, PaneContext, TypeOK, ConnOK
<1>2. DOMAIN wire' = {1} /\ wire'[1].kind = "hello"
  BY DEF Connect
<1>3. \A load \in BOOLEAN : ~Outstanding(load)' /\ ~Outstanding(load)
  BY <1>1, <1>2 DEF Outstanding
<1>4. Unloaded'
  BY <1>1 DEF PaneContext, PaneInv, Unloaded
<1>5. Still'
  <2>1. Resyncing' => chain' = <<>>
    <3>1. ~Outstanding(FALSE)'
      BY <1>3
    <3>2. (links = 0 => ~(links' > 1)) /\ ~resyncing'
      BY <1>1
    <3> QED
      BY <1>1, <3>1, <3>2 DEF Resyncing
  <2>2. \A i \in DOMAIN wire' : ~IsEvent(wire'[i])
    BY <1>2 DEF IsEvent
  <2> QED
    BY <2>1, <2>2 DEF Still, IsEvent
<1>6. Shown'
  <2>1. Lasting' => Lasting /\ links # 0
    BY <1>1, <1>3 DEF Lasting, PaneContext, PaneInv, Unloaded
  <2>2. links # 0 => Resyncing'
    <3>1. Renderer' /\ (links # 0 => links' > 1)
      BY <1>1, PaneFacts DEF Renderer
    <3> QED
      BY <1>1, <3>1 DEF Resyncing
  <2> QED
    BY <1>1, <2>1, <2>2 DEF PaneContext, PaneInv, Shown, Piece
<1> QED
  BY <1>1, <1>2, <1>4, <1>5, <1>6 DEF PaneInv, GapsAsked, GapsAnswered

LEMMA HelloPane ==
  ASSUME PaneContext, ReceiveHello
  PROVE  PaneInv'
<1>1. /\ UNCHANGED <<client, links, open, view, file, chain, written, requests>>
      /\ link' = "on" /\ resyncing' = (links > 1)
  BY PaneFacts DEF ReceiveHello, daemon, counts
<1>2. /\ DOMAIN wire = 1..Len(wire) /\ DOMAIN wire' = 1..Len(wire) - 1 /\ Len(wire) \in Nat \ {0}
      /\ \A i \in 1..Len(wire) - 1 : wire'[i] = wire[i + 1]
      /\ 1 \in DOMAIN wire /\ wire[1].kind = "hello"
  BY PaneFacts, WireShrinks DEF ReceiveHello
<1>3. \A i \in DOMAIN wire' : i + 1 \in DOMAIN wire /\ wire'[i] = wire[i + 1]
  BY <1>2
<1>4. link = "hello" /\ links > 0 /\ ~resyncing /\ links \in Nat
  BY <1>2 DEF PaneContext, LinkInv, TypeOK, ConnOK
<1>5. \A load \in BOOLEAN : Outstanding(load)' <=> Outstanding(load)
  <2>1. ASSUME NEW i \in DOMAIN wire, wire[i].kind = "reply"
        PROVE  \E j \in DOMAIN wire' : wire'[j] = wire[i]
    <3>1. i # 1 /\ i - 1 \in DOMAIN wire' /\ (i - 1) + 1 = i
      BY <1>2, <2>1
    <3> QED
      BY <1>3, <3>1
  <2> QED
    BY <1>1, <1>3, <2>1, SameDue
<1>6. (Lasting' <=> Lasting) /\ (Resyncing' <=> Resyncing)
  BY <1>1, <1>4, <1>5, PaneFacts DEF Lasting, Resyncing, Renderer
<1>7. Still'
  BY <1>1, <1>3, <1>6 DEF PaneContext, PaneInv, Still, IsEvent
<1>8. Unloaded'
  BY <1>1, <1>4 DEF PaneContext, PaneInv, Unloaded
<1>9. GapsAsked' /\ GapsAnswered'
  <2>1. \A events : Fills(events)' <=> Fills(events)
    BY <1>1, <1>6 DEF Fills, Piece
  <2>2. GapsAsked'
    BY <1>1, <1>6, <2>1 DEF PaneContext, PaneInv, GapsAsked, Fills, Piece, NextOf
  <2>3. ASSUME NEW i \in DOMAIN wire', wire'[i].kind = "reply", ~wire'[i].load
        PROVE  Fills(wire'[i].events)
    BY <1>3, <2>3 DEF PaneContext, PaneInv, GapsAnswered
  <2> QED
    BY <1>1, <1>6, <2>2, <2>3 DEF GapsAnswered, Fills, Piece
<1>10. Shown'
  <2>1. Lasting => Resyncing
    <3>1. open => links > 1
      BY <1>4 DEF PaneContext, PaneInv, Unloaded
    <3> QED
      BY <1>4, <3>1, PaneFacts DEF Lasting, Resyncing
  <2> QED
    BY <1>1, <1>6, <2>1 DEF PaneContext, PaneInv, Shown, Piece
<1> QED
  BY <1>7, <1>8, <1>9, <1>10 DEF PaneInv

(* A live event reaches the renderer: it is the next of the file. *)
LEMMA RendererEventPane ==
  ASSUME PaneContext, RendererEvent
  PROVE  PaneInv'
<1>1. /\ UNCHANGED <<client, links, link, open, resyncing, file, chain, written, requests>>
      /\ view' = Apply(view, Head(wire).event)
  BY DEF RendererEvent, daemon, counts
<1>2. /\ DOMAIN wire = 1..Len(wire) /\ DOMAIN wire' = 1..Len(wire) - 1 /\ Len(wire) \in Nat \ {0}
      /\ \A i \in 1..Len(wire) - 1 : wire'[i] = wire[i + 1]
      /\ 1 \in DOMAIN wire /\ wire[1].kind = "event" /\ Head(wire) = wire[1]
      /\ Len(wire') = Len(wire) - 1
  BY PaneFacts, WireShrinks DEF RendererEvent
<1>3. \A i \in DOMAIN wire' : i + 1 \in DOMAIN wire /\ wire'[i] = wire[i + 1]
  BY <1>2
<1>4. ~Resyncing /\ link # "down"
  BY <1>2 DEF PaneContext, PaneInv, Still, IsEvent, LinkInv
<1>5. \A load \in BOOLEAN : Outstanding(load)' <=> Outstanding(load)
  <2>1. ASSUME NEW i \in DOMAIN wire, wire[i].kind = "reply"
        PROVE  \E j \in DOMAIN wire' : wire'[j] = wire[i]
    <3>1. i # 1 /\ i \in 1..Len(wire)
      BY <1>2, <2>1
    <3>2. i - 1 \in DOMAIN wire' /\ (i - 1) + 1 = i
      BY <1>2, <3>1
    <3> QED
      BY <1>3, <3>2
  <2> QED
    BY <1>1, <1>3, <2>1, SameDue
<1>6. (Lasting' <=> Lasting) /\ (Resyncing' <=> Resyncing)
  BY <1>1, <1>5 DEF Lasting, Resyncing, Renderer
<1>7. GapsAsked' /\ GapsAnswered'
  <2>1. (\A request \in requests : request.load)
        /\ \A i \in DOMAIN wire : wire[i].kind = "reply" => wire[i].load
    BY <1>4, NothingDue
  <2> QED
    BY <1>1, <1>3, <2>1 DEF GapsAsked, GapsAnswered
<1>8. Shown'
  <2> SUFFICES ASSUME Lasting
               PROVE  /\ Len(view') <= Len(file) /\ Piece(view', file, 0, Len(view'))
                      /\ Len(view') + Len(wire') = Sent
                      /\ \A i \in DOMAIN wire' :
                           IsEvent(wire'[i]) /\ wire'[i].event = file[Len(view') + i]
    BY <1>1, <1>6 DEF Shown, Sent, IsEvent, Piece
  <2> DEFINE size == Len(view)
  <2>1. /\ size <= Len(file) /\ Piece(view, file, 0, size) /\ size \in Nat
        /\ size + Len(wire) = Sent
        /\ \A i \in DOMAIN wire : IsEvent(wire[i]) /\ wire[i].event = file[size + i]
    BY <1>4, PaneFacts DEF PaneContext, PaneInv, Shown
  <2>2. size < Len(file) /\ wire[1].event = file[size + 1]
    BY <1>2, <2>1, PaneFacts
  <2>3. view' = Apply(view, file[size + 1])
    BY <1>1, <1>2, <2>2
  <2>4. Piece(view', file, 0, size + 1)
    <3> HIDE DEF size
    <3>1. \A zero \in Nat : zero <= size /\ Piece(view, file, zero, size) =>
            Piece(Apply(view, file[size + 1]), file, zero, IF size = size THEN size + 1 ELSE size)
      BY <2>1, <2>2, PaneFacts, ApplyJoins
    <3>2. 0 \in Nat /\ 0 <= size
      BY <2>1
    <3> QED
      BY <2>1, <2>3, <3>1, <3>2, Zenon
  <2>5. Len(view') = size + 1
    BY <2>1, <2>4 DEF Piece
  <2>6. ASSUME NEW i \in DOMAIN wire'
        PROVE  IsEvent(wire'[i]) /\ wire'[i].event = file[Len(view') + i]
    <3>1. i + 1 \in DOMAIN wire /\ wire'[i] = wire[i + 1] /\ size + (i + 1) = Len(view') + i
      BY <1>2, <1>3, <2>1, <2>5
    <3> QED
      BY <2>1, <3>1 DEF IsEvent
  <2> QED
    BY <1>2, <2>1, <2>2, <2>4, <2>5, <2>6
<1> QED
  BY <1>1, <1>4, <1>6, <1>7, <1>8 DEF PaneContext, PaneInv, Unloaded, Still

(* A view that has become the whole file needs nothing more. *)
LEMMA FullPane ==
  ASSUME PaneContext, NEW kind, kind = "reply", Arrives(kind),
         UNCHANGED <<client, links, link, open, resyncing, file, chain, written, requests>>,
         chain = <<>>, Lasting' => view' = file,
         \A i \in DOMAIN wire : ~IsEvent(wire[i])
  PROVE  PaneInv'
<1>1. /\ DOMAIN wire = 1..Len(wire) /\ DOMAIN wire' = 1..Len(wire) - 1 /\ Len(wire) \in Nat \ {0}
      /\ \A i \in 1..Len(wire) - 1 : wire'[i] = wire[i + 1]
      /\ 1 \in DOMAIN wire /\ wire[1].kind = "reply" /\ wire' \in Seq(Message)
      /\ Len(wire') = Len(wire) - 1
  BY PaneFacts, WireShrinks
<1>2. \A i \in DOMAIN wire' : i + 1 \in DOMAIN wire /\ wire'[i] = wire[i + 1]
  BY <1>1
<1>3. Resyncing' => Resyncing
  BY <1>2 DEF Resyncing, Renderer, Outstanding
<1>4. \A events : Fills(events) => Fills(events)'
  <2> SUFFICES ASSUME NEW events, Fills(events)
               PROVE  Fills(events)'
    OBVIOUS
  <2>1. PICK first \in 0..Len(file) : Piece(events, file, first, Len(file))
    BY DEF Fills
  <2>2. Lasting' => first <= Len(view')
    BY <2>1
  <2> QED
    BY <2>1, <2>2 DEF Fills, Piece
<1>5. GapsAsked'
  <2>1. ASSUME NEW request \in requests, ~request.load
        PROVE  /\ request.from <= NextOf(file)
               /\ Lasting' => request.from <= NextOf(view')
               /\ request.read => Fills(request.events)'
    BY <1>4, <2>1 DEF PaneContext, PaneInv, GapsAsked
  <2> QED
    BY <2>1 DEF GapsAsked, NextOf, Fills, Piece
<1>6. GapsAnswered'
  <2>1. ASSUME NEW i \in DOMAIN wire', wire'[i].kind = "reply", ~wire'[i].load
        PROVE  \E first \in 0..Len(file') :
                 /\ Piece(wire'[i].events, file', first, Len(file'))
                 /\ Lasting' => first <= Len(view')
    <3>1. PICK first \in 0..Len(file) : Piece(wire[i + 1].events, file, first, Len(file))
      BY <1>2, <2>1 DEF PaneContext, PaneInv, GapsAnswered, Fills
    <3>2. Lasting' => first <= Len(view')
      BY <3>1
    <3> QED
      BY <1>2, <3>1, <3>2
  <2> QED
    BY <2>1 DEF GapsAnswered, Fills, Piece
<1>7. Shown'
  <2> SUFFICES ASSUME Lasting'
               PROVE  Shown'
    BY DEF Shown
  <2>1. view' = file /\ file' = file /\ Sent' = Sent /\ Sent = Len(file)
    BY PaneFacts DEF Sent
  <2>2. ASSUME ~Resyncing', NEW i \in DOMAIN wire'
        PROVE  FALSE
    <3>1. wire'[i] = wire[i + 1] /\ i + 1 \in DOMAIN wire
      BY <1>2
    <3>2. wire'[i].kind \in {"hello", "event", "reply"}
          /\ (wire'[i].kind = "reply" => wire'[i].load \in BOOLEAN)
      BY <3>1, PaneFacts, MessageTypes
    <3>3. wire'[i].kind # "event"
      BY <3>1 DEF IsEvent
    <3>4. wire'[i].kind # "hello"
      BY <1>1, <3>1 DEF PaneContext, LinkInv
    <3>5. wire'[i].kind = "reply" /\ wire'[i].load = TRUE => Outstanding(TRUE)'
      BY DEF Outstanding
    <3>6. wire'[i].kind = "reply" /\ wire'[i].load = FALSE => Outstanding(FALSE)'
      BY DEF Outstanding
    <3>7. ~Outstanding(TRUE)' /\ ~Outstanding(FALSE)'
      BY <2>2, PaneFacts DEF Lasting, Resyncing, Renderer
    <3> QED
      BY <3>2, <3>3, <3>4, <3>5, <3>6, <3>7, Zenon
  <2>3. ~Resyncing' => Len(wire') = 0
    BY <1>1, <2>2
  <2>4. Piece(file, file, 0, Len(file)) /\ Len(file) \in Nat
    BY PaneFacts, WholeIsPiece
  <2> QED
    BY <2>1, <2>2, <2>3, <2>4 DEF Shown, Piece
<1>8. Still' /\ Unloaded'
  BY <1>2, <1>3 DEF PaneContext, PaneInv, Still, Unloaded, IsEvent
<1> QED
  BY <1>5, <1>6, <1>7, <1>8 DEF PaneInv

LEMMA GapReplyPane ==
  ASSUME PaneContext, GapReply
  PROVE  PaneInv'
<1>1. /\ UNCHANGED <<client, links, link, open, resyncing, file, chain, written, requests>>
      /\ view' = ApplyAll(view, Head(wire).events) /\ Arrives("reply") /\ ~Head(wire).load
  BY DEF GapReply, daemon, counts
<1>2. /\ DOMAIN wire = 1..Len(wire) /\ DOMAIN wire' = 1..Len(wire) - 1 /\ Len(wire) \in Nat \ {0}
      /\ \A i \in 1..Len(wire) - 1 : wire'[i] = wire[i + 1]
      /\ 1 \in DOMAIN wire /\ wire[1].kind = "reply" /\ Head(wire) = wire[1] /\ ~wire[1].load
  BY <1>1, PaneFacts, WireShrinks
<1>3. Resyncing
  <2>1. wire[1].load = FALSE
    BY <1>2, PaneFacts, MessageTypes
  <2> QED
    BY <1>2, <2>1, PaneFacts DEF Resyncing, Outstanding
<1>4. chain = <<>> /\ \A i \in DOMAIN wire : ~IsEvent(wire[i])
  BY <1>3 DEF PaneContext, PaneInv, Still
<1>5. ASSUME Lasting'
      PROVE  view' = file
  <2>1. Lasting
    <3>1. \A i \in DOMAIN wire : i = 1 \/ (i - 1 \in DOMAIN wire' /\ wire'[i - 1] = wire[i])
      BY <1>2
    <3>2. Outstanding(TRUE) => Outstanding(TRUE)'
      BY <1>1, <1>2, <3>1 DEF Outstanding
    <3> QED
      BY <1>1, <1>5, <3>2 DEF Lasting
  <2> DEFINE size == Len(view)
             events == Head(wire).events
  <2>2. size \in Nat /\ size <= Len(file) /\ Piece(view, file, 0, size) /\ Len(file) \in Nat
    BY <2>1, PaneFacts DEF PaneContext, PaneInv, Shown
  <2>3. PICK first \in 0..Len(file) :
          Piece(events, file, first, Len(file)) /\ first <= size
    BY <1>2, <2>1 DEF PaneContext, PaneInv, GapsAnswered, Fills
  <2>4. events \in Seq(Event)
    BY <1>2, PaneFacts, MessageTypes
  <2>5. view' = ApplyAll(view, events)
    BY <1>1
  <2> HIDE DEF size, events
  <2>6. \A zero, end \in Nat :
          /\ zero <= size /\ Piece(view, file, zero, size)
          /\ end <= Len(file) /\ first <= end /\ Piece(events, file, first, end)
          /\ zero = size => first = size
          => Piece(ApplyAll(view, events), file, zero, IF end <= size THEN size ELSE end)
    BY <2>2, <2>3, <2>4, PaneFacts, ApplyAllJoins
  <2>7. 0 \in Nat /\ 0 <= size /\ Len(file) <= Len(file) /\ first <= Len(file) /\ (0 = size => first = size)
    BY <2>2, <2>3
  <2>8. Piece(view', file, 0, IF Len(file) <= size THEN size ELSE Len(file))
    BY <2>2, <2>3, <2>5, <2>6, <2>7, Zenon
  <2>9. (IF Len(file) <= size THEN size ELSE Len(file)) = Len(file)
    BY <2>2
  <2>10. view' \in Seq(Event)
    BY <2>4, <2>5, PaneFacts, ApplyAllContents
  <2> QED
    BY <2>8, <2>9, <2>10, PaneFacts, WholePiece
<1> QED
  BY <1>1, <1>4, <1>5, FullPane

LEMMA LoadReplyPane ==
  ASSUME PaneContext, LoadReply
  PROVE  PaneInv'
<1>1. /\ UNCHANGED <<client, links, link, open, resyncing, file, chain, written, requests>>
      /\ view' = ApplyAll(<<>>, Head(wire).events) /\ Arrives("reply") /\ Head(wire).load
  BY DEF LoadReply, daemon, counts
<1>2. /\ DOMAIN wire = 1..Len(wire) /\ Len(wire) \in Nat \ {0}
      /\ 1 \in DOMAIN wire /\ wire[1].kind = "reply" /\ Head(wire) = wire[1] /\ wire[1].load
  BY <1>1, PaneFacts, WireShrinks
<1>3. /\ chain = <<>> /\ wire[1].events = file
      /\ \A j \in DOMAIN wire : j > 1 => wire[j].kind = "reply"
  BY <1>2 DEF PaneContext, LoadInv
<1>4. \A i \in DOMAIN wire : ~IsEvent(wire[i])
  BY <1>2, <1>3 DEF IsEvent
<1>5. view' = file
  BY <1>1, <1>2, <1>3, PaneFacts, Rebuilt
<1> QED
  BY <1>1, <1>3, <1>4, <1>5, FullPane


(* A view that is not to last: what fills its gap fills it still. *)
LEMMA NotLastingPane ==
  ASSUME PaneContext, ~Lasting', UNCHANGED <<wire, file, chain>>, Resyncing' => Resyncing, Unloaded',
         \A request \in requests' : ~request.load => request \in requests
  PROVE  PaneInv'
<1>1. \A events : Fills(events) => \E first \in 0..Len(file) : Piece(events, file, first, Len(file))
  BY DEF Fills
<1>2. GapsAsked'
  <2>1. ASSUME NEW request \in requests', ~request.load
        PROVE  /\ request.from <= NextOf(file)
               /\ request.read =>
                    \E first \in 0..Len(file) : Piece(request.events, file, first, Len(file))
    BY <1>1, <2>1 DEF PaneContext, PaneInv, GapsAsked
  <2> QED
    BY <2>1 DEF GapsAsked, Fills, Piece
<1>3. GapsAnswered'
  BY <1>1 DEF PaneContext, PaneInv, GapsAnswered, Fills, Piece
<1>4. Still'
  BY DEF PaneContext, PaneInv, Still, IsEvent
<1> QED
  BY <1>2, <1>3, <1>4 DEF PaneInv, Shown

LEMMA HidePanePane ==
  ASSUME PaneContext, HidePane
  PROVE  PaneInv'
<1>1. UNCHANGED <<client, links, link, resyncing, requests, wire, file, chain>> /\ ~open'
  BY DEF HidePane, daemon, conn, counts
<1>2. Resyncing' => Resyncing
  BY <1>1 DEF Resyncing, Renderer, Outstanding
<1>3. ~Lasting' /\ Unloaded'
  BY <1>1 DEF Lasting, PaneContext, PaneInv, Unloaded
<1> QED
  BY <1>1, <1>2, <1>3, NotLastingPane

(* What a load asks for. *)
LEMMA AskingAll ==
  ASSUME NEW from, Ask(TRUE, from)
  PROVE  \E asking :
           /\ requests' = requests \cup {asking}
           /\ asking.load = TRUE /\ asking.from = from /\ asking.read = FALSE
<1> DEFINE asking == [id |-> asked + 1, load |-> TRUE, from |-> from, upto |-> nextSeq,
                      read |-> FALSE, events |-> <<>>]
<1>1. requests' = requests \cup {asking}
  BY DEF Ask
<1>2. asking.load = TRUE /\ asking.from = from /\ asking.read = FALSE
  OBVIOUS
<1> HIDE DEF asking
<1> QED
  BY <1>1, <1>2

(* What is asked for to fill in. *)
LEMMA AskingRest ==
  ASSUME NEW from, Ask(FALSE, from)
  PROVE  \E asking :
           /\ requests' = requests \cup {asking}
           /\ asking.load = FALSE /\ asking.from = from /\ asking.read = FALSE
<1> DEFINE asking == [id |-> asked + 1, load |-> FALSE, from |-> from, upto |-> nextSeq,
                      read |-> FALSE, events |-> <<>>]
<1>1. requests' = requests \cup {asking}
  BY DEF Ask
<1>2. asking.load = FALSE /\ asking.from = from /\ asking.read = FALSE
  OBVIOUS
<1> HIDE DEF asking
<1> QED
  BY <1>1, <1>2

LEMMA LoadTimelinePane ==
  ASSUME PaneContext, LoadTimeline
  PROVE  PaneInv'
<1>1. link = "on" /\ Ask(TRUE, 0)
  BY PaneFacts DEF LoadTimeline
<1>2. UNCHANGED <<client, links, link, resyncing, wire, file, chain>>
  BY DEF LoadTimeline, daemon
<1>3. PICK asking : requests' = requests \cup {asking} /\ asking.load = TRUE
  BY <1>1, AskingAll
<1>4. Outstanding(TRUE)' /\ (Outstanding(FALSE)' => Outstanding(FALSE))
  BY <1>2, <1>3 DEF Outstanding
<1>5. Resyncing' => Resyncing
  BY <1>2, <1>4 DEF Resyncing, Renderer
<1>6. ~Lasting'
  BY <1>4 DEF Lasting
<1>7. Unloaded'
  BY <1>1, <1>2 DEF PaneContext, PaneInv, Unloaded
<1> QED
  BY <1>2, <1>3, <1>5, <1>6, <1>7, NotLastingPane

LEMMA SyncPane ==
  ASSUME PaneContext, SyncTimelineGap
  PROVE  PaneInv'
<1>1. /\ UNCHANGED <<client, links, link, open, wire, view, file, chain, written>>
      /\ resyncing /\ ~resyncing'
  BY DEF SyncTimelineGap, daemon
<1>2. Resyncing
  BY <1>1, PaneFacts DEF Resyncing
<1>3. chain = <<>> /\ \A i \in DOMAIN wire : ~IsEvent(wire[i])
  BY <1>2 DEF PaneContext, PaneInv, Still
<1>4. Still' /\ Unloaded'
  BY <1>1, <1>3 DEF PaneContext, PaneInv, Still, Unloaded, IsEvent
<1>5. CASE ~open
  <2>1. requests' = requests
    BY <1>5 DEF SyncTimelineGap
  <2>2. ~Lasting'
    BY <1>1, <1>5 DEF Lasting
  <2> QED
    BY <1>1, <1>2, <1>4, <2>1, <2>2, NotLastingPane
<1>6. CASE open /\ Ask(FALSE, NextOf(view))
  <2>1. PICK asking :
          /\ requests' = requests \cup {asking}
          /\ asking.load = FALSE /\ asking.from = NextOf(view) /\ asking.read = FALSE
    BY <1>6, AskingRest
  <2>2. Outstanding(FALSE)' /\ (Outstanding(TRUE)' <=> Outstanding(TRUE))
    BY <1>1, <2>1 DEF Outstanding
  <2>3. (Lasting' <=> Lasting) /\ Resyncing'
    BY <1>1, <2>2, PaneFacts DEF Lasting, Resyncing, Renderer
  <2>4. \A events : Fills(events)' <=> Fills(events)
    BY <1>1, <2>3 DEF Fills, Piece
  <2>5. ASSUME NEW request \in requests', ~request.load
        PROVE  /\ request.from <= NextOf(file)
               /\ Lasting => request.from <= NextOf(view)
               /\ request.read => Fills(request.events)
    <3>1. CASE request \in requests
      BY <2>5, <3>1 DEF PaneContext, PaneInv, GapsAsked
    <3>2. CASE request = asking
      BY <2>1, <3>2, PaneFacts
    <3> QED
      BY <2>1, <3>1, <3>2
  <2>6. GapsAsked' /\ GapsAnswered'
    BY <1>1, <2>3, <2>4, <2>5 DEF PaneContext, PaneInv, GapsAsked, GapsAnswered, NextOf, Fills, Piece
  <2>7. Shown'
    BY <1>1, <2>3 DEF PaneContext, PaneInv, Shown, Piece
  <2> QED
    BY <1>4, <2>6, <2>7 DEF PaneInv
<1> QED
  BY <1>5, <1>6 DEF SyncTimelineGap

LEMMA PaneStep ==
  ASSUME PaneContext, [Next]_vars
  PROVE  PaneInv'
<1>1. CASE UNCHANGED vars \/ Restart
  <2>1. /\ UNCHANGED <<client, links, link, open, resyncing, requests, wire, file, view, written>>
        /\ UNCHANGED chain
    BY <1>1 DEF Restart, vars, daemon, conn, copy, counts
  <2> QED
    BY <2>1, PaneSame DEF PaneContext
<1>2. CASE Emit
  <2>1. /\ UNCHANGED <<client, links, link, open, resyncing, requests, wire, file, view, written>>
        /\ ~Resyncing
    BY <1>2, PaneFacts DEF Emit, conn, copy
  <2> QED
    BY <2>1, PaneSame DEF PaneContext
<1>3. CASE AppendFails
  <2>1. /\ UNCHANGED <<client, links, link, open, resyncing, requests, wire, file, view, written>>
        /\ chain # <<>>
    BY <1>3, PaneFacts DEF AppendFails, conn, copy, counts
  <2>2. ~Resyncing
    BY <2>1 DEF PaneContext, PaneInv, Still
  <2> QED
    BY <2>1, <2>2, PaneSame DEF PaneContext
<1>4. CASE ServeTimeline
  BY <1>4, ReadPane, ReplyPane DEF ServeTimeline
<1>5. CASE Receive
  BY <1>5, PaneFacts, HelloPane, RendererEventPane, GapReplyPane, LoadReplyPane
     DEF Receive, StreamEvent, BackfillReply
<1>6. ~Watch
  BY PaneFacts DEF Watch
<1> QED
  BY <1>1, <1>2, <1>3, <1>4, <1>5, <1>6, AppendPane, BroadcastPane, LostPane, ConnectPane,
     SyncPane, LoadTimelinePane, HidePanePane DEF Next

-----------------------------------------------------------------------------
(* The output of watch *)

StreamContext == TypeOK /\ DaemonInv /\ LinkInv /\ KeptInv /\ StreamInv /\ StreamEnv

LEMMA StreamFacts ==
  ASSUME StreamContext
  PROVE  /\ ~Renderer /\ ~Allows("torn")
         /\ file \in Seq(Event) /\ Len(file) \in Nat /\ Increasing(file)
         /\ view \in Seq(Event) /\ buffered \in Seq(Event)
         /\ wire \in Seq(Message) /\ Len(wire) \in Nat /\ DOMAIN wire = 1..Len(wire)
         /\ \A request \in requests : request \in Request
         /\ \A i \in DOMAIN wire : wire[i] \in Message /\ wire[i].kind \in {"hello", "event", "reply"}
         /\ written => chain # <<>> /\ file # <<>> /\ file[Len(file)] = chain[1]
         /\ Sent \in Nat /\ Sent <= Len(file)
         /\ buffering => open
         /\ ~open => view = <<>> /\ since = {} /\ requests = {}
<1> USE DEF StreamContext, StreamEnv, TypeOK
<1>1. ~Renderer /\ ~Allows("torn")
  BY DEF Spared, Allows
<1>2. file \in Seq(Event) /\ Len(file) \in Nat /\ Increasing(file)
  BY DEF DaemonInv, DaemonOK, LogInv, FileOrdered
<1>3. view \in Seq(Event) /\ buffered \in Seq(Event)
  BY DEF CopyOK
<1>4. /\ wire \in Seq(Message) /\ Len(wire) \in Nat /\ DOMAIN wire = 1..Len(wire)
      /\ \A request \in requests : request \in Request
  BY DEF ConnOK
<1>5. \A i \in DOMAIN wire : wire[i] \in Message /\ wire[i].kind \in {"hello", "event", "reply"}
  BY <1>4, MessageTypes
<1>6. written => chain # <<>> /\ file # <<>> /\ file[Len(file)] = chain[1]
  BY DEF KeptInv, DaemonOK
<1>7. Sent \in Nat /\ Sent <= Len(file)
  BY <1>2, <1>6 DEF Sent
<1>8. (buffering => open) /\ (~open => view = <<>> /\ since = {} /\ requests = {})
  BY <1>1 DEF LinkInv
<1> QED
  BY <1>1, <1>2, <1>3, <1>4, <1>5, <1>6, <1>7, <1>8

(* What is shown and held back stays so, as long as no other answer is sent. *)
LEMMA ShowsSame ==
  ASSUME UNCHANGED <<file, since, open, buffering, view>>
  PROVE  \A next : Shows(next) => Shows(next)'
BY DEF Shows, Piece, Unasked

LEMMA HoldsMade ==
  ASSUME UNCHANGED file, view' = <<>>, NEW next, NEW held \in 0..next, Piece(buffered', file, held, next),
         \A request \in requests' :
           /\ since' = {request.from} /\ ~request.load
           /\ request.read => since' = since /\ Answers(request.events, held),
         \A i \in DOMAIN wire' : wire'[i].kind = "reply" =>
           ~wire'[i].load /\ since' = since /\ Answers(wire'[i].events, held)
  PROVE  Holds(next)'
<1>1. ASSUME since' = since, NEW events, Answers(events, held)
      PROVE  \E first, last \in 0..Len(file') :
               /\ first <= last /\ held <= last
               /\ Piece(events, file', first, last)
               /\ \A from \in since' : \A i \in 1..first : file'[i].seq < from
  BY <1>1 DEF Answers, Unasked
<1>2. \A request \in requests' : request.read =>
         \E first, last \in 0..Len(file') :
           /\ first <= last /\ held <= last
           /\ Piece(request.events, file', first, last)
           /\ \A from \in since' : \A i \in 1..first : file'[i].seq < from
  BY <1>1
<1>3. \A i \in DOMAIN wire' : wire'[i].kind = "reply" =>
         \E first, last \in 0..Len(file') :
           /\ first <= last /\ held <= last
           /\ Piece(wire'[i].events, file', first, last)
           /\ \A from \in since' : \A k \in 1..first : file'[k].seq < from
  BY <1>1
<1>4. Piece(buffered', file', held, next)
  OBVIOUS
<1> QED
  BY <1>2, <1>3, <1>4 DEF Holds, Answers, Unasked, Piece

LEMMA HoldsSame ==
  ASSUME UNCHANGED <<file, since, buffering, view, buffered, requests>>, NEW next, Holds(next),
         \A i \in DOMAIN wire' : wire'[i].kind = "reply" =>
           \E j \in DOMAIN wire : wire'[i] = wire[j]
  PROVE  Holds(next)'
<1> SUFFICES ASSUME buffering
             PROVE  Holds(next)'
  BY DEF Holds
<1>1. PICK held \in 0..next :
        /\ Piece(buffered, file, held, next)
        /\ \A request \in requests :
             /\ since = {request.from} /\ ~request.load
             /\ request.read => Answers(request.events, held)
        /\ \A i \in DOMAIN wire : wire[i].kind = "reply" =>
             ~wire[i].load /\ Answers(wire[i].events, held)
  BY DEF Holds
<1>2. view = <<>>
  BY DEF Holds
<1> QED
  BY <1>1, <1>2, HoldsMade

(* The file, the wire and the stream are as they were. *)
LEMMA StreamSame ==
  ASSUME StreamInv, UNCHANGED <<link, open, wire, requests, view, file, written, buffering, buffered, since>>
  PROVE  StreamInv'
<1>1. AsksOnce'
  BY DEF StreamInv, AsksOnce
<1>2. ASSUME NEW next, NEW gap, Flows(next, gap)
      PROVE  Flows(next, gap)'
  <2>1. Streams(next, gap)'
    BY <1>2 DEF Flows, Streams, Sent, IsEvent
  <2>2. Shows(next)' /\ Holds(next)'
    BY <1>2, ShowsSame, HoldsSame DEF Flows
  <2> QED
    BY <2>1, <2>2 DEF Flows
<1> QED
  BY <1>1, <1>2 DEF StreamInv

(* A stream without a link. *)
LEMMA StreamDown ==
  ASSUME link' = "down", requests' = {}, wire' = <<>>
  PROVE  StreamInv'
BY DEF StreamInv, AsksOnce

(* What was a section of the file is one of a longer file. *)
LEMMA SectionsLast ==
  ASSUME StreamContext, Len(file') \in Nat, Len(file) <= Len(file'), UNCHANGED since,
         \A i \in 1..Len(file) : file'[i] = file[i]
  PROVE  /\ \A piece \in Seq(Event), first, last \in 0..Len(file) :
              Piece(piece, file, first, last) => Piece(piece, file', first, last)
         /\ \A first \in 0..Len(file) : Unasked(first) => Unasked(first)'
         /\ \A events \in Seq(Event), held \in Nat : Answers(events, held) => Answers(events, held)'
<1>1. ASSUME NEW piece \in Seq(Event), NEW first \in 0..Len(file), NEW last \in 0..Len(file),
             Piece(piece, file, first, last)
      PROVE  Piece(piece, file', first, last)
  <2>1. \A i \in 1..Len(piece) : first + i \in 1..Len(file)
    BY <1>1, StreamFacts DEF Piece
  <2> QED
    BY <1>1, <2>1 DEF Piece
<1>2. ASSUME NEW first \in 0..Len(file), Unasked(first)
      PROVE  Unasked(first)'
  <2>1. \A i \in 1..first : file'[i] = file[i]
    BY StreamFacts
  <2> QED
    BY <1>2, <2>1 DEF Unasked
<1>3. ASSUME NEW events \in Seq(Event), NEW held \in Nat, Answers(events, held)
      PROVE  Answers(events, held)'
  <2>1. PICK first, last \in 0..Len(file) :
          /\ first <= last /\ held <= last
          /\ Piece(events, file, first, last) /\ Unasked(first)
    BY <1>3 DEF Answers
  <2>2. Piece(events, file', first, last) /\ Unasked(first)'
    BY <1>1, <1>2, <2>1
  <2>3. first \in 0..Len(file') /\ last \in 0..Len(file')
    BY StreamFacts
  <2> QED
    BY <2>1, <2>2, <2>3 DEF Answers, Piece
<1> QED
  BY <1>1, <1>2, <1>3

LEMMA AppendStream ==
  ASSUME StreamContext, AppendDone
  PROVE  StreamInv'
<1>1. chain # <<>> /\ ~written /\ written' /\ Appended(Head(chain)) /\ Head(chain) \in Event
  BY DEF AppendDone, StreamContext, DaemonInv, DaemonOK
<1>2. UNCHANGED <<link, open, requests, wire, view, buffering, buffered, since>>
  BY DEF AppendDone, conn, copy, stream
<1>3. /\ Len(file') = Len(file) + 1 /\ Len(file') \in Nat /\ Len(file) <= Len(file')
      /\ \A i \in 1..Len(file) : file'[i] = file[i]
  BY <1>1, StreamFacts, CleanAppend DEF StreamContext, KeptInv
<1>4. Sent' = Sent /\ Sent = Len(file)
  BY <1>1, <1>3, StreamFacts DEF Sent
<1>5. AsksOnce'
  BY <1>2 DEF StreamContext, StreamInv, AsksOnce
<1>6. ASSUME link # "down"
      PROVE  \E next \in 0..Len(file'), gap \in 0..Len(wire) : Flows(next, gap)'
  <2>1. PICK next \in 0..Len(file), gap \in 0..Len(wire) : Flows(next, gap)
    BY <1>6 DEF StreamContext, StreamInv
  <2>2. Streams(next, gap)'
    <3>1. ASSUME NEW i \in DOMAIN wire, i # gap
          PROVE  (IF gap = 0 \/ i < gap THEN next + i ELSE next + i - 1) \in 1..Len(file)
      <4>1. /\ gap \in 0..Len(wire) /\ next + Len(wire) = IF gap = 0 THEN Sent ELSE Sent + 1
            /\ i \in 1..Len(wire)
        BY <2>1, <3>1, StreamFacts DEF Flows, Streams
      <4>2. next \in Nat /\ Len(file) \in Nat /\ Len(wire) \in Nat
        BY StreamFacts
      <4> QED
        BY <1>4, <3>1, <4>1, <4>2
    <3> QED
      BY <1>2, <1>3, <1>4, <2>1, <3>1 DEF Flows, Streams, IsEvent
  <2>3. Shows(next)'
    <3> SUFFICES ASSUME open, ~buffering
                 PROVE  \E first, last \in 0..Len(file') :
                          /\ first <= last /\ next <= last /\ (first = last => next = last)
                          /\ Piece(view, file', first, last) /\ Unasked(first)'
      BY <1>2 DEF Shows, Piece, Unasked
    <3>1. PICK first, last \in 0..Len(file) :
            /\ first <= last /\ next <= last /\ (first = last => next = last)
            /\ Piece(view, file, first, last) /\ Unasked(first)
      BY <2>1 DEF Flows, Shows
    <3>2. Piece(view, file', first, last) /\ Unasked(first)'
      BY <1>2, <1>3, <3>1, StreamFacts, SectionsLast
    <3>3. first \in 0..Len(file') /\ last \in 0..Len(file')
      BY <1>3
    <3> QED
      BY <3>1, <3>2, <3>3
  <2>4. Holds(next)'
    <3> SUFFICES ASSUME buffering
                 PROVE  Holds(next)'
      BY <1>2 DEF Holds
    <3>1. PICK held \in 0..next :
            /\ Piece(buffered, file, held, next)
            /\ \A request \in requests :
                 /\ since = {request.from} /\ ~request.load
                 /\ request.read => Answers(request.events, held)
            /\ \A i \in DOMAIN wire : wire[i].kind = "reply" =>
                 ~wire[i].load /\ Answers(wire[i].events, held)
      BY <2>1 DEF Flows, Holds
    <3>2. held \in Nat /\ held \in 0..Len(file) /\ view = <<>>
      BY <2>1, StreamFacts DEF Flows, Holds
    <3>3. Piece(buffered, file', held, next)
      BY <1>2, <1>3, <3>1, <3>2, StreamFacts, SectionsLast
    <3>4. \A request \in requests : request.read => Answers(request.events, held)'
      BY <1>2, <1>3, <3>1, <3>2, StreamFacts, SectionsLast DEF Request
    <3>5. \A i \in DOMAIN wire : wire[i].kind = "reply" => Answers(wire[i].events, held)'
      BY <1>2, <1>3, <3>1, <3>2, StreamFacts, MessageTypes, SectionsLast
    <3> QED
      BY <1>2, <3>1, <3>2, <3>3, <3>4, <3>5, ZenonT(40) DEF Holds, Piece, Answers, Unasked
  <2>5. next \in 0..Len(file')
    BY <1>3
  <2> QED
    BY <2>2, <2>3, <2>4, <2>5 DEF Flows
<1> QED
  BY <1>2, <1>5, <1>6 DEF StreamInv

LEMMA BroadcastStream ==
  ASSUME StreamContext, Broadcast
  PROVE  StreamInv'
<1>1. chain # <<>> /\ written /\ ~written' /\ Head(chain) = chain[1] /\ Head(chain) \in Event
  BY DEF Broadcast, StreamContext, DaemonInv, DaemonOK
<1>2. UNCHANGED <<link, open, requests, view, file, buffering, buffered, since>>
  BY DEF Broadcast, copy, stream
<1>3. Sent' = Len(file) /\ Sent = Len(file) - 1 /\ Head(chain) = file[Len(file)]
  BY <1>1, <1>2, StreamFacts DEF Sent
<1>4. CASE link = "down"
  BY <1>2, <1>4, StreamDown DEF Broadcast, StreamContext, LinkInv
<1>5. CASE link # "down"
  <2> DEFINE message == [kind |-> "event", event |-> Head(chain)]
  <2>1. /\ message \in Message /\ message.kind = "event" /\ message.event = Head(chain)
        /\ wire' = Append(wire, message)
    BY <1>1, <1>5, MessageTypes DEF Broadcast
  <2> HIDE DEF message
  <2>2. /\ DOMAIN wire' = 1..Len(wire) + 1 /\ Len(wire') = Len(wire) + 1
        /\ wire'[Len(wire) + 1] = message /\ \A i \in 1..Len(wire) : wire'[i] = wire[i]
        /\ DOMAIN wire = 1..Len(wire) /\ Len(wire) \in Nat
    BY <2>1, StreamFacts, WireGrows
  <2>3. \A i \in DOMAIN wire' : (i \in DOMAIN wire /\ wire'[i] = wire[i]) \/ wire'[i] = message
    BY <2>2
  <2>4. AsksOnce'
    BY <1>2, <2>1, <2>3 DEF StreamContext, StreamInv, AsksOnce
  <2>5. PICK next \in 0..Len(file), gap \in 0..Len(wire) : Flows(next, gap)
    BY <1>5 DEF StreamContext, StreamInv
  <2>6. Streams(next, gap)'
    <3>1. gap \in 0..Len(wire') /\ next + Len(wire') = IF gap = 0 THEN Sent' ELSE Sent' + 1
      <4>1. gap \in 0..Len(wire) /\ next + Len(wire) = IF gap = 0 THEN Sent ELSE Sent + 1
        BY <2>5 DEF Flows, Streams
      <4>2. next \in Nat /\ Len(file) \in Nat
        BY StreamFacts
      <4> QED
        BY <1>3, <2>2, <4>1, <4>2
    <3>2. gap # 0 => ~IsEvent(wire'[gap])
      BY <2>2, <2>5 DEF Flows, Streams
    <3>3. ASSUME NEW i \in DOMAIN wire', i # gap
          PROVE  /\ IsEvent(wire'[i])
                 /\ wire'[i].event = file[IF gap = 0 \/ i < gap THEN next + i ELSE next + i - 1]
      <4>1. CASE i \in 1..Len(wire)
        BY <2>2, <2>5, <3>3, <4>1 DEF Flows, Streams
      <4>2. CASE i = Len(wire) + 1
        <5>1. (IF gap = 0 \/ i < gap THEN next + i ELSE next + i - 1) = Len(file)
          BY <1>3, <2>5, <4>2, StreamFacts DEF Flows, Streams
        <5> QED
          BY <1>3, <2>1, <2>2, <4>2, <5>1 DEF IsEvent
      <4> QED
        BY <2>2, <4>1, <4>2
    <3> QED
      BY <1>2, <3>1, <3>2, <3>3 DEF Streams, IsEvent
  <2>7. Shows(next)' /\ Holds(next)'
    <3>1. \A i \in DOMAIN wire' : wire'[i].kind = "reply" => \E j \in DOMAIN wire : wire'[i] = wire[j]
      BY <2>1, <2>3
    <3> QED
      BY <1>2, <2>5, <3>1, ShowsSame, HoldsSame DEF Flows
  <2>8. gap \in 0..Len(wire') /\ next \in 0..Len(file')
    BY <1>2, <2>2
  <2> QED
    BY <2>4, <2>6, <2>7, <2>8 DEF StreamInv, Flows
<1> QED
  BY <1>4, <1>5

LEMMA ReadStream ==
  ASSUME StreamContext, NEW request \in requests, ReadTimeline(request)
  PROVE  StreamInv'
<1> DEFINE read == [request EXCEPT !.read = TRUE, !.events = From(file, request.from)]
<1>1. UNCHANGED <<link, open, wire, view, file, written, buffering, buffered, since>>
  BY DEF ReadTimeline, daemon, copy, stream
<1>2. /\ requests' = (requests \ {request}) \cup {read}
      /\ read.load = request.load /\ read.from = request.from
      /\ read.events = From(file, request.from) /\ request.from \in Nat
  BY StreamFacts DEF ReadTimeline, Request
<1> HIDE DEF read
<1>3. requests = {request} /\ requests' = {read} /\ buffering /\ link # "down"
  BY <1>2 DEF StreamContext, StreamInv, AsksOnce, LinkInv
<1>4. AsksOnce'
  BY <1>1, <1>3 DEF StreamContext, StreamInv, AsksOnce
<1>5. PICK next \in 0..Len(file), gap \in 0..Len(wire) : Flows(next, gap)
  BY <1>3 DEF StreamContext, StreamInv
<1>6. PICK held \in 0..next :
        /\ Piece(buffered, file, held, next)
        /\ since = {request.from} /\ ~request.load
        /\ \A i \in DOMAIN wire : wire[i].kind = "reply" =>
             ~wire[i].load /\ Answers(wire[i].events, held)
  BY <1>3, <1>5 DEF Flows, Holds
<1>7. Answers(read.events, held)
  <2>1. PICK first \in 0..Len(file) :
          /\ Piece(From(file, request.from), file, first, Len(file))
          /\ \A i \in 1..first : file[i].seq < request.from
    BY <1>2, StreamFacts, FromSplits
  <2>2. Unasked(first)
    BY <1>6, <2>1 DEF Unasked
  <2>3. first <= Len(file) /\ held <= Len(file) /\ Len(file) \in 0..Len(file)
    BY StreamFacts
  <2> QED
    BY <1>2, <2>1, <2>2, <2>3 DEF Answers
<1>8. Holds(next)'
  <2>1. \A other \in requests' : since = {other.from} /\ ~other.load /\ Answers(other.events, held)
    BY <1>2, <1>3, <1>6, <1>7
  <2>2. view = <<>>
    BY <1>3, <1>5 DEF Flows, Holds
  <2> QED
    BY <1>1, <1>6, <2>1, <2>2, HoldsMade
<1>9. Shows(next)' /\ Streams(next, gap)'
  BY <1>1, <1>5, ShowsSame DEF Flows, Streams, Sent, IsEvent
<1> QED
  BY <1>1, <1>4, <1>8, <1>9 DEF StreamInv, Flows

LEMMA ReplyStream ==
  ASSUME StreamContext, NEW request \in requests, Reply(request)
  PROVE  StreamInv'
<1> DEFINE message == [kind |-> "reply", load |-> request.load, events |-> request.events]
<1>1. UNCHANGED <<link, open, view, file, written, buffering, buffered, since>>
  BY DEF Reply, daemon, copy, stream
<1>2. /\ message \in Message /\ message.kind = "reply" /\ message.load = request.load
      /\ message.events = request.events /\ wire' = Append(wire, message)
      /\ requests' = requests \ {request} /\ request.read
  <2>1. request.load \in BOOLEAN /\ request.events \in Seq(Event)
    BY StreamFacts DEF Request
  <2> QED
    BY <2>1, MessageTypes DEF Reply
<1> HIDE DEF message
<1>3. requests' = {} /\ buffering /\ link # "down" /\ link # "hello"
  BY <1>2, StreamFacts DEF StreamContext, StreamInv, AsksOnce, LinkInv
<1>4. /\ DOMAIN wire' = 1..Len(wire) + 1 /\ Len(wire') = Len(wire) + 1
      /\ wire'[Len(wire) + 1] = message /\ \A i \in 1..Len(wire) : wire'[i] = wire[i]
      /\ DOMAIN wire = 1..Len(wire) /\ Len(wire) \in Nat
  BY <1>2, StreamFacts, WireGrows
<1>5. \A i \in DOMAIN wire : IsEvent(wire[i])
  <2>1. \A i \in DOMAIN wire : wire[i].kind # "hello" /\ wire[i].kind # "reply"
    BY <1>3 DEF StreamContext, StreamInv, AsksOnce, LinkInv
  <2> QED
    BY <2>1, StreamFacts DEF IsEvent
<1>6. PICK next \in 0..Len(file) : Flows(next, 0)
  <2>1. PICK next \in 0..Len(file), gap \in 0..Len(wire) : Flows(next, gap)
    BY <1>3 DEF StreamContext, StreamInv
  <2>2. gap = 0
    BY <1>4, <1>5, <2>1 DEF Flows, Streams
  <2> QED
    BY <2>1, <2>2
<1>7. next + Len(wire) = Sent /\ \A i \in DOMAIN wire : wire[i].event = file[next + i]
  BY <1>4, <1>6 DEF Flows, Streams
<1>8. PICK gap \in Nat : gap = Len(wire) + 1
  BY <1>4
<1>9. Streams(next, gap)'
  <2>1. gap \in 0..Len(wire') /\ gap # 0 /\ next + Len(wire') = Sent + 1
    <3>1. next \in Nat /\ Sent \in Nat
      BY StreamFacts
    <3> QED
      BY <1>4, <1>7, <1>8, <3>1
  <2>2. ~IsEvent(wire'[gap])
    BY <1>2, <1>4, <1>8 DEF IsEvent
  <2>3. ASSUME NEW i \in DOMAIN wire', i # gap
        PROVE  i < gap /\ IsEvent(wire'[i]) /\ wire'[i].event = file[next + i]
    <3>1. i \in 1..Len(wire) /\ i < gap
      BY <1>4, <1>8, <2>3
    <3> QED
      BY <1>4, <1>5, <1>7, <3>1
  <2> QED
    BY <1>1, <2>1, <2>2, <2>3 DEF Streams, IsEvent, Sent
<1>10. Shows(next)'
  BY <1>1, <1>6, ShowsSame DEF Flows
<1>11. Holds(next)'
  <2>1. PICK held \in 0..next :
          /\ Piece(buffered, file, held, next) /\ ~request.load /\ Answers(request.events, held)
          /\ view = <<>>
    BY <1>2, <1>3, <1>6 DEF Flows, Holds
  <2>2. \A i \in DOMAIN wire' : wire'[i].kind = "reply" => wire'[i] = message
    BY <1>4, <1>5 DEF IsEvent
  <2> QED
    BY <1>1, <1>2, <1>3, <2>1, <2>2, HoldsMade
<1>12. AsksOnce'
  BY <1>1, <1>3 DEF AsksOnce
<1>13. gap \in 0..Len(wire') /\ next \in 0..Len(file')
  BY <1>1, <1>4, <1>8
<1> QED
  BY <1>9, <1>10, <1>11, <1>12, <1>13 DEF StreamInv, Flows

LEMMA LostStream ==
  ASSUME LoseLink
  PROVE  StreamInv'
BY StreamDown DEF LoseLink

LEMMA ConnectStream ==
  ASSUME StreamContext, Connect
  PROVE  StreamInv'
<1>1. /\ UNCHANGED <<open, view, file, written, buffering, buffered, since, requests>>
      /\ link' = "hello" /\ ~open /\ ~buffering /\ requests = {}
  BY StreamFacts DEF Connect, daemon, copy, stream, StreamContext, LinkInv
<1>2. DOMAIN wire' = {1} /\ wire'[1].kind = "hello" /\ Len(wire') = 1
  BY DEF Connect
<1>3. PICK next \in 0..Len(file) : next = Sent
  BY StreamFacts
<1>4. Streams(next, 1)'
  <2>1. Sent' = Sent
    BY <1>1 DEF Sent
  <2>2. 1 \in 0..Len(wire') /\ next + Len(wire') = Sent' + 1
    BY <1>2, <1>3, <2>1, StreamFacts
  <2> QED
    BY <1>1, <1>2, <2>2 DEF Streams, IsEvent
<1>5. Shows(next)' /\ Holds(next)' /\ AsksOnce'
  BY <1>1, <1>2 DEF Shows, Holds, AsksOnce
<1>6. 1 \in 0..Len(wire') /\ next \in 0..Len(file')
  BY <1>1, <1>2
<1> QED
  BY <1>4, <1>5, <1>6 DEF StreamInv, Flows

(* The first message is taken from the wire: an event is the next of the file. *)
LEMMA TakesFirst ==
  ASSUME StreamContext, NEW kind, Arrives(kind), UNCHANGED <<file, written>>,
         NEW next \in 0..Len(file), NEW gap \in 0..Len(wire), Streams(next, gap)
  PROVE  /\ kind # "event" => gap = 1 /\ Streams(next, 0)'
         /\ kind = "event" =>
              /\ gap # 1 /\ next + 1 \in 0..Len(file) /\ Head(wire).event = file[next + 1]
              /\ \E rest \in 0..Len(wire') : Streams(next + 1, rest)'
<1>1. /\ DOMAIN wire = 1..Len(wire) /\ DOMAIN wire' = 1..Len(wire) - 1 /\ Len(wire) \in Nat \ {0}
      /\ \A i \in 1..Len(wire) - 1 : wire'[i] = wire[i + 1]
      /\ 1 \in DOMAIN wire /\ wire[1].kind = kind /\ Head(wire) = wire[1]
      /\ Len(wire') = Len(wire) - 1
  BY StreamFacts, WireShrinks
<1>2. \A i \in DOMAIN wire' : i \in Nat /\ i + 1 \in DOMAIN wire /\ wire'[i] = wire[i + 1]
  BY <1>1
<1>3. Sent' = Sent /\ next \in Nat
  BY StreamFacts DEF Sent
<1>4. ASSUME kind # "event"
      PROVE  gap = 1 /\ Streams(next, 0)'
  <2>1. gap = 1
    BY <1>1, <1>4 DEF Streams, IsEvent
  <2>2. next + Len(wire') = Sent
    BY <1>1, <2>1, StreamFacts DEF Streams
  <2>3. \A i \in DOMAIN wire' : IsEvent(wire'[i]) /\ wire'[i].event = file[next + i]
    <3> SUFFICES ASSUME NEW i \in DOMAIN wire'
                 PROVE  IsEvent(wire'[i]) /\ wire'[i].event = file[next + i]
      OBVIOUS
    <3>1. i \in 1..Len(wire) - 1
      BY <1>1
    <3>2. i + 1 # 1 /\ ~(i + 1 < 1) /\ next + (i + 1) - 1 = next + i
      BY <1>1, <1>3, <3>1
    <3> QED
      <4>1. /\ IsEvent(wire[i + 1])
            /\ wire[i + 1].event = file[IF 1 = 0 \/ i + 1 < 1 THEN next + (i + 1) ELSE next + (i + 1) - 1]
        BY <1>2, <2>1, <3>2 DEF Streams
      <4> QED
        BY <1>2, <3>2, <4>1
  <2>4. 0 \in 0..Len(wire')
    BY <1>1
  <2> QED
    BY <1>3, <2>1, <2>2, <2>3, <2>4 DEF Streams, IsEvent
<1>5. ASSUME kind = "event"
      PROVE  /\ gap # 1 /\ next + 1 \in 0..Len(file) /\ Head(wire).event = file[next + 1]
             /\ \E rest \in 0..Len(wire') : Streams(next + 1, rest)'
  <2>1. gap # 1
    BY <1>1, <1>5 DEF Streams, IsEvent
  <2>2. next + 1 \in 0..Len(file) /\ next + 1 <= Sent
    BY <1>1, <2>1, StreamFacts DEF Streams
  <2>3. Head(wire).event = file[next + 1]
    <3>1. gap = 0 \/ 1 < gap
      BY <2>1
    <3> QED
      BY <1>1, <2>1, <3>1 DEF Streams
  <2>4. PICK rest \in 0..Len(wire') : rest = IF gap = 0 THEN 0 ELSE gap - 1
    BY <1>1, <2>1
  <2>5. Streams(next + 1, rest)'
    <3>1. next + 1 + Len(wire') = IF rest = 0 THEN Sent ELSE Sent + 1
      BY <1>1, <2>1, <2>4, StreamFacts DEF Streams
    <3>2. rest # 0 => ~IsEvent(wire'[rest])
      <4>1. rest # 0 => rest \in DOMAIN wire' /\ rest + 1 = gap /\ gap # 0
        BY <1>1, <2>1, <2>4
      <4> QED
        BY <1>2, <4>1 DEF Streams
    <3>3. ASSUME NEW i \in DOMAIN wire', i # rest
          PROVE  /\ IsEvent(wire'[i])
                 /\ wire'[i].event =
                      file[IF rest = 0 \/ i < rest THEN next + 1 + i ELSE next + 1 + i - 1]
      <4>1. /\ i + 1 # gap
            /\ (IF gap = 0 \/ i + 1 < gap THEN next + (i + 1) ELSE next + (i + 1) - 1)
                 = IF rest = 0 \/ i < rest THEN next + 1 + i ELSE next + 1 + i - 1
        <5>1. i \in Nat /\ i >= 1 /\ gap \in Nat /\ gap # 1
          BY <1>1, <2>1, <3>3
        <5> QED
          BY <1>3, <2>4, <3>3, <5>1
      <4>2. IsEvent(wire[i + 1]) /\ wire[i + 1].event =
              file[IF gap = 0 \/ i + 1 < gap THEN next + (i + 1) ELSE next + (i + 1) - 1]
        BY <1>2, <4>1 DEF Streams
      <4> QED
        BY <1>2, <4>1, <4>2
    <3> QED
      BY <1>3, <2>2, <3>1, <3>2, <3>3 DEF Streams, IsEvent
  <2> QED
    BY <2>1, <2>2, <2>3, <2>5
<1> QED
  BY <1>4, <1>5

LEMMA HelloStream ==
  ASSUME StreamContext, ReceiveHello
  PROVE  StreamInv'
<1>1. /\ UNCHANGED <<open, view, file, written, buffering, buffered, since, requests>>
      /\ link' = "on" /\ Arrives("hello")
  BY DEF ReceiveHello, daemon, stream
<1>2. /\ DOMAIN wire = 1..Len(wire) /\ DOMAIN wire' = 1..Len(wire) - 1 /\ Len(wire) \in Nat \ {0}
      /\ \A i \in 1..Len(wire) - 1 : wire'[i] = wire[i + 1]
      /\ 1 \in DOMAIN wire /\ wire[1].kind = "hello"
  BY <1>1, StreamFacts, WireShrinks
<1>3. \A i \in DOMAIN wire' : i + 1 \in DOMAIN wire /\ wire'[i] = wire[i + 1]
  BY <1>2
<1>4. link = "hello" /\ ~open /\ ~buffering /\ link # "down"
  BY <1>2, StreamFacts DEF StreamContext, LinkInv, StreamInv, AsksOnce
<1>5. PICK next \in 0..Len(file), gap \in 0..Len(wire) : Flows(next, gap)
  BY <1>4 DEF StreamContext, StreamInv
<1>6. Streams(next, 0)'
  BY <1>1, <1>5, TakesFirst DEF Flows
<1>7. Shows(next)' /\ Holds(next)'
  BY <1>1, <1>4 DEF Shows, Holds
<1>8. AsksOnce'
  BY <1>1, <1>3, <1>4 DEF StreamContext, StreamInv, AsksOnce
<1>9. 0 \in 0..Len(wire') /\ next \in 0..Len(file')
  BY <1>1 DEF Flows, Streams
<1> QED
  BY <1>6, <1>7, <1>8, <1>9 DEF StreamInv, Flows

LEMMA WatchStream ==
  ASSUME StreamContext, Watch
  PROVE  StreamInv'
<1>1. /\ UNCHANGED <<link, wire, view, file, written, buffered>>
      /\ link = "on" /\ ~open /\ open'
  BY DEF Watch, daemon
<1>2. /\ view = <<>> /\ buffered = <<>> /\ since = {} /\ requests = {} /\ ~buffering
      /\ \A i \in DOMAIN wire : wire[i].kind # "reply"
  BY <1>1, StreamFacts DEF StreamContext, LinkInv
<1>3. PICK next \in 0..Len(file), gap \in 0..Len(wire) : Flows(next, gap)
  BY <1>1 DEF StreamContext, StreamInv
<1>4. Streams(next, gap)'
  BY <1>1, <1>3 DEF Flows, Streams, Sent, IsEvent
<1>5. Piece(<<>>, file, next, next)
  BY StreamFacts DEF Piece
<1>6. CASE UNCHANGED <<requests, asked, buffering, since>>
  <2>1. AsksOnce' /\ Holds(next)'
    BY <1>1, <1>2, <1>6 DEF AsksOnce, Holds
  <2>2. Shows(next)'
    <3>1. next <= next
      BY StreamFacts
    <3> QED
      BY <1>1, <1>2, <1>5, <1>6, <3>1 DEF Shows, Piece, Unasked
  <2> QED
    BY <1>1, <1>4, <2>1, <2>2 DEF StreamInv, Flows
<1>7. CASE (\E from \in 0..nextSeq : Ask(FALSE, from) /\ since' = {from}) /\ buffering'
  <2>1. PICK from \in 0..nextSeq : Ask(FALSE, from) /\ since' = {from}
    BY <1>7
  <2>2. PICK asking :
          /\ requests' = requests \cup {asking}
          /\ asking.load = FALSE /\ asking.from = from /\ asking.read = FALSE
    BY <2>1, AskingRest
  <2>3. requests' = {asking}
    BY <1>2, <2>2
  <2>4. AsksOnce'
    BY <1>1, <1>2, <1>7, <2>3 DEF AsksOnce
  <2>5. Shows(next)'
    BY <1>7 DEF Shows
  <2>6. next \in 0..next
    BY StreamFacts
  <2>7. Holds(next)'
    BY <1>1, <1>2, <1>5, <2>1, <2>2, <2>3, <2>6, HoldsMade
  <2> QED
    BY <1>1, <1>4, <2>4, <2>5, <2>7 DEF StreamInv, Flows
<1> QED
  BY <1>6, <1>7 DEF Watch

(* A live event reaches the stream: it is shown, or held back. *)
LEMMA EventStream ==
  ASSUME StreamContext, StreamEvent
  PROVE  StreamInv'
<1>1. /\ UNCHANGED <<link, open, file, written, requests, buffering, since>>
      /\ Arrives("event")
      /\ view' = IF open /\ ~buffering THEN Apply(view, Head(wire).event) ELSE view
      /\ buffered' = IF buffering THEN Append(buffered, Head(wire).event) ELSE buffered
  BY DEF StreamEvent, daemon
<1>2. /\ DOMAIN wire = 1..Len(wire) /\ DOMAIN wire' = 1..Len(wire) - 1 /\ Len(wire) \in Nat \ {0}
      /\ \A i \in 1..Len(wire) - 1 : wire'[i] = wire[i + 1]
      /\ 1 \in DOMAIN wire
  BY <1>1, StreamFacts, WireShrinks
<1>3. \A i \in DOMAIN wire' : i + 1 \in DOMAIN wire /\ wire'[i] = wire[i + 1]
  BY <1>2
<1>4. link # "down"
  BY <1>2 DEF StreamContext, LinkInv
<1>5. PICK next \in 0..Len(file), gap \in 0..Len(wire) : Flows(next, gap)
  BY <1>4 DEF StreamContext, StreamInv
<1>6. /\ next + 1 \in 0..Len(file) /\ Head(wire).event = file[next + 1]
      /\ \E rest \in 0..Len(wire') : Streams(next + 1, rest)'
  BY <1>1, <1>5, TakesFirst DEF Flows
<1>7. PICK rest \in 0..Len(wire') : Streams(next + 1, rest)'
  BY <1>6
<1>8. next \in Nat /\ next < Len(file)
  BY <1>6, StreamFacts
<1>9. Shows(next + 1)'
  <2> SUFFICES ASSUME open, ~buffering
               PROVE  \E first, last \in 0..Len(file) :
                        /\ first <= last /\ next + 1 <= last /\ (first = last => next + 1 = last)
                        /\ Piece(view', file, first, last) /\ Unasked(first)
    BY <1>1 DEF Shows, Piece, Unasked
  <2>1. PICK first, last \in 0..Len(file) :
          /\ first <= last /\ next <= last /\ (first = last => next = last)
          /\ Piece(view, file, first, last) /\ Unasked(first)
    BY <1>5 DEF Flows, Shows
  <2>2. view' = Apply(view, file[next + 1])
    BY <1>1, <1>6
  <2>3. first \in Nat /\ last \in Nat /\ last <= Len(file)
    BY StreamFacts
  <2>4. Piece(view', file, first, IF next = last THEN last + 1 ELSE last)
    BY <1>8, <2>1, <2>2, <2>3, StreamFacts, ApplyJoins
  <2>5. PICK end \in Nat : end = IF next = last THEN last + 1 ELSE last
    BY <2>3
  <2>6. /\ end \in 0..Len(file) /\ first <= end /\ next + 1 <= end
        /\ first = end => next + 1 = end
    BY <1>8, <2>1, <2>3, <2>5, StreamFacts
  <2> QED
    BY <2>1, <2>4, <2>5, <2>6
<1>10. Holds(next + 1)'
  <2> SUFFICES ASSUME buffering
               PROVE  Holds(next + 1)'
    BY <1>1 DEF Holds
  <2>1. PICK held \in 0..next :
          /\ Piece(buffered, file, held, next)
          /\ \A request \in requests :
               /\ since = {request.from} /\ ~request.load
               /\ request.read => Answers(request.events, held)
          /\ \A i \in DOMAIN wire : wire[i].kind = "reply" =>
               ~wire[i].load /\ Answers(wire[i].events, held)
    BY <1>5 DEF Flows, Holds
  <2>2. view = <<>>
    BY <1>5 DEF Flows, Holds
  <2>3. Piece(buffered', file, held, next + 1)
    <3>1. buffered' = Append(buffered, file[next + 1])
      BY <1>1, <1>6
    <3>2. held \in Nat /\ held <= next
      BY <1>8
    <3> QED
      BY <1>8, <2>1, <3>1, <3>2, StreamFacts, PieceAppend
  <2>4. held \in 0..next + 1
    BY <1>8
  <2>5. \A i \in DOMAIN wire' : wire'[i].kind = "reply" =>
          ~wire'[i].load /\ Answers(wire'[i].events, held)
    BY <1>3, <2>1
  <2> QED
    BY <1>1, <2>1, <2>2, <2>3, <2>4, <2>5, HoldsMade
<1>11. AsksOnce'
  BY <1>1, <1>3 DEF StreamContext, StreamInv, AsksOnce
<1> QED
  BY <1>1, <1>6, <1>7, <1>9, <1>10, <1>11 DEF StreamInv, Flows

(* The answer has come: it is shown, and what was held back behind it. *)
LEMMA BackfillStream ==
  ASSUME StreamContext, BackfillReply
  PROVE  StreamInv'
<1>1. /\ UNCHANGED <<link, open, file, written, requests, since>>
      /\ Arrives("reply") /\ ~buffering'
      /\ view' = ApplyAll(ApplyAll(view, Head(wire).events), buffered)
  BY DEF BackfillReply, daemon
<1>2. /\ DOMAIN wire = 1..Len(wire) /\ DOMAIN wire' = 1..Len(wire) - 1 /\ Len(wire) \in Nat \ {0}
      /\ \A i \in 1..Len(wire) - 1 : wire'[i] = wire[i + 1]
      /\ 1 \in DOMAIN wire /\ wire[1].kind = "reply" /\ Head(wire) = wire[1]
  BY <1>1, StreamFacts, WireShrinks
<1>3. \A i \in DOMAIN wire' : i \in 1..Len(wire) - 1 /\ i + 1 \in DOMAIN wire /\ i + 1 # 1
                              /\ wire'[i] = wire[i + 1]
  BY <1>2
<1>4. link # "down" /\ buffering /\ requests = {} /\ link # "hello"
  BY <1>2, StreamFacts DEF StreamContext, LinkInv, StreamInv, AsksOnce
<1>5. PICK next \in 0..Len(file), gap \in 0..Len(wire) : Flows(next, gap)
  BY <1>4 DEF StreamContext, StreamInv
<1>6. gap = 1 /\ Streams(next, 0)'
  <2>1. Arrives("reply") /\ "reply" # "event" /\ UNCHANGED <<file, written>> /\ Streams(next, gap)
    BY <1>1, <1>5 DEF Flows
  <2> QED
    BY <2>1, TakesFirst
<1>7. PICK held \in 0..next : Piece(buffered, file, held, next) /\ Answers(wire[1].events, held)
  BY <1>2, <1>4, <1>5 DEF Flows, Holds
<1> DEFINE events == wire[1].events
<1>8. PICK first, last \in 0..Len(file) :
        first <= last /\ held <= last /\ Piece(events, file, first, last) /\ Unasked(first)
  BY <1>7 DEF Answers
<1>9. events \in Seq(Event) /\ view = <<>> /\ view' = ApplyAll(ApplyAll(<<>>, events), buffered)
  BY <1>1, <1>2, <1>4, <1>5, StreamFacts, MessageTypes DEF Flows, Holds
<1>10. /\ next \in Nat /\ held \in Nat /\ first \in Nat /\ last \in Nat
       /\ held <= next /\ next <= Len(file) /\ last <= Len(file)
  BY StreamFacts
<1> HIDE DEF events
<1>11. PICK filled \in Seq(Event) : filled = ApplyAll(<<>>, events) /\ Piece(filled, file, first, last)
  <2>1. <<>> \in Seq(Event) /\ Piece(<<>>, file, first, first)
    BY <1>10 DEF Piece
  <2>2. ApplyAll(<<>>, events) \in Seq(Event)
    BY <1>9, <2>1, ApplyAllContents
  <2>3. \A none \in Seq(Event) : Piece(none, file, first, first) =>
          Piece(ApplyAll(none, events), file, first, IF last <= first THEN first ELSE last)
    BY <1>8, <1>9, <1>10, StreamFacts, ApplyAllJoins
  <2>4. (IF last <= first THEN first ELSE last) = last
    BY <1>8, <1>10
  <2> QED
    BY <2>1, <2>2, <2>3, <2>4, Zenon
<1>12. \E begin, end \in 0..Len(file) :
         /\ begin <= end /\ next <= end /\ (begin = end => next = end)
         /\ Piece(view', file, begin, end) /\ Unasked(begin)
  <2>1. CASE first = last
    <3>1. Piece(filled, file, held, held) /\ Unasked(held)
      BY <1>8, <1>10, <1>11, <2>1 DEF Piece, Unasked
    <3>2. Piece(ApplyAll(filled, buffered), file, held, IF next <= held THEN held ELSE next)
      BY <1>7, <1>10, <1>11, <3>1, StreamFacts, ApplyAllJoins
    <3>3. (IF next <= held THEN held ELSE next) = next
      BY <1>10
    <3>4. view' = ApplyAll(filled, buffered)
      BY <1>9, <1>11
    <3>5. Piece(view', file, held, next)
      BY <3>2, <3>3, <3>4, Zenon
    <3>6. held \in 0..Len(file) /\ next \in 0..Len(file) /\ next <= next
      BY <1>10, StreamFacts
    <3> QED
      BY <1>10, <3>1, <3>5, <3>6
  <2>2. CASE first # last
    <3>1. Piece(ApplyAll(filled, buffered), file, first, IF next <= last THEN last ELSE next)
      BY <1>7, <1>8, <1>10, <1>11, <2>2, StreamFacts, ApplyAllJoins
    <3>2. PICK end \in 0..Len(file) : end = IF next <= last THEN last ELSE next
      BY <1>10, StreamFacts
    <3>3. Piece(view', file, first, end)
      BY <1>9, <1>11, <3>1, <3>2
    <3>4. first <= end /\ next <= end /\ first # end
      BY <1>8, <1>10, <2>2, <3>2
    <3> QED
      BY <1>8, <3>3, <3>4
  <2> QED
    BY <2>1, <2>2
<1>13. Shows(next)' /\ Holds(next)'
  BY <1>1, <1>12 DEF Shows, Holds, Piece, Unasked
<1>14. AsksOnce'
  <2>1. \A i \in DOMAIN wire : i # 1 => IsEvent(wire[i])
    BY <1>5, <1>6 DEF Flows, Streams
  <2>2. \A i \in DOMAIN wire' : wire'[i].kind # "reply"
    BY <1>3, <2>1 DEF IsEvent
  <2> QED
    BY <1>1, <1>4, <2>2 DEF AsksOnce
<1>15. 0 \in 0..Len(wire') /\ next \in 0..Len(file')
  BY <1>1, <1>6 DEF Streams
<1> QED
  BY <1>6, <1>13, <1>14, <1>15 DEF StreamInv, Flows

LEMMA StreamStep ==
  ASSUME StreamContext, [Next]_vars
  PROVE  StreamInv'
<1>1. CASE UNCHANGED vars \/ Emit \/ AppendFails \/ Restart
  <2>1. UNCHANGED <<link, open, wire, requests, view, file, written, buffering, buffered, since>>
    BY <1>1, StreamFacts DEF Emit, AppendFails, Restart, vars, daemon, conn, copy, stream, counts
  <2> QED
    BY <2>1, StreamSame DEF StreamContext
<1>2. CASE ServeTimeline
  BY <1>2, ReadStream, ReplyStream DEF ServeTimeline
<1>3. CASE DaemonCrash \/ Disconnect
  BY <1>3, LostStream DEF DaemonCrash, Disconnect
<1>4. CASE Receive
  BY <1>4, StreamFacts, HelloStream, EventStream, BackfillStream
     DEF Receive, RendererEvent, GapReply, LoadReply
<1>5. ~SyncTimelineGap /\ ~LoadTimeline /\ ~HidePane
  BY StreamFacts DEF SyncTimelineGap, LoadTimeline, HidePane, StreamContext, LinkInv
<1> QED
  BY <1>1, <1>2, <1>3, <1>4, <1>5, AppendStream, BroadcastStream, ConnectStream, WatchStream DEF Next

-----------------------------------------------------------------------------
(* Every copy *)

LEMMA InitViews == Init => ViewsInv
<1> SUFFICES ASSUME Init PROVE ViewsInv
  OBVIOUS
<1>1. /\ up /\ chain = <<>> /\ ~written /\ file = <<>> /\ tail = "clean"
      /\ link = "down" /\ wire = <<>> /\ requests = {} /\ view = <<>> /\ ~open /\ ~resyncing
      /\ ~buffering /\ buffered = <<>> /\ since = {} /\ links = 0
  BY DEF Init
<1>2. DOMAIN wire = {} /\ Len(view) = 0 /\ Len(file) = 0 /\ ToSet(<<>>) = {}
  BY <1>1 DEF ToSet
<1>3. LinkInv /\ StreamInv
  BY <1>1, <1>2 DEF LinkInv, StreamInv, AsksOnce
<1>4. KeptInv /\ LoadInv
  BY <1>1, <1>2 DEF KeptInv, LoadInv, InFile
<1>5. PaneInv
  BY <1>1, <1>2 DEF PaneInv, Unloaded, Still, GapsAsked, GapsAnswered, Shown, Lasting
<1> QED
  BY <1>3, <1>4, <1>5 DEF ViewsInv

LEMMA ViewsStep ==
  ASSUME TypeOK, DaemonInv, ViewsInv, [Next]_vars
  PROVE  ViewsInv'
<1>1. UNCHANGED <<races, client>>
  BY DEF Next, Emit, AppendDone, Broadcast, AppendFails, ServeTimeline, ReadTimeline, Reply,
         DaemonCrash, Restart, Connect, Disconnect, Receive, ReceiveHello, RendererEvent, GapReply,
         LoadReply, StreamEvent, BackfillReply, SyncTimelineGap, LoadTimeline, HidePane, Watch, vars
<1>2. /\ KeptEnv' <=> KeptEnv
      /\ LoadEnv' <=> LoadEnv
      /\ PaneEnv' <=> PaneEnv
      /\ StreamEnv' <=> StreamEnv
  BY <1>1 DEF KeptEnv, LoadEnv, PaneEnv, StreamEnv, Spared, Renderer
<1>3. FileOrdered
  BY DEF DaemonInv, LogInv
<1>4. LinkInv'
  BY LinkStep DEF ViewsInv
<1>5. KeptEnv => KeptInv'
  BY <1>3, KeptStep DEF ViewsInv, KeptEnv
<1>6. LoadEnv => LoadInv'
  BY LoadStep DEF ViewsInv, LoadEnv
<1>7. ASSUME PaneEnv
      PROVE  PaneInv'
  <2>1. KeptEnv /\ LoadEnv
    BY <1>7 DEF PaneEnv, KeptEnv, LoadEnv, Spared
  <2>2. PaneContext
    BY <1>7, <2>1 DEF PaneContext, ViewsInv
  <2> QED
    BY <2>2, PaneStep
<1>8. ASSUME StreamEnv
      PROVE  StreamInv'
  <2>1. KeptEnv
    BY <1>8 DEF StreamEnv, KeptEnv
  <2>2. StreamContext
    BY <1>8, <2>1 DEF StreamContext, ViewsInv
  <2> QED
    BY <2>2, StreamStep
<1> QED
  BY <1>2, <1>4, <1>5, <1>6, <1>7, <1>8 DEF ViewsInv

(***************************************************************************)
(* The parts above hold in every behaviour, each under the races it names. *)
(***************************************************************************)
THEOREM ViewsInvariant == Spec => []ViewsInv
<1>1. Init => ViewsInv
  BY InitViews
<1>2. TypeOK /\ DaemonInv /\ ViewsInv /\ [Next]_vars => ViewsInv'
  BY ViewsStep
<1> QED
  BY <1>1, <1>2, LogInvariant, TimelineTypes, PTL DEF Spec

(***************************************************************************)
(* What a client shows can be read again (server.ts sends an event only    *)
(* once appendEvent has come back), if no append is interrupted half-way.  *)
(***************************************************************************)
THEOREM ShownCanBeReadAgain == Spec => []SeenIsKeptIntact
<1>1. ViewsInv => SeenIsKeptIntact
  BY DEF ViewsInv, KeptEnv, KeptInv, InFile, SeenIsKeptIntact, SeenIsKept
<1> QED
  BY <1>1, ViewsInvariant, PTL

(* A settled pane shows the file. *)
LEMMA SettledIsComplete ==
  ASSUME TypeOK, DaemonInv, ViewsInv
  PROVE  CaughtUp
<1> SUFFICES ASSUME Spared({"resync", "load", "lostload", "torn"}), Settled
             PROVE  view = file
  BY DEF CaughtUp, Complete
<1>1. Renderer /\ open /\ link = "on" /\ ~resyncing /\ requests = {} /\ wire = <<>> /\ chain = <<>>
  BY DEF Settled
<1>2. PaneContext
  BY <1>1 DEF PaneContext, ViewsInv, PaneEnv, LoadEnv, KeptEnv, Spared
<1>3. DOMAIN wire = {} /\ Len(wire) = 0
  BY <1>1
<1>4. Lasting /\ ~Resyncing
  BY <1>1, <1>3 DEF Lasting, Resyncing, Outstanding
<1>5. Piece(view, file, 0, Len(view)) /\ Len(view) + Len(wire) = Sent /\ Sent = Len(file)
  BY <1>1, <1>2, <1>4, PaneFacts DEF PaneContext, PaneInv, Shown
<1>6. Len(view) = Len(file)
  BY <1>2, <1>3, <1>5, PaneFacts
<1> QED
  BY <1>2, <1>5, <1>6, PaneFacts, WholePiece

(***************************************************************************)
(* A visible pane with nothing on its way shows the whole timeline: no     *)
(* hole and no repetition, after any number of disconnections, restarts    *)
(* and failed appends.                                                     *)
(***************************************************************************)
THEOREM PanesCatchUp == Spec => []CaughtUp
<1>1. TypeOK /\ DaemonInv /\ ViewsInv => CaughtUp
  BY SettledIsComplete
<1> QED
  BY <1>1, LogInvariant, TimelineTypes, ViewsInvariant, PTL

(* A section of the file that begins before what is asked for has all of it up to its end. *)
LEMMA SectionIsPrefix ==
  ASSUME file \in Seq(Event), Increasing(file), NEW piece \in Seq(Event), NEW from \in Nat,
         NEW first \in 0..Len(file), NEW last \in 0..Len(file), first <= last,
         Piece(piece, file, first, last), \A i \in 1..first : file[i].seq < from
  PROVE  IsPrefix(From(piece, from), From(file, from))
<1> DEFINE some == From(piece, from)
           all == From(file, from)
<1>1. /\ Len(file) \in Nat /\ first \in Nat /\ last \in Nat /\ last <= Len(file)
      /\ Len(piece) = last - first /\ \A i \in 1..Len(piece) : piece[i] = file[first + i]
      /\ \A i \in 1..Len(file) : file[i].seq \in Nat
  BY Numbered DEF Piece
<1>2. Increasing(piece)
  <2>1. \A i \in DOMAIN piece : first + i \in DOMAIN file /\ piece[i] = file[first + i] /\ i \in Nat
    BY <1>1
  <2> SUFFICES ASSUME NEW i \in DOMAIN piece, NEW j \in DOMAIN piece, i < j
               PROVE  piece[i].seq < piece[j].seq
    BY DEF Increasing
  <2>2. first + i < first + j
    BY <1>1, <2>1
  <2> QED
    BY <2>1, <2>2 DEF Increasing
<1>3. some \in Seq(Event) /\ all \in Seq(Event)
  BY <1>2, FromSplits
<1>4. PICK start \in 0..Len(file) :
        /\ Piece(all, file, start, Len(file))
        /\ \A i \in 1..start : file[i].seq < from
        /\ \A i \in start + 1..Len(file) : file[i].seq >= from
  BY FromSplits
<1>5. PICK skip \in 0..Len(piece) :
        /\ Piece(some, piece, skip, Len(piece))
        /\ \A i \in 1..skip : piece[i].seq < from
        /\ \A i \in skip + 1..Len(piece) : piece[i].seq >= from
  BY <1>2, FromSplits
<1> HIDE DEF some, all
<1>6. first <= start
  <2> SUFFICES ASSUME start < first
               PROVE  FALSE
    BY <1>1
  <2>1. first \in 1..first /\ first \in start + 1..Len(file) /\ first \in 1..Len(file)
    BY <1>1
  <2>2. file[first].seq < from /\ file[first].seq >= from /\ file[first].seq \in Nat
    BY <1>1, <1>4, <2>1
  <2> QED
    BY <2>2
<1>7. Len(some) = 0 \/ first + skip = start
  <2> SUFFICES ASSUME skip < Len(piece), first + skip # start
               PROVE  FALSE
    BY <1>1, <1>5 DEF Piece
  <2>1. CASE first + skip < start
    <3>1. /\ skip + 1 \in skip + 1..Len(piece) /\ skip + 1 \in 1..Len(piece)
          /\ first + (skip + 1) \in 1..start /\ first + (skip + 1) \in 1..Len(file)
      BY <1>1, <2>1
    <3>2. piece[skip + 1] = file[first + (skip + 1)] /\ file[first + (skip + 1)].seq \in Nat
      BY <1>1, <3>1
    <3>3. piece[skip + 1].seq >= from /\ file[first + (skip + 1)].seq < from
      BY <1>4, <1>5, <3>1
    <3> QED
      BY <3>2, <3>3
  <2>2. CASE start < first + skip
    <3>1. skip \in 1..skip /\ skip \in 1..Len(piece) /\ first + skip \in start + 1..Len(file)
          /\ first + skip \in 1..Len(file)
      BY <1>1, <1>6, <2>2
    <3>2. piece[skip] = file[first + skip] /\ file[first + skip].seq \in Nat
      BY <1>1, <3>1
    <3>3. piece[skip].seq < from /\ file[first + skip].seq >= from
      BY <1>4, <1>5, <3>1
    <3> QED
      BY <3>2, <3>3
  <2>3. start \in Nat /\ skip \in Nat /\ first \in Nat
    BY <1>1
  <2>4. first + skip < start \/ start < first + skip
    BY <2>3
  <2> QED
    BY <2>1, <2>2, <2>4
<1>8. Len(some) <= Len(all) /\ Len(some) \in Nat
  BY <1>1, <1>3, <1>4, <1>5, <1>7 DEF Piece
<1>9. ASSUME NEW i \in 1..Len(some)
      PROVE  some[i] = all[i]
  <2>1. some[i] = piece[skip + i] /\ skip + i \in 1..Len(piece)
    BY <1>1, <1>5, <1>9 DEF Piece
  <2>2. piece[skip + i] = file[first + (skip + i)]
    BY <1>1, <2>1
  <2>3. i \in 1..Len(all) /\ all[i] = file[start + i]
    BY <1>4, <1>8 DEF Piece
  <2>4. first + (skip + i) = start + i
    BY <1>1, <1>7, <1>8
  <2> QED
    BY <2>1, <2>2, <2>3, <2>4
<1>10. IsPrefix(some, all)
  BY <1>3, <1>8, <1>9 DEF IsPrefix
<1> QED
  BY <1>10 DEF some, all

(* What a stream has shown is a section of the file without a hole. *)
LEMMA StreamIsComplete ==
  ASSUME TypeOK, DaemonInv, ViewsInv
  PROVE  StreamComplete
<1> SUFFICES ASSUME ~Renderer, Spared({"torn"})
             PROVE  /\ Section(view)
                    /\ \A from \in since : IsPrefix(From(view, from), From(file, from))
  BY DEF StreamComplete
<1>1. StreamContext
  BY DEF StreamContext, ViewsInv, StreamEnv, KeptEnv
<1>2. since \subseteq Nat /\ file \in Seq(Event) /\ view \in Seq(Event) /\ Len(file) \in Nat
  BY DEF TypeOK, CopyOK, DaemonOK
<1>3. PICK first, last \in 0..Len(file) :
        first <= last /\ Piece(view, file, first, last) /\ Unasked(first)
  <2>1. CASE open /\ ~buffering
    <3>1. link # "down"
      BY <1>1, <2>1 DEF StreamContext, LinkInv
    <3> QED
      BY <1>1, <2>1, <3>1 DEF StreamContext, StreamInv, Flows, Shows
  <2>2. CASE ~open \/ buffering
    <3>1. view = <<>>
      <4>1. buffering => link # "down"
        BY <1>1, StreamFacts DEF StreamContext, LinkInv
      <4> QED
        BY <1>1, <2>2, <4>1, StreamFacts DEF StreamContext, StreamInv, Flows, Holds
    <3>2. 0 \in 0..Len(file) /\ 0 <= 0 /\ Piece(view, file, 0, 0) /\ Unasked(0)
      BY <1>2, <3>1 DEF Piece, Unasked
    <3> QED
      BY <3>2, Zenon
  <2> QED
    BY <2>1, <2>2
<1>4. /\ Len(view) = last - first /\ \A i \in 1..Len(view) : view[i] = file[first + i]
      /\ first \in Nat /\ last \in Nat /\ last <= Len(file) /\ Len(view) \in Nat
  BY <1>2, <1>3 DEF Piece
<1>5. Section(view)
  <2>1. first \in 0..Len(file) - Len(view)
    BY <1>2, <1>3, <1>4
  <2>2. view = SubSeq(file, first + 1, first + Len(view))
    <3> DEFINE part == SubSeq(file, first + 1, first + Len(view))
    <3>1. /\ part \in Seq(Event) /\ Len(part) = Len(view)
          /\ \A i \in 1..Len(part) : part[i] = file[first + i]
      BY <1>2, <1>3, <1>4
    <3> HIDE DEF part
    <3>2. part = view
      BY <1>2, <1>4, <3>1
    <3> QED
      BY <3>2 DEF part
  <2> QED
    BY <2>1, <2>2 DEF Section
<1>6. ASSUME NEW from \in since
      PROVE  IsPrefix(From(view, from), From(file, from))
  <2>1. \A i \in 1..first : file[i].seq < from
    BY <1>3 DEF Unasked
  <2>2. Increasing(file)
    BY DEF DaemonInv, LogInv, FileOrdered
  <2> QED
    BY <1>2, <1>3, <2>1, <2>2, SectionIsPrefix
<1> QED
  BY <1>5, <1>6

(***************************************************************************)
(* The output of watch has no hole, whatever is emitted while backfill     *)
(* waits for its answer: it is a section of the timeline, and one that was *)
(* told where to begin has everything from there on.                       *)
(***************************************************************************)
THEOREM StreamsLeaveNothingOut == Spec => []StreamComplete
<1>1. TypeOK /\ DaemonInv /\ ViewsInv => StreamComplete
  BY StreamIsComplete
<1> QED
  BY <1>1, LogInvariant, TimelineTypes, ViewsInvariant, PTL

(* No step takes an event from a renderer's view. *)
LEMMA ViewKeepsStep ==
  ASSUME TypeOK, DaemonInv, ViewsInv, [Next]_vars, Renderer, Spared({"load", "torn"})
  PROVE  ToSet(view) \subseteq ToSet(view')
<1>1. KeptInv /\ LoadInv /\ LinkInv
  BY DEF ViewsInv, KeptEnv, LoadEnv, Spared
<1>2. view \in Seq(Event) /\ file \in Seq(Event) /\ FileOrdered /\ wire \in Seq(Message)
  BY DEF TypeOK, CopyOK, DaemonOK, ConnOK, DaemonInv, LogInv
<1>3. CASE UNCHANGED view
  BY <1>3
<1>4. CASE RendererEvent
  <2>1. view' = Apply(view, Head(wire).event) /\ Head(wire).event \in Event
    BY <1>2, <1>4, WireShrinks, MessageTypes DEF RendererEvent
  <2>2. ToSet(Append(view, Head(wire).event)) = ToSet(view) \cup {Head(wire).event}
    BY <1>2, <2>1, AppendSet
  <2> QED
    BY <2>1, <2>2 DEF Apply
<1>5. CASE GapReply
  <2>1. view' = ApplyAll(view, Head(wire).events) /\ Head(wire).events \in Seq(Event)
    BY <1>2, <1>5, WireShrinks, MessageTypes DEF GapReply
  <2> QED
    BY <1>2, <2>1, ApplyAllContents
<1>6. CASE LoadReply
  <2>1. view' = ApplyAll(<<>>, Head(wire).events) /\ Head(wire).events = file
    BY <1>1, <1>2, <1>6, WireShrinks DEF LoadReply, LoadInv
  <2>2. view' = file
    BY <1>2, <2>1, Rebuilt
  <2> QED
    BY <1>1, <2>2 DEF KeptInv, InFile
<1> QED
  BY <1>3, <1>4, <1>5, <1>6
     DEF Next, Emit, AppendDone, Broadcast, AppendFails, ServeTimeline, ReadTimeline, Reply,
         DaemonCrash, Restart, Connect, Disconnect, LoseLink, Receive, ReceiveHello,
         StreamEvent, BackfillReply, SyncTimelineGap, LoadTimeline, HidePane, Watch, vars, copy

(***************************************************************************)
(* A view of the renderer never loses an event that it showed: a reload    *)
(* answers with at least as much (loadTimeline builds the view anew), if   *)
(* nothing is emitted while one is under way.                              *)
(***************************************************************************)
THEOREM ViewsGrow == Spec => ViewKeeps
<1>1. TypeOK /\ DaemonInv /\ ViewsInv /\ [Next]_vars =>
        [Renderer /\ Spared({"load", "torn"}) => ToSet(view) \subseteq ToSet(view')]_vars
  BY ViewKeepsStep
<1> QED
  BY <1>1, LogInvariant, TimelineTypes, ViewsInvariant, PTL DEF Spec, ViewKeeps
=============================================================================
