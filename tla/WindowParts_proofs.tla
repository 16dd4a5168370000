------------------------- MODULE WindowParts_proofs -------------------------
(***************************************************************************)
(* Proofs about a window and its connection, for every number of           *)
(* renderers, workspaces, terminals, sessions, requests and calls: who     *)
(* watches the changes of a workspace, what goes between a terminal and    *)
(* its view, who is told of an approval and can answer it, what is kept    *)
(* of tabs, lists and palette, where the pane of a conversation is, and    *)
(* what becomes of a call.  MCServices_proofs draws the theorems about     *)
(* the system from them.                                                   *)
(***************************************************************************)
EXTENDS DiffWatch, Terminals, Approvals, Workbench, SessionView, Connection, TLAPS,
        FiniteSetTheorems, WellFoundedInduction

(* As in DaemonParts_proofs: numbers have a least one, so Min is one of them. *)
LEMMA LeastIsIn ==
  ASSUME NEW S \in SUBSET Nat, S # {}
  PROVE  Min(S) \in S /\ \A y \in S : Min(S) <= y
<1>1. PICK x \in S : \A y \in S : ~(<<y, x>> \in OpToRel(<, Nat))
  BY NatLessThanWellFounded, WFMin, Zenon
<1>2. \A y \in S : ~(y < x)
  BY <1>1 DEF OpToRel
<1>3. x \in Nat /\ \A y \in S : y \in Nat
  OBVIOUS
<1>4. \A y \in S : x <= y
  BY <1>2, <1>3
<1> QED
  BY <1>4 DEF Min

-----------------------------------------------------------------------------
(* The changes of a workspace *)

DiffRaces ==
  {"close", "restart", "quick", "rechosen", "archived", "overtaken", "baseline", "unseen"}

DiffTypes ==
  /\ active \in [Renderers -> Places \cup {NoPlace}]
  /\ subscription \in [Renderers -> Places \cup {NoPlace}]
  /\ asking \in [Renderers -> [Places -> {"no"} \cup Steps]]
  /\ subscribers \in [Places -> Nat] /\ timers \in [Places -> Nat]
  /\ moved \in [Places -> BOOLEAN] /\ shown \in [Renderers -> BOOLEAN]
  /\ fetches \in [Renderers -> Seq(Fetches)] /\ archived \subseteq Places

(* The watcher of a workspace counts its subscribers, and has its timer, or somebody who starts it. *)
WatcherCounts(w) ==
  /\ subscribers[w] = Cardinality(Readers(w)) + Cardinality(Counting(w))
  /\ timers[w] + Cardinality(Starting(w)) = IF subscribers[w] > 0 THEN 1 ELSE 0

(* A renderer asks for the workspace that is active, and is subscribed to no other meanwhile. *)
AsksForActive ==
  \A r \in Renderers, w \in Places : asking[r][w] # "no" => active[r] = w /\ subscription[r] = NoPlace

(* What a renderer watches, or asks to watch, is in the list. *)
WatchesListed ==
  \A r \in Renderers, w \in Places : subscription[r] = w \/ asking[r][w] # "no" => w \notin archived

DiffInv ==
  /\ DiffTypes /\ (\A w \in Places : WatcherCounts(w)) /\ AsksForActive /\ WatchesListed
  /\ ReadersSeeChanges

LEMMA DiffRacesBarred ==
  ASSUME Barred(DiffRaces)
  PROVE  /\ ~Allows("close") /\ ~Allows("restart") /\ ~Allows("quick")
         /\ ~Allows("rechosen") /\ ~Allows("archived") /\ ~Allows("overtaken")
         /\ ~Allows("baseline") /\ ~Allows("unseen")
BY DEF Barred, DiffRaces, Allows

(* The last diff asked for decides what is shown in the end.  These say what becomes of it. *)
Brings(q, w) == q # <<>> /\ Last(q).of = w /\ Last(q).read # "old"

LEMMA FetchAsked ==
  ASSUME NEW q \in Seq(Fetches), NEW w \in Places
  PROVE  FetchOf(q, w) \in Seq(Fetches) /\ Brings(FetchOf(q, w), w)
<1> DEFINE e == [of |-> w, read |-> "no"]
<1>1. e \in Fetches /\ FetchOf(q, w) = Append(q, e) /\ e.of = w /\ e.read = "no"
  BY DEF Fetches, FetchOf
<1> HIDE DEF e
<1>2. Append(q, e) \in Seq(Fetches) /\ Append(q, e) # <<>> /\ Last(Append(q, e)) = e
  BY <1>1 DEF Last
<1> QED
  BY <1>1, <1>2 DEF Brings

LEMMA FetchRead ==
  ASSUME NEW q \in Seq(Fetches), NEW i \in DOMAIN q
  PROVE  LET now == ReadAt(q, i) IN
         /\ now \in Seq(Fetches) /\ now # <<>> /\ q # <<>>
         /\ \A w \in Places : Brings(q, w) => Brings(now, w)
<1> DEFINE e   == [q[i] EXCEPT !.read = "current"]
           now == [q EXCEPT ![i] = e]
<1>1. q[i] \in Fetches
  OBVIOUS
<1>2. e \in Fetches /\ e.of = q[i].of /\ e.read = "current"
  BY <1>1 DEF Fetches
<1> HIDE DEF e
<1>3. now \in Seq(Fetches) /\ Len(now) = Len(q) /\ Len(q) > 0 /\ Len(q) \in Nat
  BY <1>2
<1>4. \A j \in 1..Len(q) : now[j].of = q[j].of /\ (now[j].read = "old" => q[j].read = "old")
  BY <1>2
<1>5. now # <<>> /\ q # <<>>
  BY <1>3
<1> QED
  BY <1>3, <1>4, <1>5 DEF Last, Brings, e, ReadAt

LEMMA FetchStored ==
  ASSUME NEW q \in Seq(Fetches), q # <<>>
  PROVE  /\ RemoveAt(q, 1) \in Seq(Fetches)
         /\ RemoveAt(q, 1) = <<>> => Last(q) = q[1]
         /\ \A w \in Places : Brings(q, w) /\ RemoveAt(q, 1) # <<>> => Brings(RemoveAt(q, 1), w)
<1>1. RemoveAt(q, 1) = Tail(q)
  BY DEF RemoveAt
<1>2. Tail(q) \in Seq(Fetches) /\ Len(Tail(q)) = Len(q) - 1 /\ Len(q) \in Nat /\ Len(q) > 0
  OBVIOUS
<1>3. Tail(q) = <<>> => Len(q) = 1
  BY <1>2
<1>4. Tail(q) # <<>> => Len(q) > 1 /\ Last(Tail(q)) = Last(q)
  BY <1>2 DEF Last
<1> QED
  BY <1>1, <1>2, <1>3, <1>4 DEF Last, Brings

LEMMA FetchOutdated ==
  ASSUME NEW q \in Seq(Fetches), NEW w \in Places
  PROVE  /\ NowOld(q, w) \in Seq(Fetches) /\ (NowOld(q, w) = <<>> <=> q = <<>>)
         /\ \A v \in Places : v # w /\ Brings(q, v) => Brings(NowOld(q, w), v)
<1> DEFINE now == NowOld(q, w)
<1>1. \A e \in Fetches : [e EXCEPT !.read = "old"] \in Fetches
  BY DEF Fetches
<1>2. /\ now \in Seq(Fetches) /\ Len(now) = Len(q) /\ Len(q) \in Nat
      /\ \A j \in 1..Len(q) : q[j].of # w => now[j] = q[j]
  BY <1>1 DEF NowOld
<1>3. now = <<>> <=> q = <<>>
  BY <1>2
<1> QED
  BY <1>2, <1>3 DEF Last, Brings

(* What is asked for of the workspace that a subscriber shows is what it is about to show. *)
LEMMA ShowsOrBrings ==
  ASSUME NEW r, NEW w
  PROVE  WillShow(r, w) <=> (fetches[r] = <<>> /\ shown[r]) \/ Brings(fetches[r], w)
BY DEF WillShow, Brings

(* Renderers are finitely many, so these sets can be counted. *)
LEMMA WatchersCounted ==
  ASSUME NEW w \in Places
  PROVE  /\ IsFiniteSet(Readers(w)) /\ Cardinality(Readers(w)) \in Nat
         /\ IsFiniteSet(Counting(w)) /\ Cardinality(Counting(w)) \in Nat
         /\ IsFiniteSet(Starting(w)) /\ Cardinality(Starting(w)) \in Nat
         /\ Cardinality(Starting(w)) <= Cardinality(Counting(w))
<1>1. /\ IsFiniteSet(Renderers) /\ Readers(w) \subseteq Renderers /\ Counting(w) \subseteq Renderers
      /\ Starting(w) \subseteq Counting(w)
  BY DiffWatchAssumption DEF Readers, Counting, Starting
<1>2. IsFiniteSet(Readers(w)) /\ IsFiniteSet(Counting(w))
  BY <1>1, FS_Subset
<1>3. IsFiniteSet(Starting(w)) /\ Cardinality(Starting(w)) <= Cardinality(Counting(w))
  BY <1>1, <1>2, FS_Subset
<1> QED
  BY <1>2, <1>3, FS_CardinalityType

LEMMA OneOfTwo ==
  /\ \A a, b \in Nat : a + b = 1 /\ b > 0 => a = 0 /\ b = 1
  /\ \A a, b \in Nat : a + b = 1 /\ a > 0 => b = 0 /\ a = 1
OBVIOUS

LEMMA CountOneMore ==
  ASSUME NEW S, IsFiniteSet(S), NEW x, x \notin S
  PROVE  Cardinality(S \cup {x}) = Cardinality(S) + 1
BY FS_AddElement

LEMMA CountOneFewer ==
  ASSUME NEW S, IsFiniteSet(S), NEW x \in S
  PROVE  Cardinality(S \ {x}) = Cardinality(S) - 1 /\ Cardinality(S) > 0
<1>1. Cardinality(S \ {x}) = Cardinality(S) - 1 /\ IsFiniteSet(S \ {x})
  BY FS_RemoveElement
<1> QED
  BY <1>1, FS_CardinalityType

(* What the watcher counts, in numbers. *)
LEMMA WatcherNumbers ==
  ASSUME DiffInv, NEW w \in Places
  PROVE  /\ subscribers[w] \in Nat /\ timers[w] \in Nat
         /\ Cardinality(Readers(w)) \in Nat /\ Cardinality(Counting(w)) \in Nat
         /\ Cardinality(Starting(w)) \in Nat /\ Cardinality(Starting(w)) <= Cardinality(Counting(w))
         /\ subscribers[w] = Cardinality(Readers(w)) + Cardinality(Counting(w))
         /\ subscribers[w] > 0 => timers[w] + Cardinality(Starting(w)) = 1
         /\ subscribers[w] = 0 => timers[w] = 0 /\ Cardinality(Starting(w)) = 0
<1>1. subscribers[w] \in Nat /\ timers[w] \in Nat /\ WatcherCounts(w)
  BY DEF DiffInv, DiffTypes
<1>2. /\ Cardinality(Readers(w)) \in Nat /\ Cardinality(Counting(w)) \in Nat
      /\ Cardinality(Starting(w)) \in Nat /\ Cardinality(Starting(w)) <= Cardinality(Counting(w))
  BY WatchersCounted
<1> QED
  BY <1>1, <1>2 DEF WatcherCounts

(* A renderer that is subscribed keeps the watcher alive. *)
LEMMA ReaderIsCounted ==
  ASSUME DiffInv, NEW r \in Renderers, NEW w \in Places, subscription[r] = w
  PROVE  /\ subscribers[w] > 0
         /\ subscribers[w] = 1 => timers[w] = 1 /\ Cardinality(Starting(w)) = 0
<1>1. Cardinality(Readers(w)) > 0
  BY WatchersCounted, CountOneFewer DEF Readers
<1> QED
  BY <1>1, WatcherNumbers

(* A step that leaves the sets and numbers of a workspace alone. *)
LEMMA WatcherStays ==
  ASSUME NEW w \in Places, WatcherCounts(w),
         Readers(w)' = Readers(w), Counting(w)' = Counting(w), Starting(w)' = Starting(w),
         subscribers'[w] = subscribers[w], timers'[w] = timers[w]
  PROVE  WatcherCounts(w)'
BY DEF WatcherCounts

LEMMA DropsOldKeeps ==
  ASSUME DiffInv, NEW r \in Renderers, ~Awaits(r), NEW v \in Places, subscription[r] = v,
         Unsubscribed(v), Readers(v)' = Readers(v) \ {r},
         Counting(v)' = Counting(v), Starting(v)' = Starting(v)
  PROVE  /\ WatcherCounts(v)' /\ subscribers' \in [Places -> Nat] /\ timers' \in [Places -> Nat]
         /\ \A w \in Places : w # v => subscribers'[w] = subscribers[w] /\ timers'[w] = timers[w]
         /\ Readers(v)' # {} => timers'[v] = timers[v]
<1>1. subscribers[v] > 0
  BY ReaderIsCounted
<1>c. /\ subscribers[v] \in Nat /\ timers[v] \in Nat
      /\ Cardinality(Readers(v)) \in Nat /\ Cardinality(Counting(v)) \in Nat
      /\ Cardinality(Starting(v)) \in Nat
      /\ subscribers[v] = Cardinality(Readers(v)) + Cardinality(Counting(v))
      /\ timers[v] + Cardinality(Starting(v)) = 1
      /\ Cardinality(Starting(v)) <= Cardinality(Counting(v))
  BY <1>1, WatcherNumbers
<1>2. r \in Readers(v)
  BY DEF Readers
<1>3. Cardinality(Readers(v)') = Cardinality(Readers(v)) - 1 /\ Cardinality(Readers(v)) > 0
  BY <1>2, WatchersCounted, CountOneFewer
<1>4. subscribers' = [subscribers EXCEPT ![v] = subscribers[v] - 1]
  BY <1>1 DEF Unsubscribed, Fewer, DiffInv, DiffTypes
<1>5. /\ subscribers' \in [Places -> Nat] /\ subscribers'[v] = subscribers[v] - 1
      /\ \A w \in Places : w # v => subscribers'[w] = subscribers[w]
  BY <1>1, <1>4 DEF DiffInv, DiffTypes
<1>6. CASE subscribers[v] = 1
  <2>1. Cardinality(Counting(v)) = 0 /\ Cardinality(Readers(v)') = 0
    BY <1>3, <1>6, <1>c
  <2>2. timers[v] = 1 /\ Cardinality(Starting(v)) = 0
    BY <2>1, <1>c
  <2>3. timers' = [timers EXCEPT ![v] = 0]
    BY <2>2, <1>6 DEF Unsubscribed, DiffInv, DiffTypes
  <2>4. /\ timers' \in [Places -> Nat] /\ timers'[v] = 0
        /\ \A w \in Places : w # v => timers'[w] = timers[w]
    BY <2>3 DEF DiffInv, DiffTypes
  <2>5. Readers(v)' = {}
    <3>1. IsFiniteSet(Readers(v) \ {r})
      BY WatchersCounted, FS_RemoveElement
    <3> QED
      BY <3>1, <2>1, FS_EmptySet
  <2>6. WatcherCounts(v)'
    BY <2>1, <2>2, <2>4, <1>5, <1>6 DEF WatcherCounts
  <2> QED
    BY <2>4, <2>5, <2>6, <1>5
<1>7. CASE subscribers[v] # 1
  <2>1. timers' = timers
    BY <1>7 DEF Unsubscribed
  <2>2. WatcherCounts(v)'
    BY <2>1, <1>1, <1>3, <1>5, <1>7, <1>c DEF WatcherCounts
  <2> QED
    BY <2>1, <2>2, <1>5 DEF DiffInv, DiffTypes
<1> QED
  BY <1>6, <1>7

LEMMA ChooseKeeps ==
  ASSUME DiffInv, Barred(DiffRaces), NEW r \in Renderers, NEW w \in Places, Choose(r, w)
  PROVE  DiffInv'
<1> USE DEF DiffInv, DiffTypes, Steps
<1>1. ~Awaits(r) /\ \A v \in Places : asking[r][v] = "no"
  BY DiffRacesBarred DEF Choose, Awaits
<1>2. /\ active' = [active EXCEPT ![r] = w] /\ subscription' = [subscription EXCEPT ![r] = NoPlace]
      /\ asking' = [asking EXCEPT ![r][w] = "sent"] /\ shown' = [shown EXCEPT ![r] = FALSE]
      /\ UNCHANGED <<moved, fetches, archived>> /\ DropsOld(r) /\ w \notin archived
  BY DiffRacesBarred DEF Choose, Sets
<1>3. \A v \in Places : Readers(v)' = Readers(v) \ {r}
  BY <1>2, DiffWatchAssumption DEF Readers
<1>4. \A v \in Places : Counting(v)' = Counting(v) /\ Starting(v)' = Starting(v)
  BY <1>1, <1>2 DEF Counting, Starting
<1>5. AsksForActive' /\ WatchesListed'
  BY <1>1, <1>2, DiffWatchAssumption DEF AsksForActive, WatchesListed
<1>6. ASSUME \A q \in Renderers, u \in Places : subscription'[q] = u => timers'[u] = timers[u]
      PROVE  ReadersSeeChanges'
  <2>1. \A q \in Renderers : subscription'[q] # NoPlace =>
          q # r /\ subscription'[q] = subscription[q] /\ shown'[q] = shown[q] /\ active'[q] = active[q]
    BY <1>2
  <2>2. \A q \in Renderers, u \in Places :
          q # r /\ shown'[q] = shown[q] /\ WillShow(q, u) => WillShow(q, u)'
    BY <1>2 DEF WillShow
  <2> QED
    BY <1>2, <1>6, <2>1, <2>2, DiffWatchAssumption DEF ReadersSeeChanges, Notices
<1>7. CASE subscription[r] = NoPlace
  <2>1. UNCHANGED <<subscribers, timers>>
    BY <1>2, <1>7 DEF DropsOld
  <2>2. \A v \in Places : Readers(v)' = Readers(v)
    BY <1>3, <1>7, DiffWatchAssumption DEF Readers
  <2>3. \A v \in Places : WatcherCounts(v)'
    BY <2>1, <2>2, <1>4, WatcherStays
  <2> QED
    BY <2>1, <2>3, <1>2, <1>5, <1>6
<1>8. CASE subscription[r] # NoPlace
  <2>1. PICK v \in Places : subscription[r] = v
    BY <1>8
  <2>2. Unsubscribed(v)
    BY <1>2, <1>8, <2>1 DEF DropsOld
  <2>3. /\ WatcherCounts(v)' /\ subscribers' \in [Places -> Nat] /\ timers' \in [Places -> Nat]
        /\ \A u \in Places : u # v => subscribers'[u] = subscribers[u] /\ timers'[u] = timers[u]
        /\ Readers(v)' # {} => timers'[v] = timers[v]
    <3> HIDE DEF DiffInv, DiffTypes
    <3>1. Readers(v)' = Readers(v) \ {r} /\ Counting(v)' = Counting(v) /\ Starting(v)' = Starting(v)
      BY <1>3, <1>4
    <3> QED
      BY <3>1, <2>1, <2>2, <1>1, DropsOldKeeps
  <2>4. \A u \in Places : u # v => Readers(u)' = Readers(u)
    BY <1>3, <2>1 DEF Readers
  <2>5. \A u \in Places : WatcherCounts(u)'
    <3>1. \A u \in Places : u # v => WatcherCounts(u)'
      BY <2>3, <2>4, <1>4, WatcherStays
    <3> QED
      BY <3>1, <2>3, Zenon
  <2>6. \A q \in Renderers, u \in Places : subscription'[q] = u => timers'[u] = timers[u]
    BY <2>3 DEF Readers
  <2> QED
    BY <2>3, <2>5, <2>6, <1>2, <1>5, <1>6
<1> QED
  BY <1>7, <1>8

LEMMA SubscribedKeeps ==
  ASSUME DiffInv, NEW r \in Renderers, NEW w \in Places, Subscribed(r, w)
  PROVE  DiffInv'
<1> USE DEF DiffInv, DiffTypes, Steps
<1> DEFINE to == IF subscribers[w] = 0 THEN "starting" ELSE "started"
<1>1. /\ asking[r][w] = "sent" /\ subscribers' = [subscribers EXCEPT ![w] = @ + 1]
      /\ asking' = [asking EXCEPT ![r][w] = to]
      /\ UNCHANGED <<active, subscription, timers, moved, fetches, shown, archived>>
  BY DEF Subscribed, Sets
<1>2. DiffTypes' /\ AsksForActive' /\ WatchesListed' /\ ReadersSeeChanges'
  BY <1>1 DEF AsksForActive, WatchesListed, ReadersSeeChanges, Notices, WillShow
<1>3. \A v \in Places : Readers(v)' = Readers(v)
  BY <1>1 DEF Readers
<1>4. \A v \in Places : v # w => WatcherCounts(v)'
  <2>1. \A v \in Places : v # w => Counting(v)' = Counting(v) /\ Starting(v)' = Starting(v)
    BY <1>1 DEF Counting, Starting
  <2> QED
    BY <2>1, <1>1, <1>3, WatcherStays
<1>5. Counting(w)' = Counting(w) \cup {r} /\ r \notin Counting(w)
  BY <1>1 DEF Counting
<1>6. Cardinality(Counting(w)') = Cardinality(Counting(w)) + 1
  BY <1>5, WatchersCounted, CountOneMore
<1>7. WatcherCounts(w)'
  <2>1. CASE subscribers[w] = 0
    <3>1. Starting(w)' = Starting(w) \cup {r} /\ r \notin Starting(w)
      BY <1>1, <2>1 DEF Starting
    <3>2. Cardinality(Starting(w)') = Cardinality(Starting(w)) + 1
      BY <3>1, WatchersCounted, CountOneMore
    <3> QED
      BY <3>2, <2>1, <1>1, <1>3, <1>6, WatchersCounted DEF WatcherCounts
  <2>2. CASE subscribers[w] # 0
    <3>1. Starting(w)' = Starting(w)
      BY <1>1, <2>2 DEF Starting
    <3> QED
      BY <3>1, <2>2, <1>1, <1>3, <1>6, WatchersCounted DEF WatcherCounts
  <2> QED
    BY <2>1, <2>2
<1> QED
  BY <1>2, <1>4, <1>7

LEMMA StartedKeeps ==
  ASSUME DiffInv, NEW r \in Renderers, NEW w \in Places, Started(r, w)
  PROVE  DiffInv'
<1> USE DEF DiffInv, DiffTypes, Steps
<1>1. /\ asking[r][w] = "starting" /\ timers' = [timers EXCEPT ![w] = @ + 1]
      /\ moved' = [moved EXCEPT ![w] = FALSE]
      /\ asking' = [asking EXCEPT ![r][w] = "started"]
      /\ UNCHANGED <<active, subscription, subscribers, fetches, shown, archived>>
  BY DEF Started, Sets
<1>2. DiffTypes' /\ AsksForActive' /\ WatchesListed'
  BY <1>1 DEF AsksForActive, WatchesListed
<1>3. \A v \in Places : Readers(v)' = Readers(v) /\ Counting(v)' = Counting(v)
  BY <1>1 DEF Readers, Counting
<1>4. \A v \in Places : v # w => WatcherCounts(v)'
  <2>1. \A v \in Places : v # w => Starting(v)' = Starting(v)
    BY <1>1 DEF Starting
  <2> QED
    BY <2>1, <1>1, <1>3, WatcherStays
<1>5. Starting(w)' = Starting(w) \ {r} /\ r \in Starting(w)
  BY <1>1 DEF Starting
<1>6. Cardinality(Starting(w)') = Cardinality(Starting(w)) - 1 /\ Cardinality(Starting(w)) > 0
  BY <1>5, WatchersCounted, CountOneFewer
<1>c. /\ subscribers[w] \in Nat /\ timers[w] \in Nat
      /\ Cardinality(Starting(w)) \in Nat
      /\ subscribers[w] = Cardinality(Readers(w)) + Cardinality(Counting(w))
      /\ subscribers[w] > 0 => timers[w] + Cardinality(Starting(w)) = 1
      /\ subscribers[w] = 0 => timers[w] = 0 /\ Cardinality(Starting(w)) = 0
  BY WatcherNumbers
<1>7. WatcherCounts(w)'
  BY <1>1, <1>3, <1>6, <1>c DEF WatcherCounts
<1>8. ReadersSeeChanges'
  <2>1. timers[w] = 0
    <3> HIDE DEF DiffInv, DiffTypes
    <3> QED
      BY <1>6, <1>c, OneOfTwo
  <2>2. \A q \in Renderers, u \in Places :
          (WillShow(q, u) => WillShow(q, u)') /\ (Notices(u) => Notices(u)')
    BY <2>1, <1>1 DEF WillShow, Notices
  <2> QED
    BY <2>2, <1>1 DEF ReadersSeeChanges
<1> QED
  BY <1>2, <1>4, <1>7, <1>8

(* A diff is asked for, read or stored: nothing else changes. *)
FetchesOnly ==
  UNCHANGED <<active, subscription, asking, subscribers, timers, moved, archived>>

LEMMA FetchesKeep ==
  ASSUME DiffInv, FetchesOnly, fetches' \in [Renderers -> Seq(Fetches)],
         shown' \in [Renderers -> BOOLEAN],
         \A r \in Renderers, w \in Places :
           subscription[r] = w /\ WillShow(r, w) => Notices(w) \/ WillShow(r, w)'
  PROVE  DiffInv'
<1> USE DEF DiffInv, DiffTypes, FetchesOnly
<1>1. \A w \in Places : WatcherCounts(w)'
  BY WatcherStays DEF Readers, Counting, Starting
<1>2. ReadersSeeChanges'
  BY DEF ReadersSeeChanges, Notices
<1> QED
  BY <1>1, <1>2 DEF AsksForActive, WatchesListed

LEMMA DiffAnsweredKeeps ==
  ASSUME DiffInv, NEW r \in Renderers, NEW w \in Places, Answered(r, w)
  PROVE  DiffInv'
<1> USE DEF DiffInv, DiffTypes, Steps
<1>1. /\ asking[r][w] = "started" /\ asking' = [asking EXCEPT ![r][w] = "no"]
      /\ subscription' = [subscription EXCEPT ![r] = w]
      /\ fetches' = [fetches EXCEPT ![r] = FetchOf(fetches[r], active[r])]
      /\ UNCHANGED <<active, subscribers, timers, moved, shown, archived>>
  BY DEF Answered, Sets
<1>2. /\ subscription[r] = NoPlace /\ active[r] = w /\ w \notin archived
      /\ \A v \in Places : v # w => asking[r][v] = "no"
  BY <1>1 DEF AsksForActive, WatchesListed
<1>3. fetches' \in [Renderers -> Seq(Fetches)] /\ Brings(fetches'[r], w)
  BY <1>1, <1>2, FetchAsked
<1>4. AsksForActive' /\ WatchesListed'
  BY <1>1, <1>2, DiffWatchAssumption DEF AsksForActive, WatchesListed
<1>5. ReadersSeeChanges'
  <2>1. WillShow(r, w)'
    BY <1>3 DEF WillShow, Brings
  <2>2. \A q \in Renderers, u \in Places : q # r /\ WillShow(q, u) => WillShow(q, u)'
    BY <1>1 DEF WillShow
  <2> QED
    BY <1>1, <1>2, <2>1, <2>2, DiffWatchAssumption DEF ReadersSeeChanges, Notices
<1>6. \A v \in Places : v # w => WatcherCounts(v)'
  <2>1. \A v \in Places : v # w =>
          Readers(v)' = Readers(v) /\ Counting(v)' = Counting(v) /\ Starting(v)' = Starting(v)
    BY <1>1, <1>2, DiffWatchAssumption DEF Readers, Counting, Starting
  <2> QED
    BY <2>1, <1>1, WatcherStays
<1>7. /\ Readers(w)' = Readers(w) \cup {r} /\ r \notin Readers(w)
      /\ Counting(w)' = Counting(w) \ {r} /\ r \in Counting(w)
      /\ Starting(w)' = Starting(w)
  BY <1>1, <1>2, DiffWatchAssumption DEF Readers, Counting, Starting
<1>8. /\ Cardinality(Readers(w)') = Cardinality(Readers(w)) + 1
      /\ Cardinality(Counting(w)') = Cardinality(Counting(w)) - 1
  BY <1>7, WatchersCounted, CountOneMore, CountOneFewer
<1>9. WatcherCounts(w)'
  BY <1>1, <1>7, <1>8, WatchersCounted DEF WatcherCounts
<1> QED
  BY <1>1, <1>3, <1>4, <1>5, <1>6, <1>9

LEMMA OpenDiffKeeps ==
  ASSUME DiffInv, NEW r \in Renderers, OpenDiff(r)
  PROVE  DiffInv'
<1> USE DEF DiffInv, DiffTypes
<1>1. /\ active[r] \in Places /\ fetches' = [fetches EXCEPT ![r] = FetchOf(fetches[r], active[r])]
      /\ FetchesOnly /\ shown' = shown
  BY DEF OpenDiff, FetchesOnly
<1>2. fetches' \in [Renderers -> Seq(Fetches)] /\ Brings(fetches'[r], active[r])
  BY <1>1, FetchAsked
<1>3. ASSUME NEW q \in Renderers, NEW w \in Places, subscription[q] = w, WillShow(q, w)
      PROVE  WillShow(q, w)'
  <2>1. CASE q = r
    BY <1>2, <1>3, <2>1, DiffWatchAssumption DEF ReadersSeeChanges, Brings, WillShow
  <2>2. CASE q # r
    BY <1>1, <1>3, <2>2 DEF WillShow
  <2> QED
    BY <2>1, <2>2
<1> HIDE DEF DiffInv, DiffTypes
<1>4. shown' \in [Renderers -> BOOLEAN]
  BY <1>1 DEF DiffInv, DiffTypes
<1> QED
  BY <1>1, <1>2, <1>3, <1>4, FetchesKeep

LEMMA ReadsDiffKeeps ==
  ASSUME DiffInv, NEW r \in Renderers, NEW i \in DOMAIN fetches[r], ReadsDiff(r, i)
  PROVE  DiffInv'
<1> DEFINE now == ReadAt(fetches[r], i)
<1>1. fetches \in [Renderers -> Seq(Fetches)] /\ shown \in [Renderers -> BOOLEAN]
  BY DEF DiffInv, DiffTypes
<1>2. /\ fetches' = [fetches EXCEPT ![r] = now] /\ FetchesOnly /\ shown' = shown
  BY <1>1 DEF ReadsDiff, FetchesOnly
<1>3. /\ now \in Seq(Fetches) /\ now # <<>> /\ fetches[r] # <<>>
      /\ \A w \in Places : Brings(fetches[r], w) => Brings(now, w)
  <2> HIDE DEF now
  <2>1. fetches[r] \in Seq(Fetches)
    BY <1>1
  <2> QED
    BY <2>1, FetchRead DEF now
<1> HIDE DEF now
<1>4. fetches' \in [Renderers -> Seq(Fetches)]
  BY <1>1, <1>2, <1>3
<1>5. ASSUME NEW q \in Renderers, NEW w \in Places, subscription[q] = w, WillShow(q, w)
      PROVE  WillShow(q, w)'
  <2>1. CASE q = r
    BY <1>1, <1>2, <1>3, <1>5, <2>1 DEF Brings, WillShow
  <2>2. CASE q # r
    BY <1>1, <1>2, <1>5, <2>2 DEF WillShow
  <2> QED
    BY <2>1, <2>2
<1> QED
  BY <1>1, <1>2, <1>4, <1>5, FetchesKeep

LEMMA StoresDiffKeeps ==
  ASSUME DiffInv, Barred(DiffRaces), NEW r \in Renderers, NEW i \in DOMAIN fetches[r],
         StoresDiff(r, i)
  PROVE  DiffInv'
<1> DEFINE q   == fetches[r]
           now == RemoveAt(q, 1)
<1>1. /\ fetches \in [Renderers -> Seq(Fetches)] /\ shown \in [Renderers -> BOOLEAN]
      /\ q \in Seq(Fetches) /\ q # <<>>
  BY DEF DiffInv, DiffTypes
<1>2. /\ fetches' = [fetches EXCEPT ![r] = now] /\ FetchesOnly
      /\ shown' = [shown EXCEPT ![r] = q[1] = [of |-> active[r], read |-> "current"]]
      /\ q[1].read # "no"
  BY DiffRacesBarred DEF StoresDiff, FetchesOnly
<1>3. /\ now \in Seq(Fetches) /\ (now = <<>> => Last(q) = q[1])
      /\ \A w \in Places : Brings(q, w) /\ now # <<>> => Brings(now, w)
  BY <1>1, FetchStored
<1>4. q[1] \in Fetches
  BY <1>1
<1> HIDE DEF now
<1>5. fetches' \in [Renderers -> Seq(Fetches)] /\ shown' \in [Renderers -> BOOLEAN]
  BY <1>1, <1>2, <1>3
<1>6. ASSUME NEW p \in Renderers, NEW w \in Places, subscription[p] = w, WillShow(p, w)
      PROVE  WillShow(p, w)'
  <2>1. CASE p = r
    <3>1. Brings(q, w) /\ active[r] = w
      BY <1>1, <1>6, <2>1, DiffWatchAssumption DEF DiffInv, ReadersSeeChanges, Brings, WillShow
    <3>2. CASE now = <<>>
      <4>1. q[1].of = w /\ q[1].read = "current"
        BY <1>2, <1>3, <1>4, <3>1, <3>2 DEF Brings, Fetches
      <4>2. q[1] = [of |-> active[r], read |-> "current"]
        BY <4>1, <1>4, <3>1 DEF Fetches
      <4> QED
        BY <4>2, <1>1, <1>2, <2>1, <3>2 DEF WillShow
    <3>3. CASE now # <<>>
      BY <1>1, <1>2, <1>3, <2>1, <3>1, <3>3 DEF WillShow, Brings
    <3> QED
      BY <3>2, <3>3
  <2>2. CASE p # r
    BY <1>1, <1>2, <1>6, <2>2 DEF WillShow
  <2> QED
    BY <2>1, <2>2
<1> QED
  BY <1>2, <1>5, <1>6, FetchesKeep

(* A change, and the poll that notices it. *)
LEMMA EditedKeeps ==
  ASSUME DiffInv, Barred(DiffRaces), NEW w \in Places, Edited(w)
  PROVE  DiffInv'
<1> USE DEF DiffInv, DiffTypes
<1>1. /\ Starting(w) = {} \/ Readers(w) = {}
      /\ moved' = [moved EXCEPT ![w] = TRUE]
      /\ shown' = [r \in Renderers |-> shown[r] /\ active[r] # w]
      /\ fetches' = [r \in Renderers |-> NowOld(fetches[r], w)]
      /\ UNCHANGED <<active, subscription, asking, subscribers, timers, archived>>
  BY DiffRacesBarred DEF Edited
<1>2. Readers(w) # {} => timers[w] > 0
  <2> SUFFICES ASSUME NEW r \in Readers(w)
               PROVE  timers[w] > 0
    OBVIOUS
  <2>1. subscribers[w] > 0 /\ Cardinality(Starting(w)) = 0
    BY <1>1, ReaderIsCounted, FS_EmptySet DEF Readers
  <2> QED
    BY <2>1 DEF WatcherCounts
<1>3. fetches' \in [Renderers -> Seq(Fetches)]
  BY <1>1, FetchOutdated
<1>4. ReadersSeeChanges'
  <2>1. \A r \in Renderers : subscription[r] = w => Notices(w)'
    BY <1>1, <1>2 DEF Notices, Readers
  <2>2. \A v \in Places : v # w /\ Notices(v) => Notices(v)'
    BY <1>1 DEF Notices
  <2>3. \A r \in Renderers, v \in Places :
          v # w /\ subscription[r] = v /\ WillShow(r, v) => WillShow(r, v)'
    <3> SUFFICES ASSUME NEW r \in Renderers, NEW v \in Places, v # w, subscription[r] = v,
                        WillShow(r, v)
                 PROVE  WillShow(r, v)'
      OBVIOUS
    <3>1. active[r] = v
      BY DiffWatchAssumption DEF ReadersSeeChanges
    <3>2. /\ (fetches'[r] = <<>> <=> fetches[r] = <<>>)
          /\ Brings(fetches[r], v) => Brings(fetches'[r], v)
      BY <1>1, FetchOutdated
    <3> QED
      BY <1>1, <3>1, <3>2 DEF WillShow, Brings
  <2> QED
    BY <1>1, <2>1, <2>2, <2>3 DEF ReadersSeeChanges
<1>5. \A v \in Places : WatcherCounts(v)'
  BY <1>1, WatcherStays DEF Readers, Counting, Starting
<1> QED
  BY <1>1, <1>3, <1>4, <1>5 DEF AsksForActive, WatchesListed

LEMMA TickKeeps ==
  ASSUME DiffInv, NEW w \in Places, Tick(w)
  PROVE  DiffInv'
<1> USE DEF DiffInv, DiffTypes
<1>1. /\ moved' = [moved EXCEPT ![w] = FALSE]
      /\ fetches' = [r \in Renderers |-> IF active[r] = w THEN FetchOf(fetches[r], w) ELSE fetches[r]]
      /\ UNCHANGED <<active, subscription, asking, subscribers, timers, shown, archived>>
  BY DEF Tick
<1>2. /\ fetches' \in [Renderers -> Seq(Fetches)]
      /\ \A r \in Renderers : active[r] = w => Brings(fetches'[r], w)
  BY <1>1, FetchAsked
<1>3. ReadersSeeChanges'
  <2>1. \A r \in Renderers : subscription[r] = w => WillShow(r, w)'
    BY <1>2, DiffWatchAssumption DEF ReadersSeeChanges, WillShow, Brings
  <2>2. \A v \in Places : v # w /\ Notices(v) => Notices(v)'
    BY <1>1 DEF Notices
  <2>3. \A r \in Renderers, v \in Places :
          v # w /\ subscription[r] = v /\ WillShow(r, v) => WillShow(r, v)'
    BY <1>1, DiffWatchAssumption DEF ReadersSeeChanges, WillShow
  <2> QED
    BY <1>1, <2>1, <2>2, <2>3 DEF ReadersSeeChanges
<1>4. \A v \in Places : WatcherCounts(v)'
  BY <1>1, WatcherStays DEF Readers, Counting, Starting
<1> QED
  BY <1>1, <1>2, <1>3, <1>4 DEF AsksForActive, WatchesListed

LEMMA ArchiveWatchedKeeps ==
  ASSUME DiffInv, Barred(DiffRaces), NEW w \in Places, ArchiveWatched(w)
  PROVE  DiffInv'
<1> USE DEF DiffInv, DiffTypes
<1>1. /\ \A r \in Renderers : subscription[r] # w /\ asking[r][w] = "no"
      /\ archived' = archived \cup {w}
      /\ UNCHANGED <<active, subscription, asking, subscribers, timers, moved, fetches, shown>>
  BY DiffRacesBarred DEF ArchiveWatched
<1>2. WatchesListed'
  BY <1>1 DEF WatchesListed
<1>3. AsksForActive' /\ ReadersSeeChanges'
  BY <1>1 DEF AsksForActive, ReadersSeeChanges, Notices, WillShow
<1>4. \A v \in Places : WatcherCounts(v)'
  BY <1>1, WatcherStays DEF Readers, Counting, Starting
<1> QED
  BY <1>1, <1>2, <1>3, <1>4

(* Only a renderer that watches nothing lands on another workspace. *)
LEMMA RefreshWorkspacesKeeps ==
  ASSUME DiffInv, NEW r \in Renderers, NEW w \in Places \cup {NoPlace}, RefreshWorkspaces(r, w)
  PROVE  DiffInv'
<1> USE DEF DiffInv, DiffTypes
<1>1. /\ active' = [active EXCEPT ![r] = w] /\ shown' = [shown EXCEPT ![r] = FALSE]
      /\ UNCHANGED <<subscription, asking, subscribers, timers, moved, fetches, archived>>
      /\ active[r] \notin Places \ archived
  BY DEF RefreshWorkspaces, LandsOn
<1>2. subscription[r] = NoPlace /\ \A v \in Places : asking[r][v] = "no"
  BY <1>1, DiffWatchAssumption DEF ReadersSeeChanges, AsksForActive, WatchesListed
<1>3. AsksForActive' /\ WatchesListed'
  BY <1>1, <1>2 DEF AsksForActive, WatchesListed
<1>4. ReadersSeeChanges'
  <2>1. \A q \in Renderers, u \in Places : q # r /\ WillShow(q, u) => WillShow(q, u)'
    BY <1>1 DEF WillShow
  <2> QED
    BY <1>1, <1>2, <2>1, DiffWatchAssumption DEF ReadersSeeChanges, Notices
<1>5. \A v \in Places : WatcherCounts(v)'
  BY <1>1, WatcherStays DEF Readers, Counting, Starting
<1> QED
  BY <1>1, <1>3, <1>4, <1>5

LEMMA ReloadKeeps ==
  ASSUME DiffInv, Barred(DiffRaces), NEW r \in Renderers, NEW w \in Places \cup {NoPlace},
         Reload(r, w)
  PROVE  DiffInv'
<1> USE DEF DiffInv, DiffTypes, Steps
<1>1. subscription[r] = NoPlace /\ \A v \in Places : asking[r][v] = "no"
  BY DiffRacesBarred DEF Reload, Awaits
<1>2. /\ active' = [active EXCEPT ![r] = w] /\ (w = NoPlace \/ w \in Places \ archived)
      /\ asking' = [asking EXCEPT ![r] = [v \in Places |-> IF v = w THEN "sent" ELSE "no"]]
      /\ subscription' = subscription /\ shown' = [shown EXCEPT ![r] = FALSE]
      /\ fetches' = [fetches EXCEPT ![r] = <<>>]
      /\ UNCHANGED <<subscribers, timers, moved, archived>>
  BY <1>1 DEF Reload, LandsOn
<1>3. fetches' \in [Renderers -> Seq(Fetches)]
  BY <1>2
<1>4. AsksForActive' /\ WatchesListed'
  BY <1>1, <1>2, DiffWatchAssumption DEF AsksForActive, WatchesListed
<1>5. ReadersSeeChanges'
  <2>1. \A q \in Renderers, u \in Places : q # r /\ WillShow(q, u) => WillShow(q, u)'
    BY <1>2 DEF WillShow
  <2> QED
    BY <1>1, <1>2, <2>1, DiffWatchAssumption DEF ReadersSeeChanges, Notices
<1>6. \A v \in Places :
        Readers(v)' = Readers(v) /\ Counting(v)' = Counting(v) /\ Starting(v)' = Starting(v)
  BY <1>1, <1>2 DEF Readers, Counting, Starting
<1>7. \A v \in Places : WatcherCounts(v)'
  BY <1>2, <1>6, WatcherStays
<1> QED
  BY <1>2, <1>3, <1>4, <1>5, <1>7

LEMMA LosesConnectionKeeps ==
  ASSUME DiffInv, Barred(DiffRaces), NEW r \in Renderers, LosesConnection(r)
  PROVE  DiffInv'
<1> USE DEF DiffInv, DiffTypes
<1>1. subscription[r] = NoPlace /\ \A v \in Places : asking[r][v] = "no"
  BY DiffRacesBarred DEF LosesConnection, Awaits
<1>2. /\ asking' = asking /\ fetches' = [fetches EXCEPT ![r] = <<>>]
      /\ FetchesOnly /\ shown' = shown
  BY <1>1 DEF LosesConnection, FetchesOnly
<1>3. fetches' \in [Renderers -> Seq(Fetches)] /\ shown' \in [Renderers -> BOOLEAN]
  BY <1>2
<1>4. \A q \in Renderers, w \in Places : subscription[q] = w /\ WillShow(q, w) => WillShow(q, w)'
  BY <1>1, <1>2, DiffWatchAssumption DEF WillShow
<1> HIDE DEF DiffInv, DiffTypes
<1> QED
  BY <1>2, <1>3, <1>4, FetchesKeep

(* Nobody is subscribed when the daemon restarts. *)
LEMMA DaemonRestartsKeeps ==
  ASSUME DiffInv, Barred(DiffRaces), DaemonRestarts
  PROVE  DiffInv'
<1> USE DEF DiffInv, DiffTypes, Steps
<1>1. /\ \A r \in Renderers : subscription[r] = NoPlace
      /\ subscribers' = [w \in Places |-> 0] /\ timers' = [w \in Places |-> 0]
      /\ asking' = [r \in Renderers |-> [w \in Places |-> "no"]]
      /\ fetches' = [r \in Renderers |-> <<>>]
      /\ UNCHANGED <<active, subscription, moved, shown, archived>>
  BY DiffRacesBarred DEF DaemonRestarts
<1>2. DiffTypes' /\ AsksForActive' /\ WatchesListed' /\ ReadersSeeChanges'
  BY <1>1, DiffWatchAssumption DEF AsksForActive, WatchesListed, ReadersSeeChanges
<1>3. \A w \in Places : Readers(w)' = {} /\ Counting(w)' = {} /\ Starting(w)' = {}
  BY <1>1, DiffWatchAssumption DEF Readers, Counting, Starting
<1> QED
  <2>1. \A w \in Places : WatcherCounts(w)'
    <3> TAKE w \in Places
    <3>1. /\ Cardinality(Readers(w)') = 0 /\ Cardinality(Counting(w)') = 0
          /\ Cardinality(Starting(w)') = 0 /\ subscribers'[w] = 0 /\ timers'[w] = 0
      BY <1>1, <1>3, FS_EmptySet
    <3> QED
      BY <3>1 DEF WatcherCounts
  <2> QED
    BY <2>1, <1>2

(* A renderer asks for what it starts with, and nobody is counted before a request is handled. *)
LEMMA DiffStarts ==
  ASSUME DiffInit
  PROVE  DiffInv
<1>1. active \in [Renderers -> Places \cup {NoPlace}]
  <2> DEFINE S == [Renderers -> Places \cup {NoPlace}]
  <2>1. [r \in Renderers |-> NoPlace] \in S
    OBVIOUS
  <2>2. (CHOOSE x \in S : TRUE) \in S
    BY <2>1
  <2>3. active \in Starts("diffs", S)
    BY DEF DiffInit
  <2> HIDE DEF S
  <2>4. active \in S
    BY <2>2, <2>3 DEF Starts
  <2> QED
    BY <2>4 DEF S
<1>2. /\ subscription = [r \in Renderers |-> NoPlace]
      /\ asking = [r \in Renderers |-> [w \in Places |-> IF active[r] = w THEN "sent" ELSE "no"]]
      /\ subscribers = [w \in Places |-> 0] /\ timers = [w \in Places |-> 0]
      /\ moved = [w \in Places |-> FALSE] /\ fetches = [r \in Renderers |-> <<>>]
      /\ shown = [r \in Renderers |-> FALSE] /\ archived = {}
  BY DEF DiffInit
<1>3. asking \in [Renderers -> [Places -> {"no"} \cup Steps]]
  BY <1>2 DEF Steps
<1>4. fetches \in [Renderers -> Seq(Fetches)]
  BY <1>2
<1>5. DiffTypes
  BY <1>1, <1>2, <1>3, <1>4 DEF DiffTypes
<1>6. \A r \in Renderers, w \in Places :
        subscription[r] # w /\ asking[r][w] \in {"no", "sent"}
        /\ (asking[r][w] # "no" => active[r] = w /\ subscription[r] = NoPlace)
  BY <1>2, DiffWatchAssumption
<1>7. AsksForActive /\ WatchesListed /\ ReadersSeeChanges
  BY <1>2, <1>6 DEF AsksForActive, WatchesListed, ReadersSeeChanges
<1>8. \A w \in Places : Readers(w) = {} /\ Counting(w) = {} /\ Starting(w) = {}
  BY <1>6 DEF Readers, Counting, Starting
<1>9. \A w \in Places : WatcherCounts(w)
  <2> TAKE w \in Places
  <2>1. /\ Cardinality(Readers(w)) = 0 /\ Cardinality(Counting(w)) = 0
        /\ Cardinality(Starting(w)) = 0 /\ subscribers[w] = 0 /\ timers[w] = 0
    BY <1>2, <1>8, FS_EmptySet
  <2> QED
    BY <2>1 DEF WatcherCounts
<1> QED
  BY <1>5, <1>7, <1>9 DEF DiffInv

LEMMA DiffStep ==
  ASSUME DiffInv, Barred(DiffRaces), DiffNext \/ UNCHANGED diffVars
  PROVE  DiffInv'
<1>1. CASE DiffNext
  BY <1>1, ChooseKeeps, SubscribedKeeps, StartedKeeps, DiffAnsweredKeeps, OpenDiffKeeps,
     ReadsDiffKeeps, StoresDiffKeeps, EditedKeeps, TickKeeps, ArchiveWatchedKeeps,
     RefreshWorkspacesKeeps, ReloadKeeps, LosesConnectionKeeps, DaemonRestartsKeeps DEF DiffNext
<1>2. CASE UNCHANGED diffVars
  <2>1. /\ DiffTypes' /\ AsksForActive' /\ WatchesListed' /\ ReadersSeeChanges'
        /\ UNCHANGED <<subscription, asking, subscribers, timers>>
    BY <1>2 DEF diffVars, DiffInv, DiffTypes, AsksForActive, WatchesListed, ReadersSeeChanges,
                Notices, WillShow
  <2>2. \A w \in Places : WatcherCounts(w)'
    BY <2>1, WatcherStays DEF DiffInv, Readers, Counting, Starting
  <2> QED
    BY <2>1, <2>2 DEF DiffInv
<1> QED
  BY <1>1, <1>2

LEMMA DiffIsSound ==
  ASSUME DiffInv
  PROVE  DiffsWatched
BY DEF DiffInv, WatcherCounts, DiffsWatched

-----------------------------------------------------------------------------
(* Terminals and their views *)

ServerFrames ==
  [type : {"attach"}, term : Terms, mount : Nat] \cup [type : {"detach"}, term : Terms]
    \cup [type : {"input"}, term : Terms, slot : Slots]
ClientFrames ==
  [type : {"attached"}, term : Terms, mount : Nat, slot : Slots, from : Nat, to : Nat]
    \cup [type : {"output"}, term : Terms, slot : Slots, chunk : Nat]
    \cup [type : {"failed"}, term : Terms, mount : Nat]
SlotOrNone == Slots \cup {NoSlot}

TerminalTypes ==
  /\ terminals \in {Terms, {}} /\ produced \in [Terms -> Nat]
  /\ slotOf \in [Terms -> SlotOrNone]
  /\ connected \in BOOLEAN
  /\ toServer \in Seq(ServerFrames) /\ toClient \in Seq(ClientFrames)
  /\ tabs \subseteq Terms
  /\ view \in [Terms -> [mount : Nat, slot : SlotOrNone, from : Nat, to : Nat]]

(* What is in the pipes for a terminal. *)
AttachAt(i, t)   == toServer[i].type = "attach" /\ toServer[i].term = t
DetachAt(i, t)   == toServer[i].type = "detach" /\ toServer[i].term = t
AttachedAt(i, t) == toClient[i].type = "attached" /\ toClient[i].term = t

(* No request is under way that changes the slot of a terminal. *)
SlotStays(t) == \A i \in 1..Len(toServer) : ~AttachAt(i, t) /\ ~DetachAt(i, t)

(* From place j on a pipe has the output of a terminal beyond the base, and nothing else in its slot. *)
Fed(pipe, t, slot, made, j, base) ==
  LET Out(i) == i > j /\ pipe[i].type = "output" IN
  /\ base <= made
  /\ \A i \in 1..Len(pipe) : Out(i) => (pipe[i].slot = slot <=> pipe[i].term = t)
  /\ \A i \in 1..Len(pipe) : Out(i) /\ pipe[i].term = t => base < pipe[i].chunk /\ pipe[i].chunk <= made
  /\ \A i, k \in 1..Len(pipe) : i < k /\ Out(i) /\ Out(k) /\ pipe[i].term = t /\ pipe[k].term = t =>
       pipe[i].chunk < pipe[k].chunk
  /\ \A c \in Nat : base < c /\ c <= made =>
       \E i \in 1..Len(pipe) : Out(i) /\ pipe[i].term = t /\ pipe[i].chunk = c

(* Without connection, or without terminals, nothing is under way. *)
NobodyAttached == \A t \in Terms : slotOf[t] = NoSlot /\ view[t].slot = NoSlot
NothingFed ==
  /\ ~connected => toServer = <<>> /\ toClient = <<>> /\ NobodyAttached
  /\ terminals = {} => /\ NobodyAttached
                       /\ \A i \in 1..Len(toClient) : toClient[i].type = "failed"
                       /\ \A i \in 1..Len(toServer) : toServer[i].type # "input"
  /\ terminals # {} => \A i \in 1..Len(toClient) : toClient[i].type # "failed"
  /\ \A t \in Terms : t \notin tabs => view[t].slot = NoSlot

SlotsApart == \A t, u \in Terms : slotOf[t] = slotOf[u] /\ slotOf[t] # NoSlot => t = u

(* A view waits for one slot: it is asked for once, and not given up after that... *)
Awaited(i) ==
  LET t == toServer[i].term IN
  /\ t \in tabs /\ view[t].slot = NoSlot /\ view[t].mount = toServer[i].mount
  /\ \A k \in 1..Len(toServer) : (AttachAt(k, t) => k = i) /\ (DetachAt(k, t) => k < i)
  /\ \A k \in 1..Len(toClient) : ~AttachedAt(k, t)

(* ... and given once, with what follows from there on. *)
Given(i) ==
  LET t == toClient[i].term IN
  /\ t \in tabs /\ view[t].slot = NoSlot /\ view[t].mount = toClient[i].mount
  /\ \A k \in 1..Len(toClient) : AttachedAt(k, t) => k = i
  /\ SlotStays(t)
  /\ slotOf[t] = toClient[i].slot /\ Fed(toClient, t, slotOf[t], produced[t], i, toClient[i].to)

ViewsFed ==
  \A t \in tabs : view[t].slot # NoSlot =>
    /\ SlotStays(t) /\ slotOf[t] = view[t].slot
    /\ Fed(toClient, t, slotOf[t], produced[t], 0, view[t].to)

(* A key goes to the slot its terminal still has when it comes there. *)
KeysAtHome ==
  \A i \in 1..Len(toServer) : toServer[i].type = "input" =>
    /\ slotOf[toServer[i].term] = toServer[i].slot
    /\ \A k \in 1..Len(toServer) : DetachAt(k, toServer[i].term) => k > i

AttachesAwaited == \A i \in 1..Len(toServer) : toServer[i].type = "attach" => Awaited(i)
AnswersGiven    == \A i \in 1..Len(toClient) : toClient[i].type = "attached" => Given(i)

TerminalsInv ==
  /\ TerminalTypes /\ NothingFed /\ SlotsApart /\ ~crossed
  /\ terminals # {} =>
       AttachesAwaited /\ AnswersGiven /\ ViewsFed /\ KeysAtHome

(* A pipe with its first frame taken, and with others behind. *)
LEMMA PipeTaken ==
  ASSUME NEW S, NEW q \in Seq(S), q # <<>>
  PROVE  /\ Len(q) \in Nat /\ Len(q) >= 1 /\ Head(q) = q[1] /\ q[1] \in S
         /\ Tail(q) \in Seq(S) /\ Len(Tail(q)) = Len(q) - 1
         /\ \A i \in 1..Len(Tail(q)) : i + 1 \in 1..Len(q) /\ Tail(q)[i] = q[i + 1]
OBVIOUS

LEMMA PipeAdded ==
  ASSUME NEW S, NEW q \in Seq(S), NEW f \in S
  PROVE  /\ Append(q, f) \in Seq(S) /\ Len(q) \in Nat /\ Len(Append(q, f)) = Len(q) + 1
         /\ Append(q, f)[Len(q) + 1] = f
         /\ \A i \in 1..Len(q) : i \in 1..Len(Append(q, f)) /\ Append(q, f)[i] = q[i]
OBVIOUS

LEMMA PipeJoined ==
  ASSUME NEW S, NEW q \in Seq(S), NEW r \in Seq(S)
  PROVE  /\ q \o r \in Seq(S) /\ Len(q) \in Nat /\ Len(r) \in Nat /\ Len(q \o r) = Len(q) + Len(r)
         /\ \A i \in 1..Len(q) : (q \o r)[i] = q[i]
         /\ \A i \in 1..Len(r) : Len(q) + i \in 1..Len(q \o r) /\ (q \o r)[Len(q) + i] = r[i]
         /\ \A i \in 1..Len(q \o r) : i \in 1..Len(q) \/ (i - Len(q) \in 1..Len(r) /\ (q \o r)[i] = r[i - Len(q)])
OBVIOUS

(* Terminals in some order, each once. *)
LEMMA InSomeOrder ==
  ASSUME NEW ts \in SUBSET Terms
  PROVE  LET order == SetToSeq(ts) IN
         /\ Cardinality(ts) \in Nat /\ order \in [1..Cardinality(ts) -> ts]
         /\ \A i, k \in 1..Cardinality(ts) : order[i] = order[k] => i = k
<1>1. IsFiniteSet(ts)
  BY TerminalsAssumption, FS_Subset
<1>2. Cardinality(ts) \in Nat /\ ExistsBijection(1..Cardinality(ts), ts)
  BY <1>1, FS_CardinalityType
<1>3. \E f \in [1..Cardinality(ts) -> ts] : IsInjective(f)
  BY <1>2 DEF ExistsBijection, Bijection, Injection
<1>4. SetToSeq(ts) \in [1..Cardinality(ts) -> ts] /\ IsInjective(SetToSeq(ts))
  BY <1>3 DEF SetToSeq
<1> QED
  BY <1>2, <1>4 DEF IsInjective

LEMMA DetachesAre ==
  ASSUME NEW ts \in SUBSET Terms
  PROVE  /\ Detaches(ts) \in Seq(ServerFrames)
         /\ \A i \in 1..Len(Detaches(ts)) : Detaches(ts)[i].type = "detach"
<1> DEFINE order == SetToSeq(ts)
           n == Cardinality(ts)
<1>1. n \in Nat /\ order \in [1..n -> ts]
  BY InSomeOrder
<1>2. Detaches(ts) = [i \in 1..n |-> [type |-> "detach", term |-> order[i]]]
  BY <1>1 DEF Detaches, Detach
<1> HIDE DEF order, n
<1>3. \A i \in 1..n : order[i] \in ts /\ order[i] \in Terms
  BY <1>1
<1>4. Detaches(ts) \in [1..n -> ServerFrames]
  BY <1>2, <1>3 DEF ServerFrames
<1>5. Detaches(ts) \in Seq(ServerFrames) /\ Len(Detaches(ts)) = n
  BY <1>1, <1>4
<1>6. \A i \in 1..n : Detaches(ts)[i].type = "detach"
  BY <1>2
<1> QED
  BY <1>5, <1>6

LEMMA AttachesAre ==
  ASSUME TerminalTypes, NEW ts \in SUBSET Terms
  PROVE  /\ Attaches(ts) \in Seq(ServerFrames)
         /\ \A i \in 1..Len(Attaches(ts)) :
              /\ Attaches(ts)[i].type = "attach" /\ Attaches(ts)[i].term \in ts
              /\ Attaches(ts)[i].mount = view[Attaches(ts)[i].term].mount + 1
         /\ \A i, k \in 1..Len(Attaches(ts)) : Attaches(ts)[i].term = Attaches(ts)[k].term => i = k
<1> DEFINE order == SetToSeq(ts)
           n == Cardinality(ts)
<1>1. n \in Nat /\ order \in [1..n -> ts] /\ \A i, k \in 1..n : order[i] = order[k] => i = k
  BY InSomeOrder
<1>2. Attaches(ts) =
        [i \in 1..n |-> [type |-> "attach", term |-> order[i], mount |-> view[order[i]].mount + 1]]
  BY <1>1 DEF Attaches, Attach
<1> HIDE DEF order, n
<1>3. \A i \in 1..n : order[i] \in ts /\ order[i] \in Terms /\ view[order[i]].mount + 1 \in Nat
  BY <1>1, SMTT(30) DEF TerminalTypes
<1>4. Attaches(ts) \in [1..n -> ServerFrames]
  BY <1>2, <1>3 DEF ServerFrames
<1>5. Attaches(ts) \in Seq(ServerFrames) /\ Len(Attaches(ts)) = n
  BY <1>1, <1>4
<1>6. \A i \in 1..n : /\ Attaches(ts)[i].type = "attach" /\ Attaches(ts)[i].term = order[i]
                       /\ Attaches(ts)[i].mount = view[order[i]].mount + 1
  BY <1>2
<1>7. \A i, k \in 1..n : Attaches(ts)[i].term = Attaches(ts)[k].term => i = k
  BY <1>1, <1>6
<1> QED
  BY <1>3, <1>5, <1>6, <1>7

(* The output in a pipe when a frame is added behind... *)
LEMMA FedStays ==
  ASSUME NEW pipe \in Seq(ClientFrames), NEW f \in ClientFrames, NEW t, NEW slot, NEW made \in Nat,
         NEW j \in 0..Len(pipe), NEW base \in Nat, Fed(pipe, t, slot, made, j, base),
         f.type = "output" => f.term # t /\ f.slot # slot
  PROVE  Fed(Append(pipe, f), t, slot, made, j, base)
<1> DEFINE more == Append(pipe, f)
<1>1. /\ Len(pipe) \in Nat /\ Len(more) = Len(pipe) + 1 /\ more[Len(pipe) + 1] = f
      /\ \A i \in 1..Len(pipe) : i \in 1..Len(more) /\ more[i] = pipe[i]
  BY PipeAdded
<1> HIDE DEF more
<1>2. \A i \in 1..Len(more) : i \in 1..Len(pipe) \/ more[i] = f
  BY <1>1
<1>3. \A i \in 1..Len(more) : i > j /\ more[i].type = "output" => (more[i].slot = slot <=> more[i].term = t)
  BY <1>1, <1>2 DEF Fed
<1>4. \A i \in 1..Len(more) : more[i].type = "output" /\ more[i].term = t =>
        i \in 1..Len(pipe) /\ more[i] = pipe[i]
  BY <1>1, <1>2
<1>5. \A i \in 1..Len(more) : i > j /\ more[i].type = "output" /\ more[i].term = t =>
        base < more[i].chunk /\ more[i].chunk <= made
  BY <1>4 DEF Fed
<1>6. \A i, k \in 1..Len(more) :
        i < k /\ i > j /\ more[i].type = "output" /\ k > j /\ more[k].type = "output"
              /\ more[i].term = t /\ more[k].term = t =>
          more[i].chunk < more[k].chunk
  BY <1>4 DEF Fed
<1>7. \A c \in Nat : base < c /\ c <= made =>
        \E i \in 1..Len(more) : i > j /\ more[i].type = "output" /\ more[i].term = t /\ more[i].chunk = c
  <2> TAKE c \in Nat
  <2> HAVE base < c /\ c <= made
  <2>1. PICK i \in 1..Len(pipe) : i > j /\ pipe[i].type = "output" /\ pipe[i].term = t /\ pipe[i].chunk = c
    BY DEF Fed
  <2> QED
    BY <2>1, <1>1
<1>8. base <= made
  BY DEF Fed
<1>9. Fed(more, t, slot, made, j, base)
  BY <1>3, <1>5, <1>6, <1>7, <1>8 DEF Fed
<1> QED
  BY <1>9 DEF more

LEMMA FedGrows ==
  ASSUME NEW pipe \in Seq(ClientFrames), NEW f \in ClientFrames, NEW t, NEW slot, NEW made \in Nat,
         NEW j \in 0..Len(pipe), NEW base \in Nat, Fed(pipe, t, slot, made, j, base),
         f.type = "output" /\ f.term = t /\ f.slot = slot /\ f.chunk = made + 1
  PROVE  Fed(Append(pipe, f), t, slot, made + 1, j, base)
<1>1. /\ Len(pipe) \in Nat /\ Len(Append(pipe, f)) = Len(pipe) + 1 /\ Append(pipe, f)[Len(pipe) + 1] = f
      /\ \A i \in 1..Len(pipe) : i \in 1..Len(Append(pipe, f)) /\ Append(pipe, f)[i] = pipe[i]
  BY PipeAdded
<1> DEFINE more == Append(pipe, f)
<1> HIDE DEF more
<1>2. /\ Len(more) = Len(pipe) + 1 /\ more[Len(pipe) + 1] = f
      /\ \A i \in 1..Len(pipe) : i \in 1..Len(more) /\ more[i] = pipe[i]
      /\ \A i \in 1..Len(more) : i = Len(pipe) + 1 \/ i \in 1..Len(pipe)
  BY <1>1 DEF more
<1>3. \A i \in 1..Len(more) : i > j /\ more[i].type = "output" => (more[i].slot = slot <=> more[i].term = t)
  BY <1>1, <1>2 DEF Fed
<1>4. \A i \in 1..Len(pipe) : i > j /\ pipe[i].type = "output" /\ pipe[i].term = t =>
        pipe[i].chunk \in Nat /\ base < pipe[i].chunk /\ pipe[i].chunk <= made
  BY DEF Fed, ClientFrames
<1>5. \A i \in 1..Len(more) : i > j /\ more[i].type = "output" /\ more[i].term = t =>
        base < more[i].chunk /\ more[i].chunk <= made + 1
  BY <1>1, <1>2, <1>4, SMTT(30) DEF Fed
<1>6. \A i, k \in 1..Len(more) :
        i < k /\ i > j /\ more[i].type = "output" /\ k > j /\ more[k].type = "output"
              /\ more[i].term = t /\ more[k].term = t =>
          more[i].chunk < more[k].chunk
  BY <1>1, <1>2, <1>4, SMTT(30) DEF Fed
<1>7. \A c \in Nat : base < c /\ c <= made + 1 =>
        \E i \in 1..Len(more) : i > j /\ more[i].type = "output" /\ more[i].term = t /\ more[i].chunk = c
  <2> TAKE c \in Nat
  <2> HAVE base < c /\ c <= made + 1
  <2>1. CASE c = made + 1
    BY <2>1, <1>1, <1>2
  <2>2. CASE c <= made
    <3>1. PICK i \in 1..Len(pipe) : i > j /\ pipe[i].type = "output" /\ pipe[i].term = t /\ pipe[i].chunk = c
      BY <2>2 DEF Fed
    <3> QED
      BY <3>1, <1>2
  <2> QED
    BY <2>1, <2>2
<1>8. base <= made + 1
  BY DEF Fed
<1>9. Fed(more, t, slot, made + 1, j, base)
  BY <1>3, <1>5, <1>6, <1>7, <1>8 DEF Fed
<1> QED
  BY <1>9 DEF more

(* ... and when the first frame is taken. *)
LEMMA FedShifts ==
  ASSUME NEW pipe \in Seq(ClientFrames), pipe # <<>>, NEW t, NEW slot, NEW made \in Nat,
         NEW j \in Nat, NEW k \in Nat, NEW base \in Nat, Fed(pipe, t, slot, made, j, base),
         \/ j = k + 1
         \/ j = 0 /\ k = 0 /\ ~(pipe[1].type = "output" /\ pipe[1].term = t)
  PROVE  Fed(Tail(pipe), t, slot, made, k, base)
<1>1. /\ Len(pipe) \in Nat /\ Len(Tail(pipe)) = Len(pipe) - 1
      /\ \A i \in 1..Len(Tail(pipe)) : i + 1 \in 1..Len(pipe) /\ Tail(pipe)[i] = pipe[i + 1]
  BY PipeTaken
<1> DEFINE rest == Tail(pipe)
<1> HIDE DEF rest
<1>2. /\ Len(rest) = Len(pipe) - 1
      /\ \A i \in 1..Len(rest) : i + 1 \in 1..Len(pipe) /\ rest[i] = pipe[i + 1]
      /\ \A i \in 1..Len(pipe) : i = 1 \/ (i - 1 \in 1..Len(rest) /\ rest[i - 1] = pipe[i])
  BY <1>1 DEF rest
<1>3. \A i \in 1..Len(rest) : i > k => i + 1 > j
  BY <1>1, <1>2
<1>4. \A i \in 1..Len(pipe) : i > j /\ pipe[i].type = "output" /\ pipe[i].term = t =>
        i - 1 \in 1..Len(rest) /\ i - 1 > k /\ rest[i - 1] = pipe[i]
  BY <1>1, <1>2
<1>5. /\ \A i \in 1..Len(rest) : i > k /\ rest[i].type = "output" => (rest[i].slot = slot <=> rest[i].term = t)
      /\ \A i \in 1..Len(rest) : i > k /\ rest[i].type = "output" /\ rest[i].term = t =>
           base < rest[i].chunk /\ rest[i].chunk <= made
  <2>1. \A i \in 1..Len(pipe) : i > j /\ pipe[i].type = "output" => (pipe[i].slot = slot <=> pipe[i].term = t)
    BY DEF Fed
  <2>2. \A i \in 1..Len(pipe) : i > j /\ pipe[i].type = "output" /\ pipe[i].term = t =>
          base < pipe[i].chunk /\ pipe[i].chunk <= made
    BY DEF Fed
  <2> QED
    BY <2>1, <2>2, <1>2, <1>3
<1>6. \A i, l \in 1..Len(rest) :
        i < l /\ i > k /\ rest[i].type = "output" /\ l > k /\ rest[l].type = "output"
              /\ rest[i].term = t /\ rest[l].term = t =>
          rest[i].chunk < rest[l].chunk
  <2> TAKE i, l \in 1..Len(rest)
  <2> HAVE i < l /\ i > k /\ rest[i].type = "output" /\ l > k /\ rest[l].type = "output"
              /\ rest[i].term = t /\ rest[l].term = t
  <2>1. i + 1 < l + 1 /\ i + 1 > j /\ l + 1 > j
    BY <1>1, <1>2, <1>3
  <2> QED
    BY <2>1, <1>2 DEF Fed
<1>7. \A c \in Nat : base < c /\ c <= made =>
        \E i \in 1..Len(rest) : i > k /\ rest[i].type = "output" /\ rest[i].term = t /\ rest[i].chunk = c
  <2> TAKE c \in Nat
  <2> HAVE base < c /\ c <= made
  <2>1. PICK i \in 1..Len(pipe) :
          i > j /\ pipe[i].type = "output" /\ pipe[i].term = t /\ pipe[i].chunk = c
    BY DEF Fed
  <2> QED
    BY <2>1, <1>4
<1>8. base <= made
  BY DEF Fed
<1>9. Fed(rest, t, slot, made, k, base)
  BY <1>5, <1>6, <1>7, <1>8 DEF Fed
<1> QED
  BY <1>9 DEF rest

(* The first output is the chunk that comes next. *)
LEMMA FedEats ==
  ASSUME NEW pipe \in Seq(ClientFrames), pipe # <<>>, NEW t, NEW slot, NEW made \in Nat,
         NEW base \in Nat, Fed(pipe, t, slot, made, 0, base),
         pipe[1].type = "output" /\ pipe[1].term = t
  PROVE  pipe[1].chunk = base + 1 /\ Fed(Tail(pipe), t, slot, made, 0, base + 1)
<1>1. /\ Len(pipe) \in Nat /\ Len(pipe) >= 1 /\ pipe[1] \in ClientFrames
      /\ Len(Tail(pipe)) = Len(pipe) - 1
      /\ \A i \in 1..Len(Tail(pipe)) : i + 1 \in 1..Len(pipe) /\ Tail(pipe)[i] = pipe[i + 1]
  BY PipeTaken
<1>2. \A i \in 1..Len(pipe) : pipe[i].type = "output" /\ pipe[i].term = t =>
        pipe[i].chunk \in Nat /\ base < pipe[i].chunk /\ pipe[i].chunk <= made
  BY DEF Fed, ClientFrames
<1>3. \A i, l \in 1..Len(pipe) :
        i < l /\ pipe[i].type = "output" /\ pipe[l].type = "output" /\ pipe[i].term = t /\ pipe[l].term = t =>
          pipe[i].chunk < pipe[l].chunk
  BY DEF Fed
<1>4. \A c \in Nat : base < c /\ c <= made =>
        \E i \in 1..Len(pipe) : pipe[i].type = "output" /\ pipe[i].term = t /\ pipe[i].chunk = c
  BY DEF Fed
<1>5. pipe[1].chunk \in Nat /\ base < pipe[1].chunk /\ pipe[1].chunk <= made
  BY <1>1, <1>2
<1>6. PICK i \in 1..Len(pipe) : pipe[i].type = "output" /\ pipe[i].term = t /\ pipe[i].chunk = base + 1
  <2>1. PICK next : next = base + 1
    OBVIOUS
  <2>2. next \in Nat /\ base < next /\ next <= made
    BY <2>1, <1>5
  <2>3. \E i \in 1..Len(pipe) : pipe[i].type = "output" /\ pipe[i].term = t /\ pipe[i].chunk = next
    BY <2>2, <1>4
  <2> QED
    BY <2>1, <2>3
<1>7. i = 1 \/ pipe[1].chunk < pipe[i].chunk
  BY <1>1, <1>3, <1>6
<1>8. pipe[1].chunk = base + 1
  BY <1>5, <1>6, <1>7
<1> DEFINE rest == Tail(pipe)
<1> HIDE DEF rest
<1>9. /\ Len(rest) = Len(pipe) - 1
      /\ \A l \in 1..Len(rest) : l + 1 \in 1..Len(pipe) /\ rest[l] = pipe[l + 1]
      /\ \A l \in 1..Len(pipe) : l = 1 \/ (l - 1 \in 1..Len(rest) /\ rest[l - 1] = pipe[l])
  BY <1>1 DEF rest
<1>10. \A l \in 1..Len(rest) : rest[l].type = "output" /\ rest[l].term = t =>
         base + 1 < rest[l].chunk /\ rest[l].chunk <= made
  <2> TAKE l \in 1..Len(rest)
  <2> HAVE rest[l].type = "output" /\ rest[l].term = t
  <2>1. 1 < l + 1 /\ l + 1 \in 1..Len(pipe) /\ rest[l] = pipe[l + 1] /\ 1 \in 1..Len(pipe)
    BY <1>1, <1>9
  <2>2. pipe[1].chunk < pipe[l + 1].chunk
    BY <2>1, <1>3
  <2> QED
    BY <2>1, <2>2, <1>2, <1>8
<1>11. \A l, m \in 1..Len(rest) :
         l < m /\ rest[l].type = "output" /\ rest[m].type = "output" /\ rest[l].term = t /\ rest[m].term = t =>
           rest[l].chunk < rest[m].chunk
  <2> TAKE l, m \in 1..Len(rest)
  <2> HAVE l < m /\ rest[l].type = "output" /\ rest[m].type = "output" /\ rest[l].term = t /\ rest[m].term = t
  <2>1. l + 1 < m + 1
    OBVIOUS
  <2>2. l + 1 \in 1..Len(pipe) /\ m + 1 \in 1..Len(pipe) /\ rest[l] = pipe[l + 1] /\ rest[m] = pipe[m + 1]
    BY <1>9
  <2>3. /\ pipe[l + 1].type = "output" /\ pipe[m + 1].type = "output"
        /\ pipe[l + 1].term = t /\ pipe[m + 1].term = t
    BY <2>2
  <2>4. pipe[l + 1].chunk < pipe[m + 1].chunk
    BY ONLY <2>1, <2>2, <2>3, <1>3
  <2> QED
    BY ONLY <2>2, <2>4
<1>12. \A c \in Nat : base + 1 < c /\ c <= made =>
         \E l \in 1..Len(rest) : rest[l].type = "output" /\ rest[l].term = t /\ rest[l].chunk = c
  <2> TAKE c \in Nat
  <2> HAVE base + 1 < c /\ c <= made
  <2>1. PICK l \in 1..Len(pipe) : pipe[l].type = "output" /\ pipe[l].term = t /\ pipe[l].chunk = c
    BY <1>4
  <2>2. l # 1
    BY <2>1, <1>8
  <2> QED
    BY <2>1, <2>2, <1>9
<1>13. \A l \in 1..Len(rest) : rest[l].type = "output" => (rest[l].slot = slot <=> rest[l].term = t)
  BY <1>1, <1>9 DEF Fed
<1>14. base + 1 <= made
  BY <1>5, <1>8
<1>15. \A l \in 1..Len(rest) : l > 0
  OBVIOUS
<1>16. Fed(rest, t, slot, made, 0, base + 1)
  BY <1>10, <1>11, <1>12, <1>13, <1>14, <1>15 DEF Fed
<1> QED
  BY <1>8, <1>16 DEF rest

(* There is a slot for a terminal that has none. *)
LEMMA SlotIsFree ==
  ASSUME TerminalTypes, Cardinality(Terms) <= Cardinality(Slots), NEW t \in Terms, slotOf[t] = NoSlot
  PROVE  NextSlot \in FreeSlots /\ FreeSlots \subseteq Slots
<1>1. FreeSlots # {}
  <2> SUFFICES ASSUME FreeSlots = {}
               PROVE  FALSE
    OBVIOUS
  <2> DEFINE others == Terms \ {t}
             taken  == {slotOf[u] : u \in others}
  <2>1. Slots \subseteq taken
    BY TerminalsAssumption DEF FreeSlots, NoSlot
  <2>2. IsFiniteSet(Terms) /\ IsFiniteSet(Slots)
    BY TerminalsAssumption
  <2>3. IsFiniteSet(others) /\ Cardinality(others) = Cardinality(Terms) - 1
    BY <2>2, FS_RemoveElement
  <2>4. IsFiniteSet(taken) /\ Cardinality(taken) <= Cardinality(others)
    <3>1. [u \in others |-> slotOf[u]] \in Surjection(others, taken)
      BY DEF Surjection
    <3> QED
      BY <3>1, <2>3, FS_Surjection
  <2>5. Cardinality(Slots) <= Cardinality(taken)
    BY <2>1, <2>4, FS_Subset
  <2>6. /\ Cardinality(Slots) \in Nat /\ Cardinality(Terms) \in Nat
        /\ Cardinality(taken) \in Nat /\ Cardinality(others) \in Nat
    BY <2>2, <2>3, <2>4, FS_CardinalityType
  <2> HIDE DEF others, taken
  <2> QED
    BY <2>3, <2>4, <2>5, <2>6
<1>2. FreeSlots \subseteq Slots /\ FreeSlots \in SUBSET Nat
  BY TerminalsAssumption DEF FreeSlots
<1>3. Min(FreeSlots) \in FreeSlots
  BY <1>1, <1>2, LeastIsIn
<1> QED
  BY <1>2, <1>3 DEF Min, NextSlot

(* With terminals the whole set is there, and a connection with something under way is open. *)
LEMMA TerminalsAreAll ==
  ASSUME TerminalsInv, terminals # {}
  PROVE  /\ terminals = Terms /\ TerminalTypes /\ SlotsApart
         /\ AttachesAwaited /\ AnswersGiven /\ ViewsFed /\ KeysAtHome
         /\ toServer # <<>> \/ toClient # <<>> => connected
         /\ \A i \in 1..Len(toClient) : toClient[i].type # "failed"
         /\ \A t \in Terms : t \notin tabs => view[t].slot = NoSlot
BY DEF TerminalsInv, TerminalTypes, NothingFed

(* Nothing is missing at the end of a pipe. *)
LEMMA FedFresh ==
  ASSUME NEW pipe \in Seq(ClientFrames), NEW t, NEW slot, NEW made \in Nat
  PROVE  Fed(pipe, t, slot, made, Len(pipe), made)
<1>1. Len(pipe) \in Nat /\ \A i \in 1..Len(pipe) : ~(i > Len(pipe))
  OBVIOUS
<1>2. \A c \in Nat : ~(made < c /\ c <= made)
  OBVIOUS
<1> QED
  BY <1>1, <1>2 DEF Fed

(* What serving a frame does to the pipe it comes from. *)
LEMMA FrameServed ==
  ASSUME TerminalTypes, Serve
  PROVE  /\ toServer # <<>> /\ toServer[1] \in ServerFrames /\ 1 \in 1..Len(toServer)
         /\ toServer' \in Seq(ServerFrames) /\ Len(toServer) \in Nat /\ Len(toServer') \in Nat
         /\ \A i \in 1..Len(toServer') : i + 1 \in 1..Len(toServer) /\ toServer'[i] = toServer[i + 1]
         /\ UNCHANGED <<terminals, produced, connected, tabs, view>>
         /\ \/ toServer[1].type = "attach" /\ ServeAttach(toServer[1].term, toServer[1].mount) /\ UNCHANGED crossed
            \/ /\ toServer[1].type = "detach"
               /\ slotOf' = [slotOf EXCEPT ![toServer[1].term] = NoSlot] /\ UNCHANGED <<toClient, crossed>>
            \/ /\ toServer[1].type = "input"
               /\ crossed' = (crossed \/ Misses(toServer[1])) /\ UNCHANGED <<slotOf, toClient>>
<1>1. toServer # <<>> /\ toServer \in Seq(ServerFrames) /\ toServer' = Tail(toServer)
  BY DEF Serve, TerminalTypes
<1> HIDE DEF ServerFrames
<1>2. /\ Len(toServer) \in Nat /\ Len(toServer) >= 1 /\ Head(toServer) = toServer[1] /\ toServer[1] \in ServerFrames
      /\ Tail(toServer) \in Seq(ServerFrames) /\ Len(Tail(toServer)) = Len(toServer) - 1
      /\ \A i \in 1..Len(Tail(toServer)) : i + 1 \in 1..Len(toServer) /\ Tail(toServer)[i] = toServer[i + 1]
  BY <1>1, PipeTaken
<1>3. /\ toServer' \in Seq(ServerFrames) /\ Len(toServer') \in Nat
      /\ \A i \in 1..Len(toServer') : i + 1 \in 1..Len(toServer) /\ toServer'[i] = toServer[i + 1]
  BY <1>1, <1>2
<1>4. UNCHANGED <<terminals, produced, connected, tabs, view>>
  BY DEF Serve
<1>5. \/ toServer[1].type = "attach" /\ ServeAttach(toServer[1].term, toServer[1].mount) /\ UNCHANGED crossed
      \/ /\ toServer[1].type = "detach"
         /\ slotOf' = [slotOf EXCEPT ![toServer[1].term] = NoSlot] /\ UNCHANGED <<toClient, crossed>>
      \/ /\ toServer[1].type = "input"
         /\ crossed' = (crossed \/ Misses(toServer[1])) /\ UNCHANGED <<slotOf, toClient>>
  BY <1>2 DEF Serve
<1> QED
  BY <1>1, <1>2, <1>3, <1>4, <1>5

(* The requests behind the first keep what is known of them. *)
LEMMA RequestsServed ==
  ASSUME TerminalTypes, Serve
  PROVE  /\ \A t : SlotStays(t) => SlotStays(t)'
         /\ \A t : \A i \in 1..Len(toServer') : AttachAt(i, t)' => AttachAt(i + 1, t)
         /\ \A t : \A i \in 1..Len(toServer') : DetachAt(i, t)' => DetachAt(i + 1, t)
<1>1. \A i \in 1..Len(toServer') : i + 1 \in 1..Len(toServer) /\ toServer'[i] = toServer[i + 1]
  BY FrameServed
<1> QED
  BY <1>1 DEF SlotStays, AttachAt, DetachAt

(* An attach still under way waits for its answer; no other frame of its terminal is ahead. *)
LEMMA AwaitedServed ==
  ASSUME TerminalTypes, Serve, AttachesAwaited,
         \A t \in Terms, k \in 1..Len(toClient') :
           AttachedAt(k, t)' => (\E l \in 1..Len(toClient) : AttachedAt(l, t)) \/ AttachAt(1, t)
  PROVE  AttachesAwaited'
<1>1. /\ \A i \in 1..Len(toServer') : i + 1 \in 1..Len(toServer) /\ toServer'[i] = toServer[i + 1]
      /\ UNCHANGED <<tabs, view>> /\ 1 \in 1..Len(toServer) /\ Len(toServer) \in Nat
      /\ toServer' \in Seq(ServerFrames)
  BY FrameServed
<1>2. SUFFICES ASSUME NEW i \in 1..Len(toServer'), toServer'[i].type = "attach"
               PROVE  Awaited(i)'
  BY DEF AttachesAwaited
<1>3. PICK t : t = toServer[i + 1].term
  OBVIOUS
<1>4. t \in Terms
  <2>1. toServer'[i] \in ServerFrames /\ toServer'[i] = toServer[i + 1]
    BY <1>1, <1>2
  <2> QED
    BY <2>1, <1>2, <1>3 DEF ServerFrames
<1>5. Awaited(i + 1)
  BY <1>1, <1>2 DEF AttachesAwaited
<1>6. /\ t \in tabs /\ view[t].slot = NoSlot /\ view[t].mount = toServer[i + 1].mount
      /\ \A k \in 1..Len(toServer) : (AttachAt(k, t) => k = i + 1) /\ (DetachAt(k, t) => k < i + 1)
      /\ \A k \in 1..Len(toClient) : ~AttachedAt(k, t)
  BY <1>3, <1>5 DEF Awaited
<1>7. ~AttachAt(1, t)
  BY <1>1, <1>6
<1>8. \A k \in 1..Len(toServer') : (AttachAt(k, t)' => k = i) /\ (DetachAt(k, t)' => k < i)
  BY <1>1, <1>6, RequestsServed
<1>9. \A k \in 1..Len(toClient') : ~AttachedAt(k, t)'
  BY <1>4, <1>6, <1>7
<1> QED
  BY <1>1, <1>3, <1>6, <1>8, <1>9 DEF Awaited

(* A key still under way comes to its slot if that stays the terminal's. *)
LEMMA KeysServed ==
  ASSUME TerminalTypes, Serve, KeysAtHome,
         \A i \in 1..Len(toServer') : toServer'[i].type = "input" =>
           slotOf'[toServer'[i].term] = slotOf[toServer'[i].term]
  PROVE  KeysAtHome'
<1>1. /\ \A i \in 1..Len(toServer') : i + 1 \in 1..Len(toServer) /\ toServer'[i] = toServer[i + 1]
      /\ 1 \in 1..Len(toServer) /\ Len(toServer) \in Nat
  BY FrameServed
<1>2. SUFFICES ASSUME NEW i \in 1..Len(toServer'), toServer'[i].type = "input"
               PROVE  /\ slotOf'[toServer'[i].term] = toServer'[i].slot
                      /\ \A k \in 1..Len(toServer') :
                           toServer'[k].type = "detach" /\ toServer'[k].term = toServer'[i].term => k > i
  BY DEF KeysAtHome, DetachAt
<1>3. PICK t : t = toServer[i + 1].term
  OBVIOUS
<1>4. /\ slotOf[t] = toServer[i + 1].slot
      /\ \A k \in 1..Len(toServer) : DetachAt(k, t) => k > i + 1
  BY <1>1, <1>2, <1>3 DEF KeysAtHome
<1>5. \A k \in 1..Len(toServer') : DetachAt(k, t)' => k > i
  BY <1>1, <1>4, RequestsServed
<1>6. toServer'[i].term = t /\ toServer'[i].slot = toServer[i + 1].slot
  BY <1>1, <1>3
<1>7. slotOf'[t] = toServer'[i].slot
  BY <1>2, <1>4, <1>6
<1> QED
  BY <1>2, <1>5, <1>6, <1>7 DEF DetachAt

(* An answer under way, with what it gives spelled out... *)
LEMMA GivenMeans ==
  ASSUME TerminalTypes, AnswersGiven, NEW i \in 1..Len(toClient), toClient[i].type = "attached"
  PROVE  \E t \in Terms, base \in Nat :
           /\ t = toClient[i].term /\ base = toClient[i].to /\ toClient[i].slot \in Slots
           /\ t \in tabs /\ view[t].slot = NoSlot /\ view[t].mount = toClient[i].mount
           /\ \A k \in 1..Len(toClient) : AttachedAt(k, t) => k = i
           /\ SlotStays(t) /\ slotOf[t] = toClient[i].slot /\ slotOf[t] \in Slots /\ slotOf[t] # NoSlot
           /\ Fed(toClient, t, slotOf[t], produced[t], i, base)
<1>1. toClient[i] \in ClientFrames
  BY DEF TerminalTypes
<1>2. toClient[i].term \in Terms /\ toClient[i].to \in Nat /\ toClient[i].slot \in Slots
  BY <1>1 DEF ClientFrames
<1>3. toClient[i].slot # NoSlot
  BY <1>2, TerminalsAssumption DEF NoSlot
<1>4. Given(i)
  BY DEF AnswersGiven
<1> QED
  BY <1>2, <1>3, <1>4 DEF Given

(* ... and what a step must leave of it. *)
LEMMA GivenIs ==
  ASSUME NEW i, NEW t, NEW base, toClient'[i].term = t, toClient'[i].to = base,
         t \in tabs', view'[t].slot = NoSlot, view'[t].mount = toClient'[i].mount,
         \A k \in 1..Len(toClient') : AttachedAt(k, t)' => k = i,
         SlotStays(t)', slotOf'[t] = toClient'[i].slot,
         Fed(toClient', t, slotOf'[t], produced'[t], i, base)
  PROVE  Given(i)'
BY DEF Given

(* A view with a slot, spelled out. *)
LEMMA ViewFedMeans ==
  ASSUME TerminalTypes, ViewsFed, NEW t \in tabs, view[t].slot # NoSlot
  PROVE  /\ t \in Terms /\ view[t].to \in Nat /\ SlotStays(t) /\ slotOf[t] = view[t].slot
         /\ slotOf[t] \in Slots /\ slotOf[t] # NoSlot
         /\ Fed(toClient, t, slotOf[t], produced[t], 0, view[t].to)
<1>1. t \in Terms /\ view[t] \in [mount : Nat, slot : SlotOrNone, from : Nat, to : Nat]
  BY DEF TerminalTypes
<1> QED
  BY <1>1 DEF ViewsFed, SlotOrNone

(* The terminal of a view that waits is given a slot. *)
LEMMA ServesAttach ==
  ASSUME TerminalsInv, terminals # {}, Cardinality(Terms) <= Cardinality(Slots),
         Serve, toServer[1].type = "attach"
  PROVE  TerminalsInv'
<1>1. /\ terminals = Terms /\ TerminalTypes /\ SlotsApart /\ ~crossed
      /\ AttachesAwaited /\ AnswersGiven /\ ViewsFed /\ KeysAtHome
      /\ \A i \in 1..Len(toClient) : toClient[i].type # "failed"
      /\ \A t \in Terms : t \notin tabs => view[t].slot = NoSlot
  BY TerminalsAreAll DEF TerminalsInv
<1>2. /\ toServer # <<>> /\ toServer[1] \in ServerFrames /\ 1 \in 1..Len(toServer)
      /\ toServer' \in Seq(ServerFrames)
      /\ \A i \in 1..Len(toServer') : i + 1 \in 1..Len(toServer) /\ toServer'[i] = toServer[i + 1]
      /\ UNCHANGED <<terminals, produced, connected, tabs, view, crossed>>
      /\ ServeAttach(toServer[1].term, toServer[1].mount)
  BY <1>1, FrameServed
<1>3. connected
  BY <1>2, TerminalsAreAll
<1>4. PICK t \in Terms, n \in Nat : t = toServer[1].term /\ n = toServer[1].mount
  BY <1>2 DEF ServerFrames
<1>5. /\ t \in tabs /\ view[t].slot = NoSlot /\ view[t].mount = n
      /\ \A k \in 1..Len(toServer) : (AttachAt(k, t) => k = 1) /\ (DetachAt(k, t) => k < 1)
      /\ \A k \in 1..Len(toClient) : ~AttachedAt(k, t)
  BY <1>1, <1>2, <1>4 DEF AttachesAwaited, Awaited
<1>6. AttachAt(1, t)
  BY <1>4 DEF AttachAt
<1>7. slotOf[t] = NoSlot => NextSlot \in FreeSlots /\ FreeSlots \subseteq Slots
  BY <1>1, SlotIsFree
<1>8. PICK s : s = IF slotOf[t] # NoSlot THEN slotOf[t] ELSE NextSlot
  OBVIOUS
<1>9. /\ slotOf' = [slotOf EXCEPT ![t] = s]
      /\ toClient' = Append(toClient, Attached(t, n, s))
  BY <1>1, <1>2, <1>4, <1>7, <1>8 DEF ServeAttach
<1>10. s \in Slots /\ s # NoSlot
  BY <1>1, <1>7, <1>8, TerminalsAssumption DEF TerminalTypes, SlotOrNone, NoSlot
<1>11. \A u \in Terms : u # t => slotOf[u] # s
  <2>1. CASE slotOf[t] # NoSlot
    BY <2>1, <1>1, <1>8 DEF SlotsApart
  <2>2. CASE slotOf[t] = NoSlot
    BY <2>2, <1>7, <1>8 DEF FreeSlots
  <2> QED
    BY <2>1, <2>2
<1>12. produced[t] \in Nat /\ toClient \in Seq(ClientFrames) /\ slotOf \in [Terms -> SlotOrNone]
  BY <1>1 DEF TerminalTypes
<1>13. PICK a : a = Attached(t, n, s)
  OBVIOUS
<1>14. Oldest(t) \in Nat
  BY <1>12, TerminalsAssumption DEF Oldest
<1>15. /\ a \in ClientFrames /\ a.type = "attached" /\ a.term = t /\ a.mount = n /\ a.slot = s
       /\ a.to = produced[t]
  BY <1>4, <1>10, <1>12, <1>13, <1>14 DEF Attached, ClientFrames
<1>16. /\ toClient' \in Seq(ClientFrames) /\ Len(toClient) \in Nat /\ Len(toClient') = Len(toClient) + 1
       /\ toClient'[Len(toClient) + 1] = a
       /\ \A i \in 1..Len(toClient) : i \in 1..Len(toClient') /\ toClient'[i] = toClient[i]
       /\ toClient' = Append(toClient, a)
  BY <1>9, <1>12, <1>13, <1>15, PipeAdded
<1>17. \A i \in 1..Len(toClient') : i \in 1..Len(toClient) \/ i = Len(toClient) + 1
  BY <1>16
<1>18. slotOf'[t] = s /\ \A u \in Terms : u # t => slotOf'[u] = slotOf[u]
  BY <1>9, <1>12
<1>19. slotOf' \in [Terms -> SlotOrNone]
  BY <1>9, <1>10, <1>12 DEF SlotOrNone
<1>20. TerminalTypes'
  BY <1>1, <1>2, <1>16, <1>19 DEF TerminalTypes
<1>21. NothingFed'
  <2>1. \A i \in 1..Len(toClient') : toClient'[i].type # "failed"
    BY <1>1, <1>15, <1>16, <1>17
  <2> QED
    BY <2>1, <1>1, <1>2, <1>3 DEF NothingFed
<1>22. SlotsApart'
  BY <1>1, <1>10, <1>11, <1>18 DEF SlotsApart
<1>23. AttachesAwaited'
  <2>1. \A u \in Terms, k \in 1..Len(toClient') :
          AttachedAt(k, u)' => (\E l \in 1..Len(toClient) : AttachedAt(l, u)) \/ AttachAt(1, u)
    BY <1>6, <1>15, <1>16, <1>17 DEF AttachedAt
  <2> QED
    BY <2>1, <1>1, AwaitedServed
<1>24. AnswersGiven'
  <2>1. SUFFICES ASSUME NEW i \in 1..Len(toClient'), toClient'[i].type = "attached"
                 PROVE  Given(i)'
    BY DEF AnswersGiven
  <2>2. CASE i = Len(toClient) + 1
    <3>1. \A k \in 1..Len(toClient') : AttachedAt(k, t)' => k = i
      BY <2>2, <1>5, <1>16, <1>17 DEF AttachedAt
    <3>2. SlotStays(t)'
      <4>1. SUFFICES ASSUME NEW k \in 1..Len(toServer')
                     PROVE  ~AttachAt(k, t)' /\ ~DetachAt(k, t)'
        BY DEF SlotStays
      <4>2. k + 1 \in 1..Len(toServer) /\ k + 1 # 1 /\ ~(k + 1 < 1)
        BY <1>2
      <4>3. ~AttachAt(k + 1, t) /\ ~DetachAt(k + 1, t)
        BY <4>2, <1>5
      <4> QED
        BY <4>3, <1>1, RequestsServed
    <3>3. Fed(toClient', t, s, produced[t], Len(toClient'), produced[t])
      BY <1>12, <1>16, FedFresh
    <3>4. Fed(toClient', t, slotOf'[t], produced'[t], i, produced[t])
      BY <3>3, <2>2, <1>2, <1>16, <1>18
    <3> QED
      BY <3>1, <3>2, <3>4, <2>2, <1>2, <1>5, <1>15, <1>16, <1>18, GivenIs
  <2>3. CASE i \in 1..Len(toClient)
    <3>1. toClient'[i] = toClient[i] /\ toClient[i].type = "attached"
      BY <2>1, <2>3, <1>16
    <3>2. PICK u \in Terms, base \in Nat :
            /\ u = toClient[i].term /\ base = toClient[i].to /\ toClient[i].slot \in Slots
            /\ u \in tabs /\ view[u].slot = NoSlot /\ view[u].mount = toClient[i].mount
            /\ \A k \in 1..Len(toClient) : AttachedAt(k, u) => k = i
            /\ SlotStays(u) /\ slotOf[u] = toClient[i].slot /\ slotOf[u] \in Slots /\ slotOf[u] # NoSlot
            /\ Fed(toClient, u, slotOf[u], produced[u], i, base)
      BY <3>1, <2>3, <1>1, GivenMeans
    <3>3. u # t
      BY <3>1, <3>2, <2>3, <1>5 DEF AttachedAt
    <3>4. \A k \in 1..Len(toClient') : AttachedAt(k, u)' => k = i
      BY <3>2, <3>3, <1>15, <1>16, <1>17 DEF AttachedAt
    <3>5. produced[u] \in Nat /\ i \in 0..Len(toClient)
      BY <3>2, <2>3, <1>1, <1>16 DEF TerminalTypes
    <3>6. Fed(toClient', u, slotOf[u], produced[u], i, base)
      BY <3>2, <3>5, <1>12, <1>15, <1>16, FedStays
    <3>7. SlotStays(u)'
      BY <3>2, <1>1, RequestsServed
    <3> QED
      BY <3>1, <3>2, <3>3, <3>4, <3>6, <3>7, <1>2, <1>18, GivenIs
  <2> QED
    BY <2>2, <2>3, <1>17
<1>25. ViewsFed'
  <2>1. SUFFICES ASSUME NEW u \in tabs', view'[u].slot # NoSlot
                 PROVE  /\ SlotStays(u)' /\ slotOf'[u] = view'[u].slot
                        /\ Fed(toClient', u, slotOf'[u], produced'[u], 0, view'[u].to)
    BY DEF ViewsFed
  <2>2. u \in tabs /\ view[u].slot # NoSlot /\ u # t
    BY <2>1, <1>2, <1>5
  <2>3. /\ u \in Terms /\ view[u].to \in Nat /\ SlotStays(u) /\ slotOf[u] = view[u].slot
        /\ Fed(toClient, u, slotOf[u], produced[u], 0, view[u].to)
    BY <2>2, <1>1, ViewFedMeans
  <2>4. produced[u] \in Nat /\ 0 \in 0..Len(toClient)
    BY <2>3, <1>1, <1>16 DEF TerminalTypes
  <2>5. Fed(toClient', u, slotOf[u], produced[u], 0, view[u].to)
    BY <2>3, <2>4, <1>12, <1>15, <1>16, FedStays
  <2> QED
    BY <2>2, <2>3, <2>5, <1>1, <1>2, <1>18, RequestsServed
<1>26. KeysAtHome'
  <2>1. \A i \in 1..Len(toServer') : toServer'[i].type = "input" =>
          slotOf'[toServer'[i].term] = slotOf[toServer'[i].term]
    <3>1. SUFFICES ASSUME NEW i \in 1..Len(toServer'), toServer'[i].type = "input"
                   PROVE  slotOf'[toServer'[i].term] = slotOf[toServer'[i].term]
      OBVIOUS
    <3>2. i + 1 \in 1..Len(toServer) /\ toServer'[i] = toServer[i + 1] /\ toServer'[i] \in ServerFrames
      BY <1>2
    <3>3. slotOf[toServer'[i].term] = toServer'[i].slot
      BY <3>1, <3>2, <1>1 DEF KeysAtHome
    <3>4. toServer'[i].term \in Terms /\ toServer'[i].slot \in Slots
      BY <3>1, <3>2 DEF ServerFrames
    <3>5. CASE toServer'[i].term = t
      BY <3>3, <3>4, <3>5, <1>8, <1>18, TerminalsAssumption DEF NoSlot
    <3> QED
      BY <3>4, <3>5, <1>18
  <2> QED
    BY <2>1, <1>1, KeysServed
<1> QED
  BY <1>1, <1>2, <1>20, <1>21, <1>22, <1>23, <1>24, <1>25, <1>26 DEF TerminalsInv

(* What is on its way to the renderer is as it was when a terminal with requests left its slot. *)
LEMMA AnswersKept ==
  ASSUME TerminalTypes, AnswersGiven, ViewsFed,
         UNCHANGED <<toClient, produced, tabs, view>>,
         \A t \in Terms : SlotStays(t) => SlotStays(t)' /\ slotOf'[t] = slotOf[t]
  PROVE  AnswersGiven' /\ ViewsFed'
<1>1. AnswersGiven'
  <2>1. SUFFICES ASSUME NEW i \in 1..Len(toClient'), toClient'[i].type = "attached"
                 PROVE  Given(i)'
    BY DEF AnswersGiven
  <2>2. PICK u \in Terms, base \in Nat :
          /\ u = toClient[i].term /\ base = toClient[i].to /\ toClient[i].slot \in Slots
          /\ u \in tabs /\ view[u].slot = NoSlot /\ view[u].mount = toClient[i].mount
          /\ \A k \in 1..Len(toClient) : AttachedAt(k, u) => k = i
          /\ SlotStays(u) /\ slotOf[u] = toClient[i].slot /\ slotOf[u] \in Slots /\ slotOf[u] # NoSlot
          /\ Fed(toClient, u, slotOf[u], produced[u], i, base)
    BY <2>1, GivenMeans
  <2>3. \A k \in 1..Len(toClient') : AttachedAt(k, u)' => k = i
    BY <2>2 DEF AttachedAt
  <2>4. SlotStays(u)' /\ slotOf'[u] = slotOf[u]
    BY <2>2
  <2> QED
    BY <2>2, <2>3, <2>4, GivenIs
<1>2. ViewsFed'
  <2>1. SUFFICES ASSUME NEW u \in tabs', view'[u].slot # NoSlot
                 PROVE  /\ SlotStays(u)' /\ slotOf'[u] = view'[u].slot
                        /\ Fed(toClient', u, slotOf'[u], produced'[u], 0, view'[u].to)
    BY DEF ViewsFed
  <2>2. /\ u \in Terms /\ SlotStays(u) /\ slotOf[u] = view[u].slot
        /\ Fed(toClient, u, slotOf[u], produced[u], 0, view[u].to)
    BY <2>1, ViewFedMeans
  <2>3. SlotStays(u)' /\ slotOf'[u] = slotOf[u]
    BY <2>2
  <2> QED
    BY <2>2, <2>3
<1> QED
  BY <1>1, <1>2

(* The slot of a terminal nobody waits at or looks at is given back. *)
LEMMA ServesDetach ==
  ASSUME TerminalsInv, terminals # {}, Serve, toServer[1].type = "detach"
  PROVE  TerminalsInv'
<1>1. /\ terminals = Terms /\ TerminalTypes /\ SlotsApart /\ ~crossed
      /\ AttachesAwaited /\ AnswersGiven /\ ViewsFed /\ KeysAtHome
      /\ \A i \in 1..Len(toClient) : toClient[i].type # "failed"
      /\ \A t \in Terms : t \notin tabs => view[t].slot = NoSlot
  BY TerminalsAreAll DEF TerminalsInv
<1>2. /\ toServer # <<>> /\ toServer[1] \in ServerFrames /\ 1 \in 1..Len(toServer)
      /\ toServer' \in Seq(ServerFrames) /\ Len(toServer) \in Nat
      /\ \A i \in 1..Len(toServer') : i + 1 \in 1..Len(toServer) /\ toServer'[i] = toServer[i + 1]
      /\ UNCHANGED <<terminals, produced, connected, tabs, view, crossed, toClient>>
      /\ slotOf' = [slotOf EXCEPT ![toServer[1].term] = NoSlot]
  BY <1>1, FrameServed
<1>3. connected
  BY <1>2, TerminalsAreAll
<1>4. PICK t \in Terms : t = toServer[1].term
  BY <1>2 DEF ServerFrames
<1>5. DetachAt(1, t) /\ ~SlotStays(t)
  BY <1>2, <1>4 DEF DetachAt, SlotStays
<1>6. slotOf' = [slotOf EXCEPT ![t] = NoSlot] /\ slotOf \in [Terms -> SlotOrNone]
  BY <1>1, <1>2, <1>4 DEF TerminalTypes
<1>7. /\ slotOf' \in [Terms -> SlotOrNone] /\ slotOf'[t] = NoSlot
      /\ \A u \in Terms : u # t => slotOf'[u] = slotOf[u]
  BY <1>6 DEF SlotOrNone
<1>8. TerminalTypes'
  BY <1>1, <1>2, <1>7 DEF TerminalTypes
<1>9. NothingFed'
  BY <1>1, <1>2, <1>3 DEF NothingFed
<1>10. SlotsApart'
  BY <1>1, <1>7 DEF SlotsApart
<1>11. AttachesAwaited'
  <2>1. \A u \in Terms, k \in 1..Len(toClient') :
          AttachedAt(k, u)' => (\E l \in 1..Len(toClient) : AttachedAt(l, u)) \/ AttachAt(1, u)
    BY <1>2 DEF AttachedAt
  <2> QED
    BY <2>1, <1>1, AwaitedServed
<1>12. AnswersGiven' /\ ViewsFed'
  <2>1. \A u \in Terms : SlotStays(u) => SlotStays(u)' /\ slotOf'[u] = slotOf[u]
    BY <1>1, <1>5, <1>7, RequestsServed
  <2> QED
    BY <2>1, <1>1, <1>2, AnswersKept
<1>13. KeysAtHome'
  <2>1. \A i \in 1..Len(toServer') : toServer'[i].type = "input" =>
          slotOf'[toServer'[i].term] = slotOf[toServer'[i].term]
    <3>1. SUFFICES ASSUME NEW i \in 1..Len(toServer'), toServer'[i].type = "input"
                   PROVE  slotOf'[toServer'[i].term] = slotOf[toServer'[i].term]
      OBVIOUS
    <3>2. i + 1 \in 1..Len(toServer) /\ toServer'[i] = toServer[i + 1] /\ toServer'[i] \in ServerFrames
      BY <1>2
    <3>3. \A k \in 1..Len(toServer) : DetachAt(k, toServer[i + 1].term) => k > i + 1
      BY <3>1, <3>2, <1>1 DEF KeysAtHome
    <3>4. toServer[i + 1].term # t
      <4>1. DetachAt(1, toServer[i + 1].term) => 1 > i + 1
        BY <3>3, <1>2
      <4> QED
        BY <4>1, <1>5, <3>1
    <3>5. toServer'[i].term \in Terms
      BY <3>1, <3>2 DEF ServerFrames
    <3> QED
      BY <3>2, <3>4, <3>5, <1>7
  <2> QED
    BY <2>1, <1>1, KeysServed
<1> QED
  BY <1>1, <1>2, <1>8, <1>9, <1>10, <1>11, <1>12, <1>13 DEF TerminalsInv

(* A key goes to its own terminal. *)
LEMMA ServesInput ==
  ASSUME TerminalsInv, terminals # {}, Serve, toServer[1].type = "input"
  PROVE  TerminalsInv'
<1>1. /\ terminals = Terms /\ TerminalTypes /\ SlotsApart /\ ~crossed
      /\ AttachesAwaited /\ AnswersGiven /\ ViewsFed /\ KeysAtHome
      /\ \A i \in 1..Len(toClient) : toClient[i].type # "failed"
      /\ \A t \in Terms : t \notin tabs => view[t].slot = NoSlot
  BY TerminalsAreAll DEF TerminalsInv
<1>2. /\ toServer # <<>> /\ toServer[1] \in ServerFrames /\ 1 \in 1..Len(toServer)
      /\ toServer' \in Seq(ServerFrames)
      /\ UNCHANGED <<terminals, produced, connected, tabs, view, slotOf, toClient>>
      /\ crossed' = (crossed \/ Misses(toServer[1]))
  BY <1>1, FrameServed
<1>3. connected
  BY <1>2, TerminalsAreAll
<1>4. toServer[1].term \in Terms /\ toServer[1].slot \in Slots
  BY <1>2 DEF ServerFrames
<1>5. slotOf[toServer[1].term] = toServer[1].slot
  BY <1>1, <1>2 DEF KeysAtHome
<1>6. ~Misses(toServer[1])
  BY <1>1, <1>4, <1>5, TerminalsAssumption DEF Misses, SlotsApart, NoSlot
<1>7. ~crossed'
  BY <1>1, <1>2, <1>6
<1>8. TerminalTypes' /\ NothingFed' /\ SlotsApart'
  BY <1>1, <1>2, <1>3 DEF TerminalTypes, NothingFed, SlotsApart
<1>9. AttachesAwaited'
  <2>1. \A u \in Terms, k \in 1..Len(toClient') :
          AttachedAt(k, u)' => (\E l \in 1..Len(toClient) : AttachedAt(l, u)) \/ AttachAt(1, u)
    BY <1>2 DEF AttachedAt
  <2> QED
    BY <2>1, <1>1, AwaitedServed
<1>10. AnswersGiven' /\ ViewsFed'
  <2>1. \A u \in Terms : SlotStays(u) => SlotStays(u)' /\ slotOf'[u] = slotOf[u]
    BY <1>1, <1>2, RequestsServed
  <2> QED
    BY <2>1, <1>1, <1>2, AnswersKept
<1>11. KeysAtHome'
  BY <1>1, <1>2, KeysServed
<1> QED
  BY <1>1, <1>2, <1>7, <1>8, <1>9, <1>10, <1>11 DEF TerminalsInv

(* Output goes into the slot of its terminal, behind what went there before. *)
LEMMA OutputFed ==
  ASSUME TerminalsInv, terminals # {}, NEW t \in Terms, Outputs(t)
  PROVE  TerminalsInv'
<1>1. /\ terminals = Terms /\ TerminalTypes /\ SlotsApart /\ ~crossed
      /\ AttachesAwaited /\ AnswersGiven /\ ViewsFed /\ KeysAtHome /\ NothingFed
      /\ \A i \in 1..Len(toClient) : toClient[i].type # "failed"
      /\ \A u \in Terms : u \notin tabs => view[u].slot = NoSlot
  BY TerminalsAreAll DEF TerminalsInv
<1>2. /\ produced' = [produced EXCEPT ![t] = produced[t] + 1]
      /\ toClient' = IF slotOf[t] = NoSlot THEN toClient
                     ELSE Append(toClient, Output(t, slotOf[t], produced[t] + 1))
      /\ UNCHANGED <<terminals, slotOf, connected, toServer, tabs, view, crossed>>
  BY DEF Outputs
<1>3. /\ produced \in [Terms -> Nat] /\ slotOf \in [Terms -> SlotOrNone] /\ toClient \in Seq(ClientFrames)
      /\ Len(toClient) \in Nat
  BY <1>1 DEF TerminalTypes
<1>4. /\ produced' \in [Terms -> Nat] /\ produced'[t] = produced[t] + 1
      /\ \A u \in Terms : u # t => produced'[u] = produced[u]
  BY <1>2, <1>3
<1>5. CASE slotOf[t] = NoSlot
  <2>1. toClient' = toClient
    BY <1>2, <1>5
  <2>2. TerminalTypes' /\ NothingFed' /\ SlotsApart'
    BY <1>1, <1>2, <1>4, <2>1 DEF TerminalTypes, NothingFed, NobodyAttached, SlotsApart
  <2>3. AttachesAwaited' /\ KeysAtHome'
    BY <1>1, <1>2, <2>1 DEF AttachesAwaited, Awaited, KeysAtHome, AttachAt, DetachAt, AttachedAt
  <2>4. AnswersGiven'
    <3>1. SUFFICES ASSUME NEW i \in 1..Len(toClient'), toClient'[i].type = "attached"
                   PROVE  Given(i)'
      BY DEF AnswersGiven
    <3>2. PICK u \in Terms, base \in Nat :
            /\ u = toClient[i].term /\ base = toClient[i].to /\ toClient[i].slot \in Slots
            /\ u \in tabs /\ view[u].slot = NoSlot /\ view[u].mount = toClient[i].mount
            /\ \A k \in 1..Len(toClient) : AttachedAt(k, u) => k = i
            /\ SlotStays(u) /\ slotOf[u] = toClient[i].slot /\ slotOf[u] \in Slots /\ slotOf[u] # NoSlot
            /\ Fed(toClient, u, slotOf[u], produced[u], i, base)
      BY <3>1, <2>1, <1>1, GivenMeans
    <3>3. (\A k \in 1..Len(toClient') : AttachedAt(k, u)' => k = i) /\ SlotStays(u)'
      BY <3>2, <2>1, <1>2 DEF AttachedAt, SlotStays, AttachAt, DetachAt
    <3>4. produced'[u] = produced[u]
      BY <3>2, <1>4, <1>5
    <3> QED
      BY <3>2, <3>3, <3>4, <2>1, <1>2, GivenIs
  <2>5. ViewsFed'
    <3>1. SUFFICES ASSUME NEW u \in tabs', view'[u].slot # NoSlot
                   PROVE  /\ SlotStays(u)' /\ slotOf'[u] = view'[u].slot
                          /\ Fed(toClient', u, slotOf'[u], produced'[u], 0, view'[u].to)
      BY DEF ViewsFed
    <3>2. /\ u \in Terms /\ SlotStays(u) /\ slotOf[u] = view[u].slot /\ slotOf[u] # NoSlot
          /\ Fed(toClient, u, slotOf[u], produced[u], 0, view[u].to)
      BY <3>1, <1>1, <1>2, ViewFedMeans
    <3>3. produced'[u] = produced[u]
      BY <3>2, <1>4, <1>5
    <3> QED
      BY <3>2, <3>3, <2>1, <1>2 DEF SlotStays, AttachAt, DetachAt
  <2> QED
    BY <1>1, <1>2, <2>2, <2>3, <2>4, <2>5 DEF TerminalsInv
<1>6. CASE slotOf[t] # NoSlot
  <2>1. PICK o : o = Output(t, slotOf[t], produced[t] + 1)
    OBVIOUS
  <2>2. slotOf[t] \in Slots /\ connected
    BY <1>1, <1>3, <1>6 DEF SlotOrNone, NothingFed, NobodyAttached, TerminalTypes
  <2>3. /\ o \in ClientFrames /\ o.type = "output" /\ o.term = t /\ o.slot = slotOf[t]
        /\ o.chunk = produced[t] + 1
    BY <2>1, <2>2, <1>3 DEF Output, ClientFrames
  <2>4. /\ toClient' \in Seq(ClientFrames) /\ Len(toClient') = Len(toClient) + 1
        /\ toClient'[Len(toClient) + 1] = o /\ toClient' = Append(toClient, o)
        /\ \A i \in 1..Len(toClient) : i \in 1..Len(toClient') /\ toClient'[i] = toClient[i]
    BY <1>2, <1>3, <1>6, <2>1, <2>3, PipeAdded
  <2>5. \A i \in 1..Len(toClient') : i \in 1..Len(toClient) \/ toClient'[i] = o
    BY <1>3, <2>4
  <2>6. TerminalTypes' /\ SlotsApart'
    BY <1>1, <1>2, <1>4, <2>4 DEF TerminalTypes, SlotsApart
  <2>7. NothingFed'
    <3>1. \A i \in 1..Len(toClient') : toClient'[i].type # "failed"
      BY <1>1, <2>3, <2>4, <2>5
    <3> QED
      BY <3>1, <1>1, <1>2, <2>2 DEF NothingFed
  <2>8. \A k \in 1..Len(toClient'), u \in Terms : AttachedAt(k, u)' => k \in 1..Len(toClient) /\ AttachedAt(k, u)
    BY <2>3, <2>4, <2>5 DEF AttachedAt
  <2>9. AttachesAwaited'
    <3>1. SUFFICES ASSUME NEW i \in 1..Len(toServer'), toServer'[i].type = "attach"
                   PROVE  Awaited(i)'
      BY DEF AttachesAwaited
    <3>2. Awaited(i) /\ toServer[i].term \in Terms
      BY <3>1, <1>1, <1>2 DEF AttachesAwaited, Awaited, TerminalTypes
    <3> QED
      BY <3>2, <2>8, <1>2 DEF Awaited, AttachAt, DetachAt
  <2>10. KeysAtHome'
    BY <1>1, <1>2 DEF KeysAtHome, DetachAt
  <2>11. \A u \in Terms, j \in 0..Len(toClient), base \in Nat :
           Fed(toClient, u, slotOf[u], produced[u], j, base) /\ slotOf[u] # NoSlot =>
             Fed(toClient', u, slotOf'[u], produced'[u], j, base)
    <3> TAKE u \in Terms, j \in 0..Len(toClient), base \in Nat
    <3> HAVE Fed(toClient, u, slotOf[u], produced[u], j, base) /\ slotOf[u] # NoSlot
    <3>1. CASE u = t
      <4>1. Fed(toClient', t, slotOf[t], produced[t] + 1, j, base)
        BY <3>1, <1>3, <2>3, <2>4, FedGrows
      <4> QED
        BY <4>1, <3>1, <1>2, <1>4
    <3>2. CASE u # t
      <4>1. slotOf[u] # slotOf[t]
        BY <3>2, <1>1 DEF SlotsApart
      <4>2. Fed(toClient', u, slotOf[u], produced[u], j, base)
        BY <3>2, <4>1, <1>3, <2>3, <2>4, FedStays
      <4> QED
        BY <4>2, <3>2, <1>2, <1>4
    <3> QED
      BY <3>1, <3>2
  <2>12. AnswersGiven'
    <3>1. SUFFICES ASSUME NEW i \in 1..Len(toClient'), toClient'[i].type = "attached"
                   PROVE  Given(i)'
      BY DEF AnswersGiven
    <3>2. i \in 1..Len(toClient) /\ toClient'[i] = toClient[i]
      BY <3>1, <2>3, <2>4, <2>5
    <3>3. PICK u \in Terms, base \in Nat :
            /\ u = toClient[i].term /\ base = toClient[i].to /\ toClient[i].slot \in Slots
            /\ u \in tabs /\ view[u].slot = NoSlot /\ view[u].mount = toClient[i].mount
            /\ \A k \in 1..Len(toClient) : AttachedAt(k, u) => k = i
            /\ SlotStays(u) /\ slotOf[u] = toClient[i].slot /\ slotOf[u] \in Slots /\ slotOf[u] # NoSlot
            /\ Fed(toClient, u, slotOf[u], produced[u], i, base)
      BY <3>1, <3>2, <1>1, GivenMeans
    <3>4. (\A k \in 1..Len(toClient') : AttachedAt(k, u)' => k = i) /\ SlotStays(u)'
      BY <3>3, <2>8, <1>2 DEF SlotStays, AttachAt, DetachAt
    <3>5. i \in 0..Len(toClient)
      BY <3>2, <1>3
    <3>6. Fed(toClient', u, slotOf'[u], produced'[u], i, base)
      BY <3>3, <3>5, <2>11
    <3> QED
      BY <3>2, <3>3, <3>4, <3>6, <1>2, GivenIs
  <2>13. ViewsFed'
    <3>1. SUFFICES ASSUME NEW u \in tabs', view'[u].slot # NoSlot
                   PROVE  /\ SlotStays(u)' /\ slotOf'[u] = view'[u].slot
                          /\ Fed(toClient', u, slotOf'[u], produced'[u], 0, view'[u].to)
      BY DEF ViewsFed
    <3>2. /\ u \in Terms /\ SlotStays(u) /\ slotOf[u] = view[u].slot /\ slotOf[u] # NoSlot
          /\ view[u].to \in Nat /\ Fed(toClient, u, slotOf[u], produced[u], 0, view[u].to)
      BY <3>1, <1>1, <1>2, ViewFedMeans
    <3>3. 0 \in 0..Len(toClient)
      BY <1>3
    <3>4. Fed(toClient', u, slotOf'[u], produced'[u], 0, view[u].to)
      BY <3>2, <3>3, <2>11
    <3> QED
      BY <3>2, <3>4, <1>2 DEF SlotStays, AttachAt, DetachAt
  <2> QED
    BY <1>1, <1>2, <2>6, <2>7, <2>9, <2>10, <2>12, <2>13 DEF TerminalsInv
<1> QED
  BY <1>5, <1>6

(* A key is typed into a view that has its slot. *)
LEMMA KeyTyped ==
  ASSUME TerminalsInv, terminals # {}, NEW t \in Terms, Type(t)
  PROVE  TerminalsInv'
<1>1. /\ terminals = Terms /\ TerminalTypes /\ SlotsApart /\ ~crossed
      /\ AttachesAwaited /\ AnswersGiven /\ ViewsFed /\ KeysAtHome /\ NothingFed
      /\ \A i \in 1..Len(toClient) : toClient[i].type # "failed"
      /\ \A u \in Terms : u \notin tabs => view[u].slot = NoSlot
  BY TerminalsAreAll DEF TerminalsInv
<1>2. /\ t \in tabs /\ view[t].slot # NoSlot /\ toServer' = Append(toServer, Input(t, view[t].slot))
      /\ UNCHANGED <<terminals, produced, slotOf, connected, toClient, tabs, view, crossed>>
  BY DEF Type
<1>3. SlotStays(t) /\ slotOf[t] = view[t].slot /\ slotOf[t] \in Slots /\ slotOf[t] # NoSlot
  BY <1>1, <1>2, ViewFedMeans
<1>4. connected
  BY <1>1, <1>3 DEF NothingFed, NobodyAttached
<1>5. PICK k : k = Input(t, view[t].slot)
  OBVIOUS
<1>6. k \in ServerFrames /\ k.type = "input" /\ k.term = t /\ k.slot = slotOf[t]
  BY <1>3, <1>5 DEF Input, ServerFrames
<1>7. toServer \in Seq(ServerFrames) /\ Len(toServer) \in Nat
  BY <1>1 DEF TerminalTypes
<1>8. /\ toServer' \in Seq(ServerFrames) /\ Len(toServer') = Len(toServer) + 1
      /\ toServer'[Len(toServer) + 1] = k
      /\ \A i \in 1..Len(toServer) : i \in 1..Len(toServer') /\ toServer'[i] = toServer[i]
  BY <1>2, <1>5, <1>6, <1>7, PipeAdded
<1>9. \A i \in 1..Len(toServer') : i \in 1..Len(toServer) \/ (i = Len(toServer) + 1 /\ toServer'[i] = k)
  BY <1>7, <1>8
<1>10. /\ \A u : \A i \in 1..Len(toServer') : AttachAt(i, u)' => i \in 1..Len(toServer) /\ AttachAt(i, u)
       /\ \A u : \A i \in 1..Len(toServer') : DetachAt(i, u)' => i \in 1..Len(toServer) /\ DetachAt(i, u)
  BY <1>6, <1>8, <1>9 DEF AttachAt, DetachAt
<1>11. \A u : SlotStays(u) => SlotStays(u)'
  BY <1>10 DEF SlotStays
<1>12. TerminalTypes' /\ NothingFed' /\ SlotsApart'
  BY <1>1, <1>2, <1>4, <1>8 DEF TerminalTypes, NothingFed, SlotsApart
<1>13. AttachesAwaited'
  <2>1. SUFFICES ASSUME NEW i \in 1..Len(toServer'), toServer'[i].type = "attach"
                 PROVE  Awaited(i)'
    BY DEF AttachesAwaited
  <2>2. i \in 1..Len(toServer) /\ toServer'[i] = toServer[i]
    BY <2>1, <1>6, <1>8, <1>9
  <2>3. Awaited(i)
    BY <2>1, <2>2, <1>1 DEF AttachesAwaited
  <2> QED
    BY <2>2, <2>3, <1>2, <1>10 DEF Awaited, AttachedAt
<1>14. AnswersGiven' /\ ViewsFed'
  BY <1>1, <1>2, <1>11, AnswersKept
<1>15. KeysAtHome'
  <2>1. SUFFICES ASSUME NEW i \in 1..Len(toServer'), toServer'[i].type = "input"
                 PROVE  /\ slotOf'[toServer'[i].term] = toServer'[i].slot
                        /\ \A l \in 1..Len(toServer') :
                             toServer'[l].type = "detach" /\ toServer'[l].term = toServer'[i].term => l > i
    BY DEF KeysAtHome, DetachAt
  <2>2. CASE i \in 1..Len(toServer)
    <3>1. toServer'[i] = toServer[i] /\ toServer[i].type = "input"
      BY <2>1, <2>2, <1>8
    <3>2. PICK u : u = toServer[i].term
      OBVIOUS
    <3>3. slotOf[u] = toServer[i].slot /\ \A l \in 1..Len(toServer) : DetachAt(l, u) => l > i
      BY <3>1, <3>2, <2>2, <1>1 DEF KeysAtHome
    <3> QED
      BY <3>1, <3>2, <3>3, <1>2, <1>10 DEF DetachAt
  <2>3. CASE toServer'[i] = k
    BY <2>3, <1>2, <1>3, <1>6, <1>10 DEF SlotStays, DetachAt
  <2> QED
    BY <2>2, <2>3, <1>9
<1> QED
  BY <1>1, <1>2, <1>12, <1>13, <1>14, <1>15 DEF TerminalsInv

(* Views mounted anew wait for a slot that each of them asks for once, last in the pipe. *)
LEMMA MountedAsk ==
  ASSUME TerminalTypes, NEW newTabs \in SUBSET Terms, tabs' = newTabs, view' = Mounted(newTabs),
         NEW ahead \in Seq(ServerFrames), toServer' = ahead \o Attaches(newTabs),
         \A i \in 1..Len(ahead) : ahead[i].type # "attach",
         \A k \in 1..Len(toClient') : toClient'[k].type # "attached"
  PROVE  /\ toServer' \in Seq(ServerFrames) /\ view' \in [Terms -> [mount : Nat, slot : SlotOrNone, from : Nat, to : Nat]]
         /\ \A t \in Terms : view'[t].slot = NoSlot
         /\ AttachesAwaited' /\ AnswersGiven' /\ ViewsFed'
         /\ \A i \in 1..Len(toServer') : (i \in 1..Len(ahead) /\ toServer'[i] = ahead[i]) \/ toServer'[i].type = "attach"
<1>1. \A t \in Terms : view[t].mount \in Nat
  BY DEF TerminalTypes
<1>2. view' = [t \in Terms |->
        [mount |-> IF t \in newTabs THEN view[t].mount + 1 ELSE view[t].mount, slot |-> NoSlot, from |-> 0, to |-> 0]]
  BY DEF Mounted, Unattached
<1>3. /\ view' \in [Terms -> [mount : Nat, slot : SlotOrNone, from : Nat, to : Nat]]
      /\ \A t \in Terms : view'[t].slot = NoSlot
      /\ \A t \in newTabs : view'[t].mount = view[t].mount + 1
  BY <1>1, <1>2 DEF SlotOrNone
<1>4. PICK asks : asks = Attaches(newTabs)
  OBVIOUS
<1>5. /\ asks \in Seq(ServerFrames)
      /\ \A i \in 1..Len(asks) : /\ asks[i].type = "attach" /\ asks[i].term \in newTabs
                                 /\ asks[i].mount = view[asks[i].term].mount + 1
      /\ \A i, k \in 1..Len(asks) : asks[i].term = asks[k].term => i = k
  BY <1>4, AttachesAre
<1>6. /\ toServer' \in Seq(ServerFrames) /\ Len(ahead) \in Nat /\ Len(asks) \in Nat
      /\ Len(toServer') = Len(ahead) + Len(asks)
      /\ \A i \in 1..Len(ahead) : toServer'[i] = ahead[i]
      /\ \A i \in 1..Len(toServer') :
           i \in 1..Len(ahead) \/ (i - Len(ahead) \in 1..Len(asks) /\ toServer'[i] = asks[i - Len(ahead)])
  BY <1>4, <1>5, PipeJoined
<1>7. \A i \in 1..Len(asks) : asks[i].type = "attach"
  BY <1>5
<1>8. \A i \in 1..Len(toServer') : (i \in 1..Len(ahead) /\ toServer'[i] = ahead[i]) \/ toServer'[i].type = "attach"
  BY <1>6, <1>7
<1>9. AttachesAwaited'
  <2>1. SUFFICES ASSUME NEW i \in 1..Len(toServer'), toServer'[i].type = "attach"
                 PROVE  Awaited(i)'
    BY DEF AttachesAwaited
  <2>2. i - Len(ahead) \in 1..Len(asks) /\ toServer'[i] = asks[i - Len(ahead)]
    BY <2>1, <1>6
  <2>3. PICK t \in newTabs : toServer'[i].term = t /\ toServer'[i].mount = view[t].mount + 1
    BY <2>2, <1>5
  <2>4. \A k \in 1..Len(toServer') : AttachAt(k, t)' => k = i
    <3>1. SUFFICES ASSUME NEW k \in 1..Len(toServer'), AttachAt(k, t)'
                   PROVE  k = i
      OBVIOUS
    <3>2. k - Len(ahead) \in 1..Len(asks) /\ toServer'[k] = asks[k - Len(ahead)]
      BY <3>1, <1>6 DEF AttachAt
    <3>3. PICK m, n \in 1..Len(asks) : m = i - Len(ahead) /\ n = k - Len(ahead)
      BY <3>2, <2>2
    <3>4. asks[m].term = t /\ asks[n].term = t
      BY <3>1, <3>2, <3>3, <2>2, <2>3 DEF AttachAt
    <3>5. m = n
      BY <3>4, <1>5
    <3> QED
      BY <3>3, <3>5, <1>6
  <2>5. \A k \in 1..Len(toServer') : DetachAt(k, t)' => k < i
    <3>1. SUFFICES ASSUME NEW k \in 1..Len(toServer'), DetachAt(k, t)'
                   PROVE  k < i
      OBVIOUS
    <3>2. k \in 1..Len(ahead)
      BY <3>1, <1>8 DEF DetachAt
    <3> QED
      BY <3>2, <2>2, <1>6
  <2> QED
    BY <2>3, <2>4, <2>5, <1>3 DEF Awaited, AttachedAt
<1>10. AnswersGiven'
  BY DEF AnswersGiven
<1>11. ViewsFed'
  BY <1>3 DEF ViewsFed
<1> QED
  BY <1>3, <1>6, <1>8, <1>9, <1>10, <1>11

(* The tabs are mounted again when no view waits. *)
LEMMA TabsRendered ==
  ASSUME TerminalsInv, terminals # {}, Barred({"remount"}), Render
  PROVE  TerminalsInv'
<1>1. /\ terminals = Terms /\ TerminalTypes /\ SlotsApart /\ ~crossed
      /\ AttachesAwaited /\ AnswersGiven /\ ViewsFed /\ KeysAtHome /\ NothingFed
      /\ \A i \in 1..Len(toClient) : toClient[i].type # "failed"
      /\ \A u \in Terms : u \notin tabs => view[u].slot = NoSlot
  BY TerminalsAreAll DEF TerminalsInv
<1>2. Waiting = {}
  BY DEF Render, Barred, Allows
<1>3. PICK newTabs \in SUBSET terminals :
        Rendered(newTabs) /\ toServer' = toServer \o Detaches(tabs) \o Attaches(newTabs)
  BY DEF Render
<1>4. newTabs \in SUBSET Terms /\ tabs \in SUBSET Terms /\ toServer \in Seq(ServerFrames)
  BY <1>1, <1>3 DEF TerminalTypes
<1>5. tabs' = newTabs /\ view' = Mounted(newTabs) /\ connected
      /\ UNCHANGED <<terminals, produced, slotOf, connected, toClient, crossed>>
  BY <1>3 DEF Rendered, Render
<1>6. PICK gone : gone = Detaches(tabs)
  OBVIOUS
<1>7. gone \in Seq(ServerFrames) /\ \A i \in 1..Len(gone) : gone[i].type = "detach"
  BY <1>4, <1>6, DetachesAre
<1>8. PICK ahead : ahead = toServer \o gone
  OBVIOUS
<1>9. /\ ahead \in Seq(ServerFrames) /\ Len(toServer) \in Nat /\ Len(gone) \in Nat
      /\ Len(ahead) = Len(toServer) + Len(gone)
      /\ \A i \in 1..Len(toServer) : ahead[i] = toServer[i]
      /\ \A i \in 1..Len(ahead) :
           i \in 1..Len(toServer) \/ (i - Len(toServer) \in 1..Len(gone) /\ ahead[i] = gone[i - Len(toServer)])
  BY <1>4, <1>7, <1>8, PipeJoined
<1>10. \A i \in 1..Len(toServer) : toServer[i].type # "attach"
  BY <1>1, <1>2 DEF AttachesAwaited, Awaited, Waiting
<1>11. \A i \in 1..Len(toClient) : toClient[i].type # "attached"
  BY <1>1, <1>2 DEF AnswersGiven, Given, Waiting
<1>12. \A i \in 1..Len(ahead) : ahead[i].type # "attach"
  BY <1>7, <1>9, <1>10
<1>13. toServer' = ahead \o Attaches(newTabs)
  BY <1>3, <1>6, <1>8
<1>14. /\ toServer' \in Seq(ServerFrames)
       /\ view' \in [Terms -> [mount : Nat, slot : SlotOrNone, from : Nat, to : Nat]]
       /\ \A t \in Terms : view'[t].slot = NoSlot
       /\ AttachesAwaited' /\ AnswersGiven' /\ ViewsFed'
       /\ \A i \in 1..Len(toServer') : (i \in 1..Len(ahead) /\ toServer'[i] = ahead[i]) \/ toServer'[i].type = "attach"
  BY <1>1, <1>4, <1>5, <1>9, <1>11, <1>12, <1>13, MountedAsk, ZenonT(30)
<1>15. TerminalTypes' /\ SlotsApart'
  BY <1>1, <1>4, <1>5, <1>14 DEF TerminalTypes, SlotsApart
<1>16. NothingFed'
  BY <1>1, <1>5, <1>14 DEF NothingFed
<1>17. KeysAtHome'
  <2>1. SUFFICES ASSUME NEW i \in 1..Len(toServer'), toServer'[i].type = "input"
                 PROVE  /\ slotOf'[toServer'[i].term] = toServer'[i].slot
                        /\ \A l \in 1..Len(toServer') :
                             toServer'[l].type = "detach" /\ toServer'[l].term = toServer'[i].term => l > i
    BY DEF KeysAtHome, DetachAt
  <2>2. i \in 1..Len(toServer) /\ toServer'[i] = toServer[i] /\ toServer[i].type = "input"
    BY <2>1, <1>7, <1>9, <1>14
  <2>3. PICK u : u = toServer[i].term
    OBVIOUS
  <2>4. slotOf[u] = toServer[i].slot /\ \A l \in 1..Len(toServer) : DetachAt(l, u) => l > i
    BY <2>2, <2>3, <1>1 DEF KeysAtHome
  <2>5. ASSUME NEW l \in 1..Len(toServer'), toServer'[l].type = "detach", toServer'[l].term = u
        PROVE  l > i
    <3>1. l \in 1..Len(ahead) /\ toServer'[l] = ahead[l]
      BY <2>5, <1>14
    <3>2. CASE l \in 1..Len(toServer)
      BY <3>1, <3>2, <2>4, <2>5, <1>9 DEF DetachAt
    <3>3. CASE l \notin 1..Len(toServer)
      BY <3>1, <3>3, <2>2, <1>9
    <3> QED
      BY <3>2, <3>3
  <2> QED
    BY <2>2, <2>3, <2>4, <2>5, <1>5
<1> QED
  BY <1>1, <1>5, <1>14, <1>15, <1>16, <1>17 DEF TerminalsInv

(* What taking a frame does to the pipe it comes from. *)
LEMMA FrameTaken ==
  ASSUME TerminalTypes, Take
  PROVE  /\ toClient # <<>> /\ toClient[1] \in ClientFrames /\ 1 \in 1..Len(toClient)
         /\ toClient' = Tail(toClient) /\ toClient' \in Seq(ClientFrames)
         /\ Len(toClient) \in Nat /\ Len(toClient') \in Nat
         /\ \A i \in 1..Len(toClient') : i + 1 \in 1..Len(toClient) /\ toClient'[i] = toClient[i + 1]
         /\ UNCHANGED <<terminals, produced, slotOf, connected>>
         /\ \/ toClient[1].type = "attached" /\ TakeAnswer(toClient[1])
            \/ toClient[1].type = "output" /\ TakeOutput(toClient[1])
            \/ toClient[1].type = "failed" /\ TakeFailure
<1>1. toClient # <<>> /\ toClient \in Seq(ClientFrames) /\ toClient' = Tail(toClient)
  BY DEF Take, TerminalTypes
<1> HIDE DEF ClientFrames
<1>2. /\ Len(toClient) \in Nat /\ Len(toClient) >= 1 /\ Head(toClient) = toClient[1] /\ toClient[1] \in ClientFrames
      /\ Tail(toClient) \in Seq(ClientFrames) /\ Len(Tail(toClient)) = Len(toClient) - 1
      /\ \A i \in 1..Len(Tail(toClient)) : i + 1 \in 1..Len(toClient) /\ Tail(toClient)[i] = toClient[i + 1]
  BY <1>1, PipeTaken
<1>3. /\ toClient' \in Seq(ClientFrames) /\ Len(toClient') \in Nat
      /\ \A i \in 1..Len(toClient') : i + 1 \in 1..Len(toClient) /\ toClient'[i] = toClient[i + 1]
  BY <1>1, <1>2
<1>4. UNCHANGED <<terminals, produced, slotOf, connected>>
  BY DEF Take
<1>5. \/ toClient[1].type = "attached" /\ TakeAnswer(toClient[1])
      \/ toClient[1].type = "output" /\ TakeOutput(toClient[1])
      \/ toClient[1].type = "failed" /\ TakeFailure
  BY <1>2 DEF Take
<1> QED
  BY <1>1, <1>2, <1>3, <1>4, <1>5

(* Answers further back keep what they give if their views go on waiting. *)
LEMMA GivenTaken ==
  ASSUME TerminalTypes, Take, AnswersGiven, UNCHANGED <<toServer, tabs>>,
         \A t \in Terms : view[t].slot = NoSlot /\ (\E k \in 1..Len(toClient') : AttachedAt(k, t)') =>
           (view'[t].slot = NoSlot /\ view'[t].mount = view[t].mount) \/ AttachedAt(1, t)
  PROVE  AnswersGiven'
<1>1. /\ toClient # <<>> /\ 1 \in 1..Len(toClient) /\ Len(toClient) \in Nat
      /\ toClient' = Tail(toClient)
      /\ \A i \in 1..Len(toClient') : i + 1 \in 1..Len(toClient) /\ toClient'[i] = toClient[i + 1]
      /\ UNCHANGED <<terminals, produced, slotOf, connected>>
  BY FrameTaken
<1>2. SUFFICES ASSUME NEW i \in 1..Len(toClient'), toClient'[i].type = "attached"
               PROVE  Given(i)'
  BY DEF AnswersGiven
<1>3. i + 1 \in 1..Len(toClient) /\ toClient'[i] = toClient[i + 1] /\ i \in Nat /\ i + 1 \in Nat /\ i >= 1
  BY <1>1, <1>2
<1>4. PICK j : j = i + 1
  OBVIOUS
<1>5. PICK u \in Terms, base \in Nat :
        /\ u = toClient[j].term /\ base = toClient[j].to /\ toClient[j].slot \in Slots
        /\ u \in tabs /\ view[u].slot = NoSlot /\ view[u].mount = toClient[j].mount
        /\ \A k \in 1..Len(toClient) : AttachedAt(k, u) => k = j
        /\ SlotStays(u) /\ slotOf[u] = toClient[j].slot /\ slotOf[u] \in Slots /\ slotOf[u] # NoSlot
        /\ Fed(toClient, u, slotOf[u], produced[u], j, base)
  BY <1>2, <1>3, <1>4, GivenMeans
<1>6. ~AttachedAt(1, u)
  BY <1>1, <1>3, <1>4, <1>5
<1>7. AttachedAt(i, u)'
  BY <1>2, <1>3, <1>4, <1>5 DEF AttachedAt
<1>8. view'[u].slot = NoSlot /\ view'[u].mount = view[u].mount
  BY <1>5, <1>6, <1>7
<1>9. \A k \in 1..Len(toClient') : AttachedAt(k, u)' => k = i
  <2>1. SUFFICES ASSUME NEW k \in 1..Len(toClient'), AttachedAt(k, u)'
                 PROVE  k = i
    OBVIOUS
  <2>2. k + 1 \in 1..Len(toClient) /\ AttachedAt(k + 1, u)
    BY <2>1, <1>1 DEF AttachedAt
  <2> QED
    BY <2>2, <1>4, <1>5
<1>10. SlotStays(u)'
  BY <1>5 DEF SlotStays, AttachAt, DetachAt
<1>11. toClient \in Seq(ClientFrames) /\ produced[u] \in Nat
  BY <1>5 DEF TerminalTypes
<1>12. Fed(toClient', u, slotOf[u], produced[u], i, base)
  BY <1>1, <1>3, <1>4, <1>5, <1>11, FedShifts
<1> QED
  BY <1>1, <1>3, <1>4, <1>5, <1>8, <1>9, <1>10, <1>12, GivenIs

Views == [Terms -> [mount : Nat, slot : SlotOrNone, from : Nat, to : Nat]]
WithSlot(views, t, slot, from, to) == [views EXCEPT ![t].slot = slot, ![t].from = from, ![t].to = to]

LEMMA SlotSet ==
  ASSUME NEW views \in Views,
         NEW t \in Terms, NEW slot \in SlotOrNone, NEW from \in Nat, NEW to \in Nat
  PROVE  LET next == WithSlot(views, t, slot, from, to) IN
         /\ next \in Views
         /\ next[t].mount = views[t].mount /\ next[t].slot = slot /\ next[t].to = to
         /\ \A u \in Terms : u # t => next[u] = views[u]
BY DEF WithSlot, Views

(* The view the answer is for is still there: it shows the snapshot and is fed from there on. *)
LEMMA AnswerTaken ==
  ASSUME TerminalsInv, terminals # {}, Take, toClient[1].type = "attached"
  PROVE  TerminalsInv'
<1>1. /\ terminals = Terms /\ TerminalTypes /\ SlotsApart /\ ~crossed
      /\ AttachesAwaited /\ AnswersGiven /\ ViewsFed /\ KeysAtHome
      /\ \A i \in 1..Len(toClient) : toClient[i].type # "failed"
      /\ \A u \in Terms : u \notin tabs => view[u].slot = NoSlot
  BY TerminalsAreAll DEF TerminalsInv
<1>2. /\ toClient # <<>> /\ toClient[1] \in ClientFrames /\ 1 \in 1..Len(toClient)
      /\ toClient' = Tail(toClient) /\ toClient' \in Seq(ClientFrames) /\ Len(toClient) \in Nat
      /\ \A i \in 1..Len(toClient') : i + 1 \in 1..Len(toClient) /\ toClient'[i] = toClient[i + 1]
      /\ UNCHANGED <<terminals, produced, slotOf, connected>>
      /\ TakeAnswer(toClient[1])
  BY <1>1, FrameTaken
<1>3. connected
  BY <1>2, TerminalsAreAll
<1>4. PICK t \in Terms, base \in Nat :
        /\ t = toClient[1].term /\ base = toClient[1].to /\ toClient[1].slot \in Slots
        /\ t \in tabs /\ view[t].slot = NoSlot /\ view[t].mount = toClient[1].mount
        /\ \A k \in 1..Len(toClient) : AttachedAt(k, t) => k = 1
        /\ SlotStays(t) /\ slotOf[t] = toClient[1].slot /\ slotOf[t] \in Slots /\ slotOf[t] # NoSlot
        /\ Fed(toClient, t, slotOf[t], produced[t], 1, base)
  BY <1>1, <1>2, GivenMeans
<1>5. PICK from \in Nat : from = toClient[1].from
  BY <1>2 DEF ClientFrames
<1>6. /\ view' = [view EXCEPT ![t].slot = toClient[1].slot, ![t].from = toClient[1].from, ![t].to = toClient[1].to]
      /\ UNCHANGED <<toServer, tabs, crossed>>
  BY <1>2, <1>4 DEF TakeAnswer
<1>7. view \in Views
  BY <1>1 DEF TerminalTypes, Views
<1>8. view' = WithSlot(view, t, slotOf[t], from, base) /\ slotOf[t] \in SlotOrNone
  BY <1>4, <1>5, <1>6 DEF WithSlot, SlotOrNone
<1>9. /\ view' \in Views
      /\ view'[t].slot = slotOf[t] /\ view'[t].to = base
      /\ \A u \in Terms : u # t => view'[u] = view[u]
  <2>1. PICK next : next = WithSlot(view, t, slotOf[t], from, base)
    OBVIOUS
  <2>2. /\ next \in Views
        /\ next[t].slot = slotOf[t] /\ next[t].to = base
        /\ \A u \in Terms : u # t => next[u] = view[u]
    BY <2>1, <1>7, <1>8, SlotSet
  <2> QED
    BY <2>1, <2>2, <1>8
<1>10. TerminalTypes' /\ SlotsApart'
  BY <1>1, <1>2, <1>6, <1>9, SMTT(30) DEF TerminalTypes, SlotsApart, Views
<1>11. NothingFed'
  <2>1. \A i \in 1..Len(toClient') : toClient'[i].type # "failed"
    BY <1>1, <1>2
  <2>2. \A u \in Terms : u \notin tabs' => view'[u].slot = NoSlot
    BY <1>1, <1>4, <1>6, <1>9
  <2> QED
    BY <2>1, <2>2, <1>1, <1>2, <1>3 DEF NothingFed
<1>12. AttachedAt(1, t)
  BY <1>4, <1>1, <1>2 DEF AttachedAt
<1>13. AttachesAwaited'
  <2>1. SUFFICES ASSUME NEW i \in 1..Len(toServer'), toServer'[i].type = "attach"
                 PROVE  Awaited(i)'
    BY DEF AttachesAwaited
  <2>2. PICK u : u = toServer[i].term
    OBVIOUS
  <2>3. Awaited(i) /\ u \in tabs
    BY <2>1, <2>2, <1>1, <1>6 DEF AttachesAwaited, Awaited
  <2>4. \A k \in 1..Len(toClient) : ~AttachedAt(k, u)
    BY <2>2, <2>3 DEF Awaited
  <2>5. u # t /\ u \in Terms
    BY <2>3, <2>4, <1>1, <1>2, <1>12 DEF TerminalTypes
  <2>6. \A k \in 1..Len(toClient') : ~AttachedAt(k, u)'
    BY <2>4, <1>2 DEF AttachedAt
  <2> QED
    BY <2>2, <2>3, <2>5, <2>6, <1>6, <1>9 DEF Awaited, AttachAt, DetachAt
<1>14. AnswersGiven'
  <2>1. \A u \in Terms : view[u].slot = NoSlot /\ (\E k \in 1..Len(toClient') : AttachedAt(k, u)') =>
          (view'[u].slot = NoSlot /\ view'[u].mount = view[u].mount) \/ AttachedAt(1, u)
    BY <1>9, <1>12
  <2> QED
    BY <2>1, <1>1, <1>6, GivenTaken
<1>15. ViewsFed'
  <2>1. SUFFICES ASSUME NEW u \in tabs', view'[u].slot # NoSlot
                 PROVE  /\ SlotStays(u)' /\ slotOf'[u] = view'[u].slot
                        /\ Fed(toClient', u, slotOf'[u], produced'[u], 0, view'[u].to)
    BY DEF ViewsFed
  <2>2. u \in Terms /\ produced[u] \in Nat /\ toClient \in Seq(ClientFrames)
    BY <2>1, <1>1, <1>6 DEF TerminalTypes
  <2>3. CASE u = t
    <3>1. Fed(toClient', t, slotOf[t], produced[t], 0, base)
      BY <2>2, <2>3, <1>2, <1>4, FedShifts
    <3>2. SlotStays(t)'
      BY <1>4, <1>6 DEF SlotStays, AttachAt, DetachAt
    <3> QED
      BY <3>1, <3>2, <2>3, <1>2, <1>9
  <2>4. CASE u # t
    <3>1. view'[u] = view[u] /\ u \in tabs /\ view[u].slot # NoSlot
      BY <2>1, <2>2, <2>4, <1>6, <1>9
    <3>2. /\ view[u].to \in Nat /\ SlotStays(u) /\ slotOf[u] = view[u].slot
          /\ Fed(toClient, u, slotOf[u], produced[u], 0, view[u].to)
      BY <3>1, <1>1, ViewFedMeans
    <3>3. Fed(toClient', u, slotOf[u], produced[u], 0, view[u].to)
      BY <3>2, <2>2, <1>2, FedShifts
    <3>4. SlotStays(u)'
      BY <3>2, <1>6 DEF SlotStays, AttachAt, DetachAt
    <3> QED
      BY <3>1, <3>2, <3>3, <3>4, <1>2
  <2> QED
    BY <2>3, <2>4
<1>16. KeysAtHome'
  BY <1>1, <1>2, <1>6 DEF KeysAtHome, DetachAt
<1> QED
  BY <1>1, <1>2, <1>6, <1>10, <1>11, <1>13, <1>14, <1>15, <1>16 DEF TerminalsInv

(* Output is shown by the one view that is its own, and is the chunk that view waits for. *)
LEMMA OutputTaken ==
  ASSUME TerminalsInv, terminals # {}, Take, toClient[1].type = "output"
  PROVE  TerminalsInv'
<1>1. /\ terminals = Terms /\ TerminalTypes /\ SlotsApart /\ ~crossed
      /\ AttachesAwaited /\ AnswersGiven /\ ViewsFed /\ KeysAtHome
      /\ \A i \in 1..Len(toClient) : toClient[i].type # "failed"
      /\ \A u \in Terms : u \notin tabs => view[u].slot = NoSlot
  BY TerminalsAreAll DEF TerminalsInv
<1>2. /\ toClient # <<>> /\ toClient[1] \in ClientFrames /\ 1 \in 1..Len(toClient)
      /\ toClient' = Tail(toClient) /\ toClient' \in Seq(ClientFrames) /\ Len(toClient) \in Nat
      /\ \A i \in 1..Len(toClient') : i + 1 \in 1..Len(toClient) /\ toClient'[i] = toClient[i + 1]
      /\ UNCHANGED <<terminals, produced, slotOf, connected>>
      /\ TakeOutput(toClient[1])
  BY <1>1, FrameTaken
<1>3. connected
  BY <1>2, TerminalsAreAll
<1>4. PICK slot \in Slots, chunk \in Nat : slot = toClient[1].slot /\ chunk = toClient[1].chunk
  BY <1>2 DEF ClientFrames
<1>5. slot # NoSlot
  BY <1>4, TerminalsAssumption DEF NoSlot
<1>6. PICK readers : readers = {t \in tabs : view[t].slot = slot}
  OBVIOUS
<1>7. /\ view' = [t \in Terms |-> IF t \in readers THEN [view[t] EXCEPT !.to = chunk] ELSE view[t]]
      /\ crossed' = (crossed \/ \E t \in readers : t # toClient[1].term \/ chunk # view[t].to + 1)
      /\ UNCHANGED <<toServer, tabs>>
  BY <1>2, <1>4, <1>6 DEF TakeOutput
<1>8. view \in [Terms -> [mount : Nat, slot : SlotOrNone, from : Nat, to : Nat]]
  BY <1>1 DEF TerminalTypes
<1>9. /\ view' \in [Terms -> [mount : Nat, slot : SlotOrNone, from : Nat, to : Nat]]
      /\ \A u \in Terms : view'[u].slot = view[u].slot /\ view'[u].mount = view[u].mount
      /\ \A u \in readers \cap Terms : view'[u].to = chunk
      /\ \A u \in Terms \ readers : view'[u] = view[u]
  BY <1>4, <1>7, <1>8
<1>10. ASSUME NEW u \in tabs, view[u].slot # NoSlot
       PROVE  /\ u \in readers => /\ toClient[1].term = u /\ chunk = view[u].to + 1
                                  /\ Fed(toClient', u, slotOf[u], produced[u], 0, chunk)
              /\ u \notin readers => Fed(toClient', u, slotOf[u], produced[u], 0, view[u].to)
  <2>1. /\ u \in Terms /\ view[u].to \in Nat /\ slotOf[u] = view[u].slot
        /\ Fed(toClient, u, slotOf[u], produced[u], 0, view[u].to)
    BY <1>1, <1>10, ViewFedMeans
  <2>2. produced[u] \in Nat /\ toClient \in Seq(ClientFrames)
    BY <2>1, <1>1 DEF TerminalTypes
  <2>3. slotOf[u] = slot <=> toClient[1].term = u
    BY <2>1, <1>2, <1>4 DEF Fed
  <2>4. u \in readers <=> toClient[1].term = u
    BY <2>1, <2>3, <1>6
  <2>5. CASE u \in readers
    BY <2>1, <2>2, <2>4, <2>5, <1>2, <1>4, FedEats
  <2>6. CASE u \notin readers
    BY <2>1, <2>2, <2>4, <2>6, <1>2, FedShifts
  <2> QED
    BY <2>5, <2>6
<1>11. ~crossed'
  <2>1. \A u \in readers : u \in tabs /\ view[u].slot # NoSlot
    BY <1>5, <1>6
  <2>2. \A u \in readers : u = toClient[1].term /\ chunk = view[u].to + 1
    BY <2>1, <1>10
  <2> QED
    BY <2>2, <1>1, <1>7
<1>12. TerminalTypes' /\ SlotsApart'
  BY <1>1, <1>2, <1>7, <1>9, <1>11 DEF TerminalTypes, SlotsApart
<1>13. NothingFed'
  <2>1. \A i \in 1..Len(toClient') : toClient'[i].type # "failed"
    BY <1>1, <1>2
  <2>2. \A u \in Terms : u \notin tabs' => view'[u].slot = NoSlot
    BY <1>1, <1>7, <1>9
  <2> QED
    BY <2>1, <2>2, <1>1, <1>2, <1>3 DEF NothingFed
<1>14. AttachesAwaited'
  <2>1. SUFFICES ASSUME NEW i \in 1..Len(toServer'), toServer'[i].type = "attach"
                 PROVE  Awaited(i)'
    BY DEF AttachesAwaited
  <2>2. PICK u : u = toServer[i].term
    OBVIOUS
  <2>3. Awaited(i) /\ u \in tabs /\ u \in Terms
    BY <2>1, <2>2, <1>1, <1>7 DEF AttachesAwaited, Awaited, TerminalTypes
  <2>4. \A k \in 1..Len(toClient) : ~AttachedAt(k, u)
    BY <2>2, <2>3 DEF Awaited
  <2>5. \A k \in 1..Len(toClient') : ~AttachedAt(k, u)'
    BY <2>4, <1>2 DEF AttachedAt
  <2> QED
    BY <2>2, <2>3, <2>5, <1>7, <1>9 DEF Awaited, AttachAt, DetachAt
<1>15. AnswersGiven'
  BY <1>1, <1>7, <1>9, GivenTaken
<1>16. ViewsFed'
  <2>1. SUFFICES ASSUME NEW u \in tabs', view'[u].slot # NoSlot
                 PROVE  /\ SlotStays(u)' /\ slotOf'[u] = view'[u].slot
                        /\ Fed(toClient', u, slotOf'[u], produced'[u], 0, view'[u].to)
    BY DEF ViewsFed
  <2>2. u \in tabs /\ u \in Terms /\ view[u].slot # NoSlot /\ view'[u].slot = view[u].slot
    BY <2>1, <1>1, <1>7, <1>9 DEF TerminalTypes
  <2>3. SlotStays(u)' /\ slotOf[u] = view[u].slot
    BY <2>2, <1>1, <1>7, ViewFedMeans DEF SlotStays, AttachAt, DetachAt
  <2>4. CASE u \in readers
    BY <2>2, <2>3, <2>4, <1>2, <1>9, <1>10
  <2>5. CASE u \notin readers
    BY <2>2, <2>3, <2>5, <1>2, <1>9, <1>10
  <2> QED
    BY <2>4, <2>5
<1>17. KeysAtHome'
  BY <1>1, <1>2, <1>7 DEF KeysAtHome, DetachAt
<1> QED
  BY <1>1, <1>2, <1>11, <1>12, <1>13, <1>14, <1>15, <1>16, <1>17 DEF TerminalsInv

(* Between connections nothing is under way and no view is fed. *)
LEMMA ConnectionLost ==
  ASSUME TerminalsInv, Disconnect
  PROVE  TerminalsInv'
<1>1. TerminalTypes /\ ~crossed
  BY DEF TerminalsInv
<1>2. /\ connected' = FALSE /\ terminals' \in {terminals, {}}
      /\ slotOf' = [t \in Terms |-> NoSlot] /\ toServer' = <<>> /\ toClient' = <<>>
      /\ view' = [t \in Terms |-> [mount |-> view[t].mount, slot |-> NoSlot, from |-> 0, to |-> 0]]
      /\ UNCHANGED <<produced, tabs, crossed>>
  BY DEF Disconnect, Unattached
<1>3. \A t \in Terms : slotOf'[t] = NoSlot /\ view'[t].slot = NoSlot
  BY <1>2
<1>4. /\ slotOf' \in [Terms -> SlotOrNone]
      /\ view' \in [Terms -> [mount : Nat, slot : SlotOrNone, from : Nat, to : Nat]]
  BY <1>1, <1>2 DEF TerminalTypes, SlotOrNone
<1>5. toServer' \in Seq(ServerFrames) /\ toClient' \in Seq(ClientFrames) /\ Len(toServer') = 0 /\ Len(toClient') = 0
  BY <1>2
<1>6. TerminalTypes'
  BY <1>1, <1>2, <1>4, <1>5 DEF TerminalTypes
<1>7. NothingFed'
  BY <1>2, <1>3, <1>5 DEF NothingFed, NobodyAttached
<1>8. SlotsApart'
  BY <1>3 DEF SlotsApart
<1>9. AttachesAwaited' /\ AnswersGiven' /\ KeysAtHome'
  BY <1>5 DEF AttachesAwaited, AnswersGiven, KeysAtHome
<1>10. ViewsFed'
  BY <1>3, <1>6 DEF ViewsFed, TerminalTypes
<1> QED
  BY <1>1, <1>2, <1>6, <1>7, <1>8, <1>9, <1>10 DEF TerminalsInv

(* With a new connection every view asks for its slot. *)
LEMMA ConnectionMade ==
  ASSUME TerminalsInv, Reconnect
  PROVE  TerminalsInv'
<1>1. TerminalTypes /\ NothingFed /\ ~crossed /\ ~connected
  BY DEF TerminalsInv, Reconnect
<1>2. toClient = <<>> /\ NobodyAttached
  BY <1>1 DEF NothingFed
<1>3. /\ tabs' = tabs /\ view' = Mounted(tabs) /\ toServer' = Attaches(tabs) /\ connected' = TRUE
      /\ UNCHANGED <<terminals, produced, slotOf, toClient, crossed>>
  BY DEF Reconnect, Rendered
<1>4. tabs \in SUBSET Terms
  BY <1>1 DEF TerminalTypes
<1>5. Attaches(tabs) \in Seq(ServerFrames)
  BY <1>1, <1>4, AttachesAre
<1>6. PICK ahead : ahead = <<>>
  OBVIOUS
<1>7. ahead \in Seq(ServerFrames) /\ Len(ahead) = 0
  BY <1>6
<1>8. toServer' = ahead \o Attaches(tabs)
  BY <1>3, <1>5, <1>6
<1>9. Len(toClient') = 0
  BY <1>2, <1>3
<1>10. /\ \A i \in 1..Len(ahead) : ahead[i].type # "attach"
       /\ \A k \in 1..Len(toClient') : toClient'[k].type # "attached"
  BY <1>7, <1>9
<1>11. /\ toServer' \in Seq(ServerFrames)
       /\ view' \in [Terms -> [mount : Nat, slot : SlotOrNone, from : Nat, to : Nat]]
       /\ \A t \in Terms : view'[t].slot = NoSlot
       /\ AttachesAwaited' /\ AnswersGiven' /\ ViewsFed'
       /\ \A i \in 1..Len(toServer') : (i \in 1..Len(ahead) /\ toServer'[i] = ahead[i]) \/ toServer'[i].type = "attach"
  BY <1>1, <1>3, <1>4, <1>7, <1>8, <1>10, MountedAsk
<1>12. \A i \in 1..Len(toServer') : toServer'[i].type = "attach"
  BY <1>7, <1>11
<1>13. \A t \in Terms : slotOf'[t] = NoSlot
  BY <1>2, <1>3 DEF NobodyAttached
<1>14. TerminalTypes' /\ SlotsApart'
  BY <1>1, <1>3, <1>11, <1>13 DEF TerminalTypes, SlotsApart
<1>15. NothingFed'
  BY <1>3, <1>9, <1>11, <1>12, <1>13 DEF NothingFed, NobodyAttached
<1>16. KeysAtHome'
  BY <1>12 DEF KeysAtHome
<1> QED
  BY <1>1, <1>3, <1>11, <1>14, <1>15, <1>16 DEF TerminalsInv

(* Without terminals no slot is given, and an attach fails. *)
LEMMA NothingServed ==
  ASSUME TerminalsInv, terminals = {}, Serve
  PROVE  TerminalsInv'
<1>1. TerminalTypes /\ NothingFed /\ ~crossed
  BY DEF TerminalsInv
<1>2. /\ toServer # <<>> /\ toServer[1] \in ServerFrames /\ 1 \in 1..Len(toServer)
      /\ toServer' \in Seq(ServerFrames) /\ Len(toServer) \in Nat
      /\ \A i \in 1..Len(toServer') : i + 1 \in 1..Len(toServer) /\ toServer'[i] = toServer[i + 1]
      /\ UNCHANGED <<terminals, produced, connected, tabs, view>>
      /\ \/ toServer[1].type = "attach" /\ ServeAttach(toServer[1].term, toServer[1].mount) /\ UNCHANGED crossed
         \/ /\ toServer[1].type = "detach"
            /\ slotOf' = [slotOf EXCEPT ![toServer[1].term] = NoSlot] /\ UNCHANGED <<toClient, crossed>>
         \/ /\ toServer[1].type = "input"
            /\ crossed' = (crossed \/ Misses(toServer[1])) /\ UNCHANGED <<slotOf, toClient>>
  BY <1>1, FrameServed
<1>3. /\ NobodyAttached /\ connected
      /\ \A i \in 1..Len(toClient) : toClient[i].type = "failed"
      /\ \A i \in 1..Len(toServer) : toServer[i].type # "input"
  BY <1>1, <1>2 DEF NothingFed
<1>4. /\ slotOf \in [Terms -> SlotOrNone] /\ toClient \in Seq(ClientFrames)
      /\ \A t \in Terms : slotOf[t] = NoSlot
  BY <1>1, <1>3 DEF TerminalTypes, NobodyAttached
<1>5. /\ slotOf' \in [Terms -> SlotOrNone] /\ \A t \in Terms : slotOf'[t] = NoSlot
      /\ ~crossed' /\ toClient' \in Seq(ClientFrames)
      /\ \A i \in 1..Len(toClient') : toClient'[i].type = "failed"
  <2>1. CASE toServer[1].type = "attach"
    <3>1. PICK t \in Terms, n \in Nat : t = toServer[1].term /\ n = toServer[1].mount
      BY <2>1, <1>2 DEF ServerFrames
    <3>2. PICK f : f = Failed(t, n)
      OBVIOUS
    <3>3. f \in ClientFrames /\ f.type = "failed"
      BY <3>2 DEF Failed, ClientFrames
    <3>4. toClient' = Append(toClient, f) /\ UNCHANGED <<slotOf, crossed>>
      BY <2>1, <3>1, <3>2, <1>2 DEF ServeAttach
    <3>5. /\ toClient' \in Seq(ClientFrames) /\ Len(toClient) \in Nat /\ Len(toClient') = Len(toClient) + 1
          /\ toClient'[Len(toClient) + 1] = f
          /\ \A i \in 1..Len(toClient) : toClient'[i] = toClient[i]
      BY <3>3, <3>4, <1>4, PipeAdded
    <3>6. \A i \in 1..Len(toClient') : toClient'[i].type = "failed"
      BY <3>3, <3>5, <1>3
    <3> QED
      BY <3>4, <3>5, <3>6, <1>1, <1>4
  <2>2. CASE toServer[1].type = "detach"
    <3>1. slotOf' = [slotOf EXCEPT ![toServer[1].term] = NoSlot] /\ UNCHANGED <<toClient, crossed>>
      BY <2>2, <1>2
    <3>2. slotOf' \in [Terms -> SlotOrNone] /\ \A t \in Terms : slotOf'[t] = NoSlot
      BY <3>1, <1>4 DEF SlotOrNone
    <3> QED
      BY <3>1, <3>2, <1>1, <1>3, <1>4
  <2> QED
    BY <2>1, <2>2, <1>2, <1>3
<1>6. \A i \in 1..Len(toServer') : toServer'[i].type # "input"
  BY <1>2, <1>3
<1>7. \A t \in Terms : view'[t].slot = NoSlot
  BY <1>2, <1>3 DEF NobodyAttached
<1>8. TerminalTypes'
  BY <1>1, <1>2, <1>5 DEF TerminalTypes
<1>9. NothingFed'
  BY <1>2, <1>3, <1>5, <1>6, <1>7 DEF NothingFed, NobodyAttached
<1>10. SlotsApart'
  BY <1>5 DEF SlotsApart
<1> QED
  BY <1>2, <1>5, <1>8, <1>9, <1>10 DEF TerminalsInv

(* Views may be mounted anew as often as the failures say. *)
LEMMA NothingMounted ==
  ASSUME TerminalsInv, terminals = {}, NEW newTabs \in SUBSET Terms, connected,
         tabs' = newTabs, view' = Mounted(newTabs), toServer' = toServer \o Detaches(tabs) \o Attaches(newTabs),
         UNCHANGED <<terminals, produced, slotOf, connected, crossed>>,
         toClient' \in Seq(ClientFrames), \A i \in 1..Len(toClient') : toClient'[i].type = "failed"
  PROVE  TerminalsInv'
<1>1. TerminalTypes /\ NothingFed /\ ~crossed
  BY DEF TerminalsInv
<1>2. /\ NobodyAttached
      /\ \A i \in 1..Len(toServer) : toServer[i].type # "input"
  BY <1>1 DEF NothingFed
<1>3. tabs \in SUBSET Terms /\ toServer \in Seq(ServerFrames)
  BY <1>1 DEF TerminalTypes
<1>4. PICK gone, asks : gone = Detaches(tabs) /\ asks = Attaches(newTabs)
  OBVIOUS
<1>5. gone \in Seq(ServerFrames) /\ \A i \in 1..Len(gone) : gone[i].type = "detach"
  BY <1>3, <1>4, DetachesAre
<1>6. asks \in Seq(ServerFrames) /\ \A i \in 1..Len(asks) : asks[i].type = "attach"
  BY <1>1, <1>4, AttachesAre
<1>7. PICK ahead : ahead = toServer \o gone
  OBVIOUS
<1>8. ahead \in Seq(ServerFrames) /\ \A i \in 1..Len(ahead) : ahead[i].type # "input"
  <2>1. /\ ahead \in Seq(ServerFrames)
        /\ \A i \in 1..Len(toServer) : ahead[i] = toServer[i]
        /\ \A i \in 1..Len(ahead) :
             i \in 1..Len(toServer) \/ (i - Len(toServer) \in 1..Len(gone) /\ ahead[i] = gone[i - Len(toServer)])
    BY <1>3, <1>5, <1>7, PipeJoined
  <2> QED
    BY <2>1, <1>2, <1>5
<1>9. toServer' \in Seq(ServerFrames) /\ \A i \in 1..Len(toServer') : toServer'[i].type # "input"
  <2>1. toServer' = ahead \o asks
    BY <1>4, <1>7
  <2>2. /\ toServer' \in Seq(ServerFrames)
        /\ \A i \in 1..Len(ahead) : toServer'[i] = ahead[i]
        /\ \A i \in 1..Len(toServer') :
             i \in 1..Len(ahead) \/ (i - Len(ahead) \in 1..Len(asks) /\ toServer'[i] = asks[i - Len(ahead)])
    BY <2>1, <1>6, <1>8, PipeJoined
  <2> QED
    BY <2>2, <1>6, <1>8
<1>10. \A t \in Terms : view[t].mount \in Nat
  BY <1>1 DEF TerminalTypes
<1>11. view' = [t \in Terms |->
         [mount |-> IF t \in newTabs THEN view[t].mount + 1 ELSE view[t].mount, slot |-> NoSlot, from |-> 0, to |-> 0]]
  BY DEF Mounted, Unattached
<1>12. /\ view' \in [Terms -> [mount : Nat, slot : SlotOrNone, from : Nat, to : Nat]]
       /\ \A t \in Terms : view'[t].slot = NoSlot
  BY <1>10, <1>11 DEF SlotOrNone
<1>13. TerminalTypes'
  BY <1>1, <1>9, <1>12 DEF TerminalTypes
<1>14. NothingFed' /\ SlotsApart'
  BY <1>2, <1>9, <1>12 DEF NothingFed, NobodyAttached, SlotsApart
<1> QED
  BY <1>1, <1>13, <1>14 DEF TerminalsInv

LEMMA NothingTaken ==
  ASSUME TerminalsInv, terminals = {}, Take
  PROVE  TerminalsInv'
<1>1. TerminalTypes /\ NothingFed /\ ~crossed /\ SlotsApart
  BY DEF TerminalsInv
<1>2. /\ toClient # <<>> /\ 1 \in 1..Len(toClient)
      /\ toClient' \in Seq(ClientFrames)
      /\ \A i \in 1..Len(toClient') : i + 1 \in 1..Len(toClient) /\ toClient'[i] = toClient[i + 1]
      /\ UNCHANGED <<terminals, produced, slotOf, connected>>
      /\ \/ toClient[1].type = "attached" \/ toClient[1].type = "output" \/ (toClient[1].type = "failed" /\ TakeFailure)
  BY <1>1, FrameTaken
<1>3. connected /\ \A i \in 1..Len(toClient) : toClient[i].type = "failed"
  BY <1>1, <1>2 DEF NothingFed
<1>4. TakeFailure /\ \A i \in 1..Len(toClient') : toClient'[i].type = "failed"
  BY <1>2, <1>3
<1>5. CASE UNCHANGED <<toServer, tabs, view, crossed>>
  BY <1>1, <1>2, <1>3, <1>4, <1>5 DEF TerminalsInv, TerminalTypes, NothingFed, NobodyAttached, SlotsApart
<1>6. CASE /\ Rendered(tabs) /\ toServer' = toServer \o Detaches(tabs) \o Attaches(tabs) /\ UNCHANGED crossed
  <2>1. tabs' = tabs /\ view' = Mounted(tabs) /\ tabs \in SUBSET Terms
    BY <1>1, <1>6 DEF Rendered, TerminalTypes
  <2> QED
    BY <2>1, <1>2, <1>3, <1>4, <1>6, NothingMounted
<1> QED
  BY <1>4, <1>5, <1>6 DEF TakeFailure

LEMMA NothingRendered ==
  ASSUME TerminalsInv, terminals = {}, Render
  PROVE  TerminalsInv'
<1>1. PICK newTabs \in SUBSET terminals :
        Rendered(newTabs) /\ toServer' = toServer \o Detaches(tabs) \o Attaches(newTabs)
  BY DEF Render
<1>2. /\ connected /\ newTabs \in SUBSET Terms /\ tabs' = newTabs /\ view' = Mounted(newTabs)
      /\ UNCHANGED <<terminals, produced, slotOf, connected, toClient, crossed>>
  BY <1>1 DEF Render, Rendered
<1>3. toClient' \in Seq(ClientFrames) /\ \A i \in 1..Len(toClient') : toClient'[i].type = "failed"
  BY <1>2 DEF TerminalsInv, TerminalTypes, NothingFed
<1> QED
  BY <1>1, <1>2, <1>3, NothingMounted

LEMMA TerminalsStarts ==
  ASSUME TerminalsInit
  PROVE  TerminalsInv
<1>1. /\ terminals = Terms /\ produced = [t \in Terms |-> 0] /\ slotOf = [t \in Terms |-> NoSlot]
      /\ connected = TRUE /\ toServer = <<>> /\ toClient = <<>> /\ tabs = {} /\ crossed = FALSE
      /\ view = [t \in Terms |-> [mount |-> 0, slot |-> NoSlot, from |-> 0, to |-> 0]]
  BY DEF TerminalsInit, Unattached
<1>2. /\ toServer \in Seq(ServerFrames) /\ toClient \in Seq(ClientFrames)
      /\ Len(toServer) = 0 /\ Len(toClient) = 0
  BY <1>1
<1>3. slotOf \in [Terms -> SlotOrNone] /\ view \in [Terms -> [mount : Nat, slot : SlotOrNone, from : Nat, to : Nat]]
  BY <1>1 DEF SlotOrNone
<1>4. TerminalTypes
  BY <1>1, <1>2, <1>3 DEF TerminalTypes
<1>5. NothingFed /\ SlotsApart
  BY <1>1, <1>2 DEF NothingFed, NobodyAttached, SlotsApart
<1>6. AttachesAwaited /\ AnswersGiven /\ ViewsFed /\ KeysAtHome
  BY <1>1, <1>2 DEF AttachesAwaited, AnswersGiven, ViewsFed, KeysAtHome
<1> QED
  BY <1>1, <1>4, <1>5, <1>6 DEF TerminalsInv

(* A slot for every terminal: a failed attach puts its error into the store, which mounts all views
   anew whether they wait or not. *)
LEMMA TerminalsStep ==
  ASSUME TerminalsInv, Barred({"remount"}), Cardinality(Terms) <= Cardinality(Slots),
         TerminalsNext \/ UNCHANGED terminalsVars
  PROVE  TerminalsInv'
<1>1. CASE UNCHANGED terminalsVars
  <2>1. UNCHANGED <<terminals, produced, slotOf, connected, toServer, toClient, tabs, view, crossed>>
    BY <1>1 DEF terminalsVars
  <2>2. TerminalTypes' /\ NothingFed' /\ SlotsApart'
    BY <2>1 DEF TerminalsInv, TerminalTypes, NothingFed, NobodyAttached, SlotsApart
  <2>3. terminals # {} => AttachesAwaited' /\ KeysAtHome'
    BY <2>1 DEF TerminalsInv, AttachesAwaited, Awaited, KeysAtHome, AttachAt, DetachAt, AttachedAt
  <2>4. terminals # {} => AnswersGiven' /\ ViewsFed'
    BY <2>1, AnswersKept DEF TerminalsInv, SlotStays, AttachAt, DetachAt
  <2> QED
    BY <2>1, <2>2, <2>3, <2>4 DEF TerminalsInv
<1>2. CASE Serve
  <2>1. \/ toServer[1].type = "attach" \/ toServer[1].type = "detach" \/ toServer[1].type = "input"
    BY <1>2, FrameServed DEF TerminalsInv
  <2> QED
    BY <2>1, <1>2, ServesAttach, ServesDetach, ServesInput, NothingServed
<1>3. ASSUME NEW t \in Terms, Outputs(t)
      PROVE  TerminalsInv'
  <2>1. terminals # {}
    BY <1>3 DEF Outputs
  <2> QED
    BY <2>1, <1>3, OutputFed
<1>4. ASSUME NEW t \in Terms, Type(t)
      PROVE  TerminalsInv'
  <2>1. terminals # {}
    BY <1>4 DEF Type, TerminalsInv, NothingFed, NobodyAttached
  <2> QED
    BY <2>1, <1>4, KeyTyped
<1>5. CASE Render
  BY <1>5, TabsRendered, NothingRendered
<1>6. CASE Take
  <2>1. CASE terminals = {}
    BY <2>1, <1>6, NothingTaken
  <2>2. CASE terminals # {}
    <3>1. \/ toClient[1].type = "attached" \/ toClient[1].type = "output" \/ toClient[1].type = "failed"
      BY <1>6, FrameTaken DEF TerminalsInv
    <3>2. 1 \in 1..Len(toClient) /\ \A i \in 1..Len(toClient) : toClient[i].type # "failed"
      BY <2>2, <1>6, FrameTaken, TerminalsAreAll
    <3> QED
      BY <3>1, <3>2, <2>2, <1>6, AnswerTaken, OutputTaken
  <2> QED
    BY <2>1, <2>2
<1>7. CASE Disconnect
  BY <1>7, ConnectionLost
<1>8. CASE Reconnect
  BY <1>8, ConnectionMade
<1> QED
  BY <1>1, <1>2, <1>3, <1>4, <1>5, <1>6, <1>7, <1>8 DEF TerminalsNext

(* The chunks under way are those a view still lacks, one frame for each. *)
LEMMA ChunksUnderWay ==
  ASSUME TerminalTypes, ViewsFed, NEW t \in tabs, view[t].slot # NoSlot
  PROVE  view[t].to + Cardinality(UnderWay(t)) = produced[t]
<1>1. /\ t \in Terms /\ view[t].to \in Nat
      /\ Fed(toClient, t, slotOf[t], produced[t], 0, view[t].to)
  BY ViewFedMeans
<1>2. PICK made \in Nat, base \in Nat : made = produced[t] /\ base = view[t].to
  BY <1>1 DEF TerminalTypes
<1>3. PICK frames : frames = UnderWay(t)
  OBVIOUS
<1>4. toClient \in Seq(ClientFrames) /\ Len(toClient) \in Nat /\ DOMAIN toClient = 1..Len(toClient)
  BY DEF TerminalTypes
<1>5. frames = {i \in 1..Len(toClient) : toClient[i].type = "output" /\ toClient[i].term = t}
  BY <1>3, <1>4 DEF UnderWay
<1>6. /\ base <= made
      /\ \A i \in frames : base < toClient[i].chunk /\ toClient[i].chunk <= made
      /\ \A i, k \in frames : i < k => toClient[i].chunk < toClient[k].chunk
      /\ \A c \in Nat : base < c /\ c <= made => \E i \in frames : toClient[i].chunk = c
  <2>1. \A i \in 1..Len(toClient) : i > 0
    BY <1>4
  <2> QED
    BY <2>1, <1>1, <1>2, <1>5 DEF Fed
<1>7. \A i \in frames : toClient[i].chunk \in Nat /\ i \in Nat
  BY <1>4, <1>5 DEF ClientFrames
<1>8. PICK shows : shows = [i \in frames |-> toClient[i].chunk]
  OBVIOUS
<1>9. shows \in [frames -> (base + 1)..made]
  BY <1>6, <1>7, <1>8
<1>10. \A i, k \in frames : shows[i] = shows[k] => i = k
  <2>1. SUFFICES ASSUME NEW i \in frames, NEW k \in frames, shows[i] = shows[k], i # k
                 PROVE  FALSE
    OBVIOUS
  <2>2. toClient[i].chunk = toClient[k].chunk /\ (i < k \/ k < i)
    BY <2>1, <1>7, <1>8
  <2> QED
    BY <2>2, <1>6, <1>7
<1>11. \A c \in (base + 1)..made : \E i \in frames : shows[i] = c
  BY <1>6, <1>8
<1>12. shows \in Bijection(frames, (base + 1)..made)
  BY <1>9, <1>10, <1>11 DEF Bijection, Injection, Surjection, IsInjective
<1>13. IsFiniteSet(frames)
  <2>1. IsFiniteSet(1..Len(toClient)) /\ frames \subseteq 1..Len(toClient)
    BY <1>4, <1>5, FS_Interval
  <2> QED
    BY <2>1, FS_Subset
<1>14. Cardinality(frames) = Cardinality((base + 1)..made)
  <2>1. ExistsBijection(frames, (base + 1)..made)
    BY <1>12 DEF ExistsBijection
  <2> QED
    BY <2>1, <1>13, FS_Bijection
<1>15. Cardinality((base + 1)..made) = made - base
  <2>1. base + 1 \in Int /\ made \in Int
    BY <1>2
  <2>2. Cardinality((base + 1)..made) = IF base + 1 > made THEN 0 ELSE made - (base + 1) + 1
    BY <2>1, FS_Interval
  <2> QED
    BY <2>2, <1>2, <1>6
<1> QED
  BY <1>2, <1>3, <1>14, <1>15

LEMMA TerminalsIsSound ==
  ASSUME TerminalsInv
  PROVE  TerminalsFed
<1>1. CASE terminals = {}
  BY <1>1 DEF TerminalsInv, TerminalTypes, NothingFed, NobodyAttached, TerminalsFed
<1>2. CASE terminals # {}
  <2>1. \A t \in tabs : view[t].slot # NoSlot =>
          slotOf[t] = view[t].slot /\ view[t].to + Cardinality(UnderWay(t)) = produced[t]
    BY <1>2, ViewFedMeans, ChunksUnderWay DEF TerminalsInv
  <2> QED
    BY <2>1 DEF TerminalsInv, TerminalsFed
<1> QED
  BY <1>1, <1>2

-----------------------------------------------------------------------------
(* The approvals of a session *)

ApprovalRaces == {"missed", "stuck", "optin", "second"}

FeedEvents ==
  {<<kind, r>> : kind \in {"asked", "resolved"}, r \in Requests} \cup {<<"attention", on>> : on \in BOOLEAN}

ApprovalTypes ==
  /\ requested \in [Requests -> [ask : Askable, state : {"none", "waiting", "card", "auto", "other", "expired"}]]
  /\ feed \in Seq(FeedEvents)
  /\ answersOut \in SUBSET [of : Requests, by : {"card", "auto"}]
  /\ cards \in [Requests -> {"none", "pending", "resolved"}]
  /\ optedIn \in BOOLEAN /\ online \in BOOLEAN /\ alerted \in BOOLEAN
  /\ paneIs \in {"focused", "blurred", "hidden"}

OnFeed(event) == \E i \in 1..Len(feed) : feed[i] = event

(* What is asked has a card or is about to have one; a decision has reached the card or is about to. *)
CardFollows(r) ==
  LET state == requested[r].state IN
  /\ state = "none" => cards[r] = "none" /\ ~OnFeed(<<"asked", r>>) /\ ~OnFeed(<<"resolved", r>>)
  /\ state = "waiting" =>
       /\ ~OnFeed(<<"resolved", r>>)
       /\ cards[r] = "pending" \/ (cards[r] = "none" /\ OnFeed(<<"asked", r>>))
  /\ state \notin {"none", "waiting"} => cards[r] = "resolved" \/ OnFeed(<<"resolved", r>>)

(* Whoever has pressed a button has an answer on its way while the request waits, and so has what
   the store approves, or the store is about to read of it. *)
AnswersUnderWay(r) ==
  /\ r \in responding => requested[r].state # "none"
  /\ requested[r].state = "waiting" =>
       /\ r \in responding => OnItsWay(r)
       /\ optedIn /\ requested[r].ask = OnceOfHarness => OnItsWay(r) \/ OnFeed(<<"asked", r>>)
  /\ requested[r].state = "auto" => requested[r].ask = OnceOfHarness

AnswersMeant ==
  \A answer \in answersOut :
    /\ requested[answer.of].state # "none"
    /\ answer.by = "auto" => requested[answer.of].ask = OnceOfHarness

(* The user knows of what waits, or what is on its way will tell him. *)
UserWillKnow(r) ==
  requested[r].state = "waiting" =>
    \/ r \in aware
    \/ OnFeed(<<"asked", r>>) /\ (paneIs = "focused" \/ alerted \/ OnFeed(<<"attention", TRUE>>))
    \/ cards[r] = "pending" /\ paneIs # "focused" /\ OnFeed(<<"attention", TRUE>>)

(* Without a connection nothing is under way. *)
SilentOffline == ~online => feed = <<>> /\ answersOut = {}

ApprovalsInv ==
  /\ ApprovalTypes /\ AnswersMeant /\ SilentOffline /\ alarm = (Unresolved # {})
  /\ \A r \in Requests : CardFollows(r) /\ AnswersUnderWay(r) /\ UserWillKnow(r)

LEMMA ApprovalRacesBarred ==
  ASSUME Barred(ApprovalRaces)
  PROVE  ~Allows("missed") /\ ~Allows("stuck") /\ ~Allows("optin") /\ ~Allows("second")
BY DEF Barred, ApprovalRaces, Allows

LEMMA EventsDiffer ==
  ASSUME NEW r \in Requests, NEW q \in Requests, NEW on \in BOOLEAN
  PROVE  /\ <<"asked", r>> = <<"asked", q>> => r = q
         /\ <<"resolved", r>> = <<"resolved", q>> => r = q
         /\ <<"asked", r>> # <<"resolved", q>>
         /\ <<"asked", r>> # <<"attention", on>> /\ <<"resolved", r>> # <<"attention", on>>
         /\ <<"attention", FALSE>> # <<"attention", TRUE>>
         /\ {<<"asked", r>>, <<"resolved", r>>, <<"attention", on>>} \subseteq FeedEvents
BY DEF FeedEvents

(* What is joined to the feed is on it, and so is what was. *)
LEMMA FeedJoined ==
  ASSUME NEW s \in Seq(FeedEvents), NEW t \in Seq(FeedEvents), NEW e
  PROVE  /\ s \o t \in Seq(FeedEvents)
         /\ (\E i \in 1..Len(s \o t) : (s \o t)[i] = e)
              <=> (\E i \in 1..Len(s) : s[i] = e) \/ (\E i \in 1..Len(t) : t[i] = e)
<1>1. /\ s \o t \in Seq(FeedEvents) /\ Len(s \o t) = Len(s) + Len(t)
      /\ Len(s) \in Nat /\ Len(t) \in Nat
      /\ \A i \in 1..(Len(s) + Len(t)) : (s \o t)[i] = IF i <= Len(s) THEN s[i] ELSE t[i - Len(s)]
  OBVIOUS
<1>2. ASSUME NEW i \in 1..Len(s \o t), (s \o t)[i] = e
      PROVE  (\E k \in 1..Len(s) : s[k] = e) \/ (\E k \in 1..Len(t) : t[k] = e)
  <2>1. CASE i <= Len(s)
    BY <1>1, <1>2, <2>1
  <2>2. CASE ~(i <= Len(s))
    <3>1. i - Len(s) \in 1..Len(t) /\ t[i - Len(s)] = e
      BY <1>1, <1>2, <2>2
    <3> QED
      BY <3>1
  <2> QED
    BY <2>1, <2>2
<1>3. ASSUME NEW k \in 1..Len(s), s[k] = e
      PROVE  \E i \in 1..Len(s \o t) : (s \o t)[i] = e
  <2>1. k \in 1..Len(s \o t) /\ (s \o t)[k] = e
    BY <1>1, <1>3
  <2> QED
    BY <2>1
<1>4. ASSUME NEW k \in 1..Len(t), t[k] = e
      PROVE  \E i \in 1..Len(s \o t) : (s \o t)[i] = e
  <2>1. k + Len(s) \in 1..Len(s \o t) /\ (s \o t)[k + Len(s)] = e
    BY <1>1, <1>4
  <2> QED
    BY <2>1
<1> QED
  BY <1>1, <1>2, <1>3, <1>4

(* What an event of the daemon puts on the feed. *)
LEMMA FeedPushed ==
  ASSUME ApprovalTypes, alarm \in BOOLEAN, online, NEW event \in FeedEvents, NEW waiting, Raise(event, waiting)
  PROVE  /\ feed' \in Seq(FeedEvents) /\ alarm' = (waiting # {})
         /\ \A e : OnFeed(e)' <=> OnFeed(e) \/ e = event
                                  \/ (alarm # (waiting # {}) /\ e = <<"attention", waiting # {}>>)
<1> DEFINE raised == waiting # {}
           news == IF alarm = raised THEN <<>> ELSE <<<<"attention", raised>>>>
<1>1. feed' = (feed \o <<event>>) \o news /\ alarm' = raised
  BY DEF Raise
<1>2. raised \in BOOLEAN /\ feed \in Seq(FeedEvents)
  BY DEF ApprovalTypes
<1>3. <<event>> \in Seq(FeedEvents) /\ \A e : (\E i \in 1..Len(<<event>>) : <<event>>[i] = e) <=> e = event
  OBVIOUS
<1> HIDE DEF raised
<1>4. <<"attention", raised>> \in FeedEvents
  <2>1. \A on \in BOOLEAN : <<"attention", on>> \in FeedEvents
    BY DEF FeedEvents
  <2> QED
    BY <1>2, <2>1
<1>5. /\ news \in Seq(FeedEvents)
      /\ \A e : (\E i \in 1..Len(news) : news[i] = e) <=> alarm # raised /\ e = <<"attention", raised>>
  BY <1>4
<1> HIDE DEF news
<1>6. /\ feed \o <<event>> \in Seq(FeedEvents)
      /\ \A e : (\E i \in 1..Len(feed \o <<event>>) : (feed \o <<event>>)[i] = e) <=> OnFeed(e) \/ e = event
  BY <1>2, <1>3, FeedJoined DEF OnFeed
<1>7. /\ feed' \in Seq(FeedEvents)
      /\ \A e : (\E i \in 1..Len(feed') : feed'[i] = e)
                  <=> OnFeed(e) \/ e = event \/ (alarm # raised /\ e = <<"attention", raised>>)
  <2> DEFINE before == feed \o <<event>>
  <2> HIDE DEF before
  <2>1. before \in Seq(FeedEvents) /\ feed' = before \o news
    BY <1>1, <1>6 DEF before
  <2>2. \A e : (\E i \in 1..Len(before) : before[i] = e) <=> OnFeed(e) \/ e = event
    BY <1>6 DEF before
  <2>3. feed' \in Seq(FeedEvents)
    BY <2>1, <1>5, FeedJoined
  <2>4. ASSUME NEW e
        PROVE  (\E i \in 1..Len(feed') : feed'[i] = e)
                  <=> OnFeed(e) \/ e = event \/ (alarm # raised /\ e = <<"attention", raised>>)
    <3>1. (\E i \in 1..Len(feed') : feed'[i] = e)
             <=> (\E i \in 1..Len(before) : before[i] = e) \/ (\E i \in 1..Len(news) : news[i] = e)
      <4>1. (\E i \in 1..Len(before \o news) : (before \o news)[i] = e)
               <=> (\E i \in 1..Len(before) : before[i] = e) \/ (\E i \in 1..Len(news) : news[i] = e)
        BY <2>1, <1>5, FeedJoined
      <4> QED
        BY ONLY <4>1, <2>1
    <3> QED
      BY <3>1, <2>2, <1>5
  <2> QED
    BY <2>3, <2>4
<1> QED
  BY <1>1, <1>7 DEF OnFeed, raised

(* What is taken from the feed was its first event. *)
LEMMA FeedTaken ==
  ASSUME feed \in Seq(FeedEvents), feed # <<>>, feed' = Tail(feed)
  PROVE  /\ feed' \in Seq(FeedEvents) /\ Head(feed) \in FeedEvents
         /\ \A e : OnFeed(e)' => OnFeed(e)
         /\ \A e : OnFeed(e) => e = Head(feed) \/ OnFeed(e)'
         /\ OnFeed(Head(feed))
<1>1. /\ Len(feed) \in Nat /\ Len(feed) >= 1 /\ Head(feed) = feed[1] /\ feed[1] \in FeedEvents
      /\ feed' \in Seq(FeedEvents) /\ Len(feed') = Len(feed) - 1
      /\ \A i \in 1..(Len(feed) - 1) : feed'[i] = feed[i + 1]
  OBVIOUS
<1>2. ASSUME NEW e, OnFeed(e)' PROVE OnFeed(e)
  <2>1. PICK i \in 1..Len(feed') : feed'[i] = e
    BY <1>2 DEF OnFeed
  <2>2. i + 1 \in 1..Len(feed) /\ feed[i + 1] = e
    BY <1>1, <2>1
  <2> QED
    BY <2>2 DEF OnFeed
<1>3. ASSUME NEW e, OnFeed(e), e # Head(feed) PROVE OnFeed(e)'
  <2>1. PICK i \in 1..Len(feed) : feed[i] = e
    BY <1>3 DEF OnFeed
  <2>2. i # 1
    BY <1>1, <1>3, <2>1
  <2>3. i - 1 \in 1..Len(feed') /\ feed'[i - 1] = e
    BY <1>1, <2>1, <2>2
  <2> QED
    BY <2>3 DEF OnFeed
<1>4. OnFeed(Head(feed))
  BY <1>1 DEF OnFeed
<1> QED
  BY <1>1, <1>2, <1>3, <1>4

(* An empty feed has nothing on it. *)
LEMMA NothingOnFeed ==
  ASSUME feed = <<>>
  PROVE  \A e : ~OnFeed(e)
BY DEF OnFeed

LEMMA AskKeeps ==
  ASSUME ApprovalsInv, Barred(ApprovalRaces), NEW r \in Requests, Ask(r)
  PROVE  ApprovalsInv'
<1>1. /\ requested[r].state = "none" /\ online
      /\ Unresolved = {} \/ paneIs = "focused" \/ alerted
      /\ Raise(<<"asked", r>>, Unresolved \cup {r})
      /\ UNCHANGED <<answersOut, cards, responding, optedIn, paneIs, online, aware, alerted>>
  BY ApprovalRacesBarred DEF Ask, screenVars, userVars
<1>2. PICK ask \in Askable : requested' = [requested EXCEPT ![r] = [ask |-> ask, state |-> "waiting"]]
  BY DEF Ask
<1>3. ApprovalTypes /\ alarm \in BOOLEAN /\ alarm = (Unresolved # {})
  BY DEF ApprovalsInv
<1>4. \A q \in Requests : <<"asked", q>> \in FeedEvents
  BY EventsDiffer
<1>5. /\ feed' \in Seq(FeedEvents) /\ alarm' = (Unresolved \cup {r} # {})
      /\ \A e : OnFeed(e)' <=> OnFeed(e) \/ e = <<"asked", r>>
                               \/ (alarm # (Unresolved \cup {r} # {}) /\ e = <<"attention", Unresolved \cup {r} # {}>>)
  BY <1>1, <1>3, <1>4, FeedPushed
<1>6. (Unresolved \cup {r} # {}) = TRUE
  OBVIOUS
<1>7. /\ alarm' = TRUE
      /\ \A e : OnFeed(e)' <=> OnFeed(e) \/ e = <<"asked", r>> \/ (alarm # TRUE /\ e = <<"attention", TRUE>>)
  BY <1>5, <1>6
<1>8. /\ \A q \in Requests : q # r => requested'[q] = requested[q]
      /\ requested'[r] = [ask |-> ask, state |-> "waiting"]
  BY <1>2, <1>3 DEF ApprovalTypes
<1>9. ApprovalTypes'
  BY <1>1, <1>2, <1>3, <1>5 DEF ApprovalTypes
<1>10. AnswersMeant'
  BY <1>1, <1>3, <1>8 DEF ApprovalsInv, AnswersMeant, ApprovalTypes
<1>11. SilentOffline' /\ (alarm = (Unresolved # {}))'
  <2>1. r \in Unresolved'
    BY <1>8 DEF Unresolved
  <2>2. (alarm = (Unresolved # {}))'
    BY <1>7, <2>1
  <2> QED
    BY <1>1, <2>2 DEF SilentOffline
<1>12. \A q \in Requests : /\ OnFeed(<<"asked", q>>)' <=> OnFeed(<<"asked", q>>) \/ q = r
                           /\ OnFeed(<<"resolved", q>>)' <=> OnFeed(<<"resolved", q>>)
  BY <1>7, EventsDiffer
<1>13. OnFeed(<<"attention", TRUE>>) => OnFeed(<<"attention", TRUE>>)'
  BY <1>7
<1>14. ~alarm => OnFeed(<<"attention", TRUE>>)'
  BY <1>3, <1>7
<1>15. ASSUME NEW q \in Requests
       PROVE  CardFollows(q)' /\ AnswersUnderWay(q)' /\ UserWillKnow(q)'
  <2>1. CardFollows(q) /\ AnswersUnderWay(q) /\ UserWillKnow(q)
    BY DEF ApprovalsInv
  <2>2. CASE q # r
    <3>1. CardFollows(q)'
      BY <1>1, <1>8, <1>12, <2>1, <2>2 DEF CardFollows
    <3>2. AnswersUnderWay(q)'
      BY <1>1, <1>8, <1>12, <2>1, <2>2 DEF AnswersUnderWay, OnItsWay
    <3>3. UserWillKnow(q)'
      BY <1>1, <1>8, <1>12, <1>13, <2>1, <2>2 DEF UserWillKnow
    <3> QED
      BY <3>1, <3>2, <3>3
  <2>3. CASE q = r
    <3>1. cards[r] = "none" /\ ~OnFeed(<<"resolved", r>>) /\ r \notin responding
      BY <1>1, <2>1, <2>3 DEF CardFollows, AnswersUnderWay
    <3>2. CardFollows(q)'
      BY <1>1, <1>8, <1>12, <2>3, <3>1 DEF CardFollows
    <3>3. AnswersUnderWay(q)'
      BY <1>1, <1>8, <1>12, <2>3, <3>1 DEF AnswersUnderWay
    <3>4. UserWillKnow(q)'
      BY <1>1, <1>3, <1>12, <1>14, <2>3 DEF UserWillKnow
    <3> QED
      BY <3>2, <3>3, <3>4
  <2> QED
    BY <2>2, <2>3
<1> QED
  BY <1>9, <1>10, <1>11, <1>15 DEF ApprovalsInv

(* A decision: what was on its way for another request still is. *)
LEMMA DecideKeeps ==
  ASSUME ApprovalsInv, NEW r \in Requests, requested[r].state = "waiting", online,
         NEW by \in {"card", "auto", "other", "expired"}, by = "auto" => requested[r].ask = OnceOfHarness,
         Decide(r, by), answersOut' \subseteq answersOut,
         \A answer \in answersOut : answer.of # r => answer \in answersOut',
         UNCHANGED <<screenVars, online, userVars>>
  PROVE  ApprovalsInv'
<1>1. UNCHANGED <<cards, responding, optedIn, paneIs, online, aware, alerted>>
  BY DEF screenVars, userVars
<1>2. ApprovalTypes /\ alarm \in BOOLEAN /\ alarm = (Unresolved # {})
  BY DEF ApprovalsInv
<1> DEFINE left == Unresolved \ {r}
<1>3. requested' = [requested EXCEPT ![r].state = by] /\ Raise(<<"resolved", r>>, left)
  BY DEF Decide
<1>4. <<"resolved", r>> \in FeedEvents
  BY EventsDiffer
<1> HIDE DEF left
<1>5. /\ feed' \in Seq(FeedEvents) /\ alarm' = (left # {})
      /\ \A e : OnFeed(e)' <=> OnFeed(e) \/ e = <<"resolved", r>>
                               \/ (alarm # (left # {}) /\ e = <<"attention", left # {}>>)
  BY <1>2, <1>3, <1>4, FeedPushed
<1>6. /\ \A q \in Requests : q # r => requested'[q] = requested[q]
      /\ requested'[r].state = by /\ requested'[r].ask = requested[r].ask
  BY <1>2, <1>3 DEF ApprovalTypes
<1>7. ApprovalTypes'
  BY <1>1, <1>2, <1>3, <1>5 DEF ApprovalTypes
<1>8. AnswersMeant'
  BY <1>2, <1>6 DEF ApprovalsInv, AnswersMeant, ApprovalTypes
<1>9. SilentOffline'
  BY <1>1 DEF SilentOffline
<1>10. Unresolved' = left
  BY <1>6 DEF Unresolved, left
<1>11. (alarm = (Unresolved # {}))'
  BY <1>5, <1>10
<1>12. \A q \in Requests : /\ OnFeed(<<"asked", q>>)' <=> OnFeed(<<"asked", q>>)
                           /\ OnFeed(<<"resolved", q>>)' <=> OnFeed(<<"resolved", q>>) \/ q = r
  <2> TAKE q \in Requests
  <2>1. \A on \in BOOLEAN : <<"asked", q>> # <<"attention", on>> /\ <<"resolved", q>> # <<"attention", on>>
    BY EventsDiffer
  <2>2. <<"asked", q>> # <<"attention", left # {}>> /\ <<"resolved", q>> # <<"attention", left # {}>>
    <3>1. (left # {}) = TRUE \/ (left # {}) = FALSE
      OBVIOUS
    <3> QED
      BY <2>1, <3>1
  <2>3. <<"asked", q>> # <<"resolved", r>> /\ (<<"resolved", q>> = <<"resolved", r>> => q = r)
    BY EventsDiffer
  <2> QED
    BY <1>5, <2>2, <2>3
<1>13. OnFeed(<<"attention", TRUE>>) => OnFeed(<<"attention", TRUE>>)'
  BY <1>5
<1>14. ASSUME NEW q \in Requests
       PROVE  CardFollows(q)' /\ AnswersUnderWay(q)' /\ UserWillKnow(q)'
  <2>1. CardFollows(q) /\ AnswersUnderWay(q) /\ UserWillKnow(q)
    BY DEF ApprovalsInv
  <2>2. CASE q # r
    <3>1. CardFollows(q)'
      BY <1>1, <1>6, <1>12, <2>1, <2>2 DEF CardFollows
    <3>2. OnItsWay(q) => OnItsWay(q)'
      BY <2>2 DEF OnItsWay
    <3>3. AnswersUnderWay(q)'
      BY <1>1, <1>6, <1>12, <2>1, <2>2, <3>2 DEF AnswersUnderWay
    <3>4. UserWillKnow(q)'
      BY <1>1, <1>6, <1>12, <1>13, <2>1, <2>2 DEF UserWillKnow
    <3> QED
      BY <3>1, <3>3, <3>4
  <2>3. CASE q = r
    <3>1. CardFollows(q)'
      BY <1>1, <1>6, <1>12, <2>3 DEF CardFollows
    <3>2. AnswersUnderWay(q)'
      BY <1>1, <1>6, <2>3 DEF AnswersUnderWay
    <3>3. UserWillKnow(q)'
      BY <1>6, <2>3 DEF UserWillKnow
    <3> QED
      BY <3>1, <3>2, <3>3
  <2> QED
    BY <2>2, <2>3
<1> QED
  BY <1>7, <1>8, <1>9, <1>11, <1>14 DEF ApprovalsInv

(* Only what is taken off has changed. *)
LEMMA AnswersThinned ==
  ASSUME ApprovalsInv, NEW answer \in answersOut, requested[answer.of].state # "waiting",
         answersOut' = answersOut \ {answer}, UNCHANGED <<daemonVars, feed, screenVars, online, userVars>>
  PROVE  ApprovalsInv'
<1>1. UNCHANGED <<requested, alarm, feed, cards, responding, optedIn, paneIs, online, aware, alerted>>
  BY DEF daemonVars, screenVars, userVars
<1>2. \A e : OnFeed(e)' <=> OnFeed(e)
  BY <1>1 DEF OnFeed
<1>3. \A q \in Requests : requested[q].state = "waiting" => (OnItsWay(q) => OnItsWay(q)')
  BY DEF OnItsWay
<1>4. \A q \in Requests : CardFollows(q)'
  BY <1>1, <1>2 DEF ApprovalsInv, CardFollows
<1>5. \A q \in Requests : AnswersUnderWay(q)'
  BY <1>1, <1>2, <1>3 DEF ApprovalsInv, AnswersUnderWay
<1>6. \A q \in Requests : UserWillKnow(q)'
  BY <1>1, <1>2 DEF ApprovalsInv, UserWillKnow
<1>7. ApprovalTypes' /\ AnswersMeant' /\ SilentOffline' /\ (alarm = (Unresolved # {}))'
  BY <1>1 DEF ApprovalsInv, ApprovalTypes, AnswersMeant, SilentOffline, Unresolved
<1> QED
  BY <1>4, <1>5, <1>6, <1>7 DEF ApprovalsInv

LEMMA RespondPermissionKeeps ==
  ASSUME ApprovalsInv, NEW answer \in answersOut, RespondPermission(answer)
  PROVE  ApprovalsInv'
<1>1. /\ answer.of \in Requests /\ answer.by \in {"card", "auto"} /\ online
      /\ answer.by = "auto" => requested[answer.of].ask = OnceOfHarness
  BY DEF ApprovalsInv, ApprovalTypes, AnswersMeant, SilentOffline
<1>2. answersOut' = answersOut \ {answer} /\ UNCHANGED <<screenVars, online, userVars>>
  BY DEF RespondPermission
<1>3. CASE answer.of \in Unresolved
  <2>1. Decide(answer.of, answer.by) /\ requested[answer.of].state = "waiting"
    BY <1>3 DEF RespondPermission, Unresolved
  <2> QED
    BY <1>1, <1>2, <2>1, DecideKeeps
<1>4. CASE answer.of \notin Unresolved
  <2>1. UNCHANGED <<daemonVars, feed>> /\ requested[answer.of].state # "waiting"
    BY <1>1, <1>4 DEF RespondPermission, Unresolved
  <2> QED
    BY <1>2, <2>1, AnswersThinned
<1> QED
  BY <1>3, <1>4

LEMMA DecidedElsewhereKeeps ==
  ASSUME ApprovalsInv, Barred(ApprovalRaces), NEW r \in Requests, DecidedElsewhere(r)
  PROVE  ApprovalsInv'
<1>1. requested[r].state = "waiting" /\ online /\ UNCHANGED <<answersOut, screenVars, online, userVars>>
  BY ApprovalRacesBarred DEF DecidedElsewhere, Unresolved
<1>2. Decide(r, "other") \/ Decide(r, "expired")
  BY DEF DecidedElsewhere
<1> QED
  BY <1>1, <1>2, DecideKeeps

(* What comes first on the feed is one of three kinds. *)
LEMMA HeadIs ==
  ASSUME NEW e \in FeedEvents
  PROVE  /\ e[1] = "asked" => e[2] \in Requests /\ e = <<"asked", e[2]>>
         /\ e[1] = "resolved" => e[2] \in Requests /\ e = <<"resolved", e[2]>>
         /\ e[1] = "attention" => e[2] \in BOOLEAN /\ e = <<"attention", e[2]>>
         /\ e[1] \in {"asked", "resolved", "attention"}
<1>1. CASE \E kind \in {"asked", "resolved"}, r \in Requests : e = <<kind, r>>
  BY <1>1
<1>2. CASE \E on \in BOOLEAN : e = <<"attention", on>>
  BY <1>2
<1> QED
  BY <1>1, <1>2 DEF FeedEvents

(* What the store approves on its own: what a harness asks, and can be allowed once. *)
LEMMA AskIs ==
  /\ OnceOfHarness \in Askable
  /\ \A ask \in Askable : ask.origin # "reverse_tool" /\ ask.once <=> ask = OnceOfHarness
BY DEF Askable, Asked, OnceOfHarness

LEMMA AskedIsRead ==
  ASSUME ApprovalsInv, OnEvent, Head(feed)[1] = "asked"
  PROVE  ApprovalsInv'
<1> DEFINE r == Head(feed)[2]
<1>1. /\ feed # <<>> /\ feed' = Tail(feed)
      /\ cards' = [cards EXCEPT ![r] = IF @ = "none" THEN "pending" ELSE @]
      /\ answersOut' = IF AutoApproves(r) THEN answersOut \cup {[of |-> r, by |-> "auto"]} ELSE answersOut
      /\ aware' = IF paneIs = "focused" \/ alerted THEN aware \cup {r} ELSE aware
      /\ UNCHANGED <<requested, alarm, responding, optedIn, paneIs, online, alerted>>
  BY DEF OnEvent, daemonVars
<1>2. ApprovalTypes /\ feed \in Seq(FeedEvents)
  BY DEF ApprovalsInv, ApprovalTypes
<1>3. /\ feed' \in Seq(FeedEvents) /\ Head(feed) \in FeedEvents
      /\ \A e : OnFeed(e)' => OnFeed(e)
      /\ \A e : OnFeed(e) => e = Head(feed) \/ OnFeed(e)'
      /\ OnFeed(Head(feed))
  BY <1>1, <1>2, FeedTaken
<1>4. r \in Requests /\ Head(feed) = <<"asked", r>>
  BY <1>3, HeadIs
<1> HIDE DEF r
<1>5. requested[r].state # "none" /\ online /\ requested[r].ask \in Askable
  <2>1. CardFollows(r) /\ OnFeed(<<"asked", r>>)
    BY <1>3, <1>4 DEF ApprovalsInv
  <2>2. requested[r].state # "none"
    BY <2>1 DEF CardFollows
  <2>3. online
    BY <1>1, <1>2 DEF ApprovalsInv, SilentOffline, ApprovalTypes
  <2> QED
    BY <1>2, <1>4, <2>2, <2>3 DEF ApprovalTypes
<1>6. ApprovalTypes'
  BY <1>1, <1>2, <1>3, <1>4 DEF ApprovalTypes
<1>15. AutoApproves(r) <=> optedIn /\ requested[r].ask = OnceOfHarness
  BY <1>5, AskIs DEF AutoApproves
<1>7. AnswersMeant'
  BY <1>1, <1>5, <1>15 DEF ApprovalsInv, AnswersMeant
<1>8. SilentOffline' /\ (alarm = (Unresolved # {}))'
  BY <1>1, <1>5 DEF ApprovalsInv, SilentOffline, Unresolved
<1>9. \A q \in Requests : /\ OnFeed(<<"asked", q>>) => q = r \/ OnFeed(<<"asked", q>>)'
                          /\ OnFeed(<<"resolved", q>>) => OnFeed(<<"resolved", q>>)'
  BY <1>3, <1>4, EventsDiffer
<1>10. OnFeed(<<"attention", TRUE>>) => OnFeed(<<"attention", TRUE>>)'
  <2>1. <<"asked", r>> # <<"attention", TRUE>>
    BY <1>4, EventsDiffer
  <2> QED
    BY <1>3, <1>4, <2>1
<1>11. /\ \A q \in Requests : q # r => cards'[q] = cards[q]
       /\ cards'[r] = IF cards[r] = "none" THEN "pending" ELSE cards[r]
       /\ cards[r] \in {"none", "pending", "resolved"}
  BY <1>1, <1>2, <1>4 DEF ApprovalTypes
<1>12. \A q : OnItsWay(q) => OnItsWay(q)'
  BY <1>1 DEF OnItsWay
<1>13. \A q : q = r /\ optedIn /\ requested[r].ask = OnceOfHarness => OnItsWay(q)'
  <2> TAKE q
  <2> HAVE q = r /\ optedIn /\ requested[r].ask = OnceOfHarness
  <2>1. [of |-> q, by |-> "auto"] \in answersOut'
    BY <1>1, <1>15
  <2> QED
    BY <2>1 DEF OnItsWay
<1>14. ASSUME NEW q \in Requests
       PROVE  CardFollows(q)' /\ AnswersUnderWay(q)' /\ UserWillKnow(q)'
  <2>1. CardFollows(q) /\ AnswersUnderWay(q) /\ UserWillKnow(q)
    BY DEF ApprovalsInv
  <2>2. CASE q # r
    <3>1. CardFollows(q)'
      BY <1>1, <1>3, <1>9, <1>11, <2>1, <2>2 DEF CardFollows
    <3>2. AnswersUnderWay(q)'
      BY <1>1, <1>9, <1>12, <2>1, <2>2 DEF AnswersUnderWay
    <3>3. UserWillKnow(q)'
      BY <1>1, <1>9, <1>10, <1>11, <2>1, <2>2 DEF UserWillKnow
    <3> QED
      BY <3>1, <3>2, <3>3
  <2>3. CASE q = r
    <3>1. CardFollows(q)'
      BY <1>1, <1>3, <1>5, <1>9, <1>11, <2>1, <2>3 DEF CardFollows
    <3>2. AnswersUnderWay(q)'
      BY <1>1, <1>12, <1>13, <2>1, <2>3 DEF AnswersUnderWay
    <3>3. UserWillKnow(q)'
      <4> SUFFICES ASSUME requested[r].state = "waiting", r \notin aware'
                   PROVE  cards'[r] = "pending" /\ paneIs' # "focused" /\ OnFeed(<<"attention", TRUE>>)'
        BY <1>1, <2>3 DEF UserWillKnow
      <4>1. r \notin aware /\ paneIs # "focused" /\ ~alerted
        BY <1>1
      <4>2. OnFeed(<<"attention", TRUE>>)
        BY <2>1, <2>3, <4>1 DEF UserWillKnow
      <4>3. cards[r] \in {"pending", "none"}
        BY <2>1, <2>3 DEF CardFollows
      <4> QED
        BY <1>1, <1>10, <1>11, <4>1, <4>2, <4>3
    <3> QED
      BY <3>1, <3>2, <3>3
  <2> QED
    BY <2>2, <2>3
<1> QED
  BY <1>6, <1>7, <1>8, <1>14 DEF ApprovalsInv

LEMMA ResolvedIsRead ==
  ASSUME ApprovalsInv, OnEvent, Head(feed)[1] = "resolved"
  PROVE  ApprovalsInv'
<1> DEFINE r == Head(feed)[2]
<1>1. /\ feed # <<>> /\ feed' = Tail(feed)
      /\ cards' = [cards EXCEPT ![r] = "resolved"]
      /\ UNCHANGED <<requested, alarm, answersOut, responding, optedIn, paneIs, online, aware, alerted>>
  BY DEF OnEvent, daemonVars
<1>2. ApprovalTypes /\ feed \in Seq(FeedEvents)
  BY DEF ApprovalsInv, ApprovalTypes
<1>3. /\ feed' \in Seq(FeedEvents) /\ Head(feed) \in FeedEvents
      /\ \A e : OnFeed(e)' => OnFeed(e)
      /\ \A e : OnFeed(e) => e = Head(feed) \/ OnFeed(e)'
      /\ OnFeed(Head(feed))
  BY <1>1, <1>2, FeedTaken
<1>4. r \in Requests /\ Head(feed) = <<"resolved", r>>
  BY <1>3, HeadIs
<1> HIDE DEF r
<1>5. requested[r].state \notin {"none", "waiting"}
  <2>1. CardFollows(r) /\ OnFeed(<<"resolved", r>>)
    BY <1>3, <1>4 DEF ApprovalsInv
  <2> QED
    BY <2>1 DEF CardFollows
<1>6. ApprovalTypes'
  BY <1>1, <1>2, <1>3 DEF ApprovalTypes
<1>7. AnswersMeant' /\ (alarm = (Unresolved # {}))'
  BY <1>1 DEF ApprovalsInv, AnswersMeant, Unresolved
<1>8. SilentOffline'
  BY <1>1, <1>2 DEF ApprovalsInv, SilentOffline, ApprovalTypes
<1>9. \A q \in Requests : /\ OnFeed(<<"asked", q>>) => OnFeed(<<"asked", q>>)'
                          /\ OnFeed(<<"resolved", q>>) => q = r \/ OnFeed(<<"resolved", q>>)'
  BY <1>3, <1>4, EventsDiffer
<1>10. OnFeed(<<"attention", TRUE>>) => OnFeed(<<"attention", TRUE>>)'
  <2>1. <<"resolved", r>> # <<"attention", TRUE>>
    BY <1>4, EventsDiffer
  <2> QED
    BY <1>3, <1>4, <2>1
<1>11. cards'[r] = "resolved" /\ \A q \in Requests : q # r => cards'[q] = cards[q]
  BY <1>1, <1>2, <1>4 DEF ApprovalTypes
<1>12. \A q : OnItsWay(q)' <=> OnItsWay(q)
  BY <1>1 DEF OnItsWay
<1>13. ASSUME NEW q \in Requests
       PROVE  CardFollows(q)' /\ AnswersUnderWay(q)' /\ UserWillKnow(q)'
  <2>1. CardFollows(q) /\ AnswersUnderWay(q) /\ UserWillKnow(q)
    BY DEF ApprovalsInv
  <2>2. AnswersUnderWay(q)'
    BY <1>1, <1>9, <1>12, <2>1 DEF AnswersUnderWay
  <2>3. CASE q # r
    <3>1. CardFollows(q)'
      BY <1>1, <1>3, <1>9, <1>11, <2>1, <2>3 DEF CardFollows
    <3>2. UserWillKnow(q)'
      BY <1>1, <1>9, <1>10, <1>11, <2>1, <2>3 DEF UserWillKnow
    <3> QED
      BY <2>2, <3>1, <3>2
  <2>4. CASE q = r
    BY <1>1, <1>5, <1>11, <2>2, <2>4 DEF CardFollows, UserWillKnow
  <2> QED
    BY <2>3, <2>4
<1> QED
  BY <1>6, <1>7, <1>8, <1>13 DEF ApprovalsInv

LEMMA AttentionIsRead ==
  ASSUME ApprovalsInv, OnEvent, Head(feed)[1] = "attention"
  PROVE  ApprovalsInv'
<1> DEFINE on == Head(feed)[2]
<1>1. /\ feed # <<>> /\ feed' = Tail(feed)
      /\ IF on /\ paneIs # "focused" THEN aware' = aware \cup Cards("pending") /\ alerted' = TRUE
         ELSE UNCHANGED <<aware, alerted>>
      /\ UNCHANGED <<requested, alarm, answersOut, cards, responding, optedIn, paneIs, online>>
  BY DEF OnEvent, daemonVars
<1>2. ApprovalTypes /\ feed \in Seq(FeedEvents)
  BY DEF ApprovalsInv, ApprovalTypes
<1>3. /\ feed' \in Seq(FeedEvents) /\ Head(feed) \in FeedEvents
      /\ \A e : OnFeed(e)' => OnFeed(e)
      /\ \A e : OnFeed(e) => e = Head(feed) \/ OnFeed(e)'
  BY <1>1, <1>2, FeedTaken
<1>4. on \in BOOLEAN /\ Head(feed) = <<"attention", on>>
  BY <1>3, HeadIs
<1> HIDE DEF on
<1>5. ApprovalTypes'
  BY <1>1, <1>2, <1>3 DEF ApprovalTypes
<1>6. AnswersMeant' /\ (alarm = (Unresolved # {}))'
  BY <1>1 DEF ApprovalsInv, AnswersMeant, Unresolved
<1>7. SilentOffline'
  BY <1>1, <1>2 DEF ApprovalsInv, SilentOffline, ApprovalTypes
<1>8. \A q \in Requests : /\ OnFeed(<<"asked", q>>) => OnFeed(<<"asked", q>>)'
                          /\ OnFeed(<<"resolved", q>>) => OnFeed(<<"resolved", q>>)'
  BY <1>3, <1>4, EventsDiffer
<1>9. \A q : OnItsWay(q)' <=> OnItsWay(q)
  BY <1>1 DEF OnItsWay
<1>10. OnFeed(<<"attention", TRUE>>) => on = TRUE \/ OnFeed(<<"attention", TRUE>>)'
  <2>1. <<"attention", FALSE>> # <<"attention", TRUE>>
    OBVIOUS
  <2> QED
    BY <1>3, <1>4, <2>1
<1>11. ASSUME NEW q \in Requests
       PROVE  CardFollows(q)' /\ AnswersUnderWay(q)' /\ UserWillKnow(q)'
  <2>1. CardFollows(q) /\ AnswersUnderWay(q) /\ UserWillKnow(q)
    BY DEF ApprovalsInv
  <2>2. CardFollows(q)'
    BY <1>1, <1>3, <1>8, <2>1 DEF CardFollows
  <2>3. AnswersUnderWay(q)'
    BY <1>1, <1>8, <1>9, <2>1 DEF AnswersUnderWay
  <2>4. UserWillKnow(q)'
    <3>1. CASE on = TRUE /\ paneIs # "focused"
      <4>1. aware' = aware \cup Cards("pending") /\ alerted' = TRUE
        BY <1>1, <3>1
      <4> QED
        BY <1>1, <1>8, <2>1, <4>1 DEF UserWillKnow, Cards
    <3>2. CASE paneIs = "focused"
      BY <1>1, <1>8, <2>1, <3>2 DEF UserWillKnow
    <3>3. CASE on = FALSE
      BY <1>1, <1>8, <1>10, <2>1, <3>3 DEF UserWillKnow
    <3> QED
      BY <1>4, <3>1, <3>2, <3>3
  <2> QED
    BY <2>2, <2>3, <2>4
<1> QED
  BY <1>5, <1>6, <1>7, <1>11 DEF ApprovalsInv

LEMMA OnEventKeeps ==
  ASSUME ApprovalsInv, OnEvent
  PROVE  ApprovalsInv'
<1>1. feed # <<>> /\ feed \in Seq(FeedEvents)
  BY DEF OnEvent, ApprovalsInv, ApprovalTypes
<1>2. Head(feed)[1] \in {"asked", "resolved", "attention"}
  <2>1. Head(feed) \in FeedEvents
    BY <1>1
  <2> QED
    BY <2>1, HeadIs
<1> QED
  BY <1>2, AskedIsRead, ResolvedIsRead, AttentionIsRead

(* The user and the connection leave the requests and their attention alone. *)
LEMMA RequestsStay ==
  ASSUME ApprovalsInv, UNCHANGED requested
  PROVE  UNCHANGED alarm => (alarm = (Unresolved # {}))'
BY DEF ApprovalsInv, Unresolved

LEMMA RespondKeeps ==
  ASSUME ApprovalsInv, Barred(ApprovalRaces), NEW r \in Requests, Respond(r)
  PROVE  ApprovalsInv'
<1>1. /\ cards[r] = "pending" /\ online
      /\ responding' = responding \cup {r} /\ answersOut' = answersOut \cup {[of |-> r, by |-> "card"]}
      /\ UNCHANGED <<requested, alarm, feed, cards, optedIn, paneIs, online, aware, alerted>>
  BY ApprovalRacesBarred DEF Respond, daemonVars, userVars
<1>2. requested[r].state # "none"
  BY <1>1 DEF ApprovalsInv, CardFollows
<1>3. [of |-> r, by |-> "card"] \in [of : Requests, by : {"card", "auto"}]
  OBVIOUS
<1>4. ApprovalTypes'
  BY <1>1, <1>3 DEF ApprovalsInv, ApprovalTypes
<1>5. AnswersMeant' /\ SilentOffline'
  BY <1>1, <1>2 DEF ApprovalsInv, AnswersMeant, SilentOffline
<1>6. (alarm = (Unresolved # {}))'
  BY <1>1, RequestsStay
<1>7. \A e : OnFeed(e)' <=> OnFeed(e)
  BY <1>1 DEF OnFeed
<1>8. OnItsWay(r)' /\ \A q : OnItsWay(q) => OnItsWay(q)'
  <2>1. [of |-> r, by |-> "card"] \in answersOut'
    BY <1>1
  <2> QED
    BY <1>1, <2>1 DEF OnItsWay
<1>9. ASSUME NEW q \in Requests
      PROVE  CardFollows(q)' /\ AnswersUnderWay(q)' /\ UserWillKnow(q)'
  <2>1. CardFollows(q) /\ AnswersUnderWay(q) /\ UserWillKnow(q)
    BY DEF ApprovalsInv
  <2>2. CardFollows(q)' /\ UserWillKnow(q)'
    BY <1>1, <1>7, <2>1 DEF CardFollows, UserWillKnow
  <2>3. AnswersUnderWay(q)'
    BY <1>1, <1>2, <1>7, <1>8, <2>1 DEF AnswersUnderWay
  <2> QED
    BY <2>2, <2>3
<1> QED
  BY <1>4, <1>5, <1>6, <1>9 DEF ApprovalsInv

(* Nobody opts in while something waits. *)
LEMMA SetAutoApproveKeeps ==
  ASSUME ApprovalsInv, Barred(ApprovalRaces), SetAutoApprove
  PROVE  ApprovalsInv'
<1>1. /\ optedIn \/ Unresolved = {}
      /\ optedIn' = ~optedIn
      /\ UNCHANGED <<requested, alarm, feed, answersOut, cards, responding, paneIs, online, aware, alerted>>
  BY ApprovalRacesBarred DEF SetAutoApprove, daemonVars, userVars
<1>2. ApprovalTypes' /\ AnswersMeant' /\ SilentOffline'
  BY <1>1 DEF ApprovalsInv, ApprovalTypes, AnswersMeant, SilentOffline
<1>3. (alarm = (Unresolved # {}))'
  BY <1>1, RequestsStay
<1>4. \A e : OnFeed(e)' <=> OnFeed(e)
  BY <1>1 DEF OnFeed
<1>5. \A q : OnItsWay(q)' <=> OnItsWay(q)
  BY <1>1 DEF OnItsWay
<1>6. \A q \in Requests : requested[q].state = "waiting" => ~optedIn'
  BY <1>1 DEF Unresolved
<1>7. ASSUME NEW q \in Requests
      PROVE  CardFollows(q)' /\ AnswersUnderWay(q)' /\ UserWillKnow(q)'
  <2>1. CardFollows(q) /\ AnswersUnderWay(q) /\ UserWillKnow(q)
    BY DEF ApprovalsInv
  <2>2. CardFollows(q)' /\ UserWillKnow(q)'
    BY <1>1, <1>4, <2>1 DEF CardFollows, UserWillKnow
  <2>3. AnswersUnderWay(q)'
    BY <1>1, <1>4, <1>5, <1>6, <2>1 DEF AnswersUnderWay
  <2> QED
    BY <2>2, <2>3
<1> QED
  BY <1>2, <1>3, <1>7 DEF ApprovalsInv

(* What is loaded is what the daemon has. *)
LEMMA LoadedIs ==
  ASSUME ApprovalsInv
  PROVE  /\ Loaded \in [Requests -> {"none", "pending", "resolved"}]
         /\ \A q \in Requests :
              /\ requested[q].state = "none" => Loaded[q] = "none"
              /\ requested[q].state = "waiting" => Loaded[q] = "pending"
              /\ requested[q].state \notin {"none", "waiting"} => Loaded[q] = "resolved"
BY DEF ApprovalsInv, ApprovalTypes, Loaded

(* When nothing is under way the user knows of all that waits. *)
LEMMA QuietIsKnown ==
  ASSUME ApprovalsInv, feed = <<>>
  PROVE  \A q \in Requests : requested[q].state = "waiting" => q \in aware
BY NothingOnFeed DEF ApprovalsInv, UserWillKnow

LEMMA GlanceKeeps ==
  ASSUME ApprovalsInv, Barred(ApprovalRaces), NEW to \in {"focused", "blurred", "hidden"}, Glance(to)
  PROVE  ApprovalsInv'
<1>1. /\ to = "focused" \/ feed = <<>>
      /\ paneIs' = to
      /\ responding' = IF to = "hidden" THEN {} ELSE responding
      /\ cards' = IF paneIs = "hidden" /\ online THEN Loaded ELSE cards
      /\ IF to = "focused" THEN aware' = aware \cup {r \in Requests : cards'[r] = "pending"} /\ alerted' = FALSE
         ELSE UNCHANGED <<aware, alerted>>
      /\ UNCHANGED <<requested, alarm, feed, answersOut, optedIn, online>>
  BY ApprovalRacesBarred DEF Glance, daemonVars
<1>2. ApprovalTypes'
  BY <1>1, LoadedIs DEF ApprovalsInv, ApprovalTypes
<1>3. AnswersMeant' /\ SilentOffline'
  BY <1>1 DEF ApprovalsInv, AnswersMeant, SilentOffline
<1>4. (alarm = (Unresolved # {}))'
  BY <1>1, RequestsStay
<1>5. \A e : OnFeed(e)' <=> OnFeed(e)
  BY <1>1 DEF OnFeed
<1>6. \A q : OnItsWay(q)' <=> OnItsWay(q)
  BY <1>1 DEF OnItsWay
<1>7. ASSUME NEW q \in Requests
      PROVE  CardFollows(q)' /\ AnswersUnderWay(q)' /\ UserWillKnow(q)'
  <2>1. CardFollows(q) /\ AnswersUnderWay(q)
    BY DEF ApprovalsInv
  <2>2. CardFollows(q)'
    <3>1. CASE cards' = cards
      BY <1>1, <1>5, <2>1, <3>1 DEF CardFollows
    <3>2. CASE cards' = Loaded
      BY <1>1, <1>5, <2>1, <3>2, LoadedIs DEF CardFollows
    <3> QED
      BY <1>1, <3>1, <3>2
  <2>3. AnswersUnderWay(q)'
    BY <1>1, <1>5, <1>6, <2>1 DEF AnswersUnderWay
  <2>4. UserWillKnow(q)'
    <3>1. CASE to = "focused"
      <4> SUFFICES ASSUME requested[q].state = "waiting", q \notin aware'
                   PROVE  OnFeed(<<"asked", q>>)' /\ paneIs' = "focused"
        BY <1>1 DEF UserWillKnow
      <4>1. cards'[q] # "pending"
        BY <1>1, <3>1
      <4> QED
        BY <1>1, <2>2, <3>1, <4>1 DEF CardFollows
    <3>2. CASE to # "focused"
      BY <1>1, <3>2, QuietIsKnown DEF UserWillKnow
    <3> QED
      BY <3>1, <3>2
  <2> QED
    BY <2>2, <2>3, <2>4
<1> QED
  BY <1>2, <1>3, <1>4, <1>7 DEF ApprovalsInv

LEMMA LoseConnectionKeeps ==
  ASSUME ApprovalsInv, Barred(ApprovalRaces), LoseConnection
  PROVE  ApprovalsInv'
<1>1. /\ feed = <<>> /\ answersOut = {} /\ feed' = <<>> /\ answersOut' = {}
      /\ online' = FALSE
      /\ UNCHANGED <<requested, alarm, cards, responding, optedIn, paneIs, aware, alerted>>
  BY ApprovalRacesBarred DEF LoseConnection, daemonVars, screenVars
<1>2. ApprovalTypes' /\ AnswersMeant' /\ SilentOffline'
  BY <1>1 DEF ApprovalsInv, ApprovalTypes, AnswersMeant, SilentOffline
<1>3. (alarm = (Unresolved # {}))'
  BY <1>1, RequestsStay
<1>4. \A e : OnFeed(e)' <=> OnFeed(e)
  BY <1>1 DEF OnFeed
<1>5. \A q : OnItsWay(q)' <=> OnItsWay(q)
  BY <1>1 DEF OnItsWay
<1>6. \A q \in Requests : CardFollows(q)' /\ AnswersUnderWay(q)' /\ UserWillKnow(q)'
  BY <1>1, <1>4, <1>5 DEF ApprovalsInv, CardFollows, AnswersUnderWay, UserWillKnow
<1> QED
  BY <1>2, <1>3, <1>6 DEF ApprovalsInv

LEMMA ResyncKeeps ==
  ASSUME ApprovalsInv, Resync
  PROVE  ApprovalsInv'
<1>1. /\ ~online /\ online' = TRUE
      /\ cards' = IF paneIs = "hidden" THEN cards ELSE Loaded
      /\ aware \subseteq aware'
      /\ UNCHANGED <<requested, alarm, feed, answersOut, responding, optedIn, paneIs, alerted>>
  BY DEF Resync, daemonVars
<1>2. feed = <<>>
  BY <1>1 DEF ApprovalsInv, SilentOffline
<1>3. ApprovalTypes'
  BY <1>1, LoadedIs DEF ApprovalsInv, ApprovalTypes
<1>4. AnswersMeant' /\ SilentOffline'
  BY <1>1 DEF ApprovalsInv, AnswersMeant, SilentOffline
<1>5. (alarm = (Unresolved # {}))'
  BY <1>1, RequestsStay
<1>6. \A e : OnFeed(e)' <=> OnFeed(e)
  BY <1>1 DEF OnFeed
<1>7. \A q : OnItsWay(q)' <=> OnItsWay(q)
  BY <1>1 DEF OnItsWay
<1>8. ASSUME NEW q \in Requests
      PROVE  CardFollows(q)' /\ AnswersUnderWay(q)' /\ UserWillKnow(q)'
  <2>1. CardFollows(q) /\ AnswersUnderWay(q)
    BY DEF ApprovalsInv
  <2>2. CASE cards' = cards
    BY <1>1, <1>2, <1>6, <1>7, <2>1, <2>2, QuietIsKnown DEF CardFollows, AnswersUnderWay, UserWillKnow
  <2>3. CASE cards' = Loaded
    <3>1. CardFollows(q)'
      BY <1>1, <1>6, <2>1, <2>3, LoadedIs DEF CardFollows
    <3>2. AnswersUnderWay(q)' /\ UserWillKnow(q)'
      BY <1>1, <1>2, <1>6, <1>7, <2>1, QuietIsKnown DEF AnswersUnderWay, UserWillKnow
    <3> QED
      BY <3>1, <3>2
  <2> QED
    BY <1>1, <2>2, <2>3
<1> QED
  BY <1>3, <1>4, <1>5, <1>8 DEF ApprovalsInv

LEMMA ReloadWindowKeeps ==
  ASSUME ApprovalsInv, Barred(ApprovalRaces), ReloadWindow
  PROVE  ApprovalsInv'
<1>1. /\ feed = <<>> /\ answersOut = {} /\ feed' = <<>>
      /\ responding' = {} /\ optedIn' = FALSE /\ paneIs' = "focused" /\ cards' = Loaded
      /\ aware \subseteq aware' /\ alerted' = FALSE
      /\ UNCHANGED <<requested, alarm, answersOut, online>>
  BY ApprovalRacesBarred DEF ReloadWindow, daemonVars
<1>2. ApprovalTypes'
  BY <1>1, LoadedIs DEF ApprovalsInv, ApprovalTypes
<1>3. AnswersMeant' /\ SilentOffline'
  BY <1>1 DEF AnswersMeant, SilentOffline
<1>4. (alarm = (Unresolved # {}))'
  BY <1>1, RequestsStay
<1>5. \A e : OnFeed(e)' <=> OnFeed(e)
  BY <1>1 DEF OnFeed
<1>6. ASSUME NEW q \in Requests
      PROVE  CardFollows(q)' /\ AnswersUnderWay(q)' /\ UserWillKnow(q)'
  <2>1. CardFollows(q) /\ AnswersUnderWay(q)
    BY DEF ApprovalsInv
  <2>2. CardFollows(q)'
    BY <1>1, <1>5, <2>1, LoadedIs DEF CardFollows
  <2>3. AnswersUnderWay(q)' /\ UserWillKnow(q)'
    BY <1>1, <2>1, QuietIsKnown DEF AnswersUnderWay, UserWillKnow
  <2> QED
    BY <2>2, <2>3
<1> QED
  BY <1>2, <1>3, <1>4, <1>6 DEF ApprovalsInv

LEMMA ApprovalsStarts ==
  ASSUME ApprovalsInit
  PROVE  ApprovalsInv
<1>1. /\ feed = <<>> /\ answersOut = {} /\ alarm = FALSE
      /\ \A r \in Requests : requested[r].state = "none" /\ cards[r] = "none" /\ r \notin responding
  BY DEF ApprovalsInit
<1>2. ApprovalTypes
  <2>1. requested \in [Requests -> [ask : Askable, state : {"none", "waiting", "card", "auto", "other", "expired"}]]
    BY AskIs DEF ApprovalsInit
  <2>2. cards \in [Requests -> {"none", "pending", "resolved"}]
    BY DEF ApprovalsInit
  <2>3. feed \in Seq(FeedEvents) /\ answersOut \in SUBSET [of : Requests, by : {"card", "auto"}]
    BY <1>1
  <2>4. optedIn = FALSE /\ online = TRUE /\ alerted = FALSE /\ paneIs = "focused"
    BY DEF ApprovalsInit
  <2> QED
    BY <2>1, <2>2, <2>3, <2>4 DEF ApprovalTypes
<1>3. AnswersMeant /\ SilentOffline /\ alarm = (Unresolved # {})
  BY <1>1 DEF AnswersMeant, SilentOffline, Unresolved
<1>4. \A r \in Requests : CardFollows(r) /\ AnswersUnderWay(r) /\ UserWillKnow(r)
  BY <1>1, NothingOnFeed DEF CardFollows, AnswersUnderWay, UserWillKnow
<1> QED
  BY <1>2, <1>3, <1>4 DEF ApprovalsInv

LEMMA ApprovalsStep ==
  ASSUME ApprovalsInv, Barred(ApprovalRaces), ApprovalsNext \/ UNCHANGED approvalVars
  PROVE  ApprovalsInv'
<1>1. CASE UNCHANGED approvalVars
  <2>1. UNCHANGED <<requested, alarm, feed, answersOut, cards, responding, optedIn, paneIs, online, aware, alerted>>
    BY <1>1 DEF approvalVars, daemonVars, screenVars, userVars
  <2>2. ApprovalTypes' /\ AnswersMeant' /\ SilentOffline' /\ (alarm = (Unresolved # {}))'
    BY <2>1, RequestsStay DEF ApprovalsInv, ApprovalTypes, AnswersMeant, SilentOffline
  <2>3. /\ \A e : OnFeed(e)' <=> OnFeed(e)
        /\ \A q : OnItsWay(q)' <=> OnItsWay(q)
    BY <2>1 DEF OnFeed, OnItsWay
  <2>4. \A q \in Requests : CardFollows(q)' /\ AnswersUnderWay(q)' /\ UserWillKnow(q)'
    BY <2>1, <2>3 DEF ApprovalsInv, CardFollows, AnswersUnderWay, UserWillKnow
  <2> QED
    BY <2>2, <2>4 DEF ApprovalsInv
<1>2. CASE \E r \in Requests : Ask(r) \/ DecidedElsewhere(r) \/ Respond(r)
  BY <1>2, AskKeeps, DecidedElsewhereKeeps, RespondKeeps
<1>3. CASE \E answer \in answersOut : RespondPermission(answer)
  BY <1>3, RespondPermissionKeeps
<1>4. CASE OnEvent \/ SetAutoApprove \/ LoseConnection \/ Resync \/ ReloadWindow
  BY <1>4, OnEventKeeps, SetAutoApproveKeeps, LoseConnectionKeeps, ResyncKeeps, ReloadWindowKeeps
<1>5. CASE \E to \in {"focused", "blurred", "hidden"} : Glance(to)
  BY <1>5, GlanceKeeps
<1> QED
  BY <1>1, <1>2, <1>3, <1>4, <1>5 DEF ApprovalsNext

LEMMA ApprovalsAreSound ==
  ASSUME ApprovalsInv
  PROVE  ApprovalsSound
<1>1. \A r \in Requests : CardFollows(r) /\ AnswersUnderWay(r) /\ UserWillKnow(r)
  BY DEF ApprovalsInv
<1>2. Arrived => \A e : ~OnFeed(e)
  BY NothingOnFeed DEF Arrived
<1>3. CardsAnswerable
  BY <1>1, <1>2 DEF CardsAnswerable, Cards, Unresolved, CardFollows, AnswersUnderWay
<1>4. ApprovesOnItsOwn
  BY <1>1, <1>2 DEF ApprovesOnItsOwn, Unresolved, AnswersUnderWay
<1>5. UserIsTold
  BY <1>1, <1>2 DEF UserIsTold, Unresolved, UserWillKnow
<1> QED
  BY <1>3, <1>4, <1>5 DEF ApprovalsSound

-----------------------------------------------------------------------------
(* The workbench *)

WorkbenchRaces == {"moved", "across", "elsewhere", "cut", "ghost", "unloaded", "early", "behind"}

DeskOrNone == Desks \cup {NoDesk}
TabOrNone  == TabIds \cup {NoTab}
TalkStates == {"none", "open", "closed"}
Listings   == [Talks -> [at : TalkStates, home : DeskOrNone]]
Typed      == Queries \cup {NoQuery}
LayoutSet  == [tabs : Seq(TabIds), active : TabOrNone, secondary : TabOrNone]

LayoutOk(layout) ==
  /\ layout \in LayoutSet /\ IsInjective(layout.tabs)
  /\ {layout.active, layout.secondary} \subseteq ToSet(layout.tabs) \cup {NoTab}

WorkbenchTypes ==
  /\ talk \in [Talks -> [at : TalkStates \cup {"deleted"}, home : DeskOrNone]]
  /\ \A t \in Talks : talk[t].at # "none" => talk[t].home \in Desks
  /\ desks \subseteq Desks /\ activeDesk \in DeskOrNone
  /\ pageStage \in {"starting", "listed", "up"}
  /\ listAsked \in BOOLEAN
  /\ work = NoWork \/ work \in [op : {"create", "resume", "close", "delete"}, talk : Talks, home : Desks,
                                at : {"sent", "answered"}]

(* What the user asked for is under way in the workspace he is in. *)
WorkFits ==
  /\ work # NoWork => PageUp
  /\ work.op = "create" =>
       /\ work.home = activeDesk
       /\ work.at = "sent" => talk[work.talk].at = "none"
       /\ work.at = "answered" => talk[work.talk].at \in {"open", "closed"} /\ talk[work.talk].home = work.home
  /\ work.op \in {"resume", "close", "delete"} =>
       talk[work.talk].at # "none" /\ talk[work.talk].home = work.home
  /\ work.op = "resume" /\ work.at = "answered" => talk[work.talk].at # "deleted"
  /\ work.op = "delete" => work.home = activeDesk

Deleting(t) == work.op = "delete" /\ work.talk = t /\ work.at = "answered"

(* A tab of a session is at the workspace of the session, which is there or just deleted. *)
Fits(t, d) ==
  talk[t].at # "none" /\ talk[t].home = d /\ (talk[t].at = "deleted" => Deleting(t))

TabsFit(d) ==
  /\ LayoutOk(layouts[d]) /\ saved[d] \in LayoutSet /\ IsInjective(saved[d].tabs)
  /\ \A t \in ToSet(saved[d].tabs) \cap Talks : Fits(t, d)
  /\ meant[d] \subseteq TabIds
  /\ {id \in meant[d] : id = Files \/ talk[id].at # "deleted"} \subseteq ToSet(saved[d].tabs)

LayoutsFit ==
  /\ DOMAIN layouts = Desks /\ DOMAIN saved = Desks /\ DOMAIN meant = Desks
  /\ layouts = [d \in Desks |-> layouts[d]] /\ saved = [d \in Desks |-> saved[d]]
  /\ meant = [d \in Desks |-> meant[d]]
  /\ layouts = IF PageUp THEN saved ELSE [d \in Desks |-> NoLayout]
  /\ \A d \in Desks : TabsFit(d)

(* A list names sessions that there are or were, and before the tabs are restored all that have one. *)
ListFits(list) ==
  /\ list \in Listings
  /\ \A t \in Talks : list[t].at # "none" => talk[t].at # "none" /\ list[t].home = talk[t].home

ListsTabs(list) == \A d \in Desks : \A t \in ToSet(saved[d].tabs) \cap Talks : list[t].at # "none"

Newest == IF listAnswers = <<>> THEN listed ELSE listAnswers[Len(listAnswers)]

ListsFit ==
  /\ listAnswers \in Seq(Listings)
  /\ ListFits(listed) /\ (pageStage = "listed" => ListsTabs(listed))
  /\ \A i \in 1..Len(listAnswers) : ListFits(listAnswers[i]) /\ (PageUp \/ ListsTabs(listAnswers[i]))
  /\ listAsked \/ Newest = InList

(* The palette and its searches are of the workspace that is chosen while it is open. *)
PaletteFits ==
  /\ palette \in [open : BOOLEAN, query : Typed, for : Typed, desk : DeskOrNone, loading : BOOLEAN, seq : Nat]
  /\ searches \subseteq [seq : Nat, query : Typed, desk : DeskOrNone]
  /\ \A s \in searches : s.seq <= palette.seq
  /\ palette.open =>
       /\ palette.for # NoQuery => palette.desk = activeDesk
       /\ \A s \in searches : s.seq = palette.seq => s.desk = activeDesk /\ s.query = palette.query
       /\ palette.loading => \E s \in searches : s.seq = palette.seq
       /\ palette.loading \/ palette.for = palette.query

WorkbenchInv == WorkbenchTypes /\ WorkFits /\ LayoutsFit /\ ListsFit /\ ShownIsLoaded /\ PaletteFits

LEMMA WorkbenchRacesBarred ==
  ASSUME Barred(WorkbenchRaces)
  PROVE  /\ ~Allows("moved") /\ ~Allows("across") /\ ~Allows("elsewhere") /\ ~Allows("cut")
         /\ ~Allows("ghost") /\ ~Allows("unloaded") /\ ~Allows("early") /\ ~Allows("behind")
BY DEF Barred, WorkbenchRaces, Allows

(* The k-th of a set of positions is there, and is another for another k. *)
LEMMA PlaceOfRank ==
  ASSUME NEW n \in Nat, NEW S \in SUBSET (1..n)
  PROVE  /\ Cardinality(S) \in Nat
         /\ \A i \in S : Cardinality({j \in S : j <= i}) \in 1..Cardinality(S)
         /\ \A i, k \in S : Cardinality({j \in S : j <= i}) = Cardinality({j \in S : j <= k}) => i = k
         /\ \A k \in 1..Cardinality(S) : \E i \in S : Cardinality({j \in S : j <= i}) = k
<1> DEFINE Upto(i) == {j \in S : j <= i}
           Rank(i) == Cardinality(Upto(i))
           ranks == {Rank(i) : i \in S}
<1>1. IsFiniteSet(S) /\ Cardinality(S) \in Nat
  <2>1. IsFiniteSet(1..n)
    BY FS_Interval
  <2> QED
    BY <2>1, FS_Subset, FS_CardinalityType
<1>2. \A i \in S : IsFiniteSet(Upto(i)) /\ Rank(i) \in 1..Cardinality(S)
  <2> TAKE i \in S
  <2>1. Upto(i) \subseteq S /\ i \in Upto(i)
    OBVIOUS
  <2>2. IsFiniteSet(Upto(i)) /\ Rank(i) <= Cardinality(S) /\ Rank(i) \in Nat
    BY <1>1, <2>1, FS_Subset, FS_CardinalityType
  <2>3. Rank(i) # 0
    BY <2>1, <2>2, FS_EmptySet
  <2> QED
    BY <1>1, <2>2, <2>3
<1>3. \A i, k \in S : i < k => Rank(i) < Rank(k)
  <2> TAKE i, k \in S
  <2> HAVE i < k
  <2>1. Upto(i) \subseteq Upto(k) /\ k \in Upto(k) /\ k \notin Upto(i)
    <3>1. i \in Nat /\ k \in Nat /\ \A j \in S : j \in Nat
      OBVIOUS
    <3>2. k <= k /\ ~(k <= i) /\ \A j \in S : j <= i => j <= k
      BY <3>1
    <3> QED
      BY <3>2
  <2>2. Rank(i) <= Rank(k) /\ Rank(i) # Rank(k)
    BY <1>2, <2>1, FS_Subset
  <2> QED
    BY <1>2, <2>2
<1>4. \A i, k \in S : Rank(i) = Rank(k) => i = k
  <2> TAKE i, k \in S
  <2> HAVE Rank(i) = Rank(k)
  <2>1. i \in Nat /\ k \in Nat /\ Rank(i) \in Nat /\ Rank(k) \in Nat
    BY <1>2
  <2>2. ~(Rank(i) < Rank(k)) /\ ~(Rank(k) < Rank(i))
    BY <2>1
  <2>3. ~(i < k) /\ ~(k < i)
    BY <1>3, <2>2
  <2> QED
    BY <2>1, <2>3
<1>5. Cardinality(ranks) = Cardinality(S)
  <2> DEFINE f == [i \in S |-> Rank(i)]
  <2> HIDE DEF Rank
  <2>1. f \in [S -> ranks] /\ \A i, k \in S : f[i] = f[k] => i = k
    BY <1>4
  <2>2. \A c \in ranks : \E i \in S : f[i] = c
    OBVIOUS
  <2>3. ExistsBijection(S, ranks)
    BY <2>1, <2>2 DEF ExistsBijection, Bijection, Injection, Surjection, IsInjective
  <2> QED
    BY <1>1, <2>3, FS_Bijection
<1>6. ranks = 1..Cardinality(S)
  <2>1. ranks \subseteq 1..Cardinality(S)
    BY <1>2
  <2>2. IsFiniteSet(1..Cardinality(S)) /\ Cardinality(1..Cardinality(S)) = Cardinality(S)
    BY <1>1, FS_Interval
  <2> QED
    BY <1>5, <2>1, <2>2, FS_Subset
<1> QED
  BY <1>1, <1>2, <1>4, <1>6

(* What is filtered is in the order it was in, once, and is what was asked for. *)
LEMMA OnlyIs ==
  ASSUME NEW T, NEW row \in Seq(T), IsInjective(row), NEW ids
  PROVE  /\ Only(row, ids) \in Seq(T) /\ IsInjective(Only(row, ids))
         /\ ToSet(Only(row, ids)) = ToSet(row) \cap ids
<1> DEFINE left == {i \in DOMAIN row : row[i] \in ids}
           Rank(i) == Cardinality({j \in left : j <= i})
           n == Cardinality(left)
           Nth(k) == CHOOSE i \in left : Rank(i) = k
           only == Only(row, ids)
<1>1. Len(row) \in Nat /\ DOMAIN row = 1..Len(row) /\ left \subseteq 1..Len(row)
  OBVIOUS
<1>2. /\ n \in Nat /\ \A i \in left : Rank(i) \in 1..n
      /\ \A i, k \in left : Rank(i) = Rank(k) => i = k
      /\ \A k \in 1..n : \E i \in left : Rank(i) = k
  BY <1>1, PlaceOfRank
<1>3. only = [k \in 1..n |-> row[Nth(k)]]
  BY DEF Only
<1> HIDE DEF n, Rank, only
<1>4. \A k \in 1..n : Nth(k) \in left /\ Rank(Nth(k)) = k
  BY <1>2
<1>5. \A i \in left : Nth(Rank(i)) = i
  BY <1>2, <1>4
<1> HIDE DEF Nth
<1>6. DOMAIN only = 1..n /\ only \in Seq(T)
  <2>1. \A k \in 1..n : row[Nth(k)] \in T
    BY <1>1, <1>4
  <2>2. only \in [1..n -> T]
    BY <1>3, <2>1
  <2> QED
    BY <1>2, <2>2
<1>7. IsInjective(only)
  <2> SUFFICES ASSUME NEW k \in 1..n, NEW l \in 1..n, only[k] = only[l]
               PROVE  k = l
    BY <1>6 DEF IsInjective
  <2>1. Nth(k) \in DOMAIN row /\ Nth(l) \in DOMAIN row /\ row[Nth(k)] = row[Nth(l)]
    BY <1>3, <1>4
  <2>2. Nth(k) = Nth(l)
    BY <2>1 DEF IsInjective
  <2> QED
    BY <1>4, <2>2
<1>8. ASSUME NEW id \in ToSet(only)
      PROVE  id \in ToSet(row) \cap ids
  <2>1. PICK k \in 1..n : only[k] = id
    BY <1>6, <1>8 DEF ToSet
  <2>2. Nth(k) \in left /\ id = row[Nth(k)]
    BY <1>3, <1>4, <2>1
  <2> QED
    BY <2>2 DEF ToSet
<1>9. ASSUME NEW id \in ToSet(row) \cap ids
      PROVE  id \in ToSet(only)
  <2>1. PICK i \in DOMAIN row : row[i] = id
    BY <1>9 DEF ToSet
  <2>2. i \in left
    BY <1>9, <2>1
  <2>3. Rank(i) \in 1..n /\ only[Rank(i)] = id
    BY <1>2, <1>3, <1>5, <2>1, <2>2
  <2> QED
    BY <1>6, <2>3 DEF ToSet
<1> QED
  BY <1>6, <1>7, <1>8, <1>9 DEF only

(* The functions of tabs.ts keep a layout in order. *)
LEMMA HasIs ==
  ASSUME NEW layout, NEW id
  PROVE  Has(layout, id) <=> id \in ToSet(layout.tabs)
BY DEF Has, ToSet

LEMMA OpenTabIs ==
  ASSUME NEW layout, LayoutOk(layout), NEW id \in TabIds
  PROVE  /\ LayoutOk(OpenTab(layout, id))
         /\ ToSet(OpenTab(layout, id).tabs) = ToSet(layout.tabs) \cup {id}
         /\ OpenTab(layout, id).active = id /\ OpenTab(layout, id).secondary = layout.secondary
<1> DEFINE row == layout.tabs
           new == OpenTab(layout, id)
           all == IF Has(layout, id) THEN row ELSE Append(row, id)
<1>1. layout \in LayoutSet /\ row \in Seq(TabIds) /\ IsInjective(row)
  BY DEF LayoutOk, LayoutSet
<1>2. new = [layout EXCEPT !.active = id, !.tabs = all]
  BY DEF OpenTab
<1>3. new.tabs = all /\ new.active = id /\ new.secondary = layout.secondary
      /\ new = [tabs |-> all, active |-> id, secondary |-> layout.secondary]
  BY <1>1, <1>2 DEF LayoutSet
<1>4. all \in Seq(TabIds) /\ ToSet(all) = ToSet(row) \cup {id} /\ IsInjective(all)
  <2>1. CASE Has(layout, id)
    BY <1>1, <2>1, HasIs
  <2>2. CASE ~Has(layout, id)
    <3>1. all = Append(row, id) /\ all \in Seq(TabIds)
      BY <1>1, <2>2
    <3>2. /\ Len(row) \in Nat /\ DOMAIN row = 1..Len(row) /\ DOMAIN all = 1..(Len(row) + 1)
          /\ all[Len(row) + 1] = id /\ \A i \in 1..Len(row) : all[i] = row[i]
      BY <1>1, <3>1
    <3>3. \A i \in 1..Len(row) : row[i] # id
      BY <2>2, <3>2, HasIs DEF ToSet
    <3> HIDE DEF all, row
    <3>4. IsInjective(all)
      <4> SUFFICES ASSUME NEW i \in DOMAIN all, NEW k \in DOMAIN all, all[i] = all[k]
                   PROVE  i = k
        BY DEF IsInjective
      <4>1. CASE i = Len(row) + 1 \/ k = Len(row) + 1
        BY <3>2, <3>3, <4>1
      <4>2. CASE i # Len(row) + 1 /\ k # Len(row) + 1
        <5>1. i \in DOMAIN row /\ k \in DOMAIN row /\ row[i] = row[k]
          BY <3>2, <4>2
        <5> QED
          BY <1>1, <5>1 DEF IsInjective
      <4> QED
        BY <4>1, <4>2
    <3>5. \A x : x \in ToSet(all) <=> x \in ToSet(row) \/ x = id
      <4> TAKE x
      <4>1. x \in ToSet(all) => x \in ToSet(row) \/ x = id
        BY <3>2 DEF ToSet
      <4>2. x \in ToSet(row) => x \in ToSet(all)
        BY <3>2 DEF ToSet
      <4>3. Len(row) + 1 \in DOMAIN all
        BY <3>2
      <4>4. id \in ToSet(all)
        BY <3>2, <4>3 DEF ToSet
      <4> QED
        BY <4>1, <4>2, <4>4
    <3> QED
      BY <3>1, <3>4, <3>5
  <2> QED
    BY <2>1, <2>2
<1> HIDE DEF all, new
<1>5. {layout.active, layout.secondary} \subseteq ToSet(row) \cup {NoTab}
  BY DEF LayoutOk
<1>6. new \in LayoutSet
  BY <1>1, <1>3, <1>4 DEF LayoutSet, TabOrNone
<1> QED
  BY <1>3, <1>4, <1>5, <1>6 DEF LayoutOk, new

LEMMA CloseTabIs ==
  ASSUME NEW layout, LayoutOk(layout), NEW id \in TabIds
  PROVE  /\ LayoutOk(CloseTab(layout, id))
         /\ ToSet(CloseTab(layout, id).tabs) = ToSet(layout.tabs) \ {id}
<1>1. CASE ~Has(layout, id)
  BY <1>1, HasIs DEF CloseTab
<1>2. CASE Has(layout, id)
  <2> DEFINE index == CHOOSE i \in DOMAIN layout.tabs : layout.tabs[i] = id
             rest  == Only(layout.tabs, TabIds \ {id})
             next  == IF rest = <<>> THEN NoTab ELSE rest[IF index > Len(rest) THEN Len(rest) ELSE index]
             front == IF layout.active = id THEN next ELSE layout.active
             side  == IF layout.secondary = id THEN NoTab ELSE layout.secondary
             new == CloseTab(layout, id)
  <2>1. new = [tabs |-> rest, active |-> front, secondary |-> side]
    BY <1>2 DEF CloseTab
  <2>2. layout \in LayoutSet /\ layout.tabs \in Seq(TabIds) /\ IsInjective(layout.tabs)
        /\ {layout.active, layout.secondary} \subseteq ToSet(layout.tabs) \cup {NoTab}
    BY DEF LayoutOk, LayoutSet
  <2>3. ToSet(layout.tabs) \subseteq TabIds
    BY <2>2 DEF ToSet
  <2>4. rest \in Seq(TabIds) /\ IsInjective(rest) /\ ToSet(rest) = ToSet(layout.tabs) \ {id}
    <3>1. ToSet(rest) = ToSet(layout.tabs) \cap (TabIds \ {id})
      BY <2>2, OnlyIs
    <3>2. rest \in Seq(TabIds) /\ IsInjective(rest)
      BY <2>2, OnlyIs
    <3> QED
      BY <2>3, <3>1, <3>2
  <2>5. index \in Nat /\ index >= 1
    <3>1. \E i \in DOMAIN layout.tabs : layout.tabs[i] = id
      BY <1>2 DEF Has
    <3>2. index \in DOMAIN layout.tabs
      BY <3>1
    <3> QED
      BY <2>2, <3>2
  <2> HIDE DEF index, rest
  <2>6. next \in ToSet(rest) \cup {NoTab}
    <3>1. CASE rest # <<>>
      <4>1. Len(rest) \in Nat /\ Len(rest) >= 1 /\ DOMAIN rest = 1..Len(rest)
        BY <2>4, <3>1
      <4>2. (IF index > Len(rest) THEN Len(rest) ELSE index) \in DOMAIN rest
        BY <2>5, <4>1
      <4> QED
        BY <3>1, <4>2 DEF ToSet
    <3> QED
      BY <3>1
  <2> HIDE DEF next
  <2>7. {front, side} \subseteq ToSet(rest) \cup {NoTab}
    BY <2>2, <2>4, <2>6
  <2> HIDE DEF front, side, new
  <2>8. new.tabs = rest /\ new.active = front /\ new.secondary = side
    BY <2>1
  <2>9. ToSet(rest) \subseteq TabIds
    BY <2>3, <2>4
  <2>10. new \in LayoutSet
    BY <2>1, <2>4, <2>7, <2>9 DEF LayoutSet, TabOrNone
  <2> QED
    BY <2>4, <2>7, <2>8, <2>10 DEF LayoutOk, new
<1> QED
  BY <1>1, <1>2

LEMMA SetSplitIs ==
  ASSUME NEW layout, LayoutOk(layout), NEW on \in BOOLEAN
  PROVE  /\ LayoutOk(SetSplit(layout, on))
         /\ SetSplit(layout, on).tabs = layout.tabs /\ SetSplit(layout, on).active = layout.active
<1> DEFINE others == {i \in DOMAIN layout.tabs : layout.tabs[i] # layout.active}
           secondary == IF on /\ others # {} THEN layout.tabs[Min(others)] ELSE NoTab
           new == SetSplit(layout, on)
<1>1. layout \in LayoutSet /\ layout.tabs \in Seq(TabIds) /\ IsInjective(layout.tabs)
      /\ layout.active \in ToSet(layout.tabs) \cup {NoTab}
  BY DEF LayoutOk, LayoutSet
<1>2. new = [layout EXCEPT !.secondary = secondary]
  BY DEF SetSplit
<1>3. secondary \in ToSet(layout.tabs) \cup {NoTab}
  <2>1. CASE others # {}
    <3>1. others \in SUBSET Nat
      BY <1>1
    <3>2. Min(others) \in others
      BY <2>1, <3>1, LeastIsIn
    <3>3. layout.tabs[Min(others)] \in ToSet(layout.tabs)
      BY <3>2 DEF ToSet
    <3> QED
      BY <3>3
  <2> QED
    BY <2>1
<1> HIDE DEF secondary, new
<1>4. new.tabs = layout.tabs /\ new.active = layout.active /\ new.secondary = secondary
      /\ new = [tabs |-> layout.tabs, active |-> layout.active, secondary |-> secondary]
  BY <1>1, <1>2 DEF LayoutSet
<1>5. ToSet(layout.tabs) \subseteq TabIds
  BY <1>1 DEF ToSet
<1>6. new \in LayoutSet
  BY <1>1, <1>3, <1>4, <1>5 DEF LayoutSet, TabOrNone
<1> QED
  BY <1>1, <1>3, <1>4, <1>6 DEF LayoutOk, new

LEMMA RestoreLayoutIs ==
  ASSUME NEW layout \in LayoutSet, IsInjective(layout.tabs), NEW alive
  PROVE  /\ LayoutOk(RestoreLayout(layout, alive))
         /\ ToSet(RestoreLayout(layout, alive).tabs) = ToSet(layout.tabs) \cap alive
<1> DEFINE left  == Only(layout.tabs, alive)
           kept  == [layout EXCEPT !.tabs = left]
           front == IF Has(kept, layout.active) THEN layout.active ELSE IF left = <<>> THEN NoTab ELSE Head(left)
           other == IF Has(kept, layout.secondary) /\ layout.secondary # front THEN layout.secondary ELSE NoTab
           new   == RestoreLayout(layout, alive)
<1>1. layout.tabs \in Seq(TabIds)
  BY DEF LayoutSet
<1>2. new = [tabs |-> left, active |-> front, secondary |-> other]
  BY DEF RestoreLayout
<1>3. left \in Seq(TabIds) /\ IsInjective(left) /\ ToSet(left) = ToSet(layout.tabs) \cap alive
  BY <1>1, OnlyIs
<1> HIDE DEF left
<1>4. kept.tabs = left
  BY DEF LayoutSet
<1> HIDE DEF kept
<1>5. left # <<>> => Head(left) \in ToSet(left)
  <2> HAVE left # <<>>
  <2>1. 1 \in DOMAIN left /\ Head(left) = left[1]
    BY <1>3
  <2> QED
    BY <2>1 DEF ToSet
<1>6. front \in ToSet(left) \cup {NoTab} /\ other \in ToSet(left) \cup {NoTab}
  BY <1>4, <1>5, HasIs
<1> HIDE DEF front, other, new
<1>7. new.tabs = left /\ new.active = front /\ new.secondary = other
  BY <1>2
<1>8. ToSet(left) \subseteq TabIds
  BY <1>3 DEF ToSet
<1>9. new \in LayoutSet
  BY <1>2, <1>3, <1>6, <1>8 DEF LayoutSet, TabOrNone
<1> QED
  BY <1>3, <1>6, <1>7, <1>9 DEF LayoutOk, new

(* What a step leaves alone. *)

LEMMA PaletteStays ==
  ASSUME PaletteFits, UNCHANGED paletteVars, activeDesk' = activeDesk \/ ~palette.open
  PROVE  PaletteFits'
<1>1. palette' = palette /\ searches' = searches
  BY DEF paletteVars
<1> QED
  BY <1>1 DEF PaletteFits

LEMMA WorkStays ==
  ASSUME WorkFits, UNCHANGED <<work, pageStage, talk>>, activeDesk' = activeDesk \/ work = NoWork
  PROVE  WorkFits'
<1>1. CASE activeDesk' = activeDesk
  BY <1>1 DEF WorkFits, PageUp
<1>2. CASE work = NoWork
  BY <1>2 DEF WorkFits, NoWork
<1> QED
  BY <1>1, <1>2

LEMMA NothingUnderWay ==
  ASSUME work' = NoWork
  PROVE  WorkFits'
BY DEF WorkFits, NoWork

(* Sessions do not lose their workspace, nor come back. *)
TalksGoOn ==
  \A t \in Talks :
    /\ talk[t].at # "none" => talk'[t].at # "none" /\ talk'[t].home = talk[t].home
    /\ talk[t].at = "deleted" => talk'[t].at = "deleted"

LEMMA ListsStay ==
  ASSUME ListsFit, PageUp \/ saved' = saved, pageStage' = pageStage,
         listed' = listed, listAnswers' = listAnswers,
         TalksGoOn, listAsked' \/ (talk' = talk /\ listAsked' = listAsked)
  PROVE  ListsFit'
<1>1. \A list \in Listings : ListFits(list) => ListFits(list)'
  BY DEF ListFits, TalksGoOn
<1>2. listAnswers \in Seq(Listings) /\ ListFits(listed) /\ listed \in Listings
      /\ \A i \in 1..Len(listAnswers) : ListFits(listAnswers[i]) /\ listAnswers[i] \in Listings
  BY DEF ListsFit, ListFits
<1>3. ListFits(listed)' /\ \A i \in 1..Len(listAnswers) : ListFits(listAnswers[i])'
  BY <1>1, <1>2
<1>4. (listAsked \/ Newest = InList)'
  BY DEF ListsFit, Newest, InList
<1>5. (pageStage = "listed" => ListsTabs(listed))'
  BY DEF ListsFit, ListsTabs, PageUp
<1>6. \A i \in 1..Len(listAnswers) : (PageUp \/ ListsTabs(listAnswers[i]))'
  BY DEF ListsFit, ListsTabs, PageUp
<1> QED
  BY <1>2, <1>3, <1>4, <1>5, <1>6 DEF ListsFit

LEMMA LayoutsStay ==
  ASSUME LayoutsFit, UNCHANGED <<layouts, saved, meant>>, PageUp' = PageUp, TalksGoOn,
         \A t \in Talks : talk'[t].at = "deleted" /\ (talk[t].at = "deleted" => Deleting(t)) => Deleting(t)'
  PROVE  LayoutsFit'
<1>1. \A d \in Desks : TabsFit(d)'
  <2> TAKE d \in Desks
  <2>1. TabsFit(d)
    BY DEF LayoutsFit
  <2>2. ASSUME NEW t \in ToSet(saved[d].tabs) \cap Talks
        PROVE  Fits(t, d)'
    <3>1. Fits(t, d)
      BY <2>1, <2>2 DEF TabsFit
    <3> QED
      BY <3>1 DEF Fits, TalksGoOn
  <2>3. {id \in meant[d] : id = Files \/ talk'[id].at # "deleted"} \subseteq ToSet(saved[d].tabs)
    <3>1. \A id \in meant[d] : id = Files \/ id \in Talks
      BY <2>1 DEF TabsFit, TabIds
    <3> QED
      BY <2>1, <3>1 DEF TabsFit, TalksGoOn
  <2> QED
    BY <2>1, <2>2, <2>3 DEF TabsFit, LayoutOk
<1> QED
  BY <1>1 DEF LayoutsFit

LEMMA TalksStay ==
  ASSUME talk' = talk
  PROVE  TalksGoOn
BY DEF TalksGoOn

(* The layout of a workspace, or of none. *)
LEMMA LayoutAtIs ==
  ASSUME WorkbenchInv, NEW desk \in DeskOrNone
  PROVE  /\ LayoutOk(LayoutAt(desk))
         /\ MeantAt(desk) \subseteq TabIds
         /\ desk = NoDesk <=> desk \notin Desks
         /\ desk \in Desks => LayoutAt(desk) = layouts[desk] /\ MeantAt(desk) = meant[desk]
         /\ desk = NoDesk => PanesOf(desk) = {}
         /\ desk \in Desks => PanesOf(desk) = {layouts[desk].active, layouts[desk].secondary} \cap Talks
<1>1. LayoutOk(NoLayout)
  BY DEF LayoutOk, NoLayout, LayoutSet, TabOrNone, IsInjective, ToSet
<1>2. desk = NoDesk <=> desk \notin Desks
  BY WorkbenchAssumption DEF DeskOrNone
<1>3. desk \in Desks => TabsFit(desk)
  BY DEF WorkbenchInv, LayoutsFit
<1>4. desk \in Desks => PanesOf(desk) = {layouts[desk].active, layouts[desk].secondary} \cap Talks
  <2> HAVE desk \in Desks
  <2>1. PanesOf(desk) = {id \in {layouts[desk].active, layouts[desk].secondary} : Has(layouts[desk], id)} \cap Talks
    BY <1>2 DEF PanesOf, Panes
  <2>2. {layouts[desk].active, layouts[desk].secondary} \subseteq ToSet(layouts[desk].tabs) \cup {NoTab}
    BY <1>3 DEF TabsFit, LayoutOk
  <2>3. NoTab \notin Talks
    BY WorkbenchAssumption
  <2> QED
    BY <2>1, <2>2, <2>3, HasIs
<1> QED
  BY <1>1, <1>2, <1>3, <1>4 DEF LayoutAt, MeantAt, TabsFit, PanesOf

(* A layout is laid out and stored. *)
LEMMA LaysOut ==
  ASSUME WorkbenchInv, PageUp, UNCHANGED <<pageStage, talk>>, NEW desk \in DeskOrNone,
         NEW layout, LayoutOk(layout), SetLayout(desk, layout),
         NEW ids \in SUBSET TabIds, Means(desk, ids),
         desk \in Desks => \A t \in ToSet(layout.tabs) \cap Talks : Fits(t, desk)',
         desk \in Desks => {id \in ids : id = Files \/ talk[id].at # "deleted"} \subseteq ToSet(layout.tabs),
         \A t \in Talks : Deleting(t) /\ talk[t].home # desk => Deleting(t)'
  PROVE  /\ LayoutsFit'
         /\ desk \in Desks => layouts'[desk] = layout
         /\ \A d \in Desks : d # desk => layouts'[d] = layouts[d]
<1>1. LayoutsFit /\ (desk = NoDesk <=> desk \notin Desks) /\ layouts = saved
  BY LayoutAtIs DEF WorkbenchInv, LayoutsFit
<1>2. CASE desk = NoDesk
  <2>1. UNCHANGED <<layouts, saved, meant>>
    BY <1>2 DEF SetLayout, Means
  <2>2. \A t \in Talks : talk'[t].at = "deleted" /\ (talk[t].at = "deleted" => Deleting(t)) => Deleting(t)'
    <3> TAKE t \in Talks
    <3> HAVE talk'[t].at = "deleted" /\ (talk[t].at = "deleted" => Deleting(t))
    <3>1. talk[t].at = "deleted" /\ Deleting(t)
      OBVIOUS
    <3>2. talk[t].home \in Desks
      BY <3>1 DEF WorkbenchInv, WorkbenchTypes
    <3> QED
      BY <1>1, <1>2, <3>1, <3>2
  <2>3. PageUp' = PageUp
    BY DEF PageUp
  <2> QED
    BY <1>1, <1>2, <2>1, <2>2, <2>3, LayoutsStay, TalksStay
<1>3. CASE desk \in Desks
  <2>1. /\ layouts' = [layouts EXCEPT ![desk] = layout] /\ saved' = layouts'
        /\ meant' = [meant EXCEPT ![desk] = ids]
    BY <1>1, <1>3 DEF SetLayout, Means
  <2>2. DOMAIN layouts = Desks /\ DOMAIN saved = Desks /\ DOMAIN meant = Desks
    BY <1>1 DEF LayoutsFit
  <2>3. /\ layouts'[desk] = layout /\ saved'[desk] = layout /\ meant'[desk] = ids
        /\ \A d \in Desks : d # desk =>
             layouts'[d] = layouts[d] /\ saved'[d] = saved[d] /\ meant'[d] = meant[d]
    BY <1>1, <1>3, <2>1, <2>2
  <2>4. TabsFit(desk)'
    <3>1. layout \in LayoutSet /\ IsInjective(layout.tabs) /\ LayoutOk(layout)
      BY DEF LayoutOk
    <3>2. LayoutOk(layouts'[desk])
      BY <2>3, <3>1
    <3> QED
      BY <1>3, <2>3, <3>1, <3>2 DEF TabsFit, LayoutOk
  <2>5. ASSUME NEW d \in Desks, d # desk
        PROVE  TabsFit(d)'
    <3>1. TabsFit(d)
      BY <1>1 DEF LayoutsFit
    <3>2. ASSUME NEW t \in ToSet(saved[d].tabs) \cap Talks
          PROVE  Fits(t, d)'
      <4>1. Fits(t, d)
        BY <3>1, <3>2 DEF TabsFit
      <4>2. talk[t].at = "deleted" => Deleting(t)'
        BY <2>5, <4>1 DEF Fits
      <4> QED
        BY <4>1, <4>2 DEF Fits
    <3> QED
      BY <2>3, <2>5, <3>1, <3>2 DEF TabsFit, LayoutOk
  <2>6. \A d \in Desks : TabsFit(d)'
    BY <2>4, <2>5
  <2>7. /\ DOMAIN layouts' = Desks /\ DOMAIN saved' = Desks /\ DOMAIN meant' = Desks
        /\ layouts' = [d \in Desks |-> layouts'[d]] /\ saved' = [d \in Desks |-> saved'[d]]
        /\ meant' = [d \in Desks |-> meant'[d]]
    BY <2>1, <2>2
  <2> QED
    BY <2>1, <2>3, <2>6, <2>7 DEF LayoutsFit, PageUp
<1> QED
  BY <1>1, <1>2, <1>3

(* What is shown is loaded, wherever the panes of the user turn out to be. *)
LEMMA ShownStays ==
  ASSUME ShownIsLoaded, pageStage' = pageStage, TalksGoOn,
         \A t \in PanesOf(activeDesk)' :
           talk[t].at # "deleted" => t \in loaded' \cup viewsLoading' \/ (t \in PanesOf(activeDesk) /\ t \in Talks),
         \A t \in Talks : talk[t].at # "deleted" => (t \in loaded \cup viewsLoading => t \in loaded' \cup viewsLoading'),
         PanesOf(activeDesk)' \subseteq Talks
  PROVE  ShownIsLoaded'
<1> SUFFICES ASSUME PageUp', NEW t \in PanesOf(activeDesk)', talk'[t].at # "deleted"
             PROVE  t \in loaded' \cup viewsLoading'
  BY DEF ShownIsLoaded
<1>1. t \in Talks /\ talk[t].at # "deleted" /\ PageUp
  BY DEF TalksGoOn, PageUp
<1>2. t \in PanesOf(activeDesk) => t \in loaded \cup viewsLoading
  BY <1>1 DEF ShownIsLoaded
<1> QED
  BY <1>1, <1>2

LEMMA PanesAreTalks ==
  ASSUME NEW desk
  PROVE  PanesOf(desk) \subseteq Talks /\ PanesOf(desk)' \subseteq Talks
BY DEF PanesOf, Panes

(* The panes after a layout is laid out. *)
LEMMA PanesLaidOut ==
  ASSUME WorkbenchInv, NEW desk \in DeskOrNone, NEW layout, LayoutOk(layout),
         desk \in Desks => layouts'[desk] = layout
  PROVE  \A d : d = desk => PanesOf(d)' \subseteq ({layout.active, layout.secondary} \cap Talks)
<1> SUFFICES PanesOf(desk)' \subseteq ({layout.active, layout.secondary} \cap Talks)
  OBVIOUS
<1>1. desk = NoDesk <=> desk \notin Desks
  BY LayoutAtIs
<1> QED
  BY <1>1 DEF PanesOf, Panes

LEMMA PanesUntouched ==
  ASSUME layouts' = layouts
  PROVE  \A d : PanesOf(d)' = PanesOf(d)
BY DEF PanesOf, Panes

(* A tab is opened in the workspace of its session, or one that is no session in any. *)
LEMMA OpensKeeps ==
  ASSUME WorkbenchInv, PageUp, UNCHANGED <<pageStage, talk>>, NEW desk \in DeskOrNone, NEW id \in TabIds,
         Opens(desk, id),
         id \in Talks => talk[id].at \notin {"none", "deleted"} /\ talk[id].home = desk,
         \A t \in Talks : Deleting(t) => Deleting(t)'
  PROVE  /\ LayoutsFit'
         /\ \A d : d = desk => PanesOf(d)' \subseteq ({id, LayoutAt(desk).secondary} \cap Talks)
         /\ \A d \in Desks : d # desk => layouts'[d] = layouts[d]
<1> DEFINE old == LayoutAt(desk)
           new == OpenTab(old, id)
           ids == MeantAt(desk) \cup {id}
<1>1. /\ LayoutOk(old) /\ MeantAt(desk) \subseteq TabIds
      /\ desk \in Desks => old = layouts[desk] /\ MeantAt(desk) = meant[desk]
  BY LayoutAtIs
<1>2. /\ LayoutOk(new) /\ ToSet(new.tabs) = ToSet(old.tabs) \cup {id}
      /\ new.active = id /\ new.secondary = old.secondary
  BY <1>1, OpenTabIs
<1>3. SetLayout(desk, new) /\ Means(desk, ids) /\ ids \in SUBSET TabIds
  BY <1>1 DEF Opens
<1>4. desk \in Desks => TabsFit(desk) /\ saved[desk] = old
  BY <1>1 DEF WorkbenchInv, LayoutsFit
<1> HIDE DEF old, new, ids
<1>5. desk \in Desks => \A t \in ToSet(new.tabs) \cap Talks : Fits(t, desk)'
  <2> HAVE desk \in Desks
  <2> TAKE t \in ToSet(new.tabs) \cap Talks
  <2>1. CASE t = id
    BY <2>1 DEF Fits
  <2>2. CASE t \in ToSet(old.tabs)
    <3>1. Fits(t, desk)
      BY <1>4, <2>2 DEF TabsFit
    <3> QED
      BY <3>1 DEF Fits
  <2> QED
    BY <1>2, <2>1, <2>2
<1>6. desk \in Desks => {i \in ids : i = Files \/ talk[i].at # "deleted"} \subseteq ToSet(new.tabs)
  BY <1>1, <1>2, <1>4 DEF TabsFit, ids
<1>7. /\ LayoutsFit' /\ (desk \in Desks => layouts'[desk] = new)
      /\ \A d \in Desks : d # desk => layouts'[d] = layouts[d]
  BY <1>2, <1>3, <1>5, <1>6, LaysOut
<1>8. \A d : d = desk => PanesOf(d)' \subseteq ({new.active, new.secondary} \cap Talks)
  BY <1>2, <1>7, PanesLaidOut
<1> QED
  BY <1>2, <1>7, <1>8 DEF old

(* A tab is closed; the session whose deletion is over has one only there. *)
LEMMA ClosesKeeps ==
  ASSUME WorkbenchInv, PageUp, UNCHANGED <<pageStage, talk>>, NEW desk \in DeskOrNone, NEW id \in TabIds,
         Closes(desk, id),
         \A t \in Talks : Deleting(t) => Deleting(t)' \/ (t = id /\ talk[t].home = desk)
  PROVE  /\ LayoutsFit'
         /\ \A d : d = desk => PanesOf(d)' \subseteq Panes(CloseTab(LayoutAt(desk), id))
<1> DEFINE old == LayoutAt(desk)
           new == CloseTab(old, id)
           ids == MeantAt(desk) \ {id}
<1>1. /\ LayoutOk(old) /\ MeantAt(desk) \subseteq TabIds
      /\ desk \in Desks => old = layouts[desk] /\ MeantAt(desk) = meant[desk]
      /\ desk = NoDesk <=> desk \notin Desks
  BY LayoutAtIs
<1>2. LayoutOk(new) /\ ToSet(new.tabs) = ToSet(old.tabs) \ {id}
  BY <1>1, CloseTabIs
<1>3. SetLayout(desk, new) /\ Means(desk, ids) /\ ids \in SUBSET TabIds
  BY <1>1 DEF Closes
<1>4. desk \in Desks => TabsFit(desk) /\ saved[desk] = old
  BY <1>1 DEF WorkbenchInv, LayoutsFit
<1> HIDE DEF old, new, ids
<1>5. desk \in Desks => \A t \in ToSet(new.tabs) \cap Talks : Fits(t, desk)'
  <2> HAVE desk \in Desks
  <2> TAKE t \in ToSet(new.tabs) \cap Talks
  <2>1. t \in ToSet(old.tabs) /\ t # id
    BY <1>2
  <2>2. Fits(t, desk)
    BY <1>4, <2>1 DEF TabsFit
  <2> QED
    BY <2>1, <2>2 DEF Fits
<1>6. desk \in Desks => {i \in ids : i = Files \/ talk[i].at # "deleted"} \subseteq ToSet(new.tabs)
  BY <1>1, <1>2, <1>4 DEF TabsFit, ids
<1>7. \A t \in Talks : Deleting(t) /\ talk[t].home # desk => Deleting(t)'
  OBVIOUS
<1>8. LayoutsFit' /\ (desk \in Desks => layouts'[desk] = new)
  BY <1>2, <1>3, <1>5, <1>6, <1>7, LaysOut
<1>9. \A d : d = desk => PanesOf(d)' \subseteq Panes(new)
  BY <1>1, <1>8 DEF PanesOf, Panes
<1> QED
  BY <1>8, <1>9 DEF new, old

(* The layout of a workspace is changed, and its tabs are not. *)
LEMMA RearrangesKeeps ==
  ASSUME WorkbenchInv, PageUp, UNCHANGED <<pageStage, talk, work, meant>>, NEW desk \in DeskOrNone,
         NEW layout, LayoutOk(layout), layout.tabs = LayoutAt(desk).tabs, SetLayout(desk, layout)
  PROVE  /\ LayoutsFit'
         /\ \A d : d = desk => PanesOf(d)' \subseteq ({layout.active, layout.secondary} \cap Talks)
<1>1. /\ MeantAt(desk) \subseteq TabIds /\ (desk = NoDesk <=> desk \notin Desks)
      /\ desk \in Desks => LayoutAt(desk) = layouts[desk] /\ MeantAt(desk) = meant[desk]
  BY LayoutAtIs
<1>2. meant = [d \in Desks |-> meant[d]] /\ layouts = saved /\ \A d \in Desks : TabsFit(d)
  BY DEF WorkbenchInv, LayoutsFit
<1>3. Means(desk, MeantAt(desk))
  BY <1>1, <1>2 DEF Means, MeantAt
<1>4. desk \in Desks => \A t \in ToSet(layout.tabs) \cap Talks : Fits(t, desk)'
  <2> HAVE desk \in Desks
  <2> TAKE t \in ToSet(layout.tabs) \cap Talks
  <2>1. Fits(t, desk)
    BY <1>1, <1>2 DEF TabsFit
  <2> QED
    BY <2>1 DEF Fits, Deleting
<1>5. desk \in Desks => {i \in MeantAt(desk) : i = Files \/ talk[i].at # "deleted"} \subseteq ToSet(layout.tabs)
  BY <1>1, <1>2 DEF TabsFit
<1>6. \A t \in Talks : Deleting(t) /\ talk[t].home # desk => Deleting(t)'
  BY DEF Deleting
<1>7. LayoutsFit' /\ (desk \in Desks => layouts'[desk] = layout)
  BY <1>1, <1>3, <1>4, <1>5, <1>6, LaysOut
<1> QED
  BY <1>7, PanesLaidOut

(* What follows from the race conditions, for a user who moves. *)
LEMMA UserMoves ==
  ASSUME WorkbenchInv, PageUp \/ saved' = saved, UNCHANGED <<talk, pageStage, listed, listAnswers, paletteVars>>,
         desks' \subseteq Desks, listAsked' = listAsked \/ listAsked' = TRUE,
         activeDesk' \in DeskOrNone, activeDesk' = activeDesk \/ ~palette.open,
         work' = NoWork \/ (work' = work /\ (activeDesk' = activeDesk \/ work = NoWork)),
         LayoutsFit', ShownIsLoaded'
  PROVE  WorkbenchInv'
<1>1. WorkbenchTypes'
  BY DEF WorkbenchInv, WorkbenchTypes
<1>2. WorkFits'
  BY NothingUnderWay, WorkStays DEF WorkbenchInv
<1>3. ListsFit'
  BY TalksStay, ListsStay DEF WorkbenchInv
<1>4. PaletteFits'
  BY PaletteStays DEF WorkbenchInv
<1> QED
  BY <1>1, <1>2, <1>3, <1>4 DEF WorkbenchInv

LEMMA PanesAre ==
  ASSUME WorkbenchInv, NEW desk \in DeskOrNone
  PROVE  {LayoutAt(desk).active, LayoutAt(desk).secondary} \cap Talks = PanesOf(desk)
<1>1. CASE desk = NoDesk
  BY <1>1, LayoutAtIs, WorkbenchAssumption DEF LayoutAt, NoLayout
<1>2. CASE desk # NoDesk
  BY <1>2, LayoutAtIs
<1> QED
  BY <1>1, <1>2

LEMMA NobodyDeletes ==
  ASSUME work = NoWork
  PROVE  \A t : ~Deleting(t)
BY DEF Deleting, NoWork

LEMMA ActiveIs ==
  ASSUME WorkbenchInv
  PROVE  activeDesk \in DeskOrNone /\ ShownIsLoaded /\ LayoutsFit /\ ListsFit /\ desks \subseteq Desks
BY DEF WorkbenchInv, WorkbenchTypes

LEMMA OpenFilesKeeps ==
  ASSUME WorkbenchInv, OpenFiles
  PROVE  WorkbenchInv'
<1>1. /\ PageUp /\ Opens(activeDesk, Files)
      /\ UNCHANGED <<talk, desks, listed, listAsked, listAnswers, activeDesk, pageStage, loaded, viewsLoading,
                     work, paletteVars>>
  BY DEF OpenFiles, daemonSide, listingVars, viewVars
<1>2. activeDesk \in DeskOrNone /\ ShownIsLoaded /\ desks \subseteq Desks
  BY ActiveIs
<1>3. Files \in TabIds /\ Files \notin Talks
  BY WorkbenchAssumption DEF TabIds
<1>4. \A t \in Talks : Deleting(t) => Deleting(t)'
  BY <1>1 DEF Deleting
<1>5. /\ LayoutsFit'
      /\ \A d : d = activeDesk => PanesOf(d)' \subseteq ({Files, LayoutAt(activeDesk).secondary} \cap Talks)
  BY <1>1, <1>2, <1>3, <1>4, OpensKeeps
<1>6. PanesOf(activeDesk)' \subseteq PanesOf(activeDesk)
  <2>1. PanesOf(activeDesk)' \subseteq ({Files, LayoutAt(activeDesk).secondary} \cap Talks)
    BY <1>1, <1>5 DEF PanesOf
  <2> QED
    BY <1>2, <1>3, <2>1, PanesAre
<1>7. ShownIsLoaded'
  BY <1>1, <1>2, <1>6, PanesAreTalks, TalksStay, ShownStays
<1> QED
  BY <1>1, <1>2, <1>5, <1>7, UserMoves

(* The user goes to another workspace, or has to. *)
LEMMA GoesElsewhere ==
  ASSUME WorkbenchInv, work = NoWork, ~palette.open, activeDesk' \in DeskOrNone, desks' \subseteq Desks,
         PanesOf(activeDesk') \subseteq loaded \cup viewsLoading,
         UNCHANGED <<talk, listingVars, pageStage, layoutVars, viewVars, work, paletteVars>>
  PROVE  WorkbenchInv'
<1>1. UNCHANGED <<talk, listed, listAsked, listAnswers, pageStage, layouts, saved, meant, loaded, viewsLoading,
                  work, paletteVars>>
  BY DEF listingVars, layoutVars, viewVars
<1>2. ShownIsLoaded /\ LayoutsFit
  BY ActiveIs
<1>3. LayoutsFit'
  <2>1. \A t \in Talks : talk'[t].at = "deleted" /\ (talk[t].at = "deleted" => Deleting(t)) => Deleting(t)'
    BY <1>1, NobodyDeletes
  <2> QED
    BY <1>1, <1>2, <2>1, LayoutsStay, TalksStay DEF PageUp
<1>4. PanesOf(activeDesk)' = PanesOf(activeDesk')
  BY <1>1 DEF PanesOf, Panes
<1>5. ShownIsLoaded'
  BY <1>1, <1>2, <1>4, PanesAreTalks, TalksStay, ShownStays
<1> QED
  BY <1>1, <1>3, <1>5, UserMoves

LEMMA SelectWorkspaceKeeps ==
  ASSUME WorkbenchInv, Barred(WorkbenchRaces), NEW d \in Desks, SelectWorkspace(d)
  PROVE  WorkbenchInv'
<1>1. /\ PageUp /\ work = NoWork /\ ~palette.open /\ activeDesk' = d
      /\ PanesOf(activeDesk') \subseteq loaded \cup viewsLoading
      /\ UNCHANGED <<talk, desks, listingVars, pageStage, layoutVars, viewVars, work, paletteVars>>
  BY WorkbenchRacesBarred DEF SelectWorkspace, MayMove, MaySlip, ViewsReady, daemonSide
<1>2. desks' \subseteq Desks /\ activeDesk' \in DeskOrNone
  BY <1>1, ActiveIs DEF DeskOrNone
<1> QED
  BY <1>1, <1>2, GoesElsewhere

LEMMA SetActiveTabKeeps ==
  ASSUME WorkbenchInv, NEW id \in TabIds, SetActiveTab(id)
  PROVE  WorkbenchInv'
<1> DEFINE old == LayoutAt(activeDesk)
           new == [old EXCEPT !.active = id]
<1>1. /\ PageUp /\ activeDesk # NoDesk /\ Has(layouts[activeDesk], id)
      /\ SetLayout(activeDesk, [layouts[activeDesk] EXCEPT !.active = id])
      /\ viewsLoading' = viewsLoading \cup ({id} \cap Talks)
      /\ UNCHANGED <<talk, desks, listed, listAsked, listAnswers, activeDesk, pageStage, loaded, work, paletteVars, meant>>
  BY DEF SetActiveTab, Loads, daemonSide, listingVars
<1>2. activeDesk \in DeskOrNone /\ ShownIsLoaded /\ desks \subseteq Desks
  BY ActiveIs
<1>3. LayoutOk(old) /\ old = layouts[activeDesk]
  BY <1>1, <1>2, LayoutAtIs
<1>4. SetLayout(activeDesk, new) /\ id \in ToSet(old.tabs)
  BY <1>1, <1>3, HasIs
<1> HIDE DEF old
<1>5. old \in LayoutSet /\ {old.active, old.secondary} \subseteq ToSet(old.tabs) \cup {NoTab} /\ IsInjective(old.tabs)
  BY <1>3 DEF LayoutOk
<1>6. new \in LayoutSet /\ new.tabs = old.tabs /\ new.active = id /\ new.secondary = old.secondary
  BY <1>5 DEF LayoutSet, TabOrNone
<1> HIDE DEF new
<1>7. LayoutOk(new) /\ new.tabs = LayoutAt(activeDesk).tabs
  BY <1>4, <1>5, <1>6 DEF LayoutOk, old
<1>8. /\ LayoutsFit'
      /\ \A d : d = activeDesk => PanesOf(d)' \subseteq ({new.active, new.secondary} \cap Talks)
  BY <1>1, <1>2, <1>4, <1>7, RearrangesKeeps
<1>9. PanesOf(activeDesk)' \subseteq ({id} \cap Talks) \cup PanesOf(activeDesk)
  <2>1. PanesOf(activeDesk)' \subseteq ({id, old.secondary} \cap Talks)
    BY <1>1, <1>6, <1>8 DEF PanesOf
  <2> QED
    BY <1>2, <2>1, PanesAre DEF old
<1>10. ShownIsLoaded'
  BY <1>1, <1>2, <1>9, PanesAreTalks, TalksStay, ShownStays
<1> QED
  BY <1>1, <1>2, <1>8, <1>10, UserMoves

LEMMA UserClosesTabKeeps ==
  ASSUME WorkbenchInv, Barred(WorkbenchRaces), NEW id \in TabIds, UserClosesTab(id)
  PROVE  WorkbenchInv'
<1>1. /\ PageUp /\ activeDesk # NoDesk /\ Closes(activeDesk, id)
      /\ Panes(CloseTab(layouts[activeDesk], id)) \subseteq loaded \cup viewsLoading
      /\ UNCHANGED <<talk, desks, listed, listAsked, listAnswers, activeDesk, pageStage, loaded, viewsLoading,
                     work, paletteVars>>
  BY WorkbenchRacesBarred DEF UserClosesTab, ViewsReady, daemonSide, listingVars, viewVars
<1>2. activeDesk \in DeskOrNone /\ ShownIsLoaded /\ desks \subseteq Desks
  BY ActiveIs
<1>3. LayoutAt(activeDesk) = layouts[activeDesk]
  BY <1>1 DEF LayoutAt
<1>4. \A t \in Talks : Deleting(t) => Deleting(t)' \/ (t = id /\ talk[t].home = activeDesk)
  BY <1>1 DEF Deleting
<1>5. /\ LayoutsFit'
      /\ \A d : d = activeDesk => PanesOf(d)' \subseteq Panes(CloseTab(LayoutAt(activeDesk), id))
  BY <1>1, <1>2, <1>4, ClosesKeeps
<1>6. PanesOf(activeDesk)' \subseteq loaded \cup viewsLoading
  <2>1. PanesOf(activeDesk)' \subseteq Panes(CloseTab(LayoutAt(activeDesk), id))
    BY <1>1, <1>5 DEF PanesOf
  <2> QED
    BY <1>1, <1>3, <2>1
<1>7. ShownIsLoaded'
  BY <1>1, <1>2, <1>6, PanesAreTalks, TalksStay, ShownStays
<1> QED
  BY <1>1, <1>2, <1>5, <1>7, UserMoves

LEMMA SplitKeeps ==
  ASSUME WorkbenchInv, NEW on \in BOOLEAN, Split(on)
  PROVE  WorkbenchInv'
<1> DEFINE old == LayoutAt(activeDesk)
           new == SetSplit(old, on)
<1>1. /\ PageUp /\ SetLayout(activeDesk, new)
      /\ viewsLoading' = viewsLoading \cup ({new.secondary} \cap Talks)
      /\ UNCHANGED <<talk, desks, listed, listAsked, listAnswers, activeDesk, pageStage, loaded, work, paletteVars, meant>>
  BY DEF Split, Loads, daemonSide, listingVars
<1>2. activeDesk \in DeskOrNone /\ ShownIsLoaded /\ desks \subseteq Desks
  BY ActiveIs
<1>3. LayoutOk(new) /\ new.tabs = old.tabs /\ new.active = old.active
  BY <1>2, LayoutAtIs, SetSplitIs
<1> HIDE DEF new
<1>4. /\ LayoutsFit'
      /\ \A d : d = activeDesk => PanesOf(d)' \subseteq ({new.active, new.secondary} \cap Talks)
  BY <1>1, <1>2, <1>3, RearrangesKeeps
<1>5. PanesOf(activeDesk)' \subseteq ({new.secondary} \cap Talks) \cup PanesOf(activeDesk)
  <2>1. PanesOf(activeDesk)' \subseteq ({old.active, new.secondary} \cap Talks)
    BY <1>1, <1>3, <1>4 DEF PanesOf
  <2> QED
    BY <1>2, <2>1, PanesAre
<1> HIDE DEF old
<1>6. ShownIsLoaded'
  BY <1>1, <1>2, <1>5, PanesAreTalks, TalksStay, ShownStays
<1> QED
  BY <1>1, <1>2, <1>4, <1>6, UserMoves

LEMMA ShowNewSessionKeeps ==
  ASSUME WorkbenchInv, Barred(WorkbenchRaces), ShowNewSession
  PROVE  WorkbenchInv'
<1> DEFINE old == LayoutAt(activeDesk)
           new == [old EXCEPT !.active = NoTab]
<1>1. /\ PageUp /\ SetLayout(activeDesk, new)
      /\ UNCHANGED <<talk, desks, listed, listAsked, listAnswers, activeDesk, pageStage, loaded, viewsLoading,
                     work, paletteVars, meant>>
  BY WorkbenchRacesBarred DEF ShowNewSession, daemonSide, listingVars, viewVars
<1>2. activeDesk \in DeskOrNone /\ ShownIsLoaded /\ desks \subseteq Desks
  BY ActiveIs
<1>3. LayoutOk(old)
  BY <1>2, LayoutAtIs
<1> HIDE DEF old
<1>4. old \in LayoutSet /\ {old.active, old.secondary} \subseteq ToSet(old.tabs) \cup {NoTab} /\ IsInjective(old.tabs)
  BY <1>3 DEF LayoutOk
<1>5. new \in LayoutSet /\ new.tabs = old.tabs /\ new.active = NoTab /\ new.secondary = old.secondary
  BY <1>4 DEF LayoutSet, TabOrNone
<1> HIDE DEF new
<1>6. LayoutOk(new) /\ new.tabs = LayoutAt(activeDesk).tabs
  BY <1>4, <1>5 DEF LayoutOk, old
<1>7. /\ LayoutsFit'
      /\ \A d : d = activeDesk => PanesOf(d)' \subseteq ({new.active, new.secondary} \cap Talks)
  BY <1>1, <1>2, <1>6, RearrangesKeeps
<1>8. PanesOf(activeDesk)' \subseteq PanesOf(activeDesk)
  <2>1. PanesOf(activeDesk)' \subseteq ({NoTab, old.secondary} \cap Talks)
    BY <1>1, <1>5, <1>7 DEF PanesOf
  <2> QED
    BY <1>2, <2>1, PanesAre, WorkbenchAssumption DEF old
<1>9. ShownIsLoaded'
  BY <1>1, <1>2, <1>8, PanesAreTalks, TalksStay, ShownStays
<1> QED
  BY <1>1, <1>2, <1>7, <1>9, UserMoves

LEMMA ArchiveWorkspaceKeeps ==
  ASSUME WorkbenchInv, Barred(WorkbenchRaces), NEW d \in Desks, ArchiveWorkspace(d)
  PROVE  WorkbenchInv'
<1>1. /\ work = NoWork /\ ~palette.open /\ desks' = desks \ {d}
      /\ activeDesk' = IF activeDesk # d THEN activeDesk
                       ELSE IF desks' = {} THEN NoDesk ELSE CHOOSE other \in desks' : TRUE
      /\ PanesOf(activeDesk') \subseteq loaded \cup viewsLoading
      /\ UNCHANGED <<talk, listingVars, pageStage, layoutVars, viewVars, work, paletteVars>>
  BY WorkbenchRacesBarred DEF ArchiveWorkspace, MayMove, MaySlip, ViewsReady
<1>2. desks' \subseteq Desks /\ activeDesk \in DeskOrNone
  BY <1>1, ActiveIs
<1>3. desks' # {} => (CHOOSE other \in desks' : TRUE) \in desks'
  OBVIOUS
<1>4. activeDesk' \in DeskOrNone
  BY <1>1, <1>2, <1>3 DEF DeskOrNone
<1> QED
  BY <1>1, <1>2, <1>4, GoesElsewhere

(* A session is opened in its workspace, which comes into view. *)
LEMMA OpensAtHomeKeeps ==
  ASSUME WorkbenchInv, Barred(WorkbenchRaces), PageUp, UNCHANGED <<pageStage, talk>>,
         NEW t \in Talks, NEW home \in Desks, talk[t].at \notin {"none", "deleted"}, talk[t].home = home,
         OthersReady(t, home), OpensAtHome(t, home), \A u \in Talks : Deleting(u) => Deleting(u)'
  PROVE  LayoutsFit' /\ ShownIsLoaded' /\ activeDesk' = home /\ activeDesk' \in DeskOrNone
<1>1. /\ activeDesk' = home /\ Opens(home, t) /\ viewsLoading' = viewsLoading \cup {t} /\ loaded' = loaded
      /\ home # activeDesk => {LayoutAt(home).secondary} \cap Talks \subseteq loaded \cup viewsLoading
  BY WorkbenchRacesBarred DEF OpensAtHome, Loads, OthersReady, ViewsReady
<1>2. activeDesk \in DeskOrNone /\ ShownIsLoaded /\ home \in DeskOrNone /\ t \in TabIds
  BY ActiveIs DEF DeskOrNone, TabIds
<1>3. /\ LayoutsFit'
      /\ \A d : d = home => PanesOf(d)' \subseteq ({t, LayoutAt(home).secondary} \cap Talks)
  BY <1>1, <1>2, OpensKeeps
<1>4. PanesOf(activeDesk)' \subseteq ({t, LayoutAt(home).secondary} \cap Talks)
  BY <1>1, <1>3 DEF PanesOf
<1>5. home = activeDesk => {LayoutAt(home).secondary} \cap Talks \subseteq PanesOf(activeDesk)
  BY <1>2, PanesAre
<1>6. ShownIsLoaded'
  BY <1>1, <1>2, <1>4, <1>5, PanesAreTalks, TalksStay, ShownStays
<1> QED
  BY <1>1, <1>2, <1>3, <1>6

(* What the daemon and the controller do for a request, and other clients, moves no tab. *)
LEMMA WorkMoves ==
  ASSUME WorkbenchInv, TalksGoOn,
         UNCHANGED <<listed, listAnswers, activeDesk, pageStage, layoutVars, viewVars, paletteVars>>,
         listAsked' = TRUE \/ (talk' = talk /\ listAsked' = listAsked), WorkbenchTypes', WorkFits',
         \A t \in Talks : talk'[t].at = "deleted" /\ (talk[t].at = "deleted" => Deleting(t)) => Deleting(t)'
  PROVE  WorkbenchInv'
<1>1. UNCHANGED <<layouts, saved, meant, loaded, viewsLoading>>
  BY DEF layoutVars, viewVars
<1>2. LayoutsFit'
  BY <1>1, LayoutsStay DEF WorkbenchInv, PageUp
<1>3. ListsFit'
  BY <1>1, ListsStay DEF WorkbenchInv
<1>4. PaletteFits'
  BY PaletteStays DEF WorkbenchInv
<1>5. PanesOf(activeDesk)' = PanesOf(activeDesk)
  BY <1>1 DEF PanesOf, Panes
<1>6. ShownIsLoaded'
  BY <1>1, <1>5, PanesAreTalks, ShownStays DEF WorkbenchInv
<1> QED
  BY <1>2, <1>3, <1>4, <1>6 DEF WorkbenchInv

WorkRequests == [op : {"create", "resume", "close", "delete"}, talk : Talks, home : Desks, at : {"sent", "answered"}]

LEMMA Sends ==
  ASSUME WorkbenchInv, PageUp, work = NoWork, NEW op \in {"create", "resume", "close", "delete"}, NEW t \in Talks,
         NEW home \in Desks, work' = [op |-> op, talk |-> t, home |-> home, at |-> "sent"],
         op = "create" => talk[t].at = "none" /\ home = activeDesk,
         op # "create" => talk[t].at # "none" /\ home = talk[t].home,
         op = "delete" => home = activeDesk,
         UNCHANGED <<talk, desks, listed, listAsked, listAnswers, activeDesk, pageStage, layoutVars, viewVars, paletteVars>>
  PROVE  WorkbenchInv'
<1>1. /\ work'.op = op /\ work'.talk = t /\ work'.home = home /\ work'.at = "sent"
      /\ work' \in WorkRequests
  BY DEF WorkRequests
<1>2. WorkbenchTypes'
  BY <1>1 DEF WorkbenchInv, WorkbenchTypes, WorkRequests
<1>3. WorkFits'
  BY <1>1 DEF WorkFits, PageUp
<1>4. \A u \in Talks : talk'[u].at = "deleted" /\ (talk[u].at = "deleted" => Deleting(u)) => Deleting(u)'
  BY NobodyDeletes
<1> QED
  BY <1>2, <1>3, <1>4, TalksStay, WorkMoves

(* What is listed there is or was, at its workspace. *)
LEMMA ListedIs ==
  ASSUME WorkbenchInv, NEW t \in Talks, listed[t].at # "none"
  PROVE  /\ talk[t].at # "none" /\ listed[t].home = talk[t].home /\ talk[t].home \in Desks
         /\ listed[t].at \in {"open", "closed"}
BY DEF WorkbenchInv, WorkbenchTypes, ListsFit, ListFits, Listings, TalkStates

LEMMA SendKeeps ==
  ASSUME WorkbenchInv, Barred(WorkbenchRaces), NEW op \in {"create", "close", "delete"}, NEW t \in Talks, Send(op, t)
  PROVE  WorkbenchInv'
<1>1. /\ PageUp /\ work = NoWork
      /\ \/ op = "create" /\ talk[t].at = "none" /\ activeDesk # NoDesk
         \/ op = "close" /\ listed[t].at = "open"
         \/ op = "delete" /\ listed[t].at # "none" /\ listed[t].home = activeDesk
      /\ work' = [op |-> op, talk |-> t, home |-> IF op = "create" THEN activeDesk ELSE listed[t].home, at |-> "sent"]
      /\ UNCHANGED <<talk, desks, listed, listAsked, listAnswers, activeDesk, pageStage, layoutVars, viewVars, paletteVars>>
  BY WorkbenchRacesBarred DEF Send, daemonSide, listingVars
<1>2. CASE op = "create"
  <2>1. activeDesk \in Desks
    BY <1>1, <1>2, ActiveIs DEF DeskOrNone
  <2> QED
    BY <1>1, <1>2, <2>1, Sends
<1>3. CASE op # "create"
  <2>1. listed[t].at # "none"
    BY <1>1, <1>3
  <2>2. talk[t].at # "none" /\ listed[t].home = talk[t].home /\ talk[t].home \in Desks
    BY <2>1, ListedIs
  <2> QED
    BY <1>1, <1>3, <2>2, Sends
<1> QED
  BY <1>2, <1>3

LEMMA OpenSessionKeeps ==
  ASSUME WorkbenchInv, Barred(WorkbenchRaces), NEW t \in Talks, OpenSession(t)
  PROVE  WorkbenchInv'
<1> DEFINE home == listed[t].home
<1>1. PageUp /\ listed[t].at # "none" /\ talk[t].at # "deleted"
      /\ UNCHANGED <<talk, desks, listed, listAsked, listAnswers, pageStage, paletteVars>>
  BY WorkbenchRacesBarred DEF OpenSession, daemonSide, listingVars
<1>2. talk[t].at # "none" /\ home = talk[t].home /\ home \in Desks
  BY <1>1, ListedIs
<1>3. CASE listed[t].at = "closed"
  <2>1. /\ work = NoWork /\ work' = [op |-> "resume", talk |-> t, home |-> home, at |-> "sent"]
        /\ UNCHANGED <<activeDesk, layoutVars, viewVars>>
    BY <1>1, <1>3 DEF OpenSession
  <2> QED
    BY <1>1, <1>2, <2>1, Sends
<1>4. CASE listed[t].at # "closed"
  <2>1. /\ home # activeDesk => work = NoWork /\ ~palette.open
        /\ OthersReady(t, home) /\ OpensAtHome(t, home) /\ work' = work
    BY <1>1, <1>4, WorkbenchRacesBarred DEF OpenSession, MayMove, MaySlip
  <2> HIDE DEF home
  <2>2. \A u \in Talks : Deleting(u) => Deleting(u)'
    BY <2>1 DEF Deleting
  <2>3. LayoutsFit' /\ ShownIsLoaded' /\ activeDesk' = home /\ activeDesk' \in DeskOrNone
    BY <1>1, <1>2, <2>1, <2>2, OpensAtHomeKeeps
  <2>4. desks' \subseteq Desks
    BY <1>1, ActiveIs
  <2> QED
    BY <1>1, <2>1, <2>3, <2>4, UserMoves
<1> QED
  BY <1>3, <1>4

(* The parts of a request under way. *)
LEMMA WorkIs ==
  ASSUME WorkbenchInv, work # NoWork
  PROVE  /\ work \in WorkRequests /\ PageUp /\ WorkFits
         /\ work.talk \in Talks /\ work.home \in Desks /\ work.at \in {"sent", "answered"}
         /\ work.op \in {"create", "resume", "close", "delete"}
BY DEF WorkbenchInv, WorkbenchTypes, WorkFits, WorkRequests

LEMMA TalkBecomesIs ==
  ASSUME WorkbenchTypes, NEW t \in Talks, NEW at, TalkBecomes(t, at)
  PROVE  talk' = [talk EXCEPT ![t] = [at |-> at, home |-> talk[t].home]]
<1>1. PICK r \in [at : TalkStates \cup {"deleted"}, home : DeskOrNone] : r = talk[t]
  BY DEF WorkbenchTypes
<1>2. [r EXCEPT !.at = at] = [at |-> at, home |-> r.home]
  BY SMT
<1>3. talk' = [talk EXCEPT ![t] = [talk[t] EXCEPT !.at = at]]
  BY DEF TalkBecomes
<1> QED
  BY <1>1, <1>2, <1>3

LEMMA ServeWorkKeeps ==
  ASSUME WorkbenchInv, ServeWork
  PROVE  WorkbenchInv'
<1> DEFINE t == work.talk
<1>1. /\ work.at = "sent" /\ listAsked' = (listAsked \/ work'.at = "answered")
      /\ UNCHANGED <<listed, listAnswers, desks, activeDesk, pageStage, layoutVars, viewVars, paletteVars>>
  BY DEF ServeWork
<1>2. work # NoWork
  BY <1>1 DEF NoWork
<1>3. /\ work \in WorkRequests /\ PageUp /\ WorkFits /\ t \in Talks /\ work.home \in Desks
      /\ work.op \in {"create", "resume", "close", "delete"}
  BY <1>2, WorkIs
<1>4. /\ talk \in [Talks -> [at : TalkStates \cup {"deleted"}, home : DeskOrNone]]
      /\ \A u \in Talks : talk[u].at # "none" => talk[u].home \in Desks
      /\ listAsked \in BOOLEAN /\ WorkbenchTypes
  BY DEF WorkbenchInv, WorkbenchTypes
<1>5. \A u : ~Deleting(u)
  BY <1>1 DEF Deleting
<1>6. CASE work' = NoWork /\ UNCHANGED talk
  <2>1. listAsked' = listAsked
    BY <1>1, <1>4, <1>6 DEF NoWork
  <2>2. WorkbenchTypes' /\ WorkFits'
    BY <1>1, <1>6, <2>1, NothingUnderWay DEF WorkbenchInv, WorkbenchTypes
  <2> QED
    BY <1>1, <1>5, <1>6, <2>1, <2>2, TalksStay, WorkMoves
<1>7. ASSUME work' = [work EXCEPT !.at = "answered"], NEW at \in {"open", "closed", "deleted"}, NEW home \in Desks,
             talk' = [talk EXCEPT ![t] = [at |-> at, home |-> home]],
             at = "deleted" <=> work.op = "delete",
             talk[t].at # "deleted", talk[t].at # "none" => home = talk[t].home, home = work.home
      PROVE  WorkbenchInv'
  <2>1. /\ work' \in WorkRequests /\ work'.op = work.op /\ work'.talk = work.talk /\ work'.home = work.home
        /\ work'.at = "answered" /\ listAsked' = TRUE
    BY <1>1, <1>3, <1>7 DEF WorkRequests
  <2>2. talk'[t].at = at /\ talk'[t].home = home /\ \A u \in Talks : u # t => talk'[u] = talk[u]
    BY <1>3, <1>4, <1>7
  <2>3. talk' \in [Talks -> [at : TalkStates \cup {"deleted"}, home : DeskOrNone]]
    BY <1>3, <1>4, <1>7 DEF TalkStates, DeskOrNone
  <2>4. WorkbenchTypes'
    BY <1>1, <1>4, <1>7, <2>1, <2>2, <2>3 DEF WorkbenchTypes, WorkRequests
  <2> HIDE DEF t
  <2>5. TalksGoOn
    BY <1>7, <2>2 DEF TalksGoOn
  <2>6. WorkFits'
    <3>1. t = work.talk /\ t = work'.talk
      BY <2>1 DEF t
    <3> QED
      BY <1>1, <1>3, <1>7, <2>1, <2>2, <3>1 DEF WorkFits, PageUp
  <2>7. \A u \in Talks : talk'[u].at = "deleted" /\ (talk[u].at = "deleted" => Deleting(u)) => Deleting(u)'
    <3> TAKE u \in Talks
    <3> HAVE talk'[u].at = "deleted" /\ (talk[u].at = "deleted" => Deleting(u))
    <3>1. u = t
      BY <1>5, <2>2
    <3>2. work.op = "delete"
      BY <1>7, <2>2, <3>1
    <3> QED
      BY <2>1, <3>1, <3>2 DEF Deleting, t
  <2> QED
    BY <1>1, <2>1, <2>4, <2>5, <2>6, <2>7, WorkMoves
<1>8. CASE /\ work.op = "create" /\ talk' = [talk EXCEPT ![t] = [at |-> "open", home |-> work.home]]
           /\ work' = [work EXCEPT !.at = "answered"]
  <2>1. talk[t].at = "none"
    BY <1>1, <1>3, <1>8 DEF WorkFits
  <2> HIDE DEF t
  <2> QED
    BY <1>3, <1>7, <1>8, <2>1
<1>9. ASSUME NEW at \in {"open", "closed", "deleted"}, work.op # "create", at = "deleted" <=> work.op = "delete",
             talk[t].at # "deleted", TalkBecomes(t, at), work' = [work EXCEPT !.at = "answered"]
      PROVE  WorkbenchInv'
  <2>1. talk[t].at # "none" /\ talk[t].home = work.home
    BY <1>3, <1>9 DEF WorkFits
  <2>2. talk' = [talk EXCEPT ![t] = [at |-> at, home |-> work.home]]
    BY <1>3, <1>4, <1>9, <2>1, TalkBecomesIs
  <2> HIDE DEF t
  <2> QED
    BY <1>3, <1>7, <1>9, <2>1, <2>2
<1> QED
  <2>1. \/ work' = NoWork /\ UNCHANGED talk
        \/ /\ work.op = "create" /\ talk' = [talk EXCEPT ![t] = [at |-> "open", home |-> work.home]]
           /\ work' = [work EXCEPT !.at = "answered"]
        \/ /\ \/ work.op = "resume" /\ talk[t].at # "deleted" /\ TalkBecomes(t, "open")
              \/ work.op = "close" /\ talk[t].at # "deleted" /\ TalkBecomes(t, "closed")
              \/ work.op = "delete" /\ talk[t].at # "deleted" /\ TalkBecomes(t, "deleted")
           /\ work' = [work EXCEPT !.at = "answered"]
    BY DEF ServeWork
  <2> HIDE DEF t
  <2> QED
    BY <1>6, <1>8, <1>9, <2>1

LEMMA FinishWorkKeeps ==
  ASSUME WorkbenchInv, Barred(WorkbenchRaces), FinishWork
  PROVE  WorkbenchInv'
<1>1. /\ work.at = "answered" /\ work' = NoWork /\ listAsked' = TRUE
      /\ UNCHANGED <<talk, desks, listed, listAnswers, pageStage, paletteVars>>
  BY DEF FinishWork, daemonSide
<1>2. work # NoWork
  BY <1>1 DEF NoWork
<1>3. PICK t \in Talks : t = work.talk
  BY <1>2, WorkIs
<1>4. /\ work \in WorkRequests /\ PageUp /\ WorkFits /\ work.home \in Desks
      /\ work.op \in {"create", "resume", "close", "delete"}
  BY <1>2, WorkIs
<1>5. activeDesk \in DeskOrNone /\ ShownIsLoaded /\ desks' \subseteq Desks /\ t \in TabIds
  BY <1>1, ActiveIs DEF TabIds
<1>6. CASE work.op = "create"
  <2>1. Opens(activeDesk, t) /\ loaded' = loaded \cup {t} /\ UNCHANGED <<viewsLoading, activeDesk>>
    BY <1>3, <1>6 DEF FinishWork
  <2>2. talk[t].at \notin {"none", "deleted"} /\ talk[t].home = activeDesk
    BY <1>1, <1>3, <1>4, <1>6 DEF WorkFits
  <2>3. \A u \in Talks : Deleting(u) => Deleting(u)'
    BY <1>6 DEF Deleting
  <2>4. /\ LayoutsFit'
        /\ \A d : d = activeDesk => PanesOf(d)' \subseteq ({t, LayoutAt(activeDesk).secondary} \cap Talks)
    BY <1>1, <1>4, <1>5, <2>1, <2>2, <2>3, OpensKeeps
  <2>5. PanesOf(activeDesk)' \subseteq {t} \cup PanesOf(activeDesk)
    <3>1. PanesOf(activeDesk)' \subseteq ({t, LayoutAt(activeDesk).secondary} \cap Talks)
      BY <2>1, <2>4 DEF PanesOf
    <3> QED
      BY <1>5, <3>1, PanesAre
  <2>6. ShownIsLoaded'
    BY <1>1, <1>5, <2>1, <2>5, PanesAreTalks, TalksStay, ShownStays
  <2> QED
    BY <1>1, <1>4, <1>5, <2>1, <2>4, <2>6, UserMoves
<1>7. CASE work.op = "resume"
  <2>1. /\ work.home # activeDesk => ~palette.open
        /\ OthersReady(t, work.home) /\ OpensAtHome(t, work.home)
    BY <1>3, <1>7, WorkbenchRacesBarred DEF FinishWork, MaySlip
  <2>2. talk[t].at \notin {"none", "deleted"} /\ talk[t].home = work.home
    BY <1>1, <1>3, <1>4, <1>7 DEF WorkFits
  <2>3. \A u \in Talks : Deleting(u) => Deleting(u)'
    BY <1>7 DEF Deleting
  <2>4. PICK home \in Desks : home = work.home
    BY <1>4
  <2>5. LayoutsFit' /\ ShownIsLoaded' /\ activeDesk' = home /\ activeDesk' \in DeskOrNone
    BY <1>1, <1>4, <2>1, <2>2, <2>3, <2>4, OpensAtHomeKeeps
  <2> QED
    BY <1>1, <1>4, <1>5, <2>1, <2>4, <2>5, UserMoves
<1>8. CASE work.op \in {"close", "delete"}
  <2>1. /\ Panes(CloseTab(LayoutAt(activeDesk), t)) \subseteq loaded \cup viewsLoading
        /\ Closes(activeDesk, t) /\ UNCHANGED <<activeDesk, loaded, viewsLoading>>
    BY <1>3, <1>8, WorkbenchRacesBarred DEF FinishWork, ViewsReady, viewVars
  <2>2. \A u \in Talks : Deleting(u) => Deleting(u)' \/ (u = t /\ talk[u].home = activeDesk)
    BY <1>3, <1>4 DEF Deleting, WorkFits
  <2>3. /\ LayoutsFit'
        /\ \A d : d = activeDesk => PanesOf(d)' \subseteq Panes(CloseTab(LayoutAt(activeDesk), t))
    BY <1>1, <1>4, <1>5, <2>1, <2>2, ClosesKeeps
  <2>4. PanesOf(activeDesk)' \subseteq loaded \cup viewsLoading
    <3>1. PanesOf(activeDesk)' \subseteq Panes(CloseTab(LayoutAt(activeDesk), t))
      BY <2>1, <2>3 DEF PanesOf
    <3> QED
      BY <2>1, <3>1
  <2>5. ShownIsLoaded'
    BY <1>1, <1>5, <2>1, <2>4, PanesAreTalks, TalksStay, ShownStays
  <2> QED
    BY <1>1, <1>4, <1>5, <2>1, <2>3, <2>5, UserMoves
<1> QED
  BY <1>4, <1>6, <1>7, <1>8

LEMMA ElsewhereKeeps ==
  ASSUME WorkbenchInv, Barred(WorkbenchRaces), NEW t \in Talks, Elsewhere(t)
  PROVE  WorkbenchInv'
<1>1. /\ listAsked' = TRUE
      /\ UNCHANGED <<listed, listAnswers, desks, activeDesk, pageStage, layoutVars, viewVars, work, paletteVars>>
      /\ \/ talk[t].at = "open" /\ TalkBecomes(t, "closed")
         \/ /\ talk[t].at = "none" /\ work.talk # t
            /\ \E d \in desks : talk' = [talk EXCEPT ![t] = [at |-> "open", home |-> d]]
  BY WorkbenchRacesBarred DEF Elsewhere
<1>2. /\ talk \in [Talks -> [at : TalkStates \cup {"deleted"}, home : DeskOrNone]]
      /\ \A u \in Talks : talk[u].at # "none" => talk[u].home \in Desks
      /\ desks \subseteq Desks
  BY DEF WorkbenchInv, WorkbenchTypes
<1>3. PICK at \in {"open", "closed"}, home \in Desks :
        /\ talk' = [talk EXCEPT ![t] = [at |-> at, home |-> home]]
        /\ \/ talk[t].at = "open" /\ home = talk[t].home
           \/ talk[t].at = "none" /\ work.talk # t
  <2>1. CASE talk[t].at = "open" /\ TalkBecomes(t, "closed")
    <3>1. talk' = [talk EXCEPT ![t] = [at |-> "closed", home |-> talk[t].home]] /\ talk[t].home \in Desks
      BY <1>2, <2>1, TalkBecomesIs DEF WorkbenchInv
    <3> QED
      BY <2>1, <3>1
  <2>2. CASE /\ talk[t].at = "none" /\ work.talk # t
             /\ \E d \in desks : talk' = [talk EXCEPT ![t] = [at |-> "open", home |-> d]]
    BY <1>2, <2>2
  <2> QED
    BY <1>1, <2>1, <2>2
<1>4. talk'[t].at = at /\ talk'[t].home = home /\ \A u \in Talks : u # t => talk'[u] = talk[u]
  BY <1>2, <1>3
<1>5. talk' \in [Talks -> [at : TalkStates \cup {"deleted"}, home : DeskOrNone]]
  BY <1>2, <1>3 DEF TalkStates, DeskOrNone
<1>6. WorkbenchTypes'
  BY <1>1, <1>2, <1>3, <1>4, <1>5 DEF WorkbenchInv, WorkbenchTypes
<1>7. TalksGoOn
  BY <1>3, <1>4 DEF TalksGoOn
<1>8. WorkFits'
  <2>1. CASE work = NoWork
    BY <1>1, <2>1, NothingUnderWay
  <2>2. CASE work # NoWork
    <3>1. work.talk \in Talks /\ WorkFits
      BY <2>2, WorkIs
    <3>2. CASE work.talk = t
      BY <1>1, <1>3, <1>4, <3>1, <3>2 DEF WorkFits, PageUp
    <3>3. CASE work.talk # t
      BY <1>1, <1>4, <3>1, <3>3 DEF WorkFits, PageUp
    <3> QED
      BY <3>2, <3>3
  <2> QED
    BY <2>1, <2>2
<1>9. \A u \in Talks : talk'[u].at = "deleted" /\ (talk[u].at = "deleted" => Deleting(u)) => Deleting(u)'
  BY <1>1, <1>4 DEF Deleting
<1> QED
  BY <1>1, <1>6, <1>7, <1>8, <1>9, WorkMoves

(* The lists come and go. *)
LEMMA ListsMove ==
  ASSUME WorkbenchInv, UNCHANGED <<daemonSide, activeDesk, layoutVars, viewVars, work, paletteVars>>,
         pageStage' \in {"starting", "listed", "up"}, PageUp' = PageUp, listAsked' \in BOOLEAN, ListsFit'
  PROVE  WorkbenchInv'
<1>1. UNCHANGED <<talk, desks, layouts, saved, meant, loaded, viewsLoading>>
  BY DEF daemonSide, layoutVars, viewVars
<1>2. WorkbenchTypes'
  BY <1>1 DEF WorkbenchInv, WorkbenchTypes
<1>3. WorkFits'
  BY <1>1 DEF WorkbenchInv, WorkFits
<1>4. LayoutsFit'
  BY <1>1, TalksStay, LayoutsStay DEF WorkbenchInv, Deleting
<1>5. PaletteFits'
  BY PaletteStays DEF WorkbenchInv
<1>6. ShownIsLoaded'
  <2>1. PanesOf(activeDesk)' = PanesOf(activeDesk)
    BY <1>1 DEF PanesOf, Panes
  <2>2. ShownIsLoaded
    BY DEF WorkbenchInv
  <2> QED
    BY <1>1, <2>1, <2>2 DEF ShownIsLoaded
<1> QED
  BY <1>2, <1>3, <1>4, <1>5, <1>6 DEF WorkbenchInv

(* While the page is not up no request is under way, and every tab is of a session that is there. *)
LEMMA NoneWhileDown ==
  ASSUME WorkbenchInv, ~PageUp
  PROVE  /\ work = NoWork
         /\ \A d \in Desks : \A t \in ToSet(saved[d].tabs) \cap Talks : talk[t].at \notin {"none", "deleted"}
<1>1. work = NoWork
  BY DEF WorkbenchInv, WorkFits
<1>2. ASSUME NEW d \in Desks, NEW t \in ToSet(saved[d].tabs) \cap Talks
      PROVE  talk[t].at \notin {"none", "deleted"}
  <2>1. Fits(t, d)
    BY <1>2 DEF WorkbenchInv, LayoutsFit, TabsFit
  <2> QED
    BY <1>1, <2>1, NobodyDeletes DEF Fits
<1> QED
  BY <1>1, <1>2

LEMMA InListIs ==
  ASSUME WorkbenchInv
  PROVE  InList \in Listings /\ ListFits(InList) /\ (PageUp \/ ListsTabs(InList))
<1>1. \A t \in Talks :
        /\ InList[t] = IF talk[t].at = "deleted" THEN NoTalk ELSE talk[t]
        /\ talk[t] \in [at : TalkStates \cup {"deleted"}, home : DeskOrNone]
  BY DEF WorkbenchInv, WorkbenchTypes, InList
<1>2. NoTalk \in [at : TalkStates, home : DeskOrNone] /\ NoTalk.at = "none"
  BY DEF NoTalk, TalkStates, DeskOrNone
<1>3. \A t \in Talks : InList[t] \in [at : TalkStates, home : DeskOrNone]
  BY <1>1, <1>2
<1>4. InList \in Listings
  BY <1>3 DEF InList, Listings
<1>5. ListFits(InList)
  BY <1>1, <1>2, <1>4 DEF ListFits
<1>6. PageUp \/ ListsTabs(InList)
  BY <1>1, NoneWhileDown DEF ListsTabs
<1> QED
  BY <1>4, <1>5, <1>6

LEMMA ServeListKeeps ==
  ASSUME WorkbenchInv, ServeList
  PROVE  WorkbenchInv'
<1>1. /\ listAsked' = FALSE /\ listAnswers' = Append(listAnswers, InList)
      /\ UNCHANGED <<daemonSide, listed, activeDesk, pageStage, layoutVars, viewVars, work, paletteVars>>
  BY DEF ServeList
<1>2. /\ talk' = talk /\ saved' = saved /\ PageUp' = PageUp /\ InList' = InList
      /\ \A list : ListFits(list)' = ListFits(list)
      /\ \A list : ListsTabs(list)' = ListsTabs(list)
  BY <1>1 DEF daemonSide, layoutVars, PageUp, InList, ListFits, ListsTabs
<1>3. listAnswers \in Seq(Listings) /\ InList \in Listings
  BY InListIs DEF WorkbenchInv, ListsFit
<1> DEFINE new == listAnswers'
<1>4. /\ new \in Seq(Listings) /\ Len(new) = Len(listAnswers) + 1 /\ new[Len(new)] = InList
      /\ \A i \in 1..Len(new) : (i \in 1..Len(listAnswers) /\ new[i] = listAnswers[i]) \/ new[i] = InList
  BY <1>1, <1>3
<1>5. \A i \in 1..Len(new) : ListFits(new[i]) /\ (PageUp \/ ListsTabs(new[i]))
  BY <1>4, InListIs DEF WorkbenchInv, ListsFit
<1>6. Newest' = InList'
  BY <1>2, <1>3, <1>4 DEF Newest
<1>7. ListsFit'
  BY <1>1, <1>2, <1>4, <1>5, <1>6 DEF ListsFit, WorkbenchInv
<1> QED
  BY <1>1, <1>2, <1>7, ListsMove DEF WorkbenchInv, WorkbenchTypes

LEMMA TakeListKeeps ==
  ASSUME WorkbenchInv, TakeList
  PROVE  WorkbenchInv'
<1>1. /\ listAnswers # <<>> /\ listed' = Head(listAnswers) /\ listAnswers' = Tail(listAnswers)
      /\ pageStage' = IF pageStage = "starting" THEN "listed" ELSE pageStage
      /\ UNCHANGED <<daemonSide, listAsked, activeDesk, layoutVars, viewVars, work, paletteVars>>
  BY DEF TakeList
<1>2. PageUp' = PageUp /\ pageStage' \in {"starting", "listed", "up"} /\ listAsked \in BOOLEAN
  BY <1>1 DEF PageUp, WorkbenchInv, WorkbenchTypes
<1>3. /\ talk' = talk /\ saved' = saved /\ InList' = InList
      /\ \A list : ListFits(list)' = ListFits(list)
      /\ \A list : ListsTabs(list)' = ListsTabs(list)
  BY <1>1 DEF daemonSide, layoutVars, InList, ListFits, ListsTabs
<1>4. /\ listAnswers \in Seq(Listings) /\ (listAsked \/ Newest = InList)
      /\ \A i \in 1..Len(listAnswers) : ListFits(listAnswers[i]) /\ (PageUp \/ ListsTabs(listAnswers[i]))
  BY DEF WorkbenchInv, ListsFit
<1> DEFINE new == listAnswers'
<1>5. /\ listed' = listAnswers[1] /\ 1 \in 1..Len(listAnswers) /\ new \in Seq(Listings)
      /\ Len(new) = Len(listAnswers) - 1
      /\ \A i \in 1..Len(new) : i + 1 \in 1..Len(listAnswers) /\ new[i] = listAnswers[i + 1]
  BY <1>1, <1>4
<1>6. Newest' = Newest
  <2>1. CASE Len(listAnswers) = 1
    <3>1. new = <<>>
      BY <1>5, <2>1
    <3> QED
      BY <1>1, <1>5, <2>1, <3>1 DEF Newest
  <2>2. CASE Len(listAnswers) # 1
    <3>1. Len(new) \in 1..Len(new) /\ Len(new) + 1 = Len(listAnswers) /\ new # <<>>
      BY <1>4, <1>5, <2>2
    <3> QED
      BY <1>1, <1>5, <3>1 DEF Newest
  <2> QED
    BY <2>1, <2>2
<1>7. \A i \in 1..Len(new) : ListFits(new[i]) /\ (PageUp \/ ListsTabs(new[i]))
  BY <1>4, <1>5
<1>8. ListFits(listed') /\ (pageStage' = "listed" => ListsTabs(listed'))
  BY <1>1, <1>4, <1>5 DEF PageUp
<1>9. ListsFit'
  BY <1>1, <1>2, <1>3, <1>4, <1>5, <1>6, <1>7, <1>8 DEF ListsFit
<1> QED
  BY <1>1, <1>2, <1>9, ListsMove

LEMMA LoadEndsKeeps ==
  ASSUME WorkbenchInv, NEW t \in Talks, LoadEnds(t)
  PROVE  WorkbenchInv'
<1>1. /\ viewsLoading' = viewsLoading \ {t}
      /\ loaded' = IF talk[t].at = "deleted" THEN loaded ELSE loaded \cup {t}
      /\ UNCHANGED <<talk, desks, listed, listAsked, listAnswers, activeDesk, pageStage, layouts, saved, meant,
                     work, paletteVars>>
  BY DEF LoadEnds, daemonSide, listingVars, layoutVars
<1>2. LayoutsFit'
  BY <1>1, TalksStay, LayoutsStay DEF WorkbenchInv, PageUp, Deleting
<1>3. PanesOf(activeDesk)' = PanesOf(activeDesk)
  BY <1>1 DEF PanesOf, Panes
<1>4. \A u : talk[u].at # "deleted" => (u \in loaded \cup viewsLoading => u \in loaded' \cup viewsLoading')
  BY <1>1
<1>5. ShownIsLoaded'
  BY <1>1, <1>3, <1>4 DEF WorkbenchInv, ShownIsLoaded, PageUp
<1> QED
  BY <1>1, <1>2, <1>5, ActiveIs, UserMoves

(* A page that is loaded anew has lost all but the storage. *)
LEMMA ReloadPageKeeps ==
  ASSUME WorkbenchInv, Barred(WorkbenchRaces), ReloadPage
  PROVE  WorkbenchInv'
<1>1. /\ work = NoWork /\ pageStage' = "starting" /\ listed' = [t \in Talks |-> NoTalk]
      /\ listAsked' = TRUE /\ listAnswers' = <<>> /\ layouts' = [d \in Desks |-> NoLayout]
      /\ work' = NoWork /\ palette' = NoPalette(0) /\ searches' = {}
      /\ UNCHANGED <<talk, desks, activeDesk, saved, meant>>
  BY WorkbenchRacesBarred DEF ReloadPage, daemonSide
<1>2. ~PageUp'
  BY <1>1 DEF PageUp
<1>3. WorkbenchTypes' /\ WorkFits'
  BY <1>1, NothingUnderWay DEF WorkbenchInv, WorkbenchTypes
<1>4. LayoutsFit'
  <2>1. LayoutOk(NoLayout)
    BY LayoutAtIs DEF DeskOrNone, LayoutAt
  <2>2. ASSUME NEW d \in Desks
        PROVE  TabsFit(d)'
    <3>1. TabsFit(d)
      BY DEF WorkbenchInv, LayoutsFit
    <3>2. layouts'[d] = NoLayout
      BY <1>1
    <3>3. \A t \in ToSet(saved[d].tabs) \cap Talks : Fits(t, d)'
      BY <1>1, <3>1 DEF TabsFit, Fits, Deleting
    <3> QED
      BY <1>1, <2>1, <3>1, <3>2, <3>3 DEF TabsFit, LayoutOk
  <2>3. DOMAIN layouts' = Desks /\ layouts' = [d \in Desks |-> layouts'[d]]
    BY <1>1
  <2> QED
    BY <1>1, <1>2, <2>2, <2>3 DEF WorkbenchInv, LayoutsFit
<1>5. ListsFit'
  <2>1. NoTalk \in [at : TalkStates, home : DeskOrNone] /\ NoTalk.at = "none"
    BY DEF NoTalk, TalkStates, DeskOrNone
  <2>2. listed' \in Listings /\ \A t \in Talks : listed'[t].at = "none"
    BY <1>1, <2>1 DEF Listings
  <2>3. ListFits(listed)'
    BY <2>2 DEF ListFits
  <2>4. listAnswers' \in Seq(Listings) /\ Len(listAnswers') = 0
    BY <1>1
  <2> QED
    BY <1>1, <2>3, <2>4 DEF ListsFit
<1>6. PaletteFits'
  BY <1>1 DEF PaletteFits, NoPalette, Typed, DeskOrNone
<1>7. ShownIsLoaded'
  BY <1>2 DEF ShownIsLoaded
<1> QED
  BY <1>3, <1>4, <1>5, <1>6, <1>7 DEF WorkbenchInv

(* What is restored is what was stored. *)
LEMMA RestoreKeeps ==
  ASSUME WorkbenchInv, Restore
  PROVE  WorkbenchInv'
<1> DEFINE alive == {Files} \cup {t \in Talks : listed[t].at # "none"}
<1>1. /\ pageStage = "listed" /\ layouts' = [d \in Desks |-> RestoreLayout(saved[d], alive)] /\ saved' = layouts'
      /\ viewsLoading' = viewsLoading \cup (IF activeDesk = NoDesk THEN {} ELSE Panes(layouts'[activeDesk]))
      /\ pageStage' = "up"
      /\ UNCHANGED <<talk, desks, listed, listAsked, listAnswers, activeDesk, loaded, work, paletteVars, meant>>
  BY DEF Restore, daemonSide, listingVars
<1>2. ~PageUp /\ PageUp' /\ work = NoWork /\ ListsTabs(listed)
  BY <1>1, NoneWhileDown DEF PageUp, WorkbenchInv, ListsFit
<1>3. WorkbenchTypes' /\ WorkFits'
  BY <1>1, <1>2, NothingUnderWay DEF WorkbenchInv, WorkbenchTypes
<1>4. ASSUME NEW d \in Desks
      PROVE  /\ LayoutOk(layouts'[d]) /\ saved'[d] = layouts'[d]
             /\ ToSet(layouts'[d].tabs) = ToSet(saved[d].tabs)
  <2>1. saved[d] \in LayoutSet /\ IsInjective(saved[d].tabs)
    BY DEF WorkbenchInv, LayoutsFit, TabsFit
  <2>2. ToSet(saved[d].tabs) \subseteq TabIds
    BY <2>1 DEF LayoutSet, ToSet
  <2>3. ToSet(saved[d].tabs) \subseteq alive
    BY <1>2, <2>2 DEF ListsTabs, TabIds
  <2> HIDE DEF alive
  <2>4. layouts'[d] = RestoreLayout(saved[d], alive) /\ saved'[d] = layouts'[d]
    BY <1>1, <1>4
  <2>5. /\ LayoutOk(RestoreLayout(saved[d], alive))
        /\ ToSet(RestoreLayout(saved[d], alive).tabs) = ToSet(saved[d].tabs) \cap alive
    BY <2>1, RestoreLayoutIs
  <2> QED
    BY <2>3, <2>4, <2>5
<1> HIDE DEF alive
<1>5. LayoutsFit'
  <2>1. ASSUME NEW d \in Desks
        PROVE  TabsFit(d)'
    <3>1. TabsFit(d)
      BY DEF WorkbenchInv, LayoutsFit
    <3>2. layouts'[d] \in LayoutSet /\ IsInjective(layouts'[d].tabs)
      BY <1>4 DEF LayoutOk
    <3>3. \A t \in ToSet(saved[d].tabs) \cap Talks : Fits(t, d)'
      BY <1>1, <3>1 DEF TabsFit, Fits, Deleting
    <3> QED
      BY <1>1, <1>4, <3>1, <3>2, <3>3 DEF TabsFit, LayoutOk
  <2>2. DOMAIN layouts' = Desks /\ layouts' = [d \in Desks |-> layouts'[d]]
    BY <1>1
  <2> QED
    BY <1>1, <1>2, <2>1, <2>2 DEF WorkbenchInv, LayoutsFit
<1>6. ListsFit'
  BY <1>1, <1>2 DEF WorkbenchInv, ListsFit, ListFits, Newest, InList
<1>7. PaletteFits'
  BY <1>1, PaletteStays DEF WorkbenchInv
<1>8. ShownIsLoaded'
  BY <1>1 DEF ShownIsLoaded, PanesOf
<1> QED
  BY <1>3, <1>5, <1>6, <1>7, <1>8 DEF WorkbenchInv

LEMMA ConnectAgainKeeps ==
  ASSUME WorkbenchInv, Barred(WorkbenchRaces), ConnectAgain
  PROVE  WorkbenchInv'
<1>1. /\ PageUp /\ work = NoWork /\ work' = NoWork /\ listAsked' = TRUE /\ listAnswers' = <<>>
      /\ viewsLoading' = PanesOf(activeDesk) /\ searches' = {}
      /\ palette' = [palette EXCEPT !.loading = FALSE,
                       !.for = IF palette.loading THEN palette.query ELSE palette.for,
                       !.desk = IF palette.loading THEN activeDesk ELSE palette.desk]
      /\ UNCHANGED <<talk, desks, listed, activeDesk, pageStage, layouts, saved, meant>>
  BY WorkbenchRacesBarred DEF ConnectAgain, daemonSide, layoutVars
<1>2. WorkbenchTypes' /\ WorkFits'
  BY <1>1, NothingUnderWay DEF WorkbenchInv, WorkbenchTypes
<1>3. LayoutsFit'
  BY <1>1, TalksStay, LayoutsStay DEF WorkbenchInv, PageUp, Deleting
<1>4. ListsFit'
  <2>1. listAnswers' \in Seq(Listings) /\ Len(listAnswers') = 0
    BY <1>1
  <2> QED
    BY <1>1, <2>1 DEF WorkbenchInv, ListsFit, ListFits, ListsTabs
<1>5. PaletteFits'
  <2>1. palette \in [open : BOOLEAN, query : Typed, for : Typed, desk : DeskOrNone, loading : BOOLEAN, seq : Nat]
    BY DEF WorkbenchInv, PaletteFits
  <2>2. activeDesk \in DeskOrNone
    BY ActiveIs
  <2>3. /\ palette'.open = palette.open /\ palette'.query = palette.query /\ palette'.seq = palette.seq
        /\ palette'.loading = FALSE
        /\ palette'.for = IF palette.loading THEN palette.query ELSE palette.for
        /\ palette'.desk = IF palette.loading THEN activeDesk ELSE palette.desk
        /\ palette' \in [open : BOOLEAN, query : Typed, for : Typed, desk : DeskOrNone, loading : BOOLEAN, seq : Nat]
    BY <1>1, <2>1, <2>2
  <2> QED
    BY <1>1, <2>3 DEF WorkbenchInv, PaletteFits
<1>6. ShownIsLoaded'
  <2>1. PanesOf(activeDesk)' = PanesOf(activeDesk)
    BY <1>1 DEF PanesOf, Panes
  <2> QED
    BY <1>1, <2>1 DEF ShownIsLoaded
<1> QED
  BY <1>2, <1>3, <1>4, <1>5, <1>6 DEF WorkbenchInv

(* The palette *)

LEMMA PaletteMoves ==
  ASSUME WorkbenchInv, PaletteFits',
         UNCHANGED <<daemonSide, listingVars, activeDesk, pageStage, layoutVars, viewVars, work>>
  PROVE  WorkbenchInv'
<1>1. UNCHANGED <<talk, desks, listed, listAsked, listAnswers, layouts, saved, meant, loaded, viewsLoading>>
  BY DEF daemonSide, listingVars, layoutVars, viewVars
<1>2. WorkbenchTypes' /\ WorkFits'
  BY <1>1, WorkStays DEF WorkbenchInv, WorkbenchTypes
<1>3. LayoutsFit' /\ ListsFit'
  BY <1>1, TalksStay, LayoutsStay, ListsStay DEF WorkbenchInv, PageUp, Deleting
<1>4. ShownIsLoaded'
  <2>1. PanesOf(activeDesk)' = PanesOf(activeDesk)
    BY <1>1 DEF PanesOf, Panes
  <2> QED
    BY <1>1, <2>1 DEF WorkbenchInv, ShownIsLoaded, PageUp
<1> QED
  BY <1>2, <1>3, <1>4 DEF WorkbenchInv

(* An empty palette: its number is new, and nothing that is under way has it. *)
Untyped(open, n) ==
  [open |-> open, query |-> NoQuery, for |-> NoQuery, desk |-> NoDesk, loading |-> FALSE, seq |-> n]

LEMMA EmptyPalette ==
  ASSUME NEW n \in Nat, NEW open \in BOOLEAN
  PROVE  /\ [NoPalette(n) EXCEPT !.open = open] = Untyped(open, n) /\ NoPalette(n) = Untyped(FALSE, n)
         /\ Untyped(open, n) \in [open : BOOLEAN, query : Typed, for : Typed, desk : DeskOrNone,
                               loading : BOOLEAN, seq : Nat]
<1>1. NoQuery \in Typed /\ NoDesk \in DeskOrNone
  BY DEF Typed, DeskOrNone
<1>2. NoPalette(n) = Untyped(FALSE, n)
  BY DEF Untyped, NoPalette
<1>3. [NoPalette(n) EXCEPT !.open = open] = Untyped(open, n)
  <2>1. PICK no : no = FALSE
    BY Zenon
  <2>2. NoPalette(n) =
          [open |-> no, query |-> NoQuery, for |-> NoQuery, desk |-> NoDesk, loading |-> no, seq |-> n]
    BY <2>1, Zenon DEF NoPalette
  <2>3. Untyped(open, n) =
          [open |-> open, query |-> NoQuery, for |-> NoQuery, desk |-> NoDesk, loading |-> no, seq |-> n]
    BY <2>1, Zenon DEF Untyped
  <2> QED
    BY <2>2, <2>3
<1>4. Untyped(open, n) \in [open : BOOLEAN, query : Typed, for : Typed, desk : DeskOrNone,
                         loading : BOOLEAN, seq : Nat]
  BY <1>1 DEF Untyped
<1> QED
  BY <1>2, <1>3, <1>4

LEMMA PaletteEmptied ==
  ASSUME PaletteFits, NEW open \in BOOLEAN, palette' = Untyped(open, palette.seq + 1), searches' = searches
  PROVE  PaletteFits'
<1>1. palette.seq \in Nat /\ searches \subseteq [seq : Nat, query : Typed, desk : DeskOrNone]
      /\ \A s \in searches : s.seq <= palette.seq
  BY DEF PaletteFits
<1>2. /\ palette'.for = NoQuery /\ palette'.query = NoQuery /\ palette'.loading = FALSE
      /\ palette'.seq = palette.seq + 1
  BY DEF Untyped
<1>3. palette' \in [open : BOOLEAN, query : Typed, for : Typed, desk : DeskOrNone, loading : BOOLEAN, seq : Nat]
  <2>1. palette.seq + 1 \in Nat
    BY <1>1
  <2> QED
    BY <2>1, EmptyPalette
<1>4. \A s \in searches : s.seq <= palette.seq + 1 /\ s.seq # palette.seq + 1
  BY <1>1
<1> QED
  BY <1>1, <1>2, <1>3, <1>4 DEF PaletteFits

LEMMA OpenOrCloseKeeps ==
  ASSUME WorkbenchInv, OpenPalette \/ ClosePalette
  PROVE  WorkbenchInv'
<1>1. palette.seq + 1 \in Nat
  BY DEF WorkbenchInv, PaletteFits
<1>2. PICK open \in BOOLEAN : palette' = Untyped(open, palette.seq + 1)
  BY <1>1, EmptyPalette DEF OpenPalette, ClosePalette
<1>3. UNCHANGED <<daemonSide, listingVars, activeDesk, pageStage, layoutVars, viewVars, work, searches>>
  BY DEF OpenPalette, ClosePalette
<1>4. PaletteFits'
  BY <1>2, <1>3, PaletteEmptied DEF WorkbenchInv
<1> QED
  BY <1>3, <1>4, PaletteMoves

LEMMA SearchPaletteKeeps ==
  ASSUME WorkbenchInv, NEW q \in Queries \cup {NoQuery}, SearchPalette(q)
  PROVE  WorkbenchInv'
<1>1. /\ palette.open
      /\ UNCHANGED <<daemonSide, listingVars, activeDesk, pageStage, layoutVars, viewVars, work>>
  BY DEF SearchPalette
<1>2. CASE q = NoQuery
  <2>1. palette.seq + 1 \in Nat
    BY DEF WorkbenchInv, PaletteFits
  <2>2. palette' = Untyped(TRUE, palette.seq + 1) /\ searches' = searches
    BY <1>2, <2>1, EmptyPalette DEF SearchPalette
  <2>3. PaletteFits'
    BY <2>2, PaletteEmptied DEF WorkbenchInv
  <2> QED
    BY <1>1, <2>3, PaletteMoves
<1>3. CASE q # NoQuery
  <2> DEFINE new == [seq |-> palette.seq + 1, query |-> q, desk |-> activeDesk]
  <2>1. /\ palette' = [palette EXCEPT !.query = q, !.loading = TRUE, !.seq = palette.seq + 1]
        /\ searches' = searches \cup {new}
    BY <1>3 DEF SearchPalette
  <2>2. /\ palette \in [open : BOOLEAN, query : Typed, for : Typed, desk : DeskOrNone, loading : BOOLEAN, seq : Nat]
        /\ searches \subseteq [seq : Nat, query : Typed, desk : DeskOrNone]
        /\ \A s \in searches : s.seq <= palette.seq
        /\ palette.for # NoQuery => palette.desk = activeDesk
    BY <1>1 DEF WorkbenchInv, PaletteFits
  <2>3. activeDesk \in DeskOrNone /\ q \in Typed
    BY ActiveIs DEF Typed
  <2>4. /\ palette'.open /\ palette'.query = q /\ palette'.loading = TRUE /\ palette'.seq = palette.seq + 1
        /\ palette'.for = palette.for /\ palette'.desk = palette.desk
        /\ palette' \in [open : BOOLEAN, query : Typed, for : Typed, desk : DeskOrNone, loading : BOOLEAN, seq : Nat]
    <3>1. palette.seq + 1 \in Nat
      BY <2>2
    <3> QED
      BY <1>1, <2>1, <2>2, <2>3, <3>1
  <2>5. /\ searches' \subseteq [seq : Nat, query : Typed, desk : DeskOrNone]
        /\ new \in searches' /\ new.seq = palette.seq + 1 /\ new.query = q /\ new.desk = activeDesk
        /\ \A s \in searches' : s = new \/ (s.seq \in Nat /\ s.seq <= palette.seq)
    BY <2>1, <2>2, <2>3
  <2> HIDE DEF new
  <2>6. palette.seq \in Nat /\ activeDesk' = activeDesk
    BY <1>1, <2>2
  <2>7. \A s \in searches' : s.seq <= palette'.seq /\ (s.seq = palette'.seq => s = new)
    BY <2>4, <2>5, <2>6
  <2>8. PaletteFits'
    BY <2>2, <2>4, <2>5, <2>6, <2>7 DEF PaletteFits
  <2> QED
    BY <1>1, <2>8, PaletteMoves
<1> QED
  BY <1>2, <1>3

LEMMA SearchAnsweredKeeps ==
  ASSUME WorkbenchInv, NEW s \in searches, SearchAnswered(s)
  PROVE  WorkbenchInv'
<1>1. /\ searches' = searches \ {s}
      /\ palette' = IF s.seq # palette.seq THEN palette
                    ELSE [palette EXCEPT !.for = s.query, !.desk = s.desk, !.loading = FALSE]
      /\ UNCHANGED <<daemonSide, listingVars, activeDesk, pageStage, layoutVars, viewVars, work>>
  BY DEF SearchAnswered
<1>2. PaletteFits
  BY DEF WorkbenchInv
<1>3. CASE s.seq # palette.seq
  <2>1. palette' = palette /\ activeDesk' = activeDesk
    BY <1>1, <1>3
  <2>2. PaletteFits'
    BY <1>1, <1>2, <1>3, <2>1 DEF PaletteFits
  <2> QED
    BY <1>1, <2>2, PaletteMoves
<1>4. CASE s.seq = palette.seq
  <2>1. /\ palette \in [open : BOOLEAN, query : Typed, for : Typed, desk : DeskOrNone, loading : BOOLEAN, seq : Nat]
        /\ s \in [seq : Nat, query : Typed, desk : DeskOrNone]
    BY <1>2 DEF PaletteFits
  <2>2. /\ palette'.open = palette.open /\ palette'.query = palette.query /\ palette'.seq = palette.seq
        /\ palette'.loading = FALSE /\ palette'.for = s.query /\ palette'.desk = s.desk
        /\ palette' \in [open : BOOLEAN, query : Typed, for : Typed, desk : DeskOrNone, loading : BOOLEAN, seq : Nat]
    BY <1>1, <1>4, <2>1
  <2>3. activeDesk' = activeDesk
    BY <1>1
  <2>4. PaletteFits'
    BY <1>1, <1>2, <1>4, <2>2, <2>3 DEF PaletteFits
  <2> QED
    BY <1>1, <2>4, PaletteMoves
<1> QED
  BY <1>3, <1>4

LEMMA WorkbenchStep ==
  ASSUME WorkbenchInv, Barred(WorkbenchRaces), WorkbenchNext \/ UNCHANGED workbenchVars
  PROVE  WorkbenchInv'
<1>1. ASSUME NEW t \in Talks, OpenSession(t) \/ Elsewhere(t) \/ LoadEnds(t)
      PROVE  WorkbenchInv'
  BY <1>1, OpenSessionKeeps, ElsewhereKeeps, LoadEndsKeeps
<1>2. ASSUME NEW t \in Talks, NEW op \in {"create", "close", "delete"}, Send(op, t)
      PROVE  WorkbenchInv'
  BY <1>2, SendKeeps
<1>3. ASSUME NEW d \in Desks, SelectWorkspace(d) \/ ArchiveWorkspace(d)
      PROVE  WorkbenchInv'
  BY <1>3, SelectWorkspaceKeeps, ArchiveWorkspaceKeeps
<1>4. ASSUME NEW id \in TabIds, SetActiveTab(id) \/ UserClosesTab(id)
      PROVE  WorkbenchInv'
  BY <1>4, SetActiveTabKeeps, UserClosesTabKeeps
<1>5. ASSUME NEW on \in BOOLEAN, Split(on)
      PROVE  WorkbenchInv'
  BY <1>5, SplitKeeps
<1>6. ASSUME OpenFiles \/ ShowNewSession \/ ServeWork \/ FinishWork
      PROVE  WorkbenchInv'
  BY <1>6, OpenFilesKeeps, ShowNewSessionKeeps, ServeWorkKeeps, FinishWorkKeeps
<1>7. ASSUME ServeList \/ TakeList \/ ReloadPage \/ Restore \/ ConnectAgain
      PROVE  WorkbenchInv'
  BY <1>7, ServeListKeeps, TakeListKeeps, ReloadPageKeeps, RestoreKeeps, ConnectAgainKeeps
<1>8. ASSUME \/ OpenPalette \/ ClosePalette
             \/ \E q \in Queries \cup {NoQuery} : SearchPalette(q)
             \/ \E s \in searches : SearchAnswered(s)
      PROVE  WorkbenchInv'
  BY <1>8, OpenOrCloseKeeps, SearchPaletteKeeps, SearchAnsweredKeeps
<1>9. CASE UNCHANGED workbenchVars
  <2>1. UNCHANGED <<daemonSide, listingVars, activeDesk, pageStage, layoutVars, viewVars, work, paletteVars>>
    BY <1>9 DEF workbenchVars, daemonSide, listingVars, layoutVars, viewVars, paletteVars
  <2>2. PaletteFits'
    BY <2>1, PaletteStays DEF WorkbenchInv
  <2> QED
    BY <2>1, <2>2, PaletteMoves
<1> QED
  BY <1>1, <1>2, <1>3, <1>4, <1>5, <1>6, <1>7, <1>8, <1>9 DEF WorkbenchNext

LEMMA WorkbenchStarts ==
  ASSUME part = "workbench", WorkbenchInit
  PROVE  WorkbenchInv
<1>1. /\ talk = [t \in Talks |-> NoTalk] /\ listed = talk
      /\ listAsked = TRUE /\ listAnswers = <<>>
      /\ desks = Desks /\ activeDesk \in Desks /\ pageStage = "starting"
      /\ layouts = [d \in Desks |-> NoLayout] /\ saved = layouts
      /\ work = NoWork /\ palette = NoPalette(0) /\ searches = {}
      /\ meant = [d \in Desks |-> {}]
  BY DEF WorkbenchInit, Starts
<1>2. NoTalk \in [at : TalkStates, home : DeskOrNone] /\ NoTalk.at = "none"
  BY DEF NoTalk, TalkStates, DeskOrNone
<1>3. WorkbenchTypes /\ WorkFits
  BY <1>1, <1>2 DEF WorkbenchTypes, WorkFits, NoWork, DeskOrNone, TalkStates
<1>4. LayoutOk(NoLayout) /\ NoLayout \in LayoutSet /\ IsInjective(NoLayout.tabs) /\ ToSet(NoLayout.tabs) = {}
  BY DEF LayoutOk, NoLayout, LayoutSet, TabOrNone, IsInjective, ToSet
<1>5. LayoutsFit
  BY <1>1, <1>4 DEF LayoutsFit, TabsFit
<1>6. ListsFit
  <2>1. listed \in Listings /\ \A t \in Talks : listed[t].at = "none"
    BY <1>1, <1>2 DEF Listings
  <2>2. listAnswers \in Seq(Listings) /\ Len(listAnswers) = 0
    BY <1>1
  <2> QED
    BY <1>1, <2>1, <2>2 DEF ListsFit, ListFits
<1>7. PaletteFits
  BY <1>1 DEF PaletteFits, NoPalette, Typed, DeskOrNone
<1>8. ShownIsLoaded
  BY <1>1 DEF ShownIsLoaded, PageUp
<1> QED
  BY <1>3, <1>5, <1>6, <1>7, <1>8 DEF WorkbenchInv

LEMMA WorkbenchIsSound ==
  ASSUME WorkbenchInv
  PROVE  WorkbenchSound
<1>1. TabsSound
  <2> SUFFICES ASSUME NEW d \in Desks
               PROVE  /\ IsInjective(saved[d].tabs) /\ IsInjective(layouts[d].tabs)
                      /\ {layouts[d].active, layouts[d].secondary} \subseteq ToSet(layouts[d].tabs) \cup {NoTab}
                      /\ \A t \in ToSet(layouts[d].tabs) \cap Talks :
                           talk[t].home = d /\ (work = NoWork => talk[t].at # "deleted")
                      /\ {id \in meant[d] : id = Files \/ talk[id].at # "deleted"} \subseteq ToSet(saved[d].tabs)
                      /\ PageUp => layouts = saved
    BY DEF TabsSound
  <2>1. TabsFit(d) /\ layouts = IF PageUp THEN saved ELSE [e \in Desks |-> NoLayout]
    BY DEF WorkbenchInv, LayoutsFit
  <2>2. ASSUME NEW t \in ToSet(layouts[d].tabs) \cap Talks
        PROVE  talk[t].home = d /\ (work = NoWork => talk[t].at # "deleted")
    <3>1. PageUp
      BY <2>1, <2>2 DEF NoLayout, ToSet
    <3>2. Fits(t, d)
      BY <2>1, <2>2, <3>1 DEF TabsFit
    <3> QED
      BY <3>2, NobodyDeletes DEF Fits
  <2> QED
    BY <2>1, <2>2 DEF TabsFit, LayoutOk
<1>2. ListFollows
  BY DEF WorkbenchInv, ListsFit, ListFollows, Newest
<1>3. PaletteTells
  BY DEF WorkbenchInv, PaletteFits, PaletteTells
<1> QED
  BY <1>1, <1>2, <1>3 DEF WorkbenchSound, WorkbenchInv

-----------------------------------------------------------------------------
(* The pane of a conversation *)

(* Where a pane may be; whatever the items are, it is where the user has put it. *)
ScrolledPanes ==
  [at : {"bottom", "elsewhere", "found"}, tracking : BOOLEAN, unseen : BOOLEAN, focus : Nat,
   own : BOOLEAN, echo : BOOLEAN]

InPlace(pane, place) ==
  /\ pane \in ScrolledPanes /\ pane.at = place
  /\ pane.tracking <=> place = "bottom"
  /\ pane.tracking => ~pane.unseen

PaneInv == InPlace(scroll, wants)

LEMMA ViewRacesBarred ==
  ASSUME Barred({"refocus", "swallowed"})
  PROVE  ~Allows("refocus") /\ ~Allows("swallowed")
BY DEF Barred, Allows

(* A scroll of the pane to where it is to be, and the effect that follows the end. *)
LEMMA ScrollsKeep ==
  ASSUME NEW pane \in ScrolledPanes, NEW to \in {"bottom", "found"}, NEW pulled \in ScrollsTo(pane, to)
  PROVE  /\ pulled \in ScrolledPanes /\ pulled.at = to /\ pulled.tracking = pane.tracking
         /\ pulled.unseen = pane.unseen /\ pulled.focus = pane.focus
<1>1. PICK moves \in BOOLEAN : pulled = [pane EXCEPT !.at = to, !.own = TRUE, !.echo = moves]
  BY DEF ScrollsTo, ScrolledPanes
<1> QED
  BY <1>1 DEF ScrolledPanes

LEMMA SeenIsInPlace ==
  ASSUME NEW p \in ScrolledPanes, p.at = "bottom", p.tracking = TRUE
  PROVE  InPlace([p EXCEPT !.unseen = FALSE], "bottom")
BY DEF InPlace, ScrolledPanes

LEMMA FoundIsInPlace ==
  ASSUME NEW p \in ScrolledPanes, p.at = "found"
  PROVE  InPlace([p EXCEPT !.tracking = FALSE], "found")
BY DEF InPlace, ScrolledPanes

LEMMA FollowsKeep ==
  ASSUME NEW place, NEW pane, InPlace(pane, place), NEW then \in FollowsEnd(pane, pane.tracking)
  PROVE  InPlace(then, place)
<1>1. CASE pane.focus # 0 /\ ~pane.tracking
  BY <1>1 DEF FollowsEnd
<1>2. CASE pane.tracking
  <2>1. PICK pulled \in ScrollsTo(pane, "bottom") : then = [pulled EXCEPT !.unseen = FALSE]
    BY <1>2 DEF FollowsEnd
  <2>2. pane \in ScrolledPanes /\ place = "bottom" /\ pane.tracking = TRUE
    BY <1>2 DEF InPlace, ScrolledPanes
  <2>3. pulled \in ScrolledPanes /\ pulled.at = "bottom" /\ pulled.tracking = TRUE
    BY <2>1, <2>2, ScrollsKeep
  <2> QED
    BY <2>1, <2>2, <2>3, SeenIsInPlace
<1>3. CASE pane.focus = 0 /\ ~pane.tracking
  <2>1. then = [pane EXCEPT !.unseen = TRUE]
    BY <1>3 DEF FollowsEnd
  <2> QED
    BY <1>3, <2>1 DEF InPlace, ScrolledPanes
<1>4. pane.tracking \in BOOLEAN
  BY DEF InPlace, ScrolledPanes
<1> QED
  BY <1>1, <1>2, <1>3, <1>4

LEMMA FoundKeeps ==
  ASSUME NEW pane \in ScrolledPanes, NEW then \in AtHit(pane)
  PROVE  InPlace(then, "found")
<1>1. PICK pulled \in ScrollsTo(pane, "found") : then = [pulled EXCEPT !.tracking = FALSE]
  BY DEF AtHit
<1>2. pulled \in ScrolledPanes /\ pulled.at = "found"
  BY <1>1, ScrollsKeep
<1> QED
  BY <1>1, <1>2, FoundIsInPlace

(* The effects leave the pane there, for every sheet that comes without taking the user back to a hit. *)
LEMMA EffectsKeep ==
  ASSUME NEW pane, InPlace(pane, wants), NEW sheet,
         pane.focus = 0 \/ wants = "found" \/ Len(sheet.items) = Len(onScreen.items),
         NEW then \in Effects(sheet, pane)
  PROVE  InPlace(then, wants)
<1>1. PICK first \in IF Jumps(sheet, pane) THEN AtHit(pane) ELSE {pane} :
        then \in IF sheet.last = onScreen.last THEN {first} ELSE FollowsEnd(first, pane.tracking)
  BY DEF Effects
<1>2. Jumps(sheet, pane) => wants = "found"
  BY DEF Jumps
<1>3. pane \in ScrolledPanes
  BY DEF InPlace
<1>4. InPlace(first, wants)
  BY <1>1, <1>2, <1>3, FoundKeeps
<1>5. first.tracking = pane.tracking
  BY <1>4 DEF InPlace, ScrolledPanes
<1> QED
  BY <1>1, <1>4, <1>5, FollowsKeep

(* A scroll event that is not taken for one of the pane's own, or that changes nothing. *)
LEMMA OnScrollKeeps ==
  ASSUME NEW pane \in ScrolledPanes, NEW then \in OnScroll(pane),
         pane.own => InPlace(pane, pane.at)
  PROVE  InPlace(then, pane.at)
<1>1. CASE pane.own
  BY <1>1 DEF OnScroll, InPlace, ScrolledPanes
<1>2. CASE ~pane.own
  <2> DEFINE atBottom == pane.at = "bottom"
             seen     == [pane EXCEPT !.tracking = atBottom, !.unseen = @ /\ ~atBottom]
  <2>1. InPlace(seen, pane.at) /\ seen.tracking = atBottom
    BY DEF InPlace, ScrolledPanes
  <2>2. then = seen \/ then \in FollowsEnd(seen, seen.tracking)
    BY <1>2, <2>1 DEF OnScroll
  <2> HIDE DEF seen
  <2> QED
    BY <2>1, <2>2, FollowsKeep
<1> QED
  BY <1>1, <1>2

LEMMA SessionViewStep ==
  ASSUME PaneInv, Barred({"refocus", "swallowed"}), SessionViewNext \/ UNCHANGED sessionViewVars
  PROVE  PaneInv'
<1>1. InPlace(scroll, wants) /\ scroll \in ScrolledPanes
  BY DEF PaneInv, InPlace
<1>2. CASE Speak \/ StartTurn \/ Delta \/ ToolOrRequest \/ EndTurn
  <2>1. UNCHANGED <<scroll, wants>>
    BY <1>2 DEF Speak, StartTurn, Delta, ToolOrRequest, EndTurn
  <2> QED
    BY <2>1 DEF PaneInv
<1>3. ASSUME NEW seq \in 1..MaxShown, Arrives(seq)
      PROVE  PaneInv'
  <2>1. PICK sheet : MayDraw(sheet) /\ scroll' \in Effects(sheet, scroll) /\ wants' = wants
    BY <1>3 DEF Arrives
  <2>2. scroll.focus = 0 \/ wants = "found" \/ Len(sheet.items) = Len(onScreen.items)
    BY <2>1, ViewRacesBarred DEF MayDraw
  <2>3. InPlace(scroll', wants)
    BY <1>1, <2>1, <2>2, EffectsKeep
  <2> QED
    BY <2>1, <2>3 DEF PaneInv
<1>4. ASSUME NEW seq \in Sought, FocusHit(seq)
      PROVE  PaneInv'
  <2>1. seq \in Nat /\ [scroll EXCEPT !.focus = seq] \in ScrolledPanes
    BY <1>1, SessionViewAssumption DEF ScrolledPanes
  <2>2. scroll' \in AtHit([scroll EXCEPT !.focus = seq]) /\ wants' = "found"
    BY <1>4 DEF FocusHit
  <2> QED
    BY <2>1, <2>2, FoundKeeps DEF PaneInv
<1>5. ASSUME NEW to \in {"bottom", "elsewhere"}, UserScrolls(to)
      PROVE  PaneInv'
  <2> DEFINE there == [scroll EXCEPT !.at = to]
  <2>1. PICK pane \in {there, [there EXCEPT !.own = FALSE]} :
          ~pane.own /\ scroll' \in OnScroll(pane)
    BY <1>1, <1>5, ViewRacesBarred DEF UserScrolls, ScrolledPanes
  <2>2. pane \in ScrolledPanes /\ pane.at = to
    BY <1>1, <2>1 DEF ScrolledPanes
  <2>3. wants' = to
    BY <1>5 DEF UserScrolls
  <2> HIDE DEF there
  <2>4. InPlace(scroll', pane.at)
    BY <2>1, <2>2, OnScrollKeeps
  <2> QED
    BY <2>2, <2>3, <2>4 DEF PaneInv
<1>6. CASE LoadTimeline
  <2>1. PICK sheet : scroll' \in Effects(sheet, [scroll EXCEPT !.focus = 0]) /\ wants' = wants
    BY <1>6 DEF LoadTimeline
  <2>2. InPlace([scroll EXCEPT !.focus = 0], wants) /\ [scroll EXCEPT !.focus = 0].focus = 0
    BY <1>1 DEF InPlace, ScrolledPanes
  <2>3. InPlace(scroll', wants)
    BY <2>1, <2>2, EffectsKeep
  <2> QED
    BY <2>1, <2>3 DEF PaneInv
<1>7. CASE ClickBadge
  <2> DEFINE clicked == [scroll EXCEPT !.at = "bottom", !.tracking = TRUE, !.echo = TRUE]
  <2>1. clicked \in ScrolledPanes /\ clicked.tracking = TRUE
    BY <1>1 DEF ScrolledPanes
  <2>2. scroll' \in FollowsEnd(clicked, TRUE) /\ wants' = "bottom"
    BY <1>7 DEF ClickBadge
  <2> HIDE DEF clicked
  <2>3. PICK pulled \in ScrollsTo(clicked, "bottom") : scroll' = [pulled EXCEPT !.unseen = FALSE]
    BY <2>2 DEF FollowsEnd
  <2>4. pulled \in ScrolledPanes /\ pulled.at = "bottom" /\ pulled.tracking = TRUE
    BY <2>1, <2>3, ScrollsKeep
  <2> QED
    BY <2>2, <2>3, <2>4, SeenIsInPlace DEF PaneInv
<1>8. CASE UNCHANGED sessionViewVars
  BY <1>8 DEF sessionViewVars, PaneInv
<1>9. CASE ScrollEvent
  <2>1. scroll' \in OnScroll([scroll EXCEPT !.echo = FALSE]) /\ wants' = wants
    BY <1>9 DEF ScrollEvent
  <2>2. /\ InPlace([scroll EXCEPT !.echo = FALSE], wants)
        /\ [scroll EXCEPT !.echo = FALSE] \in ScrolledPanes /\ [scroll EXCEPT !.echo = FALSE].at = wants
    BY <1>1 DEF InPlace, ScrolledPanes
  <2>3. InPlace(scroll', wants)
    BY <2>1, <2>2, OnScrollKeeps
  <2> QED
    BY <2>1, <2>3 DEF PaneInv
<1> QED
  BY <1>2, <1>3, <1>4, <1>5, <1>6, <1>7, <1>8, <1>9 DEF SessionViewNext

LEMMA PaneIsInPlace ==
  ASSUME PaneInv
  PROVE  PaneStays
BY DEF PaneInv, InPlace, PaneStays, StaysPut

LEMMA SessionViewStarts ==
  ASSUME SessionViewInit
  PROVE  PaneInv
BY DEF SessionViewInit, PaneInv, InPlace, ScrolledPanes

-----------------------------------------------------------------------------
(* The connection *)

AnswerKinds == {"ok", "failed", "bad_request"}
Tellings    == {"nothing", "waiting", "disconnected"} \cup AnswerKinds
OutFrames   == {<<"hello">>, <<"ping">>} \cup {<<"call", c>> : c \in CallIds}
InFrames    == {<<"pong">>, <<"event">>, <<"hello.response">>}
                 \cup {<<"answer", c, a>> : c \in CallIds, a \in AnswerKinds}

ConnectionTypes ==
  /\ link \in {"none", "opening", "open", "byClient", "byServer"}
  /\ greeted \in BOOLEAN /\ pongDue \in BOOLEAN
  /\ rpcs \in [CallIds -> [method : Methods \cup {"none"}, told : Tellings]]
  /\ handling \subseteq CallIds
  /\ carried \in [CallIds -> Nat]
  /\ framesOut \in Seq(OutFrames) /\ framesIn \in Seq(InFrames)
  /\ unknown \subseteq Methods

(* Before a connection is there, nothing is under way and nobody waits. *)
QuietBefore ==
  link \in {"none", "opening"} =>
    framesOut = <<>> /\ framesIn = <<>> /\ ~greeted /\ Unanswered = {} /\ ~pongDue

AnswerIn(c) == \E k \in DOMAIN framesIn : framesIn[k][1] = "answer" /\ framesIn[k][2] = c
Untouched(c) == c \notin handling /\ carried[c] = 0 /\ ~AnswerIn(c)

(* A call is in one place: with the client, under way to the server (once), or past that. *)
CallsOnce ==
  \A c \in CallIds :
    /\ rpcs[c].told = "nothing" => rpcs[c] = NotSent /\ Untouched(c)
    /\ \A k \in DOMAIN framesOut : framesOut[k] = <<"call", c>> =>
         /\ Untouched(c) /\ rpcs[c].told = "waiting"
         /\ \A j \in DOMAIN framesOut : framesOut[j] = <<"call", c>> => j = k
    /\ rpcs[c].told # "nothing" => rpcs[c].method \in Methods
    /\ carried[c] <= 1

(* What is refused for its form never comes to a handler. *)
RefusedForForm ==
  \A c \in CallIds :
    /\ rpcs[c].told = "bad_request" \/ rpcs[c].method \in unknown => carried[c] = 0
    /\ \A k \in DOMAIN framesIn : framesIn[k] = <<"answer", c, "bad_request">> => rpcs[c].method \in unknown

ConnectionInv ==
  ConnectionTypes /\ QuietBefore /\ CallsOnce /\ RefusedForForm /\ CallsSettle /\ GreetingComes

ConnectionRaces == {"version", "mismatch"}

(* What a frame is, by its kind. *)
LEMMA OutFrameIs ==
  ASSUME NEW f \in OutFrames
  PROVE  \/ f[1] = "hello" /\ f = <<"hello">>
         \/ f[1] = "ping" /\ f = <<"ping">>
         \/ f[1] = "call" /\ f[2] \in CallIds /\ f = <<"call", f[2]>>
BY DEF OutFrames

LEMMA InFrameIs ==
  ASSUME NEW f \in InFrames
  PROVE  \/ f[1] = "pong" /\ f = <<"pong">>
         \/ f[1] = "event" /\ f = <<"event">>
         \/ f[1] = "hello.response" /\ f = <<"hello.response">>
         \/ f[1] = "answer" /\ f[2] \in CallIds /\ f[3] \in AnswerKinds /\ f = <<"answer", f[2], f[3]>>
BY DEF InFrames

(* As in DaemonParts_proofs: a queue with its head taken, and with a frame more. *)
LEMMA FrameRead ==
  ASSUME NEW S, NEW q \in Seq(S), q # <<>>
  PROVE  /\ Head(q) = q[1] /\ 1 \in DOMAIN q /\ Head(q) \in S /\ Tail(q) \in Seq(S)
         /\ \A k \in DOMAIN Tail(q) : k + 1 \in DOMAIN q /\ Tail(q)[k] = q[k + 1]
         /\ \A k \in DOMAIN q : k # 1 => k - 1 \in DOMAIN Tail(q) /\ Tail(q)[k - 1] = q[k]
OBVIOUS

LEMMA FrameSent ==
  ASSUME NEW S, NEW q \in Seq(S), NEW f \in S
  PROVE  /\ Append(q, f) \in Seq(S)
         /\ Len(q) + 1 \in DOMAIN Append(q, f) /\ Append(q, f)[Len(q) + 1] = f
         /\ \A k \in DOMAIN q : k \in DOMAIN Append(q, f) /\ Append(q, f)[k] = q[k]
         /\ \A k \in DOMAIN Append(q, f) : k = Len(q) + 1 \/ (k \in DOMAIN q /\ Append(q, f)[k] = q[k])
OBVIOUS

(* The client is sent a frame, or not: it has what it had, and at most that more. *)
LEMMA ClientGetsFrame ==
  ASSUME ConnectionTypes, NEW f \in InFrames, ToClient(f)
  PROVE  /\ framesIn' \in Seq(InFrames)
         /\ \A k \in DOMAIN framesIn : k \in DOMAIN framesIn' /\ framesIn'[k] = framesIn[k]
         /\ \A k \in DOMAIN framesIn' : framesIn'[k] = f \/ (k \in DOMAIN framesIn /\ framesIn'[k] = framesIn[k])
         /\ link = "open" => \E k \in DOMAIN framesIn' : framesIn'[k] = f
<1> USE DEF ConnectionTypes
<1>1. CASE link = "open"
  BY <1>1, FrameSent DEF ToClient
<1>2. CASE link # "open"
  BY <1>2 DEF ToClient
<1> QED
  BY <1>1, <1>2

LEMMA ServerGetsFrame ==
  ASSUME ConnectionTypes, NEW f \in OutFrames, ToServer(f)
  PROVE  /\ framesOut' \in Seq(OutFrames)
         /\ \A k \in DOMAIN framesOut : k \in DOMAIN framesOut' /\ framesOut'[k] = framesOut[k]
         /\ \A k \in DOMAIN framesOut' :
              \/ k = Len(framesOut) + 1 /\ framesOut'[k] = f
              \/ k \in DOMAIN framesOut /\ framesOut'[k] = framesOut[k]
         /\ link = "open" => \E k \in DOMAIN framesOut' : framesOut'[k] = f
<1> USE DEF ConnectionTypes
<1>1. CASE link = "open"
  BY <1>1, FrameSent DEF ToServer
<1>2. CASE link # "open"
  BY <1>2 DEF ToServer
<1> QED
  BY <1>1, <1>2

LEMMA ConnectKeeps ==
  ASSUME ConnectionInv, Connect
  PROVE  ConnectionInv'
<1>1. /\ link = "none" /\ link' = "opening" /\ clientState' \in {"connecting", "reconnecting"}
      /\ UNCHANGED <<framesOut, framesIn, greeted, rpcs, handling, carried, unknown, pongDue,
                     everConnected>>
  BY DEF Connect, handlerVars
<1> USE DEF ConnectionInv
<1>2. ConnectionTypes' /\ QuietBefore' /\ CallsOnce' /\ RefusedForForm'
  BY <1>1 DEF ConnectionTypes, QuietBefore, CallsOnce, RefusedForForm, Untouched, AnswerIn, Unanswered
<1>3. CallsSettle' /\ GreetingComes'
  BY <1>1 DEF QuietBefore, CallsSettle, GreetingComes, Unanswered
<1> QED
  BY <1>2, <1>3

LEMMA RpcKeeps ==
  ASSUME ConnectionInv, NEW c \in CallIds, NEW m \in Methods, NEW fits \in BOOLEAN, Rpc(c, m, fits)
  PROVE  ConnectionInv'
<1> USE DEF ConnectionInv
<1>1. /\ rpcs[c] = NotSent /\ clientState = "connected" /\ link \in {"open", "byClient", "byServer"}
      /\ UNCHANGED <<link, framesIn, greeted, handling, carried, unknown, pongDue, clientState,
                     everConnected>>
  BY DEF Rpc, handlerVars, clientVars, GreetingComes
<1>2. /\ rpcs' \in [CallIds -> [method : Methods \cup {"none"}, told : Tellings]]
      /\ rpcs'[c].told = (IF fits THEN "waiting" ELSE "bad_request") /\ rpcs'[c].method = m
      /\ \A b \in CallIds : b # c => rpcs'[b] = rpcs[b]
  BY DEF Rpc, ConnectionTypes, Tellings, AnswerKinds
<1>3. Untouched(c) /\ \A k \in DOMAIN framesOut : framesOut[k] # <<"call", c>>
  BY <1>1 DEF CallsOnce, NotSent
<1>4. /\ framesOut' \in Seq(OutFrames)
      /\ \A k \in DOMAIN framesOut : k \in DOMAIN framesOut' /\ framesOut'[k] = framesOut[k]
      /\ \A k \in DOMAIN framesOut' :
           \/ k = Len(framesOut) + 1 /\ framesOut'[k] = <<"call", c>> /\ fits
           \/ k \in DOMAIN framesOut /\ framesOut'[k] = framesOut[k]
      /\ link = "open" /\ fits => \E k \in DOMAIN framesOut' : framesOut'[k] = <<"call", c>>
  <2>1. CASE fits
    <3>1. <<"call", c>> \in OutFrames /\ ToServer(<<"call", c>>)
      BY <2>1 DEF Rpc, OutFrames
    <3> QED
      BY <2>1, <3>1, ServerGetsFrame
  <2>2. CASE ~fits
    BY <2>2 DEF Rpc, ConnectionTypes
  <2> QED
    BY <2>1, <2>2
<1>5. ConnectionTypes' /\ QuietBefore'
  BY <1>1, <1>2, <1>4 DEF ConnectionTypes, QuietBefore
<1>6. CallsOnce'
  <2> SUFFICES ASSUME NEW b \in CallIds
               PROVE  /\ rpcs'[b].told = "nothing" => rpcs'[b] = NotSent /\ Untouched(b)
                      /\ \A k \in DOMAIN framesOut' : framesOut'[k] = <<"call", b>> =>
                           /\ Untouched(b) /\ rpcs'[b].told = "waiting"
                           /\ \A j \in DOMAIN framesOut' : framesOut'[j] = <<"call", b>> => j = k
                      /\ rpcs'[b].told # "nothing" => rpcs'[b].method \in Methods
                      /\ carried[b] <= 1
    BY <1>1 DEF CallsOnce, Untouched, AnswerIn
  <2>1. CASE b = c
    BY <1>2, <1>3, <1>4, <2>1 DEF CallsOnce
  <2>2. CASE b # c
    <3>1. <<"call", b>> # <<"call", c>>
      BY <2>2
    <3> QED
      BY <1>2, <1>4, <2>2, <3>1 DEF CallsOnce
  <2> QED
    BY <2>1, <2>2
<1>7. RefusedForForm'
  <2>1. carried'[c] = 0 /\ \A k \in DOMAIN framesIn' : framesIn'[k] # <<"answer", c, "bad_request">>
    BY <1>1, <1>3 DEF Untouched, AnswerIn
  <2> QED
    BY <1>1, <1>2, <2>1 DEF RefusedForForm
<1>8. CallsSettle'
  <2> SUFFICES ASSUME NEW b \in CallIds, rpcs'[b].told = "waiting"
               PROVE  \/ GoingDown \/ b \in handling \/ Under(framesOut', <<"call", b>>)
                      \/ \E k \in DOMAIN framesIn : framesIn[k][1] = "answer" /\ framesIn[k][2] = b
    BY <1>1 DEF CallsSettle, Unanswered, GoingDown
  <2>1. CASE b = c
    BY <1>1, <1>2, <1>4, <2>1 DEF GoingDown, Under
  <2>2. CASE b # c
    <3>1. b \in Unanswered
      BY <1>2, <2>2 DEF Unanswered
    <3> QED
      BY <1>4, <3>1 DEF CallsSettle, Under
  <2> QED
    BY <2>1, <2>2
<1>9. GreetingComes'
  BY <1>1, <1>4 DEF GreetingComes, Under, GoingDown
<1> QED
  BY <1>5, <1>6, <1>7, <1>8, <1>9

LEMMA PingKeeps ==
  ASSUME ConnectionInv, Ping
  PROVE  ConnectionInv'
<1> USE DEF ConnectionInv
<1>1. /\ clientState = "connected" /\ link \in {"open", "byClient", "byServer"} /\ pongDue' = TRUE
      /\ UNCHANGED <<link, framesIn, greeted, rpcs, handling, carried, unknown, clientState,
                     everConnected>>
  BY DEF Ping, handlerVars, GreetingComes
<1>2. /\ framesOut' \in Seq(OutFrames)
      /\ \A k \in DOMAIN framesOut : k \in DOMAIN framesOut' /\ framesOut'[k] = framesOut[k]
      /\ \A k \in DOMAIN framesOut' :
           framesOut'[k] = <<"ping">> \/ (k \in DOMAIN framesOut /\ framesOut'[k] = framesOut[k])
      /\ link = "open" => \E k \in DOMAIN framesOut' : framesOut'[k] = <<"ping">>
  <2>1. <<"ping">> \in OutFrames /\ ToServer(<<"ping">>)
    BY DEF Ping, OutFrames
  <2> QED
    BY <2>1, ServerGetsFrame
<1>3. ConnectionTypes' /\ QuietBefore'
  BY <1>1, <1>2 DEF ConnectionTypes, QuietBefore
<1>4. CallsOnce'
  <2>1. \A b : <<"call", b>> # <<"ping">>
    OBVIOUS
  <2> QED
    BY <1>1, <1>2, <2>1 DEF CallsOnce, Untouched, AnswerIn
<1>5. RefusedForForm'
  BY <1>1 DEF RefusedForForm
<1>6. CallsSettle'
  BY <1>1, <1>2 DEF CallsSettle, Unanswered, Under, GoingDown
<1>7. GreetingComes'
  BY <1>1, <1>2 DEF GreetingComes, Under, GoingDown
<1> QED
  BY <1>3, <1>4, <1>5, <1>6, <1>7

LEMMA ClientClosesKeeps ==
  ASSUME ConnectionInv, ClientCloses
  PROVE  ConnectionInv'
<1> USE DEF ConnectionInv
<1>1. /\ link' = "byClient"
      /\ UNCHANGED <<framesOut, framesIn, greeted, rpcs, handling, carried, unknown, pongDue,
                     clientState, everConnected>>
  BY DEF ClientCloses, handlerVars, clientVars
<1>2. ConnectionTypes' /\ QuietBefore' /\ CallsOnce' /\ RefusedForForm'
  BY <1>1 DEF ConnectionTypes, QuietBefore, CallsOnce, RefusedForForm, Untouched, AnswerIn
<1>3. CallsSettle' /\ GreetingComes'
  BY <1>1 DEF CallsSettle, GreetingComes, GoingDown
<1> QED
  BY <1>2, <1>3

(* onClose: nobody waits any more. *)
LEMMA OnCloseTells ==
  ASSUME ConnectionTypes, OnClose
  PROVE  /\ rpcs' \in [CallIds -> [method : Methods \cup {"none"}, told : Tellings]]
         /\ Unanswered' = {} /\ pongDue' = FALSE /\ clientState' = "reconnecting"
         /\ \A c \in CallIds : \/ rpcs'[c] = rpcs[c]
                               \/ /\ rpcs[c].told = "waiting" /\ rpcs'[c].told = "disconnected"
                                  /\ rpcs'[c].method = rpcs[c].method
<1>1. rpcs' = [c \in CallIds |-> IF rpcs[c].told = "waiting" THEN [rpcs[c] EXCEPT !.told = "disconnected"]
                                 ELSE rpcs[c]]
  BY DEF OnClose, Unanswered
<1>2. \A c \in CallIds : rpcs'[c] = IF rpcs[c].told = "waiting" THEN [rpcs[c] EXCEPT !.told = "disconnected"]
                                    ELSE rpcs[c]
  BY <1>1
<1>3. \A c \in CallIds : rpcs'[c] \in [method : Methods \cup {"none"}, told : Tellings]
  BY <1>2 DEF ConnectionTypes, Tellings
<1>4. \A c \in CallIds : \/ rpcs'[c] = rpcs[c] /\ rpcs[c].told # "waiting"
                         \/ /\ rpcs[c].told = "waiting" /\ rpcs'[c].told = "disconnected"
                            /\ rpcs'[c].method = rpcs[c].method
  BY <1>2 DEF ConnectionTypes
<1>5. rpcs' \in [CallIds -> [method : Methods \cup {"none"}, told : Tellings]]
  BY <1>1, <1>3
<1>6. Unanswered' = {}
  BY <1>4 DEF Unanswered
<1> QED
  BY <1>4, <1>5, <1>6 DEF OnClose

LEMMA SocketClosesKeeps ==
  ASSUME ConnectionInv, SocketCloses
  PROVE  ConnectionInv'
<1> USE DEF ConnectionInv
<1>1. /\ link' = "none" /\ framesOut' = <<>> /\ framesIn' = <<>> /\ greeted' = FALSE
      /\ UNCHANGED <<handling, carried, unknown>> /\ OnClose
  BY DEF SocketCloses, handlerVars
<1>2. ConnectionTypes'
  <2>1. framesOut' \in Seq(OutFrames) /\ framesIn' \in Seq(InFrames)
    BY <1>1
  <2>2. rpcs' \in [CallIds -> [method : Methods \cup {"none"}, told : Tellings]] /\ pongDue' = FALSE
    BY <1>1, OnCloseTells
  <2> QED
    BY <1>1, <2>1, <2>2 DEF ConnectionTypes
<1>3. QuietBefore' /\ CallsSettle' /\ GreetingComes'
  BY <1>1, OnCloseTells DEF QuietBefore, CallsSettle, GreetingComes
<1>4. CallsOnce'
  <2>1. \A c \in CallIds : /\ rpcs'[c].method = rpcs[c].method
                           /\ rpcs'[c] = rpcs[c] \/ (rpcs[c].told # "nothing" /\ rpcs'[c].told # "nothing")
    BY <1>1, OnCloseTells
  <2>2. (\A b : ~AnswerIn(b))' /\ \A k \in DOMAIN framesOut' : FALSE
    BY <1>1 DEF AnswerIn
  <2> QED
    BY <1>1, <2>1, <2>2 DEF CallsOnce, Untouched, AnswerIn
<1>5. RefusedForForm'
  BY <1>1, OnCloseTells DEF RefusedForForm
<1> QED
  BY <1>2, <1>3, <1>4, <1>5

LEMMA AcceptsKeeps ==
  ASSUME ConnectionInv, Accepts
  PROVE  ConnectionInv'
<1> USE DEF ConnectionInv
<1>1. /\ link = "opening"
      /\ \/ link' = "open" /\ framesOut' = <<<<"hello">>>>
         \/ link' = "byServer" /\ framesOut' = framesOut
      /\ UNCHANGED <<framesIn, greeted, rpcs, handling, carried, unknown, pongDue, clientState,
                     everConnected>>
  BY DEF Accepts, handlerVars, clientVars
<1>2. framesOut = <<>> /\ framesIn = <<>> /\ Unanswered = {} /\ ~pongDue /\ clientState # "connected"
  BY <1>1 DEF QuietBefore, GreetingComes
<1>3. /\ framesOut' \in Seq(OutFrames) /\ \A k \in DOMAIN framesOut' : framesOut'[k] = <<"hello">>
      /\ link' = "open" => \E k \in DOMAIN framesOut' : framesOut'[k] = <<"hello">>
  <2>1. <<"hello">> \in OutFrames
    BY DEF OutFrames
  <2>2. \A f \in OutFrames : <<f>> \in Seq(OutFrames) /\ 1 \in DOMAIN <<f>> /\ <<f>>[1] = f
                             /\ \A k \in DOMAIN <<f>> : <<f>>[k] = f
    OBVIOUS
  <2>3. framesOut \in Seq(OutFrames) /\ \A k \in DOMAIN framesOut : FALSE
    BY <1>2 DEF ConnectionTypes
  <2> QED
    BY <1>1, <2>1, <2>2, <2>3
<1>4. ConnectionTypes' /\ QuietBefore' /\ RefusedForForm'
  BY <1>1, <1>3 DEF ConnectionTypes, QuietBefore, RefusedForForm
<1>5. CallsOnce'
  <2>1. \A b : <<"call", b>> # <<"hello">>
    OBVIOUS
  <2> QED
    BY <1>1, <1>3, <2>1 DEF CallsOnce, Untouched, AnswerIn
<1>6. CallsSettle' /\ GreetingComes'
  BY <1>1, <1>2, <1>3 DEF CallsSettle, GreetingComes, Unanswered, Under
<1> QED
  BY <1>4, <1>5, <1>6

LEMMA ServerStopsKeeps ==
  ASSUME ConnectionInv, ServerStops
  PROVE  ConnectionInv'
<1> USE DEF ConnectionInv
<1>1. /\ handling' = {} /\ UNCHANGED <<framesOut, framesIn, greeted, carried, unknown, everConnected>>
      /\ link' = IF link = "open" THEN "byServer" ELSE IF link = "opening" THEN "none" ELSE link
  BY DEF ServerStops
<1>2. CASE link = "opening"
  <2>1. link' = "none" /\ OnClose
    BY <1>1, <1>2 DEF ServerStops
  <2>2. ConnectionTypes' /\ QuietBefore' /\ CallsSettle' /\ GreetingComes'
    <3>1. rpcs' \in [CallIds -> [method : Methods \cup {"none"}, told : Tellings]]
          /\ Unanswered' = {} /\ pongDue' = FALSE /\ clientState' = "reconnecting"
      BY <2>1, OnCloseTells
    <3> QED
      BY <1>1, <1>2, <2>1, <3>1 DEF ConnectionTypes, QuietBefore, CallsSettle, GreetingComes
  <2>3. \A c \in CallIds : rpcs'[c] = rpcs[c]
    BY <1>2, <2>1, OnCloseTells DEF QuietBefore, Unanswered
  <2>4. CallsOnce' /\ RefusedForForm'
    BY <1>1, <2>3 DEF CallsOnce, RefusedForForm, Untouched, AnswerIn
  <2> QED
    BY <2>2, <2>4
<1>3. CASE link # "opening"
  <2>1. UNCHANGED <<clientState, pongDue, rpcs>>
    BY <1>3 DEF ServerStops
  <2>2. link' \in {"none", "byClient", "byServer"} /\ (link' = "none" => link = "none")
    BY <1>1, <1>3 DEF ConnectionTypes
  <2>3. ConnectionTypes' /\ QuietBefore' /\ CallsOnce' /\ RefusedForForm'
    BY <1>1, <2>1, <2>2 DEF ConnectionTypes, QuietBefore, CallsOnce, RefusedForForm, Untouched, AnswerIn,
                            Unanswered
  <2>4. CallsSettle' /\ GreetingComes'
    BY <1>1, <1>3, <2>1, <2>2 DEF QuietBefore, CallsSettle, GreetingComes, GoingDown, Unanswered
  <2> QED
    BY <2>3, <2>4
<1> QED
  BY <1>2, <1>3

LEMMA PublishesKeeps ==
  ASSUME ConnectionInv, Publishes
  PROVE  ConnectionInv'
<1> USE DEF ConnectionInv
<1>1. /\ UNCHANGED <<link, framesOut, greeted, rpcs, handling, carried, unknown, pongDue, clientState,
                     everConnected>>
  BY DEF Publishes, handlerVars, clientVars
<1>2. /\ framesIn' \in Seq(InFrames)
      /\ \A k \in DOMAIN framesIn : k \in DOMAIN framesIn' /\ framesIn'[k] = framesIn[k]
      /\ \A k \in DOMAIN framesIn' :
           framesIn'[k] = <<"event">> \/ (k \in DOMAIN framesIn /\ framesIn'[k] = framesIn[k])
  <2>1. CASE greeted
    <3>1. <<"event">> \in InFrames /\ ToClient(<<"event">>)
      BY <2>1 DEF Publishes, InFrames
    <3> QED
      BY <3>1, ClientGetsFrame
  <2>2. CASE ~greeted
    BY <2>2 DEF Publishes, ConnectionTypes
  <2> QED
    BY <2>1, <2>2
<1>3. framesIn' = framesIn \/ link \notin {"none", "opening"}
  BY DEF Publishes, QuietBefore
<1>4. \A b \in CallIds : AnswerIn(b)' <=> AnswerIn(b)
  BY <1>2 DEF AnswerIn
<1>5. ConnectionTypes' /\ QuietBefore'
  BY <1>1, <1>2, <1>3 DEF ConnectionTypes, QuietBefore, Unanswered
<1>6. CallsOnce' /\ RefusedForForm'
  BY <1>1, <1>2, <1>4 DEF CallsOnce, Untouched, RefusedForForm
<1>7. CallsSettle' /\ GreetingComes'
  BY <1>1, <1>2 DEF CallsSettle, GreetingComes, Unanswered, Under, GoingDown
<1> QED
  BY <1>5, <1>6, <1>7

LEMMA AnswersKeeps ==
  ASSUME ConnectionInv, NEW c \in CallIds, Answers(c)
  PROVE  ConnectionInv'
<1> USE DEF ConnectionInv
<1>1. /\ c \in handling /\ handling' = handling \ {c}
      /\ UNCHANGED <<link, framesOut, greeted, rpcs, carried, unknown, pongDue, clientState,
                     everConnected>>
  BY DEF Answers, clientVars
<1>2. rpcs[c].told # "nothing" /\ \A k \in DOMAIN framesOut : framesOut[k] # <<"call", c>>
  BY <1>1 DEF CallsOnce, Untouched
<1>3. PICK answer \in {"ok", "failed"} :
        IF c \in Unanswered THEN ToClient(<<"answer", c, answer>>) ELSE UNCHANGED framesIn
  BY DEF Answers
<1>4. answer \in AnswerKinds \ {"bad_request"}
  BY DEF AnswerKinds
<1>5. /\ framesIn' \in Seq(InFrames)
      /\ \A k \in DOMAIN framesIn : k \in DOMAIN framesIn' /\ framesIn'[k] = framesIn[k]
      /\ \A k \in DOMAIN framesIn' : \/ framesIn'[k] = <<"answer", c, answer>> /\ c \in Unanswered
                                     \/ k \in DOMAIN framesIn /\ framesIn'[k] = framesIn[k]
      /\ link = "open" /\ c \in Unanswered => \E k \in DOMAIN framesIn' : framesIn'[k] = <<"answer", c, answer>>
  <2>1. CASE c \in Unanswered
    <3>1. <<"answer", c, answer>> \in InFrames /\ ToClient(<<"answer", c, answer>>)
      BY <1>3, <1>4, <2>1 DEF InFrames
    <3> QED
      BY <2>1, <3>1, ClientGetsFrame
  <2>2. CASE c \notin Unanswered
    BY <1>3, <2>2 DEF ConnectionTypes
  <2> QED
    BY <2>1, <2>2
<1>6. \A b \in CallIds : b # c => (AnswerIn(b)' <=> AnswerIn(b))
  BY <1>5 DEF AnswerIn
<1>7. ConnectionTypes'
  BY <1>1, <1>5 DEF ConnectionTypes
<1>8. QuietBefore'
  BY <1>1, <1>5 DEF QuietBefore, Unanswered
<1>9. CallsOnce'
  <2>1. \A b \in CallIds : b # c /\ Untouched(b) => Untouched(b)'
    BY <1>1, <1>6 DEF Untouched
  <2> QED
    BY <1>1, <1>2, <2>1 DEF CallsOnce
<1>10. RefusedForForm'
  <2>1. \A b \in CallIds, k \in DOMAIN framesIn' :
          framesIn'[k] = <<"answer", b, "bad_request">> => k \in DOMAIN framesIn /\ framesIn'[k] = framesIn[k]
    BY <1>4, <1>5
  <2> QED
    BY <1>1, <2>1 DEF RefusedForForm
<1>11. CallsSettle'
  <2> SUFFICES ASSUME NEW b \in Unanswered
               PROVE  \/ GoingDown \/ b \in handling' \/ Under(framesOut, <<"call", b>>) \/ AnswerIn(b)'
    BY <1>1 DEF CallsSettle, Unanswered, GoingDown, AnswerIn
  <2>1. b \in CallIds
    BY DEF Unanswered
  <2>2. CASE b = c
    <3>1. link \in {"open", "byClient", "byServer"}
      BY DEF QuietBefore, ConnectionTypes
    <3> QED
      BY <1>5, <2>2, <3>1 DEF AnswerIn, GoingDown
  <2>3. CASE b # c
    BY <1>1, <1>6, <2>1, <2>3 DEF CallsSettle, AnswerIn
  <2> QED
    BY <2>2, <2>3
<1>12. GreetingComes'
  BY <1>1, <1>5 DEF GreetingComes, Under, GoingDown
<1> QED
  BY <1>7, <1>8, <1>9, <1>10, <1>11, <1>12

(* A frame that the client has read is gone; all others are where they were. *)
LEMMA ClientReadsFrame ==
  ASSUME ConnectionInv, ClientReads
  PROVE  /\ framesIn # <<>> /\ Head(framesIn) = framesIn[1] /\ 1 \in DOMAIN framesIn
         /\ Head(framesIn) \in InFrames /\ framesIn' \in Seq(InFrames)
         /\ \A k \in DOMAIN framesIn' : k + 1 \in DOMAIN framesIn /\ framesIn'[k] = framesIn[k + 1]
         /\ \A k \in DOMAIN framesIn : k # 1 => k - 1 \in DOMAIN framesIn' /\ framesIn'[k - 1] = framesIn[k]
         /\ link \in {"open", "byServer"}
         /\ UNCHANGED <<link, framesOut, greeted, handling, carried, unknown>>
<1>1. framesIn # <<>> /\ framesIn' = Tail(framesIn) /\ framesIn \in Seq(InFrames)
  BY DEF ClientReads, ConnectionInv, ConnectionTypes
<1>2. link \in {"open", "byServer"} /\ UNCHANGED <<link, framesOut, greeted, handling, carried, unknown>>
  BY DEF ClientReads, handlerVars
<1> QED
  BY <1>1, <1>2, FrameRead

(* What the client is told of a call, and what it then knows of its connection. *)
LEMMA ClientReadsWhat ==
  ASSUME ConnectionInv, ClientReads, Barred(ConnectionRaces), NEW f, f = framesIn[1]
  PROVE  \/ /\ f[1] = "hello.response" /\ clientState' = "connected" /\ everConnected'
            /\ UNCHANGED <<rpcs, pongDue>>
         \/ /\ f[1] = "pong" /\ pongDue' = FALSE /\ UNCHANGED <<rpcs, clientState, everConnected>>
         \/ /\ f[1] = "answer" /\ f[2] \in Unanswered /\ rpcs' = [rpcs EXCEPT ![f[2]].told = f[3]]
            /\ UNCHANGED <<clientState, everConnected, pongDue>>
         \/ /\ f[1] = "answer" /\ f[2] \notin Unanswered
            /\ UNCHANGED <<rpcs, clientState, everConnected, pongDue>>
         \/ /\ f[1] = "event" /\ UNCHANGED <<rpcs, clientState, everConnected, pongDue>>
<1>1. f = Head(framesIn) /\ ~Allows("mismatch")
  BY ClientReadsFrame DEF Barred, ConnectionRaces, Allows
<1> QED
  BY <1>1 DEF ClientReads, Told, clientVars

LEMMA ClientReadsKeeps ==
  ASSUME ConnectionInv, ClientReads, Barred(ConnectionRaces)
  PROVE  ConnectionInv'
<1> USE DEF ConnectionInv
<1>0. PICK f : f = framesIn[1]
  OBVIOUS
<1>1. f \in InFrames /\ 1 \in DOMAIN framesIn
  BY <1>0, ClientReadsFrame
<1>2. \A b \in CallIds : AnswerIn(b)' => AnswerIn(b)
  BY ClientReadsFrame DEF AnswerIn
<1>3. \A b \in CallIds : AnswerIn(b) => AnswerIn(b)' \/ (f[1] = "answer" /\ f[2] = b)
  <2> SUFFICES ASSUME NEW b \in CallIds, NEW k \in DOMAIN framesIn, framesIn[k][1] = "answer", framesIn[k][2] = b
               PROVE  AnswerIn(b)' \/ (f[1] = "answer" /\ f[2] = b)
    BY DEF AnswerIn
  <2>1. CASE k = 1
    BY <1>0, <2>1
  <2>2. CASE k # 1
    BY <2>2, ClientReadsFrame DEF AnswerIn
  <2> QED
    BY <2>1, <2>2
<1>4. UNCHANGED rpcs
      \/ \E c \in CallIds : /\ c \in Unanswered /\ f[1] = "answer" /\ f[2] = c /\ f[3] \in AnswerKinds
                            /\ f = <<"answer", c, f[3]>> /\ rpcs' = [rpcs EXCEPT ![c].told = f[3]]
  BY <1>0, <1>1, ClientReadsWhat, InFrameIs
<1>5. /\ rpcs' \in [CallIds -> [method : Methods \cup {"none"}, told : Tellings]]
      /\ \A b \in CallIds :
           \/ rpcs'[b] = rpcs[b]
           \/ /\ rpcs[b].told = "waiting" /\ AnswerIn(b) /\ rpcs'[b].method = rpcs[b].method
              /\ rpcs'[b].told \in AnswerKinds
              /\ rpcs'[b].told = "bad_request" => framesIn[1] = <<"answer", b, "bad_request">>
  <2>1. CASE UNCHANGED rpcs
    BY <2>1 DEF ConnectionTypes
  <2>2. ASSUME NEW c \in CallIds, c \in Unanswered, f[1] = "answer", f[2] = c, f[3] \in AnswerKinds,
               f = <<"answer", c, f[3]>>, rpcs' = [rpcs EXCEPT ![c].told = f[3]]
        PROVE  /\ rpcs' \in [CallIds -> [method : Methods \cup {"none"}, told : Tellings]]
               /\ \A b \in CallIds : b # c => rpcs'[b] = rpcs[b]
               /\ rpcs[c].told = "waiting" /\ AnswerIn(c) /\ rpcs'[c].method = rpcs[c].method
               /\ rpcs'[c].told = f[3]
    <3>1. AnswerIn(c)
      BY <1>0, <1>1, <2>2 DEF AnswerIn
    <3>2. rpcs[c] \in [method : Methods \cup {"none"}, told : Tellings] /\ f[3] \in Tellings
      BY <2>2 DEF ConnectionTypes, Tellings
    <3>3. [rpcs[c] EXCEPT !.told = f[3]] \in [method : Methods \cup {"none"}, told : Tellings]
      BY <3>2
    <3>4. rpcs' = [rpcs EXCEPT ![c] = [rpcs[c] EXCEPT !.told = f[3]]]
      BY <2>2
    <3> QED
      BY <2>2, <3>1, <3>2, <3>3, <3>4 DEF ConnectionTypes, Unanswered
  <2> QED
    BY <1>0, <1>4, <2>1, <2>2
<1>6. ConnectionTypes'
  <2>1. pongDue' \in BOOLEAN
    BY <1>0, ClientReadsWhat DEF ConnectionTypes
  <2> QED
    BY <1>5, <2>1, ClientReadsFrame DEF ConnectionTypes
<1>7. QuietBefore'
  BY ClientReadsFrame DEF QuietBefore
<1>8. CallsOnce'
  <2>1. \A b \in CallIds : Untouched(b) => Untouched(b)'
    BY <1>2, ClientReadsFrame DEF Untouched
  <2>2. \A b \in CallIds : rpcs'[b] = rpcs[b] \/ (AnswerIn(b) /\ rpcs'[b].told # "nothing"
                             /\ rpcs[b].told = "waiting" /\ rpcs'[b].method = rpcs[b].method)
    BY <1>5 DEF AnswerKinds
  <2> QED
    BY <2>1, <2>2, ClientReadsFrame DEF CallsOnce, Untouched
<1>9. RefusedForForm'
  <2>1. \A b \in CallIds, k \in DOMAIN framesIn' :
          framesIn'[k] = <<"answer", b, "bad_request">> => rpcs[b].method \in unknown
    BY ClientReadsFrame DEF RefusedForForm
  <2>2. \A b \in CallIds : rpcs'[b].method = rpcs[b].method
                           /\ (rpcs'[b].told = "bad_request" => rpcs[b].told = "bad_request" \/ rpcs[b].method \in unknown)
    BY <1>1, <1>5 DEF RefusedForForm
  <2> QED
    BY <2>1, <2>2, ClientReadsFrame DEF RefusedForForm
<1>10. CallsSettle'
  <2> SUFFICES ASSUME NEW b \in CallIds, rpcs'[b].told = "waiting"
               PROVE  GoingDown \/ b \in handling \/ Under(framesOut, <<"call", b>>) \/ AnswerIn(b)'
    BY ClientReadsFrame DEF CallsSettle, Unanswered, GoingDown, AnswerIn
  <2>1. b \in Unanswered /\ rpcs'[b] = rpcs[b]
    BY <1>5 DEF Unanswered, AnswerKinds
  <2>2. ~(f[1] = "answer" /\ f[2] = b)
    <3>1. SUFFICES ASSUME f[1] = "answer", f[2] = b
                   PROVE  FALSE
      OBVIOUS
    <3>2. rpcs' = [rpcs EXCEPT ![b].told = f[3]]
      BY <1>0, <2>1, <3>1, ClientReadsWhat
    <3>3. f[3] \in AnswerKinds /\ rpcs'[b].told = f[3]
      BY <1>1, <3>1, <3>2, InFrameIs DEF ConnectionTypes
    <3> QED
      BY <3>3 DEF AnswerKinds
  <2> QED
    BY <1>3, <2>1, <2>2 DEF CallsSettle, AnswerIn
<1>11. GreetingComes'
  <2>1. link = "open" /\ clientState' # "connected" =>
          Under(framesOut, <<"hello">>) \/ Under(framesIn', <<"hello.response">>)
    <3> SUFFICES ASSUME link = "open", clientState' # "connected", ~Under(framesOut, <<"hello">>)
                 PROVE  Under(framesIn', <<"hello.response">>)
      OBVIOUS
    <3>1. f[1] # "hello.response" /\ clientState # "connected"
      BY <1>0, ClientReadsWhat
    <3>2. f # <<"hello.response">>
      BY <3>1
    <3>3. PICK k \in DOMAIN framesIn : framesIn[k] = <<"hello.response">>
      BY <3>1 DEF GreetingComes, Under
    <3> QED
      BY <1>0, <3>2, <3>3, ClientReadsFrame DEF Under
  <2>2. pongDue' => GoingDown \/ Under(framesOut, <<"ping">>) \/ Under(framesIn', <<"pong">>)
    <3> SUFFICES ASSUME pongDue', ~GoingDown, ~Under(framesOut, <<"ping">>)
                 PROVE  Under(framesIn', <<"pong">>)
      OBVIOUS
    <3>0. f[1] # "pong" /\ pongDue
      BY <1>0, ClientReadsWhat
    <3>1. f # <<"pong">> /\ pongDue
      BY <3>0
    <3>2. PICK k \in DOMAIN framesIn : framesIn[k] = <<"pong">>
      BY <3>1 DEF GreetingComes, Under
    <3> QED
      BY <1>0, <3>1, <3>2, ClientReadsFrame DEF Under
  <2>3. clientState' = "connected" => link \in {"open", "byClient", "byServer"} /\ everConnected'
    BY <1>0, ClientReadsWhat, ClientReadsFrame DEF GreetingComes
  <2> QED
    BY <2>1, <2>2, <2>3, ClientReadsFrame DEF GreetingComes, GoingDown
<1> QED
  BY <1>6, <1>7, <1>8, <1>9, <1>10, <1>11

(* A frame that the server has read is gone; all others are where they were. *)
LEMMA ServerReadsFrame ==
  ASSUME ConnectionInv, ServerReads
  PROVE  /\ framesOut[1] \in OutFrames /\ 1 \in DOMAIN framesOut /\ framesOut' \in Seq(OutFrames)
         /\ \A k \in DOMAIN framesOut' : k + 1 \in DOMAIN framesOut /\ framesOut'[k] = framesOut[k + 1]
         /\ \A k \in DOMAIN framesOut : k # 1 => k - 1 \in DOMAIN framesOut' /\ framesOut'[k - 1] = framesOut[k]
         /\ link \in {"open", "byClient"}
         /\ UNCHANGED <<rpcs, unknown, pongDue, clientState, everConnected>>
<1>1. framesOut # <<>> /\ framesOut' = Tail(framesOut) /\ framesOut \in Seq(OutFrames)
  BY DEF ServerReads, ConnectionInv, ConnectionTypes
<1>2. link \in {"open", "byClient"} /\ UNCHANGED <<rpcs, unknown, pongDue, clientState, everConnected>>
  BY DEF ServerReads, clientVars
<1> QED
  BY <1>1, <1>2, FrameRead

(* The server greets, takes a call to its handler, refuses it, answers a ping, drops a frame, or
   closes the connection. *)
GreetsBack    == /\ framesOut[1] = <<"hello">> /\ greeted' = TRUE /\ ToClient(<<"hello.response">>)
                 /\ UNCHANGED <<link, handling, carried>>
AnswersPing   == /\ framesOut[1] = <<"ping">> /\ greeted /\ ToClient(<<"pong">>)
                 /\ UNCHANGED <<link, greeted, handling, carried>>
Refuses(c)    == /\ framesOut[1] = <<"call", c>> /\ rpcs[c].method \in unknown
                 /\ ToClient(<<"answer", c, "bad_request">>)
                 /\ UNCHANGED <<link, greeted, handling, carried>>
TakesCall(c)  == /\ framesOut[1] = <<"call", c>> /\ rpcs[c].method \notin unknown
                 /\ handling' = handling \cup {c} /\ carried' = [carried EXCEPT ![c] = @ + 1]
                 /\ UNCHANGED <<link, greeted, framesIn>>
ClosesOnFrame == link' = "byServer" /\ UNCHANGED <<greeted, framesIn, handling, carried>>

LEMMA ServerReadsWhat ==
  ASSUME ConnectionInv, ServerReads, Barred(ConnectionRaces)
  PROVE  \/ GreetsBack \/ AnswersPing \/ ClosesOnFrame
         \/ \E c \in CallIds : Refuses(c) \/ TakesCall(c)
<1> USE DEF ConnectionInv
<1>1. PICK f : f = framesOut[1] /\ f = Head(framesOut)
  BY DEF ServerReads, ConnectionTypes
<1>2. f \in OutFrames /\ ~Allows("version")
  BY <1>1, ServerReadsFrame DEF Barred, ConnectionRaces, Allows
<1>3. CASE f[1] = "hello"
  <2>1. OnHello /\ UNCHANGED handlerVars /\ f = <<"hello">>
    BY <1>1, <1>2, <1>3, OutFrameIs DEF ServerReads
  <2> QED
    BY <1>1, <1>2, <2>1 DEF OnHello, handlerVars, GreetsBack, ClosesOnFrame
<1>4. CASE f[1] = "ping"
  <2>1. /\ f = <<"ping">> /\ UNCHANGED handlerVars /\ UNCHANGED greeted
        /\ IF greeted THEN ToClient(<<"pong">>) /\ UNCHANGED link ELSE link' = "byServer" /\ UNCHANGED framesIn
    BY <1>1, <1>2, <1>4, OutFrameIs DEF ServerReads
  <2> QED
    BY <1>1, <2>1 DEF handlerVars, AnswersPing, ClosesOnFrame
<1>5. CASE f[1] = "call"
  <2>1. /\ f = <<"call", f[2]>> /\ f[2] \in CallIds /\ UNCHANGED greeted /\ OnCall(f[2])
    BY <1>1, <1>2, <1>5, OutFrameIs DEF ServerReads
  <2> QED
    BY <1>1, <2>1 DEF OnCall, handlerVars, Refuses, TakesCall, ClosesOnFrame
<1> QED
  BY <1>2, <1>3, <1>4, <1>5, OutFrameIs

(* What was under way to the server still is, but for the frame that was read. *)
LEMMA StillUnderWay ==
  ASSUME ConnectionInv, ServerReads
  PROVE  /\ \A f : Under(framesOut, f) => Under(framesOut', f) \/ framesOut[1] = f
         /\ \A f : Under(framesOut', f) => \E k \in DOMAIN framesOut : k # 1 /\ framesOut[k] = f
<1>1. \A k \in DOMAIN framesOut' : k + 1 \in DOMAIN framesOut /\ k + 1 # 1
  BY ServerReadsFrame DEF ConnectionInv, ConnectionTypes
<1>2. \A f : Under(framesOut', f) => \E k \in DOMAIN framesOut : k # 1 /\ framesOut[k] = f
  BY <1>1, ServerReadsFrame DEF Under
<1>3. \A f : Under(framesOut, f) => Under(framesOut', f) \/ framesOut[1] = f
  BY ServerReadsFrame DEF Under
<1> QED
  BY <1>2, <1>3

(* What the server does with the wire to the client and with its handlers leaves each call in one
   place, when it does so with the call it has read. *)
LEMMA ServerReadsCalls ==
  ASSUME ConnectionInv, ServerReads,
         \A c \in CallIds : \/ framesOut[1] = <<"call", c>> /\ carried'[c] <= 1
                            \/ carried'[c] = carried[c] /\ (Untouched(c) => Untouched(c)')
  PROVE  CallsOnce'
<1> USE DEF ConnectionInv
<1>1. \A c \in CallIds : framesOut[1] = <<"call", c>> =>
        rpcs[c].told = "waiting" /\ ~Under(framesOut', <<"call", c>>)
  BY ServerReadsFrame, StillUnderWay DEF CallsOnce
<1>2. \A c \in CallIds : Under(framesOut', <<"call", c>>) =>
        Untouched(c)' /\ rpcs[c].told = "waiting" /\ framesOut[1] # <<"call", c>>
  <2> SUFFICES ASSUME NEW c \in CallIds, Under(framesOut', <<"call", c>>)
               PROVE  Untouched(c)' /\ rpcs[c].told = "waiting" /\ framesOut[1] # <<"call", c>>
    OBVIOUS
  <2>1. PICK k \in DOMAIN framesOut : k # 1 /\ framesOut[k] = <<"call", c>>
    BY StillUnderWay
  <2>2. Untouched(c) /\ rpcs[c].told = "waiting"
    BY <2>1 DEF CallsOnce
  <2> QED
    BY <1>1, <2>2
<1>3. \A c \in CallIds, j \in DOMAIN framesOut', k \in DOMAIN framesOut' :
        framesOut'[j] = <<"call", c>> /\ framesOut'[k] = <<"call", c>> => j = k
  <2> SUFFICES ASSUME NEW c \in CallIds, NEW j \in DOMAIN framesOut', NEW k \in DOMAIN framesOut',
                      framesOut'[j] = <<"call", c>>, framesOut'[k] = <<"call", c>>
               PROVE  j = k
    OBVIOUS
  <2>1. /\ j + 1 \in DOMAIN framesOut /\ k + 1 \in DOMAIN framesOut
        /\ framesOut[j + 1] = <<"call", c>> /\ framesOut[k + 1] = <<"call", c>>
    BY ServerReadsFrame
  <2>2. j + 1 = k + 1
    BY <2>1 DEF CallsOnce
  <2> QED
    BY <2>2, ServerReadsFrame
<1>4. \A c \in CallIds : rpcs[c].told = "nothing" => Untouched(c)' /\ rpcs[c] = NotSent
  BY <1>1 DEF CallsOnce
<1>5. \A c \in CallIds : carried'[c] <= 1
  BY DEF CallsOnce
<1> QED
  BY <1>2, <1>3, <1>4, <1>5, ServerReadsFrame DEF CallsOnce, Under

(* It has then to see to the call, the hello or the ping that it has read. *)
LEMMA ServerReadsRest ==
  ASSUME ConnectionInv, ServerReads, framesIn' \in Seq(InFrames),
         link' = link \/ link' = "byServer", greeted' \in BOOLEAN,
         handling \subseteq handling', handling' \subseteq CallIds,
         \A k \in DOMAIN framesIn : k \in DOMAIN framesIn' /\ framesIn'[k] = framesIn[k],
         \A c \in CallIds : framesOut[1] = <<"call", c>> =>
           link' = "byServer" \/ link = "byClient" \/ c \in handling' \/ AnswerIn(c)',
         framesOut[1] = <<"hello">> =>
           link' = "byServer" \/ link = "byClient"
             \/ Under(framesIn', <<"hello.response">>),
         framesOut[1] = <<"ping">> => link' = "byServer" \/ link = "byClient" \/ Under(framesIn', <<"pong">>)
  PROVE  QuietBefore' /\ CallsSettle' /\ GreetingComes'
<1> USE DEF ConnectionInv
<1>0. link \in {"open", "byClient"} /\ link' \in {"open", "byClient", "byServer"}
      /\ UNCHANGED <<rpcs, pongDue, clientState, everConnected>>
  BY ServerReadsFrame
<1>1. QuietBefore'
  BY <1>0 DEF QuietBefore
<1>2. CallsSettle'
  <2> SUFFICES ASSUME NEW c \in Unanswered, link' = "open"
               PROVE  c \in handling' \/ Under(framesOut', <<"call", c>>) \/ AnswerIn(c)'
    BY <1>0 DEF CallsSettle, Unanswered, GoingDown, AnswerIn
  <2>1. c \in CallIds /\ link = "open"
    BY <1>0 DEF Unanswered
  <2>2. CASE framesOut[1] = <<"call", c>>
    BY <2>1, <2>2
  <2>3. CASE framesOut[1] # <<"call", c>>
    <3>1. c \in handling \/ Under(framesOut, <<"call", c>>) \/ AnswerIn(c)
      BY <2>1 DEF CallsSettle, GoingDown, AnswerIn
    <3> QED
      BY <2>3, <3>1, StillUnderWay DEF AnswerIn
  <2> QED
    BY <2>2, <2>3
<1>3. GreetingComes'
  <2>1. link' = "open" /\ clientState # "connected" =>
          Under(framesOut', <<"hello">>) \/ Under(framesIn', <<"hello.response">>)
    <3> SUFFICES ASSUME link' = "open", clientState # "connected", ~Under(framesOut', <<"hello">>)
                 PROVE  Under(framesIn', <<"hello.response">>)
      OBVIOUS
    <3>1. link = "open"
      BY <1>0
    <3>2. CASE Under(framesIn, <<"hello.response">>)
      BY <3>2 DEF Under
    <3>3. CASE Under(framesOut, <<"hello">>)
      BY <3>1, <3>3, StillUnderWay
    <3> QED
      BY <3>1, <3>2, <3>3 DEF GreetingComes
  <2>2. pongDue /\ link' = "open" => Under(framesOut', <<"ping">>) \/ Under(framesIn', <<"pong">>)
    <3> SUFFICES ASSUME pongDue, link' = "open", ~Under(framesOut', <<"ping">>)
                 PROVE  Under(framesIn', <<"pong">>)
      OBVIOUS
    <3>1. link = "open"
      BY <1>0
    <3>2. CASE Under(framesIn, <<"pong">>)
      BY <3>2 DEF Under
    <3>3. CASE Under(framesOut, <<"ping">>)
      BY <3>1, <3>3, StillUnderWay
    <3> QED
      BY <3>1, <3>2, <3>3 DEF GreetingComes, GoingDown
  <2> QED
    BY <1>0, <2>1, <2>2 DEF GreetingComes, GoingDown
<1> QED
  BY <1>1, <1>2, <1>3

(* A frame to the client that answers no call leaves the calls where they are. *)
LEMMA NoCallAnswered ==
  ASSUME ConnectionInv, ServerReads, NEW f \in InFrames, f[1] # "answer", ToClient(f),
         UNCHANGED <<handling, carried>>
  PROVE  CallsOnce' /\ RefusedForForm'
<1>1. \A c \in CallIds : AnswerIn(c)' => AnswerIn(c)
  BY ClientGetsFrame DEF AnswerIn, ConnectionInv
<1>2. CallsOnce'
  BY <1>1, ServerReadsCalls DEF Untouched, ConnectionInv, CallsOnce
<1>3. \A c \in CallIds, k \in DOMAIN framesIn' :
        framesIn'[k] = <<"answer", c, "bad_request">> => k \in DOMAIN framesIn /\ framesIn'[k] = framesIn[k]
  BY ClientGetsFrame DEF ConnectionInv
<1> QED
  BY <1>2, <1>3, ServerReadsFrame DEF RefusedForForm, ConnectionInv

LEMMA ServerReadsKeeps ==
  ASSUME ConnectionInv, ServerReads, Barred(ConnectionRaces)
  PROVE  ConnectionInv'
<1> USE DEF ConnectionInv
<1>0. /\ link \in {"open", "byClient"} /\ framesOut' \in Seq(OutFrames)
      /\ UNCHANGED <<rpcs, unknown, pongDue, clientState, everConnected>>
  BY ServerReadsFrame
<1>1. CASE ClosesOnFrame
  <2>1. CallsOnce' /\ RefusedForForm'
    BY <1>0, <1>1, ServerReadsCalls DEF ClosesOnFrame, Untouched, AnswerIn, RefusedForForm
  <2>2. ConnectionTypes'
    BY <1>0, <1>1 DEF ClosesOnFrame, ConnectionTypes
  <2>3. QuietBefore' /\ CallsSettle' /\ GreetingComes'
    BY <1>1, <2>2, ServerReadsRest DEF ClosesOnFrame, ConnectionTypes
  <2> QED
    BY <2>1, <2>2, <2>3
<1>2. CASE GreetsBack
  <2>1. PICK f : f = <<"hello.response">>
    OBVIOUS
  <2>2. f \in InFrames /\ f[1] = "hello.response" /\ f[1] # "answer" /\ ToClient(f)
    BY <1>2, <2>1 DEF GreetsBack, InFrames
  <2>3. CallsOnce' /\ RefusedForForm'
    BY <1>2, <2>2, NoCallAnswered DEF GreetsBack
  <2>4. ConnectionTypes'
    BY <1>0, <1>2, <2>2, ClientGetsFrame DEF GreetsBack, ConnectionTypes
  <2>5. link = "open" => Under(framesIn', <<"hello.response">>)
    BY <2>1, <2>2, ClientGetsFrame DEF Under
  <2>6. (\A c \in CallIds : framesOut[1] # <<"call", c>>) /\ framesOut[1] # <<"ping">>
    BY <1>2 DEF GreetsBack
  <2>7. \A k \in DOMAIN framesIn : k \in DOMAIN framesIn' /\ framesIn'[k] = framesIn[k]
    BY <2>2, ClientGetsFrame
  <2>8. QuietBefore' /\ CallsSettle' /\ GreetingComes'
    BY <1>0, <1>2, <2>4, <2>5, <2>6, <2>7, ServerReadsRest DEF GreetsBack, ConnectionTypes
  <2> QED
    BY <2>3, <2>4, <2>8
<1>3. CASE AnswersPing
  <2>1. PICK f : f = <<"pong">>
    OBVIOUS
  <2>2. f \in InFrames /\ f[1] # "answer" /\ ToClient(f)
    BY <1>3, <2>1 DEF AnswersPing, InFrames
  <2>3. CallsOnce' /\ RefusedForForm'
    BY <1>3, <2>2, NoCallAnswered DEF AnswersPing
  <2>4. ConnectionTypes'
    BY <1>0, <1>3, <2>2, ClientGetsFrame DEF AnswersPing, ConnectionTypes
  <2>5. link = "open" => Under(framesIn', <<"pong">>)
    BY <2>1, <2>2, ClientGetsFrame DEF Under
  <2>6. (\A c \in CallIds : framesOut[1] # <<"call", c>>) /\ framesOut[1] # <<"hello">>
    BY <1>3 DEF AnswersPing
  <2>7. \A k \in DOMAIN framesIn : k \in DOMAIN framesIn' /\ framesIn'[k] = framesIn[k]
    BY <2>2, ClientGetsFrame
  <2>8. QuietBefore' /\ CallsSettle' /\ GreetingComes'
    BY <1>0, <1>3, <2>4, <2>5, <2>6, <2>7, ServerReadsRest DEF AnswersPing, ConnectionTypes
  <2> QED
    BY <2>3, <2>4, <2>8
<1>4. ASSUME NEW c \in CallIds, Refuses(c)
      PROVE  ConnectionInv'
  <2>1. PICK f : f = <<"answer", c, "bad_request">>
    OBVIOUS
  <2>2. f \in InFrames /\ ToClient(f) /\ f[1] = "answer" /\ f[2] = c
    BY <1>4, <2>1 DEF Refuses, InFrames, AnswerKinds
  <2>3. \A k \in DOMAIN framesIn : k \in DOMAIN framesIn' /\ framesIn'[k] = framesIn[k]
    BY <2>2, ClientGetsFrame
  <2>4. \A b \in CallIds : b # c => (AnswerIn(b)' => AnswerIn(b))
    BY <2>2, ClientGetsFrame DEF AnswerIn
  <2>5. CallsOnce'
    BY <1>4, <2>4, ServerReadsCalls DEF Refuses, Untouched, CallsOnce
  <2>6. RefusedForForm'
    <3>1. \A b \in CallIds, k \in DOMAIN framesIn' : framesIn'[k] = <<"answer", b, "bad_request">> =>
            b = c \/ (k \in DOMAIN framesIn /\ framesIn'[k] = framesIn[k])
      BY <2>1, <2>2, ClientGetsFrame
    <3> QED
      BY <1>0, <1>4, <3>1 DEF Refuses, RefusedForForm
  <2>7. ConnectionTypes'
    BY <1>0, <1>4, <2>2, ClientGetsFrame DEF Refuses, ConnectionTypes
  <2>8. /\ framesOut[1] # <<"hello">> /\ framesOut[1] # <<"ping">>
        /\ \A b \in CallIds : framesOut[1] = <<"call", b>> => b = c
    BY <1>4 DEF Refuses
  <2>9. link = "open" => AnswerIn(c)'
    BY <2>2, ClientGetsFrame DEF AnswerIn
  <2>10. QuietBefore' /\ CallsSettle' /\ GreetingComes'
    BY <1>0, <1>4, <2>3, <2>7, <2>8, <2>9, ServerReadsRest DEF Refuses, ConnectionTypes
  <2> QED
    BY <2>5, <2>6, <2>7, <2>10
<1>5. ASSUME NEW c \in CallIds, TakesCall(c)
      PROVE  ConnectionInv'
  <2>1. carried[c] = 0 /\ rpcs[c].told = "waiting"
    BY <1>5, ServerReadsFrame DEF TakesCall, CallsOnce, Untouched
  <2>2. carried' \in [CallIds -> Nat] /\ carried'[c] = 1
        /\ \A b \in CallIds : b # c => carried'[b] = carried[b]
    BY <1>5, <2>1 DEF TakesCall, ConnectionTypes
  <2>3. ConnectionTypes'
    BY <1>0, <1>5, <2>2 DEF TakesCall, ConnectionTypes
  <2>4. CallsOnce'
    <3>1. \A b \in CallIds : b # c => (Untouched(b) => Untouched(b)')
      BY <1>5, <2>2 DEF TakesCall, Untouched, AnswerIn
    <3> QED
      BY <1>5, <2>2, <3>1, ServerReadsCalls DEF TakesCall
  <2>5. RefusedForForm'
    BY <1>0, <1>5, <2>1, <2>2 DEF TakesCall, RefusedForForm
  <2>6. /\ framesOut[1] # <<"hello">> /\ framesOut[1] # <<"ping">>
        /\ \A b \in CallIds : framesOut[1] = <<"call", b>> => b = c
    BY <1>5 DEF TakesCall
  <2>7. QuietBefore' /\ CallsSettle' /\ GreetingComes'
    BY <1>0, <1>5, <2>3, <2>6, ServerReadsRest DEF TakesCall, ConnectionTypes
  <2> QED
    BY <2>3, <2>4, <2>5, <2>7
<1> QED
  BY <1>1, <1>2, <1>3, <1>4, <1>5, ServerReadsWhat

LEMMA ConnectionStep ==
  ASSUME ConnectionInv, Barred(ConnectionRaces), ConnectionNext \/ UNCHANGED connectionVars
  PROVE  ConnectionInv'
<1>1. CASE Connect \/ Ping \/ ClientCloses \/ ClientReads \/ SocketCloses
  BY <1>1, ConnectKeeps, PingKeeps, ClientClosesKeeps, ClientReadsKeeps, SocketClosesKeeps
<1>2. CASE Accepts \/ ServerReads \/ Publishes \/ ServerStops
  BY <1>2, AcceptsKeeps, ServerReadsKeeps, PublishesKeeps, ServerStopsKeeps
<1>3. ASSUME NEW c \in CallIds, NEW m \in Methods, NEW fits \in BOOLEAN, Rpc(c, m, fits)
      PROVE  ConnectionInv'
  BY <1>3, RpcKeeps
<1>4. ASSUME NEW c \in CallIds, Answers(c)
      PROVE  ConnectionInv'
  BY <1>4, AnswersKeeps
<1>5. CASE ServerStarts \/ UNCHANGED connectionVars
  <2>1. UNCHANGED <<link, framesOut, framesIn, greeted, clientState, everConnected, pongDue, handling, carried,
                    unknown, rpcs>>
    BY <1>5 DEF ServerStarts, connectionVars, wireVars, clientVars, handlerVars
  <2>2. ConnectionTypes' /\ QuietBefore' /\ CallsOnce' /\ RefusedForForm'
    BY <2>1 DEF ConnectionInv, ConnectionTypes, QuietBefore, CallsOnce, RefusedForForm, Untouched, AnswerIn,
                Unanswered
  <2>3. CallsSettle' /\ GreetingComes'
    BY <2>1 DEF ConnectionInv, CallsSettle, GreetingComes, GoingDown, Unanswered
  <2> QED
    BY <2>2, <2>3 DEF ConnectionInv
<1> QED
  BY <1>1, <1>2, <1>3, <1>4, <1>5 DEF ConnectionNext

LEMMA ConnectionStarts ==
  ASSUME ConnectionInit, Barred(ConnectionRaces)
  PROVE  ConnectionInv
<1>2. unknown \subseteq Methods
  <2>1. (CHOOSE x \in {{}, Newer} : TRUE) \in {{}, Newer}
    OBVIOUS
  <2>2. unknown \in {{}, Newer}
    BY <2>1 DEF ConnectionInit, Starts
  <2> QED
    BY <2>2, ConnectionAssumption
<1>3. rpcs = [c \in CallIds |-> NotSent] /\ carried = [c \in CallIds |-> 0] /\ handling = {}
      /\ framesOut = <<>> /\ framesIn = <<>> /\ link = "none" /\ ~greeted /\ greeted \in BOOLEAN
      /\ pongDue = FALSE /\ clientState = "closed"
  BY DEF ConnectionInit
<1>4. Unanswered = {}
  BY <1>3 DEF Unanswered, NotSent
<1>5. ConnectionTypes
  <2>1. rpcs \in [CallIds -> [method : Methods \cup {"none"}, told : Tellings]]
    <3>1. NotSent \in [method : Methods \cup {"none"}, told : Tellings]
      BY DEF NotSent, Tellings
    <3> QED
      BY <1>3, <3>1
  <2>2. framesOut \in Seq(OutFrames) /\ framesIn \in Seq(InFrames)
    BY <1>3
  <2> QED
    BY <1>2, <1>3, <2>1, <2>2 DEF ConnectionTypes
<1>6. CallsOnce
  BY <1>3 DEF CallsOnce, Untouched, AnswerIn, NotSent
<1> QED
  BY <1>3, <1>4, <1>5, <1>6 DEF ConnectionInv, QuietBefore, RefusedForForm, CallsSettle, GreetingComes, NotSent

LEMMA ConnectionIsSound ==
  ASSUME ConnectionInv
  PROVE  ConnectionSound
<1>2. ASSUME NEW c \in CallIds
      PROVE  carried[c] <= (IF rpcs[c].told = "bad_request" \/ rpcs[c] = NotSent THEN 0 ELSE 1)
  <2>1. carried[c] <= 1 /\ (rpcs[c].told = "bad_request" => carried[c] = 0)
    BY DEF ConnectionInv, CallsOnce, RefusedForForm
  <2>2. rpcs[c] = NotSent => carried[c] = 0
    BY DEF ConnectionInv, CallsOnce, Untouched, NotSent
  <2> QED
    BY <2>1, <2>2
<1>3. CarriedOnce
  BY <1>2 DEF CarriedOnce
<1> QED
  BY <1>3 DEF ConnectionInv, ConnectionSound
=============================================================================
