----------------------------- MODULE DiffWatch -----------------------------
(***************************************************************************)
(* Who watches the changes of a workspace: the counted watchers of the      *)
(* daemon (server.ts subscribeDiff, diffs.ts DiffWatcher) and the one        *)
(* subscription of each renderer, which follows the active workspace        *)
(* (app-store.ts).                                                          *)
(*                                                                         *)
(* Races: "close" (a renderer goes away or starts over without              *)
(* unsubscribing), "restart" (a renderer lives on over a restart of the      *)
(* daemon, or loses its connection), "quick" (another workspace is chosen    *)
(* before the answer to a subscription), "rechosen" (the workspace that is   *)
(* chosen already is chosen again), "archived" (a workspace is archived      *)
(* while a renderer watches it), "overtaken" (of two diffs that a renderer   *)
(* asks for, the later one is answered first), "baseline" (files change      *)
(* while the first fingerprint is taken and another renderer has read the    *)
(* diff), "unseen" (a file that is modified already is edited: git status    *)
(* says the same).                                                          *)
(***************************************************************************)
EXTENDS Naturals, SequencesExt, FiniteSets, Services

CONSTANTS
  Renderers,  \* clients of the daemon
  Places,     \* workspaces
  MaxChoices, \* bound: choices of a workspace, reloads and archivals
  MaxFetches  \* bound: diffs that are being read at a time

NoPlace == "none"

ASSUME DiffWatchAssumption ==
  MaxChoices \in Nat /\ MaxFetches \in Nat /\ IsFiniteSet(Renderers) /\ NoPlace \notin Places

VARIABLES
  active,        \* AppState.activeWorkspaceId
  subscription,  \* diffSubscription: what the renderer believes
  asking,        \* diff.subscribe requests of a renderer that are not answered, by step
  subscribers,   \* diffWatchers: the count of each watcher, 0 for none
  timers,        \* polling timers that run
  moved,         \* the fingerprint of the workspace is not the watcher's last one
  fetches,       \* diff.get requests that are not answered, and what was read for them
  shown,         \* the renderer has the diff of the active workspace as of the last change
  archived,      \* workspaces the list does not have any more
  choices

diffVars == <<active, subscription, asking, subscribers, timers, moved, fetches, shown, archived,
              choices>>

Steps == {"sent", "starting", "started"}

Fetches == [of : Places, read : {"no", "current", "old"}]

(* bootstrap: a renderer starts with a workspace of its list, if there is one, and asks for the
   subscription to it. *)
DiffInit ==
  /\ active \in Starts("diffs", [Renderers -> Places \cup {NoPlace}])
  /\ subscription = [r \in Renderers |-> NoPlace]
  /\ asking = [r \in Renderers |-> [w \in Places |-> IF active[r] = w THEN "sent" ELSE "no"]]
  /\ subscribers = [w \in Places |-> 0] /\ timers = [w \in Places |-> 0]
  /\ moved = [w \in Places |-> FALSE]
  /\ fetches = [r \in Renderers |-> <<>>]
  /\ shown = [r \in Renderers |-> FALSE]
  /\ archived = {}
  /\ choices = 0

Sets(r, w, step) == asking' = [asking EXCEPT ![r][w] = step]
Awaits(r) == \E w \in Places : asking[r][w] # "no"

(* unsubscribeDiff: the last one stops the watcher and its timer. *)
Fewer(w) == [subscribers EXCEPT ![w] = IF @ > 0 THEN @ - 1 ELSE 0]
Unsubscribed(w) ==
  /\ subscribers' = Fewer(w)
  /\ timers' = IF subscribers[w] = 1 /\ timers[w] > 0 THEN [timers EXCEPT ![w] = @ - 1] ELSE timers

DropsOld(r) ==
  IF subscription[r] = NoPlace THEN UNCHANGED <<subscribers, timers>>
  ELSE Unsubscribed(subscription[r])

(* selectWorkspace empties the pane; subscribeDiff has nothing to do for the workspace that is
   subscribed, and moves the subscription otherwise. *)
Choose(r, w) ==
  /\ choices < MaxChoices /\ w \notin archived
  /\ Allows("quick") \/ ~Awaits(r)
  /\ choices' = choices + 1
  /\ active' = [active EXCEPT ![r] = w]
  /\ shown' = [shown EXCEPT ![r] = FALSE]
  /\ \/ /\ subscription[r] = w /\ Allows("rechosen")
        /\ UNCHANGED <<subscription, asking, subscribers, timers>>
     \/ /\ subscription[r] # w /\ asking[r][w] = "no"
        /\ DropsOld(r)
        /\ subscription' = [subscription EXCEPT ![r] = NoPlace]
        /\ Sets(r, w, "sent")
  /\ UNCHANGED <<moved, fetches, archived>>

(* subscribeDiff of the daemon, once the workspace was found: the first takes a fingerprint... *)
Subscribed(r, w) ==
  /\ asking[r][w] = "sent"
  /\ subscribers' = [subscribers EXCEPT ![w] = @ + 1]
  /\ Sets(r, w, IF subscribers[w] = 0 THEN "starting" ELSE "started")
  /\ UNCHANGED <<active, subscription, timers, moved, fetches, shown, archived, choices>>

(* ... and polls from then on. *)
Started(r, w) ==
  /\ asking[r][w] = "starting"
  /\ timers' = [timers EXCEPT ![w] = @ + 1]
  /\ moved' = [moved EXCEPT ![w] = FALSE]
  /\ Sets(r, w, "started")
  /\ UNCHANGED <<active, subscription, subscribers, fetches, shown, archived, choices>>

-----------------------------------------------------------------------------
(* Reading the diff *)

(* Bound: nothing more is asked for while so many diffs are being read. *)
FetchesUnderWay == Cardinality(UNION {{r} \X DOMAIN fetches[r] : r \in Renderers})

(* refreshDiff: the diff of the workspace that is active now. *)
FetchOf(q, w) == Append(q, [of |-> w, read |-> "no"])

(* The answer to the subscription: the diff is read. *)
Answered(r, w) ==
  /\ asking[r][w] = "started" /\ FetchesUnderWay < MaxFetches
  /\ Sets(r, w, "no")
  /\ subscription' = [subscription EXCEPT ![r] = w]
  /\ fetches' = [fetches EXCEPT ![r] = FetchOf(@, active[r])]
  /\ UNCHANGED <<active, subscribers, timers, moved, shown, archived, choices>>

(* The tab with the changes is opened. *)
OpenDiff(r) ==
  /\ active[r] # NoPlace /\ FetchesUnderWay < MaxFetches
  /\ fetches' = [fetches EXCEPT ![r] = FetchOf(@, active[r])]
  /\ UNCHANGED <<active, subscription, asking, subscribers, timers, moved, shown, archived, choices>>

(* workingDiff: git reads the files. *)
ReadAt(q, i) == [q EXCEPT ![i] = [q[i] EXCEPT !.read = "current"]]

ReadsDiff(r, i) ==
  /\ fetches[r][i].read = "no"
  /\ fetches' = [fetches EXCEPT ![r] = ReadAt(fetches[r], i)]
  /\ UNCHANGED <<active, subscription, asking, subscribers, timers, moved, shown, archived, choices>>

(* The renderer stores what it gets, whatever workspace it was asked for. *)
StoresDiff(r, i) ==
  /\ fetches[r][i].read # "no" /\ (Allows("overtaken") \/ i = 1)
  /\ fetches' = [fetches EXCEPT ![r] = RemoveAt(@, i)]
  /\ shown' = [shown EXCEPT ![r] = fetches[r][i] = [of |-> active[r], read |-> "current"]]
  /\ UNCHANGED <<active, subscription, asking, subscribers, timers, moved, archived, choices>>

-----------------------------------------------------------------------------
(* Changes *)

Readers(w)  == {r \in Renderers : subscription[r] = w}
Counting(w) == {r \in Renderers : asking[r][w] \in {"starting", "started"}}
Starting(w) == {r \in Renderers : asking[r][w] = "starting"}

(* What was read of the workspace before is not its diff any more. *)
NowOld(q, w) ==
  [i \in DOMAIN q |-> IF q[i] = [of |-> w, read |-> "current"] THEN [q[i] EXCEPT !.read = "old"]
                      ELSE q[i]]

(* Files of a workspace change, and mostly what git status says of them. *)
Edited(w) ==
  /\ Allows("baseline") \/ Starting(w) = {} \/ Readers(w) = {}
  /\ \/ moved' = [moved EXCEPT ![w] = TRUE]
     \/ Allows("unseen") /\ UNCHANGED moved
  /\ shown' = [r \in Renderers |-> shown[r] /\ active[r] # w]
  /\ fetches' = [r \in Renderers |-> NowOld(fetches[r], w)]
  /\ UNCHANGED <<active, subscription, asking, subscribers, timers, archived, choices>>

(* tick: the fingerprint moved, and all renderers in which the workspace is active read the diff. *)
Tick(w) ==
  /\ timers[w] > 0 /\ moved[w] /\ FetchesUnderWay < MaxFetches
  /\ moved' = [moved EXCEPT ![w] = FALSE]
  /\ fetches' = [r \in Renderers |-> IF active[r] = w THEN FetchOf(fetches[r], w) ELSE fetches[r]]
  /\ UNCHANGED <<active, subscription, asking, subscribers, timers, shown, archived, choices>>

-----------------------------------------------------------------------------
(* Lists, and starting over *)

(* A workspace is archived: it is listed no more, but can still be watched and read. *)
ArchiveWatched(w) ==
  /\ choices < MaxChoices /\ w \notin archived
  /\ Allows("archived") \/ \A r \in Renderers : subscription[r] # w /\ asking[r][w] = "no"
  /\ choices' = choices + 1
  /\ archived' = archived \cup {w}
  /\ UNCHANGED <<active, subscription, asking, subscribers, timers, moved, fetches, shown>>

(* The workspace that stays active, or else one of the list. *)
LandsOn(r, w) ==
  IF active[r] \in Places \ archived THEN w = active[r]
  ELSE w \in Places \ archived \/ (w = NoPlace /\ Places \ archived = {})

(* refreshWorkspaces: another workspace may become active, but the subscription is not moved. *)
RefreshWorkspaces(r, w) ==
  /\ LandsOn(r, w) /\ w # active[r]
  /\ active' = [active EXCEPT ![r] = w]
  /\ shown' = [shown EXCEPT ![r] = FALSE]
  /\ UNCHANGED <<subscription, asking, subscribers, timers, moved, fetches, archived, choices>>

(* A renderer is reloaded: bootstrap reads the list and subscribes anew.  The daemon counts
   subscriptions, not connections. *)
Reload(r, w) ==
  /\ choices < MaxChoices /\ LandsOn(r, w)
  /\ Allows("close") \/ (subscription[r] = NoPlace /\ ~Awaits(r))
  /\ choices' = choices + 1
  /\ active' = [active EXCEPT ![r] = w]
  /\ asking' = [asking EXCEPT ![r] = [v \in Places |-> IF v = w THEN "sent" ELSE "no"]]
  /\ subscription' = [subscription EXCEPT ![r] = NoPlace]
  /\ fetches' = [fetches EXCEPT ![r] = <<>>]
  /\ shown' = [shown EXCEPT ![r] = FALSE]
  /\ UNCHANGED <<subscribers, timers, moved, archived>>

(* The connection is lost: requests fail, and resync neither subscribes again nor reads the diff. *)
LosesConnection(r) ==
  /\ Allows("restart") \/ (subscription[r] = NoPlace /\ ~Awaits(r))
  /\ asking' = [asking EXCEPT ![r] = [w \in Places |-> "no"]]
  /\ fetches' = [fetches EXCEPT ![r] = <<>>]
  /\ UNCHANGED <<active, subscription, subscribers, timers, moved, shown, archived, choices>>

(* The daemon restarts: the same for all renderers, and nothing is watched any more. *)
DaemonRestarts ==
  /\ Allows("restart") \/ \A r \in Renderers : subscription[r] = NoPlace
  /\ subscribers' = [w \in Places |-> 0] /\ timers' = [w \in Places |-> 0]
  /\ asking' = [r \in Renderers |-> [w \in Places |-> "no"]]
  /\ fetches' = [r \in Renderers |-> <<>>]
  /\ UNCHANGED <<active, subscription, moved, shown, archived, choices>>

DiffNext ==
  \/ \E r \in Renderers :
       \/ \E w \in Places : Choose(r, w) \/ Subscribed(r, w) \/ Started(r, w) \/ Answered(r, w)
       \/ \E w \in Places \cup {NoPlace} : RefreshWorkspaces(r, w) \/ Reload(r, w)
       \/ \E i \in DOMAIN fetches[r] : ReadsDiff(r, i) \/ StoresDiff(r, i)
       \/ OpenDiff(r) \/ LosesConnection(r)
  \/ \E w \in Places : Edited(w) \/ Tick(w) \/ ArchiveWatched(w)
  \/ DaemonRestarts

-----------------------------------------------------------------------------
(* diffs.ts DiffWatcher.tick: the watcher is about to tell of a change. *)
Notices(w) == moved[w] /\ timers[w] > 0

(* The renderer shows the diff of the workspace, or the last answer on its way brings it. *)
WillShow(r, w) ==
  IF fetches[r] = <<>> THEN shown[r]
  ELSE Last(fetches[r]).of = w /\ Last(fetches[r]).read # "old"

(* app-store.ts:516: a renderer that is subscribed is so to the workspace it shows, and what it
   shows is the diff of that workspace as of the last change, or it is about to be. *)
ReadersSeeChanges ==
  \A r \in Renderers :
    /\ subscription[r] \in {NoPlace, active[r]}
    /\ \A w \in Places : subscription[r] = w => Notices(w) \/ WillShow(r, w)

(* server.ts subscribeDiff, diffs.ts, app-store.ts subscribeDiff: besides, the count of a watcher is
   that of its subscribers, and one timer runs while there are any. *)
DiffsWatched ==
  /\ ReadersSeeChanges
  /\ \A w \in Places :
       /\ subscribers[w] = Cardinality(Readers(w)) + Cardinality(Counting(w))
       /\ timers[w] + Cardinality(Starting(w)) = IF subscribers[w] > 0 THEN 1 ELSE 0
=============================================================================
