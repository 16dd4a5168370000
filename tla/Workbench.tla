----------------------------- MODULE Workbench -----------------------------
(***************************************************************************)
(* What a renderer keeps beside the content of its panes: the list of       *)
(* sessions, a layout of tabs for every workspace with its copy in the      *)
(* local storage, and the command palette (app-store.ts, workbench/tabs.ts,  *)
(* App.tsx).  A request of the user is sent, served by the daemon and        *)
(* continued by the controller, and the user, other clients, a reload of the *)
(* page and a new connection come between.                                  *)
(*                                                                         *)
(* Races: "moved" (the workspace changes while a request is under way),      *)
(* "across" (a session of another workspace is deleted), "elsewhere" (another *)
(* client deletes one), "cut" (the connection breaks while a request is under *)
(* way), "ghost" (what is opened is a search hit that is not listed, or a     *)
(* session that is listed and deleted),                                      *)
(* "unloaded" (a pane shows up whose tab nobody activated since the start or  *)
(* the reconnect), "early" (Mod+N before the layouts are restored), "behind"  *)
(* (the workspace changes behind the open palette).                         *)
(***************************************************************************)
EXTENDS Naturals, Sequences, FiniteSets, SequencesExt, Services

CONSTANTS
  Desks,    \* workspaces
  Talks,    \* sessions that can come to be
  Queries,  \* what can be typed into the palette
  MaxActs   \* bound: what users and the network do

NoDesk  == "no desk"
NoTab   == "no tab"
NoQuery == ""
Files   == "files"   \* a tab without content of its own, for all that are no sessions
TabIds  == Talks \cup {Files}

ASSUME WorkbenchAssumption == MaxActs \in Nat /\ NoDesk \notin Desks /\ {NoTab, Files} \cap Talks = {}

VARIABLES
  talk,          \* the sessions of the daemon
  listed,        \* AppState.sessions
  listAsked,     \* session.list requests that the daemon has not read
  listAnswers,   \* answers under way
  desks,         \* the workspaces that are not archived
  activeDesk,    \* AppState.activeWorkspaceId
  pageStage,         \* bootstrap: "starting", "listed", "up"
  layouts, saved,  \* AppState.layouts, and what the local storage has
  loaded, viewsLoading, \* sessions whose view is complete, and whose timeline is asked for
  work,          \* the controller's request under way
  palette, searches, \* AppState.palette with paletteSeq, and its requests under way
  meant,         \* history: the tabs the user opened and did not close
  acts

workbenchVars == <<talk, listed, listAsked, listAnswers, desks, activeDesk, pageStage, layouts, saved,
                   loaded, viewsLoading, work, palette, searches, meant, acts>>
daemonSide  == <<talk, desks>>
listingVars == <<listed, listAsked, listAnswers>>
layoutVars  == <<layouts, saved, meant>>
paletteVars == <<palette, searches>>
viewVars    == <<loaded, viewsLoading>>

NoTalk   == [at |-> "none", home |-> NoDesk]
NoWork   == [op |-> "none", talk |-> NoTab, home |-> NoDesk, at |-> "idle"]
NoLayout == [tabs |-> <<>>, active |-> NoTab, secondary |-> NoTab]
NoPalette(seq) == [open |-> FALSE, query |-> NoQuery, for |-> NoQuery, desk |-> NoDesk,
                   loading |-> FALSE, seq |-> seq]

WorkbenchInit ==
  /\ talk = [t \in Talks |-> NoTalk] /\ listed = talk
  /\ listAsked = TRUE /\ listAnswers = <<>>
  /\ desks = Desks /\ activeDesk \in Starts("workbench", Desks) /\ pageStage = "starting"
  /\ layouts = [d \in Desks |-> NoLayout] /\ saved = layouts
  /\ loaded = {} /\ viewsLoading = {}
  /\ work = NoWork /\ palette = NoPalette(0) /\ searches = {}
  /\ meant = [d \in Desks |-> {}] /\ acts = 0

Acts == acts < MaxActs /\ acts' = acts + 1
PageUp   == pageStage = "up"

-----------------------------------------------------------------------------
(* workbench/tabs.ts *)

(* tabs.filter: those of ids, in their order. *)
Only(tabs, ids) ==
  LET left == {i \in DOMAIN tabs : tabs[i] \in ids}
      Nth(k) == CHOOSE i \in left : Cardinality({j \in left : j <= i}) = k
  IN [k \in 1..Cardinality(left) |-> tabs[Nth(k)]]

Has(layout, id) == \E i \in DOMAIN layout.tabs : layout.tabs[i] = id

OpenTab(layout, id) ==
  [layout EXCEPT !.active = id, !.tabs = IF Has(layout, id) THEN @ ELSE Append(@, id)]

(* The tab that takes the place of the active one is the next, or the last. *)
CloseTab(layout, id) ==
  IF ~Has(layout, id) THEN layout
  ELSE LET index == CHOOSE i \in DOMAIN layout.tabs : layout.tabs[i] = id
           rest  == Only(layout.tabs, TabIds \ {id})
           next  == IF rest = <<>> THEN NoTab
                    ELSE rest[IF index > Len(rest) THEN Len(rest) ELSE index]
       IN [tabs |-> rest,
           active |-> IF layout.active = id THEN next ELSE layout.active,
           secondary |-> IF layout.secondary = id THEN NoTab ELSE layout.secondary]

(* The other pane gets the first tab that is not the active one. *)
SetSplit(layout, on) ==
  LET others == {i \in DOMAIN layout.tabs : layout.tabs[i] # layout.active} IN
  [layout EXCEPT !.secondary = IF on /\ others # {} THEN layout.tabs[Min(others)] ELSE NoTab]

(* What is not alive is dropped. *)
RestoreLayout(layout, alive) ==
  LET left  == Only(layout.tabs, alive)
      kept  == [layout EXCEPT !.tabs = left]
      front == IF Has(kept, layout.active) THEN layout.active
               ELSE IF left = <<>> THEN NoTab ELSE Head(left)
  IN [tabs |-> left, active |-> front,
      secondary |-> IF Has(kept, layout.secondary) /\ layout.secondary # front
                    THEN layout.secondary ELSE NoTab]

(* openTabIds: the sessions in the panes of a workspace. *)
Panes(layout) == {id \in {layout.active, layout.secondary} : Has(layout, id)} \cap Talks
PanesOf(desk) == IF desk = NoDesk THEN {} ELSE Panes(layouts[desk])
ViewsReady(ts) == Allows("unloaded") \/ ts \subseteq loaded \cup viewsLoading

-----------------------------------------------------------------------------
(* setLayout: of the active workspace, and at once into the storage. *)
SetLayout(desk, layout) ==
  IF desk = NoDesk THEN UNCHANGED <<layouts, saved>>
  ELSE layouts' = [layouts EXCEPT ![desk] = layout] /\ saved' = layouts'

Means(desk, ids) == meant' = IF desk = NoDesk THEN meant ELSE [meant EXCEPT ![desk] = ids]
MeantAt(desk)    == IF desk = NoDesk THEN {} ELSE meant[desk]
LayoutAt(desk)   == IF desk = NoDesk THEN NoLayout ELSE layouts[desk]

Opens(desk, id) ==
  /\ SetLayout(desk, OpenTab(LayoutAt(desk), id))
  /\ Means(desk, MeantAt(desk) \cup {id})

Closes(desk, id) ==
  /\ SetLayout(desk, CloseTab(LayoutAt(desk), id))
  /\ Means(desk, MeantAt(desk) \ {id})

Loads(ts) == viewsLoading' = viewsLoading \cup ts /\ UNCHANGED loaded

MayMove == Allows("moved") \/ work = NoWork
MaySlip == Allows("behind") \/ ~palette.open

(* openSession: a session of another workspace is opened there. *)
OpensAtHome(t, home) ==
  /\ activeDesk' = home
  /\ Opens(home, t)
  /\ Loads({t})

(* The panes of the workspace that comes into view beside the tab that is opened. *)
OthersReady(t, home) == home # activeDesk => ViewsReady({LayoutAt(home).secondary} \cap Talks)

OpenSession(t) ==
  /\ PageUp /\ Acts
  /\ \/ listed[t].at # "none" /\ talk[t].at # "deleted"
     \/ Allows("ghost") /\ talk[t].at # "none"
  /\ LET home == IF listed[t].at = "none" THEN activeDesk ELSE listed[t].home IN
     IF listed[t].at = "closed"
     THEN /\ work = NoWork
          /\ work' = [op |-> "resume", talk |-> t, home |-> home, at |-> "sent"]
          /\ UNCHANGED <<activeDesk, layoutVars, viewVars>>
     ELSE /\ home # activeDesk => MayMove /\ MaySlip
          /\ OthersReady(t, home)
          /\ OpensAtHome(t, home)
          /\ UNCHANGED work
  /\ UNCHANGED <<daemonSide, listingVars, pageStage, paletteVars>>

OpenFiles ==
  /\ PageUp /\ Acts
  /\ Opens(activeDesk, Files)
  /\ UNCHANGED <<daemonSide, listingVars, activeDesk, pageStage, viewVars, work, paletteVars>>

SelectWorkspace(d) ==
  /\ PageUp /\ Acts /\ d \in desks /\ MayMove /\ MaySlip
  /\ ViewsReady(PanesOf(d))
  /\ activeDesk' = d
  /\ UNCHANGED <<daemonSide, listingVars, pageStage, layoutVars, viewVars, work, paletteVars>>

(* Mutant: the tab is shown and not loaded. *)
SetActiveOnly(id) ==
  /\ PageUp /\ Acts /\ activeDesk # NoDesk /\ Has(layouts[activeDesk], id)
  /\ SetLayout(activeDesk, [layouts[activeDesk] EXCEPT !.active = id])
  /\ UNCHANGED <<daemonSide, listingVars, activeDesk, pageStage, viewVars, work, paletteVars, meant>>

SetActiveTab(id) ==
  /\ PageUp /\ Acts /\ activeDesk # NoDesk /\ Has(layouts[activeDesk], id)
  /\ SetLayout(activeDesk, [layouts[activeDesk] EXCEPT !.active = id])
  /\ Loads({id} \cap Talks)
  /\ UNCHANGED <<daemonSide, listingVars, activeDesk, pageStage, work, paletteVars, meant>>

UserClosesTab(id) ==
  /\ PageUp /\ Acts /\ activeDesk # NoDesk /\ Has(layouts[activeDesk], id)
  /\ ViewsReady(Panes(CloseTab(layouts[activeDesk], id)))
  /\ Closes(activeDesk, id)
  /\ UNCHANGED <<daemonSide, listingVars, activeDesk, pageStage, viewVars, work, paletteVars>>

Split(on) ==
  /\ PageUp /\ Acts
  /\ LET layout == SetSplit(LayoutAt(activeDesk), on) IN
     /\ SetLayout(activeDesk, layout)
     /\ Loads({layout.secondary} \cap Talks)
  /\ UNCHANGED <<daemonSide, listingVars, activeDesk, pageStage, work, paletteVars, meant>>

(* showNewSessionView, from the moment the window listens to the keyboard. *)
ShowNewSession ==
  /\ Acts
  /\ Allows("early") \/ PageUp
  /\ SetLayout(activeDesk, [LayoutAt(activeDesk) EXCEPT !.active = NoTab])
  /\ UNCHANGED <<daemonSide, listingVars, activeDesk, pageStage, viewVars, work, paletteVars, meant>>

-----------------------------------------------------------------------------
(* createSession, closeSession and deleteSession: sent... *)
Send(op, t) ==
  /\ PageUp /\ Acts /\ work = NoWork
  /\ \/ op = "create" /\ talk[t].at = "none" /\ activeDesk # NoDesk
     \/ op = "close" /\ listed[t].at = "open"
     \/ /\ op = "delete" /\ listed[t].at # "none"
        /\ Allows("across") \/ listed[t].home = activeDesk
  /\ work' = [op |-> op, talk |-> t, home |-> IF op = "create" THEN activeDesk ELSE listed[t].home,
              at |-> "sent"]
  /\ UNCHANGED <<daemonSide, listingVars, activeDesk, pageStage, layoutVars, viewVars, paletteVars>>

TalkBecomes(t, at) == talk' = [talk EXCEPT ![t].at = at]

(* ... served by the daemon, whose events make all clients ask for the list anew... *)
ServeWork ==
  /\ work.at = "sent"
  /\ LET t == work.talk IN
     \/ /\ work.op = "create" /\ talk' = [talk EXCEPT ![t] = [at |-> "open", home |-> work.home]]
        /\ work' = [work EXCEPT !.at = "answered"]
     \/ /\ work.op = "resume" /\ talk[t].at # "deleted" /\ TalkBecomes(t, "open")
        /\ work' = [work EXCEPT !.at = "answered"]
     \/ /\ work.op = "close" /\ talk[t].at # "deleted" /\ TalkBecomes(t, "closed")
        /\ work' = [work EXCEPT !.at = "answered"]
     \/ /\ work.op = "delete" /\ talk[t].at # "deleted" /\ TalkBecomes(t, "deleted")
        /\ work' = [work EXCEPT !.at = "answered"]
     \/ work' = NoWork /\ UNCHANGED talk   \* refused
  /\ listAsked' = (listAsked \/ work'.at = "answered")
  /\ UNCHANGED <<listed, listAnswers, desks, activeDesk, pageStage, layoutVars, viewVars, paletteVars, acts>>

(* ... and continued: in the layout that is the active one by then. *)
FinishWork ==
  /\ work.at = "answered"
  /\ LET t == work.talk IN
     \/ /\ work.op = "create"
        /\ Opens(activeDesk, t)
        /\ loaded' = loaded \cup {t} /\ UNCHANGED <<viewsLoading, activeDesk>>
     \/ /\ work.op = "resume" /\ (work.home # activeDesk => MaySlip)
        /\ OthersReady(t, work.home)
        /\ OpensAtHome(t, work.home)
     \/ /\ work.op \in {"close", "delete"}
        /\ ViewsReady(Panes(CloseTab(LayoutAt(activeDesk), t)))
        /\ Closes(activeDesk, t)
        /\ UNCHANGED <<activeDesk, viewVars>>
  /\ work' = NoWork
  /\ listAsked' = TRUE
  /\ UNCHANGED <<daemonSide, listed, listAnswers, pageStage, paletteVars, acts>>

(* Other clients create and close sessions; they delete them without an event. *)
Elsewhere(t) ==
  /\ Acts
  /\ \/ talk[t].at = "open" /\ TalkBecomes(t, "closed") /\ listAsked' = TRUE
     \/ /\ talk[t].at = "none" /\ work.talk # t
        /\ \E d \in desks : talk' = [talk EXCEPT ![t] = [at |-> "open", home |-> d]]
        /\ listAsked' = TRUE
     \/ Allows("elsewhere") /\ talk[t].at = "closed" /\ TalkBecomes(t, "deleted") /\ UNCHANGED listAsked
  /\ UNCHANGED <<listed, listAnswers, desks, activeDesk, pageStage, layoutVars, viewVars, work, paletteVars>>

(* workspace.archive, by whomever: the first of those left takes the place of the active one. *)
ArchiveWorkspace(d) ==
  /\ Acts /\ d \in desks /\ MayMove /\ MaySlip
  /\ desks' = desks \ {d}
  /\ activeDesk' = IF activeDesk # d THEN activeDesk
                   ELSE IF desks' = {} THEN NoDesk ELSE CHOOSE other \in desks' : TRUE
  /\ ViewsReady(PanesOf(activeDesk'))
  /\ UNCHANGED <<talk, listingVars, pageStage, layoutVars, viewVars, work, paletteVars>>

-----------------------------------------------------------------------------
(* refreshSessions: answered in the order of the readings. *)
InList == [t \in Talks |-> IF talk[t].at = "deleted" THEN NoTalk ELSE talk[t]]

ServeList ==
  /\ listAsked /\ Len(listAnswers) < 2
  /\ listAsked' = FALSE
  /\ listAnswers' = Append(listAnswers, InList)
  /\ UNCHANGED <<daemonSide, listed, activeDesk, pageStage, layoutVars, viewVars, work, paletteVars, acts>>

TakeList ==
  /\ listAnswers # <<>>
  /\ listed' = Head(listAnswers) /\ listAnswers' = Tail(listAnswers)
  /\ pageStage' = IF pageStage = "starting" THEN "listed" ELSE pageStage
  /\ UNCHANGED <<daemonSide, listAsked, activeDesk, layoutVars, viewVars, work, paletteVars, acts>>

(* loadTimeline: the session may be gone. *)
LoadEnds(t) ==
  /\ t \in viewsLoading
  /\ viewsLoading' = viewsLoading \ {t}
  /\ loaded' = IF talk[t].at = "deleted" THEN loaded ELSE loaded \cup {t}
  /\ UNCHANGED <<daemonSide, listingVars, activeDesk, pageStage, layoutVars, work, paletteVars, acts>>

(* The page is loaded anew: the storage is all that is left. *)
ReloadPage ==
  /\ Acts
  /\ Allows("cut") \/ work = NoWork
  /\ pageStage' = "starting" /\ listed' = [t \in Talks |-> NoTalk]
  /\ listAsked' = TRUE /\ listAnswers' = <<>>
  /\ layouts' = [d \in Desks |-> NoLayout]
  /\ loaded' = {} /\ viewsLoading' = {}
  /\ work' = NoWork /\ palette' = NoPalette(0) /\ searches' = {}
  /\ UNCHANGED <<daemonSide, activeDesk, saved, meant>>

(* restoreLayout, at the end of bootstrap. *)
Restore ==
  /\ pageStage = "listed"
  /\ LET alive == {Files} \cup {t \in Talks : listed[t].at # "none"} IN
     layouts' = [d \in Desks |-> RestoreLayout(saved[d], alive)]
  /\ saved' = layouts'
  /\ viewsLoading' = viewsLoading \cup (IF activeDesk = NoDesk THEN {} ELSE Panes(layouts'[activeDesk]))
  /\ pageStage' = "up"
  /\ UNCHANGED <<daemonSide, listingVars, activeDesk, loaded, work, paletteVars, meant, acts>>

(* A new connection: requests failed, events were missed, and resync fills the gaps of the
   sessions in the panes. *)
ConnectAgain ==
  /\ PageUp /\ Acts
  /\ Allows("cut") \/ work = NoWork
  /\ work' = NoWork
  /\ listAsked' = TRUE /\ listAnswers' = <<>>
  /\ loaded' = loaded \cap PanesOf(activeDesk) /\ viewsLoading' = PanesOf(activeDesk)
  /\ palette' = [palette EXCEPT !.loading = FALSE,
                   !.for = IF palette.loading THEN palette.query ELSE palette.for,
                   !.desk = IF palette.loading THEN activeDesk ELSE palette.desk]
  /\ searches' = {}
  /\ UNCHANGED <<daemonSide, listed, activeDesk, pageStage, layoutVars>>

-----------------------------------------------------------------------------
(* The palette *)

OpenPalette ==
  /\ PageUp /\ Acts
  /\ palette' = [NoPalette(palette.seq + 1) EXCEPT !.open = TRUE]
  /\ UNCHANGED <<daemonSide, listingVars, activeDesk, pageStage, layoutVars, viewVars, work, searches>>

ClosePalette ==
  /\ palette.open /\ Acts
  /\ palette' = NoPalette(palette.seq + 1)
  /\ UNCHANGED <<daemonSide, listingVars, activeDesk, pageStage, layoutVars, viewVars, work, searches>>

(* searchPalette: results of another query stay until the answer is there. *)
SearchPalette(q) ==
  /\ palette.open /\ Acts
  /\ palette' = IF q = NoQuery THEN [NoPalette(palette.seq + 1) EXCEPT !.open = TRUE]
                ELSE [palette EXCEPT !.query = q, !.loading = TRUE, !.seq = @ + 1]
  /\ searches' = IF q = NoQuery THEN searches
                 ELSE searches \cup {[seq |-> palette.seq + 1, query |-> q, desk |-> activeDesk]}
  /\ UNCHANGED <<daemonSide, listingVars, activeDesk, pageStage, layoutVars, viewVars, work>>

(* An answer, in any order; it counts if it is the latest request's. *)
SearchAnswered(s) ==
  /\ searches' = searches \ {s}
  /\ palette' = IF s.seq # palette.seq THEN palette
                ELSE [palette EXCEPT !.for = s.query, !.desk = s.desk, !.loading = FALSE]
  /\ UNCHANGED <<daemonSide, listingVars, activeDesk, pageStage, layoutVars, viewVars, work, acts>>

WorkbenchNext ==
  \/ \E t \in Talks :
       \/ OpenSession(t) \/ Elsewhere(t) \/ LoadEnds(t)
       \/ \E op \in {"create", "close", "delete"} : Send(op, t)
  \/ \E d \in Desks : SelectWorkspace(d) \/ ArchiveWorkspace(d)
  \/ \E id \in TabIds : SetActiveTab(id) \/ UserClosesTab(id)
  \/ \E on \in BOOLEAN : Split(on)
  \/ OpenFiles \/ ShowNewSession \/ ServeWork \/ FinishWork
  \/ ServeList \/ TakeList \/ ReloadPage \/ Restore \/ ConnectAgain
  \/ OpenPalette \/ ClosePalette
  \/ \E q \in Queries \cup {NoQuery} : SearchPalette(q)
  \/ \E s \in searches : SearchAnswered(s)

-----------------------------------------------------------------------------
(* workbench-tabs.md 1.2, 1.3: a tab is there once, at the workspace of its session; the panes
   show tabs that are there; and tabs stay, over reloads too, until the user closes them or
   their session is deleted. *)
TabsSound ==
  \A d \in Desks :
    /\ IsInjective(saved[d].tabs) /\ IsInjective(layouts[d].tabs)
    /\ {layouts[d].active, layouts[d].secondary} \subseteq ToSet(layouts[d].tabs) \cup {NoTab}
    /\ \A t \in ToSet(layouts[d].tabs) \cap Talks :
         talk[t].home = d /\ (work = NoWork => talk[t].at # "deleted")
    /\ {id \in meant[d] : id = Files \/ talk[id].at # "deleted"} \subseteq ToSet(saved[d].tabs)
    /\ PageUp => layouts = saved

(* app-store.ts loadTabContent: a session that is on the screen is loaded, or about to be. *)
ShownIsLoaded ==
  PageUp => \A t \in PanesOf(activeDesk) : talk[t].at # "deleted" => t \in loaded \cup viewsLoading

(* refreshSessions: when nothing is under way the list is that of the daemon. *)
ListFollows ==
  PageUp /\ work = NoWork /\ ~listAsked /\ listAnswers = <<>> => listed = InList

(* searchPalette: what the palette shows of the daemon is the answer to what is typed, from the
   workspace that is chosen, and it only waits for an answer that is under way. *)
PaletteTells ==
  palette.open =>
    /\ palette.for = palette.query /\ palette.query # NoQuery => palette.desk = activeDesk
    /\ palette.loading => \E s \in searches : s.seq = palette.seq /\ s.query = palette.query
    /\ ~palette.loading => palette.for = palette.query

WorkbenchSound == TabsSound /\ ShownIsLoaded /\ ListFollows /\ PaletteTells
=============================================================================
