------------------------- MODULE MCServices_proofs --------------------------
(***************************************************************************)
(* Proofs about the smaller parts of the system, for every number of       *)
(* daemons, processes, projects, workspaces, connections and calls:        *)
(* without the races a theorem bars, processes are accounted for, the      *)
(* registries and checkouts fit together, the daemon follows its files,    *)
(* the panes are fed, the window is sound, callers are told, and what is   *)
(* installed can be run.                                                   *)
(***************************************************************************)
EXTENDS MCServices, DaemonParts_proofs, WindowParts_proofs

-----------------------------------------------------------------------------
(* Processes *)

(* A step of the system is one of a part, or none of it. *)
LEMMA ProcessesMoves ==
  ASSUME [Next]_vars
  PROVE  ProcessesNext \/ UNCHANGED processesVars
BY DEF Next, vars, serviceVars

(* processes.ts, token.ts, launcher.ts: the inductive invariant of the processes. *)
THEOREM ProcessesInvariant ==
  ASSUME Barred(ProcessRaces)
  PROVE  Spec => []ProcessesInv
<1>1. Init => ProcessesInv
  BY ProcessesAssumption
     DEF Init, ProcessesInit, ProcessesInv, ProcessTypes, Stages, Occupants, Free, OneDaemon, Running,
         ChildrenKnown, ChildrenKept, ReapedAll, InService, UsersApart, Mentioned, FilesNameIt, Child
<1>2. ProcessesInv /\ [Next]_vars => ProcessesInv'
  BY ProcessesStep, ProcessesMoves
<1> QED
  BY <1>1, <1>2, PTL DEF Spec

(* processes.ts, index.ts, launcher.ts: for any number of daemons and processes, in any order of
   starts, crashes and stops, no process is left that nobody knows of, nobody else's is killed, and
   the one daemon that is up can be found. *)
THEOREM ProcessesAreAccounted ==
  ASSUME Barred(ProcessRaces)
  PROVE  Spec => []ProcessesAccounted
<1>1. ProcessesInv => ProcessesAccounted
  <2> SUFFICES ASSUME ProcessesInv
               PROVE  ProcessesAccounted
    OBVIOUS
  <2> USE ProcessesAssumption DEF ProcessesInv
  <2>1. NoStrays
    <3> SUFFICES ASSUME NEW p \in Pids, process[p].of # NoDaemon, ~Running(process[p].of)
                 PROVE  daemon[process[p].of] = "crashed" /\ Entry(p, process[p].of) \in ledger
      BY DEF NoStrays
    <3>1. process[p].of \in Daemons
      BY DEF ProcessTypes, Occupants
    <3>2. daemon[process[p].of] = "crashed"
      BY DEF ChildrenKnown, Running
    <3> QED
      BY <3>1, <3>2 DEF ChildrenKept, Logged, ChildrenOf
  <2>2. Findable
    BY DEF Findable, FilesNameIt, InService
  <2>3. Cardinality({d \in Daemons : Running(d)}) <= 1
    <3>1. CASE \A d \in Daemons : ~Running(d)
      <4>1. {d \in Daemons : Running(d)} = {}
        BY <3>1
      <4> QED
        BY <4>1, FS_EmptySet
    <3>2. ASSUME NEW d \in Daemons, Running(d)
          PROVE  Cardinality({e \in Daemons : Running(e)}) <= 1
      <4>1. {e \in Daemons : Running(e)} = {d}
        BY <3>2 DEF OneDaemon
      <4> QED
        BY <4>1, FS_Singleton
    <3> QED
      BY <3>1, <3>2
  <2> QED
    BY <2>1, <2>2, <2>3 DEF ProcessesAccounted
<1> QED
  BY <1>1, ProcessesInvariant, PTL

-----------------------------------------------------------------------------
(* What the daemon has from its files *)

LEMMA FollowersMove ==
  ASSUME [Next]_vars
  PROVE  /\ SettingsNext \/ UNCHANGED settingsVars
         /\ SearchNext \/ UNCHANGED searchVars
<1>1. CASE UNCHANGED vars
  BY <1>1 DEF vars, serviceVars
<1>2. CASE Next
  BY <1>2 DEF Next, serviceVars
<1> QED
  BY <1>1, <1>2

(* settings.ts, gateway/service.ts, index.ts: the inductive invariant of the store of settings, of its
   writers and of what watches the file. *)
THEOREM SettingsInvariant ==
  ASSUME Barred(SettingsRaces)
  PROVE  Spec => []SettingsInv
<1>1. Init => SettingsInv
  BY DEF Init, SettingsInit, SettingsInv, Contents, Empty, Idle, LimitFollows, Resolve, WritesAlone,
         ReadingsAlone, Watched
<1>2. SettingsInv /\ [Next]_vars => SettingsInv'
  BY SettingsStep, FollowersMove
<1> QED
  BY <1>1, <1>2, PTL DEF Spec

(* search/indexer.ts, segments.ts, index-store.ts: the inductive invariant of the search index beside
   the timeline of a session. *)
THEOREM SearchInvariant ==
  ASSUME Barred(SearchRaces)
  PROVE  Spec => []SearchInv
<1>1. Init => SearchInv
  BY SearchStarts DEF Init
<1>2. SearchInv /\ [Next]_vars => SearchInv'
  BY SearchStep, FollowersMove
<1> QED
  BY <1>1, <1>2, PTL DEF Spec

(* settings.ts, gateway/service.ts, index.ts: when nothing is under way, the file holds what was last
   written of every key, the store holds the file and the limit follows it, for any values in the file
   and in the environment and any number of writes.  search/indexer.ts: for any number of events and of
   starts, when the catch-up is over and nothing waits, every segment of the timeline is in the index
   once, but for the one the accumulator holds. *)
THEOREM DaemonAlwaysFollowsFiles ==
  ASSUME Barred(SettingsRaces \cup SearchRaces)
  PROVE  Spec => []DaemonFollowsFiles
<1>1. Barred(SettingsRaces) /\ Barred(SearchRaces)
  BY DEF Barred
<1>2. SettingsInv => SettingsInForce
  BY DEF SettingsInv, SettingsInForce, Settled, LimitFollows, Watched
<1>3. SettingsInv /\ SearchInv => DaemonFollowsFiles
  BY <1>2, IndexIsComplete DEF DaemonFollowsFiles, When
<1> QED
  BY <1>1, <1>3, SettingsInvariant, SearchInvariant, PTL

-----------------------------------------------------------------------------
(* Workspaces *)

LEMMA WorkspacesMoves ==
  ASSUME [Next]_vars
  PROVE  WorkspacesNext \/ UNCHANGED workspacesVars
BY DEF Next, vars, serviceVars

(* registry.ts, labels.ts, worktree.ts, project-config.ts: the inductive invariant of the
   registries, the checkouts and the requests under way. *)
THEOREM WorkspacesInvariant ==
  ASSUME Barred(WorkspaceRaces)
  PROVE  Spec => []WorkspacesInv
<1>1. Init => WorkspacesInv
  <2> SUFFICES ASSUME Init
               PROVE  WorkspacesInv
    OBVIOUS
  <2>0. WorkspacesInit
    BY DEF Init
  <2>1. AnyProject = {} /\ AnyWorkspace = {} /\ Projects("live") = {} /\ Workspaces("live") = {}
    BY <2>0 DEF WorkspacesInit, AnyProject, AnyWorkspace, Projects, Workspaces, NoRecord
  <2>2. WorkspacesTypes
    BY <2>0, NothingHeld DEF WorkspacesInit, WorkspacesTypes, RecordStates, RecordsOf, NoRecord
  <2>3. RequestsHold /\ RequestsApart
    BY <2>0, NothingHeld DEF WorkspacesInit, RequestsHold, RequestsApart
  <2>4. RegistriesOk
    BY <2>0, <2>1 DEF WorkspacesInit, RegistriesOk, OneOfEach, RecordsJoined, CheckoutsHeld, OnlyAgreed,
                      DefaultsOf
  <2> QED
    BY <2>2, <2>3, <2>4 DEF WorkspacesInv
<1>2. WorkspacesInv /\ [Next]_vars => WorkspacesInv'
  BY WorkspacesStep, WorkspacesMoves
<1> QED
  BY <1>1, <1>2, PTL DEF Spec

LEMMA AtMostOne ==
  ASSUME NEW S, \A x, y \in S : x = y
  PROVE  Cardinality(S) <= 1
<1>1. CASE S = {}
  BY <1>1, FS_EmptySet
<1>2. ASSUME NEW x \in S
      PROVE  Cardinality(S) <= 1
  <2>1. S = {x}
    OBVIOUS
  <2> QED
    BY <2>1, FS_Singleton
<1> QED
  BY <1>1, <1>2

(* registry.ts, worktree.ts, project-config.ts: for any number of connections, projects and
   workspaces, a root has one project and one default workspace, labels are in the catalogue, the
   checkouts are those of the records, each on a branch of its own, and no command of a project
   runs that the user has not agreed to. *)
THEOREM WorkspacesAreSound ==
  ASSUME Barred(WorkspaceRaces)
  PROVE  Spec => []WorkspacesSound
<1>1. WorkspacesInv => WorkspacesSound
  <2> SUFFICES ASSUME WorkspacesInv
               PROVE  WorkspacesSound
    OBVIOUS
  <2> USE DEF WorkspacesInv, RegistriesOk
  <2>1. Cardinality(Projects("live")) <= 1 /\ \A p \in ProjectIds : Cardinality(DefaultsOf(p)) <= 1
    BY AtMostOne DEF OneOfEach
  <2>2. RecordsSound
    BY <2>1 DEF RecordsSound, RecordsJoined
  <2>3. CheckoutsSound
    BY DEF CheckoutsSound, CheckoutsHeld, OnlyAgreed, At
  <2> QED
    BY <2>2, <2>3 DEF WorkspacesSound
<1> QED
  BY <1>1, WorkspacesInvariant, PTL

-----------------------------------------------------------------------------
(* Callers *)

LEMMA CallersMove ==
  ASSUME [Next]_vars
  PROVE  /\ ConnectionNext \/ UNCHANGED connectionVars
         /\ CliNext \/ UNCHANGED cliVars
<1>1. CASE UNCHANGED vars
  BY <1>1 DEF vars, callerVars
<1>2. CASE Next
  BY <1>2 DEF Next, callerVars
<1> QED
  BY <1>1, <1>2

(* client.ts, server.ts, session-commands.ts, commands.ts: the inductive invariants of a connection
   and of a command over one. *)
THEOREM CallersInvariant ==
  ASSUME Barred(ConnectionRaces \cup CliRaces)
  PROVE  Spec => [](ConnectionInv /\ CliInv)
<1>1. Barred(ConnectionRaces) /\ Barred(CliRaces)
  BY DEF Barred
<1>2. Init => ConnectionInv /\ CliInv
  BY <1>1, ConnectionStarts, CliStarts DEF Init
<1>3. ConnectionInv /\ CliInv /\ [Next]_vars => (ConnectionInv /\ CliInv)'
  BY <1>1, CallersMove, ConnectionStep, CliStep
<1> QED
  BY <1>2, <1>3, PTL DEF Spec

(* client.ts, server.ts: for any number of calls, a call is settled once and carried out at most
   once, after a hello that both sides have agreed to.  session-commands.ts, commands.ts: for any
   number of turns and permissions, and whether the end of a turn or the answer to its prompt comes
   first, the exit code of a command tells what became of the turn, a turn that is waited for has
   its end on the way, and what a command has done is what it found it could do; one that failed has
   done nothing, save a stop that has given the daemon up. *)
THEOREM CallersTold ==
  ASSUME Barred(ConnectionRaces \cup CliRaces)
  PROVE  Spec => []CallersAreTold
<1>1. ConnectionInv /\ CliInv => CallersAreTold
  BY ConnectionIsSound, CliIsSound DEF CallersAreTold, When
<1> QED
  BY <1>1, CallersInvariant, PTL

-----------------------------------------------------------------------------
(* Panes *)

LEMMA PanesMove ==
  ASSUME [Next]_vars
  PROVE  /\ TerminalsNext \/ UNCHANGED terminalsVars
         /\ DiffNext \/ UNCHANGED diffVars
<1>1. CASE UNCHANGED vars
  BY <1>1 DEF vars, serviceVars
<1>2. CASE Next
  BY <1>2 DEF Next, serviceVars
<1> QED
  BY <1>1, <1>2

(* terminals.ts, server.ts, TerminalView.tsx, diffs.ts: the inductive
   invariants of the terminals and of the changes of a workspace. *)
THEOREM PanesInvariant ==
  ASSUME Barred({"remount"} \cup DiffRaces), Cardinality(Terms) <= Cardinality(Slots)
  PROVE  Spec => [](TerminalsInv /\ DiffInv)
<1>1. Barred({"remount"}) /\ Barred(DiffRaces)
  BY DEF Barred
<1>2. Init => TerminalsInv /\ DiffInv
  BY TerminalsStarts, DiffStarts DEF Init
<1>3. TerminalsInv /\ DiffInv /\ [Next]_vars => (TerminalsInv /\ DiffInv)'
  BY <1>1, PanesMove, TerminalsStep, DiffStep
<1> QED
  BY <1>2, <1>3, PTL DEF Spec

(* server.ts, TerminalView.tsx: for any number of terminals with a slot for each, a view that has its
   slot is fed without gap or repetition, whatever the order in which views are mounted, connections
   lost and output made, and nothing crosses to another terminal.  diffs.ts, app-store.ts: a
   workspace is watched exactly while somebody reads its changes, and a reader has the last change,
   or an answer or a notice on its way that brings it, whatever was read in between. *)
THEOREM PanesAlwaysFed ==
  ASSUME Barred({"remount"} \cup DiffRaces), Cardinality(Terms) <= Cardinality(Slots)
  PROVE  Spec => []PanesAreFed
<1>1. TerminalsInv /\ DiffInv => PanesAreFed
  BY TerminalsIsSound, DiffIsSound DEF PanesAreFed, When
<1> QED
  BY <1>1, PanesInvariant, PTL

-----------------------------------------------------------------------------
(* The installation *)

(* One part moves at a time, so these two move by their own steps. *)
LEMMA InstallationMoves ==
  ASSUME [Next]_vars
  PROVE  /\ FilesNext \/ UNCHANGED filesVars
         /\ InstallerNext \/ UNCHANGED installerVars
<1>1. CASE UNCHANGED vars
  BY <1>1 DEF vars, serviceVars, callerVars
<1>2. CASE Next
  BY <1>2 DEF Next, serviceVars, callerVars
<1> QED
  BY <1>1, <1>2

(* gateway/service.ts, the injections, install.sh, versions-tool.mjs: the inductive invariants of the
   homes of the harnesses and of the installed versions. *)
THEOREM InstallationInvariant ==
  ASSUME Barred(FilesRaces \cup InstallerRaces)
  PROVE  Spec => [](FilesInv /\ InstallerInv)
<1>1. Barred(FilesRaces) /\ Barred(InstallerRaces)
  BY DEF Barred
<1>2. Init => FilesInv /\ InstallerInv
  BY FilesStarts, InstallerStarts DEF Init
<1>3. FilesInv /\ InstallerInv /\ [Next]_vars => (FilesInv /\ InstallerInv)'
  BY <1>1, InstallationMoves, FilesStep, InstallerStep
<1> QED
  BY <1>2, <1>3, PTL DEF Spec

(* For any number of gateways, requests, keys, edits of the user, bundles and installers: no injection
   loses an entry of the user, a daemon that serves has the harnesses at the gateway of its settings,
   save where the user's hand has put another one or the settings were edited under it, and the
   tools registered where they are to be; and whatever is installed, broken off, pruned or rolled
   back, the version in use and the one that runs are whole, and who has left a version has one to
   go back to. *)
THEOREM InstallationAlwaysSound ==
  ASSUME Barred(FilesRaces \cup InstallerRaces)
  PROVE  Spec => []InstallationSound
<1>1. FilesInv /\ InstallerInv => InstallationSound
  BY FilesAreSound, InstallerIsSound DEF InstallationSound, When
<1> QED
  BY <1>1, InstallationInvariant, PTL

-----------------------------------------------------------------------------
(* The window *)

(* A part that does not move starts in one way, so what it starts with is only known of the one
   that does. *)
ScreenInv == When("workbench", WorkbenchInv) /\ PaneInv /\ ApprovalsInv

ScreenRaces == WorkbenchRaces \cup {"refocus", "swallowed"} \cup ApprovalRaces

LEMMA ScreenMoves ==
  ASSUME [Next]_vars
  PROVE  /\ WorkbenchNext \/ UNCHANGED workbenchVars
         /\ SessionViewNext \/ UNCHANGED sessionViewVars
         /\ ApprovalsNext \/ UNCHANGED approvalVars
         /\ part' = part
<1>1. CASE UNCHANGED vars
  BY <1>1 DEF vars, windowVars
<1>2. CASE Next
  BY <1>2 DEF Next, windowVars
<1> QED
  BY <1>1, <1>2

(* app-store.ts, tabs.ts, Conversation.tsx, PermissionCard.tsx: the inductive invariants of the
   workbench, of the pane of a conversation and of the approvals. *)
THEOREM ScreenInvariant ==
  ASSUME Barred(ScreenRaces)
  PROVE  Spec => []ScreenInv
<1>1. Barred(WorkbenchRaces) /\ Barred({"refocus", "swallowed"}) /\ Barred(ApprovalRaces)
  BY DEF Barred, ScreenRaces
<1>2. Init => ScreenInv
  BY WorkbenchStarts, SessionViewStarts, ApprovalsStarts DEF Init, ScreenInv, When
<1>3. ASSUME ScreenInv, [Next]_vars
      PROVE  ScreenInv'
  <2>1. When("workbench", WorkbenchInv)'
    BY <1>1, <1>3, ScreenMoves, WorkbenchStep DEF ScreenInv, When
  <2>2. PaneInv'
    BY <1>1, <1>3, ScreenMoves, SessionViewStep DEF ScreenInv
  <2>3. ApprovalsInv'
    BY <1>1, <1>3, ScreenMoves, ApprovalsStep DEF ScreenInv
  <2> QED
    BY <2>1, <2>2, <2>3 DEF ScreenInv
<1> QED
  BY <1>2, <1>3, PTL DEF Spec

(* For any number of workspaces, sessions and requests for approval: a tab is there once, at the
   workspace of its session, and stays over reloads until the user closes it or the session is
   deleted; what is on the screen is loaded or about to be; the list and the palette are the daemon's
   when nothing is under way; a pane stays where the user has put it; and a request has a card that
   can be answered, or an answer under way that its options allow, and the user is told of it. *)
THEOREM WindowAlwaysSound ==
  ASSUME Barred(ScreenRaces)
  PROVE  Spec => []WindowSound
<1>1. ScreenInv => WindowSound
  BY WorkbenchIsSound, PaneIsInPlace, ApprovalsAreSound DEF ScreenInv, WindowSound, When
<1> QED
  BY <1>1, ScreenInvariant, PTL
=============================================================================
