----------------------------- MODULE MCServices -----------------------------
(***************************************************************************)
(* The smaller parts of the system, side by side.  A behaviour chooses one  *)
(* of them and the others stay as they start: they have no variable in      *)
(* common, so their interleavings would only multiply the states.           *)
(***************************************************************************)
EXTENDS Workspaces, Processes, Terminals, DiffWatch, Settings, SearchIndexer, HarnessFiles,
        Workbench, SessionView, Palette, Approvals, Connection, Cli, Installer

Init ==
  /\ part \in Parts
  /\ WorkspacesInit
  /\ ProcessesInit
  /\ TerminalsInit
  /\ DiffInit
  /\ SettingsInit
  /\ SearchInit
  /\ FilesInit
  /\ WorkbenchInit
  /\ SessionViewInit
  /\ PaletteInit
  /\ ApprovalsInit
  /\ ConnectionInit
  /\ CliInit
  /\ InstallerInit

serviceVars == <<workspacesVars, processesVars, terminalsVars, diffVars, settingsVars, searchVars,
                 filesVars>>
windowVars  == <<workbenchVars, sessionViewVars, paletteItemVars, approvalVars>>
callerVars  == <<connectionVars, cliVars, installerVars>>
vars        == <<part, serviceVars, windowVars, callerVars>>

Next ==
  /\ UNCHANGED part
  /\ \/ part = "workspaces" /\ WorkspacesNext
        /\ UNCHANGED <<processesVars, terminalsVars, diffVars, settingsVars, searchVars,
                     filesVars, windowVars, callerVars>>
     \/ part = "processes" /\ ProcessesNext
        /\ UNCHANGED <<workspacesVars, terminalsVars, diffVars, settingsVars, searchVars,
                     filesVars, windowVars, callerVars>>
     \/ part = "terminals" /\ TerminalsNext
        /\ UNCHANGED <<workspacesVars, processesVars, diffVars, settingsVars, searchVars,
                     filesVars, windowVars, callerVars>>
     \/ part = "diffs" /\ DiffNext
        /\ UNCHANGED <<workspacesVars, processesVars, terminalsVars, settingsVars, searchVars,
                     filesVars, windowVars, callerVars>>
     \/ part = "settings" /\ SettingsNext
        /\ UNCHANGED <<workspacesVars, processesVars, terminalsVars, diffVars, searchVars,
                     filesVars, windowVars, callerVars>>
     \/ part = "search" /\ SearchNext
        /\ UNCHANGED <<workspacesVars, processesVars, terminalsVars, diffVars, settingsVars,
                     filesVars, windowVars, callerVars>>
     \/ part = "harnesses" /\ FilesNext
        /\ UNCHANGED <<workspacesVars, processesVars, terminalsVars, diffVars, settingsVars,
                     searchVars, windowVars, callerVars>>
     \/ part = "workbench" /\ WorkbenchNext
        /\ UNCHANGED <<serviceVars, sessionViewVars, paletteItemVars, approvalVars, callerVars>>
     \/ part = "view" /\ SessionViewNext
        /\ UNCHANGED <<serviceVars, workbenchVars, paletteItemVars, approvalVars, callerVars>>
     \/ part = "palette" /\ PaletteNext
        /\ UNCHANGED <<serviceVars, workbenchVars, sessionViewVars, approvalVars, callerVars>>
     \/ part = "approvals" /\ ApprovalsNext
        /\ UNCHANGED <<serviceVars, workbenchVars, sessionViewVars, paletteItemVars, callerVars>>
     \/ part = "connection" /\ ConnectionNext
        /\ UNCHANGED <<serviceVars, windowVars, cliVars, installerVars>>
     \/ part = "cli" /\ CliNext
        /\ UNCHANGED <<serviceVars, windowVars, connectionVars, installerVars>>
     \/ part = "installer" /\ InstallerNext
        /\ UNCHANGED <<serviceVars, windowVars, connectionVars, cliVars>>

Spec == Init /\ [][Next]_vars

(* What holds of a part is asked while the part moves. *)
When(moving, P) == part = moving => P

(* The panes of a renderer (terminal views, the changes of the chosen workspace) are fed: what
   they show is what the daemon has, or what will make it so is under way. *)
PanesAreFed == When("terminals", TerminalsFed) /\ When("diffs", DiffsWatched)

(* The window is where the user has put it and tells him what there is: tabs, lists and palette of
   the workbench (tabs.ts, app-store.ts), the place of a conversation in its pane
   (Conversation.tsx), and what waits for an approval (PermissionCard.tsx, app-store.ts). *)
WindowSound ==
  When("workbench", WorkbenchSound) /\ When("view", PaneStays) /\ When("approvals", ApprovalsSound)

(* What is on the screen is what the sources say: a conversation is that of the events of its
   session, however often they came (timeline.ts), and the palette lists and chooses what the user
   has typed (items.ts, CommandPalette.tsx). *)
ScreenTells == When("view", ViewTells) /\ When("palette", ListRanks)

(* The daemon goes by its files, whoever wrote them and whenever it was down: the settings in force
   are those of settings.json (settings.ts), and the search index has what the timeline has
   (search/indexer.ts). *)
DaemonFollowsFiles == When("settings", SettingsInForce) /\ When("search", IndexFollowsTimeline)

(* A caller learns what has become of a call: over the renderer's connection (client.ts, server.ts)
   and from the exit of a command (session-commands.ts, commands.ts). *)
CallersAreTold == When("connection", ConnectionSound) /\ When("cli", CommandsTell)

(* What is installed can be run: the harnesses are configured (gateway/), the versions are whole
   (install.sh, versions-tool.mjs). *)
InstallationSound == When("harnesses", HarnessesConfigured) /\ When("installer", VersionsKept)
=============================================================================
