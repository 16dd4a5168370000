----------------------------- MODULE Workspaces -----------------------------
(***************************************************************************)
(* Projects, workspaces, their checkouts and the commands a project file   *)
(* declares (workspaces/registry.ts, registry-store.ts, labels.ts,          *)
(* worktree.ts, project-config.ts), as the handlers of server.ts call them. *)
(* A registry file is read at once and changed atomically (RegistryStore    *)
(* queues its writers); everything between two awaits of a request is one   *)
(* step, and requests of several connections interleave.  Clients file the  *)
(* requests: a setup is first asked for without trust, and with it once the *)
(* user agreed (app-store.ts, confirmAndRunSetup).                          *)
(*                                                                         *)
(* Races: "open" (two openings of one root at a time), "again" (the root is *)
(* added as one more directory), "prune" (unused labels are dropped between *)
(* the two writes of an assignment), "crash" (the daemon dies between a     *)
(* checkout and its record), "moved" (the project file changes between the  *)
(* consent and the run).                                                    *)
(***************************************************************************)
EXTENDS Naturals, FiniteSets, FiniteSetsExt, Services

CONSTANTS
  Connections,    \* clients of the daemon, one request of each at a time
  MaxProjects, MaxWorkspaces,  \* bounds: records ever made
  MaxVersions,    \* bound: contents of the project file on the base branch
  MaxRequests     \* bound: requests in a behaviour

ASSUME WorkspacesAssumption == {MaxProjects, MaxWorkspaces, MaxVersions, MaxRequests} \subseteq Nat

ProjectIds   == 1..MaxProjects
WorkspaceIds == 1..MaxWorkspaces
Branches     == 1..MaxWorkspaces
NoBranch     == 0

VARIABLES
  projectState,  \* projects.json: "none", "live", "archived"; they are of one root
  workspace,     \* workspaces.json
  catalogue,     \* labels.json: are there entries for the label assignments use?
  branches,      \* branches made for worktrees
  checkedOut,    \* managed checkouts: the branch in each
  request,       \* what each connection waits for
  requests,
  version,       \* content of the project file, as committed on the base branch
  trusted,       \* config-trust.json: contents trusted, by project
  agreed,        \* history: contents the user was looking at when agreeing
  executed       \* history: contents whose commands ran

workspacesVars == <<projectState, workspace, catalogue, branches, checkedOut, request, requests,
                    version, trusted, agreed, executed>>

NoRecord == [state |-> "none", project |-> 0, cwd |-> "none", branch |-> NoBranch,
             label |-> FALSE, setup |-> "none"]
Record(p, cwd, branch) ==
  [state |-> "live", project |-> p, cwd |-> cwd, branch |-> branch, label |-> FALSE,
   setup |-> IF cwd = "worktree" THEN "pending" ELSE "none"]

(* A request: where it is, whom it is about, what it has read, what it was asked to do. *)
NoRequest == [at |-> "none", project |-> 0, id |-> 0, read |-> 0, option |-> FALSE]

Projects(state)   == {p \in ProjectIds : projectState[p] = state}
Workspaces(state) == {w \in WorkspaceIds : workspace[w].state = state}
AnyProject   == Projects("live") \cup Projects("archived")
AnyWorkspace == Workspaces("live") \cup Workspaces("archived")

At(steps) == {c \in Connections : request[c].at \in steps}
Issued    == {request[c].id : c \in At({"add", "record"})}

WorkspacesInit ==
  /\ projectState = [p \in ProjectIds |-> "none"]
  /\ workspace = [w \in WorkspaceIds |-> NoRecord]
  /\ catalogue = FALSE
  /\ branches = {} /\ checkedOut = [w \in WorkspaceIds |-> NoBranch]
  /\ request = [c \in Connections |-> NoRequest] /\ requests = 0
  /\ version = 1 /\ trusted = {} /\ agreed = {} /\ executed = {}

registries    == <<projectState, workspace, catalogue>>
repo     == <<branches, checkedOut>>
commands == <<version, trusted, agreed, executed>>

Asks(c, r) ==
  /\ request[c] = NoRequest /\ requests < MaxRequests
  /\ requests' = requests + 1
  /\ request' = [request EXCEPT ![c] = r]

Goes(c, r) == request' = [request EXCEPT ![c] = r] /\ UNCHANGED requests
Ends(c)    == Goes(c, NoRequest)
Is(c, step) == request[c].at = step

Writes(w, r) == workspace' = [workspace EXCEPT ![w] = r]

(* newProjectId, newWorkspaceId: random, so never one in use or in use before. *)
NewProject   == Min(ProjectIds \ AnyProject)
NewWorkspace == Min(WorkspaceIds \ (AnyWorkspace \cup Issued \cup {w \in WorkspaceIds : checkedOut[w] # NoBranch}))
RoomForProject   == ProjectIds # AnyProject
RoomForWorkspace == \E w \in WorkspaceIds \ (AnyWorkspace \cup Issued) : checkedOut[w] = NoBranch

-----------------------------------------------------------------------------
(* Projects *)

(* openProject, from ProjectRegistry.open: an archived project does not come back. *)
OpenFind(c) ==
  /\ Allows("open") \/ At({"append", "list", "create"}) = {}
  /\ RoomForProject /\ RoomForWorkspace
  /\ Asks(c, [NoRequest EXCEPT
       !.at = IF Projects("live") = {} THEN "append" ELSE "list",
       !.project = IF Projects("live") = {} THEN 0 ELSE Min(Projects("live"))])
  /\ UNCHANGED <<registries, repo, commands>>

OpenAppend(c) ==
  /\ Is(c, "append") /\ RoomForProject
  /\ projectState' = [projectState EXCEPT ![NewProject] = "live"]
  /\ Goes(c, [NoRequest EXCEPT !.at = "list", !.project = NewProject])
  /\ UNCHANGED <<workspace, catalogue, repo, commands>>

DefaultsOf(p) == {w \in Workspaces("live") : workspace[w].project = p /\ workspace[w].cwd = "root"}

(* Mutant: a default workspace is made by every opening. *)
ListNothing(c) ==
  /\ Is(c, "list")
  /\ Goes(c, [request[c] EXCEPT !.at = "create"])
  /\ UNCHANGED <<registries, repo, commands>>

(* The default workspace is looked for, and made in a step of its own. *)
OpenList(c) ==
  /\ Is(c, "list")
  /\ IF DefaultsOf(request[c].project) # {} THEN Ends(c)
     ELSE Goes(c, [request[c] EXCEPT !.at = "create"])
  /\ UNCHANGED <<registries, repo, commands>>

OpenCreate(c) ==
  /\ Is(c, "create") /\ RoomForWorkspace
  /\ Writes(NewWorkspace, Record(request[c].project, "root", NoBranch))
  /\ Ends(c)
  /\ UNCHANGED <<projectState, catalogue, repo, commands>>

(* The workspaces of the project stay as they are. *)
ArchiveProject(c) ==
  /\ \E p \in AnyProject : projectState' = [projectState EXCEPT ![p] = "archived"]
  /\ Asks(c, NoRequest)
  /\ UNCHANGED <<workspace, catalogue, repo, commands>>

-----------------------------------------------------------------------------
(* Workspaces *)

(* No look at what is there: the same directory may be added twice. *)
AddDirectory(c) ==
  /\ RoomForWorkspace
  /\ \E p \in AnyProject, dir \in {"root", "other"} :
       /\ dir = "root" => Allows("again")
       /\ Writes(NewWorkspace, Record(p, dir, NoBranch))
  /\ Asks(c, NoRequest)
  /\ UNCHANGED <<projectState, catalogue, repo, commands>>

(* generateBranchName: the first name that no branch has, as of now. *)
FreshBranch == Min(Branches \ branches)

CreateWorktree(c) ==
  /\ RoomForWorkspace /\ Branches # branches
  /\ \E p \in AnyProject :
       Asks(c, [NoRequest EXCEPT !.at = "add", !.project = p, !.id = NewWorkspace,
                                 !.read = FreshBranch])
  /\ UNCHANGED <<registries, repo, commands>>

(* git worktree add -b: it refuses a branch that is there by now. *)
AddWorktree(c) ==
  /\ Is(c, "add")
  /\ LET r == request[c] IN
     IF r.read \in branches THEN Ends(c) /\ UNCHANGED repo
     ELSE /\ branches' = branches \cup {r.read}
          /\ checkedOut' = [checkedOut EXCEPT ![r.id] = r.read]
          /\ Goes(c, [r EXCEPT !.at = "record"])
  /\ UNCHANGED <<registries, commands>>

RecordWorktree(c) ==
  /\ Is(c, "record")
  /\ Writes(request[c].id, Record(request[c].project, "worktree", request[c].read))
  /\ Ends(c)
  /\ UNCHANGED <<projectState, catalogue, repo, commands>>

(* The record cannot be written: the checkout is taken back, its branch is not. *)
RecordFails(c) ==
  /\ Is(c, "record")
  /\ checkedOut' = [checkedOut EXCEPT ![request[c].id] = NoBranch]
  /\ Ends(c)
  /\ UNCHANGED <<registries, branches, commands>>

(* workspace.update with labels: the catalogue is written first... *)
SetLabels(c) ==
  /\ \E w \in AnyWorkspace : Asks(c, [NoRequest EXCEPT !.at = "label", !.id = w])
  /\ catalogue' = TRUE
  /\ UNCHANGED <<projectState, workspace, repo, commands>>

(* ... and the assignment then, which may fail; another update replaces all labels. *)
Update(c) ==
  /\ Is(c, "label")
  /\ \/ Writes(request[c].id, [workspace[request[c].id] EXCEPT !.label = TRUE])
     \/ UNCHANGED workspace
  /\ Ends(c)
  /\ UNCHANGED <<projectState, catalogue, repo, commands>>

ClearLabels(c) ==
  /\ \E w \in AnyWorkspace : Writes(w, [workspace[w] EXCEPT !.label = FALSE])
  /\ Asks(c, NoRequest)
  /\ UNCHANGED <<projectState, catalogue, repo, commands>>

(* pruneLabels: archived workspaces count as users of their labels. *)
PruneLabels(c) ==
  /\ Allows("prune") \/ At({"label"}) = {}
  /\ catalogue' = (catalogue /\ \E w \in AnyWorkspace : workspace[w].label)
  /\ Asks(c, NoRequest)
  /\ UNCHANGED <<projectState, workspace, repo, commands>>

-----------------------------------------------------------------------------
(* The commands of the project file *)

(* isTrusted: for this project and this content. *)
IsTrusted(p, content) == <<p, content>> \in trusted

Executes(p, content) ==
  executed' = IF IsTrusted(p, content) THEN executed \cup {<<p, content>>} ELSE executed

(* confirmAndRunSetup: the request carries no content and trusts the one it reads, so nothing
   must be committed between the consent and the request. *)
MayTrust(p) == \E content \in 1..version :
  <<p, content>> \in agreed /\ (content = version \/ Allows("moved"))

(* runWorkspaceSetup: the content is read... *)
LoadSetup(c) ==
  /\ \E w \in AnyWorkspace, trust \in BOOLEAN :
       /\ trust => MayTrust(workspace[w].project)
       /\ Asks(c, [NoRequest EXCEPT !.at = "setup", !.id = w, !.project = workspace[w].project,
                                    !.read = version, !.option = trust])
  /\ UNCHANGED <<registries, repo, commands>>

(* ... trusted if the request says so, and run if it is trusted. *)
GrantSetup(c) ==
  /\ Is(c, "setup")
  /\ trusted' = IF request[c].option THEN trusted \cup {<<request[c].project, request[c].read>>}
                ELSE trusted
  /\ Goes(c, [request[c] EXCEPT !.at = "run"])
  /\ UNCHANGED <<registries, repo, version, agreed, executed>>

RunSetup(c) ==
  /\ Is(c, "run")
  /\ LET r == request[c] IN
     /\ Executes(r.project, r.read)
     /\ \E outcome \in {"ok", "failed"} :
          Writes(r.id, [workspace[r.id] EXCEPT
                          !.setup = IF IsTrusted(r.project, r.read) THEN outcome ELSE "pending"])
  /\ Ends(c)
  /\ UNCHANGED <<projectState, catalogue, repo, version, trusted, agreed>>

(* resolveWorkspaceScript: the content, the trust in it, and a terminal that runs it. *)
RunScript(c) ==
  /\ \E w \in AnyWorkspace : Executes(workspace[w].project, version)
  /\ Asks(c, NoRequest)
  /\ UNCHANGED <<registries, repo, version, trusted, agreed>>

(* confirmAndRunSetup: the setup was found pending, and the user agrees. *)
Agree ==
  /\ \E w \in AnyWorkspace :
       /\ workspace[w].setup = "pending"
       /\ agreed' = agreed \cup {<<workspace[w].project, version>>}
  /\ UNCHANGED <<registries, repo, request, requests, version, trusted, executed>>

(* Someone commits to the base branch. *)
Commit ==
  /\ version < MaxVersions
  /\ version' = version + 1
  /\ UNCHANGED <<registries, repo, request, requests, trusted, agreed, executed>>

-----------------------------------------------------------------------------
(* Archiving *)

(* archiveWorkspace: also of a workspace that is archived.  The teardown comes first. *)
Archive(c) ==
  /\ \E w \in AnyWorkspace, remove \in BOOLEAN :
       Asks(c, [NoRequest EXCEPT !.at = "archive", !.id = w, !.project = workspace[w].project,
                                 !.read = version, !.option = remove])
  /\ UNCHANGED <<registries, repo, commands>>

(* runTeardown: nothing is run where the checkout is gone. *)
Teardown(c) ==
  /\ Is(c, "archive")
  /\ LET r == request[c]
         gone == workspace[r.id].cwd = "worktree" /\ checkedOut[r.id] = NoBranch
     IN IF gone THEN UNCHANGED executed ELSE Executes(r.project, r.read)
  /\ Goes(c, [request[c] EXCEPT !.at = "mark"])
  /\ UNCHANGED <<registries, repo, version, trusted, agreed>>

Mark(c) ==
  /\ Is(c, "mark")
  /\ Writes(request[c].id, [workspace[request[c].id] EXCEPT !.state = "archived"])
  /\ IF request[c].option THEN Goes(c, [request[c] EXCEPT !.at = "remove"]) ELSE Ends(c)
  /\ UNCHANGED <<projectState, catalogue, repo, commands>>

(* Only a checkout the daemon made is removed; for another the request fails, archived. *)
RemoveCheckout(c) ==
  /\ Is(c, "remove")
  /\ checkedOut' = IF workspace[request[c].id].cwd = "worktree"
                   THEN [checkedOut EXCEPT ![request[c].id] = NoBranch] ELSE checkedOut
  /\ Ends(c)
  /\ UNCHANGED <<registries, branches, commands>>

(* The daemon dies: what requests have read is gone, the files and the checkouts stay. *)
DaemonDies ==
  /\ Allows("crash") \/ At({"record"}) = {}
  /\ \E c \in Connections : request[c] # NoRequest
  /\ request' = [c \in Connections |-> NoRequest]
  /\ UNCHANGED <<registries, repo, requests, commands>>

WorkspacesNext ==
  \/ \E c \in Connections :
       \/ OpenFind(c) \/ OpenAppend(c) \/ OpenList(c) \/ OpenCreate(c) \/ ArchiveProject(c)
       \/ AddDirectory(c) \/ CreateWorktree(c) \/ AddWorktree(c) \/ RecordWorktree(c) \/ RecordFails(c)
       \/ SetLabels(c) \/ Update(c) \/ ClearLabels(c) \/ PruneLabels(c)
       \/ LoadSetup(c) \/ GrantSetup(c) \/ RunSetup(c) \/ RunScript(c)
       \/ Archive(c) \/ Teardown(c) \/ Mark(c) \/ RemoveCheckout(c)
  \/ Agree \/ Commit \/ DaemonDies

-----------------------------------------------------------------------------
(* registry.ts: a root has one live project and that project one default workspace,
   whoever opened it; workspaces belong to projects that exist, and their labels are
   in the catalogue at every moment, whichever of the two writes was the last. *)
RecordsSound ==
  /\ Cardinality(Projects("live")) <= 1
  /\ \A p \in ProjectIds : Cardinality(DefaultsOf(p)) <= 1
  /\ \A w \in AnyWorkspace : workspace[w].project \in AnyProject
  /\ (\E w \in AnyWorkspace : workspace[w].label) => catalogue

(* createWorktreeWorkspace, archiveWorkspace, runWorkspaceSetup: the daemon's checkouts are
   those of its records except while a request makes one, live worktree workspaces have
   theirs, each on a branch of its own, and of the commands of the project only those ran
   that the user agreed to. *)
CheckoutsSound ==
  /\ \A w \in WorkspaceIds :
       checkedOut[w] # NoBranch => w \in AnyWorkspace \cup {request[c].id : c \in At({"record"})}
  /\ \A w \in Workspaces("live") :
       workspace[w].cwd = "worktree" => checkedOut[w] = workspace[w].branch
  /\ \A v, w \in WorkspaceIds : v # w /\ checkedOut[v] = checkedOut[w] => checkedOut[v] = NoBranch
  /\ executed \subseteq agreed

(* What the registries, the checkouts and the commands of projects promise together. *)
WorkspacesSound == RecordsSound /\ CheckoutsSound
=============================================================================
