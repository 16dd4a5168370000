# Verification of custom-harness

custom-harness runs coding agents ("harnesses": pi, omp, grok) as child processes of a daemon and
shows their sessions in a desktop application. This directory holds TLA+ models of the parts of it
where order, failure and concurrency decide whether it works, TLC configurations that check the
models, and proofs for TLAPS.

## 1. The system

All code of the daemon is in `src/packages/daemon/src/` unless another path is given. The daemon is
one Node.js process: JavaScript between two `await`s is atomic, everything else interleaves.

| part | state | operations | talks to |
|---|---|---|---|
| session manager (`session-manager.ts`) | per session: meta, runtime, active turn, prompt queue, event hold, approvals, attention inputs, waiters, two promise chains (timeline appends, meta writes) | create, resume, prompt, interrupt, respondPermission, waitForTurn, close, delete, acknowledge, shutdown, init | adapters (calls and events), store, server (events) |
| attention (`attention.ts`) | none | resolveReason | called by the manager |
| store (`store.ts`) | `meta.json` (write then rename) and `timeline.jsonl` (append) per session | writeMeta, appendEvent, readTimeline, lastSeq, deleteSession | file system |
| JSONL-RPC core, pi, omp (`adapters/jsonl-rpc/`) | requests in flight, active turn, approvals, process | startTurn, interrupt, respondToPermission, close; frames from the process | process, manager (events) |
| ACP adapter, grok (`adapters/acp/`) | the same contract over the ACP SDK | the same | process, manager |
| process supervisor (`processes.ts`) | live processes, PID ledger file | spawn, terminate, reapStale | operating system |
| server (`server.ts`) | connections, hello done, terminal slots, diff watchers | dispatch, broadcast, attach, detach | clients, manager, terminals |
| terminals (`terminals.ts`) | ptys and scrollback | create, write, attach, close | server |
| reverse tools (`mcp/`) | approvals in progress, audit log | gate of a tool call, registration | harnesses (callers), manager (approvals, new sessions) |
| workspaces (`workspaces/`) | project and workspace records (JSON, one chain per file), worktrees | open, create, archive, diff | git, file system |
| settings (`settings.ts`) | values, file, watcher | load, set, reload | file system |
| gateway (`gateway/`) | key, harness configuration files | apply, inject | file system |
| search (`search/`) | index segments | index, remove, query | store |
| composition (`index.ts`, `main.ts`, `launcher.ts`) | `daemon.json`, signal handlers | start, stop, launch | all of the above |
| renderer (`src/packages/renderer/src/`) | connection and calls; lists, layouts of tabs, views of timelines, cards of approvals, palette; scrolling | rpc, reconnect, resynchronise; open and close tabs, answer, search | server |
| command line (`src/packages/cli/src/`) | one connection, the stream of `watch` | commands with an exit code | server, launcher |
| bundle (`src/bundle/`) | `versions/`, the link `current` | install, switch, prune, rollback, uninstall | file system, daemon |
| shell, protocol | - | window, schemas | server, launcher |

What is hard in it:

* **Windows inside one operation.** `startPrompt` sends a prompt, awaits the harness, registers the
  turn, awaits a file write and only then releases the events it put aside; `closeSession` awaits the
  end of the process and then a file write. Requests of clients, events of the harness and the exit of
  the process fall into each of these windows.
* **Derived state.** Status, attention and `meta.json` must follow turns and approvals on every path.
* **Failure.** Harnesses exit or stop answering; the daemon is killed and starts again with what is on
  disk; clients lose their connection and resynchronise.
* **Limits.** The queue of prompts, sessions per daemon, children per session, terminal slots.

What makes each part correct:

* session manager: one turn at a time, prompts in order, no session busy for good, a stop that stops,
  crashes that show, statuses that agree with runtimes, nothing sent during a shutdown, waiters released;
* store and timeline: meta on disk follows memory; sequence numbers without duplicates; a view that
  reconnects ends up with every event;
* adapters: the contract the manager is written against - turns one at a time, one end for each;
* process supervisor: no process without an owner after the next start, no kill of a foreign process;
* server and terminals: a slot names one terminal, watchers stop with their last subscriber, a call is
  answered once;
* reverse tools: no tool runs without approval, depth and fan-out limits hold when the tool runs;
* registries: one open project per root, no lost record; settings: no lost key, listeners told;
* search index: what the timelines have, once; gateway: every home names the configured gateway, and
  nothing of the user's is lost;
* renderer: what the window shows is what the daemon has; a user who is needed is told;
* command line: the exit code tells what has happened; installer: what `current` names can be run;
* launcher: one daemon per home directory.

`PROJECT.json` lists the parts with their status, and the hazards with their lines and the properties
that cover them.

## 2. Modules

| module | models | |
|---|---|---|
| `Attention` | `attention.ts`: the policy, a pure operator | |
| `SessionManager` | one session in `session-manager.ts`, its harness as the adapters show it, the clients, `meta.json`, `stop()` of `index.ts`, crash and restart of the daemon | extends `Attention` |
| `Timeline` | the events of one session from `emit` through `timeline.jsonl` and the server's broadcast to a client: the renderer's view, which reconnects and resynchronises, or the output of `session watch` | |
| `HarnessContract` | what `contract.ts` promises of an `AgentSession`: the abstract specification of the adapters | |
| `AdapterSession` | what the adapter families share: a session over a process, requests and answers on two FIFOs, continuations, approvals, replayed history | |
| `JsonlSession`, `AcpSession`, `MockSession` | the sessions of pi and omp, of grok, and of the mock | extend `AdapterSession` |
| `SessionPool` | several sessions: the map, its limit, create, resume, close, delete, titles, the approvals of the daemon | |
| `ReverseGate` | a call of a reverse tool from the harness through MCP server, gate, approval and RPC to the audit log and back | extends `SessionPool` |
| `Services` | what the following modules share: `part` and `Races` | |
| `Workspaces` | projects, workspaces, labels, worktrees, commands of the project file and their trust | extends `Services` |
| `Processes` | daemons, their pid and token files, children and the ledger, launchers | extends `Services` |
| `Terminals` | terminals, slots of a connection, the views of a renderer | extends `Services` |
| `DiffWatch` | counted watchers of a workspace, the subscription of each renderer | extends `Services` |
| `Settings` | `settings.json`, its watcher, its writers and who follows it | extends `Services` |
| `SearchIndexer` | the index of one session beside its timeline | extends `Services` |
| `HarnessFiles` | the gateway and the reverse tools in the homes of the harnesses | extends `Services` |
| `Workbench` | the list of sessions, tabs per workspace and their copy in the local storage, the palette's requests | extends `Services` |
| `SessionView` | the reducer of `timeline.ts` and the scrolling of a conversation | extends `Services` |
| `Palette` | the ranking of `palette/items.ts`, against a reference, and the selection | extends `Services` |
| `Approvals` | cards of approvals, the opt-in, notifications | extends `Services` |
| `Connection` | a client's connection: greeting, calls, dispatch, ping, reconnection | extends `Services` |
| `Cli` | a command of the command line over its connection | extends `Services` |
| `Installer` | installed versions: install, switch, prune, rollback, uninstall | extends `Services` |
| `MCSessionManager`, `MCTimeline`, `MCAdapters`, `MCReverseGate`, `MCServices` | the compositions that TLC checks | |
| `SessionManager_proofs`, `Timeline_proofs`, `HarnessContract_proofs`, `MCAdapters_proofs`, `ReverseGate_proofs` | theorems | extend their module and `TLAPS` |
| `DaemonParts_proofs` | the lemmas about processes, settings, workspaces, commands, the homes of the harnesses, the installed versions and the search index | extends the modules of these parts and `TLAPS` |
| `WindowParts_proofs` | the lemmas about diffs, terminals, approvals, workbench, the place of the pane and the connection | extends the modules of these parts and `TLAPS` |
| `MCServices_proofs` | the theorems about the smaller parts | extends `MCServices` and both of these |

How they fit together: `SessionManager` sees a harness only as `HarnessContract` says, and the adapters
are shown to implement that. `SessionPool` leaves the turns of a session to `SessionManager` and keeps
what several sessions share; `ReverseGate` composes it with the calls. `Timeline` is what becomes of the
events that `SessionManager` emits, `SessionView` what a window makes of the view that `Timeline`
delivers, `Approvals` what becomes of the requests among them. `Connection` is the wire under `Timeline`,
`Terminals`, `DiffWatch`, `Workbench` and `Cli`, each of which keeps of it what it depends on (order,
loss, answers that come late).

The smaller parts share no state, so `MCServices` lets one of them move in a behaviour (`part`, chosen in
`Init` from `Parts`) and the others stay as they start (`Starts`); a property of a part is asked while it
moves (`When`). One run then checks them all.

### State of `SessionManager` and the code

| variables | code |
|---|---|
| `mode` | the daemon is up, in `shutdown()` after `server.stop()`, or gone |
| `runtime`, `opening`, `closing` | `LiveSession.runtime` and how far create/resume and close/shutdown are; `runtime = "dead"` is a runtime whose process has exited |
| `meta`, `disk`, `metaQ` | `LiveSession.meta`, `meta.json`, and `metaChain`: the writes not made yet, each with the snapshot it writes and with what its caller does afterwards |
| `queue`, `draining`, `activeTurn` | `queuedPrompts`, `drainingQueue`, `activeTurnId` |
| `starts` | the calls of `startPrompt` that await `runtime.startTurn` |
| `holding`, `held`, `flush` | `eventHold`, and the events of a released hold still to be applied by the synchronous loop |
| `pending`, `outcome`, `ack`, `waiters` | `pending`, `lastTurnOutcome`, `attentionAcknowledged`, `turnWaiters` |
| `live`, `aborted`, `asked` | the harness: prompts it works on, turns it was told to abort, approvals it waits for |
| `submitted`, `stopMark`, `lastOpened`, `lastEnded`, `opens`, `restarts` | history, for bounds and properties |

Every action is the code between two awaits. An `await persistMeta` becomes an entry of `metaQ`; the
continuation is the action `Written...` that completes the entry (`WrittenRunning` is the end of
`startPrompt`, `WrittenIdle` calls `drainQueuedPrompts`, and so on). `await startTurn` becomes a member
of `starts`, resolved by `StartTurnOk` or `StartTurnFail`. While `flush` is not empty only `FlushOne`
is enabled, because the loop over the held events does not yield.

### State of `Timeline` and the code

| variables | code |
|---|---|
| `nextSeq`, `chain`, `written` | `LiveSession.nextSeq`, and the links of `LiveSession.chain` that have not run; `written` is the moment between `appendEvent` and the loop over the listeners |
| `file`, `tail` | the lines of `timeline.jsonl` that `readTimeline` can read, and what the file ends with |
| `requests` | `session.timeline` requests at the server: waiting for the chain, or read and not answered yet |
| `link`, `wire` | the connection of the client and the messages on it, in order |
| `view` | `SessionView` of the session (its `lastSeq` is the last number in it), or what `watch` has printed |
| `open`, `resyncing` | the session is in a visible pane; `resync()` awaits its lists |
| `buffering`, `buffered`, `since` | the same in `startStream`, and the argument of `backfill`, if there is one |
| `emitted`, `asked`, `restarts`, `links` | history, for bounds and for identity of events |

An append that is interrupted leaves nothing, a part of a line (`tail = "torn"`), or a whole line
without its newline (`"unended"`). The next append continues that line, which makes the new event
unreadable and, in the last case, the old one too (`Joined`). The numbers of events are their `seq`; `id`
tells two events apart that were given the same number. `races` and `client` are chosen once, in `Init`,
from the pairs in `Environments`, so that one run checks several environments.

### What the models abstract

* In `Timeline` the connection is one FIFO, which is what a WebSocket is; a request is at the server at
  once, because the server may work on it at any later time. Timers (ping, backoff) are `Disconnect` and
  `Connect` at any time. A new connection of `watch` is a new process, so its output starts empty.
* A prompt, its turn and its text are one number, in the order of submission. Titles, models, usage and
  deltas are left out: they touch no variable of the model. `generateTitle`, `setModel` and the backfill
  of workspaces call `persistMeta` too, with the same form.
* `live` is what the harness was sent and has neither refused nor finished.
* A harness that is resumed may wait for any approvals. Identifiers of approvals are not used again
  while something still speaks of their last use (`Fresh`).
* One close, one create or resume at a time; writes of `meta.json` succeed. Several sessions, a second
  resume at the same time, `deleteSession` and approvals made by the daemon are in `SessionPool`;
  failing writes of `meta.json` are in no module.

### Races of `SessionManager`

The code relies on its clients and its harness not to act at certain moments, and does not enforce it.
The constant `Races` says which of these moments the environment may use:

| name | what the environment may do |
|---|---|
| `overlap` | prompt while another prompt is being opened or prompts are queued |
| `stop` | interrupt while `startTurn` is in flight |
| `close` | close while a prompt or a process is being opened; prompt or resume while a close is in progress |
| `shutdown` | shut the daemon down while prompts are queued |
| `crash` | the harness exits while `startTurn` is in flight |
| `reject` | `startTurn` fails although the harness has begun the turn (a time-out) |

The properties come in two groups. Those that the manager guarantees alone are checked, and where
possible proved, with all races. The strong ones are checked without races, and each race was then
added alone to see which of them it costs:

| race | lost | kept |
|---|---|---|
| `overlap` | HoldKeepsOrder (both parts), StopReachesHarness, AcceptedInOrder, OneTurnAtATime | CrashSurfaces, StatusHasRuntime, NoStaleQueue, ShutdownStartsNothing, AttentionSurvivesShutdown (QueueDrains, CloseCompletes: not run to the end) |
| `stop` | StopReachesHarness | the rest |
| `close` | StatusHasRuntime, NoStaleQueue, AttentionSurvivesShutdown, QueueDrains | the rest |
| `shutdown` | StatusHasRuntime, ShutdownStartsNothing | the rest |
| `crash` | CrashSurfaces | the rest |
| `reject` | HoldKeepsOrder (EndAfterStart), StopReachesHarness, AcceptedInOrder, OneTurnAtATime | the rest |

For the safety properties and the action properties each line of this table is proved from the other
side (section 4): a property keeps for all values of the constants whatever races it is not said to lose.

Three of these losses contradict what the documents or comments promise and are kept as runs with their
counterexample (section 3).

### Races of `Timeline`

| name | what may happen | lost |
|---|---|---|
| `resync` | events are emitted while a renderer resynchronises | CaughtUp, Converges |
| `load` | events are emitted while `loadTimeline` is in progress | CaughtUp, Converges, ViewKeeps |
| `lostload` | a load fails because the connection is lost | CaughtUp, Converges |
| `torn` | an interrupted append leaves a part of its line | CaughtUp, Converges, ViewKeeps, SeenIsKept, StreamComplete |
| `fail` | an append fails and the daemon goes on | nothing |

`FileOrdered` holds with all of them, and `StreamComplete` with all but `torn`: the buffer of
`startStream` does what the view of the renderer lacks. Each strong property names the races it does
not survive (`Spared`), so that the environments it is silent about can be read off the module.

### Adapters

`AdapterSession` keeps what both families keep: the session object (`phase`, `activeTurnId`,
`permissions`, `suppressReplay`, the reassembler `chunks`), the transport (`pending`, `nextId`,
`settled`: answers that have arrived and whose continuation, a microtask, has not run), the process with
its pipes (`proc`, `sent`, `wire`), the harness in it (`running`, `asked`) and what the listeners have
seen (`turn`, `reported`, `ends`, `replayed`). `harness` is chosen in `Init`, so one run checks the four
adapters. A frame is routed synchronously, but the continuation of the request it answers runs after
the rest of the same chunk of output (`Quiet` keeps timers, callers and exits until then): an end of a
turn may come before the answer to the prompt that began it.

| race | what may happen | lost |
|---|---|---|
| `late` | a prompt times out although the harness will run it | pi, omp: KeepsContract, EndsNameTheirTurn; grok and the mock: nothing |
| `unread` | the exit of the process is seen before its last output | pi, omp: KeepsContract |
| `replay` | the first prompt comes while history is being replayed | omp, grok: ReplayIsDropped |

### Sessions and reverse tools

| variables | code |
|---|---|
| `listed`, `onDisk`, `deleted` | the map `sessions`, the directories with a `meta.json`, history |
| `status`, `parent`, `depth` | `meta.status`, the labels `ch.parentSessionId` and `ch.toolDepth` |
| `opening`, `runtime`, `orphans`, `handle` | `createSession`/`resumeSession` calls of adapters under way, `LiveSession.runtime`, processes no runtime names, `meta.handle` |
| `held`, `pending`, `cards` | the events on hold (approvals only), `LiveSession.pending`, what clients show |
| `titling`, `titled` | `ensureTitle` under way and done |
| `step`, `tool`, `from`, `made` | where a call is (in the queue of `mcp/main.ts`, at the gate, asking, running, reporting), what it asks for, whose it is, the session it made |
| `approval`, `consent`, `waiting` | what `requestApproval` resolved to, what the user said (history), `daemonPending` |
| `audit`, `told` | the entries of the log, and what the model was told |

| race | what may happen | lost |
|---|---|---|
| `overlap` | an opening starts while another is in flight | LimitsHold |
| `resume` | a resumption beyond the limits (`resumeSession` looks at none) | LimitsHold |
| `midspawn` | a close or delete while the process is being started | LimitsHold, DeletedStaysDeleted |
| `title` | a delete before the title arrives (`ensureTitle` writes the meta again) | DeletedStaysDeleted |
| `closing`, `refused` | a close while an approval waits; `startTurn` rejects while approvals are on hold | WaitingIsAnswerable |
| `reset` | a prompt while another is being opened in the same session: its hold replaces the first one's, and the approvals in it | WaitingIsAnswerable |
| `restored` | the harness that is resumed names its own approvals, which replace those of the daemon (`session-manager.ts:302`) | WaitingIsAnswerable |
| `deleted` | the caller is deleted while its call is on its way: the gate is left by an exception, past the audit | RunsAsApproved |
| `slow` | a call outlasts the 180 s of the MCP client while it runs | nothing: what the call creates is counted by then |
| `patience` | the user takes longer than the 30 s of the pi extension | LostNeverRuns (a finding) |

### The smaller parts

Each module's head lists its variables with the code they stand for, and its races. What the property
of a part says, and which race costs it:

| module (`part`) | its property says | races, and what they lose |
|---|---|---|
| `Workspaces` (`workspaces`) | one live project of a root and one default workspace; workspaces of projects that exist; labels in the catalogue; checkouts are those of records, on branches of their own; only commands ran that the user agreed to | `open`, `again`, `prune`: RecordsSound; `crash`, `moved`: CheckoutsSound |
| `Processes` (`processes`) | a child spawned through the supervisor is its daemon's or in the ledger; nobody else's process is killed; one daemon, findable when up | `two`, `stale`, `unlogged`, `reuse`, `latespawn`, `twice`: each loses ProcessesAccounted |
| `Terminals` (`terminals`) | a view with a slot is fed by its terminal, without gap, repetition or crossing, while there is a slot for every terminal | `remount` |
| `DiffWatch` (`diffs`) | counts are those of subscribers, one timer while there are any; a renderer that is subscribed shows the changes as they are, or will be told, or has an answer on its way that brings them | `close`, `quick`, `rechosen`, `restart`, `archived`, `overtaken`, `baseline`, `unseen` |
| `Settings` (`settings`) | at rest the daemon goes by the file, and the file holds the last value of every key | `load`, `reload`, `env`, `gateway`, `torn` |
| `SearchIndexer` (`search`) | every segment of the timeline is in the index once, over crashes and stops | `live`, `fail`, `ahead`, `opener` |
| `HarnessFiles` (`harnesses`) | homes and catalogue name the gateway, save where the user's hand has put another; registration follows exposure; nothing of the user is lost | `crash`, `overlap`, `cli`, `models`: HarnessesFollow; `rewrite`, `torn`, `broken`: UserEntriesKept |
| `Workbench` (`workbench`) | a tab is there once, at the workspace of its session, until it is closed or its session deleted, over reloads; what is shown is loaded; the list and the palette follow the daemon | `moved`, `across`, `elsewhere`, `cut`, `ghost`, `unloaded`, `early`, `behind` |
| `SessionView` (`view`) | items are a fold of the events, whatever comes twice; every piece is in its place; what is over does not run; the pane stays where the user has put it | `late`, `cutoff`: ScreenTells (ViewTells); `refocus`, `swallowed`: WindowSound (PaneStays) |
| `Palette` (`palette`) | against a reference: the list has what fits and nothing else, what has the query in one piece ahead, cut off at the limit and not before | none; what comments say of the order and of the selection does not hold: see below |
| `Approvals` (`approvals`) | what waits can be answered at the screen; the opt-in leaves nothing of the harness waiting that can be allowed once, and approves no reverse tool; the user has been told | `missed`, `stuck`, `optin`, `second` |
| `Connection` (`connection`) | a call is told something or its answer is under way; a greeting comes; nothing is carried out twice | `version`, `mismatch` |
| `Cli` (`cli`) | the exit code tells what became of the turn, whether its end comes before the answer to the prompt or after it; what failed has had no effect, save a stop that is given up, which says so; nothing busy is stopped without `--force` | `between`, `slow`, `lost` |
| `Installer` (`installer`) | what `current` names and what the daemon runs from are whole, and one who has come from another version has a whole one to go to | `torn`, `two`, `started`, `forced`, `busy`; that this one is the version left, and that a rollback leads to it, does not hold: see below |

Abstractions of these parts, beyond those named in their heads:

* `Workspaces`: projects are of one root, and one label stands for all; a branch is a number. Clients
  file a setup first without trust and again with it, as `confirmAndRunSetup` does.
* `Processes`: a pid is free, a program of the user, or a child; the system gives pids out again. Ptys and
  the setup commands of a workspace are spawned past the supervisor: they are in no ledger, in the code as in
  the model, so nothing is said of them.
* `DiffWatch`: renderers start as `bootstrap` leaves them, the subscription asked for. A diff is what the last
  change left, or older. An answer is stored as the code stores it,
  whatever workspace is active by then.
* `HarnessFiles`: a gateway is a number whose tens are the name it goes by (`providerName`, the ids of the
  models), so that two gateways may share an entry or have one each. Entries under a former name stay in the
  files with their old address, as in the code (the report at the boundary of the home lists them); the
  property is about the entries in force. A gateway that is edited in `settings.json` by hand waits for the
  next start, and what the start finds changed it leaves alone.
* `SessionView`: a scroll event of the pane may come at any later time, or not at all when nothing moved.
* `Installer`: `--force` of a rollback is always possible; that of an installation is the race `forced`.
* `Terminals`: output is counted in chunks; every change of the store mounts each view anew, because
  `App.tsx:75` makes a new transport object at each rendering.
* `Settings`: two keys, one with a listener and one written past the store; 0 is a key that is absent.
* `SearchIndexer`: a tool call is treated as a message of the user is.
* `Cli`: `prompt` is `prompt --wait`; `Timeline` has the stream event by event.
* `Connection`: a handler answers; what it does is in the module of its service. Timers are actions. A daemon
  older than the client does not know some methods.
* `Palette`: two letters are enough for "in one piece", "scattered" and "not in it" to differ.

### What the code does otherwise than its documents say

Met while modelling. Six such statements are runs of their own (section 3). Of the others some are
definitions of a module: TLC refutes them when they are put in the place of the properties of
`MC_services.cfg` (or of `MC_gate.cfg`), with the race named here, if there is one, in `Races`:

| statement | refuted with | a document says | the code |
|---|---|---|---|
| `ReadersSeeChanges` (`DiffWatch`) | `rechosen` | the changes of a workspace are shown and renewed (`fr8-workbench.md:36`) | choosing the workspace one is in empties them (`app-store.ts:571`), and `subscribeDiff` returns at 519: nobody reads them until a file is edited |
| the same | `restart` | subscriptions are made again after a reconnection (`fr8-workbench.md:38`, `app-store.ts:516`) | `resync` (350-363) neither subscribes nor reads, and `diffSubscription` keeps its value |
| `StaysPut` (`SessionView`) | `swallowed` | the flag is there so that the user's scroll is not undone (`Conversation.tsx:39-41`) | a scroll that moves nothing makes no event, the flag stays, and the user's next scroll is ignored (96-99) |
| `KeepsOrderOfHits` (`Palette`) | no race | hits stay in the order they came in (`items.ts:170-172`, `items.test.ts:131`) | they are sorted by score and then by label (190) |
| `SelectionResets` (`Palette`) | no race; `MaxText` 1, `MaxItems` 2 | the cursor goes back to the top when the list changes (`CommandPalette.tsx:39`) | when the query changes (40); an answer of a search leaves it on another item |
| `LeadsBack` (`Installer`) | no race | a rollback leads to the place one has just left (`versions-tool.mjs:242-243`, `packaging.md:112`) | to the directory that was changed last among those not in use (244-255) |
| `WayBackKept` (`Installer`) | no race | versions are kept because one rolls back to them (`versions-tool.mjs:287`, `install.sh:135`) | the newest are kept (306-313): the one the user came from may go |
| `UserEntriesKept` (`HarnessFiles`) | `broken` | other entries are kept, and the original saved (`pi-injection.ts:2-3`); a file that cannot be parsed is not written anew (`omp-injection.ts:118`) | such a file counts as none, and is written without a copy (`pi-injection.ts:61-63`, 73-83; the same for omp) |
| `WaitingIsAnswerable` (`ReverseGate`) | `closing` | a waiting call can be answered though its session is closed (`session-manager.ts:677-679`) | the close clears `pending` (371), the answer is refused as `not_found` (674), and only the time-out ends the call |

Others are visible in a definition:

* `resumeSession` does not look at `maxSessions`.
* `mcp/gate.ts:10` says every pass, refusal and failure is audited; a call whose caller is not in the map
  any more leaves by an exception.
* `docs/design/reverse-tool-catalog.md:137` lets `autoApprove` pass reverse tools; the store
  (`app-store.ts:1057`) and the roadmap (m7-orchestration) do not. `settings.autoApprove` is documented
  (`docs/USER_GUIDE.md:173`) and read by nobody.
* `workspaces/registry.ts:383` says the record is written first; the checkout is.
* `docs/design/workbench-tabs.md` (107) says a terminal view keeps its slot; see `Terminals`.
* `workbench-tabs.md` 1.3 drops closed sessions on restore; the code keeps those that are listed.
* `search/indexer.ts:65` says the catch-up rebuilds a session whose last segment was open, and line 98
  that it fills in what a failed write has left out; neither holds if a later segment was written
  (`opener`, `fail`).
* The command line's help makes `--json` a global flag; a flag before the command takes the next word.
* `uninstall.sh` leaves `bin/` behind, and goes on when `daemon stop` refuses.

## 3. Runs

| run | constants | shows |
|---|---|---|
| `session` (`MC_session.cfg`) | no races; 1 approval, queue of 2, 3 prompts, 2 opens, 1 restart, 3 writes | eleven strong properties, safety and liveness |
| `session_races` (`MC_session_races.cfg`) | all races; 1 approval, 1 waiter, queue of 1, 2 prompts, 2 opens, 1 restart, 3 writes | the five invariants that hold whatever the environment does |
| `session_overlap` | `overlap` | OneTurnAtATime is violated |
| `session_stop` | `stop` | StopReachesHarness is violated |
| `session_crash` | `crash` | CrashSurfaces is violated |
| `timeline` (`MC_timeline.cfg`) | renderer with `fail`, `resync`, `load`, `lostload`; stream with `fail`, `torn`; 3 events, 2 requests, 2 restarts, 2 connections | the file, the view and the output of `watch`: seven properties, safety and liveness |
| `timeline_resync` | renderer with `resync` | Complete is violated |
| `timeline_torn` | renderer with `torn` | SeenIsKept is violated |
| `adapters` (`MC_adapters.cfg`) | no races; the four adapters, 1 approval, 2 turns, 6 requests, 2 frames on the wire | each adapter implements `HarnessContract`; ends name their turn, replayed history is dropped, approvals stay answerable, turns end |
| `gate` (`MC_gate.cfg`) | no races; 3 sessions, 2 at a time, 2 calls, depth and fan-out 1, 2 moves of sessions, the pi extension | consent and audit, limits, approvals answerable, deletion, every call answered |
| `gate_pi` | `patience` | LostNeverRuns is violated |
| `services` (`MC_services.cfg`) | no races; bounds below | the fourteen smaller parts: eight invariants |

Bounds. Three prompts are one that runs, one that is queued and one that is queued behind it, which is
what FIFO order, draining and a stop need; two opens are a create and a resume, so that what survives a
close is seen after it; one restart shows what a start reads. `MaxWrites` is the number of waiting
writes below which clients and the harness act: the daemon's own steps are never cut off by it, and
three is more than the continuations of any one operation. The invariants proved in section 4 hold for
all values.

`adapters`: two turns are one that is over and one that begins; two frames on the wire let an end come
with the answer before it, in one chunk; `MaxRequests` and `MaxWire` stop callers and the harness, never
the adapter. `gate`: three sessions are a caller, its child and one more that the limit of two refuses;
fan-out and depth of one are reached; two calls are one that waits in the queue of the other or of
another session; `MaxMoves` and `Touched` bound what the user does to sessions, and the user creates
sessions before the first call. In `MCReverseGate` a call that was granted or is being reported goes on
before anything else (`Quiet`): the first is the same turn of the event loop, the second touches only the
log.

`services`: two of everything that can be in the way of one another (connections, daemons, pids,
terminals and slots, renderers, workspaces, gateways and setters, tabs, requests, calls, turns,
installers) and a third where something must be left over (five events of a session for a segment that
is closed and one that is open, three bundles for what is pruned while two are kept, three starts of the
indexer for a crash and what follows it, three candidates for a list of two, so that there is an order, a
selection to move and something cut off). Of the three gateways two have one name and differ in their
address, and the third has another name. The two methods of a connection are one that an older daemon does
not know, and the one that stops the daemon; the turns of a view
end completed or failed, a canceled one being drawn as a failed one is. A search leads to the third of six
events, which has items before it and after it. Each renderer starts with a workspace or with none, as
`bootstrap` leaves it, so one choice, reload or archival is enough to move from one workspace to another
while the other renderer watches either; two diffs under way are two answers of one renderer out of order or
one for each. The other bounds count what users, the network and editors do; what the daemon, the renderer
and the command do is never cut off, save that no diff is asked for while two are under way.

For the timeline, three events are one that is in the view, one that is missed and one that comes while
the missed one is asked for; two connections are one that is lost and one that resynchronises; two
restarts are what it takes for a number to be given out after a torn line was continued; two requests
let a load and another load or a backfill be under way together (`MaxRequests` does not stop a
resynchronisation).

`CHECK_DEADLOCK FALSE`: a behaviour ends when the daemon is down and has used its restarts.

Fairness. The event loop runs what is ready and file writes complete (`WriteCompletes`, `FlushOne`); a
request to the harness is answered or times out after 30 s (`transport.ts`; `StartTurnResolves`,
`SpawnResolves`); `close()` kills a process that does not leave in its grace period (`Terminated`);
`shutdown` awaits the interrupt for at most that time-out (`ShutdownClose`). In `Timeline`, appends
are done or fail, the chain goes on, requests are answered, messages arrive, and the two lists that
`resync` awaits arrive (`SyncTimelineGap`) unless the connection is lost. Nothing is assumed of
clients, nor that a harness ever ends a turn, that a daemon is started again or that a client reconnects.

In `MCAdapters`, timers fire, output is read and continuations run (weak fairness). That a turn settles
needs more, and says so: the harness takes its input and ends its turns, and approvals are answered
(strong fairness, because a full wire may stop the harness for a while). In `MCReverseGate` fairness is
on what the daemon and the server of the harness do for a call without the user - forward, judge,
expire, run, report - and on the end of a spawn; the user need not answer, since a request expires after
120 s. The invariants of `services` are safety: they are stated so that a thing that is owed is under
way (an answer on the wire, a timer that runs), which is what fairness would then deliver.

Findings, each with its run in `PROJECT.json`:

* A harness that exits while a prompt is being opened leaves its session `idle` for good
  (`session_crash`; FR-1.1.3 asks for the error status).
* A stop in the same window returns at once and stops nothing (`session_stop`; FR-1.6).
* Two prompts sent before the first became a turn both reach the harness (`session_overlap`;
  daemon-design 4 allows one active turn).
* After a reconnect, an event that arrives before the answer of the resynchronisation makes the view
  drop all the events it had missed (`timeline_resync`; protocol-design 5).
* After a torn line one further event is lost, one that clients have been shown (`timeline_torn`;
  daemon-design 2 and a comment in `store.ts` promise the loss of the torn line only).
* The pi extension gives up on a call after 30 s while the user has 120: a tool may run for a model that
  was told of a failure (`gate_pi`; a comment in `mcp/main.ts` orders the two the other way round).

## 4. Proofs

The proof modules prove, for all values of the constants. "Unless" names the races a theorem excludes;
where there is none it holds for every set of races.

| theorem | says |
|---|---|
| `SessionManager_proofs` | |
| `TypeCorrect` | `Spec => []TypeOK` |
| `RunInvariant` | `Spec => []RunInv`, the inductive invariant of the next two |
| `WaitersAlwaysReleased` | `[]WaitersReleased` |
| `StatusAgreesWithTurn` | `[]RunningIffActive` |
| `MetaReachesDisk` | `[]DiskCurrent` |
| `WindowInvariant` | `[]WindowInv`, what a hold, a spawn, a close and a waiting write stand for |
| `AttentionAlwaysCurrent` | `[]AttentionCurrent` |
| `ExitSurfaces` | `[]CrashSurfaces`, unless `crash` |
| `QueueDiesWithRuntime` | `[]NoStaleQueue`, unless `close` |
| `StatusNeverClaimsMore` | `[]StatusHasRuntime`, unless `close` or `shutdown` |
| `HarnessInvariant` | `[](OneStart /\ HarnessInv)`, unless `overlap` or `reject`: the invariant behind the next four |
| `NeverTwoTurns` | `[]OneTurnAtATime`, unless `overlap` or `reject` |
| `HoldIsInOrder` | `[]HoldKeepsOrder`, unless `overlap` or `reject` |
| `OpensAsAccepted` | `AcceptedInOrder`, an action property, unless `overlap` or `reject` |
| `StopIsFinal` | `[]StopReachesHarness`, unless `overlap`, `reject` or `stop` |
| `ShutdownIsQuiet` | `ShutdownStartsNothing`, an action property, unless `shutdown` |
| `ShutdownKeepsAttention` | `AttentionSurvivesShutdown`, an action property, unless `close` |
| `Timeline_proofs` | |
| `LogInvariant` | `[]DaemonInv`, the inductive invariant of the log |
| `FileAlwaysOrdered` | `[]FileOrdered` |
| `TimelineTypes` | `[]TypeOK` |
| `ViewsInvariant` | `[]ViewsInv`, the inductive invariant of log, requests, wire and reader |
| `ShownCanBeReadAgain` | `[]SeenIsKeptIntact` |
| `PanesCatchUp` | `[]CaughtUp` |
| `StreamsLeaveNothingOut` | `[]StreamComplete` |
| `ViewsGrow` | `ViewKeeps`, an action property |
| `HarnessContract_proofs` | |
| `ContractHolds` | `[]ContractInv`, the inductive invariant of the contract |
| `NeverTwoOpenTurns` | `[]OneOpenTurn` |
| `OneEndPerTurn` | `SettledForGood`, an action property |
| `MCAdapters_proofs` | |
| `GrokAndMockKeepContract` | `KeepsContract`, if every session is one of grok or the mock |
| `EveryAdapterKeepsContract` | `KeepsContract`, unless `late` or `unread` |
| `SessionsShowWhatHappens` | `[]ShowsWhatHappens`, unless `late`, `unread` or `replay` |
| `ApprovalsStayReachable` | `[]ApprovalsReachable` |
| `ReverseGate_proofs` | |
| `GateTypeCorrect` | `[]GateTypeOK` |
| `ConsentAndAudit` | `[]RunsAsApproved`, unless `deleted` |
| `DeletionIsFinal` | `[]DeletedStaysDeleted`, unless `title` or `midspawn` |
| `LimitsInvariant` | `[]LimitsInv`, the inductive invariant of the next |
| `LimitsAlwaysHold` | `[]LimitsHold`, unless `overlap`, `resume` or `midspawn` |
| `LostCallsNeverRun` | `LostNeverRuns`, an action property, unless `patience` with the pi extension |
| `ApprovalsCanBeAnswered` | `[]WaitingIsAnswerable`, unless `closing`, `refused`, `reset` or `restored` |
| `MCServices_proofs` | each unless one of the races that section 2 lists for the part |
| `ProcessesInvariant` | `[]ProcessesInv`, the inductive invariant of the next |
| `ProcessesAreAccounted` | `[]ProcessesAccounted` |
| `SettingsInvariant` | `[]SettingsInv`, for `DaemonAlwaysFollowsFiles` |
| `SearchInvariant` | `[]SearchInv`, for the next |
| `DaemonAlwaysFollowsFiles` | `[]DaemonFollowsFiles` |
| `WorkspacesInvariant` | `[]WorkspacesInv`, the inductive invariant of the next |
| `WorkspacesAreSound` | `[]WorkspacesSound` |
| `CallersInvariant` | `[](ConnectionInv /\ CliInv)`, the inductive invariants of the next |
| `CallersTold` | `[]CallersAreTold` |
| `PanesInvariant` | `[](TerminalsInv /\ DiffInv)`, the inductive invariants of the next, if there is a slot for every terminal |
| `PanesAlwaysFed` | `[]PanesAreFed`, if there is a slot for every terminal |
| `InstallationInvariant` | `[](FilesInv /\ InstallerInv)`, the inductive invariants of the next |
| `InstallationAlwaysSound` | `[]InstallationSound` |
| `ScreenInvariant` | `[]ScreenInv`, the inductive invariants of the workbench (`WorkbenchInv`), the pane (`PaneInv`) and the approvals (`ApprovalsInv`), for the next |
| `WindowAlwaysSound` | `[]WindowSound` |

The assumptions are those of the modules: a positive queue limit, natural bounds, `Races` a subset of the
six names; for `Timeline` natural bounds and `Environments` of the five races; for the gate natural limits
and numbers of calls, and that only sessions of the model are disturbed (`TouchedAssumption`); for the
contract that turns are numbers, in their order; for the smaller parts natural bounds, numbers for limits,
gateways, requests to configure and slots (the numbers that stand for no gateway, for what the user has
changed and for the start are none of them), finitely many terminals, slots, renderers, requests and
bundles, at least one version kept, gateways that are numbers from ten on, so that each
has a name, `NoDaemon` none of the daemons, `NoPlace` and `NoDesk` none of the
workspaces, `NoTab` and `Files` (the view of the files) none of the sessions, and that the methods an older daemon does
not know are among the methods (`ConnectionAssumption`). The properties of a timeline name the races they
do not survive themselves (`Spared`).

### Sessions

`WaitersReleased` and `RunningIffActive` are not inductive: create and resume set a status without
looking at the active turn. `RunInv` adds `Shape`: no active turn without a runtime, no runtime while one
is being started, none before the session exists, and nothing in progress in a daemon that is down. Most
steps then fall under one lemma: they end the turn, release the waiters and leave `running`, or they
leave all three alone (`Effect`). `DiskCurrent` compares memory with the last write on the chain; it is
inductive relative to `TypeOK` and `RunInv`, by two lemmas about the chain (appending a write makes it
the last, completing the first does not change the last).

The further theorems need to know what the windows of an operation stand for. `WindowInv` says it, for
every race: what is on hold belongs to a prompt that is being sent or to a turn whose write waits, and the
loop over the events of a hold is over before the next hold begins (`HoldInv`); a process that comes up
finds nothing left of the runtime before it (`SpawnInv`); what a close and a spawn await is what its
`closing` and `opening` say (`CloseInv`). On top of it:

* `AttentionInv`: the attention in the meta is the verdict of the policy, or the continuation that
  refreshes it waits on the chain of writes. No race costs it: each of the steps that change an input
  of the policy either refreshes at once or has put its refresh on the chain.
* `CrashInv`: after the exit of a process no end of a turn comes behind the error that it leaves on hold.
* `QueueInv`, `WindDownInv`: from the first step of a close on, the queue is empty and nothing is on hold
  that could end or open a turn.
* `OneStart` and `HarnessInv`: one prompt at most is being opened, and what the harness works on is the
  active turn or that prompt; a turn that it has finished has its end among the events still to be
  applied. Two turns would be two prompts sent, of which the first was answered as refused (`reject`) or
  not awaited (`overlap`). With `OrderInv`, which puts the queue behind the prompt that is being opened
  and that one behind the active turn, the end of a turn is applied after its start and prompts open in
  the order of submission.
* `StopInv`: what the harness works on and was submitted before the stop has been told to abort, and what
  is queued was submitted after it.
* `StoppedQueue`, `AnswersInv`: during a shutdown nothing is queued, and no answer to an approval is on
  its way that could take a reason for attention away.

### Timelines

`FileOrdered` says that the readable lines have strictly increasing numbers. It is not inductive:
an event has its number before it is in the file, and a restart takes the next number from the file.
`LogInv` adds that the chain is in order and continues the file (except for its first event when that is
written and not yet broadcast), and that the next number is above both while the daemon runs. A done,
failed or interrupted append then changes the file at most by the head of the chain (`FileStep`), which
is above everything in it; a crash empties the chain; a restart takes a number above the last event
(`RestartInv`), which is above all others because the file is in order.

What clients see is proved from `ViewsInv`. Its first part holds in every environment, each of the others
under the races that the property behind it names:

* `LinkInv`: what is on the wire, what the server has read for a request and what the client awaits belong
  together; a lost connection leaves nothing of them behind.
* `KeptInv`, for `SeenIsKeptIntact`: every event in an answer, on the wire, held back or shown is in the
  file. An event is broadcast after its append, and without torn lines the file only grows.
* `LoadInv`, for `ViewKeeps`: the answer to a load is the whole file, because nothing is emitted until it
  has come.
* `PaneInv`, for `CaughtUp`: the view and what is on the wire are together the file without a hole, or a
  gap is known (`GapsAsked`, `GapsAnswered`), or a load or a resynchronisation is under way that will
  bring the rest (`Unloaded`).
* `StreamInv`, for `StreamComplete`: the output, what is buffered and what is on the wire are one section
  of the timeline, of which the answer of the backfill has the part before the buffer, which is asked for
  once.

`From` (the events after a number) and `ApplyAll` (the reducer over an answer) are recursive functions.
Their proofs are by induction over numbers, without an operator as a parameter: `Induction` takes the set
of the numbers a fact holds for (any others would have a least one among them, by the library's fact that
`<` is well-founded), `Recursion` shows with it that such a function exists. So what these two compute is
proved for every timeline.

### Adapters

The contract of the adapters: a turn may begin only if those before it are over, which by itself does not
keep a later one from having begun. `OverBefore` says that a turn that has begun leaves only turns that
are over behind it; then two open turns would be on both sides of each other. `adapters` checks that every
adapter implements the contract, so what is proved of the contract holds of them.

For grok and the mock that is proved, for any bounds, approvals and races, and whatever the harness does
(`GrokAndMockKeepContract`): every step is a step of the contract or none. It needs `AdapterInv`: a prompt
that waits for its answer, or whose continuation waits to run, is for a turn that is open
(`PromptIsOpen`), and there is no second one (`OnePrompt`), so that its answer, its rejection by the end
of the process and the close of the session end a turn that is open, and once; and in the mock the
scenario that runs is that of the active turn, which is open (`MockActive`). A turn begins only when no
turn is open, hence no prompt waits.

For pi and omp the end of a turn is a frame that does not name the turn, so the invariant (`JsonlInv`) is
about what is in the pipes. A session that is being opened makes one request at a time
(`OpensInOrder`); all turns but the last are over (`TurnsInOrder`); `startTurn` waits for one prompt, that
of the last turn (`CallWaits`), and an answer is for one request (`IdsAreOnce`). `Flow` follows the prompt
from the session to the harness and back: while it is not taken the harness rests and no end of a turn is
on the wire (`PromptsUntaken`); what it runs, or the one end that is on the wire, is the last turn, and that
turn is open (`RunsTheTurn`, `EndsTheTurn`); it accepts a prompt before it ends the turn, and rests before
it takes one and after it has refused one (`AnswersFirst`, `RestsBefore`, `RestsRefused`). The two races
excluded are those that break it: after `late` the harness runs a turn that the session has given up,
and ends it in the next one; after `unread` a turn that was ended by the exit is ended again by its
frame. With `AdapterInv` for the other two adapters this is `ContractInv`, and `EveryAdapterKeepsContract`
is the refinement for the four of them.

`SessionsShowWhatHappens` follows from it for the ends: the frame that is read is that of the last turn,
which is the one `agent_end` is taken for. For what is replayed at a resumption, omp and grok differ
(`ReplayInv`): omp drops it until its first turn, so it is enough that a replay is on the wire only before
that (`OmpReplay`); grok replays before it answers `session/load`, whose answer opens the session, so a
replay is ahead of that answer on the wire (`GrokInv`).

`ApprovalsStayReachable` needs nothing of timers or of the order in which output and exit are seen. Its
invariant (`AskedInv`) is stronger than the property in two ways: it is about every phase, since an approval
may be asked for before the answer that opens the session has been read, and a harness that runs no
prompt waits for no approval (`AsksInItsTurn`), so that the end of a turn leaves none behind.

### The gate

`Parts` splits a step into what it does to the pool and what it does to the calls, so most of
the theorems look at one of the two. `RunsAsApproved` needs to know how a call stands before it is over
(`Accounted`): before its approval is settled nothing is known of the user and nothing ran; what is
granted, if it is not read-only, was consented to; what is running has been counted as run; what is not
over has no entry yet. The race `deleted` is excluded by name, because with it the gate is left past the
audit. `DeletedStaysDeleted` needs that nothing is left of a deleted session that could write its meta
(`Gone`): no title and no process awaited, no runtime. Every other step concerns a session that is listed,
being opened, awaiting a title, or never used. The two races excluded are the two windows in which the
code deletes a session with something left of it.

`LimitsHold` is about both halves, because the gate looks at the tree, then asks the user, and the
session is created after the answer. `LimitsInv` has three parts. `PoolLimits`: sessions that are
being opened count (`Busy`), a session with a process or one on the way is in the map and not closed, and
what is on disk or awaits a title without being in the map is closed (`Orderly`), so that neither a restart
nor a late title adds a child. `QueueInv`, for every race: calls of a session come to the gate one at a
time (`OneAtTheGate`), since a line is forwarded when the one before it is over, or runs and is waited
for no more; that is why the race `slow` costs nothing. `JudgedInv`: a call that waits for the user, or was
granted, still has the room it was judged by (`TreeRoom`). The only steps that take room below its caller
are a creation by that caller, of which there is no other at the gate, and a resumption of a child, which
the race `resume` stands for; and a call is granted when nothing is being opened, and runs before anything
else is opened. `LostNeverRuns` falls out of `QueueInv`: before its tool has run a call is given up by the
pi extension alone (`Awaited`), so the finding of `gate_pi` is the only way.

`WaitingIsAnswerable` needs that a resolved request on hold is that of a call that has gone on
(`HoldKeeps`): otherwise the release of the hold could take a request away that is still open. Its four races
are the four ways in which the code takes a request out of `pending` or out of the hold without settling it:
`pending.clear()`, the catch of `startPrompt`, a second hold over the first, and the map that a resumed
runtime brings.

### The smaller parts

Their theorems are about `MCServices`, where one part moves and the others rest; each invariant is kept by
the steps of its part and by every step that leaves its variables alone (`ProcessesMoves`, `CallersMove`
and the like). They exclude the races of the part by name (`Barred`).

* `ProcessesInv`, for `ProcessesAccounted`. A child that outlives its daemon must be found in the ledger by
  the next one, but the ledger is written behind the spawn, over a chain. So the invariant follows a child
  from where it is: what a daemon holds live are its children, and what a crashed one has left is in the
  ledger (`ChildrenKept`); one that has reaped is alone, with its own processes and its own entries
  (`ReapedAll`); a pid that the ledger or an operation on the chain mentions is no program of the user
  (`UsersApart`), which is what makes the signals of a reaping safe.
* `SettingsInv`, for the settings in force. A write goes on from what it has read, so it must be alone with the
  file from its reading to its end (`WritesAlone`); a reading of the watcher that is under way is of the
  file as it is, or a notice is pending that brings another (`ReadingsAlone`, `Watched`); the limit follows
  the store at every step, not only at rest (`LimitFollows`).
* `SearchInv`, for the search index. While the daemon listens, the segments of the first *h* events (all of
  them, but for a stop under way) are in the rows, in the queue or in the accumulator, and each in one of them
  only (`Heard`); tasks of the queue are later than `indexed` and in their order (`TaskFits`), so that `indexed`
  never passes a segment that is still queued. While nobody listens, the rows are complete or `indexed` is behind
  the file (`AtRest`): then the next catch-up makes them anew. What `segmentTimeline` computes is a recursion over
  the events. A recursive function is only known to the provers when it is known to have a result; `Induction`
  and `Recursion` derive that from the well-foundedness of `<` on `Nat`, and `SegmentsFound` then says of every
  sequence of events that the accumulator gives its segments (`Searchable`), each once.
* `WorkspacesInv`, for `WorkspacesSound`. The registries are read before an `await` and written after it.
  What a request has read is still true while it waits (`Holds`, one clause for each of its stages); one
  request at a time opens a project and no two make the same workspace (`RequestsApart`); a checkout is
  that of a record or of the request that is about to write one, and no two are on one branch
  (`CheckoutsHeld`).
* `DiffInv`, for the changes of a workspace. The count of a watcher is that of its subscribers and of those
  whose subscription is under way, counted as sets of renderers; it has its one timer or somebody who is
  about to start it (`WatcherCounts`). A renderer asks for the workspace that is active only, and is
  subscribed to no other meanwhile (`AsksForActive`), which is why no count is taken twice. What a reader shows
  is decided by the last diff it has asked for (`WillShow`): answers come in the order of the questions unless
  `overtaken`, so an older one is replaced, and an edit after the last reading is one the watcher has still to
  notice. A diff read for a workspace that was left is stored, and replaced by the one that the subscription
  to the next asks for.
* `TerminalsInv`, for terminal views. What matters is what is in the two queues. A view that waits has one
  attach under way with nothing about its terminal behind it (`Awaited`), or one answer (`Given`): from that
  answer on the queue holds, in order, each chunk of output beyond the snapshot and nothing else in that
  slot (`Fed`). The same is true of a view with a slot, from the head of the queue on (`ViewsFed`), and no
  request is under way that would change its slot (`SlotStays`). A terminal's keys reach the daemon before
  any detach of it (`KeysAtHome`). `TerminalsFed` counts the output under way; `ChunksUnderWay` has the
  bijection between these frames and the chunks a view lacks. The theorem asks for a slot for every
  terminal: with fewer, an attach that fails puts its error into the store, all views are mounted anew
  whether they wait or not, and that costs what `remount` costs.
* `FilesInv`, for the homes of the harnesses. One job writes at a time, the start's before there is a server
  and a request's after it (`OneJob`). What it has read of a harness is still what is in the files it has left
  to write, and the others have the new gateway (`ReadIsTrue`), so no write takes back an entry of the user.
  A file names the gateway of the settings, none, or what the user made of it, except those a request has
  still to come to (`NoneOutdated`): this is why what the start, or the saving of a key, finds different is the
  user's, and may be left alone. A harness that the job has passed follows the settings (`Follows`). By an
  edit of the gateway in `settings.json` every file that is at another one becomes the user's (`changed`): the
  next start finds it different and leaves it.
* `InstallerInv`, for the installed versions. A version is incomplete only while it is being removed
  (`TornIsGoing`), the list of directories has each version once (`ListedOnce`), and a copy is renamed by the
  installer that made it, when it is complete (`CopyIsOwn`). What `prune` spares is decided by age and not by use:
  it may take the version the user has come from (`WayBackKept`), but with two or more to be kept the newest
  directories have one that is not the one in use, and none of what is removed is needed for that
  (`OldIsDoomed`), so another whole version stays (`HasOther`).
* `WorkbenchInv`, for tabs, lists and the palette. A request of the user is under way in the workspace he is
  in, and what it has been answered agrees with the daemon (`WorkFits`): that is why the tab of a new session
  opens at home. Every tab that is stored belongs to a session of its workspace, which is gone only while the
  answer to its deletion is under way (`TabsFit`); what is on the screen is what is stored (`LayoutsFit`). The
  last list that is under way, or the one that is shown, is the daemon's unless another has been asked for; and
  while the page is not up every list names all sessions with a tab, so that the restoration of the layouts drops
  nothing (`ListsFit`). Answers to a search are of the workspace the palette is in, or old (`PaletteFits`).
* `PaneInv`, for the pane of a conversation: it is where the user has put it, whatever the items are that the
  view is drawn with, so nothing need be known of the reducer; and whatever scroll events of the pane are still
  to come or are not to come at all, since without `swallowed` the user's own reach `onScroll`.
* `ApprovalsInv`, for approvals. A request has a card or is on the feed, and so with its decision
  (`CardFollows`); while a request waits whose button was pressed, or which the opt-in answers (it has an option to allow
  once), an answer is under way or the event that makes one (`AnswersUnderWay`); the user knows, or the notice is on the feed
  (`UserWillKnow`); without a connection both queues are empty (`SilentOffline`).
* `ConnectionInv`, for what clients are told. A call is in one place: not sent, under way to the server
  (once), with a handler, or answered (`CallsOnce`), so it cannot be carried out twice; before the socket is
  open nothing is under way and no call waits (`QuietBefore`); what is refused for its form never comes to a handler
  (`RefusedForForm`). Frames are FIFO queues of any length.
* `CliInv`, for what a command tells. A request is at the daemon or answered by one frame (`OneAnswer`);
  events come in order and above what the stream has (`EventsInOrder`); a prompt that the daemon has begun and
  not answered has its end, if it has ended, among what was sent before the answer (`AnswerOwed`), and the end
  of a turn that is awaited has been seen or is on its way (`TurnAwaited`). This is why `untilTurnEnds` must
  look back at what it has seen, and may do so without settling on a wrong turn. `EffectsKnown` says
  what the daemon has done for each answer
  that is still unread; without `between` nothing gets into the way of a command that has looked
  (`InTheWay`), without `slow` and `lost` a command with an effect under way hears of it.

### Only model-checked

* Everything temporal but action properties: `QueueDrains`, `CloseCompletes`, `Converges`, `TurnsSettle`,
  `CallsAreAnswered`. Liveness under fairness is outside what the provers handle.
* Of the smaller parts: `ScreenTells` (what conversation and palette show). `SessionView` computes with folds
  and with `SelectSeq`, and `Palette` ranks with them: what they compute for every input would need the same
  induction over data as the accumulator of the index, for each of these operators.

## 5. Plan

What was planned is modelled, but for these, in order of importance:

1. Failing writes of `meta.json` in `SessionManager`: a rejected transition leaves the hold of
   `startPrompt` in place (the hazard at `session-manager.ts:1094`, which no property covers).
2. An abstract session (closed, ready, busy, with a FIFO of prompts) that `SessionManager` without races
   implements, and an abstract log with views that are parts of it for `Timeline`.
3. Liveness of the smaller parts: that a terminal view that waits gets its slot, that a catch-up ends.

## 6. Not modelled, and why

* The desktop shell: it starts and stops the daemon through the launcher, which `Processes` has; the
  rest is Electron.
* Presentation: components and views that only show what the store holds, previews, forms.
* Titles, licences, manifest, the bundle builder, acceptance probes: formatting and build tools that
  keep no state between two runs.
* The schemas of the protocol, except for what depends on them (which calls are refused, which frames
  are dropped): validation of data.
* Translation of the events of a harness (tools, texts, usage): no state of its own but what the adapters
  have.
* SQL of the search, git, ptys, WebSocket, MCP SDK: external, modelled as what the code expects of them.
* Reading directories and files, diffs as text: I/O without state.
* The PowerShell twins of the installer: the same steps in another language.
