---------------------------- MODULE HarnessFiles ----------------------------
(***************************************************************************)
(* What the daemon writes into the homes of the harnesses: the entries of   *)
(* the gateway in models.json (pi), models.yml and config.yml (omp) and      *)
(* config.toml (grok), put there by setConfig and verified at the start      *)
(* (gateway/service.ts and the injections), the registration of the reverse   *)
(* tools (mcp/registration.ts, index.ts), and the cached catalogue of models.  *)
(* A user, or grok itself, has entries of his own in the same files.         *)
(*                                                                         *)
(* Races: "crash" (the daemon dies while a configuration is being carried     *)
(* out), "overlap" (two at a time), "rewrite" (a file, or the settings, change  *)
(* between its reading and its writing), "torn" (the daemon dies in the middle  *)
(* of a file), "broken" (a file with the user's entries cannot be parsed any    *)
(* more), "cli" (a registration fails), "models" (a configuration while the    *)
(* catalogue is being fetched).                                             *)
(***************************************************************************)
EXTENDS Integers, Sequences, FiniteSets, FiniteSetsExt, Services

CONSTANTS
  Endpoints,  \* gateways that can be configured; the tens are the names a gateway goes by there
  Setters,    \* requests to configure, numbered from 1
  MaxEdits    \* bound: edits of the user, and configurations

NoEndpoint == 0
Theirs     == -1   \* a managed entry that the user has changed
Startup    == 0    \* the injection at the start, beside the Setters
KeySaving  == -1   \* the injection that follows the saving of a key

ASSUME HarnessFilesAssumption ==
  /\ Endpoints \subseteq {e \in Nat : e >= 10} /\ Setters \subseteq Nat \ {Startup}
  /\ MaxEdits \in Nat

(* providerName and the ids of the models: two gateways may have them in common. *)
NameOf(e) == e \div 10
GatewayNames == {NameOf(e) : e \in Endpoints}
NoName    == 0

HarnessOrder == <<"pi", "omp", "grok">>
FilesOf == [pi |-> <<"models.json">>, omp |-> <<"models.yml", "config.yml">>, grok |-> <<"config.toml">>]
Harnesses == {HarnessOrder[k] : k \in DOMAIN HarnessOrder}
FilesOfHarness(h) == {FilesOf[h][i] : i \in DOMAIN FilesOf[h]}
HarnessFiles == UNION {FilesOfHarness(h) : h \in Harnesses}

(* Entries with the gateway's address stand under its name (providers.<name>, [model.<id>]); what
   else is managed names it in one place (modelRoles.default, [models] default). *)
HasBlocks == {"models.json", "models.yml", "config.toml"}
HasChoice == {"config.yml", "config.toml"}

VARIABLES
  gatewayConfig, \* the gateway in settings.json
  homeFile,      \* the files: [form, blocks (by name), choice, own]
  backup,        \* whether the .bak file holds entries of the user
  phase,         \* "down", "injecting", "homes", "registering", "serving"
  job,           \* an injection under way: [at, harness, want, read, left (places in FilesOf)]
  exposure,      \* settings.json: tools.reverseExposure
  inForce,       \* the exposure that this start has read
  registered,    \* harnesses in whose home the reverse tools are registered
  registering,   \* harnesses the start has still to see to
  cached,        \* modelsCache: the gateway it was fetched from
  fetching,      \* listModels under way: the gateway asked
  entered,       \* history: files with entries of the user
  changed,       \* history: files that name another gateway by the user's hand, no setter since
  byHand,        \* history: the user edited the gateway in settings.json, no start or setter since
  edits

filesVars == <<gatewayConfig, homeFile, backup, phase, job, exposure, inForce, registered, registering,
               cached, fetching, entered, changed, byHand, edits>>

NoFile == [form |-> "none", blocks |-> [n \in GatewayNames |-> NoEndpoint], choice |-> NoName, own |-> FALSE]
NoJob  == [at |-> "idle", harness |-> 1, want |-> NoEndpoint, read |-> <<>>, left |-> {}]
Jobs   == {Startup, KeySaving} \cup Setters

FilesInit ==
  /\ gatewayConfig = NoEndpoint
  /\ homeFile = [f \in HarnessFiles |-> NoFile] /\ backup = [f \in HarnessFiles |-> FALSE]
  /\ phase = "down" /\ job = [j \in Jobs |-> NoJob]
  /\ exposure = FALSE /\ inForce = FALSE /\ registered = {} /\ registering = {}
  /\ cached = NoEndpoint /\ fetching = NoEndpoint
  /\ entered = {} /\ changed = {} /\ byHand = FALSE /\ edits = 0

Configuring == {j \in Jobs \ {Startup} : job[j].at # "idle"}
Edit == edits < MaxEdits /\ edits' = edits + 1

restVars == <<exposure, inForce, registered, registering, fetching>>

-----------------------------------------------------------------------------
(* config.set: setConfig writes the settings and forgets the catalogue. *)
SetConfig(c) ==
  /\ phase = "serving" /\ job[c].at = "idle" /\ Edit
  /\ Allows("overlap") \/ Configuring = {}
  /\ Allows("models") \/ fetching = NoEndpoint
  /\ gatewayConfig' \in Endpoints
  /\ cached' = NoEndpoint /\ byHand' = FALSE /\ changed' = {}
  /\ job' = [job EXCEPT ![c] = [NoJob EXCEPT !.at = "reading"]]
  /\ UNCHANGED <<homeFile, backup, phase, entered>> /\ UNCHANGED restVars

(* config.key.set: the key is stored apart, and the injection into the home of pi follows. *)
SaveKey ==
  /\ phase = "serving" /\ job[KeySaving].at = "idle"
  /\ Allows("overlap") \/ Configuring = {}
  /\ job' = [job EXCEPT ![KeySaving] = [NoJob EXCEPT !.at = "reading"]]
  /\ UNCHANGED <<gatewayConfig, homeFile, backup, phase, cached, entered, changed, byHand, edits>>
  /\ UNCHANGED restVars

(* An unparsable file reads as none. *)
Existing(content) == content.form = "ok"

(* What is managed in a file f is there for the gateway e, or there for another. *)
Agrees(f, content, e) ==
  /\ Existing(content)
  /\ f \in HasBlocks => content.blocks[NameOf(e)] = e
  /\ f \in HasChoice => content.choice = NameOf(e)
Drifted(f, content, e) ==
  /\ Existing(content)
  /\ \/ f \in HasBlocks /\ content.blocks[NameOf(e)] \notin {NoEndpoint, e}
     \/ f \in HasChoice /\ content.choice \notin {NoName, NameOf(e)}

(* The managed entries with one of them put in: by the daemon, or by the user. *)
PutBlock(f, blocks, e, entry) == IF f \in HasBlocks THEN [blocks EXCEPT ![NameOf(e)] = entry] ELSE blocks
PutChoice(f, choice, name)    == IF f \in HasChoice THEN name ELSE choice

(* The next harness, or what comes after the last one. *)
Onward(j) ==
  IF job[j].harness < Len(HarnessOrder) /\ j # KeySaving
  THEN [NoJob EXCEPT !.at = "reading", !.harness = job[j].harness + 1]
  ELSE [NoJob EXCEPT !.at = IF j = Startup THEN "injected" ELSE "idle"]

(* Drift is reported and nothing touched, unless the configuration was asked for (force). *)
MayOverwrite(j, files, want) ==
  j \notin Setters => \A f \in files : ~Drifted(f, homeFile[f], want)

(* injectPiGateway, injectOmpGateway, injectGrokGateway: the configuration and the files are read,
   and it is decided which of the files to write. *)
ReadHome(j) ==
  /\ job[j].at = "reading"
  /\ LET h    == HarnessOrder[job[j].harness]
         want == gatewayConfig
         left == {i \in DOMAIN FilesOf[h] : ~Agrees(FilesOf[h][i], homeFile[FilesOf[h][i]], want)}
     IN job' = [job EXCEPT ![j] =
          IF want = NoEndpoint THEN Onward(j)
          ELSE IF left = {} \/ ~MayOverwrite(j, FilesOfHarness(h), want) THEN Onward(j)
          ELSE [@ EXCEPT !.at = "writing", !.want = want, !.left = left,
                         !.read = [f \in FilesOfHarness(h) |-> homeFile[f]]]]
  /\ UNCHANGED <<gatewayConfig, homeFile, backup, phase, cached, entered, changed, byHand, edits>>
  /\ UNCHANGED restVars

(* The files are written in their order. *)
FirstLeft(j) == Min(job[j].left)
NextFile(j)  == FilesOf[HarnessOrder[job[j].harness]][FirstLeft(j)]

(* The content that was read goes to .bak, and with the managed entries to the file, where those
   under a former name stay; of an unparsable file there is no content. *)
Injected(f, content, e) ==
  LET old == IF Existing(content) THEN content ELSE NoFile IN
  [form |-> "ok", own |-> old.own,
   blocks |-> PutBlock(f, old.blocks, e, e), choice |-> PutChoice(f, old.choice, NameOf(e))]

WriteHome(j) ==
  /\ job[j].at = "writing"
  /\ LET f    == NextFile(j)
         read == job[j].read[f]
     IN /\ backup' = IF Existing(read) THEN [backup EXCEPT ![f] = read.own] ELSE backup
        /\ homeFile' = [homeFile EXCEPT ![f] = Injected(f, read, job[j].want)]
        /\ changed' = IF j \in Setters THEN changed \ {f} ELSE changed
  /\ LET rest == job[j].left \ {FirstLeft(j)}
     IN job' = [job EXCEPT ![j] = IF rest # {} THEN [@ EXCEPT !.left = rest] ELSE Onward(j)]
  /\ UNCHANGED <<gatewayConfig, phase, cached, entered, byHand, edits>> /\ UNCHANGED restVars

-----------------------------------------------------------------------------
(* startDaemon: injection, homes, registration, and then the server. *)
StartUp ==
  /\ phase = "down"
  /\ phase' = "injecting"
  /\ job' = [job EXCEPT ![Startup] = [NoJob EXCEPT !.at = "reading"]] /\ byHand' = FALSE
  /\ UNCHANGED <<gatewayConfig, homeFile, backup, cached, entered, changed, edits>> /\ UNCHANGED restVars

PrepareHomes ==
  /\ phase = "injecting" /\ job[Startup].at = "injected"
  /\ phase' = "homes" /\ job' = [job EXCEPT ![Startup] = NoJob]
  /\ UNCHANGED <<gatewayConfig, homeFile, backup, cached, entered, changed, byHand, edits>>
  /\ UNCHANGED restVars

(* ensureHarnessHome throws: there is no daemon without the isolation. *)
HomesFail ==
  /\ phase = "homes" /\ phase' = "down"
  /\ UNCHANGED <<gatewayConfig, homeFile, backup, job, cached, entered, changed, byHand, edits>>
  /\ UNCHANGED restVars

(* The exposure is read once; a home that has the tools loses them when they are not to be shown. *)
HomesReady ==
  /\ phase = "homes" /\ phase' = "registering"
  /\ inForce' = exposure /\ registering' = Harnesses
  /\ UNCHANGED <<gatewayConfig, homeFile, backup, job, exposure, registered, cached, fetching, entered,
                 changed, byHand, edits>>

RegisterHarness(h) ==
  /\ phase = "registering" /\ h \in registering
  /\ registered' = IF inForce THEN registered \cup {h} ELSE registered \ {h}
  /\ registering' = registering \ {h}
  /\ UNCHANGED <<gatewayConfig, homeFile, backup, phase, job, exposure, inForce, cached, fetching, entered,
                 changed, byHand, edits>>

(* It fails, and the start goes on: a grok mcp add that fails has removed the entry before, the
   others leave what there was. *)
RegistrationFails(h) ==
  /\ phase = "registering" /\ h \in registering
  /\ Allows("cli") \/ (~inForce /\ h \notin registered)
  /\ registering' = registering \ {h}
  /\ registered' = IF inForce /\ h = "grok" THEN registered \ {h} ELSE registered
  /\ UNCHANGED <<gatewayConfig, homeFile, backup, phase, job, exposure, inForce, cached, fetching, entered,
                 changed, byHand, edits>>

Serving ==
  /\ phase = "registering" /\ registering = {}
  /\ phase' = "serving"
  /\ UNCHANGED <<gatewayConfig, homeFile, backup, job, cached, entered, changed, byHand, edits>>
  /\ UNCHANGED restVars

(* The daemon ends, whatever it is doing. *)
DaemonEnds ==
  /\ phase # "down"
  /\ Allows("crash") \/ Allows("torn") \/ Configuring = {}
  /\ phase' = "down" /\ job' = [j \in Jobs |-> NoJob]
  /\ cached' = NoEndpoint /\ fetching' = NoEndpoint /\ registering' = {}
  /\ \/ homeFile' = homeFile
     \/ /\ Allows("torn")
        /\ \E j \in Jobs : job[j].at = "writing"
             /\ homeFile' = [homeFile EXCEPT ![NextFile(j)] = [NoFile EXCEPT !.form = "broken"]]
  /\ UNCHANGED <<gatewayConfig, backup, exposure, inForce, registered, entered, changed, byHand, edits>>

-----------------------------------------------------------------------------
Touchable == Allows("rewrite") \/ \A j \in Jobs : job[j].at # "writing"

(* The user, or grok, adds entries of his own; the user changes the managed ones. *)
AddOwn(f) ==
  /\ Touchable /\ Edit /\ homeFile[f].form # "broken"
  /\ homeFile' = [homeFile EXCEPT ![f].form = "ok", ![f].own = TRUE]
  /\ entered' = entered \cup {f}
  /\ UNCHANGED <<gatewayConfig, backup, phase, job, cached, changed, byHand>> /\ UNCHANGED restVars

ChangeManaged(f) ==
  /\ Touchable /\ Edit /\ gatewayConfig # NoEndpoint /\ Agrees(f, homeFile[f], gatewayConfig)
  /\ homeFile' = [homeFile EXCEPT ![f].blocks = PutBlock(f, @, gatewayConfig, Theirs),
                                  ![f].choice = PutChoice(f, @, Theirs)]
  /\ changed' = changed \cup {f}
  /\ UNCHANGED <<gatewayConfig, backup, phase, job, cached, entered, byHand>> /\ UNCHANGED restVars

(* ... or leaves the file in a state that does not parse. *)
Break(f) ==
  /\ Allows("broken") \/ f \notin entered \cup changed
  /\ Touchable /\ Edit /\ homeFile[f].form # "broken"
  /\ homeFile' = [homeFile EXCEPT ![f].form = "broken"]
  /\ UNCHANGED <<gatewayConfig, backup, phase, job, cached, entered, changed, byHand>>
  /\ UNCHANGED restVars

(* The gateway in settings.json is edited: the files for another one are so by the user's hand. *)
EditGateway ==
  /\ Touchable /\ Edit
  /\ gatewayConfig' \in (Endpoints \cup {NoEndpoint}) \ {gatewayConfig}
  /\ byHand' = TRUE
  /\ changed' = IF gatewayConfig' = NoEndpoint THEN {}
                ELSE {f \in HarnessFiles : Drifted(f, homeFile[f], gatewayConfig')}
  /\ UNCHANGED <<homeFile, backup, phase, job, cached, entered>> /\ UNCHANGED restVars

ToggleExposure ==
  /\ Edit /\ exposure' = ~exposure
  /\ UNCHANGED <<gatewayConfig, homeFile, backup, phase, job, inForce, registered, registering, cached,
                 fetching, entered, changed, byHand>>

(* listModels asks the gateway of its moment, and keeps the answer for a minute. *)
AskModels ==
  /\ phase = "serving" /\ cached = NoEndpoint /\ fetching = NoEndpoint /\ gatewayConfig # NoEndpoint
  /\ fetching' = gatewayConfig
  /\ UNCHANGED <<gatewayConfig, homeFile, backup, phase, job, exposure, inForce, registered, registering,
                 cached, entered, changed, byHand, edits>>

KeepModels ==
  /\ fetching # NoEndpoint
  /\ cached' = fetching /\ fetching' = NoEndpoint
  /\ UNCHANGED <<gatewayConfig, homeFile, backup, phase, job, exposure, inForce, registered, registering,
                 entered, changed, byHand, edits>>

DropModels ==
  /\ cached # NoEndpoint /\ cached' = NoEndpoint
  /\ UNCHANGED <<gatewayConfig, homeFile, backup, phase, job, entered, changed, byHand, edits>>
  /\ UNCHANGED restVars

FilesNext ==
  \/ \E c \in Setters : SetConfig(c)
  \/ \E j \in Jobs : ReadHome(j) \/ WriteHome(j)
  \/ StartUp \/ PrepareHomes \/ HomesFail \/ HomesReady \/ Serving \/ DaemonEnds
  \/ \E h \in Harnesses : RegisterHarness(h) \/ RegistrationFails(h)
  \/ \E f \in HarnessFiles : AddOwn(f) \/ ChangeManaged(f) \/ Break(f)
  \/ SaveKey \/ EditGateway \/ ToggleExposure \/ AskModels \/ KeepModels \/ DropModels

-----------------------------------------------------------------------------
(* omp-injection.ts:7-9 and the other injections: entries of the user are in the file or its
   backup, and a file that names another gateway by his hand does so until the gateway is
   configured anew. *)
UserEntriesKept ==
  /\ \A f \in entered : homeFile[f].own \/ backup[f]
  /\ \A f \in changed : Drifted(f, homeFile[f], gatewayConfig)

(* gateway/service.ts, index.ts: once the daemon serves and no configuration is being carried
   out, the files of a harness name the gateway of the settings, unless one of them names another
   by the user's hand or cannot be parsed; and exactly the homes that are to show the reverse
   tools have them registered.  A gateway edited in settings.json waits for the next start, and
   the catalogue of the one before may be shown until then. *)
HarnessesFollow ==
  phase = "serving" /\ Configuring = {} =>
    /\ gatewayConfig # NoEndpoint /\ ~byHand =>
         \A h \in Harnesses :
           (\A f \in FilesOfHarness(h) : f \notin changed /\ homeFile[f].form # "broken") =>
             \A f \in FilesOfHarness(h) : Agrees(f, homeFile[f], gatewayConfig)
    /\ ~byHand => cached \in {NoEndpoint, gatewayConfig}
    /\ registered = IF inForce THEN Harnesses ELSE {}

HarnessesConfigured == UserEntriesKept /\ HarnessesFollow
=============================================================================
