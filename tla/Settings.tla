------------------------------ MODULE Settings ------------------------------
(***************************************************************************)
(* settings.json and those who read and write it: the settings store with   *)
(* its queue of writers and its watcher (settings.ts), the gateway service   *)
(* (gateway/service.ts), config.set (server.ts), the user's editor, and the  *)
(* limit of sessions that follows the file (index.ts).  Two keys stand for   *)
(* all: the limit and the gateway.  0 is a key that is not there.            *)
(*                                                                         *)
(* Races: "load" (config.get or a spawn reads the file anew while it         *)
(* changes or before the watcher has told of its change), "reload" (the      *)
(* watcher's reading of the file overlaps a write), "env" (the limit is set  *)
(* although the environment overrides it), "gateway" (the gateway is         *)
(* configured while another writer is at work), "torn" (the file is read     *)
(* for a write while an editor is in the middle of saving it).               *)
(***************************************************************************)
EXTENDS Naturals, Services

CONSTANTS
  Limits,     \* values of maxSessions in the file
  Default,    \* the default of maxSessions
  Gateways,   \* configurations of the gateway
  Overrides,  \* values of the environment variable, 0 for none
  MaxWrites   \* bound: settings, saves and configurations

ASSUME SettingsAssumption ==
  /\ Limits \subseteq Nat \ {0} /\ Gateways \subseteq Nat \ {0}
  /\ Overrides \subseteq Nat /\ MaxWrites \in Nat

VARIABLES
  file,     \* settings.json
  torn,     \* an editor has emptied it and not yet written it
  raw,      \* SettingsStore.raw
  limit,    \* SessionManager.maxSessions
  env,      \* the environment variable of the limit
  notice,   \* the watcher's timer runs
  reloading, loading,   \* reads under way, with what they will compare
  setting, configuring, \* writes under way, with what they have read
  wanted,   \* history: what was written last, key by key
  writes

settingsVars == <<file, torn, raw, limit, env, notice, reloading, loading, setting, configuring,
                  wanted, writes>>

Empty == [max |-> 0, gateway |-> 0]
Idle  == [busy |-> FALSE, value |-> 0, read |-> Empty]
Busy(value, read) == [busy |-> TRUE, value |-> value, read |-> read]

(* resolve: the environment, the file, the default. *)
Resolve(content) ==
  IF env # 0 THEN env ELSE IF content.max # 0 THEN content.max ELSE Default

(* readFileSafe: a file that cannot be parsed reads as one without keys. *)
Parsed == IF torn THEN Empty ELSE file

SettingsInit ==
  /\ file = Empty /\ torn = FALSE /\ raw = Empty /\ wanted = Empty
  /\ env \in Starts("settings", Overrides) /\ limit = Resolve(Empty)
  /\ notice = FALSE /\ writes = 0
  /\ reloading = Idle /\ loading = Idle /\ setting = Idle /\ configuring = Idle

Writing == setting.busy \/ configuring.busy
Changes == notice' = TRUE
OneMore == writes < MaxWrites /\ writes' = writes + 1

-----------------------------------------------------------------------------
(* SettingsStore.set, in its turn: read... *)
BeginSet ==
  /\ ~setting.busy /\ OneMore
  /\ Allows("env") \/ env = 0
  /\ Allows("gateway") \/ ~configuring.busy
  /\ Allows("torn") \/ ~torn
  /\ \E v \in Limits : setting' = Busy(v, Parsed)
  /\ UNCHANGED <<file, torn, raw, limit, env, notice, reloading, loading, configuring, wanted>>

(* ... and replace the file; config.set then sets the limit of the running daemon. *)
EndSet ==
  /\ setting.busy
  /\ LET content == [setting.read EXCEPT !.max = setting.value] IN
     file' = content /\ raw' = content
  /\ torn' = FALSE
  /\ limit' = setting.value
  /\ wanted' = [wanted EXCEPT !.max = setting.value]
  /\ setting' = Idle /\ Changes
  /\ UNCHANGED <<env, reloading, loading, configuring, writes>>

(* GatewayService.setConfig: a reader and writer of its own, outside the queue of the store. *)
BeginConfig ==
  /\ ~configuring.busy /\ OneMore
  /\ Allows("gateway") \/ ~setting.busy
  /\ Allows("torn") \/ ~torn
  /\ \E g \in Gateways : configuring' = Busy(g, Parsed)
  /\ UNCHANGED <<file, torn, raw, limit, env, notice, reloading, loading, setting, wanted>>

EndConfig ==
  /\ configuring.busy
  /\ file' = [configuring.read EXCEPT !.gateway = configuring.value]
  /\ torn' = FALSE
  /\ wanted' = [wanted EXCEPT !.gateway = configuring.value]
  /\ configuring' = Idle /\ Changes
  /\ UNCHANGED <<raw, limit, env, reloading, loading, setting, writes>>

(* An editor empties the file and writes it. *)
BeginSave ==
  /\ ~torn /\ OneMore
  /\ Allows("gateway") \/ ~Writing
  /\ torn' = TRUE /\ Changes
  /\ UNCHANGED <<file, raw, limit, env, reloading, loading, setting, configuring, wanted>>

EndSave ==
  /\ torn
  /\ torn' = FALSE
  /\ \E v \in Limits \cup {0} :
       file' = [file EXCEPT !.max = v] /\ wanted' = [wanted EXCEPT !.max = v]
  /\ Changes
  /\ UNCHANGED <<raw, limit, env, reloading, loading, setting, configuring, writes>>

-----------------------------------------------------------------------------
(* load, from config.get and buildEnv: the file is read and then adopted, without a word. *)
BeginLoad ==
  /\ ~loading.busy
  /\ Allows("load") \/ (~notice /\ ~torn /\ ~Writing /\ ~reloading.busy)
  /\ loading' = Busy(0, Parsed)
  /\ UNCHANGED <<file, torn, raw, limit, env, notice, reloading, setting, configuring, wanted, writes>>

EndLoad ==
  /\ loading.busy
  /\ raw' = loading.read
  /\ loading' = Idle
  /\ UNCHANGED <<file, torn, limit, env, notice, reloading, setting, configuring, wanted, writes>>

(* The timer of the watcher fires: the values in force are noted, the file is read... *)
BeginReload ==
  /\ notice /\ ~reloading.busy
  /\ Allows("reload") \/ ~Writing
  /\ notice' = FALSE
  /\ reloading' = Busy(Resolve(raw), Parsed)
  /\ UNCHANGED <<file, torn, raw, limit, env, loading, setting, configuring, wanted, writes>>

(* ... and the listeners hear of what resolves to another value; the limit is adapted. *)
EndReload ==
  /\ reloading.busy
  /\ raw' = reloading.read
  /\ limit' = IF Resolve(reloading.read) # reloading.value THEN Resolve(reloading.read) ELSE limit
  /\ reloading' = Idle
  /\ UNCHANGED <<file, torn, env, notice, loading, setting, configuring, wanted, writes>>

Write == BeginSet \/ EndSet \/ BeginConfig \/ EndConfig \/ BeginSave \/ EndSave

SettingsNext ==
  \/ /\ Allows("load") \/ ~loading.busy
     /\ Allows("reload") \/ ~reloading.busy
     /\ Write
  \/ /\ Allows("load") \/ ~loading.busy
     /\ BeginReload \/ EndReload
  \/ BeginLoad \/ EndLoad

-----------------------------------------------------------------------------
Settled == ~notice /\ ~torn /\ ~Writing /\ ~reloading.busy /\ ~loading.busy

(* settings.ts, gateway/service.ts, index.ts: once nothing is under way the daemon goes by what
   the file says under the priority of the environment, and the file holds what was last
   written of every key, whoever wrote it. *)
SettingsInForce ==
  Settled => /\ file = wanted
             /\ raw = file
             /\ limit = Resolve(file)
=============================================================================
