------------------------------ MODULE Installer ------------------------------
(***************************************************************************)
(* The installed versions of the program: the installer (bundle/install.sh),  *)
(* the tool both installers share (bundle/tools/versions-tool.mjs), rollback  *)
(* and uninstall.  An update is another installation: the bundle is copied    *)
(* beside the versions there are, the link `current' is switched to it, and    *)
(* what is too old is removed.                                              *)
(*                                                                         *)
(* A version is "whole" or "torn" (part of its files are missing).            *)
(*                                                                         *)
(* Races: "torn" (an installer dies while it removes a version), "two" (two   *)
(* installers, or an installer and a rollback, at a time), "started" (the       *)
(* daemon is started between the guard of an installer and its switch),        *)
(* "forced" (an installation with --force under a running daemon), "busy"       *)
(* (uninstall while sessions are running).                                   *)
(***************************************************************************)
EXTENDS Naturals, Sequences, FiniteSets, SequencesExt, Services

CONSTANTS
  Bundles,     \* bundles there are to install, numbered from 1
  Installers,  \* processes of install.sh
  KeepVersions \* --keep, settings.json update.keepVersions

ASSUME InstallerAssumption ==
  /\ Bundles \subseteq Nat \ {0} /\ IsFiniteSet(Bundles)
  /\ KeepVersions \in Nat \ {0}

NoVersion == 0

VARIABLES
  installed,   \* versions/<name>: "none", "torn", "whole"
  partials,    \* versions/<name>.partial: who copies, and whether all is there
  byTime,      \* the directories in versions/, the one changed last first
  inUse,       \* what `current' points to
  installer,   \* a process of install.sh: its bundle, its place, what it removes
  runningFrom, \* the version the daemon has been started from
  leftFor,     \* history: the version in use before the last switch
  rolledTo     \* history: where the last rollback without a version has led, and from where

installerVars == <<installed, partials, byTime, inUse, installer, runningFrom, leftFor, rolledTo>>

NoPartial  == [by |-> 0, done |-> FALSE]
NotStarted == [at |-> "idle", bundle |-> NoVersion, doomed |-> {}, removing |-> NoVersion]

InstallerInit ==
  /\ installed = [b \in Bundles |-> "none"] /\ partials = [b \in Bundles |-> NoPartial]
  /\ byTime = <<>> /\ inUse = NoVersion
  /\ installer = [i \in Installers |-> NotStarted]
  /\ runningFrom = NoVersion /\ leftFor = NoVersion
  /\ rolledTo = [got |-> NoVersion, wanted |-> NoVersion]

Moves(i, at) == installer' = [installer EXCEPT ![i].at = at]
Fails(i)     == installer' = [installer EXCEPT ![i] = NotStarted]
Working      == {i \in Installers : installer[i].at # "idle"}

(* The tools of a version can be run: of a torn one perhaps. *)
MayRun(b) == installed[b] # "none"
MayFail(b) == installed[b] # "whole"

(* The version one comes from when b is switched to. *)
CameFrom(b) == IF inUse = b THEN leftFor ELSE inUse

Switches(b) ==
  /\ inUse' = b
  /\ leftFor' = CameFrom(b)

-----------------------------------------------------------------------------
(* install.sh *)

BeforeSwitch == {"guarded", "copying", "copied", "placed"}

FirstOf(n) == {byTime[k] : k \in 1..(IF n < Len(byTime) THEN n ELSE Len(byTime))}

(* guard: no daemon, or --force. *)
Guard(i, b) ==
  /\ installer[i].at = "idle" /\ (Allows("two") \/ Working = {})
  /\ Allows("forced") \/ runningFrom = NoVersion
  /\ installer' = [installer EXCEPT ![i].at = "guarded", ![i].bundle = b]
  /\ UNCHANGED <<installed, partials, byTime, inUse, runningFrom, leftFor, rolledTo>>

(* What is there already is kept; a copy that was broken off is begun anew. *)
BeginCopy(i) ==
  LET b == installer[i].bundle IN
  /\ installer[i].at = "guarded"
  /\ IF installed[b] # "none" THEN Moves(i, "placed") /\ UNCHANGED partials
     ELSE Moves(i, "copying") /\ partials' = [partials EXCEPT ![b] = [by |-> i, done |-> FALSE]]
  /\ UNCHANGED <<installed, byTime, inUse, runningFrom, leftFor, rolledTo>>

(* A copy into which another has been begun is not complete by its own end. *)
EndCopy(i) ==
  LET b == installer[i].bundle IN
  /\ installer[i].at = "copying"
  /\ \/ Moves(i, "copied")
     \/ partials[b].by # i /\ Fails(i)
  /\ partials' = [partials EXCEPT ![b].done = (@ \/ partials[b].by = i)]
  /\ UNCHANGED <<installed, byTime, inUse, runningFrom, leftFor, rolledTo>>

(* The directories but for b. *)
ButFor(b) ==
  LET place == CHOOSE k \in DOMAIN byTime : byTime[k] = b IN
  IF b \notin ToSet(byTime) THEN byTime
  ELSE [k \in 1..(Len(byTime) - 1) |-> byTime[IF k < place THEN k ELSE k + 1]]

(* mv: into the directory if another has made it. *)
Rename(i) ==
  LET b == installer[i].bundle IN
  /\ installer[i].at = "copied"
  /\ IF partials[b] = NoPartial THEN Fails(i) /\ UNCHANGED <<installed, partials, byTime>>
     ELSE /\ Moves(i, "placed")
          /\ partials' = [partials EXCEPT ![b] = NoPartial]
          /\ installed' = [installed EXCEPT ![b] = IF @ # "none" THEN @
                             ELSE IF partials[b].done THEN "whole" ELSE "torn"]
          /\ byTime' = <<b>> \o ButFor(b)
  /\ UNCHANGED <<inUse, runningFrom, leftFor, rolledTo>>

(* switch: a link made beside it takes its place. *)
Switch(i) ==
  LET b == installer[i].bundle IN
  /\ installer[i].at = "placed"
  /\ \/ MayRun(b) /\ Switches(b) /\ Moves(i, "switched")
     \/ MayFail(b) /\ Fails(i) /\ UNCHANGED <<inUse, leftFor>>
  /\ UNCHANGED <<installed, partials, byTime, runningFrom, rolledTo>>

(* Mutant: the version in use has to be among the newest. *)
DoomedByAge(keepName) == {byTime[k] : k \in DOMAIN byTime} \ FirstOf(KeepVersions)

(* prune: the newest stay, and those that are protected. *)
Doomed(keepName) ==
  {byTime[k] : k \in DOMAIN byTime} \ (FirstOf(KeepVersions) \cup {keepName, inUse})

Prune(i) ==
  LET b == installer[i].bundle IN
  /\ installer[i].at = "switched"
  /\ \/ MayRun(b) /\ installer' = [installer EXCEPT ![i].at = "pruning", ![i].doomed = Doomed(b)]
     \/ MayFail(b) /\ Fails(i)
  /\ UNCHANGED <<installed, partials, byTime, inUse, runningFrom, leftFor, rolledTo>>

(* Removing its files changes the time of a directory. *)
BeginRemove(i, v) ==
  /\ installer[i].at = "pruning" /\ v \in installer[i].doomed
  /\ installer' = [installer EXCEPT ![i].at = "removing", ![i].doomed = @ \ {v}, ![i].removing = v]
  /\ installed' = [installed EXCEPT ![v] = IF @ = "none" THEN @ ELSE "torn"]
  /\ byTime' = IF installed[v] = "none" THEN byTime ELSE <<v>> \o ButFor(v)
  /\ UNCHANGED <<partials, inUse, runningFrom, leftFor, rolledTo>>

EndRemove(i) ==
  LET v == installer[i].removing IN
  /\ installer[i].at = "removing"
  /\ installed' = [installed EXCEPT ![v] = "none"] /\ byTime' = ButFor(v)
  /\ installer' = [installer EXCEPT ![i].at = "pruning", ![i].removing = NoVersion]
  /\ UNCHANGED <<partials, inUse, runningFrom, leftFor, rolledTo>>

Done(i) ==
  /\ installer[i].at = "pruning" /\ installer[i].doomed = {}
  /\ Fails(i)
  /\ UNCHANGED <<installed, partials, byTime, inUse, runningFrom, leftFor, rolledTo>>

(* A step fails, or the user breaks it off. *)
Breaks(i) ==
  /\ installer[i].at # "idle"
  /\ Allows("torn") \/ installer[i].at # "removing"
  /\ Fails(i)
  /\ UNCHANGED <<installed, partials, byTime, inUse, runningFrom, leftFor, rolledTo>>

-----------------------------------------------------------------------------
(* versions-tool.mjs rollback: to the version named, or to the one installed last; with --force
   under a running daemon as well. *)
RollBack ==
  /\ Allows("two") \/ Working = {}
  /\ \E k \in DOMAIN byTime : MayRun(byTime[k])
  /\ \/ \E b \in ToSet(byTime) \ {inUse} : Switches(b) /\ UNCHANGED rolledTo
     \/ \E k \in DOMAIN byTime :
          /\ byTime[k] # inUse /\ \A l \in 1..(k - 1) : byTime[l] = inUse
          /\ Switches(byTime[k])
          /\ rolledTo' = [got |-> byTime[k], wanted |-> leftFor]
  /\ UNCHANGED <<installed, partials, byTime, installer, runningFrom>>

(* uninstall.sh: daemon stop refuses when sessions are busy, and the removal goes on. *)
Uninstall ==
  /\ Working = {} /\ inUse # NoVersion
  /\ runningFrom' = IF Allows("busy") THEN runningFrom ELSE NoVersion
  /\ inUse' = NoVersion /\ leftFor' = NoVersion
  /\ installed' = [b \in Bundles |-> "none"] /\ partials' = [b \in Bundles |-> NoPartial]
  /\ byTime' = <<>>
  /\ rolledTo' = [got |-> NoVersion, wanted |-> NoVersion]
  /\ UNCHANGED installer

DaemonRuns ==
  \/ /\ Allows("started") \/ \A i \in Working : installer[i].at \notin BeforeSwitch
     /\ runningFrom = NoVersion /\ inUse # NoVersion /\ installed[inUse] = "whole"
     /\ runningFrom' = inUse
     /\ UNCHANGED <<installed, partials, byTime, inUse, installer, leftFor, rolledTo>>
  \/ /\ runningFrom # NoVersion /\ runningFrom' = NoVersion
     /\ UNCHANGED <<installed, partials, byTime, inUse, installer, leftFor, rolledTo>>

InstallerNext ==
  \/ \E i \in Installers :
       \/ \E b \in Bundles : Guard(i, b) \/ BeginRemove(i, b)
       \/ BeginCopy(i) \/ EndCopy(i) \/ Rename(i) \/ Switch(i) \/ Prune(i) \/ EndRemove(i)
       \/ Done(i) \/ Breaks(i)
  \/ RollBack \/ Uninstall \/ DaemonRuns

-----------------------------------------------------------------------------
(* versions-tool.mjs, install.sh: whatever fails, what `current' points to is all there; so is
   the version a running daemon has been started from; and as long as more than one version is
   to be kept, a user who has come from another version has one to go back to. *)
VersionsKept ==
  /\ inUse # NoVersion => installed[inUse] = "whole"
  /\ runningFrom # NoVersion => installed[runningFrom] = "whole"
  /\ leftFor # NoVersion /\ KeepVersions > 1 => \E b \in Bundles \ {inUse} : installed[b] = "whole"

(* versions-tool.mjs:242-243: a rollback without a version leads to where the user has come from. *)
LeadsBack == rolledTo.wanted # NoVersion => rolledTo.got = rolledTo.wanted

(* versions-tool.mjs:287, install.sh:135: the version the user has come from is kept, so that a
   rollback can lead to it. *)
WayBackKept == leftFor # NoVersion /\ KeepVersions > 1 => installed[leftFor] = "whole"
=============================================================================
