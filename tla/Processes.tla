----------------------------- MODULE Processes -----------------------------
(***************************************************************************)
(* The daemon's own processes and those it spawns: the ledger of pids and   *)
(* the reaping of what an earlier daemon left (processes.ts), the start and  *)
(* the stop of a daemon with its token and pid files (index.ts, main.ts,     *)
(* token.ts), and those who start, look for and stop it (launcher.ts).      *)
(*                                                                         *)
(* Races: "two" (a daemon is started before the last one has written its    *)
(* pid file), "stale" (a pid file found stale, or of a daemon being stopped, *)
(* is removed after another daemon wrote its own), "unlogged" (a crash       *)
(* between a spawn and its entry), "reuse" (a pid in the ledger goes to a     *)
(* program of the user), "latespawn" (a spawn ends after the children were   *)
(* terminated), "twice" (a signal while a requested shutdown is under way).   *)
(***************************************************************************)
EXTENDS Naturals, Sequences, FiniteSets, Services

CONSTANTS
  Daemons,   \* bound: the daemons ever started, by their pids
  Pids,      \* pids the system gives to other processes
  MaxQueued  \* bound: a spawn begins with fewer writes of the ledger queued

NoDaemon == 0
ASSUME ProcessesAssumption == NoDaemon \notin Daemons /\ MaxQueued \in Nat

VARIABLES
  daemon,      \* where each daemon is
  pidFile,     \* daemon.pid: the daemon it names
  token,       \* daemon.token: the daemon whose token it is
  holder,      \* a client that read the pid file and means to remove it: the daemon it read
  process,     \* who has each pid: "free", "user", or a child and its daemon
  live,        \* ProcessSupervisor.live
  ledger,      \* processes.json
  ledgerChain, \* writes of the ledger queued in each daemon
  innocent     \* history: a reaped process that was not a left-over

processesVars == <<daemon, pidFile, token, holder, process, live, ledger, ledgerChain, innocent>>
daemonFiles == <<pidFile, token, holder>>

Stopping == {"draining", "terminated", "tidied"}
Running(d) == daemon[d] \notin {"unborn", "crashed", "stopped"}

Free == [kind |-> "free", of |-> NoDaemon]
User == [kind |-> "user", of |-> NoDaemon]
Child(kind, d) == [kind |-> kind, of |-> d]   \* "spawning" until the spawn event, then "child"
ChildrenOf(d) == {p \in Pids : process[p].of = d}

Entry(p, d) == [pid |-> p, daemonPid |-> d]
Without(entries, ps) == {e \in entries : e.pid \notin ps}

ProcessesInit ==
  /\ daemon = [d \in Daemons |-> "unborn"]
  /\ pidFile = NoDaemon /\ token = NoDaemon /\ holder = NoDaemon
  /\ process = [p \in Pids |-> Free]
  /\ live = [d \in Daemons |-> {}]
  /\ ledger = {} /\ ledgerChain = [d \in Daemons |-> <<>>]
  /\ innocent = FALSE

Becomes(d, stage) == daemon' = [daemon EXCEPT ![d] = stage]
Enqueue(d, op, ps) == ledgerChain' = [ledgerChain EXCEPT ![d] = Append(@, [op |-> op, pids |-> ps])]

Names(d) == d # NoDaemon /\ Running(d)

-----------------------------------------------------------------------------
(* Starting *)

(* launchDetachedDaemon: no daemon is named, or one that is dead, whose file goes. *)
Launch(d) ==
  /\ daemon[d] = "unborn" /\ ~Names(pidFile)
  /\ Allows("two") \/ \A other \in Daemons : ~Running(other)
  /\ pidFile' = NoDaemon
  /\ Becomes(d, "started")
  /\ UNCHANGED <<token, holder, process, live, ledger, ledgerChain, innocent>>

(* startDaemon: the token of the last daemon is replaced first. *)
WriteToken(d) ==
  /\ daemon[d] = "started"
  /\ token' = d
  /\ Becomes(d, "reaping")
  /\ UNCHANGED <<pidFile, holder, process, live, ledger, ledgerChain, innocent>>

Foreign(d) == {e.pid : e \in {entry \in ledger : entry.daemonPid # d}}

(* Mutant: the entries of other daemons are dropped and their processes let be. *)
ReapNothing(d) ==
  /\ daemon[d] = "reaping"
  /\ ledger' = {e \in ledger : e.daemonPid = d}
  /\ Becomes(d, "reaped")
  /\ UNCHANGED <<daemonFiles, process, live, ledgerChain, innocent>>

(* reapStale: what is alive under a pid that another daemon entered is terminated, whoever
   that is by now, and the ledger keeps the entries of this daemon alone. *)
ReapStale(d) ==
  /\ daemon[d] = "reaping"
  /\ process' = [p \in Pids |-> IF p \in Foreign(d) THEN Free ELSE process[p]]
  /\ innocent' = (innocent \/ \E p \in Foreign(d) :
                    process[p].kind = "user" \/ (process[p].of # NoDaemon /\ Running(process[p].of)))
  /\ ledger' = {e \in ledger : e.daemonPid = d}
  /\ Becomes(d, "reaped")
  /\ UNCHANGED <<daemonFiles, live, ledgerChain>>

(* The server listens, and the pid file tells where. *)
WritePidFile(d) ==
  /\ daemon[d] = "reaped"
  /\ Allows("stale") \/ holder = NoDaemon
  /\ pidFile' = d
  /\ Becomes(d, "up")
  /\ UNCHANGED <<token, holder, process, live, ledger, ledgerChain, innocent>>

-----------------------------------------------------------------------------
(* Children *)

Spawn(d, p) ==
  /\ daemon[d] = "up" /\ process[p] = Free /\ Len(ledgerChain[d]) < MaxQueued
  /\ process' = [process EXCEPT ![p] = Child("spawning", d)]
  /\ UNCHANGED <<daemon, daemonFiles, live, ledger, ledgerChain, innocent>>

(* The spawn event: live at once, in the ledger after the writes that are queued. *)
Spawned(d, p) ==
  /\ Running(d) /\ process[p] = Child("spawning", d)
  /\ process' = [process EXCEPT ![p] = Child("child", d)]
  /\ live' = [live EXCEPT ![d] = @ \cup {p}]
  /\ Enqueue(d, "append", {p})
  /\ UNCHANGED <<daemon, daemonFiles, ledger, innocent>>

LedgerWrite(d) ==
  /\ Running(d) /\ ledgerChain[d] # <<>>
  /\ LET write == Head(ledgerChain[d]) IN
     ledger' = IF write.op = "append" THEN ledger \cup {Entry(p, d) : p \in write.pids}
               ELSE Without(ledger, write.pids)
  /\ ledgerChain' = [ledgerChain EXCEPT ![d] = Tail(@)]
  /\ UNCHANGED <<daemon, daemonFiles, process, live, innocent>>

(* Nobody hears of the end of a process whose daemon is gone. *)
ChildExits(p) ==
  /\ process[p].kind = "child"
  /\ process' = [process EXCEPT ![p] = Free]
  /\ LET d == process[p].of IN
     IF Running(d)
     THEN live' = [live EXCEPT ![d] = @ \ {p}] /\ Enqueue(d, "remove", {p})
     ELSE UNCHANGED <<live, ledgerChain>>
  /\ UNCHANGED <<daemon, daemonFiles, ledger, innocent>>

Mentioned(p) ==
  \/ \E e \in ledger : e.pid = p
  \/ \E d \in Daemons : \E i \in DOMAIN ledgerChain[d] : p \in ledgerChain[d][i].pids

(* A program of the user gets a pid. *)
UserStarts(p) ==
  /\ process[p] = Free
  /\ Allows("reuse") \/ ~Mentioned(p)
  /\ process' = [process EXCEPT ![p] = User]
  /\ UNCHANGED <<daemon, daemonFiles, live, ledger, ledgerChain, innocent>>

-----------------------------------------------------------------------------
(* Ending *)

Logged(d) == \A p \in ChildrenOf(d) : Entry(p, d) \in ledger

Crash(d) ==
  /\ Running(d)
  /\ Allows("unlogged") \/ Logged(d)
  /\ Becomes(d, "crashed")
  /\ ledgerChain' = [ledgerChain EXCEPT ![d] = <<>>]
  /\ UNCHANGED <<daemonFiles, process, live, ledger, innocent>>

(* system.shutdown or a signal: the server stops and the sessions are closed. *)
Stop(d) ==
  /\ daemon[d] = "up"
  /\ Becomes(d, "draining")
  /\ UNCHANGED <<daemonFiles, process, live, ledger, ledgerChain, innocent>>

(* terminateAll: the live ones, as of now; their exits are awaited. *)
TerminateAll(d) ==
  /\ daemon[d] = "draining"
  /\ Allows("latespawn") \/ \A p \in Pids : process[p] # Child("spawning", d)
  /\ process' = [p \in Pids |-> IF p \in live[d] THEN Free ELSE process[p]]
  /\ live' = [live EXCEPT ![d] = {}]
  /\ Enqueue(d, "remove", live[d])
  /\ Becomes(d, "terminated")
  /\ UNCHANGED <<daemonFiles, ledger, innocent>>

RemoveToken(d) ==
  /\ daemon[d] = "terminated"
  /\ token' = NoDaemon
  /\ Becomes(d, "tidied")
  /\ UNCHANGED <<pidFile, holder, process, live, ledger, ledgerChain, innocent>>

(* The pid file goes last; stop is over at once for the second who calls it, and main exits
   when its stop is over.  Writes of the ledger still queued are lost. *)
Exit(d) ==
  /\ \/ daemon[d] = "tidied" /\ pidFile' = NoDaemon
     \/ Allows("twice") /\ daemon[d] \in Stopping /\ UNCHANGED pidFile
  /\ Becomes(d, "stopped")
  /\ ledgerChain' = [ledgerChain EXCEPT ![d] = <<>>]
  /\ UNCHANGED <<token, holder, process, live, ledger, innocent>>

(* readDaemonInfo and stopDaemon: the file is read, and removed once its daemon is seen dead. *)
ReadPidFile ==
  /\ holder = NoDaemon /\ pidFile # NoDaemon
  /\ holder' = pidFile
  /\ UNCHANGED <<daemon, pidFile, token, process, live, ledger, ledgerChain, innocent>>

RemovePidFile ==
  /\ holder # NoDaemon
  /\ pidFile' = IF Running(holder) THEN pidFile ELSE NoDaemon
  /\ holder' = NoDaemon
  /\ UNCHANGED <<daemon, token, process, live, ledger, ledgerChain, innocent>>

ProcessesNext ==
  \/ \E d \in Daemons :
       \/ Launch(d) \/ WriteToken(d) \/ ReapStale(d) \/ WritePidFile(d)
       \/ \E p \in Pids : Spawn(d, p) \/ Spawned(d, p)
       \/ LedgerWrite(d) \/ Crash(d)
       \/ Stop(d) \/ TerminateAll(d) \/ RemoveToken(d) \/ Exit(d)
  \/ \E p \in Pids : ChildExits(p) \/ UserStarts(p)
  \/ ReadPidFile \/ RemovePidFile

-----------------------------------------------------------------------------
(* A child is its daemon's, or the ledger tells the next daemon of it; none outlives
   a daemon that stopped in order. *)
NoStrays ==
  \A p \in Pids : LET d == process[p].of IN
    d # NoDaemon => \/ Running(d)
                    \/ daemon[d] = "crashed" /\ Entry(p, d) \in ledger

(* The files name the daemon that is up, to everyone who looks. *)
Findable == \A d \in Daemons : daemon[d] = "up" => pidFile = d /\ token = d

(* processes.ts, index.ts, launcher.ts: over starts, crashes and stops in any order every child
   spawned through the supervisor is accounted for (ptys and the setup commands of a workspace are
   not), nobody else's process is killed, and there is one daemon which can be found as soon as it
   is up. *)
ProcessesAccounted ==
  /\ NoStrays /\ ~innocent /\ Findable
  /\ Cardinality({d \in Daemons : Running(d)}) <= 1
=============================================================================
