------------------------- MODULE DaemonParts_proofs -------------------------
(***************************************************************************)
(* Proofs about the daemon and about those who start and command it, for   *)
(* every number of processes, projects, workspaces, events, turns,         *)
(* gateways, versions and installers: which processes there are, what the  *)
(* settings and the registries hold, what becomes of a command, what the   *)
(* homes of the harnesses say, which versions are installed, and what the  *)
(* search index has.  MCServices_proofs draws the theorems about the       *)
(* system from them.                                                       *)
(***************************************************************************)
EXTENDS Processes, Settings, Workspaces, SearchIndexer, Cli, HarnessFiles, Installer,
        TLAPS, FiniteSetTheorems, SequenceTheorems, WellFoundedInduction

(* Numbers have a least one, so Min is one of them. *)
LEMMA MinIsIn ==
  ASSUME NEW S \in SUBSET Nat, S # {}
  PROVE  Min(S) \in S /\ \A y \in S : Min(S) <= y
<1>1. PICK x \in S : \A y \in S : ~(<<y, x>> \in OpToRel(<, Nat))
  BY NatLessThanWellFounded, WFMin, Zenon
<1>2. \A y \in S : ~(y < x)
  BY <1>1 DEF OpToRel
<1>3. x \in Nat /\ \A y \in S : y \in Nat
  OBVIOUS
<1>4. \A y \in S : x <= y
  BY <1>2, <1>3
<1> QED
  BY <1>4 DEF Min

(* So what holds of 0 and of the next number with each holds of all numbers. *)
LEMMA Induction ==
  ASSUME NEW S, 0 \in S, \A n \in Nat : n \in S => n + 1 \in S
  PROVE  Nat \subseteq S
<1> SUFFICES ASSUME Nat \ S # {} PROVE FALSE
  OBVIOUS
<1> DEFINE R == OpToRel(<, Nat)
<1>1. IsWellFoundedOn(R, Nat)
  BY NatLessThanWellFounded
<1>2. \A x, y \in Nat : x < y => <<x, y>> \in R
  BY DEF OpToRel
<1> HIDE DEF R
<1>3. PICK x \in Nat \ S : \A y \in Nat \ S : <<y, x>> \notin R
  BY <1>1, WFMin, Zenon
<1>4. x # 0 /\ x - 1 \in Nat /\ x - 1 < x
  BY <1>3
<1>5. x - 1 \in S
  BY <1>2, <1>3, <1>4
<1> QED
  BY <1>3, <1>4, <1>5

(* The steps lead from the base through members of S. *)
Leads(S, size, base, step) ==
  \E f \in [0..size -> S] :
    f[0] = base /\ \A n \in 1..size : f[n] = step[n][f[n - 1]]

(* A recursion over 1..size has a result. *)
LEMMA Recursion ==
  ASSUME NEW S, NEW size \in Nat, NEW base \in S, NEW step \in [1..size -> [S -> S]]
  PROVE  Leads(S, size, base, step)
<1> DEFINE Upto(k, f) == f[0] = base /\ \A n \in 1..k : f[n] = step[n][f[n - 1]]
           T == {k \in Nat : k <= size => \E f \in [0..k -> S] : Upto(k, f)}
<1>1. 0 \in T
  <2>1. Upto(0, [n \in 0..0 |-> base]) /\ [n \in 0..0 |-> base] \in [0..0 -> S]
    OBVIOUS
  <2> QED
    BY <2>1, Zenon
<1>2. ASSUME NEW k \in Nat, k \in T
      PROVE  k + 1 \in T
  <2> SUFFICES ASSUME k + 1 <= size
               PROVE  \E f \in [0..k + 1 -> S] : Upto(k + 1, f)
    OBVIOUS
  <2>1. PICK f \in [0..k -> S] : Upto(k, f)
    BY <1>2
  <2> DEFINE g == [n \in 0..k + 1 |-> IF n = k + 1 THEN step[k + 1][f[k]] ELSE f[n]]
  <2>2. step[k + 1][f[k]] \in S
    OBVIOUS
  <2>3. g \in [0..k + 1 -> S]
    BY <2>2
  <2>4. g[0] = base
    BY <2>1
  <2>5. ASSUME NEW n \in 1..k + 1
        PROVE  g[n] = step[n][g[n - 1]]
    <3>1. CASE n = k + 1
      BY <3>1
    <3>2. CASE n # k + 1
      BY <2>1, <3>2
    <3> QED
      BY <3>1, <3>2
  <2> QED
    BY <2>3, <2>4, <2>5
<1>3. Nat \subseteq T
  <2> HIDE DEF T
  <2> QED
    BY <1>1, <1>2, Induction
<1> QED
  BY <1>3 DEF Leads

-----------------------------------------------------------------------------
(* Processes *)

Stages == {"unborn", "started", "reaping", "reaped", "up", "draining", "terminated", "tidied",
           "stopped", "crashed"}
InService   == {"up", "draining", "terminated", "tidied"}
Occupants == [kind : {"free", "user", "spawning", "child"}, of : Daemons \cup {NoDaemon}]
LedgerOps == [op : {"append", "remove"}, pids : SUBSET Pids]

ProcessTypes ==
  /\ daemon \in [Daemons -> Stages]
  /\ pidFile \in Daemons \cup {NoDaemon} /\ token \in Daemons \cup {NoDaemon}
  /\ holder \in Daemons \cup {NoDaemon}
  /\ process \in [Pids -> Occupants]
  /\ live \in [Daemons -> SUBSET Pids]
  /\ ledger \subseteq [pid : Pids, daemonPid : Daemons]
  /\ ledgerChain \in [Daemons -> Seq(LedgerOps)]

(* There is one daemon at a time. *)
OneDaemon == \A d, e \in Daemons : Running(d) /\ Running(e) => d = e

(* A process with a daemon is a child, and a child is of a daemon that was up. *)
ChildrenKnown ==
  \A p \in Pids :
    /\ process[p].kind \in {"spawning", "child"} <=> process[p].of # NoDaemon
    /\ process[p].of # NoDaemon => daemon[process[p].of] \in {"up", "draining", "crashed"}

(* What a daemon holds live are its children, and what a dead one left is in the ledger. *)
ChildrenKept ==
  \A d \in Daemons :
    /\ Running(d) => live[d] = {p \in Pids : process[p] = Child("child", d)}
    /\ daemon[d] = "unborn" => live[d] = {}
    /\ daemon[d] = "crashed" => Logged(d)
    /\ ledgerChain[d] # <<>> => daemon[d] \in InService

(* A daemon that has reaped is alone, with its processes and in the ledger. *)
ReapedAll ==
  \A d \in Daemons : daemon[d] = "reaped" \/ daemon[d] \in InService =>
    /\ \A p \in Pids : process[p].of = NoDaemon \/ process[p].of = d
    /\ \A e \in ledger : e.daemonPid = d

(* Programs of the user have pids that neither the ledger nor a write of it mentions. *)
UsersApart == \A p \in Pids : process[p].kind = "user" => ~Mentioned(p)

(* The files are those of the daemon, and nobody is about to remove its pid file. *)
FilesNameIt ==
  \A d \in Daemons :
    /\ daemon[d] \in {"reaping", "reaped", "up", "draining", "terminated"} => token = d
    /\ daemon[d] \in InService => pidFile = d /\ (holder = NoDaemon \/ holder = d)

ProcessesInv ==
  /\ ProcessTypes /\ OneDaemon /\ ChildrenKnown /\ ChildrenKept /\ ReapedAll /\ UsersApart
  /\ FilesNameIt /\ ~innocent

ProcessRaces == {"two", "stale", "unlogged", "reuse", "latespawn", "twice"}

LEMMA ProcessRacesBarred ==
  ASSUME Barred(ProcessRaces)
  PROVE  /\ ~Allows("two") /\ ~Allows("stale") /\ ~Allows("unlogged")
         /\ ~Allows("reuse") /\ ~Allows("latespawn") /\ ~Allows("twice")
BY DEF Barred, ProcessRaces, Allows

LEMMA LaunchKeeps ==
  ASSUME ProcessesInv, Barred(ProcessRaces), NEW d \in Daemons, Launch(d)
  PROVE  ProcessesInv'
<1> USE ProcessesAssumption DEF ProcessesInv
<1>1. daemon' = [daemon EXCEPT ![d] = "started"] /\ pidFile' = NoDaemon /\ daemon[d] = "unborn"
  BY DEF Launch, Becomes
<1>2. UNCHANGED <<token, holder, process, live, ledger, ledgerChain, innocent>>
  BY DEF Launch
<1>3. \A e \in Daemons : ~Running(e)
  BY ProcessRacesBarred DEF Launch, Running
<1>4. \A e \in Daemons : Running(e)' <=> e = d
  BY <1>1, <1>3 DEF Running, ProcessTypes
<1>5. ProcessTypes'
  BY <1>1, <1>2 DEF ProcessTypes, Stages
<1>6. OneDaemon'
  BY <1>4 DEF OneDaemon
<1>7. ChildrenKnown'
  BY <1>1, <1>2 DEF ChildrenKnown, ProcessTypes, Occupants
<1>8. ChildrenKept'
  <2> SUFFICES ASSUME NEW e \in Daemons
               PROVE  /\ Running(e)' => live'[e] = {p \in Pids : process'[p] = Child("child", e)}
                      /\ daemon'[e] = "unborn" => live'[e] = {}
                      /\ daemon'[e] = "crashed" => Logged(e)'
                      /\ ledgerChain'[e] # <<>> => daemon'[e] \in InService
    BY DEF ChildrenKept
  <2>1. ledgerChain[e] = <<>>
    BY <1>3 DEF ChildrenKept, Running, InService
  <2>2. ASSUME Running(e)'
        PROVE  live'[e] = {p \in Pids : process'[p] = Child("child", e)}
    <3>1. daemon[e] = "unborn" /\ e # NoDaemon
      BY <1>1, <1>4, <2>2
    <3>2. \A p \in Pids : process[p] # Child("child", e)
      BY <3>1 DEF ChildrenKnown, Child
    <3> QED
      BY <1>2, <3>1, <3>2 DEF ChildrenKept
  <2>3. (daemon'[e] = "unborn" => live'[e] = {}) /\ (daemon'[e] = "crashed" => Logged(e)')
    BY <1>1, <1>2 DEF ChildrenKept, Logged, ChildrenOf, ProcessTypes
  <2> QED
    BY <1>2, <2>1, <2>2, <2>3
<1>9. ReapedAll'
  BY <1>1, <1>3, <1>4 DEF ReapedAll, Running, ProcessTypes, InService
<1>10. UsersApart'
  BY <1>2 DEF UsersApart, Mentioned
<1>11. FilesNameIt'
  BY <1>1, <1>3, <1>4 DEF FilesNameIt, Running, ProcessTypes, InService
<1> QED
  BY <1>2, <1>5, <1>6, <1>7, <1>8, <1>9, <1>10, <1>11

(* A step that changes the stage of a daemon and perhaps its files. *)
Restages(d, stages) ==
  /\ \E stage \in stages : daemon' = [daemon EXCEPT ![d] = stage]
  /\ UNCHANGED <<process, live, ledger, ledgerChain, innocent>>

LEMMA RestageKeeps ==
  ASSUME ProcessesInv, NEW d \in Daemons, Running(d),
         \/ daemon[d] \in {"started", "reaping"} /\ Restages(d, {"reaping"})
         \/ daemon[d] = "reaped" /\ Restages(d, {"up"})
         \/ daemon[d] = "up" /\ Restages(d, {"draining"})
         \/ daemon[d] = "terminated" /\ Restages(d, {"tidied"})
  PROVE  /\ OneDaemon' /\ ChildrenKnown' /\ ChildrenKept' /\ ReapedAll' /\ UsersApart'
         /\ ~innocent'
         /\ \A e \in Daemons : Running(e)' <=> e = d
         /\ \A e \in Daemons : daemon'[e] \in Stages /\ (e # d => daemon'[e] = daemon[e])
<1> USE ProcessesAssumption DEF ProcessesInv
<1>1. UNCHANGED <<process, live, ledger, ledgerChain, innocent>>
  BY DEF Restages
<1>2. PICK stage \in {"reaping", "up", "draining", "tidied"} : daemon' = [daemon EXCEPT ![d] = stage]
  BY DEF Restages
<1>3. \A e \in Daemons : e # d => daemon'[e] = daemon[e]
  BY <1>2
<1>4. daemon'[d] = stage /\ daemon' \in [Daemons -> Stages]
  BY <1>2 DEF ProcessTypes, Stages
<1>5. \A e \in Daemons : Running(e) <=> e = d
  BY DEF OneDaemon
<1>6. \A e \in Daemons : Running(e)' <=> e = d
  BY <1>3, <1>4, <1>5 DEF Running
<1>7. OneDaemon'
  BY <1>6 DEF OneDaemon
<1>8. ChildrenKnown'
  <2>1. daemon[d] \in {"started", "reaping", "reaped", "terminated"} \/ stage = "draining"
    BY <1>2, <1>4 DEF Restages, ProcessTypes
  <2>2. \A p \in Pids : process[p].of \in Daemons \cup {NoDaemon}
    BY DEF ProcessTypes, Occupants
  <2> QED
    BY <1>1, <1>3, <1>4, <2>1, <2>2 DEF ChildrenKnown
<1>9. ChildrenKept'
  <2>1. ledgerChain[d] # <<>> => stage \in InService
    BY <1>4 DEF Restages, ChildrenKept, InService, ProcessTypes
  <2> QED
    BY <1>1, <1>3, <1>4, <1>5, <1>6, <2>1 DEF ChildrenKept, Logged, ChildrenOf, Running
<1>10. ReapedAll'
  <2>1. stage \in InService => daemon[d] = "reaped" \/ daemon[d] \in InService
    BY <1>4 DEF Restages, InService, ProcessTypes
  <2> QED
    BY <1>1, <1>3, <1>4, <2>1 DEF ReapedAll
<1>11. UsersApart'
  BY <1>1 DEF UsersApart, Mentioned
<1> QED
  BY <1>1, <1>3, <1>4, <1>6, <1>7, <1>8, <1>9, <1>10, <1>11

LEMMA WriteTokenKeeps ==
  ASSUME ProcessesInv, NEW d \in Daemons, WriteToken(d)
  PROVE  ProcessesInv'
<1> USE ProcessesAssumption DEF ProcessesInv
<1>1. Running(d) /\ daemon[d] = "started" /\ Restages(d, {"reaping"}) /\ token' = d
      /\ UNCHANGED <<pidFile, holder>> /\ daemon' = [daemon EXCEPT ![d] = "reaping"]
  BY DEF WriteToken, Becomes, Restages, Running
<1>2. /\ OneDaemon' /\ ChildrenKnown' /\ ChildrenKept' /\ ReapedAll' /\ UsersApart'
      /\ ~innocent'
      /\ \A e \in Daemons : Running(e)' <=> e = d
  BY <1>1, RestageKeeps
<1>3. ProcessTypes'
  BY <1>1 DEF ProcessTypes, Stages, Restages
<1>4. FilesNameIt'
  BY <1>1, <1>2 DEF FilesNameIt, Running, InService, ProcessTypes
<1> QED
  BY <1>2, <1>3, <1>4

LEMMA WritePidFileKeeps ==
  ASSUME ProcessesInv, Barred(ProcessRaces), NEW d \in Daemons, WritePidFile(d)
  PROVE  ProcessesInv'
<1> USE ProcessesAssumption DEF ProcessesInv
<1>1. Running(d) /\ daemon[d] = "reaped" /\ Restages(d, {"up"}) /\ pidFile' = d
      /\ UNCHANGED <<token, holder>> /\ daemon' = [daemon EXCEPT ![d] = "up"] /\ holder = NoDaemon
  BY ProcessRacesBarred DEF WritePidFile, Becomes, Restages, Running
<1>2. /\ OneDaemon' /\ ChildrenKnown' /\ ChildrenKept' /\ ReapedAll' /\ UsersApart'
      /\ ~innocent'
      /\ \A e \in Daemons : Running(e)' <=> e = d
  BY <1>1, RestageKeeps
<1>3. ProcessTypes'
  BY <1>1 DEF ProcessTypes, Stages, Restages
<1>4. FilesNameIt'
  BY <1>1, <1>2 DEF FilesNameIt, Running, InService, ProcessTypes
<1> QED
  BY <1>2, <1>3, <1>4

LEMMA StopKeeps ==
  ASSUME ProcessesInv, NEW d \in Daemons, Stop(d)
  PROVE  ProcessesInv'
<1> USE ProcessesAssumption DEF ProcessesInv
<1>1. Running(d) /\ daemon[d] = "up" /\ Restages(d, {"draining"})
      /\ UNCHANGED <<pidFile, token, holder>> /\ daemon' = [daemon EXCEPT ![d] = "draining"]
  BY DEF Stop, Becomes, Restages, Running, daemonFiles
<1>2. /\ OneDaemon' /\ ChildrenKnown' /\ ChildrenKept' /\ ReapedAll' /\ UsersApart'
      /\ ~innocent'
      /\ \A e \in Daemons : Running(e)' <=> e = d
  BY <1>1, RestageKeeps
<1>3. ProcessTypes'
  BY <1>1 DEF ProcessTypes, Stages, Restages
<1>4. FilesNameIt'
  BY <1>1, <1>2 DEF FilesNameIt, Running, InService, ProcessTypes
<1> QED
  BY <1>2, <1>3, <1>4

LEMMA RemoveTokenKeeps ==
  ASSUME ProcessesInv, NEW d \in Daemons, RemoveToken(d)
  PROVE  ProcessesInv'
<1> USE ProcessesAssumption DEF ProcessesInv
<1>1. Running(d) /\ daemon[d] = "terminated" /\ Restages(d, {"tidied"}) /\ token' = NoDaemon
      /\ UNCHANGED <<pidFile, holder>> /\ daemon' = [daemon EXCEPT ![d] = "tidied"]
  BY DEF RemoveToken, Becomes, Restages, Running
<1>2. /\ OneDaemon' /\ ChildrenKnown' /\ ChildrenKept' /\ ReapedAll' /\ UsersApart'
      /\ ~innocent'
      /\ \A e \in Daemons : Running(e)' <=> e = d
  BY <1>1, RestageKeeps
<1>3. ProcessTypes'
  BY <1>1 DEF ProcessTypes, Stages, Restages
<1>4. FilesNameIt'
  BY <1>1, <1>2 DEF FilesNameIt, Running, InService, ProcessTypes
<1> QED
  BY <1>2, <1>3, <1>4

(* Nothing is queued and there are no children before a daemon serves. *)
LEMMA ReapStaleKeeps ==
  ASSUME ProcessesInv, NEW d \in Daemons, ReapStale(d)
  PROVE  ProcessesInv'
<1> USE ProcessesAssumption DEF ProcessesInv
<1>1. daemon[d] = "reaping" /\ Running(d) /\ daemon' = [daemon EXCEPT ![d] = "reaped"]
      /\ UNCHANGED <<pidFile, token, holder, live, ledgerChain>>
      /\ process' = [p \in Pids |-> IF p \in Foreign(d) THEN Free ELSE process[p]]
      /\ ledger' = {e \in ledger : e.daemonPid = d}
  BY DEF ReapStale, Becomes, daemonFiles, Running
<1>2. \A e \in Daemons : (Running(e) <=> e = d) /\ (Running(e)' <=> e = d)
  BY <1>1 DEF OneDaemon, Running, ProcessTypes
<1>3. \A p \in Pids : process[p].of # d
  BY <1>1 DEF ChildrenKnown
<1>4. \A p \in Pids : process[p].of # NoDaemon => p \in Foreign(d)
  <2> SUFFICES ASSUME NEW p \in Pids, process[p].of # NoDaemon
               PROVE  p \in Foreign(d)
    OBVIOUS
  <2>1. process[p].of \in Daemons /\ process[p].of # d
    BY <1>3 DEF ProcessTypes, Occupants
  <2>2. daemon[process[p].of] = "crashed"
    BY <1>2, <2>1 DEF ChildrenKnown, Running
  <2>3. Entry(p, process[p].of) \in ledger
    BY <2>1, <2>2 DEF ChildrenKept, Logged, ChildrenOf
  <2> QED
    BY <2>1, <2>3 DEF Foreign, Entry
<1>5. \A p \in Pids : process'[p].of = NoDaemon
  BY <1>1, <1>4 DEF Free
<1>6. \A p \in Pids : p \in Foreign(d) => process[p].kind # "user"
  BY DEF UsersApart, Mentioned, Foreign
<1>7. ProcessTypes'
  BY <1>1 DEF ProcessTypes, Stages, Occupants, Free
<1>8. OneDaemon'
  BY <1>2 DEF OneDaemon
<1>9. ChildrenKnown'
  <2>1. \A p \in Pids : process'[p].kind \notin {"spawning", "child"}
    BY <1>1, <1>4 DEF ChildrenKnown, Free
  <2> QED
    BY <1>5, <2>1 DEF ChildrenKnown
<1>10. ChildrenKept'
  <2>1. live[d] = {}
    <3>1. \A p \in Pids : process[p] # Child("child", d)
      BY <1>3 DEF Child
    <3> QED
      BY <1>1, <3>1 DEF ChildrenKept
  <2>2. \A p \in Pids : process'[p] # Child("child", d)
    BY <1>5 DEF Child
  <2>3. \A e \in Daemons : Logged(e)'
    BY <1>5 DEF Logged, ChildrenOf
  <2>4. \A e \in Daemons : e # d => daemon'[e] = daemon[e]
    BY <1>1
  <2>5. daemon'[d] = "reaped" /\ ledgerChain[d] = <<>>
    BY <1>1 DEF ChildrenKept, InService, ProcessTypes
  <2> QED
    BY <1>1, <1>2, <2>1, <2>2, <2>3, <2>4, <2>5 DEF ChildrenKept
<1>11. ReapedAll'
  BY <1>1, <1>2, <1>5 DEF ReapedAll, Running, InService
<1>12. UsersApart'
  <2>1. \A p \in Pids : process'[p].kind = "user" => process[p].kind = "user"
    BY <1>1 DEF Free
  <2> QED
    BY <1>1, <2>1 DEF UsersApart, Mentioned
<1>13. FilesNameIt'
  BY <1>1, <1>2 DEF FilesNameIt, Running, InService, ProcessTypes
<1>14. ~innocent'
  <2> SUFFICES ASSUME NEW p \in Foreign(d),
                      process[p].kind = "user" \/ (process[p].of # NoDaemon /\ Running(process[p].of))
               PROVE  FALSE
    BY DEF ReapStale
  <2>1. p \in Pids
    BY DEF Foreign, ProcessTypes
  <2> QED
    BY <1>2, <1>3, <1>6, <2>1 DEF ProcessTypes, Occupants
<1> QED
  BY <1>7, <1>8, <1>9, <1>10, <1>11, <1>12, <1>13, <1>14

LEMMA SpawnKeeps ==
  ASSUME ProcessesInv, NEW d \in Daemons, NEW q \in Pids, Spawn(d, q)
  PROVE  ProcessesInv'
<1> USE ProcessesAssumption DEF ProcessesInv
<1>1. daemon[d] = "up" /\ Running(d) /\ process[q] = Free
      /\ process' = [process EXCEPT ![q] = Child("spawning", d)]
      /\ UNCHANGED <<daemon, pidFile, token, holder, live, ledger, ledgerChain, innocent>>
  BY DEF Spawn, daemonFiles, Running
<1>2. \A e \in Daemons : Running(e) <=> e = d
  BY <1>1 DEF OneDaemon
<1>3. ProcessTypes'
  BY <1>1 DEF ProcessTypes, Occupants, Child
<1>4. OneDaemon' /\ FilesNameIt'
  BY <1>1 DEF OneDaemon, FilesNameIt, Running
<1>5. ChildrenKnown'
  BY <1>1 DEF ChildrenKnown, Child, ProcessTypes
<1>6. ChildrenKept'
  <2>1. \A e \in Daemons : {p \in Pids : process'[p] = Child("child", e)}
                             = {p \in Pids : process[p] = Child("child", e)}
    BY <1>1 DEF Child, Free, ProcessTypes
  <2>2. \A e \in Daemons : daemon[e] = "crashed" => Logged(e)'
    BY <1>1, <1>2 DEF ChildrenKept, Logged, ChildrenOf, Running, Child, ProcessTypes
  <2> QED
    BY <1>1, <2>1, <2>2 DEF ChildrenKept, Running
<1>7. ReapedAll'
  BY <1>1, <1>2 DEF ReapedAll, Child, Running, InService, ProcessTypes
<1>8. UsersApart'
  BY <1>1 DEF UsersApart, Mentioned, Child, ProcessTypes
<1> QED
  BY <1>1, <1>3, <1>4, <1>5, <1>6, <1>7, <1>8

(* A write of the ledger is queued, with pids that are not of the user. *)
LEMMA EnqueueKeepsApart ==
  ASSUME ProcessesInv, NEW d \in Daemons, NEW op, NEW ps \in SUBSET Pids, Enqueue(d, op, ps),
         UNCHANGED ledger, \A p \in Pids : process'[p].kind = "user" => process[p].kind = "user" /\ p \notin ps
  PROVE  UsersApart'
<1> USE DEF ProcessesInv
<1>1. ledgerChain[d] \in Seq(LedgerOps)
  BY DEF ProcessTypes
<1>2. \A i \in DOMAIN ledgerChain'[d] :
        (i \in DOMAIN ledgerChain[d] /\ ledgerChain'[d][i] = ledgerChain[d][i])
        \/ ledgerChain'[d][i].pids = ps
  BY <1>1 DEF Enqueue, ProcessTypes
<1>3. \A e \in Daemons : e # d => ledgerChain'[e] = ledgerChain[e]
  BY DEF Enqueue, ProcessTypes
<1> SUFFICES ASSUME NEW p \in Pids, process'[p].kind = "user", Mentioned(p)'
             PROVE  FALSE
  BY DEF UsersApart
<1>4. ~Mentioned(p) /\ p \notin ps
  BY DEF UsersApart
<1> QED
  BY <1>2, <1>3, <1>4 DEF Mentioned

LEMMA SpawnedKeeps ==
  ASSUME ProcessesInv, NEW d \in Daemons, NEW q \in Pids, Spawned(d, q)
  PROVE  ProcessesInv'
<1> USE ProcessesAssumption DEF ProcessesInv
<1>1. Running(d) /\ process[q] = Child("spawning", d) /\ Enqueue(d, "append", {q})
      /\ process' = [process EXCEPT ![q] = Child("child", d)]
      /\ live' = [live EXCEPT ![d] = @ \cup {q}]
      /\ UNCHANGED <<daemon, pidFile, token, holder, ledger, innocent>>
  BY DEF Spawned, daemonFiles
<1>2. \A e \in Daemons : Running(e) <=> e = d
  BY <1>1 DEF OneDaemon
<1>3. daemon[d] \in {"up", "draining"}
  BY <1>1 DEF ChildrenKnown, Child, Running
<1>4. ProcessTypes'
  <2>1. [op |-> "append", pids |-> {q}] \in LedgerOps
    BY DEF LedgerOps
  <2>2. ledgerChain' \in [Daemons -> Seq(LedgerOps)]
    BY <1>1, <2>1 DEF ProcessTypes, Enqueue
  <2> QED
    BY <1>1, <2>2 DEF ProcessTypes, Occupants, Child
<1>5. OneDaemon' /\ FilesNameIt'
  BY <1>1 DEF OneDaemon, FilesNameIt, Running
<1>6. ChildrenKnown'
  BY <1>1, <1>3 DEF ChildrenKnown, Child, ProcessTypes
<1>7. ChildrenKept'
  <2>1. live'[d] = {p \in Pids : process'[p] = Child("child", d)}
    <3>1. live[d] = {p \in Pids : process[p] = Child("child", d)}
      BY <1>1 DEF ChildrenKept
    <3>2. live'[d] = live[d] \cup {q}
      BY <1>1 DEF ProcessTypes
    <3>3. \A p \in Pids : process'[p] = Child("child", d) <=> p = q \/ process[p] = Child("child", d)
      BY <1>1 DEF ProcessTypes
    <3> QED
      BY <3>1, <3>2, <3>3
  <2>2. \A e \in Daemons : daemon[e] = "crashed" => Logged(e)'
    BY <1>1, <1>2 DEF ChildrenKept, Logged, ChildrenOf, Running, Child, ProcessTypes
  <2>3. \A e \in Daemons : e # d => live'[e] = live[e] /\ ledgerChain'[e] = ledgerChain[e]
    BY <1>1 DEF Enqueue, ProcessTypes
  <2> QED
    BY <1>1, <1>2, <1>3, <2>1, <2>2, <2>3 DEF ChildrenKept, Running, InService
<1>8. ReapedAll'
  BY <1>1, <1>2 DEF ReapedAll, Child, Running, InService, ProcessTypes
<1>9. UsersApart'
  BY <1>1, EnqueueKeepsApart DEF Child, ProcessTypes
<1> QED
  BY <1>1, <1>4, <1>5, <1>6, <1>7, <1>8, <1>9

LEMMA ChildExitsKeeps ==
  ASSUME ProcessesInv, NEW q \in Pids, ChildExits(q)
  PROVE  ProcessesInv'
<1> USE ProcessesAssumption DEF ProcessesInv
<1>1. process[q].kind = "child" /\ process' = [process EXCEPT ![q] = Free]
      /\ UNCHANGED <<daemon, pidFile, token, holder, ledger, innocent>>
  BY DEF ChildExits, daemonFiles
<1> DEFINE d == process[q].of
<1>2. d \in Daemons /\ process[q] = Child("child", d)
  <2>1. process[q] \in Occupants /\ d # NoDaemon
    BY <1>1 DEF ProcessTypes, ChildrenKnown
  <2> QED
    BY <1>1, <2>1 DEF Occupants, Child
<1>3. CASE Running(d)
  <2>1. live' = [live EXCEPT ![d] = @ \ {q}] /\ Enqueue(d, "remove", {q})
    BY <1>3 DEF ChildExits
  <2>2. ProcessTypes'
    <3>1. [op |-> "remove", pids |-> {q}] \in LedgerOps
      BY DEF LedgerOps
    <3>2. ledgerChain' \in [Daemons -> Seq(LedgerOps)]
      BY <1>2, <2>1, <3>1 DEF ProcessTypes, Enqueue
    <3> QED
      BY <1>1, <1>2, <2>1, <3>2 DEF ProcessTypes, Occupants, Free
  <2>3. live'[d] = {p \in Pids : process'[p] = Child("child", d)}
    <3>1. live[d] = {p \in Pids : process[p] = Child("child", d)}
      BY <1>2, <1>3 DEF ChildrenKept
    <3>2. live'[d] = live[d] \ {q}
      BY <1>2, <2>1 DEF ProcessTypes
    <3>3. \A p \in Pids : process'[p] = Child("child", d) <=> p # q /\ process[p] = Child("child", d)
      BY <1>1, <1>2 DEF ProcessTypes, Free, Child
    <3> QED
      BY <3>1, <3>2, <3>3
  <2>4. \A e \in Daemons : e # d => live'[e] = live[e] /\ ledgerChain'[e] = ledgerChain[e]
    BY <2>1 DEF Enqueue, ProcessTypes
  <2>5. daemon[d] \in {"up", "draining"}
    BY <1>2, <1>3 DEF ChildrenKnown, Running
  <2>6. \A e \in Daemons : daemon[e] = "crashed" => Logged(e)'
    BY <1>1 DEF ChildrenKept, Logged, ChildrenOf, Free, ProcessTypes
  <2>7. \A e \in Daemons : Running(e) <=> e = d
    BY <1>2, <1>3 DEF OneDaemon
  <2>8. ChildrenKept'
    BY <1>1, <2>3, <2>4, <2>5, <2>6, <2>7 DEF ChildrenKept, Running, InService
  <2>9. UsersApart'
    BY <1>1, <1>2, <2>1, EnqueueKeepsApart DEF Free, ProcessTypes
  <2>10. OneDaemon' /\ FilesNameIt' /\ ChildrenKnown' /\ ReapedAll'
    BY <1>1 DEF OneDaemon, FilesNameIt, Running, ChildrenKnown, ReapedAll, Free, ProcessTypes
  <2> QED
    BY <1>1, <2>2, <2>8, <2>9, <2>10
<1>4. CASE ~Running(d)
  <2>1. UNCHANGED <<live, ledgerChain>>
    BY <1>4 DEF ChildExits
  <2>2. ProcessTypes'
    BY <1>1, <2>1 DEF ProcessTypes, Occupants, Free
  <2>3. \A e \in Daemons : daemon[e] = "crashed" => Logged(e)'
    BY <1>1 DEF ChildrenKept, Logged, ChildrenOf, Free, ProcessTypes
  <2>4. \A e \in Daemons : Running(e) =>
          {p \in Pids : process'[p] = Child("child", e)} = {p \in Pids : process[p] = Child("child", e)}
    <3> SUFFICES ASSUME NEW e \in Daemons, Running(e), NEW p \in Pids
                 PROVE  process'[p] = Child("child", e) <=> process[p] = Child("child", e)
      OBVIOUS
    <3>1. e # d
      BY <1>4
    <3> QED
      BY <1>1, <1>2, <3>1 DEF Child, Free, ProcessTypes
  <2>5. ChildrenKept'
    BY <1>1, <2>1, <2>3, <2>4 DEF ChildrenKept, Running
  <2>6. UsersApart'
    BY <1>1, <2>1 DEF UsersApart, Mentioned, Free, ProcessTypes
  <2>7. OneDaemon' /\ FilesNameIt' /\ ChildrenKnown' /\ ReapedAll'
    BY <1>1 DEF OneDaemon, FilesNameIt, Running, ChildrenKnown, ReapedAll, Free, ProcessTypes
  <2> QED
    BY <1>1, <2>2, <2>5, <2>6, <2>7
<1> QED
  BY <1>3, <1>4

LEMMA LedgerWriteKeeps ==
  ASSUME ProcessesInv, NEW d \in Daemons, LedgerWrite(d)
  PROVE  ProcessesInv'
<1> USE ProcessesAssumption DEF ProcessesInv
<1> DEFINE write == Head(ledgerChain[d])
<1>1. Running(d) /\ ledgerChain[d] # <<>> /\ ledgerChain[d] \in Seq(LedgerOps)
      /\ ledger' = (IF write.op = "append" THEN ledger \cup {Entry(p, d) : p \in write.pids}
                    ELSE Without(ledger, write.pids))
      /\ ledgerChain' = [ledgerChain EXCEPT ![d] = Tail(@)]
      /\ UNCHANGED <<daemon, pidFile, token, holder, process, live, innocent>>
  BY DEF LedgerWrite, daemonFiles, ProcessTypes
<1>2. write \in LedgerOps /\ write = ledgerChain[d][1] /\ 1 \in DOMAIN ledgerChain[d]
  BY <1>1
<1>3. Tail(ledgerChain[d]) \in Seq(LedgerOps)
      /\ \A i \in DOMAIN Tail(ledgerChain[d]) :
           i + 1 \in DOMAIN ledgerChain[d] /\ Tail(ledgerChain[d])[i] = ledgerChain[d][i + 1]
  BY <1>1
<1>4. daemon[d] \in InService
  BY <1>1 DEF ChildrenKept
<1>5. ledger' \subseteq ledger \cup {Entry(p, d) : p \in write.pids}
  BY <1>1 DEF Without
<1>6. ProcessTypes'
  <2>1. ledger' \subseteq [pid : Pids, daemonPid : Daemons]
    BY <1>2, <1>5 DEF ProcessTypes, LedgerOps, Entry
  <2> QED
    BY <1>1, <1>3, <2>1 DEF ProcessTypes
<1>7. OneDaemon' /\ FilesNameIt' /\ ChildrenKnown'
  BY <1>1 DEF OneDaemon, FilesNameIt, Running, ChildrenKnown
<1>8. ReapedAll'
  <2>1. \A e \in Daemons : daemon[e] = "reaped" \/ daemon[e] \in InService => e = d
    BY <1>1 DEF OneDaemon, Running, InService
  <2>2. \A e \in ledger' : e.daemonPid = d
    BY <1>4, <1>5 DEF ReapedAll, Entry
  <2> QED
    BY <1>1, <1>4, <2>1, <2>2 DEF ReapedAll
<1>9. ChildrenKept'
  <2>1. \A e \in Daemons : daemon[e] = "crashed" => Logged(e)'
    <3> SUFFICES ASSUME NEW e \in Daemons, daemon[e] = "crashed", NEW p \in Pids, process[p].of = e
                 PROVE  FALSE
      BY <1>1 DEF Logged, ChildrenOf
    <3>1. e # d
      BY <1>1 DEF Running
    <3> QED
      BY <1>4, <3>1 DEF ReapedAll
  <2>2. \A e \in Daemons : ledgerChain'[e] # <<>> => daemon[e] \in InService
    BY <1>1, <1>4 DEF ChildrenKept, ProcessTypes
  <2> QED
    BY <1>1, <2>1, <2>2 DEF ChildrenKept, Running
<1>10. UsersApart'
  <2> SUFFICES ASSUME NEW p \in Pids, process[p].kind = "user", Mentioned(p)'
               PROVE  FALSE
    BY <1>1 DEF UsersApart
  <2>1. ~Mentioned(p)
    BY DEF UsersApart
  <2>2. p \notin write.pids
    BY <1>2, <2>1 DEF Mentioned
  <2>3. \A e \in ledger' : e.pid # p
    BY <1>5, <2>1, <2>2 DEF Mentioned, Entry
  <2>4. \A e \in Daemons : \A i \in DOMAIN ledgerChain'[e] : p \notin ledgerChain'[e][i].pids
    BY <1>1, <1>3, <2>1 DEF Mentioned, ProcessTypes
  <2> QED
    BY <2>3, <2>4 DEF Mentioned
<1> QED
  BY <1>1, <1>6, <1>7, <1>8, <1>9, <1>10

LEMMA UserStartsKeeps ==
  ASSUME ProcessesInv, Barred(ProcessRaces), NEW q \in Pids, UserStarts(q)
  PROVE  ProcessesInv'
<1> USE ProcessesAssumption DEF ProcessesInv
<1>1. process[q] = Free /\ ~Mentioned(q) /\ process' = [process EXCEPT ![q] = User]
      /\ UNCHANGED <<daemon, pidFile, token, holder, live, ledger, ledgerChain, innocent>>
  BY ProcessRacesBarred DEF UserStarts, daemonFiles
<1>2. ProcessTypes'
  BY <1>1 DEF ProcessTypes, Occupants, User
<1>3. OneDaemon' /\ FilesNameIt' /\ ChildrenKnown' /\ ReapedAll'
  BY <1>1 DEF OneDaemon, FilesNameIt, Running, ChildrenKnown, ReapedAll, User, ProcessTypes
<1>4. ChildrenKept'
  <2>1. \A e \in Daemons : {p \in Pids : process'[p] = Child("child", e)}
                             = {p \in Pids : process[p] = Child("child", e)}
    BY <1>1 DEF Child, Free, User, ProcessTypes
  <2>2. \A e \in Daemons : daemon[e] = "crashed" => Logged(e)'
    BY <1>1 DEF ChildrenKept, Logged, ChildrenOf, User, ProcessTypes
  <2> QED
    BY <1>1, <2>1, <2>2 DEF ChildrenKept, Running
<1>5. UsersApart'
  BY <1>1 DEF UsersApart, Mentioned, User, ProcessTypes
<1> QED
  BY <1>1, <1>2, <1>3, <1>4, <1>5

LEMMA CrashKeeps ==
  ASSUME ProcessesInv, Barred(ProcessRaces), NEW d \in Daemons, Crash(d)
  PROVE  ProcessesInv'
<1> USE ProcessesAssumption DEF ProcessesInv
<1>1. Running(d) /\ Logged(d) /\ daemon' = [daemon EXCEPT ![d] = "crashed"]
      /\ ledgerChain' = [ledgerChain EXCEPT ![d] = <<>>]
      /\ UNCHANGED <<pidFile, token, holder, process, live, ledger, innocent>>
  BY ProcessRacesBarred DEF Crash, Becomes, daemonFiles
<1>2. \A e \in Daemons : (Running(e) <=> e = d) /\ ~Running(e)'
  BY <1>1 DEF OneDaemon, Running, ProcessTypes
<1>3. \A e \in Daemons : e # d => daemon'[e] = daemon[e] /\ ledgerChain'[e] = ledgerChain[e]
  BY <1>1 DEF ProcessTypes
<1>4. daemon'[d] = "crashed" /\ ledgerChain'[d] = <<>>
  BY <1>1 DEF ProcessTypes
<1>5. ProcessTypes'
  BY <1>1 DEF ProcessTypes, Stages
<1>6. OneDaemon'
  BY <1>2 DEF OneDaemon
<1>7. ChildrenKnown'
  BY <1>1 DEF ChildrenKnown, ProcessTypes, Occupants
<1>8. ChildrenKept'
  BY <1>1, <1>2, <1>3, <1>4 DEF ChildrenKept, Logged, ChildrenOf
<1>9. ReapedAll' /\ FilesNameIt'
  BY <1>1, <1>3, <1>4 DEF ReapedAll, FilesNameIt, InService
<1>10. UsersApart'
  <2>1. \A p \in Pids : Mentioned(p)' => Mentioned(p)
    BY <1>1, <1>3, <1>4 DEF Mentioned
  <2> QED
    BY <1>1, <2>1 DEF UsersApart
<1> QED
  BY <1>1, <1>5, <1>6, <1>7, <1>8, <1>9, <1>10

LEMMA TerminateAllKeeps ==
  ASSUME ProcessesInv, Barred(ProcessRaces), NEW d \in Daemons, TerminateAll(d)
  PROVE  ProcessesInv'
<1> USE ProcessesAssumption DEF ProcessesInv
<1>1. daemon[d] = "draining" /\ Running(d) /\ Enqueue(d, "remove", live[d])
      /\ (\A p \in Pids : process[p] # Child("spawning", d))
      /\ process' = [p \in Pids |-> IF p \in live[d] THEN Free ELSE process[p]]
      /\ live' = [live EXCEPT ![d] = {}]
      /\ daemon' = [daemon EXCEPT ![d] = "terminated"]
      /\ UNCHANGED <<pidFile, token, holder, ledger, innocent>>
  BY ProcessRacesBarred DEF TerminateAll, Becomes, daemonFiles, Running
<1>2. live[d] = {p \in Pids : process[p] = Child("child", d)} /\ live[d] \in SUBSET Pids
  BY <1>1 DEF ChildrenKept, ProcessTypes
<1>3. \A e \in Daemons : (Running(e) <=> e = d) /\ (Running(e)' <=> e = d)
  BY <1>1 DEF OneDaemon, Running, ProcessTypes
<1>4. \A e \in Daemons : e # d => /\ daemon'[e] = daemon[e] /\ ledgerChain'[e] = ledgerChain[e]
                                  /\ live'[e] = live[e]
  BY <1>1 DEF ProcessTypes, Enqueue
<1>5. daemon'[d] = "terminated" /\ live'[d] = {}
  BY <1>1 DEF ProcessTypes
<1>6. \A p \in Pids : process'[p].of = NoDaemon
  <2> SUFFICES ASSUME NEW p \in Pids, p \notin live[d], process[p].of # NoDaemon
               PROVE  FALSE
    BY <1>1 DEF Free
  <2>1. process[p].of = d
    BY <1>1 DEF ReapedAll, InService
  <2>2. process[p] = Child("spawning", d) \/ process[p] = Child("child", d)
    BY <2>1 DEF ChildrenKnown, ProcessTypes, Occupants, Child
  <2> QED
    BY <1>1, <1>2, <2>2
<1>7. ProcessTypes'
  <2>1. [op |-> "remove", pids |-> live[d]] \in LedgerOps
    BY <1>2 DEF LedgerOps
  <2>2. ledgerChain' \in [Daemons -> Seq(LedgerOps)]
    BY <1>1, <2>1 DEF ProcessTypes, Enqueue
  <2>3. process' \in [Pids -> Occupants]
    BY <1>1 DEF ProcessTypes, Occupants, Free
  <2> QED
    BY <1>1, <2>2, <2>3 DEF ProcessTypes, Stages
<1>8. OneDaemon'
  BY <1>3 DEF OneDaemon
<1>9. ChildrenKnown'
  <2>1. \A p \in Pids : process'[p].kind \notin {"spawning", "child"}
    <3>1. \A p \in Pids : process'[p].kind \in {"spawning", "child"} => process[p] = process'[p]
      BY <1>1 DEF Free
    <3> QED
      BY <1>6, <3>1 DEF ChildrenKnown
  <2> QED
    BY <1>6, <2>1 DEF ChildrenKnown
<1>10. ChildrenKept'
  <2>1. \A e \in Daemons : Logged(e)'
    BY <1>6 DEF Logged, ChildrenOf
  <2>2. {p \in Pids : process'[p] = Child("child", d)} = {}
    BY <1>6 DEF Child
  <2> QED
    BY <1>3, <1>4, <1>5, <2>1, <2>2 DEF ChildrenKept, InService
<1>11. ReapedAll'
  BY <1>1, <1>3, <1>4, <1>6 DEF ReapedAll, Running, InService
<1>12. UsersApart'
  <2>1. \A p \in Pids : process'[p].kind = "user" => process[p].kind = "user" /\ p \notin live[d]
    BY <1>1 DEF Free
  <2> QED
    BY <1>1, <1>2, <2>1, EnqueueKeepsApart
<1>13. FilesNameIt'
  BY <1>1, <1>3, <1>4, <1>5 DEF FilesNameIt, Running, InService
<1> QED
  BY <1>1, <1>7, <1>8, <1>9, <1>10, <1>11, <1>12, <1>13

LEMMA ExitKeeps ==
  ASSUME ProcessesInv, Barred(ProcessRaces), NEW d \in Daemons, Exit(d)
  PROVE  ProcessesInv'
<1> USE ProcessesAssumption DEF ProcessesInv
<1>1. daemon[d] = "tidied" /\ Running(d) /\ daemon' = [daemon EXCEPT ![d] = "stopped"]
      /\ ledgerChain' = [ledgerChain EXCEPT ![d] = <<>>] /\ pidFile' = NoDaemon
      /\ UNCHANGED <<token, holder, process, live, ledger, innocent>>
  BY ProcessRacesBarred DEF Exit, Becomes, Running
<1>2. \A e \in Daemons : (Running(e) <=> e = d) /\ ~Running(e)'
  BY <1>1 DEF OneDaemon, Running, ProcessTypes
<1>3. \A e \in Daemons : e # d => daemon'[e] = daemon[e] /\ ledgerChain'[e] = ledgerChain[e]
  BY <1>1 DEF ProcessTypes
<1>4. daemon'[d] = "stopped" /\ ledgerChain'[d] = <<>>
  BY <1>1 DEF ProcessTypes
<1>5. ProcessTypes'
  BY <1>1 DEF ProcessTypes, Stages
<1>6. OneDaemon'
  BY <1>2 DEF OneDaemon
<1>7. ChildrenKnown'
  BY <1>1 DEF ChildrenKnown, ProcessTypes, Occupants
<1>8. ChildrenKept'
  BY <1>1, <1>2, <1>3, <1>4 DEF ChildrenKept, Logged, ChildrenOf
<1>9. ReapedAll' /\ FilesNameIt'
  <2>1. \A e \in Daemons : daemon'[e] \notin {"reaping", "reaped", "up", "draining", "terminated", "tidied"}
    BY <1>2 DEF Running
  <2> QED
    BY <2>1 DEF ReapedAll, FilesNameIt, InService
<1>10. UsersApart'
  <2>1. \A p \in Pids : Mentioned(p)' => Mentioned(p)
    BY <1>1, <1>3, <1>4 DEF Mentioned
  <2> QED
    BY <1>1, <2>1 DEF UsersApart
<1> QED
  BY <1>1, <1>5, <1>6, <1>7, <1>8, <1>9, <1>10

LEMMA PidFileKeeps ==
  ASSUME ProcessesInv, ReadPidFile \/ RemovePidFile
  PROVE  ProcessesInv'
<1> USE ProcessesAssumption DEF ProcessesInv
<1>1. UNCHANGED <<daemon, token, process, live, ledger, ledgerChain, innocent>>
  BY DEF ReadPidFile, RemovePidFile
<1>2. ProcessTypes' /\ OneDaemon' /\ ChildrenKnown' /\ ChildrenKept' /\ ReapedAll' /\ UsersApart'
  BY <1>1 DEF ReadPidFile, RemovePidFile, ProcessTypes, OneDaemon, ChildrenKnown, ChildrenKept,
              ReapedAll, UsersApart, Mentioned, Running, Logged, ChildrenOf
<1>3. FilesNameIt'
  <2> SUFFICES ASSUME NEW d \in Daemons
               PROVE  /\ daemon[d] \in {"reaping", "reaped", "up", "draining", "terminated"} => token = d
                      /\ daemon[d] \in InService => pidFile' = d /\ (holder' = NoDaemon \/ holder' = d)
    BY <1>1 DEF FilesNameIt
  <2>1. daemon[d] \in InService => Running(d)
    BY DEF InService, Running
  <2> QED
    BY <2>1 DEF FilesNameIt, ReadPidFile, RemovePidFile
<1> QED
  BY <1>1, <1>2, <1>3

LEMMA ProcessesStep ==
  ASSUME ProcessesInv, Barred(ProcessRaces), ProcessesNext \/ UNCHANGED processesVars
  PROVE  ProcessesInv'
<1>1. CASE UNCHANGED processesVars
  BY <1>1 DEF processesVars, ProcessesInv, ProcessTypes, OneDaemon, ChildrenKnown, ChildrenKept,
              ReapedAll, UsersApart, Mentioned, Running, Logged, ChildrenOf, FilesNameIt
<1>2. CASE ReadPidFile \/ RemovePidFile
  BY <1>2, PidFileKeeps
<1>3. ASSUME NEW d \in Daemons, Launch(d) \/ WriteToken(d) \/ ReapStale(d) \/ WritePidFile(d)
      PROVE  ProcessesInv'
  BY <1>3, LaunchKeeps, WriteTokenKeeps, ReapStaleKeeps, WritePidFileKeeps
<1>4. ASSUME NEW d \in Daemons, NEW p \in Pids, Spawn(d, p) \/ Spawned(d, p)
      PROVE  ProcessesInv'
  BY <1>4, SpawnKeeps, SpawnedKeeps
<1>5. ASSUME NEW d \in Daemons, LedgerWrite(d) \/ Crash(d) \/ Stop(d) \/ TerminateAll(d)
                                  \/ RemoveToken(d) \/ Exit(d)
      PROVE  ProcessesInv'
  BY <1>5, LedgerWriteKeeps, CrashKeeps, StopKeeps, TerminateAllKeeps, RemoveTokenKeeps, ExitKeeps
<1>6. ASSUME NEW p \in Pids, ChildExits(p) \/ UserStarts(p)
      PROVE  ProcessesInv'
  BY <1>6, ChildExitsKeeps, UserStartsKeeps
<1> QED
  BY <1>1, <1>2, <1>3, <1>4, <1>5, <1>6 DEF ProcessesNext

-----------------------------------------------------------------------------
(* Settings *)

(* The limit follows what the store holds, a write goes on from what is in the file, and the
   store has the file unless the watcher is about to read it. *)
LimitFollows == limit = Resolve(raw)

(* A write is alone, with the file as it has read it. *)
WritesAlone ==
  /\ setting.busy => /\ ~configuring.busy /\ ~torn /\ ~reloading.busy /\ ~loading.busy
                     /\ setting.read = file /\ env = 0 /\ setting.value \in Limits
  /\ configuring.busy => /\ ~torn /\ ~reloading.busy /\ ~loading.busy
                         /\ configuring.read = file

(* A reading that the watcher has begun is of the file, or else it will begin another. *)
ReadingsAlone ==
  /\ reloading.busy => /\ ~loading.busy /\ reloading.value = Resolve(raw)
                       /\ ~notice /\ ~torn => reloading.read = file
  /\ loading.busy => ~notice /\ ~torn /\ loading.read = raw

Watched == ~notice /\ ~torn /\ ~reloading.busy => raw = file

Contents == [max : Nat, gateway : Nat]

SettingsInv ==
  /\ file \in Contents /\ raw \in Contents /\ file = wanted
  /\ setting.read \in Contents /\ configuring.read \in Contents
  /\ reloading.read \in Contents /\ loading.read \in Contents
  /\ configuring.value \in Nat
  /\ LimitFollows /\ WritesAlone /\ ReadingsAlone /\ Watched

SettingsRaces == {"load", "reload", "env", "gateway", "torn"}

LEMMA SettingsRacesBarred ==
  ASSUME Barred(SettingsRaces)
  PROVE  /\ ~Allows("load") /\ ~Allows("reload") /\ ~Allows("env")
         /\ ~Allows("gateway") /\ ~Allows("torn")
BY DEF Barred, SettingsRaces, Allows

LEMMA ParsedIsContent ==
  ASSUME SettingsInv
  PROVE  Parsed \in Contents /\ (~torn => Parsed = file)
BY DEF SettingsInv, Parsed, Contents, Empty

(* A write begins when nothing is under way but what the watcher will read anew. *)
LEMMA WriteKeeps ==
  ASSUME SettingsInv, Barred(SettingsRaces), ~loading.busy, ~reloading.busy, Write
  PROVE  SettingsInv'
<1> USE SettingsAssumption, SettingsRacesBarred DEF SettingsInv, OneMore
<1>0. Parsed \in Contents /\ (~torn => Parsed = file)
  BY ParsedIsContent
<1>1. CASE BeginSet
  <2>1. PICK v \in Limits : setting' = Busy(v, Parsed)
    BY <1>1 DEF BeginSet
  <2>2. ~torn /\ ~configuring.busy /\ env = 0
    BY <1>1 DEF BeginSet
  <2> QED
    BY <1>0, <1>1, <2>1, <2>2
       DEF BeginSet, Busy, LimitFollows, Resolve, WritesAlone, ReadingsAlone, Watched
<1>2. CASE EndSet
  <2> DEFINE content == [setting.read EXCEPT !.max = setting.value]
  <2>1. /\ setting.busy /\ file' = content /\ raw' = content /\ torn' = FALSE
        /\ limit' = setting.value /\ wanted' = [wanted EXCEPT !.max = setting.value]
        /\ setting' = Idle /\ notice' = TRUE
        /\ UNCHANGED <<env, reloading, loading, configuring>>
    BY <1>2 DEF EndSet, Changes
  <2>2. /\ setting.value \in Nat \ {0} /\ setting.read = file /\ env = 0
        /\ ~configuring.busy
    BY <2>1 DEF WritesAlone
  <2>3. content \in Contents /\ content.max = setting.value
    BY <2>2 DEF Contents
  <2>4. LimitFollows'
    BY <2>1, <2>2, <2>3 DEF LimitFollows, Resolve
  <2>5. WritesAlone' /\ ReadingsAlone' /\ Watched'
    BY <2>1, <2>2 DEF WritesAlone, ReadingsAlone, Watched, Idle
  <2> QED
    BY <2>1, <2>2, <2>3, <2>4, <2>5 DEF Idle, Empty, Contents
<1>3. CASE BeginConfig
  <2>1. PICK g \in Gateways : configuring' = Busy(g, Parsed)
    BY <1>3 DEF BeginConfig
  <2>2. ~torn /\ ~setting.busy
    BY <1>3 DEF BeginConfig
  <2> QED
    BY <1>0, <1>3, <2>1, <2>2
       DEF BeginConfig, Busy, LimitFollows, Resolve, WritesAlone, ReadingsAlone, Watched
<1>4. CASE EndConfig
  <2>1. /\ configuring.busy
        /\ file' = [configuring.read EXCEPT !.gateway = configuring.value]
        /\ torn' = FALSE /\ wanted' = [wanted EXCEPT !.gateway = configuring.value]
        /\ configuring' = Idle /\ notice' = TRUE
        /\ UNCHANGED <<raw, limit, env, reloading, loading, setting>>
    BY <1>4 DEF EndConfig, Changes
  <2>2. configuring.read = file /\ ~setting.busy
    BY <2>1 DEF WritesAlone
  <2>3. file' \in Contents /\ file' = wanted'
    BY <2>1, <2>2 DEF Contents
  <2>4. LimitFollows' /\ WritesAlone' /\ ReadingsAlone' /\ Watched'
    BY <2>1, <2>2 DEF LimitFollows, Resolve, WritesAlone, ReadingsAlone, Watched, Idle
  <2> QED
    BY <2>1, <2>3, <2>4 DEF Idle, Empty, Contents
<1>5. CASE BeginSave
  BY <1>5 DEF BeginSave, Changes, Writing, LimitFollows, Resolve, WritesAlone, ReadingsAlone, Watched
<1>6. CASE EndSave
  <2>1. PICK v \in Limits \cup {0} :
          file' = [file EXCEPT !.max = v] /\ wanted' = [wanted EXCEPT !.max = v]
    BY <1>6 DEF EndSave
  <2>2. /\ torn /\ torn' = FALSE /\ notice' = TRUE
        /\ UNCHANGED <<raw, limit, env, reloading, loading, setting, configuring>>
    BY <1>6 DEF EndSave, Changes
  <2>3. file' \in Contents /\ file' = wanted'
    BY <2>1 DEF Contents
  <2> QED
    BY <2>2, <2>3 DEF LimitFollows, Resolve, WritesAlone, ReadingsAlone, Watched
<1> QED
  BY <1>1, <1>2, <1>3, <1>4, <1>5, <1>6 DEF Write

LEMMA ReadingKeeps ==
  ASSUME SettingsInv, Barred(SettingsRaces),
         (~loading.busy /\ (BeginReload \/ EndReload)) \/ BeginLoad \/ EndLoad
  PROVE  SettingsInv'
<1> USE SettingsRacesBarred DEF SettingsInv
<1>0. Parsed \in Contents /\ (~torn => Parsed = file)
  BY ParsedIsContent
<1>1. CASE ~loading.busy /\ BeginReload
  BY <1>0, <1>1 DEF BeginReload, Busy, Writing, LimitFollows, Resolve, WritesAlone, ReadingsAlone, Watched
<1>2. CASE ~loading.busy /\ EndReload
  <2>1. /\ reloading.busy /\ raw' = reloading.read /\ reloading' = Idle
        /\ limit' = IF Resolve(reloading.read) # reloading.value THEN Resolve(reloading.read) ELSE limit
        /\ UNCHANGED <<file, torn, env, notice, loading, setting, configuring, wanted>>
    BY <1>2 DEF EndReload
  <2>2. LimitFollows'
    <3>1. limit = reloading.value
      BY <2>1 DEF LimitFollows, ReadingsAlone
    <3>2. limit' = Resolve(reloading.read)
      BY <2>1, <3>1
    <3> QED
      BY <2>1, <3>2 DEF LimitFollows, Resolve
  <2>3. WritesAlone' /\ ReadingsAlone' /\ Watched'
    BY <1>2, <2>1 DEF WritesAlone, ReadingsAlone, Watched, Idle
  <2> QED
    BY <2>1, <2>2, <2>3 DEF Idle, Empty, Contents
<1>3. CASE BeginLoad
  <2>1. /\ ~notice /\ ~torn /\ ~Writing /\ ~reloading.busy /\ loading' = Busy(0, Parsed)
        /\ UNCHANGED <<file, torn, raw, limit, env, notice, reloading, setting, configuring, wanted>>
    BY <1>3 DEF BeginLoad
  <2>2. Parsed = raw
    BY <1>0, <2>1 DEF Watched
  <2> QED
    BY <1>0, <2>1, <2>2 DEF Busy, Writing, LimitFollows, Resolve, WritesAlone, ReadingsAlone, Watched
<1>4. CASE EndLoad
  <2>1. /\ loading.busy /\ raw' = raw /\ loading' = Idle
        /\ UNCHANGED <<file, torn, limit, env, notice, reloading, setting, configuring, wanted>>
    BY <1>4 DEF EndLoad, ReadingsAlone
  <2> QED
    BY <2>1 DEF Idle, Empty, Contents, LimitFollows, Resolve, WritesAlone, ReadingsAlone, Watched
<1> QED
  BY <1>1, <1>2, <1>3, <1>4

LEMMA SettingsStep ==
  ASSUME SettingsInv, Barred(SettingsRaces), SettingsNext \/ UNCHANGED settingsVars
  PROVE  SettingsInv'
<1>1. CASE UNCHANGED settingsVars
  BY <1>1 DEF settingsVars, SettingsInv, LimitFollows, Resolve, WritesAlone, ReadingsAlone, Watched
<1>2. CASE SettingsNext
  BY <1>2, SettingsRacesBarred, WriteKeeps, ReadingKeeps DEF SettingsNext
<1> QED
  BY <1>1, <1>2

-----------------------------------------------------------------------------
(* Workspaces *)

RecordStates == {"none", "live", "archived"}
RecordsOf ==
  [state : RecordStates, project : ProjectIds \cup {0}, cwd : {"none", "root", "other", "worktree"},
   branch : Branches \cup {NoBranch}, label : BOOLEAN, setup : {"none", "pending", "ok", "failed"}]

Lists  == {"append", "list", "create"}
Makes  == {"add", "record"}
Treats == {"setup", "run", "archive", "mark", "remove"}
RequestsOf == [at : {"none", "label"} \cup Lists \cup Makes \cup Treats, project : ProjectIds \cup {0},
             id : WorkspaceIds \cup {0}, read : Nat, option : BOOLEAN]

WorkspacesTypes ==
  /\ projectState \in [ProjectIds -> RecordStates]
  /\ workspace \in [WorkspaceIds -> RecordsOf]
  /\ catalogue \in BOOLEAN
  /\ branches \subseteq Branches /\ checkedOut \in [WorkspaceIds -> branches \cup {NoBranch}]
  /\ request \in [Connections -> RequestsOf]
  /\ version \in Nat

(* What a request has read is true of the registries and the checkouts until it is done with. *)
Holds(r) ==
  /\ r.at \in {"list", "create"} \cup Makes \cup Treats => r.project \in AnyProject
  /\ r.at \in {"label"} \cup Treats => r.id \in AnyWorkspace
  /\ r.at \in Makes => r.id \in WorkspaceIds /\ r.id \notin AnyWorkspace /\ r.read \in Branches
  /\ r.at = "add" => checkedOut[r.id] = NoBranch
  /\ r.at = "record" => checkedOut[r.id] = r.read
  /\ r.at = "remove" => workspace[r.id].state = "archived"
  /\ r.at = "append" => Projects("live") = {}
  /\ r.at = "create" => DefaultsOf(r.project) = {}
  /\ r.at = "label" => catalogue
  /\ r.at = "setup" /\ r.option => <<r.project, r.read>> \in agreed

RequestsHold == \A c \in Connections : Holds(request[c])

(* One request opens a project at a time, and no two make the same workspace. *)
RequestsApart ==
  \A b, c \in Connections : b # c =>
    /\ request[b].at \in Lists => request[c].at \notin Lists
    /\ request[b].at \in Makes /\ request[c].at \in Makes => request[b].id # request[c].id

OneOfEach ==
  /\ \A p, q \in Projects("live") : p = q
  /\ \A p \in ProjectIds : \A v, w \in DefaultsOf(p) : v = w

RecordsJoined ==
  /\ \A w \in AnyWorkspace : workspace[w].project \in AnyProject
  /\ \A w \in AnyWorkspace : workspace[w].label => catalogue

CheckoutsHeld ==
  /\ \A w \in WorkspaceIds : checkedOut[w] # NoBranch =>
       w \in AnyWorkspace \/ \E c \in Connections : request[c].at = "record" /\ request[c].id = w
  /\ \A w \in Workspaces("live") :
       workspace[w].cwd = "worktree" => checkedOut[w] = workspace[w].branch
  /\ \A v, w \in WorkspaceIds : v # w /\ checkedOut[v] = checkedOut[w] => checkedOut[v] = NoBranch

OnlyAgreed == trusted \subseteq agreed /\ executed \subseteq agreed

RegistriesOk == OneOfEach /\ RecordsJoined /\ CheckoutsHeld /\ OnlyAgreed

WorkspacesInv == WorkspacesTypes /\ RequestsHold /\ RequestsApart /\ RegistriesOk

WorkspaceRaces == {"open", "again", "prune", "crash", "moved"}

LEMMA WorkspaceRacesBarred ==
  ASSUME Barred(WorkspaceRaces)
  PROVE  /\ ~Allows("open") /\ ~Allows("again") /\ ~Allows("prune")
         /\ ~Allows("crash") /\ ~Allows("moved")
BY DEF Barred, WorkspaceRaces, Allows

LEMMA NewProjectIsNew ==
  ASSUME RoomForProject, projectState \in [ProjectIds -> RecordStates]
  PROVE  NewProject \in ProjectIds /\ NewProject \notin AnyProject
<1>1. AnyProject \subseteq ProjectIds /\ ProjectIds \in SUBSET Nat
  BY WorkspacesAssumption DEF AnyProject, Projects, ProjectIds
<1>2. ProjectIds \ AnyProject # {} /\ ProjectIds \ AnyProject \in SUBSET Nat
  BY <1>1 DEF RoomForProject
<1> QED
  BY <1>2, MinIsIn DEF NewProject

LEMMA NewWorkspaceIsNew ==
  ASSUME RoomForWorkspace
  PROVE  /\ NewWorkspace \in WorkspaceIds /\ NewWorkspace \notin AnyWorkspace
         /\ checkedOut[NewWorkspace] = NoBranch
         /\ \A c \in Connections : request[c].at \in Makes => request[c].id # NewWorkspace
<1> DEFINE S == WorkspaceIds \ (AnyWorkspace \cup Issued \cup {w \in WorkspaceIds : checkedOut[w] # NoBranch})
<1>1. S # {}
  BY DEF RoomForWorkspace
<1>2. S \in SUBSET Nat
  BY WorkspacesAssumption DEF WorkspaceIds
<1>3. NewWorkspace \in S
  BY <1>1, <1>2, MinIsIn DEF NewWorkspace
<1> QED
  BY <1>3 DEF Issued, At, Makes

LEMMA FreshBranchIsFresh ==
  ASSUME branches \subseteq Branches, Branches # branches
  PROVE  FreshBranch \in Branches \ branches
<1>1. Branches \ branches # {}
  OBVIOUS
<1>2. Branches \ branches \in SUBSET Nat
  BY WorkspacesAssumption DEF Branches
<1> QED
  BY <1>1, <1>2, MinIsIn DEF FreshBranch

(* What a request holds stays true over a step that does not touch what it is about. *)
LEMMA HoldsStill ==
  ASSUME NEW q, Holds(q), AnyProject \subseteq AnyProject', AnyWorkspace \subseteq AnyWorkspace',
         q.at \in Makes => q.id \notin AnyWorkspace' /\ checkedOut'[q.id] = checkedOut[q.id],
         q.at = "remove" => workspace'[q.id].state = "archived",
         q.at = "append" => Projects("live")' = {},
         q.at = "create" => DefaultsOf(q.project)' = {},
         q.at = "label" => catalogue',
         agreed \subseteq agreed'
  PROVE  Holds(q)'
BY DEF Holds, Makes

(* One request is replaced. *)
LEMMA RequestReplaced ==
  ASSUME WorkspacesInv, NEW c \in Connections, NEW r \in RequestsOf,
         request' = [request EXCEPT ![c] = r], Holds(r)',
         \A b \in Connections : b # c => Holds(request[b])',
         r.at \in Lists => request[c].at \in Lists \/ \A b \in Connections : request[b].at \notin Lists,
         r.at \in Makes =>
           \/ request[c].at \in Makes /\ r.id = request[c].id
           \/ \A b \in Connections : request[b].at \in Makes => request[b].id # r.id
  PROVE  /\ request' \in [Connections -> RequestsOf] /\ RequestsHold' /\ RequestsApart'
<1>1. request \in [Connections -> RequestsOf]
  BY DEF WorkspacesInv, WorkspacesTypes
<1>2. request'[c] = r /\ \A b \in Connections : b # c => request'[b] = request[b]
  BY <1>1
<1>3. RequestsHold'
  <2> SUFFICES ASSUME NEW b \in Connections
               PROVE  Holds(request[b])'
    BY DEF RequestsHold
  <2>1. CASE b = c
    <3>1. Holds(request[c])' <=> Holds(r)'
      BY <1>2 DEF Holds
    <3> QED
      BY <2>1, <3>1
  <2> QED
    BY <2>1
<1>4. RequestsApart'
  BY <1>2 DEF RequestsApart, WorkspacesInv
<1> QED
  BY <1>1, <1>3, <1>4

LEMMA OthersHold ==
  ASSUME WorkspacesInv, NEW c \in Connections,
         \A b \in Connections : b # c => request'[b] = request[b],
         AnyProject \subseteq AnyProject', AnyWorkspace \subseteq AnyWorkspace', agreed \subseteq agreed',
         \A b \in Connections : b # c =>
           /\ request[b].at \in Makes => /\ request[b].id \notin AnyWorkspace'
                                         /\ checkedOut'[request[b].id] = checkedOut[request[b].id]
           /\ request[b].at = "remove" => workspace'[request[b].id].state = "archived"
           /\ request[b].at = "append" => Projects("live")' = {}
           /\ request[b].at = "create" => DefaultsOf(request[b].project)' = {}
           /\ request[b].at = "label" => catalogue'
  PROVE  \A b \in Connections : b # c => Holds(request[b])'
<1> SUFFICES ASSUME NEW b \in Connections, b # c
             PROVE  Holds(request[b])'
  OBVIOUS
<1>1. PICK q : q = request[b]
  OBVIOUS
<1>2. request'[b] = q /\ Holds(q)
  BY <1>1 DEF WorkspacesInv, RequestsHold
<1>3. /\ q.at \in Makes => q.id \notin AnyWorkspace' /\ checkedOut'[q.id] = checkedOut[q.id]
      /\ q.at = "remove" => workspace'[q.id].state = "archived"
      /\ q.at = "append" => Projects("live")' = {}
      /\ q.at = "label" => catalogue'
  BY <1>1
<1>4. q.at = "create" => DefaultsOf(q.project)' = {}
  BY <1>1, <1>2
<1>5. Holds(q)'
  BY <1>2, <1>3, <1>4, HoldsStill
<1> QED
  BY <1>2, <1>5 DEF Holds

(* A step that moves one request on and leaves the registries and the repository alone. *)
LEMMA RequestMoves ==
  ASSUME WorkspacesInv, NEW c \in Connections, NEW r \in RequestsOf,
         request' = [request EXCEPT ![c] = r], UNCHANGED <<registries, repo, version>>,
         agreed \subseteq agreed', trusted' \subseteq agreed', executed' \subseteq agreed',
         Holds(r)', request[c].at # "record",
         r.at \in Lists => request[c].at \in Lists \/ \A b \in Connections : request[b].at \notin Lists,
         r.at \in Makes => \A b \in Connections : request[b].at \in Makes => request[b].id # r.id
  PROVE  WorkspacesInv'
<1>1. UNCHANGED <<projectState, workspace, catalogue, branches, checkedOut>>
  BY DEF registries, repo
<1>2. /\ AnyProject' = AnyProject /\ AnyWorkspace' = AnyWorkspace
      /\ \A state : Projects(state)' = Projects(state) /\ Workspaces(state)' = Workspaces(state)
      /\ \A p : DefaultsOf(p)' = DefaultsOf(p)
  BY <1>1 DEF AnyProject, AnyWorkspace, Projects, Workspaces, DefaultsOf
<1>3. request'[c] = r /\ \A b \in Connections : b # c => request'[b] = request[b]
  BY DEF WorkspacesInv, WorkspacesTypes
<1>4. \A b \in Connections : Holds(request[b])
  BY DEF WorkspacesInv, RequestsHold
<1>5. \A b \in Connections : b # c => Holds(request[b])'
  <2> SUFFICES ASSUME NEW b \in Connections, b # c
               PROVE  Holds(request[b])'
    OBVIOUS
  <2>1. PICK q : q = request[b]
    OBVIOUS
  <2>2. request'[b] = q /\ Holds(q)
    BY <1>3, <1>4, <2>1
  <2>3. Holds(q)'
    BY <1>1, <1>2, <2>2, HoldsStill DEF Holds
  <2> QED
    BY <2>2, <2>3 DEF Holds
<1>6. request' \in [Connections -> RequestsOf] /\ RequestsHold' /\ RequestsApart'
  BY <1>5, RequestReplaced
<1>7. WorkspacesTypes'
  BY <1>1, <1>6 DEF WorkspacesInv, WorkspacesTypes
<1>8. OneOfEach' /\ RecordsJoined'
  BY <1>1, <1>2 DEF WorkspacesInv, RegistriesOk, OneOfEach, RecordsJoined
<1>9. CheckoutsHeld'
  BY <1>1, <1>2, <1>3 DEF WorkspacesInv, RegistriesOk, CheckoutsHeld
<1> QED
  BY <1>6, <1>7, <1>8, <1>9 DEF WorkspacesInv, RegistriesOk, OnlyAgreed

LEMMA OpenFindKeeps ==
  ASSUME WorkspacesInv, Barred(WorkspaceRaces), NEW c \in Connections, OpenFind(c)
  PROVE  WorkspacesInv'
<1>1. PICK r : r = [NoRequest EXCEPT !.at = IF Projects("live") = {} THEN "append" ELSE "list",
                                     !.project = IF Projects("live") = {} THEN 0 ELSE Min(Projects("live"))]
  OBVIOUS
<1>2. request' = [request EXCEPT ![c] = r] /\ request[c] = NoRequest
      /\ UNCHANGED <<registries, repo, commands>> /\ At({"append", "list", "create"}) = {}
  BY <1>1, WorkspaceRacesBarred DEF OpenFind, Asks
<1>3. Projects("live") # {} => Min(Projects("live")) \in Projects("live")
  <2>1. Projects("live") \in SUBSET Nat
    BY WorkspacesAssumption DEF Projects, ProjectIds
  <2> QED
    BY <2>1, MinIsIn
<1>4. r \in RequestsOf /\ r.at \in {"append", "list"} /\ (r.at = "append" => Projects("live") = {})
      /\ (r.at = "list" => r.project \in AnyProject)
  BY <1>1, <1>3 DEF RequestsOf, NoRequest, Lists, Makes, Treats, AnyProject, Projects
<1>5. Projects("live")' = Projects("live") /\ AnyProject' = AnyProject
  BY <1>2 DEF registries, Projects, AnyProject
<1>6. Holds(r)'
  BY <1>4, <1>5 DEF Holds, Makes, Treats
<1>7. \A b \in Connections : request[b].at \notin Lists
  BY <1>2 DEF At, Lists
<1>8. agreed \subseteq agreed' /\ trusted' \subseteq agreed' /\ executed' \subseteq agreed' /\ version' = version
  BY <1>2 DEF commands, WorkspacesInv, RegistriesOk, OnlyAgreed
<1>9. r.at \notin Makes /\ request[c].at # "record"
  BY <1>2, <1>4 DEF Makes, NoRequest
<1> QED
  BY <1>2, <1>4, <1>6, <1>7, <1>8, <1>9, RequestMoves

LEMMA OpenListKeeps ==
  ASSUME WorkspacesInv, NEW c \in Connections, OpenList(c)
  PROVE  WorkspacesInv'
<1>1. PICK r : r = IF DefaultsOf(request[c].project) # {} THEN NoRequest
                   ELSE [request[c] EXCEPT !.at = "create"]
  OBVIOUS
<1>2. request' = [request EXCEPT ![c] = r] /\ request[c].at = "list"
      /\ UNCHANGED <<registries, repo, commands>>
  BY <1>1 DEF OpenList, Goes, Ends, Is
<1>3. request[c] \in RequestsOf /\ Holds(request[c])
  BY DEF WorkspacesInv, WorkspacesTypes, RequestsHold
<1>4. r \in RequestsOf /\ r.at \in {"none", "create"}
      /\ (r.at = "create" => DefaultsOf(r.project) = {} /\ r.project \in AnyProject)
  BY <1>1, <1>2, <1>3 DEF RequestsOf, NoRequest, Lists, Makes, Treats, Holds
<1>5. AnyProject' = AnyProject /\ \A p : DefaultsOf(p)' = DefaultsOf(p)
  BY <1>2 DEF registries, Projects, AnyProject, DefaultsOf, Workspaces
<1>6. Holds(r)'
  BY <1>4, <1>5 DEF Holds, Makes, Treats
<1>7. agreed \subseteq agreed' /\ trusted' \subseteq agreed' /\ executed' \subseteq agreed' /\ version' = version
  BY <1>2 DEF commands, WorkspacesInv, RegistriesOk, OnlyAgreed
<1>8. r.at \notin Makes /\ request[c].at # "record" /\ request[c].at \in Lists
  BY <1>2, <1>4 DEF Makes, Lists
<1> QED
  BY <1>2, <1>4, <1>6, <1>7, <1>8, RequestMoves

LEMMA CreateWorktreeKeeps ==
  ASSUME WorkspacesInv, NEW c \in Connections, CreateWorktree(c)
  PROVE  WorkspacesInv'
<1>1. PICK p \in AnyProject :
        Asks(c, [NoRequest EXCEPT !.at = "add", !.project = p, !.id = NewWorkspace, !.read = FreshBranch])
  BY DEF CreateWorktree
<1>2. PICK r : r = [NoRequest EXCEPT !.at = "add", !.project = p, !.id = NewWorkspace, !.read = FreshBranch]
  OBVIOUS
<1>3. request' = [request EXCEPT ![c] = r] /\ request[c] = NoRequest
      /\ UNCHANGED <<registries, repo, commands>> /\ RoomForWorkspace /\ Branches # branches
  BY <1>1, <1>2 DEF CreateWorktree, Asks
<1>4. FreshBranch \in Branches /\ FreshBranch \in Nat
  BY <1>3, FreshBranchIsFresh, WorkspacesAssumption DEF WorkspacesInv, WorkspacesTypes, Branches
<1>5. r \in RequestsOf /\ r.at = "add" /\ r.project \in AnyProject /\ r.id = NewWorkspace /\ r.read \in Branches
  <2>1. p \in ProjectIds
    BY DEF AnyProject, Projects
  <2> QED
    BY <1>2, <1>3, <1>4, <2>1, NewWorkspaceIsNew DEF RequestsOf, NoRequest, Lists, Makes, Treats
<1>6. AnyProject' = AnyProject /\ AnyWorkspace' = AnyWorkspace /\ checkedOut' = checkedOut
  BY <1>3 DEF registries, repo, Projects, AnyProject, AnyWorkspace, Workspaces
<1>7. Holds(r)'
  BY <1>3, <1>5, <1>6, NewWorkspaceIsNew DEF Holds, Makes, Treats
<1>8. agreed \subseteq agreed' /\ trusted' \subseteq agreed' /\ executed' \subseteq agreed' /\ version' = version
  BY <1>3 DEF commands, WorkspacesInv, RegistriesOk, OnlyAgreed
<1>9. \A b \in Connections : request[b].at \in Makes => request[b].id # r.id
  BY <1>3, <1>5, NewWorkspaceIsNew
<1>10. r.at \notin Lists /\ request[c].at # "record"
  BY <1>3, <1>5 DEF Lists, NoRequest
<1> QED
  BY <1>3, <1>5, <1>7, <1>8, <1>9, <1>10, RequestMoves

LEMMA LoadSetupKeeps ==
  ASSUME WorkspacesInv, Barred(WorkspaceRaces), NEW c \in Connections, LoadSetup(c)
  PROVE  WorkspacesInv'
<1>1. PICK w \in AnyWorkspace, trust \in BOOLEAN :
        /\ trust => MayTrust(workspace[w].project)
        /\ Asks(c, [NoRequest EXCEPT !.at = "setup", !.id = w, !.project = workspace[w].project,
                                     !.read = version, !.option = trust])
  BY DEF LoadSetup
<1>2. PICK r : r = [NoRequest EXCEPT !.at = "setup", !.id = w, !.project = workspace[w].project,
                                     !.read = version, !.option = trust]
  OBVIOUS
<1>3. request' = [request EXCEPT ![c] = r] /\ request[c] = NoRequest
      /\ UNCHANGED <<registries, repo, commands>>
  BY <1>1, <1>2 DEF LoadSetup, Asks
<1>4. workspace[w].project \in AnyProject /\ w \in WorkspaceIds /\ workspace[w].project \in ProjectIds
  BY DEF WorkspacesInv, RegistriesOk, RecordsJoined, AnyWorkspace, Workspaces, AnyProject, Projects
<1>5. r \in RequestsOf /\ r.at = "setup" /\ r.project \in AnyProject /\ r.id = w
      /\ r.project = workspace[w].project /\ r.read = version /\ r.option = trust
  BY <1>2, <1>4 DEF RequestsOf, NoRequest, Lists, Makes, Treats, WorkspacesInv, WorkspacesTypes
<1>6. AnyProject' = AnyProject /\ AnyWorkspace' = AnyWorkspace
  BY <1>3 DEF registries, Projects, AnyProject, AnyWorkspace, Workspaces
<1>7. r.option => <<r.project, r.read>> \in agreed'
  BY <1>1, <1>3, <1>5, WorkspaceRacesBarred DEF MayTrust, commands
<1>8. Holds(r)'
  BY <1>5, <1>6, <1>7 DEF Holds, Makes, Treats
<1>9. agreed \subseteq agreed' /\ trusted' \subseteq agreed' /\ executed' \subseteq agreed' /\ version' = version
  BY <1>3 DEF commands, WorkspacesInv, RegistriesOk, OnlyAgreed
<1>10. r.at \notin Lists /\ r.at \notin Makes /\ request[c].at # "record"
  BY <1>3, <1>5 DEF Lists, Makes, NoRequest
<1> QED
  BY <1>3, <1>5, <1>8, <1>9, <1>10, RequestMoves

LEMMA ArchiveKeeps ==
  ASSUME WorkspacesInv, NEW c \in Connections, Archive(c)
  PROVE  WorkspacesInv'
<1>1. PICK w \in AnyWorkspace, remove \in BOOLEAN :
        Asks(c, [NoRequest EXCEPT !.at = "archive", !.id = w, !.project = workspace[w].project,
                                  !.read = version, !.option = remove])
  BY DEF Archive
<1>2. PICK r : r = [NoRequest EXCEPT !.at = "archive", !.id = w, !.project = workspace[w].project,
                                     !.read = version, !.option = remove]
  OBVIOUS
<1>3. request' = [request EXCEPT ![c] = r] /\ request[c] = NoRequest
      /\ UNCHANGED <<registries, repo, commands>>
  BY <1>1, <1>2 DEF Archive, Asks
<1>4. workspace[w].project \in AnyProject /\ w \in WorkspaceIds /\ workspace[w].project \in ProjectIds
  BY DEF WorkspacesInv, RegistriesOk, RecordsJoined, AnyWorkspace, Workspaces, AnyProject, Projects
<1>5. r \in RequestsOf /\ r.at = "archive" /\ r.project \in AnyProject /\ r.id = w
  BY <1>2, <1>4 DEF RequestsOf, NoRequest, Lists, Makes, Treats, WorkspacesInv, WorkspacesTypes
<1>6. AnyProject' = AnyProject /\ AnyWorkspace' = AnyWorkspace
  BY <1>3 DEF registries, Projects, AnyProject, AnyWorkspace, Workspaces
<1>7. Holds(r)'
  BY <1>5, <1>6 DEF Holds, Makes, Treats
<1>8. agreed \subseteq agreed' /\ trusted' \subseteq agreed' /\ executed' \subseteq agreed' /\ version' = version
  BY <1>3 DEF commands, WorkspacesInv, RegistriesOk, OnlyAgreed
<1>9. r.at \notin Lists /\ r.at \notin Makes /\ request[c].at # "record"
  BY <1>3, <1>5 DEF Lists, Makes, NoRequest
<1> QED
  BY <1>3, <1>5, <1>7, <1>8, <1>9, RequestMoves

(* Commands run only as far as they are trusted. *)
LEMMA ExecutesAgreed ==
  ASSUME WorkspacesInv, NEW p, NEW content, Executes(p, content), agreed' = agreed
  PROVE  executed' \subseteq agreed'
BY DEF Executes, IsTrusted, WorkspacesInv, RegistriesOk, OnlyAgreed

LEMMA GrantSetupKeeps ==
  ASSUME WorkspacesInv, NEW c \in Connections, GrantSetup(c)
  PROVE  WorkspacesInv'
<1>1. PICK r : r = [request[c] EXCEPT !.at = "run"]
  OBVIOUS
<1>2. request' = [request EXCEPT ![c] = r] /\ request[c].at = "setup"
      /\ UNCHANGED <<registries, repo, version, agreed, executed>>
      /\ trusted' = IF request[c].option THEN trusted \cup {<<request[c].project, request[c].read>>} ELSE trusted
  BY <1>1 DEF GrantSetup, Goes, Is
<1>3. request[c] \in RequestsOf /\ Holds(request[c])
  BY DEF WorkspacesInv, WorkspacesTypes, RequestsHold
<1>4. r \in RequestsOf /\ r.at = "run" /\ r.project \in AnyProject /\ r.id \in AnyWorkspace
  BY <1>1, <1>2, <1>3 DEF RequestsOf, Lists, Makes, Treats, Holds
<1>5. AnyProject' = AnyProject /\ AnyWorkspace' = AnyWorkspace
  BY <1>2 DEF registries, Projects, AnyProject, AnyWorkspace, Workspaces
<1>6. Holds(r)'
  BY <1>4, <1>5 DEF Holds, Makes, Treats
<1>7. agreed \subseteq agreed' /\ trusted' \subseteq agreed' /\ executed' \subseteq agreed' /\ version' = version
  BY <1>2, <1>3 DEF WorkspacesInv, RegistriesOk, OnlyAgreed, Holds
<1>8. r.at \notin Lists /\ r.at \notin Makes /\ request[c].at # "record"
  BY <1>2, <1>4 DEF Lists, Makes
<1> QED
  BY <1>2, <1>4, <1>6, <1>7, <1>8, RequestMoves

LEMMA TeardownKeeps ==
  ASSUME WorkspacesInv, NEW c \in Connections, Teardown(c)
  PROVE  WorkspacesInv'
<1>1. PICK r : r = [request[c] EXCEPT !.at = "mark"]
  OBVIOUS
<1>2. request' = [request EXCEPT ![c] = r] /\ request[c].at = "archive"
      /\ UNCHANGED <<registries, repo, version, trusted, agreed>>
      /\ (executed' = executed \/ Executes(request[c].project, request[c].read))
  BY <1>1 DEF Teardown, Goes, Is
<1>3. request[c] \in RequestsOf /\ Holds(request[c])
  BY DEF WorkspacesInv, WorkspacesTypes, RequestsHold
<1>4. r \in RequestsOf /\ r.at = "mark" /\ r.project \in AnyProject /\ r.id \in AnyWorkspace
  BY <1>1, <1>2, <1>3 DEF RequestsOf, Lists, Makes, Treats, Holds
<1>5. AnyProject' = AnyProject /\ AnyWorkspace' = AnyWorkspace
  BY <1>2 DEF registries, Projects, AnyProject, AnyWorkspace, Workspaces
<1>6. Holds(r)'
  BY <1>4, <1>5 DEF Holds, Makes, Treats
<1>7. executed' \subseteq agreed'
  BY <1>2, ExecutesAgreed DEF WorkspacesInv, RegistriesOk, OnlyAgreed
<1>8. agreed \subseteq agreed' /\ trusted' \subseteq agreed' /\ version' = version
  BY <1>2 DEF WorkspacesInv, RegistriesOk, OnlyAgreed
<1>9. r.at \notin Lists /\ r.at \notin Makes /\ request[c].at # "record"
  BY <1>2, <1>4 DEF Lists, Makes
<1> QED
  BY <1>2, <1>4, <1>6, <1>7, <1>8, <1>9, RequestMoves

LEMMA NothingHeld ==
  /\ NoRequest \in RequestsOf /\ Holds(NoRequest) /\ Holds(NoRequest)'
  /\ NoRequest.at \notin Lists /\ NoRequest.at \notin Makes /\ NoRequest.at = "none"
BY DEF NoRequest, RequestsOf, Holds, Lists, Makes, Treats

LEMMA RunScriptKeeps ==
  ASSUME WorkspacesInv, NEW c \in Connections, RunScript(c)
  PROVE  WorkspacesInv'
<1>1. request' = [request EXCEPT ![c] = NoRequest] /\ request[c] = NoRequest
      /\ UNCHANGED <<registries, repo, version, trusted, agreed>>
  BY DEF RunScript, Asks
<1>2. executed' \subseteq agreed'
  BY <1>1, ExecutesAgreed DEF RunScript
<1>3. agreed \subseteq agreed' /\ trusted' \subseteq agreed' /\ version' = version
  BY <1>1 DEF WorkspacesInv, RegistriesOk, OnlyAgreed
<1>4. request[c].at # "record"
  BY <1>1, NothingHeld DEF Makes
<1> QED
  BY <1>1, <1>2, <1>3, <1>4, NothingHeld, RequestMoves

(* A record is changed, but not in what joins it to a project and a checkout. *)
LEMMA RecordTouched ==
  ASSUME WorkspacesInv, NEW c \in Connections, NEW q \in RequestsOf, NEW w \in AnyWorkspace,
         NEW r \in RecordsOf, workspace' = [workspace EXCEPT ![w] = r],
         r.project = workspace[w].project, r.cwd = workspace[w].cwd, r.branch = workspace[w].branch,
         r.state = workspace[w].state \/ r.state = "archived", r.label => workspace[w].label \/ catalogue,
         request' = [request EXCEPT ![c] = q], q.at \notin Lists, q.at \notin Makes, Holds(q)',
         request[c].at # "record", UNCHANGED <<projectState, catalogue, repo, version, trusted, agreed>>,
         executed' \subseteq agreed'
  PROVE  WorkspacesInv'
<1>0. WorkspacesTypes /\ RegistriesOk /\ w \in WorkspaceIds /\ UNCHANGED <<branches, checkedOut>>
  BY DEF WorkspacesInv, AnyWorkspace, Workspaces, repo
<1>1. workspace' \in [WorkspaceIds -> RecordsOf] /\ workspace'[w] = r
      /\ \A v \in WorkspaceIds : v # w => workspace'[v] = workspace[v]
  BY <1>0 DEF WorkspacesTypes
<1>2. AnyProject' = AnyProject /\ \A state : Projects(state)' = Projects(state)
  BY DEF AnyProject, Projects
<1>3. /\ AnyWorkspace' = AnyWorkspace /\ Workspaces("live")' \subseteq Workspaces("live")
      /\ \A p : DefaultsOf(p)' \subseteq DefaultsOf(p)
  BY <1>1 DEF AnyWorkspace, Workspaces, DefaultsOf
<1>4. request'[c] = q /\ \A b \in Connections : b # c => request'[b] = request[b]
  BY <1>0 DEF WorkspacesTypes
<1>5. \A b \in Connections : b # c => Holds(request[b])'
  <2>1. \A b \in Connections : Holds(request[b])
    BY DEF WorkspacesInv, RequestsHold
  <2>2. \A b \in Connections : b # c => (DefaultsOf(request[b].project)' \subseteq DefaultsOf(request[b].project))
    BY <1>4, <1>3
  <2>3. \A b \in Connections : b # c =>
           /\ request[b].at \in Makes => /\ request[b].id \notin AnyWorkspace'
                                         /\ checkedOut'[request[b].id] = checkedOut[request[b].id]
           /\ request[b].at = "append" => Projects("live")' = {}
           /\ request[b].at = "create" => DefaultsOf(request[b].project)' = {}
           /\ request[b].at = "label" => catalogue'
    BY <1>0, <1>2, <1>3, <2>1, <2>2 DEF Holds
  <2>4. \A b \in Connections : request[b].at = "remove" => workspace'[request[b].id].state = "archived"
    <3> SUFFICES ASSUME NEW b \in Connections, request[b].at = "remove"
                 PROVE  workspace'[request[b].id].state = "archived"
      OBVIOUS
    <3>1. workspace[request[b].id].state = "archived" /\ request[b].id \in WorkspaceIds
      BY <2>1 DEF Holds, Treats, AnyWorkspace, Workspaces
    <3> QED
      BY <1>1, <3>1
  <2> QED
    BY <1>2, <1>3, <1>4, <2>3, <2>4, OthersHold
<1>6. request' \in [Connections -> RequestsOf] /\ RequestsHold' /\ RequestsApart'
  BY <1>5, RequestReplaced
<1>7. WorkspacesTypes'
  BY <1>0, <1>1, <1>6 DEF WorkspacesTypes
<1>8. OneOfEach' /\ OnlyAgreed'
  BY <1>0, <1>2, <1>3 DEF RegistriesOk, OneOfEach, OnlyAgreed
<1>9. RecordsJoined'
  BY <1>0, <1>1, <1>2, <1>3 DEF RegistriesOk, RecordsJoined, AnyWorkspace, Workspaces
<1>10. CheckoutsHeld'
  <2>1. \A v \in Workspaces("live")' : v \in Workspaces("live") /\ v \in WorkspaceIds
          /\ workspace'[v].cwd = workspace[v].cwd /\ workspace'[v].branch = workspace[v].branch
    BY <1>1, <1>3 DEF Workspaces
  <2> QED
    BY <1>0, <1>3, <1>4, <2>1 DEF RegistriesOk, CheckoutsHeld
<1> QED
  BY <1>6, <1>7, <1>8, <1>9, <1>10 DEF WorkspacesInv, RegistriesOk

(* A record is made where there is none. *)
LEMMA RecordMade ==
  ASSUME WorkspacesInv, NEW c \in Connections, NEW w \in WorkspaceIds, w \notin AnyWorkspace,
         NEW r \in RecordsOf, workspace' = [workspace EXCEPT ![w] = r],
         r.state = "live", r.project \in AnyProject, ~r.label,
         r.cwd = "root" => /\ DefaultsOf(r.project) = {}
                           /\ \A b \in Connections : b # c => request[b].at \notin Lists,
         r.cwd = "worktree" => checkedOut[w] = r.branch,
         request' = [request EXCEPT ![c] = NoRequest], request[c].at = "record" => request[c].id = w,
         \A b \in Connections : b # c /\ request[b].at \in Makes => request[b].id # w,
         UNCHANGED <<projectState, catalogue, repo, commands>>
  PROVE  WorkspacesInv'
<1>0. /\ WorkspacesTypes /\ RegistriesOk
      /\ UNCHANGED <<branches, checkedOut, version, trusted, agreed, executed>>
  BY DEF WorkspacesInv, repo, commands
<1>1. workspace' \in [WorkspaceIds -> RecordsOf] /\ workspace'[w] = r
      /\ \A v \in WorkspaceIds : v # w => workspace'[v] = workspace[v]
  BY <1>0 DEF WorkspacesTypes
<1>2. AnyProject' = AnyProject /\ \A state : Projects(state)' = Projects(state)
  BY DEF AnyProject, Projects
<1>3. AnyWorkspace' = AnyWorkspace \cup {w} /\ Workspaces("live")' = Workspaces("live") \cup {w}
  BY <1>1 DEF AnyWorkspace, Workspaces
<1>4. \A p : DefaultsOf(p)' = DefaultsOf(p) \cup (IF r.project = p /\ r.cwd = "root" THEN {w} ELSE {})
  <2>1. \A v \in WorkspaceIds : v # w => (v \in Workspaces("live")' <=> v \in Workspaces("live"))
    BY <1>3
  <2>2. Workspaces("live") \subseteq WorkspaceIds /\ w \notin Workspaces("live")
    BY DEF Workspaces, AnyWorkspace
  <2> QED
    BY <1>1, <1>3, <2>1, <2>2 DEF DefaultsOf
<1>5. request'[c] = NoRequest /\ \A b \in Connections : b # c => request'[b] = request[b]
  BY <1>0 DEF WorkspacesTypes
<1>6. \A b \in Connections : b # c => Holds(request[b])'
  <2>1. \A b \in Connections : Holds(request[b])
    BY DEF WorkspacesInv, RequestsHold
  <2>2. \A b \in Connections : b # c =>
           /\ request[b].at \in Makes => /\ request[b].id \notin AnyWorkspace'
                                         /\ checkedOut'[request[b].id] = checkedOut[request[b].id]
           /\ request[b].at = "append" => Projects("live")' = {}
           /\ request[b].at = "label" => catalogue'
    BY <1>0, <1>2, <1>3, <2>1 DEF Holds
  <2>3. \A b \in Connections : b # c /\ request[b].at = "create" => DefaultsOf(request[b].project)' = {}
    <3> SUFFICES ASSUME NEW b \in Connections, b # c, request[b].at = "create"
                 PROVE  DefaultsOf(request[b].project)' = {}
      OBVIOUS
    <3>1. PICK p : p = request[b].project
      OBVIOUS
    <3>2. DefaultsOf(p) = {} /\ r.cwd # "root"
      BY <2>1, <3>1 DEF Holds, Lists
    <3>3. DefaultsOf(p)' = {}
      BY <1>4, <3>2
    <3> QED
      BY <1>5, <3>1, <3>3
  <2>4. \A b \in Connections : request[b].at = "remove" => workspace'[request[b].id].state = "archived"
    <3> SUFFICES ASSUME NEW b \in Connections, request[b].at = "remove"
                 PROVE  workspace'[request[b].id].state = "archived"
      OBVIOUS
    <3>1. workspace[request[b].id].state = "archived" /\ request[b].id \in WorkspaceIds
          /\ request[b].id \in AnyWorkspace
      BY <2>1 DEF Holds, Treats, AnyWorkspace, Workspaces
    <3> QED
      BY <1>1, <3>1
  <2> QED
    BY <1>0, <1>2, <1>3, <1>5, <2>2, <2>3, <2>4, OthersHold
<1>7. request' \in [Connections -> RequestsOf] /\ RequestsHold' /\ RequestsApart'
  BY <1>6, NothingHeld, RequestReplaced
<1>8. WorkspacesTypes'
  BY <1>0, <1>1, <1>7 DEF WorkspacesTypes
<1>9. OneOfEach' /\ OnlyAgreed'
  BY <1>0, <1>2, <1>4 DEF RegistriesOk, OneOfEach, OnlyAgreed
<1>10. RecordsJoined'
  BY <1>0, <1>1, <1>2, <1>3 DEF RegistriesOk, RecordsJoined, AnyWorkspace, Workspaces
<1>11. CheckoutsHeld'
  <2>1. \A v \in WorkspaceIds : checkedOut[v] # NoBranch =>
          v \in AnyWorkspace' \/ \E b \in Connections : request'[b].at = "record" /\ request'[b].id = v
    BY <1>0, <1>3, <1>5 DEF RegistriesOk, CheckoutsHeld
  <2>2. \A v \in Workspaces("live")' : workspace'[v].cwd = "worktree" => checkedOut[v] = workspace'[v].branch
    <3>1. \A v \in Workspaces("live") : v \in WorkspaceIds /\ v # w
      BY DEF Workspaces, AnyWorkspace
    <3> QED
      BY <1>0, <1>1, <1>3, <3>1 DEF RegistriesOk, CheckoutsHeld
  <2> QED
    BY <1>0, <2>1, <2>2 DEF RegistriesOk, CheckoutsHeld
<1> QED
  BY <1>7, <1>8, <1>9, <1>10, <1>11 DEF WorkspacesInv, RegistriesOk

LEMMA RecordIsOne ==
  ASSUME NEW p \in ProjectIds, NEW cwd \in {"root", "other", "worktree"}, NEW branch \in Branches \cup {NoBranch}
  PROVE  /\ Record(p, cwd, branch) \in RecordsOf /\ Record(p, cwd, branch).state = "live"
         /\ Record(p, cwd, branch).project = p /\ Record(p, cwd, branch).cwd = cwd
         /\ Record(p, cwd, branch).branch = branch /\ ~Record(p, cwd, branch).label
BY DEF Record, RecordsOf, RecordStates

LEMMA OpenCreateKeeps ==
  ASSUME WorkspacesInv, NEW c \in Connections, OpenCreate(c)
  PROVE  WorkspacesInv'
<1>1. PICK w, p, r : w = NewWorkspace /\ p = request[c].project /\ r = Record(p, "root", NoBranch)
  OBVIOUS
<1>2. request[c].at = "create" /\ Holds(request[c]) /\ RoomForWorkspace
      /\ workspace' = [workspace EXCEPT ![w] = r] /\ request' = [request EXCEPT ![c] = NoRequest]
      /\ UNCHANGED <<projectState, catalogue, repo, commands>>
  BY <1>1 DEF OpenCreate, Is, Writes, Ends, Goes, WorkspacesInv, RequestsHold
<1>3. p \in AnyProject /\ p \in ProjectIds /\ DefaultsOf(p) = {}
  BY <1>1, <1>2 DEF Holds, AnyProject, Projects
<1>4. r \in RecordsOf /\ r.state = "live" /\ r.project = p /\ ~r.label /\ r.cwd = "root"
  BY <1>1, <1>3, RecordIsOne
<1>5. w \in WorkspaceIds /\ w \notin AnyWorkspace
      /\ \A b \in Connections : request[b].at \in Makes => request[b].id # w
  BY <1>1, <1>2, NewWorkspaceIsNew
<1>6. \A b \in Connections : b # c => request[b].at \notin Lists
  BY <1>2 DEF WorkspacesInv, RequestsApart, Lists
<1> QED
  BY <1>2, <1>3, <1>4, <1>5, <1>6, RecordMade

LEMMA AddDirectoryKeeps ==
  ASSUME WorkspacesInv, Barred(WorkspaceRaces), NEW c \in Connections, AddDirectory(c)
  PROVE  WorkspacesInv'
<1>1. PICK p \in AnyProject : Writes(NewWorkspace, Record(p, "other", NoBranch))
  BY WorkspaceRacesBarred DEF AddDirectory
<1>2. PICK w, r : w = NewWorkspace /\ r = Record(p, "other", NoBranch)
  OBVIOUS
<1>3. request[c].at # "record" /\ RoomForWorkspace
      /\ workspace' = [workspace EXCEPT ![w] = r] /\ request' = [request EXCEPT ![c] = NoRequest]
      /\ UNCHANGED <<projectState, catalogue, repo, commands>>
  BY <1>1, <1>2, NothingHeld DEF AddDirectory, Writes, Asks
<1>4. p \in ProjectIds
  BY DEF AnyProject, Projects
<1>5. r \in RecordsOf /\ r.state = "live" /\ r.project = p /\ ~r.label /\ r.cwd = "other"
  BY <1>2, <1>4, RecordIsOne
<1>6. w \in WorkspaceIds /\ w \notin AnyWorkspace
      /\ \A b \in Connections : request[b].at \in Makes => request[b].id # w
  BY <1>2, <1>3, NewWorkspaceIsNew
<1> QED
  BY <1>3, <1>5, <1>6, RecordMade

LEMMA RecordWorktreeKeeps ==
  ASSUME WorkspacesInv, NEW c \in Connections, RecordWorktree(c)
  PROVE  WorkspacesInv'
<1>1. PICK w, p, n, r : w = request[c].id /\ p = request[c].project /\ n = request[c].read
                        /\ r = Record(p, "worktree", n)
  OBVIOUS
<1>2. request[c].at = "record" /\ Holds(request[c])
      /\ workspace' = [workspace EXCEPT ![w] = r] /\ request' = [request EXCEPT ![c] = NoRequest]
      /\ UNCHANGED <<projectState, catalogue, repo, commands>>
  BY <1>1 DEF RecordWorktree, Is, Writes, Ends, Goes, WorkspacesInv, RequestsHold
<1>3. p \in AnyProject /\ p \in ProjectIds /\ n \in Branches /\ w \in WorkspaceIds /\ w \notin AnyWorkspace
      /\ checkedOut[w] = n
  BY <1>1, <1>2 DEF Holds, Makes, AnyProject, Projects
<1>4. r \in RecordsOf /\ r.state = "live" /\ r.project = p /\ ~r.label /\ r.cwd = "worktree" /\ r.branch = n
  BY <1>1, <1>3, RecordIsOne
<1>5. \A b \in Connections : b # c /\ request[b].at \in Makes => request[b].id # w
  BY <1>1, <1>2 DEF WorkspacesInv, RequestsApart, Makes
<1>6. r.cwd # "root" /\ r.project \in AnyProject /\ checkedOut[w] = r.branch /\ request[c].id = w
  BY <1>1, <1>3, <1>4
<1> QED
  BY <1>2, <1>3, <1>4, <1>5, <1>6, RecordMade

LEMMA UpdateKeeps ==
  ASSUME WorkspacesInv, NEW c \in Connections, Update(c)
  PROVE  WorkspacesInv'
<1>1. PICK w, r : w = request[c].id
                  /\ r = IF workspace' = workspace THEN workspace[w] ELSE [workspace[w] EXCEPT !.label = TRUE]
  OBVIOUS
<1>2. request[c].at = "label" /\ Holds(request[c]) /\ request' = [request EXCEPT ![c] = NoRequest]
      /\ UNCHANGED <<projectState, catalogue, repo, version, trusted, agreed, executed>>
  BY DEF Update, Is, Ends, Goes, WorkspacesInv, RequestsHold, commands
<1>3. w \in AnyWorkspace /\ w \in WorkspaceIds /\ catalogue
  BY <1>1, <1>2 DEF Holds, AnyWorkspace, Workspaces
<1>4. workspace \in [WorkspaceIds -> RecordsOf]
  BY DEF WorkspacesInv, WorkspacesTypes
<1>5. workspace' = [workspace EXCEPT ![w] = r]
  BY <1>1, <1>3, <1>4 DEF Update, Writes
<1>6. r \in RecordsOf /\ r.project = workspace[w].project /\ r.cwd = workspace[w].cwd
      /\ r.branch = workspace[w].branch /\ r.state = workspace[w].state
  <2>1. workspace[w] \in RecordsOf
    BY <1>3, <1>4
  <2>2. [workspace[w] EXCEPT !.label = TRUE] \in RecordsOf
    BY <2>1 DEF RecordsOf
  <2>3. r = workspace[w] \/ r = [workspace[w] EXCEPT !.label = TRUE]
    BY <1>1
  <2> QED
    BY <2>1, <2>2, <2>3 DEF RecordsOf
<1>7. executed' \subseteq agreed'
  BY <1>2 DEF WorkspacesInv, RegistriesOk, OnlyAgreed
<1> QED
  BY <1>2, <1>3, <1>5, <1>6, <1>7, NothingHeld, RecordTouched

LEMMA ClearLabelsKeeps ==
  ASSUME WorkspacesInv, NEW c \in Connections, ClearLabels(c)
  PROVE  WorkspacesInv'
<1>1. PICK w \in AnyWorkspace : Writes(w, [workspace[w] EXCEPT !.label = FALSE])
  BY DEF ClearLabels
<1>2. PICK r : r = [workspace[w] EXCEPT !.label = FALSE]
  OBVIOUS
<1>3. workspace' = [workspace EXCEPT ![w] = r] /\ request' = [request EXCEPT ![c] = NoRequest]
      /\ request[c].at # "record"
      /\ UNCHANGED <<projectState, catalogue, repo, version, trusted, agreed, executed>>
  BY <1>1, <1>2, NothingHeld DEF ClearLabels, Asks, Writes, commands
<1>4. workspace[w] \in RecordsOf
  BY DEF WorkspacesInv, WorkspacesTypes, AnyWorkspace, Workspaces
<1>5. r \in RecordsOf /\ r.project = workspace[w].project /\ r.cwd = workspace[w].cwd
      /\ r.branch = workspace[w].branch /\ r.state = workspace[w].state /\ ~r.label
  BY <1>2, <1>4 DEF RecordsOf
<1>6. executed' \subseteq agreed'
  BY <1>3 DEF WorkspacesInv, RegistriesOk, OnlyAgreed
<1> QED
  BY <1>3, <1>5, <1>6, NothingHeld, RecordTouched

LEMMA RunSetupKeeps ==
  ASSUME WorkspacesInv, NEW c \in Connections, RunSetup(c)
  PROVE  WorkspacesInv'
<1>1. PICK outcome \in {"ok", "failed"} :
        Writes(request[c].id, [workspace[request[c].id] EXCEPT
          !.setup = IF IsTrusted(request[c].project, request[c].read) THEN outcome ELSE "pending"])
  BY DEF RunSetup
<1>2. PICK w, r : w = request[c].id
        /\ r = [workspace[w] EXCEPT
                  !.setup = IF IsTrusted(request[c].project, request[c].read) THEN outcome ELSE "pending"]
  OBVIOUS
<1>3. workspace' = [workspace EXCEPT ![w] = r] /\ request' = [request EXCEPT ![c] = NoRequest]
      /\ request[c].at = "run" /\ Holds(request[c]) /\ Executes(request[c].project, request[c].read)
      /\ UNCHANGED <<projectState, catalogue, repo, version, trusted, agreed>>
  BY <1>1, <1>2 DEF RunSetup, Is, Ends, Goes, Writes, WorkspacesInv, RequestsHold
<1>4. w \in AnyWorkspace /\ workspace[w] \in RecordsOf
  BY <1>2, <1>3 DEF Holds, Treats, WorkspacesInv, WorkspacesTypes, AnyWorkspace, Workspaces
<1>5. r \in RecordsOf /\ r.project = workspace[w].project /\ r.cwd = workspace[w].cwd
      /\ r.branch = workspace[w].branch /\ r.state = workspace[w].state /\ r.label = workspace[w].label
  BY <1>2, <1>4 DEF RecordsOf
<1>6. executed' \subseteq agreed'
  BY <1>3, ExecutesAgreed
<1> QED
  BY <1>3, <1>4, <1>5, <1>6, NothingHeld, RecordTouched

LEMMA MarkKeeps ==
  ASSUME WorkspacesInv, NEW c \in Connections, Mark(c)
  PROVE  WorkspacesInv'
<1>1. PICK w, r, q : w = request[c].id /\ r = [workspace[w] EXCEPT !.state = "archived"]
                     /\ q = IF request[c].option THEN [request[c] EXCEPT !.at = "remove"] ELSE NoRequest
  OBVIOUS
<1>2. request[c].at = "mark" /\ Holds(request[c]) /\ request[c] \in RequestsOf
      /\ workspace' = [workspace EXCEPT ![w] = r] /\ request' = [request EXCEPT ![c] = q]
      /\ UNCHANGED <<projectState, catalogue, repo, version, trusted, agreed, executed>>
  BY <1>1 DEF Mark, Is, Writes, Ends, Goes, WorkspacesInv, RequestsHold, WorkspacesTypes, commands
<1>3. w \in AnyWorkspace /\ w \in WorkspaceIds /\ request[c].project \in AnyProject
  BY <1>1, <1>2 DEF Holds, Treats, AnyWorkspace, Workspaces
<1>4. workspace \in [WorkspaceIds -> RecordsOf]
  BY DEF WorkspacesInv, WorkspacesTypes
<1>5. r \in RecordsOf /\ r.project = workspace[w].project /\ r.cwd = workspace[w].cwd
      /\ r.branch = workspace[w].branch /\ r.state = "archived" /\ r.label = workspace[w].label
  BY <1>1, <1>3, <1>4 DEF RecordsOf, RecordStates
<1>6. q \in RequestsOf /\ q.at \in {"remove", "none"} /\ (q.at = "remove" => q.id = w /\ q.project = request[c].project)
  BY <1>1, <1>2, NothingHeld DEF RequestsOf, Lists, Makes, Treats
<1>7. Holds(q)'
  <2>1. AnyProject' = AnyProject
    BY <1>2 DEF AnyProject, Projects
  <2>2. w \in AnyWorkspace' /\ workspace'[w].state = "archived"
    BY <1>2, <1>3, <1>4, <1>5 DEF AnyWorkspace, Workspaces
  <2> QED
    BY <1>3, <1>6, <2>1, <2>2 DEF Holds, Makes, Treats
<1>8. executed' \subseteq agreed'
  BY <1>2 DEF WorkspacesInv, RegistriesOk, OnlyAgreed
<1>9. q.at \notin Lists /\ q.at \notin Makes
  BY <1>6 DEF Lists, Makes
<1> QED
  BY <1>2, <1>3, <1>5, <1>6, <1>7, <1>8, <1>9, RecordTouched

(* A checkout goes, and with it the request that made or removed it. *)
LEMMA CheckoutGoes ==
  ASSUME WorkspacesInv, NEW c \in Connections, NEW w \in WorkspaceIds,
         checkedOut' = checkedOut \/ (checkedOut' = [checkedOut EXCEPT ![w] = NoBranch] /\ w \notin Workspaces("live")),
         request' = [request EXCEPT ![c] = NoRequest],
         request[c].at = "record" => request[c].id = w /\ checkedOut'[w] = NoBranch,
         \A b \in Connections : b # c /\ request[b].at \in Makes => request[b].id # w,
         UNCHANGED <<registries, branches, commands>>
  PROVE  WorkspacesInv'
<1>0. /\ WorkspacesTypes /\ RegistriesOk
      /\ UNCHANGED <<projectState, workspace, catalogue, branches, version, trusted, agreed, executed>>
  BY DEF WorkspacesInv, registries, commands
<1>1. /\ AnyProject' = AnyProject /\ AnyWorkspace' = AnyWorkspace
      /\ \A state : Projects(state)' = Projects(state) /\ Workspaces(state)' = Workspaces(state)
      /\ \A p : DefaultsOf(p)' = DefaultsOf(p)
  BY <1>0 DEF AnyProject, AnyWorkspace, Projects, Workspaces, DefaultsOf
<1>2. request'[c] = NoRequest /\ \A b \in Connections : b # c => request'[b] = request[b]
  BY <1>0 DEF WorkspacesTypes
<1>3. /\ checkedOut' \in [WorkspaceIds -> branches \cup {NoBranch}]
      /\ \A v \in WorkspaceIds : v # w => checkedOut'[v] = checkedOut[v]
      /\ checkedOut'[w] = NoBranch \/ checkedOut'[w] = checkedOut[w]
      /\ w \in Workspaces("live") => checkedOut'[w] = checkedOut[w]
  BY <1>0 DEF WorkspacesTypes
<1>4. \A b \in Connections : b # c => Holds(request[b])'
  <2>1. \A b \in Connections : Holds(request[b])
    BY DEF WorkspacesInv, RequestsHold
  <2>2. \A b \in Connections : b # c => DefaultsOf(request[b].project)' = DefaultsOf(request[b].project)
    BY <1>1, <1>2
  <2>3. \A b \in Connections : b # c =>
           /\ request[b].at \in Makes => /\ request[b].id \notin AnyWorkspace'
                                         /\ checkedOut'[request[b].id] = checkedOut[request[b].id]
           /\ request[b].at = "remove" => workspace'[request[b].id].state = "archived"
           /\ request[b].at = "append" => Projects("live")' = {}
           /\ request[b].at = "create" => DefaultsOf(request[b].project)' = {}
           /\ request[b].at = "label" => catalogue'
    BY <1>0, <1>1, <1>3, <2>1, <2>2 DEF Holds
  <2> QED
    BY <1>0, <1>1, <1>2, <2>3, OthersHold
<1>5. request' \in [Connections -> RequestsOf] /\ RequestsHold' /\ RequestsApart'
  BY <1>4, NothingHeld, RequestReplaced
<1>6. WorkspacesTypes'
  BY <1>0, <1>3, <1>5 DEF WorkspacesTypes
<1>7. OneOfEach' /\ OnlyAgreed' /\ RecordsJoined'
  BY <1>0, <1>1 DEF RegistriesOk, OneOfEach, OnlyAgreed, RecordsJoined
<1>8. CheckoutsHeld'
  <2>1. \A v \in WorkspaceIds : checkedOut'[v] # NoBranch =>
          v \in AnyWorkspace' \/ \E b \in Connections : request'[b].at = "record" /\ request'[b].id = v
    <3> SUFFICES ASSUME NEW v \in WorkspaceIds, checkedOut'[v] # NoBranch, v \notin AnyWorkspace
                 PROVE  \E b \in Connections : request'[b].at = "record" /\ request'[b].id = v
      BY <1>1
    <3>1. checkedOut[v] # NoBranch
      BY <1>3
    <3>2. PICK b \in Connections : request[b].at = "record" /\ request[b].id = v
      BY <1>0, <3>1 DEF RegistriesOk, CheckoutsHeld
    <3>3. b # c
      BY <3>2
    <3> QED
      BY <1>2, <3>2, <3>3
  <2>2. \A v \in Workspaces("live") : workspace[v].cwd = "worktree" => checkedOut'[v] = workspace[v].branch
    BY <1>0, <1>3 DEF RegistriesOk, CheckoutsHeld, Workspaces
  <2>3. \A u, v \in WorkspaceIds : u # v /\ checkedOut'[u] = checkedOut'[v] => checkedOut'[u] = NoBranch
    BY <1>0, <1>3 DEF RegistriesOk, CheckoutsHeld
  <2> QED
    BY <1>0, <1>1, <2>1, <2>2, <2>3 DEF CheckoutsHeld
<1> QED
  BY <1>5, <1>6, <1>7, <1>8 DEF WorkspacesInv, RegistriesOk

LEMMA RecordFailsKeeps ==
  ASSUME WorkspacesInv, NEW c \in Connections, RecordFails(c)
  PROVE  WorkspacesInv'
<1>1. PICK w : w = request[c].id
  OBVIOUS
<1>2. request[c].at = "record" /\ Holds(request[c]) /\ request' = [request EXCEPT ![c] = NoRequest]
      /\ checkedOut' = [checkedOut EXCEPT ![w] = NoBranch] /\ UNCHANGED <<registries, branches, commands>>
  BY <1>1 DEF RecordFails, Is, Ends, Goes, WorkspacesInv, RequestsHold
<1>3. w \in WorkspaceIds /\ w \notin Workspaces("live")
  BY <1>1, <1>2 DEF Holds, Makes, AnyWorkspace
<1>4. \A b \in Connections : b # c /\ request[b].at \in Makes => request[b].id # w
  BY <1>1, <1>2 DEF WorkspacesInv, RequestsApart, Makes
<1>5. checkedOut'[w] = NoBranch
  BY <1>2, <1>3 DEF WorkspacesInv, WorkspacesTypes
<1> QED
  BY <1>1, <1>2, <1>3, <1>4, <1>5, CheckoutGoes

LEMMA RemoveCheckoutKeeps ==
  ASSUME WorkspacesInv, NEW c \in Connections, RemoveCheckout(c)
  PROVE  WorkspacesInv'
<1>1. PICK w : w = request[c].id
  OBVIOUS
<1>2. request[c].at = "remove" /\ Holds(request[c]) /\ request' = [request EXCEPT ![c] = NoRequest]
      /\ (checkedOut' = checkedOut \/ checkedOut' = [checkedOut EXCEPT ![w] = NoBranch])
      /\ UNCHANGED <<registries, branches, commands>>
  BY <1>1 DEF RemoveCheckout, Is, Ends, Goes, WorkspacesInv, RequestsHold
<1>3. w \in AnyWorkspace /\ w \in WorkspaceIds /\ w \notin Workspaces("live")
  BY <1>1, <1>2 DEF Holds, Treats, AnyWorkspace, Workspaces
<1>4. \A b \in Connections : request[b].at \in Makes => request[b].id # w
  BY <1>3 DEF WorkspacesInv, RequestsHold, Holds
<1> QED
  BY <1>2, <1>3, <1>4, CheckoutGoes

LEMMA AddWorktreeKeeps ==
  ASSUME WorkspacesInv, NEW c \in Connections, AddWorktree(c)
  PROVE  WorkspacesInv'
<1>1. PICK w, n, r : w = request[c].id /\ n = request[c].read
                     /\ r = IF n \in branches THEN NoRequest ELSE [request[c] EXCEPT !.at = "record"]
  OBVIOUS
<1>2. request[c].at = "add" /\ Holds(request[c]) /\ request[c] \in RequestsOf
      /\ request' = [request EXCEPT ![c] = r] /\ UNCHANGED <<registries, commands>>
  BY <1>1 DEF AddWorktree, Is, Ends, Goes, WorkspacesInv, WorkspacesTypes, RequestsHold
<1>3. w \in WorkspaceIds /\ w \notin AnyWorkspace /\ n \in Branches /\ checkedOut[w] = NoBranch
      /\ request[c].project \in AnyProject
  BY <1>1, <1>2 DEF Holds, Makes
<1>4. \A b \in Connections : b # c /\ request[b].at \in Makes => request[b].id # w
  BY <1>1, <1>2 DEF WorkspacesInv, RequestsApart, Makes
<1>5. CASE n \in branches
  <2>1. UNCHANGED <<branches, checkedOut>> /\ r = NoRequest
    BY <1>1, <1>5 DEF AddWorktree, repo
  <2>2. checkedOut' = checkedOut /\ branches' = branches /\ request[c].at # "record"
        /\ request' = [request EXCEPT ![c] = NoRequest] /\ UNCHANGED <<registries, branches, commands>>
    BY <1>2, <2>1
  <2>3. checkedOut' = checkedOut \/ (checkedOut' = [checkedOut EXCEPT ![w] = NoBranch] /\ w \notin Workspaces("live"))
    BY <2>2
  <2>4. request[c].at = "record" => request[c].id = w /\ checkedOut'[w] = NoBranch
    BY <2>2
  <2> QED
    BY <1>3, <1>4, <2>2, <2>3, <2>4, CheckoutGoes
<1>6. CASE n \notin branches
  <2>0. /\ WorkspacesTypes /\ RegistriesOk
        /\ UNCHANGED <<projectState, workspace, catalogue, version, trusted, agreed, executed>>
    BY <1>2 DEF WorkspacesInv, registries, commands
  <2>1. branches' = branches \cup {n} /\ checkedOut' = [checkedOut EXCEPT ![w] = n]
        /\ r = [request[c] EXCEPT !.at = "record"]
    BY <1>1, <1>6 DEF AddWorktree
  <2>2. n # NoBranch /\ n \notin {checkedOut[v] : v \in WorkspaceIds}
    BY <1>3, <1>6, <2>0, WorkspacesAssumption DEF WorkspacesTypes, Branches, NoBranch
  <2>3. /\ checkedOut' \in [WorkspaceIds -> branches' \cup {NoBranch}] /\ checkedOut'[w] = n
        /\ \A v \in WorkspaceIds : v # w => checkedOut'[v] = checkedOut[v]
    <3>1. checkedOut \in [WorkspaceIds -> branches \cup {NoBranch}]
      BY <2>0 DEF WorkspacesTypes
    <3>2. checkedOut \in [WorkspaceIds -> branches' \cup {NoBranch}] /\ n \in branches'
      BY <2>1, <3>1
    <3> HIDE DEF NoBranch
    <3> QED
      BY <1>3, <2>1, <3>2
  <2>4. /\ AnyProject' = AnyProject /\ AnyWorkspace' = AnyWorkspace
        /\ \A state : Projects(state)' = Projects(state) /\ Workspaces(state)' = Workspaces(state)
        /\ \A p : DefaultsOf(p)' = DefaultsOf(p)
    BY <2>0 DEF AnyProject, AnyWorkspace, Projects, Workspaces, DefaultsOf
  <2>5. request'[c] = r /\ \A b \in Connections : b # c => request'[b] = request[b]
    BY <1>2, <2>0 DEF WorkspacesTypes
  <2>6. r \in RequestsOf /\ r.at = "record" /\ r.id = w /\ r.read = n /\ r.project = request[c].project
    BY <1>1, <1>2, <2>1 DEF RequestsOf, Lists, Makes, Treats
  <2>7. Holds(r)'
    BY <1>3, <2>3, <2>4, <2>6 DEF Holds, Makes, Treats
  <2>8. \A b \in Connections : b # c => Holds(request[b])'
    <3>1. \A b \in Connections : Holds(request[b])
      BY DEF WorkspacesInv, RequestsHold
    <3>2. \A b \in Connections : b # c => DefaultsOf(request[b].project)' = DefaultsOf(request[b].project)
      BY <2>4, <2>5
    <3>3. \A b \in Connections : b # c =>
             /\ request[b].at \in Makes => /\ request[b].id \notin AnyWorkspace'
                                           /\ checkedOut'[request[b].id] = checkedOut[request[b].id]
             /\ request[b].at = "remove" => workspace'[request[b].id].state = "archived"
             /\ request[b].at = "append" => Projects("live")' = {}
             /\ request[b].at = "create" => DefaultsOf(request[b].project)' = {}
             /\ request[b].at = "label" => catalogue'
      BY <1>4, <2>0, <2>3, <2>4, <3>1, <3>2 DEF Holds
    <3> QED
      BY <2>0, <2>4, <2>5, <3>3, OthersHold
  <2>9. request' \in [Connections -> RequestsOf] /\ RequestsHold' /\ RequestsApart'
    <3>1. r.at \notin Lists /\ request[c].at \in Makes /\ r.id = request[c].id
      BY <1>1, <1>2, <2>6 DEF Lists, Makes
    <3> QED
      BY <1>2, <2>6, <2>7, <2>8, <3>1, RequestReplaced
  <2>10. WorkspacesTypes'
    BY <1>3, <2>0, <2>1, <2>3, <2>9 DEF WorkspacesTypes
  <2>11. OneOfEach' /\ OnlyAgreed' /\ RecordsJoined'
    BY <2>0, <2>4 DEF RegistriesOk, OneOfEach, OnlyAgreed, RecordsJoined
  <2>12. CheckoutsHeld'
    <3>1. \A v \in WorkspaceIds : checkedOut'[v] # NoBranch =>
            v \in AnyWorkspace' \/ \E b \in Connections : request'[b].at = "record" /\ request'[b].id = v
      <4> SUFFICES ASSUME NEW v \in WorkspaceIds, checkedOut'[v] # NoBranch, v \notin AnyWorkspace
                   PROVE  \E b \in Connections : request'[b].at = "record" /\ request'[b].id = v
        BY <2>4
      <4>1. CASE v = w
        BY <2>5, <2>6, <4>1
      <4>2. CASE v # w
        <5>1. PICK b \in Connections : request[b].at = "record" /\ request[b].id = v
          BY <2>0, <2>3, <4>2 DEF RegistriesOk, CheckoutsHeld
        <5> QED
          BY <1>2, <2>5, <5>1
      <4> QED
        BY <4>1, <4>2
    <3>2. \A v \in Workspaces("live") : workspace[v].cwd = "worktree" => checkedOut'[v] = workspace[v].branch
      <4>1. \A v \in Workspaces("live") : v \in WorkspaceIds /\ v # w
        BY <1>3 DEF AnyWorkspace, Workspaces
      <4> QED
        BY <2>0, <2>3, <4>1 DEF RegistriesOk, CheckoutsHeld
    <3>3. \A u, v \in WorkspaceIds : u # v /\ checkedOut'[u] = checkedOut'[v] => checkedOut'[u] = NoBranch
      BY <2>0, <2>2, <2>3 DEF RegistriesOk, CheckoutsHeld
    <3> QED
      BY <2>0, <2>4, <3>1, <3>2, <3>3 DEF CheckoutsHeld
  <2> QED
    BY <2>9, <2>10, <2>11, <2>12 DEF WorkspacesInv, RegistriesOk
<1> QED
  BY <1>5, <1>6

(* The catalogue of labels, or the projects, change and nothing else but the request. *)
LEMMA CatalogueChanges ==
  ASSUME WorkspacesInv, NEW c \in Connections, NEW r \in RequestsOf, request' = [request EXCEPT ![c] = r],
         r.at \in {"none", "label"}, r.at = "label" => r.id \in AnyWorkspace /\ catalogue',
         catalogue' \in BOOLEAN, request[c].at # "record",
         \A w \in AnyWorkspace : workspace[w].label => catalogue',
         \A b \in Connections : b # c /\ request[b].at = "label" => catalogue',
         UNCHANGED <<projectState, workspace, repo, commands>>
  PROVE  WorkspacesInv'
<1>0. /\ WorkspacesTypes /\ RegistriesOk
      /\ UNCHANGED <<branches, checkedOut, version, trusted, agreed, executed>>
  BY DEF WorkspacesInv, repo, commands
<1>1. /\ AnyProject' = AnyProject /\ AnyWorkspace' = AnyWorkspace
      /\ \A state : Projects(state)' = Projects(state) /\ Workspaces(state)' = Workspaces(state)
      /\ \A p : DefaultsOf(p)' = DefaultsOf(p)
  BY DEF AnyProject, AnyWorkspace, Projects, Workspaces, DefaultsOf
<1>2. request'[c] = r /\ \A b \in Connections : b # c => request'[b] = request[b]
  BY <1>0 DEF WorkspacesTypes
<1>3. \A b \in Connections : b # c => Holds(request[b])'
  <2>1. \A b \in Connections : Holds(request[b])
    BY DEF WorkspacesInv, RequestsHold
  <2>2. \A b \in Connections : b # c => DefaultsOf(request[b].project)' = DefaultsOf(request[b].project)
    BY <1>1, <1>2
  <2>3. \A b \in Connections : b # c =>
           /\ request[b].at \in Makes => /\ request[b].id \notin AnyWorkspace'
                                         /\ checkedOut'[request[b].id] = checkedOut[request[b].id]
           /\ request[b].at = "remove" => workspace'[request[b].id].state = "archived"
           /\ request[b].at = "append" => Projects("live")' = {}
           /\ request[b].at = "create" => DefaultsOf(request[b].project)' = {}
           /\ request[b].at = "label" => catalogue'
    BY <1>0, <1>1, <2>1, <2>2 DEF Holds
  <2> QED
    BY <1>0, <1>1, <1>2, <2>3, OthersHold
<1>4. Holds(r)'
  BY <1>1 DEF Holds, Makes, Treats
<1>5. r.at \notin Lists /\ r.at \notin Makes
  BY DEF Lists, Makes
<1>6. request' \in [Connections -> RequestsOf] /\ RequestsHold' /\ RequestsApart'
  BY <1>3, <1>4, <1>5, RequestReplaced
<1>7. WorkspacesTypes'
  BY <1>0, <1>6 DEF WorkspacesTypes
<1>8. OneOfEach' /\ OnlyAgreed' /\ RecordsJoined'
  BY <1>0, <1>1 DEF RegistriesOk, OneOfEach, OnlyAgreed, RecordsJoined
<1>9. CheckoutsHeld'
  BY <1>0, <1>1, <1>2 DEF RegistriesOk, CheckoutsHeld
<1> QED
  BY <1>6, <1>7, <1>8, <1>9 DEF WorkspacesInv, RegistriesOk

LEMMA SetLabelsKeeps ==
  ASSUME WorkspacesInv, NEW c \in Connections, SetLabels(c)
  PROVE  WorkspacesInv'
<1>1. PICK w \in AnyWorkspace : Asks(c, [NoRequest EXCEPT !.at = "label", !.id = w])
  BY DEF SetLabels
<1>2. PICK r : r = [NoRequest EXCEPT !.at = "label", !.id = w]
  OBVIOUS
<1>3. request' = [request EXCEPT ![c] = r] /\ request[c].at # "record" /\ catalogue' = TRUE
      /\ UNCHANGED <<projectState, workspace, repo, commands>>
  BY <1>1, <1>2, NothingHeld DEF SetLabels, Asks
<1>4. r \in RequestsOf /\ r.at = "label" /\ r.id = w
  BY <1>2 DEF RequestsOf, NoRequest, AnyWorkspace, Workspaces
<1> QED
  BY <1>3, <1>4, CatalogueChanges

LEMMA PruneLabelsKeeps ==
  ASSUME WorkspacesInv, Barred(WorkspaceRaces), NEW c \in Connections, PruneLabels(c)
  PROVE  WorkspacesInv'
<1>1. request' = [request EXCEPT ![c] = NoRequest] /\ request[c].at # "record"
      /\ At({"label"}) = {} /\ catalogue' = (catalogue /\ \E w \in AnyWorkspace : workspace[w].label)
      /\ UNCHANGED <<projectState, workspace, repo, commands>>
  BY WorkspaceRacesBarred, NothingHeld DEF PruneLabels, Asks
<1>2. \A b \in Connections : request[b].at # "label"
  BY <1>1 DEF At
<1>3. catalogue' \in BOOLEAN
  BY <1>1
<1>4. \A w \in AnyWorkspace : workspace[w].label => catalogue'
  BY <1>1 DEF WorkspacesInv, RegistriesOk, RecordsJoined
<1> QED
  BY <1>1, <1>2, <1>3, <1>4, NothingHeld, CatalogueChanges

LEMMA ProjectChanges ==
  ASSUME WorkspacesInv, NEW c \in Connections, NEW r \in RequestsOf, request' = [request EXCEPT ![c] = r],
         r.at \in {"none", "list"}, r.at = "list" => r.project \in AnyProject' /\ request[c].at = "append",
         request[c].at # "record", projectState' \in [ProjectIds -> RecordStates],
         AnyProject \subseteq AnyProject',
         Projects("live")' \subseteq Projects("live") \/ request[c].at = "append",
         \A p, q \in Projects("live")' : p = q,
         UNCHANGED <<workspace, catalogue, repo, commands>>
  PROVE  WorkspacesInv'
<1>0. /\ WorkspacesTypes /\ RegistriesOk /\ RequestsApart
      /\ UNCHANGED <<branches, checkedOut, version, trusted, agreed, executed>>
  BY DEF WorkspacesInv, repo, commands
<1>1. /\ AnyWorkspace' = AnyWorkspace
      /\ \A state : Workspaces(state)' = Workspaces(state)
      /\ \A p : DefaultsOf(p)' = DefaultsOf(p)
  BY DEF AnyWorkspace, Workspaces, DefaultsOf
<1>2. request'[c] = r /\ \A b \in Connections : b # c => request'[b] = request[b]
  BY <1>0 DEF WorkspacesTypes
<1>3. \A b \in Connections : b # c => Holds(request[b])'
  <2>1. \A b \in Connections : Holds(request[b])
    BY DEF WorkspacesInv, RequestsHold
  <2>2. \A b \in Connections : b # c => DefaultsOf(request[b].project)' = DefaultsOf(request[b].project)
    BY <1>1, <1>2
  <2>3. \A b \in Connections : b # c /\ request[b].at = "append" => Projects("live")' = {}
    BY <1>0, <2>1 DEF Holds, RequestsApart, Lists
  <2>4. \A b \in Connections : b # c =>
           /\ request[b].at \in Makes => /\ request[b].id \notin AnyWorkspace'
                                         /\ checkedOut'[request[b].id] = checkedOut[request[b].id]
           /\ request[b].at = "remove" => workspace'[request[b].id].state = "archived"
           /\ request[b].at = "create" => DefaultsOf(request[b].project)' = {}
           /\ request[b].at = "label" => catalogue'
    BY <1>0, <1>1, <2>1, <2>2 DEF Holds
  <2> QED
    BY <1>0, <1>1, <1>2, <2>3, <2>4, OthersHold
<1>4. Holds(r)'
  BY <1>1 DEF Holds, Makes, Treats
<1>5. (r.at \in Lists => request[c].at \in Lists) /\ r.at \notin Makes
  BY DEF Lists, Makes
<1>6. request' \in [Connections -> RequestsOf] /\ RequestsHold' /\ RequestsApart'
  BY <1>3, <1>4, <1>5, RequestReplaced
<1>7. WorkspacesTypes'
  BY <1>0, <1>6 DEF WorkspacesTypes
<1>8. OneOfEach' /\ OnlyAgreed' /\ RecordsJoined'
  BY <1>0, <1>1 DEF RegistriesOk, OneOfEach, OnlyAgreed, RecordsJoined
<1>9. CheckoutsHeld'
  BY <1>0, <1>1, <1>2 DEF RegistriesOk, CheckoutsHeld
<1> QED
  BY <1>6, <1>7, <1>8, <1>9 DEF WorkspacesInv, RegistriesOk

LEMMA OpenAppendKeeps ==
  ASSUME WorkspacesInv, NEW c \in Connections, OpenAppend(c)
  PROVE  WorkspacesInv'
<1>1. PICK p, r : p = NewProject /\ r = [NoRequest EXCEPT !.at = "list", !.project = p]
  OBVIOUS
<1>2. request[c].at = "append" /\ Holds(request[c]) /\ RoomForProject
      /\ projectState' = [projectState EXCEPT ![p] = "live"] /\ request' = [request EXCEPT ![c] = r]
      /\ UNCHANGED <<workspace, catalogue, repo, commands>>
  BY <1>1 DEF OpenAppend, Is, Goes, WorkspacesInv, RequestsHold
<1>3. projectState \in [ProjectIds -> RecordStates]
  BY DEF WorkspacesInv, WorkspacesTypes
<1>4. p \in ProjectIds /\ Projects("live") = {}
  BY <1>1, <1>2, <1>3, NewProjectIsNew DEF Holds
<1>5. projectState' \in [ProjectIds -> RecordStates] /\ projectState'[p] = "live"
      /\ \A q \in ProjectIds : q # p => projectState'[q] = projectState[q]
  BY <1>2, <1>3, <1>4 DEF RecordStates
<1>6. AnyProject' = AnyProject \cup {p} /\ Projects("live")' = {p}
  BY <1>4, <1>5 DEF AnyProject, Projects
<1>7. r \in RequestsOf /\ r.at = "list" /\ r.project = p
  BY <1>1, <1>4 DEF RequestsOf, NoRequest, Lists
<1> QED
  BY <1>2, <1>5, <1>6, <1>7, ProjectChanges

LEMMA ArchiveProjectKeeps ==
  ASSUME WorkspacesInv, NEW c \in Connections, ArchiveProject(c)
  PROVE  WorkspacesInv'
<1>1. PICK p \in AnyProject : projectState' = [projectState EXCEPT ![p] = "archived"]
  BY DEF ArchiveProject
<1>2. request' = [request EXCEPT ![c] = NoRequest] /\ request[c].at # "record"
      /\ UNCHANGED <<workspace, catalogue, repo, commands>>
  BY NothingHeld DEF ArchiveProject, Asks
<1>3. projectState \in [ProjectIds -> RecordStates] /\ p \in ProjectIds
  BY DEF WorkspacesInv, WorkspacesTypes, AnyProject, Projects
<1>4. projectState' \in [ProjectIds -> RecordStates]
      /\ AnyProject' = AnyProject /\ Projects("live")' \subseteq Projects("live")
  BY <1>1, <1>3 DEF RecordStates, AnyProject, Projects
<1>5. \A q, s \in Projects("live")' : q = s
  BY <1>4 DEF WorkspacesInv, RegistriesOk, OneOfEach
<1> QED
  BY <1>2, <1>4, <1>5, NothingHeld, ProjectChanges

(* A user agrees to the commands of a project file, or somebody commits another. *)
LEMMA OutsideKeeps ==
  ASSUME WorkspacesInv, Agree \/ Commit
  PROVE  WorkspacesInv'
<1>1. /\ UNCHANGED <<projectState, workspace, catalogue, branches, checkedOut, request, trusted, executed>>
      /\ agreed \subseteq agreed' /\ version' \in Nat
  BY DEF Agree, Commit, registries, repo, WorkspacesInv, WorkspacesTypes
<1>2. /\ AnyProject' = AnyProject /\ AnyWorkspace' = AnyWorkspace
      /\ \A state : Projects(state)' = Projects(state) /\ Workspaces(state)' = Workspaces(state)
      /\ \A p : DefaultsOf(p)' = DefaultsOf(p)
  BY <1>1 DEF AnyProject, AnyWorkspace, Projects, Workspaces, DefaultsOf
<1>3. RequestsHold'
  <2> SUFFICES ASSUME NEW c \in Connections
               PROVE  Holds(request[c])'
    BY DEF RequestsHold
  <2>1. PICK q : q = request[c]
    OBVIOUS
  <2>2. request'[c] = q /\ Holds(q)
    BY <1>1, <2>1 DEF WorkspacesInv, RequestsHold
  <2>3. Holds(q)'
    BY <1>1, <1>2, <2>2, HoldsStill DEF Holds
  <2> QED
    BY <2>2, <2>3 DEF Holds
<1>4. WorkspacesTypes' /\ RequestsApart'
  BY <1>1 DEF WorkspacesInv, WorkspacesTypes, RequestsApart
<1>5. RegistriesOk'
  BY <1>1, <1>2 DEF WorkspacesInv, RegistriesOk, OneOfEach, OnlyAgreed, RecordsJoined, CheckoutsHeld
<1> QED
  BY <1>3, <1>4, <1>5 DEF WorkspacesInv

LEMMA DaemonDiesKeeps ==
  ASSUME WorkspacesInv, Barred(WorkspaceRaces), DaemonDies
  PROVE  WorkspacesInv'
<1>1. /\ UNCHANGED <<projectState, workspace, catalogue, branches, checkedOut, version, trusted, agreed, executed>>
      /\ request' = [c \in Connections |-> NoRequest] /\ At({"record"}) = {}
  BY WorkspaceRacesBarred DEF DaemonDies, registries, repo, commands
<1>2. /\ AnyProject' = AnyProject /\ AnyWorkspace' = AnyWorkspace
      /\ \A state : Projects(state)' = Projects(state) /\ Workspaces(state)' = Workspaces(state)
      /\ \A p : DefaultsOf(p)' = DefaultsOf(p)
  BY <1>1 DEF AnyProject, AnyWorkspace, Projects, Workspaces, DefaultsOf
<1>3. request' \in [Connections -> RequestsOf] /\ \A c \in Connections : request'[c] = NoRequest
  BY <1>1, NothingHeld
<1>4. RequestsHold'
  <2> SUFFICES ASSUME NEW c \in Connections
               PROVE  Holds(request[c])'
    BY DEF RequestsHold
  <2> QED
    BY <1>3, NothingHeld DEF Holds
<1>5. RequestsApart'
  BY <1>3, NothingHeld DEF RequestsApart
<1>6. WorkspacesTypes'
  BY <1>1, <1>3 DEF WorkspacesInv, WorkspacesTypes
<1>7. OneOfEach' /\ OnlyAgreed' /\ RecordsJoined'
  BY <1>1, <1>2 DEF WorkspacesInv, RegistriesOk, OneOfEach, OnlyAgreed, RecordsJoined
<1>8. CheckoutsHeld'
  <2>1. \A c \in Connections : request[c].at # "record"
    BY <1>1 DEF At
  <2> QED
    BY <1>1, <1>2, <2>1 DEF WorkspacesInv, RegistriesOk, CheckoutsHeld
<1> QED
  BY <1>4, <1>5, <1>6, <1>7, <1>8 DEF WorkspacesInv, RegistriesOk

LEMMA WorkspacesStep ==
  ASSUME WorkspacesInv, Barred(WorkspaceRaces), WorkspacesNext \/ UNCHANGED workspacesVars
  PROVE  WorkspacesInv'
<1>1. CASE UNCHANGED workspacesVars
  <2>1. UNCHANGED <<projectState, workspace, catalogue, branches, checkedOut, request, version,
                    trusted, agreed, executed>>
    BY <1>1 DEF workspacesVars
  <2>2. WorkspacesTypes' /\ RequestsApart' /\ RegistriesOk'
    BY <2>1 DEF WorkspacesInv, WorkspacesTypes, RequestsApart, RegistriesOk, OneOfEach, OnlyAgreed,
                RecordsJoined, CheckoutsHeld, AnyProject, AnyWorkspace, Projects, Workspaces, DefaultsOf
  <2>3. RequestsHold'
    BY <2>1 DEF WorkspacesInv, RequestsHold, Holds, AnyProject, AnyWorkspace, Projects, Workspaces,
                DefaultsOf
  <2> QED
    BY <2>2, <2>3 DEF WorkspacesInv
<1>2. CASE Agree \/ Commit \/ DaemonDies
  BY <1>2, OutsideKeeps, DaemonDiesKeeps
<1>3. ASSUME NEW c \in Connections,
             OpenFind(c) \/ OpenAppend(c) \/ OpenList(c) \/ OpenCreate(c) \/ ArchiveProject(c)
      PROVE  WorkspacesInv'
  BY <1>3, OpenFindKeeps, OpenAppendKeeps, OpenListKeeps, OpenCreateKeeps, ArchiveProjectKeeps
<1>4. ASSUME NEW c \in Connections,
             AddDirectory(c) \/ CreateWorktree(c) \/ AddWorktree(c) \/ RecordWorktree(c) \/ RecordFails(c)
      PROVE  WorkspacesInv'
  BY <1>4, AddDirectoryKeeps, CreateWorktreeKeeps, AddWorktreeKeeps, RecordWorktreeKeeps, RecordFailsKeeps
<1>5. ASSUME NEW c \in Connections, SetLabels(c) \/ Update(c) \/ ClearLabels(c) \/ PruneLabels(c)
      PROVE  WorkspacesInv'
  BY <1>5, SetLabelsKeeps, UpdateKeeps, ClearLabelsKeeps, PruneLabelsKeeps
<1>6. ASSUME NEW c \in Connections, LoadSetup(c) \/ GrantSetup(c) \/ RunSetup(c) \/ RunScript(c)
      PROVE  WorkspacesInv'
  BY <1>6, LoadSetupKeeps, GrantSetupKeeps, RunSetupKeeps, RunScriptKeeps
<1>7. ASSUME NEW c \in Connections, Archive(c) \/ Teardown(c) \/ Mark(c) \/ RemoveCheckout(c)
      PROVE  WorkspacesInv'
  BY <1>7, ArchiveKeeps, TeardownKeeps, MarkKeeps, RemoveCheckoutKeeps
<1> QED
  BY <1>1, <1>2, <1>3, <1>4, <1>5, <1>6, <1>7 DEF WorkspacesNext

-----------------------------------------------------------------------------
(* The command line *)

Rpcs == {"session.prompt", "session.timeline", "session.interrupt", "session.create", "session.list",
         "session.permission.respond", "workspace.archive"}
Whys == {"none", "turn ended", "turn failed", "not one", "busy", "stopped", "refused", "queued", "done",
         "timeout", "closed", "still up"}
Hosts     == [up : BOOLEAN, open : BOOLEAN, turn : Nat, turns : Nat, owed : Nat, asks : SUBSET Nat,
              asked : Nat, archived : BOOLEAN, extra : Nat]
CommandsOf == [op : Commands \cup {"none"}, at : {"idle", "asking", "streaming", "stopping", "done"},
               rpc : Rpcs \cup {NoRpc}, turn : Nat, exit : {0, 1, 2}, why : Whys]
Streams   == [on : BOOLEAN, last : Nat, seen : SUBSET Nat, holding : BOOLEAN, held : Seq(Nat)]
Doings    == [effect : {"none", "stop", "prompt", "new", "archive", "approve"}, busy : BOOLEAN,
              asks : SUBSET Nat]
Frames    == [kind : {"event"}, at : Nat] \cup [kind : {"list"}, busy : BOOLEAN, asks : SUBSET Nat]
               \cup [kind : {"events"}, events : Seq(Nat)] \cup [kind : {"turn"}, turn : Nat]
               \cup [kind : {"error", "queued", "ok"}]

CliTypes ==
  /\ host \in Hosts /\ ends \in Seq(Nat \X TurnEnds)
  /\ command \in CommandsOf /\ cliRequest \in Rpcs \cup {NoRpc}
  /\ stream \in Streams /\ inbox \in Seq(Frames) /\ did \in Doings

(* Turns are numbered, and each ends once. *)
TurnsCounted ==
  /\ host.turn <= host.turns
  /\ \A i \in DOMAIN ends : ends[i][1] # 0 /\ ends[i][1] <= host.turns /\ ends[i][1] # host.turn

IsEvent(k) == k \in DOMAIN inbox /\ inbox[k].kind = "event"

(* Events come in order, and are newer than what the stream has. *)
EventsInOrder ==
  /\ stream.seen \subseteq DOMAIN ends
  /\ \A k \in DOMAIN stream.held : stream.held[k] \in DOMAIN ends
  /\ \A k \in DOMAIN inbox : inbox[k].kind = "events" =>
       \A i \in DOMAIN inbox[k].events : inbox[k].events[i] \in DOMAIN ends
  /\ \A k \in DOMAIN inbox : IsEvent(k) =>
       /\ inbox[k].at \in DOMAIN ends
       /\ command.op = "prompt" => stream.last < inbox[k].at
       /\ \A j \in DOMAIN inbox : IsEvent(j) /\ j < k => inbox[j].at < inbox[k].at
  /\ command.op = "prompt" => stream.last <= Len(ends)

(* What a command asks for, and what it is answered. *)
RpcsOf(op) ==
  CASE op = "prompt"     -> {"session.prompt"}
    [] op = "watch_from" -> {"session.timeline"}
    [] op = "interrupt"  -> {"session.interrupt"}
    [] op = "new"        -> {"session.create"}
    [] op = "approve"    -> {"session.list", "session.permission.respond"}
    [] op = "archive"    -> {"session.list", "workspace.archive"}
    [] op = "stop"       -> {"session.list"}
    [] OTHER             -> {}

KindsOf(rpc) ==
  CASE rpc = "session.list"               -> {"list"}
    [] rpc = "session.timeline"           -> {"events"}
    [] rpc = "session.prompt"             -> {"error", "queued", "turn"}
    [] rpc = "session.permission.respond" -> {"ok", "error"}
    [] OTHER                              -> {"ok"}

(* A request is at the daemon or answered by one frame. *)
OneAnswer ==
  /\ command.at # "asking" => \A k \in DOMAIN inbox : IsEvent(k)
  /\ command.at = "idle" => command = NoCommand /\ cliRequest = NoRpc
  /\ command.at \in {"streaming", "stopping"} => cliRequest = NoRpc
  /\ command.at = "done" => cliRequest \in Reads \cup {NoRpc}
  /\ command.at = "asking" =>
       /\ command.rpc \in RpcsOf(command.op) /\ cliRequest \in {NoRpc, command.rpc}
       /\ \A k \in DOMAIN inbox : ~IsEvent(k) =>
            /\ cliRequest = NoRpc /\ inbox[k].kind \in KindsOf(command.rpc)
            /\ \A j \in DOMAIN inbox : ~IsEvent(j) => j = k

(* A command streams what it has asked to. *)
StreamsRight ==
  /\ command.at \in {"idle", "stopping", "done"} => stream = NoStream /\ inbox = <<>>
  /\ command.at = "streaming" => command.op \in {"prompt", "watch", "watch_from"} /\ ~stream.holding
  /\ stream.holding => command.op = "watch_from"
  /\ command.op = "prompt" /\ command.at \in {"asking", "streaming"} => stream.on
  /\ command.at = "asking" => command.turn = 0
  /\ command.at = "streaming" => (command.turn # 0 <=> command.op = "prompt")
  /\ command.at # "done" => command.why = "none" /\ command.exit = 0

(* The end of turn t, if it has come, is on its way to the command. *)
EndComes(t) == \A i \in DOMAIN ends : ends[i][1] = t => \E k \in DOMAIN inbox : IsEvent(k) /\ ends[inbox[k].at][1] = t

(* The command has seen the end of turn t, if it has come, or its event is on its way. *)
EventFor(i) == \E k \in DOMAIN inbox : IsEvent(k) /\ inbox[k].at = i
TurnTold(t) == \A i \in DOMAIN ends : ends[i][1] = t => i \in stream.seen \/ EventFor(i)

TurnAwaited ==
  /\ command.at = "streaming" /\ command.op = "prompt" =>
       /\ EndComes(command.turn) /\ command.turn <= host.turns
  /\ \A k \in DOMAIN inbox : inbox[k].kind = "turn" =>
       inbox[k].turn # 0 /\ inbox[k].turn <= host.turns /\ TurnTold(inbox[k].turn)

(* A turn that was started and not answered is that of a prompt that waits. *)
AnswerOwed ==
  host.owed # 0 =>
    /\ command.at = "asking" /\ command.op = "prompt" /\ cliRequest = NoRpc
    /\ \A k \in DOMAIN inbox : IsEvent(k)
    /\ host.owed <= host.turns /\ TurnTold(host.owed) /\ did.effect = "prompt"

(* What the requests of a command have done, while it goes on. *)
EffectsKnown ==
  /\ did.effect # "none" => ~did.busy \/ command.op \notin {"stop", "archive"}
  /\ did.effect = "approve" => Cardinality(did.asks) = 1
  /\ did.effect \in {"stop", "archive"} => did.effect = command.op
  /\ cliRequest # NoRpc => did.effect = "none"
  /\ command.at = "idle" => did.effect = "none"
  /\ command.at = "stopping" => command.op = "stop" /\ did.effect = "stop"
  /\ command.at = "streaming" /\ command.op # "prompt" => did.effect = "none"
  /\ command.at = "asking" =>
       /\ command.rpc \in Reads => did.effect = "none"
       /\ command.rpc = "session.permission.respond" => Cardinality(did.asks) = 1
       /\ command.rpc = "workspace.archive" => ~host.open
       /\ \A k \in DOMAIN inbox :
            /\ inbox[k].kind = "error" => did.effect = "none"
            /\ inbox[k].kind = "ok" /\ command.op # "interrupt" => did.effect = command.op
            /\ inbox[k].kind = "list" /\ ~inbox[k].busy /\ command.op \in {"stop", "archive"} =>
                 ~InTheWay(command.op)

(* What the exit tells. *)
ExitTold ==
  command.at = "done" =>
    /\ command.why \in {"turn ended", "turn failed"} =>
         \E i \in DOMAIN ends :
           /\ command.op = "prompt" => ends[i][1] = command.turn
           /\ ends[i][2] = "failed" <=> command.why = "turn failed"
    /\ command.exit = 1 /\ command.why # "turn failed" =>
         \/ did.effect = "none" \/ (command.op = "prompt" /\ command.turn # 0)
         \/ (command.why = "still up" /\ did.effect = "stop")
    /\ command.why = "stopped" => ~host.up
    /\ command.exit = 0 /\ command.op \in {"approve", "new", "archive", "stop"} => did.effect = command.op

CliInv ==
  /\ CliTypes /\ TurnsCounted /\ EventsInOrder /\ OneAnswer /\ StreamsRight /\ TurnAwaited /\ EffectsKnown
  /\ AnswerOwed /\ ExitTold

CliRaces == {"between", "slow", "lost"}

(* A queue with its head taken, and with a frame more. *)
LEMMA QueueTaken ==
  ASSUME NEW S, NEW q \in Seq(S), q # <<>>
  PROVE  /\ Head(q) = q[1] /\ 1 \in DOMAIN q /\ Head(q) \in S /\ Tail(q) \in Seq(S)
         /\ \A k \in DOMAIN Tail(q) : k + 1 \in DOMAIN q /\ Tail(q)[k] = q[k + 1]
         /\ \A k \in DOMAIN q : k # 1 => k - 1 \in DOMAIN Tail(q) /\ Tail(q)[k - 1] = q[k]
OBVIOUS

LEMMA QueueGrown ==
  ASSUME NEW S, NEW q \in Seq(S), NEW f \in S
  PROVE  /\ Append(q, f) \in Seq(S)
         /\ Len(q) + 1 \in DOMAIN Append(q, f) /\ Append(q, f)[Len(q) + 1] = f
         /\ \A k \in DOMAIN q : k \in DOMAIN Append(q, f) /\ Append(q, f)[k] = q[k]
         /\ \A k \in DOMAIN Append(q, f) : k = Len(q) + 1 \/ (k \in DOMAIN q /\ Append(q, f)[k] = q[k])
OBVIOUS

(* A set of numbers up to a bound has a greatest one. *)
LEMMA MaxIsIn ==
  ASSUME NEW n \in Nat, NEW S \in SUBSET (0..n), S # {}
  PROVE  Max(S) \in S /\ \A i \in S : i <= Max(S)
<1>1. PICK T : T = {j \in Nat : n - j \in S}
  OBVIOUS
<1>2. T # {} /\ T \subseteq Nat
  <2>1. PICK i \in S : TRUE
    OBVIOUS
  <2>2. n - i \in Nat /\ n - (n - i) = i
    OBVIOUS
  <2> QED
    BY <1>1, <2>1, <2>2
<1>3. Min(T) \in T /\ \A j \in T : Min(T) <= j
  BY <1>2, MinIsIn
<1>4. n - Min(T) \in S /\ Min(T) \in Nat
  BY <1>1, <1>2, <1>3
<1>5. ASSUME NEW i \in S
      PROVE  i <= n - Min(T)
  <2>1. i \in Nat /\ n - i \in Nat /\ n - (n - i) = i
    OBVIOUS
  <2>2. n - i \in T
    BY <1>1, <2>1
  <2> QED
    BY <1>3, <1>4, <2>1, <2>2
<1>6. \E x \in S : \A i \in S : i <= x
  BY <1>4, <1>5
<1> QED
  BY <1>6 DEF Max

LEMMA SeenIs ==
  ASSUME CliTypes, NEW s \in Streams, NEW places \in Seq(Nat),
         \A k \in DOMAIN places : places[k] \in DOMAIN ends
  PROVE  /\ Seen(s, places) \in Streams
         /\ Seen(s, places).seen = s.seen \cup Emitted(s, places) /\ Emitted(s, places) \subseteq DOMAIN ends
         /\ Seen(s, places).on = s.on /\ Seen(s, places).holding = s.holding
         /\ Seen(s, places).held = s.held
         /\ Seen(s, places).last = (IF Emitted(s, places) = {} THEN s.last ELSE Max(Emitted(s, places)))
<1>1. PICK new : new = Emitted(s, places)
  OBVIOUS
<1>2. new \subseteq DOMAIN ends
  BY <1>1 DEF Emitted
<1>3. Len(ends) \in Nat /\ new \subseteq 0..Len(ends) /\ new \subseteq Nat
  BY <1>2 DEF CliTypes
<1>4. new # {} => Max(new) \in Nat
  BY <1>3, MaxIsIn
<1>5. PICK last : last = (IF new = {} THEN s.last ELSE Max(new))
  OBVIOUS
<1>6. last \in Nat
  BY <1>4, <1>5 DEF Streams
<1>7. Seen(s, places) = [s EXCEPT !.seen = s.seen \cup new, !.last = last]
  BY <1>1, <1>5 DEF Seen
<1> QED
  BY <1>1, <1>2, <1>3, <1>5, <1>6, <1>7 DEF Streams

(* Of one event. *)
LEMMA SeenOne ==
  ASSUME CliTypes, NEW s \in Streams, NEW i \in DOMAIN ends
  PROVE  /\ Seen(s, <<i>>) \in Streams
         /\ Seen(s, <<i>>).on = s.on /\ Seen(s, <<i>>).holding = s.holding /\ Seen(s, <<i>>).held = s.held
         /\ Seen(s, <<i>>).seen \subseteq s.seen \cup {i}
         /\ s.seen \subseteq Seen(s, <<i>>).seen
         /\ s.last < i => i \in Seen(s, <<i>>).seen /\ Seen(s, <<i>>).last = i
<1>0. i \in Nat /\ s.last \in Nat
  BY DEF CliTypes, Streams
<1>1. <<i>> \in Seq(Nat) /\ DOMAIN <<i>> = {1} /\ <<i>>[1] = i /\ \A j \in 1..(1 - 1) : FALSE
  BY <1>0
<1>2. Emitted(s, <<i>>) = IF s.last < i THEN {i} ELSE {}
  <2>1. Emitted(s, <<i>>) \subseteq {i}
    BY <1>1 DEF Emitted
  <2>2. i \in Emitted(s, <<i>>) <=> s.last < i
    BY <1>0, <1>1 DEF Emitted
  <2> QED
    BY <2>1, <2>2
<1>3. s.last < i => Max({i}) = i
  <2>1. {i} \subseteq 0..i /\ {i} # {}
    BY <1>0
  <2> QED
    BY <1>0, <2>1, MaxIsIn
<1>4. \A k \in DOMAIN <<i>> : <<i>>[k] \in DOMAIN ends
  BY <1>1
<1> QED
  BY <1>1, <1>2, <1>3, <1>4, SeenIs

(* A settled outcome is that of an end that was seen, of the awaited turn. *)
LEMMA SettledIs ==
  ASSUME CliTypes, NEW seen \in SUBSET DOMAIN ends, NEW turn \in Nat, NEW o \in SettledOutcome(seen, turn)
  PROVE  \E i \in seen : ends[i][2] = o /\ (turn # 0 => ends[i][1] = turn)
<1>1. CASE turn # 0
  BY <1>1 DEF SettledOutcome
<1>2. CASE turn = 0
  <2>1. seen # {} /\ o = ends[Min(seen)][2]
    BY <1>2 DEF SettledOutcome
  <2>2. seen \subseteq Nat
    BY DEF CliTypes
  <2>3. Min(seen) \in seen
    BY <2>1, <2>2, MinIsIn
  <2> QED
    BY <1>2, <2>1, <2>3
<1> QED
  BY <1>1, <1>2

LEMMA NotSettled ==
  ASSUME NEW seen, NEW turn, turn # 0, SettledOutcome(seen, turn) = {}
  PROVE  \A i \in seen : ends[i][1] # turn
BY DEF SettledOutcome

LEMMA EndsCounted ==
  ASSUME CliTypes
  PROVE  Len(ends) \in Nat /\ 0 <= Len(ends) /\ DOMAIN ends = 1..Len(ends)
BY DEF CliTypes

LEMMA ExitCodes ==
  0 \in {0, 1, 2} /\ 1 \in {0, 1, 2} /\ 2 \in {0, 1, 2} /\ 0 # 1 /\ 1 # 0
OBVIOUS

LEMMA NothingThere ==
  DOMAIN <<>> = {} /\ \A S : <<>> \in Seq(S)
OBVIOUS

(* The daemon goes on, and nothing gets into the way of a command that has found nothing there. *)
LEMMA HostMoves ==
  ASSUME CliInv, UNCHANGED <<ends, command, stream, cliRequest, inbox, did>>,
         host' \in Hosts, host.turns <= host'.turns, host'.turn <= host'.turns,
         host'.owed = host.owed, host'.up => host.up,
         \A i \in DOMAIN ends : ends[i][1] # host'.turn,
         command.at = "asking" /\ command.op \in {"archive", "stop"} /\ ~InTheWay(command.op)
           => ~InTheWay(command.op)',
         command.at = "asking" /\ command.op = "archive" /\ ~host.open => ~host'.open
  PROVE  CliInv'
<1> USE DEF CliInv
<1>1. CliTypes'
  BY DEF CliTypes
<1>2. host.turns \in Nat /\ host'.turns \in Nat /\ command.turn \in Nat
      /\ \A i \in DOMAIN ends : ends[i][1] \in Nat
  BY DEF CliTypes, Hosts, CommandsOf
<1>3. TurnsCounted'
  BY <1>2 DEF TurnsCounted
<1>4. EventsInOrder' /\ OneAnswer' /\ StreamsRight' /\ ExitTold'
  <2>1. EventsInOrder'
    BY DEF EventsInOrder, IsEvent
  <2>2. OneAnswer'
    BY DEF OneAnswer, IsEvent
  <2>3. StreamsRight' /\ ExitTold'
    BY DEF StreamsRight, ExitTold
  <2> QED
    BY <2>1, <2>2, <2>3
<1>5. TurnAwaited' /\ AnswerOwed'
  <2>1. \A k \in DOMAIN inbox : inbox[k].kind = "turn" => inbox[k].turn \in Nat
    BY DEF CliTypes, Frames
  <2>2. \A t : (EndComes(t)' <=> EndComes(t)) /\ (TurnTold(t)' <=> TurnTold(t))
    BY DEF EndComes, TurnTold, EventFor, IsEvent
  <2>3. TurnAwaited'
    BY <1>2, <2>1, <2>2 DEF TurnAwaited, IsEvent
  <2>4. host.owed \in Nat /\ \A k : IsEvent(k)' <=> IsEvent(k)
    BY DEF CliTypes, Hosts, IsEvent
  <2>5. PICK t : t = host.owed
    OBVIOUS
  <2>6. AnswerOwed'
    <3>1. t # 0 => TurnTold(t)'
      BY <2>2, <2>5 DEF AnswerOwed
    <3>2. t = host'.owed
      BY <2>5
    <3>3. t # 0 => TurnTold(host.owed)'
      BY <3>1, <3>2 DEF TurnTold
    <3> QED
      BY <1>2, <2>4, <2>5, <3>2, <3>3 DEF AnswerOwed
  <2> QED
    BY <2>3, <2>6
<1>6. EffectsKnown'
  <2>1. command.rpc = "workspace.archive" /\ command.at = "asking" => command.op = "archive"
    BY DEF OneAnswer, RpcsOf, CliTypes, CommandsOf, Commands
  <2> QED
    BY <2>1 DEF EffectsKnown
<1> QED
  BY <1>1, <1>3, <1>4, <1>5, <1>6

LEMMA OthersPromptKeeps ==
  ASSUME CliInv, Barred(CliRaces), OthersPrompt
  PROVE  CliInv'
<1> USE DEF CliInv
<1>1. host \in Hosts /\ host' = [host EXCEPT !.turn = host.turns + 1, !.turns = @ + 1]
      /\ UNCHANGED <<ends, command, stream, cliRequest, inbox, did>>
  BY DEF OthersPrompt, CliTypes
<1>2. host' \in Hosts /\ host'.turn = host.turns + 1 /\ host'.turns = host.turns + 1 /\ host.turns \in Nat
      /\ host'.open = host.open /\ host'.owed = host.owed /\ host'.up = host.up
  <2>1. host.turns \in Nat /\ host.turns + 1 \in Nat
    BY <1>1 DEF Hosts
  <2>2. host' = [host EXCEPT !.turn = host.turns + 1, !.turns = host.turns + 1]
    BY <1>1
  <2> QED
    BY <1>1, <2>1, <2>2 DEF Hosts
<1>3. \A i \in DOMAIN ends : ends[i][1] <= host.turns /\ ends[i][1] \in Nat
  BY DEF TurnsCounted, CliTypes
<1>4. ~(command.at = "asking" /\ command.op \in {"archive", "stop"})
  BY DEF OthersPrompt, MayChange, Checked, Barred, CliRaces, Allows
<1> QED
  BY <1>1, <1>2, <1>3, <1>4, HostMoves

LEMMA AsksOrAnswersKeeps ==
  ASSUME CliInv, Barred(CliRaces), AsksOrAnswers
  PROVE  CliInv'
<1> USE DEF CliInv
<1>1. host \in Hosts /\ host.turn # 0 /\ UNCHANGED <<ends, command, stream, cliRequest, inbox, did>>
  BY DEF AsksOrAnswers, CliTypes
<1>2. host' \in Hosts /\ host'.turn = host.turn /\ host'.turns = host.turns /\ host'.open = host.open
      /\ host.turns \in Nat /\ host'.owed = host.owed /\ host'.up = host.up
  <2>1. host.asked \in Nat /\ host.asked + 1 \in Nat /\ host.asks \in SUBSET Nat
    BY <1>1 DEF Hosts
  <2>2. \E asks \in SUBSET Nat, asked \in Nat : host' = [host EXCEPT !.asks = asks, !.asked = asked]
    <3>1. CASE host' = [host EXCEPT !.asks = @ \cup {host.asked + 1}, !.asked = @ + 1]
      BY <2>1, <3>1
    <3>2. ASSUME NEW ask \in host.asks, host' = [host EXCEPT !.asks = @ \ {ask}]
          PROVE  host' = [host EXCEPT !.asks = host.asks \ {ask}, !.asked = host.asked]
      BY <1>1, <3>2 DEF Hosts
    <3> QED
      BY <2>1, <3>1, <3>2 DEF AsksOrAnswers
  <2> QED
    BY <1>1, <2>2 DEF Hosts
<1>3. (\A i \in DOMAIN ends : ends[i][1] # host.turn) /\ host.turn <= host.turns
  BY DEF TurnsCounted
<1>4. \A op \in {"archive", "stop"} : ~InTheWay(op) => ~InTheWay(op)'
  BY <1>1, <1>2 DEF InTheWay
<1> QED
  BY <1>1, <1>2, <1>3, <1>4, HostMoves

LEMMA OpensOrClosesKeeps ==
  ASSUME CliInv, Barred(CliRaces), OpensOrCloses
  PROVE  CliInv'
<1> USE DEF CliInv
<1>1. host \in Hosts /\ host' = [host EXCEPT !.open = ~@]
      /\ UNCHANGED <<ends, command, stream, cliRequest, inbox, did>>
  BY DEF OpensOrCloses, CliTypes
<1>2. host' \in Hosts /\ host'.turn = host.turn /\ host'.turns = host.turns /\ host'.asks = host.asks
      /\ host'.open = ~host.open /\ host.turns \in Nat /\ host'.owed = host.owed /\ host'.up = host.up
  BY <1>1 DEF Hosts
<1>3. (\A i \in DOMAIN ends : ends[i][1] # host.turn) /\ host.turn <= host.turns
  BY DEF TurnsCounted
<1>4. command.at = "asking" /\ command.op \in {"archive", "stop"} => host.open
  BY DEF OpensOrCloses, MayChange, Checked, Barred, CliRaces, Allows
<1>5. command.at = "asking" /\ command.op \in {"archive", "stop"} /\ ~InTheWay(command.op)
        => ~InTheWay(command.op)'
  BY <1>1, <1>2, <1>4 DEF InTheWay
<1> QED
  BY <1>1, <1>2, <1>3, <1>4, <1>5, HostMoves

LEMMA DaemonGoneKeeps ==
  ASSUME CliInv, DaemonGone
  PROVE  CliInv'
<1> USE DEF CliInv
<1>1. host \in Hosts /\ host' = [host EXCEPT !.up = FALSE]
      /\ UNCHANGED <<ends, command, stream, cliRequest, inbox, did>>
  BY DEF DaemonGone, CliTypes
<1>2. host' \in Hosts /\ host'.turn = host.turn /\ host'.turns = host.turns /\ host'.asks = host.asks
      /\ host'.open = host.open /\ host.turns \in Nat /\ host'.owed = host.owed /\ ~host'.up
  BY <1>1 DEF Hosts
<1>3. (\A i \in DOMAIN ends : ends[i][1] # host.turn) /\ host.turn <= host.turns
  BY DEF TurnsCounted
<1>4. \A op : InTheWay(op)' = InTheWay(op)
  BY <1>1, <1>2 DEF InTheWay
<1> QED
  BY <1>1, <1>2, <1>3, <1>4, HostMoves

(* A command ends, and its exit tells what has become of what it asked for. *)
LEMMA CommandExitKeeps ==
  ASSUME CliInv, NEW turn \in Nat, NEW code \in {0, 1, 2}, NEW why \in Whys, ExitsAfter(turn, code, why),
         UNCHANGED <<host, ends, did>>, host.owed = 0,
         command.at \in {"asking", "streaming", "stopping"}, cliRequest' \in Reads \cup {NoRpc},
         cliRequest' # NoRpc => did.effect = "none",
         why \in {"turn ended", "turn failed"} =>
           \E i \in DOMAIN ends : /\ command.op = "prompt" => ends[i][1] = turn
                                  /\ ends[i][2] = "failed" <=> why = "turn failed",
         code = 1 /\ why # "turn failed" =>
           \/ did.effect = "none" \/ (command.op = "prompt" /\ turn # 0)
           \/ (why = "still up" /\ did.effect = "stop"),
         why = "stopped" => ~host.up,
         code = 0 /\ command.op \in {"approve", "new", "archive", "stop"} => did.effect = command.op
  PROVE  CliInv'
<1> USE DEF CliInv
<1>1. command \in CommandsOf /\ ends \in Seq(Nat \X TurnEnds)
  BY DEF CliTypes
<1>2. /\ command' \in CommandsOf /\ command'.at = "done" /\ command'.op = command.op
      /\ command'.turn = turn /\ command'.exit = code /\ command'.why = why
      /\ stream' = NoStream /\ inbox' = <<>>
  BY <1>1 DEF ExitsAfter, CommandsOf
<1>3. CliTypes'
  <2>1. NoStream \in Streams /\ inbox' \in Seq(Frames)
    <3>1. NoStream \in Streams
      BY NothingThere DEF NoStream, Streams
    <3> QED
      BY <1>2, <3>1, NothingThere
  <2>2. cliRequest' \in Rpcs \cup {NoRpc}
    BY DEF Reads, Rpcs
  <2> QED
    BY <1>1, <1>2, <2>1, <2>2 DEF CliTypes
<1>4. TurnsCounted'
  BY DEF TurnsCounted
<1>5. EventsInOrder'
  <2>1. stream'.seen = {} /\ stream'.held = <<>> /\ stream'.last = 0
    BY <1>2 DEF NoStream
  <2>2. DOMAIN inbox' = {} /\ DOMAIN stream'.held = {}
    BY <1>2, <2>1, NothingThere
  <2>3. 0 <= Len(ends)
    BY EndsCounted
  <2> QED
    BY <2>1, <2>2, <2>3 DEF EventsInOrder
<1>6. OneAnswer' /\ StreamsRight' /\ TurnAwaited'
  <2>1. DOMAIN inbox' = {} /\ ~stream'.holding
    BY <1>2, NothingThere DEF NoStream
  <2>2. OneAnswer'
    BY <1>2, <2>1 DEF OneAnswer
  <2> QED
    BY <1>2, <2>1, <2>2 DEF StreamsRight, TurnAwaited
<1>7. EffectsKnown' /\ AnswerOwed'
  BY <1>2 DEF EffectsKnown, AnswerOwed
<1>8. ExitTold'
  BY <1>2 DEF ExitTold
<1> QED
  BY <1>3, <1>4, <1>5, <1>6, <1>7, <1>8

LEMMA TimesOutKeeps ==
  ASSUME CliInv, Barred(CliRaces), RpcTimesOut \/ WatchTimesOut \/ CommandCutOff
  PROVE  CliInv'
<1> USE DEF CliInv
<1>1. PICK why \in {"timeout", "closed"} : Exits(1, why)
  BY DEF RpcTimesOut, WatchTimesOut, CommandCutOff
<1>2. /\ UNCHANGED <<host, ends, did>> /\ command.at \in {"asking", "streaming"}
      /\ command.at = "asking" => command.rpc \in Reads
      /\ cliRequest' \in {cliRequest, NoRpc}
  BY DEF RpcTimesOut, WatchTimesOut, CommandCutOff, Barred, CliRaces, Allows
<1>3. cliRequest' \in Reads \cup {NoRpc}
  BY <1>2 DEF OneAnswer
<1>4. cliRequest' # NoRpc => did'.effect = "none"
  BY <1>2 DEF EffectsKnown
<1>5. did.effect = "none" \/ (command.op = "prompt" /\ command.turn # 0)
  BY <1>2 DEF EffectsKnown, StreamsRight
<1>6. host.owed = 0
  <2>1. command.at = "asking" /\ command.op = "prompt" => command.rpc \notin Reads
    BY DEF OneAnswer, RpcsOf, Reads
  <2> QED
    BY <1>2, <2>1 DEF AnswerOwed
<1>7. why \in Whys /\ why \notin {"turn ended", "turn failed", "stopped"}
  BY DEF Whys
<1>8. PICK code, turn : code = 1 /\ turn = command.turn
  OBVIOUS
<1>9. code \in {0, 1, 2} /\ code # 0 /\ turn \in Nat /\ ExitsAfter(turn, code, why)
  <2>1. turn \in Nat
    BY <1>8 DEF CliTypes, CommandsOf
  <2>2. code \in {0, 1, 2} /\ code # 0
    BY <1>8
  <2> QED
    BY <1>1, <1>8, <2>1, <2>2 DEF Exits
<1> QED
  BY <1>2, <1>3, <1>4, <1>5, <1>6, <1>7, <1>8, <1>9, CommandExitKeeps

(* A stop ends when its daemon is gone, or is given up on. *)
LEMMA AwaitsExitKeeps ==
  ASSUME CliInv, AwaitsExit
  PROVE  CliInv'
<1> USE DEF CliInv
<1>1. /\ command.at = "stopping" /\ UNCHANGED <<host, ends, cliRequest, did>>
      /\ command.op = "stop" /\ did.effect = "stop" /\ cliRequest = NoRpc /\ host.owed = 0
  BY DEF AwaitsExit, EffectsKnown, OneAnswer, AnswerOwed
<1>2. PICK code, why, turn : /\ ExitsAfter(turn, code, why) /\ turn = command.turn
                             /\ \/ why = "stopped" /\ code = 0 /\ ~host.up
                                \/ why = "still up" /\ code = 1
  <2>1. CASE ~host.up /\ Exits(0, "stopped")
    BY <2>1 DEF Exits
  <2>2. CASE Exits(1, "still up")
    BY <2>2 DEF Exits
  <2> QED
    BY <2>1, <2>2 DEF AwaitsExit
<1>3. turn \in Nat /\ why \in Whys /\ why \notin {"turn ended", "turn failed"}
  BY <1>2 DEF CliTypes, CommandsOf, Whys
<1>4. code \in {0, 1, 2}
  BY <1>2
<1>5. code = 1 => why = "still up"
  BY <1>2, ExitCodes
<1>6. cliRequest' = NoRpc /\ cliRequest' \in Reads \cup {NoRpc}
  BY <1>1
<1> QED
  BY <1>1, <1>2, <1>3, <1>4, <1>5, <1>6, CommandExitKeeps

LEMMA InvokeKeeps ==
  ASSUME CliInv, NEW op \in Commands, Invoke(op)
  PROVE  CliInv'
<1> USE DEF CliInv
<1>1. /\ inbox' = <<>> /\ did' = Nothing /\ UNCHANGED <<host, ends>> /\ cliRequest' = FirstRpc(op)
      /\ command' = [NoCommand EXCEPT !.op = op, !.rpc = FirstRpc(op),
                       !.at = IF FirstRpc(op) = NoRpc THEN "streaming" ELSE "asking"]
      /\ stream' = [NoStream EXCEPT !.on = op \in {"prompt", "watch", "watch_from"},
                                    !.holding = op = "watch_from"]
  BY DEF Invoke
<1>2. /\ op = "watch" => FirstRpc(op) = NoRpc
      /\ op # "watch" => FirstRpc(op) \in Rpcs /\ FirstRpc(op) \in RpcsOf(op) /\ FirstRpc(op) # NoRpc
      /\ FirstRpc(op) \notin {"session.permission.respond", "workspace.archive"}
  BY DEF FirstRpc, RpcsOf, Commands, NoRpc, Rpcs
<1>3. /\ command' \in CommandsOf /\ command'.op = op /\ command'.rpc = FirstRpc(op) /\ command'.turn = 0
      /\ command'.at = (IF op = "watch" THEN "streaming" ELSE "asking")
      /\ command'.why = "none" /\ command'.exit = 0
  BY <1>1, <1>2 DEF NoCommand, CommandsOf, Whys
<1>4. /\ stream' \in Streams /\ stream'.seen = {} /\ stream'.held = <<>> /\ stream'.last = 0
      /\ stream'.holding = (op = "watch_from") /\ stream'.on = (op \in {"prompt", "watch", "watch_from"})
  <2>1. NoStream \in Streams
    BY NothingThere DEF NoStream, Streams
  <2>2. /\ stream' \in Streams /\ stream'.seen = NoStream.seen /\ stream'.held = NoStream.held
        /\ stream'.last = NoStream.last /\ stream'.holding = (op = "watch_from")
        /\ stream'.on = (op \in {"prompt", "watch", "watch_from"})
    <3>1. PICK on, holding : on = (op \in {"prompt", "watch", "watch_from"}) /\ holding = (op = "watch_from")
      OBVIOUS
    <3>2. on \in BOOLEAN /\ holding \in BOOLEAN
      BY <3>1
    <3>3. stream' = [NoStream EXCEPT !.on = on, !.holding = holding]
      BY <1>1, <3>1
    <3> QED
      BY <2>1, <3>1, <3>2, <3>3 DEF Streams
  <2> QED
    BY <2>2 DEF NoStream
<1>5. DOMAIN inbox' = {} /\ DOMAIN stream'.held = {} /\ inbox' \in Seq(Frames)
  BY <1>1, <1>4, NothingThere
<1>6. did' \in Doings /\ did'.effect = "none"
  BY <1>1 DEF Nothing, Doings
<1>7. CliTypes' /\ TurnsCounted'
  BY <1>1, <1>2, <1>3, <1>4, <1>5, <1>6 DEF CliTypes, TurnsCounted
<1>8. EventsInOrder'
  BY <1>4, <1>5, <1>1, EndsCounted DEF EventsInOrder
<1>9. OneAnswer'
  BY <1>1, <1>2, <1>3, <1>5 DEF OneAnswer
<1>10. StreamsRight'
  BY <1>3, <1>4 DEF StreamsRight
<1>11. TurnAwaited' /\ ExitTold'
  BY <1>3, <1>5 DEF TurnAwaited, ExitTold
<1>12. EffectsKnown'
  BY <1>1, <1>2, <1>3, <1>5, <1>6 DEF EffectsKnown
<1>13. AnswerOwed'
  BY <1>1 DEF AnswerOwed, Invoke
<1> QED
  BY <1>7, <1>8, <1>9, <1>10, <1>11, <1>12, <1>13

(* A turn ends: the stream is told, if it is on. *)
LEMMA EndOfTurnKeeps ==
  ASSUME CliInv, EndOfTurn
  PROVE  CliInv'
<1> USE DEF CliInv
<1>1. PICK outcome \in TurnEnds : ends' = Append(ends, <<host.turn, outcome>>)
  BY DEF EndOfTurn
<1>2. /\ host.turn # 0 /\ host' = [host EXCEPT !.turn = 0, !.asks = {}]
      /\ UNCHANGED <<command, stream, cliRequest, did>>
  BY DEF EndOfTurn
<1>3. PICK i, f : i = Len(ends) + 1 /\ f = [kind |-> "event", at |-> i]
  OBVIOUS
<1>4. /\ i \in Nat /\ i \in DOMAIN ends' /\ ends'[i] = <<host.turn, outcome>>
      /\ ends' \in Seq(Nat \X TurnEnds) /\ Len(ends') = i /\ i \notin DOMAIN ends
      /\ \A j \in DOMAIN ends : j \in DOMAIN ends' /\ ends'[j] = ends[j] /\ j < i
      /\ \A j \in DOMAIN ends' : j = i \/ j \in DOMAIN ends
  <2>1. host.turn \in Nat /\ <<host.turn, outcome>> \in Nat \X TurnEnds
    BY DEF CliTypes, Hosts
  <2> QED
    BY <1>1, <1>3, <2>1, QueueGrown, EndsCounted DEF CliTypes
<1>5. /\ host' \in Hosts /\ host'.turn = 0 /\ host'.asks = {} /\ host'.turns = host.turns
      /\ host'.open = host.open /\ host.turns \in Nat /\ host'.owed = host.owed /\ host'.up = host.up
  BY <1>2 DEF CliTypes, Hosts
<1>6. /\ inbox' \in Seq(Frames)
      /\ \A k \in DOMAIN inbox : k \in DOMAIN inbox' /\ inbox'[k] = inbox[k] /\ k < Len(inbox) + 1
      /\ \A k \in DOMAIN inbox' : \/ k = Len(inbox) + 1 /\ inbox'[k] = f
                                  \/ k \in DOMAIN inbox /\ inbox'[k] = inbox[k]
      /\ stream.on /\ command.at \in {"asking", "streaming"} => \E k \in DOMAIN inbox' : inbox'[k] = f
      /\ inbox' # inbox => stream.on /\ command.at \in {"asking", "streaming"}
  <2>1. f \in Frames /\ inbox \in Seq(Frames)
    BY <1>3, <1>4 DEF Frames, CliTypes
  <2>2. \A k \in DOMAIN inbox : k < Len(inbox) + 1
    BY <2>1
  <2>3. CASE stream.on /\ command.at \in {"asking", "streaming"}
    <3>1. inbox' = Append(inbox, f)
      BY <1>3, <1>4, <2>3 DEF EndOfTurn, Answer
    <3> QED
      BY <2>1, <2>2, <2>3, <3>1, QueueGrown
  <2>4. CASE ~(stream.on /\ command.at \in {"asking", "streaming"})
    BY <2>1, <2>2, <2>4 DEF EndOfTurn, Answer
  <2> QED
    BY <2>3, <2>4
<1>7. \A k \in DOMAIN inbox' : \/ inbox'[k].kind = "event" /\ inbox'[k].at = i /\ k = Len(inbox) + 1
                               \/ k \in DOMAIN inbox /\ inbox'[k] = inbox[k]
  BY <1>3, <1>6
<1>8. CliTypes'
  BY <1>2, <1>4, <1>5, <1>6 DEF CliTypes
<1>9. TurnsCounted'
  <2>1. \A j \in DOMAIN ends' : ends'[j][1] # 0 /\ ends'[j][1] <= host.turns
    BY <1>2, <1>4 DEF TurnsCounted
  <2> QED
    BY <1>5, <2>1 DEF TurnsCounted
<1>10. \A k \in DOMAIN inbox : IsEvent(k)' <=> IsEvent(k)
  BY <1>6 DEF IsEvent
<1>11. EventsInOrder'
  <2>1. stream'.seen \subseteq DOMAIN ends' /\ \A k \in DOMAIN stream'.held : stream'.held[k] \in DOMAIN ends'
    BY <1>2, <1>4 DEF EventsInOrder
  <2>2. \A k \in DOMAIN inbox' : inbox'[k].kind = "events" =>
          \A j \in DOMAIN inbox'[k].events : inbox'[k].events[j] \in DOMAIN ends'
    BY <1>4, <1>7 DEF EventsInOrder
  <2>3. command.op = "prompt" => stream.last < i /\ stream.last <= Len(ends')
    <3>1. stream.last \in Nat
      BY DEF CliTypes, Streams
    <3> QED
      BY <1>3, <1>4, <3>1, EndsCounted DEF EventsInOrder
  <2>4. \A k \in DOMAIN inbox' : IsEvent(k)' =>
          /\ inbox'[k].at \in DOMAIN ends'
          /\ command.op = "prompt" => stream.last < inbox'[k].at
          /\ \A j \in DOMAIN inbox' : IsEvent(j)' /\ j < k => inbox'[j].at < inbox'[k].at
    <3> SUFFICES ASSUME NEW k \in DOMAIN inbox', IsEvent(k)'
                 PROVE  /\ inbox'[k].at \in DOMAIN ends'
                        /\ command.op = "prompt" => stream.last < inbox'[k].at
                        /\ \A j \in DOMAIN inbox' : IsEvent(j)' /\ j < k => inbox'[j].at < inbox'[k].at
      OBVIOUS
    <3>1. CASE k \in DOMAIN inbox /\ inbox'[k] = inbox[k]
      <4>1. \A j \in DOMAIN inbox' : j < k => j \in DOMAIN inbox
        BY <1>6, <1>7, <3>1 DEF CliTypes
      <4> QED
        BY <1>4, <1>6, <1>10, <3>1, <4>1 DEF EventsInOrder
    <3>2. CASE inbox'[k].at = i /\ k = Len(inbox) + 1
      <4>1. \A j \in DOMAIN inbox' : j < k => j \in DOMAIN inbox /\ inbox'[j] = inbox[j]
        BY <1>7, <3>2
      <4>2. \A j \in DOMAIN inbox : IsEvent(j) => inbox[j].at < i
        BY <1>4 DEF EventsInOrder
      <4> QED
        BY <1>4, <1>10, <2>3, <3>2, <4>1, <4>2
    <3> QED
      BY <1>7, <3>1, <3>2
  <2> QED
    BY <1>2, <2>1, <2>2, <2>3, <2>4 DEF EventsInOrder
<1>12. \A k \in DOMAIN inbox' : IsEvent(k)' \/ (k \in DOMAIN inbox /\ inbox'[k] = inbox[k] /\ ~IsEvent(k))
  BY <1>7 DEF IsEvent
<1>13. OneAnswer'
  BY <1>2, <1>6, <1>12 DEF OneAnswer
<1>14. StreamsRight'
  BY <1>2, <1>6 DEF StreamsRight
<1>15. \A t : EndComes(t) /\ (t = host.turn => \E k \in DOMAIN inbox' : inbox'[k] = f) => EndComes(t)'
  <2> SUFFICES ASSUME NEW t, EndComes(t), t = host.turn => \E k \in DOMAIN inbox' : inbox'[k] = f,
                      NEW j \in DOMAIN ends', ends'[j][1] = t
               PROVE  \E k \in DOMAIN inbox' : IsEvent(k)' /\ ends'[inbox'[k].at][1] = t
    BY DEF EndComes
  <2>1. CASE j = i
    <3>1. t = host.turn
      BY <1>4, <2>1
    <3>2. PICK k \in DOMAIN inbox' : inbox'[k] = f
      BY <3>1
    <3> QED
      <4>1. IsEvent(k)' /\ inbox'[k].at = i
        BY <1>3, <3>2 DEF IsEvent
      <4> QED
        BY <1>4, <3>1, <4>1
  <2>2. CASE j \in DOMAIN ends
    <3>1. PICK k \in DOMAIN inbox : IsEvent(k) /\ ends[inbox[k].at][1] = t
      BY <1>4, <2>2 DEF EndComes
    <3>2. inbox[k].at \in DOMAIN ends
      BY <3>1 DEF EventsInOrder
    <3> QED
      BY <1>4, <1>6, <1>10, <3>1, <3>2
  <2> QED
    BY <1>4, <2>1, <2>2
<1>16. \A t : TurnTold(t) /\ (t = host.turn => \E k \in DOMAIN inbox' : inbox'[k] = f) => TurnTold(t)'
  <2> SUFFICES ASSUME NEW t, TurnTold(t), t = host.turn => \E k \in DOMAIN inbox' : inbox'[k] = f,
                      NEW j \in DOMAIN ends', ends'[j][1] = t
               PROVE  j \in stream.seen \/ EventFor(j)'
    BY <1>2 DEF TurnTold
  <2>1. CASE j = i
    <3>1. PICK k \in DOMAIN inbox' : inbox'[k] = f
      BY <1>4, <2>1
    <3> QED
      BY <1>3, <2>1, <3>1 DEF IsEvent, EventFor
  <2>2. CASE j \in DOMAIN ends
    <3>1. j \in stream.seen \/ EventFor(j)
      BY <1>4, <2>2 DEF TurnTold
    <3>2. EventFor(j) => EventFor(j)'
      BY <1>6, <1>10 DEF EventFor
    <3> QED
      BY <3>1, <3>2
  <2> QED
    BY <1>4, <2>1, <2>2
<1>17. TurnAwaited' /\ AnswerOwed'
  <2>1. command.op = "prompt" /\ command.at \in {"asking", "streaming"} => \E k \in DOMAIN inbox' : inbox'[k] = f
    BY <1>6 DEF StreamsRight
  <2>2. \A k \in DOMAIN inbox : inbox[k].kind = "turn" => command.op = "prompt" /\ command.at = "asking"
    BY DEF OneAnswer, IsEvent, KindsOf, RpcsOf, CliTypes, CommandsOf, Commands
  <2>3. command.at = "streaming" /\ command.op = "prompt" => EndComes(command.turn)' /\ command.turn <= host.turns
    <3>1. command'.turn = command.turn
      BY <1>2
    <3> QED
      BY <1>15, <2>1, <3>1 DEF TurnAwaited
  <2>4. ASSUME NEW k \in DOMAIN inbox', inbox'[k].kind = "turn"
        PROVE  inbox'[k].turn # 0 /\ inbox'[k].turn <= host.turns /\ TurnTold(inbox[k].turn)'
    <3>1. k \in DOMAIN inbox /\ inbox'[k] = inbox[k] /\ inbox[k].kind = "turn"
      BY <1>7, <2>4
    <3>2. PICK t : t = inbox[k].turn
      OBVIOUS
    <3>3. TurnTold(t)'
      BY <1>16, <2>1, <2>2, <3>1, <3>2 DEF TurnAwaited
    <3>4. TurnTold(inbox[k].turn)'
      BY <3>1, <3>2, <3>3 DEF TurnTold
    <3> QED
      BY <3>1, <3>4 DEF TurnAwaited
  <2>5. TurnAwaited'
    BY <1>2, <1>5, <2>3, <2>4 DEF TurnAwaited
  <2>6. PICK t : t = host.owed
    OBVIOUS
  <2>7. t # 0 => TurnTold(host.owed)'
    <3>1. t # 0 => TurnTold(t)'
      BY <1>16, <2>1, <2>6 DEF AnswerOwed
    <3>2. t = host'.owed
      BY <1>5, <2>6
    <3> QED
      BY <3>1, <3>2 DEF TurnTold
  <2>8. t # 0 => \A k \in DOMAIN inbox' : IsEvent(k)'
    BY <1>12, <2>6 DEF AnswerOwed
  <2>9. AnswerOwed'
    BY <1>2, <1>5, <2>6, <2>7, <2>8 DEF AnswerOwed
  <2> QED
    BY <2>5, <2>9
<1>18. EffectsKnown'
  <2>1. \A op \in {"stop", "archive"} : ~InTheWay(op) => ~InTheWay(op)'
    BY <1>2, <1>5 DEF InTheWay
  <2>2. \A k \in DOMAIN inbox' : inbox'[k].kind \in {"error", "ok", "list"} =>
          k \in DOMAIN inbox /\ inbox'[k] = inbox[k]
    BY <1>7
  <2> QED
    BY <1>2, <1>5, <2>1, <2>2 DEF EffectsKnown
<1>19. ExitTold'
  BY <1>2, <1>4, <1>5 DEF ExitTold
<1> QED
  BY <1>8, <1>9, <1>11, <1>13, <1>14, <1>17, <1>18, <1>19

(* The daemon answers a command that waits for it. *)
LEMMA AnsweredKeeps ==
  ASSUME CliInv, cliRequest # NoRpc \/ host.owed # 0, command.at = "asking", host'.owed = 0,
         NEW f \in Frames, f.kind # "event", inbox' = Append(inbox, f), f.kind \in KindsOf(command.rpc),
         cliRequest' = NoRpc, UNCHANGED <<ends, command, stream>>,
         host' \in Hosts, did' \in Doings, host.turns <= host'.turns, host'.turn <= host'.turns,
         \A i \in DOMAIN ends : ends[i][1] # host'.turn,
         f.kind = "events" => \A i \in DOMAIN f.events : f.events[i] \in DOMAIN ends,
         f.kind = "turn" => f.turn # 0 /\ f.turn <= host'.turns /\ TurnTold(f.turn),
         did'.effect # "none" => ~did'.busy \/ command.op \notin {"stop", "archive"},
         did'.effect = "approve" => Cardinality(did'.asks) = 1,
         did'.effect \in {"stop", "archive"} => did'.effect = command.op,
         command.rpc \in Reads => did'.effect = "none",
         command.rpc = "session.permission.respond" => Cardinality(did'.asks) = 1,
         command.rpc = "workspace.archive" => ~host'.open,
         f.kind = "error" => did'.effect = "none",
         f.kind = "ok" /\ command.op # "interrupt" => did'.effect = command.op,
         f.kind = "list" /\ ~f.busy /\ command.op \in {"stop", "archive"} => ~InTheWay(command.op)'
  PROVE  CliInv'
<1> USE DEF CliInv
<1>1. \A k \in DOMAIN inbox : IsEvent(k)
  BY DEF OneAnswer, AnswerOwed
<1>2. PICK n : n = Len(inbox) + 1
  OBVIOUS
<1>3. /\ inbox' \in Seq(Frames) /\ n \in DOMAIN inbox' /\ inbox'[n] = f
      /\ \A k \in DOMAIN inbox : k \in DOMAIN inbox' /\ inbox'[k] = inbox[k] /\ k < n
      /\ \A k \in DOMAIN inbox' : (k = n /\ inbox'[k] = f) \/ (k \in DOMAIN inbox /\ inbox'[k] = inbox[k] /\ k < n)
  <2>1. inbox \in Seq(Frames)
    BY DEF CliTypes
  <2> QED
    BY <1>2, <2>1, QueueGrown
<1>4. \A k \in DOMAIN inbox' : \/ k = n /\ ~IsEvent(k)' /\ inbox'[k] = f
                               \/ k \in DOMAIN inbox /\ IsEvent(k)' /\ inbox'[k] = inbox[k] /\ k < n
  BY <1>1, <1>3 DEF IsEvent
<1>5. \A k \in DOMAIN inbox' : inbox'[k].kind # "event" => k = n /\ inbox'[k] = f
  BY <1>4 DEF IsEvent
<1>6. CliTypes'
  BY <1>3 DEF CliTypes
<1>7. TurnsCounted'
  <2>1. host.turns \in Nat /\ host'.turns \in Nat /\ \A i \in DOMAIN ends : ends[i][1] \in Nat
    BY DEF CliTypes, Hosts
  <2> QED
    BY <2>1 DEF TurnsCounted
<1>8. EventsInOrder'
  <2>1. \A k \in DOMAIN inbox' : inbox'[k].kind = "events" =>
          \A i \in DOMAIN inbox'[k].events : inbox'[k].events[i] \in DOMAIN ends
    BY <1>5
  <2>2. \A k \in DOMAIN inbox' : IsEvent(k)' => k \in DOMAIN inbox /\ inbox'[k] = inbox[k] /\ IsEvent(k)
    BY <1>1, <1>4
  <2> QED
    BY <2>1, <2>2 DEF EventsInOrder
<1>9. OneAnswer'
  BY <1>4, <1>5 DEF OneAnswer
<1>10. StreamsRight' /\ ExitTold'
  BY DEF StreamsRight, ExitTold
<1>11. TurnAwaited' /\ AnswerOwed'
  <2>1. PICK t : t = f.turn
    OBVIOUS
  <2>2. TurnTold(t) => TurnTold(t)'
    <3>1. \A i : EventFor(i) => EventFor(i)'
      BY <1>1, <1>3, <1>4 DEF EventFor
    <3> QED
      BY <3>1 DEF TurnTold
  <2>3. ASSUME NEW k \in DOMAIN inbox', inbox'[k].kind = "turn"
        PROVE  inbox'[k].turn # 0 /\ inbox'[k].turn <= host'.turns /\ TurnTold(inbox[k].turn)'
    <3>1. inbox'[k] = f /\ f.kind = "turn"
      BY <1>5, <2>3
    <3>2. TurnTold(t)' /\ t = inbox'[k].turn
      BY <2>1, <2>2, <3>1
    <3>3. TurnTold(inbox[k].turn)'
      BY <3>2 DEF TurnTold
    <3> QED
      BY <3>1, <3>3
  <2> QED
    BY <2>3 DEF TurnAwaited, AnswerOwed
<1>12. EffectsKnown'
  <2>1. \A k \in DOMAIN inbox' : inbox'[k].kind \in {"error", "ok", "list"} => inbox'[k] = f
    BY <1>5
  <2> QED
    BY <2>1 DEF EffectsKnown
<1> QED
  BY <1>6, <1>7, <1>8, <1>9, <1>10, <1>11, <1>12

(* A command that has ended gets no answer. *)
LEMMA UnansweredKeeps ==
  ASSUME CliInv, command.at # "asking", cliRequest' = NoRpc, UNCHANGED <<host, ends, command, stream, inbox, did>>
  PROVE  CliInv'
<1> USE DEF CliInv
<1>1. CliTypes' /\ TurnsCounted'
  BY DEF CliTypes, TurnsCounted
<1>2. EventsInOrder'
  BY DEF EventsInOrder, IsEvent
<1>3. OneAnswer' /\ StreamsRight' /\ ExitTold'
  BY DEF OneAnswer, StreamsRight, ExitTold, IsEvent
<1>4. TurnAwaited' /\ AnswerOwed'
  BY DEF TurnAwaited, AnswerOwed, EndComes, TurnTold, EventFor, IsEvent
<1>5. EffectsKnown'
  BY DEF EffectsKnown, InTheWay
<1> QED
  BY <1>1, <1>2, <1>3, <1>4, <1>5

(* The turn of the prompt starts, and its answer is owed. *)
LEMMA TurnStartsKeeps ==
  ASSUME CliInv, cliRequest = "session.prompt", cliRequest' = NoRpc, UNCHANGED <<ends, command, stream, inbox>>,
         command.at = "asking", command.op = "prompt", NEW t \in Nat, t # 0, t = host.turns + 1,
         host' \in Hosts, host'.turn = t, host'.turns = t, host'.owed = t,
         did' \in Doings, did'.effect = "prompt"
  PROVE  CliInv'
<1> USE DEF CliInv
<1>1. cliRequest # NoRpc /\ command.rpc = "session.prompt" /\ command.rpc \notin Reads
  BY DEF OneAnswer, NoRpc, Reads
<1>2. host.turns \in Nat /\ host.turns <= t /\ \A i \in DOMAIN ends : ends[i][1] <= host.turns /\ ends[i][1] \in Nat
  BY DEF CliTypes, Hosts, TurnsCounted
<1>3. \A i \in DOMAIN ends : ends[i][1] # t
  BY <1>2
<1>4. \A k \in DOMAIN inbox : IsEvent(k) /\ inbox[k].kind = "event"
  BY <1>1 DEF OneAnswer, IsEvent
<1>5. CliTypes' /\ EventsInOrder' /\ StreamsRight' /\ ExitTold'
  <2>1. CliTypes' /\ StreamsRight' /\ ExitTold'
    BY DEF CliTypes, StreamsRight, ExitTold
  <2>2. EventsInOrder'
    BY DEF EventsInOrder, IsEvent
  <2> QED
    BY <2>1, <2>2
<1>6. TurnsCounted'
  BY <1>2, <1>3 DEF TurnsCounted
<1>7. OneAnswer'
  BY <1>1 DEF OneAnswer, IsEvent
<1>8. TurnAwaited'
  BY <1>4 DEF TurnAwaited
<1>9. EffectsKnown'
  BY <1>1, <1>4 DEF EffectsKnown
<1>10. AnswerOwed'
  <2>1. TurnTold(host.owed)'
    BY <1>3 DEF TurnTold
  <2>2. \A k \in DOMAIN inbox : IsEvent(k)'
    BY <1>4 DEF IsEvent
  <2> QED
    BY <2>1, <2>2 DEF AnswerOwed, CliTypes
<1> QED
  BY <1>5, <1>6, <1>7, <1>8, <1>9, <1>10

(* Its answer goes out, after what came before it. *)
LEMMA AnswersPromptKeeps ==
  ASSUME CliInv, AnswersPrompt
  PROVE  CliInv'
<1> USE DEF CliInv
<1>1. /\ host.owed # 0 /\ command.at = "asking" /\ command.op = "prompt" /\ cliRequest = NoRpc
      /\ host.owed <= host.turns /\ TurnTold(host.owed) /\ did.effect = "prompt"
      /\ UNCHANGED <<ends, command, stream, cliRequest, did>> /\ host' = [host EXCEPT !.owed = 0]
      /\ host \in Hosts /\ did \in Doings
  BY DEF AnswersPrompt, AnswerOwed, CliTypes
<1>2. command.rpc = "session.prompt" /\ command.rpc \notin Reads
  BY <1>1 DEF OneAnswer, RpcsOf, Reads
<1>3. PICK f : f = [kind |-> "turn", turn |-> host.owed]
  OBVIOUS
<1>4. f \in Frames /\ f.kind = "turn" /\ f.turn = host.owed /\ inbox' = Append(inbox, f)
  <2>1. host.owed \in Nat
    BY <1>1 DEF Hosts
  <2>2. inbox' = Append(inbox, f)
    BY <1>1, <1>3 DEF AnswersPrompt, Answer
  <2> QED
    BY <1>3, <2>1, <2>2 DEF Frames
<1>5. host' \in Hosts /\ host'.owed = 0 /\ host'.turn = host.turn /\ host'.turns = host.turns
      /\ host.turns \in Nat
  BY <1>1 DEF Hosts
<1>6. host.turn <= host.turns /\ \A i \in DOMAIN ends : ends[i][1] # host.turn
  BY DEF TurnsCounted
<1>7. f.kind \in KindsOf(command.rpc) /\ f.kind \notin {"event", "events", "error", "ok", "list"}
  BY <1>2, <1>4 DEF KindsOf
<1>8. command.rpc \notin {"session.permission.respond", "workspace.archive"}
      /\ command.op \notin {"stop", "archive"} /\ did.effect \notin {"approve", "stop", "archive"}
  BY <1>1, <1>2
<1>9. f.turn # 0 /\ f.turn <= host'.turns /\ TurnTold(f.turn) /\ host.turns <= host'.turns /\ cliRequest' = NoRpc
  BY <1>1, <1>4, <1>5
<1> QED
  BY <1>1, <1>2, <1>4, <1>5, <1>6, <1>7, <1>8, <1>9, AnsweredKeeps

LEMMA HandleKeeps ==
  ASSUME CliInv, Handle
  PROVE  CliInv'
<1> USE DEF CliInv
<1>0. /\ cliRequest # NoRpc /\ cliRequest \in Rpcs /\ cliRequest' = NoRpc /\ UNCHANGED <<ends, command, stream>>
      /\ host \in Hosts /\ did \in Doings /\ did.effect = "none"
      /\ host.turns \in Nat /\ host.turn \in Nat /\ host.turn <= host.turns
      /\ \A i \in DOMAIN ends : ends[i][1] # host.turn /\ ends[i][1] <= host.turns /\ ends[i][1] \in Nat
      /\ host.owed = 0
  BY DEF Handle, CliTypes, EffectsKnown, TurnsCounted, AnswerOwed, Hosts
<1>1. \/ command.at = "asking" /\ cliRequest = command.rpc /\ command.rpc \in RpcsOf(command.op)
      \/ command.at = "done" /\ cliRequest \in Reads
  BY <1>0 DEF OneAnswer, CliTypes, CommandsOf
<1>2. CASE command.at = "done"
  <2>1. cliRequest \in Reads
    BY <1>1, <1>2
  <2>2. UNCHANGED <<host, did, inbox>>
    BY <1>2, <2>1 DEF Handle, Answer, Reads
  <2> QED
    BY <1>0, <1>2, <2>2, UnansweredKeeps
<1>3. CASE command.at = "asking"
  <2>1. cliRequest = command.rpc /\ command.rpc \in RpcsOf(command.op) /\ command.op \in Commands \cup {"none"}
    BY <1>1, <1>3 DEF CliTypes, CommandsOf
  <2>2. \A f : Answer(f) => inbox' = Append(inbox, f)
    BY <1>3 DEF Answer
  <2>3. /\ command.rpc = "session.permission.respond" => Cardinality(did.asks) = 1 /\ command.op = "approve"
        /\ command.rpc = "workspace.archive" => ~host.open /\ command.op = "archive"
        /\ command.rpc = "session.create" => command.op = "new"
        /\ command.rpc = "session.interrupt" => command.op = "interrupt"
        /\ command.rpc = "session.prompt" => command.op = "prompt"
    BY <1>3, <2>1 DEF EffectsKnown, RpcsOf, Commands
  <2>4. CASE command.rpc = "session.list"
    <3>1. PICK f : f = [kind |-> "list", busy |-> InTheWay(command.op), asks |-> host.asks]
      OBVIOUS
    <3>2. inbox' = Append(inbox, f) /\ UNCHANGED <<host, did>>
      BY <2>1, <2>2, <2>4, <3>1 DEF Handle
    <3>3. InTheWay(command.op) \in BOOLEAN /\ host.asks \in SUBSET Nat
      BY <1>0 DEF InTheWay, Hosts
    <3>4. f \in Frames /\ f.kind = "list" /\ f.busy = InTheWay(command.op)
      BY <3>1, <3>3 DEF Frames
    <3>5. f.kind \in KindsOf(command.rpc)
      BY <2>4, <3>4 DEF KindsOf
    <3>6. ~f.busy => ~InTheWay(command.op)'
      BY <1>0, <3>2, <3>4 DEF InTheWay
    <3>7. f.kind \notin {"event", "events", "turn", "error", "ok"}
      BY <3>4
    <3> QED
      BY <1>0, <1>3, <2>3, <2>4, <3>2, <3>4, <3>5, <3>6, <3>7, AnsweredKeeps
  <2>5. CASE command.rpc = "session.timeline"
    <3>1. PICK events : events = [i \in DOMAIN ends |-> i]
      OBVIOUS
    <3>2. events \in Seq(Nat) /\ \A i \in DOMAIN events : events[i] \in DOMAIN ends
      BY <3>1, EndsCounted
    <3>3. PICK f : f = [kind |-> "events", events |-> events]
      OBVIOUS
    <3>4. inbox' = Append(inbox, f) /\ UNCHANGED <<host, did>>
      BY <2>1, <2>2, <2>5, <3>1, <3>3 DEF Handle
    <3>5. f \in Frames /\ f.kind = "events" /\ f.events = events
      BY <3>2, <3>3 DEF Frames
    <3>6. f.kind \in KindsOf(command.rpc)
      BY <2>5, <3>5 DEF KindsOf
    <3>7. f.kind \notin {"event", "list", "turn", "error", "ok"}
      BY <3>5
    <3> QED
      BY <1>0, <1>3, <2>3, <2>5, <3>2, <3>4, <3>5, <3>6, <3>7, AnsweredKeeps
  <2>6. CASE command.rpc = "session.prompt"
    <3>1. command.op = "prompt" /\ command.rpc \notin Reads
      BY <2>3, <2>6 DEF Reads
    <3>2. ASSUME NEW kind \in {"error", "queued"}, Answer(Frame(kind)), UNCHANGED <<host, did>>
          PROVE  CliInv'
      <4>1. PICK f : f = Frame(kind)
        OBVIOUS
      <4>2. f \in Frames /\ f.kind = kind /\ inbox' = Append(inbox, f)
        BY <2>2, <3>2, <4>1 DEF Frame, Frames
      <4>3. f.kind \in KindsOf(command.rpc)
        BY <2>6, <4>2 DEF KindsOf
      <4>4. f.kind \notin {"event", "events", "list", "turn", "ok"}
        BY <4>2
      <4> QED
        BY <1>0, <1>3, <2>3, <3>1, <3>2, <4>2, <4>3, <4>4, AnsweredKeeps
    <3>3. ASSUME host' = [host EXCEPT !.turn = host.turns + 1, !.turns = @ + 1, !.owed = host.turns + 1],
                 did' = [did EXCEPT !.effect = "prompt"], UNCHANGED inbox
          PROVE  CliInv'
      <4>1. PICK t : t = host.turns + 1
        OBVIOUS
      <4>2. t \in Nat /\ t # 0
        BY <1>0, <4>1
      <4>3. host' = [host EXCEPT !.turn = t, !.turns = t, !.owed = t]
        BY <3>3, <4>1
      <4>4. host' \in Hosts /\ host'.turn = t /\ host'.turns = t /\ host'.owed = t
        BY <1>0, <4>2, <4>3 DEF Hosts
      <4>5. did' \in Doings /\ did'.effect = "prompt"
        BY <1>0, <3>3 DEF Doings
      <4> QED
        BY <1>0, <1>3, <2>1, <2>6, <3>1, <3>3, <4>1, <4>2, <4>4, <4>5, TurnStartsKeeps
    <3> QED
      BY <2>1, <2>6, <3>2, <3>3 DEF Handle
  <2>7. ASSUME Answer(Frame("ok")), command.rpc \notin Reads, KindsOf(command.rpc) \in {{"ok"}, {"ok", "error"}},
               host' \in Hosts, host'.turn = host.turn, host'.turns = host.turns, host'.open = host.open,
               host'.owed = 0,
               \/ command.op = "interrupt" /\ did' = did
               \/ /\ command.op \in {"new", "archive", "approve"}
                  /\ did' = [did EXCEPT !.effect = command.op, !.busy = InTheWay(command.op)],
               command.rpc # "session.permission.respond" => command.op # "approve"
        PROVE  CliInv'
    <3>1. PICK f : f = Frame("ok")
      OBVIOUS
    <3>2. f \in Frames /\ f.kind = "ok" /\ inbox' = Append(inbox, f)
      BY <2>2, <2>7, <3>1 DEF Frame, Frames
    <3>3. f.kind \in KindsOf(command.rpc) /\ f.kind \notin {"event", "events", "list", "turn", "error"}
      BY <2>7, <3>2
    <3>4. InTheWay(command.op) \in BOOLEAN /\ (command.op = "archive" => ~InTheWay(command.op))
      <4>1. command.op = "archive" => command.rpc \in {"session.list", "workspace.archive"}
        BY <2>1 DEF RpcsOf
      <4> QED
        BY <1>0, <2>3, <2>7, <4>1 DEF InTheWay, Hosts, Reads
    <3>5. /\ did' \in Doings /\ did'.asks = did.asks
          /\ command.op = "interrupt" => did'.effect = "none"
          /\ command.op # "interrupt" => did'.effect = command.op /\ command.op \in {"new", "archive", "approve"}
          /\ command.op = "archive" => ~did'.busy
      <4>1. PICK busy \in BOOLEAN : busy = InTheWay(command.op)
        BY <3>4
      <4>2. CASE did' = did /\ command.op = "interrupt"
        BY <1>0, <4>2
      <4>3. CASE command.op \in {"new", "archive", "approve"} /\ did' = [did EXCEPT !.effect = command.op, !.busy = busy]
        BY <1>0, <3>4, <4>1, <4>3 DEF Doings
      <4> QED
        BY <2>7, <4>1, <4>2, <4>3
    <3>6. did'.effect = "approve" => Cardinality(did'.asks) = 1
      BY <2>3, <2>7, <3>5
    <3> QED
      BY <1>0, <1>3, <2>3, <2>7, <3>2, <3>3, <3>5, <3>6, AnsweredKeeps
  <2>8. CASE command.rpc = "session.interrupt"
    <3>1. Answer(Frame("ok")) /\ UNCHANGED <<host, did>>
      BY <2>1, <2>8 DEF Handle
    <3>2. KindsOf(command.rpc) = {"ok"} /\ command.rpc \notin Reads
      BY <2>8 DEF KindsOf, Reads
    <3> QED
      BY <1>0, <2>3, <2>7, <2>8, <3>1, <3>2
  <2>9. CASE command.rpc = "session.create"
    <3>1. Answer(Frame("ok")) /\ host' = [host EXCEPT !.extra = @ + 1] /\ Effect("new")
      BY <2>1, <2>9 DEF Handle
    <3>2. KindsOf(command.rpc) = {"ok"} /\ command.rpc \notin Reads
      BY <2>9 DEF KindsOf, Reads
    <3>3. host' \in Hosts /\ host'.turn = host.turn /\ host'.turns = host.turns /\ host'.open = host.open
          /\ host'.owed = 0
      <4>1. host.extra + 1 \in Nat
        BY <1>0 DEF Hosts
      <4> QED
        BY <1>0, <3>1, <4>1 DEF Hosts
    <3> QED
      BY <2>3, <2>7, <2>9, <3>1, <3>2, <3>3 DEF Effect
  <2>10. CASE command.rpc = "workspace.archive"
    <3>1. Answer(Frame("ok")) /\ host' = [host EXCEPT !.archived = TRUE] /\ Effect("archive")
      BY <2>1, <2>10 DEF Handle
    <3>2. KindsOf(command.rpc) = {"ok"} /\ command.rpc \notin Reads
      BY <2>10 DEF KindsOf, Reads
    <3>3. host' \in Hosts /\ host'.turn = host.turn /\ host'.turns = host.turns /\ host'.open = host.open
          /\ host'.owed = 0
      BY <1>0, <3>1 DEF Hosts
    <3> QED
      BY <2>3, <2>7, <2>10, <3>1, <3>2, <3>3 DEF Effect
  <2>11. CASE command.rpc = "session.permission.respond"
    <3>1. \/ /\ host' = [host EXCEPT !.asks = @ \ did.asks] /\ Effect("approve") /\ Answer(Frame("ok"))
          \/ Answer(Frame("error")) /\ UNCHANGED <<host, did>>
      BY <2>1, <2>11 DEF Handle
    <3>2. KindsOf(command.rpc) = {"ok", "error"} /\ command.rpc \notin Reads
      BY <2>11 DEF KindsOf, Reads
    <3>3. CASE host' = [host EXCEPT !.asks = @ \ did.asks] /\ Effect("approve") /\ Answer(Frame("ok"))
      <4>1. host' \in Hosts /\ host'.turn = host.turn /\ host'.turns = host.turns /\ host'.open = host.open
            /\ host'.owed = 0
        BY <1>0, <3>3 DEF Hosts
      <4> QED
        BY <2>3, <2>7, <2>11, <3>2, <3>3, <4>1 DEF Effect
    <3>4. CASE Answer(Frame("error")) /\ UNCHANGED <<host, did>>
      <4>1. PICK f : f = Frame("error")
        OBVIOUS
      <4>2. f \in Frames /\ f.kind = "error" /\ inbox' = Append(inbox, f)
        BY <2>2, <3>4, <4>1 DEF Frame, Frames
      <4>3. f.kind \in KindsOf(command.rpc) /\ f.kind \notin {"event", "events", "list", "turn", "ok"}
        BY <3>2, <4>2
      <4> QED
        BY <1>0, <1>3, <2>3, <2>11, <3>2, <3>4, <4>2, <4>3, AnsweredKeeps
    <3> QED
      BY <3>1, <3>3, <3>4
  <2> QED
    BY <1>0, <2>1, <2>4, <2>5, <2>6, <2>8, <2>9, <2>10, <2>11 DEF Rpcs
<1> QED
  BY <1>1, <1>2, <1>3

(* The first frame is read: the rest stays as it came. *)
LEMMA RestInOrder ==
  ASSUME CliInv, inbox # <<>>, inbox' = Tail(inbox), UNCHANGED ends, command'.op = command.op,
         stream'.seen \subseteq DOMAIN ends,
         \A k \in DOMAIN stream'.held : stream'.held[k] \in DOMAIN ends,
         command.op = "prompt" =>
           stream'.last <= Len(ends) /\ \A k \in DOMAIN inbox : IsEvent(k) /\ k # 1 => stream'.last < inbox[k].at
  PROVE  /\ EventsInOrder' /\ inbox' \in Seq(Frames)
         /\ \A k \in DOMAIN inbox' : /\ k \in Nat /\ k + 1 \in DOMAIN inbox /\ k + 1 # 1 /\ inbox'[k] = inbox[k + 1]
                                     /\ IsEvent(k)' <=> IsEvent(k + 1)
         /\ \A k \in DOMAIN inbox : k # 1 =>
              k - 1 \in DOMAIN inbox' /\ inbox'[k - 1] = inbox[k] /\ (IsEvent(k) => IsEvent(k - 1)')
<1> USE DEF CliInv
<1>1. inbox \in Seq(Frames)
  BY DEF CliTypes
<1>2. /\ inbox' \in Seq(Frames)
      /\ \A k \in DOMAIN inbox' : k + 1 \in DOMAIN inbox /\ inbox'[k] = inbox[k + 1]
      /\ \A k \in DOMAIN inbox : k # 1 => k - 1 \in DOMAIN inbox' /\ inbox'[k - 1] = inbox[k]
  BY <1>1, QueueTaken
<1>3. \A k \in DOMAIN inbox' : k \in Nat /\ k + 1 # 1
  <2>1. \A k \in DOMAIN inbox' : k \in Nat /\ k >= 1
    BY <1>2
  <2> QED
    BY <2>1
<1>4. /\ \A k \in DOMAIN inbox' : IsEvent(k)' <=> IsEvent(k + 1)
      /\ \A k \in DOMAIN inbox : k # 1 /\ IsEvent(k) => IsEvent(k - 1)'
  BY <1>2 DEF IsEvent
<1>5. \A k \in DOMAIN inbox' : IsEvent(k)' =>
        /\ inbox'[k].at \in DOMAIN ends
        /\ command.op = "prompt" => stream'.last < inbox'[k].at
        /\ \A j \in DOMAIN inbox' : IsEvent(j)' /\ j < k => inbox'[j].at < inbox'[k].at
  <2> SUFFICES ASSUME NEW k \in DOMAIN inbox', IsEvent(k)'
               PROVE  /\ inbox'[k].at \in DOMAIN ends
                      /\ command.op = "prompt" => stream'.last < inbox'[k].at
                      /\ \A j \in DOMAIN inbox' : IsEvent(j)' /\ j < k => inbox'[j].at < inbox'[k].at
    OBVIOUS
  <2>1. PICK n \in DOMAIN inbox : n = k + 1
    BY <1>2
  <2>2. IsEvent(n) /\ inbox'[k] = inbox[n] /\ n # 1
    BY <1>2, <1>3, <1>4, <2>1
  <2>3. inbox[n].at \in DOMAIN ends /\ \A j \in DOMAIN inbox : IsEvent(j) /\ j < n => inbox[j].at < inbox[n].at
    BY <2>2 DEF EventsInOrder
  <2>4. ASSUME NEW j \in DOMAIN inbox', IsEvent(j)', j < k
        PROVE  inbox'[j].at < inbox'[k].at
    <3>1. PICK m \in DOMAIN inbox : m = j + 1
      BY <1>2
    <3>2. m < n
      BY <1>3, <2>1, <2>4, <3>1
    <3>3. IsEvent(m) /\ inbox'[j] = inbox[m]
      BY <1>2, <1>4, <2>4, <3>1
    <3> QED
      BY <2>2, <2>3, <3>2, <3>3
  <2> QED
    BY <2>2, <2>3, <2>4
<1>6. \A k \in DOMAIN inbox' : inbox'[k].kind = "events" =>
        \A i \in DOMAIN inbox'[k].events : inbox'[k].events[i] \in DOMAIN ends
  <2> SUFFICES ASSUME NEW k \in DOMAIN inbox', inbox'[k].kind = "events"
               PROVE  \A i \in DOMAIN inbox'[k].events : inbox'[k].events[i] \in DOMAIN ends
    OBVIOUS
  <2>1. PICK n \in DOMAIN inbox : inbox'[k] = inbox[n]
    BY <1>2
  <2> QED
    BY <2>1 DEF EventsInOrder
<1>7. EventsInOrder'
  BY <1>5, <1>6 DEF EventsInOrder
<1> QED
  BY <1>2, <1>3, <1>4, <1>7

(* A turn has ended: the command ends with what became of it. *)
LEMMA LeavesKeeps ==
  ASSUME CliInv, NEW i \in DOMAIN ends, NEW turn \in Nat, Leaves(turn, ends[i][2]),
         host.owed = 0, UNCHANGED <<host, ends, cliRequest, did>>,
         command.at \in {"asking", "streaming"}, cliRequest = NoRpc,
         command.op \in {"prompt", "watch", "watch_from"},
         command.op = "prompt" => ends[i][1] = turn
  PROVE  CliInv'
<1> USE DEF CliInv
<1>1. PICK code, why : /\ ExitsAfter(turn, code, why)
                       /\ \/ why = "turn failed" /\ code = 1 /\ ends[i][2] = "failed"
                          \/ why = "turn ended" /\ code = 0 /\ ends[i][2] # "failed"
  <2>1. CASE ends[i][2] = "failed"
    BY <2>1 DEF Leaves
  <2>2. CASE ends[i][2] # "failed"
    BY <2>2 DEF Leaves
  <2> QED
    BY <2>1, <2>2
<1>2. code \in {0, 1, 2} /\ why \in Whys /\ (code = 1 => why = "turn failed")
      /\ (ends[i][2] = "failed" <=> why = "turn failed")
  <2>1. CASE why = "turn failed" /\ code = 1 /\ ends[i][2] = "failed"
    BY <2>1 DEF Whys
  <2>2. CASE why = "turn ended" /\ code = 0 /\ ends[i][2] # "failed"
    <3>1. why # "turn failed" /\ why \in Whys
      BY <2>2 DEF Whys
    <3>2. code \in {0, 1, 2} /\ code # 1
      BY <2>2, ExitCodes, Zenon
    <3> QED
      BY <2>2, <3>1, <3>2
  <2> QED
    BY <1>1, <2>1, <2>2
<1>3. cliRequest' \in Reads \cup {NoRpc} /\ cliRequest' = NoRpc /\ why # "stopped"
  <2>1. why # "stopped"
    BY <1>1
  <2> QED
    BY <2>1
<1>4. command.op \notin {"approve", "new", "archive", "stop"}
  OBVIOUS
<1> QED
  BY <1>1, <1>2, <1>3, <1>4, CommandExitKeeps

(* An event is read, and the command goes on. *)
LEMMA EventKeeps ==
  ASSUME CliInv, inbox # <<>>, IsEvent(1), inbox' = Tail(inbox), UNCHANGED <<host, ends, command, cliRequest, did>>,
         command.at \in {"asking", "streaming"}, stream' \in Streams,
         stream'.on = stream.on, stream'.holding = stream.holding,
         stream'.seen \subseteq stream.seen \cup {inbox[1].at}, stream.seen \subseteq stream'.seen,
         \A k \in DOMAIN stream'.held : stream'.held[k] \in DOMAIN ends,
         command.op = "prompt" => stream'.last = inbox[1].at /\ inbox[1].at \in stream'.seen,
         command.op = "prompt" /\ command.at = "streaming" => ends[inbox[1].at][1] # command.turn
  PROVE  CliInv'
<1> USE DEF CliInv
<1>1. 1 \in DOMAIN inbox /\ inbox[1].at \in DOMAIN ends
  BY DEF IsEvent, EventsInOrder
<1>2. /\ EventsInOrder' /\ inbox' \in Seq(Frames)
      /\ \A k \in DOMAIN inbox' : /\ k \in Nat /\ k + 1 \in DOMAIN inbox /\ k + 1 # 1 /\ inbox'[k] = inbox[k + 1]
                                  /\ IsEvent(k)' <=> IsEvent(k + 1)
      /\ \A k \in DOMAIN inbox : k # 1 =>
           k - 1 \in DOMAIN inbox' /\ inbox'[k - 1] = inbox[k] /\ (IsEvent(k) => IsEvent(k - 1)')
  <2>1. stream'.seen \subseteq DOMAIN ends
    BY <1>1 DEF EventsInOrder
  <2>2. \A k \in DOMAIN inbox : k \in Nat /\ (k # 1 => 1 < k)
    BY DEF CliTypes
  <2>3. command.op = "prompt" => \A k \in DOMAIN inbox : IsEvent(k) /\ k # 1 => stream'.last < inbox[k].at
    BY <1>1, <2>2 DEF EventsInOrder
  <2>4. command.op = "prompt" => stream'.last <= Len(ends)
    BY <1>1, EndsCounted
  <2>5. command'.op = command.op
    OBVIOUS
  <2> QED
    BY <2>1, <2>3, <2>4, <2>5, RestInOrder
<1>3. CliTypes' /\ TurnsCounted'
  BY <1>2 DEF CliTypes, TurnsCounted
<1>4. OneAnswer'
  <2>1. command.at # "asking" => \A k \in DOMAIN inbox' : IsEvent(k)'
    BY <1>2 DEF OneAnswer
  <2>2. ASSUME command.at = "asking", NEW k \in DOMAIN inbox', ~IsEvent(k)'
        PROVE  /\ cliRequest = NoRpc /\ inbox'[k].kind \in KindsOf(command.rpc)
               /\ \A j \in DOMAIN inbox' : ~IsEvent(j)' => j = k
    <3>1. k + 1 \in DOMAIN inbox /\ ~IsEvent(k + 1) /\ inbox'[k] = inbox[k + 1]
      BY <1>2, <2>2
    <3>2. ASSUME NEW j \in DOMAIN inbox', ~IsEvent(j)'
          PROVE  j = k
      <4>1. j + 1 = k + 1
        BY <1>2, <2>2, <3>1, <3>2 DEF OneAnswer
      <4> QED
        BY <1>2, <4>1
    <3> QED
      BY <2>2, <3>1, <3>2 DEF OneAnswer
  <2> QED
    BY <2>1, <2>2 DEF OneAnswer
<1>5. StreamsRight'
  BY DEF StreamsRight
<1>6. \A t : EndComes(t) /\ ends[inbox[1].at][1] # t => EndComes(t)'
  <2> SUFFICES ASSUME NEW t, EndComes(t), ends[inbox[1].at][1] # t, NEW i \in DOMAIN ends, ends[i][1] = t
               PROVE  \E k \in DOMAIN inbox' : IsEvent(k)' /\ ends[inbox'[k].at][1] = t
    BY DEF EndComes
  <2>1. PICK k \in DOMAIN inbox : IsEvent(k) /\ ends[inbox[k].at][1] = t
    BY DEF EndComes
  <2> QED
    BY <1>2, <2>1
<1>7. command.op = "prompt" => \A t : TurnTold(t) => TurnTold(t)'
  <2> SUFFICES ASSUME command.op = "prompt", NEW t, TurnTold(t), NEW i \in DOMAIN ends, ends[i][1] = t
               PROVE  i \in stream'.seen \/ EventFor(i)'
    BY DEF TurnTold
  <2>1. CASE i \in stream.seen
    BY <2>1
  <2>2. CASE i \notin stream.seen
    <3>1. PICK k \in DOMAIN inbox : IsEvent(k) /\ inbox[k].at = i
      BY <2>2 DEF TurnTold, EventFor
    <3>2. CASE k = 1
      BY <3>1, <3>2
    <3>3. CASE k # 1
      BY <1>2, <3>1, <3>3 DEF EventFor
    <3> QED
      BY <3>2, <3>3
  <2> QED
    BY <2>1, <2>2
<1>8. TurnAwaited' /\ AnswerOwed'
  <2>1. command.at = "streaming" /\ command.op = "prompt" => EndComes(command.turn)' /\ command.turn <= host.turns
    <3>1. command'.turn = command.turn
      OBVIOUS
    <3> QED
      BY <1>6, <3>1 DEF TurnAwaited
  <2>2. ASSUME NEW k \in DOMAIN inbox', inbox'[k].kind = "turn"
        PROVE  inbox'[k].turn # 0 /\ inbox'[k].turn <= host.turns /\ TurnTold(inbox[k].turn)'
    <3>1. PICK n \in DOMAIN inbox : n = k + 1 /\ inbox'[k] = inbox[n]
      BY <1>2
    <3>2. PICK t : t = inbox[n].turn
      OBVIOUS
    <3>3. command.op = "prompt"
      BY <2>2, <3>1 DEF OneAnswer, IsEvent, KindsOf, RpcsOf, CliTypes, CommandsOf, Commands
    <3>4. TurnTold(t)' /\ t = inbox'[k].turn
      BY <1>7, <2>2, <3>1, <3>2, <3>3 DEF TurnAwaited
    <3>5. TurnTold(inbox[k].turn)'
      BY <3>4 DEF TurnTold
    <3> QED
      BY <2>2, <3>1, <3>5 DEF TurnAwaited
  <2>3. TurnAwaited'
    BY <2>1, <2>2 DEF TurnAwaited
  <2>4. PICK t : t = host.owed
    OBVIOUS
  <2>5. t # 0 => TurnTold(host.owed)'
    <3>1. t # 0 => TurnTold(t)'
      BY <1>7, <2>4 DEF AnswerOwed
    <3>2. t = host'.owed
      BY <2>4
    <3> QED
      BY <3>1, <3>2 DEF TurnTold
  <2>6. t # 0 => \A k \in DOMAIN inbox' : IsEvent(k)'
    BY <1>2, <2>4 DEF AnswerOwed
  <2>7. AnswerOwed'
    BY <2>4, <2>5, <2>6 DEF AnswerOwed
  <2> QED
    BY <2>3, <2>7
<1>9. EffectsKnown'
  <2>1. \A op : InTheWay(op)' = InTheWay(op)
    BY DEF InTheWay
  <2>2. \A k \in DOMAIN inbox' : \E n \in DOMAIN inbox : inbox'[k] = inbox[n]
    BY <1>2
  <2> QED
    BY <2>1, <2>2 DEF EffectsKnown
<1>10. ExitTold'
  BY DEF ExitTold
<1> QED
  BY <1>2, <1>3, <1>4, <1>5, <1>8, <1>9, <1>10

LEMMA TakeEventKeeps ==
  ASSUME CliInv, inbox # <<>>, IsEvent(1), TakeEvent(inbox[1].at), UNCHANGED <<host, ends, cliRequest, did>>,
         command.at \in {"asking", "streaming"}
  PROVE  CliInv'
<1> USE DEF CliInv
<1>1. PICK i \in DOMAIN ends : i = inbox[1].at
  BY DEF IsEvent, EventsInOrder
<1>2. stream \in Streams /\ ends \in Seq(Nat \X TurnEnds) /\ i \in Nat
  BY DEF CliTypes
<1>3. CASE stream.holding
  <2>1. stream' = [stream EXCEPT !.held = Append(@, i)] /\ inbox' = Tail(inbox) /\ UNCHANGED command
    BY <1>1, <1>3 DEF TakeEvent
  <2>2. command.op # "prompt"
    BY <1>3 DEF StreamsRight
  <2>3. PICK held : held = Append(stream.held, i)
    OBVIOUS
  <2>4. held \in Seq(Nat) /\ \A k \in DOMAIN held : held[k] \in DOMAIN ends
    <3>1. stream.held \in Seq(Nat)
      BY <1>2 DEF Streams
    <3> QED
      BY <1>2, <2>3, <3>1, QueueGrown DEF EventsInOrder
  <2>5. stream' = [stream EXCEPT !.held = held]
    BY <1>2, <2>1, <2>3 DEF Streams
  <2>6. /\ stream' \in Streams /\ stream'.on = stream.on /\ stream'.holding = stream.holding
        /\ stream'.seen = stream.seen /\ stream'.held = held
    BY <1>2, <2>4, <2>5 DEF Streams
  <2> QED
    BY <2>1, <2>2, <2>4, <2>6, EventKeeps
<1>4. CASE ~stream.holding
  <2>1. PICK next : next = Seen(stream, <<i>>)
    OBVIOUS
  <2>2. /\ next \in Streams /\ next.on = stream.on /\ next.holding = stream.holding /\ next.held = stream.held
        /\ next.seen \subseteq stream.seen \cup {i} /\ stream.seen \subseteq next.seen
        /\ stream.last < i => i \in next.seen /\ next.last = i
    BY <1>1, <1>2, <2>1, SeenOne
  <2>3. next.seen \subseteq DOMAIN ends /\ \A k \in DOMAIN next.held : next.held[k] \in DOMAIN ends
    BY <2>2 DEF EventsInOrder
  <2>4. command.turn \in Nat
    BY DEF CliTypes, CommandsOf
  <2>5. CASE command.at = "streaming" /\ SettledOutcome(next.seen, command.turn) # {}
    <3>1. PICK o \in SettledOutcome(next.seen, command.turn) : Leaves(command.turn, o)
      BY <1>1, <1>4, <2>1, <2>5 DEF TakeEvent
    <3>2. PICK j \in next.seen : ends[j][2] = o /\ (command.turn # 0 => ends[j][1] = command.turn)
      BY <2>3, <2>4, SettledIs
    <3>3. /\ command.op \in {"prompt", "watch", "watch_from"} /\ (command.op = "prompt" => command.turn # 0)
          /\ cliRequest = NoRpc /\ host.owed = 0
      BY <2>5 DEF StreamsRight, OneAnswer, AnswerOwed
    <3>4. j \in DOMAIN ends /\ Leaves(command.turn, ends[j][2])
      BY <2>3, <3>1, <3>2
    <3> QED
      BY <2>4, <3>2, <3>3, <3>4, LeavesKeeps
  <2>6. CASE ~(command.at = "streaming" /\ SettledOutcome(next.seen, command.turn) # {})
    <3>1. stream' = next /\ inbox' = Tail(inbox) /\ UNCHANGED command
      BY <1>1, <1>4, <2>1, <2>6 DEF TakeEvent
    <3>2. command.op = "prompt" => stream.last < i
      BY <1>1 DEF EventsInOrder, IsEvent
    <3>3. command.op = "prompt" /\ command.at = "streaming" => ends[i][1] # command.turn
      BY <2>2, <2>6, <3>2, NotSettled DEF StreamsRight
    <3> QED
      BY <1>1, <2>2, <2>3, <3>1, <3>2, <3>3, EventKeeps
  <2> QED
    BY <2>5, <2>6
<1> QED
  BY <1>3, <1>4

LEMMA QueuesJoined ==
  ASSUME NEW S, NEW T, NEW p \in Seq(S), NEW q \in Seq(S),
         \A k \in DOMAIN p : p[k] \in T, \A k \in DOMAIN q : q[k] \in T
  PROVE  p \o q \in Seq(S) /\ \A k \in DOMAIN (p \o q) : (p \o q)[k] \in T
OBVIOUS

(* An answer is read: it was the only one, and the command goes on with what it says. *)
LEMMA AnswerRead ==
  ASSUME CliInv, inbox # <<>>, ~IsEvent(1), inbox' = Tail(inbox), UNCHANGED ends,
         command.at \in {"asking", "streaming"}, command'.op = command.op,
         stream'.seen \subseteq DOMAIN ends,
         \A k \in DOMAIN stream'.held : stream'.held[k] \in DOMAIN ends,
         command.op = "prompt" => stream' = stream
  PROVE  /\ EventsInOrder' /\ inbox' \in Seq(Frames)
         /\ \A k \in DOMAIN inbox' : IsEvent(k)' /\ inbox'[k].kind = "event"
         /\ \A t : EndComes(t) => EndComes(t)'
<1> USE DEF CliInv
<1>1. command.at = "asking" /\ \A j \in DOMAIN inbox : ~IsEvent(j) => j = 1
  <2>1. 1 \in DOMAIN inbox
    BY QueueTaken DEF CliTypes
  <2> QED
    BY <2>1 DEF OneAnswer
<1>2. /\ EventsInOrder' /\ inbox' \in Seq(Frames)
      /\ \A k \in DOMAIN inbox' : /\ k \in Nat /\ k + 1 \in DOMAIN inbox /\ k + 1 # 1 /\ inbox'[k] = inbox[k + 1]
                                  /\ IsEvent(k)' <=> IsEvent(k + 1)
      /\ \A k \in DOMAIN inbox : k # 1 =>
           k - 1 \in DOMAIN inbox' /\ inbox'[k - 1] = inbox[k] /\ (IsEvent(k) => IsEvent(k - 1)')
  <2>1. command.op = "prompt" =>
          stream'.last <= Len(ends) /\ \A k \in DOMAIN inbox : IsEvent(k) /\ k # 1 => stream'.last < inbox[k].at
    BY DEF EventsInOrder
  <2> QED
    BY <2>1, RestInOrder
<1>3. \A k \in DOMAIN inbox' : IsEvent(k)' /\ inbox'[k].kind = "event"
  BY <1>1, <1>2 DEF IsEvent
<1>4. ASSUME NEW t, EndComes(t), NEW i \in DOMAIN ends, ends[i][1] = t
      PROVE  \E k \in DOMAIN inbox' : IsEvent(k)' /\ ends[inbox'[k].at][1] = t
  <2>1. PICK k \in DOMAIN inbox : IsEvent(k) /\ ends[inbox[k].at][1] = t
    BY <1>4 DEF EndComes
  <2> QED
    BY <1>2, <2>1
<1>5. \A t : EndComes(t) => EndComes(t)'
  BY <1>4 DEF EndComes
<1> QED
  BY <1>2, <1>3, <1>5

(* From then on the command follows the events. *)
LEMMA FollowsKeeps ==
  ASSUME CliInv, inbox # <<>>, ~IsEvent(1), inbox' = Tail(inbox), UNCHANGED <<host, ends, cliRequest, did>>,
         command.at = "asking", cliRequest = NoRpc, NEW turn \in Nat,
         command' = [command EXCEPT !.at = "streaming", !.rpc = NoRpc, !.turn = turn],
         stream' \in Streams, stream'.seen \subseteq DOMAIN ends, stream'.on = stream.on, ~stream'.holding,
         \A k \in DOMAIN stream'.held : stream'.held[k] \in DOMAIN ends,
         \/ command.op = "prompt" /\ stream' = stream /\ turn # 0 /\ turn <= host.turns /\ EndComes(turn)
         \/ command.op = "watch_from" /\ turn = 0
  PROVE  CliInv'
<1> USE DEF CliInv
<1>1. /\ command' \in CommandsOf /\ command'.op = command.op /\ command'.at = "streaming" /\ command'.turn = turn
      /\ command'.why = command.why /\ command'.exit = command.exit /\ command'.rpc = NoRpc
  BY DEF CliTypes, CommandsOf
<1>2. command'.op \in {"prompt", "watch_from"} /\ (command.op = "prompt" => stream' = stream)
      /\ (turn # 0 <=> command'.op = "prompt")
  BY <1>1
<1>3. /\ EventsInOrder' /\ inbox' \in Seq(Frames)
      /\ \A k \in DOMAIN inbox' : IsEvent(k)' /\ inbox'[k].kind = "event"
      /\ \A t : EndComes(t) => EndComes(t)'
  BY <1>1, <1>2, AnswerRead
<1>4. CliTypes' /\ TurnsCounted'
  BY <1>1, <1>3 DEF CliTypes, TurnsCounted
<1>5. OneAnswer'
  BY <1>1, <1>3 DEF OneAnswer
<1>6. StreamsRight'
  BY <1>1, <1>2 DEF StreamsRight
<1>7. TurnAwaited' /\ AnswerOwed'
  <2>1. command'.op = "prompt" => EndComes(turn)' /\ turn <= host'.turns
    BY <1>1, <1>3
  <2>2. command'.op = "prompt" => EndComes(command.turn)'
    BY <1>1, <2>1 DEF EndComes
  <2>3. 1 \in DOMAIN inbox
    BY QueueTaken DEF CliTypes
  <2>4. host'.owed = 0
    BY <2>3 DEF AnswerOwed
  <2> QED
    BY <1>1, <1>3, <2>1, <2>2, <2>4 DEF TurnAwaited, AnswerOwed
<1>8. EffectsKnown'
  <2>1. command.op = "watch_from" => did.effect = "none"
    BY DEF EffectsKnown, OneAnswer, RpcsOf, Reads
  <2>2. command.op \notin {"stop", "archive"}
    BY <1>1, <1>2
  <2> QED
    BY <1>1, <1>2, <2>1, <2>2 DEF EffectsKnown
<1>9. ExitTold'
  BY <1>1 DEF ExitTold
<1> QED
  BY <1>3, <1>4, <1>5, <1>6, <1>7, <1>8, <1>9

(* The command sends its next request. *)
LEMMA CallsKeeps ==
  ASSUME CliInv, inbox # <<>>, ~IsEvent(1), inbox' = Tail(inbox), UNCHANGED <<host, ends, stream>>,
         command.at = "asking", did' \in Doings, did'.effect = "none",
         NEW rpc, Calls(rpc), rpc \in RpcsOf(command.op),
         \/ rpc = "session.permission.respond" /\ Cardinality(did'.asks) = 1
         \/ rpc = "workspace.archive" /\ ~host.open
  PROVE  CliInv'
<1> USE DEF CliInv
<1>1. rpc \in Rpcs /\ rpc \notin Reads \cup {NoRpc}
  BY DEF Rpcs, Reads, NoRpc
<1>2. /\ command' \in CommandsOf /\ command'.op = command.op /\ command'.at = "asking" /\ command'.rpc = rpc
      /\ command'.turn = command.turn /\ command'.why = command.why /\ command'.exit = command.exit
      /\ cliRequest' = rpc
  BY <1>1 DEF CliTypes, CommandsOf, Calls
<1>3. /\ EventsInOrder' /\ inbox' \in Seq(Frames)
      /\ \A k \in DOMAIN inbox' : IsEvent(k)' /\ inbox'[k].kind = "event"
  BY <1>2, AnswerRead DEF EventsInOrder
<1>4. CliTypes' /\ TurnsCounted'
  BY <1>1, <1>2, <1>3 DEF CliTypes, TurnsCounted
<1>5. OneAnswer'
  BY <1>2, <1>3 DEF OneAnswer
<1>6. StreamsRight'
  BY <1>2 DEF StreamsRight
<1>7. TurnAwaited' /\ AnswerOwed'
  <2>1. 1 \in DOMAIN inbox
    BY QueueTaken DEF CliTypes
  <2>2. host'.owed = 0
    BY <2>1 DEF AnswerOwed
  <2> QED
    BY <1>2, <1>3, <2>2 DEF TurnAwaited, AnswerOwed
<1>8. EffectsKnown'
  BY <1>1, <1>2, <1>3 DEF EffectsKnown
<1>9. ExitTold'
  BY <1>2 DEF ExitTold
<1> QED
  BY <1>3, <1>4, <1>5, <1>6, <1>7, <1>8, <1>9

(* A stop has sent its signal, and waits. *)
LEMMA SignalKeeps ==
  ASSUME CliInv, UNCHANGED <<host, ends, cliRequest>>, command.at = "asking", command.op = "stop",
         cliRequest = NoRpc, command' = [command EXCEPT !.at = "stopping", !.rpc = NoRpc],
         stream' = NoStream, inbox' = <<>>, did' \in Doings, did'.effect = "stop", ~did'.busy
  PROVE  CliInv'
<1> USE DEF CliInv
<1>1. /\ command' \in CommandsOf /\ command'.op = "stop" /\ command'.at = "stopping" /\ command'.turn = command.turn
      /\ command'.why = command.why /\ command'.exit = command.exit
  BY DEF CliTypes, CommandsOf
<1>2. /\ NoStream \in Streams /\ NoStream.seen = {} /\ DOMAIN NoStream.held = {} /\ ~NoStream.holding
      /\ NoStream.last = 0
  BY NothingThere DEF NoStream, Streams
<1>3. DOMAIN inbox' = {} /\ inbox' \in Seq(Frames)
  BY NothingThere
<1>4. CliTypes' /\ TurnsCounted'
  BY <1>1, <1>2, <1>3 DEF CliTypes, TurnsCounted
<1>5. EventsInOrder' /\ OneAnswer' /\ StreamsRight'
  BY <1>1, <1>2, <1>3 DEF EventsInOrder, OneAnswer, StreamsRight
<1>6. TurnAwaited' /\ AnswerOwed'
  BY <1>1, <1>3 DEF TurnAwaited, AnswerOwed
<1>7. EffectsKnown' /\ ExitTold'
  BY <1>1, <1>3 DEF EffectsKnown, ExitTold
<1> QED
  BY <1>4, <1>5, <1>6, <1>7

(* The command is refused, or has what it asked for: it ends with a code that says so. *)
LEMMA EndsKeeps ==
  ASSUME CliInv, NEW code \in {0, 1, 2}, NEW why \in Whys, Exits(code, why), UNCHANGED <<host, ends, cliRequest, did>>,
         command.at = "asking", cliRequest = NoRpc, why \notin {"turn ended", "turn failed", "stopped"},
         host.owed = 0,
         code = 1 => did.effect = "none",
         code = 0 /\ command.op \in {"approve", "new", "archive", "stop"} => did.effect = command.op
  PROVE  CliInv'
<1> USE DEF CliInv
<1>1. cliRequest' \in Reads \cup {NoRpc} /\ cliRequest' = NoRpc
  OBVIOUS
<1>2. why \in {"turn ended", "turn failed"} =>
        \E i \in DOMAIN ends : /\ command.op = "prompt" => ends[i][1] = command.turn
                               /\ ends[i][2] = "failed" <=> why = "turn failed"
  OBVIOUS
<1>3. PICK turn \in Nat : turn = command.turn
  BY DEF CliTypes, CommandsOf
<1>4. ExitsAfter(turn, code, why)
  BY <1>3 DEF Exits
<1> QED
  BY <1>1, <1>2, <1>3, <1>4, CommandExitKeeps

LEMMA ReadListKeeps ==
  ASSUME CliInv, inbox # <<>>, inbox[1].kind = "list", ReadList(inbox[1]), UNCHANGED ends,
         command.at \in {"asking", "streaming"}
  PROVE  CliInv'
<1> USE DEF CliInv
<1>1. 1 \in DOMAIN inbox /\ inbox[1] \in Frames /\ ~IsEvent(1)
  BY QueueTaken DEF CliTypes, IsEvent
<1>2. command.at = "asking" /\ cliRequest = NoRpc /\ "list" \in KindsOf(command.rpc)
      /\ command.rpc \in RpcsOf(command.op) /\ command \in CommandsOf /\ command.op \in Commands \cup {"none"}
  BY <1>1 DEF OneAnswer, CliTypes, CommandsOf
<1>3. command.rpc = "session.list" /\ command.op \in {"approve", "archive", "stop"}
  BY <1>2 DEF KindsOf, RpcsOf, Commands
<1>4. did \in Doings /\ did.effect = "none"
  BY <1>2, <1>3 DEF CliTypes, EffectsKnown, Reads
<1>5. inbox[1].asks \in SUBSET Nat /\ inbox[1].busy \in BOOLEAN
  BY <1>1 DEF Frames
<1>6. ASSUME NEW why \in {"not one", "busy"}, Exits(1, why), UNCHANGED <<cliRequest, host, did>>
      PROVE  CliInv'
  <2>1. why \in Whys /\ why \notin {"turn ended", "turn failed", "stopped"} /\ host.owed = 0
    BY <1>1 DEF Whys, AnswerOwed
  <2>2. PICK code : code = 1
    OBVIOUS
  <2>3. code \in {0, 1, 2} /\ code # 0
    BY <2>2, ExitCodes, Zenon
  <2> QED
    BY <1>2, <1>4, <1>6, <2>1, <2>2, <2>3, EndsKeeps
<1>7. CASE command.op = "approve"
  <2>1. CASE Cardinality(inbox[1].asks) # 1
    BY <1>6, <1>7, <2>1 DEF ReadList
  <2>2. CASE Cardinality(inbox[1].asks) = 1
    <3>1. /\ Calls("session.permission.respond") /\ did' = [did EXCEPT !.asks = inbox[1].asks]
          /\ inbox' = Tail(inbox) /\ UNCHANGED <<stream, host>>
      BY <1>7, <2>2 DEF ReadList
    <3>2. did' \in Doings /\ did'.effect = "none" /\ did'.asks = inbox[1].asks
      BY <1>4, <1>5, <3>1 DEF Doings
    <3>3. "session.permission.respond" \in RpcsOf(command.op)
      BY <1>7 DEF RpcsOf
    <3> QED
      BY <1>1, <1>2, <2>2, <3>1, <3>2, <3>3, CallsKeeps
  <2> QED
    BY <2>1, <2>2
<1>8. CASE command.op # "approve" /\ inbox[1].busy
  BY <1>6, <1>8 DEF ReadList
<1>9. CASE command.op # "approve" /\ ~inbox[1].busy
  <2>1. ~InTheWay(command.op)
    BY <1>1, <1>2, <1>3, <1>9 DEF EffectsKnown
  <2>2. CASE command.op = "archive"
    <3>1. Calls("workspace.archive") /\ inbox' = Tail(inbox) /\ UNCHANGED <<stream, host, did>>
      BY <1>9, <2>2 DEF ReadList
    <3>2. ~host.open /\ "workspace.archive" \in RpcsOf(command.op)
      BY <2>1, <2>2 DEF RpcsOf, InTheWay
    <3> QED
      BY <1>1, <1>2, <1>4, <3>1, <3>2, CallsKeeps
  <2>3. CASE command.op = "stop"
    <3>1. /\ command' = [command EXCEPT !.at = "stopping", !.rpc = NoRpc] /\ stream' = NoStream /\ inbox' = <<>>
          /\ did' = [did EXCEPT !.effect = "stop", !.busy = InTheWay("stop")] /\ UNCHANGED <<host, cliRequest>>
      BY <1>9, <2>3 DEF ReadList
    <3>2. InTheWay("stop") = FALSE
      BY <2>1, <2>3 DEF InTheWay
    <3>3. did' \in Doings /\ did'.effect = "stop" /\ ~did'.busy
      <4>1. did' = [did EXCEPT !.effect = "stop", !.busy = FALSE]
        BY <3>1, <3>2
      <4> QED
        BY <1>4, <4>1 DEF Doings
    <3> QED
      BY <1>2, <2>3, <3>1, <3>3, SignalKeeps
  <2> QED
    BY <1>3, <1>9, <2>2, <2>3
<1> QED
  BY <1>5, <1>7, <1>8, <1>9

LEMMA ReadFrameKeeps ==
  ASSUME CliInv, ReadFrame
  PROVE  CliInv'
<1> USE DEF CliInv
<1>0. inbox # <<>> /\ command.at \in {"asking", "streaming"} /\ UNCHANGED ends
  BY DEF ReadFrame
<1>1. Head(inbox) = inbox[1] /\ 1 \in DOMAIN inbox /\ inbox[1] \in Frames
  BY <1>0, QueueTaken DEF CliTypes
<1>2. CASE inbox[1].kind = "event"
  BY <1>0, <1>1, <1>2, TakeEventKeeps DEF ReadFrame, IsEvent
<1>3. CASE inbox[1].kind = "list"
  BY <1>0, <1>1, <1>3, ReadListKeeps DEF ReadFrame
<1>4. CASE inbox[1].kind \notin {"event", "list"}
  <2>1. ~IsEvent(1) /\ command.at = "asking" /\ cliRequest = NoRpc /\ inbox[1].kind \in KindsOf(command.rpc)
        /\ command.rpc \in RpcsOf(command.op) /\ command \in CommandsOf /\ command.op \in Commands \cup {"none"}
        /\ stream \in Streams /\ host.owed = 0
    BY <1>0, <1>1, <1>4 DEF OneAnswer, CliTypes, CommandsOf, IsEvent, AnswerOwed
  <2>2. /\ inbox[1].kind \in {"turn", "queued"} => command.op = "prompt"
        /\ inbox[1].kind = "events" => command.op = "watch_from" /\ command.rpc = "session.timeline"
    BY <2>1 DEF KindsOf, RpcsOf, Commands
  <2>3. ASSUME NEW code \in {0, 1, 2}, NEW why \in {"refused", "queued", "done"}, Exits(code, why),
               UNCHANGED <<host, cliRequest, did>>, code = 1 => inbox[1].kind = "error",
               code = 0 => inbox[1].kind = "ok"
        PROVE  CliInv'
    <3>1. why \in Whys /\ why \notin {"turn ended", "turn failed", "stopped"}
      BY DEF Whys
    <3>2. code = 1 => did.effect = "none"
      BY <1>1, <2>1, <2>3 DEF EffectsKnown
    <3>3. code = 0 /\ command.op \in {"approve", "new", "archive", "stop"} => did.effect = command.op
      BY <1>1, <2>1, <2>3 DEF EffectsKnown
    <3> QED
      BY <1>0, <2>1, <2>3, <3>1, <3>2, <3>3, EndsKeeps
  <2>4. CASE inbox[1].kind = "error"
    <3>1. PICK code : code = 1
      OBVIOUS
    <3>2. code \in {0, 1, 2} /\ code # 0
      BY <3>1
    <3>3. Exits(code, "refused") /\ UNCHANGED <<host, cliRequest, did>>
      BY <1>1, <2>4, <3>1 DEF ReadFrame
    <3> QED
      BY <2>3, <2>4, <3>2, <3>3
  <2>5. CASE inbox[1].kind = "queued"
    <3>1. PICK code : code = 2
      OBVIOUS
    <3>2. code \in {0, 1, 2} /\ code # 0 /\ code # 1
      BY <3>1
    <3>3. Exits(code, "queued") /\ UNCHANGED <<host, cliRequest, did>>
      BY <1>1, <2>5, <3>1 DEF ReadFrame
    <3> QED
      BY <2>3, <3>2, <3>3
  <2>6. CASE inbox[1].kind = "ok"
    <3>1. PICK code : code = 0
      OBVIOUS
    <3>2. code \in {0, 1, 2} /\ code # 1
      BY <3>1
    <3>3. Exits(code, "done") /\ UNCHANGED <<host, cliRequest, did>>
      BY <1>1, <2>6, <3>1 DEF ReadFrame
    <3> QED
      BY <2>3, <2>6, <3>2, <3>3
  <2>7. CASE inbox[1].kind = "turn"
    <3>1. PICK turn : turn = inbox[1].turn
      OBVIOUS
    <3>2. UntilTurnEnds(stream, turn) /\ UNCHANGED <<host, cliRequest, did>>
      BY <1>1, <2>7, <3>1 DEF ReadFrame
    <3>3. turn \in Nat /\ turn # 0 /\ turn <= host.turns /\ TurnTold(turn)
      BY <1>1, <2>7, <3>1 DEF TurnAwaited, Frames
    <3>4. stream.seen \subseteq DOMAIN ends /\ \A k \in DOMAIN stream.held : stream.held[k] \in DOMAIN ends
      BY DEF EventsInOrder
    <3>5. command.op = "prompt" /\ ~stream.holding
      BY <2>2, <2>7 DEF StreamsRight
    <3>6. CASE SettledOutcome(stream.seen, turn) # {}
      <4>1. PICK o \in SettledOutcome(stream.seen, turn) : Leaves(turn, o)
        BY <3>2, <3>6 DEF UntilTurnEnds
      <4>2. PICK i \in stream.seen : ends[i][2] = o /\ ends[i][1] = turn
        BY <3>3, <3>4, SettledIs
      <4>3. i \in DOMAIN ends /\ Leaves(turn, ends[i][2])
        BY <3>4, <4>1, <4>2
      <4> QED
        BY <1>0, <2>1, <3>2, <3>3, <3>5, <4>2, <4>3, LeavesKeeps
    <3>7. CASE SettledOutcome(stream.seen, turn) = {}
      <4>1. command' = [command EXCEPT !.at = "streaming", !.rpc = NoRpc, !.turn = turn]
            /\ stream' = stream /\ inbox' = Tail(inbox)
        BY <3>2, <3>7 DEF UntilTurnEnds
      <4>2. EndComes(turn)
        BY <3>3, <3>7, NotSettled DEF TurnTold, EventFor, EndComes
      <4> QED
        BY <1>0, <2>1, <3>2, <3>3, <3>4, <3>5, <4>1, <4>2, FollowsKeeps
    <3> QED
      BY <3>6, <3>7
  <2>8. CASE inbox[1].kind = "events"
    <3>1. PICK s, places : /\ s = [stream EXCEPT !.holding = FALSE, !.held = <<>>]
                           /\ places = inbox[1].events \o stream.held
      OBVIOUS
    <3>2. PICK filled : filled = Seen(s, places)
      OBVIOUS
    <3>3. UntilTurnEnds(filled, 0) /\ UNCHANGED <<host, cliRequest, did>>
      BY <1>1, <2>8, <3>1, <3>2 DEF ReadFrame
    <3>4. s \in Streams /\ s.on = stream.on /\ s.holding = FALSE /\ s.held = <<>> /\ s.seen = stream.seen
      <4>1. <<>> \in Seq(Nat)
        BY NothingThere
      <4> QED
        BY <2>1, <3>1, <4>1 DEF Streams
    <3>5. places \in Seq(Nat) /\ \A k \in DOMAIN places : places[k] \in DOMAIN ends
      <4>1. PICK events, held : events = inbox[1].events /\ held = stream.held
        OBVIOUS
      <4>2. events \in Seq(Nat) /\ \A k \in DOMAIN events : events[k] \in DOMAIN ends
        BY <1>1, <2>8, <4>1 DEF Frames, EventsInOrder
      <4>3. held \in Seq(Nat) /\ \A k \in DOMAIN held : held[k] \in DOMAIN ends
        BY <2>1, <4>1 DEF Streams, EventsInOrder
      <4> QED
        BY <3>1, <4>1, <4>2, <4>3, QueuesJoined
    <3>6. /\ filled \in Streams /\ filled.seen = s.seen \cup Emitted(s, places) /\ Emitted(s, places) \subseteq DOMAIN ends
          /\ filled.on = s.on /\ filled.holding = s.holding /\ filled.held = s.held
      BY <3>2, <3>4, <3>5, SeenIs
    <3>7. filled.seen \subseteq DOMAIN ends /\ ~filled.holding /\ filled.on = stream.on /\ DOMAIN filled.held = {}
      BY <3>4, <3>6, NothingThere DEF EventsInOrder
    <3>8. PICK t \in Nat : t = 0
      OBVIOUS
    <3>9. CASE SettledOutcome(filled.seen, t) # {}
      <4>1. PICK o \in SettledOutcome(filled.seen, t) : Leaves(t, o)
        BY <3>3, <3>8, <3>9 DEF UntilTurnEnds
      <4>2. PICK i \in filled.seen : ends[i][2] = o
        BY <3>7, SettledIs
      <4>3. i \in DOMAIN ends /\ Leaves(t, ends[i][2]) /\ command.op = "watch_from"
        BY <2>2, <2>8, <3>7, <4>1, <4>2
      <4> QED
        BY <1>0, <2>1, <3>3, <4>3, LeavesKeeps
    <3>10. CASE SettledOutcome(filled.seen, t) = {}
      <4>1. command' = [command EXCEPT !.at = "streaming", !.rpc = NoRpc, !.turn = t]
            /\ stream' = filled /\ inbox' = Tail(inbox)
        BY <3>3, <3>8, <3>10 DEF UntilTurnEnds
      <4> QED
        BY <1>0, <2>1, <2>2, <2>8, <3>3, <3>6, <3>7, <3>8, <4>1, FollowsKeeps
    <3> QED
      BY <3>9, <3>10
  <2>9. inbox[1].kind \in {"error", "queued", "ok", "turn", "events"}
    BY <1>1, <1>4 DEF Frames
  <2> QED
    BY <2>4, <2>5, <2>6, <2>7, <2>8, <2>9
<1> QED
  BY <1>2, <1>3, <1>4

LEMMA CliStarts ==
  ASSUME CliInit
  PROVE  CliInv
<1>1. /\ host \in Hosts /\ host.turn = 0 /\ host.turns = 0 /\ host.owed = 0
      /\ ends = <<>> /\ command = NoCommand /\ stream = NoStream /\ cliRequest = NoRpc /\ inbox = <<>> /\ did = Nothing
  BY DEF CliInit, Hosts
<1>2. DOMAIN ends = {} /\ DOMAIN inbox = {} /\ \A S : <<>> \in Seq(S)
  BY <1>1, NothingThere
<1>3. NoStream \in Streams /\ NoStream.seen = {} /\ DOMAIN NoStream.held = {} /\ ~NoStream.holding
  BY <1>2, NothingThere DEF NoStream, Streams
<1>4. /\ NoCommand \in CommandsOf /\ NoCommand.at = "idle" /\ NoCommand.op = "none" /\ NoCommand.why = "none"
      /\ NoCommand.exit = 0
  BY DEF NoCommand, CommandsOf, Whys, NoRpc
<1>5. Nothing \in Doings /\ Nothing.effect = "none"
  BY DEF Nothing, Doings
<1>6. CliTypes
  BY <1>1, <1>2, <1>3, <1>4, <1>5 DEF CliTypes
<1>7. TurnsCounted /\ EventsInOrder
  BY <1>1, <1>2, <1>3, <1>4 DEF TurnsCounted, EventsInOrder
<1>8. OneAnswer /\ StreamsRight /\ TurnAwaited
  BY <1>1, <1>2, <1>3, <1>4 DEF OneAnswer, StreamsRight, TurnAwaited
<1>9. EffectsKnown /\ ExitTold /\ AnswerOwed
  BY <1>1, <1>4, <1>5 DEF EffectsKnown, ExitTold, AnswerOwed
<1> QED
  BY <1>6, <1>7, <1>8, <1>9 DEF CliInv

LEMMA CliStep ==
  ASSUME CliInv, Barred(CliRaces), CliNext \/ UNCHANGED cliVars
  PROVE  CliInv'
<1>1. CASE UNCHANGED cliVars
  <2>1. UNCHANGED <<host, ends, command, stream, cliRequest, inbox, did>>
    BY <1>1 DEF cliVars
  <2>2. CliTypes' /\ TurnsCounted' /\ EventsInOrder' /\ OneAnswer'
    BY <2>1 DEF CliInv, CliTypes, TurnsCounted, EventsInOrder, OneAnswer, IsEvent
  <2>3. StreamsRight' /\ ExitTold'
    BY <2>1 DEF CliInv, StreamsRight, ExitTold
  <2>4. TurnAwaited' /\ AnswerOwed'
    BY <2>1 DEF CliInv, TurnAwaited, AnswerOwed, EndComes, TurnTold, EventFor, IsEvent
  <2>5. EffectsKnown'
    BY <2>1 DEF CliInv, EffectsKnown, InTheWay
  <2> QED
    BY <2>2, <2>3, <2>4, <2>5 DEF CliInv
<1>2. ASSUME NEW op \in Commands, Invoke(op)
      PROVE  CliInv'
  BY <1>2, InvokeKeeps
<1>3. CASE ReadFrame
  BY <1>3, ReadFrameKeeps
<1>4. CASE RpcTimesOut \/ WatchTimesOut \/ CommandCutOff \/ AwaitsExit
  BY <1>4, TimesOutKeeps, AwaitsExitKeeps
<1>5. CASE Handle \/ AnswersPrompt \/ DaemonGone
  BY <1>5, HandleKeeps, AnswersPromptKeeps, DaemonGoneKeeps
<1>6. CASE OthersPrompt \/ AsksOrAnswers \/ OpensOrCloses
  BY <1>6, OthersPromptKeeps, AsksOrAnswersKeeps, OpensOrClosesKeeps
<1>7. CASE EndOfTurn
  BY <1>7, EndOfTurnKeeps
<1> QED
  BY <1>1, <1>2, <1>3, <1>4, <1>5, <1>6, <1>7 DEF CliNext

LEMMA CliIsSound ==
  ASSUME CliInv
  PROVE  CommandsTell
<1> USE DEF CliInv
<1>1. command.why \in {"turn ended", "turn failed"} =>
        \E i \in DOMAIN ends : /\ command.op = "prompt" => ends[i][1] = command.turn
                               /\ ends[i][2] = "failed" <=> command.why = "turn failed"
  BY DEF StreamsRight, ExitTold
<1>2. \A i \in DOMAIN ends : ends[i][2] \in TurnEnds /\ ends[i][1] # 0
  BY DEF CliTypes, TurnsCounted
<1>3. command.op = "prompt" /\ command.why = "turn ended" => EndedAs(command.turn, {"completed", "canceled"})
  BY <1>1, <1>2 DEF EndedAs, TurnEnds
<1>4. command.op = "prompt" /\ command.why = "turn failed" => EndedAs(command.turn, {"failed"})
  BY <1>1 DEF EndedAs
<1>5. ASSUME command.at = "streaming", NEW i \in DOMAIN ends, ends[i][1] = command.turn
      PROVE  \E k \in {k \in DOMAIN inbox : inbox[k].kind = "event"} : ends[inbox[k].at][1] = command.turn
  <2>1. command.op = "prompt"
    BY <1>2, <1>5 DEF StreamsRight
  <2> QED
    BY <1>5, <2>1 DEF TurnAwaited, EndComes, IsEvent
<1>6. ExitTells
  BY <1>1, <1>3, <1>4, <1>5 DEF ExitTells
<1>7. EffectsAreMeant
  BY DEF EffectsAreMeant, EffectsKnown, ExitTold, StreamsRight
<1> QED
  BY <1>6, <1>7 DEF CommandsTell

-----------------------------------------------------------------------------
(* The homes of the harnesses *)

FilesRaces == {"crash", "overlap", "rewrite", "torn", "broken", "cli", "models"}

Gateway == Endpoints \cup {NoEndpoint}
Content == [form : {"none", "ok", "broken"}, blocks : [GatewayNames -> Gateway \cup {Theirs}],
            choice : GatewayNames \cup {NoName, Theirs}, own : BOOLEAN]
Turns   == DOMAIN HarnessOrder

FilesAt(n)   == FilesOfHarness(HarnessOrder[n])
PlacesAt(n)  == DOMAIN FilesOf[HarnessOrder[n]]
FileAt(n, i) == FilesOf[HarnessOrder[n]][i]

(* The contents that an injection has read, of the files of one harness. *)
Readings == {<<>>} \cup UNION {[FilesAt(n) -> Content] : n \in Turns}

Task == [at : {"idle", "reading", "writing", "injected"}, harness : Turns,
         want : Gateway, read : Readings, left : SUBSET Nat]

FilesTypes ==
  /\ gatewayConfig \in Gateway /\ cached \in Gateway /\ fetching \in Gateway
  /\ homeFile \in [HarnessFiles -> Content] /\ backup \in [HarnessFiles -> BOOLEAN]
  /\ phase \in {"down", "injecting", "homes", "registering", "serving"}
  /\ job \in [Jobs -> Task]
  /\ exposure \in BOOLEAN /\ inForce \in BOOLEAN
  /\ registered \in SUBSET Harnesses /\ registering \in SUBSET Harnesses /\ byHand \in BOOLEAN

(* Whether job j has still to see to the n-th harness. *)
SeesTo(j, n) == job[j].at \in {"reading", "writing"} /\ job[j].harness <= n

(* One job at a time: the start's while the daemon injects, and a request's while it serves. *)
OneJob ==
  /\ \A j \in Jobs : job[j].at # "idle" =>
       phase = (IF j = Startup THEN "injecting" ELSE "serving")
  /\ \A c, d \in Configuring : c = d
  /\ \A c \in Configuring : job[c].at # "injected"
  /\ job[KeySaving].at # "idle" => job[KeySaving].harness = 1

(* Entries are in a file that parses, the user's as he left them. *)
EntriesInPlace ==
  /\ \A f \in entered : homeFile[f].form = "ok" /\ homeFile[f].own
  /\ \A f \in HarnessFiles : homeFile[f].form = "none" => homeFile[f] = NoFile
  /\ \A f \in changed : gatewayConfig # NoEndpoint /\ Drifted(f, homeFile[f], gatewayConfig)
  /\ entered \subseteq HarnessFiles /\ changed \subseteq HarnessFiles

(* A file names the gateway of the settings. *)
NamesIt(f) == Agrees(f, homeFile[f], gatewayConfig)

(* Between the reading of the files and their writing nothing changes but by the job itself. *)
ReadIsTrue(j) ==
  LET n == job[j].harness IN
  job[j].at = "writing" =>
    /\ job[j].want = gatewayConfig /\ gatewayConfig # NoEndpoint
    /\ job[j].left # {} /\ job[j].left \subseteq PlacesAt(n)
    /\ job[j].read \in [FilesAt(n) -> Content]
    /\ \A i \in PlacesAt(n) :
         IF i \in job[j].left THEN job[j].read[FileAt(n, i)] = homeFile[FileAt(n, i)]
                              ELSE NamesIt(FileAt(n, i))
    /\ j \notin Setters => FilesAt(n) \cap changed = {}

(* No file names another gateway than that of the settings, but by the user's hand, except those a
   request has still to write. *)
NoneOutdated(n) ==
  (gatewayConfig # NoEndpoint /\ \A c \in Setters : ~SeesTo(c, n)) =>
    \A f \in FilesAt(n) : Drifted(f, homeFile[f], gatewayConfig) => f \in changed

(* A harness that has been seen to follows the settings; the saving of a key sees to none. *)
SeenTo(n) == \A j \in Jobs \ {KeySaving} : ~SeesTo(j, n)
ByItself(f) == f \notin changed /\ homeFile[f].form # "broken"
Follows(n) ==
  (phase # "down" /\ gatewayConfig # NoEndpoint /\ ~byHand /\ SeenTo(n)) =>
    (\E f \in FilesAt(n) : ~ByItself(f)) \/ \A f \in FilesAt(n) : NamesIt(f)

(* The catalogue is that of the gateway of the settings; the tools are registered where they are to be. *)
CatalogueAndTools ==
  /\ ~byHand => cached \in {NoEndpoint, gatewayConfig} /\ fetching \in {NoEndpoint, gatewayConfig}
  /\ phase # "serving" => cached = NoEndpoint /\ fetching = NoEndpoint
  /\ phase = "registering" => \A h \in Harnesses \ registering : h \in registered <=> inForce
  /\ phase = "serving" => registered = IF inForce THEN Harnesses ELSE {}

FilesInv ==
  /\ FilesTypes /\ OneJob /\ EntriesInPlace /\ CatalogueAndTools
  /\ \A j \in Jobs : ReadIsTrue(j)
  /\ \A n \in Turns : NoneOutdated(n) /\ Follows(n)

LEMMA FilesRacesBarred ==
  ASSUME Barred(FilesRaces)
  PROVE  /\ ~Allows("crash") /\ ~Allows("overlap") /\ ~Allows("rewrite") /\ ~Allows("torn")
         /\ ~Allows("broken") /\ ~Allows("cli") /\ ~Allows("models")
BY DEF Barred, FilesRaces, Allows

LEMMA GatewaysAre ==
  /\ NoEndpoint \notin Endpoints /\ Theirs \notin Endpoints /\ Theirs # NoEndpoint
  /\ Theirs \notin Gateway /\ Startup \notin Setters /\ KeySaving \notin Setters /\ Startup # KeySaving
  /\ Theirs \notin GatewayNames /\ NoName \notin GatewayNames /\ Theirs # NoName
  /\ \A e \in Endpoints : NameOf(e) \in GatewayNames
<1>1. \A e \in Endpoints : e \in Nat /\ e >= 10
  BY HarnessFilesAssumption
<1>2. \A e \in Endpoints : e \div 10 \in Nat /\ e \div 10 >= 1
  BY <1>1
<1>3. Theirs \notin GatewayNames /\ NoName \notin GatewayNames /\ Theirs # NoName
  BY <1>2 DEF GatewayNames, NameOf, Theirs, NoName
<1>4. \A e \in Endpoints : NameOf(e) \in GatewayNames
  BY DEF GatewayNames
<1>5. \A c \in Setters : c \in Nat /\ c # Startup
  BY HarnessFilesAssumption
<1> QED
  BY <1>1, <1>3, <1>4, <1>5 DEF NoEndpoint, Theirs, Startup, KeySaving, Gateway

(* The harnesses in their order, each with files of its own. *)
LEMMA HarnessesInOrder ==
  /\ Turns = 1..3 /\ Len(HarnessOrder) = 3 /\ Turns \subseteq Nat
  /\ \A n \in Turns : n < Len(HarnessOrder) => n + 1 \in Turns
  /\ \A n, m \in Turns : ~(n < Len(HarnessOrder)) => m <= n
  /\ 1 \in Turns /\ \A n \in Turns : 1 <= n
BY DEF Turns, HarnessOrder

LEMMA FilesAtAre ==
  /\ PlacesAt(1) = {1} /\ PlacesAt(2) = {1, 2} /\ PlacesAt(3) = {1}
  /\ FileAt(1, 1) = "models.json" /\ FileAt(2, 1) = "models.yml" /\ FileAt(2, 2) = "config.yml"
  /\ FileAt(3, 1) = "config.toml"
<1>1. HarnessOrder[1] = "pi" /\ HarnessOrder[2] = "omp" /\ HarnessOrder[3] = "grok"
  BY DEF HarnessOrder
<1>2. /\ FilesOf["pi"] = <<"models.json">> /\ FilesOf["omp"] = <<"models.yml", "config.yml">>
      /\ FilesOf["grok"] = <<"config.toml">>
  BY DEF FilesOf
<1>3. DOMAIN <<"models.json">> = {1} /\ DOMAIN <<"models.yml", "config.yml">> = {1, 2}
      /\ DOMAIN <<"config.toml">> = {1}
  OBVIOUS
<1> QED
  BY <1>1, <1>2, <1>3 DEF PlacesAt, FileAt

LEMMA FilesApart ==
  /\ \A n, m \in Turns : \A i \in PlacesAt(n), k \in PlacesAt(m) :
       FileAt(n, i) = FileAt(m, k) => n = m /\ i = k
  /\ \A n \in Turns : PlacesAt(n) \subseteq Nat
<1>1. \A n \in Turns : n = 1 \/ n = 2 \/ n = 3
  BY HarnessesInOrder
<1> QED
  BY <1>1, FilesAtAre

LEMMA FilesOfTurn ==
  /\ \A n \in Turns : FilesAt(n) = {FileAt(n, i) : i \in PlacesAt(n)}
  /\ \A n \in Turns : FilesAt(n) \subseteq HarnessFiles
  /\ \A f \in HarnessFiles : \E n \in Turns : f \in FilesAt(n)
<1>1. \A n \in Turns : HarnessOrder[n] \in Harnesses
  BY DEF Turns, Harnesses
<1>2. \A h \in Harnesses : \E n \in Turns : h = HarnessOrder[n]
  BY DEF Turns, Harnesses
<1>3. \A n \in Turns : FilesAt(n) = {FileAt(n, i) : i \in PlacesAt(n)}
  BY DEF FilesAt, FilesOfHarness, FileAt, PlacesAt
<1>4. \A n \in Turns : FilesAt(n) \subseteq HarnessFiles
  BY <1>1 DEF FilesAt, HarnessFiles
<1>5. \A f \in HarnessFiles : \E n \in Turns : f \in FilesAt(n)
  BY <1>2 DEF FilesAt, HarnessFiles
<1> QED
  BY <1>3, <1>4, <1>5

LEMMA AllFiles ==
  \A f \in HarnessFiles : f \in {"models.json", "models.yml", "config.yml", "config.toml"}
<1>1. \A n \in Turns : n = 1 \/ n = 2 \/ n = 3
  BY HarnessesInOrder
<1> QED
  BY <1>1, FilesAtAre, FilesOfTurn

(* What an injection writes has the gateway's entries, and the user's of what parses. *)
LEMMA InjectedAgrees ==
  ASSUME NEW f \in HarnessFiles, NEW c \in Content, NEW e \in Endpoints
  PROVE  /\ Injected(f, c, e) \in Content /\ Injected(f, c, e).form = "ok"
         /\ Injected(f, c, e).own = (Existing(c) /\ c.own)
         /\ Agrees(f, Injected(f, c, e), e)
<1> DEFINE old == IF Existing(c) THEN c ELSE NoFile
           b == PutBlock(f, old.blocks, e, e)
           k == PutChoice(f, old.choice, NameOf(e))
<1>1. NoFile \in Content /\ ~NoFile.own
  BY DEF NoFile, Content, Gateway
<1>2. old \in Content /\ old.own = (Existing(c) /\ c.own)
  BY <1>1 DEF Content
<1> HIDE DEF old
<1>3. NameOf(e) \in GatewayNames /\ e \in Gateway
  BY GatewaysAre DEF Gateway
<1>4. b \in [GatewayNames -> Gateway \cup {Theirs}] /\ (f \in HasBlocks => b[NameOf(e)] = e)
  BY <1>2, <1>3 DEF PutBlock, Content
<1>5. k \in GatewayNames \cup {NoName, Theirs} /\ (f \in HasChoice => k = NameOf(e))
  BY <1>2, <1>3 DEF PutChoice, Content
<1>6. Injected(f, c, e) = [form |-> "ok", own |-> old.own, blocks |-> b, choice |-> k]
  BY DEF Injected, old
<1> HIDE DEF b, k
<1>7. old.own \in BOOLEAN
  BY <1>2 DEF Content
<1> QED
  BY <1>2, <1>4, <1>5, <1>6, <1>7 DEF Content, Agrees, Existing

LEMMA AgreesOrNot ==
  ASSUME NEW f \in HarnessFiles, NEW c \in Content, NEW e \in Endpoints
  PROVE  /\ Agrees(f, c, e) => ~Drifted(f, c, e) /\ c.form = "ok"
         /\ Drifted(f, c, e) => c.form = "ok"
BY DEF Agrees, Drifted, Existing

(* Entries of the user's own change nothing of what is managed. *)
LEMMA OwnEntries ==
  ASSUME NEW f \in HarnessFiles, NEW c \in Content, c.form # "broken", c.form = "none" => c = NoFile,
         NEW d, d = [c EXCEPT !.form = "ok", !.own = TRUE]
  PROVE  /\ d \in Content /\ d.form = "ok" /\ d.own
         /\ \A e \in Endpoints : (Agrees(f, c, e) => Agrees(f, d, e)) /\ (Drifted(f, d, e) <=> Drifted(f, c, e))
<1>1. d \in Content /\ d.form = "ok" /\ d.own /\ d.blocks = c.blocks /\ d.choice = c.choice
  BY DEF Content
<1>2. ASSUME NEW e \in Endpoints
      PROVE  (Agrees(f, c, e) => Agrees(f, d, e)) /\ (Drifted(f, d, e) <=> Drifted(f, c, e))
  <2>1. CASE c.form = "ok"
    BY <1>1, <2>1 DEF Agrees, Drifted, Existing
  <2>2. CASE c.form = "none"
    <3>1. c.blocks[NameOf(e)] = NoEndpoint /\ c.choice = NoName
      BY <2>2, GatewaysAre DEF NoFile
    <3> QED
      BY <1>1, <2>2, <3>1 DEF Agrees, Drifted, Existing
  <2> QED
    BY <2>1, <2>2 DEF Content
<1> QED
  BY <1>1, <1>2

(* A managed entry that the user changes. *)
LEMMA OthersEntries ==
  ASSUME NEW f \in HarnessFiles, NEW c \in Content, NEW e \in Endpoints, Agrees(f, c, e),
         NEW d, d = [c EXCEPT !.blocks = PutBlock(f, c.blocks, e, Theirs),
                              !.choice = PutChoice(f, c.choice, Theirs)]
  PROVE  d \in Content /\ d.form = "ok" /\ d.own = c.own /\ Drifted(f, d, e)
<1> DEFINE b == PutBlock(f, c.blocks, e, Theirs)
           k == PutChoice(f, c.choice, Theirs)
<1>1. NameOf(e) \in GatewayNames
  BY GatewaysAre
<1>2. b \in [GatewayNames -> Gateway \cup {Theirs}] /\ (f \in HasBlocks => b[NameOf(e)] = Theirs)
  BY <1>1 DEF PutBlock, Content
<1>3. k \in GatewayNames \cup {NoName, Theirs} /\ (f \in HasChoice => k = Theirs)
  BY DEF PutChoice, Content
<1>4. d = [c EXCEPT !.blocks = b, !.choice = k]
  OBVIOUS
<1> HIDE DEF b, k
<1>5. d \in Content /\ d.form = c.form /\ d.own = c.own /\ d.blocks = b /\ d.choice = k
  BY <1>2, <1>3, <1>4 DEF Content
<1>6. f \in HasBlocks \/ f \in HasChoice
  <2>1. f \in {"models.json", "models.yml", "config.yml", "config.toml"}
    BY AllFiles
  <2> QED
    BY <2>1 DEF HasBlocks, HasChoice
<1>7. Theirs \notin {NoEndpoint, e} /\ Theirs \notin {NoName, NameOf(e)} /\ c.form = "ok"
  BY <1>1, GatewaysAre DEF Agrees, Existing
<1> QED
  BY <1>2, <1>3, <1>5, <1>6, <1>7 DEF Drifted, Existing

LEMMA TurnsApart ==
  ASSUME NEW n \in Turns, NEW m \in Turns, n # m
  PROVE  FilesAt(n) \cap FilesAt(m) = {}
BY FilesApart, FilesOfTurn

LEMMA JobIs ==
  ASSUME FilesInv, NEW j \in Jobs
  PROVE  /\ job[j] \in Task /\ job[j].harness \in Turns
         /\ \A f \in HarnessFiles : homeFile[f] \in Content
BY DEF FilesInv, FilesTypes, Task

LEMMA IdleJob ==
  NoJob \in Task /\ NoJob.at = "idle"
BY HarnessesInOrder DEF NoJob, Task, Gateway, Readings

(* The job that moves is the only one. *)
LEMMA OnlyJob ==
  ASSUME FilesInv, NEW j \in Jobs, job[j].at # "idle"
  PROVE  /\ \A k \in Jobs : k # j => job[k].at = "idle"
         /\ j # Startup => Configuring = {j} /\ phase = "serving"
         /\ j = Startup => Configuring = {} /\ phase = "injecting"
<1>1. OneJob /\ Jobs = {Startup, KeySaving} \cup Setters
  BY DEF FilesInv, Jobs
<1> QED
  BY <1>1, GatewaysAre DEF OneJob, Configuring

LEMMA NoJobs ==
  ASSUME FilesInv, phase \notin {"injecting", "serving"} \/ (phase = "serving" /\ Configuring = {})
  PROVE  \A j \in Jobs : job[j].at = "idle"
<1>1. OneJob /\ Jobs = {Startup, KeySaving} \cup Setters
  BY DEF FilesInv, Jobs
<1> QED
  BY <1>1, GatewaysAre DEF OneJob, Configuring

(* What is said of a harness stays while its files do, and those that have to see to it. *)
LEMMA SeersStay ==
  ASSUME NEW n \in Turns, NoneOutdated(n), Follows(n), UNCHANGED <<gatewayConfig, phase, byHand>>,
         \A f \in FilesAt(n) : homeFile'[f] = homeFile[f] /\ (f \in changed' <=> f \in changed),
         \A j \in Jobs \ {KeySaving} : SeesTo(j, n)' <=> SeesTo(j, n)
  PROVE  NoneOutdated(n)' /\ Follows(n)'
<1>1. \A c \in Setters : c \in Jobs \ {KeySaving}
  BY GatewaysAre DEF Jobs
<1>2. NoneOutdated(n)'
  BY <1>1 DEF NoneOutdated
<1>3. SeenTo(n)' <=> SeenTo(n)
  BY DEF SeenTo
<1>4. \A f \in FilesAt(n) : (NamesIt(f)' <=> NamesIt(f)) /\ (ByItself(f)' <=> ByItself(f))
  BY DEF NamesIt, ByItself
<1>5. Follows(n)'
  BY <1>3, <1>4 DEF Follows
<1> QED
  BY <1>2, <1>5

(* The steps that leave the homes and the jobs alone. *)
HomesAsTheyWere == UNCHANGED <<gatewayConfig, homeFile, backup, phase, job, entered, changed, byHand>>

LEMMA HomesStay ==
  ASSUME FilesInv, HomesAsTheyWere
  PROVE  /\ OneJob' /\ EntriesInPlace' /\ \A j \in Jobs : ReadIsTrue(j)'
         /\ \A n \in Turns : NoneOutdated(n)' /\ Follows(n)'
<1> USE DEF HomesAsTheyWere
<1>1. OneJob' /\ EntriesInPlace'
  BY DEF FilesInv, OneJob, Configuring, EntriesInPlace
<1>2. \A j \in Jobs : ReadIsTrue(j)'
  BY DEF FilesInv, ReadIsTrue, NamesIt
<1>3. \A j, n : SeesTo(j, n)' <=> SeesTo(j, n)
  BY DEF SeesTo
<1>4. \A n \in Turns : NoneOutdated(n)' /\ Follows(n)'
  BY <1>3 DEF FilesInv, NoneOutdated, Follows, SeenTo, ByItself, NamesIt
<1> QED
  BY <1>1, <1>2, <1>4

(* The catalogue, the exposure and the registrations. *)
LEMMA CatalogueKeeps ==
  ASSUME FilesInv, Barred(FilesRaces),
         \/ ToggleExposure \/ AskModels \/ KeepModels \/ DropModels
         \/ \E h \in Harnesses : RegisterHarness(h) \/ RegistrationFails(h)
  PROVE  FilesInv'
<1>1. HomesAsTheyWere
  BY DEF ToggleExposure, AskModels, KeepModels, DropModels, RegisterHarness, RegistrationFails, HomesAsTheyWere
<1>2. FilesTypes' /\ CatalogueAndTools'
  <2> USE DEF FilesInv, FilesTypes, CatalogueAndTools, HomesAsTheyWere
  <2>1. CASE ToggleExposure
    BY <1>1, <2>1 DEF ToggleExposure
  <2>2. CASE AskModels \/ KeepModels \/ DropModels
    BY <1>1, <2>2 DEF AskModels, KeepModels, DropModels, restVars, Gateway
  <2>3. ASSUME NEW h \in Harnesses, RegisterHarness(h)
        PROVE  FilesTypes' /\ CatalogueAndTools'
    BY <1>1, <2>3 DEF RegisterHarness
  <2>4. ASSUME NEW h \in Harnesses, RegistrationFails(h)
        PROVE  FilesTypes' /\ CatalogueAndTools'
    BY <1>1, <2>4, FilesRacesBarred DEF RegistrationFails
  <2> QED
    BY <2>1, <2>2, <2>3, <2>4
<1> QED
  BY <1>1, <1>2, HomesStay DEF FilesInv

(* The user's hand in a file, while no injection is at it. *)
LEMMA HandKeeps ==
  ASSUME FilesInv, Barred(FilesRaces), NEW f \in HarnessFiles, AddOwn(f) \/ ChangeManaged(f) \/ Break(f)
  PROVE  FilesInv'
<1>1. /\ \A j \in Jobs : job[j].at # "writing"
      /\ UNCHANGED <<gatewayConfig, backup, phase, job, cached, byHand>> /\ UNCHANGED restVars
  BY FilesRacesBarred DEF AddOwn, ChangeManaged, Break, Touchable
<1> DEFINE old == homeFile[f]
<1>0. homeFile \in [HarnessFiles -> Content] /\ old \in Content /\ (old.form = "none" => old = NoFile)
      /\ gatewayConfig \in Gateway
  BY DEF FilesInv, FilesTypes, EntriesInPlace
<1>2. PICK c \in Content :
        /\ homeFile' = [homeFile EXCEPT ![f] = c]
        /\ c.form # "none"
        /\ \/ /\ c.form = "ok" /\ c.own /\ old.form # "broken"
              /\ gatewayConfig # NoEndpoint =>
                   /\ Agrees(f, old, gatewayConfig) => Agrees(f, c, gatewayConfig)
                   /\ Drifted(f, c, gatewayConfig) <=> Drifted(f, old, gatewayConfig)
              /\ entered' = entered \cup {f} /\ changed' = changed
           \/ /\ c.form = "ok" /\ c.own = old.own /\ gatewayConfig # NoEndpoint
              /\ Drifted(f, c, gatewayConfig)
              /\ entered' = entered /\ changed' = changed \cup {f}
           \/ /\ c.form = "broken" /\ f \notin entered \cup changed
              /\ entered' = entered /\ changed' = changed
  <2>2. CASE AddOwn(f)
    <3> DEFINE c == [old EXCEPT !.form = "ok", !.own = TRUE]
    <3>1. old.form # "broken" /\ homeFile' = [homeFile EXCEPT ![f] = c]
          /\ entered' = entered \cup {f} /\ changed' = changed
      BY <1>0, <2>2 DEF AddOwn
    <3>0. c = [old EXCEPT !.form = "ok", !.own = TRUE] /\ old \in Content /\ (old.form = "none" => old = NoFile)
      BY <1>0
    <3> HIDE DEF c, old
    <3>2. /\ c \in Content /\ c.form = "ok" /\ c.own
          /\ \A e \in Endpoints : (Agrees(f, old, e) => Agrees(f, c, e)) /\ (Drifted(f, c, e) <=> Drifted(f, old, e))
      BY <3>0, <3>1, OwnEntries
    <3>3. gatewayConfig # NoEndpoint => gatewayConfig \in Endpoints
      BY <1>0 DEF Gateway
    <3> QED
      BY <3>1, <3>2, <3>3
  <2>3. CASE ChangeManaged(f)
    <3> DEFINE c == [old EXCEPT !.blocks = PutBlock(f, old.blocks, gatewayConfig, Theirs),
                                !.choice = PutChoice(f, old.choice, Theirs)]
    <3>1. /\ gatewayConfig # NoEndpoint /\ gatewayConfig \in Endpoints /\ Agrees(f, old, gatewayConfig)
          /\ entered' = entered /\ changed' = changed \cup {f}
      BY <1>0, <2>3 DEF ChangeManaged, Gateway
    <3>2. homeFile' = [homeFile EXCEPT ![f] = c]
      BY <1>0, <2>3 DEF ChangeManaged
    <3>3. c \in Content /\ c.form = "ok" /\ c.own = old.own /\ Drifted(f, c, gatewayConfig)
      BY <1>0, <3>1, OthersEntries
    <3> HIDE DEF c, old
    <3> QED
      BY <3>1, <3>2, <3>3
  <2>4. CASE Break(f)
    <3> DEFINE c == [old EXCEPT !.form = "broken"]
    <3>1. c \in Content /\ c.form = "broken"
      BY <1>0 DEF Content
    <3>2. homeFile' = [homeFile EXCEPT ![f] = c] /\ entered' = entered /\ changed' = changed
      BY <1>0, <2>4 DEF Break
    <3>3. f \notin entered \cup changed
      BY <2>4, FilesRacesBarred DEF Break
    <3> HIDE DEF c, old
    <3> QED
      BY <3>1, <3>2, <3>3
  <2> QED
    BY <2>2, <2>3, <2>4
<1>3. /\ homeFile' \in [HarnessFiles -> Content] /\ homeFile'[f] = c
      /\ \A g \in HarnessFiles : g # f => homeFile'[g] = homeFile[g]
  BY <1>0, <1>2
<1>d. \A g \in HarnessFiles :
        /\ g \in changed' => gatewayConfig # NoEndpoint /\ Drifted(g, homeFile'[g], gatewayConfig)
        /\ gatewayConfig # NoEndpoint /\ Drifted(g, homeFile'[g], gatewayConfig) =>
             g \in changed' \/ Drifted(g, homeFile[g], gatewayConfig)
  <2> SUFFICES ASSUME NEW g \in HarnessFiles
               PROVE  /\ g \in changed' => gatewayConfig # NoEndpoint /\ Drifted(g, homeFile'[g], gatewayConfig)
                      /\ gatewayConfig # NoEndpoint /\ Drifted(g, homeFile'[g], gatewayConfig) =>
                           g \in changed' \/ Drifted(g, homeFile[g], gatewayConfig)
    OBVIOUS
  <2>1. g \in changed => gatewayConfig # NoEndpoint /\ Drifted(g, homeFile[g], gatewayConfig)
    BY DEF FilesInv, EntriesInPlace
  <2>2. CASE g # f
    BY <2>1, <2>2, <1>2, <1>3
  <2>3. CASE g = f
    <3>1. gatewayConfig # NoEndpoint /\ c.form = "broken" => ~Drifted(f, c, gatewayConfig)
      BY <1>0, <1>2, AgreesOrNot DEF Gateway
    <3> QED
      BY <2>1, <2>3, <3>1, <1>2, <1>3
  <2> QED
    BY <2>2, <2>3
<1>4. EntriesInPlace'
  <2>1. EntriesInPlace
    BY DEF FilesInv
  <2>2. \A g \in entered' : homeFile'[g].form = "ok" /\ homeFile'[g].own
    BY <2>1, <1>2, <1>3 DEF EntriesInPlace
  <2>3. \A g \in HarnessFiles : homeFile'[g].form = "none" => homeFile'[g] = NoFile
    BY <2>1, <1>2, <1>3 DEF EntriesInPlace
  <2>4. entered' \subseteq HarnessFiles /\ changed' \subseteq HarnessFiles
    BY <2>1, <1>2 DEF EntriesInPlace
  <2> QED
    BY <2>2, <2>3, <2>4, <1>d, <1>1 DEF EntriesInPlace
<1>5. OneJob' /\ \A j \in Jobs : ReadIsTrue(j)'
  BY <1>1 DEF FilesInv, OneJob, Configuring, ReadIsTrue
<1>6. CatalogueAndTools'
  BY <1>1 DEF FilesInv, CatalogueAndTools, restVars
<1>7. FilesTypes'
  BY <1>1, <1>3 DEF FilesInv, FilesTypes, restVars
<1>8. ASSUME NEW n \in Turns
      PROVE  NoneOutdated(n)' /\ Follows(n)'
  <2>1. NoneOutdated(n) /\ Follows(n) /\ FilesAt(n) \subseteq HarnessFiles
    BY FilesOfTurn DEF FilesInv
  <2>2. \A j, m : SeesTo(j, m)' <=> SeesTo(j, m)
    BY <1>1 DEF SeesTo
  <2>3. changed \subseteq changed'
    BY <1>2
  <2>4. NoneOutdated(n)'
    BY <2>1, <2>2, <2>3, <1>1, <1>d DEF NoneOutdated
  <2>5. \A g \in FilesAt(n) : ~ByItself(g) => ~ByItself(g)'
    BY <2>1, <2>3, <1>2, <1>3 DEF ByItself
  <2>6. \A g \in FilesAt(n) : gatewayConfig # NoEndpoint /\ NamesIt(g) => NamesIt(g)' \/ ~ByItself(g)'
    <3> SUFFICES ASSUME NEW g \in FilesAt(n), gatewayConfig # NoEndpoint, NamesIt(g)
                 PROVE  NamesIt(g)' \/ ~ByItself(g)'
      OBVIOUS
    <3>1. CASE g # f
      BY <3>1, <2>1, <1>1, <1>3 DEF NamesIt
    <3>2. CASE g = f
      BY <3>2, <1>1, <1>2, <1>3 DEF NamesIt, ByItself
    <3> QED
      BY <3>1, <3>2
  <2>7. Follows(n)'
    BY <2>1, <2>2, <2>5, <2>6, <1>1 DEF Follows, SeenTo
  <2> QED
    BY <2>4, <2>7
<1> QED
  BY <1>4, <1>5, <1>6, <1>7, <1>8 DEF FilesInv

(* The settings edited by hand: what is for another gateway is so by this hand. *)
LEMMA EditGatewayKeeps ==
  ASSUME FilesInv, Barred(FilesRaces), EditGateway
  PROVE  FilesInv'
<1>1. /\ \A j \in Jobs : job[j].at # "writing"
      /\ gatewayConfig' \in Gateway /\ byHand' = TRUE
      /\ gatewayConfig' = NoEndpoint => changed' = {}
      /\ gatewayConfig' # NoEndpoint =>
           changed' = {f \in HarnessFiles : Drifted(f, homeFile[f], gatewayConfig')}
      /\ UNCHANGED <<homeFile, backup, phase, job, cached, entered>> /\ UNCHANGED restVars
  BY FilesRacesBarred DEF EditGateway, Touchable, Gateway
<1>2. OneJob' /\ \A j \in Jobs : ReadIsTrue(j)'
  BY <1>1 DEF FilesInv, OneJob, Configuring, ReadIsTrue
<1>3. EntriesInPlace'
  BY <1>1 DEF FilesInv, EntriesInPlace
<1>4. \A n \in Turns : NoneOutdated(n)' /\ Follows(n)'
  BY <1>1, FilesOfTurn DEF NoneOutdated, Follows
<1>5. FilesTypes' /\ CatalogueAndTools'
  BY <1>1 DEF FilesInv, FilesTypes, CatalogueAndTools, restVars
<1> QED
  BY <1>2, <1>3, <1>4, <1>5 DEF FilesInv

(* The steps of the start that leave homes and settings alone: the phase and the jobs change. *)
PhaseMoves == UNCHANGED <<gatewayConfig, homeFile, backup, entered, changed>>

LEMMA PhaseKeeps ==
  ASSUME FilesInv, PhaseMoves, job' \in [Jobs -> Task], Configuring = {},
         \A j \in Jobs \ {Startup} : job'[j].at = "idle", \A j \in Jobs : job'[j].at # "writing",
         job'[Startup].at # "idle" => phase' = "injecting",
         \/ phase' = "down" \/ (job'[Startup].at = "reading" /\ job'[Startup].harness = 1)
         \/ /\ phase # "down" /\ byHand' = byHand
            /\ \A j \in Jobs : job[j].at \notin {"reading", "writing"}
  PROVE  /\ OneJob' /\ EntriesInPlace' /\ \A j \in Jobs : ReadIsTrue(j)'
         /\ \A n \in Turns : NoneOutdated(n)' /\ Follows(n)'
<1> USE DEF PhaseMoves
<1>1. OneJob'
  BY GatewaysAre DEF OneJob, Configuring, Jobs
<1>2. EntriesInPlace' /\ \A j \in Jobs : ReadIsTrue(j)'
  BY DEF FilesInv, EntriesInPlace, ReadIsTrue
<1>3. ASSUME NEW n \in Turns
      PROVE  NoneOutdated(n)'
  <2>1. \A c \in Setters : ~SeesTo(c, n)
    BY GatewaysAre DEF SeesTo, Configuring, Jobs
  <2> QED
    BY <2>1 DEF FilesInv, NoneOutdated
<1>4. ASSUME NEW n \in Turns
      PROVE  Follows(n)'
  <2>1. CASE phase' = "down"
    BY <2>1 DEF Follows
  <2>2. CASE job'[Startup].at = "reading" /\ job'[Startup].harness = 1
    <3>1. SeesTo(Startup, n)' /\ Startup \in Jobs \ {KeySaving}
      BY <2>2, HarnessesInOrder, GatewaysAre DEF SeesTo, Jobs
    <3> QED
      BY <3>1 DEF Follows, SeenTo
  <2>3. CASE /\ phase # "down" /\ byHand' = byHand
             /\ \A j \in Jobs : job[j].at \notin {"reading", "writing"}
    <3>1. \A j \in Jobs : ~SeesTo(j, n)
      BY <2>3 DEF SeesTo
    <3> QED
      BY <3>1, <2>3 DEF FilesInv, Follows, SeenTo, ByItself, NamesIt
  <2> QED
    BY <2>1, <2>2, <2>3
<1> QED
  BY <1>1, <1>2, <1>3, <1>4

LEMMA StartingKeeps ==
  ASSUME FilesInv, StartUp \/ PrepareHomes
  PROVE  FilesInv'
<1>1. Startup \in Jobs /\ job \in [Jobs -> Task]
  BY DEF Jobs, FilesInv, FilesTypes
<1>2. PICK r \in Task :
        /\ job' = [job EXCEPT ![Startup] = r] /\ PhaseMoves
        /\ \/ /\ phase = "down" /\ phase' = "injecting" /\ r.at = "reading" /\ r.harness = 1
              /\ byHand' = FALSE
           \/ /\ phase = "injecting" /\ phase' = "homes" /\ r.at = "idle"
              /\ job[Startup].at = "injected" /\ byHand' = byHand
  <2>1. CASE StartUp
    <3> DEFINE r == [NoJob EXCEPT !.at = "reading"]
    <3>1. r \in Task /\ r.at = "reading" /\ r.harness = 1
      BY IdleJob DEF Task, NoJob
    <3> QED
      BY <2>1, <3>1 DEF StartUp, PhaseMoves
  <2>2. CASE PrepareHomes
    BY <2>2, IdleJob DEF PrepareHomes, PhaseMoves
  <2> QED
    BY <2>1, <2>2
<1>3. \A c \in Jobs \ {Startup} : job[c].at = "idle"
  BY <1>2, GatewaysAre DEF FilesInv, OneJob, Jobs
<1>4. job' \in [Jobs -> Task] /\ job'[Startup] = r /\ \A c \in Jobs \ {Startup} : job'[c] = job[c]
  BY <1>1, <1>2, <1>3
<1>5. /\ Configuring = {} /\ \A c \in Jobs \ {Startup} : job'[c].at = "idle"
      /\ \A j \in Jobs : job'[j].at # "writing"
  BY <1>2, <1>3, <1>4 DEF Configuring, Jobs
<1>6. phase = "injecting" => \A j \in Jobs : job[j].at \notin {"reading", "writing"}
  BY <1>2, <1>3 DEF Jobs
<1>7. /\ OneJob' /\ EntriesInPlace' /\ \A j \in Jobs : ReadIsTrue(j)'
      /\ \A n \in Turns : NoneOutdated(n)' /\ Follows(n)'
  BY <1>2, <1>4, <1>5, <1>6, PhaseKeeps
<1>8. UNCHANGED restVars /\ cached' = cached
  BY DEF StartUp, PrepareHomes
<1>9. FilesTypes' /\ CatalogueAndTools'
  BY <1>2, <1>4, <1>8 DEF FilesInv, FilesTypes, CatalogueAndTools, restVars, PhaseMoves
<1> QED
  BY <1>7, <1>9 DEF FilesInv

LEMMA HomesPhaseKeeps ==
  ASSUME FilesInv, HomesFail \/ HomesReady \/ Serving
  PROVE  FilesInv'
<1>1. /\ PhaseMoves /\ job' = job /\ byHand' = byHand /\ phase \in {"homes", "registering"}
      /\ phase' \in {"down", "registering", "serving"} /\ cached' = cached /\ fetching' = fetching
      /\ exposure' = exposure /\ registered' = registered
  BY DEF HomesFail, HomesReady, Serving, PhaseMoves, restVars
<1>2. \A j \in Jobs : job[j].at = "idle"
  BY <1>1, NoJobs
<1>3. Startup \in Jobs
  BY DEF Jobs
<1>4. Configuring = {} /\ job' \in [Jobs -> Task] /\ phase # "down"
  BY <1>1, <1>2, <1>3 DEF Configuring, FilesInv, FilesTypes
<1>5. /\ OneJob' /\ EntriesInPlace' /\ \A j \in Jobs : ReadIsTrue(j)'
      /\ \A n \in Turns : NoneOutdated(n)' /\ Follows(n)'
  BY <1>1, <1>2, <1>3, <1>4, PhaseKeeps
<1>6. FilesTypes'
  BY <1>1, <1>4 DEF FilesInv, FilesTypes, PhaseMoves, HomesFail, HomesReady, Serving, restVars
<1>7. CatalogueAndTools'
  <2> USE DEF FilesInv, FilesTypes, CatalogueAndTools, PhaseMoves
  <2>1. CASE HomesFail
    BY <1>1, <2>1 DEF HomesFail
  <2>2. CASE HomesReady
    BY <1>1, <2>2 DEF HomesReady
  <2>3. CASE Serving
    BY <1>1, <2>3 DEF Serving, restVars
  <2> QED
    BY <2>1, <2>2, <2>3
<1> QED
  BY <1>5, <1>6, <1>7 DEF FilesInv

LEMMA DaemonEndsKeeps ==
  ASSUME FilesInv, Barred(FilesRaces), DaemonEnds
  PROVE  FilesInv'
<1>1. /\ phase' = "down" /\ job' = [j \in Jobs |-> NoJob] /\ Configuring = {} /\ PhaseMoves
      /\ cached' = NoEndpoint /\ fetching' = NoEndpoint /\ registering' = {}
      /\ exposure' = exposure /\ inForce' = inForce /\ registered' = registered /\ byHand' = byHand
  BY FilesRacesBarred DEF DaemonEnds, PhaseMoves
<1>2. /\ job' \in [Jobs -> Task] /\ Startup \in Jobs
      /\ \A j \in Jobs : job'[j].at = "idle"
  BY <1>1, IdleJob DEF Jobs
<1>3. /\ OneJob' /\ EntriesInPlace' /\ \A j \in Jobs : ReadIsTrue(j)'
      /\ \A n \in Turns : NoneOutdated(n)' /\ Follows(n)'
  BY <1>1, <1>2, PhaseKeeps
<1>4. FilesTypes'
  BY <1>1, <1>2 DEF FilesInv, FilesTypes, PhaseMoves, Gateway
<1>5. CatalogueAndTools'
  BY <1>1 DEF CatalogueAndTools
<1> QED
  BY <1>3, <1>4, <1>5 DEF FilesInv

(* A request changes the gateway: every harness is to be seen to. *)
LEMMA SetConfigKeeps ==
  ASSUME FilesInv, Barred(FilesRaces), NEW c \in Setters, SetConfig(c)
  PROVE  FilesInv'
<1> DEFINE r == [NoJob EXCEPT !.at = "reading"]
<1>1. /\ phase = "serving" /\ Configuring = {} /\ fetching = NoEndpoint
      /\ gatewayConfig' \in Endpoints /\ cached' = NoEndpoint /\ job' = [job EXCEPT ![c] = r]
      /\ changed' = {} /\ byHand' = FALSE
      /\ UNCHANGED <<homeFile, backup, phase, entered>> /\ UNCHANGED restVars
  BY FilesRacesBarred DEF SetConfig
<1>2. r \in Task /\ r.at = "reading" /\ r.harness = 1
  BY IdleJob DEF Task, NoJob
<1> HIDE DEF r
<1>3. \A j \in Jobs : job[j].at = "idle"
  BY <1>1, NoJobs
<1>4. /\ c \in Jobs /\ c # Startup /\ c # KeySaving /\ job' \in [Jobs -> Task] /\ job'[c] = r
      /\ \A j \in Jobs : j # c => job'[j].at = "idle"
  BY <1>1, <1>2, <1>3, GatewaysAre DEF FilesInv, FilesTypes, Jobs
<1>5. OneJob'
  BY <1>1, <1>2, <1>4, GatewaysAre DEF OneJob, Configuring, Jobs
<1>6. EntriesInPlace' /\ \A j \in Jobs : ReadIsTrue(j)'
  BY <1>1, <1>2, <1>4 DEF FilesInv, EntriesInPlace, ReadIsTrue
<1>7. \A n \in Turns : SeesTo(c, n)'
  BY <1>2, <1>4, HarnessesInOrder DEF SeesTo
<1>8. \A n \in Turns : NoneOutdated(n)' /\ Follows(n)'
  BY <1>4, <1>7 DEF NoneOutdated, Follows, SeenTo
<1>9. FilesTypes' /\ CatalogueAndTools'
  BY <1>1, <1>4 DEF FilesInv, FilesTypes, CatalogueAndTools, restVars, Gateway
<1> QED
  BY <1>5, <1>6, <1>8, <1>9 DEF FilesInv

(* The saving of a key starts an injection that changes nothing yet. *)
LEMMA SaveKeyKeeps ==
  ASSUME FilesInv, Barred(FilesRaces), SaveKey
  PROVE  FilesInv'
<1> DEFINE r == [NoJob EXCEPT !.at = "reading"]
<1>1. /\ phase = "serving" /\ Configuring = {} /\ job' = [job EXCEPT ![KeySaving] = r]
      /\ UNCHANGED <<gatewayConfig, homeFile, backup, phase, cached, entered, changed, byHand>>
      /\ UNCHANGED restVars
  BY FilesRacesBarred DEF SaveKey
<1>2. r \in Task /\ r.at = "reading" /\ r.harness = 1
  BY IdleJob DEF Task, NoJob
<1> HIDE DEF r
<1>3. \A j \in Jobs : job[j].at = "idle"
  BY <1>1, NoJobs
<1>4. /\ KeySaving \in Jobs /\ KeySaving # Startup /\ job' \in [Jobs -> Task] /\ job'[KeySaving] = r
      /\ \A j \in Jobs : j # KeySaving => job'[j] = job[j]
  BY <1>1, <1>2, GatewaysAre DEF FilesInv, FilesTypes, Jobs
<1>5. OneJob'
  BY <1>1, <1>2, <1>3, <1>4, GatewaysAre DEF OneJob, Configuring, Jobs
<1>6. EntriesInPlace' /\ \A j \in Jobs : ReadIsTrue(j)'
  BY <1>1, <1>2, <1>3, <1>4 DEF FilesInv, EntriesInPlace, ReadIsTrue
<1>7. \A j \in Jobs \ {KeySaving} : \A m : SeesTo(j, m)' <=> SeesTo(j, m)
  BY <1>4 DEF SeesTo
<1>8. \A n \in Turns : NoneOutdated(n)' /\ Follows(n)'
  BY <1>1, <1>7, SeersStay DEF FilesInv
<1>9. FilesTypes' /\ CatalogueAndTools'
  BY <1>1, <1>4 DEF FilesInv, FilesTypes, CatalogueAndTools, restVars
<1> QED
  BY <1>5, <1>6, <1>8, <1>9 DEF FilesInv

(* A job goes on: it has no more to see to the harness it was at, and to all those after it; the
   saving of a key is done. *)
LEMMA OnwardIs ==
  ASSUME FilesInv, NEW j \in Jobs, job[j].at \in {"reading", "writing"},
         job' = [job EXCEPT ![j] = Onward(j)]
  PROVE  /\ job' \in [Jobs -> Task] /\ (\A k \in Jobs : k # j => job'[k] = job[k])
         /\ job'[j].at \in {"reading", IF j = Startup THEN "injected" ELSE "idle"}
         /\ j = KeySaving => job'[j].at = "idle"
         /\ \A k \in Jobs \ {KeySaving}, m \in Turns :
              SeesTo(k, m)' <=> SeesTo(k, m) /\ ~(k = j /\ m = job[j].harness)
<1> DEFINE n == job[j].harness
           goesOn == n < Len(HarnessOrder) /\ j # KeySaving
<1>1. job \in [Jobs -> Task] /\ n \in Turns
  BY JobIs DEF FilesInv, FilesTypes
<1>2. CASE goesOn
  <2> DEFINE r == [NoJob EXCEPT !.at = "reading", !.harness = n + 1]
  <2>1. r \in Task /\ r.at = "reading" /\ r.harness = n + 1
    <3>1. n + 1 \in Turns
      BY <1>1, <1>2, HarnessesInOrder
    <3> QED
      BY <3>1, IdleJob DEF NoJob, Task
  <2>2. job' = [job EXCEPT ![j] = r]
    BY <1>2 DEF Onward
  <2> HIDE DEF r
  <2>3. /\ job' \in [Jobs -> Task] /\ (\A k \in Jobs : k # j => job'[k] = job[k]) /\ job'[j] = r
    BY <1>1, <2>1, <2>2
  <2>4. \A m \in Turns : n + 1 <= m <=> n <= m /\ m # n
    BY <1>1, HarnessesInOrder
  <2>5. \A m \in Turns : SeesTo(j, m)' <=> SeesTo(j, m) /\ m # n
    BY <2>1, <2>3, <2>4 DEF SeesTo
  <2>6. j # KeySaving
    BY <1>2
  <2> HIDE DEF n
  <2> QED
    BY <2>1, <2>3, <2>5, <2>6 DEF SeesTo, n
<1>3. CASE ~goesOn
  <2> DEFINE r == [NoJob EXCEPT !.at = IF j = Startup THEN "injected" ELSE "idle"]
  <2>1. r \in Task /\ r.at = IF j = Startup THEN "injected" ELSE "idle"
    BY IdleJob DEF NoJob, Task
  <2>2. job' = [job EXCEPT ![j] = r]
    BY <1>3 DEF Onward
  <2> HIDE DEF r
  <2>3. /\ job' \in [Jobs -> Task] /\ (\A k \in Jobs : k # j => job'[k] = job[k]) /\ job'[j] = r
    BY <1>1, <2>1, <2>2
  <2>4. j # KeySaving => \A m \in Turns : n <= m => m = n
    BY <1>1, <1>3, HarnessesInOrder
  <2>5. j # KeySaving => \A m \in Turns : SeesTo(j, m)' <=> SeesTo(j, m) /\ m # n
    BY <2>1, <2>3, <2>4 DEF SeesTo
  <2>6. j = KeySaving => r.at = "idle"
    BY <2>1, GatewaysAre
  <2> HIDE DEF n, goesOn
  <2> QED
    BY <2>1, <2>3, <2>5, <2>6 DEF SeesTo, n
<1> QED
  BY <1>2, <1>3

(* While one job moves the others are idle, before and after. *)
LEMMA JobMoves ==
  ASSUME FilesInv, NEW j \in Jobs, job[j].at # "idle", phase' = phase, gatewayConfig' = gatewayConfig,
         \A k \in Jobs : k # j => job'[k] = job[k],
         job'[j].at \in {"reading", "writing", IF j = Startup THEN "injected" ELSE "idle"},
         j = KeySaving /\ job'[j].at # "idle" => job'[j].harness = 1
  PROVE  /\ OneJob' /\ \A k \in Jobs : k # j => job'[k].at = "idle" /\ ReadIsTrue(k)'
         /\ \A k \in Jobs : \A m : k # j => ~SeesTo(k, m) /\ ~SeesTo(k, m)'
<1>1. \A k \in Jobs : k # j => job[k].at = "idle" /\ job'[k].at = "idle"
  BY OnlyJob
<1>2. \A k \in Jobs : k # j => ReadIsTrue(k)'
  BY <1>1 DEF ReadIsTrue
<1>3. \A k \in Jobs : \A m : k # j => ~SeesTo(k, m) /\ ~SeesTo(k, m)'
  BY <1>1 DEF SeesTo
<1>4. OneJob'
  <2>1. CASE j = Startup
    BY <1>1, <2>1, OnlyJob, GatewaysAre DEF OneJob, Configuring, Jobs
  <2>2. CASE j \in {KeySaving} \cup Setters
    <3>1. j # Startup /\ phase = "serving"
      BY <2>2, OnlyJob, GatewaysAre
    <3> QED
      BY <1>1, <2>2, <3>1, GatewaysAre DEF OneJob, Configuring, Jobs
  <2> QED
    BY <2>1, <2>2 DEF Jobs
<1> QED
  BY <1>1, <1>2, <1>3, <1>4

(* A job that finds nothing to write at a harness, or nothing it may write. *)
LEMMA PassesBy ==
  ASSUME FilesInv, NEW j \in Jobs, job[j].at = "reading",
         NEW n \in Turns, n = job[j].harness,
         \/ gatewayConfig = NoEndpoint
         \/ \A f \in FilesAt(n) : NamesIt(f)
         \/ ~MayOverwrite(j, FilesAt(n), gatewayConfig),
         job' = [job EXCEPT ![j] = Onward(j)],
         UNCHANGED <<gatewayConfig, homeFile, backup, phase, cached, entered, changed, byHand>>,
         UNCHANGED restVars
  PROVE  FilesInv'
<1>1. /\ job' \in [Jobs -> Task] /\ (\A k \in Jobs : k # j => job'[k] = job[k])
      /\ job'[j].at \in {"reading", IF j = Startup THEN "injected" ELSE "idle"}
      /\ j = KeySaving => job'[j].at = "idle"
      /\ \A k \in Jobs \ {KeySaving}, m \in Turns : SeesTo(k, m)' <=> SeesTo(k, m) /\ ~(k = j /\ m = n)
  BY OnwardIs, ZenonT(30)
<1>2. OneJob' /\ \A k \in Jobs : ReadIsTrue(k)'
  <2>1. ReadIsTrue(j)'
    BY <1>1 DEF ReadIsTrue
  <2> QED
    BY <1>1, <2>1, JobMoves
<1>3. FilesAt(n) \subseteq HarnessFiles /\ gatewayConfig \in Gateway
  BY FilesOfTurn DEF FilesInv, FilesTypes
<1>4. ASSUME NEW m \in Turns
      PROVE  NoneOutdated(m)' /\ Follows(m)'
  <2>1. NoneOutdated(m) /\ Follows(m)
    BY DEF FilesInv
  <2>2. CASE m # n \/ j = KeySaving
    <3>1. \A k \in Jobs \ {KeySaving} : SeesTo(k, m)' <=> SeesTo(k, m)
      BY <1>1, <2>2
    <3> QED
      BY <2>1, <3>1, SeersStay
  <2>3. CASE m = n /\ j # KeySaving
    <3>1. CASE gatewayConfig = NoEndpoint
      BY <3>1 DEF NoneOutdated, Follows
    <3>2. CASE gatewayConfig # NoEndpoint /\ \A f \in FilesAt(n) : NamesIt(f)
      <4>1. \A f \in FilesAt(n) : NamesIt(f)' /\ ~Drifted(f, homeFile[f], gatewayConfig)
        BY <1>3, <3>2, JobIs, AgreesOrNot DEF NamesIt, Gateway
      <4> QED
        BY <2>3, <4>1 DEF NoneOutdated, Follows
    <3>3. CASE gatewayConfig # NoEndpoint /\ ~MayOverwrite(j, FilesAt(n), gatewayConfig)
      <4>1. j = Startup
        BY <2>3, <3>3 DEF MayOverwrite, Jobs
      <4>2. \A c \in Setters, k \in Turns : ~SeesTo(c, k)
        BY <4>1, OnlyJob, GatewaysAre DEF SeesTo, Jobs
      <4>3. PICK f \in FilesAt(n) : Drifted(f, homeFile[f], gatewayConfig)
        BY <3>3 DEF MayOverwrite
      <4>4. f \in changed
        BY <2>1, <2>3, <3>3, <4>2, <4>3 DEF NoneOutdated
      <4>5. NoneOutdated(m)'
        BY <2>1, <4>2 DEF NoneOutdated
      <4>6. Follows(m)'
        BY <2>3, <4>3, <4>4 DEF Follows, ByItself
      <4> QED
        BY <4>5, <4>6
    <3> QED
      BY <3>1, <3>2, <3>3
  <2> QED
    BY <2>2, <2>3
<1> QED
  BY <1>1, <1>2, <1>4 DEF FilesInv, FilesTypes, EntriesInPlace, CatalogueAndTools, restVars

(* A job that has read the files of a harness and is to write some. *)
LEMMA TurnsToWrite ==
  ASSUME FilesInv, NEW j \in Jobs, job[j].at = "reading",
         NEW n \in Turns, n = job[j].harness, gatewayConfig # NoEndpoint,
         NEW left, left = {i \in PlacesAt(n) : ~NamesIt(FileAt(n, i))}, left # {},
         MayOverwrite(j, FilesAt(n), gatewayConfig),
         NEW read, read = [f \in FilesAt(n) |-> homeFile[f]],
         job' = [job EXCEPT ![j] = [job[j] EXCEPT !.at = "writing", !.want = gatewayConfig, !.left = left,
                                                  !.read = read]],
         UNCHANGED <<gatewayConfig, homeFile, backup, phase, cached, entered, changed, byHand>>,
         UNCHANGED restVars
  PROVE  FilesInv'
<1> DEFINE r == [job[j] EXCEPT !.at = "writing", !.want = gatewayConfig, !.left = left, !.read = read]
<1>1. /\ left \subseteq PlacesAt(n) /\ left \in SUBSET Nat /\ read \in [FilesAt(n) -> Content]
      /\ read \in Readings /\ gatewayConfig \in Gateway
  <2>1. left \subseteq PlacesAt(n) /\ left \in SUBSET Nat
    BY FilesApart
  <2>2. read \in [FilesAt(n) -> Content]
    BY FilesOfTurn, JobIs
  <2> QED
    BY <2>1, <2>2 DEF Readings, FilesInv, FilesTypes
<1>2. r \in Task /\ r.at = "writing" /\ r.want = gatewayConfig /\ r.left = left /\ r.read = read
      /\ r.harness = n
  BY <1>1, JobIs DEF Task
<1> HIDE DEF r
<1>3. job' \in [Jobs -> Task] /\ job'[j] = r /\ \A k \in Jobs : k # j => job'[k] = job[k]
  <2>1. job' = [job EXCEPT ![j] = r]
    BY DEF r
  <2> QED
    BY <1>2, <2>1 DEF FilesInv, FilesTypes
<1>4. ReadIsTrue(j)'
  <2>1. \A i \in PlacesAt(n) : FileAt(n, i) \in FilesAt(n)
    BY FilesOfTurn
  <2>2. \A i \in PlacesAt(n) :
          IF i \in left THEN read[FileAt(n, i)] = homeFile[FileAt(n, i)] ELSE NamesIt(FileAt(n, i))
    BY <2>1
  <2>3. j \notin Setters => FilesAt(n) \cap changed = {}
    BY FilesOfTurn DEF MayOverwrite, FilesInv, EntriesInPlace
  <2>4. /\ job'[j].harness = n /\ job'[j].want = gatewayConfig /\ job'[j].left = left
        /\ job'[j].read = read /\ gatewayConfig' = gatewayConfig /\ homeFile' = homeFile
        /\ changed' = changed
    BY <1>2, <1>3
  <2>5. \A f : NamesIt(f)' <=> NamesIt(f)
    BY <2>4 DEF NamesIt
  <2> HIDE DEF r
  <2> QED
    BY <1>1, <2>2, <2>3, <2>4, <2>5 DEF ReadIsTrue
<1>5. OneJob' /\ \A k \in Jobs : ReadIsTrue(k)'
  <2>1. j = KeySaving => r.harness = 1
    BY <1>2 DEF FilesInv, OneJob
  <2> QED
    BY <1>2, <1>3, <1>4, <2>1, JobMoves
<1>6. \A k \in Jobs, m \in Turns : SeesTo(k, m)' <=> SeesTo(k, m)
  BY <1>2, <1>3 DEF SeesTo
<1>7. \A m \in Turns : NoneOutdated(m)' /\ Follows(m)'
  BY <1>6, SeersStay DEF FilesInv
<1> QED
  BY <1>3, <1>5, <1>7 DEF FilesInv, FilesTypes, EntriesInPlace, CatalogueAndTools, restVars

LEMMA ReadHomeKeeps ==
  ASSUME FilesInv, NEW j \in Jobs, ReadHome(j)
  PROVE  FilesInv'
<1> DEFINE n == job[j].harness
           left == {i \in PlacesAt(n) : ~NamesIt(FileAt(n, i))}
           passes == gatewayConfig = NoEndpoint \/ left = {} \/ ~MayOverwrite(j, FilesAt(n), gatewayConfig)
           read == [f \in FilesAt(n) |-> homeFile[f]]
<1>1. /\ job[j].at = "reading" /\ n \in Turns
      /\ UNCHANGED <<gatewayConfig, homeFile, backup, phase, cached, entered, changed, byHand>>
      /\ UNCHANGED restVars
  BY JobIs DEF ReadHome
<1>2. job' = [job EXCEPT ![j] = IF passes THEN Onward(j)
         ELSE [job[j] EXCEPT !.at = "writing", !.want = gatewayConfig, !.left = left, !.read = read]]
  BY DEF ReadHome, PlacesAt, FileAt, FilesAt, NamesIt
<1>3. CASE passes
  <2>1. job' = [job EXCEPT ![j] = Onward(j)]
    BY <1>2, <1>3
  <2>2. \/ gatewayConfig = NoEndpoint
        \/ \A f \in FilesAt(n) : NamesIt(f)
        \/ ~MayOverwrite(j, FilesAt(n), gatewayConfig)
    BY <1>1, <1>3, FilesOfTurn
  <2> HIDE DEF n
  <2> QED
    BY <1>1, <2>1, <2>2, PassesBy DEF n
<1>4. CASE ~passes
  <2>1. job' = [job EXCEPT ![j] =
          [job[j] EXCEPT !.at = "writing", !.want = gatewayConfig, !.left = left, !.read = read]]
    BY <1>2, <1>4
  <2>2. gatewayConfig # NoEndpoint /\ left # {} /\ MayOverwrite(j, FilesAt(n), gatewayConfig)
    BY <1>4
  <2> HIDE DEF passes
  <2> QED
    BY <1>1, <2>1, <2>2, TurnsToWrite
<1> QED
  BY <1>3, <1>4

(* The next file of a job: it has still the content that was read. *)
LEMMA NextFileIs ==
  ASSUME FilesInv, NEW j \in Jobs, job[j].at = "writing", NEW n \in Turns, n = job[j].harness
  PROVE  /\ FirstLeft(j) \in job[j].left /\ FirstLeft(j) \in PlacesAt(n)
         /\ NextFile(j) = FileAt(n, FirstLeft(j)) /\ NextFile(j) \in FilesAt(n) /\ NextFile(j) \in HarnessFiles
         /\ job[j].read[NextFile(j)] = homeFile[NextFile(j)]
         /\ job[j].want = gatewayConfig /\ gatewayConfig \in Endpoints
         /\ j \notin Setters => NextFile(j) \notin changed
<1>1. ReadIsTrue(j) /\ gatewayConfig \in Gateway
  BY DEF FilesInv, FilesTypes
<1>2. job[j].left # {} /\ job[j].left \subseteq PlacesAt(n) /\ job[j].left \in SUBSET Nat
  BY <1>1, FilesApart DEF ReadIsTrue
<1>4. FirstLeft(j) \in job[j].left
  BY <1>2, MinIsIn DEF FirstLeft
<1>5. NextFile(j) = FileAt(n, FirstLeft(j)) /\ NextFile(j) \in FilesAt(n) /\ NextFile(j) \in HarnessFiles
  BY <1>2, <1>4, FilesOfTurn DEF NextFile, FileAt
<1>6. job[j].read[NextFile(j)] = homeFile[NextFile(j)]
  BY <1>1, <1>2, <1>4, <1>5 DEF ReadIsTrue
<1> QED
  BY <1>1, <1>2, <1>4, <1>5, <1>6 DEF ReadIsTrue, Gateway

(* A file is written: the managed entries are those of the settings, the others as they were. *)
LEMMA WriteHomeKeeps ==
  ASSUME FilesInv, NEW j \in Jobs, WriteHome(j)
  PROVE  FilesInv'
<1>n. PICK n \in Turns : n = job[j].harness
  BY JobIs
<1>p. PICK i \in PlacesAt(n) : i = FirstLeft(j) /\ i \in job[j].left
  BY <1>n, NextFileIs DEF WriteHome
<1>f. PICK f \in FilesAt(n) : f = FileAt(n, i) /\ f = NextFile(j)
  BY <1>n, <1>p, NextFileIs DEF WriteHome
<1>a. /\ job[j].at = "writing" /\ f \in HarnessFiles /\ job[j].read[f] = homeFile[f]
      /\ job[j].want = gatewayConfig /\ gatewayConfig \in Endpoints
      /\ j \notin Setters => f \notin changed
  BY <1>n, <1>f, NextFileIs DEF WriteHome
<1> DEFINE own == Existing(homeFile[f]) /\ homeFile[f].own
           c == Injected(f, homeFile[f], gatewayConfig)
<1>1. /\ homeFile' = [homeFile EXCEPT ![f] = c]
      /\ backup' = IF Existing(homeFile[f]) THEN [backup EXCEPT ![f] = homeFile[f].own] ELSE backup
      /\ changed' = changed \ {f}
      /\ UNCHANGED <<gatewayConfig, phase, cached, entered, byHand>> /\ UNCHANGED restVars
  BY <1>a, <1>f DEF WriteHome
<1>2. /\ c \in Content /\ c.form = "ok" /\ c.own = own /\ Agrees(f, c, gatewayConfig)
      /\ homeFile \in [HarnessFiles -> Content] /\ backup \in [HarnessFiles -> BOOLEAN]
      /\ homeFile[f].own \in BOOLEAN
  <2>1. /\ homeFile \in [HarnessFiles -> Content] /\ backup \in [HarnessFiles -> BOOLEAN]
        /\ homeFile[f] \in Content
    BY <1>a DEF FilesInv, FilesTypes
  <2>2. c \in Content /\ c.form = "ok" /\ c.own = own /\ Agrees(f, c, gatewayConfig)
    BY <1>a, <2>1, InjectedAgrees
  <2>3. homeFile[f].own \in BOOLEAN
    BY <2>1 DEF Content
  <2> QED
    BY <2>1, <2>2, <2>3
<1>0. ~Drifted(f, c, gatewayConfig)
  BY <1>2, <1>a, AgreesOrNot
<1>3. /\ homeFile' \in [HarnessFiles -> Content] /\ homeFile'[f] = c
      /\ \A g \in HarnessFiles : g # f => homeFile'[g] = homeFile[g]
      /\ backup' \in [HarnessFiles -> BOOLEAN]
  <2> HIDE DEF c
  <2> QED
    BY <1>a, <1>1, <1>2
<1>4. EntriesInPlace'
  <2>1. f \in entered => own
    BY DEF FilesInv, EntriesInPlace, Existing
  <2>2. EntriesInPlace
    BY DEF FilesInv
  <2> HIDE DEF c, own
  <2>3. \A g \in entered : homeFile'[g].form = "ok" /\ homeFile'[g].own
    BY <1>2, <1>3, <2>1, <2>2 DEF EntriesInPlace
  <2>4. \A g \in HarnessFiles : homeFile'[g].form = "none" => homeFile'[g] = NoFile
    BY <1>2, <1>3, <2>2 DEF EntriesInPlace
  <2>5. \A g \in changed' : gatewayConfig # NoEndpoint /\ Drifted(g, homeFile'[g], gatewayConfig)
    BY <1>1, <1>3, <2>2 DEF EntriesInPlace
  <2> QED
    BY <1>1, <2>2, <2>3, <2>4, <2>5 DEF EntriesInPlace
<1> HIDE DEF c, own
<1>5. CatalogueAndTools'
  BY <1>1 DEF FilesInv, CatalogueAndTools, restVars
<1>6. \A g \in FilesAt(n) : g \in HarnessFiles /\ \E k \in PlacesAt(n) : g = FileAt(n, k)
  BY FilesOfTurn
<1>7. NamesIt(f)' /\ \A g \in HarnessFiles : NamesIt(g) => NamesIt(g)'
  BY <1>1, <1>2, <1>3 DEF NamesIt
<1>8. ASSUME NEW m \in Turns, m # n
      PROVE  \A g \in FilesAt(m) : homeFile'[g] = homeFile[g] /\ (g \in changed' <=> g \in changed)
  <2>1. f \notin FilesAt(m) /\ FilesAt(m) \subseteq HarnessFiles
    BY <1>8, TurnsApart, FilesOfTurn
  <2> QED
    BY <2>1, <1>1, <1>3
<1>9. CASE job[j].left # {i}
  <2> DEFINE left == job[j].left \ {i}
             r == [job[j] EXCEPT !.left = left]
  <2>1. job' = [job EXCEPT ![j] = r]
    <3>1. job' = [job EXCEPT ![j] = IF left # {} THEN r ELSE Onward(j)]
      BY <1>p DEF WriteHome
    <3>2. left # {}
      BY <1>9, <1>p
    <3> QED
      BY <3>1, <3>2
  <2>2. /\ r \in Task /\ r.at = "writing" /\ r.harness = n /\ r.want = gatewayConfig
        /\ r.left = left /\ r.read = job[j].read
    BY <1>n, <1>a, JobIs DEF Task
  <2> HIDE DEF r
  <2>3. job' \in [Jobs -> Task] /\ job'[j] = r /\ \A k \in Jobs : k # j => job'[k] = job[k]
    BY <2>1, <2>2 DEF FilesInv, FilesTypes
  <2>4. ReadIsTrue(j)'
    <3>1. ReadIsTrue(j)
      BY DEF FilesInv
    <3>2. left # {} /\ left \subseteq PlacesAt(n)
      BY <3>1, <1>9, <1>n, <1>a, <1>p DEF ReadIsTrue
    <3>3. ASSUME NEW k \in PlacesAt(n)
          PROVE  IF k \in left THEN job[j].read[FileAt(n, k)] = homeFile'[FileAt(n, k)]
                               ELSE NamesIt(FileAt(n, k))'
      <4>1. FileAt(n, k) \in HarnessFiles
        BY FilesOfTurn
      <4>2. CASE k = i
        BY <4>2, <1>f, <1>7
      <4>3. CASE k # i
        <5>1. FileAt(n, k) # f
          BY <4>3, <1>f, FilesApart
        <5>2. homeFile'[FileAt(n, k)] = homeFile[FileAt(n, k)]
          BY <5>1, <4>1, <1>3
        <5>3. IF k \in job[j].left THEN job[j].read[FileAt(n, k)] = homeFile[FileAt(n, k)]
                                   ELSE NamesIt(FileAt(n, k))
          BY <3>1, <1>n, <1>a DEF ReadIsTrue
        <5> QED
          BY <5>2, <5>3, <4>1, <4>3, <1>7
      <4> QED
        BY <4>2, <4>3
    <3>4. job[j].read \in [FilesAt(n) -> Content] /\ (j \notin Setters => FilesAt(n) \cap changed' = {})
      BY <3>1, <1>n, <1>a, <1>1 DEF ReadIsTrue
    <3>5. gatewayConfig # NoEndpoint /\ gatewayConfig' = gatewayConfig
      BY <1>a, <1>1, GatewaysAre
    <3>6. /\ job'[j].harness = n /\ job'[j].want = gatewayConfig /\ job'[j].left = left
          /\ job'[j].read = job[j].read
      BY <2>2, <2>3
    <3> HIDE DEF left
    <3> QED
      BY <3>2, <3>3, <3>4, <3>5, <3>6 DEF ReadIsTrue
  <2>k. j # KeySaving
    <3>1. j = KeySaving => n = 1 /\ job[j].left \subseteq {1}
      BY <1>n, <1>a, FilesAtAre DEF FilesInv, OneJob, ReadIsTrue
    <3> QED
      BY <3>1, <1>p, <1>9
  <2>5. OneJob' /\ \A k \in Jobs : ReadIsTrue(k)'
    BY <2>2, <2>3, <2>4, <2>k, <1>1, <1>a, JobMoves
  <2>6. \A k \in Jobs, m \in Turns : SeesTo(k, m)' <=> SeesTo(k, m)
    BY <2>2, <2>3, <1>n, <1>a DEF SeesTo
  <2>7. SeesTo(j, n)' /\ j \in Jobs \ {KeySaving}
    BY <1>n, <1>a, <2>2, <2>3, <2>k, HarnessesInOrder DEF SeesTo
  <2>8. ASSUME NEW m \in Turns
        PROVE  NoneOutdated(m)' /\ Follows(m)'
    <3>1. NoneOutdated(m) /\ Follows(m)
      BY DEF FilesInv
    <3>2. CASE m # n
      BY <1>1, <1>8, <2>6, <3>1, <3>2, SeersStay
    <3>3. CASE m = n
      <4>1. Follows(m)'
        BY <2>7, <3>3 DEF Follows, SeenTo
      <4>2. CASE j \in Setters
        BY <2>7, <3>3, <4>1, <4>2 DEF NoneOutdated
      <4>3. CASE j \notin Setters
        <5>1. \A k \in Setters : ~SeesTo(k, n) /\ k \in Jobs
          BY <1>a, <4>3, OnlyJob DEF SeesTo, Jobs
        <5>2. \A g \in FilesAt(n) : Drifted(g, homeFile'[g], gatewayConfig) => g \in changed'
          BY <1>0, <1>1, <1>3, <1>6, <3>1, <3>3, <5>1, <1>a, GatewaysAre DEF NoneOutdated
        <5>3. NoneOutdated(m)'
          BY <1>1, <3>3, <5>2 DEF NoneOutdated
        <5> QED
          BY <4>1, <5>3
      <4> QED
        BY <4>2, <4>3
    <3> QED
      BY <3>2, <3>3
  <2> QED
    BY <2>3, <2>5, <2>8, <1>1, <1>3, <1>4, <1>5 DEF FilesInv, FilesTypes, restVars
<1>10. CASE job[j].left = {i}
  <2>1. job' = [job EXCEPT ![j] = Onward(j)]
    <3>1. job[j].left \ {FirstLeft(j)} = {}
      BY <1>10, <1>p
    <3> QED
      BY <3>1 DEF WriteHome
  <2>2. /\ job' \in [Jobs -> Task] /\ (\A k \in Jobs : k # j => job'[k] = job[k])
        /\ job'[j].at \in {"reading", IF j = Startup THEN "injected" ELSE "idle"}
        /\ j = KeySaving => job'[j].at = "idle"
        /\ \A k \in Jobs \ {KeySaving}, m \in Turns : SeesTo(k, m)' <=> SeesTo(k, m) /\ ~(k = j /\ m = n)
    BY <2>1, <1>n, <1>a, OnwardIs, ZenonT(30)
  <2>3. ReadIsTrue(j)'
    BY <2>2 DEF ReadIsTrue
  <2>4. OneJob' /\ \A k \in Jobs : ReadIsTrue(k)'
    BY <2>2, <2>3, <1>1, <1>a, JobMoves
  <2>5. \A g \in FilesAt(n) : NamesIt(g)'
    <3> SUFFICES ASSUME NEW k \in PlacesAt(n) PROVE NamesIt(FileAt(n, k))'
      BY <1>6
    <3>1. FileAt(n, k) \in HarnessFiles
      BY FilesOfTurn
    <3>2. CASE k = i
      BY <3>2, <1>f, <1>7
    <3>3. CASE k # i
      <4>1. NamesIt(FileAt(n, k))
        BY <3>3, <1>10, <1>n, <1>a DEF FilesInv, ReadIsTrue
      <4> QED
        BY <4>1, <3>1, <1>7
    <3> QED
      BY <3>2, <3>3
  <2>6. ASSUME NEW m \in Turns
        PROVE  NoneOutdated(m)' /\ Follows(m)'
    <3>1. NoneOutdated(m) /\ Follows(m)
      BY DEF FilesInv
    <3>2. CASE m = n
      <4>1. \A g \in FilesAt(n) : ~Drifted(g, homeFile'[g], gatewayConfig)
        BY <1>1, <1>3, <1>6, <1>a, <2>5, AgreesOrNot DEF NamesIt
      <4> QED
        BY <1>1, <2>5, <3>2, <4>1 DEF NoneOutdated, Follows
    <3>3. CASE m # n
      <4>1. \A k \in Jobs \ {KeySaving} : SeesTo(k, m)' <=> SeesTo(k, m)
        BY <2>2, <3>3
      <4> QED
        BY <1>1, <1>8, <3>1, <3>3, <4>1, SeersStay
    <3> QED
      BY <3>2, <3>3
  <2> QED
    BY <2>2, <2>4, <2>6, <1>1, <1>3, <1>4, <1>5 DEF FilesInv, FilesTypes, restVars
<1> QED
  BY <1>9, <1>10

LEMMA FilesStarts == FilesInit => FilesInv
<1> SUFFICES ASSUME FilesInit PROVE FilesInv
  OBVIOUS
<1> USE DEF FilesInit
<1>1. \A j \in Jobs : job[j] = NoJob /\ job[j].at = "idle"
  BY IdleJob
<1>2. NoFile \in Content
  BY DEF NoFile, Content, Gateway
<1>3. \A f \in HarnessFiles : homeFile[f] = NoFile
  OBVIOUS
<1>4. FilesTypes
  <2>1. job \in [Jobs -> Task] /\ homeFile \in [HarnessFiles -> Content] /\ backup \in [HarnessFiles -> BOOLEAN]
    BY <1>2, IdleJob
  <2> QED
    BY <2>1 DEF FilesTypes, Gateway
<1>5. OneJob /\ (\A j \in Jobs : ReadIsTrue(j)) /\ CatalogueAndTools
  BY <1>1 DEF OneJob, Configuring, Jobs, ReadIsTrue, CatalogueAndTools
<1>6. EntriesInPlace
  BY <1>2, <1>3, GatewaysAre DEF EntriesInPlace
<1>7. \A n \in Turns : NoneOutdated(n) /\ Follows(n)
  BY <1>2, <1>3, FilesOfTurn DEF NoneOutdated, Follows
<1> QED
  BY <1>4, <1>5, <1>6, <1>7 DEF FilesInv

LEMMA FilesStep ==
  ASSUME FilesInv, Barred(FilesRaces), FilesNext \/ UNCHANGED filesVars
  PROVE  FilesInv'
<1>1. ASSUME NEW c \in Setters, SetConfig(c) PROVE FilesInv'
  BY <1>1, SetConfigKeeps
<1>2. ASSUME NEW j \in Jobs, ReadHome(j) \/ WriteHome(j) PROVE FilesInv'
  BY <1>2, ReadHomeKeeps, WriteHomeKeeps
<1>3. CASE StartUp \/ PrepareHomes \/ HomesFail \/ HomesReady \/ Serving \/ DaemonEnds
  BY <1>3, StartingKeeps, HomesPhaseKeeps, DaemonEndsKeeps
<1>4. ASSUME NEW h \in Harnesses, RegisterHarness(h) \/ RegistrationFails(h) PROVE FilesInv'
  BY <1>4, CatalogueKeeps
<1>5. ASSUME NEW f \in HarnessFiles, AddOwn(f) \/ ChangeManaged(f) \/ Break(f) PROVE FilesInv'
  BY <1>5, HandKeeps
<1>6. CASE SaveKey \/ EditGateway \/ ToggleExposure \/ AskModels \/ KeepModels \/ DropModels
  BY <1>6, CatalogueKeeps, SaveKeyKeeps, EditGatewayKeeps
<1>7. CASE UNCHANGED filesVars
  <2>1. HomesAsTheyWere /\ UNCHANGED <<cached, exposure, inForce, registered, registering, fetching>>
    BY <1>7 DEF filesVars, HomesAsTheyWere
  <2>2. FilesTypes' /\ CatalogueAndTools'
    BY <2>1 DEF FilesInv, FilesTypes, CatalogueAndTools, HomesAsTheyWere
  <2> QED
    BY <2>1, <2>2, HomesStay DEF FilesInv
<1> QED
  BY <1>1, <1>2, <1>3, <1>4, <1>5, <1>6, <1>7 DEF FilesNext

LEMMA FilesAreSound == FilesInv => HarnessesConfigured
<1> SUFFICES ASSUME FilesInv PROVE HarnessesConfigured
  OBVIOUS
<1>1. UserEntriesKept
  BY DEF FilesInv, EntriesInPlace, UserEntriesKept
<1>2. ASSUME phase = "serving", Configuring = {}, gatewayConfig # NoEndpoint, ~byHand, NEW h \in Harnesses,
             \A f \in FilesOfHarness(h) : f \notin changed /\ homeFile[f].form # "broken",
             NEW f \in FilesOfHarness(h)
      PROVE  Agrees(f, homeFile[f], gatewayConfig)
  <2>1. PICK n \in Turns : h = HarnessOrder[n]
    BY DEF Harnesses, Turns
  <2>2. Follows(n) /\ SeenTo(n)
    BY <1>2, NoJobs DEF FilesInv, SeesTo, SeenTo
  <2> QED
    BY <1>2, <2>1, <2>2 DEF Follows, FilesAt, ByItself, NamesIt
<1> QED
  BY <1>1, <1>2 DEF HarnessesConfigured, HarnessesFollow, FilesInv, CatalogueAndTools

-----------------------------------------------------------------------------
(* The installed versions *)

InstallerRaces == {"torn", "two", "started", "forced", "busy"}

Version == Bundles \cup {NoVersion}
InstallSteps  == {"idle", "guarded", "copying", "copied", "placed", "switched", "pruning", "removing"}

InstallerTypes ==
  /\ installed \in [Bundles -> {"none", "torn", "whole"}]
  /\ partials \in [Bundles -> [by : Installers \cup {0}, done : BOOLEAN]]
  /\ byTime \in Seq(Bundles)
  /\ inUse \in Version /\ runningFrom \in Version /\ leftFor \in Version
  /\ rolledTo \in [got : Version, wanted : Version]
  /\ installer \in [Installers -> [at : InstallSteps, bundle : Version, doomed : SUBSET Bundles, removing : Version]]

(* One installer works, and what is idle remembers nothing. *)
OneAtATime ==
  /\ \A i, k \in Working : i = k
  /\ \A i \in Installers : installer[i].at = "idle" => installer[i] = NotStarted

(* The list of the directories has every version there is once, and nothing else. *)
ListedOnce ==
  /\ \A k, l \in DOMAIN byTime : byTime[k] = byTime[l] => k = l
  /\ \A b \in Bundles : (installed[b] # "none") <=> (\E k \in DOMAIN byTime : byTime[k] = b)

(* A version is incomplete only while its removal is under way. *)
TornIsGoing ==
  \A b \in Bundles : installed[b] = "torn" =>
    \E i \in Installers : installer[i].at = "removing" /\ installer[i].removing = b

Kept(v) == v = NoVersion \/ installed[v] = "whole"

(* The copy is the installer's own, and complete before it is renamed. *)
CopyIsOwn(i) ==
  LET b == installer[i].bundle IN
  /\ installer[i].at \in {"copying", "copied"} =>
       /\ installed[b] = "none" /\ partials[b].by = i
       /\ installer[i].at = "copied" => partials[b].done
  /\ installer[i].at \in {"placed", "switched"} => installed[b] = "whole"

(* Until the switch nothing runs; after it, what is installed is in use, and what runs runs from it. *)
SwitchesOwn(i) ==
  LET b == installer[i].bundle IN
  /\ installer[i].at # "idle" => b \in Bundles
  /\ installer[i].at \in BeforeSwitch => runningFrom = NoVersion
  /\ installer[i].at \in {"switched", "pruning", "removing"} =>
       inUse = b /\ runningFrom \in {NoVersion, inUse}

Others == Bundles \ {inUse}
WantsOther == leftFor # NoVersion /\ KeepVersions > 1

(* There is another version to go to, ... *)
HasOther == WantsOther => \E c \in Others : installed[c] = "whole"

(* ... and what is removed is neither this one nor the one in use. *)
OldIsDoomed(i) ==
  LET goes == installer[i].doomed
                \cup (IF installer[i].at = "removing" THEN {installer[i].removing} ELSE {})
  IN
  /\ installer[i].at \in {"pruning", "removing"} =>
       /\ inUse \notin goes
       /\ WantsOther => \E c \in Others : c \notin goes /\ installed[c] = "whole"
  /\ installer[i].at = "removing" => installer[i].removing \in Bundles

InstallerInv ==
  /\ InstallerTypes /\ OneAtATime /\ ListedOnce /\ TornIsGoing
  /\ Kept(inUse) /\ Kept(runningFrom) /\ HasOther
  /\ \A i \in Installers : CopyIsOwn(i) /\ SwitchesOwn(i) /\ OldIsDoomed(i)

LEMMA InstallerRacesBarred ==
  ASSUME Barred(InstallerRaces)
  PROVE  /\ ~Allows("torn") /\ ~Allows("two") /\ ~Allows("started")
         /\ ~Allows("forced") /\ ~Allows("busy")
BY DEF Barred, InstallerRaces, Allows

Once(s) == \A k, l \in DOMAIN s : s[k] = s[l] => k = l

(* The list without one version: the others are in it once, and nothing else. *)
LEMMA ListWithout ==
  ASSUME byTime \in Seq(Bundles), Once(byTime), NEW b \in Bundles
  PROVE  /\ ButFor(b) \in Seq(Bundles) /\ Once(ButFor(b))
         /\ \A c \in Bundles : (\E k \in DOMAIN ButFor(b) : ButFor(b)[k] = c)
                                 <=> c # b /\ (\E k \in DOMAIN byTime : byTime[k] = c)
<1>1. CASE b \notin ToSet(byTime)
  BY <1>1 DEF ButFor, ToSet
<1>2. CASE b \in ToSet(byTime)
  <2> DEFINE p == CHOOSE k \in DOMAIN byTime : byTime[k] = b
             n == Len(byTime)
             s == [k \in 1..(n - 1) |-> byTime[IF k < p THEN k ELSE k + 1]]
  <2>1. \E k \in DOMAIN byTime : byTime[k] = b
    BY <1>2 DEF ToSet
  <2>2. p \in DOMAIN byTime /\ byTime[p] = b
    BY <2>1
  <2>3. ButFor(b) = s
    BY <1>2 DEF ButFor
  <2>4. n \in Nat /\ DOMAIN byTime = 1..n /\ (\A k \in 1..n : byTime[k] \in Bundles)
    OBVIOUS
  <2> HIDE DEF p, n
  <2>5. /\ n - 1 \in Nat /\ p \in 1..n
        /\ \A k \in 1..(n - 1) : (IF k < p THEN k ELSE k + 1) \in 1..n
    BY <2>2, <2>4
  <2>6. s \in Seq(Bundles) /\ DOMAIN s = 1..(n - 1)
    <3>1. \A k \in 1..(n - 1) : byTime[IF k < p THEN k ELSE k + 1] \in Bundles
      BY <2>4, <2>5
    <3>2. s \in [1..(n - 1) -> Bundles]
      BY <3>1
    <3> QED
      BY <3>2, <2>4, <2>5
  <2>7. Once(s)
    <3> SUFFICES ASSUME NEW k \in 1..(n - 1), NEW l \in 1..(n - 1), s[k] = s[l]
                 PROVE  k = l
      BY <2>6 DEF Once
    <3>1. byTime[IF k < p THEN k ELSE k + 1] = byTime[IF l < p THEN l ELSE l + 1]
      OBVIOUS
    <3>2. (IF k < p THEN k ELSE k + 1) = (IF l < p THEN l ELSE l + 1)
      BY <3>1, <2>4, <2>5 DEF Once
    <3> QED
      BY <3>2, <2>4, <2>5
  <2>8. ASSUME NEW c \in Bundles, NEW k \in DOMAIN s, s[k] = c
        PROVE  c # b /\ \E l \in DOMAIN byTime : byTime[l] = c
    <3>1. byTime[IF k < p THEN k ELSE k + 1] = c /\ (IF k < p THEN k ELSE k + 1) \in 1..n
      BY <2>5, <2>6, <2>8
    <3>2. (IF k < p THEN k ELSE k + 1) # p
      BY <2>5, <2>6
    <3> QED
      BY <3>1, <3>2, <2>2, <2>4 DEF Once
  <2>9. ASSUME NEW c \in Bundles, c # b, NEW l \in DOMAIN byTime, byTime[l] = c
        PROVE  \E k \in DOMAIN s : s[k] = c
    <3>1. l # p /\ l \in 1..n
      BY <2>2, <2>4, <2>9
    <3>2. CASE l < p
      <4>1. l \in 1..(n - 1) /\ s[l] = c
        BY <3>1, <3>2, <2>4, <2>5, <2>9
      <4> QED
        BY <4>1, <2>6
    <3>3. CASE l > p
      <4>1. l - 1 \in 1..(n - 1) /\ ~(l - 1 < p) /\ (l - 1) + 1 = l
        BY <3>1, <3>3, <2>4, <2>5
      <4>2. s[l - 1] = c
        BY <4>1, <2>9
      <4> QED
        BY <4>1, <4>2, <2>6
    <3> QED
      BY <3>1, <3>2, <3>3, <2>5
  <2> HIDE DEF s
  <2> QED
    BY <2>3, <2>6, <2>7, <2>8, <2>9
<1> QED
  BY <1>1, <1>2

(* A version put before the others. *)
LEMMA ListWith ==
  ASSUME NEW s \in Seq(Bundles), Once(s), NEW b \in Bundles, \A k \in DOMAIN s : s[k] # b
  PROVE  /\ <<b>> \o s \in Seq(Bundles) /\ Once(<<b>> \o s)
         /\ \A c \in Bundles : (\E k \in DOMAIN (<<b>> \o s) : (<<b>> \o s)[k] = c)
                                 <=> c = b \/ (\E k \in DOMAIN s : s[k] = c)
         /\ Len(<<b>> \o s) = Len(s) + 1
         /\ \A k \in DOMAIN s : (<<b>> \o s)[k + 1] = s[k]
<1> DEFINE t == <<b>> \o s
<1>1. /\ t \in Seq(Bundles) /\ Len(t) = Len(s) + 1 /\ t[1] = b
      /\ \A k \in 1..Len(s) : t[k + 1] = s[k]
  OBVIOUS
<1>2. DOMAIN t = 1..(Len(s) + 1) /\ DOMAIN s = 1..Len(s) /\ Len(s) \in Nat
  BY <1>1
<1> HIDE DEF t
<1>3. \A k \in 2..(Len(s) + 1) : k - 1 \in 1..Len(s) /\ t[k] = s[k - 1]
  BY <1>1, <1>2
<1>4. \A k \in DOMAIN t : k = 1 \/ k \in 2..(Len(s) + 1)
  BY <1>2
<1>5. Once(t)
  <2> SUFFICES ASSUME NEW k \in DOMAIN t, NEW l \in DOMAIN t, t[k] = t[l]
               PROVE  k = l
    BY DEF Once
  <2>1. CASE k = 1 \/ l = 1
    <3>1. \A m \in DOMAIN t : m # 1 => t[m] # t[1]
      <4> SUFFICES ASSUME NEW m \in DOMAIN t, m # 1 PROVE t[m] # t[1]
        OBVIOUS
      <4>1. m - 1 \in DOMAIN s /\ t[m] = s[m - 1]
        BY <1>2, <1>3, <1>4
      <4> QED
        BY <4>1, <1>1
    <3> QED
      BY <3>1, <2>1
  <2>2. CASE k # 1 /\ l # 1
    <3>1. k - 1 \in DOMAIN s /\ l - 1 \in DOMAIN s /\ s[k - 1] = s[l - 1]
      BY <2>2, <1>2, <1>3, <1>4
    <3>2. k - 1 = l - 1
      BY <3>1 DEF Once
    <3> QED
      BY <3>2, <1>2
  <2> QED
    BY <2>1, <2>2
<1>6. ASSUME NEW c \in Bundles
      PROVE  (\E k \in DOMAIN t : t[k] = c) <=> c = b \/ (\E k \in DOMAIN s : s[k] = c)
  <2>1. ASSUME NEW k \in DOMAIN s, s[k] = c PROVE \E l \in DOMAIN t : t[l] = c
    <3>1. k + 1 \in DOMAIN t /\ t[k + 1] = c
      BY <2>1, <1>1, <1>2
    <3> QED
      BY <3>1
  <2>2. 1 \in DOMAIN t
    BY <1>2
  <2>3. ASSUME NEW k \in DOMAIN t, t[k] = c PROVE c = b \/ \E l \in DOMAIN s : s[l] = c
    <3>1. CASE k = 1
      BY <2>3, <3>1, <1>1
    <3>2. CASE k # 1
      <4>1. k - 1 \in DOMAIN s /\ s[k - 1] = c
        BY <2>3, <3>2, <1>2, <1>3, <1>4
      <4> QED
        BY <4>1
    <3> QED
      BY <3>1, <3>2
  <2> QED
    BY <2>1, <2>2, <2>3, <1>1
<1> QED
  BY <1>1, <1>2, <1>5, <1>6 DEF t

Installation == [at : InstallSteps, bundle : Version, doomed : SUBSET Bundles, removing : Version]

LEMMA InstallationSet ==
  ASSUME NEW e \in Installation, NEW a \in InstallSteps, NEW d \in SUBSET Bundles, NEW v \in Version,
         NEW r, r = [e EXCEPT !.at = a, !.doomed = d, !.removing = v]
  PROVE  r \in Installation /\ r.at = a /\ r.bundle = e.bundle /\ r.doomed = d /\ r.removing = v
BY DEF Installation

(* The installer that works is the only one, and nothing is incomplete but what it removes. *)
LEMMA Alone ==
  ASSUME InstallerInv, NEW i \in Installers, Working = {} \/ i \in Working
  PROVE  /\ \A k \in Installers : k # i => installer[k] = NotStarted
         /\ installer[i].at # "removing" => \A b \in Bundles : installed[b] # "torn"
<1>1. \A k \in Installers : k # i => installer[k].at = "idle"
  BY DEF InstallerInv, OneAtATime, Working
<1>2. \A k \in Installers : k # i => installer[k] = NotStarted
  BY <1>1 DEF InstallerInv, OneAtATime
<1> QED
  BY <1>1, <1>2 DEF InstallerInv, TornIsGoing

LEMMA NobodyWorks ==
  ASSUME InstallerInv, Working = {}
  PROVE  /\ \A k \in Installers : installer[k] = NotStarted
         /\ \A b \in Bundles : installed[b] # "torn"
BY DEF InstallerInv, OneAtATime, Working, TornIsGoing

(* What the others would have to be is true of what is idle. *)
LEMMA IdleIsSound ==
  ASSUME NEW k \in Installers, installer'[k] = NotStarted
  PROVE  CopyIsOwn(k)' /\ SwitchesOwn(k)' /\ OldIsDoomed(k)'
<1>1. installer'[k].at = "idle"
  BY DEF NotStarted
<1> QED
  BY <1>1 DEF CopyIsOwn, SwitchesOwn, OldIsDoomed, BeforeSwitch

(* A step of one installer: it is the one that works, and the others are as they were. *)
LEMMA OneMoves ==
  ASSUME InstallerInv, NEW i \in Installers, Working = {} \/ i \in Working,
         NEW r \in Installation, installer' = [installer EXCEPT ![i] = r], r.at = "idle" => r = NotStarted
  PROVE  /\ installer' \in [Installers -> Installation] /\ OneAtATime' /\ installer'[i] = r
         /\ \A k \in Installers : k # i => installer'[k] = NotStarted
         /\ \A k \in Installers : k # i => CopyIsOwn(k)' /\ SwitchesOwn(k)' /\ OldIsDoomed(k)'
<1>1. installer \in [Installers -> Installation]
  BY DEF InstallerInv, InstallerTypes, Installation
<1>2. installer' \in [Installers -> Installation] /\ installer'[i] = r
  BY <1>1
<1>3. \A k \in Installers : k # i => installer'[k] = NotStarted
  BY <1>1, Alone
<1>4. \A k \in Installers : k # i => CopyIsOwn(k)' /\ SwitchesOwn(k)' /\ OldIsDoomed(k)'
  BY <1>3, IdleIsSound
<1>5. \A k \in Installers : k # i => installer'[k].at = "idle"
  BY <1>3 DEF NotStarted
<1>6. OneAtATime'
  BY <1>2, <1>3, <1>5 DEF OneAtATime, Working
<1> QED
  BY <1>2, <1>3, <1>4, <1>6

LEMMA GuardKeeps ==
  ASSUME InstallerInv, Barred(InstallerRaces), NEW i \in Installers, NEW b \in Bundles, Guard(i, b)
  PROVE  InstallerInv'
<1> DEFINE r == [installer[i] EXCEPT !.at = "guarded", !.bundle = b]
<1>1. /\ Working = {} /\ runningFrom = NoVersion
      /\ installer' = [installer EXCEPT ![i] = r]
      /\ UNCHANGED <<installed, partials, byTime, inUse, runningFrom, leftFor, rolledTo>>
  BY InstallerRacesBarred DEF Guard
<1>2. r \in Installation /\ r.at = "guarded" /\ r.bundle = b
  BY ZenonT(30) DEF InstallerInv, InstallerTypes, Installation, InstallSteps, Version
<1> HIDE DEF r
<1>3. /\ installer' \in [Installers -> Installation] /\ OneAtATime' /\ installer'[i] = r
      /\ \A k \in Installers : k # i => CopyIsOwn(k)' /\ SwitchesOwn(k)' /\ OldIsDoomed(k)'
  BY <1>1, <1>2, OneMoves
<1>4. CopyIsOwn(i)' /\ OldIsDoomed(i)'
  BY <1>2, <1>3 DEF CopyIsOwn, OldIsDoomed
<1>5. SwitchesOwn(i)'
  BY <1>1, <1>2, <1>3 DEF SwitchesOwn
<1>6. TornIsGoing'
  BY <1>1, NobodyWorks DEF TornIsGoing
<1>7. InstallerTypes'
  BY <1>1, <1>3 DEF InstallerInv, InstallerTypes, Installation, Version
<1>8. ListedOnce' /\ Kept(inUse)' /\ Kept(runningFrom)' /\ HasOther'
  BY <1>1 DEF InstallerInv, ListedOnce, Kept, HasOther, WantsOther, Others
<1> QED
  BY <1>1, <1>3, <1>4, <1>5, <1>6, <1>7, <1>8 DEF InstallerInv

(* The steps that leave the versions alone keep what is said of them. *)
VersionsAsTheyWere == UNCHANGED <<installed, byTime, inUse, runningFrom, leftFor, rolledTo>>

LEMMA VersionsStay ==
  ASSUME InstallerInv, VersionsAsTheyWere, NEW i \in Installers, i \in Working,
         installer[i].at # "removing"
  PROVE  ListedOnce' /\ TornIsGoing' /\ Kept(inUse)' /\ Kept(runningFrom)' /\ HasOther'
<1>1. \A b \in Bundles : installed[b] # "torn"
  BY Alone
<1> QED
  BY <1>1 DEF InstallerInv, VersionsAsTheyWere, ListedOnce, TornIsGoing, Kept, HasOther, WantsOther, Others

LEMMA BeginCopyKeeps ==
  ASSUME InstallerInv, Barred(InstallerRaces), NEW i \in Installers, BeginCopy(i)
  PROVE  InstallerInv'
<1> DEFINE b == installer[i].bundle
           to == IF installed[b] # "none" THEN "placed" ELSE "copying"
           r == [installer[i] EXCEPT !.at = to]
<1>1. /\ installer[i].at = "guarded" /\ VersionsAsTheyWere
      /\ installer' = [installer EXCEPT ![i] = r]
      /\ partials' = IF installed[b] # "none" THEN partials
                     ELSE [partials EXCEPT ![b] = [by |-> i, done |-> FALSE]]
  BY DEF BeginCopy, Moves, VersionsAsTheyWere
<1>2. b \in Bundles /\ i \in Working
  BY <1>1 DEF InstallerInv, SwitchesOwn, Working
<1>3. r \in Installation /\ r.at = to /\ r.bundle = b
  <2>1. installer[i] \in Installation
    BY DEF InstallerInv, InstallerTypes, Installation
  <2>2. to \in InstallSteps
    BY DEF InstallSteps
  <2> HIDE DEF to
  <2> QED
    BY <2>1, <2>2 DEF Installation
<1>4. installed[b] \in {"none", "whole"} /\ partials' \in [Bundles -> [by : Installers \cup {0}, done : BOOLEAN]]
  BY <1>1, <1>2, Alone DEF InstallerInv, InstallerTypes
<1>5. installed[b] = "none" => partials'[b] = [by |-> i, done |-> FALSE]
  BY <1>1, <1>2 DEF InstallerInv, InstallerTypes
<1> HIDE DEF r, b
<1>6. /\ installer' \in [Installers -> Installation] /\ OneAtATime' /\ installer'[i] = r
      /\ \A k \in Installers : k # i => CopyIsOwn(k)' /\ SwitchesOwn(k)' /\ OldIsDoomed(k)'
  BY <1>1, <1>2, <1>3, OneMoves
<1>7. CopyIsOwn(i)'
  BY <1>1, <1>3, <1>4, <1>5, <1>6 DEF CopyIsOwn, VersionsAsTheyWere
<1>8. OldIsDoomed(i)'
  BY <1>3, <1>6 DEF OldIsDoomed
<1>9. SwitchesOwn(i)'
  <2>1. SwitchesOwn(i)
    BY DEF InstallerInv
  <2> QED
    BY <2>1, <1>1, <1>2, <1>3, <1>6 DEF SwitchesOwn, VersionsAsTheyWere, BeforeSwitch, b
<1>10. InstallerTypes'
  BY <1>1, <1>4, <1>6 DEF InstallerInv, InstallerTypes, Installation, Version, VersionsAsTheyWere
<1> QED
  BY <1>1, <1>2, <1>6, <1>7, <1>8, <1>9, <1>10, VersionsStay DEF InstallerInv

LEMMA EndCopyKeeps ==
  ASSUME InstallerInv, Barred(InstallerRaces), NEW i \in Installers, EndCopy(i)
  PROVE  InstallerInv'
<1> DEFINE b == installer[i].bundle
           r == [installer[i] EXCEPT !.at = "copied"]
<1>a. installer[i].at = "copying" /\ VersionsAsTheyWere
  BY DEF EndCopy, VersionsAsTheyWere
<1>2. b \in Bundles /\ i \in Working
  BY <1>a DEF InstallerInv, SwitchesOwn, Working
<1>1. /\ installed[b] = "none" /\ partials[b].by = i
      /\ installer' = [installer EXCEPT ![i] = r]
      /\ partials' = [partials EXCEPT ![b].done = TRUE]
  BY <1>a DEF EndCopy, Moves, InstallerInv, CopyIsOwn
<1>3. r \in Installation /\ r.at = "copied" /\ r.bundle = b
  BY DEF InstallerInv, InstallerTypes, Installation, InstallSteps
<1>4. /\ partials' \in [Bundles -> [by : Installers \cup {0}, done : BOOLEAN]]
      /\ partials'[b].by = i /\ partials'[b].done
  BY <1>a, <1>1, <1>2, ZenonT(30) DEF InstallerInv, InstallerTypes
<1> HIDE DEF r, b
<1>6. /\ installer' \in [Installers -> Installation] /\ OneAtATime' /\ installer'[i] = r
      /\ \A k \in Installers : k # i => CopyIsOwn(k)' /\ SwitchesOwn(k)' /\ OldIsDoomed(k)'
  BY <1>a, <1>1, <1>2, <1>3, OneMoves
<1>7. CopyIsOwn(i)'
  BY <1>a, <1>1, <1>3, <1>4, <1>6 DEF CopyIsOwn, VersionsAsTheyWere
<1>8. OldIsDoomed(i)'
  BY <1>3, <1>6 DEF OldIsDoomed
<1>9. SwitchesOwn(i)'
  <2>1. SwitchesOwn(i)
    BY DEF InstallerInv
  <2> QED
    BY <2>1, <1>a, <1>1, <1>2, <1>3, <1>6 DEF SwitchesOwn, VersionsAsTheyWere, BeforeSwitch, b
<1>10. InstallerTypes'
  BY <1>a, <1>1, <1>4, <1>6 DEF InstallerInv, InstallerTypes, Installation, Version, VersionsAsTheyWere
<1> QED
  BY <1>a, <1>1, <1>2, <1>6, <1>7, <1>8, <1>9, <1>10, VersionsStay DEF InstallerInv

LEMMA RenameKeeps ==
  ASSUME InstallerInv, Barred(InstallerRaces), NEW i \in Installers, Rename(i)
  PROVE  InstallerInv'
<1> DEFINE b == installer[i].bundle
           r == [installer[i] EXCEPT !.at = "placed"]
<1>a. installer[i].at = "copied" /\ i \in Working
  BY DEF Rename, Working
<1>b. b \in Bundles /\ installed[b] = "none" /\ partials[b].by = i /\ partials[b].done
  BY <1>a DEF InstallerInv, SwitchesOwn, Working, CopyIsOwn
<1>c. partials[b] # NoPartial /\ partials[b].done
  BY <1>b DEF NoPartial
<1>d. \A k \in DOMAIN byTime : byTime[k] # b
  BY <1>b DEF InstallerInv, ListedOnce
<1>e. ButFor(b) = byTime
  BY <1>d DEF ButFor, ToSet
<1>1. /\ installer' = [installer EXCEPT ![i] = r]
      /\ partials' = [partials EXCEPT ![b] = NoPartial]
      /\ installed' = [installed EXCEPT ![b] = "whole"]
      /\ byTime' = <<b>> \o byTime
      /\ UNCHANGED <<inUse, runningFrom, leftFor, rolledTo>>
  BY <1>b, <1>c, <1>e DEF Rename, Moves
<1>3. r \in Installation /\ r.at = "placed" /\ r.bundle = b
  BY DEF InstallerInv, InstallerTypes, Installation, InstallSteps
<1> HIDE DEF r, b
<1>6. /\ installer' \in [Installers -> Installation] /\ OneAtATime' /\ installer'[i] = r
      /\ \A k \in Installers : k # i => CopyIsOwn(k)' /\ SwitchesOwn(k)' /\ OldIsDoomed(k)'
  BY <1>1, <1>a, <1>3, OneMoves
<1>4. /\ partials' \in [Bundles -> [by : Installers \cup {0}, done : BOOLEAN]]
      /\ installed' \in [Bundles -> {"none", "torn", "whole"}] /\ installed'[b] = "whole"
      /\ \A c \in Bundles : c # b => installed'[c] = installed[c]
  BY <1>1, <1>b DEF InstallerInv, InstallerTypes, NoPartial
<1>5. byTime \in Seq(Bundles) /\ Once(byTime)
  BY DEF InstallerInv, InstallerTypes, ListedOnce, Once
<1>7. /\ byTime' \in Seq(Bundles) /\ Once(byTime')
      /\ \A c \in Bundles : (\E k \in DOMAIN byTime' : byTime'[k] = c)
                              <=> c = b \/ (\E k \in DOMAIN byTime : byTime[k] = c)
  <2>1. /\ <<b>> \o byTime \in Seq(Bundles) /\ Once(<<b>> \o byTime)
        /\ \A c \in Bundles : (\E k \in DOMAIN (<<b>> \o byTime) : (<<b>> \o byTime)[k] = c)
                                <=> c = b \/ (\E k \in DOMAIN byTime : byTime[k] = c)
    BY <1>5, <1>b, <1>d, ListWith
  <2>2. byTime' = <<b>> \o byTime
    BY <1>1
  <2> QED
    BY <2>1, <2>2
<1>8. ListedOnce'
  BY <1>4, <1>7, <1>b DEF InstallerInv, ListedOnce, Once
<1>9. \A c \in Bundles : installed'[c] # "torn"
  BY <1>a, <1>4, Alone
<1>10. Kept(inUse)' /\ Kept(runningFrom)' /\ HasOther'
  BY <1>1, <1>4, <1>b DEF InstallerInv, InstallerTypes, Kept, Version, HasOther, WantsOther, Others
<1>11. CopyIsOwn(i)' /\ OldIsDoomed(i)'
  BY <1>3, <1>4, <1>6 DEF CopyIsOwn, OldIsDoomed
<1>12. SwitchesOwn(i)'
  <2>1. SwitchesOwn(i)
    BY DEF InstallerInv
  <2> QED
    BY <2>1, <1>a, <1>1, <1>3, <1>6 DEF SwitchesOwn, BeforeSwitch, b
<1>13. InstallerTypes'
  BY <1>1, <1>4, <1>6, <1>7 DEF InstallerInv, InstallerTypes, Installation, Version
<1> QED
  BY <1>1, <1>6, <1>8, <1>9, <1>10, <1>11, <1>12, <1>13 DEF InstallerInv, TornIsGoing

LEMMA SwitchKeeps ==
  ASSUME InstallerInv, Barred(InstallerRaces), NEW i \in Installers, Switch(i)
  PROVE  InstallerInv'
<1> DEFINE b == installer[i].bundle
           r == [installer[i] EXCEPT !.at = "switched"]
<1>a. installer[i].at = "placed" /\ i \in Working
  BY DEF Switch, Working
<1>b. b \in Bundles /\ installed[b] = "whole" /\ runningFrom = NoVersion
  BY <1>a DEF InstallerInv, SwitchesOwn, CopyIsOwn, BeforeSwitch
<1>1. /\ installer' = [installer EXCEPT ![i] = r]
      /\ inUse' = b /\ leftFor' = CameFrom(b)
      /\ UNCHANGED <<installed, partials, byTime, runningFrom, rolledTo>>
  BY <1>b DEF Switch, MayFail, Switches, Moves
<1>3. r \in Installation /\ r.at = "switched" /\ r.bundle = b
  BY DEF InstallerInv, InstallerTypes, Installation, InstallSteps
<1> HIDE DEF r, b
<1>6. /\ installer' \in [Installers -> Installation] /\ OneAtATime' /\ installer'[i] = r
      /\ \A k \in Installers : k # i => CopyIsOwn(k)' /\ SwitchesOwn(k)' /\ OldIsDoomed(k)'
  BY <1>1, <1>a, <1>3, OneMoves
<1>7. leftFor' = IF inUse = b THEN leftFor ELSE inUse
  BY <1>1 DEF CameFrom
<1>8. Kept(inUse)' /\ Kept(runningFrom)' /\ HasOther'
  BY <1>1, <1>7, <1>b DEF InstallerInv, InstallerTypes, Version, Kept, HasOther, WantsOther, Others
<1>9. \A c \in Bundles : installed[c] # "torn"
  BY <1>a, Alone
<1>10. ListedOnce' /\ TornIsGoing'
  BY <1>1, <1>9 DEF InstallerInv, ListedOnce, TornIsGoing
<1>11. CopyIsOwn(i)' /\ OldIsDoomed(i)'
  BY <1>1, <1>3, <1>6, <1>b DEF CopyIsOwn, OldIsDoomed
<1>13. SwitchesOwn(i)'
  BY <1>1, <1>3, <1>6, <1>b DEF SwitchesOwn, BeforeSwitch
<1>14. InstallerTypes'
  BY <1>1, <1>6, <1>7, <1>b DEF InstallerInv, InstallerTypes, Installation, Version
<1> QED
  BY <1>1, <1>6, <1>8, <1>10, <1>11, <1>13, <1>14 DEF InstallerInv

(* Of the newest two, one is not in use; neither is doomed. *)
LEMMA OneIsSpared ==
  ASSUME InstallerInv, NEW i \in Installers, installer[i].at = "switched", NEW b, WantsOther,
         inUse \in Bundles
  PROVE  \E c \in Others : c \notin Doomed(b) /\ installed[c] = "whole"
<1>1. \A c \in Bundles : installed[c] # "torn"
  BY Alone DEF Working
<1>2. PICK o \in Others : installed[o] = "whole"
  BY DEF InstallerInv, HasOther
<1>3. byTime \in Seq(Bundles) /\ Once(byTime) /\ Len(byTime) \in Nat /\ DOMAIN byTime = 1..Len(byTime)
  BY DEF InstallerInv, InstallerTypes, ListedOnce, Once
<1>4. installed[inUse] = "whole"
  BY InstallerAssumption DEF InstallerInv, Kept, NoVersion
<1>5. PICK k \in DOMAIN byTime : byTime[k] = o
  BY <1>2 DEF InstallerInv, ListedOnce, Others
<1>6. PICK l \in DOMAIN byTime : byTime[l] = inUse
  BY <1>4 DEF InstallerInv, ListedOnce
<1>7. k # l
  BY <1>2, <1>5, <1>6 DEF Others
<1>8. Len(byTime) >= 2 /\ 1 \in DOMAIN byTime /\ 2 \in DOMAIN byTime
  BY <1>3, <1>5, <1>6, <1>7
<1>9. byTime[1] # byTime[2]
  BY <1>3, <1>8 DEF Once
<1>10. PICK m \in {1, 2} : byTime[m] # inUse
  BY <1>9
<1>11. m \in DOMAIN byTime /\ byTime[m] \in Bundles
  BY <1>3, <1>8, <1>10
<1>12. byTime[m] \in FirstOf(KeepVersions)
  <2>1. KeepVersions \in Nat /\ KeepVersions > 1
    BY InstallerAssumption DEF WantsOther
  <2>2. m \in 1..(IF KeepVersions < Len(byTime) THEN KeepVersions ELSE Len(byTime))
    BY <2>1, <1>3, <1>8, <1>10
  <2> QED
    BY <2>2 DEF FirstOf
<1>13. installed[byTime[m]] = "whole"
  BY <1>1, <1>11 DEF InstallerInv, InstallerTypes, ListedOnce
<1> QED
  BY <1>10, <1>11, <1>12, <1>13 DEF Doomed, Others

LEMMA PruneKeeps ==
  ASSUME InstallerInv, Barred(InstallerRaces), NEW i \in Installers, Prune(i)
  PROVE  InstallerInv'
<1> DEFINE b == installer[i].bundle
           d == Doomed(b)
           r == [installer[i] EXCEPT !.at = "pruning", !.doomed = d]
<1>a. installer[i].at = "switched" /\ i \in Working
  BY DEF Prune, Working
<1>b. /\ b \in Bundles /\ installed[b] = "whole" /\ inUse = b /\ runningFrom \in {NoVersion, inUse}
  BY <1>a DEF InstallerInv, SwitchesOwn, CopyIsOwn
<1>1. installer' = [installer EXCEPT ![i] = r] /\ partials' = partials /\ VersionsAsTheyWere
  BY <1>b DEF Prune, MayFail, VersionsAsTheyWere
<1>2. d \in SUBSET Bundles /\ inUse \notin d
  <2>1. byTime \in Seq(Bundles)
    BY DEF InstallerInv, InstallerTypes
  <2>2. \A k \in DOMAIN byTime : byTime[k] \in Bundles
    BY <2>1
  <2> QED
    BY <2>1, <2>2, <1>b DEF Doomed
<1>4. WantsOther => \E c \in Others : c \notin d /\ installed[c] = "whole"
  BY <1>a, <1>b, OneIsSpared
<1>3. r \in Installation /\ r.at = "pruning" /\ r.bundle = b /\ r.doomed = d
  <2> HIDE DEF d
  <2>1. installer[i] \in Installation /\ "pruning" \in InstallSteps
    BY DEF InstallerInv, InstallerTypes, Installation, InstallSteps
  <2> QED
    BY <2>1, <1>2 DEF Installation
<1> HIDE DEF r, b, d
<1>6. /\ installer' \in [Installers -> Installation] /\ OneAtATime' /\ installer'[i] = r
      /\ \A k \in Installers : k # i => CopyIsOwn(k)' /\ SwitchesOwn(k)' /\ OldIsDoomed(k)'
  BY <1>1, <1>a, <1>3, OneMoves
<1>7. CopyIsOwn(i)' /\ SwitchesOwn(i)'
  BY <1>1, <1>3, <1>6, <1>b DEF CopyIsOwn, SwitchesOwn, BeforeSwitch, VersionsAsTheyWere
<1>9. OldIsDoomed(i)'
  BY <1>1, <1>2, <1>3, <1>4, <1>6, <1>b DEF OldIsDoomed, WantsOther, Others, VersionsAsTheyWere
<1>8. InstallerTypes'
  BY <1>1, <1>6 DEF InstallerInv, InstallerTypes, Installation, Version, VersionsAsTheyWere
<1> QED
  BY <1>1, <1>6, <1>7, <1>8, <1>9, <1>a, VersionsStay DEF InstallerInv

LEMMA BeginRemoveKeeps ==
  ASSUME InstallerInv, Barred(InstallerRaces), NEW i \in Installers, NEW v \in Bundles, BeginRemove(i, v)
  PROVE  InstallerInv'
<1> DEFINE r == [installer[i] EXCEPT !.at = "removing", !.doomed = @ \ {v}, !.removing = v]
<1>a. /\ installer[i].at = "pruning" /\ i \in Working /\ v \in installer[i].doomed
      /\ inUse = installer[i].bundle /\ installer[i].bundle \in Bundles
      /\ inUse \notin installer[i].doomed /\ runningFrom \in {NoVersion, inUse}
      /\ WantsOther => \E c \in Others : c \notin installer[i].doomed /\ installed[c] = "whole"
  BY DEF BeginRemove, Working, InstallerInv, OldIsDoomed, SwitchesOwn
<1>1. /\ installer' = [installer EXCEPT ![i] = r]
      /\ installed' = [installed EXCEPT ![v] = IF installed[v] = "none" THEN "none" ELSE "torn"]
      /\ byTime' = IF installed[v] = "none" THEN byTime ELSE <<v>> \o ButFor(v)
      /\ UNCHANGED <<partials, inUse, runningFrom, leftFor, rolledTo>>
  BY DEF BeginRemove
<1>3. /\ r \in Installation /\ r.at = "removing" /\ r.bundle = installer[i].bundle /\ r.removing = v
      /\ r.doomed \cup {v} = installer[i].doomed
  <2>1. installer[i] \in Installation /\ "removing" \in InstallSteps /\ v \in Version
    BY DEF InstallerInv, InstallerTypes, Installation, InstallSteps, Version
  <2> DEFINE d == installer[i].doomed \ {v}
  <2>2. d \in SUBSET Bundles /\ d \cup {v} = installer[i].doomed
    BY <2>1, <1>a DEF Installation
  <2> HIDE DEF d
  <2>3. r = [installer[i] EXCEPT !.at = "removing", !.doomed = d, !.removing = v]
    BY DEF d
  <2> HIDE DEF r
  <2> QED
    BY <2>1, <2>2, <2>3 DEF Installation
<1> HIDE DEF r
<1>6. /\ installer' \in [Installers -> Installation] /\ OneAtATime' /\ installer'[i] = r
      /\ \A k \in Installers : k # i => CopyIsOwn(k)' /\ SwitchesOwn(k)' /\ OldIsDoomed(k)'
  BY <1>1, <1>a, <1>3, OneMoves
<1>4. /\ installed' \in [Bundles -> {"none", "torn", "whole"}]
      /\ \A c \in Bundles : c # v => installed'[c] = installed[c]
      /\ installed[v] = "none" <=> installed'[v] = "none"
  BY <1>1 DEF InstallerInv, InstallerTypes
<1>5. byTime \in Seq(Bundles) /\ Once(byTime)
  BY DEF InstallerInv, InstallerTypes, ListedOnce, Once
<1>7. ListedOnce' /\ byTime' \in Seq(Bundles)
  <2>1. CASE installed[v] = "none"
    BY <2>1, <1>1, <1>4, <1>5 DEF InstallerInv, ListedOnce
  <2>2. CASE installed[v] # "none"
    <3> DEFINE s == ButFor(v)
    <3>1. /\ s \in Seq(Bundles) /\ Once(s)
          /\ \A c \in Bundles : (\E k \in DOMAIN s : s[k] = c)
                                  <=> c # v /\ (\E k \in DOMAIN byTime : byTime[k] = c)
      BY <1>5, ListWithout
    <3>2. byTime' = <<v>> \o s
      BY <2>2, <1>1
    <3> HIDE DEF s
    <3>3. \A k \in DOMAIN s : s[k] # v
      BY <3>1
    <3>4. /\ byTime' \in Seq(Bundles) /\ Once(byTime')
          /\ \A c \in Bundles : (\E k \in DOMAIN byTime' : byTime'[k] = c)
                                  <=> c = v \/ (\E k \in DOMAIN s : s[k] = c)
      BY <3>1, <3>2, <3>3, ListWith
    <3> QED
      BY <3>1, <3>4, <2>2, <1>4 DEF InstallerInv, ListedOnce, Once
  <2> QED
    BY <2>1, <2>2
<1>8. TornIsGoing'
  <2>1. \A c \in Bundles : installed[c] # "torn"
    BY <1>a, Alone
  <2>2. \A c \in Bundles : installed'[c] = "torn" => c = v
    BY <2>1, <1>4
  <2> QED
    BY <2>2, <1>3, <1>6 DEF TornIsGoing
<1>9. Kept(inUse)' /\ Kept(runningFrom)'
  BY <1>1, <1>4, <1>a DEF InstallerInv, InstallerTypes, Kept, Version
<1>10. CopyIsOwn(i)' /\ SwitchesOwn(i)'
  BY <1>1, <1>3, <1>6, <1>a DEF CopyIsOwn, SwitchesOwn, BeforeSwitch
<1>c. WantsOther' => \E c \in Others' : c \notin installer[i].doomed /\ installed'[c] = "whole"
  BY <1>1, <1>4, <1>a DEF WantsOther, Others
<1>d. HasOther'
  BY <1>c DEF HasOther
<1>e. OldIsDoomed(i)'
  BY <1>1, <1>3, <1>6, <1>a, <1>c DEF OldIsDoomed
<1>11. InstallerTypes'
  BY <1>1, <1>4, <1>6, <1>7 DEF InstallerInv, InstallerTypes, Installation, Version
<1> QED
  BY <1>1, <1>6, <1>7, <1>8, <1>9, <1>10, <1>11, <1>d, <1>e DEF InstallerInv

LEMMA EndRemoveKeeps ==
  ASSUME InstallerInv, Barred(InstallerRaces), NEW i \in Installers, EndRemove(i)
  PROVE  InstallerInv'
<1> DEFINE v == installer[i].removing
           r == [installer[i] EXCEPT !.at = "pruning", !.removing = NoVersion]
<1>a. /\ installer[i].at = "removing" /\ i \in Working /\ v \in Bundles
      /\ inUse = installer[i].bundle /\ installer[i].bundle \in Bundles
      /\ inUse \notin installer[i].doomed /\ runningFrom \in {NoVersion, inUse} /\ inUse # v
      /\ WantsOther =>
           \E c \in Others : c \notin installer[i].doomed /\ c # v /\ installed[c] = "whole"
  BY DEF EndRemove, Working, InstallerInv, OldIsDoomed, SwitchesOwn
<1>1. /\ installer' = [installer EXCEPT ![i] = r]
      /\ installed' = [installed EXCEPT ![v] = "none"] /\ byTime' = ButFor(v)
      /\ UNCHANGED <<partials, inUse, runningFrom, leftFor, rolledTo>>
  BY DEF EndRemove
<1>3. /\ r \in Installation /\ r.at = "pruning" /\ r.bundle = installer[i].bundle
      /\ r.doomed = installer[i].doomed /\ r.removing = NoVersion
  <2>1. installer[i] \in Installation /\ "pruning" \in InstallSteps /\ NoVersion \in Version
    BY DEF InstallerInv, InstallerTypes, Installation, InstallSteps, Version
  <2> QED
    BY <2>1 DEF Installation
<1>b. \A c \in Bundles : installed[c] = "torn" => c = v
  BY <1>a DEF InstallerInv, TornIsGoing, OneAtATime, Working
<1> HIDE DEF r, v
<1>6. /\ installer' \in [Installers -> Installation] /\ OneAtATime' /\ installer'[i] = r
      /\ \A k \in Installers : k # i => CopyIsOwn(k)' /\ SwitchesOwn(k)' /\ OldIsDoomed(k)'
  BY <1>1, <1>a, <1>3, OneMoves
<1>4. /\ installed' \in [Bundles -> {"none", "torn", "whole"}] /\ installed'[v] = "none"
      /\ \A c \in Bundles : c # v => installed'[c] = installed[c]
  BY <1>1, <1>a DEF InstallerInv, InstallerTypes
<1>5. byTime \in Seq(Bundles) /\ Once(byTime)
  BY DEF InstallerInv, InstallerTypes, ListedOnce, Once
<1>7. /\ byTime' \in Seq(Bundles) /\ Once(byTime')
      /\ \A c \in Bundles : (\E k \in DOMAIN byTime' : byTime'[k] = c)
                              <=> c # v /\ (\E k \in DOMAIN byTime : byTime[k] = c)
  <2>1. v \in Bundles /\ byTime' = ButFor(v)
    BY <1>1, <1>a
  <2>2. /\ ButFor(v) \in Seq(Bundles) /\ Once(ButFor(v))
        /\ \A c \in Bundles : (\E k \in DOMAIN ButFor(v) : ButFor(v)[k] = c)
                                <=> c # v /\ (\E k \in DOMAIN byTime : byTime[k] = c)
    BY <2>1, <1>5, ListWithout
  <2> QED
    BY <2>1, <2>2
<1>8. ListedOnce'
  BY <1>4, <1>7 DEF InstallerInv, ListedOnce, Once
<1>9. \A c \in Bundles : installed'[c] # "torn"
  BY <1>b, <1>4
<1>10. Kept(inUse)' /\ Kept(runningFrom)'
  BY <1>1, <1>4, <1>a DEF InstallerInv, InstallerTypes, Kept, Version
<1>11. CopyIsOwn(i)' /\ SwitchesOwn(i)'
  BY <1>1, <1>3, <1>6, <1>a DEF CopyIsOwn, SwitchesOwn, BeforeSwitch
<1>c. WantsOther' => \E c \in Others' : c \notin installer[i].doomed /\ installed'[c] = "whole"
  BY <1>1, <1>4, <1>a DEF WantsOther, Others
<1>d. HasOther'
  BY <1>c DEF HasOther
<1>e. OldIsDoomed(i)'
  BY <1>1, <1>3, <1>6, <1>a, <1>c DEF OldIsDoomed, Others
<1>12. InstallerTypes'
  BY <1>1, <1>4, <1>6, <1>7 DEF InstallerInv, InstallerTypes, Installation, Version
<1> QED
  BY <1>1, <1>6, <1>8, <1>9, <1>10, <1>11, <1>12, <1>d, <1>e DEF InstallerInv, TornIsGoing

(* What fails or is done leaves the versions alone, but for a removal that is under way. *)
LEMMA StopsKeeps ==
  ASSUME InstallerInv, Barred(InstallerRaces), NEW i \in Installers, Done(i) \/ Breaks(i)
  PROVE  InstallerInv'
<1>1. /\ installer' = [installer EXCEPT ![i] = NotStarted] /\ partials' = partials /\ VersionsAsTheyWere
      /\ i \in Working /\ installer[i].at # "removing"
  BY InstallerRacesBarred DEF Done, Breaks, Fails, Working, VersionsAsTheyWere
<1>2. NotStarted \in Installation
  BY DEF NotStarted, Installation, InstallSteps, Version
<1>3. /\ installer' \in [Installers -> Installation] /\ OneAtATime' /\ installer'[i] = NotStarted
      /\ \A k \in Installers : k # i => CopyIsOwn(k)' /\ SwitchesOwn(k)' /\ OldIsDoomed(k)'
  BY <1>1, <1>2, OneMoves
<1>4. CopyIsOwn(i)' /\ SwitchesOwn(i)' /\ OldIsDoomed(i)'
  BY <1>3, IdleIsSound
<1>5. InstallerTypes'
  BY <1>1, <1>3 DEF InstallerInv, InstallerTypes, Installation, Version, VersionsAsTheyWere
<1> QED
  BY <1>1, <1>3, <1>4, <1>5, VersionsStay DEF InstallerInv

(* While no installer works the link may move, to a version that is there. *)
LEMMA NobodyMoves ==
  ASSUME InstallerInv, Working = {}, installer' = installer
  PROVE  /\ OneAtATime' /\ installer' \in [Installers -> Installation]
         /\ \A i \in Installers : CopyIsOwn(i)' /\ SwitchesOwn(i)' /\ OldIsDoomed(i)'
<1>1. \A i \in Installers : installer'[i] = NotStarted
  BY NobodyWorks
<1>2. OneAtATime' /\ installer' \in [Installers -> Installation]
  BY DEF InstallerInv, InstallerTypes, OneAtATime, Working, Installation
<1> QED
  BY <1>1, <1>2, IdleIsSound

LEMMA RollBackKeeps ==
  ASSUME InstallerInv, Barred(InstallerRaces), RollBack
  PROVE  InstallerInv'
<1>1. /\ Working = {}
      /\ UNCHANGED <<installed, partials, byTime, installer, runningFrom>>
  BY InstallerRacesBarred DEF RollBack
<1>2. PICK b : /\ \E k \in DOMAIN byTime : byTime[k] = b
               /\ b # inUse /\ Switches(b)
               /\ UNCHANGED rolledTo \/ rolledTo' = [got |-> b, wanted |-> leftFor]
  BY InstallerRacesBarred DEF RollBack, ToSet
<1>3. b \in Bundles /\ installed[b] = "whole"
  <2>1. byTime \in Seq(Bundles)
    BY DEF InstallerInv, InstallerTypes
  <2>2. b \in Bundles
    BY <2>1, <1>2
  <2>3. installed[b] # "none" /\ installed[b] # "torn"
    BY <2>2, <1>1, <1>2, NobodyWorks DEF InstallerInv, ListedOnce
  <2> QED
    BY <2>2, <2>3 DEF InstallerInv, InstallerTypes
<1>4. inUse' = b /\ leftFor' = inUse
  BY <1>2 DEF Switches, CameFrom
<1>5. rolledTo' \in [got : Version, wanted : Version]
  BY <1>2, <1>3 DEF InstallerInv, InstallerTypes, Version
<1>6. Kept(inUse)' /\ Kept(runningFrom)' /\ HasOther'
  BY <1>1, <1>2, <1>3, <1>4 DEF InstallerInv, InstallerTypes, Version, Kept, HasOther, WantsOther, Others
<1>7. ListedOnce' /\ TornIsGoing'
  BY <1>1, NobodyWorks DEF InstallerInv, ListedOnce, TornIsGoing
<1>8. /\ OneAtATime' /\ installer' \in [Installers -> Installation]
      /\ \A i \in Installers : CopyIsOwn(i)' /\ SwitchesOwn(i)' /\ OldIsDoomed(i)'
  BY <1>1, NobodyMoves
<1>9. InstallerTypes'
  BY <1>1, <1>3, <1>4, <1>5, <1>8 DEF InstallerInv, InstallerTypes, Installation, Version
<1> QED
  BY <1>1, <1>5, <1>6, <1>7, <1>8, <1>9 DEF InstallerInv

LEMMA UninstallKeeps ==
  ASSUME InstallerInv, Barred(InstallerRaces), Uninstall
  PROVE  InstallerInv'
<1>1. /\ Working = {} /\ runningFrom' = NoVersion /\ inUse' = NoVersion /\ leftFor' = NoVersion
      /\ installed' = [b \in Bundles |-> "none"] /\ partials' = [b \in Bundles |-> NoPartial]
      /\ byTime' = <<>> /\ rolledTo' = [got |-> NoVersion, wanted |-> NoVersion]
      /\ installer' = installer
  BY InstallerRacesBarred DEF Uninstall
<1>2. ListedOnce' /\ TornIsGoing'
  BY <1>1 DEF ListedOnce, TornIsGoing
<1>3. Kept(inUse)' /\ Kept(runningFrom)' /\ HasOther'
  BY <1>1 DEF Kept, HasOther, WantsOther
<1>8. /\ OneAtATime' /\ installer' \in [Installers -> Installation]
      /\ \A i \in Installers : CopyIsOwn(i)' /\ SwitchesOwn(i)' /\ OldIsDoomed(i)'
  BY <1>1, NobodyMoves
<1>9. InstallerTypes'
  <2>1. /\ partials' \in [Bundles -> [by : Installers \cup {0}, done : BOOLEAN]]
        /\ byTime' \in Seq(Bundles) /\ rolledTo' \in [got : Version, wanted : Version]
        /\ installed' \in [Bundles -> {"none", "torn", "whole"}]
    BY <1>1 DEF NoPartial, Version
  <2> QED
    BY <2>1, <1>1, <1>8 DEF InstallerTypes, Installation, Version
<1> QED
  BY <1>1, <1>2, <1>3, <1>8, <1>9 DEF InstallerInv

(* The daemon is started from what is in use, also while an installer removes old versions. *)
LEMMA DaemonRunsKeeps ==
  ASSUME InstallerInv, Barred(InstallerRaces), DaemonRuns
  PROVE  InstallerInv'
<1>1. /\ runningFrom' \in {NoVersion, inUse}
      /\ runningFrom' = NoVersion \/ \A i \in Working : installer[i].at \notin BeforeSwitch
      /\ UNCHANGED <<installed, partials, byTime, inUse, installer, leftFor, rolledTo>>
  BY InstallerRacesBarred DEF DaemonRuns
<1>2. InstallerTypes' /\ OneAtATime'
  BY <1>1 DEF InstallerInv, InstallerTypes, OneAtATime, Working, Version
<1>3. ListedOnce' /\ TornIsGoing' /\ Kept(inUse)' /\ Kept(runningFrom)' /\ HasOther'
  BY <1>1 DEF InstallerInv, ListedOnce, TornIsGoing, Kept, HasOther, WantsOther, Others
<1>4. ASSUME NEW i \in Installers
      PROVE  CopyIsOwn(i)' /\ SwitchesOwn(i)' /\ OldIsDoomed(i)'
  <2>1. CopyIsOwn(i) /\ SwitchesOwn(i) /\ OldIsDoomed(i)
    BY DEF InstallerInv
  <2>2. CopyIsOwn(i)' /\ OldIsDoomed(i)'
    BY <2>1, <1>1 DEF CopyIsOwn, OldIsDoomed, WantsOther, Others
  <2>3. SwitchesOwn(i)'
    BY <2>1, <1>1 DEF SwitchesOwn, Working, BeforeSwitch
  <2> QED
    BY <2>2, <2>3
<1> QED
  BY <1>1, <1>2, <1>3, <1>4 DEF InstallerInv

LEMMA InstallerStarts == InstallerInit => InstallerInv
<1> SUFFICES ASSUME InstallerInit PROVE InstallerInv
  OBVIOUS
<1> USE DEF InstallerInit
<1>1. \A i \in Installers : installer[i] = NotStarted /\ installer[i].at = "idle"
  BY DEF NotStarted
<1>2. NotStarted \in Installation
  BY DEF NotStarted, Installation, InstallSteps, Version
<1>3. /\ partials \in [Bundles -> [by : Installers \cup {0}, done : BOOLEAN]]
      /\ byTime \in Seq(Bundles) /\ rolledTo \in [got : Version, wanted : Version]
      /\ installed \in [Bundles -> {"none", "torn", "whole"}]
  BY DEF NoPartial, Version
<1>4. installer \in [Installers -> Installation]
  BY <1>2
<1>5. InstallerTypes
  BY <1>3, <1>4 DEF InstallerTypes, Installation, Version
<1>6. OneAtATime /\ ListedOnce /\ TornIsGoing
  BY <1>1 DEF OneAtATime, Working, ListedOnce, TornIsGoing
<1>7. \A i \in Installers : CopyIsOwn(i) /\ SwitchesOwn(i) /\ OldIsDoomed(i)
  BY <1>1 DEF CopyIsOwn, SwitchesOwn, OldIsDoomed, BeforeSwitch
<1> QED
  BY <1>5, <1>6, <1>7 DEF InstallerInv, Kept, HasOther, WantsOther

LEMMA InstallerStep ==
  ASSUME InstallerInv, Barred(InstallerRaces), InstallerNext \/ UNCHANGED installerVars
  PROVE  InstallerInv'
<1>1. ASSUME NEW i \in Installers, NEW b \in Bundles, Guard(i, b) \/ BeginRemove(i, b)
      PROVE  InstallerInv'
  BY <1>1, GuardKeeps, BeginRemoveKeeps
<1>2. ASSUME NEW i \in Installers,
             BeginCopy(i) \/ EndCopy(i) \/ Rename(i) \/ Switch(i) \/ Prune(i) \/ EndRemove(i)
               \/ Done(i) \/ Breaks(i)
      PROVE  InstallerInv'
  BY <1>2, BeginCopyKeeps, EndCopyKeeps, RenameKeeps, SwitchKeeps, PruneKeeps, EndRemoveKeeps, StopsKeeps
<1>3. CASE UNCHANGED installerVars
  <2>1. UNCHANGED <<installed, partials, byTime, inUse, installer, runningFrom, leftFor, rolledTo>>
    BY <1>3 DEF installerVars
  <2>2. InstallerTypes' /\ OneAtATime'
    BY <2>1 DEF InstallerInv, InstallerTypes, OneAtATime, Working
  <2>3. ListedOnce' /\ TornIsGoing' /\ Kept(inUse)' /\ Kept(runningFrom)' /\ HasOther'
    BY <2>1 DEF InstallerInv, ListedOnce, TornIsGoing, Kept, HasOther, WantsOther, Others
  <2>4. \A i \in Installers : CopyIsOwn(i)' /\ SwitchesOwn(i)' /\ OldIsDoomed(i)'
    BY <2>1 DEF InstallerInv, CopyIsOwn, SwitchesOwn, OldIsDoomed, WantsOther, Others
  <2> QED
    BY <2>1, <2>2, <2>3, <2>4 DEF InstallerInv
<1> QED
  BY <1>1, <1>2, <1>3, RollBackKeeps, UninstallKeeps, DaemonRunsKeeps DEF InstallerNext

LEMMA InstallerIsSound == InstallerInv => VersionsKept
BY DEF InstallerInv, Kept, HasOther, WantsOther, Others, VersionsKept

-----------------------------------------------------------------------------
(* The search index *)

SearchRaces == {"live", "fail", "ahead", "opener"}

Segment == Nat \X Nat
Buffer  == {<<>>} \cup Segment
InBuffer(buffer) == IF buffer = <<>> THEN {} ELSE {buffer}

(* What there is to find in the first n events. *)
RunIn(events, n, i, j) ==
  /\ \A k \in i..j : events[k] \in Pieces /\ events[k] = events[i]
  /\ i = 1 \/ events[i - 1] # events[i]
  /\ j = n \/ events[j + 1] # events[j]
Found(events, n) ==
  {s \in (1..n) \X (1..n) :
     \/ s[1] = s[2] /\ events[s[1]] = "user"
     \/ s[1] <= s[2] /\ RunIn(events, n, s[1], s[2])}

(* The buffer has the run that the n-th event is in. *)
BufferFits(events, n, buffer) ==
  buffer # <<>> => buffer \in Found(events, n) /\ buffer[2] = n /\ events[n] \in Pieces

(* The event that closes a segment. *)
Closer(events, s) == IF events[s[1]] = "user" THEN s[2] ELSE s[2] + 1

(* The races of this part, one by one. *)
LEMMA SearchRacesBarred ==
  ASSUME Barred(SearchRaces)
  PROVE  ~Allows("live") /\ ~Allows("fail") /\ ~Allows("ahead") /\ ~Allows("opener")
BY DEF Barred, SearchRaces, Allows

(* What is found is a segment: a message of the user, or a run of pieces. *)
LEMMA FoundTypes ==
  ASSUME NEW events \in Seq(EventKinds), NEW n \in 0..Len(events), NEW s \in Found(events, n)
  PROVE  /\ s \in Segment /\ s = <<s[1], s[2]>> /\ s[1] \in 1..n /\ s[2] \in 1..n /\ s[1] <= s[2]
         /\ s # <<>>
         /\ \/ s[1] = s[2] /\ events[s[1]] = "user"
            \/ RunIn(events, n, s[1], s[2]) /\ events[s[1]] \in Pieces
<1>1. /\ s \in (1..n) \X (1..n)
      /\ \/ s[1] = s[2] /\ events[s[1]] = "user"
         \/ s[1] <= s[2] /\ RunIn(events, n, s[1], s[2])
  BY DEF Found
<1>2. s = <<s[1], s[2]>> /\ s[1] \in 1..n /\ s[2] \in 1..n
  BY <1>1
<1>3. RunIn(events, n, s[1], s[2]) /\ s[1] <= s[2] => events[s[1]] \in Pieces
  BY <1>2 DEF RunIn
<1>4. s # <<>>
  <2>1. <<s[1], s[2]>> # <<>>
    OBVIOUS
  <2> QED
    BY <1>2, <2>1
<1> QED
  BY <1>1, <1>2, <1>3, <1>4 DEF Segment

(* A prefix is searched as it would be alone. *)
LEMMA SearchablePrefix ==
  ASSUME NEW events \in Seq(EventKinds), NEW n \in 0..Len(events)
  PROVE  Searchable(SubSeq(events, 1, n)) = Found(events, n)
<1> DEFINE first == SubSeq(events, 1, n)
<1>1. Len(first) = n /\ first \in Seq(EventKinds) /\ DOMAIN first = 1..n /\ \A k \in 1..n : first[k] = events[k]
  OBVIOUS
<1> HIDE DEF first
<1>2. ASSUME NEW i \in 1..n, NEW j \in 1..n, i <= j
      PROVE  IsRun(first, i, j) <=> RunIn(events, n, i, j)
  <2>1. \A k \in i..j : first[k] = events[k]
    BY <1>1
  <2>2. i # 1 => first[i - 1] = events[i - 1] /\ first[i] = events[i]
    BY <1>1
  <2>3. j # n => first[j + 1] = events[j + 1] /\ first[j] = events[j]
    BY <1>1
  <2>4. i \in i..j
    BY <1>2
  <2> QED
    BY <1>1, <2>1, <2>2, <2>3, <2>4 DEF IsRun, RunIn
<1>3. ASSUME NEW s \in (1..n) \X (1..n)
      PROVE  s \in Searchable(first) <=> s \in Found(events, n)
  <2>1. s = <<s[1], s[2]>> /\ s[1] \in 1..n /\ s[2] \in 1..n
    OBVIOUS
  <2>2. (s \in {<<i, i>> : i \in {k \in DOMAIN first : first[k] = "user"}})
          <=> s[1] = s[2] /\ events[s[1]] = "user"
    BY <2>1, <1>1
  <2>3. s[1] <= s[2] => (IsRun(first, s[1], s[2]) <=> RunIn(events, n, s[1], s[2]))
    BY <2>1, <1>2
  <2> QED
    BY <2>1, <2>2, <2>3, <1>1 DEF Searchable, Found
<1>4. Searchable(first) \subseteq (1..n) \X (1..n) /\ Found(events, n) \subseteq (1..n) \X (1..n)
  BY <1>1 DEF Searchable, Found
<1> QED
  BY <1>3, <1>4 DEF first

(* What is found in the first events does not depend on the others. *)
LEMMA FoundSame ==
  ASSUME NEW events \in Seq(EventKinds), NEW other \in Seq(EventKinds),
         NEW n \in Nat, n <= Len(events), n <= Len(other),
         \A k \in 1..n : other[k] = events[k]
  PROVE  Found(other, n) = Found(events, n)
<1>1. SubSeq(events, 1, n) = SubSeq(other, 1, n)
  OBVIOUS
<1>2. n \in 0..Len(events) /\ n \in 0..Len(other)
  OBVIOUS
<1> QED
  BY <1>1, <1>2, SearchablePrefix

(* Two segments that end at one event are one. *)
LEMMA OneEnd ==
  ASSUME NEW events \in Seq(EventKinds), NEW n \in 0..Len(events),
         NEW s \in Found(events, n), NEW t \in Found(events, n), s[2] = t[2]
  PROVE  s = t
<1>1. /\ s = <<s[1], s[2]>> /\ t = <<t[1], t[2]>>
      /\ s[1] \in 1..n /\ s[2] \in 1..n /\ t[1] \in 1..n /\ s[1] <= s[2] /\ t[1] <= t[2]
      /\ (s[1] = s[2] /\ events[s[1]] = "user") \/ (RunIn(events, n, s[1], s[2]) /\ events[s[1]] \in Pieces)
      /\ (t[1] = t[2] /\ events[t[1]] = "user") \/ (RunIn(events, n, t[1], t[2]) /\ events[t[1]] \in Pieces)
  BY FoundTypes
<1>2. "user" \notin Pieces
  BY DEF Pieces
<1>3. ASSUME NEW p \in 1..n, NEW q \in 1..n, NEW e \in 1..n, p < q, q <= e,
             RunIn(events, n, p, e), RunIn(events, n, q, e)
      PROVE  FALSE
  <2>1. events[q - 1] = events[p] /\ events[q] = events[p]
    BY <1>3 DEF RunIn
  <2> QED
    BY <1>3, <2>1 DEF RunIn
<1>4. ASSUME NEW p \in 1..n, NEW e \in 1..n, p <= e, RunIn(events, n, p, e)
      PROVE  events[e] \in Pieces
  BY <1>4 DEF RunIn
<1>5. CASE events[s[2]] = "user"
  BY <1>1, <1>2, <1>4, <1>5
<1>6. CASE events[s[2]] # "user"
  <2>1. RunIn(events, n, s[1], s[2]) /\ RunIn(events, n, t[1], s[2])
    BY <1>1, <1>6
  <2>2. s[1] = t[1]
    BY <1>1, <1>3, <2>1
  <2> QED
    BY <1>1, <2>2
<1> QED
  BY <1>5, <1>6

(* What the next event leaves of what is found. *)
LEMMA FoundLeft ==
  ASSUME NEW events \in Seq(EventKinds), NEW n \in Nat, n + 1 <= Len(events),
         NEW i \in 1..n, NEW j \in 1..n, i <= j
  PROVE  <<i, j>> \in Found(events, n + 1) <=>
           <<i, j>> \in Found(events, n)
             /\ (j = n /\ events[n] = events[n + 1] => events[i] = "user")
<1>1. i \in 1..(n + 1) /\ j \in 1..(n + 1) /\ n + 1 \in Nat /\ j # n + 1 /\ i \in i..j /\ j \in i..j
  OBVIOUS
<1>2. "user" \notin Pieces
  BY DEF Pieces
<1>3. RunIn(events, n + 1, i, j) => RunIn(events, n, i, j)
  BY <1>1 DEF RunIn
<1>4. RunIn(events, n, i, j) => events[i] \in Pieces /\ events[j] = events[i]
  BY <1>1 DEF RunIn
<1>5. RunIn(events, n, i, j) /\ ~(j = n /\ events[n] = events[n + 1]) => RunIn(events, n + 1, i, j)
  BY <1>1 DEF RunIn
<1>6. RunIn(events, n + 1, i, j) => ~(j = n /\ events[n] = events[n + 1])
  BY <1>1 DEF RunIn
<1> QED
  BY <1>1, <1>2, <1>3, <1>4, <1>5, <1>6 DEF Found

(* What is found at the next event. *)
LEMMA FoundAt ==
  ASSUME NEW events \in Seq(EventKinds), NEW n \in Nat, n + 1 <= Len(events), NEW i \in 1..(n + 1)
  PROVE  <<i, n + 1>> \in Found(events, n + 1) <=>
           \/ i = n + 1 /\ events[n + 1] = "user"
           \/ /\ i = n + 1 /\ events[n + 1] \in Pieces
              /\ n = 0 \/ events[n] # events[n + 1]
           \/ i <= n /\ events[n + 1] = events[n] /\ RunIn(events, n, i, n)
<1>1. n + 1 \in 1..(n + 1) /\ i <= n + 1 /\ n + 1 \in Nat /\ n + 1 \in i..(n + 1)
  OBVIOUS
<1>2. "user" \notin Pieces
  BY DEF Pieces
<1>3. CASE i = n + 1
  <2>1. i..(n + 1) = {n + 1}
    BY <1>3
  <2>2. RunIn(events, n + 1, i, n + 1) <=> events[n + 1] \in Pieces /\ (n = 0 \/ events[n] # events[n + 1])
    <3>1. i - 1 = n /\ (i = 1 <=> n = 0)
      BY <1>3
    <3> QED
      BY <1>3, <2>1, <3>1 DEF RunIn
  <2> QED
    BY <1>1, <1>3, <2>2 DEF Found
<1>4. CASE i # n + 1
  <2>1. i \in 1..n /\ i <= n /\ n \in i..n /\ n \in i..(n + 1) /\ i \in i..n
    BY <1>4
  <2>2. i..(n + 1) = i..n \cup {n + 1}
    BY <2>1
  <2>3. RunIn(events, n + 1, i, n + 1) => events[n + 1] = events[n] /\ RunIn(events, n, i, n)
    BY <2>1, <2>2 DEF RunIn
  <2>4. events[n + 1] = events[n] /\ RunIn(events, n, i, n) => RunIn(events, n + 1, i, n + 1)
    BY <2>1, <2>2 DEF RunIn
  <2> QED
    BY <1>1, <1>4, <2>1, <2>3, <2>4 DEF Found
<1> QED
  BY <1>3, <1>4

(* What is found is a pair of positions in their order. *)
LEMMA FoundPairs ==
  ASSUME NEW events \in Seq(EventKinds), NEW n \in 0..Len(events), NEW s \in Found(events, n)
  PROVE  \E i, j \in 1..n : i <= j /\ s = <<i, j>>
BY FoundTypes

(* An event that does not continue a run adds itself at most. *)
LEMMA FoundNew ==
  ASSUME NEW events \in Seq(EventKinds), NEW n \in Nat, n + 1 <= Len(events),
         \/ n = 0
         \/ events[n] # events[n + 1]
         \/ events[n + 1] \notin Pieces
  PROVE  Found(events, n + 1) =
           Found(events, n) \cup (IF events[n + 1] = "end" THEN {} ELSE {<<n + 1, n + 1>>})
<1> DEFINE new == IF events[n + 1] = "end" THEN {} ELSE {<<n + 1, n + 1>>}
<1>1. /\ n \in 0..Len(events) /\ n + 1 \in 0..Len(events) /\ n + 1 \in 1..(n + 1)
      /\ events[n + 1] \in {"user", "end"} \cup Pieces /\ "user" \notin Pieces /\ "end" \notin Pieces
  BY DEF EventKinds, Pieces
<1>2. ASSUME NEW i \in 1..n, NEW j \in 1..n, i <= j
      PROVE  <<i, j>> \in Found(events, n + 1) <=> <<i, j>> \in Found(events, n)
  <2>1. CASE j = n /\ events[n] = events[n + 1] /\ <<i, j>> \in Found(events, n)
    <3>1. \/ i = j /\ events[i] = "user"
          \/ RunIn(events, n, i, j)
      BY <2>1 DEF Found
    <3>2. j \in i..j
      BY <1>2
    <3>3. RunIn(events, n, i, j) => events[n] \in Pieces
      BY <2>1, <3>2 DEF RunIn
    <3> QED
      BY <1>1, <1>2, <2>1, <3>1, <3>3, FoundLeft
  <2> QED
    BY <1>2, <2>1, FoundLeft
<1>3. ASSUME NEW i \in 1..(n + 1)
      PROVE  <<i, n + 1>> \in Found(events, n + 1) <=> <<i, n + 1>> \in new
  <2>1. i <= n /\ RunIn(events, n, i, n) => events[n] \in Pieces /\ n # 0
    <3>1. i <= n => n \in i..n
      OBVIOUS
    <3> QED
      BY <3>1 DEF RunIn
  <2>2. <<i, n + 1>> \in Found(events, n + 1) <=> i = n + 1 /\ events[n + 1] # "end"
    BY <1>1, <2>1, FoundAt
  <2>3. <<i, n + 1>> = <<n + 1, n + 1>> <=> i = n + 1
    OBVIOUS
  <2> QED
    BY <2>2, <2>3
<1>4. ASSUME NEW s \in Found(events, n + 1)
      PROVE  s \in Found(events, n) \cup new
  <2>1. PICK i \in 1..(n + 1), j \in 1..(n + 1) : i <= j /\ s = <<i, j>>
    BY <1>1, FoundPairs
  <2>2. CASE j = n + 1
    BY <1>3, <1>4, <2>1, <2>2
  <2>3. CASE j # n + 1
    <3>1. i \in 1..n /\ j \in 1..n
      BY <2>1, <2>3
    <3> QED
      BY <1>2, <1>4, <2>1, <3>1
  <2> QED
    BY <2>2, <2>3
<1>5. ASSUME NEW s \in Found(events, n)
      PROVE  s \in Found(events, n + 1)
  <2>1. PICK i \in 1..n, j \in 1..n : i <= j /\ s = <<i, j>>
    BY <1>1, FoundPairs
  <2> QED
    BY <1>2, <1>5, <2>1
<1>6. ASSUME NEW s \in new
      PROVE  s \in Found(events, n + 1)
  <2>1. s = <<n + 1, n + 1>>
    OBVIOUS
  <2> HIDE DEF new
  <2> QED
    BY <1>1, <1>3, <1>6, <2>1
<1> QED
  BY <1>4, <1>5, <1>6

(* One that does makes the run longer. *)
LEMMA FoundLonger ==
  ASSUME NEW events \in Seq(EventKinds), NEW n \in Nat, n + 1 <= Len(events),
         events[n + 1] \in Pieces, NEW b \in Found(events, n), b[2] = n, events[n] = events[n + 1]
  PROVE  /\ Found(events, n + 1) = (Found(events, n) \ {b}) \cup {<<b[1], n + 1>>}
         /\ <<b[1], n + 1>> \notin Found(events, n)
<1>1. /\ n \in 0..Len(events) /\ n + 1 \in 0..Len(events) /\ n + 1 \in 1..(n + 1)
      /\ "user" \notin Pieces
  BY DEF Pieces
<1>2. PICK i \in 1..n : b = <<i, n>> /\ b[1] = i
  BY <1>1, FoundTypes
<1>3. RunIn(events, n, i, n)
  BY <1>1, <1>2, FoundTypes
<1>4. <<i, n + 1>> \in Found(events, n + 1)
  BY <1>3, FoundAt
<1>5. <<i, n + 1>> \notin Found(events, n)
  BY <1>1 DEF Found
<1>6. \A e \in i..n : events[e] = events[i]
  BY <1>3 DEF RunIn
<1>7. b \notin Found(events, n + 1)
  <2>1. events[i] = events[n] /\ n \in 1..n
    BY <1>6
  <2> QED
    BY <1>1, <1>2, <2>1, FoundLeft
<1>8. ASSUME NEW s \in Found(events, n + 1)
      PROVE  s \in (Found(events, n) \ {b}) \cup {<<i, n + 1>>}
  <2>1. PICK p \in 1..(n + 1), j \in 1..(n + 1) : p <= j /\ s = <<p, j>>
    BY <1>1, FoundPairs
  <2>2. CASE j = n + 1
    <3>1. s[2] = n + 1 /\ <<i, n + 1>>[2] = n + 1
      BY <2>1, <2>2
    <3> QED
      BY <1>1, <1>4, <1>8, <3>1, OneEnd
  <2>3. CASE j # n + 1
    <3>1. p \in 1..n /\ j \in 1..n
      BY <2>1, <2>3
    <3> QED
      BY <1>7, <1>8, <2>1, <3>1, FoundLeft
  <2> QED
    BY <2>2, <2>3
<1>9. ASSUME NEW s \in Found(events, n), s # b
      PROVE  s \in Found(events, n + 1)
  <2>1. PICK p \in 1..n, j \in 1..n : p <= j /\ s = <<p, j>>
    BY <1>1, FoundPairs
  <2>2. j # n
    <3>1. j = n => s[2] = b[2]
      BY <2>1
    <3> QED
      BY <1>1, <1>9, <3>1, OneEnd
  <2> QED
    BY <1>9, <2>1, <2>2, FoundLeft
<1> QED
  BY <1>2, <1>4, <1>5, <1>8, <1>9

-----------------------------------------------------------------------------
(* Lists of no, one and two segments. *)
LEMMA FewSegments ==
  ASSUME NEW a \in Segment, NEW b \in Segment
  PROVE  /\ ToSet(<<>>) = {} /\ IsInjective(<<>>) /\ <<>> \in Seq(Segment)
         /\ ToSet(<<a>>) = {a} /\ IsInjective(<<a>>) /\ <<a>> \in Seq(Segment)
         /\ ToSet(<<a, b>>) = {a, b} /\ (a # b => IsInjective(<<a, b>>)) /\ <<a, b>> \in Seq(Segment)
         /\ Append(<<>>, b) = <<b>> /\ Append(<<a>>, b) = <<a, b>>
<1>1. DOMAIN <<a>> = {1} /\ DOMAIN <<a, b>> = {1, 2} /\ DOMAIN <<>> = {}
  OBVIOUS
<1>2. ToSet(<<>>) = {} /\ ToSet(<<a>>) = {a}
  BY <1>1 DEF ToSet
<1>3. ToSet(<<a, b>>) = {a, b}
  BY <1>1 DEF ToSet
<1>4. IsInjective(<<>>) /\ IsInjective(<<a>>) /\ (a # b => IsInjective(<<a, b>>))
  BY <1>1 DEF IsInjective
<1>5. <<>> \in Seq(Segment) /\ <<a>> \in Seq(Segment) /\ <<a, b>> \in Seq(Segment)
  OBVIOUS
<1>6. Append(<<>>, b) = <<b>>
  OBVIOUS
<1>7. Append(<<a>>, b) = <<a, b>>
  <2>1. Len(<<a>>) = 1 /\ Len(<<a, b>>) = 2
    OBVIOUS
  <2>2. /\ Append(<<a>>, b) \in Seq(Segment) /\ Len(Append(<<a>>, b)) = 2
        /\ Append(<<a>>, b)[1] = a /\ Append(<<a>>, b)[2] = b
    BY <1>5, <2>1, AppendProperties
  <2>3. \A i \in 1..2 : Append(<<a>>, b)[i] = <<a, b>>[i]
    BY <2>2
  <2> QED
    BY <1>5, <2>1, <2>2, <2>3, SeqEqual
<1> QED
  BY <1>2, <1>3, <1>4, <1>5, <1>6, <1>7

(* SegmentAccumulator.push, in its four cases. *)
LEMMA PushCases ==
  ASSUME NEW events \in Seq(EventKinds), NEW buffer \in Buffer, NEW seq \in 1..Len(events),
         NEW pushed, pushed = Push(events, buffer, seq)
  PROVE  /\ Continues(events, buffer, seq) =>
              pushed.segments = <<>> /\ pushed.pending = <<buffer[1], seq>>
         /\ events[seq] = "user" =>
              pushed.segments = Append(Flushed(buffer), <<seq, seq>>) /\ pushed.pending = <<>>
         /\ events[seq] = "end" => pushed.segments = Flushed(buffer) /\ pushed.pending = <<>>
         /\ events[seq] \in Pieces /\ ~Continues(events, buffer, seq) =>
              pushed.segments = Flushed(buffer) /\ pushed.pending = <<seq, seq>>
<1>1. events[seq] \in {"user", "end"} \cup Pieces /\ "user" \notin Pieces /\ "end" \notin Pieces
  BY DEF EventKinds, Pieces
<1> DEFINE over == PushOver(events, buffer, seq)
<1>2. /\ over.segments = IF Continues(events, buffer, seq) THEN <<>> ELSE Flushed(buffer)
      /\ over.pending = IF events[seq] \notin Pieces THEN <<>>
                        ELSE IF Continues(events, buffer, seq) THEN <<buffer[1], seq>> ELSE <<seq, seq>>
      /\ over = [segments |-> over.segments, pending |-> over.pending]
  BY DEF PushOver
<1>3. pushed = [over EXCEPT !.segments = IF events[seq] = "user" THEN Append(@, <<seq, seq>>) ELSE @]
  BY DEF Push
<1> HIDE DEF over
<1>4. /\ pushed.segments = IF events[seq] = "user" THEN Append(over.segments, <<seq, seq>>) ELSE over.segments
      /\ pushed.pending = over.pending
  BY <1>2, <1>3
<1>5. Continues(events, buffer, seq) => events[seq] \in Pieces
  BY DEF Continues
<1> QED
  BY <1>1, <1>2, <1>4, <1>5

(* The accumulator gives segments and keeps a segment or nothing. *)
LEMMA PushTypes ==
  ASSUME NEW events \in Seq(EventKinds), NEW buffer \in Buffer, NEW seq \in 1..Len(events),
         NEW pushed, pushed = Push(events, buffer, seq)
  PROVE  pushed.segments \in Seq(Segment) /\ pushed.pending \in Buffer
<1>1. events[seq] \in {"user", "end"} \cup Pieces
  BY DEF EventKinds
<1>2. seq \in Nat /\ <<seq, seq>> \in Segment
  BY DEF Segment
<1>3. Flushed(buffer) \in Seq(Segment)
  BY FewSegments, <1>2 DEF Flushed, Buffer
<1>4. Append(Flushed(buffer), <<seq, seq>>) \in Seq(Segment) /\ <<>> \in Seq(Segment)
  BY <1>2, <1>3
<1>5. buffer # <<>> => <<buffer[1], seq>> \in Segment
  BY <1>2 DEF Buffer, Segment
<1>6. Continues(events, buffer, seq) => buffer # <<>>
  BY DEF Continues
<1>7. <<seq, seq>> \in Buffer /\ <<>> \in Buffer /\ (buffer # <<>> => <<buffer[1], seq>> \in Buffer)
  BY <1>2, <1>5 DEF Buffer
<1>8. /\ Continues(events, buffer, seq) =>
           pushed.segments = <<>> /\ pushed.pending = <<buffer[1], seq>>
      /\ events[seq] = "user" =>
           pushed.segments = Append(Flushed(buffer), <<seq, seq>>) /\ pushed.pending = <<>>
      /\ events[seq] = "end" => pushed.segments = Flushed(buffer) /\ pushed.pending = <<>>
      /\ events[seq] \in Pieces /\ ~Continues(events, buffer, seq) =>
           pushed.segments = Flushed(buffer) /\ pushed.pending = <<seq, seq>>
  BY PushCases
<1> QED
  BY <1>1, <1>3, <1>4, <1>6, <1>7, <1>8

(* What one event adds to what has been found, if the buffer has the run before it. *)
LEMMA PushFits ==
  ASSUME NEW events \in Seq(EventKinds), NEW n \in Nat, n + 1 <= Len(events),
         NEW buffer \in Buffer, BufferFits(events, n, buffer),
         buffer # <<>> \/ n = 0 \/ events[n] \notin Pieces \/ events[n + 1] = "user",
         NEW pushed, pushed = Push(events, buffer, n + 1)
  PROVE  /\ BufferFits(events, n + 1, pushed.pending)
         /\ pushed.pending = <<>> => events[n + 1] \notin Pieces
         /\ IsInjective(pushed.segments)
         /\ Found(events, n + 1) \ InBuffer(pushed.pending) =
              (Found(events, n) \ InBuffer(buffer)) \cup ToSet(pushed.segments)
         /\ ToSet(pushed.segments) \cap (Found(events, n) \ InBuffer(buffer)) = {}
         /\ \A s \in ToSet(pushed.segments) : Closer(events, s) = n + 1
<1> DEFINE k == n + 1
           one == <<k, k>>
<1>1. /\ n \in 0..Len(events) /\ k \in 1..Len(events) /\ k \in 0..Len(events) /\ k \in 1..k
      /\ events[k] \in {"user", "end"} \cup Pieces
      /\ "user" \notin Pieces /\ "end" \notin Pieces
  BY DEF EventKinds, Pieces
<1>2. one \in Segment /\ one[1] = k /\ one[2] = k /\ one # <<>>
  BY <1>1 DEF Segment
<1>3. one \notin Found(events, n) /\ one # buffer
  <2>1. one \notin Found(events, n)
    BY <1>1, <1>2 DEF Found
  <2> QED
    BY <1>2, <2>1 DEF BufferFits
<1>4. buffer # <<>> =>
        /\ buffer \in Segment /\ buffer \in Found(events, n) /\ buffer[2] = n /\ buffer[1] \in 1..n
        /\ events[n] \in Pieces /\ events[buffer[1]] = events[n] /\ n # 0
  <2> SUFFICES ASSUME buffer # <<>>
               PROVE  /\ buffer \in Segment /\ buffer \in Found(events, n) /\ buffer[2] = n /\ buffer[1] \in 1..n
                      /\ events[n] \in Pieces /\ events[buffer[1]] = events[n] /\ n # 0
    OBVIOUS
  <2>1. buffer \in Found(events, n) /\ buffer[2] = n /\ events[n] \in Pieces
    BY DEF BufferFits
  <2>2. buffer[1] \in 1..n /\ buffer \in Segment /\ buffer[1] <= n
    BY <1>1, <2>1, FoundTypes
  <2>3. RunIn(events, n, buffer[1], n) \/ buffer[1] = n
    BY <1>1, <2>1, FoundTypes
  <2>4. n \in buffer[1]..n
    BY <2>2
  <2>5. events[buffer[1]] = events[n]
    BY <2>3, <2>4 DEF RunIn
  <2> QED
    BY <2>1, <2>2, <2>5
<1>5. buffer # <<>> => Closer(events, buffer) = k
  BY <1>1, <1>4 DEF Closer
<1>6. events[k] = "user" => Closer(events, one) = k
  BY <1>2 DEF Closer
<1>7. /\ ToSet(Flushed(buffer)) = InBuffer(buffer) /\ IsInjective(Flushed(buffer))
      /\ ToSet(Append(Flushed(buffer), one)) = InBuffer(buffer) \cup {one}
      /\ IsInjective(Append(Flushed(buffer), one))
  <2>1. CASE buffer = <<>>
    BY <1>2, <2>1, FewSegments DEF Flushed, InBuffer
  <2>2. CASE buffer # <<>>
    <3>1. Flushed(buffer) = <<buffer>> /\ InBuffer(buffer) = {buffer} /\ buffer \in Segment /\ buffer # one
      BY <1>3, <1>4, <2>2 DEF Flushed, InBuffer
    <3>2. one \in Segment
      BY <1>2
    <3> HIDE DEF one
    <3>3. /\ ToSet(<<buffer>>) = {buffer} /\ IsInjective(<<buffer>>)
          /\ ToSet(<<buffer, one>>) = {buffer, one} /\ IsInjective(<<buffer, one>>)
          /\ Append(<<buffer>>, one) = <<buffer, one>>
      BY <3>1, <3>2, FewSegments
    <3> QED
      BY <3>1, <3>3
  <2> QED
    BY <2>1, <2>2
<1>8. InBuffer(buffer) \subseteq Found(events, n) /\ \A s \in InBuffer(buffer) : Closer(events, s) = k
  BY <1>4, <1>5 DEF InBuffer
<1>9. CASE Continues(events, buffer, k)
  <2>1. buffer # <<>> /\ events[k] \in Pieces /\ events[buffer[1]] = events[k]
    BY <1>9 DEF Continues
  <2> DEFINE longer == <<buffer[1], k>>
  <2>2. /\ Found(events, k) = (Found(events, n) \ {buffer}) \cup {longer}
        /\ longer \notin Found(events, n)
    BY <1>1, <1>4, <2>1, FoundLonger
  <2>3. pushed.segments = <<>> /\ pushed.pending = longer
    BY <1>1, <1>9, PushCases
  <2>4. longer # <<>> /\ longer[2] = k
    OBVIOUS
  <2>5. ToSet(pushed.segments) = {} /\ IsInjective(pushed.segments)
    BY <2>3, <1>2, FewSegments
  <2>6. InBuffer(pushed.pending) = {longer} /\ InBuffer(buffer) = {buffer}
    BY <2>1, <2>3, <2>4 DEF InBuffer
  <2> HIDE DEF longer
  <2>7. BufferFits(events, k, pushed.pending)
    BY <2>1, <2>2, <2>3, <2>4 DEF BufferFits
  <2> QED
    BY <2>2, <2>3, <2>4, <2>5, <2>6, <2>7
<1>10. CASE ~Continues(events, buffer, k)
  <2>1. \/ n = 0
        \/ events[n] # events[k]
        \/ events[k] \notin Pieces
    BY <1>1, <1>4, <1>10 DEF Continues
  <2>2. Found(events, k) = Found(events, n) \cup (IF events[k] = "end" THEN {} ELSE {one})
    BY <1>1, <2>1, FoundNew
  <2>3. InBuffer(<<>>) = {} /\ InBuffer(one) = {one}
    BY <1>2 DEF InBuffer
  <2>4. BufferFits(events, k, <<>>)
    BY DEF BufferFits
  <2> HIDE DEF one
  <2>5. CASE events[k] = "user"
    <3>1. pushed.segments = Append(Flushed(buffer), one) /\ pushed.pending = <<>>
      BY <1>1, <2>5, PushCases DEF one
    <3> QED
      BY <1>1, <1>3, <1>6, <1>7, <1>8, <2>2, <2>3, <2>4, <2>5, <3>1
  <2>6. CASE events[k] = "end"
    <3>1. pushed.segments = Flushed(buffer) /\ pushed.pending = <<>>
      BY <1>1, <2>6, PushCases
    <3> QED
      BY <1>1, <1>3, <1>7, <1>8, <2>2, <2>3, <2>4, <2>6, <3>1
  <2>7. CASE events[k] \in Pieces
    <3>1. pushed.segments = Flushed(buffer) /\ pushed.pending = one
      BY <1>1, <1>10, <2>7, PushCases DEF one
    <3>2. BufferFits(events, k, one)
      BY <1>2, <2>2, <2>7, <1>1 DEF BufferFits
    <3> QED
      BY <1>1, <1>2, <1>3, <1>7, <1>8, <2>2, <2>3, <2>7, <3>1, <3>2
  <2> QED
    BY <1>1, <2>5, <2>6, <2>7
<1> QED
  BY <1>9, <1>10

(* The same in one word. *)
Pushed(events, n, buffer, out) ==
  /\ BufferFits(events, n + 1, out.pending)
  /\ out.pending = <<>> => events[n + 1] \notin Pieces
  /\ IsInjective(out.segments)
  /\ Found(events, n + 1) \ InBuffer(out.pending) =
       (Found(events, n) \ InBuffer(buffer)) \cup ToSet(out.segments)
  /\ ToSet(out.segments) \cap (Found(events, n) \ InBuffer(buffer)) = {}
  /\ \A s \in ToSet(out.segments) : Closer(events, s) = n + 1

LEMMA PushGoesOn ==
  ASSUME NEW events \in Seq(EventKinds), NEW n \in Nat, n + 1 <= Len(events),
         NEW buffer \in Buffer, BufferFits(events, n, buffer),
         buffer # <<>> \/ n = 0 \/ events[n] \notin Pieces \/ events[n + 1] = "user"
  PROVE  Pushed(events, n, buffer, Push(events, buffer, n + 1))
<1>1. PICK out : out = Push(events, buffer, n + 1)
  OBVIOUS
<1>2. /\ BufferFits(events, n + 1, out.pending)
      /\ out.pending = <<>> => events[n + 1] \notin Pieces
      /\ IsInjective(out.segments)
      /\ Found(events, n + 1) \ InBuffer(out.pending) =
           (Found(events, n) \ InBuffer(buffer)) \cup ToSet(out.segments)
      /\ ToSet(out.segments) \cap (Found(events, n) \ InBuffer(buffer)) = {}
      /\ \A s \in ToSet(out.segments) : Closer(events, s) = n + 1
  BY <1>1, PushFits
<1>3. Pushed(events, n, buffer, out)
  BY <1>2, Zenon DEF Pushed
<1> QED
  BY <1>1, <1>3

(* Lists without a common member are joined without repetition. *)
LEMMA JoinedSegments ==
  ASSUME NEW a \in Seq(Segment), NEW b \in Seq(Segment)
  PROVE  /\ a \o b \in Seq(Segment) /\ ToSet(a \o b) = ToSet(a) \cup ToSet(b)
         /\ IsInjective(a) /\ IsInjective(b) /\ ToSet(a) \cap ToSet(b) = {} => IsInjective(a \o b)
<1>1. /\ Len(a) \in Nat /\ Len(b) \in Nat /\ a \o b \in Seq(Segment) /\ Len(a \o b) = Len(a) + Len(b)
      /\ DOMAIN a = 1..Len(a) /\ DOMAIN b = 1..Len(b) /\ DOMAIN (a \o b) = 1..(Len(a) + Len(b))
      /\ \A i \in 1..Len(a) : (a \o b)[i] = a[i]
      /\ \A i \in 1..Len(b) : (a \o b)[Len(a) + i] = b[i]
  BY ConcatProperties
<1> DEFINE both == a \o b
<1>2. /\ \A i \in 1..Len(a) : both[i] = a[i] /\ i \in 1..(Len(a) + Len(b))
      /\ \A i \in 1..Len(b) : both[Len(a) + i] = b[i] /\ Len(a) + i \in 1..(Len(a) + Len(b))
      /\ \A i \in 1..(Len(a) + Len(b)) : i \in 1..Len(a) \/ (i - Len(a) \in 1..Len(b) /\ both[i] = b[i - Len(a)])
  <2>1. \A i \in 1..(Len(a) + Len(b)) : i \notin 1..Len(a) => i - Len(a) \in 1..Len(b) /\ Len(a) + (i - Len(a)) = i
    BY <1>1
  <2> QED
    BY <1>1, <2>1
<1>3. both \in Seq(Segment) /\ DOMAIN both = 1..(Len(a) + Len(b))
  BY <1>1
<1> HIDE DEF both
<1>4. ToSet(both) = ToSet(a) \cup ToSet(b)
  <2>1. \A i \in 1..(Len(a) + Len(b)) : both[i] \in ToSet(a) \cup ToSet(b)
    BY <1>1, <1>2 DEF ToSet
  <2>2. \A i \in 1..Len(a) : a[i] \in ToSet(both)
    BY <1>2, <1>3 DEF ToSet
  <2>3. \A i \in 1..Len(b) : b[i] \in ToSet(both)
    BY <1>2, <1>3 DEF ToSet
  <2> QED
    BY <1>1, <1>3, <2>1, <2>2, <2>3 DEF ToSet
<1>5. ASSUME IsInjective(a), IsInjective(b), ToSet(a) \cap ToSet(b) = {}
      PROVE  IsInjective(both)
  <2>1. SUFFICES ASSUME NEW i \in 1..(Len(a) + Len(b)), NEW j \in 1..(Len(a) + Len(b)), both[i] = both[j]
                 PROVE  i = j
    BY <1>3 DEF IsInjective
  <2>2. \A p, q \in 1..Len(a) : a[p] = a[q] => p = q
    BY <1>1, <1>5 DEF IsInjective
  <2>3. \A p, q \in 1..Len(b) : b[p] = b[q] => p = q
    BY <1>1, <1>5 DEF IsInjective
  <2>4. \A p \in 1..Len(a), q \in 1..Len(b) : a[p] # b[q]
    BY <1>1, <1>5 DEF ToSet
  <2>5. CASE i \in 1..Len(a)
    <3>1. j \in 1..Len(a)
      BY <1>2, <2>1, <2>4, <2>5
    <3> QED
      BY <1>2, <2>1, <2>2, <2>5, <3>1
  <2>6. CASE i \notin 1..Len(a)
    <3>1. i - Len(a) \in 1..Len(b) /\ both[i] = b[i - Len(a)]
      BY <1>2, <2>6
    <3>2. j \notin 1..Len(a)
      BY <1>2, <2>1, <2>4, <3>1
    <3>3. j - Len(a) \in 1..Len(b) /\ both[j] = b[j - Len(a)]
      BY <1>2, <3>2
    <3>4. i - Len(a) = j - Len(a)
      BY <2>1, <2>3, <3>1, <3>3
    <3> QED
      BY <1>1, <3>4
  <2> QED
    BY <2>5, <2>6
<1> QED
  BY <1>3, <1>4, <1>5 DEF both

(* The accumulator over a whole timeline. *)
LEMMA SegmentTimelineUnfolds ==
  ASSUME NEW events \in Seq(EventKinds)
  PROVE  \E f \in [0..Len(events) -> [segments : Seq(Segment), pending : Buffer]] :
           /\ f[0] = [segments |-> <<>>, pending |-> <<>>]
           /\ \A n \in 1..Len(events) :
                f[n] = [segments |-> f[n - 1].segments \o Push(events, f[n - 1].pending, n).segments,
                        pending  |-> Push(events, f[n - 1].pending, n).pending]
           /\ SegmentTimeline(events) = f[Len(events)].segments \o Flushed(f[Len(events)].pending)
<1> DEFINE States == [segments : Seq(Segment), pending : Buffer]
           none == [segments |-> <<>>, pending |-> <<>>]
           After(v, n) == [segments |-> v.segments \o Push(events, v.pending, n).segments,
                           pending  |-> Push(events, v.pending, n).pending]
           step == [n \in 1..Len(events) |-> [v \in States |-> After(v, n)]]
           Def(f) == [n \in 0..Len(events) |-> IF n = 0 THEN none ELSE After(f[n - 1], n)]
           acc == CHOOSE f : f = Def(f)
<1>1. Len(events) \in Nat
  OBVIOUS
<1>2. ASSUME NEW n \in 1..Len(events), NEW v \in States
      PROVE  After(v, n) \in States
  <2>1. v.segments \in Seq(Segment) /\ v.pending \in Buffer
    OBVIOUS
  <2> DEFINE pushed == Push(events, v.pending, n)
  <2>2. pushed.segments \in Seq(Segment) /\ pushed.pending \in Buffer
    BY <2>1, PushTypes
  <2> HIDE DEF pushed
  <2>3. v.segments \o pushed.segments \in Seq(Segment)
    BY <2>1, <2>2, JoinedSegments
  <2> QED
    BY <2>2, <2>3 DEF pushed
<1>3. step \in [1..Len(events) -> [States -> States]]
  <2> HIDE DEF States, After
  <2> QED
    BY <1>2
<1>4. none \in States
  BY DEF Buffer
<1> HIDE DEF States, none, After
<1>5. PICK f \in [0..Len(events) -> States] :
        f[0] = none /\ \A n \in 1..Len(events) : f[n] = step[n][f[n - 1]]
  <2> HIDE DEF step
  <2>1. Leads(States, Len(events), none, step)
    BY <1>1, <1>3, <1>4, Recursion
  <2> QED
    BY <2>1 DEF Leads
<1>6. ASSUME NEW n \in 1..Len(events)
      PROVE  f[n] = After(f[n - 1], n)
  <2>1. n - 1 \in 0..Len(events)
    BY <1>1
  <2>2. f[n - 1] \in States /\ f[n] = step[n][f[n - 1]]
    BY <1>5, <2>1
  <2> QED
    BY <2>2
<1>7. f = Def(f)
  BY <1>1, <1>5, <1>6
<1>8. acc = Def(acc)
  <2> HIDE DEF Def
  <2> QED
    BY <1>7
<1>9. ASSUME NEW n \in Nat, n <= Len(events) => acc[n] = f[n], n + 1 <= Len(events)
      PROVE  acc[n + 1] = f[n + 1]
  <2>1. n + 1 \in 1..Len(events) /\ n + 1 \in 0..Len(events) /\ n + 1 # 0 /\ (n + 1) - 1 = n
    BY <1>1, <1>9
  <2>2. acc[n + 1] = After(acc[(n + 1) - 1], n + 1)
    <3> HIDE DEF acc
    <3> QED
      BY <1>8, <2>1
  <2> HIDE DEF acc
  <2> QED
    BY <1>1, <1>6, <1>9, <2>1, <2>2
<1>10. acc[0] = none
  <2> HIDE DEF acc
  <2> QED
    BY <1>1, <1>8
<1> DEFINE T == {n \in Nat : n <= Len(events) => acc[n] = f[n]}
<1>11. Nat \subseteq T
  <2>1. 0 \in T /\ \A n \in Nat : n \in T => n + 1 \in T
    <3> HIDE DEF acc
    <3> QED
      BY <1>5, <1>9, <1>10
  <2> HIDE DEF T
  <2> QED
    BY <2>1, Induction
<1>12. acc[Len(events)] = f[Len(events)]
  <2> HIDE DEF acc
  <2> QED
    BY <1>1, <1>11
<1>13. SegmentTimeline(events) = acc[Len(events)].segments \o Flushed(acc[Len(events)].pending)
  BY DEF SegmentTimeline, none, After
<1> HIDE DEF acc
<1> QED
  BY <1>5, <1>6, <1>12, <1>13 DEF States, none, After

(* segmentTimeline: every segment of the timeline, once. *)
LEMMA SegmentsFound ==
  ASSUME NEW events \in Seq(EventKinds)
  PROVE  /\ SegmentTimeline(events) \in Seq(Segment)
         /\ IsInjective(SegmentTimeline(events))
         /\ ToSet(SegmentTimeline(events)) = Found(events, Len(events))
<1>1. PICK f \in [0..Len(events) -> [segments : Seq(Segment), pending : Buffer]] :
        /\ f[0] = [segments |-> <<>>, pending |-> <<>>]
        /\ \A n \in 1..Len(events) :
             f[n] = [segments |-> f[n - 1].segments \o Push(events, f[n - 1].pending, n).segments,
                     pending  |-> Push(events, f[n - 1].pending, n).pending]
        /\ SegmentTimeline(events) = f[Len(events)].segments \o Flushed(f[Len(events)].pending)
  BY SegmentTimelineUnfolds
<1> DEFINE Right(n) == /\ IsInjective(f[n].segments)
                       /\ ToSet(f[n].segments) = Found(events, n) \ InBuffer(f[n].pending)
                       /\ BufferFits(events, n, f[n].pending)
                       /\ f[n].pending # <<>> \/ n = 0 \/ events[n] \notin Pieces
           T == {n \in Nat : n <= Len(events) => Right(n)}
<1>2. Len(events) \in Nat /\ \A n \in 0..Len(events) : f[n].segments \in Seq(Segment) /\ f[n].pending \in Buffer
  OBVIOUS
<1>3. 0 \in T
  <2>1. f[0].segments = <<>> /\ f[0].pending = <<>>
    BY <1>1
  <2>2. Found(events, 0) = {}
    BY DEF Found
  <2>3. IsInjective(<<>>) /\ ToSet(<<>>) = {}
    BY DEF IsInjective, ToSet
  <2>4. BufferFits(events, 0, <<>>) /\ InBuffer(<<>>) = {}
    BY DEF BufferFits, InBuffer
  <2> QED
    BY <2>1, <2>2, <2>3, <2>4
<1>4. ASSUME NEW n \in Nat, n \in T
      PROVE  n + 1 \in T
  <2> SUFFICES ASSUME n + 1 <= Len(events)
               PROVE  Right(n + 1)
    OBVIOUS
  <2>1. Right(n) /\ n + 1 \in 1..Len(events) /\ n \in 0..Len(events) /\ (n + 1) - 1 = n
    BY <1>2, <1>4
  <2>2. f[n].segments \in Seq(Segment) /\ f[n].pending \in Buffer
    BY <1>2, <2>1
  <2> DEFINE pushed == Push(events, f[n].pending, n + 1)
  <2>3. f[n + 1].segments = f[n].segments \o pushed.segments /\ f[n + 1].pending = pushed.pending
    <3> DEFINE m == (n + 1) - 1
    <3>1. f[n + 1] = [segments |-> f[m].segments \o Push(events, f[m].pending, n + 1).segments,
                      pending  |-> Push(events, f[m].pending, n + 1).pending]
      BY <1>1, <2>1, Zenon
    <3>2. m = n
      BY <2>1
    <3>3. f[m] = f[n] /\ Push(events, f[m].pending, n + 1) = pushed
      BY <3>2, Zenon
    <3> HIDE DEF m, pushed
    <3>4. f[n + 1] = [segments |-> f[n].segments \o pushed.segments, pending |-> pushed.pending]
      BY <3>1, <3>3, Zenon
    <3>5. PICK all, rest : all = f[n].segments \o pushed.segments /\ rest = pushed.pending
      OBVIOUS
    <3>6. f[n + 1] = [segments |-> all, pending |-> rest]
      BY <3>4, <3>5, Zenon
    <3>7. f[n + 1].segments = all /\ f[n + 1].pending = rest
      BY <3>6
    <3> QED
      BY <3>5, <3>7
  <2>4. pushed.segments \in Seq(Segment) /\ pushed.pending \in Buffer
    BY <2>1, <2>2, PushTypes
  <2>5. /\ BufferFits(events, n + 1, pushed.pending)
        /\ pushed.pending = <<>> => events[n + 1] \notin Pieces
        /\ IsInjective(pushed.segments)
        /\ Found(events, n + 1) \ InBuffer(pushed.pending) =
             (Found(events, n) \ InBuffer(f[n].pending)) \cup ToSet(pushed.segments)
        /\ ToSet(pushed.segments) \cap (Found(events, n) \ InBuffer(f[n].pending)) = {}
    BY <2>1, <2>2, PushFits
  <2> HIDE DEF pushed
  <2>6. /\ ToSet(f[n + 1].segments) = ToSet(f[n].segments) \cup ToSet(pushed.segments)
        /\ IsInjective(f[n + 1].segments)
    BY <2>1, <2>2, <2>3, <2>4, <2>5, JoinedSegments
  <2> QED
    BY <2>1, <2>3, <2>5, <2>6
<1>5. Right(Len(events))
  <2>1. Nat \subseteq T
    <3> HIDE DEF T
    <3> QED
      BY <1>3, <1>4, Induction
  <2>2. Len(events) \in T
    <3> HIDE DEF T
    <3> QED
      BY <1>2, <2>1
  <2>3. Len(events) <= Len(events)
    BY <1>2
  <2> HIDE DEF Right
  <2> QED
    BY <2>2, <2>3
<1> DEFINE last == f[Len(events)]
<1>6. /\ last.segments \in Seq(Segment) /\ last.pending \in Buffer
      /\ IsInjective(last.segments)
      /\ ToSet(last.segments) = Found(events, Len(events)) \ InBuffer(last.pending)
      /\ last.pending # <<>> => last.pending \in Found(events, Len(events))
  BY <1>2, <1>5 DEF BufferFits
<1>7. SegmentTimeline(events) = last.segments \o Flushed(last.pending)
  BY <1>1
<1> HIDE DEF last
<1>8. /\ Flushed(last.pending) \in Seq(Segment) /\ IsInjective(Flushed(last.pending))
      /\ ToSet(Flushed(last.pending)) = InBuffer(last.pending)
  <2>1. CASE last.pending = <<>>
    <3>1. IsInjective(<<>>) /\ ToSet(<<>>) = {} /\ <<>> \in Seq(Segment)
      BY DEF IsInjective, ToSet
    <3> QED
      BY <2>1, <3>1 DEF Flushed, InBuffer
  <2>2. CASE last.pending # <<>>
    <3>1. last.pending \in Segment
      BY <1>6, <2>2 DEF Buffer
    <3> QED
      BY <2>2, <3>1, FewSegments DEF Flushed, InBuffer
  <2> QED
    BY <2>1, <2>2
<1>9. InBuffer(last.pending) \subseteq Found(events, Len(events))
  BY <1>6 DEF InBuffer
<1>10. ToSet(last.segments) \cap ToSet(Flushed(last.pending)) = {}
  BY <1>6, <1>8
<1>11. ToSet(last.segments) \cup ToSet(Flushed(last.pending)) = Found(events, Len(events))
  BY <1>6, <1>8, <1>9
<1>12. LET all == last.segments \o Flushed(last.pending) IN
       /\ all \in Seq(Segment) /\ IsInjective(all)
       /\ ToSet(all) = ToSet(last.segments) \cup ToSet(Flushed(last.pending))
  BY <1>6, <1>8, <1>10, JoinedSegments
<1> QED
  BY <1>7, <1>11, <1>12

-----------------------------------------------------------------------------
(* Rows that are inserted once are there once. *)
LEMMA BagOfSegments ==
  ASSUME NEW segments \in Seq(Segment), IsInjective(segments)
  PROVE  AsBag(segments) = SetToBag(ToSet(segments))
<1>1. ASSUME NEW s \in ToSet(segments)
      PROVE  Cardinality({i \in DOMAIN segments : segments[i] = s}) = 1
  <2>1. PICK i \in DOMAIN segments : segments[i] = s
    BY DEF ToSet
  <2>2. {j \in DOMAIN segments : segments[j] = s} = {i}
    BY <2>1 DEF IsInjective
  <2> QED
    BY <2>2, FS_Singleton
<1> QED
  BY <1>1 DEF AsBag, SetToBag

(* Sets without a common member are counted together as they are apart. *)
LEMMA BagsApart ==
  ASSUME NEW S, NEW T, S \cap T = {}
  PROVE  SetToBag(S) (+) SetToBag(T) = SetToBag(S \cup T)
BY DEF SetToBag, (+)

(* The accumulator, flushed, gives the one segment in its buffer, or none. *)
LEMMA FlushedBag ==
  ASSUME NEW buffer \in Buffer
  PROVE  AsBag(Flushed(buffer)) = SetToBag(InBuffer(buffer))
<1>1. CASE buffer = <<>>
  <2>1. IsInjective(<<>>) /\ ToSet(<<>>) = {} /\ <<>> \in Seq(Segment)
    BY DEF IsInjective, ToSet
  <2> QED
    BY <1>1, <2>1, BagOfSegments DEF Flushed, InBuffer
<1>2. CASE buffer # <<>>
  <2>1. buffer \in Segment
    BY <1>2 DEF Buffer
  <2>2. IsInjective(<<buffer>>) /\ ToSet(<<buffer>>) = {buffer} /\ <<buffer>> \in Seq(Segment)
    BY <2>1, FewSegments
  <2> QED
    BY <1>2, <2>2, BagOfSegments DEF Flushed, InBuffer
<1> QED
  BY <1>1, <1>2

-----------------------------------------------------------------------------
WriteTask == [segments : Seq(Segment), seq : Nat]

SearchTypes ==
  /\ timeline \in Seq(EventKinds) /\ written \in 0..Len(timeline) /\ known \in BOOLEAN
  /\ indexed \in Nat /\ snapshot \in Seq(EventKinds) /\ pending \in Buffer
  /\ indexer \in {"down", "reading", "comparing", "ready", "stopping"}
  /\ writeQueue \in Seq(WriteTask) /\ spoken \in BOOLEAN

Queued == {s \in Segment : \E i \in 1..Len(writeQueue) : s \in ToSet(writeQueue[i].segments)}

(* What waits to be written: segments that one event has closed, later than what is indexed. *)
TaskFits(h, i) ==
  LET task == writeQueue[i] IN
  /\ IsInjective(task.segments) /\ task.seq \in 1..h /\ indexed < task.seq
  /\ ToSet(task.segments) \subseteq Found(timeline, h) \ InBuffer(pending)
  /\ \A s \in ToSet(task.segments) : Closer(timeline, s) = task.seq
  /\ \A j \in 1..Len(writeQueue) : i < j => task.seq < writeQueue[j].seq

(* What the first h events say is in the rows, in the queue or in the buffer, and in one of them only. *)
Heard(h) ==
  /\ BufferFits(timeline, h, pending)
  /\ \A i \in 1..Len(writeQueue) : TaskFits(h, i)
  /\ rows = SetToBag((Found(timeline, h) \ InBuffer(pending)) \ Queued)
  /\ \A s \in (Found(timeline, h) \ InBuffer(pending)) \ Queued : s[2] <= indexed
  /\ indexed <= h

(* Nobody listens: what the next catch-up passes over is complete. *)
AtRest ==
  /\ written = Len(timeline) /\ pending = <<>> /\ writeQueue = <<>> /\ ~spoken
  /\ indexed = written => rows = SetToBag(Found(timeline, written))
  /\ indexer = "comparing" => snapshot = timeline

Listening ==
  /\ Heard(Len(timeline))
  /\ spoken => \/ pending # <<>>
               \/ timeline = <<>>
               \/ timeline[Len(timeline)] \notin Pieces

SearchInv ==
  /\ SearchTypes
  /\ known => /\ indexed <= written
              /\ indexer \in {"down", "reading", "comparing"} => AtRest
              /\ indexer = "ready" => Listening
              /\ indexer = "stopping" => \E h \in 0..Len(timeline) : Heard(h)

(* It starts with nothing to find and nothing in the tables. *)
LEMMA SearchStarts ==
  ASSUME SearchInit
  PROVE  SearchInv
<1>1. Found(<<>>, 0) = {}
  BY DEF Found
<1>2. SearchTypes
  <2>1. <<>> \in Seq(EventKinds) /\ <<>> \in Seq(WriteTask) /\ <<>> \in Buffer /\ Len(<<>>) = 0
    BY DEF Buffer
  <2>2. 0 \in 0..Len(<<>>)
    BY <2>1
  <2>3. indexed \in Nat /\ known \in BOOLEAN /\ spoken \in BOOLEAN
    BY DEF SearchInit
  <2> QED
    BY <2>1, <2>2, <2>3, Zenon DEF SearchInit, SearchTypes
<1>3. AtRest
  BY <1>1 DEF SearchInit, AtRest, EmptyBag
<1> QED
  BY <1>2, <1>3 DEF SearchInit, SearchInv

(* What has been heard is there when no daemon listens any more: either the index is behind the
   file, and is made anew, or nothing was in the queue or in the buffer. *)
LEMMA RestIsComplete ==
  ASSUME SearchTypes, NEW h \in 0..Len(timeline), Heard(h), ~OpenerLast, indexed = written
  PROVE  rows = SetToBag(Found(timeline, written))
<1> DEFINE F == Found(timeline, h)
           W == Found(timeline, written)
           R == (F \ InBuffer(pending)) \ Queued
<1>1. /\ timeline \in Seq(EventKinds) /\ written \in 0..Len(timeline) /\ written <= h /\ written \in Nat
      /\ Len(timeline) \in Nat /\ h \in Nat
  BY DEF SearchTypes, Heard
<1>2. rows = SetToBag(R) /\ DOMAIN rows = R /\ \A s \in R : s[2] <= written
  BY DEF Heard, SetToBag
<1>3. ASSUME NEW s \in Queued, s[2] <= written
      PROVE  timeline[s[1]] # "user" /\ s[2] = written
  <2>1. PICK i \in 1..Len(writeQueue) : s \in ToSet(writeQueue[i].segments)
    BY DEF Queued
  <2>2. /\ s \in F /\ Closer(timeline, s) = writeQueue[i].seq /\ indexed < writeQueue[i].seq
        /\ writeQueue[i].seq \in 1..h
    BY <2>1 DEF Heard, TaskFits
  <2>3. s[2] \in 1..h
    BY <1>1, <2>2, FoundTypes
  <2> QED
    BY <1>1, <1>3, <2>2, <2>3 DEF Closer
<1>4. ASSUME NEW i \in 1..written, NEW j \in 1..written, i <= j
      PROVE  /\ <<i, j>> \in F => <<i, j>> \in W
             /\ <<i, j>> \in W /\ j # written => <<i, j>> \in F
             /\ <<i, j>> \in W /\ timeline[i] = "user" => <<i, j>> \in F
  <2>1. i \in 1..h /\ j \in 1..h /\ j \in i..j /\ i \in i..j
    BY <1>1, <1>4
  <2>2. "user" \notin Pieces
    BY DEF Pieces
  <2>3. RunIn(timeline, h, i, j) => RunIn(timeline, written, i, j)
    BY <1>1, <1>4 DEF RunIn
  <2>4. j # written /\ RunIn(timeline, written, i, j) => RunIn(timeline, h, i, j)
    BY <1>1, <1>4 DEF RunIn
  <2>5. RunIn(timeline, written, i, j) => timeline[i] \in Pieces
    BY <2>1 DEF RunIn
  <2> QED
    BY <1>4, <2>1, <2>2, <2>3, <2>4, <2>5 DEF Found
<1>5. ASSUME NEW s \in R
      PROVE  s \in W
  <2>1. PICK i \in 1..h, j \in 1..h : i <= j /\ s = <<i, j>>
    BY <1>1, FoundPairs
  <2>2. j <= written /\ i <= written /\ i \in Nat /\ j \in Nat
    BY <1>2, <1>1, <1>5, <2>1
  <2> QED
    BY <1>4, <1>5, <2>1, <2>2
<1>6. ASSUME NEW s \in W
      PROVE  s \in R
  <2>1. PICK i \in 1..written, j \in 1..written : i <= j /\ s = <<i, j>>
    BY <1>1, FoundPairs
  <2>2. CASE j # written \/ timeline[i] = "user"
    <3>1. s \in F /\ s[1] = i /\ s[2] = j
      BY <1>4, <1>6, <2>1, <2>2
    <3>2. s \notin Queued
      BY <1>3, <2>1, <2>2, <3>1
    <3>3. s \notin InBuffer(pending)
      <4>1. SUFFICES ASSUME pending = s, pending # <<>>
                     PROVE  FALSE
        BY DEF InBuffer
      <4>2. pending \in F /\ pending[2] = h /\ timeline[h] \in Pieces
        BY <4>1 DEF Heard, BufferFits
      <4>3. j = h /\ j = written /\ timeline[i] = "user"
        BY <1>1, <2>1, <2>2, <3>1, <4>1, <4>2
      <4>4. RunIn(timeline, h, i, j) \/ i = j
        BY <3>1, <1>1, FoundTypes
      <4>5. "user" \notin Pieces /\ i \in i..j
        BY <2>1 DEF Pieces
      <4> QED
        BY <4>2, <4>3, <4>4, <4>5 DEF RunIn
    <3> QED
      BY <3>1, <3>2, <3>3
  <2>3. CASE j = written /\ timeline[i] # "user"
    <3>1. RunIn(timeline, written, i, written)
      BY <1>6, <2>1, <2>3 DEF Found
    <3>2. timeline[written] \in Pieces /\ written > 0
      <4>1. written \in i..written
        BY <2>1, <2>3, <1>1
      <4> QED
        BY <2>1, <3>1, <4>1, <1>1 DEF RunIn
    <3>3. PICK t \in DOMAIN rows : ~(t[2] < written)
      BY <3>2 DEF OpenerLast
    <3>4. t \in R /\ t[2] <= written
      BY <1>2, <3>3
    <3>5. t \in W
      BY <1>5, <3>4
    <3>6. t[2] \in Nat
      BY <1>1, <3>5, FoundTypes
    <3>7. t[2] = written
      BY <1>1, <3>3, <3>4, <3>6
    <3>8. s[2] = t[2]
      BY <2>1, <2>3, <3>7
    <3>9. s = t
      BY <1>1, <1>6, <3>5, <3>8, OneEnd
    <3> QED
      BY <3>4, <3>9
  <2> QED
    BY <2>2, <2>3
<1>7. R = W
  BY <1>5, <1>6
<1> QED
  BY <1>2, <1>7

(* A timeline that has grown or lost its end behind the first h events says the same of these. *)
LEMMA HeardStays ==
  ASSUME SearchTypes, NEW h \in Nat, Heard(h), h <= Len(timeline),
         timeline' \in Seq(EventKinds), h <= Len(timeline'), \A k \in 1..h : timeline'[k] = timeline[k],
         UNCHANGED <<rows, indexed, pending, writeQueue>>
  PROVE  Heard(h)'
<1>1. /\ Found(timeline', h) = Found(timeline, h) /\ timeline \in Seq(EventKinds) /\ h \in 0..Len(timeline)
      /\ Found(timeline, h)' = Found(timeline, h)
  BY FoundSame DEF SearchTypes
<1>2. Queued' = Queued
  BY DEF Queued
<1>3. BufferFits(timeline, h, pending)'
  <2>1. pending # <<>> => h \in 1..h
    BY <1>1, FoundTypes DEF Heard, BufferFits
  <2> QED
    BY <1>1, <2>1 DEF Heard, BufferFits
<1>4. ASSUME NEW i \in 1..Len(writeQueue)
      PROVE  TaskFits(h, i)'
  <2>1. TaskFits(h, i)
    BY DEF Heard
  <2>2. ASSUME NEW s \in ToSet(writeQueue[i].segments)
        PROVE  Closer(timeline', s) = Closer(timeline, s)
    <3>1. s[1] \in 1..h
      BY <1>1, <2>1, FoundTypes DEF TaskFits
    <3> QED
      BY <3>1 DEF Closer
  <2> QED
    BY <1>1, <2>1, <2>2 DEF TaskFits
<1> QED
  BY <1>1, <1>2, <1>3, <1>4 DEF Heard

(* A catch-up that finds the file further on has every segment once. *)
LEMMA ComparedFits ==
  ASSUME SearchInv, CatchUpCompare
  PROVE  SearchInv'
<1> USE DEF CatchUpCompare
<1>1. SearchTypes'
  BY DEF SearchInv, SearchTypes
<1>2. SUFFICES ASSUME known
               PROVE  indexed' <= written' /\ Listening'
  BY <1>1 DEF SearchInv
<1>0. PICK n : n = Len(timeline)
  OBVIOUS
<1>3. /\ AtRest /\ SearchTypes /\ indexed <= n /\ written = n /\ n \in Nat /\ indexed \in Nat
      /\ timeline \in Seq(EventKinds) /\ snapshot = timeline /\ ~spoken
  BY <1>0, <1>2 DEF SearchInv, AtRest, SearchTypes
<1>4. rows' = SetToBag(Found(timeline, n)) /\ indexed' = n
  <2>1. CASE Len(snapshot) > indexed
    <3>1. AsBag(SegmentTimeline(timeline)) = SetToBag(Found(timeline, n))
      BY <1>0, <1>3, SegmentsFound, BagOfSegments
    <3> QED
      BY <1>0, <1>3, <2>1, <3>1
  <2>2. CASE ~(Len(snapshot) > indexed)
    BY <1>0, <1>3, <2>2 DEF AtRest
  <2> QED
    BY <2>1, <2>2
<1>5. pending' = <<>> /\ writeQueue' = <<>> /\ timeline' = timeline /\ written' = n /\ ~spoken'
  BY <1>3 DEF AtRest
<1>6. Queued' = {} /\ InBuffer(pending)' = {}
  BY <1>5 DEF Queued, InBuffer
<1>7. Heard(n)'
  <2>1. \A s \in Found(timeline, n) : s[2] <= n
    BY <1>0, <1>3, FoundTypes
  <2> QED
    <3>1. (Found(timeline, n) \ InBuffer(pending))' \ Queued' = Found(timeline, n)
      BY <1>5, <1>6
    <3>2. BufferFits(timeline, n, pending)' /\ Len(writeQueue') = 0 /\ n <= n
      BY <1>3, <1>5 DEF BufferFits
    <3> QED
      <4>1. \A i \in 1..Len(writeQueue') : TaskFits(n, i)'
        BY <3>2
      <4>2. rows' = SetToBag((Found(timeline, n) \ InBuffer(pending))' \ Queued')
        BY <1>4, <3>1
      <4>3. \A s \in (Found(timeline, n) \ InBuffer(pending))' \ Queued' : s[2] <= indexed'
        BY <1>4, <2>1, <3>1
      <4> QED
        BY <1>4, <3>2, <4>1, <4>2, <4>3 DEF Heard
<1>8. Listening'
  BY <1>0, <1>5, <1>7 DEF Listening
<1> QED
  BY <1>3, <1>4, <1>5, <1>8

(* What an event closes goes to the queue, what it opens or continues to the buffer. *)
LEMMA HearsEvent ==
  ASSUME SearchInv, known, indexer = "ready", Emit
  PROVE  Listening'
<1>0. PICK n : n = Len(timeline)
  OBVIOUS
<1> DEFINE pushed == Push(timeline', pending, n + 1)
<1>1. /\ SearchTypes /\ Heard(n) /\ timeline \in Seq(EventKinds) /\ n \in Nat /\ pending \in Buffer
      /\ writeQueue \in Seq(WriteTask) /\ indexed \in Nat
      /\ spoken => \/ pending # <<>>
                   \/ timeline = <<>>
                   \/ timeline[n] \notin Pieces
  BY <1>0 DEF SearchInv, Listening, SearchTypes
<1>2. PICK kind \in EventKinds : (spoken \/ kind = "user") /\ timeline' = Append(timeline, kind)
  BY DEF Emit
<1>3. /\ timeline' \in Seq(EventKinds) /\ Len(timeline') = n + 1 /\ timeline'[n + 1] = kind
      /\ \A k \in 1..n : timeline'[k] = timeline[k]
  BY <1>0, <1>1, <1>2
<1>4. /\ pending' = pushed.pending
      /\ writeQueue' = IF pushed.segments = <<>> THEN writeQueue
                       ELSE Append(writeQueue, [segments |-> pushed.segments, seq |-> n + 1])
      /\ UNCHANGED <<rows, indexed>>
  BY <1>3 DEF Emit
<1> DEFINE F == Found(timeline, n) \ InBuffer(pending)
           T == ToSet(pushed.segments)
           one == [segments |-> pushed.segments, seq |-> n + 1]
<1>5. Found(timeline', n) = Found(timeline, n) /\ n \in 0..Len(timeline)
  BY <1>0, <1>1, <1>3, FoundSame
<1>6. BufferFits(timeline', n, pending)
  <2>1. pending # <<>> => n \in 1..n
    BY <1>1, <1>5, FoundTypes DEF Heard, BufferFits
  <2> QED
    BY <1>1, <1>3, <1>5, <2>1 DEF Heard, BufferFits
<1>7. pushed.segments \in Seq(Segment) /\ pushed.pending \in Buffer
  <2>1. n + 1 \in 1..Len(timeline')
    BY <1>1, <1>3
  <2> QED
    BY <1>1, <1>3, <2>1, PushTypes
<1>8. \/ pending # <<>>
      \/ n = 0
      \/ timeline'[n] \notin Pieces
      \/ timeline'[n + 1] = "user"
  BY <1>0, <1>1, <1>2, <1>3
<1>9. /\ BufferFits(timeline', n + 1, pushed.pending)
      /\ pushed.pending = <<>> => timeline'[n + 1] \notin Pieces
      /\ IsInjective(pushed.segments)
      /\ Found(timeline', n + 1) \ InBuffer(pushed.pending) = F \cup T
      /\ T \cap F = {}
      /\ \A s \in T : Closer(timeline', s) = n + 1
  <2>1. n + 1 <= Len(timeline')
    BY <1>1, <1>3
  <2>2. timeline' \in Seq(EventKinds) /\ n \in Nat /\ pending \in Buffer /\ pushed = Push(timeline', pending, n + 1)
    BY <1>1, <1>3
  <2> HIDE DEF pushed
  <2>3. /\ BufferFits(timeline', n + 1, pushed.pending)
        /\ pushed.pending = <<>> => timeline'[n + 1] \notin Pieces
        /\ IsInjective(pushed.segments)
        /\ Found(timeline', n + 1) \ InBuffer(pushed.pending) =
             (Found(timeline', n) \ InBuffer(pending)) \cup ToSet(pushed.segments)
        /\ ToSet(pushed.segments) \cap (Found(timeline', n) \ InBuffer(pending)) = {}
        /\ \A s \in ToSet(pushed.segments) : Closer(timeline', s) = n + 1
    <3>1. PICK events, buffer, out : events = timeline' /\ buffer = pending /\ out = pushed
      OBVIOUS
    <3>2. /\ events \in Seq(EventKinds) /\ n \in Nat /\ n + 1 <= Len(events)
          /\ buffer \in Buffer /\ BufferFits(events, n, buffer)
          /\ \/ buffer # <<>>
             \/ n = 0
             \/ events[n] \notin Pieces
             \/ events[n + 1] = "user"
          /\ out = Push(events, buffer, n + 1)
      BY <1>6, <1>8, <2>1, <2>2, <3>1
    <3>3. Pushed(events, n, buffer, out)
      BY <3>2, PushGoesOn
    <3>4. /\ BufferFits(events, n + 1, out.pending)
          /\ out.pending = <<>> => events[n + 1] \notin Pieces
          /\ IsInjective(out.segments)
          /\ Found(events, n + 1) \ InBuffer(out.pending) =
               (Found(events, n) \ InBuffer(buffer)) \cup ToSet(out.segments)
          /\ ToSet(out.segments) \cap (Found(events, n) \ InBuffer(buffer)) = {}
          /\ \A s \in ToSet(out.segments) : Closer(events, s) = n + 1
      BY <3>3, Zenon DEF Pushed
    <3> QED
      BY <3>1, <3>4, Zenon
  <2> QED
    BY <1>5, <2>3, Zenon
<1> HIDE DEF pushed
<1>10. T \subseteq Segment
  BY <1>7 DEF ToSet
<1>11. /\ writeQueue' \in Seq(WriteTask)
       /\ \A i \in 1..Len(writeQueue) : i \in 1..Len(writeQueue') /\ writeQueue'[i] = writeQueue[i]
       /\ \A i \in 1..Len(writeQueue') : i \in 1..Len(writeQueue) \/ (writeQueue'[i] = one /\ i = Len(writeQueue) + 1)
       /\ T # {} => \E i \in 1..Len(writeQueue') : writeQueue'[i] = one
  <2>1. one \in WriteTask /\ one.segments = pushed.segments /\ one.seq = n + 1
    BY <1>1, <1>7 DEF WriteTask
  <2>2. CASE pushed.segments = <<>>
    <3>1. T = {}
      BY <2>2 DEF ToSet
    <3> QED
      BY <1>1, <1>4, <2>2, <3>1
  <2>3. CASE pushed.segments # <<>>
    <3> HIDE DEF one
    <3>1. writeQueue' = Append(writeQueue, one)
      BY <1>4, <2>3 DEF one
    <3>2. /\ writeQueue' \in Seq(WriteTask) /\ Len(writeQueue') = Len(writeQueue) + 1
          /\ \A i \in 1..Len(writeQueue) : writeQueue'[i] = writeQueue[i]
          /\ writeQueue'[Len(writeQueue) + 1] = one
      BY <1>1, <2>1, <3>1
    <3>3. Len(writeQueue) \in Nat
      BY <1>1
    <3> QED
      BY <3>2, <3>3
  <2> QED
    BY <2>2, <2>3
<1>12. one.segments = pushed.segments /\ one.seq = n + 1
  OBVIOUS
<1> HIDE DEF one
<1>13. Queued' = Queued \cup T
  <2>1. ASSUME NEW s \in Queued'
        PROVE  s \in Queued \cup T
    <3>1. PICK i \in 1..Len(writeQueue') : s \in ToSet(writeQueue'[i].segments)
      BY DEF Queued
    <3> QED
      BY <1>11, <1>12, <2>1, <3>1 DEF Queued
  <2>2. ASSUME NEW s \in Queued
        PROVE  s \in Queued'
    <3>1. PICK i \in 1..Len(writeQueue) : s \in ToSet(writeQueue[i].segments)
      BY DEF Queued
    <3> QED
      BY <1>11, <2>2, <3>1 DEF Queued
  <2>3. ASSUME NEW s \in T
        PROVE  s \in Queued'
    <3>1. PICK i \in 1..Len(writeQueue') : writeQueue'[i] = one
      BY <1>11, <2>3
    <3> QED
      BY <1>10, <1>12, <2>3, <3>1 DEF Queued
  <2> QED
    BY <2>1, <2>2, <2>3
<1>14. Queued \subseteq F
  BY <1>1 DEF Queued, Heard, TaskFits
<1>15. (Found(timeline', n + 1) \ InBuffer(pending')) \ Queued' = F \ Queued
  BY <1>4, <1>9, <1>13
<1>16. ASSUME NEW i \in 1..Len(writeQueue')
       PROVE  TaskFits(n + 1, i)'
  <2>1. CASE i \in 1..Len(writeQueue)
    <3>1. TaskFits(n, i) /\ writeQueue'[i] = writeQueue[i]
      BY <1>1, <1>11, <2>1 DEF Heard
    <3>2. ASSUME NEW s \in ToSet(writeQueue[i].segments)
          PROVE  Closer(timeline', s) = writeQueue[i].seq
      <4>1. s \in Found(timeline, n) /\ Closer(timeline, s) = writeQueue[i].seq
        BY <3>1 DEF TaskFits
      <4>2. s[1] \in 1..n
        BY <1>1, <1>5, <4>1, FoundTypes
      <4> QED
        BY <1>3, <4>1, <4>2 DEF Closer
    <3>3. ASSUME NEW j \in 1..Len(writeQueue'), i < j
          PROVE  writeQueue[i].seq < writeQueue'[j].seq
      <4>1. CASE j \in 1..Len(writeQueue)
        BY <1>11, <3>1, <3>3, <4>1 DEF TaskFits
      <4>2. CASE j \notin 1..Len(writeQueue)
        <5>1. writeQueue'[j].seq = n + 1
          BY <1>11, <1>12, <4>2
        <5>2. writeQueue[i].seq \in 1..n
          BY <3>1 DEF TaskFits
        <5> QED
          BY <1>1, <5>1, <5>2
      <4> QED
        BY <4>1, <4>2
    <3>4. ToSet(writeQueue[i].segments) \subseteq F
      BY <3>1 DEF TaskFits
    <3>5. writeQueue[i].seq \in 1..(n + 1) /\ indexed < writeQueue[i].seq /\ IsInjective(writeQueue[i].segments)
      BY <1>1, <3>1 DEF TaskFits
    <3> QED
      BY <1>4, <1>9, <3>1, <3>2, <3>3, <3>4, <3>5 DEF TaskFits
  <2>2. CASE i \notin 1..Len(writeQueue)
    <3>1. writeQueue'[i].segments = pushed.segments /\ writeQueue'[i].seq = n + 1 /\ i = Len(writeQueue) + 1
      BY <1>11, <1>12, <2>2
    <3>2. \A j \in 1..Len(writeQueue') : ~(i < j)
      <4>1. Len(writeQueue) \in Nat
        BY <1>1
      <4> QED
        BY <1>11, <3>1, <4>1
    <3>3. indexed < n + 1 /\ n + 1 \in 1..(n + 1)
      BY <1>1 DEF Heard
    <3> QED
      BY <1>4, <1>9, <3>1, <3>2, <3>3 DEF TaskFits
  <2> QED
    BY <2>1, <2>2
<1>17. Heard(n + 1)'
  <2>1. rows = SetToBag(F \ Queued) /\ (\A s \in F \ Queued : s[2] <= indexed) /\ indexed <= n + 1
    BY <1>1 DEF Heard
  <2>2. BufferFits(timeline, n + 1, pending)'
    BY <1>4, <1>9
  <2> HIDE DEF F
  <2> QED
    BY <1>4, <1>15, <1>16, <2>1, <2>2 DEF Heard
<1>18. pending' # <<>> \/ timeline'[n + 1] \notin Pieces
  BY <1>4, <1>9
<1> QED
  BY <1>3, <1>17, <1>18 DEF Listening

(* appendSegments: the rows get what the head of the queue has. *)
LEMMA WritesSegments ==
  ASSUME SearchTypes, NEW h \in Nat, h <= Len(timeline), Heard(h), known, IndexWrite
  PROVE  Heard(h)' /\ indexed' = writeQueue[1].seq /\ writeQueue # <<>>
<1> DEFINE F == Found(timeline, h) \ InBuffer(pending)
           T == ToSet(writeQueue[1].segments)
<1>1. /\ writeQueue # <<>> /\ writeQueue \in Seq(WriteTask) /\ Len(writeQueue) \in Nat /\ indexed \in Nat
      /\ timeline \in Seq(EventKinds) /\ h \in 0..Len(timeline) /\ 1 \in 1..Len(writeQueue)
      /\ Head(writeQueue) = writeQueue[1] /\ writeQueue' = Tail(writeQueue)
      /\ UNCHANGED <<timeline, pending>>
  BY DEF SearchTypes, IndexWrite
<1>d. writeQueue[1] \in WriteTask
  BY <1>1
<1>2. writeQueue[1] \in WriteTask /\ writeQueue[1].segments \in Seq(Segment) /\ writeQueue[1].seq \in Nat
  BY <1>d DEF WriteTask
<1>3. /\ TaskFits(h, 1) /\ IsInjective(writeQueue[1].segments) /\ indexed < writeQueue[1].seq
      /\ T \subseteq F /\ \A s \in T : Closer(timeline, s) = writeQueue[1].seq
      /\ writeQueue[1].seq <= h
  <2>1. TaskFits(h, 1) /\ h \in Nat
    BY <1>1 DEF Heard
  <2> QED
    BY <2>1 DEF TaskFits
<1>4. rows' = rows (+) AsBag(writeQueue[1].segments) /\ indexed' = writeQueue[1].seq
  BY <1>1, <1>3 DEF IndexWrite
<1>5. /\ writeQueue' \in Seq(WriteTask) /\ Len(writeQueue') = Len(writeQueue) - 1
      /\ \A i \in 1..Len(writeQueue') : i + 1 \in 1..Len(writeQueue) /\ writeQueue'[i] = writeQueue[i + 1]
      /\ \A i \in 1..Len(writeQueue) : i # 1 => i - 1 \in 1..Len(writeQueue') /\ writeQueue'[i - 1] = writeQueue[i]
  <2>1. /\ writeQueue' \in Seq(WriteTask) /\ Len(writeQueue') = Len(writeQueue) - 1
        /\ \A i \in 1..Len(writeQueue') : writeQueue'[i] = writeQueue[i + 1]
    BY <1>1
  <2>2. \A i \in 1..Len(writeQueue) : i # 1 => i - 1 \in 1..Len(writeQueue') /\ (i - 1) + 1 = i
    BY <1>1, <2>1
  <2> QED
    BY <1>1, <2>1, <2>2
<1>6. Queued = T \cup Queued'
  <2>1. ASSUME NEW s \in Queued
        PROVE  s \in T \cup Queued'
    <3>1. PICK i \in 1..Len(writeQueue) : s \in ToSet(writeQueue[i].segments)
      BY DEF Queued
    <3>2. CASE i = 1
      BY <3>1, <3>2
    <3>3. CASE i # 1
      <4>1. i - 1 \in 1..Len(writeQueue') /\ writeQueue'[i - 1] = writeQueue[i]
        BY <1>5, <3>3
      <4> QED
        BY <2>1, <3>1, <4>1 DEF Queued
    <3> QED
      BY <3>2, <3>3
  <2>2. T \subseteq Queued
    <3>1. T \subseteq Segment
      BY <1>2 DEF ToSet
    <3> QED
      BY <1>1, <3>1 DEF Queued
  <2>3. Queued' \subseteq Queued
    BY <1>5 DEF Queued
  <2> QED
    BY <2>1, <2>2, <2>3
<1>7. ASSUME NEW i \in 1..Len(writeQueue')
      PROVE  TaskFits(h, i + 1) /\ writeQueue[1].seq < writeQueue[i + 1].seq
  <2>1. i + 1 \in 1..Len(writeQueue) /\ 1 < i + 1
    BY <1>5
  <2> QED
    BY <1>3, <2>1 DEF Heard, TaskFits
<1>8. T \cap Queued' = {}
  <2>1. ASSUME NEW s \in T, s \in Queued'
        PROVE  FALSE
    <3>1. PICK i \in 1..Len(writeQueue') : s \in ToSet(writeQueue'[i].segments)
      BY <2>1 DEF Queued
    <3>2. Closer(timeline, s) = writeQueue[i + 1].seq
      BY <1>5, <1>7, <3>1 DEF TaskFits
    <3>3. Closer(timeline, s) = writeQueue[1].seq
      BY <1>3
    <3>4. writeQueue[1].seq < writeQueue[i + 1].seq /\ writeQueue[1].seq \in Nat
      BY <1>2, <1>7
    <3> QED
      BY <3>2, <3>3, <3>4
  <2> QED
    BY <2>1
<1>9. rows = SetToBag(F \ Queued) /\ (\A s \in F \ Queued : s[2] <= indexed)
  BY DEF Heard
<1>10. (F \ Queued) \cup T = F \ Queued' /\ (F \ Queued) \cap T = {}
  BY <1>3, <1>6, <1>8
<1>11. rows' = SetToBag(F \ Queued')
  <2>1. AsBag(writeQueue[1].segments) = SetToBag(T)
    BY <1>2, <1>3, BagOfSegments
  <2> HIDE DEF F, T
  <2> QED
    BY <1>4, <1>9, <1>10, <2>1, BagsApart
<1>12. ASSUME NEW s \in F \ Queued'
       PROVE  s[2] <= indexed'
  <2>1. s[2] \in Nat
    BY <1>1, FoundTypes
  <2>2. CASE s \in T
    <3>1. Closer(timeline, s) = writeQueue[1].seq
      BY <1>3, <2>2
    <3> QED
      BY <1>4, <2>1, <3>1 DEF Closer
  <2>3. CASE s \notin T
    <3>1. s[2] <= indexed
      BY <1>9, <1>10, <2>3
    <3> QED
      BY <1>1, <1>2, <1>3, <1>4, <2>1, <3>1
  <2> QED
    BY <2>2, <2>3
<1>13. ASSUME NEW i \in 1..Len(writeQueue')
       PROVE  TaskFits(h, i)'
  <2>1. TaskFits(h, i + 1) /\ writeQueue[1].seq < writeQueue[i + 1].seq /\ writeQueue'[i] = writeQueue[i + 1]
    BY <1>5, <1>7
  <2>2. ASSUME NEW j \in 1..Len(writeQueue'), i < j
        PROVE  writeQueue[i + 1].seq < writeQueue'[j].seq
    <3>1. j + 1 \in 1..Len(writeQueue) /\ i + 1 < j + 1 /\ writeQueue'[j] = writeQueue[j + 1]
      BY <1>5, <2>2
    <3> QED
      BY <2>1, <3>1 DEF TaskFits
  <2> QED
    BY <1>1, <1>4, <2>1, <2>2 DEF TaskFits
<1>14. BufferFits(timeline, h, pending)'
  BY <1>1 DEF Heard, BufferFits
<1>15. Heard(h)'
  BY <1>1, <1>3, <1>4, <1>11, <1>12, <1>13, <1>14 DEF Heard
<1> QED
  BY <1>1, <1>4, <1>15

(* An event adds what it closes to the queue, and nothing when the index is stopping. *)
LEMMA EmitFits ==
  ASSUME SearchInv, Barred(SearchRaces), Emit
  PROVE  SearchInv'
<1>1. /\ known /\ UNCHANGED <<written, known, rows, indexed, indexer, snapshot>>
      /\ indexer \in {"ready", "stopping"} /\ SearchTypes
  BY SearchRacesBarred DEF Emit, Up, SearchInv, SearchTypes
<1>2. PICK kind \in EventKinds : timeline' = Append(timeline, kind)
  BY DEF Emit
<1>3. /\ timeline' \in Seq(EventKinds) /\ Len(timeline') = Len(timeline) + 1 /\ Len(timeline) \in Nat
      /\ \A k \in 1..Len(timeline) : timeline'[k] = timeline[k]
  BY <1>1, <1>2 DEF SearchTypes
<1>4. SearchTypes'
  <2>1. pending' \in Buffer /\ writeQueue' \in Seq(WriteTask)
    <3>1. CASE indexer = "stopping"
      BY <1>1, <3>1 DEF Emit, SearchTypes
    <3>2. CASE indexer # "stopping"
      <4> DEFINE pushed == Push(timeline', pending, Len(timeline'))
      <4>1. /\ pending' = pushed.pending
            /\ writeQueue' = IF pushed.segments = <<>> THEN writeQueue
                             ELSE Append(writeQueue, [segments |-> pushed.segments, seq |-> Len(timeline')])
        BY <3>2 DEF Emit
      <4>2. pushed.segments \in Seq(Segment) /\ pushed.pending \in Buffer
        <5>1. Len(timeline') \in 1..Len(timeline') /\ pending \in Buffer
          BY <1>1, <1>3 DEF SearchTypes
        <5> QED
          BY <1>3, <5>1, PushTypes
      <4> HIDE DEF pushed
      <4>3. [segments |-> pushed.segments, seq |-> Len(timeline')] \in WriteTask
        BY <1>3, <4>2 DEF WriteTask
      <4>4. writeQueue \in Seq(WriteTask)
        BY <1>1 DEF SearchTypes
      <4> QED
        BY <4>1, <4>2, <4>3, <4>4
    <3> QED
      BY <3>1, <3>2
  <2>2. written' \in 0..Len(timeline') /\ spoken' = TRUE
    BY <1>1, <1>3 DEF SearchTypes, Emit
  <2> QED
    BY <1>1, <1>3, <2>1, <2>2 DEF SearchTypes
<1>5. CASE indexer = "ready"
  <2>1. Listening'
    BY <1>1, <1>5, HearsEvent
  <2> QED
    BY <1>1, <1>4, <1>5, <2>1 DEF SearchInv
<1>6. CASE indexer = "stopping"
  <2>1. PICK h \in 0..Len(timeline) : Heard(h)
    BY <1>1, <1>6 DEF SearchInv
  <2>2. h \in Nat /\ h <= Len(timeline) /\ h <= Len(timeline') /\ h \in 0..Len(timeline')
        /\ \A k \in 1..h : timeline'[k] = timeline[k]
    BY <1>3
  <2>3. UNCHANGED <<rows, indexed, pending, writeQueue>>
    BY <1>6 DEF Emit
  <2>4. Heard(h)'
    BY <1>1, <1>3, <2>1, <2>2, <2>3, HeardStays
  <2> QED
    BY <1>1, <1>4, <1>6, <2>2, <2>4 DEF SearchInv
<1> QED
  BY <1>1, <1>5, <1>6

(* A task of the queue takes its segments into the rows. *)
LEMMA IndexWriteFits ==
  ASSUME SearchInv, Barred(SearchRaces), IndexWrite
  PROVE  SearchInv'
<1>1. /\ SearchTypes /\ writeQueue # <<>> /\ writeQueue \in Seq(WriteTask)
      /\ writeQueue' = Tail(writeQueue) /\ writeQueue[1] \in WriteTask
      /\ UNCHANGED <<timeline, written, known, indexer, snapshot, pending, spoken>>
      /\ writeQueue[1].seq <= written
  <2>1. /\ SearchTypes /\ writeQueue # <<>> /\ writeQueue \in Seq(WriteTask)
    BY DEF SearchInv, SearchTypes, IndexWrite
  <2>2. Head(writeQueue) = writeQueue[1] /\ writeQueue[1] \in WriteTask
    BY <2>1
  <2> QED
    BY <2>1, <2>2, SearchRacesBarred DEF IndexWrite
<1>2. writeQueue' \in Seq(WriteTask) /\ indexed' \in Nat
  <2>1. writeQueue[1].seq \in Nat /\ Head(writeQueue) = writeQueue[1]
    BY <1>1 DEF WriteTask
  <2>2. indexed' = indexed \/ indexed' = writeQueue[1].seq
    BY <2>1 DEF IndexWrite
  <2> QED
    BY <1>1, <2>1, <2>2 DEF SearchTypes
<1>3. SearchTypes'
  BY <1>1, <1>2 DEF SearchTypes
<1>4. SUFFICES ASSUME known
               PROVE  /\ indexed' <= written'
                      /\ indexer' \in {"down", "reading", "comparing"} => AtRest'
                      /\ indexer' = "ready" => Listening'
                      /\ indexer' = "stopping" => \E h \in 0..Len(timeline') : Heard(h)'
  BY <1>1, <1>3 DEF SearchInv
<1>5. indexer \in {"ready", "stopping"}
  BY <1>1, <1>4 DEF SearchInv, SearchTypes, AtRest
<1>6. \A h \in Nat : Heard(h) /\ h <= Len(timeline) => Heard(h)' /\ indexed' = writeQueue[1].seq
  BY <1>1, <1>4, WritesSegments
<1>7. CASE indexer = "ready"
  <2>0. PICK n : n = Len(timeline)
    OBVIOUS
  <2>1. Heard(n) /\ n \in Nat
    BY <1>1, <1>4, <1>7, <2>0 DEF SearchInv, Listening, SearchTypes
  <2>2. Heard(n)' /\ indexed' = writeQueue[1].seq
    BY <1>6, <2>0, <2>1
  <2>3. Listening'
    BY <1>1, <1>4, <1>7, <2>0, <2>2 DEF SearchInv, Listening
  <2> QED
    BY <1>1, <1>7, <2>2, <2>3
<1>8. CASE indexer = "stopping"
  <2>1. PICK h \in 0..Len(timeline) : Heard(h)
    BY <1>4, <1>8 DEF SearchInv
  <2>2. h \in Nat /\ h <= Len(timeline)
    BY <1>1 DEF SearchTypes
  <2>3. Heard(h)' /\ indexed' = writeQueue[1].seq
    BY <1>6, <2>1, <2>2
  <2> QED
    BY <1>1, <1>8, <2>3
<1> QED
  BY <1>5, <1>7, <1>8

(* A crash leaves the file and the tables, and the tables are complete or behind the file. *)
LEMMA DieFits ==
  ASSUME SearchInv, Barred(SearchRaces), Die
  PROVE  SearchInv'
<1>1. /\ SearchTypes /\ timeline \in Seq(EventKinds) /\ written \in 0..Len(timeline) /\ Len(timeline) \in Nat
      /\ timeline' = SubSeq(timeline, 1, written) /\ indexer' = "down" /\ snapshot' = <<>> /\ pending' = <<>>
      /\ writeQueue' = <<>> /\ spoken' = FALSE /\ UNCHANGED <<written, known, rows, indexed>> /\ ~OpenerLast
  BY SearchRacesBarred DEF Die, SearchInv, SearchTypes
<1>2. /\ timeline' \in Seq(EventKinds) /\ Len(timeline') = written /\ written \in Nat
      /\ \A k \in 1..written : timeline'[k] = timeline[k]
  BY <1>1
<1>3. SearchTypes'
  <2>1. written \in 0..Len(timeline') /\ <<>> \in Buffer /\ <<>> \in Seq(WriteTask) /\ <<>> \in Seq(EventKinds)
    BY <1>2 DEF Buffer
  <2>2. indexed' \in Nat /\ known' \in BOOLEAN /\ spoken' \in BOOLEAN
    BY <1>1 DEF SearchTypes
  <2>3. /\ timeline' \in Seq(EventKinds) /\ written' \in 0..Len(timeline') /\ snapshot' \in Seq(EventKinds)
        /\ pending' \in Buffer /\ writeQueue' \in Seq(WriteTask)
        /\ indexer' \in {"down", "reading", "comparing", "ready", "stopping"}
    BY <1>1, <1>2, <2>1
  <2> QED
    BY <2>2, <2>3 DEF SearchTypes
<1>4. SUFFICES ASSUME known
               PROVE  indexed <= written /\ AtRest'
  BY <1>1, <1>3 DEF SearchInv
<1>5. indexed <= written
  BY <1>4 DEF SearchInv
<1>6. Found(timeline', written) = Found(timeline, written)
  <2>1. written <= Len(timeline) /\ written <= Len(timeline')
    BY <1>1, <1>2
  <2> QED
    BY <1>1, <1>2, <2>1, FoundSame
<1>7. ASSUME indexed = written
      PROVE  rows = SetToBag(Found(timeline, written))
  <2>1. CASE indexer \in {"down", "reading", "comparing"}
    BY <1>4, <1>7, <2>1 DEF SearchInv, AtRest
  <2>2. CASE indexer \in {"ready", "stopping"}
    <3>1. PICK h \in 0..Len(timeline) : Heard(h)
      BY <1>1, <1>4, <2>2 DEF SearchInv, Listening
    <3> QED
      BY <1>1, <1>7, <3>1, RestIsComplete
  <2> QED
    BY <1>1, <2>1, <2>2 DEF SearchTypes
<1> QED
  BY <1>1, <1>2, <1>5, <1>6, <1>7 DEF AtRest

(* A stop that has emptied the queue leaves the tables complete or behind the file. *)
LEMMA EndStopFits ==
  ASSUME SearchInv, Barred(SearchRaces), EndStop
  PROVE  SearchInv'
<1>1. /\ SearchTypes /\ indexer = "stopping" /\ writeQueue = <<>> /\ written = Len(timeline) /\ ~OpenerLast
      /\ indexer' = "down" /\ pending' = <<>> /\ spoken' = FALSE
      /\ UNCHANGED <<timeline, written, known, rows, indexed, snapshot, writeQueue>>
  BY SearchRacesBarred DEF EndStop, SearchInv
<1>2. SearchTypes'
  BY <1>1 DEF SearchTypes, Buffer
<1>3. SUFFICES ASSUME known
               PROVE  indexed <= written /\ AtRest'
  BY <1>1, <1>2 DEF SearchInv
<1>4. PICK h \in 0..Len(timeline) : Heard(h)
  BY <1>1, <1>3 DEF SearchInv
<1>5. indexed = written => rows = SetToBag(Found(timeline, written))
  BY <1>1, <1>4, RestIsComplete
<1> QED
  BY <1>1, <1>3, <1>5 DEF AtRest, SearchInv

(* Every step keeps the invariant of the index. *)
LEMMA SearchStep ==
  ASSUME SearchInv, Barred(SearchRaces), SearchNext \/ UNCHANGED searchVars
  PROVE  SearchInv'
<1>1. CASE CatchUpRead
  <2>1. SubSeq(timeline, 1, Len(timeline)) = timeline /\ timeline \in Seq(EventKinds) /\ SearchTypes
    BY DEF SearchInv, SearchTypes
  <2>2. SubSeq(timeline, 1, written) \in Seq(EventKinds)
    BY <2>1 DEF SearchTypes
  <2>3. SearchTypes'
    BY <1>1, <2>1, <2>2 DEF CatchUpRead, SearchTypes
  <2>4. known /\ AtRest /\ indexed <= written
    BY <1>1 DEF CatchUpRead, SearchInv
  <2>5. AtRest'
    BY <1>1, <2>1, <2>4 DEF CatchUpRead, AtRest
  <2> QED
    BY <1>1, <2>3, <2>4, <2>5 DEF CatchUpRead, SearchInv
<1>2. CASE CatchUpCompare
  BY <1>2, ComparedFits
<1>3. CASE CatchUpRemove
  BY <1>3 DEF CatchUpRemove, SearchInv, SearchTypes
<1>4. CASE Emit
  BY <1>4, EmitFits
<1>5. CASE TimelineWrite
  <2>1. /\ SearchTypes /\ written' = written + 1 /\ written < Len(timeline)
        /\ UNCHANGED <<timeline, known, rows, indexed, indexer, snapshot, pending, writeQueue, spoken>>
    BY <1>5 DEF TimelineWrite, SearchInv
  <2>2. SearchTypes' /\ written \in Nat /\ indexed \in Nat
    BY <2>1 DEF SearchTypes
  <2>3. \A h : Heard(h)' <=> Heard(h)
    BY <2>1 DEF Heard, BufferFits, TaskFits, Queued
  <2>4. Listening => Listening'
    <3>1. PICK n : n = Len(timeline)
      OBVIOUS
    <3> QED
      BY <2>1, <2>3, <3>1 DEF Listening
  <2>5. indexed <= written => indexed' <= written'
    BY <2>1, <2>2
  <2> QED
    BY <2>1, <2>2, <2>3, <2>4, <2>5 DEF SearchInv, AtRest
<1>6. CASE IndexWrite
  BY <1>6, IndexWriteFits
<1>7. CASE IndexWriteFails
  BY <1>7, SearchRacesBarred DEF IndexWriteFails, SearchInv, SearchTypes
<1>8. CASE DeleteSession
  BY <1>8 DEF DeleteSession, SearchInv, SearchTypes
<1>9. CASE BeginStop
  <2>1. /\ SearchTypes /\ indexer = "ready" /\ indexer' = "stopping"
        /\ UNCHANGED <<timeline, written, known, rows, indexed, snapshot, pending, writeQueue, spoken>>
    BY <1>9 DEF BeginStop, SearchInv
  <2>2. SearchTypes' /\ Len(timeline) \in 0..Len(timeline)
    BY <2>1 DEF SearchTypes
  <2>3. \A h : Heard(h)' <=> Heard(h)
    BY <2>1 DEF Heard, BufferFits, TaskFits, Queued
  <2>4. Listening => \E h \in 0..Len(timeline) : Heard(h)
    BY <2>2 DEF Listening
  <2> QED
    BY <2>1, <2>2, <2>3, <2>4 DEF SearchInv
<1>10. CASE EndStop
  BY <1>10, EndStopFits
<1>11. CASE Die
  BY <1>11, DieFits
<1>12. CASE StartIndexer
  BY <1>12 DEF StartIndexer, SearchInv, SearchTypes, AtRest
<1>13. CASE UNCHANGED searchVars
  <2>1. \A h : Heard(h)' <=> Heard(h)
    BY <1>13 DEF searchVars, Heard, BufferFits, TaskFits, Queued
  <2>2. Listening => Listening'
    <3>1. PICK n : n = Len(timeline)
      OBVIOUS
    <3> QED
      BY <1>13, <2>1, <3>1 DEF Listening, searchVars
  <2> QED
    BY <1>13, <2>1, <2>2 DEF searchVars, SearchInv, SearchTypes, AtRest
<1> QED
  BY <1>1, <1>2, <1>3, <1>4, <1>5, <1>6, <1>7, <1>8, <1>9, <1>10, <1>11, <1>12, <1>13 DEF SearchNext

(* When nothing waits, what is in the rows and in the buffer is all there is to find, once. *)
LEMMA IndexIsComplete ==
  ASSUME SearchInv
  PROVE  IndexFollowsTimeline
<1> SUFFICES ASSUME indexer = "ready", writeQueue = <<>>, known
             PROVE  rows (+) AsBag(Flushed(pending)) = SetToBag(Searchable(timeline))
  BY DEF IndexFollowsTimeline
<1>0. PICK n : n = Len(timeline)
  OBVIOUS
<1>1. /\ Heard(n) /\ timeline \in Seq(EventKinds) /\ n \in 0..Len(timeline) /\ pending \in Buffer
  BY <1>0 DEF SearchInv, Listening, SearchTypes
<1>2. Queued = {}
  BY DEF Queued
<1>3. rows = SetToBag(Found(timeline, n) \ InBuffer(pending)) /\ InBuffer(pending) \subseteq Found(timeline, n)
  BY <1>1, <1>2 DEF Heard, BufferFits, InBuffer
<1>4. AsBag(Flushed(pending)) = SetToBag(InBuffer(pending))
  BY <1>1, FlushedBag
<1>5. rows (+) AsBag(Flushed(pending)) = SetToBag(Found(timeline, n))
  <2>1. (Found(timeline, n) \ InBuffer(pending)) \cap InBuffer(pending) = {}
    OBVIOUS
  <2>2. (Found(timeline, n) \ InBuffer(pending)) \cup InBuffer(pending) = Found(timeline, n)
    BY <1>3
  <2> QED
    BY <1>3, <1>4, <2>1, <2>2, BagsApart
<1>6. Searchable(timeline) = Found(timeline, n)
  <2>1. SubSeq(timeline, 1, n) = timeline
    BY <1>0, <1>1
  <2> QED
    BY <1>1, <2>1, SearchablePrefix
<1> QED
  BY <1>5, <1>6
=============================================================================
