------------------------------ MODULE Migrator ------------------------------
(* ash-sql's Migrator: calls of run, rollback and rollback_to on one       *)
(* database, from several processes and directories of scripts. A call     *)
(* takes its process's lock and its directory's, reads what is recorded,   *)
(* and has the executor apply or revert one version after another.         *)
(*                                                                         *)
(* Sqlite and Postgres check, run the script and record it in one          *)
(* transaction that keeps other migrators out ("transaction"); an executor *)
(* with the trait's own apply_migration does them in calls of their own    *)
(* ("calls"), and has only the two locks.                                  *)
(*                                                                         *)
(* Scripts are abstracted to their effect: the up script of a version puts *)
(* it in place once more, the down script once less. Reading a file and    *)
(* connecting fail within GiveUp.                                          *)
EXTENDS Integers

CONSTANTS
  Migrators,     \* callers, each making one call at a time
  None,          \* nobody
  Sites,         \* where they run: functions from Migrators to [process, directory]
  Files,         \* the versions each directory has an up script for
  Downs,         \* the versions that have a down script
  MaxVersion,    \* versions are 1..MaxVersion
  MaxCall,       \* bound: calls made
  MaxCrash       \* bound: processes that die

Versions == 1..MaxVersion

VARIABLES
  executor,      \* "transaction" or "calls"
  site,          \* of each migrator
  process,       \* who holds each process's PROCESS_LOCK
  file,          \* who holds each directory's .ash.lock
  database,      \* who holds the database's migration lock
  recorded,      \* _ash_schema_migrations: the versions in it
  effect,        \* how often each version's script is in effect
  torn,          \* history: versions whose script and record came apart
  undone,        \* history: what others undid since a call last looked
  call,          \* each migrator's call, and how far it is
  calls,         \* calls made
  crashes        \* processes that died

locks == <<process, file>>
store == <<recorded, effect, torn>>
given == <<executor, site>>
vars == <<executor, site, process, file, database, recorded, effect, torn, undone,
          call, calls, crashes>>

Process(m) == site[m].process
Directory(m) == site[m].directory
Scripts(m) == Files[Directory(m)]

Processes == {"p1", "p2"}
Directories == DOMAIN Files

ASSUME NobodyAssumption == None \notin Migrators
ASSUME BoundAssumption == MaxVersion \in Nat /\ MaxCall \in Nat /\ MaxCrash \in Nat
ASSUME SiteAssumption ==
  Sites \subseteq [Migrators -> [process : Processes, directory : Directories]]
ASSUME ScriptAssumption == \A d \in Directories : Files[d] \subseteq Versions

\* The latest of no versions is 0, before them all.
Latest(set) == CHOOSE v \in set \cup {0} : \A w \in set : w <= v
Earliest(set) == CHOOSE v \in set : \A w \in set : v <= w

(* An executor without a transaction of its own is safe where the locks    *)
(* keep all its migrators apart.                                           *)
OneLock ==
  \/ \A m, n \in Migrators : Process(m) = Process(n)
  \/ \A m, n \in Migrators : Directory(m) = Directory(n) /\ Scripts(m) # {}

Idle == [op |-> "none", target |-> 0, at |-> "idle", pending |-> {}, version |-> 0]

Call ==
  [op : {"none", "run", "rollback", "rollback_to"},
   target : 0..MaxVersion,
   at : {"idle", "process", "file", "target", "look", "next", "step", "work", "record"},
   pending : SUBSET Versions,
   version : 0..MaxVersion]

Init ==
  /\ executor \in {"transaction", "calls"}
  /\ site \in Sites
  /\ executor = "calls" => OneLock
  /\ process = [p \in Processes |-> None]
  /\ file = [d \in Directories |-> None]
  /\ database = None
  /\ recorded \in SUBSET Versions
  /\ effect = [v \in Versions |-> IF v \in recorded THEN 1 ELSE 0]
  /\ torn = {}
  /\ undone = [m \in Migrators |-> {}]
  /\ call = [m \in Migrators |-> Idle]
  /\ calls = 0
  /\ crashes = 0

---------------------------------------------------------------------------
(* The call                                                                *)

At(m, place) == call[m].at = place

Goes(m, place) == call' = [call EXCEPT ![m].at = place]

Ups(m) == call[m].op = "run"

Ask(m, op, target) ==
  /\ At(m, "idle")
  /\ calls < MaxCall
  /\ calls' = calls + 1
  /\ call' = [call EXCEPT ![m] = [Idle EXCEPT !.op = op, !.target = target, !.at = "process"]]
  /\ UNCHANGED <<given, locks, database, store, undone, crashes>>

Starts(m) == CASE Ups(m) -> "look"
               [] call[m].op = "rollback" -> "look"
               [] OTHER -> "target"

(* PROCESS_LOCK first. A directory that is not there has no lock, and no   *)
(* scripts.                                                                *)
LockProcess(m) ==
  /\ At(m, "process")
  /\ process[Process(m)] = None
  /\ process' = [process EXCEPT ![Process(m)] = m]
  /\ Goes(m, IF Scripts(m) = {} THEN Starts(m) ELSE "file")
  /\ UNCHANGED <<given, file, database, store, undone, calls, crashes>>

(* try_lock, every 20 ms until it is given.                                *)
LockFile(m) ==
  /\ At(m, "file")
  /\ file[Directory(m)] = None
  /\ file' = [file EXCEPT ![Directory(m)] = m]
  /\ Goes(m, Starts(m))
  /\ UNCHANGED <<given, process, database, store, undone, calls, crashes>>

Freed(lock, who) == [k \in DOMAIN lock |-> IF lock[k] \in who THEN None ELSE lock[k]]

(* The call returns, with its answer or an error: both locks are let go.   *)
Unlocked(m) ==
  /\ call' = [call EXCEPT ![m] = Idle]
  /\ process' = Freed(process, {m})
  /\ file' = Freed(file, {m})

Return(m) ==
  /\ Unlocked(m)
  /\ UNCHANGED <<given, database, store, undone, calls, crashes>>

\* Mutant: the transaction of a failed step is left open.
GiveUpLocked(m) ==
  /\ call[m].at \in {"target", "look", "next", "step", "work"}
  /\ Unlocked(m)
  /\ UNCHANGED <<given, database, store, undone, calls, crashes>>

(* Any step may fail: a script that cannot be read, a connection, a query, *)
(* the executor's own statements (in a transaction: all of them undone).   *)
GiveUp(m) ==
  /\ call[m].at \in {"target", "look", "next", "step", "work"}
  /\ Unlocked(m)
  /\ database' = IF database = m THEN None ELSE database
  /\ UNCHANGED <<given, store, undone, calls, crashes>>

Looked(m) == undone' = [undone EXCEPT ![m] = {}]

\* Mutant: the target itself is undone as well.
LookAtOrPast(m) ==
  /\ At(m, "target")
  /\ recorded # {} /\ Latest(recorded) >= call[m].target
  /\ Goes(m, "look")
  /\ Looked(m)
  /\ UNCHANGED <<given, locks, database, store, calls, crashes>>

(* rollback_to: is there anything later than the target?                   *)
LookAtTarget(m) ==
  /\ At(m, "target")
  /\ Latest(recorded) > call[m].target
  /\ Goes(m, "look")
  /\ Looked(m)
  /\ UNCHANGED <<given, locks, database, store, calls, crashes>>

Reached(m) ==
  /\ At(m, "target")
  /\ Latest(recorded) <= call[m].target
  /\ Return(m)

\* Mutant: only versions later than the latest one applied.
PendingLater(m) == {v \in Scripts(m) : v > Latest(recorded)}

(* run: what is pending is read once. *)
Pending(m) == Scripts(m) \ recorded

LookForPending(m) ==
  /\ At(m, "look")
  /\ Ups(m)
  /\ call' = [call EXCEPT ![m].at = "next", ![m].pending = Pending(m)]
  /\ Looked(m)
  /\ UNCHANGED <<given, locks, database, store, calls, crashes>>

NextPending(m) ==
  /\ At(m, "next")
  /\ call[m].pending # {}
  /\ call' = [call EXCEPT ![m].at = "step", ![m].version = Earliest(call[m].pending)]
  /\ UNCHANGED <<given, locks, database, store, undone, calls, crashes>>

NothingPending(m) ==
  /\ At(m, "next")
  /\ call[m].pending = {}
  /\ Return(m)

(* rollback: the latest version, and the script that undoes it. rollback_to *)
(* looked before this, and does not look again whether it is past its       *)
(* target.                                                                  *)
LookForLatest(m) ==
  /\ At(m, "look")
  /\ ~Ups(m)
  /\ Latest(recorded) \in Scripts(m) \cap Downs
  /\ call' = [call EXCEPT ![m].at = "step", ![m].version = Latest(recorded)]
  /\ IF call[m].op = "rollback" THEN Looked(m) ELSE UNCHANGED undone
  /\ UNCHANGED <<given, locks, database, store, calls, crashes>>

(* Nothing is recorded, or the latest version has no script here: None, or *)
(* an error.                                                               *)
NothingToUndo(m) ==
  /\ At(m, "look")
  /\ ~Ups(m)
  /\ Latest(recorded) \notin Scripts(m) \cap Downs
  /\ Return(m)

---------------------------------------------------------------------------
(* The executor                                                            *)

\* Mutant: a version recorded may be undone, the latest or not.
WantedIfRecorded(m) ==
  LET v == call[m].version
  IN  IF Ups(m) THEN v \notin recorded ELSE v \in recorded

(* The guard of a step: the version is not recorded yet, or is the latest. *)
Wanted(m) ==
  LET v == call[m].version
  IN  IF Ups(m) THEN v \notin recorded ELSE v = Latest(recorded)

Transacted == executor = "transaction"

\* Mutant: the guard was the look before the lock.
BeginUnguarded(m) ==
  /\ At(m, "step")
  /\ Transacted => database = None
  /\ database' = IF Transacted THEN m ELSE database
  /\ Goes(m, "work")
  /\ UNCHANGED <<given, locks, store, undone, calls, crashes>>

(* apply_migration and revert_migration: the lock where there is one, then *)
(* the guard.                                                              *)
Begin(m) ==
  /\ At(m, "step")
  /\ Transacted => database = None
  /\ Wanted(m)
  /\ database' = IF Transacted THEN m ELSE database
  /\ Goes(m, "work")
  /\ UNCHANGED <<given, locks, store, undone, calls, crashes>>

\* Mutant: the same version is tried again.
DeclineAgain(m) ==
  /\ At(m, "step")
  /\ Transacted => database = None
  /\ ~Wanted(m)
  /\ UNCHANGED vars

(* The guard fails: the transaction is rolled back, run goes on to what is *)
(* pending next, rollback looks again.                                     *)
Passed(m) == IF Ups(m) THEN "next" ELSE "look"

Decline(m) ==
  /\ At(m, "step")
  /\ Transacted => database = None
  /\ ~Wanted(m)
  /\ call' = [call EXCEPT ![m].at = Passed(m), ![m].pending = @ \ {call[m].version}]
  /\ UNCHANGED <<given, locks, database, store, undone, calls, crashes>>

Recorded(m) ==
  LET v == call[m].version
  IN  recorded' = IF Ups(m) THEN recorded \cup {v} ELSE recorded \ {v}

ScriptRuns(m) ==
  effect' = [effect EXCEPT ![call[m].version] = IF Ups(m) THEN @ + 1 ELSE @ - 1]

(* What the others' calls do not know of. *)
Known(m) ==
  undone' = IF Ups(m) THEN undone
            ELSE [n \in Migrators |->
                   IF n = m THEN undone[n] ELSE undone[n] \cup {call[m].version}]

(* The version is done: rollback returns, rollback_to looks at its target. *)
Done(m) ==
  IF call[m].op = "rollback"
  THEN Unlocked(m)
  ELSE /\ call' = [call EXCEPT ![m].at = IF Ups(m) THEN "next" ELSE "target",
                               ![m].pending = @ \ {call[m].version}]
       /\ UNCHANGED locks

Commit(m) ==
  /\ At(m, "work")
  /\ Transacted
  /\ ScriptRuns(m)
  /\ Recorded(m)
  /\ Known(m)
  /\ Done(m)
  /\ database' = None
  /\ UNCHANGED <<given, torn, calls, crashes>>

(* The answer to COMMIT is lost: it was made, and the call fails.          *)
CommitUnheard(m) ==
  /\ At(m, "work")
  /\ Transacted
  /\ ScriptRuns(m)
  /\ Recorded(m)
  /\ Known(m)
  /\ Unlocked(m)
  /\ database' = None
  /\ UNCHANGED <<given, torn, calls, crashes>>

(* execute_script, then record_migration or remove_migration.              *)
RunScript(m) ==
  /\ At(m, "work")
  /\ ~Transacted
  /\ ScriptRuns(m)
  /\ Goes(m, "record")
  /\ UNCHANGED <<given, locks, database, recorded, torn, undone, calls, crashes>>

(* The script fails part of the way: what it did so far stays.             *)
ScriptBreaks(m) ==
  /\ At(m, "work")
  /\ ~Transacted
  /\ torn' = torn \cup {call[m].version}
  /\ Unlocked(m)
  /\ UNCHANGED <<given, database, recorded, effect, undone, calls, crashes>>

Record(m) ==
  /\ At(m, "record")
  /\ Recorded(m)
  /\ Known(m)
  /\ Done(m)
  /\ UNCHANGED <<given, database, effect, torn, calls, crashes>>

RecordFails(m) ==
  /\ At(m, "record")
  /\ torn' = torn \cup {call[m].version}
  /\ Unlocked(m)
  /\ UNCHANGED <<given, database, recorded, effect, undone, calls, crashes>>

---------------------------------------------------------------------------
(* A process dies: with it its calls, its locks, and its transaction.      *)
Crash(p) ==
  LET dead == {m \in Migrators : Process(m) = p}
  IN  /\ crashes < MaxCrash
      /\ \E m \in dead : ~At(m, "idle")
      /\ crashes' = crashes + 1
      /\ call' = [m \in Migrators |-> IF m \in dead THEN Idle ELSE call[m]]
      /\ process' = Freed(process, dead)
      /\ file' = Freed(file, dead)
      /\ database' = IF database \in dead THEN None ELSE database
      /\ torn' = torn \cup {call[m].version : m \in {n \in dead : At(n, "record")}}
      /\ UNCHANGED <<given, recorded, effect, undone, calls>>

Asks(m) ==
  \/ \E op \in {"run", "rollback"} : Ask(m, op, 0)
  \/ \E target \in 0..MaxVersion : Ask(m, "rollback_to", target)

Works(m) ==
  \/ LockProcess(m) \/ LockFile(m) \/ LookAtTarget(m) \/ Reached(m)
  \/ LookForPending(m) \/ NextPending(m) \/ NothingPending(m)
  \/ LookForLatest(m) \/ NothingToUndo(m)
  \/ Begin(m) \/ Decline(m) \/ Commit(m) \/ CommitUnheard(m)
  \/ RunScript(m) \/ ScriptBreaks(m) \/ Record(m) \/ RecordFails(m)

Next ==
  \/ \E m \in Migrators : Asks(m) \/ Works(m) \/ GiveUp(m)
  \/ \E p \in Processes : Crash(p)

Spec == Init /\ [][Next]_vars

(* A call that can take a step takes one: tokio polls it, the file lock is *)
(* tried every 20 ms, and the database gives its lock to whoever waits.    *)
(* Nobody has to call, fail or die.                                        *)
FairSpec == Spec /\ \A m \in Migrators : WF_vars(Works(m))

---------------------------------------------------------------------------

Holding(m) == call[m].at \notin {"idle", "process"}

(* What each variable holds.                                                *)
Shape ==
  /\ executor \in {"transaction", "calls"}
  /\ site \in Sites
  /\ process \in [Processes -> Migrators \cup {None}]
  /\ file \in [Directories -> Migrators \cup {None}]
  /\ database \in Migrators \cup {None}
  /\ recorded \in SUBSET Versions
  /\ effect \in [Versions -> Int]
  /\ torn \in SUBSET Versions
  /\ undone \in [Migrators -> SUBSET Versions]
  /\ call \in [Migrators -> Call]
  /\ calls \in 0..MaxCall
  /\ crashes \in 0..MaxCrash

HeldBy(m) ==
  /\ Holding(m) <=> process[Process(m)] = m
  /\ Scripts(m) # {} => ((Holding(m) /\ ~At(m, "file")) <=> file[Directory(m)] = m)
  /\ (database = m) <=> (Transacted /\ At(m, "work"))

(* Types, and who holds what: a process's lock is held by its own call     *)
(* under way, a directory's by one past it, the database's by one at work. *)
TypeOK == Shape /\ \A m \in Migrators : HeldBy(m)

(* Every version recorded has had its script run exactly once, and no      *)
(* other has: whoever else migrates, whatever fails or dies. An executor   *)
(* without a transaction is excused the versions whose script ran and      *)
(* whose record failed, which never happens to one with a transaction.     *)
Between(v) == \E m \in Migrators : At(m, "record") /\ call[m].version = v

ScriptsAreRecorded ==
  /\ Transacted => torn = {}
  /\ \A v \in Versions :
       v \notin torn /\ ~Between(v) => effect[v] = (IF v \in recorded THEN 1 ELSE 0)

(* A run misses nothing: while it works, every version it has a script for *)
(* is recorded, still ahead of it, or undone by somebody since it looked;  *)
(* so it applies them in their order, around those of other branches too.  *)
RunMissesNothing ==
  \A m \in Migrators :
    /\ Ups(m)
    /\ call[m].at \in {"next", "step", "work", "record"}
    => /\ Scripts(m) \subseteq recorded \cup call[m].pending \cup undone[m]
       /\ At(m, "next") \/ call[m].version = Earliest(call[m].pending)

(* rollback_to undoes its target, or what came before it, only where       *)
(* somebody else undid meanwhile the version it saw above the target.      *)
UndoesBelowTarget(m) ==
  /\ call[m].op = "rollback_to"
  /\ At(m, "work") \/ At(m, "record")
  /\ \E v \in recorded \ recorded' : v <= call[m].target

TargetIsKept ==
  [][\A m \in Migrators :
       UndoesBelowTarget(m) /\ call'[m] # call[m]
         => \E v \in undone[m] : v > call[m].target]_vars

(* Whatever migrators do, the history recorded changes as SchemaHistory    *)
(* says: a step applies one version not recorded, or undoes the latest.    *)
H == INSTANCE SchemaHistory WITH applied <- recorded

HistoryIsKept == H!Spec

(* Every call returns, or dies with its process: no lock is left behind,   *)
(* and a rollback that finds itself overtaken does not look forever.       *)
CallsReturn == \A m \in Migrators : (~At(m, "idle")) ~> At(m, "idle")
=============================================================================
