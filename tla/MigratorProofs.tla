---------------------------- MODULE MigratorProofs ----------------------------
(* Proofs about Migrator: for any migrators, sites, directories and        *)
(* versions, whatever fails or dies.                                       *)
EXTENDS Migrator, WellFoundedInduction, TLAPS

(* A set of naturals has a smallest.                                       *)
LEMMA Smallest ==
  ASSUME NEW S \in SUBSET Nat, S # {}
  PROVE  \E v \in S : \A w \in S : v <= w
<1>. DEFINE Less == OpToRel(<, Nat)
<1>1. PICK v \in S : \A w \in S : <<w, v>> \notin Less
  BY NatLessThanWellFounded, WFMin
<1>2. \A w, x \in Nat : w < x => <<w, x>> \in Less
  BY DEF OpToRel
<1>3. S \subseteq Nat
  OBVIOUS
<1>. HIDE DEF Less
<1>4. \A w \in S : ~(w < v)
  BY <1>1, <1>2, <1>3, Zenon
<1>. QED
  BY <1>3, <1>4

(* A set of versions has a latest one, or 0 before them all.               *)
LEMMA LatestIs ==
  ASSUME NEW S \in SUBSET Versions
  PROVE  Latest(S) \in S \cup {0} /\ \A w \in S : w <= Latest(S)
<1>. DEFINE T == {MaxVersion - v : v \in S \cup {0}}
<1>1. \A v \in S \cup {0} : v \in Int /\ MaxVersion - v \in Nat
  BY BoundAssumption DEF Versions
<1>2. PICK t \in T : \A u \in T : t <= u
  <2>1. T \in SUBSET Nat /\ T # {}
    BY <1>1
  <2>. HIDE DEF T
  <2>. QED
    BY <2>1, Smallest
<1>3. PICK v \in S \cup {0} : t = MaxVersion - v
  BY <1>2
<1>4. \A w \in S \cup {0} : w <= v
  BY <1>1, <1>2, <1>3, BoundAssumption
<1>. HIDE DEF T
<1>. QED
  BY <1>4 DEF Latest

(* And if there are any, an earliest.                                      *)
LEMMA EarliestIs ==
  ASSUME NEW S \in SUBSET Versions, S # {}
  PROVE  Earliest(S) \in S
<1>1. S \in SUBSET Nat
  BY BoundAssumption DEF Versions
<1>2. \E v \in S : \A w \in S : v <= w
  BY <1>1, Smallest
<1>. QED
  BY <1>2 DEF Earliest

LEMMA SiteType ==
  ASSUME Shape, NEW m \in Migrators
  PROVE  Process(m) \in Processes /\ Directory(m) \in Directories /\ Scripts(m) \subseteq Versions
  BY SiteAssumption, ScriptAssumption DEF Shape, Process, Directory, Scripts

---------------------------------------------------------------------------
(* How far a call is says what it knows: the version it works on, that its *)
(* guard holds while it works, and that only an executor with calls of its *)
(* own records apart from the script.                                      *)
Knows(m) ==
  /\ At(m, "file") => Scripts(m) # {}
  /\ call[m].at \in {"step", "work", "record"} => call[m].version \in Versions
  /\ At(m, "work") \/ At(m, "record") => Wanted(m)
  /\ At(m, "record") => ~Transacted

Knowledge == (Transacted \/ OneLock) /\ \A m \in Migrators : Knows(m)

(* Two migrators are never at work at once: the database's lock keeps them *)
(* apart, or the one lock there is between them.                           *)
LEMMA AloneAtWork ==
  ASSUME TypeOK, Knowledge, NEW m \in Migrators, NEW n \in Migrators,
         At(m, "work") \/ At(m, "record"), At(n, "work") \/ At(n, "record")
  PROVE  m = n
<1>1. CASE Transacted
  BY <1>1 DEF TypeOK, HeldBy, Knowledge, Knows
<1>2. CASE \A i, j \in Migrators : Process(i) = Process(j)
  BY <1>2 DEF TypeOK, HeldBy, Holding, At
<1>3. CASE \A i, j \in Migrators : Directory(i) = Directory(j) /\ Scripts(i) # {}
  BY <1>3 DEF TypeOK, HeldBy, Holding, At
<1>. QED
  BY <1>1, <1>2, <1>3 DEF Knowledge, OneLock

LEMMA TypeInit == Init => TypeOK
<1>. SUFFICES ASSUME Init PROVE TypeOK
  OBVIOUS
<1>1. Shape
  BY BoundAssumption DEF Init, Shape, Idle, Call, Versions
<1>. QED
  BY <1>1, SiteType, NobodyAssumption DEF Init, TypeOK, HeldBy, Holding, At, Idle

(* A call that moves on, keeping its locks and the database's.             *)
LEMMA MovesOn ==
  ASSUME TypeOK, NEW m \in Migrators,
         call' \in [Migrators -> Call],
         \A n \in Migrators \ {m} : call'[n] = call[n],
         call[m].at \notin {"idle", "process", "file"},
         call'[m].at \notin {"idle", "process", "file"},
         Transacted => (At(m, "work") <=> call'[m].at = "work"),
         recorded' \in SUBSET Versions, effect' \in [Versions -> Int],
         torn' \in SUBSET Versions, undone' \in [Migrators -> SUBSET Versions],
         UNCHANGED <<given, locks, database, calls, crashes>>
  PROVE  TypeOK'
<1>1. Shape'
  BY DEF TypeOK, Shape, given, locks
<1>2. ASSUME NEW n \in Migrators PROVE HeldBy(n)'
  <2>1. HeldBy(n)
    BY DEF TypeOK
  <2>. QED
    BY <2>1
       DEF HeldBy, Holding, At, Process, Scripts, Directory, Transacted, given, locks
<1>. QED
  BY <1>1, <1>2 DEF TypeOK

LEMMA FreedType ==
  ASSUME NEW K, NEW lock \in [K -> Migrators \cup {None}], NEW who
  PROVE  /\ Freed(lock, who) \in [K -> Migrators \cup {None}]
         /\ \A k \in K, n \in Migrators :
              Freed(lock, who)[k] = n <=> lock[k] = n /\ n \notin who
  BY NobodyAssumption DEF Freed

(* A call that returns lets go of what it held, the database's lock too.   *)
LEMMA Returns ==
  ASSUME TypeOK, NEW m \in Migrators, Unlocked(m),
         At(m, "work") /\ Transacted => database' = None,
         ~(At(m, "work") /\ Transacted) => database' = database,
         recorded' \in SUBSET Versions, effect' \in [Versions -> Int],
         torn' \in SUBSET Versions, undone' \in [Migrators -> SUBSET Versions],
         UNCHANGED <<given, calls, crashes>>
  PROVE  TypeOK'
<1>1. /\ process' \in [Processes -> Migrators \cup {None}]
      /\ file' \in [Directories -> Migrators \cup {None}]
      /\ \A p \in Processes, n \in Migrators : process'[p] = n <=> process[p] = n /\ n # m
      /\ \A d \in Directories, n \in Migrators : file'[d] = n <=> file[d] = n /\ n # m
  BY FreedType DEF TypeOK, Shape, Unlocked
<1>2. Idle \in Call
  BY BoundAssumption DEF Idle, Call
<1>3. Shape'
  <2>1. database' \in Migrators \cup {None}
    BY DEF TypeOK, Shape
  <2>. QED
    BY <1>1, <1>2, <2>1 DEF TypeOK, Shape, Unlocked, given
<1>4. ASSUME NEW n \in Migrators PROVE HeldBy(n)'
  <2>1. HeldBy(n) /\ HeldBy(m)
    BY DEF TypeOK
  <2>2. call'[n] = IF n = m THEN Idle ELSE call[n]
    BY DEF TypeOK, Shape, Unlocked
  <2>3. Process(n) \in Processes /\ Directory(n) \in Directories
    BY SiteType DEF TypeOK
  <2>4. database' = n <=> database = n /\ n # m
    BY <2>1, NobodyAssumption DEF HeldBy, TypeOK, Shape
  <2>. QED
    BY <1>1, <2>1, <2>2, <2>3, <2>4
       DEF HeldBy, Holding, At, Process, Scripts, Directory, Transacted, given, Idle
<1>. QED
  BY <1>3, <1>4 DEF TypeOK

LEMMA TypeAsk ==
  ASSUME TypeOK, NEW m \in Migrators, Asks(m)
  PROVE  TypeOK'
<1>1. PICK op \in {"run", "rollback", "rollback_to"}, target \in 0..MaxVersion :
        Ask(m, op, target)
  BY BoundAssumption DEF Asks
<1>. DEFINE asked == [Idle EXCEPT !.op = op, !.target = target, !.at = "process"]
<1>2. asked \in Call /\ asked.at = "process"
  <2>1. Idle \in Call
    BY BoundAssumption DEF Idle, Call
  <2>. QED
    BY <2>1 DEF Call
<1>3. call' = [call EXCEPT ![m] = asked]
  BY <1>1 DEF Ask
<1>. HIDE DEF asked
<1>5. Shape'
  BY <1>1, <1>2, <1>3, BoundAssumption DEF TypeOK, Shape, Ask, given, locks, store
<1>4. ASSUME NEW n \in Migrators PROVE HeldBy(n)'
  <2>1. HeldBy(n)
    BY DEF TypeOK
  <2>2. call'[n].at = IF n = m THEN "process" ELSE call[n].at
    BY <1>2, <1>3 DEF TypeOK, Shape
  <2>3. call[m].at = "idle"
    BY <1>1 DEF Ask, At
  <2>. QED
    BY <1>1, <2>1, <2>2, <2>3
       DEF Ask, HeldBy, Holding, At, Process, Scripts, Directory, Transacted, given, locks
<1>. QED
  BY <1>4, <1>5 DEF TypeOK

LEMMA GoesType ==
  ASSUME Shape, NEW m \in Migrators, NEW place,
         place \in {"file", "target", "look", "next", "step", "work", "record"},
         Goes(m, place)
  PROVE  /\ call' \in [Migrators -> Call]
         /\ call'[m].at = place /\ call'[m].version = call[m].version
         /\ call'[m].op = call[m].op
         /\ call'[m].pending = call[m].pending /\ call'[m].target = call[m].target
         /\ \A n \in Migrators \ {m} : call'[n] = call[n]
<1>1. call[m] \in Call
  BY DEF Shape
<1>2. [call[m] EXCEPT !.at = place] \in Call
  BY <1>1 DEF Call
<1>3. call' = [call EXCEPT ![m] = [call[m] EXCEPT !.at = place]]
  BY DEF Goes
<1>. QED
  BY <1>1, <1>2, <1>3 DEF Shape, Call

LEMMA TypeLock ==
  ASSUME TypeOK, NEW m \in Migrators, LockProcess(m) \/ LockFile(m) \/ Begin(m)
  PROVE  TypeOK'
<1>0. Shape /\ HeldBy(m) /\ Process(m) \in Processes /\ Directory(m) \in Directories
  BY SiteType DEF TypeOK
<1>1. CASE LockProcess(m)
  <2>1. PICK place \in {"file", "target", "look"} : 
          Goes(m, place) /\ (place = "file" <=> Scripts(m) # {})
    BY <1>1 DEF LockProcess, Starts
  <2>2. call' \in [Migrators -> Call] /\ call'[m].at = place
        /\ \A n \in Migrators \ {m} : call'[n] = call[n]
    BY <1>0, <2>1, GoesType
  <2>3. Shape'
    BY <1>1, <2>2 DEF TypeOK, Shape, LockProcess, given, store
  <2>4. ASSUME NEW n \in Migrators PROVE HeldBy(n)'
    <3>1. HeldBy(n)
      BY DEF TypeOK
    <3>2. process'[Process(n)] = IF Process(n) = Process(m) THEN m ELSE process[Process(n)]
      BY <1>0, <1>1, SiteType DEF LockProcess, Shape
    <3>3. UNCHANGED <<Process(n), Scripts(n), Directory(n), Transacted, database, file>>
      BY <1>1 DEF LockProcess, given, Process, Scripts, Directory, Transacted
    <3>4. call[m].at = "process" /\ process[Process(m)] = None
      BY <1>1 DEF LockProcess, At
    <3>. QED
      BY <1>0, <2>1, <2>2, <3>1, <3>2, <3>3, <3>4, NobodyAssumption DEF HeldBy, Holding, At
  <2>. QED
    BY <2>3, <2>4 DEF TypeOK
<1>2. CASE LockFile(m)
  <2>1. PICK place \in {"target", "look"} : Goes(m, place)
    BY <1>2 DEF LockFile, Starts
  <2>2. call' \in [Migrators -> Call] /\ call'[m].at = place
        /\ \A n \in Migrators \ {m} : call'[n] = call[n]
    BY <1>0, <2>1, GoesType
  <2>3. Shape'
    BY <1>2, <2>2 DEF TypeOK, Shape, LockFile, given, store
  <2>4. ASSUME NEW n \in Migrators PROVE HeldBy(n)'
    <3>1. HeldBy(n)
      BY DEF TypeOK
    <3>2. file'[Directory(n)] = IF Directory(n) = Directory(m) THEN m ELSE file[Directory(n)]
      BY <1>0, <1>2, SiteType DEF LockFile, Shape
    <3>3. UNCHANGED <<Process(n), Scripts(n), Directory(n), Transacted, database, process>>
      BY <1>2 DEF LockFile, given, Process, Scripts, Directory, Transacted
    <3>4. call[m].at = "file" /\ file[Directory(m)] = None
      BY <1>2 DEF LockFile, At
    <3>. QED
      BY <1>0, <2>1, <2>2, <3>1, <3>2, <3>3, <3>4, NobodyAssumption
         DEF HeldBy, Holding, At, Scripts
  <2>. QED
    BY <2>3, <2>4 DEF TypeOK
<1>3. CASE Begin(m)
  <2>1. call' \in [Migrators -> Call] /\ call'[m].at = "work"
        /\ \A n \in Migrators \ {m} : call'[n] = call[n]
    BY <1>0, <1>3, GoesType DEF Begin
  <2>2. Shape'
    BY <1>3, <2>1 DEF TypeOK, Shape, Begin, given, locks, store
  <2>3. ASSUME NEW n \in Migrators PROVE HeldBy(n)'
    <3>1. HeldBy(n)
      BY DEF TypeOK
    <3>2. UNCHANGED <<Process(n), Scripts(n), Directory(n), Transacted, process, file>>
      BY <1>3 DEF Begin, given, locks, Process, Scripts, Directory, Transacted
    <3>3. call[m].at = "step" /\ (Transacted => database = None)
          /\ database' = IF Transacted THEN m ELSE database
      BY <1>3 DEF Begin, At
    <3>. QED
      BY <2>1, <3>1, <3>2, <3>3, NobodyAssumption DEF HeldBy, Holding, At
  <2>. QED
    BY <2>2, <2>3 DEF TypeOK
<1>. QED
  BY <1>1, <1>2, <1>3

(* A look, and a step the executor declines.                               *)
LEMMA TypeLook ==
  ASSUME TypeOK, NEW m \in Migrators,
         LookAtTarget(m) \/ LookForPending(m) \/ NextPending(m) \/ LookForLatest(m)
         \/ Decline(m)
  PROVE  TypeOK'
<1>0. Shape /\ call[m] \in Call /\ Scripts(m) \subseteq Versions
  BY SiteType DEF TypeOK, Shape
<1>1. CASE LookAtTarget(m)
  <2>1. Goes(m, "look") /\ undone' \in [Migrators -> SUBSET Versions]
    BY <1>0, <1>1 DEF LookAtTarget, Looked, Shape
  <2>. QED
    BY <1>0, <1>1, <2>1, GoesType, MovesOn DEF LookAtTarget, At, Shape, store
<1>2. CASE LookForPending(m)
  <2>1. undone' \in [Migrators -> SUBSET Versions]
    BY <1>0, <1>2 DEF LookForPending, Looked, Shape
  <2>2. [call[m] EXCEPT !.at = "next", !.pending = Pending(m)] \in Call
    BY <1>0 DEF Call, Pending
  <2>3. call' \in [Migrators -> Call] /\ call'[m].at = "next"
        /\ \A n \in Migrators \ {m} : call'[n] = call[n]
    BY <1>0, <1>2, <2>2 DEF LookForPending, Shape, Call
  <2>. QED
    BY <1>0, <1>2, <2>1, <2>3, MovesOn DEF LookForPending, At, Shape, store
<1>3. CASE NextPending(m)
  <2>0. call[m].pending \in SUBSET Versions /\ call[m].pending # {}
    BY <1>0, <1>3 DEF NextPending, Call
  <2>1. Earliest(call[m].pending) \in 0..MaxVersion
    BY <2>0, EarliestIs, BoundAssumption DEF Versions
  <2>2. [call[m] EXCEPT !.at = "step", !.version = Earliest(call[m].pending)] \in Call
    BY <1>0, <2>1 DEF Call
  <2>3. call' \in [Migrators -> Call] /\ call'[m].at = "step"
        /\ \A n \in Migrators \ {m} : call'[n] = call[n]
    BY <1>0, <1>3, <2>2 DEF NextPending, Shape, Call
  <2>. QED
    BY <1>0, <1>3, <2>3, MovesOn DEF NextPending, At, Shape, store
<1>4. CASE LookForLatest(m)
  <2>1. undone' \in [Migrators -> SUBSET Versions]
    BY <1>0, <1>4 DEF LookForLatest, Looked, Shape
  <2>0. Latest(recorded) \in 0..MaxVersion
    BY <1>0, <1>4, BoundAssumption DEF LookForLatest, Versions
  <2>2. [call[m] EXCEPT !.at = "step", !.version = Latest(recorded)] \in Call
    BY <1>0, <2>0 DEF Call
  <2>3. call' \in [Migrators -> Call] /\ call'[m].at = "step"
        /\ \A n \in Migrators \ {m} : call'[n] = call[n]
    BY <1>0, <1>4, <2>2 DEF LookForLatest, Shape, Call
  <2>. QED
    BY <1>0, <1>4, <2>1, <2>3, MovesOn DEF LookForLatest, At, Shape, store
<1>5. CASE Decline(m)
  <2>2. [call[m] EXCEPT !.at = Passed(m), !.pending = @ \ {call[m].version}] \in Call
    BY <1>0 DEF Call, Passed
  <2>3. call' \in [Migrators -> Call] /\ call'[m].at \in {"next", "look"}
        /\ \A n \in Migrators \ {m} : call'[n] = call[n]
    BY <1>0, <1>5, <2>2 DEF Decline, Shape, Call, Passed
  <2>. QED
    BY <1>0, <1>5, <2>3, MovesOn DEF Decline, At, Shape, store
<1>. QED
  BY <1>1, <1>2, <1>3, <1>4, <1>5

LEMMA ScriptType ==
  ASSUME Shape, NEW m \in Migrators, call[m].version \in Versions
  PROVE  /\ Recorded(m) => recorded' \in SUBSET Versions
         /\ ScriptRuns(m) => effect' \in [Versions -> Int]
         /\ Known(m) => undone' \in [Migrators -> SUBSET Versions]
<1>1. Recorded(m) => recorded' \in SUBSET Versions
  BY DEF Shape, Recorded
<1>2. ScriptRuns(m) => effect' \in [Versions -> Int]
  BY DEF Shape, ScriptRuns
<1>3. Known(m) => undone' \in [Migrators -> SUBSET Versions]
  BY DEF Shape, Known
<1>. QED
  BY <1>1, <1>2, <1>3

(* The version is done: the call goes on, or returns.                      *)
LEMMA DoneType ==
  ASSUME Shape, NEW m \in Migrators, Done(m)
  PROVE  \/ Unlocked(m)
         \/ /\ call' \in [Migrators -> Call]
            /\ call'[m].at \in {"next", "target"}
            /\ \A n \in Migrators \ {m} : call'[n] = call[n]
            /\ UNCHANGED locks
<1>1. CASE call[m].op = "rollback"
  BY <1>1 DEF Done
<1>2. CASE call[m].op # "rollback"
  <2>1. call[m] \in Call
    BY DEF Shape
  <2>2. [call[m] EXCEPT !.at = IF Ups(m) THEN "next" ELSE "target",
                        !.pending = @ \ {call[m].version}] \in Call
    BY <2>1 DEF Call
  <2>. QED
    BY <1>2, <2>1, <2>2 DEF Done, Shape, Call
<1>. QED
  BY <1>1, <1>2

LEMMA TypeWork ==
  ASSUME TypeOK, Knowledge, NEW m \in Migrators,
         Commit(m) \/ CommitUnheard(m) \/ RunScript(m) \/ ScriptBreaks(m)
         \/ Record(m) \/ RecordFails(m)
  PROVE  TypeOK'
<1>0. Shape /\ HeldBy(m) /\ call[m].at \in {"work", "record"} /\ call[m].version \in Versions
  BY DEF TypeOK, Knowledge, Knows, At, Commit, CommitUnheard, RunScript, ScriptBreaks,
     Record, RecordFails
<1>1. CASE Commit(m)
  <2>1. /\ recorded' \in SUBSET Versions /\ effect' \in [Versions -> Int]
        /\ undone' \in [Migrators -> SUBSET Versions]
    BY <1>0, <1>1, ScriptType DEF Commit
  <2>2. CASE Unlocked(m)
    BY <1>0, <1>1, <2>1, <2>2, Returns DEF Commit, Shape
  <2>3. CASE ~Unlocked(m)
    <3>1. /\ call' \in [Migrators -> Call]
          /\ call'[m].at \in {"next", "target"}
          /\ \A n \in Migrators \ {m} : call'[n] = call[n]
          /\ UNCHANGED locks
      BY <1>0, <1>1, <2>3, DoneType DEF Commit
    <3>2. Shape'
      BY <1>0, <1>1, <2>1, <3>1 DEF Commit, Shape, given, locks
    <3>3. ASSUME NEW n \in Migrators PROVE HeldBy(n)'
      <4>1. HeldBy(n)
        BY DEF TypeOK
      <4>2. database = m /\ database' = None
        BY <1>0, <1>1 DEF Commit, HeldBy
      <4>. QED
        BY <1>0, <1>1, <3>1, <4>1, <4>2, NobodyAssumption
           DEF Commit, HeldBy, Holding, At, Process, Scripts, Directory, Transacted, given, locks
    <3>. QED
      BY <3>2, <3>3 DEF TypeOK
  <2>. QED
    BY <2>2, <2>3
<1>2. CASE CommitUnheard(m)
  <2>1. /\ recorded' \in SUBSET Versions /\ effect' \in [Versions -> Int]
        /\ undone' \in [Migrators -> SUBSET Versions]
    BY <1>0, <1>2, ScriptType DEF CommitUnheard
  <2>. QED
    BY <1>0, <1>2, <2>1, Returns DEF CommitUnheard, Shape
<1>3. CASE RunScript(m)
  <2>1. effect' \in [Versions -> Int] /\ Goes(m, "record")
    BY <1>0, <1>3, ScriptType DEF RunScript
  <2>. QED
    BY <1>0, <1>3, <2>1, GoesType, MovesOn DEF RunScript, Shape
<1>4. CASE ScriptBreaks(m)
  BY <1>0, <1>4, Returns DEF ScriptBreaks, Shape
<1>5. CASE Record(m)
  <2>1. recorded' \in SUBSET Versions /\ undone' \in [Migrators -> SUBSET Versions]
    BY <1>0, <1>5, ScriptType DEF Record
  <2>2. ~Transacted /\ call[m].at = "record"
    BY <1>5 DEF Record, At, Knowledge, Knows
  <2>3. CASE Unlocked(m)
    BY <1>0, <1>5, <2>1, <2>2, <2>3, Returns DEF Record, Shape, At
  <2>4. CASE ~Unlocked(m)
    BY <1>0, <1>5, <2>1, <2>2, <2>4, DoneType, MovesOn DEF Record, Shape
  <2>. QED
    BY <2>3, <2>4
<1>6. CASE RecordFails(m)
  BY <1>0, <1>6, Returns DEF RecordFails, Shape, At
<1>. QED
  BY <1>1, <1>2, <1>3, <1>4, <1>5, <1>6

LEMMA TypeCrash ==
  ASSUME TypeOK, Knowledge, NEW p \in Processes, Crash(p)
  PROVE  TypeOK'
<1>. DEFINE dead == {m \in Migrators : Process(m) = p}
<1>1. /\ process' = Freed(process, dead) /\ file' = Freed(file, dead)
      /\ call' = [m \in Migrators |-> IF m \in dead THEN Idle ELSE call[m]]
      /\ database' = IF database \in dead THEN None ELSE database
      /\ UNCHANGED <<given, recorded, effect, undone, calls>>
  BY DEF Crash
<1>2. /\ process' \in [Processes -> Migrators \cup {None}]
      /\ file' \in [Directories -> Migrators \cup {None}]
      /\ \A q \in Processes, n \in Migrators : process'[q] = n <=> process[q] = n /\ n \notin dead
      /\ \A d \in Directories, n \in Migrators : file'[d] = n <=> file[d] = n /\ n \notin dead
  <2>. HIDE DEF dead
  <2>. QED
    BY <1>1, FreedType DEF TypeOK, Shape
<1>3. Shape'
  <2>1. Idle \in Call /\ call' \in [Migrators -> Call]
    BY <1>1, BoundAssumption DEF Idle, Call, TypeOK, Shape
  <2>2. torn' \in SUBSET Versions
    BY DEF Crash, TypeOK, Shape, Knowledge, Knows, At
  <2>3. crashes' \in 0..MaxCrash
    BY BoundAssumption DEF Crash, TypeOK, Shape
  <2>4. database' \in Migrators \cup {None}
    BY <1>1 DEF TypeOK, Shape
  <2>. QED
    BY <1>1, <1>2, <2>1, <2>2, <2>3, <2>4 DEF TypeOK, Shape, given
<1>4. ASSUME NEW n \in Migrators PROVE HeldBy(n)'
  <2>1. HeldBy(n) /\ Process(n) \in Processes /\ Directory(n) \in Directories
    BY SiteType DEF TypeOK
  <2>2. call'[n].at = IF n \in dead THEN "idle" ELSE call[n].at
    BY <1>1 DEF Idle
  <2>3. database' = n <=> database = n /\ n \notin dead
    BY <1>1, NobodyAssumption DEF TypeOK, Shape
  <2>4. UNCHANGED <<Process(n), Scripts(n), Directory(n), Transacted>>
    BY <1>1 DEF given, Process, Scripts, Directory, Transacted
  <2>. HIDE DEF dead
  <2>. QED
    BY <1>2, <2>1, <2>2, <2>3, <2>4 DEF HeldBy, Holding, At
<1>. QED
  BY <1>3, <1>4 DEF TypeOK

---------------------------------------------------------------------------
(* What a migrator's step leaves to the others: their calls, and what is   *)
(* recorded while they are at work.                                        *)
LEMMA StepOfOne ==
  ASSUME TypeOK, Knowledge, NEW m \in Migrators, Asks(m) \/ Works(m) \/ GiveUp(m)
  PROVE  /\ UNCHANGED given
         /\ \A n \in Migrators \ {m} :
              /\ call'[n] = call[n]
              /\ At(n, "work") \/ At(n, "record") => recorded' = recorded
         /\ ~(Commit(m) \/ CommitUnheard(m) \/ Record(m)) => recorded' = recorded
<1>0. Shape
  BY DEF TypeOK
<1>1. CASE Asks(m)
  BY <1>0, <1>1 DEF Asks, Ask, Shape, store
<1>2. CASE GiveUp(m)
  BY <1>0, <1>2 DEF GiveUp, Unlocked, Shape, store
<1>3. CASE LockProcess(m) \/ LockFile(m) \/ LookAtTarget(m) \/ Reached(m)
  BY <1>0, <1>3 DEF LockProcess, LockFile, LookAtTarget, Reached, Goes, Return, Unlocked,
     Shape, store
<1>4. CASE LookForPending(m) \/ NextPending(m) \/ NothingPending(m) \/ LookForLatest(m)
           \/ NothingToUndo(m)
  BY <1>0, <1>4 DEF LookForPending, NextPending, NothingPending, LookForLatest,
     NothingToUndo, Return, Unlocked, Shape, store
<1>5. CASE Begin(m) \/ Decline(m) \/ RunScript(m)
  BY <1>0, <1>5 DEF Begin, Decline, RunScript, Goes, Shape, store
<1>6. CASE ScriptBreaks(m) \/ RecordFails(m)
  BY <1>0, <1>6 DEF ScriptBreaks, RecordFails, Unlocked, Shape, store
<1>7. CASE Commit(m) \/ CommitUnheard(m) \/ Record(m)
  <2>1. At(m, "work") \/ At(m, "record")
    BY <1>7 DEF Commit, CommitUnheard, Record
  <2>2. \A n \in Migrators \ {m} : ~At(n, "work") /\ ~At(n, "record")
    BY <2>1, AloneAtWork
  <2>. QED
    BY <1>0, <1>7, <2>2 DEF Commit, CommitUnheard, Record, Done, Unlocked, Shape
<1>. QED
  BY <1>1, <1>2, <1>3, <1>4, <1>5, <1>6, <1>7 DEF Works

LEMMA KnowledgeInit == Init => Knowledge
  BY DEF Init, Knowledge, Knows, At, Idle, Transacted, OneLock

(* What a call knows after each of its own steps.                          *)
LEMMA KnowsOwn ==
  ASSUME TypeOK, Knowledge, NEW m \in Migrators, Asks(m) \/ Works(m) \/ GiveUp(m)
  PROVE  Knows(m)'
<1>0. Shape /\ call[m] \in Call /\ Knows(m) /\ Scripts(m) \subseteq Versions
      /\ UNCHANGED <<Transacted, Scripts(m)>>
  BY SiteType, StepOfOne DEF TypeOK, Shape, Knowledge, Transacted, Scripts, Directory, given
<1>1. CASE Asks(m)
  <2>1. call'[m].at = "process"
    <3>1. PICK op \in {"run", "rollback", "rollback_to"}, target \in 0..MaxVersion :
            Ask(m, op, target)
      BY <1>1, BoundAssumption DEF Asks
    <3>2. Idle \in Call
      BY BoundAssumption DEF Idle, Call
    <3>3. [Idle EXCEPT !.op = op, !.target = target, !.at = "process"].at = "process"
      BY <3>2 DEF Call
    <3>. QED
      BY <1>0, <3>1, <3>3 DEF Ask, Shape
  <2>. QED
    BY <2>1 DEF Knows, At
<1>2. CASE Unlocked(m)
  <2>1. call'[m].at = "idle"
    BY <1>0, <1>2 DEF Unlocked, Idle, Shape
  <2>. QED
    BY <2>1 DEF Knows, At
<1>3. CASE LockProcess(m)
  <2>1. PICK place \in {"file", "target", "look"} :
          Goes(m, place) /\ (place = "file" => Scripts(m) # {})
    BY <1>3 DEF LockProcess, Starts
  <2>2. call'[m].at = place
    BY <1>0, <2>1, GoesType
  <2>. QED
    BY <1>0, <2>1, <2>2 DEF Knows, At
<1>4. CASE LockFile(m) \/ LookAtTarget(m)
  <2>1. PICK place \in {"target", "look"} : Goes(m, place)
    BY <1>4 DEF LockFile, LookAtTarget, Starts
  <2>2. call'[m].at = place
    BY <1>0, <2>1, GoesType
  <2>. QED
    BY <2>1, <2>2 DEF Knows, At
<1>5. CASE LookForPending(m) \/ Decline(m)
  <2>1. call'[m].at \in {"next", "look"}
    BY <1>0, <1>5 DEF LookForPending, Decline, Passed, Shape, Call
  <2>. QED
    BY <2>1 DEF Knows, At
<1>6. CASE NextPending(m)
  <2>1. call[m].pending \in SUBSET Versions /\ call[m].pending # {}
    BY <1>0, <1>6 DEF NextPending, Call
  <2>2. call'[m].at = "step" /\ call'[m].version = Earliest(call[m].pending)
    BY <1>0, <1>6 DEF NextPending, Shape, Call
  <2>. QED
    BY <2>1, <2>2, EarliestIs DEF Knows, At
<1>7. CASE LookForLatest(m)
  <2>1. call'[m].at = "step" /\ call'[m].version \in Versions
    BY <1>0, <1>7 DEF LookForLatest, Shape, Call
  <2>. QED
    BY <2>1 DEF Knows, At
<1>8. CASE Begin(m)
  <2>1. /\ call'[m].at = "work" /\ call'[m].version = call[m].version
        /\ call'[m].op = call[m].op
    BY <1>0, <1>8, GoesType DEF Begin
  <2>2. recorded' = recorded /\ Wanted(m) /\ At(m, "step")
    BY <1>8 DEF Begin, store
  <2>. QED
    BY <1>0, <2>1, <2>2 DEF Knows, At, Wanted, Ups
<1>9. CASE RunScript(m)
  <2>1. /\ call'[m].at = "record" /\ call'[m].version = call[m].version
        /\ call'[m].op = call[m].op
    BY <1>0, <1>9, GoesType DEF RunScript
  <2>2. recorded' = recorded /\ ~Transacted /\ At(m, "work")
    BY <1>9 DEF RunScript
  <2>. QED
    BY <1>0, <2>1, <2>2 DEF Knows, At, Wanted, Ups
<1>10. CASE Done(m) /\ ~Unlocked(m)
  <2>1. call'[m].at \in {"next", "target"}
    BY <1>0, <1>10, DoneType
  <2>. QED
    BY <2>1 DEF Knows, At
<1>11. Works(m) \/ GiveUp(m) =>
         \/ Unlocked(m) \/ Done(m)
         \/ LockProcess(m) \/ LockFile(m) \/ LookAtTarget(m) \/ LookForPending(m)
         \/ Decline(m) \/ NextPending(m) \/ LookForLatest(m) \/ Begin(m) \/ RunScript(m)
  BY DEF Works, GiveUp, Reached, NothingPending, NothingToUndo, Return, Commit,
     CommitUnheard, ScriptBreaks, Record, RecordFails
<1>. QED
  BY <1>1, <1>2, <1>3, <1>4, <1>5, <1>6, <1>7, <1>8, <1>9, <1>10, <1>11

LEMMA KnowledgeNext ==
  ASSUME TypeOK, Knowledge, [Next]_vars
  PROVE  Knowledge'
<1>1. ASSUME NEW m \in Migrators, Asks(m) \/ Works(m) \/ GiveUp(m)
      PROVE  Knowledge'
  <2>1. ASSUME NEW n \in Migrators PROVE Knows(n)'
    <3>1. CASE n = m
      BY <1>1, <3>1, KnowsOwn
    <3>2. CASE n # m
      BY <1>1, <3>2, StepOfOne
         DEF Knowledge, Knows, At, Wanted, Ups, Transacted, Scripts, Directory, given
    <3>. QED
      BY <3>1, <3>2
  <2>2. UNCHANGED given
    BY <1>1, StepOfOne
  <2>. QED
    BY <2>1, <2>2
       DEF Knowledge, OneLock, Transacted, Process, Directory, Scripts, given
<1>2. ASSUME NEW p \in Processes, Crash(p)
      PROVE  Knowledge'
  <2>1. ASSUME NEW n \in Migrators PROVE Knows(n)'
    <3>1. CASE Process(n) = p
      <4>1. call'[n].at = "idle"
        BY <1>2, <3>1 DEF Crash, Idle
      <4>. QED
        BY <4>1 DEF Knows, At
    <3>2. CASE Process(n) # p
      BY <1>2, <3>2
         DEF Crash, Knowledge, Knows, At, Wanted, Ups, Transacted, Scripts, Directory, given
    <3>. QED
      BY <3>1, <3>2
  <2>. QED
    BY <1>2, <2>1
       DEF Crash, Knowledge, OneLock, Transacted, Process, Directory, Scripts, given
<1>3. CASE UNCHANGED vars
  BY <1>3 DEF vars, Knowledge, Knows, At, Wanted, Ups, OneLock, Transacted, Process,
     Directory, Scripts
<1>. QED
  BY <1>1, <1>2, <1>3 DEF Next

LEMMA TypeNext ==
  ASSUME TypeOK, Knowledge, [Next]_vars
  PROVE  TypeOK'
<1>1. ASSUME NEW m \in Migrators, Works(m)
      PROVE  TypeOK'
  <2>1. CASE Reached(m) \/ NothingPending(m) \/ NothingToUndo(m)
    <3>1. call[m].at \in {"target", "next", "look"} /\ Return(m)
      BY <2>1 DEF Reached, NothingPending, NothingToUndo, At
    <3>. QED
      BY <3>1, Returns DEF Return, TypeOK, Shape, store, At
  <2>. QED
    BY <1>1, <2>1, TypeLock, TypeLook, TypeWork DEF Works
<1>2. ASSUME NEW m \in Migrators, GiveUp(m)
      PROVE  TypeOK'
  <2>1. (database = m) <=> (Transacted /\ At(m, "work"))
    BY DEF TypeOK, HeldBy
  <2>2. /\ At(m, "work") /\ Transacted => database' = None
        /\ ~(At(m, "work") /\ Transacted) => database' = database
    BY <1>2, <2>1 DEF GiveUp
  <2>3. Unlocked(m) /\ UNCHANGED <<given, recorded, effect, torn, undone, calls, crashes>>
    BY <1>2 DEF GiveUp, store
  <2>. QED
    BY <2>2, <2>3, Returns DEF TypeOK, Shape
<1>3. CASE UNCHANGED vars
  BY <1>3 DEF vars, TypeOK, Shape, HeldBy, Holding, At, Process, Scripts, Directory, Transacted
<1>. QED
  BY <1>1, <1>2, <1>3, TypeAsk, TypeCrash DEF Next

(* Every lock is held by the call that is past it, and by no other, through *)
(* every failure and crash.                                                *)
THEOREM TypeCorrect == Spec => [](TypeOK /\ Knowledge)
<1>1. Init => TypeOK /\ Knowledge
  BY TypeInit, KnowledgeInit
<1>2. TypeOK /\ Knowledge /\ [Next]_vars => (TypeOK /\ Knowledge)'
  BY TypeNext, KnowledgeNext
<1>. QED
  BY <1>1, <1>2, PTL DEF Spec

---------------------------------------------------------------------------
(* The history                                                             *)

(* A migrator's step records one version that was not, or takes away the   *)
(* latest.                                                                 *)
LEMMA HistoryNext ==
  ASSUME TypeOK, Knowledge, [Next]_vars
  PROVE  [H!Next]_recorded
<1>1. ASSUME NEW m \in Migrators, Recorded(m), At(m, "work") \/ At(m, "record")
      PROVE  H!Next
  <2>. DEFINE v == call[m].version
  <2>1. v \in Versions /\ Wanted(m) /\ recorded \in SUBSET Versions
    BY <1>1 DEF TypeOK, Shape, Knowledge, Knows, At
  <2>2. CASE Ups(m)
    BY <1>1, <2>1, <2>2 DEF Wanted, Recorded, H!Next, H!Apply, H!Versions, Versions
  <2>3. CASE ~Ups(m)
    <3>1. v \in recorded /\ \A w \in recorded : w <= v
      BY <2>1, <2>3, LatestIs, BoundAssumption DEF Wanted, Versions
    <3>2. H!Undo(v)
      BY <1>1, <2>3, <3>1 DEF Recorded, H!Undo, H!IsLatest
    <3>. QED
      BY <2>1, <3>2 DEF H!Next, H!Versions, Versions
  <2>. QED
    BY <2>2, <2>3
<1>2. ASSUME NEW m \in Migrators, Asks(m) \/ Works(m) \/ GiveUp(m)
      PROVE  [H!Next]_recorded
  BY <1>1, <1>2, StepOfOne DEF Commit, CommitUnheard, Record
<1>3. ASSUME NEW p \in Processes, Crash(p)
      PROVE  [H!Next]_recorded
  BY <1>3 DEF Crash
<1>4. CASE UNCHANGED vars
  BY <1>4 DEF vars
<1>. QED
  BY <1>2, <1>3, <1>4 DEF Next

(* Migrators keep a database's history as SchemaHistory says: versions one *)
(* at a time, applied where they are not, undone from the latest.          *)
THEOREM ImplementsSchemaHistory == Spec => HistoryIsKept
<1>1. Init => H!Init
  BY DEF Init, H!Init, H!Versions, Versions
<1>2. TypeOK /\ Knowledge /\ [Next]_vars => [H!Next]_recorded
  BY HistoryNext
<1>. QED
  BY <1>1, <1>2, TypeCorrect, PTL DEF Spec, HistoryIsKept, H!Spec

---------------------------------------------------------------------------
(* The scripts                                                             *)

(* Between a script and its record, the script has run once more than it   *)
(* was to be recorded before.                                              *)
Ran(m) ==
  At(m, "record") /\ call[m].version \notin torn
    => effect[call[m].version] = IF Ups(m) THEN 1 ELSE 0

Exact == ScriptsAreRecorded /\ \A m \in Migrators : Ran(m)

(* A step that touches neither, and gives up no record to be made without  *)
(* saying so in torn.                                                      *)
LEMMA ExactStill ==
  ASSUME Exact, UNCHANGED <<given, recorded, effect>>,
         torn \subseteq torn', Transacted => torn' = torn,
         \A n \in Migrators :
           \/ call'[n] = call[n]
           \/ /\ At(n, "record") => call[n].version \in torn'
              /\ call'[n].at # "record"
  PROVE  Exact'
<1>1. ASSUME NEW n \in Migrators PROVE Ran(n)'
  BY DEF Exact, Ran, At, Ups
<1>2. ASSUME NEW v \in Versions, v \notin torn', ~Between(v)'
      PROVE  v \notin torn /\ ~Between(v)
  BY <1>2 DEF Between, At
<1>. QED
  BY <1>1, <1>2 DEF Exact, ScriptsAreRecorded, Transacted, given

(* The script runs, and its version is recorded with it or next.           *)
LEMMA ExactScript ==
  ASSUME TypeOK, Knowledge, Exact, NEW m \in Migrators, At(m, "work"),
         ScriptRuns(m), UNCHANGED <<given, torn>>,
         \/ Recorded(m) /\ call'[m].at # "record"
         \/ Goes(m, "record") /\ recorded' = recorded,
         \A n \in Migrators \ {m} : call'[n] = call[n]
  PROVE  Exact'
<1>0. PICK v : v = call[m].version
  OBVIOUS
<1>1. Shape /\ v \in Versions /\ Wanted(m) /\ effect \in [Versions -> Int]
  BY <1>0 DEF TypeOK, Shape, Knowledge, Knows, At
<1>2. \A n \in Migrators : ~At(n, "record")
  BY AloneAtWork DEF At
<1>3. \A w \in Versions : ~Between(w)
  BY <1>2 DEF Between
<1>4. v \in recorded <=> ~Ups(m)
  BY <1>0, <1>1, LatestIs, BoundAssumption DEF Wanted, Versions, Shape
<1>5. v \notin torn => effect'[v] = IF Ups(m) THEN 1 ELSE 0
  BY <1>0, <1>1, <1>3, <1>4 DEF Exact, ScriptsAreRecorded, ScriptRuns
<1>6. \A w \in Versions \ {v} : effect'[w] = effect[w]
  BY <1>0, <1>1 DEF ScriptRuns
<1>7. \A n \in Migrators \ {m} : call'[n].at # "record"
  BY <1>2 DEF At
<1>8. CASE Recorded(m) /\ call'[m].at # "record"
  <2>1. \A w \in Versions \ {v} : w \in recorded' <=> w \in recorded
    BY <1>0, <1>8 DEF Recorded
  <2>2. v \in recorded' <=> Ups(m)
    BY <1>0, <1>8 DEF Recorded
  <2>3. \A n \in Migrators : Ran(n)'
    BY <1>7, <1>8 DEF Ran, At
  <2>4. \A w \in Versions : w \notin torn => effect'[w] = IF w \in recorded' THEN 1 ELSE 0
    BY <1>3, <1>5, <1>6, <2>1, <2>2 DEF Exact, ScriptsAreRecorded
  <2>. QED
    BY <2>3, <2>4 DEF Exact, ScriptsAreRecorded, Transacted, given
<1>9. CASE Goes(m, "record") /\ recorded' = recorded
  <2>1. call'[m].at = "record" /\ call'[m].version = v /\ call'[m].op = call[m].op
    BY <1>0, <1>1, <1>9, GoesType
  <2>2. \A n \in Migrators : Ran(n)'
    BY <1>5, <1>7, <2>1 DEF Ran, At, Ups
  <2>3. Between(v)'
    BY <2>1 DEF Between, At
  <2>4. \A w \in Versions :
          w \notin torn /\ ~Between(w)' => effect'[w] = IF w \in recorded' THEN 1 ELSE 0
    BY <1>3, <1>6, <1>9, <2>3 DEF Exact, ScriptsAreRecorded
  <2>. QED
    BY <2>2, <2>4 DEF Exact, ScriptsAreRecorded, Transacted, given
<1>. QED
  BY <1>8, <1>9

(* The record is made of a script that ran.                                *)
LEMMA ExactRecord ==
  ASSUME TypeOK, Knowledge, Exact, NEW m \in Migrators, At(m, "record"),
         Recorded(m), UNCHANGED <<given, effect, torn>>, call'[m].at # "record",
         \A n \in Migrators \ {m} : call'[n] = call[n]
  PROVE  Exact'
<1>. DEFINE v == call[m].version
<1>1. v \notin torn => effect[v] = IF Ups(m) THEN 1 ELSE 0
  BY DEF Exact, Ran
<1>2. \A n \in Migrators \ {m} : ~At(n, "record")
  BY AloneAtWork
<1>3. \A w \in Versions \ {v} : ~Between(w) /\ (w \in recorded' <=> w \in recorded)
  BY <1>2 DEF Between, Recorded
<1>4. v \in recorded' <=> Ups(m)
  BY DEF Recorded
<1>5. \A n \in Migrators : Ran(n)'
  BY <1>2 DEF Ran, At
<1>6. \A w \in Versions : w \notin torn => effect[w] = IF w \in recorded' THEN 1 ELSE 0
  BY <1>1, <1>3, <1>4 DEF Exact, ScriptsAreRecorded
<1>. QED
  BY <1>5, <1>6 DEF Exact, ScriptsAreRecorded, Transacted, given

LEMMA ExactInit == Init => Exact
  BY DEF Init, Exact, ScriptsAreRecorded, Ran, At, Idle

(* Every step but those of the executor at work.                           *)
LEMMA ExactElse ==
  ASSUME TypeOK, Knowledge, Exact, NEW m \in Migrators,
         Asks(m) \/ Works(m) \/ GiveUp(m),
         ~(Commit(m) \/ CommitUnheard(m) \/ RunScript(m) \/ Record(m))
  PROVE  Exact'
<1>0. /\ UNCHANGED given
      /\ recorded' = recorded
      /\ \A n \in Migrators \ {m} : call'[n] = call[n]
      /\ Knows(m)'
      /\ Shape
  BY StepOfOne, KnowsOwn DEF TypeOK
<1>1. CASE ScriptBreaks(m) \/ RecordFails(m)
  <2>1. /\ torn' = torn \cup {call[m].version}
        /\ UNCHANGED effect
        /\ call'[m].at # "record"
    BY <1>0, <1>1 DEF ScriptBreaks, RecordFails, Unlocked, Idle, Shape
  <2>2. ~Transacted
    BY <1>1 DEF ScriptBreaks, RecordFails, Knowledge, Knows
  <2>. QED
    BY <1>0, <2>1, <2>2, ExactStill
<1>2. CASE ~(ScriptBreaks(m) \/ RecordFails(m))
  <2>1. UNCHANGED <<effect, torn>> /\ ~At(m, "record")
    BY <1>2 DEF Asks, Ask, GiveUp, Works, LockProcess, LockFile, LookAtTarget, Reached,
       LookForPending, NextPending, NothingPending, LookForLatest, NothingToUndo, Return,
       Begin, Decline, store, At
  <2>2. call'[m] = call[m] \/ call'[m].at # "record"
    <3>1. CASE Asks(m)
      <4>1. PICK op \in {"run", "rollback", "rollback_to"}, target \in 0..MaxVersion :
              Ask(m, op, target)
        BY <3>1, BoundAssumption DEF Asks
      <4>2. Idle \in Call
        BY BoundAssumption DEF Idle, Call
      <4>3. [Idle EXCEPT !.op = op, !.target = target, !.at = "process"].at = "process"
        BY <4>2 DEF Call
      <4>. QED
        BY <1>0, <4>1, <4>3 DEF Ask, Shape
    <3>2. CASE Unlocked(m)
      BY <1>0, <3>2 DEF Unlocked, Idle, Shape
    <3>3. CASE \E place \in {"file", "target", "look", "work"} : Goes(m, place)
      BY <1>0, <3>3, GoesType
    <3>4. CASE LookForPending(m) \/ NextPending(m) \/ LookForLatest(m) \/ Decline(m)
      BY <1>0, <3>4 DEF LookForPending, NextPending, LookForLatest, Decline, Passed, Shape, Call
    <3>5. Works(m) \/ GiveUp(m) =>
            \/ Unlocked(m) \/ \E place \in {"file", "target", "look", "work"} : Goes(m, place)
            \/ LookForPending(m) \/ NextPending(m) \/ LookForLatest(m) \/ Decline(m)
      BY <1>2 DEF Works, GiveUp, Reached, NothingPending, NothingToUndo, Return, LockProcess,
         LockFile, LookAtTarget, Begin, Starts
    <3>. QED
      BY <3>1, <3>2, <3>3, <3>4, <3>5
  <2>. QED
    BY <1>0, <2>1, <2>2, ExactStill
<1>. QED
  BY <1>1, <1>2

LEMMA ReturnedIdle ==
  ASSUME Shape, NEW m \in Migrators, Unlocked(m)
  PROVE  call'[m] = Idle /\ call'[m].at = "idle"
  BY DEF Unlocked, Shape, Idle

LEMMA ExactNext ==
  ASSUME TypeOK, Knowledge, Exact, [Next]_vars
  PROVE  Exact'
<1>1. ASSUME NEW m \in Migrators, Asks(m) \/ Works(m) \/ GiveUp(m)
      PROVE  Exact'
  <2>0. /\ UNCHANGED given
        /\ \A n \in Migrators \ {m} : call'[n] = call[n]
        /\ Shape
    BY <1>1, StepOfOne DEF TypeOK
  <2>1. CASE Commit(m) \/ CommitUnheard(m)
    <3>1. call'[m].at # "record"
      BY <2>0, <2>1, DoneType, ReturnedIdle DEF Commit, CommitUnheard
    <3>. QED
      BY <2>0, <2>1, <3>1, ExactScript DEF Commit, CommitUnheard
  <2>2. CASE RunScript(m)
    BY <2>0, <2>2, ExactScript DEF RunScript
  <2>3. CASE Record(m)
    <3>1. call'[m].at # "record"
      BY <2>0, <2>3, DoneType, ReturnedIdle DEF Record
    <3>. QED
      BY <2>0, <2>3, <3>1, ExactRecord DEF Record
  <2>. QED
    BY <1>1, <2>1, <2>2, <2>3, ExactElse
<1>2. ASSUME NEW p \in Processes, Crash(p)
      PROVE  Exact'
  <2>1. /\ UNCHANGED <<given, recorded, effect>>
        /\ torn \subseteq torn'
    BY <1>2 DEF Crash
  <2>2. Transacted => torn' = torn
    BY <1>2 DEF Crash, Knowledge, Knows
  <2>3. ASSUME NEW n \in Migrators
        PROVE  \/ call'[n] = call[n]
               \/ /\ At(n, "record") => call[n].version \in torn'
                  /\ call'[n].at # "record"
    BY <1>2 DEF Crash, Idle
  <2>. QED
    BY <2>1, <2>2, <2>3, ExactStill
<1>3. CASE UNCHANGED vars
  BY <1>3, ExactStill DEF vars, given
<1>. QED
  BY <1>1, <1>2, <1>3 DEF Next

(* A version's script is in effect exactly once while it is recorded, and  *)
(* not at all while it is not, whoever migrates, fails or dies; only an    *)
(* executor without a transaction has versions excused.                    *)
THEOREM EffectsAreRecorded == Spec => []ScriptsAreRecorded
<1>1. Init => Exact
  BY ExactInit
<1>2. TypeOK /\ Knowledge /\ Exact /\ [Next]_vars => Exact'
  BY ExactNext
<1>3. Exact => ScriptsAreRecorded
  BY DEF Exact
<1>. QED
  BY <1>1, <1>2, <1>3, TypeCorrect, PTL DEF Spec

---------------------------------------------------------------------------
(* What a call relies on of what it read                                   *)

(* A step of another takes nothing from the history unsaid.                *)
LEMMA TellsOthers ==
  ASSUME TypeOK, Knowledge, NEW m \in Migrators, NEW n \in Migrators, m # n,
         Asks(m) \/ Works(m) \/ GiveUp(m)
  PROVE  recorded \cup undone[n] \subseteq recorded' \cup undone'[n]
<1>0. Shape /\ recorded \in SUBSET Versions
  BY DEF TypeOK, Shape
<1>1. CASE Commit(m) \/ CommitUnheard(m) \/ Record(m)
  BY <1>0, <1>1 DEF Commit, CommitUnheard, Record, Recorded, Known, Shape
<1>2. CASE ~(Commit(m) \/ CommitUnheard(m) \/ Record(m))
  <2>1. recorded' = recorded
    BY <1>2, StepOfOne
  <2>2. undone'[n] = undone[n]
    BY <1>0, <1>2
       DEF Asks, Ask, GiveUp, Works, LockProcess, LockFile, LookAtTarget, Reached,
           LookForPending, NextPending, NothingPending, LookForLatest, NothingToUndo,
           Return, Begin, Decline, RunScript, ScriptBreaks, RecordFails, Looked, Shape
  <2>. QED
    BY <2>1, <2>2
<1>. QED
  BY <1>1, <1>2

(* A run misses nothing.                                                   *)
Covers(m) ==
  Ups(m) /\ call[m].at \in {"next", "step", "work", "record"}
    => /\ Scripts(m) \subseteq recorded \cup call[m].pending \cup undone[m]
       /\ At(m, "next") \/ call[m].version = Earliest(call[m].pending)

(* A rollback_to past its look has seen something later than its target.   *)
Ahead(m) ==
  /\ At(m, "next") => Ups(m)
  /\ call[m].op = "rollback_to" /\ call[m].at \in {"look", "step", "work", "record"}
       => \E v \in recorded \cup undone[m] : v > call[m].target

Relies(m) == Covers(m) /\ Ahead(m)

LEMMA ReliesOwn ==
  ASSUME TypeOK, Knowledge, NEW m \in Migrators, Relies(m),
         Asks(m) \/ Works(m) \/ GiveUp(m)
  PROVE  Relies(m)'
<1>0. /\ Shape /\ call[m] \in Call /\ Knows(m)
      /\ UNCHANGED <<Transacted, Scripts(m)>>
      /\ recorded \in SUBSET Versions
  BY SiteType, StepOfOne DEF TypeOK, Shape, Knowledge, Transacted, Scripts, Directory, given
<1>1. CASE Asks(m)
  <2>1. call'[m].at = "process"
    <3>1. PICK op \in {"run", "rollback", "rollback_to"}, target \in 0..MaxVersion :
            Ask(m, op, target)
      BY <1>1, BoundAssumption DEF Asks
    <3>2. Idle \in Call
      BY BoundAssumption DEF Idle, Call
    <3>3. [Idle EXCEPT !.op = op, !.target = target, !.at = "process"].at = "process"
      BY <3>2 DEF Call
    <3>. QED
      BY <1>0, <3>1, <3>3 DEF Ask, Shape
  <2>. QED
    BY <2>1 DEF Relies, Covers, Ahead, At
<1>2. CASE Unlocked(m)
  BY <1>0, <1>2, ReturnedIdle DEF Relies, Covers, Ahead, At
<1>3. CASE LockProcess(m) \/ LockFile(m)
  <2>1. PICK place \in {"file", "target", "look"} :
          Goes(m, place) /\ (call[m].op = "rollback_to" => place # "look")
    BY <1>3 DEF LockProcess, LockFile, Starts, Ups
  <2>2. call'[m].at = place /\ call'[m].op = call[m].op
    BY <1>0, <2>1, GoesType
  <2>. QED
    BY <2>1, <2>2 DEF Relies, Covers, Ahead, At
<1>4. CASE LookAtTarget(m)
  <2>1. call'[m].at = "look" /\ call'[m].target = call[m].target
    BY <1>0, <1>4, GoesType DEF LookAtTarget
  <2>2. Latest(recorded) > call[m].target /\ recorded' = recorded
    BY <1>4 DEF LookAtTarget, store
  <2>3. call[m].target \in 0..MaxVersion
    BY <1>0 DEF Call
  <2>4. Latest(recorded) \in recorded
    BY <1>0, <2>2, <2>3, LatestIs
  <2>. QED
    BY <2>1, <2>2, <2>4 DEF Relies, Covers, Ahead, At
<1>5. CASE LookForPending(m)
  <2>1. /\ call'[m].at = "next" /\ call'[m].pending = Scripts(m) \ recorded
        /\ call'[m].op = call[m].op /\ Ups(m) /\ recorded' = recorded
    BY <1>0, <1>5 DEF LookForPending, Pending, Shape, Call, store
  <2>. QED
    BY <1>0, <2>1 DEF Relies, Covers, Ahead, At, Ups
<1>6. CASE NextPending(m)
  <2>1. /\ At(m, "next") /\ call'[m].at = "step"
        /\ call'[m].version = Earliest(call[m].pending)
        /\ call'[m].op = call[m].op /\ call'[m].pending = call[m].pending
        /\ recorded' = recorded /\ undone' = undone
    BY <1>0, <1>6 DEF NextPending, Shape, Call, store
  <2>. QED
    BY <1>0, <2>1 DEF Relies, Covers, Ahead, At, Ups
<1>7. CASE LookForLatest(m)
  <2>1. /\ At(m, "look") /\ call'[m].at = "step" /\ ~Ups(m)
        /\ call'[m].op = call[m].op /\ call'[m].target = call[m].target
        /\ recorded' = recorded
        /\ call[m].op = "rollback_to" => undone' = undone
    BY <1>0, <1>7 DEF LookForLatest, Shape, Call, store
  <2>. QED
    BY <2>1 DEF Relies, Covers, Ahead, At, Ups
<1>8. CASE Begin(m) \/ RunScript(m)
  <2>1. PICK place \in {"work", "record"} : Goes(m, place)
    BY <1>8 DEF Begin, RunScript
  <2>2. /\ call'[m].at = place /\ call'[m].version = call[m].version
        /\ call'[m].op = call[m].op /\ call'[m].target = call[m].target
        /\ call'[m].pending = call[m].pending
    BY <1>0, <2>1, GoesType
  <2>3. At(m, "step") \/ At(m, "work")
    BY <1>8 DEF Begin, RunScript
  <2>4. recorded' = recorded /\ undone' = undone
    BY <1>8 DEF Begin, RunScript, store
  <2>. QED
    BY <1>0, <2>2, <2>3, <2>4 DEF Relies, Covers, Ahead, At, Ups
<1>9. CASE Decline(m)
  <2>1. /\ At(m, "step") /\ ~Wanted(m) /\ call'[m].at = Passed(m)
        /\ call'[m].pending = call[m].pending \ {call[m].version}
        /\ call'[m].op = call[m].op /\ call'[m].target = call[m].target
        /\ recorded' = recorded /\ undone' = undone
    BY <1>0, <1>9 DEF Decline, Shape, Call, store
  <2>2. CASE Ups(m)
    BY <1>0, <2>1, <2>2 DEF Relies, Covers, Ahead, At, Ups, Wanted, Passed
  <2>3. CASE ~Ups(m)
    BY <2>1, <2>3 DEF Relies, Covers, Ahead, At, Ups, Passed
  <2>. QED
    BY <2>2, <2>3
<1>10. CASE (Commit(m) \/ Record(m)) /\ ~Unlocked(m)
  <2>1. /\ call'[m].at = IF Ups(m) THEN "next" ELSE "target"
        /\ call'[m].pending = call[m].pending \ {call[m].version}
        /\ call'[m].op = call[m].op
    BY <1>0, <1>10 DEF Commit, Record, Done, Shape, Call
  <2>2. Recorded(m) /\ Known(m) /\ (At(m, "work") \/ At(m, "record"))
    BY <1>10 DEF Commit, Record
  <2>. QED
    BY <1>0, <2>1, <2>2 DEF Relies, Covers, Ahead, At, Ups, Recorded, Known
<1>11. Works(m) \/ GiveUp(m) =>
         \/ Unlocked(m)
         \/ LockProcess(m) \/ LockFile(m) \/ LookAtTarget(m) \/ LookForPending(m)
         \/ Decline(m) \/ NextPending(m) \/ LookForLatest(m) \/ Begin(m) \/ RunScript(m)
         \/ Commit(m) \/ Record(m)
  BY DEF Works, GiveUp, Reached, NothingPending, NothingToUndo, Return,
     CommitUnheard, ScriptBreaks, RecordFails
<1>. QED
  BY <1>1, <1>2, <1>3, <1>4, <1>5, <1>6, <1>7, <1>8, <1>9, <1>10, <1>11

Reliance == \A m \in Migrators : Relies(m)

LEMMA ReliesNext ==
  ASSUME TypeOK, Knowledge, Reliance, [Next]_vars
  PROVE  Reliance'
<1>1. ASSUME NEW m \in Migrators, Asks(m) \/ Works(m) \/ GiveUp(m), NEW n \in Migrators
      PROVE  Relies(n)'
  <2>1. CASE n = m
    BY <1>1, <2>1, ReliesOwn DEF Reliance
  <2>2. CASE n # m
    <3>1. /\ recorded \cup undone[n] \subseteq recorded' \cup undone'[n]
          /\ call'[n] = call[n]
          /\ UNCHANGED given
      BY <1>1, <2>2, TellsOthers, StepOfOne
    <3>2. Covers(n)'
      BY <3>1 DEF Reliance, Relies, Covers, At, Ups, Scripts, Directory, given
    <3>3. Ahead(n)'
      BY <3>1 DEF Reliance, Relies, Ahead, At, Ups
    <3>. QED
      BY <3>2, <3>3 DEF Relies
  <2>. QED
    BY <2>1, <2>2
<1>2. ASSUME NEW p \in Processes, Crash(p), NEW n \in Migrators
      PROVE  Relies(n)'
  <2>1. call'[n] = call[n] \/ call'[n].at = "idle"
    BY <1>2 DEF Crash, Idle
  <2>2. UNCHANGED <<given, recorded, undone>>
    BY <1>2 DEF Crash
  <2>. QED
    BY <2>1, <2>2 DEF Reliance, Relies, Covers, Ahead, At, Ups, Scripts, Directory, given
<1>3. CASE UNCHANGED vars
  BY <1>3 DEF vars, Reliance, Relies, Covers, Ahead, At, Ups, Scripts, Directory
<1>. QED
  BY <1>1, <1>2, <1>3 DEF Next, Reliance

LEMMA ReliesInit == Init => Reliance
<1>. SUFFICES ASSUME Init, NEW m \in Migrators PROVE Relies(m)
  BY DEF Reliance
<1>1. call[m].at = "idle"
  BY DEF Init, Idle
<1>. QED
  BY <1>1 DEF Relies, Covers, Ahead, At

(* A run that others migrate beside still sees to every version it has a   *)
(* script for.                                                             *)
THEOREM RunsMissNothing == Spec => []RunMissesNothing
<1>1. Init => Reliance
  BY ReliesInit
<1>2. TypeOK /\ Knowledge /\ Reliance /\ [Next]_vars => Reliance'
  BY ReliesNext
<1>3. Reliance => RunMissesNothing
  BY DEF Reliance, Relies, Covers, RunMissesNothing
<1>. QED
  BY <1>1, <1>2, <1>3, TypeCorrect, PTL DEF Spec

(* The action TargetIsKept names.                                          *)
Keeps ==
  \A m \in Migrators :
    UndoesBelowTarget(m) /\ call'[m] # call[m]
      => \E v \in undone[m] : v > call[m].target

LEMMA KeepsNext ==
  ASSUME TypeOK, Knowledge, Reliance, [Next]_vars
  PROVE  Keeps
<1>. SUFFICES ASSUME NEW m \in Migrators, UndoesBelowTarget(m), call'[m] # call[m]
     PROVE  \E v \in undone[m] : v > call[m].target
  BY DEF Keeps
<1>1. recorded' # recorded /\ (At(m, "work") \/ At(m, "record"))
  BY DEF UndoesBelowTarget
<1>2. PICK n \in Migrators : Asks(n) \/ Works(n) \/ GiveUp(n)
  BY <1>1 DEF Next, Crash, vars
<1>3. n = m
  BY <1>2, StepOfOne
<1>4. Recorded(m)
  BY <1>1, <1>2, <1>3, StepOfOne DEF Commit, CommitUnheard, Record
<1>5. ~Ups(m) /\ Wanted(m) /\ recorded \in SUBSET Versions
  BY <1>1 DEF UndoesBelowTarget, Ups, Knowledge, Knows, TypeOK, Shape
<1>6. PICK u \in recorded : u \notin recorded' /\ u <= call[m].target
  BY DEF UndoesBelowTarget
<1>7. u = Latest(recorded)
  BY <1>4, <1>5, <1>6 DEF Recorded, Wanted
<1>8. \A w \in recorded : w <= u
  BY <1>5, <1>7, LatestIs
<1>9. call[m].target \in Int /\ \A w \in recorded : w \in Int
  BY <1>5, BoundAssumption DEF TypeOK, Shape, Call, Versions
<1>10. \E v \in recorded \cup undone[m] : v > call[m].target
  BY <1>1 DEF UndoesBelowTarget, Reliance, Relies, Ahead, At
<1>. QED
  BY <1>6, <1>8, <1>9, <1>10

(* rollback_to goes below its target only past a rollback of another.      *)
THEOREM TargetsAreKept == Spec => TargetIsKept
<1>1. Init => Reliance
  BY ReliesInit
<1>2. TypeOK /\ Knowledge /\ Reliance /\ [Next]_vars => Reliance'
  BY ReliesNext
<1>3. TypeOK /\ Knowledge /\ Reliance /\ [Next]_vars => [Keeps]_vars
  BY KeepsNext
<1>4. Spec => [][Keeps]_vars
  BY <1>1, <1>2, <1>3, TypeCorrect, PTL DEF Spec
<1>. QED
  BY <1>4 DEF Keeps, TargetIsKept
=============================================================================
