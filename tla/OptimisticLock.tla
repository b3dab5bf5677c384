--------------------------- MODULE OptimisticLock ---------------------------
(***************************************************************************)
(* ash-core: updates and destroys of one record under change                *)
(* optimistic_lock(version), each made by a client from a copy it read, as  *)
(* engine/lock.rs, engine/atomic.rs and engine/managed.rs write them on     *)
(* each kind of data layer.                                                 *)
(*                                                                         *)
(* The record has a version, and a value n each update adds one to from the *)
(* copy it holds, as a deposit computed in the client does.  It has related *)
(* records, which a destroy takes with it.  One step is one call of the     *)
(* data layer; the read that chooses a destroy's error is merged with the   *)
(* rollback it leads to, and a transaction's last write with its commit.    *)
(***************************************************************************)
EXTENDS Naturals, FiniteSets, Sequences

CONSTANTS
  Client,      \* callers, each with one attempt under way at a time
  Related,     \* the record's related records
  Layers,      \* the data layers to run on
  Absent,      \* no record, or no copy held
  MaxVersion   \* bound: updates are attempted below this version

\* What a data layer can do: update and destroy in one statement, raise an
\* error from it, run a transaction, and whether one shuts everyone else out.
LayerKind == [atomic : BOOLEAN, raises : BOOLEAN,
              transacts : BOOLEAN, exclusive : BOOLEAN]

ASSUME LayersAssumption ==
  /\ Layers \subseteq LayerKind
  /\ \A l \in Layers : l.exclusive => l.transacts
ASSUME RelatedAssumption == IsFiniteSet(Related)
ASSUME VersionAssumption == MaxVersion \in Nat \ {0}

Record  == [ver : Nat \ {0}, n : Nat, archived : BOOLEAN]
Action  == {"update", "hooked", "archive", "destroy"}
Outcome == {"none", "ok", "stale", "notfound", "stalechild", "brokenoff"}
Place   == {"idle", "holding", "unchanged", "checked", "lost", "entered", "cascading"}

\* The orders a query may return the records of S in.
Orders(S) == {o \in [1..Cardinality(S) -> S] : \A i, j \in DOMAIN o : o[i] = o[j] => i = j}

ASSUME AbsentAssumption == Absent \notin Record /\ Absent \notin Action

VARIABLES
  layer,     \* the data layer
  record,    \* the record as committed
  related,   \* its related records as committed
  pc,        \* per client, where its attempt is
  action,    \* per client, the action it runs, or ran last
  copy,      \* per client, the record as it read it
  archives,  \* per client, its open transaction holds the record, archived
  todo,      \* per client, the related records its destroy found, still to go
  removed,   \* per client, the related records its attempt has removed
  outcome    \* per client, what its last attempt returned

vars == <<layer, record, related, pc, action, copy, archives, todo, removed,
          outcome>>

VR == INSTANCE VersionedRecord

-----------------------------------------------------------------------------
Init ==
  /\ layer \in Layers
  /\ record = [ver |-> 1, n |-> 0, archived |-> FALSE]
  /\ related = Related
  /\ pc = [c \in Client |-> "idle"]
  /\ action = [c \in Client |-> Absent]
  /\ copy = [c \in Client |-> Absent]
  /\ archives = [c \in Client |-> FALSE]
  /\ todo = [c \in Client |-> <<>>]
  /\ removed = [c \in Client |-> {}]
  /\ outcome = [c \in Client |-> "none"]

Destroys(c) == action[c] \in {"archive", "destroy"}

\* c's attempt runs in a transaction: the action may write related records.
InTransaction(c) ==
  layer.transacts /\ Destroys(c) /\ pc[c] \notin {"idle", "holding"}

\* c may call the data layer: nobody holds its one connection.
Admitted(c) == layer.exclusive => \A d \in Client \ {c} : ~InTransaction(d)

\* The rows c's open transaction holds: the record it has archived, and the
\* related records it has removed.
HoldsRow(c)     == archives[c]
HoldsRelated(c) == removed[c] \cap related

RowFree(c)        == \A d \in Client \ {c} : ~HoldsRow(d)
RelatedFree(c, r) == \A d \in Client \ {c} : r \notin HoldsRelated(d)

\* Mutant: a guarded write is filtered by id alone.
GuardById(c) == record # Absent

\* Mutant: the guard holds the version the write will leave.
GuardByNext(c) == record # Absent /\ record.ver = copy[c].ver + 1

\* The record still holds the version c read.  An archived one still matches
\* a write by id alone.
Guard(c) == record # Absent /\ record.ver = copy[c].ver

\* Next values: an update from c's copy, as it was computed there.
NextOf(c) == [ver |-> copy[c].ver + 1, n |-> copy[c].n + 1,
              archived |-> record.archived]

\* Mutant: a plan's statement selects by id among the records not archived.
SelectedById(c) == VR!Live(record)

\* The record a plan's statement writes: the one its guard or its condition
\* lets through, read through the filter that hides archived records.
Selected(c) == Guard(c) /\ VR!Live(record)

\* What a plan writes: the values the changeset computed from its copy, set
\* outright, and the lock's version, computed from the stored record.
Planned(c) == [ver |-> record.ver + 1, n |-> copy[c].n + 1,
               archived |-> record.archived]

\* What an archive writes: no value of the copy but, unplanned, its version.
ArchivedBy(c) == [ver |-> (IF layer.atomic THEN record.ver ELSE copy[c].ver) + 1,
                  n |-> record.n, archived |-> TRUE]

Move(c, to) == pc' = [pc EXCEPT ![c] = to]

\* c's attempt wrote nothing it must undo; it is over, and returned this.
Return(c, result) ==
  /\ Move(c, "idle")
  /\ outcome' = [outcome EXCEPT ![c] = result]

\* Mutant: a transaction that fails keeps what it has removed.
FailAndCommit(c, result) ==
  /\ Return(c, result)
  /\ archives' = [archives EXCEPT ![c] = FALSE]
  /\ todo' = [todo EXCEPT ![c] = <<>>]
  /\ related' = related \ removed[c]
  /\ UNCHANGED removed

\* Mutant: a transaction that fails is left open.
FailAndHold(c, result) ==
  /\ Return(c, result)
  /\ todo' = [todo EXCEPT ![c] = <<>>]
  /\ UNCHANGED <<related, archives, removed>>

\* c's attempt fails: a transaction is rolled back, and holds nothing more.
Fail(c, result) ==
  /\ Return(c, result)
  /\ archives' = [archives EXCEPT ![c] = FALSE]
  /\ todo' = [todo EXCEPT ![c] = <<>>]
  /\ removed' = [removed EXCEPT ![c] = IF layer.transacts THEN {} ELSE @]
  /\ UNCHANGED related

-----------------------------------------------------------------------------
\* The caller reads the record, and runs an action on it.
Read(c, a) ==
  /\ pc[c] = "idle"
  /\ Admitted(c)
  /\ VR!Live(record)
  /\ a \in {"update", "hooked"} => record.ver < MaxVersion
  /\ Move(c, "holding")
  /\ action' = [action EXCEPT ![c] = a]
  /\ copy' = [copy EXCEPT ![c] = record]
  /\ removed' = [removed EXCEPT ![c] = {}]
  /\ outcome' = [outcome EXCEPT ![c] = "none"]
  /\ UNCHANGED <<layer, record, related, archives, todo>>

\* The read that finds nothing, whose caller is told so.
FindNothing(c) ==
  /\ pc[c] = "idle"
  /\ Admitted(c)
  /\ ~VR!Live(record)
  /\ Return(c, "notfound")
  /\ UNCHANGED <<layer, record, related, action, copy, archives, todo, removed>>

\* persist_atomically: the plan's statement, whose condition raises, or whose
\* guard leaves the record out.
UpdateAtomically(c) ==
  /\ pc[c] = "holding"
  /\ action[c] = "update"
  /\ layer.atomic
  /\ Admitted(c) /\ RowFree(c)
  /\ IF Selected(c)
       THEN record' = Planned(c) /\ Return(c, "ok")
       ELSE /\ UNCHANGED record
            /\ IF layer.raises THEN Return(c, "stale")
                               ELSE Move(c, "unchanged") /\ UNCHANGED outcome
  /\ UNCHANGED <<layer, related, action, copy, archives, todo, removed>>

\* Guards::unchanged: why the plan's statement changed nothing.
Unchanged(c) ==
  /\ pc[c] = "unchanged"
  /\ Admitted(c)
  /\ Fail(c, IF record # Absent /\ record.ver # copy[c].ver THEN "stale" ELSE "notfound")
  /\ UNCHANGED <<layer, record, action, copy>>

\* update_guarded: the action has a hook, so it is not planned; or the data
\* layer updates no record in one statement.
Guarded(c) ==
  pc[c] = "holding" /\ (action[c] = "hooked" \/ (action[c] = "update" /\ ~layer.atomic))

UpdateGuarded(c) ==
  /\ Guarded(c)
  /\ layer.atomic
  /\ Admitted(c) /\ RowFree(c)
  /\ IF Guard(c)
       THEN record' = NextOf(c) /\ Return(c, "ok")
       ELSE Move(c, "lost") /\ UNCHANGED <<record, outcome>>
  /\ UNCHANGED <<layer, related, action, copy, archives, todo, removed>>

\* The same where one statement cannot: the record is read to check it first.
CheckUpdate(c) ==
  /\ Guarded(c)
  /\ ~layer.atomic
  /\ Admitted(c)
  /\ Move(c, IF Guard(c) THEN "checked" ELSE "lost")
  /\ UNCHANGED <<layer, record, related, action, copy, archives, todo, removed,
                 outcome>>

UpdateChecked(c) ==
  /\ pc[c] = "checked"
  /\ ~Destroys(c)
  /\ Admitted(c) /\ RowFree(c)
  /\ IF record # Absent
       THEN record' = NextOf(c) /\ Return(c, "ok")
       ELSE UNCHANGED record /\ Return(c, "notfound")
  /\ UNCHANGED <<layer, related, action, copy, archives, todo, removed>>

\* stale_or_missing: why a guarded write found nothing to write.
StaleOrMissing(c) ==
  /\ pc[c] = "lost"
  /\ Admitted(c)
  /\ Fail(c, IF record # Absent THEN "stale" ELSE "notfound")
  /\ UNCHANGED <<layer, record, action, copy>>

-----------------------------------------------------------------------------
(* Destroys.  An archive (a soft destroy) writes the record first and then  *)
(* takes the related records; a hard destroy checks the lock, takes them,   *)
(* and deletes the record under the lock.                                   *)

\* The archive's write, which its transaction holds until it commits.
WriteArchive(c) ==
  /\ Move(c, "entered")
  /\ IF layer.transacts
       THEN archives' = [archives EXCEPT ![c] = TRUE] /\ UNCHANGED record
       ELSE record' = ArchivedBy(c) /\ UNCHANGED archives

\* persist_atomically of a soft destroy.
Archive(c) ==
  /\ pc[c] = "holding"
  /\ action[c] = "archive"
  /\ layer.atomic
  /\ Admitted(c) /\ RowFree(c)
  /\ IF Selected(c)
       THEN WriteArchive(c) /\ UNCHANGED outcome
       ELSE /\ UNCHANGED <<record, archives>>
            /\ IF layer.raises THEN Return(c, "stale")
                               ELSE Move(c, "unchanged") /\ UNCHANGED outcome
  /\ UNCHANGED <<layer, related, action, copy, todo, removed>>

\* persist_destroy of one, where it takes a read to check the record first.
CheckArchive(c) ==
  /\ pc[c] = "holding"
  /\ action[c] = "archive"
  /\ ~layer.atomic
  /\ Admitted(c)
  /\ Move(c, IF Guard(c) THEN "checked" ELSE "lost")
  /\ UNCHANGED <<layer, record, related, action, copy, archives, todo, removed,
                 outcome>>

ArchiveChecked(c) ==
  /\ pc[c] = "checked"
  /\ action[c] = "archive"
  /\ Admitted(c) /\ RowFree(c)
  /\ IF record # Absent
       THEN WriteArchive(c) /\ UNCHANGED <<todo, removed, related, outcome>>
       ELSE UNCHANGED record /\ Fail(c, "notfound")
  /\ UNCHANGED <<layer, action, copy>>

\* check_lock, before anything of a hard destroy is done.
CheckLock(c) ==
  /\ pc[c] = "holding"
  /\ action[c] = "destroy"
  /\ Admitted(c)
  /\ Move(c, IF Guard(c) THEN "entered" ELSE "lost")
  /\ UNCHANGED <<layer, record, related, action, copy, archives, todo, removed,
                 outcome>>

\* cascade_destroy_related, cascade_deletes: the related records are read, and
\* then destroyed one at a time.  One that is gone by then fails the destroy, as
\* not found, or, archived by a plan of its own, as stale.
FindRelated(c) ==
  /\ pc[c] = "entered"
  /\ Admitted(c)
  /\ Move(c, "cascading")
  /\ \E o \in Orders(related) : todo' = [todo EXCEPT ![c] = o]
  /\ UNCHANGED <<layer, record, related, action, copy, archives, removed, outcome>>

DestroyRelated(c) ==
  /\ pc[c] = "cascading"
  /\ todo[c] # <<>>
  /\ Admitted(c) /\ RelatedFree(c, Head(todo[c]))
  /\ IF Head(todo[c]) \in related
       THEN /\ todo' = [todo EXCEPT ![c] = Tail(@)]
            /\ removed' = [removed EXCEPT ![c] = @ \cup {Head(todo[c])}]
            /\ related' = IF layer.transacts THEN related
                                             ELSE related \ {Head(todo[c])}
            /\ UNCHANGED <<pc, archives, outcome>>
       ELSE \E error \in {"notfound", "stalechild"} : Fail(c, error)
  /\ UNCHANGED <<layer, record, action, copy>>

\* The destroy has done its last write: what its transaction held is gone.
Succeed(c) ==
  /\ Return(c, "ok")
  /\ related' = related \ removed[c]
  /\ archives' = [archives EXCEPT ![c] = FALSE]
  /\ UNCHANGED <<todo, removed>>

Ready(c, a) == pc[c] = "cascading" /\ action[c] = a /\ todo[c] = <<>>

FinishArchive(c) ==
  /\ Ready(c, "archive")
  /\ record' = IF layer.transacts THEN ArchivedBy(c) ELSE record
  /\ Succeed(c)
  /\ UNCHANGED <<layer, action, copy>>

\* destroy_guarded.
DestroyGuarded(c) ==
  /\ Ready(c, "destroy")
  /\ layer.atomic
  /\ Admitted(c) /\ RowFree(c)
  /\ IF Guard(c)
       THEN record' = Absent /\ Succeed(c)
       ELSE /\ Move(c, "lost")
            /\ UNCHANGED <<record, related, archives, todo, removed, outcome>>
  /\ UNCHANGED <<layer, action, copy>>

CheckDestroy(c) ==
  /\ Ready(c, "destroy")
  /\ ~layer.atomic
  /\ Admitted(c)
  /\ Move(c, IF Guard(c) THEN "checked" ELSE "lost")
  /\ UNCHANGED <<layer, record, related, action, copy, archives, todo, removed,
                 outcome>>

DestroyChecked(c) ==
  /\ pc[c] = "checked"
  /\ action[c] = "destroy"
  /\ Admitted(c) /\ RowFree(c)
  /\ IF record # Absent
       THEN record' = Absent /\ Succeed(c)
       ELSE UNCHANGED record /\ Fail(c, "notfound")
  /\ UNCHANGED <<layer, action, copy>>

-----------------------------------------------------------------------------
(* The database.                                                            *)

\* Whose rows c's next write waits for.
WaitsFor(c) ==
  IF pc[c] = "cascading" /\ todo[c] # <<>>
    THEN {d \in Client \ {c} : Head(todo[c]) \in HoldsRelated(d)}
  ELSE IF Ready(c, "destroy") \/ (pc[c] = "checked" /\ action[c] = "destroy")
    THEN {d \in Client \ {c} : HoldsRow(d)}
  ELSE {}

\* c is in a ring of transactions that wait for one another's rows: the
\* database breaks one off.
BreakOff(c) ==
  /\ \E S \in SUBSET Client : c \in S /\ \A d \in S : WaitsFor(d) \cap S # {}
  /\ Fail(c, "brokenoff")
  /\ UNCHANGED <<layer, record, action, copy>>

-----------------------------------------------------------------------------
\* What c's attempt does next.
Proceed(c) ==
  \/ UpdateAtomically(c) \/ Unchanged(c)
  \/ UpdateGuarded(c) \/ CheckUpdate(c) \/ UpdateChecked(c) \/ StaleOrMissing(c)
  \/ Archive(c) \/ CheckArchive(c) \/ ArchiveChecked(c)
  \/ CheckLock(c) \/ FindRelated(c) \/ DestroyRelated(c) \/ FinishArchive(c)
  \/ DestroyGuarded(c) \/ CheckDestroy(c) \/ DestroyChecked(c)

Next ==
  \E c \in Client :
    \/ \E a \in Action : Read(c, a)
    \/ FindNothing(c)
    \/ Proceed(c)
    \/ BreakOff(c)

Spec == Init /\ [][Next]_vars

\* The runtime polls every attempt; the row lock an attempt waits for, or the
\* one connection, goes to whoever waits longest; and a ring is broken off.
Fairness == \A c \in Client : SF_vars(Proceed(c)) /\ WF_vars(BreakOff(c))

FairSpec == Spec /\ Fairness

-----------------------------------------------------------------------------
(* Properties.                                                              *)

\* What each variable holds.
Shape ==
  /\ layer \in Layers
  /\ record \in Record \cup {Absent}
  /\ related \subseteq Related
  /\ pc \in [Client -> Place]
  /\ action \in [Client -> Action \cup {Absent}]
  /\ copy \in [Client -> Record \cup {Absent}]
  /\ archives \in [Client -> BOOLEAN]
  /\ todo \in [Client -> Seq(Related)]
  /\ removed \in [Client -> SUBSET Related]
  /\ outcome \in [Client -> Outcome]

\* Only an open transaction holds rows, and an archive's holds the record from
\* its write to its end.
Held(c) ==
  /\ pc[c] # "idle" => action[c] # Absent /\ copy[c] # Absent
  /\ pc[c] \in {"entered", "cascading"} => Destroys(c)
  /\ HoldsRelated(c) # {} => InTransaction(c)
  /\ HoldsRow(c) <=> /\ layer.transacts /\ action[c] = "archive"
                     /\ pc[c] \in {"entered", "cascading"}
  /\ HoldsRow(c) => record # Absent /\ RowFree(c)

\* Every variable has its shape, and rows are held as transactions hold them:
\* a failure, whichever call it comes from, lets go of them.
TypeOK == Shape /\ \A c \in Client : Held(c)

\* Where the data layer writes in one statement, the record is the one
\* VersionedRecord describes (lock.rs, "the write lands only if the record
\* still holds the lock versions it was read at"): no update is lost, and none
\* reaches a record archived or deleted, whichever path each caller's takes.
LockedWritesOnly == [][layer.atomic => [VR!Next]_record]_vars

\* Why: a record's version counts the writes made to it, so a copy that has the
\* record's version has its value too, and no copy has an archived record's.
\* What a transaction has archived stays live until it commits.
CopiesTrail ==
  layer.atomic =>
    /\ record # Absent =>
         record.ver = 1 + record.n + (IF record.archived THEN 1 ELSE 0)
    /\ \A c \in Client :
         /\ pc[c] # "checked"
         /\ archives[c] => VR!Live(record)
         /\ copy[c] # Absent =>
              /\ copy[c].ver = 1 + copy[c].n
              /\ record # Absent => copy[c].ver <= record.ver
              /\ record # Absent /\ record.archived => copy[c].ver < record.ver

\* Where the data layer writes in one statement: an attempt is told its record
\* is stale only if someone else has written it since it was read.  It is told
\* that the record is not found, or that a related one is not found or stale,
\* only if the record is not there - of a destroy, only where it runs in a
\* transaction (stale_or_missing, Guards::unchanged, destroy_child).
FailuresAreTrue ==
  layer.atomic =>
    \A c \in Client :
      /\ outcome[c] = "stale" => record = Absent \/ record.ver > copy[c].ver
      /\ outcome[c] \in {"notfound", "stalechild"} /\ (Destroys(c) => layer.transacts)
           => ~VR!Live(record)

\* In a transaction the related records go when their record does: nobody
\* ever finds it live without one of them, nor any of them once it is gone.
RelatedGoWithTheRecord ==
  layer.transacts => related = IF VR!Live(record) THEN Related ELSE {}

\* Every attempt returns: whatever it waits for, a row, the connection or a
\* ring of transactions, ends.
AttemptsReturn == \A c \in Client : pc[c] = "holding" ~> pc[c] = "idle"

\* managed.rs: "A stale record's related records stay: its lock is checked
\* before they go."  It does not hold where there is no transaction: the record
\* can move on after its lock is checked.
StaleKeepsRelated == \A c \in Client : outcome[c] = "stale" => removed[c] = {}
=============================================================================
