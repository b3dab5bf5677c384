----------------------------- MODULE BulkAction -----------------------------
(* One call of ash-core's bulk_create, bulk_update or bulk_destroy: rows   *)
(* are prepared one by one, cut into batches, each batch is written,       *)
(* finished and settled, in the transactions the options ask for and the   *)
(* data layer can give. Anything may fail at each row and each commit, and *)
(* somebody else may have changed a record or a related one since it was   *)
(* read.                                                                   *)
(*                                                                         *)
(* A row's record is as it was ("before"), as the action leaves it         *)
(* ("after"), or deleted by an upsert undone ("gone"). `related` has the   *)
(* rows whose other records were written: those that go with them for a    *)
(* destroy, a managed parent or child otherwise. A rollback puts back what *)
(* was there when its transaction began. On Postgres a statement that      *)
(* fails aborts its transaction: the COMMIT of one rolls it back, and says *)
(* nothing of it.                                                          *)
EXTENDS Naturals, Sequences, FiniteSets

CONSTANTS
  N,             \* rows given, or found for a destroy
  Sizes,         \* batch sizes: one, at least
  Absent         \* how many more ids a destroy may be given than it finds

ASSUME RowsAssumption ==
  N \in Nat /\ Sizes \subseteq Nat \ {0} /\ Absent \subseteq Nat

Rows == 1..N

VARIABLES
  kind,          \* what is done to each row, below
  locked,        \* the action has an optimistic lock
  cascades,      \* the record's relationships go with it
  asked,         \* BulkTransaction, as the options have it
  can,           \* the data layer can transact
  stop,          \* stop_on_error
  size,          \* batch_size
  at,            \* where the call is
  next,          \* the row it is at, of all or of the batch
  prepared,      \* rows prepared and not in a batch yet
  batch,         \* the batch being written
  outcome,       \* of each row
  table,         \* of each row's record
  related,       \* rows whose other records were written
  queue,         \* rows whose notification waits for a commit
  sent,          \* rows notified of
  saved,         \* what the open transaction puts back
  told,          \* what each row's after-transaction hooks were told
  count,         \* BulkResult's count
  errors,        \* and error_count
  answer         \* "none" yet, "ok" with a BulkResult, or "error"

options == <<kind, locked, cascades, asked, can, stop, size>>
store == <<table, related, queue>>
result == <<count, errors, answer>>
vars == <<kind, locked, cascades, asked, can, stop, size, at, next, prepared, batch,
          outcome, table, related, queue, sent, saved, told, count, errors, answer>>

(* create writes a batch in one statement, upsert row by row, update in    *)
(* one statement or, under a lock, row by row. destroy takes each row's    *)
(* related records and then deletes the batch; destroy_each, which is soft *)
(* or cascades, runs a whole destroy for each row.                         *)
Kinds == {"create", "upsert", "update", "destroy", "destroy_each"}

Destroys == kind \in {"destroy", "destroy_each"}

\* How many rows the call may have been given.
Given == {N} \cup (IF Destroys THEN {N + absent : absent \in Absent} ELSE {})

PerBatch == can /\ asked = "Batch"
Whole == can /\ asked = "All"
Transactional == PerBatch \/ Whole

Store == [table |-> table, related |-> related, queue |-> queue]

Init ==
  /\ kind \in Kinds
  /\ locked \in BOOLEAN
  /\ locked => kind \notin {"create", "upsert"}
  /\ cascades \in IF kind = "destroy" THEN BOOLEAN ELSE {kind = "destroy_each"}
  /\ asked \in {"All", "Batch", "Off"}
  /\ can \in BOOLEAN
  /\ stop \in BOOLEAN
  /\ size \in Sizes
  /\ at = IF kind = "destroy_each" THEN "open" ELSE "prepare"
  /\ next = 1
  /\ prepared = IF kind = "destroy_each" THEN [i \in Rows |-> i] ELSE <<>>
  /\ batch = <<>>
  /\ outcome = [r \in Rows |-> "none"]
  /\ table = [r \in Rows |-> "before"]
  /\ related = {}
  /\ queue = {}
  /\ sent = {}
  /\ saved = Store
  /\ told = [r \in Rows |-> "none"]
  /\ count = 0
  /\ errors = 0
  /\ answer = "none"

---------------------------------------------------------------------------
(* What an error does                                                      *)

RollBack ==
  /\ table' = saved.table
  /\ related' = saved.related
  /\ queue' = saved.queue

Answer(what) == at' = "done" /\ answer' = what

\* Mutant: the count of the rows undone is kept.
FailedCounted(rows, goesOn) ==
  IF Whole
  THEN Answer(IF stop THEN "error" ELSE "ok") /\ UNCHANGED count /\ errors' \in Given
  ELSE IF stop
  THEN Answer("error") /\ UNCHANGED <<count, errors>>
  ELSE at' = goesOn /\ errors' = errors + rows /\ UNCHANGED <<count, answer>>

(* Some rows failed. In one transaction that ends the action, rolled back, *)
(* and in_scope has every row it was given fail with it, found or not; so  *)
(* does the first error where the options say so. Otherwise the rows are   *)
(* counted and the action goes on.                                         *)
Failed(rows, goesOn) ==
  IF Whole
  THEN Answer(IF stop THEN "error" ELSE "ok") /\ count' = 0 /\ errors' \in Given
  ELSE IF stop
  THEN Answer("error") /\ UNCHANGED <<count, errors>>
  ELSE at' = goesOn /\ errors' = errors + rows /\ UNCHANGED <<count, answer>>

InBatch == {batch[i] : i \in DOMAIN batch}

\* A statement of the open transaction has failed, and nothing can be written.
Aborted == \E r \in IF Whole THEN Rows ELSE InBatch : outcome[r] = "raised"

\* COMMIT puts back what an aborted transaction had written; its rows that came
\* through are "dropped".
CommitOf(rows) ==
  IF Aborted
  THEN /\ table' = saved.table /\ related' = saved.related
       /\ outcome' = [r \in Rows |-> IF r \in rows /\ outcome[r] = "ok" THEN "dropped"
                                     ELSE outcome[r]]
  ELSE UNCHANGED <<table, related, outcome>>

Batched(what, f) == [r \in Rows |-> IF r \in InBatch THEN what ELSE f[r]]

(* The hooks of destroy_each run with each row's own destroy, those of the *)
(* others wait for the batch.                                              *)
HooksWait == kind # "destroy_each"

Row == batch[next]

\* Mutant: a batch that fails counts as one error.
BatchFailsOnce ==
  /\ outcome' = Batched("error", outcome)
  /\ told' \in IF HooksWait THEN {Batched("error", told)}
               ELSE IF at = "write" THEN {told, [told EXCEPT ![Row] = "error"]} ELSE {told}
  /\ Failed(1, "open")
  /\ UNCHANGED <<options, next, prepared, batch, sent, saved>>

\* Mutant: the hooks of a batch that fails are dropped.
BatchFailsUnheard ==
  /\ outcome' = Batched("error", outcome)
  /\ Failed(Len(batch), "open")
  /\ UNCHANGED <<options, next, prepared, batch, sent, saved, told>>

(* in_batch and settle: a batch that fails is rolled back where there is a *)
(* transaction, and every row of it fails and is told so.                  *)
BatchFails ==
  /\ outcome' = Batched("error", outcome)
  /\ told' \in IF HooksWait THEN {Batched("error", told)}
               ELSE IF at = "write" THEN {told, [told EXCEPT ![Row] = "error"]} ELSE {told}
  /\ Failed(Len(batch), "open")
  /\ UNCHANGED <<options, next, prepared, batch, sent, saved>>

---------------------------------------------------------------------------
(* Preparing                                                               *)

Preparing == at = "prepare" /\ next <= N

\* Mutant: a row that cannot be prepared fails alone, whatever the scope.
RejectAlone(what) ==
  /\ outcome' = [outcome EXCEPT ![next] = what]
  /\ IF stop
     THEN Answer("error") /\ UNCHANGED <<count, errors>>
     ELSE at' = "prepare" /\ errors' = errors + 1 /\ UNCHANGED <<count, answer>>
  /\ next' = next + 1
  /\ UNCHANGED <<options, store, prepared, batch, sent, saved>>

(* reject: rows are prepared before their batch opens, so one that cannot  *)
(* be rolls nothing back unless the whole action is one transaction.       *)
Reject(what) ==
  /\ outcome' = [outcome EXCEPT ![next] = what]
  /\ Failed(1, "prepare")
  /\ IF Whole THEN RollBack ELSE UNCHANGED store
  /\ next' = next + 1
  /\ UNCHANGED <<options, prepared, batch, sent, saved>>

(* The input is refused: there is no changeset, and no hook of one.        *)
Refuse == Preparing /\ Reject("refused") /\ UNCHANGED told

(* A before-action hook, a validation or a policy fails.                   *)
PrepareFails == Preparing /\ Reject("error") /\ told' = [told EXCEPT ![next] = "error"]

(* attach_belongs_to may create the record this one belongs to.            *)
PrepareRow ==
  /\ Preparing
  /\ prepared' = Append(prepared, next)
  /\ next' = next + 1
  /\ related' \in {related} \cup (IF kind = "destroy" THEN {} ELSE {related \cup {next}})
  /\ UNCHANGED <<options, at, batch, outcome, table, queue, sent, saved, told, result>>

Prepared ==
  /\ at = "prepare" /\ next > N
  /\ at' = "open"
  /\ UNCHANGED <<options, next, prepared, batch, outcome, store, sent, saved, told, result>>

---------------------------------------------------------------------------
(* A batch                                                                 *)

Least(a, b) == IF a < b THEN a ELSE b

OpenBatch ==
  /\ at = "open" /\ prepared # <<>>
  /\ LET n == Least(size, Len(prepared))
     IN  /\ batch' = SubSeq(prepared, 1, n)
         /\ prepared' = SubSeq(prepared, n + 1, Len(prepared))
  /\ saved' = IF PerBatch THEN Store ELSE saved
  /\ at' = IF kind = "destroy" THEN "relate" ELSE "write"
  /\ next' = 1
  /\ UNCHANGED <<options, outcome, store, sent, told, result>>

AtRow(phase) == at = phase /\ next <= Len(batch)
Through(phase) == at = phase /\ next > Len(batch)

(* The row at hand is done with, and the batch goes on.                    *)
SaysAndTells(what, heard) ==
  /\ outcome' = [outcome EXCEPT ![Row] = what]
  /\ told' = IF HooksWait THEN told ELSE [told EXCEPT ![Row] = heard]
  /\ next' = next + 1
  /\ UNCHANGED <<options, at, prepared, batch, sent, saved, result>>

Says(what) == SaysAndTells(what, "none")

\* Mutant: a row fails alone, in a transaction or not.
FailsAlone(t, rel) ==
  SaysAndTells("error", "error") /\ table' = t /\ related' = rel /\ UNCHANGED queue

(* An error ends a batch in a transaction at once, rolled back; without    *)
(* one the row fails alone, and what it wrote stays.                       *)
FailsWith(t, rel) ==
  IF Transactional
  THEN RollBack /\ BatchFails
  ELSE SaysAndTells("error", "error") /\ table' = t /\ related' = rel /\ UNCHANGED queue

TurnsTo(phase) ==
  /\ at' = phase
  /\ next' = 1
  /\ UNCHANGED <<options, prepared, batch, outcome, store, sent, saved, told, result>>

(* A plain destroy first checks each row's lock and takes its related      *)
(* records.                                                                *)
Relate ==
  /\ AtRow("relate")
  /\ Says("ok")
  /\ related' = IF cascades THEN related \cup {Row} ELSE related
  /\ UNCHANGED <<table, queue>>

FoundStale ==
  /\ locked
  /\ AtRow("relate") \/ (kind = "destroy_each" /\ AtRow("write"))
  /\ Says("stale")
  /\ UNCHANGED store

RelateFails ==
  /\ AtRow("relate")
  /\ \E rel \in {related, IF cascades THEN related \cup {Row} ELSE related} :
       FailsWith(table, rel)

Related == Through("relate") /\ TurnsTo("write")

(* The batch in one call: a create; an update or a destroy with no lock.   *)
(* Each row of an update has its own result, so one that is gone fails     *)
(* alone. The rest of a statement that fails is undone by the database;    *)
(* but ash-memory's bulk_create keeps the rows before the one it refuses,  *)
(* and ash-postgres updates a batch with too many parameters for one       *)
(* statement in several.                                                   *)
Together == kind = "create" \/ (kind \in {"update", "destroy"} /\ ~locked)

Going == {r \in InBatch : kind = "destroy" => outcome[r] = "ok"}

WriteTogether ==
  /\ at = "write" /\ Together /\ ~Aborted
  /\ \E lost \in IF kind = "update" THEN SUBSET Going ELSE {{}} :
       /\ table' = [r \in Rows |-> IF r \in Going \ lost THEN "after" ELSE table[r]]
       /\ outcome' = [r \in Rows |-> IF r \in lost THEN "error"
                                    ELSE IF r \in Going THEN "ok" ELSE outcome[r]]
  /\ at' = "finish"
  /\ next' = 1
  /\ UNCHANGED <<options, prepared, batch, related, queue, sent, saved, told, result>>

Before(n) == {batch[i] : i \in 1..n - 1}

\* What may be written of a batch whose write fails.
Parts ==
  {{}} \cup (CASE kind = "create" /\ ~can -> {Before(n) : n \in DOMAIN batch}
               [] kind = "update" /\ can -> SUBSET Before(Len(batch))
               [] OTHER -> {})

TogetherFails ==
  /\ at = "write" /\ Together
  /\ BatchFails
  /\ IF Transactional THEN RollBack
     ELSE /\ \E part \in Parts :
               table' = [r \in Rows |-> IF r \in part THEN "after" ELSE table[r]]
          /\ UNCHANGED <<related, queue>>

(* Row by row: an upsert; an update or a destroy under a lock, each as it  *)
(* was read; a destroy that is soft or cascades.                           *)
Writing == AtRow("write") /\ ~Together /\ (kind = "destroy" => outcome[Row] = "ok")

WriteRow ==
  /\ Writing /\ ~Aborted
  /\ SaysAndTells("ok", "ok")
  /\ table' = [table EXCEPT ![Row] = "after"]
  /\ related' = IF kind = "destroy_each" THEN related \cup {Row} ELSE related
  /\ queue' = IF kind = "destroy_each" THEN queue \cup {Row} ELSE queue

(* Changed since it was read, or since its lock was checked and its        *)
(* related records went: in a transaction those must come back.            *)
RowIsStale ==
  /\ Writing /\ locked /\ ~Aborted
  /\ IF cascades /\ Transactional
     THEN RollBack /\ BatchFails
     ELSE /\ SaysAndTells("stale", "error")
          /\ related' \in {related, IF kind = "destroy_each" THEN related \cup {Row} ELSE related}
          /\ UNCHANGED <<table, queue>>

RowFails ==
  /\ Writing
  /\ CASE kind = "destroy_each" ->
            \E rel \in {related, related \cup {Row}} : FailsWith(table, rel)
       [] cascades /\ kind = "destroy" -> FailsWith(table, related)
       [] OTHER -> Says("error") /\ UNCHANGED store

LeftOut ==
  /\ AtRow("write") /\ kind = "destroy" /\ locked /\ outcome[Row] # "ok"
  /\ Says(outcome[Row])
  /\ UNCHANGED store

Written ==
  /\ Through("write") /\ ~Together
  /\ TurnsTo(IF kind = "destroy_each" THEN "commit" ELSE "finish")

---------------------------------------------------------------------------
(* finish_rows: after-action hooks, managed relationships, a notification. *)

Finishing(what) == AtRow("finish") /\ outcome[Row] = what

FinishRow ==
  /\ Finishing("ok")
  /\ Says("ok")
  /\ queue' = queue \cup {Row}
  /\ UNCHANGED <<table, related>>

(* A managed relationship that fails undoes a create, by its id: an upsert *)
(* that matched a record deletes it. A hook that fails undoes nothing.     *)
Undone ==
  {"after"} \cup (IF kind \in {"create", "upsert"} THEN {"before"} ELSE {})
            \cup (IF kind = "upsert" THEN {"gone"} ELSE {})

FinishFails ==
  /\ Finishing("ok")
  /\ \E t \in Undone : FailsWith([table EXCEPT ![Row] = t], related \cup {Row})

(* A managed record was changed since it was read. This is the same error  *)
(* as the row's own, and leaves the row out as that does, written or not.  *)
(* Where the child's update was planned it is its statement that raises    *)
(* the error, and with it aborts a transaction.                            *)
ChildIsStale ==
  /\ Finishing("ok") /\ kind \in {"update", "upsert"} /\ ~Aborted
  /\ \E what \in {"stale_child"} \cup (IF Transactional THEN {"raised"} ELSE {}) : Says(what)
  /\ related' = related \cup {Row}
  /\ \E t \in IF kind = "upsert" THEN Undone ELSE {"after"} : table' = [table EXCEPT ![Row] = t]
  /\ UNCHANGED queue

FinishStale == Finishing("stale") /\ Says("stale") /\ UNCHANGED store

FinishFailed == Finishing("error") /\ FailsWith(table, related)

Finished == Through("finish") /\ TurnsTo("commit")

---------------------------------------------------------------------------
(* Settling                                                                *)

LeavesOut == {"stale", "stale_child", "raised"}

Telling == [r \in Rows |-> IF r \notin InBatch \/ ~HooksWait THEN told[r]
                           ELSE IF outcome[r] = "ok" THEN "ok" ELSE "error"]

Ended(what) == {r \in InBatch : outcome[r] = what}

(* settle: hooks first, then the count, which leaves out stale rows. The   *)
(* notifications of a batch go out as it commits, or is thought to.        *)
Settle ==
  /\ at = "commit"
  /\ told' = Telling
  /\ sent' = IF Whole THEN sent ELSE sent \cup queue
  /\ queue' = IF Whole THEN queue ELSE {}
  /\ IF stop /\ Ended("error") # {}
     THEN Answer("error") /\ UNCHANGED <<count, errors>>
     ELSE /\ count' = count + Cardinality(Ended("ok"))
          /\ errors' = errors + Cardinality(Ended("error"))
          /\ at' = "open"
          /\ UNCHANGED answer
  /\ IF PerBatch THEN CommitOf(InBatch) ELSE UNCHANGED <<table, related, outcome>>
  /\ UNCHANGED <<options, next, prepared, batch, saved>>

CommitFails ==
  /\ at = "commit" /\ PerBatch
  /\ RollBack
  /\ BatchFails

Return ==
  /\ at = "open" /\ prepared = <<>>
  /\ Answer("ok")
  /\ sent' = sent \cup queue
  /\ queue' = {}
  /\ IF Whole THEN CommitOf(Rows) ELSE UNCHANGED <<table, related, outcome>>
  /\ UNCHANGED <<options, next, prepared, batch, saved, told, count, errors>>

WholeFails ==
  /\ at = "open" /\ prepared = <<>> /\ Whole
  /\ RollBack
  /\ Failed(N, "done")
  /\ UNCHANGED <<options, next, prepared, batch, outcome, sent, saved, told>>

Next ==
  \/ Refuse \/ PrepareFails \/ PrepareRow \/ Prepared \/ OpenBatch
  \/ Relate \/ FoundStale \/ RelateFails \/ Related
  \/ WriteTogether \/ TogetherFails
  \/ WriteRow \/ RowIsStale \/ RowFails \/ LeftOut \/ Written
  \/ FinishRow \/ FinishFails \/ ChildIsStale \/ FinishStale \/ FinishFailed \/ Finished
  \/ Settle \/ CommitFails \/ Return \/ WholeFails

Spec == Init /\ [][Next]_vars

---------------------------------------------------------------------------

Outcomes == {"none", "ok", "error", "refused", "dropped"} \cup LeavesOut

(* Types; a BulkResult counts no row twice, and fails every row or some.   *)
TypeOK ==
  /\ at \in {"prepare", "open", "relate", "write", "finish", "commit", "done"}
  /\ next \in 1..N + 1
  /\ prepared \in Seq(Rows) /\ batch \in Seq(Rows)
  /\ outcome \in [Rows -> Outcomes]
  /\ table \in [Rows -> {"before", "after", "gone"}]
  /\ related \in SUBSET Rows
  /\ queue \in SUBSET Rows
  /\ sent \in SUBSET Rows
  /\ told \in [Rows -> {"none", "ok", "error"}]
  /\ answer \in {"none", "ok", "error"}
  /\ count + errors <= N \/ (count = 0 /\ errors \in Given)

Done == at = "done"

(* A whole action in one transaction is all or nothing: records, related   *)
(* ones and notifications stay only if every row was counted or left out;  *)
(* but what an aborted transaction's COMMIT put back was notified of.      *)
WholeIsAllOrNothing ==
  Done /\ Whole =>
    \/ /\ answer = "ok" /\ errors = 0
       /\ \A r \in Rows : outcome[r] \in {"ok", "stale", "stale_child"}
    \/ \A r \in Rows :
         /\ table[r] = "before" /\ r \notin related
         /\ r \in sent => outcome[r] = "dropped"

(* Where rows are written in transactions, a BulkResult and the database   *)
(* agree: the rows counted are those stored and notified of, the others    *)
(* are as they were, unless a managed record was stale; and where related  *)
(* records go with theirs, those of exactly the rows counted went. But on  *)
(* Postgres a stale managed record's statement may abort the transaction:  *)
(* then its rows are counted and notified of, and COMMIT has put them back *)
(* (finish_rows, Postgres::transaction).                                   *)
Stored == {r \in Rows : table[r] = "after" /\ outcome[r] # "stale_child"}
Dropped == {r \in Rows : outcome[r] = "dropped"}

CountIsStored ==
  Done /\ Transactional =>
    /\ answer = "ok" => count = Cardinality(Stored \cup Dropped)
    /\ sent = Stored \cup Dropped
    /\ Dropped # {} => \E r \in Rows : outcome[r] = "raised"
    /\ \A r \in Dropped : table[r] = "before"
    /\ cascades => related = Stored
    /\ \A r \in Rows : table[r] = "gone" => outcome[r] = "stale_child"

(* Every row is accounted for: counted, an error, or left out.             *)
Accounted ==
  Done /\ answer = "ok" =>
    \/ Whole /\ errors \in Given
    \/ count + errors + Cardinality({r \in Rows : outcome[r] \in LeavesOut}) = N

(* After-transaction hooks hear what came of their row: one told it was    *)
(* stored finds it stored, and where there is a transaction one told it    *)
(* failed does not; but for one whose transaction COMMIT rolled back. They *)
(* run inside a transaction of the whole action, and destroy_each runs     *)
(* them inside its batch's: those are only right if it commits. An action  *)
(* that returns a result has told every hook that waited (settle).         *)
HooksInside == Whole \/ (PerBatch /\ ~HooksWait)

HooksHear ==
  /\ ~HooksInside /\ at \in {"open", "done"} =>
       \A r \in Rows :
         /\ told[r] = "ok" => table[r] = "after" \/ r \in Dropped
         /\ Transactional /\ told[r] = "error" =>
              table[r] = "before" \/ outcome[r] = "stale_child"
  /\ Done /\ ~Whole /\ answer = "ok" =>
       \A r \in Rows :
         told[r] = "none" => (outcome[r] = "refused" \/ ~HooksWait) /\ table[r] = "before"
=============================================================================
