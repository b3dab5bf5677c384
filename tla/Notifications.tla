---------------------------- MODULE Notifications ----------------------------
(***************************************************************************)
(* ash-core: when the notification of a write reaches its notifiers, as a   *)
(* task runs actions in scopes that nest: Context::transaction and          *)
(* Context::atomically (context.rs), Multi::execute and                     *)
(* Multi::execute_without_transaction (multi.rs), on a data layer with      *)
(* transactions and savepoints.  A batch of a bulk action is a transaction. *)
(*                                                                         *)
(* A scope's context has a queue or not, and within a transaction every     *)
(* context writes on its connection.  A write is notified once it is        *)
(* stored: onto its context's queue, or at once where there is none.        *)
(* Writes are numbered in the order they are made.                          *)
(***************************************************************************)
EXTENDS Naturals, Sequences, FiniteSets, SequencesExt

CONSTANTS
  Inside,      \* the scopes the program opens directly inside each, and on "top"
  Swallowed,   \* the scopes whose error their caller goes on after
  Aborts,      \* a statement that fails aborts its transaction, as on Postgres
  MaxDepth,    \* bound: scopes open at once
  MaxWrites    \* bound: writes in all

Kind  == {"transaction", "atomically", "multi", "pipeline"}
Write == 1..MaxWrites

ASSUME ScopeAssumption ==
  /\ Inside \in [Kind \cup {"top"} -> SUBSET Kind]
  /\ Swallowed \subseteq Kind
  /\ Aborts \in BOOLEAN
ASSUME BoundAssumption == MaxDepth \in Nat /\ MaxWrites \in Nat

\* A scope: its context's queue (that of the scope at this depth; 0: none),
\* whether it made that queue, whether it opened a transaction or a savepoint,
\* how much was written in the transaction before it, and how much in all.
Scope == [kind : Kind, queue : 0..MaxDepth, owns : BOOLEAN, tx : BOOLEAN,
          mark : 0..MaxWrites, from : 0..MaxWrites]

Phase == {"running", "written", "failing", "flushing"}

VARIABLES
  stack,      \* the scopes open, innermost last
  phase,      \* what the task is doing
  queue,      \* per depth, the queue the scope there made
  outbox,     \* the notifications being sent, taken from a queue
  pending,    \* what the open transaction has written and not undone
  committed,  \* what is committed
  sent,       \* what notifiers were sent
  writes,     \* how many writes were made
  excused,    \* history: writes whose notification was given up
  broken,     \* history: writes of all-or-nothing scopes that failed
  aborted,    \* the open transaction takes nothing but a rollback
  dropped     \* history: writes of aborted transactions, rolled back at COMMIT

vars == <<stack, phase, queue, outbox, pending, committed, sent, writes, excused,
          broken, aborted, dropped>>

Depth == 1..MaxDepth

Init ==
  /\ stack = <<>>
  /\ phase = "running"
  /\ queue = [d \in Depth |-> <<>>]
  /\ outbox = <<>>
  /\ pending = <<>>
  /\ committed = <<>>
  /\ sent = <<>>
  /\ writes = 0
  /\ excused = {}
  /\ broken = {}
  /\ aborted = FALSE
  /\ dropped = {}

Where        == IF stack = <<>> THEN "top" ELSE Last(stack).kind
CurrentQueue == IF stack = <<>> THEN 0 ELSE Last(stack).queue
InTx(s)      == \E d \in DOMAIN s : s[d].tx

\* Mutant: every scope makes a queue.
AlwaysMakesQueue(kind) == TRUE

\* A Multi always has a queue of its own; a transaction, or an action that
\* must be atomic, makes one where its context has none.
MakesQueue(kind) == kind \in {"multi", "pipeline"} \/ CurrentQueue = 0

\* Mutant: a transaction whose context has a queue opens no savepoint.
OpensTxWithoutQueue(kind) == kind = "multi" \/ (kind # "pipeline" /\ CurrentQueue = 0)

\* An action takes a context with a queue to be in a transaction already.
OpensTx(kind) ==
  kind \in {"transaction", "multi"} \/ (kind = "atomically" /\ CurrentQueue = 0)

-----------------------------------------------------------------------------
Open(kind) ==
  LET depth == Len(stack) + 1
  IN  /\ phase = "running"
      /\ depth <= MaxDepth
      /\ kind \in Inside[Where]
      /\ OpensTx(kind) => ~aborted
      /\ stack' = Append(stack,
                    [kind  |-> kind,
                     queue |-> IF MakesQueue(kind) THEN depth ELSE CurrentQueue,
                     owns  |-> MakesQueue(kind),
                     tx    |-> OpensTx(kind),
                     mark  |-> Len(pending),
                     from  |-> writes])
      /\ queue' = [queue EXCEPT ![depth] = <<>>]
      /\ UNCHANGED <<phase, outbox, pending, committed, sent, writes, excused,
                     broken, aborted, dropped>>

\* An action's write is stored: committed at once outside a transaction.
Persist ==
  /\ phase = "running"
  /\ ~aborted
  /\ writes < MaxWrites
  /\ writes' = writes + 1
  /\ phase' = "written"
  /\ IF InTx(stack)
       THEN pending' = Append(pending, writes') /\ UNCHANGED committed
       ELSE committed' = Append(committed, writes') /\ UNCHANGED pending
  /\ UNCHANGED <<stack, queue, outbox, sent, excused, broken, aborted, dropped>>

\* dispatch_notification, the last thing an action does.
Dispatch ==
  /\ phase = "written"
  /\ phase' = "running"
  /\ IF CurrentQueue = 0
       THEN sent' = Append(sent, writes) /\ UNCHANGED queue
       ELSE queue' = [queue EXCEPT ![CurrentQueue] = Append(@, writes)]
            /\ UNCHANGED sent
  /\ UNCHANGED <<stack, outbox, pending, committed, writes, excused, broken,
                 aborted, dropped>>

\* An error is the program's own, or a statement's.
Errs == UNCHANGED aborted \/ (Aborts /\ InTx(stack) /\ aborted' = TRUE)

\* The action fails instead, in a hook or a managed relationship.
FailAfterWrite ==
  /\ phase = "written"
  /\ phase' = IF stack = <<>> THEN "running" ELSE "failing"
  /\ excused' = excused \cup {writes}
  /\ Errs
  /\ UNCHANGED <<stack, queue, outbox, pending, committed, sent, writes, broken,
                 dropped>>

\* An action fails before it writes, and its scope with it.
FailBeforeWrite ==
  /\ phase = "running"
  /\ stack # <<>>
  /\ phase' = "failing"
  /\ Errs
  /\ UNCHANGED <<stack, queue, outbox, pending, committed, sent, writes, excused,
                 broken, dropped>>

\* Mutant: an action's own transaction forgets what it queued.
FlushMultis(scope) ==
  IF scope.owns /\ scope.kind # "atomically"
    THEN /\ outbox' = queue[scope.queue]
         /\ queue' = [queue EXCEPT ![scope.queue] = <<>>]
         /\ phase' = "flushing"
    ELSE UNCHANGED <<outbox, queue>> /\ phase' = "running"

\* The innermost scope's queue is sent by the scope that made it.
Flush(scope) ==
  IF scope.owns THEN /\ outbox' = queue[scope.queue]
                     /\ queue' = [queue EXCEPT ![scope.queue] = <<>>]
                     /\ phase' = "flushing"
                ELSE UNCHANGED <<outbox, queue>> /\ phase' = "running"

\* The innermost scope ends, and with it the outermost transaction.
Commits == InTx(stack) /\ ~InTx(Front(stack))

\* The innermost scope's savepoint cannot be released: its transaction aborted.
CannotRelease ==
  phase = "running" /\ aborted /\ stack # <<>> /\ Last(stack).tx /\ ~Commits

\* The innermost scope returns: the outermost transaction commits, a savepoint
\* is released.  The COMMIT of an aborted transaction rolls it back, and says
\* nothing of it.
Close ==
  /\ phase = "running"
  /\ stack # <<>>
  /\ ~CannotRelease
  /\ stack' = Front(stack)
  /\ aborted' = (aborted /\ ~Commits)
  /\ pending' = IF Commits THEN <<>> ELSE pending
  /\ committed' = IF Commits /\ ~aborted THEN committed \o pending ELSE committed
  /\ dropped' = IF Commits /\ aborted THEN dropped \cup ToSet(pending) ELSE dropped
  /\ Flush(Last(stack))
  /\ UNCHANGED <<sent, writes, excused, broken>>

\* Mutant: a savepoint rolls the whole transaction back.
AllUndone(scope) == IF scope.tx THEN <<>> ELSE pending

\* What is left in the transaction once scope, its innermost, has failed.
Undone(scope) == IF scope.tx THEN SubSeq(pending, 1, scope.mark) ELSE pending

\* Its caller is promised all of it or nothing: a transaction, a Multi, and an
\* action, but one whose context has a queue runs as it is.
Promises(scope) ==
  scope.kind \in {"transaction", "multi"} \/ (scope.kind = "atomically" /\ scope.owns)

\* The innermost scope fails: what it opened is rolled back, the queue it made
\* is dropped, and its caller fails too unless it goes on.  A savepoint rolled
\* back to takes its transaction back to before it was aborted; one that cannot
\* be released is left, and what it wrote goes with its transaction.
Fail ==
  /\ phase = "failing" \/ CannotRelease
  /\ LET scope == Last(stack)
     IN  /\ stack' = Front(stack)
         /\ pending' = Undone(scope)
         /\ aborted' = (aborted /\ (CannotRelease \/ ~scope.tx))
         /\ IF scope.owns
              THEN /\ queue' = [queue EXCEPT ![scope.queue] = <<>>]
                   /\ excused' = excused \cup ToSet(queue[scope.queue])
              ELSE UNCHANGED <<queue, excused>>
         /\ phase' = IF stack' = <<>> \/ scope.kind \in Swallowed
                       THEN "running" ELSE "failing"
         /\ broken' = IF Promises(scope) THEN broken \cup (scope.from + 1 .. writes)
                      ELSE broken
  /\ UNCHANGED <<outbox, committed, sent, writes, dropped>>

\* The database refuses the commit, and rolls the transaction back.
CommitFails ==
  /\ phase = "running"
  /\ stack # <<>>
  /\ Commits
  /\ phase' = "failing"
  /\ UNCHANGED <<stack, queue, outbox, pending, committed, sent, writes, excused,
                 broken, aborted, dropped>>

\* Mutant: the queue is emptied from its end.
DeliverLast ==
  /\ phase = "flushing"
  /\ IF outbox = <<>>
       THEN phase' = "running" /\ UNCHANGED <<outbox, sent>>
       ELSE /\ sent' = Append(sent, Last(outbox))
            /\ outbox' = Front(outbox)
            /\ UNCHANGED phase
  /\ UNCHANGED <<stack, queue, pending, committed, writes, excused, broken,
                 aborted, dropped>>

\* flush_queued_notifications: one after another.
Deliver ==
  /\ phase = "flushing"
  /\ IF outbox = <<>>
       THEN phase' = "running" /\ UNCHANGED <<outbox, sent>>
       ELSE /\ sent' = Append(sent, Head(outbox))
            /\ outbox' = Tail(outbox)
            /\ UNCHANGED phase
  /\ UNCHANGED <<stack, queue, pending, committed, writes, excused, broken,
                 aborted, dropped>>

\* The process dies, and a new one starts.  The database drops what was not
\* committed, and nothing queued is kept.
Unsent == ToSet(outbox) \cup (UNION {ToSet(queue[d]) : d \in Depth})
            \cup (IF phase = "written" THEN {writes} ELSE {})

Crash ==
  /\ stack # <<>> \/ phase # "running"
  /\ stack' = <<>>
  /\ phase' = "running"
  /\ queue' = [d \in Depth |-> <<>>]
  /\ outbox' = <<>>
  /\ pending' = <<>>
  /\ excused' = excused \cup Unsent
  /\ aborted' = FALSE
  /\ UNCHANGED <<committed, sent, writes, broken, dropped>>

-----------------------------------------------------------------------------
Next ==
  \/ \E kind \in Kind : Open(kind)
  \/ Persist \/ Dispatch \/ FailAfterWrite \/ FailBeforeWrite
  \/ Close \/ Fail \/ CommitFails
  \/ Deliver
  \/ Crash

Spec == Init /\ [][Next]_vars

-----------------------------------------------------------------------------
(* Properties.                                                              *)

\* Every variable has its shape, and each scope's: a queue was made by the
\* scope at its depth, and a savepoint marks a point of the open transaction.
TypeOK ==
  /\ stack \in Seq(Scope) /\ Len(stack) <= MaxDepth
  /\ phase \in Phase
  /\ queue \in [Depth -> Seq(Write)]
  /\ outbox \in Seq(Write)
  /\ pending \in Seq(Write)
  /\ committed \in Seq(Write)
  /\ sent \in Seq(Write)
  /\ writes \in 0..MaxWrites
  /\ excused \subseteq Write
  /\ broken \subseteq Write
  /\ aborted \in BOOLEAN
  /\ dropped \subseteq Write
  /\ \A d \in DOMAIN stack :
       /\ stack[d].queue # 0
       /\ stack[d].owns <=> stack[d].queue = d
       /\ stack[stack[d].queue].owns
       /\ stack[d].mark <= Len(pending)
       /\ stack[d].from <= writes
  /\ ~InTx(stack) => pending = <<>> /\ ~aborted

\* features.md: "zero events are ever broadcast for uncommitted state" - but for
\* those of a transaction that a failed statement aborted and whose program went
\* on: Postgres answers its COMMIT with a rollback and no error, so its queue is
\* sent (Postgres::transaction, Context::transaction).  Where a failed statement
\* aborts nothing there are none of these.
SentIsCommitted == ToSet(sent) \subseteq ToSet(committed) \cup dropped

\* A notifier is sent each write once, in the order the task made them
\* (flush_queued_notifications, dispatch_notification).
SentInOrder == \A i, j \in DOMAIN sent : i < j => sent[i] < sent[j]

\* Once the task is done, every committed write was sent, but for those whose
\* action or whose pipeline failed after they were stored, and those a crash
\* cut off (Context::transaction, Context::atomically, Multi::execute).
CommittedIsSent ==
  stack = <<>> /\ phase = "running"
    => ToSet(committed) \subseteq ToSet(sent) \cup excused

\* A transaction, a Multi, or an action that is atomic by itself, which failed
\* leaves nothing it wrote behind, however its caller goes on, and notifies
\* nobody of it (Context::transaction, Context::atomically: an action in a
\* transaction or a pipeline is undone with what is around it, or not at all).
FailedIsUndone == broken \cap (ToSet(committed) \cup ToSet(sent)) = {}
=============================================================================
