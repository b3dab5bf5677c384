--------------------------- MODULE MCNotifications ---------------------------
(* Programs for Notifications to run.                                       *)
EXTENDS Notifications, TLC

\* Multis and pipelines on top; actions, which open scopes only for actions of
\* their own, and transactions anywhere else.
MultisOnTop ==
  [k \in Kind \cup {"top"} |->
     CASE k = "top" -> Kind
       [] k = "atomically" -> {"atomically"}
       [] OTHER -> {"transaction", "atomically"}]

\* A task in a transaction runs a Multi.
MultiInTransaction ==
  [k \in Kind \cup {"top"} |->
     CASE k = "top" -> {"transaction"} [] k = "transaction" -> {"multi"} [] OTHER -> {}]

\* A step of a Multi is a bulk action, whose batches are transactions.
BatchesInMulti ==
  [k \in Kind \cup {"top"} |->
     CASE k = "top" -> {"multi"} [] k = "multi" -> {"transaction"} [] OTHER -> {}]

\* Any error ends its caller's scope too, but for an action's.
ActionsMayFail == {"atomically"}

\* A bulk action counts a batch that fails and goes on (stop_on_error: false).
BatchesMayFail == {"transaction"}
=============================================================================
