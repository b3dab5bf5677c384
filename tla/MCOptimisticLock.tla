-------------------------- MODULE MCOptimisticLock --------------------------
(* Instances of OptimisticLock small enough to check.                       *)
EXTENDS OptimisticLock, TLC

\* The data layers of the repository: ash-memory; ash-postgres; ash-sqlite on
\* one connection; and one that implements only DataLayer's required methods.
Memory   == [atomic |-> TRUE, raises |-> TRUE, transacts |-> FALSE, exclusive |-> FALSE]
Postgres == [atomic |-> TRUE, raises |-> TRUE, transacts |-> TRUE, exclusive |-> FALSE]
Sqlite   == [atomic |-> TRUE, raises |-> FALSE, transacts |-> TRUE, exclusive |-> TRUE]
Minimal  == [atomic |-> FALSE, raises |-> FALSE, transacts |-> FALSE, exclusive |-> FALSE]

AllLayers  == {Memory, Postgres, Sqlite, Minimal}
OnlyMemory == {Memory}
=============================================================================
