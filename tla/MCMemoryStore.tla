--------------------------- MODULE MCMemoryStore ---------------------------
(* Instances of MemoryStore small enough to check. *)
EXTENDS MemoryStore, TLC

CONSTANTS email, handle, a, b, nobody

\* One row beside a free key.
OneRow ==
  {[k \in Key |-> IF k = 1 THEN [id |-> 1, on |-> [i \in Identity |-> a], n |-> 0]
                  ELSE Absent]}

NoRows == {[k \in Key |-> Absent]}

NilsNeverCollide == [i \in Identity |-> TRUE]
NilsCollide == [i \in Identity |-> FALSE]

\* Upserts that list the counter, and upserts that list nothing.
ListedOrNone == {{"n"}, {}}

Symmetry == Permutations(Txn)
=============================================================================
