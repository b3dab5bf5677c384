-------------------------- MODULE VersionedRecord --------------------------
(***************************************************************************)
(* What an optimistic lock promises of the record it guards: whatever runs  *)
(* at once, the record moves one write at a time, each adding one to the    *)
(* version it finds there and building on the value it finds there, until   *)
(* it is archived or deleted, for good.                                     *)
(***************************************************************************)
EXTENDS Naturals

CONSTANT Absent

VARIABLE record

Live(r) == r # Absent /\ ~r.archived

\* A locking update of a record r, or what a locking archive makes of it.
Updated(r)  == [ver |-> r.ver + 1, n |-> r.n + 1, archived |-> FALSE]
Archived(r) == [ver |-> r.ver + 1, n |-> r.n, archived |-> TRUE]

Init == record = [ver |-> 1, n |-> 0, archived |-> FALSE]

Write   == Live(record) /\ record' = Updated(record)
Archive == Live(record) /\ record' = Archived(record)
Delete  == Live(record) /\ record' = Absent

Next == Write \/ Archive \/ Delete

Spec == Init /\ [][Next]_record
=============================================================================
