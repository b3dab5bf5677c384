--------------------------- MODULE SchemaHistory ---------------------------
(* What migrators promise of a database, whichever of them work on it: the *)
(* versions recorded there change one at a time, a version is applied only *)
(* where it is not, and only the latest one is ever undone.                *)
EXTENDS Naturals

CONSTANT MaxVersion

VARIABLE applied

\* Versions are timestamps, compared as such.
Versions == 1..MaxVersion

IsLatest(v, recorded) == v \in recorded /\ \A w \in recorded : w <= v

Init == applied \in SUBSET Versions

Apply(v) == v \notin applied /\ applied' = applied \cup {v}

Undo(v) == IsLatest(v, applied) /\ applied' = applied \ {v}

Next == \E v \in Versions : Apply(v) \/ Undo(v)

Spec == Init /\ [][Next]_applied
=============================================================================
