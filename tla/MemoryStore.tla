----------------------------- MODULE MemoryStore -----------------------------
(***************************************************************************)
(* ash-memory: one resource's table in a Memory data layer, and the         *)
(* snapshot transactions that run beside direct writes to it.               *)
(*                                                                         *)
(* A Memory is a table behind one RwLock, so each data layer call is one    *)
(* step.  Memory::transaction copies the tables, runs its closure on a      *)
(* private Memory built from the copy, and on Ok merges what the closure    *)
(* changed back into the Memory it was called on - which may itself be      *)
(* another transaction's private one.  The stores are therefore a tree:     *)
(* Root, the shared one, and one private store per transaction.             *)
(*                                                                         *)
(* A row has its primary key field, the value of each identity's columns    *)
(* and a counter n that stands for the rest of its attributes: an update    *)
(* increments it, so an update that is lost can be told from one that took  *)
(* effect.  A call that returns an error and changes nothing is no step.    *)
(***************************************************************************)
EXTENDS Integers, FiniteSets, FiniteSetsExt

CONSTANTS
  MaxKey,        \* bound: primary keys, integers here, go up to it
  Identity,      \* the resource's identities, those with a where: left out
  IdValue,       \* what an identity's columns may hold, nulls aside
  Null,          \* a null: no value for an identity's columns, no key given
  Absent,        \* no row under this key
  NilsDistinct,  \* per identity: two nulls do not collide
  UpsertFields,  \* the update_fields lists upserts are called with
  Initial,       \* the tables a Memory may be built from
  Root,          \* the shared store
  Txn,           \* transactions, each run once
  MaxN,          \* bound: how far a row's counter goes
  MaxCalls       \* bound: writing calls in all

Key     == 1..MaxKey
Store   == {Root} \cup Txn
IdCols  == [Identity -> IdValue \cup {Null}]
Row     == [id : Key, on : IdCols, n : 0..MaxN]
Table   == [Key -> Row \cup {Absent}]
Column  == Identity \cup {"id", "n"}

ASSUME BoundAssumption == MaxKey \in Nat /\ MaxN \in Nat /\ MaxCalls \in Nat
ASSUME IdentityAssumption ==
  /\ NilsDistinct \in [Identity -> BOOLEAN]
  /\ Null \notin IdValue
  /\ Null \notin Key
ASSUME ColumnAssumption ==
  /\ "id" \notin Identity
  /\ "n" \notin Identity
  /\ UpsertFields \subseteq SUBSET Column
ASSUME StoreAssumption == Root \notin Txn
ASSUME TableAssumption ==
  /\ Absent \notin Row
  /\ Initial \subseteq Table

VARIABLES
  tables,   \* per store, its rows
  snap,     \* per store, the rows it was copied from (Root: as it was built)
  parent,   \* per transaction, the store it was begun on
  status,   \* per transaction: idle, open, committed or rolledback
  incs,     \* history: per store and key, the increments acknowledged there
  reset,    \* history: per store, the keys inserted, removed or overwritten
  calls     \* the writing calls made, for the bound

vars == <<tables, snap, parent, status, incs, reset, calls>>

Open(s)      == s = Root \/ (s \in Txn /\ status[s] = "open")
Children(s)  == {t \in Txn : parent[t] = s}
Empty        == [k \in Key |-> Absent]
NoIncs       == [k \in Key |-> 0]

-----------------------------------------------------------------------------
(* What the data layer calls compute on a table.                            *)

\* Two rows hold the same values on identity i; two nulls do unless distinct.
Clash(i, a, b) ==
  /\ a.on[i] = b.on[i]
  /\ a.on[i] = Null => ~NilsDistinct[i]

\* Mutant: updates are not checked at all.
RefusedCreatesOnly(T, id, row, before) ==
  /\ before = Absent
  /\ \E i \in Identity, k \in Key \ {id} : T[k] # Absent /\ Clash(i, row, T[k])

\* check_identities: row, to be stored under id, clashes with another row on
\* an identity whose columns differ from those it held before.
Refused(T, id, row, before) ==
  \E i \in Identity, k \in Key \ {id} :
    /\ before # Absent => before.on[i] # row.on[i]
    /\ T[k] # Absent
    /\ Clash(i, row, T[k])

Unique(T) ==
  \A i \in Identity, j, k \in Key :
    j # k /\ T[j] # Absent /\ T[k] # Absent => ~Clash(i, T[j], T[k])

\* assign_key: the key given, else one more than the highest in the table.
AssignKey(T, given) ==
  IF given # Null THEN given
  ELSE 1 + Max({0} \cup {k \in Key : T[k] # Absent})

NewRow(id, on) == [id |-> id, on |-> on, n |-> 0]

CreateAllowed(T, id, on) ==
  /\ id \in Key
  /\ T[id] = Absent
  /\ ~Refused(T, id, NewRow(id, on), Absent)

\* Mutant: a key the data layer was to assign is written as the null it is.
UpsertWritesTheNullKey(i, fields, given) ==
  IF fields = {} THEN Column \ {i} ELSE fields

\* The columns an upsert writes to the row it matched on identity i: all but
\* i's, or those listed; the key only if the record came with one.
UpsertWrites(i, fields, given) ==
  LET all == IF fields = {} THEN Column \ {i} ELSE fields
  IN  IF given = Null THEN all \ {"id"} ELSE all

Overwrite(row, new, columns) ==
  [id |-> IF "id" \in columns THEN new.id ELSE row.id,
   on |-> [i \in Identity |-> IF i \in columns THEN new.on[i] ELSE row.on[i]],
   n  |-> IF "n" \in columns THEN new.n ELSE row.n]

\* AtomicUpdate::apply: what the statement sets, from the row as stored.
Incremented(row, on) == [id |-> row.id, on |-> on, n |-> row.n + 1]

\* The rows a query by primary key selects: by the field, not the table's key.
Selected(T, id) == {k \in Key : T[k] # Absent /\ T[k].id = id}

-----------------------------------------------------------------------------
Init ==
  /\ \E T \in Initial :
       /\ tables = [s \in Store |-> IF s = Root THEN T ELSE Empty]
       /\ snap = tables
  /\ parent = [t \in Txn |-> Root]
  /\ status = [t \in Txn |-> "idle"]
  /\ incs = [s \in Store |-> NoIncs]
  /\ reset = [s \in Store |-> {}]
  /\ calls = 0

\* Store s now holds T; keys were inserted, removed or overwritten on the way.
Write(s, T, keys) ==
  /\ calls < MaxCalls
  /\ calls' = calls + 1
  /\ tables' = [tables EXCEPT ![s] = T]
  /\ reset' = [reset EXCEPT ![s] = @ \cup keys]
  /\ UNCHANGED <<snap, parent, status>>

Create(s, given, on) ==
  LET id == AssignKey(tables[s], given)
  IN  /\ Open(s)
      /\ CreateAllowed(tables[s], id, on)
      /\ Write(s, [tables[s] EXCEPT ![id] = NewRow(id, on)], {id})
      /\ UNCHANGED incs

\* bulk_create of two rows.  The first is stored whether or not the second is.
BulkCreate(s, given1, on1, given2, on2) ==
  LET id1 == AssignKey(tables[s], given1)
      T1  == [tables[s] EXCEPT ![id1] = NewRow(id1, on1)]
      id2 == AssignKey(T1, given2)
      T2  == [T1 EXCEPT ![id2] = NewRow(id2, on2)]
  IN  /\ Open(s)
      /\ CreateAllowed(tables[s], id1, on1)
      /\ IF CreateAllowed(T1, id2, on2)
           THEN Write(s, T2, {id1, id2})
           ELSE Write(s, T1, {id1})
      /\ UNCHANGED incs

\* update of the row under key k: its identity columns become on.
Update(s, k, on) ==
  LET row == [tables[s][k] EXCEPT !.on = on]
  IN  /\ Open(s)
      /\ tables[s][k] # Absent
      /\ ~Refused(tables[s], k, row, tables[s][k])
      /\ Write(s, [tables[s] EXCEPT ![k] = row], {})
      /\ UNCHANGED incs

\* update_atomic of the record with this id, found under stored: its counter
\* goes up by one from what is stored, and its identity columns become on.
\* It is written back under its id.
UpdateAtomic(s, id, stored, on) ==
  LET row == Incremented(tables[s][stored], on)
  IN  /\ Open(s)
      /\ stored \in Selected(tables[s], id)
      /\ tables[s][stored].n < MaxN
      /\ ~Refused(tables[s], id, row, tables[s][id])
      /\ Write(s, [tables[s] EXCEPT ![id] = row],
               IF stored = id THEN {} ELSE {id})
      /\ incs' = IF stored = id THEN [incs EXCEPT ![s][id] = @ + 1] ELSE incs

\* upsert on identity i where a row holds the same values on it.
UpsertUpdates(s, given, i, on, fields, k) ==
  LET writes == UpsertWrites(i, fields, given)
      new    == NewRow(given, on)
  IN  /\ Open(s)
      /\ tables[s][k] # Absent
      /\ Clash(i, new, tables[s][k])
      /\ Write(s, [tables[s] EXCEPT ![k] = Overwrite(@, new, writes)],
               IF "n" \in writes THEN {k} ELSE {})
      /\ UNCHANGED incs

\* upsert on identity i where none does: the row goes in under its key, over
\* any row there.
UpsertInserts(s, given, i, on) ==
  LET id  == AssignKey(tables[s], given)
      new == NewRow(id, on)
  IN  /\ Open(s)
      /\ id \in Key
      /\ \A k \in Key : tables[s][k] # Absent => ~Clash(i, new, tables[s][k])
      /\ ~Refused(tables[s], id, new, Absent)
      /\ Write(s, [tables[s] EXCEPT ![id] = new], {id})
      /\ UNCHANGED incs

\* destroy of the row under key k, and bulk_destroy, which skips missing rows.
Destroy(s, k) ==
  /\ Open(s)
  /\ tables[s][k] # Absent
  /\ Write(s, [tables[s] EXCEPT ![k] = Absent], {k})
  /\ UNCHANGED incs

BulkDestroy(s, keys) ==
  /\ Open(s)
  /\ Write(s, [k \in Key |-> IF k \in keys THEN Absent ELSE tables[s][k]], keys)
  /\ UNCHANGED incs

\* destroy_atomic: selected by the id field, removed from under the id.
DestroyAtomic(s, id) ==
  /\ Open(s)
  /\ Selected(tables[s], id) # {}
  /\ Write(s, [tables[s] EXCEPT ![id] = Absent], {id})
  /\ UNCHANGED incs

-----------------------------------------------------------------------------
(* Memory::transaction.                                                     *)

\* The snapshot and the private Memory built from it.
Begin(t, s) ==
  /\ status[t] = "idle"
  /\ Open(s)
  /\ tables' = [tables EXCEPT ![t] = tables[s]]
  /\ snap' = [snap EXCEPT ![t] = tables[s]]
  /\ parent' = [parent EXCEPT ![t] = s]
  /\ status' = [status EXCEPT ![t] = "open"]
  /\ incs' = [incs EXCEPT ![t] = NoIncs]
  /\ reset' = [reset EXCEPT ![t] = {}]
  /\ UNCHANGED calls

\* The rows transaction t inserted, updated or deleted, by their values.
Changed(t) == {k \in Key : tables[t][k] # snap[t][k]}

\* Mutant: only rows that came or went meanwhile are conflicts.
ConflictIfGone(t) ==
  \E k \in Changed(t) :
    (tables[parent[t]][k] = Absent) # (snap[t][k] = Absent)

\* One of them is no longer, in the store it began on, as t first saw it.
Conflict(t) == \E k \in Changed(t) : tables[parent[t]][k] # snap[t][k]

\* Mutant: what t deleted stays.
MergedWithoutDeletions(t) ==
  [k \in Key |-> IF k \in Changed(t) /\ tables[t][k] # Absent
                 THEN tables[t][k] ELSE tables[parent[t]][k]]

\* The store it began on, with t's changes and the rest as it is now.
Merged(t) ==
  [k \in Key |-> IF k \in Changed(t) THEN tables[t][k] ELSE tables[parent[t]][k]]

\* The closure has returned, so every transaction it awaited has ended too.
Returned(t) ==
  /\ status[t] = "open"
  /\ \A c \in Children(t) : status[c] # "open"

\* The private store is dropped.
RollBack(t) ==
  /\ tables' = [tables EXCEPT ![t] = Empty]
  /\ status' = [status EXCEPT ![t] = "rolledback"]
  /\ UNCHANGED <<snap, parent, incs, reset, calls>>

Commit(t) ==
  LET p == parent[t]
  IN  /\ Returned(t)
      /\ ~Conflict(t)
      /\ tables' = [tables EXCEPT ![p] = Merged(t), ![t] = Empty]
      /\ status' = [status EXCEPT ![t] = "committed"]
      /\ incs' = [incs EXCEPT ![p] = [k \in Key |-> @[k] + incs[t][k]]]
      /\ reset' = [reset EXCEPT ![p] = @ \cup reset[t]]
      /\ UNCHANGED <<snap, parent, calls>>

\* The closure returned Ok but a row it wrote was written meanwhile.
CommitConflicts(t) == Returned(t) /\ Conflict(t) /\ RollBack(t)

\* The closure returned an error, or its future was dropped.
Abort(t) == Returned(t) /\ RollBack(t)

-----------------------------------------------------------------------------
Given == Key \cup {Null}

WriteStep(s) ==
  \/ \E given \in Given, on \in IdCols : Create(s, given, on)
  \/ \E given1, given2 \in Given, on1, on2 \in IdCols :
       BulkCreate(s, given1, on1, given2, on2)
  \/ \E k \in Key, on \in IdCols : Update(s, k, on)
  \/ \E id, stored \in Key, on \in IdCols : UpdateAtomic(s, id, stored, on)
  \/ \E given \in Given, i \in Identity, on \in IdCols,
        fields \in UpsertFields, k \in Key :
       UpsertUpdates(s, given, i, on, fields, k)
  \/ \E given \in Given, i \in Identity, on \in IdCols :
       UpsertInserts(s, given, i, on)
  \/ \E k \in Key : Destroy(s, k)
  \/ \E keys \in SUBSET Key : BulkDestroy(s, keys)
  \/ \E id \in Key : DestroyAtomic(s, id)

Next ==
  \/ \E s \in Store : WriteStep(s)
  \/ \E t \in Txn, s \in Store : Begin(t, s)
  \/ \E t \in Txn : Commit(t)
  \/ \E t \in Txn : CommitConflicts(t)
  \/ \E t \in Txn : Abort(t)

Spec == Init /\ [][Next]_vars

-----------------------------------------------------------------------------
(* Properties.                                                              *)

\* Every variable has its shape: each store is a table of whole rows, and a
\* transaction began on a store that is not itself.
TypeOK ==
  /\ tables \in [Store -> Table]
  /\ snap \in [Store -> Table]
  /\ parent \in [Txn -> Store]
  /\ status \in [Txn -> {"idle", "open", "committed", "rolledback"}]
  /\ incs \in [Store -> [Key -> Nat]]
  /\ reset \in [Store -> SUBSET Key]
  /\ calls \in 0..MaxCalls
  /\ \A t \in Txn : parent[t] # t

\* No update is lost and none is applied twice (Memory::transaction, lib.rs):
\* in every live store, a row that nobody replaced holds exactly the
\* increments acknowledged there, those of the transactions committed into it
\* included, on top of the value it started from - whatever ran beside them.
NoLostIncrement ==
  \A s \in Store : Open(s) =>
    \A k \in Key \ reset[s] :
      /\ snap[s][k] = Absent => tables[s][k] = Absent /\ incs[s][k] = 0
      /\ snap[s][k] # Absent =>
           /\ tables[s][k] # Absent
           /\ tables[s][k].n = snap[s][k].n + incs[s][k]

UpsertsKeepToTheirIdentity ==
  \A i \in Identity, fields \in UpsertFields, given \in Given :
    UpsertWrites(i, fields, given) \cap Identity \subseteq {i}

\* check_identities keeps identities unique through every sequence of calls on
\* one store, half-done bulk creates included, and upserts that write no other
\* identity's columns: only a transaction committing into it brings a clash in.
UniqueUntilCommit ==
  UpsertsKeepToTheirIdentity => \A s \in Store :
    /\ Open(s)
    /\ Unique(snap[s])
    /\ \A t \in Children(s) : status[t] # "committed"
    => Unique(tables[s])

\* A transaction nobody wrote beside commits, and leaves the store it began
\* on exactly as its closure saw it (Memory::transaction's two loops: inserts
\* and updates, then deletions).
UncontendedCommitIsExact ==
  [][\A t \in Txn :
       /\ status[t] = "open" /\ status'[t] = "committed"
       /\ tables[parent[t]] = snap[t]
       => tables'[parent[t]] = tables[t]]_vars

\* What check_identities says of itself: no two stored rows clash on an
\* identity.  It holds neither of transactions that commit side by side nor of
\* an upsert that writes the columns of an identity it was not matched on.
IdentitiesUnique == Unique(tables[Root])
=============================================================================
