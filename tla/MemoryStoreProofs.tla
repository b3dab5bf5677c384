-------------------------- MODULE MemoryStoreProofs --------------------------
(***************************************************************************)
(* Proofs about MemoryStore, for any number of keys, identities and         *)
(* transactions, however the transactions nest.                             *)
(***************************************************************************)
EXTENDS MemoryStore, TLAPS

(* The shape of what a call writes.                                         *)

LEMMA NewRowType ==
  ASSUME NEW id \in Key, NEW on \in IdCols
  PROVE  NewRow(id, on) \in Row
  BY BoundAssumption DEF NewRow, Row

\* The row an upsert leaves is whole: a null key is not written.
LEMMA UpsertedType ==
  ASSUME NEW row \in Row, NEW given \in Given, NEW i \in Identity,
         NEW on \in IdCols, NEW fields
  PROVE  Overwrite(row, NewRow(given, on), UpsertWrites(i, fields, given)) \in Row
<1>1. given = Null => "id" \notin UpsertWrites(i, fields, given)
  BY DEF UpsertWrites
<1>. DEFINE columns == UpsertWrites(i, fields, given)
<1>. HIDE DEF columns
<1>2. Overwrite(row, NewRow(given, on), columns) \in Row
  BY <1>1, BoundAssumption DEF columns, Overwrite, NewRow, Row, IdCols, Given
<1>. QED
  BY <1>2 DEF columns

\* Storing a table of rows in store s keeps every variable's shape.
LEMMA WriteType ==
  ASSUME TypeOK, NEW s \in Store, NEW T \in Table, NEW keys \in SUBSET Key,
         Write(s, T, keys),
         incs' \in [Store -> [Key -> Nat]]
  PROVE  TypeOK'
<1>1. tables' \in [Store -> Table]
  BY DEF TypeOK, Write
<1>2. reset' \in [Store -> SUBSET Key]
  BY DEF TypeOK, Write
<1>3. calls' \in 0..MaxCalls
  BY BoundAssumption DEF TypeOK, Write
<1>4. UNCHANGED <<snap, parent, status>>
  BY DEF Write
<1>. QED
  BY <1>1, <1>2, <1>3, <1>4 DEF TypeOK

LEMMA EmptyType == Empty \in Table
  BY DEF Empty, Table

LEMMA MergedType ==
  ASSUME TypeOK, NEW t \in Txn
  PROVE  Merged(t) \in Table
  BY DEF TypeOK, Merged, Changed, Table, Store

-----------------------------------------------------------------------------
(* Type correctness.                                                        *)

LEMMA CallType ==
  ASSUME TypeOK, NEW s \in Store, WriteStep(s)
  PROVE  TypeOK'
<1>. DEFINE T0 == tables[s]
<1>0. T0 \in Table /\ incs \in [Store -> [Key -> Nat]]
  BY DEF TypeOK
<1>1. ASSUME NEW given \in Given, NEW on \in IdCols, Create(s, given, on)
      PROVE  TypeOK'
  <2>. DEFINE id == AssignKey(T0, given)
  <2>1. id \in Key
    BY <1>1 DEF Create, CreateAllowed
  <2>2. [T0 EXCEPT ![id] = NewRow(id, on)] \in Table
    BY <1>0, <2>1, NewRowType DEF Table
  <2>3. Write(s, [T0 EXCEPT ![id] = NewRow(id, on)], {id}) /\ incs' = incs
    BY <1>1 DEF Create
  <2>. HIDE DEF id
  <2>. QED
    BY <1>0, <2>1, <2>2, <2>3, WriteType
<1>2. ASSUME NEW given1 \in Given, NEW given2 \in Given,
             NEW on1 \in IdCols, NEW on2 \in IdCols,
             BulkCreate(s, given1, on1, given2, on2)
      PROVE  TypeOK'
  <2>. DEFINE id1 == AssignKey(T0, given1)
              T1  == [T0 EXCEPT ![id1] = NewRow(id1, on1)]
              id2 == AssignKey(T1, given2)
              T2  == [T1 EXCEPT ![id2] = NewRow(id2, on2)]
  <2>1. id1 \in Key
    BY <1>2 DEF BulkCreate, CreateAllowed
  <2>2. T1 \in Table
    BY <1>0, <2>1, NewRowType DEF Table
  <2>3. incs' = incs
    BY <1>2 DEF BulkCreate
  <2>4. CASE CreateAllowed(T1, id2, on2)
    <3>1. id2 \in Key
      BY <2>4 DEF CreateAllowed
    <3>2. Write(s, T2, {id1, id2})
      BY <1>2, <2>4 DEF BulkCreate
    <3>. HIDE DEF T1, id1, id2
    <3>3. T2 \in Table
      BY <2>2, <3>1, NewRowType DEF Table
    <3>. HIDE DEF T2
    <3>. QED
      BY <1>0, <2>1, <2>3, <3>1, <3>2, <3>3, WriteType
  <2>5. CASE ~CreateAllowed(T1, id2, on2)
    <3>1. Write(s, T1, {id1})
      BY <1>2, <2>5 DEF BulkCreate
    <3>. HIDE DEF T1, id1
    <3>. QED
      BY <1>0, <2>1, <2>2, <2>3, <3>1, WriteType
  <2>. QED
    BY <2>4, <2>5
<1>3. ASSUME NEW k \in Key, NEW on \in IdCols, Update(s, k, on)
      PROVE  TypeOK'
  <2>. DEFINE row == [T0[k] EXCEPT !.on = on]
  <2>1. T0[k] \in Row
    BY <1>0, <1>3 DEF Update, Table
  <2>2. row \in Row
    BY <2>1 DEF Row
  <2>3. [T0 EXCEPT ![k] = row] \in Table
    BY <1>0, <2>2 DEF Table
  <2>4. Write(s, [T0 EXCEPT ![k] = row], {}) /\ incs' = incs
    BY <1>3 DEF Update
  <2>. HIDE DEF row
  <2>. QED
    BY <1>0, <2>3, <2>4, WriteType
<1>4. ASSUME NEW id \in Key, NEW stored \in Key, NEW on \in IdCols,
             UpdateAtomic(s, id, stored, on)
      PROVE  TypeOK'
  <2>. DEFINE row == Incremented(T0[stored], on)
              keys == IF stored = id THEN {} ELSE {id}
  <2>1. T0[stored] \in Row /\ T0[stored].n < MaxN
    BY <1>0, <1>4 DEF UpdateAtomic, Selected, Table
  <2>2. row \in Row
    BY <2>1, BoundAssumption DEF Row, Incremented
  <2>3. [T0 EXCEPT ![id] = row] \in Table
    BY <1>0, <2>2 DEF Table
  <2>4. Write(s, [T0 EXCEPT ![id] = row], keys)
    BY <1>4 DEF UpdateAtomic
  <2>5. incs' \in [Store -> [Key -> Nat]]
    <3>1. incs[s] \in [Key -> Nat] /\ incs[s][id] \in Nat
      BY <1>0
    <3>2. [incs[s] EXCEPT ![id] = @ + 1] \in [Key -> Nat]
      BY <3>1
    <3>3. incs' = IF stored = id THEN [incs EXCEPT ![s] = [incs[s] EXCEPT ![id] = @ + 1]]
                  ELSE incs
      BY <1>4 DEF UpdateAtomic
    <3>. HIDE DEF T0
    <3>. QED
      BY <1>0, <3>2, <3>3
  <2>. HIDE DEF row
  <2>. QED
    BY <2>3, <2>4, <2>5, WriteType
<1>5. ASSUME NEW given \in Given, NEW i \in Identity, NEW on \in IdCols,
             NEW fields \in UpsertFields, NEW k \in Key,
             UpsertUpdates(s, given, i, on, fields, k)
      PROVE  TypeOK'
  <2>. DEFINE writes == UpsertWrites(i, fields, given)
              new    == NewRow(given, on)
              row    == Overwrite(T0[k], new, writes)
              keys   == IF "n" \in writes THEN {k} ELSE {}
  <2>1. T0[k] \in Row
    BY <1>0, <1>5 DEF UpsertUpdates, Table
  <2>2. row \in Row
    BY <2>1, UpsertedType
  <2>3. [T0 EXCEPT ![k] = row] \in Table
    BY <1>0, <2>2 DEF Table
  <2>4. Write(s, [T0 EXCEPT ![k] = row], keys) /\ incs' = incs
    BY <1>0, <1>5 DEF UpsertUpdates, Table
  <2>. HIDE DEF row, writes
  <2>. QED
    BY <1>0, <2>3, <2>4, WriteType
<1>6. ASSUME NEW given \in Given, NEW i \in Identity, NEW on \in IdCols,
             UpsertInserts(s, given, i, on)
      PROVE  TypeOK'
  <2>. DEFINE id == AssignKey(T0, given)
  <2>1. id \in Key
    BY <1>6 DEF UpsertInserts
  <2>2. [T0 EXCEPT ![id] = NewRow(id, on)] \in Table
    BY <1>0, <2>1, NewRowType DEF Table
  <2>3. Write(s, [T0 EXCEPT ![id] = NewRow(id, on)], {id}) /\ incs' = incs
    BY <1>6 DEF UpsertInserts
  <2>. HIDE DEF id
  <2>. QED
    BY <1>0, <2>1, <2>2, <2>3, WriteType
<1>7. ASSUME NEW k \in Key, Destroy(s, k) \/ DestroyAtomic(s, k)
      PROVE  TypeOK'
  <2>1. [T0 EXCEPT ![k] = Absent] \in Table
    BY <1>0 DEF Table
  <2>2. Write(s, [T0 EXCEPT ![k] = Absent], {k}) /\ incs' = incs
    BY <1>7 DEF Destroy, DestroyAtomic
  <2>. QED
    BY <1>0, <2>1, <2>2, WriteType
<1>8. ASSUME NEW keys \in SUBSET Key, BulkDestroy(s, keys)
      PROVE  TypeOK'
  <2>. DEFINE T == [k \in Key |-> IF k \in keys THEN Absent ELSE T0[k]]
  <2>1. T \in Table
    BY <1>0 DEF Table
  <2>2. Write(s, T, keys) /\ incs' = incs
    BY <1>8 DEF BulkDestroy
  <2>. HIDE DEF T
  <2>. QED
    BY <1>0, <2>1, <2>2, WriteType
<1>. QED
  BY <1>1, <1>2, <1>3, <1>4, <1>5, <1>6, <1>7, <1>8 DEF WriteStep

LEMMA BeginType ==
  ASSUME TypeOK, NEW t \in Txn, NEW s \in Store, Begin(t, s)
  PROVE  TypeOK'
<1>1. s # t
  BY StoreAssumption DEF Begin, Open, TypeOK
<1>. QED
  BY <1>1 DEF TypeOK, Begin, Store, NoIncs

LEMMA CommitType ==
  ASSUME TypeOK, NEW t \in Txn, Commit(t)
  PROVE  TypeOK'
<1>. DEFINE p == parent[t]
            merged == [k \in Key |-> incs[p][k] + incs[t][k]]
<1>0. p \in Store /\ t \in Store
  BY DEF TypeOK, Store
<1>1. tables' \in [Store -> Table]
  BY <1>0, MergedType, EmptyType DEF Commit, TypeOK
<1>2. incs' \in [Store -> [Key -> Nat]]
  <2>1. merged \in [Key -> Nat]
    BY <1>0 DEF TypeOK
  <2>2. incs' = [incs EXCEPT ![p] = merged]
    BY DEF Commit
  <2>. HIDE DEF merged
  <2>. QED
    BY <1>0, <2>1, <2>2 DEF TypeOK
<1>3. reset' \in [Store -> SUBSET Key]
  BY <1>0 DEF Commit, TypeOK
<1>4. status' \in [Txn -> {"idle", "open", "committed", "rolledback"}]
  BY DEF Commit, TypeOK
<1>5. UNCHANGED <<snap, parent, calls>>
  BY DEF Commit
<1>. QED
  BY <1>1, <1>2, <1>3, <1>4, <1>5 DEF TypeOK

LEMMA RollBackType ==
  ASSUME TypeOK, NEW t \in Txn, RollBack(t)
  PROVE  TypeOK'
  BY EmptyType DEF TypeOK, RollBack, Store

LEMMA InitType == Init => TypeOK
<1>. SUFFICES ASSUME Init PROVE TypeOK
  OBVIOUS
<1>1. PICK T \in Initial :
        /\ tables = [s \in Store |-> IF s = Root THEN T ELSE Empty]
        /\ snap = tables
  BY DEF Init
<1>2. T \in Table
  BY <1>1, TableAssumption
<1>3. tables \in [Store -> Table] /\ snap \in [Store -> Table]
  BY <1>1, <1>2, EmptyType
<1>4. 0 \in 0..MaxCalls
  BY BoundAssumption
<1>. QED
  BY <1>3, <1>4, StoreAssumption DEF Init, TypeOK, Store, NoIncs

LEMMA StepType == TypeOK /\ [Next]_vars => TypeOK'
<1>. SUFFICES ASSUME TypeOK, [Next]_vars PROVE TypeOK'
  OBVIOUS
<1>1. CASE UNCHANGED vars
  BY <1>1 DEF TypeOK, vars
<1>2. CASE Next
  BY <1>2, CallType, BeginType, CommitType, RollBackType
     DEF Next, CommitConflicts, Abort
<1>. QED
  BY <1>1, <1>2

\* Whatever the calls and however the transactions nest, every store is a
\* table of whole rows, counters within the bound, and no transaction is
\* begun on itself.
THEOREM TypeCorrect == Spec => []TypeOK
  BY InitType, StepType, PTL DEF Spec

-----------------------------------------------------------------------------
(* No lost increments.                                                      *)

\* The counters of the keys outside keys are the same in T as in U.
SameCounts(U, T, keys) ==
  \A k \in Key \ keys :
    /\ U[k] = Absent => T[k] = Absent
    /\ U[k] # Absent => T[k] # Absent /\ T[k].n = U[k].n

\* A call that counts nothing, and moves no counter but those it reports
\* reset, keeps every store's counters exact.
LEMMA WriteKeepsCounts ==
  ASSUME TypeOK, NoLostIncrement, NEW s \in Store, NEW T, NEW keys,
         Open(s), Write(s, T, keys), incs' = incs,
         SameCounts(tables[s], T, keys)
  PROVE  NoLostIncrement'
<1>. SUFFICES ASSUME NEW u \in Store, Open(u)', NEW k \in Key \ reset'[u]
              PROVE  /\ snap[u][k] = Absent => tables'[u][k] = Absent /\ incs[u][k] = 0
                     /\ snap[u][k] # Absent =>
                          /\ tables'[u][k] # Absent
                          /\ tables'[u][k].n = snap[u][k].n + incs[u][k]
  BY DEF NoLostIncrement, Write
<1>1. Open(u)
  BY DEF Open, Write
<1>2. CASE u = s
  <2>1. k \notin reset[s] /\ k \notin keys /\ tables'[s] = T
    BY <1>2 DEF Write, TypeOK
  <2>. QED
    BY <1>1, <1>2, <2>1 DEF NoLostIncrement, SameCounts
<1>3. CASE u # s
  <2>1. k \notin reset[u] /\ tables'[u] = tables[u]
    BY <1>3 DEF Write, TypeOK
  <2>. QED
    BY <1>1, <2>1 DEF NoLostIncrement
<1>. QED
  BY <1>2, <1>3

LEMMA CallKeepsCounts ==
  ASSUME TypeOK, NoLostIncrement, NEW s \in Store, WriteStep(s)
  PROVE  NoLostIncrement'
<1>. DEFINE T0 == tables[s]
<1>0. T0 \in [Key -> Row \cup {Absent}]
  BY DEF TypeOK, Table
<1>1. ASSUME NEW given \in Given, NEW on \in IdCols, Create(s, given, on)
      PROVE  NoLostIncrement'
  <2>. DEFINE id == AssignKey(T0, given)
              T  == [T0 EXCEPT ![id] = NewRow(id, on)]
  <2>1. SameCounts(T0, T, {id})
    BY <1>0 DEF SameCounts
  <2>. HIDE DEF id, T
  <2>. QED
    BY <1>1, <2>1, WriteKeepsCounts DEF Create, id, T
<1>2. ASSUME NEW given1 \in Given, NEW given2 \in Given,
             NEW on1 \in IdCols, NEW on2 \in IdCols,
             BulkCreate(s, given1, on1, given2, on2)
      PROVE  NoLostIncrement'
  <2>. DEFINE id1 == AssignKey(T0, given1)
              T1  == [T0 EXCEPT ![id1] = NewRow(id1, on1)]
              id2 == AssignKey(T1, given2)
              T2  == [T1 EXCEPT ![id2] = NewRow(id2, on2)]
  <2>1. /\ Open(s) /\ incs' = incs
        /\ Write(s, T1, {id1}) \/ Write(s, T2, {id1, id2})
    BY <1>2 DEF BulkCreate
  <2>. HIDE DEF id2
  <2>2. SameCounts(T0, T1, {id1}) /\ SameCounts(T0, T2, {id1, id2})
    BY <1>0 DEF SameCounts
  <2>. HIDE DEF id1, T1, T2
  <2>. QED
    BY <2>1, <2>2, WriteKeepsCounts
<1>3. ASSUME NEW k \in Key, NEW on \in IdCols, Update(s, k, on)
      PROVE  NoLostIncrement'
  <2>. DEFINE row == [T0[k] EXCEPT !.on = on]
              T   == [T0 EXCEPT ![k] = row]
  <2>1. T0[k] \in Row
    BY <1>0, <1>3 DEF Update
  <2>2. row \in Row /\ row.n = T0[k].n
    BY <2>1 DEF Row
  <2>. HIDE DEF row
  <2>3. SameCounts(T0, T, {})
    BY <1>0, <2>1, <2>2, TableAssumption DEF SameCounts
  <2>4. Open(s) /\ Write(s, T, {}) /\ incs' = incs
    BY <1>3 DEF Update, row
  <2>. HIDE DEF T
  <2>. QED
    BY <2>3, <2>4, WriteKeepsCounts
<1>4. ASSUME NEW id \in Key, NEW stored \in Key, NEW on \in IdCols,
             UpdateAtomic(s, id, stored, on)
      PROVE  NoLostIncrement'
  <2>. DEFINE row == Incremented(T0[stored], on)
              T   == [T0 EXCEPT ![id] = row]
  <2>1. CASE stored # id
    <3>1. Open(s) /\ Write(s, T, {id}) /\ incs' = incs
      BY <1>4, <2>1 DEF UpdateAtomic
    <3>2. SameCounts(T0, T, {id})
      BY <1>0 DEF SameCounts
    <3>. HIDE DEF T
    <3>. QED
      BY <3>1, <3>2, WriteKeepsCounts
  <2>2. CASE stored = id
    <3>1. /\ T0[id] \in Row /\ T0[id].n < MaxN
          /\ Open(s) /\ Write(s, T, {})
          /\ incs' = [incs EXCEPT ![s][id] = @ + 1]
      BY <1>0, <1>4, <2>2 DEF UpdateAtomic, Selected
    <3>2. row \in Row /\ row.n = T0[id].n + 1
      BY <2>2, <3>1, BoundAssumption DEF Row, Incremented
    <3>. SUFFICES ASSUME NEW u \in Store, Open(u)', NEW k \in Key \ reset'[u]
                  PROVE  /\ snap[u][k] = Absent => tables'[u][k] = Absent /\ incs'[u][k] = 0
                         /\ snap[u][k] # Absent =>
                              /\ tables'[u][k] # Absent
                              /\ tables'[u][k].n = snap[u][k].n + incs'[u][k]
      BY <3>1 DEF NoLostIncrement, Write
    <3>3. Open(u) /\ k \notin reset[u]
      BY <3>1 DEF Open, Write, TypeOK
    <3>4. CASE u = s /\ k = id
      <4>1. tables'[u][k] = row /\ incs'[u][k] = incs[u][k] + 1
        BY <3>1, <3>4 DEF Write, TypeOK, Table
      <4>2. snap[u][k] # Absent /\ T0[id].n = snap[u][k].n + incs[u][k]
        BY <3>1, <3>3, <3>4, TableAssumption DEF NoLostIncrement
      <4>3. snap[u][k].n \in Nat /\ incs[u][k] \in Nat
        BY <4>2, BoundAssumption DEF TypeOK, Table, Row
      <4>. HIDE DEF row
      <4>. QED
        BY <3>2, <4>1, <4>2, <4>3, TableAssumption
    <3>5. CASE ~(u = s /\ k = id)
      <4>1. tables'[u][k] = tables[u][k] /\ incs'[u][k] = incs[u][k]
        BY <3>1, <3>5 DEF Write, TypeOK, Table
      <4>. QED
        BY <3>3, <4>1 DEF NoLostIncrement
    <3>. QED
      BY <3>4, <3>5
  <2>. QED
    BY <2>1, <2>2
<1>5. ASSUME NEW given \in Given, NEW i \in Identity, NEW on \in IdCols,
             NEW fields \in UpsertFields, NEW k \in Key,
             UpsertUpdates(s, given, i, on, fields, k)
      PROVE  NoLostIncrement'
  <2>. DEFINE writes == UpsertWrites(i, fields, given)
              new    == NewRow(given, on)
              row    == Overwrite(T0[k], new, writes)
              keys   == IF "n" \in writes THEN {k} ELSE {}
              T      == [T0 EXCEPT ![k] = row]
  <2>1. T0[k] \in Row
    BY <1>0, <1>5 DEF UpsertUpdates, Table
  <2>2. row \in Row
    BY <2>1, UpsertedType
  <2>3. "n" \notin writes => row.n = T0[k].n
    BY DEF Overwrite
  <2>4. Open(s) /\ Write(s, T, keys) /\ incs' = incs
    BY <1>0, <1>5 DEF UpsertUpdates
  <2>. HIDE DEF row, writes
  <2>5. SameCounts(T0, T, keys)
    BY <1>0, <2>1, <2>2, <2>3, TableAssumption DEF SameCounts
  <2>. HIDE DEF T, keys
  <2>. QED
    BY <2>4, <2>5, WriteKeepsCounts
<1>6. ASSUME NEW given \in Given, NEW i \in Identity, NEW on \in IdCols,
             UpsertInserts(s, given, i, on)
      PROVE  NoLostIncrement'
  <2>. DEFINE id == AssignKey(T0, given)
              T  == [T0 EXCEPT ![id] = NewRow(id, on)]
  <2>1. SameCounts(T0, T, {id})
    BY <1>0 DEF SameCounts
  <2>2. Open(s) /\ Write(s, T, {id}) /\ incs' = incs
    BY <1>6 DEF UpsertInserts
  <2>. HIDE DEF id, T
  <2>. QED
    BY <2>1, <2>2, WriteKeepsCounts
<1>7. ASSUME NEW k \in Key, Destroy(s, k) \/ DestroyAtomic(s, k)
      PROVE  NoLostIncrement'
  <2>. DEFINE T == [T0 EXCEPT ![k] = Absent]
  <2>1. SameCounts(T0, T, {k})
    BY <1>0 DEF SameCounts
  <2>2. Open(s) /\ Write(s, T, {k}) /\ incs' = incs
    BY <1>7 DEF Destroy, DestroyAtomic
  <2>. HIDE DEF T
  <2>. QED
    BY <2>1, <2>2, WriteKeepsCounts
<1>8. ASSUME NEW keys \in SUBSET Key, BulkDestroy(s, keys)
      PROVE  NoLostIncrement'
  <2>. DEFINE T == [k \in Key |-> IF k \in keys THEN Absent ELSE T0[k]]
  <2>1. SameCounts(T0, T, keys)
    BY DEF SameCounts
  <2>2. Open(s) /\ Write(s, T, keys) /\ incs' = incs
    BY <1>8 DEF BulkDestroy
  <2>. HIDE DEF T
  <2>. QED
    BY <2>1, <2>2, WriteKeepsCounts
<1>. QED
  BY <1>1, <1>2, <1>3, <1>4, <1>5, <1>6, <1>7, <1>8 DEF WriteStep

\* A transaction starts from a copy, with nothing counted yet.
LEMMA BeginKeepsCounts ==
  ASSUME TypeOK, NoLostIncrement, NEW t \in Txn, NEW s \in Store, Begin(t, s)
  PROVE  NoLostIncrement'
<1>. SUFFICES ASSUME NEW u \in Store, Open(u)', NEW k \in Key \ reset'[u]
              PROVE  /\ snap'[u][k] = Absent => tables'[u][k] = Absent /\ incs'[u][k] = 0
                     /\ snap'[u][k] # Absent =>
                          /\ tables'[u][k] # Absent
                          /\ tables'[u][k].n = snap'[u][k].n + incs'[u][k]
  BY DEF NoLostIncrement
<1>1. CASE u = t
  <2>1. snap'[u] = tables'[u] /\ incs'[u][k] = 0 /\ tables'[u] \in Table
    BY <1>1 DEF Begin, TypeOK, NoIncs
  <2>2. tables'[u][k] # Absent => tables'[u][k].n \in Nat
    BY <2>1, BoundAssumption DEF Table, Row
  <2>. QED
    BY <2>1, <2>2
<1>2. CASE u # t
  <2>1. /\ Open(u) /\ k \notin reset[u]
        /\ tables'[u] = tables[u] /\ snap'[u] = snap[u] /\ incs'[u] = incs[u]
    BY <1>2 DEF Begin, Open, TypeOK
  <2>. QED
    BY <2>1 DEF NoLostIncrement
<1>. QED
  BY <1>1, <1>2

\* A commit adds what the transaction counted to what its parent had counted.
\* Where it counted anything, its row is not the one it started from, so it
\* is applied, and the parent's row still is: no conflict was found.
LEMMA CommitKeepsCounts ==
  ASSUME TypeOK, NoLostIncrement, NEW t \in Txn, Commit(t)
  PROVE  NoLostIncrement'
<1>. DEFINE p == parent[t]
<1>0. p \in Store /\ t \in Store /\ p # t /\ Open(t) /\ ~Conflict(t)
  BY DEF TypeOK, Store, Commit, Returned, Open
<1>. SUFFICES ASSUME NEW u \in Store, Open(u)', NEW k \in Key \ reset'[u]
              PROVE  /\ snap[u][k] = Absent => tables'[u][k] = Absent /\ incs'[u][k] = 0
                     /\ snap[u][k] # Absent =>
                          /\ tables'[u][k] # Absent
                          /\ tables'[u][k].n = snap[u][k].n + incs'[u][k]
  BY ZenonT(60) DEF NoLostIncrement, Commit
<1>1. Open(u) /\ u # t
  BY StoreAssumption DEF Commit, Open, TypeOK
<1>2. CASE u # p
  <2>1. k \notin reset[u] /\ tables'[u] = tables[u] /\ incs'[u] = incs[u]
    BY <1>0, <1>1, <1>2 DEF Commit, TypeOK
  <2>. QED
    BY <1>1, <2>1 DEF NoLostIncrement
<1>3. CASE u = p
  <2>1. k \notin reset[p] /\ k \notin reset[t]
    BY <1>0, <1>3 DEF Commit, TypeOK
  <2>2. incs'[p][k] = incs[p][k] + incs[t][k]
    BY <1>0 DEF Commit, TypeOK
  <2>3. tables'[p] = Merged(t)
    BY <1>0 DEF Commit, TypeOK
  <2>4. incs[p][k] \in Nat /\ incs[t][k] \in Nat
    BY <1>0 DEF TypeOK
  <2>5. /\ snap[t][k] # Absent => snap[t][k].n \in Nat
        /\ snap[p][k] # Absent => snap[p][k].n \in Nat
    BY <1>0, BoundAssumption DEF TypeOK, Table, Row
  <2>6. /\ snap[t][k] = Absent => tables[t][k] = Absent /\ incs[t][k] = 0
        /\ snap[t][k] # Absent =>
             /\ tables[t][k] # Absent
             /\ tables[t][k].n = snap[t][k].n + incs[t][k]
    BY <1>0, <2>1 DEF NoLostIncrement
  <2>7. /\ snap[p][k] = Absent => tables[p][k] = Absent /\ incs[p][k] = 0
        /\ snap[p][k] # Absent =>
             /\ tables[p][k] # Absent
             /\ tables[p][k].n = snap[p][k].n + incs[p][k]
    BY <1>1, <1>3, <2>1 DEF NoLostIncrement
  <2>8. CASE k \in Changed(t)
    <3>1. tables[p][k] = snap[t][k] /\ tables'[p][k] = tables[t][k]
      BY <1>0, <2>3, <2>8 DEF Conflict, Merged
    <3>. QED
      BY <1>3, <2>2, <2>4, <2>5, <2>6, <2>7, <3>1
  <2>9. CASE k \notin Changed(t)
    <3>1. tables[t][k] = snap[t][k] /\ tables'[p][k] = tables[p][k]
      BY <2>3, <2>9 DEF Changed, Merged
    <3>2. incs[t][k] = 0
      BY <2>4, <2>5, <2>6, <3>1
    <3>. QED
      BY <1>3, <2>2, <2>4, <2>5, <2>6, <2>7, <3>1, <3>2
  <2>. QED
    BY <2>8, <2>9
<1>. QED
  BY <1>2, <1>3

LEMMA RollBackKeepsCounts ==
  ASSUME TypeOK, NoLostIncrement, NEW t \in Txn, RollBack(t)
  PROVE  NoLostIncrement'
<1>. SUFFICES ASSUME NEW u \in Store, Open(u)'
              PROVE  Open(u) /\ u # t /\ tables'[u] = tables[u]
  BY DEF NoLostIncrement, RollBack
<1>. QED
  BY StoreAssumption DEF RollBack, Open, TypeOK

LEMMA StepKeepsCounts ==
  TypeOK /\ NoLostIncrement /\ [Next]_vars => NoLostIncrement'
<1>. SUFFICES ASSUME TypeOK, NoLostIncrement, [Next]_vars
              PROVE  NoLostIncrement'
  OBVIOUS
<1>1. CASE UNCHANGED vars
  BY <1>1 DEF NoLostIncrement, Open, vars
<1>2. CASE Next
  BY <1>2, CallKeepsCounts, BeginKeepsCounts, CommitKeepsCounts,
     RollBackKeepsCounts DEF Next, CommitConflicts, Abort
<1>. QED
  BY <1>1, <1>2

LEMMA InitCounts == Init => NoLostIncrement
<1>. SUFFICES ASSUME Init, NEW s \in Store, NEW k \in Key
              PROVE  /\ snap[s][k] = Absent => tables[s][k] = Absent /\ incs[s][k] = 0
                     /\ snap[s][k] # Absent =>
                          /\ tables[s][k] # Absent
                          /\ tables[s][k].n = snap[s][k].n + incs[s][k]
  BY DEF NoLostIncrement
<1>1. snap = tables /\ incs[s][k] = 0
  BY DEF Init, NoIncs
<1>2. TypeOK
  BY InitType
<1>3. tables[s][k] # Absent => tables[s][k].n \in Nat
  BY <1>2, BoundAssumption DEF TypeOK, Table, Row
<1>. QED
  BY <1>1, <1>3

\* No increment acknowledged by a data layer call or by a committed
\* transaction, at any depth of nesting, is ever lost or applied twice.
THEOREM NoIncrementIsLost == Spec => []NoLostIncrement
<1>1. Init => TypeOK /\ NoLostIncrement
  BY InitType, InitCounts
<1>2. TypeOK /\ NoLostIncrement /\ [Next]_vars => (TypeOK /\ NoLostIncrement)'
  BY StepType, StepKeepsCounts
<1>. QED
  BY <1>1, <1>2, PTL DEF Spec

-----------------------------------------------------------------------------
(* Identities.                                                              *)

\* A row that check_identities let in, or none, leaves the table unique.
LEMMA StoringKeepsUnique ==
  ASSUME NEW T \in Table, NEW id \in Key, NEW row \in Row \cup {Absent},
         Unique(T), row # Absent => ~Refused(T, id, row, T[id])
  PROVE  Unique([T EXCEPT ![id] = row])
<1>. DEFINE U == [T EXCEPT ![id] = row]
<1>. SUFFICES ASSUME NEW i \in Identity, NEW j \in Key, NEW k \in Key, j # k,
                     U[j] # Absent, U[k] # Absent, Clash(i, U[j], U[k])
              PROVE  FALSE
  BY DEF Unique
<1>1. /\ U[id] = row
      /\ \A l \in Key : l # id => U[l] = T[l]
  BY DEF Table
<1>. HIDE DEF U
<1>2. CASE j # id /\ k # id
  BY <1>1, <1>2 DEF Unique
<1>3. ASSUME NEW l \in Key, l # id, T[l] # Absent, row # Absent, Clash(i, row, T[l])
      PROVE  FALSE
  <2>1. T[id] # Absent /\ T[id].on[i] = row.on[i]
    BY <1>3 DEF Refused
  <2>2. Clash(i, T[id], T[l])
    BY <1>3, <2>1 DEF Clash
  <2>. QED
    BY <1>3, <2>1, <2>2 DEF Unique
<1>4. Clash(i, U[k], U[j])
  BY DEF Clash
<1>. QED
  BY <1>1, <1>2, <1>3, <1>4

\* A table with fewer rows is unique too.
LEMMA RemovingKeepsUnique ==
  ASSUME NEW T, NEW U, Unique(T), \A k \in Key : U[k] \in {T[k], Absent}
  PROVE  Unique(U)
  BY DEF Unique

\* A call that leaves its table unique keeps the invariant.
LEMMA WriteKeepsUnique ==
  ASSUME TypeOK, UniqueUntilCommit, UpsertsKeepToTheirIdentity,
         NEW s \in Store, NEW T, NEW keys, Open(s), Write(s, T, keys),
         Unique(tables[s]) => Unique(T)
  PROVE  UniqueUntilCommit'
<1>1. UNCHANGED <<snap, parent, status>> /\ tables' = [tables EXCEPT ![s] = T]
  BY DEF Write
<1>. SUFFICES ASSUME NEW u \in Store, Open(u), Unique(snap[u]),
                     \A t \in Children(u) : status[t] # "committed"
              PROVE  Unique(tables'[u])
  BY <1>1 DEF UniqueUntilCommit, Open, Children, Unique, Clash
<1>2. Unique(tables[u])
  BY DEF UniqueUntilCommit
<1>. QED
  BY <1>1, <1>2 DEF TypeOK

LEMMA CallKeepsUnique ==
  ASSUME TypeOK, UniqueUntilCommit, UpsertsKeepToTheirIdentity,
         NEW s \in Store, WriteStep(s)
  PROVE  UniqueUntilCommit'
<1>. DEFINE T0 == tables[s]
<1>0. T0 \in Table
  BY DEF TypeOK
<1>1. ASSUME NEW given \in Given, NEW on \in IdCols, Create(s, given, on)
      PROVE  UniqueUntilCommit'
  <2>. DEFINE id == AssignKey(T0, given)
              T  == [T0 EXCEPT ![id] = NewRow(id, on)]
  <2>1. /\ id \in Key /\ T0[id] = Absent
        /\ ~Refused(T0, id, NewRow(id, on), Absent)
        /\ Open(s) /\ Write(s, T, {id})
    BY <1>1 DEF Create, CreateAllowed
  <2>. HIDE DEF id
  <2>2. Unique(T0) => Unique(T)
    BY <1>0, <2>1, NewRowType, StoringKeepsUnique
  <2>. HIDE DEF T
  <2>. QED
    BY <2>1, <2>2, WriteKeepsUnique
<1>2. ASSUME NEW given1 \in Given, NEW given2 \in Given,
             NEW on1 \in IdCols, NEW on2 \in IdCols,
             BulkCreate(s, given1, on1, given2, on2)
      PROVE  UniqueUntilCommit'
  <2>. DEFINE id1 == AssignKey(T0, given1)
              T1  == [T0 EXCEPT ![id1] = NewRow(id1, on1)]
              id2 == AssignKey(T1, given2)
              T2  == [T1 EXCEPT ![id2] = NewRow(id2, on2)]
  <2>1. /\ Open(s) /\ CreateAllowed(T0, id1, on1)
        /\ \/ Write(s, T1, {id1})
           \/ Write(s, T2, {id1, id2}) /\ CreateAllowed(T1, id2, on2)
    BY <1>2 DEF BulkCreate
  <2>. HIDE DEF id1
  <2>2. T1 \in Table /\ (Unique(T0) => Unique(T1))
    <3>1. id1 \in Key /\ T0[id1] = Absent /\ ~Refused(T0, id1, NewRow(id1, on1), Absent)
      BY <2>1 DEF CreateAllowed
    <3>2. T1 \in Table
      BY <1>0, <3>1, NewRowType DEF Table
    <3>. QED
      BY <1>0, <3>1, <3>2, NewRowType, StoringKeepsUnique
  <2>. HIDE DEF T1, id2
  <2>3. CASE Write(s, T1, {id1})
    BY <2>1, <2>2, <2>3, WriteKeepsUnique
  <2>4. CASE Write(s, T2, {id1, id2}) /\ CreateAllowed(T1, id2, on2)
    <3>1. id2 \in Key /\ T1[id2] = Absent /\ ~Refused(T1, id2, NewRow(id2, on2), Absent)
      BY <2>4 DEF CreateAllowed
    <3>2. Unique(T0) => Unique(T2)
      BY <2>2, <3>1, NewRowType, StoringKeepsUnique
    <3>. HIDE DEF T2
    <3>. QED
      BY <2>1, <2>4, <3>2, WriteKeepsUnique
  <2>. QED
    BY <2>1, <2>3, <2>4
<1>3. ASSUME NEW k \in Key, NEW on \in IdCols, Update(s, k, on)
      PROVE  UniqueUntilCommit'
  <2>. DEFINE row == [T0[k] EXCEPT !.on = on]
              T   == [T0 EXCEPT ![k] = row]
  <2>1. T0[k] \in Row
    BY <1>0, <1>3 DEF Update, Table
  <2>2. row \in Row
    BY <2>1 DEF Row
  <2>3. ~Refused(T0, k, row, T0[k]) /\ Open(s) /\ Write(s, T, {})
    BY <1>3 DEF Update
  <2>. HIDE DEF row
  <2>4. Unique(T0) => Unique(T)
    BY <1>0, <2>2, <2>3, StoringKeepsUnique
  <2>. HIDE DEF T
  <2>. QED
    BY <2>3, <2>4, WriteKeepsUnique
<1>4. ASSUME NEW id \in Key, NEW stored \in Key, NEW on \in IdCols,
             UpdateAtomic(s, id, stored, on)
      PROVE  UniqueUntilCommit'
  <2>. DEFINE row  == Incremented(T0[stored], on)
              keys == IF stored = id THEN {} ELSE {id}
              T    == [T0 EXCEPT ![id] = row]
  <2>1. T0[stored] \in Row /\ T0[stored].n < MaxN
    BY <1>0, <1>4 DEF UpdateAtomic, Selected, Table
  <2>2. row \in Row
    BY <2>1, BoundAssumption DEF Row, Incremented
  <2>3. ~Refused(T0, id, row, T0[id]) /\ Open(s) /\ Write(s, T, keys)
    BY <1>4 DEF UpdateAtomic
  <2>. HIDE DEF row, keys
  <2>4. Unique(T0) => Unique(T)
    BY <1>0, <2>2, <2>3, StoringKeepsUnique
  <2>. HIDE DEF T
  <2>. QED
    BY <2>3, <2>4, WriteKeepsUnique
<1>5. ASSUME NEW given \in Given, NEW i \in Identity, NEW on \in IdCols,
             NEW fields \in UpsertFields, NEW k \in Key,
             UpsertUpdates(s, given, i, on, fields, k)
      PROVE  UniqueUntilCommit'
  <2>. DEFINE writes == UpsertWrites(i, fields, given)
              new    == NewRow(given, on)
              row    == Overwrite(T0[k], new, writes)
              keys   == IF "n" \in writes THEN {k} ELSE {}
              T      == [T0 EXCEPT ![k] = row]
  <2>1. T0[k] \in Row /\ Clash(i, new, T0[k])
    BY <1>0, <1>5 DEF UpsertUpdates, Table
  <2>2. row \in Row
    BY <2>1, UpsertedType
  <2>3. writes \cap Identity \subseteq {i}
    BY DEF UpsertsKeepToTheirIdentity
  <2>4. \A j \in Identity : row.on[j] = T0[k].on[j]
    BY <2>1, <2>3 DEF Overwrite, Clash
  <2>5. Open(s) /\ Write(s, T, keys)
    BY <1>0, <1>5 DEF UpsertUpdates
  <2>. HIDE DEF row, writes
  <2>6. ~Refused(T0, k, row, T0[k])
    BY <2>1, <2>4, TableAssumption DEF Refused
  <2>7. Unique(T0) => Unique(T)
    BY <1>0, <2>2, <2>6, StoringKeepsUnique
  <2>. HIDE DEF T, keys
  <2>. QED
    BY <2>5, <2>7, WriteKeepsUnique
<1>6. ASSUME NEW given \in Given, NEW i \in Identity, NEW on \in IdCols,
             UpsertInserts(s, given, i, on)
      PROVE  UniqueUntilCommit'
  <2>. DEFINE id  == AssignKey(T0, given)
              row == NewRow(id, on)
              T   == [T0 EXCEPT ![id] = row]
  <2>1. /\ id \in Key /\ ~Refused(T0, id, row, Absent)
        /\ Open(s) /\ Write(s, T, {id})
    BY <1>6 DEF UpsertInserts
  <2>. HIDE DEF id
  <2>2. row \in Row
    BY <2>1, NewRowType
  <2>3. ~Refused(T0, id, row, T0[id])
    BY <2>1 DEF Refused
  <2>. HIDE DEF row
  <2>4. Unique(T0) => Unique(T)
    BY <1>0, <2>1, <2>2, <2>3, StoringKeepsUnique
  <2>. HIDE DEF T
  <2>. QED
    BY <2>1, <2>4, WriteKeepsUnique
<1>7. ASSUME NEW k \in Key, Destroy(s, k) \/ DestroyAtomic(s, k)
      PROVE  UniqueUntilCommit'
  <2>. DEFINE T == [T0 EXCEPT ![k] = Absent]
  <2>1. \A l \in Key : T[l] \in {T0[l], Absent}
    BY <1>0 DEF Table
  <2>2. Open(s) /\ Write(s, T, {k})
    BY <1>7 DEF Destroy, DestroyAtomic
  <2>. HIDE DEF T
  <2>. QED
    BY <2>1, <2>2, RemovingKeepsUnique, WriteKeepsUnique
<1>8. ASSUME NEW keys \in SUBSET Key, BulkDestroy(s, keys)
      PROVE  UniqueUntilCommit'
  <2>. DEFINE T == [k \in Key |-> IF k \in keys THEN Absent ELSE T0[k]]
  <2>1. \A l \in Key : T[l] \in {T0[l], Absent}
    OBVIOUS
  <2>2. Open(s) /\ Write(s, T, keys)
    BY <1>8 DEF BulkDestroy
  <2>. HIDE DEF T
  <2>. QED
    BY <2>1, <2>2, RemovingKeepsUnique, WriteKeepsUnique
<1>. QED
  BY <1>1, <1>2, <1>3, <1>4, <1>5, <1>6, <1>7, <1>8 DEF WriteStep

\* A transaction begins on a copy; a commit takes its parent out of what is
\* claimed; a rollback drops only its own store.
LEMMA ScopesKeepUnique ==
  ASSUME TypeOK, UniqueUntilCommit, UpsertsKeepToTheirIdentity, NEW t \in Txn,
         \/ \E s \in Store : Begin(t, s)
         \/ Commit(t)
         \/ Returned(t) /\ RollBack(t)
  PROVE  UniqueUntilCommit'
<1>. SUFFICES ASSUME NEW u \in Store, Open(u)', Unique(snap'[u]),
                     \A c \in Children(u)' : status'[c] # "committed"
              PROVE  Unique(tables'[u])
  BY DEF UniqueUntilCommit, Unique, Clash
<1>1. ASSUME NEW s \in Store, Begin(t, s)
      PROVE  Unique(tables'[u])
  <2>1. CASE u = t
    BY <1>1, <2>1 DEF Begin, TypeOK
  <2>2. CASE u # t
    <3>1. /\ Open(u) /\ snap'[u] = snap[u] /\ tables'[u] = tables[u]
          /\ status[t] # "committed"
      BY <1>1, <2>2 DEF Begin, Open, TypeOK
    <3>2. ASSUME NEW c \in Children(u) PROVE status[c] # "committed"
      BY <1>1, <3>1, <3>2 DEF Begin, Children, TypeOK
    <3>. QED
      BY <3>1, <3>2 DEF UniqueUntilCommit
  <2>. QED
    BY <2>1, <2>2
<1>2. ASSUME Commit(t)
      PROVE  Unique(tables'[u])
  <2>1. u # parent[t]
    BY <1>2 DEF Commit, Children, TypeOK
  <2>2. u # t
    BY <1>2, StoreAssumption DEF Commit, Open, TypeOK
  <2>3. Open(u) /\ snap'[u] = snap[u] /\ tables'[u] = tables[u]
    BY <1>2, <2>1, <2>2 DEF Commit, Open, TypeOK
  <2>4. ASSUME NEW c \in Children(u) PROVE status[c] # "committed"
    BY <1>2, <2>1, <2>4 DEF Commit, Children, TypeOK
  <2>. QED
    BY <2>3, <2>4 DEF UniqueUntilCommit
<1>3. ASSUME Returned(t), RollBack(t)
      PROVE  Unique(tables'[u])
  <2>1. u # t
    BY <1>3, StoreAssumption DEF RollBack, Open, TypeOK
  <2>2. Open(u) /\ snap'[u] = snap[u] /\ tables'[u] = tables[u]
    BY <1>3, <2>1 DEF RollBack, Open, TypeOK
  <2>3. ASSUME NEW c \in Children(u) PROVE status[c] # "committed" \/ c = t
    BY <1>3, <2>3 DEF RollBack, Children, TypeOK
  <2>4. status[t] # "committed"
    BY <1>3 DEF Returned
  <2>. QED
    BY <2>2, <2>3, <2>4 DEF UniqueUntilCommit
<1>. QED
  BY <1>1, <1>2, <1>3

LEMMA StepKeepsUnique ==
  TypeOK /\ UniqueUntilCommit /\ [Next]_vars => UniqueUntilCommit'
<1>. SUFFICES ASSUME TypeOK, UniqueUntilCommit, [Next]_vars
              PROVE  UniqueUntilCommit'
  OBVIOUS
<1>1. CASE ~UpsertsKeepToTheirIdentity
  BY <1>1 DEF UniqueUntilCommit
<1>2. CASE UpsertsKeepToTheirIdentity /\ Next
  BY <1>2, CallKeepsUnique, ScopesKeepUnique DEF Next, Commit, CommitConflicts, Abort
<1>3. CASE UNCHANGED vars
  BY <1>3 DEF UniqueUntilCommit, Open, Children, Unique, Clash, vars
<1>. QED
  BY <1>1, <1>2, <1>3

\* A store no transaction was committed into stays as unique as it began,
\* whatever calls are made on it, where upserts keep to the columns of the
\* identity they are matched on.
THEOREM UniqueTillACommit == Spec => []UniqueUntilCommit
<1>1. Init => TypeOK /\ UniqueUntilCommit
  <2>1. Init => snap = tables
    BY DEF Init
  <2>. QED
    BY <2>1, InitType DEF UniqueUntilCommit
<1>2. TypeOK /\ UniqueUntilCommit /\ [Next]_vars => (TypeOK /\ UniqueUntilCommit)'
  BY StepType, StepKeepsUnique
<1>. QED
  BY <1>1, <1>2, PTL DEF Spec

-----------------------------------------------------------------------------
(* Commits nobody wrote beside.                                             *)

\* The step that makes a transaction committed is its Commit.
LEMMA CommittedByCommit ==
  ASSUME TypeOK, Next, NEW t \in Txn, status[t] = "open", status'[t] = "committed"
  PROVE  Commit(t)
<1>1. ASSUME NEW s \in Store, WriteStep(s)
      PROVE  status' = status
  BY <1>1, ZenonT(60) DEF WriteStep, Write, Create, BulkCreate, Update, UpdateAtomic,
     UpsertUpdates, UpsertInserts, Destroy, BulkDestroy, DestroyAtomic
<1>2. ASSUME NEW u \in Txn, \/ \E s \in Store : Begin(u, s)
                            \/ CommitConflicts(u)
                            \/ Abort(u)
      PROVE  status'[t] # "committed"
  BY <1>2 DEF Begin, CommitConflicts, Abort, RollBack, TypeOK
<1>3. ASSUME NEW u \in Txn, Commit(u)
      PROVE  u = t
  BY <1>3 DEF Commit, TypeOK
<1>. QED
  BY <1>1, <1>2, <1>3 DEF Next

\* A transaction that finds its parent as it copied it leaves it exactly as its
\* closure saw it: what it did not change is what it copied.
THEOREM UncontendedCommits == Spec => UncontendedCommitIsExact
<1>1. ASSUME TypeOK, [Next]_vars, NEW t \in Txn,
             status[t] = "open", status'[t] = "committed",
             tables[parent[t]] = snap[t]
      PROVE  tables'[parent[t]] = tables[t]
  <2>1. Next
    BY <1>1 DEF vars
  <2>2. Commit(t)
    BY <1>1, <2>1, CommittedByCommit
  <2>3. parent[t] \in Store /\ parent[t] # t /\ tables[t] \in Table /\ snap[t] \in Table
    BY <1>1 DEF TypeOK, Store
  <2>4. tables'[parent[t]] = Merged(t)
    BY <1>1, <2>2, <2>3 DEF Commit, TypeOK
  <2>5. Merged(t) = [k \in Key |-> tables[t][k]]
    BY <1>1 DEF Merged, Changed
  <2>. QED
    BY <2>3, <2>4, <2>5 DEF Table
<1>2. TypeOK /\ [Next]_vars =>
        [\A t \in Txn :
           /\ status[t] = "open" /\ status'[t] = "committed"
           /\ tables[parent[t]] = snap[t]
           => tables'[parent[t]] = tables[t]]_vars
  BY <1>1
<1>. QED
  BY <1>2, TypeCorrect, PTL DEF Spec, UncontendedCommitIsExact

=============================================================================
