------------------------ MODULE OptimisticLockProofs ------------------------
(***************************************************************************)
(* Proofs about OptimisticLock, for any number of callers and related       *)
(* records, on any data layer.                                              *)
(***************************************************************************)
EXTENDS OptimisticLock, FiniteSetTheorems, TLAPS

\* A query's answer is a list of what it selects.
LEMMA OrdersType ==
  ASSUME NEW S \in SUBSET Related, NEW o \in Orders(S)
  PROVE  o \in Seq(Related)
<1>1. Cardinality(S) \in Nat
  BY RelatedAssumption, FS_Subset, FS_CardinalityType
<1>2. o \in [1..Cardinality(S) -> Related]
  BY DEF Orders
<1>. QED
  BY <1>1, <1>2

\* What an update or an archive makes of a record is a record.
LEMMA NextRecordType ==
  ASSUME Shape, NEW c \in Client, copy[c] # Absent, record # Absent
  PROVE  /\ NextOf(c) \in Record \ {Absent}
         /\ Planned(c) \in Record \ {Absent}
         /\ ArchivedBy(c) \in Record \ {Absent}
<1>1. copy[c] \in Record /\ record \in Record
  BY DEF Shape
<1>2. NextOf(c) \in Record /\ Planned(c) \in Record /\ ArchivedBy(c) \in Record
  BY <1>1 DEF Record, NextOf, Planned, ArchivedBy
<1>. QED
  BY <1>2, AbsentAssumption

LEMMA TypeInit == Init => TypeOK
  BY AbsentAssumption
     DEF Init, TypeOK, Shape, Held, Record, Place, Action, Outcome, HoldsRow, HoldsRelated

-----------------------------------------------------------------------------
(* Kinds of step: one that fails, succeeds, or only moves on.               *)

\* An attempt that fails holds nothing more.
LEMMA FailKeepsType ==
  ASSUME TypeOK, NEW c \in Client, NEW result \in Outcome, Fail(c, result),
         UNCHANGED <<layer, record, action, copy>>
  PROVE  TypeOK'
<1>1. Shape'
  BY DEF TypeOK, Shape, Fail, Return, Move, Place
<1>2. ASSUME NEW d \in Client
      PROVE  Held(d)'
  <2>1. Held(d) /\ Held(c)
    BY DEF TypeOK
  <2>2. d # c => UNCHANGED <<pc[d], action[d], copy[d], archives[d], removed[d]>>
    BY DEF TypeOK, Shape, Fail, Return, Move
  <2>3. pc'[c] = "idle" /\ archives'[c] = FALSE
        /\ (layer.transacts => removed'[c] = {}) /\ removed'[c] \subseteq removed[c]
    BY DEF TypeOK, Shape, Fail, Return, Move
  <2>4. \A e \in Client : archives'[e] => archives[e]
    BY <2>3 DEF TypeOK, Shape, Fail
  <2>. QED
    BY <2>1, <2>2, <2>3, <2>4
       DEF Fail, Held, HoldsRow, HoldsRelated, RowFree, InTransaction, Destroys
<1>. QED
  BY <1>1, <1>2 DEF TypeOK

\* One that succeeds leaves what it removed out of the related records.
LEMMA SucceedKeepsType ==
  ASSUME TypeOK, NEW c \in Client, Succeed(c), record' \in Record \cup {Absent},
         record' = Absent => RowFree(c),
         UNCHANGED <<layer, action, copy>>
  PROVE  TypeOK'
<1>1. Shape'
  BY DEF TypeOK, Shape, Succeed, Return, Move, Place, Outcome
<1>2. ASSUME NEW d \in Client
      PROVE  Held(d)'
  <2>1. Held(d)
    BY DEF TypeOK
  <2>2. d # c => UNCHANGED <<pc[d], action[d], copy[d], archives[d]>>
    BY DEF TypeOK, Shape, Succeed, Return, Move
  <2>3. pc'[c] = "idle" /\ archives'[c] = FALSE
    BY DEF TypeOK, Shape, Succeed, Return, Move
  <2>4. \A e \in Client : archives'[e] => archives[e]
    BY <2>3 DEF TypeOK, Shape, Succeed
  <2>. QED
    BY <2>1, <2>2, <2>3, <2>4
       DEF Succeed, Held, HoldsRow, HoldsRelated, RowFree, InTransaction, Destroys
<1>. QED
  BY <1>1, <1>2 DEF TypeOK

\* One that moves on, or returns, may write the record but takes no row.
LEMMA MoveKeepsType ==
  ASSUME TypeOK, NEW c \in Client, NEW to \in Place, Move(c, to),
         pc[c] # "idle", ~HoldsRow(c), to = "idle" => HoldsRelated(c) = {},
         to = "holding" => HoldsRelated(c) = {},
         to \in {"entered", "cascading"} =>
           Destroys(c) /\ (layer.transacts => action[c] # "archive"),
         record' \in Record \cup {Absent}, record' = Absent => record = Absent,
         outcome' \in [Client -> Outcome],
         UNCHANGED <<layer, related, action, copy, archives, todo, removed>>
  PROVE  TypeOK'
<1>1. Shape'
  BY DEF TypeOK, Shape, Move
<1>2. ASSUME NEW d \in Client
      PROVE  Held(d)'
  <2>1. Held(d)
    BY DEF TypeOK
  <2>2. pc'[c] = to /\ (d # c => pc'[d] = pc[d])
    BY DEF TypeOK, Shape, Move
  <2>. QED
    BY <2>1, <2>2
       DEF Held, HoldsRow, HoldsRelated, RowFree, InTransaction, Destroys
<1>. QED
  BY <1>1, <1>2 DEF TypeOK

\* An attempt in no transaction holds nothing.
LEMMA HoldsNothing ==
  ASSUME TypeOK, NEW c \in Client,
         ~InTransaction(c) \/ pc[c] \in {"idle", "holding"} \/ ~Destroys(c)
  PROVE  ~HoldsRow(c) /\ HoldsRelated(c) = {}
  BY DEF TypeOK, Held, InTransaction, Destroys

-----------------------------------------------------------------------------
(* The steps of a destroy.                                                  *)

\* An archive takes the row: nobody else holds it.
LEMMA ArchiveWritten ==
  ASSUME TypeOK, NEW c \in Client, WriteArchive(c), RowFree(c), record # Absent,
         pc[c] \in {"holding", "checked"}, action[c] = "archive", outcome' = outcome,
         UNCHANGED <<layer, related, action, copy, todo, removed>>
  PROVE  TypeOK'
<1>0. copy[c] # Absent
  BY DEF TypeOK, Held
<1>1. record' \in Record \ {Absent}
  BY <1>0, NextRecordType DEF TypeOK, Shape, WriteArchive
<1>2. Shape'
  BY <1>1 DEF TypeOK, Shape, WriteArchive, Move, Place
<1>3. ASSUME NEW d \in Client
      PROVE  Held(d)'
  <2>1. Held(d) /\ Held(c)
    BY DEF TypeOK
  <2>2. pc'[c] = "entered" /\ (d # c => pc'[d] = pc[d])
    BY DEF TypeOK, Shape, WriteArchive, Move
  <2>3. CASE layer.transacts
    <3>1. archives'[c] = TRUE /\ \A e \in Client \ {c} : archives'[e] = archives[e]
      BY <2>3 DEF TypeOK, Shape, WriteArchive
    <3>2. \A e \in Client \ {c} : ~archives[e]
      BY DEF RowFree, HoldsRow
    <3>. QED
      BY <1>1, <2>1, <2>2, <2>3, <3>1, <3>2
         DEF Held, HoldsRow, HoldsRelated, RowFree, InTransaction, Destroys
  <2>4. CASE ~layer.transacts
    BY <1>1, <2>1, <2>2, <2>4
       DEF WriteArchive, Held, HoldsRow, HoldsRelated, RowFree, InTransaction, Destroys
  <2>. QED
    BY <2>3, <2>4
<1>. QED
  BY <1>2, <1>3 DEF TypeOK

LEMMA ArchiveKeepsType ==
  ASSUME TypeOK, NEW c \in Client, Archive(c)
  PROVE  TypeOK'
<1>1. CASE Selected(c)
  BY <1>1, ArchiveWritten DEF Archive, Selected, Guard
<1>2. CASE ~Selected(c)
  <2>1. ~HoldsRow(c) /\ HoldsRelated(c) = {} /\ pc[c] # "idle"
    BY HoldsNothing DEF Archive
  <2>2. outcome' \in [Client -> Outcome] /\ record' = record /\ archives' = archives
        /\ record \in Record \cup {Absent}
    BY <1>2 DEF TypeOK, Shape, Archive, Return, Outcome
  <2>. QED
    BY <1>2, <2>1, <2>2, MoveKeepsType DEF Archive, Return, Place
<1>. QED
  BY <1>1, <1>2

LEMMA ArchiveCheckedKeepsType ==
  ASSUME TypeOK, NEW c \in Client, ArchiveChecked(c)
  PROVE  TypeOK'
<1>1. CASE record # Absent
  BY <1>1, ArchiveWritten DEF ArchiveChecked
<1>2. CASE record = Absent
  BY <1>2, FailKeepsType DEF ArchiveChecked, Outcome
<1>. QED
  BY <1>1, <1>2

LEMMA FindRelatedKeepsType ==
  ASSUME TypeOK, NEW c \in Client, FindRelated(c)
  PROVE  TypeOK'
<1>1. todo' \in [Client -> Seq(Related)]
  BY OrdersType DEF TypeOK, Shape, FindRelated
<1>2. Shape'
  BY <1>1 DEF TypeOK, Shape, FindRelated, Move, Place
<1>3. ASSUME NEW d \in Client
      PROVE  Held(d)'
  <2>1. Held(d) /\ pc'[c] = "cascading" /\ (d # c => pc'[d] = pc[d])
    BY DEF TypeOK, Shape, FindRelated, Move
  <2>. QED
    BY <2>1 DEF FindRelated, Held, HoldsRow, HoldsRelated, RowFree, InTransaction, Destroys
<1>. QED
  BY <1>2, <1>3 DEF TypeOK

\* A related record goes with the attempt that takes it, which runs in a
\* transaction where there is one.
LEMMA DestroyRelatedKeepsType ==
  ASSUME TypeOK, NEW c \in Client, DestroyRelated(c)
  PROVE  TypeOK'
<1>. DEFINE r == Head(todo[c])
<1>1. todo[c] \in Seq(Related) /\ todo[c] # <<>>
  BY DEF TypeOK, Shape, DestroyRelated
<1>2. r \in Related /\ Tail(todo[c]) \in Seq(Related)
  BY <1>1
<1>3. CASE r \in related
  <2>1. /\ todo' = [todo EXCEPT ![c] = Tail(todo[c])]
        /\ removed' = [removed EXCEPT ![c] = removed[c] \cup {r}]
        /\ related' = IF layer.transacts THEN related ELSE related \ {r}
        /\ UNCHANGED <<layer, record, pc, action, copy, archives, outcome>>
    BY <1>3 DEF TypeOK, Shape, DestroyRelated
  <2>. HIDE DEF r
  <2>2. Shape'
    BY <1>2, <2>1 DEF TypeOK, Shape
  <2>3. ASSUME NEW d \in Client
        PROVE  Held(d)'
    <3>1. Held(d) /\ (d # c => removed'[d] = removed[d])
      BY <2>1 DEF TypeOK, Shape
    <3>2. Destroys(c) /\ pc[c] = "cascading"
      BY DEF TypeOK, Held, DestroyRelated
    <3>. QED
      BY <2>1, <3>1, <3>2
         DEF Held, HoldsRow, HoldsRelated, RowFree, InTransaction, Destroys
  <2>. QED
    BY <2>2, <2>3 DEF TypeOK
<1>4. CASE r \notin related
  BY <1>4, FailKeepsType DEF DestroyRelated, Outcome
<1>. QED
  BY <1>3, <1>4

-----------------------------------------------------------------------------
LEMMA TypeNext ==
  ASSUME TypeOK, NEW c \in Client,
         (\E a \in Action : Read(c, a)) \/ FindNothing(c) \/ Proceed(c) \/ BreakOff(c)
  PROVE  TypeOK'
<1>. USE DEF Place, Outcome
<1>0. /\ record \in Record \cup {Absent}
      /\ \A result \in Outcome : [outcome EXCEPT ![c] = result] \in [Client -> Outcome]
      /\ outcome \in [Client -> Outcome]
      /\ Held(c)
  BY DEF TypeOK, Shape
<1>1. ASSUME NEW a \in Action, Read(c, a)
      PROVE  TypeOK'
  <2>1. record # Absent /\ a # Absent /\ pc[c] = "idle"
    BY <1>1, AbsentAssumption DEF Read, VR!Live
  <2>2. Shape'
    BY <1>0, <1>1, <2>1 DEF TypeOK, Shape, Read, Move
  <2>3. ASSUME NEW d \in Client
        PROVE  Held(d)'
    <3>1. Held(d)
      BY DEF TypeOK
    <3>2. d # c => UNCHANGED <<pc[d], action[d], copy[d], removed[d]>>
      BY <1>1 DEF TypeOK, Shape, Read, Move
    <3>3. pc'[c] = "holding" /\ action'[c] = a /\ copy'[c] = record /\ removed'[c] = {}
      BY <1>1 DEF TypeOK, Shape, Read, Move
    <3>. QED
      BY <1>1, <2>1, <3>1, <3>2, <3>3
         DEF Read, Held, HoldsRow, HoldsRelated, RowFree, InTransaction, Destroys
  <2>. QED
    BY <2>2, <2>3 DEF TypeOK
<1>2. CASE FindNothing(c)
  <2>1. Shape' /\ pc' = pc
    BY <1>0, <1>2 DEF TypeOK, Shape, FindNothing, Return, Move
  <2>. QED
    BY <1>2, <2>1 DEF TypeOK, FindNothing, Held, HoldsRow, HoldsRelated, RowFree,
       InTransaction, Destroys
<1>3. CASE UpdateAtomically(c)
  <2>1. ~HoldsRow(c) /\ HoldsRelated(c) = {} /\ pc[c] # "idle"
    BY <1>3, HoldsNothing DEF UpdateAtomically
  <2>2. record' = record \/ record' \in Record \ {Absent}
    BY <1>0, <1>3, <2>1, NextRecordType DEF TypeOK, UpdateAtomically, Selected, Guard, Held
  <2>. QED
    BY <1>0, <1>3, <2>1, <2>2, MoveKeepsType DEF UpdateAtomically, Return
<1>4. CASE Unchanged(c)
  BY <1>4, FailKeepsType DEF Unchanged
<1>5. CASE UpdateGuarded(c)
  <2>1. ~HoldsRow(c) /\ HoldsRelated(c) = {} /\ pc[c] # "idle"
    BY <1>5, HoldsNothing DEF UpdateGuarded, Guarded
  <2>2. record' = record \/ record' \in Record \ {Absent}
    BY <1>0, <1>5, <2>1, NextRecordType DEF TypeOK, UpdateGuarded, Guard, Held
  <2>. QED
    BY <1>0, <1>5, <2>1, <2>2, MoveKeepsType DEF UpdateGuarded, Return
<1>6. CASE CheckUpdate(c)
  <2>1. ~HoldsRow(c) /\ pc[c] # "idle"
    BY <1>6, HoldsNothing DEF CheckUpdate, Guarded
  <2>. QED
    BY <1>0, <1>6, <2>1, MoveKeepsType DEF CheckUpdate
<1>7. CASE UpdateChecked(c)
  <2>1. ~HoldsRow(c) /\ HoldsRelated(c) = {} /\ pc[c] # "idle"
    BY <1>7, HoldsNothing DEF UpdateChecked
  <2>2. record' = record \/ record' \in Record \ {Absent}
    BY <1>0, <1>7, <2>1, NextRecordType DEF TypeOK, UpdateChecked, Held
  <2>. QED
    BY <1>0, <1>7, <2>1, <2>2, MoveKeepsType DEF UpdateChecked, Return
<1>8. CASE StaleOrMissing(c)
  BY <1>8, FailKeepsType DEF StaleOrMissing
<1>9. CASE Archive(c)
  BY <1>9, ArchiveKeepsType
<1>10. CASE CheckArchive(c)
  <2>1. ~HoldsRow(c) /\ pc[c] # "idle"
    BY <1>10, HoldsNothing DEF CheckArchive
  <2>. QED
    BY <1>0, <1>10, <2>1, MoveKeepsType DEF CheckArchive
<1>11. CASE ArchiveChecked(c)
  BY <1>11, ArchiveCheckedKeepsType
<1>12. CASE CheckLock(c)
  <2>1. ~HoldsRow(c) /\ pc[c] # "idle" /\ Destroys(c)
    BY <1>12, HoldsNothing DEF CheckLock, Destroys
  <2>. QED
    BY <1>0, <1>12, <2>1, MoveKeepsType DEF CheckLock
<1>13. CASE FindRelated(c)
  BY <1>13, FindRelatedKeepsType
<1>14. CASE DestroyRelated(c)
  BY <1>14, DestroyRelatedKeepsType
<1>15. CASE FinishArchive(c)
  <2>0. copy[c] # Absent /\ (layer.transacts => record # Absent)
    BY <1>0, <1>15 DEF FinishArchive, Ready, Held, HoldsRow
  <2>1. record' \in Record \cup {Absent} /\ (record' = Absent => ~HoldsRow(c) /\ record = Absent)
    BY <1>0, <1>15, <2>0, NextRecordType DEF TypeOK, FinishArchive, Ready, Held
  <2>2. record' = Absent => RowFree(c)
    BY <2>1 DEF TypeOK, Held, RowFree
  <2>. QED
    BY <1>15, <2>1, <2>2, SucceedKeepsType DEF FinishArchive
<1>16. CASE DestroyGuarded(c)
  <2>1. CASE Guard(c)
    BY <1>16, <2>1, SucceedKeepsType DEF DestroyGuarded
  <2>2. CASE ~Guard(c)
    BY <1>0, <1>16, <2>2, MoveKeepsType DEF DestroyGuarded, Ready, Held
  <2>. QED
    BY <2>1, <2>2
<1>17. CASE CheckDestroy(c)
  BY <1>0, <1>17, MoveKeepsType DEF CheckDestroy, Ready, Held
<1>18. CASE DestroyChecked(c)
  <2>1. CASE record # Absent
    BY <1>18, <2>1, SucceedKeepsType DEF DestroyChecked
  <2>2. CASE record = Absent
    BY <1>18, <2>2, FailKeepsType DEF DestroyChecked
  <2>. QED
    BY <2>1, <2>2
<1>19. CASE BreakOff(c)
  BY <1>19, FailKeepsType DEF BreakOff
<1>. QED
  BY <1>1, <1>2, <1>3, <1>4, <1>5, <1>6, <1>7, <1>8, <1>9, <1>10, <1>11, <1>12,
     <1>13, <1>14, <1>15, <1>16, <1>17, <1>18, <1>19 DEF Proceed

\* Every variable keeps its shape, and only a transaction holds rows.
THEOREM TypeCorrect == Spec => []TypeOK
<1>1. TypeOK /\ [Next]_vars => TypeOK'
  <2>1. TypeOK /\ UNCHANGED vars => TypeOK'
    BY DEF vars, TypeOK, Shape, Held, HoldsRow, HoldsRelated, RowFree,
       InTransaction, Destroys
  <2>. QED
    BY <2>1, TypeNext DEF Next
<1>. QED
  BY <1>1, TypeInit, PTL DEF Spec

-----------------------------------------------------------------------------
(* The lock.  Where a write is one statement, a write that meets its guard  *)
(* was computed from the record it finds.                                   *)

\* A copy that has the record's version has its value, and is not archived: what
\* either path computed from it is what it would compute from the record.
LEMMA GuardMeansCurrent ==
  ASSUME TypeOK, CopiesTrail, layer.atomic, NEW c \in Client, Guard(c),
         copy[c] # Absent
  PROVE  /\ VR!Live(record)
         /\ NextOf(c) = VR!Updated(record) /\ Planned(c) = VR!Updated(record)
<1>1. record \in Record /\ copy[c] \in Record
  BY DEF TypeOK, Shape, Guard
<1>2. record # Absent /\ record.ver = copy[c].ver
  BY DEF Guard
<1>3. ~record.archived
  BY <1>1, <1>2 DEF CopiesTrail, Record
<1>4. record.n = copy[c].n
  BY <1>1, <1>2, <1>3 DEF CopiesTrail, Record
<1>. QED
  BY <1>1, <1>2, <1>3, <1>4 DEF NextOf, Planned, VR!Live, VR!Updated, Record

\* Every step writes the record as VersionedRecord says, or not at all.
LEMMA StepWritesLocked ==
  ASSUME TypeOK, CopiesTrail, layer.atomic, [Next]_vars
  PROVE  [VR!Next]_record
<1>. USE DEF VR!Next, VR!Write, VR!Archive, VR!Delete
<1>1. CASE UNCHANGED vars
  BY <1>1 DEF vars
<1>2. ASSUME NEW c \in Client,
             (\E a \in Action : Read(c, a)) \/ FindNothing(c) \/ Proceed(c) \/ BreakOff(c)
      PROVE  [VR!Next]_record
  <2>0. Held(c) /\ pc[c] # "checked" /\ (archives[c] => VR!Live(record))
    BY DEF TypeOK, CopiesTrail
  <2>1. CASE UpdateAtomically(c)
    <3>1. CASE Selected(c)
      <4>1. copy[c] # Absent
        BY <2>0, <2>1 DEF UpdateAtomically, Held
      <4>. QED
        BY <2>1, <3>1, <4>1, GuardMeansCurrent DEF UpdateAtomically, Selected
    <3>. QED
      BY <2>1, <3>1 DEF UpdateAtomically
  <2>2. CASE UpdateGuarded(c)
    <3>1. CASE Guard(c)
      <4>1. copy[c] # Absent
        BY <2>0, <2>2 DEF UpdateGuarded, Guarded, Held
      <4>. QED
        BY <2>2, <3>1, <4>1, GuardMeansCurrent DEF UpdateGuarded
    <3>. QED
      BY <2>2, <3>1 DEF UpdateGuarded
  <2>3. CASE Archive(c)
    BY <2>3 DEF Archive, Selected, WriteArchive, ArchivedBy, VR!Archived
  <2>4. CASE FinishArchive(c)
    BY <2>0, <2>4 DEF FinishArchive, Ready, Held, HoldsRow, ArchivedBy, VR!Archived
  <2>5. CASE DestroyGuarded(c)
    <3>1. CASE Guard(c)
      <4>1. copy[c] # Absent
        BY <2>0, <2>5 DEF DestroyGuarded, Ready, Held
      <4>. QED
        BY <2>5, <3>1, <4>1, GuardMeansCurrent DEF DestroyGuarded
    <3>. QED
      BY <2>5, <3>1 DEF DestroyGuarded
  <2>6. ~UpdateChecked(c) /\ ~ArchiveChecked(c) /\ ~DestroyChecked(c)
    BY <2>0 DEF UpdateChecked, ArchiveChecked, DestroyChecked
  <2>7. CASE (\E a \in Action : Read(c, a)) \/ FindNothing(c) \/ Unchanged(c)
             \/ CheckUpdate(c) \/ StaleOrMissing(c) \/ CheckArchive(c)
    BY <2>7 DEF Read, FindNothing, Unchanged, CheckUpdate, StaleOrMissing, CheckArchive
  <2>8. CASE CheckLock(c) \/ FindRelated(c) \/ DestroyRelated(c) \/ CheckDestroy(c)
             \/ BreakOff(c)
    BY <2>8 DEF CheckLock, FindRelated, DestroyRelated, CheckDestroy, BreakOff
  <2>. QED
    BY <1>2, <2>1, <2>2, <2>3, <2>4, <2>5, <2>6, <2>7, <2>8 DEF Proceed
<1>. QED
  BY <1>1, <1>2 DEF Next

LEMMA TrailInit == Init => CopiesTrail
  BY AbsentAssumption DEF Init, CopiesTrail, VR!Live, Record

\* Copies are read from a live record, and writes to it are locked.
LEMMA TrailKept ==
  ASSUME TypeOK, CopiesTrail, layer.atomic, [VR!Next]_record, layer' = layer,
         \A d \in Client : copy'[d] = copy[d]
                           \/ (copy'[d] = record /\ VR!Live(record) /\ record' = record),
         \A d \in Client : pc'[d] # "checked",
         \A d \in Client : archives'[d] => VR!Live(record)'
  PROVE  CopiesTrail'
<1>1. record \in Record \cup {Absent} /\ \A d \in Client : copy[d] \in Record \cup {Absent}
  BY DEF TypeOK, Shape
<1>2. record' # Absent =>
        /\ record # Absent /\ record' \in Record
        /\ record'.ver = 1 + record'.n + (IF record'.archived THEN 1 ELSE 0)
        /\ record' = record \/ record'.ver = record.ver + 1
  <2>1. record # Absent =>
          record.ver = 1 + record.n + (IF record.archived THEN 1 ELSE 0)
    BY DEF CopiesTrail
  <2>2. CASE record' = record
    BY <1>1, <2>1, <2>2
  <2>3. CASE VR!Write
    BY <1>1, <2>1, <2>3 DEF Record, VR!Write, VR!Live, VR!Updated
  <2>4. CASE VR!Archive
    BY <1>1, <2>1, <2>4 DEF Record, VR!Archive, VR!Live, VR!Archived
  <2>5. CASE VR!Delete
    BY <2>5 DEF VR!Delete
  <2>. QED
    BY <2>2, <2>3, <2>4, <2>5 DEF VR!Next
<1>3. ASSUME NEW d \in Client, copy'[d] # Absent
      PROVE  /\ copy'[d].ver = 1 + copy'[d].n
             /\ record' # Absent => copy'[d].ver <= record'.ver
             /\ record' # Absent /\ record'.archived => copy'[d].ver < record'.ver
  <2>1. CASE copy'[d] = copy[d]
    <3>1. copy[d] \in Record /\ copy[d].ver = 1 + copy[d].n
      BY <1>1, <1>3, <2>1 DEF CopiesTrail
    <3>2. CASE record' = record
      BY <1>3, <2>1, <3>2 DEF CopiesTrail
    <3>3. CASE record' # Absent /\ record' # record
      <4>1. copy[d].ver <= record.ver /\ record'.ver = record.ver + 1 /\ record \in Record
        BY <1>1, <1>2, <1>3, <2>1, <3>3 DEF CopiesTrail
      <4>. QED
        BY <2>1, <3>1, <4>1 DEF Record
    <3>. QED
      BY <2>1, <3>1, <3>2, <3>3
  <2>2. CASE copy'[d] = record /\ VR!Live(record) /\ record' = record
    BY <1>1, <2>2 DEF CopiesTrail, Record, VR!Live
  <2>. QED
    BY <2>1, <2>2
<1>. QED
  BY <1>2, <1>3 DEF CopiesTrail

\* A step that changes neither the record nor, but to end it, a hold on it.
LEMMA TrailUntouched ==
  ASSUME TypeOK, CopiesTrail, layer.atomic, UNCHANGED <<layer, record, copy>>,
         \A d \in Client : pc'[d] # "checked",
         \A d \in Client : archives'[d] => archives[d]
  PROVE  CopiesTrail'
<1>1. \A d \in Client : archives'[d] => VR!Live(record)'
  BY DEF CopiesTrail, VR!Live
<1>. QED
  BY <1>1, TrailKept

\* A step that writes a record nobody else holds, and leaves it held by none.
LEMMA TrailWritten ==
  ASSUME TypeOK, CopiesTrail, layer.atomic, [VR!Next]_record,
         UNCHANGED <<layer, copy>>, NEW c \in Client, RowFree(c), ~archives'[c],
         \A d \in Client : pc'[d] # "checked",
         \A d \in Client : archives'[d] => archives[d]
  PROVE  CopiesTrail'
<1>1. \A d \in Client : ~archives'[d]
  BY DEF RowFree, HoldsRow
<1>. QED
  BY <1>1, TrailKept

\* How a step moves c, and no one else.
LEMMA MovesOn ==
  ASSUME TypeOK, CopiesTrail, layer.atomic, NEW c \in Client, NEW to,
         Move(c, to), to # "checked"
  PROVE  \A d \in Client : pc'[d] # "checked"
  BY DEF TypeOK, Shape, Move, CopiesTrail

LEMMA LetsGo ==
  ASSUME TypeOK, NEW c \in Client, archives' = [archives EXCEPT ![c] = FALSE]
  PROVE  ~archives'[c] /\ \A d \in Client : archives'[d] => archives[d]
  BY DEF TypeOK, Shape

LEMMA TrailNext ==
  ASSUME TypeOK, CopiesTrail, layer.atomic, [Next]_vars
  PROVE  CopiesTrail'
<1>0. [VR!Next]_record
  BY StepWritesLocked
<1>1. CASE UNCHANGED vars
  BY <1>1, TrailUntouched DEF vars, CopiesTrail
<1>2. ASSUME NEW c \in Client,
             (\E a \in Action : Read(c, a)) \/ FindNothing(c) \/ Proceed(c) \/ BreakOff(c)
      PROVE  CopiesTrail'
  <2>0. Held(c) /\ pc[c] # "checked"
    BY DEF TypeOK, CopiesTrail
  <2>1. ASSUME NEW result, Fail(c, result), UNCHANGED <<layer, record, copy>>
        PROVE  CopiesTrail'
    <3>1. \A d \in Client : pc'[d] # "checked"
      BY <2>1, MovesOn DEF Fail, Return
    <3>. QED
      BY <2>1, <3>1, LetsGo, TrailUntouched DEF Fail
  <2>2. ASSUME NEW to, Move(c, to), to # "checked",
               UNCHANGED <<layer, record, copy, archives>>
        PROVE  CopiesTrail'
    BY <2>2, MovesOn, TrailUntouched
  <2>3. ASSUME NEW a \in Action, Read(c, a)
        PROVE  CopiesTrail'
    <3>1. \A d \in Client : pc'[d] # "checked"
      BY <2>3, MovesOn DEF Read
    <3>2. \A d \in Client : copy'[d] = copy[d] \/ (copy'[d] = record /\ record' = record)
      BY <2>3 DEF TypeOK, Shape, Read
    <3>3. VR!Live(record)' /\ VR!Live(record)
      BY <2>3 DEF Read, VR!Live
    <3>. QED
      BY <1>0, <2>3, <3>1, <3>2, <3>3, TrailKept DEF Read
  <2>4. CASE FindNothing(c)
    BY <2>2, <2>4 DEF FindNothing, Return
  <2>5. CASE UpdateAtomically(c)
    <3>1. \A d \in Client : pc'[d] # "checked"
      BY <2>5, MovesOn DEF UpdateAtomically, Return
    <3>2. ~archives[c]
      BY <2>0, <2>5 DEF UpdateAtomically, Held, HoldsRow
    <3>. QED
      BY <1>0, <2>5, <3>1, <3>2, TrailWritten DEF UpdateAtomically
  <2>6. CASE UpdateGuarded(c)
    <3>1. \A d \in Client : pc'[d] # "checked"
      BY <2>6, MovesOn DEF UpdateGuarded, Return
    <3>2. ~archives[c]
      BY <2>0, <2>6 DEF UpdateGuarded, Guarded, Held, HoldsRow
    <3>. QED
      BY <1>0, <2>6, <3>1, <3>2, TrailWritten DEF UpdateGuarded
  <2>7. CASE Archive(c)
    <3>1. \A d \in Client : pc'[d] # "checked"
      BY <2>7, MovesOn DEF Archive, WriteArchive, Return
    <3>2. ~archives[c]
      BY <2>0, <2>7 DEF Archive, Held, HoldsRow
    <3>3. CASE archives' = archives
      BY <1>0, <2>7, <3>1, <3>2, <3>3, TrailWritten DEF Archive
    <3>4. CASE archives' # archives
      <4>1. VR!Live(record) /\ record' = record /\ copy' = copy /\ layer' = layer
        BY <2>7, <3>4 DEF Archive, Selected, WriteArchive
      <4>2. VR!Live(record)'
        BY <4>1 DEF VR!Live
      <4>. QED
        BY <1>0, <3>1, <4>1, <4>2, TrailKept
    <3>. QED
      BY <3>3, <3>4
  <2>8. CASE FinishArchive(c)
    <3>1. \A d \in Client : pc'[d] # "checked"
      BY <2>8, MovesOn DEF FinishArchive, Succeed, Return
    <3>2. RowFree(c)
      BY <2>0, <2>8 DEF FinishArchive, Ready, TypeOK, Held, HoldsRow, RowFree
    <3>. QED
      BY <1>0, <2>8, <3>1, <3>2, LetsGo, TrailWritten DEF FinishArchive, Succeed
  <2>9. CASE DestroyGuarded(c)
    <3>1. \A d \in Client : pc'[d] # "checked"
      BY <2>9, MovesOn DEF DestroyGuarded, Succeed, Return
    <3>2. CASE Guard(c)
      BY <1>0, <2>9, <3>1, <3>2, LetsGo, TrailWritten DEF DestroyGuarded, Succeed
    <3>3. CASE ~Guard(c)
      BY <2>2, <2>9, <3>3 DEF DestroyGuarded
    <3>. QED
      BY <3>2, <3>3
  <2>10. CASE DestroyRelated(c)
    <3>1. \A d \in Client : pc'[d] # "checked"
      BY <2>10, MovesOn DEF DestroyRelated, Fail, Return, CopiesTrail
    <3>. QED
      BY <2>1, <2>10, <3>1, TrailUntouched DEF DestroyRelated
  <2>11. CASE CheckLock(c) \/ FindRelated(c)
    BY <2>2, <2>11 DEF CheckLock, FindRelated
  <2>12. CASE Unchanged(c) \/ StaleOrMissing(c) \/ BreakOff(c)
    BY <2>1, <2>12 DEF Unchanged, StaleOrMissing, BreakOff
  <2>13. /\ ~UpdateChecked(c) /\ ~ArchiveChecked(c) /\ ~DestroyChecked(c)
         /\ ~CheckUpdate(c) /\ ~CheckArchive(c) /\ ~CheckDestroy(c)
    BY <2>0 DEF UpdateChecked, ArchiveChecked, DestroyChecked, CheckUpdate,
       CheckArchive, CheckDestroy
  <2>. QED
    BY <1>2, <2>3, <2>4, <2>5, <2>6, <2>7, <2>8, <2>9, <2>10, <2>11, <2>12, <2>13
       DEF Proceed
<1>. QED
  BY <1>1, <1>2 DEF Next

LEMMA LayerStays == [Next]_vars => layer' = layer
<1>1. ASSUME NEW c \in Client,
             (\E a \in Action : Read(c, a)) \/ FindNothing(c) \/ BreakOff(c)
      PROVE  layer' = layer
  BY <1>1 DEF Read, FindNothing, BreakOff
<1>2. ASSUME NEW c \in Client, Proceed(c)
      PROVE  layer' = layer
  <2>1. CASE UpdateAtomically(c) \/ Unchanged(c) \/ UpdateGuarded(c) \/ CheckUpdate(c)
             \/ UpdateChecked(c) \/ StaleOrMissing(c)
    BY <2>1 DEF UpdateAtomically, Unchanged, UpdateGuarded, CheckUpdate, UpdateChecked,
       StaleOrMissing
  <2>2. CASE Archive(c) \/ CheckArchive(c) \/ ArchiveChecked(c) \/ FinishArchive(c)
    BY <2>2 DEF Archive, CheckArchive, ArchiveChecked, FinishArchive
  <2>3. CASE CheckLock(c) \/ FindRelated(c) \/ DestroyRelated(c) \/ DestroyGuarded(c)
             \/ CheckDestroy(c) \/ DestroyChecked(c)
    BY <2>3 DEF CheckLock, FindRelated, DestroyRelated, DestroyGuarded, CheckDestroy,
       DestroyChecked
  <2>. QED
    BY <1>2, <2>1, <2>2, <2>3 DEF Proceed
<1>. QED
  BY <1>1, <1>2 DEF Next, vars

\* A copy with the record's version has its value: what makes a guard enough.
THEOREM CopiesTrailTheRecord == Spec => []CopiesTrail
<1>1. TypeOK /\ CopiesTrail /\ [Next]_vars => CopiesTrail'
  <2>1. CASE layer.atomic
    BY <2>1, TrailNext
  <2>2. CASE ~layer.atomic
    BY <2>2, LayerStays DEF CopiesTrail
  <2>. QED
    BY <2>1, <2>2
<1>. QED
  BY <1>1, TrailInit, TypeCorrect, PTL DEF Spec

\* Where a write is one statement, the record is VersionedRecord's, whatever
\* the callers' paths: guarded, planned, archived or deleted.
THEOREM WritesAreLocked == Spec => LockedWritesOnly
<1>1. TypeOK /\ CopiesTrail /\ [Next]_vars => [layer.atomic => [VR!Next]_record]_vars
  BY StepWritesLocked
<1>. QED
  BY <1>1, TypeCorrect, CopiesTrailTheRecord, PTL DEF Spec, LockedWritesOnly

\* So such a layer, under any callers, implements VersionedRecord.
THEOREM ImplementsVersionedRecord == Spec /\ layer.atomic => VR!Spec
<1>1. Init => VR!Init
  BY DEF Init, VR!Init
<1>2. layer.atomic /\ [Next]_vars => (layer.atomic)'
  BY LayerStays
<1>3. TypeOK /\ CopiesTrail /\ layer.atomic /\ [Next]_vars => [VR!Next]_record
  BY StepWritesLocked
<1>. QED
  BY <1>1, <1>2, <1>3, TypeCorrect, CopiesTrailTheRecord, PTL DEF Spec, VR!Spec

-----------------------------------------------------------------------------
(* Failures.                                                                *)

\* What one client does next.
Step(c) == (\E a \in Action : Read(c, a)) \/ FindNothing(c) \/ Proceed(c) \/ BreakOff(c)

\* The record is no longer the one c read.
Outdated(c) == record = Absent \/ record.ver > copy[c].ver

\* An attempt whose statement changed nothing, or whose guard found nothing,
\* has a copy the record has left behind for good; so has one told it is stale.
Lost ==
  layer.atomic => \A c \in Client :
    pc[c] \in {"unchanged", "lost"} \/ outcome[c] = "stale" =>
      copy[c] # Absent /\ Outdated(c)

\* Nobody's attempt moves but the client's whose step it is.
LEMMA OthersStay ==
  ASSUME TypeOK, NEW c \in Client, Step(c), NEW d \in Client, d # c
  PROVE  /\ pc'[d] = pc[d] /\ action'[d] = action[d] /\ copy'[d] = copy[d]
         /\ todo'[d] = todo[d] /\ removed'[d] = removed[d] /\ outcome'[d] = outcome[d]
<1>. USE DEF TypeOK, Shape, Return, Move
<1>1. CASE (\E a \in Action : Read(c, a)) \/ FindNothing(c)
  BY <1>1 DEF Read, FindNothing
<1>2. CASE UpdateAtomically(c) \/ UpdateGuarded(c) \/ CheckUpdate(c) \/ UpdateChecked(c)
  BY <1>2 DEF UpdateAtomically, UpdateGuarded, CheckUpdate, UpdateChecked
<1>3. CASE Unchanged(c) \/ StaleOrMissing(c) \/ BreakOff(c)
  BY <1>3 DEF Unchanged, StaleOrMissing, BreakOff, Fail
<1>4. CASE Archive(c) \/ CheckArchive(c) \/ ArchiveChecked(c) \/ FinishArchive(c)
  BY <1>4 DEF Archive, CheckArchive, ArchiveChecked, FinishArchive, WriteArchive, Fail, Succeed
<1>5. CASE CheckLock(c) \/ FindRelated(c) \/ DestroyRelated(c)
  BY <1>5 DEF CheckLock, FindRelated, DestroyRelated, Fail
<1>6. CASE DestroyGuarded(c) \/ CheckDestroy(c) \/ DestroyChecked(c)
  BY <1>6 DEF DestroyGuarded, CheckDestroy, DestroyChecked, Fail, Succeed
<1>. QED
  BY <1>1, <1>2, <1>3, <1>4, <1>5, <1>6 DEF Step, Proceed

\* A guard that does not hold, or a record that is not live, is one written
\* since it was read.
LEMMA NoGuardIsOutdated ==
  ASSUME TypeOK, CopiesTrail, layer.atomic, NEW c \in Client, copy[c] # Absent,
         ~Guard(c) \/ ~VR!Live(record)
  PROVE  Outdated(c)
<1>. SUFFICES ASSUME record # Absent
              PROVE  record.ver > copy[c].ver
  BY DEF Outdated
<1>1. record \in Record /\ copy[c] \in Record
  BY DEF TypeOK, Shape
<1>2. record.ver \in Nat /\ copy[c].ver \in Nat /\ record.archived \in BOOLEAN
  BY <1>1 DEF Record
<1>3. copy[c].ver <= record.ver /\ (record.archived => copy[c].ver < record.ver)
  BY DEF CopiesTrail
<1>4. record.ver # copy[c].ver \/ record.archived
  BY DEF Guard, VR!Live
<1>. QED
  BY <1>2, <1>3, <1>4

\* What was outdated stays so, and what is not live is not live again.
LEMMA OutdatedStays ==
  ASSUME TypeOK, [VR!Next]_record
  PROVE  /\ VR!Live(record)' => VR!Live(record)
         /\ \A c \in Client :
              Outdated(c) /\ copy'[c] = copy[c] /\ copy[c] # Absent => Outdated(c)'
<1>1. record # Absent => record \in Record /\ record.ver \in Nat
  BY DEF TypeOK, Shape, Record
<1>2. \A c \in Client : copy[c] # Absent => copy[c].ver \in Nat
  BY DEF TypeOK, Shape, Record
<1>3. \/ record' = record
      \/ record # Absent /\ VR!Live(record) /\ record'.ver = record.ver + 1
      \/ record' = Absent /\ VR!Live(record)
  BY DEF VR!Next, VR!Write, VR!Archive, VR!Delete, VR!Updated, VR!Archived, VR!Live
<1>4. VR!Live(record)' => VR!Live(record)
  BY <1>3 DEF VR!Live
<1>5. ASSUME NEW c \in Client, Outdated(c), copy'[c] = copy[c], copy[c] # Absent
      PROVE  Outdated(c)'
  <2>1. CASE record' = record
    BY <1>5, <2>1 DEF Outdated
  <2>2. CASE record # Absent /\ record'.ver = record.ver + 1
    <3>1. record.ver > copy[c].ver /\ record.ver \in Nat /\ copy[c].ver \in Nat
      BY <1>1, <1>2, <1>5, <2>2 DEF Outdated
    <3>2. record'.ver > copy'[c].ver
      BY <1>5, <2>2, <3>1
    <3>. QED
      BY <3>2 DEF Outdated
  <2>3. CASE record' = Absent
    BY <2>3 DEF Outdated
  <2>. QED
    BY <1>3, <2>1, <2>2, <2>3
<1>. QED
  BY <1>4, <1>5

\* Where a transaction takes the related records, a live record has them all.
Whole == layer.transacts /\ VR!Live(record) => related = Related

\* What c's own step may say of it: it goes on as lost or unchanged, or returns
\* "stale", only with an outdated copy; that it or a related record is missing,
\* but for a destroy that ran in no transaction, only where nothing is live.
Truly(c) ==
  /\ pc'[c] \in {"unchanged", "lost"} =>
       copy'[c] = copy[c] /\ copy[c] # Absent /\ Outdated(c)
  /\ outcome'[c] = "stale" =>
       copy'[c] = copy[c] /\ copy[c] # Absent /\ Outdated(c)
  /\ outcome'[c] \in {"notfound", "stalechild"} =>
       \/ outcome[c] = outcome'[c] /\ action'[c] = action[c]
       \/ ~VR!Live(record)
       \/ action'[c] = action[c] /\ Destroys(c) /\ ~layer.transacts

LEMMA ToldTruly ==
  ASSUME TypeOK, CopiesTrail, Lost, Whole, layer.atomic, NEW c \in Client, Step(c)
  PROVE  Truly(c)
<1>0. /\ Held(c) /\ pc[c] # "checked"
      /\ pc[c] # "idle" => copy[c] # Absent
      /\ pc[c] \in {"unchanged", "lost"} \/ outcome[c] = "stale" =>
           copy[c] # Absent /\ Outdated(c)
      /\ DOMAIN pc = Client /\ DOMAIN outcome = Client
  BY DEF TypeOK, Shape, CopiesTrail, Lost, Held
<1>1. ASSUME NEW a \in Action, Read(c, a)
      PROVE  Truly(c)
  BY <1>1 DEF Read, Move, TypeOK, Shape, Truly
<1>2. CASE FindNothing(c)
  BY <1>0, <1>2 DEF FindNothing, Return, Move, Truly
<1>3. CASE UpdateAtomically(c)
  <2>1. CASE Selected(c)
    BY <1>0, <1>3, <2>1 DEF UpdateAtomically, Return, Move, Truly
  <2>2. CASE ~Selected(c)
    <3>1. Outdated(c)
      BY <1>0, <1>3, <2>2, NoGuardIsOutdated DEF UpdateAtomically, Selected
    <3>. QED
      BY <1>0, <1>3, <2>2, <3>1 DEF UpdateAtomically, Return, Move, Truly
  <2>. QED
    BY <2>1, <2>2
<1>4. CASE Unchanged(c)
  <2>1. /\ Outdated(c) /\ pc'[c] = "idle" /\ UNCHANGED <<record, copy>>
        /\ outcome'[c] = IF record # Absent /\ record.ver # copy[c].ver THEN "stale"
                                                                       ELSE "notfound"
    BY <1>0, <1>4 DEF Unchanged, Fail, Return, Move
  <2>2. record # Absent => record.ver # copy[c].ver
    <3>1. record # Absent => record.ver \in Nat /\ copy[c].ver \in Nat
      BY <1>0, <1>4 DEF Unchanged, TypeOK, Shape, Record
    <3>. QED
      BY <2>1, <3>1 DEF Outdated
  <2>3. copy[c] # Absent
    BY <1>0, <1>4 DEF Unchanged
  <2>. QED
    BY <2>1, <2>2, <2>3 DEF Truly, VR!Live
<1>5. CASE UpdateGuarded(c)
  <2>1. CASE Guard(c)
    BY <1>0, <1>5, <2>1 DEF UpdateGuarded, Guarded, Return, Move, Truly
  <2>2. CASE ~Guard(c)
    <3>1. Outdated(c)
      BY <1>0, <1>5, <2>2, NoGuardIsOutdated DEF UpdateGuarded, Guarded
    <3>. QED
      BY <1>0, <1>5, <2>2, <3>1 DEF UpdateGuarded, Guarded, Move, Truly
  <2>. QED
    BY <2>1, <2>2
<1>6. CASE StaleOrMissing(c)
  <2>1. /\ Outdated(c) /\ pc'[c] = "idle" /\ UNCHANGED <<record, copy>>
        /\ outcome'[c] = IF record # Absent THEN "stale" ELSE "notfound"
    BY <1>0, <1>6 DEF StaleOrMissing, Fail, Return, Move
  <2>2. copy[c] # Absent
    BY <1>0, <1>6 DEF StaleOrMissing
  <2>. QED
    BY <2>1, <2>2 DEF Truly, VR!Live
<1>7. CASE Archive(c)
  <2>1. CASE Selected(c)
    BY <1>0, <1>7, <2>1 DEF Archive, WriteArchive, Move, Truly
  <2>2. CASE ~Selected(c)
    <3>1. Outdated(c)
      BY <1>0, <1>7, <2>2, NoGuardIsOutdated DEF Archive, Selected
    <3>. QED
      BY <1>0, <1>7, <2>2, <3>1 DEF Archive, Return, Move, Truly
  <2>. QED
    BY <2>1, <2>2
<1>8. CASE CheckLock(c)
  <2>1. CASE Guard(c)
    BY <1>0, <1>8, <2>1 DEF CheckLock, Move, Truly
  <2>2. CASE ~Guard(c)
    <3>1. Outdated(c)
      BY <1>0, <1>8, <2>2, NoGuardIsOutdated DEF CheckLock
    <3>. QED
      BY <1>0, <1>8, <3>1 DEF CheckLock, Move, Truly
  <2>. QED
    BY <2>1, <2>2
<1>9. CASE FindRelated(c)
  BY <1>0, <1>9 DEF FindRelated, Move, Truly
<1>10. CASE DestroyRelated(c)
  <2>1. CASE Head(todo[c]) \in related
    BY <1>0, <1>10, <2>1 DEF DestroyRelated, Truly
  <2>2. CASE Head(todo[c]) \notin related
    <3>1. Head(todo[c]) \in Related
      BY <1>10 DEF DestroyRelated, TypeOK, Shape
    <3>2. ~(layer.transacts /\ VR!Live(record))
      BY <2>2, <3>1 DEF Whole
    <3>3. Destroys(c) /\ action' = action
      BY <1>0, <1>10 DEF DestroyRelated, Held
    <3>4. pc'[c] = "idle" /\ outcome'[c] \in {"notfound", "stalechild"}
      BY <1>0, <1>10, <2>2 DEF DestroyRelated, Fail, Return, Move
    <3>. QED
      BY <3>2, <3>3, <3>4 DEF Truly
  <2>. QED
    BY <2>1, <2>2
<1>11. CASE FinishArchive(c)
  BY <1>0, <1>11 DEF FinishArchive, Succeed, Return, Move, Truly
<1>12. CASE DestroyGuarded(c)
  <2>1. CASE Guard(c)
    BY <1>0, <1>12, <2>1 DEF DestroyGuarded, Succeed, Return, Move, Truly
  <2>2. CASE ~Guard(c)
    <3>1. Outdated(c)
      BY <1>0, <1>12, <2>2, NoGuardIsOutdated DEF DestroyGuarded, Ready
    <3>. QED
      BY <1>0, <1>12, <2>2, <3>1 DEF DestroyGuarded, Ready, Move, Truly
  <2>. QED
    BY <2>1, <2>2
<1>13. CASE BreakOff(c)
  BY <1>0, <1>13 DEF BreakOff, Fail, Return, Move, Truly
<1>14. /\ ~UpdateChecked(c) /\ ~ArchiveChecked(c) /\ ~DestroyChecked(c)
       /\ ~CheckUpdate(c) /\ ~CheckArchive(c) /\ ~CheckDestroy(c)
  BY <1>0 DEF UpdateChecked, ArchiveChecked, DestroyChecked, CheckUpdate,
     CheckArchive, CheckDestroy
<1>. QED
  BY <1>1, <1>2, <1>3, <1>4, <1>5, <1>6, <1>7, <1>8, <1>9, <1>10, <1>11, <1>12, <1>13,
     <1>14 DEF Step, Proceed

\* Whoever steps, what an attempt was told of its failure stays true.
LEMMA FailuresNext ==
  ASSUME TypeOK, CopiesTrail, Lost, Whole, FailuresAreTrue, layer.atomic, [Next]_vars
  PROVE  Lost' /\ FailuresAreTrue'
<1>0. /\ [VR!Next]_record /\ layer' = layer
      /\ VR!Live(record)' => VR!Live(record)
  BY StepWritesLocked, LayerStays, OutdatedStays
<1>1. CASE UNCHANGED vars
  BY <1>1 DEF vars, Lost, FailuresAreTrue, Outdated, VR!Live, Destroys
<1>2. ASSUME NEW c \in Client, Step(c)
      PROVE  Lost' /\ FailuresAreTrue'
  <2>1. Truly(c)
    BY <1>2, ToldTruly
  <2>2. ASSUME NEW d \in Client, pc'[d] \in {"unchanged", "lost"} \/ outcome'[d] = "stale"
        PROVE  copy'[d] # Absent /\ Outdated(d)'
    <3>1. copy'[d] = copy[d] /\ copy[d] # Absent /\ Outdated(d)
      <4>1. CASE d = c
        BY <2>1, <2>2, <4>1 DEF Truly
      <4>2. CASE d # c
        <5>1. pc'[d] = pc[d] /\ outcome'[d] = outcome[d] /\ copy'[d] = copy[d]
          BY <1>2, <4>2, OthersStay
        <5>. QED
          BY <2>2, <5>1 DEF Lost
      <4>. QED
        BY <4>1, <4>2
    <3>. QED
      BY <1>0, <3>1, OutdatedStays
  <2>3. ASSUME NEW d \in Client, outcome'[d] \in {"notfound", "stalechild"},
               Destroys(d)' => layer.transacts
        PROVE  ~VR!Live(record)
    <3>1. CASE d = c
      <4>1. action'[c] = action[c] => (Destroys(c)' <=> Destroys(c))
        BY DEF Destroys
      <4>. QED
        BY <2>1, <2>3, <3>1, <4>1 DEF Truly, FailuresAreTrue
    <3>2. CASE d # c
      <4>1. outcome'[d] = outcome[d] /\ action'[d] = action[d]
        BY <1>2, <3>2, OthersStay
      <4>. QED
        BY <2>3, <4>1 DEF FailuresAreTrue, Destroys
    <3>. QED
      BY <3>1, <3>2
  <2>4. Lost'
    BY <2>2 DEF Lost
  <2>5. FailuresAreTrue'
    BY <1>0, <2>2, <2>3 DEF FailuresAreTrue, Outdated
  <2>. QED
    BY <2>4, <2>5
<1>. QED
  BY <1>1, <1>2 DEF Next, Step

-----------------------------------------------------------------------------
(* The related records.                                                     *)

\* The records a query found, which are all there are.
Listed(c) == {todo[c][i] : i \in DOMAIN todo[c]}

LEMMA OrdersListAll ==
  ASSUME NEW S \in SUBSET Related, NEW o \in Orders(S)
  PROVE  S \subseteq {o[i] : i \in DOMAIN o}
<1>1. IsFiniteSet(S) /\ Cardinality(S) \in Nat
  BY RelatedAssumption, FS_Subset, FS_CardinalityType
<1>2. PICK n \in Nat : n = Cardinality(S)
  BY <1>1
<1>3. o \in [1..n -> S] /\ \A i, j \in 1..n : o[i] = o[j] => i = j
  BY <1>2 DEF Orders
<1>4. o \in Injection(1..n, S)
  BY <1>3 DEF Injection, IsInjective
<1>5. Cardinality(1..n) = n
  BY FS_Interval
<1>6. o \in Surjection(1..n, S)
  BY <1>1, <1>2, <1>4, <1>5, FS_Injection
<1>. QED
  BY <1>3, <1>6 DEF Surjection

\* c's destroy has found the related records and not done its last write.
Finishing(c) == pc[c] = "cascading" \/ (pc[c] = "checked" /\ action[c] = "destroy")

\* While the record lives, what a destroy has found and what it has removed are
\* together all the related records, so one with nothing left to do took them all.
Cascades(c) ==
  /\ pc[c] = "checked" /\ action[c] = "destroy" => todo[c] = <<>>
  /\ Finishing(c) /\ VR!Live(record) => Related \subseteq Listed(c) \cup removed[c]

\* A record that is gone has left none of its related records.
Gone == layer.transacts /\ ~VR!Live(record) => related = {}

\* Nothing brings a record back.
LEMMA LiveStays ==
  ASSUME TypeOK, NEW c \in Client, Step(c), VR!Live(record)'
  PROVE  VR!Live(record)
<1>. USE DEF VR!Live
<1>1. CASE (\E a \in Action : Read(c, a)) \/ FindNothing(c) \/ Unchanged(c) \/ BreakOff(c)
  BY <1>1 DEF Read, FindNothing, Unchanged, BreakOff
<1>2. CASE UpdateAtomically(c)
  BY <1>2 DEF UpdateAtomically, Selected
<1>3. CASE UpdateGuarded(c) \/ UpdateChecked(c)
  BY <1>3 DEF UpdateGuarded, UpdateChecked, Guard, NextOf
<1>4. CASE CheckUpdate(c) \/ StaleOrMissing(c) \/ CheckArchive(c) \/ CheckLock(c)
  BY <1>4 DEF CheckUpdate, StaleOrMissing, CheckArchive, CheckLock
<1>5. CASE Archive(c) \/ ArchiveChecked(c) \/ FinishArchive(c)
  BY <1>5 DEF Archive, ArchiveChecked, FinishArchive, WriteArchive, ArchivedBy
<1>6. CASE FindRelated(c) \/ DestroyRelated(c) \/ CheckDestroy(c)
  BY <1>6 DEF FindRelated, DestroyRelated, CheckDestroy
<1>7. CASE DestroyGuarded(c) \/ DestroyChecked(c)
  BY <1>7 DEF DestroyGuarded, DestroyChecked
<1>. QED
  BY <1>1, <1>2, <1>3, <1>4, <1>5, <1>6, <1>7 DEF Step, Proceed

\* In a transaction the record and its related records go at once, with the last
\* write of a destroy.
LEMMA GoTogether ==
  ASSUME TypeOK, layer.transacts, NEW c \in Client, Step(c), Cascades(c)
  PROVE  \/ related' = related /\ (VR!Live(record)' <=> VR!Live(record))
         \/ /\ related' = related \ removed[c] /\ ~VR!Live(record)'
            /\ Finishing(c) /\ todo[c] = <<>>
<1>. USE DEF VR!Live
<1>0. Held(c) /\ record \in Record \cup {Absent}
  BY DEF TypeOK, Shape
<1>1. CASE (\E a \in Action : Read(c, a)) \/ FindNothing(c) \/ Unchanged(c) \/ BreakOff(c)
           \/ StaleOrMissing(c)
  BY <1>1 DEF Read, FindNothing, Unchanged, BreakOff, StaleOrMissing, Fail
<1>2. CASE UpdateAtomically(c)
  <2>1. copy[c] # Absent /\ related' = related
        /\ (record' = record \/ (record # Absent /\ record' = Planned(c)))
    BY <1>0, <1>2 DEF UpdateAtomically, Selected, Guard, Held
  <2>2. record # Absent => Planned(c) # Absent /\ Planned(c).archived = record.archived
    BY <2>1, NextRecordType DEF TypeOK, Planned
  <2>. QED
    BY <2>1, <2>2
<1>3. CASE UpdateGuarded(c) \/ UpdateChecked(c)
  <2>1. copy[c] # Absent /\ related' = related
        /\ (record' = record \/ (record # Absent /\ record' = NextOf(c)))
    BY <1>0, <1>3 DEF UpdateGuarded, UpdateChecked, Guard, Guarded, Held
  <2>2. record # Absent => NextOf(c) # Absent /\ NextOf(c).archived = record.archived
    BY <2>1, NextRecordType DEF TypeOK, NextOf
  <2>. QED
    BY <2>1, <2>2
<1>4. CASE CheckUpdate(c) \/ CheckArchive(c) \/ CheckLock(c) \/ FindRelated(c) \/ CheckDestroy(c)
  BY <1>4 DEF CheckUpdate, CheckArchive, CheckLock, FindRelated, CheckDestroy
<1>5. CASE Archive(c) \/ ArchiveChecked(c)
  BY <1>5 DEF Archive, ArchiveChecked, WriteArchive, Fail
<1>6. CASE DestroyRelated(c)
  BY <1>6 DEF DestroyRelated, Fail
<1>7. CASE FinishArchive(c)
  <2>1. related' = related \ removed[c] /\ record' = ArchivedBy(c)
        /\ Finishing(c) /\ todo[c] = <<>>
    BY <1>7 DEF FinishArchive, Ready, Succeed, Finishing
  <2>. QED
    BY <2>1 DEF ArchivedBy
<1>8. CASE DestroyGuarded(c)
  BY <1>8 DEF DestroyGuarded, Ready, Succeed, Finishing
<1>9. CASE DestroyChecked(c)
  BY <1>9 DEF DestroyChecked, Succeed, Fail, Finishing, Cascades
<1>. QED
  BY <1>1, <1>2, <1>3, <1>4, <1>5, <1>6, <1>7, <1>8, <1>9 DEF Step, Proceed

\* c's own step leaves what its destroy has to do and has done complete.
LEMMA CascadesOn ==
  ASSUME TypeOK, layer.transacts, Whole, NEW c \in Client, Step(c), Cascades(c)
  PROVE  Cascades(c)'
<1>0. /\ DOMAIN pc = Client /\ DOMAIN todo = Client /\ DOMAIN removed = Client
      /\ DOMAIN action = Client
  BY DEF TypeOK, Shape
<1>1. CASE FindRelated(c)
  <2>1. PICK o \in Orders(related) : todo'[c] = o
    BY <1>0, <1>1 DEF FindRelated
  <2>2. /\ pc'[c] = "cascading" /\ related \in SUBSET Related
        /\ UNCHANGED record
    BY <1>0, <1>1 DEF FindRelated, Move, TypeOK, Shape
  <2>3. related \subseteq Listed(c)'
    BY <2>1, <2>2, OrdersListAll DEF Listed
  <2>4. VR!Live(record)' => related = Related
    BY <2>2 DEF Whole, VR!Live
  <2>. QED
    BY <2>2, <2>3, <2>4 DEF Cascades
<1>2. CASE DestroyRelated(c) /\ Head(todo[c]) \in related
  <2>1. /\ pc[c] = "cascading" /\ todo[c] # <<>> /\ UNCHANGED <<record, pc, action>>
        /\ todo'[c] = Tail(todo[c]) /\ removed'[c] = removed[c] \cup {Head(todo[c])}
    BY <1>0, <1>2 DEF DestroyRelated
  <2>2. PICK n \in Nat : /\ n = Len(todo[c]) /\ DOMAIN todo[c] = 1..n
                         /\ DOMAIN Tail(todo[c]) = 1..n - 1
                         /\ \A i \in 1..n - 1 : Tail(todo[c])[i] = todo[c][i + 1]
                         /\ Head(todo[c]) = todo[c][1]
    <3>1. todo[c] \in Seq(Related)
      BY DEF TypeOK, Shape
    <3>. QED
      BY <2>1, <3>1
  <2>3. ASSUME NEW i \in 1..n
        PROVE  todo[c][i] \in Listed(c)' \cup {Head(todo[c])}
    <3>1. CASE i = 1
      BY <2>2, <3>1
    <3>2. CASE i # 1
      <4>1. PICK j \in 1..n - 1 : i = j + 1
        BY <3>2
      <4>. QED
        BY <2>1, <2>2, <4>1 DEF Listed
    <3>. QED
      BY <3>1, <3>2
  <2>4. Listed(c) \subseteq Listed(c)' \cup {Head(todo[c])}
    BY <2>2, <2>3 DEF Listed
  <2>5. Listed(c) \cup removed[c] \subseteq Listed(c)' \cup removed'[c]
    BY <2>1, <2>4
  <2>. QED
    BY <2>1, <2>5 DEF Cascades, Finishing, VR!Live
<1>3. CASE DestroyRelated(c) /\ Head(todo[c]) \notin related
  BY <1>0, <1>3 DEF DestroyRelated, Fail, Return, Move, Cascades, Finishing
<1>4. CASE CheckDestroy(c)
  <2>1. /\ pc[c] = "cascading" /\ todo[c] = <<>> /\ UNCHANGED <<record, todo, removed>>
    BY <1>4 DEF CheckDestroy, Ready
  <2>. QED
    BY <2>1 DEF Cascades, Finishing, Listed, VR!Live
<1>5. CASE CheckUpdate(c) \/ CheckArchive(c)
  <2>1. pc'[c] # "cascading" /\ action'[c] # "destroy"
    BY <1>0, <1>5 DEF CheckUpdate, CheckArchive, Guarded, Move
  <2>. QED
    BY <2>1 DEF Cascades, Finishing
<1>6. CASE UpdateAtomically(c) \/ UpdateGuarded(c) \/ UpdateChecked(c)
           \/ (\E a \in Action : Read(c, a)) \/ FindNothing(c)
  <2>1. pc'[c] \notin {"cascading", "checked"}
    BY <1>0, <1>6
       DEF UpdateAtomically, UpdateGuarded, UpdateChecked, Read, FindNothing, Return, Move
  <2>. QED
    BY <2>1 DEF Cascades, Finishing
<1>7. CASE Unchanged(c) \/ StaleOrMissing(c) \/ Archive(c) \/ ArchiveChecked(c)
           \/ CheckLock(c) \/ BreakOff(c)
  <2>1. pc'[c] \notin {"cascading", "checked"}
    BY <1>0, <1>7
       DEF Unchanged, StaleOrMissing, Archive, ArchiveChecked, WriteArchive, CheckLock,
           BreakOff, Fail, Return, Move
  <2>. QED
    BY <2>1 DEF Cascades, Finishing
<1>8. CASE FinishArchive(c) \/ DestroyGuarded(c) \/ DestroyChecked(c)
  <2>1. pc'[c] \notin {"cascading", "checked"}
    BY <1>0, <1>8
       DEF FinishArchive, DestroyGuarded, DestroyChecked, Succeed, Fail, Return, Move
  <2>. QED
    BY <2>1 DEF Cascades, Finishing
<1>. QED
  BY <1>1, <1>2, <1>3, <1>4, <1>5, <1>6, <1>7, <1>8 DEF Step, Proceed

\* The related records of a transaction's record, and the destroys under way.
Family == layer.transacts => Whole /\ \A c \in Client : Cascades(c)

LEMMA FamilyInit == Init => Family
  BY DEF Init, Family, Whole, Cascades, Finishing

LEMMA FamilyNext ==
  ASSUME TypeOK, Family, [Next]_vars
  PROVE  /\ Family'
         /\ Gone => Gone'
<1>0. layer' = layer
  BY LayerStays
<1>1. CASE UNCHANGED vars
  BY <1>1 DEF vars, Family, Whole, Gone, Cascades, Finishing, Listed, VR!Live
<1>2. CASE ~layer.transacts
  BY <1>0, <1>2 DEF Family, Gone
<1>3. ASSUME NEW c \in Client, Step(c), layer.transacts
      PROVE  /\ Family'
             /\ Gone => Gone'
  <2>0. Whole /\ \A d \in Client : Cascades(d)
    BY <1>3 DEF Family
  <2>1. \/ related' = related /\ (VR!Live(record)' <=> VR!Live(record))
        \/ /\ related' = related \ removed[c] /\ ~VR!Live(record)'
           /\ Finishing(c) /\ todo[c] = <<>>
    BY <1>3, <2>0, GoTogether
  <2>2. VR!Live(record)' => VR!Live(record)
    BY <1>3, LiveStays
  <2>3. Whole'
    BY <1>0, <2>0, <2>1 DEF Whole, VR!Live
  <2>4. ASSUME NEW d \in Client
        PROVE  Cascades(d)'
    <3>1. CASE d = c
      BY <1>3, <2>0, <3>1, CascadesOn
    <3>2. CASE d # c
      <4>1. /\ pc'[d] = pc[d] /\ action'[d] = action[d]
            /\ todo'[d] = todo[d] /\ removed'[d] = removed[d]
        BY <1>3, <3>2, OthersStay
      <4>. QED
        BY <2>0, <2>2, <4>1 DEF Cascades, Finishing, Listed
    <3>. QED
      BY <3>1, <3>2
  <2>5. ASSUME Gone
        PROVE  Gone'
    <3>1. related \subseteq Related
      BY DEF TypeOK, Shape
    <3>2. ASSUME related' = related \ removed[c], Finishing(c), todo[c] = <<>>
          PROVE  related' = {}
      <4>1. CASE VR!Live(record)
        <5>1. Listed(c) = {}
          BY <3>2 DEF Listed
        <5>2. Related \subseteq removed[c]
          BY <2>0, <3>2, <4>1, <5>1 DEF Cascades
        <5>. QED
          BY <2>5, <3>1, <3>2, <5>2
      <4>2. CASE ~VR!Live(record)
        BY <1>3, <2>5, <3>1, <3>2, <4>2 DEF Gone
      <4>. QED
        BY <4>1, <4>2
    <3>. QED
      BY <1>3, <2>1, <2>5, <3>2 DEF Gone
  <2>. QED
    BY <2>3, <2>4, <2>5 DEF Family
<1>. QED
  BY <1>1, <1>2, <1>3 DEF Next, Step

\* Whoever reads the record while a destroy of it is under way, or after, finds
\* it with all its related records or not at all; and once it is gone so are
\* all of them.
THEOREM RelatedFollowTheRecord == Spec => []RelatedGoWithTheRecord
<1>1. ASSUME Init
      PROVE  VR!Live(record)
  <2>1. record \in Record
    BY <1>1 DEF Init, Record
  <2>2. record # Absent
    BY <2>1, AbsentAssumption
  <2>3. record.archived = FALSE
    BY <1>1 DEF Init
  <2>. QED
    BY <2>2, <2>3 DEF VR!Live
<1>2. Init => Gone
  BY <1>1 DEF Gone
<1>3. TypeOK /\ Family /\ Gone /\ [Next]_vars => Gone'
  BY FamilyNext
<1>4. TypeOK /\ Family /\ [Next]_vars => Family'
  BY FamilyNext
<1>5. Family /\ Gone => RelatedGoWithTheRecord
  BY DEF Family, Whole, Gone, RelatedGoWithTheRecord
<1>. QED
  BY <1>2, <1>3, <1>4, <1>5, FamilyInit, TypeCorrect, PTL DEF Spec

\* Where a write is one statement, and however attempts interleave: one is told
\* its record is stale only when somebody wrote it since it was read, and told it,
\* or a related record, is missing only when it is not there - of a destroy, only
\* on a layer that transacts.
THEOREM FailuresToldAreTrue == Spec => []FailuresAreTrue
<1>1. Init => Lost /\ FailuresAreTrue
  BY DEF Init, Lost, FailuresAreTrue
<1>2. TypeOK /\ CopiesTrail /\ Family /\ Lost /\ FailuresAreTrue /\ [Next]_vars
        => Lost' /\ FailuresAreTrue'
  <2>1. CASE layer.atomic
    BY <2>1, FailuresNext DEF Family, Whole
  <2>2. CASE ~layer.atomic
    BY <2>2, LayerStays DEF Lost, FailuresAreTrue
  <2>. QED
    BY <2>1, <2>2
<1>3. TypeOK /\ Family /\ [Next]_vars => Family'
  BY FamilyNext
<1>. QED
  BY <1>1, <1>2, <1>3, FamilyInit, TypeCorrect, CopiesTrailTheRecord, PTL DEF Spec
=============================================================================
