--------------------------- MODULE BulkActionProofs ---------------------------
(***************************************************************************)
(* Proofs about BulkAction, for any number of rows and any batch sizes:    *)
(* what a call of bulk_create, bulk_update or bulk_destroy stores, counts,  *)
(* notifies of and tells its hooks agree.                                   *)
(***************************************************************************)
EXTENDS BulkAction, FiniteSetTheorems, SequenceTheorems, TLAPS

-----------------------------------------------------------------------------
(* Lists of rows and counts of rows.                                        *)

In(s) == {s[i] : i \in DOMAIN s}

Climbs(s) == \A i, j \in DOMAIN s : i < j => s[i] < s[j]

\* A list of rows in order has each row once.
LEMMA EachOnce ==
  ASSUME NEW s \in Seq(Rows), Climbs(s)
  PROVE  /\ IsFiniteSet(In(s)) /\ In(s) \subseteq Rows
         /\ Cardinality(In(s)) = Len(s)
         /\ \A i, j \in DOMAIN s : s[i] = s[j] => i = j
<1>. PICK n \in Nat : n = Len(s) /\ DOMAIN s = 1..n
  BY LenProperties
<1>1. \A i \in 1..n : s[i] \in Rows /\ s[i] \in Int
  BY LenProperties, RowsAssumption DEF Rows
<1>2. \A i, j \in 1..n : s[i] = s[j] => i = j
  BY <1>1 DEF Climbs
<1>3. [i \in 1..n |-> s[i]] \in Bijection(1..n, In(s))
  BY <1>1, <1>2 DEF Bijection, Injection, Surjection, IsInjective, In
<1>4. ExistsBijection(1..n, In(s))
  BY <1>3 DEF ExistsBijection
<1>. QED
  BY <1>1, <1>2, <1>4, FS_CountingElements, FS_NatBijection DEF In

\* Cut in two, a list in order is two lists in order, of different rows.
LEMMA CutInTwo ==
  ASSUME NEW s \in Seq(Rows), Climbs(s), NEW n \in 1..Len(s)
  PROVE  /\ SubSeq(s, 1, n) \in Seq(Rows) /\ SubSeq(s, n + 1, Len(s)) \in Seq(Rows)
         /\ Climbs(SubSeq(s, 1, n)) /\ Climbs(SubSeq(s, n + 1, Len(s)))
         /\ SubSeq(s, 1, n) # <<>>
         /\ In(s) = In(SubSeq(s, 1, n)) \cup In(SubSeq(s, n + 1, Len(s)))
         /\ In(SubSeq(s, 1, n)) \cap In(SubSeq(s, n + 1, Len(s))) = {}
<1>. PICK a, b : a = SubSeq(s, 1, n) /\ b = SubSeq(s, n + 1, Len(s))
  OBVIOUS
<1>. PICK m \in Nat : m = Len(s) /\ DOMAIN s = 1..m
  BY LenProperties
<1>1. /\ a \in Seq(Rows) /\ Len(a) = n /\ DOMAIN a = 1..n
      /\ \A i \in 1..n : a[i] = s[i]
  BY SubSeqProperties, LenProperties
<1>2. /\ b \in Seq(Rows) /\ Len(b) = m - n /\ DOMAIN b = 1..m - n
      /\ \A i \in 1..m - n : b[i] = s[n + i]
  <2>1. n + 1 \in Int /\ m \in Int /\ \A i \in n + 1..m : s[i] \in Rows
    BY LenProperties
  <2>2. /\ b \in Seq(Rows)
        /\ Len(b) = IF n + 1 <= m THEN m - (n + 1) + 1 ELSE 0
        /\ \A i \in 1..m - (n + 1) + 1 : b[i] = s[(n + 1) + i - 1]
    BY <2>1, SubSeqProperties
  <2>3. Len(b) = m - n
    BY <2>2
  <2>4. \A i \in 1..m - n : i \in 1..m - (n + 1) + 1 /\ (n + 1) + i - 1 = n + i
    OBVIOUS
  <2>5. DOMAIN b = 1..Len(b)
    BY <2>2, LenProperties
  <2>6. \A i \in 1..m - n : b[i] = s[n + i]
    BY <2>2, <2>4
  <2>. QED
    BY <2>2, <2>3, <2>5, <2>6
<1>3. \A i \in 1..m : s[i] \in Int
  BY LenProperties, RowsAssumption DEF Rows
<1>4. Climbs(a) /\ Climbs(b)
  <2>1. \A i \in 1..n : i \in 1..m
    OBVIOUS
  <2>2. Climbs(a)
    BY <1>1, <2>1 DEF Climbs
  <2>3. ASSUME NEW i \in 1..m - n, NEW j \in 1..m - n, i < j
        PROVE  b[i] < b[j]
    <3>1. n + i \in 1..m /\ n + j \in 1..m /\ n + i < n + j
      BY <2>3
    <3>2. s[n + i] < s[n + j]
      BY <3>1 DEF Climbs
    <3>. QED
      BY <1>2, <3>2
  <2>. QED
    BY <1>2, <2>2, <2>3 DEF Climbs
<1>5. a # <<>>
  <2>1. Len(a) # 0
    BY <1>1
  <2>. QED
    BY <2>1, EmptySeq
<1>6. In(s) = In(a) \cup In(b)
  <2>1. ASSUME NEW i \in 1..m, i > n
        PROVE  i - n \in 1..m - n /\ b[i - n] = s[i]
    BY <1>2, <2>1
  <2>2. ASSUME NEW i \in 1..m
        PROVE  s[i] \in In(a) \cup In(b)
    <3>1. CASE i <= n
      <4>1. i \in DOMAIN a /\ a[i] = s[i]
        BY <1>1, <3>1
      <4>. QED
        BY <4>1, Zenon DEF In
    <3>2. CASE i > n
      <4>. PICK j : j = i - n
        OBVIOUS
      <4>1. j \in DOMAIN b /\ b[j] = s[i]
        BY <1>2, <2>1, <3>2
      <4>. QED
        BY <4>1, Zenon DEF In
    <3>. QED
      BY <3>1, <3>2
  <2>3. ASSUME NEW i \in 1..m - n
        PROVE  b[i] \in In(s)
    <3>. PICK k \in 1..m : k = n + i
      OBVIOUS
    <3>1. b[i] = s[k]
      BY <1>2
    <3>2. k \in DOMAIN s
      OBVIOUS
    <3>. QED
      BY <3>1, <3>2, Zenon DEF In
  <2>4. ASSUME NEW i \in 1..n
        PROVE  a[i] \in In(s)
    BY <1>1 DEF In
  <2>5. In(s) \subseteq In(a) \cup In(b)
    BY <2>2 DEF In
  <2>6. In(a) \subseteq In(s)
    BY <1>1, <2>4 DEF In
  <2>7. In(b) \subseteq In(s)
    BY <1>2, <2>3 DEF In
  <2>. QED
    BY <2>5, <2>6, <2>7
<1>7. ASSUME NEW i \in 1..n, NEW j \in 1..m - n
      PROVE  a[i] # b[j]
  <2>1. n + j \in 1..m /\ i \in 1..m /\ i < n + j
    OBVIOUS
  <2>2. s[i] < s[n + j]
    BY <2>1 DEF Climbs
  <2>. QED
    BY <1>1, <1>2, <1>3, <2>1, <2>2
<1>8. In(a) \cap In(b) = {}
  <2>. SUFFICES ASSUME NEW x \in In(a), x \in In(b)
                PROVE  FALSE
    OBVIOUS
  <2>1. PICK i \in 1..n : x = a[i]
    BY <1>1 DEF In
  <2>2. PICK j \in 1..m - n : x = b[j]
    BY <1>2 DEF In
  <2>. QED
    BY <1>7, <2>1, <2>2
<1>. QED
  BY <1>1, <1>2, <1>4, <1>5, <1>6, <1>8

\* One more row, after all of a list in order.
LEMMA OneMore ==
  ASSUME NEW s \in Seq(Rows), Climbs(s), NEW r \in Rows, \A i \in DOMAIN s : s[i] < r
  PROVE  /\ Append(s, r) \in Seq(Rows) /\ Climbs(Append(s, r))
         /\ In(Append(s, r)) = In(s) \cup {r}
         /\ \A i \in DOMAIN Append(s, r) : Append(s, r)[i] < r + 1
<1>. PICK n \in Nat : n = Len(s) /\ DOMAIN s = 1..n
  BY LenProperties
<1>1. \A i \in 1..n : s[i] \in Int /\ r \in Int
  BY LenProperties, RowsAssumption DEF Rows
<1>. PICK t : t = Append(s, r)
  OBVIOUS
<1>2. /\ t \in Seq(Rows) /\ DOMAIN t = 1..n + 1
      /\ \A i \in 1..n : t[i] = s[i]
      /\ t[n + 1] = r
  BY AppendProperties, LenProperties
<1>3. \A i \in 1..n + 1 : i \in 1..n \/ i = n + 1
  OBVIOUS
<1>4. In(t) = In(s) \cup {r}
  BY <1>2, <1>3 DEF In
<1>5. Climbs(t)
  BY <1>1, <1>2, <1>3 DEF Climbs
<1>6. \A i \in 1..n + 1 : t[i] < r + 1
  BY <1>1, <1>2, <1>3, RowsAssumption, SMTT(30) DEF Rows
<1>. QED
  BY <1>2, <1>4, <1>5, <1>6

\* Sets of rows are counted by adding up their parts.
LEMMA RowsCount ==
  /\ IsFiniteSet(Rows) /\ Cardinality(Rows) = N
  /\ \A S \in SUBSET Rows : /\ IsFiniteSet(S)
                            /\ Cardinality(S) \in 0..N
                            /\ Cardinality(S) = N => S = Rows
<1>1. IsFiniteSet(Rows) /\ Cardinality(Rows) = N
  BY RowsAssumption, FS_Interval DEF Rows
<1>2. ASSUME NEW S \in SUBSET Rows
      PROVE  /\ IsFiniteSet(S) /\ Cardinality(S) <= N
             /\ Cardinality(S) = N => S = Rows
  BY <1>1, FS_Subset
<1>3. ASSUME NEW S \in SUBSET Rows
      PROVE  Cardinality(S) \in Nat
  BY <1>2, FS_CardinalityType
<1>. QED
  BY <1>1, <1>2, <1>3, RowsAssumption

LEMMA PartsAddUp ==
  ASSUME NEW S \in SUBSET Rows, NEW U \in SUBSET Rows, S \cap U = {}
  PROVE  Cardinality(S \cup U) = Cardinality(S) + Cardinality(U)
<1>1. Cardinality(S \cap U) = 0
  BY FS_EmptySet
<1>2. IsFiniteSet(S) /\ IsFiniteSet(U) /\ Cardinality(S) \in Nat /\ Cardinality(U) \in Nat
  BY RowsCount, RowsAssumption
<1>3. Cardinality(S \cup U) = Cardinality(S) + Cardinality(U) - Cardinality(S \cap U)
  BY <1>2, FS_Union
<1>. QED
  BY <1>1, <1>2, <1>3
-----------------------------------------------------------------------------
(* The invariant. While a call runs, what has come of a row depends on how  *)
(* far the row is.                                                          *)

Records == {"before", "after", "gone"}

\* The types, and what the options allow.
Shape ==
  /\ kind \in Kinds /\ size \in Nat \ {0}
  /\ locked => kind \notin {"create", "upsert"}
  /\ cascades => kind \in {"destroy", "destroy_each"}
  /\ kind = "destroy_each" => cascades
  /\ at \in {"prepare", "open", "relate", "write", "finish", "commit", "done"}
  /\ next \in 1..N + 1
  /\ prepared \in Seq(Rows) /\ batch \in Seq(Rows)
  /\ outcome \in [Rows -> Outcomes]
  /\ table \in [Rows -> Records]
  /\ related \in SUBSET Rows
  /\ queue \in SUBSET Rows
  /\ sent \in SUBSET Rows
  /\ told \in [Rows -> {"none", "ok", "error"}]
  /\ answer \in {"none", "ok", "error"}
  /\ saved \in [table : [Rows -> Records], related : SUBSET Rows, queue : SUBSET Rows]
  /\ count \in Nat /\ errors \in Nat

\* Rows not prepared, or in no batch yet; those of the batch being written;
\* those a batch, or their own preparing, is done with.
Under == at \in {"relate", "write", "finish", "commit"}
Waiting == In(prepared) \cup (IF at = "prepare" THEN next..N ELSE {})
Current == IF Under THEN InBatch ELSE {}
Over == Rows \ (Waiting \cup Current)

\* Batches are taken in order; where there is one, it is at a row of it.
Ordered ==
  /\ Climbs(prepared) /\ Climbs(batch)
  /\ at = "prepare" => \A i \in DOMAIN prepared : prepared[i] < next
  /\ Under => /\ batch # <<>>
              /\ InBatch \cap In(prepared) = {}
              /\ next <= Len(batch) + 1
  /\ at = "write" /\ Together => next = 1
  /\ at \in {"prepare", "finish"} => kind # "destroy_each"
  /\ at = "relate" => kind = "destroy"

\* Nothing has been done for a row.
Fresh(r) ==
  /\ outcome[r] = "none" /\ table[r] = "before" /\ told[r] = "none"
  /\ r \notin queue \cup sent
  /\ cascades => r \notin related

\* Its lock was checked and its related records taken.
Found(r) ==
  /\ outcome[r] = "ok"
  /\ Transactional => table[r] = "before" /\ r \notin queue /\ (cascades => r \in related)

\* It is written.
Wrote(r) ==
  /\ outcome[r] = "ok" /\ table[r] = "after"
  /\ Transactional => r \notin queue /\ (cascades => r \in related)

\* It is written and its notification waits.
Kept(r) ==
  /\ outcome[r] = "ok" /\ table[r] = "after"
  /\ Transactional => r \in queue /\ (cascades => r \in related)

\* It was changed since it was read, or a managed record of it was, whose
\* statement may have aborted the transaction.
LeftStale(r) ==
  /\ outcome[r] = "stale"
  /\ Transactional => table[r] = "before" /\ r \notin queue /\ (cascades => r \notin related)
LeftWithChild(r) ==
  /\ outcome[r] \in {"stale_child", "raised"}
  /\ Transactional => r \notin queue /\ ~cascades

\* It failed: in a transaction, not by a write or a hook.
Lost(r) ==
  /\ outcome[r] = "error"
  /\ Transactional => table[r] = "before" /\ r \notin queue

\* The batch is done with it: an error did not get this far in a transaction.
Finishes(r) ==
  /\ Kept(r) \/ LeftStale(r) \/ LeftWithChild(r) \/ (Lost(r) /\ ~Transactional)
  /\ ~HooksWait => /\ told[r] = "ok" => table[r] = "after"
                   /\ told[r] = "none" => table[r] = "before"

\* A row of the batch, before this phase and after it.
Comes(r) ==
  /\ at = "relate" \/ (at = "write" /\ kind # "destroy") => Fresh(r)
  /\ at = "write" /\ kind = "destroy" => Found(r) \/ LeftStale(r) \/ Lost(r)
  /\ at = "finish" => Wrote(r) \/ LeftStale(r) \/ Lost(r)
  /\ at = "commit" => Finishes(r)

Went(r) ==
  /\ at = "relate" => Found(r) \/ LeftStale(r) \/ Lost(r)
  /\ at = "write" /\ kind # "destroy_each" => Wrote(r) \/ LeftStale(r) \/ Lost(r)
  /\ at = "write" /\ kind = "destroy_each" => Finishes(r)
  /\ at \in {"finish", "commit"} => Finishes(r)

UnderWay ==
  Under => \A i \in DOMAIN batch :
             /\ i < next => Went(batch[i])
             /\ i >= next => Comes(batch[i])
             /\ Transactional => batch[i] \notin sent

\* A row that is done with is counted as what it is, and its hooks know: but
\* one whose batch COMMIT rolled back was counted, notified of and told before.
Settled(r) ==
  /\ outcome[r] # "none"
  /\ Whole => outcome[r] \notin {"error", "refused", "dropped"}
  /\ Transactional =>
       /\ outcome[r] = "ok" => /\ table[r] = "after"
                               /\ r \in (IF Whole THEN queue ELSE sent)
                               /\ cascades => r \in related
       /\ outcome[r] # "ok" => /\ r \notin queue
                               /\ r \in sent <=> outcome[r] = "dropped"
                               /\ cascades => r \notin related
                               /\ \/ table[r] = "before" \/ outcome[r] = "stale_child"
                                  \/ Whole /\ outcome[r] = "raised"
  /\ ~HooksInside =>
       /\ told[r] = "ok" => table[r] = "after" \/ outcome[r] = "dropped"
       /\ Transactional /\ told[r] = "error" =>
            table[r] = "before" \/ outcome[r] = "stale_child"
  /\ ~Whole /\ told[r] = "none" =>
       (outcome[r] = "refused" \/ ~HooksWait) /\ table[r] = "before"

\* A rollback undoes the batch and no more, or the whole action.
Saved ==
  /\ Whole => /\ \A r \in Rows : saved.table[r] = "before"
              /\ saved.related = {} /\ saved.queue = {} /\ sent = {}
  /\ PerBatch /\ ~Under => queue = {}
  /\ PerBatch /\ Under =>
       /\ saved.queue = {}
       /\ \A r \in InBatch : saved.table[r] = "before" /\ (cascades => r \notin saved.related)
       /\ \A r \in Rows \ InBatch : /\ saved.table[r] = table[r]
                                    /\ r \in saved.related <=> r \in related
                                    /\ r \notin queue

\* The counts are those of the rows done with.
Counted(what) == {r \in Over : outcome[r] \in what}
Tally ==
  /\ count = Cardinality(Counted({"ok", "dropped"}))
  /\ errors = Cardinality(Counted({"error", "refused"}))

\* COMMIT rolls back only what a failed statement has aborted.
Excused == Dropped # {} => \E r \in Over : outcome[r] = "raised"

Running ==
  /\ Ordered /\ UnderWay /\ Saved /\ Tally /\ Excused
  /\ \A r \in Waiting : Fresh(r)
  /\ \A r \in Over : Settled(r)

\* What a call has come to.
Closed ==
  /\ count + errors <= N \/ (count = 0 /\ errors \in Given)
  /\ WholeIsAllOrNothing /\ CountIsStored /\ Accounted /\ HooksHear

Inv ==
  /\ Shape
  /\ at # "done" => Running
  /\ Done => Closed

\* What a step comes to, from a running call.
GoesOn == (at' # "done" => Running') /\ (Done' => Closed')
-----------------------------------------------------------------------------
(* Rows a step leaves alone.                                                *)

Same(r) ==
  /\ outcome'[r] = outcome[r] /\ table'[r] = table[r] /\ told'[r] = told[r]
  /\ r \in related' <=> r \in related
  /\ r \in queue' <=> r \in queue
  /\ r \in sent' <=> r \in sent

OthersStay(S) == \A r \in Rows \ S : Same(r)

\* What has come of a row changes only with what is recorded of it.
LEMMA SameStays ==
  ASSUME UNCHANGED options, NEW r \in Rows, Same(r)
  PROVE  /\ Fresh(r) => Fresh(r)'
         /\ Settled(r) => Settled(r)'
         /\ at' = at => (Went(r) => Went(r)') /\ (Comes(r) => Comes(r)')
<1>1. UNCHANGED <<kind, cascades, Transactional, Whole, HooksInside, HooksWait>>
  BY DEF options, Transactional, PerBatch, Whole, HooksInside, HooksWait
<1>2. Fresh(r) => Fresh(r)'
  BY <1>1 DEF Same, Fresh
<1>3. Settled(r) => Settled(r)'
  BY <1>1 DEF Same, Settled
<1>4. /\ Found(r) => Found(r)'
      /\ Wrote(r) => Wrote(r)'
      /\ LeftStale(r) => LeftStale(r)'
      /\ Lost(r) => Lost(r)'
  BY <1>1 DEF Same, Found, Wrote, LeftStale, Lost
<1>5. Finishes(r) => Finishes(r)'
  BY <1>1 DEF Same, Finishes, Kept, LeftStale, LeftWithChild, Lost
<1>6. ASSUME at' = at
      PROVE  (Went(r) => Went(r)') /\ (Comes(r) => Comes(r)')
  BY <1>1, <1>2, <1>4, <1>5, <1>6 DEF Went, Comes
<1>. QED
  BY <1>2, <1>3, <1>6

\* The rows of a batch are rows, each there once, and none of them waits.
LEMMA BatchRows ==
  ASSUME Shape, Running, Under
  PROVE  /\ Len(batch) \in 1..N /\ DOMAIN batch = 1..Len(batch)
         /\ \A i \in 1..Len(batch) : batch[i] \in Rows /\ batch[i] \in InBatch
         /\ \A i, j \in 1..Len(batch) : batch[i] = batch[j] => i = j
         /\ InBatch = In(batch) /\ InBatch \subseteq Rows
         /\ IsFiniteSet(InBatch) /\ Cardinality(InBatch) = Len(batch)
         /\ Waiting = In(prepared) /\ Waiting \subseteq Rows /\ InBatch \cap Waiting = {}
         /\ Over = Rows \ (In(prepared) \cup InBatch)
<1>1. /\ batch \in Seq(Rows) /\ Climbs(batch) /\ batch # <<>>
      /\ prepared \in Seq(Rows) /\ Climbs(prepared) /\ InBatch \cap In(prepared) = {}
  BY DEF Shape, Running, Ordered
<1>2. InBatch = In(batch)
  BY DEF InBatch, In
<1>3. DOMAIN batch = 1..Len(batch) /\ Len(batch) \in Nat /\ \A i \in 1..Len(batch) : batch[i] \in Rows
  BY <1>1, LenProperties
<1>4. Len(batch) # 0
  BY <1>1, EmptySeq
<1>5. Len(batch) \in 1..N
  <2>1. Cardinality(In(batch)) \in 0..N /\ Cardinality(In(batch)) = Len(batch)
    BY <1>1, EachOnce, RowsCount
  <2>. QED
    BY <1>4, <2>1, RowsAssumption
<1>6. Waiting = In(prepared) /\ Over = Rows \ (In(prepared) \cup InBatch)
  BY DEF Under, Waiting, Current, Over
<1>7. \A i \in 1..Len(batch) : batch[i] \in InBatch
  BY <1>3 DEF InBatch
<1>. QED
  BY <1>1, <1>2, <1>3, <1>5, <1>6, <1>7, EachOnce

\* A transaction of the whole action commits last, so drops nothing before.
LEMMA NoneDropped ==
  ASSUME Shape, Running
  PROVE  /\ Under => \A r \in InBatch : outcome[r] \notin {"none", "dropped"} \/ Fresh(r)
         /\ \A r \in Rows : outcome[r] = "dropped" => ~Whole /\ r \in Over
<1>1. ASSUME Under, NEW r \in InBatch
      PROVE  outcome[r] \notin {"none", "dropped"} \/ Fresh(r)
  <2>1. PICK i \in DOMAIN batch : r = batch[i]
    BY DEF InBatch
  <2>2. i \in Nat /\ next \in Nat
    BY <1>1, <2>1, BatchRows, RowsAssumption DEF Shape
  <2>3. i < next \/ i >= next
    BY <2>2
  <2>4. Went(r) \/ Comes(r)
    BY <1>1, <2>1, <2>3 DEF Running, UnderWay
  <2>. QED
    BY <1>1, <2>4 DEF Under, Went, Comes, Finishes, Found, Wrote, Kept, LeftStale, LeftWithChild, Lost
<1>2. ASSUME NEW r \in Rows, outcome[r] = "dropped"
      PROVE  ~Whole /\ r \in Over
  <2>1. r \notin Waiting
    BY <1>2 DEF Running, Fresh
  <2>2. r \notin Current
    BY <1>1, <1>2 DEF Current, Fresh
  <2>3. r \in Over
    BY <2>1, <2>2 DEF Over
  <2>. QED
    BY <1>2, <2>3 DEF Running, Settled
<1>. QED
  BY <1>1, <1>2

\* What is done with stays as it is, so what it excuses stays excused.
LEMMA StillExcused ==
  ASSUME Running, Over \subseteq Over',
         \A r \in Over : outcome'[r] = outcome[r],
         \A r \in Rows : outcome'[r] = "dropped" => outcome[r] = "dropped"
  PROVE  Excused'
<1>. SUFFICES ASSUME Dropped' # {}
              PROVE  \E r \in Over' : outcome'[r] = "raised"
  BY DEF Excused
<1>1. Dropped # {}
  BY DEF Dropped
<1>2. PICK r \in Over : outcome[r] = "raised"
  BY <1>1 DEF Running, Excused
<1>. QED
  BY <1>2

\* A step of the row at hand, which goes to the next row of the batch.
LEMMA RowStep ==
  ASSUME Shape, Running, Under, next <= Len(batch), at = "write" => ~Together,
         UNCHANGED <<options, at, prepared, batch, sent, saved, result>>, next' = next + 1,
         NEW row, row = Row, OthersStay({row}), Went(row)'
  PROVE  Running'
<1>1. next \in 1..Len(batch) /\ next \in DOMAIN batch /\ row \in InBatch /\ row \in Rows
      /\ row = batch[next]
  BY BatchRows, RowsAssumption DEF Shape, Row
<1>2. /\ UNCHANGED <<kind, Transactional, Whole, PerBatch, Together, cascades, InBatch>>
      /\ Under' /\ Waiting' = Waiting /\ Over' = Over
  <2>1. Waiting' = In(prepared) /\ InBatch' = InBatch /\ Under'
    BY DEF Waiting, Under, InBatch, In
  <2>. QED
    BY <2>1, BatchRows
       DEF options, Transactional, Whole, PerBatch, Together, Over, Current
<1>3. Ordered'
  BY <1>1, <1>2, BatchRows DEF Running, Ordered, Under, Climbs
<1>4. ASSUME NEW r \in Rows, r # row
      PROVE  Same(r)
  BY <1>4 DEF OthersStay
<1>5. ASSUME NEW i \in DOMAIN batch
      PROVE  /\ i < next' => Went(batch[i])'
             /\ i >= next' => Comes(batch[i])'
             /\ Transactional => batch[i] \notin sent
  <2>1. i \in 1..Len(batch) /\ batch[i] \in Rows /\ next \in 1..Len(batch)
    BY <1>1, BatchRows
  <2>2. /\ i < next => Went(batch[i])
        /\ i >= next => Comes(batch[i])
        /\ Transactional => batch[i] \notin sent
    BY DEF Running, UnderWay
  <2>3. CASE i = next
    BY <1>1, <2>1, <2>2, <2>3
  <2>4. CASE i # next
    <3>1. batch[i] # row
      BY <1>1, <2>1, <2>4, BatchRows
    <3>2. (Went(batch[i]) => Went(batch[i])') /\ (Comes(batch[i]) => Comes(batch[i])')
      BY <1>4, <2>1, <3>1, SameStays
    <3>. QED
      BY <2>1, <2>2, <2>4, <3>2
  <2>. QED
    BY <2>3, <2>4
<1>6. UnderWay'
  BY <1>2, <1>5 DEF UnderWay
<1>7. Saved'
  BY <1>1, <1>2, <1>4, BatchRows DEF Running, Saved, Same
<1>8. \A r \in Over : r \in Rows /\ r # row
  BY <1>1, BatchRows
<1>9. Tally'
  <2>1. \A r \in Over : outcome'[r] = outcome[r]
    BY <1>4, <1>8 DEF Same
  <2>. QED
    BY <1>2, <2>1 DEF Running, Tally, Counted, result
<1>12. Excused'
  <2>1. outcome'[row] # "dropped"
    BY <1>2 DEF Under, Went, Finishes, Found, Wrote, Kept, LeftStale, LeftWithChild, Lost
  <2>2. \A r \in Rows : outcome'[r] = "dropped" => outcome[r] = "dropped"
    BY <1>4, <2>1 DEF Same
  <2>. QED
    BY <1>2, <1>4, <1>8, <2>2, StillExcused DEF Same
<1>10. \A r \in Waiting' : Fresh(r)'
  BY <1>1, <1>2, <1>4, BatchRows, SameStays DEF Running
<1>11. \A r \in Over' : Settled(r)'
  BY <1>2, <1>4, <1>8, SameStays DEF Running
<1>. QED
  BY <1>3, <1>6, <1>7, <1>9, <1>10, <1>11, <1>12 DEF Running
-----------------------------------------------------------------------------
(* Types.                                                                   *)

LEMMA ShapeInit == Init => Shape
<1>. SUFFICES ASSUME Init
              PROVE  Shape
  OBVIOUS
<1>1. prepared \in Seq(Rows) /\ batch \in Seq(Rows)
  <2>1. CASE kind = "destroy_each"
    <3>1. prepared = [i \in 1..N |-> i]
      BY <2>1 DEF Init, Rows
    <3>. QED
      BY <3>1, RowsAssumption DEF Init, Rows
  <2>2. CASE kind # "destroy_each"
    BY <2>2 DEF Init
  <2>. QED
    BY <2>1, <2>2
<1>2. saved \in [table : [Rows -> Records], related : SUBSET Rows, queue : SUBSET Rows]
  <2>1. saved = [table |-> [r \in Rows |-> "before"], related |-> {}, queue |-> {}]
    BY DEF Init, Store
  <2>. QED
    BY <2>1 DEF Records
<1>3. next \in 1..N + 1
  BY RowsAssumption DEF Init
<1>4. size \in Nat \ {0}
  BY RowsAssumption DEF Init
<1>. QED
  BY <1>1, <1>2, <1>3, <1>4 DEF Init, Shape, Outcomes, Records, Kinds

\* Rolled back, failed: types stay what they were.
LEMMA ShapeOfRollBack ==
  ASSUME Shape, RollBack
  PROVE  /\ table' \in [Rows -> Records]
         /\ related' \in SUBSET Rows /\ queue' \in SUBSET Rows
  BY DEF Shape, RollBack

LEMMA ShapeOfFailed ==
  ASSUME Shape, NEW rows \in Nat, NEW goesOn \in {"prepare", "open", "done"},
         Failed(rows, goesOn)
  PROVE  /\ at' \in {"prepare", "open", "done"}
         /\ answer' \in {"none", "ok", "error"}
         /\ count' \in Nat /\ errors' \in Nat
<1>1. Given \subseteq Nat
  BY RowsAssumption DEF Given
<1>2. count \in Nat /\ errors \in Nat /\ errors + rows \in Nat
  BY DEF Shape
<1>3. count' \in Nat /\ errors' \in Nat
  <2>1. CASE Whole
    <3>1. count' = 0 /\ errors' \in Given
      BY <2>1 DEF Failed
    <3>2. errors' \in Nat
      BY <1>1, <3>1, Zenon
    <3>. QED
      BY <3>1, <3>2
  <2>2. CASE ~Whole
    BY <1>2, <2>2 DEF Failed
  <2>. QED
    BY <2>1, <2>2
<1>. QED
  BY <1>3 DEF Shape, Failed, Answer

LEMMA ShapeOfRow ==
  ASSUME Shape, Running, Under, next <= Len(batch),
         NEW what \in Outcomes, NEW heard \in {"none", "ok", "error"},
         SaysAndTells(what, heard),
         table' \in [Rows -> Records], related' \in SUBSET Rows, queue' \in SUBSET Rows
  PROVE  Shape'
<1>1. next + 1 \in 1..N + 1
  BY BatchRows, RowsAssumption DEF Shape
<1>2. outcome' \in [Rows -> Outcomes] /\ told' \in [Rows -> {"none", "ok", "error"}]
  BY DEF Shape, SaysAndTells
<1>. QED
  BY <1>1, <1>2 DEF Shape, SaysAndTells, options, result, Kinds

LEMMA ShapeOfBatchFails ==
  ASSUME Shape, BatchFails,
         table' \in [Rows -> Records], related' \in SUBSET Rows, queue' \in SUBSET Rows
  PROVE  Shape'
<1>1. Len(batch) \in Nat
  BY LenProperties DEF Shape
<1>2. /\ at' \in {"prepare", "open", "done"}
      /\ answer' \in {"none", "ok", "error"}
      /\ count' \in Nat /\ errors' \in Nat
  BY <1>1, ShapeOfFailed DEF BatchFails
<1>3. outcome' \in [Rows -> Outcomes] /\ told' \in [Rows -> {"none", "ok", "error"}]
  BY DEF Shape, BatchFails, Batched, Outcomes
<1>. QED
  BY <1>2, <1>3 DEF Shape, BatchFails, options, Kinds

LEMMA ShapeOfFailsWith ==
  ASSUME Shape, Running, Under, next <= Len(batch),
         NEW t \in [Rows -> Records], NEW rel \in SUBSET Rows, FailsWith(t, rel)
  PROVE  Shape'
<1>1. CASE Transactional
  BY <1>1, ShapeOfRollBack, ShapeOfBatchFails DEF FailsWith
<1>2. CASE ~Transactional
  <2>1. SaysAndTells("error", "error") /\ table' = t /\ related' = rel /\ UNCHANGED queue
    BY <1>2 DEF FailsWith
  <2>2. queue' \in SUBSET Rows
    BY <2>1 DEF Shape
  <2>3. "error" \in Outcomes
    BY DEF Outcomes
  <2>. QED
    BY <2>1, <2>2, <2>3, ShapeOfRow
<1>. QED
  BY <1>1, <1>2
LEMMA ShapeOfReject ==
  ASSUME Shape, Preparing, NEW what \in Outcomes, Reject(what),
         told' \in [Rows -> {"none", "ok", "error"}]
  PROVE  Shape'
<1>1. next + 1 \in 1..N + 1
  BY RowsAssumption DEF Shape, Preparing
<1>2. /\ at' \in {"prepare", "open", "done"}
      /\ answer' \in {"none", "ok", "error"}
      /\ count' \in Nat /\ errors' \in Nat
  BY ShapeOfFailed DEF Reject
<1>3. outcome' \in [Rows -> Outcomes]
  BY DEF Shape, Reject
<1>4. table' \in [Rows -> Records] /\ related' \in SUBSET Rows /\ queue' \in SUBSET Rows
  <2>1. CASE Whole
    BY <2>1, ShapeOfRollBack DEF Reject
  <2>2. CASE ~Whole
    BY <2>2 DEF Reject, Shape, store
  <2>. QED
    BY <2>1, <2>2
<1>. QED
  BY <1>1, <1>2, <1>3, <1>4 DEF Shape, Reject, options, Kinds

\* The steps of a row of a batch, and the others of a batch, are at a row of it.
AtRows == \E phase \in {"relate", "write", "finish"} : AtRow(phase)

LEMMA RowAtHand ==
  ASSUME Shape, Running, AtRows
  PROVE  /\ Under /\ next <= Len(batch) /\ next \in DOMAIN batch
         /\ Row \in Rows /\ Row \in InBatch
         /\ Comes(Row)
         /\ Transactional => Row \notin sent
<1>1. Under /\ next <= Len(batch)
  BY DEF AtRows, AtRow, Under
<1>2. next \in 1..Len(batch) /\ next \in DOMAIN batch /\ next >= next
  BY <1>1, BatchRows, RowsAssumption DEF Shape
<1>3. Row = batch[next]
  BY DEF Row
<1>. QED
  BY <1>1, <1>2, <1>3, BatchRows DEF Running, UnderWay

LEMMA ShapeOfRows ==
  ASSUME Shape, Running,
         \/ Relate \/ FoundStale \/ RelateFails
         \/ WriteRow \/ RowIsStale \/ RowFails \/ LeftOut
         \/ FinishRow \/ FinishFails \/ ChildIsStale \/ FinishStale \/ FinishFailed
  PROVE  Shape'
<1>. USE DEF AtRows
<1>1. {"ok", "error", "stale", "stale_child", "raised"} \subseteq Outcomes
  BY DEF Outcomes, LeavesOut
<1>2. table \in [Rows -> Records] /\ related \in SUBSET Rows /\ queue \in SUBSET Rows
  BY DEF Shape
<1>3. CASE Relate
  BY <1>1, <1>2, <1>3, RowAtHand, ShapeOfRow DEF Relate, Says
<1>4. CASE FoundStale
  BY <1>1, <1>2, <1>4, RowAtHand, ShapeOfRow DEF FoundStale, Says, store
<1>5. CASE RelateFails
  BY <1>2, <1>5, RowAtHand, ShapeOfFailsWith DEF RelateFails
<1>6. CASE WriteRow
  BY <1>1, <1>2, <1>6, RowAtHand, ShapeOfRow DEF WriteRow, Writing, Records
<1>7. CASE RowIsStale
  <2>1. CASE RollBack /\ BatchFails
    BY <2>1, ShapeOfRollBack, ShapeOfBatchFails
  <2>2. CASE SaysAndTells("stale", "error")
             /\ related' \in {related, IF kind = "destroy_each" THEN related \cup {Row} ELSE related}
             /\ UNCHANGED <<table, queue>>
    BY <1>1, <1>2, <1>7, <2>2, RowAtHand, ShapeOfRow DEF RowIsStale, Writing
  <2>. QED
    BY <1>7, <2>1, <2>2 DEF RowIsStale
<1>8. CASE RowFails
  <2>1. Under /\ next <= Len(batch) /\ Row \in Rows
    BY <1>8, RowAtHand DEF RowFails, Writing
  <2>2. CASE \E rel \in {related, related \cup {Row}} : FailsWith(table, rel)
    BY <1>2, <2>1, <2>2, ShapeOfFailsWith
  <2>3. CASE Says("error") /\ UNCHANGED store
    BY <1>1, <1>2, <2>1, <2>3, ShapeOfRow DEF Says, store
  <2>. QED
    BY <1>8, <2>2, <2>3 DEF RowFails
<1>9. CASE LeftOut
  <2>1. outcome[Row] \in Outcomes
    BY <1>9, RowAtHand DEF LeftOut, Shape
  <2>. QED
    BY <1>2, <1>9, <2>1, RowAtHand, ShapeOfRow DEF LeftOut, Says, store
<1>10. CASE FinishRow
  BY <1>1, <1>2, <1>10, RowAtHand, ShapeOfRow DEF FinishRow, Finishing, Says
<1>11. CASE FinishFails
  <2>1. Undone \subseteq Records
    BY DEF Undone, Records
  <2>2. Under /\ next <= Len(batch) /\ Row \in Rows
    BY <1>11, RowAtHand DEF FinishFails, Finishing
  <2>3. PICK t \in Undone : FailsWith([table EXCEPT ![Row] = t], related \cup {Row})
    BY <1>11 DEF FinishFails
  <2>4. [table EXCEPT ![Row] = t] \in [Rows -> Records] /\ related \cup {Row} \in SUBSET Rows
    BY <1>2, <2>1, <2>2
  <2>. QED
    BY <2>2, <2>3, <2>4, ShapeOfFailsWith
<1>12. CASE ChildIsStale
  <2>1. Undone \subseteq Records /\ {"after"} \subseteq Records
    BY DEF Undone, Records
  <2>2. Under /\ next <= Len(batch) /\ Row \in Rows
    BY <1>12, RowAtHand DEF ChildIsStale, Finishing
  <2>3. table' \in [Rows -> Records] /\ related' \in SUBSET Rows /\ queue' \in SUBSET Rows
    BY <1>2, <1>12, <2>1, <2>2 DEF ChildIsStale
  <2>4. PICK what \in {"stale_child", "raised"} : SaysAndTells(what, "none")
    BY <1>12 DEF ChildIsStale, Says
  <2>. QED
    BY <1>1, <2>2, <2>3, <2>4, ShapeOfRow
<1>13. CASE FinishStale
  BY <1>1, <1>2, <1>13, RowAtHand, ShapeOfRow DEF FinishStale, Finishing, Says, store
<1>14. CASE FinishFailed
  BY <1>2, <1>14, RowAtHand, ShapeOfFailsWith DEF FinishFailed, Finishing
<1>. QED
  BY <1>3, <1>4, <1>5, <1>6, <1>7, <1>8, <1>9, <1>10, <1>11, <1>12, <1>13, <1>14
LEMMA ShapeOfTurn ==
  ASSUME Shape, NEW phase \in {"write", "finish", "commit"}, TurnsTo(phase)
  PROVE  Shape'
<1>1. 1 \in 1..N + 1
  BY RowsAssumption
<1>. QED
  BY <1>1 DEF Shape, TurnsTo, options, store, result, Kinds

LEMMA ShapeOfCommit ==
  ASSUME Shape, NEW rows,
         CommitOf(rows) \/ UNCHANGED <<table, related, outcome>>
  PROVE  /\ outcome' \in [Rows -> Outcomes] /\ table' \in [Rows -> Records]
         /\ related' \in SUBSET Rows
  BY DEF Shape, CommitOf, Outcomes

LEMMA ShapeOfBatches ==
  ASSUME Shape, Running,
         \/ Refuse \/ PrepareFails \/ PrepareRow \/ Prepared \/ OpenBatch
         \/ Related \/ WriteTogether \/ TogetherFails \/ Written \/ Finished
         \/ Settle \/ CommitFails \/ Return \/ WholeFails
  PROVE  Shape'
<1>0. 1 \in 1..N + 1
  BY RowsAssumption
<1>1. CASE Refuse
  <2>1. "refused" \in Outcomes /\ told' \in [Rows -> {"none", "ok", "error"}]
    BY <1>1 DEF Refuse, Outcomes, Shape
  <2>. QED
    BY <1>1, <2>1, ShapeOfReject DEF Refuse
<1>2. CASE PrepareFails
  <2>1. "error" \in Outcomes /\ told' \in [Rows -> {"none", "ok", "error"}]
    BY <1>2 DEF PrepareFails, Outcomes, Shape
  <2>. QED
    BY <1>2, <2>1, ShapeOfReject DEF PrepareFails
<1>3. CASE PrepareRow
  <2>1. next \in Rows /\ next + 1 \in 1..N + 1
    BY <1>3, RowsAssumption DEF PrepareRow, Preparing, Shape, Rows
  <2>2. prepared' \in Seq(Rows)
    BY <1>3, <2>1, AppendProperties DEF PrepareRow, Shape
  <2>3. related' \in SUBSET Rows
    BY <1>3, <2>1 DEF PrepareRow, Shape
  <2>. QED
    BY <1>3, <2>1, <2>2, <2>3 DEF PrepareRow, Shape, options, result, Kinds
<1>4. CASE Prepared
  BY <1>4 DEF Prepared, Shape, options, store, result, Kinds
<1>5. CASE OpenBatch
  <2>. PICK n : /\ n = Least(size, Len(prepared))
                /\ batch' = SubSeq(prepared, 1, n)
                /\ prepared' = SubSeq(prepared, n + 1, Len(prepared))
    BY <1>5 DEF OpenBatch
  <2>1. Len(prepared) \in Nat /\ Len(prepared) # 0
    BY <1>5, LenProperties, EmptySeq DEF OpenBatch, Shape
  <2>2. n \in 1..Len(prepared)
    BY <2>1 DEF Least, Shape
  <2>3. prepared \in Seq(Rows) /\ Climbs(prepared)
    BY DEF Shape, Running, Ordered
  <2>4. prepared' \in Seq(Rows) /\ batch' \in Seq(Rows)
    BY <2>2, <2>3, CutInTwo
  <2>5. saved' \in [table : [Rows -> Records], related : SUBSET Rows, queue : SUBSET Rows]
    BY <1>5 DEF OpenBatch, Shape, Store
  <2>. QED
    BY <1>0, <1>5, <2>4, <2>5 DEF OpenBatch, Shape, options, store, result, Kinds
<1>6. CASE Related
  BY <1>6, ShapeOfTurn DEF Related
<1>7. CASE WriteTogether
  <2>1. outcome' \in [Rows -> Outcomes] /\ table' \in [Rows -> Records]
    BY <1>7 DEF WriteTogether, Shape, Outcomes, Records
  <2>. QED
    BY <1>0, <1>7, <2>1 DEF WriteTogether, Shape, options, result, Kinds
<1>8. CASE TogetherFails
  <2>1. CASE Transactional
    BY <1>8, <2>1, ShapeOfRollBack, ShapeOfBatchFails DEF TogetherFails
  <2>2. CASE ~Transactional
    <3>1. table' \in [Rows -> Records] /\ related' \in SUBSET Rows /\ queue' \in SUBSET Rows
      BY <1>8, <2>2 DEF TogetherFails, Shape, Records
    <3>. QED
      BY <1>8, <3>1, ShapeOfBatchFails DEF TogetherFails
  <2>. QED
    BY <2>1, <2>2
<1>9. CASE Written
  BY <1>9, ShapeOfTurn DEF Written
<1>10. CASE Finished
  BY <1>10, ShapeOfTurn DEF Finished
<1>11. CASE Settle
  <2>1. told' \in [Rows -> {"none", "ok", "error"}] /\ sent' \in SUBSET Rows /\ queue' \in SUBSET Rows
    BY <1>11 DEF Settle, Telling, Shape
  <2>2. \A what : Cardinality(Ended(what)) \in Nat
    <3>1. Under
      BY <1>11 DEF Settle, Under
    <3>2. \A what : Ended(what) \in SUBSET Rows
      BY <3>1, BatchRows DEF Ended
    <3>. QED
      BY <3>2, RowsCount, RowsAssumption
  <2>3. count' \in Nat /\ errors' \in Nat /\ at' \in {"open", "done"} /\ answer' \in {"none", "ok", "error"}
    BY <1>11, <2>2 DEF Settle, Answer, Shape
  <2>4. /\ outcome' \in [Rows -> Outcomes] /\ table' \in [Rows -> Records]
        /\ related' \in SUBSET Rows
    BY <1>11, ShapeOfCommit DEF Settle
  <2>. QED
    BY <1>11, <2>1, <2>3, <2>4 DEF Settle, Shape, options, Kinds
<1>12. CASE CommitFails
  BY <1>12, ShapeOfRollBack, ShapeOfBatchFails DEF CommitFails
<1>13. CASE Return
  <2>1. /\ outcome' \in [Rows -> Outcomes] /\ table' \in [Rows -> Records]
        /\ related' \in SUBSET Rows
    BY <1>13, ShapeOfCommit DEF Return
  <2>. QED
    BY <1>13, <2>1 DEF Return, Answer, Shape, options, Kinds
<1>14. CASE WholeFails
  <2>1. /\ at' \in {"prepare", "open", "done"}
        /\ answer' \in {"none", "ok", "error"}
        /\ count' \in Nat /\ errors' \in Nat
    BY <1>14, ShapeOfFailed, RowsAssumption DEF WholeFails
  <2>. QED
    BY <1>14, <2>1, ShapeOfRollBack DEF WholeFails, Shape, options, Kinds
<1>. QED
  BY <1>1, <1>2, <1>3, <1>4, <1>5, <1>6, <1>7, <1>8, <1>9, <1>10, <1>11, <1>12, <1>13, <1>14
-----------------------------------------------------------------------------
(* The steps of one row.                                                    *)

\* A row that goes on touches no other.
LEMMA OneRow ==
  ASSUME Shape, Running, AtRows, at = "write" => ~Together,
         NEW what, NEW heard, SaysAndTells(what, heard),
         NEW row, row = Row,
         NEW t, table' \in {table, [table EXCEPT ![row] = t]},
         related' \in {related, related \cup {row}},
         queue' \in {queue, queue \cup {row}}
  PROVE  /\ row \in Rows /\ Comes(row)
         /\ UNCHANGED <<at, sent, kind, locked, cascades, Transactional, HooksWait>>
         /\ outcome'[row] = what
         /\ told'[row] = IF HooksWait THEN told[row] ELSE heard
         /\ Went(row)' => Running'
<1>1. /\ Under /\ next <= Len(batch) /\ row \in Rows /\ Comes(row)
  BY RowAtHand
<1>2. /\ UNCHANGED <<options, at, prepared, batch, sent, saved, result>>
      /\ next' = next + 1
      /\ outcome' = [outcome EXCEPT ![row] = what]
      /\ told' = IF HooksWait THEN told ELSE [told EXCEPT ![row] = heard]
  BY DEF SaysAndTells
<1>3. UNCHANGED <<at, sent, kind, locked, cascades, Transactional, HooksWait>>
  BY <1>2 DEF options, Transactional, PerBatch, Whole, HooksWait
<1>4. OthersStay({row})
  BY <1>1, <1>2 DEF OthersStay, Same, Shape
<1>5. outcome'[row] = what /\ told'[row] = IF HooksWait THEN told[row] ELSE heard
  BY <1>1, <1>2 DEF Shape
<1>6. Went(row)' => Running'
  BY <1>1, <1>2, <1>4, RowStep
<1>. QED
  BY <1>1, <1>3, <1>5, <1>6

LEMMA RelateGoesOn ==
  ASSUME Shape, Running, Relate
  PROVE  Running'
<1>. PICK row : row = Row
  OBVIOUS
<1>0. AtRows /\ at = "relate" /\ kind = "destroy"
  BY DEF Relate, AtRows, AtRow, Running, Ordered
<1>1. /\ SaysAndTells("ok", "none") /\ UNCHANGED <<table, queue>>
      /\ related' = IF cascades THEN related \cup {row} ELSE related
  BY DEF Relate, Says
<1>2. /\ row \in Rows /\ Comes(row)
      /\ UNCHANGED <<at, kind, cascades, Transactional>>
      /\ outcome'[row] = "ok"
      /\ Went(row)' => Running'
  BY <1>0, <1>1, OneRow
<1>3. Found(row)'
  BY <1>0, <1>1, <1>2 DEF Comes, Fresh, Found
<1>. QED
  BY <1>0, <1>2, <1>3 DEF Went

LEMMA FoundStaleGoesOn ==
  ASSUME Shape, Running, FoundStale
  PROVE  Running'
<1>. PICK row : row = Row
  OBVIOUS
<1>0. /\ AtRows
      /\ at = "write" => ~Together
      /\ \/ at = "relate" /\ kind = "destroy"
         \/ at = "write" /\ kind = "destroy_each"
  BY DEF FoundStale, AtRows, AtRow, Together, Running, Ordered
<1>1. SaysAndTells("stale", "none") /\ UNCHANGED <<table, related, queue>>
  BY DEF FoundStale, Says, store
<1>a. /\ table' \in {table, [table EXCEPT ![row] = "before"]}
      /\ related' \in {related, related \cup {row}}
      /\ queue' \in {queue, queue \cup {row}}
  BY <1>1
<1>2. /\ row \in Rows /\ Comes(row)
      /\ UNCHANGED <<at, kind, cascades, Transactional, HooksWait>>
      /\ outcome'[row] = "stale"
      /\ told'[row] = IF HooksWait THEN told[row] ELSE "none"
      /\ Went(row)' => Running'
  BY <1>0, <1>1, <1>a, OneRow
<1>3. LeftStale(row)' /\ table'[row] = "before"
  BY <1>0, <1>1, <1>2 DEF Comes, Fresh, LeftStale
<1>4. Finishes(row)' \/ at = "relate"
  BY <1>0, <1>2, <1>3 DEF Finishes, HooksWait
<1>. QED
  BY <1>0, <1>2, <1>3, <1>4 DEF Went

LEMMA WriteRowGoesOn ==
  ASSUME Shape, Running, WriteRow
  PROVE  Running'
<1>. PICK row : row = Row
  OBVIOUS
<1>0. /\ AtRows /\ at = "write" /\ ~Together
      /\ kind = "destroy" => outcome[row] = "ok"
  BY DEF WriteRow, Writing, AtRows, AtRow
<1>b. SaysAndTells("ok", "ok")
  BY DEF WriteRow
<1>1. /\ table' = [table EXCEPT ![row] = "after"]
      /\ related' = IF kind = "destroy_each" THEN related \cup {row} ELSE related
      /\ queue' = IF kind = "destroy_each" THEN queue \cup {row} ELSE queue
  BY DEF WriteRow
<1>a. /\ table' \in {table, [table EXCEPT ![row] = "after"]}
      /\ related' \in {related, related \cup {row}}
      /\ queue' \in {queue, queue \cup {row}}
  BY <1>1
<1>2. /\ row \in Rows /\ Comes(row)
      /\ UNCHANGED <<at, kind, cascades, Transactional, HooksWait>>
      /\ outcome'[row] = "ok"
      /\ told'[row] = IF HooksWait THEN told[row] ELSE "ok"
      /\ Went(row)' => Running'
  BY <1>0, <1>a, <1>b, OneRow
<1>3. table'[row] = "after"
  BY <1>1, <1>2 DEF Shape
<1>4. CASE kind = "destroy_each"
  <2>1. Kept(row)'
    BY <1>1, <1>2, <1>3, <1>4 DEF Kept
  <2>2. Finishes(row)'
    BY <1>2, <1>3, <1>4, <2>1 DEF Finishes, HooksWait
  <2>. QED
    BY <1>0, <1>2, <1>4, <2>2 DEF Went
<1>5. CASE kind # "destroy_each"
  <2>1. CASE kind = "destroy"
    <3>1. Found(row)
      BY <1>0, <1>2, <2>1 DEF Comes, LeftStale, Lost
    <3>. QED
      BY <1>0, <1>1, <1>2, <1>3, <2>1, <3>1 DEF Found, Wrote, Went
  <2>2. CASE kind # "destroy"
    <3>1. Fresh(row) /\ ~cascades
      BY <1>0, <1>2, <1>5, <2>2 DEF Comes, Shape
    <3>. QED
      BY <1>0, <1>1, <1>2, <1>3, <1>5, <2>2, <3>1 DEF Fresh, Wrote, Went
  <2>. QED
    BY <2>1, <2>2
<1>. QED
  BY <1>4, <1>5

\* A row to be written is found, or fresh: in its table as it was.
LEMMA BeforeWriting ==
  ASSUME Shape, Running, Writing, NEW row, row = Row
  PROVE  /\ AtRows /\ at = "write" /\ ~Together
         /\ Transactional => table[row] = "before" /\ row \notin queue
<1>1. /\ AtRows /\ at = "write" /\ ~Together
      /\ kind = "destroy" => outcome[row] = "ok"
  BY DEF Writing, AtRows, AtRow
<1>2. Comes(row)
  BY <1>1, RowAtHand
<1>3. Fresh(row) \/ Found(row)
  BY <1>1, <1>2 DEF Comes, LeftStale, Lost
<1>. QED
  BY <1>1, <1>3 DEF Fresh, Found

LEMMA RowIsStaleGoesOn ==
  ASSUME Shape, Running, RowIsStale, ~(cascades /\ Transactional)
  PROVE  Running'
<1>. PICK row : row = Row
  OBVIOUS
<1>0. /\ AtRows /\ at = "write" /\ ~Together
      /\ Transactional => table[row] = "before" /\ row \notin queue
  BY BeforeWriting DEF RowIsStale
<1>1. /\ SaysAndTells("stale", "error") /\ UNCHANGED <<table, queue>>
      /\ related' \in {related, related \cup {row}}
  BY DEF RowIsStale
<1>2. /\ row \in Rows
      /\ UNCHANGED <<at, kind, cascades, Transactional, HooksWait>>
      /\ outcome'[row] = "stale"
      /\ told'[row] = IF HooksWait THEN told[row] ELSE "error"
      /\ Went(row)' => Running'
  BY <1>0, <1>1, OneRow
<1>3. LeftStale(row)'
  BY <1>0, <1>1, <1>2 DEF LeftStale
<1>4. Finishes(row)' \/ kind # "destroy_each"
  BY <1>2, <1>3 DEF Finishes, HooksWait
<1>. QED
  BY <1>0, <1>2, <1>3, <1>4 DEF Went

\* Where nothing is rolled back, a failure is of the row alone.
LEMMA FailsAloneGoesOn ==
  ASSUME Shape, Running, AtRows, ~Transactional, at = "write" => ~Together,
         NEW t, NEW rel \in {related, related \cup {Row}},
         NEW new \in {table, [table EXCEPT ![Row] = t]},
         FailsWith(new, rel)
  PROVE  Running'
<1>. PICK row : row = Row
  OBVIOUS
<1>1. /\ SaysAndTells("error", "error")
      /\ table' = new /\ related' = rel /\ UNCHANGED queue
  BY DEF FailsWith
<1>2. /\ UNCHANGED <<at, kind, Transactional, HooksWait>>
      /\ outcome'[row] = "error"
      /\ told'[row] = IF HooksWait THEN told[row] ELSE "error"
      /\ Went(row)' => Running'
  BY <1>1, OneRow
<1>3. Lost(row)'
  BY <1>2 DEF Lost
<1>4. at # "finish" \/ kind # "destroy_each"
  BY DEF Running, Ordered
<1>5. Finishes(row)' \/ kind = "destroy_each"
  BY <1>2, <1>3 DEF Finishes, HooksWait
<1>6. Finishes(row)' \/ kind # "destroy_each"
  BY <1>2, <1>3 DEF Finishes, HooksWait
<1>. QED
  BY <1>2, <1>3, <1>5, <1>6 DEF Went, AtRows, AtRow
LEMMA RowFailsGoesOn ==
  ASSUME Shape, Running, RowFails, ~(cascades /\ Transactional)
  PROVE  Running'
<1>. PICK row : row = Row
  OBVIOUS
<1>0. /\ AtRows /\ at = "write" /\ ~Together
      /\ Transactional => table[row] = "before" /\ row \notin queue
  BY BeforeWriting DEF RowFails
<1>1. CASE cascades
  <2>1. ~Transactional
    BY <1>1
  <2>2. kind \in {"destroy", "destroy_each"}
    BY <1>1 DEF Shape
  <2>3. \E rel \in {related, related \cup {row}} : FailsWith(table, rel)
    BY <1>1, <2>2 DEF RowFails
  <2>. QED
    BY <1>0, <2>1, <2>3, FailsAloneGoesOn
<1>2. CASE ~cascades
  <2>1. kind # "destroy_each"
    BY <1>2 DEF Shape
  <2>2. SaysAndTells("error", "none") /\ UNCHANGED <<table, related, queue>>
    BY <1>2, <2>1 DEF RowFails, Says, store
  <2>3. /\ row \in Rows
        /\ UNCHANGED <<at, kind, cascades, Transactional>>
        /\ outcome'[row] = "error"
        /\ Went(row)' => Running'
    BY <1>0, <2>2, OneRow
  <2>4. Lost(row)'
    BY <1>0, <2>2, <2>3 DEF Lost
  <2>. QED
    BY <1>0, <2>1, <2>3, <2>4 DEF Went
<1>. QED
  BY <1>1, <1>2

LEMMA LeftOutGoesOn ==
  ASSUME Shape, Running, LeftOut
  PROVE  Running'
<1>. PICK row : row = Row
  OBVIOUS
<1>0. AtRows /\ at = "write" /\ ~Together /\ kind = "destroy" /\ outcome[row] # "ok"
  BY DEF LeftOut, AtRows, AtRow, Together
<1>. PICK what : what = outcome[row]
  OBVIOUS
<1>1. SaysAndTells(what, "none") /\ UNCHANGED <<table, related, queue>>
  BY DEF LeftOut, Says, store
<1>2. /\ row \in Rows /\ Comes(row)
      /\ UNCHANGED <<at, kind, cascades, Transactional>>
      /\ outcome'[row] = what
      /\ Went(row)' => Running'
  BY <1>0, <1>1, OneRow
<1>3. LeftStale(row) \/ Lost(row)
  BY <1>0, <1>2 DEF Comes, Found
<1>4. LeftStale(row)' \/ Lost(row)'
  BY <1>1, <1>2, <1>3 DEF LeftStale, Lost
<1>. QED
  BY <1>0, <1>2, <1>4 DEF Went

\* A row to be finished is written, left out or lost.
LEMMA BeforeFinishing ==
  ASSUME Shape, Running, NEW what, Finishing(what), NEW row, row = Row
  PROVE  /\ AtRows /\ at = "finish" /\ kind # "destroy_each"
         /\ row \in Rows /\ outcome[row] = what
         /\ what = "ok" => Wrote(row)
         /\ what = "stale" => LeftStale(row)
<1>1. AtRows /\ at = "finish" /\ outcome[row] = what
  BY DEF Finishing, AtRows, AtRow
<1>2. Comes(row) /\ row \in Rows
  BY <1>1, RowAtHand
<1>3. Wrote(row) \/ LeftStale(row) \/ Lost(row)
  BY <1>1, <1>2 DEF Comes
<1>. QED
  BY <1>1, <1>2, <1>3 DEF Wrote, LeftStale, Lost, Running, Ordered

LEMMA FinishRowGoesOn ==
  ASSUME Shape, Running, FinishRow
  PROVE  Running'
<1>. PICK row : row = Row
  OBVIOUS
<1>0. AtRows /\ at = "finish" /\ kind # "destroy_each" /\ row \in Rows /\ Wrote(row)
  BY BeforeFinishing DEF FinishRow
<1>1. /\ SaysAndTells("ok", "none") /\ UNCHANGED <<table, related>>
      /\ queue' = queue \cup {row}
  BY DEF FinishRow, Says
<1>2. /\ UNCHANGED <<at, kind, cascades, Transactional>>
      /\ outcome'[row] = "ok"
      /\ Went(row)' => Running'
  BY <1>0, <1>1, OneRow
<1>3. Finishes(row)'
  BY <1>0, <1>1, <1>2 DEF Wrote, Kept, Finishes, HooksWait
<1>. QED
  BY <1>0, <1>2, <1>3 DEF Went

LEMMA FinishFailsGoesOn ==
  ASSUME Shape, Running, FinishFails, ~Transactional
  PROVE  Running'
<1>1. AtRows /\ at = "finish"
  BY BeforeFinishing DEF FinishFails
<1>2. PICK t \in Undone : FailsWith([table EXCEPT ![Row] = t], related \cup {Row})
  BY DEF FinishFails
<1>. QED
  BY <1>1, <1>2, FailsAloneGoesOn

LEMMA ChildIsStaleGoesOn ==
  ASSUME Shape, Running, ChildIsStale
  PROVE  Running'
<1>. PICK row : row = Row
  OBVIOUS
<1>0. /\ AtRows /\ at = "finish" /\ row \in Rows /\ Wrote(row)
      /\ kind \in {"update", "upsert"}
  BY BeforeFinishing DEF ChildIsStale
<1>1. PICK what \in {"stale_child", "raised"} :
        SaysAndTells(what, "none") /\ UNCHANGED queue
  BY DEF ChildIsStale, Says
<1>2. PICK t : table' = [table EXCEPT ![row] = t]
  BY DEF ChildIsStale
<1>3. related' = related \cup {row}
  BY DEF ChildIsStale
<1>a. /\ table' \in {table, [table EXCEPT ![row] = t]}
      /\ related' \in {related, related \cup {row}}
      /\ queue' \in {queue, queue \cup {row}}
  BY <1>1, <1>2, <1>3
<1>b. at = "write" => ~Together
  BY <1>0
<1>4. /\ UNCHANGED <<at, kind, cascades, Transactional>>
      /\ outcome'[row] = what
      /\ Went(row)' => Running'
  BY <1>0, <1>1, <1>a, <1>b, OneRow
<1>5. ~cascades
  BY <1>0 DEF Shape
<1>6. Finishes(row)'
  BY <1>0, <1>1, <1>4, <1>5 DEF Wrote, LeftWithChild, Finishes, HooksWait
<1>. QED
  BY <1>0, <1>4, <1>6 DEF Went

LEMMA FinishStaleGoesOn ==
  ASSUME Shape, Running, FinishStale
  PROVE  Running'
<1>. PICK row : row = Row
  OBVIOUS
<1>0. AtRows /\ at = "finish" /\ kind # "destroy_each" /\ row \in Rows /\ LeftStale(row)
  BY BeforeFinishing DEF FinishStale
<1>1. SaysAndTells("stale", "none") /\ UNCHANGED <<table, related, queue>>
  BY DEF FinishStale, Says, store
<1>2. /\ UNCHANGED <<at, kind, cascades, Transactional>>
      /\ outcome'[row] = "stale"
      /\ Went(row)' => Running'
  BY <1>0, <1>1, OneRow
<1>3. Finishes(row)'
  BY <1>0, <1>1, <1>2 DEF LeftStale, Finishes, HooksWait
<1>. QED
  BY <1>0, <1>2, <1>3 DEF Went
-----------------------------------------------------------------------------
(* The turns from a phase of a batch to the next.                           *)

\* A row alone is the same before and after, and so is what holds of it.
LEMMA AllSame ==
  ASSUME UNCHANGED <<outcome, store, sent, told>>
  PROVE  OthersStay({})
  BY DEF OthersStay, Same, store

LEMMA Turn ==
  ASSUME Shape, Running, Under, next > Len(batch),
         NEW phase \in {"write", "finish", "commit"}, TurnsTo(phase),
         phase = "write" => kind = "destroy",
         phase = "finish" => kind # "destroy_each",
         \A r \in Rows : Went(r) => Comes(r)'
  PROVE  Running'
<1>1. /\ UNCHANGED <<options, prepared, batch, outcome, store, sent, saved, told, result>>
      /\ at' = phase /\ next' = 1
  BY DEF TurnsTo
<1>2. UNCHANGED <<kind, cascades, Transactional, Whole, PerBatch, InBatch>> /\ Under'
  BY <1>1 DEF options, Transactional, PerBatch, Whole, InBatch, Under
<1>3. Waiting' = Waiting /\ Over' = Over
  BY <1>1, <1>2, BatchRows DEF Waiting, Over, Current, Under, In
<1>4. \A r \in Rows : (Fresh(r) => Fresh(r)') /\ (Settled(r) => Settled(r)')
  <2>1. \A r \in Rows : Same(r)
    BY <1>1, AllSame DEF OthersStay
  <2>. QED
    BY <1>1, <2>1, SameStays
<1>5. Ordered'
  BY <1>1, <1>2, BatchRows DEF Running, Ordered, Under, Climbs
<1>6. UnderWay'
  <2>1. ASSUME NEW i \in 1..Len(batch)
        PROVE  /\ i >= 1 /\ ~(i < 1)
               /\ Comes(batch[i])'
               /\ Transactional => batch[i] \notin sent
    <3>1. i \in DOMAIN batch /\ i < next /\ batch[i] \in Rows
      BY BatchRows DEF Shape
    <3>. QED
      BY <1>1, <3>1 DEF Running, UnderWay
  <2>. QED
    BY <1>1, <1>2, <2>1, BatchRows DEF UnderWay
<1>7. Saved'
  BY <1>1, <1>2 DEF Running, Saved, store
<1>8. Tally' /\ Excused'
  BY <1>1, <1>3, StillExcused DEF Running, Tally, Counted, result
<1>9. Waiting \subseteq Rows /\ Over \subseteq Rows
  BY BatchRows
<1>. QED
  BY <1>3, <1>4, <1>5, <1>6, <1>7, <1>8, <1>9 DEF Running

LEMMA RelatedGoesOn ==
  ASSUME Shape, Running, Related
  PROVE  Running'
<1>1. /\ Under /\ next > Len(batch) /\ TurnsTo("write")
      /\ at = "relate" /\ at' = "write" /\ kind = "destroy"
  BY DEF Related, Through, Under, TurnsTo, Running, Ordered
<1>2. \A r \in Rows : Went(r) => Comes(r)'
  BY <1>1 DEF TurnsTo, options, store, Went, Comes, Found, LeftStale, Lost, Transactional, PerBatch, Whole
<1>. QED
  BY <1>1, <1>2, Turn

LEMMA WrittenGoesOn ==
  ASSUME Shape, Running, Written
  PROVE  Running'
<1>. PICK phase : phase = IF kind = "destroy_each" THEN "commit" ELSE "finish"
  OBVIOUS
<1>1. /\ Under /\ next > Len(batch) /\ TurnsTo(phase)
      /\ at = "write" /\ at' = phase
  BY DEF Written, Through, Under, TurnsTo
<1>2. /\ UNCHANGED <<kind, Transactional, HooksWait>>
      /\ UNCHANGED <<cascades, outcome, table, related, queue, told>>
  BY <1>1 DEF TurnsTo, options, store, Transactional, PerBatch, Whole, HooksWait
<1>3. \A r \in Rows : Went(r) => Comes(r)'
  <2>1. ASSUME NEW r
        PROVE  (Finishes(r) => Finishes(r)') /\ (Wrote(r) => Wrote(r)')
               /\ (LeftStale(r) => LeftStale(r)') /\ (Lost(r) => Lost(r)')
    BY <1>2 DEF Finishes, Kept, Wrote, LeftStale, LeftWithChild, Lost
  <2>. QED
    BY <1>1, <2>1 DEF Went, Comes
<1>. QED
  BY <1>1, <1>3, Turn

LEMMA FinishedGoesOn ==
  ASSUME Shape, Running, Finished
  PROVE  Running'
<1>1. /\ Under /\ next > Len(batch) /\ TurnsTo("commit")
      /\ at = "finish" /\ at' = "commit"
  BY DEF Finished, Through, Under, TurnsTo
<1>2. /\ UNCHANGED <<kind, Transactional, HooksWait>>
      /\ UNCHANGED <<cascades, outcome, table, related, queue, told>>
  BY <1>1 DEF TurnsTo, options, store, Transactional, PerBatch, Whole, HooksWait
<1>3. \A r \in Rows : Went(r) => Comes(r)'
  <2>1. ASSUME NEW r
        PROVE  Finishes(r) => Finishes(r)'
    BY <1>2 DEF Finishes, Kept, LeftStale, LeftWithChild, Lost
  <2>. QED
    BY <1>1, <2>1 DEF Went, Comes
<1>. QED
  BY <1>1, <1>3, Turn
-----------------------------------------------------------------------------
(* Counting, and where a call ends.                                         *)

\* Rows that wait, are in the batch or are done with are all the rows there are.
LEMMA AllRows ==
  ASSUME Shape, Running
  PROVE  /\ Rows = Waiting \cup Current \cup Over
         /\ Waiting \subseteq Rows /\ Over \subseteq Rows /\ Current \subseteq Rows
         /\ Waiting \cap Over = {} /\ Current \cap Over = {}
<1>1. prepared \in Seq(Rows) /\ Climbs(prepared) /\ next \in 1..N + 1
  BY DEF Shape, Running, Ordered
<1>2. Waiting \subseteq Rows
  <2>1. In(prepared) \subseteq Rows
    BY <1>1, EachOnce
  <2>2. next..N \subseteq Rows
    BY <1>1, RowsAssumption DEF Rows
  <2>. QED
    BY <2>1, <2>2 DEF Waiting
<1>3. Current \subseteq Rows
  BY BatchRows DEF Current
<1>. QED
  BY <1>2, <1>3 DEF Over

LEMMA CountsFit ==
  ASSUME Shape, Running
  PROVE  count + errors <= N
<1>1. Counted({"ok", "dropped"}) \in SUBSET Rows /\ Counted({"error", "refused"}) \in SUBSET Rows
  BY AllRows DEF Counted
<1>2. Counted({"ok", "dropped"}) \cap Counted({"error", "refused"}) = {}
  BY DEF Counted
<1>3. Counted({"ok", "dropped"}) \cup Counted({"error", "refused"}) \in SUBSET Rows
  BY <1>1
<1>4. Cardinality(Counted({"ok", "dropped"}) \cup Counted({"error", "refused"})) <= N
  BY <1>3, RowsCount, RowsAssumption
<1>. QED
  BY <1>1, <1>2, <1>4, PartsAddUp DEF Running, Tally

\* A whole action that fails leaves nothing behind.
LEMMA WholeUndone ==
  ASSUME Shape, Running, Whole, RollBack, UNCHANGED <<options, sent>>,
         Done', count' = 0, errors' \in Given, answer' \in {"ok", "error"},
         \A r \in Rows : outcome'[r] # "dropped"
  PROVE  Closed'
<1>1. /\ \A r \in Rows : table'[r] = "before"
      /\ related' = {} /\ queue' = {} /\ sent' = {}
  BY DEF RollBack, Running, Saved
<1>2. Whole' /\ HooksInside' /\ Given' = Given
  BY DEF Whole, HooksInside, options, Given, Destroys
<1>3. WholeIsAllOrNothing'
  BY <1>1 DEF WholeIsAllOrNothing
<1>4. CountIsStored'
  <2>1. Stored' = {} /\ Dropped' = {} /\ Cardinality({}) = 0
    BY <1>1, FS_EmptySet DEF Stored, Dropped
  <2>. QED
    BY <1>1, <2>1 DEF CountIsStored
<1>5. Accounted'
  BY <1>2 DEF Accounted
<1>6. HooksHear'
  BY <1>2 DEF HooksHear
<1>. QED
  BY <1>2, <1>3, <1>4, <1>5, <1>6 DEF Closed

\* One that stops at an error, not in one transaction, leaves each row as it was
\* or done with.
LEMMA StopsHere ==
  ASSUME Shape', ~Whole', Done', answer' = "error",
         (count + errors <= N)', Excused',
         \A r \in Rows : Fresh(r)' \/ Settled(r)'
  PROVE  Closed'
<1>1. WholeIsAllOrNothing' /\ Accounted'
  BY DEF WholeIsAllOrNothing, Accounted
<1>2. CountIsStored'
  <2>. SUFFICES ASSUME Transactional'
                PROVE  /\ sent' = Stored' \cup Dropped'
                       /\ \A r \in Dropped' : table'[r] = "before"
                       /\ (cascades => related = Stored)'
                       /\ \A r \in Rows : (table[r] = "gone" => outcome[r] = "stale_child")'
    <3>1. Dropped' # {} => \E r \in Rows : outcome'[r] = "raised"
      BY DEF Excused, Over
    <3>. QED
      BY <3>1 DEF CountIsStored
  <2>1. ASSUME NEW r \in Rows
        PROVE  /\ r \in sent' <=> r \in Stored' \cup Dropped'
               /\ r \in Dropped' => table'[r] = "before"
               /\ cascades' => (r \in related' <=> r \in Stored')
               /\ (table[r] = "gone" => outcome[r] = "stale_child")'
    <3>1. CASE Fresh(r)'
      BY <3>1 DEF Fresh, Stored, Dropped
    <3>2. CASE Settled(r)'
      BY <3>2 DEF Settled, Stored, Dropped
    <3>. QED
      BY <3>1, <3>2
  <2>2. /\ sent' \subseteq Rows /\ related' \subseteq Rows /\ Stored' \subseteq Rows
        /\ Dropped' \subseteq Rows
    BY DEF Shape, Stored, Dropped
  <2>. QED
    BY <2>1, <2>2
<1>3. HooksHear'
  <2>1. ASSUME NEW r \in Rows, ~HooksInside'
        PROVE  /\ (told[r] = "ok" => table[r] = "after" \/ r \in Dropped)'
               /\ (Transactional /\ told[r] = "error" =>
                    table[r] = "before" \/ outcome[r] = "stale_child")'
    BY <2>1 DEF Fresh, Settled, Dropped
  <2>. QED
    BY <2>1 DEF HooksHear
<1>. QED
  BY <1>1, <1>2, <1>3 DEF Closed
-----------------------------------------------------------------------------
(* A batch that fails.                                                      *)

\* What is undone, or stays, of a batch that fails outside one transaction of
\* the whole action: the rows of the batch failed, the others are as they were.
LEMMA FailedBatch ==
  ASSUME Shape, Running, Under, ~Whole, BatchFails,
         HooksWait \/ at # "write" \/ next <= Len(batch),
         \/ Transactional /\ RollBack
         \/ ~Transactional /\ HooksWait /\ UNCHANGED <<related, queue>>
              /\ \A r \in Rows \ InBatch : table'[r] = table[r]
  PROVE  /\ \A r \in Waiting : Fresh(r)'
         /\ \A r \in Over \cup InBatch : Settled(r)'
         /\ \A r \in Rows : outcome'[r] = IF r \in InBatch THEN "error" ELSE outcome[r]
         /\ PerBatch => queue' = {}
         /\ Over \subseteq Over' => Excused'
<1>1. /\ UNCHANGED <<options, next, prepared, batch, sent, saved>>
      /\ outcome' = Batched("error", outcome)
  BY DEF BatchFails
<1>2. UNCHANGED <<kind, cascades, Transactional, Whole, PerBatch, HooksInside, HooksWait>>
  BY <1>1 DEF options, Transactional, Whole, PerBatch, HooksInside, HooksWait
<1>3. \A r \in Rows : outcome'[r] = IF r \in InBatch THEN "error" ELSE outcome[r]
  BY <1>1 DEF Batched
<1>4. ASSUME NEW r \in Rows
      PROVE  /\ r \notin InBatch => told'[r] = told[r]
             /\ HooksWait /\ r \in InBatch => told'[r] = "error"
  <2>1. ASSUME ~HooksWait, at = "write"
        PROVE  Row \in InBatch
    <3>1. next \in 1..Len(batch)
      BY <2>1, BatchRows, RowsAssumption DEF Shape
    <3>. QED
      BY <3>1, BatchRows DEF Row
  <2>2. CASE HooksWait
    BY <2>2 DEF BatchFails, Batched
  <2>3. CASE ~HooksWait
    <3>1. told' \in IF at = "write" THEN {told, [told EXCEPT ![Row] = "error"]} ELSE {told}
      BY <2>3 DEF BatchFails
    <3>. QED
      BY <2>1, <2>3, <3>1 DEF Shape
  <2>. QED
    BY <2>2, <2>3
<1>5. PerBatch => queue' = {}
  BY DEF Transactional, RollBack, Running, Saved
<1>6. ASSUME NEW r \in Rows \ InBatch
      PROVE  Same(r)
  <2>1. outcome'[r] = outcome[r] /\ told'[r] = told[r] /\ sent' = sent
    BY <1>1, <1>3, <1>4
  <2>2. CASE Transactional
    <3>1. PerBatch /\ RollBack
      BY <2>2 DEF Transactional
    <3>2. /\ table'[r] = table[r]
          /\ r \in related' <=> r \in related
          /\ r \notin queue' /\ r \notin queue
      BY <1>5, <3>1 DEF RollBack, Running, Saved
    <3>. QED
      BY <2>1, <3>2 DEF Same
  <2>3. CASE ~Transactional
    BY <2>1, <2>3 DEF Same
  <2>. QED
    BY <2>2, <2>3
<1>7. \A r \in Waiting : Fresh(r)'
  <2>1. \A r \in Waiting : r \in Rows \ InBatch
    BY BatchRows
  <2>. QED
    BY <1>1, <1>6, <2>1, SameStays DEF Running
<1>8. \A r \in Over : Settled(r)'
  <2>1. \A r \in Over : r \in Rows \ InBatch
    BY BatchRows
  <2>. QED
    BY <1>1, <1>6, <2>1, SameStays DEF Running
<1>9. ASSUME NEW r \in InBatch
      PROVE  Settled(r)'
  <2>1. r \in Rows /\ outcome'[r] = "error"
    BY <1>3, BatchRows
  <2>2. HooksWait => told'[r] = "error"
    BY <1>4, <2>1
  <2>3. CASE Transactional
    <3>1. PerBatch /\ RollBack
      BY <2>3 DEF Transactional
    <3>2. /\ table'[r] = "before" /\ r \notin queue'
          /\ cascades => r \notin related'
      BY <3>1 DEF RollBack, Running, Saved
    <3>3. r \notin sent'
      <4>1. PICK i \in DOMAIN batch : r = batch[i]
        BY DEF InBatch
      <4>. QED
        BY <1>1, <2>3, <4>1 DEF Running, UnderWay
    <3>4. HooksInside \/ HooksWait
      BY <3>1 DEF HooksInside
    <3>. QED
      BY <1>2, <2>1, <2>2, <2>3, <3>2, <3>3, <3>4 DEF Settled
  <2>4. CASE ~Transactional
    BY <1>2, <2>1, <2>2, <2>4 DEF Settled
  <2>. QED
    BY <2>3, <2>4
<1>10. ASSUME Over \subseteq Over'
       PROVE  Excused'
  <2>1. \A r \in Over : r \in Rows \ InBatch
    BY BatchRows
  <2>. QED
    BY <1>3, <1>10, <2>1, StillExcused
<1>. QED
  BY <1>3, <1>5, <1>7, <1>8, <1>9, <1>10

\* It is counted, and the call goes on or stops.
LEMMA BatchFailsGoesOn ==
  ASSUME Shape, Shape', Running, Under, BatchFails,
         HooksWait \/ at # "write" \/ next <= Len(batch),
         \/ Transactional /\ RollBack
         \/ ~Transactional /\ HooksWait /\ UNCHANGED <<related, queue>>
              /\ \A r \in Rows \ InBatch : table'[r] = table[r]
  PROVE  GoesOn
<1>1. /\ UNCHANGED <<options, next, prepared, batch, sent, saved>>
      /\ Failed(Len(batch), "open")
  BY DEF BatchFails
<1>2. UNCHANGED <<kind, cascades, Transactional, Whole, PerBatch, InBatch>>
  BY <1>1 DEF options, Transactional, Whole, PerBatch, InBatch
<1>3. CASE Whole
  <2>1. RollBack
    BY <1>3 DEF Transactional
  <2>2. Done' /\ count' = 0 /\ errors' \in Given /\ answer' \in {"ok", "error"}
    BY <1>1, <1>3 DEF Failed, Answer, Done
  <2>3. \A r \in Rows : outcome'[r] # "dropped"
    BY <1>3, NoneDropped DEF BatchFails, Batched
  <2>. QED
    BY <1>1, <1>3, <2>1, <2>2, <2>3, WholeUndone DEF GoesOn, Done
<1>4. CASE ~Whole
  <2>1. /\ \A r \in Waiting : Fresh(r)'
        /\ \A r \in Over \cup InBatch : Settled(r)'
        /\ \A r \in Rows : outcome'[r] = IF r \in InBatch THEN "error" ELSE outcome[r]
        /\ PerBatch => queue' = {}
        /\ Over \subseteq Over' => Excused'
    BY <1>4, FailedBatch
  <2>2. CASE stop
    <3>1. Done' /\ answer' = "error" /\ UNCHANGED <<count, errors>>
      BY <1>1, <1>4, <2>2 DEF Failed, Answer, Done
    <3>2. \A r \in Rows : Fresh(r)' \/ Settled(r)'
      BY <2>1, AllRows DEF Current
    <3>3. Over \subseteq Over'
      <4>1. ~Under' /\ Waiting' = In(prepared)
        BY <1>1, <3>1 DEF Under, Waiting, In, Done
      <4>. QED
        BY <4>1, BatchRows DEF Over, Current
    <3>4. Closed'
      BY <1>2, <1>4, <2>1, <3>1, <3>2, <3>3, CountsFit, StopsHere
    <3>. QED
      BY <3>1, <3>4 DEF GoesOn, Done
  <2>3. CASE ~stop
    <3>1. at' = "open" /\ errors' = errors + Len(batch) /\ UNCHANGED <<count, answer>>
      BY <1>1, <1>4, <2>3 DEF Failed
    <3>2. ~Under' /\ Waiting' = Waiting /\ Over' = Over \cup InBatch
      <4>1. ~Under' /\ Waiting' = In(prepared)
        BY <1>1, <3>1 DEF Under, Waiting, In
      <4>2. Over' = Rows \ In(prepared)
        BY <4>1 DEF Over, Current
      <4>. QED
        BY <4>1, <4>2, BatchRows
    <3>3. Ordered' /\ UnderWay'
      BY <1>1, <3>1, <3>2 DEF Running, Ordered, UnderWay, Climbs
    <3>4. Saved'
      BY <1>2, <1>4, <2>1, <3>2 DEF Saved, Transactional
    <3>5. Tally'
      <4>1. Counted({"ok", "dropped"})' = Counted({"ok", "dropped"})
        <5>1. \A r \in Over \cup InBatch : outcome'[r] \in {"ok", "dropped"}
                <=> r \in Over /\ outcome[r] \in {"ok", "dropped"}
          BY <2>1, BatchRows
        <5>. QED
          BY <3>2, <5>1 DEF Counted
      <4>2. Counted({"error", "refused"})' = Counted({"error", "refused"}) \cup InBatch
        <5>1. \A r \in Over \cup InBatch : outcome'[r] \in {"error", "refused"}
                <=> r \in InBatch \/ outcome[r] \in {"error", "refused"}
          BY <2>1, BatchRows
        <5>. QED
          BY <3>2, <5>1 DEF Counted
      <4>3. Counted({"error", "refused"}) \in SUBSET Rows /\ InBatch \in SUBSET Rows
            /\ Counted({"error", "refused"}) \cap InBatch = {}
        BY BatchRows DEF Counted
      <4>4. Cardinality(Counted({"error", "refused"}) \cup InBatch)
              = Cardinality(Counted({"error", "refused"})) + Len(batch)
        BY <4>3, PartsAddUp, BatchRows
      <4>. QED
        BY <3>1, <4>1, <4>2, <4>4 DEF Running, Tally
    <3>. QED
      BY <2>1, <3>1, <3>2, <3>3, <3>4, <3>5 DEF GoesOn, Running, Done
  <2>. QED
    BY <2>2, <2>3
<1>. QED
  BY <1>3, <1>4
LEMMA BatchStepsGoOn ==
  ASSUME Shape, Running, Shape',
         RelateFails \/ RowIsStale \/ RowFails \/ FinishFails \/ FinishFailed
           \/ TogetherFails \/ CommitFails
  PROVE  GoesOn
<1>1. ASSUME AtRows, Transactional, RollBack, BatchFails
      PROVE  GoesOn
  BY <1>1, RowAtHand, BatchFailsGoesOn
<1>2. ASSUME Running', at' = at, at # "done"
      PROVE  GoesOn
  BY <1>2 DEF GoesOn, Done
<1>3. ASSUME AtRows, ~Transactional, at = "write" => ~Together,
             NEW t, NEW rel \in {related, related \cup {Row}},
             NEW new \in {table, [table EXCEPT ![Row] = t]},
             FailsWith(new, rel)
      PROVE  GoesOn
  <2>1. Running'
    BY <1>3, FailsAloneGoesOn
  <2>2. at' = at /\ at # "done"
    BY <1>3 DEF FailsWith, SaysAndTells, AtRows, AtRow
  <2>. QED
    BY <1>2, <2>1, <2>2
<1>4. ASSUME AtRows, Transactional, NEW t, NEW rel, FailsWith(t, rel)
      PROVE  GoesOn
  BY <1>1, <1>4 DEF FailsWith
<1>5. CASE RelateFails
  <2>1. AtRows /\ at = "relate"
    BY <1>5 DEF RelateFails, AtRows, AtRow
  <2>2. PICK rel \in {related, related \cup {Row}} : FailsWith(table, rel)
    BY <1>5 DEF RelateFails
  <2>. QED
    BY <1>3, <1>4, <2>1, <2>2
<1>6. CASE RowIsStale
  <2>1. AtRows
    BY <1>6, BeforeWriting DEF RowIsStale
  <2>2. CASE cascades /\ Transactional
    BY <1>1, <1>6, <2>1, <2>2 DEF RowIsStale
  <2>3. CASE ~(cascades /\ Transactional)
    <3>1. Running'
      BY <1>6, <2>3, RowIsStaleGoesOn
    <3>2. at' = at /\ at = "write"
      BY <1>6, <2>3 DEF RowIsStale, SaysAndTells, Writing, AtRow
    <3>. QED
      BY <1>2, <3>1, <3>2
  <2>. QED
    BY <2>2, <2>3
<1>7. CASE RowFails
  <2>1. AtRows
    BY <1>7, BeforeWriting DEF RowFails
  <2>2. CASE cascades /\ Transactional
    <3>1. kind \in {"destroy", "destroy_each"}
      BY <2>2 DEF Shape
    <3>2. \E rel : FailsWith(table, rel)
      BY <1>7, <2>2, <3>1 DEF RowFails
    <3>. QED
      BY <1>4, <2>1, <2>2, <3>2
  <2>3. CASE ~(cascades /\ Transactional)
    <3>1. Running'
      BY <1>7, <2>3, RowFailsGoesOn
    <3>2. at = "write"
      BY <1>7 DEF RowFails, Writing, AtRow
    <3>3. at' = at
      <4>1. CASE cascades
        <5>1. kind \in {"destroy", "destroy_each"}
          BY <4>1 DEF Shape
        <5>2. \E rel : FailsWith(table, rel)
          BY <1>7, <4>1, <5>1 DEF RowFails
        <5>. QED
          BY <2>3, <4>1, <5>2 DEF FailsWith, SaysAndTells
      <4>2. CASE ~cascades
        <5>1. kind # "destroy_each"
          BY <4>2 DEF Shape
        <5>2. Says("error")
          BY <1>7, <4>2, <5>1 DEF RowFails
        <5>. QED
          BY <5>2 DEF Says, SaysAndTells
      <4>. QED
        BY <4>1, <4>2
    <3>. QED
      BY <1>2, <3>1, <3>2, <3>3
  <2>. QED
    BY <2>2, <2>3
<1>8. CASE FinishFails
  <2>1. AtRows /\ at = "finish"
    BY <1>8, BeforeFinishing DEF FinishFails
  <2>2. PICK t \in Undone : FailsWith([table EXCEPT ![Row] = t], related \cup {Row})
    BY <1>8 DEF FinishFails
  <2>. QED
    BY <1>3, <1>4, <2>1, <2>2
<1>9. CASE FinishFailed
  <2>1. AtRows /\ at = "finish" /\ FailsWith(table, related)
    BY <1>9, BeforeFinishing DEF FinishFailed
  <2>. QED
    BY <1>3, <1>4, <2>1
<1>10. CASE TogetherFails
  <2>1. Under /\ BatchFails /\ HooksWait
    BY <1>10 DEF TogetherFails, Under, Together, HooksWait
  <2>2. CASE Transactional
    BY <1>10, <2>1, <2>2, BatchFailsGoesOn DEF TogetherFails
  <2>3. CASE ~Transactional
    <3>1. UNCHANGED <<related, queue>>
      BY <1>10, <2>3 DEF TogetherFails
    <3>2. PICK part \in Parts :
            table' = [r \in Rows |-> IF r \in part THEN "after" ELSE table[r]]
      BY <1>10, <2>3 DEF TogetherFails
    <3>3. part \subseteq InBatch
      <4>1. Len(batch) \in Nat /\ DOMAIN batch = 1..Len(batch)
        BY <2>1, BatchRows
      <4>2. ASSUME NEW n \in 1..Len(batch)
            PROVE  Before(n) \subseteq InBatch
        <5>1. \A i \in 1..n - 1 : i \in 1..Len(batch)
          BY <4>1
        <5>. QED
          BY <4>1, <5>1 DEF Before, InBatch
      <4>3. Len(batch) \in 1..Len(batch)
        BY <2>1, BatchRows
      <4>. QED
        BY <3>2, <4>1, <4>2, <4>3 DEF Parts
    <3>4. \A r \in Rows \ InBatch : table'[r] = table[r]
      BY <3>2, <3>3
    <3>. QED
      BY <2>1, <2>3, <3>1, <3>4, BatchFailsGoesOn
  <2>. QED
    BY <2>2, <2>3
<1>11. CASE CommitFails
  BY <1>11, BatchFailsGoesOn DEF CommitFails, Under, Transactional
<1>. QED
  BY <1>5, <1>6, <1>7, <1>8, <1>9, <1>10, <1>11
-----------------------------------------------------------------------------
(* Preparing rows, and batches.                                             *)

LEMMA RejectGoesOn ==
  ASSUME Shape, Shape', Running, Preparing,
         NEW what \in {"refused", "error"}, Reject(what),
         told' \in {told, [told EXCEPT ![next] = "error"]},
         what = "refused" \/ told' = [told EXCEPT ![next] = "error"]
  PROVE  GoesOn
<1>. PICK row : row = next
  OBVIOUS
<1>0. row \in Rows /\ at = "prepare" /\ row \in Waiting /\ ~Under
  BY RowsAssumption DEF Preparing, Shape, Rows, Waiting, Under
<1>1. /\ UNCHANGED <<options, prepared, batch, sent, saved>> /\ next' = next + 1
      /\ Failed(1, "prepare")
      /\ IF Whole THEN RollBack ELSE UNCHANGED store
      /\ outcome' = [outcome EXCEPT ![row] = what]
  BY DEF Reject
<1>2. UNCHANGED <<kind, cascades, Transactional, Whole, PerBatch, HooksInside, HooksWait>>
  BY <1>1 DEF options, Transactional, Whole, PerBatch, HooksInside, HooksWait
<1>3. CASE Whole
  <2>1. Done' /\ count' = 0 /\ errors' \in Given /\ answer' \in {"ok", "error"}
    BY <1>1, <1>3 DEF Failed, Answer, Done
  <2>2. \A r \in Rows : outcome'[r] # "dropped"
    BY <1>0, <1>1, <1>3, NoneDropped DEF Shape
  <2>. QED
    BY <1>0, <1>1, <1>3, <2>1, <2>2, WholeUndone DEF GoesOn, Done
<1>4. CASE ~Whole
  <2>1. /\ UNCHANGED <<table, related, queue>>
        /\ outcome'[row] = what
        /\ \A r \in Rows \ {row} : Same(r)
        /\ told'[row] = told[row] \/ told'[row] = "error"
        /\ what = "refused" \/ told'[row] = "error"
    BY <1>0, <1>1, <1>4 DEF store, Same, Shape
  <2>2. \A r \in Waiting \ {row} : Fresh(r)'
    BY <1>1, <2>1, SameStays, AllRows DEF Running
  <2>3. \A r \in Over : Settled(r)'
    <3>1. row \notin Over
      BY <1>0 DEF Over
    <3>. QED
      BY <1>1, <2>1, <3>1, SameStays, AllRows DEF Running
  <2>4. Settled(row)'
    <3>1. Fresh(row)
      BY <1>0 DEF Running
    <3>. QED
      BY <1>0, <1>1, <1>2, <1>4, <2>1, <3>1 DEF Fresh, Settled
  <2>7. ASSUME Over \subseteq Over'
        PROVE  Excused'
    <3>1. row \notin Over
      BY <1>0 DEF Over
    <3>2. \A r \in Over : outcome'[r] = outcome[r]
      BY <2>1, <3>1, AllRows DEF Same
    <3>3. \A r \in Rows : outcome'[r] = "dropped" => outcome[r] = "dropped"
      BY <2>1 DEF Same
    <3>. QED
      BY <2>7, <3>2, <3>3, StillExcused
  <2>8. In(prepared) \subseteq Waiting
    BY DEF Waiting
  <2>5. CASE stop
    <3>1. Done' /\ answer' = "error" /\ UNCHANGED <<count, errors>>
      BY <1>1, <1>4, <2>5 DEF Failed, Answer, Done
    <3>2. \A r \in Rows : Fresh(r)' \/ Settled(r)'
      BY <1>0, <2>2, <2>3, <2>4, AllRows DEF Current
    <3>3. Over \subseteq Over'
      <4>1. ~Under' /\ Waiting' = In(prepared)
        BY <1>1, <3>1 DEF Under, Waiting, In, Done
      <4>. QED
        BY <2>8, <4>1 DEF Over, Current
    <3>4. Closed'
      BY <1>2, <1>4, <2>7, <3>1, <3>2, <3>3, CountsFit, StopsHere
    <3>. QED
      BY <3>1, <3>4 DEF GoesOn, Done
  <2>6. CASE ~stop
    <3>1. at' = "prepare" /\ errors' = errors + 1 /\ UNCHANGED <<count, answer>>
      BY <1>1, <1>4, <2>6 DEF Failed
    <3>2. /\ \A i \in DOMAIN prepared : prepared[i] < row /\ prepared[i] < row + 1
          /\ row \notin In(prepared)
      <4>1. \A i \in DOMAIN prepared : prepared[i] < row /\ prepared[i] \in Nat
        BY <1>0, LenProperties, RowsAssumption DEF Running, Ordered, Shape, Rows
      <4>2. row \in Nat
        BY <1>0, RowsAssumption DEF Rows
      <4>. QED
        BY <4>1, <4>2 DEF In
    <3>3. Waiting' = Waiting \ {row} /\ Over' = Over \cup {row} /\ ~Under'
      <4>1. ~Under' /\ Waiting' = In(prepared) \cup (row + 1)..N
        BY <1>1, <3>1 DEF Under, Waiting, In
      <4>2. Waiting = In(prepared) \cup row..N
        BY <1>0 DEF Waiting
      <4>3. row..N = (row + 1)..N \cup {row} /\ row \notin (row + 1)..N
        BY <1>0, RowsAssumption DEF Rows
      <4>4. Waiting' = Waiting \ {row}
        BY <3>2, <4>1, <4>2, <4>3
      <4>5. Over = Rows \ Waiting /\ Over' = Rows \ Waiting'
        BY <1>0, <4>1 DEF Over, Current
      <4>. QED
        BY <1>0, <4>1, <4>4, <4>5
    <3>4. Ordered' /\ UnderWay'
      BY <1>0, <1>1, <1>2, <3>1, <3>2, <3>3 DEF Running, Ordered, UnderWay, Climbs
    <3>5. Saved'
      BY <1>0, <1>1, <1>2, <1>4, <2>1, <3>3 DEF Running, Saved
    <3>6. Tally'
      <4>1. row \notin Over
        BY <1>0 DEF Over
      <4>2. \A r \in Over : outcome'[r] = outcome[r]
        BY <2>1, <4>1, AllRows DEF Same
      <4>3. /\ Counted({"ok", "dropped"})' = Counted({"ok", "dropped"})
            /\ Counted({"error", "refused"})' = Counted({"error", "refused"}) \cup {row}
        BY <2>1, <3>3, <4>2 DEF Counted
      <4>4. Counted({"error", "refused"}) \in SUBSET Rows /\ row \notin Counted({"error", "refused"})
        BY <4>1, AllRows DEF Counted
      <4>5. Cardinality(Counted({"error", "refused"}) \cup {row})
              = Cardinality(Counted({"error", "refused"})) + 1
        BY <4>4, RowsCount, FS_AddElement
      <4>. QED
        BY <3>1, <4>3, <4>5 DEF Running, Tally
    <3>. QED
      BY <2>2, <2>3, <2>4, <2>7, <3>1, <3>3, <3>4, <3>5, <3>6 DEF GoesOn, Running, Done
  <2>. QED
    BY <2>5, <2>6
<1>. QED
  BY <1>3, <1>4
LEMMA PrepareRowGoesOn ==
  ASSUME Shape, Running, PrepareRow
  PROVE  Running'
<1>. PICK row : row = next
  OBVIOUS
<1>0. /\ row \in Rows /\ row \in Nat /\ at = "prepare" /\ at' = at /\ row \in Waiting
      /\ ~Under /\ ~Under' /\ kind # "destroy_each"
  BY RowsAssumption
     DEF PrepareRow, Preparing, Shape, Rows, Waiting, Under, Running, Ordered
<1>1. /\ UNCHANGED <<options, at, batch, outcome, table, queue, sent, saved, told, result>>
      /\ prepared' = Append(prepared, row) /\ next' = row + 1
      /\ related' \in {related} \cup (IF kind = "destroy" THEN {} ELSE {related \cup {row}})
  BY DEF PrepareRow
<1>2. UNCHANGED <<kind, cascades, Transactional, Whole, PerBatch>>
  BY <1>1 DEF options, Transactional, Whole, PerBatch
<1>3. /\ prepared \in Seq(Rows) /\ Climbs(prepared)
      /\ \A i \in DOMAIN prepared : prepared[i] < row
  BY <1>0 DEF Shape, Running, Ordered
<1>4. /\ Climbs(prepared') /\ In(prepared') = In(prepared) \cup {row}
      /\ \A i \in DOMAIN prepared' : prepared'[i] < row + 1
  BY <1>0, <1>1, <1>3, OneMore
<1>5. Waiting' = Waiting /\ Over' = Over
  <2>1. Waiting' = In(prepared) \cup {row} \cup (row + 1)..N
    BY <1>0, <1>1, <1>4 DEF Waiting, In
  <2>2. Waiting = In(prepared) \cup row..N
    BY <1>0 DEF Waiting
  <2>3. row..N = (row + 1)..N \cup {row}
    BY <1>0, RowsAssumption DEF Rows
  <2>4. Waiting' = Waiting
    BY <2>1, <2>2, <2>3
  <2>. QED
    BY <1>0, <2>4 DEF Over, Current
<1>6. \A r \in Rows \ {row} : Same(r)
  BY <1>1 DEF Same
<1>7. \A r \in Waiting : Fresh(r)'
  <2>1. Fresh(row)
    BY <1>0 DEF Running
  <2>2. cascades => related' = related
    BY <1>0, <1>1 DEF Shape
  <2>3. Fresh(row)'
    BY <1>1, <1>2, <2>1, <2>2 DEF Fresh
  <2>. QED
    BY <1>1, <1>6, <2>3, SameStays, AllRows DEF Running
<1>8. \A r \in Over : Settled(r)' /\ outcome'[r] = outcome[r]
  <2>1. row \notin Over
    BY <1>0 DEF Over
  <2>. QED
    BY <1>1, <1>6, <2>1, SameStays, AllRows DEF Running
<1>9. Ordered' /\ UnderWay'
  BY <1>0, <1>1, <1>2, <1>4 DEF Running, Ordered, UnderWay, Climbs
<1>10. Saved'
  BY <1>0, <1>1, <1>2 DEF Running, Saved
<1>11. Tally' /\ Excused'
  BY <1>1, <1>5, StillExcused DEF Running, Tally, Counted, result
<1>. QED
  BY <1>5, <1>7, <1>8, <1>9, <1>10, <1>11 DEF Running

LEMMA PreparedGoesOn ==
  ASSUME Shape, Running, Prepared
  PROVE  Running'
<1>1. /\ UNCHANGED <<options, next, prepared, batch, outcome, store, sent, saved, told, result>>
      /\ at = "prepare" /\ at' = "open" /\ ~Under /\ ~Under' /\ next..N = {}
  BY RowsAssumption DEF Prepared, Under, Shape
<1>2. UNCHANGED <<kind, cascades, Transactional, Whole, PerBatch>>
  BY <1>1 DEF options, Transactional, Whole, PerBatch
<1>3. Waiting' = Waiting /\ Over' = Over
  BY <1>1 DEF Waiting, Over, Current, In
<1>4. \A r \in Rows : (Fresh(r) => Fresh(r)') /\ (Settled(r) => Settled(r)')
  <2>1. \A r \in Rows : Same(r)
    BY <1>1, AllSame DEF OthersStay
  <2>. QED
    BY <1>1, <2>1, SameStays
<1>5. Ordered' /\ UnderWay'
  BY <1>1 DEF Running, Ordered, UnderWay, Climbs
<1>6. Saved'
  BY <1>1, <1>2 DEF Running, Saved, store
<1>7. Tally' /\ Excused'
  BY <1>1, <1>3, StillExcused DEF Running, Tally, Counted, result
<1>. QED
  BY <1>3, <1>4, <1>5, <1>6, <1>7, AllRows DEF Running

LEMMA OpenBatchGoesOn ==
  ASSUME Shape, Running, OpenBatch
  PROVE  Running'
<1>1. /\ UNCHANGED <<options, outcome, store, sent, told, result>>
      /\ at = "open" /\ at' = (IF kind = "destroy" THEN "relate" ELSE "write") /\ next' = 1
      /\ saved' = (IF PerBatch THEN Store ELSE saved)
      /\ ~Under /\ Under'
  BY DEF OpenBatch, Under
<1>2. /\ UNCHANGED <<kind, cascades, Transactional, Whole, PerBatch>>
  BY <1>1 DEF options, Transactional, Whole, PerBatch
<1>3. /\ batch' \in Seq(Rows) /\ Climbs(batch') /\ batch' # <<>>
      /\ prepared' \in Seq(Rows) /\ Climbs(prepared')
      /\ In(prepared) = In(batch') \cup In(prepared')
      /\ In(batch') \cap In(prepared') = {}
  <2>. PICK n : /\ n = Least(size, Len(prepared))
                /\ batch' = SubSeq(prepared, 1, n)
                /\ prepared' = SubSeq(prepared, n + 1, Len(prepared))
    BY DEF OpenBatch
  <2>1. Len(prepared) \in Nat /\ Len(prepared) # 0
    BY LenProperties, EmptySeq DEF OpenBatch, Shape
  <2>2. n \in 1..Len(prepared)
    BY <2>1 DEF Least, Shape
  <2>3. prepared \in Seq(Rows) /\ Climbs(prepared)
    BY DEF Shape, Running, Ordered
  <2>4. /\ SubSeq(prepared, 1, n) \in Seq(Rows) /\ Climbs(SubSeq(prepared, 1, n))
        /\ SubSeq(prepared, 1, n) # <<>>
        /\ SubSeq(prepared, n + 1, Len(prepared)) \in Seq(Rows)
        /\ Climbs(SubSeq(prepared, n + 1, Len(prepared)))
        /\ In(prepared) = In(SubSeq(prepared, 1, n)) \cup In(SubSeq(prepared, n + 1, Len(prepared)))
        /\ In(SubSeq(prepared, 1, n)) \cap In(SubSeq(prepared, n + 1, Len(prepared))) = {}
    BY <2>2, <2>3, CutInTwo
  <2>. QED
    BY <2>4, Zenon
<1>4. /\ InBatch' = In(batch') /\ Waiting = In(prepared) /\ Waiting' = In(prepared')
      /\ Over' = Over /\ Waiting \subseteq Rows
  <2>1. InBatch' = In(batch') /\ Waiting = In(prepared) /\ Waiting' = In(prepared')
    BY <1>1 DEF InBatch, In, Waiting
  <2>2. Over = Rows \ In(prepared) /\ Over' = Rows \ (In(prepared') \cup In(batch'))
    BY <1>1, <2>1 DEF Over, Current
  <2>. QED
    BY <1>3, <2>1, <2>2, AllRows
<1>5. /\ \A r \in Waiting : Fresh(r) /\ Fresh(r)'
      /\ \A r \in Over : Settled(r)'
  <2>1. \A r \in Rows : Same(r)
    BY <1>1, AllSame DEF OthersStay
  <2>. QED
    BY <1>1, <2>1, SameStays, AllRows DEF Running
<1>6. Len(batch') \in Nat /\ DOMAIN batch' = 1..Len(batch')
  BY <1>3, LenProperties
<1>7. Ordered'
  <2>1. (InBatch \cap In(prepared))' = {}
    BY <1>3, <1>4 DEF In
  <2>2. Climbs(prepared)' /\ Climbs(batch)'
    BY <1>3 DEF Climbs
  <2>3. (next <= Len(batch) + 1)'
    BY <1>1, <1>6
  <2>4. /\ at' \notin {"prepare", "finish"} /\ next' = 1
        /\ at' = "relate" => kind' = "destroy"
    BY <1>1, <1>2
  <2>5. (batch # <<>>)'
    BY <1>3
  <2>. QED
    BY <2>1, <2>2, <2>3, <2>4, <2>5 DEF Ordered
<1>8. UnderWay'
  <2>1. ASSUME NEW i \in DOMAIN batch'
        PROVE  ~(i < 1) /\ batch'[i] \in Waiting
    <3>1. batch'[i] \in In(batch')
      BY <2>1 DEF In
    <3>2. i \in 1..Len(batch')
      BY <1>6, <2>1
    <3>. QED
      BY <1>3, <1>4, <1>6, <3>1, <3>2
  <2>2. ASSUME NEW r \in Waiting
        PROVE  Comes(r)' /\ (Transactional => r \notin sent)'
    BY <1>1, <1>2, <1>5 DEF Comes, Fresh
  <2>3. ASSUME NEW i \in DOMAIN batch'
        PROVE  (/\ i < next => Went(batch[i])
                /\ i >= next => Comes(batch[i])
                /\ Transactional => batch[i] \notin sent)'
    BY <1>1, <2>1, <2>2, <2>3
  <2>. QED
    BY <2>3 DEF UnderWay
<1>9. Saved'
  <2>1. Whole => ~PerBatch
    BY DEF Whole, PerBatch
  <2>2. PerBatch => queue = {}
    BY <1>1 DEF Running, Saved
  <2>3. PerBatch => /\ saved'.table = table /\ saved'.related = related /\ saved'.queue = {}
    BY <1>1, <2>2 DEF Store
  <2>4. UNCHANGED <<table, related, queue, sent>>
    BY <1>1 DEF store
  <2>5. \A r \in InBatch' : table[r] = "before" /\ (cascades => r \notin related)
    BY <1>3, <1>4, <1>5 DEF Fresh
  <2>. QED
    BY <1>1, <1>2, <2>1, <2>2, <2>3, <2>4, <2>5 DEF Running, Saved
<1>10. Tally' /\ Excused'
  BY <1>1, <1>4, StillExcused DEF Running, Tally, Counted, result
<1>. QED
  BY <1>3, <1>4, <1>5, <1>7, <1>8, <1>9, <1>10 DEF Running
LEMMA WriteTogetherGoesOn ==
  ASSUME Shape, Running, WriteTogether
  PROVE  Running'
<1>1. /\ UNCHANGED <<options, prepared, batch, related, queue, sent, saved, told, result>>
      /\ at = "write" /\ Together /\ at' = "finish" /\ next' = 1 /\ next = 1
      /\ Under /\ Under'
  BY DEF WriteTogether, Under, Running, Ordered
<1>2. UNCHANGED <<kind, cascades, Transactional, Whole, PerBatch, InBatch>>
  BY <1>1 DEF options, Transactional, Whole, PerBatch, InBatch
<1>3. PICK lost \in (IF kind = "update" THEN SUBSET Going ELSE {{}}) :
         /\ table' = [r \in Rows |-> IF r \in Going \ lost THEN "after" ELSE table[r]]
         /\ outcome' = [r \in Rows |-> IF r \in lost THEN "error"
                                      ELSE IF r \in Going THEN "ok" ELSE outcome[r]]
  BY DEF WriteTogether
<1>4. lost \subseteq Going /\ Going \subseteq InBatch /\ (kind # "update" => lost = {})
  BY <1>3 DEF Going
<1>5. Waiting' = Waiting /\ Over' = Over
  BY <1>1, <1>2, BatchRows DEF Waiting, Over, Current, Under, In
<1>6. ASSUME NEW r \in Rows \ InBatch
      PROVE  Same(r)
  BY <1>1, <1>3, <1>4 DEF Same
<1>7. /\ \A r \in Waiting : Fresh(r)'
      /\ \A r \in Over : Settled(r)' /\ outcome'[r] = outcome[r]
  <2>1. \A r \in Waiting \cup Over : r \in Rows \ InBatch
    BY <1>1, BatchRows
  <2>2. \A r \in Over : outcome'[r] = outcome[r]
    BY <1>6, <2>1 DEF Same
  <2>. QED
    BY <1>1, <1>6, <2>1, <2>2, SameStays DEF Running
<1>8. ASSUME NEW r \in InBatch
      PROVE  Wrote(r)' \/ LeftStale(r)' \/ Lost(r)'
  <2>1. r \in Rows
    BY <1>1, BatchRows
  <2>2. Comes(r)
    <3>1. PICK i \in DOMAIN batch : r = batch[i]
      BY DEF InBatch
    <3>2. i \in 1..Len(batch)
      BY <1>1, BatchRows
    <3>. QED
      BY <1>1, <3>1, <3>2 DEF Running, UnderWay
  <2>3. CASE kind = "destroy"
    <3>1. Found(r) \/ LeftStale(r) \/ Lost(r)
      BY <1>1, <2>2, <2>3 DEF Comes
    <3>2. r \in Going <=> outcome[r] = "ok"
      BY <2>3 DEF Going
    <3>3. CASE r \in Going
      <4>1. Found(r)
        BY <3>1, <3>2, <3>3 DEF LeftStale, Lost
      <4>2. outcome'[r] = "ok" /\ table'[r] = "after"
        BY <1>3, <1>4, <2>1, <2>3, <3>3
      <4>. QED
        BY <1>1, <1>2, <4>1, <4>2 DEF Found, Wrote
    <3>4. CASE r \notin Going
      <4>1. LeftStale(r) \/ Lost(r)
        BY <3>1, <3>2, <3>4 DEF Found
      <4>2. outcome'[r] = outcome[r] /\ table'[r] = table[r]
        BY <1>3, <1>4, <2>1, <3>4
      <4>. QED
        BY <1>1, <1>2, <4>1, <4>2 DEF LeftStale, Lost
    <3>. QED
      BY <3>3, <3>4
  <2>4. CASE kind # "destroy"
    <3>1. Fresh(r) /\ r \in Going
      BY <1>1, <2>2, <2>4 DEF Comes, Going
    <3>2. ~cascades
      BY <1>1, <2>4 DEF Together, Shape
    <3>3. CASE r \in lost
      <4>1. outcome'[r] = "error" /\ table'[r] = table[r]
        BY <1>3, <2>1, <3>3
      <4>. QED
        BY <1>1, <3>1, <4>1 DEF Fresh, Lost
    <3>4. CASE r \notin lost
      <4>1. outcome'[r] = "ok" /\ table'[r] = "after"
        BY <1>3, <2>1, <3>1, <3>4
      <4>. QED
        BY <1>1, <1>2, <3>1, <3>2, <4>1 DEF Fresh, Wrote
    <3>. QED
      BY <3>3, <3>4
  <2>. QED
    BY <2>3, <2>4
<1>9. Ordered'
  <2>1. kind # "destroy_each"
    BY <1>1 DEF Together
  <2>2. Len(batch) \in Nat
    BY <1>1, BatchRows
  <2>. QED
    BY <1>1, <1>2, <2>1, <2>2 DEF Running, Ordered, Climbs, In
<1>10. UnderWay'
  <2>1. ASSUME NEW i \in DOMAIN batch
        PROVE  /\ ~(i < 1)
               /\ Comes(batch[i])'
               /\ Transactional => batch[i] \notin sent
    <3>1. i \in 1..Len(batch) /\ batch[i] \in InBatch
      BY <1>1, BatchRows
    <3>2. Comes(batch[i])'
      BY <1>1, <1>8, <3>1 DEF Comes
    <3>. QED
      BY <1>1, <3>1, <3>2 DEF Running, UnderWay
  <2>. QED
    BY <1>1, <1>2, <2>1 DEF UnderWay
<1>11. Saved'
  BY <1>1, <1>2, <1>6 DEF Running, Saved, Same
<1>12. Tally'
  BY <1>1, <1>5, <1>7 DEF Running, Tally, Counted, result
<1>13. Excused'
  <2>1. \A r \in Rows : outcome'[r] = "dropped" => outcome[r] = "dropped"
    BY <1>3
  <2>. QED
    BY <1>5, <1>7, <2>1, StillExcused
<1>. QED
  BY <1>5, <1>7, <1>9, <1>10, <1>11, <1>12, <1>13 DEF Running

LEMMA WholeFailsGoesOn ==
  ASSUME Shape, Running, WholeFails
  PROVE  GoesOn
<1>1. /\ Whole /\ RollBack /\ UNCHANGED <<options, sent>>
      /\ at # "done" /\ Failed(N, "done")
  BY DEF WholeFails
<1>2. Done' /\ count' = 0 /\ errors' \in Given /\ answer' \in {"ok", "error"}
  BY <1>1 DEF Failed, Answer, Done
<1>3. \A r \in Rows : outcome'[r] # "dropped"
  BY <1>1, NoneDropped DEF WholeFails
<1>. QED
  BY <1>1, <1>2, <1>3, WholeUndone DEF GoesOn, Done
-----------------------------------------------------------------------------
(* Settling a batch, and returning.                                         *)

\* The COMMIT of a batch leaves the other rows alone; of an aborted transaction
\* it puts back those of the batch.
LEMMA BatchCommits ==
  ASSUME Shape, Running, Under, NEW r \in Rows,
         IF PerBatch THEN CommitOf(InBatch) ELSE UNCHANGED <<table, related, outcome>>
  PROVE  /\ r \notin InBatch \/ ~(PerBatch /\ Aborted) =>
              /\ outcome'[r] = outcome[r] /\ table'[r] = table[r]
              /\ r \in related' <=> r \in related
         /\ r \in InBatch /\ PerBatch /\ Aborted =>
              /\ outcome'[r] = IF outcome[r] = "ok" THEN "dropped" ELSE outcome[r]
              /\ table'[r] = "before" /\ (cascades => r \notin related')
<1>1. CASE ~(PerBatch /\ Aborted)
  BY <1>1 DEF CommitOf
<1>2. CASE PerBatch /\ Aborted
  <2>1. /\ table' = saved.table /\ related' = saved.related
        /\ outcome'[r] = IF r \in InBatch /\ outcome[r] = "ok" THEN "dropped" ELSE outcome[r]
    BY <1>2 DEF CommitOf
  <2>. QED
    BY <1>2, <2>1 DEF Running, Saved
<1>. QED
  BY <1>1, <1>2

\* Every row of a batch that settles is stored and told so, or is not and is
\* told that; or the batch is put back after they were told.
LEMMA SettledBatch ==
  ASSUME Shape, Running, Settle
  PROVE  /\ \A r \in Waiting : Fresh(r)'
         /\ \A r \in Over \cup InBatch : Settled(r)'
         /\ \A r \in Over : outcome'[r] = outcome[r]
         /\ \A r \in InBatch : /\ outcome[r] \notin {"refused", "dropped"}
                               /\ outcome'[r] \in {"ok", "dropped"} <=> outcome[r] = "ok"
                               /\ outcome'[r] \in {"error", "refused"} <=> outcome[r] = "error"
         /\ Transactional => \A r \in InBatch : outcome[r] # "error"
         /\ Over' = Over \cup InBatch => Excused'
         /\ PerBatch => \A r \in Rows \ InBatch :
                          table'[r] = table[r] /\ (r \in related' <=> r \in related)
<1>1. /\ UNCHANGED <<options, next, prepared, batch, saved>>
      /\ at = "commit" /\ Under
      /\ told' = Telling
      /\ sent' = (IF Whole THEN sent ELSE sent \cup queue)
      /\ queue' = (IF Whole THEN queue ELSE {})
      /\ IF PerBatch THEN CommitOf(InBatch) ELSE UNCHANGED <<table, related, outcome>>
  BY DEF Settle, Under
<1>2. UNCHANGED <<kind, cascades, Transactional, Whole, PerBatch, HooksInside, HooksWait>>
  BY <1>1 DEF options, Transactional, Whole, PerBatch, HooksInside, HooksWait
<1>3. ASSUME NEW r \in InBatch
      PROVE  /\ r \in Rows /\ Finishes(r)
             /\ Transactional => r \notin sent
             /\ told'[r] = IF ~HooksWait THEN told[r]
                           ELSE IF outcome[r] = "ok" THEN "ok" ELSE "error"
  <2>1. PICK i \in DOMAIN batch : r = batch[i]
    BY DEF InBatch
  <2>2. r \in Rows /\ i \in Nat /\ next \in Nat
    BY <1>1, <2>1, BatchRows, RowsAssumption DEF Shape
  <2>3. i < next \/ i >= next
    BY <2>2
  <2>4. (Went(r) \/ Comes(r)) /\ (Transactional => r \notin sent)
    BY <1>1, <2>1, <2>3 DEF Running, UnderWay
  <2>5. Finishes(r)
    BY <1>1, <2>4 DEF Went, Comes
  <2>6. told'[r] = IF ~HooksWait THEN told[r]
                   ELSE IF outcome[r] = "ok" THEN "ok" ELSE "error"
    BY <1>1, <2>2 DEF Telling
  <2>. QED
    BY <2>2, <2>4, <2>5, <2>6
<1>4. ASSUME NEW r \in Rows \ InBatch
      PROVE  /\ told'[r] = told[r] /\ outcome'[r] = outcome[r] /\ table'[r] = table[r]
             /\ r \in related' <=> r \in related
  <2>1. told'[r] = told[r]
    BY <1>1 DEF Telling
  <2>. QED
    BY <1>1, <2>1, BatchCommits
<1>5. \A r \in Waiting : Fresh(r)'
  <2>1. ASSUME NEW r \in Waiting
        PROVE  Fresh(r)'
    <3>1. r \in Rows \ InBatch /\ Fresh(r)
      BY <1>1, BatchRows DEF Running
    <3>2. /\ told'[r] = told[r] /\ outcome'[r] = outcome[r] /\ table'[r] = table[r]
          /\ r \in related' <=> r \in related
      BY <1>4, <3>1
    <3>3. r \notin queue' \cup sent'
      BY <1>1, <3>1 DEF Fresh
    <3>. QED
      BY <1>2, <3>1, <3>2, <3>3 DEF Fresh
  <2>. QED
    BY <2>1
<1>6. ASSUME NEW r \in Over
      PROVE  Settled(r)' /\ outcome'[r] = outcome[r]
  <2>1. r \in Rows \ InBatch /\ Settled(r)
    BY <1>1, BatchRows DEF Running
  <2>2. PerBatch => r \notin queue
    BY <1>1, <2>1 DEF Running, Saved
  <2>3. Transactional => (r \in sent' <=> r \in sent) /\ (Whole => queue' = queue)
          /\ (r \in queue' => r \in queue)
    BY <1>1, <2>2 DEF Transactional
  <2>4. /\ told'[r] = told[r] /\ outcome'[r] = outcome[r] /\ table'[r] = table[r]
        /\ r \in related' <=> r \in related
    BY <1>4, <2>1
  <2>. QED
    BY <1>2, <2>1, <2>3, <2>4 DEF Settled
<1>7. ASSUME NEW r \in InBatch
      PROVE  /\ Settled(r)' /\ outcome[r] \notin {"refused", "dropped"}
             /\ outcome'[r] \in {"ok", "dropped"} <=> outcome[r] = "ok"
             /\ outcome'[r] \in {"error", "refused"} <=> outcome[r] = "error"
             /\ outcome'[r] = "dropped" => PerBatch /\ Aborted
             /\ Transactional => outcome[r] # "error"
  <2>1. Kept(r) \/ LeftStale(r) \/ LeftWithChild(r) \/ (Lost(r) /\ ~Transactional)
    BY <1>3 DEF Finishes
  <2>2. /\ outcome[r] \notin {"none", "refused", "dropped"}
        /\ Transactional => outcome[r] # "error"
    BY <2>1 DEF Kept, LeftStale, LeftWithChild, Lost
  <2>3. ASSUME Transactional
        PROVE  /\ outcome[r] = "ok" => /\ table[r] = "after" /\ r \in queue
                                       /\ cascades => r \in related
               /\ outcome[r] # "ok" => /\ r \notin queue
                                       /\ cascades => r \notin related
                                       /\ \/ table[r] = "before"
                                          \/ outcome[r] \in {"stale_child", "raised"}
    BY <2>1, <2>3 DEF Kept, LeftStale, LeftWithChild, Lost
  <2>4. outcome[r] = "ok" => table[r] = "after"
    BY <2>1 DEF Kept, LeftStale, LeftWithChild, Lost
  <2>5. Whole => Transactional /\ ~PerBatch
    BY DEF Transactional, Whole, PerBatch
  <2>6. ASSUME Transactional
        PROVE  /\ outcome[r] = "ok" => /\ r \in (IF Whole THEN queue' ELSE sent')
                                       /\ ~Whole => r \notin queue'
               /\ outcome[r] # "ok" => r \notin queue' \cup sent'
    BY <1>1, <1>3, <2>3, <2>6
  <2>7. told'[r] = "none" => ~HooksWait /\ table[r] = "before"
    BY <1>3 DEF Finishes
  <2>8. ASSUME ~HooksInside
        PROVE  /\ told'[r] = "ok" => table[r] = "after" /\ (HooksWait => outcome[r] = "ok")
               /\ Transactional => HooksWait /\ (told'[r] = "error" => outcome[r] # "ok")
    <3>1. CASE HooksWait
      BY <1>3, <2>4, <3>1
    <3>2. CASE ~HooksWait
      <4>1. ~Transactional
        BY <2>8, <3>2 DEF HooksInside, Transactional
      <4>. QED
        BY <1>3, <3>2, <4>1 DEF Finishes
    <3>. QED
      BY <3>1, <3>2
  <2>9. CASE ~(PerBatch /\ Aborted)
    <3>1. /\ outcome'[r] = outcome[r] /\ table'[r] = table[r]
          /\ r \in related' <=> r \in related
      BY <1>1, <1>3, <2>9, BatchCommits
    <3>2. PerBatch => outcome[r] # "raised"
      BY <2>5, <2>9 DEF Aborted
    <3>3. ASSUME Transactional, outcome[r] # "ok"
          PROVE  \/ table[r] = "before" \/ outcome[r] = "stale_child"
                 \/ Whole /\ outcome[r] = "raised"
      BY <2>3, <3>2, <3>3 DEF Transactional
    <3>4. HooksInside \/ ~Whole
      BY DEF HooksInside
    <3>5. Settled(r)'
      BY <1>2, <2>2, <2>3, <2>5, <2>6, <2>7, <2>8, <3>1, <3>3, <3>4 DEF Settled
    <3>. QED
      BY <2>2, <3>1, <3>5
  <2>10. CASE PerBatch /\ Aborted
    <3>1. /\ outcome'[r] = IF outcome[r] = "ok" THEN "dropped" ELSE outcome[r]
          /\ table'[r] = "before" /\ (cascades => r \notin related')
      BY <1>1, <1>3, <2>10, BatchCommits
    <3>2. ~Whole /\ Transactional
      BY <2>5, <2>10 DEF Transactional
    <3>3. r \notin queue' /\ (r \in sent' <=> outcome[r] = "ok")
      BY <1>1, <2>6, <3>2
    <3>4. /\ outcome'[r] \notin {"none", "ok", "refused"}
          /\ outcome'[r] = "dropped" <=> outcome[r] = "ok"
      BY <2>2, <3>1
    <3>5. ~HooksInside /\ told'[r] = "ok" => outcome'[r] = "dropped"
      BY <2>8, <3>2, <3>4
    <3>6. Settled(r)'
      BY <1>2, <2>7, <3>1, <3>2, <3>3, <3>4, <3>5 DEF Settled
    <3>. QED
      BY <2>2, <2>10, <3>1, <3>6
  <2>. QED
    BY <2>9, <2>10
<1>8. ASSUME Over' = Over \cup InBatch
      PROVE  Excused'
  <2>. SUFFICES ASSUME NEW r \in Dropped'
                PROVE  \E q \in Over \cup InBatch : outcome'[q] = "raised"
    BY <1>8 DEF Excused
  <2>1. r \in Rows /\ outcome'[r] = "dropped"
    BY DEF Dropped
  <2>2. CASE r \in InBatch
    <3>1. PerBatch /\ Aborted /\ ~Whole
      BY <1>7, <2>1, <2>2 DEF PerBatch, Whole
    <3>2. PICK q \in InBatch : outcome[q] = "raised"
      BY <3>1 DEF Aborted
    <3>3. outcome'[q] = "raised"
      BY <1>1, <1>3, <3>1, <3>2, BatchCommits
    <3>. QED
      BY <3>2, <3>3
  <2>3. CASE r \notin InBatch
    <3>1. outcome[r] = "dropped"
      BY <1>4, <2>1, <2>3
    <3>2. PICK q \in Over : outcome[q] = "raised"
      BY <2>1, <3>1 DEF Running, Excused, Dropped
    <3>. QED
      BY <1>6, <3>2
  <2>. QED
    BY <2>2, <2>3
<1>. QED
  BY <1>4, <1>5, <1>6, <1>7, <1>8

LEMMA SettleGoesOn ==
  ASSUME Shape, Shape', Running, Settle
  PROVE  GoesOn
<1>1. /\ UNCHANGED <<options, next, prepared, batch, saved>>
      /\ at = "commit" /\ Under
      /\ sent' = (IF Whole THEN sent ELSE sent \cup queue)
      /\ queue' = (IF Whole THEN queue ELSE {})
  BY DEF Settle, Under
<1>2. UNCHANGED <<kind, cascades, Transactional, Whole, PerBatch, InBatch>>
  BY <1>1 DEF options, Transactional, Whole, PerBatch, InBatch
<1>3. /\ \A r \in Waiting : Fresh(r)'
      /\ \A r \in Over \cup InBatch : Settled(r)'
      /\ \A r \in Over : outcome'[r] = outcome[r]
      /\ \A r \in InBatch : /\ outcome'[r] \in {"ok", "dropped"} <=> outcome[r] = "ok"
                            /\ outcome'[r] \in {"error", "refused"} <=> outcome[r] = "error"
      /\ Transactional => \A r \in InBatch : outcome[r] # "error"
      /\ Over' = Over \cup InBatch => Excused'
  BY SettledBatch
<1>6. at' \in {"open", "done"} => /\ ~Under' /\ Waiting' = Waiting
                                  /\ Over' = Over \cup InBatch
  <2>. SUFFICES ASSUME at' \in {"open", "done"}
                PROVE  /\ ~Under' /\ Waiting' = Waiting
                       /\ Over' = Over \cup InBatch
    OBVIOUS
  <2>1. ~Under' /\ Waiting' = In(prepared)
    BY <1>1 DEF Under, Waiting, In
  <2>2. Over' = Rows \ In(prepared)
    BY <2>1 DEF Over, Current
  <2>. QED
    BY <1>1, <2>1, <2>2, BatchRows
<1>4. CASE stop /\ Ended("error") # {}
  <2>1. Done' /\ answer' = "error" /\ UNCHANGED <<count, errors>>
    BY <1>4 DEF Settle, Answer, Done
  <2>2. ~Whole
    BY <1>3, <1>4 DEF Ended, Transactional
  <2>3. \A r \in Rows : Fresh(r)' \/ Settled(r)'
    BY <1>3, AllRows DEF Current
  <2>4. Excused'
    BY <1>3, <1>6, <2>1 DEF Done
  <2>5. Closed'
    BY <1>2, <2>1, <2>2, <2>3, <2>4, CountsFit, StopsHere
  <2>. QED
    BY <2>1, <2>5 DEF GoesOn, Done
<1>5. CASE ~(stop /\ Ended("error") # {})
  <2>1. /\ count' = count + Cardinality(Ended("ok"))
        /\ errors' = errors + Cardinality(Ended("error"))
        /\ at' = "open"
    BY <1>5 DEF Settle
  <2>2. ~Under' /\ Waiting' = Waiting /\ Over' = Over \cup InBatch /\ Excused'
    BY <1>3, <1>6, <2>1
  <2>3. Ordered' /\ UnderWay'
    BY <1>1, <2>1, <2>2 DEF Running, Ordered, UnderWay, Climbs
  <2>4. Saved'
    <3>1. Whole => ~PerBatch
      BY DEF Whole, PerBatch
    <3>. QED
      BY <1>1, <1>2, <2>2, <3>1 DEF Running, Saved
  <2>5. Tally'
    <3>1. /\ Counted({"ok", "dropped"})' = Counted({"ok", "dropped"}) \cup Ended("ok")
          /\ Counted({"error", "refused"})' = Counted({"error", "refused"}) \cup Ended("error")
      BY <1>1, <1>3, <2>2 DEF Counted, Ended
    <3>2. /\ Counted({"ok", "dropped"}) \in SUBSET Rows /\ Ended("ok") \in SUBSET Rows
          /\ Counted({"error", "refused"}) \in SUBSET Rows /\ Ended("error") \in SUBSET Rows
          /\ Counted({"ok", "dropped"}) \cap Ended("ok") = {}
          /\ Counted({"error", "refused"}) \cap Ended("error") = {}
      BY <1>1, BatchRows DEF Counted, Ended
    <3>3. /\ Cardinality(Counted({"ok", "dropped"}) \cup Ended("ok"))
               = Cardinality(Counted({"ok", "dropped"})) + Cardinality(Ended("ok"))
          /\ Cardinality(Counted({"error", "refused"}) \cup Ended("error"))
               = Cardinality(Counted({"error", "refused"})) + Cardinality(Ended("error"))
      BY <3>2, PartsAddUp
    <3>. QED
      BY <2>1, <3>1, <3>3 DEF Running, Tally
  <2>. QED
    BY <1>3, <2>1, <2>2, <2>3, <2>4, <2>5 DEF GoesOn, Running, Done
<1>. QED
  BY <1>4, <1>5

\* A whole action whose transaction was aborted returns as any other, and COMMIT
\* puts everything back.
LEMMA WholeDropped ==
  ASSUME Shape, Running, Return, Whole, Aborted
  PROVE  /\ \A r \in Rows : /\ table'[r] = "before"
                            /\ outcome'[r] = IF outcome[r] = "ok" THEN "dropped" ELSE outcome[r]
                            /\ r \in sent' <=> outcome[r] = "ok"
         /\ related' = {}
         /\ \E r \in Rows : outcome'[r] = "raised"
<1>1. /\ table' = saved.table /\ related' = saved.related
      /\ sent' = queue /\ Over = Rows
      /\ \A r \in Rows : outcome'[r] = IF outcome[r] = "ok" THEN "dropped" ELSE outcome[r]
  BY DEF Return, CommitOf, Running, Saved, Over, Waiting, Current, Under, In
<1>2. \A r \in Rows : r \in queue <=> outcome[r] = "ok"
  BY <1>1 DEF Running, Settled, Transactional
<1>3. \E r \in Rows : outcome'[r] = "raised"
  BY <1>1 DEF Aborted
<1>. QED
  BY <1>1, <1>2, <1>3 DEF Running, Saved

LEMMA ReturnGoesOn ==
  ASSUME Shape, Shape', Running, Return
  PROVE  GoesOn
<1>1. /\ UNCHANGED <<options, told, count, errors>>
      /\ at = "open" /\ prepared = <<>> /\ ~Under
      /\ Done' /\ answer' = "ok"
      /\ sent' = sent \cup queue /\ queue' = {}
  BY DEF Return, Answer, Under, Done
<1>2. UNCHANGED <<kind, cascades, Transactional, Whole, HooksInside, HooksWait>>
  BY <1>1 DEF options, Transactional, Whole, PerBatch, HooksInside, HooksWait
<1>3. Over = Rows
  BY <1>1 DEF Over, Waiting, Current, In
<1>4. ASSUME NEW r \in Rows
      PROVE  Settled(r) /\ outcome[r] \in Outcomes
  BY <1>3 DEF Running, Shape
<1>a. ~(Whole /\ Aborted) => UNCHANGED <<table, related, outcome>>
  BY DEF Return, CommitOf
<1>b. Whole /\ ~Aborted => \A r \in Rows : outcome[r] # "raised"
  BY DEF Aborted
<1>c. \A r \in Rows : /\ outcome'[r] \in {"ok", "dropped"} <=> outcome[r] \in {"ok", "dropped"}
                      /\ outcome'[r] \in LeavesOut <=> outcome[r] \in LeavesOut
                      /\ outcome'[r] = "refused" <=> outcome[r] = "refused"
  <2>1. CASE Whole /\ Aborted
    BY <2>1, WholeDropped DEF LeavesOut
  <2>2. CASE ~(Whole /\ Aborted)
    BY <1>a, <2>2
  <2>. QED
    BY <2>1, <2>2
<1>5. WholeIsAllOrNothing'
  <2>1. CASE ~Whole
    BY <1>2, <2>1 DEF WholeIsAllOrNothing
  <2>2. CASE Whole /\ Aborted
    <3>1. \A r \in Rows : /\ table'[r] = "before" /\ r \notin related'
                          /\ r \in sent' => outcome'[r] = "dropped"
      BY <2>2, WholeDropped
    <3>. QED
      BY <3>1 DEF WholeIsAllOrNothing
  <2>3. CASE Whole /\ ~Aborted
    <3>1. \A r \in Rows : outcome[r] \in {"ok", "stale", "stale_child"}
      BY <1>4, <1>b, <2>3 DEF Settled, Outcomes, LeavesOut
    <3>2. Counted({"error", "refused"}) = {}
      BY <1>3, <3>1 DEF Counted
    <3>3. errors' = 0
      BY <1>1, <3>2, FS_EmptySet DEF Running, Tally
    <3>4. \A r \in Rows : outcome'[r] \in {"ok", "stale", "stale_child"}
      BY <1>a, <2>3, <3>1
    <3>. QED
      BY <1>1, <3>3, <3>4 DEF WholeIsAllOrNothing
  <2>. QED
    BY <2>1, <2>2, <2>3
<1>6. CountIsStored'
  <2>. SUFFICES ASSUME Transactional
                PROVE  /\ Stored' \cup Dropped' = Counted({"ok", "dropped"})
                       /\ sent' = Stored' \cup Dropped'
                       /\ Dropped' # {} => \E r \in Rows : outcome'[r] = "raised"
                       /\ \A r \in Dropped' : table'[r] = "before"
                       /\ cascades => related' = Stored'
                       /\ \A r \in Rows : table'[r] = "gone" => outcome'[r] = "stale_child"
    BY <1>1, <1>2 DEF CountIsStored, Running, Tally
  <2>1. ASSUME NEW r \in Rows
        PROVE  /\ r \in Stored' \cup Dropped' <=> outcome[r] \in {"ok", "dropped"}
               /\ r \in sent' <=> r \in Stored' \cup Dropped'
               /\ r \in Dropped' => table'[r] = "before"
               /\ cascades => (r \in related' <=> r \in Stored')
               /\ table'[r] = "gone" => outcome'[r] = "stale_child"
    <3>1. /\ outcome[r] = "ok" => table[r] = "after" /\ r \in queue \cup sent
                                    /\ (cascades => r \in related)
          /\ outcome[r] # "ok" => /\ r \in queue \cup sent <=> outcome[r] = "dropped"
                                  /\ cascades => r \notin related
                                  /\ \/ table[r] = "before" \/ outcome[r] = "stale_child"
                                     \/ Whole /\ outcome[r] = "raised"
          /\ outcome[r] = "dropped" => ~Whole
      BY <1>4 DEF Settled
    <3>2. CASE Whole /\ Aborted
      <4>1. /\ table'[r] = "before" /\ r \notin related'
            /\ outcome'[r] = IF outcome[r] = "ok" THEN "dropped" ELSE outcome[r]
            /\ r \in sent' <=> outcome[r] = "ok"
        BY <3>2, WholeDropped
      <4>. QED
        BY <3>1, <3>2, <4>1 DEF Stored, Dropped
    <3>3. CASE ~(Whole /\ Aborted)
      <4>1. UNCHANGED <<table, related, outcome>> /\ (Whole => outcome[r] # "raised")
        BY <1>a, <1>b, <3>3
      <4>. QED
        BY <1>1, <3>1, <4>1 DEF Stored, Dropped
    <3>. QED
      BY <3>2, <3>3
  <2>2. Stored' \cup Dropped' = Counted({"ok", "dropped"})
    BY <1>3, <2>1 DEF Stored, Dropped, Counted
  <2>3. sent' \subseteq Rows /\ related' \subseteq Rows /\ Stored' \cup Dropped' \subseteq Rows
    BY DEF Shape, Stored, Dropped
  <2>4. Dropped' # {} => \E r \in Rows : outcome'[r] = "raised"
    <3>1. CASE Whole /\ Aborted
      BY <3>1, WholeDropped
    <3>2. CASE ~(Whole /\ Aborted)
      BY <1>3, <1>a, <3>2 DEF Running, Excused, Dropped
    <3>. QED
      BY <3>1, <3>2
  <2>5. /\ \A r \in Dropped' : table'[r] = "before"
        /\ \A r \in Rows : table'[r] = "gone" => outcome'[r] = "stale_child"
    BY <2>1 DEF Dropped
  <2>6. sent' = Stored' \cup Dropped' /\ (cascades => related' = Stored')
    BY <2>1, <2>3
  <2>. QED
    BY <2>2, <2>4, <2>5, <2>6
<1>7. Accounted'
  <2>. PICK left : left = {r \in Rows : outcome[r] \in LeavesOut}
    OBVIOUS
  <2>1. /\ Counted({"ok", "dropped"}) \in SUBSET Rows
        /\ Counted({"error", "refused"}) \in SUBSET Rows
        /\ left \in SUBSET Rows
        /\ Counted({"ok", "dropped"}) \cap Counted({"error", "refused"}) = {}
        /\ (Counted({"ok", "dropped"}) \cup Counted({"error", "refused"})) \cap left = {}
    BY <1>3 DEF Counted, LeavesOut
  <2>2. Counted({"ok", "dropped"}) \cup Counted({"error", "refused"}) \cup left = Rows
    BY <1>3, <1>4 DEF Counted, Settled, Outcomes
  <2>3. Counted({"ok", "dropped"}) \cup Counted({"error", "refused"}) \in SUBSET Rows
    BY <2>1
  <2>4. Cardinality(Counted({"ok", "dropped"}) \cup Counted({"error", "refused"}))
          = count + errors
    BY <2>1, PartsAddUp DEF Running, Tally
  <2>5. Cardinality(Rows) = count + errors + Cardinality(left)
    BY <2>1, <2>2, <2>3, <2>4, PartsAddUp
  <2>6. count + errors + Cardinality(left) = N
    BY <2>5, RowsCount
  <2>7. {r \in Rows : outcome'[r] \in LeavesOut} = left
    BY <1>c
  <2>. QED
    BY <1>1, <2>6, <2>7 DEF Accounted
<1>8. HooksHear'
  <2>1. CASE Whole
    BY <1>2, <2>1 DEF HooksHear, HooksInside
  <2>2. CASE ~Whole
    <3>1. ASSUME NEW r \in Rows
          PROVE  /\ ~HooksInside => /\ told[r] = "ok" => table[r] = "after" \/ r \in Dropped
                                    /\ Transactional /\ told[r] = "error" =>
                                         table[r] = "before" \/ outcome[r] = "stale_child"
                 /\ told[r] = "none" =>
                      (outcome[r] = "refused" \/ ~HooksWait) /\ table[r] = "before"
      BY <1>4, <2>2 DEF Settled, Dropped
    <3>2. UNCHANGED <<table, outcome, told, Dropped>>
      BY <1>1, <1>a, <2>2 DEF Dropped
    <3>. QED
      BY <1>1, <1>2, <3>1, <3>2 DEF HooksHear
  <2>. QED
    BY <2>1, <2>2
<1>9. Closed'
  BY <1>1, <1>5, <1>6, <1>7, <1>8, CountsFit DEF Closed
<1>. QED
  BY <1>1, <1>9 DEF GoesOn, Done
-----------------------------------------------------------------------------
(* The invariant holds, and what follows from it.                           *)

LEMMA InvInit == Init => Inv
<1>. SUFFICES ASSUME Init
              PROVE  Inv
  OBVIOUS
<1>1. Shape
  BY ShapeInit
<1>2. /\ batch = <<>> /\ next = 1 /\ at \in {"prepare", "open"} /\ ~Under
      /\ related = {} /\ queue = {} /\ sent = {} /\ count = 0 /\ errors = 0
      /\ \A r \in Rows : outcome[r] = "none" /\ table[r] = "before" /\ told[r] = "none"
  BY DEF Init, Under
<1>3. Waiting = Rows /\ Over = {}
  <2>1. CASE kind = "destroy_each"
    <3>1. prepared = [i \in Rows |-> i] /\ at = "open"
      BY <2>1 DEF Init
    <3>2. In(prepared) = Rows
      BY <3>1 DEF In
    <3>. QED
      BY <1>2, <3>1, <3>2 DEF Waiting, Over, Current
  <2>2. CASE kind # "destroy_each"
    <3>1. prepared = <<>> /\ at = "prepare"
      BY <2>2 DEF Init
    <3>2. In(prepared) = {}
      BY <3>1 DEF In
    <3>. QED
      BY <1>2, <3>1, <3>2 DEF Waiting, Over, Current, Rows
  <2>. QED
    BY <2>1, <2>2
<1>4. Ordered
  <2>1. Climbs(batch)
    BY <1>2 DEF Climbs
  <2>2. CASE kind = "destroy_each"
    <3>1. prepared = [i \in Rows |-> i] /\ at = "open"
      BY <2>2 DEF Init
    <3>2. Climbs(prepared)
      BY <3>1 DEF Climbs
    <3>. QED
      BY <1>2, <2>1, <3>1, <3>2 DEF Ordered
  <2>3. CASE kind # "destroy_each"
    <3>1. prepared = <<>> /\ at = "prepare"
      BY <2>3 DEF Init
    <3>2. Climbs(prepared)
      BY <3>1 DEF Climbs
    <3>. QED
      BY <1>2, <2>1, <2>3, <3>1, <3>2 DEF Ordered
  <2>. QED
    BY <2>2, <2>3
<1>5. Saved
  <2>1. saved = [table |-> table, related |-> {}, queue |-> {}]
    BY DEF Init, Store
  <2>2. saved.table = table /\ saved.related = {} /\ saved.queue = {}
    BY <2>1
  <2>. QED
    BY <1>2, <2>2 DEF Saved
<1>6. Tally
  <2>1. \A what : Counted(what) = {}
    BY <1>3 DEF Counted
  <2>. QED
    BY <1>2, <2>1, FS_EmptySet DEF Tally
<1>7. \A r \in Rows : Fresh(r)
  BY <1>2 DEF Fresh
<1>8. Excused
  BY <1>2 DEF Excused, Dropped
<1>. QED
  BY <1>8, <1>1, <1>2, <1>3, <1>4, <1>5, <1>6, <1>7 DEF Inv, Running, UnderWay, Done

LEMMA InvNext == Inv /\ [Next]_vars => Inv'
<1>1. ASSUME Inv, Next
      PROVE  Inv'
  <2>1. Shape /\ Running /\ at # "done"
    <3>1. at # "done"
      BY <1>1 DEF Next, Refuse, PrepareFails, Preparing, PrepareRow, Prepared, OpenBatch,
           Relate, FoundStale, RelateFails, Related, AtRow, Through,
           WriteTogether, TogetherFails, WriteRow, RowIsStale, RowFails, Writing, LeftOut, Written,
           FinishRow, FinishFails, ChildIsStale, FinishStale, FinishFailed, Finishing, Finished,
           Settle, CommitFails, Return, WholeFails
    <3>. QED
      BY <1>1, <3>1 DEF Inv
  <2>2. Shape'
    BY <1>1, <2>1, ShapeOfRows, ShapeOfBatches DEF Next
  <2>. SUFFICES GoesOn
    BY <2>2 DEF GoesOn, Inv
  <2>3. ASSUME Running', at' # "done"
        PROVE  GoesOn
    BY <2>3 DEF GoesOn, Done
  <2>4. CASE Refuse
    BY <2>1, <2>2, <2>4, RejectGoesOn DEF Refuse
  <2>5. CASE PrepareFails
    BY <2>1, <2>2, <2>5, RejectGoesOn DEF PrepareFails
  <2>6. CASE PrepareRow
    BY <2>1, <2>3, <2>6, PrepareRowGoesOn DEF PrepareRow
  <2>7. CASE Prepared
    BY <2>1, <2>3, <2>7, PreparedGoesOn DEF Prepared
  <2>8. CASE OpenBatch
    BY <2>1, <2>3, <2>8, OpenBatchGoesOn DEF OpenBatch
  <2>9. CASE Relate \/ FoundStale \/ WriteRow \/ LeftOut
             \/ FinishRow \/ ChildIsStale \/ FinishStale
    <3>1. Running'
      BY <2>1, <2>9, RelateGoesOn, FoundStaleGoesOn, WriteRowGoesOn, LeftOutGoesOn,
         FinishRowGoesOn, ChildIsStaleGoesOn, FinishStaleGoesOn
    <3>2. at' = at
      BY <2>9 DEF Relate, FoundStale, WriteRow, LeftOut, FinishRow, ChildIsStale, FinishStale,
           Says, SaysAndTells
    <3>. QED
      BY <2>1, <2>3, <3>1, <3>2
  <2>10. CASE Related \/ Written \/ Finished
    <3>1. Running'
      BY <2>1, <2>10, RelatedGoesOn, WrittenGoesOn, FinishedGoesOn
    <3>2. at' # "done"
      BY <2>10 DEF Related, Written, Finished, TurnsTo
    <3>. QED
      BY <2>3, <3>1, <3>2
  <2>11. CASE RelateFails \/ RowIsStale \/ RowFails \/ FinishFails \/ FinishFailed
              \/ TogetherFails \/ CommitFails
    BY <2>1, <2>2, <2>11, BatchStepsGoOn
  <2>12. CASE WriteTogether
    BY <2>1, <2>3, <2>12, WriteTogetherGoesOn DEF WriteTogether
  <2>13. CASE Settle
    BY <2>1, <2>2, <2>13, SettleGoesOn
  <2>14. CASE Return
    BY <2>1, <2>2, <2>14, ReturnGoesOn
  <2>15. CASE WholeFails
    BY <2>1, <2>15, WholeFailsGoesOn
  <2>. QED
    BY <1>1, <2>4, <2>5, <2>6, <2>7, <2>8, <2>9, <2>10, <2>11, <2>12, <2>13, <2>14, <2>15
       DEF Next
<1>2. ASSUME Inv, UNCHANGED vars
      PROVE  Inv'
  <2>1. Shape'
    BY <1>2 DEF Inv, vars, Shape
  <2>2. UNCHANGED <<Transactional, Whole, PerBatch, HooksInside, HooksWait, Together, InBatch,
                    Waiting, Over, Under, Given>>
    BY <1>2 DEF vars, Transactional, Whole, PerBatch, HooksInside, HooksWait, Together, InBatch,
         Waiting, Over, Current, Under, In, Given, Destroys
  <2>3. \A r : /\ Fresh(r) => Fresh(r)'
               /\ Settled(r) => Settled(r)'
               /\ Went(r) => Went(r)'
               /\ Comes(r) => Comes(r)'
    BY <1>2, <2>2 DEF vars, Fresh, Settled, Went, Comes, Finishes, Found, Wrote, Kept, LeftStale,
         LeftWithChild, Lost
  <2>4. Running => Running'
    <3>1. (Ordered => Ordered') /\ (Saved => Saved')
      BY <1>2, <2>2 DEF vars, Ordered, Climbs, In, Saved
    <3>2. UnderWay => UnderWay'
      BY <1>2, <2>2, <2>3 DEF vars, UnderWay
    <3>3. (Tally => Tally') /\ (Excused => Excused')
      BY <1>2, <2>2 DEF vars, Tally, Counted, Excused, Dropped
    <3>. QED
      BY <2>2, <2>3, <3>1, <3>2, <3>3 DEF Running
  <2>5. Closed => Closed'
    BY <1>2, <2>2 DEF vars, Closed, WholeIsAllOrNothing, CountIsStored, Accounted, HooksHear,
         Stored, Dropped, Done
  <2>. QED
    BY <1>2, <2>1, <2>4, <2>5 DEF Inv, vars, Done
<1>. QED
  BY <1>1, <1>2

\* What the runs check follows from the invariant.
LEMMA InvImplies ==
  ASSUME Inv
  PROVE  TypeOK /\ WholeIsAllOrNothing /\ CountIsStored /\ Accounted /\ HooksHear
<1>1. CASE Done
  BY <1>1 DEF Inv, Closed, Shape, TypeOK, Records
<1>2. CASE ~Done
  <2>1. Shape /\ Running /\ at # "done"
    BY <1>2 DEF Inv, Done
  <2>2. TypeOK
    BY <2>1, CountsFit DEF Shape, TypeOK, Records
  <2>3. WholeIsAllOrNothing /\ CountIsStored /\ Accounted
    BY <1>2 DEF WholeIsAllOrNothing, CountIsStored, Accounted
  <2>4. HooksHear
    <3>1. ASSUME at = "open", NEW r \in Rows
          PROVE  Fresh(r) \/ Settled(r)
      BY <2>1, <3>1, AllRows DEF Running, Current, Under
    <3>2. ASSUME at = "open", ~HooksInside, NEW r \in Rows
          PROVE  /\ told[r] = "ok" => table[r] = "after" \/ r \in Dropped
                 /\ Transactional /\ told[r] = "error" =>
                      table[r] = "before" \/ outcome[r] = "stale_child"
      BY <3>1, <3>2 DEF Fresh, Settled, Dropped
    <3>. QED
      BY <1>2, <3>2 DEF HooksHear, Done
  <2>. QED
    BY <2>2, <2>3, <2>4
<1>. QED
  BY <1>1, <1>2

THEOREM Invariant == Spec => []Inv
  BY InvInit, InvNext, PTL DEF Spec

\* Every variable keeps its type, and a BulkResult counts no row twice.
THEOREM TypeCorrect == Spec => []TypeOK
<1>1. Inv => TypeOK
  BY InvImplies
<1>. QED
  BY <1>1, Invariant, PTL

\* BulkTransaction::All: records, related ones and notifications stay only if
\* every row was counted or left out. Of a transaction that a stale managed
\* record's statement has aborted nothing stays but the notifications.
THEOREM AWholeActionIsAllOrNothing == Spec => []WholeIsAllOrNothing
<1>1. Inv => WholeIsAllOrNothing
  BY InvImplies
<1>. QED
  BY <1>1, Invariant, PTL

\* In transactions, the rows a BulkResult counts and notifies of are those stored,
\* and where related records go with theirs it is with exactly these. Rows that
\* are counted and not stored are of a transaction whose COMMIT rolled back, and
\* there is a row whose managed record's statement aborted one.
THEOREM WhatIsCountedIsStored == Spec => []CountIsStored
<1>1. Inv => CountIsStored
  BY InvImplies
<1>. QED
  BY <1>1, Invariant, PTL

\* Each row of a BulkResult is counted, an error, or left out as stale.
THEOREM EveryRowIsAccountedFor == Spec => []Accounted
<1>1. Inv => Accounted
  BY InvImplies
<1>. QED
  BY <1>1, Invariant, PTL

\* After-transaction hooks are told what came of their row, and each of those
\* that waited for its batch is told; but rows of a transaction whose COMMIT
\* rolled back had their hooks told that they were stored.
THEOREM HooksHearWhatCame == Spec => []HooksHear
<1>1. Inv => HooksHear
  BY InvImplies
<1>. QED
  BY <1>1, Invariant, PTL
=============================================================================
