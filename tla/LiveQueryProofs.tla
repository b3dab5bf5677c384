--------------------------- MODULE LiveQueryProofs ---------------------------
(***************************************************************************)
(* Proofs about LiveQuery, for any keys, page and number of changes: what   *)
(* the list holds once it has settled.                                      *)
(***************************************************************************)
EXTENDS LiveQuery, FiniteSetTheorems, SequenceTheorems, TLAPS

-----------------------------------------------------------------------------
(* The invariant.                                                           *)

\* Nothing follows a key's destruction.
LogOK ==
  \A i, j \in 1..Len(log) :
    i < j /\ log[i].key = log[j].key => log[i].kind # "destroyed"

\* A subscription's frames are changes of its kind, each there once.
QueueOK ==
  \A s \in Kind : \A i, j \in DOMAIN queue[s] :
    /\ log[queue[s][i]].kind = s
    /\ i # j => queue[s][i] # queue[s][j]

\* What arrives while a read is under way has it made again, and so does what
\* is subscribed to.
ReadOK ==
  /\ stale => reading # "no"
  /\ reading # "no" /\ ~stale => \A k \in Key : after[k] = None
  /\ reading = "answered" /\ ~stale => \A e \in heard : e <= answer
  /\ unread /\ ~stopped => stale

\* A list that waits for no read holds what its last one brought, but for the
\* changes it has placed since: all it was told of that the read had not seen.
Quiet == reading = "no" /\ ~timer /\ ~failed /\ ~stopped

ItemsOK ==
  Quiet =>
    /\ \A k \in Key :
         /\ after[k] = None => items[k] = ListAt(base)[k]
         /\ after[k] # None => /\ list # "paged" /\ items[k] = Shown(after[k])
                               /\ log[after[k]].key = k
                               /\ list = "untold" => log[after[k]].kind = "destroyed"
    /\ \A e \in heard : e > base => after[log[e].key] # None

\* Without a connection nothing listens, nor is asked to.
FeedOK == ~connected => \A s \in Kind : feed[s] \in {"off", "ended"}

Inv == TypeOK /\ LogOK /\ FeedOK /\ QueueOK /\ ReadOK /\ ItemsOK
-----------------------------------------------------------------------------
(* The last change of a key, and lists.                                     *)

\* Numbers have a smallest.
LEMMA SmallestIs ==
  ASSUME NEW S \in SUBSET Nat, S # {}
  PROVE  \E d \in S : \A e \in S : d <= e
<1>. DEFINE Less == OpToRel(<, Nat)
<1>1. \A x, y \in Nat : x < y => <<x, y>> \in Less
  BY DEF OpToRel
<1>2. PICK d \in S : \A e \in S : <<e, d>> \notin Less
  BY NatLessThanWellFounded, WFMin
<1>3. \A e \in S : ~(e < d)
  <2>. HIDE DEF Less
  <2>. QED
    BY <1>1, <1>2, Zenon
<1>. QED
  BY <1>3

\* Numbers up to n have a largest.
LEMMA LargestIs ==
  ASSUME NEW n \in Nat, NEW S \in SUBSET (1..n), S # {}
  PROVE  Max(S) \in S /\ \A e \in S : e <= Max(S)
<1>. DEFINE T == {n - e : e \in S}
<1>1. \A e \in S : e \in Nat /\ n - e \in Nat
  OBVIOUS
<1>2. T \subseteq Nat /\ T # {}
  BY <1>1
<1>3. PICK t \in T : \A u \in T : t <= u
  <2>. HIDE DEF T
  <2>. QED
    BY <1>2, SmallestIs
<1>4. PICK e \in S : t = n - e
  BY <1>3
<1>5. ASSUME NEW f \in S
      PROVE  e >= f
  <2>1. n - f \in T
    OBVIOUS
  <2>2. n - e <= n - f
    BY <1>3, <1>4, <2>1
  <2>. QED
    BY <1>1, <2>2
<1>6. Max(S) \in S /\ \A f \in S : Max(S) >= f
  <2>. HIDE DEF T
  <2>. QED
    BY <1>5 DEF Max
<1>. QED
  BY <1>1, <1>6

LEMMA LastIs ==
  ASSUME NEW k, NEW n \in Nat
  PROVE  /\ LastOf(k, n) \in 0..n
         /\ \A e \in 1..n : log[e].key = k => LastOf(k, n) # None /\ e <= LastOf(k, n)
         /\ LastOf(k, n) # None => LastOf(k, n) \in 1..n /\ log[LastOf(k, n)].key = k
<1>. DEFINE made == {e \in 1..n : log[e].key = k}
<1>1. LastOf(k, n) = IF made = {} THEN None ELSE Max(made)
  BY DEF LastOf
<1>2. CASE made = {}
  BY <1>1, <1>2 DEF None
<1>3. CASE made # {}
  <2>1. Max(made) \in made /\ \A e \in made : e <= Max(made)
    <3>1. made \in SUBSET (1..n)
      OBVIOUS
    <3>. HIDE DEF made
    <3>. QED
      BY <1>3, <3>1, LargestIs
  <2>. QED
    BY <1>1, <1>3, <2>1 DEF None
<1>. QED
  BY <1>2, <1>3

\* It is the one above all others.
LEMMA LastIsThe ==
  ASSUME NEW k, NEW n \in Nat, NEW m \in 0..n,
         m # None => log[m].key = k,
         \A e \in 1..n : log[e].key = k => e <= m
  PROVE  LastOf(k, n) = m
<1>1. CASE m = None
  BY <1>1, LastIs DEF None
<1>2. CASE m # None
  <2>1. m \in 1..n
    BY <1>2 DEF None
  <2>2. m <= LastOf(k, n) /\ LastOf(k, n) \in 1..n /\ LastOf(k, n) <= m
    BY <2>1, <1>2, LastIs
  <2>. QED
    BY <2>1, <2>2
<1>. QED
  BY <1>1, <1>2

\* What the list held after n changes does not depend on those that follow.
LEMMA ListStays ==
  ASSUME NEW n \in Nat, \A e \in 1..n : log'[e] = log[e], list' = list
  PROVE  /\ \A k : LastOf(k, n)' = LastOf(k, n)
         /\ \A k : Shown(LastOf(k, n))' = Shown(LastOf(k, n))
         /\ ListAt(n)' = ListAt(n)
<1>1. ASSUME NEW k
      PROVE  LastOf(k, n)' = LastOf(k, n)
  <2>1. {e \in 1..n : log'[e].key = k} = {e \in 1..n : log[e].key = k}
    OBVIOUS
  <2>. QED
    BY <2>1 DEF LastOf
<1>2. ASSUME NEW k
      PROVE  Shown(LastOf(k, n))' = Shown(LastOf(k, n))
  <2>1. LastOf(k, n) = None \/ LastOf(k, n) \in 1..n
    BY LastIs
  <2>2. LastOf(k, n)' = LastOf(k, n)
    BY <1>1
  <2>. QED
    BY <2>1, <2>2 DEF Shown
<1>3. ListAt(n)' = ListAt(n)
  <2>. DEFINE Page(all, l) ==
         [k \in Key |->
            IF l = "paged" /\ Cardinality({j \in 1..(k - 1) : all[j] # None}) >= Limit
              THEN None ELSE all[k]]
  <2>1. PICK now : now = [k \in Key |-> Shown(LastOf(k, n))]
    OBVIOUS
  <2>2. PICK next : next = [k \in Key |-> Shown(LastOf(k, n))']
    OBVIOUS
  <2>3. now = next
    BY <1>2, <2>1, <2>2
  <2>4. ListAt(n) = Page(now, list)
    BY <2>1, Zenon DEF ListAt
  <2>5. ListAt(n)' = Page(next, list')
    BY <2>2, Zenon DEF ListAt
  <2>. HIDE DEF Page
  <2>. QED
    BY <2>3, <2>4, <2>5
<1>. QED
  BY <1>1, <1>2, <1>3

\* What a list that is no page holds of a key.
LEMMA ListHolds ==
  ASSUME NEW n \in Nat
  PROVE  /\ ListAt(n) \in [Key -> 0..n]
         /\ \A k \in Key : ListAt(n)[k] # None =>
              ListAt(n)[k] = LastOf(k, n) /\ log[ListAt(n)[k]].key = k
         /\ list # "paged" => \A k \in Key : ListAt(n)[k] = Shown(LastOf(k, n))
<1>1. \A k \in Key : ListAt(n)[k] \in {None, Shown(LastOf(k, n))}
  BY DEF ListAt
<1>2. \A k \in Key : Shown(LastOf(k, n)) \in {None, LastOf(k, n)}
  BY DEF Shown
<1>3. \A k \in Key : ListAt(n)[k] \in 0..n
  BY <1>1, <1>2, LastIs DEF None
<1>4. DOMAIN ListAt(n) = Key
  BY DEF ListAt
<1>5. list # "paged" => \A k \in Key : ListAt(n)[k] = Shown(LastOf(k, n))
  BY DEF ListAt
<1>6. ListAt(n) \in [Key -> 0..n]
  BY <1>3, <1>4 DEF ListAt
<1>. QED
  BY <1>1, <1>2, <1>5, <1>6, LastIs

\* Lists that agree on every key's record are one list.
LEMMA ListsAgree ==
  ASSUME NEW m \in Nat, NEW n \in Nat,
         \A k \in Key : Shown(LastOf(k, m)) = Shown(LastOf(k, n))
  PROVE  ListAt(m) = ListAt(n)
<1>. DEFINE Page(all) ==
       [k \in Key |->
          IF list = "paged" /\ Cardinality({j \in 1..(k - 1) : all[j] # None}) >= Limit
            THEN None ELSE all[k]]
<1>1. PICK one : one = [k \in Key |-> Shown(LastOf(k, m))]
  OBVIOUS
<1>2. PICK two : two = [k \in Key |-> Shown(LastOf(k, n))]
  OBVIOUS
<1>3. one = two
  BY <1>1, <1>2
<1>4. ListAt(m) = Page(one)
  BY <1>1, Zenon DEF ListAt
<1>5. ListAt(n) = Page(two)
  BY <1>2, Zenon DEF ListAt
<1>. HIDE DEF Page
<1>. QED
  BY <1>3, <1>4, <1>5

-----------------------------------------------------------------------------
(* What most steps leave alone.                                             *)

LEMMA ReadStays ==
  ASSUME ReadOK, UNCHANGED <<stale, reading, after, heard, answer, unread>>,
         stopped => stopped'
  PROVE  ReadOK'
BY DEF ReadOK

LEMMA ItemsStay ==
  ASSUME TypeOK, ItemsOK, UNCHANGED <<list, log, items, base, heard, after>>,
         Quiet' => Quiet
  PROVE  ItemsOK'
<1>1. ListAt(base)' = ListAt(base)
  <2>1. base \in Nat
    BY DEF TypeOK
  <2>2. PICK n \in Nat : n = base
    BY <2>1
  <2>3. ListAt(n)' = ListAt(n)
    BY ListStays
  <2>4. ListAt(base)' = ListAt(n)'
    BY <2>2, Zenon DEF ListAt, LastOf
  <2>. QED
    BY <2>2, <2>3, <2>4
<1>2. \A k \in Key : Shown(after[k])' = Shown(after[k])
  BY DEF Shown
<1>. QED
  BY <1>1, <1>2, Zenon DEF ItemsOK

LEMMA QueueStays ==
  ASSUME QueueOK, UNCHANGED log, \A s \in Kind : queue'[s] \in {queue[s], <<>>}
  PROVE  QueueOK'
<1>. SUFFICES ASSUME NEW s \in Kind, NEW i \in DOMAIN queue'[s], NEW j \in DOMAIN queue'[s]
              PROVE  /\ log[queue'[s][i]].kind = s
                     /\ i # j => queue'[s][i] # queue'[s][j]
  BY DEF QueueOK
<1>1. queue'[s] = queue[s]
  OBVIOUS
<1>. QED
  BY <1>1 DEF QueueOK

LEMMA LogStays ==
  ASSUME LogOK, UNCHANGED log
  PROVE  LogOK'
BY DEF LogOK

LEMMA ChangeIs ==
  ASSUME TypeOK, NEW e \in 1..Len(log)
  PROVE  /\ log[e] \in Change /\ log[e].key \in Key /\ log[e].kind \in Kind
         /\ log[e].kind = "destroyed" => log[e].where # "in"
<1>1. log[e] \in Change
  BY DEF TypeOK
<1>. QED
  BY <1>1 DEF Change, Kind

-----------------------------------------------------------------------------
(* The steps.                                                               *)

LEMMA InitInv == Init => Inv
<1>. SUFFICES ASSUME Init
              PROVE  Inv
  OBVIOUS
<1>. USE DEF Init
<1>1. /\ log \in Seq(Change)
      /\ Len(log) = 1
      /\ 1 \in Key
  BY BoundsAssumption DEF Change, Kind, Key
<1>2. TypeOK
  <2>1. queue \in [Kind -> Seq(published \ heard)] /\ \A s \in Kind : queue[s] = <<>>
    OBVIOUS
  <2>2. after \in [Key -> {None} \cup heard]
    OBVIOUS
  <2>3. items \in [Key -> 0..Len(log)] /\ \A k \in Key : items[k] = None
    BY <1>1 DEF None
  <2>4. /\ feed \in [Kind -> {"off", "asked", "live", "ended"}]
        /\ {stale, timer, stopped, failed, unread} \subseteq BOOLEAN
    OBVIOUS
  <2>5. Len(log) <= MaxChange /\ published \subseteq 1..Len(log) /\ heard \subseteq published
    BY <1>1, BoundsAssumption
  <2>6. breaks \in 0..MaxBreak /\ answer \in 0..Len(log) /\ base \in 0..Len(log)
    BY <1>1, BoundsAssumption
  <2>7. list \in Lists /\ connected \in BOOLEAN /\ reading = "asked"
    OBVIOUS
  <2>. HIDE DEF Init
  <2>. QED
    BY <1>1, <2>1, <2>2, <2>3, <2>4, <2>5, <2>6, <2>7 DEF TypeOK
<1>3. LogOK
  BY <1>1 DEF LogOK
<1>4. QueueOK
  BY DEF QueueOK
<1>5. ReadOK /\ ItemsOK
  BY DEF ReadOK, ItemsOK, Quiet
<1>6. FeedOK
  BY DEF FeedOK
<1>. QED
  BY <1>2, <1>3, <1>4, <1>5, <1>6 DEF Inv

LEMMA CommitKeeps ==
  ASSUME Inv, NEW c \in Change, Commit(c)
  PROVE  Inv'
<1>. USE DEF Inv
<1>1. PICK n \in Nat : n = Len(log)
  BY DEF TypeOK
<1>2. /\ log' \in Seq(Change)
      /\ Len(log') = n + 1
      /\ log'[n + 1] = c
      /\ \A e \in 1..n : log'[e] = log[e]
      /\ n + 1 <= MaxChange
  BY <1>1, BoundsAssumption DEF TypeOK, Commit
<1>3. UNCHANGED <<list, published, feed, queue, connected, items, reads, stale, timer,
                  stopped, breaks, history>>
  BY DEF Commit
<1>4. TypeOK'
  <2>1. \A k \in Key : items'[k] # None => log'[items'[k]].key = k
    BY <1>1, <1>2, <1>3 DEF TypeOK, None
  <2>2. published' \subseteq 1..(n + 1) /\ items' \in [Key -> 0..(n + 1)]
        /\ answer' \in 0..(n + 1) /\ base' \in 0..(n + 1)
    BY <1>1, <1>3 DEF TypeOK, reads
  <2>. QED
    BY <1>2, <1>3, <2>1, <2>2 DEF TypeOK, reads, history
<1>5. LogOK'
  <2>. SUFFICES ASSUME NEW i \in 1..(n + 1), NEW j \in 1..(n + 1),
                       i < j, log'[i].key = log'[j].key
                PROVE  log'[i].kind # "destroyed"
    BY <1>2 DEF LogOK
  <2>1. i \in 1..n
    OBVIOUS
  <2>2. CASE j \in 1..n
    BY <1>1, <1>2, <2>1, <2>2 DEF LogOK
  <2>3. CASE j = n + 1
    <3>1. log[i].key = c.key
      BY <1>2, <2>1, <2>3
    <3>2. PICK m \in 1..n : m = LastOf(c.key, n) /\ log[m].key = c.key /\ i <= m
      BY <2>1, <3>1, LastIs
    <3>3. log[m].kind # "destroyed"
      BY <1>1, <3>2 DEF Commit, Exists, None
    <3>4. i = m \/ i < m
      BY <3>2
    <3>5. log[i].kind # "destroyed"
      BY <1>1, <2>1, <3>1, <3>2, <3>3, <3>4 DEF LogOK
    <3>. QED
      BY <1>2, <2>1, <3>5
  <2>. QED
    BY <2>2, <2>3
<1>6. QueueOK'
  <2>1. \A s \in Kind : \A i \in DOMAIN queue[s] : queue[s][i] \in 1..n
    <3>. SUFFICES ASSUME NEW s \in Kind, NEW i \in DOMAIN queue[s]
                  PROVE  queue[s][i] \in 1..n
      OBVIOUS
    <3>1. queue[s] \in Seq(published \ heard)
      BY DEF TypeOK
    <3>2. queue[s][i] \in published
      BY <3>1
    <3>. QED
      BY <1>1, <3>2 DEF TypeOK
  <2>. QED
    BY <1>2, <1>3, <2>1 DEF QueueOK
<1>7. ReadOK'
  BY <1>3, ReadStays DEF reads, history
<1>8. ItemsOK'
  <2>1. ListAt(base)' = ListAt(base)
    <3>1. PICK b \in Nat : b = base /\ b <= n
      BY <1>1 DEF TypeOK
    <3>2. \A e \in 1..b : log'[e] = log[e]
      BY <1>2, <3>1
    <3>3. ListAt(b)' = ListAt(b)
      BY <1>3, <3>2, ListStays
    <3>4. base' = b
      BY <1>3, <3>1 DEF reads
    <3>5. ListAt(base)' = ListAt(b)'
      BY <3>4, Zenon DEF ListAt, LastOf
    <3>. QED
      BY <3>1, <3>3, <3>5
  <2>2. \A k \in Key : after[k] # None => after[k] \in 1..n
    BY <1>1 DEF TypeOK
  <2>3. \A k \in Key : Shown(after[k])' = Shown(after[k])
    BY <1>2, <1>3, <2>2 DEF Shown, history
  <2>4. \A e \in heard : log'[e].key = log[e].key
    BY <1>1, <1>2 DEF TypeOK
  <2>5. \A k \in Key : after[k] # None => log'[after[k]] = log[after[k]]
    BY <1>2, <2>2
  <2>6. Quiet' => Quiet
    BY <1>3 DEF Quiet, reads
  <2>7. UNCHANGED <<list, items, base, heard, after>>
    BY <1>3 DEF reads, history
  <2>. QED
    BY <2>1, <2>3, <2>4, <2>5, <2>6, <2>7, Zenon DEF ItemsOK
<1>9. FeedOK'
  BY <1>3 DEF FeedOK
<1>. QED
  BY <1>4, <1>5, <1>6, <1>7, <1>8, <1>9

LEMMA PublishKeeps ==
  ASSUME Inv, NEW e \in 1..Len(log), Publish(e)
  PROVE  Inv'
<1>. USE DEF Inv
<1>1. UNCHANGED <<list, log, feed, connected, items, reads, stale, timer, stopped,
                  breaks, history>>
  BY DEF Publish
<1>2. e \notin published /\ e \notin heard /\ published' = published \cup {e}
  BY DEF Publish, TypeOK
<1>3. \A s \in Kind :
        \/ queue'[s] = queue[s]
        \/ feed[s] = "live" /\ log[e].kind = s /\ queue'[s] = Append(queue[s], e)
  BY DEF Publish
<1>4. DOMAIN queue' = Kind /\ queue' = [s \in Kind |-> queue'[s]]
  BY DEF Publish
<1>5. ASSUME NEW s \in Kind
      PROVE  /\ queue'[s] \in Seq(published' \ heard)
             /\ queue'[s] # <<>> => feed[s] = "live"
             /\ \A i, j \in DOMAIN queue'[s] :
                  /\ log[queue'[s][i]].kind = s
                  /\ i # j => queue'[s][i] # queue'[s][j]
  <2>1. queue[s] \in Seq(published \ heard) /\ (queue[s] # <<>> => feed[s] = "live")
    BY DEF TypeOK
  <2>2. queue[s] \in Seq(published' \ heard)
    BY <1>2, <2>1, SeqMonotonic
  <2>3. CASE queue'[s] = queue[s]
    BY <2>1, <2>2, <2>3 DEF QueueOK
  <2>4. CASE feed[s] = "live" /\ log[e].kind = s /\ queue'[s] = Append(queue[s], e)
    <3>1. queue'[s] \in Seq(published' \ heard)
      BY <1>2, <2>2, <2>4
    <3>2. PICK n \in Nat : n = Len(queue[s])
      BY <2>1
    <3>3. /\ DOMAIN queue'[s] = 1..(n + 1)
          /\ queue'[s][n + 1] = e
          /\ \A i \in 1..n : queue'[s][i] = queue[s][i] /\ queue[s][i] \in published
      BY <2>1, <2>4, <3>2
    <3>4. \A i \in 1..n : i \in DOMAIN queue[s]
      BY <2>1, <3>2
    <3>5. \A i \in 1..(n + 1) : i \in 1..n \/ i = n + 1
      OBVIOUS
    <3>6. \A i, j \in 1..n : /\ log[queue[s][i]].kind = s
                             /\ i # j => queue[s][i] # queue[s][j]
      BY <3>4 DEF QueueOK
    <3>. QED
      BY <1>2, <2>4, <3>1, <3>3, <3>5, <3>6
  <2>. QED
    BY <1>3, <2>3, <2>4
<1>6. TypeOK'
  <2>1. queue' \in [Kind -> Seq(published' \ heard')]
        /\ \A s \in Kind : queue'[s] # <<>> => feed'[s] = "live"
    BY <1>1, <1>4, <1>5 DEF history
  <2>2. published' \subseteq 1..Len(log') /\ heard' \subseteq published'
    BY <1>1, <1>2 DEF TypeOK, history
  <2>. QED
    BY <1>1, <2>1, <2>2 DEF TypeOK, reads, history
<1>7. LogOK'
  BY <1>1, LogStays
<1>8. QueueOK'
  BY <1>1, <1>5 DEF QueueOK
<1>9. ReadOK' /\ ItemsOK'
  BY <1>1, ReadStays, ItemsStay DEF reads, history, Quiet
<1>10. FeedOK'
  BY <1>1 DEF FeedOK
<1>. QED
  BY <1>6, <1>7, <1>8, <1>9, <1>10

\* The server's answer, and a read that is lost.
LEMMA AnswerKeeps ==
  ASSUME Inv, Answer
  PROVE  Inv'
<1>. USE DEF Inv, Answer, server, history
<1>1. TypeOK'
  BY DEF TypeOK
<1>2. LogOK' /\ QueueOK'
  BY LogStays, QueueStays
<1>3. ReadOK'
  <2>1. \A e \in heard : e <= Len(log)
    BY DEF TypeOK
  <2>. QED
    BY <2>1 DEF ReadOK
<1>4. ItemsOK'
  BY ItemsStay DEF Quiet
<1>5. FeedOK'
  BY DEF FeedOK
<1>. QED
  BY <1>1, <1>2, <1>3, <1>4, <1>5

LEMMA LoseReadKeeps ==
  ASSUME Inv, LoseRead
  PROVE  Inv'
<1>. USE DEF Inv, LoseRead, server, history
<1>1. TypeOK'
  BY BoundsAssumption DEF TypeOK
<1>2. LogOK' /\ QueueOK'
  BY LogStays, QueueStays
<1>3. ReadOK'
  BY DEF ReadOK
<1>4. ItemsOK'
  BY ItemsStay DEF Quiet
<1>5. FeedOK'
  BY DEF FeedOK
<1>. QED
  BY <1>1, <1>2, <1>3, <1>4, <1>5

\* The steps of the connection that do not read the list: what they leave of
\* the queues is what was there, or nothing.
LEMMA ConnectionKeeps ==
  ASSUME Inv,
         UNCHANGED <<list, server, items, reads, stale, history>>,
         feed' \in [Kind -> {"off", "asked", "live", "ended"}],
         connected' \in BOOLEAN, breaks' \in 0..MaxBreak,
         timer' \in {FALSE, timer}, stopped' \in {TRUE, stopped},
         timer' = timer \/ stopped',
         queue' \in [Kind -> Seq(published \ heard)],
         \A s \in Kind : \/ queue'[s] = <<>>
                         \/ queue'[s] = queue[s] /\ (feed[s] = "live" => feed'[s] = "live"),
         FeedOK'
  PROVE  Inv'
<1>. USE DEF Inv, server, reads, history
<1>1. TypeOK'
  <2>1. {stale, timer, stopped, failed, unread}' \subseteq BOOLEAN
    BY DEF TypeOK
  <2>2. \A s \in Kind : queue'[s] # <<>> => feed'[s] = "live"
    BY DEF TypeOK
  <2>. QED
    BY <2>1, <2>2 DEF TypeOK
<1>2. LogOK' /\ QueueOK'
  BY LogStays, QueueStays
<1>3. /\ UNCHANGED <<list, log, items, base, heard, after, answer, unread>>
      /\ UNCHANGED <<stale, reading, failed>>
  OBVIOUS
<1>4. timer \in BOOLEAN /\ stopped \in BOOLEAN
  BY DEF TypeOK
<1>5. (stopped => stopped') /\ (~stopped' => timer' = timer /\ stopped' = stopped)
  BY <1>4
<1>6. ReadOK'
  BY <1>3, <1>5, ReadStays
<1>7. Quiet' => Quiet
  BY <1>3, <1>5 DEF Quiet
<1>8. ItemsOK'
  BY <1>3, <1>7, ItemsStay
<1>. QED
  BY <1>1, <1>2, <1>6, <1>8

LEMMA ListenKeeps ==
  ASSUME Inv, NEW t \in Kind, Listen(t)
  PROVE  Inv'
<1>. USE DEF Listen
<1>1. TypeOK
  BY DEF Inv
<1>2. /\ feed' \in [Kind -> {"off", "asked", "live", "ended"}]
      /\ \A s \in Kind : queue'[s] = queue[s] /\ (feed[s] = "live" => feed'[s] = "live")
  BY <1>1 DEF TypeOK
<1>3. /\ UNCHANGED <<list, server, items, reads, stale, history, timer, stopped>>
      /\ connected' \in BOOLEAN /\ breaks' \in 0..MaxBreak
      /\ queue' \in [Kind -> Seq(published \ heard)]
  BY <1>1 DEF TypeOK
<1>4. FeedOK'
  BY <1>1 DEF Inv, FeedOK, TypeOK
<1>. QED
  BY <1>2, <1>3, <1>4, ConnectionKeeps

LEMMA DropKeeps ==
  ASSUME Inv, Drop
  PROVE  Inv'
<1>. USE DEF Drop
<1>1. TypeOK
  BY DEF Inv
<1>2. /\ feed' \in [Kind -> {"off", "asked", "live", "ended"}]
      /\ queue' \in [Kind -> Seq(published \ heard)]
      /\ \A s \in Kind : queue'[s] = <<>>
  BY <1>1 DEF TypeOK
<1>3. UNCHANGED <<list, server, items, reads, stale, history, timer, stopped>>
  OBVIOUS
<1>4. connected' \in BOOLEAN
  OBVIOUS
<1>5. breaks' \in 0..MaxBreak
  BY <1>1, BoundsAssumption DEF TypeOK
<1>6. FeedOK'
  BY <1>1 DEF FeedOK, TypeOK
<1>. QED
  BY <1>2, <1>3, <1>4, <1>5, <1>6, ConnectionKeeps

LEMMA EndKeeps ==
  ASSUME Inv, NEW t \in Kind, End(t)
  PROVE  Inv'
<1>. USE DEF End
<1>1. TypeOK
  BY DEF Inv
<1>2. /\ feed' \in [Kind -> {"off", "asked", "live", "ended"}]
      /\ queue' \in [Kind -> Seq(published \ heard)]
      /\ \A s \in Kind :
           \/ queue'[s] = <<>>
           \/ queue'[s] = queue[s] /\ (feed[s] = "live" => feed'[s] = "live")
  BY <1>1 DEF TypeOK
<1>3. UNCHANGED <<list, server, items, reads, stale, history, timer, stopped>>
  OBVIOUS
<1>4. connected' \in BOOLEAN /\ breaks' \in 0..MaxBreak
  BY <1>1, BoundsAssumption DEF TypeOK
<1>5. FeedOK'
  BY <1>1 DEF Inv, FeedOK, TypeOK
<1>. QED
  BY <1>2, <1>3, <1>4, <1>5, ConnectionKeeps

LEMMA StopKeeps ==
  ASSUME Inv, Stop
  PROVE  Inv'
<1>. USE DEF Stop
<1>1. TypeOK
  BY DEF Inv
<1>2. /\ feed' \in [Kind -> {"off", "asked", "live", "ended"}]
      /\ queue' \in [Kind -> Seq(published \ heard)]
      /\ \A s \in Kind : queue'[s] = <<>>
  BY <1>1 DEF TypeOK
<1>3. /\ UNCHANGED <<list, server, items, reads, stale, history>>
      /\ connected' \in BOOLEAN /\ breaks' \in 0..MaxBreak
      /\ timer' = FALSE /\ stopped' = TRUE
  BY <1>1 DEF TypeOK
<1>4. FeedOK'
  BY <1>1 DEF FeedOK
<1>. QED
  BY <1>2, <1>3, <1>4, ConnectionKeeps

\* refresh, wherever it is called: the list waits for a read it makes, and what
\* the read under way may lack has it made again.
LEMMA RefreshIs ==
  ASSUME Inv, Refresh, Noted,
         UNCHANGED <<log, published, items, answer, base, failed, stopped, heard>>
  PROVE  /\ reading' \in {"no", "asked", "answered", "failed"}
         /\ {stale, unread}' \subseteq BOOLEAN
         /\ after' \in [Key -> {None} \cup heard']
         /\ ReadOK'
         /\ ~Quiet'
<1>. USE DEF Inv, Refresh
<1>1. /\ reading \in {"no", "asked", "answered", "failed"}
      /\ stale \in BOOLEAN /\ stopped \in BOOLEAN
      /\ after \in [Key -> {None} \cup heard]
  BY DEF TypeOK
<1>2. unread' \in BOOLEAN
  BY DEF Noted
<1>3. CASE stopped
  <2>1. UNCHANGED <<reading, after, stale, heard, answer, stopped>>
    BY <1>3
  <2>2. ReadOK'
    BY <1>3, <2>1 DEF ReadOK
  <2>. QED
    BY <1>1, <1>2, <1>3, <2>1, <2>2 DEF Quiet
<1>4. CASE ~stopped /\ reading # "no"
  <2>1. stale' = TRUE /\ UNCHANGED <<reading, after, heard, stopped>>
    BY <1>4
  <2>2. ReadOK'
    BY <1>4, <2>1 DEF ReadOK
  <2>. QED
    BY <1>1, <1>2, <1>4, <2>1, <2>2 DEF Quiet
<1>5. CASE ~stopped /\ reading = "no"
  <2>1. /\ reading' = "asked" /\ stale' = stale
        /\ after' = [k \in Key |-> None]
    BY <1>5 DEF Ask
  <2>2. ~unread'
    BY <1>5, <2>1 DEF Noted
  <2>3. ~stale
    BY <1>5 DEF ReadOK
  <2>4. \A k \in Key : after'[k] = None
    BY <2>1
  <2>5. ReadOK'
    BY <2>1, <2>2, <2>3, <2>4 DEF ReadOK
  <2>6. after' \in [Key -> {None} \cup heard']
    BY <2>1
  <2>. QED
    BY <1>1, <1>2, <2>1, <2>5, <2>6 DEF Quiet
<1>. QED
  BY <1>1, <1>3, <1>4, <1>5

\* The steps that call it.
LEMMA RefreshKeeps ==
  ASSUME Inv, Refresh, Noted,
         UNCHANGED <<list, server, items, answer, base, failed, stopped, breaks, heard>>,
         timer' \in {FALSE, timer},
         connected' \in BOOLEAN,
         feed' \in [Kind -> {"off", "asked", "live", "ended"}],
         queue' = queue,
         \A s \in Kind : feed[s] = "live" => feed'[s] = "live",
         FeedOK'
  PROVE  Inv'
<1>1. UNCHANGED <<log, published, items, answer, base, failed, stopped, heard>>
  BY DEF server
<1>2. /\ reading' \in {"no", "asked", "answered", "failed"}
      /\ {stale, unread}' \subseteq BOOLEAN
      /\ after' \in [Key -> {None} \cup heard']
      /\ ReadOK'
      /\ ~Quiet'
  BY <1>1, RefreshIs
<1>. USE DEF Inv
<1>3. TypeOK'
  <2>1. {stale, timer, stopped, failed, unread}' \subseteq BOOLEAN
    BY <1>1, <1>2 DEF TypeOK
  <2>2. \A s \in Kind : queue'[s] # <<>> => feed'[s] = "live"
    BY DEF TypeOK
  <2>. QED
    BY <1>1, <1>2, <2>1, <2>2 DEF TypeOK
<1>4. LogOK' /\ QueueOK'
  BY <1>1, LogStays, QueueStays
<1>5. ItemsOK'
  BY <1>2 DEF ItemsOK
<1>. QED
  BY <1>2, <1>3, <1>4, <1>5

LEMMA RingKeeps ==
  ASSUME Inv, Ring
  PROVE  Inv'
<1>1. TypeOK
  BY DEF Inv
<1>2. /\ Refresh /\ Noted
      /\ UNCHANGED <<list, server, items, answer, base, failed, stopped, breaks, heard>>
      /\ timer' = FALSE
      /\ UNCHANGED <<connected, feed, queue>>
  BY DEF Ring
<1>3. connected' \in BOOLEAN /\ feed' \in [Kind -> {"off", "asked", "live", "ended"}]
  BY <1>1, <1>2 DEF TypeOK
<1>4. FeedOK'
  BY <1>2 DEF Inv, FeedOK
<1>. QED
  BY <1>2, <1>3, <1>4, RefreshKeeps

LEMMA AcknowledgeKeeps ==
  ASSUME Inv, Acknowledge
  PROVE  Inv'
<1>1. TypeOK
  BY DEF Inv
<1>2. /\ Refresh /\ Noted
      /\ UNCHANGED <<list, server, items, answer, base, failed, stopped, breaks, heard>>
      /\ connected' = TRUE
      /\ feed' = [s \in Kind |-> "asked"]
      /\ UNCHANGED <<timer, queue>>
  BY DEF Acknowledge
<1>3. /\ feed' \in [Kind -> {"off", "asked", "live", "ended"}]
      /\ connected' \in BOOLEAN
  BY <1>2
<1>4. \A s \in Kind : feed[s] # "live"
  BY DEF Inv, FeedOK, Acknowledge
<1>5. FeedOK'
  BY <1>2 DEF FeedOK
<1>. QED
  BY <1>2, <1>3, <1>4, <1>5, RefreshKeeps

LEMMA RestartKeeps ==
  ASSUME Inv, NEW t \in Kind, Restart(t)
  PROVE  Inv'
<1>1. TypeOK
  BY DEF Inv
<1>2. feed[t] = "ended" /\ queue' = queue
  BY DEF Restart
<1>3. /\ feed' \in [Kind -> {"off", "asked", "live", "ended"}]
      /\ \A s \in Kind : feed[s] = "live" => feed'[s] = "live"
  BY <1>1 DEF TypeOK, Restart
<1>4. FeedOK'
  <2>1. connected' = connected
    BY DEF Restart
  <2>2. ~connected => feed' = [feed EXCEPT ![t] = "off"]
    BY DEF Restart
  <2>. QED
    BY <1>1, <2>1, <2>2 DEF Inv, FeedOK, TypeOK
<1>5. CASE connected
  <2>1. /\ Refresh /\ Noted
        /\ UNCHANGED <<list, server, items, answer, base, failed, stopped, breaks, heard>>
        /\ UNCHANGED <<timer, connected>>
    BY <1>5 DEF Restart
  <2>2. connected' \in BOOLEAN
    BY <1>1, <2>1 DEF TypeOK
  <2>. QED
    BY <1>2, <1>3, <1>4, <2>1, <2>2, RefreshKeeps
<1>6. CASE ~connected
  <2>1. /\ UNCHANGED <<list, server, items, reads, stale, timer, stopped, heard, after>>
        /\ feed' = [feed EXCEPT ![t] = "off"] /\ reading' = reading /\ Noted
    BY <1>6 DEF Restart, reads
  <2>2. \A s \in Kind : feed'[s] = "asked" => feed[s] = "asked"
    BY <1>1, <2>1 DEF TypeOK
  <2>3. unread \in BOOLEAN
    BY <1>1 DEF TypeOK
  <2>4. unread' = unread
    BY <2>1, <2>2, <2>3 DEF Noted
  <2>5. UNCHANGED <<list, server, items, reads, stale, history, timer, stopped>>
    BY <2>1, <2>4 DEF history
  <2>6. /\ connected' \in BOOLEAN /\ breaks' \in 0..MaxBreak
        /\ queue' \in [Kind -> Seq(published \ heard)]
    BY <1>1, <1>2 DEF TypeOK, Restart
  <2>7. \A s \in Kind : queue'[s] = queue[s]
    BY <1>2
  <2>. QED
    BY <1>3, <1>4, <2>5, <2>6, <2>7, ConnectionKeeps
<1>. QED
  BY <1>5, <1>6

\* A read arrives: if it is not to be made again, nothing was told since it was
\* asked for.
LEMMA ArriveKeeps ==
  ASSUME Inv, Arrive
  PROVE  Inv'
<1>. USE DEF Inv
<1>1. UNCHANGED <<list, server, feed, queue, connected, timer, stopped, breaks, heard>>
  BY DEF Arrive
<1>2. /\ list' = list /\ log' = log /\ published' = published /\ heard' = heard
      /\ queue' = queue /\ feed' = feed /\ stopped' = stopped
      /\ stale' = FALSE /\ answer' = 0 /\ failed' = (reading = "failed")
  BY <1>1 DEF server, Arrive
<1>3. /\ answer \in Nat /\ answer <= Len(log) /\ base \in 0..Len(log) /\ Len(log) \in Nat
      /\ stale \in BOOLEAN /\ stopped \in BOOLEAN
      /\ after \in [Key -> {None} \cup heard]
  BY DEF TypeOK
<1>4. \/ reading = "answered" /\ items' = ListAt(answer) /\ base' = answer
      \/ reading = "failed" /\ items' = items /\ base' = base
  BY DEF Arrive
<1>5. \/ /\ stale /\ ~stopped /\ reading' = "asked" /\ unread' = FALSE
         /\ after' = [k \in Key |-> None]
      \/ ~(stale /\ ~stopped) /\ reading' = "no" /\ after' = after /\ unread' = unread
  <2>1. \/ stale /\ ~stopped /\ reading' = "asked" /\ after' = [k \in Key |-> None]
        \/ ~(stale /\ ~stopped) /\ reading' = "no" /\ after' = after
    BY DEF Arrive, Ask
  <2>2. unread' = (unread /\ reading' # "asked")
    <3>1. \A s \in Kind : ~(feed[s] # "asked" /\ feed'[s] = "asked")
      BY <1>2
    <3>2. reading # "asked" /\ Noted
      BY DEF Arrive
    <3>3. unread \in BOOLEAN
      BY DEF TypeOK
    <3>. QED
      BY <3>1, <3>2, <3>3 DEF Noted
  <2>3. unread \in BOOLEAN
    BY DEF TypeOK
  <2>. QED
    BY <2>1, <2>2, <2>3
<1>6. /\ items' \in [Key -> 0..Len(log)]
      /\ \A k \in Key : items'[k] # None => log[items'[k]].key = k
  <2>1. CASE reading = "failed"
    BY <1>4, <2>1 DEF TypeOK
  <2>2. CASE reading # "failed"
    <3>1. items' = ListAt(answer)
      BY <1>4, <2>2
    <3>2. ListAt(answer) \in [Key -> 0..answer]
      BY <1>3, ListHolds
    <3>3. \A k \in Key : ListAt(answer)[k] # None => log[ListAt(answer)[k]].key = k
      BY <1>3, ListHolds
    <3>4. 0..answer \subseteq 0..Len(log)
      BY <1>3
    <3>. QED
      BY <3>1, <3>2, <3>3, <3>4
  <2>. QED
    BY <2>1, <2>2
<1>7. TypeOK'
  <2>1. after' \in [Key -> {None} \cup heard'] /\ reading' \in {"no", "asked"}
    BY <1>2, <1>3, <1>5
  <2>2. {stale, timer, stopped, failed, unread}' \subseteq BOOLEAN
    <3>1. unread' \in BOOLEAN
      BY <1>5 DEF TypeOK
    <3>2. failed' \in BOOLEAN
      BY <1>2
    <3>. QED
      BY <1>1, <1>2, <3>1, <3>2 DEF TypeOK
  <2>3. base' \in 0..Len(log) /\ answer' \in 0..Len(log)
    BY <1>2, <1>3, <1>4
  <2>. QED
    BY <1>1, <1>2, <1>6, <2>1, <2>2, <2>3 DEF TypeOK
<1>8. LogOK' /\ QueueOK' /\ FeedOK'
  BY <1>1, <1>2, LogStays, QueueStays DEF FeedOK
<1>9. ReadOK'
  BY <1>2, <1>5 DEF ReadOK
<1>10. ItemsOK'
  <2>. SUFFICES ASSUME Quiet'
                PROVE  ItemsOK'
    BY DEF ItemsOK
  <2>1. reading = "answered" /\ ~stale /\ ~stopped
    BY <1>2, <1>4, <1>5 DEF Quiet
  <2>2. /\ items' = ListAt(answer) /\ base' = answer
        /\ after' = after /\ \A k \in Key : after[k] = None
        /\ \A e \in heard : e <= answer
    BY <1>4, <1>5, <2>1 DEF ReadOK
  <2>3. PICK n \in Nat : n = answer
    BY <1>3
  <2>4. ListAt(n)' = ListAt(n)
    BY <1>2, ListStays
  <2>5. ListAt(base)' = ListAt(n)'
    BY <2>2, <2>3, Zenon DEF ListAt, LastOf
  <2>6. items' = ListAt(base)'
    BY <2>2, <2>3, <2>4, <2>5
  <2>7. \A e \in heard' : ~(e > base')
    <3>1. \A e \in heard : e \in Nat
      BY DEF TypeOK
    <3>. QED
      BY <1>2, <1>3, <2>2, <3>1
  <2>8. \A k \in Key : after'[k] = None
    BY <2>2
  <2>. QED
    BY <2>6, <2>7, <2>8, Zenon DEF ItemsOK
<1>. QED
  BY <1>7, <1>8, <1>9, <1>10

\* A frame arrives: what is placed is what the list is to hold, and else the
\* list is read shortly.
LEMMA DeliverKeeps ==
  ASSUME Inv, NEW s \in Kind, Deliver(s)
  PROVE  Inv'
<1>. USE DEF Inv
<1>1. /\ UNCHANGED <<list, log, published, feed, connected>>
      /\ UNCHANGED <<reading, answer, base, failed, stopped, breaks, unread>>
  BY DEF Deliver, server, reads
<1>2. /\ queue[s] # <<>>
      /\ queue' = [queue EXCEPT ![s] = Tail(queue[s])]
  BY DEF Deliver
<1>3. PICK e : e = Head(queue[s])
  OBVIOUS
<1>4. /\ heard' = heard \cup {e}
      /\ after' = [after EXCEPT ![log[e].key] = e]
      /\ \/ s = "destroyed" /\ TakeOut(e)
         \/ s # "destroyed" /\ \E tells \in {FALSE, list = "told"} : Upsert(e, tells)
  BY <1>3 DEF Deliver
<1>5. /\ queue \in [Kind -> Seq(published \ heard)]
      /\ published \subseteq 1..Len(log) /\ heard \subseteq published
      /\ Len(log) \in Nat /\ log \in Seq(Change)
      /\ after \in [Key -> {None} \cup heard]
      /\ items \in [Key -> 0..Len(log)]
  BY DEF TypeOK
<1>6. PICK n \in Nat : n = Len(queue[s]) /\ DOMAIN queue[s] = 1..n /\ n >= 1
  BY <1>2, <1>5
<1>7. e \in published \ heard /\ log[e].kind = s
  <2>1. e = queue[s][1] /\ 1 \in DOMAIN queue[s]
    BY <1>2, <1>3, <1>5, <1>6
  <2>. QED
    BY <1>5, <2>1 DEF QueueOK
<1>8. e \in 1..Len(log) /\ e # None /\ log[e].key \in Key
  <2>1. e \in 1..Len(log)
    BY <1>5, <1>7
  <2>. QED
    BY <2>1, ChangeIs DEF None
<1>9. ASSUME NEW t \in Kind
      PROVE  /\ queue'[t] \in Seq(published' \ heard')
             /\ queue'[t] # <<>> => feed'[t] = "live"
             /\ \A i, j \in DOMAIN queue'[t] :
                  /\ log[queue'[t][i]].kind = t
                  /\ i # j => queue'[t][i] # queue'[t][j]
  <2>1. CASE t = s
    <3>1. /\ queue'[t] = Tail(queue[s])
          /\ DOMAIN queue'[t] = 1..(n - 1)
          /\ \A i \in 1..(n - 1) : queue'[t][i] = queue[s][i + 1] /\ i + 1 \in 1..n
          /\ queue'[t] \in Seq(published \ heard) /\ Len(queue'[t]) = n - 1
      BY <1>2, <1>5, <1>6, <2>1
    <3>2. \A i \in 1..(n - 1) : queue'[t][i] # e
      <4>1. e = queue[s][1]
        BY <1>2, <1>3, <1>5
      <4>2. ASSUME NEW i \in 1..(n - 1)
            PROVE  queue[s][i + 1] # queue[s][1]
        <5>1. i + 1 \in DOMAIN queue[s] /\ 1 \in DOMAIN queue[s] /\ i + 1 # 1
          BY <1>6
        <5>. QED
          BY <5>1 DEF QueueOK
      <4>. QED
        BY <3>1, <4>1, <4>2
    <3>3. queue'[t] \in Seq(published' \ heard')
      <4>1. ASSUME NEW i \in 1..(n - 1)
            PROVE  queue'[t][i] \in published' \ heard'
        <5>1. queue'[t][i] \in published \ heard
          BY <3>1
        <5>2. queue'[t][i] # e
          BY <3>2
        <5>. QED
          BY <1>1, <1>4, <5>1, <5>2
      <4>2. queue'[t] = [i \in 1..(n - 1) |-> queue'[t][i]]
        BY <3>1
      <4>3. n - 1 \in Nat
        BY <1>6
      <4>. QED
        BY <4>1, <4>2, <4>3, IsASeq
    <3>4. queue'[t] # <<>> => feed'[t] = "live"
      BY <1>1, <1>2, <2>1 DEF TypeOK
    <3>5. ASSUME NEW i \in 1..(n - 1), NEW j \in 1..(n - 1)
          PROVE  /\ log[queue'[t][i]].kind = t
                 /\ i # j => queue'[t][i] # queue'[t][j]
      <4>1. i + 1 \in DOMAIN queue[s] /\ j + 1 \in DOMAIN queue[s] /\ (i # j => i + 1 # j + 1)
        BY <1>6
      <4>. QED
        BY <2>1, <3>1, <4>1 DEF QueueOK
    <3>. QED
      BY <3>1, <3>3, <3>4, <3>5
  <2>2. CASE t # s
    <3>1. queue'[t] = queue[t] /\ queue[t] \in Seq(published \ heard)
      BY <1>2, <1>5, <2>2
    <3>2. \A i \in DOMAIN queue[t] : queue[t][i] # e
      BY <1>7, <2>2 DEF QueueOK
    <3>3. queue'[t] \in Seq(published' \ heard')
      <4>1. \A i \in 1..Len(queue[t]) : queue[t][i] \in published' \ heard'
        BY <1>1, <1>4, <3>1, <3>2
      <4>. QED
        BY <3>1, <4>1, IsASeq
    <3>. QED
      BY <1>1, <3>1, <3>3 DEF QueueOK, TypeOK
  <2>. QED
    BY <2>1, <2>2
<1>10. QueueOK'
  BY <1>1, <1>9 DEF QueueOK
<1>11. /\ items' \in [Key -> 0..Len(log)]
       /\ \A k \in Key : items'[k] # None => log[items'[k]].key = k
       /\ stale' \in BOOLEAN /\ timer' \in BOOLEAN
       /\ reading # "no" => stale'
       /\ stale' => stale \/ reading # "no"
       /\ stale => stale'
  <2>1. Shown(e) \in {None, e}
    BY DEF Shown
  <2>2. \/ items' = items
        \/ \E r \in {None, e} : items' = [items EXCEPT ![log[e].key] = r]
    BY <1>4, <2>1 DEF TakeOut, Upsert, Put
  <2>3. \/ timer' = TRUE /\ stale' = (stale \/ reading # "no")
        \/ timer' = timer /\ stale' = (stale \/ reading # "no")
    BY <1>4 DEF TakeOut, Upsert, Placed, Resync
  <2>4. /\ items' \in [Key -> 0..Len(log)]
        /\ \A k \in Key : items'[k] # None => log[items'[k]].key = k
    <3>1. items \in [Key -> 0..Len(log)] /\ \A k \in Key : items[k] # None => log[items[k]].key = k
      BY DEF TypeOK
    <3>2. CASE items' = items
      BY <3>1, <3>2
    <3>3. ASSUME NEW r \in {None, e}, items' = [items EXCEPT ![log[e].key] = r]
          PROVE  /\ items' \in [Key -> 0..Len(log)]
                 /\ \A k \in Key : items'[k] # None => log[items'[k]].key = k
      <4>1. r \in 0..Len(log)
        BY <1>5, <1>8 DEF None
      <4>2. items' \in [Key -> 0..Len(log)]
        BY <1>8, <3>1, <3>3, <4>1
      <4>3. \A k \in Key : items'[k] = IF k = log[e].key THEN r ELSE items[k]
        BY <1>8, <3>1, <3>3
      <4>. QED
        BY <3>1, <4>2, <4>3
    <3>. QED
      BY <2>2, <3>2, <3>3
  <2>5. stale \in BOOLEAN /\ timer \in BOOLEAN
    BY DEF TypeOK
  <2>. QED
    BY <2>3, <2>4, <2>5
<1>12. TypeOK'
  <2>1. queue' \in [Kind -> Seq(published' \ heard')]
        /\ \A t \in Kind : queue'[t] # <<>> => feed'[t] = "live"
    <3>1. queue' = [t \in Kind |-> queue'[t]]
      BY <1>2, <1>5
    <3>. QED
      BY <1>9, <3>1
  <2>2. after' \in [Key -> {None} \cup heard'] /\ heard' \subseteq published'
    BY <1>1, <1>4, <1>5, <1>7
  <2>3. {stale, timer, stopped, failed, unread}' \subseteq BOOLEAN
    BY <1>1, <1>11 DEF TypeOK
  <2>. QED
    BY <1>1, <1>11, <2>1, <2>2, <2>3 DEF TypeOK
<1>13. LogOK' /\ FeedOK'
  BY <1>1, LogStays DEF FeedOK
<1>14. ReadOK'
  BY <1>1, <1>11 DEF ReadOK
<1>15. ItemsOK'
  <2>. SUFFICES ASSUME Quiet'
                PROVE  ItemsOK'
    BY DEF ItemsOK
  <2>1. \/ s = "destroyed" /\ list # "paged" /\ TakeOut(e)
        \/ s # "destroyed" /\ list = "told" /\ Upsert(e, TRUE)
    BY <1>4 DEF Quiet, TakeOut, Upsert, Resync
  <2>2. items' = [items EXCEPT ![log[e].key] = Shown(e)] /\ timer' = timer
    <3>1. CASE s = "destroyed"
      <4>1. Shown(e) = None
        BY <1>7, <1>8, <3>1, ChangeIs DEF Shown
      <4>. QED
        BY <2>1, <3>1, <4>1 DEF TakeOut, Put, Placed
    <3>2. CASE s # "destroyed"
      BY <2>1, <3>2 DEF Upsert, Put, Placed
    <3>. QED
      BY <3>1, <3>2
  <2>3. list # "paged" /\ (list = "untold" => s = "destroyed")
    BY <2>1
  <2>4. Quiet
    BY <1>1, <2>2 DEF Quiet
  <2>5. ListAt(base)' = ListAt(base)
    <3>1. PICK b \in Nat : b = base
      BY DEF TypeOK
    <3>2. ListAt(b)' = ListAt(b)
      BY <1>1, ListStays
    <3>3. ListAt(base)' = ListAt(b)'
      BY <1>1, <3>1, Zenon DEF ListAt, LastOf
    <3>. QED
      BY <3>1, <3>2, <3>3
  <2>6. \A r : Shown(r)' = Shown(r)
    BY <1>1 DEF Shown
  <2>7. ASSUME NEW k \in Key
        PROVE  /\ after'[k] = None => items'[k] = ListAt(base)'[k]
               /\ after'[k] # None =>
                    /\ list' # "paged" /\ items'[k] = Shown(after[k])'
                    /\ log'[after'[k]].key = k
                    /\ list' = "untold" => log'[after'[k]].kind = "destroyed"
    <3>1. CASE k = log[e].key
      <4>1. after'[k] = e /\ items'[k] = Shown(e)
        BY <1>4, <1>5, <2>2, <3>1
      <4>2. Shown(after[k])' = Shown(e)
        BY <1>1, <4>1 DEF Shown
      <4>. QED
        BY <1>1, <1>7, <1>8, <2>3, <3>1, <4>1, <4>2
    <3>2. CASE k # log[e].key
      <4>1. after'[k] = after[k] /\ items'[k] = items[k]
        BY <1>4, <1>5, <2>2, <3>2
      <4>2. Shown(after[k])' = Shown(after[k])
        BY <1>1, <4>1 DEF Shown
      <4>3. /\ after[k] = None => items[k] = ListAt(base)[k]
            /\ after[k] # None => /\ list # "paged" /\ items[k] = Shown(after[k])
                                  /\ log[after[k]].key = k
                                  /\ list = "untold" => log[after[k]].kind = "destroyed"
        BY <2>4, Zenon DEF ItemsOK
      <4>. QED
        BY <1>1, <2>5, <4>1, <4>2, <4>3
    <3>. QED
      BY <3>1, <3>2
  <2>8. ASSUME NEW f \in heard', f > base'
        PROVE  after'[log'[f].key] # None
    <3>1. CASE log[f].key = log[e].key
      BY <1>1, <1>4, <1>5, <1>8, <3>1
    <3>2. CASE log[f].key # log[e].key
      <4>1. f \in heard
        BY <1>4, <3>2
      <4>2. after[log[f].key] # None
        BY <1>1, <2>4, <2>8, <4>1 DEF ItemsOK
      <4>3. log[f].key \in Key
        BY <1>5, <4>1, ChangeIs
      <4>. QED
        BY <1>1, <1>4, <1>5, <3>2, <4>2, <4>3
    <3>. QED
      BY <3>1, <3>2
  <2>. QED
    BY <2>7, <2>8, Zenon DEF ItemsOK
<1>. QED
  BY <1>10, <1>12, <1>13, <1>14, <1>15

LEMMA NextKeeps == Inv /\ [Next]_vars => Inv'
<1>. SUFFICES ASSUME Inv, [Next]_vars
              PROVE  Inv'
  OBVIOUS
<1>1. ASSUME NEW c \in Change, Commit(c)
      PROVE  Inv'
  BY <1>1, CommitKeeps
<1>2. ASSUME NEW e \in 1..Len(log), Publish(e)
      PROVE  Inv'
  BY <1>2, PublishKeeps
<1>3. ASSUME NEW s \in Kind, Deliver(s) \/ Listen(s) \/ Restart(s) \/ End(s)
      PROVE  Inv'
  BY <1>3, DeliverKeeps, ListenKeeps, RestartKeeps, EndKeeps
<1>4. ASSUME Answer \/ Arrive \/ Ring \/ Acknowledge \/ LoseRead \/ Drop \/ Stop
      PROVE  Inv'
  BY <1>4, AnswerKeeps, ArriveKeeps, RingKeeps, AcknowledgeKeeps, LoseReadKeeps,
     DropKeeps, StopKeeps
<1>5. CASE UNCHANGED vars
  <2>1. /\ UNCHANGED <<list, server, items, reads, stale, history>>
        /\ UNCHANGED <<feed, queue, connected, timer, stopped, breaks>>
    BY <1>5 DEF vars
  <2>2. TypeOK
    BY DEF Inv
  <2>3. FeedOK'
    BY <2>1 DEF Inv, FeedOK
  <2>4. /\ feed' \in [Kind -> {"off", "asked", "live", "ended"}]
        /\ queue' \in [Kind -> Seq(published \ heard)]
        /\ breaks' \in 0..MaxBreak
    BY <2>1, <2>2 DEF TypeOK
  <2>5. connected' \in BOOLEAN
    BY <2>1, <2>2 DEF TypeOK
  <2>. QED
    BY <2>1, <2>3, <2>4, <2>5, ConnectionKeeps
<1>. QED
  BY <1>1, <1>2, <1>3, <1>4, <1>5 DEF Next, Proceed

LEMMA Invariant == Spec => []Inv
BY InitInv, NextKeeps, PTL DEF Spec

-----------------------------------------------------------------------------
(* What the list holds once it has settled.                                 *)

\* Of what the last read had not seen and the list was not told, nothing is to
\* be shown.
LEMMA NothingNew ==
  ASSUME Inv, Settled, ~failed, NoneMissed, NEW k \in Key, after[k] = None
  PROVE  Shown(Latest(k)) = Shown(LastOf(k, base))
<1>. USE DEF Inv
<1>1. Quiet
  BY DEF Settled, Quiet
<1>2. PICK n \in Nat : n = Len(log)
  BY DEF TypeOK
<1>3. PICK b \in 0..n : b = base
  BY <1>2 DEF TypeOK
<1>4. PICK m : m = LastOf(k, n)
  OBVIOUS
<1>5. /\ m \in 0..n
      /\ m # None => m \in 1..n /\ log[m].key = k
      /\ \A e \in 1..n : log[e].key = k => e <= m
  BY <1>4, LastIs
<1>6. CASE m <= b
  <2>1. m \in 0..b /\ \A e \in 1..b : log[e].key = k => e <= m
    BY <1>3, <1>5, <1>6
  <2>2. LastOf(k, b) = m
    BY <1>3, <1>5, <2>1, LastIsThe
  <2>. QED
    BY <1>2, <1>3, <1>4, <2>2 DEF Latest
<1>7. CASE m > b
  <2>1. m \in (b + 1)..n /\ m \in 1..n /\ log[m].key = k
    BY <1>3, <1>5, <1>7 DEF None
  <2>2. ASSUME NEW e \in (b + 1)..n, log[e].key = k
        PROVE  Shown(e) = None /\ Shown(LastOf(k, e - 1)) = None
    <3>1. e > base
      BY <1>3
    <3>2. e \notin heard
      BY <1>1, <2>2, <3>1 DEF ItemsOK
    <3>3. Void(e)
      BY <1>2, <1>3, <3>2 DEF NoneMissed
    <3>. QED
      BY <2>2, <3>3 DEF Void
  <2>3. PICK d \in (b + 1)..n : /\ log[d].key = k
                               /\ \A e \in (b + 1)..n : log[e].key = k => d <= e
    <3>. DEFINE made == {e \in (b + 1)..n : log[e].key = k}
    <3>1. made \in SUBSET Nat /\ made # {}
      BY <1>3, <2>1
    <3>2. PICK d \in made : \A e \in made : d <= e
      <4>. HIDE DEF made
      <4>. QED
        BY <3>1, SmallestIs
    <3>. QED
      BY <3>2
  <2>4. LastOf(k, d - 1) = LastOf(k, b)
    <3>1. PICK j : j = LastOf(k, b)
      OBVIOUS
    <3>2. /\ b \in Nat /\ d - 1 \in Nat /\ j \in 0..b
          /\ j # None => log[j].key = k
          /\ \A e \in 1..b : log[e].key = k => e <= j
      BY <1>3, <3>1, LastIs
    <3>3. j \in 0..(d - 1)
      BY <1>3, <3>2
    <3>4. \A e \in 1..(d - 1) : log[e].key = k => e <= j
      BY <1>3, <2>3, <3>2
    <3>5. LastOf(k, d - 1) = j
      BY <3>2, <3>3, <3>4, LastIsThe
    <3>. QED
      BY <3>1, <3>5
  <2>5. Shown(m) = None /\ Shown(LastOf(k, b)) = None
    BY <2>1, <2>2, <2>3, <2>4
  <2>. QED
    BY <1>2, <1>3, <1>4, <2>5 DEF Latest
<1>. QED
  BY <1>3, <1>5, <1>6, <1>7

LEMMA CatchesUp == Inv => ReReadsCatchUp
<1>. SUFFICES ASSUME Inv, Settled, ~failed, NoneMissed, list # "told"
              PROVE  items = ListAt(Len(log))
  BY DEF ReReadsCatchUp
<1>1. /\ TypeOK /\ LogOK /\ ItemsOK /\ Quiet
      /\ list = "paged" \/ list = "untold"
  BY ListsAssumption DEF Inv, TypeOK, ListKind, Settled, Quiet
<1>2. PICK n \in Nat : n = Len(log)
  BY <1>1 DEF TypeOK
<1>3. PICK b \in Nat : b = base
  BY <1>1 DEF TypeOK
<1>4. items \in [Key -> 0..n] /\ ListAt(n) \in [Key -> 0..n]
  BY <1>1, <1>2, ListHolds DEF TypeOK
<1>5. CASE list = "paged"
  <2>1. \A k \in Key : after[k] = None /\ items[k] = ListAt(b)[k]
    BY <1>1, <1>3, <1>5 DEF ItemsOK
  <2>2. \A k \in Key : Shown(LastOf(k, n)) = Shown(LastOf(k, b))
    BY <1>2, <1>3, <2>1, NothingNew DEF Latest
  <2>3. ListAt(n) = ListAt(b)
    BY <2>2, ListsAgree
  <2>. QED
    BY <1>2, <1>4, <2>1, <2>3
<1>6. CASE list = "untold"
  <2>1. ASSUME NEW k \in Key
        PROVE  items[k] = Shown(LastOf(k, n))
    <3>1. CASE after[k] = None
      <4>1. items[k] = ListAt(b)[k]
        BY <1>1, <1>3, <3>1 DEF ItemsOK
      <4>2. ListAt(b)[k] = Shown(LastOf(k, b))
        BY <1>6, ListHolds
      <4>3. Shown(LastOf(k, n)) = Shown(LastOf(k, b))
        BY <1>2, <1>3, <3>1, NothingNew DEF Latest
      <4>. QED
        BY <4>1, <4>2, <4>3
    <3>2. CASE after[k] # None
      <4>1. /\ items[k] = Shown(after[k]) /\ log[after[k]].key = k
            /\ log[after[k]].kind = "destroyed"
        BY <1>1, <1>6, <3>2 DEF ItemsOK
      <4>2. after[k] \in 1..n
        BY <1>1, <1>2, <3>2 DEF TypeOK
      <4>3. \A e \in 1..n : log[e].key = k => e <= after[k]
        BY <1>1, <1>2, <4>1, <4>2 DEF LogOK
      <4>4. LastOf(k, n) = after[k]
        BY <4>1, <4>2, <4>3, LastIsThe
      <4>. QED
        BY <4>1, <4>4
    <3>. QED
      BY <3>1, <3>2
  <2>2. \A k \in Key : ListAt(n)[k] = Shown(LastOf(k, n))
    BY <1>6, ListHolds
  <2>. QED
    BY <1>2, <1>4, <2>1, <2>2
<1>. QED
  BY <1>1, <1>5, <1>6

LEMMA PlacedRight == Inv => PlacedIsExact
<1>. SUFFICES ASSUME Inv, Settled, ~failed, NoneMissed, list = "told",
                     NEW k \in Key, after[k] \in {None, Latest(k)}
              PROVE  items[k] = Shown(Latest(k))
  BY DEF PlacedIsExact
<1>1. TypeOK /\ ItemsOK /\ Quiet
  BY DEF Inv, Settled, Quiet
<1>2. PICK b \in Nat : b = base
  BY <1>1 DEF TypeOK
<1>3. CASE after[k] = None
  <2>1. items[k] = ListAt(b)[k]
    BY <1>1, <1>2, <1>3 DEF ItemsOK
  <2>2. ListAt(b)[k] = Shown(LastOf(k, b))
    BY ListHolds
  <2>3. Shown(Latest(k)) = Shown(LastOf(k, b))
    BY <1>2, <1>3, NothingNew
  <2>. QED
    BY <2>1, <2>2, <2>3
<1>4. CASE after[k] # None
  BY <1>1, <1>4 DEF ItemsOK
<1>. QED
  BY <1>3, <1>4

-----------------------------------------------------------------------------
(* The theorems.                                                            *)

\* Every variable keeps its type: what waits in a subscription's queue was
\* published and not yet heard, and only a live subscription has a queue.
THEOREM TypeCorrect == Spec => []TypeOK
<1>1. Inv => TypeOK
  BY DEF Inv
<1>. QED
  BY <1>1, Invariant, PTL

\* A page, or a list whose records the client cannot place, shows what the
\* server holds once it has settled, in whatever order its frames, its reads
\* and its connections came and went (live.rs, the resync a change schedules) -
\* if its last read came through, and it was told of all that is new since, or
\* what it was not told of leaves nothing to show.
THEOREM ReReadsAreExact == Spec => []ReReadsCatchUp
BY CatchesUp, Invariant, PTL

\* A list the client keeps by placing records shows, once it has settled, of each
\* key what the server holds (live.rs, placed: a read under way is made again) -
\* if its last read came through, and it was told of all that is new since, as
\* above, and, of the key's changes, of the last one last.
THEOREM PlacingIsExact == Spec => []PlacedIsExact
BY PlacedRight, Invariant, PTL

\* A list that has settled, and whose last read came through, asked for that read
\* after it last asked for a subscription (live.rs, refresh while a read is under
\* way): a read that was under way as it subscribed is followed by another.
THEOREM SettledListsHaveRead == Spec => []ReadsAfterSubscribing
<1>1. Inv => ReadsAfterSubscribing
  <2>1. ReadOK /\ Settled => ~unread
    BY DEF ReadOK, Settled
  <2>. QED
    BY <2>1 DEF Inv, ReadsAfterSubscribing
<1>. QED
  BY <1>1, Invariant, PTL
=============================================================================
