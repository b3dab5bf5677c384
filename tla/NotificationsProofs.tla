------------------------- MODULE NotificationsProofs -------------------------
(***************************************************************************)
(* Proofs about Notifications, for scopes nested to any depth around any    *)
(* number of writes.                                                        *)
(*                                                                         *)
(* What a task writes is accounted for, and what failed is gone from the    *)
(* database, in every program.  What is sent was committed, and in order,   *)
(* in the programs NestsSoundly describes.                                  *)
(***************************************************************************)
EXTENDS Notifications, SequenceTheorems, TLAPS

-----------------------------------------------------------------------------
(* Sequences.                                                               *)

\* What Append, Front, Tail, SubSeq and \o leave in a sequence.
LEMMA Appended ==
  ASSUME NEW S, NEW s \in Seq(S), NEW x \in S
  PROVE  /\ Append(s, x) \in Seq(S)
         /\ Len(Append(s, x)) = Len(s) + 1
         /\ DOMAIN s = 1..Len(s) /\ Len(s) \in Nat
         /\ DOMAIN Append(s, x) = 1..Len(s) + 1
         /\ \A i \in 1..Len(s) : Append(s, x)[i] = s[i]
         /\ Append(s, x)[Len(s) + 1] = x
         /\ ToSet(Append(s, x)) = ToSet(s) \cup {x}
<1>1. /\ Append(s, x) \in Seq(S)
      /\ Len(Append(s, x)) = Len(s) + 1
      /\ Len(s) \in Nat /\ DOMAIN s = 1..Len(s)
      /\ DOMAIN Append(s, x) = 1..Len(s) + 1
      /\ \A i \in 1..Len(s) : Append(s, x)[i] = s[i]
      /\ Append(s, x)[Len(s) + 1] = x
  BY AppendProperties, LenProperties
<1>. QED
  BY <1>1 DEF ToSet

LEMMA Fronted ==
  ASSUME NEW S, NEW s \in Seq(S), s # <<>>
  PROVE  /\ Front(s) \in Seq(S)
         /\ Len(s) \in Nat \ {0} /\ DOMAIN s = 1..Len(s)
         /\ Len(Front(s)) = Len(s) - 1 /\ DOMAIN Front(s) = 1..Len(s) - 1
         /\ \A i \in 1..Len(s) - 1 : Front(s)[i] = s[i]
         /\ Last(s) \in S /\ Last(s) = s[Len(s)]
<1>1. Len(s) \in Nat \ {0} /\ DOMAIN s = 1..Len(s) /\ \A i \in 1..Len(s) : s[i] \in S
  BY EmptySeq, LenProperties, ElementOfSeq
<1>2. \A i \in 1..Len(s) - 1 : s[i] \in S
  BY <1>1
<1>3. /\ Front(s) \in Seq(S) /\ Len(Front(s)) = Len(s) - 1
      /\ \A i \in 1..Len(s) - 1 : Front(s)[i] = s[i]
  BY <1>1, <1>2, SubSeqProperties, 1 \in Int, Len(s) - 1 \in Int DEF Front
<1>. QED
  BY <1>1, <1>3, LenProperties DEF Last

LEMMA Shortened ==
  ASSUME NEW S, NEW s \in Seq(S), NEW n \in 0..Len(s)
  PROVE  /\ SubSeq(s, 1, n) \in Seq(S)
         /\ Len(SubSeq(s, 1, n)) = n /\ DOMAIN SubSeq(s, 1, n) = 1..n
         /\ \A i \in 1..n : SubSeq(s, 1, n)[i] = s[i]
         /\ ToSet(SubSeq(s, 1, n)) \subseteq ToSet(s)
<1>1. Len(s) \in Nat /\ DOMAIN s = 1..Len(s) /\ \A i \in 1..Len(s) : s[i] \in S
  BY LenProperties, ElementOfSeq
<1>2. \A i \in 1..n : s[i] \in S
  BY <1>1
<1>3. /\ SubSeq(s, 1, n) \in Seq(S) /\ Len(SubSeq(s, 1, n)) = n
      /\ \A i \in 1..n : SubSeq(s, 1, n)[i] = s[i]
  BY <1>1, <1>2, SubSeqProperties, 1 \in Int, n \in Int
<1>. QED
  BY <1>1, <1>3, LenProperties DEF ToSet

LEMMA Beheaded ==
  ASSUME NEW S, NEW s \in Seq(S), s # <<>>
  PROVE  /\ Head(s) \in S /\ Head(s) = s[1] /\ Tail(s) \in Seq(S)
         /\ DOMAIN s = 1..Len(s) /\ Len(s) \in Nat \ {0}
         /\ DOMAIN Tail(s) = 1..Len(s) - 1
         /\ \A i \in 1..Len(s) - 1 : Tail(s)[i] = s[i + 1]
         /\ ToSet(s) = {Head(s)} \cup ToSet(Tail(s))
<1>1. /\ Len(s) \in Nat \ {0} /\ DOMAIN s = 1..Len(s)
      /\ Head(s) \in S /\ Head(s) = s[1] /\ Tail(s) \in Seq(S)
      /\ DOMAIN Tail(s) = 1..Len(s) - 1
      /\ \A i \in 1..Len(s) - 1 : Tail(s)[i] = s[i + 1]
  BY EmptySeq, HeadTailProperties, LenProperties
<1>2. ASSUME NEW i \in 1..Len(s)
      PROVE  s[i] \in {Head(s)} \cup ToSet(Tail(s))
  <2>1. CASE i = 1
    BY <1>1, <2>1
  <2>2. CASE i # 1
    <3>1. i - 1 \in 1..Len(s) - 1 /\ s[i] = Tail(s)[i - 1]
      BY <1>1, <2>2
    <3>. QED
      BY <1>1, <3>1 DEF ToSet
  <2>. QED
    BY <2>1, <2>2
<1>3. \A i \in 1..Len(s) - 1 : i + 1 \in 1..Len(s)
  BY <1>1
<1>. QED
  BY <1>1, <1>2, <1>3 DEF ToSet

LEMMA Joined ==
  ASSUME NEW S, NEW s \in Seq(S), NEW t \in Seq(S)
  PROVE  s \o t \in Seq(S) /\ ToSet(s \o t) = ToSet(s) \cup ToSet(t)
<1>1. /\ s \o t \in Seq(S) /\ DOMAIN (s \o t) = 1..Len(s) + Len(t)
      /\ DOMAIN s = 1..Len(s) /\ DOMAIN t = 1..Len(t) /\ Len(s) \in Nat /\ Len(t) \in Nat
      /\ \A i \in 1..Len(s) + Len(t) :
           (s \o t)[i] = IF i <= Len(s) THEN s[i] ELSE t[i - Len(s)]
  BY ConcatProperties, LenProperties
<1>2. \A i \in 1..Len(s) : i \in 1..Len(s) + Len(t) /\ (s \o t)[i] = s[i]
  BY <1>1
<1>3. \A i \in 1..Len(t) : Len(s) + i \in 1..Len(s) + Len(t) /\ (s \o t)[Len(s) + i] = t[i]
  BY <1>1
<1>5. ToSet(s \o t) \subseteq ToSet(s) \cup ToSet(t)
  <2>1. ASSUME NEW i \in 1..Len(s) + Len(t)
        PROVE  (s \o t)[i] \in ToSet(s) \cup ToSet(t)
    <3>1. CASE i <= Len(s)
      <4>1. i \in 1..Len(s) /\ (s \o t)[i] = s[i]
        BY <1>1, <3>1
      <4>. QED
        BY <1>1, <4>1 DEF ToSet
    <3>2. CASE ~(i <= Len(s))
      <4>1. i - Len(s) \in 1..Len(t) /\ (s \o t)[i] = t[i - Len(s)]
        BY <1>1, <3>2
      <4>. QED
        BY <1>1, <4>1 DEF ToSet
    <3>. QED
      BY <3>1, <3>2
  <2>. QED
    BY <1>1, <2>1 DEF ToSet
<1>6. ToSet(s) \cup ToSet(t) \subseteq ToSet(s \o t)
  <2>1. ASSUME NEW i \in 1..Len(s)
        PROVE  s[i] \in ToSet(s \o t)
    BY <1>1, <1>2 DEF ToSet
  <2>2. ASSUME NEW i \in 1..Len(t)
        PROVE  t[i] \in ToSet(s \o t)
    BY <1>1, <1>3 DEF ToSet
  <2>. QED
    BY <1>1, <2>1, <2>2 DEF ToSet
<1>. QED
  BY <1>1, <1>5, <1>6

LEMMA Emptied == ToSet(<<>>) = {} /\ \A S : <<>> \in Seq(S) /\ Len(<<>>) = 0
  BY DEF ToSet

LEMMA Members ==
  ASSUME NEW S, NEW s \in Seq(S)
  PROVE  ToSet(s) \subseteq S /\ (s = <<>> <=> ToSet(s) = {})
<1>1. DOMAIN s = 1..Len(s) /\ Len(s) \in Nat /\ \A i \in 1..Len(s) : s[i] \in S
  BY LenProperties, ElementOfSeq
<1>2. s # <<>> => 1 \in 1..Len(s)
  BY <1>1, EmptySeq
<1>. QED
  BY <1>1, <1>2, Emptied DEF ToSet

-----------------------------------------------------------------------------
(* Types and nesting.                                                       *)

\* How the scopes nest: a queue is that of a scope no deeper, which is open
\* while anything is in it; a savepoint marks a point no earlier than those
\* around it, and the transaction around them all was empty before it.
Nesting ==
  /\ \A d \in DOMAIN stack : stack[d].queue \in 1..d
  /\ \A d, e \in DOMAIN stack : d <= e => stack[d].mark <= stack[e].mark
  /\ \A d \in DOMAIN stack :
       (\A e \in 1..(d - 1) : ~stack[e].tx) => stack[d].mark = 0
  /\ Len(pending) <= writes
  /\ phase = "written" => writes > 0
  /\ phase = "failing" => stack # <<>>
  /\ phase # "flushing" => outbox = <<>>
  /\ \A d \in Depth : queue[d] # <<>> => d \in DOMAIN stack /\ stack[d].owns

\* What the variables hold apart from the stack.
Contents ==
  /\ phase \in Phase
  /\ queue \in [Depth -> Seq(Write)]
  /\ outbox \in Seq(Write) /\ pending \in Seq(Write)
  /\ committed \in Seq(Write) /\ sent \in Seq(Write)
  /\ writes \in 0..MaxWrites
  /\ excused \subseteq Write /\ broken \subseteq Write
  /\ aborted \in BOOLEAN /\ dropped \subseteq Write

\* What is stored, in the database or in the open transaction, or was until the
\* COMMIT of an aborted transaction.
Ended  == ToSet(committed) \cup dropped
Stored == Ended \cup ToSet(pending)

LEMMA ScopeType ==
  ASSUME TypeOK, Nesting, NEW d \in DOMAIN stack
  PROVE  /\ d \in Depth /\ d \in 1..Len(stack) /\ stack[d] \in Scope
         /\ stack[d].kind \in Kind
         /\ stack[d].queue \in Depth /\ stack[d].queue \in 1..d
         /\ stack[d].owns \in BOOLEAN /\ stack[d].tx \in BOOLEAN
         /\ stack[d].mark \in 0..Len(pending) /\ stack[d].from \in 0..writes
         /\ stack[d].owns <=> stack[d].queue = d
<1>1. /\ Len(stack) \in Nat /\ Len(stack) <= MaxDepth /\ DOMAIN stack = 1..Len(stack)
      /\ stack[d] \in Scope
  BY LenProperties, ElementOfSeq DEF TypeOK
<1>2. d \in Depth
  BY <1>1, BoundAssumption DEF Depth
<1>3. /\ stack[d].kind \in Kind /\ stack[d].queue \in 0..MaxDepth
      /\ stack[d].owns \in BOOLEAN /\ stack[d].tx \in BOOLEAN
      /\ stack[d].mark \in 0..MaxWrites /\ stack[d].from \in 0..MaxWrites
  BY <1>1 DEF Scope
<1>4. /\ stack[d].queue # 0 /\ stack[d].queue \in 1..d
      /\ stack[d].mark <= Len(pending) /\ stack[d].from <= writes
      /\ stack[d].owns <=> stack[d].queue = d
  BY DEF TypeOK, Nesting
<1>5. Len(pending) \in Nat /\ writes \in Nat
  BY LenProperties DEF TypeOK
<1>. QED
  BY <1>1, <1>2, <1>3, <1>4, <1>5, BoundAssumption DEF Depth

\* The context of the innermost scope has a queue, as do those around it.
LEMMA Innermost ==
  ASSUME TypeOK, Nesting
  PROVE  /\ Len(stack) \in 0..MaxDepth /\ DOMAIN stack = 1..Len(stack)
         /\ stack = <<>> <=> Len(stack) = 0
         /\ stack = <<>> => CurrentQueue = 0 /\ ~InTx(stack)
         /\ stack # <<>> =>
              /\ Len(stack) \in DOMAIN stack /\ Last(stack) = stack[Len(stack)]
              /\ CurrentQueue = Last(stack).queue /\ CurrentQueue \in Depth
<1>1. Len(stack) \in 0..MaxDepth /\ DOMAIN stack = 1..Len(stack)
  BY LenProperties, BoundAssumption DEF TypeOK
<1>2. stack = <<>> <=> Len(stack) = 0
  BY EmptySeq DEF TypeOK
<1>3. stack = <<>> => CurrentQueue = 0 /\ ~InTx(stack)
  BY <1>1, <1>2 DEF CurrentQueue, InTx
<1>4. ASSUME stack # <<>>
      PROVE  /\ Len(stack) \in DOMAIN stack /\ Last(stack) = stack[Len(stack)]
             /\ CurrentQueue = Last(stack).queue /\ CurrentQueue \in Depth
  <2>1. Len(stack) \in DOMAIN stack
    BY <1>1, <1>2, <1>4
  <2>. QED
    BY <1>4, <2>1, ScopeType DEF Last, CurrentQueue
<1>. QED
  BY <1>1, <1>2, <1>3, <1>4

\* The stack without its innermost scope.
LEMMA Popped ==
  ASSUME TypeOK, Nesting, stack # <<>>, stack' = Front(stack)
  PROVE  /\ stack' \in Seq(Scope) /\ Len(stack') <= MaxDepth
         /\ \E n \in Nat \ {0} :
              /\ n = Len(stack) /\ n \in DOMAIN stack /\ Last(stack) = stack[n]
              /\ DOMAIN stack = 1..n /\ DOMAIN stack' = 1..n - 1
              /\ \A d \in DOMAIN stack' :
                   d \in DOMAIN stack /\ d # n /\ stack'[d] = stack[d]
<1>1. Len(stack) \in Nat /\ Len(stack) # 0 /\ DOMAIN stack = 1..Len(stack)
  BY Innermost, BoundAssumption
<1>2. stack \in Seq(Scope) /\ Len(stack) <= MaxDepth
  BY DEF TypeOK
<1>3. /\ Front(stack) \in Seq(Scope)
      /\ Len(Front(stack)) = Len(stack) - 1 /\ DOMAIN Front(stack) = 1..Len(stack) - 1
      /\ \A i \in 1..Len(stack) - 1 : Front(stack)[i] = stack[i]
  BY <1>2, Fronted
<1>4. PICK n \in Nat \ {0} : n = Len(stack)
  BY <1>1
<1>5. n \in 1..n /\ \A d \in 1..n - 1 : d \in 1..n /\ d # n
  OBVIOUS
<1>6. n - 1 <= MaxDepth
  BY <1>2, <1>4, BoundAssumption
<1>. QED
  BY <1>1, <1>3, <1>4, <1>5, <1>6 DEF Last

LEMMA TypeInit == Init => TypeOK /\ Nesting
<1>. SUFFICES ASSUME Init
              PROVE  TypeOK /\ Nesting
  OBVIOUS
<1>1. stack = <<>> /\ DOMAIN stack = {} /\ Len(stack) = 0
  BY DEF Init
<1>2. Contents
  <2>1. aborted \in BOOLEAN /\ dropped \subseteq Write
    BY DEF Init
  <2>. QED
    BY <2>1, BoundAssumption DEF Init, Contents, Phase
<1>3. TypeOK
  <2>1. stack \in Seq(Scope) /\ Len(stack) <= MaxDepth /\ ~InTx(stack)
        /\ pending = <<>> /\ ~aborted
    BY <1>1, EmptySeq, BoundAssumption DEF InTx, Init
  <2>. QED
    BY <1>1, <1>2, <2>1 DEF TypeOK, Contents
<1>. QED
  BY <1>1, <1>3 DEF Init, Nesting

-----------------------------------------------------------------------------
(* A step keeps them.                                                       *)

\* A step that leaves the stack alone, and only adds to the open transaction.
LEMMA StackStays ==
  ASSUME TypeOK, Nesting, UNCHANGED stack, Contents', writes <= writes',
         Len(pending) <= Len(pending'), InTx(stack) \/ UNCHANGED <<pending, aborted>>
  PROVE  TypeOK'
<1>1. Len(stack) <= MaxDepth /\ stack \in Seq(Scope)
  BY DEF TypeOK
<1>2. /\ Len(pending) \in Nat /\ writes \in Nat
      /\ Len(pending') \in Nat /\ writes' \in Nat
  BY LenProperties DEF TypeOK, Contents
<1>3. ASSUME NEW d \in DOMAIN stack
      PROVE  /\ stack[d].queue # 0
             /\ stack[d].owns <=> stack[d].queue = d
             /\ stack[stack[d].queue].owns
             /\ stack[d].mark <= Len(pending')
             /\ stack[d].from <= writes'
  <2>1. /\ stack[d].queue # 0
        /\ stack[d].owns <=> stack[d].queue = d
        /\ stack[stack[d].queue].owns
        /\ stack[d].mark \in 0..Len(pending) /\ stack[d].from \in 0..writes
    BY ScopeType DEF TypeOK
  <2>. QED
    BY <1>2, <2>1
<1>4. ~InTx(stack) => pending' = <<>> /\ ~aborted'
  BY DEF TypeOK
<1>. QED
  BY <1>1, <1>3, <1>4 DEF TypeOK, Contents, InTx

\* A scope is opened inside the one around it.
LEMMA Pushed ==
  ASSUME TypeOK, Nesting, NEW kind \in Kind, Open(kind),
         NEW n, n = Len(stack) + 1
  PROVE  /\ n \in Depth /\ n \in Nat /\ n \notin DOMAIN stack /\ stack' \in Seq(Scope)
         /\ DOMAIN stack' = 1..n /\ Len(stack') = n
         /\ DOMAIN stack = 1..n - 1
         /\ \A d \in DOMAIN stack : stack'[d] = stack[d]
         /\ stack'[n] = [kind  |-> kind,
                         queue |-> IF MakesQueue(kind) THEN n ELSE CurrentQueue,
                         owns  |-> MakesQueue(kind),
                         tx    |-> OpensTx(kind),
                         mark  |-> Len(pending),
                         from  |-> writes]
         /\ MakesQueue(kind) \in BOOLEAN /\ OpensTx(kind) \in BOOLEAN
         /\ Len(pending) \in 0..MaxWrites /\ writes \in 0..MaxWrites
<1>. DEFINE scope == [kind  |-> kind,
                      queue |-> IF MakesQueue(kind) THEN n ELSE CurrentQueue,
                      owns  |-> MakesQueue(kind),
                      tx    |-> OpensTx(kind),
                      mark  |-> Len(pending),
                      from  |-> writes]
<1>1. /\ Len(stack) \in Nat /\ n \in Depth /\ DOMAIN stack = 1..Len(stack)
      /\ CurrentQueue \in 0..MaxDepth
  BY Innermost, BoundAssumption DEF Open, Depth
<1>2. writes \in 0..MaxWrites /\ Len(pending) \in 0..MaxWrites
  <2>1. Len(pending) \in Nat
    BY LenProperties DEF TypeOK
  <2>. QED
    BY <2>1, BoundAssumption DEF TypeOK, Nesting
<1>3. MakesQueue(kind) \in BOOLEAN /\ OpensTx(kind) \in BOOLEAN
  BY DEF MakesQueue, OpensTx
<1>4. scope \in Scope
  BY <1>1, <1>2, <1>3, BoundAssumption DEF Scope, Depth
<1>5. stack' = Append(stack, scope) /\ stack \in Seq(Scope)
  BY DEF Open, TypeOK
<1>6. /\ stack' \in Seq(Scope) /\ Len(stack') = n /\ DOMAIN stack' = 1..n
      /\ \A i \in 1..Len(stack) : stack'[i] = stack[i]
      /\ stack'[n] = scope
  <2>. HIDE DEF scope
  <2>. QED
    BY <1>1, <1>4, <1>5, Appended
<1>. QED
  BY <1>1, <1>2, <1>3, <1>6

LEMMA TypeOpen ==
  ASSUME TypeOK, Nesting, NEW kind \in Kind, Open(kind)
  PROVE  TypeOK' /\ Nesting'
<1>0. PICK n : n = Len(stack) + 1
  OBVIOUS
<1>1. /\ n \in Depth /\ n \in Nat /\ n \notin DOMAIN stack /\ stack' \in Seq(Scope)
      /\ DOMAIN stack' = 1..n /\ Len(stack') = n /\ DOMAIN stack = 1..n - 1
      /\ \A d \in DOMAIN stack : stack'[d] = stack[d]
      /\ stack'[n].queue = IF MakesQueue(kind) THEN n ELSE CurrentQueue
      /\ stack'[n].owns = MakesQueue(kind) /\ stack'[n].tx = OpensTx(kind)
      /\ stack'[n].mark = Len(pending) /\ stack'[n].from = writes
      /\ MakesQueue(kind) \in BOOLEAN
  <2>1. stack'[n] = [kind  |-> kind,
                     queue |-> IF MakesQueue(kind) THEN n ELSE CurrentQueue,
                     owns  |-> MakesQueue(kind),
                     tx    |-> OpensTx(kind),
                     mark  |-> Len(pending),
                     from  |-> writes]
    BY <1>0, Pushed
  <2>2. /\ n \in Depth /\ n \in Nat /\ n \notin DOMAIN stack /\ stack' \in Seq(Scope)
        /\ DOMAIN stack' = 1..n /\ Len(stack') = n /\ DOMAIN stack = 1..n - 1
        /\ \A d \in DOMAIN stack : stack'[d] = stack[d]
        /\ MakesQueue(kind) \in BOOLEAN
    BY <1>0, Pushed
  <2>. QED
    BY <2>1, <2>2
<1>2. /\ UNCHANGED <<phase, outbox, pending, committed, sent, writes, excused, broken,
                     aborted, dropped>>
      /\ queue' = [queue EXCEPT ![n] = <<>>] /\ n <= MaxDepth
  BY <1>0 DEF Open
<1>3. Contents'
  BY <1>1, <1>2, EmptySeq DEF TypeOK, Contents
<1>4. ~MakesQueue(kind) =>
        /\ n # 1 /\ n - 1 \in DOMAIN stack /\ CurrentQueue = stack[n - 1].queue
        /\ CurrentQueue \in 1..(n - 1)
  BY <1>0, <1>1, Innermost, ScopeType DEF MakesQueue
<1>5. stack'[n].queue \in 1..n /\ (stack'[n].owns <=> stack'[n].queue = n)
  <2>1. CASE MakesQueue(kind)
    BY <1>1, <2>1 DEF Depth
  <2>2. CASE ~MakesQueue(kind)
    BY <1>1, <1>4, <2>2
  <2>. QED
    BY <2>1, <2>2
<1>6. Len(pending) \in Nat /\ writes \in Nat
  BY LenProperties DEF TypeOK
<1>7. \A d \in DOMAIN stack' : d \in DOMAIN stack \/ d = n
  BY <1>1
<1>8. /\ \A d \in DOMAIN stack' :
           /\ stack'[d].queue # 0 /\ stack'[d].queue \in 1..d
           /\ stack'[d].owns <=> stack'[d].queue = d
           /\ stack'[d].mark \in 0..Len(pending) /\ stack'[d].from \in 0..writes
  BY <1>1, <1>5, <1>6, <1>7, ScopeType
<1>9. \A d \in DOMAIN stack' : stack'[stack'[d].queue].owns
  <2>. TAKE d \in DOMAIN stack'
  <2>1. CASE stack'[d].owns
    BY <1>8, <2>1
  <2>2. CASE ~stack'[d].owns
    <3>1. PICK e \in DOMAIN stack : stack'[d].queue = stack[e].queue
      <4>1. CASE d = n
        BY <1>1, <1>4, <2>2, <4>1
      <4>2. CASE d # n
        BY <1>1, <1>7, <4>2
      <4>. QED
        BY <4>1, <4>2
    <3>2. stack[stack[e].queue].owns /\ stack[e].queue \in 1..e /\ e \in 1..n - 1
      BY <1>1, ScopeType DEF TypeOK
    <3>3. stack[e].queue \in DOMAIN stack
      BY <1>1, <3>2
    <3>. QED
      BY <1>1, <3>1, <3>2, <3>3
  <2>. QED
    BY <2>1, <2>2
<1>10. ~InTx(stack') => pending = <<>> /\ ~aborted
  BY <1>1 DEF InTx, TypeOK
<1>11. TypeOK'
  BY <1>1, <1>2, <1>3, <1>6, <1>8, <1>9, <1>10, SMTT(30) DEF TypeOK, Contents
<1>12. \A d, e \in DOMAIN stack' : d <= e => stack'[d].mark <= stack'[e].mark
  <2>. TAKE d, e \in DOMAIN stack'
  <2>. HAVE d <= e
  <2>1. CASE e = n
    BY <1>1, <1>6, <1>8, <2>1
  <2>2. CASE e # n
    <3>1. d \in DOMAIN stack /\ e \in DOMAIN stack
      BY <1>1, <2>2
    <3>. QED
      BY <1>1, <3>1 DEF Nesting
  <2>. QED
    BY <2>1, <2>2
<1>13. ASSUME NEW d \in DOMAIN stack', \A e \in 1..(d - 1) : ~stack'[e].tx
       PROVE  stack'[d].mark = 0
  <2>1. \A e \in 1..(d - 1) : e \in DOMAIN stack /\ ~stack[e].tx
    BY <1>1, <1>13
  <2>2. CASE d = n
    <3>1. ~InTx(stack)
      BY <1>1, <2>1, <2>2 DEF InTx
    <3>. QED
      BY <1>1, <2>2, <3>1, Emptied DEF TypeOK
  <2>3. CASE d # n
    BY <1>1, <1>7, <2>1, <2>3 DEF Nesting
  <2>. QED
    BY <2>2, <2>3
<1>14. \A d \in Depth : queue'[d] # <<>> => d \in DOMAIN stack' /\ stack'[d].owns
  <2>. TAKE d \in Depth
  <2>. HAVE queue'[d] # <<>>
  <2>1. d # n /\ queue[d] # <<>>
    BY <1>1, <1>2 DEF TypeOK
  <2>2. d \in DOMAIN stack /\ stack[d].owns
    BY <2>1 DEF Nesting
  <2>. QED
    BY <1>1, <2>2
<1>15. phase = "running" /\ stack' # <<>>
  BY <1>1, EmptySeq DEF Open
<1>. QED
  BY <1>2, <1>8, <1>11, <1>12, <1>13, <1>14, <1>15 DEF Nesting

\* A step that ends the innermost scope, and leaves of the transaction what
\* the scopes around it had put there; nothing when no transaction is left.
LEMMA PopKeepsTypes ==
  ASSUME TypeOK, Nesting, stack # <<>>, stack' = Front(stack), UNCHANGED writes,
         Contents', Len(pending') <= Len(pending),
         \A d \in DOMAIN stack' : stack[d].mark <= Len(pending'),
         ~InTx(stack') => pending' = <<>> /\ ~aborted'
  PROVE  /\ TypeOK'
         /\ \A d \in DOMAIN stack' : stack'[d].queue \in 1..d
         /\ \A d, e \in DOMAIN stack' : d <= e => stack'[d].mark <= stack'[e].mark
         /\ \A d \in DOMAIN stack' :
              (\A e \in 1..(d - 1) : ~stack'[e].tx) => stack'[d].mark = 0
         /\ Len(pending') <= writes'
<1>1. /\ stack' \in Seq(Scope) /\ Len(stack') <= MaxDepth
      /\ \A d \in DOMAIN stack' : d \in DOMAIN stack /\ stack'[d] = stack[d]
  BY Popped
<1>2. /\ Len(pending) \in Nat /\ writes \in Nat /\ Len(pending') \in Nat
      /\ Len(pending) <= writes
  BY LenProperties DEF TypeOK, Nesting, Contents
<1>3. PICK n \in Nat \ {0} : DOMAIN stack = 1..n /\ DOMAIN stack' = 1..n - 1
  BY Popped
<1>4. ASSUME NEW d \in DOMAIN stack'
      PROVE  /\ d \in DOMAIN stack /\ stack'[d] = stack[d]
             /\ stack'[d].queue # 0 /\ stack'[d].queue \in 1..d
             /\ stack'[d].owns <=> stack'[d].queue = d
             /\ stack'[stack'[d].queue].owns
             /\ stack'[d].mark <= Len(pending') /\ stack'[d].from <= writes
             /\ \A e \in 1..(d - 1) : e \in DOMAIN stack'
  <2>1. d \in DOMAIN stack /\ stack'[d] = stack[d]
    BY <1>1
  <2>2. /\ stack[d].queue \in Depth /\ stack[d].queue \in 1..d
        /\ stack[d].owns <=> stack[d].queue = d
        /\ stack[d].from \in 0..writes
    BY <2>1, ScopeType
  <2>3. \A e \in 1..d : e \in 1..n - 1
    BY <1>3
  <2>4. stack'[stack[d].queue].owns
    BY <1>1, <1>3, <2>1, <2>2, <2>3 DEF TypeOK
  <2>5. \A e \in 1..(d - 1) : e \in 1..d
    BY <1>3
  <2>. QED
    BY <1>2, <1>3, <2>1, <2>2, <2>3, <2>4, <2>5 DEF Depth
<1>5. TypeOK'
  BY <1>1, <1>4 DEF TypeOK, Contents
<1>6. \A d \in DOMAIN stack' :
        (\A e \in 1..(d - 1) : ~stack'[e].tx) => stack'[d].mark = 0
  <2>. TAKE d \in DOMAIN stack'
  <2>. HAVE \A e \in 1..(d - 1) : ~stack'[e].tx
  <2>1. \A e \in 1..(d - 1) : ~stack[e].tx
    BY <1>1, <1>4
  <2>. QED
    BY <1>4, <2>1 DEF Nesting
<1>. QED
  BY <1>1, <1>2, <1>4, <1>5, <1>6 DEF Nesting

\* The queue of a scope that ends is empty, and no other is touched.
QueueEnds(scope) ==
  queue' = IF scope.owns THEN [queue EXCEPT ![scope.queue] = <<>>] ELSE queue

LEMMA EndedQueue ==
  ASSUME TypeOK, Nesting, stack # <<>>, stack' = Front(stack), QueueEnds(Last(stack))
  PROVE  /\ queue' \in [Depth -> Seq(Write)]
         /\ \A d \in Depth : queue'[d] # <<>> => d \in DOMAIN stack' /\ stack'[d].owns
         /\ \A d \in Depth : queue'[d] # <<>> => queue'[d] = queue[d]
         /\ Last(stack).owns => Last(stack).queue = Len(stack)
<1>1. PICK n \in Nat \ {0} :
        /\ n = Len(stack) /\ n \in DOMAIN stack /\ Last(stack) = stack[n]
        /\ DOMAIN stack = 1..n /\ DOMAIN stack' = 1..n - 1
        /\ \A d \in DOMAIN stack' : stack'[d] = stack[d]
  BY Popped
<1>2. /\ stack[n].queue \in Depth
      /\ stack[n].owns <=> stack[n].queue = n
  BY <1>1, ScopeType
<1>3. queue \in [Depth -> Seq(Write)] /\ <<>> \in Seq(Write)
  BY EmptySeq DEF TypeOK
<1>4. queue' \in [Depth -> Seq(Write)]
  BY <1>1, <1>2, <1>3 DEF QueueEnds
<1>5. ASSUME NEW d \in Depth, queue'[d] # <<>>
      PROVE  d \in DOMAIN stack' /\ stack'[d].owns /\ queue'[d] = queue[d]
  <2>1. queue'[d] = queue[d] /\ (stack[n].owns => d # n)
    BY <1>1, <1>2, <1>3, <1>5 DEF QueueEnds
  <2>2. d \in DOMAIN stack /\ stack[d].owns
    BY <1>5, <2>1 DEF Nesting
  <2>3. d # n
    BY <2>1, <2>2
  <2>4. d \in 1..n - 1
    BY <1>1, <2>2, <2>3
  <2>. QED
    BY <1>1, <2>1, <2>2, <2>4
<1>. QED
  BY <1>1, <1>2, <1>4, <1>5

\* A scope that returns keeps the transaction as it is, or ends it.
LEMMA Closed ==
  ASSUME TypeOK, Close
  PROVE  /\ Stored' = Stored /\ Ended \subseteq Ended'
         /\ committed' \in Seq(Write) /\ dropped' \subseteq Write
         /\ aborted' \in BOOLEAN
         /\ \/ ~InTx(stack') /\ pending' = <<>> /\ aborted' = FALSE
            \/ UNCHANGED <<committed, pending, aborted, dropped>>
<1>1. committed \in Seq(Write) /\ pending \in Seq(Write)
      /\ aborted \in BOOLEAN /\ dropped \subseteq Write
  BY DEF TypeOK
<1>2. /\ committed \o pending \in Seq(Write)
      /\ ToSet(committed \o pending) = ToSet(committed) \cup ToSet(pending)
      /\ ToSet(pending) \subseteq Write
  BY <1>1, Joined, Members
<1>3. CASE Commits
  <2>1. ~InTx(stack') /\ pending' = <<>> /\ aborted' = FALSE
    BY <1>3 DEF Close, Commits
  <2>2. CASE aborted
    <3>1. committed' = committed /\ dropped' = dropped \cup ToSet(pending)
      BY <1>3, <2>2 DEF Close
    <3>. QED
      BY <1>1, <1>2, <2>1, <3>1, Emptied DEF Stored, Ended
  <2>3. CASE ~aborted
    <3>1. committed' = committed \o pending /\ dropped' = dropped
      BY <1>3, <2>3 DEF Close
    <3>. QED
      BY <1>1, <1>2, <2>1, <3>1, Emptied DEF Stored, Ended
  <2>. QED
    BY <2>2, <2>3
<1>4. CASE ~Commits
  <2>1. UNCHANGED <<committed, pending, dropped>>
    BY <1>4 DEF Close
  <2>2. aborted' = aborted
    BY <1>1, <1>4 DEF Close
  <2>. QED
    BY <1>1, <2>1, <2>2 DEF Stored, Ended
<1>. QED
  BY <1>3, <1>4

LEMMA TypeClose ==
  ASSUME TypeOK, Nesting, Close
  PROVE  TypeOK' /\ Nesting'
<1>1. /\ phase = "running" /\ stack # <<>> /\ stack' = Front(stack)
      /\ Flush(Last(stack)) /\ UNCHANGED <<sent, writes, excused, broken>>
  BY DEF Close
<1>0. /\ committed' \in Seq(Write) /\ dropped' \subseteq Write /\ aborted' \in BOOLEAN
      /\ \/ ~InTx(stack') /\ pending' = <<>> /\ aborted' = FALSE
         \/ UNCHANGED <<committed, pending, aborted, dropped>>
  BY Closed
<1>2. QueueEnds(Last(stack)) /\ phase' \in {"running", "flushing"}
      /\ (phase' # "flushing" => outbox' = outbox)
  BY <1>1 DEF Flush, QueueEnds
<1>3. outbox' \in Seq(Write)
  <2>1. Last(stack).queue \in Depth
    BY <1>1, Innermost
  <2>. QED
    BY <1>1, <2>1 DEF Flush, TypeOK
<1>4. pending' \in Seq(Write)
  BY <1>0, EmptySeq DEF TypeOK
<1>5. Contents'
  BY <1>0, <1>1, <1>2, <1>3, <1>4, EndedQueue DEF Contents, TypeOK, Phase
<1>6. ~InTx(stack') => pending' = <<>> /\ ~aborted'
  <2>1. CASE aborted' = FALSE /\ pending' = <<>>
    BY <2>1
  <2>2. CASE ~Commits /\ UNCHANGED <<pending, aborted>>
    BY <1>1, <2>2 DEF TypeOK, Commits
  <2>3. CASE Commits
    BY <2>3 DEF Close
  <2>. QED
    BY <1>0, <2>1, <2>2, <2>3
<1>7. Len(pending) \in Nat
  BY LenProperties DEF TypeOK
<1>8. PICK n \in Nat \ {0} :
        /\ DOMAIN stack = 1..n /\ DOMAIN stack' = 1..n - 1
        /\ \A d \in DOMAIN stack' : d \in DOMAIN stack /\ stack'[d] = stack[d]
  BY <1>1, Popped
<1>9. \A d \in DOMAIN stack' : stack[d].mark <= Len(pending')
  <2>. TAKE d \in DOMAIN stack'
  <2>1. CASE UNCHANGED pending
    BY <1>8, <2>1 DEF TypeOK
  <2>2. CASE ~InTx(stack') /\ pending' = <<>>
    <3>1. \A e \in 1..(d - 1) : e \in DOMAIN stack'
      BY <1>8
    <3>2. \A e \in 1..(d - 1) : ~stack[e].tx
      BY <1>8, <2>2, <3>1 DEF InTx
    <3>3. stack[d].mark = 0
      BY <1>8, <3>2 DEF Nesting
    <3>. QED
      BY <2>2, <3>3, Emptied
  <2>. QED
    BY <1>0, <2>1, <2>2
<1>10. Len(pending') <= Len(pending)
  BY <1>0, <1>7, Emptied
<1>11. /\ TypeOK' /\ Len(pending') <= writes'
       /\ \A d \in DOMAIN stack' : stack'[d].queue \in 1..d
       /\ \A d, e \in DOMAIN stack' : d <= e => stack'[d].mark <= stack'[e].mark
       /\ \A d \in DOMAIN stack' :
            (\A e \in 1..(d - 1) : ~stack'[e].tx) => stack'[d].mark = 0
  BY <1>1, <1>5, <1>6, <1>9, <1>10, PopKeepsTypes
<1>12. outbox = <<>>
  BY <1>1 DEF Nesting
<1>13. \A d \in Depth : queue'[d] # <<>> => d \in DOMAIN stack' /\ stack'[d].owns
  BY <1>1, <1>2, EndedQueue
<1>14. /\ phase' # "written" /\ phase' # "failing"
       /\ phase' # "flushing" => outbox' = <<>>
  BY <1>2, <1>12
<1>. QED
  BY <1>11, <1>13, <1>14 DEF Nesting

\* What a failed scope leaves of the transaction.
LEMMA UndoneType ==
  ASSUME TypeOK, Nesting, NEW d \in DOMAIN stack
  PROVE  /\ Undone(stack[d]) \in Seq(Write)
         /\ Len(Undone(stack[d])) <= Len(pending)
         /\ stack[d].mark <= Len(Undone(stack[d]))
         /\ stack[d].tx => Len(Undone(stack[d])) = stack[d].mark
         /\ \A i \in DOMAIN Undone(stack[d]) :
              i \in DOMAIN pending /\ Undone(stack[d])[i] = pending[i]
         /\ ToSet(Undone(stack[d])) \subseteq ToSet(pending)
<1>1. pending \in Seq(Write) /\ stack[d].mark \in 0..Len(pending) /\ stack[d].tx \in BOOLEAN
  BY ScopeType DEF TypeOK
<1>2. PICK n : n = stack[d].mark
  OBVIOUS
<1>3. Len(pending) \in Nat /\ DOMAIN pending = 1..Len(pending) /\ n \in 0..Len(pending)
  BY <1>1, <1>2, LenProperties
<1>4. CASE ~stack[d].tx
  BY <1>1, <1>2, <1>3, <1>4 DEF Undone
<1>5. CASE stack[d].tx
  <2>1. Undone(stack[d]) = SubSeq(pending, 1, n)
    BY <1>2, <1>5 DEF Undone
  <2>2. /\ SubSeq(pending, 1, n) \in Seq(Write)
        /\ Len(SubSeq(pending, 1, n)) = n /\ DOMAIN SubSeq(pending, 1, n) = 1..n
        /\ \A i \in 1..n : SubSeq(pending, 1, n)[i] = pending[i]
        /\ ToSet(SubSeq(pending, 1, n)) \subseteq ToSet(pending)
    BY <1>1, <1>3, Shortened
  <2>3. \A i \in 1..n : i \in 1..Len(pending)
    BY <1>3
  <2>. QED
    BY <1>2, <1>3, <2>1, <2>2, <2>3
<1>. QED
  BY <1>1, <1>4, <1>5

LEMMA TypeFail ==
  ASSUME TypeOK, Nesting, Fail
  PROVE  TypeOK' /\ Nesting'
<1>0. stack # <<>> /\ outbox = <<>> /\ phase # "written" /\ aborted' \in BOOLEAN
  BY DEF Fail, CannotRelease, Nesting
<1>1. /\ stack' = Front(stack) /\ pending' = Undone(Last(stack))
      /\ UNCHANGED <<outbox, committed, sent, writes, dropped>>
      /\ phase' \in {"running", "failing"} /\ (phase' = "failing" => stack' # <<>>)
      /\ excused' \subseteq excused \cup ToSet(queue[Last(stack).queue])
      /\ broken' \subseteq broken \cup (Last(stack).from + 1 .. writes)
      /\ QueueEnds(Last(stack))
  BY DEF Fail, QueueEnds
<1>2. stack # <<>> /\ outbox = <<>>
  BY <1>0
<1>3. PICK n \in Nat \ {0} :
        /\ n = Len(stack) /\ n \in DOMAIN stack /\ Last(stack) = stack[n]
        /\ DOMAIN stack = 1..n /\ DOMAIN stack' = 1..n - 1
        /\ \A d \in DOMAIN stack' : d \in DOMAIN stack /\ stack'[d] = stack[d]
  BY <1>1, <1>2, Popped
<1>4. /\ stack[n].queue \in Depth /\ stack[n].from \in 0..writes
      /\ stack[n].tx \in BOOLEAN
  BY <1>3, ScopeType
<1>5. Contents'
  <2>1. ToSet(queue[stack[n].queue]) \subseteq Write
    BY <1>4, Members DEF TypeOK
  <2>2. stack[n].from + 1 .. writes \subseteq Write
    <3>1. stack[n].from \in Nat /\ writes \in Nat /\ writes <= MaxWrites
      BY <1>4, BoundAssumption DEF TypeOK
    <3>. QED
      BY <3>1, BoundAssumption DEF Write
  <2>3. pending' \in Seq(Write)
    BY <1>1, <1>3, UndoneType
  <2>4. queue' \in [Depth -> Seq(Write)]
    BY <1>1, <1>2, EndedQueue
  <2>. QED
    BY <1>0, <1>1, <1>3, <2>1, <2>2, <2>3, <2>4 DEF Contents, TypeOK, Phase
<1>6. Len(pending') <= Len(pending)
  BY <1>1, <1>3, UndoneType
<1>7. \A d \in DOMAIN stack' : stack[d].mark <= Len(pending')
  <2>. TAKE d \in DOMAIN stack'
  <2>1. stack[d].mark <= stack[n].mark
    <3>1. d \in DOMAIN stack /\ d <= n
      BY <1>3
    <3>. QED
      BY <1>3, <3>1 DEF Nesting
  <2>2. stack[n].mark <= Len(pending') /\ stack[n].mark \in Int /\ stack[d].mark \in Int
    BY <1>1, <1>3, UndoneType, ScopeType
  <2>3. Len(pending') \in Int
    BY <1>5, LenProperties DEF Contents
  <2>. QED
    BY <2>1, <2>2, <2>3
<1>8. ASSUME ~InTx(stack')
      PROVE  pending' = <<>>
  <2>1. \A d \in 1..(n - 1) : ~stack[d].tx
    BY <1>3, <1>8 DEF InTx
  <2>2. CASE stack[n].tx
    <3>1. stack[n].mark = 0
      BY <1>3, <2>1 DEF Nesting
    <3>. QED
      BY <1>1, <1>3, <2>2, <3>1, UndoneType, EmptySeq
  <2>3. CASE ~stack[n].tx
    <3>1. ~InTx(stack)
      BY <1>3, <2>1, <2>3 DEF InTx
    <3>. QED
      BY <1>1, <1>3, <2>3, <3>1 DEF TypeOK, Undone
  <2>. QED
    BY <2>2, <2>3
<1>12. ASSUME ~InTx(stack')
       PROVE  ~aborted'
  <2>1. CASE ~InTx(stack)
    BY <2>1 DEF Fail, TypeOK
  <2>2. CASE InTx(stack)
    <3>1. Commits /\ ~CannotRelease
      BY <1>1, <1>12, <2>2 DEF Commits, CannotRelease
    <3>2. Last(stack).tx
      <4>1. \A d \in 1..(n - 1) : ~stack[d].tx
        BY <1>3, <1>12 DEF InTx
      <4>. QED
        BY <1>3, <2>2, <4>1 DEF InTx
    <3>. QED
      BY <3>1, <3>2 DEF Fail
  <2>. QED
    BY <2>1, <2>2
<1>9. /\ TypeOK' /\ Len(pending') <= writes'
      /\ \A d \in DOMAIN stack' : stack'[d].queue \in 1..d
      /\ \A d, e \in DOMAIN stack' : d <= e => stack'[d].mark <= stack'[e].mark
      /\ \A d \in DOMAIN stack' :
           (\A e \in 1..(d - 1) : ~stack'[e].tx) => stack'[d].mark = 0
  BY <1>1, <1>2, <1>5, <1>6, <1>7, <1>8, <1>12, PopKeepsTypes
<1>10. \A d \in Depth : queue'[d] # <<>> => d \in DOMAIN stack' /\ stack'[d].owns
  BY <1>1, <1>2, EndedQueue
<1>11. /\ phase' # "written" /\ outbox' = <<>>
       /\ phase' = "failing" => stack' # <<>>
  BY <1>1, <1>2
<1>. QED
  BY <1>9, <1>10, <1>11 DEF Nesting

\* The steps that leave the scopes as they are.
Within == Persist \/ Dispatch \/ FailAfterWrite \/ FailBeforeWrite \/ CommitFails \/ Deliver

LEMMA Erring ==
  ASSUME TypeOK, Errs
  PROVE  aborted' \in BOOLEAN /\ (InTx(stack) \/ UNCHANGED aborted)
<1>1. CASE UNCHANGED aborted
  BY <1>1 DEF TypeOK
<1>2. CASE InTx(stack) /\ aborted' = TRUE
  BY <1>2
<1>. QED
  BY <1>1, <1>2 DEF Errs

\* What such a step leaves alone.
LEMMA WithinKeeps ==
  ASSUME TypeOK, Nesting, Within
  PROVE  /\ UNCHANGED stack /\ Contents'
         /\ writes \in Nat /\ writes' \in Nat /\ writes <= writes'
         /\ Len(pending) \in Nat /\ Len(pending) <= Len(pending')
         /\ InTx(stack) \/ UNCHANGED <<pending, aborted>>
         /\ UNCHANGED dropped
<1>1. writes \in Nat /\ Len(pending) \in Nat
  BY LenProperties DEF TypeOK
<1>2. CASE Persist
  <2>1. writes + 1 \in Write /\ writes' = writes + 1 /\ writes' \in 0..MaxWrites
    BY <1>1, <1>2, BoundAssumption DEF Persist, Write
  <2>2. Append(pending, writes + 1) \in Seq(Write) /\ Append(committed, writes + 1) \in Seq(Write)
        /\ Len(Append(pending, writes + 1)) = Len(pending) + 1
    BY <2>1, Appended DEF TypeOK
  <2>3. /\ UNCHANGED <<stack, queue, outbox, sent, excused, broken, aborted, dropped>>
        /\ phase' = "written"
        /\ \/ InTx(stack) /\ pending' = Append(pending, writes + 1) /\ UNCHANGED committed
           \/ UNCHANGED pending /\ committed' = Append(committed, writes + 1)
    BY <1>2, <2>1 DEF Persist
  <2>4. Contents'
    BY <2>1, <2>2, <2>3 DEF Contents, TypeOK, Phase
  <2>5. Len(pending) <= Len(pending')
    BY <1>1, <2>2, <2>3
  <2>. QED
    BY <1>1, <2>1, <2>3, <2>4, <2>5
<1>3. CASE Dispatch
  <2>1. writes \in Write
    BY <1>1, <1>3 DEF Dispatch, Nesting, TypeOK, Write
  <2>2. CurrentQueue # 0 => CurrentQueue \in Depth
    BY Innermost
  <2>3. Append(sent, writes) \in Seq(Write)
    BY <2>1, Appended DEF TypeOK
  <2>4. CurrentQueue \in Depth => Append(queue[CurrentQueue], writes) \in Seq(Write)
    BY <2>1, Appended DEF TypeOK
  <2>5. Contents'
    <3>1. CASE CurrentQueue = 0
      BY <1>3, <2>3, <3>1 DEF Dispatch, Contents, TypeOK, Phase
    <3>2. CASE CurrentQueue # 0
      BY <1>3, <2>2, <2>4, <3>2 DEF Dispatch, Contents, TypeOK, Phase
    <3>. QED
      BY <3>1, <3>2
  <2>. QED
    BY <1>1, <1>3, <2>5 DEF Dispatch
<1>4. CASE FailAfterWrite
  <2>1. writes \in Write
    BY <1>1, <1>4 DEF FailAfterWrite, Nesting, TypeOK, Write
  <2>2. aborted' \in BOOLEAN /\ (InTx(stack) \/ UNCHANGED aborted)
    BY <1>4, Erring DEF FailAfterWrite
  <2>3. /\ UNCHANGED <<stack, queue, outbox, pending, committed, sent, writes, broken, dropped>>
        /\ phase' \in Phase /\ excused' = excused \cup {writes}
    BY <1>4 DEF FailAfterWrite, Phase
  <2>4. Contents'
    BY <2>1, <2>2, <2>3 DEF Contents, TypeOK
  <2>. QED
    BY <1>1, <2>2, <2>3, <2>4
<1>5. CASE FailBeforeWrite \/ CommitFails
  <2>2. aborted' \in BOOLEAN /\ (InTx(stack) \/ UNCHANGED aborted)
    BY <1>5, Erring DEF FailBeforeWrite, CommitFails, TypeOK
  <2>3. /\ UNCHANGED <<stack, queue, outbox, pending, committed, sent, writes, excused,
                       broken, dropped>>
        /\ phase' \in Phase
    BY <1>5 DEF FailBeforeWrite, CommitFails, Phase
  <2>4. Contents'
    BY <2>2, <2>3 DEF Contents, TypeOK
  <2>. QED
    BY <1>1, <2>2, <2>3, <2>4
<1>6. CASE Deliver
  <2>1. outbox # <<>> => /\ Head(outbox) \in Write /\ Tail(outbox) \in Seq(Write)
                         /\ Append(sent, Head(outbox)) \in Seq(Write)
    BY Beheaded, Appended DEF TypeOK
  <2>2. Contents'
    <3>1. CASE outbox = <<>>
      BY <1>6, <3>1 DEF Deliver, Contents, TypeOK, Phase
    <3>2. CASE outbox # <<>>
      BY <1>6, <2>1, <3>2 DEF Deliver, Contents, TypeOK, Phase
    <3>. QED
      BY <3>1, <3>2
  <2>. QED
    BY <1>1, <1>6, <2>2 DEF Deliver
<1>. QED
  BY <1>2, <1>3, <1>4, <1>5, <1>6 DEF Within

LEMMA TypeWithin ==
  ASSUME TypeOK, Nesting, Within
  PROVE  TypeOK' /\ Nesting'
<1>1. /\ UNCHANGED stack /\ Contents'
      /\ writes \in Nat /\ writes' \in Nat /\ writes <= writes'
      /\ Len(pending) \in Nat /\ Len(pending) <= Len(pending')
      /\ InTx(stack) \/ UNCHANGED <<pending, aborted>>
  BY WithinKeeps
<1>2. TypeOK'
  BY <1>1, StackStays
<1>3. Len(pending') <= writes'
  <2>1. CASE Persist
    <3>1. writes + 1 \in Write
      BY <1>1, <2>1, BoundAssumption DEF Persist, Write
    <3>2. Len(Append(pending, writes + 1)) = Len(pending) + 1
      BY <3>1, Appended DEF TypeOK
    <3>3. writes' = writes + 1 /\ (pending' = pending \/ pending' = Append(pending, writes + 1))
      BY <2>1 DEF Persist
    <3>. QED
      BY <1>1, <3>2, <3>3 DEF Nesting
  <2>2. CASE ~Persist
    BY <2>2 DEF Within, Dispatch, FailAfterWrite, FailBeforeWrite, CommitFails, Deliver, Nesting
  <2>. QED
    BY <2>1, <2>2
<1>4. /\ phase' = "written" => writes' > 0
      /\ phase' = "failing" => stack # <<>>
  BY <1>1 DEF Within, Persist, Dispatch, FailAfterWrite, FailBeforeWrite, CommitFails,
              Deliver, Nesting
<1>5. phase' # "flushing" => outbox' = <<>>
  BY DEF Within, Persist, Dispatch, FailAfterWrite, FailBeforeWrite, CommitFails,
         Deliver, Nesting
<1>6. \A d \in Depth : queue'[d] # <<>> => d \in DOMAIN stack /\ stack[d].owns
  <2>1. CASE Dispatch
    <3>. TAKE d \in Depth
    <3>. HAVE queue'[d] # <<>>
    <3>1. CASE queue[d] # <<>>
      BY <3>1 DEF Nesting
    <3>2. CASE queue[d] = <<>>
      <4>1. CurrentQueue = d /\ CurrentQueue # 0
        BY <2>1, <3>2 DEF Dispatch, TypeOK
      <4>2. stack # <<>> /\ Len(stack) \in DOMAIN stack /\ d = stack[Len(stack)].queue
        BY <4>1, Innermost
      <4>3. d \in 1..Len(stack) /\ DOMAIN stack = 1..Len(stack)
        BY <4>2, ScopeType, Innermost
      <4>4. stack[d].owns
        BY <4>2 DEF TypeOK
      <4>5. Len(stack) \in Nat
        BY LenProperties DEF TypeOK
      <4>. QED
        BY <4>3, <4>4, <4>5
    <3>. QED
      BY <3>1, <3>2
  <2>2. CASE ~Dispatch
    <3>1. UNCHANGED queue
      BY <2>2 DEF Within, Persist, FailAfterWrite, FailBeforeWrite, CommitFails, Deliver
    <3>. QED
      BY <3>1 DEF Nesting
  <2>. QED
    BY <2>1, <2>2
<1>. QED
  BY <1>1, <1>2, <1>3, <1>4, <1>5, <1>6 DEF Nesting

LEMMA TypeCrash ==
  ASSUME TypeOK, Nesting, Crash
  PROVE  TypeOK' /\ Nesting'
<1>1. /\ stack' = <<>> /\ phase' = "running" /\ queue' = [d \in Depth |-> <<>>]
      /\ outbox' = <<>> /\ pending' = <<>> /\ excused' = excused \cup Unsent
      /\ aborted' = FALSE /\ UNCHANGED <<committed, sent, writes, broken, dropped>>
  BY DEF Crash
<1>2. Unsent \subseteq Write
  <2>1. ToSet(outbox) \subseteq Write /\ \A d \in Depth : ToSet(queue[d]) \subseteq Write
    BY Members DEF TypeOK
  <2>2. phase = "written" => writes \in Write
    BY BoundAssumption DEF TypeOK, Nesting, Write
  <2>3. UNION {ToSet(queue[d]) : d \in Depth} \subseteq Write
    BY <2>1
  <2>4. (IF phase = "written" THEN {writes} ELSE {}) \subseteq Write
    BY <2>2
  <2>. QED
    BY <2>1, <2>3, <2>4 DEF Unsent
<1>3. Contents'
  BY <1>1, <1>2, EmptySeq DEF Contents, TypeOK, Phase
<1>4. stack' \in Seq(Scope) /\ Len(stack') = 0 /\ DOMAIN stack' = {} /\ ~InTx(stack')
  BY <1>1, EmptySeq DEF InTx
<1>5. TypeOK'
  BY <1>1, <1>3, <1>4, BoundAssumption DEF TypeOK, Contents
<1>6. Len(pending') <= writes'
  BY <1>1, BoundAssumption, Emptied DEF TypeOK
<1>. QED
  BY <1>1, <1>4, <1>5, <1>6 DEF Nesting

LEMMA TypeNext == TypeOK /\ Nesting /\ [Next]_vars => TypeOK' /\ Nesting'
<1>. SUFFICES ASSUME TypeOK, Nesting, [Next]_vars
              PROVE  TypeOK' /\ Nesting'
  OBVIOUS
<1>1. CASE UNCHANGED vars
  BY <1>1 DEF vars, TypeOK, Nesting, InTx
<1>2. CASE \E kind \in Kind : Open(kind)
  BY <1>2, TypeOpen
<1>3. CASE Within
  BY <1>3, TypeWithin
<1>4. CASE Close
  BY <1>4, TypeClose
<1>5. CASE Fail
  BY <1>5, TypeFail
<1>6. CASE Crash
  BY <1>6, TypeCrash
<1>. QED
  BY <1>1, <1>2, <1>3, <1>4, <1>5, <1>6 DEF Next, Within

\* Whatever scopes a program opens and whatever fails, the variables keep their
\* shape, and each scope its place: a queue belongs to an open scope no deeper,
\* a savepoint marks a point of the transaction that is still there.
THEOREM TypeCorrect == Spec => [](TypeOK /\ Nesting)
<1>. QED
  BY TypeInit, TypeNext, PTL DEF Spec

-----------------------------------------------------------------------------
(* No write is lost sight of.                                               *)

Queued == UNION {ToSet(queue[d]) : d \in Depth}

\* Whatever is stored was sent, is yet to be, or had its notification given up.
Accounted == Stored \subseteq ToSet(sent) \cup excused \cup Unsent

LEMMA UnsentIs ==
  /\ Unsent = ToSet(outbox) \cup Queued \cup (IF phase = "written" THEN {writes} ELSE {})
  /\ Unsent' = ToSet(outbox') \cup Queued' \cup (IF phase' = "written" THEN {writes'} ELSE {})
  BY DEF Unsent, Queued

\* What the steps do to what is queued.
LEMMA QueuedGrows ==
  ASSUME TypeOK, NEW q \in Depth, NEW w \in Write,
         queue' = [queue EXCEPT ![q] = Append(@, w)]
  PROVE  Queued' = Queued \cup {w}
<1>1. ToSet(Append(queue[q], w)) = ToSet(queue[q]) \cup {w}
  BY Appended DEF TypeOK
<1>2. \A d \in Depth : ToSet(queue'[d]) = IF d = q THEN ToSet(queue[d]) \cup {w}
                                                   ELSE ToSet(queue[d])
  BY <1>1 DEF TypeOK
<1>3. ASSUME NEW x \in Queued'
      PROVE  x \in Queued \cup {w}
  <2>1. PICK d \in Depth : x \in ToSet(queue'[d])
    BY DEF Queued
  <2>2. x \in ToSet(queue[d]) \cup {w}
    BY <1>2, <2>1
  <2>. QED
    BY <2>2 DEF Queued
<1>4. Queued \subseteq Queued'
  BY <1>2 DEF Queued
<1>5. w \in Queued'
  BY <1>2 DEF Queued
<1>. QED
  BY <1>3, <1>4, <1>5

LEMMA QueuedShrinks ==
  ASSUME TypeOK, NEW q \in Depth, queue' = [queue EXCEPT ![q] = <<>>]
  PROVE  Queued' \subseteq Queued /\ Queued \subseteq Queued' \cup ToSet(queue[q])
<1>1. \A d \in Depth : ToSet(queue'[d]) = IF d = q THEN {} ELSE ToSet(queue[d])
  BY Emptied DEF TypeOK
<1>. QED
  BY <1>1 DEF Queued

LEMMA OpenKeepsQueues ==
  ASSUME TypeOK, Nesting, NEW kind \in Kind, Open(kind)
  PROVE  UNCHANGED queue
<1>1. PICK n : n = Len(stack) + 1
  OBVIOUS
<1>2. n \in Depth /\ n \notin DOMAIN stack /\ queue' = [queue EXCEPT ![n] = <<>>]
  BY <1>1, Pushed DEF Open
<1>3. queue[n] = <<>>
  BY <1>2 DEF Nesting
<1>. QED
  BY <1>2, <1>3 DEF TypeOK

LEMMA AccountedInit == Init => Accounted
  BY Emptied DEF Init, Accounted, Stored, Ended

LEMMA AccountedNext == TypeOK /\ Nesting /\ Accounted /\ [Next]_vars => Accounted'
<1>. SUFFICES ASSUME TypeOK, Nesting, Accounted, [Next]_vars
              PROVE  Accounted'
  OBVIOUS
<1>. USE DEF Accounted, Stored, Ended
<1>1. CASE UNCHANGED vars
  BY <1>1 DEF vars, Unsent
<1>2. ASSUME NEW kind \in Kind, Open(kind)
      PROVE  Accounted'
  <2>1. UNCHANGED <<phase, queue, outbox, pending, committed, sent, writes, excused, dropped>>
    BY <1>2, OpenKeepsQueues DEF Open
  <2>. QED
    BY <2>1 DEF Unsent
<1>3. CASE Persist
  <2>1. writes + 1 \in Write
    BY <1>3, BoundAssumption DEF Persist, TypeOK, Write
  <2>2. Stored' = Stored \cup {writes'}
    <3>1. /\ ToSet(Append(pending, writes + 1)) = ToSet(pending) \cup {writes + 1}
          /\ ToSet(Append(committed, writes + 1)) = ToSet(committed) \cup {writes + 1}
      BY <2>1, Appended DEF TypeOK
    <3>2. /\ writes' = writes + 1 /\ UNCHANGED dropped
          /\ \/ pending' = Append(pending, writes + 1) /\ UNCHANGED committed
             \/ committed' = Append(committed, writes + 1) /\ UNCHANGED pending
      BY <1>3 DEF Persist
    <3>. QED
      BY <3>1, <3>2
  <2>3. phase = "running" /\ phase' = "written" /\ UNCHANGED <<queue, outbox, sent, excused>>
    BY <1>3 DEF Persist
  <2>4. Unsent' = Unsent \cup {writes'}
    BY <2>3, UnsentIs DEF Queued
  <2>. QED
    BY <2>2, <2>3, <2>4
<1>4. CASE Dispatch
  <2>1. writes \in Write
    BY <1>4, BoundAssumption DEF Dispatch, Nesting, TypeOK, Write
  <2>2. phase = "written" /\ phase' = "running"
        /\ UNCHANGED <<outbox, pending, committed, writes, excused, dropped>>
    BY <1>4 DEF Dispatch
  <2>3. \/ UNCHANGED queue /\ ToSet(sent') = ToSet(sent) \cup {writes}
        \/ UNCHANGED sent /\ Queued' = Queued \cup {writes}
    <3>1. CASE CurrentQueue = 0
      <4>1. ToSet(Append(sent, writes)) = ToSet(sent) \cup {writes}
        BY <2>1, Appended DEF TypeOK
      <4>. QED
        BY <1>4, <3>1, <4>1 DEF Dispatch
    <3>2. CASE CurrentQueue # 0
      <4>1. CurrentQueue \in Depth
        BY <3>2, Innermost
      <4>. QED
        BY <1>4, <2>1, <3>2, <4>1, QueuedGrows DEF Dispatch
    <3>. QED
      BY <3>1, <3>2
  <2>. QED
    BY <2>2, <2>3, UnsentIs DEF Queued
<1>5. CASE FailAfterWrite
  BY <1>5, UnsentIs DEF FailAfterWrite, Queued
<1>6. CASE FailBeforeWrite \/ CommitFails
  BY <1>6, UnsentIs DEF FailBeforeWrite, CommitFails, Queued
<1>7. CASE Close
  <2>1. /\ phase = "running" /\ stack # <<>> /\ Flush(Last(stack))
        /\ UNCHANGED <<sent, writes, excused>>
    BY <1>7 DEF Close
  <2>2. Stored' = Stored
    BY <1>7, Closed
  <2>3. outbox = <<>> /\ Last(stack).queue \in Depth
    BY <2>1, Innermost DEF Nesting
  <2>4. Queued \cup ToSet(outbox) \subseteq Queued' \cup ToSet(outbox')
    <3>1. CASE Last(stack).owns
      BY <2>1, <2>3, <3>1, QueuedShrinks, Emptied DEF Flush
    <3>2. CASE ~Last(stack).owns
      BY <2>1, <3>2 DEF Flush, Queued
    <3>. QED
      BY <3>1, <3>2
  <2>. QED
    BY <2>1, <2>2, <2>4, UnsentIs
<1>8. CASE Fail
  <2>1. phase # "written" /\ UNCHANGED <<outbox, committed, sent, writes, dropped>>
        /\ pending' = Undone(Last(stack)) /\ stack # <<>>
    BY <1>8 DEF Fail, CannotRelease, Nesting
  <2>2. Last(stack).queue \in Depth /\ ToSet(pending') \subseteq ToSet(pending)
    BY <2>1, Innermost, UndoneType
  <2>3. Queued \cup excused \subseteq Queued' \cup excused'
    <3>1. CASE Last(stack).owns
      BY <1>8, <2>2, <3>1, QueuedShrinks DEF Fail
    <3>2. CASE ~Last(stack).owns
      BY <1>8, <3>2 DEF Fail, Queued
    <3>. QED
      BY <3>1, <3>2
  <2>. QED
    BY <2>1, <2>2, <2>3, UnsentIs
<1>9. CASE Deliver
  <2>1. UNCHANGED <<queue, pending, committed, writes, excused, dropped>> /\ phase = "flushing"
    BY <1>9 DEF Deliver
  <2>2. ToSet(sent) \cup ToSet(outbox) \subseteq ToSet(sent') \cup ToSet(outbox')
    <3>1. CASE outbox = <<>>
      BY <1>9, <3>1 DEF Deliver
    <3>2. CASE outbox # <<>>
      <4>1. Head(outbox) \in Write /\ ToSet(outbox) = {Head(outbox)} \cup ToSet(Tail(outbox))
        BY <3>2, Beheaded DEF TypeOK
      <4>2. ToSet(Append(sent, Head(outbox))) = ToSet(sent) \cup {Head(outbox)}
        BY <4>1, Appended DEF TypeOK
      <4>. QED
        BY <1>9, <3>2, <4>1, <4>2 DEF Deliver
    <3>. QED
      BY <3>1, <3>2
  <2>. QED
    BY <2>1, <2>2, UnsentIs DEF Queued
<1>10. CASE Crash
  BY <1>10, Emptied DEF Crash
<1>. QED
  BY <1>1, <1>2, <1>3, <1>4, <1>5, <1>6, <1>7, <1>8, <1>9, <1>10 DEF Next

\* Whatever the program and whatever fails, once the task is done every
\* committed write was sent, or was given up for a reason the code has.
THEOREM CommittedWritesAreSent == Spec => []CommittedIsSent
<1>1. TypeOK /\ Nesting /\ Accounted => CommittedIsSent
  <2>. SUFFICES ASSUME TypeOK, Nesting, Accounted, stack = <<>>, phase = "running"
                PROVE  ToSet(committed) \subseteq ToSet(sent) \cup excused
    BY DEF CommittedIsSent
  <2>1. outbox = <<>> /\ \A d \in Depth : queue[d] = <<>>
    BY DEF Nesting
  <2>2. Unsent = {}
    BY <2>1, Emptied DEF Unsent
  <2>. QED
    BY <2>2 DEF Accounted, Stored, Ended
<1>. QED
  BY <1>1, TypeCorrect, AccountedInit, AccountedNext, PTL DEF Spec

-----------------------------------------------------------------------------
(* What failed is gone.                                                     *)

\* A scope whose failure is promised to leave nothing has a transaction or a
\* savepoint of its own, opened after everything that is committed and after
\* what its savepoint keeps; and what failed is neither committed nor pending.
Undoable ==
  /\ \A d \in DOMAIN stack : Promises(stack[d]) => stack[d].tx
  /\ \A d \in DOMAIN stack :
       stack[d].tx => \A w \in Ended : w <= stack[d].from
  /\ \A d \in DOMAIN stack : \A i \in 1..stack[d].mark : pending[i] <= stack[d].from
  /\ \A w \in Stored \cup broken : w <= writes
  /\ broken \cap Stored = {}

LEMMA StoredType ==
  ASSUME TypeOK
  PROVE  /\ Stored \subseteq Write /\ broken \subseteq Write
         /\ writes \in 0..MaxWrites /\ writes \in Nat
         /\ \A w \in Write : w \in Nat /\ w > 0
         /\ DOMAIN pending = 1..Len(pending) /\ Len(pending) \in Nat
         /\ \A i \in DOMAIN pending : pending[i] \in Stored
<1>1. ToSet(committed) \subseteq Write /\ ToSet(pending) \subseteq Write
  BY Members DEF TypeOK
<1>2. DOMAIN pending = 1..Len(pending) /\ Len(pending) \in Nat
  BY LenProperties DEF TypeOK
<1>3. writes \in 0..MaxWrites /\ writes \in Nat /\ \A w \in Write : w \in Nat /\ w > 0
  BY BoundAssumption DEF TypeOK, Write
<1>. QED
  BY <1>1, <1>2, <1>3 DEF TypeOK, Stored, Ended, ToSet

LEMMA UndoableInit == Init => Undoable
  BY Emptied DEF Init, Undoable, Stored, Ended

LEMMA UndoableOpen ==
  ASSUME TypeOK, Nesting, Undoable, NEW kind \in Kind, Open(kind)
  PROVE  Undoable'
<1>1. PICK n : n = Len(stack) + 1
  OBVIOUS
<1>2. stack'[n] = [kind  |-> kind,
                   queue |-> IF MakesQueue(kind) THEN n ELSE CurrentQueue,
                   owns  |-> MakesQueue(kind),
                   tx    |-> OpensTx(kind),
                   mark  |-> Len(pending),
                   from  |-> writes]
  BY <1>1, Pushed
<1>3. /\ n \in Nat /\ DOMAIN stack' = 1..n /\ DOMAIN stack = 1..n - 1
      /\ \A d \in DOMAIN stack : stack'[d] = stack[d]
  BY <1>1, Pushed
<1>4. UNCHANGED <<pending, committed, writes, broken, dropped>>
  BY DEF Open
<1>5. \A d \in DOMAIN stack' : d = n \/ d \in DOMAIN stack
  BY <1>3
<1>6. Promises(stack'[n]) => stack'[n].tx
  <2>1. /\ stack'[n].kind = kind
        /\ stack'[n].owns = MakesQueue(kind) /\ stack'[n].tx = OpensTx(kind)
    BY <1>2
  <2>2. kind = "atomically" /\ MakesQueue(kind) => OpensTx(kind)
    BY DEF MakesQueue, OpensTx
  <2>3. kind \in {"transaction", "multi"} => OpensTx(kind)
    BY DEF OpensTx
  <2>. QED
    BY <2>1, <2>2, <2>3 DEF Promises
<1>7. /\ \A w \in Ended : w <= stack'[n].from
      /\ \A i \in 1..stack'[n].mark : pending[i] <= stack'[n].from
  BY <1>2, StoredType DEF Undoable, Stored
<1>8. Stored' = Stored /\ Ended' = Ended
  BY <1>4 DEF Stored, Ended
<1>9. ASSUME NEW d \in DOMAIN stack'
      PROVE  /\ Promises(stack'[d]) => stack'[d].tx
             /\ stack'[d].tx => \A w \in Ended : w <= stack'[d].from
             /\ \A i \in 1..stack'[d].mark : pending[i] <= stack'[d].from
  <2>1. CASE d = n
    BY <1>6, <1>7, <2>1
  <2>2. CASE d # n
    <3>1. d \in DOMAIN stack /\ stack'[d] = stack[d]
      BY <1>3, <1>5, <2>2
    <3>. QED
      BY <3>1 DEF Undoable
  <2>. QED
    BY <2>1, <2>2
<1>. QED
  BY <1>4, <1>8, <1>9 DEF Undoable

\* A step that leaves the scopes alone, makes at most one write, and stores no
\* other: what it stores is newer than all there was.
LEMMA UndoableWithin ==
  ASSUME TypeOK, Nesting, Undoable, Within
  PROVE  Undoable'
<1>1. CASE Persist
  <2>1. /\ writes' = writes + 1 /\ UNCHANGED <<stack, broken, dropped>>
        /\ \/ InTx(stack) /\ pending' = Append(pending, writes + 1) /\ UNCHANGED committed
           \/ ~InTx(stack) /\ UNCHANGED pending /\ committed' = Append(committed, writes + 1)
    BY <1>1 DEF Persist
  <2>2. writes + 1 \in Write /\ writes \in Nat
    BY <1>1, BoundAssumption DEF Persist, TypeOK, Write
  <2>3. /\ ToSet(Append(pending, writes + 1)) = ToSet(pending) \cup {writes + 1}
        /\ ToSet(Append(committed, writes + 1)) = ToSet(committed) \cup {writes + 1}
        /\ \A i \in 1..Len(pending) : Append(pending, writes + 1)[i] = pending[i]
    BY <2>2, Appended DEF TypeOK
  <2>4. Stored' = Stored \cup {writes + 1}
    BY <2>1, <2>3 DEF Stored, Ended
  <2>5. \A w \in Stored \cup broken : w \in Nat /\ w <= writes
    BY StoredType DEF Undoable
  <2>6. /\ \A w \in Stored' \cup broken' : w <= writes'
        /\ broken' \cap Stored' = {}
    BY <2>1, <2>2, <2>4, <2>5 DEF Undoable
  <2>7. \A d \in DOMAIN stack :
          stack[d].tx => \A w \in Ended' : w <= stack[d].from
    BY <2>1 DEF Undoable, Ended, InTx
  <2>8. \A d \in DOMAIN stack : \A i \in 1..stack[d].mark : pending'[i] <= stack[d].from
    <3>. TAKE d \in DOMAIN stack
    <3>. TAKE i \in 1..stack[d].mark
    <3>1. i \in 1..Len(pending) /\ pending[i] <= stack[d].from
      BY ScopeType, StoredType DEF Undoable
    <3>. QED
      BY <2>1, <2>3, <3>1
  <2>. QED
    BY <2>1, <2>6, <2>7, <2>8 DEF Undoable
<1>2. CASE ~Persist
  <2>1. UNCHANGED <<stack, pending, committed, writes, broken, dropped>>
    BY <1>2 DEF Within, Dispatch, FailAfterWrite, FailBeforeWrite, CommitFails, Deliver
  <2>. QED
    BY <2>1 DEF Undoable, Stored, Ended
<1>. QED
  BY <1>1, <1>2

LEMMA UndoableClose ==
  ASSUME TypeOK, Nesting, Undoable, Close
  PROVE  Undoable'
<1>1. /\ stack # <<>> /\ stack' = Front(stack) /\ UNCHANGED <<writes, broken>>
      /\ Stored' = Stored
      /\ \/ ~InTx(stack') /\ pending' = <<>>
         \/ UNCHANGED <<committed, pending, dropped>>
  BY Closed DEF Close
<1>2. PICK n \in Nat \ {0} :
        /\ DOMAIN stack = 1..n /\ DOMAIN stack' = 1..n - 1
        /\ \A d \in DOMAIN stack' : d \in DOMAIN stack /\ stack'[d] = stack[d]
  BY <1>1, Popped
<1>3. Stored' = Stored
  BY <1>1
<1>4. CASE UNCHANGED <<committed, pending, dropped>>
  BY <1>1, <1>2, <1>3, <1>4 DEF Undoable, Ended
<1>5. CASE ~InTx(stack') /\ pending' = <<>>
  <2>1. \A d \in DOMAIN stack' : ~stack'[d].tx
    BY <1>5 DEF InTx
  <2>2. \A d \in DOMAIN stack' : stack'[d].mark = 0
    <3>. TAKE d \in DOMAIN stack'
    <3>1. \A e \in 1..(d - 1) : e \in DOMAIN stack'
      BY <1>2
    <3>. QED
      BY <1>2, <2>1, <3>1 DEF Nesting
  <2>. QED
    BY <1>1, <1>2, <1>3, <2>1, <2>2 DEF Undoable
<1>. QED
  BY <1>1, <1>4, <1>5

LEMMA UndoableFail ==
  ASSUME TypeOK, Nesting, Undoable, Fail
  PROVE  Undoable'
<1>1. /\ stack' = Front(stack) /\ pending' = Undone(Last(stack))
      /\ UNCHANGED <<committed, writes, dropped>>
      /\ broken' = IF Promises(Last(stack)) THEN broken \cup (Last(stack).from + 1 .. writes)
                   ELSE broken
      /\ stack # <<>>
  BY DEF Fail, CannotRelease, Nesting
<1>2. PICK n \in Nat \ {0} :
        /\ n \in DOMAIN stack /\ Last(stack) = stack[n]
        /\ DOMAIN stack = 1..n /\ DOMAIN stack' = 1..n - 1
        /\ \A d \in DOMAIN stack' : d \in DOMAIN stack /\ stack'[d] = stack[d]
  BY <1>1, Popped
<1>3. /\ stack[n].from \in Nat /\ stack[n].from <= writes /\ writes \in Nat
      /\ stack[n].mark \in Nat
  <2>1. stack[n].from \in 0..writes /\ stack[n].mark \in 0..Len(pending)
    BY <1>2, ScopeType
  <2>2. writes \in Nat /\ Len(pending) \in Nat
    BY StoredType
  <2>. QED
    BY <2>1, <2>2
<1>4. /\ \A i \in DOMAIN pending' : i \in DOMAIN pending /\ pending'[i] = pending[i]
      /\ ToSet(pending') \subseteq ToSet(pending)
      /\ stack[n].mark <= Len(pending')
      /\ stack[n].tx => Len(pending') = stack[n].mark
  BY <1>1, <1>2, UndoneType
<1>5. DOMAIN pending' = 1..Len(pending') /\ Len(pending') \in Nat
  <2>1. pending' \in Seq(Write)
    BY <1>1, <1>2, UndoneType
  <2>. QED
    BY <2>1, LenProperties
<1>6. Stored' \subseteq Stored /\ Ended' = Ended
  BY <1>1, <1>4 DEF Stored, Ended
<1>7. \A w \in Stored' \cup broken' : w <= writes
  <2>1. \A w \in stack[n].from + 1 .. writes : w <= writes
    BY <1>3
  <2>2. broken' \subseteq broken \cup (stack[n].from + 1 .. writes)
    BY <1>1, <1>2
  <2>. QED
    BY <1>6, <2>1, <2>2 DEF Undoable
<1>8. broken' \cap Stored' = {}
  <2>1. CASE ~Promises(stack[n])
    BY <1>1, <1>2, <1>6, <2>1 DEF Undoable
  <2>2. CASE Promises(stack[n])
    <3>1. stack[n].tx
      BY <1>2, <2>2 DEF Undoable
    <3>2. \A w \in Ended' : w <= stack[n].from
      BY <1>2, <1>6, <3>1 DEF Undoable
    <3>3. \A w \in ToSet(pending') : w <= stack[n].from
      <4>1. \A i \in 1..stack[n].mark : pending[i] <= stack[n].from
        BY <1>2 DEF Undoable
      <4>2. \A i \in DOMAIN pending' : pending'[i] <= stack[n].from
        BY <1>4, <1>5, <3>1, <4>1
      <4>. QED
        BY <4>2 DEF ToSet
    <3>4. \A w \in Stored' : w <= stack[n].from
      BY <1>1, <3>2, <3>3 DEF Stored
    <3>5. \A w \in Stored' : w \in Nat
      BY <1>6, StoredType
    <3>6. \A w \in stack[n].from + 1 .. writes : w \notin Stored'
      BY <1>3, <3>4, <3>5
    <3>. QED
      BY <1>1, <1>2, <1>6, <3>6 DEF Undoable
  <2>. QED
    BY <2>1, <2>2
<1>9. \A d \in DOMAIN stack' : \A i \in 1..stack'[d].mark : pending'[i] <= stack'[d].from
  <2>. TAKE d \in DOMAIN stack'
  <2>. TAKE i \in 1..stack'[d].mark
  <2>1. stack[d].mark <= stack[n].mark /\ stack[d].mark \in Nat
    <3>1. d \in DOMAIN stack /\ d <= n
      BY <1>2
    <3>2. stack[d].mark \in 0..Len(pending) /\ Len(pending) \in Nat
      BY <3>1, ScopeType, StoredType
    <3>. QED
      BY <1>2, <3>1, <3>2 DEF Nesting
  <2>2. i \in DOMAIN pending'
    BY <1>2, <1>3, <1>4, <1>5, <2>1
  <2>. QED
    BY <1>2, <1>4, <2>2 DEF Undoable
<1>10. /\ \A d \in DOMAIN stack' : Promises(stack'[d]) => stack'[d].tx
       /\ \A d \in DOMAIN stack' :
            stack'[d].tx => \A w \in Ended' : w <= stack'[d].from
  BY <1>2, <1>6 DEF Undoable
<1>. QED
  BY <1>1, <1>7, <1>8, <1>9, <1>10 DEF Undoable

LEMMA UndoableNext == TypeOK /\ Nesting /\ Undoable /\ [Next]_vars => Undoable'
<1>. SUFFICES ASSUME TypeOK, Nesting, Undoable, [Next]_vars
              PROVE  Undoable'
  OBVIOUS
<1>1. CASE UNCHANGED vars
  BY <1>1 DEF vars, Undoable, Stored, Ended
<1>2. CASE Crash
  BY <1>2, Emptied DEF Crash, Undoable, Stored, Ended
<1>. QED
  BY <1>1, <1>2, UndoableOpen, UndoableWithin, UndoableClose, UndoableFail DEF Next, Within

-----------------------------------------------------------------------------
(* What is sent was committed.                                              *)

\* The programs for which it is: a Multi, or a pipeline, is run outside any
\* scope; and no scope whose error its caller goes on after is a transaction
\* inside another scope, or opens one.
NestsSoundly ==
  \A k \in Kind :
    /\ Inside[k] \cap {"multi", "pipeline"} = {}
    /\ "transaction" \in Inside[k] => {k, "transaction"} \cap Swallowed = {}

\* Only the outermost scope has a queue.  The others are transactions and
\* actions, whose own transaction is the one around them; those inside a scope
\* whose failure is gone on after are actions.
Flat ==
  /\ \A d \in DOMAIN stack : d > 1 =>
       /\ stack[d].kind \in {"transaction", "atomically"}
       /\ stack[d].queue = 1
       /\ stack[d].kind = "atomically" => ~stack[d].tx
  /\ \A d, e \in DOMAIN stack :
       1 < d /\ d <= e /\ stack[d].kind \in Swallowed => stack[e].kind = "atomically"
  /\ \A d \in DOMAIN stack : d > 1 /\ stack[d].kind = "transaction" =>
       "transaction" \notin Swallowed
  /\ phase = "flushing" => stack = <<>>

LEMMA FlatInit == Init => Flat
  BY DEF Init, Flat

LEMMA FlatOpen ==
  ASSUME NestsSoundly, TypeOK, Nesting, Flat, NEW kind \in Kind, Open(kind)
  PROVE  Flat'
<1>1. PICK n : n = Len(stack) + 1
  OBVIOUS
<1>2. stack'[n] = [kind  |-> kind,
                   queue |-> IF MakesQueue(kind) THEN n ELSE CurrentQueue,
                   owns  |-> MakesQueue(kind),
                   tx    |-> OpensTx(kind),
                   mark  |-> Len(pending),
                   from  |-> writes]
  BY <1>1, Pushed
<1>3. /\ n \in Nat /\ DOMAIN stack' = 1..n /\ DOMAIN stack = 1..n - 1
      /\ \A d \in DOMAIN stack : stack'[d] = stack[d]
  BY <1>1, Pushed
<1>4. \A d \in DOMAIN stack' : d = n \/ d \in DOMAIN stack
  BY <1>3
<1>5. phase' # "flushing"
  BY DEF Open
<1>6. CASE n = 1
  <2>1. DOMAIN stack = {} /\ DOMAIN stack' = {1}
    BY <1>3, <1>6
  <2>. QED
    BY <1>5, <2>1 DEF Flat
<1>7. CASE n # 1
  <2>1. n - 1 \in DOMAIN stack /\ n > 1 /\ n - 1 = Len(stack) /\ stack # <<>>
    BY <1>1, <1>3, <1>7, Innermost
  <2>2. Where = stack[n - 1].kind /\ CurrentQueue = stack[n - 1].queue /\ CurrentQueue # 0
    BY <2>1, Innermost, ScopeType DEF Where, Last, Depth
  <2>3. CurrentQueue = 1
    <3>1. n - 1 > 1 => stack[n - 1].queue = 1
      BY <2>1 DEF Flat
    <3>2. stack[n - 1].queue \in 1..(n - 1)
      BY <2>1, ScopeType
    <3>. QED
      BY <1>3, <1>7, <2>2, <3>1, <3>2
  <2>4. kind \in Inside[stack[n - 1].kind] /\ stack[n - 1].kind \in Kind
    BY <2>1, <2>2, ScopeType DEF Open
  <2>5. kind \in {"transaction", "atomically"}
    BY <2>4 DEF NestsSoundly, Kind
  <2>6. ~MakesQueue(kind) /\ (kind = "atomically" => ~OpensTx(kind))
    BY <2>2, <2>5 DEF MakesQueue, OpensTx
  <2>7. /\ stack'[n].kind = kind /\ stack'[n].queue = 1
        /\ kind = "atomically" => ~stack'[n].tx
    BY <1>2, <2>3, <2>6
  <2>8. kind = "transaction" =>
          "transaction" \notin Swallowed /\ stack[n - 1].kind \notin Swallowed
    BY <2>4 DEF NestsSoundly
  <2>9. ASSUME NEW d \in DOMAIN stack', 1 < d, stack'[d].kind \in Swallowed
        PROVE  kind = "atomically"
    <3>1. CASE d = n
      BY <2>5, <2>7, <2>8, <2>9, <3>1
    <3>2. CASE d # n
      <4>1. d \in DOMAIN stack /\ d <= n - 1
        BY <1>3, <3>2
      <4>2. stack[d].kind = "atomically" /\ stack[n - 1].kind = "atomically"
        <5>1. stack[d].kind \in Swallowed
          BY <1>3, <2>9, <4>1
        <5>. QED
          BY <1>3, <2>1, <2>9, <4>1, <5>1 DEF Flat
      <4>. QED
        BY <1>3, <2>5, <2>8, <2>9, <4>1, <4>2
    <3>. QED
      BY <3>1, <3>2
  <2>10. \A d, e \in DOMAIN stack' :
           1 < d /\ d <= e /\ stack'[d].kind \in Swallowed => stack'[e].kind = "atomically"
    <3>. TAKE d, e \in DOMAIN stack'
    <3>. HAVE 1 < d /\ d <= e /\ stack'[d].kind \in Swallowed
    <3>1. CASE e = n
      BY <2>7, <2>9, <3>1
    <3>2. CASE e # n
      <4>1. d \in DOMAIN stack /\ e \in DOMAIN stack
        BY <1>3, <3>2
      <4>. QED
        BY <1>3, <4>1 DEF Flat
    <3>. QED
      BY <3>1, <3>2
  <2>. QED
    BY <1>3, <1>4, <1>5, <2>5, <2>7, <2>8, <2>10 DEF Flat
<1>. QED
  BY <1>6, <1>7

LEMMA FlatNext == NestsSoundly /\ TypeOK /\ Nesting /\ Flat /\ [Next]_vars => Flat'
<1>. SUFFICES ASSUME NestsSoundly, TypeOK, Nesting, Flat, [Next]_vars
              PROVE  Flat'
  OBVIOUS
<1>1. CASE UNCHANGED vars
  BY <1>1 DEF vars, Flat
<1>2. CASE Crash
  BY <1>2 DEF Crash, Flat
<1>3. CASE Within
  <2>1. UNCHANGED stack /\ (phase' = "flushing" => phase = "flushing")
    BY <1>3 DEF Within, Persist, Dispatch, FailAfterWrite, FailBeforeWrite, CommitFails,
                Deliver
  <2>. QED
    BY <2>1 DEF Flat
<1>4. CASE Close \/ Fail
  <2>1. stack # <<>> /\ stack' = Front(stack)
    BY <1>4 DEF Close, Fail, CannotRelease, Nesting
  <2>2. PICK n \in Nat \ {0} :
          /\ n \in DOMAIN stack /\ Last(stack) = stack[n]
          /\ n = Len(stack) /\ DOMAIN stack' = 1..n - 1
          /\ \A d \in DOMAIN stack' : d \in DOMAIN stack /\ stack'[d] = stack[d]
    BY <2>1, Popped
  <2>3. ASSUME phase' = "flushing"
        PROVE  stack' = <<>>
    <3>1. stack[n].owns
      BY <1>4, <2>2, <2>3 DEF Close, Fail, Flush
    <3>2. n = 1
      BY <2>2, <3>1, ScopeType DEF Flat
    <3>3. Len(stack') = 0 /\ stack' \in Seq(Scope)
      BY <2>1, <2>2, <3>2, Popped, Fronted DEF TypeOK
    <3>. QED
      BY <3>3, EmptySeq
  <2>. QED
    BY <2>2, <2>3 DEF Flat
<1>. QED
  BY <1>1, <1>2, <1>3, <1>4, FlatOpen DEF Next, Within

\* What failed takes the outermost scope, and its queue, with it.
Doomed ==
  /\ phase = "failing"
  /\ \A d \in DOMAIN stack : d > 1 => stack[d].kind \notin Swallowed

\* What was sent, or is being, is committed, or was dropped at a COMMIT; what
\* is queued is stored, or is about to be dropped itself.
SentSafely ==
  /\ phase = "written" => writes \in Stored
  /\ ToSet(sent) \cup ToSet(outbox) \subseteq Ended
  /\ Queued \subseteq Stored \/ Doomed

LEMMA SentInit == Init => SentSafely
<1>. SUFFICES ASSUME Init
              PROVE  SentSafely
  OBVIOUS
<1>1. \A d \in Depth : queue[d] = <<>>
  BY DEF Init
<1>2. Queued = {}
  BY <1>1, Emptied DEF Queued
<1>. QED
  BY <1>2, Emptied DEF Init, SentSafely

\* When no scope is open, nothing is queued, and nothing pending.
LEMMA TopIsClear ==
  ASSUME TypeOK, Nesting, stack = <<>>
  PROVE  Queued = {} /\ pending = <<>> /\ Stored = Ended
<1>1. ~InTx(stack)
  BY DEF InTx
<1>2. \A d \in Depth : queue[d] = <<>>
  BY DEF Nesting
<1>. QED
  BY <1>1, <1>2, Emptied DEF TypeOK, Queued, Stored

LEMMA SentWithin ==
  ASSUME TypeOK, Nesting, SentSafely, Within
  PROVE  SentSafely'
<1>1. CASE Persist
  <2>1. writes + 1 \in Write
    BY <1>1, BoundAssumption DEF Persist, TypeOK, Write
  <2>2. /\ ToSet(Append(pending, writes + 1)) = ToSet(pending) \cup {writes + 1}
        /\ ToSet(Append(committed, writes + 1)) = ToSet(committed) \cup {writes + 1}
    BY <2>1, Appended DEF TypeOK
  <2>3. /\ writes' = writes + 1 /\ UNCHANGED <<queue, outbox, sent, dropped>>
        /\ phase = "running"
        /\ \/ pending' = Append(pending, writes + 1) /\ UNCHANGED committed
           \/ committed' = Append(committed, writes + 1) /\ UNCHANGED pending
    BY <1>1 DEF Persist
  <2>4. Stored' = Stored \cup {writes'} /\ Ended \subseteq Ended'
    BY <2>2, <2>3 DEF Stored, Ended
  <2>. QED
    BY <2>3, <2>4 DEF SentSafely, Doomed, Queued
<1>2. CASE Dispatch
  <2>1. writes \in Write
    BY <1>2, BoundAssumption DEF Dispatch, Nesting, TypeOK, Write
  <2>2. phase = "written" /\ phase' = "running" /\ writes \in Stored /\ Queued \subseteq Stored
    BY <1>2 DEF Dispatch, SentSafely, Doomed
  <2>3. UNCHANGED outbox /\ Stored' = Stored /\ Ended' = Ended
    BY <1>2 DEF Dispatch, Stored, Ended
  <2>4. CASE CurrentQueue = 0
    <3>1. stack = <<>>
      BY <2>4, Innermost DEF Depth
    <3>2. ToSet(Append(sent, writes)) = ToSet(sent) \cup {writes}
      BY <2>1, Appended DEF TypeOK
    <3>3. UNCHANGED queue /\ ToSet(sent') = ToSet(sent) \cup {writes}
      BY <1>2, <2>4, <3>2 DEF Dispatch
    <3>4. writes \in Ended
      BY <2>2, <3>1, TopIsClear
    <3>. QED
      BY <2>2, <2>3, <3>3, <3>4 DEF SentSafely, Queued
  <2>5. CASE CurrentQueue # 0
    <3>1. CurrentQueue \in Depth
      BY <2>5, Innermost
    <3>2. UNCHANGED sent /\ Queued' = Queued \cup {writes}
      BY <1>2, <2>1, <2>5, <3>1, QueuedGrows DEF Dispatch
    <3>. QED
      BY <2>2, <2>3, <3>2 DEF SentSafely
  <2>. QED
    BY <2>4, <2>5
<1>3. CASE FailAfterWrite \/ FailBeforeWrite \/ CommitFails
  <2>1. /\ UNCHANGED <<queue, outbox, pending, committed, sent, dropped>>
        /\ phase \in {"written", "running"} /\ phase' # "written"
    BY <1>3 DEF FailAfterWrite, FailBeforeWrite, CommitFails
  <2>. QED
    BY <2>1 DEF SentSafely, Stored, Ended, Queued, Doomed
<1>4. CASE Deliver
  <2>1. /\ UNCHANGED <<stack, queue, pending, committed, writes, dropped>>
        /\ phase = "flushing" /\ phase' # "written"
    BY <1>4 DEF Deliver
  <2>2. ToSet(sent') \cup ToSet(outbox') \subseteq ToSet(sent) \cup ToSet(outbox)
    <3>1. CASE outbox = <<>>
      BY <1>4, <3>1 DEF Deliver
    <3>2. CASE outbox # <<>>
      <4>1. Head(outbox) \in Write /\ ToSet(outbox) = {Head(outbox)} \cup ToSet(Tail(outbox))
        BY <3>2, Beheaded DEF TypeOK
      <4>2. ToSet(Append(sent, Head(outbox))) = ToSet(sent) \cup {Head(outbox)}
        BY <4>1, Appended DEF TypeOK
      <4>. QED
        BY <1>4, <3>2, <4>1, <4>2 DEF Deliver
    <3>. QED
      BY <3>1, <3>2
  <2>3. Queued' = Queued /\ Stored' = Stored /\ Ended' = Ended /\ ~Doomed
    BY <2>1 DEF Queued, Stored, Ended, Doomed
  <2>. QED
    BY <2>1, <2>2, <2>3 DEF SentSafely
<1>. QED
  BY <1>1, <1>2, <1>3, <1>4 DEF Within

LEMMA SentClose ==
  ASSUME TypeOK, Nesting, Flat, SentSafely, Close, TypeOK', Nesting', Flat'
  PROVE  SentSafely'
<1>1. /\ phase = "running" /\ stack # <<>> /\ Flush(Last(stack)) /\ UNCHANGED sent
      /\ phase' \in {"running", "flushing"}
  BY DEF Close, Flush
<1>2. Queued \subseteq Stored /\ outbox = <<>>
  BY <1>1 DEF SentSafely, Doomed, Nesting
<1>3. Stored' = Stored /\ Ended \subseteq Ended'
  BY Closed
<1>4. Last(stack).queue \in Depth
  BY <1>1, Innermost
<1>5. CASE Last(stack).owns
  <2>1. /\ outbox' = queue[Last(stack).queue] /\ phase' = "flushing"
        /\ queue' = [queue EXCEPT ![Last(stack).queue] = <<>>]
    BY <1>1, <1>5 DEF Flush
  <2>2. stack' = <<>>
    BY <2>1 DEF Flat
  <2>3. Stored' = Ended'
    <3>1. ~InTx(stack')
      BY <2>2 DEF InTx
    <3>2. pending' = <<>>
      BY <3>1 DEF TypeOK
    <3>. QED
      BY <3>2, Emptied DEF Stored
  <2>4. ToSet(outbox') \subseteq Queued
    BY <1>4, <2>1 DEF Queued
  <2>5. Queued' \subseteq Queued
    BY <1>4, <2>1, QueuedShrinks
  <2>. QED
    BY <1>1, <1>2, <1>3, <2>1, <2>3, <2>4, <2>5 DEF SentSafely
<1>6. CASE ~Last(stack).owns
  <2>1. UNCHANGED <<outbox, queue>> /\ phase' = "running"
    BY <1>1, <1>6 DEF Flush
  <2>. QED
    BY <1>1, <1>2, <1>3, <2>1 DEF SentSafely, Queued
<1>. QED
  BY <1>5, <1>6

LEMMA SentFail ==
  ASSUME TypeOK, Nesting, Flat, SentSafely, Fail, TypeOK', Nesting'
  PROVE  SentSafely'
<1>1. /\ stack # <<>> /\ stack' = Front(stack) /\ pending' = Undone(Last(stack))
      /\ UNCHANGED <<outbox, committed, sent, writes, dropped>> /\ phase' # "written"
      /\ phase' = IF stack' = <<>> \/ Last(stack).kind \in Swallowed
                    THEN "running" ELSE "failing"
  BY DEF Fail, CannotRelease, Nesting
<1>2. PICK n \in Nat \ {0} :
        /\ n = Len(stack) /\ n \in DOMAIN stack /\ Last(stack) = stack[n]
        /\ DOMAIN stack = 1..n /\ DOMAIN stack' = 1..n - 1
        /\ \A d \in DOMAIN stack' : d \in DOMAIN stack /\ stack'[d] = stack[d]
  BY <1>1, Popped
<1>3. Queued' \subseteq Stored' \/ Doomed'
  <2>1. CASE stack' = <<>>
    <3>1. \A d \in Depth : queue'[d] = <<>>
      BY <2>1 DEF Nesting
    <3>2. Queued' = {}
      BY <3>1, Emptied DEF Queued
    <3>. QED
      BY <3>2
  <2>2. CASE stack' # <<>>
    <3>1. n > 1
      <4>1. Len(stack') = n - 1 /\ stack' \in Seq(Scope)
        BY <1>1, <1>2, Fronted, Popped DEF TypeOK
      <4>2. Len(stack') # 0
        BY <2>2, <4>1, EmptySeq
      <4>. QED
        BY <1>2, <4>1, <4>2
    <3>2. /\ stack[n].kind \in {"transaction", "atomically"} /\ stack[n].queue = 1
          /\ stack[n].kind = "atomically" => ~stack[n].tx
          /\ stack[n].kind = "transaction" => "transaction" \notin Swallowed
      BY <1>2, <3>1 DEF Flat
    <3>3. ~stack[n].owns
      BY <1>2, <3>1, <3>2, ScopeType
    <3>4. Queued' = Queued
      BY <1>2, <3>3 DEF Fail, Queued
    <3>5. CASE stack[n].kind = "atomically"
      <4>1. Stored' = Stored
        BY <1>1, <1>2, <3>2, <3>5 DEF Undone, Stored, Ended
      <4>2. ASSUME Doomed
            PROVE  Doomed'
        <5>1. stack[n].kind \notin Swallowed /\ phase' = "failing"
          BY <1>1, <1>2, <2>2, <3>1, <4>2 DEF Doomed
        <5>. QED
          BY <1>2, <4>2, <5>1 DEF Doomed
      <4>. QED
        BY <3>4, <4>1, <4>2 DEF SentSafely
    <3>6. CASE stack[n].kind = "transaction"
      <4>1. \A d \in DOMAIN stack : d > 1 => stack[d].kind \notin Swallowed
        <5>. TAKE d \in DOMAIN stack
        <5>. HAVE d > 1
        <5>1. d <= n
          BY <1>2
        <5>. QED
          BY <1>2, <3>6, <5>1 DEF Flat
      <4>2. phase' = "failing"
        BY <1>1, <1>2, <2>2, <3>2, <3>6
      <4>. QED
        BY <1>2, <4>1, <4>2 DEF Doomed
    <3>. QED
      BY <3>2, <3>5, <3>6
  <2>. QED
    BY <2>1, <2>2
<1>. QED
  BY <1>1, <1>3 DEF SentSafely, Ended

LEMMA SentNext ==
  ASSUME TypeOK, Nesting, Flat, SentSafely, [Next]_vars, TypeOK', Nesting', Flat'
  PROVE  SentSafely'
<1>1. CASE UNCHANGED vars
  BY <1>1 DEF vars, SentSafely, Stored, Ended, Queued, Doomed
<1>2. CASE Crash
  <2>1. /\ \A d \in Depth : queue'[d] = <<>>
        /\ outbox' = <<>> /\ phase' = "running" /\ UNCHANGED <<sent, committed, dropped>>
    BY <1>2 DEF Crash
  <2>2. Queued' = {}
    BY <2>1, Emptied DEF Queued
  <2>. QED
    BY <2>1, <2>2, Emptied DEF SentSafely, Ended
<1>3. ASSUME NEW kind \in Kind, Open(kind)
      PROVE  SentSafely'
  <2>1. UNCHANGED <<phase, queue, outbox, pending, committed, sent, writes, dropped>>
        /\ phase = "running"
    BY <1>3, OpenKeepsQueues DEF Open
  <2>. QED
    BY <2>1 DEF SentSafely, Stored, Ended, Queued, Doomed
<1>. QED
  BY <1>1, <1>2, <1>3, SentWithin, SentClose, SentFail DEF Next, Within

LEMMA AllSafe ==
  ASSUME NestsSoundly
  PROVE  Spec => [](TypeOK /\ Nesting /\ Flat /\ SentSafely)
<1>1. TypeOK /\ Nesting /\ Flat /\ SentSafely /\ [Next]_vars
        => (TypeOK /\ Nesting /\ Flat /\ SentSafely)'
  BY TypeNext, FlatNext, SentNext
<1>. QED
  BY <1>1, TypeInit, FlatInit, SentInit, PTL DEF Spec

\* In a program that nests soundly no notifier is sent what was not committed,
\* whatever fails, is gone on after or is cut off by a crash - but for what the
\* COMMIT of an aborted transaction rolled back.
THEOREM SentWritesAreCommitted ==
  ASSUME NestsSoundly
  PROVE  Spec => []SentIsCommitted
<1>1. SentSafely => SentIsCommitted
  BY DEF SentSafely, SentIsCommitted, Ended
<1>. QED
  BY <1>1, AllSafe, PTL

\* A transaction, a Multi or an atomic action that failed leaves nothing in the
\* database, whatever the program.
THEOREM FailedWritesAreUndone == Spec => [](broken \cap Ended = {})
<1>1. Undoable => broken \cap Ended = {}
  BY DEF Undoable, Stored
<1>. QED
  BY <1>1, TypeCorrect, UndoableInit, UndoableNext, PTL DEF Spec

\* A failed statement aborts nothing, or a caller goes on only after scopes that
\* open a transaction or a savepoint of their own, and roll back to it.
GoesOnSafely == ~Aborts \/ Swallowed \subseteq {"transaction", "multi"}

\* Then a transaction that is aborted is on its way to be rolled back.
NoneDropped == dropped = {} /\ (aborted => Aborts /\ phase = "failing")

LEMMA NoneDroppedFail ==
  ASSUME GoesOnSafely, \A d \in DOMAIN stack : stack[d].kind \in {"transaction", "multi"} => stack[d].tx,
         TypeOK, Nesting, NoneDropped, Fail
  PROVE  NoneDropped'
<1>1. stack # <<>> /\ UNCHANGED dropped
  BY DEF Fail, CannotRelease, Nesting
<1>2. Len(stack) \in DOMAIN stack /\ Last(stack) = stack[Len(stack)]
  BY <1>1, Innermost
<1>3. ASSUME aborted'
      PROVE  Aborts /\ phase' = "failing"
  <2>1. aborted /\ (CannotRelease \/ ~Last(stack).tx)
    BY <1>3 DEF Fail
  <2>2. Aborts /\ phase = "failing"
    BY <2>1 DEF NoneDropped
  <2>3. ~Last(stack).tx
    BY <2>1, <2>2 DEF CannotRelease
  <2>4. Last(stack).kind \notin Swallowed
    BY <1>2, <2>2, <2>3 DEF GoesOnSafely
  <2>5. stack' # <<>>
    <3>1. CASE stack' = <<>>
      <4>1. ~InTx(stack')
        BY <3>1 DEF InTx
      <4>. QED
        BY <1>3, <4>1, TypeFail DEF TypeOK
    <3>. QED
      BY <3>1
  <2>. QED
    BY <2>2, <2>4, <2>5 DEF Fail
<1>. QED
  BY <1>1, <1>3 DEF NoneDropped

LEMMA NoneDroppedNext ==
  ASSUME GoesOnSafely, \A d \in DOMAIN stack : stack[d].kind \in {"transaction", "multi"} => stack[d].tx,
         TypeOK, Nesting, NoneDropped, [Next]_vars
  PROVE  NoneDropped'
<1>1. CASE UNCHANGED vars
  BY <1>1 DEF vars, NoneDropped
<1>2. ASSUME NEW kind \in Kind, Open(kind)
      PROVE  NoneDropped'
  BY <1>2 DEF Open, NoneDropped
<1>3. CASE Persist \/ Dispatch \/ CommitFails
  <2>1. UNCHANGED <<aborted, dropped>> /\ phase # "failing"
    BY <1>3 DEF Persist, Dispatch, CommitFails
  <2>. QED
    BY <2>1 DEF NoneDropped
<1>4. CASE FailAfterWrite \/ FailBeforeWrite
  <2>1. UNCHANGED dropped /\ ~aborted /\ (phase' = "failing" \/ stack = <<>>) /\ Errs
    BY <1>4 DEF FailAfterWrite, FailBeforeWrite, NoneDropped
  <2>2. UNCHANGED aborted \/ (Aborts /\ InTx(stack))
    BY <2>1 DEF Errs
  <2>3. stack = <<>> => ~InTx(stack)
    BY Innermost
  <2>. QED
    BY <2>1, <2>2, <2>3 DEF NoneDropped
<1>5. CASE Close
  <2>1. ~aborted
    BY <1>5 DEF Close, NoneDropped
  <2>2. UNCHANGED dropped /\ ~aborted'
    BY <1>5, <2>1 DEF Close
  <2>. QED
    BY <2>2 DEF NoneDropped
<1>6. CASE Deliver
  <2>1. UNCHANGED <<aborted, dropped>> /\ phase = "flushing"
    BY <1>6 DEF Deliver
  <2>. QED
    BY <2>1 DEF NoneDropped
<1>7. CASE Crash
  <2>1. UNCHANGED dropped /\ ~aborted'
    BY <1>7 DEF Crash
  <2>. QED
    BY <2>1 DEF NoneDropped
<1>. QED
  BY <1>1, <1>2, <1>3, <1>4, <1>5, <1>6, <1>7, NoneDroppedFail DEF Next

\* In a program that nests soundly, on a database where a failed statement
\* aborts nothing, or whose callers go on only after transactions and Multis,
\* all that is sent is committed, without exception.
THEOREM SentWritesAreStored ==
  ASSUME NestsSoundly, GoesOnSafely
  PROVE  Spec => [](ToSet(sent) \subseteq ToSet(committed))
<1>1. Init => NoneDropped
  BY DEF Init, NoneDropped
<1>2. TypeOK /\ Nesting /\ Undoable /\ NoneDropped /\ [Next]_vars => NoneDropped'
  <2>. SUFFICES ASSUME TypeOK, Nesting, Undoable, NoneDropped, [Next]_vars
                PROVE  NoneDropped'
    OBVIOUS
  <2>1. \A d \in DOMAIN stack : stack[d].kind \in {"transaction", "multi"} => stack[d].tx
    BY DEF Undoable, Promises
  <2>. QED
    BY <2>1, NoneDroppedNext
<1>3. SentIsCommitted /\ NoneDropped => ToSet(sent) \subseteq ToSet(committed)
  BY DEF SentIsCommitted, NoneDropped
<1>. QED
  BY <1>1, <1>2, <1>3, SentWritesAreCommitted, TypeCorrect, UndoableInit, UndoableNext,
     PTL DEF Spec

\* In a program that nests soundly it leaves nothing, and notifies nobody.
THEOREM FailedScopesAreUndone ==
  ASSUME NestsSoundly
  PROVE  Spec => []FailedIsUndone
<1>1. SentIsCommitted /\ broken \cap Ended = {} => FailedIsUndone
  BY DEF SentIsCommitted, FailedIsUndone, Ended
<1>. QED
  BY <1>1, SentWritesAreCommitted, FailedWritesAreUndone, PTL

-----------------------------------------------------------------------------
(* What is sent is in order.                                                *)

Rising(s) == \A i, j \in DOMAIN s : i < j => s[i] < s[j]

\* Every S is below every T.
Below(S, T) == \A x \in S : \A y \in T : x < y

\* What was sent comes before what is being sent, and that before what is
\* queued; the latest write is in neither before its action ends.
Ordered ==
  /\ Rising(sent) /\ Rising(outbox) /\ \A d \in Depth : Rising(queue[d])
  /\ Below(ToSet(sent), ToSet(outbox) \cup Queued)
  /\ \A w \in ToSet(sent) \cup ToSet(outbox) \cup Queued :
       w <= writes /\ (phase = "written" => w < writes)

LEMMA RisingAppended ==
  ASSUME NEW s \in Seq(Nat), NEW x \in Nat, Rising(s), \A y \in ToSet(s) : y < x
  PROVE  Rising(Append(s, x))
<1>1. /\ DOMAIN s = 1..Len(s) /\ Len(s) \in Nat
      /\ DOMAIN Append(s, x) = 1..Len(s) + 1
      /\ \A i \in 1..Len(s) : Append(s, x)[i] = s[i]
      /\ Append(s, x)[Len(s) + 1] = x
  BY Appended
<1>2. PICK n \in Nat : n = Len(s)
  BY <1>1
<1>. SUFFICES ASSUME NEW i \in 1..n + 1, NEW j \in 1..n + 1, i < j
              PROVE  Append(s, x)[i] < Append(s, x)[j]
  BY <1>1, <1>2 DEF Rising
<1>3. i \in 1..n /\ Append(s, x)[i] = s[i] /\ s[i] \in ToSet(s)
  BY <1>1, <1>2 DEF ToSet
<1>4. CASE j = n + 1
  BY <1>1, <1>2, <1>3, <1>4
<1>5. CASE j # n + 1
  BY <1>1, <1>2, <1>3, <1>5 DEF Rising
<1>. QED
  BY <1>4, <1>5

LEMMA RisingBeheaded ==
  ASSUME NEW s \in Seq(Nat), s # <<>>, Rising(s)
  PROVE  Rising(Tail(s)) /\ \A y \in ToSet(Tail(s)) : Head(s) < y
<1>1. /\ Head(s) = s[1] /\ DOMAIN s = 1..Len(s) /\ Len(s) \in Nat \ {0}
      /\ DOMAIN Tail(s) = 1..Len(s) - 1
      /\ \A i \in 1..Len(s) - 1 : Tail(s)[i] = s[i + 1]
  BY Beheaded
<1>2. PICK n \in Nat \ {0} : n = Len(s)
  BY <1>1
<1>3. \A i \in 1..n - 1 : i + 1 \in 1..n /\ Tail(s)[i] = s[i + 1] /\ 1 < i + 1
  BY <1>1, <1>2
<1>4. 1 \in 1..n
  OBVIOUS
<1>5. \A i \in 1..n - 1 : Head(s) < Tail(s)[i]
  BY <1>1, <1>2, <1>3, <1>4 DEF Rising
<1>6. Rising(Tail(s))
  <2>. SUFFICES ASSUME NEW i \in 1..n - 1, NEW j \in 1..n - 1, i < j
                PROVE  Tail(s)[i] < Tail(s)[j]
    BY <1>1, <1>2 DEF Rising
  <2>1. i + 1 < j + 1
    OBVIOUS
  <2>. QED
    BY <1>1, <1>2, <1>3, <2>1 DEF Rising
<1>. QED
  BY <1>1, <1>2, <1>5, <1>6 DEF ToSet

\* Writes are numbers.
LEMMA NumberedType ==
  ASSUME TypeOK
  PROVE  /\ writes \in Nat
         /\ sent \in Seq(Nat) /\ outbox \in Seq(Nat)
         /\ \A d \in Depth : queue[d] \in Seq(Nat)
         /\ \A w \in ToSet(sent) \cup ToSet(outbox) \cup Queued : w \in Nat
<1>1. Write \subseteq Nat /\ writes \in Nat
  BY BoundAssumption DEF Write, TypeOK
<1>2. sent \in Seq(Nat) /\ outbox \in Seq(Nat) /\ \A d \in Depth : queue[d] \in Seq(Nat)
  BY <1>1, SeqMonotonic DEF TypeOK
<1>3. /\ ToSet(sent) \subseteq Nat /\ ToSet(outbox) \subseteq Nat
      /\ \A d \in Depth : ToSet(queue[d]) \subseteq Nat
  BY <1>2, Members
<1>. QED
  BY <1>1, <1>2, <1>3 DEF Queued

LEMMA OrderedInit == Init => Ordered
<1>. SUFFICES ASSUME Init
              PROVE  Ordered
  OBVIOUS
<1>1. \A d \in Depth : queue[d] = <<>>
  BY DEF Init
<1>2. Queued = {}
  BY <1>1, Emptied DEF Queued
<1>3. Rising(<<>>)
  BY DEF Rising
<1>. QED
  BY <1>1, <1>2, <1>3, Emptied DEF Init, Ordered, Below

LEMMA OrderedDispatch ==
  ASSUME TypeOK, Nesting, Ordered, Dispatch
  PROVE  Ordered'
<1>1. /\ phase = "written" /\ phase' = "running" /\ UNCHANGED <<outbox, writes>>
      /\ \/ CurrentQueue = 0 /\ sent' = Append(sent, writes) /\ UNCHANGED queue
         \/ /\ CurrentQueue # 0 /\ UNCHANGED sent
            /\ queue' = [queue EXCEPT ![CurrentQueue] = Append(@, writes)]
  BY DEF Dispatch
<1>2. \A w \in ToSet(sent) \cup ToSet(outbox) \cup Queued : w < writes
  BY <1>1 DEF Ordered
<1>3. writes \in Write /\ outbox = <<>> /\ ToSet(outbox) = {}
  BY <1>1, BoundAssumption, Emptied DEF Nesting, TypeOK, Write
<1>4. CASE CurrentQueue = 0
  <2>1. stack = <<>>
    BY <1>4, Innermost DEF Depth
  <2>2. Queued = {} /\ Queued' = {}
    BY <1>1, <1>4, <2>1, TopIsClear DEF Queued
  <2>3. ToSet(Append(sent, writes)) = ToSet(sent) \cup {writes}
    BY <1>3, Appended DEF TypeOK
  <2>4. Rising(Append(sent, writes))
    BY <1>2, NumberedType, RisingAppended DEF Ordered
  <2>5. \A w \in ToSet(Append(sent, writes)) : w <= writes
    BY <1>2, <2>3, NumberedType
  <2>6. sent' = Append(sent, writes) /\ UNCHANGED queue /\ ToSet(outbox') \cup Queued' = {}
    BY <1>1, <1>3, <1>4, <2>2
  <2>. QED
    BY <1>1, <2>4, <2>5, <2>6 DEF Ordered, Below
<1>5. CASE CurrentQueue # 0
  <2>1. CurrentQueue \in Depth
    BY <1>5, Innermost
  <2>2. Queued' = Queued \cup {writes}
    BY <1>1, <1>3, <1>5, <2>1, QueuedGrows
  <2>3. Rising(Append(queue[CurrentQueue], writes))
    <3>1. ToSet(queue[CurrentQueue]) \subseteq Queued
      BY <2>1 DEF Queued
    <3>2. \A y \in ToSet(queue[CurrentQueue]) : y < writes
      BY <1>2, <3>1
    <3>. QED
      BY <2>1, <3>2, NumberedType, RisingAppended DEF Ordered
  <2>4. \A d \in Depth : Rising(queue'[d])
    BY <1>1, <1>5, <2>1, <2>3 DEF Ordered, TypeOK
  <2>5. UNCHANGED sent
    BY <1>1, <1>5
  <2>. QED
    BY <1>1, <1>2, <1>3, <2>2, <2>4, <2>5, NumberedType DEF Ordered, Below
<1>. QED
  BY <1>4, <1>5

LEMMA OrderedDeliver ==
  ASSUME TypeOK, Nesting, Flat, Ordered, Deliver
  PROVE  Ordered'
<1>1. /\ phase = "flushing" /\ UNCHANGED <<stack, queue, writes>> /\ phase' # "written"
  BY DEF Deliver
<1>2. Queued = {} /\ Queued' = {}
  BY <1>1, TopIsClear DEF Flat, Queued
<1>3. CASE outbox = <<>>
  <2>1. UNCHANGED <<outbox, sent>>
    BY <1>3 DEF Deliver
  <2>. QED
    BY <1>1, <1>2, <2>1 DEF Ordered
<1>4. CASE outbox # <<>>
  <2>1. sent' = Append(sent, Head(outbox)) /\ outbox' = Tail(outbox)
    BY <1>4 DEF Deliver
  <2>2. /\ Head(outbox) \in Write
        /\ ToSet(outbox) = {Head(outbox)} \cup ToSet(Tail(outbox))
    BY <1>4, Beheaded DEF TypeOK
  <2>3. ToSet(sent') = ToSet(sent) \cup {Head(outbox)}
    BY <2>1, <2>2, Appended DEF TypeOK
  <2>4. Rising(outbox') /\ \A y \in ToSet(outbox') : Head(outbox) < y
    BY <1>4, <2>1, NumberedType, RisingBeheaded DEF Ordered
  <2>5. Rising(sent')
    <3>1. \A y \in ToSet(sent) : y < Head(outbox)
      BY <2>2 DEF Ordered, Below
    <3>2. Head(outbox) \in Nat
      BY <2>2, NumberedType
    <3>. QED
      BY <2>1, <3>1, <3>2, NumberedType, RisingAppended DEF Ordered
  <2>6. Below(ToSet(sent'), ToSet(outbox'))
    BY <2>1, <2>2, <2>3, <2>4 DEF Ordered, Below
  <2>7. ToSet(sent') \cup ToSet(outbox') = ToSet(sent) \cup ToSet(outbox)
    BY <2>1, <2>2, <2>3
  <2>. QED
    BY <1>1, <1>2, <2>4, <2>5, <2>6, <2>7 DEF Ordered
<1>. QED
  BY <1>3, <1>4

LEMMA OrderedClose ==
  ASSUME TypeOK, Nesting, Ordered, Close
  PROVE  Ordered'
<1>1. /\ phase = "running" /\ stack # <<>> /\ Flush(Last(stack))
      /\ UNCHANGED <<sent, writes>> /\ phase' # "written"
  BY DEF Close, Flush
<1>2. outbox = <<>> /\ ToSet(outbox) = {} /\ Last(stack).queue \in Depth /\ Rising(<<>>)
  BY <1>1, Innermost, Emptied DEF Nesting, Rising
<1>3. CASE Last(stack).owns
  <2>1. /\ outbox' = queue[Last(stack).queue]
        /\ queue' = [queue EXCEPT ![Last(stack).queue] = <<>>]
    BY <1>1, <1>3 DEF Flush
  <2>2. Rising(outbox') /\ \A d \in Depth : Rising(queue'[d])
    BY <1>2, <2>1 DEF Ordered, TypeOK
  <2>3. ToSet(outbox') \subseteq Queued /\ Queued' \subseteq Queued
    BY <1>2, <2>1, QueuedShrinks DEF Queued
  <2>. QED
    BY <1>1, <2>2, <2>3 DEF Ordered, Below
<1>4. CASE ~Last(stack).owns
  <2>1. UNCHANGED <<outbox, queue>>
    BY <1>1, <1>4 DEF Flush
  <2>. QED
    BY <1>1, <2>1 DEF Ordered, Queued
<1>. QED
  BY <1>3, <1>4

LEMMA OrderedFail ==
  ASSUME TypeOK, Nesting, Ordered, Fail
  PROVE  Ordered'
<1>1. stack # <<>> /\ UNCHANGED <<outbox, sent, writes>> /\ phase' # "written"
  BY DEF Fail, CannotRelease, Nesting
<1>2. Last(stack).queue \in Depth /\ Rising(<<>>)
  BY <1>1, Innermost DEF Rising
<1>3. Queued' \subseteq Queued /\ \A d \in Depth : Rising(queue'[d])
  <2>1. CASE Last(stack).owns
    <3>1. queue' = [queue EXCEPT ![Last(stack).queue] = <<>>]
      BY <2>1 DEF Fail
    <3>. QED
      BY <1>2, <3>1, QueuedShrinks DEF Ordered, TypeOK
  <2>2. CASE ~Last(stack).owns
    BY <2>2 DEF Fail, Ordered, Queued
  <2>. QED
    BY <2>1, <2>2
<1>. QED
  BY <1>1, <1>3 DEF Ordered, Below

LEMMA OrderedNext ==
  ASSUME TypeOK, Nesting, Flat, Ordered, [Next]_vars
  PROVE  Ordered'
<1>1. CASE UNCHANGED vars
  BY <1>1 DEF vars, Ordered, Queued
<1>2. CASE Crash
  <2>1. /\ \A d \in Depth : queue'[d] = <<>>
        /\ outbox' = <<>> /\ phase' = "running" /\ UNCHANGED <<sent, writes>>
    BY <1>2 DEF Crash
  <2>2. Queued' = {} /\ Rising(<<>>)
    BY <2>1, Emptied DEF Queued, Rising
  <2>. QED
    BY <2>1, <2>2, Emptied DEF Ordered, Below
<1>3. ASSUME NEW kind \in Kind, Open(kind)
      PROVE  Ordered'
  <2>1. UNCHANGED <<phase, queue, outbox, sent, writes>>
    BY <1>3, OpenKeepsQueues DEF Open
  <2>. QED
    BY <2>1 DEF Ordered, Queued
<1>4. CASE Persist
  <2>1. /\ UNCHANGED <<queue, outbox, sent>> /\ writes' = writes + 1
    BY <1>4 DEF Persist
  <2>2. Queued' = Queued
    BY <2>1 DEF Queued
  <2>3. \A w \in ToSet(sent) \cup ToSet(outbox) \cup Queued : w <= writes' /\ w < writes'
    BY <2>1, NumberedType DEF Ordered
  <2>. QED
    BY <2>1, <2>2, <2>3 DEF Ordered
<1>5. CASE FailAfterWrite \/ FailBeforeWrite \/ CommitFails
  <2>1. UNCHANGED <<queue, outbox, sent, writes>> /\ phase' # "written"
    BY <1>5 DEF FailAfterWrite, FailBeforeWrite, CommitFails
  <2>. QED
    BY <2>1 DEF Ordered, Queued
<1>. QED
  BY <1>1, <1>2, <1>3, <1>4, <1>5, OrderedDispatch, OrderedDeliver, OrderedClose,
     OrderedFail DEF Next

\* In a program that nests soundly notifiers are sent each write once, in the
\* order the task made them.
THEOREM WritesAreSentInOrder ==
  ASSUME NestsSoundly
  PROVE  Spec => []SentInOrder
<1>1. Ordered => SentInOrder
  BY DEF Ordered, Rising, SentInOrder
<1>2. TypeOK /\ Nesting /\ Flat /\ Ordered /\ [Next]_vars => Ordered'
  BY OrderedNext
<1>. QED
  BY <1>1, <1>2, AllSafe, OrderedInit, PTL DEF Spec
=============================================================================
