------------------------- MODULE SharedStreamsProofs -------------------------
(***************************************************************************)
(* Proofs about SharedStreams, for any subscribers, buffers and bounds: the *)
(* hub runs one execution and strands nobody, and to each subscriber the    *)
(* shared stream is the subscription Feed describes.                        *)
(***************************************************************************)
EXTENDS SharedStreams, SequenceTheorems, FiniteSetTheorems, TLAPS

-----------------------------------------------------------------------------
(* Frames and streams.                                                      *)

\* The frames that are no event are no numbers, and Completed is one of a kind.
LEMMA FramesDiffer ==
  /\ Missed \notin Nat /\ Failed \notin Nat /\ Completed \notin Nat
  /\ Completed # Missed /\ Completed # Failed
  /\ Event \subseteq Nat \ {0} /\ Event \subseteq Frame
  /\ {Missed, Failed, Completed} \subseteq Frame
  /\ \A f \in Frame : f \in Nat => f \in Event
  /\ \A f \in Frame : f \notin Nat => f \in {Missed, Failed, Completed}
<1>1. Missed \notin Nat /\ Failed \notin Nat /\ Completed \notin Nat
  BY FramesAssumption
<1>2. Event \subseteq Nat \ {0}
  BY BoundsAssumption DEF Event
<1>3. ASSUME NEW a, NEW b
      PROVE  Cardinality({a, b}) <= 2
  <2>1. IsFiniteSet({a}) /\ Cardinality({a}) = 1
    BY FS_Singleton
  <2>2. {a, b} = {a} \cup {b}
    OBVIOUS
  <2>3. Cardinality({a} \cup {b}) = IF b \in {a} THEN Cardinality({a}) ELSE Cardinality({a}) + 1
    BY <2>1, FS_AddElement
  <2>. QED
    BY <2>1, <2>2, <2>3
<1>4. Cardinality({Missed, Failed, Completed}) = 3
  BY FramesAssumption
<1>5. Completed # Missed
  <2>. SUFFICES ASSUME Completed = Missed
                PROVE  FALSE
    OBVIOUS
  <2>1. {Missed, Failed, Completed} = {Missed, Failed}
    OBVIOUS
  <2>2. Cardinality({Missed, Failed}) <= 2
    BY <1>3
  <2>. QED
    BY <1>4, <2>1, <2>2
<1>6. Completed # Failed
  <2>. SUFFICES ASSUME Completed = Failed
                PROVE  FALSE
    OBVIOUS
  <2>1. {Missed, Failed, Completed} = {Missed, Failed}
    OBVIOUS
  <2>2. Cardinality({Missed, Failed}) <= 2
    BY <1>3
  <2>. QED
    BY <1>4, <2>1, <2>2
<1>. QED
  BY <1>1, <1>2, <1>5, <1>6 DEF Frame

\* What Append leaves of a list of frames.
LEMMA Appended ==
  ASSUME NEW s \in Seq(Frame), NEW f \in Frame
  PROVE  /\ Append(s, f) \in Seq(Frame) /\ Append(s, f) # <<>>
         /\ Len(s) \in Nat /\ DOMAIN s = 1..Len(s)
         /\ Len(Append(s, f)) = Len(s) + 1
         /\ DOMAIN Append(s, f) = 1..Len(s) + 1
         /\ \A i \in 1..Len(s) : Append(s, f)[i] = s[i]
         /\ Append(s, f)[Len(s) + 1] = f
  BY AppendProperties, LenProperties

\* A frame a stream sends is one more, unless nobody listens to it.
LEMMA SendIs ==
  ASSUME sent \in [Stream -> Seq(Frame)], NEW g \in Stream, NEW f \in Frame, Send(g, f)
  PROVE  /\ sent' \in [Stream -> Seq(Frame)]
         /\ \A h \in Stream : h # g => sent'[h] = sent[h]
         /\ Members(g) = {} => sent' = sent
         /\ Members(g) # {} => sent'[g] = Append(sent[g], f)
         /\ \A h \in Stream : Len(sent[h]) \in Nat /\ Len(sent[h]) <= Len(sent'[h])
<1>1. Append(sent[g], f) \in Seq(Frame) /\ Len(Append(sent[g], f)) = Len(sent[g]) + 1
  BY Appended
<1>2. \A h \in Stream : Len(sent[h]) \in Nat
  BY LenProperties
<1>3. sent' = [sent EXCEPT ![g] = IF Members(g) = {} THEN @ ELSE Append(@, f)]
  BY DEF Send
<1>. QED
  BY <1>1, <1>2, <1>3

\* Nobody's place but the subscriber's, nothing but the stream's.
LEMMA Moves ==
  ASSUME place \in [Subscriber -> Place], NEW s \in Subscriber, NEW to \in Place, Go(s, to)
  PROVE  /\ place' \in [Subscriber -> Place]
         /\ place'[s] = to
         /\ \A t \in Subscriber : t # s => place'[t] = place[t]
  BY DEF Go

LEMMA Enters ==
  ASSUME phase \in [Stream -> Phase], NEW g \in Stream, NEW to \in Phase, Enter(g, to)
  PROVE  /\ phase' \in [Stream -> Phase]
         /\ phase'[g] = to
         /\ \A h \in Stream : h # g => phase'[h] = phase[h]
  BY DEF Enter

LEMMA Tells ==
  ASSUME told \in [Subscriber -> Seq(Frame)], NEW s \in Subscriber, NEW f \in Frame,
         Tell(s, f)
  PROVE  /\ told' \in [Subscriber -> Seq(Frame)]
         /\ told'[s] = Append(told[s], f)
         /\ \A t \in Subscriber : t # s => told'[t] = told[t]
  BY Appended DEF Tell

-----------------------------------------------------------------------------
(* Types.                                                                   *)

\* Who shares a stream, or has just left its loop, is at one of its frames.
Placed(s) ==
  place[s] \in {"joined", "stopping", "stopped"} =>
    stream[s] \in Stream /\ read[s] <= Len(sent[stream[s]])

LEMMA PlacedIs ==
  ASSUME TypeOK, NEW s \in Subscriber
  PROVE  Placed(s)
  BY BoundsAssumption DEF TypeOK, Placed, Stream

LEMMA TypeInit == Init => TypeOK
<1>. SUFFICES ASSUME Init
              PROVE  TypeOK
  OBVIOUS
<1>1. <<>> \in Seq(Frame)
  BY EmptySeq
<1>. QED
  BY <1>1, BoundsAssumption DEF Init, TypeOK, Phase, Place

\* A step of a stream's task.
LEMMA TypeRun ==
  ASSUME TypeOK, NEW g \in Stream, Run(g)
  PROVE  TypeOK' /\ UNCHANGED <<published, memberVars>>
<1>1. /\ UNCHANGED <<published, memberVars>>
      /\ \E to \in Phase : Enter(g, to) \/ UNCHANGED phase
      /\ UNCHANGED current \/ current' = 0
  BY DEF Run, Start, Forward, Overtaken, Refuse, Cancel, Ended, Finish, Phase
<1>2. phase' \in [Stream -> Phase]
  BY <1>1, Enters DEF TypeOK
<1>3. published \in 0..MaxEvent /\ at[g] \in 0..MaxEvent + 1 /\ MaxEvent \in Nat
  BY BoundsAssumption DEF TypeOK
<1>4. at' \in [Stream -> 0..MaxEvent + 1]
  BY <1>3 DEF Run, Start, Forward, Overtaken, Refuse, Cancel, Ended, Finish, TypeOK
<1>5. \/ UNCHANGED sent
      \/ \E f \in Frame : Send(g, f)
  <2>1. ASSUME Forward(g)
        PROVE  at[g] \in Frame
    BY <1>3, <2>1 DEF Forward, Frame, Event
  <2>. QED
    BY <2>1, FramesDiffer
       DEF Run, Start, Forward, Overtaken, Refuse, Cancel, Ended, Finish
<1>6. sent' \in [Stream -> Seq(Frame)]
      /\ \A h \in Stream : Len(sent[h]) \in Nat /\ Len(sent[h]) <= Len(sent'[h])
  BY <1>5, SendIs, LenProperties DEF TypeOK
<1>7. \A h \in Stream : phase'[h] = "open" => at'[h] # 0
  <2>1. CASE Start(g)
    BY <1>3, <2>1 DEF Start, Enter, TypeOK
  <2>2. CASE ~Start(g)
    <3>1. \A h \in Stream : phase'[h] = "open" => phase[h] = "open"
      BY <2>2 DEF Run, Forward, Overtaken, Refuse, Cancel, Ended, Finish, Enter, TypeOK
    <3>2. \A h \in Stream : at'[h] = 0 => at[h] = 0
      BY <1>3, <2>2 DEF Run, Forward, Overtaken, Refuse, Cancel, Ended, Finish, TypeOK
    <3>. QED
      BY <3>1, <3>2 DEF TypeOK
  <2>. QED
    BY <2>1, <2>2
<1>8. \A s \in Subscriber :
        place[s] \in {"joined", "stopping", "stopped"} =>
          stream[s] # 0 /\ read[s] <= Len(sent'[stream[s]])
  <2>. TAKE s \in Subscriber
  <2>. HAVE place[s] \in {"joined", "stopping", "stopped"}
  <2>1. stream[s] \in Stream /\ stream[s] # 0 /\ read[s] <= Len(sent[stream[s]])
    BY PlacedIs DEF Placed, TypeOK
  <2>2. read[s] \in Nat /\ Len(sent'[stream[s]]) \in Nat
    BY <1>6, <2>1, LenProperties DEF TypeOK
  <2>. QED
    BY <1>6, <2>1, <2>2
<1>9. current' \in 0..MaxStream
  BY <1>1, BoundsAssumption DEF TypeOK
<1>. QED
  BY <1>1, <1>2, <1>4, <1>6, <1>7, <1>8, <1>9 DEF TypeOK, memberVars

\* A step of a subscriber's task, or of its client.
Subscribes(s) == Join(s) \/ Quit(s) \/ Poll(s)

\* What such a step leaves of the streams: all but that the first to join starts
\* one, and the last to leave aborts one.
LEMMA SubscribesKeeps ==
  ASSUME TypeOK, NEW s \in Subscriber, Subscribes(s)
  PROVE  /\ UNCHANGED <<published, at, sent>>
         /\ current' \in 0..MaxStream
         /\ phase' \in [Stream -> Phase]
         /\ \A g \in Stream : phase'[g] = "open" => phase[g] = "open"
         /\ \A t \in Subscriber : t # s =>
              /\ place'[t] = place[t] /\ stream'[t] = stream[t]
              /\ read'[t] = read[t] /\ told'[t] = told[t]
<1>1. CASE Join(s)
  <2>1. current # 0 => current \in Stream
    BY BoundsAssumption DEF TypeOK, Stream
  <2>2. Stream \subseteq 0..MaxStream
    BY BoundsAssumption DEF Stream
  <2>. QED
    BY <1>1, <2>1, <2>2, ZenonT(60) DEF Join, Go, Enter, TypeOK, Phase
<1>2. CASE Quit(s)
  BY <1>2 DEF Quit, Go, Forget, streamVars, TypeOK
<1>3. CASE Take(s) \/ Lag(s) \/ Complete(s)
  BY <1>3 DEF Take, Lag, Complete, Go, Tell, Forget, streamVars, TypeOK
<1>4. CASE Leave(s)
  <2>1. current # 0 => current \in Stream
    BY BoundsAssumption DEF TypeOK, Stream
  <2>2. \/ UNCHANGED <<current, phase>>
        \/ current # 0 /\ current' = 0 /\ (Enter(current, "aborted") \/ UNCHANGED phase)
    BY <1>4 DEF Leave
  <2>3. /\ phase' \in [Stream -> Phase] /\ current' \in 0..MaxStream
        /\ \A g \in Stream : phase'[g] = "open" => phase[g] = "open"
    <3>1. CASE UNCHANGED <<current, phase>>
      BY <3>1 DEF TypeOK
    <3>2. CASE current # 0 /\ current' = 0 /\ Enter(current, "aborted")
      <4>1. "aborted" \in Phase
        BY DEF Phase
      <4>2. phase \in [Stream -> Phase] /\ current \in Stream
        BY <2>1, <3>2 DEF TypeOK
      <4>3. /\ phase' \in [Stream -> Phase] /\ phase'[current] = "aborted"
            /\ \A h \in Stream : h # current => phase'[h] = phase[h]
        BY <3>2, <4>1, <4>2, Enters
      <4>. QED
        BY <3>2, <4>3, BoundsAssumption
    <3>3. CASE current' = 0 /\ UNCHANGED phase
      BY <3>3, BoundsAssumption DEF TypeOK
    <3>. QED
      BY <2>2, <3>1, <3>2, <3>3
  <2>. QED
    BY <1>4, <2>3 DEF Leave, Go, TypeOK
<1>. QED
  BY <1>1, <1>2, <1>3, <1>4 DEF Subscribes, Poll

\* The subscriber itself: where it is, and at which frame of which stream.
LEMMA SubscriberGoes ==
  ASSUME TypeOK, NEW s \in Subscriber, Subscribes(s)
  PROVE  /\ place' \in [Subscriber -> Place]
         /\ stream' \in [Subscriber -> 0..MaxStream]
         /\ read' \in [Subscriber -> Nat]
         /\ told' \in [Subscriber -> Seq(Frame)]
         /\ place'[s] \in {"joined", "stopping", "stopped"} =>
              stream'[s] \in Stream /\ read'[s] <= Len(sent[stream'[s]])
<1>. USE DEF Place
<1>1. \A g \in Stream : Len(sent[g]) \in Nat
  BY LenProperties DEF TypeOK
<1>2. <<>> \in Seq(Frame) /\ Stream \subseteq 0..MaxStream
  BY EmptySeq, BoundsAssumption DEF Stream
<1>3. CASE Join(s)
  <2>1. PICK g \in Stream, r \in Nat :
          /\ r <= Len(sent[g]) /\ Go(s, "joined")
          /\ stream' = [stream EXCEPT ![s] = g] /\ read' = [read EXCEPT ![s] = r]
          /\ told' = [told EXCEPT ![s] = <<>>]
    <3>1. CASE current # 0
      <4>1. current \in Stream
        BY <3>1, BoundsAssumption DEF TypeOK, Stream
      <4>. QED
        BY <1>1, <1>3, <3>1, <4>1 DEF Join
    <3>2. CASE current = 0
      BY <1>1, <1>3, <3>2 DEF Join
    <3>. QED
      BY <3>1, <3>2
  <2>. QED
    BY <1>2, <2>1 DEF Go, TypeOK
<1>4. CASE Quit(s)
  BY <1>2, <1>4, BoundsAssumption DEF Quit, Go, Forget, TypeOK
<1>5. CASE Take(s)
  <2>1. stream[s] \in Stream /\ read[s] \in Nat /\ read[s] <= Len(sent[stream[s]])
    BY <1>5, PlacedIs DEF Take, Placed, TypeOK
  <2>2. CASE Behind(s) = 0 \/ Received(s) = Completed
    BY <1>5, <2>1, <2>2 DEF Take, Go, TypeOK
  <2>3. CASE ~(Behind(s) = 0 \/ Received(s) = Completed)
    <3>1. read[s] + 1 \in 1..Len(sent[stream[s]])
      BY <1>1, <1>5, <2>1, <2>3 DEF Take, Behind
    <3>2. Received(s) \in Frame
      BY <2>1, <3>1, ElementOfSeq DEF Received, TypeOK
    <3>3. /\ Tell(s, Received(s)) /\ read' = [read EXCEPT ![s] = @ + 1]
          /\ UNCHANGED <<place, stream>>
      BY <1>5, <2>3 DEF Take
    <3>. QED
      BY <1>1, <2>1, <3>1, <3>2, <3>3, Tells DEF TypeOK
  <2>. QED
    BY <2>2, <2>3
<1>6. CASE Lag(s)
  <2>1. stream[s] \in Stream /\ read[s] <= Len(sent[stream[s]])
    BY <1>6, PlacedIs DEF Lag, Placed
  <2>2. told' \in [Subscriber -> Seq(Frame)]
    BY <1>6, FramesDiffer, Tells DEF Lag, TypeOK
  <2>. QED
    BY <1>6, <2>1, <2>2 DEF Lag, Go, TypeOK
<1>7. CASE Leave(s)
  <2>1. place[s] = "stopping" => stream[s] \in Stream /\ read[s] <= Len(sent[stream[s]])
    BY PlacedIs DEF Placed
  <2>. QED
    BY <1>7, <2>1 DEF Leave, Go, TypeOK
<1>8. CASE Complete(s)
  <2>1. told' \in [Subscriber -> Seq(Frame)]
    BY <1>8, FramesDiffer, Tells DEF Complete, TypeOK
  <2>2. 0 \in 0..MaxStream /\ 0 \in Nat
    BY BoundsAssumption
  <2>3. Go(s, "out") /\ Forget(s)
    BY <1>8 DEF Complete
  <2>4. stream' \in [Subscriber -> 0..MaxStream] /\ read' \in [Subscriber -> Nat]
    BY <2>2, <2>3 DEF Forget, TypeOK
  <2>. QED
    BY <2>1, <2>3, <2>4 DEF Go, TypeOK
<1>. QED
  BY <1>3, <1>4, <1>5, <1>6, <1>7, <1>8 DEF Subscribes, Poll

LEMMA TypeSubscribes ==
  ASSUME TypeOK, NEW s \in Subscriber, Subscribes(s)
  PROVE  TypeOK'
<1>1. /\ UNCHANGED <<published, at, sent>> /\ current' \in 0..MaxStream
      /\ phase' \in [Stream -> Phase]
      /\ \A g \in Stream : phase'[g] = "open" => phase[g] = "open"
  BY SubscribesKeeps
<1>2. \A t \in Subscriber : t # s =>
        place'[t] = place[t] /\ stream'[t] = stream[t] /\ read'[t] = read[t]
  BY SubscribesKeeps
<1>3. /\ place' \in [Subscriber -> Place] /\ stream' \in [Subscriber -> 0..MaxStream]
      /\ read' \in [Subscriber -> Nat] /\ told' \in [Subscriber -> Seq(Frame)]
      /\ place'[s] \in {"joined", "stopping", "stopped"} =>
           stream'[s] # 0 /\ read'[s] <= Len(sent[stream'[s]])
  BY SubscriberGoes, BoundsAssumption DEF Stream
<1>4. ASSUME NEW t \in Subscriber, place'[t] \in {"joined", "stopping", "stopped"}
      PROVE  stream'[t] # 0 /\ read'[t] <= Len(sent'[stream'[t]])
  BY <1>1, <1>2, <1>3, <1>4 DEF TypeOK
<1>5. \A g \in Stream : phase'[g] = "open" => at'[g] # 0
  BY <1>1 DEF TypeOK
<1>6. /\ published' \in 0..MaxEvent /\ at' \in [Stream -> 0..(MaxEvent + 1)]
      /\ sent' \in [Stream -> Seq(Frame)]
  BY <1>1 DEF TypeOK
<1>. QED
  BY <1>1, <1>3, <1>4, <1>5, <1>6 DEF TypeOK

LEMMA TypePublish ==
  ASSUME TypeOK, Publish
  PROVE  TypeOK'
  BY BoundsAssumption DEF TypeOK, Publish, streamVars, memberVars

LEMMA TypeNext == TypeOK /\ [Next]_vars => TypeOK'
<1>. SUFFICES ASSUME TypeOK, [Next]_vars
              PROVE  TypeOK'
  OBVIOUS
<1>1. CASE UNCHANGED vars
  BY <1>1 DEF vars, streamVars, memberVars, TypeOK
<1>. QED
  BY <1>1, TypePublish, TypeSubscribes, TypeRun DEF Next, Subscribes

\* Whoever joins, leaves, falls behind or is aborted, each variable keeps its
\* type, and each subscriber its place within what its stream has sent.
THEOREM TypeCorrect == Spec => []TypeOK
<1>. QED
  BY TypeInit, TypeNext, PTL DEF Spec

-----------------------------------------------------------------------------
(* The hub.                                                                 *)

\* The stream the hub has is one that runs or is just ending; nobody waits on
\* one that was aborted.
Hub ==
  /\ \A g \in Stream : phase[g] \in {"none", "aborted", "ended", "over"} => current # g
  /\ \A s \in Subscriber : place[s] = "joined" => phase[stream[s]] \notin {"none", "aborted"}

LEMMA HubInit == Init => Hub /\ OneExecution
  BY BoundsAssumption DEF Init, Hub, OneExecution, Running, Stream

LEMMA HubRun ==
  ASSUME TypeOK, Hub, OneExecution, NEW g \in Stream, Run(g)
  PROVE  Hub' /\ OneExecution'
<1>0. \A s \in Subscriber : place[s] = "joined" => stream[s] \in Stream
  BY PlacedIs DEF Placed
<1>1. UNCHANGED <<place, stream>>
  BY TypeRun DEF memberVars
<1>2. phase'[g] \notin {"none", "aborted"} \/ phase'[g] = phase[g]
  BY DEF Run, Start, Forward, Overtaken, Refuse, Cancel, Ended, Finish, Enter, TypeOK
<1>3. \A h \in Stream : h # g => phase'[h] = phase[h]
  BY DEF Run, Start, Forward, Overtaken, Refuse, Cancel, Ended, Finish, Enter, TypeOK
<1>4. Running(g)' => Running(g)
  BY DEF Run, Start, Forward, Overtaken, Refuse, Cancel, Ended, Finish, Enter, TypeOK, Running
<1>5. CASE Ended(g)
  <2>1. phase[g] = "ending" /\ phase'[g] = "ended"
        /\ current' = IF current = g THEN 0 ELSE current
    BY <1>5 DEF Ended, Enter, TypeOK
  <2>2. 0 \notin Stream
    BY BoundsAssumption DEF Stream
  <2>3. \A h \in Stream : phase'[h] \in {"none", "aborted", "ended", "over"} => current' # h
    BY <1>3, <2>1, <2>2 DEF Hub
  <2>4. \A h \in Stream : Running(h)' => h # g /\ Running(h) /\ current' = current
    BY <1>3, <2>1 DEF Running, OneExecution
  <2>. QED
    BY <1>0, <1>1, <1>2, <1>3, <2>3, <2>4 DEF Hub, OneExecution
<1>6. CASE ~Ended(g)
  <2>1. UNCHANGED current
    BY <1>6 DEF Run, Start, Forward, Overtaken, Refuse, Cancel, Finish
  <2>2. phase'[g] = "over" => phase[g] \in {"aborted", "ended", "over"}
    BY <1>6 DEF Run, Start, Forward, Overtaken, Refuse, Cancel, Finish, Enter, TypeOK
  <2>3. phase'[g] = "ended" => phase[g] = "ended"
    BY <1>6 DEF Run, Start, Forward, Overtaken, Refuse, Cancel, Finish, Enter, TypeOK
  <2>4. \A h \in Stream : phase'[h] \in {"none", "aborted", "ended", "over"} => current' # h
    BY <1>2, <1>3, <2>1, <2>2, <2>3 DEF Hub
  <2>5. \A h \in Stream : Running(h)' => Running(h)
    BY <1>3, <1>4 DEF Running
  <2>. QED
    BY <1>0, <1>1, <1>2, <1>3, <2>1, <2>4, <2>5 DEF Hub, OneExecution
<1>. QED
  BY <1>5, <1>6

LEMMA HubSubscribes ==
  ASSUME TypeOK, Hub, OneExecution, NEW s \in Subscriber, Subscribes(s)
  PROVE  Hub' /\ OneExecution'
<1>0. \A t \in Subscriber : place[t] = "joined" => stream[t] \in Stream
  BY PlacedIs DEF Placed
<1>1. \A t \in Subscriber : t # s => place'[t] = place[t] /\ stream'[t] = stream[t]
  BY SubscribesKeeps
<1>2. 0 \notin Stream /\ (current # 0 => current \in Stream)
  BY BoundsAssumption DEF TypeOK, Stream
<1>3. CASE Join(s)
  <2>1. place'[s] = "joined" /\ place[s] = "out"
    BY <1>3 DEF Join, Go, TypeOK
  <2>2. CASE current # 0
    <3>1. UNCHANGED <<current, phase>> /\ stream'[s] = current
      BY <1>3, <2>2 DEF Join, TypeOK
    <3>2. phase[current] \notin {"none", "aborted"}
      BY <1>2, <2>2 DEF Hub
    <3>. QED
      BY <1>0, <1>1, <2>1, <3>1, <3>2 DEF Hub, OneExecution, Running
  <2>3. CASE current = 0
    <3>1. PICK g \in Stream :
            /\ phase[g] = "none" /\ current' = g /\ stream'[s] = g
            /\ phase'[g] = "starting" /\ \A h \in Stream : h # g => phase'[h] = phase[h]
      BY <1>3, <2>3 DEF Join, Enter, TypeOK
    <3>2. \A h \in Stream : ~Running(h)
      BY <1>2, <2>3 DEF OneExecution
    <3>3. OneExecution'
      BY <2>1, <3>1, <3>2 DEF OneExecution, Running
    <3>4. Hub'
      BY <1>0, <1>1, <3>1 DEF Hub
    <3>. QED
      BY <3>3, <3>4
  <2>. QED
    BY <2>2, <2>3
<1>4. CASE Quit(s) \/ Take(s) \/ Lag(s) \/ Complete(s)
  <2>1. UNCHANGED <<current, phase>>
    BY <1>4 DEF Quit, Take, Lag, Complete, streamVars
  <2>2. place'[s] = "joined" => place[s] = "joined" /\ stream'[s] = stream[s]
    BY <1>4 DEF Quit, Take, Lag, Complete, Go, Tell, TypeOK
  <2>3. place[s] \in {"joined", "stopping", "quitting"} =>
          \/ place'[s] = "joined"
          \/ place'[s] \in {"stopping", "quitting"}
    BY <1>4 DEF Quit, Take, Lag, Complete, Go, Tell, TypeOK
  <2>. QED
    BY <1>1, <2>1, <2>2, <2>3 DEF Hub, OneExecution, Running
<1>5. CASE Leave(s)
  <2>1. place[s] # "joined" /\ place'[s] # "joined" /\ stream'[s] = stream[s]
    BY <1>5 DEF Leave, Go, TypeOK
  <2>2. CASE current # 0 /\ Members(current) = {}
    <3>1. /\ current' = 0
          /\ \A h \in Stream : h # current => phase'[h] = phase[h]
          /\ phase'[current] = IF Running(current) THEN "aborted" ELSE phase[current]
      BY <1>2, <1>5, <2>2 DEF Leave, Enter, TypeOK
    <3>2. \A h \in Stream : ~Running(h)'
      BY <3>1 DEF OneExecution, Running
    <3>3. \A t \in Subscriber : place[t] = "joined" => stream[t] # current
      BY <2>2 DEF Members
    <3>. QED
      BY <1>0, <1>1, <1>2, <2>1, <3>1, <3>2, <3>3 DEF Hub, OneExecution
  <2>3. CASE ~(current # 0 /\ Members(current) = {})
    <3>1. UNCHANGED <<current, phase>>
      BY <1>5, <2>3 DEF Leave
    <3>2. ASSUME NEW h \in Stream, Running(h)
          PROVE  current = h /\ \E t \in Subscriber : place'[t] = "joined" /\ stream'[t] = h
      <4>1. current = h /\ current # 0
        BY <1>2, <3>2 DEF OneExecution
      <4>2. PICK t \in Subscriber : place[t] = "joined" /\ stream[t] = h
        BY <2>3, <4>1 DEF Members
      <4>. QED
        BY <1>1, <2>1, <4>1, <4>2
    <3>. QED
      BY <1>0, <1>1, <2>1, <3>1, <3>2 DEF Hub, OneExecution, Running
  <2>. QED
    BY <2>2, <2>3
<1>. QED
  BY <1>3, <1>4, <1>5 DEF Subscribes, Poll

LEMMA HubNext == TypeOK /\ Hub /\ OneExecution /\ [Next]_vars => Hub' /\ OneExecution'
<1>. SUFFICES ASSUME TypeOK, Hub, OneExecution, [Next]_vars
              PROVE  Hub' /\ OneExecution'
  OBVIOUS
<1>1. CASE UNCHANGED vars \/ Publish
  BY <1>1 DEF vars, streamVars, memberVars, Publish, Hub, OneExecution, Running
<1>. QED
  BY <1>1, HubSubscribes, HubRun DEF Next, Subscribes

\* However joins, leaves and the ends of streams interleave, the hub runs one
\* execution, and only while somebody shares it or is about to stop it.
THEOREM TheHubRunsOne == Spec => []OneExecution
<1>. QED
  BY TypeInit, TypeNext, HubInit, HubNext, PTL DEF Spec

\* Nobody joins, or goes on waiting on, a stream that says nothing more.
THEOREM TheHubStrandsNobody == Spec => []NobodyIsStranded
<1>1. TypeOK /\ Hub => NobodyIsStranded
  <2>. SUFFICES ASSUME TypeOK, Hub, NEW s \in Subscriber, place[s] = "joined"
                PROVE  \/ Running(stream[s])
                       \/ phase[stream[s]] \in {"ending", "ended"}
                       \/ Closed(s)
    BY DEF NobodyIsStranded
  <2>1. stream[s] \in Stream
    BY PlacedIs DEF Placed
  <2>2. phase[stream[s]] \in {"starting", "open", "ending", "ended", "over"}
    BY <2>1 DEF TypeOK, Hub, Phase
  <2>. QED
    BY <2>1, <2>2 DEF Hub, Running, Closed
<1>. QED
  BY <1>1, TypeInit, TypeNext, HubInit, HubNext, PTL DEF Spec

-----------------------------------------------------------------------------
(* What a stream sends.                                                     *)

\* Events without a gap, up to the one the stream takes next; then perhaps that
\* it missed some or failed, and that it ended, which are the end of it.
Orderly(g) ==
  /\ phase[g] \in {"none", "starting"} => at[g] = 0 /\ sent[g] = <<>>
  /\ at[g] <= published + 1
  /\ \A i \in DOMAIN sent[g] : sent[g][i] \in Nat =>
       /\ sent[g][i] < at[g]
       /\ IF i + 1 \in DOMAIN sent[g] /\ sent[g][i + 1] \in Nat
            THEN sent[g][i + 1] = sent[g][i] + 1
            ELSE at[g] = sent[g][i] + 1
  /\ \A i, j \in DOMAIN sent[g] : i < j /\ sent[g][i] \notin Nat =>
       sent[g][i] # Completed /\ sent[g][j] = Completed
  /\ \A i \in DOMAIN sent[g] : sent[g][i] \notin Nat =>
       /\ phase[g] \in {"ending", "ended", "over"}
       /\ sent[g][i] = Completed => phase[g] = "over"

\* A member that was told of a gap or an error has just read it from its stream.
Reads(s) ==
  place[s] = "joined" /\ Broken(s) =>
    read[s] > 0 /\ sent[stream[s]][read[s]] \in {Missed, Failed}

Streams ==
  /\ \A g \in Stream : Orderly(g)
  /\ \A s \in Subscriber : Reads(s)

LEMMA StreamsInit == Init => Streams
  BY DEF Init, Streams, Orderly, Reads

\* A stream that sends that it missed events, or failed, ends with it; one that
\* sends that it is complete is over.
LEMMA OrderlyEnd ==
  ASSUME TypeOK, NEW g \in Stream, Orderly(g), NEW f \in {Missed, Failed, Completed},
         Send(g, f), UNCHANGED <<published, at>>,
         \A i \in DOMAIN sent[g] : sent[g][i] \notin Nat =>
           f = Completed /\ sent[g][i] # Completed,
         phase'[g] \in {"ending", "ended", "over"}, f = Completed => phase'[g] = "over"
  PROVE  Orderly(g)'
<1>1. sent \in [Stream -> Seq(Frame)] /\ f \in Frame /\ f \notin Nat /\ at[g] \in Int
      /\ Completed \notin Nat
  BY FramesDiffer DEF TypeOK
<1>2. CASE Members(g) = {}
  <2>1. sent' = sent
    BY <1>1, <1>2, SendIs
  <2>2. \A i \in DOMAIN sent[g] : sent[g][i] \notin Nat => sent[g][i] # Completed
    OBVIOUS
  <2>. QED
    BY <2>1, <2>2 DEF Orderly
<1>3. CASE Members(g) # {}
  <2>1. PICK n \in Nat :
          /\ n = Len(sent[g]) /\ DOMAIN sent[g] = 1..n /\ DOMAIN sent'[g] = 1..n + 1
          /\ \A i \in 1..n : sent'[g][i] = sent[g][i]
          /\ sent'[g][n + 1] = f
    <3>1. sent'[g] = Append(sent[g], f) /\ sent[g] \in Seq(Frame)
      BY <1>1, <1>3, SendIs
    <3>. QED
      BY <1>1, <3>1, Appended
  <2>2. ASSUME NEW i \in 1..n + 1, sent'[g][i] \in Nat
        PROVE  /\ sent'[g][i] < at[g]
               /\ IF i + 1 \in 1..n + 1 /\ sent'[g][i + 1] \in Nat
                    THEN sent'[g][i + 1] = sent'[g][i] + 1
                    ELSE at[g] = sent'[g][i] + 1
    <3>1. i \in 1..n /\ sent'[g][i] = sent[g][i] /\ sent[g][i] \in Nat
      BY <1>1, <2>1, <2>2
    <3>2. CASE i = n
      BY <1>1, <2>1, <3>1, <3>2, SMTT(30) DEF Orderly
    <3>3. CASE i # n
      <4>1. i + 1 \in 1..n /\ i + 1 \in 1..n + 1 /\ sent'[g][i + 1] = sent[g][i + 1]
        BY <2>1, <3>1, <3>3
      <4>. QED
        BY <2>1, <3>1, <4>1 DEF Orderly
    <3>. QED
      BY <3>2, <3>3
  <2>3. ASSUME NEW i \in 1..n + 1, NEW j \in 1..n + 1, i < j, sent'[g][i] \notin Nat
        PROVE  sent'[g][i] # Completed /\ sent'[g][j] = Completed
    <3>1. i \in 1..n /\ sent'[g][i] = sent[g][i] /\ (j \in 1..n \/ j = n + 1)
      BY <2>1, <2>3
    <3>. QED
      BY <2>1, <2>3, <3>1 DEF Orderly
  <2>4. ASSUME NEW i \in 1..n + 1, sent'[g][i] \notin Nat
        PROVE  sent'[g][i] = Completed => phase'[g] = "over"
    <3>1. i \in 1..n \/ i = n + 1
      BY <2>1
    <3>. QED
      BY <2>1, <2>4, <3>1
  <2>. QED
    BY <2>1, <2>2, <2>3, <2>4 DEF Orderly
<1>. QED
  BY <1>2, <1>3

\* A stream that sends the event it has come to takes the next one after.
LEMMA OrderlyForward ==
  ASSUME TypeOK, NEW g \in Stream, Orderly(g), Forward(g)
  PROVE  Orderly(g)'
<1>1. /\ phase[g] \in {"open", "aborted"} /\ at[g] # 0 /\ at[g] <= published
      /\ Send(g, at[g]) /\ UNCHANGED published
      /\ sent \in [Stream -> Seq(Frame)] /\ at[g] \in Nat /\ published \in 0..MaxEvent
  BY DEF Forward, TypeOK
<1>2. at[g] \in Frame /\ published \in Nat
  BY <1>1, BoundsAssumption DEF Frame, Event
<1>3. \A i \in DOMAIN sent[g] : sent[g][i] \in Nat
  BY <1>1 DEF Orderly
<1>4. CASE Members(g) = {}
  <2>1. sent' = sent /\ UNCHANGED at /\ phase'[g] = "ending"
    BY <1>1, <1>2, <1>4, SendIs DEF Forward, Enter, TypeOK
  <2>. QED
    BY <1>1, <1>3, <2>1 DEF Orderly
<1>5. CASE Members(g) # {}
  <2>1. PICK n \in Nat :
          /\ n = Len(sent[g]) /\ DOMAIN sent[g] = 1..n /\ DOMAIN sent'[g] = 1..n + 1
          /\ \A i \in 1..n : sent'[g][i] = sent[g][i]
          /\ sent'[g][n + 1] = at[g]
    <3>1. sent'[g] = Append(sent[g], at[g]) /\ sent[g] \in Seq(Frame)
      BY <1>1, <1>2, <1>5, SendIs
    <3>. QED
      BY <1>2, <3>1, Appended
  <2>2. at'[g] = at[g] + 1 /\ UNCHANGED phase
    BY <1>5 DEF Forward, TypeOK
  <2>3. ASSUME NEW i \in 1..n + 1
        PROVE  /\ sent'[g][i] \in Nat /\ sent'[g][i] < at'[g]
               /\ IF i + 1 \in 1..n + 1 /\ sent'[g][i + 1] \in Nat
                    THEN sent'[g][i + 1] = sent'[g][i] + 1
                    ELSE at'[g] = sent'[g][i] + 1
    <3>1. CASE i = n + 1
      BY <1>1, <2>1, <2>2, <3>1
    <3>2. CASE i = n /\ i # n + 1
      <4>1. n \in 1..n /\ n + 1 \notin 1..n
        BY <3>2
      <4>2. sent[g][n] \in Nat /\ sent[g][n] < at[g] /\ at[g] = sent[g][n] + 1
        BY <1>3, <2>1, <4>1 DEF Orderly
      <4>. QED
        BY <1>1, <2>1, <2>2, <3>2, <4>1, <4>2
    <3>3. CASE i \in 1..n - 1
      <4>1. /\ i \in 1..n /\ i + 1 \in 1..n /\ i + 1 \in 1..n + 1
            /\ sent'[g][i] = sent[g][i] /\ sent'[g][i + 1] = sent[g][i + 1]
        BY <2>1, <3>3
      <4>2. sent[g][i] \in Nat /\ sent[g][i + 1] \in Nat
            /\ sent[g][i] < at[g] /\ sent[g][i + 1] = sent[g][i] + 1
        BY <1>3, <2>1, <4>1 DEF Orderly
      <4>. QED
        BY <1>1, <2>2, <4>1, <4>2
    <3>. QED
      BY <2>1, <3>1, <3>2, <3>3
  <2>. QED
    BY <1>1, <1>2, <2>1, <2>2, <2>3 DEF Orderly
<1>. QED
  BY <1>4, <1>5

\* A stream that sends nothing and goes on to end stays as it was.
LEMMA OrderlyQuiet ==
  ASSUME NEW g \in Stream, Orderly(g), published' = published, at'[g] = at[g],
         sent'[g] = sent[g],
         \/ phase'[g] = phase[g]
         \/ phase[g] = "none" /\ phase'[g] = "starting"
         \/ phase[g] = "ending" /\ phase'[g] \in {"ended", "over"}
         \/ phase[g] = "aborted" /\ phase'[g] = "over"
         \/ phase[g] \in {"starting", "open"} /\ phase'[g] = "aborted"
  PROVE  Orderly(g)'
<1>1. /\ phase'[g] \in {"none", "starting"} => phase[g] \in {"none", "starting"}
      /\ phase[g] \in {"ending", "ended", "over"} => phase'[g] \in {"ending", "ended", "over"}
      /\ phase[g] = "over" => phase'[g] = "over"
  OBVIOUS
<1>. QED
  BY <1>1 DEF Orderly

LEMMA OrderlyRun ==
  ASSUME TypeOK, NEW g \in Stream, Run(g), \A h \in Stream : Orderly(h)
  PROVE  \A h \in Stream : Orderly(h)'
<1>0. Orderly(g)
  OBVIOUS
<1>1. ASSUME NEW h \in Stream, h # g
      PROVE  Orderly(h)'
  <2>1. phase'[h] = phase[h] /\ at'[h] = at[h] /\ sent'[h] = sent[h] /\ UNCHANGED published
    BY <1>1 DEF Run, Start, Forward, Overtaken, Refuse, Cancel, Ended, Finish, Enter, Send,
               TypeOK
  <2>2. Orderly(h)
    OBVIOUS
  <2>. QED
    BY <2>1, <2>2, OrderlyQuiet
<1>2. ASSUME Start(g)
      PROVE  Orderly(g)'
  <2>1. /\ phase[g] = "starting" /\ phase'[g] = "open" /\ UNCHANGED <<published, sent>>
        /\ at'[g] = published + 1 /\ published \in Nat
    BY <1>2, BoundsAssumption DEF Start, Enter, TypeOK
  <2>2. sent[g] = <<>>
    BY <1>0, <2>1 DEF Orderly
  <2>3. DOMAIN sent'[g] = {}
    BY <2>1, <2>2
  <2>. QED
    BY <2>1, <2>3 DEF Orderly
<1>3. ASSUME Forward(g)
      PROVE  Orderly(g)'
  BY <1>0, <1>3, OrderlyForward
<1>4. ASSUME Overtaken(g)
      PROVE  Orderly(g)'
  <2>1. /\ Send(g, Missed) /\ UNCHANGED <<published, at>> /\ phase'[g] = "ending"
        /\ phase[g] \in {"open", "aborted"}
    BY <1>4 DEF Overtaken, Enter, TypeOK
  <2>2. \A i \in DOMAIN sent[g] : sent[g][i] \in Nat
    BY <1>0, <2>1 DEF Orderly
  <2>3. Missed # Completed
    BY FramesDiffer
  <2>. QED
    BY <1>0, <2>1, <2>2, <2>3, OrderlyEnd
<1>5. ASSUME Refuse(g)
      PROVE  Orderly(g)'
  <2>1. /\ Send(g, Failed) /\ UNCHANGED <<published, at>> /\ phase'[g] = "ending"
        /\ phase[g] \in {"starting", "open", "aborted"}
    BY <1>5 DEF Refuse, Enter, TypeOK
  <2>2. \A i \in DOMAIN sent[g] : sent[g][i] \in Nat
    BY <1>0, <2>1 DEF Orderly
  <2>3. Failed # Completed
    BY FramesDiffer
  <2>. QED
    BY <1>0, <2>1, <2>2, <2>3, OrderlyEnd
<1>6. ASSUME Cancel(g) \/ Ended(g)
      PROVE  Orderly(g)'
  <2>1. /\ UNCHANGED <<published, at, sent>>
        /\ \/ phase[g] = "aborted" /\ phase'[g] = "over"
           \/ phase[g] = "ending" /\ phase'[g] = "ended"
    BY <1>6 DEF Cancel, Ended, Enter, TypeOK
  <2>. QED
    BY <1>0, <2>1, OrderlyQuiet
<1>7. ASSUME Finish(g)
      PROVE  Orderly(g)'
  <2>1. /\ Send(g, Completed) /\ UNCHANGED <<published, at>> /\ phase'[g] = "over"
        /\ phase[g] = "ended"
    BY <1>7 DEF Finish, Enter, TypeOK
  <2>2. \A i \in DOMAIN sent[g] : sent[g][i] \notin Nat => sent[g][i] # Completed
    BY <1>0, <2>1 DEF Orderly
  <2>. QED
    BY <1>0, <2>1, <2>2, OrderlyEnd
<1>. QED
  BY <1>1, <1>2, <1>3, <1>4, <1>5, <1>6, <1>7 DEF Run

\* A subscriber starts a stream, or has one aborted, and sends nothing.
LEMMA PhaseSubscribes ==
  ASSUME TypeOK, NEW s \in Subscriber, Subscribes(s), NEW g \in Stream
  PROVE  \/ phase'[g] = phase[g]
         \/ phase[g] = "none" /\ phase'[g] = "starting"
         \/ phase[g] \in {"starting", "open"} /\ phase'[g] = "aborted"
<1>1. CASE Join(s)
  BY <1>1 DEF Join, Enter, TypeOK
<1>2. CASE Leave(s)
  BY <1>2 DEF Leave, Enter, Running, TypeOK
<1>3. CASE Quit(s) \/ Take(s) \/ Lag(s) \/ Complete(s)
  BY <1>3 DEF Quit, Take, Lag, Complete, streamVars
<1>. QED
  BY <1>1, <1>2, <1>3 DEF Subscribes, Poll

LEMMA OrderlySubscribes ==
  ASSUME TypeOK, NEW s \in Subscriber, Subscribes(s), NEW g \in Stream, Orderly(g)
  PROVE  Orderly(g)'
<1>1. UNCHANGED <<published, at, sent>>
  BY SubscribesKeeps
<1>. QED
  BY <1>1, PhaseSubscribes, OrderlyQuiet

LEMMA OrderlyPublish ==
  ASSUME TypeOK, Publish, NEW g \in Stream, Orderly(g)
  PROVE  Orderly(g)'
<1>1. UNCHANGED <<phase, at, sent>> /\ published' = published + 1
  BY DEF Publish, streamVars
<1>2. at[g] \in Int /\ published \in Int
  BY BoundsAssumption DEF TypeOK
<1>3. at[g] <= published => at[g] <= published + 1
  BY <1>2
<1>4. at'[g] <= published' + 1
  BY <1>1, <1>2 DEF Orderly
<1>. QED
  BY <1>1, <1>4 DEF Orderly

\* What a stream has sent stays, and more comes after it.
LEMMA SentGrows ==
  ASSUME TypeOK, NEW g \in Stream, Run(g), NEW h \in Stream
  PROVE  /\ Len(sent[h]) \in Nat /\ Len(sent'[h]) \in Nat /\ Len(sent[h]) <= Len(sent'[h])
         /\ \A i \in 1..Len(sent[h]) : sent'[h][i] = sent[h][i]
<1>1. sent \in [Stream -> Seq(Frame)] /\ Len(sent[h]) \in Nat
  BY LenProperties DEF TypeOK
<1>2. UNCHANGED sent \/ \E f \in Frame : Send(g, f)
  <2>1. ASSUME Forward(g)
        PROVE  at[g] \in Frame
    BY <2>1, BoundsAssumption DEF Forward, Frame, Event, TypeOK
  <2>. QED
    BY <2>1, FramesDiffer
       DEF Run, Start, Forward, Overtaken, Refuse, Cancel, Ended, Finish
<1>3. ASSUME NEW f \in Frame, Send(g, f)
      PROVE  /\ Len(sent'[h]) \in Nat /\ Len(sent[h]) <= Len(sent'[h])
             /\ \A i \in 1..Len(sent[h]) : sent'[h][i] = sent[h][i]
  <2>1. sent'[h] = sent[h] \/ sent'[h] = Append(sent[h], f)
    BY <1>1, <1>3, SendIs
  <2>2. /\ Len(Append(sent[h], f)) = Len(sent[h]) + 1
        /\ \A i \in 1..Len(sent[h]) : Append(sent[h], f)[i] = sent[h][i]
    BY <1>1, Appended
  <2>. QED
    BY <1>1, <2>1, <2>2, SMTT(30)
<1>. QED
  BY <1>1, <1>2, <1>3

\* What was told last decides whether a subscription is broken.
LEMMA LastTold ==
  ASSUME told \in [Subscriber -> Seq(Frame)], NEW s \in Subscriber, NEW f \in Frame,
         Tell(s, f)
  PROVE  Broken(s)' <=> f \in {Missed, Failed}
<1>1. told'[s] = Append(told[s], f) /\ told[s] \in Seq(Frame)
  BY Tells
<1>2. told'[s] # <<>> /\ told'[s][Len(told'[s])] = f
  BY <1>1, Appended
<1>. QED
  BY <1>2 DEF Broken

\* What a member takes from its stream.
LEMMA Receives ==
  ASSUME TypeOK, NEW s \in Subscriber, place[s] = "joined", Behind(s) > 0
  PROVE  /\ stream[s] \in Stream /\ read[s] \in Nat /\ Len(sent[stream[s]]) \in Nat
         /\ DOMAIN sent[stream[s]] = 1..Len(sent[stream[s]])
         /\ read[s] + 1 \in DOMAIN sent[stream[s]]
         /\ Received(s) \in Frame /\ Received(s) = sent[stream[s]][read[s] + 1]
<1>1. stream[s] \in Stream /\ read[s] <= Len(sent[stream[s]])
  BY PlacedIs DEF Placed
<1>2. read[s] \in Nat /\ sent[stream[s]] \in Seq(Frame)
  BY <1>1 DEF TypeOK
<1>3. Len(sent[stream[s]]) \in Nat /\ DOMAIN sent[stream[s]] = 1..Len(sent[stream[s]])
  BY <1>2, LenProperties
<1>4. read[s] + 1 \in 1..Len(sent[stream[s]])
  BY <1>2, <1>3 DEF Behind
<1>. QED
  BY <1>1, <1>2, <1>3, <1>4, ElementOfSeq DEF Received

LEMMA ReadsRun ==
  ASSUME TypeOK, NEW g \in Stream, Run(g), NEW s \in Subscriber, Reads(s)
  PROVE  Reads(s)'
<1>. SUFFICES ASSUME place'[s] = "joined", Broken(s)'
              PROVE  read'[s] > 0 /\ sent'[stream'[s]][read'[s]] \in {Missed, Failed}
  BY DEF Reads
<1>1. UNCHANGED <<place, stream, read, told>>
  BY TypeRun DEF memberVars
<1>2. read[s] > 0 /\ sent[stream[s]][read[s]] \in {Missed, Failed}
  BY <1>1 DEF Reads, Broken
<1>3. stream[s] \in Stream /\ read[s] <= Len(sent[stream[s]]) /\ read[s] \in Nat
  BY <1>1, PlacedIs DEF Placed, TypeOK
<1>4. /\ Len(sent[stream[s]]) \in Nat
      /\ \A i \in 1..Len(sent[stream[s]]) : sent'[stream[s]][i] = sent[stream[s]][i]
  BY <1>3, SentGrows
<1>. QED
  BY <1>1, <1>2, <1>3, <1>4

LEMMA ReadsSubscribes ==
  ASSUME TypeOK, NEW s \in Subscriber, Subscribes(s), \A t \in Subscriber : Reads(t),
         NEW t \in Subscriber
  PROVE  Reads(t)'
<1>. SUFFICES ASSUME place'[t] = "joined", Broken(t)'
              PROVE  read'[t] > 0 /\ sent'[stream'[t]][read'[t]] \in {Missed, Failed}
  BY DEF Reads
<1>1. UNCHANGED sent
  BY SubscribesKeeps
<1>2. ASSUME t # s
      PROVE  read'[t] > 0 /\ sent'[stream'[t]][read'[t]] \in {Missed, Failed}
  <2>1. place'[t] = place[t] /\ stream'[t] = stream[t] /\ read'[t] = read[t]
        /\ told'[t] = told[t]
    BY <1>2, SubscribesKeeps
  <2>2. Reads(t)
    OBVIOUS
  <2>. QED
    BY <1>1, <2>1, <2>2 DEF Reads, Broken
<1>3. ASSUME t = s
      PROVE  read'[s] > 0 /\ sent'[stream'[s]][read'[s]] \in {Missed, Failed}
  <2>1. ~Join(s)
    <3>. SUFFICES ASSUME Join(s)
                  PROVE  ~Broken(s)'
      BY <1>3
    <3>1. told'[s] = <<>>
      BY DEF Join, TypeOK
    <3>. QED
      BY <3>1 DEF Broken
  <2>2. ~Quit(s) /\ ~Lag(s) /\ ~Leave(s) /\ ~Complete(s)
    BY <1>3 DEF Quit, Lag, Leave, Complete, Go, TypeOK
  <2>3. Take(s)
    BY <2>1, <2>2 DEF Subscribes, Poll
  <2>4. /\ place[s] = "joined" /\ Behind(s) > 0
        /\ Tell(s, Received(s)) /\ read' = [read EXCEPT ![s] = @ + 1]
        /\ UNCHANGED stream
    <3>1. ~Go(s, "stopping")
      BY <1>3 DEF Go, TypeOK
    <3>2. /\ place[s] = "joined" /\ Behind(s) # 0 /\ Tell(s, Received(s))
          /\ read' = [read EXCEPT ![s] = @ + 1] /\ UNCHANGED stream
          /\ Behind(s) > 0 \/ Behind(s) = 0
      BY <2>3, <3>1 DEF Take
    <3>. QED
      BY <3>2
  <2>5. /\ Received(s) \in Frame /\ Received(s) = sent[stream[s]][read[s] + 1]
        /\ read[s] \in Nat
    BY <2>4, Receives
  <2>6. Received(s) \in {Missed, Failed}
    BY <1>3, <2>4, <2>5, LastTold DEF TypeOK
  <2>7. read'[s] = read[s] + 1
    BY <2>4 DEF TypeOK
  <2>. QED
    BY <1>1, <2>4, <2>5, <2>6, <2>7
<1>. QED
  BY <1>2, <1>3

LEMMA StreamsNext == TypeOK /\ Streams /\ [Next]_vars => Streams'
<1>. SUFFICES ASSUME TypeOK, Streams, [Next]_vars
              PROVE  Streams'
  OBVIOUS
<1>1. CASE UNCHANGED vars
  BY <1>1 DEF vars, streamVars, memberVars, Streams, Orderly, Reads, Broken
<1>2. CASE Publish
  <2>1. \A s \in Subscriber : Reads(s)'
    BY <1>2 DEF Publish, streamVars, memberVars, Streams, Reads, Broken
  <2>. QED
    BY <1>2, <2>1, OrderlyPublish DEF Streams
<1>3. ASSUME NEW s \in Subscriber, Subscribes(s)
      PROVE  Streams'
  BY <1>3, OrderlySubscribes, ReadsSubscribes DEF Streams
<1>4. ASSUME NEW g \in Stream, Run(g)
      PROVE  Streams'
  BY <1>4, OrderlyRun, ReadsRun DEF Streams
<1>. QED
  BY <1>1, <1>2, <1>3, <1>4 DEF Next, Subscribes

-----------------------------------------------------------------------------
(* The subscription each subscriber has.                                    *)

NextOf(s) == IF StateOf(s) = "listening" THEN Coming(s) ELSE 0

States == [s \in Subscriber |-> StateOf(s)]
Nexts  == [s \in Subscriber |-> NextOf(s)]

\* A step that changes one subscription.
LEMMA OneChanges ==
  ASSUME NEW s \in Subscriber,
         \A t \in Subscriber : t # s => StateOf(t)' = StateOf(t) /\ NextOf(t)' = NextOf(t)
  PROVE  /\ States' = [States EXCEPT ![s] = StateOf(s)']
         /\ Nexts' = [Nexts EXCEPT ![s] = NextOf(s)']
         /\ States[s] = StateOf(s) /\ Nexts[s] = NextOf(s)
<1>1. /\ States[s] = StateOf(s) /\ Nexts[s] = NextOf(s)
      /\ DOMAIN States = Subscriber /\ DOMAIN Nexts = Subscriber
  BY DEF States, Nexts
<1>2. States' = [t \in Subscriber |-> StateOf(t)'] /\ Nexts' = [t \in Subscriber |-> NextOf(t)']
  BY DEF States, Nexts
<1>3. [States EXCEPT ![s] = StateOf(s)']
        = [t \in Subscriber |-> IF t = s THEN StateOf(s)' ELSE StateOf(t)]
  BY DEF States
<1>4. [Nexts EXCEPT ![s] = NextOf(s)']
        = [t \in Subscriber |-> IF t = s THEN NextOf(s)' ELSE NextOf(t)]
  BY DEF Nexts
<1>. QED
  BY <1>1, <1>2, <1>3, <1>4

\* What one subscriber's task does changes no other's subscription.
LEMMA OthersKeep ==
  ASSUME TypeOK, NEW s \in Subscriber, Subscribes(s), NEW t \in Subscriber, t # s
  PROVE  StateOf(t)' = StateOf(t) /\ NextOf(t)' = NextOf(t)
<1>1. /\ at' = at /\ sent' = sent
      /\ place'[t] = place[t] /\ stream'[t] = stream[t]
      /\ read'[t] = read[t] /\ told'[t] = told[t]
  BY SubscribesKeeps
<1>2. StateOf(t)' = StateOf(t)
  BY <1>1 DEF StateOf, Broken
<1>3. Coming(t)' = Coming(t)
  BY <1>1 DEF Coming, Behind
<1>. QED
  BY <1>2, <1>3 DEF NextOf

\* A member that was told of a gap or an error is told nothing more: the one
\* frame that may lie ahead is the last.
LEMMA BrokenIsLast ==
  ASSUME TypeOK, Streams, NEW s \in Subscriber, place[s] = "joined", Broken(s),
         Behind(s) > 0
  PROVE  Received(s) = Completed /\ ~Lagging(s)
<1>1. PICK g \in Stream, r \in Nat, n \in Nat :
        /\ g = stream[s] /\ r = read[s] /\ n = Len(sent[g])
        /\ DOMAIN sent[g] = 1..n /\ r + 1 \in 1..n
        /\ Received(s) = sent[g][r + 1]
  BY Receives
<1>2. r > 0 /\ sent[g][r] \in {Missed, Failed}
  BY <1>1 DEF Streams, Reads
<1>3. sent[g][r] \notin Nat
  BY <1>2, FramesDiffer
<1>4. /\ r \in 1..n
      /\ \A j \in 1..n : r < j => sent[g][j] = Completed
  BY <1>1, <1>2, <1>3 DEF Streams, Orderly
<1>5. n = r + 1
  <2>. SUFFICES ASSUME n # r + 1
                PROVE  FALSE
    OBVIOUS
  <2>1. r + 2 \in 1..n /\ r + 1 \in 1..n /\ r < r + 1 /\ r + 1 < r + 2
    BY <1>1
  <2>2. sent[g][r + 1] = Completed /\ Completed \notin Nat
    BY <1>4, <2>1, FramesDiffer
  <2>. QED
    BY <1>1, <2>1, <2>2 DEF Streams, Orderly
<1>6. Behind(s) = 1
  BY <1>1, <1>5 DEF Behind
<1>7. ~Lagging(s)
  BY <1>6, BufferAssumption DEF Lagging
<1>. QED
  BY <1>1, <1>4, <1>7

\* What a step does that leaves s as it is to Feed.
LEMMA Stutters ==
  ASSUME \A t \in Subscriber : StateOf(t)' = StateOf(t) /\ NextOf(t)' = NextOf(t),
         UNCHANGED <<published, told>>
  PROVE  UNCHANGED F!vars
<1>1. UNCHANGED <<States, Nexts>>
  BY DEF States, Nexts
<1>. QED
  BY <1>1 DEF F!vars, States, Nexts, NextOf

LEMMA FeedJoin ==
  ASSUME TypeOK, Streams, NEW s \in Subscriber, Join(s)
  PROVE  F!Join(s)
<1>0. Subscribes(s)
  BY DEF Subscribes
<1>1. /\ UNCHANGED <<published, at, sent>> /\ place[s] = "out" /\ place'[s] = "joined"
      /\ told' = [told EXCEPT ![s] = <<>>] /\ told'[s] = <<>>
  BY DEF Join, Go, TypeOK
<1>2. StateOf(s) = "out" /\ NextOf(s) = 0 /\ ~Broken(s)'
  BY <1>1 DEF StateOf, NextOf, Broken
<1>3. /\ States' = [States EXCEPT ![s] = StateOf(s)']
      /\ Nexts' = [Nexts EXCEPT ![s] = NextOf(s)']
      /\ States[s] = StateOf(s) /\ Nexts[s] = NextOf(s)
  BY <1>0, OthersKeep, OneChanges
<1>4. \/ StateOf(s)' = "waiting" /\ NextOf(s)' = 0
      \/ StateOf(s)' = "listening" /\ NextOf(s)' \in 1..published + 1
  <2>1. CASE current # 0
    <3>1. current \in Stream
      BY <2>1, BoundsAssumption DEF TypeOK, Stream
    <3>2. stream'[s] = current /\ read'[s] = Len(sent[current])
      BY <2>1 DEF Join, TypeOK
    <3>3. Len(sent[current]) \in Nat
      BY <3>1, LenProperties DEF TypeOK
    <3>4. ~(Behind(s)' > 0)
      BY <1>1, <3>2, <3>3 DEF Behind
    <3>5. Coming(s)' = at[current]
      BY <1>1, <3>2, <3>4 DEF Coming
    <3>6. at[current] = 0 \/ at[current] \in 1..published + 1
      BY <3>1, BoundsAssumption DEF Streams, Orderly, TypeOK
    <3>7. StateOf(s)' = IF at[current] = 0 THEN "waiting" ELSE "listening"
      BY <1>1, <1>2, <3>2 DEF StateOf
    <3>. QED
      BY <3>5, <3>6, <3>7 DEF NextOf
  <2>2. CASE current = 0
    <3>1. PICK g \in Stream : phase[g] = "none" /\ stream'[s] = g
      BY <2>2 DEF Join, TypeOK
    <3>2. at[g] = 0
      BY <3>1 DEF Streams, Orderly
    <3>3. StateOf(s)' = "waiting"
      BY <1>1, <1>2, <3>1, <3>2 DEF StateOf
    <3>. QED
      BY <3>3 DEF NextOf
  <2>. QED
    BY <2>1, <2>2
<1>5. \/ States' = [States EXCEPT ![s] = "waiting"] /\ Nexts' = Nexts
      \/ /\ States' = [States EXCEPT ![s] = "listening"]
         /\ \E n \in 1..published + 1 : Nexts' = [Nexts EXCEPT ![s] = n]
  <2>1. DOMAIN Nexts = Subscriber /\ [Nexts EXCEPT ![s] = Nexts[s]] = Nexts
    BY DEF Nexts
  <2>. QED
    BY <1>2, <1>3, <1>4, <2>1
<1>. QED
  BY <1>1, <1>2, <1>3, <1>5 DEF F!Join, States, Nexts, NextOf

LEMMA FeedQuit ==
  ASSUME TypeOK, NEW s \in Subscriber, Quit(s)
  PROVE  F!Leave(s)
<1>0. Subscribes(s)
  BY DEF Subscribes
<1>1. /\ UNCHANGED published /\ place[s] \in {"joined", "stopped"}
      /\ place'[s] \in {"quitting", "out"} /\ told' = [told EXCEPT ![s] = <<>>]
  BY DEF Quit, Go, TypeOK
<1>2. StateOf(s) # "out" /\ StateOf(s)' = "out" /\ NextOf(s)' = 0
  BY <1>1 DEF StateOf, NextOf
<1>3. /\ States' = [States EXCEPT ![s] = StateOf(s)']
      /\ Nexts' = [Nexts EXCEPT ![s] = NextOf(s)']
      /\ States[s] = StateOf(s)
  BY <1>0, OthersKeep, OneChanges
<1>. QED
  BY <1>1, <1>2, <1>3 DEF F!Leave, States, Nexts, NextOf

LEMMA FeedComplete ==
  ASSUME TypeOK, NEW s \in Subscriber, Complete(s)
  PROVE  F!Complete(s)
<1>0. Subscribes(s)
  BY DEF Subscribes, Poll
<1>1. /\ UNCHANGED published /\ place[s] = "stopped" /\ place'[s] = "out"
      /\ told' = [told EXCEPT ![s] = Append(@, Completed)]
  BY DEF Complete, Go, Tell, TypeOK
<1>2. StateOf(s) # "out" /\ StateOf(s)' = "out" /\ NextOf(s)' = 0
  BY <1>1 DEF StateOf, NextOf
<1>3. /\ States' = [States EXCEPT ![s] = StateOf(s)']
      /\ Nexts' = [Nexts EXCEPT ![s] = NextOf(s)']
      /\ States[s] = StateOf(s)
  BY <1>0, OthersKeep, OneChanges
<1>. QED
  BY <1>1, <1>2, <1>3 DEF F!Complete, States, Nexts, NextOf

\* To leave the hub is to say nothing.
LEMMA FeedLeave ==
  ASSUME TypeOK, NEW s \in Subscriber, Leave(s)
  PROVE  UNCHANGED F!vars
<1>0. Subscribes(s)
  BY DEF Subscribes, Poll
<1>1. /\ UNCHANGED <<published, at, sent, stream, read, told>>
      /\ \/ place[s] = "stopping" /\ place'[s] = "stopped"
         \/ place[s] = "quitting" /\ place'[s] = "out"
  BY DEF Leave, Go, TypeOK
<1>2. StateOf(s)' = StateOf(s)
  BY <1>1 DEF StateOf, Broken
<1>3. Coming(s)' = Coming(s)
  BY <1>1 DEF Coming, Behind
<1>4. NextOf(s)' = NextOf(s)
  BY <1>2, <1>3 DEF NextOf
<1>. QED
  BY <1>0, <1>1, <1>2, <1>4, OthersKeep, Stutters

\* A response in place of an event breaks the subscription.
LEMMA FeedBreak ==
  ASSUME TypeOK, NEW s \in Subscriber, Subscribes(s), place[s] = "joined", ~Broken(s),
         NEW f \in {Missed, Failed}, Tell(s, f), place'[s] \in {"joined", "stopping"}
  PROVE  F!Break(s)
<1>1. UNCHANGED published /\ told' = [told EXCEPT ![s] = Append(@, f)]
  BY SubscribesKeeps DEF Tell
<1>2. Broken(s)'
  BY FramesDiffer, LastTold DEF TypeOK
<1>3. StateOf(s) \in {"waiting", "listening"}
  BY DEF StateOf
<1>4. StateOf(s)' = "broken" /\ NextOf(s)' = 0
  BY <1>2 DEF StateOf, NextOf
<1>5. /\ States' = [States EXCEPT ![s] = StateOf(s)']
      /\ Nexts' = [Nexts EXCEPT ![s] = NextOf(s)']
      /\ States[s] = StateOf(s)
  BY OthersKeep, OneChanges
<1>. QED
  BY <1>1, <1>3, <1>4, <1>5 DEF F!Break, States, Nexts, NextOf

LEMMA FeedLag ==
  ASSUME TypeOK, Streams, NEW s \in Subscriber, Lag(s)
  PROVE  F!Break(s)
<1>1. /\ Subscribes(s) /\ place[s] = "joined" /\ Lagging(s)
      /\ Tell(s, Missed) /\ place'[s] = "stopping"
  BY DEF Lag, Subscribes, Poll, Go, TypeOK
<1>2. Behind(s) > 0
  <2>1. stream[s] \in Stream /\ read[s] \in Nat
    BY <1>1, PlacedIs DEF Placed, TypeOK
  <2>2. Behind(s) \in Int
    BY <2>1, LenProperties DEF Behind, TypeOK
  <2>. QED
    BY <1>1, <2>2, BufferAssumption DEF Lagging
<1>3. ~Broken(s)
  BY <1>1, <1>2, BrokenIsLast
<1>. QED
  BY <1>1, <1>3, FeedBreak

\* What a member hears is what comes, and what comes then is the event after it.
LEMMA FeedHear ==
  ASSUME TypeOK, Streams, NEW s \in Subscriber, Take(s), ~Broken(s),
         place[s] = "joined", Behind(s) > 0, Received(s) \in Nat,
         Tell(s, Received(s)), read' = [read EXCEPT ![s] = @ + 1],
         UNCHANGED <<place, stream>>
  PROVE  F!Hear(s)
<1>0. Subscribes(s)
  BY DEF Subscribes, Poll
<1>1. PICK g \in Stream, r \in Nat, n \in Nat :
        /\ g = stream[s] /\ r = read[s] /\ n = Len(sent[g])
        /\ DOMAIN sent[g] = 1..n /\ r + 1 \in 1..n
        /\ Received(s) = sent[g][r + 1] /\ Received(s) \in Frame
  BY Receives
<1>2. /\ UNCHANGED <<published, at, sent>> /\ read'[s] = r + 1
      /\ told' = [told EXCEPT ![s] = Append(@, Received(s))]
  BY <1>0, <1>1, SubscribesKeeps DEF Tell, TypeOK
<1>3. /\ Received(s) < at[g] /\ at[g] <= published + 1
      /\ IF r + 1 + 1 \in 1..n /\ sent[g][r + 1 + 1] \in Nat
           THEN sent[g][r + 1 + 1] = Received(s) + 1
           ELSE at[g] = Received(s) + 1
  <2>1. PICK i \in 1..n : i = r + 1 /\ sent[g][i] = Received(s)
    BY <1>1
  <2>2. /\ at[g] <= published + 1
        /\ \A j \in DOMAIN sent[g] : sent[g][j] \in Nat =>
             /\ sent[g][j] < at[g]
             /\ IF j + 1 \in DOMAIN sent[g] /\ sent[g][j + 1] \in Nat
                  THEN sent[g][j + 1] = sent[g][j] + 1
                  ELSE at[g] = sent[g][j] + 1
    BY DEF Streams, Orderly
  <2>3. /\ sent[g][i] < at[g]
        /\ IF i + 1 \in 1..n /\ sent[g][i + 1] \in Nat
             THEN sent[g][i + 1] = sent[g][i] + 1
             ELSE at[g] = sent[g][i] + 1
    BY <1>1, <2>1, <2>2
  <2>. QED
    BY <2>1, <2>2, <2>3
<1>4. at[g] \in Nat /\ published \in Nat
  BY BoundsAssumption DEF TypeOK
<1>5. Received(s) <= published /\ at[g] # 0
  BY <1>3, <1>4
<1>6. StateOf(s) = "listening"
  BY <1>1, <1>5 DEF StateOf
<1>7. ~Broken(s)'
  BY <1>1, FramesDiffer, LastTold DEF TypeOK
<1>8. StateOf(s)' = "listening"
  BY <1>1, <1>2, <1>5, <1>7 DEF StateOf
<1>9. NextOf(s) = Received(s)
  BY <1>1, <1>6 DEF NextOf, Coming
<1>10. Behind(s)' = n - (r + 1)
  BY <1>1, <1>2 DEF Behind
<1>11. Coming(s)' = Received(s) + 1
  <2>1. Behind(s)' > 0 <=> r + 1 + 1 \in 1..n
    BY <1>1, <1>10
  <2>. QED
    BY <1>1, <1>2, <1>3, <2>1 DEF Coming
<1>12. NextOf(s)' = NextOf(s) + 1
  BY <1>8, <1>9, <1>11 DEF NextOf
<1>13. /\ States' = [States EXCEPT ![s] = StateOf(s)']
       /\ Nexts' = [Nexts EXCEPT ![s] = NextOf(s)']
       /\ States[s] = StateOf(s) /\ Nexts[s] = NextOf(s)
  BY <1>0, OthersKeep, OneChanges
<1>14. States' = States /\ Nexts' = [Nexts EXCEPT ![s] = @ + 1]
  BY <1>6, <1>8, <1>12, <1>13 DEF States
<1>. QED
  BY <1>2, <1>5, <1>6, <1>9, <1>13, <1>14 DEF F!Hear, States, Nexts, NextOf

LEMMA FeedTake ==
  ASSUME TypeOK, Streams, NEW s \in Subscriber, Take(s)
  PROVE  F!Hear(s) \/ F!Break(s) \/ UNCHANGED F!vars
<1>1. Subscribes(s) /\ place[s] = "joined" /\ UNCHANGED <<published, at, sent, stream>>
  BY DEF Take, Subscribes, Poll, streamVars
<1>2. CASE Behind(s) = 0 \/ Received(s) = Completed
  <2>1. place'[s] = "stopping" /\ UNCHANGED <<read, told>>
    BY <1>2 DEF Take, Go, TypeOK
  <2>2. StateOf(s)' = StateOf(s)
    BY <1>1, <2>1 DEF StateOf, Broken
  <2>3. Coming(s)' = Coming(s)
    BY <1>1, <2>1 DEF Coming, Behind
  <2>4. NextOf(s)' = NextOf(s)
    BY <2>2, <2>3 DEF NextOf
  <2>. QED
    BY <1>1, <2>1, <2>2, <2>4, OthersKeep, Stutters
<1>3. CASE ~(Behind(s) = 0 \/ Received(s) = Completed)
  <2>1. /\ Behind(s) > 0 /\ Tell(s, Received(s)) /\ read' = [read EXCEPT ![s] = @ + 1]
        /\ UNCHANGED <<place, stream>> /\ Received(s) # Completed
    BY <1>3 DEF Take
  <2>2. ~Broken(s)
    BY <1>1, <2>1, BrokenIsLast
  <2>3. Received(s) \in Nat \/ Received(s) \in {Missed, Failed}
    BY <1>1, <2>1, Receives, FramesDiffer
  <2>. QED
    BY <1>1, <2>1, <2>2, <2>3, FeedHear, FeedBreak
<1>. QED
  BY <1>2, <1>3

\* Whoever has a subscription is placed in a stream.
LEMMA InAStream ==
  ASSUME TypeOK, NEW s \in Subscriber, StateOf(s) # "out"
  PROVE  /\ place[s] \in {"joined", "stopping", "stopped"}
         /\ stream[s] \in Stream /\ read[s] \in Nat /\ read[s] <= Len(sent[stream[s]])
<1>1. place[s] \in {"joined", "stopping", "stopped"}
  BY DEF StateOf, TypeOK, Place
<1>. QED
  BY <1>1, PlacedIs DEF Placed, TypeOK

\* Those who started the stream, or joined before it ran, listen from the next
\* event on.
LEMMA FeedStart ==
  ASSUME TypeOK, Streams, NEW g \in Stream, Start(g)
  PROVE  \E S \in SUBSET Subscriber : F!Listen(S)
<1>1. /\ UNCHANGED <<published, sent, place, stream, read, told>>
      /\ phase[g] = "starting" /\ at'[g] = published + 1 /\ published \in Nat
      /\ \A h \in Stream : h # g => at'[h] = at[h]
  BY BoundsAssumption DEF Start, memberVars, TypeOK
<1>2. at[g] = 0 /\ sent[g] = <<>>
  BY <1>1 DEF Streams, Orderly
<1>3. PICK S \in SUBSET Subscriber :
        S = {s \in Subscriber : StateOf(s) = "waiting" /\ stream[s] = g}
  OBVIOUS
<1>4. \A s \in Subscriber : Broken(s)' = Broken(s)
  BY <1>1 DEF Broken
<1>5. ASSUME NEW s \in S
      PROVE  StateOf(s) = "waiting" /\ StateOf(s)' = "listening" /\ NextOf(s)' = published + 1
  <2>1. s \in Subscriber /\ StateOf(s) = "waiting" /\ stream[s] = g
    BY <1>3
  <2>2. place[s] \in {"joined", "stopping", "stopped"} /\ read[s] \in Nat
    BY <2>1, InAStream
  <2>3. ~Broken(s)
    BY <2>1 DEF StateOf
  <2>4. StateOf(s)' = "listening"
    BY <1>1, <1>4, <2>1, <2>2, <2>3 DEF StateOf
  <2>5. ~(Behind(s)' > 0)
    <3>1. Behind(s)' = Len(sent[g]) - read[s] /\ Len(sent[g]) = 0
      BY <1>1, <1>2, <2>1 DEF Behind
    <3>. QED
      BY <2>2, <3>1
  <2>6. Coming(s)' = published + 1
    BY <1>1, <2>1, <2>5 DEF Coming
  <2>. QED
    BY <2>1, <2>4, <2>6 DEF NextOf
<1>6. ASSUME NEW s \in Subscriber, s \notin S
      PROVE  StateOf(s)' = StateOf(s) /\ NextOf(s)' = NextOf(s)
  <2>1. CASE StateOf(s) \in {"out", "broken"}
    <3>1. StateOf(s)' = StateOf(s)
      BY <1>1, <1>4, <2>1 DEF StateOf
    <3>. QED
      BY <2>1, <3>1 DEF NextOf
  <2>2. CASE StateOf(s) \notin {"out", "broken"}
    <3>1. stream[s] \in Stream
      BY <2>2, InAStream
    <3>2. stream[s] # g
      BY <1>2, <1>3, <1>6, <2>2 DEF StateOf
    <3>3. at'[stream[s]] = at[stream[s]]
      BY <1>1, <3>1, <3>2
    <3>4. StateOf(s)' = StateOf(s)
      BY <1>1, <1>4, <3>3 DEF StateOf
    <3>5. Coming(s)' = Coming(s)
      BY <1>1, <3>3 DEF Coming, Behind
    <3>. QED
      BY <3>4, <3>5 DEF NextOf
  <2>. QED
    BY <2>1, <2>2
<1>7. /\ States' = [s \in Subscriber |-> IF s \in S THEN "listening" ELSE States[s]]
      /\ Nexts' = [s \in Subscriber |-> IF s \in S THEN published + 1 ELSE Nexts[s]]
      /\ \A s \in S : States[s] = "waiting"
  BY <1>5, <1>6 DEF States, Nexts
<1>. QED
  BY <1>1, <1>7 DEF F!Listen, States, Nexts, NextOf

\* What a stream's task does otherwise nobody hears of before they take it.
LEMMA FeedRun ==
  ASSUME TypeOK, Streams, NEW g \in Stream, Run(g), ~Start(g)
  PROVE  UNCHANGED F!vars
<1>1. UNCHANGED <<published, place, stream, read, told>>
  BY TypeRun DEF memberVars
<1>2. \A h \in Stream : h # g => at'[h] = at[h] /\ sent'[h] = sent[h]
  BY DEF Run, Forward, Overtaken, Refuse, Cancel, Ended, Finish, Send, TypeOK
<1>3. at'[g] = 0 <=> at[g] = 0
  BY BoundsAssumption DEF Run, Forward, Overtaken, Refuse, Cancel, Ended, Finish, TypeOK
<1>4. \A s \in Subscriber : Broken(s)' = Broken(s)
  BY <1>1 DEF Broken
<1>5. ASSUME NEW s \in Subscriber
      PROVE  StateOf(s)' = StateOf(s)
  <2>1. CASE StateOf(s) = "out"
    BY <1>1, <2>1 DEF StateOf
  <2>2. CASE StateOf(s) # "out"
    <3>1. stream[s] \in Stream
      BY <2>2, InAStream
    <3>2. at'[stream[s]] = 0 <=> at[stream[s]] = 0
      BY <1>2, <1>3, <3>1
    <3>. QED
      BY <1>1, <1>4, <3>2 DEF StateOf
  <2>. QED
    BY <2>1, <2>2
<1>6. ASSUME NEW s \in Subscriber, StateOf(s) = "listening"
      PROVE  Coming(s)' = Coming(s)
  <2>1. PICK h \in Stream, r \in Nat, n \in Nat, m \in Nat :
          /\ h = stream[s] /\ r = read[s] /\ n = Len(sent[h]) /\ m = Len(sent'[h])
          /\ r <= n /\ n <= m /\ \A i \in 1..n : sent'[h][i] = sent[h][i]
          /\ DOMAIN sent[h] = 1..n
    <3>1. /\ stream[s] \in Stream /\ read[s] \in Nat /\ read[s] <= Len(sent[stream[s]])
      BY <1>6, InAStream
    <3>2. sent[stream[s]] \in Seq(Frame)
      BY <3>1 DEF TypeOK
    <3>. QED
      BY <3>1, <3>2, SentGrows, LenProperties
  <2>2. Behind(s) = n - r /\ Behind(s)' = m - r
    BY <1>1, <2>1 DEF Behind
  <2>3. CASE h # g
    <3>1. at'[h] = at[h] /\ sent'[h] = sent[h]
      BY <1>2, <2>1, <2>3
    <3>. QED
      BY <1>1, <2>1, <3>1 DEF Coming, Behind
  <2>4. CASE h = g /\ r < n
    <3>1. r + 1 \in 1..n /\ Behind(s) > 0 /\ Behind(s)' > 0
          /\ sent'[g][r + 1] = sent[g][r + 1]
      <4>1. r + 1 \in 1..n
        BY <2>4
      <4>2. n - r > 0 /\ m - r > 0
        BY <2>1, <2>4
      <4>3. sent'[g][r + 1] = sent[g][r + 1]
        BY <2>1, <2>4, <4>1
      <4>. QED
        BY <2>2, <4>1, <4>2, <4>3
    <3>2. CASE sent[g][r + 1] \in Nat
      BY <1>1, <2>1, <2>4, <3>1, <3>2 DEF Coming
    <3>3. CASE sent[g][r + 1] \notin Nat
      <4>1. phase[g] \in {"ending", "ended", "over"}
        BY <2>1, <2>4, <3>1, <3>3 DEF Streams, Orderly
      <4>2. UNCHANGED at
        BY <4>1 DEF Run, Forward, Overtaken, Refuse, Cancel, Ended, Finish
      <4>. QED
        BY <1>1, <2>1, <2>4, <3>1, <3>3, <4>2 DEF Coming
    <3>. QED
      BY <3>2, <3>3
  <2>5. CASE h = g /\ r = n
    <3>1. Coming(s) = at[g] /\ sent[g] \in Seq(Frame) /\ at[g] \in Nat
      BY <2>1, <2>2, <2>5 DEF Coming, TypeOK
    <3>2. ASSUME NEW f \in Frame, Send(g, f), f = at[g] \/ (UNCHANGED at /\ f \notin Nat),
                 Members(g) # {}
          PROVE  Coming(s)' = at[g]
      <4>1. sent'[g] = Append(sent[g], f)
        BY <3>2, SendIs DEF TypeOK
      <4>2. m = n + 1 /\ sent'[g][n + 1] = f
        BY <2>1, <2>5, <3>1, <4>1, Appended
      <4>3. m - r = 1
        BY <2>5, <4>2
      <4>4. Behind(s)' > 0
        BY <2>2, <4>3
      <4>. QED
        BY <1>1, <2>1, <2>5, <3>1, <3>2, <4>2, <4>4 DEF Coming
    <3>3. ASSUME UNCHANGED <<at, sent>>
          PROVE  Coming(s)' = at[g]
      BY <1>1, <3>1, <3>3 DEF Coming, Behind
    <3>4. \/ UNCHANGED <<at, sent>>
          \/ \E f \in Frame : /\ Send(g, f) /\ Members(g) # {}
                              /\ f = at[g] \/ (UNCHANGED at /\ f \notin Nat)
      <4>1. CASE Forward(g)
        <5>1. at[g] \in Frame
          BY <4>1, BoundsAssumption DEF Forward, Frame, Event, TypeOK
        <5>2. Send(g, at[g]) /\ (Members(g) = {} => UNCHANGED at)
          BY <4>1 DEF Forward
        <5>3. Members(g) = {} => sent' = sent
          BY <5>1, <5>2, SendIs DEF TypeOK
        <5>. QED
          BY <5>1, <5>2, <5>3
      <4>2. CASE Overtaken(g) \/ Refuse(g) \/ Finish(g)
        <5>1. PICK f \in {Missed, Failed, Completed} : Send(g, f) /\ UNCHANGED at
          BY <4>2 DEF Overtaken, Refuse, Finish
        <5>2. f \in Frame /\ f \notin Nat
          BY FramesDiffer
        <5>3. Members(g) = {} => sent' = sent
          BY <5>1, <5>2, SendIs DEF TypeOK
        <5>. QED
          BY <5>1, <5>2, <5>3
      <4>3. CASE Cancel(g) \/ Ended(g)
        BY <4>3 DEF Cancel, Ended
      <4>. QED
        BY <4>1, <4>2, <4>3 DEF Run
    <3>. QED
      BY <3>1, <3>2, <3>3, <3>4
  <2>. QED
    BY <2>1, <2>3, <2>4, <2>5
<1>7. ASSUME NEW s \in Subscriber
      PROVE  NextOf(s)' = NextOf(s)
  BY <1>5, <1>6 DEF NextOf
<1>. QED
  BY <1>1, <1>5, <1>7, Stutters

LEMMA FeedPublish ==
  ASSUME Publish
  PROVE  F!Publish
<1>1. /\ UNCHANGED <<at, sent, place, stream, read, told>> /\ published' = published + 1
  BY DEF Publish, streamVars, memberVars
<1>2. \A s \in Subscriber : StateOf(s)' = StateOf(s) /\ Coming(s)' = Coming(s)
  BY <1>1 DEF StateOf, Broken, Coming, Behind
<1>3. UNCHANGED <<States, Nexts>>
  BY <1>2 DEF States, Nexts, NextOf
<1>. QED
  BY <1>1, <1>3 DEF F!Publish, States, Nexts, NextOf

LEMMA FeedInit == Init => F!Init
<1>. SUFFICES ASSUME Init
              PROVE  F!Init
  OBVIOUS
<1>1. \A s \in Subscriber : StateOf(s) = "out" /\ NextOf(s) = 0
  BY DEF Init, StateOf, NextOf
<1>2. /\ States = [s \in Subscriber |-> "out"] /\ Nexts = [s \in Subscriber |-> 0]
  BY <1>1 DEF States, Nexts
<1>. QED
  BY <1>2 DEF Init, F!Init, States, Nexts, NextOf

LEMMA FeedNext == TypeOK /\ Streams /\ [Next]_vars => [F!Next]_(F!vars)
<1>. SUFFICES ASSUME TypeOK, Streams, [Next]_vars
              PROVE  F!Next \/ UNCHANGED F!vars
  OBVIOUS
<1>1. CASE UNCHANGED vars
  <2>1. UNCHANGED <<published, at, sent, place, stream, read, told>>
    BY <1>1 DEF vars, streamVars, memberVars
  <2>2. \A s \in Subscriber : StateOf(s)' = StateOf(s) /\ Coming(s)' = Coming(s)
    BY <2>1 DEF StateOf, Broken, Coming, Behind
  <2>3. \A s \in Subscriber : StateOf(s)' = StateOf(s) /\ NextOf(s)' = NextOf(s)
    BY <2>2 DEF NextOf
  <2>. QED
    BY <2>1, <2>3, Stutters
<1>2. CASE Publish
  BY <1>2, FeedPublish DEF F!Next
<1>3. ASSUME NEW s \in Subscriber, Subscribes(s)
      PROVE  F!Next \/ UNCHANGED F!vars
  <2>1. \/ F!Join(s) \/ F!Leave(s) \/ F!Hear(s) \/ F!Break(s) \/ F!Complete(s)
        \/ UNCHANGED F!vars
    BY <1>3, FeedJoin, FeedQuit, FeedTake, FeedLag, FeedLeave, FeedComplete
       DEF Subscribes, Poll
  <2>. QED
    BY <2>1 DEF F!Next
<1>4. ASSUME NEW g \in Stream, Run(g)
      PROVE  F!Next \/ UNCHANGED F!vars
  BY <1>4, FeedStart, FeedRun DEF F!Next
<1>. QED
  BY <1>1, <1>2, <1>3, <1>4 DEF Next, Subscribes

\* To each of its subscribers a shared stream is a subscription of its own: the
\* events in order, without a gap that is not told, and nothing after that but
\* the end, whoever joins, leaves or falls behind meanwhile.
THEOREM SharedIsAFeed == Spec => Promised
<1>. QED
  BY TypeInit, TypeNext, StreamsInit, StreamsNext, FeedInit, FeedNext, PTL
     DEF Spec, Promised, F!Spec
=============================================================================
