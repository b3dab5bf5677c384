---------------------------- MODULE SharedStreams ----------------------------
(***************************************************************************)
(* ash-graphql: the subscriptions that share one execution (ws.rs, Hub), on *)
(* the pubsub that feeds it (subscription.rs).  All of them have one key:   *)
(* the same query, variables and scope.  Each runs in a task of its own.    *)
(*                                                                         *)
(* One step is what a task does between two awaits or two uses of the hub's *)
(* lock, so a join, an end and a leave of the hub interleave with the       *)
(* stream's own steps.  An event is a notification the subscription lets    *)
(* through, and is its number in the order they are published.              *)
(***************************************************************************)
EXTENDS Naturals, Sequences, FiniteSets

CONSTANTS
  Subscriber,      \* the tasks that subscribe, each again once it has ended
  Missed, Failed,  \* the responses in place of an event: MISSED_EVENTS, an error
  Completed,       \* the frame that ends a subscription
  PubSubBuffer,    \* the pubsub's capacity
  SharedBuffer,    \* SHARED_BUFFER
  MaxEvent,        \* bound: events published
  MaxStream        \* bound: streams started

ASSUME FramesAssumption ==
  /\ Missed \notin Nat /\ Failed \notin Nat /\ Completed \notin Nat
  /\ Cardinality({Missed, Failed, Completed}) = 3
ASSUME BufferAssumption == PubSubBuffer \in Nat \ {0} /\ SharedBuffer \in Nat \ {0}
ASSUME BoundsAssumption == MaxEvent \in Nat /\ MaxStream \in Nat

Stream == 1..MaxStream      \* a stream is its generation
Event  == 1..MaxEvent
Frame  == Event \cup {Missed, Failed, Completed}
Phase  == {"none", "starting", "open", "aborted", "ending", "ended", "over"}
Place  == {"out", "joined", "stopping", "quitting", "stopped"}

VARIABLES
  published,  \* how many events there have been
  current,    \* the stream the hub has for the key, 0 when it has none
  phase,      \* per stream, where run_shared is
  at,         \* per stream, the event it takes next, 0 until it listens
  sent,       \* per stream, the frames sent to its members, Complete among them
  place,      \* per subscriber, where its task is
  stream,     \* per subscriber, the stream it joined, 0 once it has left
  read,       \* per subscriber, how many of the stream's frames are behind it
  told        \* per subscriber, the frames sent to its connection

vars == <<published, current, phase, at, sent, place, stream, read, told>>

streamVars == <<phase, at, sent>>
memberVars == <<place, stream, read, told>>

-----------------------------------------------------------------------------
Init ==
  /\ published = 0
  /\ current = 0
  /\ phase = [g \in Stream |-> "none"]
  /\ at = [g \in Stream |-> 0]
  /\ sent = [g \in Stream |-> <<>>]
  /\ place = [s \in Subscriber |-> "out"]
  /\ stream = [s \in Subscriber |-> 0]
  /\ read = [s \in Subscriber |-> 0]
  /\ told = [s \in Subscriber |-> <<>>]

\* Whose receivers a stream sends to.
Members(g) == {s \in Subscriber : place[s] = "joined" /\ stream[s] = g}

Running(g) == phase[g] \in {"starting", "open"}

Enter(g, to) == phase' = [phase EXCEPT ![g] = to]
Go(s, to)    == place' = [place EXCEPT ![s] = to]
Tell(s, f)   == told' = [told EXCEPT ![s] = Append(@, f)]
Forget(s)    == /\ stream' = [stream EXCEPT ![s] = 0]
                /\ read' = [read EXCEPT ![s] = 0]

\* A send reaches no one unless there are receivers.
Send(g, f) ==
  sent' = [sent EXCEPT ![g] = IF Members(g) = {} THEN @ ELSE Append(@, f)]

Publish ==
  /\ published < MaxEvent
  /\ published' = published + 1
  /\ UNCHANGED <<current, streamVars, memberVars>>

-----------------------------------------------------------------------------
(* Subscribers and the hub.                                                 *)

\* Hub::join, under the hub's lock: the stream there is, from its next frame;
\* or a new one, which does not listen until its task first runs.
Join(s) ==
  /\ place[s] = "out"
  /\ Go(s, "joined")
  /\ told' = [told EXCEPT ![s] = <<>>]
  /\ \/ /\ current # 0
        /\ stream' = [stream EXCEPT ![s] = current]
        /\ read' = [read EXCEPT ![s] = Len(sent[current])]
        /\ UNCHANGED <<current, phase>>
     \/ /\ current = 0
        /\ \E g \in Stream :
             /\ phase[g] = "none" /\ \A h \in Stream : h < g => phase[h] # "none"
             /\ Enter(g, "starting")
             /\ current' = g
             /\ stream' = [stream EXCEPT ![s] = g]
             /\ read' = [read EXCEPT ![s] = 0]
  /\ UNCHANGED <<published, at, sent>>

Behind(s)  == Len(sent[stream[s]]) - read[s]
Lagging(s) == Behind(s) > SharedBuffer

\* What s receives next.
Received(s) == sent[stream[s]][read[s] + 1]

\* Nobody can send s a frame any more: the stream's task is over, and the hub
\* has dropped its sender too.
Closed(s) == phase[stream[s]] = "over" /\ current # stream[s]

\* Mutant: a subscriber that fell behind goes on from what the buffer holds.
TakeOn(s) ==
  /\ place[s] = "joined"
  /\ Behind(s) > 0 \/ Closed(s)
  /\ IF Behind(s) = 0 \/ Received(s) = Completed
       THEN Go(s, "stopping") /\ UNCHANGED <<read, told>>
       ELSE LET from == IF Lagging(s) THEN Len(sent[stream[s]]) - SharedBuffer ELSE read[s]
            IN /\ Tell(s, sent[stream[s]][from + 1])
               /\ read' = [read EXCEPT ![s] = from + 1]
               /\ UNCHANGED place
  /\ UNCHANGED <<published, current, streamVars, stream>>

\* A response is passed on; Complete ends the loop, as a closed channel does.
Take(s) ==
  /\ place[s] = "joined"
  /\ (Behind(s) > 0 /\ ~Lagging(s)) \/ (Behind(s) = 0 /\ Closed(s))
  /\ IF Behind(s) = 0 \/ Received(s) = Completed
       THEN Go(s, "stopping") /\ UNCHANGED <<read, told>>
       ELSE /\ Tell(s, Received(s))
            /\ read' = [read EXCEPT ![s] = @ + 1]
            /\ UNCHANGED place
  /\ UNCHANGED <<published, current, streamVars, stream>>

\* recv says Lagged: so does the subscription, and it stops.
Lag(s) ==
  /\ place[s] = "joined"
  /\ Lagging(s)
  /\ Tell(s, Missed)
  /\ Go(s, "stopping")
  /\ UNCHANGED <<published, current, streamVars, stream, read>>

\* The client completes the subscription, or its connection goes: the task is
\* aborted where it waits, and its receiver dropped.  Nobody reads what it told.
Quit(s) ==
  /\ place[s] \in {"joined", "stopped"}
  /\ Go(s, IF place[s] = "joined" THEN "quitting" ELSE "out")
  /\ told' = [told EXCEPT ![s] = <<>>]
  /\ Forget(s)
  /\ UNCHANGED <<published, current, streamVars>>

\* Mutant: a stream nobody shares is stopped, but not forgotten.
LeaveListed(s) ==
  /\ place[s] \in {"stopping", "quitting"}
  /\ Go(s, IF place[s] = "stopping" THEN "stopped" ELSE "out")
  /\ IF current # 0 /\ Members(current) = {} /\ Running(current)
       THEN Enter(current, "aborted") ELSE UNCHANGED phase
  /\ UNCHANGED <<published, current, at, sent, stream, read, told>>

\* Hub::leave, from Member's drop, under the hub's lock: the stream the hub has
\* now is stopped if nobody shares it.  An abort stops a task where it awaits,
\* so one past its loop runs on.
Leave(s) ==
  /\ place[s] \in {"stopping", "quitting"}
  /\ Go(s, IF place[s] = "stopping" THEN "stopped" ELSE "out")
  /\ IF current # 0 /\ Members(current) = {}
       THEN /\ current' = 0
            /\ IF Running(current) THEN Enter(current, "aborted") ELSE UNCHANGED phase
       ELSE UNCHANGED <<current, phase>>
  /\ UNCHANGED <<published, at, sent, stream, read, told>>

\* A subscription that stopped by itself says that it is complete.
Complete(s) ==
  /\ place[s] = "stopped"
  /\ Tell(s, Completed)
  /\ Go(s, "out")
  /\ Forget(s)
  /\ UNCHANGED <<published, current, streamVars>>

-----------------------------------------------------------------------------
(* run_shared, the task that executes the subscription.                     *)

\* Mutant: a stream begins with the last event before it.
StartBefore(g) ==
  /\ phase[g] = "starting"
  /\ Enter(g, "open")
  /\ at' = [at EXCEPT ![g] = published]
  /\ UNCHANGED <<published, current, sent, memberVars>>

\* The resolver subscribes to the pubsub, whose channel holds what comes next.
Start(g) ==
  /\ phase[g] = "starting"
  /\ Enter(g, "open")
  /\ at' = [at EXCEPT ![g] = published + 1]
  /\ UNCHANGED <<published, current, sent, memberVars>>

Overrun(g) == published >= at[g] + PubSubBuffer

\* Mutant: a stream forwards an event only once another has followed it.
ForwardLate(g) ==
  /\ phase[g] \in {"open", "aborted"}
  /\ at[g] # 0 /\ at[g] < published /\ ~Overrun(g)
  /\ IF Members(g) = {}
       THEN Enter(g, "ending") /\ UNCHANGED at
       ELSE at' = [at EXCEPT ![g] = @ + 1] /\ UNCHANGED phase
  /\ Send(g, at[g])
  /\ UNCHANGED <<published, current, memberVars>>

\* The next event goes to every member; a send that reaches no one ends it,
\* which an abort that came during the same poll no longer does.
Forward(g) ==
  /\ phase[g] \in {"open", "aborted"}
  /\ at[g] # 0 /\ at[g] <= published /\ ~Overrun(g)
  /\ IF Members(g) = {}
       THEN Enter(g, "ending") /\ UNCHANGED at
       ELSE at' = [at EXCEPT ![g] = @ + 1] /\ UNCHANGED phase
  /\ Send(g, at[g])
  /\ UNCHANGED <<published, current, memberVars>>

\* next_event: the pubsub no longer holds the next event, or it has dropped
\* others that this subscription would not have let through.
Overtaken(g) ==
  /\ phase[g] \in {"open", "aborted"}
  /\ at[g] # 0
  /\ Send(g, Missed)
  /\ Enter(g, "ending")
  /\ UNCHANGED <<published, current, at, memberVars>>

\* The subscription is refused, or an event's record cannot be loaded: the
\* response is an error, and the stream ends.
Refuse(g) ==
  /\ \/ phase[g] = "starting"
     \/ phase[g] \in {"open", "aborted"} /\ at[g] # 0 /\ at[g] <= published
  /\ Send(g, Failed)
  /\ Enter(g, "ending")
  /\ UNCHANGED <<published, current, at, memberVars>>

\* The abort takes effect.
Cancel(g) ==
  /\ phase[g] = "aborted"
  /\ Enter(g, "over")
  /\ UNCHANGED <<published, current, at, sent, memberVars>>

\* Mutant: the stream that ends is taken for the one the hub has.
EndedAny(g) ==
  /\ phase[g] = "ending"
  /\ Enter(g, "ended")
  /\ current' = 0
  /\ UNCHANGED <<published, at, sent, memberVars>>

\* Hub::ended, under the hub's lock.
Ended(g) ==
  /\ phase[g] = "ending"
  /\ Enter(g, "ended")
  /\ current' = IF current = g THEN 0 ELSE current
  /\ UNCHANGED <<published, at, sent, memberVars>>

\* The last frame, to whoever joined before the hub forgot the stream.
Finish(g) ==
  /\ phase[g] = "ended"
  /\ Send(g, Completed)
  /\ Enter(g, "over")
  /\ UNCHANGED <<published, current, at, memberVars>>

-----------------------------------------------------------------------------
Run(g) ==
  \/ Start(g) \/ Forward(g) \/ Overtaken(g) \/ Refuse(g)
  \/ Cancel(g) \/ Ended(g) \/ Finish(g)

\* What a stream's task does whenever it is polled: it fails, or finds that it
\* was overtaken before it is overrun, only if something makes it.
Progress(g) ==
  \/ Start(g) \/ Forward(g) \/ (Overrun(g) /\ Overtaken(g))
  \/ Cancel(g) \/ Ended(g) \/ Finish(g)

\* What a subscriber's task does by itself.
Poll(s) == Take(s) \/ Lag(s) \/ Leave(s) \/ Complete(s)

Next ==
  \/ Publish
  \/ \E s \in Subscriber : Join(s) \/ Quit(s) \/ Poll(s)
  \/ \E g \in Stream : Run(g)

Spec == Init /\ [][Next]_vars

\* The runtime polls every task that can go on; a connection's queue drains.
\* Nobody need subscribe, unsubscribe or publish, and nothing need fail.
Fairness ==
  /\ \A s \in Subscriber : WF_vars(Poll(s))
  /\ \A g \in Stream : WF_vars(Progress(g))

FairSpec == Spec /\ Fairness

-----------------------------------------------------------------------------
(* Properties.                                                              *)

\* What each variable holds.
TypeOK ==
  /\ published \in 0..MaxEvent
  /\ current \in 0..MaxStream
  /\ phase \in [Stream -> Phase]
  /\ at \in [Stream -> 0..(MaxEvent + 1)]
  /\ sent \in [Stream -> Seq(Frame)]
  /\ place \in [Subscriber -> Place]
  /\ stream \in [Subscriber -> 0..MaxStream]
  /\ read \in [Subscriber -> Nat]
  /\ told \in [Subscriber -> Seq(Frame)]
  /\ \A g \in Stream : phase[g] = "open" => at[g] # 0
  /\ \A s \in Subscriber :
       place[s] \in {"joined", "stopping", "stopped"} =>
         stream[s] # 0 /\ read[s] <= Len(sent[stream[s]])

\* The hub runs one execution, the one it has for the key, and only while
\* somebody shares it or is about to see that nobody does (Hub::leave, "Stops
\* the stream once nobody is subscribed to it").
OneExecution ==
  \A g \in Stream :
    Running(g) =>
      /\ current = g
      /\ \E s \in Subscriber :
           \/ place[s] = "joined" /\ stream[s] = g
           \/ place[s] \in {"stopping", "quitting"}

\* Whoever shares a stream shares one that runs, or is going to hear that it
\* ended: a join never finds a stream that says nothing more (Hub::ended).
NobodyIsStranded ==
  \A s \in Subscriber :
    place[s] = "joined" =>
      \/ Running(stream[s])
      \/ phase[stream[s]] \in {"ending", "ended"}
      \/ Behind(s) > 0
      \/ Closed(s)

\* The event s hears next: the first frame still ahead of it, or what its
\* stream takes next.
Coming(s) ==
  LET ahead == sent[stream[s]]
  IN IF Behind(s) > 0 /\ ahead[read[s] + 1] \in Nat THEN ahead[read[s] + 1]
                                                   ELSE at[stream[s]]

\* s has been told that its subscription missed events or failed.
Broken(s) == told[s] # <<>> /\ told[s][Len(told[s])] \in {Missed, Failed}

StateOf(s) ==
  IF place[s] \in {"out", "quitting"} THEN "out"
  ELSE IF Broken(s) THEN "broken"
  ELSE IF at[stream[s]] = 0 THEN "waiting"
  ELSE "listening"

F == INSTANCE Feed WITH
       state <- [s \in Subscriber |-> StateOf(s)],
       next  <- [s \in Subscriber |-> IF StateOf(s) = "listening" THEN Coming(s) ELSE 0]

\* To each of its subscribers a shared stream is the subscription Feed
\* describes: whoever joins or leaves meanwhile, the events it hears have no
\* gap it is not told of, and it hears nothing after that but the end
\* (subscription.rs, "It hears so as an error with code MISSED_EVENTS").
Promised == F!Spec

\* Whatever comes is heard, or the subscription ends: no event waits for ever
\* in a stream its members share, nor in what the stream has sent them
\* (run_shared, subscribe).
EventsAreHeard ==
  \A s \in Subscriber : \A e \in Event :
    (place[s] = "joined" /\ at[stream[s]] # 0 /\ Coming(s) = e /\ e <= published)
      ~> (place[s] # "joined" \/ Coming(s) # e)
=============================================================================
