-------------------------------- MODULE Feed --------------------------------
(***************************************************************************)
(* What a subscription promises its subscriber: from the moment it listens, *)
(* every event in the order they were published, none twice and none left   *)
(* out, until it says that it missed some, or that it failed, or ends.      *)
(* After either it says nothing but that it has ended.                      *)
(*                                                                         *)
(* An event is its number in the order of publication.                      *)
(***************************************************************************)
EXTENDS Naturals, Sequences

CONSTANTS
  Subscriber,
  Missed, Failed,   \* the responses in place of an event: it fell behind, or an error
  Completed         \* the frame that ends a subscription

VARIABLES
  published,  \* how many events there have been
  state,      \* per subscriber, where its subscription is
  next,       \* per subscriber that listens, the event it is to hear next
  told        \* per subscriber, the frames its subscription has sent it

vars == <<published, state, next, told>>

Init ==
  /\ published = 0
  /\ state = [s \in Subscriber |-> "out"]
  /\ next = [s \in Subscriber |-> 0]
  /\ told = [s \in Subscriber |-> <<>>]

Publish ==
  /\ published' = published + 1
  /\ UNCHANGED <<state, next, told>>

\* s subscribes; it listens at once, or later.
Join(s) ==
  /\ state[s] = "out"
  /\ told' = [told EXCEPT ![s] = <<>>]
  /\ UNCHANGED published
  /\ \/ state' = [state EXCEPT ![s] = "waiting"] /\ UNCHANGED next
     \/ /\ state' = [state EXCEPT ![s] = "listening"]
        /\ \E n \in 1..(published + 1) : next' = [next EXCEPT ![s] = n]

\* Those who wait for one stream all listen from the event after the last.
Listen(S) ==
  /\ \A s \in S : state[s] = "waiting"
  /\ state' = [s \in Subscriber |-> IF s \in S THEN "listening" ELSE state[s]]
  /\ next' = [s \in Subscriber |-> IF s \in S THEN published + 1 ELSE next[s]]
  /\ UNCHANGED <<published, told>>

Hear(s) ==
  /\ state[s] = "listening"
  /\ next[s] <= published
  /\ told' = [told EXCEPT ![s] = Append(@, next[s])]
  /\ next' = [next EXCEPT ![s] = @ + 1]
  /\ UNCHANGED <<published, state>>

\* s is told that it may have missed events, or that it failed.
Break(s) ==
  /\ state[s] \in {"waiting", "listening"}
  /\ \E f \in {Missed, Failed} : told' = [told EXCEPT ![s] = Append(@, f)]
  /\ state' = [state EXCEPT ![s] = "broken"]
  /\ next' = [next EXCEPT ![s] = 0]
  /\ UNCHANGED published

Complete(s) ==
  /\ state[s] # "out"
  /\ told' = [told EXCEPT ![s] = Append(@, Completed)]
  /\ state' = [state EXCEPT ![s] = "out"]
  /\ next' = [next EXCEPT ![s] = 0]
  /\ UNCHANGED published

\* s unsubscribes, or its connection goes: it is told nothing more.
Leave(s) ==
  /\ state[s] # "out"
  /\ state' = [state EXCEPT ![s] = "out"]
  /\ next' = [next EXCEPT ![s] = 0]
  /\ told' = [told EXCEPT ![s] = <<>>]
  /\ UNCHANGED published

Next ==
  \/ Publish
  \/ \E S \in SUBSET Subscriber : Listen(S)
  \/ \E s \in Subscriber :
       Join(s) \/ Hear(s) \/ Break(s) \/ Complete(s) \/ Leave(s)

Spec == Init /\ [][Next]_vars
=============================================================================
