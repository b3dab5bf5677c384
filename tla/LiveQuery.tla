------------------------------ MODULE LiveQuery ------------------------------
(***************************************************************************)
(* The live list of the generated TypeScript client (ash-typescript's       *)
(* live.rs, ashLiveQuery and AshSubscriptionClient): a list read over HTTP, *)
(* kept by three subscriptions - records created, updated and destroyed -   *)
(* that share one WebSocket, each a Feed of its own on the server.          *)
(*                                                                         *)
(* A change commits and is published after, as Notifications describes, so  *)
(* two may be published in the other order.  A record is the number of the  *)
(* change that made it; the list's order is left out.  Keys are never used  *)
(* again.  A frame's way from the pubsub to its handler is one step, and    *)
(* the subscriptions' frames may overtake one another on it, as their tasks *)
(* do while they load a record.                                             *)
(***************************************************************************)
EXTENDS Naturals, Sequences, FiniteSets, FiniteSetsExt, SequencesExt

CONSTANTS
  MaxKey,     \* the keys are 1..MaxKey, in the list's order
  Limit,      \* how many records a page holds
  Lists,      \* the kinds of list to run
  MaxChange,  \* bound: changes made
  MaxBreak    \* bound: connections and subscriptions lost, and reads that fail

\* A page has a limit.  A told list is one whose filter and sort the client can
\* evaluate, though not on every record; an untold one it cannot.
ListKind == {"paged", "told", "untold"}

ASSUME BoundsAssumption ==
  MaxKey \in Nat \ {0} /\ Limit \in Nat /\ MaxChange \in Nat \ {0} /\ MaxBreak \in Nat
ASSUME ListsAssumption == Lists \subseteq ListKind

Key    == 1..MaxKey
Kind   == {"created", "updated", "destroyed"}
\* The record a change leaves is in the list, or outside its filter, or hidden from
\* this client: by its policies, its tenant, or a read that leaves out the archived.
\* One created outside the filter is told to nobody, hidden or not; and a destroy
\* that is hidden is to this client an update that is.
Change ==
  [kind : {"created"}, key : Key, where : {"in", "out"}]
    \cup [kind : {"updated"}, key : Key, where : {"in", "out", "hidden"}]
    \cup [kind : {"destroyed"}, key : Key, where : {"out"}]
None   == 0                                        \* no change; no record of a key

VARIABLES
  list,       \* the kind of list
  log,        \* the changes, in the order they committed
  published,  \* the changes published
  feed,       \* per subscription, where it is on the server and the client
  queue,      \* per subscription, the changes it has yet to tell the list of
  connected,  \* the connection is acknowledged
  items,      \* per key, the record the list holds
  reading,    \* the read under way: "no", "asked", "answered" or "failed"
  answer,     \* how many changes had committed when the read was answered
  stale,      \* the read under way is to be made again
  timer,      \* a read is scheduled
  stopped,    \* the list was stopped
  breaks,     \* what has been lost
  base,       \* (history) how many changes the last read to arrive had seen
  failed,     \* (history) the last read to end failed
  heard,      \* (history) the changes the list has been told of
  after,      \* (history) per key, the last change it was told of since the
              \* last read was asked for
  unread      \* (history) a subscription was asked for since the last read was

server  == <<log, published>>
reads   == <<reading, answer, base, failed>>
history == <<heard, after, unread>>
vars == <<list, server, feed, queue, connected, items, reads, stale, timer,
          stopped, breaks, history>>

-----------------------------------------------------------------------------
(* What the server holds.                                                   *)

\* The last of the first n changes that was made to k.
LastOf(k, n) ==
  LET made == {e \in 1..n : log[e].key = k} IN IF made = {} THEN None ELSE Max(made)

\* The record of change e, if the list is to hold it.
Shown(e) == IF e = None \/ log[e].where # "in" THEN None ELSE e

\* What a read sees after n changes: a page is the first records of the list.
ListAt(n) ==
  LET all == [k \in Key |-> Shown(LastOf(k, n))]
  IN [k \in Key |->
        IF list = "paged" /\ Cardinality({j \in 1..(k - 1) : all[j] # None}) >= Limit
          THEN None ELSE all[k]]

Exists(k) == LastOf(k, Len(log)) # None /\ log[LastOf(k, Len(log))].kind # "destroyed"

-----------------------------------------------------------------------------
\* One record is there already, and the client may be connected for another
\* list: the list subscribes to what it can, and asks for its first read.
Init ==
  /\ list \in Lists
  /\ log = <<[kind |-> "created", key |-> 1, where |-> "in"]>>
  /\ published = {1}
  /\ connected \in BOOLEAN
  /\ feed = [s \in Kind |-> IF connected THEN "asked" ELSE "off"]
  /\ queue = [s \in Kind |-> <<>>]
  /\ items = [k \in Key |-> None]
  /\ reading = "asked"
  /\ answer = 0
  /\ stale = FALSE /\ timer = FALSE /\ stopped = FALSE
  /\ breaks = 0
  /\ base = 0 /\ failed = FALSE
  /\ heard = {}
  /\ after = [k \in Key |-> None]
  /\ unread = FALSE

\* An action commits.  A create that upserts may find its record there already.
Commit(c) ==
  /\ Len(log) < MaxChange
  /\ Exists(c.key) \/ (c.kind = "created" /\ LastOf(c.key, Len(log)) = None)
  /\ log' = Append(log, c)
  /\ UNCHANGED <<list, published, feed, queue, connected, items, reads, stale, timer,
                 stopped, breaks, history>>

\* What a subscription lets through: a record its client may read; and of what is
\* created, upserts included, only what the list's filter does.
Tells(e) == log[e].where = "in" \/ (log[e].where = "out" /\ log[e].kind # "created")

\* Its notification is published, to the subscription to its kind if that is live.
Publish(e) ==
  /\ e \notin published
  /\ published' = published \cup {e}
  /\ queue' = [s \in Kind |->
                 IF feed[s] = "live" /\ log[e].kind = s /\ Tells(e)
                   THEN Append(queue[s], e) ELSE queue[s]]
  /\ UNCHANGED <<list, log, feed, connected, items, reads, stale, timer, stopped,
                 breaks, history>>

-----------------------------------------------------------------------------
(* Reading the list.                                                        *)

\* A read is asked for: what the list was told before it, the read will see.
Ask == reading' = "asked" /\ after' = [k \in Key |-> None]

\* (history) What a step asks for, subscriptions first: a read that is asked for
\* comes after every subscription there was.
Noted ==
  unread' = /\ unread \/ \E s \in Kind : feed[s] # "asked" /\ feed'[s] = "asked"
            /\ reading = "asked" \/ reading' # "asked"

\* refresh: the read under way, if there is one, is made again once it is done.
Refresh ==
  IF stopped THEN UNCHANGED <<reading, after, stale>>
  ELSE IF reading # "no" THEN stale' = TRUE /\ UNCHANGED <<reading, after>>
  ELSE Ask /\ UNCHANGED stale

\* The server answers, or the read is lost.
Answer ==
  /\ reading = "asked"
  /\ reading' = "answered"
  /\ answer' = Len(log)
  /\ UNCHANGED <<list, server, feed, queue, connected, items, base, failed, stale,
                 timer, stopped, breaks, history>>

LoseRead ==
  /\ reading \in {"asked", "answered"}
  /\ breaks < MaxBreak
  /\ breaks' = breaks + 1
  /\ reading' = "failed"
  /\ UNCHANGED <<list, server, feed, queue, connected, items, answer, base, failed,
                 stale, timer, stopped, history>>

\* Mutant: a read that fails is never done with.
ArriveOrHang ==
  /\ reading = "answered"
  /\ failed' = FALSE
  /\ items' = ListAt(answer) /\ base' = answer
  /\ IF stale /\ ~stopped THEN Ask ELSE reading' = "no" /\ UNCHANGED after
  /\ stale' = FALSE
  /\ answer' = 0
  /\ UNCHANGED <<list, server, feed, queue, connected, timer, stopped, breaks, heard>>
  /\ Noted

\* The read arrives: its list takes the place of this one, or its error is
\* told; and a stale one is made again.
Arrive ==
  /\ reading \in {"answered", "failed"}
  /\ failed' = (reading = "failed")
  /\ IF reading = "answered" THEN items' = ListAt(answer) /\ base' = answer
                             ELSE UNCHANGED <<items, base>>
  /\ IF stale /\ ~stopped THEN Ask ELSE reading' = "no" /\ UNCHANGED after
  /\ stale' = FALSE
  /\ answer' = 0
  /\ UNCHANGED <<list, server, feed, queue, connected, timer, stopped, breaks, heard>>
  /\ Noted

\* The scheduled read.
Ring ==
  /\ timer
  /\ timer' = FALSE
  /\ Refresh
  /\ UNCHANGED <<list, server, feed, queue, connected, items, answer, base, failed,
                 stopped, breaks, heard>>
  /\ Noted

-----------------------------------------------------------------------------
(* A change arrives.                                                        *)

\* Mutant: while a read is under way nothing is scheduled.
ResyncLater == timer' = (timer \/ reading = "no") /\ UNCHANGED stale

\* resync: the list reads itself shortly after, and again if it is reading now.
Resync == timer' = TRUE /\ stale' = (stale \/ reading # "no")

\* Mutant: a change placed while a read is under way is left to it.
PlacedOnly == UNCHANGED <<stale, timer>>

\* placed: a read under way may be older than what was placed.
Placed == stale' = (stale \/ reading # "no") /\ UNCHANGED timer

Put(k, r) == items' = [items EXCEPT ![k] = r]

\* onCreated and onUpdated: the record goes where the server would put it, if
\* the client can tell; else one the list holds is patched, if it was updated.
Upsert(e, tells) ==
  IF tells THEN Put(log[e].key, Shown(e)) /\ Placed
  ELSE /\ IF log[e].kind = "updated" /\ items[log[e].key] # None
            THEN Put(log[e].key, e) ELSE UNCHANGED items
       /\ Resync

\* onDestroyed.
TakeOut(e) ==
  /\ Put(log[e].key, None)
  /\ IF list = "paged" THEN Resync ELSE Placed

\* A frame reaches its handler.
Deliver(s) ==
  /\ queue[s] # <<>>
  /\ queue' = [queue EXCEPT ![s] = Tail(@)]
  /\ LET e == Head(queue[s])
     IN /\ heard' = heard \cup {e}
        /\ after' = [after EXCEPT ![log[e].key] = e]
        /\ \/ s = "destroyed" /\ TakeOut(e)
           \/ /\ s # "destroyed"
              /\ \E tells \in {FALSE, list = "told"} : Upsert(e, tells)
  /\ UNCHANGED <<list, server, feed, connected, reads, stopped, breaks, unread>>

-----------------------------------------------------------------------------
(* The connection and the subscriptions.                                    *)

\* A subscription asked for listens, from what is published next.
Listen(s) ==
  /\ feed[s] = "asked"
  /\ feed' = [feed EXCEPT ![s] = "live"]
  /\ UNCHANGED <<list, server, queue, connected, items, reads, stale, timer, stopped,
                 breaks, history>>

\* connection_ack: everything is subscribed, and the list is read.
Acknowledge ==
  /\ ~connected /\ ~stopped
  /\ connected' = TRUE
  /\ feed' = [s \in Kind |-> "asked"]
  /\ Refresh
  /\ UNCHANGED <<list, server, queue, items, answer, base, failed, timer, stopped,
                 breaks, heard>>
  /\ Noted

\* Mutant: what a lost connection had brought is still heard.
DropLate ==
  /\ connected /\ ~stopped
  /\ breaks < MaxBreak
  /\ breaks' = breaks + 1
  /\ connected' = FALSE
  /\ feed' = [s \in Kind |-> IF feed[s] = "ended" THEN "ended" ELSE "off"]
  /\ UNCHANGED <<list, server, queue, items, reads, stale, timer, stopped, history>>

\* The connection is lost, with every frame on its way.  What waited to restart
\* still does: its timer finds the connection gone.
Drop ==
  /\ connected /\ ~stopped
  /\ breaks < MaxBreak
  /\ breaks' = breaks + 1
  /\ connected' = FALSE
  /\ feed' = [s \in Kind |-> IF feed[s] = "ended" THEN "ended" ELSE "off"]
  /\ queue' = [s \in Kind |-> <<>>]
  /\ UNCHANGED <<list, server, items, reads, stale, timer, stopped, history>>

\* The server ends a subscription: it fell behind, or its stream ended.  The
\* client hears MISSED_EVENTS or nothing, then complete, and sets a timer.
End(s) ==
  /\ feed[s] = "live"
  /\ breaks < MaxBreak
  /\ breaks' = breaks + 1
  /\ feed' = [feed EXCEPT ![s] = "ended"]
  /\ queue' = [queue EXCEPT ![s] = <<>>]
  /\ UNCHANGED <<list, server, connected, items, reads, stale, timer, stopped,
                 history>>

\* Mutant: a subscription is restarted without a word to the list.
RestartSilently(s) ==
  /\ feed[s] = "ended"
  /\ feed' = [feed EXCEPT ![s] = IF connected THEN "asked" ELSE "off"]
  /\ UNCHANGED <<list, server, queue, connected, items, reads, stale, timer,
                 stopped, breaks, heard, after>>
  /\ Noted

\* Its timer: if still connected, it is subscribed again and the list is told
\* that it missed events, which reads it.
Restart(s) ==
  /\ feed[s] = "ended"
  /\ IF connected
       THEN feed' = [feed EXCEPT ![s] = "asked"] /\ Refresh
       ELSE feed' = [feed EXCEPT ![s] = "off"] /\ UNCHANGED <<reading, after, stale>>
  /\ UNCHANGED <<list, server, queue, connected, items, answer, base, failed, timer,
                 stopped, breaks, heard>>
  /\ Noted

\* stop.
Stop ==
  /\ ~stopped
  /\ stopped' = TRUE
  /\ timer' = FALSE
  /\ feed' = [s \in Kind |-> "off"]
  /\ queue' = [s \in Kind |-> <<>>]
  /\ UNCHANGED <<list, server, connected, items, reads, stale, breaks, history>>

-----------------------------------------------------------------------------
\* What goes on by itself.
Proceed ==
  \/ \E e \in 1..Len(log) : Publish(e)
  \/ Answer \/ Arrive \/ Ring \/ Acknowledge
  \/ \E s \in Kind : Deliver(s) \/ Listen(s) \/ Restart(s)

Next ==
  \/ \E c \in Change : Commit(c)
  \/ Proceed
  \/ LoseRead \/ Drop \/ Stop
  \/ \E s \in Kind : End(s)

Spec == Init /\ [][Next]_vars

\* What is published is delivered, a read is answered or fails, a timer rings,
\* and a dropped connection is made again until it is acknowledged.
Fairness == WF_vars(Proceed)

FairSpec == Spec /\ Fairness

-----------------------------------------------------------------------------
(* Properties.                                                              *)

\* What each variable holds.
TypeOK ==
  /\ list \in Lists
  /\ log \in Seq(Change) /\ Len(log) <= MaxChange
  /\ published \subseteq 1..Len(log)
  /\ feed \in [Kind -> {"off", "asked", "live", "ended"}]
  /\ queue \in [Kind -> Seq(published \ heard)]
  /\ \A s \in Kind : queue[s] # <<>> => feed[s] = "live"
  /\ connected \in BOOLEAN
  /\ items \in [Key -> 0..Len(log)]
  /\ \A k \in Key : items[k] # None => log[items[k]].key = k
  /\ reading \in {"no", "asked", "answered", "failed"}
  /\ answer \in 0..Len(log) /\ base \in 0..Len(log)
  /\ {stale, timer, stopped, failed, unread} \subseteq BOOLEAN
  /\ breaks \in 0..MaxBreak
  /\ heard \subseteq published
  /\ after \in [Key -> {None} \cup heard]

\* Nothing is on its way: the list is read, connected and listening.
Settled ==
  /\ ~stopped
  /\ published = 1..Len(log)
  /\ reading = "no" /\ ~timer
  /\ \A s \in Kind : feed[s] = "live" /\ queue[s] = <<>>

\* A change that leaves nothing to show of a record there was nothing to show of.
Void(e) == Shown(e) = None /\ Shown(LastOf(log[e].key, e - 1)) = None

\* No change fell between: each one the last read to arrive had not seen was
\* heard, or is void.  Some are heard by nobody that take a record out of the list:
\* an upsert that leaves its filter, and a change the client may not read what
\* came of.  A list that is told neither is not exact until it reads again.
NoneMissed ==
  \A e \in (base + 1)..Len(log) : e \in heard \/ Void(e)

Latest(k) == LastOf(k, Len(log))

\* A list the client cannot tell about, or a page, is the server's list once it
\* has settled, in whatever order its frames came (live.rs, "Any other change
\* patches the records the list holds and the list re-reads itself") - unless a
\* change was made after its read and before its subscriptions were live, or was
\* told to nobody, or its last read failed.
ReReadsCatchUp ==
  Settled /\ ~failed /\ NoneMissed /\ list # "told" => items = ListAt(Len(log))

\* A list kept by placing is too, but for the keys whose frames came out of
\* their order after its last read.
PlacedIsExact ==
  Settled /\ ~failed /\ NoneMissed /\ list = "told" =>
    \A k \in Key :
      after[k] \in {None, Latest(k)} => items[k] = Shown(Latest(k))

\* A list whose last read came through asked for it after it last subscribed to
\* anything, connected or told that it missed events (live.rs, "reads the list,
\* and reads it again whenever the connection is acknowledged"; "If it misses
\* events [...] it re-reads straight away"): a read under way as it subscribes,
\* that may be older, is followed by another.
ReadsAfterSubscribing == Settled /\ ~failed => ~unread

\* A list settles once nothing more is lost and nothing changes, whatever was:
\* no read, timer or restart waits for one that never comes.
ListSettles == <>[](stopped \/ Settled)
=============================================================================
