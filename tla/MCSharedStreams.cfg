\* Two subscribers, whose subscriptions come and go, and buffers of one event.
SPECIFICATION FairSpec
CONSTANTS
  Subscriber = {s1, s2}
  Missed = Missed
  Failed = Failed
  Completed = Completed
  PubSubBuffer = 1
  SharedBuffer = 1
  MaxEvent = 2
  MaxStream = 2
INVARIANTS TypeOK OneExecution NobodyIsStranded
PROPERTIES Promised EventsAreHeard
CHECK_DEADLOCK FALSE
