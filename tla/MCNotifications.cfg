\* Scopes nested three deep around four writes; Multis only on top.
CONSTANTS
  Inside <- MultisOnTop
  Swallowed <- ActionsMayFail
  Aborts = TRUE
  MaxDepth = 3
  MaxWrites = 4
SPECIFICATION Spec
INVARIANTS
  TypeOK
  SentIsCommitted
  SentInOrder
  CommittedIsSent
  FailedIsUndone
