\* A Multi run within a transaction.
CONSTANTS
  Inside <- MultiInTransaction
  Swallowed <- ActionsMayFail
  Aborts = FALSE
  MaxDepth = 2
  MaxWrites = 2
SPECIFICATION Spec
INVARIANT SentIsCommitted
