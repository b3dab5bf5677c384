\* A bulk action whose batch fails, as a step of a Multi.
CONSTANTS
  Inside <- BatchesInMulti
  Swallowed <- BatchesMayFail
  Aborts = FALSE
  MaxDepth = 2
  MaxWrites = 2
SPECIFICATION Spec
INVARIANT SentIsCommitted
