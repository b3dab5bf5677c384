\* Two keys, a page of one record, three changes, and one thing lost.
SPECIFICATION FairSpec
CONSTANTS
  MaxKey = 2
  Limit = 1
  Lists = {"paged", "told", "untold"}
  MaxChange = 3
  MaxBreak = 1
INVARIANTS TypeOK ReReadsCatchUp PlacedIsExact ReadsAfterSubscribing
PROPERTY ListSettles
CHECK_DEADLOCK FALSE
