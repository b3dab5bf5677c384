\* Three versions, the first without a down script, three calls, one crash.
SPECIFICATION FairSpec
CONSTANTS
  m1 = m1
  m2 = m2
  Migrators = {m1, m2}
  None = None
  Sites <- MCSites
  Files <- MCFiles
  Downs = {2, 3}
  MaxVersion = 3
  MaxCall = 3
  MaxCrash = 1
INVARIANTS
  TypeOK
  ScriptsAreRecorded
  RunMissesNothing
PROPERTIES
  TargetIsKept
  HistoryIsKept
  CallsReturn
CHECK_DEADLOCK FALSE
