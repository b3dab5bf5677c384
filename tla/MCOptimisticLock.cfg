\* Two callers race on one record with two related records, on every layer.
CONSTANTS
  Client = {c1, c2}
  Related = {r1, r2}
  Layers <- AllLayers
  Absent = Absent
  MaxVersion = 3
SPECIFICATION FairSpec
INVARIANTS
  TypeOK
  CopiesTrail
  FailuresAreTrue
  RelatedGoWithTheRecord
PROPERTIES
  LockedWritesOnly
  AttemptsReturn
