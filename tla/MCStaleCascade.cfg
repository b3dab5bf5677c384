\* On the memory layer, a record moves on while a destroy of it cascades.
CONSTANTS
  Client = {c1, c2}
  Related = {r1}
  Layers <- OnlyMemory
  Absent = Absent
  MaxVersion = 3
SPECIFICATION Spec
INVARIANT StaleKeepsRelated
CHECK_DEADLOCK FALSE
