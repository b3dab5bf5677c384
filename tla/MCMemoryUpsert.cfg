\* One store and two identities: an upsert on one writes the other's columns.
CONSTANTS
  MaxKey = 2
  email = email
  handle = handle
  a = a
  b = b
  nobody = nobody
  Identity = {email, handle}
  IdValue = {a, b}
  Null = nobody
  Absent = Absent
  NilsDistinct <- NilsNeverCollide
  UpsertFields <- ListedOrNone
  Initial <- NoRows
  Root = Root
  Txn = {}
  MaxN = 0
  MaxCalls = 3
SPECIFICATION Spec
INVARIANT IdentitiesUnique
CHECK_DEADLOCK FALSE
