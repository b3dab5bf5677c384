\* A transaction and a direct write store the same identity value.
CONSTANTS
  MaxKey = 2
  email = email
  handle = handle
  a = a
  b = b
  nobody = nobody
  Identity = {email}
  IdValue = {a, b}
  Null = nobody
  Absent = Absent
  NilsDistinct <- NilsNeverCollide
  UpsertFields <- ListedOrNone
  Initial <- NoRows
  Root = Root
  Txn = {t1}
  MaxN = 0
  MaxCalls = 2
SPECIFICATION Spec
INVARIANT IdentitiesUnique
CHECK_DEADLOCK FALSE
