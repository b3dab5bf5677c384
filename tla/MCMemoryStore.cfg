\* Two transactions, side by side or nested, beside direct writes to one table.
CONSTANTS
  MaxKey = 2
  email = email
  handle = handle
  a = a
  b = b
  nobody = nobody
  Identity = {email}
  IdValue = {a}
  Null = nobody
  Absent = Absent
  NilsDistinct <- NilsNeverCollide
  UpsertFields <- ListedOrNone
  Initial <- OneRow
  Root = Root
  Txn = {t1, t2}
  MaxN = 2
  MaxCalls = 3
SPECIFICATION Spec
INVARIANTS
  TypeOK
  NoLostIncrement
  UniqueUntilCommit
PROPERTY UncontendedCommitIsExact
SYMMETRY Symmetry
CHECK_DEADLOCK FALSE
