\* Three rows in one, two or three batches, each option and each kind of action.
SPECIFICATION Spec
CONSTANTS
  N = 3
  Sizes = {1, 2, 3}
  Absent = {1}
INVARIANTS
  TypeOK
  WholeIsAllOrNothing
  CountIsStored
  Accounted
  HooksHear
CHECK_DEADLOCK FALSE
