SPECIFICATION Spec
CONSTANTS
  Thread = {t1, t2}
  Initial = 2
  MaxNode = 3
  NoThread = NoThread
INVARIANT FreedUnused
CHECK_DEADLOCK FALSE
