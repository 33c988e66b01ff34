SPECIFICATION Spec
CONSTANTS
  Thread = {t1, t2}
  Initial = 2
  MaxNode = 5
  NoThread = NoThread
INVARIANTS TypeOK FreedUnusedApart ListWhole NothingMissed
CHECK_DEADLOCK FALSE
