SPECIFICATION FairSpec
CONSTANTS
  Producer = {p1, p2}
  minNum = 1
  maxNum = 2
  queueCapacity = 2
  NumTasks = 3
INVARIANTS TypeOK BusyExact LiveExact AddersWoken
PROPERTIES KeepsPromise DestroyEndsOrAwaits TasksRunIfAllStay
CHECK_DEADLOCK FALSE
