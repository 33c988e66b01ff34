SPECIFICATION FairSpec
CONSTANTS
  Producer = {p1}
  minNum = 1
  maxNum = 2
  queueCapacity = 2
  NumTasks = 3
PROPERTIES TasksRun
CHECK_DEADLOCK FALSE
