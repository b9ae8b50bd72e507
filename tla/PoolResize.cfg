\* One resize of a pool of two, up or down; polls may unwind.
SPECIFICATION Spec
CONSTANTS
  Workers = {w1, w2, w3}
  Initial = {w1, w2}
  Tasks = {t1}
  StaticTasks = {s1}
  MayPanic = {t1, s1}
  Sizes = {0, 1, 3}
  MaxResizes = 1
  MaxPolls = 2
  NEW_TASK = NEW_TASK
  NOT_WOKEN = NOT_WOKEN
  WOKEN = WOKEN
  BOX = BOX
  NULL = NULL
INVARIANT PoolReachesSize
PROPERTIES
  ImplementsExecutor
  OthersFinish
  WorkersExit
CHECK_DEADLOCK FALSE
