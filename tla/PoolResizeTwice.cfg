\* Grow from one thread to two, then ask for one again.
SPECIFICATION Spec
CONSTANTS
  Workers = {w1, w2}
  Initial = {w1}
  Tasks = {t1}
  StaticTasks = {}
  MayPanic = {}
  Sizes = {1, 2}
  MaxResizes = 2
  MaxPolls = 1
  NEW_TASK = NEW_TASK
  NOT_WOKEN = NOT_WOKEN
  WOKEN = WOKEN
  BOX = BOX
  NULL = NULL
INVARIANT PoolReachesSize
CHECK_DEADLOCK FALSE
