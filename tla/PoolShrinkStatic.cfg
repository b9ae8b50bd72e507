\* Shrink from two threads to one while a static task is suspended.
SPECIFICATION Spec
CONSTANTS
  Workers = {w1, w2}
  Initial = {w1, w2}
  Tasks = {t1}
  StaticTasks = {s1}
  MayPanic = {}
  Sizes = {1}
  MaxResizes = 1
  MaxPolls = 2
  NEW_TASK = NEW_TASK
  NOT_WOKEN = NOT_WOKEN
  WOKEN = WOKEN
  BOX = BOX
  NULL = NULL
PROPERTY DrainReturns
CHECK_DEADLOCK FALSE
