\* The last handle is dropped while a task is suspended or woken.
SPECIFICATION Spec
CONSTANTS
  Workers = {w1}
  Initial = {w1}
  Tasks = {t1}
  Sizes = {}
  MaxResizes = 0
  MaxPolls = 2
  MaxExtra = 0
  NULL = NULL
INVARIANT ExitsCleanly
CHECK_DEADLOCK FALSE
