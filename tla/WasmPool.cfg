\* A pool that grows and shrinks, and a task whose wakers are called once
\* more than it waits for: again, in a later poll or after the last one.
SPECIFICATION Spec
CONSTANTS
  Workers = {w1, w2}
  Initial = {w1}
  Tasks = {t1}
  Sizes = {1, 2}
  MaxResizes = 2
  MaxPolls = 3
  MaxExtra = 1
  NULL = NULL
INVARIANTS
  TypeOK
  OneOwner
  WokenIsResumed
  CounterExact
  PoolReachesSize
PROPERTIES
  ImplementsExecutor
  TasksFinish
  WorkersLeave
CHECK_DEADLOCK FALSE
