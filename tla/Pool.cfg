\* Two workers, no resize, no panic; the executor may be dropped at any time.
SPECIFICATION Spec
CONSTANTS
  Workers = {w1, w2}
  Initial = {w1, w2}
  Tasks = {t1}
  StaticTasks = {s1, s2}
  MayPanic = {}
  Sizes = {}
  MaxResizes = 0
  MaxPolls = 2
  NEW_TASK = NEW_TASK
  NOT_WOKEN = NOT_WOKEN
  WOKEN = WOKEN
  BOX = BOX
  NULL = NULL
INVARIANTS
  TypeOK
  OneOwner
  StaticOwner
  ReadyAnnounced
  CounterExact
  QueuedRunBeforeExit
PROPERTIES
  TasksFinish
  WorkersExit
  ImplementsContract
CHECK_DEADLOCK FALSE
