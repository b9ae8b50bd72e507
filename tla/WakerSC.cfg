\* Two wakers and two addresses: a box may be freed and another allocated at
\* its address between the two compare_exchanges of a waker (ABA).
SPECIFICATION Spec
CONSTANTS
  Wakers = {w1, w2}
  Addr = {a1, a2}
  PoolThreads = 2
  NOT_WOKEN = NOT_WOKEN
  WOKEN = WOKEN
  NULL = NULL
  StoreBuffered = FALSE
INVARIANTS
  TypeOK
  BoxOwnership
  TaskNeverDropped
  CellOutlivesUse
  NoLostWake
PROPERTIES
  WakeLeadsToPoll
  ImplementsContract
CHECK_DEADLOCK FALSE
