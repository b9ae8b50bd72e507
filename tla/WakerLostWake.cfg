\* One waking thread is enough to lose a wake to a delayed reset.
SPECIFICATION Spec
CONSTANTS
  Wakers = {w1}
  Addr = {a1, a2}
  PoolThreads = 2
  NOT_WOKEN = NOT_WOKEN
  WOKEN = WOKEN
  NULL = NULL
  StoreBuffered = TRUE
INVARIANT NoLostWake
CHECK_DEADLOCK FALSE
