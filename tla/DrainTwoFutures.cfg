\* Two clones of an executor, each awaited with drain_async.
SPECIFICATION Spec
CONSTANTS
  Tasks = {t1}
  Sync = {}
  Async = {d1, d2}
  NULL = NULL
PROPERTY DrainCompletes
CHECK_DEADLOCK FALSE
