\* One thread in drain, one task awaiting drain_async.
SPECIFICATION Spec
CONSTANTS
  Tasks = {t1, t2, t3}
  Sync = {s1}
  Async = {d1}
  NULL = NULL
INVARIANTS
  TypeOK
  CountsLive
  DrainCoversDescendants
  PendingWillBeWoken
PROPERTY DrainCompletes
CHECK_DEADLOCK FALSE
