\* Two tasks, run_async and three static tasks; close is called twice by
\* tasks, the handle is drained or dropped at any time.
SPECIFICATION WorkerSpec
CONSTANTS
  Futures = {r, s1, s2, s3}
  RunAsync = r
  Tasks = {t1, t2}
  MaxCloses = 2
INVARIANTS
  WorkerTypeOK
  NeverClosedEarly
  CloseInfoExact
  OpenWhileHeld
PROPERTIES
  DrainReturns
  ClosesAfterDrop
CHECK_DEADLOCK FALSE
