\* A task spawns a static task and ends; drain waits for the task only.
SPECIFICATION WorkerSpec
CONSTANTS
  Futures = {r, s1}
  RunAsync = r
  Tasks = {t1}
  MaxCloses = 0
INVARIANT DrainCoversStatic
CHECK_DEADLOCK FALSE
