SPECIFICATION Spec
CONSTANTS
  t1 = t1
  t2 = t2
  Tasks <- MCTasks
  NoTask = NoTask
  MaxHistoryTasks = 1
  MaxCaptureFiles = 1
INVARIANT ShutdownWaits
