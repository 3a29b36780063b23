CONSTANTS
  t1 = t1
  t2 = t2
  p1 = p1
  p2 = p2
  NoTask = NoTask
  NoProc = NoProc
  Tasks <- OneTask
  Procs <- OneProc
  Backend = "memory"
  Durable = TRUE
  Unreadable <- NoTasks
  SameProcessRestart = FALSE
  MaxRestarts = 0
  MaxDbFaults = 1
  MaxQueueFaults = 0
SPECIFICATION FairSpec
CHECK_DEADLOCK FALSE
PROPERTY EventuallySettled
