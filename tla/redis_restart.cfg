CONSTANTS
  t1 = t1
  t2 = t2
  p1 = p1
  p2 = p2
  NoTask = NoTask
  NoProc = NoProc
  Tasks <- OneTask
  Procs <- OneProc
  Backend = "redis"
  Durable = TRUE
  Unreadable <- NoTasks
  SameProcessRestart = FALSE
  MaxRestarts = 1
  MaxDbFaults = 0
  MaxQueueFaults = 0
SPECIFICATION Spec
CHECK_DEADLOCK FALSE
PROPERTY TerminalIsFinal
