CONSTANTS
  t1 = t1
  t2 = t2
  p1 = p1
  p2 = p2
  NoTask = NoTask
  NoProc = NoProc
  Tasks <- TwoTasks
  Procs <- OneProc
  Backend = "redis"
  Durable = TRUE
  Unreadable <- Second
  SameProcessRestart = TRUE
  MaxRestarts = 2
  MaxDbFaults = 2
  MaxQueueFaults = 0
SPECIFICATION FairSpec
CHECK_DEADLOCK FALSE
INVARIANT NoTaskLost
PROPERTY EventuallyAnswered
