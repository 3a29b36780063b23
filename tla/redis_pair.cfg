CONSTANTS
  t1 = t1
  t2 = t2
  p1 = p1
  p2 = p2
  NoTask = NoTask
  NoProc = NoProc
  Tasks <- OneTask
  Procs <- TwoProcs
  Backend = "redis"
  Durable = TRUE
  Unreadable <- NoTasks
  SameProcessRestart = TRUE
  MaxRestarts = 2
  MaxDbFaults = 2
  MaxQueueFaults = 1
SPECIFICATION Spec
CHECK_DEADLOCK FALSE
SYMMETRY PairSymmetry
INVARIANTS TypeOK RunsBounded AckedIsDurable
