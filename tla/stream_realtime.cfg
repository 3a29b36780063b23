CONSTANTS
  t1 = t1
  t2 = t2
  p1 = p1
  p2 = p2
  s1 = s1
  s2 = s2
  NoTask = NoTask
  NoProc = NoProc
  Tasks <- OneTask
  Procs <- OneProc
  Streams <- OneStream
  Backend = "memory"
  Durable = TRUE
  Unreadable <- NoTasks
  SameProcessRestart = FALSE
  MaxRestarts = 0
  MaxTogether = 1
  MaxDbFaults = 0
  MaxQueueFaults = 0
SPECIFICATION StreamSpec
CHECK_DEADLOCK FALSE
PROPERTY RunningIsLive
