CONSTANTS
  t1 = t1
  t2 = t2
  p1 = p1
  p2 = p2
  s1 = s1
  s2 = s2
  NoTask = NoTask
  NoProc = NoProc
  Tasks <- TwoTasks
  Procs <- OneProc
  Streams <- TwoStreams
  Backend = "memory"
  Durable = TRUE
  Unreadable <- NoTasks
  SameProcessRestart = FALSE
  MaxRestarts = 2
  MaxTogether = 3
  MaxDbFaults = 0
  MaxQueueFaults = 0
SPECIFICATION MCFairSpec
CHECK_DEADLOCK FALSE
INVARIANTS StreamTypeOK NoMissedTerminal ForwardOnly ToldIsStored Ownership MemoryMatchesStore NoTaskLost RunsBounded
PROPERTIES StreamsEnd TerminalIsFinal EventuallySettled ImplementsLifecycle
