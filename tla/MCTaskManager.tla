---------------------------- MODULE MCTaskManager ----------------------------
(* Model values for TaskManager.  Tasks may be exchanged where no task is   *)
(* singled out (Unreadable empty) and no liveness is checked.               *)
EXTENDS TaskManager, TLC

CONSTANTS t1, t2, p1, p2

OneTask    == {t1}
TwoTasks   == {t1, t2}
OneProc    == {p1}
TwoProcs   == {p1, p2}
NoTasks    == {}
Second     == {t2}

TaskSymmetry == Permutations(Tasks)
PairSymmetry == Permutations(Tasks) \cup Permutations(Procs)
==============================================================================
