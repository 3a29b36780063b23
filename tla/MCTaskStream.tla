----------------------------- MODULE MCTaskStream -----------------------------
(* Model values for TaskStream, and one bound on clients and restarts together: *)
(* two clients over one restart of the process, or one client over two.         *)
EXTENDS TaskStream, TLC

CONSTANTS t1, t2, p1, p2, s1, s2, MaxTogether

OneTask    == {t1}
TwoTasks   == {t1, t2}
OneProc    == {p1}
TwoProcs   == {p1, p2}
NoTasks    == {}
OneStream  == {s1}
TwoStreams == {s1, s2}

\* It holds back crashes, stops and new clients only, which nothing has to be fair to.
Together == restarts' + Cardinality({s \in Streams : sub'[s] # "new"}) <= MaxTogether

MCFairSpec == StreamInit /\ [][StreamNext /\ Together]_allVars /\ StreamFairness
==============================================================================
