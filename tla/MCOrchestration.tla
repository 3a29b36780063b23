--------------------------- MODULE MCOrchestration ---------------------------
(* Small instances of Orchestration: a mail and a web search, a statement by a    *)
(* role no tool lists, and a file, all of one session.                            *)
EXTENDS Orchestration, TLC

CONSTANTS j1, j2, j3

Ask == [payload |-> "none", type |-> "automation", words |-> {"email", "search"},
        auto |-> TRUE, role |-> "employee", session |-> "s1"]

OneJob  == {j1}
AllJobs == {j1, j2, j3}

Asked   == j1 :> Ask
           @@ j2 :> [Ask EXCEPT !.payload = "database", !.role = "other"]
           @@ j3 :> [Ask EXCEPT !.payload = "file"]
AskedOnce == [j \in OneJob |-> Ask]
==============================================================================
