---------------------------- MODULE TaskLifecycle ----------------------------
(***************************************************************************)
(* What the task service promises about one task, with processes, queues   *)
(* and storage left out: "queued -> running -> completed/failed"           *)
(* (docs, section on the task state flow).  A task that was accepted is    *)
(* eventually started, and a task that was started eventually ends.        *)
(* TaskManager implements this module through the persisted task rows.     *)
(***************************************************************************)

CONSTANT Tasks          \* the task ids

VARIABLE status         \* status[t]: where t is in its life

Terminal == {"completed", "failed"}

TypeOK == status \in [Tasks -> {"none", "queued", "running"} \cup Terminal]

Init == status = [t \in Tasks |-> "none"]

Accept(t) == /\ status[t] = "none"
             /\ status' = [status EXCEPT ![t] = "queued"]

Begin(t) == /\ status[t] = "queued"
            /\ status' = [status EXCEPT ![t] = "running"]

Finish(t) == /\ status[t] = "running"
             /\ \E outcome \in Terminal : status' = [status EXCEPT ![t] = outcome]

Next == \E t \in Tasks : Accept(t) \/ Begin(t) \/ Finish(t)

Safety == Init /\ [][Next]_status

Spec == /\ Safety
        /\ \A t \in Tasks : WF_status(Begin(t)) /\ WF_status(Finish(t))

==============================================================================
