----------------------------- MODULE TaskManager -----------------------------
(***************************************************************************)
(* The task service: app/workers/task_worker.py (TaskManager),             *)
(* app/workers/queue_backend.py (the two queues), the status table of      *)
(* app/storage/repositories/task_repo.py, and the submit route.            *)
(*                                                                         *)
(* A process runs one asyncio loop.  Coroutines interleave only where one  *)
(* suspends, so between two suspension points a handler is one step.  The  *)
(* worker calls orchestrator.run and the database synchronously: from the  *)
(* "running" write to the last publish of a task it never suspends, and    *)
(* meanwhile the loop of that process serves nobody (LoopFree).  Only      *)
(* Redis calls really suspend.  Other processes, and crashes, may come in  *)
(* between any two steps.                                                  *)
(***************************************************************************)
EXTENDS Naturals, Sequences, FiniteSets

CONSTANTS
  Tasks,              \* task ids (uuid4, never reused)
  Procs,              \* server processes
  NoTask, NoProc,     \* "nothing there"
  Backend,            \* "memory": one queue per process; "redis": one shared list
  Durable,            \* TRUE: rows in the database; FALSE: TaskRepository._mem
  Unreadable,         \* tasks whose stored request no longer validates on recovery
  SameProcessRestart, \* start() may follow stop() on the same TaskManager object
  MaxRestarts, MaxDbFaults, MaxQueueFaults   \* bounds on what the environment does

ASSUME BackendAssumption == Backend \in {"memory", "redis"}
ASSUME DurableAssumption == Durable \in BOOLEAN /\ SameProcessRestart \in BOOLEAN
ASSUME NullAssumption    == NoTask \notin Tasks /\ NoProc \notin Procs
ASSUME UnreadableAssumption == Unreadable \subseteq Tasks
ASSUME BoundAssumption   == {MaxRestarts, MaxDbFaults, MaxQueueFaults} \subseteq Nat
\* TaskRepository._mem belongs to one process; only the database is shared.
ASSUME StoreAssumption   == Durable \/ \A p, q \in Procs : p = q

VARIABLES
  phase,      \* phase[p]: where the application of p is in its lifespan
  pc,         \* pc[p]: where p's _worker_loop is
  cur,        \* cur[p]: the task p's worker has dequeued
  recover,    \* recover[p]: records _recover_pending_tasks has still to look at
  call, home, \* call[t]: where the submit of t is; home[t]: the process serving it
  env,        \* env[p][t]: p's TaskEnvelope of t (TaskManager._tasks)
  rows,       \* rows[t]: t's row of the status table
  queue,      \* queue[q]: the waiting task ids
  runs,       \* runs[t]: how often the orchestrator has executed t (history)
  restarts, dbFaults, queueFaults   \* what the environment did so far

life   == <<phase, pc, cur, recover>>
calls  == <<call, home>>
data   == <<env, rows, queue>>
faults == <<restarts, dbFaults, queueFaults>>
vars   == <<life, calls, data, runs, faults>>

------------------------------------------------------------------------------
(* Data.  An envelope and a row are looked at through the same three fields *)
(* of a status answer; result and error say only whether one is set.        *)

Terminal == {"completed", "failed"}                 \* _TERMINAL_STATUSES
Statuses == {"queued", "running"} \cup Terminal
Answers  == [status : {"none"} \cup Statuses, result : BOOLEAN, error : BOOLEAN]

Nothing == [status |-> "none",   result |-> FALSE, error |-> FALSE]
Fresh   == [status |-> "queued", result |-> FALSE, error |-> FALSE]

Recoverable(t) == rows[t].status \in {"queued", "running"}

(* list_recoverable_tasks *)
ListQueuedOnly  == {t \in Tasks : rows[t].status = "queued"}    \* mutant: "running" forgotten
ListAnyStatus   == {t \in Tasks : rows[t].status # "none"}      \* mutant: no status filter
ListRecoverable == {t \in Tasks : Recoverable(t)}

(* mutant: the optional columns are never written *)
WrittenStatusOnly(row, status, result, error) ==
  IF row.status = "none" THEN row ELSE [row EXCEPT !.status = status]

(* update_status: a missing row is left alone; the database overwrites the  *)
(* optional columns, the in-memory table keeps what it is not given.        *)
Written(row, status, result, error) ==
  IF row.status = "none"
  THEN row
  ELSE [status |-> status,
        result |-> result \/ (~Durable /\ row.result),
        error  |-> error  \/ (~Durable /\ row.error)]

(* What the worker does to the envelope: lines 182, 186-187 and 198-199.    *)
Started(answer)   == [answer EXCEPT !.status = "running"]
Completed(answer) == [answer EXCEPT !.status = "completed", !.result = TRUE]
Failed(answer)    == [answer EXCEPT !.status = "failed", !.error = TRUE]

(* get_status: memory first, then the row, else task_not_found. *)
GetStatus(p, t) ==
  IF env[p][t] # Nothing THEN env[p][t]
  ELSE IF rows[t] # Nothing THEN rows[t]
  ELSE [status |-> "failed", result |-> FALSE, error |-> TRUE]

SharedList == "agent_tasks"
Queues     == IF Backend = "redis" THEN {SharedList} ELSE Procs
QueueOf(p) == IF Backend = "redis" THEN SharedList ELSE p

\* Mutant: a push that succeeded is repeated.
EnqueuedTwice(p, t) == [queue EXCEPT ![QueueOf(p)] = Append(Append(@, t), t)]
Enqueued(p, t)      == [queue EXCEPT ![QueueOf(p)] = Append(@, t)]

Peeked(p)   == queue                    \* mutant: reads the head and leaves it
Dequeued(p) == [queue EXCEPT ![QueueOf(p)] = Tail(@)]

InFlight(p) == {t \in Tasks : home[t] = p /\ call[t] \in {"created", "enqueued"}}

(* The worker holds the loop while it executes a task. *)
WorkerBlocks(p) == pc[p] \in {"running", "succeeded", "raised"}

(* Another coroutine of p may run: with the memory queue a submit never     *)
(* suspends between its first and its last line.                            *)
LoopFree(p) == /\ phase[p] = "up"
               /\ ~WorkerBlocks(p)
               /\ Backend = "memory" => InFlight(p) = {}

(* A database call raises (the in-memory table cannot).  Its commit may     *)
(* have been applied: the caller is not told.                               *)
DbFault == Durable /\ dbFaults < MaxDbFaults /\ dbFaults' = dbFaults + 1

Attempted(t, row) == rows' \in {rows, [rows EXCEPT ![t] = row]}

(* RPUSH or BLPOP raises (the in-memory queue cannot); the server may have  *)
(* carried it out.                                                          *)
QueueFault == /\ Backend = "redis" /\ queueFaults < MaxQueueFaults
               /\ queueFaults' = queueFaults + 1

------------------------------------------------------------------------------
Init ==
  /\ phase   = [p \in Procs |-> "down"]
  /\ pc      = [p \in Procs |-> "off"]
  /\ cur     = [p \in Procs |-> NoTask]
  /\ recover = [p \in Procs |-> {}]
  /\ call    = [t \in Tasks |-> "none"]
  /\ home    = [t \in Tasks |-> NoProc]
  /\ env     = [p \in Procs |-> [t \in Tasks |-> Nothing]]
  /\ rows    = [t \in Tasks |-> Nothing]
  /\ queue   = [q \in Queues |-> <<>>]
  /\ runs    = [t \in Tasks |-> 0]
  /\ restarts = 0 /\ dbFaults = 0 /\ queueFaults = 0

------------------------------------------------------------------------------
(* start(): list the unfinished rows, then enqueue them one by one. *)

Start(p) ==
  /\ phase[p] = "down" \/ (phase[p] = "stopped" /\ SameProcessRestart)
  /\ IF pc[p] = "dead"      \* _worker_task is still set: start() does nothing
     THEN /\ phase' = [phase EXCEPT ![p] = "up"]
          /\ UNCHANGED recover
     ELSE /\ phase'   = [phase EXCEPT ![p] = "recovering"]
          /\ recover' = [recover EXCEPT ![p] = ListRecoverable]
  /\ UNCHANGED <<pc, cur, calls, data, runs, faults>>

RecoverNext(p, t) ==
  /\ phase[p] = "recovering"
  /\ t \in recover[p]
  /\ recover' = [recover EXCEPT ![p] = @ \ {t}]
  /\ \/ /\ t \in Unreadable                        \* logged and skipped
        /\ UNCHANGED <<data, queueFaults>>
     \/ /\ t \notin Unreadable
        /\ env' = [env EXCEPT ![p][t] = Fresh]
        /\ \/ queue' = Enqueued(p, t) /\ UNCHANGED queueFaults
           \/ QueueFault /\ queue' \in {queue, Enqueued(p, t)}    \* logged and passed over
        /\ UNCHANGED rows
  /\ UNCHANGED <<phase, pc, cur, calls, runs, restarts, dbFaults>>

FinishStart(p) ==
  /\ phase[p] = "recovering"
  /\ recover[p] = {}
  /\ phase' = [phase EXCEPT ![p] = "up"]
  /\ pc'    = [pc EXCEPT ![p] = "idle"]
  /\ UNCHANGED <<cur, recover, calls, data, runs, faults>>

------------------------------------------------------------------------------
(* submit(): envelope, row, queue, answer to the client. *)

SubmitPersist(p, t) ==
  /\ LoopFree(p)
  /\ call[t] = "none"
  /\ home' = [home EXCEPT ![t] = p]
  /\ env'  = [env EXCEPT ![p][t] = Fresh]
  /\ \/ /\ rows' = [rows EXCEPT ![t] = Fresh]
        /\ call' = [call EXCEPT ![t] = "created"]
        /\ UNCHANGED dbFaults
     \/ /\ DbFault                       \* 500: the envelope stays behind, perhaps with a row
        /\ call' = [call EXCEPT ![t] = "rejected"]
        /\ Attempted(t, Fresh)
  /\ UNCHANGED <<life, queue, runs, restarts, queueFaults>>

SubmitEnqueue(p, t) ==
  /\ home[t] = p /\ call[t] = "created"
  /\ \/ /\ queue' = Enqueued(p, t)
        /\ call'  = [call EXCEPT ![t] = "enqueued"]
        /\ UNCHANGED queueFaults
     \/ /\ QueueFault                               \* 500: the row stays queued
        /\ call' = [call EXCEPT ![t] = "rejected"]
        /\ queue' \in {queue, Enqueued(p, t)}
  /\ UNCHANGED <<life, home, env, rows, runs, restarts, dbFaults>>

SubmitReturn(p, t) ==
  /\ home[t] = p /\ call[t] = "enqueued"
  /\ ~WorkerBlocks(p)
  /\ call' = [call EXCEPT ![t] = "acked"]
  /\ UNCHANGED <<life, home, data, runs, faults>>

------------------------------------------------------------------------------
(* _worker_loop *)

(* A dequeue that raises is logged and tried again; the id that the server  *)
(* had popped for it is gone.                                               *)
Dequeue(p) ==
  /\ pc[p] = "idle" /\ LoopFree(p)
  /\ queue[QueueOf(p)] # <<>>
  /\ queue' = Dequeued(p)
  /\ \/ /\ cur' = [cur EXCEPT ![p] = Head(queue[QueueOf(p)])]
        /\ pc'  = [pc EXCEPT ![p] = "got"]
        /\ UNCHANGED queueFaults
     \/ QueueFault /\ UNCHANGED <<cur, pc>>
  /\ UNCHANGED <<phase, recover, calls, env, rows, runs, restarts, dbFaults>>

(* A dequeued id without an envelope in this process is passed over. *)
Drop(p) ==
  /\ pc[p] = "got" /\ LoopFree(p)
  /\ env[p][cur[p]] = Nothing
  /\ pc'  = [pc EXCEPT ![p] = "idle"]
  /\ cur' = [cur EXCEPT ![p] = NoTask]
  /\ UNCHANGED <<phase, recover, calls, data, runs, faults>>

(* The "running" write is outside the try: if it raises, the worker ends. *)
Begin(p) ==
  /\ pc[p] = "got" /\ LoopFree(p)
  /\ env[p][cur[p]] # Nothing
  /\ env' = [env EXCEPT ![p][cur[p]] = Started(@)]
  /\ \/ /\ rows' = [rows EXCEPT ![cur[p]] = Written(@, "running", FALSE, FALSE)]
        /\ pc'   = [pc EXCEPT ![p] = "running"]
        /\ UNCHANGED <<cur, dbFaults>>
     \/ /\ DbFault
        /\ Attempted(cur[p], Written(rows[cur[p]], "running", FALSE, FALSE))
        /\ pc'  = [pc EXCEPT ![p] = "dead"]
        /\ cur' = [cur EXCEPT ![p] = NoTask]
  /\ UNCHANGED <<phase, recover, calls, queue, runs, restarts, queueFaults>>

Execute(p) ==
  /\ pc[p] = "running"
  /\ runs' = [runs EXCEPT ![cur[p]] = @ + 1]
  /\ \/ /\ pc'  = [pc EXCEPT ![p] = "succeeded"]
        /\ env' = [env EXCEPT ![p][cur[p]] = Completed(@)]
     \/ /\ pc'  = [pc EXCEPT ![p] = "raised"]
        /\ env' = [env EXCEPT ![p][cur[p]] = Failed(@)]
  /\ UNCHANGED <<phase, cur, recover, calls, rows, queue, faults>>

RecordCompletedSwallowed(p) ==          \* mutant: the raising write is logged and passed over
  /\ pc[p] = "succeeded"
  /\ \/ rows' = [rows EXCEPT ![cur[p]] = Written(@, "completed", TRUE, FALSE)] /\ UNCHANGED dbFaults
     \/ DbFault /\ UNCHANGED rows
  /\ pc' = [pc EXCEPT ![p] = "idle"] /\ cur' = [cur EXCEPT ![p] = NoTask]
  /\ UNCHANGED <<phase, env, recover, calls, queue, runs, restarts, queueFaults>>

(* The "completed" write is inside the try: if it raises, the except        *)
(* branch makes a failed task of it, with envelope.result, even if the      *)
(* database already has the completed row.                                  *)
RecordCompleted(p) ==
  /\ pc[p] = "succeeded"
  /\ \/ /\ rows' = [rows EXCEPT ![cur[p]] = Written(@, "completed", TRUE, FALSE)]
        /\ pc'   = [pc EXCEPT ![p] = "idle"]
        /\ cur'  = [cur EXCEPT ![p] = NoTask]
        /\ UNCHANGED <<env, dbFaults>>
     \/ /\ DbFault
        /\ Attempted(cur[p], Written(rows[cur[p]], "completed", TRUE, FALSE))
        /\ pc'  = [pc EXCEPT ![p] = "raised"]
        /\ env' = [env EXCEPT ![p][cur[p]] = Failed(@)]
        /\ UNCHANGED cur
  /\ UNCHANGED <<phase, recover, calls, queue, runs, restarts, queueFaults>>

RecordFailed(p) ==
  /\ pc[p] = "raised"
  /\ cur' = [cur EXCEPT ![p] = NoTask]
  /\ \/ /\ rows' = [rows EXCEPT ![cur[p]] = Written(@, "failed", FALSE, TRUE)]
        /\ pc'   = [pc EXCEPT ![p] = "idle"]
        /\ UNCHANGED dbFaults
     \/ /\ DbFault
        /\ Attempted(cur[p], Written(rows[cur[p]], "failed", FALSE, TRUE))
        /\ pc' = [pc EXCEPT ![p] = "dead"]
  /\ UNCHANGED <<phase, recover, calls, env, queue, runs, restarts, queueFaults>>

------------------------------------------------------------------------------
(* The end of a process. *)

CancelForgotten(p) == pc                \* mutant: only the flag is set
Cancelled(p) == [pc EXCEPT ![p] = IF @ = "dead" THEN "dead" ELSE "off"]

(* stop() cancels the worker where it waits; an answer of BLPOP that the    *)
(* worker has not looked at yet is lost with it.  The server has drained    *)
(* its requests before.                                                     *)
Stop(p) ==
  /\ restarts < MaxRestarts
  /\ restarts' = restarts + 1
  /\ phase[p] = "up" /\ InFlight(p) = {}
  /\ pc[p] \in {"idle", "dead"} \/ (pc[p] = "got" /\ Backend = "redis")
  /\ phase' = [phase EXCEPT ![p] = "stopped"]
  /\ pc'    = Cancelled(p)
  /\ cur'   = [cur EXCEPT ![p] = NoTask]
  /\ UNCHANGED <<recover, calls, data, runs, dbFaults, queueFaults>>

RowsForgotten == [t \in Tasks |-> Nothing]    \* mutant: create() never reached the database
RowsAfterExit == IF Durable THEN rows ELSE [t \in Tasks |-> Nothing]

(* What dies with p: envelopes, its memory queue, rows kept in memory, and  *)
(* the requests it was serving.                                             *)
Gone(p) ==
  /\ phase'   = [phase EXCEPT ![p] = "down"]
  /\ pc'      = [pc EXCEPT ![p] = "off"]
  /\ cur'     = [cur EXCEPT ![p] = NoTask]
  /\ recover' = [recover EXCEPT ![p] = {}]
  /\ call'    = [t \in Tasks |-> IF t \in InFlight(p) THEN "rejected" ELSE call[t]]
  /\ env'     = [env EXCEPT ![p] = [t \in Tasks |-> Nothing]]
  /\ rows'    = RowsAfterExit
  /\ queue'   = IF Backend = "redis" THEN queue ELSE [queue EXCEPT ![p] = <<>>]
  /\ UNCHANGED <<home, runs, dbFaults, queueFaults>>

Exit(p) ==
  /\ phase[p] = "stopped"
  /\ Gone(p)
  /\ UNCHANGED restarts

Crash(p) ==
  /\ restarts < MaxRestarts
  /\ restarts' = restarts + 1
  /\ phase[p] \in {"recovering", "up"}
  /\ Gone(p)

------------------------------------------------------------------------------
WorkerStep(p) ==
  Dequeue(p) \/ Drop(p) \/ Begin(p) \/ Execute(p) \/ RecordCompleted(p) \/ RecordFailed(p)

RequestStep(p) ==
  \E t \in Tasks : SubmitPersist(p, t) \/ SubmitEnqueue(p, t) \/ SubmitReturn(p, t)

StartStep(p) == Start(p) \/ (\E t \in Tasks : RecoverNext(p, t)) \/ FinishStart(p)

ProcNext(p) == StartStep(p) \/ RequestStep(p) \/ WorkerStep(p) \/ Stop(p) \/ Exit(p) \/ Crash(p)

Next == \E p \in Procs : ProcNext(p)

Spec == Init /\ [][Next]_vars

(* The loop runs what is ready and the orchestrator returns; the operator   *)
(* of the service starts a process that is down.  Nothing forces a client   *)
(* to submit, or a fault to happen.                                         *)
Fairness ==
  \A p \in Procs :
    /\ WF_vars(WorkerStep(p))
    /\ WF_vars(StartStep(p))
    /\ WF_vars(Exit(p))
    /\ \A t \in Tasks : WF_vars(SubmitEnqueue(p, t)) /\ WF_vars(SubmitReturn(p, t))

FairSpec == Spec /\ Fairness
------------------------------------------------------------------------------
ControlTypes ==
  /\ phase \in [Procs -> {"down", "recovering", "up", "stopped"}]
  /\ pc \in [Procs -> {"off", "idle", "got", "running", "succeeded", "raised", "dead"}]
  /\ cur \in [Procs -> Tasks \cup {NoTask}]
  /\ recover \in [Procs -> SUBSET Tasks]
  /\ call \in [Tasks -> {"none", "created", "enqueued", "acked", "rejected"}]
  /\ home \in [Tasks -> Procs \cup {NoProc}]

DataTypes ==
  /\ env \in [Procs -> [Tasks -> Answers]]
  /\ rows \in [Tasks -> Answers]
  /\ queue \in [Queues -> Seq(Tasks)]
  /\ runs \in [Tasks -> Nat]
  /\ restarts \in Nat /\ dbFaults \in Nat /\ queueFaults \in Nat

InStep(p) ==
  /\ cur[p] = NoTask <=> pc[p] \in {"off", "idle", "dead"}
  /\ phase[p] = "up" => pc[p] # "off"
  /\ phase[p] # "up" => pc[p] \in {"off", "dead"} /\ InFlight(p) = {}
  /\ phase[p] # "recovering" => recover[p] = {}

(* Types, and how the worker's program counter goes with the lifespan of    *)
(* its process and with the task in hand: worker, requests and lifespan are *)
(* separate coroutines, and stop(), crashes and faults take the worker out  *)
(* anywhere.                                                                *)
TypeOK == ControlTypes /\ DataTypes /\ \A p \in Procs : InStep(p)

Elems(q) == {q[i] : i \in DOMAIN q}
Once(q)  == \A i, j \in DOMAIN q : q[i] = q[j] => i = j

Waiting(p) == Elems(queue[QueueOf(p)])
Created(p) == {t \in Tasks : home[t] = p /\ call[t] = "created"}

HeldOnce(p) ==
  /\ Once(queue[QueueOf(p)])
  /\ Waiting(p) \cap ({cur[p]} \cup Created(p) \cup recover[p]) = {}
  /\ cur[p] \notin Created(p) \cup recover[p]
  /\ Created(p) \cap recover[p] = {}

HeldUnfinished(p) ==
  /\ \A t \in Waiting(p) \cup Created(p) \cup recover[p] : Recoverable(t)
  /\ cur[p] # NoTask => Recoverable(cur[p])
  /\ WorkerBlocks(p) => rows[cur[p]].status = "running"
  /\ phase[p] = "down" => queue[QueueOf(p)] = <<>>

(* With one process and its own queue a task is in one place only: once in  *)
(* the queue, or with the worker, or with the submit that has yet to        *)
(* enqueue it, or with recovery; and what is held there is unfinished in    *)
(* the database, as "running" if a worker executes it.  Recovery and submit *)
(* enqueue independently of each other (lines 98 and 224) and nothing       *)
(* compares with what the queue holds; this is what keeps a finished task   *)
(* from being run again.                                                    *)
Ownership ==
  /\ \A p \in Procs : HeldOnce(p) /\ HeldUnfinished(p)
  /\ \A t \in Tasks : call[t] = "none" => rows[t] = Nothing

(* One process that is not restarted in place, with its own queue, over the *)
(* database: the deployment in which the queue is not shared.               *)
OneOwner ==
  /\ Backend = "memory" /\ Durable /\ ~SameProcessRestart
  /\ \A p, q \in Procs : p = q

(* Once the stored status is completed or failed it stays what it is, with  *)
(* its result and its error: no crash, recovery or rerun takes a terminal   *)
(* answer back.                                                             *)
TerminalIsFinal ==
  [][\A t \in Tasks : rows[t].status \in Terminal => rows'[t] = rows[t]]_vars

(* What is left of that when writes raise, and may have been carried out:   *)
(* the except branch takes a completed row back once, as a failed one       *)
(* (lines 188 and 200), but a task that has ended stays ended, whoever      *)
(* recovers it, and a failed one keeps its answer.                          *)
EndedStaysEnded ==
  [][\A t \in Tasks : rows[t].status \in Terminal =>
       /\ rows'[t].status \in Terminal
       /\ rows[t].status = "failed" => rows'[t] = rows[t]]_vars

(* Whenever the loop serves requests, a terminal answer it gives from       *)
(* memory is the one the database would give after a restart: envelope and  *)
(* row are written one after the other, and either write may be overtaken.  *)
MemoryMatchesStore ==
  \A p \in Procs, t \in Tasks :
    LoopFree(p) /\ rows[t] # Nothing /\ env[p][t].status \in Terminal => rows[t] = env[p][t]

(* What is left of that when writes raise: a completed answer from memory   *)
(* is the stored one, with its result, and a failed one has the stored      *)
(* status unless its own write has taken the worker along.                  *)
CompletedMatchesStore ==
  \A p \in Procs, t \in Tasks :
    LoopFree(p) /\ env[p][t].status \in Terminal =>
      /\ env[p][t].status = "completed" => rows[t] = env[p][t]
      /\ pc[p] # "dead" => rows[t].status = env[p][t].status

(* p will come to execute t: t is on its way to p's worker, with an         *)
(* envelope that keeps Drop from discarding it.                             *)
WillRun(p, t) ==
  /\ t \in Waiting(p) \cup Created(p) \cup {cur[p]}
  /\ env[p][t] # Nothing

(* A create() that raised may have left a row all the same.  Submit stops   *)
(* there, so nobody holds it.                                               *)
MayBeStray(t) == call[t] = "rejected" /\ dbFaults > 0

(* While every process serves with a live worker, each unfinished row has a *)
(* process that will come to execute it; a row nobody holds would stay      *)
(* queued or running until some later restart.  That is what happens to the *)
(* row of a create() that raised after its commit, so those are left out.   *)
NoTaskLost ==
  (queueFaults = 0 /\ \A p \in Procs : phase[p] = "up" /\ pc[p] # "dead")
    => \A t \in Tasks \ Unreadable :
         Recoverable(t) /\ ~MayBeStray(t) => \E p \in Procs : WillRun(p, t)

(* However often processes come and go, the orchestrator (and its tools'    *)
(* side effects) runs a task at most once for its submit and once for every *)
(* start of a process.                                                      *)
RunsBounded == \A t \in Tasks : runs[t] <= Cardinality(Procs) + restarts

(* A client that was given a task id, or is about to be, finds the task in  *)
(* the database: neither crashes nor faults of the calls after create()     *)
(* take the row away.                                                       *)
AckedIsDurable ==
  Durable => \A t \in Tasks :
    call[t] \in {"created", "enqueued", "acked"} => rows[t].status # "none"

Acked(t)    == call[t] = "acked"
Finished(t) == rows[t].status \in Terminal

(* A task the client was given the id of ends, and stays ended, although    *)
(* processes stop and crash on the way.                                     *)
EventuallySettled == \A t \in Tasks \ Unreadable : Acked(t) ~> []Finished(t)

(* With the shared list a task may be run again, but it does end, unless a  *)
(* write that raised has taken the worker and nobody restarts the process.  *)
EventuallyAnswered ==
  \/ \E p \in Procs : <>[](pc[p] = "dead")
  \/ \A t \in Tasks \ Unreadable : Acked(t) ~> Finished(t)

(* The rows implement the promised life of a task, step by step and with    *)
(* its liveness.                                                            *)
Lifecycle == INSTANCE TaskLifecycle WITH status <- [t \in Tasks |-> rows[t].status]

ImplementsLifecycle == Lifecycle!Spec
==============================================================================
