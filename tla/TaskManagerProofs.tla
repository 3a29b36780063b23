-------------------------- MODULE TaskManagerProofs --------------------------
(***************************************************************************)
(* Theorems about TaskManager for every value of its constants.            *)
(***************************************************************************)
EXTENDS TaskManager, FiniteSetTheorems, TLAPS

(* update_status writes a well-formed row when it is given one. *)
LEMMA WrittenType ==
  ASSUME NEW row \in Answers, NEW status \in Statuses, NEW result \in BOOLEAN, NEW error \in BOOLEAN
  PROVE  Written(row, status, result, error) \in Answers
BY DurableAssumption DEF Written, Answers, Statuses

(* The two values a submit or a recovery puts in place of an answer. *)
LEMMA FreshType == Fresh \in Answers /\ Nothing \in Answers
BY DEF Fresh, Nothing, Answers, Statuses, Terminal

(* The worker's marks on an envelope keep it an answer. *)
LEMMA MarkedType ==
  ASSUME NEW answer \in Answers
  PROVE  {Started(answer), Completed(answer), Failed(answer)} \subseteq Answers
BY DEF Started, Completed, Failed, Answers, Statuses, Terminal

(* The queue a task id is pushed to exists, and stays a queue of task ids. *)
LEMMA EnqueuedType ==
  ASSUME DataTypes, NEW p \in Procs, NEW t \in Tasks
  PROVE  QueueOf(p) \in Queues /\ Enqueued(p, t) \in [Queues -> Seq(Tasks)]
<1>1. QueueOf(p) \in Queues
  BY DEF QueueOf, Queues
<1>2. Append(queue[QueueOf(p)], t) \in Seq(Tasks)
  BY <1>1 DEF DataTypes
<1> QED
  BY <1>1, <1>2 DEF DataTypes, Enqueued

(* What a worker pops is a task id. *)
LEMMA DequeuedType ==
  ASSUME DataTypes, NEW p \in Procs, queue[QueueOf(p)] # <<>>
  PROVE  /\ Head(queue[QueueOf(p)]) \in Tasks
         /\ Dequeued(p) \in [Queues -> Seq(Tasks)]
<1>1. QueueOf(p) \in Queues
  BY DEF QueueOf, Queues
<1>2. Head(queue[QueueOf(p)]) \in Tasks /\ Tail(queue[QueueOf(p)]) \in Seq(Tasks)
  BY <1>1 DEF DataTypes
<1> QED
  BY <1>1, <1>2 DEF DataTypes, Dequeued

(* A worker past its dequeue has a task, with an envelope and a row. *)
LEMMA WorkerTaskType ==
  ASSUME TypeOK, NEW p \in Procs, pc[p] \notin {"off", "idle", "dead"}
  PROVE  cur[p] \in Tasks /\ env[p][cur[p]] \in Answers /\ rows[cur[p]] \in Answers
<1>1. cur[p] \in Tasks
  BY DEF TypeOK, ControlTypes, InStep
<1> QED
  BY <1>1 DEF TypeOK, DataTypes

(* A database fault leaves their counter a number. *)
LEMMA FaultCounterType ==
  ASSUME DataTypes, DbFault
  PROVE  dbFaults' \in Nat
BY DEF DataTypes, DbFault

(* Every state of the specification is of the stated types, and the worker, *)
(* the lifespan and the requests of a process are in step with each other.  *)
THEOREM TypeInvariant == Spec => []TypeOK
<1> USE BackendAssumption, DurableAssumption, NullAssumption, BoundAssumption
<1>1. Init => TypeOK
  BY FreshType DEF Init, TypeOK, ControlTypes, DataTypes, InStep, InFlight, Queues
<1>2. TypeOK /\ [Next]_vars => TypeOK'
  <2> SUFFICES ASSUME TypeOK, [Next]_vars PROVE TypeOK'
    OBVIOUS
  <2>1. ASSUME NEW p \in Procs, Start(p) PROVE TypeOK'
    <3>1. ControlTypes'
      BY <2>1 DEF TypeOK, ControlTypes, Start, ListRecoverable, calls, data, faults
    <3>2. DataTypes'
      BY <2>1 DEF TypeOK, DataTypes, ControlTypes, Start, calls, data, faults
    <3>3. ASSUME NEW r \in Procs PROVE InStep(r)'
      BY <2>1 DEF TypeOK, ControlTypes, InStep, InFlight, Start, calls, data, faults
    <3>4. QED
      BY <3>1, <3>2, <3>3 DEF TypeOK
  <2>2. ASSUME NEW p \in Procs, NEW t \in Tasks, RecoverNext(p, t) PROVE TypeOK'
    <3>1. ControlTypes'
      BY <2>2 DEF TypeOK, ControlTypes, RecoverNext, calls, data
    <3>2. DataTypes'
      <4>1. env' \in [Procs -> [Tasks -> Answers]]
        <5>1. env' = env \/ env' = [env EXCEPT ![p][t] = Fresh]
          BY <2>2 DEF RecoverNext, data
        <5>2. CASE env' = env
          BY <5>2 DEF TypeOK, DataTypes
        <5>3. CASE env' = [env EXCEPT ![p][t] = Fresh]
          BY <5>3, FreshType DEF TypeOK, DataTypes
        <5>4. QED
          BY <5>1, <5>2, <5>3
      <4>2. queue' \in [Queues -> Seq(Tasks)]
        BY <2>2, EnqueuedType DEF TypeOK, DataTypes, RecoverNext, data
      <4>3. QED
        BY <2>2, <4>1, <4>2 DEF TypeOK, DataTypes, RecoverNext, data, QueueFault
    <3>3. ASSUME NEW r \in Procs PROVE InStep(r)'
      BY <2>2 DEF TypeOK, ControlTypes, InStep, InFlight, RecoverNext, calls, data
    <3>4. QED
      BY <3>1, <3>2, <3>3 DEF TypeOK
  <2>3. ASSUME NEW p \in Procs, FinishStart(p) PROVE TypeOK'
    <3>1. ControlTypes'
      BY <2>3 DEF TypeOK, ControlTypes, FinishStart, calls, data, faults
    <3>2. DataTypes'
      BY <2>3 DEF TypeOK, DataTypes, ControlTypes, FinishStart, calls, data, faults
    <3>3. ASSUME NEW r \in Procs PROVE InStep(r)'
      BY <2>3 DEF TypeOK, ControlTypes, InStep, InFlight, FinishStart, calls, data, faults
    <3>4. QED
      BY <3>1, <3>2, <3>3 DEF TypeOK
  <2>4. ASSUME NEW p \in Procs, NEW t \in Tasks, SubmitPersist(p, t) PROVE TypeOK'
    <3>1. ControlTypes'
      BY <2>4 DEF TypeOK, ControlTypes, SubmitPersist, life
    <3>2. DataTypes'
      <4>1. env' \in [Procs -> [Tasks -> Answers]]
        BY <2>4, FreshType DEF TypeOK, DataTypes, SubmitPersist
      <4>2. rows' \in [Tasks -> Answers]
        BY <2>4, FreshType DEF TypeOK, DataTypes, SubmitPersist, Attempted
      <4>3. QED
        BY <2>4, <4>1, <4>2, FaultCounterType DEF TypeOK, DataTypes, SubmitPersist
    <3>3. ASSUME NEW r \in Procs PROVE InStep(r)'
      BY <2>4 DEF TypeOK, ControlTypes, InStep, InFlight, SubmitPersist, life, LoopFree
    <3>4. QED
      BY <3>1, <3>2, <3>3 DEF TypeOK
  <2>5. ASSUME NEW p \in Procs, NEW t \in Tasks, SubmitEnqueue(p, t) PROVE TypeOK'
    <3>1. ControlTypes'
      BY <2>5 DEF TypeOK, ControlTypes, SubmitEnqueue, life
    <3>2. DataTypes'
      BY <2>5, EnqueuedType DEF TypeOK, DataTypes, SubmitEnqueue, QueueFault
    <3>3. ASSUME NEW r \in Procs PROVE InStep(r)'
      BY <2>5 DEF TypeOK, ControlTypes, InStep, InFlight, SubmitEnqueue, life
    <3>4. QED
      BY <3>1, <3>2, <3>3 DEF TypeOK
  <2>6. ASSUME NEW p \in Procs, NEW t \in Tasks, SubmitReturn(p, t) PROVE TypeOK'
    <3>1. ControlTypes'
      BY <2>6 DEF TypeOK, ControlTypes, SubmitReturn, life, data, faults
    <3>2. DataTypes'
      BY <2>6 DEF TypeOK, DataTypes, ControlTypes, SubmitReturn, life, data, faults
    <3>3. ASSUME NEW r \in Procs PROVE InStep(r)'
      BY <2>6 DEF TypeOK, ControlTypes, InStep, InFlight, SubmitReturn, life, data, faults
    <3>4. QED
      BY <3>1, <3>2, <3>3 DEF TypeOK
  <2>7. ASSUME NEW p \in Procs, Dequeue(p) PROVE TypeOK'
    <3>1. ControlTypes'
      <4>1. Head(queue[QueueOf(p)]) \in Tasks
        BY <2>7, DequeuedType DEF TypeOK, Dequeue
      <4>2. CASE cur' = [cur EXCEPT ![p] = Head(queue[QueueOf(p)])] /\ pc' = [pc EXCEPT ![p] = "got"]
        BY <2>7, <4>1, <4>2 DEF TypeOK, ControlTypes, Dequeue, calls
      <4>3. CASE UNCHANGED <<cur, pc>>
        BY <2>7, <4>3 DEF TypeOK, ControlTypes, Dequeue, calls
      <4>4. QED
        BY <2>7, <4>2, <4>3 DEF Dequeue
    <3>2. DataTypes'
      BY <2>7, DequeuedType DEF TypeOK, DataTypes, Dequeue, QueueFault
    <3>3. ASSUME NEW r \in Procs PROVE InStep(r)'
      BY <2>7, DequeuedType, NullAssumption DEF TypeOK, ControlTypes, InStep, InFlight, Dequeue, calls, LoopFree
    <3>4. QED
      BY <3>1, <3>2, <3>3 DEF TypeOK
  <2>8. ASSUME NEW p \in Procs, Drop(p) PROVE TypeOK'
    <3>1. ControlTypes'
      BY <2>8 DEF TypeOK, ControlTypes, Drop, calls, data, faults
    <3>2. DataTypes'
      BY <2>8 DEF TypeOK, DataTypes, ControlTypes, Drop, calls, data, faults
    <3>3. ASSUME NEW r \in Procs PROVE InStep(r)'
      BY <2>8 DEF TypeOK, ControlTypes, InStep, InFlight, Drop, calls, data, faults, LoopFree
    <3>4. QED
      BY <3>1, <3>2, <3>3 DEF TypeOK
  <2>9. ASSUME NEW p \in Procs, Begin(p) PROVE TypeOK'
    <3>1. cur[p] \in Tasks /\ env[p][cur[p]] \in Answers /\ rows[cur[p]] \in Answers
      BY <2>9, WorkerTaskType DEF Begin
    <3>2. ControlTypes'
      BY <2>9, <3>1 DEF TypeOK, ControlTypes, Begin, calls
    <3>3. DataTypes'
      <4>1. Started(env[p][cur[p]]) \in Answers /\ Written(rows[cur[p]], "running", FALSE, FALSE) \in Answers
        BY <3>1, MarkedType, WrittenType DEF Statuses
      <4>2. env' \in [Procs -> [Tasks -> Answers]]
        BY <2>9, <3>1, <4>1 DEF TypeOK, DataTypes, Begin
      <4>3. rows' \in [Tasks -> Answers]
        BY <2>9, <3>1, <4>1 DEF TypeOK, DataTypes, Begin, Attempted
      <4>4. QED
        BY <2>9, <4>2, <4>3, FaultCounterType DEF TypeOK, DataTypes, Begin
    <3>4. ASSUME NEW r \in Procs PROVE InStep(r)'
      BY <2>9, <3>1 DEF TypeOK, ControlTypes, InStep, InFlight, Begin, calls, LoopFree
    <3>5. QED
      BY <3>2, <3>3, <3>4 DEF TypeOK
  <2>10. ASSUME NEW p \in Procs, Execute(p) PROVE TypeOK'
    <3>1. cur[p] \in Tasks /\ env[p][cur[p]] \in Answers /\ rows[cur[p]] \in Answers
      BY <2>10, WorkerTaskType DEF Execute
    <3>2. ControlTypes'
      BY <2>10, <3>1 DEF TypeOK, ControlTypes, Execute, calls, faults
    <3>3. DataTypes'
      <4>1. Completed(env[p][cur[p]]) \in Answers /\ Failed(env[p][cur[p]]) \in Answers
        BY <3>1, MarkedType
      <4>2. env' \in [Procs -> [Tasks -> Answers]]
        <5>1. \E a \in Answers : env' = [env EXCEPT ![p][cur[p]] = a]
          BY <2>10, <4>1 DEF Execute
        <5>2. QED
          BY <5>1, <3>1 DEF TypeOK, DataTypes
      <4>3. QED
        BY <2>10, <3>1, <4>2 DEF TypeOK, DataTypes, Execute, faults
    <3>4. ASSUME NEW r \in Procs PROVE InStep(r)'
      BY <2>10, <3>1 DEF TypeOK, ControlTypes, InStep, InFlight, Execute, calls, faults
    <3>5. QED
      BY <3>2, <3>3, <3>4 DEF TypeOK
  <2>11. ASSUME NEW p \in Procs, RecordCompleted(p) PROVE TypeOK'
    <3>1. cur[p] \in Tasks /\ env[p][cur[p]] \in Answers /\ rows[cur[p]] \in Answers
      BY <2>11, WorkerTaskType DEF RecordCompleted
    <3>2. ControlTypes'
      BY <2>11, <3>1 DEF TypeOK, ControlTypes, RecordCompleted, calls
    <3>3. DataTypes'
      <4>1. /\ Failed(env[p][cur[p]]) \in Answers
            /\ Written(rows[cur[p]], "completed", TRUE, FALSE) \in Answers
            /\ Written(rows[cur[p]], "failed", FALSE, TRUE) \in Answers
        BY <3>1, MarkedType, WrittenType DEF Statuses, Terminal
      <4>2. env' \in [Procs -> [Tasks -> Answers]]
        <5>1. env' = env \/ \E a \in Answers : env' = [env EXCEPT ![p][cur[p]] = a]
          BY <2>11, <4>1 DEF RecordCompleted
        <5>2. CASE env' = env
          BY <5>2 DEF TypeOK, DataTypes
        <5>3. CASE \E a \in Answers : env' = [env EXCEPT ![p][cur[p]] = a]
          BY <5>3, <3>1 DEF TypeOK, DataTypes
        <5>4. QED
          BY <5>1, <5>2, <5>3
      <4>3. rows' \in [Tasks -> Answers]
        BY <2>11, <3>1, <4>1 DEF TypeOK, DataTypes, RecordCompleted, Attempted
      <4>4. QED
        BY <2>11, <4>2, <4>3, FaultCounterType DEF TypeOK, DataTypes, RecordCompleted
    <3>4. ASSUME NEW r \in Procs PROVE InStep(r)'
      BY <2>11, <3>1 DEF TypeOK, ControlTypes, InStep, InFlight, RecordCompleted, calls
    <3>5. QED
      BY <3>2, <3>3, <3>4 DEF TypeOK
  <2>12. ASSUME NEW p \in Procs, RecordFailed(p) PROVE TypeOK'
    <3>1. cur[p] \in Tasks /\ env[p][cur[p]] \in Answers /\ rows[cur[p]] \in Answers
      BY <2>12, WorkerTaskType DEF RecordFailed
    <3>2. ControlTypes'
      BY <2>12, <3>1 DEF TypeOK, ControlTypes, RecordFailed, calls
    <3>3. DataTypes'
      <4>1. Written(rows[cur[p]], "failed", FALSE, TRUE) \in Answers
        BY <3>1, WrittenType DEF Statuses, Terminal
      <4>2. QED
        BY <2>12, <3>1, <4>1, FaultCounterType DEF TypeOK, DataTypes, RecordFailed, Attempted
    <3>4. ASSUME NEW r \in Procs PROVE InStep(r)'
      BY <2>12, <3>1 DEF TypeOK, ControlTypes, InStep, InFlight, RecordFailed, calls
    <3>5. QED
      BY <3>2, <3>3, <3>4 DEF TypeOK
  <2>13. ASSUME NEW p \in Procs, Stop(p) PROVE TypeOK'
    <3>1. ControlTypes'
      BY <2>13 DEF TypeOK, ControlTypes, Stop, Cancelled, calls, data
    <3>2. DataTypes'
      BY <2>13 DEF TypeOK, DataTypes, ControlTypes, Stop, Cancelled, calls, data
    <3>3. ASSUME NEW r \in Procs PROVE InStep(r)'
      BY <2>13 DEF TypeOK, ControlTypes, InStep, InFlight, Stop, Cancelled, calls, data
    <3>4. QED
      BY <3>1, <3>2, <3>3 DEF TypeOK
  <2>14. ASSUME NEW p \in Procs, Gone(p), restarts' \in Nat PROVE TypeOK'
    <3>1. ControlTypes'
      BY <2>14 DEF TypeOK, ControlTypes, Gone
    <3>2. DataTypes'
      BY <2>14, FreshType DEF TypeOK, DataTypes, Gone, RowsAfterExit, Queues
    <3>3. ASSUME NEW r \in Procs PROVE InStep(r)'
      BY <2>14 DEF TypeOK, ControlTypes, InStep, InFlight, Gone
    <3>4. QED
      BY <3>1, <3>2, <3>3 DEF TypeOK
  <2>15. CASE UNCHANGED vars
    BY <2>15 DEF TypeOK, ControlTypes, DataTypes, InStep, vars, life, calls, data, faults, InFlight
  <2>16. QED
    BY <2>1, <2>2, <2>3, <2>4, <2>5, <2>6, <2>7, <2>8, <2>9, <2>10, <2>11, <2>12, <2>13, <2>14, <2>15
       DEF Next, ProcNext, StartStep, RequestStep, WorkerStep, Exit, Crash, TypeOK, DataTypes
<1>3. QED
  BY <1>1, <1>2, PTL DEF Spec
\* A submit creates the row of t with answer a.
Creates(t, a) == call[t] = "none" /\ a = Fresh

\* The worker of p writes the status of its task, which makes the row a.
Writes(p, t, a) ==
  /\ cur[p] = t
  /\ \/ pc[p] = "got" /\ a = Written(rows[t], "running", FALSE, FALSE)
     \/ pc[p] = "succeeded" /\ a = Written(rows[t], "completed", TRUE, FALSE)
     \/ pc[p] = "raised" /\ a = Written(rows[t], "failed", FALSE, TRUE)

(* What one step can do to a row: create it, or a worker writes the status  *)
(* of the task in hand.                                                     *)
LEMMA RowStep ==
  ASSUME TypeOK, [Next]_vars, Durable, NEW t \in Tasks, rows'[t] # rows[t]
  PROVE  Creates(t, rows'[t]) \/ \E p \in Procs : Writes(p, t, rows'[t])
<1> DEFINE Goal == Creates(t, rows'[t]) \/ \E p \in Procs : Writes(p, t, rows'[t])
<1> USE DEF Creates, Writes
<1> SUFFICES Goal
  OBVIOUS
<1> rows \in [Tasks -> Answers]
  BY DEF TypeOK, DataTypes
<1>1. ASSUME NEW p \in Procs, StartStep(p) PROVE FALSE
  BY <1>1 DEF StartStep, Start, RecoverNext, FinishStart, data
<1>2. ASSUME NEW p \in Procs, RequestStep(p) PROVE Goal
  BY <1>2 DEF RequestStep, SubmitPersist, SubmitEnqueue, SubmitReturn, data, Attempted
<1>3. ASSUME NEW p \in Procs, Dequeue(p) \/ Drop(p) \/ Execute(p) PROVE FALSE
  BY <1>3 DEF Dequeue, Drop, Execute, data
<1>4. ASSUME NEW p \in Procs, Begin(p) PROVE Goal
  BY <1>4 DEF Begin, Attempted
<1>5. ASSUME NEW p \in Procs, RecordCompleted(p) PROVE Goal
  BY <1>5 DEF RecordCompleted, Attempted
<1>6. ASSUME NEW p \in Procs, RecordFailed(p) PROVE Goal
  BY <1>6 DEF RecordFailed, Attempted
<1>7. ASSUME NEW p \in Procs, Stop(p) \/ Exit(p) \/ Crash(p) PROVE FALSE
  BY <1>7 DEF Stop, Exit, Crash, Gone, RowsAfterExit, data
<1>8. CASE UNCHANGED vars
  BY <1>8 DEF vars, data
<1> HIDE DEF Goal
<1>9. QED
  BY <1>1, <1>2, <1>3, <1>4, <1>5, <1>6, <1>7, <1>8 DEF Next, ProcNext, WorkerStep

(* A step touches one row at most. *)
LEMMA OneRowStep ==
  ASSUME TypeOK, TypeOK', [Next]_vars, Durable, rows' # rows
  PROVE  \E t \in Tasks, a \in Answers : rows' = [rows EXCEPT ![t] = a]
<1> rows \in [Tasks -> Answers] /\ rows' \in [Tasks -> Answers]
  BY DEF TypeOK, DataTypes
<1> SUFFICES \E t \in Tasks : \E a : rows' = [rows EXCEPT ![t] = a]
  OBVIOUS
<1>1. ASSUME NEW p \in Procs, StartStep(p) PROVE FALSE
  BY <1>1 DEF StartStep, Start, RecoverNext, FinishStart, data
<1>2. ASSUME NEW p \in Procs, RequestStep(p) PROVE \E t \in Tasks : \E a : rows' = [rows EXCEPT ![t] = a]
  BY <1>2 DEF RequestStep, SubmitPersist, SubmitEnqueue, SubmitReturn, data, Attempted
<1>3. ASSUME NEW p \in Procs, WorkerStep(p) PROVE \E t \in Tasks : \E a : rows' = [rows EXCEPT ![t] = a]
  <2>1. CASE Dequeue(p) \/ Drop(p) \/ Execute(p)
    BY <2>1 DEF Dequeue, Drop, Execute, data
  <2>2. CASE Begin(p) \/ RecordCompleted(p) \/ RecordFailed(p)
    <3>1. cur[p] \in Tasks
      BY <2>2, WorkerTaskType DEF Begin, RecordCompleted, RecordFailed
    <3>2. QED
      BY <2>2, <3>1 DEF Begin, RecordCompleted, RecordFailed, Attempted
  <2>3. QED
    BY <1>3, <2>1, <2>2 DEF WorkerStep
<1>4. ASSUME NEW p \in Procs, Stop(p) \/ Exit(p) \/ Crash(p) PROVE FALSE
  BY <1>4 DEF Stop, Exit, Crash, Gone, RowsAfterExit, data
<1>5. CASE UNCHANGED vars
  BY <1>5 DEF vars, data
<1>6. QED
  BY <1>1, <1>2, <1>3, <1>4, <1>5 DEF Next, ProcNext

(* No step takes a row out of the database. *)
LEMMA RowsStay ==
  ASSUME TypeOK, [Next]_vars, Durable, NEW t \in Tasks, rows[t].status # "none"
  PROVE  rows'[t].status # "none"
<1>1. CASE rows'[t] = rows[t]
  BY <1>1
<1>2. CASE rows'[t] # rows[t]
  <2>1. CASE Creates(t, rows'[t])
    BY <2>1 DEF Creates, Fresh
  <2>2. CASE \E p \in Procs : Writes(p, t, rows'[t])
    <3>1. PICK s \in Statuses, r \in BOOLEAN, e \in BOOLEAN : rows'[t] = Written(rows[t], s, r, e)
      <4>1. {"running", "completed", "failed"} \subseteq Statuses
        BY DEF Statuses, Terminal
      <4>2. QED
        BY <2>2, <4>1 DEF Writes
    <3>2. rows'[t].status = s
      BY <3>1 DEF Written
    <3>3. QED
      BY <3>2 DEF Statuses, Terminal
  <2>3. QED
    BY <1>2, <2>1, <2>2, RowStep
<1> QED
  BY <1>1, <1>2

(* Whatever the queue, the number of processes and the faults: a task whose *)
(* id a client holds, or is about to get, has its row.                      *)
THEOREM AckedTasksAreDurable == Spec => []AckedIsDurable
<1>1. Init => AckedIsDurable
  BY DEF Init, AckedIsDurable
<1>2. TypeOK /\ AckedIsDurable /\ [Next]_vars => AckedIsDurable'
  <2> SUFFICES ASSUME TypeOK, AckedIsDurable, [Next]_vars, Durable, NEW t \in Tasks,
                      call'[t] \in {"created", "enqueued", "acked"}
               PROVE  rows'[t].status # "none"
    BY DEF AckedIsDurable
  <2>1. CASE call[t] \in {"created", "enqueued", "acked"}
    BY <2>1, RowsStay DEF AckedIsDurable
  <2>2. CASE call[t] \in {"none", "rejected"}
    <3>1. ASSUME NEW p \in Procs, NEW u \in Tasks, SubmitPersist(p, u) PROVE rows'[t].status # "none"
      <4>1. u = t /\ call'[t] = "created"
        BY <3>1, <2>2 DEF SubmitPersist, TypeOK, ControlTypes
      <4>2. rows' = [rows EXCEPT ![t] = Fresh]
        BY <3>1, <4>1 DEF SubmitPersist, TypeOK, ControlTypes
      <4>3. QED
        BY <4>2 DEF TypeOK, DataTypes, Fresh
    <3>2. ASSUME NEW p \in Procs, NEW u \in Tasks, SubmitEnqueue(p, u) \/ SubmitReturn(p, u) PROVE FALSE
      BY <3>2, <2>2 DEF SubmitEnqueue, SubmitReturn, TypeOK, ControlTypes
    <3>3. ASSUME NEW p \in Procs, StartStep(p) \/ WorkerStep(p) \/ Stop(p) PROVE FALSE
      BY <3>3, <2>2 DEF StartStep, Start, RecoverNext, FinishStart, WorkerStep, Dequeue, Drop, Begin, Execute,
         RecordCompleted, RecordFailed, Stop, calls
    <3>4. ASSUME NEW p \in Procs, Gone(p) PROVE FALSE
      BY <3>4, <2>2 DEF Gone
    <3>5. CASE UNCHANGED vars
      BY <3>5, <2>2 DEF vars, calls
    <3>6. QED
      BY <3>1, <3>2, <3>3, <3>4, <3>5 DEF Next, ProcNext, RequestStep, Exit, Crash
  <2>3. QED
    BY <2>1, <2>2 DEF TypeOK, ControlTypes
<1>3. QED
  BY <1>1, <1>2, TypeInvariant, PTL DEF Spec
------------------------------------------------------------------------------
(* Why a task cannot run more often than RunsBounded says: every copy of    *)
(* its id, every worker that has it and has not executed it, every start    *)
(* still to come and the submit's own enqueue may cost one more run, and    *)
(* runs and debts together never exceed the bound.                          *)
Copies(t)     == {x \in Queues \X Nat : x[2] \in DOMAIN queue[x[1]] /\ queue[x[1]][x[2]] = t}
Executing(t)  == {p \in Procs : cur[p] = t /\ pc[p] \in {"got", "running"}}
Starting(t)   == {p \in Procs : phase[p] \in {"down", "stopped"} \/ t \in recover[p]}
Submitting(t) == IF call[t] = "created" THEN 1 ELSE 0

Debt(t) == Cardinality(Copies(t)) + Cardinality(Executing(t)) + Cardinality(Starting(t)) + Submitting(t)

\* No one has heard of an id that was not submitted.
Unknown(t) ==
  /\ rows[t] = Nothing /\ runs[t] = 0 /\ Copies(t) = {}
  /\ \A p \in Procs : t \notin recover[p] /\ cur[p] # t

Accounted(t) ==
  /\ IsFiniteSet(Copies(t))
  /\ call[t] = "none" => Unknown(t)
  /\ call[t] # "none" => runs[t] + Debt(t) <= Cardinality(Procs) + restarts

(* A set that loses and gains nothing, one that gains an element at most,   *)
(* and one that loses one.                                                  *)
LEMMA Counting ==
  ASSUME NEW S, IsFiniteSet(S), NEW T, NEW x
  PROVE  /\ Cardinality(S) \in Nat
         /\ T \subseteq S => IsFiniteSet(T) /\ Cardinality(T) \in Nat /\ Cardinality(T) <= Cardinality(S)
         /\ T \subseteq S \cup {x} =>
              IsFiniteSet(T) /\ Cardinality(T) \in Nat /\ Cardinality(T) <= Cardinality(S) + 1
         /\ x \in S /\ T \subseteq S \ {x} =>
              IsFiniteSet(T) /\ Cardinality(T) \in Nat /\ Cardinality(T) + 1 <= Cardinality(S)
<1>1. Cardinality(S) \in Nat
  BY FS_CardinalityType
<1>2. ASSUME NEW R, IsFiniteSet(R), T \subseteq R
      PROVE  IsFiniteSet(T) /\ Cardinality(T) \in Nat /\ Cardinality(T) <= Cardinality(R)
  BY <1>2, FS_Subset, FS_CardinalityType
<1>3. IsFiniteSet(S \cup {x}) /\ Cardinality(S \cup {x}) <= Cardinality(S) + 1
  BY <1>1, FS_AddElement
<1>4. IsFiniteSet(S \ {x}) /\ (x \in S => Cardinality(S \ {x}) = Cardinality(S) - 1)
  BY <1>1, FS_RemoveElement
<1>5. Cardinality(S \cup {x}) \in Nat /\ Cardinality(S \ {x}) \in Nat
  BY <1>3, <1>4, FS_CardinalityType
<1>6. T \subseteq S \cup {x} =>
        IsFiniteSet(T) /\ Cardinality(T) \in Nat /\ Cardinality(T) <= Cardinality(S) + 1
  <2>1. T \subseteq S \cup {x} =>
          IsFiniteSet(T) /\ Cardinality(T) \in Nat /\ Cardinality(T) <= Cardinality(S \cup {x})
    BY <1>2, <1>3
  <2>2. QED
    BY <2>1, <1>1, <1>3, <1>5
<1>7. x \in S /\ T \subseteq S \ {x} =>
        IsFiniteSet(T) /\ Cardinality(T) \in Nat /\ Cardinality(T) + 1 <= Cardinality(S)
  <2>1. T \subseteq S \ {x} =>
          IsFiniteSet(T) /\ Cardinality(T) \in Nat /\ Cardinality(T) <= Cardinality(S \ {x})
    BY <1>2, <1>4
  <2>2. QED
    BY <2>1, <1>1, <1>4, <1>5
<1> QED
  BY <1>1, <1>2, <1>6, <1>7

(* An enqueue makes one more copy of the id it pushes, and none of others. *)
LEMMA PushCopies ==
  ASSUME DataTypes, NEW p \in Procs, NEW u \in Tasks, NEW t \in Tasks, IsFiniteSet(Copies(t)),
         queue' = queue \/ queue' = Enqueued(p, u)
  PROVE  /\ IsFiniteSet(Copies(t)') /\ Cardinality(Copies(t)') \in Nat /\ Cardinality(Copies(t)) \in Nat
         /\ Cardinality(Copies(t)') <= Cardinality(Copies(t)) + 1
         /\ u # t => Copies(t)' \subseteq Copies(t)
<1> DEFINE Q == QueueOf(p)
           last == <<Q, Len(queue[Q]) + 1>>
<1>1. Q \in Queues /\ queue[Q] \in Seq(Tasks) /\ DOMAIN queue = Queues
  BY DEF QueueOf, Queues, DataTypes
<1>2. CASE queue' = queue
  <2>1. Copies(t)' = Copies(t)
    BY <1>2 DEF Copies, Queues
  <2> QED
    BY <2>1, Counting
<1>3. CASE queue' = Enqueued(p, u)
  <2>1. /\ queue'[Q] = Append(queue[Q], u)
        /\ \A q \in Queues : q # Q => queue'[q] = queue[q]
    BY <1>1, <1>3 DEF Enqueued
  <2>2. /\ DOMAIN queue'[Q] = 1 .. Len(queue[Q]) + 1 /\ DOMAIN queue[Q] = 1 .. Len(queue[Q])
        /\ \A i \in 1 .. Len(queue[Q]) : queue'[Q][i] = queue[Q][i]
        /\ queue'[Q][Len(queue[Q]) + 1] = u /\ Len(queue[Q]) \in Nat
    BY <1>1, <2>1
  <2> HIDE DEF Q
  <2>3. ASSUME NEW x \in Copies(t)', x \notin Copies(t) PROVE x = last /\ u = t
    <3>1. /\ x \in Queues \X Nat /\ x[2] \in DOMAIN queue'[x[1]] /\ queue'[x[1]][x[2]] = t
          /\ ~(x[2] \in DOMAIN queue[x[1]] /\ queue[x[1]][x[2]] = t)
      BY <2>3 DEF Copies, Queues
    <3>2. x[1] = Q
      BY <3>1, <2>1
    <3>3. x[2] = Len(queue[Q]) + 1
      BY <3>1, <3>2, <2>2
    <3> QED
      BY <3>1, <3>2, <3>3, <2>2
  <2>4. Copies(t)' \subseteq Copies(t) \cup {last} /\ (u # t => Copies(t)' \subseteq Copies(t))
    BY <2>3
  <2> QED
    BY <2>4, Counting
<1> QED
  BY <1>2, <1>3

(* A dequeue takes one copy of the id it returns away, and none of others. *)
LEMMA PopCopies ==
  ASSUME DataTypes, NEW p \in Procs, NEW t \in Tasks, IsFiniteSet(Copies(t)),
         queue[QueueOf(p)] # <<>>, queue' = Dequeued(p)
  PROVE  /\ IsFiniteSet(Copies(t)') /\ Cardinality(Copies(t)') \in Nat /\ Cardinality(Copies(t)) \in Nat
         /\ Cardinality(Copies(t)') <= Cardinality(Copies(t))
         /\ Head(queue[QueueOf(p)]) = t => Cardinality(Copies(t)') + 1 <= Cardinality(Copies(t))
         /\ Copies(t) = {} => Copies(t)' = {} /\ Head(queue[QueueOf(p)]) # t
<1> DEFINE Q == QueueOf(p)
           first == <<Q, 1>>
           rest == Copies(t) \ {first}
           f == [x \in Copies(t)' |-> IF x[1] = Q THEN <<Q, x[2] + 1>> ELSE x]
<1>1. Q \in Queues /\ queue[Q] \in Seq(Tasks) /\ queue[Q] # <<>> /\ Head(queue[Q]) = queue[Q][1]
  BY DEF QueueOf, Queues, DataTypes
<1>2. /\ queue'[Q] = Tail(queue[Q])
      /\ \A q \in Queues : q # Q => queue'[q] = queue[q]
  BY <1>1 DEF Dequeued, DataTypes
<1>3. /\ Len(queue[Q]) \in Nat \ {0} /\ DOMAIN queue[Q] = 1 .. Len(queue[Q])
      /\ DOMAIN queue'[Q] = 1 .. Len(queue[Q]) - 1
      /\ \A i \in 1 .. Len(queue[Q]) - 1 : queue'[Q][i] = queue[Q][i + 1]
  BY <1>1, <1>2
<1>4. Head(queue[QueueOf(p)]) = t <=> first \in Copies(t)
  BY <1>1, <1>3 DEF Copies
<1> HIDE DEF Q
<1>5. ASSUME NEW x \in Copies(t)' PROVE x \in Queues \X Nat /\ f[x] \in rest
  <2>1. x \in Queues \X Nat /\ x[2] \in DOMAIN queue'[x[1]] /\ queue'[x[1]][x[2]] = t
    BY DEF Copies, Queues
  <2>2. CASE x[1] = Q
    <3>1. x[2] \in 1 .. Len(queue[Q]) - 1 /\ queue[Q][x[2] + 1] = t /\ f[x] = <<Q, x[2] + 1>>
      BY <2>1, <2>2, <1>3
    <3>2. x[2] + 1 \in DOMAIN queue[Q] /\ x[2] + 1 \in Nat /\ x[2] + 1 # 1
      BY <3>1, <1>3
    <3>3. <<Q, x[2] + 1>> \in Copies(t)
      BY <3>1, <3>2, <1>1 DEF Copies
    <3>4. <<Q, x[2] + 1>> # first
      BY <3>2
    <3> QED
      BY <2>1, <3>1, <3>3, <3>4
  <2>3. CASE x[1] # Q
    <3>1. x \in Copies(t)
      BY <2>1, <2>3, <1>2 DEF Copies
    <3>2. f[x] = x /\ x # first
      BY <2>3
    <3> QED
      BY <2>1, <3>1, <3>2
  <2> QED
    BY <2>1, <2>2, <2>3
<1>6. ASSUME NEW x \in Copies(t)', NEW y \in Copies(t)', f[x] = f[y] PROVE x = y
  <2>1. x \in Queues \X Nat /\ y \in Queues \X Nat
    BY <1>5
  <2>2. x = <<x[1], x[2]>> /\ y = <<y[1], y[2]>> /\ x[2] \in Nat /\ y[2] \in Nat
    BY <2>1
  <2>3. f[x] = (IF x[1] = Q THEN <<Q, x[2] + 1>> ELSE x) /\ f[y] = (IF y[1] = Q THEN <<Q, y[2] + 1>> ELSE y)
    OBVIOUS
  <2>4. f[x][1] = x[1] /\ f[y][1] = y[1]
    BY <2>3
  <2> QED
    BY <1>6, <2>2, <2>3, <2>4
<1>7. f \in Injection(Copies(t)', rest)
  <2>1. f \in [Copies(t)' -> rest]
    BY <1>5
  <2>2. IsInjective(f)
    BY <1>6 DEF IsInjective
  <2> HIDE DEF f
  <2> QED
    BY <2>1, <2>2 DEF Injection
<1>8. IsFiniteSet(rest) /\ Cardinality(rest) \in Nat /\ Cardinality(rest) <= Cardinality(Copies(t))
      /\ (first \in Copies(t) => Cardinality(rest) + 1 <= Cardinality(Copies(t)))
      /\ Cardinality(Copies(t)) \in Nat
  <2>1. rest \subseteq Copies(t) /\ rest \subseteq Copies(t) \ {first}
    OBVIOUS
  <2> HIDE DEF rest, first
  <2> QED
    BY <2>1, Counting
<1> HIDE DEF f, rest, first
<1>9. IsFiniteSet(Copies(t)') /\ Cardinality(Copies(t)') <= Cardinality(rest)
  BY <1>7, <1>8, FS_Injection
<1>10. Cardinality(Copies(t)') \in Nat
  BY <1>9, FS_CardinalityType
<1>11. Copies(t) = {} => Copies(t)' = {} /\ first \notin Copies(t)
  BY <1>5 DEF rest
<1> QED
  BY <1>4, <1>8, <1>9, <1>10, <1>11

(* Runs and debts as they were bound runs and debts as they are, if the     *)
(* debts grow by no more than the restarts.                                 *)
LEMMA Settled ==
  ASSUME TypeOK, TypeOK', NEW t \in Tasks, IsFiniteSet(Procs), Accounted(t), call[t] # "none",
         call'[t] # "none", IsFiniteSet(Copies(t)'), Cardinality(Copies(t)') \in Nat,
         runs'[t] + Debt(t)' <= runs[t] + Debt(t) + (restarts' - restarts)
  PROVE  Accounted(t)'
<1>1. /\ Executing(t) \subseteq Procs /\ Starting(t) \subseteq Procs
      /\ Executing(t)' \subseteq Procs /\ Starting(t)' \subseteq Procs
  BY DEF Executing, Starting
<1>2. /\ Cardinality(Executing(t)) \in Nat /\ Cardinality(Starting(t)) \in Nat
      /\ Cardinality(Executing(t)') \in Nat /\ Cardinality(Starting(t)') \in Nat
      /\ Cardinality(Procs) \in Nat /\ Cardinality(Copies(t)) \in Nat
  BY <1>1, Counting DEF Accounted
<1>3. Debt(t) \in Nat /\ Debt(t)' \in Nat
  BY <1>2 DEF Debt, Submitting
<1>4. runs[t] \in Nat /\ runs'[t] \in Nat /\ restarts \in Nat /\ restarts' \in Nat
  BY DEF TypeOK, DataTypes
<1>5. runs[t] + Debt(t) <= Cardinality(Procs) + restarts
  BY DEF Accounted
<1>6. runs'[t] + Debt(t)' <= Cardinality(Procs) + restarts'
  <2> HIDE DEF Debt
  <2> QED
    BY <1>2, <1>3, <1>4, <1>5
<1> QED
  BY <1>6 DEF Accounted

(* The submit of t: the process that serves it has started already, so that *)
(* the enqueue to come takes the place of one start.                        *)
LEMMA SubmitAccounted ==
  ASSUME TypeOK, TypeOK', NEW t \in Tasks, IsFiniteSet(Procs), Accounted(t),
         NEW p \in Procs, SubmitPersist(p, t)
  PROVE  Accounted(t)'
<1>1. /\ Copies(t)' = {} /\ Executing(t)' = {} /\ runs'[t] = 0 /\ call'[t] # "none"
      /\ Starting(t)' \subseteq Procs \ {p} /\ restarts' = restarts
  <2>1. Unknown(t) /\ UNCHANGED <<life, queue, runs, restarts>> /\ phase[p] = "up" /\ recover[p] = {}
    BY DEF SubmitPersist, Accounted, LoopFree, TypeOK, InStep
  <2>2. call'[t] # "none"
    BY DEF SubmitPersist, TypeOK, ControlTypes
  <2> QED
    BY <2>1, <2>2 DEF Unknown, life, Copies, Queues, Executing, Starting
<1>2. /\ Cardinality(Copies(t)') = 0 /\ Cardinality(Executing(t)') = 0 /\ IsFiniteSet(Copies(t)')
      /\ Cardinality(Starting(t)') \in Nat /\ Cardinality(Starting(t)') + 1 <= Cardinality(Procs)
      /\ Cardinality(Procs) \in Nat
  <2>1. IsFiniteSet({}) /\ Cardinality({}) = 0
    BY FS_EmptySet
  <2>2. /\ Cardinality(Starting(t)') \in Nat /\ Cardinality(Starting(t)') + 1 <= Cardinality(Procs)
        /\ Cardinality(Procs) \in Nat
    BY <1>1, Counting
  <2> QED
    BY <1>1, <2>1, <2>2
<1>3. Submitting(t)' \in {0, 1} /\ restarts \in Nat
  BY DEF Submitting, TypeOK, DataTypes
<1>4. runs'[t] + Debt(t)' <= Cardinality(Procs) + restarts'
  <2>1. Debt(t)' = Cardinality(Starting(t)') + Submitting(t)'
    BY <1>2, <1>3 DEF Debt
  <2> QED
    BY <1>1, <1>2, <1>3, <2>1
<1> QED
  BY <1>1, <1>2, <1>4 DEF Accounted

(* Nobody but its submit makes an id known. *)
LEMMA UnknownStays ==
  ASSUME TypeOK, NEW t \in Tasks, Unknown(t), [Next]_vars, call'[t] = "none", call[t] = "none",
         IsFiniteSet(Copies(t))
  PROVE  Unknown(t)'
<1> USE NullAssumption
<1> rows \in [Tasks -> Answers] /\ env \in [Procs -> [Tasks -> Answers]]
  BY DEF TypeOK, DataTypes
<1>c. UNCHANGED queue => Copies(t)' = Copies(t)
  BY DEF Copies, Queues
<1>e. ASSUME NEW p \in Procs, NEW u \in Tasks, u # t, queue' = queue \/ queue' = Enqueued(p, u)
      PROVE  Copies(t)' = {}
  BY <1>e, PushCopies DEF Unknown, TypeOK
<1>1. ASSUME NEW p \in Procs, Start(p) PROVE Unknown(t)'
  <2>1. t \notin ListRecoverable
    BY DEF Unknown, ListRecoverable, Recoverable, Nothing
  <2>2. UNCHANGED <<rows, runs, queue, cur>> /\ \A q \in Procs : recover'[q] \in {recover[q], ListRecoverable}
    BY <1>1 DEF Start, data, TypeOK, ControlTypes
  <2> QED
    BY <1>c, <2>1, <2>2 DEF Unknown
<1>2. ASSUME NEW p \in Procs, NEW u \in Tasks, RecoverNext(p, u) PROVE Unknown(t)'
  <2>1. u # t /\ (queue' = queue \/ queue' = Enqueued(p, u))
    BY <1>2 DEF RecoverNext, Unknown, data
  <2>2. UNCHANGED <<rows, runs, cur>> /\ \A q \in Procs : recover'[q] \subseteq recover[q]
    BY <1>2 DEF RecoverNext, data, TypeOK, ControlTypes
  <2> QED
    BY <1>e, <2>1, <2>2 DEF Unknown
<1>3. ASSUME NEW p \in Procs, FinishStart(p) \/ Drop(p) PROVE Unknown(t)'
  BY <1>3, <1>c DEF FinishStart, Drop, data, Unknown, TypeOK, ControlTypes
<1>4. ASSUME NEW p \in Procs, NEW u \in Tasks, SubmitPersist(p, u) PROVE Unknown(t)'
  <2>1. u # t
    BY <1>4 DEF SubmitPersist, TypeOK, ControlTypes
  <2> QED
    BY <1>4, <1>c, <2>1 DEF SubmitPersist, Attempted, life, Unknown
<1>5. ASSUME NEW p \in Procs, NEW u \in Tasks, SubmitEnqueue(p, u) PROVE Unknown(t)'
  <2>1. u # t /\ (queue' = queue \/ queue' = Enqueued(p, u))
    BY <1>5 DEF SubmitEnqueue
  <2> QED
    BY <1>5, <1>e, <2>1 DEF SubmitEnqueue, life, Unknown
<1>6. ASSUME NEW p \in Procs, NEW u \in Tasks, SubmitReturn(p, u) PROVE Unknown(t)'
  BY <1>6, <1>c DEF SubmitReturn, life, data, Unknown
<1>7. ASSUME NEW p \in Procs, Dequeue(p) PROVE Unknown(t)'
  <2>1. Copies(t)' = {} /\ Head(queue[QueueOf(p)]) # t
    BY <1>7, PopCopies DEF Dequeue, Unknown, TypeOK
  <2> QED
    BY <1>7, <2>1 DEF Dequeue, Unknown, TypeOK, ControlTypes
<1>8. ASSUME NEW p \in Procs, Begin(p) \/ Execute(p) \/ RecordCompleted(p) \/ RecordFailed(p) PROVE Unknown(t)'
  <2>1. cur[p] \in Tasks /\ cur[p] # t
    BY <1>8, WorkerTaskType DEF Begin, Execute, RecordCompleted, RecordFailed, Unknown
  <2>2. UNCHANGED <<queue, recover>> /\ (cur' = cur \/ cur' = [cur EXCEPT ![p] = NoTask])
    BY <1>8 DEF Begin, Execute, RecordCompleted, RecordFailed
  <2>3. rows'[t] = rows[t] /\ runs'[t] = runs[t]
    BY <1>8, <2>1 DEF Begin, Execute, RecordCompleted, RecordFailed, Attempted, TypeOK, DataTypes
  <2> QED
    BY <1>c, <2>2, <2>3 DEF Unknown, TypeOK, ControlTypes
<1>9. ASSUME NEW p \in Procs, Stop(p) PROVE Unknown(t)'
  BY <1>9, <1>c DEF Stop, data, Unknown, TypeOK, ControlTypes
<1>10. ASSUME NEW p \in Procs, Gone(p) PROVE Unknown(t)'
  <2>1. Copies(t)' \subseteq Copies(t)
    BY <1>10 DEF Gone, Copies, Queues, TypeOK, DataTypes
  <2> QED
    BY <1>10, <2>1 DEF Gone, RowsAfterExit, Unknown, TypeOK, ControlTypes
<1>11. CASE UNCHANGED vars
  BY <1>11, <1>c DEF vars, life, data, Unknown
<1> QED
  BY <1>1, <1>2, <1>3, <1>4, <1>5, <1>6, <1>7, <1>8, <1>9, <1>10, <1>11
     DEF Next, ProcNext, StartStep, RequestStep, WorkerStep, Exit, Crash

(* Every step of a process moves a debt of t or pays it, and only stop() and *)
(* a crash, which are counted, make a new one.                              *)
LEMMA AccountedStep ==
  ASSUME TypeOK, TypeOK', NEW t \in Tasks, IsFiniteSet(Procs), Accounted(t), call[t] # "none", [Next]_vars
  PROVE  Accounted(t)'
<1> USE NullAssumption
<1> DEFINE Copied == Cardinality(Copies(t))
           Run    == Cardinality(Executing(t))
           Begun  == Cardinality(Starting(t))
           Sent   == Submitting(t)
<1>n. /\ Executing(t) \subseteq Procs /\ Starting(t) \subseteq Procs
      /\ IsFiniteSet(Executing(t)) /\ IsFiniteSet(Starting(t)) /\ IsFiniteSet(Copies(t))
      /\ Executing(t)' \subseteq Procs /\ Starting(t)' \subseteq Procs
      /\ Run' \in Nat /\ Begun' \in Nat /\ Sent' \in Nat
      /\ Copied \in Nat /\ Run \in Nat /\ Begun \in Nat /\ Sent \in Nat
  <2>1. /\ Executing(t) \subseteq Procs /\ Starting(t) \subseteq Procs
        /\ Executing(t)' \subseteq Procs /\ Starting(t)' \subseteq Procs
        /\ Sent \in Nat /\ Sent' \in Nat /\ IsFiniteSet(Copies(t))
    BY DEF Executing, Starting, Submitting, Accounted
  <2> QED
    BY <2>1, Counting
<1>d. /\ runs[t] \in Nat /\ runs'[t] \in Nat /\ restarts \in Nat /\ restarts' \in Nat
  BY DEF TypeOK, DataTypes
<1>s. ASSUME call'[t] # "none", IsFiniteSet(Copies(t)'), Copied' \in Nat,
             runs'[t] + Copied' + Run' + Begun' + Sent' <=
               runs[t] + Copied + Run + Begun + Sent + (restarts' - restarts)
      PROVE  Accounted(t)'
  <2>1. /\ Debt(t)' = Copied' + Run' + Begun' + Sent'
        /\ Debt(t) = Copied + Run + Begun + Sent
    BY DEF Debt
  <2>2. runs'[t] + Debt(t)' <= runs[t] + Debt(t) + (restarts' - restarts)
    <3> HIDE DEF Copied, Run, Begun, Sent
    <3> QED
      BY <1>s, <1>n, <1>d, <2>1
  <2> QED
    BY <1>s, <2>2, Settled
<1>k. UNCHANGED queue => Copies(t)' = Copies(t)
  BY DEF Copies, Queues
<1>r. /\ Executing(t)' \subseteq Executing(t) => Run' <= Run
      /\ Starting(t)' \subseteq Starting(t) => Begun' <= Begun
      /\ \A p : Executing(t)' \subseteq Executing(t) \cup {p} => Run' <= Run + 1
      /\ \A p : Starting(t)' \subseteq Starting(t) \cup {p} => Begun' <= Begun + 1
      /\ \A p : p \in Executing(t) /\ Executing(t)' \subseteq Executing(t) \ {p} => Run' + 1 <= Run
      /\ \A p : p \in Starting(t) /\ Starting(t)' \subseteq Starting(t) \ {p} => Begun' + 1 <= Begun
  BY <1>n, Counting
<1> HIDE DEF Copied, Run, Begun, Sent
<1>1. ASSUME NEW p \in Procs, Start(p) \/ FinishStart(p) \/ Drop(p) PROVE Accounted(t)'
  <2>1. UNCHANGED <<calls, queue, runs, restarts>> /\ Sent' = Sent
    BY <1>1 DEF Start, FinishStart, Drop, calls, data, faults, Sent, Submitting
  <2>2. Executing(t)' \subseteq Executing(t)
    BY <1>1 DEF Start, FinishStart, Drop, Executing, TypeOK, ControlTypes
  <2>3. Starting(t)' \subseteq Starting(t)
    BY <1>1 DEF Start, FinishStart, Drop, Starting, TypeOK, ControlTypes
  <2>4. Copied' = Copied
    BY <1>k, <2>1 DEF Copied
  <2> QED
    BY <1>s, <1>k, <1>n, <1>d, <1>r, <2>1, <2>2, <2>3, <2>4 DEF calls
<1>2. ASSUME NEW p \in Procs, NEW u \in Tasks, RecoverNext(p, u) PROVE Accounted(t)'
  <2>1. UNCHANGED <<pc, cur, calls, runs, restarts>> /\ Sent' = Sent /\ (queue' = queue \/ queue' = Enqueued(p, u))
    BY <1>2 DEF RecoverNext, calls, data, Sent, Submitting
  <2>2. Run' = Run
    BY <2>1 DEF Run, Executing
  <2>3. /\ IsFiniteSet(Copies(t)') /\ Copied' \in Nat /\ Copied' <= Copied + 1
        /\ u # t => Copied' <= Copied
    <3>1. /\ IsFiniteSet(Copies(t)') /\ Copied' \in Nat /\ Copied' <= Copied + 1
          /\ u # t => Copies(t)' \subseteq Copies(t)
      BY <2>1, <1>n, PushCopies DEF TypeOK, Copied
    <3> QED
      BY <3>1, <1>n, Counting DEF Copied
  <2>4. Starting(t)' \subseteq Starting(t) /\ (u = t => p \in Starting(t) /\ Starting(t)' \subseteq Starting(t) \ {p})
    BY <1>2 DEF RecoverNext, Starting, TypeOK, ControlTypes
  <2>5. CASE u = t
    <3>1. Begun' + 1 <= Begun
      BY <1>r, <2>4, <2>5
    <3>2. /\ call'[t] # "none" /\ IsFiniteSet(Copies(t)') /\ Copied' \in Nat /\ Copied' <= Copied + 1
          /\ runs'[t] = runs[t] /\ restarts' = restarts /\ Run' = Run /\ Sent' = Sent
      BY <2>1, <2>2, <2>3 DEF calls
    <3>3. runs'[t] + Copied' + Run' + Begun' + Sent' <= runs[t] + Copied + Run + Begun + Sent + (restarts' - restarts)
      <4>1. \A r, a, b, c, d, x, y, z \in Nat :
              a <= b + 1 /\ c + 1 <= d => r + a + x + c + y <= r + b + x + d + y + (z - z)
        OBVIOUS
      <4>2. /\ Begun' \in Nat /\ Begun \in Nat /\ Run \in Nat /\ Sent \in Nat /\ Copied \in Nat
            /\ runs[t] \in Nat /\ restarts \in Nat
        BY <1>n, <1>d
      <4>3. runs[t] + Copied' + Run + Begun' + Sent <= runs[t] + Copied + Run + Begun + Sent + (restarts - restarts)
        BY <3>1, <3>2, <4>1, <4>2
      <4> QED
        BY <3>2, <4>3
    <3> QED
      BY <1>s, <3>2, <3>3
  <2>6. CASE u # t
    <3>1. Begun' <= Begun /\ Copied' <= Copied
      BY <1>r, <2>3, <2>4, <2>6
    <3> QED
      BY <1>s, <1>n, <1>d, <2>1, <2>2, <2>3, <3>1 DEF calls
  <2> QED
    BY <2>5, <2>6
<1>3. ASSUME NEW p \in Procs, NEW u \in Tasks, SubmitPersist(p, u) \/ SubmitReturn(p, u) PROVE Accounted(t)'
  <2>1. UNCHANGED <<life, queue, runs, restarts>>
    BY <1>3 DEF SubmitPersist, SubmitReturn, data, faults
  <2>2. Sent' = Sent /\ call'[t] # "none"
    BY <1>3 DEF SubmitPersist, SubmitReturn, Sent, Submitting, TypeOK, ControlTypes
  <2>3. Run' = Run /\ Begun' = Begun /\ Copied' = Copied
    BY <2>1, <1>k DEF life, Run, Begun, Copied, Executing, Starting
  <2> QED
    BY <1>s, <1>k, <1>n, <1>d, <2>1, <2>2, <2>3
<1>4. ASSUME NEW p \in Procs, NEW u \in Tasks, SubmitEnqueue(p, u) PROVE Accounted(t)'
  <2>1. UNCHANGED <<life, runs, restarts>> /\ (queue' = queue \/ queue' = Enqueued(p, u))
    BY <1>4 DEF SubmitEnqueue
  <2>2. Run' = Run /\ Begun' = Begun
    BY <2>1 DEF life, Run, Begun, Executing, Starting
  <2>3. /\ IsFiniteSet(Copies(t)') /\ Copied' \in Nat /\ Copied' <= Copied + 1
        /\ u # t => Copied' <= Copied
    <3>1. /\ IsFiniteSet(Copies(t)') /\ Copied' \in Nat /\ Copied' <= Copied + 1
          /\ u # t => Copies(t)' \subseteq Copies(t)
      BY <2>1, <1>n, PushCopies DEF TypeOK, Copied
    <3> QED
      BY <3>1, <1>n, Counting DEF Copied
  <2>4. call'[t] # "none" /\ (u # t => Sent' = Sent) /\ (u = t => Sent = 1 /\ Sent' = 0)
    BY <1>4 DEF SubmitEnqueue, Sent, Submitting, TypeOK, ControlTypes
  <2> QED
    BY <1>s, <1>n, <1>d, <2>1, <2>2, <2>3, <2>4
<1>5. ASSUME NEW p \in Procs, Dequeue(p) PROVE Accounted(t)'
  <2>1. UNCHANGED <<phase, recover, calls, runs, restarts>> /\ Sent' = Sent
    BY <1>5 DEF Dequeue, calls, faults, Sent, Submitting
  <2>2. Begun' = Begun
    BY <2>1 DEF Begun, Starting
  <2>3. /\ IsFiniteSet(Copies(t)') /\ Copied' \in Nat /\ Copied' <= Copied
        /\ Head(queue[QueueOf(p)]) = t => Copied' + 1 <= Copied
    BY <1>5, <1>n, PopCopies DEF Dequeue, TypeOK, Copied
  <2>4. /\ Executing(t)' \subseteq Executing(t) \cup {p}
        /\ Head(queue[QueueOf(p)]) # t => Executing(t)' \subseteq Executing(t)
    BY <1>5 DEF Dequeue, Executing, TypeOK, ControlTypes
  <2> QED
    BY <1>s, <1>n, <1>d, <1>r, <2>1, <2>2, <2>3, <2>4 DEF calls
<1>6. ASSUME NEW p \in Procs, Begin(p) \/ RecordCompleted(p) \/ RecordFailed(p) PROVE Accounted(t)'
  <2>1. UNCHANGED <<phase, recover, calls, queue, runs, restarts>> /\ Sent' = Sent
    BY <1>6 DEF Begin, RecordCompleted, RecordFailed, calls, Sent, Submitting
  <2>2. Executing(t)' \subseteq Executing(t)
    <3>1. \A q \in Procs \ {p} : cur'[q] = cur[q] /\ pc'[q] = pc[q]
      BY <1>6 DEF Begin, RecordCompleted, RecordFailed, TypeOK, ControlTypes
    <3>2. cur'[p] = NoTask \/ (cur'[p] = cur[p] /\ (pc[p] = "got" \/ pc'[p] = "raised"))
      BY <1>6 DEF Begin, RecordCompleted, RecordFailed, TypeOK, ControlTypes
    <3> QED
      BY <3>1, <3>2 DEF Executing
  <2>3. Copied' = Copied /\ Begun' = Begun
    BY <1>k, <2>1 DEF Copied, Begun, Starting
  <2> QED
    BY <1>s, <1>k, <1>n, <1>d, <1>r, <2>1, <2>2, <2>3 DEF calls
<1>7. ASSUME NEW p \in Procs, Execute(p) PROVE Accounted(t)'
  <2>1. UNCHANGED <<phase, recover, calls, queue, restarts>> /\ Sent' = Sent
    BY <1>7 DEF Execute, calls, faults, Sent, Submitting
  <2>2. Copied' = Copied /\ Begun' = Begun
    BY <1>k, <2>1 DEF Copied, Begun, Starting
  <2>3. Executing(t)' \subseteq Executing(t) /\ (cur[p] = t => p \in Executing(t) /\ Executing(t)' \subseteq Executing(t) \ {p})
    BY <1>7 DEF Execute, Executing, TypeOK, ControlTypes
  <2>4. runs'[t] = IF cur[p] = t THEN runs[t] + 1 ELSE runs[t]
    BY <1>7, <1>d DEF Execute, TypeOK, DataTypes
  <2>5. runs'[t] + Run' <= runs[t] + Run
    <3>1. CASE cur[p] = t
      <4>1. Run' + 1 <= Run
        BY <1>r, <2>3, <3>1
      <4>2. runs'[t] = runs[t] + 1
        BY <2>4, <3>1
      <4>3. \A r, c, d \in Nat : c + 1 <= d => (r + 1) + c <= r + d
        OBVIOUS
      <4>4. runs[t] \in Nat /\ Run \in Nat /\ Run' \in Nat
        BY <1>n, <1>d
      <4>5. (runs[t] + 1) + Run' <= runs[t] + Run
        BY <4>1, <4>3, <4>4
      <4> QED
        BY <4>2, <4>5
    <3>2. CASE cur[p] # t
      BY <1>n, <1>d, <1>r, <2>3, <2>4, <3>2
    <3> QED
      BY <3>1, <3>2
  <2>6. call'[t] # "none" /\ IsFiniteSet(Copies(t)') /\ Copied' \in Nat
    BY <1>k, <1>n, <2>1, <2>2 DEF calls
  <2> QED
    BY <1>s, <1>n, <1>d, <2>1, <2>2, <2>5, <2>6
<1>8. ASSUME NEW p \in Procs, Stop(p) PROVE Accounted(t)'
  <2>1. UNCHANGED <<recover, calls, queue, runs>> /\ Sent' = Sent /\ restarts' = restarts + 1
    BY <1>8 DEF Stop, calls, data, Sent, Submitting
  <2>2. Executing(t)' \subseteq Executing(t)
    BY <1>8 DEF Stop, Cancelled, Executing, TypeOK, ControlTypes
  <2>3. Starting(t)' \subseteq Starting(t) \cup {p}
    BY <1>8 DEF Stop, Starting, TypeOK, ControlTypes
  <2>4. Copied' = Copied
    BY <1>k, <2>1 DEF Copied
  <2>5. Run' <= Run /\ Begun' <= Begun + 1
    BY <1>r, <2>2, <2>3
  <2>6. call'[t] # "none" /\ IsFiniteSet(Copies(t)') /\ Copied' \in Nat /\ runs'[t] = runs[t]
    <3>1. Copies(t)' = Copies(t)
      BY <1>k, <2>1
    <3>2. call' = call /\ runs' = runs
      BY <2>1 DEF calls
    <3> QED
      BY <1>n, <2>4, <3>1, <3>2
  <2>7. /\ runs[t] \in Nat /\ Copied \in Nat /\ Run \in Nat /\ Run' \in Nat /\ Sent \in Nat
        /\ Begun \in Nat /\ Begun' \in Nat /\ restarts \in Nat
    BY <1>n, <1>d
  <2>8. \A r, a, b, c, d, e, x, z \in Nat :
          b <= a /\ d <= c + 1 => r + x + b + d + e <= r + x + a + c + e + ((z + 1) - z)
    OBVIOUS
  <2>9. runs[t] + Copied + Run' + Begun' + Sent <= runs[t] + Copied + Run + Begun + Sent + ((restarts + 1) - restarts)
    BY <2>5, <2>7, <2>8
  <2>10. runs'[t] + Copied' + Run' + Begun' + Sent' <= runs[t] + Copied + Run + Begun + Sent + (restarts' - restarts)
    BY <2>1, <2>4, <2>6, <2>9
  <2> QED
    BY <1>s, <2>6, <2>10
<1>9. ASSUME NEW p \in Procs, Exit(p) \/ Crash(p) PROVE Accounted(t)'
  <2>1. UNCHANGED runs /\ Sent' <= Sent /\ call'[t] # "none"
    BY <1>9 DEF Exit, Crash, Gone, Sent, Submitting
  <2>2. Executing(t)' \subseteq Executing(t)
    BY <1>9 DEF Exit, Crash, Gone, Executing, TypeOK, ControlTypes
  <2>3. /\ Starting(t)' \subseteq Starting(t) \cup {p} /\ (Exit(p) => Starting(t)' \subseteq Starting(t))
        /\ restarts' = IF Exit(p) THEN restarts ELSE restarts + 1
    <3>1. \A q \in Procs \ {p} : phase'[q] = phase[q] /\ recover'[q] = recover[q]
      BY <1>9 DEF Exit, Crash, Gone, TypeOK, ControlTypes
    <3>2. Exit(p) => phase[p] = "stopped" /\ restarts' = restarts
      BY DEF Exit
    <3>3. ~Exit(p) => restarts' = restarts + 1
      BY <1>9 DEF Crash
    <3>4. Starting(t)' \subseteq Starting(t) \cup {p}
      BY <3>1 DEF Starting
    <3>5. Exit(p) => Starting(t)' \subseteq Starting(t)
      BY <3>1, <3>2 DEF Starting
    <3> QED
      BY <3>2, <3>3, <3>4, <3>5
  <2>4. Copies(t)' \subseteq Copies(t)
    <3>1. \A q \in Queues : queue'[q] = queue[q] \/ queue'[q] = <<>>
      BY <1>9 DEF Exit, Crash, Gone, Queues, TypeOK, DataTypes
    <3> QED
      BY <3>1 DEF Copies, Queues
  <2>5. IsFiniteSet(Copies(t)') /\ Copied' \in Nat /\ Copied' <= Copied
    BY <2>4, <1>n, Counting DEF Copied
  <2> QED
    BY <1>s, <1>n, <1>d, <1>r, <2>1, <2>2, <2>3, <2>5
<1>10. CASE UNCHANGED vars
  <2>1. Run' = Run /\ Begun' = Begun /\ Copied' = Copied /\ Sent' = Sent
    BY <1>10, <1>k DEF vars, life, calls, data, Run, Begun, Copied, Sent, Executing, Starting, Submitting
  <2> QED
    BY <1>10, <1>s, <1>k, <1>n, <1>d, <2>1 DEF vars, calls, data, faults
<1> QED
  BY <1>1, <1>2, <1>3, <1>4, <1>5, <1>6, <1>7, <1>8, <1>9, <1>10
     DEF Next, ProcNext, StartStep, RequestStep, WorkerStep

(* Any number of processes, either queue, whatever stops, crashes and       *)
(* faults: a task is executed once for its submit and once for every start  *)
(* of a process at most.                                                    *)
THEOREM RunsAreBounded == IsFiniteSet(Procs) => (Spec => []RunsBounded)
<1> SUFFICES ASSUME IsFiniteSet(Procs) PROVE Spec => []RunsBounded
  OBVIOUS
<1> DEFINE AllAccounted == \A t \in Tasks : Accounted(t)
<1>1. Init => AllAccounted
  <2> SUFFICES ASSUME Init, NEW t \in Tasks PROVE Accounted(t)
    OBVIOUS
  <2>1. Copies(t) = {} /\ call[t] = "none" /\ Unknown(t)
    BY NullAssumption DEF Init, Copies, Unknown, Queues
  <2> QED
    BY <2>1, FS_EmptySet DEF Accounted
<1>2. TypeOK /\ TypeOK' /\ AllAccounted /\ [Next]_vars => AllAccounted'
  <2> SUFFICES ASSUME TypeOK, TypeOK', AllAccounted, [Next]_vars, NEW t \in Tasks PROVE Accounted(t)'
    OBVIOUS
  <2>1. CASE call[t] # "none"
    BY <2>1, AccountedStep
  <2>2. CASE call[t] = "none" /\ call'[t] = "none"
    <3>1. Unknown(t)'
      BY <2>2, UnknownStays DEF Accounted
    <3>2. IsFiniteSet(Copies(t)')
      BY <3>1, FS_EmptySet DEF Unknown
    <3> QED
      BY <2>2, <3>1, <3>2 DEF Accounted
  <2>3. CASE call[t] = "none" /\ call'[t] # "none"
    <3>1. \E p \in Procs : SubmitPersist(p, t)
      <4>1. ASSUME NEW p \in Procs, NEW u \in Tasks, SubmitPersist(p, u) PROVE u = t
        BY <2>3, <4>1 DEF SubmitPersist, TypeOK, ControlTypes
      <4>2. ASSUME NEW p \in Procs, NEW u \in Tasks, SubmitEnqueue(p, u) \/ SubmitReturn(p, u) PROVE FALSE
        BY <2>3, <4>2 DEF SubmitEnqueue, SubmitReturn, TypeOK, ControlTypes
      <4>3. ASSUME NEW p \in Procs, StartStep(p) \/ WorkerStep(p) \/ Stop(p) PROVE FALSE
        BY <2>3, <4>3 DEF StartStep, Start, RecoverNext, FinishStart, WorkerStep, Dequeue, Drop, Begin, Execute,
           RecordCompleted, RecordFailed, Stop, calls
      <4>4. ASSUME NEW p \in Procs, Gone(p) PROVE FALSE
        BY <2>3, <4>4 DEF Gone, InFlight
      <4>5. CASE UNCHANGED vars
        BY <2>3, <4>5 DEF vars, calls
      <4> QED
        BY <4>1, <4>2, <4>3, <4>4, <4>5 DEF Next, ProcNext, RequestStep, Exit, Crash
    <3> QED
      BY <3>1, SubmitAccounted
  <2> QED
    BY <2>1, <2>2, <2>3
<1>3. TypeOK /\ AllAccounted => RunsBounded
  <2> SUFFICES ASSUME TypeOK, NEW t \in Tasks, Accounted(t)
               PROVE  runs[t] <= Cardinality(Procs) + restarts
    BY DEF RunsBounded
  <2>1. Cardinality(Procs) \in Nat /\ runs[t] \in Nat /\ restarts \in Nat
    BY FS_CardinalityType DEF TypeOK, DataTypes
  <2>2. Debt(t) \in Nat
    <3>1. Executing(t) \subseteq Procs /\ Starting(t) \subseteq Procs /\ Submitting(t) \in Nat /\ IsFiniteSet(Copies(t))
      BY DEF Executing, Starting, Submitting, Accounted
    <3>2. Cardinality(Executing(t)) \in Nat /\ Cardinality(Starting(t)) \in Nat /\ Cardinality(Copies(t)) \in Nat
      BY <3>1, Counting
    <3> QED
      BY <3>1, <3>2 DEF Debt
  <2> HIDE DEF Debt
  <2> QED
    BY <2>1, <2>2 DEF Accounted, Unknown
<1>4. QED
  BY <1>1, <1>2, <1>3, TypeInvariant, PTL DEF Spec
==============================================================================
